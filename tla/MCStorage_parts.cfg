\* Three files compete for four free blocks: the space and the directory fill
\* up, and the emulator may be killed between any two writes.  A program that
\* finishes its transfers reads and writes sectors of the hard disk.
SPECIFICATION StorageSpec
CONSTANTS
  Names = {A, B, C}
  Lens = {1, 2}
  Blocks = 6
  DirBlocks = 2
  Slots = 2
  NoEntry = NoEntry
  RenameDialog = FALSE
  Crashes = TRUE
  Size = 2
  Heads <- TwoThenOne
  Sectors <- OneThenTwo
  CylinderLow = {0, 1}
  CylinderHigh = {0}
  HeadNumbers = {0, 1}
  SectorNumbers = {1, 2}
  Data = {1, 2}
  Images = {{0}}
  MaxCommands = 2
SYMMETRY NamesAlike

  
PROPERTIES
  IsArchive
  NothingLost
  ImplementsDisk
