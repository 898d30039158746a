\* A file is added under the name chosen in the dialog, then one is removed.
SPECIFICATION Spec
CONSTANTS
  Names = {A, B, C}
  Lens = {1, 2}
  Blocks = 7
  DirBlocks = 2
  Slots = 2
  NoEntry = NoEntry
  RenameDialog = TRUE
  Crashes = FALSE
PROPERTIES
  RemoveTakesNamed
