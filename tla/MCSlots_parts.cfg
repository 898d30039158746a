\* Modules in the slots of a machine: memory, chips, and ports, with modules of every kind
\* but the display controller.
SPECIFICATION SlotsSpec
CONSTANTS
  Blocks = {0, 14}
  Roms = {0, 3}
  Slots <- TwoSlots
  Address <- Addresses
  Output <- SomeOutput
  Bytes <- SomeBytes
  PortSlots = {1, 2, 3}
  Kinds = {"rtc", "fdc", "ramf", "raf", "js", "dio", "vdip", "m052"}
  Machine = {"90"}
  MaxMade = 4
INVARIANTS
  MemoryIsThere
  MapFollows
  
  
CHECK_DEADLOCK FALSE
