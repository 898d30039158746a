\* The floppy disk controller of four machines.
SPECIFICATION Spec
CONSTANTS
  Guests <- AllGuests
  Cylinders = {0, 1}
  Sectors = 2
  Size = 2
  Data = {0, 1}
  Blank <- EveryPattern
INVARIANTS
  PhasesSound
  BusyWhileSeeking
PROPERTIES
  ReadsInOrder
  WritesWhole
  KeepsRotating
CHECK_DEADLOCK FALSE
