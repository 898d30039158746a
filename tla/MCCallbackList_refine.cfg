\* Up to three events; the second block is allocated when the first is used up.
SPECIFICATION Spec
CONSTANTS
  Callbacks = {c1, c2}
  Null = Null
  Offsets <- WithZero
  Ticks <- SomeTicks
  Capacity = 3
  AllocSize = 1
  MaxEntries = 4
INVARIANTS
  ListSound
PROPERTIES
  ImplementsQueue
  EventuallyCalled
