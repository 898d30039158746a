\* Three circuits (KC 87, LC 80), every device behaviour, system resets.
SPECIFICATION Spec
CONSTANTS
  N = 3
  FreshAcks <- AllAcks
  ReAcks <- AllAcks
  MaxNest = 2
INVARIANTS
  TypeOK
  ChainConsistent
  NoTemporaryState
  NoLostRequest
PROPERTIES
  AckByPriority
  HeadServed
