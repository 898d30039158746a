\* A CTC and a PIO in full: the devices use the chain as it allows.
SPECIFICATION Spec
CONSTANTS
  N = 2
  Channels = 2
  CounterChannels <- CounterOne
  MaxNest = 2
  GuestDisables = TRUE
PROPERTIES
  ChainSpec
