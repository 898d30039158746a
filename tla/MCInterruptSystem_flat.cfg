\* A CTC and a PIO, handlers that do not nest, interrupts once enabled stay so.
SPECIFICATION SpecNoReset
CONSTANTS
  N = 2
  Channels = 3
  CounterChannels <- TimersOnly
  MaxNest = 1
  GuestDisables = FALSE
INVARIANTS
  DevicesAgree
PROPERTIES
  RequestGetsVector
  ChannelServed
