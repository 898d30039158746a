\* The guest enables interrupts inside a handler.
SPECIFICATION SpecNoReset
CONSTANTS
  N = 2
  Channels = 2
  CounterChannels <- TimersOnly
  MaxNest = 2
  GuestDisables = FALSE
INVARIANTS
  OneActiveChannel
