\* Three circuits (KC 87, LC 80: CTC, PIO, PIO) whose irqack() has a vector.
SPECIFICATION SpecNoReset
CONSTANTS
  N = 3
  FreshAcks <- SaneFresh
  ReAcks <- SaneAgain
  MaxNest = 3
INVARIANTS
  ActiveMeansServicing
