\* A channel of a CTC written to at any time; every byte and every line of a PIO; keys
\* typed at any time; a tape copied from one machine to another.
SPECIFICATION ChipsSpec
CONSTANTS
  Channels = 1
  Cascade <- NoCascade
  Clocks <- AllMachines
  Triggered = {0}
  Values = {0, 1, 2}
  Full = 3
  P16 = 1
  P256 = 2
  Late = 2
  Ticks = {1, 2}
  MaxEvents = 2
  Ports = {"A"}
  Bits = {0, 1}
  Data = {{}, {0}, {0, 1}}
  Masks = {{}, {0}, {0, 1}}
  Lines = {{0}, {1}, {0, 1}}
  Levels = {{}, {0}, {1}, {0, 1}}
INVARIANTS
  EventsInOrder
  BanksFollow
  WordsWhole
  CopyIsTrue
PROPERTIES
  OnTime
  EdgeTriggers
  TimerGoesOn
  
