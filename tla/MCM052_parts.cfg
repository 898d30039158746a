\* The USB and the network half of the M052.  The USB's program stops after so
\* many commands.
SPECIFICATION M052Spec
CONSTANTS
  Commands <- Whole
  Hosts <- OneRoot
  Roots <- OneRootOnly
  Switches = FALSE
  Bytes = {"03", "04"}
  Polls = TRUE
  MaxCommands = 4
  MaxEvents = 0
  Cells = 3
  Values = {1, 2, 128}
  MaxCount = 2
  MaxSends = 2
  MaxPortResets = 2
INVARIANTS
  WritesLand
  
  CommandsAreSteps
PROPERTIES
  AnswersWhole
  AnswersCome
  EverySocketServed
CHECK_DEADLOCK FALSE
