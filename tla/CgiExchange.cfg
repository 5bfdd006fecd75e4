CONSTANTS
  Words <- SomeWords
  Bodies <- SomeBodies
  Outputs <- SomeOutputs
  Capacity = 2
  MaxTurns = 2
SPECIFICATION FairSpec
INVARIANTS
  TypeOK
  InputWhole
  AnswerWhole
  LostOnlyByRace
PROPERTIES
  Answered
\* The connection ends.
CHECK_DEADLOCK FALSE
