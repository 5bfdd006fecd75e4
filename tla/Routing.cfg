CONSTANTS
  Word <- SomeWords
  Servers <- TwoPorts
  Talks <- SomeTalks
  Patience = {TRUE, FALSE}
  Numbers <- SomeNumbers
  None = None
SPECIFICATION Spec
INVARIANTS
  TypeOK
  AnsweredAsAsked
  NobodyWaits
  FileAsAsked
  
PROPERTY OnlyBodiesLost
\* The talk ends, or the connection is closed.
CHECK_DEADLOCK FALSE
