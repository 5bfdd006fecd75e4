CONSTANTS
  Files <- EditedFiles
  Configs <- SomeConfigs
  Plain <- SomeWords
  Ports = {"80", "81"}
  AnyPort = AnyPort
  None = None
SPECIFICATION Spec
INVARIANTS
  TypeOK
  BlocksCounted
  WellFormedParsed
  RoutesUnambiguous
\* Parsing ends.
CHECK_DEADLOCK FALSE
