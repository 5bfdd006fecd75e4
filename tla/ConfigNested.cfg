CONSTANTS
  Files <- NestedFiles
  Configs = {}
  Plain <- SomeWords
  Ports = {"80", "81"}
  AnyPort = AnyPort
  None = None
SPECIFICATION Spec
INVARIANTS
  ServersApart
\* Parsing ends.
CHECK_DEADLOCK FALSE
