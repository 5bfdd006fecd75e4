CONSTANTS
  Files <- ShortFiles
  Configs = {}
  Plain <- SomeWords
  Ports = {"80", "81"}
  AnyPort = AnyPort
  None = None
SPECIFICATION Spec
INVARIANTS
  NamelessRefused
\* Parsing ends.
CHECK_DEADLOCK FALSE
