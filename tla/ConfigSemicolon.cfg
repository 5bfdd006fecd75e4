CONSTANTS
  Files <- DirectiveFiles
  Configs = {}
  Plain <- SomeWords
  Ports = {"80", "81"}
  AnyPort = AnyPort
  None = None
SPECIFICATION Spec
INVARIANTS
  SemicolonChecked
\* Parsing ends.
CHECK_DEADLOCK FALSE
