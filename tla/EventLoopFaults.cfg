CONSTANTS
  Clients = {c1, c2}
  Fds = {f1, f2, f3}
  Pids = {p1}
  Methods = {"CGI", "POST"}
  Chunkings = {FALSE}
  Faults = {"fork", "pipe", "page", "accept", "field"}
  MAX_EVENT = 2
  Listener = Listener
  None = None
  Failed = Failed
SPECIFICATION Spec
SYMMETRY Symmetry
INVARIANTS
  NoOrphanChild
PROPERTIES
  KillsOnlyOwnChild
  AnswerIsFinal
\* The loop may be left, and peers connect only as often as Clients has members.
CHECK_DEADLOCK FALSE
