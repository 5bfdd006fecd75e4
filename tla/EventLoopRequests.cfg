CONSTANTS
  Clients = {c1}
  Fds = {f1, f2, f3}
  Pids = {p1, p2}
  Methods = {"GET", "DELETE", "CGI", "POST"}
  Chunkings = {FALSE, TRUE}
  Faults = {"accept", "page"}
  MAX_EVENT = 3
  Listener = Listener
  None = None
  Failed = Failed
SPECIFICATION Spec
SYMMETRY Symmetry
INVARIANTS
  NoEarlyReply
  OnlyCgiTakesItDown
\* The loop may be left, and peers connect only as often as Clients has members.
CHECK_DEADLOCK FALSE
