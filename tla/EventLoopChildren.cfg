CONSTANTS
  Clients = {c1, c2}
  Fds = {f1, f2, f3, f4}
  Pids = {p1, p2}
  Methods = {"CGI"}
  Chunkings = {FALSE}
  Faults = {}
  MAX_EVENT = 3
  Listener = Listener
  None = None
  Failed = Failed
SPECIFICATION Spec
SYMMETRY Symmetry
INVARIANTS
  WaitNeverBlocks
PROPERTIES
  ExitNotLost
  Converses
\* The loop may be left, and peers connect only as often as Clients has members.
CHECK_DEADLOCK FALSE
