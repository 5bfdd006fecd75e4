CONSTANTS
  Clients = {c1, c2}
  Fds = {f1, f2, f3}
  Pids = {p1}
  Methods = {"GET", "CGI", "POST"}
  Chunkings = {FALSE}
  Faults = {"accept", "root"}
  MAX_EVENT = 2
  Listener = Listener
  None = None
  Failed = Failed
SPECIFICATION Spec
SYMMETRY Symmetry
INVARIANTS
  TypeOK
  UdataLive
  HalfDuplex
  TimerArmed
  CgiWatched
  RegistryLive
\* The loop may be left, and peers connect only as often as Clients has members.
CHECK_DEADLOCK FALSE
