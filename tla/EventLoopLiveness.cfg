CONSTANTS
  Clients = {c1, c2}
  Fds = {f1, f2, f3}
  Pids = {p1}
  Methods = {"CGI"}
  Chunkings = {FALSE}
  Faults = {}
  MAX_EVENT = 2
  Listener = Listener
  None = None
  Failed = Failed
SPECIFICATION FairSpec
PROPERTIES
  Reclaimed
  CgiTimesOut
\* The loop may be left, and peers connect only as often as Clients has members.
CHECK_DEADLOCK FALSE
