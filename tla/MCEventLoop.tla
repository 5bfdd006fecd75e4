---------------------------- MODULE MCEventLoop ----------------------------
EXTENDS EventLoop, TLC

Symmetry == Permutations(Clients) \cup Permutations(Fds) \cup Permutations(Pids)
=============================================================================
