------------------------------- MODULE Kqueue -------------------------------
(***************************************************************************)
(* The kernel event queue as Operation and Client use it: a set of knotes, *)
(* each an (ident, filter) pair with the udata pointer it was registered   *)
(* with.  kevent(2) is not part of the repository; these operators say     *)
(* what EV_ADD, EV_DELETE and close(2) do to the set.                      *)
(***************************************************************************)
CONSTANTS Clients,  \* the Client objects, one for each accepted connection
          Fds,      \* the descriptor numbers the process may open
          Pids,     \* the process ids fork(2) may return
          Listener, \* the descriptor of the listening socket
          None      \* NULL udata, and INIT_PIPE and INIT_PID of enum.hpp

Filters == {"READ", "WRITE", "PROC", "TIMER"}

Knotes ==
  [filter : {"PROC"}, id : Pids, udata : Clients]
    \cup [filter : Filters \ {"PROC"}, id : Fds \cup {Listener}, udata : Clients \cup {None}]

Knote(f, i, c) == [filter |-> f, id |-> i, udata |-> c]

\* EV_DELETE of an absent knote is ENOENT, and kevent returns -1.
Has(K, f, i) == \E k \in K : k.filter = f /\ k.id = i

Del(K, f, i) == {k \in K : ~(k.filter = f /\ k.id = i)}

\* EV_ADD of a registered (ident, filter) pair replaces its udata.
Add(K, f, i, c) == Del(K, f, i) \cup {Knote(f, i, c)}

\* Closing a descriptor removes its READ and WRITE knotes.  A timer's ident is
\* only a number: the knote stays.
CloseAll(K, S) == {k \in K : ~(k.filter \in {"READ", "WRITE"} /\ k.id \in S)}
=============================================================================
