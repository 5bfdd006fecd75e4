----------------------------- MODULE Connection -----------------------------
(***************************************************************************)
(* What the server promises to each of its peers, as long as it is up: on  *)
(* a connection requests and answers alternate, an answer has one status   *)
(* from its first byte to its last, only one connection at a time moves,   *)
(* and a closed connection stays closed.  EventLoop implements this with   *)
(* knotes, Clients and children.                                           *)
(***************************************************************************)
CONSTANTS Clients,
          Errors   \* the status codes of errors, 405 among them

VARIABLES
  stage, \* of each connection: unborn, awaiting a request, answering, closed, or lost
  code,  \* the status of the answer each connection sends
  up     \* the loop runs, and no descriptor was closed under another's feet

vars == <<stage, code, up>>

Init ==
  /\ stage = [c \in Clients |-> "unborn"]
  /\ code = [c \in Clients |-> 200]
  /\ up = TRUE

Accept(c) ==
  /\ stage[c] = "unborn"
  /\ stage' = [stage EXCEPT ![c] = "awaiting"]
  /\ UNCHANGED code

\* The answer to a request, or an error.
Answer(c, status) ==
  /\ stage[c] = "awaiting"
  /\ stage' = [stage EXCEPT ![c] = "answering"]
  /\ code' = [code EXCEPT ![c] = status]

\* The last byte is out, and the next request may come; not after a 405.
Finish(c) ==
  /\ stage[c] = "answering" /\ code[c] # 405
  /\ stage' = [stage EXCEPT ![c] = "awaiting"]
  /\ code' = [code EXCEPT ![c] = 200]

Close(c) ==
  /\ stage[c] \in {"awaiting", "answering"}
  /\ stage' = [stage EXCEPT ![c] = "closed"]
  /\ code' = [code EXCEPT ![c] = 200]

\* Nothing is promised once the loop is left, or a stale descriptor is closed.
Lose ==
  /\ up' = FALSE
  /\ stage' = [c \in Clients |-> "lost"]
  /\ code' = [c \in Clients |-> 200]

Converse(c) ==
  /\ UNCHANGED up
  /\ \/ Accept(c) \/ Finish(c) \/ Close(c)
     \/ \E status \in {200} \cup Errors : Answer(c, status)

Next == up /\ (Lose \/ \E c \in Clients : Converse(c))

Spec == Init /\ [][Next]_vars
=============================================================================
