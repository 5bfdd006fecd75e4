--------------------------- MODULE EventLoopProofs ---------------------------
(***************************************************************************)
(* Proofs about EventLoop, for any number of connections, descriptors,     *)
(* processes and any batch size.                                           *)
(***************************************************************************)
EXTENDS EventLoop, TLAPS, FiniteSetTheorems

\* One knote for a filter and an ident, in a set that is finite.
Typed(K) ==
  /\ K \subseteq Knotes
  /\ IsFiniteSet(K)
  /\ \A k, l \in K : k.filter = l.filter /\ k.id = l.id => k = l

\* The request has come, and a script for it, if any, was started.
Settled(r) == r.method = "POST" \/ r.body # "short"

\* What a knote or event k of a client says of that client's record r.
KnoteOK(k, r) ==
  /\ r.life # "unborn"
  /\ k.filter = "TIMER" => r.life = "live" /\ k.id = r.sock
  /\ k.filter = "PROC" => r.life = "live" /\ k.id = r.pid /\ r.st = "DONE"
  /\ k.filter = "READ" /\ k.id = r.sock => r.life = "live" /\ r.st # "CREATE"
  /\ k.filter = "WRITE" /\ k.id = r.sock =>
       /\ r.life = "live"
       /\ r.code = 200 => r.pid = None /\ r.st = "DONE" /\ Settled(r)

\* What holds of the record of an open connection by itself.
ClientOK(r) ==
  r.life = "live" =>
    /\ r.sock \in Fds
    /\ r.wfd # r.sock /\ r.rfd # r.sock
    /\ r.st = "DONE" /\ r.method = "POST" => r.wfd \in Fds
    /\ r.pid # None => r.st = "CREATE" \/ (r.st = "DONE" /\ r.method \in {"POST", "CGI"} /\ Settled(r))

\* A process that is watched was not reaped or killed; one whose exit is pending
\* in the batch B is no longer watched.
ProcOK(K, B, P) ==
  /\ \A k \in K : k.filter = "PROC" => P[k.id] \in {"running"} \cup Exited
  /\ \A k \in B : k.filter = "PROC" => P[k.id] \in Exited /\ ~Has(K, "PROC", k.id)

LoopInv ==
  /\ Typed(batch)
  /\ \A k \in kn \cup batch : k.udata # None => KnoteOK(k, cl[k.udata])
  /\ \A k \in kn \cup batch : k.udata = None => k = Knote("READ", Listener, None)
  /\ \A c \in Clients : ClientOK(cl[c])
  /\ ProcOK(kn, batch, proc)

IInv ==
  /\ TypeOK
  /\ Typed(kn) /\ IsFiniteSet(batch)
  /\ InLoop => LoopInv

\* The types of what a handler changes beside its client and the knotes.
OsType ==
  /\ clients \in [Fds -> Clients \cup {None}]
  /\ fdt \in [Fds -> FileTable]
  /\ proc \in [Pids -> Procs]
  /\ stolen \in BOOLEAN

\* The working copies of a handler of e for client c: the record r and the knotes
\* K are what LoopInv asks for, but for the event e itself; P is the next proc.
Held(e, c, r, K, P) ==
  /\ r \in Client /\ r.life = "live" /\ ClientOK(r)
  /\ Typed(K)
  /\ \A k \in K : k.udata # c => k \in kn
  /\ \A k \in K \cup (batch \ {e}) : k.udata = c => KnoteOK(k, r)
  /\ ProcOK(K, batch \ {e}, P)

-----------------------------------------------------------------------------
(* The four ways a handler ends preserve the invariant. *)

\* A handler that returns with consistent copies leaves the invariant in force.
LEMMA ReturnInv ==
  ASSUME NEW e \in batch, NEW c \in Clients, NEW r, NEW K,
         IInv, InLoop, OsType', Held(e, c, r, K, proc'), Return(e, c, r, K)
  PROVE  IInv'
<1> USE Sentinels DEF Return
<1>0. kn' = K /\ batch' = batch \ {e} /\ mode' = mode /\ cl' = [cl EXCEPT ![c] = r]
  OBVIOUS
<1>1. /\ cl \in [Clients -> Client] /\ r \in Client /\ mode \in Modes
      /\ batch \subseteq Knotes /\ IsFiniteSet(batch) /\ Cardinality(batch) <= MAX_EVENT
      /\ Typed(K) /\ Typed(batch)
  BY DEF IInv, TypeOK, Held, LoopInv
<1>2. cl' \in [Clients -> Client] /\ cl'[c] = r /\ \A d \in Clients \ {c} : cl'[d] = cl[d]
  BY <1>0, <1>1
<1>3. IsFiniteSet(batch') /\ Cardinality(batch') <= MAX_EVENT
  <2>1. IsFiniteSet(batch') /\ Cardinality(batch') <= Cardinality(batch)
    BY <1>0, <1>1, FS_Subset
  <2>2. Cardinality(batch) \in Nat /\ Cardinality(batch') \in Nat
    BY <1>1, <2>1, FS_CardinalityType
  <2> QED  BY <1>1, <2>1, <2>2, Parameters
<1>4. Typed(kn)' /\ Typed(batch)'
  BY <1>0, <1>1, <1>3 DEF Typed
<1>5. TypeOK'
  BY <1>0, <1>1, <1>2, <1>3, <1>4 DEF TypeOK, OsType, Typed
<1>6. \A k \in kn' \cup batch' : k.udata # None => k.udata \in Clients
  BY <1>4 DEF Typed, Knotes
<1>7. ASSUME NEW k \in kn' \cup batch', k.udata # None
      PROVE  KnoteOK(k, cl'[k.udata])
  <2>1. CASE k.udata = c
    BY <1>0, <1>2, <2>1 DEF Held
  <2>2. CASE k.udata # c
    <3>1. k \in kn \cup batch /\ cl'[k.udata] = cl[k.udata]
      BY <1>0, <1>2, <1>6, <1>7, <2>2 DEF Held
    <3> QED  BY <1>7, <3>1 DEF IInv, LoopInv
  <2> QED  BY <2>1, <2>2
<1>8. ASSUME NEW k \in kn' \cup batch', k.udata = None
      PROVE  k = Knote("READ", Listener, None)
  BY <1>0, <1>8 DEF Held, IInv, LoopInv
<1>9. \A d \in Clients : ClientOK(cl'[d])
  BY <1>2 DEF Held, IInv, LoopInv
<1>10. ProcOK(kn', batch', proc')
  BY <1>0 DEF Held
<1> QED  BY <1>4, <1>5, <1>7, <1>8, <1>9, <1>10, <1>3 DEF IInv, LoopInv

\* Leaving the loop empties the kqueue: nothing but types is left to show.
LEMMA LeaveInv ==
  ASSUME NEW c \in Clients, NEW r \in Client, NEW m \in Modes \ {"loop"},
         IInv, OsType', Leave(m, c, r)
  PROVE  IInv'
<1>1. kn' = {} /\ batch' = {} /\ mode' = m /\ cl' \in [Clients -> Client]
  BY DEF Leave, IInv, TypeOK
<1>2. IsFiniteSet({}) /\ Cardinality({}) = 0
  BY FS_EmptySet
<1>3. 0 <= MAX_EVENT
  BY Parameters
<1> QED  BY <1>1, <1>2, <1>3 DEF IInv, TypeOK, OsType, Typed, InLoop

\* EV_DELETE and close keep a set of knotes well formed.
LEMMA DelTyped ==
  ASSUME NEW K, Typed(K), NEW f, NEW i, NEW S
  PROVE  Typed(Del(K, f, i)) /\ Typed(CloseAll(K, S))
<1>1. Del(K, f, i) \subseteq K /\ CloseAll(K, S) \subseteq K
  BY DEF Del, CloseAll
<1> QED  BY <1>1, FS_Subset DEF Typed

\* EV_ADD keeps a set of knotes well formed.
LEMMA AddTyped ==
  ASSUME NEW K, Typed(K), NEW c \in Clients, NEW f \in Filters, NEW i,
         IF f = "PROC" THEN i \in Pids ELSE i \in Fds
  PROVE  Typed(Add(K, f, i, c))
<1>1. Typed(Del(K, f, i))
  BY DelTyped
<1>2. Knote(f, i, c) \in Knotes
  BY DEF Knote, Knotes, Filters
<1>3. IsFiniteSet(Add(K, f, i, c))
  BY <1>1, FS_AddElement DEF Add, Typed
<1>4. \A k, l \in Add(K, f, i, c) : k.filter = l.filter /\ k.id = l.id => k = l
  BY <1>1 DEF Add, Del, Knote, Typed
<1> QED  BY <1>1, <1>2, <1>3, <1>4 DEF Add, Typed

\* Fewer knotes are as consistent as many.
LEMMA HeldFewer ==
  ASSUME NEW e, NEW c, NEW r, NEW K, NEW P, Held(e, c, r, K, P), NEW f, NEW i, NEW S
  PROVE  Held(e, c, r, Del(K, f, i), P) /\ Held(e, c, r, CloseAll(K, S), P)
<1>1. Del(K, f, i) \subseteq K /\ CloseAll(K, S) \subseteq K
  BY DEF Del, CloseAll
<1>2. Typed(Del(K, f, i)) /\ Typed(CloseAll(K, S))
  BY DelTyped DEF Held
<1>3. ASSUME NEW L, L \subseteq K, Typed(L)
      PROVE  Held(e, c, r, L, P)
  BY <1>3 DEF Held, ProcOK, Has
<1> QED  BY <1>1, <1>2, <1>3

\* Two records that agree on what the invariant looks at.
Same(q, r) ==
  /\ q \in Client
  /\ q.life = r.life /\ q.sock = r.sock /\ q.code = r.code
  /\ q.wfd = r.wfd /\ q.rfd = r.rfd /\ q.pid = r.pid
  /\ q.st = r.st /\ q.method = r.method
  /\ r.body # "short" => q.body # "short"

\* Exchanging one for the other keeps the copies consistent.
LEMMA HeldSame ==
  ASSUME NEW e, NEW c, NEW r, NEW K, NEW P, Held(e, c, r, K, P), NEW q, Same(q, r)
  PROVE  Held(e, c, q, K, P)
<1>1. ClientOK(q)
  BY DEF Held, ClientOK, Settled, Same
<1>2. \A k : KnoteOK(k, r) => KnoteOK(k, q)
  BY DEF KnoteOK, Settled, Same
<1> QED  BY <1>1, <1>2 DEF Held, Same

\* The updates that only touch buffers, flags and the length of the body.
LEMMA DataSame ==
  ASSUME NEW r \in Client, NEW b \in BOOLEAN, NEW s \in Longer(r.body)
  PROVE  /\ Same([r EXCEPT !.buf = b], r)
         /\ Same([r EXCEPT !.resp = b], r)
         /\ Same([r EXCEPT !.buf = TRUE, !.resp = TRUE], r)
         /\ Same([r EXCEPT !.unsent = b], r)
         /\ Same([r EXCEPT !.ended = b], r)
         /\ Same([r EXCEPT !.body = s], r)
<1>1. s \in Sizes /\ (r.body # "short" => s # "short")
  BY DEF Longer, Sizes
<1>2. Same([r EXCEPT !.buf = b], r)
  BY DEF Client, Same
<1>3. Same([r EXCEPT !.resp = b], r)
  BY DEF Client, Same
<1>4. Same([r EXCEPT !.buf = TRUE, !.resp = TRUE], r)
  <2> DEFINE q == [r EXCEPT !.buf = TRUE, !.resp = TRUE]
  <2>1. q \in Client
    BY ZenonT(30) DEF Client
  <2>2. /\ q.life = r.life /\ q.sock = r.sock /\ q.code = r.code /\ q.body = r.body
        /\ q.wfd = r.wfd /\ q.rfd = r.rfd /\ q.pid = r.pid
        /\ q.st = r.st /\ q.method = r.method
    BY DEF Client
  <2> QED  BY <2>1, <2>2 DEF Same
<1>5. Same([r EXCEPT !.unsent = b], r)
  BY DEF Client, Same
<1>6. Same([r EXCEPT !.ended = b], r)
  BY DEF Client, Same
<1>7. Same([r EXCEPT !.body = s], r)
  BY <1>1 DEF Client, Same
<1> QED  BY <1>2, <1>3, <1>4, <1>5, <1>6, <1>7

\* A new knote that is no PROC keeps the copies consistent when it suits r.
LEMMA HeldAdd ==
  ASSUME NEW e, NEW c \in Clients, NEW r, NEW K, NEW P, Held(e, c, r, K, P),
         NEW f \in Filters \ {"PROC"}, NEW i \in Fds, KnoteOK(Knote(f, i, c), r)
  PROVE  Held(e, c, r, Add(K, f, i, c), P)
<1>1. Typed(Add(K, f, i, c))
  BY AddTyped DEF Held, Filters
<1>2. \A k \in Add(K, f, i, c) : k \in K \/ k = Knote(f, i, c)
  BY DEF Add, Del
<1>3. Knote(f, i, c).udata = c /\ Knote(f, i, c).filter # "PROC"
  BY DEF Knote
<1>4. ProcOK(Add(K, f, i, c), batch \ {e}, P)
  BY <1>2, <1>3 DEF Held, ProcOK, Has
<1> QED  BY <1>1, <1>2, <1>3, <1>4 DEF Held

\* An int that is caught: the error answer replaces the wait for a request.
LEMMA ThrowInv ==
  ASSUME NEW e \in batch, NEW c \in Clients, NEW r, NEW K, NEW n \in Errors,
         IInv, InLoop, OsType', Held(e, c, r, Del(K, "READ", r.sock), proc'),
         Throw(e, c, r, K, n)
  PROVE  IInv'
<1>1. CASE ~CanSwitch(K, r)
  <2>1. Leave("deaf", c, r)
    BY <1>1 DEF Throw
  <2> QED  BY <2>1, LeaveInv DEF Held, Modes
<1>2. CASE CanSwitch(K, r)
  <2>1. PICK filled \in BOOLEAN :
          Return(e, c, [r EXCEPT !.code = n, !.resp = filled], ToWrite(c, r, K))
    BY <1>2 DEF Throw, Held, Client
  <2> DEFINE q == [r EXCEPT !.code = n, !.resp = filled]
             L == Del(K, "READ", r.sock)
  <2>r. r \in Client /\ n # 200 /\ filled \in BOOLEAN
    BY <2>1 DEF Held, Errors
  <2>q. q \in Client
    BY <2>r, ZenonT(30) DEF Client
  <2>2. /\ q.life = r.life /\ q.code = n /\ q.body = r.body
        /\ q.sock = r.sock /\ q.wfd = r.wfd /\ q.rfd = r.rfd /\ q.pid = r.pid
        /\ q.st = r.st /\ q.method = r.method
    BY <2>r DEF Client
  <2>3. ClientOK(q) /\ q.sock \in Fds
    BY <2>2 DEF Held, ClientOK, Settled
  <2>4. \A k : KnoteOK(k, r) => KnoteOK(k, q)
    BY <2>r, <2>2 DEF KnoteOK
  <2>5. Held(e, c, q, L, proc')
    BY <2>q, <2>2, <2>3, <2>4 DEF Held
  <2>6. KnoteOK(Knote("WRITE", q.sock, c), q)
    BY <2>r, <2>2 DEF KnoteOK, Knote, Held
  <2>7. Held(e, c, q, Add(L, "WRITE", q.sock, c), proc')
    BY <2>3, <2>5, <2>6, HeldAdd DEF Filters
  <2> QED  BY <2>1, <2>2, <2>7, ReturnInv DEF ToWrite
<1> QED  BY <1>1, <1>2

\* An answer of a request that is complete.
LEMMA ReplyInv ==
  ASSUME NEW e \in batch, NEW c \in Clients, NEW r, NEW K,
         IInv, InLoop, OsType', Held(e, c, r, K, proc'), StartReply(e, c, r, K),
         r.pid = None, r.st = "DONE", Settled(r)
  PROVE  IInv'
<1> DEFINE L == Del(K, "READ", r.sock)
<1>1. Held(e, c, r, L, proc')
  BY HeldFewer
<1>2. CASE ~CanSwitch(K, r)
  BY <1>1, <1>2, ThrowInv DEF StartReply, Errors
<1>3. CASE CanSwitch(K, r)
  <2>1. KnoteOK(Knote("WRITE", r.sock, c), r)
    BY DEF KnoteOK, Knote, Held
  <2>2. Held(e, c, r, Add(L, "WRITE", r.sock, c), proc')
    BY <1>1, <2>1, HeldAdd DEF Held, ClientOK, Filters
  <2> QED  BY <1>3, <2>2, ReturnInv DEF StartReply, ToWrite
<1> QED  BY <1>2, <1>3

\* kill changes the state of known processes only.
LEMMA KilledType ==
  ASSUME NEW p, proc \in [Pids -> Procs]
  PROVE  Killed(p) \in [Pids -> Procs]
BY DEF Killed, Procs

\* An action that closes descriptors keeps the table well typed.
LEMMA ClosedType ==
  ASSUME NEW S, IInv
  PROVE  Closed(S) \in [Fds -> FileTable]
BY DEF IInv, TypeOK, Closed, FileTable, Free

\* The clean-up of a connection whose event is on its socket or its timer.
LEMMA CleanUpInv ==
  ASSUME NEW e \in batch, NEW c \in Clients, NEW r, NEW K, NEW S, NEW p,
         IInv, InLoop, Held(e, c, r, K, proc), e.id = r.sock,
         p = None \/ (p \in Pids /\ ~Has(K, "PROC", p)),
         CleanUp(e, c, r, K, S, p)
  PROVE  IInv'
<1> DEFINE shut == {e.id} \cup IF r.pid = None THEN {} ELSE PipeEnds(r)
           K1   == CloseAll(K, shut)
           gone == NewClient("freed", r.sock)
           dead == IF PidKnown(K1, r) /\ r.pid # None THEN r.pid ELSE p
<1>1. /\ clients' = Erased(e.id)
      /\ fdt' = Closed(S \cup shut)
      /\ stolen' = (stolen \/ Theft(c, S \cup shut))
      /\ proc' = Killed(dead)
      /\ IF PidKnown(K1, r) /\ Has(K1, "TIMER", r.sock)
         THEN /\ cl' = [cl EXCEPT ![c] = gone]
              /\ kn' = Untimed(Unwatched(K1, r), r)
              /\ batch' = AfterCleanUp(e)
              /\ UNCHANGED mode
         ELSE Leave("deaf", c, gone) \/ Leave("undefined", c, gone)
  BY DEF CleanUp
<1>2. stolen' \in BOOLEAN
  BY <1>1 DEF IInv, TypeOK, Theft
<1>3. clients' \in [Fds -> Clients \cup {None}]
  BY <1>1 DEF IInv, TypeOK, Erased
<1>4. OsType'
  BY <1>1, <1>2, <1>3, KilledType, ClosedType DEF OsType, IInv, TypeOK
<1>5. gone \in Client /\ gone.life = "freed" /\ gone.sock = r.sock /\ r.sock \in Fds
  BY DEF Held, ClientOK, NewClient, Client, Sizes
<1>6. CASE ~(PidKnown(K1, r) /\ Has(K1, "TIMER", r.sock))
  BY <1>1, <1>4, <1>5, <1>6, LeaveInv DEF Modes
<1>7. CASE PidKnown(K1, r) /\ Has(K1, "TIMER", r.sock)
  <2>1. /\ cl' = [cl EXCEPT ![c] = gone]
        /\ kn' = Untimed(Unwatched(K1, r), r)
        /\ batch' = {} /\ mode' = mode
    BY <1>1, <1>7 DEF AfterCleanUp
  <2>2. Typed(kn') /\ Typed(batch') /\ Cardinality(batch') <= MAX_EVENT
    <3>1. Typed(kn')
      BY <2>1, DelTyped DEF Held, Untimed, Unwatched
    <3>2. IsFiniteSet({}) /\ Cardinality({}) = 0
      BY FS_EmptySet
    <3>3. 0 <= MAX_EVENT
      BY Parameters
    <3> QED  BY <2>1, <3>1, <3>2, <3>3 DEF Typed
  <2>3. cl' \in [Clients -> Client] /\ cl'[c] = gone /\ \A d \in Clients \ {c} : cl'[d] = cl[d]
    BY <1>5, <2>1 DEF IInv, TypeOK
  <2>4. TypeOK'
    BY <1>4, <2>1, <2>2, <2>3 DEF IInv, TypeOK, OsType, Typed
  <2>5. \A k \in kn' : /\ k \in K /\ ~(k.filter = "TIMER" /\ k.id = r.sock)
                       /\ ~(k.filter = "PROC" /\ k.id = r.pid)
                       /\ ~(k.filter \in {"READ", "WRITE"} /\ k.id = r.sock)
    BY <2>1 DEF Untimed, Unwatched, Del, CloseAll
  <2>6. ASSUME NEW k \in kn', k.udata # None
        PROVE  KnoteOK(k, cl'[k.udata])
    <3>1. CASE k.udata = c
      <4>1. KnoteOK(k, r)
        BY <2>5, <3>1 DEF Held
      <4> QED  BY <1>5, <2>3, <2>5, <3>1, <4>1 DEF KnoteOK
    <3>2. CASE k.udata # c
      <4>1. k \in kn /\ k \in Knotes
        BY <2>5, <3>2 DEF Held, Typed
      <4>2. k.udata \in Clients \ {c}
        BY <2>6, <3>2, <4>1 DEF Knotes
      <4> QED  BY <2>3, <2>6, <4>1, <4>2 DEF IInv, LoopInv
    <3> QED  BY <3>1, <3>2
  <2>7. ASSUME NEW k \in kn', k.udata = None
        PROVE  k = Knote("READ", Listener, None)
    BY <2>5, <2>7, Sentinels DEF Held, IInv, LoopInv
  <2>8. \A d \in Clients : ClientOK(cl'[d])
    BY <1>5, <2>3 DEF IInv, LoopInv, ClientOK
  <2>9. ProcOK(kn', batch', proc')
    <3> SUFFICES ASSUME NEW k \in kn', k.filter = "PROC"
                 PROVE  proc'[k.id] \in {"running"} \cup Exited
      BY <2>1 DEF ProcOK
    <3>1. k \in K /\ k.id \in Pids /\ k.id # r.pid /\ proc[k.id] \in {"running"} \cup Exited
      BY <2>5 DEF Held, ProcOK, Typed, Knotes
    <3>2. dead \in Pids \cup {None} /\ dead # k.id
      <4>1. CASE dead = r.pid /\ r.pid # None
        <5>1. Has(K1, "PROC", r.pid)
          BY <1>7, <4>1 DEF PidKnown
        <5>2. r.pid \in Pids
          BY <5>1 DEF Has, CloseAll, Held, Typed, Knotes
        <5> QED  BY <3>1, <4>1, <5>2
      <4>2. CASE dead = p
        BY <3>1, <4>2, Sentinels DEF Has
      <4> QED  BY <4>1, <4>2
    <3>3. proc' = Killed(dead) /\ proc \in [Pids -> Procs]
      BY <1>1 DEF IInv, TypeOK
    <3> HIDE DEF dead
    <3> QED  BY <3>1, <3>2, <3>3, Sentinels DEF Killed
  <2> QED  BY <2>1, <2>2, <2>4, <2>6, <2>7, <2>8, <2>9 DEF IInv, LoopInv, Typed
<1> QED  BY <1>6, <1>7

-----------------------------------------------------------------------------
(* The handlers, from the innermost out. *)

\* ThrowInv for copies that are consistent as they are.
LEMMA ThrowHeld ==
  ASSUME NEW e \in batch, NEW c \in Clients, NEW r, NEW K, NEW n \in Errors,
         IInv, InLoop, OsType', Held(e, c, r, K, proc'), Throw(e, c, r, K, n)
  PROVE  IInv'
BY ThrowInv, HeldFewer

\* handleResponse on a request whose header is complete.
LEMMA HandleResponseInv ==
  ASSUME NEW e \in batch, NEW c \in Clients, NEW r, NEW K,
         IInv, InLoop, OsType', Held(e, c, r, K, proc'), r.st = "DONE",
         HandleResponse(e, c, r, K)
  PROVE  IInv'
<1>e. 400 \in Errors /\ 500 \in Errors
  BY DEF Errors
<1>r. r \in Client
  BY DEF Held
<1>1. CASE r.chunked /\ ParseChunked(e, c, r, K)
  <2>1. PICK some \in {r.unsent, TRUE} :
          LET q == [r EXCEPT !.unsent = some]
          IN \/ Throw(e, c, q, K, 400)
             \/ \E last \in {r.ended, TRUE} : Return(e, c, [q EXCEPT !.ended = last], K)
    BY <1>1 DEF ParseChunked
  <2> DEFINE q == [r EXCEPT !.unsent = some]
  <2>2. some \in BOOLEAN /\ r.ended \in BOOLEAN
    BY <1>r DEF Client
  <2>3. Same(q, r)
    BY <1>r, <2>2, DataSame DEF Longer, Sizes
  <2> HIDE DEF q
  <2>4. Held(e, c, q, K, proc') /\ q \in Client
    BY <2>3, HeldSame DEF Same
  <2>5. CASE Throw(e, c, q, K, 400)
    BY <1>e, <2>4, <2>5, ThrowHeld
  <2>6. ASSUME NEW last \in {r.ended, TRUE}, Return(e, c, [q EXCEPT !.ended = last], K)
        PROVE  IInv'
    <3>1. last \in BOOLEAN
      BY <2>2
    <3>2. Held(e, c, [q EXCEPT !.ended = last], K, proc')
      BY <2>4, <3>1, DataSame, HeldSame DEF Longer, Sizes
    <3> QED  BY <2>6, <3>2, ReturnInv
  <2> QED  BY <2>1, <2>5, <2>6 DEF q
<1>2. ASSUME NEW size \in Longer(r.body), NEW q, q = [r EXCEPT !.body = size],
             \/ ~Complete(size) /\ Return(e, c, q, K)
             \/ /\ Complete(size)
                /\ \/ q.method = "GET"    /\ HandleGet(e, c, q, K)
                   \/ q.method = "DELETE" /\ HandleDelete(e, c, q, K)
                   \/ q.method = "POST"   /\ HandlePost(e, c, q, K)
      PROVE  IInv'
  <2>1. Same(q, r) /\ Held(e, c, q, K, proc')
    BY <1>r, <1>2, DataSame, HeldSame
  <2>2. q \in Client /\ q.st = "DONE" /\ q.body = size /\ ClientOK(q) /\ q.life = "live"
    BY <1>r, <1>2, <2>1 DEF Client, Same, Held
  <2>3. CASE ~Complete(size) /\ Return(e, c, q, K)
    BY <2>1, <2>3, ReturnInv
  <2>4. ASSUME Complete(size), q.method \in {"GET", "DELETE"}, NEW s, Same(s, q),
               StartReply(e, c, s, K)
        PROVE  IInv'
    <3>1. s.pid = None /\ s.st = "DONE" /\ s.body # "short"
      BY <2>2, <2>4 DEF Same, ClientOK, Complete
    <3>2. Held(e, c, s, K, proc')
      BY <2>1, <2>4, HeldSame
    <3> QED  BY <2>4, <3>1, <3>2, ReplyInv DEF Settled
  <2>5. ASSUME NEW s, Same(s, q), NEW n \in Errors, Throw(e, c, s, K, n)
        PROVE  IInv'
    <3>1. Held(e, c, s, K, proc')
      BY <2>1, <2>5, HeldSame
    <3> QED  BY <2>5, <3>1, ThrowHeld
  <2>6. Same(q, q) /\ Same([q EXCEPT !.buf = TRUE, !.resp = TRUE], q)
    BY <2>2, DataSame DEF Same, Longer, Sizes
  <2>7. CASE Complete(size) /\ q.method = "GET" /\ HandleGet(e, c, q, K)
    <3>1. CASE Leave("undefined", c, q)
      BY <2>2, <3>1, LeaveInv DEF Held, Modes
    <3> QED  BY <1>e, <2>4, <2>5, <2>6, <2>7, <3>1 DEF HandleGet
  <2>8. CASE Complete(size) /\ q.method = "DELETE" /\ HandleDelete(e, c, q, K)
    BY <1>e, <2>4, <2>5, <2>6, <2>8 DEF HandleDelete
  <2>9. CASE q.method = "POST" /\ HandlePost(e, c, q, K)
    <3>1. PICK some \in BOOLEAN :
            LET s == [q EXCEPT !.unsent = some]
            IN \/ Throw(e, c, s, K, 400)
               \/ /\ fdt'[s.wfd] = Free
                  /\ Throw(e, c, s, K, 500)
               \/ /\ fdt'[s.wfd] # Free
                  /\ Return(e, c, [s EXCEPT !.ended = TRUE], Add(K, "WRITE", s.wfd, c))
      BY <2>9 DEF HandlePost
    <3> DEFINE s == [q EXCEPT !.unsent = some]
               t == [s EXCEPT !.ended = TRUE]
    <3>2. Same(s, q) /\ Held(e, c, s, K, proc') /\ s \in Client
      BY <2>1, <2>2, DataSame, HeldSame, ZenonT(30) DEF Same, Longer, Sizes
    <3> HIDE DEF s
    <3>3. Same(t, s) /\ Held(e, c, t, K, proc')
      BY <3>2, DataSame, HeldSame DEF Longer, Sizes
    <3> HIDE DEF t
    <3>4. s.wfd \in Fds /\ s.wfd = t.wfd /\ t.wfd # t.sock /\ t.life = "live"
      BY <2>2, <2>9, <3>2, <3>3 DEF ClientOK, Same
    <3>5. KnoteOK(Knote("WRITE", s.wfd, c), t)
      BY <3>4 DEF KnoteOK, Knote
    <3>6. Held(e, c, t, Add(K, "WRITE", s.wfd, c), proc')
      BY <3>3, <3>4, <3>5, HeldAdd DEF Filters
    <3>7. \/ Throw(e, c, s, K, 400)
          \/ Throw(e, c, s, K, 500)
          \/ Return(e, c, t, Add(K, "WRITE", s.wfd, c))
      BY <3>1 DEF s, t
    <3> QED  BY <1>e, <2>5, <3>2, <3>6, <3>7, ReturnInv
  <2> QED  BY <1>2, <2>3, <2>7, <2>8, <2>9
<1> QED  BY <1>1, <1>2 DEF HandleResponse

\* A client that waits for a header has no child: nothing depends on its request,
\* which may start (CREATE) or be complete (DONE).
LEMMA HeldStart ==
  ASSUME NEW e, NEW c \in Clients, NEW r, NEW K, Held(e, c, r, K, proc), r.st = "READY",
         NEW q \in Client, q.life = r.life, q.sock = r.sock, q.code = r.code,
         q.wfd = r.wfd, q.rfd = r.rfd, q.pid = r.pid,
         q.st = "CREATE" \/ (q.st = "DONE" /\ q.method # "POST"),
         NEW L \in SUBSET K, Typed(L),
         q.st = "CREATE" =>
           \A k \in L \cup (batch \ {e}) : k.udata = c => ~(k.filter = "READ" /\ k.id = r.sock)
  PROVE  /\ Held(e, c, q, L, proc) /\ q.pid = None
         /\ \A k \in K \cup (batch \ {e}) : k.udata = c =>
              /\ k.filter # "PROC"
              /\ k.filter = "WRITE" /\ k.id = r.sock => r.code # 200
<1>1. q.pid = None /\ ClientOK(q)
  BY DEF Held, ClientOK
<1>2. \A k : KnoteOK(k, r) => /\ k.filter # "PROC"
                              /\ k.filter = "WRITE" /\ k.id = r.sock => r.code # 200
  BY DEF KnoteOK
<1>3. \A k \in L \cup (batch \ {e}) : k.udata = c => KnoteOK(k, q)
  BY <1>2 DEF KnoteOK, Held
<1>4. ProcOK(L, batch \ {e}, proc)
  BY DEF Held, ProcOK, Has
<1> QED  BY <1>1, <1>2, <1>3, <1>4 DEF Held

\* handlePostCgi and handleGetCgi: r is a POST in CREATE or a complete CGI in DONE,
\* without a child, and its socket is open.
LEMMA SpawnInv ==
  ASSUME NEW e \in batch, NEW c \in Clients, NEW r, NEW K, IInv, InLoop, Typed(K),
         Held(e, c, r, Del(K, "READ", r.sock), proc),
         \A k \in K : k.udata # c => k \in kn,
         \A k \in K \cup (batch \ {e}) : k.udata = c =>
           /\ k.filter # "PROC"
           /\ k.filter = "WRITE" /\ k.id = r.sock => r.code # 200,
         \A k \in K : k.udata = c /\ k.filter = "READ" /\ k.id = r.sock => r.life = "live",
         \/ r.st = "CREATE" /\ r.method = "POST"
         \/ r.st = "DONE" /\ r.method = "CGI" /\ r.body # "short",
         fdt[r.sock] # Free, Spawn(e, c, r, K)
  PROVE  IInv'
<1> DEFINE D == Del(K, "READ", r.sock)
<1>e. 500 \in Errors
  BY DEF Errors
<1>r. r \in Client /\ r.life = "live" /\ ClientOK(r) /\ r.sock \in Fds
  BY DEF Held, ClientOK
<1>t. fdt \in [Fds -> FileTable] /\ proc \in [Pids -> Procs] /\ cl \in [Clients -> Client]
      /\ clients \in [Fds -> Clients \cup {None}] /\ stolen \in BOOLEAN
  BY DEF IInv, TypeOK
<1>k. \A k \in K \cup batch : k.filter = "PROC" => k.id \in Pids
  BY DEF Typed, Knotes, IInv, LoopInv
<1>p. ProcOK(D, batch \ {e}, proc)
  BY DEF Held
<1>1. CASE PipeFails(e, c, r, K)
  <2>1. PICK w \in FreeFds \cup {None} :
          /\ fdt' = [f \in Fds |-> IF f = w THEN File("in", c, Failed) ELSE fdt[f]]
          /\ Throw(e, c, IF w = None THEN r ELSE [r EXCEPT !.wfd = w], K, 500)
          /\ UNCHANGED <<clients, proc, stolen>>
    BY <1>1 DEF PipeFails
  <2>2. OsType'
    BY <1>t, <2>1 DEF OsType, FileTable, File
  <2>3. CASE w = None
    <3>1. Held(e, c, r, D, proc')
      BY <2>1
    <3> QED  BY <1>e, <2>1, <2>2, <2>3, <3>1, ThrowInv
  <2>4. CASE w # None
    <3> DEFINE q == [r EXCEPT !.wfd = w]
    <3>1. w \in Fds /\ w # r.sock
      BY <2>1, <2>4 DEF FreeFds
    <3>2. q \in Client
      BY <1>r, <3>1 DEF Client
    <3>3. /\ q.life = r.life /\ q.sock = r.sock /\ q.code = r.code /\ q.body = r.body
          /\ q.wfd = w /\ q.rfd = r.rfd /\ q.pid = r.pid
          /\ q.st = r.st /\ q.method = r.method
      BY <1>r DEF Client
    <3> HIDE DEF q
    <3>4. ClientOK(q)
      BY <1>r, <3>1, <3>3 DEF ClientOK, Settled
    <3>5. \A k : KnoteOK(k, r) => KnoteOK(k, q)
      BY <3>3 DEF KnoteOK, Settled
    <3>6. Held(e, c, q, D, proc')
      BY <2>1, <3>2, <3>3, <3>4, <3>5 DEF Held
    <3>7. Throw(e, c, q, K, 500)
      BY <2>1, <2>4 DEF q
    <3> QED  BY <1>e, <2>2, <3>3, <3>6, <3>7, ThrowInv
  <2> QED  BY <2>3, <2>4
<1>2. CASE Forks(e, c, r, K)
  <2>1. PICK w \in IF r.method = "POST" THEN FreeFds ELSE {None} :
          \E o \in FreeFds \ {w}, p \in ForkResults : Forked(e, c, r, K, w, o, p)
    BY <1>2 DEF Forks
  <2>3. PICK o \in FreeFds \ {w}, p \in ForkResults : Forked(e, c, r, K, w, o, p)
    BY <2>1
  <2> DEFINE v == IF w = None THEN r.wfd ELSE w
             q == [r EXCEPT !.wfd = v, !.rfd = o, !.pid = p]
             t == [q EXCEPT !.st = "DONE"]
  <2>2. /\ o \in Fds /\ o # r.sock /\ v \in Fds \cup {None} /\ v # r.sock
        /\ r.method = "POST" => v \in Fds
        /\ p \in Pids \cup {Failed} /\ p # None /\ (p \in Pids => proc[p] = "unused")
    BY <1>r, <2>1, <2>3, Sentinels DEF FreeFds, ForkResults, Client, ClientOK
  <2>4. q \in Client
    <3> DEFINE q1 == [r EXCEPT !.wfd = v]
               q2 == [q1 EXCEPT !.rfd = o]
    <3>1. q1 \in Client
      BY <1>r, <2>2 DEF Client
    <3>2. q2 \in Client
      <4> HIDE DEF q1
      <4> QED  BY <2>2, <3>1 DEF Client
    <3>3. [q2 EXCEPT !.pid = p] \in Client
      <4> HIDE DEF q2
      <4> QED  BY <2>2, <3>2 DEF Client
    <3>4. q = [q2 EXCEPT !.pid = p]
      <4> HIDE DEF v
      <4> QED  BY <1>r DEF Client
    <3> QED  BY <3>3, <3>4
  <2>5. /\ q.life = "live" /\ q.sock = r.sock /\ q.code = r.code /\ q.body = r.body
        /\ q.wfd = v /\ q.rfd = o /\ q.pid = p
        /\ q.st = r.st /\ q.method = r.method
    BY <1>r DEF Client
  <2>6. /\ t \in Client
        /\ t.life = "live" /\ t.sock = r.sock /\ t.code = r.code /\ t.body = r.body
        /\ t.wfd = v /\ t.rfd = o /\ t.pid = p
        /\ t.st = "DONE" /\ t.method = r.method
    <3> HIDE DEF q
    <3> QED  BY <2>4, <2>5 DEF Client
  <2>7. /\ fdt' = [f \in Fds |-> CASE f = w -> File("in", c, p)
                                   [] f = o -> File("out", c, p)
                                   [] OTHER -> fdt[f]]
        /\ UNCHANGED <<clients, stolen>>
        /\ \/ p = Failed /\ Throw(e, c, q, K, 500) /\ UNCHANGED proc
           \/ /\ p \in Pids
              /\ \E status \in Exited : proc' = [proc EXCEPT ![p] = status]
              /\ Throw(e, c, q, K, 500)
           \/ /\ p \in Pids
              /\ proc' = [proc EXCEPT ![p] = "running"]
              /\ \/ q.method = "CGI" /\ Return(e, c, q, Watched(c, q, K))
                 \/ q.method = "POST" /\ HandleResponse(e, c, t, Watched(c, q, K))
    BY <2>3 DEF Forked
  <2>8. fdt' \in [Fds -> FileTable]
    BY <1>t, <2>2, <2>7 DEF FileTable, File
  <2>9. ClientOK(q) /\ ClientOK(t)
    BY <2>2, <2>5, <2>6, <1>r DEF ClientOK, Settled
  <2> HIDE DEF q, t, v
  <2>10. ASSUME OsType', ProcOK(D, batch \ {e}, proc'), Throw(e, c, q, K, 500)
         PROVE  IInv'
    <3>1. \A k \in D \cup (batch \ {e}) : k.udata = c => KnoteOK(k, q)
      <4>1. \A k \in D \cup (batch \ {e}) : k.udata = c => KnoteOK(k, r) /\ k.filter # "PROC"
        BY DEF Held, Del
      <4>2. \A k \in D \cup (batch \ {e}) :
              k.udata = c /\ k.filter = "WRITE" /\ k.id = r.sock => r.code # 200
        BY DEF Del
      <4> QED  BY <2>5, <4>1, <4>2 DEF KnoteOK
    <3>2. Held(e, c, q, D, proc')
      BY <2>4, <2>5, <2>9, <2>10, <3>1 DEF Held
    <3> QED  BY <1>e, <2>5, <2>10, <3>2, ThrowInv
  <2>11. CASE p = Failed /\ Throw(e, c, q, K, 500) /\ UNCHANGED proc
    <3>1. OsType'
      BY <1>t, <2>7, <2>8, <2>11 DEF OsType
    <3>2. ProcOK(D, batch \ {e}, proc')
      BY <1>p, <2>11
    <3> QED  BY <2>10, <2>11, <3>1, <3>2
  <2>12. ASSUME NEW new \in {"running"} \cup Exited, p \in Pids, proc' = [proc EXCEPT ![p] = new]
         PROVE  OsType' /\ ProcOK(D, batch \ {e}, proc')
    <3>1. OsType'
      BY <1>t, <2>7, <2>8, <2>12 DEF OsType, Procs
    <3>2. proc[p] = "unused" /\ proc[p] \notin {"running"} \cup Exited
      BY <2>2, <2>12 DEF Exited
    <3>3. \A i \in Pids \ {p} : proc'[i] = proc[i]
      BY <1>t, <2>12
    <3>4. \A k \in D \cup batch : k.filter = "PROC" => k.id \in Pids
      BY <1>k DEF Del
    <3>5. ProcOK(D, batch \ {e}, proc')
      BY <1>p, <3>2, <3>3, <3>4 DEF ProcOK
    <3> QED  BY <3>1, <3>5
  <2>13. CASE /\ p \in Pids
              /\ \E status \in Exited : proc' = [proc EXCEPT ![p] = status]
              /\ Throw(e, c, q, K, 500)
    <3>1. OsType' /\ ProcOK(D, batch \ {e}, proc')
      BY <2>12, <2>13
    <3> QED  BY <2>10, <2>13, <3>1
  <2>14. CASE p \in Pids /\ proc' = [proc EXCEPT ![p] = "running"]
    <3>1. OsType' /\ ProcOK(D, batch \ {e}, proc')
      BY <2>12, <2>14
    <3>2. ASSUME NEW s \in {q, t}, s.st = "DONE", Settled(s)
          PROVE  Held(e, c, s, Watched(c, q, K), proc')
      <4>1. /\ s \in Client /\ s.life = "live" /\ s.sock = r.sock /\ s.code = r.code
            /\ s.wfd = v /\ s.rfd = o /\ s.pid = p /\ s.method = r.method
            /\ ClientOK(s)
        BY <2>4, <2>5, <2>6, <2>9
      <4> DEFINE W1 == Add(K, "PROC", p, c)
                 W2 == Add(W1, "READ", o, c)
      <4>2. ASSUME NEW k \in K \cup (batch \ {e}), k.udata = c
            PROVE  KnoteOK(k, s)
        <5>1. k.filter # "PROC" /\ (k.filter = "WRITE" /\ k.id = r.sock => r.code # 200)
          BY <4>2
        <5>2. CASE k \in K /\ k.filter = "READ" /\ k.id = r.sock
          BY <3>2, <4>1, <5>2 DEF KnoteOK
        <5>3. CASE ~(k \in K /\ k.filter = "READ" /\ k.id = r.sock)
          <6>1. KnoteOK(k, r)
            BY <4>2, <5>3 DEF Held, Del
          <6> QED  BY <3>2, <4>1, <5>1, <6>1 DEF KnoteOK
        <5> QED  BY <5>2, <5>3
      <4>3. ProcOK(W1, batch \ {e}, proc')
        <5>1. \A k \in K : k.filter = "PROC" => k \in D
          BY DEF Del
        <5>2. \A k \in W1 : k.filter = "PROC" => k \in D \/ k.id = p
          BY <5>1 DEF Add, Del, Knote
        <5>3. proc'[p] = "running"
          BY <1>t, <2>14
        <5>4. \A k \in batch \ {e} : k.filter = "PROC" => k.id # p
          BY <2>2, <2>14, <1>p DEF ProcOK, Exited
        <5>5. \A k \in W1 : k.filter = "PROC" => proc'[k.id] \in {"running"} \cup Exited
          BY <3>1, <5>2, <5>3 DEF ProcOK
        <5>6. \A k \in batch \ {e} : k.filter = "PROC" =>
                proc'[k.id] \in Exited /\ ~Has(W1, "PROC", k.id)
          BY <3>1, <5>2, <5>4 DEF ProcOK, Has
        <5> QED  BY <5>5, <5>6 DEF ProcOK
      <4>4. Typed(W1)
        BY <2>14, AddTyped DEF Filters
      <4>5. KnoteOK(Knote("PROC", p, c), s)
        BY <3>2, <4>1 DEF KnoteOK, Knote
      <4>6. Held(e, c, s, W1, proc')
        <5>1. \A k \in W1 : k \in K \/ k = Knote("PROC", p, c)
          BY DEF Add, Del
        <5>2. Knote("PROC", p, c).udata = c
          BY DEF Knote
        <5> QED  BY <4>1, <4>2, <4>3, <4>4, <4>5, <5>1, <5>2 DEF Held
      <4>7. KnoteOK(Knote("READ", o, c), s)
        BY <2>2, <4>1 DEF KnoteOK, Knote
      <4>8. Held(e, c, s, W2, proc')
        BY <2>2, <4>6, <4>7, HeldAdd DEF Filters
      <4>9. CASE r.method = "POST"
        <5>1. KnoteOK(Knote("WRITE", v, c), s)
          BY <2>2, <4>1 DEF KnoteOK, Knote
        <5>2. Held(e, c, s, Add(W2, "WRITE", v, c), proc')
          BY <2>2, <4>8, <4>9, <5>1, HeldAdd DEF Filters
        <5> QED  BY <2>5, <4>9, <5>2 DEF Watched
      <4>10. CASE r.method # "POST"
        BY <2>5, <4>8, <4>10 DEF Watched
      <4> QED  BY <4>9, <4>10
    <3>3. CASE q.method = "CGI" /\ Return(e, c, q, Watched(c, q, K))
      <4>1. q.st = "DONE" /\ Settled(q)
        BY <2>5, <3>3 DEF Settled
      <4> QED  BY <3>1, <3>2, <3>3, <4>1, ReturnInv
    <3>4. CASE q.method = "POST" /\ HandleResponse(e, c, t, Watched(c, q, K))
      <4>1. t.st = "DONE" /\ Settled(t)
        BY <2>5, <2>6, <3>4 DEF Settled
      <4> QED  BY <3>1, <3>2, <3>4, <4>1, HandleResponseInv
    <3> QED  BY <2>7, <2>14, <3>3, <3>4, <2>11, <2>13
  <2> QED  BY <2>7, <2>11, <2>13, <2>14
<1> QED  BY <1>1, <1>2 DEF Spawn

\* handleResponse of a request that may have to start a script.
LEMMA RespondInv ==
  ASSUME NEW e \in batch, NEW c \in Clients, NEW r, NEW K, IInv, InLoop,
         Held(e, c, r, K, proc), r.st = "DONE", fdt[r.sock] # Free, Respond(e, c, r, K)
  PROVE  IInv'
<1>r. r \in Client /\ ClientOK(r) /\ r.life = "live" /\ Typed(K)
  BY DEF Held
<1>1. CASE UNCHANGED os /\ HandleResponse(e, c, r, K)
  <2>1. OsType' /\ proc' = proc
    BY <1>1 DEF os, OsType, IInv, TypeOK
  <2> QED  BY <1>1, <2>1, HandleResponseInv
<1>2. CASE /\ r.method = "CGI" /\ ~r.chunked
           /\ \E size \in Longer(r.body) :
                Complete(size) /\ Spawn(e, c, [r EXCEPT !.body = size], K)
  <2>1. PICK size \in Longer(r.body) : Complete(size) /\ Spawn(e, c, [r EXCEPT !.body = size], K)
    BY <1>2
  <2>2. r.body = "short" /\ size = "exact" /\ ~Settled(r)
    BY <1>2, <2>1 DEF Longer, Complete, Settled
  <2> DEFINE q == [r EXCEPT !.body = size]
  <2>3. Same(q, r) /\ q.body # "short"
    BY <1>r, <2>1, <2>2, DataSame DEF Client
  <2> HIDE DEF q
  <2>4. Held(e, c, q, K, proc) /\ Held(e, c, q, Del(K, "READ", q.sock), proc)
    BY <2>3, HeldSame, HeldFewer
  <2>5. r.pid = None
    BY <1>r, <1>2, <2>2 DEF ClientOK
  <2>6. ASSUME NEW k \in K \cup (batch \ {e}), k.udata = c
        PROVE  /\ k.filter # "PROC"
               /\ k.filter = "WRITE" /\ k.id = r.sock => r.code # 200
    <3>1. KnoteOK(k, r)
      BY <2>6 DEF Held
    <3>2. k.filter = "PROC" => k.id \in Pids
      BY <1>r DEF Typed, Knotes, IInv, LoopInv
    <3> QED  BY <2>2, <2>5, <3>1, <3>2, Sentinels DEF KnoteOK
  <2>7. /\ q.sock = r.sock /\ q.code = r.code /\ q.life = "live"
        /\ q.st = "DONE" /\ q.method = "CGI"
    BY <1>r, <1>2, <2>3 DEF Same
  <2>8. \A k \in K : k.udata # c => k \in kn
    BY DEF Held
  <2>9. Spawn(e, c, q, K)
    BY <2>1 DEF q
  <2> QED  BY <1>r, <2>3, <2>4, <2>6, <2>7, <2>8, <2>9, SpawnInv
<1> QED  BY <1>1, <1>2 DEF Respond

\* Bytes of a request on the client's socket.
LEMMA HandleRequestInv ==
  ASSUME NEW e \in batch, NEW c \in Clients, NEW r, NEW K, IInv, InLoop,
         Held(e, c, r, K, proc), e.filter = "READ", e.id = r.sock, KnoteOK(e, r),
         fdt[r.sock] # Free, HandleRequest(e, c, r, K)
  PROVE  IInv'
<1>e. 400 \in Errors /\ 405 \in Errors
  BY DEF Errors
<1>r. r \in Client /\ r.st \in {"READY", "DONE"} /\ Typed(K) /\ \A k \in K : k.udata # c => k \in kn
  BY DEF Held, KnoteOK, Client
<1>b. \A k \in batch \ {e} : ~(k.filter = "READ" /\ k.id = r.sock)
  BY DEF IInv, LoopInv, Typed
<1> DEFINE L == Del(K, "READ", r.sock)
<1>l. /\ Typed(L) /\ L \in SUBSET K
      /\ \A k \in L \cup (batch \ {e}) : ~(k.filter = "READ" /\ k.id = r.sock)
  <2>1. Typed(L)
    BY <1>r, DelTyped
  <2> QED  BY <1>b, <2>1 DEF Del
<1>o. UNCHANGED os => OsType' /\ proc' = proc
  BY DEF os, OsType, IInv, TypeOK
<1>1. CASE /\ \/ Return(e, c, r, K)
              \/ "field" \in Faults /\ Leave("undefined", c, r)
              \/ \E errnum \in {400, 405} : Throw(e, c, r, K, errnum)
           /\ UNCHANGED os
  <2>1. CASE Return(e, c, r, K)
    BY <1>1, <1>o, <2>1, ReturnInv
  <2>2. CASE Leave("undefined", c, r)
    BY <1>1, <1>o, <1>r, <2>2, LeaveInv DEF Modes
  <2>3. CASE \E errnum \in {400, 405} : Throw(e, c, r, K, errnum)
    BY <1>1, <1>o, <1>e, <2>3, ThrowHeld
  <2> QED  BY <1>1, <2>1, <2>2, <2>3
<1>2. ASSUME r.st # "DONE", NEW q \in Client, q.life = r.life, q.sock = r.sock, q.code = r.code,
             q.wfd = r.wfd, q.rfd = r.rfd, q.pid = r.pid, q.st = "CREATE"
      PROVE  /\ Held(e, c, q, L, proc)
             /\ \A k \in K \cup (batch \ {e}) : k.udata = c =>
                  /\ k.filter # "PROC"
                  /\ k.filter = "WRITE" /\ k.id = r.sock => r.code # 200
  BY <1>r, <1>l, <1>2, HeldStart
<1>3. CASE /\ r.st # "DONE"
           /\ \E errnum \in {400, 405} : Throw(e, c, [r EXCEPT !.st = "CREATE"], K, errnum)
           /\ UNCHANGED os
  <2> DEFINE q == [r EXCEPT !.st = "CREATE"]
  <2>1. /\ q \in Client /\ q.life = r.life /\ q.sock = r.sock /\ q.code = r.code
        /\ q.wfd = r.wfd /\ q.rfd = r.rfd /\ q.pid = r.pid /\ q.st = "CREATE"
    BY <1>r DEF Client
  <2>2. \E errnum \in {400, 405} : Throw(e, c, q, K, errnum)
    BY <1>3
  <2> HIDE DEF q
  <2>3. Held(e, c, q, L, proc)
    BY <1>2, <1>3, <2>1
  <2> QED  BY <1>e, <1>o, <1>3, <2>1, <2>2, <2>3, ThrowInv
<1>4. CASE /\ r.st # "DONE"
           /\ \E m \in Methods, ch \in Chunkings :
                LET q == [r EXCEPT !.method = m, !.chunked = ch]
                IN \/ m = "POST" /\ Spawn(e, c, [q EXCEPT !.st = "CREATE"], K)
                   \/ m # "POST" /\ Respond(e, c, [q EXCEPT !.st = "DONE"], K)
  <2>1. PICK m \in Methods, ch \in Chunkings :
          \/ m = "POST" /\ Spawn(e, c, [[r EXCEPT !.method = m, !.chunked = ch] EXCEPT !.st = "CREATE"], K)
          \/ m # "POST" /\ Respond(e, c, [[r EXCEPT !.method = m, !.chunked = ch] EXCEPT !.st = "DONE"], K)
    BY <1>4
  <2> DEFINE q0 == [r EXCEPT !.method = m, !.chunked = ch]
  <2>2. m \in AllMethods /\ ch \in BOOLEAN
    BY Parameters
  <2>3. q0 \in Client
    <3>1. [r EXCEPT !.method = m] \in Client
      BY <1>r, <2>2 DEF Client
    <3>2. [[r EXCEPT !.method = m] EXCEPT !.chunked = ch] \in Client
      <4> DEFINE s == [r EXCEPT !.method = m]
      <4> HIDE DEF s
      <4>1. [s EXCEPT !.chunked = ch] \in Client
        BY <2>2, <3>1 DEF Client, s
      <4> QED  BY <4>1 DEF s
    <3>3. q0 = [[r EXCEPT !.method = m] EXCEPT !.chunked = ch]
      BY <1>r DEF Client
    <3> QED  BY <3>2, <3>3
  <2>4. /\ q0.life = r.life /\ q0.sock = r.sock /\ q0.code = r.code
        /\ q0.wfd = r.wfd /\ q0.rfd = r.rfd /\ q0.pid = r.pid /\ q0.method = m
    BY <1>r DEF Client
  <2> HIDE DEF q0
  <2>5. ASSUME NEW st \in {"CREATE", "DONE"}, NEW q, q = [q0 EXCEPT !.st = st]
        PROVE  /\ q \in Client /\ q.life = r.life /\ q.sock = r.sock /\ q.code = r.code
               /\ q.wfd = r.wfd /\ q.rfd = r.rfd /\ q.pid = r.pid /\ q.st = st /\ q.method = m
    BY <2>3, <2>4, <2>5 DEF Client
  <2>6. CASE m = "POST" /\ Spawn(e, c, [q0 EXCEPT !.st = "CREATE"], K)
    <3> DEFINE q == [q0 EXCEPT !.st = "CREATE"]
    <3>1. /\ q \in Client /\ q.life = r.life /\ q.sock = r.sock /\ q.code = r.code
          /\ q.wfd = r.wfd /\ q.rfd = r.rfd /\ q.pid = r.pid /\ q.st = "CREATE" /\ q.method = m
      BY <2>5
    <3>2. Spawn(e, c, q, K)
      BY <2>6
    <3> HIDE DEF q
    <3>3. /\ Held(e, c, q, L, proc)
          /\ \A k \in K \cup (batch \ {e}) : k.udata = c =>
               /\ k.filter # "PROC"
               /\ k.filter = "WRITE" /\ k.id = r.sock => r.code # 200
      BY <1>2, <1>4, <3>1
    <3>4. q.life = "live"
      BY <3>1 DEF Held
    <3> QED  BY <1>r, <2>6, <3>1, <3>2, <3>3, <3>4, SpawnInv
  <2>7. CASE m # "POST" /\ Respond(e, c, [q0 EXCEPT !.st = "DONE"], K)
    <3> DEFINE q == [q0 EXCEPT !.st = "DONE"]
    <3>1. /\ q \in Client /\ q.life = r.life /\ q.sock = r.sock /\ q.code = r.code
          /\ q.wfd = r.wfd /\ q.rfd = r.rfd /\ q.pid = r.pid /\ q.st = "DONE" /\ q.method = m
      BY <2>5
    <3>2. Respond(e, c, q, K)
      BY <2>7
    <3> HIDE DEF q
    <3>3. Held(e, c, q, K, proc)
      BY <1>r, <1>4, <2>7, <3>1, HeldStart
    <3> QED  BY <3>1, <3>2, <3>3, RespondInv
  <2> QED  BY <2>1, <2>6, <2>7 DEF q0
<1>5. CASE r.st = "DONE" /\ Respond(e, c, r, K)
  BY <1>5, RespondInv
<1> QED  BY <1>1, <1>3, <1>4, <1>5 DEF HandleRequest

-----------------------------------------------------------------------------
(* The events of handleEvent. *)

\* What a handler starts from, the Client and the kqueue as they are, is consistent.
LEMMA HeldInit ==
  ASSUME NEW e \in batch, NEW c \in Clients, IInv, InLoop, e.udata = c, cl[c].life = "live"
  PROVE  /\ Held(e, c, cl[c], kn, proc) /\ KnoteOK(e, cl[c])
         /\ Held(e, c, cl[c], TimerReset(c, cl[c]), proc)
<1>1. KnoteOK(e, cl[c])
  BY Sentinels DEF IInv, LoopInv
<1>2. cl[c] \in Client /\ ClientOK(cl[c]) /\ Typed(kn)
  BY DEF IInv, TypeOK, LoopInv
<1>3. \A k \in kn \cup (batch \ {e}) : k.udata = c => KnoteOK(k, cl[c])
  BY Sentinels DEF IInv, LoopInv
<1>4. ProcOK(kn, batch \ {e}, proc)
  BY DEF IInv, LoopInv, ProcOK
<1>5. Held(e, c, cl[c], kn, proc)
  BY <1>2, <1>3, <1>4 DEF Held
<1>6. KnoteOK(Knote("TIMER", cl[c].sock, c), cl[c])
  BY DEF KnoteOK, Knote
<1>7. Held(e, c, cl[c], TimerReset(c, cl[c]), proc)
  BY <1>2, <1>5, <1>6, HeldAdd DEF TimerReset, ClientOK, Filters
<1> QED  BY <1>1, <1>5, <1>7

\* The types of the variables beside the client and the knotes, when they stay or
\* only descriptors are closed.
LEMMA OsKept ==
  ASSUME IInv
  PROVE  /\ UNCHANGED os => OsType' /\ proc' = proc
         /\ \A c, S : fdt' = Closed(S) /\ stolen' = (stolen \/ Theft(c, S))
                      /\ UNCHANGED <<clients, proc>> => OsType' /\ proc' = proc
<1>1. UNCHANGED os => OsType' /\ proc' = proc
  BY DEF os, OsType, IInv, TypeOK
<1>2. ASSUME NEW c, NEW S, fdt' = Closed(S), stolen' = (stolen \/ Theft(c, S)),
             UNCHANGED <<clients, proc>>
      PROVE  OsType' /\ proc' = proc
  <2>1. fdt' \in [Fds -> FileTable]
    BY <1>2, ClosedType
  <2>2. stolen' \in BOOLEAN
    BY <1>2 DEF IInv, TypeOK, Theft
  <2> QED  BY <1>2, <2>1, <2>2 DEF OsType, IInv, TypeOK
<1> QED  BY <1>1, <1>2

\* A request or a disconnection on the client's socket.
LEMMA ReadSocketInv ==
  ASSUME NEW e \in batch, NEW c \in Clients, IInv, InLoop, e.udata = c, cl[c].life = "live",
         ReadSocket(e, c, cl[c])
  PROVE  IInv'
<1> DEFINE r == cl[c]
           K == TimerReset(c, r)
<1>1. e.filter = "READ" /\ e.id = r.sock
  BY DEF ReadSocket
<1>2. Held(e, c, r, K, proc) /\ KnoteOK(e, r)
  BY HeldInit
<1>3. CASE fdt[e.id].kind = "sock" /\ HandleRequest(e, c, r, K)
  <2>1. fdt[r.sock] # Free
    BY <1>1, <1>3 DEF Free
  <2> HIDE DEF r, K
  <2> QED  BY <1>1, <1>2, <1>3, <2>1, HandleRequestInv
<1>4. CASE CleanUp(e, c, r, K, {}, None)
  <2> HIDE DEF r, K
  <2> QED  BY <1>1, <1>2, <1>4, CleanUpInv
<1> QED  BY <1>3, <1>4 DEF ReadSocket

\* The timer of a connection: its client is cleaned up.
LEMMA TimeoutInv ==
  ASSUME NEW e \in batch, NEW c \in Clients, IInv, InLoop, e.udata = c, cl[c].life = "live",
         Timeout(e, c, cl[c])
  PROVE  IInv'
<1>1. Held(e, c, cl[c], kn, proc) /\ KnoteOK(e, cl[c])
  BY HeldInit
<1>2. e.id = cl[c].sock /\ CleanUp(e, c, cl[c], kn, {}, None)
  BY <1>1 DEF Timeout, KnoteOK
<1> QED  BY <1>1, <1>2, CleanUpInv

\* An event on the read end of a child's output, or on a pipe forgotten.
LEMMA ReadPipeInv ==
  ASSUME NEW e \in batch, NEW c \in Clients, IInv, InLoop, e.udata = c, cl[c].life = "live",
         ReadPipe(e, c, cl[c])
  PROVE  IInv'
<1> DEFINE r == cl[c]
<1>1. Held(e, c, r, kn, proc) /\ Held(e, c, r, CloseAll(kn, {e.id}), proc) /\ r \in Client
  <2>1. Held(e, c, r, kn, proc)
    BY HeldInit
  <2>2. Held(e, c, r, CloseAll(kn, {e.id}), proc)
    BY <2>1, HeldFewer
  <2> QED  BY <2>1, <2>2 DEF Held
<1>2. 500 \in Errors
  BY DEF Errors
<1>3. CASE Return(e, c, [r EXCEPT !.buf = TRUE], kn) /\ UNCHANGED os
  <2>1. OsType' /\ proc' = proc
    BY <1>3, OsKept
  <2>2. Held(e, c, [r EXCEPT !.buf = TRUE], kn, proc)
    <3> HIDE DEF r
    <3> QED  BY <1>1, DataSame, HeldSame DEF Longer, Sizes
  <2> QED  BY <1>3, <2>1, <2>2, ReturnInv
<1>4. CASE /\ Return(e, c, [r EXCEPT !.resp = TRUE], CloseAll(kn, {e.id}))
           /\ fdt' = Closed({e.id})
           /\ stolen' = (stolen \/ Theft(c, {e.id}))
           /\ UNCHANGED <<clients, proc>>
  <2>1. OsType' /\ proc' = proc
    BY <1>4, OsKept
  <2>2. Held(e, c, [r EXCEPT !.resp = TRUE], CloseAll(kn, {e.id}), proc)
    <3> HIDE DEF r
    <3> QED  BY <1>1, DataSame, HeldSame DEF Longer, Sizes
  <2> QED  BY <1>4, <2>1, <2>2, ReturnInv
<1>5. CASE Throw(e, c, r, kn, 500) /\ UNCHANGED os
  <2>1. OsType' /\ proc' = proc
    BY <1>5, OsKept
  <2> QED  BY <1>1, <1>2, <1>5, <2>1, ThrowHeld
<1>6. CASE Return(e, c, r, kn) /\ UNCHANGED os
  <2>1. OsType' /\ proc' = proc
    BY <1>6, OsKept
  <2> QED  BY <1>1, <1>6, <2>1, ReturnInv
<1> QED  BY <1>3, <1>4, <1>5, <1>6 DEF ReadPipe

\* An event on the write end of a child's input, or on a pipe forgotten.
LEMMA WritePipeInv ==
  ASSUME NEW e \in batch, NEW c \in Clients, IInv, InLoop, e.udata = c, cl[c].life = "live",
         WritePipe(e, c, cl[c])
  PROVE  IInv'
<1> DEFINE r == cl[c]
<1>1. Held(e, c, r, kn, proc) /\ Held(e, c, r, CloseAll(kn, {e.id}), proc) /\ r \in Client
  <2>1. Held(e, c, r, kn, proc)
    BY HeldInit
  <2>2. Held(e, c, r, CloseAll(kn, {e.id}), proc)
    BY <2>1, HeldFewer
  <2> QED  BY <2>1, <2>2 DEF Held
<1>2. 500 \in Errors
  BY DEF Errors
<1>3. CASE Leave("killed", c, r) /\ UNCHANGED os
  BY <1>1, <1>3, OsKept, LeaveInv DEF Modes
<1>4. CASE (\E more \in BOOLEAN : Return(e, c, [r EXCEPT !.unsent = more], kn)) /\ UNCHANGED os
  <2>1. PICK more \in BOOLEAN : Return(e, c, [r EXCEPT !.unsent = more], kn)
    BY <1>4
  <2>2. OsType' /\ proc' = proc
    BY <1>4, OsKept
  <2>3. Held(e, c, [r EXCEPT !.unsent = more], kn, proc)
    <3> HIDE DEF r
    <3> QED  BY <1>1, DataSame, HeldSame DEF Longer, Sizes
  <2> QED  BY <2>1, <2>2, <2>3, ReturnInv
<1>5. CASE Return(e, c, r, kn) /\ UNCHANGED os
  <2>1. OsType' /\ proc' = proc
    BY <1>5, OsKept
  <2> QED  BY <1>1, <1>5, <2>1, ReturnInv
<1>6. CASE /\ Return(e, c, r, CloseAll(kn, {e.id}))
           /\ fdt' = Closed({e.id})
           /\ stolen' = (stolen \/ Theft(c, {e.id}))
           /\ UNCHANGED <<clients, proc>>
  <2>1. OsType' /\ proc' = proc
    BY <1>6, OsKept
  <2> QED  BY <1>1, <1>6, <2>1, ReturnInv
<1>7. CASE Throw(e, c, r, kn, 500) /\ UNCHANGED os
  <2>1. OsType' /\ proc' = proc
    BY <1>7, OsKept
  <2> QED  BY <1>1, <1>2, <1>7, <2>1, ThrowHeld
<1> QED  BY <1>3, <1>4, <1>5, <1>6, <1>7 DEF WritePipe

\* The exit of a child: the reaped pid has no knote and no event left.
LEMMA EndProcessInv ==
  ASSUME NEW e \in batch, NEW c \in Clients, IInv, InLoop, e.udata = c, cl[c].life = "live",
         EndProcess(e, c, cl[c])
  PROVE  IInv'
<1> DEFINE r == cl[c]
<1>1. /\ Held(e, c, r, kn, proc) /\ KnoteOK(e, r)
      /\ e.filter = "PROC" /\ r.pid \in Pids /\ e.id = r.pid /\ r.st = "DONE"
      /\ proc' = [proc EXCEPT ![r.pid] = "reaped"] /\ UNCHANGED <<clients, fdt, stolen>>
  BY HeldInit DEF EndProcess, KnoteOK
<1>2. r \in Client /\ r.life = "live" /\ ClientOK(r) /\ Settled(r)
  <2>1. r.pid # None
    BY <1>1, Sentinels
  <2> QED  BY <1>1, <2>1 DEF Held, ClientOK
<1>3. OsType'
  BY <1>1 DEF OsType, IInv, TypeOK, Procs
<1>4. \A k \in kn \cup (batch \ {e}) : k.filter = "PROC" => k.id # r.pid
  <2>1. \A k \in kn : k.filter = "PROC" => k.id # r.pid
    BY <1>1 DEF IInv, LoopInv, ProcOK, Has
  <2>2. \A k \in batch \ {e} : k.filter = "PROC" => k.id # r.pid
    BY <1>1 DEF IInv, LoopInv, Typed
  <2> QED  BY <2>1, <2>2
<1>5. ProcOK(kn, batch \ {e}, proc')
  <2>1. \A k \in kn \cup batch : k.filter = "PROC" => k.id \in Pids
    BY DEF IInv, LoopInv, Typed, Knotes
  <2>2. \A k \in kn \cup (batch \ {e}) : k.filter = "PROC" => proc'[k.id] = proc[k.id]
    BY <1>1, <1>4, <2>1 DEF IInv, TypeOK
  <2>3. ProcOK(kn, batch \ {e}, proc)
    BY <1>1 DEF Held
  <2> QED  BY <2>2, <2>3 DEF ProcOK
<1>6. ASSUME NEW q \in Client, q.life = r.life, q.sock = r.sock, q.code = r.code, q.body = r.body,
             q.wfd = r.wfd, q.rfd = r.rfd, q.pid = None, q.st = r.st, q.method = r.method
      PROVE  /\ Held(e, c, q, kn, proc') /\ q.pid = None /\ q.st = "DONE" /\ Settled(q)
  <2>1. ClientOK(q)
    BY <1>1, <1>2, <1>6 DEF ClientOK
  <2>2. \A k \in kn \cup (batch \ {e}) : k.udata = c => KnoteOK(k, q)
    <3>1. \A k \in kn \cup (batch \ {e}) : k.udata = c => KnoteOK(k, r)
      BY <1>1 DEF Held
    <3>2. r.pid # None
      BY <1>1, Sentinels
    <3> QED  BY <1>4, <1>6, <3>1, <3>2 DEF KnoteOK
  <2> QED  BY <1>1, <1>2, <1>5, <1>6, <2>1, <2>2 DEF Held, Settled
<1>7. CASE Throw(e, c, [r EXCEPT !.pid = None, !.buf = FALSE], kn, 400)
  <2> DEFINE s == [r EXCEPT !.pid = None]
             q == [s EXCEPT !.buf = FALSE]
  <2>1. s \in Client
    BY <1>2 DEF Client
  <2>2. q \in Client
    <3> HIDE DEF s
    <3> QED  BY <2>1, ZenonT(30) DEF Client
  <2>3. /\ q.life = r.life /\ q.sock = r.sock /\ q.code = r.code /\ q.body = r.body
        /\ q.wfd = r.wfd /\ q.rfd = r.rfd /\ q.pid = None /\ q.st = r.st /\ q.method = r.method
    BY <1>2 DEF Client
  <2>4. q = [r EXCEPT !.pid = None, !.buf = FALSE]
    BY <1>2 DEF Client
  <2> HIDE DEF q
  <2>5. Held(e, c, q, kn, proc')
    BY <1>6, <2>2, <2>3
  <2>6. 400 \in Errors
    BY DEF Errors
  <2> QED  BY <1>3, <1>7, <2>4, <2>5, <2>6, ThrowHeld
<1>8. CASE StartReply(e, c, [r EXCEPT !.pid = None], kn)
  <2> DEFINE q == [r EXCEPT !.pid = None]
  <2>1. q \in Client
    BY <1>2 DEF Client
  <2>2. /\ q.life = r.life /\ q.sock = r.sock /\ q.code = r.code /\ q.body = r.body
        /\ q.wfd = r.wfd /\ q.rfd = r.rfd /\ q.pid = None /\ q.st = r.st /\ q.method = r.method
    BY <1>2 DEF Client
  <2>3. StartReply(e, c, q, kn)
    BY <1>8
  <2> HIDE DEF q
  <2>4. Held(e, c, q, kn, proc') /\ q.st = "DONE" /\ Settled(q)
    BY <1>6, <2>1, <2>2
  <2> QED  BY <1>3, <2>2, <2>3, <2>4, ReplyInv
<1> QED  BY <1>7, <1>8 DEF EndProcess

\* A cleared client awaits a request; its descriptors and its child are as before.
LEMMA ClearedType ==
  ASSUME NEW q \in Client
  PROVE  /\ Cleared(q) \in Client
         /\ Cleared(q).life = q.life /\ Cleared(q).sock = q.sock /\ Cleared(q).code = 200
         /\ Cleared(q).wfd = q.wfd /\ Cleared(q).rfd = q.rfd /\ Cleared(q).pid = q.pid
         /\ Cleared(q).st = "READY"
<1> DEFINE n  == NewClient(q.life, q.sock)
           n1 == [n EXCEPT !.wfd = q.wfd]
           n2 == [n1 EXCEPT !.rfd = q.rfd]
           n3 == [n2 EXCEPT !.pid = q.pid]
<1>1. n \in Client /\ n.life = q.life /\ n.sock = q.sock /\ n.code = 200 /\ n.st = "READY"
  BY DEF NewClient, Client, Sizes
<1>2. Cleared(q) = n3
  BY DEF Cleared, NewClient
<1> HIDE DEF n
<1>3. n1 \in Client /\ n1.life = q.life /\ n1.sock = q.sock /\ n1.code = 200 /\ n1.st = "READY"
      /\ n1.wfd = q.wfd
  BY <1>1 DEF Client
<1> HIDE DEF n1
<1>4. n2 \in Client /\ n2.life = q.life /\ n2.sock = q.sock /\ n2.code = 200 /\ n2.st = "READY"
      /\ n2.wfd = q.wfd /\ n2.rfd = q.rfd
  BY <1>3 DEF Client
<1> HIDE DEF n2
<1>5. n3 \in Client /\ n3.life = q.life /\ n3.sock = q.sock /\ n3.code = 200 /\ n3.st = "READY"
      /\ n3.wfd = q.wfd /\ n3.rfd = q.rfd /\ n3.pid = q.pid
  BY <1>4 DEF Client
<1> QED  BY <1>2, <1>5

\* Room in the client's socket: the child of a request that failed is ended, then
\* the answer is sent.
LEMMA WriteSocketInv ==
  ASSUME NEW e \in batch, NEW c \in Clients, IInv, InLoop, e.udata = c, cl[c].life = "live",
         WriteSocket(e, c, cl[c])
  PROVE  IInv'
<1> DEFINE r    == cl[c]
           ends == IF Ends(r) THEN PipeEnds(r) ELSE {}
           K1   == CloseAll(TimerReset(c, r), ends)
           K2   == IF Ends(r) THEN Unwatched(K1, r) ELSE K1
           q    == IF Ends(r) THEN [r EXCEPT !.pid = None] ELSE r
           p    == IF Ends(r) THEN r.pid ELSE None
<1>1. /\ e.filter = "WRITE" /\ e.id = r.sock
      /\ \/ /\ Ends(r) /\ ~PidKnown(K1, r)
            /\ Throw(e, c, r, K1, 500)
            /\ fdt' = Closed(ends)
            /\ stolen' = (stolen \/ Theft(c, ends))
            /\ UNCHANGED <<clients, proc>>
         \/ /\ Ends(r) => PidKnown(K1, r)
            /\ \/ CleanUp(e, c, q, K2, ends, p)
               \/ /\ \/ Return(e, c, q, K2)
                     \/ Return(e, c, Cleared(q),
                               Add(Del(K2, "WRITE", r.sock), "READ", r.sock, c))
                     \/ Throw(e, c, q, K2, 500)
                  /\ fdt' = Closed(ends)
                  /\ proc' = Killed(p)
                  /\ stolen' = (stolen \/ Theft(c, ends))
                  /\ UNCHANGED clients
  BY DEF WriteSocket
<1>2. Held(e, c, r, K1, proc) /\ KnoteOK(e, r)
  <2>1. Held(e, c, r, TimerReset(c, r), proc) /\ KnoteOK(e, r)
    BY HeldInit
  <2> QED  BY <2>1, HeldFewer
<1>3. r \in Client /\ r.life = "live" /\ ClientOK(r) /\ Typed(K1) /\ 500 \in Errors
  BY <1>2 DEF Held, Errors
<1>4. CASE /\ Throw(e, c, r, K1, 500)
           /\ fdt' = Closed(ends)
           /\ stolen' = (stolen \/ Theft(c, ends))
           /\ UNCHANGED <<clients, proc>>
  <2>1. OsType' /\ proc' = proc
    BY <1>4, OsKept
  <2> QED  BY <1>2, <1>3, <1>4, <2>1, ThrowHeld
<1>5. ASSUME Ends(r) => PidKnown(K1, r)
      PROVE  /\ Held(e, c, q, K2, proc)
             /\ Held(e, c, q, K2, Killed(p))
             /\ p = None \/ (p \in Pids /\ ~Has(K2, "PROC", p))
             /\ q.sock = r.sock /\ q.pid = None
  <2>1. CASE ~Ends(r)
    <3>1. q = r /\ K2 = K1 /\ p = None
      BY <2>1
    <3>2. r.pid = None
      BY <1>1, <1>2, <1>3, <2>1 DEF KnoteOK, Ends, Client, Errors
    <3>3. Killed(None) = proc
      BY Sentinels DEF Killed
    <3> QED  BY <1>2, <3>1, <3>2, <3>3
  <2>2. CASE Ends(r)
    <3>1. q = [r EXCEPT !.pid = None] /\ K2 = Unwatched(K1, r) /\ p = r.pid
      BY <2>2
    <3>2. r.code # 200 /\ r.pid # None /\ Has(K1, "PROC", r.pid)
      BY <1>5, <2>2 DEF Ends, PidKnown
    <3>3. r.pid \in Pids
      BY <1>3, <3>2 DEF Has, Typed, Knotes
    <3> HIDE DEF q, K2, K1, p
    <3>4. /\ q \in Client /\ q.life = r.life /\ q.sock = r.sock /\ q.code = r.code /\ q.body = r.body
          /\ q.wfd = r.wfd /\ q.rfd = r.rfd /\ q.pid = None /\ q.st = r.st /\ q.method = r.method
      BY <1>3, <3>1 DEF Client
    <3>5. Held(e, c, r, K2, proc)
      BY <1>2, <3>1, HeldFewer DEF Unwatched
    <3>6. \A k \in K2 \cup (batch \ {e}) : k.filter = "PROC" => k.id # r.pid
      <4>1. \A k \in batch \ {e} : k.filter = "PROC" => k.id # r.pid
        BY <1>2, <3>2 DEF Held, ProcOK
      <4>2. \A k \in K2 : k.filter = "PROC" => k.id # r.pid
        BY <3>1 DEF Unwatched, Del
      <4> QED  BY <4>1, <4>2
    <3>7. ClientOK(q)
      BY <1>3, <3>4 DEF ClientOK
    <3>8. \A k \in K2 \cup (batch \ {e}) : k.udata = c => KnoteOK(k, q)
      <4>1. \A k \in K2 \cup (batch \ {e}) : k.udata = c => KnoteOK(k, r)
        BY <3>5 DEF Held
      <4> QED  BY <3>2, <3>4, <3>6, <4>1 DEF KnoteOK
    <3>9. ProcOK(K2, batch \ {e}, Killed(p))
      <4>1. \A k \in K2 \cup batch : k.filter = "PROC" => k.id \in Pids
        BY <3>5 DEF Held, IInv, LoopInv, Typed, Knotes
      <4>2. Killed(p) = [proc EXCEPT ![r.pid] = "killed"] /\ proc \in [Pids -> Procs]
        <5>1. Killed(r.pid) = [proc EXCEPT ![r.pid] = "killed"]
          BY <3>3, Sentinels DEF Killed
        <5> QED  BY <3>1, <5>1 DEF IInv, TypeOK
      <4>3. \A k \in K2 \cup (batch \ {e}) : k.filter = "PROC" => Killed(p)[k.id] = proc[k.id]
        BY <3>6, <4>1, <4>2
      <4> QED  BY <3>5, <4>3 DEF Held, ProcOK
    <3>10. ~Has(K2, "PROC", p)
      BY <3>1, <3>6 DEF Has
    <3>11. Held(e, c, q, K2, proc) /\ Held(e, c, q, K2, Killed(p))
      BY <1>3, <3>4, <3>5, <3>7, <3>8, <3>9 DEF Held
    <3> QED  BY <3>1, <3>3, <3>4, <3>10, <3>11
  <2> QED  BY <2>1, <2>2
<1>6. CASE (Ends(r) => PidKnown(K1, r)) /\ CleanUp(e, c, q, K2, ends, p)
  <2>1. /\ Held(e, c, q, K2, proc) /\ e.id = q.sock
        /\ p = None \/ (p \in Pids /\ ~Has(K2, "PROC", p))
    BY <1>1, <1>5, <1>6
  <2> HIDE DEF q, K2, ends, p
  <2> QED  BY <1>6, <2>1, CleanUpInv
<1>7. CASE /\ Ends(r) => PidKnown(K1, r)
           /\ \/ Return(e, c, q, K2)
              \/ Return(e, c, Cleared(q), Add(Del(K2, "WRITE", r.sock), "READ", r.sock, c))
              \/ Throw(e, c, q, K2, 500)
           /\ fdt' = Closed(ends)
           /\ proc' = Killed(p)
           /\ stolen' = (stolen \/ Theft(c, ends))
           /\ UNCHANGED clients
  <2>1. OsType'
    <3>1. fdt' \in [Fds -> FileTable] /\ proc' \in [Pids -> Procs]
      BY <1>7, ClosedType, KilledType DEF IInv, TypeOK
    <3>2. stolen' \in BOOLEAN
      BY <1>7 DEF IInv, TypeOK, Theft
    <3> QED  BY <1>7, <3>1, <3>2 DEF OsType, IInv, TypeOK
  <2>2. Held(e, c, q, K2, proc') /\ q.sock = r.sock /\ q.pid = None
    BY <1>5, <1>7
  <2> HIDE DEF q, K2
  <2>3. CASE Return(e, c, q, K2)
    BY <2>1, <2>2, <2>3, ReturnInv
  <2>4. CASE Throw(e, c, q, K2, 500)
    BY <1>3, <2>1, <2>2, <2>4, ThrowHeld
  <2>5. CASE Return(e, c, Cleared(q), Add(Del(K2, "WRITE", r.sock), "READ", r.sock, c))
    <3> DEFINE s == Cleared(q)
               D == Del(K2, "WRITE", r.sock)
    <3>0. q \in Client /\ q.life = "live" /\ ClientOK(q) /\ Typed(D) /\ ProcOK(D, batch \ {e}, proc')
      <4>1. Held(e, c, q, D, proc')
        BY <2>2, HeldFewer
      <4> QED  BY <4>1 DEF Held
    <3>1. /\ s \in Client /\ s.life = "live" /\ s.sock = r.sock /\ s.code = 200 /\ s.st = "READY"
          /\ s.wfd = q.wfd /\ s.rfd = q.rfd /\ s.pid = q.pid
      BY <2>2, <3>0, ClearedType
    <3> HIDE DEF s
    <3>2. ClientOK(s)
      BY <2>2, <3>0, <3>1 DEF ClientOK
    <3>3. ASSUME NEW k \in D \cup (batch \ {e}), k.udata = c
          PROVE  KnoteOK(k, s)
      <4>1. ~(k.filter = "WRITE" /\ k.id = r.sock)
        BY <1>1 DEF Del, IInv, LoopInv, Typed
      <4>2. KnoteOK(k, q)
        BY <2>2, <3>3 DEF Held, Del
      <4>3. k.filter # "PROC"
        <5>1. k.filter = "PROC" => k.id \in Pids
          BY <3>0 DEF Typed, Knotes, IInv, LoopInv
        <5> QED  BY <2>2, <4>2, <5>1, Sentinels DEF KnoteOK
      <4> QED  BY <2>2, <3>0, <3>1, <4>1, <4>2, <4>3 DEF KnoteOK
    <3>4. \A k \in D : k.udata # c => k \in kn
      BY <2>2 DEF Held, Del
    <3>5. Held(e, c, s, D, proc')
      BY <3>0, <3>1, <3>2, <3>3, <3>4 DEF Held
    <3>6. KnoteOK(Knote("READ", r.sock, c), s)
      BY <3>1 DEF KnoteOK, Knote
    <3>7. Held(e, c, s, Add(D, "READ", r.sock, c), proc')
      BY <1>3, <3>5, <3>6, HeldAdd DEF ClientOK, Filters
    <3> QED  BY <2>1, <2>5, <3>7, ReturnInv DEF s
  <2> QED  BY <1>7, <2>3, <2>4, <2>5 DEF q, K2
<1> QED  BY <1>1, <1>4, <1>6, <1>7

\* A new connection: nothing is registered yet for its Client.
LEMMA AcceptClientInv ==
  ASSUME NEW e \in batch, IInv, InLoop, e.udata = None, AcceptClient(e)
  PROVE  IInv'
<1>t. /\ clients \in [Fds -> Clients \cup {None}] /\ fdt \in [Fds -> FileTable]
      /\ proc \in [Pids -> Procs] /\ stolen \in BOOLEAN
  BY DEF IInv, TypeOK
<1>1. ASSUME NEW c \in Clients, NEW f \in FreeFds, cl[c].life = "unborn",
             Return(e, c, NewClient("live", f), Accepted(c, f)),
             fdt' = [fdt EXCEPT ![f] = File("sock", c, None)],
             clients' = IF clients[f] = None THEN [clients EXCEPT ![f] = c] ELSE clients,
             UNCHANGED <<proc, stolen>>
      PROVE  IInv'
  <2> DEFINE n == NewClient("live", f)
  <2>1. f \in Fds /\ f # None
    BY Sentinels DEF FreeFds
  <2>2. OsType'
    <3>1. fdt' \in [Fds -> FileTable]
      BY <1>1, <1>t DEF FileTable, File
    <3>2. clients' \in [Fds -> Clients \cup {None}]
      BY <1>1, <1>t
    <3> QED  BY <1>1, <1>t, <3>1, <3>2 DEF OsType
  <2>3. /\ n \in Client /\ n.life = "live" /\ n.sock = f /\ n.wfd = None /\ n.rfd = None
        /\ n.pid = None /\ n.st = "READY"
    BY <2>1 DEF NewClient, Client, Sizes
  <2> HIDE DEF n
  <2>4. ClientOK(n)
    BY <2>1, <2>3 DEF ClientOK
  <2>5. \A k \in kn \cup (batch \ {e}) : k.udata # c
    BY <1>1, Sentinels DEF IInv, LoopInv, KnoteOK
  <2>6. Held(e, c, n, kn, proc')
    BY <1>1, <2>3, <2>4, <2>5 DEF Held, IInv, LoopInv, ProcOK
  <2>7. KnoteOK(Knote("READ", f, c), n) /\ KnoteOK(Knote("TIMER", f, c), n)
    BY <2>3 DEF KnoteOK, Knote
  <2>8. Held(e, c, n, Add(kn, "READ", f, c), proc')
    BY <2>1, <2>6, <2>7, HeldAdd DEF Filters
  <2>9. Held(e, c, n, Accepted(c, f), proc')
    BY <2>1, <2>7, <2>8, HeldAdd DEF Filters, Accepted
  <2> QED  BY <1>1, <2>2, <2>9, ReturnInv DEF n
<1>2. CASE /\ mode' = "exited"
           /\ batch' = {}
           /\ UNCHANGED <<kn, cl, clients, fdt, proc, stolen>>
  <2>1. IsFiniteSet({}) /\ Cardinality({}) = 0 /\ 0 <= MAX_EVENT
    BY FS_EmptySet, Parameters
  <2> QED  BY <1>2, <2>1 DEF IInv, TypeOK, Typed, InLoop, Modes
<1> QED  BY <1>1, <1>2 DEF AcceptClient

-----------------------------------------------------------------------------
(* The invariant and what follows from it. *)

\* An event of a batch, whosever it is.
LEMMA HandleEventInv ==
  ASSUME NEW e \in batch, IInv, InLoop, HandleEvent(e)
  PROVE  IInv'
<1>1. CASE e.udata = None /\ AcceptClient(e)
  BY <1>1, AcceptClientInv
<1>2. CASE e.udata # None
  <2> DEFINE c == e.udata
             r == cl[c]
  <2>1. c \in Clients /\ r \in Client
    BY <1>2 DEF IInv, LoopInv, Typed, TypeOK, Knotes
  <2>2. CASE Dangling(e, c, r)
    <3>1. Leave("undefined", c, r) /\ OsType'
      BY <2>2, OsKept DEF Dangling
    <3> QED  BY <2>1, <3>1, LeaveInv DEF Modes
  <2>3. CASE /\ r.life = "live"
             /\ \/ ReadSocket(e, c, r) \/ ReadPipe(e, c, r)
                \/ WriteSocket(e, c, r) \/ WritePipe(e, c, r)
                \/ EndProcess(e, c, r) \/ Timeout(e, c, r)
    BY <2>1, <2>3, ReadSocketInv, ReadPipeInv, WriteSocketInv, WritePipeInv,
       EndProcessInv, TimeoutInv
  <2> QED  BY <1>2, <2>2, <2>3 DEF HandleEvent
<1> QED  BY <1>1, <1>2 DEF HandleEvent

\* kevent moves an exit from the knotes to the batch, where it is the only one.
LEMMA KeventInv ==
  ASSUME IInv, InLoop, Kevent
  PROVE  IInv'
<1>1. /\ batch' \subseteq kn /\ Cardinality(batch') <= MAX_EVENT
      /\ \A k \in batch' : k.filter = "PROC" => proc[k.id] \in Exited \cup {"killed"}
      /\ kn' = {k \in kn : ~(k \in batch' /\ k.filter = "PROC")}
      /\ UNCHANGED <<mode, cl, clients, fdt, proc, stolen>>
  BY DEF Kevent, Batches, Ready, os
<1>2. Typed(kn) /\ ProcOK(kn, batch, proc)
  BY DEF IInv, LoopInv
<1>3. Typed(kn)' /\ Typed(batch)'
  BY <1>1, <1>2, FS_Subset DEF Typed
<1>4. ProcOK(kn', batch', proc')
  <2>1. \A k \in batch' : k.filter = "PROC" => proc[k.id] \in Exited
    BY <1>1, <1>2 DEF ProcOK, Exited
  <2>2. \A k \in batch', l \in kn' : k.filter = "PROC" /\ l.filter = "PROC" => k.id # l.id
    BY <1>1, <1>2 DEF Typed
  <2> QED  BY <1>1, <1>2, <2>1, <2>2 DEF ProcOK, Has
<1>5. TypeOK'
  BY <1>1, <1>3 DEF IInv, TypeOK, Typed
<1>6. kn' \cup batch' \subseteq kn
  BY <1>1
<1>7. LoopInv'
  BY <1>1, <1>3, <1>4, <1>6 DEF IInv, LoopInv
<1> QED  BY <1>3, <1>5, <1>7 DEF IInv, Typed

\* A child that exits was running: no exit event of it is pending.
LEMMA ChildExitsInv ==
  ASSUME NEW p \in Pids, IInv, InLoop, ChildExits(p)
  PROVE  IInv'
<1>1. PICK status \in Exited : proc' = [proc EXCEPT ![p] = status]
  BY DEF ChildExits
<1>2. proc[p] = "running" /\ UNCHANGED <<kn, batch, mode, cl, clients, fdt, stolen>>
  BY DEF ChildExits
<1>3. proc \in [Pids -> Procs] /\ proc' \in [Pids -> Procs]
  BY <1>1 DEF IInv, TypeOK, Procs
<1>4. \A k \in kn \cup batch : k.filter = "PROC" => k.id \in Pids
  BY DEF IInv, LoopInv, Typed, Knotes
<1>5. \A i \in Pids : proc'[i] = IF i = p THEN status ELSE proc[i]
  BY <1>1, <1>3
<1>6. ProcOK(kn, batch, proc)
  BY DEF IInv, LoopInv
<1>7. ProcOK(kn, batch, proc')
  <2>1. \A k \in kn : k.filter = "PROC" => proc'[k.id] \in {"running"} \cup Exited
    BY <1>4, <1>5, <1>6 DEF ProcOK
  <2>2. \A k \in batch : k.filter = "PROC" => proc'[k.id] \in Exited
    BY <1>2, <1>4, <1>5, <1>6 DEF ProcOK, Exited
  <2> QED  BY <1>6, <2>1, <2>2 DEF ProcOK
<1>8. TypeOK'
  BY <1>2, <1>3 DEF IInv, TypeOK
<1>9. LoopInv'
  BY <1>2, <1>7 DEF IInv, LoopInv
<1> QED  BY <1>2, <1>8, <1>9 DEF IInv

\* Only the listening socket is registered when the loop starts.
LEMMA InitInv == Init => IInv
<1> SUFFICES ASSUME Init PROVE IInv
  OBVIOUS
<1> USE Sentinels
<1> DEFINE l == Knote("READ", Listener, None)
<1>1. kn = {l} /\ batch = {} /\ l \in Knotes /\ l.udata = None /\ l.filter = "READ"
  BY DEF Init, Knote, Knotes, Filters
<1>2. Typed(kn) /\ Typed(batch) /\ Cardinality(batch) <= MAX_EVENT
  <2>1. IsFiniteSet({}) /\ Cardinality({}) = 0 /\ IsFiniteSet({l}) /\ 0 <= MAX_EVENT
    <3>1. IsFiniteSet({l})
      BY FS_Singleton
    <3> QED  BY <3>1, FS_EmptySet, Parameters
  <2> QED  BY <1>1, <2>1 DEF Typed
<1>3. \A c \in Clients : cl[c] \in Client /\ cl[c].life = "unborn"
  BY DEF Init, NewClient, Client, Sizes
<1>4. cl \in [Clients -> Client]
  BY <1>3 DEF Init
<1>5. /\ mode \in Modes /\ clients \in [Fds -> Clients \cup {None}]
      /\ proc \in [Pids -> Procs] /\ stolen \in BOOLEAN
  BY DEF Init, Modes, Procs
<1>6. fdt \in [Fds -> FileTable]
  BY DEF Init, Free, FileTable
<1>7. TypeOK
  BY <1>1, <1>2, <1>4, <1>5, <1>6 DEF TypeOK, Typed
<1>8. LoopInv
  <2> HIDE DEF l
  <2>1. \A c \in Clients : ClientOK(cl[c])
    BY <1>3 DEF ClientOK
  <2>2. ProcOK(kn, batch, proc)
    BY <1>1 DEF ProcOK
  <2> QED  BY <1>1, <1>2, <2>1, <2>2 DEF LoopInv, l
<1> QED  BY <1>2, <1>7, <1>8 DEF IInv, Typed

\* Every step of the program, the kernel and the children preserves the invariant.
LEMMA NextInv == IInv /\ [Next]_vars => IInv'
<1> SUFFICES ASSUME IInv, [Next]_vars PROVE IInv'
  OBVIOUS
<1>1. CASE InLoop /\ Kevent
  BY <1>1, KeventInv
<1>2. ASSUME InLoop, NEW e \in batch, HandleEvent(e) PROVE IInv'
  BY <1>2, HandleEventInv
<1>3. ASSUME InLoop, NEW p \in Pids, ChildExits(p) PROVE IInv'
  BY <1>3, ChildExitsInv
<1>4. CASE UNCHANGED vars
  <2>1. UNCHANGED <<kn, batch, mode, cl, clients, fdt, proc, stolen>>
    BY <1>4 DEF vars
  <2> QED  BY <2>1 DEF IInv, TypeOK, LoopInv, InLoop, ProcOK, Typed
<1> QED  BY <1>1, <1>2, <1>3, <1>4 DEF Next, InLoop

\* The inductive invariant holds of every behaviour.
THEOREM Invariance == Spec => []IInv
BY InitInv, NextInv, PTL DEF Spec

\* Types, and the shape of the kqueue and of a batch.
THEOREM TypeCorrect == Spec => []TypeOK
<1>1. IInv => TypeOK
  BY DEF IInv
<1> QED  BY <1>1, Invariance, PTL

\* handleEvent meets a freed Client only through a pipe ~Client left open.
THEOREM UdataSafe == Spec => []UdataLive
<1>1. ASSUME IInv, InLoop, NEW k \in kn \cup batch, k.udata # None
      PROVE  /\ cl[k.udata].life = "freed" => k.filter \in {"READ", "WRITE"} /\ k.id # cl[k.udata].sock
             /\ k.filter = "TIMER" => cl[k.udata].life = "live" /\ k.id = cl[k.udata].sock
  <2>1. KnoteOK(k, cl[k.udata])
    BY <1>1 DEF IInv, LoopInv
  <2>2. k.filter \in Filters
    BY <1>1 DEF IInv, LoopInv, Typed, Knotes, Filters
  <2> QED  BY <2>1, <2>2 DEF KnoteOK, Filters
<1>2. IInv => UdataLive
  BY <1>1 DEF UdataLive
<1> QED  BY <1>2, Invariance, PTL

\* waitpid never blocks the loop.
THEOREM WaitReturns == Spec => []WaitNeverBlocks
<1>1. ASSUME IInv, InLoop, NEW e \in batch, e.filter = "PROC"
      PROVE  /\ cl[e.udata].life = "live" /\ cl[e.udata].pid = e.id
             /\ proc[e.id] \in Exited
  <2>1. e.udata # None
    BY <1>1 DEF IInv, LoopInv, Knote
  <2> QED  BY <1>1, <2>1 DEF IInv, LoopInv, KnoteOK, ProcOK
<1>2. IInv => WaitNeverBlocks
  BY <1>1 DEF WaitNeverBlocks
<1> QED  BY <1>2, Invariance, PTL

\* No 200 answer is sent before the header of its request is complete, the body of a GET
\* or DELETE is there, and the script of a POST was waited for.
THEOREM RepliesAreDue == Spec => []NoEarlyReply
<1>1. ASSUME IInv, InLoop, NEW c \in Live, Knote("WRITE", cl[c].sock, c) \in kn, cl[c].code < 400
      PROVE  /\ cl[c].st = "DONE" /\ cl[c].pid = None
             /\ cl[c].method # "POST" => cl[c].body # "short"
  <2> DEFINE k == Knote("WRITE", cl[c].sock, c)
  <2>1. k \in kn /\ k.udata = c /\ k.filter = "WRITE" /\ k.id = cl[c].sock /\ c # None
    BY <1>1, Sentinels DEF Knote, Live
  <2>2. cl[c].code = 200
    BY <1>1 DEF IInv, TypeOK, Client, Errors, Live
  <2> HIDE DEF k
  <2>3. KnoteOK(k, cl[c])
    BY <1>1, <2>1 DEF IInv, LoopInv
  <2> QED  BY <2>1, <2>2, <2>3 DEF KnoteOK, Settled
<1>2. IInv => NoEarlyReply
  BY <1>1 DEF NoEarlyReply
<1> QED  BY <1>2, Invariance, PTL

-----------------------------------------------------------------------------
(* Who may be killed. *)

\* A step that kills no one.
Spared == \A p \in Pids : proc'[p] = "killed" => proc[p] = "killed"

\* A step that kills no one but the watched child q of c, which c forgets.
KillsOnly(c, q) ==
  /\ proc' = Killed(q)
  /\ q # None => /\ q \in Pids /\ cl[c].life = "live" /\ cl[c].pid = q
                 /\ cl'[c].pid = None /\ Has(kn, "PROC", q)

\* What one step of KillsOnlyOwnChild may do.
KillOK ==
  \A p \in Pids :
    proc'[p] = "killed" /\ proc[p] # "killed" =>
      /\ proc[p] \in {"running"} \cup Exited
      /\ \E c \in Live : cl[c].pid = p /\ cl'[c].pid # p

\* Such a step is one KillsOnlyOwnChild allows.
LEMMA KillsOnlyOK ==
  ASSUME IInv, InLoop, NEW c \in Clients, NEW q, KillsOnly(c, q)
  PROVE  KillOK
<1>1. CASE q = None
  BY <1>1, Sentinels DEF KillsOnly, Killed, KillOK
<1>2. CASE q # None
  <2>1. /\ q \in Pids /\ c \in Live /\ cl[c].pid = q /\ cl'[c].pid = None
        /\ Has(kn, "PROC", q) /\ q # None
    BY <1>2 DEF KillsOnly, Live
  <2>2. proc' = [proc EXCEPT ![q] = "killed"]
    BY <2>1, Sentinels DEF KillsOnly, Killed
  <2>3. proc[q] \in {"running"} \cup Exited
    BY <2>1 DEF IInv, LoopInv, ProcOK, Has
  <2>4. \A p \in Pids \ {q} : proc'[p] = proc[p]
    BY <2>2 DEF IInv, TypeOK
  <2> QED  BY <2>1, <2>3, <2>4 DEF KillOK
<1> QED  BY <1>1, <1>2

\* Forking a child changes that child only.
LEMMA SpawnSpares ==
  ASSUME IInv, NEW e, NEW c, NEW r, NEW K, Spawn(e, c, r, K)
  PROVE  Spared
<1>1. proc \in [Pids -> Procs]
  BY DEF IInv, TypeOK
<1>2. \/ proc' = proc
      \/ \E p \in Pids, new \in {"running"} \cup Exited : proc' = [proc EXCEPT ![p] = new]
  <2>1. CASE PipeFails(e, c, r, K)
    BY <2>1 DEF PipeFails
  <2>2. ASSUME NEW w, NEW o, NEW p, Forked(e, c, r, K, w, o, p)
        PROVE  \/ proc' = proc
               \/ \E i \in Pids, new \in {"running"} \cup Exited : proc' = [proc EXCEPT ![i] = new]
    BY <2>2 DEF Forked
  <2> QED  BY <2>1, <2>2 DEF Spawn, Forks
<1> QED  BY <1>1, <1>2 DEF Spared, Exited

\* Nor does anything a request does kill.
LEMMA HandleRequestSpares ==
  ASSUME IInv, NEW e, NEW c, NEW r, NEW K, HandleRequest(e, c, r, K)
  PROVE  Spared
<1>1. UNCHANGED os => Spared
  BY DEF os, Spared
<1>2. ASSUME NEW q, Respond(e, c, q, K) PROVE Spared
  BY <1>1, <1>2, SpawnSpares DEF Respond
<1> QED  BY <1>1, <1>2, SpawnSpares DEF HandleRequest

\* A clean-up kills the child of the client it frees, or the one its caller ended.
LEMMA CleanUpKills ==
  ASSUME IInv, InLoop, NEW e, NEW c \in Clients, NEW r, NEW K, NEW S, NEW p,
         CleanUp(e, c, r, K, S, p), cl[c].life = "live", Typed(K),
         \A i : Has(K, "PROC", i) => Has(kn, "PROC", i),
         \/ r.pid = cl[c].pid /\ p = None
         \/ r.pid = None /\ p = cl[c].pid /\ p \in Pids /\ Has(kn, "PROC", p)
  PROVE  \E q : KillsOnly(c, q)
<1> DEFINE shut == {e.id} \cup IF r.pid = None THEN {} ELSE PipeEnds(r)
           K1   == CloseAll(K, shut)
           gone == NewClient("freed", r.sock)
           dead == IF PidKnown(K1, r) /\ r.pid # None THEN r.pid ELSE p
<1>1. proc' = Killed(dead) /\ cl' = [cl EXCEPT ![c] = gone]
  BY DEF CleanUp, Leave
<1>2. cl'[c].pid = None
  <2>1. cl'[c] = gone
    BY <1>1 DEF IInv, TypeOK
  <2> QED  BY <2>1 DEF NewClient
<1>3. \A i : Has(K1, "PROC", i) => Has(K, "PROC", i) /\ i \in Pids
  BY DEF CloseAll, Has, Typed, Knotes
<1>4. dead # None => dead \in Pids /\ cl[c].pid = dead /\ Has(kn, "PROC", dead)
  <2> HIDE DEF K1
  <2>1. CASE PidKnown(K1, r) /\ r.pid # None
    BY <1>3, <2>1 DEF PidKnown
  <2>2. CASE ~(PidKnown(K1, r) /\ r.pid # None)
    BY <2>2
  <2> QED  BY <2>1, <2>2
<1> HIDE DEF dead
<1>5. KillsOnly(c, dead)
  BY <1>1, <1>2, <1>4 DEF KillsOnly
<1> QED  BY <1>5

\* An error answer kills the child of its client first, whatever send does then.
LEMMA WriteSocketKills ==
  ASSUME IInv, InLoop, NEW e \in batch, NEW c \in Clients, cl[c].life = "live",
         WriteSocket(e, c, cl[c])
  PROVE  Spared \/ \E q : KillsOnly(c, q)
<1> DEFINE r    == cl[c]
           ends == IF Ends(r) THEN PipeEnds(r) ELSE {}
           K1   == CloseAll(TimerReset(c, r), ends)
           K2   == IF Ends(r) THEN Unwatched(K1, r) ELSE K1
           q    == IF Ends(r) THEN [r EXCEPT !.pid = None] ELSE r
           p    == IF Ends(r) THEN r.pid ELSE None
<1>1. \/ UNCHANGED proc
      \/ /\ Ends(r) => PidKnown(K1, r)
         /\ \/ CleanUp(e, c, q, K2, ends, p)
            \/ /\ \/ Return(e, c, q, K2)
                  \/ Return(e, c, Cleared(q), Add(Del(K2, "WRITE", r.sock), "READ", r.sock, c))
                  \/ Throw(e, c, q, K2, 500)
               /\ proc' = Killed(p)
  BY DEF WriteSocket
<1>2. r \in Client /\ r.sock \in Fds /\ Typed(kn) /\ cl \in [Clients -> Client]
  BY DEF IInv, TypeOK, LoopInv, ClientOK
<1>3. Typed(K1) /\ Typed(K2)
  <2>1. Typed(TimerReset(c, r))
    BY <1>2, AddTyped DEF TimerReset, Filters
  <2>2. Typed(K1)
    BY <2>1, DelTyped
  <2> QED  BY <2>2, DelTyped DEF Unwatched
<1>4. \A i : /\ Has(K1, "PROC", i) => Has(kn, "PROC", i) /\ i \in Pids
             /\ Has(K2, "PROC", i) => Has(K1, "PROC", i)
  <2>1. \A k \in K1 : k.filter = "PROC" => k \in kn
    BY DEF CloseAll, TimerReset, Add, Del, Knote
  <2>2. K2 \subseteq K1
    BY DEF Unwatched, Del
  <2> QED  BY <1>2, <2>1, <2>2 DEF Has, Typed, Knotes
<1>5. ASSUME Ends(r) => PidKnown(K1, r)
      PROVE  /\ p # None => p \in Pids /\ p = r.pid /\ Has(kn, "PROC", p)
             /\ \/ q.pid = r.pid /\ p = None
                \/ q.pid = None /\ p = r.pid /\ p \in Pids /\ Has(kn, "PROC", p)
             /\ q \in Client /\ (p # None => q.pid = None)
  <2>1. CASE ~Ends(r)
    BY <1>2, <2>1
  <2>2. CASE Ends(r)
    <3>1. Has(K1, "PROC", r.pid)
      BY <1>5, <2>2 DEF PidKnown, Ends
    <3>2. [r EXCEPT !.pid = None] \in Client /\ [r EXCEPT !.pid = None].pid = None
      BY <1>2 DEF Client
    <3>3. Has(kn, "PROC", r.pid) /\ r.pid \in Pids
      BY <1>4, <3>1
    <3> HIDE DEF K1
    <3> QED  BY <2>2, <3>2, <3>3
  <2> QED  BY <2>1, <2>2
<1>6. CASE UNCHANGED proc
  BY <1>6 DEF Spared
<1>7. CASE (Ends(r) => PidKnown(K1, r)) /\ CleanUp(e, c, q, K2, ends, p)
  <2>1. /\ \/ q.pid = r.pid /\ p = None
           \/ q.pid = None /\ p = r.pid /\ p \in Pids /\ Has(kn, "PROC", p)
        /\ \A i : Has(K2, "PROC", i) => Has(kn, "PROC", i)
        /\ r.pid = cl[c].pid
    BY <1>4, <1>5, <1>7
  <2> HIDE DEF q, K2, K1, p, ends, r
  <2> QED  BY <1>3, <1>7, <2>1, CleanUpKills
<1>8. CASE /\ Ends(r) => PidKnown(K1, r)
           /\ \/ Return(e, c, q, K2)
              \/ Return(e, c, Cleared(q), Add(Del(K2, "WRITE", r.sock), "READ", r.sock, c))
              \/ Throw(e, c, q, K2, 500)
           /\ proc' = Killed(p)
  <2>1. q \in Client /\ (p # None => q.pid = None)
    BY <1>5, <1>8
  <2> HIDE DEF q, K2
  <2>2. Cleared(q).pid = q.pid
    BY <2>1, ClearedType
  <2>3. cl'[c].pid = q.pid
    <3>1. \A f : [q EXCEPT !.code = 500, !.resp = f].pid = q.pid
      BY <2>1 DEF Client
    <3>2. ASSUME NEW s, NEW L, Return(e, c, s, L) PROVE cl'[c] = s
      BY <1>2, <3>2 DEF Return
    <3>3. Throw(e, c, q, K2, 500) => cl'[c].pid = q.pid
      <4>1. CASE Leave("deaf", c, q)
        BY <1>2, <4>1 DEF Leave
      <4>2. ASSUME NEW f, Return(e, c, [q EXCEPT !.code = 500, !.resp = f], ToWrite(c, q, K2))
            PROVE  cl'[c].pid = q.pid
        <5>1. cl'[c] = [q EXCEPT !.code = 500, !.resp = f]
          BY <1>2, <4>2 DEF Return
        <5> QED  BY <2>1, <5>1 DEF Client
      <4> QED  BY <4>1, <4>2, ZenonT(30) DEF Throw
    <3> QED  BY <1>8, <2>2, <3>2, <3>3
  <2>4. p # None => p \in Pids /\ cl[c].pid = p /\ Has(kn, "PROC", p)
    BY <1>5, <1>8
  <2> HIDE DEF p
  <2>5. KillsOnly(c, p)
    BY <1>8, <2>1, <2>3, <2>4 DEF KillsOnly
  <2> QED  BY <2>5
<1> QED  BY <1>1, <1>6, <1>7, <1>8

\* Whoever is killed is the unreaped child of a client, which forgets it.
THEOREM KillsAreOwn == Spec => KillsOnlyOwnChild
<1>1. ASSUME IInv, [Next]_vars PROVE [KillOK]_vars
  <2>1. Spared => KillOK
    BY DEF Spared, KillOK
  <2>2. UNCHANGED proc => Spared
    BY DEF Spared
  <2>3. CASE InLoop /\ Kevent
    BY <2>1, <2>2, <2>3 DEF Kevent, os
  <2>4. ASSUME NEW p \in Pids, ChildExits(p) PROVE KillOK
    <3>1. PICK status \in Exited : proc' = [proc EXCEPT ![p] = status]
      BY <2>4 DEF ChildExits
    <3> QED  BY <1>1, <2>1, <3>1 DEF IInv, TypeOK, Spared, Exited
  <2>5. ASSUME InLoop, NEW e \in batch, HandleEvent(e) PROVE KillOK
    <3>1. CASE AcceptClient(e)
      BY <2>1, <2>2, <3>1 DEF AcceptClient
    <3>2. CASE e.udata # None
      <4> DEFINE c == e.udata
                 r == cl[c]
      <4>1. c \in Clients /\ Typed(kn) /\ (r.life = "live" => r.sock \in Fds)
        BY <1>1, <2>5, <3>2 DEF IInv, LoopInv, Typed, Knotes, ClientOK
      <4>2. CASE Dangling(e, c, r)
        BY <2>1, <2>2, <4>2 DEF Dangling, os
      <4>3. CASE r.life = "live" /\ ReadSocket(e, c, r)
        <5>1. CASE HandleRequest(e, c, r, TimerReset(c, r))
          BY <1>1, <2>1, <5>1, HandleRequestSpares
        <5>2. CASE CleanUp(e, c, r, TimerReset(c, r), {}, None)
          <6>1. Typed(TimerReset(c, r))
            BY <4>1, <4>3, AddTyped DEF TimerReset, Filters
          <6>2. \A i : Has(TimerReset(c, r), "PROC", i) => Has(kn, "PROC", i)
            BY DEF TimerReset, Add, Del, Knote, Has
          <6>3. \E q : KillsOnly(c, q)
            BY <1>1, <2>5, <4>1, <4>3, <5>2, <6>1, <6>2, CleanUpKills
          <6> QED  BY <1>1, <2>5, <4>1, <6>3, KillsOnlyOK
        <5> QED  BY <4>3, <5>1, <5>2 DEF ReadSocket
      <4>4. CASE r.life = "live" /\ Timeout(e, c, r)
        <5>1. \E q : KillsOnly(c, q)
          BY <1>1, <2>5, <4>1, <4>4, CleanUpKills DEF Timeout
        <5> QED  BY <1>1, <2>5, <4>1, <5>1, KillsOnlyOK
      <4>5. CASE r.life = "live" /\ WriteSocket(e, c, r)
        <5>1. Spared \/ \E q : KillsOnly(c, q)
          BY <1>1, <2>5, <4>1, <4>5, WriteSocketKills
        <5> QED  BY <1>1, <2>1, <2>5, <4>1, <5>1, KillsOnlyOK
      <4>6. CASE ReadPipe(e, c, r) \/ WritePipe(e, c, r)
        BY <2>1, <2>2, <4>6 DEF ReadPipe, WritePipe, os
      <4>7. CASE EndProcess(e, c, r)
        <5>1. proc' = [proc EXCEPT ![r.pid] = "reaped"] /\ r.pid \in Pids
          BY <4>7 DEF EndProcess
        <5> QED  BY <1>1, <2>1, <5>1 DEF IInv, TypeOK, Spared
      <4> QED  BY <2>5, <3>2, <4>2, <4>3, <4>4, <4>5, <4>6, <4>7 DEF HandleEvent
    <3> QED  BY <2>5, <3>1, <3>2 DEF HandleEvent
  <2>6. CASE UNCHANGED vars
    BY <2>6
  <2> QED  BY <1>1, <2>3, <2>4, <2>5, <2>6 DEF Next, InLoop
<1> QED  BY <1>1, Invariance, PTL DEF KillsOnlyOwnChild, KillOK, Spec

-----------------------------------------------------------------------------
(* Where the report of an exit goes. *)

\* The copy K still watches every process but p.
Watches(K, p) == \A k \in kn : k.filter = "PROC" => k \in K \/ k.id = p

\* In the loop no report but e, the one at hand, is lost, unless p's.
KeptBut(e, p) ==
  mode' = "loop" => \A k \in (kn \cup batch) \ {e} :
    k.filter = "PROC" => k \in kn' \cup batch' \/ k.id = p

\* A handler that returns, throws or starts an answer keeps what its copy watches.
LEMMA ReturnWatches ==
  ASSUME NEW e, NEW c, NEW r, NEW K, NEW p, Watches(K, p)
  PROVE  /\ Return(e, c, r, K) => KeptBut(e, p)
         /\ \A n : Throw(e, c, r, K, n) => KeptBut(e, p)
         /\ StartReply(e, c, r, K) => KeptBut(e, p)
<1>1. Watches(ToWrite(c, r, K), p)
  BY DEF Watches, ToWrite, Add, Del
<1>2. ASSUME NEW s, NEW L, Return(e, c, s, L), Watches(L, p) PROVE KeptBut(e, p)
  BY <1>2 DEF Return, Watches, KeptBut
<1>3. ASSUME NEW n, Throw(e, c, r, K, n) PROVE KeptBut(e, p)
  <2>1. CASE Leave("deaf", c, r)
    BY <2>1 DEF Leave, KeptBut
  <2> QED  BY <1>1, <1>2, <1>3, <2>1 DEF Throw
<1> QED  BY <1>1, <1>2, <1>3 DEF StartReply

\* Registering a READ or WRITE event forgets no process.
LEMMA AddWatches ==
  ASSUME NEW K, NEW p, Watches(K, p), NEW f, NEW i, NEW c, f # "PROC"
  PROVE  Watches(Add(K, f, i, c), p)
BY DEF Watches, Add, Del

\* Nor does answering a request whose header is complete.
LEMMA HandleResponseWatches ==
  ASSUME NEW e, NEW c, NEW r, NEW K, NEW p, Watches(K, p), HandleResponse(e, c, r, K)
  PROVE  KeptBut(e, p)
<1>1. ASSUME NEW s PROVE Watches(Add(K, "WRITE", s, c), p)
  BY AddWatches
<1>2. ASSUME ParseChunked(e, c, r, K) PROVE KeptBut(e, p)
  BY <1>2, ReturnWatches DEF ParseChunked
<1>3. ASSUME NEW q, Return(e, c, q, K) \/ HandleGet(e, c, q, K) \/ HandleDelete(e, c, q, K)
      PROVE  KeptBut(e, p)
  <2>1. CASE Leave("undefined", c, q)
    BY <2>1 DEF Leave, KeptBut
  <2> QED  BY <1>3, <2>1, ReturnWatches, ZenonT(30) DEF HandleGet, HandleDelete
<1>4. ASSUME NEW q, HandlePost(e, c, q, K) PROVE KeptBut(e, p)
  BY <1>1, <1>4, ReturnWatches, ZenonT(30) DEF HandlePost
<1> QED  BY <1>2, <1>3, <1>4 DEF HandleResponse

\* A new child was not watched before.
LEMMA SpawnWatches ==
  ASSUME IInv, InLoop, NEW e, NEW c, NEW r \in Client, NEW K, NEW q, Watches(K, q),
         Spawn(e, c, r, K)
  PROVE  KeptBut(e, q)
<1>1. CASE PipeFails(e, c, r, K)
  BY <1>1, ReturnWatches, ZenonT(30) DEF PipeFails
<1>2. ASSUME NEW w, NEW o, NEW p \in ForkResults, Forked(e, c, r, K, w, o, p)
      PROVE  KeptBut(e, q)
  <2> DEFINE s == [r EXCEPT !.wfd = IF w = None THEN r.wfd ELSE w, !.rfd = o, !.pid = p]
  <2>1. \/ \E n : Throw(e, c, s, K, n)
        \/ p \in Pids /\ Return(e, c, s, Watched(c, s, K))
        \/ p \in Pids /\ HandleResponse(e, c, [s EXCEPT !.st = "DONE"], Watched(c, s, K))
    BY <1>2 DEF Forked
  <2>2. ASSUME p \in Pids PROVE Watches(Watched(c, s, K), q)
    <3>1. \A k \in kn : k.filter = "PROC" => k.id # p
      BY <1>2, <2>2, Sentinels DEF ForkResults, IInv, LoopInv, ProcOK, Exited
    <3>2. s.pid = p
      BY DEF Client
    <3> HIDE DEF s
    <3>3. Watches(Add(K, "PROC", s.pid, c), q)
      BY <3>1, <3>2 DEF Watches, Add, Del
    <3> QED  BY <3>3, AddWatches DEF Watched
  <2> HIDE DEF s
  <2> QED  BY <2>1, <2>2, ReturnWatches, HandleResponseWatches
<1> QED  BY <1>1, <1>2 DEF Spawn, Forks

\* The copies of a request whose method, encoding or size was just learned.
LEMMA AskedType ==
  ASSUME NEW r \in Client
  PROVE  /\ \A m \in Methods, ch \in Chunkings, st \in {"CREATE", "DONE"} :
              [[r EXCEPT !.method = m, !.chunked = ch] EXCEPT !.st = st] \in Client
         /\ \A size \in Sizes : [r EXCEPT !.body = size] \in Client
<1>1. ASSUME NEW m \in Methods, NEW ch \in Chunkings, NEW st \in {"CREATE", "DONE"}
      PROVE  [[r EXCEPT !.method = m, !.chunked = ch] EXCEPT !.st = st] \in Client
  <2> DEFINE q1 == [r EXCEPT !.method = m]
             q2 == [q1 EXCEPT !.chunked = ch]
  <2>1. q1 \in Client
    BY Parameters DEF Client
  <2>2. q2 \in Client
    <3> HIDE DEF q1
    <3> QED  BY <2>1, Parameters DEF Client
  <2>3. [q2 EXCEPT !.st = st] \in Client
    <3> HIDE DEF q2
    <3> QED  BY <2>2 DEF Client
  <2>4. [r EXCEPT !.method = m, !.chunked = ch] = q2
    BY DEF Client
  <2> HIDE DEF q2
  <2> QED  BY <2>3, <2>4
<1>2. \A size \in Sizes : [r EXCEPT !.body = size] \in Client
  BY DEF Client
<1> QED  BY <1>1, <1>2

\* No request makes the loop forget a process.
LEMMA HandleRequestWatches ==
  ASSUME IInv, InLoop, NEW e, NEW c, NEW r \in Client, NEW K, NEW q, Watches(K, q),
         HandleRequest(e, c, r, K)
  PROVE  KeptBut(e, q)
<1>1. ASSUME NEW s \in Client, Respond(e, c, s, K) PROVE KeptBut(e, q)
  <2>1. CASE HandleResponse(e, c, s, K)
    BY <2>1, HandleResponseWatches
  <2>2. ASSUME NEW size \in Longer(s.body), Spawn(e, c, [s EXCEPT !.body = size], K)
        PROVE  KeptBut(e, q)
    <3>1. [s EXCEPT !.body = size] \in Client
      BY AskedType DEF Longer, Sizes
    <3> QED  BY <2>2, <3>1, SpawnWatches
  <2> QED  BY <1>1, <2>1, <2>2 DEF Respond
<1>2. ASSUME NEW m \in Methods, NEW ch \in Chunkings,
             \/ Spawn(e, c, [[r EXCEPT !.method = m, !.chunked = ch] EXCEPT !.st = "CREATE"], K)
             \/ Respond(e, c, [[r EXCEPT !.method = m, !.chunked = ch] EXCEPT !.st = "DONE"], K)
      PROVE  KeptBut(e, q)
  BY <1>1, <1>2, AskedType, SpawnWatches
<1>3. CASE /\ \/ Return(e, c, r, K)
              \/ "field" \in Faults /\ Leave("undefined", c, r)
              \/ \E errnum \in {400, 405} : Throw(e, c, r, K, errnum)
           /\ UNCHANGED os
  <2>1. CASE Leave("undefined", c, r)
    BY <2>1 DEF Leave, KeptBut
  <2> QED  BY <1>3, <2>1, ReturnWatches
<1>4. CASE /\ r.st # "DONE"
           /\ \E errnum \in {400, 405} : Throw(e, c, [r EXCEPT !.st = "CREATE"], K, errnum)
           /\ UNCHANGED os
  <2> DEFINE s == [r EXCEPT !.st = "CREATE"]
  <2>1. \E errnum \in {400, 405} : Throw(e, c, s, K, errnum)
    BY <1>4
  <2> HIDE DEF s
  <2> QED  BY <2>1, ReturnWatches
<1>5. CASE /\ r.st # "DONE"
           /\ \E m \in Methods, ch \in Chunkings :
                LET s == [r EXCEPT !.method = m, !.chunked = ch]
                IN \/ m = "POST" /\ Spawn(e, c, [s EXCEPT !.st = "CREATE"], K)
                   \/ m # "POST" /\ Respond(e, c, [s EXCEPT !.st = "DONE"], K)
  <2>1. PICK m \in Methods, ch \in Chunkings :
          \/ Spawn(e, c, [[r EXCEPT !.method = m, !.chunked = ch] EXCEPT !.st = "CREATE"], K)
          \/ Respond(e, c, [[r EXCEPT !.method = m, !.chunked = ch] EXCEPT !.st = "DONE"], K)
    BY <1>5
  <2> QED  BY <1>2, <2>1
<1>6. CASE r.st = "DONE" /\ Respond(e, c, r, K)
  BY <1>1, <1>6
<1> QED  BY <1>3, <1>4, <1>5, <1>6 DEF HandleRequest

\* A clean-up frees a client, or ends the loop.
LEMMA CleanUpFrees ==
  ASSUME IInv, NEW e, NEW c \in Live, NEW r, NEW K, NEW S, NEW p, CleanUp(e, c, r, K, S, p)
  PROVE  \E d \in Live : cl'[d].life = "freed"
<1>1. cl' = [cl EXCEPT ![c] = NewClient("freed", r.sock)]
  BY DEF CleanUp, Leave
<1>2. cl'[c] = NewClient("freed", r.sock)
  BY <1>1 DEF IInv, TypeOK, Live
<1> QED  BY <1>2 DEF NewClient

\* Before an error answer the child is killed, so that its exit does not matter.
LEMMA WriteSocketWatches ==
  ASSUME IInv, InLoop, NEW e \in batch, NEW c \in Live, WriteSocket(e, c, cl[c])
  PROVE  \/ \E d \in Live : cl'[d].life = "freed"
         \/ KeptBut(e, None)
         \/ \E i \in Pids : KeptBut(e, i) /\ proc'[i] = "killed"
<1> DEFINE r    == cl[c]
           ends == IF Ends(r) THEN PipeEnds(r) ELSE {}
           K1   == CloseAll(TimerReset(c, r), ends)
           K2   == IF Ends(r) THEN Unwatched(K1, r) ELSE K1
           q    == IF Ends(r) THEN [r EXCEPT !.pid = None] ELSE r
           p    == IF Ends(r) THEN r.pid ELSE None
<1>1. \/ Throw(e, c, r, K1, 500)
      \/ /\ Ends(r) => PidKnown(K1, r)
         /\ \/ CleanUp(e, c, q, K2, ends, p)
            \/ /\ \/ Return(e, c, q, K2)
                  \/ Return(e, c, Cleared(q), Add(Del(K2, "WRITE", r.sock), "READ", r.sock, c))
                  \/ Throw(e, c, q, K2, 500)
               /\ proc' = Killed(p)
  BY DEF WriteSocket
<1>2. Watches(K1, None)
  BY DEF Watches, CloseAll, TimerReset, Add, Del
<1>3. \A k \in K1 : k.filter = "PROC" => k \in kn
  BY DEF CloseAll, TimerReset, Add, Del, Knote
<1>4. Watches(K2, p)
  <2> HIDE DEF K1
  <2>1. CASE Ends(r)
    <3>1. K2 = Del(K1, "PROC", r.pid) /\ p = r.pid
      BY <2>1 DEF Unwatched
    <3> HIDE DEF r, K2, p
    <3> QED  BY <1>2, <3>1, Sentinels DEF Watches, Del, IInv, Typed, Knotes
  <2>2. CASE ~Ends(r)
    BY <1>2, <2>2
  <2> QED  BY <2>1, <2>2
<1>5. Watches(Add(Del(K2, "WRITE", r.sock), "READ", r.sock, c), p)
  BY <1>4 DEF Watches, Add, Del
<1>6. ASSUME Ends(r), PidKnown(K1, r) PROVE p \in Pids /\ p = r.pid
  BY <1>3, <1>6 DEF PidKnown, Ends, Has, IInv, Typed, Knotes
<1>7. ASSUME NEW i \in Pids, proc' = Killed(i) PROVE proc'[i] = "killed"
  BY <1>7, Sentinels DEF Killed, IInv, TypeOK
<1>8. p = None \/ Ends(r)
  OBVIOUS
<1> HIDE DEF K1, K2, q, p
<1>9. CASE CleanUp(e, c, q, K2, ends, p)
  BY <1>9, CleanUpFrees
<1>10. CASE /\ Ends(r) => PidKnown(K1, r)
            /\ \/ Return(e, c, q, K2)
               \/ Return(e, c, Cleared(q), Add(Del(K2, "WRITE", r.sock), "READ", r.sock, c))
               \/ Throw(e, c, q, K2, 500)
            /\ proc' = Killed(p)
  <2>1. KeptBut(e, p)
    BY <1>4, <1>5, <1>10, ReturnWatches, ZenonT(30)
  <2> QED  BY <1>6, <1>7, <1>8, <1>10, <2>1
<1>11. CASE Throw(e, c, r, K1, 500)
  BY <1>2, <1>11, ReturnWatches
<1> QED  BY <1>1, <1>9, <1>10, <1>11

\* An event loses no report of an exit but for the reasons ExitNotLost gives.
LEMMA HandleEventWatches ==
  ASSUME IInv, InLoop, NEW e \in batch, HandleEvent(e)
  PROVE  \/ \E d \in Live : cl'[d].life = "freed"
         \/ KeptBut(e, None) /\ (e.filter = "PROC" => proc'[e.id] = "reaped")
         \/ e.filter # "PROC" /\ \E p \in Pids : KeptBut(e, p) /\ proc'[p] = "killed"
<1>1. Watches(kn, None)
  BY DEF Watches
<1>2. CASE e.udata = None /\ AcceptClient(e)
  <2>1. ASSUME NEW c, NEW f, Return(e, c, NewClient("live", f), Accepted(c, f))
        PROVE  KeptBut(e, None)
    <3>1. Watches(Accepted(c, f), None)
      BY <1>1, AddWatches DEF Accepted
    <3> QED  BY <2>1, <3>1, ReturnWatches
  <2>2. mode' = "exited" => KeptBut(e, None)
    BY DEF KeptBut
  <2>3. e.filter # "PROC"
    BY <1>2 DEF IInv, LoopInv, Knote
  <2> QED  BY <1>2, <2>1, <2>2, <2>3 DEF AcceptClient
<1>3. CASE e.udata # None
  <2> DEFINE c == e.udata
             r == cl[c]
  <2>1. c \in Clients /\ r \in Client /\ KnoteOK(e, r)
    BY <1>3 DEF IInv, LoopInv, Typed, TypeOK, Knotes
  <2>2. Watches(TimerReset(c, r), None)
    BY <1>1, AddWatches DEF TimerReset
  <2> HIDE DEF c, r
  <2>3. CASE Dangling(e, c, r)
    BY <2>1, <2>3 DEF Dangling, Leave, KeptBut, KnoteOK
  <2>4. CASE r.life = "live" /\ ReadSocket(e, c, r)
    <3>1. CASE CleanUp(e, c, r, TimerReset(c, r), {}, None)
      BY <2>1, <2>4, <3>1, CleanUpFrees DEF Live, r
    <3>2. CASE HandleRequest(e, c, r, TimerReset(c, r))
      BY <2>1, <2>2, <2>4, <3>2, HandleRequestWatches DEF ReadSocket
    <3> QED  BY <2>4, <3>1, <3>2 DEF ReadSocket
  <2>5. CASE r.life = "live" /\ Timeout(e, c, r)
    BY <2>1, <2>5, CleanUpFrees DEF Live, Timeout, r
  <2>6. CASE r.life = "live" /\ WriteSocket(e, c, r)
    <3>1. e.filter # "PROC" /\ c \in Live
      BY <2>1, <2>6 DEF WriteSocket, Live, r
    <3> QED  BY <2>6, <3>1, WriteSocketWatches DEF r
  <2>7. CASE ReadPipe(e, c, r) \/ WritePipe(e, c, r)
    <3>1. Watches(CloseAll(kn, {e.id}), None) /\ e.filter # "PROC"
      BY <2>7 DEF Watches, CloseAll, ReadPipe, WritePipe
    <3>2. \/ \E s, L : Return(e, c, s, L) /\ L \in {kn, CloseAll(kn, {e.id})}
          \/ \E n : Throw(e, c, r, kn, n)
          \/ Leave("killed", c, r)
      <4>1. CASE ReadPipe(e, c, r)
        BY <4>1 DEF ReadPipe
      <4>2. CASE WritePipe(e, c, r)
        BY <4>2, ZenonT(30) DEF WritePipe
      <4> QED  BY <2>7, <4>1, <4>2
    <3>3. Leave("killed", c, r) => KeptBut(e, None)
      BY DEF Leave, KeptBut
    <3> QED  BY <1>1, <3>1, <3>2, <3>3, ReturnWatches
  <2>8. CASE r.life = "live" /\ EndProcess(e, c, r)
    <3>1. proc' = [proc EXCEPT ![r.pid] = "reaped"] /\ r.pid \in Pids /\ e.id = r.pid
      BY <2>1, <2>8 DEF EndProcess, KnoteOK
    <3>2. proc'[e.id] = "reaped"
      BY <3>1 DEF IInv, TypeOK
    <3>3. \E s, n : Throw(e, c, s, kn, n) \/ StartReply(e, c, s, kn)
      BY <2>8 DEF EndProcess
    <3> QED  BY <1>1, <3>2, <3>3, ReturnWatches
  <2> QED  BY <1>3, <2>3, <2>4, <2>5, <2>6, <2>7, <2>8 DEF HandleEvent, c, r
<1> QED  BY <1>2, <1>3 DEF HandleEvent

\* The report of an exit is lost only when a clean-up drops the batch.
THEOREM ReportsArrive == Spec => ExitNotLost
<1>1. ASSUME IInv, Next, NEW c \in Live,
             Knote("PROC", cl[c].pid, c) \in kn \cup batch,
             Knote("PROC", cl[c].pid, c) \notin kn' \cup batch', mode' = "loop"
      PROVE  \/ proc'[cl[c].pid] \in {"reaped", "killed"}
             \/ \E d \in Live : cl'[d].life = "freed"
  <2> DEFINE k == Knote("PROC", cl[c].pid, c)
  <2>1. /\ k.filter = "PROC" /\ k.id = cl[c].pid /\ k.id # None
        /\ k \in kn \cup batch /\ k \notin kn' \cup batch'
    <3>1. k.filter = "PROC" /\ k.id = cl[c].pid
      BY DEF Knote
    <3>2. k \in Knotes
      BY <1>1 DEF IInv, LoopInv, Typed, Next, InLoop
    <3>3. k.id \in Pids
      BY <3>1, <3>2 DEF Knotes
    <3> QED  BY <1>1, <3>1, <3>3, Sentinels
  <2> HIDE DEF k
  <2>2. ASSUME InLoop, NEW e \in batch, HandleEvent(e)
        PROVE  \/ proc'[cl[c].pid] \in {"reaped", "killed"}
               \/ \E d \in Live : cl'[d].life = "freed"
    <3>1. ASSUME NEW p, KeptBut(e, p) PROVE k = e \/ k.id = p
      BY <1>1, <2>1, <3>1 DEF KeptBut
    <3> QED  BY <1>1, <2>1, <2>2, <3>1, HandleEventWatches
  <2>3. ~Kevent
    BY <2>1 DEF Kevent, Batches, Ready
  <2>4. \A p \in Pids : ~ChildExits(p)
    BY <2>1 DEF ChildExits
  <2> QED  BY <1>1, <2>2, <2>3, <2>4 DEF Next, InLoop
<1>2. IInv /\ [Next]_vars =>
        [\A c \in Live :
           LET seen == Knote("PROC", cl[c].pid, c)
           IN  seen \in kn \cup batch /\ seen \notin kn' \cup batch' /\ mode' = "loop" =>
                 \/ proc'[cl[c].pid] \in {"reaped", "killed"}
                 \/ \E d \in Live : cl'[d].life = "freed"]_vars
  BY <1>1
<1> QED  BY <1>2, Invariance, PTL DEF Spec, ExitNotLost
=============================================================================
