---------------------------- MODULE UptimeProofs ----------------------------
(***************************************************************************)
(* Proof that only scripts can stop the server of EventLoop, for any       *)
(* number of connections and descriptors and any batch size.               *)
(***************************************************************************)
EXTENDS ConnectionProofs

\* What OnlyCgiTakesItDown assumes.
Calm == {"fork", "field", "root"} \cap Faults = {} /\ \A p \in Pids : proc[p] = "unused"

\* Without scripts there are only sockets to wait for, a request that has come is
\* still waited for, and no body waits for a script.
Sockets ==
  /\ \A k \in kn \cup batch : k.udata # None =>
       cl[k.udata].life = "live" /\ k.id = cl[k.udata].sock /\ k.filter # "PROC"
  /\ \A k \in batch : k.filter = "READ" => k \in kn
  /\ \A c \in Live : cl[c].pid = None /\ (cl[c].st = "DONE" => cl[c].method # "POST")

\* The third inductive invariant.
CalmInv == Calm => mode \in {"loop", "exited"} /\ ~stolen /\ (InLoop => Sockets)

\* The loop goes on in calm.
Quietly == mode' = "loop" /\ ~stolen' /\ Sockets'

\* Where a handler of e for c starts.
Base(e, c) ==
  /\ IInv /\ ConvInv /\ InLoop /\ ~stolen /\ Sockets
  /\ e \in batch /\ c \in Live /\ e.udata = c /\ c # None

\* A record and knotes a handler of e for c may return.
Fine(r, c) ==
  /\ r.life = "live" /\ r.sock = cl[c].sock /\ r.pid = None
  /\ r.st = "DONE" => r.method # "POST"

Meet(K, e, c) ==
  /\ \A k \in K : k \in kn \/ (k.udata = c /\ k.id = cl[c].sock /\ k.filter \in {"READ", "WRITE", "TIMER"})
  /\ \A k \in kn : k.id # cl[c].sock => k \in K
  /\ \A k \in batch \ {e} : k.filter = "READ" /\ k.id = cl[c].sock => k \in K

\* A handler that returns them.
LEMMA ReturnQuiet ==
  ASSUME NEW e, NEW c, Base(e, c), NEW r, NEW K, Fine(r, c), Meet(K, e, c), ~stolen',
         Return(e, c, r, K)
  PROVE  Quietly
<1>1. /\ kn' = K /\ batch' = batch \ {e} /\ mode' = "loop"
      /\ cl'[c] = r /\ \A d \in Clients \ {c} : cl'[d] = cl[d]
  BY DEF Return, Base, IInv, TypeOK, Live, InLoop
<1>2. \A k \in kn \cup batch : k.udata # None => k.udata \in Clients
  BY DEF Base, IInv, LoopInv, Typed, Knotes
<1>3. ASSUME NEW k \in kn' \cup batch', k.udata # None
      PROVE  cl'[k.udata].life = "live" /\ k.id = cl'[k.udata].sock /\ k.filter # "PROC"
  <2>1. CASE k \in kn \cup batch
    <3>1. cl[k.udata].life = "live" /\ k.id = cl[k.udata].sock /\ k.filter # "PROC"
      BY <1>3, <2>1 DEF Base, Sockets
    <3> QED  BY <1>1, <1>2, <1>3, <2>1, <3>1 DEF Fine
  <2>2. CASE k.udata = c /\ k.id = cl[c].sock /\ k.filter \in {"READ", "WRITE", "TIMER"}
    BY <1>1, <2>2 DEF Fine
  <2> QED  BY <1>1, <2>1, <2>2 DEF Meet
<1>4. \A k \in batch' : k.filter = "READ" => k \in kn'
  BY <1>1 DEF Base, Sockets, Meet
<1>5. \A d \in Live' : cl'[d].pid = None /\ (cl'[d].st = "DONE" => cl'[d].method # "POST")
  BY <1>1 DEF Base, Sockets, Fine, Live
<1> QED  BY <1>1, <1>3, <1>4, <1>5 DEF Quietly, Sockets

\* A clean-up: nothing of the client is left.
LEMMA CleanUpQuiet ==
  ASSUME NEW e, NEW c, Base(e, c), NEW r, NEW K, Fine(r, c), Meet(K, e, c),
         CleanUp(e, c, r, K, {}, None), e.id = r.sock, Knote("TIMER", r.sock, c) \in K
  PROVE  Quietly
<1> DEFINE K1   == CloseAll(K, {e.id})
           gone == NewClient("freed", r.sock)
<1>1. fdt[r.sock].owner = c
  BY DEF Base, ConvInv, OwnAll, Mine, Fine
<1>2. ~stolen'
  BY <1>1 DEF CleanUp, Theft, Base, Fine
<1>3. PidKnown(K1, r) /\ Has(K1, "TIMER", r.sock)
  <2>1. Knote("TIMER", r.sock, c) \in K1
    BY DEF CloseAll, Knote
  <2> QED  BY <2>1 DEF PidKnown, Fine, Has, Knote
<1>4. /\ cl' = [cl EXCEPT ![c] = gone]
      /\ kn' = Untimed(Unwatched(K1, r), r)
      /\ batch' = {}
      /\ mode' = mode
  BY <1>3 DEF CleanUp, Fine, AfterCleanUp
<1>5. cl'[c].life = "freed" /\ \A d \in Clients \ {c} : cl'[d] = cl[d]
  BY <1>4 DEF Base, IInv, TypeOK, Live, NewClient
<1>6. \A k \in kn' : /\ k \in K
                     /\ ~(k.filter \in {"READ", "WRITE"} /\ k.id = r.sock)
                     /\ ~(k.filter = "TIMER" /\ k.id = r.sock)
  BY <1>4 DEF Untimed, Unwatched, Del, CloseAll
<1>7. \A k \in kn : k.udata # None => k.udata \in Clients /\ k.filter \in Filters
  BY DEF Base, IInv, LoopInv, Typed, Knotes, Filters
<1> HIDE DEF K1, gone
<1>8. ASSUME NEW k \in kn', k.udata # None
      PROVE  cl'[k.udata].life = "live" /\ k.id = cl'[k.udata].sock /\ k.filter # "PROC"
  <2>1. CASE k \in kn
    <3>1. cl[k.udata].life = "live" /\ k.id = cl[k.udata].sock /\ k.filter # "PROC"
      BY <1>8, <2>1 DEF Base, Sockets
    <3>2. k.udata # c
      BY <1>6, <1>7, <1>8, <2>1, <3>1 DEF Fine, Filters
    <3> QED  BY <1>5, <1>7, <1>8, <2>1, <3>1, <3>2
  <2>2. ~(k.id = cl[c].sock /\ k.filter \in {"READ", "WRITE", "TIMER"})
    BY <1>6 DEF Fine
  <2> QED  BY <1>6, <2>1, <2>2 DEF Meet
<1>9. \A d \in Live' : cl'[d].pid = None /\ (cl'[d].st = "DONE" => cl'[d].method # "POST")
  BY <1>5 DEF Base, Sockets, Live
<1> QED  BY <1>2, <1>4, <1>8, <1>9 DEF Quietly, Sockets, Base, InLoop
\* An error or an answer to the request at hand, which is still waited for.
LEMMA AnswerQuiet ==
  ASSUME NEW e, NEW c, Base(e, c), e = Rd(cl[c], c), NEW r \in Client, Fine(r, c),
         NEW K, Meet(K, e, c), e \in K, ~stolen'
  PROVE  /\ \A n : Throw(e, c, r, K, n) => Quietly
         /\ StartReply(e, c, r, K) => Quietly
<1> DEFINE L == ToWrite(c, r, K)
<1>1. CanSwitch(K, r)
  BY DEF CanSwitch, Has, Rd, Knote, Fine
<1>2. Meet(L, e, c)
  <2>1. \A k \in batch \ {e} : ~(k.filter = "READ" /\ k.id = cl[c].sock)
    <3>1. e.filter = "READ" /\ e.id = cl[c].sock
      BY DEF Rd, Knote
    <3> QED  BY <3>1 DEF Base, IInv, LoopInv, Typed
  <2>2. \A k \in L : k \in K \/ k = Knote("WRITE", cl[c].sock, c)
    BY DEF ToWrite, Add, Del, Fine
  <2>3. \A k \in K : k.id # cl[c].sock => k \in L
    BY DEF ToWrite, Add, Del, Fine
  <2> HIDE DEF L
  <2> QED  BY <2>1, <2>2, <2>3 DEF Meet, Knote
<1>3. \A n, f : Fine([r EXCEPT !.code = n, !.resp = f], c)
  BY DEF Fine, Client
<1> HIDE DEF L
<1>4. ASSUME NEW n, Throw(e, c, r, K, n) PROVE Quietly
  <2>1. PICK f : Return(e, c, [r EXCEPT !.code = n, !.resp = f], L)
    BY <1>1, <1>4 DEF Throw, L
  <2> QED  BY <1>2, <1>3, <2>1, ReturnQuiet
<1>5. ASSUME StartReply(e, c, r, K) PROVE Quietly
  BY <1>1, <1>2, <1>5, ReturnQuiet DEF StartReply, L
<1> QED  BY <1>4, <1>5

\* handleResponse, but for a POST.
LEMMA HandleResponseQuiet ==
  ASSUME NEW e, NEW c, Base(e, c), e = Rd(cl[c], c), NEW r \in Client, Fine(r, c), r.st = "DONE",
         NEW K, Meet(K, e, c), e \in K, ~stolen', "root" \notin Faults, HandleResponse(e, c, r, K)
  PROVE  Quietly
<1>1. ASSUME NEW q, NEW s, Same(q, s), Fine(s, c) PROVE q \in Client /\ Fine(q, c)
  BY <1>1 DEF Same, Fine
<1>2. CASE r.chunked /\ ParseChunked(e, c, r, K)
  <2>1. PICK some \in {r.unsent, TRUE} :
          \/ Throw(e, c, [r EXCEPT !.unsent = some], K, 400)
          \/ \E last \in {r.ended, TRUE} :
               Return(e, c, [[r EXCEPT !.unsent = some] EXCEPT !.ended = last], K)
    BY <1>2 DEF ParseChunked
  <2> DEFINE q == [r EXCEPT !.unsent = some]
  <2>2. some \in BOOLEAN /\ r.ended \in BOOLEAN /\ "over" \in Longer(r.body)
    BY <2>1 DEF Client, Longer, Sizes
  <2>3. q \in Client /\ Fine(q, c)
    BY <1>1, <2>2, DataSame
  <2> HIDE DEF q
  <2>4. CASE Throw(e, c, q, K, 400)
    BY <2>3, <2>4, AnswerQuiet
  <2>5. ASSUME NEW last \in {r.ended, TRUE}, Return(e, c, [q EXCEPT !.ended = last], K)
        PROVE  Quietly
    <3>1. Fine([q EXCEPT !.ended = last], c)
      BY <2>3 DEF Fine, Client
    <3> QED  BY <2>5, <3>1, ReturnQuiet
  <2> QED  BY <2>1, <2>4, <2>5 DEF q
<1>3. ASSUME NEW size \in Longer(r.body), NEW q, q = [r EXCEPT !.body = size],
             \/ Return(e, c, q, K) \/ HandleGet(e, c, q, K) \/ HandleDelete(e, c, q, K)
      PROVE  Quietly
  <2>1. q \in Client /\ Fine(q, c)
    BY <1>1, <1>3, DataSame
  <2> DEFINE t == [q EXCEPT !.buf = TRUE, !.resp = TRUE]
  <2>2. t \in Client /\ Fine(t, c)
    <3>1. "over" \in Longer(q.body)
      BY DEF Longer, Sizes
    <3> QED  BY <1>1, <2>1, <3>1, DataSame
  <2>3. CASE Return(e, c, q, K)
    BY <2>1, <2>3, ReturnQuiet
  <2>4. CASE HandleGet(e, c, q, K)
    <3>1. Throw(e, c, q, K, 400) \/ StartReply(e, c, t, K)
      BY <2>4 DEF HandleGet
    <3> HIDE DEF t
    <3> QED  BY <2>1, <2>2, <3>1, AnswerQuiet
  <2>5. CASE HandleDelete(e, c, q, K)
    <3>1. Throw(e, c, t, K, 400) \/ StartReply(e, c, t, K)
      BY <2>5 DEF HandleDelete
    <3> HIDE DEF t
    <3> QED  BY <2>2, <3>1, AnswerQuiet
  <2> QED  BY <1>3, <2>3, <2>4, <2>5
<1>4. CASE /\ ~r.chunked
           /\ \E size \in Longer(r.body) :
                LET q == [r EXCEPT !.body = size]
                IN \/ ~Complete(size) /\ Return(e, c, q, K)
                   \/ /\ Complete(size)
                      /\ \/ q.method = "GET"    /\ HandleGet(e, c, q, K)
                         \/ q.method = "DELETE" /\ HandleDelete(e, c, q, K)
                         \/ q.method = "POST"   /\ HandlePost(e, c, q, K)
  <2>1. PICK size \in Longer(r.body) :
                LET q == [r EXCEPT !.body = size]
                IN \/ ~Complete(size) /\ Return(e, c, q, K)
                   \/ /\ Complete(size)
                      /\ \/ q.method = "GET"    /\ HandleGet(e, c, q, K)
                         \/ q.method = "DELETE" /\ HandleDelete(e, c, q, K)
                         \/ q.method = "POST"   /\ HandlePost(e, c, q, K)
    BY <1>4
  <2> DEFINE q == [r EXCEPT !.body = size]
  <2>2. q.method # "POST"
    BY DEF Fine, Client
  <2>3. Return(e, c, q, K) \/ HandleGet(e, c, q, K) \/ HandleDelete(e, c, q, K)
    BY <2>1, <2>2
  <2> HIDE DEF q
  <2> QED  BY <1>3, <2>3 DEF q
<1> QED  BY <1>2, <1>4 DEF HandleResponse

\* In calm no script is started: at most its pipes are missing.
LEMMA SpawnQuiet ==
  ASSUME NEW e, NEW c, Base(e, c), e = Rd(cl[c], c), NEW r \in Client, Fine(r, c),
         NEW K, Meet(K, e, c), e \in K, Calm, Calm', Spawn(e, c, r, K)
  PROVE  Quietly
<1>1. CASE PipeFails(e, c, r, K)
  <2>1. ~stolen'
    BY <1>1 DEF PipeFails, Base
  <2>2. PICK w \in Fds \cup {None} :
          Throw(e, c, IF w = None THEN r ELSE [r EXCEPT !.wfd = w], K, 500)
    BY <1>1 DEF PipeFails, FreeFds
  <2> DEFINE q == IF w = None THEN r ELSE [r EXCEPT !.wfd = w]
  <2>3. q \in Client /\ Fine(q, c)
    BY DEF Fine, Client
  <2> HIDE DEF q
  <2> QED  BY <2>1, <2>2, <2>3, AnswerQuiet DEF q
<1>2. ASSUME NEW w, NEW o, NEW p \in ForkResults, Forked(e, c, r, K, w, o, p)
      PROVE  FALSE
  <2>1. p \in Pids
    BY DEF ForkResults, Calm
  <2>2. p # Failed
    BY <2>1, Sentinels
  <2>3. \E status \in {"running"} \cup Exited : proc' = [proc EXCEPT ![p] = status]
    BY <1>2, <2>2 DEF Forked
  <2>4. proc'[p] # "unused"
    BY <2>1, <2>3 DEF Base, IInv, TypeOK, Exited
  <2> QED  BY <2>1, <2>4 DEF Calm
<1> QED  BY <1>1, <1>2 DEF Spawn, Forks

\* A request, in calm.
LEMMA HandleRequestQuiet ==
  ASSUME NEW e, NEW c, Base(e, c), e = Rd(cl[c], c), NEW r \in Client, Fine(r, c),
         NEW K, Meet(K, e, c), e \in K, Calm, Calm', HandleRequest(e, c, r, K)
  PROVE  Quietly
<1>1. ASSUME NEW s \in Client, Fine(s, c), s.st = "DONE", Respond(e, c, s, K) PROVE Quietly
  <2>1. CASE UNCHANGED os /\ HandleResponse(e, c, s, K)
    BY <1>1, <2>1, HandleResponseQuiet DEF os, Base, Calm
  <2>2. ASSUME NEW size \in Longer(s.body), Spawn(e, c, [s EXCEPT !.body = size], K)
        PROVE  Quietly
    <3> DEFINE q == [s EXCEPT !.body = size]
    <3>1. q \in Client
      BY AskedType DEF Longer, Sizes
    <3>2. Fine(q, c)
      BY <1>1 DEF Fine, Client
    <3> HIDE DEF q
    <3> QED  BY <2>2, <3>1, <3>2, SpawnQuiet DEF q
  <2> QED  BY <1>1, <2>1, <2>2 DEF Respond
<1>2. CASE /\ r.st = "READY"
           /\ \/ Return(e, c, r, K)
              \/ "field" \in Faults /\ Leave("undefined", c, r)
              \/ \E errnum \in {400, 405} : Throw(e, c, r, K, errnum)
           /\ UNCHANGED os
  <2>1. ~stolen' /\ "field" \notin Faults
    BY <1>2 DEF os, Base, Calm
  <2> QED  BY <1>2, <2>1, ReturnQuiet, AnswerQuiet
<1>3. CASE /\ r.st # "DONE"
           /\ \E errnum \in {400, 405} : Throw(e, c, [r EXCEPT !.st = "CREATE"], K, errnum)
           /\ UNCHANGED os
  <2> DEFINE q == [r EXCEPT !.st = "CREATE"]
  <2>1. q \in Client /\ Fine(q, c)
    BY DEF Fine, Client
  <2>2. ~stolen' /\ \E errnum \in {400, 405} : Throw(e, c, q, K, errnum)
    BY <1>3 DEF os, Base
  <2> HIDE DEF q
  <2> QED  BY <2>1, <2>2, AnswerQuiet
<1>4. CASE /\ r.st # "DONE"
           /\ \E m \in Methods, ch \in Chunkings :
                LET s == [r EXCEPT !.method = m, !.chunked = ch]
                IN \/ m = "POST" /\ Spawn(e, c, [s EXCEPT !.st = "CREATE"], K)
                   \/ m # "POST" /\ Respond(e, c, [s EXCEPT !.st = "DONE"], K)
  <2>1. PICK m \in Methods, ch \in Chunkings :
          \/ Spawn(e, c, [[r EXCEPT !.method = m, !.chunked = ch] EXCEPT !.st = "CREATE"], K)
          \/ /\ m # "POST"
             /\ Respond(e, c, [[r EXCEPT !.method = m, !.chunked = ch] EXCEPT !.st = "DONE"], K)
    BY <1>4
  <2> DEFINE q1 == [[r EXCEPT !.method = m, !.chunked = ch] EXCEPT !.st = "CREATE"]
             q2 == [[r EXCEPT !.method = m, !.chunked = ch] EXCEPT !.st = "DONE"]
  <2>2. q1 \in Client /\ q2 \in Client
    BY AskedType
  <2>3. Fine(q1, c) /\ (m # "POST" => Fine(q2, c)) /\ q2.st = "DONE"
    BY DEF Fine, Client
  <2> HIDE DEF q1, q2
  <2>4. Spawn(e, c, q1, K) \/ (m # "POST" /\ Respond(e, c, q2, K))
    BY <2>1 DEF q1, q2
  <2> QED  BY <1>1, <2>2, <2>3, <2>4, SpawnQuiet
<1>5. CASE r.st = "DONE" /\ Respond(e, c, r, K)
  BY <1>1, <1>5
<1> QED  BY <1>2, <1>3, <1>4, <1>5 DEF HandleRequest

\* The copies a handler starts from.
LEMMA StartQuiet ==
  ASSUME NEW e, NEW c, Base(e, c)
  PROVE  /\ cl[c] \in Client /\ Fine(cl[c], c) /\ e = Knote(e.filter, e.id, c)
         /\ Meet(kn, e, c) /\ Meet(TimerReset(c, cl[c]), e, c)
         /\ Knote("TIMER", cl[c].sock, c) \in kn \cap TimerReset(c, cl[c])
         /\ e.filter = "READ" => e \in TimerReset(c, cl[c])
         /\ e.id = cl[c].sock /\ e.filter # "PROC"
<1> DEFINE T == TimerReset(c, cl[c])
<1>1. cl[c] \in Client /\ Fine(cl[c], c)
  BY DEF Base, IInv, TypeOK, Live, Sockets, Fine
<1>2. e.id = cl[c].sock /\ e.filter # "PROC" /\ e = Knote(e.filter, e.id, c)
  BY DEF Base, Sockets, IInv, LoopInv, Typed, Knotes, Knote
<1>3. \A k : k \in T <=> \/ k \in kn /\ ~(k.filter = "TIMER" /\ k.id = cl[c].sock)
                         \/ k = Knote("TIMER", cl[c].sock, c)
  BY DEF TimerReset, Add, Del
<1>4. \A k \in batch : k.filter = "READ" => k \in kn
  BY DEF Base, Sockets
<1> HIDE DEF T
<1>5. Meet(kn, e, c) /\ Meet(T, e, c)
  BY <1>3, <1>4 DEF Meet, Knote
<1>6. Knote("TIMER", cl[c].sock, c) \in kn \cap T
  BY <1>3 DEF Base, ConvInv, OwnAll, Mine
<1>7. e.filter = "READ" => e \in T
  BY <1>3, <1>4 DEF Base
<1> QED  BY <1>1, <1>2, <1>5, <1>6, <1>7 DEF T

\* An answer being sent, in calm: there is no child to end.
LEMMA WriteSocketQuiet ==
  ASSUME NEW e, NEW c, Base(e, c), WriteSocket(e, c, cl[c])
  PROVE  Quietly
<1> DEFINE r == cl[c]
           T == TimerReset(c, r)
<1>1. r \in Client /\ Fine(r, c) /\ Meet(T, e, c) /\ Knote("TIMER", r.sock, c) \in T
      /\ e = Knote(e.filter, e.id, c)
  BY StartQuiet
<1>2. ~Ends(r)
  BY <1>1 DEF Ends, Fine
<1>3. CloseAll(T, {}) = T
  BY DEF CloseAll
<1>4. /\ e.filter = "WRITE" /\ e.id = r.sock
      /\ \/ CleanUp(e, c, r, T, {}, None)
         \/ /\ \/ Return(e, c, r, T)
               \/ Return(e, c, Cleared(r), Add(Del(T, "WRITE", r.sock), "READ", r.sock, c))
               \/ ~Has(T, "WRITE", r.sock)
            /\ stolen' = (stolen \/ Theft(c, {}))
  BY <1>2, <1>3 DEF WriteSocket
<1>5. Has(T, "WRITE", r.sock)
  <2>1. e = Wr(r, c)
    BY <1>1, <1>4 DEF Wr
  <2>2. Wr(r, c) \in kn
    BY <2>1 DEF Base, ConvInv, OwnAll, Mine
  <2>3. Wr(r, c) \in T
    BY <2>2 DEF TimerReset, Add, Del, Wr, Knote
  <2> QED  BY <2>3 DEF Has, Wr, Knote
<1>6. stolen' = (stolen \/ Theft(c, {})) => ~stolen'
  BY DEF Theft, Base
<1> HIDE DEF T
<1>7. CASE CleanUp(e, c, r, T, {}, None)
  BY <1>1, <1>4, <1>7, CleanUpQuiet
<1>8. CASE Return(e, c, r, T) /\ ~stolen'
  BY <1>1, <1>8, ReturnQuiet
<1>9. CASE /\ Return(e, c, Cleared(r), Add(Del(T, "WRITE", r.sock), "READ", r.sock, c))
           /\ ~stolen'
  <2> DEFINE L == Add(Del(T, "WRITE", r.sock), "READ", r.sock, c)
             s == Cleared(r)
  <2>1. Fine(s, c)
    BY <1>1 DEF Cleared, NewClient, Fine
  <2>2. Meet(L, e, c)
    <3>1. \A k : k \in L <=> \/ k \in T /\ ~(k.filter \in RW /\ k.id = r.sock)
                             \/ k = Rd(r, c)
      BY DEF Add, Del, Rd, RW, Knote
    <3>2. \A k \in batch \ {e} : k.filter = "READ" /\ k.id = r.sock => k = Rd(r, c)
      <4>1. \A k \in kn : k.filter \in RW /\ k.id = r.sock => k.udata = c
        BY DEF Base, ConvInv, OwnAll, Mine
      <4>2. \A k \in batch : k.filter = "READ" => k \in kn
        BY DEF Base, Sockets
      <4>3. \A k \in batch : k = Knote(k.filter, k.id, k.udata)
        BY DEF Base, IInv, LoopInv, Typed, Knotes, Knote
      <4> QED  BY <4>1, <4>2, <4>3 DEF RW, Rd
    <3> HIDE DEF L
    <3>3. Rd(r, c) = Knote("READ", cl[c].sock, c)
      BY DEF Rd
    <3> QED  BY <1>1, <3>1, <3>2, <3>3 DEF Meet, Knote
  <2> HIDE DEF L, s
  <2> QED  BY <1>9, <2>1, <2>2, ReturnQuiet DEF L, s
<1> QED  BY <1>4, <1>5, <1>6, <1>7, <1>8, <1>9

\* An event of an open connection, in calm.
LEMMA HandleEventQuiet ==
  ASSUME NEW e, NEW c, Base(e, c), Calm, Calm', HandleEvent(e)
  PROVE  Quietly
<1> DEFINE r == cl[c]
           T == TimerReset(c, r)
<1>1. /\ r \in Client /\ Fine(r, c) /\ e = Knote(e.filter, e.id, c)
      /\ Meet(kn, e, c) /\ Meet(T, e, c)
      /\ Knote("TIMER", r.sock, c) \in kn \cap T
      /\ e.filter = "READ" => e \in T
      /\ e.id = r.sock /\ e.filter # "PROC" /\ r.life = "live"
  BY StartQuiet DEF Fine
<1>2. ReadSocket(e, c, r) \/ WriteSocket(e, c, r) \/ Timeout(e, c, r)
  BY <1>1 DEF HandleEvent, Base, Dangling, ReadPipe, WritePipe, EndProcess
<1> HIDE DEF T
<1>3. CASE ReadSocket(e, c, r)
  <2>1. CASE HandleRequest(e, c, r, T)
    <3>1. e = Rd(cl[c], c)
      BY <1>1, <1>3 DEF ReadSocket, Rd
    <3> QED  BY <1>1, <1>3, <2>1, <3>1, HandleRequestQuiet DEF ReadSocket
  <2>2. CASE CleanUp(e, c, r, T, {}, None)
    BY <1>1, <2>2, CleanUpQuiet
  <2> QED  BY <1>3, <2>1, <2>2 DEF ReadSocket, T
<1>4. CASE WriteSocket(e, c, r)
  BY <1>4, WriteSocketQuiet
<1>5. CASE Timeout(e, c, r)
  BY <1>1, <1>5, CleanUpQuiet DEF Timeout
<1> QED  BY <1>2, <1>3, <1>4, <1>5

\* A connection is accepted, or none can be any more.
LEMMA AcceptQuiet ==
  ASSUME NEW e \in batch, IInv, ConvInv, InLoop, ~stolen, Sockets, e.udata = None, AcceptClient(e)
  PROVE  Quietly \/ (mode' = "exited" /\ ~stolen')
<1>1. ASSUME NEW c \in Clients, NEW f \in FreeFds, cl[c].life = "unborn",
             Return(e, c, NewClient("live", f), Accepted(c, f)), UNCHANGED stolen
      PROVE  Quietly
  <2> DEFINE n == NewClient("live", f)
             L == Accepted(c, f)
  <2>1. /\ kn' = L /\ batch' = batch \ {e} /\ mode' = "loop"
        /\ cl'[c] = n /\ \A d \in Clients \ {c} : cl'[d] = cl[d]
    BY <1>1 DEF Return, IInv, TypeOK, InLoop
  <2>2. n.life = "live" /\ n.sock = f /\ n.pid = None /\ n.st = "READY"
    BY DEF NewClient
  <2>3. \A k : k \in L <=> \/ k \in kn /\ ~(k.filter \in {"READ", "TIMER"} /\ k.id = f)
                           \/ k \in {Knote("READ", f, c), Knote("TIMER", f, c)}
    BY DEF Accepted, Add, Del, Knote
  <2> HIDE DEF n, L
  <2>4. \A k \in kn : ~(k.filter = "READ" /\ k.id = f)
    BY DEF ConvInv, OwnAll, Opened, FreeFds, RW
  <2>5. \A k \in kn \cup batch : k.udata # None => k.udata \in Clients
    BY DEF IInv, LoopInv, Typed, Knotes
  <2>6. ASSUME NEW k \in kn' \cup batch', k.udata # None
        PROVE  cl'[k.udata].life = "live" /\ k.id = cl'[k.udata].sock /\ k.filter # "PROC"
    <3>1. CASE k \in kn \cup batch
      <4>1. cl[k.udata].life = "live" /\ k.id = cl[k.udata].sock /\ k.filter # "PROC"
        BY <2>6, <3>1 DEF Sockets
      <4>2. k.udata # c
        BY <1>1, <4>1
      <4> QED  BY <2>1, <2>5, <2>6, <3>1, <4>1, <4>2
    <3>2. CASE k \in {Knote("READ", f, c), Knote("TIMER", f, c)}
      BY <2>1, <2>2, <3>2 DEF Knote
    <3> QED  BY <2>1, <2>3, <3>1, <3>2
  <2>7. \A k \in batch' : k.filter = "READ" => k \in kn'
    BY <2>1, <2>3, <2>4 DEF Sockets
  <2>8. \A d \in Live' : cl'[d].pid = None /\ (cl'[d].st = "DONE" => cl'[d].method # "POST")
    BY <2>1, <2>2 DEF Sockets, Live
  <2> QED  BY <1>1, <2>1, <2>6, <2>7, <2>8 DEF Quietly, Sockets
<1> QED  BY <1>1 DEF AcceptClient

\* No process becomes one that was never started.
Started == \A p \in Pids : proc[p] # "unused" => proc'[p] # "unused"

\* Forking, ending and reaping a process.
LEMMA ProcStarts ==
  ASSUME IInv
  PROVE  /\ UNCHANGED proc => Started
         /\ \A p, s : s # "unused" /\ proc' = [proc EXCEPT ![p] = s] => Started
         /\ \A p : proc' = Killed(p) => Started
<1>1. proc \in [Pids -> Procs]
  BY DEF IInv, TypeOK
<1>2. UNCHANGED proc => Started
  BY DEF Started
<1>3. ASSUME NEW p, NEW s, s # "unused", proc' = [proc EXCEPT ![p] = s] PROVE Started
  BY <1>1, <1>3 DEF Started
<1>4. ASSUME NEW p, proc' = Killed(p) PROVE Started
  <2>1. CASE p \in Pids
    <3>1. proc' = [proc EXCEPT ![p] = "killed"]
      BY <1>4, <2>1, Sentinels DEF Killed
    <3> QED  BY <1>3, <3>1
  <2>2. CASE p \notin Pids
    BY <1>1, <1>4, <2>2 DEF Killed, Started
  <2> QED  BY <2>1, <2>2
<1> QED  BY <1>2, <1>3, <1>4

\* A request starts a process, or none.
LEMMA HandleRequestStarts ==
  ASSUME IInv, NEW e, NEW c, NEW r, NEW K, HandleRequest(e, c, r, K)
  PROVE  Started
<1>1. UNCHANGED os => Started
  BY ProcStarts DEF os
<1>2. ASSUME NEW q, Spawn(e, c, q, K) PROVE Started
  <2>1. CASE PipeFails(e, c, q, K)
    BY <2>1, ProcStarts DEF PipeFails
  <2>2. ASSUME NEW w, NEW o, NEW p, Forked(e, c, q, K, w, o, p) PROVE Started
    <3>1. proc' = proc \/ \E s \in {"running"} \cup Exited : proc' = [proc EXCEPT ![p] = s]
      BY <2>2 DEF Forked
    <3> QED  BY <3>1, ProcStarts DEF Exited
  <2> QED  BY <1>2, <2>1, <2>2 DEF Spawn, Forks
<1>3. ASSUME NEW q, Respond(e, c, q, K) PROVE Started
  BY <1>1, <1>2, <1>3 DEF Respond
<1> QED  BY <1>1, <1>2, <1>3 DEF HandleRequest

\* So when nothing was started after a step, nothing was before it.
LEMMA CalmBefore ==
  ASSUME IInv, [Next]_vars, Calm'
  PROVE  Calm
<1>1. Started => Calm
  BY DEF Started, Calm
<1>2. ASSUME NEW e, NEW c, NEW r, NEW K, NEW S, NEW p, CleanUp(e, c, r, K, S, p)
      PROVE  Started
  BY <1>2, ProcStarts DEF CleanUp
<1>3. ASSUME NEW e, NEW c, NEW r, WriteSocket(e, c, r) PROVE Started
  BY <1>2, <1>3, ProcStarts DEF WriteSocket
<1>4. ASSUME NEW e \in batch, HandleEvent(e) PROVE Started
  <2> DEFINE c == e.udata
             r == cl[c]
  <2>1. CASE AcceptClient(e)
    BY <2>1, ProcStarts DEF AcceptClient
  <2>2. CASE Dangling(e, c, r)
    BY <2>2, ProcStarts DEF Dangling, os
  <2>3. CASE ReadSocket(e, c, r)
    BY <1>2, <2>3, HandleRequestStarts DEF ReadSocket
  <2>4. CASE ReadPipe(e, c, r) \/ WritePipe(e, c, r)
    BY <2>4, ProcStarts DEF ReadPipe, WritePipe, os
  <2>5. CASE EndProcess(e, c, r)
    BY <2>5, ProcStarts DEF EndProcess
  <2>6. CASE Timeout(e, c, r)
    BY <1>2, <2>6 DEF Timeout
  <2> QED  BY <1>3, <1>4, <2>1, <2>2, <2>3, <2>4, <2>5, <2>6 DEF HandleEvent
<1>5. ASSUME NEW p \in Pids, ChildExits(p) PROVE Started
  BY <1>5, ProcStarts DEF ChildExits, Exited
<1>6. ASSUME Kevent \/ UNCHANGED vars PROVE Started
  BY <1>6, ProcStarts DEF Kevent, os, vars
<1>7. Kevent \/ UNCHANGED vars \/ (\E e \in batch : HandleEvent(e)) \/ \E p \in Pids : ChildExits(p)
  BY DEF Next
<1> QED  BY <1>1, <1>4, <1>5, <1>6, <1>7

-----------------------------------------------------------------------------
(* The invariant and what follows from it. *)

\* Calm lasts as long as no script is started.
LEMMA CalmNext == IInv /\ ConvInv /\ CalmInv /\ [Next]_vars => CalmInv'
<1> SUFFICES ASSUME IInv, ConvInv, CalmInv, [Next]_vars, Calm'
             PROVE  mode' \in {"loop", "exited"} /\ ~stolen' /\ (InLoop' => Sockets')
  BY DEF CalmInv
<1>1. Calm /\ mode \in {"loop", "exited"} /\ ~stolen /\ (InLoop => Sockets)
  BY CalmBefore DEF CalmInv
<1>2. CASE UNCHANGED vars
  BY <1>1, <1>2 DEF vars, Sockets, InLoop, Live
<1>3. CASE InLoop /\ Kevent
  <2>1. /\ batch' \subseteq kn
        /\ kn' = {k \in kn : ~(k \in batch' /\ k.filter = "PROC")}
        /\ UNCHANGED <<mode, cl, stolen>>
    BY <1>3 DEF Kevent, Batches, Ready, os
  <2>2. \A k \in kn' \cup batch' : k \in kn
    BY <2>1
  <2>3. Sockets'
    BY <1>1, <1>3, <2>1, <2>2 DEF Sockets, Live
  <2> QED  BY <1>1, <2>1, <2>3
<1>4. ASSUME InLoop, NEW p \in Pids, ChildExits(p) PROVE FALSE
  BY <1>1, <1>4 DEF ChildExits, Calm
<1>5. ASSUME InLoop, NEW e \in batch, HandleEvent(e)
      PROVE  Quietly \/ (mode' = "exited" /\ ~stolen')
  <2>1. CASE e.udata = None
    BY <1>1, <1>5, <2>1, AcceptQuiet DEF HandleEvent
  <2>2. CASE e.udata # None
    <3>1. e.udata \in Live
      BY <1>1, <1>5, <2>2 DEF Sockets, Live, IInv, LoopInv, Typed, Knotes
    <3>2. Base(e, e.udata)
      BY <1>1, <1>5, <2>2, <3>1 DEF Base
    <3> QED  BY <1>1, <1>5, <3>2, HandleEventQuiet
  <2> QED  BY <2>1, <2>2
<1>6. Quietly => mode' \in {"loop", "exited"} /\ ~stolen' /\ (InLoop' => Sockets')
  BY DEF Quietly
<1>7. mode' = "exited" => ~InLoop'
  BY DEF InLoop
<1> QED  BY <1>2, <1>3, <1>4, <1>5, <1>6, <1>7 DEF Next, InLoop

\* Only scripts can stop the server: without one, and with every fork succeeding, header
\* fields well formed and roots that name a directory, the loop is left only when no
\* connection can be accepted, and no descriptor is closed under another's feet.
THEOREM OnlyScripts == Spec => []OnlyCgiTakesItDown
<1>1. Init => CalmInv
  <2> SUFFICES ASSUME Init PROVE mode = "loop" /\ ~stolen /\ Sockets
    BY DEF CalmInv
  <2>1. kn = {Knote("READ", Listener, None)} /\ batch = {} /\ mode = "loop" /\ ~stolen
    BY DEF Init
  <2>2. Live = {}
    BY DEF Init, Live, NewClient
  <2> QED  BY <2>1, <2>2 DEF Sockets, Knote
<1>2. CalmInv => OnlyCgiTakesItDown
  BY DEF CalmInv, Calm, OnlyCgiTakesItDown
<1> QED  BY <1>1, <1>2, CalmNext, ConvInvariance, PTL DEF Spec
=============================================================================
