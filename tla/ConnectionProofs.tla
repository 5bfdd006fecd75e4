--------------------------- MODULE ConnectionProofs ---------------------------
(***************************************************************************)
(* Proofs that EventLoop implements Connection, and of the invariants of   *)
(* EventLoop that this rests on, for any number of connections,            *)
(* descriptors and processes and any batch size.                           *)
(***************************************************************************)
EXTENDS EventLoopProofs

\* The two events of the socket of a client c with the record r.
Rd(r, c) == Knote("READ", r.sock, c)
Wr(r, c) == Knote("WRITE", r.sock, c)

RW == {"READ", "WRITE"}

\* Only a complete body is ended, and only of the request in hand.
EndOK(r) == r.ended => r.st = "DONE" /\ (r.chunked \/ r.body # "short")

\* A body that is still to come has a pipe of its own to go to.
PostReady(r, c, F) ==
  r.st = "DONE" /\ r.method = "POST" /\ ~r.chunked /\ r.body = "short" =>
    r.wfd # r.rfd /\ F[r.wfd].owner = c

\* Nobody waits for a closed descriptor.
Opened(K, F) == \A k \in K : k.filter \in RW /\ k.id \in Fds => F[k.id] # Free

\* What an open connection c with the record r has of the knotes K, the pending
\* events B and the descriptors F: its socket and its timer, one event of the
\* socket and no event of anybody else.
Mine(c, r, K, B, F) ==
  /\ F[r.sock].owner = c
  /\ Knote("TIMER", r.sock, c) \in K
  /\ Rd(r, c) \in K <=> Wr(r, c) \notin K
  /\ \A k \in K : k.filter \in RW /\ k.id = r.sock => k.udata = c
  /\ Wr(r, c) \in B => Rd(r, c) \notin K \cup B
  /\ Rd(r, c) \in K \cup B => PostReady(r, c, F)

NotOrphaned == \A p \in Pids : proc[p] = "running" => \E c \in Live : cl[c].pid = p

Registered ==
  \A f \in Fds : clients[f] # None => clients[f] \in Live /\ cl[clients[f]].sock = f

OwnAll ==
  /\ Opened(kn, fdt)
  /\ \A c \in Live : Mine(c, cl[c], kn, batch, fdt) /\ clients[cl[c].sock] = c

\* The second inductive invariant.
ConvInv ==
  InLoop =>
    /\ NotOrphaned
    /\ Registered
    /\ \A c \in Live : EndOK(cl[c])
    /\ ~stolen => OwnAll

-----------------------------------------------------------------------------
(* What a step does to the connections. *)

\* The stage and the status of connection d stay.
Still(d) ==
  /\ cl'[d].life = cl[d].life
  /\ d \in Live => cl'[d].code = cl[d].code /\ (Answering(d)' <=> Answering(d))

\* The one connection a step may move.
Moves(c) ==
  /\ \A d \in Clients \ {c} : Still(d)
  /\ \/ Still(c)
     \/ cl[c].life = "unborn" /\ cl'[c].life = "live" /\ ~Answering(c)'
     \/ cl[c].life = "live" /\ cl'[c].life = "freed"
     \/ cl[c].life = "live" /\ cl'[c].life = "live" /\ ~Answering(c) /\ Answering(c)'
     \/ /\ cl[c].life = "live" /\ cl'[c].life = "live"
        /\ Answering(c) /\ ~Answering(c)' /\ cl[c].code # 405

\* What AnswerIsFinal says of connection c.
Final(c) ==
  c \in Live /\ Answering(c) /\ cl'[c].code # cl[c].code =>
    cl'[c].life = "freed" \/ Knote("WRITE", cl[c].sock, c) \notin kn'

\* What is to show of a step that works for client c.
Done(c) ==
  /\ ConvInv'
  /\ stolen => stolen'
  /\ InLoop' /\ ~stolen => Final(c) /\ \A d \in Clients \ {c} : cl'[d] = cl[d]
  /\ Up' => Moves(c)

\* Leaving the loop ends every promise.
LEMMA LeaveDone ==
  ASSUME NEW c, NEW r, NEW m, m # "loop", Leave(m, c, r), stolen => stolen'
  PROVE  Done(c)
BY DEF Leave, Done, ConvInv, InLoop, Up

-----------------------------------------------------------------------------
(* The working copies of a handler. *)

\* Nothing that belongs to another client is touched.
Apart(c, K) ==
  \A x \in Fds : fdt[x].owner \notin {c, None} =>
    /\ fdt'[x] = fdt[x]
    /\ \A k : k.id = x /\ k.filter # "PROC" => (k \in K <=> k \in kn)

\* The copies r and K of a handler of e for c are what ConvInv asks for, but for e.
Sound(e, c, r, K) ==
  /\ r \in Client /\ r.life = "live" /\ r.sock = cl[c].sock /\ EndOK(r)
  /\ clients' = clients
  /\ stolen => stolen'
  /\ \A p \in Pids :
       proc'[p] = "running" => r.pid = p \/ (proc[p] = "running" /\ cl[c].pid # p)
  /\ ~stolen' => Mine(c, r, K, batch \ {e}, fdt') /\ Apart(c, K) /\ Opened(K, fdt')

\* And the connection has not moved yet.
Fit(e, c, r, K) ==
  /\ Sound(e, c, r, K)
  /\ r.code = cl[c].code /\ r.wfd # r.sock
  /\ ~stolen /\ CanSwitch(K, r) => Wr(r, c) \notin kn
  /\ ~stolen' => (Wr(r, c) \in K <=> Wr(r, c) \in kn)

\* What belongs to the other connections is as it was.
LEMMA OthersMine ==
  ASSUME NEW c \in Clients, NEW K, NEW d \in Live \ {c}, NEW B \in SUBSET batch,
         IInv, ConvInv, InLoop, ~stolen, Apart(c, K)
  PROVE  /\ Mine(d, cl[d], K, B, fdt') /\ clients[cl[d].sock] = d
         /\ fdt[cl[d].sock].owner = d
         /\ Wr(cl[d], d) \in K <=> Wr(cl[d], d) \in kn
<1> DEFINE r == cl[d]
<1>1. Mine(d, r, kn, batch, fdt) /\ clients[r.sock] = d /\ d # None
  BY Sentinels DEF ConvInv, OwnAll, Live
<1>2. r \in Client /\ r.sock \in Fds /\ ClientOK(r) /\ r.life = "live"
  BY DEF IInv, TypeOK, LoopInv, ClientOK, Live
<1> HIDE DEF r
<1>3. fdt[r.sock].owner = d /\ fdt'[r.sock] = fdt[r.sock]
  BY <1>1, <1>2 DEF Mine, Apart
<1>4. \A k : k.id = r.sock /\ k.filter # "PROC" => (k \in K <=> k \in kn)
  BY <1>1, <1>2, <1>3 DEF Apart
<1>5. \A f \in {"READ", "WRITE", "TIMER"} : Knote(f, r.sock, d) \in K <=> Knote(f, r.sock, d) \in kn
  BY <1>4 DEF Knote
<1>6. \A k \in K : k.filter \in RW /\ k.id = r.sock => k.udata = d
  BY <1>1, <1>4 DEF Mine, RW
<1>7. PostReady(r, d, fdt) => PostReady(r, d, fdt')
  BY <1>1, <1>2 DEF PostReady, ClientOK, Apart
<1>8. Mine(d, r, K, B, fdt')
  BY <1>1, <1>3, <1>5, <1>6, <1>7 DEF Mine, Rd, Wr
<1> QED  BY <1>1, <1>3, <1>5, <1>8 DEF r, Wr

\* What the copies r and K change of the connection's stage and status is one move at most.
OneMove(c, r, K) ==
  /\ ~stolen' => \/ (Wr(r, c) \in K <=> Wr(r, c) \in kn) /\ r.code = cl[c].code
                 \/ Wr(r, c) \notin kn /\ Wr(r, c) \in K
                 \/ Wr(r, c) \in kn /\ Wr(r, c) \notin K /\ cl[c].code # 405
  /\ ~stolen => r.code = cl[c].code \/ Wr(r, c) \notin K \/ Wr(r, c) \notin kn

\* A handler that returns with sound copies, having made one move or none.
LEMMA ReturnDone ==
  ASSUME NEW e \in batch, NEW c \in Clients, NEW r, NEW K,
         IInv, ConvInv, InLoop, cl[c].life = "live",
         Sound(e, c, r, K), Return(e, c, r, K), OneMove(c, r, K)
  PROVE  Done(c)
<1>1. /\ kn' = K /\ batch' = batch \ {e} /\ mode' = mode
      /\ cl'[c] = r /\ \A d \in Clients \ {c} : cl'[d] = cl[d]
  BY DEF Return, IInv, TypeOK
<1>2. Live' = Live /\ c \in Live
  BY <1>1 DEF Live, Sound
<1>3. NotOrphaned'
  <2> SUFFICES ASSUME NEW p \in Pids, proc'[p] = "running"
               PROVE  \E d \in Live' : cl'[d].pid = p
    BY DEF NotOrphaned
  <2>1. CASE r.pid = p
    BY <1>1, <1>2, <2>1
  <2>2. CASE proc[p] = "running" /\ cl[c].pid # p
    <3>1. PICK d \in Live : cl[d].pid = p
      BY <2>2 DEF ConvInv, NotOrphaned
    <3> QED  BY <1>1, <1>2, <2>2, <3>1 DEF Live
  <2> QED  BY <2>1, <2>2 DEF Sound
<1>4. Registered'
  <2>1. \A d \in Live : cl'[d].sock = cl[d].sock
    BY <1>1 DEF Live, Sound
  <2> QED  BY <1>2, <2>1 DEF Registered, ConvInv, Sound
<1>5. \A d \in Live' : EndOK(cl'[d])
  BY <1>1, <1>2 DEF ConvInv, Sound, Live
<1>6. ASSUME ~stolen' PROVE OwnAll' /\ Moves(c)
  <2>1. ~stolen /\ Mine(c, r, K, batch \ {e}, fdt') /\ Apart(c, K) /\ Opened(K, fdt')
    BY <1>6 DEF Sound
  <2>2. \A d \in Live \ {c} :
          /\ Mine(d, cl[d], K, batch \ {e}, fdt') /\ clients[cl[d].sock] = d
          /\ Wr(cl[d], d) \in K <=> Wr(cl[d], d) \in kn
    BY <2>1, OthersMine
  <2>3. clients[cl[c].sock] = c
    BY <1>2, <2>1 DEF ConvInv, OwnAll
  <2>4. OwnAll'
    BY <1>1, <1>2, <2>1, <2>2, <2>3 DEF OwnAll, Live, Sound
  <2>5. ASSUME NEW d \in Clients \ {c} PROVE Still(d)
    BY <1>1, <2>2 DEF Still, Answering, Wr, Live
  <2>6. /\ Answering(c) <=> Wr(r, c) \in kn
        /\ Answering(c)' <=> Wr(r, c) \in K
    BY <1>1 DEF Answering, Wr, Sound
  <2>7. cl'[c].life = "live" /\ cl'[c].code = r.code
    BY <1>1 DEF Sound
  <2> QED  BY <1>6, <2>4, <2>5, <2>6, <2>7 DEF Moves, Still, OneMove
<1>7. ~stolen => Final(c)
  <2>1. Knote("WRITE", cl[c].sock, c) = Wr(r, c)
    BY DEF Wr, Sound
  <2>2. Answering(c) <=> Wr(r, c) \in kn
    BY <2>1 DEF Answering
  <2> QED  BY <1>1, <2>1, <2>2 DEF Final, OneMove
<1>8. ConvInv'
  BY <1>3, <1>4, <1>5, <1>6 DEF ConvInv
<1>9. stolen => stolen'
  BY DEF Sound
<1> QED  BY <1>1, <1>6, <1>7, <1>8, <1>9 DEF Done, Up

\* A handler that returns without having moved.
LEMMA ReturnFit ==
  ASSUME NEW e \in batch, NEW c \in Clients, NEW r, NEW K,
         IInv, ConvInv, InLoop, cl[c].life = "live",
         Fit(e, c, r, K), Return(e, c, r, K)
  PROVE  Done(c)
BY ReturnDone DEF Fit, OneMove

\* A connection that goes over to its answer.
LEMMA SwitchFit ==
  ASSUME NEW e \in batch, NEW c \in Clients, NEW r, NEW K, NEW q \in Client,
         IInv, ConvInv, InLoop, cl[c].life = "live", Fit(e, c, r, K),
         q.life = r.life, q.sock = r.sock, q.wfd = r.wfd, q.rfd = r.rfd, q.pid = r.pid,
         q.st = r.st, q.method = r.method, q.chunked = r.chunked, q.body = r.body,
         q.ended = r.ended, CanSwitch(K, r), Return(e, c, q, ToWrite(c, r, K))
  PROVE  Done(c)
<1> DEFINE L == ToWrite(c, r, K)
<1>1. Sound(e, c, r, K) /\ (stolen => stolen')
  BY DEF Fit, Sound
<1>2. \A k : k \in L <=> \/ k \in K /\ ~(k.filter \in RW /\ k.id = r.sock)
                         \/ k = Wr(r, c)
  BY DEF ToWrite, Add, Del, Wr, RW, Knote
<1>3. PICK k \in K : k.filter = "READ" /\ k.id = r.sock
  BY DEF CanSwitch, Has
<1> HIDE DEF L
<1>4. EndOK(q)
  BY <1>1 DEF Sound, EndOK
<1>5. ASSUME ~stolen'
      PROVE  /\ Mine(c, q, L, batch \ {e}, fdt') /\ Apart(c, L) /\ Opened(L, fdt')
             /\ Wr(q, c) \notin kn /\ Wr(q, c) \in L
  <2>1. ~stolen /\ Mine(c, r, K, batch \ {e}, fdt') /\ Apart(c, K) /\ Opened(K, fdt')
        /\ Wr(r, c) \notin kn
    BY <1>1, <1>5 DEF Fit, Sound
  <2>2. Wr(q, c) = Wr(r, c) /\ Rd(q, c) = Rd(r, c) /\ c # None
    BY Sentinels DEF Wr, Rd
  <2>3. Wr(r, c) \notin K
    BY <1>5, <2>1 DEF Fit
  <2>4. Rd(r, c) \in K
    BY <2>1, <2>3 DEF Mine
  <2>5. Wr(r, c) \in L /\ Rd(r, c) \notin L /\ Wr(r, c) \notin batch \ {e}
    BY <1>2, <2>1, <2>4 DEF Mine, Wr, Rd, Knote, RW
  <2>6. Knote("TIMER", r.sock, c) \in L
    BY <1>2, <2>1 DEF Mine, RW, Knote
  <2>7. \A l \in L : l.filter \in RW /\ l.id = r.sock => l.udata = c
    BY <1>2 DEF Wr, Knote
  <2>8. PostReady(q, c, fdt')
    BY <2>1, <2>4 DEF Mine, PostReady
  <2>9. fdt'[r.sock].owner = c
    BY <2>1 DEF Mine
  <2>10. Mine(c, q, L, batch \ {e}, fdt')
    <3>1. Knote("TIMER", q.sock, c) \in L /\ \A l \in L : l.filter \in RW /\ l.id = q.sock => l.udata = c
      BY <2>6, <2>7
    <3> QED  BY <2>2, <2>5, <2>8, <2>9, <3>1 DEF Mine
  <2>11. fdt[r.sock].owner = c
    BY <2>1 DEF ConvInv, OwnAll, Live, Mine, Sound, Fit
  <2>12. Apart(c, L)
    <3> SUFFICES ASSUME NEW x \in Fds, fdt[x].owner \notin {c, None}
                 PROVE  /\ fdt'[x] = fdt[x]
                        /\ \A l : l.id = x /\ l.filter # "PROC" => (l \in L <=> l \in kn)
      BY DEF Apart
    <3>1. x # r.sock /\ Wr(r, c).id = r.sock
      BY <2>11 DEF Wr, Knote
    <3> QED  BY <1>2, <2>1, <3>1 DEF Apart
  <2>13. Opened(L, fdt')
    <3>1. fdt'[r.sock] # Free
      BY <2>2, <2>9 DEF Free
    <3> QED  BY <1>2, <2>1, <3>1 DEF Opened, Wr, Knote
  <2> QED  BY <2>1, <2>2, <2>5, <2>10, <2>12, <2>13
<1>6. Sound(e, c, q, L)
  BY <1>1, <1>4, <1>5 DEF Sound
<1>7. ~stolen => Wr(q, c) \notin kn
  BY DEF Fit, Wr
<1> QED  BY <1>5, <1>6, <1>7, ReturnDone DEF L, OneMove

\* An int that is caught.
LEMMA ThrowFit ==
  ASSUME NEW e \in batch, NEW c \in Clients, NEW r, NEW K, NEW n \in Errors,
         IInv, ConvInv, InLoop, cl[c].life = "live",
         Fit(e, c, r, K), Throw(e, c, r, K, n)
  PROVE  Done(c)
<1>r. r \in Client /\ (stolen => stolen')
  BY DEF Fit, Sound
<1>1. CASE ~CanSwitch(K, r)
  BY <1>r, <1>1, LeaveDone DEF Throw
<1>2. CASE CanSwitch(K, r)
  <2>1. PICK filled \in BOOLEAN :
          Return(e, c, [r EXCEPT !.code = n, !.resp = filled], ToWrite(c, r, K))
    BY <1>r, <1>2 DEF Throw, Client
  <2> DEFINE q == [r EXCEPT !.code = n, !.resp = filled]
  <2>2. q \in Client
    BY <1>r, ZenonT(30) DEF Client
  <2>3. /\ q.life = r.life /\ q.sock = r.sock /\ q.wfd = r.wfd /\ q.rfd = r.rfd /\ q.pid = r.pid
        /\ q.st = r.st /\ q.method = r.method /\ q.chunked = r.chunked /\ q.body = r.body
        /\ q.ended = r.ended
    BY <1>r DEF Client
  <2>4. Return(e, c, q, ToWrite(c, r, K))
    BY <2>1
  <2> HIDE DEF q
  <2> QED  BY <1>2, <2>2, <2>3, <2>4, SwitchFit
<1> QED  BY <1>1, <1>2

\* An answer that is ready.
LEMMA ReplyFit ==
  ASSUME NEW e \in batch, NEW c \in Clients, NEW r, NEW K,
         IInv, ConvInv, InLoop, cl[c].life = "live",
         Fit(e, c, r, K), StartReply(e, c, r, K)
  PROVE  Done(c)
<1>1. r \in Client /\ 500 \in Errors
  BY DEF Fit, Sound, Errors
<1>2. CASE CanSwitch(K, r)
  BY <1>1, <1>2, SwitchFit DEF StartReply
<1>3. CASE ~CanSwitch(K, r)
  BY <1>1, <1>3, ThrowFit DEF StartReply
<1> QED  BY <1>2, <1>3

\* Records that differ in nothing the second invariant looks at.
Alike(q, r) == Same(q, r) /\ q.chunked = r.chunked /\ EndOK(q)

\* Exchanging one for the other keeps the copies consistent.
LEMMA FitAlike ==
  ASSUME NEW e, NEW c, NEW r, NEW K, Fit(e, c, r, K), NEW q, Alike(q, r)
  PROVE  Fit(e, c, q, K)
<1>1. /\ q.life = r.life /\ q.sock = r.sock /\ q.code = r.code /\ q.wfd = r.wfd
      /\ q.rfd = r.rfd /\ q.pid = r.pid /\ q.st = r.st /\ q.method = r.method
      /\ q.chunked = r.chunked /\ (q.body = "short" => r.body = "short") /\ q \in Client
      /\ EndOK(q) /\ Sound(e, c, r, K)
  BY DEF Alike, Same, Fit
<1>2. Wr(q, c) = Wr(r, c) /\ Rd(q, c) = Rd(r, c) /\ CanSwitch(K, q) = CanSwitch(K, r)
  BY <1>1 DEF Wr, Rd, CanSwitch
<1>3. \A F : PostReady(r, c, F) => PostReady(q, c, F)
  BY <1>1 DEF PostReady
<1>4. Mine(c, r, K, batch \ {e}, fdt') => Mine(c, q, K, batch \ {e}, fdt')
  BY <1>1, <1>2, <1>3 DEF Mine
<1>5. Sound(e, c, q, K)
  BY <1>1, <1>4 DEF Sound
<1> QED  BY <1>1, <1>2, <1>5 DEF Fit

\* The updates of buffers, flags and the length of the body.
LEMMA DataAlike ==
  ASSUME NEW r \in Client, EndOK(r), NEW b \in BOOLEAN, NEW s \in Longer(r.body)
  PROVE  /\ Alike([r EXCEPT !.buf = b], r)
         /\ Alike([r EXCEPT !.resp = b], r)
         /\ Alike([r EXCEPT !.buf = TRUE, !.resp = TRUE], r)
         /\ Alike([r EXCEPT !.unsent = b], r)
         /\ (b => r.st = "DONE" /\ (r.chunked \/ r.body # "short")) =>
              Alike([r EXCEPT !.ended = b], r)
         /\ Alike([r EXCEPT !.body = s], r)
<1>1. \A q : /\ Same(q, r) /\ q.chunked = r.chunked
             /\ q.ended => q.st = "DONE" /\ (r.chunked \/ r.body # "short")
             => Alike(q, r)
  BY DEF Alike, EndOK, Same
<1>2. r.ended => r.st = "DONE" /\ (r.chunked \/ r.body # "short")
  BY DEF EndOK
<1>3. /\ Same([r EXCEPT !.buf = b], r)
      /\ Same([r EXCEPT !.resp = b], r)
      /\ Same([r EXCEPT !.buf = TRUE, !.resp = TRUE], r)
      /\ Same([r EXCEPT !.unsent = b], r)
      /\ Same([r EXCEPT !.ended = b], r)
      /\ Same([r EXCEPT !.body = s], r)
  BY DataSame
<1>4. Alike([r EXCEPT !.buf = b], r)
  <2> DEFINE q == [r EXCEPT !.buf = b]
  <2>1. q.chunked = r.chunked /\ q.ended = r.ended /\ q.st = r.st
    BY DEF Client
  <2> QED  BY <1>1, <1>2, <1>3, <2>1
<1>5. Alike([r EXCEPT !.resp = b], r)
  <2> DEFINE q == [r EXCEPT !.resp = b]
  <2>1. q.chunked = r.chunked /\ q.ended = r.ended /\ q.st = r.st
    BY DEF Client
  <2> QED  BY <1>1, <1>2, <1>3, <2>1
<1>6. Alike([r EXCEPT !.buf = TRUE, !.resp = TRUE], r)
  <2> DEFINE q == [r EXCEPT !.buf = TRUE, !.resp = TRUE]
  <2>1. q.chunked = r.chunked /\ q.ended = r.ended /\ q.st = r.st
    BY DEF Client
  <2> QED  BY <1>1, <1>2, <1>3, <2>1
<1>7. Alike([r EXCEPT !.unsent = b], r)
  <2> DEFINE q == [r EXCEPT !.unsent = b]
  <2>1. q.chunked = r.chunked /\ q.ended = r.ended /\ q.st = r.st
    BY DEF Client
  <2> QED  BY <1>1, <1>2, <1>3, <2>1
<1>8. ASSUME b => r.st = "DONE" /\ (r.chunked \/ r.body # "short")
      PROVE  Alike([r EXCEPT !.ended = b], r)
  <2> DEFINE q == [r EXCEPT !.ended = b]
  <2>1. q.chunked = r.chunked /\ q.st = r.st /\ q.ended = b
    BY DEF Client
  <2> HIDE DEF q
  <2> QED  BY <1>1, <1>3, <1>8, <2>1 DEF q
<1>9. Alike([r EXCEPT !.body = s], r)
  <2> DEFINE q == [r EXCEPT !.body = s]
  <2>1. q.chunked = r.chunked /\ q.ended = r.ended /\ q.st = r.st
    BY DEF Client
  <2> QED  BY <1>1, <1>2, <1>3, <2>1
<1> QED  BY <1>4, <1>5, <1>6, <1>7, <1>8, <1>9

-----------------------------------------------------------------------------
(* Requests. *)

\* handleResponse on a request whose header is complete.
LEMMA HandleResponseFit ==
  ASSUME NEW e \in batch, NEW c \in Clients, NEW r, NEW K,
         IInv, ConvInv, InLoop, cl[c].life = "live", Fit(e, c, r, K), r.st = "DONE",
         r.method = "POST" => r.wfd \in Fds,
         ~stolen' => PostReady(r, c, fdt'), HandleResponse(e, c, r, K)
  PROVE  Done(c)
<1>e. 400 \in Errors /\ 500 \in Errors
  BY DEF Errors
<1>r. r \in Client /\ EndOK(r) /\ (stolen => stolen')
  BY DEF Fit, Sound
<1>o. \A x : "over" \in Longer(x)
  BY DEF Longer, Sizes
<1>1. CASE r.chunked /\ ParseChunked(e, c, r, K)
  <2>1. PICK some \in {r.unsent, TRUE} :
          LET q == [r EXCEPT !.unsent = some]
          IN \/ Throw(e, c, q, K, 400)
             \/ \E last \in {r.ended, TRUE} : Return(e, c, [q EXCEPT !.ended = last], K)
    BY <1>1 DEF ParseChunked
  <2> DEFINE q == [r EXCEPT !.unsent = some]
  <2>2. some \in BOOLEAN /\ r.ended \in BOOLEAN
    BY <1>r DEF Client
  <2>3. Alike(q, r)
    BY <1>o, <1>r, <2>2, DataAlike
  <2> HIDE DEF q
  <2>4. Fit(e, c, q, K) /\ q \in Client /\ EndOK(q) /\ q.chunked /\ q.st = "DONE"
    BY <1>1, <2>3, FitAlike DEF Alike, Same, Client
  <2>5. CASE Throw(e, c, q, K, 400)
    BY <1>e, <2>4, <2>5, ThrowFit
  <2>6. ASSUME NEW last \in {r.ended, TRUE}, Return(e, c, [q EXCEPT !.ended = last], K)
        PROVE  Done(c)
    <3>1. last \in BOOLEAN
      BY <2>2
    <3>2. Fit(e, c, [q EXCEPT !.ended = last], K)
      BY <1>o, <2>4, <3>1, DataAlike, FitAlike
    <3> QED  BY <2>6, <3>2, ReturnFit
  <2> QED  BY <2>1, <2>5, <2>6 DEF q
<1>2. ASSUME ~r.chunked, NEW size \in Longer(r.body), NEW q, q = [r EXCEPT !.body = size],
             \/ ~Complete(size) /\ Return(e, c, q, K)
             \/ /\ Complete(size)
                /\ \/ q.method = "GET"    /\ HandleGet(e, c, q, K)
                   \/ q.method = "DELETE" /\ HandleDelete(e, c, q, K)
                   \/ q.method = "POST"   /\ HandlePost(e, c, q, K)
      PROVE  Done(c)
  <2>1. Alike(q, r) /\ Fit(e, c, q, K)
    BY <1>o, <1>r, <1>2, DataAlike, FitAlike
  <2>2. q \in Client /\ EndOK(q) /\ q.st = "DONE" /\ q.body = size
    BY <1>r, <1>2, <2>1 DEF Client, Alike, Same
  <2>3. CASE ~Complete(size) /\ Return(e, c, q, K)
    BY <2>1, <2>3, ReturnFit
  <2>4. Fit(e, c, [q EXCEPT !.buf = TRUE, !.resp = TRUE], K)
    BY <1>o, <2>1, <2>2, DataAlike, FitAlike
  <2>5. CASE HandleGet(e, c, q, K)
    <3>1. CASE Leave("undefined", c, q)
      BY <1>o, <3>1, LeaveDone DEF Fit, Sound
    <3> QED  BY <1>e, <2>1, <2>4, <2>5, <3>1, ThrowFit, ReplyFit DEF HandleGet
  <2>6. CASE HandleDelete(e, c, q, K)
    BY <1>e, <2>4, <2>6, ThrowFit, ReplyFit DEF HandleDelete
  <2>7. CASE Complete(size) /\ q.method = "POST" /\ HandlePost(e, c, q, K)
    <3>1. PICK some \in BOOLEAN :
            LET s == [q EXCEPT !.unsent = some]
            IN \/ Throw(e, c, s, K, 400)
               \/ /\ fdt'[s.wfd] = Free
                  /\ Throw(e, c, s, K, 500)
               \/ /\ fdt'[s.wfd] # Free
                  /\ Return(e, c, [s EXCEPT !.ended = TRUE], Add(K, "WRITE", s.wfd, c))
      BY <2>7 DEF HandlePost
    <3> DEFINE s == [q EXCEPT !.unsent = some]
               t == [s EXCEPT !.ended = TRUE]
               L == Add(K, "WRITE", s.wfd, c)
    <3>2. Alike(s, q) /\ Fit(e, c, s, K)
      BY <1>o, <2>1, <2>2, DataAlike, FitAlike
    <3>3. /\ s \in Client /\ EndOK(s) /\ s.st = "DONE"
          /\ s.wfd = r.wfd /\ r.wfd \in Fds /\ r.method = "POST"
          /\ size = "exact" /\ r.body = "short" /\ s.body # "short"
      <4>1. size = "exact" /\ r.body = "short"
        BY <1>2, <2>7 DEF Complete, Longer
      <4>2. s \in Client /\ s.body # "short" /\ s.st = "DONE" /\ s.wfd = r.wfd /\ r.method = "POST" /\ EndOK(s)
        BY <2>1, <2>2, <2>7, <3>2, <4>1 DEF Alike, Same
      <4> QED  BY <4>1, <4>2
    <3> HIDE DEF s
    <3>4. Alike(t, s) /\ Fit(e, c, t, K)
      BY <1>o, <3>2, <3>3, DataAlike, FitAlike
    <3> HIDE DEF t
    <3>5. CASE \/ Throw(e, c, s, K, 400)
               \/ Throw(e, c, s, K, 500)
      BY <1>e, <3>2, <3>5, ThrowFit
    <3>6. CASE fdt'[s.wfd] # Free /\ Return(e, c, t, L)
      <4>1. \A k : k \in L <=> \/ k \in K /\ ~(k.filter = "WRITE" /\ k.id = r.wfd)
                               \/ k = Knote("WRITE", r.wfd, c)
        BY <3>3 DEF Add, Del
      <4>2. /\ t.wfd = r.wfd /\ r.wfd # t.sock /\ t.sock = cl[c].sock
        BY <3>2, <3>3, <3>4 DEF Alike, Same, Fit, Sound
      <4> HIDE DEF L
      <4>3. \A k : k.id # r.wfd => (k \in L <=> k \in K)
        BY <4>1 DEF Knote
      <4>4. /\ Wr(t, c) \in L <=> Wr(t, c) \in K
            /\ Rd(t, c) \in L <=> Rd(t, c) \in K
            /\ Knote("TIMER", t.sock, c) \in L <=> Knote("TIMER", t.sock, c) \in K
            /\ CanSwitch(L, t) <=> CanSwitch(K, t)
        BY <4>2, <4>3 DEF Wr, Rd, Knote, CanSwitch, Has
      <4>5. ASSUME ~stolen'
            PROVE  Mine(c, t, L, batch \ {e}, fdt') /\ Apart(c, L) /\ Opened(L, fdt')
        <5>1. Mine(c, t, K, batch \ {e}, fdt') /\ Apart(c, K) /\ Opened(K, fdt')
          BY <3>4, <4>5 DEF Fit, Sound
        <5>2. fdt'[r.wfd].owner = c
          BY <1>2, <3>3, <4>5 DEF PostReady
        <5>3. \A k \in L : k.filter \in RW /\ k.id = t.sock => k.udata = c
          BY <4>2, <4>3, <5>1 DEF Mine
        <5>4. Mine(c, t, L, batch \ {e}, fdt')
          BY <4>4, <5>1, <5>3 DEF Mine
        <5>5. \A x \in Fds : fdt[x].owner \notin {c, None} => x # r.wfd
          BY <5>1, <5>2 DEF Apart
        <5>6. Apart(c, L)
          BY <4>3, <5>1, <5>5 DEF Apart
        <5>7. Opened(L, fdt')
          BY <3>3, <3>6, <4>1, <5>1 DEF Opened, Knote
        <5> QED  BY <5>4, <5>6, <5>7
      <4>6. Sound(e, c, t, L)
        BY <3>4, <4>5 DEF Fit, Sound
      <4>7. Fit(e, c, t, L)
        BY <3>4, <4>4, <4>6 DEF Fit
      <4> QED  BY <3>6, <4>7, ReturnFit
    <3> QED  BY <3>1, <3>5, <3>6 DEF s, t
  <2> QED  BY <1>2, <2>3, <2>5, <2>6, <2>7
<1> QED  BY <1>1, <1>2 DEF HandleResponse

-----------------------------------------------------------------------------
(* What a handler starts from. *)

\* The copies r and K before anything else changed.
Start(e, c, r, K) ==
  /\ r \in Client /\ r.life = "live" /\ r.sock = cl[c].sock /\ r.code = cl[c].code
  /\ r.pid = cl[c].pid /\ r.sock \in Fds /\ r.wfd # r.sock /\ EndOK(r)
  /\ ~stolen =>
       /\ Mine(c, r, K, batch \ {e}, fdt)
       /\ \A x \in Fds : fdt[x].owner \notin {c, None} =>
            \A k : k.id = x /\ k.filter # "PROC" => (k \in K <=> k \in kn)
       /\ Opened(K, fdt)
       /\ Wr(r, c) \in K <=> Wr(r, c) \in kn
       /\ CanSwitch(K, r) => Wr(r, c) \notin kn

\* As long as nothing but the client changes, they are fit to return.
LEMMA StartFit ==
  ASSUME NEW e, NEW c, NEW r, NEW K, Start(e, c, r, K), UNCHANGED os
  PROVE  Fit(e, c, r, K)
<1>1. fdt' = fdt /\ proc' = proc /\ stolen' = stolen /\ clients' = clients
  BY DEF os
<1>2. ~stolen' => Mine(c, r, K, batch \ {e}, fdt') /\ Apart(c, K) /\ Opened(K, fdt')
  BY <1>1 DEF Start, Apart
<1>3. Sound(e, c, r, K)
  BY <1>1, <1>2 DEF Start, Sound
<1> QED  BY <1>1, <1>3 DEF Start, Fit

\* A child is started on descriptors that were free; q has them, L watches them.
LEMMA FreshFit ==
  ASSUME NEW e, NEW c \in Clients, NEW r, NEW K, IInv, Start(e, c, r, K),
         NEW q \in Client, NEW L,
         q.life = r.life, q.sock = r.sock, q.code = r.code, q.wfd # q.sock, EndOK(q),
         UNCHANGED <<clients, stolen>>, PostReady(q, c, fdt'),
         \A f \in Fds : fdt'[f] = fdt[f] \/ (f \in FreeFds /\ fdt'[f].owner = c),
         \A p \in Pids :
           proc'[p] = "running" => q.pid = p \/ (proc[p] = "running" /\ cl[c].pid # p),
         \A k : k.filter # "PROC" /\ k.id \notin FreeFds => (k \in L <=> k \in K),
         \A k \in L : k.filter \in RW /\ k.id \in FreeFds => k \in K \/ fdt'[k.id].owner = c
  PROVE  Fit(e, c, q, L)
<1>1. ASSUME ~stolen
      PROVE  /\ Mine(c, q, L, batch \ {e}, fdt') /\ Apart(c, L) /\ Opened(L, fdt')
             /\ Wr(q, c) \in L <=> Wr(q, c) \in kn
             /\ CanSwitch(L, q) => Wr(q, c) \notin kn
  <2>1. /\ Mine(c, r, K, batch \ {e}, fdt) /\ Opened(K, fdt)
        /\ \A x \in Fds : fdt[x].owner \notin {c, None} =>
             \A k : k.id = x /\ k.filter # "PROC" => (k \in K <=> k \in kn)
        /\ Wr(r, c) \in K <=> Wr(r, c) \in kn
        /\ CanSwitch(K, r) => Wr(r, c) \notin kn
    BY <1>1 DEF Start
  <2>2. fdt[r.sock].owner = c /\ c # None /\ Free.owner = None
    BY <2>1, Sentinels DEF Mine, Free
  <2>3. r.sock \notin FreeFds
    BY <2>2 DEF FreeFds
  <2>4. \A k : k.filter # "PROC" /\ k.id = r.sock => (k \in L <=> k \in K)
    BY <2>3
  <2>5. /\ Wr(q, c) = Wr(r, c) /\ Rd(q, c) = Rd(r, c)
        /\ Wr(r, c) \in L <=> Wr(r, c) \in K
        /\ Rd(r, c) \in L <=> Rd(r, c) \in K
        /\ Knote("TIMER", r.sock, c) \in L <=> Knote("TIMER", r.sock, c) \in K
        /\ CanSwitch(L, q) <=> CanSwitch(K, r)
    BY <2>4 DEF Wr, Rd, Knote, CanSwitch, Has
  <2>6. fdt'[r.sock].owner = c
    BY <2>2, <2>3 DEF Start
  <2>7. \A k \in L : k.filter \in RW /\ k.id = r.sock => k.udata = c
    BY <2>1, <2>4 DEF Mine, RW
  <2>8. Mine(c, q, L, batch \ {e}, fdt')
    <3>1. Knote("TIMER", q.sock, c) \in L /\ fdt'[q.sock].owner = c
          /\ \A k \in L : k.filter \in RW /\ k.id = q.sock => k.udata = c
      BY <2>1, <2>5, <2>6, <2>7 DEF Mine
    <3> QED  BY <2>1, <2>5, <3>1 DEF Mine
  <2>9. Apart(c, L)
    <3> SUFFICES ASSUME NEW x \in Fds, fdt[x].owner \notin {c, None}
                 PROVE  /\ fdt'[x] = fdt[x]
                        /\ \A l : l.id = x /\ l.filter # "PROC" => (l \in L <=> l \in kn)
      BY DEF Apart
    <3>1. x \notin FreeFds
      BY <2>2 DEF FreeFds
    <3> QED  BY <2>1, <3>1
  <2>10. Opened(L, fdt')
    <3> SUFFICES ASSUME NEW k \in L, k.filter \in RW, k.id \in Fds
                 PROVE  fdt'[k.id] # Free
      BY DEF Opened
    <3>1. fdt'[k.id].owner = c => fdt'[k.id] # Free
      BY <2>2
    <3>2. k.filter # "PROC"
      BY DEF RW
    <3>3. k \in K => fdt[k.id] # Free /\ k.id \notin FreeFds
      BY <2>1 DEF Opened, FreeFds
    <3> QED  BY <3>1, <3>2, <3>3
  <2> QED  BY <2>1, <2>5, <2>8, <2>9, <2>10
<1>2. stolen' = stolen /\ clients' = clients
  OBVIOUS
<1>3. Sound(e, c, q, L)
  BY <1>1, <1>2 DEF Start, Sound
<1> QED  BY <1>1, <1>2, <1>3 DEF Start, Fit

\* q is the record of a client r that has forked p, with the pipe ends v and o.
Equipped(q, r, v, o, p) ==
  /\ q \in Client
  /\ q.life = r.life /\ q.sock = r.sock /\ q.code = r.code /\ q.st = r.st
  /\ q.method = r.method /\ q.chunked = r.chunked /\ q.body = r.body /\ q.ended = r.ended
  /\ q.wfd = v /\ q.rfd = o /\ q.pid = p

\* fork's results are of the right types.
LEMMA ForkedType ==
  ASSUME NEW r \in Client, NEW v \in Fds \cup {None}, NEW o \in Fds, NEW p \in Pids \cup {Failed}
  PROVE  Equipped([r EXCEPT !.wfd = v, !.rfd = o, !.pid = p], r, v, o, p)
<1> DEFINE q == [r EXCEPT !.wfd = v, !.rfd = o, !.pid = p]
           q1 == [r EXCEPT !.wfd = v]
           q2 == [q1 EXCEPT !.rfd = o]
<1>1. q1 \in Client
  BY DEF Client
<1>2. q2 \in Client
  <2> HIDE DEF q1
  <2> QED  BY <1>1 DEF Client
<1>3. [q2 EXCEPT !.pid = p] \in Client
  <2> HIDE DEF q2
  <2> QED  BY <1>2 DEF Client
<1>4. q = [q2 EXCEPT !.pid = p]
  BY DEF Client
<1>5. q \in Client
  BY <1>3, <1>4
<1>6. /\ q.life = r.life /\ q.sock = r.sock /\ q.code = r.code /\ q.st = r.st
      /\ q.method = r.method /\ q.chunked = r.chunked /\ q.body = r.body /\ q.ended = r.ended
      /\ q.wfd = v /\ q.rfd = o /\ q.pid = p
  BY DEF Client
<1> QED  BY <1>5, <1>6 DEF Equipped

\* handlePostCgi and handleGetCgi, for a client without a child.
LEMMA SpawnFit ==
  ASSUME NEW e \in batch, NEW c \in Clients, NEW r, NEW K,
         IInv, ConvInv, InLoop, cl[c].life = "live", Start(e, c, r, K), cl[c].pid = None,
         \/ r.st = "CREATE" /\ r.method = "POST"
         \/ r.st = "DONE" /\ r.method = "CGI",
         fdt[r.sock] # Free, Spawn(e, c, r, K)
  PROVE  Done(c)
<1>e. 500 \in Errors
  BY DEF Errors
<1>r. /\ r \in Client /\ r.life = "live" /\ r.sock \in Fds /\ r.wfd # r.sock /\ r.pid = None /\ EndOK(r)
      /\ r.sock \notin FreeFds
  BY DEF Start, FreeFds
<1>n. None \notin Pids /\ None \notin Fds /\ Failed # None
  BY Sentinels
<1>1. CASE PipeFails(e, c, r, K)
  <2>1. PICK w \in FreeFds \cup {None} :
          /\ fdt' = [f \in Fds |-> IF f = w THEN File("in", c, Failed) ELSE fdt[f]]
          /\ Throw(e, c, IF w = None THEN r ELSE [r EXCEPT !.wfd = w], K, 500)
          /\ UNCHANGED <<clients, proc, stolen>>
    BY <1>1 DEF PipeFails
  <2> DEFINE q == IF w = None THEN r ELSE [r EXCEPT !.wfd = w]
  <2>2. /\ q \in Client /\ q.life = r.life /\ q.sock = r.sock /\ q.code = r.code /\ q.pid = r.pid
        /\ q.st = r.st /\ q.method = r.method /\ q.ended = r.ended /\ q.chunked = r.chunked
        /\ q.body = r.body /\ q.wfd # q.sock
    <3>1. CASE w = None
      BY <1>r, <3>1
    <3>2. CASE w # None
      <4> DEFINE s == [r EXCEPT !.wfd = w]
      <4>1. w \in Fds /\ w # r.sock
        BY <1>r, <3>2 DEF FreeFds
      <4>2. /\ s \in Client /\ s.life = r.life /\ s.sock = r.sock /\ s.code = r.code /\ s.pid = r.pid
            /\ s.st = r.st /\ s.method = r.method /\ s.ended = r.ended /\ s.chunked = r.chunked
            /\ s.body = r.body /\ s.wfd = w
        BY <1>r, <4>1 DEF Client
      <4> QED  BY <3>2, <4>1, <4>2
    <3> QED  BY <3>1, <3>2
  <2>3. EndOK(q) /\ PostReady(q, c, fdt')
    BY <1>r, <2>2 DEF EndOK, PostReady
  <2>4. Throw(e, c, q, K, 500)
    BY <2>1
  <2> HIDE DEF q
  <2>5. \A f \in Fds : fdt'[f] = fdt[f] \/ (f \in FreeFds /\ fdt'[f].owner = c)
    BY <1>n, <2>1 DEF File
  <2>6. Fit(e, c, q, K)
    BY <1>r, <1>n, <2>1, <2>2, <2>3, <2>5, FreshFit
  <2> QED  BY <1>e, <2>4, <2>6, ThrowFit
<1>2. CASE Forks(e, c, r, K)
  <2>1. PICK w \in IF r.method = "POST" THEN FreeFds ELSE {None} :
          \E o \in FreeFds \ {w}, p \in ForkResults : Forked(e, c, r, K, w, o, p)
    BY <1>2 DEF Forks
  <2>3. PICK o \in FreeFds \ {w}, p \in ForkResults : Forked(e, c, r, K, w, o, p)
    BY <2>1
  <2> DEFINE v == IF w = None THEN r.wfd ELSE w
             q == [r EXCEPT !.wfd = v, !.rfd = o, !.pid = p]
             t == [q EXCEPT !.st = "DONE"]
             L == Watched(c, q, K)
  <2>2. /\ o \in Fds /\ o # r.sock /\ v \in Fds \cup {None} /\ v # r.sock
        /\ r.method = "POST" => v \in FreeFds /\ w = v /\ v # o /\ v \in Fds
        /\ r.method # "POST" => w = None
        /\ p \in Pids \cup {Failed} /\ o \in FreeFds
    BY <1>r, <1>n, <2>1, <2>3 DEF FreeFds, ForkResults, Client
  <2>4. /\ fdt' = [f \in Fds |-> CASE f = w -> File("in", c, p)
                                   [] f = o -> File("out", c, p)
                                   [] OTHER -> fdt[f]]
        /\ UNCHANGED <<clients, stolen>>
        /\ \/ p = Failed /\ Throw(e, c, q, K, 500) /\ UNCHANGED proc
           \/ /\ p \in Pids
              /\ \E status \in Exited : proc' = [proc EXCEPT ![p] = status]
              /\ Throw(e, c, q, K, 500)
           \/ /\ p \in Pids
              /\ proc' = [proc EXCEPT ![p] = "running"]
              /\ \/ q.method = "CGI" /\ Return(e, c, q, Watched(c, q, K))
                 \/ q.method = "POST" /\ HandleResponse(e, c, t, Watched(c, q, K))
    BY <2>3 DEF Forked
  <2>5. /\ q \in Client
        /\ q.life = r.life /\ q.sock = r.sock /\ q.code = r.code /\ q.st = r.st
        /\ q.method = r.method /\ q.chunked = r.chunked /\ q.body = r.body /\ q.ended = r.ended
        /\ q.wfd = v /\ q.rfd = o /\ q.pid = p
    <3>1. r \in Client /\ v \in Fds \cup {None} /\ o \in Fds /\ p \in Pids \cup {Failed}
      BY <1>r, <2>2
    <3>2. Equipped(q, r, v, o, p)
      <4> HIDE DEF v
      <4> QED  BY <3>1, ForkedType
    <3> HIDE DEF q, v
    <3> QED  BY <3>2 DEF Equipped
  <2>6. /\ t \in Client
        /\ t.life = r.life /\ t.sock = r.sock /\ t.code = r.code /\ t.st = "DONE"
        /\ t.method = r.method /\ t.chunked = r.chunked /\ t.body = r.body /\ t.ended = r.ended
        /\ t.wfd = v /\ t.rfd = o /\ t.pid = p
    <3> HIDE DEF q
    <3> QED  BY <2>5 DEF Client
  <2> HIDE DEF v
  <2>7. \A k : /\ k \in L => k \in K \/ k.filter = "PROC" \/ k.id = o \/ (r.method = "POST" /\ k.id = v)
               /\ k \in K /\ k.id # o /\ k.filter # "PROC" =>
                    k \in L \/ (r.method = "POST" /\ k.id = v)
    BY <2>5 DEF Watched, Add, Del, Knote
  <2> HIDE DEF q, t, L
  <2>8. /\ \A f \in Fds : fdt'[f] = fdt[f] \/ (f \in FreeFds /\ fdt'[f].owner = c)
        /\ fdt'[o].owner = c /\ (r.method = "POST" => fdt'[v].owner = c)
    BY <1>n, <2>2, <2>3, <2>4 DEF File, FreeFds
  <2>9. \A i \in Pids :
          proc'[i] = "running" => p = i \/ (proc[i] = "running" /\ cl[c].pid # i)
    <3>1. \A i \in Pids : cl[c].pid # i
      BY <1>n
    <3>2. proc \in [Pids -> Procs]
      BY DEF IInv, TypeOK
    <3>3. \A i \in Pids : proc'[i] = proc[i] \/ p = i
      BY <2>4, <3>2
    <3> QED  BY <3>1, <3>3
  <2>10. EndOK(q) /\ EndOK(t) /\ PostReady(t, c, fdt')
    BY <1>r, <2>2, <2>5, <2>6, <2>8 DEF EndOK, PostReady
  <2>11. PostReady(q, c, fdt')
    BY <2>5 DEF PostReady
  <2>12. Fit(e, c, q, K)
    BY <1>r, <2>2, <2>4, <2>5, <2>8, <2>9, <2>10, <2>11, FreshFit
  <2>13. \A k : k.filter # "PROC" /\ k.id \notin FreeFds => (k \in L <=> k \in K)
    BY <2>2, <2>7
  <2>14. \A k \in L : k.filter \in RW /\ k.id \in FreeFds => k \in K \/ fdt'[k.id].owner = c
    BY <2>7, <2>8 DEF RW
  <2>15. CASE q.method = "CGI" /\ Return(e, c, q, L)
    <3>1. Fit(e, c, q, L)
      BY <1>r, <2>2, <2>4, <2>5, <2>8, <2>9, <2>10, <2>11, <2>13, <2>14, FreshFit
    <3> QED  BY <2>15, <3>1, ReturnFit
  <2>16. CASE q.method = "POST" /\ HandleResponse(e, c, t, L)
    <3>1. Fit(e, c, t, L)
      BY <1>r, <2>2, <2>4, <2>6, <2>8, <2>9, <2>10, <2>13, <2>14, FreshFit
    <3>2. t.method = "POST" => t.wfd \in Fds
      BY <2>2, <2>6
    <3> QED  BY <2>6, <2>10, <2>16, <3>1, <3>2, HandleResponseFit
  <2> QED  BY <1>e, <2>4, <2>12, <2>15, <2>16, ThrowFit DEF q, t, L
<1> QED  BY <1>1, <1>2 DEF Spawn

\* A record that agrees on the connection and the child may take its place.
LEMMA StartOther ==
  ASSUME NEW e, NEW c, NEW r, NEW K, Start(e, c, r, K), NEW q \in Client,
         q.life = r.life, q.sock = r.sock, q.code = r.code, q.wfd = r.wfd, q.pid = r.pid,
         EndOK(q), PostReady(r, c, fdt) => PostReady(q, c, fdt)
  PROVE  Start(e, c, q, K)
<1>1. Wr(q, c) = Wr(r, c) /\ Rd(q, c) = Rd(r, c) /\ CanSwitch(K, q) = CanSwitch(K, r)
  BY DEF Wr, Rd, CanSwitch
<1>2. Mine(c, r, K, batch \ {e}, fdt) => Mine(c, q, K, batch \ {e}, fdt)
  BY <1>1 DEF Mine
<1> QED  BY <1>1, <1>2 DEF Start

\* handleResponse of a request that may have to start a script.
LEMMA RespondFit ==
  ASSUME NEW e \in batch, NEW c \in Clients, NEW r, NEW K,
         IInv, ConvInv, InLoop, cl[c].life = "live", Start(e, c, r, K), r.st = "DONE",
         r.method = "POST" => r.wfd \in Fds,
         r.method = "CGI" /\ r.body = "short" => r.pid = None,
         ~stolen => PostReady(r, c, fdt), fdt[r.sock] # Free, Respond(e, c, r, K)
  PROVE  Done(c)
<1>1. CASE UNCHANGED os /\ HandleResponse(e, c, r, K)
  <2>1. Fit(e, c, r, K) /\ fdt' = fdt /\ stolen' = stolen
    BY <1>1, StartFit DEF os
  <2> QED  BY <1>1, <2>1, HandleResponseFit
<1>2. CASE /\ r.method = "CGI" /\ ~r.chunked
           /\ \E size \in Longer(r.body) :
                Complete(size) /\ Spawn(e, c, [r EXCEPT !.body = size], K)
  <2>1. PICK size \in Longer(r.body) : Complete(size) /\ Spawn(e, c, [r EXCEPT !.body = size], K)
    BY <1>2
  <2>2. r.body = "short" /\ r.pid = None
    BY <1>2, <2>1 DEF Longer, Complete
  <2> DEFINE q == [r EXCEPT !.body = size]
  <2>3. Alike(q, r)
    <3>1. r \in Client /\ EndOK(r) /\ TRUE \in BOOLEAN
      BY DEF Start
    <3> QED  BY <2>1, <3>1, DataAlike
  <2>4. Spawn(e, c, q, K)
    BY <2>1
  <2> HIDE DEF q
  <2>5. /\ q \in Client /\ q.life = r.life /\ q.sock = r.sock /\ q.code = r.code /\ q.wfd = r.wfd
        /\ q.pid = r.pid /\ EndOK(q) /\ q.st = "DONE" /\ q.method = "CGI"
    BY <1>2, <2>3 DEF Alike, Same
  <2>6. Start(e, c, q, K)
    BY <2>5, StartOther DEF PostReady
  <2>7. cl[c].pid = None
    BY <2>2 DEF Start
  <2> QED  BY <2>4, <2>5, <2>6, <2>7, SpawnFit
<1> QED  BY <1>1, <1>2 DEF Respond

\* Bytes of a request on the client's socket.
LEMMA HandleRequestFit ==
  ASSUME NEW e \in batch, NEW c \in Clients, NEW r, NEW K,
         IInv, ConvInv, InLoop, cl[c].life = "live", Start(e, c, r, K), ClientOK(r),
         r.st \in {"READY", "DONE"},
         ~stolen => PostReady(r, c, fdt), fdt[r.sock] # Free, HandleRequest(e, c, r, K)
  PROVE  Done(c)
<1>e. 400 \in Errors /\ 405 \in Errors
  BY DEF Errors
<1>r. r \in Client /\ EndOK(r) /\ r.life = "live" /\ cl[c].pid = r.pid
  BY DEF Start
<1>s. UNCHANGED os => (stolen => stolen')
  BY DEF os
<1>1. CASE /\ \/ Return(e, c, r, K)
              \/ "field" \in Faults /\ Leave("undefined", c, r)
              \/ \E errnum \in {400, 405} : Throw(e, c, r, K, errnum)
           /\ UNCHANGED os
  <2>1. Fit(e, c, r, K)
    BY <1>1, StartFit
  <2> QED  BY <1>e, <1>s, <1>1, <2>1, ReturnFit, ThrowFit, LeaveDone
<1>2. ASSUME r.st # "DONE"
      PROVE  r.pid = None /\ ~r.ended
  BY <1>r, <1>2 DEF ClientOK, EndOK
<1>3. ASSUME r.st # "DONE", NEW q \in Client, q.life = r.life, q.sock = r.sock, q.code = r.code,
             q.wfd = r.wfd, q.pid = r.pid, q.ended = r.ended, q.st = "CREATE" \/ q.method # "POST"
      PROVE  Start(e, c, q, K) /\ EndOK(q) /\ cl[c].pid = None /\ q.pid = None
  <2>1. EndOK(q) /\ PostReady(q, c, fdt)
    BY <1>2, <1>3 DEF EndOK, PostReady
  <2> QED  BY <1>r, <1>2, <1>3, <2>1, StartOther
<1>4. CASE /\ r.st # "DONE"
           /\ \E errnum \in {400, 405} : Throw(e, c, [r EXCEPT !.st = "CREATE"], K, errnum)
           /\ UNCHANGED os
  <2> DEFINE q == [r EXCEPT !.st = "CREATE"]
  <2>1. /\ q \in Client /\ q.life = r.life /\ q.sock = r.sock /\ q.code = r.code
        /\ q.wfd = r.wfd /\ q.pid = r.pid /\ q.ended = r.ended /\ q.st = "CREATE"
    BY <1>r DEF Client
  <2>2. \E errnum \in {400, 405} : Throw(e, c, q, K, errnum)
    BY <1>4
  <2> HIDE DEF q
  <2>3. Fit(e, c, q, K)
    BY <1>3, <1>4, <2>1, StartFit
  <2> QED  BY <1>e, <2>2, <2>3, ThrowFit
<1>5. CASE /\ r.st # "DONE"
           /\ \E m \in Methods, ch \in Chunkings :
                LET q == [r EXCEPT !.method = m, !.chunked = ch]
                IN \/ m = "POST" /\ Spawn(e, c, [q EXCEPT !.st = "CREATE"], K)
                   \/ m # "POST" /\ Respond(e, c, [q EXCEPT !.st = "DONE"], K)
  <2>1. PICK m \in Methods, ch \in Chunkings :
          \/ m = "POST" /\ Spawn(e, c, [[r EXCEPT !.method = m, !.chunked = ch] EXCEPT !.st = "CREATE"], K)
          \/ m # "POST" /\ Respond(e, c, [[r EXCEPT !.method = m, !.chunked = ch] EXCEPT !.st = "DONE"], K)
    BY <1>5
  <2> DEFINE q0 == [r EXCEPT !.method = m, !.chunked = ch]
  <2>2. m \in AllMethods /\ ch \in BOOLEAN
    BY Parameters
  <2>3. q0 \in Client
    <3> DEFINE s == [r EXCEPT !.method = m]
    <3>1. s \in Client
      BY <1>r, <2>2 DEF Client
    <3>2. [s EXCEPT !.chunked = ch] \in Client
      <4> HIDE DEF s
      <4> QED  BY <2>2, <3>1, ZenonT(30) DEF Client
    <3>3. q0 = [s EXCEPT !.chunked = ch]
      BY <1>r DEF Client
    <3> QED  BY <3>2, <3>3
  <2>4. /\ q0.life = r.life /\ q0.sock = r.sock /\ q0.code = r.code
        /\ q0.wfd = r.wfd /\ q0.pid = r.pid /\ q0.method = m /\ q0.ended = r.ended
    BY <1>r DEF Client
  <2> HIDE DEF q0
  <2>5. ASSUME NEW st \in {"CREATE", "DONE"}, NEW q, q = [q0 EXCEPT !.st = st],
               st = "CREATE" \/ m # "POST"
        PROVE  /\ Start(e, c, q, K) /\ cl[c].pid = None /\ q.pid = None /\ q.sock = r.sock
               /\ q.st = st /\ q.method = m
    <3>1. /\ q \in Client /\ q.life = r.life /\ q.sock = r.sock /\ q.code = r.code
          /\ q.wfd = r.wfd /\ q.pid = r.pid /\ q.st = st /\ q.method = m /\ q.ended = r.ended
      BY <2>3, <2>4, <2>5 DEF Client
    <3> QED  BY <1>3, <1>5, <2>5, <3>1
  <2>6. CASE m = "POST" /\ Spawn(e, c, [q0 EXCEPT !.st = "CREATE"], K)
    <3> DEFINE q == [q0 EXCEPT !.st = "CREATE"]
    <3>1. /\ Start(e, c, q, K) /\ cl[c].pid = None /\ q.sock = r.sock
          /\ q.st = "CREATE" /\ q.method = m
      BY <2>5
    <3> HIDE DEF q
    <3> QED  BY <2>6, <3>1, SpawnFit DEF q
  <2>7. CASE m # "POST" /\ Respond(e, c, [q0 EXCEPT !.st = "DONE"], K)
    <3> DEFINE q == [q0 EXCEPT !.st = "DONE"]
    <3>1. /\ Start(e, c, q, K) /\ q.pid = None /\ q.sock = r.sock
          /\ q.st = "DONE" /\ q.method # "POST"
      BY <2>5, <2>7
    <3>2. Respond(e, c, q, K)
      BY <2>7
    <3> HIDE DEF q
    <3>3. PostReady(q, c, fdt)
      BY <3>1 DEF PostReady
    <3> QED  BY <3>1, <3>2, <3>3, RespondFit
  <2> QED  BY <2>1, <2>6, <2>7 DEF q0
<1>6. CASE r.st = "DONE" /\ Respond(e, c, r, K)
  <2>1. r.method = "POST" => r.wfd \in Fds
    BY <1>r, <1>6 DEF ClientOK
  <2>2. r.method = "CGI" /\ r.body = "short" => r.pid = None
    BY <1>r, <1>6 DEF ClientOK, Settled
  <2> QED  BY <1>6, <2>1, <2>2, RespondFit
<1> QED  BY <1>1, <1>4, <1>5, <1>6, ZenonT(30) DEF HandleRequest

-----------------------------------------------------------------------------
(* The ways a connection ends or starts over. *)

\* Whoever runs after a kill ran before, and was not its target.
LEMMA KilledRuns ==
  ASSUME IInv, NEW p, NEW i \in Pids, Killed(p)[i] = "running"
  PROVE  proc[i] = "running" /\ i # p
<1>1. proc \in [Pids -> Procs]
  BY DEF IInv, TypeOK
<1>2. CASE p \in Pids
  BY <1>1, <1>2 DEF Killed
<1>3. CASE p \notin Pids
  BY <1>1, <1>3 DEF Killed
<1> QED  BY <1>2, <1>3

\* The clean-up of a connection whose event is on its socket or its timer.
LEMMA CleanUpDone ==
  ASSUME NEW e \in batch, NEW c \in Clients, NEW r \in Client, NEW K, NEW S, NEW p,
         IInv, ConvInv, InLoop, cl[c].life = "live", r.sock = cl[c].sock, e.id = r.sock,
         r.pid = cl[c].pid \/ (r.pid = None /\ p = cl[c].pid),
         ~stolen =>
           /\ fdt[r.sock].owner = c
           /\ \A x \in Fds : fdt[x].owner \notin {c, None} /\ x \notin S =>
                \A k : k.id = x /\ k.filter # "PROC" => (k \in K <=> k \in kn)
           /\ \A k \in K : k.filter \in RW /\ k.id \in Fds => fdt[k.id] # Free /\ k.id \notin S,
         CleanUp(e, c, r, K, S, p)
  PROVE  Done(c)
<1> DEFINE shut == {e.id} \cup IF r.pid = None THEN {} ELSE PipeEnds(r)
           K1   == CloseAll(K, shut)
           gone == NewClient("freed", r.sock)
           dead == IF PidKnown(K1, r) /\ r.pid # None THEN r.pid ELSE p
<1>1. /\ clients' = Erased(e.id)
      /\ fdt' = Closed(S \cup shut)
      /\ stolen' = (stolen \/ Theft(c, S \cup shut))
      /\ proc' = Killed(dead)
      /\ IF PidKnown(K1, r) /\ Has(K1, "TIMER", r.sock)
         THEN /\ cl' = [cl EXCEPT ![c] = gone]
              /\ kn' = Untimed(Unwatched(K1, r), r)
              /\ batch' = AfterCleanUp(e)
              /\ UNCHANGED mode
         ELSE Leave("deaf", c, gone) \/ Leave("undefined", c, gone)
  BY DEF CleanUp
<1>2. stolen => stolen'
  BY <1>1
<1>3. CASE ~(PidKnown(K1, r) /\ Has(K1, "TIMER", r.sock))
  BY <1>1, <1>2, <1>3, LeaveDone
<1>4. CASE PidKnown(K1, r) /\ Has(K1, "TIMER", r.sock)
  <2>1. /\ cl'[c] = gone /\ \A d \in Clients \ {c} : cl'[d] = cl[d]
        /\ kn' = Untimed(Unwatched(K1, r), r) /\ batch' = {} /\ mode' = mode
    BY <1>1, <1>4 DEF AfterCleanUp, IInv, TypeOK
  <2>2. gone.life = "freed"
    BY DEF NewClient
  <2>3. dead = IF r.pid # None THEN r.pid ELSE p
    BY <1>4
  <2>4. \A k : k \in kn' <=> /\ k \in K
                             /\ ~(k.filter \in RW /\ k.id \in shut)
                             /\ ~(k.filter = "PROC" /\ k.id = r.pid)
                             /\ ~(k.filter = "TIMER" /\ k.id = r.sock)
    BY <2>1 DEF Untimed, Unwatched, Del, CloseAll, RW
  <2>5. e.id \in shut
    OBVIOUS
  <2> HIDE DEF shut, K1, gone, dead
  <2>6. Live' = Live \ {c} /\ c \in Live
    BY <2>1, <2>2 DEF Live
  <2>7. NotOrphaned'
    <3> SUFFICES ASSUME NEW i \in Pids, proc'[i] = "running"
                 PROVE  \E d \in Live' : cl'[d].pid = i
      BY DEF NotOrphaned
    <3>1. proc[i] = "running" /\ i # dead /\ i # None
      BY <1>1, KilledRuns, Sentinels
    <3>2. cl[c].pid # i
      BY <2>3, <3>1
    <3>3. PICK d \in Live : cl[d].pid = i
      BY <3>1 DEF ConvInv, NotOrphaned
    <3> QED  BY <2>1, <2>6, <3>2, <3>3 DEF Live
  <2>8. Registered'
    <3> SUFFICES ASSUME NEW f \in Fds, clients'[f] # None
                 PROVE  clients'[f] \in Live' /\ cl'[clients'[f]].sock = f
      BY DEF Registered
    <3>1. f # e.id /\ clients'[f] = clients[f]
      BY <1>1 DEF Erased, IInv, TypeOK
    <3>2. clients[f] \in Live /\ cl[clients[f]].sock = f
      BY <3>1 DEF ConvInv, Registered
    <3>3. clients[f] # c
      BY <3>1, <3>2
    <3> QED  BY <2>1, <2>6, <3>1, <3>2, <3>3 DEF Live
  <2>9. \A d \in Live' : EndOK(cl'[d])
    BY <2>1, <2>6 DEF ConvInv, Live
  <2>10. ASSUME ~stolen' PROVE OwnAll' /\ Moves(c)
    <3>1. ~stolen /\ \A f \in S \cup shut : fdt[f] = Free \/ fdt[f].owner = c
      BY <1>1, <2>10 DEF Theft
    <3>2. \A x \in Fds : x \notin S \cup shut => fdt'[x] = fdt[x]
      BY <1>1 DEF Closed
    <3>3. Apart(c, kn')
      <4> SUFFICES ASSUME NEW x \in Fds, fdt[x].owner \notin {c, None}
                   PROVE  /\ fdt'[x] = fdt[x]
                          /\ \A k : k.id = x /\ k.filter # "PROC" => (k \in kn' <=> k \in kn)
        BY DEF Apart
      <4>1. x \notin S \cup shut /\ x # r.sock
        BY <3>1 DEF Free
      <4> QED  BY <2>4, <3>1, <3>2, <4>1
    <3>4. Opened(kn', fdt')
      BY <2>4, <3>1, <3>2 DEF Opened
    <3>5. ASSUME NEW d \in Live \ {c}
          PROVE  /\ Mine(d, cl[d], kn', {}, fdt') /\ clients[cl[d].sock] = d
                 /\ fdt[cl[d].sock].owner = d
                 /\ Wr(cl[d], d) \in kn' <=> Wr(cl[d], d) \in kn
      BY <3>1, <3>3, OthersMine
    <3>6. ASSUME NEW d \in Live \ {c} PROVE clients'[cl[d].sock] = d
      <4>1. cl[d].sock # e.id
        BY <3>1, <3>5
      <4> QED  BY <1>1, <3>5, <4>1 DEF Erased, IInv, TypeOK
    <3>7. OwnAll'
      BY <2>1, <2>6, <3>4, <3>5, <3>6 DEF OwnAll, Live
    <3>8. ASSUME NEW d \in Clients \ {c} PROVE Still(d)
      BY <2>1, <3>5 DEF Still, Answering, Wr, Live
    <3> QED  BY <2>1, <2>2, <3>7, <3>8 DEF Moves
  <2>11. Final(c)
    BY <2>1, <2>2 DEF Final
  <2>12. ConvInv'
    BY <2>7, <2>8, <2>9, <2>10 DEF ConvInv
  <2> QED  BY <1>2, <2>1, <2>10, <2>11, <2>12 DEF Done, Up
<1> QED  BY <1>3, <1>4

\* The last byte of an answer is out: the connection awaits the next request.
LEMMA FinishDone ==
  ASSUME NEW e \in batch, NEW c \in Clients, NEW q, NEW K,
         IInv, ConvInv, InLoop, cl[c].life = "live", Fit(e, c, q, K), e = Wr(q, c),
         K \subseteq Knotes, Has(K, "WRITE", q.sock), q.code # 405,
         Return(e, c, Cleared(q), Add(Del(K, "WRITE", q.sock), "READ", q.sock, c))
  PROVE  Done(c)
<1> DEFINE s == Cleared(q)
           L == Add(Del(K, "WRITE", q.sock), "READ", q.sock, c)
<1>1. q \in Client /\ Sound(e, c, q, K) /\ q.life = "live" /\ q.code = cl[c].code
  BY DEF Fit, Sound
<1>2. /\ s \in Client /\ s.life = "live" /\ s.sock = q.sock /\ s.pid = q.pid /\ s.st = "READY"
      /\ ~s.ended
  <2>1. ~s.ended
    BY DEF Cleared, NewClient
  <2> QED  BY <1>1, <2>1, ClearedType
<1>3. Return(e, c, s, L)
  OBVIOUS
<1>4. \A k : k \in L <=> \/ k \in K /\ ~(k.filter \in RW /\ k.id = q.sock)
                         \/ k = Rd(q, c)
  BY DEF Add, Del, Rd, RW, Knote
<1> HIDE DEF s, L
<1>5. EndOK(s) /\ \A F : PostReady(s, c, F)
  BY <1>2 DEF EndOK, PostReady
<1>6. Wr(s, c) = Wr(q, c) /\ Rd(s, c) = Rd(q, c) /\ c # None /\ Free.owner = None
  BY <1>2, Sentinels DEF Wr, Rd, Free
<1>7. ASSUME ~stolen'
      PROVE  /\ Mine(c, s, L, batch \ {e}, fdt') /\ Apart(c, L) /\ Opened(L, fdt')
             /\ Wr(s, c) \in kn /\ Wr(s, c) \notin L
  <2>1. ~stolen /\ Mine(c, q, K, batch \ {e}, fdt') /\ Apart(c, K) /\ Opened(K, fdt')
    BY <1>1, <1>7 DEF Sound
  <2>2. Wr(q, c) \in K
    <3>1. PICK k \in K : k.filter = "WRITE" /\ k.id = q.sock
      BY DEF Has
    <3>2. k.udata = c
      BY <2>1, <3>1 DEF Mine, RW
    <3>3. k = Knote(k.filter, k.id, k.udata)
      BY DEF Knotes, Knote
    <3> QED  BY <3>1, <3>2, <3>3 DEF Wr
  <2>3. Wr(q, c) \in kn /\ Rd(q, c) \notin K
    BY <1>7, <2>1, <2>2 DEF Fit, Mine
  <2>4. Rd(q, c) \in L /\ Wr(q, c) \notin L /\ Wr(q, c) \notin batch \ {e}
    BY <1>4 DEF Wr, Rd, Knote, RW
  <2>5. Knote("TIMER", q.sock, c) \in L
    BY <1>4, <2>1 DEF Mine, RW, Knote
  <2>6. \A k \in L : k.filter \in RW /\ k.id = q.sock => k.udata = c
    BY <1>4 DEF Rd, Knote
  <2>7. fdt'[q.sock].owner = c /\ fdt[q.sock].owner = c
    <3>1. fdt[cl[c].sock].owner = c /\ q.sock = cl[c].sock
      BY <1>1, <2>1 DEF ConvInv, OwnAll, Live, Mine, Sound
    <3> QED  BY <2>1, <3>1 DEF Mine
  <2>8. Mine(c, s, L, batch \ {e}, fdt')
    <3>1. Knote("TIMER", s.sock, c) \in L /\ fdt'[s.sock].owner = c
          /\ \A k \in L : k.filter \in RW /\ k.id = s.sock => k.udata = c
      BY <1>2, <2>5, <2>6, <2>7
    <3> QED  BY <1>5, <1>6, <2>4, <3>1 DEF Mine
  <2>9. Apart(c, L)
    <3> SUFFICES ASSUME NEW x \in Fds, fdt[x].owner \notin {c, None}
                 PROVE  /\ fdt'[x] = fdt[x]
                        /\ \A l : l.id = x /\ l.filter # "PROC" => (l \in L <=> l \in kn)
      BY DEF Apart
    <3>1. x # q.sock /\ Rd(q, c).id = q.sock
      BY <2>7 DEF Rd, Knote
    <3> QED  BY <1>4, <2>1, <3>1 DEF Apart
  <2>10. Opened(L, fdt')
    <3>1. fdt'[q.sock] # Free
      BY <1>6, <2>7
    <3> QED  BY <1>4, <2>1, <3>1 DEF Opened, Rd, Knote
  <2> QED  BY <1>6, <2>3, <2>4, <2>8, <2>9, <2>10
<1>8. Sound(e, c, s, L)
  BY <1>1, <1>2, <1>5, <1>7 DEF Sound
<1>9. Wr(s, c) \notin L
  BY <1>2, <1>4 DEF Wr, Rd, Knote, RW
<1> QED  BY <1>1, <1>2, <1>3, <1>7, <1>8, <1>9, ReturnDone DEF OneMove

-----------------------------------------------------------------------------
(* The events of handleEvent. *)

\* The Client and the kqueue as they are, with the timer reset or not.
LEMMA StartInit ==
  ASSUME NEW e \in batch, NEW c \in Clients, IInv, ConvInv, InLoop, cl[c].life = "live"
  PROVE  Start(e, c, cl[c], kn) /\ Start(e, c, cl[c], TimerReset(c, cl[c]))
<1> DEFINE r == cl[c]
           T == TimerReset(c, r)
<1>1. /\ r \in Client /\ ClientOK(r) /\ r.sock \in Fds /\ r.wfd # r.sock /\ EndOK(r)
      /\ r.life = "live" /\ c \in Live
  BY DEF IInv, TypeOK, LoopInv, ClientOK, ConvInv, Live
<1>2. \A k : k \in T <=> \/ k \in kn /\ ~(k.filter = "TIMER" /\ k.id = r.sock)
                         \/ k = Knote("TIMER", r.sock, c)
  BY DEF TimerReset, Add, Del
<1>3. ~stolen => Opened(kn, fdt) /\ Mine(c, r, kn, batch, fdt)
  BY <1>1 DEF ConvInv, OwnAll
<1> HIDE DEF r, T
<1>4. ASSUME ~stolen
      PROVE  /\ Mine(c, r, kn, batch \ {e}, fdt) /\ Opened(kn, fdt)
             /\ CanSwitch(kn, r) => Wr(r, c) \notin kn
  <2>1. Mine(c, r, kn, batch \ {e}, fdt) /\ Opened(kn, fdt)
    BY <1>3, <1>4 DEF Mine
  <2>2. ASSUME CanSwitch(kn, r) PROVE Wr(r, c) \notin kn
    <3>1. PICK k \in kn : k.filter = "READ" /\ k.id = r.sock
      BY <2>2 DEF CanSwitch, Has
    <3>2. k.udata = c /\ k = Knote(k.filter, k.id, k.udata)
      BY <2>1, <3>1 DEF Mine, RW, IInv, Typed, Knotes, Knote
    <3> QED  BY <2>1, <3>1, <3>2 DEF Mine, Rd
  <2> QED  BY <2>1, <2>2
<1>5. Start(e, c, r, kn)
  BY <1>1, <1>4 DEF Start, r
<1>6. ASSUME ~stolen
      PROVE  /\ Mine(c, r, T, batch \ {e}, fdt) /\ Opened(T, fdt)
             /\ CanSwitch(T, r) => Wr(r, c) \notin kn
             /\ Wr(r, c) \in T <=> Wr(r, c) \in kn
             /\ \A x \in Fds : fdt[x].owner \notin {c, None} =>
                  \A k : k.id = x /\ k.filter # "PROC" => (k \in T <=> k \in kn)
  <2>1. \A k : k.filter # "TIMER" => (k \in T <=> k \in kn)
    BY <1>2 DEF Knote
  <2>2. /\ Wr(r, c) \in T <=> Wr(r, c) \in kn
        /\ Rd(r, c) \in T <=> Rd(r, c) \in kn
        /\ CanSwitch(T, r) <=> CanSwitch(kn, r)
    BY <2>1 DEF Wr, Rd, Knote, CanSwitch, Has
  <2>3. Knote("TIMER", r.sock, c) \in T
    BY <1>2
  <2>4. Opened(T, fdt)
    BY <1>4, <1>6, <2>1 DEF Opened, RW
  <2>5. \A k \in T : k.filter \in RW /\ k.id = r.sock => k.udata = c
    BY <1>4, <1>6, <2>1 DEF Mine, RW
  <2>6. Mine(c, r, T, batch \ {e}, fdt) /\ fdt[r.sock].owner = c
    BY <1>4, <1>6, <2>2, <2>3, <2>5 DEF Mine
  <2>7. \A k : k.id # r.sock => (k \in T <=> k \in kn)
    BY <1>2 DEF Knote
  <2> QED  BY <1>4, <1>6, <2>2, <2>4, <2>6, <2>7
<1>7. Start(e, c, r, T)
  BY <1>1, <1>6 DEF Start, r
<1> QED  BY <1>5, <1>7 DEF T, r

\* A request or a disconnection on the client's socket.
LEMMA ReadSocketDone ==
  ASSUME NEW e \in batch, NEW c \in Clients, IInv, ConvInv, InLoop, e.udata = c,
         cl[c].life = "live", ReadSocket(e, c, cl[c])
  PROVE  Done(c)
<1> DEFINE r == cl[c]
           K == TimerReset(c, r)
<1>1. e.filter = "READ" /\ e.id = r.sock /\ Start(e, c, r, K)
  BY StartInit DEF ReadSocket
<1>2. r \in Client /\ ClientOK(r) /\ KnoteOK(e, r) /\ r.st \in {"READY", "DONE"}
  <2>1. r \in Client /\ ClientOK(r)
    BY DEF IInv, TypeOK, LoopInv
  <2>2. KnoteOK(e, r)
    BY HeldInit
  <2> QED  BY <1>1, <2>1, <2>2 DEF KnoteOK, Client
<1>3. ~stolen => PostReady(r, c, fdt)
  <2>1. e = Rd(r, c)
    BY <1>1 DEF IInv, LoopInv, Typed, Knotes, Knote, Rd
  <2>2. c \in Live
    BY DEF Live
  <2> QED  BY <2>1, <2>2 DEF ConvInv, OwnAll, Mine
<1>4. CASE fdt[e.id].kind = "sock" /\ HandleRequest(e, c, r, K)
  <2>1. fdt[r.sock] # Free
    BY <1>1, <1>4 DEF Free
  <2> HIDE DEF r, K
  <2> QED  BY <1>1, <1>2, <1>3, <1>4, <2>1, HandleRequestFit
<1>5. CASE CleanUp(e, c, r, K, {}, None)
  <2>1. ~stolen => fdt[r.sock].owner = c
    BY <1>1 DEF Start, Mine
  <2> HIDE DEF K
  <2> QED  BY <1>1, <1>2, <1>5, <2>1, CleanUpDone DEF Start, Opened
<1> QED  BY <1>4, <1>5 DEF ReadSocket

\* The timer of a connection.
LEMMA TimeoutDone ==
  ASSUME NEW e \in batch, NEW c \in Clients, IInv, ConvInv, InLoop, e.udata = c,
         cl[c].life = "live", Timeout(e, c, cl[c])
  PROVE  Done(c)
<1>1. e.id = cl[c].sock /\ cl[c] \in Client
  <2>1. KnoteOK(e, cl[c])
    BY HeldInit
  <2> QED  BY <2>1 DEF Timeout, KnoteOK, IInv, TypeOK
<1>2. Start(e, c, cl[c], kn)
  BY StartInit
<1>3. ~stolen => fdt[cl[c].sock].owner = c
  BY <1>2 DEF Start, Mine
<1>4. CleanUp(e, c, cl[c], kn, {}, None)
  BY DEF Timeout
<1> QED  BY <1>1, <1>2, <1>3, <1>4, CleanUpDone DEF Start, Opened

\* Descriptors S are closed, none of them the client's socket, and L is what is
\* left of the knotes.
LEMMA ClosedFit ==
  ASSUME NEW e, NEW c \in Clients, NEW r, NEW K, Start(e, c, r, K), NEW S, r.sock \notin S,
         fdt' = Closed(S), stolen' = (stolen \/ Theft(c, S)), clients' = clients,
         NEW q \in Client, q.life = r.life, q.sock = r.sock, q.code = r.code,
         q.wfd # q.sock, EndOK(q),
         \A p \in Pids :
           proc'[p] = "running" => q.pid = p \/ (proc[p] = "running" /\ cl[c].pid # p),
         NEW L, \A k : k.filter # "PROC" => (k \in L <=> k \in K /\ ~(k.filter \in RW /\ k.id \in S)),
         ~stolen /\ Rd(r, c) \in K \cup (batch \ {e}) => PostReady(q, c, fdt')
  PROVE  Fit(e, c, q, L)
<1>1. /\ Wr(q, c) = Wr(r, c) /\ Rd(q, c) = Rd(r, c)
      /\ Wr(r, c) \in L <=> Wr(r, c) \in K
      /\ Rd(r, c) \in L <=> Rd(r, c) \in K
      /\ Knote("TIMER", r.sock, c) \in L <=> Knote("TIMER", r.sock, c) \in K
      /\ CanSwitch(L, q) <=> CanSwitch(K, r)
  BY DEF Wr, Rd, Knote, CanSwitch, Has, RW
<1>2. ASSUME ~stolen'
      PROVE  Mine(c, q, L, batch \ {e}, fdt') /\ Apart(c, L) /\ Opened(L, fdt')
  <2>1. ~stolen /\ \A f \in S : fdt[f] = Free \/ fdt[f].owner = c
    BY <1>2 DEF Theft
  <2>2. /\ Mine(c, r, K, batch \ {e}, fdt) /\ Opened(K, fdt) /\ r.sock \in Fds
        /\ \A x \in Fds : fdt[x].owner \notin {c, None} =>
             \A k : k.id = x /\ k.filter # "PROC" => (k \in K <=> k \in kn)
    BY <2>1 DEF Start
  <2>3. \A x \in Fds : x \notin S => fdt'[x] = fdt[x]
    BY DEF Closed
  <2>4. Apart(c, L)
    <3> SUFFICES ASSUME NEW x \in Fds, fdt[x].owner \notin {c, None}
                 PROVE  /\ fdt'[x] = fdt[x]
                        /\ \A k : k.id = x /\ k.filter # "PROC" => (k \in L <=> k \in kn)
      BY DEF Apart
    <3>1. x \notin S
      BY <2>1 DEF Free
    <3> QED  BY <2>2, <2>3, <3>1
  <2>5. Opened(L, fdt')
    BY <2>2, <2>3 DEF Opened, RW
  <2>6. \A k \in L : k.filter \in RW /\ k.id = q.sock => k.udata = c
    BY <2>2 DEF Mine, RW
  <2>7. fdt'[q.sock].owner = c /\ Knote("TIMER", q.sock, c) \in L
    BY <1>1, <2>2, <2>3 DEF Mine
  <2>8. Rd(q, c) \in L \cup (batch \ {e}) => PostReady(q, c, fdt')
    BY <1>1, <2>1
  <2>9. Mine(c, q, L, batch \ {e}, fdt')
    BY <1>1, <2>2, <2>6, <2>7, <2>8 DEF Mine
  <2> QED  BY <2>4, <2>5, <2>9
<1>3. Sound(e, c, q, L)
  BY <1>2 DEF Start, Sound
<1> QED  BY <1>1, <1>3 DEF Start, Fit

\* A handler that only looks changes nothing but the client's buffers.
LEMMA LookDone ==
  ASSUME NEW e \in batch, NEW c \in Clients, IInv, ConvInv, InLoop, cl[c].life = "live",
         NEW q, Alike(q, cl[c]), UNCHANGED os,
         Return(e, c, q, kn) \/ Throw(e, c, q, kn, 500)
  PROVE  Done(c)
<1>1. Fit(e, c, cl[c], kn)
  BY StartInit, StartFit
<1>2. Fit(e, c, q, kn) /\ 500 \in Errors
  BY <1>1, FitAlike DEF Errors
<1> QED  BY <1>2, ReturnFit, ThrowFit

\* An event on the read end of a child's output, or on a pipe forgotten.
LEMMA ReadPipeDone ==
  ASSUME NEW e \in batch, NEW c \in Clients, IInv, ConvInv, InLoop, e.udata = c,
         cl[c].life = "live", ReadPipe(e, c, cl[c])
  PROVE  Done(c)
<1> DEFINE r == cl[c]
<1>1. /\ r \in Client /\ ClientOK(r) /\ r.life = "live" /\ EndOK(r) /\ Start(e, c, r, kn)
      /\ TRUE \in BOOLEAN /\ "over" \in Longer(r.body)
  BY StartInit DEF IInv, TypeOK, LoopInv, ConvInv, Live, Longer, Sizes
<1>2. /\ Alike([r EXCEPT !.buf = TRUE], r) /\ Alike([r EXCEPT !.resp = TRUE], r)
      /\ Alike(r, r)
  <2> HIDE DEF r
  <2> QED  BY <1>1, DataAlike DEF Alike, Same
<1>3. CASE (Return(e, c, [r EXCEPT !.buf = TRUE], kn) \/ Throw(e, c, r, kn, 500) \/ Return(e, c, r, kn))
           /\ UNCHANGED os
  BY <1>2, <1>3, LookDone
<1>4. CASE /\ e.id = r.rfd /\ e.id # r.sock
           /\ Return(e, c, [r EXCEPT !.resp = TRUE], CloseAll(kn, {e.id}))
           /\ fdt' = Closed({e.id})
           /\ stolen' = (stolen \/ Theft(c, {e.id}))
           /\ UNCHANGED <<clients, proc>>
  <2> DEFINE q == [r EXCEPT !.resp = TRUE]
             L == CloseAll(kn, {e.id})
  <2>1. /\ Alike(q, r) /\ Return(e, c, q, L)
    BY <1>2, <1>4
  <2>2. \A k : k.filter # "PROC" => (k \in L <=> k \in kn /\ ~(k.filter \in RW /\ k.id \in {e.id}))
    BY DEF CloseAll, RW
  <2>3. ~stolen /\ Rd(r, c) \in kn \cup (batch \ {e}) => PostReady(r, c, fdt)
    BY <1>1 DEF Start, Mine
  <2> HIDE DEF q, r, L
  <2>4. PostReady(r, c, fdt) => PostReady(q, c, fdt')
    BY <1>1, <1>4, <2>1 DEF PostReady, Alike, Same, Closed, ClientOK
  <2>5. /\ q \in Client /\ q.life = r.life /\ q.sock = r.sock /\ q.code = r.code
        /\ q.wfd # q.sock /\ EndOK(q) /\ q.pid = cl[c].pid
    BY <1>1, <2>1 DEF Alike, Same, ClientOK, Start
  <2>6. Fit(e, c, q, L)
    BY <1>1, <1>4, <2>2, <2>3, <2>4, <2>5, ClosedFit
  <2> QED  BY <2>1, <2>6, ReturnFit
<1> QED  BY <1>3, <1>4 DEF ReadPipe

\* An event on the write end of a child's input, or on a pipe forgotten.
LEMMA WritePipeDone ==
  ASSUME NEW e \in batch, NEW c \in Clients, IInv, ConvInv, InLoop, e.udata = c,
         cl[c].life = "live", WritePipe(e, c, cl[c])
  PROVE  Done(c)
<1> DEFINE r == cl[c]
<1>1. /\ r \in Client /\ ClientOK(r) /\ r.life = "live" /\ EndOK(r) /\ Start(e, c, r, kn)
      /\ "over" \in Longer(r.body)
  BY StartInit DEF IInv, TypeOK, LoopInv, ConvInv, Live, Longer, Sizes
<1>2. Alike(r, r) /\ \A more \in BOOLEAN : Alike([r EXCEPT !.unsent = more], r)
  <2> HIDE DEF r
  <2>1. ASSUME NEW more \in BOOLEAN PROVE Alike([r EXCEPT !.unsent = more], r)
    BY <1>1, DataAlike
  <2>2. Alike(r, r)
    BY <1>1 DEF Alike, Same
  <2> QED  BY <2>1, <2>2
<1>3. CASE Leave("killed", c, r) /\ UNCHANGED os
  <2>1. stolen => stolen'
    BY <1>3 DEF os
  <2> QED  BY <1>3, <2>1, LeaveDone
<1>4. CASE (Throw(e, c, r, kn, 500) \/ Return(e, c, r, kn)) /\ UNCHANGED os
  BY <1>2, <1>4, LookDone
<1>5. CASE (\E more \in BOOLEAN : Return(e, c, [r EXCEPT !.unsent = more], kn)) /\ UNCHANGED os
  BY <1>2, <1>5, LookDone
<1>6. CASE /\ e.id = r.wfd /\ r.ended
           /\ Return(e, c, r, CloseAll(kn, {e.id}))
           /\ fdt' = Closed({e.id})
           /\ stolen' = (stolen \/ Theft(c, {e.id}))
           /\ UNCHANGED <<clients, proc>>
  <2> DEFINE L == CloseAll(kn, {e.id})
  <2>1. PostReady(r, c, fdt')
    BY <1>1, <1>6 DEF PostReady, EndOK
  <2>2. \A k : k.filter # "PROC" => (k \in L <=> k \in kn /\ ~(k.filter \in RW /\ k.id \in {e.id}))
    BY DEF CloseAll, RW
  <2>3. /\ r.wfd # r.sock /\ r.sock \notin {e.id}
    BY <1>1, <1>6 DEF ClientOK
  <2> HIDE DEF L
  <2>4. Fit(e, c, r, L)
    BY <1>1, <1>6, <2>1, <2>2, <2>3, ClosedFit
  <2> QED  BY <1>6, <2>4, ReturnFit DEF L
<1> QED  BY <1>3, <1>4, <1>5, <1>6 DEF WritePipe

\* The exit of a child: the pid is given up.
LEMMA EndProcessDone ==
  ASSUME NEW e \in batch, NEW c \in Clients, IInv, ConvInv, InLoop, e.udata = c,
         cl[c].life = "live", EndProcess(e, c, cl[c])
  PROVE  Done(c)
<1> DEFINE r == cl[c]
<1>1. /\ r \in Client /\ Start(e, c, r, kn) /\ r.pid \in Pids
      /\ proc' = [proc EXCEPT ![r.pid] = "reaped"] /\ UNCHANGED <<clients, fdt, stolen>>
  BY StartInit DEF EndProcess, IInv, TypeOK
<1>2. \A p \in Pids : proc'[p] = "running" => proc[p] = "running" /\ r.pid # p
  BY <1>1 DEF IInv, TypeOK
<1>3. ASSUME NEW q \in Client, q.life = r.life, q.sock = r.sock, q.code = r.code, q.body = r.body,
             q.wfd = r.wfd, q.rfd = r.rfd, q.st = r.st, q.method = r.method,
             q.chunked = r.chunked, q.ended = r.ended
      PROVE  Fit(e, c, q, kn)
  <2>1. Wr(q, c) = Wr(r, c) /\ Rd(q, c) = Rd(r, c) /\ CanSwitch(kn, q) = CanSwitch(kn, r)
    BY <1>3 DEF Wr, Rd, CanSwitch
  <2>2. PostReady(r, c, fdt) => PostReady(q, c, fdt)
    BY <1>3 DEF PostReady
  <2>3. EndOK(q) /\ q.wfd # q.sock /\ q.life = "live"
    BY <1>1, <1>3 DEF EndOK, Start
  <2>4. ~stolen' => Mine(c, q, kn, batch \ {e}, fdt') /\ Apart(c, kn) /\ Opened(kn, fdt')
    <3>1. Mine(c, r, kn, batch \ {e}, fdt) => Mine(c, q, kn, batch \ {e}, fdt)
      BY <1>3, <2>1, <2>2 DEF Mine
    <3>2. stolen' = stolen /\ fdt' = fdt
      BY <1>1
    <3> QED  BY <1>1, <3>1, <3>2 DEF Start, Apart
  <2>5. Sound(e, c, q, kn)
    BY <1>1, <1>2, <1>3, <2>3, <2>4 DEF Sound
  <2> QED  BY <1>1, <1>3, <2>1, <2>3, <2>5 DEF Fit, Start
<1>4. CASE Throw(e, c, [r EXCEPT !.pid = None, !.buf = FALSE], kn, 400)
  <2> DEFINE s == [r EXCEPT !.pid = None]
             q == [s EXCEPT !.buf = FALSE]
  <2>1. s \in Client
    BY <1>1 DEF Client
  <2>2. q \in Client
    <3> HIDE DEF s
    <3> QED  BY <2>1, ZenonT(30) DEF Client
  <2>3. /\ q.life = r.life /\ q.sock = r.sock /\ q.code = r.code /\ q.body = r.body
        /\ q.wfd = r.wfd /\ q.rfd = r.rfd /\ q.st = r.st /\ q.method = r.method
        /\ q.chunked = r.chunked /\ q.ended = r.ended
    BY <1>1 DEF Client
  <2>4. q = [r EXCEPT !.pid = None, !.buf = FALSE]
    BY <1>1 DEF Client
  <2> HIDE DEF q
  <2>5. Fit(e, c, q, kn) /\ 400 \in Errors
    BY <1>3, <2>2, <2>3 DEF Errors
  <2> QED  BY <1>4, <2>4, <2>5, ThrowFit
<1>5. CASE StartReply(e, c, [r EXCEPT !.pid = None], kn)
  <2> DEFINE q == [r EXCEPT !.pid = None]
  <2>1. q \in Client
    BY <1>1 DEF Client
  <2>2. /\ q.life = r.life /\ q.sock = r.sock /\ q.code = r.code /\ q.body = r.body
        /\ q.wfd = r.wfd /\ q.rfd = r.rfd /\ q.st = r.st /\ q.method = r.method
        /\ q.chunked = r.chunked /\ q.ended = r.ended
    BY <1>1 DEF Client
  <2>3. StartReply(e, c, q, kn)
    BY <1>5
  <2> HIDE DEF q
  <2>4. Fit(e, c, q, kn)
    BY <1>3, <2>1, <2>2
  <2> QED  BY <2>3, <2>4, ReplyFit
<1> QED  BY <1>4, <1>5 DEF EndProcess

\* Room in the client's socket: the child of a request that failed is ended, then
\* the answer is sent.
LEMMA WriteSocketDone ==
  ASSUME NEW e \in batch, NEW c \in Clients, IInv, ConvInv, InLoop, e.udata = c,
         cl[c].life = "live", WriteSocket(e, c, cl[c])
  PROVE  Done(c)
<1> DEFINE r    == cl[c]
           T    == TimerReset(c, r)
           ends == IF Ends(r) THEN PipeEnds(r) ELSE {}
           K1   == CloseAll(T, ends)
           K2   == IF Ends(r) THEN Unwatched(K1, r) ELSE K1
           q    == IF Ends(r) THEN [r EXCEPT !.pid = None] ELSE r
           p    == IF Ends(r) THEN r.pid ELSE None
<1>1. /\ e.filter = "WRITE" /\ e.id = r.sock
      /\ \/ /\ Throw(e, c, r, K1, 500)
            /\ fdt' = Closed(ends)
            /\ stolen' = (stolen \/ Theft(c, ends))
            /\ UNCHANGED <<clients, proc>>
         \/ CleanUp(e, c, q, K2, ends, p)
         \/ /\ \/ Return(e, c, q, K2)
               \/ /\ Has(K2, "WRITE", r.sock) /\ q.code # 405
                  /\ Return(e, c, Cleared(q), Add(Del(K2, "WRITE", r.sock), "READ", r.sock, c))
               \/ Throw(e, c, q, K2, 500)
            /\ fdt' = Closed(ends)
            /\ proc' = Killed(p)
            /\ stolen' = (stolen \/ Theft(c, ends))
            /\ UNCHANGED clients
  BY DEF WriteSocket
<1>2. /\ r \in Client /\ ClientOK(r) /\ r.life = "live" /\ EndOK(r) /\ Start(e, c, r, T)
      /\ r.sock \in Fds /\ r.wfd # r.sock /\ r.sock \notin ends /\ 500 \in Errors /\ T \subseteq Knotes
  <2>1. r \in Client /\ ClientOK(r) /\ r.life = "live" /\ EndOK(r)
    BY DEF IInv, TypeOK, LoopInv, ConvInv, Live
  <2>2. Start(e, c, r, T)
    BY StartInit
  <2>3. r.sock \in Fds /\ r.wfd # r.sock /\ r.rfd # r.sock
    BY <2>1 DEF ClientOK
  <2>4. T \subseteq Knotes
    BY <2>3, AddTyped DEF IInv, TimerReset, Typed, Filters
  <2> QED  BY <2>1, <2>2, <2>3, <2>4 DEF PipeEnds, Errors
<1>3. e = Wr(r, c)
  BY <1>1 DEF IInv, LoopInv, Typed, Knotes, Knote, Wr
<1>4. ~stolen => Rd(r, c) \notin T \cup (batch \ {e})
  <2>1. c \in Live
    BY DEF Live
  <2>2. ~stolen => Rd(r, c) \notin kn \cup batch
    BY <1>3, <2>1 DEF ConvInv, OwnAll, Mine
  <2> QED  BY <2>2 DEF TimerReset, Add, Del, Rd, Knote
<1>5. \A k : /\ k.filter # "PROC" => (k \in K1 <=> k \in T /\ ~(k.filter \in RW /\ k.id \in ends))
             /\ k.filter # "PROC" => (k \in K2 <=> k \in K1)
             /\ k \in K2 => k \in T /\ ~(k.filter \in RW /\ k.id \in ends)
  BY DEF CloseAll, Unwatched, Del, RW
<1>6. /\ q \in Client /\ q.life = r.life /\ q.sock = r.sock /\ q.code = r.code /\ q.wfd = r.wfd
      /\ q.st = r.st /\ q.chunked = r.chunked /\ q.body = r.body /\ q.ended = r.ended
      /\ q.pid = r.pid \/ (q.pid = None /\ p = r.pid)
  <2>1. CASE ~Ends(r)
    BY <1>2, <2>1
  <2>2. CASE Ends(r)
    <3> DEFINE s == [r EXCEPT !.pid = None]
    <3>1. s \in Client /\ s.pid = None
      BY <1>2 DEF Client
    <3>2. /\ s.life = r.life /\ s.sock = r.sock /\ s.code = r.code /\ s.wfd = r.wfd
          /\ s.st = r.st /\ s.chunked = r.chunked /\ s.body = r.body /\ s.ended = r.ended
      BY <1>2 DEF Client
    <3> QED  BY <2>2, <3>1, <3>2
  <2> QED  BY <2>1, <2>2
<1> HIDE DEF r, T, ends, K1, K2, q, p
<1>7. r = cl[c] /\ c \in Live
  BY DEF r, Live
<1>8. EndOK(q)
  BY <1>2, <1>6 DEF EndOK
<1>9. CASE /\ Throw(e, c, r, K1, 500)
           /\ fdt' = Closed(ends)
           /\ stolen' = (stolen \/ Theft(c, ends))
           /\ UNCHANGED <<clients, proc>>
  <2>1. Fit(e, c, r, K1)
    BY <1>2, <1>4, <1>5, <1>7, <1>9, ClosedFit
  <2> QED  BY <1>2, <1>7, <1>9, <2>1, ThrowFit
<1>10. CASE CleanUp(e, c, q, K2, ends, p)
  <2>1. ~stolen => /\ fdt[q.sock].owner = c
                   /\ \A x \in Fds : fdt[x].owner \notin {c, None} /\ x \notin ends =>
                        \A k : k.id = x /\ k.filter # "PROC" => (k \in K2 <=> k \in kn)
                   /\ \A k \in K2 : k.filter \in RW /\ k.id \in Fds => fdt[k.id] # Free /\ k.id \notin ends
    <3> SUFFICES ASSUME ~stolen
                 PROVE  /\ fdt[q.sock].owner = c
                        /\ \A x \in Fds : fdt[x].owner \notin {c, None} /\ x \notin ends =>
                             \A k : k.id = x /\ k.filter # "PROC" => (k \in K2 <=> k \in kn)
                        /\ \A k \in K2 : k.filter \in RW /\ k.id \in Fds => fdt[k.id] # Free /\ k.id \notin ends
      OBVIOUS
    <3>1. /\ Mine(c, r, T, batch \ {e}, fdt) /\ Opened(T, fdt)
          /\ \A x \in Fds : fdt[x].owner \notin {c, None} =>
               \A k : k.id = x /\ k.filter # "PROC" => (k \in T <=> k \in kn)
      BY <1>2 DEF Start
    <3>2. fdt[q.sock].owner = c
      BY <1>6, <3>1 DEF Mine
    <3>3. ASSUME NEW x \in Fds, fdt[x].owner \notin {c, None}, x \notin ends,
                 NEW k, k.id = x, k.filter # "PROC"
          PROVE  k \in K2 <=> k \in kn
      BY <1>5, <3>1, <3>3
    <3>4. \A k \in K2 : k.filter \in RW /\ k.id \in Fds => fdt[k.id] # Free /\ k.id \notin ends
      BY <1>5, <3>1 DEF Opened
    <3> QED  BY <3>2, <3>3, <3>4
  <2> QED  BY <1>1, <1>2, <1>6, <1>7, <1>10, <2>1, CleanUpDone
<1>11. CASE /\ \/ Return(e, c, q, K2)
               \/ /\ Has(K2, "WRITE", r.sock) /\ q.code # 405
                  /\ Return(e, c, Cleared(q), Add(Del(K2, "WRITE", r.sock), "READ", r.sock, c))
               \/ Throw(e, c, q, K2, 500)
            /\ fdt' = Closed(ends)
            /\ proc' = Killed(p)
            /\ stolen' = (stolen \/ Theft(c, ends))
            /\ UNCHANGED clients
  <2>1. \A i \in Pids : proc'[i] = "running" => q.pid = i \/ (proc[i] = "running" /\ cl[c].pid # i)
    <3> SUFFICES ASSUME NEW i \in Pids, proc'[i] = "running"
                 PROVE  q.pid = i \/ (proc[i] = "running" /\ cl[c].pid # i)
      OBVIOUS
    <3>1. proc[i] = "running" /\ i # p
      BY <1>11, KilledRuns
    <3> QED  BY <1>6, <1>7, <3>1
  <2>2. Fit(e, c, q, K2)
    <3>1. \A k : k.filter # "PROC" => (k \in K2 <=> k \in T /\ ~(k.filter \in RW /\ k.id \in ends))
      BY <1>5
    <3> QED  BY <1>2, <1>4, <1>6, <1>8, <1>11, <2>1, <3>1, ClosedFit, ZenonT(30)
  <2>3. K2 \subseteq Knotes /\ e = Wr(q, c)
    BY <1>2, <1>3, <1>5, <1>6 DEF Wr
  <2> QED  BY <1>2, <1>6, <1>7, <1>11, <2>2, <2>3, ReturnFit, ThrowFit, FinishDone
<1> QED  BY <1>1, <1>9, <1>10, <1>11

-----------------------------------------------------------------------------
(* New connections, the kernel and the children. *)

\* A descriptor that is free belongs to nobody's socket, so a new connection may
\* have it; only an accept that fails leaves the loop.
LEMMA AcceptDone ==
  ASSUME NEW e \in batch, IInv, ConvInv, InLoop, e.udata = None, AcceptClient(e)
  PROVE  (\E c \in Clients : Done(c)) \/ (~InLoop' /\ UNCHANGED stolen)
<1>1. ASSUME NEW c \in Clients, NEW f \in FreeFds, cl[c].life = "unborn",
             Return(e, c, NewClient("live", f), Accepted(c, f)),
             fdt' = [fdt EXCEPT ![f] = File("sock", c, None)],
             clients' = IF clients[f] = None THEN [clients EXCEPT ![f] = c] ELSE clients,
             UNCHANGED <<proc, stolen>>
      PROVE  Done(c)
  <2> DEFINE n == NewClient("live", f)
             L == Accepted(c, f)
  <2>1. f \in Fds /\ f # None /\ fdt[f] = Free /\ Free.owner = None /\ c # None
    BY Sentinels DEF FreeFds, Free
  <2>2. n.life = "live" /\ n.sock = f /\ n.st = "READY" /\ ~n.ended
    BY DEF NewClient
  <2>3. /\ kn' = L /\ batch' = batch \ {e} /\ mode' = mode
        /\ cl'[c] = n /\ \A d \in Clients \ {c} : cl'[d] = cl[d]
    BY <1>1 DEF Return, IInv, TypeOK
  <2>4. \A k \in kn \cup (batch \ {e}) : k.udata # c
    BY <1>1, <2>1 DEF IInv, LoopInv, KnoteOK
  <2>5. \A k : k \in L <=> \/ k \in kn /\ ~(k.filter \in {"READ", "TIMER"} /\ k.id = f)
                           \/ k = Rd(n, c) \/ k = Knote("TIMER", f, c)
    BY <2>2 DEF Accepted, Add, Del, Rd, Knote
  <2>6. /\ Rd(n, c) = Knote("READ", f, c) /\ Wr(n, c) = Knote("WRITE", f, c)
    BY <2>2 DEF Rd, Wr
  <2> HIDE DEF n, L
  <2>7. Live' = Live \cup {c} /\ c \notin Live
    BY <1>1, <2>2, <2>3 DEF Live
  <2>8. NotOrphaned'
    BY <1>1, <2>3, <2>7 DEF ConvInv, NotOrphaned, Live
  <2>9. Registered'
    <3> SUFFICES ASSUME NEW x \in Fds, clients'[x] # None
                 PROVE  clients'[x] \in Live' /\ cl'[clients'[x]].sock = x
      BY DEF Registered
    <3>1. clients \in [Fds -> Clients \cup {None}]
      BY DEF IInv, TypeOK
    <3>2. CASE clients'[x] = c /\ x = f
      BY <2>2, <2>3, <2>7, <3>2
    <3>3. CASE clients'[x] = clients[x]
      BY <2>3, <2>7, <3>3 DEF ConvInv, Registered, Live
    <3> QED  BY <1>1, <3>1, <3>2, <3>3
  <2>10. \A d \in Live' : EndOK(cl'[d])
    BY <2>2, <2>3, <2>7 DEF ConvInv, EndOK, Live
  <2>11. ASSUME ~stolen' PROVE OwnAll' /\ Moves(c)
    <3>1. ~stolen /\ Opened(kn, fdt)
      BY <1>1, <2>11 DEF ConvInv, OwnAll
    <3>2. \A k \in kn : ~(k.filter \in RW /\ k.id = f)
      BY <2>1, <3>1 DEF Opened
    <3>3. /\ fdt'[f].owner = c /\ fdt'[f] # Free
          /\ \A x \in Fds \ {f} : fdt'[x] = fdt[x]
      BY <1>1, <2>1 DEF IInv, TypeOK, File
    <3>4. Apart(c, L)
      <4> SUFFICES ASSUME NEW x \in Fds, fdt[x].owner \notin {c, None}
                   PROVE  /\ fdt'[x] = fdt[x]
                          /\ \A k : k.id = x /\ k.filter # "PROC" => (k \in L <=> k \in kn)
        BY DEF Apart
      <4>1. x # f
        BY <2>1
      <4> QED  BY <2>5, <2>6, <3>3, <4>1 DEF Knote
    <3>5. ASSUME NEW d \in Live \ {c}
          PROVE  /\ Mine(d, cl[d], L, batch \ {e}, fdt') /\ clients[cl[d].sock] = d
                 /\ fdt[cl[d].sock].owner = d
                 /\ Wr(cl[d], d) \in L <=> Wr(cl[d], d) \in kn
      BY <3>1, <3>4, OthersMine
    <3>6. ASSUME NEW d \in Live \ {c} PROVE cl[d].sock # f
      BY <2>1, <3>5, Sentinels DEF Live
    <3>7. clients' = [clients EXCEPT ![f] = c]
      BY <1>1, <2>1, <2>7, <3>6 DEF ConvInv, Registered
    <3>8. clients'[f] = c /\ \A d \in Live \ {c} : clients'[cl[d].sock] = d
      BY <2>1, <3>5, <3>6, <3>7 DEF IInv, TypeOK
    <3>9. Opened(L, fdt')
      BY <2>5, <2>6, <3>1, <3>2, <3>3 DEF Opened, Knote, RW
    <3>10. Mine(c, n, L, batch \ {e}, fdt')
      <4>1. Wr(n, c) \notin kn \cup (batch \ {e}) /\ Wr(n, c) # Rd(n, c)
        BY <2>4, <2>6 DEF Knote
      <4>2. Rd(n, c) \in L /\ Wr(n, c) \notin L /\ Knote("TIMER", f, c) \in L
        BY <2>5, <2>6, <4>1 DEF Knote
      <4>3. \A k \in L : k.filter \in RW /\ k.id = f => k.udata = c
        BY <2>5, <2>6, <3>2 DEF Knote
      <4>4. PostReady(n, c, fdt')
        BY <2>2 DEF PostReady
      <4> QED  BY <2>2, <3>3, <4>1, <4>2, <4>3, <4>4 DEF Mine
    <3>11. OwnAll'
      <4>1. ASSUME NEW d \in Live'
            PROVE  Mine(d, cl'[d], kn', batch', fdt') /\ clients'[cl'[d].sock] = d
        <5>1. CASE d = c
          BY <2>2, <2>3, <3>8, <3>10, <5>1
        <5>2. CASE d # c
          <6>1. d \in Live \ {c} /\ cl'[d] = cl[d]
            BY <2>3, <2>7, <4>1, <5>2 DEF Live
          <6> QED  BY <2>3, <3>5, <3>8, <6>1
        <5> QED  BY <5>1, <5>2
      <4> QED  BY <2>3, <3>9, <4>1 DEF OwnAll
    <3>12. ASSUME NEW d \in Clients \ {c} PROVE Still(d)
      BY <2>3, <3>5 DEF Still, Answering, Wr, Live
    <3>13. ~Answering(c)'
      <4>1. Wr(n, c) \notin L
        BY <2>4, <2>5, <2>6 DEF Knote
      <4> QED  BY <2>2, <2>3, <2>6, <4>1 DEF Answering
    <3> QED  BY <1>1, <2>2, <2>3, <3>11, <3>12, <3>13 DEF Moves
  <2>12. Final(c)
    BY <2>7 DEF Final
  <2>13. ConvInv'
    BY <2>8, <2>9, <2>10, <2>11 DEF ConvInv
  <2> QED  BY <1>1, <2>3, <2>11, <2>12, <2>13 DEF Done, Up
<1>2. CASE mode' = "exited" /\ UNCHANGED stolen
  BY <1>2 DEF InLoop
<1> QED  BY <1>1, <1>2 DEF AcceptClient

\* A kevent call takes no knote but that of an exit, and shows no other.
LEMMA KeventDone ==
  ASSUME IInv, ConvInv, InLoop, Kevent
  PROVE  ConvInv' /\ \A d \in Clients : Still(d)
<1>1. /\ batch' \subseteq kn
      /\ kn' = {k \in kn : ~(k \in batch' /\ k.filter = "PROC")}
      /\ UNCHANGED <<mode, cl, clients, fdt, proc, stolen>>
  BY DEF Kevent, Batches, Ready, os
<1>2. \A k : k.filter # "PROC" => (k \in kn' <=> k \in kn)
  BY <1>1
<1>3. Live' = Live /\ \A k : k \in kn' => k \in kn
  BY <1>1 DEF Live
<1>4. NotOrphaned' /\ Registered' /\ \A d \in Live' : EndOK(cl'[d])
  BY <1>1, <1>3 DEF ConvInv, NotOrphaned, Registered
<1>5. ASSUME ~stolen' PROVE OwnAll'
  <2>1. Opened(kn', fdt') /\ \A d \in Live : clients'[cl'[d].sock] = d
    BY <1>1, <1>3, <1>5 DEF ConvInv, OwnAll, Opened
  <2>2. ASSUME NEW d \in Live PROVE Mine(d, cl[d], kn', batch', fdt)
    <3>1. Mine(d, cl[d], kn, batch, fdt)
      BY <1>1, <1>5 DEF ConvInv, OwnAll
    <3>2. /\ Knote("TIMER", cl[d].sock, d) \in kn' <=> Knote("TIMER", cl[d].sock, d) \in kn
          /\ Rd(cl[d], d) \in kn' <=> Rd(cl[d], d) \in kn
          /\ Wr(cl[d], d) \in kn' <=> Wr(cl[d], d) \in kn
      BY <1>2 DEF Knote, Rd, Wr
    <3> QED  BY <1>1, <1>3, <3>1, <3>2 DEF Mine
  <2> QED  BY <1>1, <1>3, <2>1, <2>2 DEF OwnAll
<1>6. ASSUME NEW d \in Clients PROVE Still(d)
  BY <1>1, <1>2 DEF Still, Answering, Knote
<1> QED  BY <1>4, <1>5, <1>6 DEF ConvInv

\* A child that exits is no longer running.
LEMMA ChildExitsDone ==
  ASSUME NEW p \in Pids, IInv, ConvInv, InLoop, ChildExits(p)
  PROVE  ConvInv' /\ \A d \in Clients : Still(d)
<1>1. PICK status \in Exited : proc' = [proc EXCEPT ![p] = status]
  BY DEF ChildExits
<1>2. UNCHANGED <<kn, batch, mode, cl, clients, fdt, stolen>>
  BY DEF ChildExits
<1>3. \A i \in Pids : proc'[i] = "running" => proc[i] = "running"
  BY <1>1 DEF IInv, TypeOK, Exited
<1>4. NotOrphaned'
  BY <1>2, <1>3 DEF ConvInv, NotOrphaned, Live
<1>5. Registered' /\ (\A d \in Live' : EndOK(cl'[d])) /\ (~stolen' => OwnAll')
  BY <1>2 DEF ConvInv, Registered, OwnAll, Live
<1> QED  BY <1>2, <1>4, <1>5 DEF ConvInv, Still, Answering

-----------------------------------------------------------------------------
(* The invariant and what follows from it. *)

\* What is to show of any step.
Kept ==
  /\ ConvInv'
  /\ stolen => stolen'
  /\ InLoop' /\ ~stolen => \A c \in Clients : Final(c)
  /\ Up' => (\A c \in Clients : Still(c)) \/ \E c \in Clients : Moves(c)

\* A handler of one client is such a step.
LEMMA DoneKept ==
  ASSUME NEW c \in Clients, Done(c)
  PROVE  Kept
<1>1. InLoop' /\ ~stolen => \A d \in Clients : Final(d)
  <2> SUFFICES ASSUME InLoop', ~stolen, NEW d \in Clients \ {c} PROVE Final(d)
    BY DEF Done
  <2> QED  BY DEF Done, Final
<1> QED  BY <1>1 DEF Kept, Done

\* Nor does an event of a freed client promise anything.
LEMMA HandleEventKept ==
  ASSUME NEW e \in batch, IInv, ConvInv, InLoop, HandleEvent(e)
  PROVE  Kept
<1>1. CASE e.udata = None /\ AcceptClient(e)
  <2>1. CASE \E c \in Clients : Done(c)
    BY <2>1, DoneKept
  <2>2. CASE ~InLoop' /\ UNCHANGED stolen
    BY <2>2 DEF Kept, ConvInv, Up
  <2> QED  BY <1>1, <2>1, <2>2, AcceptDone
<1>2. CASE e.udata # None
  <2> DEFINE c == e.udata
             r == cl[c]
  <2>1. c \in Clients
    BY <1>2 DEF IInv, LoopInv, Typed, Knotes
  <2>2. CASE Dangling(e, c, r)
    <3>1. Leave("undefined", c, r) /\ stolen' = stolen
      BY <2>2 DEF Dangling, os
    <3>2. Done(c)
      BY <3>1, LeaveDone
    <3> QED  BY <2>1, <3>2, DoneKept
  <2>3. CASE /\ r.life = "live"
             /\ \/ ReadSocket(e, c, r) \/ ReadPipe(e, c, r)
                \/ WriteSocket(e, c, r) \/ WritePipe(e, c, r)
                \/ EndProcess(e, c, r) \/ Timeout(e, c, r)
    <3>1. Done(c)
      BY <2>1, <2>3, ReadSocketDone, ReadPipeDone, WriteSocketDone, WritePipeDone,
         EndProcessDone, TimeoutDone
    <3> QED  BY <2>1, <3>1, DoneKept
  <2> QED  BY <1>2, <2>2, <2>3 DEF HandleEvent
<1> QED  BY <1>1, <1>2 DEF HandleEvent

\* A step of anybody that moves no connection.
LEMMA StillKept ==
  ASSUME ConvInv', stolen => stolen', \A c \in Clients : Still(c)
  PROVE  Kept
<1>1. \A c \in Clients : Final(c)
  BY DEF Still, Final
<1> QED  BY <1>1 DEF Kept

\* Every step of the program, the kernel and the children.
LEMMA NextKept == IInv /\ ConvInv /\ [Next]_vars => Kept
<1> SUFFICES ASSUME IInv, ConvInv, [Next]_vars PROVE Kept
  OBVIOUS
<1>1. CASE InLoop /\ Kevent
  <2>1. stolen' = stolen
    BY <1>1 DEF Kevent, os
  <2> QED  BY <1>1, <2>1, KeventDone, StillKept
<1>2. ASSUME InLoop, NEW e \in batch, HandleEvent(e) PROVE Kept
  BY <1>2, HandleEventKept
<1>3. ASSUME InLoop, NEW p \in Pids, ChildExits(p) PROVE Kept
  <2>1. stolen' = stolen
    BY <1>3 DEF ChildExits
  <2> QED  BY <1>3, <2>1, ChildExitsDone, StillKept
<1>4. CASE UNCHANGED vars
  <2>1. UNCHANGED <<kn, batch, mode, cl, clients, fdt, proc, stolen>>
    BY <1>4 DEF vars
  <2>2. ConvInv' /\ \A c \in Clients : Still(c)
    BY <2>1 DEF ConvInv, InLoop, NotOrphaned, Registered, OwnAll, Live, Still, Answering
  <2> QED  BY <2>1, <2>2, StillKept
<1> QED  BY <1>1, <1>2, <1>3, <1>4 DEF Next, InLoop

\* Nobody is connected at first.
LEMMA ConvInit == Init => ConvInv
<1> SUFFICES ASSUME Init PROVE ConvInv
  OBVIOUS
<1>1. \A c \in Clients : cl[c].life = "unborn"
  BY DEF Init, NewClient
<1>2. Live = {} /\ (\A p \in Pids : proc[p] # "running") /\ (\A f \in Fds : clients[f] = None)
  BY <1>1 DEF Init, Live
<1>3. Opened(kn, fdt)
  <2>1. kn = {Knote("READ", Listener, None)} /\ Knote("READ", Listener, None).id = Listener
    BY DEF Init, Knote
  <2> QED  BY <2>1, Sentinels DEF Opened
<1> QED  BY <1>2, <1>3 DEF ConvInv, NotOrphaned, Registered, OwnAll

\* Both inductive invariants hold of every behaviour.
THEOREM ConvInvariance == Spec => [](IInv /\ ConvInv)
<1>1. IInv /\ ConvInv /\ [Next]_vars => ConvInv'
  BY NextKept DEF Kept
<1> QED  BY <1>1, ConvInit, Invariance, PTL DEF Spec

\* Each open connection awaits a request or sends an answer: one event of its socket.
THEOREM OneDirection == Spec => []HalfDuplex
<1>1. ASSUME ConvInv, InLoop, ~stolen, NEW c \in Live
      PROVE  (Knote("READ", cl[c].sock, c) \in kn) # (Knote("WRITE", cl[c].sock, c) \in kn)
  <2>1. Rd(cl[c], c) \in kn <=> Wr(cl[c], c) \notin kn
    BY <1>1 DEF ConvInv, OwnAll, Mine
  <2> QED  BY <2>1 DEF Rd, Wr
<1>2. ConvInv => HalfDuplex
  BY <1>1 DEF HalfDuplex
<1> QED  BY <1>2, ConvInvariance, PTL

\* Each open connection has its timer.
THEOREM AlwaysTimed == Spec => []TimerArmed
<1>1. ConvInv => TimerArmed
  BY DEF TimerArmed, ConvInv, OwnAll, Mine
<1> QED  BY <1>1, ConvInvariance, PTL

\* _clients holds the open connections and no others.
THEOREM RegistryExact == Spec => []RegistryLive
<1>1. ConvInv => RegistryLive
  BY DEF RegistryLive, ConvInv, Registered, OwnAll
<1> QED  BY <1>1, ConvInvariance, PTL

\* A running child is the child of an open connection.
THEOREM ChildrenAreOwned == Spec => []NoOrphanChild
<1>1. ConvInv => NoOrphanChild
  BY DEF NoOrphanChild, ConvInv, NotOrphaned
<1> QED  BY <1>1, ConvInvariance, PTL

\* From the registration of WRITE until it is deregistered, or the connection closed, the
\* status of an answer does not change.
THEOREM StatusStays == Spec => AnswerIsFinal
<1>1. ASSUME Kept, NEW c \in Live, Knote("WRITE", cl[c].sock, c) \in kn,
             cl'[c].code # cl[c].code, mode' = "loop", ~stolen
      PROVE  cl'[c].life = "freed" \/ Knote("WRITE", cl[c].sock, c) \notin kn'
  BY <1>1 DEF Kept, Final, Answering, Live, InLoop
<1>2. IInv /\ ConvInv /\ [Next]_vars =>
        [\A c \in Live :
           /\ Knote("WRITE", cl[c].sock, c) \in kn
           /\ cl'[c].code # cl[c].code
           /\ mode' = "loop" /\ ~stolen
           => cl'[c].life = "freed" \/ Knote("WRITE", cl[c].sock, c) \notin kn']_vars
  BY <1>1, NextKept
<1> QED  BY <1>2, ConvInvariance, PTL DEF Spec, AnswerIsFinal

-----------------------------------------------------------------------------
(* EventLoop implements Connection. *)

\* What a peer sees of a connection while the server is up.
Seen(life, answering, status, stg, sts) ==
  /\ life = "unborn" => stg = "unborn" /\ sts = 200
  /\ life = "freed" => stg = "closed" /\ sts = 200
  /\ life = "live" /\ answering => stg = "answering" /\ sts = status
  /\ life = "live" /\ ~answering => stg = "awaiting" /\ sts = 200

\* Stage and Status, before and after a step.
LEMMA StageSeen ==
  ASSUME NEW c \in Clients
  PROVE  /\ Up => Seen(cl[c].life, Answering(c), cl[c].code, Stage(c), Status(c))
         /\ Up' => Seen(cl'[c].life, Answering(c)', cl'[c].code, Stage(c)', Status(c)')
         /\ ~Up => Stage(c) = "lost" /\ Status(c) = 200
         /\ ~Up' => Stage(c)' = "lost" /\ Status(c)' = 200
<1>1. Up => Seen(cl[c].life, Answering(c), cl[c].code, Stage(c), Status(c))
  BY DEF Seen, Stage, Status
<1>2. Up' => Seen(cl'[c].life, Answering(c)', cl'[c].code, Stage(c)', Status(c)')
  BY DEF Seen, Stage, Status
<1>3. ~Up => Stage(c) = "lost" /\ Status(c) = 200
  BY DEF Stage, Status
<1>4. ~Up' => Stage(c)' = "lost" /\ Status(c)' = 200
  BY DEF Stage, Status
<1> QED  BY <1>1, <1>2, <1>3, <1>4

\* A connection that is still shows its peer nothing.
LEMMA StillSeen ==
  ASSUME NEW c \in Clients, IInv, Up, Up', Still(c)
  PROVE  Stage(c)' = Stage(c) /\ Status(c)' = Status(c)
<1>1. cl[c].life \in {"unborn", "live", "freed"}
  BY DEF IInv, TypeOK, Client
<1> QED  BY <1>1, StageSeen DEF Still, Seen, Live

\* A connection that moves does what Connection lets it do.
LEMMA MovesConverse ==
  ASSUME NEW c \in Clients, IInv, IInv', Up, Up', Moves(c)
  PROVE  Conversation!Converse(c) \/ UNCHANGED Conversation!vars
<1> DEFINE stage == [d \in Clients |-> Stage(d)]
           code  == [d \in Clients |-> Status(d)]
           next  == [d \in Clients |-> Stage(d)']
           after == [d \in Clients |-> Status(d)']
<1>1. \A d \in Clients \ {c} : next[d] = stage[d] /\ after[d] = code[d]
  BY StillSeen DEF Moves
<1>2. /\ Seen(cl[c].life, Answering(c), cl[c].code, stage[c], code[c])
      /\ Seen(cl'[c].life, Answering(c)', cl'[c].code, next[c], after[c])
  BY StageSeen
<1>3. cl'[c].code \in {200} \cup Errors /\ cl[c].life \in {"unborn", "live", "freed"}
  BY DEF IInv, TypeOK, Client
<1>4. /\ next = [stage EXCEPT ![c] = next[c]]
      /\ after = [code EXCEPT ![c] = after[c]]
  BY <1>1
<1>5. UNCHANGED Up
  OBVIOUS
<1>6. CASE Still(c)
  <2>1. next = stage /\ after = code
    BY <1>1, <1>6, StillSeen
  <2> QED  BY <1>5, <2>1 DEF Conversation!vars
<1>7. CASE cl[c].life = "unborn" /\ cl'[c].life = "live" /\ ~Answering(c)'
  <2>1. stage[c] = "unborn" /\ next[c] = "awaiting" /\ after[c] = code[c]
    BY <1>2, <1>7 DEF Seen
  <2>2. after = code
    BY <1>1, <2>1
  <2> QED  BY <1>4, <1>5, <2>1, <2>2 DEF Conversation!Converse, Conversation!Accept
<1>8. CASE cl[c].life = "live" /\ cl'[c].life = "freed"
  <2>1. stage[c] \in {"awaiting", "answering"} /\ next[c] = "closed" /\ after[c] = 200
    BY <1>2, <1>8 DEF Seen
  <2> QED  BY <1>4, <1>5, <2>1 DEF Conversation!Converse, Conversation!Close
<1>9. CASE cl[c].life = "live" /\ cl'[c].life = "live" /\ ~Answering(c) /\ Answering(c)'
  <2>1. stage[c] = "awaiting" /\ next[c] = "answering" /\ after[c] = cl'[c].code
    BY <1>2, <1>9 DEF Seen
  <2> QED  BY <1>3, <1>4, <1>5, <2>1 DEF Conversation!Converse, Conversation!Answer
<1>10. CASE /\ cl[c].life = "live" /\ cl'[c].life = "live"
            /\ Answering(c) /\ ~Answering(c)' /\ cl[c].code # 405
  <2>1. /\ stage[c] = "answering" /\ code[c] # 405
        /\ next[c] = "awaiting" /\ after[c] = 200
    BY <1>2, <1>10 DEF Seen
  <2> QED  BY <1>4, <1>5, <2>1 DEF Conversation!Converse, Conversation!Finish
<1> QED  BY <1>6, <1>7, <1>8, <1>9, <1>10 DEF Moves

\* Every step is a step of Connection or shows the peers nothing.
LEMMA NextConverse ==
  ASSUME IInv, IInv', Kept, [Next]_vars
  PROVE  [Conversation!Next]_(Conversation!vars)
<1>1. ~Up => ~Up'
  <2>1. CASE stolen
    BY <2>1 DEF Kept, Up
  <2>2. CASE ~InLoop
    <3>1. UNCHANGED vars
      BY <2>2 DEF Next, InLoop
    <3> QED  BY <2>2, <3>1 DEF vars, Up, InLoop
  <2> QED  BY <2>1, <2>2 DEF Up
<1>2. CASE ~Up
  <2>1. \A c \in Clients : Stage(c)' = Stage(c) /\ Status(c)' = Status(c)
    BY <1>1, <1>2, StageSeen
  <2>2. /\ [c \in Clients |-> Stage(c)'] = [c \in Clients |-> Stage(c)]
        /\ [c \in Clients |-> Status(c)'] = [c \in Clients |-> Status(c)]
    BY <2>1
  <2>3. UNCHANGED Up
    BY <1>1, <1>2 DEF Up, InLoop
  <2> QED  BY <2>2, <2>3 DEF Conversation!vars
<1>3. CASE Up /\ ~Up'
  <2>1. \A c \in Clients : Stage(c)' = "lost" /\ Status(c)' = 200
    BY <1>3, StageSeen
  <2> QED  BY <1>3, <2>1 DEF Conversation!Next, Conversation!Lose
<1>4. CASE Up /\ Up'
  <2>1. CASE \A c \in Clients : Still(c)
    <3>1. \A c \in Clients : Stage(c)' = Stage(c) /\ Status(c)' = Status(c)
      BY <1>4, <2>1, StillSeen
    <3> QED  BY <1>4, <3>1 DEF Conversation!vars
  <2>2. CASE \E c \in Clients : Moves(c)
    BY <1>4, <2>2, MovesConverse DEF Conversation!Next
  <2> QED  BY <1>4, <2>1, <2>2 DEF Kept
<1> QED  BY <1>2, <1>3, <1>4

\* EventLoop implements Connection, for any number of connections: towards each peer
\* requests and answers alternate until the connection is closed.
THEOREM Implements == Spec => Converses
<1>1. Init => Conversation!Init
  <2> SUFFICES ASSUME Init PROVE Conversation!Init
    OBVIOUS
  <2>1. Up
    BY DEF Init, Up, InLoop
  <2>2. \A c \in Clients : cl[c].life = "unborn"
    BY DEF Init, NewClient
  <2>3. \A c \in Clients : Stage(c) = "unborn" /\ Status(c) = 200
    BY <2>1, <2>2, StageSeen DEF Seen
  <2> QED  BY <2>1, <2>3 DEF Conversation!Init
<1>2. IInv /\ ConvInv /\ [Next]_vars => [Conversation!Next]_(Conversation!vars)
  BY NextInv, NextKept, NextConverse
<1> QED  BY <1>1, <1>2, ConvInvariance, PTL DEF Spec, Converses, Conversation!Spec

-----------------------------------------------------------------------------
(* EventLoop watches the output of every script it waits for.                *)

\* A client c with the record r that waits for a script has a pipe of its own to
\* read from, in the descriptors F, and its knote in K.
Heeded(c, r, K, F) ==
  r.pid \in Pids /\ r.code < 400 /\ ~r.resp =>
    /\ r.rfd \in Fds /\ F[r.rfd].kind = "out" /\ F[r.rfd].owner = c
    /\ Knote("READ", r.rfd, c) \in K

\* The fourth inductive invariant.
WatchInv == InLoop /\ ~stolen => \A c \in Live : Heeded(c, cl[c], kn, fdt)

\* A handler for c leaves the pipes of other clients alone, and their knotes.
Others(c) == {x \in Fds : fdt[x].kind = "out" /\ fdt[x].owner # c}
Untouched(c) == \A x \in Others(c) : fdt'[x] = fdt[x]
PipesLeft(c, K) == \A k \in kn : k.filter = "READ" /\ k.id \in Others(c) => k \in K

\* Where a handler of e for c starts.
Begun(e, c) ==
  /\ IInv /\ ConvInv /\ InLoop /\ ~stolen /\ WatchInv
  /\ e \in batch /\ c \in Live /\ e.udata = c

\* A handler that returns consistent copies.
LEMMA ReturnWatched ==
  ASSUME NEW e, NEW c, Begun(e, c), NEW r, NEW K, Untouched(c), PipesLeft(c, K),
         Heeded(c, r, K, fdt'), Return(e, c, r, K)
  PROVE  WatchInv'
<1>1. kn' = K /\ cl'[c] = r /\ \A d \in Clients \ {c} : cl'[d] = cl[d]
  BY DEF Return, Begun, IInv, TypeOK, Live
<1>2. ASSUME NEW d \in Live', d # c PROVE Heeded(d, cl'[d], kn', fdt')
  <2>1. cl'[d] = cl[d] /\ Heeded(d, cl[d], kn, fdt)
    BY <1>1, <1>2 DEF Live, Begun, WatchInv
  <2>2. ASSUME NEW x \in Fds, fdt[x].kind = "out", fdt[x].owner = d, Knote("READ", x, d) \in kn
        PROVE  fdt'[x] = fdt[x] /\ Knote("READ", x, d) \in kn'
    <3>1. x \in Others(c)
      BY <1>2, <2>2 DEF Others
    <3>2. Knote("READ", x, d) \in K
      BY <2>2, <3>1 DEF PipesLeft, Knote
    <3> QED  BY <1>1, <3>1, <3>2 DEF Untouched
  <2> QED  BY <2>1, <2>2 DEF Heeded
<1> QED  BY <1>1, <1>2 DEF WatchInv

\* One that leaves the loop.
LEMMA LeaveWatched ==
  ASSUME NEW m, NEW c, NEW r, m # "loop", Leave(m, c, r)
  PROVE  WatchInv'
BY DEF Leave, WatchInv, InLoop

\* New knotes for writing, and a socket's READ: no pipe of another is concerned.
LEMMA SwitchSpares ==
  ASSUME NEW e, NEW c, Begun(e, c), NEW r, r.sock = cl[c].sock, NEW K, PipesLeft(c, K)
  PROVE  PipesLeft(c, ToWrite(c, r, K))
<1>1. r.sock \notin Others(c)
  BY DEF Begun, ConvInv, OwnAll, Mine, Others
<1>2. \A k \in K : k.filter = "READ" /\ k.id # r.sock => k \in ToWrite(c, r, K)
  BY DEF ToWrite, Add, Del
<1> QED  BY <1>1, <1>2 DEF PipesLeft

\* An error, and an answer, after which no output is waited for.
LEMMA ThrowWatched ==
  ASSUME NEW e, NEW c, Begun(e, c), NEW r \in Client, r.sock = cl[c].sock,
         NEW K, PipesLeft(c, K), Untouched(c)
  PROVE  /\ \A n \in Errors : Throw(e, c, r, K, n) => WatchInv'
         /\ r.resp \/ r.pid \notin Pids => (StartReply(e, c, r, K) => WatchInv')
<1> DEFINE L == ToWrite(c, r, K)
<1>1. PipesLeft(c, L)
  BY SwitchSpares
<1>2. \A f : \A n \in Errors : Heeded(c, [r EXCEPT !.code = n, !.resp = f], L, fdt')
  BY DEF Heeded, Client, Errors
<1> HIDE DEF L
<1>3. ASSUME NEW n \in Errors, Throw(e, c, r, K, n) PROVE WatchInv'
  <2>1. CASE CanSwitch(K, r)
    <3>1. PICK f : Return(e, c, [r EXCEPT !.code = n, !.resp = f], L)
      BY <1>3, <2>1 DEF Throw, L
    <3> QED  BY <1>1, <1>2, <3>1, ReturnWatched
  <2>2. CASE ~CanSwitch(K, r)
    BY <1>3, <2>2, LeaveWatched DEF Throw
  <2> QED  BY <2>1, <2>2
<1>4. ASSUME r.resp \/ r.pid \notin Pids, StartReply(e, c, r, K) PROVE WatchInv'
  <2>1. CASE CanSwitch(K, r)
    <3>1. Heeded(c, r, L, fdt')
      BY <1>4 DEF Heeded
    <3> QED  BY <1>1, <1>4, <2>1, <3>1, ReturnWatched DEF StartReply, L
  <2>2. CASE ~CanSwitch(K, r)
    BY <1>3, <1>4, <2>2 DEF StartReply, Errors
  <2> QED  BY <2>1, <2>2
<1> QED  BY <1>3, <1>4

\* Copies that differ in nothing a pipe depends on.
Like(q, r) ==
  /\ q \in Client /\ q.sock = r.sock
  /\ q.pid = r.pid /\ q.code = r.code /\ q.resp = r.resp /\ q.rfd = r.rfd

LEMMA LikeHeeded ==
  ASSUME NEW q, NEW r, Like(q, r), NEW c, NEW K, Heeded(c, r, K, fdt')
  PROVE  Heeded(c, q, K, fdt')
BY DEF Like, Heeded

LEMMA DataLike ==
  ASSUME NEW r \in Client
  PROVE  /\ \A b \in BOOLEAN : Like([r EXCEPT !.buf = b], r)
         /\ \A b \in BOOLEAN : Like([r EXCEPT !.unsent = b], r)
         /\ \A b \in BOOLEAN : Like([r EXCEPT !.ended = b], r)
         /\ \A s \in Sizes : Like([r EXCEPT !.body = s], r)
         /\ Like([r EXCEPT !.st = "CREATE"], r)
         /\ Like([r EXCEPT !.st = "DONE"], r)
         /\ \A m \in Methods, ch \in Chunkings, st \in {"CREATE", "DONE"} :
              Like([[r EXCEPT !.method = m, !.chunked = ch] EXCEPT !.st = st], r)
<1>1. /\ \A b \in BOOLEAN : Like([r EXCEPT !.buf = b], r)
      /\ \A b \in BOOLEAN : Like([r EXCEPT !.unsent = b], r)
      /\ \A b \in BOOLEAN : Like([r EXCEPT !.ended = b], r)
  BY DEF Like, Client
<1>2. \A s \in Sizes : Like([r EXCEPT !.body = s], r)
  BY DEF Like, Client
<1>3. Like([r EXCEPT !.st = "CREATE"], r) /\ Like([r EXCEPT !.st = "DONE"], r)
  BY DEF Like, Client
<1>4. ASSUME NEW m \in Methods, NEW ch \in Chunkings, NEW st \in {"CREATE", "DONE"}
      PROVE  Like([[r EXCEPT !.method = m, !.chunked = ch] EXCEPT !.st = st], r)
  <2> DEFINE q == [[r EXCEPT !.method = m, !.chunked = ch] EXCEPT !.st = st]
  <2>1. q \in Client
    BY AskedType
  <2>2. /\ q.sock = r.sock /\ q.pid = r.pid /\ q.code = r.code /\ q.resp = r.resp
        /\ q.rfd = r.rfd
    BY DEF Client
  <2> QED  BY <2>1, <2>2 DEF Like
<1> QED  BY <1>1, <1>2, <1>3, <1>4

\* handleResponse.
LEMMA HandleResponseWatched ==
  ASSUME NEW e, NEW c, Begun(e, c), NEW r \in Client, r.sock = cl[c].sock,
         NEW K, PipesLeft(c, K), Untouched(c), Heeded(c, r, K, fdt'), HandleResponse(e, c, r, K)
  PROVE  WatchInv'
<1>1. ASSUME NEW q, NEW s, s.sock = cl[c].sock, Like(q, s), Heeded(c, s, K, fdt')
      PROVE  /\ q \in Client /\ q.sock = cl[c].sock /\ Heeded(c, q, K, fdt')
             /\ \A n \in Errors : Throw(e, c, q, K, n) => WatchInv'
             /\ Return(e, c, q, K) => WatchInv'
  <2>1. q \in Client /\ q.sock = cl[c].sock /\ Heeded(c, q, K, fdt')
    BY <1>1, LikeHeeded DEF Like
  <2> QED  BY <2>1, ThrowWatched, ReturnWatched
<1>2. CASE r.chunked /\ ParseChunked(e, c, r, K)
  <2>1. PICK some \in {r.unsent, TRUE} :
          \/ Throw(e, c, [r EXCEPT !.unsent = some], K, 400)
          \/ \E last \in {r.ended, TRUE} :
               Return(e, c, [[r EXCEPT !.unsent = some] EXCEPT !.ended = last], K)
    BY <1>2 DEF ParseChunked
  <2> DEFINE q == [r EXCEPT !.unsent = some]
  <2>2. some \in BOOLEAN /\ r.ended \in BOOLEAN
    BY <2>1 DEF Client
  <2>3. Like(q, r)
    BY <2>2, DataLike
  <2> HIDE DEF q
  <2>4. q \in Client /\ q.sock = cl[c].sock /\ Heeded(c, q, K, fdt')
    BY <1>1, <2>3
  <2>5. CASE Throw(e, c, q, K, 400)
    BY <1>1, <2>3, <2>5 DEF Errors
  <2>6. ASSUME NEW last \in {r.ended, TRUE}, Return(e, c, [q EXCEPT !.ended = last], K)
        PROVE  WatchInv'
    <3>1. Like([q EXCEPT !.ended = last], q)
      BY <2>2, <2>4, DataLike
    <3> QED  BY <1>1, <2>4, <2>6, <3>1
  <2> QED  BY <2>1, <2>5, <2>6 DEF q
<1>3. ASSUME NEW size \in Longer(r.body), NEW q, q = [r EXCEPT !.body = size],
             \/ Return(e, c, q, K) \/ HandleGet(e, c, q, K)
             \/ HandleDelete(e, c, q, K) \/ HandlePost(e, c, q, K)
      PROVE  WatchInv'
  <2>1. Like(q, r)
    BY <1>3, DataLike DEF Longer, Sizes
  <2>2. q \in Client /\ q.sock = cl[c].sock /\ Heeded(c, q, K, fdt')
    BY <1>1, <2>1
  <2> DEFINE t == [q EXCEPT !.buf = TRUE, !.resp = TRUE]
  <2>3. t \in Client /\ t.sock = cl[c].sock /\ t.resp
    <3>1. Same(t, q)
      BY <2>2, DataSame DEF Longer, Sizes
    <3>2. t.resp
      BY <2>2 DEF Client
    <3> QED  BY <2>2, <3>1, <3>2 DEF Same
  <2>4. CASE Return(e, c, q, K)
    BY <1>1, <2>1, <2>4
  <2>5. CASE HandleGet(e, c, q, K)
    <3>1. Leave("undefined", c, q) \/ Throw(e, c, q, K, 400) \/ StartReply(e, c, t, K)
      BY <2>5 DEF HandleGet
    <3> HIDE DEF t
    <3> QED  BY <2>2, <2>3, <3>1, LeaveWatched, ThrowWatched DEF Errors
  <2>6. CASE HandleDelete(e, c, q, K)
    <3>1. Throw(e, c, t, K, 400) \/ StartReply(e, c, t, K)
      BY <2>6 DEF HandleDelete
    <3> HIDE DEF t
    <3> QED  BY <2>3, <3>1, ThrowWatched DEF Errors
  <2>7. CASE HandlePost(e, c, q, K)
    <3>1. PICK some \in BOOLEAN :
            LET s == [q EXCEPT !.unsent = some]
            IN  \/ Throw(e, c, s, K, 400)
                \/ fdt'[s.wfd] = Free /\ Throw(e, c, s, K, 500)
                \/ /\ fdt'[s.wfd] # Free
                   /\ Return(e, c, [s EXCEPT !.ended = TRUE], Add(K, "WRITE", s.wfd, c))
      BY <2>7, Zenon DEF HandlePost
    <3> DEFINE s == [q EXCEPT !.unsent = some]
    <3>2. Like(s, q)
      BY <2>2, DataLike
    <3> HIDE DEF s
    <3>3. s \in Client /\ s.sock = cl[c].sock /\ Heeded(c, s, K, fdt')
      BY <1>1, <2>2, <3>2
    <3>4. CASE Throw(e, c, s, K, 400) \/ Throw(e, c, s, K, 500)
      BY <1>1, <2>2, <3>2, <3>4 DEF Errors
    <3>5. CASE Return(e, c, [s EXCEPT !.ended = TRUE], Add(K, "WRITE", s.wfd, c))
      <4> DEFINE u == [s EXCEPT !.ended = TRUE]
                 L == Add(K, "WRITE", s.wfd, c)
      <4>1. Heeded(c, u, K, fdt')
        <5>1. Like(u, s)
          BY <3>3, DataLike
        <5> QED  BY <3>3, <5>1, LikeHeeded
      <4>2. \A k \in K : k.filter = "READ" => k \in L
        BY DEF Add, Del
      <4> HIDE DEF u, L
      <4>3. PipesLeft(c, L) /\ Heeded(c, u, L, fdt')
        BY <4>1, <4>2 DEF PipesLeft, Heeded, Knote
      <4> QED  BY <3>5, <4>3, ReturnWatched DEF u, L
    <3> QED  BY <3>1, <3>4, <3>5, Zenon DEF s
  <2> QED  BY <1>3, <2>4, <2>5, <2>6, <2>7
<1>4. CASE /\ ~r.chunked
           /\ \E size \in Longer(r.body) :
                LET q == [r EXCEPT !.body = size]
                IN \/ ~Complete(size) /\ Return(e, c, q, K)
                   \/ /\ Complete(size)
                      /\ \/ q.method = "GET"    /\ HandleGet(e, c, q, K)
                         \/ q.method = "DELETE" /\ HandleDelete(e, c, q, K)
                         \/ q.method = "POST"   /\ HandlePost(e, c, q, K)
  BY <1>3, <1>4
<1> QED  BY <1>2, <1>4 DEF HandleResponse

\* A script that is started has its output watched from the start.
LEMMA SpawnWatched ==
  ASSUME NEW e, NEW c, Begun(e, c), NEW r \in Client, r.sock = cl[c].sock,
         NEW K, PipesLeft(c, K), Spawn(e, c, r, K)
  PROVE  WatchInv'
<1>1. FreeFds \cap Others(c) = {} /\ None \notin Others(c) /\ None \notin Fds
  BY Sentinels DEF FreeFds, Others, Free
<1>2. CASE PipeFails(e, c, r, K)
  <2>1. PICK w \in FreeFds \cup {None} :
          /\ fdt' = [f \in Fds |-> IF f = w THEN File("in", c, Failed) ELSE fdt[f]]
          /\ Throw(e, c, IF w = None THEN r ELSE [r EXCEPT !.wfd = w], K, 500)
    BY <1>2 DEF PipeFails
  <2> DEFINE q == IF w = None THEN r ELSE [r EXCEPT !.wfd = w]
  <2>2. q \in Client /\ q.sock = cl[c].sock
    <3>1. w # None => [r EXCEPT !.wfd = w] \in Client /\ [r EXCEPT !.wfd = w].sock = r.sock
      BY DEF FreeFds, Client
    <3> QED  BY <3>1
  <2>3. Untouched(c)
    BY <1>1, <2>1 DEF Untouched, Others
  <2>4. Throw(e, c, q, K, 500)
    BY <2>1
  <2> HIDE DEF q
  <2> QED  BY <2>2, <2>3, <2>4, ThrowWatched DEF Errors
<1>3. ASSUME NEW w \in FreeFds \cup {None}, NEW o \in FreeFds \ {w}, NEW p \in ForkResults,
             Forked(e, c, r, K, w, o, p)
      PROVE  WatchInv'
  <2> DEFINE q == [r EXCEPT !.wfd = IF w = None THEN r.wfd ELSE w, !.rfd = o, !.pid = p]
             u == [q EXCEPT !.st = "DONE"]
             W == Watched(c, q, K)
  <2>1. /\ fdt' = [f \in Fds |-> CASE f = w -> File("in", c, p)
                                   [] f = o -> File("out", c, p)
                                   [] OTHER -> fdt[f]]
        /\ \/ \E n \in Errors : Throw(e, c, q, K, n)
           \/ Return(e, c, q, W)
           \/ HandleResponse(e, c, u, W)
    BY <1>3 DEF Forked, Errors
  <2>2. q \in Client /\ q.sock = cl[c].sock /\ q.rfd = o
    <3> DEFINE v == IF w = None THEN r.wfd ELSE w
    <3>1. v \in Fds \cup {None} /\ o \in Fds /\ p \in Pids \cup {Failed}
      BY DEF FreeFds, ForkResults, Client
    <3> HIDE DEF v
    <3>2. Equipped([r EXCEPT !.wfd = v, !.rfd = o, !.pid = p], r, v, o, p)
      BY <3>1, ForkedType
    <3> QED  BY <3>2 DEF Equipped, v
  <2>3. Untouched(c)
    BY <1>1, <2>1 DEF Untouched, Others
  <2>4. fdt'[o].kind = "out" /\ fdt'[o].owner = c /\ o \in Fds
    BY <2>1 DEF File, FreeFds
  <2>5. \A k : k.filter = "READ" => (k \in W <=> (k \in K /\ k.id # o) \/ k = Knote("READ", o, c))
    BY <2>2 DEF Watched, Add, Del, Knote
  <2>6. PipesLeft(c, W)
    <3> HIDE DEF W
    <3> QED  BY <1>1, <2>5 DEF PipesLeft
  <2>7. Heeded(c, q, W, fdt')
    <3>1. Knote("READ", o, c).filter = "READ"
      BY DEF Knote
    <3> HIDE DEF W, q
    <3> QED  BY <2>2, <2>4, <2>5, <3>1 DEF Heeded
  <2> HIDE DEF W, q
  <2>8. Like(u, q)
    BY <2>2, DataLike
  <2>9. u \in Client /\ u.sock = cl[c].sock /\ Heeded(c, u, W, fdt')
    BY <2>2, <2>7, <2>8, LikeHeeded DEF Like
  <2> HIDE DEF u
  <2>10. ASSUME NEW n \in Errors, Throw(e, c, q, K, n) PROVE WatchInv'
    BY <2>2, <2>3, <2>10, ThrowWatched
  <2>11. CASE Return(e, c, q, W)
    BY <2>3, <2>6, <2>7, <2>11, ReturnWatched
  <2>12. CASE HandleResponse(e, c, u, W)
    BY <2>3, <2>6, <2>9, <2>12, HandleResponseWatched
  <2> QED  BY <2>1, <2>10, <2>11, <2>12
<1> QED  BY <1>2, <1>3 DEF Spawn, Forks

\* A request.
LEMMA HandleRequestWatched ==
  ASSUME NEW e, NEW c, Begun(e, c), NEW r \in Client, r.sock = cl[c].sock,
         NEW K, PipesLeft(c, K), Heeded(c, r, K, fdt), HandleRequest(e, c, r, K)
  PROVE  WatchInv'
<1>1. UNCHANGED os => Untouched(c) /\ \A q : Heeded(c, q, K, fdt) => Heeded(c, q, K, fdt')
  BY DEF os, Untouched
<1>2. ASSUME NEW s, Like(s, r)
      PROVE  s \in Client /\ s.sock = cl[c].sock /\ Heeded(c, s, K, fdt)
  BY <1>2 DEF Like, Heeded
<1>3. ASSUME NEW s \in Client, Like(s, r), Respond(e, c, s, K) PROVE WatchInv'
  <2>1. CASE UNCHANGED os /\ HandleResponse(e, c, s, K)
    BY <1>1, <1>2, <1>3, <2>1, HandleResponseWatched
  <2>2. ASSUME NEW size \in Longer(s.body), Spawn(e, c, [s EXCEPT !.body = size], K)
        PROVE  WatchInv'
    <3> DEFINE q == [s EXCEPT !.body = size]
    <3>1. Like(q, s)
      BY DataLike DEF Longer, Sizes
    <3>2. q \in Client /\ q.sock = cl[c].sock
      BY <1>2, <1>3, <3>1 DEF Like
    <3> HIDE DEF q
    <3> QED  BY <2>2, <3>2, SpawnWatched DEF q
  <2> QED  BY <1>3, <2>1, <2>2 DEF Respond
<1>4. CASE /\ r.st = "READY"
           /\ \/ Return(e, c, r, K)
              \/ "field" \in Faults /\ Leave("undefined", c, r)
              \/ \E errnum \in {400, 405} : Throw(e, c, r, K, errnum)
           /\ UNCHANGED os
  BY <1>1, <1>4, ReturnWatched, LeaveWatched, ThrowWatched DEF Errors
<1>5. CASE /\ r.st # "DONE"
           /\ \E errnum \in {400, 405} : Throw(e, c, [r EXCEPT !.st = "CREATE"], K, errnum)
           /\ UNCHANGED os
  <2> DEFINE q == [r EXCEPT !.st = "CREATE"]
  <2>1. q \in Client /\ q.sock = cl[c].sock
    BY <1>2, DataLike
  <2>2. \E n \in Errors : Throw(e, c, q, K, n)
    BY <1>5 DEF Errors
  <2> HIDE DEF q
  <2> QED  BY <1>1, <1>5, <2>1, <2>2, ThrowWatched
<1>6. CASE /\ r.st # "DONE"
           /\ \E m \in Methods, ch \in Chunkings :
                LET s == [r EXCEPT !.method = m, !.chunked = ch]
                IN \/ m = "POST" /\ Spawn(e, c, [s EXCEPT !.st = "CREATE"], K)
                   \/ m # "POST" /\ Respond(e, c, [s EXCEPT !.st = "DONE"], K)
  <2>1. PICK m \in Methods, ch \in Chunkings :
          \/ Spawn(e, c, [[r EXCEPT !.method = m, !.chunked = ch] EXCEPT !.st = "CREATE"], K)
          \/ Respond(e, c, [[r EXCEPT !.method = m, !.chunked = ch] EXCEPT !.st = "DONE"], K)
    BY <1>6
  <2> DEFINE q1 == [[r EXCEPT !.method = m, !.chunked = ch] EXCEPT !.st = "CREATE"]
             q2 == [[r EXCEPT !.method = m, !.chunked = ch] EXCEPT !.st = "DONE"]
  <2>2. Like(q1, r) /\ Like(q2, r)
    BY DataLike
  <2> HIDE DEF q1, q2
  <2>3. Spawn(e, c, q1, K) \/ Respond(e, c, q2, K)
    BY <2>1 DEF q1, q2
  <2> QED  BY <1>2, <1>3, <2>2, <2>3, SpawnWatched
<1>7. CASE r.st = "DONE" /\ Respond(e, c, r, K)
  BY <1>3, <1>7 DEF Like
<1> QED  BY <1>4, <1>5, <1>6, <1>7 DEF HandleRequest

\* What closes no other client's pipe.
LEMMA CloseSpares ==
  ASSUME NEW c, NEW S, fdt' = Closed(S), stolen' = (stolen \/ Theft(c, S)), ~stolen'
  PROVE  Untouched(c) /\ \A x \in Others(c) : x \notin S
<1>1. ~Theft(c, S)
  BY Zenon
<1>2. \A x \in Others(c) : fdt[x].kind # Free.kind /\ fdt[x].owner # c
  BY DEF Others, Free
<1>3. \A x \in Others(c) : x \notin S
  BY <1>1, <1>2 DEF Theft
<1> QED  BY <1>3 DEF Untouched, Others, Closed

\* A clean-up.
LEMMA CleanUpWatched ==
  ASSUME NEW e, NEW c, Begun(e, c), NEW r, NEW K, NEW S, NEW p, ~stolen',
         \A k \in kn : k.filter = "READ" /\ k.id \in Others(c) /\ k.id \notin S => k \in K,
         CleanUp(e, c, r, K, S, p)
  PROVE  WatchInv'
<1> DEFINE shut == {e.id} \cup IF r.pid = None THEN {} ELSE PipeEnds(r)
           K1   == CloseAll(K, shut)
           L    == Untimed(Unwatched(K1, r), r)
           gone == NewClient("freed", r.sock)
<1>1. /\ fdt' = Closed(S \cup shut)
      /\ stolen' = (stolen \/ Theft(c, S \cup shut))
      /\ \/ cl' = [cl EXCEPT ![c] = gone] /\ kn' = L
         \/ Leave("deaf", c, gone) \/ Leave("undefined", c, gone)
  BY DEF CleanUp
<1> HIDE DEF shut, gone
<1>2. Untouched(c) /\ \A x \in Others(c) : x \notin S \cup shut
  BY <1>1, CloseSpares
<1>3. PipesLeft(c, L)
  <2>1. \A k \in K : k.filter = "READ" /\ k.id \notin shut => k \in L
    BY DEF Untimed, Unwatched, Del, CloseAll
  <2> HIDE DEF L, K1
  <2> QED  BY <1>2, <2>1 DEF PipesLeft
<1> HIDE DEF L
<1>4. CASE cl' = [cl EXCEPT ![c] = gone] /\ kn' = L
  <2>1. cl'[c].life = "freed" /\ \A d \in Clients \ {c} : cl'[d] = cl[d]
    BY <1>4 DEF gone, NewClient, Begun, IInv, TypeOK, Live
  <2>2. ASSUME NEW d \in Live' PROVE Heeded(d, cl'[d], kn', fdt')
    <3>1. d # c /\ cl'[d] = cl[d] /\ Heeded(d, cl[d], kn, fdt)
      BY <2>1, <2>2 DEF Live, Begun, WatchInv
    <3>2. ASSUME NEW x \in Fds, fdt[x].kind = "out", fdt[x].owner = d, Knote("READ", x, d) \in kn
          PROVE  fdt'[x] = fdt[x] /\ Knote("READ", x, d) \in kn'
      <4>1. x \in Others(c)
        BY <3>1, <3>2 DEF Others
      <4>2. Knote("READ", x, d) \in L
        BY <1>3, <3>2, <4>1 DEF PipesLeft, Knote
      <4> QED  BY <1>2, <1>4, <4>1, <4>2 DEF Untouched
    <3> QED  BY <3>1, <3>2 DEF Heeded
  <2> QED  BY <2>2 DEF WatchInv
<1> QED  BY <1>1, <1>4, LeaveWatched

\* What a handler starts from.
LEMMA StartWatched ==
  ASSUME NEW e, NEW c, Begun(e, c)
  PROVE  /\ cl[c] \in Client /\ c # None /\ c \in Clients
         /\ PipesLeft(c, kn) /\ Heeded(c, cl[c], kn, fdt)
         /\ PipesLeft(c, TimerReset(c, cl[c])) /\ Heeded(c, cl[c], TimerReset(c, cl[c]), fdt)
<1>1. cl[c] \in Client /\ c # None /\ c \in Clients /\ Heeded(c, cl[c], kn, fdt)
  BY Sentinels DEF Begun, WatchInv, IInv, TypeOK, Live
<1>2. \A k \in kn : k.filter = "READ" => k \in TimerReset(c, cl[c])
  BY DEF TimerReset, Add, Del
<1>3. Heeded(c, cl[c], TimerReset(c, cl[c]), fdt)
  BY <1>1, <1>2 DEF Heeded, Knote
<1> QED  BY <1>1, <1>2, <1>3 DEF PipesLeft

\* The output of a script: its end comes with the answer.
LEMMA ReadPipeWatched ==
  ASSUME NEW e, NEW c, Begun(e, c), ~stolen', ReadPipe(e, c, cl[c])
  PROVE  WatchInv'
<1> DEFINE r == cl[c]
<1>1. r \in Client /\ PipesLeft(c, kn) /\ Heeded(c, r, kn, fdt)
  BY StartWatched
<1>2. UNCHANGED os => Untouched(c) /\ \A q : Heeded(c, q, kn, fdt) => Heeded(c, q, kn, fdt')
  BY DEF os, Untouched
<1> HIDE DEF r
<1>3. CASE Return(e, c, [r EXCEPT !.buf = TRUE], kn) /\ UNCHANGED os
  <2> DEFINE q == [r EXCEPT !.buf = TRUE]
  <2>1. Heeded(c, q, kn, fdt')
    BY <1>1, <1>2, <1>3, DataLike, LikeHeeded
  <2> HIDE DEF q
  <2> QED  BY <1>1, <1>2, <1>3, <2>1, ReturnWatched DEF q
<1>4. CASE /\ Return(e, c, [r EXCEPT !.resp = TRUE], CloseAll(kn, {e.id}))
           /\ fdt' = Closed({e.id})
           /\ stolen' = (stolen \/ Theft(c, {e.id}))
  <2> DEFINE q == [r EXCEPT !.resp = TRUE]
             L == CloseAll(kn, {e.id})
  <2>1. Heeded(c, q, L, fdt')
    BY <1>1 DEF Heeded, Client
  <2>2. Untouched(c) /\ e.id \notin Others(c)
    BY <1>4, CloseSpares
  <2>3. PipesLeft(c, L)
    BY <2>2 DEF PipesLeft, CloseAll
  <2> HIDE DEF q, L
  <2> QED  BY <1>4, <2>1, <2>2, <2>3, ReturnWatched DEF q, L
<1>5. CASE Throw(e, c, r, kn, 500) /\ UNCHANGED os
  BY <1>1, <1>2, <1>5, ThrowWatched DEF Errors, r
<1>6. CASE Return(e, c, r, kn) /\ UNCHANGED os
  BY <1>1, <1>2, <1>6, ReturnWatched
<1> QED  BY <1>3, <1>4, <1>5, <1>6, Zenon DEF ReadPipe, r

\* Its input: the pipe that is closed is not the one its output comes from.
LEMMA WritePipeWatched ==
  ASSUME NEW e, NEW c, Begun(e, c), ~stolen', WritePipe(e, c, cl[c])
  PROVE  WatchInv'
<1> DEFINE r == cl[c]
<1>1. r \in Client /\ PipesLeft(c, kn) /\ Heeded(c, r, kn, fdt)
  BY StartWatched
<1>2. UNCHANGED os => Untouched(c) /\ \A q : Heeded(c, q, kn, fdt) => Heeded(c, q, kn, fdt')
  BY DEF os, Untouched
<1>3. \/ Leave("killed", c, r)
      \/ /\ \E more \in BOOLEAN : Return(e, c, [r EXCEPT !.unsent = more], kn)
         /\ UNCHANGED os
      \/ Return(e, c, r, kn) /\ UNCHANGED os
      \/ /\ fdt[e.id].kind # "out"
         /\ Return(e, c, r, CloseAll(kn, {e.id}))
         /\ fdt' = Closed({e.id})
         /\ stolen' = (stolen \/ Theft(c, {e.id}))
      \/ Throw(e, c, r, kn, 500) /\ UNCHANGED os
  BY DEF WritePipe
<1> HIDE DEF r
<1>4. ASSUME NEW more \in BOOLEAN, Return(e, c, [r EXCEPT !.unsent = more], kn), UNCHANGED os
      PROVE  WatchInv'
  <2> DEFINE q == [r EXCEPT !.unsent = more]
  <2>1. Heeded(c, q, kn, fdt')
    BY <1>1, <1>2, <1>4, DataLike, LikeHeeded
  <2> HIDE DEF q
  <2> QED  BY <1>1, <1>2, <1>4, <2>1, ReturnWatched DEF q
<1>5. CASE Return(e, c, r, kn) /\ UNCHANGED os
  BY <1>1, <1>2, <1>5, ReturnWatched
<1>6. CASE /\ fdt[e.id].kind # "out"
           /\ Return(e, c, r, CloseAll(kn, {e.id}))
           /\ fdt' = Closed({e.id})
           /\ stolen' = (stolen \/ Theft(c, {e.id}))
  <2> DEFINE L == CloseAll(kn, {e.id})
  <2>1. Heeded(c, r, L, fdt')
    BY <1>1, <1>6 DEF Heeded, Closed, CloseAll, Knote
  <2>2. Untouched(c) /\ e.id \notin Others(c)
    BY <1>6, CloseSpares
  <2>3. PipesLeft(c, L)
    BY <2>2 DEF PipesLeft, CloseAll
  <2> HIDE DEF L
  <2> QED  BY <1>6, <2>1, <2>2, <2>3, ReturnWatched DEF L
<1>7. CASE Throw(e, c, r, kn, 500) /\ UNCHANGED os
  BY <1>1, <1>2, <1>7, ThrowWatched DEF Errors, r
<1> QED  BY <1>3, <1>4, <1>5, <1>6, <1>7, LeaveWatched

\* Its exit.
LEMMA EndProcessWatched ==
  ASSUME NEW e, NEW c, Begun(e, c), EndProcess(e, c, cl[c])
  PROVE  WatchInv'
<1> DEFINE r == cl[c]
           q == [r EXCEPT !.pid = None, !.buf = FALSE]
           s == [r EXCEPT !.pid = None]
<1>1. r \in Client /\ PipesLeft(c, kn)
  BY StartWatched
<1>2. Untouched(c)
  BY DEF EndProcess, Untouched
<1>3. Throw(e, c, q, kn, 400) \/ StartReply(e, c, s, kn)
  BY DEF EndProcess
<1>4. s \in Client /\ s.sock = r.sock /\ s.pid \notin Pids
  BY <1>1, Sentinels DEF Client
<1>5. q \in Client /\ q.sock = r.sock
  <2>1. q = [s EXCEPT !.buf = FALSE]
    BY <1>1 DEF Client
  <2> HIDE DEF s, q
  <2> QED  BY <1>4, <2>1, DataLike DEF Like
<1> HIDE DEF q, s
<1> QED  BY <1>1, <1>2, <1>3, <1>4, <1>5, ThrowWatched DEF Errors

\* The answer: a script that still runs is ended with an error answer, and a good
\* answer comes after its exit.
LEMMA WriteSocketWatched ==
  ASSUME NEW e, NEW c, Begun(e, c), ~stolen', WriteSocket(e, c, cl[c])
  PROVE  WatchInv'
<1> DEFINE r    == cl[c]
           ends == IF Ends(r) THEN PipeEnds(r) ELSE {}
           K1   == CloseAll(TimerReset(c, r), ends)
           K2   == IF Ends(r) THEN Unwatched(K1, r) ELSE K1
           q    == IF Ends(r) THEN [r EXCEPT !.pid = None] ELSE r
           p    == IF Ends(r) THEN r.pid ELSE None
           L    == Add(Del(K2, "WRITE", r.sock), "READ", r.sock, c)
<1>1. /\ r \in Client /\ c # None /\ c \in Clients
      /\ PipesLeft(c, TimerReset(c, r)) /\ Heeded(c, r, TimerReset(c, r), fdt)
  BY StartWatched
<1>2. /\ e.filter = "WRITE" /\ e.id = r.sock
      /\ \/ CleanUp(e, c, q, K2, ends, p)
         \/ /\ \/ Throw(e, c, r, K1, 500)
               \/ Return(e, c, q, K2)
               \/ Return(e, c, Cleared(q), L)
               \/ Throw(e, c, q, K2, 500)
            /\ fdt' = Closed(ends)
            /\ stolen' = (stolen \/ Theft(c, ends))
  BY Zenon DEF WriteSocket
<1>3. /\ q \in Client /\ q.sock = r.sock
      /\ Ends(r) => q.pid = None
      /\ ~Ends(r) => q = r /\ ends = {}
  BY <1>1 DEF Client
<1>4. None \notin Pids
  BY Sentinels
<1>5. \A k \in TimerReset(c, r) : k.filter = "READ" /\ k.id \notin ends => k \in K1 /\ k \in K2
  BY DEF CloseAll, Unwatched, Del
<1>6. ~Ends(r) => K2 = TimerReset(c, r)
  BY DEF CloseAll
<1> HIDE DEF K1, K2, ends, q, p
<1>7. CASE CleanUp(e, c, q, K2, ends, p)
  <2>1. \A k \in kn : k.filter = "READ" /\ k.id \in Others(c) /\ k.id \notin ends => k \in K2
    BY <1>1, <1>5 DEF PipesLeft
  <2> QED  BY <1>7, <2>1, CleanUpWatched
<1>8. CASE /\ \/ Throw(e, c, r, K1, 500)
              \/ Return(e, c, q, K2)
              \/ Return(e, c, Cleared(q), L)
              \/ Throw(e, c, q, K2, 500)
           /\ fdt' = Closed(ends)
           /\ stolen' = (stolen \/ Theft(c, ends))
  <2>1. Untouched(c) /\ \A x \in Others(c) : x \notin ends
    BY <1>8, CloseSpares
  <2>2. PipesLeft(c, K1) /\ PipesLeft(c, K2)
    BY <1>1, <1>5, <2>1 DEF PipesLeft
  <2>3. Heeded(c, q, K2, fdt')
    <3>1. CASE Ends(r)
      BY <1>3, <1>4, <3>1 DEF Heeded
    <3>2. CASE ~Ends(r)
      BY <1>1, <1>3, <1>6, <1>8, <3>2 DEF Heeded, Closed
    <3> QED  BY <3>1, <3>2
  <2>4. Heeded(c, Cleared(q), L, fdt')
    <3>1. q.pid = None
      <4>1. e = Knote("WRITE", r.sock, c) /\ KnoteOK(e, r)
        BY <1>1, <1>2 DEF Begun, IInv, LoopInv, Typed, Knotes, Knote
      <4>2. r.code = 200 => r.pid = None
        BY <1>2, <4>1 DEF KnoteOK
      <4>3. ~Ends(r) => r.pid = None
        BY <1>1, <4>2 DEF Ends, Client, Errors
      <4> QED  BY <1>3, <4>3
    <3>2. Cleared(q).pid = None
      BY <3>1 DEF Cleared, NewClient
    <3> QED  BY <1>4, <3>2 DEF Heeded
  <2>5. PipesLeft(c, L)
    <3>1. r.sock \notin Others(c)
      BY DEF Begun, ConvInv, OwnAll, Mine, Others
    <3>2. \A k \in K2 : k.filter = "READ" /\ k.id # r.sock => k \in L
      BY DEF Add, Del
    <3> HIDE DEF L
    <3> QED  BY <2>2, <3>1, <3>2 DEF PipesLeft
  <2> HIDE DEF L
  <2>6. CASE Return(e, c, q, K2) \/ Return(e, c, Cleared(q), L)
    BY <2>1, <2>2, <2>3, <2>4, <2>5, <2>6, ReturnWatched
  <2>7. CASE Throw(e, c, r, K1, 500) \/ Throw(e, c, q, K2, 500)
    BY <1>1, <1>3, <2>1, <2>2, <2>7, ThrowWatched DEF Errors
  <2> QED  BY <1>8, <2>6, <2>7
<1> QED  BY <1>2, <1>7, <1>8

\* A new connection: its socket is a descriptor nobody reads from.
LEMMA AcceptWatched ==
  ASSUME IInv, ConvInv, InLoop, ~stolen, WatchInv, NEW e, AcceptClient(e)
  PROVE  WatchInv'
<1>1. ASSUME NEW c \in Clients, NEW f \in FreeFds, cl[c].life = "unborn",
             Return(e, c, NewClient("live", f), Accepted(c, f)),
             fdt' = [fdt EXCEPT ![f] = File("sock", c, None)]
      PROVE  WatchInv'
  <2>1. /\ kn' = Accepted(c, f) /\ cl'[c] = NewClient("live", f)
        /\ \A d \in Clients \ {c} : cl'[d] = cl[d]
    BY <1>1 DEF Return, IInv, TypeOK
  <2>2. \A k \in kn : k.filter = "READ" /\ k.id # f => k \in Accepted(c, f)
    BY DEF Accepted, Add, Del
  <2>3. ASSUME NEW d \in Live' PROVE Heeded(d, cl'[d], kn', fdt')
    <3>1. CASE d = c
      BY <2>1, <3>1, Sentinels DEF Heeded, NewClient
    <3>2. CASE d # c
      <4>1. cl'[d] = cl[d] /\ Heeded(d, cl[d], kn, fdt)
        BY <2>1, <2>3, <3>2 DEF Live, WatchInv
      <4>2. ASSUME NEW x \in Fds, fdt[x].kind = "out", Knote("READ", x, d) \in kn
            PROVE  fdt'[x] = fdt[x] /\ Knote("READ", x, d) \in kn'
        <5>1. x # f
          BY <4>2 DEF FreeFds, Free
        <5> QED  BY <1>1, <2>1, <2>2, <4>2, <5>1 DEF Knote, IInv, TypeOK
      <4> QED  BY <4>1, <4>2 DEF Heeded
    <3> QED  BY <3>1, <3>2
  <2> QED  BY <2>3 DEF WatchInv
<1>2. CASE mode' = "exited"
  BY <1>2 DEF WatchInv, InLoop
<1> QED  BY <1>1, <1>2 DEF AcceptClient

\* Every event.
LEMMA HandleEventWatched ==
  ASSUME IInv, ConvInv, InLoop, ~stolen, WatchInv, NEW e \in batch, HandleEvent(e), ~stolen'
  PROVE  WatchInv'
<1>1. CASE e.udata = None
  BY <1>1, AcceptWatched DEF HandleEvent
<1>2. CASE e.udata # None
  <2> DEFINE c == e.udata
             r == cl[c]
  <2>1. CASE Dangling(e, c, r)
    BY <2>1, LeaveWatched DEF Dangling
  <2>2. CASE /\ r.life = "live"
             /\ \/ ReadSocket(e, c, r) \/ ReadPipe(e, c, r)
                \/ WriteSocket(e, c, r) \/ WritePipe(e, c, r)
                \/ EndProcess(e, c, r) \/ Timeout(e, c, r)
    <3>1. Begun(e, c)
      BY <1>2, <2>2 DEF Begun, Live, IInv, LoopInv, Typed, Knotes
    <3>2. /\ r \in Client /\ PipesLeft(c, kn)
          /\ PipesLeft(c, TimerReset(c, r)) /\ Heeded(c, r, TimerReset(c, r), fdt)
      BY <3>1, StartWatched
    <3>3. CASE ReadSocket(e, c, r)
      <4>1. HandleRequest(e, c, r, TimerReset(c, r)) \/ CleanUp(e, c, r, TimerReset(c, r), {}, None)
        BY <3>3 DEF ReadSocket
      <4> QED  BY <3>1, <3>2, <4>1, HandleRequestWatched, CleanUpWatched DEF PipesLeft
    <3>4. CASE Timeout(e, c, r)
      BY <3>1, <3>2, <3>4, CleanUpWatched DEF Timeout, PipesLeft
    <3> QED  BY <2>2, <3>1, <3>3, <3>4, ReadPipeWatched, WritePipeWatched,
                WriteSocketWatched, EndProcessWatched
  <2> QED  BY <1>2, <2>1, <2>2 DEF HandleEvent
<1> QED  BY <1>1, <1>2

-----------------------------------------------------------------------------
(* The invariant and what follows from it. *)

\* Every step keeps it.
LEMMA WatchNext == IInv /\ ConvInv /\ WatchInv /\ [Next]_vars => WatchInv'
<1> SUFFICES ASSUME IInv, ConvInv, WatchInv, [Next]_vars, InLoop', ~stolen' PROVE WatchInv'
  BY DEF WatchInv
<1>1. CASE InLoop /\ Kevent
  <2>1. /\ \A k \in kn : k.filter = "READ" => k \in kn'
        /\ UNCHANGED <<mode, cl, fdt, stolen>>
    BY <1>1 DEF Kevent, os
  <2> QED  BY <1>1, <2>1 DEF WatchInv, InLoop, Live, Heeded, Knote
<1>2. ASSUME InLoop, NEW e \in batch, HandleEvent(e) PROVE WatchInv'
  <2>1. ~stolen
    BY <1>2, HandleEventKept DEF Kept
  <2> QED  BY <1>2, <2>1, HandleEventWatched
<1>3. ASSUME InLoop, NEW p \in Pids, ChildExits(p) PROVE WatchInv'
  BY <1>3 DEF ChildExits, WatchInv, InLoop, Live, Heeded
<1>4. CASE UNCHANGED vars
  BY <1>4 DEF vars, WatchInv, InLoop, Live, Heeded
<1> QED  BY <1>1, <1>2, <1>3, <1>4 DEF Next, InLoop

\* While a request waits for its script, the loop watches the script's output,
\* until a descriptor is stolen: no close, error or other connection takes the
\* knote away.
THEOREM OutputIsWatched == Spec => []CgiWatched
<1>1. Init => WatchInv
  <2>1. Init => Live = {}
    BY DEF Init, Live, NewClient
  <2> QED  BY <2>1 DEF WatchInv
<1>2. WatchInv => CgiWatched
  BY DEF WatchInv, CgiWatched, Heeded
<1> QED  BY <1>1, <1>2, WatchNext, ConvInvariance, PTL DEF Spec
=============================================================================
