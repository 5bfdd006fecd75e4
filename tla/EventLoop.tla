----------------------------- MODULE EventLoop -----------------------------
(***************************************************************************)
(* The reactor of webserv: Operation's kevent loop, the Client object of   *)
(* each connection, and the CGI child a Client may fork.  One action is    *)
(* one event handled by Operation::handleEvent, run to its end: the server *)
(* is single-threaded, so only the kernel's choices (what a batch holds,   *)
(* what recv, send, read, write, fork and pipe return) and the children    *)
(* interleave with it.                                                     *)
(*                                                                         *)
(* A handler works on a copy r of the client's fields and a copy K of the  *)
(* knotes and ends in one of four ways: it returns (Return), throws an int *)
(* that handleEvent catches (Throw), takes the process out of its loop     *)
(* (Leave), or frees the client and drops the batch (CleanUp).             *)
(***************************************************************************)
EXTENDS Kqueue, Naturals, FiniteSets

CONSTANTS Methods,  \* the kinds of request peers send, a subset of AllMethods
          Chunkings,\* the values "Transfer-Encoding is chunked" may take
          Faults,   \* what may go wrong: system calls that fail for want of
                    \* resources, a missing error page, a field without ": ",
                    \* a root that names no directory
          MAX_EVENT,\* the most events one kevent call returns
          Failed    \* the pid_t -1 of a failed fork

\* "CGI" is a GET whose path names a .py file; "POST" stands for PUT as well.
AllMethods == {"GET", "DELETE", "CGI", "POST"}

ASSUME Sentinels ==
  /\ None \notin Clients \cup Fds \cup Pids \cup {Listener, Failed}
  /\ Failed \notin Pids
  /\ Listener \notin Fds

ASSUME Parameters ==
  /\ Methods \subseteq AllMethods
  /\ Chunkings \subseteq BOOLEAN
  /\ Faults \subseteq {"accept", "pipe", "fork", "page", "field", "root"}
  /\ MAX_EVENT \in Nat \ {0}

VARIABLES
  kn,      \* the knotes registered in the kqueue
  batch,   \* the events of the current kevent call that are still to handle
  mode,    \* where main is: in the loop, or how it left it
  cl,      \* the Client objects (each with its Request)
  clients, \* Operation::_clients, from a socket to its Client
  fdt,     \* what each descriptor number refers to
  proc,    \* the CGI processes
  stolen   \* history: some close(2) by one client hit a descriptor of another

vars == <<kn, batch, mode, cl, clients, fdt, proc, stolen>>
os == <<clients, fdt, proc, stolen>>

-----------------------------------------------------------------------------
(* State of the program. *)

\* "deaf": main caught an int and called start() again on an empty kqueue;
\* "exited": main returned; "killed": SIGPIPE; "undefined": freed memory was used.
Modes == {"loop", "deaf", "exited", "killed", "undefined"}

\* 400 stands for 400, 404, 413 and 505, which are handled alike.
Errors == {400, 405, 500}

Sizes == {"short", "exact", "over"}

Client ==
  [life    : {"unborn", "live", "freed"},
   sock    : Fds \cup {None},
   wfd     : Fds \cup {None},            \* _writeFd[1]
   rfd     : Fds \cup {None},            \* _readFd[0]
   pid     : Pids \cup {None, Failed},
   code    : {200} \cup Errors,
   resp    : BOOLEAN,                    \* _responseStr is not empty
   buf     : BOOLEAN,                    \* _responseBuffer is not empty
   st      : {"READY", "CREATE", "DONE"},\* Request::_state
   method  : AllMethods \cup {None},
   chunked : BOOLEAN,
   body    : Sizes,                      \* bytes after the header, against Content-Length
   ended   : BOOLEAN,                    \* _chunkedEnd
   unsent  : BOOLEAN]                    \* _writeIndex is below _requestBody.size()

\* The members the constructors of Client and Request initialise.
NewClient(life, f) ==
  [life |-> life, sock |-> f, wfd |-> None, rfd |-> None, pid |-> None, code |-> 200,
   resp |-> FALSE, buf |-> FALSE, st |-> "READY", method |-> None, chunked |-> FALSE,
   body |-> "short", ended |-> FALSE, unsent |-> FALSE]

\* clearClient and clearRequest: the descriptors, the pid and the socket stay.
Cleared(r) ==
  [NewClient(r.life, r.sock) EXCEPT !.wfd = r.wfd, !.rfd = r.rfd, !.pid = r.pid]

Free == [kind |-> "free", owner |-> None, pid |-> None]

\* "in": our write end of a child's stdin; "out": our read end of its stdout.
File(kind, c, p) == [kind |-> kind, owner |-> c, pid |-> p]
FileTable ==
  [kind : {"free", "sock", "in", "out"}, owner : Clients \cup {None}, pid : Pids \cup {None, Failed}]

FreeFds == {f \in Fds : fdt[f] = Free}

Exited == {"exit0", "exit1"}

\* A zombie the server has signalled is never waited for: "killed" is final.
Procs == {"unused", "running", "reaped", "killed"} \cup Exited

Init ==
  /\ kn = {Knote("READ", Listener, None)}
  /\ batch = {}
  /\ mode = "loop"
  /\ cl = [c \in Clients |-> NewClient("unborn", None)]
  /\ clients = [f \in Fds |-> None]
  /\ fdt = [f \in Fds |-> Free]
  /\ proc = [p \in Pids |-> "unused"]
  /\ stolen = FALSE

-----------------------------------------------------------------------------
(* How a handler ends. *)

\* Mutant: a handled event ends the batch, as if break were return.
ReturnBreaks(e, c, r, K) ==
  /\ cl' = [cl EXCEPT ![c] = r]
  /\ kn' = K
  /\ batch' = {}
  /\ UNCHANGED mode

Return(e, c, r, K) ==
  /\ cl' = [cl EXCEPT ![c] = r]
  /\ kn' = K
  /\ batch' = batch \ {e}
  /\ UNCHANGED mode

\* Mutant: break instead of return after a clean-up.
AfterCleanUpContinues(e) == batch \ {e}

\* handleEvent returns after a clean-up, whatever the batch still holds.
AfterCleanUp(e) == {}

\* The int escapes handleEvent.  main catches it and calls start() again: a new
\* kqueue, on which nothing is registered, because bind fails on every port the
\* first start still listens on.
Leave(m, c, r) ==
  /\ cl' = [cl EXCEPT ![c] = r]
  /\ kn' = {}
  /\ batch' = {}
  /\ mode' = m

\* Mutant: the result of deleteSocketReadEvent's kevent is ignored.
CanSwitchAlways(K, r) == TRUE

\* deleteSocketReadEvent throws unless the socket's READ knote is there.
CanSwitch(K, r) == Has(K, "READ", r.sock)

\* Mutant: handleError forgets deleteSocketReadEvent.
ToWriteBoth(c, r, K) == Add(K, "WRITE", r.sock, c)

\* deleteSocketReadEvent, addSocketWriteEvent.
ToWrite(c, r, K) == Add(Del(K, "READ", r.sock), "WRITE", r.sock, c)

\* handleEvent's catch (const int), that is Operation::handleError.  Its
\* deleteSocketReadEvent may throw out of the catch block; the error page may be
\* missing, and the response is then left as it is.
Throw(e, c, r, K, errnum) ==
  IF CanSwitch(K, r)
  THEN \E filled \in {TRUE} \cup IF "page" \in Faults THEN {r.resp} ELSE {} :
         Return(e, c, [r EXCEPT !.code = errnum, !.resp = filled], ToWrite(c, r, K))
  ELSE Leave("deaf", c, r)

\* The answer is ready to be sent.
StartReply(e, c, r, K) ==
  IF CanSwitch(K, r)
  THEN Return(e, c, r, ToWrite(c, r, K))
  ELSE Throw(e, c, r, K, 500)

\* The descriptors Client::closePipeFd closes.  They may be stale: writePipe and
\* readPipe close them without resetting the members to INIT_PIPE.
PipeEnds(r) == {r.wfd, r.rfd} \ {None}

Closed(S) == [f \in Fds |-> IF f \in S THEN Free ELSE fdt[f]]

Theft(c, S) == \E f \in S : fdt[f] # Free /\ fdt[f].owner # c

\* Mutant: closing a connection does not kill its child.
KilledNever(p) == proc

\* kill(pid, SIGKILL); for the pid -1 it signals every process it may.
Killed(p) ==
  CASE p \in Pids -> [proc EXCEPT ![p] = "killed"]
    [] p = Failed -> [q \in Pids |-> IF proc[q] = "running" THEN "killed" ELSE proc[q]]
    [] OTHER      -> proc

\* Mutant: kill is called whatever deletePidEvent says.
PidKnownUnchecked(K, r) == TRUE

\* deletePidEvent, which throws when the child's knote is gone: its exit has been
\* delivered, or fork failed.  Only when it succeeds does kill follow.
PidKnown(K, r) == r.pid = None \/ Has(K, "PROC", r.pid)

\* Mutant: deletePidEvent is forgotten.
UnwatchedKept(K, r) == K

Unwatched(K, r) == Del(K, "PROC", r.pid)

\* Mutant: ~Client does not delete the timer.
UntimedKept(K, r) == K

\* deleteTimerEvent.
Untimed(K, r) == Del(K, "TIMER", r.sock)

\* Mutant: the entry of _clients is not erased.
ErasedNot(f) == clients

Erased(f) == [clients EXCEPT ![f] = None]

\* CleanUpClientResources, then handleEvent's return.  S and p are what the
\* caller has closed and killed before.  When an EV_DELETE of ~Client fails, the
\* 500 leaves the destructor, and handleError runs on a freed Client whose socket
\* is closed.
CleanUp(e, c, r, K, S, p) ==
  LET shut == {e.id} \cup IF r.pid = None THEN {} ELSE PipeEnds(r)
      K1   == CloseAll(K, shut)
      gone == NewClient("freed", r.sock)
  IN /\ clients' = Erased(e.id)
     /\ fdt' = Closed(S \cup shut)
     /\ stolen' = (stolen \/ Theft(c, S \cup shut))
     /\ proc' = Killed(IF PidKnown(K1, r) /\ r.pid # None THEN r.pid ELSE p)
     /\ IF PidKnown(K1, r) /\ Has(K1, "TIMER", r.sock)
        THEN /\ cl' = [cl EXCEPT ![c] = gone]
             /\ kn' = Untimed(Unwatched(K1, r), r)
             /\ batch' = AfterCleanUp(e)
             /\ UNCHANGED mode
        ELSE Leave("deaf", c, gone) \/ Leave("undefined", c, gone)

-----------------------------------------------------------------------------
(* Client::handleResponse: answering a request whose header is complete. *)

\* More bytes have arrived after the header.
Longer(size) == IF size = "short" THEN Sizes ELSE {"over"}

\* Mutant: the length of the body is not compared.
CompleteAny(size) == TRUE

\* handleResponse acts only when their count is the Content-Length.
Complete(size) == size = "exact"

\* handleGet of a file or directory; handleFile throws 404.  Of a path without any name
\* isFilePy reads the last element of an empty vector.
HandleGet(e, c, r, K) ==
  \/ "root" \in Faults /\ Leave("undefined", c, r)
  \/ Throw(e, c, r, K, 400)
  \/ StartReply(e, c, [r EXCEPT !.buf = TRUE, !.resp = TRUE], K)

\* handleDelete builds the answer before removeFile may throw 404.
HandleDelete(e, c, r, K) ==
  LET q == [r EXCEPT !.buf = TRUE, !.resp = TRUE]
  IN  Throw(e, c, q, K, 400) \/ StartReply(e, c, q, K)

\* handlePost copies the body, then throws 413 or asks to write it to the child;
\* the pipe may have been opened in this very step.
HandlePost(e, c, r, K) ==
  \E some \in BOOLEAN :
    LET q == [r EXCEPT !.unsent = some]
    IN \/ Throw(e, c, q, K, 400)
       \/ /\ fdt'[q.wfd] = Free
          /\ Throw(e, c, q, K, 500)
       \/ /\ fdt'[q.wfd] # Free
          /\ Return(e, c, [q EXCEPT !.ended = TRUE], Add(K, "WRITE", q.wfd, c))

\* parsingChunkedData: more chunks, or none, perhaps the last; or a 400 or 413.
ParseChunked(e, c, r, K) ==
  \E some \in {r.unsent, TRUE} :
    LET q == [r EXCEPT !.unsent = some]
    IN \/ Throw(e, c, q, K, 400)
       \/ \E last \in {r.ended, TRUE} : Return(e, c, [q EXCEPT !.ended = last], K)

HandleResponse(e, c, r, K) ==
  \/ r.chunked /\ ParseChunked(e, c, r, K)
  \/ /\ ~r.chunked
     /\ \E size \in Longer(r.body) :
          LET q == [r EXCEPT !.body = size]
          IN \/ ~Complete(size) /\ Return(e, c, q, K)
             \/ /\ Complete(size)
                /\ \/ q.method = "GET"    /\ HandleGet(e, c, q, K)
                   \/ q.method = "DELETE" /\ HandleDelete(e, c, q, K)
                   \/ q.method = "POST"   /\ HandlePost(e, c, q, K)

-----------------------------------------------------------------------------
(* handlePostCgi and handleGetCgi: two pipes (one for a GET), a child, and the *)
(* knotes that watch them.  The ends the child keeps are closed in the parent. *)

\* Mutant: addPipeReadEvent is forgotten.
WatchedExitOnly(c, r, K) ==
  LET K1 == Add(K, "PROC", r.pid, c)
  IN  IF r.method = "POST" THEN Add(K1, "WRITE", r.wfd, c) ELSE K1

Watched(c, r, K) ==
  LET K1 == Add(Add(K, "PROC", r.pid, c), "READ", r.rfd, c)
  IN  IF r.method = "POST" THEN Add(K1, "WRITE", r.wfd, c) ELSE K1

\* The second pipe of a POST may fail when the first is already open.
PipeFails(e, c, r, K) ==
  \E w \in IF r.method = "POST" THEN FreeFds \cup {None} ELSE {None} :
    /\ "pipe" \in Faults \/ FreeFds \ {w} = {}
    /\ fdt' = [f \in Fds |-> IF f = w THEN File("in", c, Failed) ELSE fdt[f]]
    /\ Throw(e, c, IF w = None THEN r ELSE [r EXCEPT !.wfd = w], K, 500)
    /\ UNCHANGED <<clients, proc, stolen>>

\* What fork may return.
ForkResults ==
  {p \in Pids : proc[p] = "unused"} \cup IF "fork" \in Faults THEN {Failed} ELSE {}

\* fork with the pipes w (stdin) and o (stdout) open, and its outcome p.  The child
\* may exit before addProcessEvent, whose EV_ADD is then ESRCH.
Forked(e, c, r, K, w, o, p) ==
  LET q == [r EXCEPT !.wfd = IF w = None THEN r.wfd ELSE w, !.rfd = o, !.pid = p]
  IN /\ fdt' = [f \in Fds |-> CASE f = w -> File("in", c, p)
                                [] f = o -> File("out", c, p)
                                [] OTHER -> fdt[f]]
     /\ \/ p = Failed /\ Throw(e, c, q, K, 500) /\ UNCHANGED proc
        \/ /\ p \in Pids
           /\ \E status \in Exited : proc' = [proc EXCEPT ![p] = status]
           /\ Throw(e, c, q, K, 500)
        \/ /\ p \in Pids
           /\ proc' = [proc EXCEPT ![p] = "running"]
           /\ \/ q.method = "CGI" /\ Return(e, c, q, Watched(c, q, K))
              \/ /\ q.method = "POST"
                 /\ HandleResponse(e, c, [q EXCEPT !.st = "DONE"], Watched(c, q, K))
     /\ UNCHANGED <<clients, stolen>>

Forks(e, c, r, K) ==
  \E w \in IF r.method = "POST" THEN FreeFds ELSE {None} :
  \E o \in FreeFds \ {w}, p \in ForkResults : Forked(e, c, r, K, w, o, p)

Spawn(e, c, r, K) == PipeFails(e, c, r, K) \/ Forks(e, c, r, K)

\* handleResponse as handleRequest calls it in state DONE.
Respond(e, c, r, K) ==
  \/ UNCHANGED os /\ HandleResponse(e, c, r, K)
  \/ /\ r.method = "CGI" /\ ~r.chunked
     /\ \E size \in Longer(r.body) :
          Complete(size) /\ Spawn(e, c, [r EXCEPT !.body = size], K)

\* Request::handleRequest on bytes that were just received: the header may be
\* incomplete, malformed, or complete; routing may refuse it (400, 405).  Of a
\* field without ": " setFieldLine reads a token that is not there.
HandleRequest(e, c, r, K) ==
  \/ /\ r.st = "READY"
     /\ \/ Return(e, c, r, K)
        \/ "field" \in Faults /\ Leave("undefined", c, r)
        \/ \E errnum \in {400, 405} : Throw(e, c, r, K, errnum)
     /\ UNCHANGED os
  \/ /\ r.st # "DONE"
     /\ \E errnum \in {400, 405} : Throw(e, c, [r EXCEPT !.st = "CREATE"], K, errnum)
     /\ UNCHANGED os
  \/ /\ r.st # "DONE"
     /\ \E m \in Methods, ch \in Chunkings :
          LET q == [r EXCEPT !.method = m, !.chunked = ch]
          IN \/ m = "POST" /\ Spawn(e, c, [q EXCEPT !.st = "CREATE"], K)
             \/ m # "POST" /\ Respond(e, c, [q EXCEPT !.st = "DONE"], K)
  \/ /\ r.st = "DONE"
     /\ Respond(e, c, r, K)

-----------------------------------------------------------------------------
(* The events of handleEvent.  e is in batch, c is its udata and r the Client. *)

\* Mutant: EV_DELETE instead of EV_ADD.
TimerResetStops(c, r) == Del(kn, "TIMER", r.sock)

\* resetTimerEvent registers the timer anew, under the same ident.
TimerReset(c, r) == Add(kn, "TIMER", r.sock, c)

\* Mutant: the constructor does not start the timer.
AcceptedUntimed(c, f) == Add(kn, "READ", f, c)

\* The constructor of Client: addSocketReadEvent, addTimerEvent.
Accepted(c, f) == Add(Add(kn, "READ", f, c), "TIMER", f, c)

\* acceptClient.  accept fails when descriptors run out; its exception is thrown
\* outside handleEvent's try and main returns.  insert keeps an older entry.
AcceptClient(e) ==
  /\ e.id = Listener
  /\ \/ \E c \in Clients, f \in FreeFds :
          /\ cl[c].life = "unborn"
          /\ Return(e, c, NewClient("live", f), Accepted(c, f))
          /\ fdt' = [fdt EXCEPT ![f] = File("sock", c, None)]
          /\ clients' = IF clients[f] = None THEN [clients EXCEPT ![f] = c] ELSE clients
          /\ UNCHANGED <<proc, stolen>>
     \/ /\ "accept" \in Faults \/ FreeFds = {}
        /\ mode' = "exited"
        /\ batch' = {}
        /\ UNCHANGED <<kn, cl, clients, fdt, proc, stolen>>

\* handleReadEvent on the socket: recv finds bytes, or the end or an error.
ReadSocket(e, c, r) ==
  /\ e.filter = "READ" /\ e.id = r.sock
  /\ \/ fdt[e.id].kind = "sock" /\ HandleRequest(e, c, r, TimerReset(c, r))
     \/ CleanUp(e, c, r, TimerReset(c, r), {}, None)

\* readPipe: bytes of the child's output; its end, which makes the response and
\* closes the pipe, or throws out_of_range from substr when there was no output;
\* or EBADF.  The last disjunct is an event for a pipe the client has forgotten.
ReadPipe(e, c, r) ==
  LET file == fdt[e.id]
  IN /\ e.filter = "READ" /\ e.id # r.sock
     /\ \/ /\ e.id = r.rfd /\ file.kind \in {"out", "sock"}
           /\ Return(e, c, [r EXCEPT !.buf = TRUE], kn)
           /\ UNCHANGED os
        \/ /\ e.id = r.rfd /\ file.kind \in {"out", "sock"} /\ r.buf
           /\ Return(e, c, [r EXCEPT !.resp = TRUE], CloseAll(kn, {e.id}))
           /\ fdt' = Closed({e.id})
           /\ stolen' = (stolen \/ Theft(c, {e.id}))
           /\ UNCHANGED <<clients, proc>>
        \/ /\ e.id = r.rfd /\ file.kind # "out"
           /\ Throw(e, c, r, kn, 500)
           /\ UNCHANGED os
        \/ /\ e.id # r.rfd
           /\ Return(e, c, r, kn)
           /\ UNCHANGED os

\* writePipe: some of the body, all of it, and then, when the body is complete,
\* the close that is the child's end of input.  A pipe without reader is SIGPIPE:
\* an exiting child closes its files before its exit can be seen.
WritePipe(e, c, r) ==
  LET file == fdt[e.id]
      child == file.kind = "in" /\ file.pid \in Pids
      takes == file.kind \in {"in", "sock"} /\ (child => proc[file.pid] = "running")
  IN /\ e.filter = "WRITE" /\ e.id # r.sock
     /\ \/ /\ e.id = r.wfd /\ child
           /\ Leave("killed", c, r)
           /\ UNCHANGED os
        \/ /\ e.id = r.wfd /\ takes /\ r.unsent
           /\ \E more \in BOOLEAN : Return(e, c, [r EXCEPT !.unsent = more], kn)
           /\ UNCHANGED os
        \/ /\ e.id = r.wfd /\ takes /\ ~r.unsent /\ ~r.ended
           /\ Return(e, c, r, kn)
           /\ UNCHANGED os
        \/ /\ e.id = r.wfd /\ takes /\ ~r.unsent /\ r.ended
           /\ Return(e, c, r, CloseAll(kn, {e.id}))
           /\ fdt' = Closed({e.id})
           /\ stolen' = (stolen \/ Theft(c, {e.id}))
           /\ UNCHANGED <<clients, proc>>
        \/ /\ e.id = r.wfd /\ ~child
           /\ Throw(e, c, r, kn, 500)
           /\ UNCHANGED os
        \/ /\ e.id # r.wfd
           /\ Return(e, c, r, kn)
           /\ UNCHANGED os

\* What sendData does first in an error answer: end a child that still runs.
Ends(r) == r.code >= 400 /\ r.pid # None

\* sendData and the rest of handleWriteEvent on the socket.
WriteSocket(e, c, r) ==
  LET ends == IF Ends(r) THEN PipeEnds(r) ELSE {}
      K1   == CloseAll(TimerReset(c, r), ends)
      K2   == IF Ends(r) THEN Unwatched(K1, r) ELSE K1
      q    == IF Ends(r) THEN [r EXCEPT !.pid = None] ELSE r
      p    == IF Ends(r) THEN r.pid ELSE None
      sent == q.resp /\ fdt[e.id].kind = "sock" /\ q.code # 405
  IN /\ e.filter = "WRITE" /\ e.id = r.sock
     /\ \/ /\ Ends(r) /\ ~PidKnown(K1, r)               \* deletePidEvent throws
           /\ Throw(e, c, r, K1, 500)
           /\ fdt' = Closed(ends)
           /\ stolen' = (stolen \/ Theft(c, ends))
           /\ UNCHANGED <<clients, proc>>
        \/ /\ Ends(r) => PidKnown(K1, r)
           /\ \/ CleanUp(e, c, q, K2, ends, p)         \* send failed, sent nothing, or 405
              \/ /\ sent
                 /\ \/ Return(e, c, q, K2)             \* a part
                    \/ /\ Has(K2, "WRITE", r.sock)     \* the rest
                       /\ Return(e, c, Cleared(q),
                                 Add(Del(K2, "WRITE", r.sock), "READ", r.sock, c))
                    \/ /\ ~Has(K2, "WRITE", r.sock)
                       /\ Throw(e, c, q, K2, 500)
                 /\ fdt' = Closed(ends)
                 /\ proc' = Killed(p)
                 /\ stolen' = (stolen \/ Theft(c, ends))
                 /\ UNCHANGED clients

\* handleEndProcess: reap the child, then answer 400 if it exited with 1.
EndProcess(e, c, r) ==
  /\ e.filter = "PROC"
  /\ r.pid \in Pids /\ proc[r.pid] \in Exited          \* waitpid blocks otherwise
  /\ proc' = [proc EXCEPT ![r.pid] = "reaped"]
  /\ \/ /\ proc[r.pid] = "exit1"
        /\ Throw(e, c, [r EXCEPT !.pid = None, !.buf = FALSE], kn, 400)
     \/ /\ proc[r.pid] = "exit0"
        /\ StartReply(e, c, [r EXCEPT !.pid = None], kn)
  /\ UNCHANGED <<clients, fdt, stolen>>

Timeout(e, c, r) ==
  /\ e.filter = "TIMER"
  /\ CleanUp(e, c, r, kn, {}, None)

\* An event whose udata is a freed Client: its handler reads freed memory.
Dangling(e, c, r) ==
  /\ r.life = "freed"
  /\ Leave("undefined", c, r)
  /\ UNCHANGED os

HandleEvent(e) ==
  \/ e.udata = None /\ AcceptClient(e)
  \/ /\ e.udata # None
     /\ LET c == e.udata
            r == cl[c]
        IN \/ Dangling(e, c, r)
           \/ /\ r.life = "live"
              /\ \/ ReadSocket(e, c, r) \/ ReadPipe(e, c, r)
                 \/ WriteSocket(e, c, r) \/ WritePipe(e, c, r)
                 \/ EndProcess(e, c, r) \/ Timeout(e, c, r)

-----------------------------------------------------------------------------
(* The kernel and the children. *)

\* Peers, pipes and clocks may make any knote ready, an exit only its own; peers
\* connect as long as Clients has an unused member (the bound on connections).
Ready ==
  {k \in kn : /\ k.filter = "PROC" => proc[k.id] \in Exited \cup {"killed"}
              /\ k.id = Listener => \E c \in Clients : cl[c].life = "unborn"}

\* Mutant: kevent is given a longer list than the array.
BatchesUnbounded == {B \in SUBSET Ready : B # {}}

\* What one kevent call may return, in an order nothing promises.
Batches == {B \in SUBSET Ready : B # {} /\ Cardinality(B) <= MAX_EVENT}

\* A NOTE_EXIT knote is deleted by the kernel when its event is returned.
Kevent ==
  /\ batch = {}
  /\ batch' \in Batches
  /\ kn' = {k \in kn : ~(k \in batch' /\ k.filter = "PROC")}
  /\ UNCHANGED <<mode, cl, os>>

\* "exit1" is WEXITSTATUS 1: an exception in post_cgi.py or a failed execve.
ChildExits(p) ==
  /\ proc[p] = "running"
  /\ \E status \in Exited : proc' = [proc EXCEPT ![p] = status]
  /\ UNCHANGED <<kn, batch, mode, cl, clients, fdt, stolen>>

Next ==
  /\ mode = "loop"
  /\ \/ Kevent
     \/ \E e \in batch : HandleEvent(e)
     \/ \E p \in Pids : ChildExits(p)

Spec == Init /\ [][Next]_vars
-----------------------------------------------------------------------------
(* Safety. *)

Live == {c \in Clients : cl[c].life = "live"}

InLoop == mode = "loop"

\* The state the program keeps has its types; a kqueue holds one knote for a
\* filter and an ident, and a batch fits the array handleTriggerEvent declares.
TypeOK ==
  /\ kn \subseteq Knotes
  /\ \A k, l \in kn : k.filter = l.filter /\ k.id = l.id => k = l
  /\ batch \subseteq Knotes
  /\ Cardinality(batch) <= MAX_EVENT
  /\ mode \in Modes
  /\ cl \in [Clients -> Client]
  /\ clients \in [Fds -> Clients \cup {None}]
  /\ fdt \in [Fds -> FileTable]
  /\ proc \in [Pids -> Procs]
  /\ stolen \in BOOLEAN

\* handleEvent casts udata to a Client without asking.  While the loop runs, an
\* event or knote for a freed Client can only be one of a pipe that ~Client left
\* open; a timer is always that of a live client, under its own socket number.
UdataLive ==
  InLoop => \A k \in kn \cup batch :
    k.udata # None =>
      /\ cl[k.udata].life = "freed" => k.filter \in {"READ", "WRITE"} /\ k.id # cl[k.udata].sock
      /\ k.filter = "TIMER" => cl[k.udata].life = "live" /\ k.id = cl[k.udata].sock

\* handleEndProcess calls waitpid without WNOHANG in the only thread.  It never
\* blocks the server: an exit event finds a client that still has that pid, and
\* the process has exited and is not yet reaped.
WaitNeverBlocks ==
  InLoop => \A e \in batch :
    e.filter = "PROC" =>
      /\ cl[e.udata].life = "live" /\ cl[e.udata].pid = e.id
      /\ proc[e.id] \in Exited

\* kill is never called for the pid -1 a failed fork left in _pid, nor for a
\* process that was reaped: whoever is killed is the unreaped child of a client.
KillsOnlyOwnChild ==
  [][\A p \in Pids :
       proc'[p] = "killed" /\ proc[p] # "killed" =>
         /\ proc[p] \in {"running"} \cup Exited
         /\ \E c \in Live : cl[c].pid = p /\ cl'[c].pid # p]_vars

\* A connection either awaits a request or sends an answer, never both and never
\* neither: exactly one of READ and WRITE is registered on its socket.
HalfDuplex ==
  InLoop /\ ~stolen => \A c \in Live :
    (Knote("READ", cl[c].sock, c) \in kn) # (Knote("WRITE", cl[c].sock, c) \in kn)

\* Every connection has its 60 s timer: what the loop does with its socket, its
\* pipes and its child never leaves it without one.
TimerArmed ==
  InLoop /\ ~stolen => \A c \in Live : Knote("TIMER", cl[c].sock, c) \in kn

\* The kernel reports an exit once.  The report is lost only when the clean-up of a
\* client makes handleEvent return with the rest of the batch unhandled; in any
\* other step of the loop it stays registered or pending, or the child is ended.
ExitNotLost ==
  [][\A c \in Live :
       LET seen == Knote("PROC", cl[c].pid, c)
       IN  seen \in kn \cup batch /\ seen \notin kn' \cup batch' /\ mode' = "loop" =>
             \/ proc'[cl[c].pid] \in {"reaped", "killed"}
             \/ \E d \in Live : cl'[d].life = "freed"]_vars

\* A running child is the child of a connection that is still open: error
\* answers, timeouts and disconnections never leave one behind.
NoOrphanChild ==
  InLoop => \A p \in Pids : proc[p] = "running" => \E c \in Live : cl[c].pid = p

\* While a request waits for its script, the loop watches the script's output
\* (unless its end was read already), so that the answer can be built.
CgiWatched ==
  InLoop /\ ~stolen => \A c \in Live :
    cl[c].pid \in Pids /\ cl[c].code < 400 /\ ~cl[c].resp =>
      Knote("READ", cl[c].rfd, c) \in kn

\* Operation::_clients holds the open connections and no others: ~Operation would
\* delete a stale entry a second time.
RegistryLive ==
  InLoop => /\ \A f \in Fds : clients[f] # None => clients[f] \in Live /\ cl[clients[f]].sock = f
            /\ ~stolen => \A c \in Live : clients[cl[c].sock] = c

\* A 200 answer is on its way only when the request it answers is done with: all of its
\* header came, a GET or DELETE had the body it announced, and a script, which a POST or
\* PUT always has, was started and has been waited for.  (Whether the script was given
\* the whole body is InputWhole of CgiExchange.)
NoEarlyReply ==
  InLoop => \A c \in Live :
    Knote("WRITE", cl[c].sock, c) \in kn /\ cl[c].code < 400 =>
      /\ cl[c].st = "DONE"
      /\ cl[c].method # "POST" => cl[c].body # "short"
      /\ cl[c].pid = None

\* Once an answer is being sent its status stays what it is until the whole of it is
\* out (WRITE is deregistered) or the connection is gone, whatever the script, its
\* pipes and the peer do meanwhile.
AnswerIsFinal ==
  [][\A c \in Live :
       /\ Knote("WRITE", cl[c].sock, c) \in kn
       /\ cl'[c].code # cl[c].code
       /\ mode' = "loop" /\ ~stolen
       => cl'[c].life = "freed" \/ Knote("WRITE", cl[c].sock, c) \notin kn']_vars

\* Only scripts can stop the server: as long as none was started, no fork failed, header
\* fields are well formed and roots name a directory, the loop is left only when accept
\* fails.
OnlyCgiTakesItDown ==
  {"fork", "field", "root"} \cap Faults = {} /\ (\A p \in Pids : proc[p] = "unused") =>
    mode \in {"loop", "exited"} /\ ~stolen

-----------------------------------------------------------------------------
(* Liveness. *)

DeliverTimer(c) == Kevent /\ Knote("TIMER", cl[c].sock, c) \in batch'

\* The loop goes on, and no peer keeps its connection busy for ever: some 60 s
\* without an event on the socket come about again and again.
FairSpec ==
  /\ Spec
  /\ WF_vars(InLoop /\ (Kevent \/ \E e \in batch : HandleEvent(e)))
  /\ \A c \in Clients : SF_vars(InLoop /\ DeliverTimer(c))

\* A connection does not last for ever: it is closed and its Client freed.
Reclaimed ==
  \A c \in Clients : cl[c].life = "live" ~> cl[c].life = "freed" \/ ~InLoop \/ stolen

\* "py timeout while(loop)" (README.md): a script that never ends is killed.
CgiTimesOut ==
  \A p \in Pids : proc[p] = "running" ~> proc[p] # "running" \/ ~InLoop \/ stolen

-----------------------------------------------------------------------------
(* EventLoop implements Connection. *)

Up == InLoop /\ ~stolen

Answering(c) == Knote("WRITE", cl[c].sock, c) \in kn

Stage(c) ==
  CASE ~Up                                       -> "lost"
    [] Up /\ cl[c].life = "unborn"               -> "unborn"
    [] Up /\ cl[c].life = "freed"                -> "closed"
    [] Up /\ cl[c].life = "live" /\ Answering(c)  -> "answering"
    [] Up /\ cl[c].life = "live" /\ ~Answering(c) -> "awaiting"

Status(c) == IF Stage(c) = "answering" THEN cl[c].code ELSE 200

Conversation ==
  INSTANCE Connection WITH
    stage <- [c \in Clients |-> Stage(c)],
    code  <- [c \in Clients |-> Status(c)],
    up    <- Up

\* Towards every peer, requests and answers alternate and an answer keeps its status:
\* no batch, child or pipe event of another connection, or of its own, breaks in.
Converses == Conversation!Spec
=============================================================================
