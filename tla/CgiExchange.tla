---------------------------- MODULE CgiExchange ----------------------------
(***************************************************************************)
(* What passes through the pipes between a connection and its script: the  *)
(* request's body on the way in, the answer on the way out, and what of it *)
(* the peer gets.  EventLoop says when which event is watched; this module *)
(* keeps the bytes, one connection and one event at a time.                *)
(*                                                                         *)
(* Text is a sequence of words, CRLF being one of them and counting as two *)
(* bytes, every other word as one.                                         *)
(***************************************************************************)
EXTENDS Integers, SequencesExt, TLC

CONSTANTS Words,    \* the words of a text
          Bodies,   \* the bodies of requests
          Outputs,  \* what scripts print: [first, fields, blank, body]
          Capacity, \* the bytes a pipe holds
          MaxTurns  \* the requests of the connection

CRLF == "\r\n"

ASSUME Bounds == Capacity \in Nat \ {0} /\ MaxTurns \in Nat

Texts == [first : Seq(Words), fields : Seq(Words), blank : BOOLEAN, body : Seq(Words)]

\* An output with a header has a first line, lines that are not empty, an empty line.
Header(o) ==
  /\ o.first # <<>> /\ \A i \in 1..Len(o.first) : o.first[i] # CRLF
  /\ o.fields # <<>> =>
       /\ o.fields[1] # CRLF /\ o.fields[Len(o.fields)] = CRLF
       /\ \A i \in 1..Len(o.fields) - 1 : ~(o.fields[i] = CRLF /\ o.fields[i + 1] = CRLF)

ASSUME Inputs ==
  /\ CRLF \in Words
  /\ Bodies \subseteq Seq(Words)
  /\ Outputs \subseteq Texts
  /\ \A o \in Outputs : o.blank => Header(o)

VARIABLES
  sock,  \* the event registered on the socket, or how the connection ended
  cl,    \* the Client, and of its Request the body
  sc,    \* the script
  inp,   \* the pipe to its standard input
  outp,  \* the pipe from its standard output
  ask,   \* history: the request that is being answered, or was last
  out,   \* history: what the peer has got of that answer
  turns, \* how many requests there were
  race   \* history: "early", "mixed" and "gone" as far as they have happened

vars == <<sock, cl, sc, inp, outp, ask, out, turns, race>>

\* "left": the loop is left (SIGPIPE, or an int that nothing catches);
\* "undefined": bytes beyond the end of _responseStr are sent.
Socks == {"read", "write", "closed", "left", "undefined"}

Kinds == {"static", "get", "post", "chunked"}

\* "early": a script's exit was handled before the end of its output; "mixed": its
\* output was read to the end in an error answer, or into another request; "gone":
\* the peer or the timer closed the connection.
Races == {"early", "mixed", "gone"}

Connected == sock \in {"read", "write"}

-----------------------------------------------------------------------------
(* Texts. *)

Bytes(s) == Len(s) + Len(SelectSeq(s, LAMBDA w : w = CRLF))

\* What a script prints when it prints o.
Printed(o) ==
  IF o.first = <<>> THEN <<>>
  ELSE o.first \o <<CRLF>> \o o.fields \o (IF o.blank THEN <<CRLF>> ELSE <<>>) \o o.body

\* What handleError writes, and handleGet of a file.
Page(code) == <<ToString(code), CRLF, "some", "longer", "page">>

\* The status line and the Content-Length that readPipe puts before an output.
Lead(length) == <<"200", length, CRLF>>

\* The reference: the answer a peer should get of it.
Reply(o) == Lead(ToString(Bytes(o.body))) \o o.fields \o <<CRLF>> \o o.body

\* find, which returns npos when there is nothing; here 0.
Find(S) == IF S = {} THEN 0 ELSE Min(S)

FirstLine(msg) == Find({i \in 1..Len(msg) : msg[i] = CRLF})

Blank(msg) == Find({i \in 1..Len(msg) - 1 : msg[i] = CRLF /\ msg[i + 1] = CRLF})

\* Mutant: the empty line itself is counted.
LengthAfterLine(msg) ==
  IF Blank(msg) # 0 THEN ToString(Bytes(SubSeq(msg, Blank(msg) + 1, Len(msg)))) ELSE "wrapped"

\* cgiBodySize.  Without an empty line find returns npos, and npos + 4 is 3: the
\* length is off, or wraps.
Length(msg) ==
  IF Blank(msg) # 0 THEN ToString(Bytes(SubSeq(msg, Blank(msg) + 2, Len(msg))))
  ELSE IF Bytes(msg) >= 3 THEN ToString(Bytes(msg) - 3) ELSE "wrapped"

\* The first line is replaced.  Without one, npos + 2 is 1.
Wrapped(msg) ==
  Lead(Length(msg)) \o SubSeq(msg, IF FirstLine(msg) = 0 THEN 2 ELSE FirstLine(msg) + 1, Len(msg))

-----------------------------------------------------------------------------
\* _bodyTotalSize is Len(body) whenever writePipe reads it.
NewClient ==
  [body |-> <<>>, ended |-> FALSE, written |-> 0, wopen |-> FALSE, ropen |-> FALSE,
   pid |-> FALSE, code |-> 200, buf |-> <<>>, resp |-> <<>>, index |-> 0]

\* Mutant: clearRequest does not reset _writeIndex.
ClearedWritten(c) ==
  [NewClient EXCEPT !.wopen = c.wopen, !.ropen = c.ropen, !.pid = c.pid, !.written = c.written]

\* clearClient and clearRequest leave the pipes and the pid.
Cleared(c) == [NewClient EXCEPT !.wopen = c.wopen, !.ropen = c.ropen, !.pid = c.pid]

NoOutput == [first |-> <<>>, fields |-> <<>>, blank |-> FALSE, body |-> <<>>]

\* lost: the report of its exit was dropped with the rest of a batch.
NoScript ==
  [state |-> "none", prints |-> NoOutput, waits |-> FALSE, got |-> <<>>, said |-> 0, lost |-> FALSE]

Init ==
  /\ sock = "read" /\ cl = NewClient /\ sc = NoScript
  /\ inp = <<>> /\ outp = <<>>
  /\ ask = [kind |-> "static", full |-> <<>>, code |-> 200, done |-> TRUE]
  /\ out = <<>> /\ turns = 0 /\ race = {}

\* handleError: the answer becomes an error page.
Fail(c, code) ==
  /\ cl' = [c EXCEPT !.code = code, !.resp = Page(code)]
  /\ sock' = "write"
  /\ ask' = [ask EXCEPT !.code = code]

\* What of the body has come with these bytes: all of it (handlePost), unless it is
\* over the limit, or some of its chunks (parsingChunkedData), unless they are broken.
TakeBody(c, full, kind) ==
  \/ kind = "post" /\ cl' = [c EXCEPT !.body = full, !.ended = TRUE]
  \/ kind = "chunked" /\ \E n \in Len(c.body)..Len(full) : \E end \in {FALSE, n = Len(full)} :
       cl' = [c EXCEPT !.body = SubSeq(full, 1, n), !.ended = end]

\* handlePostCgi, handleGetCgi: the pipes and the child.  A GET leaves _writeFd, which
\* may still name the pipe of an earlier script.
Spawned(c, kind) == [c EXCEPT !.pid = TRUE, !.ropen = TRUE, !.wopen = @ \/ kind # "get"]

\* A request's header has come, perhaps with some of the body.
Ask ==
  /\ sock = "read" /\ ask.done /\ turns < MaxTurns
  /\ turns' = turns + 1
  /\ out' = <<>>
  /\ \E kind \in Kinds, full \in Bodies :
       /\ ask' = [kind |-> kind, full |-> IF kind \in {"post", "chunked"} THEN full ELSE <<>>,
                  code |-> 200, done |-> FALSE]
       /\ \/ /\ kind = "static"
             /\ cl' = [cl EXCEPT !.buf = @ \o Page(200), !.resp = cl.buf \o Page(200)]
             /\ sock' = "write"
             /\ UNCHANGED <<sc, inp, outp>>
          \/ /\ kind # "static"
             /\ \/ cl' = Spawned(cl, kind)
                \/ TakeBody(Spawned(cl, kind), full, kind)
             /\ \E o \in Outputs, waits \in BOOLEAN :
                  sc' = [NoScript EXCEPT !.state = "running", !.prints = o,
                                         !.waits = waits /\ kind # "get"]
             /\ inp' = <<>> /\ outp' = <<>>
             /\ UNCHANGED sock
  /\ UNCHANGED race

\* More of the body.
ReceiveBody ==
  /\ sock = "read" /\ ~ask.done /\ ~cl.ended
  /\ \/ TakeBody(cl, ask.full, ask.kind) /\ UNCHANGED <<sock, ask>>
     \/ /\ ask.kind = "post" /\ Fail([cl EXCEPT !.body = ask.full], 413)
     \/ /\ ask.kind = "chunked" /\ \E code \in {400, 413} : Fail(cl, code)
  /\ UNCHANGED <<sc, inp, outp, out, turns, race>>

\* Mutant: the pipe is closed whenever there is nothing to write.
AllWrittenSoFar(c) == TRUE

\* Mutant: the end of the body is never noticed.
AllWrittenNever(c) == FALSE

\* writePipe has written nothing: is that the end of the body?
AllWritten(c) == c.ended

\* The script behind _writeFd has exited.
Unread == sc.state # "running" \/ ask.kind = "get"

\* writePipe.  A pipe that nobody reads raises SIGPIPE.
WritePipe ==
  /\ Connected /\ cl.wopen
  /\ \/ /\ Unread
        /\ sock' = "left"
        /\ UNCHANGED <<cl, inp>>
     \/ /\ ~Unread /\ Len(inp) < Capacity
        /\ \/ /\ cl.written < Len(cl.body)
              /\ \E n \in 1..Len(cl.body) - cl.written :
                   /\ n <= Capacity - Len(inp)
                   /\ inp' = inp \o SubSeq(cl.body, cl.written + 1, cl.written + n)
                   /\ cl' = [cl EXCEPT !.written = @ + n]
           \/ /\ cl.written = Len(cl.body) /\ AllWritten(cl)
              /\ cl' = [cl EXCEPT !.wopen = FALSE]
              /\ UNCHANGED inp
        /\ UNCHANGED sock
  /\ UNCHANGED <<sc, outp, ask, out, turns, race>>

\* The script's output is not, or no longer, that of the answer that is due.
Foreign == ask.done \/ ask.kind = "static"

\* Mutant: _responseStr is not set.
EndOfOutputUnset(c) == [c EXCEPT !.buf = Wrapped(c.buf), !.ropen = FALSE]

\* The end of the output makes the answer of what was read.
EndOfOutput(c) ==
  [c EXCEPT !.buf = Wrapped(c.buf), !.resp = Wrapped(c.buf), !.ropen = FALSE]

\* readPipe.  Without any output substr throws out_of_range, after the first lines of
\* an answer were put in _responseBuffer and before the pipe is closed.
ReadPipe ==
  /\ Connected /\ cl.ropen
  /\ \/ /\ \E n \in 1..Len(outp) :
             /\ cl' = [cl EXCEPT !.buf = @ \o SubSeq(outp, 1, n)]
             /\ outp' = SubSeq(outp, n + 1, Len(outp))
        /\ race' = IF Foreign THEN race \cup {"mixed"} ELSE race
     \/ /\ outp = <<>> /\ sc.state # "running"
        /\ cl' = IF cl.buf = <<>> THEN [cl EXCEPT !.buf = Lead("wrapped")] ELSE EndOfOutput(cl)
        /\ race' = IF Foreign \/ cl.code # 200 THEN race \cup {"mixed"} ELSE race
        /\ UNCHANGED outp
  /\ UNCHANGED <<sock, sc, inp, ask, out, turns>>

\* The script has exited and the server has not waited for it.
Unreaped == cl.pid /\ sc.state \in {"exit0", "exit1"}

\* handleEndProcess.  The socket may wait to write already: then both
\* deleteSocketReadEvent and handleError throw.
EndProcess ==
  /\ Connected /\ Unreaped /\ ~sc.lost
  /\ sc' = [sc EXCEPT !.state = "reaped"]
  /\ LET c == [cl EXCEPT !.pid = FALSE]
     IN  \/ sock = "write" /\ sock' = "left" /\ cl' = c /\ UNCHANGED ask
         \/ /\ sock = "read" /\ sc.state = "exit1"
            /\ Fail([c EXCEPT !.buf = <<>>], 400)
         \/ sock = "read" /\ sc.state = "exit0" /\ sock' = "write" /\ cl' = c /\ UNCHANGED ask
  /\ race' = IF cl.ropen THEN race \cup {"early"} ELSE race
  /\ UNCHANGED <<inp, outp, out, turns>>

\* The kernel reports an exit once, and handleEvent drops what is left of a batch when
\* it has cleaned up another connection: nobody waits for the script any more.
LoseExit ==
  /\ Connected /\ Unreaped /\ ~sc.lost
  /\ sc' = [sc EXCEPT !.lost = TRUE]
  /\ UNCHANGED <<sock, cl, inp, outp, ask, out, turns, race>>

\* closePipeFd.
Shut(c) == [c EXCEPT !.wopen = FALSE, !.ropen = FALSE]

\* closePipeFd, deletePidEvent and kill.
Ended(c) == [Shut(c) EXCEPT !.pid = FALSE]

\* deletePidEvent throws when the exit was reported before: in this batch or, for
\* certain, in one that was dropped.
PidKnown == cl.pid => ~sc.lost
PidUnknown == Unreaped

EndScript(c) == IF c.pid THEN Ended(c) ELSE c

Killed == IF cl.pid THEN [sc EXCEPT !.state = "killed"] ELSE sc

\* sendData: in an error answer the script is ended, and when deletePidEvent throws so
\* does handleError, after some bytes went out; nothing to send closes the connection;
\* after the last byte the next request is awaited.
SendData ==
  /\ sock = "write"
  /\ LET c == IF cl.code >= 400 THEN EndScript(cl) ELSE cl
         ends == cl.code >= 400 => PidKnown
     IN  \/ c.index > Len(c.resp) /\ sock' = "undefined" /\ UNCHANGED <<cl, ask, out>>
         \/ /\ c.index = Len(c.resp) /\ ends
            /\ sock' = "closed" /\ cl' = NewClient /\ UNCHANGED <<ask, out>>
         \/ \E n \in 1..Len(c.resp) - c.index :
              /\ ends
              /\ out' = out \o SubSeq(c.resp, c.index + 1, c.index + n)
              /\ IF c.index + n = Len(c.resp)
                 THEN /\ cl' = Cleared(c) /\ sock' = "read"
                      /\ ask' = [ask EXCEPT !.done = TRUE]
                 ELSE cl' = [c EXCEPT !.index = @ + n] /\ UNCHANGED <<sock, ask>>
         \/ /\ cl.code >= 400 /\ PidUnknown
            /\ \E n \in 0..Len(cl.resp) - cl.index :
                 out' = out \o SubSeq(cl.resp, cl.index + 1, cl.index + n)
            /\ sock' = "left" /\ cl' = Shut(cl) /\ UNCHANGED ask
  /\ sc' = IF sock' = "closed" \/ (cl.code >= 400 /\ sock' # "left") THEN Killed ELSE sc
  /\ UNCHANGED <<inp, outp, turns, race>>

\* The timer fires, or the peer is gone.  When deletePidEvent throws in ~Client, the
\* loop is left.
Close ==
  /\ Connected
  /\ \/ /\ PidKnown
        /\ sock' = "closed" /\ cl' = NewClient /\ sc' = Killed
     \/ /\ PidUnknown
        /\ sock' = "left" /\ cl' = Cleared(Shut(cl)) /\ UNCHANGED sc
  /\ race' = race \cup {"gone"}
  /\ UNCHANGED <<inp, outp, ask, out, turns>>

-----------------------------------------------------------------------------
(* The script: it reads its input, perhaps all of it before it prints, prints, and *)
(* exits; with 1 at any time, with 0 when it has printed everything. *)

Running == sc.state = "running"

AtEof == inp = <<>> /\ ~cl.wopen

ScriptReads ==
  /\ Running
  /\ \E n \in 1..Len(inp) :
       /\ sc' = [sc EXCEPT !.got = @ \o SubSeq(inp, 1, n)]
       /\ inp' = SubSeq(inp, n + 1, Len(inp))
  /\ UNCHANGED <<sock, cl, outp, ask, out, turns, race>>

ScriptPrints ==
  /\ Running
  /\ sc.waits => AtEof
  /\ \E n \in 1..Len(Printed(sc.prints)) - sc.said :
       /\ n <= Capacity - Len(outp)
       /\ outp' = outp \o SubSeq(Printed(sc.prints), sc.said + 1, sc.said + n)
       /\ sc' = [sc EXCEPT !.said = @ + n]
  /\ UNCHANGED <<sock, cl, inp, ask, out, turns, race>>

ScriptFinishes ==
  /\ Running
  /\ sc.said = Len(Printed(sc.prints))
  /\ sc.waits => AtEof
  /\ sc' = [sc EXCEPT !.state = "exit0"]
  /\ UNCHANGED <<sock, cl, inp, outp, ask, out, turns, race>>

ScriptFails ==
  /\ Running
  /\ sc' = [sc EXCEPT !.state = "exit1"]
  /\ UNCHANGED <<sock, cl, inp, outp, ask, out, turns, race>>

Server == WritePipe \/ ReadPipe \/ EndProcess \/ SendData

ScriptGoesOn == ScriptReads \/ ScriptPrints \/ ScriptFinishes

Next == Ask \/ ReceiveBody \/ Server \/ LoseExit \/ Close \/ ScriptGoesOn \/ ScriptFails

Spec == Init /\ [][Next]_vars

\* The kernel reports every event again until it is handled; scripts read, print and
\* come to their end, if nothing keeps them waiting; the peer sends all of its body.
\* That an exit is handled is fair only because its loss is an action of its own.
FairSpec ==
  /\ Spec
  /\ WF_vars(WritePipe) /\ WF_vars(ReadPipe) /\ WF_vars(EndProcess) /\ WF_vars(SendData)
  /\ WF_vars(ScriptGoesOn)
  /\ WF_vars(ReceiveBody /\ cl'.ended)

-----------------------------------------------------------------------------
TypeOK ==
  /\ sock \in Socks
  /\ cl.written \in 0..Len(cl.body)
  /\ cl.code \in {200, 400, 413}
  /\ cl.ended \in BOOLEAN /\ cl.wopen \in BOOLEAN /\ cl.ropen \in BOOLEAN /\ cl.pid \in BOOLEAN
  /\ sc.state \in {"none", "running", "exit0", "exit1", "reaped", "killed"}
  /\ sc.lost \in BOOLEAN
  /\ Len(inp) <= Capacity /\ Len(outp) <= Capacity
  /\ race \subseteq Races

\* A script is given the body of its request and nothing else, byte for byte and in
\* order, however it arrives; its end of input means that it was given all of it.
InputWhole ==
  sc.state = "running" /\ ask.kind \in {"post", "chunked"} =>
    /\ IsPrefix(sc.got \o inp, ask.full)
    /\ ~cl.wopen => sc.got \o inp = ask.full

Wanted ==
  CASE ask.code # 200 -> Page(ask.code)
    [] ask.code = 200 /\ ask.kind = "static" -> Page(200)
    [] ask.code = 200 /\ ask.kind # "static" -> Reply(sc.prints)

\* Whatever the order of the pipe events, the exit and the writes to the socket: what
\* the peer gets is the beginning of the right answer, and all of it when the server
\* takes it for sent; unless output was read in an error answer or after it.
AnswerWhole ==
  "mixed" \notin race /\ (sc.state # "none" => sc.prints.blank) =>
    IF ask.done THEN turns > 0 => out = Wanted ELSE IsPrefix(out, Wanted)

\* The server closes a connection of its own accord, with nothing answered, only when
\* a script's exit was handled before its output was read to the end; and it never
\* sends bytes from beyond the answer.
LostOnlyByRace ==
  race \cap {"gone", "mixed"} = {} /\ sock \in {"closed", "undefined"} =>
    sock = "closed" /\ out = <<>> /\ "early" \in race

\* A request is answered or its connection ends: input, output and exit of the script
\* never wait for one another.  The one exception is a script whose exit was reported
\* in a batch that another connection's clean-up cut short; then only the timer is left.
Answered == ~ask.done ~> ask.done \/ ~Connected \/ sc.lost
=============================================================================
