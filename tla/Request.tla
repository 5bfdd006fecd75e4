------------------------------ MODULE Request ------------------------------
(***************************************************************************)
(* The Request of one connection: bytes that arrive in pieces, the header  *)
(* parser, the choice of server, location and file, and the reset between  *)
(* two requests.  What happens to an answer afterwards is EventLoop's.     *)
(*                                                                         *)
(* Bytes are grouped into words: a token's letters may be one word or      *)
(* several, and the separators the parser looks for are words.  Every word *)
(* of a body counts as one byte.                                           *)
(***************************************************************************)
EXTENDS Integers, SequencesExt

CONSTANTS Word,    \* the words peers and configuration files use
          Servers, \* _servers: the servers of each port, in the order of the file
          Talks,   \* what peers say: sequences of requests
          Patience,\* whether a peer waits for an answer before it goes on
          Numbers, \* the value of the words that are numbers
          None     \* an empty client_max_body_size; no server

CRLF == "\r\n"
Blank == " "
Colon == <<":", Blank>>

\* d occurs in s at i.
At(s, d, i) == i + Len(d) - 1 <= Len(s) /\ \A j \in DOMAIN d : s[i + j - 1] = d[j]

Locations == [path : Seq(Word), root : Seq(Word), limit : SUBSET Seq(Word), max : Nat \cup {None}]

RequestObject ==
  [state : {"READY", "CREATE", "DONE"}, buffer : Seq(Word), start : Nat, method : Seq(Word),
   path : Seq(Word), length : Seq(Word), coding : Seq(Word), host : Seq(Word), server : Nat,
   location : Locations, file : Seq(Word)]

\* Length 0: no location has been found.
NoLocation == [path |-> <<>>, root |-> <<>>, limit |-> {}, max |-> None]

ASSUME ServersKnown ==
  \A p \in DOMAIN Servers :
    /\ Servers[p] # <<>>
    /\ Servers[p] \in Seq([names : SUBSET Seq(Word), root : Seq(Word),
                          locations : Seq(Locations)])
    /\ \A i \in DOMAIN Servers[p] :
         \A j, k \in DOMAIN Servers[p][i].locations :
           Servers[p][i].locations[j].path = Servers[p][i].locations[k].path => j = k

\* What stands between the name and the value of a field, if it is not ": ".
Odd(f) == \A i \in 1..Len(f.sep \o f.value) : ~At(f.sep \o f.value, Colon, i)

FieldLines ==
  {f \in [name : Seq(Word \ {":", CRLF}) \ {<<>>}, sep : {<<>>, <<":">>, Colon},
          value : Seq(Word \ {CRLF})] : f.sep # Colon => Odd(f)}

Requests ==
  [verb : Seq(Word \ {Blank, CRLF}) \ {<<>>}, target : Seq(Word \ {CRLF}),
   version : Word \ {Blank, CRLF}, fields : Seq(FieldLines), body : Seq(Word)]

ASSUME TalksKnown == Talks \subseteq Seq(Requests)

ASSUME WordsKnown == {CRLF, ":", Blank, "/"} \subseteq Word

ASSUME NumbersKnown == \A w \in DOMAIN Numbers : Numbers[w] \in Nat

ASSUME PatienceIsBoolean == Patience \subseteq BOOLEAN

VARIABLES
  port,    \* the port the connection was accepted on
  req,     \* the Request object
  conn,    \* what the loop does with the connection
  wire,    \* bytes sent that recv has not delivered
  talk,    \* the requests of this peer
  sent,    \* how many of them it has sent
  patient, \* whether it waits for each answer
  answers, \* history: the answers, each with the request fields it was made from
  skewed   \* history: bytes of the talk were thrown away, or left for the next request

vars == <<port, req, conn, wire, talk, sent, patient, answers, skewed>>

\* "waiting": READ is registered; "script": the same, and a script runs;
\* "answering": only WRITE is; "undefined": an element of an empty vector was used.
Conns == {"waiting", "script", "answering", "closed", "undefined"}

OK == 0

Undefined == 1

Errors == {OK, Undefined, 400, 404, 405, 413, 500, 505}

-----------------------------------------------------------------------------
(* Strings. *)

\* std::string::find: the first d from n on, or the end.
Find(s, d, n) == Min({i \in n..Len(s) + 1 : i = Len(s) + 1 \/ At(s, d, i)})

\* util::getToken: the pieces of s between occurrences of d, without the empty ones; each
\* begins one word after the start of the occurrence before it, however long d is.
Tokens(s, d) ==
  LET T[n \in 1..Len(s) + 1] ==
        LET end  == Find(s, d, n)
            rest == IF end > Len(s) THEN <<>> ELSE T[end + 1]
        IN  IF end = n THEN rest ELSE <<SubSeq(s, n, end - 1)>> \o rest
  IN  T

GetToken(s, d) == Tokens(s, d)[1]

MultipleSpaces(s) == \E i \in 1..Len(s) - 1 : s[i] = Blank /\ s[i + 1] = Blank

Holds(s, w) == \E i \in DOMAIN s : s[i] = w

\* std::string::substr up to the first w.
Before(s, w) == SubSeq(s, 1, Find(s, <<w>>, 1) - 1)

\* util::stoui: 0 for what is no number.
Stoui(s) == IF Len(s) = 1 /\ s[1] \in DOMAIN Numbers THEN Numbers[s[1]] ELSE 0

-----------------------------------------------------------------------------
(* The header: setRequestLine and setFieldLine throw, or assign. *)

Verbs == {<<"GET">>, <<"DELETE">>, <<"POST">>, <<"PUT">>}

RequestLineError(line) ==
  LET token == GetToken(line, <<Blank>>)
  IN  IF MultipleSpaces(line) \/ Len(token) # 3 THEN 400
      ELSE IF token[1] \notin Verbs THEN 405
      ELSE IF token[3] # <<"HTTP/1.1">> THEN 505 ELSE OK

SetRequestLine(r, line) ==
  LET token == GetToken(line, <<Blank>>)
  IN  [r EXCEPT !.method = token[1], !.path = token[2]]

\* token[1] is used before their number is asked for; the blank after the colon is
\* still its first character.
FieldLineError(line) ==
  LET token == GetToken(line, Colon)
      bad   == Len(token) # 2 \/ Len(token[2]) = 1 \/ Holds(token[1], Blank)
  IN  IF MultipleSpaces(line) THEN 400
      ELSE IF Len(token) < 2 THEN Undefined
      ELSE IF bad THEN 400 ELSE OK

\* The fields that decide anything.  _port is set as well, but never read.
SetFieldLine(r, line) ==
  LET token == GetToken(line, Colon)
      value == Tail(token[2])
  IN  CASE token[1] = <<"Host">>              -> [r EXCEPT !.host = Before(value, ":")]
        [] token[1] = <<"Content-Length">>    -> [r EXCEPT !.length = value]
        [] token[1] = <<"Transfer-Encoding">> -> [r EXCEPT !.coding = value]
        [] OTHER -> r

\* Mutant: what follows the first end of line is not compared.
HeaderEndEarly(buffer) ==
  LET ends == {i \in 1..Len(buffer) - 1 : buffer[i] = CRLF}
  IN  IF ends = {} THEN 0 ELSE Min(ends)

\* Where the empty line begins, or 0.
HeaderEnd(buffer) ==
  LET ends == {i \in 1..Len(buffer) - 1 : buffer[i] = CRLF /\ buffer[i + 1] = CRLF}
  IN  IF ends = {} THEN 0 ELSE Min(ends)

\* The n-th line, from was.next on.
ReadLine(was, n) ==
  LET end   == Find(was.req.buffer, <<CRLF>>, was.next)
      line  == SubSeq(was.req.buffer, was.next, end - 1)
      error == IF n = 1 THEN RequestLineError(line) ELSE FieldLineError(line)
  IN  IF error # OK THEN [was EXCEPT !.error = error]
      ELSE [error |-> OK, next |-> end + 1,
            req |-> IF n = 1 THEN SetRequestLine(was.req, line) ELSE SetFieldLine(was.req, line)]

\* The loop of parsingHeader, after n lines; a throw leaves it.
Reading(r, end) ==
  LET Read[n \in 0..end] ==
        IF n = 0 THEN [error |-> OK, next |-> 1, req |-> r]
        ELSE LET was == Read[n - 1]
             IN  IF n > 1 /\ (was.error # OK \/ was.next >= end) THEN was ELSE ReadLine(was, n)
  IN  Read

\* parsingHeader, when the header is complete.  What the lines before a bad one have
\* set stays set.
ParsingHeader(r) ==
  LET end  == HeaderEnd(r.buffer)
      read == Reading(r, end)[end]
  IN  [error |-> read.error,
       req   |-> IF read.error # OK THEN read.req
                 ELSE [read.req EXCEPT !.start = end + 1, !.state = "CREATE"]]

-----------------------------------------------------------------------------
(* Routing. *)

\* findServer: the first that has the name, or the first.
FindServer(r) ==
  LET named == SelectInSeq(Servers[port], LAMBDA s : r.host \in s.names)
  IN  IF named = 0 THEN 1 ELSE named

\* Mutant: any match replaces the one before.
LongerAny(l, best, path) == IsPrefix(l.path, path)

Longer(l, best, path) == IsPrefix(l.path, path) /\ Len(best.path) < Len(l.path)

\* The loop of findLocationPath.
FindLocation(locations, path) ==
  LET Best[n \in 0..Len(locations)] ==
        IF n = 0 THEN NoLocation
        ELSE IF Longer(locations[n], Best[n - 1], path) THEN locations[n] ELSE Best[n - 1]
  IN  Best[Len(locations)]

\* Mutant: the "/" after the location's path is erased as well.
ConvertGlued(path, l, root) ==
  root \o SubSeq(path, Len(l.path) + 2, Len(path))

\* Mutant: the root is forgotten.
ConvertRootless(path, l, root) == IF Last(path) = "/" THEN Front(path) ELSE path

\* The root replaces the location's path, unless that is "/"; a "/" at the end goes.
Convert(path, l, root) ==
  LET rest == IF root # <<>> /\ Len(l.path) # 1 THEN SubSeq(path, Len(l.path) + 1, Len(path)) ELSE path
      full == root \o rest
  IN  IF full # <<>> /\ Last(full) = "/" THEN Front(full) ELSE full

\* findServer and findLocationPath; without a match _location stays what it was.
Route(r) ==
  LET s    == FindServer(r)
      l    == FindLocation(Servers[port][s].locations, r.path)
      root == IF l.root # <<>> THEN l.root ELSE Servers[port][s].root
  IN  IF l = NoLocation THEN [r EXCEPT !.server = s]
      ELSE [r EXCEPT !.server = s, !.location = l, !.file = Convert(r.path, l, root)]

Unlocated(r) == FindLocation(Servers[port][FindServer(r)].locations, r.path) = NoLocation

\* checkLimitExcept: DELETE must be listed, the others only if there is a list.
Allowed(l, method) == method \in l.limit \/ (l.limit = {} /\ method # <<"DELETE">>)

-----------------------------------------------------------------------------
(* Client::handleResponse, as far as it decides that an answer is due. *)

\* What follows the header.
Body(r) == SubSeq(r.buffer, r.start + 1, Len(r.buffer))

Complete(r) == Len(Body(r)) = Stoui(r.length)

\* isFilePy splits the path at "/", and looks at the last name.
Names(file) == GetToken(file, <<"/">>)

IsFilePy(file) == Holds(Last(Names(file)), ".py")

TooLarge(r) == r.location.max # None /\ Stoui(r.length) > r.location.max

-----------------------------------------------------------------------------
(* The members the constructor initialises; clearRequest. *)

NewRequest ==
  [state |-> "READY", buffer |-> <<>>, start |-> 0, method |-> <<>>, path |-> <<>>,
   length |-> <<>>, coding |-> <<>>, host |-> <<>>, server |-> 0,
   location |-> NoLocation, file |-> <<>>]

\* Mutant: _bodyStartIndex is kept as well.
ClearedFrom(r) ==
  [NewRequest EXCEPT !.host = r.host, !.server = r.server, !.location = r.location,
                     !.start = r.start]

\* Mutant: _contentLength is kept as well.
ClearedShort(r) ==
  [NewRequest EXCEPT !.host = r.host, !.server = r.server, !.location = r.location,
                     !.length = r.length]

\* _host, _server and _location are kept.
Cleared(r) ==
  [NewRequest EXCEPT !.host = r.host, !.server = r.server, !.location = r.location]

Init ==
  /\ port \in DOMAIN Servers
  /\ req = NewRequest
  /\ conn = "waiting"
  /\ wire = <<>>
  /\ talk \in Talks
  /\ sent = 0
  /\ patient \in Patience
  /\ answers = <<>>
  /\ skewed = FALSE

\* An answer with this status is made of r.
Answer(r, code) ==
  /\ req' = r
  /\ conn' = "answering"
  /\ answers' = Append(answers, [code |-> code, method |-> r.method, path |-> r.path,
                                 server |-> r.server, location |-> r.location, file |-> r.file])

Stay(r, c) == req' = r /\ conn' = c /\ UNCHANGED answers

\* A throw becomes an error answer; the use of an element that is not there, anything.
Throw(r, error) ==
  IF error = Undefined THEN Stay(r, "undefined") ELSE Answer(r, error)

\* A file or directory, which may not exist; a script is started for a GET.
HandleGet(r) ==
  \/ Names(r.file) = <<>> /\ Throw(r, Undefined)
  \/ Names(r.file) # <<>> /\ IsFilePy(r.file) /\ Stay(r, "script")
  \/ Names(r.file) # <<>> /\ ~IsFilePy(r.file) /\ \E code \in {200, 404} : Answer(r, code)

HandleDelete(r) == \E code \in {200, 404} : Answer(r, code)

\* The script of a POST runs already; c is what it leaves the connection in.
HandlePost(r, c) == IF TooLarge(r) THEN Throw(r, 413) ELSE Stay(r, c)

\* A chunked body is only decoded, which may fail (ChunkedBody); it ends no GET or
\* DELETE.
HandleResponse(r, c) ==
  \/ (r.coding = <<"chunked">> \/ ~Complete(r)) /\ Stay(r, c)
  \/ r.coding = <<"chunked">> /\ Body(r) # <<>> /\ Throw(r, 400)
  \/ r.coding = <<"chunked">> /\ Body(r) # <<>> /\ r.location.max # None /\ Throw(r, 413)
  \/ /\ r.coding # <<"chunked">> /\ Complete(r)
     /\ \/ r.method = <<"GET">> /\ HandleGet(r)
        \/ r.method = <<"DELETE">> /\ HandleDelete(r)
        \/ r.method \in {<<"POST">>, <<"PUT">>} /\ HandlePost(r, c)

\* The state CREATE is left in the step that enters it.
Create(r) ==
  LET q == Route(r)
  IN  \/ Unlocated(r) /\ Throw(q, 400)
      \/ ~Unlocated(r) /\ ~Allowed(q.location, q.method) /\ Throw(q, 405)
      \/ /\ ~Unlocated(r) /\ Allowed(q.location, q.method)
         /\ HandleResponse([q EXCEPT !.state = "DONE"],
                           IF q.method \in {<<"POST">>, <<"PUT">>} THEN "script" ELSE "waiting")

\* Request::handleRequest, on r with the bytes that were just received.
HandleRequest(r) ==
  \/ r.state = "READY" /\ HeaderEnd(r.buffer) = 0 /\ Stay(r, conn)
  \/ /\ r.state = "READY" /\ HeaderEnd(r.buffer) # 0
     /\ LET parsed == ParsingHeader(r)
        IN  \/ parsed.error # OK /\ Throw(parsed.req, parsed.error)
            \/ parsed.error = OK /\ Create(parsed.req)
  \/ r.state = "DONE" /\ HandleResponse(r, conn)

\* recv delivers some of the bytes.
Receive ==
  /\ conn \in {"waiting", "script"}
  /\ \E n \in 1..Len(wire) :
       /\ HandleRequest([req EXCEPT !.buffer = @ \o SubSeq(wire, 1, n)])
       /\ wire' = SubSeq(wire, n + 1, Len(wire))
  /\ UNCHANGED <<port, talk, sent, patient, skewed>>

\* The script is done, or has failed, before or after its body came.
ScriptEnds ==
  /\ conn = "script"
  /\ \E code \in {200, 400, 500} : Answer(req, code)
  /\ UNCHANGED <<port, wire, talk, sent, patient, skewed>>

-----------------------------------------------------------------------------
(* The peer.  A request is its verb, target, version, fields and body; a field *)
(* keeps what stands between name and value. *)

Line(f) == f.name \o f.sep \o f.value

\* The lines of the header.
Header(q) ==
  <<q.verb \o <<Blank>> \o q.target \o <<Blank, q.version>>>> \o [i \in DOMAIN q.fields |-> Line(q.fields[i])]

Heading(q) == FlattenSeq([i \in DOMAIN Header(q) |-> Header(q)[i] \o <<CRLF>>])

Render(q) == Heading(q) \o <<CRLF>> \o q.body

\* What the first k requests amount to on the wire.
Volume(k) == Len(FlattenSeq([i \in 1..k |-> Render(talk[i])]))

Delivered == Volume(sent) - Len(wire)

Send ==
  /\ conn # "closed" /\ sent < Len(talk)
  /\ patient => Len(answers) = sent /\ conn # "answering"
  /\ sent' = sent + 1
  /\ wire' = wire \o Render(talk[sent + 1])
  /\ UNCHANGED <<port, req, conn, talk, patient, answers, skewed>>

AfterAnswer(code) == IF code = 405 THEN "closed" ELSE "waiting"

\* The whole answer is out: sendData asks for clean-up after 405, otherwise it calls
\* clearClient, wherever in the talk the bytes received so far end.
SendAnswer ==
  /\ conn = "answering"
  /\ conn' = AfterAnswer(answers[Len(answers)].code)
  /\ req' = Cleared(req)
  /\ skewed' = (skewed \/ Delivered # Volume(Len(answers)))
  /\ UNCHANGED <<port, wire, talk, sent, patient, answers>>

\* The timer, or the peer.
Close ==
  /\ conn \notin {"closed", "undefined"}
  /\ conn' = "closed"
  /\ UNCHANGED <<port, req, wire, talk, sent, patient, answers, skewed>>

Next == Send \/ Receive \/ ScriptEnds \/ SendAnswer \/ Close

Spec == Init /\ [][Next]_vars

-----------------------------------------------------------------------------
(* The reference: what a request means, said of the request and not of bytes. *)

LineVerdict(q) ==
  IF q.target = <<>> \/ Holds(q.target, Blank) THEN 400
  ELSE IF q.verb \notin Verbs THEN 405
  ELSE IF q.version # "HTTP/1.1" THEN 505 ELSE OK

FieldVerdict(f) ==
  IF MultipleSpaces(Line(f)) THEN 400
  ELSE IF f.sep # Colon THEN Undefined
  ELSE IF f.value = <<>> \/ Holds(f.name, Blank) \/ \E i \in DOMAIN f.value : At(f.value, Colon, i)
       THEN 400 ELSE OK

Faults(q) == {i \in DOMAIN q.fields : FieldVerdict(q.fields[i]) # OK}

HeaderVerdict(q) ==
  CASE LineVerdict(q) # OK -> LineVerdict(q)
    [] LineVerdict(q) = OK /\ Faults(q) # {} -> FieldVerdict(q.fields[Min(Faults(q))])
    [] LineVerdict(q) = OK /\ Faults(q) = {} -> OK

\* The values of the fields called name that the parser gets to.
Values(q, name) ==
  LET read == {i \in DOMAIN q.fields :
                 LineVerdict(q) = OK /\ (\A j \in Faults(q) : i < j) /\ q.fields[i].name = name}
  IN  [i \in read |-> q.fields[i].value]

LastValue(q, name, default) ==
  LET v == Values(q, name) IN IF DOMAIN v = {} THEN default ELSE v[Max(DOMAIN v)]

\* The host after a request, if it was h before: the last one named.
HostOf(q, h) ==
  IF DOMAIN Values(q, <<"Host">>) = {} THEN h ELSE Before(LastValue(q, <<"Host">>, h), ":")

\* The host of the k-th request.
HostInForce(k) ==
  LET host[n \in 0..Len(talk)] == IF n = 0 THEN <<>> ELSE HostOf(talk[n], host[n - 1])
  IN  host[k]

WantedServer(k) ==
  LET named == {i \in DOMAIN Servers[port] : HostInForce(k) \in Servers[port][i].names}
  IN  IF named = {} THEN 1 ELSE Min(named)

Matching(k) ==
  {l \in ToSet(Servers[port][WantedServer(k)].locations) :
     l.path # <<>> /\ IsPrefix(l.path, talk[k].target)}

WantedLocation(k) ==
  CHOOSE l \in Matching(k) : \A m \in Matching(k) : Len(m.path) <= Len(l.path)

Permitted(l, verb) == IF l.limit = {} THEN verb # <<"DELETE">> ELSE verb \in l.limit

\* The last name of a file holds ".py": no further name begins behind it.
Script(file) ==
  \E i \in DOMAIN file :
    file[i] = ".py" /\ \A j, k \in i + 1..Len(file) : j < k /\ file[j] = "/" => file[k] = "/"

ByScript(q, file) == q.verb \in {<<"POST">>, <<"PUT">>} \/ (q.verb = <<"GET">> /\ Script(file))

Chunked(q) == LastValue(q, <<"Transfer-Encoding">>, <<>>) = <<"chunked">>

Announced(q) == Stoui(LastValue(q, <<"Content-Length">>, <<>>))

\* What the answer a to the k-th request must be made of.
Fits(k, a) ==
  LET q == talk[k]
  IN  \/ HeaderVerdict(q) # OK /\ a.code = HeaderVerdict(q)
      \/ /\ HeaderVerdict(q) = OK
         /\ a.method = q.verb /\ a.path = q.target /\ a.server = WantedServer(k)
         /\ \/ Matching(k) = {} /\ a.code = 400
            \/ /\ Matching(k) # {} /\ a.location = WantedLocation(k)
               /\ \/ ~Permitted(a.location, q.verb) /\ a.code = 405
                  \/ /\ Permitted(a.location, q.verb)
                     /\ a.code \in IF Chunked(q) \/ ByScript(q, a.file) THEN {200, 400, 413, 500} ELSE {200, 404}
                     /\ a.code = 413 => /\ a.location.max # None
                                        /\ Chunked(q) \/ Announced(q) > a.location.max

RootOf(a) == IF a.location.root # <<>> THEN a.location.root ELSE Servers[port][a.server].root

\* The answers that are made only when the body has come.
AwaitsBody(q, a) ==
  ~Chunked(q) /\ (a.code = 413 \/ (a.code \in {200, 404} /\ ~ByScript(q, a.file)))

-----------------------------------------------------------------------------
(* Properties. *)

TypeOK ==
  /\ port \in DOMAIN Servers
  /\ req \in RequestObject
  /\ req.start \in 0..Len(req.buffer)
  /\ req.server \in 0..Len(Servers[port])
  /\ conn \in Conns
  /\ sent \in 0..Len(talk)
  /\ \A k \in DOMAIN answers : answers[k].code \in Errors \cup {200}

\* However recv cuts the bytes: the k-th answer is to the k-th request, from the first
\* server with the host last named on the connection (it may be an earlier request,
\* even one that was refused), and from the longest location that begins the target;
\* a method the location does not permit gets 405 and nothing else.  This holds until
\* the connection starts over in the midst of a request.
AnsweredAsAsked == ~skewed => \A k \in DOMAIN answers : Fits(k, answers[k])

\* A peer that waits for its answers gets one when its whole request has arrived,
\* unless a script still runs, the body is not as long as announced, the request is a
\* chunked GET or DELETE, or the connection has lost its place in an earlier request.
NobodyWaits ==
  patient /\ ~skewed /\ conn = "waiting" /\ wire = <<>> /\ sent > Len(answers) =>
    LET q == talk[sent]
    IN  IF Chunked(q) THEN q.verb \in {<<"GET">>, <<"DELETE">>} ELSE Len(q.body) # Announced(q)

\* clearRequest forgets the bytes received so far, wherever they end.  When a peer that
\* waits for its answers first loses its place that way, the header of the request just
\* answered had come, and what is left for the next header is a part of its body: of a
\* refused request, of one for a script, of a chunked one, or else of a body longer than
\* announced.  (What is made of those bytes, and of the requests after them, is not said.)
OnlyBodiesLost ==
  [][patient /\ ~skewed /\ skewed' =>
       LET k == Len(answers)
           q == talk[k]
       IN  /\ Volume(k) - Len(q.body) <= Delivered /\ Delivered < Volume(k)
           /\ AwaitsBody(q, answers[k]) => Announced(q) < Len(q.body)]_vars

\* The file of a request has the names of the root of its location or server, followed
\* by the names of the target behind the location's path, provided that this path ends
\* where a name of the target ends.  The names only: whether the directory they lead to
\* is below the root, links and ".." included, is up to the system.
FileAsAsked ==
  \A k \in DOMAIN answers :
    LET a     == answers[k]
        root  == RootOf(a)
        whole == root = <<>> \/ a.location.path = <<"/">>
        rest  == IF whole THEN a.path ELSE SubSeq(a.path, Len(a.location.path) + 1, Len(a.path))
    IN  /\ a.code \in {200, 404}
        /\ whole \/ (Len(a.location.path) # 1 /\ (rest = <<>> \/ Head(rest) = "/"))
        => Names(a.file) = Names(root) \o Names(rest)

\* Elements that are not there are used only for a field without ": ", or for a GET
\* of a location whose root names no directory.
UndefinedExplained ==
  conn = "undefined" /\ ~skewed =>
    LET k == Len(answers) + 1
    IN  \/ HeaderVerdict(talk[k]) = Undefined
        \/ /\ talk[k].verb = <<"GET">>
           /\ ToSet(RootOf([location |-> WantedLocation(k), server |-> WantedServer(k)])) \subseteq {"/"}
=============================================================================
