------------------------- MODULE CgiExchangeProofs -------------------------
(***************************************************************************)
(* Theorems about CgiExchange, for every set of bodies and of outputs,     *)
(* every capacity of a pipe and every number of requests: what a script is *)
(* given, what its peer gets, and when a connection is lost.               *)
(*                                                                         *)
(* The first half is about texts: what concatenation and SubSeq do to the  *)
(* end and the beginning of one, where the parts of an output are, and     *)
(* that readPipe's rewriting of a whole output is the answer it should be. *)
(* The second half is the invariant IInv, one lemma for each action.       *)
(***************************************************************************)
EXTENDS CgiExchange, TLAPS, SequenceTheorems, WellFoundedInduction

\* A sequence, whatever it is made of.
Text(s) == Len(s) \in Nat /\ s = [i \in 1..Len(s) |-> s[i]]

ClientFields == {"body", "ended", "written", "wopen", "ropen", "pid", "code", "buf", "resp", "index"}

\* A Client: pipes, counters and an answer of the right kind.
ClientOK(c) ==
  /\ DOMAIN c = ClientFields
  /\ c.body \in Seq(Words) /\ c.written \in Nat /\ c.index \in Nat
  /\ c.ended \in BOOLEAN /\ c.wopen \in BOOLEAN /\ c.ropen \in BOOLEAN /\ c.pid \in BOOLEAN
  /\ c.code \in {200, 400, 413}
  /\ Text(c.buf) /\ Text(c.resp)

\* Every value of sc.
ScriptType == [state : {"none", "running", "exit0", "exit1", "reaped", "killed"},
               prints : Outputs \cup {NoOutput}, waits : BOOLEAN, got : Seq(Words), said : Nat,
               lost : BOOLEAN]

\* Every value of ask.
AskType == [kind : Kinds, full : Seq(Words), code : {200, 400, 413}, done : BOOLEAN]

\* Every variable has its type; TypeOK says the bounded part of it.
Types ==
  /\ sock \in Socks
  /\ ClientOK(cl)
  /\ sc \in ScriptType
  /\ inp \in Seq(Words) /\ Len(inp) <= Capacity
  /\ outp \in Seq(Words) /\ Len(outp) <= Capacity
  /\ ask \in AskType
  /\ Text(out)
  /\ turns \in Nat
  /\ race \subseteq Races

\* A script runs only for the request that is being answered.
Mine ==
  /\ cl.pid => ~ask.done /\ ask.kind # "static"
  /\ sc.state \in {"running", "exit0", "exit1"} => cl.pid
  /\ sock = "read" => cl.code = 200
  /\ sock = "write" => ~ask.done /\ (cl.code = 200 => ~cl.pid)

\* What has come of the body is its beginning; nothing is left of it between requests.
BodyInv ==
  /\ ask.done => cl.body = <<>> /\ ~cl.ended /\ cl.written = 0
  /\ cl.written <= Len(cl.body) /\ Len(cl.body) <= Len(ask.full)
  /\ cl.body = SubSeq(ask.full, 1, Len(cl.body))
  /\ cl.ended => cl.body = ask.full

\* Read and unread input together are what writePipe has written; the pipe is closed at the end.
InputInv ==
  Running /\ ask.kind \in {"post", "chunked"} =>
    /\ sc.got \o inp = SubSeq(ask.full, 1, cl.written)
    /\ ~cl.wopen => cl.ended /\ cl.written = Len(cl.body)

\* The state of an answer, as long as nothing was mixed into it.
AnswerInv ==
  "mixed" \notin race =>
    /\ sock = "read" =>
         /\ cl.index = 0
         /\ ask.done => cl.resp = <<>> /\ cl.buf = <<>>
         /\ ~ask.done => out = <<>> /\ ask.kind # "static"
    /\ sock = "write" =>
         \/ cl.index < Len(cl.resp)
         \/ cl.index = 0 /\ cl.resp = <<>> /\ out = <<>> /\ "early" \in race
    /\ Connected /\ ~ask.done /\ cl.code = 200 /\ ask.kind # "static" /\ cl.ropen =>
         cl.resp = <<>> /\ cl.index = 0
    /\ Connected /\ cl.pid /\ ~cl.ropen => cl.resp # <<>>

\* What AnswerWhole assumes.
Good == "mixed" \notin race /\ (sc.state # "none" => sc.prints.blank)

\* Output that was read and output that was not are together what the script has said.
WholeInv ==
  Good =>
    /\ Connected /\ ~ask.done => cl.code = ask.code
    /\ sock = "write" =>
         /\ cl.index <= Len(cl.resp)
         /\ out = SubSeq(cl.resp, 1, cl.index)
         /\ cl.resp \in {<<>>, Wanted}
    /\ Connected /\ ~ask.done /\ cl.code = 200 /\ ask.kind # "static" /\ sc.state # "exit1" =>
         /\ sc.state \in {"running", "exit0", "reaped"}
         /\ sc.said <= Len(Printed(sc.prints))
         /\ sc.state # "running" => sc.said = Len(Printed(sc.prints))
         /\ cl.ropen => cl.buf \o outp = SubSeq(Printed(sc.prints), 1, sc.said)
         /\ ~cl.ropen => cl.resp = Reply(sc.prints)

\* The inductive invariant.
IInv == Types /\ Mine /\ BodyInv /\ InputInv /\ AnswerInv /\ WholeInv /\ AnswerWhole

-----------------------------------------------------------------------------
(* Texts. *)

\* Two texts are made of something.
LEMMA MadeOf ==
  ASSUME NEW s, NEW t, Text(s), Text(t)
  PROVE  \E S : s \in Seq(S) /\ t \in Seq(S)
<1> DEFINE S == {s[i] : i \in 1..Len(s)} \cup {t[i] : i \in 1..Len(t)}
<1>1. s \in Seq(S)
  <2> DEFINE n == Len(s)
  <2>1. n \in Nat /\ s = [i \in 1..n |-> s[i]] /\ \A i \in 1..n : s[i] \in S
    BY DEF Text
  <2> HIDE DEF n, S
  <2> QED  BY <2>1
<1>2. t \in Seq(S)
  <2> DEFINE n == Len(t)
  <2>1. n \in Nat /\ t = [i \in 1..n |-> t[i]] /\ \A i \in 1..n : t[i] \in S
    BY DEF Text
  <2> HIDE DEF n, S
  <2> QED  BY <2>1
<1> QED  BY <1>1, <1>2

\* A sequence over a set is a text.
LEMMA SeqText ==
  ASSUME NEW S, NEW s \in Seq(S)
  PROVE  Text(s)
BY LenProperties DEF Text

\* A concatenation of texts is one, as long as both.
LEMMA CatText ==
  ASSUME NEW s, NEW t, Text(s), Text(t)
  PROVE  Text(s \o t) /\ Len(s \o t) = Len(s) + Len(t)
<1> PICK S : s \in Seq(S) /\ t \in Seq(S)
  BY MadeOf
<1> QED  BY ConcatProperties, SeqText

\* A part of a text is one, as long as its bounds say.
LEMMA PartText ==
  ASSUME NEW s, Text(s), NEW m \in Nat \ {0}, NEW n \in 0..Len(s)
  PROVE  /\ Text(SubSeq(s, m, n))
         /\ Len(SubSeq(s, m, n)) = IF m <= n THEN n - m + 1 ELSE 0
<1> PICK S : s \in Seq(S)
  BY MadeOf
<1>1. \A i \in m..n : s[i] \in S
  BY DEF Text
<1> QED  BY <1>1, SubSeqProperties, SeqText, SMTT(30) DEF Text

\* The beginning of a text and what follows it are a longer beginning.
LEMMA SplitText ==
  ASSUME NEW s, Text(s), NEW k \in 0..Len(s), NEW n \in k..Len(s)
  PROVE  SubSeq(s, 1, k) \o SubSeq(s, k + 1, n) = SubSeq(s, 1, n)
<1> PICK S : s \in Seq(S)
  BY MadeOf
<1>1. Len(s) \in Nat /\ 1 \in 1..Len(s) + 1 /\ k \in 1 - 1..Len(s)
  BY DEF Text
<1> QED  BY <1>1, ConcatAdjacentSubSeq

\* A text is the part of itself from its first word to its last.
LEMMA AllText ==
  ASSUME NEW s, Text(s)
  PROVE  SubSeq(s, 1, Len(s)) = s
<1> PICK S : s \in Seq(S)
  BY MadeOf
<1> QED  BY SubSeqFull

\* Only the empty text has no words.
LEMMA NoText ==
  ASSUME NEW s, Text(s), s # <<>>
  PROVE  Len(s) # 0
<1> PICK S : s \in Seq(S)
  BY MadeOf
<1> QED  BY EmptySeq

\* Concatenation of texts is associative.
LEMMA AssocText ==
  ASSUME NEW s, NEW t, NEW u, Text(s), Text(t), Text(u)
  PROVE  (s \o t) \o u = s \o (t \o u)
<1>1. PICK S : s \in Seq(S) /\ t \in Seq(S)
  BY MadeOf
<1>2. PICK T : u \in Seq(T)
  BY MadeOf
<1>3. s \in Seq(S \cup T) /\ t \in Seq(S \cup T) /\ u \in Seq(S \cup T)
  BY <1>1, <1>2, SeqMonotonic
<1> QED  BY <1>3, ConcatAssociative

\* Words that are moved from the front of a text to the end of another.
LEMMA MovedText ==
  ASSUME NEW s, NEW t, Text(s), Text(t), NEW n \in 0..Len(t)
  PROVE  (s \o SubSeq(t, 1, n)) \o SubSeq(t, n + 1, Len(t)) = s \o t
<1> DEFINE u == SubSeq(t, 1, n)
           v == SubSeq(t, n + 1, Len(t))
<1>1. Len(t) \in n..Len(t) /\ Len(t) \in 0..Len(t) /\ n + 1 \in Nat \ {0}
  BY DEF Text
<1>2. Text(u) /\ Text(v)
  BY <1>1, PartText
<1>3. u \o v = t
  BY <1>1, SplitText, AllText
<1> HIDE DEF u, v
<1>4. (s \o u) \o v = s \o (u \o v)
  BY <1>2, AssocText, SMTT(30)
<1> QED  BY <1>3, <1>4 DEF u, v

\* A part of the beginning of a text is that part of the text.
LEMMA PrefixText ==
  ASSUME NEW t, Text(t), NEW k \in 0..Len(t), NEW m \in Nat \ {0}, NEW n \in 0..k
  PROVE  SubSeq(SubSeq(t, 1, k), m, n) = SubSeq(t, m, n)
<1> DEFINE s == SubSeq(t, 1, k)
<1> PICK S : t \in Seq(S)
  BY MadeOf
<1>1. Len(t) \in Nat
  BY DEF Text
<1>2. /\ s \in Seq(S) /\ Len(s) = k
      /\ \A i \in 1..k : s[i] = t[i]
  BY <1>1, SubSeqProperties
<1> HIDE DEF s
<1>3. \A i \in m..n : s[i] = t[i] /\ t[i] \in S /\ s[i] \in S
  BY <1>1, <1>2
<1> DEFINE u == SubSeq(s, m, n)
           v == SubSeq(t, m, n)
<1>4. /\ u \in Seq(S) /\ Len(u) = (IF m <= n THEN n - m + 1 ELSE 0)
      /\ \A i \in 1..n - m + 1 : u[i] = s[m + i - 1]
  BY <1>3, SubSeqProperties
<1>5. /\ v \in Seq(S) /\ Len(v) = (IF m <= n THEN n - m + 1 ELSE 0)
      /\ \A i \in 1..n - m + 1 : v[i] = t[m + i - 1]
  BY <1>3, SubSeqProperties
<1> HIDE DEF u, v
<1>6. \A i \in 1..Len(u) : u[i] = v[i]
  BY <1>3, <1>4, <1>5
<1>7. u = v
  BY <1>4, <1>5, <1>6, SeqEqual
<1> QED  BY <1>7 DEF u, v, s

-----------------------------------------------------------------------------
(* find, and what EndOfOutput makes of an output. *)

LEMMA FindNat ==
  ASSUME NEW S, S \subseteq Nat
  PROVE  /\ Find(S) \in Nat
         /\ S # {} => Find(S) \in S
         /\ \A z \in S : (\A y \in S : z <= y) => Find(S) = z
<1>1. CASE S = {}
  BY <1>1 DEF Find
<1>2. CASE S # {}
  <2>1. PICK x \in S : \A y \in S : x <= y
    <3> DEFINE R == OpToRel(<, Nat)
    <3>1. PICK x \in S : \A y \in S : ~(<<y, x>> \in R)
      <4> HIDE DEF R
      <4>1. IsWellFoundedOn(R, Nat)
        BY NatLessThanWellFounded DEF R
      <4> QED  BY <4>1, <1>2, WFMin
    <3>2. ASSUME NEW y \in S PROVE x <= y
      <4>1. x \in Nat /\ y \in Nat
        OBVIOUS
      <4>2. y < x => <<y, x>> \in R
        BY <4>1, Zenon DEF OpToRel
      <4> HIDE DEF R
      <4> QED  BY <4>1, <4>2, <3>1
    <3> QED  BY <3>2
  <2>2. Find(S) = Min(S)
    BY <1>2 DEF Find
  <2>3. Min(S) \in S /\ \A y \in S : Min(S) <= y
    BY <2>1 DEF Min
  <2>4. Find(S) \in S /\ \A y \in S : Find(S) <= y
    BY <2>2, <2>3
  <2>5. ASSUME NEW z \in S, \A y \in S : z <= y PROVE Find(S) = z
    <3>1. Find(S) <= z /\ z <= Find(S) /\ z \in Nat /\ Find(S) \in Nat
      BY <2>4, <2>5
    <3> QED  BY <3>1
  <2> QED  BY <2>4, <2>5
<1> QED  BY <1>1, <1>2

\* The lines that readPipe puts before an output are a text of three words.
LEMMA LeadText ==
  ASSUME NEW length
  PROVE  Text(Lead(length)) /\ Len(Lead(length)) = 3
BY DEF Lead, Text

\* An error page is a text of five words.
LEMMA PageText ==
  ASSUME NEW code
  PROVE  Text(Page(code)) /\ Len(Page(code)) = 5
BY DEF Page, Text

\* The answer made of an output is a text, and never an empty one.
LEMMA WrappedText ==
  ASSUME NEW msg, Text(msg)
  PROVE  Text(Wrapped(msg)) /\ Len(Wrapped(msg)) >= 3
<1> DEFINE k == IF FirstLine(msg) = 0 THEN 2 ELSE FirstLine(msg) + 1
<1>1. k \in Nat \ {0}
  BY FindNat DEF FirstLine
<1>2. Len(msg) \in 0..Len(msg)
  BY DEF Text
<1> HIDE DEF k
<1>3. Text(SubSeq(msg, k, Len(msg))) /\ Len(SubSeq(msg, k, Len(msg))) \in Nat
  BY <1>1, <1>2, PartText DEF Text
<1>4. Text(Lead(Length(msg))) /\ Len(Lead(Length(msg))) = 3
  BY LeadText
<1>5. Wrapped(msg) = Lead(Length(msg)) \o SubSeq(msg, k, Len(msg))
  BY DEF Wrapped, k
<1> DEFINE l == Lead(Length(msg))
           t == SubSeq(msg, k, Len(msg))
<1>6. Text(l) /\ Len(l) = 3 /\ Text(t) /\ Len(t) \in Nat /\ Wrapped(msg) = l \o t
  BY <1>3, <1>4, <1>5
<1> HIDE DEF l, t
<1>7. Text(l \o t) /\ Len(l \o t) = 3 + Len(t)
  BY <1>6, CatText
<1> QED  BY <1>6, <1>7

\* What a script prints is made of words.
LEMMA PrintedText ==
  ASSUME NEW o \in Outputs \cup {NoOutput}
  PROVE  Printed(o) \in Seq(Words) /\ Text(Printed(o))
<1>1. o.first \in Seq(Words) /\ o.fields \in Seq(Words) /\ o.body \in Seq(Words)
  <2>1. CASE o \in Outputs
    BY <2>1, Inputs DEF Texts
  <2>2. CASE o = NoOutput
    BY <2>2 DEF NoOutput
  <2> QED  BY <2>1, <2>2
<1>2. <<CRLF>> \in Seq(Words) /\ <<>> \in Seq(Words)
  BY Inputs
<1>3. (IF o.blank THEN <<CRLF>> ELSE <<>>) \in Seq(Words)
  BY <1>2
<1>4. Printed(o) \in Seq(Words)
  BY <1>1, <1>2, <1>3, ConcatProperties DEF Printed
<1> QED  BY <1>4, SeqText

\* Concatenation of four texts is associative.
LEMMA AssocFour ==
  ASSUME NEW l, NEW f, NEW e, NEW d, Text(l), Text(f), Text(e), Text(d)
  PROVE  l \o (f \o e \o d) = l \o f \o e \o d
<1>1. Text(l \o f) /\ Text(f \o e)
  BY CatText
<1>2. (l \o f) \o e = l \o (f \o e)
  BY AssocText, SMTT(30)
<1>3. (l \o (f \o e)) \o d = l \o ((f \o e) \o d)
  BY <1>1, AssocText, SMTT(60)
<1> QED  BY <1>2, <1>3, Zenon

\* Where the words of two sequences are in their concatenation.
LEMMA Places ==
  ASSUME NEW S, NEW s \in Seq(S), NEW t \in Seq(S)
  PROVE  /\ s \o t \in Seq(S) /\ Len(s \o t) = Len(s) + Len(t)
         /\ \A i \in 1..Len(s) : (s \o t)[i] = s[i]
         /\ \A i \in 1..Len(t) : (s \o t)[Len(s) + i] = t[i]
  OBVIOUS

\* The second of two sequences is what follows the first.
LEMMA RestOf ==
  ASSUME NEW S, NEW s \in Seq(S), NEW t \in Seq(S)
  PROVE  SubSeq(s \o t, Len(s) + 1, Len(s \o t)) = t
<1> DEFINE p == s \o t
           q == SubSeq(p, Len(s) + 1, Len(p))
<1>1. /\ p \in Seq(S) /\ Len(p) = Len(s) + Len(t) /\ Len(s) \in Nat /\ Len(t) \in Nat
      /\ \A i \in 1..Len(t) : p[Len(s) + i] = t[i]
  BY Places
<1> HIDE DEF p
<1>2. \A i \in Len(s) + 1..Len(p) : p[i] \in S
  BY <1>1
<1>3. /\ q \in Seq(S) /\ Len(q) = Len(t)
      /\ \A i \in 1..Len(t) : q[i] = p[Len(s) + i]
  BY <1>1, <1>2, SubSeqProperties
<1> HIDE DEF q
<1>4. q = t
  BY <1>1, <1>3, SeqEqual
<1> QED  BY <1>4 DEF p, q

\* Where things are in f x g x d, if e is the text x.
LaidOut(S, p, f, g, d, e, x) ==
  /\ p \in Seq(S) /\ Len(p) = Len(f) + Len(g) + Len(d) + 2
  /\ \A i \in 1..Len(f) : p[i] = f[i]
  /\ p[Len(f) + 1] = x
  /\ \A i \in 1..Len(g) : p[Len(f) + 1 + i] = g[i]
  /\ p[Len(f) + Len(g) + 2] = x
  /\ SubSeq(p, Len(f) + 2, Len(p)) = g \o e \o d
  /\ SubSeq(p, Len(f) + Len(g) + 3, Len(p)) = d

\* Where the parts of a text are.
LEMMA LayoutAs ==
  ASSUME NEW S, NEW f \in Seq(S), NEW g \in Seq(S), NEW d \in Seq(S), NEW x \in S,
         NEW e, e = <<x>>, NEW p, p = f \o e \o g \o e \o d
  PROVE  LaidOut(S, p, f, g, d, e, x)
<1> DEFINE a == Len(f)
           b == Len(g)
           h == f \o e
           k == h \o g
           l == k \o e
<1>1. e \in Seq(S) /\ Len(e) = 1 /\ e[1] = x /\ a \in Nat /\ b \in Nat /\ Len(d) \in Nat
  OBVIOUS
<1>2. p = l \o d
  OBVIOUS
<1> HIDE DEF a, b
<1>3. /\ h \in Seq(S) /\ Len(h) = a + 1
      /\ \A i \in 1..a : h[i] = f[i]
      /\ h[a + 1] = x
  BY <1>1, Places DEF a
<1> HIDE DEF h
<1>4. /\ k \in Seq(S) /\ Len(k) = a + 1 + b
      /\ \A i \in 1..a + 1 : k[i] = h[i]
      /\ \A i \in 1..b : k[a + 1 + i] = g[i]
  <2>1. /\ h \o g \in Seq(S) /\ Len(h \o g) = Len(h) + Len(g)
        /\ \A i \in 1..Len(h) : (h \o g)[i] = h[i]
        /\ \A i \in 1..Len(g) : (h \o g)[Len(h) + i] = g[i]
    <3>1. h \in Seq(S) /\ g \in Seq(S)
      BY <1>3
    <3>2. h \o g \in Seq(S) /\ Len(h \o g) = Len(h) + Len(g)
      BY <3>1
    <3>3. \A i \in 1..Len(h) : (h \o g)[i] = h[i]
      BY <3>1
    <3>4. \A i \in 1..Len(g) : (h \o g)[Len(h) + i] = g[i]
      BY <3>1
    <3> QED  BY <3>2, <3>3, <3>4
  <2>2. Len(g) = b /\ k = h \o g
    BY DEF b
  <2> HIDE DEF k
  <2> QED  BY <2>1, <2>2, <1>3
<1> HIDE DEF k
<1>5. /\ l \in Seq(S) /\ Len(l) = a + 1 + b + 1
      /\ \A i \in 1..a + 1 + b : l[i] = k[i]
      /\ l[a + 1 + b + 1] = x
  <2>1. /\ k \o e \in Seq(S) /\ Len(k \o e) = Len(k) + Len(e)
        /\ \A i \in 1..Len(k) : (k \o e)[i] = k[i]
        /\ \A i \in 1..Len(e) : (k \o e)[Len(k) + i] = e[i]
    <3>1. k \in Seq(S) /\ e \in Seq(S)
      BY <1>1, <1>4
    <3>2. k \o e \in Seq(S) /\ Len(k \o e) = Len(k) + Len(e)
      BY <3>1
    <3>3. \A i \in 1..Len(k) : (k \o e)[i] = k[i]
      BY <3>1
    <3>4. \A i \in 1..Len(e) : (k \o e)[Len(k) + i] = e[i]
      BY <3>1
    <3> QED  BY <3>2, <3>3, <3>4
  <2>2. l = k \o e /\ 1 \in 1..Len(e)
    BY <1>1
  <2> HIDE DEF l
  <2>3. l \in Seq(S) /\ Len(l) = a + 1 + b + 1 /\ \A i \in 1..a + 1 + b : l[i] = k[i]
    BY <2>1, <2>2, <1>1, <1>4
  <2>4. l[Len(k) + 1] = e[1]
    BY <2>1, <2>2
  <2> QED  BY <2>3, <2>4, <1>1, <1>4
<1> HIDE DEF l
<1>6. /\ p \in Seq(S) /\ Len(p) = a + 1 + b + 1 + Len(d)
      /\ \A i \in 1..a + 1 + b + 1 : p[i] = l[i]
  <2>1. /\ l \o d \in Seq(S) /\ Len(l \o d) = Len(l) + Len(d)
        /\ \A i \in 1..Len(l) : (l \o d)[i] = l[i]
    BY <1>5, Places, ZenonT(30)
  <2> QED  BY <2>1, <1>2, <1>5
<1>7. SubSeq(p, a + 1 + b + 1 + 1, Len(p)) = d
  BY <1>2, <1>5, RestOf
<1>8. SubSeq(p, a + 1 + 1, Len(p)) = g \o e \o d
  <2>1. Text(h) /\ Text(g) /\ Text(e) /\ Text(d)
    BY <1>1, <1>3, SeqText
  <2>2. h \o (g \o e \o d) = h \o g \o e \o d
    BY <2>1, AssocFour, SMTT(60)
  <2>3. p = h \o (g \o e \o d)
    BY <2>2, <1>2, Zenon DEF l, k
  <2>4. g \o e \in Seq(S)
    BY <1>1, ConcatProperties, Zenon
  <2>5. g \o e \o d \in Seq(S)
    BY <2>4, ConcatProperties, Zenon
  <2> DEFINE t == g \o e \o d
  <2> HIDE DEF t
  <2>6. p = h \o t /\ t \in Seq(S)
    BY <2>3, <2>5 DEF t
  <2>7. SubSeq(h \o t, Len(h) + 1, Len(h \o t)) = t
    BY <1>3, <2>6, RestOf
  <2>8. SubSeq(p, a + 1 + 1, Len(p)) = t
    BY <2>6, <2>7, <1>3, Zenon
  <2> QED  BY <2>8 DEF t
<1>9. /\ a + 1 + 1 = a + 2 /\ a + 1 + b + 1 + 1 = a + b + 3 /\ a + 1 + b + 1 = a + b + 2
      /\ a + 1 + b + 1 + Len(d) = a + b + Len(d) + 2
  BY <1>1
<1>10. SubSeq(p, a + 2, Len(p)) = g \o e \o d /\ SubSeq(p, a + b + 3, Len(p)) = d
  BY <1>7, <1>8, <1>9, Zenon
<1>11. ASSUME NEW i \in 1..a PROVE p[i] = f[i]
  <2>1. i \in 1..a + 1 /\ i \in 1..a + 1 + b /\ i \in 1..a + 1 + b + 1
    BY <1>1
  <2> QED  BY <2>1, <1>3, <1>4, <1>5, <1>6
<1>12. p[a + 1] = x
  <2>1. a + 1 \in 1..a + 1 /\ a + 1 \in 1..a + 1 + b /\ a + 1 \in 1..a + 1 + b + 1
    BY <1>1
  <2> QED  BY <2>1, <1>3, <1>4, <1>5, <1>6
<1>13. ASSUME NEW i \in 1..b PROVE p[a + 1 + i] = g[i]
  <2>1. a + 1 + i \in 1..a + 1 + b /\ a + 1 + i \in 1..a + 1 + b + 1
    BY <1>1
  <2> QED  BY <2>1, <1>4, <1>5, <1>6
<1>14. p[a + b + 2] = x
  BY <1>1, <1>5, <1>6, <1>9
<1> QED  BY <1>1, <1>6, <1>9, <1>10, <1>11, <1>12, <1>13, <1>14, Zenon DEF a, b, LaidOut

\* The same of the concatenation itself.
LEMMA Layout ==
  ASSUME NEW S, NEW f \in Seq(S), NEW g \in Seq(S), NEW d \in Seq(S), NEW x \in S
  PROVE  LaidOut(S, f \o <<x>> \o g \o <<x>> \o d, f, g, d, <<x>>, x)
<1> DEFINE e == <<x>>
           p == f \o e \o g \o e \o d
<1>1. e = <<x>> /\ p = f \o e \o g \o e \o d
  OBVIOUS
<1> HIDE DEF p
<1>2. LaidOut(S, p, f, g, d, e, x)
  BY <1>1, LayoutAs
<1> QED  BY <1>2 DEF p, e

\* readPipe makes the right answer of a script's whole output: what follows its first
\* line, with the length of what follows its empty line.
LEMMA WrappedIsReply ==
  ASSUME NEW o \in Outputs, o.blank
  PROVE  Wrapped(Printed(o)) = Reply(o)
<1> DEFINE f == o.first
           g == o.fields
           d == o.body
           e == <<CRLF>>
           p == Printed(o)
           a == Len(f)
           b == Len(g)
           tail == g \o e \o d
<1>1. f \in Seq(Words) /\ g \in Seq(Words) /\ d \in Seq(Words) /\ CRLF \in Words
  BY Inputs DEF Texts
<1>2. Header(o)
  BY Inputs
<1>3. p = f \o e \o g \o e \o d
  BY <1>2 DEF Printed, Header
<1>4. a \in Nat /\ b \in Nat /\ Len(d) \in Nat
  BY <1>1
<1>5. /\ \A i \in 1..a : f[i] # CRLF
      /\ b # 0 =>
           /\ g[1] # CRLF /\ g[b] = CRLF
           /\ \A i \in 1..b - 1 : ~(g[i] = CRLF /\ g[i + 1] = CRLF)
  <2>1. b # 0 => g # <<>>
    OBVIOUS
  <2> QED  BY <2>1, <1>2 DEF Header
<1>6. Wrapped(p) = Reply(o) <=>
        Wrapped(p) = Lead(ToString(Bytes(d))) \o g \o e \o d
  BY Zenon DEF Reply
<1> HIDE DEF f, g, d, e, p
<1>7. /\ p \in Seq(Words) /\ Len(p) = a + b + Len(d) + 2
      /\ \A i \in 1..a : p[i] = f[i]
      /\ p[a + 1] = CRLF
      /\ \A i \in 1..b : p[a + 1 + i] = g[i]
      /\ p[a + b + 2] = CRLF
      /\ SubSeq(p, a + 2, Len(p)) = tail
      /\ SubSeq(p, a + b + 3, Len(p)) = d
  <2> DEFINE x == CRLF
  <2>1. e = <<x>> /\ x \in Words /\ x = CRLF
    BY <1>1 DEF e
  <2> HIDE DEF x
  <2>2. LaidOut(Words, p, f, g, d, e, x)
    <3>1. LaidOut(Words, f \o <<x>> \o g \o <<x>> \o d, f, g, d, <<x>>, x)
      BY <1>1, <2>1, Layout
    <3> QED  BY <3>1, <2>1, <1>3, Zenon
  <2> QED  BY <2>1, <2>2, Zenon DEF LaidOut
<1> HIDE DEF a, b
<1>8. FirstLine(p) = a + 1
  <2> DEFINE S == {i \in 1..Len(p) : p[i] = CRLF}
  <2>1. S \subseteq Nat /\ a + 1 \in S
    BY <1>4, <1>7
  <2>2. ASSUME NEW i \in S PROVE a + 1 <= i
    <3>1. i \in Nat /\ i >= 1 /\ p[i] = CRLF
      BY <1>4, <1>7
    <3>2. i <= a => i \in 1..a
      BY <3>1, <1>4
    <3>3. ~(i <= a)
      BY <3>1, <3>2, <1>5, <1>7
    <3> QED  BY <3>1, <3>3, <1>4
  <2>3. FirstLine(p) = Find(S)
    BY DEF FirstLine
  <2> HIDE DEF S
  <2> QED  BY <2>1, <2>2, <2>3, FindNat
<1>9. Blank(p) = a + b + 1
  <2> DEFINE S == {i \in 1..Len(p) - 1 : p[i] = CRLF /\ p[i + 1] = CRLF}
  <2>1. S \subseteq Nat /\ a + b + 1 \in S
    <3>1. p[a + b + 1] = CRLF
      <4>1. CASE b = 0
        BY <4>1, <1>4, <1>7
      <4>2. CASE b # 0
        <5>1. b \in 1..b /\ a + 1 + b = a + b + 1
          BY <4>2, <1>4
        <5> QED  BY <5>1, <4>2, <1>5, <1>7
      <4> QED  BY <4>1, <4>2
    <3>2. a + b + 1 + 1 = a + b + 2 /\ a + b + 1 \in 1..Len(p) - 1
      BY <1>4, <1>7
    <3> QED  BY <3>1, <3>2, <1>4, <1>7
  <2>2. ASSUME NEW i \in S PROVE a + b + 1 <= i
    <3>1. i \in Nat /\ i >= 1 /\ p[i] = CRLF /\ p[i + 1] = CRLF
      BY <1>4, <1>7
    <3>2. ~(i <= a)
      <4>1. i <= a => i \in 1..a
        BY <3>1, <1>4
      <4> QED  BY <4>1, <3>1, <1>5, <1>7
    <3>3. ~(i = a + 1 /\ b # 0)
      <4> SUFFICES ASSUME i = a + 1, b # 0 PROVE FALSE
        OBVIOUS
      <4>1. 1 \in 1..b
        BY <1>4
      <4> QED  BY <4>1, <3>1, <1>5, <1>7
    <3>4. ~(i > a + 1 /\ i < a + b + 1)
      <4> SUFFICES ASSUME i > a + 1, i < a + b + 1 PROVE FALSE
        OBVIOUS
      <4> DEFINE j == i - a - 1
      <4>1. j \in 1..b - 1 /\ j \in 1..b /\ j + 1 \in 1..b /\ b # 0
        BY <3>1, <1>4
      <4>2. i = a + 1 + j /\ i + 1 = a + 1 + (j + 1)
        BY <3>1, <1>4
      <4> HIDE DEF j
      <4>3. p[i] = g[j] /\ p[i + 1] = g[j + 1]
        BY <4>1, <4>2, <1>7
      <4> QED  BY <4>1, <4>3, <3>1, <1>5
    <3> QED  BY <3>1, <3>2, <3>3, <3>4, <1>4
  <2>3. Blank(p) = Find(S)
    BY DEF Blank
  <2> HIDE DEF S
  <2> QED  BY <2>1, <2>2, <2>3, FindNat
<1>10. Length(p) = ToString(Bytes(d))
  <2>1. Blank(p) # 0 /\ Blank(p) + 2 = a + b + 3
    BY <1>4, <1>9
  <2> QED  BY <2>1, <1>7, Zenon DEF Length
<1>11. Wrapped(p) = Lead(ToString(Bytes(d))) \o tail
  <2>1. FirstLine(p) # 0 /\ FirstLine(p) + 1 = a + 2
    BY <1>4, <1>8
  <2> QED  BY <2>1, <1>7, <1>10, Zenon DEF Wrapped
<1>12. Text(e) /\ Text(g) /\ Text(d) /\ Text(Lead(ToString(Bytes(d))))
  BY <1>1, SeqText, LeadText DEF Text, e
<1>13. Lead(ToString(Bytes(d))) \o tail = Lead(ToString(Bytes(d))) \o g \o e \o d
  <2> DEFINE l == Lead(ToString(Bytes(d)))
  <2> HIDE DEF l
  <2>1. l \o (g \o e \o d) = l \o g \o e \o d
    BY <1>12, AssocFour, SMTT(60) DEF l
  <2> QED  BY <2>1 DEF l
<1> QED  BY <1>6, <1>11, <1>13, Zenon DEF p

-----------------------------------------------------------------------------
(* The invariant. *)

\* The Client of a new connection has the type of one.
LEMMA NewClientOK == ClientOK(NewClient)
<1>1. DOMAIN NewClient = ClientFields
  BY DEF ClientFields, NewClient
<1> QED  BY <1>1 DEF ClientOK, NewClient, Text, ClientFields

\* The invariant holds when a connection is new.
LEMMA InitInv == Init => IInv
<1> SUFFICES ASSUME Init PROVE IInv
  OBVIOUS
<1> USE DEF Init
<1>1. Types
  BY NewClientOK, Bounds DEF Types, Socks, NewClient, NoScript, ScriptType, AskType, Text, Kinds, Races
<1>2. Mine /\ BodyInv /\ InputInv
  BY DEF Mine, BodyInv, InputInv, NewClient, NoScript, Running
<1>3. AnswerInv /\ WholeInv /\ AnswerWhole
  BY DEF AnswerInv, WholeInv, AnswerWhole, NewClient, NoScript, Connected
<1> QED  BY <1>1, <1>2, <1>3 DEF IInv

\* The first words of a text are a prefix of it.
LEMMA PrefixOfText ==
  ASSUME NEW w, Text(w)
  PROVE  /\ \A i \in 0..Len(w) : IsPrefix(SubSeq(w, 1, i), w)
         /\ IsPrefix(<<>>, w)
<1>1. ASSUME NEW i \in 0..Len(w) PROVE IsPrefix(SubSeq(w, 1, i), w)
  <2> DEFINE s == SubSeq(w, 1, i)
  <2>1. Text(s) /\ Len(s) = i
    BY PartText DEF Text
  <2>2. SubSeq(s, 1, Len(s)) = s
    BY <2>1, AllText
  <2>3. Len(s) <= Len(w)
    BY <2>1 DEF Text
  <2> QED  BY <2>1, <2>2, <2>3, Zenon DEF IsPrefix
<1>2. IsPrefix(<<>>, w)
  BY SubSeqEmpty DEF IsPrefix, Text
<1> QED  BY <1>1, <1>2

\* The answer that is due for an output is a text.
LEMMA ReplyText ==
  ASSUME NEW o \in Outputs \cup {NoOutput}
  PROVE  Text(Reply(o))
<1> DEFINE l == Lead(ToString(Bytes(o.body)))
           e == <<CRLF>>
<1>1. Text(o.fields) /\ Text(o.body)
  <2>1. CASE o \in Outputs
    BY <2>1, Inputs, SeqText DEF Texts
  <2>2. CASE o = NoOutput
    BY <2>2 DEF NoOutput, Text
  <2> QED  BY <2>1, <2>2
<1>2. Text(l)
  BY LeadText
<1>3. Text(e)
  BY DEF Text
<1>4. Reply(o) = l \o o.fields \o e \o o.body
  BY DEF Reply
<1> HIDE DEF l, e
<1>5. Text(l \o o.fields)
  BY <1>1, <1>2, CatText
<1>6. Text(l \o o.fields \o e)
  BY <1>3, <1>5, CatText
<1> QED  BY <1>1, <1>4, <1>6, CatText

\* ScriptReads moves words from the pipe to the script and keeps the invariant.
LEMMA ScriptReadsInv ==
  ASSUME IInv, ScriptReads
  PROVE  IInv'
<1> USE DEF IInv
<1>1. PICK n \in 1..Len(inp) :
        /\ sc' = [sc EXCEPT !.got = @ \o SubSeq(inp, 1, n)]
        /\ inp' = SubSeq(inp, n + 1, Len(inp))
  BY DEF ScriptReads
<1>2. UNCHANGED <<sock, cl, outp, ask, out, turns, race>> /\ Running
  BY DEF ScriptReads
<1>3. sc \in ScriptType /\ inp \in Seq(Words) /\ Len(inp) <= Capacity /\ sc.got \in Seq(Words)
  BY DEF Types, ScriptType
<1>4. /\ SubSeq(inp, 1, n) \in Seq(Words) /\ inp' \in Seq(Words) /\ Len(inp') <= Capacity
  BY <1>1, <1>3, Bounds, SMTT(30)
<1>5. sc.got \o SubSeq(inp, 1, n) \in Seq(Words)
  BY <1>3, <1>4
<1>6. /\ sc' \in ScriptType /\ sc'.got = sc.got \o SubSeq(inp, 1, n)
      /\ sc'.state = sc.state /\ sc'.prints = sc.prints /\ sc'.said = sc.said
  BY <1>1, <1>3, <1>5 DEF ScriptType
<1>7. sc'.got \o inp' = sc.got \o inp
  <2>1. Text(sc.got) /\ Text(inp) /\ n \in 0..Len(inp)
    BY <1>3, SeqText
  <2> QED  BY <2>1, <1>1, <1>6, MovedText
<1>8. Types'
  BY <1>2, <1>4, <1>6 DEF Types
<1>9. Mine' /\ BodyInv'
  BY <1>2, <1>6 DEF Mine, BodyInv
<1>10. InputInv'
  BY <1>2, <1>6, <1>7 DEF InputInv, Running
<1>11. AnswerInv'
  BY <1>2 DEF AnswerInv, Connected
<1>12. Good' = Good /\ Wanted' = Wanted
  BY <1>2, <1>6 DEF Good, Wanted
<1>13. WholeInv' /\ AnswerWhole'
  BY <1>2, <1>6, <1>12, ZenonT(30) DEF WholeInv, AnswerWhole, Good, Connected
<1> QED  BY <1>8, <1>9, <1>10, <1>11, <1>13

\* ScriptPrints moves the next words of the output to the pipe and keeps the invariant.
LEMMA ScriptPrintsInv ==
  ASSUME IInv, ScriptPrints
  PROVE  IInv'
<1> USE DEF IInv
<1> DEFINE p == Printed(sc.prints)
<1>1. PICK n \in 1..Len(p) - sc.said :
        /\ n <= Capacity - Len(outp)
        /\ outp' = outp \o SubSeq(p, sc.said + 1, sc.said + n)
        /\ sc' = [sc EXCEPT !.said = @ + n]
  BY DEF ScriptPrints
<1>2. UNCHANGED <<sock, cl, inp, ask, out, turns, race>> /\ Running
  BY DEF ScriptPrints
<1>3. /\ sc \in ScriptType /\ outp \in Seq(Words) /\ Len(outp) <= Capacity
      /\ sc.said \in Nat /\ sc.prints \in Outputs \cup {NoOutput}
  BY DEF Types, ScriptType
<1>4. p \in Seq(Words) /\ Text(p) /\ Len(p) \in Nat
  BY <1>3, PrintedText DEF Text
<1> DEFINE u == SubSeq(p, sc.said + 1, sc.said + n)
<1>5. /\ u \in Seq(Words) /\ Len(u) = n /\ Text(u)
  <2>1. \A i \in sc.said + 1..sc.said + n : p[i] \in Words
    BY <1>3, <1>4
  <2>2. u \in Seq(Words) /\ Len(u) = n
    BY <2>1, <1>3, SubSeqProperties, SMTT(30)
  <2> QED  BY <2>2, SeqText
<1>6. /\ sc' \in ScriptType /\ sc'.said = sc.said + n /\ sc.said + n <= Len(p)
      /\ sc'.state = sc.state /\ sc'.prints = sc.prints /\ sc'.got = sc.got
  <2> HIDE DEF p, u
  <2>1. n \in Nat /\ sc.said + n \in Nat /\ sc.said + n <= Len(p)
    BY <1>3, <1>4
  <2> QED  BY <2>1, <1>1, <1>3 DEF ScriptType
<1>7. outp' \in Seq(Words) /\ Len(outp') <= Capacity
  <2> HIDE DEF u
  <2>1. outp \o u \in Seq(Words) /\ Len(outp \o u) = Len(outp) + n
    BY <1>3, <1>5
  <2>2. outp' = outp \o u
    BY <1>1 DEF u
  <2>3. Len(outp) + n <= Capacity
    <3> HIDE DEF p
    <3> QED  BY <1>1, <1>3, <1>4, Bounds
  <2> QED  BY <2>1, <2>2, <2>3
<1>8. Types'
  BY <1>2, <1>6, <1>7 DEF Types
<1>9. Mine' /\ BodyInv'
  BY <1>2, <1>6 DEF Mine, BodyInv
<1>10. InputInv'
  BY <1>2, <1>6 DEF InputInv, Running
<1>11. AnswerInv'
  BY <1>2 DEF AnswerInv, Connected
<1>12. Good' = Good /\ Wanted' = Wanted
  BY <1>2, <1>6 DEF Good, Wanted
<1>13. AnswerWhole'
  BY <1>2, <1>6, <1>12 DEF AnswerWhole, Good
<1>14. ASSUME cl.buf \o outp = SubSeq(p, 1, sc.said)
       PROVE  cl'.buf \o outp' = SubSeq(Printed(sc'.prints), 1, sc'.said)
  <2>1. Text(cl.buf) /\ Text(outp)
    BY <1>3, SeqText DEF Types, ClientOK
  <2> HIDE DEF u, p
  <2>2. (cl.buf \o outp) \o u = cl.buf \o (outp \o u)
    <3> DEFINE l == cl.buf
    <3>1. Text(l)
      BY <2>1
    <3> HIDE DEF l
    <3>2. (l \o outp) \o u = l \o (outp \o u)
      BY <2>1, <3>1, <1>5, AssocText, SMTT(30)
    <3> QED  BY <3>2 DEF l
  <2>3. sc.said \in 0..Len(p) /\ sc.said + n \in sc.said..Len(p)
    BY <1>3, <1>4, <1>6
  <2>4. SubSeq(p, 1, sc.said) \o u = SubSeq(p, 1, sc.said + n)
    BY <2>3, <1>4, SplitText DEF u
  <2>5. outp' = outp \o u /\ cl'.buf = cl.buf
    BY <1>1, <1>2 DEF u
  <2>6. Printed(sc'.prints) = p
    BY <1>6 DEF p
  <2> QED  BY <1>14, <2>2, <2>4, <2>5, <2>6, <1>6
<1>15. WholeInv'
  BY <1>2, <1>6, <1>12, <1>14, ZenonT(30) DEF WholeInv, Connected, Running
<1> QED  BY <1>8, <1>9, <1>10, <1>11, <1>13, <1>15

\* The exit of a script, with 0 or 1, keeps the invariant.
LEMMA ScriptEndsInv ==
  ASSUME IInv, ScriptFinishes \/ ScriptFails
  PROVE  IInv'
<1> USE DEF IInv
<1>1. UNCHANGED <<sock, cl, inp, outp, ask, out, turns, race>> /\ Running
  BY DEF ScriptFinishes, ScriptFails
<1>2. sc \in ScriptType
  BY DEF Types
<1>3. /\ sc' \in ScriptType /\ sc'.prints = sc.prints /\ sc'.said = sc.said
      /\ sc'.state \in {"exit0", "exit1"}
      /\ sc'.state = "exit0" => sc.said = Len(Printed(sc.prints))
  <2>1. CASE ScriptFails
    <3>1. sc' = [sc EXCEPT !.state = "exit1"]
      BY <2>1 DEF ScriptFails
    <3> QED  BY <3>1, <1>2 DEF ScriptType
  <2>2. CASE ScriptFinishes
    <3>1. sc.said = Len(Printed(sc.prints)) /\ sc' = [sc EXCEPT !.state = "exit0"]
      BY <2>2 DEF ScriptFinishes
    <3> QED  BY <3>1, <1>2 DEF ScriptType
  <2> QED  BY <2>1, <2>2
<1>4. Types'
  BY <1>1, <1>3 DEF Types
<1>5. Mine' /\ BodyInv' /\ InputInv'
  BY <1>1, <1>3 DEF Mine, BodyInv, InputInv, Running
<1>6. AnswerInv'
  BY <1>1 DEF AnswerInv, Connected
<1>7. Good' = Good /\ Wanted' = Wanted
  BY <1>1, <1>3 DEF Good, Wanted, Running
<1>8. AnswerWhole'
  BY <1>1, <1>3, <1>7 DEF AnswerWhole, Good
<1>9. WholeInv'
  BY <1>1, <1>3, <1>7 DEF WholeInv, Connected, Running
<1> QED  BY <1>4, <1>5, <1>6, <1>8, <1>9

\* A step that touches neither the answer nor the output keeps what is known of them.
LEMMA SameAnswer ==
  ASSUME AnswerInv, WholeInv,
         UNCHANGED <<sock, sc, outp, ask, out, turns, race>>,
         cl'.code = cl.code, cl'.index = cl.index, cl'.resp = cl.resp, cl'.buf = cl.buf,
         cl'.ropen = cl.ropen, cl'.pid = cl.pid
  PROVE  AnswerInv' /\ WholeInv'
<1>1. AnswerInv'
  BY DEF AnswerInv, Connected
<1>2. Good' = Good /\ Wanted' = Wanted
  BY DEF Good, Wanted
<1>3. WholeInv'
  BY <1>2, ZenonT(30) DEF WholeInv, Connected
<1> QED  BY <1>1, <1>3

\* writePipe keeps the invariant: the next words of the body, or the end of the input.
LEMMA WritePipeInv ==
  ASSUME IInv, WritePipe
  PROVE  IInv'
<1> USE DEF IInv
<1>1. UNCHANGED <<sc, outp, ask, out, turns, race>> /\ Connected /\ cl.wopen
  BY DEF WritePipe
<1>2. /\ sc \in ScriptType /\ inp \in Seq(Words) /\ Len(inp) <= Capacity
      /\ ClientOK(cl) /\ cl.body \in Seq(Words) /\ cl.written \in Nat /\ sock \in Socks
  BY DEF Types, ClientOK
<1>3. Good' = Good /\ Wanted' = Wanted
  BY <1>1 DEF Good, Wanted
<1>4. AnswerWhole'
  BY <1>1, <1>3 DEF AnswerWhole, Good
<1>5. CASE Unread /\ sock' = "left" /\ UNCHANGED <<cl, inp>>
  <2>1. Types' /\ Mine' /\ BodyInv' /\ InputInv'
    BY <1>1, <1>5 DEF Types, Mine, BodyInv, InputInv, Running, Socks
  <2>2. AnswerInv' /\ WholeInv'
    BY <1>5 DEF AnswerInv, WholeInv, Connected
  <2> QED  BY <1>4, <2>1, <2>2
<1>6. CASE /\ ~Unread /\ UNCHANGED sock
           /\ \E n \in 1..Len(cl.body) - cl.written :
                /\ n <= Capacity - Len(inp)
                /\ inp' = inp \o SubSeq(cl.body, cl.written + 1, cl.written + n)
                /\ cl' = [cl EXCEPT !.written = @ + n]
  <2>1. PICK n \in 1..Len(cl.body) - cl.written :
          /\ n <= Capacity - Len(inp)
          /\ inp' = inp \o SubSeq(cl.body, cl.written + 1, cl.written + n)
          /\ cl' = [cl EXCEPT !.written = @ + n]
    BY <1>6
  <2> DEFINE u == SubSeq(cl.body, cl.written + 1, cl.written + n)
  <2>2. u \in Seq(Words) /\ Len(u) = n
    <3>1. \A i \in cl.written + 1..cl.written + n : cl.body[i] \in Words
      BY <1>2
    <3> QED  BY <3>1, <1>2, SubSeqProperties, SMTT(30)
  <2>3. inp' \in Seq(Words) /\ Len(inp') <= Capacity
    <3> HIDE DEF u
    <3>1. inp \o u \in Seq(Words) /\ Len(inp \o u) = Len(inp) + n
      BY <1>2, <2>2
    <3>2. inp' = inp \o u
      BY <2>1 DEF u
    <3>3. Len(inp) + n <= Capacity
      BY <1>2, <2>1, Bounds
    <3> QED  BY <3>1, <3>2, <3>3
  <2>4. cl'.written = cl.written + n /\ cl.written + n \in Nat /\ cl.written + n <= Len(cl.body)
    BY <1>2, <2>1 DEF ClientOK, ClientFields
  <2>5. /\ cl'.body = cl.body /\ cl'.ended = cl.ended /\ cl'.wopen = cl.wopen /\ cl'.ropen = cl.ropen
        /\ cl'.pid = cl.pid /\ cl'.code = cl.code /\ cl'.buf = cl.buf /\ cl'.resp = cl.resp
        /\ cl'.index = cl.index /\ DOMAIN cl' = ClientFields
    BY <1>2, <2>1 DEF ClientOK, ClientFields
  <2>6. Types'
    BY <1>1, <1>6, <2>3, <2>4, <2>5, ZenonT(30) DEF Types, ClientOK
  <2>7. Mine'
    BY <1>1, <1>6, <2>5 DEF Mine
  <2>8. ~ask.done /\ Running
    BY <1>6 DEF Unread, Running, Mine
  <2>9. BodyInv'
    BY <1>1, <2>4, <2>5, <2>8 DEF BodyInv
  <2>10. InputInv'
    <3> SUFFICES ASSUME ask.kind \in {"post", "chunked"}
                 PROVE  sc.got \o inp' = SubSeq(ask.full, 1, cl.written + n) /\ cl'.wopen
      BY <1>1, <2>4, <2>8 DEF InputInv, Running
    <3> DEFINE full == ask.full
               k == cl.written
               v == SubSeq(full, 1, k)
    <3>1. /\ Text(full) /\ Len(full) \in Nat /\ Len(cl.body) \in 0..Len(full)
          /\ cl.body = SubSeq(full, 1, Len(cl.body))
      BY <1>2, SeqText DEF Types, AskType, BodyInv, Text
    <3>2. k + 1 \in Nat \ {0} /\ k + n \in 0..Len(cl.body) /\ k \in 0..Len(full) /\ k + n \in k..Len(full)
      BY <1>2, <2>4, <3>1, SMTT(30)
    <3>3. u = SubSeq(full, k + 1, k + n)
      <4> DEFINE l == Len(cl.body)
      <4>1. u = SubSeq(SubSeq(full, 1, l), k + 1, k + n)
        BY <3>1
      <4>2. k + 1 \in Nat \ {0} /\ k + n \in 0..l /\ l \in 0..Len(full) /\ Text(full)
        BY <3>1, <3>2
      <4> HIDE DEF full, l
      <4> DEFINE m == k + 1
                 j == k + n
      <4>3. m \in Nat \ {0} /\ j \in 0..l
        BY <4>2
      <4> HIDE DEF m, j
      <4>4. SubSeq(SubSeq(full, 1, l), m, j) = SubSeq(full, m, j)
        BY <4>2, <4>3, PrefixText
      <4> QED  BY <4>1, <4>4 DEF m, j
    <3>4. v \o SubSeq(full, k + 1, k + n) = SubSeq(full, 1, k + n)
      <4> HIDE DEF full, k
      <4> QED  BY <3>1, <3>2, SplitText
    <3>5. sc.got \o inp = v
      BY <2>8 DEF InputInv
    <3>6. sc.got \o (inp \o u) = (sc.got \o inp) \o u
      <4> DEFINE g == sc.got
      <4>1. Text(g) /\ Text(inp) /\ Text(u)
        BY <1>2, <2>2, SeqText DEF ScriptType
      <4> HIDE DEF g, u
      <4>2. g \o (inp \o u) = (g \o inp) \o u
        BY <4>1, AssocText, SMTT(30)
      <4> QED  BY <4>2 DEF g
    <3>7. sc.got \o inp' = SubSeq(full, 1, k + n)
      BY <2>1, <3>3, <3>4, <3>5, <3>6, Zenon
    <3> QED  BY <3>7, <1>1, <2>5
  <2>11. AnswerInv' /\ WholeInv'
    BY <1>1, <1>6, <2>5, SameAnswer
  <2> QED  BY <1>4, <2>6, <2>7, <2>9, <2>10, <2>11
<1>7. CASE ~Unread /\ cl.written = Len(cl.body) /\ AllWritten(cl) /\ cl' = [cl EXCEPT !.wopen = FALSE] /\ UNCHANGED <<inp, sock>>
  <2>1. /\ cl'.body = cl.body /\ cl'.ended = cl.ended /\ cl'.written = cl.written /\ cl'.ropen = cl.ropen
        /\ cl'.pid = cl.pid /\ cl'.code = cl.code /\ cl'.buf = cl.buf /\ cl'.resp = cl.resp
        /\ cl'.index = cl.index /\ cl'.wopen = FALSE /\ DOMAIN cl' = ClientFields
    BY <1>2, <1>7 DEF ClientOK, ClientFields
  <2>2. Types'
    BY <1>1, <1>7, <2>1 DEF Types, ClientOK
  <2>3. Mine' /\ BodyInv'
    BY <1>1, <1>7, <2>1 DEF Mine, BodyInv
  <2>4. InputInv'
    BY <1>1, <1>7, <2>1 DEF InputInv, AllWritten, Running
  <2>5. AnswerInv' /\ WholeInv'
    BY <1>1, <1>7, <2>1, SameAnswer
  <2> QED  BY <1>4, <2>2, <2>3, <2>4, <2>5
<1> QED  BY <1>5, <1>6, <1>7 DEF WritePipe

\* A killed script prints nothing more.
LEMMA KilledScript ==
  ASSUME Types, Mine, sc' = Killed
  PROVE  /\ sc' \in ScriptType /\ sc'.prints = sc.prints /\ sc'.said = sc.said
         /\ sc'.state \notin {"running", "exit0", "exit1"}
         /\ sc.state # "none" => sc'.state # "none"
<1>1. sc \in ScriptType /\ cl.pid \in BOOLEAN
  BY DEF Types, ClientOK
<1>2. CASE cl.pid
  <2>1. sc' = [sc EXCEPT !.state = "killed"]
    BY <1>2 DEF Killed
  <2> QED  BY <2>1, <1>1 DEF ScriptType
<1>3. CASE ~cl.pid
  BY <1>1, <1>3 DEF Killed, Mine, ScriptType
<1> QED  BY <1>1, <1>2, <1>3

\* An error page answers a request that was not answered so far.
LEMMA FailInv ==
  ASSUME IInv, Types', BodyInv', sock = "read", ~ask.done,
         NEW code \in {400, 413},
         sock' = "write", cl'.code = code, cl'.resp = Page(code), cl'.index = cl.index,
         cl'.pid => cl.pid, sc'.state \in {"running", "exit0", "exit1"} => cl'.pid,
         ask' = [ask EXCEPT !.code = code], InputInv',
         "mixed" \in race' <=> "mixed" \in race, out' = out
  PROVE  IInv'
<1> USE DEF IInv
<1>1. ask \in AskType /\ cl.index \in Nat
  BY DEF Types, ClientOK
<1>2. ask'.code = code /\ ask'.kind = ask.kind /\ ask'.done = ask.done /\ ask'.full = ask.full
  BY <1>1 DEF AskType
<1>3. code # 200
  OBVIOUS
<1>4. Mine'
  BY <1>2, <1>3 DEF Mine
<1>5. Text(Page(code)) /\ Len(Page(code)) = 5 /\ cl'.resp # <<>>
  <2>1. Len(Page(code)) = 5
    BY PageText
  <2>2. Page(code) # <<>>
    BY DEF Page
  <2> QED  BY <2>1, <2>2, PageText
<1>6. AnswerInv'
  BY <1>2, <1>3, <1>5 DEF AnswerInv, Connected
<1>7. Wanted' = Page(code)
  BY <1>2, <1>3 DEF Wanted
<1>8. IsPrefix(<<>>, Wanted')
  BY <1>5, <1>7, PrefixOfText
<1>9. ASSUME Good' PROVE out' = <<>> /\ cl'.index = 0
  BY <1>9 DEF Good, AnswerInv
<1>10. WholeInv'
  <2>1. SubSeq(cl'.resp, 1, 0) = <<>>
    BY SubSeqEmpty
  <2>2. Len(cl'.resp) = 5
    BY <1>5
  <2> QED  BY <1>2, <1>3, <1>7, <1>9, <2>1, <2>2 DEF WholeInv, Connected
<1>11. AnswerWhole'
  BY <1>2, <1>8, <1>9 DEF AnswerWhole, Good
<1> QED  BY <1>4, <1>6, <1>10, <1>11

\* handleEndProcess keeps the invariant, whichever way the script ended.
LEMMA EndProcessInv ==
  ASSUME IInv, EndProcess
  PROVE  IInv'
<1> USE DEF IInv
<1> DEFINE c == [cl EXCEPT !.pid = FALSE]
<1>1. /\ Connected /\ cl.pid /\ sc.state \in {"exit0", "exit1"}
      /\ sc' = [sc EXCEPT !.state = "reaped"]
      /\ race' = IF cl.ropen THEN race \cup {"early"} ELSE race
      /\ UNCHANGED <<inp, outp, out, turns>>
  BY DEF EndProcess, Unreaped
<1>2. sc \in ScriptType /\ ClientOK(cl) /\ ask \in AskType /\ Text(cl.buf) /\ Text(cl.resp)
  BY DEF Types, ClientOK
<1>3. /\ sc' \in ScriptType /\ sc'.state = "reaped" /\ sc'.prints = sc.prints /\ sc'.said = sc.said
  BY <1>1, <1>2 DEF ScriptType
<1>4. ~ask.done /\ ask.kind # "static"
  BY <1>1 DEF Mine
<1>5. InputInv'
  BY <1>3 DEF InputInv, Running
<1>6. "mixed" \in race' <=> "mixed" \in race
  BY <1>1
<1>7. race' \subseteq Races
  BY <1>1 DEF Types, Races
<1>8. Good' = Good
  BY <1>1, <1>3, <1>6 DEF Good
<1>9. /\ c.body = cl.body /\ c.ended = cl.ended /\ c.written = cl.written /\ c.ropen = cl.ropen
      /\ c.pid = FALSE /\ c.code = cl.code /\ c.buf = cl.buf /\ c.resp = cl.resp
      /\ c.index = cl.index /\ c.wopen = cl.wopen /\ DOMAIN c = ClientFields
  BY <1>2 DEF ClientOK, ClientFields
<1>10. ClientOK(c)
  BY <1>2, <1>9 DEF ClientOK
<1> HIDE DEF c
<1>11. CASE sock = "write" /\ sock' = "left" /\ cl' = c /\ UNCHANGED ask
  <2>1. Types'
    BY <1>1, <1>3, <1>7, <1>10, <1>11 DEF Types, Socks
  <2>2. Mine' /\ BodyInv'
    BY <1>3, <1>9, <1>11 DEF Mine, BodyInv
  <2>3. AnswerInv' /\ WholeInv'
    BY <1>11 DEF AnswerInv, WholeInv, Connected
  <2>4. Wanted' = Wanted
    BY <1>3, <1>11 DEF Wanted
  <2>5. AnswerWhole'
    BY <1>1, <1>8, <1>11, <2>4 DEF AnswerWhole, Good
  <2> QED  BY <1>5, <2>1, <2>2, <2>3, <2>5
<1>12. CASE sock = "read" /\ Fail([c EXCEPT !.buf = <<>>], 400)
  <2> DEFINE d == [c EXCEPT !.buf = <<>>]
  <2>1. /\ d.body = cl.body /\ d.ended = cl.ended /\ d.written = cl.written /\ d.ropen = cl.ropen
        /\ d.pid = FALSE /\ d.code = cl.code /\ d.buf = <<>> /\ d.resp = cl.resp
        /\ d.index = cl.index /\ d.wopen = cl.wopen /\ DOMAIN d = ClientFields
    BY <1>9 DEF ClientFields
  <2> HIDE DEF d
  <2>2. /\ sock' = "write" /\ ask' = [ask EXCEPT !.code = 400]
        /\ cl' = [d EXCEPT !.code = 400, !.resp = Page(400)]
    BY <1>12 DEF Fail, d
  <2>3. /\ cl'.body = cl.body /\ cl'.ended = cl.ended /\ cl'.written = cl.written /\ cl'.ropen = cl.ropen
        /\ cl'.pid = FALSE /\ cl'.code = 400 /\ cl'.buf = <<>> /\ cl'.resp = Page(400)
        /\ cl'.index = cl.index /\ cl'.wopen = cl.wopen /\ DOMAIN cl' = ClientFields
    BY <2>1, <2>2 DEF ClientFields
  <2>4. ClientOK(cl')
    <3>1. Text(cl'.buf)
      BY <2>3 DEF Text
    <3>2. Text(cl'.resp)
      BY <2>3, PageText
    <3> QED  BY <1>2, <2>3, <3>1, <3>2, ZenonT(30) DEF ClientOK
  <2>5. ask' \in AskType /\ ask'.full = ask.full /\ ask'.done = ask.done
    BY <1>2, <2>2 DEF AskType
  <2>6. Types'
    BY <1>1, <1>3, <1>7, <2>2, <2>4, <2>5 DEF Types, Socks
  <2>7. BodyInv'
    BY <2>3, <2>5 DEF BodyInv
  <2> QED  BY <1>1, <1>3, <1>4, <1>5, <1>6, <1>12, <2>2, <2>3, <2>6, <2>7, FailInv
<1>13. CASE sock = "read" /\ sc.state = "exit0" /\ sock' = "write" /\ cl' = c /\ UNCHANGED ask
  <2>1. Types'
    BY <1>1, <1>3, <1>7, <1>10, <1>13 DEF Types, Socks
  <2>2. Mine' /\ BodyInv'
    BY <1>3, <1>4, <1>9, <1>13 DEF Mine, BodyInv
  <2>3. cl.code = 200
    BY <1>13 DEF Mine
  <2>4. ASSUME "mixed" \notin race PROVE out = <<>> /\ cl.index = 0 /\ (cl.ropen => cl.resp = <<>>)
    BY <1>1, <1>4, <1>13, <2>3, <2>4 DEF AnswerInv
  <2>5. AnswerInv'
    <3> SUFFICES ASSUME "mixed" \notin race PROVE AnswerInv'
      BY <1>6 DEF AnswerInv
    <3>1. CASE cl.ropen
      <4>1. "early" \in race'
        BY <1>1, <3>1
      <4> QED  BY <1>1, <1>9, <1>13, <2>4, <3>1, <4>1 DEF AnswerInv, Connected
    <3>2. CASE ~cl.ropen
      <4>1. cl.resp # <<>>
        BY <1>1, <3>2 DEF AnswerInv
      <4>2. Len(cl.resp) \in Nat /\ Len(cl.resp) # 0
        BY <1>2, <4>1, NoText DEF Text
      <4> QED  BY <1>1, <1>9, <1>13, <2>4, <3>2, <4>2 DEF AnswerInv, Connected
    <3> QED  BY <3>1, <3>2
  <2>6. Wanted' = Wanted
    BY <1>3, <1>13 DEF Wanted
  <2>7. WholeInv'
    <3> SUFFICES ASSUME Good PROVE WholeInv'
      BY <1>8 DEF WholeInv
    <3>1. /\ ask.code = 200 /\ sc.said = Len(Printed(sc.prints))
          /\ cl.ropen => cl.buf \o outp = SubSeq(Printed(sc.prints), 1, sc.said)
          /\ ~cl.ropen => cl.resp = Reply(sc.prints)
      BY <1>1, <1>4, <1>13, <2>3 DEF WholeInv
    <3>2. cl.resp \in {<<>>, Wanted}
      BY <1>4, <2>4, <3>1 DEF Wanted, Good
    <3>3. SubSeq(cl.resp, 1, 0) = <<>>
      BY SubSeqEmpty
    <3>4. 0 <= Len(cl.resp)
      BY <1>2 DEF Text
    <3>5. sc.said \in Nat
      BY <1>2 DEF ScriptType
    <3>6. out' = <<>> /\ cl'.index = 0
      BY <1>1, <1>9, <1>13, <2>4 DEF Good
    <3>7. /\ cl'.resp = cl.resp /\ cl'.buf = cl.buf /\ outp' = outp /\ cl'.ropen = cl.ropen
          /\ sc'.prints = sc.prints /\ sc'.said = sc.said /\ ask' = ask /\ cl'.code = cl.code
      BY <1>1, <1>3, <1>9, <1>13
    <3>8. sock' = "write" => /\ cl'.index <= Len(cl'.resp)
                             /\ out' = SubSeq(cl'.resp, 1, cl'.index)
                             /\ cl'.resp \in {<<>>, Wanted'}
      BY <2>6, <3>2, <3>3, <3>4, <3>6, <3>7
    <3>9. sc'.said <= Len(Printed(sc'.prints)) /\ sc'.said = Len(Printed(sc'.prints))
      BY <3>1, <3>5, <3>7
    <3>10. sc'.state = "reaped"
      BY <1>3
    <3> HIDE DEF IInv
    <3> QED  BY <2>3, <3>1, <3>7, <3>8, <3>9, <3>10 DEF WholeInv
  <2>8. AnswerWhole'
    BY <1>1, <1>8, <1>13, <2>6 DEF AnswerWhole, Good
  <2> QED  BY <1>5, <2>1, <2>2, <2>5, <2>7, <2>8
<1> QED  BY <1>11, <1>12, <1>13 DEF EndProcess, c

\* The whole output of a script is not nothing, and makes the right answer.
LEMMA WholeOutput ==
  ASSUME Types, sc.prints.blank
  PROVE  Printed(sc.prints) # <<>> /\ Wrapped(Printed(sc.prints)) = Reply(sc.prints)
<1> DEFINE o == sc.prints
<1>1. o \in Outputs
  <2>1. o \in Outputs \cup {NoOutput}
    BY DEF Types, ScriptType
  <2> QED  BY <2>1 DEF NoOutput
<1>2. Wrapped(Printed(o)) = Reply(o)
  BY <1>1, WrappedIsReply
<1>3. Printed(o) # <<>>
  <2>1. Header(o) /\ o \in Texts
    BY <1>1, Inputs
  <2> DEFINE f == o.first
             e == <<CRLF>>
             g == o.fields
             d == o.body
  <2>2. Printed(o) = f \o e \o g \o e \o d
    BY <2>1 DEF Printed, Header
  <2>3. f \in Seq(Words) /\ g \in Seq(Words) /\ d \in Seq(Words) /\ CRLF \in Words
    BY <2>1, Inputs DEF Texts
  <2> HIDE DEF f, g, d
  <2>4. LaidOut(Words, f \o e \o g \o e \o d, f, g, d, e, CRLF)
    BY <2>3, Layout
  <2>5. Len(f \o e \o g \o e \o d) # 0
    <3> DEFINE p == f \o e \o g \o e \o d
    <3>1. Len(p) = Len(f) + Len(g) + Len(d) + 2
      BY <2>4, Zenon DEF LaidOut
    <3> HIDE DEF p
    <3>2. Len(p) # 0
      BY <2>3, <3>1
    <3> QED  BY <3>2 DEF p
  <2> QED  BY <2>2, <2>5
<1> QED  BY <1>2, <1>3

\* readPipe keeps the invariant, in the midst of the output and at its end.
LEMMA ReadPipeInv ==
  ASSUME IInv, ReadPipe
  PROVE  IInv'
<1> USE DEF IInv
<1>1. Connected /\ cl.ropen /\ UNCHANGED <<sock, sc, inp, ask, out, turns>>
  BY DEF ReadPipe
<1>2. /\ sc \in ScriptType /\ ClientOK(cl) /\ Text(cl.buf) /\ Text(cl.resp) /\ Text(outp)
      /\ outp \in Seq(Words) /\ Len(outp) <= Capacity /\ race \subseteq Races
  BY SeqText DEF Types, ClientOK
<1>3. Wanted' = Wanted
  BY <1>1 DEF Wanted
<1>4. ASSUME "mixed" \in race => "mixed" \in race' PROVE AnswerWhole'
  BY <1>1, <1>3, <1>4 DEF AnswerWhole, Good
<1>5. CASE /\ \E n \in 1..Len(outp) :
                /\ cl' = [cl EXCEPT !.buf = @ \o SubSeq(outp, 1, n)]
                /\ outp' = SubSeq(outp, n + 1, Len(outp))
           /\ race' = IF Foreign THEN race \cup {"mixed"} ELSE race
  <2>1. PICK n \in 1..Len(outp) :
          /\ cl' = [cl EXCEPT !.buf = @ \o SubSeq(outp, 1, n)]
          /\ outp' = SubSeq(outp, n + 1, Len(outp))
    BY <1>5
  <2>2. /\ SubSeq(outp, 1, n) \in Seq(Words) /\ outp' \in Seq(Words) /\ Len(outp') <= Capacity
    BY <1>2, <2>1, Bounds
  <2>3. Text(cl.buf \o SubSeq(outp, 1, n))
    BY <1>2, <2>2, SeqText, CatText
  <2>4. /\ cl'.body = cl.body /\ cl'.ended = cl.ended /\ cl'.written = cl.written /\ cl'.ropen = cl.ropen
        /\ cl'.pid = cl.pid /\ cl'.code = cl.code /\ cl'.resp = cl.resp
        /\ cl'.index = cl.index /\ cl'.wopen = cl.wopen /\ DOMAIN cl' = ClientFields
        /\ cl'.buf = cl.buf \o SubSeq(outp, 1, n)
    BY <1>2, <2>1 DEF ClientOK, ClientFields
  <2>5. ClientOK(cl')
    BY <1>2, <2>3, <2>4 DEF ClientOK
  <2>6. Types'
    BY <1>1, <1>2, <1>5, <2>2, <2>5 DEF Types, Races
  <2>7. Mine' /\ BodyInv' /\ InputInv'
    BY <1>1, <2>4, ZenonT(30) DEF Mine, BodyInv, InputInv, Running
  <2>8. cl'.buf \o outp' = cl.buf \o outp
    <3>1. n \in 0..Len(outp)
      BY <1>2
    <3> QED  BY <3>1, <1>2, <2>1, <2>4, MovedText, ZenonT(30)
  <2>9. AnswerInv'
    <3> SUFFICES ASSUME "mixed" \notin race' PROVE AnswerInv'
      BY DEF AnswerInv
    <3>1. ~ask.done /\ race' = race
      BY <1>5 DEF Foreign
    <3> QED  BY <1>1, <2>4, <3>1 DEF AnswerInv, Connected
  <2>10. WholeInv'
    <3> SUFFICES ASSUME Good' PROVE WholeInv'
      BY DEF WholeInv
    <3>1. race' = race /\ Good
      BY <1>1, <1>5 DEF Good
    <3> QED  BY <1>1, <1>3, <2>4, <2>8, <3>1 DEF WholeInv, Connected
  <2> QED  BY <1>4, <1>5, <2>6, <2>7, <2>9, <2>10
<1>6. CASE /\ outp = <<>> /\ sc.state # "running" /\ UNCHANGED outp
           /\ cl' = IF cl.buf = <<>> THEN [cl EXCEPT !.buf = Lead("wrapped")] ELSE EndOfOutput(cl)
           /\ race' = IF Foreign \/ cl.code # 200 THEN race \cup {"mixed"} ELSE race
  <2>1. ASSUME "mixed" \notin race'
        PROVE  race' = race /\ ~ask.done /\ ask.kind # "static" /\ cl.code = 200
    BY <1>6, <2>1 DEF Foreign
  <2>2. ASSUME "mixed" \notin race' PROVE cl.resp = <<>> /\ cl.index = 0
    BY <1>1, <2>1, <2>2 DEF AnswerInv
  \* What is read to the end is all that the script printed.
  <2>3. ASSUME Good', sc.state # "exit1"
        PROVE  /\ sc.prints.blank /\ cl.buf # <<>> /\ Wrapped(cl.buf) = Reply(sc.prints)
               /\ ask.code = 200 /\ sc.said = Len(Printed(sc.prints))
    <3> DEFINE p == Printed(sc.prints)
    <3>1. Good
      BY <1>1, <1>6, <2>3 DEF Good
    <3>2. /\ sc.state \in {"running", "exit0", "reaped"} /\ sc.said = Len(p)
          /\ cl.buf \o outp = SubSeq(p, 1, sc.said) /\ ask.code = 200
      <4>1. "mixed" \notin race'
        BY <2>3 DEF Good
      <4> QED  BY <1>1, <1>6, <2>1, <2>3, <3>1, <4>1 DEF WholeInv
    <3>3. sc.prints.blank
      BY <3>1, <3>2 DEF Good
    <3>4. Text(p) /\ p # <<>> /\ Wrapped(p) = Reply(sc.prints)
      <4>1. sc.prints \in Outputs \cup {NoOutput}
        BY <1>2 DEF ScriptType
      <4> QED  BY <3>3, <4>1, PrintedText, WholeOutput
    <3>5. SubSeq(p, 1, Len(p)) = p
      BY <3>4, AllText
    <3>6. cl.buf \o <<>> = cl.buf
      <4> DEFINE b == cl.buf
      <4>1. PICK S : b \in Seq(S)
        BY <1>2, MadeOf
      <4> HIDE DEF b
      <4>2. b \o <<>> = b
        BY <4>1, ConcatEmptySeq
      <4> QED  BY <4>2 DEF b
    <3>7. cl.buf = p
      BY <1>6, <3>2, <3>5, <3>6
    <3> QED  BY <3>2, <3>3, <3>4, <3>7
  <2>4. CASE cl.buf = <<>>
    <3>1. cl' = [cl EXCEPT !.buf = Lead("wrapped")]
      BY <1>6, <2>4
    <3>2. /\ cl'.body = cl.body /\ cl'.ended = cl.ended /\ cl'.written = cl.written /\ cl'.ropen = cl.ropen
          /\ cl'.pid = cl.pid /\ cl'.code = cl.code /\ cl'.resp = cl.resp
          /\ cl'.index = cl.index /\ cl'.wopen = cl.wopen /\ DOMAIN cl' = ClientFields
          /\ cl'.buf = Lead("wrapped")
      BY <1>2, <3>1 DEF ClientOK, ClientFields
    <3>3. ClientOK(cl')
      BY <1>2, <3>2, LeadText DEF ClientOK
    <3>4. Types'
      BY <1>1, <1>2, <1>6, <3>3 DEF Types, Races
    <3>5. Mine' /\ BodyInv' /\ InputInv'
      <4>1. Mine' /\ BodyInv'
        BY <1>1, <3>2 DEF Mine, BodyInv
      <4>2. InputInv'
        BY <1>1, <3>2 DEF InputInv, Running
      <4> QED  BY <4>1, <4>2
    <3>6. AnswerInv'
      <4> SUFFICES ASSUME "mixed" \notin race' PROVE AnswerInv'
        BY DEF AnswerInv
      <4> QED  BY <1>1, <2>1, <3>2 DEF AnswerInv, Connected
    <3>7. WholeInv'
      <4> SUFFICES ASSUME Good' PROVE WholeInv'
        BY DEF WholeInv
      <4>1. race' = race /\ Good
        BY <1>1, <1>6 DEF Good
      <4>2. sc.state = "exit1"
        BY <2>3, <2>4
      <4> QED  BY <1>1, <1>3, <3>2, <4>1, <4>2 DEF WholeInv, Connected
    <3> QED  BY <1>4, <1>6, <3>4, <3>5, <3>6, <3>7
  <2>5. CASE cl.buf # <<>>
    <3>1. cl' = [cl EXCEPT !.buf = Wrapped(cl.buf), !.resp = Wrapped(cl.buf), !.ropen = FALSE]
      BY <1>6, <2>5 DEF EndOfOutput
    <3>2. /\ cl'.body = cl.body /\ cl'.ended = cl.ended /\ cl'.written = cl.written /\ cl'.ropen = FALSE
          /\ cl'.pid = cl.pid /\ cl'.code = cl.code /\ cl'.resp = Wrapped(cl.buf)
          /\ cl'.index = cl.index /\ cl'.wopen = cl.wopen /\ DOMAIN cl' = ClientFields
          /\ cl'.buf = Wrapped(cl.buf)
      BY <1>2, <3>1 DEF ClientOK, ClientFields
    <3>3. Text(Wrapped(cl.buf)) /\ Len(Wrapped(cl.buf)) >= 3 /\ Wrapped(cl.buf) # <<>>
      <4>1. Text(Wrapped(cl.buf)) /\ Len(Wrapped(cl.buf)) >= 3
        BY <1>2, WrappedText
      <4>2. Len(<<>>) = 0
        OBVIOUS
      <4> DEFINE w == Wrapped(cl.buf)
      <4> HIDE DEF w
      <4>3. w # <<>>
        BY <4>1, <4>2 DEF w
      <4> QED  BY <4>1, <4>3 DEF w
    <3>4. ClientOK(cl')
      BY <1>2, <3>2, <3>3, ZenonT(30) DEF ClientOK
    <3>5. Types'
      BY <1>1, <1>2, <1>6, <3>4 DEF Types, Races
    <3>6. Mine' /\ BodyInv' /\ InputInv'
      <4>1. Mine' /\ BodyInv'
        BY <1>1, <3>2 DEF Mine, BodyInv
      <4>2. InputInv'
        BY <1>1, <3>2 DEF InputInv, Running
      <4> QED  BY <4>1, <4>2
    <3>7. Len(Wrapped(cl.buf)) \in Nat
      BY <3>3 DEF Text
    <3>8. AnswerInv'
      <4> SUFFICES ASSUME "mixed" \notin race' PROVE AnswerInv'
        BY DEF AnswerInv
      <4>1. cl.index < Len(Wrapped(cl.buf))
        BY <2>2, <3>3, <3>7
      <4> QED  BY <1>1, <2>1, <3>2, <3>3, <4>1 DEF AnswerInv, Connected
    <3>9. WholeInv'
      <4> SUFFICES ASSUME Good' PROVE WholeInv'
        BY DEF WholeInv
      <4>1. race' = race /\ Good /\ "mixed" \notin race'
        BY <1>1, <1>6 DEF Good
      <4>2. cl.code = 200 /\ ask.kind # "static" /\ ~ask.done /\ cl.resp = <<>> /\ cl.index = 0
        BY <2>1, <2>2, <4>1
      <4>3. sock = "write" => sc.state # "exit1"
        BY <4>2 DEF Mine
      <4>4. sc.state # "exit1" => Wanted = Reply(sc.prints) /\ Wrapped(cl.buf) = Reply(sc.prints)
        BY <2>3, <4>2 DEF Wanted
      <4>5. sock = "write" => out = <<>>
        BY <4>1, <4>2, SubSeqEmpty DEF WholeInv
      <4>6. SubSeq(Wrapped(cl.buf), 1, 0) = <<>>
        BY SubSeqEmpty
      <4>7. Len(Wrapped(cl.buf)) >= 0
        BY <3>7
      <4>8. sock' = "write" => /\ cl'.index <= Len(cl'.resp)
                               /\ out' = SubSeq(cl'.resp, 1, cl'.index)
                               /\ cl'.resp \in {<<>>, Wanted'}
        BY <1>1, <1>3, <3>2, <4>2, <4>3, <4>4, <4>5, <4>6, <4>7
      <4>9. ~ask'.done => cl'.code = ask'.code
        BY <1>1, <3>2, <4>1, <4>2 DEF WholeInv
      <4>10. sc'.state # "exit1" =>
               /\ sc'.state \in {"running", "exit0", "reaped"}
               /\ sc'.said <= Len(Printed(sc'.prints))
               /\ sc'.state # "running" => sc'.said = Len(Printed(sc'.prints))
               /\ ~cl'.ropen /\ cl'.resp = Reply(sc'.prints)
        BY <1>1, <3>2, <4>1, <4>2, <4>4 DEF WholeInv
      <4> HIDE DEF IInv
      <4> QED  BY <4>8, <4>9, <4>10 DEF WholeInv
    <3> QED  BY <1>4, <1>6, <3>5, <3>6, <3>8, <3>9
  <2> QED  BY <2>4, <2>5
<1> QED  BY <1>5, <1>6 DEF ReadPipe

\* A connection that has ended keeps the invariant, if what its peer got does not change.
LEMMA EndedInv ==
  ASSUME IInv, sock' = "closed", cl' = NewClient, sc' = Killed,
         race \subseteq race', race' \subseteq Races,
         UNCHANGED <<inp, outp, ask, out, turns>>
  PROVE  IInv'
<1> USE DEF IInv
<1>1. /\ sc' \in ScriptType /\ sc'.prints = sc.prints
      /\ sc'.state \notin {"running", "exit0", "exit1"}
      /\ sc.state # "none" => sc'.state # "none"
  BY KilledScript
<1>2. Types'
  BY <1>1, NewClientOK DEF Types, Socks
<1>3. Mine'
  BY <1>1 DEF Mine, NewClient
<1>4. BodyInv'
  <2>1. Text(ask.full) /\ Len(ask.full) \in Nat
    BY SeqText DEF Types, AskType, Text
  <2>2. SubSeq(ask.full, 1, 0) = <<>>
    BY SubSeqEmpty
  <2> QED  BY <2>1, <2>2 DEF BodyInv, NewClient
<1>5. InputInv'
  BY <1>1 DEF InputInv, Running
<1>6. AnswerInv'
  BY DEF AnswerInv, Connected
<1>7. WholeInv'
  BY DEF WholeInv, Connected
<1>8. AnswerWhole'
  BY <1>1 DEF AnswerWhole, Wanted
<1> QED  BY <1>2, <1>3, <1>4, <1>5, <1>6, <1>7, <1>8

\* A loop that is left with an exit the server has not waited for keeps the invariant.
LEMMA LeftInv ==
  ASSUME IInv, Unreaped, sock' = "left", ClientOK(cl'), cl'.pid,
         cl'.body = <<>>, ~cl'.ended, cl'.written = 0,
         race \subseteq race', race' \subseteq Races,
         UNCHANGED <<sc, inp, outp, ask, out, turns>>
  PROVE  IInv'
<1> USE DEF IInv
<1>1. sc.state # "running"
  BY DEF Unreaped
<1>2. Types'
  BY DEF Types, Socks
<1>3. Mine'
  BY DEF Mine, Unreaped
<1>4. BodyInv'
  <2>1. Len(ask.full) \in Nat /\ SubSeq(ask.full, 1, 0) = <<>>
    BY SubSeqEmpty DEF Types, AskType
  <2> QED  BY <2>1 DEF BodyInv
<1>5. InputInv'
  BY <1>1 DEF InputInv, Running
<1>6. AnswerInv' /\ WholeInv'
  BY DEF AnswerInv, WholeInv, Connected
<1>7. AnswerWhole'
  BY DEF AnswerWhole, Wanted
<1> QED  BY <1>2, <1>3, <1>4, <1>5, <1>6, <1>7

\* deletePidEvent throws after some bytes of an error answer went out.
LEMMA LeftSendingInv ==
  ASSUME IInv, sock = "write", Unreaped, sock' = "left", cl' = Shut(cl),
         NEW n \in 0..Len(cl.resp) - cl.index,
         out' = out \o SubSeq(cl.resp, cl.index + 1, cl.index + n),
         UNCHANGED <<sc, inp, outp, ask, turns, race>>
  PROVE  IInv'
<1> USE DEF IInv
<1> DEFINE r == cl.resp
           k == cl.index
<1>1. /\ Text(r) /\ Len(r) \in Nat /\ k \in Nat /\ n \in Nat /\ k + n <= Len(r)
      /\ k + 1 \in Nat \ {0} /\ k + n \in 0..Len(r) /\ k \in 0..Len(r) /\ k + n \in k..Len(r)
      /\ Text(out) /\ ClientOK(cl)
  <2>1. Text(r) /\ Len(r) \in Nat /\ k \in Nat /\ Text(out) /\ ClientOK(cl)
    BY DEF Types, ClientOK, Text
  <2>2. n \in 0..Len(r) - k
    OBVIOUS
  <2> HIDE DEF r, k
  <2> QED  BY <2>1, <2>2
<1>2. Text(out')
  <2> DEFINE u == SubSeq(r, k + 1, k + n)
  <2> HIDE DEF r, k
  <2>1. Text(u)
    BY <1>1, PartText
  <2>2. out' = out \o u
    BY DEF u, r, k
  <2> HIDE DEF u
  <2> QED  BY <2>1, <2>2, <1>1, CatText
<1>3. /\ cl'.body = cl.body /\ cl'.ended = cl.ended /\ cl'.written = cl.written /\ cl'.pid = cl.pid
      /\ ClientOK(cl')
  BY <1>1 DEF Shut, ClientOK, ClientFields
<1>4. sc.state # "running" /\ cl.pid /\ ~ask.done
  BY DEF Unreaped, Mine
<1>5. Types'
  BY <1>2, <1>3 DEF Types, Socks
<1>6. Mine' /\ BodyInv' /\ InputInv'
  BY <1>3, <1>4 DEF Mine, BodyInv, InputInv, Running
<1>7. AnswerInv' /\ WholeInv'
  BY DEF AnswerInv, WholeInv, Connected
<1>8. Good' = Good /\ Wanted' = Wanted
  BY DEF Good, Wanted
<1>9. Good => IsPrefix(out', Wanted)
  <2> SUFFICES ASSUME Good PROVE IsPrefix(out', Wanted)
    OBVIOUS
  <2>1. out = SubSeq(r, 1, k) /\ r \in {<<>>, Wanted}
    BY DEF WholeInv
  <2> HIDE DEF r, k
  <2>2. SubSeq(r, 1, k) \o SubSeq(r, k + 1, k + n) = SubSeq(r, 1, k + n)
    BY <1>1, SplitText
  <2>3. out' = SubSeq(r, 1, k + n)
    BY <2>1, <2>2 DEF r, k
  <2>4. CASE r = Wanted
    BY <1>1, <2>3, <2>4, PrefixOfText
  <2>5. CASE r = <<>>
    <3>1. k + n = 0
      BY <1>1, <2>5
    <3>2. SubSeq(r, 1, 0) = <<>>
      BY SubSeqEmpty
    <3>3. out' = <<>> /\ out = <<>>
      <4>1. k = 0
        BY <1>1, <3>1
      <4> QED  BY <2>1, <2>3, <3>1, <3>2, <4>1
    <3>4. IsPrefix(out, Wanted)
      BY <1>4 DEF AnswerWhole, Good
    <3> QED  BY <3>3, <3>4
  <2> QED  BY <2>1, <2>4, <2>5
<1>10. AnswerWhole'
  BY <1>4, <1>8, <1>9 DEF AnswerWhole, Good
<1> QED  BY <1>5, <1>6, <1>7, <1>10

\* sendData keeps the invariant: bytes of the answer, its last byte, or nothing to send.
LEMMA SendDataInv ==
  ASSUME IInv, SendData
  PROVE  IInv'
<1> USE DEF IInv
<1> DEFINE c == IF cl.code >= 400 THEN EndScript(cl) ELSE cl
<1>1. /\ sock = "write" /\ UNCHANGED <<inp, outp, turns, race>>
      /\ sc' = IF sock' = "closed" \/ (cl.code >= 400 /\ sock' # "left") THEN Killed ELSE sc
  BY DEF SendData
<1>2. /\ ClientOK(cl) /\ sc \in ScriptType /\ ask \in AskType /\ cl.code \in {200, 400, 413}
      /\ Text(cl.resp) /\ Len(cl.resp) \in Nat /\ cl.index \in Nat /\ Text(out)
  BY DEF Types, ClientOK, Text
<1>3. ~ask.done /\ (cl.code = 200 => ~cl.pid)
  BY <1>1 DEF Mine
<1>4. /\ c.body = cl.body /\ c.ended = cl.ended /\ c.written = cl.written /\ c.code = cl.code
      /\ c.buf = cl.buf /\ c.resp = cl.resp /\ c.index = cl.index /\ DOMAIN c = ClientFields
      /\ c.pid = FALSE /\ c.wopen \in BOOLEAN /\ c.ropen \in BOOLEAN
      /\ cl.code = 200 => c.wopen = cl.wopen /\ c.ropen = cl.ropen
  <2>1. CASE cl.code >= 400 /\ cl.pid
    <3>1. c = [cl EXCEPT !.wopen = FALSE, !.ropen = FALSE, !.pid = FALSE]
      BY <2>1, <1>2 DEF EndScript, Ended, Shut, ClientOK, ClientFields
    <3> HIDE DEF c
    <3>2. cl.code # 200
      BY <2>1
    <3>3. /\ c.body = cl.body /\ c.ended = cl.ended /\ c.written = cl.written /\ c.code = cl.code
          /\ c.buf = cl.buf /\ c.resp = cl.resp /\ c.index = cl.index /\ DOMAIN c = ClientFields
      BY <3>1, <1>2 DEF ClientOK, ClientFields
    <3>4. c.pid = FALSE /\ c.wopen = FALSE /\ c.ropen = FALSE
      BY <3>1, <1>2 DEF ClientOK, ClientFields
    <3> QED  BY <3>2, <3>3, <3>4
  <2>2. CASE ~(cl.code >= 400 /\ cl.pid)
    <3>1. c = cl
      BY <2>2 DEF EndScript
    <3>2. cl.pid = FALSE
      BY <2>2, <1>2, <1>3 DEF ClientOK
    <3> HIDE DEF c
    <3> QED  BY <3>1, <3>2, <1>2 DEF ClientOK
  <2> QED  BY <2>1, <2>2
<1> HIDE DEF c
<1>0. CASE /\ cl.code >= 400 /\ PidUnknown
           /\ \E n \in 0..Len(cl.resp) - cl.index :
                out' = out \o SubSeq(cl.resp, cl.index + 1, cl.index + n)
           /\ sock' = "left" /\ cl' = Shut(cl) /\ UNCHANGED ask
  <2>1. PICK n \in 0..Len(cl.resp) - cl.index :
          out' = out \o SubSeq(cl.resp, cl.index + 1, cl.index + n)
    BY <1>0
  <2>2. sc' = sc /\ Unreaped
    BY <1>0, <1>1 DEF PidUnknown
  <2> QED  BY <1>0, <1>1, <2>1, <2>2, LeftSendingInv
<1> SUFFICES ASSUME sock' # "left" PROVE IInv'
  BY <1>0, <1>1, <1>4 DEF SendData, c
<1>5. /\ sc' \in ScriptType /\ sc'.prints = sc.prints /\ sc'.said = sc.said
      /\ sc'.state \notin {"running", "exit0", "exit1"}
      /\ sc.state # "none" => sc'.state # "none"
      /\ cl.code = 200 /\ sock' # "closed" => sc' = sc
  <2>1. CASE sc' = Killed
    <3>1. cl.code = 200 => sc' = sc
      BY <2>1, <1>3 DEF Killed
    <3> QED  BY <2>1, <3>1, KilledScript
  <2>2. CASE sc' = sc
    <3>1. ~cl.pid \/ sc' = Killed
      BY <1>1, <1>2, <1>3, <2>2
    <3>2. sc' = Killed => sc.state \notin {"running", "exit0", "exit1"}
      BY <2>2, KilledScript
    <3> QED  BY <2>2, <3>1, <3>2, <1>2 DEF Mine
  <2> QED  BY <2>1, <2>2, <1>1
<1>6. InputInv'
  BY <1>5 DEF InputInv, Running
<1>7. Good' => Good
  BY <1>1, <1>5 DEF Good
<1>8. CASE sock' = "undefined" /\ UNCHANGED <<cl, ask, out>>
  <2>1. Types'
    BY <1>1, <1>5, <1>8 DEF Types, Socks
  <2>2. Mine' /\ BodyInv'
    BY <1>1, <1>5, <1>8 DEF Mine, BodyInv
  <2>3. AnswerInv' /\ WholeInv'
    BY <1>8 DEF AnswerInv, WholeInv, Connected
  <2>4. Wanted' = Wanted
    BY <1>5, <1>8 DEF Wanted
  <2>5. AnswerWhole'
    BY <1>1, <1>5, <1>8, <2>4 DEF AnswerWhole
  <2> QED  BY <1>6, <2>1, <2>2, <2>3, <2>5
<1>9. CASE sock' = "closed" /\ cl' = NewClient /\ UNCHANGED <<ask, out>>
  <2>1. race \subseteq race' /\ race' \subseteq Races
    BY <1>1 DEF Types
  <2> QED  BY <1>1, <1>9, <2>1, EndedInv
<1>10. CASE \E n \in 1..Len(c.resp) - c.index :
              /\ out' = out \o SubSeq(c.resp, c.index + 1, c.index + n)
              /\ IF c.index + n = Len(c.resp)
                 THEN /\ cl' = Cleared(c) /\ sock' = "read"
                      /\ ask' = [ask EXCEPT !.done = TRUE]
                 ELSE cl' = [c EXCEPT !.index = @ + n] /\ UNCHANGED <<sock, ask>>
  <2> DEFINE r == cl.resp
             k == cl.index
  <2>1. PICK n \in 1..Len(r) - k :
          /\ out' = out \o SubSeq(r, k + 1, k + n)
          /\ IF k + n = Len(r)
             THEN /\ cl' = Cleared(c) /\ sock' = "read"
                  /\ ask' = [ask EXCEPT !.done = TRUE]
             ELSE cl' = [c EXCEPT !.index = @ + n] /\ UNCHANGED <<sock, ask>>
    BY <1>4, <1>10
  <2>2. /\ Text(r) /\ Len(r) \in Nat /\ k \in Nat /\ n \in Nat /\ n >= 1 /\ k + n <= Len(r)
        /\ k + 1 \in Nat \ {0} /\ k + n \in 0..Len(r) /\ k \in 0..Len(r) /\ k + n \in k..Len(r)
    BY <1>2
  <2>3. Text(out')
    <3> DEFINE u == SubSeq(r, k + 1, k + n)
    <3> HIDE DEF r, k
    <3>1. Text(u)
      BY <2>2, PartText
    <3> HIDE DEF u
    <3>2. out' = out \o u
      BY <2>1 DEF u
    <3> QED  BY <3>1, <3>2, <1>2, CatText
  <2>4. r # <<>>
    <3>1. Len(<<>>) = 0
      OBVIOUS
    <3> HIDE DEF r
    <3> QED  BY <2>2, <3>1
  <2>5. ASSUME Good'
        PROVE  out' = SubSeq(r, 1, k + n) /\ r = Wanted /\ cl.code = ask.code
    <3>1. out = SubSeq(r, 1, k) /\ r \in {<<>>, Wanted} /\ cl.code = ask.code
      BY <1>1, <1>3, <1>7, <2>5 DEF WholeInv, Connected
    <3> HIDE DEF r, k
    <3>2. SubSeq(r, 1, k) \o SubSeq(r, k + 1, k + n) = SubSeq(r, 1, k + n)
      BY <2>2, SplitText
    <3> QED  BY <2>1, <2>4, <3>1, <3>2
  <2>6. CASE k + n = Len(r)
    <3>1. cl' = Cleared(c) /\ sock' = "read" /\ ask' = [ask EXCEPT !.done = TRUE]
      BY <2>1, <2>6
    <3>2. ask' \in AskType /\ ask'.done /\ ask'.full = ask.full /\ ask'.code = ask.code /\ ask'.kind = ask.kind
      BY <1>2, <3>1, ZenonT(30) DEF AskType
    <3>3. /\ cl'.body = <<>> /\ cl'.ended = FALSE /\ cl'.written = 0 /\ cl'.wopen = c.wopen
          /\ cl'.ropen = c.ropen /\ cl'.pid = FALSE /\ cl'.code = 200 /\ cl'.buf = <<>>
          /\ cl'.resp = <<>> /\ cl'.index = 0 /\ DOMAIN cl' = ClientFields
      BY <1>4, <3>1, NewClientOK DEF Cleared, NewClient, ClientFields, ClientOK
    <3>4. ClientOK(cl')
      <4>1. Text(<<>>)
        BY DEF Text
      <4>2. cl'.wopen \in BOOLEAN /\ cl'.ropen \in BOOLEAN
        BY <1>4, <3>3, Zenon
      <4>3. cl'.ended \in BOOLEAN /\ cl'.pid \in BOOLEAN
        BY <3>3
      <4> QED  BY <3>3, <4>1, <4>2, <4>3 DEF ClientOK
    <3>5. Types'
      BY <1>1, <1>5, <2>3, <3>1, <3>2, <3>4 DEF Types, Socks
    <3>6. Mine'
      BY <1>5, <3>1, <3>2, <3>3 DEF Mine
    <3>7. BodyInv'
      <4>1. Len(ask.full) \in Nat
        BY <1>2 DEF AskType
      <4>2. SubSeq(ask.full, 1, 0) = <<>>
        BY SubSeqEmpty
      <4> QED  BY <3>2, <3>3, <4>1, <4>2 DEF BodyInv
    <3>8. AnswerInv' /\ WholeInv'
      BY <3>1, <3>2, <3>3 DEF AnswerInv, WholeInv
    <3>9. AnswerWhole'
      <4>1. Wanted' = Wanted
        BY <1>5, <3>2 DEF Wanted
      <4>2. Good' => out' = Wanted
        <5> SUFFICES ASSUME Good' PROVE out' = Wanted
          OBVIOUS
        <5>1. out' = SubSeq(r, 1, k + n) /\ r = Wanted
          BY <2>5
        <5>2. SubSeq(r, 1, Len(r)) = r
          BY <2>2, AllText
        <5> QED  BY <5>1, <5>2, <2>6
      <4> QED  BY <3>2, <4>1, <4>2 DEF AnswerWhole, Good
    <3> QED  BY <1>6, <3>5, <3>6, <3>7, <3>8, <3>9
  <2>7. CASE k + n # Len(r)
    <3>1. cl' = [c EXCEPT !.index = @ + n] /\ UNCHANGED <<sock, ask>>
      BY <2>1, <2>7
    <3>2. /\ cl'.body = cl.body /\ cl'.ended = cl.ended /\ cl'.written = cl.written /\ cl'.wopen = c.wopen
          /\ cl'.ropen = c.ropen /\ cl'.pid = FALSE /\ cl'.code = cl.code /\ cl'.buf = cl.buf
          /\ cl'.resp = r /\ cl'.index = k + n /\ DOMAIN cl' = ClientFields
      BY <1>4, <3>1 DEF ClientFields
    <3>3. ClientOK(cl')
      <4>1. cl'.wopen \in BOOLEAN /\ cl'.ropen \in BOOLEAN
        BY <1>4, <3>2, Zenon
      <4>2. cl'.ended \in BOOLEAN /\ cl'.pid \in BOOLEAN
        BY <1>2, <3>2 DEF ClientOK
      <4> HIDE DEF r, k
      <4>3. cl'.resp = r /\ cl'.buf = cl.buf /\ cl'.index = k + n /\ k + n \in Nat
        BY <2>2, <3>2
      <4> QED  BY <1>2, <2>2, <3>2, <4>1, <4>2, <4>3 DEF ClientOK
    <3>4. Types'
      BY <1>1, <1>5, <2>3, <3>1, <3>3 DEF Types, Socks
    <3>5. Mine' /\ BodyInv'
      BY <1>1, <1>3, <1>5, <3>1, <3>2 DEF Mine, BodyInv
    <3>6. AnswerInv'
      <4> SUFFICES ASSUME "mixed" \notin race PROVE AnswerInv'
        BY <1>1 DEF AnswerInv
      <4>1. k + n < Len(r)
        BY <2>2, <2>7
      <4>2. cl.code = 200 /\ ask.kind # "static" => ~cl.ropen
        BY <1>1, <1>3, <2>4 DEF AnswerInv, Connected
      <4> HIDE DEF r, k
      <4> QED  BY <1>1, <1>4, <3>1, <3>2, <4>1, <4>2 DEF AnswerInv, Connected
    <3>7. Wanted' = Wanted
      BY <1>5, <3>1 DEF Wanted
    <3>8. WholeInv'
      <4> SUFFICES ASSUME Good' PROVE WholeInv'
        BY DEF WholeInv
      <4>1. out' = SubSeq(r, 1, k + n) /\ r = Wanted /\ cl.code = ask.code
        BY <2>5
      <4>2. cl.code = 200 => sc' = sc /\ c.ropen = cl.ropen
        BY <1>1, <1>4, <1>5, <3>1
      <4>3. Good /\ Connected
        BY <1>1, <1>7 DEF Connected
      <4>4. sock' = "write" => /\ cl'.index <= Len(cl'.resp)
                               /\ out' = SubSeq(cl'.resp, 1, cl'.index)
                               /\ cl'.resp \in {<<>>, Wanted'}
        BY <2>2, <3>2, <3>7, <4>1
      <4>5. cl'.code = ask'.code
        BY <3>1, <3>2, <4>1
      <4>6. ASSUME cl'.code = 200, ask'.kind # "static", sc'.state # "exit1"
            PROVE  /\ sc'.state \in {"running", "exit0", "reaped"}
                   /\ sc'.said <= Len(Printed(sc'.prints))
                   /\ sc'.state # "running" => sc'.said = Len(Printed(sc'.prints))
                   /\ cl'.ropen => cl'.buf \o outp' = SubSeq(Printed(sc'.prints), 1, sc'.said)
                   /\ ~cl'.ropen => cl'.resp = Reply(sc'.prints)
        <5>1. /\ cl.code = 200 /\ ask.kind # "static" /\ sc' = sc /\ sc.state # "exit1"
              /\ cl'.buf = cl.buf /\ outp' = outp /\ cl'.resp = cl.resp
          BY <1>1, <3>1, <3>2, <4>2, <4>6
        <5>2. cl'.ropen <=> cl.ropen
          BY <3>2, <4>2, <5>1
        <5>3. /\ sc.state \in {"running", "exit0", "reaped"}
              /\ sc.said <= Len(Printed(sc.prints))
              /\ sc.state # "running" => sc.said = Len(Printed(sc.prints))
              /\ cl.ropen => cl.buf \o outp = SubSeq(Printed(sc.prints), 1, sc.said)
              /\ ~cl.ropen => cl.resp = Reply(sc.prints)
          BY <1>3, <4>3, <5>1 DEF WholeInv
        <5> HIDE DEF IInv
        <5> QED  BY <5>1, <5>2, <5>3
      <4> HIDE DEF IInv
      <4> QED  BY <4>4, <4>5, <4>6 DEF WholeInv
    <3>9. AnswerWhole'
      <4>1. Good' => IsPrefix(out', Wanted)
        <5> SUFFICES ASSUME Good' PROVE IsPrefix(out', Wanted)
          OBVIOUS
        <5>1. out' = SubSeq(r, 1, k + n) /\ r = Wanted
          BY <2>5
        <5> HIDE DEF r, k
        <5> QED  BY <2>2, <5>1, PrefixOfText
      <4> QED  BY <1>3, <3>1, <3>7, <4>1 DEF AnswerWhole, Good
    <3> QED  BY <1>6, <3>4, <3>5, <3>6, <3>8, <3>9
  <2> QED  BY <2>6, <2>7
<1>11. c.index = Len(c.resp) /\ sock' = "closed" /\ cl' = NewClient /\ UNCHANGED <<ask, out>> => IInv'
  BY <1>9
<1> QED  BY <1>8, <1>9, <1>10 DEF SendData, c

\* A connection that is closed by its peer or the timer keeps the invariant.
LEMMA CloseInv ==
  ASSUME IInv, Close
  PROVE  IInv'
<1>1. race \subseteq race' /\ race' \subseteq Races
  BY DEF Close, IInv, Types, Races
<1>2. UNCHANGED <<inp, outp, ask, out, turns>>
  BY DEF Close
<1>3. CASE sock' = "closed" /\ cl' = NewClient /\ sc' = Killed
  BY <1>1, <1>2, <1>3, EndedInv
<1>4. CASE PidUnknown /\ sock' = "left" /\ cl' = Cleared(Shut(cl)) /\ UNCHANGED sc
  <2>1. /\ cl'.body = <<>> /\ cl'.ended = FALSE /\ cl'.written = 0 /\ cl'.wopen = FALSE
        /\ cl'.ropen = FALSE /\ cl'.pid = TRUE /\ cl'.code = 200 /\ cl'.buf = <<>>
        /\ cl'.resp = <<>> /\ cl'.index = 0 /\ DOMAIN cl' = ClientFields
    BY <1>4 DEF IInv, Types, ClientOK, PidUnknown, Unreaped, Cleared, Shut, NewClient, ClientFields
  <2>2. ClientOK(cl')
    <3>1. Text(cl'.buf) /\ Text(cl'.resp) /\ cl'.body \in Seq(Words)
      BY <2>1 DEF Text
    <3>2. cl'.written \in Nat /\ cl'.index \in Nat /\ cl'.code \in {200, 400, 413}
      BY <2>1
    <3>3. cl'.ended \in BOOLEAN /\ cl'.wopen \in BOOLEAN /\ cl'.ropen \in BOOLEAN /\ cl'.pid \in BOOLEAN
      BY <2>1, Zenon
    <3> QED  BY <2>1, <3>1, <3>2, <3>3, Zenon DEF ClientOK
  <2>3. UNCHANGED sc /\ sock' = "left" /\ Unreaped
    BY <1>4 DEF PidUnknown
  <2> QED  BY <1>1, <1>2, <2>1, <2>2, <2>3, LeftInv
<1> QED  BY <1>3, <1>4 DEF Close

\* A report that is dropped keeps the invariant.
LEMMA LoseExitInv ==
  ASSUME IInv, LoseExit
  PROVE  IInv'
<1> USE DEF IInv
<1>1. /\ UNCHANGED <<sock, cl, inp, outp, ask, out, turns, race>>
      /\ sc' = [sc EXCEPT !.lost = TRUE]
  BY DEF LoseExit
<1>2. sc \in ScriptType
  BY DEF Types
<1>3. /\ sc' \in ScriptType /\ sc'.prints = sc.prints /\ sc'.said = sc.said
      /\ sc'.state = sc.state /\ sc'.got = sc.got
  BY <1>1, <1>2 DEF ScriptType
<1>4. Types'
  BY <1>1, <1>3 DEF Types
<1>5. Mine' /\ BodyInv'
  BY <1>1, <1>3 DEF Mine, BodyInv
<1>6. InputInv'
  BY <1>1, <1>3 DEF InputInv, Running
<1>7. AnswerInv'
  BY <1>1 DEF AnswerInv, Connected
<1>8. Good' = Good /\ Wanted' = Wanted
  BY <1>1, <1>3 DEF Good, Wanted
<1>9. WholeInv' /\ AnswerWhole'
  BY <1>1, <1>3, <1>8, ZenonT(30) DEF WholeInv, AnswerWhole, Good, Connected
<1> QED  BY <1>4, <1>5, <1>6, <1>7, <1>9

\* More of the body, or an error in it, keeps the invariant.
LEMMA ReceiveBodyInv ==
  ASSUME IInv, ReceiveBody
  PROVE  IInv'
<1> USE DEF IInv
<1> DEFINE full == ask.full
<1>1. sock = "read" /\ ~ask.done /\ ~cl.ended /\ UNCHANGED <<sc, inp, outp, out, turns, race>>
  BY DEF ReceiveBody
<1>2. /\ ClientOK(cl) /\ ask \in AskType /\ full \in Seq(Words) /\ Len(full) \in Nat
      /\ cl.body \in Seq(Words) /\ Len(cl.body) \in Nat /\ cl.written \in Nat
  BY DEF Types, ClientOK, AskType
<1>3. SubSeq(full, 1, Len(full)) = full
  BY <1>2, SubSeqFull
<1>4. ASSUME NEW n \in 0..Len(full)
      PROVE  /\ SubSeq(full, 1, n) \in Seq(Words) /\ Len(SubSeq(full, 1, n)) = n
  BY <1>2
<1>5. cl.written <= Len(cl.body) /\ Len(cl.body) <= Len(full)
  BY DEF BodyInv
<1>6. ASSUME NEW n \in Len(cl.body)..Len(full), NEW end \in {FALSE, n = Len(full)},
             cl' = [cl EXCEPT !.body = SubSeq(full, 1, n), !.ended = end],
             UNCHANGED <<sock, ask>>
      PROVE  IInv'
  <2>1. n \in Nat /\ n \in 0..Len(full) /\ cl.written <= n /\ n <= Len(full)
    BY <1>2, <1>5
  <2>2. /\ cl'.wopen = cl.wopen /\ cl'.written = cl.written /\ cl'.ropen = cl.ropen
        /\ cl'.pid = cl.pid /\ cl'.code = cl.code /\ cl'.buf = cl.buf /\ cl'.resp = cl.resp
        /\ cl'.index = cl.index /\ DOMAIN cl' = ClientFields
    BY <1>2, <1>6 DEF ClientOK, ClientFields
  <2>3. cl'.body = SubSeq(full, 1, n) /\ cl'.ended = end
    BY <1>2, <1>6 DEF ClientOK, ClientFields
  <2>4. end \in BOOLEAN /\ (end => n = Len(full))
    OBVIOUS
  <2>5. cl'.body \in Seq(Words) /\ Len(cl'.body) = n
    BY <1>4, <2>1, <2>3
  <2>6. ClientOK(cl')
    BY <1>2, <2>2, <2>3, <2>4, <2>5 DEF ClientOK
  <2>7. Types'
    BY <1>1, <1>6, <2>6 DEF Types
  <2>8. Mine'
    BY <1>1, <1>6, <2>2 DEF Mine
  <2>9. BodyInv'
    BY <1>1, <1>3, <1>6, <2>1, <2>2, <2>3, <2>4, <2>5 DEF BodyInv
  <2>10. InputInv'
    BY <1>1, <1>6, <2>2 DEF InputInv, Running
  <2>11. AnswerInv' /\ WholeInv'
    BY <1>1, <1>6, <2>2, SameAnswer
  <2>12. AnswerWhole'
    <3>1. Wanted' = Wanted
      BY <1>1, <1>6 DEF Wanted
    <3> QED  BY <1>1, <1>6, <3>1 DEF AnswerWhole
  <2> QED  BY <2>7, <2>8, <2>9, <2>10, <2>11, <2>12
<1>7. ASSUME NEW d, NEW b, b = full \/ b = cl.body, NEW code \in {400, 413},
             Fail(d, code),
             d.body = b, d.ended = cl.ended, d.written = cl.written, d.ropen = cl.ropen,
             d.pid = cl.pid, d.code = cl.code, d.buf = cl.buf, d.index = cl.index,
             d.wopen = cl.wopen, DOMAIN d = ClientFields
      PROVE  IInv'
  <2>2. /\ sock' = "write" /\ ask' = [ask EXCEPT !.code = code]
        /\ cl' = [d EXCEPT !.code = code, !.resp = Page(code)]
    BY <1>7 DEF Fail
  <2>3. /\ cl'.body = b /\ cl'.ended = cl.ended /\ cl'.written = cl.written /\ cl'.ropen = cl.ropen
        /\ cl'.pid = cl.pid /\ cl'.code = code /\ cl'.buf = cl.buf /\ cl'.resp = Page(code)
        /\ cl'.index = cl.index /\ cl'.wopen = cl.wopen /\ DOMAIN cl' = ClientFields
    BY <1>7, <2>2 DEF ClientFields
  <2>4. b \in Seq(Words) /\ cl.written <= Len(b) /\ Len(b) <= Len(full) /\ b = SubSeq(full, 1, Len(b))
    BY <1>2, <1>3, <1>5, <1>7 DEF BodyInv
  <2>5. ClientOK(cl')
    <3>1. Text(cl'.resp)
      BY <2>3, PageText
    <3> QED  BY <1>2, <2>3, <2>4, <3>1 DEF ClientOK
  <2>6. ask' \in AskType /\ ask'.full = full /\ ask'.done = ask.done /\ ask'.kind = ask.kind
    BY <1>2, <2>2 DEF AskType
  <2>7. Types'
    BY <1>1, <2>2, <2>5, <2>6 DEF Types, Socks
  <2>8. BodyInv'
    BY <1>1, <2>3, <2>4, <2>6 DEF BodyInv
  <2>9. InputInv'
    BY <1>1, <2>3, <2>6, ZenonT(30) DEF InputInv, Running
  <2>10. sc'.state \in {"running", "exit0", "exit1"} => cl'.pid
    BY <1>1, <2>3 DEF Mine
  <2> QED  BY <1>1, <2>2, <2>3, <2>7, <2>8, <2>9, <2>10, FailInv
<1>8. CASE TakeBody(cl, full, ask.kind) /\ UNCHANGED <<sock, ask>>
  <2>1. CASE cl' = [cl EXCEPT !.body = full, !.ended = TRUE]
    <3>1. Len(full) \in Len(cl.body)..Len(full)
      BY <1>2, <1>5
    <3>2. TRUE \in {FALSE, Len(full) = Len(full)}
      BY Zenon
    <3> QED  BY <1>3, <1>6, <1>8, <2>1, <3>1, <3>2
  <2>2. CASE \E n \in Len(cl.body)..Len(full) : \E end \in {FALSE, n = Len(full)} :
               cl' = [cl EXCEPT !.body = SubSeq(full, 1, n), !.ended = end]
    BY <1>6, <1>8, <2>2
  <2> QED  BY <1>8, <2>1, <2>2 DEF TakeBody
<1>9. CASE Fail([cl EXCEPT !.body = full], 413)
  <2> DEFINE d == [cl EXCEPT !.body = full]
  <2>1. /\ d.body = full /\ d.ended = cl.ended /\ d.written = cl.written /\ d.ropen = cl.ropen
        /\ d.pid = cl.pid /\ d.code = cl.code /\ d.buf = cl.buf
        /\ d.index = cl.index /\ d.wopen = cl.wopen /\ DOMAIN d = ClientFields
    BY <1>2 DEF ClientOK, ClientFields
  <2>2. Fail(d, 413)
    BY <1>9
  <2> HIDE DEF d
  <2> QED  BY <1>7, <2>1, <2>2
<1>10. CASE \E code \in {400, 413} : Fail(cl, code)
  <2>1. DOMAIN cl = ClientFields
    BY <1>2 DEF ClientOK
  <2> QED  BY <1>7, <1>10, <2>1
<1> QED  BY <1>8, <1>9, <1>10 DEF ReceiveBody

\* A new request keeps the invariant, although the pipes of an earlier one may be open.
LEMMA AskInv ==
  ASSUME IInv, Ask
  PROVE  IInv'
<1> USE DEF IInv
<1>1. /\ sock = "read" /\ ask.done /\ turns' = turns + 1 /\ out' = <<>> /\ UNCHANGED race
  BY DEF Ask
<1>2. PICK kind \in Kinds, full \in Bodies :
        /\ ask' = [kind |-> kind, full |-> IF kind \in {"post", "chunked"} THEN full ELSE <<>>,
                   code |-> 200, done |-> FALSE]
        /\ \/ /\ kind = "static"
              /\ cl' = [cl EXCEPT !.buf = @ \o Page(200), !.resp = cl.buf \o Page(200)]
              /\ sock' = "write"
              /\ UNCHANGED <<sc, inp, outp>>
           \/ /\ kind # "static"
              /\ \/ cl' = Spawned(cl, kind)
                 \/ TakeBody(Spawned(cl, kind), full, kind)
              /\ \E o \in Outputs, waits \in BOOLEAN :
                   sc' = [NoScript EXCEPT !.state = "running", !.prints = o,
                                          !.waits = waits /\ kind # "get"]
              /\ inp' = <<>> /\ outp' = <<>>
              /\ UNCHANGED sock
  BY DEF Ask
<1> DEFINE due == IF kind \in {"post", "chunked"} THEN full ELSE <<>>
<1>3. full \in Seq(Words) /\ due \in Seq(Words) /\ Len(due) \in Nat /\ Len(full) \in Nat
  BY Inputs
<1>4. /\ ask'.kind = kind /\ ask'.full = due /\ ask'.code = 200 /\ ask'.done = FALSE
      /\ ask' \in AskType
  BY <1>2, <1>3 DEF AskType
<1> HIDE DEF due
<1>5. /\ ClientOK(cl) /\ sc \in ScriptType /\ Text(cl.buf) /\ Text(cl.resp) /\ turns' \in Nat
      /\ inp \in Seq(Words) /\ outp \in Seq(Words) /\ Len(inp) <= Capacity /\ Len(outp) <= Capacity
  BY <1>1 DEF Types, ClientOK
<1>6. Text(<<>>) /\ Text(out') /\ Len(<<>>) = 0 /\ <<>> \in Seq(Words) /\ Len(<<>>) <= Capacity
  BY <1>1, Bounds DEF Text
<1>7. /\ cl.body = <<>> /\ ~cl.ended /\ cl.written = 0 /\ ~cl.pid /\ cl.code = 200
      /\ sc.state \notin {"running", "exit0", "exit1"}
  BY <1>1 DEF Mine, BodyInv
<1>8. ASSUME "mixed" \notin race PROVE cl.index = 0 /\ cl.resp = <<>> /\ cl.buf = <<>>
  BY <1>1, <1>8 DEF AnswerInv
<1>9. SubSeq(due, 1, 0) = <<>>
  BY SubSeqEmpty
<1>10. ASSUME Text(Wanted') PROVE AnswerWhole'
  <2>1. IsPrefix(out', Wanted')
    BY <1>1, <1>10, PrefixOfText
  <2> QED  BY <1>4, <2>1 DEF AnswerWhole
<1>11. CASE /\ kind = "static"
            /\ cl' = [cl EXCEPT !.buf = @ \o Page(200), !.resp = cl.buf \o Page(200)]
            /\ sock' = "write"
            /\ UNCHANGED <<sc, inp, outp>>
  <2> DEFINE r == cl.buf \o Page(200)
  <2>1. Text(r) /\ Len(r) = Len(cl.buf) + 5 /\ Len(cl.buf) \in Nat
    <3> DEFINE p == Page(200)
               b == cl.buf
    <3>1. Text(p) /\ Len(p) = 5 /\ Text(b) /\ Len(b) \in Nat
      BY <1>5, PageText DEF Text
    <3> HIDE DEF p, b
    <3>2. Text(b \o p) /\ Len(b \o p) = Len(b) + Len(p)
      BY <3>1, CatText
    <3> QED  BY <3>1, <3>2 DEF p, b
  <2>2. /\ cl'.body = cl.body /\ cl'.ended = cl.ended /\ cl'.written = cl.written /\ cl'.ropen = cl.ropen
        /\ cl'.pid = cl.pid /\ cl'.code = cl.code /\ cl'.buf = r /\ cl'.resp = r
        /\ cl'.index = cl.index /\ cl'.wopen = cl.wopen /\ DOMAIN cl' = ClientFields
    BY <1>5, <1>11 DEF ClientOK, ClientFields
  <2>3. "mixed" \notin race => r = Page(200)
    <3> SUFFICES ASSUME "mixed" \notin race PROVE r = Page(200)
      OBVIOUS
    <3> DEFINE p == Page(200)
    <3>1. PICK S : p \in Seq(S)
      <4>1. Text(p)
        BY PageText
      <4> QED  BY <4>1, MadeOf
    <3> HIDE DEF p
    <3>2. <<>> \o p = p
      BY <3>1, ConcatEmptySeq
    <3> QED  BY <1>8, <3>2 DEF p
  <2> HIDE DEF r
  <2>4. ClientOK(cl')
    BY <1>5, <2>1, <2>2 DEF ClientOK
  <2>5. Types'
    BY <1>1, <1>4, <1>5, <1>6, <1>11, <2>4 DEF Types, Socks
  <2>6. Mine' /\ InputInv'
    BY <1>1, <1>4, <1>7, <1>11, <2>2 DEF Mine, InputInv, Running
  <2>7. BodyInv'
    BY <1>3, <1>4, <1>6, <1>7, <1>9, <2>2 DEF BodyInv
  <2>8. Wanted' = Page(200)
    BY <1>4, <1>11 DEF Wanted
  <2>9. AnswerInv'
    BY <1>1, <1>4, <1>7, <1>8, <1>11, <2>1, <2>2 DEF AnswerInv, Connected
  <2>10. WholeInv'
    <3> SUFFICES ASSUME Good' PROVE WholeInv'
      BY DEF WholeInv
    <3>1. cl'.index = 0 /\ cl'.resp = Wanted' /\ Len(cl'.resp) \in Nat
      BY <1>1, <1>8, <2>1, <2>2, <2>3, <2>8 DEF Good
    <3>2. SubSeq(cl'.resp, 1, 0) = <<>>
      BY SubSeqEmpty
    <3> QED  BY <1>1, <1>4, <1>7, <1>11, <2>2, <3>1, <3>2 DEF WholeInv
  <2>11. AnswerWhole'
    BY <1>10, <2>8, PageText
  <2> QED  BY <2>5, <2>6, <2>7, <2>9, <2>10, <2>11
<1>12. CASE /\ kind # "static"
            /\ \/ cl' = Spawned(cl, kind)
               \/ TakeBody(Spawned(cl, kind), full, kind)
            /\ \E o \in Outputs, waits \in BOOLEAN :
                 sc' = [NoScript EXCEPT !.state = "running", !.prints = o,
                                        !.waits = waits /\ kind # "get"]
            /\ inp' = <<>> /\ outp' = <<>>
            /\ UNCHANGED sock
  <2>1. PICK o \in Outputs, waits \in BOOLEAN :
          sc' = [NoScript EXCEPT !.state = "running", !.prints = o, !.waits = waits /\ kind # "get"]
    BY <1>12
  <2>2. /\ sc'.state = "running" /\ sc'.prints = o /\ sc'.got = <<>> /\ sc'.said = 0
        /\ sc' \in ScriptType
    <3> DEFINE w == waits /\ kind # "get"
    <3>1. w \in BOOLEAN /\ sc' = [NoScript EXCEPT !.state = "running", !.prints = o, !.waits = w]
      BY <2>1
    <3> HIDE DEF w
    <3>2. sc' = [state |-> "running", prints |-> o, waits |-> w, got |-> <<>>, said |-> 0, lost |-> FALSE]
      BY <3>1, Zenon DEF NoScript
    <3>3. /\ "running" \in {"none", "running", "exit0", "exit1", "reaped", "killed"}
          /\ o \in Outputs \cup {NoOutput} /\ w \in BOOLEAN /\ <<>> \in Seq(Words) /\ 0 \in Nat
          /\ FALSE \in BOOLEAN
      BY <1>6, <3>1
    <3>4. sc' \in ScriptType
      BY <3>2, <3>3, Zenon DEF ScriptType
    <3>5. sc'.state = "running" /\ sc'.prints = o /\ sc'.got = <<>> /\ sc'.said = 0
      BY <3>2, Zenon
    <3> QED  BY <3>4, <3>5
  <2> DEFINE d == Spawned(cl, kind)
  <2>3. /\ d.body = <<>> /\ d.ended = FALSE /\ d.written = 0 /\ d.ropen = TRUE
        /\ d.pid = TRUE /\ d.code = 200 /\ d.buf = cl.buf /\ d.resp = cl.resp
        /\ d.index = cl.index /\ d.wopen = (cl.wopen \/ kind # "get") /\ DOMAIN d = ClientFields
    BY <1>5, <1>7 DEF ClientOK, ClientFields, Spawned
  <2> HIDE DEF d
  <2>4. /\ cl'.written = 0 /\ cl'.ropen = TRUE
        /\ cl'.pid = TRUE /\ cl'.code = 200 /\ cl'.buf = cl.buf /\ cl'.resp = cl.resp
        /\ cl'.index = cl.index /\ cl'.wopen = (cl.wopen \/ kind # "get") /\ DOMAIN cl' = ClientFields
    <3>1. CASE cl' = d
      BY <2>3, <3>1
    <3>2. ASSUME NEW b, NEW end, cl' = [d EXCEPT !.body = b, !.ended = end]
          PROVE  /\ cl'.written = d.written /\ cl'.ropen = d.ropen
                 /\ cl'.pid = d.pid /\ cl'.code = d.code /\ cl'.buf = d.buf /\ cl'.resp = d.resp
                 /\ cl'.index = d.index /\ cl'.wopen = d.wopen /\ DOMAIN cl' = ClientFields
      BY <2>3, <3>2 DEF ClientFields
    <3>3. CASE TakeBody(d, full, kind)
      <4>1. PICK b, end : cl' = [d EXCEPT !.body = b, !.ended = end]
        BY <3>3, Zenon DEF TakeBody
      <4>2. /\ cl'.written = d.written /\ cl'.ropen = d.ropen
            /\ cl'.pid = d.pid /\ cl'.code = d.code /\ cl'.buf = d.buf /\ cl'.resp = d.resp
            /\ cl'.index = d.index /\ cl'.wopen = d.wopen /\ DOMAIN cl' = ClientFields
        BY <3>2, <4>1
      <4> QED  BY <2>3, <4>2
    <3> QED  BY <1>12, <3>1, <3>3 DEF d
  <2>5. /\ cl'.body \in Seq(Words) /\ cl'.ended \in BOOLEAN
        /\ Len(cl'.body) \in Nat /\ Len(cl'.body) <= Len(due) /\ cl'.body = SubSeq(due, 1, Len(cl'.body))
        /\ cl'.ended => cl'.body = due
    <3>1. SUFFICES /\ cl'.ended \in BOOLEAN
                   /\ \E n \in 0..Len(due) : cl'.body = SubSeq(due, 1, n)
                   /\ cl'.ended => cl'.body = due
      <4>1. PICK n \in 0..Len(due) : cl'.body = SubSeq(due, 1, n)
        BY <3>1
      <4>2. SubSeq(due, 1, n) \in Seq(Words) /\ Len(SubSeq(due, 1, n)) = n
        BY <1>3
      <4>3. n \in Nat /\ n <= Len(due)
        BY <1>3
      <4> QED  BY <3>1, <4>1, <4>2, <4>3
    <3>2. CASE cl' = d
      <4>1. cl'.body = SubSeq(due, 1, 0) /\ ~cl'.ended /\ cl'.ended \in BOOLEAN
        BY <1>9, <2>3, <3>2
      <4>2. 0 \in 0..Len(due)
        BY <1>3
      <4> QED  BY <4>1, <4>2
    <3>3. CASE kind = "post" /\ cl' = [d EXCEPT !.body = full, !.ended = TRUE]
      <4>1. cl'.body = full /\ cl'.ended = TRUE
        BY <2>3, <3>3 DEF ClientFields
      <4>2. due = full /\ SubSeq(due, 1, Len(due)) = due /\ Len(due) \in 0..Len(due)
        BY <1>3, <3>3, SubSeqFull DEF due
      <4> QED  BY <4>1, <4>2
    <3>4. CASE /\ kind = "chunked"
               /\ \E n \in Len(d.body)..Len(full) : \E end \in {FALSE, n = Len(full)} :
                    cl' = [d EXCEPT !.body = SubSeq(full, 1, n), !.ended = end]
      <4>1. PICK n \in 0..Len(full) : \E end \in {FALSE, n = Len(full)} :
              cl' = [d EXCEPT !.body = SubSeq(full, 1, n), !.ended = end]
        BY <1>6, <2>3, <3>4
      <4>2. PICK end \in {FALSE, n = Len(full)} : cl' = [d EXCEPT !.body = SubSeq(full, 1, n), !.ended = end]
        BY <4>1
      <4>3. cl'.body = SubSeq(full, 1, n) /\ cl'.ended = end
        BY <2>3, <4>2 DEF ClientFields
      <4>4. due = full /\ SubSeq(due, 1, Len(due)) = due
        BY <1>3, <3>4, SubSeqFull DEF due
      <4>5. end \in BOOLEAN /\ (end => n = Len(full))
        OBVIOUS
      <4>6. cl'.ended => cl'.body = due
        BY <4>3, <4>4, <4>5
      <4> QED  BY <4>3, <4>4, <4>5, <4>6
    <3> QED  BY <1>12, <3>2, <3>3, <3>4 DEF TakeBody, d
  <2>6. ClientOK(cl')
    <3>1. cl'.wopen \in BOOLEAN
      BY <2>4, Zenon
    <3>2. Text(cl'.buf) /\ Text(cl'.resp) /\ cl'.index \in Nat
      BY <1>5, <2>4 DEF ClientOK
    <3>3. /\ cl'.written \in Nat /\ cl'.code \in {200, 400, 413}
          /\ cl'.ropen \in BOOLEAN /\ cl'.pid \in BOOLEAN
      <4>1. cl'.written \in Nat /\ cl'.code \in {200, 400, 413}
        BY <2>4
      <4>2. cl'.ropen \in BOOLEAN /\ cl'.pid \in BOOLEAN
        BY <2>4, Zenon
      <4> QED  BY <4>1, <4>2
    <3> QED  BY <2>4, <2>5, <3>1, <3>2, <3>3, Zenon DEF ClientOK
  <2>7. Types'
    BY <1>1, <1>4, <1>5, <1>6, <1>12, <2>2, <2>6 DEF Types, Socks
  <2>8. Mine'
    BY <1>1, <1>4, <1>12, <2>2, <2>4 DEF Mine
  <2>9. BodyInv'
    BY <1>4, <2>4, <2>5 DEF BodyInv
  <2>10. InputInv'
    <3> SUFFICES ASSUME kind \in {"post", "chunked"} PROVE InputInv'
      BY <1>4 DEF InputInv
    <3>1. <<>> \o <<>> = <<>>
      OBVIOUS
    <3>2. cl'.wopen
      <4>1. kind # "get"
        OBVIOUS
      <4> QED  BY <2>4, <4>1
    <3>3. sc'.got \o inp' = SubSeq(ask'.full, 1, cl'.written)
      <4>1. sc'.got = <<>> /\ inp' = <<>> /\ cl'.written = 0 /\ ask'.full = due
        BY <1>4, <1>12, <2>2, <2>4
      <4> QED  BY <1>9, <3>1, <4>1
    <3> QED  BY <3>2, <3>3 DEF InputInv
  <2>11. AnswerInv'
    BY <1>1, <1>4, <1>8, <1>12, <2>4 DEF AnswerInv, Connected
  <2>12. Text(Wanted') /\ o \in Outputs \cup {NoOutput}
    <3>1. Wanted' = Reply(o)
      BY <1>4, <1>12, <2>2 DEF Wanted
    <3> QED  BY <3>1, ReplyText
  <2>13. WholeInv'
    <3> SUFFICES ASSUME Good' PROVE WholeInv'
      BY DEF WholeInv
    <3>1. Len(Printed(o)) \in Nat
      BY <2>12, PrintedText DEF Text
    <3>2. cl'.buf \o outp' = SubSeq(Printed(sc'.prints), 1, sc'.said)
      <4>1. cl'.buf = <<>> /\ outp' = <<>>
        BY <1>1, <1>8, <1>12, <2>4 DEF Good
      <4>2. SubSeq(Printed(o), 1, 0) = <<>> /\ <<>> \o <<>> = <<>>
        BY SubSeqEmpty
      <4> QED  BY <2>2, <4>1, <4>2
    <3> QED  BY <1>1, <1>4, <1>12, <2>2, <2>4, <3>1, <3>2 DEF WholeInv
  <2>14. AnswerWhole'
    BY <1>10, <2>12
  <2> QED  BY <2>7, <2>8, <2>9, <2>10, <2>11, <2>13, <2>14
<1> QED  BY <1>2, <1>11, <1>12

\* Every step keeps the invariant.
LEMMA NextInv ==
  ASSUME IInv, [Next]_vars
  PROVE  IInv'
<1>1. CASE UNCHANGED vars
  <2>1. Wanted' = Wanted /\ Good' = Good /\ Connected' = Connected /\ Running' = Running
    BY <1>1 DEF vars, Wanted, Good, Connected, Running
  <2>2. Types' /\ Mine' /\ BodyInv' /\ InputInv'
    BY <1>1, <2>1 DEF vars, IInv, Types, Mine, BodyInv, InputInv
  <2>3. AnswerInv'
    BY <1>1, <2>1 DEF vars, IInv, AnswerInv
  <2>4. WholeInv'
    BY <1>1, <2>1 DEF vars, IInv, WholeInv
  <2>5. AnswerWhole'
    BY <1>1, <2>1 DEF vars, IInv, AnswerWhole
  <2> QED  BY <2>2, <2>3, <2>4, <2>5 DEF IInv
<1>2. CASE Next
  BY <1>2, AskInv, ReceiveBodyInv, WritePipeInv, ReadPipeInv, EndProcessInv, SendDataInv, LoseExitInv, CloseInv,
     ScriptReadsInv, ScriptPrintsInv, ScriptEndsInv
     DEF Next, Server, ScriptGoesOn
<1> QED  BY <1>1, <1>2

\* The invariant holds in every reachable state.
THEOREM Invariance == Spec => []IInv
<1>1. IInv /\ [Next]_vars => IInv'
  BY NextInv
<1> QED  BY <1>1, InitInv, PTL DEF Spec

\* Every variable has its type.
THEOREM TypeCorrect == Spec => []TypeOK
<1>1. IInv => TypeOK
  BY DEF IInv, Types, BodyInv, ClientOK, ScriptType, TypeOK
<1> QED  BY <1>1, Invariance, PTL

\* A script is given the body of its request, in order and nothing else, and the end of
\* its input only after all of it, whatever the sizes of reads, writes and pipes.
THEOREM InputIsWhole == Spec => []InputWhole
<1>1. IInv => InputWhole
  <2> SUFFICES ASSUME IInv, sc.state = "running", ask.kind \in {"post", "chunked"}
               PROVE  /\ IsPrefix(sc.got \o inp, ask.full)
                      /\ ~cl.wopen => sc.got \o inp = ask.full
    BY DEF InputWhole
  <2> USE DEF IInv
  <2> DEFINE full == ask.full
             k == cl.written
  <2>1. sc.got \o inp = SubSeq(full, 1, k) /\ (~cl.wopen => cl.ended /\ k = Len(cl.body))
    BY DEF InputInv, Running
  <2>2. /\ Text(full) /\ k \in 0..Len(full) /\ (cl.ended => cl.body = full)
    BY SeqText DEF Types, ClientOK, AskType, BodyInv, Text
  <2>3. IsPrefix(SubSeq(full, 1, k), full)
    <3> HIDE DEF full, k
    <3> QED  BY <2>2, PrefixOfText
  <2>4. SubSeq(full, 1, Len(full)) = full
    <3> HIDE DEF full
    <3> QED  BY <2>2, AllText
  <2> QED  BY <2>1, <2>2, <2>3, <2>4
<1> QED  BY <1>1, Invariance, PTL

\* A peer gets the beginning of the right answer, and all of it by the time the server
\* awaits the next request, in every order of pipe events, exit and sends that mixes no
\* output into another answer.
THEOREM AnswerIsWhole == Spec => []AnswerWhole
<1>1. IInv => AnswerWhole
  BY DEF IInv
<1> QED  BY <1>1, Invariance, PTL

\* No step loses a connection in another way.
LEMMA LostStep ==
  ASSUME IInv, LostOnlyByRace, [Next]_vars
  PROVE  LostOnlyByRace'
<1>1. CASE UNCHANGED <<sock, out, race>>
  BY <1>1 DEF LostOnlyByRace
<1>2. CASE sock' \notin {"closed", "undefined"}
  BY <1>2 DEF LostOnlyByRace
<1>3. CASE Close
  <2>1. "gone" \in race'
    BY <1>3 DEF Close
  <2> QED  BY <2>1 DEF LostOnlyByRace
<1>4. CASE SendData
  <2> SUFFICES ASSUME race' \cap {"gone", "mixed"} = {}, sock' \in {"closed", "undefined"}
               PROVE  sock' = "closed" /\ out' = <<>> /\ "early" \in race'
    BY DEF LostOnlyByRace
  <2> DEFINE c == IF cl.code >= 400 THEN EndScript(cl) ELSE cl
  <2>1. sock = "write" /\ UNCHANGED race /\ "mixed" \notin race
    BY <1>4 DEF SendData
  <2>2. c.index = cl.index /\ c.resp = cl.resp
    BY DEF IInv, Types, ClientOK, ClientFields, EndScript, Ended, Shut
  <2>3. \/ cl.index < Len(cl.resp)
        \/ cl.index = 0 /\ cl.resp = <<>> /\ out = <<>> /\ "early" \in race
    BY <2>1 DEF IInv, AnswerInv
  <2>4. /\ cl.index \in Nat /\ Len(cl.resp) \in Nat /\ Len(<<>>) = 0
    BY DEF IInv, Types, ClientOK, Text
  <2>5. \/ c.index > Len(c.resp) /\ sock' = "undefined"
        \/ c.index = Len(c.resp) /\ sock' = "closed" /\ UNCHANGED out
    BY <1>4, <2>1 DEF SendData
  <2> HIDE DEF c
  <2> QED  BY <2>1, <2>2, <2>3, <2>4, <2>5
<1>5. CASE Ask \/ ReceiveBody \/ WritePipe \/ ReadPipe \/ EndProcess
  <2>1. sock \in {"read", "write"}
    BY <1>5 DEF Ask, ReceiveBody, WritePipe, ReadPipe, EndProcess, Connected
  <2>2. sock' = sock \/ sock' \in {"write", "left"}
    BY <1>5, ZenonT(30) DEF Ask, ReceiveBody, WritePipe, ReadPipe, EndProcess, Fail
  <2> QED  BY <1>2, <2>1, <2>2
<1>6. CASE ScriptGoesOn \/ ScriptFails \/ LoseExit \/ UNCHANGED vars
  BY <1>1, <1>6 DEF LoseExit, ScriptGoesOn, ScriptReads, ScriptPrints, ScriptFinishes, ScriptFails, vars
<1> QED  BY <1>3, <1>4, <1>5, <1>6 DEF Next, Server

\* The server closes no connection by itself with nothing answered, unless a script's
\* exit was handled before its output, and sends nothing from beyond an answer.
THEOREM LostOnly == Spec => []LostOnlyByRace
<1>1. Init => LostOnlyByRace
  BY DEF Init, LostOnlyByRace
<1>2. IInv /\ LostOnlyByRace /\ [Next]_vars => LostOnlyByRace'
  BY LostStep
<1> QED  BY <1>1, <1>2, Invariance, PTL DEF Spec
=============================================================================
