------------------------- MODULE ConfigParserProofs -------------------------
(***************************************************************************)
(* Proofs about ConfigParser, for any set of files and of configurations:  *)
(* the counter of blocks, the types, the routes, and that the four passes  *)
(* agree on a well-formed file.  For the last a file is read as a walk     *)
(* through its configuration: the place behind each of its words says what *)
(* each pass has to hold there.                                            *)
(***************************************************************************)
EXTENDS ConfigParser, SequenceLemmas

\* The stack and its counter; a file that passed checkSyntax left no name on it.
CountInv ==
  /\ bracket \in Seq({"SERVER", "LOCATION", "OPEN_BRACKET"})
  /\ blockCount = Cardinality(Named)
  /\ Parsed => Named = {}

\* The names on a stack, whatever it is.
NamedIn(b) == {n \in DOMAIN b : b[n] \in {"SERVER", "LOCATION"}}

\* They are finitely many.
LEMMA NamedFinite ==
  ASSUME NEW b \in Seq({"SERVER", "LOCATION", "OPEN_BRACKET"})
  PROVE  IsFiniteSet(NamedIn(b)) /\ Cardinality(NamedIn(b)) \in Nat
<1>1. IsFiniteSet(1..Len(b)) /\ NamedIn(b) \subseteq 1..Len(b)
  BY FS_Interval DEF NamedIn
<1> QED  BY <1>1, FS_Subset, FS_CardinalityType

\* A pushed name is one more, a pushed bracket none.
LEMMA PushNamed ==
  ASSUME NEW b \in Seq({"SERVER", "LOCATION", "OPEN_BRACKET"}),
         NEW k \in {"SERVER", "LOCATION", "OPEN_BRACKET"}
  PROVE  /\ Append(b, k) \in Seq({"SERVER", "LOCATION", "OPEN_BRACKET"})
         /\ Cardinality(NamedIn(Append(b, k)))
              = Cardinality(NamedIn(b)) + IF k = "OPEN_BRACKET" THEN 0 ELSE 1
<1>0. Append(b, k) \in Seq({"SERVER", "LOCATION", "OPEN_BRACKET"})
  BY AppendProperties
<1>1. CASE k = "OPEN_BRACKET"
  <2>1. NamedIn(Append(b, k)) = NamedIn(b)
    BY <1>1 DEF NamedIn
  <2> QED  BY <1>0, <1>1, <2>1, NamedFinite
<1>2. CASE k # "OPEN_BRACKET"
  <2>1. NamedIn(Append(b, k)) = NamedIn(b) \cup {Len(b) + 1} /\ Len(b) + 1 \notin NamedIn(b)
    BY <1>2 DEF NamedIn
  <2>2. Cardinality(NamedIn(Append(b, k))) = Cardinality(NamedIn(b)) + 1
    BY <2>1, NamedFinite, FS_AddElement
  <2> QED  BY <1>0, <1>2, <2>2
<1> QED  BY <1>1, <1>2

\* A popped block takes one name away.
LEMMA PopNamed ==
  ASSUME NEW b \in Seq({"SERVER", "LOCATION", "OPEN_BRACKET"}), Len(b) > 1,
         b[Len(b)] = "OPEN_BRACKET", b[Len(b) - 1] \in {"SERVER", "LOCATION"}
  PROVE  /\ SubSeq(b, 1, Len(b) - 2) \in Seq({"SERVER", "LOCATION", "OPEN_BRACKET"})
         /\ Cardinality(NamedIn(SubSeq(b, 1, Len(b) - 2))) = Cardinality(NamedIn(b)) - 1
<1> DEFINE s == SubSeq(b, 1, Len(b) - 2)
<1>1. s \in Seq({"SERVER", "LOCATION", "OPEN_BRACKET"}) /\ Len(s) = Len(b) - 2
      /\ \A n \in 1..Len(s) : s[n] = b[n]
  <2>1. Len(b) \in Nat /\ \A n \in 1 .. Len(b) - 2 : b[n] \in {"SERVER", "LOCATION", "OPEN_BRACKET"}
    OBVIOUS
  <2>2. 1 \in Int /\ Len(b) - 2 \in Int /\ Len(b) - 2 >= 0
    BY <2>1
  <2>3. /\ s \in Seq({"SERVER", "LOCATION", "OPEN_BRACKET"})
        /\ Len(s) = IF 1 <= Len(b) - 2 THEN Len(b) - 2 - 1 + 1 ELSE 0
        /\ \A n \in 1 .. (Len(b) - 2) - 1 + 1 : s[n] = b[1 + n - 1]
    BY <2>1, <2>2, SubSeqProperties
  <2> HIDE DEF s
  <2>4. Len(s) = Len(b) - 2
    <3> DEFINE m == Len(b) - 2
    <3>1. m \in Int /\ m >= 0
      BY <2>2
    <3>2. Len(s) = IF 1 <= m THEN m - 1 + 1 ELSE 0
      BY <2>3
    <3> HIDE DEF m
    <3>3. Len(s) = m
      BY <3>1, <3>2
    <3> QED  BY <3>3 DEF m
  <2> QED  BY <2>1, <2>3, <2>4
<1>2. NamedIn(s) = NamedIn(b) \ {Len(b) - 1} /\ Len(b) - 1 \in NamedIn(b)
  <2> HIDE DEF s
  <2> QED  BY <1>1 DEF NamedIn
<1> QED  BY <1>1, <1>2, NamedFinite, FS_RemoveElement, SMTT(30)

\* The stack is empty at first.
LEMMA CountInit == Init => CountInv
<1>1. Init => bracket = <<>> /\ Named = {} /\ blockCount = 0
  BY DEF Init, Named
<1> QED  BY <1>1, FS_EmptySet DEF CountInv

\* A pass keeps the account of the stack.
LEMMA CountNext ==
  ASSUME CountInv, [Next]_vars
  PROVE  CountInv'
<1>n. Named = NamedIn(bracket) /\ Named' = NamedIn(bracket')
  BY DEF Named, NamedIn
<1>1. ASSUME UNCHANGED brackets, Parsed' => Parsed \/ Named = {}
      PROVE  CountInv'
  BY <1>1, <1>n DEF CountInv, brackets
<1>2. ASSUME NEW k \in {"SERVER", "LOCATION", "OPEN_BRACKET"}, phase = "checkSyntax", Push(k)
      PROVE  CountInv'
  <2>1. CASE Throw
    BY <1>1, <2>1 DEF Throw, Parsed, brackets
  <2>2. CASE /\ bracket' = Append(bracket, k)
             /\ IF k = "OPEN_BRACKET"
                THEN UNCHANGED <<stackState, blockCount>>
                ELSE stackState' = k /\ blockCount' = blockCount + 1
             /\ phase' = phase
    <3>1. ~Parsed'
      BY <1>2, <2>2 DEF Parsed
    <3> QED  BY <1>n, <2>2, <3>1, PushNamed, NamedFinite DEF CountInv
  <2> QED  BY <1>2, <2>1, <2>2 DEF Push
<1>3. ASSUME phase = "checkSyntax", Pop
      PROVE  CountInv'
  <2>1. CASE Throw \/ Undefined
    BY <1>1, <2>1 DEF Throw, Undefined, Parsed, brackets
  <2>2. CASE /\ Len(bracket) > 1 /\ bracket[Len(bracket)] = "OPEN_BRACKET"
             /\ bracket[Len(bracket) - 1] \in {"SERVER", "LOCATION"}
             /\ blockCount' = blockCount - 1
             /\ bracket' = SubSeq(bracket, 1, Len(bracket) - 2)
             /\ phase' = phase
    <3>1. ~Parsed'
      BY <1>3, <2>2 DEF Parsed
    <3> QED  BY <1>n, <2>2, <3>1, PopNamed DEF CountInv
  <2> QED  BY <1>3, <2>1, <2>2 DEF Pop, Uncounted, CountInv
<1>4. CASE SetCheckList
  BY <1>1, <1>4 DEF SetCheckList, InPass, AtEnd, Go, Throw, Parsed, brackets
<1>5. CASE CheckSyntax
  <2>1. CASE Throw
    BY <1>1, <2>1 DEF Throw, Parsed, brackets
  <2>2. CASE /\ phase = "checkSyntax"
             /\ CASE check[i] \in {"SERVER", "LOCATION", "OPEN_BRACKET"} -> Push(check[i])
                  [] check[i] = "CLOSE_BRACKET" -> Pop
                  [] OTHER -> /\ i' = i + 1
                              /\ UNCHANGED <<phase, lists, brackets, block, table, values>>
    <3>1. CASE UNCHANGED <<phase, lists, brackets, block, table, values>>
      BY <1>1, <3>1 DEF Parsed
    <3> QED  BY <1>2, <1>3, <2>2, <3>1
  <2>3. CASE blockCount = 0 /\ Go("checkSameKey")
    <3>1. Named = {}
      BY <1>n, <2>3, NamedFinite, FS_EmptySet DEF CountInv
    <3> QED  BY <1>1, <2>3, <3>1 DEF Go
  <2> QED  BY <1>5, <2>1, <2>2, <2>3 DEF CheckSyntax, InPass, AtEnd
<1>6. CASE CheckSameKey
  BY <1>1, <1>6 DEF CheckSameKey, InPass, AtEnd, Go, Throw, Parsed, brackets
<1>7. CASE SetValue
  <2>1. phase = "setValue" /\ UNCHANGED brackets
    BY <1>7 DEF SetValue, InPass, AtEnd, Go, Throw, Undefined, CloseServer, CloseLocation, SetDirective
  <2> QED  BY <1>1, <2>1 DEF Parsed
<1>8. CASE UNCHANGED vars
  BY <1>1, <1>8 DEF vars, Parsed
<1> QED  BY <1>4, <1>5, <1>6, <1>7, <1>8 DEF Next

\* _blockCount counts the open blocks of every file.
THEOREM CountsBlocks == Spec => []BlocksCounted
<1>1. CountInv => BlocksCounted
  BY DEF CountInv, BlocksCounted
<1> QED  BY <1>1, CountInit, CountNext, PTL DEF Spec

-----------------------------------------------------------------------------
(* What is registered. *)

IsSeq(s) == \E S : s \in Seq(S)

\* Two locations of a server differ in their paths.
PathsDiffer(ls) == \A a, b \in DOMAIN ls : ls[a].path = ls[b].path => a = b

\* Two servers of one port have no name in common.
NamesDiffer(s, t) ==
  s.port = t.port => ToSet(s.values["server_name"]) \cap ToSet(t.values["server_name"]) = {}

\* The server in hand has paths that differ, and so have those registered before.
RoutesInv ==
  /\ IsSeq(servers) /\ IsSeq(server.locations)
  /\ server = [values |-> server.values, locations |-> server.locations]
  /\ PathsDiffer(server.locations)
  /\ RoutesUnambiguous

\* What is appended is the last element.
LEMMA AppendLast ==
  ASSUME NEW s, IsSeq(s), NEW x
  PROVE  /\ IsSeq(Append(s, x))
         /\ DOMAIN Append(s, x) = DOMAIN s \cup {Len(s) + 1} /\ Len(s) + 1 \notin DOMAIN s
         /\ Append(s, x)[Len(s) + 1] = x
         /\ \A n \in DOMAIN s : Append(s, x)[n] = s[n]
<1>1. PICK S : s \in Seq(S)
  BY DEF IsSeq
<1>2. s \in Seq(S \cup {x})
  BY <1>1
<1>3. /\ Append(s, x) \in Seq(S \cup {x})
      /\ Len(Append(s, x)) = Len(s) + 1
      /\ \A n \in 1 .. Len(s) : Append(s, x)[n] = s[n]
      /\ Append(s, x)[Len(s) + 1] = x
  BY <1>2, AppendProperties
<1>4. /\ Len(s) \in Nat /\ DOMAIN s = 1 .. Len(s)
      /\ DOMAIN Append(s, x) = 1 .. Len(s) + 1
  BY <1>2, <1>3, LenProperties
<1> QED  BY <1>3, <1>4 DEF IsSeq

\* A location whose path is new may be appended.
LEMMA AppendPath ==
  ASSUME NEW ls, IsSeq(ls), PathsDiffer(ls), NEW l, l.path \notin {k.path : k \in ToSet(ls)}
  PROVE  PathsDiffer(Append(ls, l))
<1>1. \A n \in DOMAIN ls : ls[n].path # l.path
  BY DEF ToSet
<1> QED  BY <1>1, AppendLast DEF PathsDiffer

\* And so may a server that clashes with none.
LEMMA AppendServer ==
  ASSUME NEW ss, IsSeq(ss), Unambiguous(ss), NEW s, PathsDiffer(s.locations),
         \A t \in ToSet(ss) : NamesDiffer(t, s)
  PROVE  Unambiguous(Append(ss, s))
<1> DEFINE all == Append(ss, s)
<1>1. \A n \in DOMAIN ss : NamesDiffer(ss[n], s) /\ NamesDiffer(s, ss[n])
  BY DEF ToSet, NamesDiffer
<1>2. \A m, n \in DOMAIN ss : m # n => NamesDiffer(ss[m], ss[n])
  BY DEF Unambiguous, NamesDiffer
<1>3. \A n \in DOMAIN ss : PathsDiffer(ss[n].locations)
  BY DEF Unambiguous, PathsDiffer
<1>4. \A m, n \in DOMAIN all : m # n => NamesDiffer(all[m], all[n])
  BY <1>1, <1>2, AppendLast
<1>5. \A n \in DOMAIN all : PathsDiffer(all[n].locations)
  BY <1>3, AppendLast
<1> HIDE DEF all
<1> QED  BY <1>4, <1>5 DEF Unambiguous, NamesDiffer, PathsDiffer, all

\* A step keeps it.
LEMMA RoutesInvariant == Spec => []RoutesInv
<1>1. Init => RoutesInv
  <2> SUFFICES ASSUME Init PROVE RoutesInv
    OBVIOUS
  <2>1. servers = <<>> /\ server = NewServer
    BY DEF Init
  <2>2. IsSeq(<<>>) /\ DOMAIN <<>> = {}
    BY EmptySeq DEF IsSeq
  <2> QED  BY <2>1, <2>2 DEF RoutesInv, RoutesUnambiguous, Unambiguous, PathsDiffer, NewServer
<1>2. ASSUME RoutesInv, [Next]_vars PROVE RoutesInv'
  <2>1. ASSUME UNCHANGED <<server, servers>> PROVE RoutesInv'
    BY <1>2, <2>1 DEF RoutesInv, RoutesUnambiguous
  <2>2. CASE CloseServer
    <3>1. CASE Throw
      BY <2>1, <3>1 DEF Throw, values
    <3>2. ASSUME NEW p, ~Clash(p), UNCHANGED server,
                 servers' = Append(servers, [port |-> p, values |-> server.values,
                                             locations |-> server.locations])
          PROVE  RoutesInv'
      <4> DEFINE s == [port |-> p, values |-> server.values, locations |-> server.locations]
      <4>1. s.port = p /\ s.values = server.values /\ s.locations = server.locations
        OBVIOUS
      <4> HIDE DEF s
      <4>2. \A t \in ToSet(servers) : NamesDiffer(t, s)
        BY <3>2, <4>1 DEF Clash, NamesDiffer
      <4>3. Unambiguous(Append(servers, s)) /\ IsSeq(Append(servers, s))
        BY <1>2, <4>1, <4>2, AppendServer, AppendLast DEF RoutesInv, RoutesUnambiguous
      <4> QED  BY <1>2, <3>2, <4>3 DEF RoutesInv, RoutesUnambiguous, s
    <3> QED  BY <2>2, <3>1, <3>2 DEF CloseServer
  <2>3. CASE CloseLocation
    <3>1. CASE Throw
      BY <2>1, <3>1 DEF Throw, values
    <3>2. CASE /\ location.path \notin {l.path : l \in ToSet(server.locations)}
               /\ server' = [server EXCEPT !.locations = Append(@, location)]
               /\ UNCHANGED servers
      <4>1. server' = [values |-> server.values, locations |-> Append(server.locations, location)]
        BY <1>2, <3>2 DEF RoutesInv
      <4>2. PathsDiffer(Append(server.locations, location)) /\ IsSeq(Append(server.locations, location))
        BY <1>2, <3>2, AppendPath, AppendLast DEF RoutesInv
      <4> QED  BY <1>2, <3>2, <4>1, <4>2 DEF RoutesInv, RoutesUnambiguous
    <3> QED  BY <2>3, <3>1, <3>2 DEF CloseLocation
  <2>4. CASE SetDirective
    <3>1. CASE Throw \/ Undefined
      BY <2>1, <3>1 DEF Throw, Undefined, values
    <3>2. ASSUME NEW vs, UNCHANGED servers, server' = Take(server, file[i], vs) \/ server' = server
          PROVE  RoutesInv'
      <4>1. /\ server'.locations = server.locations
            /\ server' = [values |-> server'.values, locations |-> server'.locations]
        BY <1>2, <3>2 DEF RoutesInv, Take
      <4> QED  BY <1>2, <3>2, <4>1 DEF RoutesInv, RoutesUnambiguous
    <3> QED  BY <2>4, <3>1, <3>2 DEF SetDirective
  <2>5. ASSUME server' = NewServer, UNCHANGED servers PROVE RoutesInv'
    <3>1. IsSeq(<<>>) /\ DOMAIN <<>> = {}
      BY EmptySeq DEF IsSeq
    <3> QED  BY <1>2, <2>5, <3>1 DEF RoutesInv, RoutesUnambiguous, PathsDiffer, NewServer
  <2>6. CASE SetCheckList \/ CheckSyntax \/ CheckSameKey
    <3>1. UNCHANGED <<server, servers>>
      BY <2>6 DEF SetCheckList, CheckSyntax, Push, Pop, CheckSameKey, Go, Throw, Undefined, values
    <3> QED  BY <2>1, <3>1
  <2>7. CASE SetValue
    <3>1. \/ CloseServer \/ CloseLocation \/ SetDirective
          \/ server' = NewServer /\ UNCHANGED servers
          \/ UNCHANGED <<server, servers>>
      BY <2>7 DEF SetValue, Go, values
    <3> QED  BY <2>1, <2>2, <2>3, <2>4, <2>5, <3>1
  <2>8. CASE UNCHANGED vars
    BY <2>1, <2>8 DEF vars, values
  <2> QED  BY <1>2, <2>6, <2>7, <2>8 DEF Next
<1> QED  BY <1>1, <1>2, PTL DEF Spec

\* Whatever the file says, a request has at most one server and one location to go to.
THEOREM RoutesDistinct == Spec => []RoutesUnambiguous
<1>1. RoutesInv => RoutesUnambiguous
  BY DEF RoutesInv
<1> QED  BY <1>1, RoutesInvariant, PTL

-----------------------------------------------------------------------------
(* Where the parts of a configuration lie in its rendering. *)

AllWords == Plain \cup {"server", "location", "{", "}", ";"}

\* t lies in f behind the first a words.
Lies(f, a, t) == a + Len(t) <= Len(f) /\ \A j \in 1..Len(t) : f[a + j] = t[j]

\* s is x, of b words, and y, of c words, and lies in f behind the first a.
Halves(f, a, s, x, y, b, c) ==
  /\ Len(s) = b + c /\ b \in Nat /\ c \in Nat /\ a + b + c <= Len(f)
  /\ Lies(f, a, x) /\ \A j \in 1..b : f[a + j] = x[j]
  /\ Lies(f, a + b, y) /\ \A j \in 1..c : f[a + b + j] = y[j]

\* A text put together of two that lies in f at a: each half lies in its place.
LEMMA LiesJoined ==
  ASSUME NEW T, NEW f, NEW a \in Nat, NEW x \in Seq(T), NEW y \in Seq(T), NEW s, s = x \o y,
         NEW b, b = Len(x), NEW c, c = Len(y), Len(f) \in Nat, Lies(f, a, s)
  PROVE  Halves(f, a, s, x, y, b, c)
<1>1. /\ s \in Seq(T) /\ Len(s) = b + c /\ b \in Nat /\ c \in Nat
      /\ \A j \in 1..b : s[j] = x[j]
      /\ \A j \in 1..c : s[b + j] = y[j]
  BY Joined
<1>2. a + Len(s) <= Len(f) /\ \A j \in 1..Len(s) : f[a + j] = s[j]
  BY DEF Lies
<1>3. a + b <= Len(f) /\ \A j \in 1..b : f[a + j] = x[j]
  BY <1>1, <1>2
<1>4. a + b + c <= Len(f)
  BY <1>1, <1>2
<1>5. ASSUME NEW j \in 1..c
      PROVE  f[a + b + j] = y[j]
  <2>1. b + j \in 1..Len(s) /\ a + (b + j) = a + b + j
    BY <1>1
  <2> QED BY <1>1, <1>2, <2>1
<1> QED BY <1>1, <1>3, <1>4, <1>5 DEF Lies, Halves

\* The same of several parts.
LEMMA LiesFlat ==
  ASSUME NEW T, NEW f, NEW a \in Nat, NEW ss \in Seq(Seq(T)), Len(f) \in Nat, Lies(f, a, FlattenSeq(ss))
  PROVE  /\ a + Len(UpTo(ss, 0)) = a /\ a + Len(UpTo(ss, Len(ss))) = a + Len(FlattenSeq(ss))
         /\ \A k \in 0..Len(ss) : a + Len(UpTo(ss, k)) \in Nat
         /\ \A k \in 1..Len(ss) :
              /\ a + Len(UpTo(ss, k)) = a + Len(UpTo(ss, k - 1)) + Len(ss[k])
              /\ Lies(f, a + Len(UpTo(ss, k - 1)), ss[k])
<1>1. UpTo(ss, 0) = <<>> /\ UpTo(ss, Len(ss)) = FlattenSeq(ss)
      /\ \A k \in 0..Len(ss) : UpTo(ss, k) \in Seq(T)
  BY UpToStep
<1>2. Len(ss) \in Nat
  OBVIOUS
<1>3. \A k \in 0..Len(ss) : Len(UpTo(ss, k)) \in Nat
  BY <1>1
<1>4. ASSUME NEW k \in 1..Len(ss)
      PROVE  /\ a + Len(UpTo(ss, k)) = a + Len(UpTo(ss, k - 1)) + Len(ss[k])
             /\ Lies(f, a + Len(UpTo(ss, k - 1)), ss[k])
  <2> DEFINE m == k - 1
             u == Len(UpTo(ss, m))
             v == Len(UpTo(ss, k))
             n == Len(ss[k])
             F == FlattenSeq(ss)
  <2>1. m \in 0..Len(ss) - 1 /\ m + 1 = k
    BY <1>2
  <2>2. /\ u \in Nat /\ n \in Nat /\ v = u + n /\ v <= Len(F)
        /\ \A j \in 1..n : F[u + j] = ss[k][j]
    <3> HIDE DEF m
    <3> QED BY <2>1, UpToPart
  <2>3. a + Len(F) <= Len(f) /\ \A j \in 1..Len(F) : f[a + j] = F[j]
    BY DEF Lies
  <2>4. Len(F) \in Nat
    BY FlattenType
  <2> HIDE DEF u, v, n, F
  <2>5. a + v = a + u + n /\ a + u + n <= Len(f)
    BY <2>2, <2>3, <2>4
  <2>6. ASSUME NEW j \in 1..n
        PROVE  f[a + u + j] = ss[k][j]
    <3>1. u + j \in 1..Len(F) /\ a + (u + j) = a + u + j
      BY <2>2, <2>4
    <3> QED BY <2>2, <2>3, <3>1
  <2> QED BY <2>5, <2>6 DEF Lies, u, v, n, m
<1>5. a + Len(UpTo(ss, 0)) = a /\ a + Len(UpTo(ss, Len(ss))) = a + Len(FlattenSeq(ss))
  <2> DEFINE u == Len(UpTo(ss, 0))
  <2>1. u = 0
    BY <1>1
  <2>2. a + u = a
    <3> HIDE DEF u
    <3> QED BY <2>1
  <2>3. a + Len(UpTo(ss, Len(ss))) = a + Len(FlattenSeq(ss))
    BY <1>1, Zenon
  <2> QED BY <2>2, <2>3
<1>6. \A k \in 0..Len(ss) : a + Len(UpTo(ss, k)) \in Nat
  BY <1>3
<1> QED BY <1>4, <1>5, <1>6

-----------------------------------------------------------------------------
DirectiveText(d) == <<d[1]>> \o d[2] \o <<";">>
DirectiveTexts(ds) == [n \in DOMAIN ds |-> DirectiveText(ds[n])]
LocationText(l) == <<"location", l.path, "{">> \o Directives(l.directives) \o <<"}">>
LocationTexts(ls) == [n \in DOMAIN ls |-> LocationText(ls[n])]
ServerText(s) == <<"server", "{">> \o Directives(s.directives) \o Locations(s.locations) \o <<"}">>
ServerTexts(conf) == [n \in DOMAIN conf |-> ServerText(conf[n])]

Server == [directives : Seq(Directive), locations : Seq(Location)]

\* The three renderings are the texts of their parts, one after the other.
LEMMA TextsFlat ==
  /\ \A ds : Directives(ds) = FlattenSeq(DirectiveTexts(ds))
  /\ \A ls : Locations(ls) = FlattenSeq(LocationTexts(ls))
  /\ \A conf : Render(conf) = FlattenSeq(ServerTexts(conf))
BY DEF Directives, Locations, Render, DirectiveTexts, LocationTexts, ServerTexts, DirectiveText,
       LocationText, ServerText

\* A directive is a key and at least one value, all of them plain words.
LEMMA DirectiveParts ==
  ASSUME NEW d \in Directive
  PROVE  /\ d[1] \in Plain /\ d[2] \in Seq(Plain) /\ d[2] # <<>> /\ Len(d[2]) \in Nat /\ Len(d[2]) > 0
         /\ \A v \in 1..Len(d[2]) : d[2][v] \in Plain
         /\ d[2] \in Seq(AllWords) /\ <<d[1]>> \in Seq(AllWords)
<1>1. d[1] \in Plain /\ d[2] \in Seq(Plain) /\ d[2] # <<>>
  BY DEF Directive
<1>2. Plain \in SUBSET AllWords
  BY DEF AllWords
<1>3. d[2] \in Seq(AllWords) /\ Len(d[2]) \in Nat /\ \A v \in 1..Len(d[2]) : d[2][v] \in Plain
  BY <1>1, <1>2, Elements
<1>4. <<d[1]>> \in Seq(AllWords)
  BY <1>1, <1>2
<1>5. Len(d[2]) > 0
  BY <1>1, <1>3, EmptySeq
<1> QED BY <1>1, <1>3, <1>4, <1>5

\* A sequence made of another one has its length.
LEMMA TextsType ==
  ASSUME NEW S, NEW s \in Seq(S), NEW T, NEW t, t = [n \in DOMAIN s |-> t[n]], \A n \in DOMAIN s : t[n] \in T
  PROVE  t \in Seq(T) /\ Len(t) = Len(s) /\ Len(s) \in Nat /\ DOMAIN s = 1..Len(s)
<1>1. Len(s) \in Nat /\ DOMAIN s = 1..Len(s)
  OBVIOUS
<1>2. t = [n \in 1..Len(s) |-> t[n]]
  BY <1>1
<1>3. t \in [1..Len(s) -> T]
  BY <1>1, <1>2
<1> QED BY <1>1, <1>3

\* The rendering of directives is a file of words, a text for each directive.
LEMMA DirectivesType ==
  ASSUME NEW ds \in Seq(Directive)
  PROVE  /\ DirectiveTexts(ds) \in Seq(Seq(AllWords)) /\ Len(DirectiveTexts(ds)) = Len(ds) /\ Len(ds) \in Nat
         /\ DOMAIN ds = 1..Len(ds)
         /\ \A d \in 1..Len(ds) : ds[d] \in Directive /\ DirectiveTexts(ds)[d] = DirectiveText(ds[d])
         /\ Directives(ds) \in Seq(AllWords)
<1>1. ASSUME NEW d \in Directive
      PROVE  DirectiveText(d) \in Seq(AllWords)
  <2>1. <<d[1]>> \in Seq(AllWords) /\ d[2] \in Seq(AllWords) /\ <<";">> \in Seq(AllWords)
    <3>1. ";" \in AllWords
      BY DEF AllWords
    <3>2. <<";">> \in Seq(AllWords)
      BY <3>1, Words
    <3> QED BY <3>2, DirectiveParts
  <2> QED BY <2>1, ConcatProperties DEF DirectiveText
<1>2. Len(ds) \in Nat /\ DOMAIN ds = 1..Len(ds) /\ \A d \in 1..Len(ds) : ds[d] \in Directive
  OBVIOUS
<1> DEFINE t == DirectiveTexts(ds)
<1>3. t = [n \in DOMAIN ds |-> t[n]] /\ \A d \in 1..Len(ds) : t[d] = DirectiveText(ds[d])
  BY <1>2 DEF DirectiveTexts
<1> HIDE DEF t
<1>4. t \in Seq(Seq(AllWords)) /\ Len(t) = Len(ds)
  BY <1>1, <1>2, <1>3, TextsType
<1>5. Directives(ds) \in Seq(AllWords)
  BY <1>4, TextsFlat, FlattenType DEF t
<1> QED BY <1>2, <1>3, <1>4, <1>5 DEF t

\* The same of locations,
LEMMA LocationsType ==
  ASSUME NEW ls \in Seq(Location)
  PROVE  /\ LocationTexts(ls) \in Seq(Seq(AllWords)) /\ Len(LocationTexts(ls)) = Len(ls) /\ Len(ls) \in Nat
         /\ DOMAIN ls = 1..Len(ls)
         /\ \A l \in 1..Len(ls) : ls[l] \in Location /\ LocationTexts(ls)[l] = LocationText(ls[l])
         /\ Locations(ls) \in Seq(AllWords)
<1>1. ASSUME NEW l \in Location
      PROVE  LocationText(l) \in Seq(AllWords)
  <2>1. l.path \in AllWords /\ l.directives \in Seq(Directive)
    BY DEF Location, AllWords
  <2>2. <<"location", l.path, "{">> \in Seq(AllWords) /\ <<"}">> \in Seq(AllWords)
    <3>1. "location" \in AllWords /\ "{" \in AllWords /\ "}" \in AllWords
      BY DEF AllWords
    <3>2. <<"}">> \in Seq(AllWords)
      BY <3>1, Words
    <3>3. <<"location", l.path, "{">> \in Seq(AllWords)
      <4> DEFINE x == "location"
                 y == l.path
                 z == "{"
      <4>1. x \in AllWords /\ y \in AllWords /\ z \in AllWords
        BY <2>1, <3>1
      <4> HIDE DEF x, y, z
      <4>2. <<x, y, z>> \in Seq(AllWords)
        BY <4>1
      <4> QED BY <4>2 DEF x, y, z
    <3> QED BY <3>2, <3>3
  <2>3. Directives(l.directives) \in Seq(AllWords)
    BY <2>1, DirectivesType
  <2> QED BY <2>2, <2>3, ConcatProperties DEF LocationText
<1>2. Len(ls) \in Nat /\ DOMAIN ls = 1..Len(ls) /\ \A l \in 1..Len(ls) : ls[l] \in Location
  OBVIOUS
<1> DEFINE t == LocationTexts(ls)
<1>3. t = [n \in DOMAIN ls |-> t[n]] /\ \A l \in 1..Len(ls) : t[l] = LocationText(ls[l])
  BY <1>2 DEF LocationTexts
<1> HIDE DEF t
<1>4. t \in Seq(Seq(AllWords)) /\ Len(t) = Len(ls)
  BY <1>1, <1>2, <1>3, TextsType
<1>5. Locations(ls) \in Seq(AllWords)
  BY <1>4, TextsFlat, FlattenType DEF t
<1> QED BY <1>2, <1>3, <1>4, <1>5 DEF t

\* and of the servers: the file of a configuration is finite and has words only.
LEMMA ServersType ==
  ASSUME NEW conf \in Seq(Server)
  PROVE  /\ ServerTexts(conf) \in Seq(Seq(AllWords)) /\ Len(ServerTexts(conf)) = Len(conf)
         /\ Len(conf) \in Nat /\ DOMAIN conf = 1..Len(conf)
         /\ \A n \in 1..Len(conf) : conf[n] \in Server /\ ServerTexts(conf)[n] = ServerText(conf[n])
         /\ Render(conf) \in Seq(AllWords)
<1>1. ASSUME NEW s \in Server
      PROVE  ServerText(s) \in Seq(AllWords)
  <2>1. s.directives \in Seq(Directive) /\ s.locations \in Seq(Location)
    BY DEF Server
  <2>2. <<"server", "{">> \in Seq(AllWords) /\ <<"}">> \in Seq(AllWords)
    BY DEF AllWords
  <2>3. Directives(s.directives) \in Seq(AllWords) /\ Locations(s.locations) \in Seq(AllWords)
    BY <2>1, DirectivesType, LocationsType
  <2> QED BY <2>2, <2>3, ConcatProperties DEF ServerText
<1>2. Len(conf) \in Nat /\ DOMAIN conf = 1..Len(conf) /\ \A n \in 1..Len(conf) : conf[n] \in Server
  OBVIOUS
<1> DEFINE t == ServerTexts(conf)
<1>3. t = [n \in DOMAIN conf |-> t[n]] /\ \A n \in 1..Len(conf) : t[n] = ServerText(conf[n])
  BY <1>2 DEF ServerTexts
<1> HIDE DEF t
<1>4. t \in Seq(Seq(AllWords)) /\ Len(t) = Len(conf)
  BY <1>1, <1>2, <1>3, TextsType
<1>5. Render(conf) \in Seq(AllWords)
  BY <1>4, TextsFlat, FlattenType DEF t
<1> QED BY <1>2, <1>3, <1>4, <1>5 DEF t

-----------------------------------------------------------------------------
(* The types. *)

\* The kind of a token, and the state after it.
LEMMA ClassifyType ==
  ASSUME NEW s \in States, NEW w, Classify(s, w) # None
  PROVE  Classify(s, w)[1] \in Kinds /\ Classify(s, w)[2] \in States
<1> DEFINE Good(k) == k # None => k[1] \in Kinds /\ k[2] \in States
<1>1. Good(Word(s, w))
  BY DEF Word, Kinds, States
<1> QED  BY <1>1 DEF Classify, Kinds, States

\* What the passes beside checkSyntax keep.
Placed ==
  /\ phase \in Phases
  /\ i \in 1 .. Len(file) + 1
  /\ phase = "setCheckList" => Len(check) = i - 1
  /\ Parsed \/ phase = "checkSyntax" => Len(check) = Len(file)
  /\ block \in {"SERVER", "LOCATION"}

\* The list of kinds.
Listed == check \in Seq(Kinds) /\ Len(check) <= Len(file) /\ tokenState \in States

\* The stack.
Stacked ==
  /\ bracket \in Seq({"SERVER", "LOCATION", "OPEN_BRACKET"})
  /\ stackState \in {None, "SERVER", "LOCATION"}
  /\ blockCount \in Nat

\* The file is finite.
FileFinite == Len(file) \in Nat

\* A step within a pass, or its end.
LEMMA PlacedNext ==
  ASSUME Placed, Len(file) \in Nat, UNCHANGED <<file, check>>, Len(check) \in Nat,
         \/ Throw \/ Undefined
         \/ phase' = phase /\ i' \in i .. Len(file) + 1 /\ block' \in {"SERVER", "LOCATION"}
            /\ phase # "setCheckList"
         \/ \E p \in Phases \ {"setCheckList"} : Go(p) /\ Len(check) = Len(file)
  PROVE  Placed'
<1>1. CASE Throw \/ Undefined
  BY <1>1 DEF Throw, Undefined, Placed, Parsed, Phases
<1>2. CASE phase' = phase /\ i' \in i .. Len(file) + 1 /\ block' \in {"SERVER", "LOCATION"}
           /\ phase # "setCheckList"
  <2>1. file' = file /\ check' = check /\ (Parsed' <=> Parsed)
    BY <1>2 DEF Parsed
  <2>2. i' \in 1 .. Len(file) + 1
    BY <1>2 DEF Placed
  <2> QED  BY <1>2, <2>1, <2>2 DEF Placed
<1>3. CASE \E p \in Phases \ {"setCheckList"} : Go(p) /\ Len(check) = Len(file)
  <2>1. /\ phase' \in Phases \ {"setCheckList"} /\ i' = 1 /\ block' = "SERVER"
        /\ file' = file /\ check' = check /\ Len(check) = Len(file)
    BY <1>3 DEF Go
  <2>2. 1 \in 1 .. Len(file) + 1
    OBVIOUS
  <2> QED  BY <2>1, <2>2 DEF Placed
<1> QED  BY <1>1, <1>2, <1>3

\* The four passes stay within the file and the kinds of its tokens.
THEOREM TypeCorrect == Spec => []TypeOK
<1>0. TypeOK <=> Placed /\ Listed /\ Stacked
  BY DEF TypeOK, Placed, Listed, Stacked
<1>1. Init => Placed /\ Listed /\ Stacked /\ FileFinite
  <2> SUFFICES ASSUME Init PROVE Placed /\ Listed /\ Stacked /\ FileFinite
    OBVIOUS
  <2>1. Len(file) \in Nat /\ Len(<<>>) = 0
    <3>1. CASE file \in Files
      BY <3>1, Tokens
    <3>2. CASE source \in Configs /\ file = Render(source)
      <4>1. source \in Seq(Server)
        BY <3>2, ConfigsKnown DEF Server
      <4>2. Render(source) \in Seq(AllWords)
        BY <4>1, ServersType
      <4> QED BY <3>2, <4>2
    <3> QED BY <3>1, <3>2 DEF Init
  <2>2. \A S : <<>> \in Seq(S)
    BY EmptySeq
  <2> QED  BY <2>1, <2>2 DEF Init, Placed, Listed, Stacked, FileFinite, Phases, States, Parsed
<1>2. ASSUME Placed, Listed, Stacked, CountInv', FileFinite, [Next]_vars
      PROVE  Placed' /\ Listed' /\ Stacked' /\ FileFinite'
  <2> USE <1>2 DEF FileFinite
  <2>1. file' = file /\ Len(file') \in Nat
    BY DEF Next, vars
  <2>2. UNCHANGED stackState \/ stackState' \in {None, "SERVER", "LOCATION"} => Stacked'
    <3>1. blockCount' \in Nat
      <4>1. Named' = NamedIn(bracket')
        BY DEF Named, NamedIn
      <4> QED  BY <4>1, NamedFinite DEF CountInv
    <3> QED  BY <3>1 DEF Stacked, CountInv
  <2>3. UNCHANGED lists => Listed'
    BY <2>1 DEF lists, Listed
  <2>4. Len(check) \in Nat
    BY DEF Listed
  <2>5. CASE SetCheckList
    <3>1. UNCHANGED stackState
      BY <2>5 DEF SetCheckList, Go, Throw, brackets
    <3>2. CASE Throw \/ (AtEnd("setCheckList") /\ Go("checkSyntax"))
      <4>1. UNCHANGED lists /\ UNCHANGED check
        BY <3>2 DEF Throw, Go, lists
      <4>2. AtEnd("setCheckList") => Len(check) = Len(file)
        BY <2>4 DEF AtEnd, Placed
      <4> QED  BY <2>1, <2>2, <2>3, <2>4, <3>1, <3>2, <4>1, <4>2, PlacedNext DEF Phases
    <3>3. ASSUME NEW k, k = Classify(tokenState, file[i]), k # None, InPass("setCheckList"),
                 check' = Append(check, k[1]), tokenState' = k[2], i' = i + 1,
                 UNCHANGED <<phase, block>>
          PROVE  Placed' /\ Listed'
      <4>1. k[1] \in Kinds /\ k[2] \in States
        BY <3>3, ClassifyType DEF Listed
      <4>2. check' \in Seq(Kinds) /\ Len(check') = Len(check) + 1
        BY <3>3, <4>1, AppendProperties DEF Listed
      <4>3. phase = "setCheckList" /\ i <= Len(file) /\ Len(check) = i - 1 /\ i \in Nat
        BY <3>3 DEF InPass, Placed
      <4>4. Listed'
        BY <2>1, <3>3, <4>1, <4>2, <4>3 DEF Listed
      <4>5. Placed'
        BY <2>1, <3>3, <4>2, <4>3 DEF Placed, Parsed
      <4> QED  BY <4>4, <4>5
    <3> QED  BY <2>1, <2>2, <2>5, <3>1, <3>2, <3>3 DEF SetCheckList
  <2>6. ASSUME UNCHANGED lists,
               \/ Throw \/ Undefined
               \/ phase' = phase /\ i' \in i .. Len(file) + 1 /\ block' \in {"SERVER", "LOCATION"}
                  /\ phase # "setCheckList"
               \/ \E p \in Phases \ {"setCheckList"} : Go(p) /\ Len(check) = Len(file)
        PROVE  Placed' /\ Listed'
    BY <2>1, <2>3, <2>4, <2>6, PlacedNext DEF lists
  <2>7. CASE CheckSyntax
    <3>1. CASE Throw \/ (AtEnd("checkSyntax") /\ Go("checkSameKey"))
      <4>1. UNCHANGED lists /\ UNCHANGED stackState
        BY <3>1 DEF Throw, Go, brackets
      <4>2. AtEnd("checkSyntax") => Len(check) = Len(file)
        BY DEF AtEnd, Placed
      <4> QED  BY <2>1, <2>2, <2>6, <3>1, <4>1, <4>2 DEF Phases
    <3>2. CASE /\ InPass("checkSyntax")
               /\ CASE check[i] \in {"SERVER", "LOCATION", "OPEN_BRACKET"} -> Push(check[i])
                    [] check[i] = "CLOSE_BRACKET" -> Pop
                    [] OTHER -> /\ i' = i + 1
                                /\ UNCHANGED <<phase, lists, brackets, block, table, values>>
      <4>1. UNCHANGED lists
        BY <3>2 DEF Push, Pop, Throw, Undefined
      <4>2. UNCHANGED stackState \/ stackState' \in {None, "SERVER", "LOCATION"}
        BY <3>2 DEF Push, Pop, Throw, Undefined, brackets
      <4>3. Throw \/ Undefined \/ (i' = i + 1 /\ UNCHANGED <<phase, block>>)
        BY <3>2 DEF Push, Pop
      <4>4. i <= Len(file) /\ phase = "checkSyntax" /\ i \in Nat
        BY <3>2 DEF InPass, Placed
      <4>5. i' = i + 1 /\ UNCHANGED <<phase, block>> =>
              /\ phase' = phase /\ i' \in i .. Len(file) + 1 /\ block' \in {"SERVER", "LOCATION"}
              /\ phase # "setCheckList"
        BY <4>4 DEF Placed
      <4> QED  BY <2>1, <2>2, <2>6, <4>1, <4>2, <4>3, <4>5
    <3> QED  BY <2>7, <3>1, <3>2 DEF CheckSyntax
  <2>8. CASE CheckSameKey
    <3>1. UNCHANGED lists /\ UNCHANGED stackState
      BY <2>8 DEF CheckSameKey, Go, Throw, brackets
    <3>2. CASE AtEnd("checkSameKey") /\ Go("setValue")
      <4>1. Len(check) = Len(file)
        BY <3>2 DEF AtEnd, Placed, Parsed
      <4> QED  BY <2>1, <2>2, <2>6, <3>1, <3>2, <4>1 DEF Phases
    <3>3. CASE InPass("checkSameKey") /\ ~Throw
      <4>1. i' = i + 1 /\ phase' = phase /\ block' \in {"SERVER", "LOCATION"}
        BY <2>8, <3>3 DEF CheckSameKey, InPass, AtEnd, Placed
      <4>2. i' \in i .. Len(file) + 1 /\ phase # "setCheckList"
        BY <3>3, <4>1 DEF InPass, Placed
      <4> QED  BY <2>1, <2>2, <2>6, <3>1, <4>1, <4>2
    <3> QED  BY <2>1, <2>2, <2>6, <2>8, <3>1, <3>2, <3>3 DEF CheckSameKey
  <2>9. CASE SetValue
    <3>1. UNCHANGED lists /\ UNCHANGED stackState
      BY <2>9 DEF SetValue, CloseServer, CloseLocation, SetDirective, Go, Throw, Undefined, brackets
    <3>2. CASE AtEnd("setValue") /\ Go("done")
      <4>1. Len(check) = Len(file)
        BY <3>2 DEF AtEnd, Placed, Parsed
      <4> QED  BY <2>1, <2>2, <2>6, <3>1, <3>2, <4>1 DEF Phases
    <3>3. CASE InPass("setValue")
      <4>1. phase = "setValue" /\ i <= Len(file) /\ i \in Nat /\ Len(check) = Len(file)
        BY <3>3 DEF InPass, Placed, Parsed
      <4>2. CASE Throw \/ Undefined
        BY <2>1, <2>2, <2>6, <3>1, <4>2
      <4>3. CASE /\ i' = i + 1 /\ phase' = phase
                 /\ block' = block \/ block' \in {"SERVER", "LOCATION"}
        <5>1. i' \in i .. Len(file) + 1 /\ block' \in {"SERVER", "LOCATION"}
          BY <4>1, <4>3 DEF Placed
        <5> QED  BY <2>1, <2>2, <2>6, <3>1, <4>1, <4>3, <5>1
      <4>4. CASE SetDirective
        <5> DEFINE ends == {n \in i + 1 .. Len(check) : check[n] = "SEMICOLON"}
        <5>1. ends # {} => Min(ends) \in ends
          <6>1. ends \subseteq Nat
            BY <4>1
          <6> HIDE DEF ends
          <6> QED  BY <6>1, MinIs
        <5>2. Throw \/ Undefined \/ (ends # {} /\ i' = Min(ends) + 1 /\ UNCHANGED <<phase, block>>)
          BY <4>4 DEF SetDirective
        <5>3. CASE ends # {} /\ i' = Min(ends) + 1 /\ UNCHANGED <<phase, block>>
          <6>1. i' \in i .. Len(file) + 1 /\ block' \in {"SERVER", "LOCATION"}
            BY <4>1, <5>1, <5>3 DEF Placed
          <6> QED  BY <2>1, <2>2, <2>6, <3>1, <4>1, <5>3, <6>1
        <5> QED  BY <4>2, <5>2, <5>3
      <4>5. \/ Throw \/ SetDirective
            \/ i' = i + 1 /\ phase' = phase /\ (block' = block \/ block' \in {"SERVER", "LOCATION"})
        <5>1. ~AtEnd("setValue")
          BY <4>1 DEF AtEnd
        <5>2. CloseServer \/ CloseLocation =>
                \/ Throw
                \/ i' = i + 1 /\ phase' = phase /\ (block' = block \/ block' = "SERVER")
          BY DEF CloseServer, CloseLocation
        <5> QED  BY <2>9, <5>1, <5>2 DEF SetValue
      <4> QED  BY <4>2, <4>3, <4>4, <4>5
    <3> QED  BY <2>9, <3>2, <3>3 DEF SetValue
  <2>10. CASE UNCHANGED vars
    BY <2>1, <2>10 DEF vars, lists, brackets, Placed, Listed, Stacked, Parsed
  <2> QED  BY <2>5, <2>7, <2>8, <2>9, <2>10, <1>2 DEF Next
<1> QED  BY <1>0, <1>1, <1>2, CountInit, CountNext, PTL DEF Spec

-----------------------------------------------------------------------------
(* Where a pass is in a file that renders a configuration. *)

Place(at, n, l, d, v) == [at |-> at, server |-> n, location |-> l, directive |-> d, value |-> v]

\* The first n servers are read.
Top(n) == Place("top", n, 0, 0, 0)

\* Of the n-th server its first word is read.
Opened(n) == Place("server", n, 0, 0, 0)

\* In the block l of the n-th server, d directives are read; block 0 is the server's own.
InBlock(n, l, d) == Place("block", n, l, d, 0)

\* Of its d-th directive the key is read, and v values.
InValues(n, l, d, v) == Place("values", n, l, d, v)

\* Of the l-th location the first word is read, or the path too, or all of it.
AtPath(n, l)    == Place("path", n, l, 0, 0)
AtBracket(n, l) == Place("bracket", n, l, 0, 0)
Behind(n, l)    == Place("rest", n, l, 0, 0)

Block(conf, n, l) == IF l = 0 THEN conf[n].directives ELSE conf[n].locations[l].directives

\* l locations are read, and all that stands before them.
Ended(conf, p, n, l) ==
  \/ l = 0 /\ p = InBlock(n, 0, Len(Block(conf, n, 0)))
  \/ l > 0 /\ p = Behind(n, l)

\* The word w, of kind k, leads from p to q.
OpensServer(conf, p, q, k, w) ==
  \E n \in 1..Len(conf) : p = Top(n - 1) /\ q = Opened(n) /\ k = "SERVER" /\ w = "server"

OpensBlock(conf, p, q, k, w) ==
  \E n \in 1..Len(conf) : p = Opened(n) /\ q = InBlock(n, 0, 0) /\ k = "OPEN_BRACKET" /\ w = "{"

ReadsKey(conf, p, q, k, w) ==
  \E n \in 1..Len(conf) : \E l \in 0..Len(conf[n].locations) : \E d \in 1..Len(Block(conf, n, l)) :
    p = InBlock(n, l, d - 1) /\ q = InValues(n, l, d, 0) /\ k = "KEY" /\ w = Block(conf, n, l)[d][1]

ReadsValue(conf, p, q, k, w) ==
  \E n \in 1..Len(conf) : \E l \in 0..Len(conf[n].locations) : \E d \in 1..Len(Block(conf, n, l)) :
    \E v \in 1..Len(Block(conf, n, l)[d][2]) :
      p = InValues(n, l, d, v - 1) /\ q = InValues(n, l, d, v) /\ k = "VALUE"
      /\ w = Block(conf, n, l)[d][2][v]

EndsDirective(conf, p, q, k, w) ==
  \E n \in 1..Len(conf) : \E l \in 0..Len(conf[n].locations) : \E d \in 1..Len(Block(conf, n, l)) :
    p = InValues(n, l, d, Len(Block(conf, n, l)[d][2])) /\ q = InBlock(n, l, d) /\ k = "SEMICOLON" /\ w = ";"

OpensLocation(conf, p, q, k, w) ==
  \E n \in 1..Len(conf) : \E l \in 1..Len(conf[n].locations) :
    Ended(conf, p, n, l - 1) /\ q = AtPath(n, l) /\ k = "LOCATION" /\ w = "location"

ReadsPath(conf, p, q, k, w) ==
  \E n \in 1..Len(conf) : \E l \in 1..Len(conf[n].locations) :
    p = AtPath(n, l) /\ q = AtBracket(n, l) /\ k = "PATH" /\ w = conf[n].locations[l].path

OpensInner(conf, p, q, k, w) ==
  \E n \in 1..Len(conf) : \E l \in 1..Len(conf[n].locations) :
    p = AtBracket(n, l) /\ q = InBlock(n, l, 0) /\ k = "OPEN_BRACKET" /\ w = "{"

ClosesLocation(conf, p, q, k, w) ==
  \E n \in 1..Len(conf) : \E l \in 1..Len(conf[n].locations) :
    p = InBlock(n, l, Len(Block(conf, n, l))) /\ q = Behind(n, l) /\ k = "CLOSE_BRACKET" /\ w = "}"

ClosesServer(conf, p, q, k, w) ==
  \E n \in 1..Len(conf) :
    Ended(conf, p, n, Len(conf[n].locations)) /\ q = Top(n) /\ k = "CLOSE_BRACKET" /\ w = "}"

Leads(conf, p, q, k, w) ==
  \/ OpensServer(conf, p, q, k, w) \/ OpensBlock(conf, p, q, k, w)
  \/ ReadsKey(conf, p, q, k, w) \/ ReadsValue(conf, p, q, k, w) \/ EndsDirective(conf, p, q, k, w)
  \/ OpensLocation(conf, p, q, k, w) \/ ReadsPath(conf, p, q, k, w) \/ OpensInner(conf, p, q, k, w)
  \/ ClosesLocation(conf, p, q, k, w) \/ ClosesServer(conf, p, q, k, w)

\* From one word of the file to the next, each with its kind.
IsWalk(conf, w) ==
  LET text == Render(conf)
  IN  /\ Len(text) \in Nat
      /\ w[0].place = Top(0) /\ w[Len(text)].place = Top(Len(conf))
      /\ \A j \in 1..Len(text) : Leads(conf, w[j - 1].place, w[j].place, w[j].kind, text[j])

Walk(conf) == CHOOSE w : IsWalk(conf, w)

-----------------------------------------------------------------------------
\* What a text has behind the first a words if there a directive lies, of t words, of them
\* m values, a location, with m words of directives, a server, with k words of locations too.
DirectiveThere(f, a, d, m, t) ==
  /\ m \in Nat /\ m > 0 /\ t = m + 2 /\ a + m + 2 <= Len(f)
  /\ f[a + 1] = d[1] /\ f[a + 1 + m + 1] = ";"
  /\ \A v \in 1..m : f[a + 1 + v] = d[2][v]

LocationThere(f, a, l, m, t) ==
  /\ m \in Nat /\ t = m + 4 /\ a + m + 4 <= Len(f)
  /\ f[a + 1] = "location" /\ f[a + 2] = l.path /\ f[a + 3] = "{" /\ f[a + 3 + m + 1] = "}"
  /\ Lies(f, a + 3, Directives(l.directives))

ServerThere(f, a, s, m, k, t) ==
  /\ m \in Nat /\ k \in Nat /\ t = m + k + 3 /\ a + m + k + 3 <= Len(f)
  /\ f[a + 1] = "server" /\ f[a + 2] = "{" /\ f[a + 2 + m + k + 1] = "}"
  /\ Lies(f, a + 2, Directives(s.directives))
  /\ Lies(f, a + 2 + m, Locations(s.locations))

\* In the text of a directive the key comes first, then the values, then the semicolon.
LEMMA DirectiveLies ==
  ASSUME NEW d \in Directive, NEW f, Len(f) \in Nat, NEW a \in Nat, Lies(f, a, DirectiveText(d))
  PROVE  DirectiveThere(f, a, d, Len(d[2]), Len(DirectiveText(d)))
<1> DEFINE x == <<d[1]>>
           y == d[2]
           z == <<";">>
           m == Len(y)
<1>1. x \in Seq(AllWords) /\ y \in Seq(AllWords) /\ m \in Nat /\ m > 0 /\ Len(x) = 1 /\ x[1] = d[1]
  BY DirectiveParts
<1>2. z \in Seq(AllWords) /\ Len(z) = 1 /\ z[1] = ";"
  <2>1. ";" \in AllWords
    BY DEF AllWords
  <2> QED BY <2>1, Words
<1>3. DirectiveText(d) = (x \o y) \o z
  BY DEF DirectiveText
<1> DEFINE p == x \o y
           t == Len(p)
           u == Len(DirectiveText(d))
<1> HIDE DEF x, y, z, p
<1>4. p \in Seq(AllWords)
  BY <1>1, <1>2, ConcatProperties DEF p
<1> DEFINE s == DirectiveText(d)
<1>5. /\ u = t + 1 /\ a + t + 1 <= Len(f) /\ Lies(f, a, p) /\ t \in Nat
      /\ \A j \in 1..1 : f[a + t + j] = z[j]
  <2>1. s = p \o z /\ t = Len(p) /\ 1 = Len(z) /\ u = Len(s) /\ Len(f) \in Nat /\ a \in Nat /\ Lies(f, a, s)
    BY <1>2, <1>3 DEF p
  <2> HIDE DEF s, t, u
  <2>2. Halves(f, a, s, p, z, t, 1)
    BY ONLY <1>2, <1>4, <2>1, LiesJoined
  <2> QED BY ONLY <2>1, <2>2 DEF Halves
<1>6. t = 1 + m /\ (\A j \in 1..1 : f[a + j] = x[j]) /\ \A v \in 1..m : f[a + 1 + v] = y[v]
  <2>1. p = x \o y /\ 1 = Len(x) /\ m = Len(y) /\ t = Len(p) /\ Len(f) \in Nat /\ a \in Nat
    BY <1>1 DEF p
  <2> HIDE DEF t, m
  <2>2. Halves(f, a, p, x, y, 1, m)
    BY ONLY <1>1, <1>5, <2>1, LiesJoined
  <2> QED BY ONLY <2>1, <2>2 DEF Halves
<1> HIDE DEF t, u, m
<1>7. f[a + 1] = x[1] /\ f[a + t + 1] = z[1]
  BY <1>5, <1>6
<1>8. a + t + 1 = a + 1 + m + 1 /\ a + m + 2 <= Len(f) /\ u = m + 2
  BY <1>1, <1>5, <1>6
<1>9. /\ m \in Nat /\ m > 0 /\ u = m + 2 /\ a + m + 2 <= Len(f)
      /\ f[a + 1] = d[1] /\ f[a + 1 + m + 1] = ";"
      /\ \A v \in 1..m : f[a + 1 + v] = y[v]
  BY <1>1, <1>2, <1>6, <1>7, <1>8
<1>10. DirectiveThere(f, a, d, m, u)
  BY <1>9 DEF DirectiveThere, y
<1> QED BY <1>10 DEF u, m, y

\* In the text of a location its directives stand between the path with { and the }.
LEMMA LocationLies ==
  ASSUME NEW l \in Location, NEW f, Len(f) \in Nat, NEW a \in Nat, Lies(f, a, LocationText(l))
  PROVE  LocationThere(f, a, l, Len(Directives(l.directives)), Len(LocationText(l)))
<1> DEFINE x == <<"location", l.path, "{">>
           y == Directives(l.directives)
           z == <<"}">>
           m == Len(y)
<1>1. l.path \in AllWords /\ l.directives \in Seq(Directive)
  BY DEF Location, AllWords
<1>2. x \in Seq(AllWords) /\ Len(x) = 3 /\ x[1] = "location" /\ x[2] = l.path /\ x[3] = "{"
  <2> DEFINE b == "location"
             c == l.path
             e == "{"
  <2>1. b \in AllWords /\ c \in AllWords /\ e \in AllWords
    BY <1>1 DEF AllWords
  <2> HIDE DEF b, c, e
  <2>2. /\ <<b, c, e>> \in Seq(AllWords) /\ Len(<<b, c, e>>) = 3
        /\ <<b, c, e>>[1] = b /\ <<b, c, e>>[2] = c /\ <<b, c, e>>[3] = e
    BY <2>1
  <2> QED BY <2>2 DEF b, c, e
<1>3. y \in Seq(AllWords) /\ m \in Nat
  <2>1. y \in Seq(AllWords)
    BY <1>1, DirectivesType
  <2> HIDE DEF y
  <2> QED BY <2>1
<1>4. z \in Seq(AllWords) /\ Len(z) = 1 /\ z[1] = "}"
  <2>1. "}" \in AllWords
    BY DEF AllWords
  <2> QED BY <2>1, Words
<1>5. LocationText(l) = (x \o y) \o z
  BY DEF LocationText
<1> DEFINE p == x \o y
           t == Len(p)
           u == Len(LocationText(l))
<1> HIDE DEF x, y, z, p
<1>6. p \in Seq(AllWords)
  BY <1>2, <1>3, ConcatProperties DEF p
<1> DEFINE s == LocationText(l)
<1>7. /\ u = t + 1 /\ a + t + 1 <= Len(f) /\ Lies(f, a, p) /\ t \in Nat
      /\ \A j \in 1..1 : f[a + t + j] = z[j]
  <2>1. s = p \o z /\ t = Len(p) /\ 1 = Len(z) /\ u = Len(s) /\ Len(f) \in Nat /\ a \in Nat /\ Lies(f, a, s)
    BY <1>4, <1>5 DEF p
  <2> HIDE DEF s, t, u
  <2>2. Halves(f, a, s, p, z, t, 1)
    BY ONLY <1>4, <1>6, <2>1, LiesJoined
  <2> QED BY ONLY <2>1, <2>2 DEF Halves
<1>8. t = 3 + m /\ (\A j \in 1..3 : f[a + j] = x[j]) /\ Lies(f, a + 3, y)
  <2>1. p = x \o y /\ 3 = Len(x) /\ m = Len(y) /\ t = Len(p) /\ Len(f) \in Nat /\ a \in Nat
    BY <1>2 DEF p
  <2> HIDE DEF t, m
  <2>2. Halves(f, a, p, x, y, 3, m)
    BY ONLY <1>2, <1>3, <1>7, <2>1, LiesJoined
  <2> QED BY ONLY <2>1, <2>2 DEF Halves
<1> HIDE DEF t, u, m
<1>9. f[a + 1] = x[1] /\ f[a + 2] = x[2] /\ f[a + 3] = x[3] /\ f[a + t + 1] = z[1]
  BY <1>7, <1>8
<1>10. a + t + 1 = a + 3 + m + 1 /\ a + m + 4 <= Len(f) /\ u = m + 4
  BY <1>3, <1>7, <1>8
<1>11. /\ m \in Nat /\ u = m + 4 /\ a + m + 4 <= Len(f)
       /\ f[a + 1] = "location" /\ f[a + 2] = l.path /\ f[a + 3] = "{" /\ f[a + 3 + m + 1] = "}"
       /\ Lies(f, a + 3, y)
  BY <1>2, <1>3, <1>4, <1>8, <1>9, <1>10
<1>12. LocationThere(f, a, l, m, u)
  BY <1>11 DEF LocationThere, y
<1> QED BY <1>12 DEF u, m, y

\* In the text of a server its directives come first, then its locations.
LEMMA ServerLies ==
  ASSUME NEW s \in Server, NEW f, Len(f) \in Nat, NEW a \in Nat, Lies(f, a, ServerText(s))
  PROVE  ServerThere(f, a, s, Len(Directives(s.directives)), Len(Locations(s.locations)), Len(ServerText(s)))
<1> DEFINE x == <<"server", "{">>
           y == Directives(s.directives)
           w == Locations(s.locations)
           z == <<"}">>
           m == Len(y)
           k == Len(w)
<1>1. s.directives \in Seq(Directive) /\ s.locations \in Seq(Location)
  BY DEF Server
<1>2. x \in Seq(AllWords) /\ Len(x) = 2 /\ x[1] = "server" /\ x[2] = "{"
  <2>1. "server" \in AllWords /\ "{" \in AllWords
    BY DEF AllWords
  <2> QED BY <2>1, Words
<1>3. y \in Seq(AllWords) /\ m \in Nat /\ w \in Seq(AllWords) /\ k \in Nat
  <2>1. y \in Seq(AllWords) /\ w \in Seq(AllWords)
    BY <1>1, DirectivesType, LocationsType
  <2> HIDE DEF y, w
  <2> QED BY <2>1
<1>4. z \in Seq(AllWords) /\ Len(z) = 1 /\ z[1] = "}"
  <2>1. "}" \in AllWords
    BY DEF AllWords
  <2> QED BY <2>1, Words
<1>5. ServerText(s) = ((x \o y) \o w) \o z
  BY DEF ServerText
<1> HIDE DEF x, y, w, z
<1> DEFINE p == x \o y
           q == p \o w
<1>6. p \in Seq(AllWords) /\ q \in Seq(AllWords)
  <2>1. p \in Seq(AllWords)
    BY <1>2, <1>3, ConcatProperties
  <2> HIDE DEF p
  <2> QED BY <1>3, <2>1, ConcatProperties
<1> HIDE DEF p, q
<1> DEFINE t == Len(p)
           v == Len(q)
           u == Len(ServerText(s))
<1> DEFINE g == ServerText(s)
<1>7. /\ u = v + 1 /\ a + v + 1 <= Len(f) /\ Lies(f, a, q) /\ v \in Nat
      /\ \A j \in 1..1 : f[a + v + j] = z[j]
  <2>1. g = q \o z /\ v = Len(q) /\ 1 = Len(z) /\ u = Len(g) /\ Len(f) \in Nat /\ a \in Nat /\ Lies(f, a, g)
    BY <1>4, <1>5 DEF p, q
  <2> HIDE DEF g, v, u
  <2>2. Halves(f, a, g, q, z, v, 1)
    BY ONLY <1>4, <1>6, <2>1, LiesJoined
  <2> QED BY ONLY <2>1, <2>2 DEF Halves
<1>8. v = t + k /\ t \in Nat /\ Lies(f, a, p) /\ Lies(f, a + t, w)
  <2>1. q = p \o w /\ t = Len(p) /\ k = Len(w) /\ v = Len(q) /\ Len(f) \in Nat /\ a \in Nat
    BY DEF q
  <2> HIDE DEF t, k, v
  <2>2. Halves(f, a, q, p, w, t, k)
    BY ONLY <1>3, <1>6, <1>7, <2>1, LiesJoined
  <2> QED BY ONLY <2>1, <2>2 DEF Halves
<1>9. t = 2 + m /\ (\A j \in 1..2 : f[a + j] = x[j]) /\ Lies(f, a + 2, y)
  <2>1. p = x \o y /\ 2 = Len(x) /\ m = Len(y) /\ t = Len(p) /\ Len(f) \in Nat /\ a \in Nat
    BY <1>2 DEF p
  <2> HIDE DEF t, m
  <2>2. Halves(f, a, p, x, y, 2, m)
    BY ONLY <1>2, <1>3, <1>8, <2>1, LiesJoined
  <2> QED BY ONLY <2>1, <2>2 DEF Halves
<1> HIDE DEF t, u, v
<1>10. f[a + 1] = x[1] /\ f[a + 2] = x[2] /\ f[a + v + 1] = z[1]
  BY <1>7, <1>9
<1> HIDE DEF m, k
<1>13. /\ a + v + 1 = a + 2 + m + k + 1 /\ a + m + k + 3 <= Len(f) /\ u = m + k + 3
       /\ a + t = a + 2 + m
  <2>1. /\ m \in Nat /\ k \in Nat /\ t = 2 + m /\ v = t + k /\ u = v + 1 /\ a \in Nat
        /\ a + v + 1 <= Len(f) /\ Len(f) \in Nat
    BY <1>3, <1>7, <1>8, <1>9
  <2> QED BY ONLY <2>1
<1>14. /\ m \in Nat /\ k \in Nat /\ u = m + k + 3 /\ a + m + k + 3 <= Len(f)
       /\ f[a + 1] = "server" /\ f[a + 2] = "{" /\ f[a + 2 + m + k + 1] = "}"
       /\ Lies(f, a + 2, y) /\ Lies(f, a + 2 + m, w)
  BY <1>2, <1>3, <1>4, <1>8, <1>9, <1>10, <1>13
<1>15. ServerThere(f, a, s, m, k, u)
  BY <1>14 DEF ServerThere, y, w
<1> QED BY <1>15 DEF u, m, k, y, w

(* How many words stand before a place. *)

\* Before the n + 1-st server, the l + 1-st location, the first directive of a block, the
\* d + 1-st one.
ServerOff(conf, n) == Len(UpTo(ServerTexts(conf), n))
LocationOff(conf, n, l) ==
  ServerOff(conf, n - 1) + 2 + Len(Directives(conf[n].directives))
    + Len(UpTo(LocationTexts(conf[n].locations), l))
BlockOff(conf, n, l) == IF l = 0 THEN ServerOff(conf, n - 1) + 2 ELSE LocationOff(conf, n, l - 1) + 3
DirectiveOff(conf, n, l, d) == BlockOff(conf, n, l) + Len(UpTo(DirectiveTexts(Block(conf, n, l)), d))

\* o words stand before p.
At(conf, p, o) ==
  \/ \E n \in 0..Len(conf) : p = Top(n) /\ o = ServerOff(conf, n)
  \/ \E n \in 1..Len(conf) : p = Opened(n) /\ o = ServerOff(conf, n - 1) + 1
  \/ \E n \in 1..Len(conf) : \E l \in 0..Len(conf[n].locations) :
       \E d \in 0..Len(Block(conf, n, l)) : p = InBlock(n, l, d) /\ o = DirectiveOff(conf, n, l, d)
  \/ \E n \in 1..Len(conf) : \E l \in 0..Len(conf[n].locations) :
       \E d \in 1..Len(Block(conf, n, l)) : \E v \in 0..Len(Block(conf, n, l)[d][2]) :
         p = InValues(n, l, d, v) /\ o = DirectiveOff(conf, n, l, d - 1) + 1 + v
  \/ \E n \in 1..Len(conf) : \E l \in 1..Len(conf[n].locations) :
       \/ p = AtPath(n, l) /\ o = LocationOff(conf, n, l - 1) + 1
       \/ p = AtBracket(n, l) /\ o = LocationOff(conf, n, l - 1) + 2
       \/ p = Behind(n, l) /\ o = LocationOff(conf, n, l)

\* What the text f has at the servers, at the locations and at the directives.
ServersLaid(conf, f) ==
  /\ ServerOff(conf, 0) = 0 /\ ServerOff(conf, Len(conf)) = Len(f)
  /\ \A n \in 0..Len(conf) : ServerOff(conf, n) \in Nat
  /\ \A n \in 1..Len(conf) :
       LET a == ServerOff(conf, n - 1)
           c == LocationOff(conf, n, Len(conf[n].locations))
       IN  /\ f[a + 1] = "server" /\ f[a + 2] = "{" /\ DirectiveOff(conf, n, 0, 0) = a + 2
           /\ LocationOff(conf, n, 0) = DirectiveOff(conf, n, 0, Len(Block(conf, n, 0)))
           /\ f[c + 1] = "}" /\ ServerOff(conf, n) = c + 1
           /\ c \in Nat /\ a + 2 <= Len(f) /\ c + 1 <= Len(f)

LocationLaid(conf, f, n, l) ==
  LET a == LocationOff(conf, n, l - 1)
      c == DirectiveOff(conf, n, l, Len(Block(conf, n, l)))
  IN  /\ a \in Nat /\ c \in Nat
      /\ f[a + 1] = "location" /\ f[a + 2] = conf[n].locations[l].path /\ f[a + 3] = "{"
      /\ DirectiveOff(conf, n, l, 0) = a + 3
      /\ f[c + 1] = "}" /\ LocationOff(conf, n, l) = c + 1
      /\ a + 3 <= Len(f) /\ c + 1 <= Len(f)

LocationsLaid(conf, f) ==
  \A n \in 1..Len(conf) : \A l \in 1..Len(conf[n].locations) : LocationLaid(conf, f, n, l)

DirectivesLaid(conf, f) ==
  \A n \in 1..Len(conf) : \A l \in 0..Len(conf[n].locations) : \A d \in 1..Len(Block(conf, n, l)) :
    LET a == DirectiveOff(conf, n, l, d - 1)
        m == Len(Block(conf, n, l)[d][2])
    IN  /\ a \in Nat /\ m \in Nat
        /\ f[a + 1] = Block(conf, n, l)[d][1] /\ f[a + 1 + m + 1] = ";"
        /\ \A v \in 1..m : f[a + 1 + v] = Block(conf, n, l)[d][2][v]
        /\ DirectiveOff(conf, n, l, d) = a + m + 2 /\ a + m + 2 <= Len(f)

\* The parts of the n-th server.
LEMMA ServerParts ==
  ASSUME NEW conf \in Seq(Server), NEW n \in 1..Len(conf)
  PROVE  /\ conf[n].directives \in Seq(Directive) /\ conf[n].locations \in Seq(Location)
         /\ Len(conf[n].directives) \in Nat /\ Len(conf[n].locations) \in Nat
         /\ \A l \in 1..Len(conf[n].locations) : conf[n].locations[l] \in Location
         /\ \A l \in 0..Len(conf[n].locations) :
              /\ Block(conf, n, l) \in Seq(Directive) /\ Len(Block(conf, n, l)) \in Nat
              /\ \A d \in 1..Len(Block(conf, n, l)) : Block(conf, n, l)[d] \in Directive
<1>1. conf[n] \in Server
  BY ServersType
<1>2. conf[n].directives \in Seq(Directive) /\ conf[n].locations \in Seq(Location)
  BY <1>1 DEF Server
<1>3. \A l \in 1..Len(conf[n].locations) : conf[n].locations[l] \in Location
  BY <1>2, LocationsType
<1>4. ASSUME NEW l \in 0..Len(conf[n].locations)
      PROVE  Block(conf, n, l) \in Seq(Directive)
  <2>1. CASE l = 0
    BY <1>2, <2>1 DEF Block
  <2>2. CASE l # 0
    <3>1. l \in 1..Len(conf[n].locations)
      BY <1>2, <2>2, LocationsType
    <3>2. conf[n].locations[l].directives \in Seq(Directive)
      BY <1>3, <3>1 DEF Location
    <3> QED BY <2>2, <3>2 DEF Block
  <2> QED BY <2>1, <2>2
<1>5. Len(conf[n].directives) \in Nat /\ Len(conf[n].locations) \in Nat
  BY <1>2, DirectivesType, LocationsType
<1>6. \A ds \in Seq(Directive) : Len(ds) \in Nat /\ \A d \in 1..Len(ds) : ds[d] \in Directive
  BY DirectivesType
<1> QED BY ONLY <1>2, <1>3, <1>4, <1>5, <1>6

\* What n directives that lie behind b words put where.
DirectivesFrom(f, ds, b) ==
  /\ b + Len(UpTo(DirectiveTexts(ds), 0)) = b
  /\ b + Len(UpTo(DirectiveTexts(ds), Len(ds))) = b + Len(Directives(ds))
  /\ \A d \in 1..Len(ds) :
       LET a == b + Len(UpTo(DirectiveTexts(ds), d - 1))
           m == Len(ds[d][2])
       IN  /\ a \in Nat /\ m \in Nat
           /\ f[a + 1] = ds[d][1] /\ f[a + 1 + m + 1] = ";"
           /\ \A v \in 1..m : f[a + 1 + v] = ds[d][2][v]
           /\ b + Len(UpTo(DirectiveTexts(ds), d)) = a + m + 2 /\ a + m + 2 <= Len(f)

\* Where directives lie in f at b, each lies where those before it end.
LEMMA DirectivesLie ==
  ASSUME NEW ds \in Seq(Directive), NEW f, Len(f) \in Nat, NEW b \in Nat, Lies(f, b, Directives(ds))
  PROVE  DirectivesFrom(f, ds, b)
<1> DEFINE ss == DirectiveTexts(ds)
<1>1. /\ ss \in Seq(Seq(AllWords)) /\ Len(ss) = Len(ds) /\ FlattenSeq(ss) = Directives(ds)
      /\ \A d \in 1..Len(ds) : ds[d] \in Directive /\ ss[d] = DirectiveText(ds[d])
      /\ Len(ds) \in Nat
  BY DirectivesType, TextsFlat
<1> HIDE DEF ss
<1>2. /\ b + Len(UpTo(ss, 0)) = b /\ b + Len(UpTo(ss, Len(ss))) = b + Len(FlattenSeq(ss))
      /\ \A k \in 0..Len(ss) : b + Len(UpTo(ss, k)) \in Nat
      /\ \A k \in 1..Len(ss) :
           /\ b + Len(UpTo(ss, k)) = b + Len(UpTo(ss, k - 1)) + Len(ss[k])
           /\ Lies(f, b + Len(UpTo(ss, k - 1)), ss[k])
  BY ONLY <1>1, b \in Nat, Len(f) \in Nat, Lies(f, b, Directives(ds)), LiesFlat, ZenonT(30)
<1>3. ASSUME NEW d \in 1..Len(ds), NEW a, a = b + Len(UpTo(ss, d - 1)), NEW m, m = Len(ds[d][2])
      PROVE  /\ a \in Nat /\ m \in Nat
             /\ f[a + 1] = ds[d][1] /\ f[a + 1 + m + 1] = ";"
             /\ \A v \in 1..m : f[a + 1 + v] = ds[d][2][v]
             /\ b + Len(UpTo(ss, d)) = a + m + 2 /\ a + m + 2 <= Len(f)
  <2>1. ds[d] \in Directive /\ ss[d] = DirectiveText(ds[d])
    BY <1>1
  <2>2. a \in Nat
    <3>1. d - 1 \in 0..Len(ss)
      BY <1>1
    <3> QED BY <1>2, <1>3, <3>1
  <2>3. b + Len(UpTo(ss, d)) = a + Len(ss[d]) /\ Lies(f, a, DirectiveText(ds[d]))
    BY <1>1, <1>2, <1>3, <2>1
  <2>4. /\ m \in Nat /\ Len(DirectiveText(ds[d])) = m + 2 /\ a + m + 2 <= Len(f)
        /\ f[a + 1] = ds[d][1] /\ (\A v \in 1..m : f[a + 1 + v] = ds[d][2][v]) /\ f[a + 1 + m + 1] = ";"
    <3>1. DirectiveThere(f, a, ds[d], Len(ds[d][2]), Len(DirectiveText(ds[d])))
      BY <2>1, <2>2, <2>3, DirectiveLies
    <3> QED BY ONLY <1>3, <3>1 DEF DirectiveThere
  <2>5. b + Len(UpTo(ss, d)) = a + m + 2
    <3> DEFINE u == Len(DirectiveText(ds[d]))
               y == Len(UpTo(ss, d))
    <3>1. u = m + 2 /\ b + y = a + u /\ m \in Nat /\ a \in Nat
      BY <2>1, <2>2, <2>3, <2>4
    <3> HIDE DEF u, y
    <3>2. b + y = a + m + 2
      BY ONLY <3>1
    <3> QED BY ONLY <3>2 DEF y
  <2> QED BY ONLY <2>2, <2>4, <2>5
<1> QED BY <1>1, <1>2, <1>3 DEF DirectivesFrom, ss

\* The same of locations.
LocationsFrom(f, ls, b) ==
  /\ b + Len(UpTo(LocationTexts(ls), 0)) = b
  /\ b + Len(UpTo(LocationTexts(ls), Len(ls))) = b + Len(Locations(ls))
  /\ \A l \in 1..Len(ls) :
       LET a == b + Len(UpTo(LocationTexts(ls), l - 1))
           m == Len(Directives(ls[l].directives))
       IN  /\ a \in Nat
           /\ LocationThere(f, a, ls[l], m, m + 4)
           /\ b + Len(UpTo(LocationTexts(ls), l)) = a + m + 4

\* The same of locations,
LEMMA LocationsLie ==
  ASSUME NEW ls \in Seq(Location), NEW f, Len(f) \in Nat, NEW b \in Nat, Lies(f, b, Locations(ls))
  PROVE  LocationsFrom(f, ls, b)
<1> DEFINE ss == LocationTexts(ls)
<1>1. /\ ss \in Seq(Seq(AllWords)) /\ Len(ss) = Len(ls) /\ FlattenSeq(ss) = Locations(ls)
      /\ \A l \in 1..Len(ls) : ls[l] \in Location /\ ss[l] = LocationText(ls[l])
      /\ Len(ls) \in Nat
  BY LocationsType, TextsFlat
<1> HIDE DEF ss
<1>2. /\ b + Len(UpTo(ss, 0)) = b /\ b + Len(UpTo(ss, Len(ss))) = b + Len(FlattenSeq(ss))
      /\ \A k \in 0..Len(ss) : b + Len(UpTo(ss, k)) \in Nat
      /\ \A k \in 1..Len(ss) :
           /\ b + Len(UpTo(ss, k)) = b + Len(UpTo(ss, k - 1)) + Len(ss[k])
           /\ Lies(f, b + Len(UpTo(ss, k - 1)), ss[k])
  BY ONLY <1>1, b \in Nat, Len(f) \in Nat, Lies(f, b, Locations(ls)), LiesFlat, ZenonT(30)
<1>3. ASSUME NEW l \in 1..Len(ls), NEW a, a = b + Len(UpTo(ss, l - 1)),
             NEW m, m = Len(Directives(ls[l].directives))
      PROVE  /\ a \in Nat /\ LocationThere(f, a, ls[l], m, m + 4)
             /\ b + Len(UpTo(ss, l)) = a + m + 4
  <2>1. ls[l] \in Location /\ ss[l] = LocationText(ls[l])
    BY <1>1
  <2>2. a \in Nat
    <3>1. l - 1 \in 0..Len(ss)
      BY <1>1
    <3> QED BY <1>2, <1>3, <3>1
  <2>3. b + Len(UpTo(ss, l)) = a + Len(ss[l]) /\ Lies(f, a, LocationText(ls[l]))
    BY <1>1, <1>2, <1>3, <2>1
  <2> DEFINE u == Len(LocationText(ls[l]))
             y == Len(UpTo(ss, l))
  <2>4. LocationThere(f, a, ls[l], m, u)
    BY <1>3, <2>1, <2>2, <2>3, LocationLies
  <2>5. b + y = a + u
    BY <2>1, <2>3
  <2> HIDE DEF u, y
  <2>6. u = m + 4 /\ m \in Nat
    BY <2>4 DEF LocationThere
  <2>7. b + y = a + m + 4
    BY ONLY <2>2, <2>5, <2>6
  <2>8. LocationThere(f, a, ls[l], m, m + 4)
    BY ONLY <2>4, <2>6
  <2> QED BY ONLY <2>2, <2>7, <2>8 DEF y
<1>4. ASSUME NEW l \in 1..Len(ls)
      PROVE  LET a == b + Len(UpTo(ss, l - 1))
                 m == Len(Directives(ls[l].directives))
             IN  /\ a \in Nat
                 /\ LocationThere(f, a, ls[l], m, m + 4)
                 /\ b + Len(UpTo(ss, l)) = a + m + 4
  BY ONLY <1>3, l \in 1..Len(ls)
<1>5. b + Len(UpTo(ss, 0)) = b /\ b + Len(UpTo(ss, Len(ls))) = b + Len(Locations(ls))
  BY <1>1, <1>2
<1> QED BY ONLY <1>4, <1>5 DEF LocationsFrom, ss

\* Where the parts of the n-th server lie.
ServerFrom(conf, f, n) ==
  LET a == ServerOff(conf, n - 1)
      m == Len(Directives(conf[n].directives))
      k == Len(Locations(conf[n].locations))
  IN  /\ a \in Nat
      /\ ServerThere(f, a, conf[n], m, k, m + k + 3)
      /\ ServerOff(conf, n) = a + m + k + 3
      /\ DirectivesFrom(f, conf[n].directives, a + 2)
      /\ LocationsFrom(f, conf[n].locations, a + 2 + m)

\* and of the servers of a configuration, which fill its file.
LEMMA ServersLie ==
  ASSUME NEW conf \in Seq(Server), NEW f, f = Render(conf)
  PROVE  /\ Len(f) \in Nat
         /\ ServerOff(conf, 0) = 0 /\ ServerOff(conf, Len(conf)) = Len(f)
         /\ \A n \in 0..Len(conf) : ServerOff(conf, n) \in Nat
         /\ \A n \in 1..Len(conf) : ServerFrom(conf, f, n)
<1> DEFINE ss == ServerTexts(conf)
<1>1. /\ ss \in Seq(Seq(AllWords)) /\ Len(ss) = Len(conf) /\ FlattenSeq(ss) = f
      /\ \A n \in 1..Len(conf) : conf[n] \in Server /\ ss[n] = ServerText(conf[n])
      /\ Len(conf) \in Nat /\ f \in Seq(AllWords)
  BY ServersType, TextsFlat
<1>2. Len(f) \in Nat /\ Lies(f, 0, f)
  <2>1. Len(f) \in Nat
    BY <1>1
  <2> QED BY <2>1 DEF Lies
<1> HIDE DEF ss
<1>3. /\ 0 + Len(UpTo(ss, 0)) = 0 /\ 0 + Len(UpTo(ss, Len(ss))) = 0 + Len(FlattenSeq(ss))
      /\ \A k \in 0..Len(ss) : 0 + Len(UpTo(ss, k)) \in Nat
      /\ \A k \in 1..Len(ss) :
           /\ 0 + Len(UpTo(ss, k)) = 0 + Len(UpTo(ss, k - 1)) + Len(ss[k])
           /\ Lies(f, 0 + Len(UpTo(ss, k - 1)), ss[k])
  <2> DEFINE z == 0
  <2>1. z \in Nat /\ Lies(f, z, FlattenSeq(ss))
    BY <1>1, <1>2
  <2> HIDE DEF z
  <2>2. /\ z + Len(UpTo(ss, 0)) = z /\ z + Len(UpTo(ss, Len(ss))) = z + Len(FlattenSeq(ss))
        /\ \A k \in 0..Len(ss) : z + Len(UpTo(ss, k)) \in Nat
        /\ \A k \in 1..Len(ss) :
             /\ z + Len(UpTo(ss, k)) = z + Len(UpTo(ss, k - 1)) + Len(ss[k])
             /\ Lies(f, z + Len(UpTo(ss, k - 1)), ss[k])
    <3>1. ss \in Seq(Seq(AllWords)) /\ Len(f) \in Nat
      BY <1>1, <1>2
    <3> QED BY ONLY <2>1, <3>1, LiesFlat
  <2> QED BY ONLY <2>2 DEF z
<1>4. \A k \in 0..Len(ss) : Len(UpTo(ss, k)) \in Nat
  <2>1. ASSUME NEW k \in 0..Len(ss) PROVE UpTo(ss, k) \in Seq(AllWords)
    BY <1>1, UpToStep
  <2> QED BY <2>1
<1>5. ASSUME NEW n \in 1..Len(conf)
      PROVE  ServerFrom(conf, f, n)
  <2> DEFINE a == ServerOff(conf, n - 1)
             s == conf[n]
             m == Len(Directives(s.directives))
             k == Len(Locations(s.locations))
             u == Len(ServerText(s))
             y == ServerOff(conf, n)
  <2>1. s \in Server /\ ss[n] = ServerText(s)
    BY <1>1
  <2>2. a \in Nat /\ y \in Nat
    <3>1. n - 1 \in 0..Len(ss) /\ n \in 0..Len(ss)
      BY <1>1
    <3> QED BY <1>4, <3>1 DEF ServerOff, ss
  <2>3. 0 + y = 0 + a + u /\ Lies(f, 0 + a, ServerText(s))
    BY <1>1, <1>3, <2>1 DEF ServerOff, ss
  <2> HIDE DEF a, y
  <2>4. 0 + a = a
    BY <2>2
  <2>5. ServerThere(f, a, s, m, k, u)
    BY <1>2, <2>1, <2>2, <2>3, <2>4, ServerLies
  <2>6. /\ s.directives \in Seq(Directive) /\ s.locations \in Seq(Location)
    BY <2>1 DEF Server
  <2> HIDE DEF m, k, u, s
  <2>7. /\ m \in Nat /\ k \in Nat /\ u = m + k + 3
        /\ Lies(f, a + 2, Directives(s.directives)) /\ Lies(f, a + 2 + m, Locations(s.locations))
    BY <2>5 DEF ServerThere
  <2>8. y = a + m + k + 3
    <3>1. 0 + y = 0 + a + u /\ y \in Nat /\ a \in Nat /\ m \in Nat /\ k \in Nat /\ u = m + k + 3
      BY <2>2, <2>3, <2>7
    <3> QED BY ONLY <3>1
  <2>9. DirectivesFrom(f, s.directives, a + 2)
    BY <1>2, <2>2, <2>6, <2>7, DirectivesLie
  <2>10. LocationsFrom(f, s.locations, a + 2 + m)
    BY <1>2, <2>2, <2>6, <2>7, LocationsLie
  <2>11. ServerThere(f, a, s, m, k, m + k + 3)
    BY ONLY <2>5, <2>7
  <2> QED BY ONLY <2>2, <2>8, <2>9, <2>10, <2>11 DEF ServerFrom, a, s, m, k, y
<1>6. ServerOff(conf, 0) = 0 /\ ServerOff(conf, Len(conf)) = Len(f)
  <2> DEFINE x == Len(UpTo(ss, 0))
             y == Len(UpTo(ss, Len(ss)))
             z == Len(f)
  <2>1. 0 + x = 0 /\ 0 + y = 0 + z
    BY <1>1, <1>3
  <2>2. x \in Nat /\ y \in Nat /\ z \in Nat
    <3>1. 0 \in 0..Len(ss) /\ Len(ss) \in 0..Len(ss)
      BY <1>1
    <3> QED BY <1>2, <1>4, <3>1
  <2>3. x = ServerOff(conf, 0) /\ y = ServerOff(conf, Len(conf))
    BY <1>1 DEF ServerOff, ss
  <2> HIDE DEF x, y, z
  <2>4. x = 0 /\ y = z
    BY ONLY <2>1, <2>2
  <2> QED BY ONLY <2>3, <2>4 DEF z
<1> QED BY <1>1, <1>2, <1>4, <1>5, <1>6 DEF ServerOff, ss

\* So every directive, location and server of the file lies at its own offset.
LEMMA LocationsAreLaid ==
  ASSUME NEW conf \in Seq(Server), NEW f, f = Render(conf)
  PROVE  LocationsLaid(conf, f) /\ DirectivesLaid(conf, f) /\ ServersLaid(conf, f)
<1>0. /\ Len(f) \in Nat
      /\ ServerOff(conf, 0) = 0 /\ ServerOff(conf, Len(conf)) = Len(f)
      /\ \A n \in 0..Len(conf) : ServerOff(conf, n) \in Nat
      /\ \A n \in 1..Len(conf) : ServerFrom(conf, f, n)
  BY ServersLie
<1>1. ASSUME NEW n \in 1..Len(conf)
      PROVE  \A l \in 1..Len(conf[n].locations) :
               LET a == LocationOff(conf, n, l - 1)
                   c == DirectiveOff(conf, n, l, Len(Block(conf, n, l)))
               IN  /\ a \in Nat /\ c \in Nat
                   /\ f[a + 1] = "location" /\ f[a + 2] = conf[n].locations[l].path /\ f[a + 3] = "{"
                   /\ DirectiveOff(conf, n, l, 0) = a + 3
                   /\ f[c + 1] = "}" /\ LocationOff(conf, n, l) = c + 1
                   /\ a + 3 <= Len(f) /\ c + 1 <= Len(f)
                   /\ DirectivesFrom(f, Block(conf, n, l), BlockOff(conf, n, l))
  <2> SUFFICES ASSUME NEW l \in 1..Len(conf[n].locations), NEW a, a = LocationOff(conf, n, l - 1),
                      NEW c, c = DirectiveOff(conf, n, l, Len(Block(conf, n, l)))
               PROVE  /\ a \in Nat /\ c \in Nat
                      /\ f[a + 1] = "location" /\ f[a + 2] = conf[n].locations[l].path /\ f[a + 3] = "{"
                      /\ DirectiveOff(conf, n, l, 0) = a + 3
                      /\ f[c + 1] = "}" /\ LocationOff(conf, n, l) = c + 1
                      /\ a + 3 <= Len(f) /\ c + 1 <= Len(f)
                      /\ DirectivesFrom(f, Block(conf, n, l), BlockOff(conf, n, l))
    OBVIOUS
  <2> DEFINE ds == Block(conf, n, l)
             m == Len(Directives(ds))
             b == BlockOff(conf, n, l)
             z == LocationOff(conf, n, l)
             q == conf[n].locations[l]
  <2>1. /\ LocationsFrom(f, conf[n].locations, ServerOff(conf, n - 1) + 2 + Len(Directives(conf[n].directives)))
        /\ l # 0 /\ l \in Nat
    BY <1>0, ServerParts DEF ServerFrom
  <2>2. ds = q.directives /\ b = a + 3
    BY <2>1 DEF Block, BlockOff
  <2>3. a \in Nat /\ LocationThere(f, a, q, m, m + 4) /\ z = a + m + 4
    BY <2>1, <2>2 DEF LocationsFrom, LocationOff
  <2>4. /\ m \in Nat /\ a + m + 4 <= Len(f) /\ f[a + 3 + m + 1] = "}"
        /\ f[a + 1] = "location" /\ f[a + 2] = q.path /\ f[a + 3] = "{"
        /\ Lies(f, a + 3, Directives(ds))
    BY <2>2, <2>3 DEF LocationThere
  <2>5. ds \in Seq(Directive)
    BY <2>1, ServerParts
  <2>6. DirectivesFrom(f, ds, b)
    <3>1. b = a + 3 /\ a \in Nat /\ Lies(f, a + 3, Directives(ds))
      BY <2>2, <2>3, <2>4
    <3> HIDE DEF b, ds
    <3>2. b \in Nat /\ Lies(f, b, Directives(ds))
      BY ONLY <3>1
    <3> QED BY <1>0, <2>5, <3>2, DirectivesLie
  <2>7. DirectiveOff(conf, n, l, 0) = a + 3 /\ c = b + m
    BY <2>2, <2>6 DEF DirectivesFrom, DirectiveOff
  <2> HIDE DEF m, b, z, q, ds
  <2>8. /\ c = a + 3 + m /\ z = c + 1 /\ c \in Nat /\ c + 1 <= Len(f) /\ a + 3 <= Len(f)
    <3>1. /\ c = b + m /\ b = a + 3 /\ z = a + m + 4 /\ a \in Nat /\ m \in Nat
          /\ a + m + 4 <= Len(f) /\ Len(f) \in Nat
      BY ONLY <1>0, <2>2, <2>3, <2>4, <2>7
    <3> QED BY ONLY <3>1
  <2> QED BY ONLY <2>3, <2>4, <2>6, <2>7, <2>8 DEF b, z, q, ds
<1>2. ASSUME NEW n \in 1..Len(conf)
      PROVE  LET a == ServerOff(conf, n - 1)
                 c == LocationOff(conf, n, Len(conf[n].locations))
             IN  /\ f[a + 1] = "server" /\ f[a + 2] = "{" /\ DirectiveOff(conf, n, 0, 0) = a + 2
                 /\ LocationOff(conf, n, 0) = DirectiveOff(conf, n, 0, Len(Block(conf, n, 0)))
                 /\ f[c + 1] = "}" /\ ServerOff(conf, n) = c + 1
                 /\ c \in Nat /\ a + 2 <= Len(f) /\ c + 1 <= Len(f)
                 /\ DirectivesFrom(f, Block(conf, n, 0), BlockOff(conf, n, 0))
  <2> SUFFICES ASSUME NEW a, a = ServerOff(conf, n - 1),
                      NEW c, c = LocationOff(conf, n, Len(conf[n].locations))
               PROVE  /\ f[a + 1] = "server" /\ f[a + 2] = "{" /\ DirectiveOff(conf, n, 0, 0) = a + 2
                      /\ LocationOff(conf, n, 0) = DirectiveOff(conf, n, 0, Len(Block(conf, n, 0)))
                      /\ f[c + 1] = "}" /\ ServerOff(conf, n) = c + 1
                      /\ c \in Nat /\ a + 2 <= Len(f) /\ c + 1 <= Len(f)
                      /\ DirectivesFrom(f, Block(conf, n, 0), BlockOff(conf, n, 0))
    OBVIOUS
  <2> DEFINE ds == Block(conf, n, 0)
             ls == conf[n].locations
             m == Len(Directives(ds))
             k == Len(Locations(ls))
             b == BlockOff(conf, n, 0)
             y == ServerOff(conf, n)
             g == LocationOff(conf, n, 0)
             h == DirectiveOff(conf, n, 0, Len(ds))
  <2>1. ds = conf[n].directives /\ b = a + 2
    BY DEF Block, BlockOff
  <2>2. /\ a \in Nat /\ ServerThere(f, a, conf[n], m, k, m + k + 3) /\ y = a + m + k + 3
        /\ DirectivesFrom(f, ds, b) /\ LocationsFrom(f, ls, a + 2 + m)
    BY <1>0, <2>1 DEF ServerFrom
  <2>3. /\ m \in Nat /\ k \in Nat /\ a + m + k + 3 <= Len(f)
        /\ f[a + 1] = "server" /\ f[a + 2] = "{" /\ f[a + 2 + m + k + 1] = "}"
    BY <2>2 DEF ServerThere
  <2>4. DirectiveOff(conf, n, 0, 0) = b /\ h = b + m
    BY <2>2 DEF DirectivesFrom, DirectiveOff
  <2>5. g = a + 2 + m /\ c = a + 2 + m + k
    BY <2>1, <2>2 DEF LocationsFrom, LocationOff
  <2> HIDE DEF m, k, b, y, g, h, ds, ls
  <2>6. g = h /\ y = c + 1 /\ c \in Nat /\ a + 2 <= Len(f) /\ c + 1 <= Len(f) /\ c + 1 = a + 2 + m + k + 1
    <3>1. /\ g = a + 2 + m /\ c = a + 2 + m + k /\ h = b + m /\ b = a + 2 /\ y = a + m + k + 3
          /\ a \in Nat /\ m \in Nat /\ k \in Nat /\ a + m + k + 3 <= Len(f) /\ Len(f) \in Nat
      BY ONLY <1>0, <2>1, <2>2, <2>3, <2>4, <2>5
    <3> QED BY ONLY <3>1
  <2> QED BY ONLY <2>1, <2>2, <2>3, <2>4, <2>6 DEF b, y, g, h, ds, ls
<1>3. ASSUME NEW n \in 1..Len(conf), NEW l \in 0..Len(conf[n].locations)
      PROVE  DirectivesFrom(f, Block(conf, n, l), BlockOff(conf, n, l))
  <2>1. CASE l = 0
    BY <1>2, <2>1
  <2>2. CASE l # 0
    <3>1. l \in 1..Len(conf[n].locations)
      BY <2>2, ServerParts
    <3> QED BY <1>1, <3>1
  <2> QED BY <2>1, <2>2
<1>4. LocationsLaid(conf, f)
  <2>1. ASSUME NEW n \in 1..Len(conf), NEW l \in 1..Len(conf[n].locations)
        PROVE  LocationLaid(conf, f, n, l)
    BY ONLY <1>1, n \in 1..Len(conf), l \in 1..Len(conf[n].locations) DEF LocationLaid
  <2> QED BY ONLY <2>1 DEF LocationsLaid
<1>5. ServersLaid(conf, f)
  BY ONLY <1>0, <1>2 DEF ServersLaid
<1>6. DirectivesLaid(conf, f)
  BY ONLY <1>3 DEF DirectivesLaid, DirectivesFrom, DirectiveOff
<1> QED BY <1>4, <1>5, <1>6

\* From p, behind o words of f, the next word leads on, or f ends.
Moves(conf, f, p, o) ==
  /\ o \in Nat
  /\ \/ p = Top(Len(conf)) /\ o = Len(f)
     \/ o + 1 <= Len(f) /\ \E q : \E k : Leads(conf, p, q, k, f[o + 1]) /\ At(conf, q, o + 1)

\* Behind a server's own directives and behind each of its locations the walk goes on.
LEMMA MovesFromEnded ==
  ASSUME NEW conf \in Seq(Server), NEW f, f = Render(conf), NEW n \in 1..Len(conf),
         NEW l \in 0..Len(conf[n].locations), NEW p, Ended(conf, p, n, l),
         NEW o, o = LocationOff(conf, n, l)
  PROVE  Moves(conf, f, p, o)
<1>1. LocationsLaid(conf, f) /\ ServersLaid(conf, f)
  BY LocationsAreLaid
<1>2. Len(conf[n].locations) \in Nat /\ Len(conf) \in Nat
  BY ServerParts, ServersType
<1>3. CASE l = Len(conf[n].locations)
  <2>1. o \in Nat /\ f[o + 1] = "}" /\ ServerOff(conf, n) = o + 1 /\ o + 1 <= Len(f)
    BY <1>1, <1>3 DEF ServersLaid
  <2>2. ClosesServer(conf, p, Top(n), "CLOSE_BRACKET", f[o + 1])
    BY <1>3, <2>1 DEF ClosesServer
  <2>3. At(conf, Top(n), o + 1)
    <3>1. n \in 0..Len(conf)
      BY <1>2
    <3> QED BY <2>1, <3>1 DEF At
  <2> QED BY <2>1, <2>2, <2>3 DEF Moves, Leads
<1>4. CASE l # Len(conf[n].locations)
  <2> DEFINE h == l + 1
  <2>1. h \in 1..Len(conf[n].locations) /\ h - 1 = l
    BY <1>2, <1>4
  <2> HIDE DEF h
  <2>2. o \in Nat /\ f[o + 1] = "location" /\ o + 3 <= Len(f)
    BY <1>1, <2>1 DEF LocationsLaid, LocationLaid
  <2>3. OpensLocation(conf, p, AtPath(n, h), "LOCATION", f[o + 1])
    BY <2>1, <2>2 DEF OpensLocation
  <2>4. At(conf, AtPath(n, h), o + 1)
    BY <2>1 DEF At
  <2>5. o + 1 <= Len(f)
    <3>1. Len(f) \in Nat
      BY ServersLie
    <3> QED BY <2>2, <3>1
  <2> QED BY <2>2, <2>3, <2>4, <2>5 DEF Moves, Leads
<1> QED BY <1>3, <1>4

\* The word behind a place leads to the next one.
LEMMA Advance ==
  ASSUME NEW conf \in Seq(Server), NEW f, f = Render(conf), NEW p, NEW o, At(conf, p, o)
  PROVE  Moves(conf, f, p, o)
<1>1. LocationsLaid(conf, f) /\ ServersLaid(conf, f) /\ DirectivesLaid(conf, f)
  BY LocationsAreLaid
<1>2. Len(conf) \in Nat /\ Len(f) \in Nat
  BY ServersType, ServersLie
<1>3. ASSUME NEW n \in 0..Len(conf), p = Top(n), o = ServerOff(conf, n)
      PROVE  Moves(conf, f, p, o)
  <2>1. CASE n = Len(conf)
    BY <1>1, <1>2, <1>3, <2>1 DEF Moves, ServersLaid
  <2>2. CASE n # Len(conf)
    <3> DEFINE h == n + 1
    <3>1. h \in 1..Len(conf) /\ h - 1 = n
      BY <1>2, <2>2
    <3> HIDE DEF h
    <3>2. o \in Nat /\ f[o + 1] = "server" /\ o + 2 <= Len(f)
      BY <1>1, <1>3, <3>1 DEF ServersLaid
    <3>3. OpensServer(conf, p, Opened(h), "SERVER", f[o + 1])
      BY <1>3, <3>1, <3>2 DEF OpensServer
    <3>4. At(conf, Opened(h), o + 1)
      BY <1>3, <3>1 DEF At
    <3>5. o + 1 <= Len(f)
      BY <1>2, <3>2
    <3> QED BY <3>2, <3>3, <3>4, <3>5 DEF Moves, Leads
  <2> QED BY <2>1, <2>2
<1>4. ASSUME NEW n \in 1..Len(conf), p = Opened(n), o = ServerOff(conf, n - 1) + 1
      PROVE  Moves(conf, f, p, o)
  <2> DEFINE a == ServerOff(conf, n - 1)
  <2>1. a \in Nat
    <3>1. n - 1 \in 0..Len(conf)
      BY <1>2
    <3> QED BY <1>1, <3>1 DEF ServersLaid
  <2>2. f[a + 2] = "{" /\ DirectiveOff(conf, n, 0, 0) = a + 2 /\ a + 2 <= Len(f)
    BY <1>1 DEF ServersLaid
  <2>3. o = a + 1
    BY <1>4
  <2> HIDE DEF a
  <2>4. o \in Nat /\ o + 1 = a + 2 /\ o + 1 <= Len(f)
    <3>1. a \in Nat /\ o = a + 1 /\ a + 2 <= Len(f) /\ Len(f) \in Nat
      BY <1>2, <2>1, <2>2, <2>3
    <3> QED BY ONLY <3>1
  <2>5. OpensBlock(conf, p, InBlock(n, 0, 0), "OPEN_BRACKET", f[o + 1])
    BY <1>4, <2>2, <2>4 DEF OpensBlock
  <2>6. At(conf, InBlock(n, 0, 0), o + 1)
    <3>1. 0 \in 0..Len(conf[n].locations) /\ 0 \in 0..Len(Block(conf, n, 0))
      BY ServerParts
    <3> QED BY <2>2, <2>4, <3>1 DEF At
  <2> QED BY <2>4, <2>5, <2>6 DEF Moves, Leads
<1>5. ASSUME NEW n \in 1..Len(conf), NEW l \in 0..Len(conf[n].locations),
             NEW d \in 0..Len(Block(conf, n, l)), p = InBlock(n, l, d), o = DirectiveOff(conf, n, l, d)
      PROVE  Moves(conf, f, p, o)
  <2>0. Len(conf[n].locations) \in Nat /\ Len(Block(conf, n, l)) \in Nat
    BY ServerParts
  <2>1. CASE d # Len(Block(conf, n, l))
    <3> DEFINE h == d + 1
    <3>1. h \in 1..Len(Block(conf, n, l)) /\ h - 1 = d
      BY <2>0, <2>1
    <3> HIDE DEF h
    <3> DEFINE m == Len(Block(conf, n, l)[h][2])
    <3>2. o \in Nat /\ m \in Nat /\ f[o + 1] = Block(conf, n, l)[h][1] /\ o + m + 2 <= Len(f)
      BY <1>1, <1>5, <3>1 DEF DirectivesLaid
    <3>3. ReadsKey(conf, p, InValues(n, l, h, 0), "KEY", f[o + 1])
      BY <1>5, <3>1, <3>2 DEF ReadsKey
    <3>4. At(conf, InValues(n, l, h, 0), o + 1)
      <4>1. 0 \in 0..m /\ o + 1 = DirectiveOff(conf, n, l, h - 1) + 1 + 0
        BY <1>5, <3>1, <3>2
      <4> QED BY <3>1, <4>1 DEF At
    <3>5. o + 1 <= Len(f)
      <4> HIDE DEF m
      <4> QED BY <1>2, <3>2
    <3> QED BY <3>2, <3>3, <3>4, <3>5 DEF Moves, Leads
  <2>2. CASE d = Len(Block(conf, n, l)) /\ l = 0
    <3>1. Ended(conf, p, n, 0)
      BY <1>5, <2>2 DEF Ended
    <3>2. o = LocationOff(conf, n, 0)
      BY <1>1, <1>5, <2>2 DEF ServersLaid
    <3> QED BY <2>2, <3>1, <3>2, MovesFromEnded
  <2>3. CASE d = Len(Block(conf, n, l)) /\ l # 0
    <3>1. l \in 1..Len(conf[n].locations)
      BY <2>0, <2>3
    <3>2. o \in Nat /\ f[o + 1] = "}" /\ LocationOff(conf, n, l) = o + 1 /\ o + 1 <= Len(f)
      BY <1>1, <1>5, <2>3, <3>1 DEF LocationsLaid, LocationLaid
    <3>3. ClosesLocation(conf, p, Behind(n, l), "CLOSE_BRACKET", f[o + 1])
      BY <1>5, <2>3, <3>1, <3>2 DEF ClosesLocation
    <3>4. At(conf, Behind(n, l), o + 1)
      BY <3>1, <3>2 DEF At
    <3> QED BY <3>2, <3>3, <3>4 DEF Moves, Leads
  <2> QED BY <2>1, <2>2, <2>3
<1>6. ASSUME NEW n \in 1..Len(conf), NEW l \in 0..Len(conf[n].locations),
             NEW d \in 1..Len(Block(conf, n, l)), NEW v \in 0..Len(Block(conf, n, l)[d][2]),
             p = InValues(n, l, d, v), o = DirectiveOff(conf, n, l, d - 1) + 1 + v
      PROVE  Moves(conf, f, p, o)
  <2> DEFINE a == DirectiveOff(conf, n, l, d - 1)
             m == Len(Block(conf, n, l)[d][2])
             g == DirectiveOff(conf, n, l, d)
  <2>1. /\ a \in Nat /\ m \in Nat /\ f[a + 1 + m + 1] = ";"
        /\ \A x \in 1..m : f[a + 1 + x] = Block(conf, n, l)[d][2][x]
        /\ g = a + m + 2 /\ a + m + 2 <= Len(f)
    BY <1>1 DEF DirectivesLaid
  <2>2. o = a + 1 + v /\ v \in 0..m
    BY <1>6
  <2> HIDE DEF a, m, g
  <2>3. o \in Nat /\ o + 1 <= Len(f)
    <3>1. a \in Nat /\ m \in Nat /\ o = a + 1 + v /\ v \in 0..m /\ a + m + 2 <= Len(f) /\ Len(f) \in Nat
      BY <1>2, <2>1, <2>2
    <3> QED BY ONLY <3>1
  <2>4. CASE v # m
    <3> DEFINE h == v + 1
    <3>1. h \in 1..m /\ h - 1 = v /\ o + 1 = a + 1 + h
      <4>1. a \in Nat /\ m \in Nat /\ o = a + 1 + v /\ v \in 0..m /\ v # m /\ h = v + 1
        BY <2>1, <2>2, <2>4
      <4> QED BY ONLY <4>1
    <3> HIDE DEF h
    <3>2. f[o + 1] = Block(conf, n, l)[d][2][h]
      BY <2>1, <3>1
    <3>3. ReadsValue(conf, p, InValues(n, l, d, h), "VALUE", f[o + 1])
      BY <1>6, <3>1, <3>2 DEF ReadsValue, m
    <3>4. At(conf, InValues(n, l, d, h), o + 1)
      <4>1. h \in 0..m
        BY <3>1
      <4> QED BY <3>1, <4>1 DEF At, a, m
    <3> QED BY <2>3, <3>3, <3>4 DEF Moves, Leads
  <2>5. CASE v = m
    <3>1. o + 1 = a + 1 + m + 1 /\ o + 1 = g
      <4>1. a \in Nat /\ m \in Nat /\ o = a + 1 + v /\ v = m /\ g = a + m + 2
        BY <2>1, <2>2, <2>5
      <4> QED BY ONLY <4>1
    <3>2. EndsDirective(conf, p, InBlock(n, l, d), "SEMICOLON", f[o + 1])
      BY <1>6, <2>1, <2>5, <3>1 DEF EndsDirective, m
    <3>3. At(conf, InBlock(n, l, d), o + 1)
      <4>1. d \in 0..Len(Block(conf, n, l))
        BY ServerParts
      <4> QED BY <3>1, <4>1 DEF At, g
    <3> QED BY <2>3, <3>2, <3>3 DEF Moves, Leads
  <2> QED BY <2>4, <2>5
<1>7. ASSUME NEW n \in 1..Len(conf), NEW l \in 1..Len(conf[n].locations),
             \/ p = AtPath(n, l) /\ o = LocationOff(conf, n, l - 1) + 1
             \/ p = AtBracket(n, l) /\ o = LocationOff(conf, n, l - 1) + 2
             \/ p = Behind(n, l) /\ o = LocationOff(conf, n, l)
      PROVE  Moves(conf, f, p, o)
  <2> DEFINE a == LocationOff(conf, n, l - 1)
  <2>1. /\ a \in Nat /\ f[a + 2] = conf[n].locations[l].path /\ f[a + 3] = "{"
        /\ DirectiveOff(conf, n, l, 0) = a + 3 /\ a + 3 <= Len(f)
    BY <1>1 DEF LocationsLaid, LocationLaid
  <2>2. l \in 0..Len(conf[n].locations) /\ l # 0 /\ 0 \in 0..Len(Block(conf, n, l))
    BY ServerParts
  <2>3. CASE p = AtPath(n, l) /\ o = a + 1
    <3> HIDE DEF a
    <3>1. o \in Nat /\ o + 1 = a + 2 /\ o + 1 <= Len(f)
      <4>1. a \in Nat /\ o = a + 1 /\ a + 3 <= Len(f) /\ Len(f) \in Nat
        BY <1>2, <2>1, <2>3
      <4> QED BY ONLY <4>1
    <3>2. ReadsPath(conf, p, AtBracket(n, l), "PATH", f[o + 1])
      BY <2>1, <2>3, <3>1 DEF ReadsPath
    <3>3. At(conf, AtBracket(n, l), o + 1)
      BY <3>1 DEF At, a
    <3> QED BY <3>1, <3>2, <3>3 DEF Moves, Leads
  <2>4. CASE p = AtBracket(n, l) /\ o = a + 2
    <3> HIDE DEF a
    <3>1. o \in Nat /\ o + 1 = a + 3 /\ o + 1 <= Len(f)
      <4>1. a \in Nat /\ o = a + 2 /\ a + 3 <= Len(f) /\ Len(f) \in Nat
        BY <1>2, <2>1, <2>4
      <4> QED BY ONLY <4>1
    <3>2. OpensInner(conf, p, InBlock(n, l, 0), "OPEN_BRACKET", f[o + 1])
      BY <2>1, <2>4, <3>1 DEF OpensInner
    <3>3. At(conf, InBlock(n, l, 0), o + 1)
      BY <2>1, <2>2, <3>1 DEF At
    <3> QED BY <3>1, <3>2, <3>3 DEF Moves, Leads
  <2>5. CASE p = Behind(n, l) /\ o = LocationOff(conf, n, l)
    <3>1. Ended(conf, p, n, l)
      BY <2>2, <2>5 DEF Ended
    <3> QED BY <2>2, <2>5, <3>1, MovesFromEnded
  <2> QED BY <1>7, <2>3, <2>4, <2>5
<1> QED BY ONLY <1>3, <1>4, <1>5, <1>6, <1>7, At(conf, p, o) DEF At

Places ==
  [at : {"top", "server", "block", "values", "path", "bracket", "rest"},
   server : Nat, location : Nat, directive : Nat, value : Nat]

\* Where a word leads to, and its kind.
LEMMA LeadsType ==
  ASSUME NEW conf \in Seq(Server), NEW p, NEW q, NEW k, NEW w, Leads(conf, p, q, k, w)
  PROVE  q \in Places /\ k \in Kinds
<1>0. /\ Len(conf) \in Nat
      /\ \A n \in 1..Len(conf) :
           /\ Len(conf[n].locations) \in Nat
           /\ \A l \in 0..Len(conf[n].locations) : Len(Block(conf, n, l)) \in Nat
  BY ServersType, ServerParts
<1>1. \A at \in {"top", "server", "block", "values", "path", "bracket", "rest"} :
        \A n, l, d, v \in Nat : Place(at, n, l, d, v) \in Places
  BY DEF Place, Places
<1>2. \A n \in 1..Len(conf) :
        /\ Top(n) \in Places /\ Opened(n) \in Places
        /\ \A l \in 0..Len(conf[n].locations) :
             /\ AtPath(n, l) \in Places /\ AtBracket(n, l) \in Places /\ Behind(n, l) \in Places
             /\ \A d, v \in Nat : InBlock(n, l, d) \in Places /\ InValues(n, l, d, v) \in Places
  BY <1>0, <1>1 DEF Top, Opened, InBlock, InValues, AtPath, AtBracket, Behind
<1>3. \A n \in 1..Len(conf) : n \in Nat /\ 1..Len(conf[n].locations) \subseteq 0..Len(conf[n].locations)
  BY <1>0
<1>4. k \in Kinds
  BY DEF Leads, OpensServer, OpensBlock, ReadsKey, ReadsValue, EndsDirective, OpensLocation, ReadsPath,
         OpensInner, ClosesLocation, ClosesServer, Kinds
<1>5. CASE OpensServer(conf, p, q, k, w) \/ OpensBlock(conf, p, q, k, w) \/ ClosesServer(conf, p, q, k, w)
  <2>1. 0 \in Nat /\ \A n \in 1..Len(conf) : 0 \in 0..Len(conf[n].locations)
    BY <1>0
  <2> QED BY <1>2, <1>4, <1>5, <2>1 DEF OpensServer, OpensBlock, ClosesServer
<1>6. CASE ReadsKey(conf, p, q, k, w)
  <2>1. PICK n \in 1..Len(conf) : \E l \in 0..Len(conf[n].locations) : \E d \in 1..Len(Block(conf, n, l)) :
          q = InValues(n, l, d, 0)
    BY <1>6 DEF ReadsKey
  <2>3. PICK l \in 0..Len(conf[n].locations) : \E d \in 1..Len(Block(conf, n, l)) : q = InValues(n, l, d, 0)
    BY <2>1
  <2>4. PICK d \in 1..Len(Block(conf, n, l)) : q = InValues(n, l, d, 0)
    BY <2>3
  <2>2. d \in Nat /\ 0 \in Nat
    BY <1>0
  <2> QED BY <1>2, <1>4, <2>4, <2>2
<1>7. CASE ReadsValue(conf, p, q, k, w)
  <2>1. PICK n \in 1..Len(conf) : \E l \in 0..Len(conf[n].locations) : \E d \in 1..Len(Block(conf, n, l)) :
          \E v \in 1..Len(Block(conf, n, l)[d][2]) : q = InValues(n, l, d, v)
    BY <1>7 DEF ReadsValue
  <2>3. PICK l \in 0..Len(conf[n].locations) : \E d \in 1..Len(Block(conf, n, l)) :
          \E v \in 1..Len(Block(conf, n, l)[d][2]) : q = InValues(n, l, d, v)
    BY <2>1
  <2>4. PICK d \in 1..Len(Block(conf, n, l)) :
          \E v \in 1..Len(Block(conf, n, l)[d][2]) : q = InValues(n, l, d, v)
    BY <2>3
  <2>5. PICK v \in 1..Len(Block(conf, n, l)[d][2]) : q = InValues(n, l, d, v)
    BY <2>4
  <2>2. d \in Nat /\ v \in Nat
    <3>1. Block(conf, n, l)[d] \in Directive
      BY ServerParts
    <3>2. Len(Block(conf, n, l)[d][2]) \in Nat
      BY <3>1, DirectiveParts
    <3> QED BY <1>0, <3>2
  <2> QED BY <1>2, <1>4, <2>5, <2>2
<1>8. CASE EndsDirective(conf, p, q, k, w)
  <2>1. PICK n \in 1..Len(conf) : \E l \in 0..Len(conf[n].locations) : \E d \in 1..Len(Block(conf, n, l)) :
          q = InBlock(n, l, d)
    BY <1>8 DEF EndsDirective
  <2>3. PICK l \in 0..Len(conf[n].locations) : \E d \in 1..Len(Block(conf, n, l)) : q = InBlock(n, l, d)
    BY <2>1
  <2>4. PICK d \in 1..Len(Block(conf, n, l)) : q = InBlock(n, l, d)
    BY <2>3
  <2>2. d \in Nat
    BY <1>0
  <2> QED BY <1>2, <1>4, <2>4, <2>2
<1>9. CASE \/ OpensLocation(conf, p, q, k, w) \/ ReadsPath(conf, p, q, k, w) \/ OpensInner(conf, p, q, k, w)
           \/ ClosesLocation(conf, p, q, k, w)
  <2>1. PICK n \in 1..Len(conf) : \E l \in 1..Len(conf[n].locations) :
          q \in {AtPath(n, l), AtBracket(n, l), InBlock(n, l, 0), Behind(n, l)}
    BY <1>9 DEF OpensLocation, ReadsPath, OpensInner, ClosesLocation
  <2>3. PICK l \in 1..Len(conf[n].locations) :
          q \in {AtPath(n, l), AtBracket(n, l), InBlock(n, l, 0), Behind(n, l)}
    BY <2>1
  <2>2. l \in 0..Len(conf[n].locations) /\ 0 \in Nat
    BY <1>3
  <2> QED BY <1>2, <1>4, <2>3, <2>2
<1> QED BY <1>5, <1>6, <1>7, <1>8, <1>9 DEF Leads

\* The words of a file lead from place to place.
LEMMA WalkExists ==
  ASSUME NEW conf \in Seq(Server)
  PROVE  IsWalk(conf, Walk(conf))
<1> DEFINE f == Render(conf)
           X == [place : Places, kind : Kinds]
           Good(j, y, z) == Leads(conf, y.place, z.place, z.kind, f[j]) /\ At(conf, z.place, j)
<1>0. Len(f) \in Nat
  BY ServersLie
<1> DEFINE G == [a \in (1..Len(f)) \X X |->
                   IF \E z \in X : Good(a[1], a[2], z) THEN CHOOSE z \in X : Good(a[1], a[2], z) ELSE a[2]]
           x == [place |-> Top(0), kind |-> "SERVER"]
<1>1. x \in X
  BY DEF Places, Kinds, Top, Place
<1>2. \A j \in 1..Len(f) : \A y \in X :
        /\ G[<<j, y>>] \in X
        /\ (\E z \in X : Good(j, y, z)) => Good(j, y, G[<<j, y>>])
  <2> SUFFICES ASSUME NEW j \in 1..Len(f), NEW y \in X
               PROVE  /\ G[<<j, y>>] \in X
                      /\ (\E z \in X : Good(j, y, z)) => Good(j, y, G[<<j, y>>])
    OBVIOUS
  <2>1. G[<<j, y>>] = IF \E z \in X : Good(j, y, z) THEN CHOOSE z \in X : Good(j, y, z) ELSE y
    <3>1. <<j, y>> \in (1..Len(f)) \X X /\ <<j, y>>[1] = j /\ <<j, y>>[2] = y
      OBVIOUS
    <3> HIDE DEF X, Good
    <3> QED BY <3>1
  <2> HIDE DEF X, Good, G
  <2> QED BY <2>1
<1> HIDE DEF G, x
<1>3. Iterated(X, Len(f), x, G)
  <2> HIDE DEF X, f, Good
  <2>1. \A j \in 1..Len(f) : \A y \in X : G[<<j, y>>] \in X
    BY ONLY <1>2
  <2> QED BY ONLY <1>0, <1>1, <2>1, Iteration
<1>4. PICK w \in [0..Len(f) -> X] : w[0] = x /\ \A j \in 1..Len(f) : w[j] = G[<<j, w[j - 1]>>]
  BY <1>3 DEF Iterated
<1> DEFINE T == {j \in 0..Len(f) : At(conf, w[j].place, j)}
<1>5. \A j \in 0..Len(f) - 1 : j \in T => /\ j + 1 \in T
                                          /\ Leads(conf, w[j].place, w[j + 1].place, w[j + 1].kind, f[j + 1])
  <2> SUFFICES ASSUME NEW j \in 0..Len(f) - 1, At(conf, w[j].place, j)
               PROVE  /\ At(conf, w[j + 1].place, j + 1)
                      /\ Leads(conf, w[j].place, w[j + 1].place, w[j + 1].kind, f[j + 1])
    BY <1>0
  <2>1. Moves(conf, f, w[j].place, j)
    BY Advance
  <2>2. j + 1 \in 1..Len(f) /\ j + 1 <= Len(f) /\ j # Len(f) /\ j \in 0..Len(f) /\ (j + 1) - 1 = j
    BY <1>0
  <2>3. PICK q, k : Leads(conf, w[j].place, q, k, f[j + 1]) /\ At(conf, q, j + 1)
    BY <2>1, <2>2 DEF Moves
  <2>4. q \in Places /\ k \in Kinds
    BY <2>3, LeadsType
  <2> DEFINE z == [place |-> q, kind |-> k]
             y == w[j]
             h == j + 1
  <2>5. z \in X /\ z.place = q /\ z.kind = k
    BY <2>4
  <2>6. y \in X
    BY <2>2
  <2> HIDE DEF z, X
  <2>7. Good(h, y, z)
    BY <2>3, <2>5
  <2>8. Good(h, y, G[<<h, y>>])
    <3> HIDE DEF Good, y, h
    <3>1. h \in 1..Len(f)
      BY <2>2 DEF h
    <3> QED BY ONLY <1>2, <2>5, <2>6, <2>7, <3>1
  <2>9. w[h] = G[<<h, y>>]
    BY <1>4, <2>2
  <2> QED BY ONLY <2>8, <2>9
<1>6. 0 \in T
  <2>1. At(conf, Top(0), 0)
    <3>1. ServerOff(conf, 0) = 0 /\ Len(conf) \in Nat
      BY ServersLie, ServersType
    <3>2. 0 \in 0..Len(conf)
      BY <3>1
    <3> QED BY <3>1, <3>2 DEF At
  <2> QED BY <1>0, <1>4, <2>1 DEF x
<1>7. 0..Len(f) \subseteq T
  <2> HIDE DEF T
  <2>1. \A j \in 0..Len(f) - 1 : j \in T => j + 1 \in T
    BY ONLY <1>5
  <2> QED BY ONLY <1>0, <1>6, <2>1, Climb
<1>8. w[Len(f)].place = Top(Len(conf))
  <2>1. At(conf, w[Len(f)].place, Len(f))
    BY <1>0, <1>7
  <2>2. Moves(conf, f, w[Len(f)].place, Len(f))
    BY <2>1, Advance
  <2>3. ~(Len(f) + 1 <= Len(f))
    BY <1>0
  <2> QED BY <2>2, <2>3 DEF Moves
<1>9. \A j \in 1..Len(f) : Leads(conf, w[j - 1].place, w[j].place, w[j].kind, f[j])
  <2> SUFFICES ASSUME NEW j \in 1..Len(f)
               PROVE  Leads(conf, w[j - 1].place, w[j].place, w[j].kind, f[j])
    OBVIOUS
  <2>1. j - 1 \in 0..Len(f) - 1 /\ j - 1 \in 0..Len(f) /\ (j - 1) + 1 = j
    BY <1>0
  <2>2. Leads(conf, w[j - 1].place, w[(j - 1) + 1].place, w[(j - 1) + 1].kind, f[(j - 1) + 1])
    BY <1>5, <1>7, <2>1
  <2> QED BY ONLY <2>1, <2>2
<1>10. IsWalk(conf, w)
  BY <1>0, <1>4, <1>8, <1>9 DEF IsWalk, x
<1> QED BY <1>10 DEF Walk

-----------------------------------------------------------------------------
(* What each pass has done at a place. *)

\* _tokenState.
StateAt(p) ==
  IF p.at = "server" \/ p = Top(0) THEN "SERVER"
  ELSE IF p.at = "path" THEN "LOCATION"
  ELSE IF p.at = "bracket" THEN "PATH"
  ELSE IF p.at = "values" THEN "VALUE"
  ELSE "KEY"

\* The kind of the word that was read last.
KindAt(p) ==
  IF p = Top(0) THEN None
  ELSE IF p.at = "server" THEN "SERVER"
  ELSE IF p.at = "path" THEN "LOCATION"
  ELSE IF p.at = "bracket" THEN "PATH"
  ELSE IF p.at = "values" THEN IF p.value = 0 THEN "KEY" ELSE "VALUE"
  ELSE IF p.at = "block" THEN IF p.directive = 0 THEN "OPEN_BRACKET" ELSE "SEMICOLON"
  ELSE "CLOSE_BRACKET"

\* The blocks that are open, and the stack of them.
Depth(p) ==
  IF p.at = "top" THEN 0
  ELSE IF p.at \in {"path", "bracket"} \/ (p.at \in {"block", "values"} /\ p.location # 0) THEN 2
  ELSE 1
OuterName == <<"SERVER">>
OuterOpen == <<"SERVER", "OPEN_BRACKET">>
InnerName == <<"SERVER", "OPEN_BRACKET", "LOCATION">>
InnerOpen == <<"SERVER", "OPEN_BRACKET", "LOCATION", "OPEN_BRACKET">>
StackAt(p) ==
  IF p.at = "top" THEN <<>>
  ELSE IF p.at = "server" THEN OuterName
  ELSE IF p.at \in {"path", "bracket"} THEN InnerName
  ELSE IF p.at = "rest" \/ p.location = 0 THEN OuterOpen
  ELSE InnerOpen

BlockName(l) == IF l = 0 THEN "SERVER" ELSE "LOCATION"

\* The block l of server n is over; its d-th directive is read.
Passed(p, n, l) ==
  \/ n < p.server
  \/ n = p.server /\ (p.at = "top" \/ l < p.location \/ (l = p.location /\ p.at = "rest"))
Met(p, n, l, d) ==
  \/ Passed(p, n, l)
  \/ n = p.server /\ l = p.location /\ p.at \in {"block", "values"} /\ d <= p.directive

\* The d-th key is known and new.
KeyFits(conf, n, l, d) ==
  /\ Block(conf, n, l)[d][1] \in KeysOf(BlockName(l))
  /\ \A x \in 1..d - 1 : Block(conf, n, l)[x][1] # Block(conf, n, l)[d][1]

\* The keys of its first d directives, and the table they are in.
KeysAt(conf, n, l, d) == {Block(conf, n, l)[x][1] : x \in 1..d}
TableOf(l) == IF l = 0 THEN "server" ELSE "location"

KeysMet(conf, p) ==
  \A n \in 1..Len(conf) : \A l \in 0..Len(conf[n].locations) : \A d \in 1..Len(Block(conf, n, l)) :
    Met(p, n, l, d) => KeyFits(conf, n, l, d)

PortsMet(conf, p) ==
  \A n \in 1..Len(conf) : \A d \in 1..Len(Block(conf, n, 0)) :
    Met(p, n, 0, d) /\ Block(conf, n, 0)[d][1] = "listen" => ToSet(Block(conf, n, 0)[d][2]) \subseteq Ports

First(s, k) == [m \in 1..k |-> s[m]]

\* What the first d directives set.
GivenOf(k, ds, d) ==
  LET ours == {n \in 1..d : ds[n][1] = k}
      vs   == ds[Min(ours)][2]
  IN  IF ours = {} THEN <<>> ELSE IF k \in ListKeys THEN vs ELSE <<Last(vs)>>
GivenTo(keys, ds, d) == [k \in keys |-> GivenOf(k, ds, d)]

-----------------------------------------------------------------------------
(* The invariants of the passes, at the place p of the walk w. *)

Listing(w) ==
  /\ tokenState = StateAt(w[i - 1].place)
  /\ \A j \in 1..i - 1 : check[j] = w[j].kind

Kinded(w) == Len(check) = Len(file) /\ \A j \in 1..Len(file) : check[j] = w[j].kind

Unopened == bracket = <<>> /\ stackState = None /\ blockCount = 0

Matching(p) ==
  /\ bracket = StackAt(p) /\ blockCount = Depth(p)
  /\ stackState = IF Depth(p) = 0 THEN None ELSE IF Depth(p) = 1 THEN "SERVER" ELSE "LOCATION"

Comparing(conf, p) ==
  /\ KeysMet(conf, p)
  /\ p.at \notin {"top", "rest"} =>
       /\ block = BlockName(p.location)
       /\ table[TableOf(p.location)] = KeysAt(conf, p.server, p.location, p.directive)

\* The server with d of its directives and l locations; a location with d of its directives.
Served(conf, n, d, l) ==
  [values    |-> GivenTo(ServerKeys, Block(conf, n, 0), d),
   locations |-> First(Meaning(conf)[n].locations, l)]
Located(conf, n, l, path, d) == [path |-> path, values |-> GivenTo(LocationKeys, Block(conf, n, l), d)]

\* How many directives the server has outside its locations.
Own(conf, n) == Len(Block(conf, n, 0))

BuiltAt(conf, p, b, srv, loc, ss) ==
  /\ p.at # "values"
  /\ b = IF p.at \in {"top", "rest"} THEN "SERVER" ELSE BlockName(p.location)
  /\ ss = First(Meaning(conf), IF p.at = "top" THEN p.server ELSE p.server - 1)
  /\ p.at # "top" =>
       srv = Served(conf, p.server, IF p.location = 0 THEN p.directive ELSE Own(conf, p.server),
                    IF p.location = 0 \/ p.at = "rest" THEN p.location ELSE p.location - 1)
  /\ p.at \notin {"top", "rest"} /\ p.location # 0 =>
       loc = Located(conf, p.server, p.location,
                     IF p.at = "path" THEN None ELSE conf[p.server].locations[p.location].path, p.directive)
Building(conf, p) == PortsMet(conf, p) /\ BuiltAt(conf, p, block, server, location, servers)

Tabled == DOMAIN table = {"server", "location"}

Following(conf, w) ==
  /\ phase = "setCheckList" => Listing(w) /\ Unopened
  /\ phase = "checkSyntax"  => Kinded(w) /\ Matching(w[i - 1].place)
  /\ phase = "checkSameKey" => Kinded(w) /\ Comparing(conf, w[i - 1].place)
  /\ phase = "setValue"     => Kinded(w) /\ KeysMet(conf, Top(Len(conf))) /\ Building(conf, w[i - 1].place)
  /\ phase = "done"         => Valid(conf) /\ servers = Meaning(conf)
  /\ phase = "error"        => ~Valid(conf)
  /\ phase # "undefined"
  /\ phase \in {"setCheckList", "checkSyntax", "checkSameKey"} => servers = <<>> /\ Tabled

-----------------------------------------------------------------------------
\* The words of a configuration.
LEMMA PlainInside ==
  ASSUME NEW conf \in Seq(Server), NEW n \in 1..Len(conf)
  PROVE  /\ n \in Nat /\ n # 0 /\ Len(conf[n].locations) \in Nat
         /\ \A l \in 1..Len(conf[n].locations) :
              conf[n].locations[l].path \in Plain /\ l \in 0..Len(conf[n].locations) /\ l # 0
         /\ \A l \in 0..Len(conf[n].locations) : \A d \in 1..Len(Block(conf, n, l)) :
              /\ Block(conf, n, l)[d] \in Directive
              /\ Block(conf, n, l)[d][1] \in Plain
              /\ Len(Block(conf, n, l)[d][2]) \in Nat /\ Len(Block(conf, n, l)[d][2]) > 0
              /\ \A v \in 1..Len(Block(conf, n, l)[d][2]) : Block(conf, n, l)[d][2][v] \in Plain
<1>1. n \in Nat /\ n # 0
  BY ServersType
<1>2. \A l \in 1..Len(conf[n].locations) :
        conf[n].locations[l].path \in Plain /\ l \in 0..Len(conf[n].locations) /\ l # 0
  BY ServerParts DEF Location
<1>3. \A l \in 0..Len(conf[n].locations) : \A d \in 1..Len(Block(conf, n, l)) :
        Block(conf, n, l)[d] \in Directive
  BY ServerParts
<1> QED BY <1>1, <1>2, <1>3, ServerParts, DirectiveParts

\* The parts of a place.
LEMMA PlaceIs ==
  \A n : /\ Top(n).at = "top" /\ Top(n).server = n /\ Top(n).location = 0 /\ Top(n).directive = 0
         /\ Opened(n).at = "server" /\ Opened(n).server = n /\ Opened(n).location = 0 /\ Opened(n).directive = 0
         /\ \A l : /\ AtPath(n, l).at = "path" /\ AtPath(n, l).server = n /\ AtPath(n, l).location = l
                   /\ AtPath(n, l).directive = 0
                   /\ AtBracket(n, l).at = "bracket" /\ AtBracket(n, l).server = n /\ AtBracket(n, l).location = l
                   /\ AtBracket(n, l).directive = 0
                   /\ Behind(n, l).at = "rest" /\ Behind(n, l).server = n /\ Behind(n, l).location = l
                   /\ \A d : /\ InBlock(n, l, d).at = "block" /\ InBlock(n, l, d).server = n
                             /\ InBlock(n, l, d).location = l /\ InBlock(n, l, d).directive = d
                             /\ \A v : /\ InValues(n, l, d, v).at = "values" /\ InValues(n, l, d, v).server = n
                                       /\ InValues(n, l, d, v).location = l /\ InValues(n, l, d, v).directive = d
                                       /\ InValues(n, l, d, v).value = v
BY DEF Place, Top, Opened, InBlock, InValues, AtPath, AtBracket, Behind

\* The state and the kind there.
LEMMA StateIs ==
  /\ StateAt(Top(0)) = "SERVER" /\ KindAt(Top(0)) = None
  /\ \A n : /\ n # 0 => StateAt(Top(n)) = "KEY" /\ KindAt(Top(n)) = "CLOSE_BRACKET"
            /\ StateAt(Opened(n)) = "SERVER" /\ KindAt(Opened(n)) = "SERVER"
            /\ \A l : /\ StateAt(AtPath(n, l)) = "LOCATION" /\ KindAt(AtPath(n, l)) = "LOCATION"
                      /\ StateAt(AtBracket(n, l)) = "PATH" /\ KindAt(AtBracket(n, l)) = "PATH"
                      /\ StateAt(Behind(n, l)) = "KEY" /\ KindAt(Behind(n, l)) = "CLOSE_BRACKET"
                      /\ \A d : /\ StateAt(InBlock(n, l, d)) = "KEY"
                                /\ KindAt(InBlock(n, l, d)) = IF d = 0 THEN "OPEN_BRACKET" ELSE "SEMICOLON"
                                /\ \A v : /\ StateAt(InValues(n, l, d, v)) = "VALUE"
                                          /\ KindAt(InValues(n, l, d, v)) = IF v = 0 THEN "KEY" ELSE "VALUE"
<1>1. \A n : n # 0 => Top(n) # Top(0)
  BY PlaceIs
<1>2. \A n : /\ Opened(n) # Top(0)
             /\ \A l : AtPath(n, l) # Top(0) /\ AtBracket(n, l) # Top(0) /\ Behind(n, l) # Top(0)
                       /\ \A d : InBlock(n, l, d) # Top(0) /\ \A v : InValues(n, l, d, v) # Top(0)
  <2>1. \A p : p.at # "top" => p # Top(0)
    BY PlaceIs
  <2> QED BY <2>1, PlaceIs
<1>3. \A n : n # 0 => StateAt(Top(n)) = "KEY" /\ KindAt(Top(n)) = "CLOSE_BRACKET"
  BY <1>1, PlaceIs DEF StateAt, KindAt
<1>4. \A n : /\ StateAt(Opened(n)) = "SERVER" /\ KindAt(Opened(n)) = "SERVER"
             /\ \A l : /\ StateAt(AtPath(n, l)) = "LOCATION" /\ KindAt(AtPath(n, l)) = "LOCATION"
                       /\ StateAt(AtBracket(n, l)) = "PATH" /\ KindAt(AtBracket(n, l)) = "PATH"
                       /\ StateAt(Behind(n, l)) = "KEY" /\ KindAt(Behind(n, l)) = "CLOSE_BRACKET"
  BY <1>2, PlaceIs DEF StateAt, KindAt
<1>5. \A n, l, d : /\ StateAt(InBlock(n, l, d)) = "KEY"
                   /\ KindAt(InBlock(n, l, d)) = IF d = 0 THEN "OPEN_BRACKET" ELSE "SEMICOLON"
  BY <1>2, PlaceIs DEF StateAt, KindAt
<1>6. \A n, l, d, v : /\ StateAt(InValues(n, l, d, v)) = "VALUE"
                      /\ KindAt(InValues(n, l, d, v)) = IF v = 0 THEN "KEY" ELSE "VALUE"
  BY <1>2, PlaceIs DEF StateAt, KindAt
<1>7. StateAt(Top(0)) = "SERVER" /\ KindAt(Top(0)) = None
  BY DEF StateAt, KindAt
<1> QED BY ONLY <1>3, <1>4, <1>5, <1>6, <1>7

\* The kinds of the words, and the states between them.
LEMMA ClassifyIs ==
  /\ \A s : Classify(s, "server") = <<"SERVER", "SERVER">>
  /\ Classify("SERVER", "{") = <<"OPEN_BRACKET", "KEY">> /\ Classify("PATH", "{") = <<"OPEN_BRACKET", "KEY">>
  /\ Classify("KEY", "location") = <<"LOCATION", "LOCATION">>
  /\ Classify("KEY", "}") = <<"CLOSE_BRACKET", "KEY">>
  /\ Classify("VALUE", ";") = <<"SEMICOLON", "KEY">>
  /\ \A w \in Plain : /\ Classify("KEY", w) = <<"KEY", "VALUE">>
                      /\ Classify("VALUE", w) = <<"VALUE", "VALUE">>
                      /\ Classify("LOCATION", w) = <<"PATH", "PATH">>
<1>1. \A w \in Plain : w # "server" /\ w # "location" /\ w # "{" /\ w # "}" /\ w # ";"
  BY PlainWords
<1> QED BY <1>1 DEF Classify, Word

\* A step of the walk leads, by the kind of its word, from the state and the kind before
\* to those behind it.
StepFits(p, q, k, w) ==
  /\ Classify(StateAt(p), w) = <<k, StateAt(q)>>
  /\ k = KindAt(q) /\ k \in Kinds
  /\ ~Refused(KindAt(p), k)

\* setCheckList and checkSyntax: every word gets the kind and state of its place, and is not refused.
LEMMA StepsFit ==
  ASSUME NEW conf \in Seq(Server), NEW p, NEW q, NEW k, NEW w, Leads(conf, p, q, k, w)
  PROVE  StepFits(p, q, k, w)
<1>0. /\ \A x \in Kinds : None # x
      /\ \A n \in 1..Len(conf) :
           /\ n # 0 /\ 0 \in 0..Len(conf[n].locations)
           /\ \A l \in 1..Len(conf[n].locations) : conf[n].locations[l].path \in Plain
           /\ \A l \in 0..Len(conf[n].locations) : \A d \in 1..Len(Block(conf, n, l)) :
                /\ d # 0 /\ Block(conf, n, l)[d][1] \in Plain
                /\ Len(Block(conf, n, l)[d][2]) # 0
                /\ \A v \in 1..Len(Block(conf, n, l)[d][2]) : Block(conf, n, l)[d][2][v] \in Plain /\ v # 0
  BY PlainInside, NoneIsNone
<1>1. ASSUME NEW n \in 1..Len(conf), p = Top(n - 1), q = Opened(n), k = "SERVER", w = "server"
      PROVE  StepFits(p, q, k, w)
  <2>1. KindAt(p) \in {None, "CLOSE_BRACKET"} /\ StateAt(q) = "SERVER" /\ KindAt(q) = k
    BY <1>0, <1>1, StateIs
  <2>2. Classify(StateAt(p), w) = <<"SERVER", "SERVER">>
    BY <1>0, <1>1, ClassifyIs
  <2> QED BY ONLY <1>0, <1>1, <2>1, <2>2 DEF StepFits, Refused, Kinds
<1>2. ASSUME NEW n \in 1..Len(conf), p = Opened(n), q = InBlock(n, 0, 0), k = "OPEN_BRACKET",
             w = "{"
      PROVE  StepFits(p, q, k, w)
  <2>1. StateAt(p) = "SERVER" /\ KindAt(p) = "SERVER" /\ StateAt(q) = "KEY" /\ KindAt(q) = k
    BY <1>0, <1>2, StateIs
  <2>2. Classify("SERVER", w) = <<"OPEN_BRACKET", "KEY">>
    BY <1>0, <1>2, ClassifyIs
  <2> QED BY ONLY <1>0, <1>2, <2>1, <2>2 DEF StepFits, Refused, Kinds
<1>3. ASSUME NEW n \in 1..Len(conf), NEW l \in 0..Len(conf[n].locations),
             NEW d \in 1..Len(Block(conf, n, l)), p = InBlock(n, l, d - 1),
             q = InValues(n, l, d, 0), k = "KEY", w = Block(conf, n, l)[d][1]
      PROVE  StepFits(p, q, k, w)
  <2>1. StateAt(p) = "KEY" /\ KindAt(p) \in {"OPEN_BRACKET", "SEMICOLON"} /\ StateAt(q) = "VALUE" /\ KindAt(q) = k
    BY <1>0, <1>3, StateIs
  <2>2. Classify("KEY", w) = <<"KEY", "VALUE">>
    BY <1>0, <1>3, ClassifyIs
  <2> QED BY ONLY <1>0, <1>3, <2>1, <2>2 DEF StepFits, Refused, Kinds
<1>4. ASSUME NEW n \in 1..Len(conf), NEW l \in 0..Len(conf[n].locations),
             NEW d \in 1..Len(Block(conf, n, l)), NEW v \in 1..Len(Block(conf, n, l)[d][2]),
             p = InValues(n, l, d, v - 1), q = InValues(n, l, d, v), k = "VALUE",
             w = Block(conf, n, l)[d][2][v]
      PROVE  StepFits(p, q, k, w)
  <2>1. StateAt(p) = "VALUE" /\ KindAt(p) \in {"KEY", "VALUE"} /\ StateAt(q) = "VALUE" /\ KindAt(q) = k
    BY <1>0, <1>4, StateIs
  <2>2. Classify("VALUE", w) = <<"VALUE", "VALUE">>
    BY <1>0, <1>4, ClassifyIs
  <2> QED BY ONLY <1>0, <1>4, <2>1, <2>2 DEF StepFits, Refused, Kinds
<1>5. ASSUME NEW n \in 1..Len(conf), NEW l \in 0..Len(conf[n].locations),
             NEW d \in 1..Len(Block(conf, n, l)),
             p = InValues(n, l, d, Len(Block(conf, n, l)[d][2])), q = InBlock(n, l, d),
             k = "SEMICOLON", w = ";"
      PROVE  StepFits(p, q, k, w)
  <2>1. StateAt(p) = "VALUE" /\ KindAt(p) = "VALUE" /\ StateAt(q) = "KEY" /\ KindAt(q) = k
    BY <1>0, <1>5, StateIs
  <2>2. Classify("VALUE", w) = <<"SEMICOLON", "KEY">>
    BY <1>0, <1>5, ClassifyIs
  <2> QED BY ONLY <1>0, <1>5, <2>1, <2>2 DEF StepFits, Refused, Kinds
<1>6. ASSUME NEW n \in 1..Len(conf), NEW l \in 1..Len(conf[n].locations),
             Ended(conf, p, n, l - 1), q = AtPath(n, l), k = "LOCATION", w = "location"
      PROVE  StepFits(p, q, k, w)
  <2>1. /\ StateAt(p) = "KEY" /\ KindAt(p) \in {"OPEN_BRACKET", "SEMICOLON", "CLOSE_BRACKET"}
        /\ StateAt(q) = "LOCATION" /\ KindAt(q) = k
    BY <1>0, <1>6, StateIs DEF Ended
  <2>2. Classify("KEY", w) = <<"LOCATION", "LOCATION">>
    BY <1>0, <1>6, ClassifyIs
  <2> QED BY ONLY <1>0, <1>6, <2>1, <2>2 DEF StepFits, Refused, Kinds
<1>7. ASSUME NEW n \in 1..Len(conf), NEW l \in 1..Len(conf[n].locations), p = AtPath(n, l),
             q = AtBracket(n, l), k = "PATH", w = conf[n].locations[l].path
      PROVE  StepFits(p, q, k, w)
  <2>1. StateAt(p) = "LOCATION" /\ KindAt(p) = "LOCATION" /\ StateAt(q) = "PATH" /\ KindAt(q) = k
    BY <1>0, <1>7, StateIs
  <2>2. Classify("LOCATION", w) = <<"PATH", "PATH">>
    BY <1>0, <1>7, ClassifyIs
  <2> QED BY ONLY <1>0, <1>7, <2>1, <2>2 DEF StepFits, Refused, Kinds
<1>8. ASSUME NEW n \in 1..Len(conf), NEW l \in 1..Len(conf[n].locations), p = AtBracket(n, l),
             q = InBlock(n, l, 0), k = "OPEN_BRACKET", w = "{"
      PROVE  StepFits(p, q, k, w)
  <2>1. StateAt(p) = "PATH" /\ KindAt(p) = "PATH" /\ StateAt(q) = "KEY" /\ KindAt(q) = k
    BY <1>0, <1>8, StateIs
  <2>2. Classify("PATH", w) = <<"OPEN_BRACKET", "KEY">>
    BY <1>0, <1>8, ClassifyIs
  <2> QED BY ONLY <1>0, <1>8, <2>1, <2>2 DEF StepFits, Refused, Kinds
<1>9. ASSUME NEW n \in 1..Len(conf), NEW l \in 1..Len(conf[n].locations),
             p = InBlock(n, l, Len(Block(conf, n, l))), q = Behind(n, l), k = "CLOSE_BRACKET",
             w = "}"
      PROVE  StepFits(p, q, k, w)
  <2>1. StateAt(p) = "KEY" /\ KindAt(p) \in {"OPEN_BRACKET", "SEMICOLON"} /\ StateAt(q) = "KEY" /\ KindAt(q) = k
    BY <1>0, <1>9, StateIs
  <2>2. Classify("KEY", w) = <<"CLOSE_BRACKET", "KEY">>
    BY <1>0, <1>9, ClassifyIs
  <2> QED BY ONLY <1>0, <1>9, <2>1, <2>2 DEF StepFits, Refused, Kinds
<1>10. ASSUME NEW n \in 1..Len(conf), Ended(conf, p, n, Len(conf[n].locations)), q = Top(n),
              k = "CLOSE_BRACKET", w = "}"
       PROVE  StepFits(p, q, k, w)
  <2>1. /\ StateAt(p) = "KEY" /\ KindAt(p) \in {"OPEN_BRACKET", "SEMICOLON", "CLOSE_BRACKET"}
        /\ StateAt(q) = "KEY" /\ KindAt(q) = k
    <3>1. n # 0
      BY <1>0
    <3>2. StateAt(q) = "KEY" /\ KindAt(q) = k
      BY <1>10, <3>1, StateIs
    <3>3. CASE p = Behind(n, Len(conf[n].locations))
      BY <3>2, <3>3, StateIs
    <3>4. CASE p = InBlock(n, 0, Len(Block(conf, n, 0)))
      BY <3>2, <3>4, StateIs
    <3> QED BY <1>10, <3>3, <3>4 DEF Ended
  <2>2. Classify("KEY", w) = <<"CLOSE_BRACKET", "KEY">>
    BY <1>0, <1>10, ClassifyIs
  <2> QED BY ONLY <1>0, <1>10, <2>1, <2>2 DEF StepFits, Refused, Kinds
<1> QED BY ONLY <1>1, <1>2, <1>3, <1>4, <1>5, <1>6, <1>7, <1>8, <1>9, <1>10, Leads(conf, p, q, k, w)
  DEF Leads, OpensServer, OpensBlock, ReadsKey, ReadsValue, EndsDirective,
      OpensLocation, ReadsPath, OpensInner, ClosesLocation, ClosesServer

-----------------------------------------------------------------------------
\* The file is the rendering of conf, and w the walk through it.
Reading(conf, w) == conf \in Seq(Server) /\ file = Render(conf) /\ IsWalk(conf, w)

\* A walk starts before the first server, ends behind the last, and every word is a step of it.
LEMMA WalkStep ==
  ASSUME NEW conf, NEW w, Reading(conf, w)
  PROVE  /\ Len(file) \in Nat
         /\ w[0].place = Top(0) /\ w[Len(file)].place = Top(Len(conf))
         /\ \A j \in 1..Len(file) :
              /\ Leads(conf, w[j - 1].place, w[j].place, w[j].kind, file[j])
              /\ StepFits(w[j - 1].place, w[j].place, w[j].kind, file[j])
<1>1. \A j \in 1..Len(file) : Leads(conf, w[j - 1].place, w[j].place, w[j].kind, file[j])
  BY DEF Reading, IsWalk
<1>2. \A j \in 1..Len(file) : StepFits(w[j - 1].place, w[j].place, w[j].kind, file[j])
  BY <1>1, StepsFit DEF Reading
<1> QED BY <1>1, <1>2 DEF Reading, IsWalk

\* setCheckList gives every word its kind.
LEMMA ListPass ==
  ASSUME NEW conf, NEW w, Reading(conf, w), TypeOK, phase = "setCheckList", Listing(w), SetCheckList,
         UNCHANGED file
  PROVE  /\ UNCHANGED <<brackets, table, values>>
         /\ \/ phase' = "setCheckList" /\ Listing(w)'
            \/ phase' = "checkSyntax" /\ i' = 1 /\ Kinded(w)'
<1>1. /\ Len(file) \in Nat /\ i \in 1..Len(file) + 1 /\ Len(check) = i - 1 /\ check \in Seq(Kinds)
  BY WalkStep DEF TypeOK
<1>2. CASE InPass("setCheckList")
  <2> DEFINE q == w[i].place
             k == w[i].kind
             h == i - 1
  <2>1. i \in 1..Len(file) /\ h \in Nat
    BY <1>1, <1>2 DEF InPass
  <2>2. Classify(tokenState, file[i]) = <<k, StateAt(q)>> /\ k \in Kinds
    BY <2>1, WalkStep DEF Listing, StepFits
  <2>3. StateAt(q) \in States
    BY DEF StateAt, States
  <2>4. Classify(tokenState, file[i]) # None
    BY <2>2, <2>3, NoneIsNone
  <2>5. /\ check' = Append(check, k) /\ tokenState' = StateAt(q) /\ i' = i + 1
        /\ UNCHANGED <<phase, brackets, block, table, values>>
    <3> DEFINE c == Classify(tokenState, file[i])
               t == StateAt(q)
    <3>1. \/ c = None /\ Throw
          \/ /\ c # None /\ check' = Append(check, c[1]) /\ tokenState' = c[2] /\ i' = i + 1
             /\ UNCHANGED <<phase, brackets, block, table, values>>
      <4>1. ~AtEnd("setCheckList")
        BY <1>1, <1>2 DEF AtEnd, InPass
      <4> HIDE DEF k, q
      <4> QED BY <4>1 DEF SetCheckList
    <3> HIDE DEF c, k, t
    <3>2. c = <<k, t>>
      BY <2>2 DEF c, k, t
    <3>3. c[1] = k /\ c[2] = t
      BY ONLY <3>2
    <3>4. c # None
      BY <2>4 DEF c
    <3> QED BY ONLY <3>1, <3>3, <3>4 DEF t
  <2>6. \A j \in 1..i' - 1 : check'[j] = w[j].kind
    <3>1. /\ \A j \in 1..h : check'[j] = check[j]
          /\ check'[h + 1] = k
      <4> HIDE DEF k
      <4>1. Len(check) = h
        BY <1>1
      <4> HIDE DEF h
      <4> QED BY <1>1, <2>2, <2>5, <4>1
    <3>2. \A j \in 1..h : check[j] = w[j].kind
      BY DEF Listing
    <3>3. \A j \in 1..i' - 1 : j \in 1..h \/ j = i
      BY <2>1, <2>5
    <3>4. h + 1 = i
      BY <2>1
    <3> QED BY <3>1, <3>2, <3>3, <3>4
  <2>7. i' - 1 = i
    BY <2>1, <2>5
  <2> QED BY <1>2, <2>5, <2>6, <2>7 DEF Listing, InPass
<1>3. CASE AtEnd("setCheckList")
  <2>1. Go("checkSyntax") /\ i = Len(file) + 1
    BY <1>1, <1>3 DEF SetCheckList, InPass, AtEnd
  <2>2. phase' = "checkSyntax" /\ i' = 1 /\ UNCHANGED <<check, brackets, table, values>>
    BY <2>1 DEF Go, lists
  <2>3. i - 1 = Len(file)
    BY <1>1, <2>1
  <2>4. Kinded(w)'
    BY <1>1, <2>2, <2>3 DEF Kinded, Listing
  <2> QED BY <2>2, <2>4
<1> QED BY <1>2, <1>3 DEF SetCheckList

\* The word before, as checkSyntax sees it.
LEMMA PrevIs ==
  ASSUME NEW conf, NEW w, Reading(conf, w), Kinded(w), i \in 1..Len(file)
  PROVE  Prev = KindAt(w[i - 1].place)
<1>1. CASE i = 1
  <2>1. i - 1 = 0
    BY <1>1
  <2> QED BY <1>1, <2>1, WalkStep, StateIs DEF Prev
<1>2. CASE i # 1
  <2> DEFINE h == i - 1
  <2>1. h \in 1..Len(file)
    BY <1>2, WalkStep
  <2> HIDE DEF h
  <2>2. check[h] = w[h].kind /\ w[h].kind = KindAt(w[h].place)
    BY <2>1, WalkStep DEF Kinded, StepFits
  <2> QED BY <1>2, <2>2 DEF Prev, h
<1> QED BY <1>1, <1>2

\* The stack at the places.
LEMMA StackIs ==
  /\ \A n : /\ StackAt(Top(n)) = <<>> /\ Depth(Top(n)) = 0
            /\ StackAt(Opened(n)) = OuterName /\ Depth(Opened(n)) = 1
  /\ \A n, l : /\ StackAt(AtPath(n, l)) = InnerName /\ Depth(AtPath(n, l)) = 2
               /\ StackAt(AtBracket(n, l)) = InnerName /\ Depth(AtBracket(n, l)) = 2
               /\ StackAt(Behind(n, l)) = OuterOpen /\ Depth(Behind(n, l)) = 1
  /\ \A n, d : StackAt(InBlock(n, 0, d)) = OuterOpen /\ Depth(InBlock(n, 0, d)) = 1
  /\ \A n, l, d : l # 0 => StackAt(InBlock(n, l, d)) = InnerOpen /\ Depth(InBlock(n, l, d)) = 2
  /\ \A n, l, d, e, v : /\ StackAt(InValues(n, l, d, v)) = StackAt(InBlock(n, l, e))
                        /\ Depth(InValues(n, l, d, v)) = Depth(InBlock(n, l, e))
<1> USE PlaceIs DEF StackAt, Depth
<1>1. \A n : /\ StackAt(Top(n)) = <<>> /\ Depth(Top(n)) = 0
             /\ StackAt(Opened(n)) = OuterName /\ Depth(Opened(n)) = 1
  OBVIOUS
<1>2. \A n, l : /\ StackAt(AtPath(n, l)) = InnerName /\ Depth(AtPath(n, l)) = 2
                /\ StackAt(AtBracket(n, l)) = InnerName /\ Depth(AtBracket(n, l)) = 2
                /\ StackAt(Behind(n, l)) = OuterOpen /\ Depth(Behind(n, l)) = 1
  OBVIOUS
<1>3. \A n, l, d : /\ l = 0 => StackAt(InBlock(n, l, d)) = OuterOpen /\ Depth(InBlock(n, l, d)) = 1
                   /\ l # 0 => StackAt(InBlock(n, l, d)) = InnerOpen /\ Depth(InBlock(n, l, d)) = 2
  OBVIOUS
<1>4. \A n, l, d, v : /\ l = 0 => StackAt(InValues(n, l, d, v)) = OuterOpen /\ Depth(InValues(n, l, d, v)) = 1
                      /\ l # 0 => StackAt(InValues(n, l, d, v)) = InnerOpen /\ Depth(InValues(n, l, d, v)) = 2
  OBVIOUS
<1>5. \A n, l, d, e, v : /\ StackAt(InValues(n, l, d, v)) = StackAt(InBlock(n, l, e))
                         /\ Depth(InValues(n, l, d, v)) = Depth(InBlock(n, l, e))
  BY ONLY <1>3, <1>4
<1> QED BY ONLY <1>1, <1>2, <1>3, <1>5

\* What is appended to n elements.
LEMMA Appended ==
  ASSUME NEW T, NEW a \in Seq(T), NEW x \in T, NEW n, n = Len(a), NEW m, m = n + 1
  PROVE  /\ Append(a, x) \in Seq(T) /\ Len(Append(a, x)) = m /\ Append(a, x)[m] = x
         /\ \A j \in 1..n : Append(a, x)[j] = a[j]
BY AppendProperties

\* Tuples of up to four.
LEMMA TupleSteps ==
  ASSUME NEW s, NEW o, NEW l
  PROVE  /\ Append(<<>>, s) = <<s>> /\ Append(<<s>>, o) = <<s, o>>
         /\ Append(<<s, o>>, l) = <<s, o, l>> /\ Append(<<s, o, l>>, o) = <<s, o, l, o>>
         /\ Len(<<s, o>>) = 2 /\ Len(<<s, o, l, o>>) = 4
         /\ <<s, o>>[1] = s /\ <<s, o>>[2] = o /\ <<s, o, l, o>>[3] = l /\ <<s, o, l, o>>[4] = o
         /\ SubSeq(<<s, o>>, 1, 0) = <<>> /\ SubSeq(<<s, o, l, o>>, 1, 2) = <<s, o>>
<1>1. Append(<<>>, s) = <<s>>
  OBVIOUS
<1> DEFINE T == {s, o, l}
           a == <<s>>
           b == <<s, o>>
           c == <<s, o, l>>
           e == <<s, o, l, o>>
<1>2. /\ s \in T /\ o \in T /\ l \in T
      /\ a \in Seq(T) /\ Len(a) = 1 /\ a[1] = s
      /\ b \in Seq(T) /\ Len(b) = 2 /\ b[1] = s /\ b[2] = o
      /\ c \in Seq(T) /\ Len(c) = 3 /\ c[1] = s /\ c[2] = o /\ c[3] = l
      /\ e \in Seq(T) /\ Len(e) = 4 /\ e[1] = s /\ e[2] = o /\ e[3] = l /\ e[4] = o
  OBVIOUS
<1>5. Len(<<s, o>>) = 2 /\ Len(<<s, o, l, o>>) = 4
  OBVIOUS
<1>6. <<s, o>>[1] = s /\ <<s, o>>[2] = o /\ <<s, o, l, o>>[3] = l /\ <<s, o, l, o>>[4] = o
  OBVIOUS
<1>7. SubSeq(<<s, o>>, 1, 0) = <<>>
  OBVIOUS
<1> HIDE DEF T, a, b, c, e
<1>3. Append(a, o) = b /\ Append(b, l) = c /\ Append(c, o) = e
  <2>1. \A j \in 1..2 : j = 1 \/ j = 2
    OBVIOUS
  <2>2. \A j \in 1..3 : j \in 1..2 \/ j = 3
    OBVIOUS
  <2>3. \A j \in 1..4 : j \in 1..3 \/ j = 4
    OBVIOUS
  <2>4. Append(a, o) \in Seq(T) /\ Len(Append(a, o)) = 2 /\ Append(a, o)[1] = s /\ Append(a, o)[2] = o
    <3>1. /\ Append(a, o) \in Seq(T) /\ Len(Append(a, o)) = 2 /\ Append(a, o)[2] = o
          /\ \A j \in 1..1 : Append(a, o)[j] = a[j]
      <4> DEFINE n == 1
                 m == 2
      <4>1. n = Len(a) /\ m = n + 1 /\ a \in Seq(T) /\ o \in T
        BY <1>2
      <4> HIDE DEF n, m
      <4>2. /\ Append(a, o) \in Seq(T) /\ Len(Append(a, o)) = m /\ Append(a, o)[m] = o
            /\ \A j \in 1..n : Append(a, o)[j] = a[j]
        BY ONLY <4>1, Appended
      <4> QED BY ONLY <4>2 DEF n, m
    <3> QED BY ONLY <1>2, <3>1
  <2>5. /\ Append(b, l) \in Seq(T) /\ Len(Append(b, l)) = 3
        /\ Append(b, l)[1] = s /\ Append(b, l)[2] = o /\ Append(b, l)[3] = l
    <3>1. /\ Append(b, l) \in Seq(T) /\ Len(Append(b, l)) = 3 /\ Append(b, l)[3] = l
          /\ \A j \in 1..2 : Append(b, l)[j] = b[j]
      <4> DEFINE n == 2
                 m == 3
      <4>1. n = Len(b) /\ m = n + 1 /\ b \in Seq(T) /\ l \in T
        BY <1>2
      <4> HIDE DEF n, m
      <4>2. /\ Append(b, l) \in Seq(T) /\ Len(Append(b, l)) = m /\ Append(b, l)[m] = l
            /\ \A j \in 1..n : Append(b, l)[j] = b[j]
        BY ONLY <4>1, Appended
      <4> QED BY ONLY <4>2 DEF n, m
    <3> QED BY ONLY <1>2, <3>1
  <2>6. /\ Append(c, o) \in Seq(T) /\ Len(Append(c, o)) = 4
        /\ Append(c, o)[1] = s /\ Append(c, o)[2] = o /\ Append(c, o)[3] = l /\ Append(c, o)[4] = o
    <3>1. /\ Append(c, o) \in Seq(T) /\ Len(Append(c, o)) = 4 /\ Append(c, o)[4] = o
          /\ \A j \in 1..3 : Append(c, o)[j] = c[j]
      <4> DEFINE n == 3
                 m == 4
      <4>1. n = Len(c) /\ m = n + 1 /\ c \in Seq(T) /\ o \in T
        BY <1>2
      <4> HIDE DEF n, m
      <4>2. /\ Append(c, o) \in Seq(T) /\ Len(Append(c, o)) = m /\ Append(c, o)[m] = o
            /\ \A j \in 1..n : Append(c, o)[j] = c[j]
        BY ONLY <4>1, Appended
      <4> QED BY ONLY <4>2 DEF n, m
    <3> QED BY ONLY <1>2, <3>1
  <2>7. Append(a, o) = b
    BY <1>2, <2>1, <2>4, SeqEqual
  <2>8. Append(b, l) = c
    BY <1>2, <2>1, <2>2, <2>5, SeqEqual, SMTT(30)
  <2>9. Append(c, o) = e
    BY <1>2, <2>1, <2>2, <2>3, <2>6, SeqEqual
  <2> QED BY <2>7, <2>8, <2>9
<1>8. SubSeq(e, 1, 2) = b
  <2> DEFINE z == SubSeq(e, 1, 2)
  <2>1. \A j \in 1..2 : j = 1 \/ j = 2
    OBVIOUS
  <2>2. \A j \in 1..2 : e[j] \in T
    BY <1>2, <2>1
  <2>3. z \in Seq(T) /\ Len(z) = 2 /\ \A j \in 1..2 : z[j] = e[j]
    BY <1>2, <2>2
  <2> HIDE DEF z
  <2>4. \A j \in 1..Len(z) : z[j] = b[j]
    BY <1>2, <2>1, <2>3
  <2>5. z = b
    BY ONLY <1>2, <2>3, <2>4, SeqEqual
  <2> QED BY <2>5 DEF z
<1> QED BY ONLY <1>1, <1>3, <1>5, <1>6, <1>7, <1>8 DEF a, b, c, e

\* Pushing and popping.
LEMMA StackSteps ==
  /\ Append(<<>>, "SERVER") = OuterName /\ Append(OuterName, "OPEN_BRACKET") = OuterOpen
  /\ Append(OuterOpen, "LOCATION") = InnerName /\ Append(InnerName, "OPEN_BRACKET") = InnerOpen
  /\ Len(OuterOpen) = 2 /\ Len(InnerOpen) = 4
  /\ OuterOpen[1] = "SERVER" /\ OuterOpen[2] = "OPEN_BRACKET"
  /\ InnerOpen[3] = "LOCATION" /\ InnerOpen[4] = "OPEN_BRACKET"
  /\ SubSeq(OuterOpen, 1, 0) = <<>> /\ SubSeq(InnerOpen, 1, 2) = OuterOpen
<1> DEFINE s == "SERVER"
           o == "OPEN_BRACKET"
           l == "LOCATION"
<1>1. OuterName = <<s>> /\ OuterOpen = <<s, o>> /\ InnerName = <<s, o, l>> /\ InnerOpen = <<s, o, l, o>>
  BY DEF OuterName, OuterOpen, InnerName, InnerOpen
<1> HIDE DEF s, o, l
<1>2. /\ Append(<<>>, s) = <<s>> /\ Append(<<s>>, o) = <<s, o>>
      /\ Append(<<s, o>>, l) = <<s, o, l>> /\ Append(<<s, o, l>>, o) = <<s, o, l, o>>
      /\ Len(<<s, o>>) = 2 /\ Len(<<s, o, l, o>>) = 4
      /\ <<s, o>>[1] = s /\ <<s, o>>[2] = o /\ <<s, o, l, o>>[3] = l /\ <<s, o, l, o>>[4] = o
      /\ SubSeq(<<s, o>>, 1, 0) = <<>> /\ SubSeq(<<s, o, l, o>>, 1, 2) = <<s, o>>
  BY ONLY TupleSteps
<1>3. /\ Append(<<>>, s) = OuterName /\ Append(OuterName, o) = OuterOpen
      /\ Append(OuterOpen, l) = InnerName /\ Append(InnerName, o) = InnerOpen
      /\ Len(OuterOpen) = 2 /\ Len(InnerOpen) = 4
      /\ OuterOpen[1] = s /\ OuterOpen[2] = o
      /\ InnerOpen[3] = l /\ InnerOpen[4] = o
      /\ SubSeq(OuterOpen, 1, 0) = <<>> /\ SubSeq(InnerOpen, 1, 2) = OuterOpen
  BY ONLY <1>1, <1>2, Zenon
<1> QED BY ONLY <1>3 DEF s, o, l

\* checkSyntax's step.
Matched(q) == i' = i + 1 /\ UNCHANGED <<phase, lists, block, table, values>> /\ Matching(q)'

\* checkSyntax: what a word does to the stack is what the place behind it says.
LEMMA MatchStep ==
  ASSUME NEW conf \in Seq(Server), NEW p, NEW q, NEW k, NEW w, Leads(conf, p, q, k, w), Matching(p),
         CASE k \in {"SERVER", "LOCATION", "OPEN_BRACKET"} -> Push(k)
           [] k = "CLOSE_BRACKET" -> Pop
           [] OTHER -> i' = i + 1 /\ UNCHANGED <<phase, lists, brackets, block, table, values>>
  PROVE  Matched(q)
<1>0. /\ None # "SERVER" /\ None # "LOCATION"
      /\ \A n \in 1..Len(conf) :
           0 \in 0..Len(conf[n].locations) /\ \A l \in 1..Len(conf[n].locations) : l # 0
  BY PlainInside, NoneIsNone DEF Kinds
<1>a. /\ k \in {"SERVER", "LOCATION", "OPEN_BRACKET"} => Push(k)
      /\ k = "CLOSE_BRACKET" => Pop
      /\ k \in {"KEY", "VALUE", "SEMICOLON", "PATH"} =>
           i' = i + 1 /\ UNCHANGED <<phase, lists, brackets, block, table, values>>
  OBVIOUS
<1>b. Matching(p)
  OBVIOUS
<1>1. ASSUME NEW n \in 1..Len(conf), p = Top(n - 1), q = Opened(n), k = "SERVER", w = "server"
      PROVE  Matched(q)
  <2>1. /\ StackAt(p) = <<>> /\ Depth(p) = 0
        /\ StackAt(q) = OuterName /\ Depth(q) = 1
    BY ONLY <1>0, <1>1, StackIs
  <2>2. Push("SERVER")
    BY <1>a, <1>1
  <2>3. Append(<<>>, "SERVER") = OuterName
    BY StackSteps
  <2> QED BY ONLY <1>0, <1>b, <2>1, <2>2, <2>3 DEF Push, Matching, Matched
<1>2. ASSUME NEW n \in 1..Len(conf), p = Opened(n), q = InBlock(n, 0, 0), k = "OPEN_BRACKET",
             w = "{"
      PROVE  Matched(q)
  <2>1. /\ StackAt(p) = OuterName /\ Depth(p) = 1
        /\ StackAt(q) = OuterOpen /\ Depth(q) = 1
    BY ONLY <1>0, <1>2, StackIs
  <2>2. Push("OPEN_BRACKET")
    BY <1>a, <1>2
  <2>3. Append(OuterName, "OPEN_BRACKET") = OuterOpen
    BY StackSteps
  <2> QED BY ONLY <1>0, <1>b, <2>1, <2>2, <2>3 DEF Push, Matching, Matched
<1>3. ASSUME NEW n \in 1..Len(conf), NEW l \in 0..Len(conf[n].locations),
             NEW d \in 1..Len(Block(conf, n, l)), p = InBlock(n, l, d - 1),
             q = InValues(n, l, d, 0), k = "KEY", w = Block(conf, n, l)[d][1]
      PROVE  Matched(q)
  <2>1. StackAt(q) = StackAt(p) /\ Depth(q) = Depth(p)
    BY ONLY <1>3, StackIs
  <2>2. i' = i + 1 /\ UNCHANGED <<phase, lists, brackets, block, table, values>>
    BY <1>a, <1>3
  <2> QED BY ONLY <1>b, <2>1, <2>2 DEF Matching, Matched, brackets
<1>4. ASSUME NEW n \in 1..Len(conf), NEW l \in 0..Len(conf[n].locations),
             NEW d \in 1..Len(Block(conf, n, l)), NEW v \in 1..Len(Block(conf, n, l)[d][2]),
             p = InValues(n, l, d, v - 1), q = InValues(n, l, d, v), k = "VALUE",
             w = Block(conf, n, l)[d][2][v]
      PROVE  Matched(q)
  <2>1. StackAt(q) = StackAt(p) /\ Depth(q) = Depth(p)
    <3>1. /\ StackAt(InValues(n, l, d, v - 1)) = StackAt(InBlock(n, l, d))
          /\ Depth(InValues(n, l, d, v - 1)) = Depth(InBlock(n, l, d))
          /\ StackAt(InValues(n, l, d, v)) = StackAt(InBlock(n, l, d))
          /\ Depth(InValues(n, l, d, v)) = Depth(InBlock(n, l, d))
      BY ONLY StackIs
    <3> QED BY ONLY <1>4, <3>1
  <2>2. i' = i + 1 /\ UNCHANGED <<phase, lists, brackets, block, table, values>>
    BY <1>a, <1>4
  <2> QED BY ONLY <1>b, <2>1, <2>2 DEF Matching, Matched, brackets
<1>5. ASSUME NEW n \in 1..Len(conf), NEW l \in 0..Len(conf[n].locations),
             NEW d \in 1..Len(Block(conf, n, l)),
             p = InValues(n, l, d, Len(Block(conf, n, l)[d][2])), q = InBlock(n, l, d),
             k = "SEMICOLON", w = ";"
      PROVE  Matched(q)
  <2>1. StackAt(q) = StackAt(p) /\ Depth(q) = Depth(p)
    <3> DEFINE m == Len(Block(conf, n, l)[d][2])
    <3>1. p = InValues(n, l, d, m) /\ q = InBlock(n, l, d)
      BY <1>5
    <3> HIDE DEF m
    <3>2. /\ StackAt(InValues(n, l, d, m)) = StackAt(InBlock(n, l, d))
          /\ Depth(InValues(n, l, d, m)) = Depth(InBlock(n, l, d))
      BY ONLY StackIs
    <3> QED BY ONLY <3>1, <3>2
  <2>2. i' = i + 1 /\ UNCHANGED <<phase, lists, brackets, block, table, values>>
    BY <1>a, <1>5
  <2> QED BY ONLY <1>b, <2>1, <2>2 DEF Matching, Matched, brackets
<1>6. ASSUME NEW n \in 1..Len(conf), NEW l \in 1..Len(conf[n].locations),
             Ended(conf, p, n, l - 1), q = AtPath(n, l), k = "LOCATION", w = "location"
      PROVE  Matched(q)
  <2>1. /\ StackAt(p) = OuterOpen /\ Depth(p) = 1
        /\ StackAt(q) = InnerName /\ Depth(q) = 2
    BY ONLY <1>0, <1>6, StackIs DEF Ended
  <2>2. Push("LOCATION")
    BY <1>a, <1>6
  <2>3. Append(OuterOpen, "LOCATION") = InnerName
    BY StackSteps
  <2> QED BY ONLY <1>0, <1>b, <2>1, <2>2, <2>3 DEF Push, Matching, Matched
<1>7. ASSUME NEW n \in 1..Len(conf), NEW l \in 1..Len(conf[n].locations), p = AtPath(n, l),
             q = AtBracket(n, l), k = "PATH", w = conf[n].locations[l].path
      PROVE  Matched(q)
  <2>1. StackAt(q) = StackAt(p) /\ Depth(q) = Depth(p)
    BY ONLY <1>7, StackIs
  <2>2. i' = i + 1 /\ UNCHANGED <<phase, lists, brackets, block, table, values>>
    BY <1>a, <1>7
  <2> QED BY ONLY <1>b, <2>1, <2>2 DEF Matching, Matched, brackets
<1>8. ASSUME NEW n \in 1..Len(conf), NEW l \in 1..Len(conf[n].locations), p = AtBracket(n, l),
             q = InBlock(n, l, 0), k = "OPEN_BRACKET", w = "{"
      PROVE  Matched(q)
  <2>1. /\ StackAt(p) = InnerName /\ Depth(p) = 2
        /\ StackAt(q) = InnerOpen /\ Depth(q) = 2
    <3>1. l # 0
      BY ONLY <1>0, <1>8
    <3>2. /\ StackAt(AtBracket(n, l)) = InnerName /\ Depth(AtBracket(n, l)) = 2
          /\ StackAt(InBlock(n, l, 0)) = InnerOpen /\ Depth(InBlock(n, l, 0)) = 2
      BY ONLY <3>1, StackIs
    <3> QED BY ONLY <1>8, <3>2
  <2>2. Push("OPEN_BRACKET")
    BY <1>a, <1>8
  <2>3. Append(InnerName, "OPEN_BRACKET")
         = InnerOpen
    BY StackSteps
  <2> QED BY ONLY <1>0, <1>b, <2>1, <2>2, <2>3 DEF Push, Matching, Matched
<1>9. ASSUME NEW n \in 1..Len(conf), NEW l \in 1..Len(conf[n].locations),
             p = InBlock(n, l, Len(Block(conf, n, l))), q = Behind(n, l), k = "CLOSE_BRACKET",
             w = "}"
      PROVE  Matched(q)
  <2>1. /\ StackAt(p) = InnerOpen /\ Depth(p) = 2
        /\ StackAt(q) = OuterOpen /\ Depth(q) = 1
    <3>1. l # 0
      BY ONLY <1>0, <1>9
    <3> DEFINE m == Len(Block(conf, n, l))
    <3>2. p = InBlock(n, l, m) /\ q = Behind(n, l)
      BY <1>9
    <3> HIDE DEF m
    <3>3. /\ StackAt(InBlock(n, l, m)) = InnerOpen /\ Depth(InBlock(n, l, m)) = 2
          /\ StackAt(Behind(n, l)) = OuterOpen /\ Depth(Behind(n, l)) = 1
      BY ONLY <3>1, StackIs
    <3> QED BY ONLY <3>2, <3>3
  <2>2. Pop
    BY <1>a, <1>9
  <2>3. /\ Len(InnerOpen) = 4
        /\ InnerOpen[3] = "LOCATION"
        /\ InnerOpen[4] = "OPEN_BRACKET"
        /\ SubSeq(InnerOpen, 1, 2) = OuterOpen
    BY StackSteps
  <2> QED BY ONLY <1>0, <1>b, <2>1, <2>2, <2>3 DEF Pop, Uncounted, Matching, Matched
<1>10. ASSUME NEW n \in 1..Len(conf), Ended(conf, p, n, Len(conf[n].locations)), q = Top(n),
              k = "CLOSE_BRACKET", w = "}"
       PROVE  Matched(q)
  <2>1. /\ StackAt(p) = OuterOpen /\ Depth(p) = 1
        /\ StackAt(q) = <<>> /\ Depth(q) = 0
    <3> DEFINE m == Len(Block(conf, n, 0))
               h == Len(conf[n].locations)
    <3>1. (p = InBlock(n, 0, m) \/ p = Behind(n, h)) /\ q = Top(n)
      BY <1>10 DEF Ended
    <3> HIDE DEF m, h
    <3>2. /\ StackAt(InBlock(n, 0, m)) = OuterOpen /\ Depth(InBlock(n, 0, m)) = 1
          /\ StackAt(Behind(n, h)) = OuterOpen /\ Depth(Behind(n, h)) = 1
          /\ StackAt(Top(n)) = <<>> /\ Depth(Top(n)) = 0
      BY ONLY StackIs
    <3> QED BY ONLY <3>1, <3>2
  <2>2. Pop
    BY <1>a, <1>10
  <2>3. /\ Len(OuterOpen) = 2 /\ OuterOpen[1] = "SERVER"
        /\ OuterOpen[2] = "OPEN_BRACKET" /\ SubSeq(OuterOpen, 1, 0) = <<>>
    BY StackSteps
  <2> QED BY ONLY <1>0, <1>b, <2>1, <2>2, <2>3 DEF Pop, Uncounted, Matching, Matched
<1> QED BY ONLY <1>1, <1>2, <1>3, <1>4, <1>5, <1>6, <1>7, <1>8, <1>9, <1>10, Leads(conf, p, q, k, w)
  DEF Leads, OpensServer, OpensBlock, ReadsKey, ReadsValue, EndsDirective,
      OpensLocation, ReadsPath, OpensInner, ClosesLocation, ClosesServer

\* checkSyntax accepts the kinds of a walk.
LEMMA SyntaxPass ==
  ASSUME NEW conf, NEW w, Reading(conf, w), TypeOK, phase = "checkSyntax", Kinded(w),
         Matching(w[i - 1].place), CheckSyntax, UNCHANGED file
  PROVE  /\ UNCHANGED <<table, values>> /\ Kinded(w)'
         /\ \/ phase' = "checkSyntax" /\ Matching(w[i - 1].place)'
            \/ phase' = "checkSameKey" /\ i' = 1
<1>1. Len(file) \in Nat /\ i \in 1..Len(file) + 1
  BY WalkStep DEF TypeOK
<1>2. CASE InPass("checkSyntax")
  <2>0. PICK p, q, k : p = w[i - 1].place /\ q = w[i].place /\ k = w[i].kind
    OBVIOUS
  <2>1. i \in 1..Len(file)
    BY <1>1, <1>2 DEF InPass
  <2>2. check[i] = k /\ Leads(conf, p, q, k, file[i]) /\ ~Refused(KindAt(p), k)
    BY <2>0, <2>1, WalkStep DEF Kinded, StepFits
  <2>3. Prev = KindAt(p)
    BY <2>0, <2>1, PrevIs
  <2>4. ~AtEnd("checkSyntax")
    BY <1>1, <1>2 DEF AtEnd, InPass
  <2>5. conf \in Seq(Server) /\ Matching(p)
    BY <2>0 DEF Reading
  <2>6. (CASE k \in {"SERVER", "LOCATION", "OPEN_BRACKET"} -> Push(k)
           [] k = "CLOSE_BRACKET" -> Pop
           [] OTHER -> i' = i + 1 /\ UNCHANGED <<phase, lists, brackets, block, table, values>>)
    BY <2>2, <2>3, <2>4 DEF CheckSyntax
  <2>7. Matched(q)
    BY ONLY <2>2, <2>5, <2>6, MatchStep
  <2>8. i' - 1 = i
    BY <2>1, <2>7 DEF Matched
  <2>9. Matching(w[i - 1].place)'
    BY <2>0, <2>7, <2>8 DEF Matched, Matching
  <2>10. Kinded(w)' /\ phase' = "checkSyntax" /\ UNCHANGED <<table, values>>
    BY <1>2, <2>7 DEF Matched, Kinded, lists, InPass
  <2> QED BY <2>9, <2>10
<1>3. CASE AtEnd("checkSyntax")
  <2>1. i - 1 = Len(file) /\ ~InPass("checkSyntax")
    BY <1>1, <1>3 DEF AtEnd, InPass
  <2>2. blockCount = 0
    BY <2>1, WalkStep, StackIs DEF Matching
  <2>3. Go("checkSameKey")
    BY <2>1, <2>2 DEF CheckSyntax
  <2> QED BY <2>3 DEF Go, Kinded, lists
<1> QED BY <1>2, <1>3 DEF CheckSyntax

\* Which directives are met at a place.
LEMMA MetInBlock ==
  ASSUME NEW x, NEW y, NEW z, NEW n, NEW l, NEW d
  PROVE  Met(InBlock(n, l, d), x, y, z) <=> x < n \/ (x = n /\ (y < l \/ (y = l /\ z <= d)))
BY DEF Met, Passed, InBlock, Place

\* The directives met by the time the values of one are read: it, and all before it.
LEMMA MetInValues ==
  ASSUME NEW x, NEW y, NEW z, NEW n, NEW l, NEW d, NEW v
  PROVE  Met(InValues(n, l, d, v), x, y, z) <=> x < n \/ (x = n /\ (y < l \/ (y = l /\ z <= d)))
BY DEF Met, Passed, InValues, Place

\* The directives met at the other places.
LEMMA MetElsewhere ==
  ASSUME NEW x, NEW y, NEW z, NEW n, NEW l
  PROVE  /\ Met(Top(n), x, y, z) <=> x < n \/ x = n
         /\ Met(Opened(n), x, y, z) <=> x < n \/ (x = n /\ y < 0)
         /\ Met(AtPath(n, l), x, y, z) <=> x < n \/ (x = n /\ y < l)
         /\ Met(AtBracket(n, l), x, y, z) <=> x < n \/ (x = n /\ y < l)
         /\ Met(Behind(n, l), x, y, z) <=> x < n \/ (x = n /\ (y < l \/ y = l))
BY DEF Met, Passed, Behind, AtPath, AtBracket, Opened, Top, Place

\* A directive that is met at q and was not met at p is the one whose key leads from p to q.
Meets(conf, p, q, k, w, x, y, z) ==
  Met(q, x, y, z) =>
    \/ Met(p, x, y, z)
    \/ /\ p = InBlock(x, y, z - 1) /\ q = InValues(x, y, z, 0)
       /\ k = "KEY" /\ w = Block(conf, x, y)[z][1]

\* A word meets no directive but the one whose key it is.
LEMMA MeetsKey ==
  ASSUME NEW conf \in Seq(Server), NEW p, NEW q, NEW k, NEW w, Leads(conf, p, q, k, w),
         NEW x \in 1..Len(conf), NEW y \in 0..Len(conf[x].locations), NEW z \in 1..Len(Block(conf, x, y))
  PROVE  Meets(conf, p, q, k, w, x, y, z)
<1>a. \A n \in 1..Len(conf) : /\ Len(conf) \in Nat /\ Len(conf[n].locations) \in Nat
                              /\ \A l \in 0..Len(conf[n].locations) : Len(Block(conf, n, l)) \in Nat
  BY ServerParts, ServersType
<1>b. x \in Nat /\ y \in Nat /\ z \in Nat /\ z # 0 /\ y <= Len(conf[x].locations) /\ z <= Len(Block(conf, x, y))
  BY <1>a
<1>c. /\ \A n \in 1..Len(conf) : n \in Nat /\ n # 0 /\ n - 1 \in Nat
      /\ \A n \in 1..Len(conf) : \A l \in 0..Len(conf[n].locations) :
           l \in Nat /\ \A d \in 1..Len(Block(conf, n, l)) : d \in Nat /\ d # 0 /\ d - 1 \in Nat
      /\ \A n \in 1..Len(conf) : \A l \in 1..Len(conf[n].locations) :
           l \in Nat /\ l # 0 /\ l - 1 \in Nat /\ l \in 0..Len(conf[n].locations)
      /\ 0 \in Nat
  BY <1>a
<1> DEFINE o == 0
<1>d. o \in Nat /\ o = 0
  OBVIOUS
<1> HIDE DEF o
<1>1. ASSUME NEW n \in 1..Len(conf), p = Top(n - 1), q = Opened(n), k = "SERVER", w = "server"
      PROVE  Meets(conf, p, q, k, w, x, y, z)
  <2> DEFINE m == n - 1
  <2>1. p = Top(m)
        /\ q = Opened(n)
    BY <1>1, <1>d
  <2>2. n \in Nat /\ m \in Nat /\ m = n - 1
    BY <1>a, <1>b, <1>c, <1>1
  <2> HIDE DEF m
  <2>3. Met(Top(m), x, y, z) <=> x < m \/ x = m
    BY ONLY MetElsewhere
  <2>4. Met(Opened(n), x, y, z) <=> x < n \/ (x = n /\ y < 0)
    BY ONLY MetElsewhere
  <2>5. Met(q, x, y, z) => Met(p, x, y, z)
    BY ONLY <1>b, <1>d, <2>1, <2>2, <2>3, <2>4
  <2> QED BY ONLY <2>5 DEF Meets
<1>2. ASSUME NEW n \in 1..Len(conf), p = Opened(n), q = InBlock(n, 0, 0), k = "OPEN_BRACKET",
             w = "{"
      PROVE  Meets(conf, p, q, k, w, x, y, z)
  <2>1. p = Opened(n)
        /\ q = InBlock(n, o, o)
    BY <1>2, <1>d
  <2>2. n \in Nat
    BY <1>a, <1>b, <1>c, <1>2
  <2>3. Met(Opened(n), x, y, z) <=> x < n \/ (x = n /\ y < 0)
    BY ONLY MetElsewhere
  <2>4. Met(InBlock(n, o, o), x, y, z) <=> x < n \/ (x = n /\ (y < o \/ (y = o /\ z <= o)))
    BY ONLY MetInBlock
  <2>5. Met(q, x, y, z) => Met(p, x, y, z)
    BY ONLY <1>b, <1>d, <2>1, <2>2, <2>3, <2>4
  <2> QED BY ONLY <2>5 DEF Meets
<1>3. ASSUME NEW n \in 1..Len(conf), NEW l \in 0..Len(conf[n].locations),
             NEW d \in 1..Len(Block(conf, n, l)), p = InBlock(n, l, d - 1),
             q = InValues(n, l, d, 0), k = "KEY", w = Block(conf, n, l)[d][1]
      PROVE  Meets(conf, p, q, k, w, x, y, z)
  <2> DEFINE h == d - 1
  <2>1. p = InBlock(n, l, h) /\ q = InValues(n, l, d, o)
    BY <1>3, <1>d
  <2>2. n \in Nat /\ l \in Nat /\ d \in Nat /\ h \in Nat /\ h = d - 1
    BY <1>a, <1>b, <1>c, <1>3
  <2> HIDE DEF h
  <2>3. Met(InBlock(n, l, h), x, y, z) <=> x < n \/ (x = n /\ (y < l \/ (y = l /\ z <= h)))
    BY ONLY MetInBlock
  <2>4. Met(InValues(n, l, d, o), x, y, z) <=> x < n \/ (x = n /\ (y < l \/ (y = l /\ z <= d)))
    BY ONLY MetInValues
  <2>5. Met(q, x, y, z) => Met(p, x, y, z) \/ (x = n /\ y = l /\ z = d)
    BY ONLY <1>b, <2>1, <2>2, <2>3, <2>4
  <2> QED BY ONLY <1>3, <2>5 DEF Meets
<1>4. ASSUME NEW n \in 1..Len(conf), NEW l \in 0..Len(conf[n].locations),
             NEW d \in 1..Len(Block(conf, n, l)), NEW v \in 1..Len(Block(conf, n, l)[d][2]),
             p = InValues(n, l, d, v - 1), q = InValues(n, l, d, v), k = "VALUE",
             w = Block(conf, n, l)[d][2][v]
      PROVE  Meets(conf, p, q, k, w, x, y, z)
  <2> DEFINE m == v - 1
  <2>1. p = InValues(n, l, d, m)
        /\ q = InValues(n, l, d, v)
    BY <1>4, <1>d
  <2>2. n \in Nat /\ l \in Nat /\ d \in Nat
    BY <1>a, <1>b, <1>c, <1>4
  <2> HIDE DEF m
  <2>3. Met(InValues(n, l, d, m), x, y, z) <=> x < n \/ (x = n /\ (y < l \/ (y = l /\ z <= d)))
    BY ONLY MetInValues
  <2>4. Met(InValues(n, l, d, v), x, y, z) <=> x < n \/ (x = n /\ (y < l \/ (y = l /\ z <= d)))
    BY ONLY MetInValues
  <2>5. Met(q, x, y, z) => Met(p, x, y, z)
    BY ONLY <1>b, <1>d, <2>1, <2>2, <2>3, <2>4
  <2> QED BY ONLY <2>5 DEF Meets
<1>5. ASSUME NEW n \in 1..Len(conf), NEW l \in 0..Len(conf[n].locations),
             NEW d \in 1..Len(Block(conf, n, l)),
             p = InValues(n, l, d, Len(Block(conf, n, l)[d][2])), q = InBlock(n, l, d),
             k = "SEMICOLON", w = ";"
      PROVE  Meets(conf, p, q, k, w, x, y, z)
  <2> DEFINE m == Len(Block(conf, n, l)[d][2])
  <2>1. p = InValues(n, l, d, m)
        /\ q = InBlock(n, l, d)
    BY <1>5, <1>d
  <2>2. n \in Nat /\ l \in Nat /\ d \in Nat
    BY <1>a, <1>b, <1>c, <1>5
  <2> HIDE DEF m
  <2>3. Met(InValues(n, l, d, m), x, y, z) <=> x < n \/ (x = n /\ (y < l \/ (y = l /\ z <= d)))
    BY ONLY MetInValues
  <2>4. Met(InBlock(n, l, d), x, y, z) <=> x < n \/ (x = n /\ (y < l \/ (y = l /\ z <= d)))
    BY ONLY MetInBlock
  <2>5. Met(q, x, y, z) => Met(p, x, y, z)
    BY ONLY <1>b, <1>d, <2>1, <2>2, <2>3, <2>4
  <2> QED BY ONLY <2>5 DEF Meets
<1>6. ASSUME NEW n \in 1..Len(conf), NEW l \in 1..Len(conf[n].locations),
             Ended(conf, p, n, l - 1), q = AtPath(n, l), k = "LOCATION", w = "location"
      PROVE  Meets(conf, p, q, k, w, x, y, z)
  <2> DEFINE h == l - 1
             m == Len(Block(conf, n, 0))
  <2>1. ((h = 0 /\ p = InBlock(n, h, m)) \/ p = Behind(n, h))
        /\ q = AtPath(n, l)
    BY <1>6, <1>d DEF Ended
  <2>2. n \in Nat /\ l \in Nat /\ h \in Nat /\ h = l - 1 /\ m \in Nat /\ (x = n /\ y = 0 => z <= m)
    BY <1>a, <1>b, <1>c, <1>6
  <2> HIDE DEF h, m
  <2>3. Met(InBlock(n, h, m), x, y, z) <=> x < n \/ (x = n /\ (y < h \/ (y = h /\ z <= m)))
    BY ONLY MetInBlock
  <2>4. Met(Behind(n, h), x, y, z) <=> x < n \/ (x = n /\ (y < h \/ y = h))
    BY ONLY MetElsewhere
  <2>5. Met(AtPath(n, l), x, y, z) <=> x < n \/ (x = n /\ y < l)
    BY ONLY MetElsewhere
  <2>6. Met(q, x, y, z) => Met(p, x, y, z)
    BY ONLY <1>b, <1>d, <2>1, <2>2, <2>3, <2>4, <2>5
  <2> QED BY ONLY <2>6 DEF Meets
<1>7. ASSUME NEW n \in 1..Len(conf), NEW l \in 1..Len(conf[n].locations), p = AtPath(n, l),
             q = AtBracket(n, l), k = "PATH", w = conf[n].locations[l].path
      PROVE  Meets(conf, p, q, k, w, x, y, z)
  <2>1. p = AtPath(n, l)
        /\ q = AtBracket(n, l)
    BY <1>7, <1>d
  <2>2. n \in Nat /\ l \in Nat
    BY <1>a, <1>b, <1>c, <1>7
  <2>3. Met(AtPath(n, l), x, y, z) <=> x < n \/ (x = n /\ y < l)
    BY ONLY MetElsewhere
  <2>4. Met(AtBracket(n, l), x, y, z) <=> x < n \/ (x = n /\ y < l)
    BY ONLY MetElsewhere
  <2>5. Met(q, x, y, z) => Met(p, x, y, z)
    BY ONLY <1>b, <1>d, <2>1, <2>2, <2>3, <2>4
  <2> QED BY ONLY <2>5 DEF Meets
<1>8. ASSUME NEW n \in 1..Len(conf), NEW l \in 1..Len(conf[n].locations), p = AtBracket(n, l),
             q = InBlock(n, l, 0), k = "OPEN_BRACKET", w = "{"
      PROVE  Meets(conf, p, q, k, w, x, y, z)
  <2>1. p = AtBracket(n, l)
        /\ q = InBlock(n, l, o)
    BY <1>8, <1>d
  <2>2. n \in Nat /\ l \in Nat
    BY <1>a, <1>b, <1>c, <1>8
  <2>3. Met(AtBracket(n, l), x, y, z) <=> x < n \/ (x = n /\ y < l)
    BY ONLY MetElsewhere
  <2>4. Met(InBlock(n, l, o), x, y, z) <=> x < n \/ (x = n /\ (y < l \/ (y = l /\ z <= o)))
    BY ONLY MetInBlock
  <2>5. Met(q, x, y, z) => Met(p, x, y, z)
    BY ONLY <1>b, <1>d, <2>1, <2>2, <2>3, <2>4
  <2> QED BY ONLY <2>5 DEF Meets
<1>9. ASSUME NEW n \in 1..Len(conf), NEW l \in 1..Len(conf[n].locations),
             p = InBlock(n, l, Len(Block(conf, n, l))), q = Behind(n, l), k = "CLOSE_BRACKET",
             w = "}"
      PROVE  Meets(conf, p, q, k, w, x, y, z)
  <2> DEFINE m == Len(Block(conf, n, l))
  <2>1. p = InBlock(n, l, m)
        /\ q = Behind(n, l)
    BY <1>9, <1>d
  <2>2. n \in Nat /\ l \in Nat /\ m \in Nat /\ (x = n /\ y = l => z <= m)
    BY <1>a, <1>b, <1>c, <1>9
  <2> HIDE DEF m
  <2>3. Met(InBlock(n, l, m), x, y, z) <=> x < n \/ (x = n /\ (y < l \/ (y = l /\ z <= m)))
    BY ONLY MetInBlock
  <2>4. Met(Behind(n, l), x, y, z) <=> x < n \/ (x = n /\ (y < l \/ y = l))
    BY ONLY MetElsewhere
  <2>5. Met(q, x, y, z) => Met(p, x, y, z)
    BY ONLY <1>b, <1>d, <2>1, <2>2, <2>3, <2>4
  <2> QED BY ONLY <2>5 DEF Meets
<1>10. ASSUME NEW n \in 1..Len(conf), Ended(conf, p, n, Len(conf[n].locations)), q = Top(n),
              k = "CLOSE_BRACKET", w = "}"
       PROVE  Meets(conf, p, q, k, w, x, y, z)
  <2> DEFINE h == Len(conf[n].locations)
             m == Len(Block(conf, n, 0))
  <2>1. ((h = 0 /\ p = InBlock(n, h, m)) \/ p = Behind(n, h))
        /\ q = Top(n)
    BY <1>10, <1>d DEF Ended
  <2>2. n \in Nat /\ h \in Nat /\ m \in Nat /\ (x = n => y <= h) /\ (x = n /\ y = 0 => z <= m)
    <3>1. x = n => y <= h
      BY <1>b
    <3>2. x = n /\ y = 0 => z <= m
      BY <1>b
    <3>3. 0 \in 0..h
      BY <1>a
    <3> QED BY ONLY <1>a, <1>c, <1>10, <3>1, <3>2, <3>3
  <2> HIDE DEF h, m
  <2>3. Met(InBlock(n, h, m), x, y, z) <=> x < n \/ (x = n /\ (y < h \/ (y = h /\ z <= m)))
    BY ONLY MetInBlock
  <2>4. Met(Behind(n, h), x, y, z) <=> x < n \/ (x = n /\ (y < h \/ y = h))
    BY ONLY MetElsewhere
  <2>5. Met(Top(n), x, y, z) <=> x < n \/ x = n
    BY ONLY MetElsewhere
  <2>6. Met(q, x, y, z) => Met(p, x, y, z)
    BY ONLY <1>b, <1>d, <2>1, <2>2, <2>3, <2>4, <2>5
  <2> QED BY ONLY <2>6 DEF Meets
<1> QED BY ONLY <1>1, <1>2, <1>3, <1>4, <1>5, <1>6, <1>7, <1>8, <1>9, <1>10, Leads(conf, p, q, k, w)
  DEF Leads, OpensServer, OpensBlock, ReadsKey, ReadsValue, EndsDirective,
      OpensLocation, ReadsPath, OpensInner, ClosesLocation, ClosesServer

-----------------------------------------------------------------------------
\* The keys of one more directive.
LEMMA KeysGrow ==
  ASSUME NEW conf, NEW n, NEW l
  PROVE  /\ KeysAt(conf, n, l, 0) = {}
         /\ \A d \in Nat : d # 0 => KeysAt(conf, n, l, d) = KeysAt(conf, n, l, d - 1) \cup {Block(conf, n, l)[d][1]}
<1>1. 1..0 = {}
  OBVIOUS
<1>2. \A d \in Nat : d # 0 => 1..d = (1..d - 1) \cup {d}
  OBVIOUS
<1>3. KeysAt(conf, n, l, 0) = {}
  BY <1>1 DEF KeysAt
<1>4. ASSUME NEW d \in Nat, d # 0
      PROVE  KeysAt(conf, n, l, d) = KeysAt(conf, n, l, d - 1) \cup {Block(conf, n, l)[d][1]}
  <2> DEFINE h == d - 1
  <2>1. 1..d = (1..h) \cup {d}
    BY <1>2, <1>4
  <2> HIDE DEF h
  <2>2. KeysAt(conf, n, l, d) = KeysAt(conf, n, l, h) \cup {Block(conf, n, l)[d][1]}
    BY ONLY <2>1 DEF KeysAt
  <2> QED BY <2>2 DEF h
<1> QED BY <1>3, <1>4

\* Of a valid configuration every key is known and new.
LEMMA ValidKeys ==
  ASSUME NEW conf \in Seq(Server), Valid(conf),
         NEW n \in 1..Len(conf), NEW l \in 0..Len(conf[n].locations), NEW d \in 1..Len(Block(conf, n, l))
  PROVE  KeyFits(conf, n, l, d)
<1>1. KeysDiffer(KeysOf(BlockName(l)), Block(conf, n, l))
  <2>1. n \in DOMAIN conf
    OBVIOUS
  <2>2. CASE l = 0
    BY <2>1, <2>2 DEF Valid, KeysOf, BlockName, Block
  <2>3. CASE l # 0
    <3>1. l \in 1..Len(conf[n].locations) /\ conf[n].locations \in Seq(Location)
      BY <2>3, ServerParts
    <3>2. conf[n].locations[l] \in ToSet(conf[n].locations)
      BY <3>1 DEF ToSet
    <3>3. KeysDiffer(LocationKeys, conf[n].locations[l].directives)
      BY <2>1, <3>2 DEF Valid
    <3> QED BY <2>3, <3>3 DEF KeysOf, BlockName, Block
  <2> QED BY <2>2, <2>3
<1> DEFINE ds == Block(conf, n, l)
<1>2. ds \in Seq(Directive) /\ Len(ds) \in Nat /\ d \in 1..Len(ds)
  BY ServerParts
<1> HIDE DEF ds
<1>3. DOMAIN ds = 1..Len(ds) /\ d \in DOMAIN ds /\ \A x \in 1..d - 1 : x \in DOMAIN ds /\ x # d
  BY ONLY <1>2
<1>4. KeysDiffer(KeysOf(BlockName(l)), ds)
  BY <1>1 DEF ds
<1>5. ds[d][1] \in KeysOf(BlockName(l)) /\ \A x \in 1..d - 1 : ds[x][1] # ds[d][1]
  BY ONLY <1>3, <1>4 DEF KeysDiffer
<1> QED BY <1>5 DEF KeyFits, ds

\* The keys met are known and new when the one read last is.
LEMMA KeysMetStep ==
  ASSUME NEW conf \in Seq(Server), NEW p, NEW q, NEW k, NEW w, Leads(conf, p, q, k, w), KeysMet(conf, p),
         \A n \in 1..Len(conf) : \A l \in 0..Len(conf[n].locations) : \A d \in 1..Len(Block(conf, n, l)) :
           k = "KEY" /\ p = InBlock(n, l, d - 1) /\ q = InValues(n, l, d, 0) => KeyFits(conf, n, l, d)
  PROVE  KeysMet(conf, q)
<1> SUFFICES ASSUME NEW n \in 1..Len(conf), NEW l \in 0..Len(conf[n].locations),
                    NEW d \in 1..Len(Block(conf, n, l)), Met(q, n, l, d)
             PROVE  KeyFits(conf, n, l, d)
  BY DEF KeysMet
<1>1. Meets(conf, p, q, k, w, n, l, d)
  BY MeetsKey
<1> QED BY <1>1 DEF Meets, KeysMet

\* What checkSameKey has found out behind a word that leads to q.
Compared(conf, q) ==
  \/ /\ i' = i + 1 /\ UNCHANGED <<phase, lists, brackets, values>>
     /\ DOMAIN table' = {"server", "location"}
     /\ KeysMet(conf, q)
     /\ q.at \notin {"top", "rest"} =>
          /\ block' = BlockName(q.location)
          /\ table'[TableOf(q.location)] = KeysAt(conf, q.server, q.location, q.directive)
  \/ phase' = "error" /\ UNCHANGED <<lists, values>> /\ ~Valid(conf)

\* checkSameKey: a word leaves the tables of the place behind it, or throws rightly.
LEMMA CompareStep ==
  ASSUME NEW conf \in Seq(Server), NEW p, NEW q, NEW k, NEW w, Leads(conf, p, q, k, w),
         check[i] = k, file[i] = w, Comparing(conf, p), Tabled, CheckSameKey, ~AtEnd("checkSameKey")
  PROVE  Compared(conf, q)
<1> DEFINE name == IF block = "SERVER" THEN "server" ELSE "location"
           kept == i' = i + 1 /\ UNCHANGED <<phase, lists, brackets, values>>
           same == kept /\ UNCHANGED <<block, table>>
<1>a. /\ k = "SERVER" => kept /\ block' = "SERVER" /\ table' = [table EXCEPT !["server"] = {}]
      /\ k = "LOCATION" => kept /\ block' = "LOCATION" /\ table' = [table EXCEPT !["location"] = {}]
      /\ k \notin {"SERVER", "LOCATION", "KEY"} => same
  BY DEF CheckSameKey
<1>b. k = "KEY" =>
        \/ /\ w \notin KeysOf(block) \/ table[name] = None \/ w \in table[name]
           /\ Throw
        \/ /\ w \in KeysOf(block) /\ (table[name] # None => w \notin table[name])
           /\ table' = IF table[name] = None THEN table ELSE [table EXCEPT ![name] = @ \cup {w}]
           /\ UNCHANGED block
           /\ kept
  BY DEF CheckSameKey
<1>c. DOMAIN table = {"server", "location"} /\ KeysMet(conf, p)
  BY DEF Tabled, Comparing
<1>d. k # "KEY" => KeysMet(conf, q)
  BY <1>c, KeysMetStep
<1>e. p.at \notin {"top", "rest"} =>
        /\ block = BlockName(p.location)
        /\ table[TableOf(p.location)] = KeysAt(conf, p.server, p.location, p.directive)
  BY DEF Comparing
<1>f. /\ \A n \in 1..Len(conf) : \A l \in 0..Len(conf[n].locations) : l = 0 <=> l \notin 1..Len(conf[n].locations)
      /\ \A n, l : KeysAt(conf, n, l, 0) = {}
  <2>1. \A n \in 1..Len(conf) : Len(conf[n].locations) \in Nat
    BY ServerParts
  <2> QED BY <2>1, KeysGrow
<1> HIDE DEF name, kept, same
<1>1. ASSUME NEW n \in 1..Len(conf), p = Top(n - 1), q = Opened(n), k = "SERVER", w = "server"
      PROVE  Compared(conf, q)
  <2>1. q.at = "server" /\ q.server = n /\ q.location = 0 /\ q.directive = 0
    BY ONLY <1>1, PlaceIs
  <2>2. KeysAt(conf, n, 0, 0) = {} /\ BlockName(0) = "SERVER" /\ TableOf(0) = "server"
    BY <1>f DEF BlockName, TableOf
  <2>3. DOMAIN table' = {"server", "location"} /\ table'["server"] = {} /\ block' = "SERVER"
    BY <1>a, <1>c, <1>1
  <2>4. kept /\ KeysMet(conf, q)
    BY <1>a, <1>d, <1>1
  <2> QED BY ONLY <2>1, <2>2, <2>3, <2>4 DEF Compared, kept
<1>2. ASSUME NEW n \in 1..Len(conf), p = Opened(n), q = InBlock(n, 0, 0), k = "OPEN_BRACKET",
             w = "{"
      PROVE  Compared(conf, q)
  <2> DEFINE o == 0
  <2>0. p = Opened(n) /\ q = InBlock(n, o, o) /\ o = 0
    BY <1>2
  <2> HIDE DEF o
  <2>1. /\ p.at \notin {"top", "rest"}
        /\ p.server = q.server /\ p.location = q.location /\ p.directive = q.directive
    BY ONLY <2>0, PlaceIs
  <2>2. same /\ KeysMet(conf, q)
    BY <1>a, <1>d, <1>2
  <2> QED BY ONLY <1>c, <1>e, <2>1, <2>2 DEF Compared, same, kept
<1>3. ASSUME NEW n \in 1..Len(conf), NEW l \in 0..Len(conf[n].locations),
             NEW d \in 1..Len(Block(conf, n, l)), p = InBlock(n, l, d - 1),
             q = InValues(n, l, d, 0), k = "KEY", w = Block(conf, n, l)[d][1]
      PROVE  Compared(conf, q)
  <2> DEFINE h == d - 1
             o == 0
  <2>0. p = InBlock(n, l, h) /\ q = InValues(n, l, d, o) /\ o = 0
    BY <1>3
  <2>1. d \in Nat /\ d # 0 /\ KeysAt(conf, n, l, d) = KeysAt(conf, n, l, h) \cup {w}
    <3>1. Len(Block(conf, n, l)) \in Nat
      BY ServerParts
    <3> QED BY <1>3, <3>1, KeysGrow
  <2>2. KeyFits(conf, n, l, d) <=> w \in KeysOf(BlockName(l)) /\ w \notin KeysAt(conf, n, l, h)
    BY <1>3 DEF KeyFits, KeysAt
  <2>3. KeysAt(conf, n, l, h) \subseteq ServerKeys \cup LocationKeys
    <3>1. ASSUME NEW x \in 1..h
          PROVE  Block(conf, n, l)[x][1] \in ServerKeys \cup LocationKeys
      <4>1. x \in 1..Len(Block(conf, n, l)) /\ x <= h
        <5>1. Len(Block(conf, n, l)) \in Nat
          BY ServerParts
        <5> QED BY <3>1, <5>1
      <4>2. Met(p, n, l, x)
        <5> HIDE DEF h
        <5> QED BY ONLY <2>0, <4>1, MetInBlock
      <4>3. KeyFits(conf, n, l, x)
        BY <1>c, <4>1, <4>2 DEF KeysMet
      <4> QED BY ONLY <4>3 DEF KeyFits, KeysOf
    <3> QED BY ONLY <3>1 DEF KeysAt
  <2> HIDE DEF h, o
  <2>4. /\ p.at = "block" /\ p.server = n /\ p.location = l /\ p.directive = h
        /\ q.at = "values" /\ q.server = n /\ q.location = l /\ q.directive = d
    BY ONLY <2>0, PlaceIs
  <2>5. block = BlockName(l) /\ table[TableOf(l)] = KeysAt(conf, n, l, h) /\ name = TableOf(l)
    <3>1. block = BlockName(l) /\ table[TableOf(l)] = KeysAt(conf, n, l, h)
      BY ONLY <1>e, <2>4
    <3> QED BY ONLY <3>1 DEF name, BlockName, TableOf
  <2>6. table[name] # None /\ name \in DOMAIN table
    BY ONLY <1>c, <2>3, <2>5, NoneIsNone DEF TableOf
  <2>7. CASE KeyFits(conf, n, l, d)
    <3>1. ~(w \notin KeysOf(block) \/ table[name] = None \/ w \in table[name])
      BY ONLY <2>2, <2>5, <2>6, <2>7
    <3>2. /\ table' = [table EXCEPT ![name] = @ \cup {w}]
          /\ UNCHANGED block
          /\ kept
      BY ONLY <1>3, <1>b, <2>6, <3>1
    <3>3. table'[name] = table[name] \cup {w} /\ DOMAIN table' = DOMAIN table
      BY ONLY <2>6, <3>2
    <3>4. KeysMet(conf, q)
      <4>1. ASSUME NEW x \in 1..Len(conf), NEW y \in 0..Len(conf[x].locations),
                   NEW z \in 1..Len(Block(conf, x, y)), q = InValues(x, y, z, 0)
            PROVE  KeyFits(conf, x, y, z)
        <5>1. q.server = x /\ q.location = y /\ q.directive = z
          BY ONLY <4>1, PlaceIs
        <5> QED BY ONLY <2>4, <2>7, <5>1
      <4> QED BY <1>c, <4>1, KeysMetStep
    <3> QED BY ONLY <1>c, <2>1, <2>4, <2>5, <3>2, <3>3, <3>4 DEF Compared, kept
  <2>8. CASE ~KeyFits(conf, n, l, d)
    <3>1. ~Valid(conf)
      BY <2>8, ValidKeys
    <3>2. Throw
      BY ONLY <1>3, <1>b, <2>2, <2>5, <2>6, <2>8
    <3> QED BY ONLY <3>1, <3>2 DEF Compared, Throw
  <2> QED BY ONLY <2>7, <2>8
<1>4. ASSUME NEW n \in 1..Len(conf), NEW l \in 0..Len(conf[n].locations),
             NEW d \in 1..Len(Block(conf, n, l)), NEW v \in 1..Len(Block(conf, n, l)[d][2]),
             p = InValues(n, l, d, v - 1), q = InValues(n, l, d, v), k = "VALUE",
             w = Block(conf, n, l)[d][2][v]
      PROVE  Compared(conf, q)
  <2>1. /\ p.at \notin {"top", "rest"}
        /\ p.server = q.server /\ p.location = q.location /\ p.directive = q.directive
    BY ONLY <1>4, PlaceIs
  <2>2. same /\ KeysMet(conf, q)
    BY <1>a, <1>d, <1>4
  <2> QED BY ONLY <1>c, <1>e, <2>1, <2>2 DEF Compared, same, kept
<1>5. ASSUME NEW n \in 1..Len(conf), NEW l \in 0..Len(conf[n].locations),
             NEW d \in 1..Len(Block(conf, n, l)),
             p = InValues(n, l, d, Len(Block(conf, n, l)[d][2])), q = InBlock(n, l, d),
             k = "SEMICOLON", w = ";"
      PROVE  Compared(conf, q)
  <2> DEFINE m == Len(Block(conf, n, l)[d][2])
  <2>0. p = InValues(n, l, d, m) /\ q = InBlock(n, l, d)
    BY <1>5
  <2> HIDE DEF m
  <2>1. /\ p.at \notin {"top", "rest"}
        /\ p.server = q.server /\ p.location = q.location /\ p.directive = q.directive
    BY ONLY <2>0, PlaceIs
  <2>2. same /\ KeysMet(conf, q)
    BY <1>a, <1>d, <1>5
  <2> QED BY ONLY <1>c, <1>e, <2>1, <2>2 DEF Compared, same, kept
<1>6. ASSUME NEW n \in 1..Len(conf), NEW l \in 1..Len(conf[n].locations),
             Ended(conf, p, n, l - 1), q = AtPath(n, l), k = "LOCATION", w = "location"
      PROVE  Compared(conf, q)
  <2>1. q.at = "path" /\ q.server = n /\ q.location = l /\ q.directive = 0
    BY ONLY <1>6, PlaceIs
  <2>2. KeysAt(conf, n, l, 0) = {} /\ BlockName(l) = "LOCATION" /\ TableOf(l) = "location"
    BY <1>f DEF BlockName, TableOf
  <2>3. DOMAIN table' = {"server", "location"} /\ table'["location"] = {} /\ block' = "LOCATION"
    BY <1>a, <1>c, <1>6
  <2>4. kept /\ KeysMet(conf, q)
    BY <1>a, <1>d, <1>6
  <2> QED BY ONLY <2>1, <2>2, <2>3, <2>4 DEF Compared, kept
<1>7. ASSUME NEW n \in 1..Len(conf), NEW l \in 1..Len(conf[n].locations), p = AtPath(n, l),
             q = AtBracket(n, l), k = "PATH", w = conf[n].locations[l].path
      PROVE  Compared(conf, q)
  <2>1. /\ p.at \notin {"top", "rest"}
        /\ p.server = q.server /\ p.location = q.location /\ p.directive = q.directive
    BY ONLY <1>7, PlaceIs
  <2>2. same /\ KeysMet(conf, q)
    BY <1>a, <1>d, <1>7
  <2> QED BY ONLY <1>c, <1>e, <2>1, <2>2 DEF Compared, same, kept
<1>8. ASSUME NEW n \in 1..Len(conf), NEW l \in 1..Len(conf[n].locations), p = AtBracket(n, l),
             q = InBlock(n, l, 0), k = "OPEN_BRACKET", w = "{"
      PROVE  Compared(conf, q)
  <2> DEFINE o == 0
  <2>0. p = AtBracket(n, l) /\ q = InBlock(n, l, o) /\ o = 0
    BY <1>8
  <2> HIDE DEF o
  <2>1. /\ p.at \notin {"top", "rest"}
        /\ p.server = q.server /\ p.location = q.location /\ p.directive = q.directive
    BY ONLY <2>0, PlaceIs
  <2>2. same /\ KeysMet(conf, q)
    BY <1>a, <1>d, <1>8
  <2> QED BY ONLY <1>c, <1>e, <2>1, <2>2 DEF Compared, same, kept
<1>9. ASSUME NEW n \in 1..Len(conf), NEW l \in 1..Len(conf[n].locations),
             p = InBlock(n, l, Len(Block(conf, n, l))), q = Behind(n, l), k = "CLOSE_BRACKET",
             w = "}"
      PROVE  Compared(conf, q)
  <2>0. q = Behind(n, l)
    BY <1>9
  <2>1. q.at \in {"top", "rest"}
    BY ONLY <2>0, PlaceIs
  <2>2. same /\ KeysMet(conf, q)
    BY <1>a, <1>d, <1>9
  <2> QED BY ONLY <1>c, <2>1, <2>2 DEF Compared, same, kept
<1>10. ASSUME NEW n \in 1..Len(conf), Ended(conf, p, n, Len(conf[n].locations)), q = Top(n),
              k = "CLOSE_BRACKET", w = "}"
       PROVE  Compared(conf, q)
  <2>1. q.at \in {"top", "rest"}
    BY ONLY <1>10, PlaceIs
  <2>2. same /\ KeysMet(conf, q)
    BY <1>a, <1>d, <1>10
  <2> QED BY ONLY <1>c, <2>1, <2>2 DEF Compared, same, kept
<1> QED BY ONLY <1>1, <1>2, <1>3, <1>4, <1>5, <1>6, <1>7, <1>8, <1>9, <1>10, Leads(conf, p, q, k, w)
  DEF Leads, OpensServer, OpensBlock, ReadsKey, ReadsValue, EndsDirective,
      OpensLocation, ReadsPath, OpensInner, ClosesLocation, ClosesServer

\* checkSameKey accepts a walk whose keys are known and new.
LEMMA KeyPass ==
  ASSUME NEW conf, NEW w, Reading(conf, w), TypeOK, phase = "checkSameKey", Kinded(w), Tabled,
         Comparing(conf, w[i - 1].place), CheckSameKey, UNCHANGED file
  PROVE  /\ UNCHANGED values /\ Kinded(w)'
         /\ \/ phase' = "checkSameKey" /\ Tabled' /\ Comparing(conf, w[i - 1].place)'
            \/ phase' = "setValue" /\ i' = 1 /\ block' = "SERVER" /\ KeysMet(conf, Top(Len(conf)))
            \/ phase' = "error" /\ ~Valid(conf)
<1>1. Len(file) \in Nat /\ i \in 1..Len(file) + 1
  BY WalkStep DEF TypeOK
<1>2. CASE InPass("checkSameKey")
  <2>0. PICK p, q, k : p = w[i - 1].place /\ q = w[i].place /\ k = w[i].kind
    OBVIOUS
  <2>1. i \in 1..Len(file)
    BY <1>1, <1>2 DEF InPass
  <2>2. check[i] = k /\ Leads(conf, p, q, k, file[i])
    BY <2>0, <2>1, WalkStep DEF Kinded
  <2>3. ~AtEnd("checkSameKey")
    BY <1>1, <1>2 DEF AtEnd, InPass
  <2>4. conf \in Seq(Server) /\ Comparing(conf, p)
    BY <2>0 DEF Reading
  <2>5. PICK f : f = file[i]
    OBVIOUS
  <2>6. Leads(conf, p, q, k, f)
    BY ONLY <2>2, <2>5
  <2>7. Compared(conf, q)
    BY ONLY <2>2, <2>3, <2>4, <2>5, <2>6, CompareStep, Tabled, CheckSameKey
  <2>8. Kinded(w)' /\ UNCHANGED values
    BY <2>7 DEF Compared, Kinded, lists
  <2>9. CASE i' = i + 1 /\ UNCHANGED phase
    <3>1. i' - 1 = i
      BY <2>1, <2>9
    <3>2. Compared(conf, w'[i' - 1].place)
      BY <2>0, <2>7, <3>1
    <3>3. phase' = "checkSameKey" /\ phase' # "error"
      BY <2>9, <1>2 DEF InPass
    <3>4. Comparing(conf, w[i - 1].place)' /\ Tabled'
      BY ONLY <3>2, <3>3 DEF Compared, Comparing, Tabled
    <3> QED BY <2>8, <3>3, <3>4
  <2> QED BY <2>7, <2>8, <2>9 DEF Compared
<1>3. CASE AtEnd("checkSameKey")
  <2>1. i - 1 = Len(file) /\ ~InPass("checkSameKey")
    BY <1>1, <1>3 DEF AtEnd, InPass
  <2>2. KeysMet(conf, Top(Len(conf)))
    BY <2>1, WalkStep DEF Comparing
  <2>3. Go("setValue")
    BY <2>1 DEF CheckSameKey
  <2> QED BY <2>2, <2>3 DEF Go, Kinded, lists
<1> QED BY <1>2, <1>3 DEF CheckSameKey

\* At the start nothing is met.
LEMMA NothingMet ==
  ASSUME NEW conf \in Seq(Server)
  PROVE  KeysMet(conf, Top(0)) /\ PortsMet(conf, Top(0))
<1>1. \A n \in 1..Len(conf) : n \in Nat /\ n > 0
  BY ServersType
<1>2. ASSUME NEW n \in 1..Len(conf), NEW l, NEW d
      PROVE  ~Met(Top(0), n, l, d)
  <2> DEFINE o == 0
  <2>1. ~(n < o \/ n = o)
    BY <1>1
  <2> HIDE DEF o
  <2>2. ~Met(Top(o), n, l, d)
    BY ONLY <2>1, MetElsewhere
  <2> QED BY <2>2 DEF o
<1> QED BY <1>2 DEF KeysMet, PortsMet

-----------------------------------------------------------------------------
\* What is built at each place.
LEMMA BuiltTop ==
  ASSUME NEW conf, NEW b, NEW srv, NEW loc, NEW ss, NEW n
  PROVE  BuiltAt(conf, Top(n), b, srv, loc, ss) <=>
           b = "SERVER" /\ ss = First(Meaning(conf), n)
BY PlaceIs DEF BuiltAt, BlockName, Top, Place

\* What setValue has built when a server is opened,
LEMMA BuiltOpened ==
  ASSUME NEW conf, NEW b, NEW srv, NEW loc, NEW ss, NEW n
  PROVE  BuiltAt(conf, Opened(n), b, srv, loc, ss) <=>
           b = "SERVER" /\ ss = First(Meaning(conf), n - 1) /\ srv = Served(conf, n, 0, 0)
BY PlaceIs DEF BuiltAt, BlockName, Opened, Place

\* behind a directive of a server,
LEMMA BuiltOuter ==
  ASSUME NEW conf, NEW b, NEW srv, NEW loc, NEW ss, NEW n, NEW l, NEW d, l = 0
  PROVE  BuiltAt(conf, InBlock(n, l, d), b, srv, loc, ss) <=>
           b = "SERVER" /\ ss = First(Meaning(conf), n - 1) /\ srv = Served(conf, n, d, 0)
BY PlaceIs DEF BuiltAt, BlockName, InBlock, Place

\* behind a directive of a location,
LEMMA BuiltInner ==
  ASSUME NEW conf, NEW b, NEW srv, NEW loc, NEW ss, NEW n, NEW l, NEW d, l # 0
  PROVE  BuiltAt(conf, InBlock(n, l, d), b, srv, loc, ss) <=>
           /\ b = "LOCATION" /\ ss = First(Meaning(conf), n - 1) /\ srv = Served(conf, n, Own(conf, n), l - 1)
           /\ loc = Located(conf, n, l, conf[n].locations[l].path, d)
BY PlaceIs DEF BuiltAt, BlockName, InBlock, Place

\* before the path of a location,
LEMMA BuiltPath ==
  ASSUME NEW conf, NEW b, NEW srv, NEW loc, NEW ss, NEW n, NEW l, l # 0
  PROVE  BuiltAt(conf, AtPath(n, l), b, srv, loc, ss) <=>
           /\ b = "LOCATION" /\ ss = First(Meaning(conf), n - 1) /\ srv = Served(conf, n, Own(conf, n), l - 1)
           /\ loc = Located(conf, n, l, None, 0)
BY PlaceIs DEF BuiltAt, BlockName, AtPath, Place

\* before its bracket,
LEMMA BuiltBracket ==
  ASSUME NEW conf, NEW b, NEW srv, NEW loc, NEW ss, NEW n, NEW l, l # 0
  PROVE  BuiltAt(conf, AtBracket(n, l), b, srv, loc, ss) <=>
           /\ b = "LOCATION" /\ ss = First(Meaning(conf), n - 1) /\ srv = Served(conf, n, Own(conf, n), l - 1)
           /\ loc = Located(conf, n, l, conf[n].locations[l].path, 0)
BY PlaceIs DEF BuiltAt, BlockName, AtBracket, Place

\* and behind a location.
LEMMA BuiltBehind ==
  ASSUME NEW conf, NEW b, NEW srv, NEW loc, NEW ss, NEW n, NEW l, l # 0
  PROVE  BuiltAt(conf, Behind(n, l), b, srv, loc, ss) <=>
           b = "SERVER" /\ ss = First(Meaning(conf), n - 1) /\ srv = Served(conf, n, Own(conf, n), l)
BY PlaceIs DEF BuiltAt, BlockName, Behind, Place

\* It is never between the values of a directive: setValue takes them at once.
LEMMA BuiltValues ==
  ASSUME NEW conf, NEW b, NEW srv, NEW loc, NEW ss, NEW n, NEW l, NEW d, NEW v
  PROVE  ~BuiltAt(conf, InValues(n, l, d, v), b, srv, loc, ss)
BY DEF BuiltAt, InValues, Place

\* Beginnings of a sequence.
LEMMA FirstGrows ==
  ASSUME NEW s
  PROVE  /\ First(s, 0) = <<>>
         /\ \A k \in Nat : /\ First(s, k) \in Seq({s[x] : x \in 1..k}) /\ Len(First(s, k)) = k
                           /\ \A x \in 1..k : First(s, k)[x] = s[x]
                           /\ First(s, k + 1) = Append(First(s, k), s[k + 1])
<1>1. First(s, 0) = <<>>
  BY DEF First
<1>2. ASSUME NEW k \in Nat
      PROVE  /\ First(s, k) \in Seq({s[x] : x \in 1..k}) /\ Len(First(s, k)) = k
             /\ \A x \in 1..k : First(s, k)[x] = s[x]
  BY DEF First
<1>3. ASSUME NEW k \in Nat
      PROVE  First(s, k + 1) = Append(First(s, k), s[k + 1])
  <2> DEFINE h == k + 1
             T == {s[x] : x \in 1..h}
             a == First(s, k)
             c == First(s, h)
  <2>1. h \in Nat /\ h = k + 1
    OBVIOUS
  <2>2. a \in Seq(T) /\ Len(a) = k /\ s[h] \in T /\ \A x \in 1..k : a[x] = s[x]
    <3>1. a \in Seq({s[x] : x \in 1..k}) /\ Len(a) = k /\ \A x \in 1..k : a[x] = s[x]
      BY <1>2
    <3>2. \A x \in 1..k : a[x] \in T
      BY <3>1
    <3>3. s[h] \in T
      OBVIOUS
    <3> HIDE DEF T, a, h
    <3> QED BY <3>1, <3>2, <3>3
  <2>3. c \in Seq(T) /\ Len(c) = h /\ \A x \in 1..h : c[x] = s[x]
    BY <1>2, <2>1
  <2> HIDE DEF T, a, c, h
  <2>4. /\ Append(a, s[h]) \in Seq(T) /\ Len(Append(a, s[h])) = h /\ Append(a, s[h])[h] = s[h]
        /\ \A x \in 1..k : Append(a, s[h])[x] = a[x]
    BY ONLY <2>1, <2>2, Appended
  <2>5. \A x \in 1..h : Append(a, s[h])[x] = c[x]
    <3>1. \A x \in 1..h : x \in 1..k \/ x = h
      BY <2>1
    <3> QED BY ONLY <2>2, <2>3, <2>4, <3>1
  <2>6. Append(a, s[h]) = c
    BY ONLY <2>3, <2>4, <2>5, SeqEqual
  <2> QED BY <2>6 DEF a, c, h
<1> QED BY <1>1, <1>2, <1>3

\* What directives set: nothing at first, and then what the next one does.
LEMMA GivenNone ==
  ASSUME NEW keys, NEW ds
  PROVE  GivenTo(keys, ds, 0) = Fields(keys)
<1>1. \A k : {n \in 1..0 : ds[n][1] = k} = {}
  OBVIOUS
<1> QED BY <1>1 DEF GivenTo, GivenOf, Fields

\* A directive gives nothing to another key.
LEMMA GivenOther ==
  ASSUME NEW ds, NEW d \in Nat, d # 0, NEW k, ds[d][1] # k
  PROVE  GivenOf(k, ds, d) = GivenOf(k, ds, d - 1)
<1>1. \A n \in 1..d : n \in 1..d - 1 \/ n = d
  OBVIOUS
<1>2. \A n \in 1..d - 1 : n \in 1..d
  OBVIOUS
<1>3. {n \in 1..d : ds[n][1] = k} = {n \in 1..d - 1 : ds[n][1] = k}
  BY <1>1, <1>2
<1> QED BY ONLY <1>3 DEF GivenOf

\* The first directive with a key gives it its values, or the last of them.
LEMMA GivenKey ==
  ASSUME NEW ds, NEW d \in Nat, d # 0, \A x \in 1..d - 1 : ds[x][1] # ds[d][1]
  PROVE  /\ GivenOf(ds[d][1], ds, d - 1) = <<>>
         /\ GivenOf(ds[d][1], ds, d) = IF ds[d][1] \in ListKeys THEN ds[d][2] ELSE <<Last(ds[d][2])>>
<1> DEFINE k == ds[d][1]
           S == {n \in 1..d : ds[n][1] = k}
<1>1. \A n \in 1..d : n \in 1..d - 1 \/ n = d
  OBVIOUS
<1>2. {n \in 1..d - 1 : ds[n][1] = k} = {}
  OBVIOUS
<1>3. S = {d}
  BY <1>1
<1>4. Min(S) = d
  <2>1. {d} \in SUBSET Nat /\ {d} # {}
    OBVIOUS
  <2>2. Min({d}) \in {d}
    BY ONLY <2>1, MinIs
  <2> QED BY <1>3, <2>2
<1>5. GivenOf(k, ds, d) = IF k \in ListKeys THEN ds[d][2] ELSE <<Last(ds[d][2])>>
  <2> HIDE DEF k
  <2>1. S # {}
    BY ONLY <1>3
  <2> QED BY ONLY <1>4, <2>1 DEF GivenOf, S
<1>6. GivenOf(k, ds, d - 1) = <<>>
  <2> HIDE DEF k
  <2> QED BY ONLY <1>2 DEF GivenOf
<1> QED BY ONLY <1>5, <1>6

Sets(V, W, k, vs) == W = [V EXCEPT ![k] = IF k \in ListKeys THEN @ \o vs ELSE <<Last(vs)>>]

\* So the values given by d directives are those of d - 1, with one key set.
LEMMA GivenStep ==
  ASSUME NEW keys, NEW ds, NEW d \in Nat, d # 0, ds[d][1] \in keys, NEW T, ds[d][2] \in Seq(T),
         \A x \in 1..d - 1 : ds[x][1] # ds[d][1], NEW h, h = d - 1
  PROVE  Sets(GivenTo(keys, ds, h), GivenTo(keys, ds, d), ds[d][1], ds[d][2])
<1> DEFINE k == ds[d][1]
           vs == ds[d][2]
<1>1. GivenOf(k, ds, h) = <<>> /\ GivenOf(k, ds, d) = IF k \in ListKeys THEN vs ELSE <<Last(vs)>>
  BY GivenKey
<1>2. \A x : x # k => GivenOf(x, ds, d) = GivenOf(x, ds, h)
  BY GivenOther
<1>3. <<>> \o vs = vs
  BY ConcatEmptySeq
<1>4. k \in keys
  OBVIOUS
<1> HIDE DEF k, vs
<1>5. GivenTo(keys, ds, d)
        = [GivenTo(keys, ds, h) EXCEPT ![k] = IF k \in ListKeys THEN @ \o vs ELSE <<Last(vs)>>]
  <2>1. CASE k \in ListKeys
    BY ONLY <1>1, <1>2, <1>3, <1>4, <2>1 DEF GivenTo
  <2>2. CASE k \notin ListKeys
    BY ONLY <1>1, <1>2, <1>3, <1>4, <2>2 DEF GivenTo
  <2> QED BY ONLY <2>1, <2>2
<1> QED BY ONLY <1>5 DEF k, vs, Sets

\* setValue takes a directive.
Takes(keys, ds, d, h, a) ==
  /\ Take([values |-> GivenTo(keys, ds, h), locations |-> a], ds[d][1], ds[d][2])
       = [values |-> GivenTo(keys, ds, d), locations |-> a]
  /\ Take([path |-> a, values |-> GivenTo(keys, ds, h)], ds[d][1], ds[d][2])
       = [path |-> a, values |-> GivenTo(keys, ds, d)]

\* The same of the fields of a server or location that setValue sets from a directive.
LEMMA TakeStep ==
  ASSUME NEW keys, NEW ds \in Seq(Directive), NEW d \in 1..Len(ds), ds[d][1] \in keys,
         \A x \in 1..d - 1 : ds[x][1] # ds[d][1], NEW h, h = d - 1, NEW a
  PROVE  Takes(keys, ds, d, h, a)
<1> DEFINE k == ds[d][1]
           vs == ds[d][2]
           V == GivenTo(keys, ds, h)
           W == GivenTo(keys, ds, d)
<1>1. d \in Nat /\ d # 0 /\ ds[d] \in Directive
  OBVIOUS
<1>2. vs \in Seq(Plain) /\ vs # <<>>
  BY <1>1, DirectiveParts
<1>3. Sets(V, W, k, vs)
  BY <1>1, <1>2, GivenStep
<1>4. k \in DOMAIN V
  BY DEF GivenTo
<1> HIDE DEF k, vs, V, W
<1>5. Take([values |-> V, locations |-> a], k, vs) = [values |-> W, locations |-> a]
  BY ONLY <1>2, <1>3, <1>4 DEF Take, Sets
<1>6. Take([path |-> a, values |-> V], k, vs) = [path |-> a, values |-> W]
  BY ONLY <1>2, <1>3, <1>4 DEF Take, Sets
<1> QED BY ONLY <1>5, <1>6 DEF k, vs, V, W, Takes

\* What a configuration means, in the terms of the pass.
LEMMA GivenIs ==
  ASSUME NEW keys, NEW ds \in Seq(Directive), NEW m, m = Len(ds)
  PROVE  Given(keys, ds) = GivenTo(keys, ds, m)
<1>1. DOMAIN ds = 1..m
  OBVIOUS
<1> QED BY ONLY <1>1 DEF Given, GivenTo, GivenOf

\* A sequence is its own beginning.
LEMMA FirstWhole ==
  ASSUME NEW s, NEW k, s = [x \in 1..k |-> s[x]]
  PROVE  First(s, k) = s
BY DEF First

\* Of the server c.
MeaningOf(c) ==
  [port      |-> Given(ServerKeys, c.directives)["listen"][1],
   values    |-> Given(ServerKeys, c.directives),
   locations |-> [m \in DOMAIN c.locations |->
                    [path   |-> c.locations[m].path,
                     values |-> Given(LocationKeys, c.locations[m].directives)]]]

\* What the server n of the configuration means.
Means(conf, n) ==
  LET ds == Block(conf, n, 0)
      ls == Meaning(conf)[n].locations
  IN  /\ Meaning(conf)[n] = [port |-> GivenOf("listen", ds, Len(ds))[1],
                             values |-> GivenTo(ServerKeys, ds, Len(ds)), locations |-> ls]
      /\ DOMAIN ls = 1..Len(conf[n].locations)
      /\ First(ls, Len(conf[n].locations)) = ls
      /\ \A l \in 1..Len(conf[n].locations) :
           ls[l] = Located(conf, n, l, conf[n].locations[l].path, Len(Block(conf, n, l)))

\* The meaning of a configuration, server by server and location by location.
LEMMA MeaningIs ==
  ASSUME NEW conf \in Seq(Server)
  PROVE  /\ DOMAIN Meaning(conf) = 1..Len(conf)
         /\ First(Meaning(conf), Len(conf)) = Meaning(conf)
         /\ \A n \in 1..Len(conf) : Means(conf, n)
<1>1. Meaning(conf) = [n \in 1..Len(conf) |-> MeaningOf(conf[n])]
  <2>1. DOMAIN conf = 1..Len(conf)
    OBVIOUS
  <2> QED BY ONLY <2>1 DEF Meaning, MeaningOf
<1>2. First(Meaning(conf), Len(conf)) = Meaning(conf)
  <2>1. \A n \in 1..Len(conf) : Meaning(conf)[n] = MeaningOf(conf[n])
    BY ONLY <1>1
  <2>2. Meaning(conf) = [n \in 1..Len(conf) |-> Meaning(conf)[n]]
    BY ONLY <1>1, <2>1
  <2> QED BY ONLY <2>2, FirstWhole
<1>3. ASSUME NEW n \in 1..Len(conf)
      PROVE  Means(conf, n)
  <2> DEFINE c == conf[n]
             k == Len(c.locations)
             ds == Block(conf, n, 0)
             ls == Meaning(conf)[n].locations
             L(m) == [path |-> c.locations[m].path, values |-> Given(LocationKeys, c.locations[m].directives)]
  <2>1. Meaning(conf)[n] = MeaningOf(c)
    BY ONLY <1>1, <1>3
  <2>2. ds \in Seq(Directive) /\ ds = c.directives /\ c.locations \in Seq(Location)
    BY <1>3, ServerParts DEF Block
  <2>3. DOMAIN c.locations = 1..k
    <3> HIDE DEF c
    <3> QED BY <2>2
  <2>4. Given(ServerKeys, ds) = GivenTo(ServerKeys, ds, Len(ds))
    BY ONLY <2>2, GivenIs
  <2>5. Given(ServerKeys, ds)["listen"] = GivenOf("listen", ds, Len(ds))
    BY ONLY <2>4 DEF GivenTo, ServerKeys
  <2>6. ls = [m \in 1..k |-> L(m)]
    <3> HIDE DEF c, k
    <3> QED BY ONLY <2>1, <2>3 DEF MeaningOf
  <2>7. DOMAIN ls = 1..k /\ First(ls, k) = ls
    <3> HIDE DEF L, k
    <3>1. \A m \in 1..k : ls[m] = L(m)
      BY ONLY <2>6
    <3> HIDE DEF ls
    <3>2. ls = [m \in 1..k |-> ls[m]]
      BY ONLY <2>6, <3>1
    <3> QED BY ONLY <2>6, <3>2, FirstWhole
  <2>8. ASSUME NEW l \in 1..k
        PROVE  ls[l] = Located(conf, n, l, c.locations[l].path, Len(Block(conf, n, l)))
    <3>1. ls[l] = L(l)
      <4> HIDE DEF L, k
      <4> QED BY ONLY <2>6, <2>8
    <3>2. /\ c.locations[l].directives = Block(conf, n, l)
          /\ Block(conf, n, l) \in Seq(Directive)
      <4>1. k \in Nat
        BY <1>3, ServerParts
      <4>2. l # 0 /\ l \in 0..k
        BY <2>8, <4>1
      <4>3. Block(conf, n, l) \in Seq(Directive)
        BY <1>3, <4>2, ServerParts
      <4> QED BY ONLY <4>2, <4>3 DEF Block
    <3>3. Given(LocationKeys, Block(conf, n, l)) = GivenTo(LocationKeys, Block(conf, n, l), Len(Block(conf, n, l)))
      BY ONLY <3>2, GivenIs
    <3> HIDE DEF ls, c
    <3> QED BY ONLY <3>1, <3>2, <3>3 DEF Located
  <2>9. Meaning(conf)[n] = [port |-> GivenOf("listen", ds, Len(ds))[1],
                            values |-> GivenTo(ServerKeys, ds, Len(ds)), locations |-> ls]
    <3> DEFINE u == [m \in DOMAIN c.locations |-> L(m)]
               g == Given(ServerKeys, ds)
    <3>1. Meaning(conf)[n] = [port |-> g["listen"][1], values |-> g, locations |-> u]
      <4> HIDE DEF c
      <4>1. MeaningOf(c) = [port |-> Given(ServerKeys, c.directives)["listen"][1],
                            values |-> Given(ServerKeys, c.directives), locations |-> u]
        BY ONLY DEF MeaningOf
      <4> HIDE DEF u, ds
      <4> QED BY ONLY <2>1, <2>2, <4>1
    <3> HIDE DEF u, g, c
    <3>2. ls = u
      BY ONLY <3>1
    <3>3. g = GivenTo(ServerKeys, ds, Len(ds)) /\ g["listen"] = GivenOf("listen", ds, Len(ds))
      BY <2>4, <2>5 DEF g
    <3> HIDE DEF ds, ls
    <3> QED BY ONLY <3>1, <3>2, <3>3
  <2> HIDE DEF L
  <2> QED BY ONLY <2>7, <2>8, <2>9 DEF Means
<1>4. DOMAIN Meaning(conf) = 1..Len(conf)
  BY ONLY <1>1
<1> QED BY ONLY <1>2, <1>3, <1>4

\* A server that names its port names one.
LEMMA ListenIs ==
  ASSUME NEW conf \in Seq(Server), Listening(conf), NEW n \in 1..Len(conf)
  PROVE  LET ds == Block(conf, n, 0) IN \E x : GivenOf("listen", ds, Len(ds)) = <<x>>
<1> DEFINE ds == Block(conf, n, 0)
           S == {m \in 1..Len(ds) : ds[m][1] = "listen"}
<1>1. ds = conf[n].directives /\ ds \in Seq(Directive)
  BY ServerParts DEF Block
<1>2. \E d \in ToSet(ds) : d[1] = "listen"
  BY <1>1 DEF Listening
<1>3. S # {}
  <2> HIDE DEF ds
  <2> QED BY <1>1, <1>2 DEF ToSet
<1>4. GivenOf("listen", ds, Len(ds)) = <<Last(ds[Min(S)][2])>>
  <2> HIDE DEF ds
  <2> QED BY ONLY <1>3 DEF GivenOf, ListKeys, S
<1> QED BY ONLY <1>4

\* The ports of the directives read.
LEMMA PortsMetStep ==
  ASSUME NEW conf \in Seq(Server), NEW p, NEW q, NEW k, NEW w, Leads(conf, p, q, k, w), k # "KEY",
         PortsMet(conf, p)
  PROVE  PortsMet(conf, q)
<1> SUFFICES ASSUME NEW n \in 1..Len(conf), NEW d \in 1..Len(Block(conf, n, 0)), Met(q, n, 0, d)
             PROVE  Met(p, n, 0, d)
  BY DEF PortsMet
<1> DEFINE o == 0
<1>1. o \in 0..Len(conf[n].locations) /\ o = 0
  BY ServerParts
<1> HIDE DEF o
<1>2. d \in 1..Len(Block(conf, n, o)) /\ Met(q, n, o, d)
  BY <1>1
<1>3. Meets(conf, p, q, k, w, n, o, d)
  BY <1>1, <1>2, MeetsKey
<1> QED BY ONLY k # "KEY", <1>1, <1>2, <1>3 DEF Meets

\* A directive that is not a listen, or whose values are ports, keeps the ports met numbers.
LEMMA PortsMetKey ==
  ASSUME NEW conf \in Seq(Server), NEW n \in 1..Len(conf), NEW l \in 0..Len(conf[n].locations),
         NEW d \in 1..Len(Block(conf, n, l)), NEW h, h = d - 1, PortsMet(conf, InBlock(n, l, h)),
         l = 0 /\ Block(conf, n, l)[d][1] = "listen" => ToSet(Block(conf, n, l)[d][2]) \subseteq Ports
  PROVE  PortsMet(conf, InBlock(n, l, d))
<1>0. d \in Nat
  BY ServerParts
<1> SUFFICES ASSUME NEW x \in 1..Len(conf), NEW z \in 1..Len(Block(conf, x, 0)), Met(InBlock(n, l, d), x, 0, z),
                    Block(conf, x, 0)[z][1] = "listen"
             PROVE  ToSet(Block(conf, x, 0)[z][2]) \subseteq Ports
  BY DEF PortsMet
<1> DEFINE o == 0
<1>1. Met(InBlock(n, l, d), x, o, z)
  OBVIOUS
<1>2. z \in Nat /\ o = 0
  BY ServerParts
<1> HIDE DEF o
<1>3. /\ x < n \/ (x = n /\ (o < l \/ (o = l /\ z <= d)))
      /\ Met(InBlock(n, l, h), x, o, z) <=> x < n \/ (x = n /\ (o < l \/ (o = l /\ z <= h)))
  BY ONLY <1>1, MetInBlock
<1>4. Met(InBlock(n, l, h), x, o, z) \/ (x = n /\ o = l /\ z = d)
  BY ONLY <1>0, <1>2, <1>3, h = d - 1
<1>5. CASE Met(InBlock(n, l, h), x, o, z)
  BY <1>2, <1>5 DEF PortsMet
<1>6. CASE x = n /\ o = l /\ z = d
  BY <1>2, <1>6
<1> QED BY <1>4, <1>5, <1>6

\* A value or the semicolon follows.
ValueThere(conf, n, l, d, v, q, k, w) ==
  LET vs == Block(conf, n, l)[d][2]
  IN  \/ v # Len(vs) /\ q = InValues(n, l, d, v + 1) /\ k = "VALUE" /\ w = vs[v + 1]
      \/ v = Len(vs) /\ q = InBlock(n, l, d) /\ k = "SEMICOLON"

\* From a place among the values the walk goes on to the next value or to the semicolon.
LEMMA ValuesLead ==
  ASSUME NEW conf \in Seq(Server), NEW x \in 1..Len(conf), NEW y \in 0..Len(conf[x].locations),
         NEW z \in 1..Len(Block(conf, x, y)), NEW u \in 0..Len(Block(conf, x, y)[z][2]),
         NEW p, p = InValues(x, y, z, u), NEW q, NEW k, NEW w, Leads(conf, p, q, k, w)
  PROVE  ValueThere(conf, x, y, z, u, q, k, w)
<1>a. p.at = "values" /\ p.server = x /\ p.location = y /\ p.directive = z /\ p.value = u
  BY ONLY p = InValues(x, y, z, u), PlaceIs
<1>1. ASSUME NEW n \in 1..Len(conf), p = Top(n - 1), q = Opened(n), k = "SERVER", w = "server"
      PROVE  ValueThere(conf, x, y, z, u, q, k, w)
  <2> DEFINE m == n - 1
  <2>0. p = Top(m)
    BY <1>1
  <2> HIDE DEF m
  <2>1. p.at # "values"
    BY ONLY <2>0, PlaceIs
  <2> QED BY ONLY <1>a, <2>1
<1>2. ASSUME NEW n \in 1..Len(conf), p = Opened(n), q = InBlock(n, 0, 0), k = "OPEN_BRACKET",
             w = "{"
      PROVE  ValueThere(conf, x, y, z, u, q, k, w)
  <2>1. p.at # "values"
    BY ONLY <1>2, PlaceIs
  <2> QED BY ONLY <1>a, <2>1
<1>3. ASSUME NEW n \in 1..Len(conf), NEW l \in 0..Len(conf[n].locations),
             NEW d \in 1..Len(Block(conf, n, l)), p = InBlock(n, l, d - 1),
             q = InValues(n, l, d, 0), k = "KEY", w = Block(conf, n, l)[d][1]
      PROVE  ValueThere(conf, x, y, z, u, q, k, w)
  <2> DEFINE m == d - 1
  <2>0. p = InBlock(n, l, m)
    BY <1>3
  <2> HIDE DEF m
  <2>1. p.at # "values"
    BY ONLY <2>0, PlaceIs
  <2> QED BY ONLY <1>a, <2>1
<1>4. ASSUME NEW n \in 1..Len(conf), NEW l \in 0..Len(conf[n].locations),
             NEW d \in 1..Len(Block(conf, n, l)), NEW v \in 1..Len(Block(conf, n, l)[d][2]),
             p = InValues(n, l, d, v - 1), q = InValues(n, l, d, v), k = "VALUE",
             w = Block(conf, n, l)[d][2][v]
      PROVE  ValueThere(conf, x, y, z, u, q, k, w)
  <2> DEFINE m == v - 1
             s == Len(Block(conf, x, y)[z][2])
  <2>0. p = InValues(n, l, d, m) /\ v = m + 1
    <3>1. Len(Block(conf, n, l)[d][2]) \in Nat
      BY PlainInside
    <3> QED BY <1>4, <3>1
  <2> HIDE DEF m
  <2>1. p.server = n /\ p.location = l /\ p.directive = d /\ p.value = m
    BY ONLY <2>0, PlaceIs, SMTT(30)
  <2>2. x = n /\ y = l /\ z = d /\ u = m
    BY ONLY <1>a, <2>1
  <2>3. v = u + 1 /\ q = InValues(x, y, z, v) /\ k = "VALUE" /\ w = Block(conf, x, y)[z][2][v]
    BY ONLY <1>4, <2>0, <2>2
  <2>4. u # s
    <3>1. s \in Nat
      BY PlainInside
    <3>2. v \in 1..s
      BY ONLY <1>4, <2>2 DEF s
    <3> HIDE DEF s
    <3>3. u \in 0..s
      BY DEF s
    <3> QED BY ONLY <2>3, <3>1, <3>2, <3>3
  <2> QED BY ONLY <2>3, <2>4 DEF ValueThere, s
<1>5. ASSUME NEW n \in 1..Len(conf), NEW l \in 0..Len(conf[n].locations),
             NEW d \in 1..Len(Block(conf, n, l)),
             p = InValues(n, l, d, Len(Block(conf, n, l)[d][2])), q = InBlock(n, l, d),
             k = "SEMICOLON", w = ";"
      PROVE  ValueThere(conf, x, y, z, u, q, k, w)
  <2> DEFINE m == Len(Block(conf, n, l)[d][2])
  <2>0. p = InValues(n, l, d, m)
    BY <1>5
  <2> HIDE DEF m
  <2>1. p.server = n /\ p.location = l /\ p.directive = d /\ p.value = m
    BY ONLY <2>0, PlaceIs
  <2>2. x = n /\ y = l /\ z = d /\ u = m
    BY ONLY <1>a, <2>1
  <2> QED BY ONLY <1>5, <2>2 DEF ValueThere, m
<1>6. ASSUME NEW n \in 1..Len(conf), NEW l \in 1..Len(conf[n].locations),
             Ended(conf, p, n, l - 1), q = AtPath(n, l), k = "LOCATION", w = "location"
      PROVE  ValueThere(conf, x, y, z, u, q, k, w)
  <2> DEFINE m == Len(Block(conf, n, 0))
             h == l - 1
             o == 0
  <2>0. p = InBlock(n, o, m) \/ p = Behind(n, h)
    BY <1>6 DEF Ended
  <2> HIDE DEF m, h, o
  <2>1. p.at # "values"
    BY ONLY <2>0, PlaceIs
  <2> QED BY ONLY <1>a, <2>1
<1>7. ASSUME NEW n \in 1..Len(conf), NEW l \in 1..Len(conf[n].locations), p = AtPath(n, l),
             q = AtBracket(n, l), k = "PATH", w = conf[n].locations[l].path
      PROVE  ValueThere(conf, x, y, z, u, q, k, w)
  <2>1. p.at # "values"
    BY ONLY <1>7, PlaceIs
  <2> QED BY ONLY <1>a, <2>1
<1>8. ASSUME NEW n \in 1..Len(conf), NEW l \in 1..Len(conf[n].locations), p = AtBracket(n, l),
             q = InBlock(n, l, 0), k = "OPEN_BRACKET", w = "{"
      PROVE  ValueThere(conf, x, y, z, u, q, k, w)
  <2>1. p.at # "values"
    BY ONLY <1>8, PlaceIs
  <2> QED BY ONLY <1>a, <2>1
<1>9. ASSUME NEW n \in 1..Len(conf), NEW l \in 1..Len(conf[n].locations),
             p = InBlock(n, l, Len(Block(conf, n, l))), q = Behind(n, l), k = "CLOSE_BRACKET",
             w = "}"
      PROVE  ValueThere(conf, x, y, z, u, q, k, w)
  <2> DEFINE m == Len(Block(conf, n, l))
  <2>0. p = InBlock(n, l, m)
    BY <1>9
  <2> HIDE DEF m
  <2>1. p.at # "values"
    BY ONLY <2>0, PlaceIs
  <2> QED BY ONLY <1>a, <2>1
<1>10. ASSUME NEW n \in 1..Len(conf), Ended(conf, p, n, Len(conf[n].locations)), q = Top(n),
              k = "CLOSE_BRACKET", w = "}"
       PROVE  ValueThere(conf, x, y, z, u, q, k, w)
  <2> DEFINE m == Len(Block(conf, n, 0))
             h == Len(conf[n].locations)
             o == 0
  <2>0. p = InBlock(n, o, m) \/ p = Behind(n, h)
    BY <1>10 DEF Ended
  <2> HIDE DEF m, h, o
  <2>1. p.at # "values"
    BY ONLY <2>0, PlaceIs
  <2> QED BY ONLY <1>a, <2>1
<1> QED BY ONLY <1>1, <1>2, <1>3, <1>4, <1>5, <1>6, <1>7, <1>8, <1>9, <1>10, Leads(conf, p, q, k, w)
  DEF Leads, OpensServer, OpensBlock, ReadsKey, ReadsValue, EndsDirective,
      OpensLocation, ReadsPath, OpensInner, ClosesLocation, ClosesServer

\* Behind a value or the key of a directive stands another value or its semicolon.
LEMMA ReadsOn ==
  ASSUME NEW conf, NEW w, Reading(conf, w), NEW b \in 0..Len(file),
         NEW n \in 1..Len(conf), NEW l \in 0..Len(conf[n].locations),
         NEW d \in 1..Len(Block(conf, n, l)), NEW v \in 0..Len(Block(conf, n, l)[d][2]),
         w[b].place = InValues(n, l, d, v), NEW c, c = b + 1
  PROVE  c <= Len(file) /\ ValueThere(conf, n, l, d, v, w[c].place, w[c].kind, file[c])
<1>1. Len(file) \in Nat /\ w[Len(file)].place = Top(Len(conf))
  BY WalkStep
<1>2. b # Len(file)
  <2> DEFINE m == Len(conf)
  <2>1. Top(m).at # InValues(n, l, d, v).at
    <3> HIDE DEF m
    <3> QED BY ONLY PlaceIs
  <2> QED BY <1>1, <2>1
<1>3. c \in 1..Len(file) /\ c - 1 = b
  BY <1>1, <1>2
<1>4. conf \in Seq(Server)
  BY DEF Reading
<1>5. PICK p, q, k, f : p = w[b].place /\ q = w[c].place /\ k = w[c].kind /\ f = file[c]
  OBVIOUS
<1>6. Leads(conf, p, q, k, f)
  BY <1>3, <1>5, WalkStep
<1>7. p = InValues(n, l, d, v)
  BY <1>5
<1>8. ValueThere(conf, n, l, d, v, q, k, f)
  BY <1>4, <1>6, <1>7, ValuesLead
<1> QED BY <1>3, <1>5, <1>8

\* Behind the key of a directive stand its values and a semicolon.
ValuesBehind(conf, w, a, n, l, d, m) ==
  LET vs == Block(conf, n, l)[d][2]
      e  == a + m + 1
  IN  /\ \A v \in 1..m : w[a + v].kind = "VALUE" /\ file[a + v] = vs[v]
      /\ e <= Len(file) /\ w[e].kind = "SEMICOLON" /\ w[e].place = InBlock(n, l, d)

\* The values of a directive are the words behind its key, and the semicolon comes next.
LEMMA ValuesRead ==
  ASSUME NEW conf, NEW w, Reading(conf, w), NEW a \in 1..Len(file),
         NEW n \in 1..Len(conf), NEW l \in 0..Len(conf[n].locations),
         NEW d \in 1..Len(Block(conf, n, l)), NEW m, m = Len(Block(conf, n, l)[d][2]),
         w[a].place = InValues(n, l, d, 0)
  PROVE  ValuesBehind(conf, w, a, n, l, d, m)
<1>0. m \in Nat /\ Len(file) \in Nat /\ a \in Nat
  <2>1. m \in Nat
    BY PlainInside DEF Reading
  <2> QED BY <2>1, WalkStep
<1> DEFINE There(v) == ValueThere(conf, n, l, d, v, w[a + v + 1].place, w[a + v + 1].kind, file[a + v + 1])
           T == {v \in 0..m : a + v <= Len(file) /\ w[a + v].place = InValues(n, l, d, v)}
<1>1. 0 \in T
  BY <1>0
<1>2. ASSUME NEW v \in T
      PROVE  a + v + 1 <= Len(file) /\ There(v)
  <2>1. PICK b, c : b = a + v /\ c = a + v + 1
    OBVIOUS
  <2>2. b \in 0..Len(file) /\ c = b + 1 /\ v \in 0..Len(Block(conf, n, l)[d][2]) /\ w[b].place = InValues(n, l, d, v)
    BY <1>0, <2>1
  <2> HIDE DEF T
  <2>3. c <= Len(file) /\ ValueThere(conf, n, l, d, v, w[c].place, w[c].kind, file[c])
    BY <2>2, ReadsOn
  <2> QED BY ONLY <2>1, <2>3
<1>3. ASSUME NEW v \in 0..m - 1, v \in T
      PROVE  v + 1 \in T /\ w[a + v + 1].kind = "VALUE" /\ file[a + v + 1] = Block(conf, n, l)[d][2][v + 1]
  <2>1. There(v) /\ a + v + 1 <= Len(file)
    BY <1>2, <1>3
  <2>2. v # m /\ v + 1 \in 0..m /\ a + v + 1 = a + (v + 1)
    BY <1>0
  <2>3. /\ w[a + v + 1].place = InValues(n, l, d, v + 1)
        /\ w[a + v + 1].kind = "VALUE" /\ file[a + v + 1] = Block(conf, n, l)[d][2][v + 1]
    BY ONLY m = Len(Block(conf, n, l)[d][2]), <2>1, <2>2 DEF ValueThere
  <2> QED BY <2>1, <2>2, <2>3
<1>4. 0..m \subseteq T
  <2> HIDE DEF T
  <2> QED BY <1>0, <1>1, <1>3, Climb
<1>5. ASSUME NEW v \in 1..m
      PROVE  w[a + v].kind = "VALUE" /\ file[a + v] = Block(conf, n, l)[d][2][v]
  <2>1. PICK h : h = v - 1
    OBVIOUS
  <2>2. h \in 0..m - 1 /\ h + 1 = v /\ a + h + 1 = a + v
    BY <1>0, <2>1
  <2>3. h \in T
    <3>1. h \in 0..m
      BY <1>0, <2>2
    <3> HIDE DEF T
    <3> QED BY <1>4, <3>1
  <2>4. w[a + h + 1].kind = "VALUE" /\ file[a + h + 1] = Block(conf, n, l)[d][2][h + 1]
    BY <1>3, <2>2, <2>3
  <2> QED BY <2>2, <2>4
<1>6. /\ a + m + 1 <= Len(file) /\ w[a + m + 1].kind = "SEMICOLON"
      /\ w[a + m + 1].place = InBlock(n, l, d)
  <2>1. m \in T
    <3>1. m \in 0..m
      BY <1>0
    <3> HIDE DEF T
    <3> QED BY <1>4, <3>1
  <2>2. There(m) /\ a + m + 1 <= Len(file)
    BY <1>2, <2>1
  <2> QED BY ONLY m = Len(Block(conf, n, l)[d][2]), <2>2 DEF ValueThere
<1> HIDE DEF T, There
<1> QED BY ONLY <1>5, <1>6 DEF ValuesBehind

\* setValue finds the end of the directive and what stands before it.
EndThere(conf, w, n, l, d, e) ==
  LET ends == {x \in i + 1 .. Len(check) : check[x] = "SEMICOLON"}
  IN  /\ ends # {} /\ Min(ends) = e /\ w[e].place = InBlock(n, l, d) /\ e \in Nat
      /\ SubSeq(file, i + 1, e - 1) = Block(conf, n, l)[d][2]

\* The end that SetDirective looks for is that semicolon: it collects exactly these values.
LEMMA EndFound ==
  ASSUME NEW conf, NEW w, Reading(conf, w), Kinded(w), i \in 1..Len(file),
         NEW n \in 1..Len(conf), NEW l \in 0..Len(conf[n].locations),
         NEW d \in 1..Len(Block(conf, n, l)), NEW m, m = Len(Block(conf, n, l)[d][2]),
         w[i].place = InValues(n, l, d, 0), NEW e, e = i + m + 1
  PROVE  EndThere(conf, w, n, l, d, e)
<1> DEFINE ends == {x \in i + 1 .. Len(check) : check[x] = "SEMICOLON"}
           vs == Block(conf, n, l)[d][2]
<1>0. m \in Nat /\ Len(file) \in Nat /\ i \in Nat /\ Len(check) = Len(file) /\ vs \in Seq(Plain)
  <2>1. m \in Nat /\ vs \in Seq(Plain)
    BY PlainInside, DirectiveParts DEF Reading
  <2> QED BY <2>1, WalkStep DEF Kinded
<1>1. PICK a : a = i
  OBVIOUS
<1>2. ValuesBehind(conf, w, a, n, l, d, m)
  BY <1>1, ValuesRead
<1>3. /\ \A v \in 1..m : w[i + v].kind = "VALUE" /\ file[i + v] = vs[v]
      /\ e <= Len(file) /\ w[e].kind = "SEMICOLON" /\ w[e].place = InBlock(n, l, d)
  BY ONLY <1>1, <1>2, e = i + m + 1 DEF ValuesBehind
<1>4. e \in ends
  BY <1>0, <1>3, SMTT(30) DEF Kinded
<1>5. \A x \in ends : e <= x
  <2> SUFFICES ASSUME NEW x \in ends, x < e
               PROVE  FALSE
    BY <1>0, SMTT(30)
  <2>1. PICK v : v = x - i
    OBVIOUS
  <2>2. v \in 1..m /\ x = i + v /\ x \in 1..Len(file) /\ check[x] = "SEMICOLON"
    BY <1>0, <2>1
  <2>3. check[x] = w[x].kind
    BY <2>2 DEF Kinded
  <2> QED BY <1>3, <2>2, <2>3
<1>6. Min(ends) = e
  <2>1. ends \in SUBSET Nat /\ ends # {}
    <3>1. \A x \in i + 1 .. Len(check) : x \in Nat
      BY <1>0
    <3> QED BY ONLY <1>4, <3>1 DEF ends
  <2> HIDE DEF ends
  <2>2. Min(ends) \in ends /\ \A x \in ends : Min(ends) <= x
    BY ONLY <2>1, MinIs
  <2>3. Min(ends) \in Nat /\ Min(ends) <= e /\ e <= Min(ends)
    BY <1>4, <1>5, <2>1, <2>2
  <2>4. e \in Nat
    BY <1>0
  <2> HIDE DEF ends
  <2>5. PICK y : y = Min(ends)
    OBVIOUS
  <2> QED BY ONLY <2>3, <2>4, <2>5
<1>7. SubSeq(file, i + 1, e - 1) = vs
  <2>1. file \in Seq(AllWords)
    BY ServersType DEF Reading
  <2>2. e - 1 = i + m /\ i + m <= Len(file)
    BY <1>0, <1>3
  <2>3. /\ SubSeq(file, i + 1, i + m) \in Seq(AllWords)
        /\ Len(SubSeq(file, i + 1, i + m)) = m
        /\ \A v \in 1..m : SubSeq(file, i + 1, i + m)[v] = file[i + v]
    <3> HIDE DEF vs, ends
    <3> QED BY ONLY <1>0, <2>1, <2>2, Part
  <2>4. vs \in Seq(AllWords) /\ Len(vs) = m
    BY PlainInside, DirectiveParts DEF Reading
  <2> HIDE DEF vs
  <2>5. SubSeq(file, i + 1, i + m) = vs
    BY <1>3, <2>3, <2>4, SeqEqual, SMTT(30)
  <2> QED BY <2>2, <2>5
<1>8. e \in Nat /\ ends # {}
  <2>1. e \in Nat
    BY <1>0
  <2> HIDE DEF ends
  <2> QED BY <1>4, <2>1
<1> HIDE DEF ends, vs
<1>9. ends # {} /\ Min(ends) = e /\ w[e].place = InBlock(n, l, d) /\ e \in Nat /\ SubSeq(file, i + 1, e - 1) = vs
  BY ONLY <1>3, <1>6, <1>7, <1>8
<1> QED BY ONLY <1>9 DEF ends, vs, EndThere

\* A new server and a new location.
LEMMA NewIs ==
  ASSUME NEW conf, NEW n, NEW l
  PROVE  Served(conf, n, 0, 0) = NewServer /\ Located(conf, n, l, None, 0) = NewLocation
<1>1. Served(conf, n, 0, 0) = NewServer
  BY GivenNone, FirstGrows DEF Served, NewServer
<1>2. Located(conf, n, l, None, 0) = NewLocation
  BY GivenNone DEF Located, NewLocation
<1> QED BY ONLY <1>1, <1>2

\* A path or a name that is there twice.
LEMMA TwicePath ==
  ASSUME NEW conf \in Seq(Server), NEW n \in 1..Len(conf), NEW l \in 1..Len(conf[n].locations), NEW h, h = l - 1,
         NEW ls, ls = Meaning(conf)[n].locations, ls[l].path \in {a.path : a \in ToSet(First(ls, h))}
  PROVE  ~Valid(conf)
<1>1. Means(conf, n) /\ DOMAIN Meaning(conf) = 1..Len(conf)
  BY MeaningIs
<1>2. DOMAIN ls = 1..Len(conf[n].locations) /\ n \in DOMAIN Meaning(conf)
  BY <1>1 DEF Means
<1>3. h \in Nat /\ \A x \in 1..h : x \in 1..Len(conf[n].locations) /\ x # l
  BY ServerParts
<1>4. /\ First(ls, h) = [x \in 1..h |-> ls[x]]
  BY ONLY DEF First
<1>5. PICK x \in 1..h : ls[x].path = ls[l].path
  BY ONLY <1>4, ls[l].path \in {a.path : a \in ToSet(First(ls, h))} DEF ToSet
<1> QED BY <1>2, <1>3, <1>5 DEF Valid, Unambiguous

\* A server refused for its name and port makes the configuration invalid.
LEMMA TwiceName ==
  ASSUME NEW conf \in Seq(Server), NEW n \in 1..Len(conf), NEW h, h = n - 1,
         NEW s \in ToSet(First(Meaning(conf), h)), s.port = Meaning(conf)[n].port,
         ToSet(s.values["server_name"]) \cap ToSet(Meaning(conf)[n].values["server_name"]) # {}
  PROVE  ~Valid(conf)
<1> DEFINE M == Meaning(conf)
<1>1. DOMAIN M = 1..Len(conf)
  BY MeaningIs
<1>2. h \in Nat /\ n \in DOMAIN M /\ \A x \in 1..h : x \in DOMAIN M /\ x # n
  <2>1. Len(conf) \in Nat
    BY ServersType
  <2> HIDE DEF M
  <2> QED BY <1>1, <2>1
<1>3. First(M, h) = [x \in 1..h |-> M[x]]
  BY ONLY DEF First
<1>4. PICK x \in 1..h : s = M[x]
  <2> HIDE DEF M
  <2>1. s \in ToSet(First(M, h))
    BY DEF M
  <2> QED BY ONLY <1>3, <2>1 DEF ToSet
<1>5. M[x].port = M[n].port /\ ToSet(M[x].values["server_name"]) \cap ToSet(M[n].values["server_name"]) # {}
  BY ONLY <1>4, s.port = Meaning(conf)[n].port,
          ToSet(s.values["server_name"]) \cap ToSet(Meaning(conf)[n].values["server_name"]) # {}
<1> HIDE DEF M
<1>6. ~Unambiguous(M)
  BY ONLY <1>2, <1>5 DEF Unambiguous
<1> QED BY <1>6 DEF Valid, M

\* What setValue has built behind a word that leads to q.
Built(conf, q) ==
  \/ /\ i' = i + 1 /\ UNCHANGED <<phase, lists>>
     /\ PortsMet(conf, q)
     /\ BuiltAt(conf, q, block', server', location', servers')
  \/ phase' = "error" /\ UNCHANGED lists /\ ~Valid(conf)

\* setValue: a word that is no key leaves the values of the place behind it, or throws rightly.
LEMMA BuildStep ==
  ASSUME NEW conf \in Seq(Server), Listening(conf), NEW p, NEW q, NEW k, NEW w, Leads(conf, p, q, k, w),
         k # "KEY", check[i] = k, file[i] = w, Building(conf, p), SetValue, ~AtEnd("setValue")
  PROVE  Built(conf, q)
<1> DEFINE kept == i' = i + 1 /\ UNCHANGED <<phase, lists>>
           same == kept /\ UNCHANGED <<block, server, location, servers>>
<1>a. /\ k = "SERVER"   => kept /\ block' = "SERVER" /\ server' = NewServer /\ UNCHANGED <<location, servers>>
      /\ k = "LOCATION" => kept /\ block' = "LOCATION" /\ location' = NewLocation /\ UNCHANGED <<server, servers>>
      /\ k = "PATH"     => kept /\ location' = [location EXCEPT !.path = w] /\ UNCHANGED <<block, server, servers>>
      /\ k \in {"OPEN_BRACKET", "SEMICOLON", "VALUE"} => same
      /\ k = "CLOSE_BRACKET" /\ block = "SERVER" => CloseServer
      /\ k = "CLOSE_BRACKET" /\ block = "LOCATION" => CloseLocation
  BY DEF SetValue, values
<1>b. PortsMet(conf, q) /\ BuiltAt(conf, p, block, server, location, servers)
  BY PortsMetStep DEF Building
<1>c. PICK b1, v1, l1, s1 : b1 = block' /\ v1 = server' /\ l1 = location' /\ s1 = servers'
  OBVIOUS
<1>d. PICK b, srv, loc, ss : b = block /\ srv = server /\ loc = location /\ ss = servers
  OBVIOUS
<1>e. BuiltAt(conf, p, b, srv, loc, ss)
  BY ONLY <1>b, <1>d
<1>f. kept /\ BuiltAt(conf, q, b1, v1, l1, s1) => Built(conf, q)
  BY ONLY <1>b, <1>c DEF Built
<1>g. /\ \A n \in 1..Len(conf) : \A l \in 1..Len(conf[n].locations) : l \in Nat /\ l # 0
      /\ \A n \in 1..Len(conf) : n \in Nat /\ Len(conf) \in Nat /\ Len(conf[n].locations) \in Nat
  BY ServerParts, ServersType
<1>h. ASSUME NEW n, NEW l
      PROVE  Served(conf, n, 0, 0) = NewServer /\ Located(conf, n, l, None, 0) = NewLocation
  BY NewIs
<1> DEFINE o == 0
<1>o. o = 0
  OBVIOUS
<1> HIDE DEF kept, same, o
<1>1. ASSUME NEW n \in 1..Len(conf), p = Top(n - 1), q = Opened(n), k = "SERVER", w = "server"
      PROVE  Built(conf, q)
  <2> DEFINE h == n - 1
  <2>1. p = Top(h) /\ q = Opened(n) /\ h = n - 1
    BY <1>1
  <2> HIDE DEF h
  <2>2. ss = First(Meaning(conf), h)
    BY ONLY <1>e, <2>1, BuiltTop
  <2>3. kept /\ b1 = "SERVER" /\ v1 = NewServer /\ s1 = ss
    BY ONLY <1>1, <1>a, <1>c, <1>d
  <2>4. BuiltAt(conf, Opened(n), b1, v1, l1, s1) <=>
          b1 = "SERVER" /\ s1 = First(Meaning(conf), n - 1) /\ v1 = Served(conf, n, 0, 0)
    BY ONLY BuiltOpened
  <2> QED BY ONLY <1>f, <1>h, <2>1, <2>2, <2>3, <2>4
<1>2. ASSUME NEW n \in 1..Len(conf), p = Opened(n), q = InBlock(n, 0, 0), k = "OPEN_BRACKET",
             w = "{"
      PROVE  Built(conf, q)
  <2>1. same /\ b1 = b /\ v1 = srv /\ l1 = loc /\ s1 = ss
    <3>1. same
      BY ONLY <1>2, <1>a
    <3> QED BY ONLY <1>c, <1>d, <3>1 DEF same
  <2>2. BuiltAt(conf, Opened(n), b, srv, loc, ss) <=>
          b = "SERVER" /\ ss = First(Meaning(conf), n - 1) /\ srv = Served(conf, n, 0, 0)
    BY ONLY BuiltOpened
  <2>3. BuiltAt(conf, InBlock(n, o, o), b1, v1, l1, s1) <=>
          b1 = "SERVER" /\ s1 = First(Meaning(conf), n - 1) /\ v1 = Served(conf, n, o, 0)
    BY ONLY <1>o, BuiltOuter
  <2>4. p = Opened(n) /\ q = InBlock(n, o, o)
    BY ONLY <1>2, <1>o
  <2> QED BY ONLY <1>e, <1>f, <1>o, <2>1, <2>2, <2>3, <2>4 DEF same
<1>3. ASSUME NEW n \in 1..Len(conf), NEW l \in 0..Len(conf[n].locations),
             NEW d \in 1..Len(Block(conf, n, l)), p = InBlock(n, l, d - 1),
             q = InValues(n, l, d, 0), k = "KEY", w = Block(conf, n, l)[d][1]
      PROVE  Built(conf, q)
  BY <1>3
<1>4. ASSUME NEW n \in 1..Len(conf), NEW l \in 0..Len(conf[n].locations),
             NEW d \in 1..Len(Block(conf, n, l)), NEW v \in 1..Len(Block(conf, n, l)[d][2]),
             p = InValues(n, l, d, v - 1), q = InValues(n, l, d, v), k = "VALUE",
             w = Block(conf, n, l)[d][2][v]
      PROVE  Built(conf, q)
  <2>1. ~BuiltAt(conf, p, b, srv, loc, ss)
    <3> DEFINE m == v - 1
    <3>1. p = InValues(n, l, d, m)
      BY <1>4
    <3> HIDE DEF m
    <3> QED BY ONLY <3>1, BuiltValues
  <2> QED BY ONLY <1>e, <2>1
<1>5. ASSUME NEW n \in 1..Len(conf), NEW l \in 0..Len(conf[n].locations),
             NEW d \in 1..Len(Block(conf, n, l)),
             p = InValues(n, l, d, Len(Block(conf, n, l)[d][2])), q = InBlock(n, l, d),
             k = "SEMICOLON", w = ";"
      PROVE  Built(conf, q)
  <2>1. ~BuiltAt(conf, p, b, srv, loc, ss)
    <3> DEFINE m == Len(Block(conf, n, l)[d][2])
    <3>1. p = InValues(n, l, d, m)
      BY <1>5
    <3> HIDE DEF m
    <3> QED BY ONLY <3>1, BuiltValues
  <2> QED BY ONLY <1>e, <2>1
<1>6. ASSUME NEW n \in 1..Len(conf), NEW l \in 1..Len(conf[n].locations),
             Ended(conf, p, n, l - 1), q = AtPath(n, l), k = "LOCATION", w = "location"
      PROVE  Built(conf, q)
  <2> DEFINE m == Own(conf, n)
             h == l - 1
  <2>1. (h = 0 /\ p = InBlock(n, h, m)) \/ (h # 0 /\ p = Behind(n, h))
    <3>1. Len(Block(conf, n, 0)) = m
      BY DEF Own
    <3>2. h \in Nat
      BY <1>6, <1>g
    <3> QED BY ONLY <1>6, <3>1, <3>2 DEF Ended, h
  <2>2. m = Own(conf, n) /\ h = l - 1 /\ l # 0
    BY <1>6, <1>g
  <2> HIDE DEF m, h
  <2>3. ss = First(Meaning(conf), n - 1) /\ srv = Served(conf, n, Own(conf, n), h)
    <3>1. CASE h = 0 /\ p = InBlock(n, h, m)
      BY ONLY <1>e, <2>2, <3>1, BuiltOuter
    <3>2. CASE h # 0 /\ p = Behind(n, h)
      BY ONLY <1>e, <2>2, <3>2, BuiltBehind
    <3> QED BY ONLY <2>1, <3>1, <3>2
  <2>4. kept /\ b1 = "LOCATION" /\ v1 = srv /\ l1 = NewLocation /\ s1 = ss
    BY ONLY <1>6, <1>a, <1>c, <1>d
  <2>5. BuiltAt(conf, AtPath(n, l), b1, v1, l1, s1) <=>
              /\ b1 = "LOCATION" /\ s1 = First(Meaning(conf), n - 1) /\ v1 = Served(conf, n, Own(conf, n), l - 1)
              /\ l1 = Located(conf, n, l, None, 0)
    BY ONLY <2>2, BuiltPath
  <2> QED BY ONLY <1>6, <1>f, <1>h, <2>2, <2>3, <2>4, <2>5
<1>7. ASSUME NEW n \in 1..Len(conf), NEW l \in 1..Len(conf[n].locations), p = AtPath(n, l),
             q = AtBracket(n, l), k = "PATH", w = conf[n].locations[l].path
      PROVE  Built(conf, q)
  <2>1. l # 0 /\ p = AtPath(n, l) /\ q = AtBracket(n, l)
    BY <1>7, <1>g
  <2>2. BuiltAt(conf, AtPath(n, l), b, srv, loc, ss) <=>
              /\ b = "LOCATION" /\ ss = First(Meaning(conf), n - 1) /\ srv = Served(conf, n, Own(conf, n), l - 1)
              /\ loc = Located(conf, n, l, None, 0)
    BY ONLY <2>1, BuiltPath
  <2>3. BuiltAt(conf, AtBracket(n, l), b1, v1, l1, s1) <=>
              /\ b1 = "LOCATION" /\ s1 = First(Meaning(conf), n - 1) /\ v1 = Served(conf, n, Own(conf, n), l - 1)
              /\ l1 = Located(conf, n, l, conf[n].locations[l].path, 0)
    BY ONLY <2>1, BuiltBracket
  <2>4. kept /\ b1 = b /\ v1 = srv /\ s1 = ss /\ l1 = [loc EXCEPT !.path = conf[n].locations[l].path]
    BY ONLY <1>7, <1>a, <1>c, <1>d
  <2>5. [Located(conf, n, l, None, 0) EXCEPT !.path = conf[n].locations[l].path] = Located(conf, n, l, conf[n].locations[l].path, 0)
    BY ONLY DEF Located
  <2> QED BY ONLY <1>e, <1>f, <2>1, <2>2, <2>3, <2>4, <2>5
<1>8. ASSUME NEW n \in 1..Len(conf), NEW l \in 1..Len(conf[n].locations), p = AtBracket(n, l),
             q = InBlock(n, l, 0), k = "OPEN_BRACKET", w = "{"
      PROVE  Built(conf, q)
  <2>1. l # 0 /\ p = AtBracket(n, l) /\ q = InBlock(n, l, o)
    BY <1>8, <1>g, <1>o
  <2>2. BuiltAt(conf, AtBracket(n, l), b, srv, loc, ss) <=>
              /\ b = "LOCATION" /\ ss = First(Meaning(conf), n - 1) /\ srv = Served(conf, n, Own(conf, n), l - 1)
              /\ loc = Located(conf, n, l, conf[n].locations[l].path, 0)
    BY ONLY <2>1, BuiltBracket
  <2>3. BuiltAt(conf, InBlock(n, l, o), b1, v1, l1, s1) <=>
              /\ b1 = "LOCATION" /\ s1 = First(Meaning(conf), n - 1) /\ v1 = Served(conf, n, Own(conf, n), l - 1)
              /\ l1 = Located(conf, n, l, conf[n].locations[l].path, o)
    BY ONLY <2>1, BuiltInner
  <2>4. same /\ b1 = b /\ v1 = srv /\ l1 = loc /\ s1 = ss
    <3>1. same
      BY ONLY <1>8, <1>a
    <3> QED BY ONLY <1>c, <1>d, <3>1 DEF same
  <2> QED BY ONLY <1>e, <1>f, <1>o, <2>1, <2>2, <2>3, <2>4 DEF same
<1>9. ASSUME NEW n \in 1..Len(conf), NEW l \in 1..Len(conf[n].locations),
             p = InBlock(n, l, Len(Block(conf, n, l))), q = Behind(n, l), k = "CLOSE_BRACKET",
             w = "}"
      PROVE  Built(conf, q)
  <2> DEFINE e == Len(Block(conf, n, l))
             h == l - 1
             ls == Meaning(conf)[n].locations
  <2>1. l # 0 /\ p = InBlock(n, l, e) /\ q = Behind(n, l) /\ h = l - 1
        /\ h \in Nat /\ h + 1 = l
    <3>1. l \in Nat
      BY ONLY <1>9, <1>g
    <3>2. l # 0
      BY <1>9, <1>g
    <3>3. h \in Nat /\ h + 1 = l
      BY ONLY <3>1, <3>2
    <3> QED BY ONLY <1>9, <3>2, <3>3 DEF e, h
  <2>2. ls[l] = Located(conf, n, l, conf[n].locations[l].path, e)
    <3>1. Means(conf, n)
      BY MeaningIs
    <3> QED BY <3>1, <1>9 DEF Means
  <2>3. ls = Meaning(conf)[n].locations
    OBVIOUS
  <2> HIDE DEF e, h, ls
  <2>4. BuiltAt(conf, InBlock(n, l, e), b, srv, loc, ss) <=>
              /\ b = "LOCATION" /\ ss = First(Meaning(conf), n - 1) /\ srv = Served(conf, n, Own(conf, n), l - 1)
              /\ loc = Located(conf, n, l, conf[n].locations[l].path, e)
    BY ONLY <2>1, BuiltInner
  <2>5. BuiltAt(conf, Behind(n, l), b1, v1, l1, s1) <=>
              /\ b1 = "SERVER" /\ s1 = First(Meaning(conf), n - 1) /\ v1 = Served(conf, n, Own(conf, n), l)
    BY ONLY <2>1, BuiltBehind
  <2>6. b = "LOCATION" /\ ss = First(Meaning(conf), n - 1) /\ srv = Served(conf, n, Own(conf, n), h) /\ loc = ls[l]
    BY ONLY <1>e, <2>1, <2>2, <2>4
  <2>7. srv.locations = First(ls, h)
    BY ONLY <2>3, <2>6 DEF Served
  <2>8. CloseLocation
    BY ONLY <1>9, <1>a, <1>d, <2>6
  <2>9. CASE location.path \in {a.path : a \in ToSet(server.locations)}
    <3>1. ls[l].path \in {a.path : a \in ToSet(First(ls, h))}
      BY ONLY <1>d, <2>6, <2>7, <2>9
    <3>2. ~Valid(conf)
      BY <2>1, <2>3, <3>1, TwicePath
    <3>3. Throw
      BY ONLY <2>8, <2>9 DEF CloseLocation
    <3> QED BY ONLY <3>2, <3>3 DEF Built, Throw
  <2>10. CASE location.path \notin {a.path : a \in ToSet(server.locations)}
    <3>1. /\ kept /\ b1 = "SERVER" /\ s1 = ss
          /\ v1 = [srv EXCEPT !.locations = Append(@, loc)]
      BY ONLY <1>c, <1>d, <2>8, <2>10 DEF CloseLocation, kept
    <3>2. First(ls, l) = Append(First(ls, h), ls[l])
      BY ONLY <2>1, FirstGrows
    <3>3. Served(conf, n, Own(conf, n), l) = [Served(conf, n, Own(conf, n), h) EXCEPT !.locations = First(ls, l)]
      BY ONLY <2>3 DEF Served
    <3>4. v1 = Served(conf, n, Own(conf, n), l)
      BY ONLY <2>6, <2>7, <3>1, <3>2, <3>3
    <3> QED BY ONLY <1>f, <2>1, <2>5, <2>6, <3>1, <3>4
  <2> QED BY ONLY <2>9, <2>10
<1>10. ASSUME NEW n \in 1..Len(conf), Ended(conf, p, n, Len(conf[n].locations)), q = Top(n),
              k = "CLOSE_BRACKET", w = "}"
       PROVE  Built(conf, q)
  <2> DEFINE m == Own(conf, n)
             e == Len(conf[n].locations)
             h == n - 1
             M == Meaning(conf)
             ds == Block(conf, n, 0)
  <2>1. (e = 0 /\ p = InBlock(n, e, m)) \/ (e # 0 /\ p = Behind(n, e))
    <3>1. Len(Block(conf, n, 0)) = m
      BY DEF Own
    <3>2. e \in Nat
      BY <1>10, <1>g
    <3>3. Ended(conf, p, n, e)
      BY <1>10
    <3> HIDE DEF e, m
    <3> QED BY ONLY <3>1, <3>2, <3>3 DEF Ended
  <2>2. m = Own(conf, n) /\ q = Top(n) /\ h = n - 1 /\ h \in Nat /\ h + 1 = n
    <3>1. n \in 1..Len(conf) /\ Len(conf) \in Nat
      BY <1>10, <1>g
    <3>2. h \in Nat /\ h + 1 = n
      BY ONLY <3>1
    <3> QED BY ONLY <1>10, <3>2 DEF m, h
  <2>3. M[n] = [port |-> GivenOf("listen", ds, m)[1], values |-> GivenTo(ServerKeys, ds, m), locations |-> M[n].locations]
        /\ First(M[n].locations, e) = M[n].locations
    <3>1. Means(conf, n)
      BY MeaningIs
    <3> QED BY ONLY <3>1 DEF Means, Own
  <2>4. PICK x : GivenOf("listen", ds, m) = <<x>>
    BY ListenIs DEF Own
  <2>5. M = Meaning(conf)
    OBVIOUS
  <2>6. Served(conf, n, m, e) = [values |-> GivenTo(ServerKeys, ds, m), locations |-> First(M[n].locations, e)]
    BY ONLY DEF Served
  <2> HIDE DEF m, e, h, M, ds
  <2>7. b = "SERVER" /\ ss = First(Meaning(conf), n - 1) /\ srv = Served(conf, n, Own(conf, n), e)
    <3>1. CASE e = 0 /\ p = InBlock(n, e, m)
      BY ONLY <1>e, <2>2, <3>1, BuiltOuter
    <3>2. CASE e # 0 /\ p = Behind(n, e)
      BY ONLY <1>e, <2>2, <3>2, BuiltBehind
    <3> QED BY ONLY <2>1, <3>1, <3>2
  <2>8. srv.values["listen"] = <<x>> /\ srv.values = M[n].values /\ srv.locations = M[n].locations /\ M[n].port = x
    <3>1. GivenTo(ServerKeys, ds, m)["listen"] = GivenOf("listen", ds, m)
      BY ONLY DEF GivenTo, ServerKeys
    <3> QED BY ONLY <2>2, <2>3, <2>4, <2>6, <2>7, <3>1
  <2>9. M[n] = [port |-> x, values |-> srv.values, locations |-> srv.locations]
    BY ONLY <2>2, <2>3, <2>4, <2>6, <2>7
  <2>10. ListenPorts = {x}
    <3>1. srv.values["listen"] # <<>> /\ ToSet(srv.values["listen"]) = {x}
      <4>1. \A s : s = <<x>> => s # <<>> /\ ToSet(s) = {x}
        BY DEF ToSet
      <4> QED BY ONLY <2>8, <4>1
    <3> QED BY ONLY <1>d, <3>1 DEF ListenPorts
  <2>11. CloseServer
    BY ONLY <1>10, <1>a, <1>d, <2>7
  <2>12. CASE Clash(x)
    <3>1. ~Valid(conf)
      <4>1. PICK s \in ToSet(ss) : s.port = x /\ ToSet(s.values["server_name"]) \cap ToSet(srv.values["server_name"]) # {}
        BY ONLY <1>d, <2>12 DEF Clash
      <4>2. s \in ToSet(First(Meaning(conf), h)) /\ s.port = Meaning(conf)[n].port
            /\ ToSet(s.values["server_name"]) \cap ToSet(Meaning(conf)[n].values["server_name"]) # {}
        BY ONLY <2>2, <2>5, <2>7, <2>8, <4>1
      <4> QED BY <2>2, <4>2, TwiceName
    <3>2. Throw
      BY ONLY <2>10, <2>11, <2>12 DEF CloseServer
    <3> QED BY ONLY <3>1, <3>2 DEF Built, Throw
  <2>13. CASE ~Clash(x)
    <3>1. /\ kept /\ b1 = b
          /\ s1 = Append(ss, [port |-> x, values |-> srv.values, locations |-> srv.locations])
      BY ONLY <1>c, <1>d, <2>10, <2>11, <2>13 DEF CloseServer, kept
    <3>2. First(M, n) = Append(First(M, h), M[n])
      BY ONLY <2>2, FirstGrows
    <3>3. s1 = First(M, n)
      BY ONLY <2>2, <2>5, <2>7, <2>9, <3>1, <3>2
    <3>4. BuiltAt(conf, Top(n), b1, v1, l1, s1) <=> b1 = "SERVER" /\ s1 = First(Meaning(conf), n)
      BY ONLY BuiltTop
    <3> QED BY ONLY <1>f, <2>2, <2>5, <2>7, <3>1, <3>3, <3>4
  <2> QED BY ONLY <2>12, <2>13
<1> QED BY ONLY <1>1, <1>2, <1>3, <1>4, <1>5, <1>6, <1>7, <1>8, <1>9, <1>10, Leads(conf, p, q, k, w)
  DEF Leads, OpensServer, OpensBlock, ReadsKey, ReadsValue, EndsDirective,
      OpensLocation, ReadsPath, OpensInner, ClosesLocation, ClosesServer

\* At the end everything is met, and a configuration all of whose keys are known and new
\* and whose ports are numbers is valid if its routes are unambiguous.
LEMMA AllMet ==
  ASSUME NEW conf \in Seq(Server), NEW n \in 1..Len(conf), NEW l, NEW d
  PROVE  Met(Top(Len(conf)), n, l, d)
<1> DEFINE m == Len(conf)
<1>1. n < m \/ n = m
  <2>1. m \in Nat
    BY ServersType
  <2> QED BY <2>1
<1> HIDE DEF m
<1>2. Met(Top(m), n, l, d)
  BY ONLY <1>1, MetElsewhere
<1> QED BY <1>2 DEF m

\* Keys that are all known and none of them met before are KeysDiffer.
LEMMA KeysFit ==
  ASSUME NEW keys, NEW ds \in Seq(Directive), \A d \in 1..Len(ds) : ds[d][1] \in keys,
         \A d \in 1..Len(ds) : \A x \in 1..d - 1 : ds[x][1] # ds[d][1]
  PROVE  KeysDiffer(keys, ds)
<1>1. DOMAIN ds = 1..Len(ds) /\ Len(ds) \in Nat
  OBVIOUS
<1>2. ASSUME NEW a \in DOMAIN ds, NEW b \in DOMAIN ds, ds[a][1] = ds[b][1]
      PROVE  a = b
  <2>1. a \in 1..b - 1 \/ b \in 1..a - 1 \/ a = b
    BY <1>1
  <2> QED BY <1>1, <1>2, <2>1
<1> QED BY <1>1, <1>2 DEF KeysDiffer

\* A configuration whose keys and ports were all met without complaint is valid.
LEMMA AllValid ==
  ASSUME NEW conf \in Seq(Server), KeysMet(conf, Top(Len(conf))), PortsMet(conf, Top(Len(conf))),
         Unambiguous(Meaning(conf))
  PROVE  Valid(conf)
<1>0. DOMAIN conf = 1..Len(conf)
  BY ServersType
<1>1. ASSUME NEW n \in 1..Len(conf), NEW l \in 0..Len(conf[n].locations)
      PROVE  KeysDiffer(KeysOf(BlockName(l)), Block(conf, n, l))
  <2> DEFINE ds == Block(conf, n, l)
  <2>1. ds \in Seq(Directive)
    BY ServerParts
  <2>2. \A d \in 1..Len(ds) : KeyFits(conf, n, l, d)
    BY AllMet DEF KeysMet
  <2>3. /\ \A d \in 1..Len(ds) : ds[d][1] \in KeysOf(BlockName(l))
        /\ \A d \in 1..Len(ds) : \A x \in 1..d - 1 : ds[x][1] # ds[d][1]
    BY ONLY <2>2 DEF KeyFits
  <2> HIDE DEF ds
  <2>4. KeysDiffer(KeysOf(BlockName(l)), ds)
    BY ONLY <2>1, <2>3, KeysFit
  <2> QED BY <2>4 DEF ds
<1>2. ASSUME NEW n \in DOMAIN conf
      PROVE  /\ KeysDiffer(ServerKeys, conf[n].directives)
             /\ \A d \in ToSet(conf[n].directives) : d[1] = "listen" => ToSet(d[2]) \subseteq Ports
             /\ \A c \in ToSet(conf[n].locations) : KeysDiffer(LocationKeys, c.directives)
  <2>1. /\ n \in 1..Len(conf) /\ conf[n].directives \in Seq(Directive) /\ conf[n].locations \in Seq(Location)
        /\ Len(conf[n].locations) \in Nat
    BY <1>0, <1>2, ServerParts
  <2>2. KeysDiffer(ServerKeys, conf[n].directives)
    <3>1. 0 \in 0..Len(conf[n].locations)
      BY <2>1
    <3>2. KeysDiffer(KeysOf(BlockName(0)), Block(conf, n, 0))
      BY <1>1, <2>1, <3>1
    <3> QED BY ONLY <3>2 DEF KeysOf, BlockName, Block
  <2>3. ASSUME NEW d \in ToSet(conf[n].directives), d[1] = "listen"
        PROVE  ToSet(d[2]) \subseteq Ports
    <3>1. PICK x \in 1..Len(conf[n].directives) : d = conf[n].directives[x]
      BY <2>1, <2>3 DEF ToSet
    <3>2. x \in 1..Len(Block(conf, n, 0)) /\ Block(conf, n, 0)[x] = d
      BY <3>1 DEF Block
    <3>3. Met(Top(Len(conf)), n, 0, x)
      BY <2>1, AllMet
    <3> QED BY <2>1, <2>3, <3>2, <3>3 DEF PortsMet
  <2>4. ASSUME NEW c \in ToSet(conf[n].locations)
        PROVE  KeysDiffer(LocationKeys, c.directives)
    <3>1. PICK l \in 1..Len(conf[n].locations) : c = conf[n].locations[l]
      BY <2>1, <2>4 DEF ToSet
    <3>2. l \in 0..Len(conf[n].locations) /\ l # 0
      BY <2>1, <3>1
    <3>3. KeysDiffer(KeysOf(BlockName(l)), Block(conf, n, l))
      BY <1>1, <2>1, <3>2
    <3> QED BY ONLY <3>1, <3>2, <3>3 DEF KeysOf, BlockName, Block
  <2> QED BY <2>2, <2>3, <2>4
<1> QED BY <1>2 DEF Valid

\* setValue takes the directive whose key is next.
DirectiveBuilt(conf, w, n, l, d) ==
  \/ /\ \E e \in Nat : i' = e + 1 /\ w[e].place = InBlock(n, l, d)
     /\ UNCHANGED <<phase, lists>>
     /\ PortsMet(conf, InBlock(n, l, d))
     /\ BuiltAt(conf, InBlock(n, l, d), block', server', location', servers')
  \/ phase' = "error" /\ UNCHANGED lists /\ ~Valid(conf)

\* Its port, if it has one, is a number, or the configuration is not valid.
LEMMA PortIs ==
  ASSUME NEW conf \in Seq(Server), NEW n \in 1..Len(conf), NEW d \in 1..Len(Block(conf, n, 0)),
         Block(conf, n, 0)[d][1] = "listen", ~(ToSet(Block(conf, n, 0)[d][2]) \subseteq Ports)
  PROVE  ~Valid(conf)
<1>1. n \in DOMAIN conf
  BY ServersType
<1>2. Block(conf, n, 0) \in Seq(Directive) /\ Block(conf, n, 0) = conf[n].directives
  BY ServerParts DEF Block
<1>3. Block(conf, n, 0)[d] \in ToSet(conf[n].directives)
  BY <1>2 DEF ToSet
<1> QED BY <1>1, <1>3 DEF Valid

\* setValue: a key takes the values of its directive and goes on behind the semicolon, or throws rightly.
LEMMA DirectiveStep ==
  ASSUME NEW conf, NEW w, Reading(conf, w), Kinded(w), i \in 1..Len(file),
         NEW n \in 1..Len(conf), NEW l \in 0..Len(conf[n].locations),
         NEW d \in 1..Len(Block(conf, n, l)), NEW h, h = d - 1,
         w[i].place = InValues(n, l, d, 0), file[i] = Block(conf, n, l)[d][1],
         KeyFits(conf, n, l, d), Building(conf, InBlock(n, l, h)), SetDirective
  PROVE  DirectiveBuilt(conf, w, n, l, d)
<1> DEFINE ds == Block(conf, n, l)
           k  == ds[d][1]
           vs == ds[d][2]
           ends == {x \in i + 1 .. Len(check) : check[x] = "SEMICOLON"}
<1>0. conf \in Seq(Server) /\ ds \in Seq(Directive) /\ d \in 1..Len(ds) /\ file[i] = k
  BY ServerParts DEF Reading
<1>1. PICK m, e : m = Len(Block(conf, n, l)[d][2]) /\ e = i + m + 1
  OBVIOUS
<1>2. ends # {} /\ Min(ends) = e /\ w[e].place = InBlock(n, l, d) /\ e \in Nat /\ SubSeq(file, i + 1, e - 1) = vs
  <2>1. EndThere(conf, w, n, l, d, e)
    BY <1>1, EndFound
  <2> QED BY ONLY <2>1 DEF EndThere
<1>3. k \in KeysOf(BlockName(l)) /\ \A x \in 1..d - 1 : ds[x][1] # ds[d][1]
  BY ONLY KeyFits(conf, n, l, d) DEF KeyFits
<1>4. PICK b, srv, loc, ss : b = block /\ srv = server /\ loc = location /\ ss = servers
  OBVIOUS
<1>5. BuiltAt(conf, InBlock(n, l, h), b, srv, loc, ss) /\ PortsMet(conf, InBlock(n, l, h))
  BY ONLY <1>4, Building(conf, InBlock(n, l, h)) DEF Building
<1> DEFINE badNum == b = "SERVER" /\ k = "listen" /\ ~(ToSet(vs) \subseteq Ports)
<1>6. l = 0 <=> b = "SERVER"
  BY ONLY <1>5, BuiltOuter, BuiltInner
<1> HIDE DEF ends
<1>7. \/ badNum /\ Throw
      \/ /\ ~badNum
         /\ IF b = "SERVER"
            THEN server' = Take(server, k, vs) /\ UNCHANGED location
            ELSE location' = Take(location, k, vs) /\ UNCHANGED server
         /\ i' = e + 1
         /\ UNCHANGED <<phase, lists, brackets, block, table, servers>>
  <2>1. ends = {x \in i + 1 .. Len(check) : check[x] = "SEMICOLON"}
    BY DEF ends
  <2> HIDE DEF vs, k
  <2> QED BY ONLY SetDirective, <1>0, <1>2, <1>4, <2>1 DEF SetDirective
<1>8. CASE badNum
  <2>1. ~Valid(conf)
    BY <1>0, <1>6, <1>8, PortIs
  <2> QED BY ONLY <1>7, <1>8, <2>1 DEF DirectiveBuilt, Throw
<1>9. CASE ~badNum
  <2>1. PortsMet(conf, InBlock(n, l, d))
    <3>1. l = 0 /\ k = "listen" => ToSet(vs) \subseteq Ports
      BY ONLY <1>6, <1>9
    <3> QED BY <1>0, <1>5, <3>1, PortsMetKey
  <2>2. PICK v1, l1 : v1 = server' /\ l1 = location'
    OBVIOUS
  <2>3. BuiltAt(conf, InBlock(n, l, d), b, v1, l1, ss)
    <3>1. CASE l = 0
      <4>1. b = "SERVER" /\ ss = First(Meaning(conf), n - 1) /\ srv = Served(conf, n, h, 0)
        BY ONLY <1>5, <3>1, BuiltOuter
      <4>2. v1 = Take(srv, k, vs)
        BY ONLY <1>4, <1>7, <1>9, <2>2, <4>1
      <4> DEFINE a == First(Meaning(conf)[n].locations, 0)
      <4>3. Served(conf, n, h, 0) = [values |-> GivenTo(ServerKeys, ds, h), locations |-> a]
        BY ONLY <3>1 DEF Served
      <4>4. Served(conf, n, d, 0) = [values |-> GivenTo(ServerKeys, ds, d), locations |-> a]
        BY ONLY <3>1 DEF Served
      <4> HIDE DEF a
      <4>5. k \in ServerKeys
        BY ONLY <1>3, <3>1 DEF KeysOf, BlockName
      <4> HIDE DEF ds
      <4>6. Take([values |-> GivenTo(ServerKeys, ds, h), locations |-> a], ds[d][1], ds[d][2])
              = [values |-> GivenTo(ServerKeys, ds, d), locations |-> a]
        <5>1. Takes(ServerKeys, ds, d, h, a)
          BY ONLY <1>0, <1>3, <4>5, h = d - 1, TakeStep
        <5> QED BY ONLY <5>1 DEF Takes
      <4>7. v1 = Served(conf, n, d, 0)
        BY ONLY <4>1, <4>2, <4>3, <4>4, <4>6
      <4> QED BY ONLY <3>1, <4>1, <4>7, BuiltOuter
    <3>2. CASE l # 0
      <4> DEFINE a == conf[n].locations[l].path
      <4>1. /\ b = "LOCATION" /\ ss = First(Meaning(conf), n - 1) /\ srv = Served(conf, n, Own(conf, n), l - 1)
            /\ loc = Located(conf, n, l, a, h)
        BY ONLY <1>5, <3>2, BuiltInner
      <4>2. v1 = srv /\ l1 = Take(loc, k, vs)
        BY ONLY <1>4, <1>7, <1>9, <2>2, <4>1
      <4>3. Located(conf, n, l, a, h) = [path |-> a, values |-> GivenTo(LocationKeys, ds, h)]
        BY ONLY DEF Located
      <4>4. Located(conf, n, l, a, d) = [path |-> a, values |-> GivenTo(LocationKeys, ds, d)]
        BY ONLY DEF Located
      <4>5. k \in LocationKeys
        BY ONLY <1>3, <3>2 DEF KeysOf, BlockName
      <4>6. BuiltAt(conf, InBlock(n, l, d), b, v1, l1, ss) <=>
              /\ b = "LOCATION" /\ ss = First(Meaning(conf), n - 1) /\ v1 = Served(conf, n, Own(conf, n), l - 1)
              /\ l1 = Located(conf, n, l, a, d)
        BY ONLY <3>2, BuiltInner
      <4> HIDE DEF ds, a
      <4>7. Take([path |-> a, values |-> GivenTo(LocationKeys, ds, h)], ds[d][1], ds[d][2])
              = [path |-> a, values |-> GivenTo(LocationKeys, ds, d)]
        <5>1. Takes(LocationKeys, ds, d, h, a)
          BY ONLY <1>0, <1>3, <4>5, h = d - 1, TakeStep
        <5> QED BY ONLY <5>1 DEF Takes
      <4>8. l1 = Located(conf, n, l, a, d)
        BY ONLY <4>1, <4>2, <4>3, <4>4, <4>7
      <4> QED BY ONLY <4>1, <4>2, <4>6, <4>8
    <3> QED BY ONLY <3>1, <3>2
  <2>4. /\ i' = e + 1 /\ UNCHANGED <<phase, lists>>
        /\ block' = b /\ servers' = ss
    BY ONLY <1>4, <1>7, <1>9
  <2>5. BuiltAt(conf, InBlock(n, l, d), block', server', location', servers')
    BY ONLY <2>2, <2>3, <2>4
  <2> QED BY ONLY <1>2, <2>1, <2>4, <2>5 DEF DirectiveBuilt
<1> QED BY ONLY <1>8, <1>9

\* setValue builds what a valid configuration means.
LEMMA ValuePass ==
  ASSUME NEW conf, NEW w, Reading(conf, w), Listening(conf), TypeOK, RoutesInv, phase = "setValue",
         Kinded(w), KeysMet(conf, Top(Len(conf))), Building(conf, w[i - 1].place), SetValue, UNCHANGED file
  PROVE  /\ Kinded(w)'
         /\ \/ phase' = "setValue" /\ Building(conf, w[i - 1].place)'
            \/ phase' = "done" /\ Valid(conf) /\ servers' = Meaning(conf)
            \/ phase' = "error" /\ ~Valid(conf)
<1>1. Len(file) \in Nat /\ i \in 1..Len(file) + 1 /\ conf \in Seq(Server)
  BY WalkStep DEF TypeOK, Reading
<1>2. CASE InPass("setValue")
  <2>0. PICK p, q, k, f : p = w[i - 1].place /\ q = w[i].place /\ k = w[i].kind /\ f = file[i]
    OBVIOUS
  <2>1. i \in 1..Len(file)
    BY <1>1, <1>2 DEF InPass
  <2>2. check[i] = k /\ file[i] = f /\ Leads(conf, p, q, k, f)
    BY <2>0, <2>1, WalkStep DEF Kinded
  <2>3. ~AtEnd("setValue")
    BY <1>1, <1>2 DEF AtEnd, InPass
  <2>4. Building(conf, p)
    BY <2>0
  <2>5. CASE k # "KEY"
    <3>1. Built(conf, q)
      BY ONLY Listening(conf), SetValue, <1>1, <2>2, <2>3, <2>4, <2>5, BuildStep
    <3>2. Kinded(w)'
      BY <3>1 DEF Built, Kinded, lists
    <3>3. CASE i' = i + 1 /\ UNCHANGED phase
      <4>1. i' - 1 = i
        BY <2>1, <3>3
      <4>2. phase' = "setValue" /\ phase' # "error"
        BY <3>3
      <4>3. Building(conf, q)'
        BY ONLY <3>1, <4>2 DEF Built, Building
      <4>4. w[i' - 1].place = q
        BY ONLY <2>0, <4>1
      <4> QED BY <3>2, <4>2, <4>3, <4>4 DEF Building
    <3> QED BY <3>1, <3>2, <3>3 DEF Built
  <2>6. CASE k = "KEY"
    <3>1. PICK n \in 1..Len(conf) : \E l \in 0..Len(conf[n].locations) : \E d \in 1..Len(Block(conf, n, l)) :
            p = InBlock(n, l, d - 1) /\ q = InValues(n, l, d, 0) /\ f = Block(conf, n, l)[d][1]
      BY ONLY <2>2, <2>6 DEF Leads, OpensServer, OpensBlock, ReadsKey, ReadsValue, EndsDirective,
           OpensLocation, ReadsPath, OpensInner, ClosesLocation, ClosesServer
    <3>2. PICK l \in 0..Len(conf[n].locations) : \E d \in 1..Len(Block(conf, n, l)) :
            p = InBlock(n, l, d - 1) /\ q = InValues(n, l, d, 0) /\ f = Block(conf, n, l)[d][1]
      BY <3>1
    <3>3. PICK d \in 1..Len(Block(conf, n, l)) :
            p = InBlock(n, l, d - 1) /\ q = InValues(n, l, d, 0) /\ f = Block(conf, n, l)[d][1]
      BY <3>2
    <3>4. PICK h : h = d - 1
      OBVIOUS
    <3>5. Building(conf, InBlock(n, l, h))
      BY ONLY <2>4, <3>3, <3>4
    <3>6. w[i].place = InValues(n, l, d, 0) /\ file[i] = Block(conf, n, l)[d][1]
      BY ONLY <2>0, <3>3
    <3>7. KeyFits(conf, n, l, d)
      BY <1>1, AllMet DEF KeysMet
    <3>8. SetDirective
      BY <2>2, <2>3, <2>6 DEF SetValue
    <3>9. DirectiveBuilt(conf, w, n, l, d)
      BY <2>1, <3>4, <3>5, <3>6, <3>7, <3>8, DirectiveStep
    <3>10. PICK r : r = InBlock(n, l, d)
      OBVIOUS
    <3>11. Kinded(w)'
      BY <3>9 DEF DirectiveBuilt, Kinded, lists
    <3>12. CASE /\ \E e \in Nat : i' = e + 1 /\ w[e].place = r
                /\ UNCHANGED phase
                /\ PortsMet(conf, r)
                /\ BuiltAt(conf, r, block', server', location', servers')
      <4>1. PICK e \in Nat : i' = e + 1 /\ w[e].place = r
        BY ONLY <3>12
      <4>2. i' - 1 = e
        BY ONLY <4>1
      <4>3. Building(conf, r)'
        BY ONLY <3>12 DEF Building
      <4>4. w[i' - 1].place = r
        BY ONLY <4>1, <4>2
      <4> QED BY <3>11, <3>12, <4>3, <4>4 DEF Building
    <3> QED BY ONLY <3>9, <3>10, <3>11, <3>12 DEF DirectiveBuilt
  <2> QED BY <2>5, <2>6
<1>3. CASE AtEnd("setValue")
  <2>1. i - 1 = Len(file) /\ ~InPass("setValue")
    BY <1>1, <1>3 DEF AtEnd, InPass
  <2>2. Building(conf, Top(Len(conf)))
    BY <2>1, WalkStep
  <2>3. servers = First(Meaning(conf), Len(conf)) /\ PortsMet(conf, Top(Len(conf)))
    <3>1. PICK b, srv, loc, ss : b = block /\ srv = server /\ loc = location /\ ss = servers
      OBVIOUS
    <3>2. BuiltAt(conf, Top(Len(conf)), b, srv, loc, ss)
      BY <2>2, <3>1 DEF Building
    <3>3. ss = First(Meaning(conf), Len(conf))
      BY ONLY <3>2, BuiltTop
    <3> QED BY <2>2, <3>1, <3>3 DEF Building
  <2>4. servers = Meaning(conf)
    BY <1>1, <2>3, MeaningIs
  <2>5. Unambiguous(Meaning(conf))
    BY <2>4 DEF RoutesInv, RoutesUnambiguous
  <2>6. Valid(conf)
    BY <1>1, <2>3, <2>5, AllValid
  <2>7. Go("done")
    BY <2>1 DEF SetValue
  <2> QED BY <2>4, <2>6, <2>7 DEF Go, Kinded, lists, values
<1> QED BY <1>2, <1>3 DEF SetValue

\* The passes follow the walk.
LEMMA FollowInit ==
  ASSUME NEW conf, NEW w, Reading(conf, w), Init
  PROVE  Following(conf, w)
<1>1. /\ phase = "setCheckList" /\ i = 1 /\ check = <<>> /\ tokenState = "SERVER"
      /\ Unopened /\ servers = <<>> /\ Tabled
  BY DEF Init, Unopened, Tabled
<1>2. i - 1 = 0
  BY <1>1
<1>3. w[i - 1].place = Top(0)
  BY <1>2, WalkStep
<1>4. StateAt(Top(0)) = "SERVER"
  BY StateIs
<1>5. Listing(w)
  <2>1. \A j \in 1..i - 1 : FALSE
    BY <1>2
  <2> QED BY <1>1, <1>3, <1>4, <2>1 DEF Listing
<1> QED BY <1>1, <1>5 DEF Following

\* A step of any pass keeps the parser on the walk.
LEMMA FollowNext ==
  ASSUME NEW conf, NEW w, Reading(conf, w), Listening(conf), TypeOK, RoutesInv, Following(conf, w), [Next]_vars
  PROVE  Following(conf, w)'
<1>0. UNCHANGED file /\ conf \in Seq(Server) /\ Top(0) = w[0].place
  BY WalkStep DEF Next, vars, Reading
<1>1. CASE UNCHANGED vars
  <2>1. UNCHANGED <<file, phase, i, check, tokenState, bracket, stackState, blockCount, block, table,
                    server, location, servers>>
    BY <1>1 DEF vars, lists, brackets, values
  <2>2. /\ Listing(w)' <=> Listing(w)
        /\ Unopened' <=> Unopened
        /\ Kinded(w)' <=> Kinded(w)
        /\ Matching(w[i - 1].place)' <=> Matching(w[i - 1].place)
        /\ Comparing(conf, w[i - 1].place)' <=> Comparing(conf, w[i - 1].place)
        /\ Building(conf, w[i - 1].place)' <=> Building(conf, w[i - 1].place)
        /\ Tabled' <=> Tabled
    BY <2>1 DEF Listing, Unopened, Kinded, Matching, Comparing, Building, Tabled
  <2> QED BY <2>1, <2>2 DEF Following
<1>2. CASE phase = "setCheckList" /\ Next
  <2>1. SetCheckList /\ Listing(w) /\ Unopened /\ servers = <<>> /\ Tabled
    BY <1>2 DEF Next, CheckSyntax, CheckSameKey, SetValue, InPass, AtEnd, Following
  <2>2. /\ UNCHANGED <<brackets, table, values>>
        /\ \/ phase' = "setCheckList" /\ Listing(w)'
           \/ phase' = "checkSyntax" /\ i' = 1 /\ Kinded(w)'
    BY <1>0, <1>2, <2>1, ListPass
  <2>3. Unopened' /\ servers' = <<>> /\ Tabled'
    BY <2>1, <2>2 DEF brackets, values, Unopened, Tabled
  <2>4. i' = 1 => Matching(w[i - 1].place)'
    <3>1. StackAt(Top(0)) = <<>> /\ Depth(Top(0)) = 0
      BY StackIs
    <3>2. i' = 1 => i' - 1 = 0
      OBVIOUS
    <3>3. i' = 1 => w[i' - 1].place = Top(0)
      BY ONLY <1>0, <3>2
    <3> QED BY <2>3, <3>1, <3>3 DEF Unopened, Matching
  <2> QED BY <2>2, <2>3, <2>4 DEF Following
<1>3. CASE phase = "checkSyntax" /\ Next
  <2>1. CheckSyntax /\ Kinded(w) /\ Matching(w[i - 1].place) /\ servers = <<>> /\ Tabled
    BY <1>3 DEF Next, SetCheckList, CheckSameKey, SetValue, InPass, AtEnd, Following
  <2>2. /\ UNCHANGED <<table, values>> /\ Kinded(w)'
        /\ \/ phase' = "checkSyntax" /\ Matching(w[i - 1].place)'
           \/ phase' = "checkSameKey" /\ i' = 1
    BY <1>0, <1>3, <2>1, SyntaxPass
  <2>3. servers' = <<>> /\ Tabled'
    BY <2>1, <2>2 DEF values, Tabled
  <2>4. i' = 1 => Comparing(conf, w[i - 1].place)'
    <3>1. Top(0).at = "top"
      BY PlaceIs
    <3>2. i' = 1 => i' - 1 = 0
      OBVIOUS
    <3>3. i' = 1 => w[i' - 1].place = Top(0)
      BY ONLY <1>0, <3>2
    <3>4. KeysMet(conf, Top(0))
      BY <1>0, NothingMet
    <3> QED BY <3>1, <3>3, <3>4 DEF Comparing
  <2> QED BY <2>2, <2>3, <2>4 DEF Following
<1>4. CASE phase = "checkSameKey" /\ Next
  <2>1. CheckSameKey /\ Kinded(w) /\ Comparing(conf, w[i - 1].place) /\ servers = <<>> /\ Tabled
    BY <1>4 DEF Next, SetCheckList, CheckSyntax, SetValue, InPass, AtEnd, Following
  <2>2. /\ UNCHANGED values /\ Kinded(w)'
        /\ \/ phase' = "checkSameKey" /\ Tabled' /\ Comparing(conf, w[i - 1].place)'
           \/ phase' = "setValue" /\ i' = 1 /\ block' = "SERVER" /\ KeysMet(conf, Top(Len(conf)))
           \/ phase' = "error" /\ ~Valid(conf)
    BY <1>0, <1>4, <2>1, KeyPass
  <2>3. servers' = <<>>
    BY <2>1, <2>2 DEF values
  <2>4. i' = 1 /\ block' = "SERVER" => Building(conf, w[i - 1].place)'
    <3>1. PICK b, srv, loc, ss : b = block' /\ srv = server' /\ loc = location' /\ ss = servers'
      OBVIOUS
    <3>2. b = "SERVER" => BuiltAt(conf, Top(0), b, srv, loc, ss)
      <4>1. First(Meaning(conf), 0) = <<>>
        BY FirstGrows
      <4> DEFINE o == 0
      <4>2. First(Meaning(conf), o) = <<>>
        BY <4>1
      <4> HIDE DEF o
      <4>3. b = "SERVER" => BuiltAt(conf, Top(o), b, srv, loc, ss)
        BY ONLY <2>3, <3>1, <4>2, BuiltTop
      <4> QED BY <4>3 DEF o
    <3>3. i' = 1 => i' - 1 = 0
      OBVIOUS
    <3>4. i' = 1 => w[i' - 1].place = Top(0)
      BY ONLY <1>0, <3>3
    <3>5. PortsMet(conf, Top(0))
      BY <1>0, NothingMet
    <3> QED BY <3>1, <3>2, <3>4, <3>5 DEF Building
  <2> QED BY <2>2, <2>3, <2>4 DEF Following
<1>5. CASE phase = "setValue" /\ Next
  <2>1. SetValue /\ Kinded(w) /\ Building(conf, w[i - 1].place) /\ KeysMet(conf, Top(Len(conf)))
    BY <1>5 DEF Next, SetCheckList, CheckSyntax, CheckSameKey, InPass, AtEnd, Following
  <2>2. /\ Kinded(w)'
        /\ \/ phase' = "setValue" /\ Building(conf, w[i - 1].place)'
           \/ phase' = "done" /\ Valid(conf) /\ servers' = Meaning(conf)
           \/ phase' = "error" /\ ~Valid(conf)
    BY <1>0, <1>5, <2>1, ValuePass
  <2> QED BY <2>1, <2>2 DEF Following
<1>6. CASE phase \notin {"setCheckList", "checkSyntax", "checkSameKey", "setValue"} /\ Next
  BY <1>6 DEF Next, SetCheckList, CheckSyntax, CheckSameKey, SetValue, InPass, AtEnd
<1> QED BY <1>1, <1>2, <1>3, <1>4, <1>5, <1>6

\* The file of a configuration stays the one it was, and is followed along its walk.
FollowInv ==
  /\ source # None => source \in Configs /\ file = Render(source)
  /\ \A conf \in Configs : source = conf /\ source # None /\ Listening(conf) => Following(conf, Walk(conf))

\* The walk through a configuration that is given is one.
LEMMA ReadingConfig ==
  ASSUME NEW conf \in Configs, file = Render(conf)
  PROVE  Reading(conf, Walk(conf))
<1>1. conf \in Seq(Server)
  BY ConfigsKnown DEF Server
<1> QED BY <1>1, WalkExists DEF Reading

\* A configuration that is well formed is accepted with its meaning if it is valid, and
\* refused if it is not: whatever servers, directives and locations it has.
THEOREM ParsesWellFormed == Spec => []WellFormedParsed
<1>1. Init => FollowInv
  <2> SUFFICES ASSUME Init
               PROVE  FollowInv
    OBVIOUS
  <2>1. source # None => source \in Configs /\ file = Render(source)
    BY DEF Init
  <2>2. ASSUME NEW conf \in Configs, source = conf, source # None
        PROVE  Following(conf, Walk(conf))
    <3>1. Reading(conf, Walk(conf))
      BY <2>1, <2>2, ReadingConfig
    <3> QED BY <3>1, FollowInit
  <2> QED BY <2>1, <2>2 DEF FollowInv
<1>2. ASSUME TypeOK, RoutesInv, FollowInv, [Next]_vars
      PROVE  FollowInv'
  <2>1. UNCHANGED <<file, source>>
    BY <1>2 DEF Next, vars
  <2>2. (source # None => source \in Configs /\ file = Render(source))'
    BY <1>2, <2>1 DEF FollowInv
  <2>3. ASSUME NEW conf \in Configs, source' = conf, source' # None, Listening(conf)
        PROVE  Following(conf, Walk(conf))'
    <3>1. source = conf /\ source # None
      BY <2>1, <2>3
    <3>2. file = Render(conf) /\ Following(conf, Walk(conf))
      BY <1>2, <2>3, <3>1 DEF FollowInv
    <3>3. Reading(conf, Walk(conf))
      BY <3>2, ReadingConfig
    <3>4. PICK w : w = Walk(conf)
      OBVIOUS
    <3>5. Following(conf, w)'
      BY <1>2, <2>3, <3>2, <3>3, <3>4, FollowNext
    <3> QED BY <3>4, <3>5
  <2> QED BY <2>2, <2>3 DEF FollowInv
<1>3. FollowInv => WellFormedParsed
  <2> SUFFICES ASSUME FollowInv, source # None, Listening(source)
               PROVE  /\ phase = "done"  => Valid(source) /\ servers = Meaning(source)
                      /\ phase = "error" => ~Valid(source)
                      /\ phase # "undefined"
    BY DEF WellFormedParsed
  <2>1. PICK conf \in Configs : conf = source
    BY DEF FollowInv
  <2>2. Following(conf, Walk(conf))
    BY <2>1 DEF FollowInv
  <2> QED BY <2>1, <2>2 DEF Following
<1>4. Spec => []RoutesInv
  BY RoutesInvariant
<1> QED BY <1>1, <1>2, <1>3, <1>4, TypeCorrect, PTL DEF Spec
=============================================================================
