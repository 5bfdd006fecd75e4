--------------------------- MODULE RequestProofs ---------------------------
(***************************************************************************)
(* The invariants of Request.  Of the types and of the names of the files  *)
(* first; then what the parser makes of a request that arrives in pieces,  *)
(* line by line, what the routing makes of that, where the connection is   *)
(* in what the peer says, and with it what each answer is made of.         *)
(***************************************************************************)
EXTENDS Request, SequenceLemmas

-----------------------------------------------------------------------------
(* Finding and splitting. *)

LEMMA FindIs ==
  ASSUME NEW T, NEW s \in Seq(T), NEW d, NEW n \in 1..Len(s) + 1
  PROVE  /\ Find(s, d, n) \in n..Len(s) + 1
         /\ Find(s, d, n) # Len(s) + 1 => At(s, d, Find(s, d, n))
         /\ \A i \in n..Len(s) : i < Find(s, d, n) => ~At(s, d, i)
<1> DEFINE S == {i \in n..Len(s) + 1 : i = Len(s) + 1 \/ At(s, d, i)}
<1>1. S \in SUBSET Nat /\ Len(s) + 1 \in S /\ Len(s) \in Nat
  OBVIOUS
<1>2. Min(S) \in S /\ \A i \in S : Min(S) <= i
  BY <1>1, MinIs
<1>3. Find(s, d, n) = Min(S)
  BY DEF Find
<1>4. Min(S) \in n..Len(s) + 1 /\ (Min(S) # Len(s) + 1 => At(s, d, Min(S)))
  BY <1>2
<1>5. \A i \in n..Len(s) : i < Min(S) => ~At(s, d, i)
  BY <1>1, <1>2, <1>4
<1> HIDE DEF S
<1> QED BY <1>3, <1>4, <1>5

\* It is the only such place.
LEMMA FindAt ==
  ASSUME NEW T, NEW s \in Seq(T), NEW d, NEW n \in 1..Len(s) + 1, NEW e \in n..Len(s) + 1,
         e # Len(s) + 1 => At(s, d, e), \A i \in n..e - 1 : ~At(s, d, i)
  PROVE  Find(s, d, n) = e
<1> DEFINE f == Find(s, d, n)
<1>1. /\ f \in n..Len(s) + 1 /\ Len(s) \in Nat
      /\ f # Len(s) + 1 => At(s, d, f)
      /\ \A i \in n..Len(s) : i < f => ~At(s, d, i)
  BY FindIs
<1> HIDE DEF f
<1>2. ~(f < e)
  <2>1. f < e => f \in n..e - 1 /\ f # Len(s) + 1
    BY <1>1
  <2> QED BY <1>1, <2>1
<1>3. ~(e < f)
  <2>1. e < f => e \in n..Len(s) /\ e # Len(s) + 1
    BY <1>1
  <2> QED BY <1>1, <2>1
<1> QED BY <1>1, <1>2, <1>3 DEF f

Pieces(T) == Seq(Seq(T) \ {<<>>})

\* The recursive function in Tokens: without what starts at n there is nothing, or the
\* first piece, before what starts behind the next occurrence of d.
Splits(f, s, d) ==
  \A n \in 1..Len(s) + 1 :
    LET end  == Find(s, d, n)
        rest == IF end > Len(s) THEN <<>> ELSE f[end + 1]
    IN  f[n] = IF end = n THEN rest ELSE <<SubSeq(s, n, end - 1)>> \o rest

LEMMA TokensAre ==
  ASSUME NEW T, NEW s \in Seq(T), NEW d
  PROVE  Tokens(s, d) \in [1..Len(s) + 1 -> Pieces(T)] /\ Splits(Tokens(s, d), s, d)
<1> DEFINE z  == Len(s)
           S  == 1..z + 1
           E(n) == Find(s, d, n)
           m  == [n \in S |-> z + 1 - n]
           nx == [n \in S |-> E(n) + 1]
           Q(n, rest) == IF E(n) = n THEN rest ELSE <<SubSeq(s, n, E(n) - 1)>> \o rest
           X  == Pieces(T)
           G  == [p \in S \X X |-> Q(p[1], p[2])]
           B  == [n \in S |-> Q(n, <<>>)]
           Is(f) == f = [n \in 1..Len(s) + 1 |->
                           LET end  == Find(s, d, n)
                               rest == IF end > Len(s) THEN <<>> ELSE f[end + 1]
                           IN  IF end = n THEN rest ELSE <<SubSeq(s, n, end - 1)>> \o rest]
<1>1. z \in Nat /\ \A n \in S : n \in Nat /\ n >= 1 /\ E(n) \in n..z + 1 /\ E(n) \in Nat
  BY FindIs
<1> HIDE DEF E
<1>2. Measured(S, z, m)
  BY <1>1 DEF Measured
<1>3. ASSUME NEW n \in S, NEW x \in X
      PROVE  Q(n, x) \in X
  <2>1. CASE E(n) = n
    BY <2>1
  <2>2. CASE E(n) # n
    <3> DEFINE p == SubSeq(s, n, E(n) - 1)
    <3>1. n - 1 \in Nat /\ E(n) - n \in Nat /\ (n - 1) + (E(n) - n) <= z /\ E(n) - n > 0
          /\ (n - 1) + 1 = n /\ (n - 1) + (E(n) - n) = E(n) - 1
      BY <1>1, <2>2
    <3>2. p \in Seq(T) /\ Len(p) = E(n) - n
      <4> DEFINE a == n - 1  k == E(n) - n
      <4>1. a \in Nat /\ k \in Nat /\ a + k <= Len(s) /\ a + 1 = n /\ a + k = E(n) - 1
        BY <3>1
      <4> HIDE DEF a
      <4>2. k = E(n) - n
        OBVIOUS
      <4> HIDE DEF k
      <4>3. SubSeq(s, a + 1, a + k) \in Seq(T) /\ Len(SubSeq(s, a + 1, a + k)) = k
        BY <4>1, Part
      <4> QED BY <4>1, <4>2, <4>3
    <3> HIDE DEF p
    <3>3. p # <<>>
      <4>1. Len(p) # 0
        BY <1>1, <3>1, <3>2
      <4> QED BY <4>1
    <3>4. p \in Seq(T) \ {<<>>}
      BY <3>2, <3>3
    <3>5. <<p>> \o x \in Seq(Seq(T) \ {<<>>})
      <4> DEFINE Y == Seq(T) \ {<<>>}
      <4>1. p \in Y /\ x \in Seq(Y)
        BY <3>4 DEF Pieces
      <4> HIDE DEF Y
      <4>2. <<p>> \o x \in Seq(Y)
        BY <4>1
      <4> QED BY <4>2 DEF Y
    <3> QED BY <2>2, <3>5 DEF p, Pieces
  <2> QED BY <2>1, <2>2
<1>4. <<>> \in X
  BY DEF Pieces
<1> HIDE DEF Q, X
<1>5. \A n \in S : \A x \in X : G[<<n, x>>] = Q(n, x)
  OBVIOUS
<1>6. Solution(S, X, m, nx, G, B)
  <2>1. Defines(S, X, G, B)
    BY <1>3, <1>4, <1>5 DEF Defines
  <2> HIDE DEF S, z, m, nx, G, B
  <2> QED BY <1>2, <2>1, Recursion
<1>7. PICK f \in [S -> X] : \A n \in S :
        f[n] = IF nx[n] \in S /\ m[nx[n]] < m[n] THEN G[<<n, f[nx[n]]>>] ELSE B[n]
  BY <1>6 DEF Solution
<1>8. \A n \in S : nx[n] = E(n) + 1 /\ (nx[n] \in S /\ m[nx[n]] < m[n] <=> ~(E(n) > z))
  BY <1>1, SMTT(30)
<1>9. \A n \in S : f[n] = Q(n, IF E(n) > z THEN <<>> ELSE f[E(n) + 1])
  <2> TAKE n \in S
  <2>1. CASE E(n) > z
    <3> HIDE DEF m, nx, G, S
    <3>1. f[n] = B[n]
      BY <1>7, <1>8, <2>1
    <3> QED BY <2>1, <3>1
  <2>2. CASE ~(E(n) > z)
    <3>1. E(n) + 1 \in S
      BY <1>8, <2>2
    <3>2. f[E(n) + 1] \in X
      BY <3>1
    <3> HIDE DEF m, nx, G, S
    <3>3. f[n] = G[<<n, f[E(n) + 1]>>]
      BY <1>7, <1>8, <2>2
    <3> QED BY <1>5, <2>2, <3>2, <3>3
  <2> QED BY <2>1, <2>2
<1>10. Is(f)
  BY <1>9 DEF Q, E
<1>11. Is(CHOOSE g : Is(g))
  <2> HIDE DEF Is
  <2> QED BY <1>10
<1> DEFINE g == CHOOSE g : Is(g)
<1>12. Tokens(s, d) = g
  BY DEF Tokens
<1>13. DOMAIN g = S /\ \A n \in S : g[n] = Q(n, IF E(n) > z THEN <<>> ELSE g[E(n) + 1])
  BY <1>11 DEF Q, E
<1>14. g = [n \in S |-> g[n]]
  <2>1. Is(g)
    BY <1>11
  <2> HIDE DEF g
  <2> QED BY <2>1
<1> HIDE DEF g
<1>15. \A n \in S : g[n] = f[n]
  <2> DEFINE U == {i \in S : g[i] = f[i]}
  <2>1. Inherits(S, U, m, nx)
    <3> SUFFICES ASSUME NEW n \in S, nx[n] \in S /\ m[nx[n]] < m[n] => nx[n] \in U
                 PROVE  g[n] = f[n]
      BY DEF Inherits
    <3>1. CASE E(n) > z
      BY <1>9, <1>13, <3>1
    <3>2. CASE ~(E(n) > z)
      <4>1. nx[n] = E(n) + 1 /\ nx[n] \in U
        BY <1>8, <3>2
      <4>2. g[E(n) + 1] = f[E(n) + 1]
        BY <4>1
      <4> QED BY ONLY <1>9, <1>13, <3>2, <4>2, n \in S
    <3> QED BY <3>1, <3>2
  <2>2. S \subseteq U
    <3> HIDE DEF U, m, nx, S, z
    <3> QED BY <1>2, <2>1, AlongCalls
  <2> QED BY <2>2
<1>16. g \in [S -> X]
  BY <1>14, <1>15
<1>17. Splits(g, s, d)
  BY <1>13 DEF Splits, Q, E
<1> QED BY <1>12, <1>16, <1>17 DEF X

-----------------------------------------------------------------------------
(* The location. *)

\* What l must be for the first k locations: the longest that begins the path.
Chosen(l, k, locations, path) ==
  \/ /\ l = NoLocation
     /\ \A j \in 1..k : IsPrefix(locations[j].path, path) => Len(locations[j].path) = 0
  \/ /\ \E j \in 1..k : l = locations[j]
     /\ Len(l.path) > 0 /\ IsPrefix(l.path, path)
     /\ \A j \in 1..k : IsPrefix(locations[j].path, path) => Len(locations[j].path) <= Len(l.path)

LEMMA NoLocationIs == NoLocation \in Locations /\ NoLocation.path = <<>> /\ Len(NoLocation.path) = 0
<1>1. {} \in SUBSET Seq(Word) /\ <<>> \in Seq(Word) /\ None \in Nat \cup {None}
  OBVIOUS
<1> QED BY <1>1 DEF NoLocation, Locations

LEMMA LocationParts ==
  ASSUME NEW l \in Locations
  PROVE  l.path \in Seq(Word) /\ l.root \in Seq(Word) /\ Len(l.path) \in Nat /\ Len(l.root) \in Nat
<1>1. l.path \in Seq(Word) /\ l.root \in Seq(Word)
  BY DEF Locations
<1> QED BY <1>1

LEMMA LocationChosen ==
  ASSUME NEW locations \in Seq(Locations), NEW path \in Seq(Word)
  PROVE  /\ FindLocation(locations, path) \in Locations
         /\ Chosen(FindLocation(locations, path), Len(locations), locations, path)
<1> DEFINE n  == Len(locations)
           X  == Locations
           Next_(i, y) == IF Longer(locations[i], y, path) THEN locations[i] ELSE y
           G  == [p \in (1..n) \X X |-> Next_(p[1], p[2])]
           Is(f) == f = [i \in 0..Len(locations) |->
                           IF i = 0 THEN NoLocation
                           ELSE IF Longer(locations[i], f[i - 1], path) THEN locations[i] ELSE f[i - 1]]
<1>1. n \in Nat /\ NoLocation \in X /\ Len(NoLocation.path) = 0
  BY NoLocationIs
<1>2. \A i \in 1..n : \A y \in X : G[<<i, y>>] = Next_(i, y) /\ Next_(i, y) \in X
  OBVIOUS
<1>3. Iterated(X, n, NoLocation, G)
  <2> HIDE DEF n, X, G, Next_
  <2> QED BY <1>1, <1>2, Iteration
<1>4. PICK f \in [0..n -> X] : f[0] = NoLocation /\ \A i \in 1..n : f[i] = G[<<i, f[i - 1]>>]
  BY <1>3 DEF Iterated
<1>5. \A i \in 1..n : f[i] = Next_(i, f[i - 1])
  <2> SUFFICES ASSUME NEW i \in 1..n
               PROVE  f[i] = Next_(i, f[i - 1])
    OBVIOUS
  <2>1. f[i - 1] \in X
    OBVIOUS
  <2> HIDE DEF G, Next_, X, n
  <2> QED BY <1>2, <1>4, <2>1
<1>6. Is(f)
  BY <1>4, <1>5
<1>7. Is(CHOOSE g : Is(g))
  <2> HIDE DEF Is
  <2> QED BY <1>6
<1> DEFINE g == CHOOSE g : Is(g)
<1>8. g[0] = NoLocation /\ \A i \in 1..n : g[i] = Next_(i, g[i - 1])
  <2>1. Is(g)
    BY <1>7
  <2> HIDE DEF g
  <2> QED BY <2>1
<1>9. FindLocation(locations, path) = g[n]
  BY DEF FindLocation
<1> HIDE DEF g
<1> DEFINE P == {i \in 0..n : g[i] \in X /\ Chosen(g[i], i, locations, path)}
<1>10. 0 \in P
  BY <1>1, <1>8 DEF Chosen
<1>11. ASSUME NEW i \in 0..n - 1, i \in P
       PROVE  i + 1 \in P
  <2> DEFINE y == g[i]  j == i + 1  l == locations[j]
  <2>1. j \in 1..n /\ j - 1 = i /\ i \in Nat /\ \A k \in 1..j : k \in 1..i \/ k = j
    OBVIOUS
  <2>2. l \in X /\ y \in X /\ Chosen(y, i, locations, path)
    BY <1>11, <2>1
  <2>3. g[j] = IF Longer(l, y, path) THEN l ELSE y
    BY <1>8, <2>1
  <2>4. Len(l.path) \in Nat /\ Len(y.path) \in Nat
    BY <2>2, LocationParts
  <2>5. \A k \in 1..i : locations[k] \in X /\ Len(locations[k].path) \in Nat
    <3>1. \A k \in 1..i : locations[k] \in X
      OBVIOUS
    <3> QED BY <3>1, LocationParts
  <2> HIDE DEF l, y
  <2>6. CASE Longer(l, y, path)
    <3>1. g[j] = l /\ IsPrefix(l.path, path) /\ Len(y.path) < Len(l.path)
      BY <2>3, <2>6 DEF Longer
    <3>2. \A k \in 1..i : IsPrefix(locations[k].path, path) => Len(locations[k].path) <= Len(l.path)
      BY <1>1, <2>2, <2>4, <2>5, <3>1 DEF Chosen
    <3>3. \A k \in 1..j : IsPrefix(locations[k].path, path) => Len(locations[k].path) <= Len(l.path)
      BY <2>1, <2>4, <3>2 DEF l
    <3>4. Chosen(l, j, locations, path)
      BY <2>1, <2>4, <3>1, <3>3 DEF Chosen, l
    <3> QED BY <2>1, <2>2, <3>1, <3>4
  <2>7. CASE ~Longer(l, y, path)
    <3>1. g[j] = y
      BY <2>3, <2>7
    <3>2. IsPrefix(l.path, path) => Len(l.path) <= Len(y.path)
      BY <2>4, <2>7 DEF Longer
    <3>3. Chosen(y, j, locations, path)
      <4>1. CASE y = NoLocation /\ \A k \in 1..i : IsPrefix(locations[k].path, path) => Len(locations[k].path) = 0
        BY <1>1, <2>1, <2>4, <3>2, <4>1 DEF Chosen, l
      <4>2. CASE ~(y = NoLocation /\ \A k \in 1..i : IsPrefix(locations[k].path, path) => Len(locations[k].path) = 0)
        <5>1. /\ \E k \in 1..i : y = locations[k]
              /\ Len(y.path) > 0 /\ IsPrefix(y.path, path)
              /\ \A k \in 1..i : IsPrefix(locations[k].path, path) => Len(locations[k].path) <= Len(y.path)
          BY <2>2, <4>2 DEF Chosen
        <5>2. \E k \in 1..j : y = locations[k]
          BY <2>1, <5>1
        <5>3. \A k \in 1..j : IsPrefix(locations[k].path, path) => Len(locations[k].path) <= Len(y.path)
          BY <2>1, <3>2, <5>1 DEF l
        <5> QED BY <5>1, <5>2, <5>3 DEF Chosen
      <4> QED BY <4>1, <4>2
    <3> QED BY <2>1, <2>2, <3>1, <3>3
  <2> QED BY <2>6, <2>7
<1>12. n \in P
  <2> HIDE DEF P
  <2>1. 0..n \subseteq P
    BY <1>1, <1>10, <1>11, Climb
  <2> QED BY <1>1, <2>1
<1> QED BY <1>9, <1>12

-----------------------------------------------------------------------------
(* The file. *)

WithoutSlash(s) == IF s # <<>> /\ Last(s) = "/" THEN Front(s) ELSE s

LEMMA WithoutSlashIs ==
  ASSUME NEW s \in Seq(Word)
  PROVE  /\ WithoutSlash(s) \in Seq(Word)
         /\ \/ WithoutSlash(s) = s
            \/ /\ Len(s) > 0 /\ s[Len(s)] = "/" /\ Len(WithoutSlash(s)) = Len(s) - 1
               /\ \A i \in 1..Len(s) - 1 : WithoutSlash(s)[i] = s[i]
<1>1. CASE s # <<>> /\ Last(s) = "/"
  <2> DEFINE k == Len(s) - 1  x == SubSeq(s, 0 + 1, 0 + k)
  <2>1. Len(s) > 0 /\ k \in Nat /\ 0 + k <= Len(s) /\ 0 + 1 = 1 /\ 0 + k = Len(s) - 1
        /\ \A i \in 1..k : 0 + i = i
    BY <1>1, EmptySeq
  <2>2. WithoutSlash(s) = x
    BY <1>1, <2>1 DEF WithoutSlash, Front
  <2>3. x \in Seq(Word) /\ Len(x) = k /\ \A i \in 1..k : x[i] = s[0 + i]
    <3> HIDE DEF k
    <3> QED BY <2>1, Part
  <2>4. s[Len(s)] = "/"
    BY <1>1 DEF Last
  <2> HIDE DEF x
  <2> QED BY <2>1, <2>2, <2>3, <2>4
<1>2. CASE ~(s # <<>> /\ Last(s) = "/")
  BY <1>2 DEF WithoutSlash
<1> QED BY <1>1, <1>2

LEMMA ConvertType ==
  ASSUME NEW path \in Seq(Word), NEW l \in Locations, NEW root \in Seq(Word), IsPrefix(l.path, path)
  PROVE  Convert(path, l, root) \in Seq(Word)
<1> DEFINE n == Len(l.path)
           k == Len(path) - n
           x == SubSeq(path, n + 1, n + k)
<1>1. n \in Nat /\ Len(path) \in Nat /\ n <= Len(path)
  BY LocationParts, SameStart
<1>2. k \in Nat /\ n + k <= Len(path) /\ n + k = Len(path)
  BY <1>1
<1>3. x \in Seq(Word) /\ Len(x) = k /\ \A i \in 1..k : x[i] = path[n + i]
  <2> HIDE DEF n, k
  <2> QED BY <1>1, <1>2, Part
<1> DEFINE rest == IF root # <<>> /\ n # 1 THEN x ELSE path
<1>4. rest \in Seq(Word)
  BY <1>3
<1>5. Convert(path, l, root) = WithoutSlash(root \o rest)
  <2>1. x = SubSeq(path, Len(l.path) + 1, Len(path))
    BY <1>2
  <2> HIDE DEF x
  <2> QED BY <2>1 DEF Convert, WithoutSlash
<1> HIDE DEF x, k
<1> HIDE DEF rest
<1>6. root \o rest \in Seq(Word)
  BY <1>4, Joined
<1> QED BY <1>5, <1>6, WithoutSlashIs

-----------------------------------------------------------------------------
(* The header: what reading it leaves alone, and that it ends. *)

LEMMA ObjectParts ==
  ASSUME NEW r \in RequestObject
  PROVE  /\ r.state \in {"READY", "CREATE", "DONE"} /\ r.buffer \in Seq(Word) /\ r.start \in Nat
         /\ r.method \in Seq(Word) /\ r.path \in Seq(Word) /\ r.length \in Seq(Word)
         /\ r.coding \in Seq(Word) /\ r.host \in Seq(Word) /\ r.server \in Nat
         /\ r.location \in Locations /\ r.file \in Seq(Word)
         /\ r = [state |-> r.state, buffer |-> r.buffer, start |-> r.start, method |-> r.method,
                 path |-> r.path, length |-> r.length, coding |-> r.coding, host |-> r.host,
                 server |-> r.server, location |-> r.location, file |-> r.file]
  BY DEF RequestObject

LEMMA Tokenised ==
  ASSUME NEW line \in Seq(Word), NEW d
  PROVE  /\ GetToken(line, d) \in Pieces(Word)
         /\ Len(GetToken(line, d)) \in Nat
         /\ \A i \in 1..Len(GetToken(line, d)) :
              /\ GetToken(line, d)[i] \in Seq(Word) /\ GetToken(line, d)[i] # <<>>
              /\ Tail(GetToken(line, d)[i]) \in Seq(Word)
<1> DEFINE t == GetToken(line, d)
<1>1. t \in Pieces(Word)
  <2>1. 1 \in 1..Len(line) + 1
    OBVIOUS
  <2> QED BY <2>1, TokensAre DEF GetToken
<1> HIDE DEF t
<1>2. \A i \in 1..Len(t) : t[i] \in Seq(Word) \ {<<>>}
  BY <1>1 DEF Pieces
<1>3. \A i \in 1..Len(t) : Tail(t[i]) \in Seq(Word)
  BY <1>2
<1>4. Len(t) \in Nat
  BY <1>1 DEF Pieces
<1> QED BY <1>1, <1>2, <1>3, <1>4 DEF t

LEMMA BeforeType ==
  ASSUME NEW s \in Seq(Word), NEW w
  PROVE  Before(s, w) \in Seq(Word)
<1> DEFINE e == Find(s, <<w>>, 1)
<1>1. 1 \in 1..Len(s) + 1 /\ Len(s) \in Nat
  OBVIOUS
<1>2. e \in 1..Len(s) + 1
  BY <1>1, FindIs
<1> HIDE DEF e
<1> DEFINE k == e - 1
<1>3. k \in Nat /\ 0 + k <= Len(s) /\ 0 + 1 = 1 /\ 0 + k = e - 1 /\ 0 \in Nat
  BY <1>1, <1>2
<1> HIDE DEF k
<1>4. SubSeq(s, 0 + 1, 0 + k) \in Seq(Word)
  BY <1>3, Part
<1> QED BY <1>3, <1>4 DEF Before, e

\* Only what a line names changes.
Untouched(q, r) ==
  /\ q.buffer = r.buffer /\ q.state = r.state /\ q.start = r.start
  /\ q.server = r.server /\ q.location = r.location /\ q.file = r.file

LEMMA RequestLineSets ==
  ASSUME NEW r \in RequestObject, NEW line \in Seq(Word), RequestLineError(line) = OK
  PROVE  /\ SetRequestLine(r, line) \in RequestObject
         /\ Untouched(SetRequestLine(r, line), r)
         /\ SetRequestLine(r, line).method \in Verbs
         /\ SetRequestLine(r, line).host = r.host
<1> DEFINE t == GetToken(line, <<Blank>>)
<1>1. Len(t) = 3 /\ t[1] \in Verbs
  <2>1. RequestLineError(line) = IF MultipleSpaces(line) \/ Len(t) # 3 THEN 400
                                 ELSE IF t[1] \notin Verbs THEN 405
                                 ELSE IF t[3] # <<"HTTP/1.1">> THEN 505 ELSE OK
    BY DEF RequestLineError
  <2> HIDE DEF t
  <2>2. 400 # OK /\ 405 # OK
    BY DEF OK
  <2> QED BY <2>1, <2>2
<1>2. t[1] \in Seq(Word) /\ t[2] \in Seq(Word)
  <2>1. 1 \in 1..Len(t) /\ 2 \in 1..Len(t)
    <3> HIDE DEF t
    <3> QED BY <1>1
  <2> QED BY <2>1, Tokenised
<1> HIDE DEF t
<1> DEFINE q == SetRequestLine(r, line)
<1>3. q = [state |-> r.state, buffer |-> r.buffer, start |-> r.start, method |-> t[1],
           path |-> t[2], length |-> r.length, coding |-> r.coding, host |-> r.host,
           server |-> r.server, location |-> r.location, file |-> r.file]
  <2>1. q = [r EXCEPT !.method = t[1], !.path = t[2]]
    BY DEF SetRequestLine, t
  <2> HIDE DEF q
  <2> QED BY <2>1, ObjectParts DEF RequestObject
<1> HIDE DEF q
<1>4. q \in RequestObject
  BY <1>2, <1>3, ObjectParts DEF RequestObject
<1>5. Untouched(q, r) /\ q.method = t[1] /\ q.host = r.host
  BY <1>3 DEF Untouched
<1> QED BY <1>1, <1>4, <1>5 DEF q

LEMMA FieldLineTokens ==
  ASSUME NEW line \in Seq(Word), FieldLineError(line) = OK
  PROVE  Len(GetToken(line, Colon)) = 2
<1>1. Len(GetToken(line, Colon)) \in Nat
  BY Tokenised
<1> DEFINE t == GetToken(line, Colon)
<1>2. FieldLineError(line) = IF MultipleSpaces(line) THEN 400
                             ELSE IF Len(t) < 2 THEN Undefined
                             ELSE IF Len(t) # 2 \/ Len(t[2]) = 1 \/ Holds(t[1], Blank) THEN 400 ELSE OK
  BY DEF FieldLineError
<1>3. 400 # OK /\ Undefined # OK
  BY DEF OK, Undefined
<1> HIDE DEF t
<1>4. Len(t) = 2
  BY <1>2, <1>3
<1> QED BY <1>4 DEF t

LEMMA FieldLineSets ==
  ASSUME NEW r \in RequestObject, NEW line \in Seq(Word), FieldLineError(line) = OK
  PROVE  /\ SetFieldLine(r, line) \in RequestObject
         /\ Untouched(SetFieldLine(r, line), r)
         /\ SetFieldLine(r, line).method = r.method /\ SetFieldLine(r, line).path = r.path
<1> DEFINE t == GetToken(line, Colon)
           v == Tail(t[2])
           q == SetFieldLine(r, line)
<1>1. Len(t) = 2
  BY FieldLineTokens
<1>2. v \in Seq(Word)
  <2>1. 2 \in 1..Len(t)
    BY <1>1
  <2> QED BY <2>1, Tokenised
<1> HIDE DEF v
<1>3. Before(v, ":") \in Seq(Word)
  BY <1>2, BeforeType
<1>4. \/ q = r \/ q = [r EXCEPT !.host = Before(v, ":")]
      \/ q = [r EXCEPT !.length = v] \/ q = [r EXCEPT !.coding = v]
  BY DEF SetFieldLine, v
<1> HIDE DEF q
<1>5. q \in RequestObject /\ Untouched(q, r) /\ q.method = r.method /\ q.path = r.path
  <2> USE ObjectParts DEF RequestObject, Untouched
  <2>1. CASE q = r
    BY <2>1
  <2>2. CASE q = [r EXCEPT !.host = Before(v, ":")]
    BY <1>3, <2>2
  <2>3. CASE q = [r EXCEPT !.length = v]
    BY <1>2, <2>3
  <2>4. CASE q = [r EXCEPT !.coding = v]
    BY <1>2, <2>4
  <2> QED BY <1>4, <2>1, <2>2, <2>3, <2>4
<1> QED BY <1>5 DEF q

\* Where the header ends there are two ends of line, and before it never.
LEMMA HeaderEndIs ==
  ASSUME NEW b \in Seq(Word)
  PROVE  \/ HeaderEnd(b) = 0 /\ \A i \in 1..Len(b) - 1 : ~(b[i] = CRLF /\ b[i + 1] = CRLF)
         \/ /\ HeaderEnd(b) \in 1..Len(b) - 1 /\ b[HeaderEnd(b)] = CRLF /\ b[HeaderEnd(b) + 1] = CRLF
            /\ \A i \in 1..HeaderEnd(b) - 1 : ~(b[i] = CRLF /\ b[i + 1] = CRLF)
<1> DEFINE S == {i \in 1..Len(b) - 1 : b[i] = CRLF /\ b[i + 1] = CRLF}
<1>1. Len(b) \in Nat /\ S \in SUBSET Nat
  OBVIOUS
<1>2. HeaderEnd(b) = IF S = {} THEN 0 ELSE Min(S)
  BY DEF HeaderEnd
<1>3. CASE S = {}
  <2>1. \A i \in 1..Len(b) - 1 : ~(b[i] = CRLF /\ b[i + 1] = CRLF)
    BY <1>3
  <2> HIDE DEF S
  <2> QED BY <1>2, <1>3, <2>1
<1>4. CASE S # {}
  <2> DEFINE e == Min(S)
  <2>1. e \in S /\ \A i \in S : e <= i
    BY <1>1, <1>4, MinIs
  <2> HIDE DEF e
  <2>2. e \in 1..Len(b) - 1 /\ b[e] = CRLF /\ b[e + 1] = CRLF
    BY <2>1
  <2>3. \A i \in 1..e - 1 : ~(b[i] = CRLF /\ b[i + 1] = CRLF)
    <3> SUFFICES ASSUME NEW i \in 1..e - 1, b[i] = CRLF, b[i + 1] = CRLF
                 PROVE  FALSE
      OBVIOUS
    <3>1. i \in S
      BY <1>1, <2>2
    <3> QED BY <2>1, <2>2, <3>1
  <2>4. HeaderEnd(b) = e
    BY <1>2, <1>4 DEF e
  <2> QED BY <2>2, <2>3, <2>4
<1> QED BY <1>3, <1>4

Started(r) == [error |-> OK, next |-> 1, req |-> r]

NextLine(was, n, end) ==
  IF n > 1 /\ (was.error # OK \/ was.next >= end) THEN was ELSE ReadLine(was, n)

\* What reading lines up to end makes of r.
ReadStates(r, end) ==
  {x \in [error : Errors \ {404}, next : 1..end + 1, req : RequestObject] : Untouched(x.req, r)}

LEMMA LineRead ==
  ASSUME NEW r \in RequestObject, NEW end \in 1..Len(r.buffer), r.buffer[end] = CRLF,
         NEW was \in ReadStates(r, end), was.next <= end, NEW n \in Nat
  PROVE  ReadLine(was, n) \in ReadStates(r, end)
<1> DEFINE b     == r.buffer
           last  == Find(b, <<CRLF>>, was.next)
           k     == last - was.next
           line  == SubSeq(b, was.next, last - 1)
           error == IF n = 1 THEN RequestLineError(line) ELSE FieldLineError(line)
<1>1. /\ was.error \in Errors \ {404} /\ was.next \in 1..end + 1 /\ was.req \in RequestObject
      /\ Untouched(was.req, r) /\ was.req.buffer = b
      /\ was = [error |-> was.error, next |-> was.next, req |-> was.req]
  BY DEF ReadStates, Untouched
<1>2. b \in Seq(Word) /\ Len(b) \in Nat /\ end \in Nat /\ end <= Len(b)
  BY ObjectParts
<1>3. last \in was.next..end
  <2>1. was.next \in 1..Len(b) + 1
    BY <1>1, <1>2
  <2>2. last \in was.next..Len(b) + 1 /\ \A i \in was.next..Len(b) : i < last => ~At(b, <<CRLF>>, i)
    BY <1>2, <2>1, FindIs
  <2>3. At(b, <<CRLF>>, end)
    <3>1. Len(<<CRLF>>) = 1 /\ <<CRLF>>[1] = CRLF /\ DOMAIN <<CRLF>> = {1} /\ end + 1 - 1 = end
      BY <1>2
    <3> QED BY <1>2, <3>1 DEF At
  <2> HIDE DEF last, b
  <2>4. ~(end < last)
    BY <1>1, <1>2, <2>2, <2>3
  <2> QED BY <1>1, <1>2, <2>2, <2>4
<1> HIDE DEF last
<1>4. line \in Seq(Word)
  <2> DEFINE a == was.next - 1
  <2>1. a \in Nat /\ k \in Nat /\ a + k <= Len(b) /\ a + 1 = was.next /\ a + k = last - 1
    BY <1>1, <1>2, <1>3, SMTT(30)
  <2> HIDE DEF a, k, b
  <2>2. SubSeq(b, a + 1, a + k) \in Seq(Word)
    BY <1>2, <2>1, Part
  <2> QED BY <2>1, <2>2
<1> HIDE DEF line
<1>5. error \in Errors \ {404}
  BY DEF RequestLineError, FieldLineError, Errors, OK, Undefined
<1>6. ReadLine(was, n) =
        IF error # OK THEN [was EXCEPT !.error = error]
        ELSE [error |-> OK, next |-> last + 1,
              req |-> IF n = 1 THEN SetRequestLine(was.req, line) ELSE SetFieldLine(was.req, line)]
  BY <1>1 DEF ReadLine, last, line
<1> HIDE DEF b
<1>7. CASE error # OK
  <2> HIDE DEF error
  <2>1. ReadLine(was, n) = [error |-> error, next |-> was.next, req |-> was.req]
    BY <1>1, <1>6, <1>7
  <2> QED BY <1>1, <1>5, <2>1 DEF ReadStates
<1>8. CASE error = OK
  <2> DEFINE q == IF n = 1 THEN SetRequestLine(was.req, line) ELSE SetFieldLine(was.req, line)
  <2>1. q \in RequestObject /\ Untouched(q, was.req)
    BY <1>1, <1>4, <1>8, RequestLineSets, FieldLineSets
  <2>2. ReadLine(was, n) = [error |-> OK, next |-> last + 1, req |-> q]
    BY <1>6, <1>8
  <2> HIDE DEF q
  <2>3. Untouched(q, r)
    BY <1>1, <2>1 DEF Untouched
  <2>4. last + 1 \in 1..end + 1 /\ OK \in Errors \ {404}
    BY <1>1, <1>2, <1>3 DEF Errors, OK
  <2> QED BY <2>1, <2>2, <2>3, <2>4 DEF ReadStates
<1> QED BY <1>7, <1>8

\* The recursive function in Reading.
LEMMA ReadingIs ==
  ASSUME NEW r \in RequestObject, NEW end \in 1..Len(r.buffer), r.buffer[end] = CRLF
  PROVE  /\ Reading(r, end)[0] = Started(r)
         /\ \A n \in 1..end : Reading(r, end)[n] = NextLine(Reading(r, end)[n - 1], n, end)
         /\ \A n \in 0..end : Reading(r, end)[n] \in ReadStates(r, end)
<1> DEFINE X == ReadStates(r, end)
           x == Started(r)
           Q(n, y) == NextLine(IF n = 1 THEN x ELSE y, n, end)
           G == [p \in (1..end) \X X |-> Q(p[1], p[2])]
           Is(f) == f = [n \in 0..end |->
                           IF n = 0 THEN [error |-> OK, next |-> 1, req |-> r]
                           ELSE LET was == f[n - 1]
                                IN  IF n > 1 /\ (was.error # OK \/ was.next >= end) THEN was
                                    ELSE ReadLine(was, n)]
<1>1. end \in Nat /\ end >= 1
  BY ObjectParts
<1>2. x \in X /\ x.next = 1
  BY <1>1 DEF ReadStates, Started, Untouched, Errors, OK
<1>3. ASSUME NEW n \in 1..end, NEW y \in X
      PROVE  Q(n, y) \in X
  <2>1. CASE n = 1
    <3>1. ReadLine(x, 1) \in X
      <4> HIDE DEF x
      <4>1. x.next <= end
        BY <1>1, <1>2
      <4> QED BY <1>2, <4>1, LineRead
    <3> HIDE DEF x, X
    <3> QED BY <2>1, <3>1 DEF NextLine
  <2>2. CASE n # 1 /\ (y.error # OK \/ y.next >= end)
    <3>1. n > 1
      BY <2>2
    <3> HIDE DEF x, X
    <3> QED BY <2>2, <3>1 DEF NextLine
  <2>3. CASE n # 1 /\ ~(y.error # OK \/ y.next >= end)
    <3>1. y.next \in Nat
      BY <1>1 DEF ReadStates
    <3>2. y.next <= end
      BY <1>1, <2>3, <3>1
    <3>3. ReadLine(y, n) \in X
      BY <3>2, LineRead
    <3> HIDE DEF x, X
    <3> QED BY <2>3, <3>3 DEF NextLine
  <2> QED BY <2>1, <2>2, <2>3
<1> HIDE DEF X, x, Q
<1>4. \A n \in 1..end : \A y \in X : G[<<n, y>>] = Q(n, y) /\ G[<<n, y>>] \in X
  BY <1>3
<1>5. Iterated(X, end, x, G)
  <2> HIDE DEF G
  <2> QED BY <1>1, <1>2, <1>4, Iteration
<1>6. PICK f \in [0..end -> X] : f[0] = x /\ \A n \in 1..end : f[n] = G[<<n, f[n - 1]>>]
  BY <1>5 DEF Iterated
<1>7. \A n \in 1..end : f[n] = NextLine(f[n - 1], n, end)
  <2> SUFFICES ASSUME NEW n \in 1..end
               PROVE  f[n] = NextLine(f[n - 1], n, end)
    OBVIOUS
  <2>1. f[n - 1] \in X
    OBVIOUS
  <2> HIDE DEF G
  <2>2. f[n] = Q(n, f[n - 1])
    BY <1>4, <1>6, <2>1
  <2>3. n = 1 => f[n - 1] = x
    BY <1>6
  <2> QED BY <2>2, <2>3 DEF Q
<1>8. Is(f)
  BY <1>6, <1>7 DEF NextLine, Started, x
<1>9. Is(CHOOSE g : Is(g))
  <2> HIDE DEF Is
  <2> QED BY <1>8
<1> DEFINE g == CHOOSE g : Is(g)
<1>10. g[0] = x /\ \A n \in 1..end : g[n] = NextLine(g[n - 1], n, end)
  <2>1. Is(g)
    BY <1>9
  <2> HIDE DEF g
  <2> QED BY <1>1, <2>1 DEF NextLine, Started, x
<1>11. Reading(r, end) = g
  BY DEF Reading
<1> HIDE DEF g
<1>12. \A n \in 0..end : g[n] \in X
  <2> DEFINE P == {n \in 0..end : g[n] = f[n]}
  <2>1. 0 \in P
    BY <1>1, <1>6, <1>10
  <2>2. ASSUME NEW n \in 0..end - 1, n \in P
        PROVE  n + 1 \in P
    <3>1. n + 1 \in 1..end /\ n + 1 - 1 = n /\ g[n] = f[n]
      BY <2>2
    <3> QED BY <1>7, <1>10, <3>1
  <2>3. 0..end \subseteq P
    <3> HIDE DEF P
    <3> QED BY <1>1, <2>1, <2>2, Climb
  <2> QED BY <2>3
<1> QED BY <1>10, <1>11, <1>12 DEF X, x

LEMMA ParsedType ==
  ASSUME NEW r \in RequestObject, HeaderEnd(r.buffer) # 0
  PROVE  /\ ParsingHeader(r).error \in Errors \ {404} /\ ParsingHeader(r).req \in RequestObject
         /\ ParsingHeader(r).req.buffer = r.buffer /\ ParsingHeader(r).req.server = r.server
         /\ ParsingHeader(r).error # OK => Untouched(ParsingHeader(r).req, r)
         /\ ParsingHeader(r).error = OK => ParsingHeader(r).req.start \in 0..Len(r.buffer)
<1> DEFINE end == HeaderEnd(r.buffer)
           read == Reading(r, end)[end]
           p == ParsingHeader(r)
<1>1. r.buffer \in Seq(Word) /\ Len(r.buffer) \in Nat
  BY ObjectParts
<1>2. end \in 1..Len(r.buffer) - 1 /\ r.buffer[end] = CRLF
  BY <1>1, HeaderEndIs
<1> HIDE DEF end
<1>3. read \in ReadStates(r, end)
  <2>1. end \in 1..Len(r.buffer) /\ end \in 0..end
    BY <1>1, <1>2
  <2> QED BY <1>2, <2>1, ReadingIs
<1>4. p.error = read.error
      /\ p.req = IF read.error # OK THEN read.req
                 ELSE [read.req EXCEPT !.start = end + 1, !.state = "CREATE"]
  BY DEF ParsingHeader, end
<1> HIDE DEF read, p
<1>5. read.error \in Errors \ {404} /\ read.req \in RequestObject /\ Untouched(read.req, r)
  BY <1>3 DEF ReadStates
<1>6. CASE read.error # OK
  BY <1>4, <1>5, <1>6 DEF Untouched, p
<1>7. CASE read.error = OK
  <2> DEFINE q == [read.req EXCEPT !.start = end + 1, !.state = "CREATE"]
  <2>1. end + 1 \in Nat /\ end + 1 \in 0..Len(r.buffer)
    BY <1>1, <1>2
  <2>2. q \in RequestObject /\ q.buffer = read.req.buffer /\ q.start = end + 1
        /\ q.server = read.req.server
    <3>1. read.req \in RequestObject /\ end + 1 \in Nat
      BY ONLY <1>5, <2>1
    <3> DEFINE x == read.req
    <3>2. q = [x EXCEPT !.start = end + 1, !.state = "CREATE"] /\ x \in RequestObject
      BY ONLY <3>1 DEF q
    <3> HIDE DEF x, q
    <3>3. q \in RequestObject /\ q.buffer = x.buffer /\ q.start = end + 1 /\ q.server = x.server
      BY ONLY <3>1, <3>2 DEF RequestObject
    <3> QED BY ONLY <3>3 DEF x
  <2> HIDE DEF q
  <2>3. p.req = q /\ p.error = OK
    BY <1>4, <1>7 DEF q
  <2>4. OK \in Errors \ {404}
    BY DEF Errors, OK
  <2> QED BY <1>5, <2>1, <2>2, <2>3, <2>4 DEF Untouched, p
<1> QED BY <1>6, <1>7

-----------------------------------------------------------------------------
(* What a connection keeps, whatever arrives. *)

AnswerObject ==
  [code : Errors \cup {200}, method : Seq(Word), path : Seq(Word), server : Nat,
   location : Locations, file : Seq(Word)]

\* The location was chosen for the path, and the file made of both.
Located(a) ==
  /\ a.server \in DOMAIN Servers[port]
  /\ Len(a.location.path) > 0 /\ IsPrefix(a.location.path, a.path)
  /\ a.file = Convert(a.path, a.location, RootOf(a))

Fine(r) ==
  /\ r \in RequestObject /\ r.start \in 0..Len(r.buffer) /\ r.server \in 0..Len(Servers[port])

Surroundings ==
  /\ port \in DOMAIN Servers /\ wire \in Seq(Word) /\ talk \in Seq(Requests)
  /\ sent \in 0..Len(talk) /\ patient \in BOOLEAN /\ skewed \in BOOLEAN

Answered ==
  /\ answers \in Seq(AnswerObject)
  /\ \A k \in DOMAIN answers : answers[k].code \in {200, 404} => Located(answers[k])

Routed(r, c) ==
  /\ c \in {"waiting", "script"} /\ r.state = "DONE" => Located(r)
  /\ c = "script" => r.state = "DONE"

Sound == Fine(req) /\ conn \in Conns /\ Answered /\ Routed(req, conn)

LEMMA ServerParts ==
  ASSUME NEW p \in DOMAIN Servers, NEW i \in DOMAIN Servers[p]
  PROVE  /\ Len(Servers[p]) \in Nat /\ Servers[p] # <<>> /\ DOMAIN Servers[p] = 1..Len(Servers[p])
         /\ Servers[p][i].names \in SUBSET Seq(Word) /\ Servers[p][i].root \in Seq(Word)
         /\ Servers[p][i].locations \in Seq(Locations)
         /\ \A j, k \in DOMAIN Servers[p][i].locations :
              Servers[p][i].locations[j].path = Servers[p][i].locations[k].path => j = k
<1> DEFINE S == [names : SUBSET Seq(Word), root : Seq(Word), locations : Seq(Locations)]
<1>1. Servers[p] \in Seq(S) /\ Servers[p] # <<>>
  BY ServersKnown
<1>2. Servers[p][i] \in S /\ Len(Servers[p]) \in Nat /\ DOMAIN Servers[p] = 1..Len(Servers[p])
  <2> HIDE DEF S
  <2> QED BY <1>1
<1>3. Servers[p][i].names \in SUBSET Seq(Word) /\ Servers[p][i].root \in Seq(Word)
      /\ Servers[p][i].locations \in Seq(Locations)
  BY <1>2
<1>4. \A j, k \in DOMAIN Servers[p][i].locations :
        Servers[p][i].locations[j].path = Servers[p][i].locations[k].path => j = k
  BY ServersKnown
<1> QED BY <1>1, <1>2, <1>3, <1>4

LEMMA ServerFound ==
  ASSUME port \in DOMAIN Servers, NEW r
  PROVE  FindServer(r) \in DOMAIN Servers[port]
<1> DEFINE s == Servers[port]
           I == {i \in 1..Len(s) : r.host \in s[i].names}
<1>1. s # <<>> /\ s \in Seq([names : SUBSET Seq(Word), root : Seq(Word), locations : Seq(Locations)])
  BY ServersKnown
<1>2. Len(s) \in Nat /\ DOMAIN s = 1..Len(s) /\ Len(s) # 0
  <2> HIDE DEF s
  <2> QED BY <1>1
<1> HIDE DEF s
<1>3. SelectInSeq(s, LAMBDA x : r.host \in x.names) = IF I # {} THEN Min(I) ELSE 0
  BY DEF SelectInSeq
<1>4. I \in SUBSET Nat
  OBVIOUS
<1>5. I # {} => Min(I) \in I
  BY <1>4, MinIs
<1> HIDE DEF I
<1>6. I # {} => Min(I) \in DOMAIN s
  BY <1>2, <1>5 DEF I
<1> QED BY <1>2, <1>3, <1>4, <1>5, <1>6 DEF FindServer, s

\* The location Route chooses.
Found(r) == FindLocation(Servers[port][FindServer(r)].locations, r.path)

LEMMA FoundIs ==
  ASSUME port \in DOMAIN Servers, NEW r \in RequestObject
  PROVE  /\ Servers[port][FindServer(r)].locations \in Seq(Locations)
         /\ Found(r) \in Locations
         /\ Chosen(Found(r), Len(Servers[port][FindServer(r)].locations),
                   Servers[port][FindServer(r)].locations, r.path)
         /\ Found(r) # NoLocation => Len(Found(r).path) > 0 /\ IsPrefix(Found(r).path, r.path)
<1>1. FindServer(r) \in DOMAIN Servers[port]
  BY ServerFound
<1> DEFINE ls == Servers[port][FindServer(r)].locations
<1>2. ls \in Seq(Locations) /\ r.path \in Seq(Word)
  BY <1>1, ServerParts, ObjectParts
<1>3. Found(r) = FindLocation(ls, r.path)
  BY DEF Found
<1> HIDE DEF ls
<1>4. Found(r) \in Locations /\ Chosen(Found(r), Len(ls), ls, r.path)
  BY <1>2, <1>3, LocationChosen
<1>5. Found(r) # NoLocation => Len(Found(r).path) > 0 /\ IsPrefix(Found(r).path, r.path)
  BY <1>4 DEF Chosen
<1> QED BY <1>2, <1>4, <1>5 DEF ls

LEMMA Routes ==
  ASSUME port \in DOMAIN Servers, NEW r, Fine(r)
  PROVE  /\ Fine(Route(r)) /\ (Unlocated(r) <=> Found(r) = NoLocation)
         /\ ~Unlocated(r) => Located(Route(r)) /\ Route(r).location = Found(r)
         /\ Route(r).server = FindServer(r)
         /\ Route(r).buffer = r.buffer /\ Route(r).start = r.start /\ Route(r).method = r.method
         /\ Route(r).path = r.path /\ Route(r).length = r.length /\ Route(r).coding = r.coding
         /\ Route(r).host = r.host /\ Route(r).state = r.state
<1> DEFINE s == FindServer(r)
           l == Found(r)
           root == IF l.root # <<>> THEN l.root ELSE Servers[port][s].root
           file == Convert(r.path, l, root)
           q == Route(r)
<1>1. r \in RequestObject /\ r.path \in Seq(Word) /\ r.start \in 0..Len(r.buffer)
  BY ObjectParts DEF Fine
<1>2. s \in DOMAIN Servers[port] /\ DOMAIN Servers[port] = 1..Len(Servers[port])
      /\ Len(Servers[port]) \in Nat /\ Servers[port][s].root \in Seq(Word)
  BY ServerFound, ServerParts
<1>3. l \in Locations /\ (l # NoLocation => Len(l.path) > 0 /\ IsPrefix(l.path, r.path))
  BY <1>1, FoundIs
<1>4. Unlocated(r) <=> l = NoLocation
  BY DEF Unlocated, Found
<1>5. q = IF l = NoLocation THEN [r EXCEPT !.server = s]
          ELSE [r EXCEPT !.server = s, !.location = l, !.file = file]
  BY DEF Route, Found
<1>6. root \in Seq(Word)
  BY <1>2, <1>3, LocationParts
<1> HIDE DEF s, l, root
<1>7. l # NoLocation => file \in Seq(Word)
  BY <1>1, <1>3, <1>6, ConvertType
<1>8. s \in Nat /\ s \in 0..Len(Servers[port])
  BY <1>2
<1> HIDE DEF file, q
<1>9. CASE l = NoLocation
  <2>1. q = [r EXCEPT !.server = s]
    BY <1>5, <1>9
  <2>2. q \in RequestObject /\ q.server = s
        /\ q.buffer = r.buffer /\ q.start = r.start /\ q.method = r.method
        /\ q.path = r.path /\ q.length = r.length /\ q.coding = r.coding
        /\ q.host = r.host /\ q.state = r.state
    BY <1>1, <1>8, <2>1 DEF RequestObject
  <2>3. Fine(q)
    BY <1>1, <1>8, <2>2 DEF Fine
  <2> QED BY <1>4, <1>9, <2>2, <2>3 DEF q, s, l
<1>10. CASE l # NoLocation
  <2>1. q = [r EXCEPT !.server = s, !.location = l, !.file = file]
    BY <1>5, <1>10
  <2>2. q \in RequestObject /\ q.server = s /\ q.location = l /\ q.file = file
        /\ q.buffer = r.buffer /\ q.start = r.start /\ q.method = r.method
        /\ q.path = r.path /\ q.length = r.length /\ q.coding = r.coding
        /\ q.host = r.host /\ q.state = r.state
    BY <1>1, <1>3, <1>7, <1>8, <1>10, <2>1 DEF RequestObject
  <2>3. Fine(q)
    BY <1>1, <1>8, <2>2 DEF Fine
  <2>4. RootOf(q) = root
    BY <2>2 DEF RootOf, root
  <2>5. Located(q)
    BY <1>2, <1>3, <1>10, <2>2, <2>4 DEF Located, file
  <2> QED BY <1>4, <1>10, <2>2, <2>3, <2>5 DEF q, s, l
<1> QED BY <1>9, <1>10

-----------------------------------------------------------------------------
(* The ways a step of the loop ends keep the invariant. *)

LEMMA StaySound ==
  ASSUME port \in DOMAIN Servers, port' = port, Answered, NEW r, NEW c \in Conns,
         Fine(r), Routed(r, c), Stay(r, c)
  PROVE  Sound'
<1>1. req' = r /\ conn' = c /\ answers' = answers
  BY DEF Stay
<1>2. Fine(req)'
  BY <1>1 DEF Fine
<1>3. Routed(req, conn)'
  BY <1>1 DEF Routed, Located, RootOf
<1>4. Answered'
  BY <1>1 DEF Answered, Located, RootOf
<1> QED BY <1>1, <1>2, <1>3, <1>4 DEF Sound

LEMMA AnswerSound ==
  ASSUME port \in DOMAIN Servers, port' = port, Answered, NEW r, NEW code \in Errors \cup {200},
         Fine(r), code \in {200, 404} => Located(r), Answer(r, code)
  PROVE  Sound'
<1> DEFINE a == [code |-> code, method |-> r.method, path |-> r.path,
                 server |-> r.server, location |-> r.location, file |-> r.file]
<1>1. req' = r /\ conn' = "answering" /\ answers' = Append(answers, a)
  BY DEF Answer
<1>2. a \in AnswerObject
  BY ObjectParts DEF Fine, AnswerObject
<1>3. code \in {200, 404} => Located(a)
  BY DEF Located, RootOf
<1>4. a.code = code
  OBVIOUS
<1> HIDE DEF a
<1>5. answers' \in Seq(AnswerObject) /\ Len(answers') = Len(answers) + 1 /\ Len(answers) \in Nat
      /\ (\A k \in 1..Len(answers) : answers'[k] = answers[k]) /\ answers'[Len(answers) + 1] = a
  BY <1>1, <1>2 DEF Answered
<1>6. \A k \in DOMAIN answers' : answers'[k].code \in {200, 404} => Located(answers'[k])
  <2> SUFFICES ASSUME NEW k \in DOMAIN answers', answers'[k].code \in {200, 404}
               PROVE  Located(answers'[k])
    OBVIOUS
  <2>1. k \in 1..Len(answers) \/ k = Len(answers) + 1
    BY <1>5
  <2>2. CASE k \in 1..Len(answers)
    <3>1. k \in DOMAIN answers
      BY <2>2 DEF Answered
    <3> QED BY <1>5, <2>2, <3>1 DEF Answered
  <2>3. CASE k = Len(answers) + 1
    BY <1>3, <1>4, <1>5, <2>3
  <2> QED BY <2>1, <2>2, <2>3
<1>7. Answered'
  <2>1. (\A k \in DOMAIN answers : answers[k].code \in {200, 404} => Located(answers[k]))'
    BY <1>6 DEF Located, RootOf
  <2> QED BY <1>5, <2>1 DEF Answered
<1>8. Fine(req)' /\ Routed(req, conn)'
  BY <1>1 DEF Fine, Routed
<1> QED BY <1>1, <1>7, <1>8 DEF Sound, Conns

LEMMA ThrowSound ==
  ASSUME port \in DOMAIN Servers, port' = port, Answered, NEW r, NEW error \in Errors \ {404},
         Fine(r), Throw(r, error)
  PROVE  Sound'
<1>1. CASE error = Undefined
  <2>1. Stay(r, "undefined")
    BY <1>1 DEF Throw
  <2>2. "undefined" \in Conns /\ Routed(r, "undefined")
    BY DEF Conns, Routed
  <2> QED BY <2>1, <2>2, StaySound
<1>2. CASE error # Undefined
  <2>1. Answer(r, error) /\ error \notin {200, 404}
    BY <1>2 DEF Throw, Errors, OK, Undefined
  <2> QED BY <2>1, AnswerSound
<1> QED BY <1>1, <1>2

LEMMA ResponseSound ==
  ASSUME port \in DOMAIN Servers, port' = port, Answered, NEW r, NEW c \in {"waiting", "script"},
         Fine(r), r.state = "DONE", Located(r), HandleResponse(r, c)
  PROVE  Sound'
<1> USE DEF Conns
<1>1. Routed(r, c) /\ Routed(r, "script")
  BY DEF Routed
<1>2. /\ 400 \in Errors \ {404} /\ 413 \in Errors \ {404} /\ Undefined \in Errors \ {404}
      /\ 200 \in Errors \cup {200} /\ 404 \in Errors \cup {200}
  BY DEF Errors, Undefined
<1>3. ASSUME NEW code \in {200, 404}, Answer(r, code)
      PROVE  Sound'
  <2>1. code \in Errors \cup {200}
    BY <1>2
  <2> QED BY <1>3, <2>1, AnswerSound
<1>4. CASE Stay(r, c) \/ Stay(r, "script")
  BY <1>1, <1>4, StaySound
<1>5. CASE Throw(r, 400) \/ Throw(r, 413) \/ Throw(r, Undefined)
  BY <1>2, <1>5, ThrowSound
<1>6. CASE HandleGet(r)
  BY <1>3, <1>4, <1>5, <1>6 DEF HandleGet
<1>7. CASE HandleDelete(r)
  BY <1>3, <1>7 DEF HandleDelete
<1>8. CASE HandlePost(r, c)
  BY <1>4, <1>5, <1>8 DEF HandlePost
<1> QED BY <1>4, <1>5, <1>6, <1>7, <1>8 DEF HandleResponse

LEMMA CreateSound ==
  ASSUME port \in DOMAIN Servers, port' = port, Answered, NEW r, Fine(r), Create(r)
  PROVE  Sound'
<1> DEFINE q == Route(r)
           d == [q EXCEPT !.state = "DONE"]
           c == IF q.method \in {<<"POST">>, <<"PUT">>} THEN "script" ELSE "waiting"
<1>1. Fine(q) /\ (~Unlocated(r) => Located(q))
  BY Routes
<1>2. \/ Unlocated(r) /\ Throw(q, 400)
      \/ ~Unlocated(r) /\ ~Allowed(q.location, q.method) /\ Throw(q, 405)
      \/ ~Unlocated(r) /\ Allowed(q.location, q.method) /\ HandleResponse(d, c)
  BY DEF Create
<1>3. c \in {"waiting", "script"}
  OBVIOUS
<1> HIDE DEF q, c
<1>4. CASE Throw(q, 400) \/ Throw(q, 405)
  <2>1. 400 \in Errors \ {404} /\ 405 \in Errors \ {404}
    BY DEF Errors
  <2> QED BY <1>1, <1>4, <2>1, ThrowSound
<1>5. CASE ~Unlocated(r) /\ HandleResponse(d, c)
  <2>1. d \in RequestObject /\ d.buffer = q.buffer /\ d.start = q.start /\ d.server = q.server
        /\ d.path = q.path /\ d.location = q.location /\ d.file = q.file /\ d.state = "DONE"
    BY <1>1 DEF Fine, RequestObject
  <2> HIDE DEF d
  <2>2. Fine(d)
    BY <1>1, <2>1 DEF Fine
  <2>3. Located(d)
    BY <1>1, <1>5, <2>1 DEF Located, RootOf
  <2> QED BY <1>3, <1>5, <2>1, <2>2, <2>3, ResponseSound
<1> QED BY <1>2, <1>4, <1>5

LEMMA RequestSound ==
  ASSUME port \in DOMAIN Servers, port' = port, Answered, NEW r, Fine(r), Routed(r, conn),
         conn \in {"waiting", "script"}, HandleRequest(r)
  PROVE  Sound'
<1>1. conn \in Conns
  BY DEF Conns
<1>2. CASE Stay(r, conn)
  BY <1>1, <1>2, StaySound
<1>3. CASE r.state = "READY" /\ HeaderEnd(r.buffer) # 0 /\ ~Stay(r, conn)
  <2> DEFINE p == ParsingHeader(r)
  <2>1. \/ p.error # OK /\ Throw(p.req, p.error)
        \/ p.error = OK /\ Create(p.req)
    BY <1>3 DEF HandleRequest
  <2>2. /\ p.error \in Errors \ {404} /\ p.req \in RequestObject /\ p.req.buffer = r.buffer
        /\ p.req.server = r.server
        /\ p.error # OK => Untouched(p.req, r)
        /\ p.error = OK => p.req.start \in 0..Len(r.buffer)
    BY <1>3, ParsedType DEF Fine
  <2> HIDE DEF p
  <2>3. Fine(p.req)
    BY <2>2 DEF Fine, Untouched
  <2> QED BY <2>1, <2>2, <2>3, ThrowSound, CreateSound
<1>4. CASE r.state = "DONE" /\ HandleResponse(r, conn)
  BY <1>4, ResponseSound DEF Routed
<1> QED BY <1>2, <1>3, <1>4 DEF HandleRequest

-----------------------------------------------------------------------------
(* The bytes of a request. *)

LEMMA RequestParts ==
  ASSUME NEW q \in Requests
  PROVE  /\ q.verb \in Seq(Word) /\ q.verb # <<>> /\ (\A i \in 1..Len(q.verb) : q.verb[i] \notin {Blank, CRLF})
         /\ q.target \in Seq(Word) /\ (\A i \in 1..Len(q.target) : q.target[i] # CRLF)
         /\ q.version \in Word /\ q.version # Blank /\ q.version # CRLF
         /\ q.fields \in Seq(FieldLines) /\ q.body \in Seq(Word)
<1>1. q.verb \in Seq(Word \ {Blank, CRLF}) \ {<<>>} /\ q.target \in Seq(Word \ {CRLF})
      /\ q.version \in Word \ {Blank, CRLF} /\ q.fields \in Seq(FieldLines) /\ q.body \in Seq(Word)
  BY DEF Requests
<1>2. Word \ {Blank, CRLF} \in SUBSET Word /\ Word \ {CRLF} \in SUBSET Word
  OBVIOUS
<1>3. q.verb \in Seq(Word) /\ \A i \in 1..Len(q.verb) : q.verb[i] \in Word \ {Blank, CRLF}
  <2> DEFINE S == Word \ {Blank, CRLF}
  <2>1. S \in SUBSET Word /\ q.verb \in Seq(S)
    BY <1>1
  <2> HIDE DEF S
  <2>2. q.verb \in Seq(Word) /\ \A i \in 1..Len(q.verb) : q.verb[i] \in S
    BY <2>1, Elements
  <2> QED BY <2>2 DEF S
<1>4. q.target \in Seq(Word) /\ \A i \in 1..Len(q.target) : q.target[i] \in Word \ {CRLF}
  BY <1>1, <1>2, Elements
<1> QED BY <1>1, <1>3, <1>4

LEMMA FieldParts ==
  ASSUME NEW f \in FieldLines
  PROVE  /\ f.name \in Seq(Word) /\ f.name # <<>> /\ Len(f.name) > 0
         /\ \A i \in 1..Len(f.name) : f.name[i] # ":" /\ f.name[i] # CRLF
         /\ f.value \in Seq(Word) /\ \A i \in 1..Len(f.value) : f.value[i] # CRLF
         /\ f.sep \in {<<>>, <<":">>, Colon} /\ f.sep \in Seq(Word)
         /\ f.sep # Colon => Odd(f)
<1>1. f.name \in Seq(Word \ {":", CRLF}) \ {<<>>} /\ f.value \in Seq(Word \ {CRLF})
      /\ f.sep \in {<<>>, <<":">>, Colon} /\ (f.sep # Colon => Odd(f))
  BY DEF FieldLines
<1>2. Word \ {":", CRLF} \in SUBSET Word /\ Word \ {CRLF} \in SUBSET Word
  OBVIOUS
<1>3. f.name \in Seq(Word) /\ Len(f.name) \in Nat
      /\ \A i \in 1..Len(f.name) : f.name[i] \in Word \ {":", CRLF}
  BY <1>1, <1>2, Elements
<1>4. f.value \in Seq(Word) /\ \A i \in 1..Len(f.value) : f.value[i] \in Word \ {CRLF}
  BY <1>1, <1>2, Elements
<1>5. f.sep \in Seq(Word)
  <2>1. ":" \in Word /\ Blank \in Word
    BY WordsKnown
  <2>2. <<":">> \in Seq(Word) /\ Colon \in Seq(Word)
    BY <2>1, Words DEF Colon
  <2>3. <<>> \in Seq(Word)
    OBVIOUS
  <2> QED BY <1>1, <2>2, <2>3
<1>6. Len(f.name) > 0
  BY <1>1, <1>3
<1> QED BY <1>1, <1>3, <1>4, <1>5, <1>6

LEMMA LineType ==
  ASSUME NEW f \in FieldLines
  PROVE  Line(f) \in Seq(Word)
<1>1. f.name \o f.sep \in Seq(Word)
  BY FieldParts, Joined
<1> QED BY <1>1, FieldParts, Joined DEF Line

FirstLine(q) == q.verb \o <<Blank>> \o q.target \o <<Blank, q.version>>

LEMMA HeaderType ==
  ASSUME NEW q \in Requests
  PROVE  /\ FirstLine(q) \in Seq(Word)
         /\ Header(q) \in Seq(Seq(Word)) /\ Len(Header(q)) = Len(q.fields) + 1 /\ Len(q.fields) \in Nat
         /\ Header(q)[1] = FirstLine(q)
         /\ \A i \in 1..Len(q.fields) : Header(q)[i + 1] = Line(q.fields[i])
<1> DEFINE L == [i \in DOMAIN q.fields |-> Line(q.fields[i])]
<1>1. Blank \in Word /\ <<Blank>> \in Seq(Word) /\ <<Blank, q.version>> \in Seq(Word)
  <2>1. Blank \in Word
    BY WordsKnown
  <2>2. q.version \in Word
    BY RequestParts
  <2> QED BY <2>1, <2>2, Words
<1>2. q.verb \o <<Blank>> \in Seq(Word)
  BY <1>1, RequestParts, Joined
<1>3. q.verb \o <<Blank>> \o q.target \in Seq(Word)
  BY <1>2, RequestParts, Joined
<1>4. FirstLine(q) \in Seq(Word)
  BY <1>1, <1>3, Joined DEF FirstLine
<1>5. Len(q.fields) \in Nat /\ DOMAIN q.fields = 1..Len(q.fields)
      /\ \A i \in 1..Len(q.fields) : q.fields[i] \in FieldLines
  <2>1. q.fields \in Seq(FieldLines)
    BY RequestParts
  <2> QED BY <2>1
<1>6. L \in Seq(Seq(Word)) /\ Len(L) = Len(q.fields) /\ \A i \in 1..Len(L) : L[i] = Line(q.fields[i])
  BY <1>5, LineType
<1> HIDE DEF L
<1> DEFINE F == <<FirstLine(q)>>
<1>7. F \in Seq(Seq(Word)) /\ Len(F) = 1 /\ F[1] = FirstLine(q) /\ 1 \in 1..Len(F)
  BY <1>4
<1>8. Header(q) = F \o L
  BY DEF Header, FirstLine, L
<1> HIDE DEF F
<1>9. F \o L \in Seq(Seq(Word)) /\ Len(F \o L) = 1 + Len(L)
      /\ (\A i \in 1..1 : (F \o L)[i] = F[i])
      /\ \A i \in 1..Len(L) : (F \o L)[1 + i] = L[i]
  <2>1. F \o L \in Seq(Seq(Word)) /\ Len(F \o L) = Len(F) + Len(L)
        /\ (\A i \in 1..Len(F) : (F \o L)[i] = F[i])
        /\ \A i \in 1..Len(L) : (F \o L)[Len(F) + i] = L[i]
    <3> DEFINE T == Seq(Word)
    <3>1. F \in Seq(T) /\ L \in Seq(T)
      BY <1>6, <1>7
    <3> HIDE DEF T
    <3>2. /\ F \o L \in Seq(T) /\ Len(F \o L) = Len(F) + Len(L)
          /\ (\A i \in 1..Len(F) : (F \o L)[i] = F[i])
          /\ \A i \in 1..Len(L) : (F \o L)[Len(F) + i] = L[i]
      BY <3>1, Joined
    <3> QED BY <3>2 DEF T
  <2> QED BY <1>7, <2>1
<1> QED BY <1>4, <1>5, <1>6, <1>7, <1>8, <1>9, SMTT(30)

\* The header as lines that are ended.
Ended(q) == [i \in DOMAIN Header(q) |-> Header(q)[i] \o <<CRLF>>]

LEMMA HeadingType ==
  ASSUME NEW q \in Requests
  PROVE  /\ Ended(q) \in Seq(Seq(Word)) /\ Len(Ended(q)) = Len(Header(q))
         /\ \A i \in 1..Len(Header(q)) : Ended(q)[i] = Header(q)[i] \o <<CRLF>>
         /\ Heading(q) = FlattenSeq(Ended(q)) /\ Heading(q) \in Seq(Word)
<1>1. CRLF \in Word /\ <<CRLF>> \in Seq(Word)
  <2>1. CRLF \in Word
    BY WordsKnown
  <2> QED BY <2>1
<1>2. DOMAIN Header(q) = 1..Len(Header(q)) /\ Len(Header(q)) \in Nat
      /\ \A i \in 1..Len(Header(q)) : Header(q)[i] \in Seq(Word)
  BY HeaderType
<1>3. \A i \in 1..Len(Header(q)) : Header(q)[i] \o <<CRLF>> \in Seq(Word)
  BY <1>1, <1>2, Joined
<1>4. Ended(q) \in Seq(Seq(Word)) /\ Len(Ended(q)) = Len(Header(q))
      /\ \A i \in 1..Len(Header(q)) : Ended(q)[i] = Header(q)[i] \o <<CRLF>>
  BY <1>2, <1>3 DEF Ended
<1>5. Heading(q) = FlattenSeq(Ended(q))
  BY DEF Heading, Ended
<1> QED BY <1>4, <1>5, FlattenType

LEMMA RenderType ==
  ASSUME NEW q \in Requests
  PROVE  Render(q) \in Seq(Word) /\ Heading(q) \in Seq(Word) /\ Heading(q) \o <<CRLF>> \in Seq(Word)
         /\ Render(q) = Heading(q) \o <<CRLF>> \o q.body
<1>1. CRLF \in Word /\ <<CRLF>> \in Seq(Word)
  <2>1. CRLF \in Word
    BY WordsKnown
  <2> QED BY <2>1
<1>2. Heading(q) \in Seq(Word)
  BY HeadingType
<1>3. Heading(q) \o <<CRLF>> \in Seq(Word)
  BY <1>1, <1>2, Joined
<1>4. Heading(q) \o <<CRLF>> \o q.body \in Seq(Word)
  BY <1>3, RequestParts, Joined
<1> QED BY <1>2, <1>3, <1>4 DEF Render

-----------------------------------------------------------------------------
(* Type correctness, and where files lie. *)

Keeps == Surroundings /\ Sound

LEMMA ObjectNew == NewRequest \in RequestObject
<1>1. <<>> \in Seq(Word) /\ NoLocation \in Locations
  BY NoLocationIs
<1> QED BY <1>1 DEF NewRequest, RequestObject

LEMMA ObjectCleared ==
  ASSUME NEW r, Fine(r)
  PROVE  Fine(Cleared(r)) /\ Cleared(r).state = "READY" /\ Cleared(r).buffer = <<>>
         /\ Cleared(r).host = r.host
<1> DEFINE n == NewRequest
           c == Cleared(r)
<1>1. n \in RequestObject /\ n.state = "READY" /\ n.buffer = <<>> /\ n.start = 0
  BY ObjectNew DEF NewRequest
<1>2. c = [n EXCEPT !.host = r.host, !.server = r.server, !.location = r.location]
  BY DEF Cleared
<1>3. r.host \in Seq(Word) /\ r.server \in Nat /\ r.location \in Locations
      /\ r.server \in 0..Len(Servers[port])
  BY ObjectParts DEF Fine
<1> HIDE DEF n, c
<1>4. c \in RequestObject /\ c.state = "READY" /\ c.buffer = <<>> /\ c.start = 0
      /\ c.host = r.host /\ c.server = r.server
  BY <1>1, <1>2, <1>3 DEF RequestObject
<1>5. Len(<<>>) = 0
  OBVIOUS
<1> QED BY <1>3, <1>4, <1>5 DEF Fine, c

LEMMA KeepsInit == Init => Keeps
<1> SUFFICES ASSUME Init
             PROVE  Keeps
  OBVIOUS
<1> USE DEF Init
<1>1. talk \in Seq(Requests) /\ wire \in Seq(Word) /\ sent \in 0..Len(talk)
  <2>1. talk \in Seq(Requests)
    BY TalksKnown
  <2> QED BY <2>1
<1>2. Surroundings
  BY <1>1, PatienceIsBoolean DEF Surroundings
<1>3. Servers[port] # <<>> /\ Len(Servers[port]) \in Nat
  <2>1. Servers[port] \in Seq([names : SUBSET Seq(Word), root : Seq(Word), locations : Seq(Locations)])
        /\ Servers[port] # <<>>
    BY ServersKnown
  <2> QED BY <2>1
<1>4. Fine(req)
  <2>1. req.start = 0 /\ req.buffer = <<>> /\ req.server = 0 /\ Len(<<>>) = 0
    BY DEF NewRequest
  <2> QED BY <1>3, <2>1, ObjectNew DEF Fine
<1>5. Answered
  <2>1. answers = <<>> /\ answers \in Seq(AnswerObject) /\ DOMAIN answers = {}
    OBVIOUS
  <2> QED BY <2>1 DEF Answered
<1>6. Routed(req, conn) /\ conn \in Conns
  BY DEF Routed, NewRequest, Conns
<1> QED BY <1>2, <1>4, <1>5, <1>6 DEF Keeps, Sound

LEMMA Delivering ==
  ASSUME Keeps, NEW n \in 1..Len(wire)
  PROVE  /\ SubSeq(wire, 1, n) \in Seq(Word) /\ SubSeq(wire, n + 1, Len(wire)) \in Seq(Word)
         /\ wire = SubSeq(wire, 1, n) \o SubSeq(wire, n + 1, Len(wire))
         /\ Len(SubSeq(wire, 1, n)) = n
<1>1. wire \in Seq(Word) /\ Len(wire) \in Nat /\ n \in Nat /\ n <= Len(wire)
  BY DEF Keeps, Surroundings
<1> DEFINE w == wire
<1>2. w \in Seq(Word) /\ Len(w) \in Nat /\ n <= Len(w)
  BY <1>1
<1> HIDE DEF w
<1> DEFINE a == SubSeq(w, 0 + 1, 0 + n)
           k == Len(w) - n
           b == SubSeq(w, n + 1, n + k)
<1>3. k \in Nat /\ n + k = Len(w) /\ n + k <= Len(w) /\ 0 + n <= Len(w) /\ 0 + 1 = 1 /\ 0 + n = n
  BY <1>1, <1>2
<1>4. a \in Seq(Word) /\ Len(a) = n /\ \A i \in 1..n : a[i] = w[0 + i]
  BY <1>1, <1>2, <1>3, Part
<1>5. b \in Seq(Word) /\ Len(b) = k /\ \A i \in 1..k : b[i] = w[n + i]
  <2> HIDE DEF k
  <2> QED BY <1>1, <1>2, <1>3, Part
<1>6. a = SubSeq(w, 1, n) /\ b = SubSeq(w, n + 1, Len(w))
  BY <1>3
<1> HIDE DEF a, b, k
<1>7. a \o b \in Seq(Word) /\ Len(a \o b) = n + k /\ (\A i \in 1..n : (a \o b)[i] = a[i])
      /\ \A i \in 1..k : (a \o b)[n + i] = b[i]
  BY <1>4, <1>5, JoinedAt
<1>8. \A i \in 1..Len(w) : (a \o b)[i] = w[i]
  <2> SUFFICES ASSUME NEW i \in 1..Len(w)
               PROVE  (a \o b)[i] = w[i]
    OBVIOUS
  <2>1. i \in 1..n \/ (i - n \in 1..k /\ n + (i - n) = i)
    BY <1>1, <1>2, <1>3
  <2>2. CASE i \in 1..n
    <3>1. 0 + i = i
      BY <1>1, <2>2
    <3> QED BY <1>4, <1>7, <2>2, <3>1
  <2>3. CASE i - n \in 1..k /\ n + (i - n) = i
    BY <1>5, <1>7, <2>3
  <2> QED BY <2>1, <2>2, <2>3
<1>9. a \o b = w
  BY <1>2, <1>3, <1>7, <1>8, SeqEqual
<1> QED BY <1>4, <1>5, <1>6, <1>9 DEF w

\* The Request object once the bytes have come.
Fed(n) == [req EXCEPT !.buffer = @ \o SubSeq(wire, 1, n)]

LEMMA FedIs ==
  ASSUME Keeps, NEW n \in 1..Len(wire)
  PROVE  /\ Fine(Fed(n)) /\ Fed(n).buffer = req.buffer \o SubSeq(wire, 1, n)
         /\ Fed(n).state = req.state /\ Fed(n).start = req.start /\ Fed(n).method = req.method
         /\ Fed(n).path = req.path /\ Fed(n).length = req.length /\ Fed(n).coding = req.coding
         /\ Fed(n).host = req.host /\ Fed(n).server = req.server
         /\ Fed(n).location = req.location /\ Fed(n).file = req.file
<1> DEFINE b == req.buffer \o SubSeq(wire, 1, n)
           r == Fed(n)
<1>1. req \in RequestObject /\ req.buffer \in Seq(Word) /\ req.start \in 0..Len(req.buffer)
      /\ req.server \in 0..Len(Servers[port])
  BY ObjectParts DEF Keeps, Sound, Fine
<1>2. b \in Seq(Word) /\ Len(b) = Len(req.buffer) + n /\ Len(req.buffer) \in Nat
  BY <1>1, Delivering, Joined
<1>3. r = [req EXCEPT !.buffer = b]
  BY DEF Fed
<1> HIDE DEF b, r
<1>4. /\ r \in RequestObject /\ r.buffer = b
      /\ r.state = req.state /\ r.start = req.start /\ r.method = req.method
      /\ r.path = req.path /\ r.length = req.length /\ r.coding = req.coding
      /\ r.host = req.host /\ r.server = req.server
      /\ r.location = req.location /\ r.file = req.file
  BY <1>1, <1>2, <1>3 DEF RequestObject
<1>5. Fine(r)
  BY <1>1, <1>2, <1>4 DEF Fine
<1> QED BY <1>4, <1>5 DEF r, b

LEMMA ReceiveKeeps == Keeps /\ Receive => Keeps'
<1> SUFFICES ASSUME Keeps, Receive
             PROVE  Keeps'
  OBVIOUS
<1>1. PICK n \in 1..Len(wire) :
        /\ HandleRequest(Fed(n))
        /\ wire' = SubSeq(wire, n + 1, Len(wire))
  BY DEF Receive, Fed
<1>2. /\ conn \in {"waiting", "script"} /\ port' = port /\ talk' = talk
      /\ sent' = sent /\ patient' = patient /\ skewed' = skewed
  BY DEF Receive
<1>3. Surroundings'
  BY <1>1, <1>2, Delivering DEF Keeps, Surroundings
<1>4. Routed(Fed(n), conn)
  BY FedIs DEF Keeps, Sound, Routed, Located, RootOf
<1>5. Sound'
  <2>1. port \in DOMAIN Servers /\ Answered
    BY DEF Keeps, Surroundings, Sound
  <2>2. Fine(Fed(n))
    BY FedIs
  <2> QED BY <1>1, <1>2, <1>4, <2>1, <2>2, RequestSound
<1> QED BY <1>3, <1>5 DEF Keeps

LEMMA SendKeeps == Keeps /\ Send => Keeps'
<1> SUFFICES ASSUME Keeps, Send
             PROVE  Keeps'
  OBVIOUS
<1>1. /\ sent < Len(talk) /\ sent' = sent + 1 /\ wire' = wire \o Render(talk[sent + 1])
      /\ port' = port /\ req' = req /\ conn' = conn /\ talk' = talk /\ patient' = patient
      /\ answers' = answers /\ skewed' = skewed
  BY DEF Send
<1>2. sent + 1 \in 1..Len(talk) /\ talk[sent + 1] \in Requests
  BY <1>1 DEF Keeps, Surroundings
<1>3. wire' \in Seq(Word)
  BY <1>1, <1>2, RenderType, Joined DEF Keeps, Surroundings
<1>4. Surroundings'
  <2>1. sent' \in 0..Len(talk')
    BY <1>1, <1>2
  <2> QED BY <1>1, <1>3, <2>1 DEF Keeps, Surroundings
<1>5. Sound'
  BY <1>1 DEF Keeps, Sound, Fine, Answered, Routed, Located, RootOf
<1> QED BY <1>4, <1>5 DEF Keeps

LEMMA ScriptEndsKeeps == Keeps /\ ScriptEnds => Keeps'
<1> SUFFICES ASSUME Keeps, ScriptEnds
             PROVE  Keeps'
  OBVIOUS
<1>1. PICK code \in {200, 400, 500} : Answer(req, code)
  BY DEF ScriptEnds
<1>2. /\ conn = "script" /\ port' = port /\ wire' = wire /\ talk' = talk /\ sent' = sent
      /\ patient' = patient /\ skewed' = skewed
  BY DEF ScriptEnds
<1>3. Surroundings'
  BY <1>2 DEF Keeps, Surroundings
<1>4. Located(req) /\ Fine(req) /\ port \in DOMAIN Servers /\ Answered
  BY <1>2 DEF Keeps, Surroundings, Sound, Routed
<1>5. code \in Errors \cup {200}
  BY DEF Errors
<1>6. Sound'
  BY <1>1, <1>2, <1>4, <1>5, AnswerSound
<1> QED BY <1>3, <1>6 DEF Keeps

LEMMA SendAnswerKeeps == Keeps /\ SendAnswer => Keeps'
<1> SUFFICES ASSUME Keeps, SendAnswer
             PROVE  Keeps'
  OBVIOUS
<1>1. /\ req' = Cleared(req) /\ conn' \in {"closed", "waiting"} /\ answers' = answers
      /\ port' = port /\ wire' = wire /\ talk' = talk /\ sent' = sent /\ patient' = patient
      /\ skewed' \in BOOLEAN
  BY DEF SendAnswer, AfterAnswer
<1>2. Fine(Cleared(req)) /\ Cleared(req).state = "READY"
  BY ObjectCleared DEF Keeps, Sound
<1>3. Surroundings'
  BY <1>1 DEF Keeps, Surroundings
<1>4. Fine(req)'
  BY <1>1, <1>2 DEF Fine
<1>5. Routed(req, conn)'
  BY <1>1, <1>2 DEF Routed
<1>6. Answered'
  BY <1>1 DEF Keeps, Sound, Answered, Located, RootOf
<1> QED BY <1>1, <1>3, <1>4, <1>5, <1>6 DEF Keeps, Sound, Conns

LEMMA CloseKeeps == Keeps /\ Close => Keeps'
<1> SUFFICES ASSUME Keeps, Close
             PROVE  Keeps'
  OBVIOUS
<1>1. conn' = "closed" /\ UNCHANGED <<port, req, wire, talk, sent, patient, answers, skewed>>
  BY DEF Close
<1>2. Routed(req, conn)'
  BY <1>1 DEF Routed
<1>3. Surroundings' /\ Fine(req)' /\ Answered'
  BY <1>1 DEF Keeps, Surroundings, Sound, Fine, Answered, Located, RootOf
<1> QED BY <1>1, <1>2, <1>3 DEF Keeps, Sound, Conns

LEMMA StutterKeeps == Keeps /\ UNCHANGED vars => Keeps'
BY DEF vars, Keeps, Surroundings, Sound, Fine, Answered, Routed, Located, RootOf

LEMMA KeepsInvariant == Spec => []Keeps
<1>1. Keeps /\ [Next]_vars => Keeps'
  BY ReceiveKeeps, SendKeeps, ScriptEndsKeeps, SendAnswerKeeps, CloseKeeps, StutterKeeps DEF Next
<1> QED BY KeepsInit, <1>1, PTL DEF Spec

\* Whatever arrives, however it is cut into pieces: the Request object, the connection
\* and the answers keep their types, and _bodyStartIndex stays within the buffer.
THEOREM TypeCorrect == Spec => []TypeOK
<1>1. Keeps => TypeOK
  <2> SUFFICES ASSUME Keeps
               PROVE  TypeOK
    OBVIOUS
  <2>1. \A k \in DOMAIN answers : answers[k].code \in Errors \cup {200}
    <3>1. \A k \in DOMAIN answers : answers[k] \in AnswerObject
      BY DEF Keeps, Sound, Answered
    <3> QED BY <3>1 DEF AnswerObject
  <2> QED BY <2>1 DEF Keeps, Surroundings, Sound, Fine, TypeOK
<1> QED BY <1>1, KeepsInvariant, PTL

-----------------------------------------------------------------------------
(* Tokens, from one to the next. *)

LEMMA FindWord ==
  ASSUME NEW T, NEW s \in Seq(T), NEW w, NEW n \in 1..Len(s) + 1, NEW e, e = Find(s, <<w>>, n)
  PROVE  /\ e \in n..Len(s) + 1 /\ (e <= Len(s) => s[e] = w)
         /\ \A i \in n..e - 1 : s[i] # w
<1>1. e \in n..Len(s) + 1 /\ (e # Len(s) + 1 => At(s, <<w>>, e))
      /\ \A i \in n..Len(s) : i < e => ~At(s, <<w>>, i)
  BY FindIs
<1>2. \A i \in 1..Len(s) : At(s, <<w>>, i) <=> s[i] = w
  <2>1. Len(<<w>>) = 1 /\ <<w>>[1] = w /\ DOMAIN <<w>> = {1}
    OBVIOUS
  <2>2. \A i \in 1..Len(s) : i + 1 - 1 = i
    OBVIOUS
  <2> QED BY <2>1, <2>2 DEF At
<1>3. Len(s) \in Nat /\ n \in Nat /\ n >= 1 /\ e \in Nat
  BY <1>1
<1>4. e <= Len(s) => s[e] = w
  BY <1>1, <1>2, <1>3
<1>5. \A i \in n..e - 1 : i \in n..Len(s) /\ i < e /\ i \in 1..Len(s)
  BY <1>1, <1>3
<1> QED BY <1>1, <1>2, <1>4, <1>5

\* What Tokens(s, d) is at n, where e is the next occurrence of d.
TokensAt(T, s, d, n, e) ==
  /\ Tokens(s, d)[n] \in Pieces(T) /\ e \in n..Len(s) + 1
  /\ e > Len(s) /\ e = n => Tokens(s, d)[n] = <<>>
  /\ e > Len(s) /\ e # n => Tokens(s, d)[n] = <<SubSeq(s, n, e - 1)>>
  /\ e <= Len(s) => e + 1 \in 1..Len(s) + 1 /\ Tokens(s, d)[e + 1] \in Pieces(T)
  /\ e <= Len(s) /\ e = n => Tokens(s, d)[n] = Tokens(s, d)[e + 1]
  /\ e <= Len(s) /\ e # n => Tokens(s, d)[n] = <<SubSeq(s, n, e - 1)>> \o Tokens(s, d)[e + 1]
  /\ e # n => /\ SubSeq(s, n, e - 1) \in Seq(T) /\ Len(SubSeq(s, n, e - 1)) = e - n
              /\ \A i \in 1..e - n : SubSeq(s, n, e - 1)[i] = s[n - 1 + i]

LEMMA TokenStep ==
  ASSUME NEW T, NEW s \in Seq(T), NEW d, NEW n \in 1..Len(s) + 1, NEW e, e = Find(s, d, n)
  PROVE  TokensAt(T, s, d, n, e)
<1> DEFINE t == Tokens(s, d)
           p == SubSeq(s, n, e - 1)
<1>1. t \in [1..Len(s) + 1 -> Pieces(T)] /\ Splits(t, s, d)
  BY TokensAre
<1>2. e \in n..Len(s) + 1 /\ Len(s) \in Nat
  BY FindIs
<1> HIDE DEF t
<1>3. t[n] = IF e = n THEN (IF e > Len(s) THEN <<>> ELSE t[e + 1])
             ELSE <<p>> \o (IF e > Len(s) THEN <<>> ELSE t[e + 1])
  BY <1>1 DEF Splits
<1>4. e <= Len(s) => e + 1 \in 1..Len(s) + 1
  BY <1>2
<1>5. ASSUME e # n
      PROVE  p \in Seq(T) /\ Len(p) = e - n /\ \A i \in 1..e - n : p[i] = s[n - 1 + i]
  <2> DEFINE a == n - 1  k == e - n
  <2>1. a \in Nat /\ k \in Nat /\ a + k <= Len(s) /\ a + 1 = n /\ a + k = e - 1
    BY <1>2, <1>5
  <2>2. p = SubSeq(s, a + 1, a + k)
    BY <2>1
  <2> HIDE DEF a, k, p
  <2>3. p \in Seq(T) /\ Len(p) = k /\ \A i \in 1..k : p[i] = s[a + i]
    BY <2>1, <2>2, Part
  <2> QED BY <2>3 DEF a, k
<1>6. ASSUME e > Len(s), e # n
      PROVE  t[n] = <<p>>
  <2> HIDE DEF p
  <2>1. t[n] = <<p>> \o <<>>
    BY <1>3, <1>6
  <2>2. <<p>> \in Seq({p}) /\ \A x \in Seq({p}) : x \o <<>> = x
    OBVIOUS
  <2> QED BY <2>1, <2>2
<1> HIDE DEF p
<1>7. e <= Len(s) => ~(e > Len(s))
  BY <1>2
<1> QED BY <1>1, <1>2, <1>3, <1>4, <1>5, <1>6, <1>7 DEF t, p, TokensAt

LEMMA PieceJoined ==
  ASSUME NEW T, NEW p \in Seq(T) \ {<<>>}, NEW t \in Pieces(T)
  PROVE  /\ <<p>> \o t \in Pieces(T) /\ <<p>> \o t # <<>> /\ Len(<<p>> \o t) = Len(t) + 1
         /\ Len(t) \in Nat /\ (t # <<>> => Len(t) > 0 /\ Last(<<p>> \o t) = Last(t))
         /\ (t = <<>> => Last(<<p>> \o t) = p)
         /\ (<<p>> \o t)[1] = p /\ \A i \in 1..Len(t) : (<<p>> \o t)[i + 1] = t[i]
         /\ Last(<<p>>) = p /\ <<p>> # <<>>
<1> DEFINE X == Seq(T) \ {<<>>}
           u == <<p>>
           v == u \o t
<1>1. u \in Seq(X) /\ Len(u) = 1 /\ u[1] = p /\ t \in Seq(X)
  BY DEF Pieces
<1>0. Pieces(T) = Seq(X)
  BY DEF Pieces
<1> HIDE DEF X, u, v
<1>2. v \in Seq(X) /\ Len(v) = Len(u) + Len(t) /\ Len(t) \in Nat
      /\ (\A i \in 1..Len(u) : v[i] = u[i]) /\ \A i \in 1..Len(t) : v[Len(u) + i] = t[i]
  <2>1. u \o t \in Seq(X) /\ Len(u \o t) = Len(u) + Len(t) /\ Len(t) \in Nat
        /\ (\A i \in 1..Len(u) : (u \o t)[i] = u[i])
        /\ \A i \in 1..Len(t) : (u \o t)[Len(u) + i] = t[i]
    <3>1. u \in Seq(X) /\ t \in Seq(X)
      BY <1>1
    <3> QED BY ONLY <3>1, Joined
  <2> QED BY <2>1 DEF v
<1>3. Len(v) = Len(t) + 1 /\ v[1] = p /\ \A i \in 1..Len(t) : v[i + 1] = t[i]
  BY <1>1, <1>2
<1>4. v # <<>> /\ u # <<>>
  <2>1. Len(v) # 0 /\ Len(u) # 0 /\ Len(<<>>) = 0
    BY <1>1, <1>2, <1>3
  <2> QED BY <2>1
<1>5. t # <<>> => Len(t) > 0 /\ Last(v) = Last(t)
  <2> SUFFICES ASSUME t # <<>>
               PROVE  Len(t) > 0 /\ Last(v) = Last(t)
    OBVIOUS
  <2>1. Len(t) > 0
    BY <1>1, <1>2, EmptySeq
  <2>2. Len(t) \in 1..Len(t)
    BY <1>2, <2>1
  <2> QED BY <1>3, <2>1, <2>2 DEF Last
<1>6. t = <<>> => Last(v) = p
  <2>1. t = <<>> => Len(t) = 0
    OBVIOUS
  <2> QED BY <1>3, <2>1 DEF Last
<1>7. Last(u) = p
  BY <1>1 DEF Last
<1> QED BY <1>0, <1>1, <1>2, <1>3, <1>4, <1>5, <1>6, <1>7 DEF u, v

-----------------------------------------------------------------------------
(* The last name of a file. *)

\* Script, of what stands from n on, for any word.
LastNameHolds(s, w, n) ==
  \E i \in n..Len(s) :
    s[i] = w /\ \A j, k \in i + 1..Len(s) : j < k /\ s[j] = "/" => s[k] = "/"

NamesAt(s, w, n) ==
  LET t == Tokens(s, <<"/">>)[n]
  IN  /\ t = <<>> <=> \A k \in n..Len(s) : s[k] = "/"
      /\ t # <<>> => (Holds(Last(t), w) <=> LastNameHolds(s, w, n))

LEMMA NamesStep ==
  ASSUME NEW s \in Seq(Word), NEW w, w # "/", NEW n \in 1..Len(s) + 1,
         NEW e, e = Find(s, <<"/">>, n), e <= Len(s) => NamesAt(s, w, e + 1)
  PROVE  NamesAt(s, w, n)
<1> DEFINE t(m) == Tokens(s, <<"/">>)[m]
           p == SubSeq(s, n, e - 1)
<1>1. /\ e \in n..Len(s) + 1 /\ e \in Nat /\ n \in Nat /\ n >= 1 /\ Len(s) \in Nat
      /\ e <= Len(s) => s[e] = "/"
      /\ \A i \in n..e - 1 : s[i] # "/"
  BY FindWord
<1>2. /\ e > Len(s) /\ e = n => t(n) = <<>>
      /\ e > Len(s) /\ e # n => t(n) = <<p>>
      /\ e <= Len(s) => e + 1 \in 1..Len(s) + 1 /\ t(e + 1) \in Pieces(Word)
      /\ e <= Len(s) /\ e = n => t(n) = t(e + 1)
      /\ e <= Len(s) /\ e # n => t(n) = <<p>> \o t(e + 1)
      /\ e # n => p \in Seq(Word) /\ Len(p) = e - n /\ \A i \in 1..e - n : p[i] = s[n - 1 + i]
  <2>1. TokensAt(Word, s, <<"/">>, n, e)
    BY TokenStep
  <2>2. e # n => /\ p \in Seq(Word) /\ Len(p) = e - n
                 /\ \A i \in 1..e - n : p[i] = s[n - 1 + i]
    BY ONLY <2>1 DEF TokensAt
  <2>3. /\ e > Len(s) /\ e = n => t(n) = <<>>
        /\ e > Len(s) /\ e # n => t(n) = <<p>>
        /\ e <= Len(s) => e + 1 \in 1..Len(s) + 1 /\ t(e + 1) \in Pieces(Word)
    BY ONLY <2>1 DEF TokensAt
  <2>4. /\ e <= Len(s) /\ e = n => t(n) = t(e + 1)
        /\ e <= Len(s) /\ e # n => t(n) = <<p>> \o t(e + 1)
    BY ONLY <2>1 DEF TokensAt
  <2> HIDE DEF t, p
  <2> QED BY <2>2, <2>3, <2>4
<1>3. e <= Len(s) => /\ t(e + 1) = <<>> <=> \A k \in e + 1..Len(s) : s[k] = "/"
                     /\ t(e + 1) # <<>> => (Holds(Last(t(e + 1)), w) <=> LastNameHolds(s, w, e + 1))
  BY DEF NamesAt
<1> SUFFICES /\ t(n) = <<>> <=> \A k \in n..Len(s) : s[k] = "/"
             /\ t(n) # <<>> => (Holds(Last(t(n)), w) <=> LastNameHolds(s, w, n))
  BY DEF NamesAt
<1> HIDE DEF t, p
\* The piece that begins at n holds w if one of its words is w.
<1>4. ASSUME e # n
      PROVE  /\ p \in Seq(Word) \ {<<>>} /\ s[n] # "/" /\ n \in n..Len(s)
             /\ Holds(p, w) <=> \E i \in n..e - 1 : s[i] = w
  <2>1. Len(p) > 0 /\ DOMAIN p = 1..e - n
    BY <1>1, <1>2, <1>4
  <2>2. p # <<>>
    <3>1. Len(<<>>) = 0
      OBVIOUS
    <3> QED BY <2>1, <3>1
  <2>3. n \in n..e - 1 /\ n \in n..Len(s)
    BY <1>1, <1>4
  <2>4. ASSUME Holds(p, w)
        PROVE  \E i \in n..e - 1 : s[i] = w
    <3>1. PICK i \in 1..e - n : p[i] = w
      BY <2>1, <2>4 DEF Holds
    <3>2. n - 1 + i \in n..e - 1 /\ s[n - 1 + i] = w
      BY <1>1, <1>2, <1>4, <3>1
    <3> QED BY <3>2
  <2>5. ASSUME NEW i \in n..e - 1, s[i] = w
        PROVE  Holds(p, w)
    <3> DEFINE j == i - n + 1
    <3>1. j \in 1..e - n /\ n - 1 + j = i
      BY <1>1
    <3> HIDE DEF j
    <3>2. p[j] = w
      BY <1>2, <1>4, <2>5, <3>1
    <3> QED BY <2>1, <3>1, <3>2 DEF Holds
  <2> QED BY <1>1, <1>2, <1>4, <2>2, <2>3, <2>4, <2>5
<1>5. CASE e > Len(s) /\ e = n
  <2>1. t(n) = <<>> /\ \A k \in n..Len(s) : FALSE
    BY <1>1, <1>2, <1>5
  <2> QED BY <2>1
<1>6. CASE e > Len(s) /\ e # n
  <2>1. t(n) = <<p>> /\ e - 1 = Len(s) /\ e = Len(s) + 1
    BY <1>1, <1>2, <1>6
  <2>2. <<p>> # <<>> /\ Last(<<p>>) = p
    <3>1. <<>> \in Pieces(Word)
      BY DEF Pieces
    <3> QED BY <1>4, <1>6, <3>1, PieceJoined
  <2>3. LastNameHolds(s, w, n) <=> \E i \in n..Len(s) : s[i] = w
    <3>1. ASSUME NEW i \in n..Len(s), s[i] = w
          PROVE  LastNameHolds(s, w, n)
      <4>1. \A j \in i + 1..Len(s) : s[j] # "/"
        BY <1>1, <2>1
      <4> QED BY <3>1, <4>1 DEF LastNameHolds
    <3> QED BY <3>1 DEF LastNameHolds
  <2>4. ~\A k \in n..Len(s) : s[k] = "/"
    BY <1>4, <1>6
  <2> QED BY <1>4, <1>6, <2>1, <2>2, <2>3, <2>4
<1>7. CASE e <= Len(s) /\ e = n
  <2>1. t(n) = t(e + 1) /\ s[n] = "/" /\ \A k \in n..Len(s) : k = n \/ k \in e + 1..Len(s)
    BY <1>1, <1>2, <1>7
  <2>2. (\A k \in n..Len(s) : s[k] = "/") <=> \A k \in e + 1..Len(s) : s[k] = "/"
    BY <1>1, <1>7, <2>1
  <2>3. LastNameHolds(s, w, n) <=> LastNameHolds(s, w, e + 1)
    <3>1. \A k \in e + 1..Len(s) : k \in n..Len(s)
      BY <1>1
    <3> QED BY <2>1, <3>1 DEF LastNameHolds
  <2> QED BY <1>3, <1>7, <2>1, <2>2, <2>3
<1>8. CASE e <= Len(s) /\ e # n
  <2>1. t(n) = <<p>> \o t(e + 1) /\ t(e + 1) \in Pieces(Word) /\ s[e] = "/"
    BY <1>1, <1>2, <1>8
  <2>2. /\ t(n) # <<>>
        /\ t(e + 1) # <<>> => Last(t(n)) = Last(t(e + 1))
        /\ t(e + 1) = <<>> => Last(t(n)) = p
    BY <1>4, <1>8, <2>1, PieceJoined
  <2>3. ~\A k \in n..Len(s) : s[k] = "/"
    BY <1>4, <1>8
  <2>4. \A i \in n..Len(s) : i \in n..e - 1 \/ i = e \/ i \in e + 1..Len(s)
    BY <1>1, <1>8
  <2>5. (\A i \in e + 1..Len(s) : i \in n..Len(s)) /\ \A i \in n..e - 1 : i \in n..Len(s)
    BY <1>1, <1>8
  <2>6. CASE t(e + 1) = <<>>
    <3>1. \A k \in e + 1..Len(s) : s[k] = "/"
      BY <1>3, <1>8, <2>6
    <3>2. LastNameHolds(s, w, n) => \E i \in n..e - 1 : s[i] = w
      <4> SUFFICES ASSUME NEW i \in n..Len(s), s[i] = w
                   PROVE  \E x \in n..e - 1 : s[x] = w
        BY DEF LastNameHolds
      <4>1. i \in n..e - 1
        BY <2>1, <2>4, <3>1
      <4> QED BY <4>1
    <3>3. ASSUME NEW i \in n..e - 1, s[i] = w
          PROVE  LastNameHolds(s, w, n)
      <4>1. ASSUME NEW j \in i + 1..Len(s), NEW k \in i + 1..Len(s), j < k, s[j] = "/"
            PROVE  s[k] = "/"
        <5>1. ~(j < e)
          <6>1. j < e => j \in n..e - 1
            BY <1>1
          <6> QED BY <1>1, <4>1, <6>1
        <5>2. k \in e + 1..Len(s)
          BY <1>1, <4>1, <5>1
        <5> QED BY <3>1, <5>2
      <4>2. i \in n..Len(s)
        BY <2>5
      <4> QED BY <3>3, <4>1, <4>2 DEF LastNameHolds
    <3> QED BY <1>4, <1>8, <2>2, <2>3, <2>6, <3>2, <3>3
  <2>7. CASE t(e + 1) # <<>>
    <3>1. PICK z \in e + 1..Len(s) : s[z] # "/"
      BY <1>3, <1>8, <2>7
    <3>2. ASSUME NEW i \in n..Len(s), s[i] = w,
                 \A j, k \in i + 1..Len(s) : j < k /\ s[j] = "/" => s[k] = "/"
          PROVE  LastNameHolds(s, w, e + 1)
      <4>1. i # e
        BY <2>1, <3>2
      <4>2. ~(i \in n..e - 1)
        <5>1. i \in n..e - 1 => e \in i + 1..Len(s) /\ z \in i + 1..Len(s) /\ e < z
          BY <1>1, <1>8
        <5> QED BY <2>1, <3>1, <3>2, <5>1
      <4>3. i \in e + 1..Len(s)
        BY <2>4, <4>1, <4>2
      <4> QED BY <3>2, <4>3 DEF LastNameHolds
    <3>3. LastNameHolds(s, w, e + 1) => LastNameHolds(s, w, n)
      BY <2>5 DEF LastNameHolds
    <3>4. LastNameHolds(s, w, n) => LastNameHolds(s, w, e + 1)
      BY <3>2 DEF LastNameHolds
    <3> QED BY <1>3, <1>8, <2>2, <2>3, <2>7, <3>3, <3>4
  <2> QED BY <2>6, <2>7
<1> QED BY <1>1, <1>5, <1>6, <1>7, <1>8

\* A file without names is nothing but slashes; otherwise isFilePy looks for ".py" where
\* Script says.
LEMMA NamesIs ==
  ASSUME NEW s \in Seq(Word)
  PROVE  /\ Names(s) = <<>> <=> \A k \in 1..Len(s) : s[k] = "/"
         /\ Names(s) # <<>> => (IsFilePy(s) <=> Script(s))
<1> DEFINE z  == Len(s)
           S  == 1..z + 1
           w  == ".py"
           E(n) == Find(s, <<"/">>, n)
           m  == [n \in S |-> z + 1 - n]
           nx == [n \in S |-> E(n) + 1]
           U  == {n \in S : NamesAt(s, w, n)}
<1>1. z \in Nat /\ 1 \in S /\ \A n \in S : n \in Nat /\ n >= 1 /\ E(n) \in n..z + 1 /\ E(n) \in Nat
  BY FindIs
<1> HIDE DEF E
<1>2. Measured(S, z, m)
  BY <1>1 DEF Measured
<1>3. \A n \in S : E(n) <= z => nx[n] = E(n) + 1 /\ nx[n] \in S /\ m[nx[n]] < m[n]
  <2> SUFFICES ASSUME NEW n \in S, E(n) <= z
               PROVE  nx[n] = E(n) + 1 /\ nx[n] \in S /\ m[nx[n]] < m[n]
    OBVIOUS
  <2>1. nx[n] = E(n) + 1
    OBVIOUS
  <2>2. E(n) + 1 \in S /\ n <= E(n)
    BY <1>1
  <2>3. m[E(n) + 1] = z + 1 - (E(n) + 1) /\ m[n] = z + 1 - n
    BY <2>2
  <2> QED BY <1>1, <2>1, <2>2, <2>3
<1>4. Inherits(S, U, m, nx)
  <2> SUFFICES ASSUME NEW n \in S, nx[n] \in S /\ m[nx[n]] < m[n] => nx[n] \in U
               PROVE  NamesAt(s, w, n)
    BY DEF Inherits
  <2>1. E(n) <= z => NamesAt(s, w, E(n) + 1)
    BY <1>3
  <2> DEFINE e == E(n)
  <2>2. n \in 1..Len(s) + 1 /\ e = Find(s, <<"/">>, n) /\ (e <= Len(s) => NamesAt(s, w, e + 1))
    BY <2>1 DEF E
  <2>3. w # "/"
    OBVIOUS
  <2> HIDE DEF e, w, S
  <2> QED BY <2>2, <2>3, NamesStep
<1>5. S \subseteq U
  <2> HIDE DEF U, m, nx, S, z
  <2> QED BY <1>2, <1>4, AlongCalls
<1>6. NamesAt(s, w, 1)
  BY <1>1, <1>5
<1>7. Names(s) = Tokens(s, <<"/">>)[1]
  BY DEF Names, GetToken
<1>8. LastNameHolds(s, w, 1) <=> Script(s)
  <2>1. DOMAIN s = 1..Len(s)
    OBVIOUS
  <2> QED BY <2>1 DEF LastNameHolds, Script
<1> QED BY <1>6, <1>7, <1>8 DEF NamesAt, IsFilePy

-----------------------------------------------------------------------------
(* The first of the words w. *)

\* e is the first w from n on.
FirstOf(s, w, n, e) ==
  /\ n \in 1..Len(s) + 1 /\ e \in n..Len(s) + 1
  /\ e <= Len(s) => s[e] = w
  /\ \A i \in n..e - 1 : s[i] # w

LEMMA FirstFound ==
  ASSUME NEW T, NEW s \in Seq(T), NEW w, NEW n, NEW e, FirstOf(s, w, n, e)
  PROVE  e = Find(s, <<w>>, n)
<1>1. n \in 1..Len(s) + 1 /\ e \in n..Len(s) + 1 /\ Len(s) \in Nat
  BY DEF FirstOf
<1> DEFINE f == Find(s, <<w>>, n)
<1>2. /\ f \in n..Len(s) + 1 /\ (f <= Len(s) => s[f] = w)
      /\ \A i \in n..f - 1 : s[i] # w
  BY <1>1, FindWord
<1> HIDE DEF f
<1>3. ~(f < e)
  <2>1. f < e => f \in n..e - 1 /\ f <= Len(s)
    BY <1>1, <1>2
  <2> QED BY <1>2, <2>1 DEF FirstOf
<1>4. ~(e < f)
  <2>1. e < f => e \in n..f - 1 /\ e <= Len(s)
    BY <1>1, <1>2
  <2> QED BY <1>2, <2>1 DEF FirstOf
<1>5. e = f
  BY <1>1, <1>2, <1>3, <1>4
<1> QED BY <1>5 DEF f

LEMMA FirstTokens ==
  ASSUME NEW T, NEW s \in Seq(T), NEW w, NEW n, NEW e, FirstOf(s, w, n, e)
  PROVE  TokensAt(T, s, <<w>>, n, e)
<1>1. n \in 1..Len(s) + 1
  BY DEF FirstOf
<1> QED BY <1>1, FirstFound, TokenStep

LEMMA SomeFirst ==
  ASSUME NEW T, NEW s \in Seq(T), NEW w, NEW n \in 1..Len(s) + 1
  PROVE  \E e \in n..Len(s) + 1 : FirstOf(s, w, n, e)
<1> DEFINE f == Find(s, <<w>>, n)
<1>1. /\ f \in n..Len(s) + 1 /\ (f <= Len(s) => s[f] = w)
      /\ \A i \in n..f - 1 : s[i] # w
  BY FindWord
<1> HIDE DEF f
<1> QED BY <1>1 DEF FirstOf

-----------------------------------------------------------------------------
(* The names of a file that is put together of two parts. *)

\* Induction from the end of s to its beginning, from one w to the one before.
LEMMA AlongFinds ==
  ASSUME NEW s \in Seq(Word), NEW w, NEW U,
         \A n \in 1..Len(s) + 1 : \A e \in n..Len(s) + 1 :
           FirstOf(s, w, n, e) /\ (e <= Len(s) => e + 1 \in U) => n \in U
  PROVE  1..Len(s) + 1 \subseteq U
<1> DEFINE z  == Len(s)
           S  == 1..z + 1
           E(n) == Find(s, <<w>>, n)
           m  == [n \in S |-> z + 1 - n]
           nx == [n \in S |-> E(n) + 1]
<1>1. z \in Nat /\ \A n \in S : n \in Nat /\ n >= 1 /\ E(n) \in n..z + 1 /\ E(n) \in Nat
  BY FindIs
<1>2. \A n \in S : FirstOf(s, w, n, E(n))
  BY FindWord DEF FirstOf
<1> HIDE DEF E
<1>3. Measured(S, z, m)
  BY <1>1 DEF Measured
<1>4. \A n \in S : E(n) <= z => nx[n] = E(n) + 1 /\ nx[n] \in S /\ m[nx[n]] < m[n]
  <2> SUFFICES ASSUME NEW n \in S, E(n) <= z
               PROVE  nx[n] = E(n) + 1 /\ nx[n] \in S /\ m[nx[n]] < m[n]
    OBVIOUS
  <2>1. nx[n] = E(n) + 1
    OBVIOUS
  <2>2. E(n) + 1 \in S /\ n <= E(n)
    BY <1>1
  <2>3. m[E(n) + 1] = z + 1 - (E(n) + 1) /\ m[n] = z + 1 - n
    BY <2>2
  <2> QED BY <1>1, <2>1, <2>2, <2>3
<1>5. Inherits(S, U, m, nx)
  <2> SUFFICES ASSUME NEW n \in S, nx[n] \in S /\ m[nx[n]] < m[n] => nx[n] \in U
               PROVE  n \in U
    BY DEF Inherits
  <2>1. E(n) <= z => E(n) + 1 \in U
    BY <1>4
  <2>2. E(n) \in n..Len(s) + 1 /\ FirstOf(s, w, n, E(n))
    BY <1>1, <1>2
  <2> QED BY <2>1, <2>2
<1>6. S \subseteq U
  <2> HIDE DEF m, nx, S, z
  <2> QED BY <1>3, <1>5, AlongCalls
<1> QED BY <1>6

\* The names that begin in the second part.
LEMMA NamesBehind ==
  ASSUME NEW s \in Seq(Word), NEW t \in Seq(Word)
  PROVE  \A n \in 1..Len(t) + 1 : Tokens(s \o t, <<"/">>)[Len(s) + n] = Tokens(t, <<"/">>)[n]
<1> DEFINE a == Len(s)
           b == Len(t)
           f == s \o t
           X == Tokens(f, <<"/">>)
           Y == Tokens(t, <<"/">>)
           U == {n \in 1..b + 1 : X[a + n] = Y[n]}
<1>1. /\ a \in Nat /\ b \in Nat /\ f \in Seq(Word) /\ Len(f) = a + b
      /\ \A i \in 1..b : f[a + i] = t[i]
  BY Joined
<1>2. ASSUME NEW n \in 1..b + 1, NEW e \in n..b + 1, FirstOf(t, "/", n, e), e <= b => e + 1 \in U
      PROVE  n \in U
  <2> HIDE DEF f
  <2>1. FirstOf(f, "/", a + n, a + e)
    <3>1. a + n \in 1..Len(f) + 1 /\ a + e \in a + n..Len(f) + 1
      BY <1>1, <1>2
    <3>2. a + e <= Len(f) => f[a + e] = "/"
      BY <1>1, <1>2 DEF FirstOf
    <3>3. \A i \in a + n..a + e - 1 : f[i] # "/"
      <4> TAKE i \in a + n..a + e - 1
      <4> DEFINE j == i - a
      <4>1. j \in n..e - 1 /\ j \in 1..b /\ a + j = i
        BY <1>1, <1>2
      <4> HIDE DEF j
      <4>2. t[j] # "/" /\ f[a + j] = t[j]
        BY <1>1, <1>2, <4>1 DEF FirstOf
      <4> QED BY <4>1, <4>2
    <3> QED BY <3>1, <3>2, <3>3 DEF FirstOf
  <2>2. TokensAt(Word, t, <<"/">>, n, e)
    BY <1>2, FirstTokens
  <2>3. TokensAt(Word, f, <<"/">>, a + n, a + e)
    BY <1>1, <2>1, FirstTokens
  <2> DEFINE p == SubSeq(t, n, e - 1)
             r == SubSeq(f, a + n, a + e - 1)
  <2>4. ASSUME e # n
        PROVE  p = r
    <3>1. p \in Seq(Word) /\ Len(p) = e - n /\ \A i \in 1..e - n : p[i] = t[n - 1 + i]
      BY <2>2, <2>4 DEF TokensAt
    <3>2. r \in Seq(Word) /\ Len(r) = (a + e) - (a + n)
          /\ \A i \in 1..(a + e) - (a + n) : r[i] = f[a + n - 1 + i]
      <4>1. a + e # a + n
        BY <1>1, <1>2, <2>4
      <4> QED BY <2>3, <4>1 DEF TokensAt
    <3> HIDE DEF p, r
    <3>3. (a + e) - (a + n) = e - n
      BY <1>1, <1>2
    <3>4. \A i \in 1..e - n : r[i] = p[i]
      <4> TAKE i \in 1..e - n
      <4> DEFINE j == n - 1 + i
      <4>1. j \in 1..b /\ a + j = a + n - 1 + i
        BY <1>1, <1>2
      <4>2. p[i] = t[j] /\ r[i] = f[a + j]
        BY <3>1, <3>2, <3>3, <4>1
      <4> HIDE DEF j
      <4> QED BY <1>1, <4>1, <4>2
    <3> QED BY <3>1, <3>2, <3>3, <3>4, SeqEqual
  <2> HIDE DEF p, r
  <2>5. /\ a + e > Len(f) <=> e > b
        /\ a + e <= Len(f) <=> e <= b
        /\ a + e = a + n <=> e = n
        /\ (a + e) + 1 = a + (e + 1)
    <3>1. n \in Nat /\ e \in Nat /\ a \in Nat /\ b \in Nat /\ Len(f) = a + b
      BY <1>1, <1>2
    <3> HIDE DEF a, b
    <3> QED BY ONLY <3>1
  <2>6. /\ e > b /\ e = n => Y[n] = <<>>
        /\ e > b /\ e # n => Y[n] = <<p>>
        /\ e <= b /\ e = n => Y[n] = Y[e + 1]
        /\ e <= b /\ e # n => Y[n] = <<p>> \o Y[e + 1]
    BY <2>2 DEF TokensAt, p
  <2>7. /\ e > b /\ e = n => X[a + n] = <<>>
        /\ e > b /\ e # n => X[a + n] = <<r>>
        /\ e <= b /\ e = n => X[a + n] = X[(a + e) + 1]
        /\ e <= b /\ e # n => X[a + n] = <<r>> \o X[(a + e) + 1]
    <3> DEFINE h == a + n
               g == a + e
    <3>1. TokensAt(Word, f, <<"/">>, h, g)
      BY <2>3
    <3> HIDE DEF h, g
    <3>2. /\ g > Len(f) /\ g = h => X[h] = <<>>
          /\ g > Len(f) /\ g # h => X[h] = <<SubSeq(f, h, g - 1)>>
          /\ g <= Len(f) /\ g = h => X[h] = X[g + 1]
          /\ g <= Len(f) /\ g # h => X[h] = <<SubSeq(f, h, g - 1)>> \o X[g + 1]
      BY <3>1 DEF TokensAt
    <3> HIDE DEF X
    <3>3. g > Len(f) <=> e > b
      BY <2>5 DEF g
    <3>4. g <= Len(f) <=> e <= b
      BY <2>5 DEF g
    <3>5. g = h <=> e = n
      BY <2>5 DEF g, h
    <3>6. /\ e > b /\ e = n => X[h] = <<>>
          /\ e > b /\ e # n => X[h] = <<SubSeq(f, h, g - 1)>>
          /\ e <= b /\ e = n => X[h] = X[g + 1]
          /\ e <= b /\ e # n => X[h] = <<SubSeq(f, h, g - 1)>> \o X[g + 1]
      BY ONLY <3>2, <3>3, <3>4, <3>5, Zenon
    <3>7. r = SubSeq(f, h, g - 1)
      BY DEF g, h, r
    <3> HIDE DEF r
    <3>8. /\ e > b /\ e = n => X[h] = <<>>
          /\ e > b /\ e # n => X[h] = <<r>>
          /\ e <= b /\ e = n => X[h] = X[g + 1]
          /\ e <= b /\ e # n => X[h] = <<r>> \o X[g + 1]
      BY ONLY <3>6, <3>7, Zenon
    <3> QED BY ONLY <3>8, Zenon DEF g, h
  <2>8. e <= b => X[a + (e + 1)] = Y[e + 1]
    BY <1>2
  <2> HIDE DEF X, Y
  <2>9. X[a + n] = Y[n]
    <3>1. e <= b => X[(a + e) + 1] = Y[e + 1]
      BY <2>5, <2>8
    <3>2. e <= b \/ e > b
      BY <1>1, <1>2
    <3> QED BY <2>4, <2>6, <2>7, <3>1, <3>2, Zenon
  <2> QED BY <2>9
<1>3. 1..Len(t) + 1 \subseteq U
  <2> HIDE DEF U
  <2> QED BY <1>2, AlongFinds
<1> QED BY <1>3

LEMMA NamesOfNothing ==
  ASSUME NEW s \in Seq(Word), s = <<>>
  PROVE  Names(s) = <<>>
<1>1. \A k \in 1..Len(s) : s[k] = "/"
  OBVIOUS
<1> QED BY <1>1, NamesIs

\* If the second part is empty or begins with "/", the names are those of the first part
\* and those of the second.
LEMMA NamesJoined ==
  ASSUME NEW s \in Seq(Word), NEW t \in Seq(Word), t = <<>> \/ t[1] = "/"
  PROVE  Names(s \o t) = Names(s) \o Names(t)
<1> DEFINE a == Len(s)
           b == Len(t)
           f == s \o t
           X == Tokens(f, <<"/">>)
           Y == Tokens(s, <<"/">>)
           N == Tokens(t, <<"/">>)[1]
           U == {n \in 1..a + 1 : X[n] = Y[n] \o N}
<1>1. /\ a \in Nat /\ b \in Nat /\ f \in Seq(Word) /\ Len(f) = a + b
      /\ \A i \in 1..a : f[i] = s[i]
      /\ \A i \in 1..b : f[a + i] = t[i]
  BY Joined
<1>2. N \in Pieces(Word) /\ X[a + 1] = N
  <2>1. Tokens(t, <<"/">>) \in [1..Len(t) + 1 -> Pieces(Word)] /\ 1 \in 1..Len(t) + 1
    BY <1>1, TokensAre
  <2>2. X[a + 1] = N
    BY <2>1, NamesBehind
  <2> QED BY <2>1, <2>2
<1>3. t # <<>> => b >= 1 /\ f[a + 1] = "/"
  <2> SUFFICES ASSUME t # <<>>
               PROVE  b >= 1 /\ f[a + 1] = "/"
    OBVIOUS
  <2>1. b >= 1
    BY <1>1, EmptySeq
  <2> QED BY <1>1, <2>1
<1>4. t = <<>> => b = 0
  OBVIOUS
<1> HIDE DEF N
<1>5. ASSUME NEW n \in 1..a + 1, NEW e \in n..a + 1, FirstOf(s, "/", n, e), e <= a => e + 1 \in U
      PROVE  n \in U
  <2> HIDE DEF f
  <2>1. FirstOf(f, "/", n, e)
    <3>1. n \in 1..Len(f) + 1 /\ e \in n..Len(f) + 1
      BY <1>1, <1>5
    <3>2. e <= Len(f) => f[e] = "/"
      <4>1. CASE e <= a
        BY <1>1, <1>5, <4>1 DEF FirstOf
      <4>2. CASE e = a + 1
        BY <1>1, <1>3, <1>4, <4>2
      <4>3. n \in Nat /\ e \in Nat /\ a \in Nat /\ e <= a + 1
        BY <1>1, <1>5
      <4>4. e <= a \/ e = a + 1
        <5> HIDE DEF a
        <5> QED BY ONLY <4>3
      <4> HIDE DEF a
      <4> QED BY ONLY <4>1, <4>2, <4>4, Zenon
    <3>3. \A i \in n..e - 1 : i \in 1..a
      BY <1>1, <1>5
    <3> QED BY <1>1, <1>5, <3>1, <3>2, <3>3 DEF FirstOf
  <2>2. TokensAt(Word, s, <<"/">>, n, e)
    BY <1>5, FirstTokens
  <2>3. TokensAt(Word, f, <<"/">>, n, e)
    BY <1>1, <2>1, FirstTokens
  <2> DEFINE p == SubSeq(s, n, e - 1)
             r == SubSeq(f, n, e - 1)
  <2>4. ASSUME e # n
        PROVE  p = r /\ p \in Seq(Word) \ {<<>>}
    <3>1. p \in Seq(Word) /\ Len(p) = e - n /\ \A i \in 1..e - n : p[i] = s[n - 1 + i]
      BY <2>2, <2>4 DEF TokensAt
    <3>2. r \in Seq(Word) /\ Len(r) = e - n /\ \A i \in 1..e - n : r[i] = f[n - 1 + i]
      BY <2>3, <2>4 DEF TokensAt
    <3> HIDE DEF p, r
    <3>3. \A i \in 1..e - n : r[i] = p[i]
      <4> TAKE i \in 1..e - n
      <4>1. n - 1 + i \in 1..a
        BY <1>1, <1>5
      <4> QED BY <1>1, <3>1, <3>2, <4>1
    <3>4. p # <<>>
      <4>1. Len(p) # 0
        BY <1>1, <1>5, <2>4, <3>1
      <4> QED BY <4>1
    <3> QED BY <3>1, <3>2, <3>3, <3>4, SeqEqual
  <2> HIDE DEF p, r
  <2>5. /\ e > a /\ e = n => Y[n] = <<>>
        /\ e > a /\ e # n => Y[n] = <<p>>
        /\ e <= a => Y[e + 1] \in Pieces(Word)
        /\ e <= a /\ e = n => Y[n] = Y[e + 1]
        /\ e <= a /\ e # n => Y[n] = <<p>> \o Y[e + 1]
    BY <2>2 DEF TokensAt, p
  <2>6. /\ e > Len(f) /\ e = n => X[n] = <<>>
        /\ e > Len(f) /\ e # n => X[n] = <<r>>
        /\ e <= Len(f) /\ e = n => X[n] = X[e + 1]
        /\ e <= Len(f) /\ e # n => X[n] = <<r>> \o X[e + 1]
    BY <2>3 DEF TokensAt, r
  <2>7. e <= a => X[e + 1] = Y[e + 1] \o N
    BY <1>5
  \* What begins at the end of the first part is what the second part has.
  <2>8. CASE e > a
    <3>1. e = a + 1
      BY <1>1, <1>5, <2>8
    <3>2. <<>> \o N = N /\ (t = <<>> => N = <<>>)
      <4>1. <<>> \o N = N
        BY <1>2 DEF Pieces
      <4>2. t = <<>> => N = <<>>
        <5>1. t = <<>> => Names(t) = <<>>
          BY NamesOfNothing
        <5>2. Names(t) = N
          BY DEF N, Names, GetToken
        <5> QED BY <5>1, <5>2
      <4> QED BY <4>1, <4>2
    <3>3. CASE e = n
      <4>1. Y[n] = <<>> /\ X[n] = N
        BY <1>2, <2>5, <2>8, <3>1, <3>3
      <4> QED BY <3>2, <4>1
    <3>4. CASE e # n
      <4>1. Y[n] = <<p>> /\ p = r
        BY <2>4, <2>5, <2>8, <3>4
      <4>2. CASE t = <<>>
        <5>1. X[n] = <<p>> /\ N = <<>>
          BY <1>1, <1>4, <2>6, <3>1, <3>2, <3>4, <4>1, <4>2
        <5>2. <<p>> \o <<>> = <<p>>
          BY <2>4, <3>4
        <5> QED BY <4>1, <5>1, <5>2
      <4>3. CASE t # <<>>
        <5>1. e <= Len(f)
          BY <1>1, <1>3, <3>1, <4>3
        <5>2. X[n] = <<p>> \o X[e + 1]
          BY <2>6, <3>4, <4>1, <5>1
        <5>3. FirstOf(f, "/", e, e)
          <6>1. e \in 1..Len(f) + 1 /\ e \in e..Len(f) + 1 /\ \A i \in e..e - 1 : FALSE
            BY <1>1, <3>1, <5>1
          <6> QED BY <1>3, <3>1, <4>3, <6>1 DEF FirstOf
        <5>4. TokensAt(Word, f, <<"/">>, e, e)
          BY <1>1, <5>3, FirstTokens
        <5>5. X[e] = X[e + 1]
          BY <5>1, <5>4 DEF TokensAt
        <5>6. X[e + 1] = N
          BY <1>2, <3>1, <5>5
        <5> QED BY <4>1, <5>2, <5>6
      <4> QED BY <4>2, <4>3
    <3> QED BY <3>3, <3>4
  <2>9. CASE e <= a
    <3>1. e <= Len(f)
      BY <1>1, <2>9
    <3>2. CASE e = n
      BY <2>5, <2>6, <2>7, <2>9, <3>1, <3>2
    <3>3. CASE e # n
      <4> DEFINE y == Y[e + 1]
      <4>1. Y[n] = <<p>> \o y /\ X[n] = <<p>> \o (y \o N) /\ y \in Pieces(Word)
        BY <2>4, <2>5, <2>6, <2>7, <2>9, <3>1, <3>3
      <4>2. <<p>> \in Pieces(Word)
        BY <2>4, <3>3 DEF Pieces
      <4> HIDE DEF y
      <4>3. <<p>> \o (y \o N) = (<<p>> \o y) \o N
        <5> DEFINE x == <<p>>
                   P == Seq(Word) \ {<<>>}
        <5>1. x \in Seq(P)
          BY <4>2 DEF Pieces
        <5>2. y \in Seq(P)
          BY <4>1 DEF Pieces
        <5>3. N \in Seq(P)
          BY <1>2 DEF Pieces
        <5> HIDE DEF x, P, X, Y, U
        <5>4. (x \o y) \o N = x \o (y \o N)
          BY ONLY <5>1, <5>2, <5>3, Associative, SMTT(60)
        <5> QED BY <5>4 DEF x
      <4> QED BY <4>1, <4>3
    <3> QED BY <3>2, <3>3
  <2> QED BY <1>1, <1>5, <2>8, <2>9
<1>6. 1..Len(s) + 1 \subseteq U
  <2> HIDE DEF U
  <2> QED BY <1>5, AlongFinds
<1>7. X[1] = Y[1] \o N
  <2>1. 1 \in 1..a + 1
    BY <1>1
  <2> QED BY <1>6, <2>1
<1> QED BY <1>7 DEF Names, GetToken, N

\* A "/" at the end adds no name.
LEMMA NamesWithoutSlash ==
  ASSUME NEW s \in Seq(Word)
  PROVE  Names(WithoutSlash(s)) = Names(s)
<1> DEFINE w == WithoutSlash(s)
<1>1. /\ w \in Seq(Word)
      /\ \/ w = s
         \/ /\ Len(s) > 0 /\ s[Len(s)] = "/" /\ Len(w) = Len(s) - 1
            /\ \A i \in 1..Len(s) - 1 : w[i] = s[i]
  BY WithoutSlashIs
<1> HIDE DEF w
<1>2. CASE w # s
  <2> DEFINE t == <<"/">>
  <2>1. t \in Seq(Word) /\ Len(t) = 1 /\ t[1] = "/"
    BY WordsKnown
  <2>2. w \o t = s
    <3> DEFINE x == w \o t
    <3>1. /\ x \in Seq(Word) /\ Len(x) = Len(w) + Len(t) /\ Len(w) \in Nat
          /\ \A i \in 1..Len(w) : x[i] = w[i]
          /\ \A i \in 1..Len(t) : x[Len(w) + i] = t[i]
      BY <1>1, <2>1, Joined
    <3> HIDE DEF x, t
    <3>2. Len(x) = Len(s) /\ x[Len(s)] = s[Len(s)]
      <4>1. Len(s) \in Nat /\ Len(s) = Len(w) + 1 /\ 1 \in 1..Len(t)
        BY <1>1, <1>2, <2>1
      <4>2. x[Len(w) + 1] = "/"
        BY <2>1, <3>1, <4>1
      <4> QED BY <1>1, <1>2, <2>1, <3>1, <4>1, <4>2
    <3>3. \A i \in 1..Len(s) : x[i] = s[i]
      <4> TAKE i \in 1..Len(s)
      <4>1. i = Len(s) \/ (i \in 1..Len(s) - 1 /\ i \in 1..Len(w))
        BY <1>1, <1>2, <3>1
      <4> QED BY <1>1, <1>2, <3>1, <3>2, <4>1
    <3>4. x = s
      BY <3>1, <3>2, <3>3, SeqEqual
    <3> QED BY <3>4 DEF x
  <2>3. Names(w \o t) = Names(w) \o Names(t)
    <3> HIDE DEF t
    <3> QED BY <1>1, <2>1, NamesJoined
  <2>4. Names(t) = <<>>
    <3>1. \A k \in 1..Len(t) : t[k] = "/"
      BY <2>1
    <3> HIDE DEF t
    <3> QED BY <2>1, <3>1, NamesIs
  <2>5. Names(w) \in Pieces(Word)
    <3>1. Tokens(w, <<"/">>) \in [1..Len(w) + 1 -> Pieces(Word)] /\ 1 \in 1..Len(w) + 1
      BY <1>1, TokensAre
    <3> QED BY <3>1 DEF Names, GetToken
  <2>6. Names(w) \o <<>> = Names(w)
    <3> DEFINE x == Names(w)
    <3>1. x \in Seq(Seq(Word) \ {<<>>})
      BY <2>5 DEF Pieces
    <3> HIDE DEF x
    <3>2. x \o <<>> = x
      BY <3>1
    <3> QED BY <3>2 DEF x
  <2> QED BY <2>2, <2>3, <2>4, <2>6 DEF w
<1> QED BY <1>2 DEF w

\* For every configuration and every talk: the names of a file that is sent are those of
\* the root and of what the target has behind the location's path, if this path ends
\* where a name of the target ends.
THEOREM FilesAsAsked == Spec => []FileAsAsked
<1>1. Keeps => FileAsAsked
  <2> SUFFICES ASSUME Keeps, NEW k \in DOMAIN answers, answers[k].code \in {200, 404}
               PROVE  LET a     == answers[k]
                          root  == RootOf(a)
                          whole == root = <<>> \/ a.location.path = <<"/">>
                          rest  == IF whole THEN a.path
                                   ELSE SubSeq(a.path, Len(a.location.path) + 1, Len(a.path))
                      IN  whole \/ (Len(a.location.path) # 1 /\ (rest = <<>> \/ Head(rest) = "/"))
                          => Names(a.file) = Names(root) \o Names(rest)
    BY DEF FileAsAsked
  <2> DEFINE a     == answers[k]
             l     == a.location
             path  == a.path
             root  == RootOf(a)
             n     == Len(l.path)
             whole == root = <<>> \/ l.path = <<"/">>
             tail  == SubSeq(path, n + 1, Len(path))
             rest  == IF whole THEN path ELSE tail
  <2> SUFFICES ASSUME whole \/ (n # 1 /\ (rest = <<>> \/ Head(rest) = "/"))
               PROVE  Names(a.file) = Names(root) \o Names(rest)
    OBVIOUS
  <2>1. a \in AnswerObject /\ Located(a)
    BY DEF Keeps, Sound, Answered
  <2>2. path \in Seq(Word) /\ l \in Locations
    BY <2>1 DEF AnswerObject
  <2>3. root \in Seq(Word)
    <3>1. a.server \in DOMAIN Servers[port] /\ port \in DOMAIN Servers
      BY <2>1 DEF Located, Keeps, Surroundings
    <3>2. Servers[port][a.server].root \in Seq(Word)
      BY <3>1, ServerParts
    <3> QED BY <2>2, <3>2, LocationParts DEF RootOf
  <2>4. a.file = Convert(path, l, root) /\ n > 0 /\ IsPrefix(l.path, path)
    BY <2>1 DEF Located
  <2> HIDE DEF a, root, path, l
  <2>5. n \in Nat /\ Len(path) \in Nat /\ n <= Len(path) /\ \A i \in 1..n : path[i] = l.path[i]
    BY <2>2, <2>4, LocationParts, SameStart
  <2>6. tail \in Seq(Word)
    <3> DEFINE j == Len(path) - n
    <3>1. j \in Nat /\ n + j = Len(path) /\ n + j <= Len(path)
      BY <2>5
    <3> HIDE DEF j, n
    <3>2. SubSeq(path, n + 1, n + j) \in Seq(Word)
      BY <2>2, <2>5, <3>1, Part
    <3> QED BY <3>1, <3>2
  <2>7. rest \in Seq(Word)
    BY <2>2, <2>6
  <2>8. a.file = WithoutSlash(root \o rest)
    <3>1. l.path = <<"/">> => n = 1
      OBVIOUS
    <3>2. (IF root # <<>> /\ n # 1 THEN tail ELSE path) = rest
      BY <3>1
    <3> QED BY <2>4, <3>2, ZenonT(30) DEF Convert, WithoutSlash
  <2>9. root = <<>> \/ rest = <<>> \/ rest[1] = "/"
    <3>1. CASE l.path = <<"/">>
      <4>1. n = 1 /\ l.path[1] = "/" /\ 1 \in 1..n
        BY <3>1
      <4>2. path[1] = "/"
        BY <2>5, <4>1
      <4> QED BY <3>1, <4>2
    <3>2. CASE ~whole
      <4>1. rest = <<>> \/ Head(rest) = "/"
        BY <3>2
      <4> HIDE DEF rest, whole
      <4>2. rest # <<>> => Head(rest) = rest[1]
        BY <2>7
      <4> QED BY <4>1, <4>2
    <3> QED BY <3>1, <3>2
  <2> HIDE DEF rest, whole, tail, n
  <2>10. Names(root \o rest) = Names(root) \o Names(rest)
    <3>1. CASE rest = <<>> \/ rest[1] = "/"
      BY <2>3, <2>7, <3>1, NamesJoined
    <3>2. CASE root = <<>>
      <4>1. root \o rest = rest
        BY <2>7, <3>2
      <4>2. Names(root) = <<>>
        BY <2>3, <3>2, NamesOfNothing
      <4>3. Names(rest) \in Pieces(Word)
        <5>1. Tokens(rest, <<"/">>) \in [1..Len(rest) + 1 -> Pieces(Word)] /\ 1 \in 1..Len(rest) + 1
          BY <2>7, TokensAre
        <5> QED BY <5>1 DEF Names, GetToken
      <4>4. <<>> \o Names(rest) = Names(rest)
        BY <4>3 DEF Pieces
      <4> QED BY <4>1, <4>2, <4>4
    <3> QED BY <2>9, <3>1, <3>2
  <2>11. root \o rest \in Seq(Word)
    BY <2>3, <2>7, Joined
  <2> DEFINE full == root \o rest
  <2>12. Names(WithoutSlash(full)) = Names(full)
    <3>1. full \in Seq(Word)
      BY <2>11
    <3> HIDE DEF full
    <3> QED BY <3>1, NamesWithoutSlash
  <2> HIDE DEF full
  <2>13. a.file = WithoutSlash(full) /\ Names(full) = Names(root) \o Names(rest)
    BY <2>8, <2>10 DEF full
  <2> QED BY <2>12, <2>13
<1> QED BY <1>1, KeepsInvariant, PTL

-----------------------------------------------------------------------------
(* The request line. *)

FirstLineParts(q) ==
  LET s == FirstLine(q)
      v == Len(q.verb)
      m == Len(q.target)
  IN  /\ s \in Seq(Word) /\ v \in Nat /\ v > 0 /\ m \in Nat /\ Len(s) = v + m + 3
      /\ \A i \in 1..v : s[i] = q.verb[i] /\ s[i] # Blank /\ s[i] # CRLF
      /\ s[v + 1] = Blank
      /\ \A i \in 1..m : s[v + 1 + i] = q.target[i]
      /\ s[v + m + 2] = Blank /\ s[v + m + 3] = q.version /\ s[v + m + 3] # Blank

LEMMA FirstLineIs ==
  ASSUME NEW q \in Requests
  PROVE  FirstLineParts(q)
<1> DEFINE v == Len(q.verb)
           m == Len(q.target)
           a == q.verb
           b == <<Blank>>
           c == q.target
           d == <<Blank, q.version>>
<1>1. /\ a \in Seq(Word) /\ a # <<>> /\ (\A i \in 1..v : a[i] # Blank /\ a[i] # CRLF)
      /\ c \in Seq(Word) /\ q.version \in Word /\ q.version # Blank
  BY RequestParts
<1>2. Blank \in Word
  BY WordsKnown
<1>3. v \in Nat /\ v > 0 /\ m \in Nat
  BY <1>1, EmptySeq
<1>4. b \in Seq(Word) /\ Len(b) = 1 /\ b[1] = Blank
      /\ d \in Seq(Word) /\ Len(d) = 2 /\ d[1] = Blank /\ d[2] = q.version
  BY <1>1, <1>2, Words
<1> DEFINE ab == a \o b
           abc == ab \o c
           s == abc \o d
<1>5. FirstLine(q) = s
  BY DEF FirstLine
<1> HIDE DEF a, b, c, d
<1>6. /\ ab \in Seq(Word) /\ Len(ab) = Len(a) + Len(b)
      /\ (\A i \in 1..Len(a) : ab[i] = a[i]) /\ \A i \in 1..Len(b) : ab[Len(a) + i] = b[i]
  <2>1. a \in Seq(Word) /\ b \in Seq(Word)
    BY <1>1, <1>4
  <2> QED BY ONLY <2>1, Joined
<1>7. ab \in Seq(Word) /\ Len(ab) = v + 1 /\ ab[v + 1] = Blank /\ \A i \in 1..v : ab[i] = a[i]
  <2>1. Len(a) = v /\ 1 \in 1..Len(b)
    BY <1>4 DEF a
  <2> QED BY <1>4, <1>6, <2>1
<1> HIDE DEF ab
<1>8. /\ abc \in Seq(Word) /\ Len(abc) = Len(ab) + Len(c)
      /\ (\A i \in 1..Len(ab) : abc[i] = ab[i]) /\ \A i \in 1..Len(c) : abc[Len(ab) + i] = c[i]
  <2>1. ab \in Seq(Word) /\ c \in Seq(Word)
    BY <1>1, <1>7
  <2> QED BY ONLY <2>1, Joined
<1>9. Len(c) = m
  BY DEF c
<1> HIDE DEF v, m
<1>10. /\ abc \in Seq(Word) /\ Len(abc) = v + m + 1 /\ abc[v + 1] = Blank
       /\ \A i \in 1..v : abc[i] = a[i]
       /\ \A i \in 1..m : abc[v + 1 + i] = c[i]
  <2>1. v + 1 \in 1..Len(ab) /\ \A i \in 1..v : i \in 1..Len(ab)
    BY <1>3, <1>7
  <2>2. Len(abc) = v + m + 1
    BY <1>3, <1>7, <1>8, <1>9
  <2> QED BY <1>7, <1>8, <1>9, <2>1, <2>2
<1> HIDE DEF abc
<1>11. /\ s \in Seq(Word) /\ Len(s) = Len(abc) + Len(d)
       /\ (\A i \in 1..Len(abc) : s[i] = abc[i]) /\ \A i \in 1..Len(d) : s[Len(abc) + i] = d[i]
  <2>1. abc \in Seq(Word) /\ d \in Seq(Word)
    BY <1>4, <1>10
  <2> QED BY ONLY <2>1, Joined
<1> HIDE DEF s
<1>12. /\ s \in Seq(Word) /\ Len(s) = v + m + 3
       /\ s[v + m + 2] = Blank /\ s[v + m + 3] = q.version
  <2>1. v + m + 1 + 1 = v + m + 2 /\ v + m + 1 + 2 = v + m + 3 /\ 1 \in 1..2 /\ 2 \in 1..2
    BY <1>3
  <2>2. s[v + m + 1 + 1] = d[1] /\ s[v + m + 1 + 2] = d[2]
    BY <1>4, <1>10, <1>11, <2>1
  <2> QED BY <1>3, <1>4, <1>10, <1>11, <2>1, <2>2
<1>13. s[v + 1] = Blank /\ (\A i \in 1..v : s[i] = a[i]) /\ \A i \in 1..m : s[v + 1 + i] = c[i]
  <2>1. v + 1 \in 1..v + m + 1 /\ (\A i \in 1..v : i \in 1..v + m + 1)
        /\ \A i \in 1..m : v + 1 + i \in 1..v + m + 1
    BY <1>3
  <2> QED BY <1>10, <1>11, <2>1
<1> QED BY <1>1, <1>3, <1>5, <1>12, <1>13 DEF FirstLineParts, v, m, a, c

\* The token that is taken where the next delimiter is not at once.
OneTaken(T, s, d, n, e) ==
  LET t == Tokens(s, d)
      p == SubSeq(s, n, e - 1)
  IN  /\ p \in Seq(T) /\ Len(p) = e - n /\ \A i \in 1..e - n : p[i] = s[n - 1 + i]
      /\ t[n] \in Pieces(T) /\ Len(t[n]) \in Nat /\ Len(t[n]) >= 1 /\ t[n][1] = p
      /\ e > Len(s) => Len(t[n]) = 1
      /\ e <= Len(s) => /\ t[e + 1] \in Pieces(T) /\ Len(t[e + 1]) \in Nat
                        /\ Len(t[n]) = Len(t[e + 1]) + 1
                        /\ \A i \in 1..Len(t[e + 1]) : t[n][i + 1] = t[e + 1][i]

LEMMA Taking ==
  ASSUME NEW T, NEW s \in Seq(T), NEW d, NEW n \in 1..Len(s) + 1, NEW e \in n..Len(s) + 1,
         e # n, TokensAt(T, s, d, n, e)
  PROVE  OneTaken(T, s, d, n, e)
<1> DEFINE t == Tokens(s, d)
           p == SubSeq(s, n, e - 1)
<1>1. t[n] \in Pieces(T) /\ p \in Seq(T) /\ Len(p) = e - n /\ \A i \in 1..e - n : p[i] = s[n - 1 + i]
  BY DEF TokensAt
<1>2. /\ e > Len(s) => t[n] = <<p>>
      /\ e <= Len(s) => t[n] = <<p>> \o t[e + 1] /\ t[e + 1] \in Pieces(T)
  BY DEF TokensAt
<1> HIDE DEF p, t
<1>3. p \in Seq(T) \ {<<>>}
  <2>1. Len(p) # 0
    BY <1>1
  <2>2. Len(<<>>) = 0
    OBVIOUS
  <2> QED BY <1>1, <2>1, <2>2
<1>4. e > Len(s) => Len(t[n]) = 1 /\ t[n][1] = p
  <2>1. Len(<<p>>) = 1 /\ <<p>>[1] = p
    OBVIOUS
  <2> QED BY ONLY <1>2, <2>1
<1>5. e <= Len(s) => /\ Len(t[e + 1]) \in Nat /\ Len(t[n]) = Len(t[e + 1]) + 1 /\ t[n][1] = p
                     /\ \A i \in 1..Len(t[e + 1]) : t[n][i + 1] = t[e + 1][i]
  <2> DEFINE u == t[e + 1]
  <2> HIDE DEF u
  <2>1. ASSUME u \in Pieces(T)
        PROVE  /\ Len(<<p>> \o u) = Len(u) + 1 /\ Len(u) \in Nat
               /\ (<<p>> \o u)[1] = p /\ \A i \in 1..Len(u) : (<<p>> \o u)[i + 1] = u[i]
    BY ONLY <1>3, <2>1, PieceJoined
  <2>2. e <= Len(s) => t[n] = <<p>> \o u /\ u \in Pieces(T)
    BY <1>2 DEF u
  <2>3. e <= Len(s) => /\ Len(u) \in Nat /\ Len(t[n]) = Len(u) + 1 /\ t[n][1] = p
                       /\ \A i \in 1..Len(u) : t[n][i + 1] = u[i]
    BY ONLY <2>1, <2>2
  <2> QED BY ONLY <2>3 DEF u
<1>6. Len(t[n]) \in Nat /\ Len(t[n]) >= 1 /\ t[n][1] = p
  <2>1. e <= Len(s) \/ e > Len(s)
    OBVIOUS
  <2> QED BY ONLY <1>4, <1>5, <2>1
<1>7. e <= Len(s) => /\ t[e + 1] \in Pieces(T) /\ Len(t[e + 1]) \in Nat
                     /\ Len(t[n]) = Len(t[e + 1]) + 1
                     /\ \A i \in 1..Len(t[e + 1]) : t[n][i + 1] = t[e + 1][i]
  BY ONLY <1>2, <1>5
<1>8. e > Len(s) => Len(t[n]) = 1
  BY ONLY <1>4
<1> QED BY ONLY <1>1, <1>6, <1>7, <1>8 DEF OneTaken, t, p

\* A target with a blank gives two blanks in a row, or more than three tokens.
LEMMA TargetWithBlank ==
  ASSUME NEW q \in Requests, q.target = <<>> \/ Holds(q.target, Blank)
  PROVE  MultipleSpaces(FirstLine(q)) \/ Len(GetToken(FirstLine(q), <<Blank>>)) # 3
<1> DEFINE s == FirstLine(q)
           v == Len(q.verb)
           m == Len(q.target)
           t(n) == Tokens(s, <<Blank>>)[n]
<1>1. /\ s \in Seq(Word) /\ v \in Nat /\ v > 0 /\ m \in Nat /\ Len(s) = v + m + 3
      /\ \A i \in 1..v : s[i] = q.verb[i] /\ s[i] # Blank
      /\ s[v + 1] = Blank
      /\ \A i \in 1..m : s[v + 1 + i] = q.target[i]
      /\ s[v + m + 2] = Blank /\ s[v + m + 3] = q.version /\ s[v + m + 3] # Blank
  BY FirstLineIs DEF FirstLineParts
<1>2. m = 0 \/ \E j \in 1..m : q.target[j] = Blank
  <2>1. q.target = <<>> => m = 0
    OBVIOUS
  <2>2. DOMAIN q.target = 1..m
    BY RequestParts
  <2> QED BY <2>1, <2>2 DEF Holds
<1> HIDE DEF s, v, m
<1> SUFFICES ASSUME ~MultipleSpaces(s)
             PROVE  Len(t(1)) # 3
  BY DEF s, GetToken
<1>3. \A i \in 1..v + m + 2 : ~(s[i] = Blank /\ s[i + 1] = Blank)
  BY <1>1 DEF MultipleSpaces
<1>4. PICK j \in 1..m : s[v + 1 + j] = Blank
  <2>1. m # 0
    <3>1. m = 0 => v + 1 \in 1..v + m + 2 /\ s[v + 1 + 1] = Blank
      BY <1>1
    <3> QED BY <1>1, <1>3, <3>1
  <2> QED BY <1>1, <1>2, <2>1
<1>5. FirstOf(s, Blank, 1, v + 1)
  BY <1>1 DEF FirstOf
\* The first word of the target, and the blank behind it.
<1>6. PICK e \in v + 2..Len(s) + 1 : FirstOf(s, Blank, v + 2, e)
  <2>1. v + 2 \in 1..Len(s) + 1
    BY <1>1
  <2> QED BY <1>1, <2>1, SomeFirst
<1>7. e # v + 2 /\ e <= v + m + 1 /\ s[e] = Blank /\ e \in Nat
  <2>1. e \in Nat /\ (e <= Len(s) => s[e] = Blank) /\ \A i \in v + 2..e - 1 : s[i] # Blank
    BY <1>1, <1>6 DEF FirstOf
  <2>2. ~(v + 1 + j < e)
    <3>1. v + 1 + j < e => v + 1 + j \in v + 2..e - 1
      BY <1>1, SMTT(30)
    <3> QED BY <1>1, <1>4, <2>1, <3>1
  <2>3. e <= v + m + 1 /\ e <= Len(s)
    BY <1>1, <2>1, <2>2
  <2>4. e # v + 2
    <3>1. v + 1 \in 1..v + m + 2 /\ v + 1 + 1 = v + 2
      BY <1>1
    <3> QED BY <1>1, <1>3, <2>1, <2>3, <3>1
  <2> QED BY <2>1, <2>3, <2>4
\* The piece behind it.
<1>8. PICK g \in e + 1..Len(s) + 1 : FirstOf(s, Blank, e + 1, g)
  <2>1. e + 1 \in 1..Len(s) + 1
    BY <1>1, <1>7
  <2> QED BY <1>1, <2>1, SomeFirst
<1>9. g # e + 1 /\ g <= v + m + 2 /\ s[g] = Blank /\ g \in Nat
  <2>1. g \in Nat /\ (g <= Len(s) => s[g] = Blank) /\ \A i \in e + 1..g - 1 : s[i] # Blank
    BY <1>1, <1>7, <1>8 DEF FirstOf
  <2>2. ~(v + m + 2 < g)
    <3>1. v + m + 2 < g => v + m + 2 \in e + 1..g - 1
      BY <1>1, <1>7, <2>1
    <3> QED BY <1>1, <2>1, <3>1
  <2>3. g <= v + m + 2 /\ g <= Len(s)
    BY <1>1, <2>1, <2>2
  <2>4. g # e + 1
    <3>1. e \in 1..v + m + 2
      BY <1>1, <1>7
    <3> QED BY <1>3, <1>7, <2>1, <2>3, <3>1
  <2> QED BY <2>1, <2>3, <2>4
\* And one more.
<1>10. PICK h \in g + 1..Len(s) + 1 : FirstOf(s, Blank, g + 1, h)
  <2>1. g + 1 \in 1..Len(s) + 1
    BY <1>1, <1>7, <1>9
  <2> QED BY <1>1, <2>1, SomeFirst
<1>11. h # g + 1
  <2>1. g + 1 <= Len(s) /\ g \in 1..v + m + 2
    BY <1>1, <1>7, <1>9
  <2>2. s[g + 1] # Blank
    BY <1>3, <1>9, <2>1
  <2> QED BY <2>1, <2>2, <1>10 DEF FirstOf
<1>12. /\ OneTaken(Word, s, <<Blank>>, 1, v + 1) /\ OneTaken(Word, s, <<Blank>>, v + 2, e)
       /\ OneTaken(Word, s, <<Blank>>, e + 1, g) /\ OneTaken(Word, s, <<Blank>>, g + 1, h)
  <2>1. OneTaken(Word, s, <<Blank>>, 1, v + 1)
    <3>1. 1 \in 1..Len(s) + 1 /\ v + 1 \in 1..Len(s) + 1 /\ v + 1 # 1
      BY <1>1, SMTT(30)
    <3> QED BY <1>1, <1>5, <3>1, FirstTokens, Taking
  <2>2. OneTaken(Word, s, <<Blank>>, v + 2, e)
    <3>1. v + 2 \in 1..Len(s) + 1
      BY <1>1, SMTT(30)
    <3> QED BY <1>1, <1>6, <1>7, <3>1, FirstTokens, Taking
  <2>3. OneTaken(Word, s, <<Blank>>, e + 1, g)
    <3>1. e + 1 \in 1..Len(s) + 1
      BY <1>1, <1>7
    <3> QED BY <1>1, <1>8, <1>9, <3>1, FirstTokens, Taking
  <2>4. OneTaken(Word, s, <<Blank>>, g + 1, h)
    <3>1. g + 1 \in 1..Len(s) + 1
      <4>1. g >= 0 /\ g <= Len(s) /\ g \in Nat /\ Len(s) \in Nat
        BY <1>1, <1>7, <1>9
      <4> QED BY ONLY <4>1
    <3> QED BY <1>1, <1>10, <1>11, <3>1, FirstTokens, Taking
  <2> QED BY <2>1, <2>2, <2>3, <2>4
<1> HIDE DEF t
<1>13. Len(t(g + 1)) \in Nat /\ Len(t(g + 1)) >= 1
  BY ONLY <1>12 DEF OneTaken, t
<1>14. Len(t(e + 1)) = Len(t(g + 1)) + 1
  <2>1. g <= Len(s)
    BY <1>1, <1>9
  <2> QED BY ONLY <1>12, <2>1 DEF OneTaken, t
<1>15. Len(t(v + 2)) = Len(t(e + 1)) + 1
  <2>1. e <= Len(s)
    BY <1>1, <1>7
  <2> QED BY ONLY <1>12, <2>1 DEF OneTaken, t
<1>16. Len(t(1)) = Len(t(v + 2)) + 1
  <2>1. v + 1 <= Len(s) /\ v + 1 + 1 = v + 2
    BY <1>1
  <2> QED BY ONLY <1>12, <2>1 DEF OneTaken, t
<1>17. \A k \in Nat : k >= 1 => k + 1 + 1 + 1 # 3
  OBVIOUS
<1> DEFINE k == Len(t(g + 1))
<1>18. k \in Nat /\ k >= 1 /\ Len(t(1)) = k + 1 + 1 + 1
  BY ONLY <1>13, <1>14, <1>15, <1>16
<1> HIDE DEF k
<1> QED BY ONLY <1>17, <1>18
\* The token x is taken at n, before e, and those from m on follow.
TokenOut(s, d, n, e, m, x) ==
  LET t == Tokens(s, d)
  IN  /\ t[n][1] = x /\ Len(t[n]) \in Nat /\ Len(t[n]) >= 1
      /\ e > Len(s) => Len(t[n]) = 1
      /\ e <= Len(s) => /\ Len(t[m]) \in Nat /\ Len(t[n]) = Len(t[m]) + 1
                        /\ \A i \in 1..Len(t[m]) : t[n][i + 1] = t[m][i]

LEMMA TokenIs ==
  ASSUME NEW T, NEW s \in Seq(T), NEW d, NEW n \in 1..Len(s) + 1, NEW e, e = Find(s, d, n), e # n,
         NEW m, m = e + 1,
         NEW x \in Seq(T), Len(x) = e - n, \A i \in 1..Len(x) : s[n - 1 + i] = x[i]
  PROVE  TokenOut(s, d, n, e, m, x)
<1> DEFINE t == Tokens(s, d)
           p == SubSeq(s, n, e - 1)
<1>1. TokensAt(T, s, d, n, e)
  BY TokenStep
<1>2. OneTaken(T, s, d, n, e)
  <2>1. e \in n..Len(s) + 1
    BY ONLY <1>1 DEF TokensAt
  <2> QED BY <1>1, <2>1, Taking
<1> HIDE DEF t, p
<1>3. p \in Seq(T) /\ Len(p) = e - n /\ (\A i \in 1..e - n : p[i] = s[n - 1 + i]) /\ t[n][1] = p
  BY ONLY <1>2 DEF OneTaken, t, p
<1>4. Len(t[n]) \in Nat /\ Len(t[n]) >= 1 /\ (e > Len(s) => Len(t[n]) = 1)
  BY ONLY <1>2 DEF OneTaken, t
<1>5. e <= Len(s) => /\ Len(t[m]) \in Nat /\ Len(t[n]) = Len(t[m]) + 1
                     /\ \A i \in 1..Len(t[m]) : t[n][i + 1] = t[m][i]
  BY ONLY <1>2, m = e + 1 DEF OneTaken, t
<1>6. p = x
  <2>1. Len(p) = Len(x) /\ \A i \in 1..Len(p) : p[i] = x[i]
    BY <1>3
  <2> QED BY <1>3, <2>1, SeqEqual
<1> QED BY ONLY <1>3, <1>4, <1>5, <1>6 DEF t, TokenOut

\* Otherwise they are its verb, its target and its version.
LEMMA TargetWithoutBlank ==
  ASSUME NEW q \in Requests, q.target # <<>>, ~Holds(q.target, Blank)
  PROVE  LET t == GetToken(FirstLine(q), <<Blank>>)
         IN  /\ ~MultipleSpaces(FirstLine(q)) /\ Len(t) = 3
             /\ t[1] = q.verb /\ t[2] = q.target /\ t[3] = <<q.version>>
<1> DEFINE s == FirstLine(q)
           v == Len(q.verb)
           m == Len(q.target)
           t == Tokens(s, <<Blank>>)
           x == v + m + 3
           e1 == v + 1
           n2 == v + 2
           e2 == v + m + 2
<1>1. /\ s \in Seq(Word) /\ v \in Nat /\ v > 0 /\ m \in Nat /\ Len(s) = x
      /\ \A i \in 1..v : s[i] = q.verb[i] /\ s[i] # Blank
      /\ s[e1] = Blank
      /\ \A i \in 1..m : s[e1 + i] = q.target[i]
      /\ s[e2] = Blank /\ s[x] = q.version /\ s[x] # Blank
  BY FirstLineIs DEF FirstLineParts
<1>2. /\ q.verb \in Seq(Word) /\ q.target \in Seq(Word) /\ q.version \in Word
      /\ Len(q.verb) = v /\ Len(q.target) = m
  BY RequestParts
<1>3. m > 0 /\ \A i \in 1..m : q.target[i] # Blank
  <2>1. DOMAIN q.target = 1..m /\ m # 0
    BY <1>1, <1>2, EmptySeq
  <2> QED BY <1>1, <2>1 DEF Holds
<1> HIDE DEF s, v, m
<1>4. /\ v \in Nat /\ v > 0 /\ m \in Nat /\ m > 0 /\ x \in Nat /\ e1 \in Nat /\ n2 \in Nat /\ e2 \in Nat
      /\ e1 = v + 1 /\ n2 = e1 + 1 /\ e2 = n2 + m /\ x = e2 + 1
  <2>1. v \in Nat /\ v > 0 /\ m \in Nat /\ m > 0
    BY <1>1, <1>3
  <2> QED BY ONLY <2>1
<1> HIDE DEF x, e1, n2, e2
<1>5. \A i \in 1..x : s[i] = Blank <=> i = e1 \/ i = e2
  <2> SUFFICES ASSUME NEW i \in 1..x
               PROVE  s[i] = Blank <=> i = e1 \/ i = e2
    OBVIOUS
  <2>1. \/ i \in 1..v \/ i = e1 \/ i = e2 \/ i = x
        \/ i - e1 \in 1..m /\ e1 + (i - e1) = i
    BY <1>4
  <2>2. (i \in 1..v => i # e1 /\ i # e2) /\ x # e1 /\ x # e2
    BY <1>4
  <2>3. i - e1 \in 1..m => i # e1 /\ i # e2
    BY <1>4
  <2>4. i - e1 \in 1..m /\ e1 + (i - e1) = i => s[i] # Blank
    BY <1>1, <1>3
  <2> QED BY <1>1, <2>1, <2>2, <2>3, <2>4
<1>6. ~MultipleSpaces(s)
  <2> SUFFICES ASSUME NEW i \in 1..x - 1, s[i] = Blank, s[i + 1] = Blank
               PROVE  FALSE
    BY <1>1 DEF MultipleSpaces
  <2>1. i \in 1..x /\ i + 1 \in 1..x
    BY <1>4
  <2>2. (i = e1 \/ i = e2) /\ (i + 1 = e1 \/ i + 1 = e2)
    BY <1>5, <2>1
  <2> QED BY <1>4, <2>2
<1>7. 1 \in 1..Len(s) + 1 /\ e1 = Find(s, <<Blank>>, 1) /\ e1 # 1 /\ e1 <= Len(s)
  <2>1. 1 \in 1..x + 1 /\ e1 \in 1..x + 1 /\ e1 # 1 /\ e1 <= x /\ \A i \in 1..e1 - 1 : i \in 1..v
    BY <1>4
  <2>2. FirstOf(s, Blank, 1, e1)
    BY <1>1, <2>1 DEF FirstOf
  <2> QED BY <1>1, <2>1, <2>2, FirstFound
<1>8. n2 \in 1..Len(s) + 1 /\ e2 = Find(s, <<Blank>>, n2) /\ e2 # n2 /\ e2 <= Len(s)
  <2>1. /\ n2 \in 1..x + 1 /\ e2 \in n2..x + 1 /\ e2 # n2 /\ e2 <= x
        /\ \A i \in n2..e2 - 1 : i \in 1..x /\ i # e1 /\ i # e2
    BY <1>4
  <2>2. FirstOf(s, Blank, n2, e2)
    BY <1>1, <1>5, <2>1 DEF FirstOf
  <2> QED BY <1>1, <2>1, <2>2, FirstFound
<1>9. x \in 1..Len(s) + 1 /\ x + 1 = Find(s, <<Blank>>, x) /\ x + 1 # x /\ x + 1 > Len(s)
  <2>1. /\ x \in 1..x + 1 /\ x + 1 \in x..x + 1 /\ ~(x + 1 <= x) /\ x + 1 > x /\ x + 1 # x
        /\ \A i \in x..x + 1 - 1 : i = x
    BY <1>4
  <2>2. FirstOf(s, Blank, x, x + 1)
    BY <1>1, <2>1 DEF FirstOf
  <2> QED BY <1>1, <2>1, <2>2, FirstFound
<1> HIDE DEF t
<1>10. /\ t[1][1] = q.verb /\ Len(t[n2]) \in Nat /\ Len(t[1]) = Len(t[n2]) + 1
       /\ \A i \in 1..Len(t[n2]) : t[1][i + 1] = t[n2][i]
  <2>1. n2 = e1 + 1 /\ Len(q.verb) = e1 - 1 /\ \A i \in 1..Len(q.verb) : s[1 - 1 + i] = q.verb[i]
    <3>1. v = e1 - 1 /\ \A i \in 1..v : 1 - 1 + i = i
      BY <1>4
    <3> QED BY <1>1, <1>2, <1>4, <3>1
  <2>2. s \in Seq(Word) /\ q.verb \in Seq(Word)
    BY <1>1, <1>2
  <2> DEFINE u == q.verb
  <2>3. u \in Seq(Word) /\ Len(u) = e1 - 1 /\ \A i \in 1..Len(u) : s[1 - 1 + i] = u[i]
    BY <2>1, <2>2
  <2> HIDE DEF u
  <2>4. TokenOut(s, <<Blank>>, 1, e1, n2, u)
    BY ONLY <1>7, <2>1, <2>2, <2>3, TokenIs
  <2> QED BY ONLY <1>7, <2>4 DEF u, t, TokenOut
<1>11. /\ t[n2][1] = q.target /\ Len(t[x]) \in Nat /\ Len(t[n2]) = Len(t[x]) + 1
       /\ \A i \in 1..Len(t[x]) : t[n2][i + 1] = t[x][i]
  <2>1. x = e2 + 1 /\ Len(q.target) = e2 - n2 /\ \A i \in 1..Len(q.target) : s[n2 - 1 + i] = q.target[i]
    <3>1. m = e2 - n2 /\ n2 - 1 = e1
      BY <1>4
    <3> QED BY <1>1, <1>2, <1>4, <3>1
  <2>2. s \in Seq(Word) /\ q.target \in Seq(Word)
    BY <1>1, <1>2
  <2> DEFINE u == q.target
  <2>3. u \in Seq(Word) /\ Len(u) = e2 - n2 /\ \A i \in 1..Len(u) : s[n2 - 1 + i] = u[i]
    BY <2>1, <2>2
  <2> HIDE DEF u
  <2>4. TokenOut(s, <<Blank>>, n2, e2, x, u)
    BY ONLY <1>8, <2>1, <2>2, <2>3, TokenIs
  <2> QED BY ONLY <1>8, <2>4 DEF u, t, TokenOut
<1>12. t[x][1] = <<q.version>> /\ Len(t[x]) = 1
  <2> DEFINE y == <<q.version>>
             e3 == x + 1
  <2>1. y \in Seq(Word) /\ Len(y) = 1 /\ y[1] = q.version
    BY <1>2
  <2> HIDE DEF y
  <2>2. Len(y) = e3 - x /\ x - 1 + 1 = x /\ \A i \in 1..1 : i = 1
    BY <1>4, <2>1
  <2>3. \A i \in 1..Len(y) : s[x - 1 + i] = y[i]
    BY <1>1, <2>1, <2>2
  <2>4. x \in 1..Len(s) + 1 /\ e3 = Find(s, <<Blank>>, x) /\ e3 # x /\ e3 > Len(s)
    BY <1>9
  <2> HIDE DEF e3
  <2>5. TokenOut(s, <<Blank>>, x, e3, e3 + 1, y)
    BY ONLY <1>1, <2>1, <2>2, <2>3, <2>4, TokenIs
  <2>6. t[x][1] = y /\ Len(t[x]) = 1
    BY ONLY <2>4, <2>5 DEF t, TokenOut
  <2> QED BY <2>6 DEF y
<1>13. Len(t[n2]) = 2 /\ t[n2][1] = q.target /\ t[n2][2] = <<q.version>>
  <2>1. 1 \in 1..Len(t[x])
    BY <1>12
  <2>2. t[n2][1 + 1] = t[x][1] /\ Len(t[n2]) = Len(t[x]) + 1
    BY ONLY <1>11, <2>1
  <2> QED BY ONLY <1>11, <1>12, <2>2
<1>14. Len(t[1]) = 3 /\ t[1][1] = q.verb /\ t[1][2] = q.target /\ t[1][3] = <<q.version>>
  <2>1. 1 \in 1..Len(t[n2]) /\ 2 \in 1..Len(t[n2])
    BY ONLY <1>13
  <2>2. Len(t[1]) = Len(t[n2]) + 1 /\ t[1][1 + 1] = t[n2][1] /\ t[1][2 + 1] = t[n2][2]
    BY ONLY <1>10, <2>1
  <2> QED BY ONLY <1>10, <1>13, <2>2
<1>15. GetToken(s, <<Blank>>) = t[1]
  BY DEF GetToken, t
<1> QED BY <1>6, <1>14, <1>15 DEF s

\* setRequestLine accepts what is well meant, and refuses the rest as it should.
LEMMA FirstLineVerdict ==
  ASSUME NEW q \in Requests
  PROVE  /\ RequestLineError(FirstLine(q)) = LineVerdict(q)
         /\ LineVerdict(q) = OK => /\ GetToken(FirstLine(q), <<Blank>>)[1] = q.verb
                                   /\ GetToken(FirstLine(q), <<Blank>>)[2] = q.target
<1> DEFINE s == FirstLine(q)
           t == GetToken(s, <<Blank>>)
<1>1. RequestLineError(s) = IF MultipleSpaces(s) \/ Len(t) # 3 THEN 400
                            ELSE IF t[1] \notin Verbs THEN 405
                            ELSE IF t[3] # <<"HTTP/1.1">> THEN 505 ELSE OK
  BY DEF RequestLineError
<1>2. CASE q.target = <<>> \/ Holds(q.target, Blank)
  <2>1. LineVerdict(q) = 400 /\ 400 # OK
    BY <1>2 DEF LineVerdict, OK
  <2>2. MultipleSpaces(s) \/ Len(t) # 3
    BY <1>2, TargetWithBlank
  <2> HIDE DEF s, t
  <2>3. RequestLineError(s) = 400
    BY <1>1, <2>2
  <2> QED BY <2>1, <2>3 DEF s
<1>3. CASE q.target # <<>> /\ ~Holds(q.target, Blank)
  <2>1. ~MultipleSpaces(s) /\ Len(t) = 3 /\ t[1] = q.verb /\ t[2] = q.target /\ t[3] = <<q.version>>
    BY <1>3, TargetWithoutBlank
  <2> HIDE DEF s, t
  <2>2. RequestLineError(s) = IF t[1] \notin Verbs THEN 405
                              ELSE IF t[3] # <<"HTTP/1.1">> THEN 505 ELSE OK
    BY ONLY <1>1, <2>1
  <2>3. LineVerdict(q) = IF q.verb \notin Verbs THEN 405
                         ELSE IF q.version # "HTTP/1.1" THEN 505 ELSE OK
    BY <1>3 DEF LineVerdict
  <2>4. t[3] # <<"HTTP/1.1">> <=> q.version # "HTTP/1.1"
    BY <2>1
  <2>5. RequestLineError(s) = LineVerdict(q)
    BY ONLY <2>1, <2>2, <2>3, <2>4
  <2> QED BY <2>1, <2>5 DEF s, t
<1> QED BY <1>2, <1>3

-----------------------------------------------------------------------------
(* The fields. *)

LEMMA ColonAt ==
  /\ Colon \in Seq(Word) /\ Len(Colon) = 2 /\ Colon[1] = ":" /\ Colon[2] = Blank /\ ":" # Blank
  /\ \A s \in Seq(Word) : \A i \in Nat :
       At(s, Colon, i) <=> i + 1 <= Len(s) /\ s[i] = ":" /\ s[i + 1] = Blank
<1>1. ":" # Blank
  BY Zenon DEF Blank
<1>2. Colon \in Seq(Word) /\ Len(Colon) = 2 /\ Colon[1] = ":" /\ Colon[2] = Blank
  BY WordsKnown, Words DEF Colon
<1>3. ASSUME NEW s \in Seq(Word), NEW i \in Nat
      PROVE  At(s, Colon, i) <=> i + 1 <= Len(s) /\ s[i] = ":" /\ s[i + 1] = Blank
  <2>1. DOMAIN Colon = {1, 2}
    <3>1. DOMAIN Colon = 1..2 /\ 1..2 = {1, 2}
      BY <1>2
    <3> QED BY <3>1
  <2>2. i + Len(Colon) - 1 = i + 1 /\ i + 1 - 1 = i /\ i + 2 - 1 = i + 1
    BY <1>2
  <2> QED BY <1>2, <2>1, <2>2 DEF At
<1> QED BY <1>1, <1>2, <1>3

FieldLineIs(f) ==
  LET s == Line(f)
      n == Len(f.name)
      r == f.sep \o f.value
  IN  /\ s \in Seq(Word) /\ n \in Nat /\ n > 0 /\ r \in Seq(Word) /\ Len(r) \in Nat
      /\ Len(s) = n + Len(r)
      /\ \A i \in 1..n : s[i] = f.name[i] /\ s[i] # ":" /\ s[i] # CRLF
      /\ \A i \in 1..Len(r) : s[n + i] = r[i]

LEMMA FieldLineParts ==
  ASSUME NEW f \in FieldLines
  PROVE  FieldLineIs(f)
<1> DEFINE a == f.name
           b == f.sep
           c == f.value
           r == b \o c
           s == (a \o b) \o c
<1>1. /\ a \in Seq(Word) /\ Len(a) > 0 /\ (\A i \in 1..Len(a) : a[i] # ":" /\ a[i] # CRLF)
      /\ b \in Seq(Word) /\ c \in Seq(Word) /\ Len(a) \in Nat
  BY FieldParts
<1>2. Line(f) = s
  BY DEF Line
<1> HIDE DEF a, b, c
<1>3. s = a \o r
  BY <1>1, Associative, SMTT(30)
<1>4. r \in Seq(Word) /\ Len(r) \in Nat
  BY <1>1, Joined
<1> HIDE DEF r, s
<1>5. /\ s \in Seq(Word) /\ Len(s) = Len(a) + Len(r)
      /\ (\A i \in 1..Len(a) : s[i] = a[i]) /\ \A i \in 1..Len(r) : s[Len(a) + i] = r[i]
  <2>1. /\ a \o r \in Seq(Word) /\ Len(a \o r) = Len(a) + Len(r)
        /\ (\A i \in 1..Len(a) : (a \o r)[i] = a[i]) /\ \A i \in 1..Len(r) : (a \o r)[Len(a) + i] = r[i]
    BY <1>1, <1>4, Joined
  <2> QED BY <1>3, <2>1
<1>6. /\ s \in Seq(Word) /\ Len(a) \in Nat /\ Len(a) > 0 /\ r \in Seq(Word) /\ Len(r) \in Nat
      /\ Len(s) = Len(a) + Len(r)
      /\ \A i \in 1..Len(a) : s[i] = a[i] /\ s[i] # ":" /\ s[i] # CRLF
      /\ \A i \in 1..Len(r) : s[Len(a) + i] = r[i]
  BY ONLY <1>1, <1>4, <1>5
<1> QED BY <1>2, <1>6 DEF FieldLineIs, a, b, c, r

\* Without ": " the whole line is one token.
LEMMA FieldWithoutColon ==
  ASSUME NEW f \in FieldLines, f.sep # Colon
  PROVE  Len(GetToken(Line(f), Colon)) = 1
<1> DEFINE s == Line(f)
           n == Len(f.name)
           r == f.sep \o f.value
           t == Tokens(s, Colon)
<1>1. /\ s \in Seq(Word) /\ n \in Nat /\ n > 0 /\ r \in Seq(Word) /\ Len(r) \in Nat
      /\ Len(s) = n + Len(r)
      /\ \A i \in 1..n : s[i] # ":"
      /\ \A i \in 1..Len(r) : s[n + i] = r[i]
  BY FieldLineParts DEF FieldLineIs
<1>2. \A i \in 1..Len(r) : ~At(r, Colon, i)
  BY FieldParts DEF Odd
<1> HIDE DEF s, n, r
<1>3. ASSUME NEW i \in 1..Len(s)
      PROVE  ~At(s, Colon, i)
  <2> SUFFICES ASSUME i + 1 <= Len(s), s[i] = ":", s[i + 1] = Blank
               PROVE  FALSE
    BY <1>1, ColonAt
  <2> DEFINE j == i - n
  <2>1. i > n
    BY <1>1
  <2>2. j \in 1..Len(r) /\ j + 1 \in 1..Len(r) /\ n + j = i /\ n + (j + 1) = i + 1
    BY <1>1, <2>1
  <2> HIDE DEF j
  <2>3. j \in Nat /\ j + 1 <= Len(r)
    BY <1>1, <2>2
  <2>4. s[n + j] = r[j] /\ s[n + (j + 1)] = r[j + 1]
    BY ONLY <1>1, <2>2
  <2>5. r[j] = ":" /\ r[j + 1] = Blank
    BY ONLY <1>1, <2>2, <2>4, s[i] = ":", s[i + 1] = Blank
  <2> QED BY <1>1, <1>2, <2>2, <2>3, <2>5, ColonAt
<1> DEFINE e == Len(s) + 1
<1>4. e = Find(s, Colon, 1)
  <2>1. 1 \in 1..Len(s) + 1 /\ e \in 1..Len(s) + 1 /\ Len(s) \in Nat /\ \A i \in 1..e - 1 : i \in 1..Len(s)
    BY <1>1
  <2>2. \A i \in 1..e - 1 : ~At(s, Colon, i)
    BY <1>3, <2>1
  <2> QED BY <1>1, <2>1, <2>2, FindAt
<1>5. e > Len(s) /\ e # 1 /\ 1 \in 1..Len(s) + 1 /\ Len(s) = e - 1 /\ e + 1 = e + 1
      /\ \A i \in 1..Len(s) : s[1 - 1 + i] = s[i]
  <2>1. \A i \in 1..Len(s) : 1 - 1 + i = i
    OBVIOUS
  <2> QED BY <1>1, <2>1
<1> HIDE DEF e
<1>6. TokenOut(s, Colon, 1, e, e + 1, s)
  BY ONLY <1>1, <1>4, <1>5, TokenIs
<1>7. Len(t[1]) = 1
  BY ONLY <1>5, <1>6 DEF TokenOut, t
<1> QED BY <1>7 DEF GetToken, s, t

\* With it they are the name and, after a blank, the value, unless the value has another.
ColonTokens(t, name, value) ==
  /\ t[1] = name /\ Len(t) \in Nat /\ Len(t) >= 2
  /\ Len(t) # 2 <=> \E i \in DOMAIN value : At(value, Colon, i)
  /\ Len(t) = 2 => Tail(t[2]) = value /\ (Len(t[2]) = 1 <=> value = <<>>)

LEMMA FieldWithColon ==
  ASSUME NEW f \in FieldLines, f.sep = Colon
  PROVE  ColonTokens(GetToken(Line(f), Colon), f.name, f.value)
<1> DEFINE s == Line(f)
           n == Len(f.name)
           v == f.value
           k == Len(v)
           y == <<Blank>> \o v
           t == Tokens(s, Colon)
           e == n + 1
           m == n + 2
           x == n + k + 3
           r == f.sep \o v
<1>1. v \in Seq(Word) /\ k \in Nat /\ DOMAIN v = 1..k
      /\ f.name \in Seq(Word) /\ Len(f.name) = n
  BY FieldParts
<1>2. /\ s \in Seq(Word) /\ n \in Nat /\ n > 0 /\ Len(r) \in Nat /\ Len(s) = n + Len(r)
      /\ \A i \in 1..n : s[i] = f.name[i] /\ s[i] # ":"
      /\ \A i \in 1..Len(r) : s[n + i] = r[i]
  BY FieldLineParts DEF FieldLineIs
<1>3. Blank \in Word /\ <<Blank>> \in Seq(Word) /\ Len(<<Blank>>) = 1 /\ <<Blank>>[1] = Blank
  BY WordsKnown, Words
<1>4. Colon \in Seq(Word) /\ Len(Colon) = 2 /\ Colon[1] = ":" /\ Colon[2] = Blank /\ ":" # Blank
  BY ColonAt
<1> HIDE DEF s, n, v, k
<1>5. Len(r) = k + 2 /\ r[1] = ":" /\ r[2] = Blank /\ \A i \in 1..k : r[2 + i] = v[i]
  <2>1. /\ Len(Colon \o v) = Len(Colon) + Len(v)
        /\ (\A i \in 1..Len(Colon) : (Colon \o v)[i] = Colon[i])
        /\ \A i \in 1..Len(v) : (Colon \o v)[Len(Colon) + i] = v[i]
    BY ONLY <1>1, <1>4, Joined, SMTT(30)
  <2>2. r = Colon \o v
    OBVIOUS
  <2> HIDE DEF r
  <2>3. 1 \in 1..2 /\ 2 \in 1..2 /\ Len(v) = k
    BY DEF k
  <2> QED BY ONLY <1>1, <1>4, <2>1, <2>2, <2>3
<1>6. /\ y \in Seq(Word) /\ Len(y) = k + 1 /\ y[1] = Blank /\ \A i \in 1..k : y[1 + i] = v[i]
  <2> DEFINE b == <<Blank>>
  <2>1. b \in Seq(Word) /\ Len(b) = 1 /\ b[1] = Blank /\ v \in Seq(Word)
    BY <1>1, <1>3
  <2> HIDE DEF b
  <2>2. /\ b \o v \in Seq(Word) /\ Len(b \o v) = Len(b) + Len(v)
        /\ (\A i \in 1..Len(b) : (b \o v)[i] = b[i])
        /\ \A i \in 1..Len(v) : (b \o v)[Len(b) + i] = v[i]
    BY ONLY <2>1, Joined
  <2>3. Len(v) = k /\ y = b \o v /\ 1 \in 1..1
    BY DEF k, b
  <2> HIDE DEF y
  <2> QED BY ONLY <1>1, <2>1, <2>2, <2>3
<1> HIDE DEF r, y
<1>7. /\ n \in Nat /\ n > 0 /\ k \in Nat /\ e \in Nat /\ m \in Nat /\ x \in Nat
      /\ e = n + 1 /\ m = e + 1 /\ x = m + k + 1 /\ Len(s) = x - 1
  BY ONLY <1>1, <1>2, <1>5
<1> HIDE DEF e, m, x
<1>8. s[e] = ":" /\ s[m] = Blank /\ \A i \in 1..k : s[m + i] = v[i]
  <2>1. 1 \in 1..Len(r) /\ 2 \in 1..Len(r) /\ \A i \in 1..k : 2 + i \in 1..Len(r) /\ n + (2 + i) = m + i
    BY ONLY <1>5, <1>7
  <2>2. n + 1 = e /\ n + 2 = m
    BY ONLY <1>7
  <2>3. s[n + 1] = r[1] /\ s[n + 2] = r[2] /\ \A i \in 1..k : s[n + (2 + i)] = r[2 + i]
    BY ONLY <1>2, <2>1
  <2> QED BY ONLY <1>5, <2>1, <2>2, <2>3
<1>9. 1 \in 1..Len(s) + 1 /\ e = Find(s, Colon, 1) /\ e # 1 /\ e <= Len(s)
  <2>1. /\ 1 \in 1..Len(s) + 1 /\ e \in 1..Len(s) + 1 /\ e # 1 /\ e + 1 <= Len(s)
        /\ \A i \in 1..e - 1 : i \in 1..n /\ i \in Nat
    BY ONLY <1>7
  <2>2. \A i \in 1..e - 1 : ~At(s, Colon, i)
    BY ONLY <1>2, <2>1, ColonAt
  <2>3. At(s, Colon, e)
    <3>1. e + 1 = m /\ e \in Nat
      BY ONLY <1>7
    <3> QED BY ONLY <1>2, <1>8, <2>1, <3>1, ColonAt
  <2>4. e = Find(s, Colon, 1)
    BY ONLY <1>2, <2>1, <2>2, <2>3, FindAt
  <2> QED BY ONLY <1>7, <2>1, <2>4
<1> HIDE DEF t
<1>10. /\ t[1][1] = f.name /\ Len(t[m]) \in Nat /\ Len(t[1]) = Len(t[m]) + 1
       /\ \A i \in 1..Len(t[m]) : t[1][i + 1] = t[m][i]
  <2> DEFINE u == f.name
  <2>1. u \in Seq(Word) /\ Len(u) = e - 1 /\ \A i \in 1..Len(u) : s[1 - 1 + i] = u[i]
    <3>1. n = e - 1 /\ \A i \in 1..n : 1 - 1 + i = i
      BY ONLY <1>7
    <3> QED BY <1>1, <1>2, <3>1
  <2> HIDE DEF u
  <2>2. TokenOut(s, Colon, 1, e, m, u)
    BY ONLY <1>2, <1>7, <1>9, <2>1, TokenIs
  <2> QED BY ONLY <1>9, <2>2 DEF u, t, TokenOut
\* Where ": " stands from m on, it stands in the value.
<1>11. \A i \in m..Len(s) : At(s, Colon, i) <=> i - m \in 1..k /\ At(v, Colon, i - m)
  <2> SUFFICES ASSUME NEW i \in m..Len(s)
               PROVE  At(s, Colon, i) <=> i - m \in 1..k /\ At(v, Colon, i - m)
    OBVIOUS
  <2> DEFINE j == i - m
  <2>1. i \in Nat /\ i \in m..m + k /\ j \in 0..k /\ m + j = i /\ m + (j + 1) = i + 1 /\ j \in Nat
        /\ Len(s) = m + k /\ (j = 0 => i = m)
    BY ONLY <1>7
  <2> HIDE DEF j
  <2>2. At(s, Colon, i) <=> i + 1 <= Len(s) /\ s[i] = ":" /\ s[i + 1] = Blank
    BY ONLY <1>2, <2>1, ColonAt
  <2>3. At(v, Colon, j) <=> j + 1 <= Len(v) /\ v[j] = ":" /\ v[j + 1] = Blank
    BY ONLY <1>1, <2>1, ColonAt
  <2>4. Len(v) = k /\ (i + 1 <= Len(s) <=> j + 1 <= k) /\ (j \in 1..k <=> j # 0)
    BY ONLY <1>7, <2>1 DEF k
  <2>5. CASE j = 0
    <3>1. s[i] # ":"
      BY ONLY <1>4, <1>8, <2>1, <2>5
    <3> QED BY <2>2, <2>4, <2>5, <3>1 DEF j
  <2>6. CASE j # 0
    <3>1. j \in 1..k /\ (j + 1 <= k => j + 1 \in 1..k)
      BY ONLY <1>7, <2>1, <2>4, <2>6
    <3>2. s[i] = v[j] /\ (j + 1 <= k => s[i + 1] = v[j + 1])
      BY ONLY <1>8, <2>1, <3>1
    <3> QED BY <2>2, <2>3, <2>4, <3>1, <3>2 DEF j
  <2> QED BY <2>5, <2>6
<1>12. CASE \A i \in 1..k : ~At(v, Colon, i)
  <2>1. \A i \in m..x - 1 : ~At(s, Colon, i)
    BY <1>7, <1>11, <1>12
  <2>2. m \in 1..Len(s) + 1 /\ x \in m..Len(s) + 1 /\ x = Len(s) + 1 /\ x # m /\ x > Len(s)
        /\ Len(y) = x - m
    BY <1>6, <1>7
  <2>3. x = Find(s, Colon, m)
    BY ONLY <1>2, <2>1, <2>2, FindAt
  <2>4. \A i \in 1..Len(y) : s[m - 1 + i] = y[i]
    <3> SUFFICES ASSUME NEW i \in 1..k + 1
                 PROVE  s[m - 1 + i] = y[i]
      BY <1>6
    <3>1. CASE i = 1
      <4>1. m - 1 + 1 = m
        BY <1>7
      <4> QED BY <1>6, <1>8, <3>1, <4>1
    <3>2. CASE i # 1
      <4>1. i - 1 \in 1..k /\ 1 + (i - 1) = i /\ m - 1 + i = m + (i - 1)
        BY <1>7, <3>2
      <4>2. y[1 + (i - 1)] = v[i - 1] /\ s[m + (i - 1)] = v[i - 1]
        BY <1>6, <1>8, <4>1
      <4> QED BY <4>1, <4>2
    <3> QED BY <3>1, <3>2
  <2>5. x + 1 = x + 1 /\ y \in Seq(Word)
    BY <1>6
  <2>6. TokenOut(s, Colon, m, x, x + 1, y)
    BY ONLY <1>2, <2>2, <2>3, <2>4, <2>5, TokenIs
  <2>7. Len(t[m]) = 1 /\ t[m][1] = y
    BY ONLY <2>2, <2>6 DEF TokenOut, t
  <2>8. Len(t[1]) = 2 /\ t[1][2] = y
    <3>1. 1 \in 1..Len(t[m])
      BY <2>7
    <3>2. t[1][1 + 1] = t[m][1]
      BY ONLY <1>10, <3>1
    <3> QED BY ONLY <1>10, <2>7, <3>2
  <2>9. Tail(y) = v
    <3>1. Tail(y) \in Seq(Word) /\ Len(Tail(y)) = k /\ \A i \in 1..k : Tail(y)[i] = v[i]
      <4>1. y # <<>>
        <5>1. Len(y) # 0 /\ Len(<<>>) = 0
          BY <1>6, <1>7
        <5> QED BY <5>1
      <4>2. Tail(y) \in Seq(Word) /\ Len(Tail(y)) = Len(y) - 1 /\ \A i \in 1..Len(Tail(y)) : Tail(y)[i] = y[i + 1]
        BY <1>6, <4>1, HeadTailProperties
      <4>3. \A i \in 1..k : i + 1 = 1 + i
        OBVIOUS
      <4> QED BY <1>6, <1>7, <4>2, <4>3
    <3>2. Len(v) = k
      BY DEF k
    <3> QED BY <1>1, <3>1, <3>2, SeqEqual
  <2>10. Len(y) = 1 <=> v = <<>>
    <3>1. Len(y) = 1 <=> k = 0
      BY <1>6, <1>7
    <3>2. k = 0 <=> v = <<>>
      BY <1>1, EmptySeq DEF k
    <3> QED BY <3>1, <3>2
  <2>11. GetToken(s, Colon) = t[1]
    BY DEF GetToken, t
  <2>12. ~\E i \in DOMAIN v : At(v, Colon, i)
    BY <1>1, <1>12
  <2>13. t[1][1] = f.name /\ Len(t[1]) \in Nat /\ Len(t[1]) >= 2
    BY ONLY <1>10, <2>8
  <2>14. Tail(t[1][2]) = v /\ (Len(t[1][2]) = 1 <=> v = <<>>)
    BY ONLY <2>8, <2>9, <2>10
  <2>15. ColonTokens(t[1], f.name, v)
    BY ONLY <2>8, <2>12, <2>13, <2>14 DEF ColonTokens
  <2> QED BY <2>11, <2>15 DEF s, v
<1>13. CASE \E i \in 1..k : At(v, Colon, i)
  <2>1. PICK i \in 1..k : At(v, Colon, i)
    BY <1>13
  <2> DEFINE c == m + i
  <2>2. c \in m..Len(s) /\ c - m = i
    BY <1>7
  <2> HIDE DEF c
  <2>3. At(s, Colon, c)
    BY <1>11, <2>1, <2>2
  <2> DEFINE g == Find(s, Colon, m)
             z == g + 1
  <2>4. m \in 1..Len(s) + 1
    BY <1>7
  <2>5. /\ g \in m..Len(s) + 1 /\ (g # Len(s) + 1 => At(s, Colon, g))
        /\ \A j \in m..Len(s) : j < g => ~At(s, Colon, j)
    BY ONLY <1>2, <2>4, FindIs
  <2> HIDE DEF g
  <2>6. g <= Len(s) /\ At(s, Colon, g) /\ g \in Nat
    BY <1>7, <2>2, <2>3, <2>5
  <2>7. g # m
    BY <1>4, <1>2, <1>8, <2>6, ColonAt
  <2>8. z \in 1..Len(s) + 1 /\ z <= Len(s) /\ s[z] = Blank
    BY <1>2, <1>7, <2>5, <2>6, ColonAt
  <2> DEFINE h == Find(s, Colon, z)
  <2>9. /\ h \in z..Len(s) + 1 /\ (h # Len(s) + 1 => At(s, Colon, h))
    BY ONLY <1>2, <2>8, FindIs
  <2>10. TokensAt(Word, s, Colon, m, g) /\ TokensAt(Word, s, Colon, z, h)
    BY <1>2, <2>4, <2>8, TokenStep DEF g
  <2> HIDE DEF h, z
  <2>11. h # z
    <3>1. h = z => At(s, Colon, z) /\ z \in Nat
      BY <1>7, <2>8, <2>9
    <3> QED BY <1>2, <1>4, <2>8, <3>1, ColonAt
  <2>12. OneTaken(Word, s, Colon, m, g) /\ OneTaken(Word, s, Colon, z, h)
    <3>1. g \in m..Len(s) + 1 /\ h \in z..Len(s) + 1
      BY <2>5, <2>9
    <3> QED BY <1>2, <2>4, <2>7, <2>8, <2>10, <2>11, <3>1, Taking
  <2>13. Len(t[z]) \in Nat /\ Len(t[z]) >= 1
    BY ONLY <2>12 DEF OneTaken, t
  <2>14. Len(t[m]) = Len(t[z]) + 1
    BY ONLY <2>6, <2>12 DEF OneTaken, t, z
  <2>15. Len(t[1]) \in Nat /\ Len(t[1]) > 2
    BY ONLY <1>10, <2>13, <2>14
  <2>16. GetToken(s, Colon) = t[1]
    BY DEF GetToken, t
  <2>17. \E j \in DOMAIN v : At(v, Colon, j)
    BY <1>1, <1>13
  <2>18. ColonTokens(t[1], f.name, v)
    BY ONLY <1>10, <2>15, <2>17 DEF ColonTokens
  <2> QED BY <2>16, <2>18 DEF s, v
<1> QED BY <1>12, <1>13

\* setFieldLine accepts what is well meant, and refuses the rest as it should.
LEMMA FieldLineVerdict ==
  ASSUME NEW f \in FieldLines
  PROVE  /\ FieldLineError(Line(f)) = FieldVerdict(f)
         /\ FieldVerdict(f) = OK => /\ GetToken(Line(f), Colon)[1] = f.name
                                    /\ Tail(GetToken(Line(f), Colon)[2]) = f.value
<1> DEFINE s == Line(f)
           t == GetToken(s, Colon)
           c == \E i \in DOMAIN f.value : At(f.value, Colon, i)
<1>1. FieldLineError(s) = IF MultipleSpaces(s) THEN 400
                          ELSE IF Len(t) < 2 THEN Undefined
                          ELSE IF Len(t) # 2 \/ Len(t[2]) = 1 \/ Holds(t[1], Blank) THEN 400 ELSE OK
  BY DEF FieldLineError
<1>2. FieldVerdict(f) = IF MultipleSpaces(s) THEN 400
                        ELSE IF f.sep # Colon THEN Undefined
                        ELSE IF f.value = <<>> \/ Holds(f.name, Blank) \/ c THEN 400 ELSE OK
  BY DEF FieldVerdict
<1>3. CASE f.sep # Colon
  <2>1. Len(t) = 1
    BY <1>3, FieldWithoutColon
  <2> HIDE DEF s, t, c
  <2>2. FieldLineError(s) = FieldVerdict(f) /\ FieldVerdict(f) # OK
    BY <1>1, <1>2, <1>3, <2>1 DEF OK, Undefined
  <2> QED BY <2>2 DEF s
<1>4. CASE f.sep = Colon
  <2>1. /\ t[1] = f.name /\ Len(t) \in Nat /\ Len(t) >= 2 /\ (Len(t) # 2 <=> c)
        /\ Len(t) = 2 => Tail(t[2]) = f.value /\ (Len(t[2]) = 1 <=> f.value = <<>>)
    BY <1>4, FieldWithColon DEF ColonTokens
  <2> HIDE DEF s, t, c
  <2>2. ~(Len(t) < 2)
    BY <2>1
  <2>3. Len(t) # 2 \/ Len(t[2]) = 1 \/ Holds(t[1], Blank) <=> f.value = <<>> \/ Holds(f.name, Blank) \/ c
    BY <2>1
  <2> DEFINE A == Len(t) # 2 \/ Len(t[2]) = 1 \/ Holds(t[1], Blank)
             B == f.value = <<>> \/ Holds(f.name, Blank) \/ c
  <2>4. FieldLineError(s) = IF MultipleSpaces(s) THEN 400
                            ELSE IF Len(t) < 2 THEN Undefined ELSE IF A THEN 400 ELSE OK
    BY <1>1
  <2>5. FieldVerdict(f) = IF MultipleSpaces(s) THEN 400
                          ELSE IF f.sep # Colon THEN Undefined ELSE IF B THEN 400 ELSE OK
    BY <1>2
  <2>6. A <=> B
    BY <2>3
  <2> HIDE DEF A, B
  <2>7. FieldLineError(s) = FieldVerdict(f)
    <3>1. CASE MultipleSpaces(s)
      BY <3>1, <2>4, <2>5
    <3>2. CASE ~MultipleSpaces(s)
      <4>1. FieldLineError(s) = IF A THEN 400 ELSE OK
        BY ONLY <2>2, <2>4, <3>2
      <4>2. FieldVerdict(f) = IF B THEN 400 ELSE OK
        BY ONLY <1>4, <2>5, <3>2
      <4> QED BY ONLY <4>1, <4>2, <2>6
    <3> QED BY <3>1, <3>2
  <2>8. FieldVerdict(f) = OK => Len(t) = 2
    BY <1>2, <1>4, <2>1 DEF OK
  <2> QED BY <2>1, <2>7, <2>8 DEF s, t
<1> QED BY <1>3, <1>4

-----------------------------------------------------------------------------
(* Where the header ends. *)

\* b and s differ in no word that both have.
Agree(b, s) == \A i \in 1..Len(b) : i <= Len(s) => b[i] = s[i]

\* The lines of a header: none is empty, and no end of line is in them.
LEMMA HeaderLines ==
  ASSUME NEW q \in Requests, NEW k \in 1..Len(Header(q))
  PROVE  /\ Header(q)[k] \in Seq(Word) /\ Len(Header(q)[k]) \in Nat /\ Len(Header(q)[k]) > 0
         /\ \A i \in 1..Len(Header(q)[k]) : Header(q)[k][i] # CRLF
<1>1. Header(q) \in Seq(Seq(Word)) /\ Len(Header(q)) = Len(q.fields) + 1 /\ Len(q.fields) \in Nat
      /\ Header(q)[1] = FirstLine(q)
      /\ \A i \in 1..Len(q.fields) : Header(q)[i + 1] = Line(q.fields[i])
  BY HeaderType
<1>2. CASE k = 1
  <2> DEFINE s == FirstLine(q)
             v == Len(q.verb)
             m == Len(q.target)
  <2>1. FirstLineParts(q)
    BY FirstLineIs
  <2>2. /\ s \in Seq(Word) /\ v \in Nat /\ v > 0 /\ m \in Nat /\ Len(s) = v + m + 3
        /\ \A i \in 1..v : s[i] # CRLF
        /\ s[v + 1] = Blank
        /\ \A i \in 1..m : s[v + 1 + i] = q.target[i]
        /\ s[v + m + 2] = Blank /\ s[v + m + 3] = q.version
    BY <2>1 DEF FirstLineParts
  <2>3. q.version # CRLF /\ (\A i \in 1..m : q.target[i] # CRLF)
    BY RequestParts
  <2>4. Blank # CRLF
    BY Zenon DEF Blank, CRLF
  <2>5. Header(q)[k] = s
    BY <1>1, <1>2
  <2> HIDE DEF s, v, m
  <2>6. ASSUME NEW i \in 1..v + m + 3
        PROVE  s[i] # CRLF
    <3>1. CASE i \in 1..v
      BY ONLY <2>2, <3>1
    <3>2. CASE i = v + 1 \/ i = v + m + 2 \/ i = v + m + 3
      BY ONLY <2>2, <2>3, <2>4, <3>2
    <3>3. CASE i \in v + 2..v + m + 1
      <4> DEFINE j == i - v - 1
      <4>1. j \in 1..m /\ v + 1 + j = i
        BY ONLY <2>2, <3>3
      <4> HIDE DEF j
      <4> QED BY ONLY <2>2, <2>3, <4>1
    <3> QED BY ONLY <2>2, <3>1, <3>2, <3>3, <2>6, SMTT(30)
  <2>7. Len(s) \in Nat /\ Len(s) > 0
    BY ONLY <2>2
  <2>8. \A i \in 1..Len(s) : s[i] # CRLF
    BY ONLY <2>2, <2>6
  <2> QED BY ONLY <2>2, <2>5, <2>7, <2>8
<1>3. CASE k > 1
  <2> DEFINE f == q.fields[k - 1]
             s == Line(f)
             r == f.sep \o f.value
  <2>1. k - 1 \in 1..Len(q.fields) /\ Header(q)[k] = s
    <3>1. k - 1 \in 1..Len(q.fields) /\ (k - 1) + 1 = k
      BY <1>1, <1>3
    <3>2. Header(q)[(k - 1) + 1] = Line(q.fields[k - 1])
      BY ONLY <1>1, <3>1
    <3> QED BY <3>1, <3>2
  <2>2. f \in FieldLines
    BY <2>1, RequestParts, ElementOfSeq
  <2> HIDE DEF f
  <2>3. FieldLineIs(f)
    BY <2>2, FieldLineParts
  <2>4. /\ s \in Seq(Word) /\ Len(f.name) \in Nat /\ Len(f.name) > 0 /\ r \in Seq(Word) /\ Len(r) \in Nat
        /\ Len(s) = Len(f.name) + Len(r)
        /\ \A i \in 1..Len(f.name) : s[i] # CRLF
        /\ \A i \in 1..Len(r) : s[Len(f.name) + i] = r[i]
    BY <2>3 DEF FieldLineIs
  <2>5. /\ f.value \in Seq(Word) /\ \A i \in 1..Len(f.value) : f.value[i] # CRLF
        /\ f.sep \in {<<>>, <<":">>, Colon} /\ f.sep \in Seq(Word)
    BY <2>2, FieldParts
  <2>6. ":" # CRLF /\ Blank # CRLF
    BY Zenon DEF Blank, CRLF
  <2>7. \A i \in 1..Len(f.sep) : f.sep[i] # CRLF
    BY <2>5, <2>6 DEF Colon
  <2> DEFINE x == f.sep
             y == f.value
             m == Len(x)
  <2>8. x \in Seq(Word) /\ y \in Seq(Word) /\ r = x \o y
    BY <2>5
  <2> HIDE DEF r, s, x, y
  <2>11. /\ Len(r) = m + Len(y) /\ m \in Nat /\ Len(y) \in Nat
         /\ \A i \in 1..m : r[i] = x[i]
         /\ \A i \in 1..Len(y) : r[m + i] = y[i]
    BY ONLY <2>8, Joined
  <2>12. (\A i \in 1..m : x[i] # CRLF) /\ (\A i \in 1..Len(y) : y[i] # CRLF)
    BY <2>5, <2>7 DEF x, y
  <2> HIDE DEF m
  <2>9. ASSUME NEW i \in 1..Len(r)
        PROVE  r[i] # CRLF
    <3>1. CASE i <= m
      BY <2>11, <2>12, <3>1
    <3>2. CASE i > m
      <4> DEFINE j == i - m
      <4>1. j \in 1..Len(y) /\ m + j = i
        BY <2>11, <3>2
      <4> HIDE DEF j
      <4> QED BY ONLY <2>11, <2>12, <4>1
    <3>3. i \in Nat
      BY <2>11
    <3> QED BY <2>11, <3>1, <3>2, <3>3
  <2>10. ASSUME NEW i \in 1..Len(s)
         PROVE  s[i] # CRLF
    <3>1. CASE i <= Len(f.name)
      BY <2>4, <3>1
    <3>2. CASE i > Len(f.name)
      <4> DEFINE j == i - Len(f.name)
      <4>1. j \in 1..Len(r) /\ i = Len(f.name) + j
        BY <2>4, <3>2
      <4> HIDE DEF j
      <4> QED BY <2>4, <2>9, <4>1
    <3> QED BY <2>4, <3>1, <3>2
  <2>13. Len(s) \in Nat /\ Len(s) > 0
    BY <2>4
  <2> QED BY <2>1, <2>4, <2>10, <2>13
<1> QED BY <1>1, <1>2, <1>3

\* The end of the k-th line of the header of q.
LineEnd(q, k) == Len(UpTo(Ended(q), k))

\* Where the k-th line lies in the header.
LineIn(q, k) ==
  LET a == LineEnd(q, k - 1)
      s == Header(q)[k]
      h == Heading(q)
  IN  /\ a \in Nat /\ Len(s) \in Nat /\ Len(s) > 0 /\ LineEnd(q, k) = a + Len(s) + 1
      /\ LineEnd(q, k) <= Len(h)
      /\ \A i \in 1..Len(s) : h[a + i] = s[i] /\ h[a + i] # CRLF
      /\ h[LineEnd(q, k)] = CRLF

LEMMA LinesIn ==
  ASSUME NEW q \in Requests
  PROVE  /\ \A k \in 1..Len(Header(q)) : LineIn(q, k)
         /\ LineEnd(q, 0) = 0 /\ LineEnd(q, Len(Header(q))) = Len(Heading(q))
         /\ Len(Header(q)) \in Nat /\ Len(Header(q)) > 0
         /\ Heading(q) \in Seq(Word) /\ Len(Heading(q)) \in Nat
<1> DEFINE E == Ended(q)
           h == Heading(q)
<1>1. /\ Header(q) \in Seq(Seq(Word)) /\ Len(Header(q)) = Len(q.fields) + 1 /\ Len(q.fields) \in Nat
  BY HeaderType
<1>2. /\ E \in Seq(Seq(Word)) /\ Len(E) = Len(Header(q))
      /\ \A i \in 1..Len(Header(q)) : E[i] = Header(q)[i] \o <<CRLF>>
      /\ h = FlattenSeq(E) /\ h \in Seq(Word)
  BY HeadingType
<1> HIDE DEF E, h
<1>3. ASSUME NEW k \in 1..Len(Header(q))
      PROVE  LineIn(q, k)
  <2> DEFINE j == k - 1
             s == Header(q)[k]
             a == Len(UpTo(E, j))
  <2>1. j \in 0..Len(E) - 1 /\ k = j + 1
    BY <1>1, <1>2
  <2>2. s \in Seq(Word) /\ Len(s) \in Nat /\ Len(s) > 0 /\ \A i \in 1..Len(s) : s[i] # CRLF
    BY HeaderLines
  <2>3. E[k] = s \o <<CRLF>>
    BY <1>2
  <2> HIDE DEF j, s
  <2>4. CRLF \in Word
    BY WordsKnown
  <2>5. <<CRLF>> \in Seq(Word) /\ Len(<<CRLF>>) = 1 /\ <<CRLF>>[1] = CRLF
    BY <2>4, Words
  <2>6. /\ Len(s \o <<CRLF>>) = Len(s) + 1
        /\ \A i \in 1..Len(s) : (s \o <<CRLF>>)[i] = s[i]
        /\ (s \o <<CRLF>>)[Len(s) + 1] = CRLF
    BY <2>2, <2>5, Joined
  <2>7. /\ Len(UpTo(E, j)) \in Nat /\ Len(UpTo(E, j + 1)) = Len(UpTo(E, j)) + Len(E[j + 1])
        /\ Len(UpTo(E, j + 1)) <= Len(FlattenSeq(E))
        /\ \A i \in 1..Len(E[j + 1]) : FlattenSeq(E)[Len(UpTo(E, j)) + i] = E[j + 1][i]
    BY <1>2, <2>1, UpToPart
  <2>8. /\ a \in Nat /\ Len(UpTo(E, k)) = a + Len(s) + 1 /\ Len(UpTo(E, k)) <= Len(h)
        /\ \A i \in 1..Len(s) + 1 : h[a + i] = (s \o <<CRLF>>)[i]
    BY <1>2, <2>1, <2>2, <2>3, <2>6, <2>7, SMTT(30)
  <2> HIDE DEF a
  <2>9. \A i \in 1..Len(s) : h[a + i] = s[i] /\ h[a + i] # CRLF
    BY <2>2, <2>6, <2>8
  <2>10. h[Len(UpTo(E, k))] = CRLF
    <3>1. Len(s) + 1 \in 1..Len(s) + 1 /\ a + (Len(s) + 1) = Len(UpTo(E, k))
      BY <2>2, <2>8
    <3> QED BY <2>6, <2>8, <3>1
  <2> QED BY <2>2, <2>8, <2>9, <2>10 DEF LineIn, LineEnd, E, a, j, s, h
<1>4. UpTo(E, 0) = <<>> /\ UpTo(E, Len(E)) = h
  BY <1>2, UpToStep
<1>5. LineEnd(q, 0) = 0 /\ LineEnd(q, Len(Header(q))) = Len(h)
  BY <1>2, <1>4 DEF LineEnd, E
<1>6. Len(h) \in Nat
  BY <1>2
<1> QED BY <1>1, <1>2, <1>3, <1>5, <1>6 DEF h

\* No line is empty, so the header holds no two ends of line in a row.
LEMMA NoGap ==
  ASSUME NEW q \in Requests
  PROVE  /\ Len(Heading(q)) > 0 /\ Heading(q)[Len(Heading(q))] = CRLF
         /\ \A i \in 1..Len(Heading(q)) - 1 : ~(Heading(q)[i] = CRLF /\ Heading(q)[i + 1] = CRLF)
<1> DEFINE h == Heading(q)
           n == Len(Header(q))
           P(k) == LineEnd(q, k)
           T == {k \in 0..n : P(k) \in Nat /\ \A i \in 1..P(k) - 1 : ~(h[i] = CRLF /\ h[i + 1] = CRLF)}
<1>1. /\ \A k \in 1..n : LineIn(q, k)
      /\ P(0) = 0 /\ P(n) = Len(h) /\ n \in Nat /\ n > 0
  BY LinesIn
<1>2. \A k \in 1..n :
        /\ P(k - 1) \in Nat /\ P(k) \in Nat /\ P(k) > P(k - 1) + 1 /\ h[P(k)] = CRLF
        /\ \A i \in P(k - 1) + 1..P(k) - 1 : h[i] # CRLF
  <2> SUFFICES ASSUME NEW k \in 1..n
               PROVE  /\ P(k - 1) \in Nat /\ P(k) \in Nat /\ P(k) > P(k - 1) + 1 /\ h[P(k)] = CRLF
                      /\ \A i \in P(k - 1) + 1..P(k) - 1 : h[i] # CRLF
    OBVIOUS
  <2> DEFINE a == P(k - 1)
             e == P(k)
             m == Len(Header(q)[k])
  <2>1. /\ a \in Nat /\ m \in Nat /\ m > 0 /\ e = a + m + 1 /\ h[e] = CRLF
        /\ \A i \in 1..m : h[a + i] # CRLF
    BY <1>1 DEF LineIn
  <2> HIDE DEF a, e, m, h
  <2>2. ASSUME NEW i \in a + 1..e - 1
        PROVE  h[i] # CRLF
    <3>1. i - a \in 1..m /\ a + (i - a) = i
      BY <2>1
    <3> QED BY <2>1, <3>1
  <2>3. a \in Nat /\ e \in Nat /\ e > a + 1
    BY <2>1
  <2> QED BY <2>1, <2>2, <2>3 DEF a, e
<1> HIDE DEF P, h, n
<1>3. 0 \in T
  BY <1>1
<1>4. ASSUME NEW k \in 0..n - 1, k \in T
      PROVE  k + 1 \in T
  <2> DEFINE c == k + 1
  <2>1. c \in 1..n /\ c - 1 = k /\ c \in 0..n
    BY <1>1
  <2>2. /\ P(k) \in Nat /\ P(c) \in Nat /\ P(c) > P(k) + 1
        /\ \A i \in P(k) + 1..P(c) - 1 : h[i] # CRLF
    BY <1>2, <2>1
  <2>3. \A i \in 1..P(k) - 1 : ~(h[i] = CRLF /\ h[i + 1] = CRLF)
    BY <1>4
  <2> HIDE DEF c
  <2> DEFINE a == P(k)
             e == P(c)
  <2>5. /\ a \in Nat /\ e \in Nat /\ e > a + 1 /\ (\A i \in a + 1..e - 1 : h[i] # CRLF)
        /\ \A i \in 1..a - 1 : ~(h[i] = CRLF /\ h[i + 1] = CRLF)
    BY <2>2, <2>3
  <2> HIDE DEF a, e
  <2>4. ASSUME NEW i \in 1..e - 1
        PROVE  ~(h[i] = CRLF /\ h[i + 1] = CRLF)
    <3>1. CASE i < a
      BY ONLY <2>5, <3>1, <2>4
    <3>2. CASE i = a
      BY ONLY <2>5, <3>2
    <3>3. CASE i > a
      BY ONLY <2>5, <3>3, <2>4
    <3> QED BY ONLY <2>5, <2>4, <3>1, <3>2, <3>3
  <2> QED BY <2>1, <2>2, <2>4 DEF c, e
<1>5. 0..n \subseteq T
  <2> HIDE DEF T
  <2> QED BY ONLY <1>1, <1>3, <1>4, Climb
<1>6. n \in T
  <2> HIDE DEF T
  <2> QED BY ONLY <1>1, <1>5
<1>7. n \in 1..n
  BY <1>1
<1> QED BY <1>1, <1>2, <1>6, <1>7 DEF h, n

LEMMA RenderParts ==
  ASSUME NEW q \in Requests
  PROVE  LET h == Heading(q)
             s == Render(q)
         IN  /\ s \in Seq(Word) /\ Len(h) \in Nat /\ Len(q.body) \in Nat
             /\ Len(s) = Len(h) + 1 + Len(q.body)
             /\ \A i \in 1..Len(h) : s[i] = h[i]
             /\ s[Len(h) + 1] = CRLF
<1> DEFINE h == Heading(q)
           b == q.body
           g == h \o <<CRLF>>
           s == Render(q)
<1>1. s \in Seq(Word) /\ h \in Seq(Word) /\ g \in Seq(Word) /\ s = g \o b
  BY RenderType
<1>2. b \in Seq(Word)
  BY RequestParts
<1> HIDE DEF h, b, s
<1>3. CRLF \in Word
  BY WordsKnown
<1>4. <<CRLF>> \in Seq(Word) /\ Len(<<CRLF>>) = 1 /\ <<CRLF>>[1] = CRLF
  BY <1>3, Words
<1>5. /\ Len(g) = Len(h) + 1 /\ Len(h) \in Nat /\ (\A i \in 1..Len(h) : g[i] = h[i])
      /\ g[Len(h) + 1] = CRLF
  BY ONLY <1>1, <1>4, Joined
<1> HIDE DEF g
<1>6. /\ Len(s) = Len(g) + Len(b) /\ Len(b) \in Nat /\ \A i \in 1..Len(g) : s[i] = g[i]
  BY ONLY <1>1, <1>2, Joined
<1>7. /\ s \in Seq(Word) /\ Len(h) \in Nat /\ Len(b) \in Nat
      /\ Len(s) = Len(h) + 1 + Len(b)
      /\ \A i \in 1..Len(h) : s[i] = h[i]
      /\ s[Len(h) + 1] = CRLF
  <2> DEFINE n == Len(h)
             m == Len(g)
  <2>1. n \in Nat /\ m = n + 1 /\ (\A i \in 1..n : g[i] = h[i]) /\ g[n + 1] = CRLF
    BY ONLY <1>5
  <2>2. \A i \in 1..m : s[i] = g[i]
    BY ONLY <1>6
  <2>3. s \in Seq(Word) /\ Len(b) \in Nat /\ Len(s) = m + Len(b)
    BY ONLY <1>1, <1>6
  <2> HIDE DEF n, m
  <2>4. /\ s \in Seq(Word) /\ n \in Nat /\ Len(b) \in Nat
        /\ Len(s) = n + 1 + Len(b)
        /\ \A i \in 1..n : s[i] = h[i]
        /\ s[n + 1] = CRLF
    BY ONLY <2>1, <2>2, <2>3
  <2> QED BY <2>4 DEF n
<1> QED BY <1>7 DEF h, b, s

\* However much of a request has come: the header ends where the empty line is.
LEMMA HeaderEndOf ==
  ASSUME NEW q \in Requests, NEW b \in Seq(Word), Agree(b, Render(q))
  PROVE  /\ Len(b) <= Len(Heading(q)) => HeaderEnd(b) = 0
         /\ Len(b) > Len(Heading(q)) => HeaderEnd(b) = Len(Heading(q))
         /\ \A i \in 1..Len(b) : i <= Len(Heading(q)) => b[i] = Heading(q)[i]
<1> DEFINE h == Heading(q)
           n == Len(h)
           s == Render(q)
           e == HeaderEnd(b)
<1>1. /\ s \in Seq(Word) /\ n \in Nat /\ Len(q.body) \in Nat /\ Len(s) = n + 1 + Len(q.body)
      /\ \A i \in 1..n : s[i] = h[i]
      /\ s[n + 1] = CRLF
  BY RenderParts
<1>2. n > 0 /\ h[n] = CRLF /\ \A i \in 1..n - 1 : ~(h[i] = CRLF /\ h[i + 1] = CRLF)
  BY NoGap
<1>3. \A i \in 1..Len(b) : i <= Len(s) => b[i] = s[i]
  BY DEF Agree
<1>4. Len(b) \in Nat
  OBVIOUS
<1>5. \/ e = 0 /\ \A i \in 1..Len(b) - 1 : ~(b[i] = CRLF /\ b[i + 1] = CRLF)
      \/ /\ e \in 1..Len(b) - 1 /\ b[e] = CRLF /\ b[e + 1] = CRLF
         /\ \A i \in 1..e - 1 : ~(b[i] = CRLF /\ b[i + 1] = CRLF)
  BY HeaderEndIs
<1> HIDE DEF h, n, s, e
<1>6. \A i \in 1..Len(b) : i <= n => b[i] = h[i]
  <2> SUFFICES ASSUME NEW i \in 1..Len(b), i <= n
               PROVE  b[i] = h[i]
    OBVIOUS
  <2> DEFINE m == Len(q.body)
  <2>1. n \in Nat /\ m \in Nat /\ Len(s) = n + 1 + m
    BY ONLY <1>1
  <2> HIDE DEF m
  <2>2. i <= Len(s) /\ i \in 1..n
    BY ONLY <1>4, <2>1, i \in 1..Len(b), i <= n
  <2> QED BY ONLY <1>1, <1>3, <2>2, i \in 1..Len(b)
<1>7. ASSUME Len(b) > n
      PROVE  b[n] = CRLF /\ b[n + 1] = CRLF
  BY ONLY <1>1, <1>2, <1>3, <1>4, <1>6, <1>7
<1>8. ASSUME NEW i \in 1..Len(b) - 1, i <= n - 1
      PROVE  ~(b[i] = CRLF /\ b[i + 1] = CRLF)
  <2>1. i \in 1..n - 1 /\ i \in 1..Len(b) /\ i + 1 \in 1..Len(b) /\ i <= n /\ i + 1 <= n
    BY ONLY <1>1, <1>4, <1>8
  <2> QED BY ONLY <1>2, <1>6, <2>1
<1>9. CASE Len(b) <= n
  <2>1. \A i \in 1..Len(b) - 1 : i <= n - 1
    BY ONLY <1>1, <1>4, <1>9
  <2>2. e = 0
    BY ONLY <1>5, <1>8, <2>1
  <2> QED BY ONLY <2>2, <1>9, <1>4, <1>1, <1>6 DEF h, n, e
<1>10. CASE Len(b) > n
  <2>1. n \in 1..Len(b) - 1
    BY ONLY <1>1, <1>2, <1>4, <1>10
  <2>2. e # 0
    BY ONLY <1>5, <1>7, <1>10, <2>1
  <2>3. e \in 1..Len(b) - 1 /\ ~(e <= n - 1)
    BY ONLY <1>5, <1>8, <2>2
  <2>4. ~(n \in 1..e - 1)
    BY ONLY <1>5, <1>7, <1>10, <2>2
  <2>5. e = n
    BY ONLY <1>1, <1>4, <2>1, <2>3, <2>4
  <2> QED BY ONLY <2>5, <1>10, <1>4, <1>1, <1>6 DEF h, n, e
<1> QED BY ONLY <1>1, <1>4, <1>9, <1>10 DEF h, n, e

-----------------------------------------------------------------------------
(* Reading the lines, one after the other. *)

\* The words of a line lie in the buffer where they lie in the header.
LEMMA LineFound ==
  ASSUME NEW q \in Requests, NEW b \in Seq(Word), Len(b) >= Len(Heading(q)),
         \A i \in 1..Len(b) : i <= Len(Heading(q)) => b[i] = Heading(q)[i],
         NEW k \in 1..Len(Header(q)), NEW n, n = LineEnd(q, k - 1) + 1
  PROVE  /\ Find(b, <<CRLF>>, n) = LineEnd(q, k) /\ LineEnd(q, k) \in n..Len(b)
         /\ SubSeq(b, n, LineEnd(q, k) - 1) = Header(q)[k]
<1> DEFINE h == Heading(q)
           a == LineEnd(q, k - 1)
           e == LineEnd(q, k)
           s == Header(q)[k]
           m == Len(s)
<1>1. /\ a \in Nat /\ m \in Nat /\ m > 0 /\ e = a + m + 1 /\ e <= Len(h)
      /\ \A i \in 1..m : h[a + i] = s[i] /\ h[a + i] # CRLF
      /\ h[e] = CRLF
  BY LinesIn DEF LineIn
<1>2. s \in Seq(Word)
  BY HeaderLines
<1>3. Len(h) \in Nat /\ n = a + 1
  BY LinesIn
<1>4. Len(b) \in Nat /\ Len(b) >= Len(h) /\ \A i \in 1..Len(b) : i <= Len(h) => b[i] = h[i]
  OBVIOUS
<1>9. Len(s) = m
  OBVIOUS
<1> HIDE DEF h, a, e, s, m
<1>5. \A i \in 1..m : b[a + i] = s[i] /\ b[a + i] # CRLF
  <2> SUFFICES ASSUME NEW i \in 1..m
               PROVE  b[a + i] = s[i] /\ b[a + i] # CRLF
    OBVIOUS
  <2>1. a + i \in 1..Len(b) /\ a + i <= Len(h)
    BY ONLY <1>1, <1>3, <1>4, i \in 1..m
  <2> QED BY ONLY <1>1, <1>4, <2>1, i \in 1..m
<1>6. FirstOf(b, CRLF, n, e)
  <2>1. n \in 1..Len(b) + 1 /\ e \in n..Len(b) /\ e \in 1..Len(b)
    BY ONLY <1>1, <1>3, <1>4
  <2>2. b[e] = CRLF
    BY ONLY <1>1, <1>4, <2>1
  <2>3. ASSUME NEW i \in n..e - 1
        PROVE  b[i] # CRLF
    <3>1. i - a \in 1..m /\ a + (i - a) = i
      BY ONLY <1>1, <1>3, <2>3
    <3> QED BY ONLY <1>5, <3>1
  <2>4. e \in n..Len(b) + 1
    BY ONLY <2>1, <1>4
  <2> QED BY ONLY <2>1, <2>2, <2>3, <2>4 DEF FirstOf
<1>7. e = Find(b, <<CRLF>>, n)
  BY <1>6, FirstFound
<1>8. SubSeq(b, n, e - 1) = s
  <2> DEFINE p == SubSeq(b, a + 1, a + m)
  <2>1. /\ p \in Seq(Word) /\ Len(p) = m /\ \A i \in 1..m : p[i] = b[a + i]
    <3>1. a + m <= Len(b)
      BY ONLY <1>1, <1>4, <1>3
    <3> QED BY ONLY <1>1, <3>1, b \in Seq(Word), Part, SMTT(30)
  <2>2. n = a + 1 /\ e - 1 = a + m
    BY <1>1, <1>3
  <2> HIDE DEF p
  <2>3. p = s
    BY <1>2, <1>5, <1>9, <2>1, SeqEqual, SMTT(30)
  <2> QED BY <2>2, <2>3 DEF p
<1>10. e \in n..Len(b)
  BY ONLY <1>1, <1>3, <1>4
<1> QED BY <1>7, <1>8, <1>10 DEF e, s

\* The fields called name, of the first j, that the parser gets to.
Named(q, name, j) ==
  {i \in 1..j : LineVerdict(q) = OK /\ (\A m \in Faults(q) : i < m) /\ q.fields[i].name = name}

\* v is what the last of them gives.
LatestIs(S, g, default, v) ==
  \/ S = {} /\ v = default
  \/ \E i \in S : v = g[i] /\ \A m \in S : m <= i

LEMMA LatestStep ==
  ASSUME NEW q, NEW name, NEW j \in Nat, NEW g, NEW d, NEW v, NEW w,
         LatestIs(Named(q, name, j), g, d, v),
         IF j + 1 \in Named(q, name, j + 1) THEN w = g[j + 1] ELSE w = v
  PROVE  LatestIs(Named(q, name, j + 1), g, d, w)
<1> DEFINE S == Named(q, name, j)
           W == Named(q, name, j + 1)
<1>1. S \subseteq 1..j /\ S \subseteq W /\ \A i \in W : i \in S \/ i = j + 1
  BY DEF Named
<1>2. LatestIs(S, g, d, v) /\ IF j + 1 \in W THEN w = g[j + 1] ELSE w = v
  OBVIOUS
<1> HIDE DEF S, W
<1>3. CASE j + 1 \in W
  <2>1. \A m \in W : m <= j + 1
    BY <1>1
  <2> QED BY <1>2, <1>3, <2>1 DEF LatestIs, W
<1>4. CASE j + 1 \notin W
  <2>1. W = S
    BY <1>1, <1>4
  <2> QED BY <1>2, <1>4, <2>1 DEF W
<1> QED BY <1>3, <1>4

HostTexts(q) == [i \in DOMAIN q.fields |-> Before(q.fields[i].value, ":")]
Texts(q) == [i \in DOMAIN q.fields |-> q.fields[i].value]

\* The error of the first j lines behind the first, and the first.
Refused(q, j, error) ==
  \/ LineVerdict(q) # OK /\ error = LineVerdict(q)
  \/ /\ LineVerdict(q) = OK
     /\ \E i \in Faults(q) :
          i <= j /\ (\A m \in Faults(q) : i <= m) /\ error = FieldVerdict(q.fields[i])

\* What the header's fields have made of r after the first j of them.
FieldsSet(q, r, x, j) ==
  /\ LatestIs(Named(q, <<"Host">>, j), HostTexts(q), r.host, x.host)
  /\ LatestIs(Named(q, <<"Content-Length">>, j), Texts(q), r.length, x.length)
  /\ LatestIs(Named(q, <<"Transfer-Encoding">>, j), Texts(q), r.coding, x.coding)

\* What reading has made of r after the first line and j fields.
After(q, r, x, j) ==
  /\ FieldsSet(q, r, x.req, j)
  /\ IF x.error = OK
     THEN /\ LineVerdict(q) = OK /\ \A m \in Faults(q) : j < m
          /\ x.next = LineEnd(q, j + 1) + 1
          /\ x.req.method = q.verb /\ x.req.path = q.target
     ELSE Refused(q, j, x.error)

LEMMA RequestLineIs ==
  ASSUME NEW q \in Requests, NEW r \in RequestObject, LineVerdict(q) = OK
  PROVE  LET x == SetRequestLine(r, FirstLine(q))
         IN  /\ x.method = q.verb /\ x.path = q.target
             /\ x.host = r.host /\ x.length = r.length /\ x.coding = r.coding
<1>1. /\ GetToken(FirstLine(q), <<Blank>>)[1] = q.verb
      /\ GetToken(FirstLine(q), <<Blank>>)[2] = q.target
  BY FirstLineVerdict
<1> QED BY <1>1, ObjectParts DEF SetRequestLine

LEMMA FieldIs ==
  ASSUME NEW f \in FieldLines, NEW r \in RequestObject, FieldVerdict(f) = OK
  PROVE  LET x == SetFieldLine(r, Line(f))
         IN  /\ x.host = IF f.name = <<"Host">> THEN Before(f.value, ":") ELSE r.host
             /\ x.length = IF f.name = <<"Content-Length">> THEN f.value ELSE r.length
             /\ x.coding = IF f.name = <<"Transfer-Encoding">> THEN f.value ELSE r.coding
             /\ x.method = r.method /\ x.path = r.path
<1> DEFINE t == GetToken(Line(f), Colon)
<1>1. t[1] = f.name /\ Tail(t[2]) = f.value
  BY FieldLineVerdict
<1> DEFINE n == f.name
           v == f.value
<1>2. SetFieldLine(r, Line(f)) =
        CASE n = <<"Host">>              -> [r EXCEPT !.host = Before(v, ":")]
          [] n = <<"Content-Length">>    -> [r EXCEPT !.length = v]
          [] n = <<"Transfer-Encoding">> -> [r EXCEPT !.coding = v]
          [] OTHER -> r
  BY <1>1 DEF SetFieldLine
<1>3. /\ <<"Host">> # <<"Content-Length">> /\ <<"Host">> # <<"Transfer-Encoding">>
      /\ <<"Content-Length">> # <<"Transfer-Encoding">>
  OBVIOUS
<1>4. r = [state |-> r.state, buffer |-> r.buffer, start |-> r.start, method |-> r.method,
           path |-> r.path, length |-> r.length, coding |-> r.coding, host |-> r.host,
           server |-> r.server, location |-> r.location, file |-> r.file]
  BY ObjectParts
<1> DEFINE x == SetFieldLine(r, Line(f))
<1> HIDE DEF n, v, t, x
<1>5. CASE n = <<"Host">>
  <2>1. x = [r EXCEPT !.host = Before(v, ":")]
    BY <1>2, <1>3, <1>5 DEF x
  <2> QED BY <1>3, <1>4, <1>5, <2>1 DEF n, v, x
<1>6. CASE n = <<"Content-Length">>
  <2>1. x = [r EXCEPT !.length = v]
    BY <1>2, <1>3, <1>6 DEF x
  <2> QED BY <1>3, <1>4, <1>6, <2>1 DEF n, v, x
<1>7. CASE n = <<"Transfer-Encoding">>
  <2>1. x = [r EXCEPT !.coding = v]
    BY <1>2, <1>3, <1>7 DEF x
  <2> QED BY <1>3, <1>4, <1>7, <2>1 DEF n, v, x
<1>8. CASE n # <<"Host">> /\ n # <<"Content-Length">> /\ n # <<"Transfer-Encoding">>
  <2>1. x = r
    BY <1>2, <1>8 DEF x
  <2> QED BY <1>8, <2>1 DEF n, v, x
<1> QED BY <1>5, <1>6, <1>7, <1>8

\* r holds the header of q, and perhaps more of it.
Holding(q, r) ==
  /\ q \in Requests /\ r \in RequestObject /\ Agree(r.buffer, Render(q))
  /\ Len(r.buffer) > Len(Heading(q))

LEMMA HoldingParts ==
  ASSUME NEW q, NEW r, Holding(q, r)
  PROVE  /\ q \in Requests /\ r \in RequestObject /\ r.buffer \in Seq(Word)
         /\ HeaderEnd(r.buffer) = Len(Heading(q))
         /\ Len(r.buffer) \in Nat /\ Len(Heading(q)) \in Nat /\ Len(Heading(q)) > 0
         /\ Len(r.buffer) >= Len(Heading(q)) /\ Len(r.buffer) > Len(Heading(q))
         /\ \A i \in 1..Len(r.buffer) : i <= Len(Heading(q)) => r.buffer[i] = Heading(q)[i]
         /\ r.buffer[Len(Heading(q))] = CRLF
<1>1. q \in Requests /\ r \in RequestObject /\ Agree(r.buffer, Render(q)) /\ Len(r.buffer) > Len(Heading(q))
  BY DEF Holding
<1>2. r.buffer \in Seq(Word)
  BY <1>1, ObjectParts
<1> DEFINE b == r.buffer
           h == Heading(q)
<1>3. /\ Len(b) > Len(h) => HeaderEnd(b) = Len(h)
      /\ \A i \in 1..Len(b) : i <= Len(h) => b[i] = h[i]
  BY <1>1, <1>2, HeaderEndOf
<1>4. Len(h) \in Nat /\ Len(h) > 0 /\ h[Len(h)] = CRLF
  BY <1>1, LinesIn, NoGap
<1>5. Len(b) \in Nat
  BY <1>2
<1> HIDE DEF b, h
<1>6. Len(h) \in 1..Len(b) /\ Len(b) >= Len(h) /\ Len(b) > Len(h)
  BY <1>1, <1>4, <1>5 DEF b, h
<1>7. b[Len(h)] = CRLF
  BY <1>3, <1>4, <1>6
<1> QED BY <1>1, <1>2, <1>3, <1>4, <1>5, <1>6, <1>7 DEF b, h

LEMMA FirstRead ==
  ASSUME NEW q, NEW r, Holding(q, r)
  PROVE  After(q, r, ReadLine(Started(r), 1), 0)
<1> DEFINE was == Started(r)
           b == r.buffer
           end == Find(b, <<CRLF>>, 1)
           line == SubSeq(b, 1, end - 1)
           error == RequestLineError(line)
           x == ReadLine(was, 1)
<1>1. /\ q \in Requests /\ r \in RequestObject /\ b \in Seq(Word) /\ Len(b) >= Len(Heading(q))
      /\ \A i \in 1..Len(b) : i <= Len(Heading(q)) => b[i] = Heading(q)[i]
  BY HoldingParts
<1>2. 1 \in 1..Len(Header(q)) /\ Header(q)[1] = FirstLine(q) /\ 1 = LineEnd(q, 1 - 1) + 1
  BY <1>1, HeaderType, LinesIn
<1>3. end = LineEnd(q, 1) /\ line = FirstLine(q)
  <2> HIDE DEF b
  <2> DEFINE k == 1
  <2>1. k \in 1..Len(Header(q)) /\ 1 = LineEnd(q, k - 1) + 1
    BY <1>2
  <2>2. Find(b, <<CRLF>>, 1) = LineEnd(q, k) /\ SubSeq(b, 1, LineEnd(q, k) - 1) = Header(q)[k]
    <3> HIDE DEF k
    <3> QED BY ONLY <1>1, <2>1, LineFound, ZenonT(30)
  <2> QED BY <1>2, <2>2
<1>4. error = LineVerdict(q)
  BY <1>1, <1>3, FirstLineVerdict
<1>5. x = IF error # OK THEN [was EXCEPT !.error = error]
          ELSE [error |-> OK, next |-> end + 1, req |-> SetRequestLine(r, line)]
  BY DEF ReadLine, Started
<1>6. \A name : Named(q, name, 0) = {}
  BY DEF Named
<1> HIDE DEF b, end, line, error, x
<1>7. CASE error # OK
  <2>1. x.error = error /\ x.req = r
    BY <1>5, <1>7 DEF Started
  <2>2. Refused(q, 0, x.error)
    BY <1>4, <1>7, <2>1 DEF Refused
  <2>3. FieldsSet(q, r, x.req, 0)
    BY <1>6, <2>1 DEF FieldsSet, LatestIs
  <2> QED BY <1>7, <2>1, <2>2, <2>3 DEF After, x, was
<1>8. CASE error = OK
  <2> DEFINE y == SetRequestLine(r, FirstLine(q))
  <2>1. x.error = OK /\ x.req = y /\ x.next = LineEnd(q, 1) + 1
    BY <1>3, <1>5, <1>8
  <2>2. LineVerdict(q) = OK
    BY <1>4, <1>8
  <2>3. y.method = q.verb /\ y.path = q.target /\ y.host = r.host /\ y.length = r.length /\ y.coding = r.coding
    BY <1>1, <2>2, RequestLineIs
  <2> HIDE DEF y
  <2>4. FieldsSet(q, r, x.req, 0)
    BY <1>6, <2>1, <2>3 DEF FieldsSet, LatestIs
  <2>5. \A m \in Faults(q) : 0 < m
    <3>1. q.fields \in Seq(FieldLines)
      BY <1>1, RequestParts
    <3> QED BY <3>1 DEF Faults
  <2>6. x.next = LineEnd(q, 0 + 1) + 1
    BY <2>1
  <2> QED BY <2>1, <2>2, <2>3, <2>4, <2>5, <2>6 DEF After, x, was
<1> QED BY <1>7, <1>8

\* What becomes of the fields' last values when one more line is read.
LEMMA FieldsSetStep ==
  ASSUME NEW q, NEW r, NEW x, NEW y, NEW j \in Nat, FieldsSet(q, r, x, j),
         \A name : j + 1 \notin Named(q, name, j + 1),
         y.host = x.host, y.length = x.length, y.coding = x.coding
  PROVE  FieldsSet(q, r, y, j + 1)
<1>1. /\ LatestIs(Named(q, <<"Host">>, j), HostTexts(q), r.host, x.host)
      /\ LatestIs(Named(q, <<"Content-Length">>, j), Texts(q), r.length, x.length)
      /\ LatestIs(Named(q, <<"Transfer-Encoding">>, j), Texts(q), r.coding, x.coding)
  BY DEF FieldsSet
<1>2. LatestIs(Named(q, <<"Host">>, j + 1), HostTexts(q), r.host, y.host)
  BY <1>1, LatestStep
<1>3. LatestIs(Named(q, <<"Content-Length">>, j + 1), Texts(q), r.length, y.length)
  BY <1>1, LatestStep
<1>4. LatestIs(Named(q, <<"Transfer-Encoding">>, j + 1), Texts(q), r.coding, y.coding)
  BY <1>1, LatestStep
<1> QED BY <1>2, <1>3, <1>4 DEF FieldsSet

LEMMA FieldsSetRead ==
  ASSUME NEW q \in Requests, NEW r, NEW x, NEW y, NEW j \in 0..Len(q.fields) - 1, FieldsSet(q, r, x, j),
         \A name : j + 1 \in Named(q, name, j + 1) <=> name = q.fields[j + 1].name,
         LET f == q.fields[j + 1]
         IN  /\ y.host = IF f.name = <<"Host">> THEN Before(f.value, ":") ELSE x.host
             /\ y.length = IF f.name = <<"Content-Length">> THEN f.value ELSE x.length
             /\ y.coding = IF f.name = <<"Transfer-Encoding">> THEN f.value ELSE x.coding
  PROVE  FieldsSet(q, r, y, j + 1)
<1> DEFINE f == q.fields[j + 1]
<1>1. /\ LatestIs(Named(q, <<"Host">>, j), HostTexts(q), r.host, x.host)
      /\ LatestIs(Named(q, <<"Content-Length">>, j), Texts(q), r.length, x.length)
      /\ LatestIs(Named(q, <<"Transfer-Encoding">>, j), Texts(q), r.coding, x.coding)
  BY DEF FieldsSet
<1>2. q.fields \in Seq(FieldLines) /\ Len(q.fields) \in Nat /\ DOMAIN q.fields = 1..Len(q.fields)
  BY RequestParts
<1>3. j \in Nat /\ j + 1 \in DOMAIN q.fields
  BY <1>2
<1>4. HostTexts(q)[j + 1] = Before(f.value, ":") /\ Texts(q)[j + 1] = f.value
  BY <1>3 DEF HostTexts, Texts
<1>5. /\ y.host = IF f.name = <<"Host">> THEN HostTexts(q)[j + 1] ELSE x.host
      /\ y.length = IF f.name = <<"Content-Length">> THEN Texts(q)[j + 1] ELSE x.length
      /\ y.coding = IF f.name = <<"Transfer-Encoding">> THEN Texts(q)[j + 1] ELSE x.coding
  BY <1>4
<1>6. \A name : j + 1 \in Named(q, name, j + 1) <=> name = f.name
  OBVIOUS
<1> HIDE DEF f
<1>7. LatestIs(Named(q, <<"Host">>, j + 1), HostTexts(q), r.host, y.host)
  <2>1. IF j + 1 \in Named(q, <<"Host">>, j + 1) THEN y.host = HostTexts(q)[j + 1] ELSE y.host = x.host
    BY <1>5, <1>6
  <2> QED BY ONLY <1>1, <1>3, <2>1, LatestStep
<1>8. LatestIs(Named(q, <<"Content-Length">>, j + 1), Texts(q), r.length, y.length)
  <2>1. IF j + 1 \in Named(q, <<"Content-Length">>, j + 1) THEN y.length = Texts(q)[j + 1] ELSE y.length = x.length
    BY <1>5, <1>6
  <2> QED BY ONLY <1>1, <1>3, <2>1, LatestStep
<1>9. LatestIs(Named(q, <<"Transfer-Encoding">>, j + 1), Texts(q), r.coding, y.coding)
  <2>1. IF j + 1 \in Named(q, <<"Transfer-Encoding">>, j + 1) THEN y.coding = Texts(q)[j + 1] ELSE y.coding = x.coding
    BY <1>5, <1>6
  <2> QED BY ONLY <1>1, <1>3, <2>1, LatestStep
<1> QED BY <1>7, <1>8, <1>9 DEF FieldsSet

LEMMA NextRead ==
  ASSUME NEW q, NEW r, Holding(q, r), NEW j \in 0..Len(q.fields) - 1,
         NEW x \in ReadStates(r, Len(Heading(q))), After(q, r, x, j)
  PROVE  After(q, r, NextLine(x, j + 2, Len(Heading(q))), j + 1)
<1> DEFINE end == Len(Heading(q))
           y == NextLine(x, j + 2, end)
           i == j + 1
           f == q.fields[i]
           F == Faults(q)
<1>1. /\ q \in Requests /\ r \in RequestObject /\ r.buffer \in Seq(Word)
      /\ Len(r.buffer) >= Len(Heading(q))
      /\ \A k \in 1..Len(r.buffer) : k <= Len(Heading(q)) => r.buffer[k] = Heading(q)[k]
      /\ end \in Nat
  BY HoldingParts
<1>2. q.fields \in Seq(FieldLines) /\ Len(q.fields) \in Nat /\ DOMAIN q.fields = 1..Len(q.fields)
  BY <1>1, RequestParts
<1>3. j \in Nat /\ i \in 1..Len(q.fields) /\ j + 2 \in 1..Len(Header(q)) /\ j + 2 > 1 /\ Len(Header(q)) = Len(q.fields) + 1
  BY <1>1, <1>2, HeaderType
<1>4. f \in FieldLines
  BY <1>2, <1>3, ElementOfSeq
<1>5. Header(q)[j + 2] = Line(f)
  <2>1. Header(q)[i + 1] = Line(q.fields[i])
    BY ONLY <1>1, <1>3, HeaderType
  <2>2. i + 1 = j + 2
    BY <1>3
  <2> QED BY <2>1, <2>2
<1>6. x.req \in RequestObject /\ Untouched(x.req, r) /\ x.req.buffer = r.buffer
  BY DEF ReadStates, Untouched
<1>7. y = IF x.error # OK \/ x.next >= end THEN x ELSE ReadLine(x, j + 2)
  BY <1>3 DEF NextLine
<1>8. F \subseteq 1..Len(q.fields) /\ \A m \in F : m \in Nat
  BY <1>2 DEF Faults
<1>9. i \in F <=> FieldVerdict(f) # OK
  BY <1>2, <1>3 DEF Faults
<1>10. /\ FieldsSet(q, r, x.req, j)
       /\ x.error = OK => /\ LineVerdict(q) = OK /\ \A m \in F : j < m
                          /\ x.next = LineEnd(q, i) + 1
                          /\ x.req.method = q.verb /\ x.req.path = q.target
       /\ x.error # OK => Refused(q, j, x.error)
  BY DEF After
<1> HIDE DEF y
<1>11. CASE x.error # OK
  <2>1. y = x
    BY <1>7, <1>11
  <2>2. Refused(q, j, x.error)
    BY <1>10, <1>11
  <2>3. Refused(q, i, x.error)
    BY <1>3, <1>8, <2>2 DEF Refused
  <2>4. \A name : j + 1 \notin Named(q, name, j + 1)
    BY <1>3, <1>8, <2>2 DEF Refused, Named
  <2>5. FieldsSet(q, r, y.req, j + 1)
    BY <1>3, <1>10, <2>1, <2>4, FieldsSetStep
  <2> QED BY <1>11, <2>1, <2>3, <2>5 DEF After, y
<1>12. CASE x.error = OK
  <2> DEFINE n == LineEnd(q, i) + 1
             e == Find(r.buffer, <<CRLF>>, n)
             line == SubSeq(r.buffer, n, e - 1)
  <2>1. x.next = n
    BY <1>10, <1>12
  <2>2. LineIn(q, j + 2)
    BY <1>1, <1>3, LinesIn
  <2>3. (j + 2) - 1 = i
    BY <1>3
  <2>4. ~(n >= end)
    BY <1>1, <2>2, <2>3 DEF LineIn
  <2>5. y = ReadLine(x, j + 2)
    BY <1>7, <1>12, <2>1, <2>4
  <2>6. n = LineEnd(q, (j + 2) - 1) + 1
    BY <2>3
  <2>7. e = LineEnd(q, j + 2) /\ SubSeq(r.buffer, n, LineEnd(q, j + 2) - 1) = Header(q)[j + 2]
    <3> DEFINE k == j + 2
    <3>1. k \in 1..Len(Header(q)) /\ n = LineEnd(q, k - 1) + 1
      BY <1>3, <2>6
    <3> HIDE DEF k, n
    <3>2. Find(r.buffer, <<CRLF>>, n) = LineEnd(q, k) /\ SubSeq(r.buffer, n, LineEnd(q, k) - 1) = Header(q)[k]
      BY ONLY <1>1, <3>1, LineFound, ZenonT(30)
    <3> QED BY <3>2 DEF k
  <2>8. line = Line(f)
    BY <1>5, <2>7
  <2>9. y = IF FieldLineError(line) # OK THEN [x EXCEPT !.error = FieldLineError(line)]
            ELSE [error |-> OK, next |-> e + 1, req |-> SetFieldLine(x.req, line)]
    BY <1>3, <1>6, <2>1, <2>5 DEF ReadLine
  <2>10. FieldLineError(line) = FieldVerdict(f)
    BY <1>4, <2>8, FieldLineVerdict
  <2>11. LineVerdict(q) = OK /\ \A m \in F : j < m
    BY <1>10, <1>12
  <2>12. x = [error |-> x.error, next |-> x.next, req |-> x.req]
    BY DEF ReadStates
  <2> HIDE DEF e, line, n
  <2>13. CASE FieldVerdict(f) # OK
    <3>1. y.error = FieldVerdict(f) /\ y.req = x.req
      BY <2>9, <2>10, <2>12, <2>13
    <3>2. i \in F
      BY <1>9, <2>13
    <3>3. \A m \in F : i <= m
      BY <1>3, <1>8, <2>11
    <3>4. Refused(q, i, y.error)
      BY <1>3, <2>11, <3>1, <3>2, <3>3 DEF Refused
    <3>5. \A name : j + 1 \notin Named(q, name, j + 1)
      BY <1>3, <3>2 DEF Named
    <3>6. FieldsSet(q, r, y.req, j + 1)
      BY <1>3, <1>10, <3>1, <3>5, FieldsSetStep
    <3> QED BY <2>13, <3>1, <3>4, <3>6 DEF After, y
  <2>14. CASE FieldVerdict(f) = OK
    <3> DEFINE z == SetFieldLine(x.req, Line(f))
    <3>1. y.error = OK /\ y.req = z /\ y.next = LineEnd(q, j + 2) + 1
      BY <2>7, <2>8, <2>9, <2>10, <2>14
    <3>2. /\ z.host = IF f.name = <<"Host">> THEN Before(f.value, ":") ELSE x.req.host
          /\ z.length = IF f.name = <<"Content-Length">> THEN f.value ELSE x.req.length
          /\ z.coding = IF f.name = <<"Transfer-Encoding">> THEN f.value ELSE x.req.coding
          /\ z.method = x.req.method /\ z.path = x.req.path
      BY <1>4, <1>6, <2>14, FieldIs
    <3>3. \A m \in F : i < m
      <4>1. i \notin F
        BY <1>9, <2>14
      <4> QED BY <1>3, <1>8, <2>11, <4>1
    <3>4. \A name : j + 1 \in Named(q, name, j + 1) <=> name = q.fields[j + 1].name
      BY <1>3, <2>11, <3>3 DEF Named
    <3> HIDE DEF z
    <3>5. FieldsSet(q, r, z, j + 1)
      BY ONLY <1>1, <1>10, <3>2, <3>4, FieldsSetRead, j \in 0..Len(q.fields) - 1 DEF f, i
    <3>6. y.req.method = q.verb /\ y.req.path = q.target
      BY <1>10, <1>12, <3>1, <3>2
    <3>7. y.next = LineEnd(q, (j + 1) + 1) + 1
      <4>1. (j + 1) + 1 = j + 2
        BY <1>3
      <4> QED BY <3>1, <4>1
    <3>8. FieldsSet(q, r, y.req, j + 1)
      BY <3>1, <3>5
    <3> QED BY <2>11, <3>1, <3>3, <3>6, <3>7, <3>8 DEF After, y, F
  <2> QED BY <2>13, <2>14
<1> QED BY <1>11, <1>12

\* There are more words than lines.
LEMMA LinesLong ==
  ASSUME NEW q \in Requests
  PROVE  Len(Heading(q)) >= Len(Header(q))
<1> DEFINE n == Len(Header(q))
           P(k) == LineEnd(q, k)
           T == {k \in 0..n : P(k) \in Nat /\ P(k) >= k}
<1>1. /\ \A k \in 1..n : LineIn(q, k)
      /\ P(0) = 0 /\ P(n) = Len(Heading(q)) /\ n \in Nat /\ n > 0
  BY LinesIn
<1>2. ASSUME NEW k \in 1..n
      PROVE  P(k - 1) \in Nat /\ P(k) \in Nat /\ P(k) > P(k - 1) + 1
  BY <1>1 DEF LineIn
<1> HIDE DEF P, n
<1>3. ASSUME NEW k \in 0..n - 1, k \in T
      PROVE  k + 1 \in T
  <2> DEFINE c == k + 1
  <2>1. c \in 1..n /\ c - 1 = k /\ c \in 0..n
    BY <1>1
  <2> HIDE DEF c
  <2>2. P(c) \in Nat /\ P(c) > P(k) + 1
    BY <1>2, <2>1
  <2>3. P(k) \in Nat /\ P(k) >= k
    BY <1>3
  <2>4. P(c) >= c
    BY <2>1, <2>2, <2>3
  <2> QED BY <2>1, <2>2, <2>4 DEF c
<1>4. 0 \in T
  BY <1>1
<1>5. 0..n \subseteq T
  <2> HIDE DEF T
  <2> QED BY ONLY <1>1, <1>3, <1>4, Climb
<1>6. n \in T
  <2> HIDE DEF T
  <2> QED BY ONLY <1>1, <1>5
<1> QED BY <1>1, <1>6 DEF n

\* When parsingHeader's loop is done.
LEMMA ReadAll ==
  ASSUME NEW q, NEW r, Holding(q, r)
  PROVE  After(q, r, Reading(r, Len(Heading(q)))[Len(Heading(q))], Len(q.fields))
<1> DEFINE end == Len(Heading(q))
           R == Reading(r, end)
           m == Len(q.fields)
           T == {n \in 0..end : n > 0 => After(q, r, R[n], IF n <= m THEN n - 1 ELSE m)}
<1>1. /\ q \in Requests /\ r \in RequestObject /\ end \in Nat /\ end > 0 /\ Len(r.buffer) >= end
      /\ Len(r.buffer) \in Nat /\ r.buffer[end] = CRLF
  BY HoldingParts
<1>2. end \in 1..Len(r.buffer)
  BY <1>1
<1>3. /\ R[0] = Started(r)
      /\ \A n \in 1..end : R[n] = NextLine(R[n - 1], n, end)
      /\ \A n \in 0..end : R[n] \in ReadStates(r, end)
  <2> HIDE DEF end
  <2> QED BY ONLY <1>1, <1>2, ReadingIs
<1>4. m \in Nat /\ Len(Header(q)) = m + 1
  BY <1>1, HeaderType
<1> HIDE DEF R
<1>5. ASSUME NEW k \in 0..end - 1, k \in T
      PROVE  k + 1 \in T
  <2> DEFINE n == k + 1
  <2>1. n \in 1..end /\ n - 1 = k /\ n \in 0..end /\ k \in 0..end /\ n > 0
    BY <1>1
  <2>2. R[n] = NextLine(R[k], n, end) /\ R[k] \in ReadStates(r, end)
    <3> HIDE DEF n
    <3> QED BY <1>3, <2>1
  <2>3. CASE k = 0
    <3>1. R[n] = ReadLine(Started(r), 1)
      BY <1>3, <2>2, <2>3 DEF NextLine
    <3>2. After(q, r, R[n], 0)
      BY <3>1, FirstRead
    <3>3. (IF n <= m THEN n - 1 ELSE m) = 0
      BY <1>4, <2>3
    <3> QED BY <2>1, <3>2, <3>3
  <2>4. CASE k > 0 /\ k <= m
    <3> DEFINE j == k - 1
    <3>1. j \in 0..m - 1 /\ j + 2 = n /\ j + 1 = k
      BY <1>4, <2>1, <2>4
    <3>2. After(q, r, R[k], j)
      BY <1>5, <2>4
    <3>3. (IF n <= m THEN n - 1 ELSE m) = j + 1
      BY <1>4, <2>1, <2>4
    <3> HIDE DEF j, n
    <3>4. After(q, r, NextLine(R[k], j + 2, end), j + 1)
      BY <2>2, <3>1, <3>2, NextRead
    <3> QED BY <2>1, <2>2, <3>1, <3>3, <3>4 DEF n
  <2>5. CASE k > m /\ k > 0
    <3>1. After(q, r, R[k], m)
      BY <1>4, <1>5, <2>5
    <3>2. (IF n <= m THEN n - 1 ELSE m) = m
      BY <1>4, <2>1, <2>5
    <3>3. R[k].error = OK => R[k].next = LineEnd(q, m + 1) + 1
      BY <3>1 DEF After
    <3>4. LineEnd(q, m + 1) = end
      BY <1>1, <1>4, LinesIn
    <3>5. R[k].error # OK \/ R[k].next >= end
      BY <1>1, <3>3, <3>4
    <3>6. n > 1
      BY <2>1, <2>5
    <3>7. R[n] = R[k]
      BY <2>2, <3>5, <3>6 DEF NextLine
    <3> QED BY <2>1, <3>1, <3>2, <3>7
  <2> QED BY <1>1, <1>4, <2>1, <2>3, <2>4, <2>5
<1>6. 0 \in T
  BY <1>1
<1>7. 0..end \subseteq T
  <2> HIDE DEF T, end
  <2> QED BY ONLY <1>1, <1>5, <1>6, Climb
<1>8. end \in T
  <2> HIDE DEF T
  <2> QED BY ONLY <1>1, <1>7
<1>9. end > m
  BY <1>1, <1>4, LinesLong
<1> QED BY <1>1, <1>4, <1>8, <1>9 DEF R

\* v is the default, or what the last field called name gives.
LastOf(q, name, g, d, v) ==
  \/ DOMAIN Values(q, name) = {} /\ v = d /\ LastValue(q, name, d) = d
  \/ /\ DOMAIN Values(q, name) # {}
     /\ \E i \in DOMAIN q.fields : v = g[i] /\ LastValue(q, name, d) = q.fields[i].value

LEMMA LastIs ==
  ASSUME NEW q \in Requests, NEW name, NEW d, NEW g, NEW v,
         LatestIs(Named(q, name, Len(q.fields)), g, d, v)
  PROVE  LastOf(q, name, g, d, v)
<1> DEFINE S == Named(q, name, Len(q.fields))
<1>1. q.fields \in Seq(FieldLines) /\ Len(q.fields) \in Nat /\ DOMAIN q.fields = 1..Len(q.fields)
  BY RequestParts
<1>2. S = {i \in DOMAIN q.fields :
             LineVerdict(q) = OK /\ (\A j \in Faults(q) : i < j) /\ q.fields[i].name = name}
  BY <1>1 DEF Named
<1>3. Values(q, name) = [i \in S |-> q.fields[i].value]
  BY <1>2 DEF Values
<1>4. S \in SUBSET DOMAIN q.fields /\ DOMAIN Values(q, name) = S
  BY <1>2, <1>3
<1>5. \A e : LastValue(q, name, e) = IF S = {} THEN e ELSE Values(q, name)[Max(S)]
  BY <1>4 DEF LastValue
<1>6. LatestIs(S, g, d, v)
  OBVIOUS
<1> HIDE DEF S
<1>7. CASE S = {} /\ v = d
  BY <1>4, <1>5, <1>7 DEF LastOf
<1>8. ASSUME NEW i \in S, v = g[i], \A m \in S : m <= i
      PROVE  /\ S # {}
             /\ i \in DOMAIN q.fields
             /\ LastValue(q, name, d) = q.fields[i].value
  <2>1. S \in SUBSET Nat
    BY <1>1, <1>4
  <2>2. Max(S) = i
    <3>1. \A x \in S : (\A y \in S : x >= y) <=> x = i
      BY <1>8, <2>1
    <3> QED BY <1>8, <3>1 DEF Max
  <2>3. Values(q, name)[i] = q.fields[i].value
    BY <1>3
  <2> QED BY <1>4, <1>5, <2>2, <2>3
<1> QED BY <1>4, <1>6, <1>7, <1>8 DEF LatestIs, LastOf

\* What parsingHeader makes of the header of q: what the reference says.
ParsedFrom(q, r, p) ==
  /\ p.error = HeaderVerdict(q) /\ p.req \in RequestObject /\ p.req.buffer = r.buffer
  /\ p.req.server = r.server /\ p.req.location = r.location /\ p.req.file = r.file
  /\ p.req.host = HostOf(q, r.host)
  /\ p.error = OK =>
       /\ p.req.method = q.verb /\ p.req.path = q.target
       /\ p.req.length = LastValue(q, <<"Content-Length">>, r.length)
       /\ p.req.coding = LastValue(q, <<"Transfer-Encoding">>, r.coding)
       /\ p.req.start = Len(Heading(q)) + 1 /\ p.req.state = "CREATE"

LEMMA ReadVerdict ==
  ASSUME NEW q \in Requests, NEW r, NEW x, After(q, r, x, Len(q.fields))
  PROVE  /\ x.error = HeaderVerdict(q)
         /\ x.error = OK => x.req.method = q.verb /\ x.req.path = q.target
<1> DEFINE F == Faults(q)
<1>1. q.fields \in Seq(FieldLines) /\ Len(q.fields) \in Nat /\ DOMAIN q.fields = 1..Len(q.fields)
  BY RequestParts
<1>2. F \in SUBSET DOMAIN q.fields /\ F \in SUBSET Nat /\ \A i \in F : FieldVerdict(q.fields[i]) # OK
  BY <1>1 DEF Faults
<1>3. CASE x.error = OK
  <2>1. LineVerdict(q) = OK /\ (\A m \in F : Len(q.fields) < m) /\ x.req.method = q.verb /\ x.req.path = q.target
    BY <1>3 DEF After
  <2>2. F = {}
    BY <1>1, <1>2, <2>1
  <2> HIDE DEF F
  <2>3. HeaderVerdict(q) = OK
    BY <2>1, <2>2 DEF HeaderVerdict, F
  <2> QED BY <1>3, <2>1, <2>3
<1>4. CASE x.error # OK
  <2>1. Refused(q, Len(q.fields), x.error)
    BY <1>4 DEF After
  <2>2. CASE LineVerdict(q) # OK /\ x.error = LineVerdict(q)
    BY <2>2, <1>4 DEF HeaderVerdict
  <2>3. ASSUME LineVerdict(q) = OK, NEW i \in F, \A m \in F : i <= m, x.error = FieldVerdict(q.fields[i])
        PROVE  x.error = HeaderVerdict(q)
    <3>1. Min(F) = i
      <4> HIDE DEF F
      <4>1. Min(F) \in F /\ \A n \in F : Min(F) <= n
        BY <1>2, <2>3, MinIs
      <4> QED BY <1>2, <2>3, <4>1
    <3>2. F # {}
      BY <2>3
    <3> HIDE DEF F
    <3>3. HeaderVerdict(q) = FieldVerdict(q.fields[Min(F)])
      BY <2>3, <3>2 DEF HeaderVerdict, F
    <3> QED BY <2>3, <3>1, <3>3
  <2> QED BY <1>4, <2>1, <2>2, <2>3 DEF Refused
<1> QED BY <1>3, <1>4

LEMMA ReadFields ==
  ASSUME NEW q \in Requests, NEW r, NEW x, FieldsSet(q, r, x, Len(q.fields))
  PROVE  /\ x.host = HostOf(q, r.host)
         /\ x.length = LastValue(q, <<"Content-Length">>, r.length)
         /\ x.coding = LastValue(q, <<"Transfer-Encoding">>, r.coding)
<1> DEFINE n == Len(q.fields)
<1>1. /\ LatestIs(Named(q, <<"Host">>, n), HostTexts(q), r.host, x.host)
      /\ LatestIs(Named(q, <<"Content-Length">>, n), Texts(q), r.length, x.length)
      /\ LatestIs(Named(q, <<"Transfer-Encoding">>, n), Texts(q), r.coding, x.coding)
  BY DEF FieldsSet
<1>2. \A i \in DOMAIN q.fields : Texts(q)[i] = q.fields[i].value /\ HostTexts(q)[i] = Before(q.fields[i].value, ":")
  BY DEF Texts, HostTexts
<1>3. ASSUME NEW name, NEW d, NEW v, LatestIs(Named(q, name, n), Texts(q), d, v)
      PROVE  v = LastValue(q, name, d)
  <2> DEFINE g == Texts(q)
  <2>1. LatestIs(Named(q, name, Len(q.fields)), g, d, v)
    BY <1>3
  <2>2. \A i \in DOMAIN q.fields : g[i] = q.fields[i].value
    BY <1>2
  <2> HIDE DEF g
  <2>3. LastOf(q, name, g, d, v)
    BY ONLY <2>1, q \in Requests, LastIs
  <2> QED BY ONLY <2>2, <2>3 DEF LastOf
<1>4. x.host = HostOf(q, r.host)
  <2> DEFINE name == <<"Host">>
  <2>1. \/ DOMAIN Values(q, name) = {} /\ x.host = r.host
        \/ /\ DOMAIN Values(q, name) # {}
           /\ \E i \in DOMAIN q.fields :
                x.host = HostTexts(q)[i] /\ LastValue(q, name, r.host) = q.fields[i].value
    <3> DEFINE g == HostTexts(q)
               d == r.host
               v == x.host
    <3> HIDE DEF name
    <3>1. LatestIs(Named(q, name, Len(q.fields)), g, d, v)
      BY <1>1 DEF name
    <3> HIDE DEF g, d, v
    <3>2. LastOf(q, name, g, d, v)
      BY ONLY <3>1, q \in Requests, LastIs
    <3> QED BY <3>2 DEF LastOf, g, d, v
  <2>2. CASE DOMAIN Values(q, name) = {} /\ x.host = r.host
    BY <2>2 DEF HostOf
  <2>3. CASE /\ DOMAIN Values(q, name) # {}
             /\ \E i \in DOMAIN q.fields :
                  x.host = HostTexts(q)[i] /\ LastValue(q, name, r.host) = q.fields[i].value
    <3>1. x.host = Before(LastValue(q, name, r.host), ":")
      BY <1>2, <2>3
    <3> QED BY <2>3, <3>1 DEF HostOf
  <2> QED BY <2>1, <2>2, <2>3
<1> QED BY <1>1, <1>3, <1>4

LEMMA ParsedAs ==
  ASSUME NEW q, NEW r, Holding(q, r)
  PROVE  ParsedFrom(q, r, ParsingHeader(r))
<1> DEFINE end == Len(Heading(q))
           x == Reading(r, end)[end]
           p == ParsingHeader(r)
<1>1. /\ q \in Requests /\ r \in RequestObject /\ HeaderEnd(r.buffer) = end /\ end \in Nat /\ end > 0
      /\ end \in 1..Len(r.buffer) /\ r.buffer[end] = CRLF
  BY HoldingParts
<1>2. After(q, r, x, Len(q.fields))
  BY ReadAll
<1>3. x \in ReadStates(r, end)
  <2> HIDE DEF end
  <2>1. \A n \in 0..end : Reading(r, end)[n] \in ReadStates(r, end)
    BY ONLY <1>1, ReadingIs
  <2> QED BY <1>1, <2>1
<1>4. /\ p.error = x.error
      /\ p.req = IF x.error # OK THEN x.req ELSE [x.req EXCEPT !.start = end + 1, !.state = "CREATE"]
  BY <1>1 DEF ParsingHeader
<1> HIDE DEF x, end
<1>5. x.req \in RequestObject /\ Untouched(x.req, r)
  BY <1>3 DEF ReadStates
<1>6. FieldsSet(q, r, x.req, Len(q.fields))
  BY <1>2 DEF After
<1>7. /\ x.req.host = HostOf(q, r.host)
      /\ x.req.length = LastValue(q, <<"Content-Length">>, r.length)
      /\ x.req.coding = LastValue(q, <<"Transfer-Encoding">>, r.coding)
  BY <1>1, <1>6, ReadFields
<1>8. /\ x.error = HeaderVerdict(q)
      /\ x.error = OK => x.req.method = q.verb /\ x.req.path = q.target
  BY <1>1, <1>2, ReadVerdict
<1>9. p.req \in RequestObject
  BY <1>1, ParsedType
<1> HIDE DEF p
<1>10. CASE x.error # OK
  <2>1. p.req = x.req
    BY <1>4, <1>10
  <2> QED BY <1>4, <1>5, <1>7, <1>8, <1>9, <1>10, <2>1 DEF ParsedFrom, Untouched, p
<1>11. CASE x.error = OK
  <2> DEFINE y == x.req
  <2>1. p.req = [y EXCEPT !.start = end + 1, !.state = "CREATE"]
    BY <1>4, <1>11
  <2>2. y = [state |-> y.state, buffer |-> y.buffer, start |-> y.start, method |-> y.method,
             path |-> y.path, length |-> y.length, coding |-> y.coding, host |-> y.host,
             server |-> y.server, location |-> y.location, file |-> y.file]
    BY <1>5, ObjectParts
  <2>3. /\ p.req.start = end + 1 /\ p.req.state = "CREATE" /\ p.req.buffer = y.buffer
        /\ p.req.method = y.method /\ p.req.path = y.path /\ p.req.length = y.length
        /\ p.req.coding = y.coding /\ p.req.host = y.host /\ p.req.server = y.server
        /\ p.req.location = y.location /\ p.req.file = y.file
    <3> HIDE DEF y
    <3> QED BY <2>1, <2>2
  <2>4. y.buffer = r.buffer /\ y.server = r.server /\ y.location = r.location /\ y.file = r.file
    BY <1>5 DEF Untouched
  <2> QED BY <1>4, <1>7, <1>8, <1>9, <1>11, <2>3, <2>4 DEF ParsedFrom, p, end
<1> QED BY <1>10, <1>11

-----------------------------------------------------------------------------
(* The server, the location and the file, against the reference. *)

LEMMA Greatest ==
  ASSUME NEW n \in Nat, NEW S \in SUBSET (1..n), S # {}
  PROVE  Max(S) \in S /\ \A i \in S : i <= Max(S)
<1> DEFINE D == {n - i : i \in S}
<1>1. D \in SUBSET Nat /\ D # {}
  <2>1. \A i \in S : n - i \in Nat
    OBVIOUS
  <2>2. PICK i \in S : TRUE
    OBVIOUS
  <2>3. n - i \in D
    BY <2>2
  <2> QED BY <2>1, <2>3
<1>2. PICK d \in D : \A e \in D : d <= e
  <2> HIDE DEF D
  <2> QED BY <1>1, Least
<1>3. PICK i \in S : d = n - i
  BY <1>2
<1>4. \A j \in S : i >= j
  BY <1>2, <1>3
<1>5. \E x \in S : \A y \in S : x >= y
  BY <1>4
<1>6. Max(S) \in S /\ \A y \in S : Max(S) >= y
  BY <1>5 DEF Max
<1> QED BY <1>6

LEMMA HostType ==
  ASSUME NEW q \in Requests, NEW h \in Seq(Word)
  PROVE  HostOf(q, h) \in Seq(Word)
<1> DEFINE name == <<"Host">>
           read == {i \in DOMAIN q.fields :
                      LineVerdict(q) = OK /\ (\A j \in Faults(q) : i < j) /\ q.fields[i].name = name}
<1>1. q.fields \in Seq(FieldLines) /\ DOMAIN q.fields \in SUBSET Nat
  BY RequestParts
<1>2. Values(q, name) = [i \in read |-> q.fields[i].value]
  BY DEF Values
<1>3. CASE read = {}
  <2>1. DOMAIN Values(q, name) = {}
    BY <1>2, <1>3
  <2> QED BY <2>1 DEF HostOf
<1>4. CASE read # {}
  <2>1. read \in SUBSET DOMAIN q.fields /\ DOMAIN Values(q, name) = read
    BY <1>2
  <2>2. Max(read) \in read
    <3>1. \A i \in read : i \in 1..Len(q.fields)
      BY <1>1
    <3>2. Len(q.fields) \in Nat
      BY <1>1
    <3> HIDE DEF read
    <3> QED BY <1>4, <3>1, <3>2, Greatest
  <2> HIDE DEF read, name
  <2> DEFINE v == LastValue(q, name, h)
  <2>3. v = q.fields[Max(read)].value
    BY <1>2, <1>4, <2>1, <2>2 DEF LastValue
  <2>4. v \in Seq(Word)
    <3>1. q.fields[Max(read)] \in FieldLines
      BY <1>1, <2>1, <2>2, ElementOfSeq
    <3> QED BY <2>3, <3>1, FieldParts
  <2>5. HostOf(q, h) = Before(v, ":")
    BY <1>4, <2>1 DEF HostOf, name
  <2> HIDE DEF v
  <2> QED BY <2>4, <2>5, BeforeType
<1> QED BY <1>3, <1>4

\* The recursive function in HostInForce.
LEMMA HostsInForce ==
  ASSUME talk \in Seq(Requests)
  PROVE  /\ HostInForce(0) = <<>>
         /\ \A k \in 0..Len(talk) - 1 : HostInForce(k + 1) = HostOf(talk[k + 1], HostInForce(k))
<1> DEFINE n == Len(talk)
           X == Seq(Word)
           G == [p \in (1..n) \X X |-> HostOf(talk[p[1]], p[2])]
           Is(f) == f = [i \in 0..Len(talk) |-> IF i = 0 THEN <<>> ELSE HostOf(talk[i], f[i - 1])]
<1>1. n \in Nat /\ <<>> \in X
  OBVIOUS
<1>2. ASSUME NEW i \in 1..n, NEW y \in X
      PROVE  G[<<i, y>>] = HostOf(talk[i], y) /\ HostOf(talk[i], y) \in X
  <2>1. talk[i] \in Requests
    BY ElementOfSeq
  <2>2. HostOf(talk[i], y) \in X
    BY <2>1, HostType
  <2> QED BY <2>2
<1>3. Iterated(X, n, <<>>, G)
  <2> HIDE DEF n, X, G
  <2> QED BY <1>1, <1>2, Iteration
<1>4. PICK f \in [0..n -> X] : f[0] = <<>> /\ \A i \in 1..n : f[i] = G[<<i, f[i - 1]>>]
  BY <1>3 DEF Iterated
<1>5. \A i \in 1..n : f[i] = HostOf(talk[i], f[i - 1])
  <2> SUFFICES ASSUME NEW i \in 1..n
               PROVE  f[i] = HostOf(talk[i], f[i - 1])
    OBVIOUS
  <2>1. f[i - 1] \in X
    BY <1>1
  <2> HIDE DEF G, X, n
  <2> QED BY <1>2, <1>4, <2>1
<1>6. Is(f)
  <2> HIDE DEF G
  <2> QED BY <1>1, <1>4, <1>5
<1>7. Is(CHOOSE g : Is(g))
  <2> HIDE DEF Is
  <2> QED BY <1>6
<1> DEFINE g == CHOOSE g : Is(g)
<1>8. g[0] = <<>> /\ \A i \in 1..n : g[i] = HostOf(talk[i], g[i - 1])
  <2>1. Is(g)
    BY <1>7
  <2> HIDE DEF g
  <2> QED BY <1>1, <2>1
<1>9. \A k : HostInForce(k) = g[k]
  BY DEF HostInForce
<1> HIDE DEF g
<1>10. ASSUME NEW k \in 0..n - 1
       PROVE  g[k + 1] = HostOf(talk[k + 1], g[k])
  <2>1. k + 1 \in 1..n /\ (k + 1) - 1 = k
    BY <1>1
  <2> QED BY <1>8, <2>1
<1> QED BY <1>8, <1>9, <1>10

LEMMA ServerWanted ==
  ASSUME port \in DOMAIN Servers, NEW r, NEW k, r.host = HostInForce(k)
  PROVE  FindServer(r) = WantedServer(k)
<1> DEFINE s == Servers[port]
           I == {i \in 1..Len(s) : r.host \in s[i].names}
           W == {i \in DOMAIN Servers[port] : HostInForce(k) \in Servers[port][i].names}
<1>1. s \in Seq([names : SUBSET Seq(Word), root : Seq(Word), locations : Seq(Locations)])
  BY ServersKnown
<1>2. DOMAIN s = 1..Len(s)
  BY <1>1
<1>3. I = W
  BY <1>2
<1>4. SelectInSeq(s, LAMBDA x : r.host \in x.names) = IF I # {} THEN Min(I) ELSE 0
  BY DEF SelectInSeq
<1>5. Min(I) \in I \/ I = {}
  <2>1. I \in SUBSET Nat
    OBVIOUS
  <2> QED BY <2>1, MinIs
<1>6. 0 \notin I
  BY <1>1
<1>7. FindServer(r) = IF I = {} THEN 1 ELSE Min(I)
  <2> HIDE DEF I
  <2> QED BY <1>4, <1>5, <1>6 DEF FindServer, s
<1> HIDE DEF I
<1> QED BY <1>3, <1>7 DEF WantedServer

LEMMA LocationWanted ==
  ASSUME port \in DOMAIN Servers, NEW r \in RequestObject, NEW k,
         r.host = HostInForce(k), r.path = talk[k].target
  PROVE  /\ Found(r) = NoLocation <=> Matching(k) = {}
         /\ Matching(k) # {} => Found(r) = WantedLocation(k)
<1> DEFINE ls == Servers[port][FindServer(r)].locations
           x == Found(r)
           M == Matching(k)
<1>1. ls \in Seq(Locations) /\ x \in Locations /\ Chosen(x, Len(ls), ls, r.path)
  BY FoundIs
<1>2. FindServer(r) = WantedServer(k)
  BY ServerWanted
<1>3. r.path \in Seq(Word)
  BY ObjectParts
<1>4. FindServer(r) \in DOMAIN Servers[port]
  BY ServerFound
<1>5. \A i, j \in DOMAIN ls : ls[i].path = ls[j].path => i = j
  BY <1>4, ServerParts
<1>6. M = {l \in ToSet(ls) : l.path # <<>> /\ IsPrefix(l.path, r.path)}
  BY <1>2 DEF Matching
<1>7. Len(ls) \in Nat /\ DOMAIN ls = 1..Len(ls) /\ \A j \in 1..Len(ls) : ls[j] \in Locations
  <2> HIDE DEF ls
  <2> QED BY <1>1
<1>8. \A j \in 1..Len(ls) : ls[j].path \in Seq(Word) /\ Len(ls[j].path) \in Nat
  BY <1>7, LocationParts
<1>9. x.path \in Seq(Word) /\ Len(x.path) \in Nat
  BY <1>1, LocationParts
<1> HIDE DEF ls, x, M
<1>10. \A l : l \in M <=> \E j \in 1..Len(ls) : l = ls[j] /\ l.path # <<>> /\ IsPrefix(l.path, r.path)
  BY <1>6, <1>7 DEF ToSet
<1>11. CASE /\ x = NoLocation
            /\ \A j \in 1..Len(ls) : IsPrefix(ls[j].path, r.path) => Len(ls[j].path) = 0
  <2>1. M = {}
    <3> SUFFICES ASSUME NEW l \in M
                 PROVE  FALSE
      OBVIOUS
    <3>1. PICK j \in 1..Len(ls) : l = ls[j] /\ l.path # <<>> /\ IsPrefix(l.path, r.path)
      BY <1>10
    <3>2. Len(ls[j].path) = 0 /\ ls[j].path \in Seq(Word)
      BY <1>8, <1>11, <3>1
    <3> QED BY <3>1, <3>2, EmptySeq
  <2> QED BY <1>11, <2>1 DEF M, x
<1>12. CASE /\ \E j \in 1..Len(ls) : x = ls[j]
            /\ Len(x.path) > 0 /\ IsPrefix(x.path, r.path)
            /\ \A j \in 1..Len(ls) : IsPrefix(ls[j].path, r.path) => Len(ls[j].path) <= Len(x.path)
  <2>1. x \in M
    <3>1. x.path # <<>>
      BY <1>9, <1>12, EmptySeq
    <3> QED BY <1>10, <1>12, <3>1
  <2>2. x # NoLocation
    BY <1>9, <1>12, NoLocationIs
  <2>3. \A m \in M : Len(m.path) <= Len(x.path)
    BY <1>10, <1>12
  <2>4. ASSUME NEW l \in M, \A m \in M : Len(m.path) <= Len(l.path)
        PROVE  l = x
    <3>1. PICK j \in 1..Len(ls) : l = ls[j] /\ l.path # <<>> /\ IsPrefix(l.path, r.path)
      BY <1>10
    <3>2. PICK i \in 1..Len(ls) : x = ls[i]
      BY <1>12
    <3> DEFINE a == l.path  b == x.path
    <3>3. a \in Seq(Word) /\ b \in Seq(Word) /\ Len(a) = Len(b)
      BY <1>8, <1>9, <2>1, <2>3, <2>4, <3>1
    <3>4. IsPrefix(a, r.path) /\ IsPrefix(b, r.path)
      BY <1>12, <3>1
    <3> HIDE DEF a, b
    <3>5. a = b
      <4>1. (\A i_1 \in 1..Len(a) : r.path[i_1] = a[i_1]) /\ (\A i_1 \in 1..Len(b) : r.path[i_1] = b[i_1])
        BY <1>3, <3>3, <3>4, SameStart
      <4> QED BY <3>3, <4>1, SeqEqual
    <3> QED BY <1>5, <1>7, <3>1, <3>2, <3>5 DEF a, b
  <2>5. (CHOOSE l \in M : \A m \in M : Len(m.path) <= Len(l.path)) = x
    BY <2>1, <2>3, <2>4
  <2> QED BY <2>1, <2>2, <2>5 DEF WantedLocation, M, x
<1> QED BY <1>1, <1>11, <1>12 DEF Chosen

LEMMA PermittedIs ==
  ASSUME NEW l, NEW v
  PROVE  Allowed(l, v) <=> Permitted(l, v)
BY DEF Allowed, Permitted

\* A file without names comes of a root without names.
LEMMA OnlySlashes ==
  ASSUME NEW path \in Seq(Word), NEW l \in Locations, NEW root \in Seq(Word), IsPrefix(l.path, path),
         \A i \in 1..Len(Convert(path, l, root)) : Convert(path, l, root)[i] = "/"
  PROVE  ToSet(root) \subseteq {"/"}
<1> DEFINE rest == IF root # <<>> /\ Len(l.path) # 1 THEN SubSeq(path, Len(l.path) + 1, Len(path)) ELSE path
           full == root \o rest
           w == WithoutSlash(full)
<1>1. Convert(path, l, root) = w
  BY DEF Convert, WithoutSlash
<1>2. rest \in Seq(Word)
  <2>1. l.path \in Seq(Word) /\ Len(l.path) \in Nat
    BY LocationParts
  <2> QED BY <2>1
<1> HIDE DEF rest
<1>3. full \in Seq(Word) /\ Len(full) = Len(root) + Len(rest) /\ Len(root) \in Nat /\ Len(rest) \in Nat
      /\ \A i \in 1..Len(root) : full[i] = root[i]
  BY <1>2, Joined
<1> HIDE DEF full
<1>4. \/ w = full
      \/ /\ Len(full) > 0 /\ full[Len(full)] = "/" /\ Len(w) = Len(full) - 1
         /\ \A i \in 1..Len(full) - 1 : w[i] = full[i]
  BY <1>3, WithoutSlashIs
<1>5. \A i \in 1..Len(w) : w[i] = "/"
  BY <1>1
<1> HIDE DEF w
<1>6. \A i \in 1..Len(full) : full[i] = "/"
  <2> SUFFICES ASSUME NEW i \in 1..Len(full)
               PROVE  full[i] = "/"
    OBVIOUS
  <2>1. i = Len(full) \/ i \in 1..Len(full) - 1
    BY <1>3
  <2> QED BY <1>4, <1>5, <2>1
<1>7. \A i \in 1..Len(root) : root[i] = "/"
  BY <1>3, <1>6
<1> QED BY <1>7 DEF ToSet

-----------------------------------------------------------------------------
(* What a peer says, and where the connection is in it. *)

Renders == [i \in DOMAIN talk |-> Render(talk[i])]

\* All that a peer says, if it sends its whole talk.
Whole == FlattenSeq(Renders)

\* Where the k + 1-st request lies.
RequestIn(k) ==
  LET s == Render(talk[k + 1])
  IN  /\ s \in Seq(Word) /\ Len(s) \in Nat /\ Len(s) > 0
      /\ Volume(k + 1) = Volume(k) + Len(s)
      /\ \A i \in 1..Len(s) : Whole[Volume(k) + i] = s[i]

LEMMA Volumes ==
  ASSUME talk \in Seq(Requests)
  PROVE  /\ Volume(0) = 0 /\ \A k \in 0..Len(talk) : Volume(k) \in Nat
         /\ \A k \in 0..Len(talk) - 1 : talk[k + 1] \in Requests /\ RequestIn(k)
<1> DEFINE R == Renders
           n == Len(talk)
<1>1. n \in Nat /\ DOMAIN talk = 1..n /\ \A i \in 1..n : talk[i] \in Requests
  OBVIOUS
<1>2. \A i \in 1..n : Render(talk[i]) \in Seq(Word)
  BY <1>1, RenderType
<1>3. R \in Seq(Seq(Word)) /\ Len(R) = n /\ \A i \in 1..n : R[i] = Render(talk[i])
  BY <1>1, <1>2 DEF Renders
<1>4. ASSUME NEW k \in 0..n
      PROVE  Volume(k) = Len(UpTo(R, k)) /\ Volume(k) \in Nat
  <2> DEFINE x == [i \in 1..k |-> Render(talk[i])]
             y == SubSeq(R, 1, k)
  <2>1. y \in Seq(Seq(Word)) /\ Len(y) = k /\ \A i \in 1..k : y[i] = R[i]
    <3> HIDE DEF R
    <3>1. 0 + k <= Len(R) /\ k \in Nat
      BY <1>1, <1>3
    <3> DEFINE a == 0
    <3>2. a \in Nat /\ a + k <= Len(R) /\ a + 1 = 1 /\ a + k = k /\ \A i \in 1..k : a + i = i
      BY <3>1
    <3> HIDE DEF a
    <3>3. /\ SubSeq(R, a + 1, a + k) \in Seq(Seq(Word)) /\ Len(SubSeq(R, a + 1, a + k)) = k
          /\ \A i \in 1..k : SubSeq(R, a + 1, a + k)[i] = R[a + i]
      BY ONLY <1>3, <3>1, <3>2, Part
    <3> QED BY ONLY <3>2, <3>3
  <2>2. y = x
    <3>1. k \in Nat
      BY <1>1
    <3>2. y = [i \in 1..k |-> y[i]]
      BY ONLY <2>1, <3>1
    <3>3. \A i \in 1..k : y[i] = Render(talk[i])
      BY <1>1, <1>3, <2>1
    <3> HIDE DEF y
    <3> QED BY <3>2, <3>3
  <2>3. Volume(k) = Len(UpTo(R, k))
    BY <2>2 DEF Volume, UpTo
  <2>4. UpTo(R, k) \in Seq(Word)
    BY <1>3, UpToStep
  <2> QED BY <2>3, <2>4
<1>5. Volume(0) = 0
  <2>1. UpTo(R, 0) = <<>>
    BY <1>3, UpToStep
  <2> QED BY <1>1, <1>4, <2>1
<1>6. ASSUME NEW k \in 0..n - 1
      PROVE  talk[k + 1] \in Requests /\ RequestIn(k)
  <2> DEFINE s == Render(talk[k + 1])
  <2>1. k + 1 \in 1..n /\ k \in 0..n /\ k + 1 \in 0..n
    BY <1>1
  <2>2. talk[k + 1] \in Requests /\ s \in Seq(Word) /\ R[k + 1] = s
    BY <1>1, <1>2, <1>3, <2>1
  <2>3. Len(s) \in Nat /\ Len(s) > 0
    <3> DEFINE a == Len(Heading(talk[k + 1]))
               d == Len(talk[k + 1].body)
    <3>1. a \in Nat /\ d \in Nat /\ Len(s) = a + 1 + d
      BY <2>2, RenderParts
    <3> HIDE DEF a, d, s
    <3> QED BY ONLY <3>1
  <2> HIDE DEF R, s
  <2>4. /\ Len(UpTo(R, k + 1)) = Len(UpTo(R, k)) + Len(R[k + 1])
        /\ \A i \in 1..Len(R[k + 1]) : FlattenSeq(R)[Len(UpTo(R, k)) + i] = R[k + 1][i]
    BY <1>3, UpToPart
  <2>5. Volume(k) = Len(UpTo(R, k)) /\ Volume(k + 1) = Len(UpTo(R, k + 1))
    BY <1>4, <2>1
  <2>6. Volume(k + 1) = Volume(k) + Len(s) /\ \A i \in 1..Len(s) : Whole[Volume(k) + i] = s[i]
    BY <2>2, <2>4, <2>5 DEF Whole, R
  <2> QED BY <2>2, <2>3, <2>6 DEF RequestIn, s
<1> QED BY <1>4, <1>5, <1>6

\* The first c requests are done with; b of the next has arrived, and w is under way, of
\* the m that were sent.
Stream(c, b, w, m) ==
  /\ c \in 0..m
  /\ Volume(c) + Len(b) + Len(w) = Volume(m)
  /\ \A i \in 1..Len(b) : Whole[Volume(c) + i] = b[i]
  /\ \A i \in 1..Len(w) : Whole[Volume(c) + Len(b) + i] = w[i]

LEMMA StreamRequest ==
  ASSUME talk \in Seq(Requests), NEW m \in 0..Len(talk), NEW c, NEW b \in Seq(Word), NEW w \in Seq(Word),
         Stream(c, b, w, m), b # <<>>
  PROVE  c + 1 \in 1..m /\ talk[c + 1] \in Requests /\ Agree(b, Render(talk[c + 1]))
<1>1. /\ c \in 0..m /\ Volume(c) + Len(b) + Len(w) = Volume(m)
      /\ \A i \in 1..Len(b) : Whole[Volume(c) + i] = b[i]
  BY DEF Stream
<1>2. Len(talk) \in Nat /\ Len(b) \in Nat /\ Len(w) \in Nat /\ Len(b) > 0
  BY EmptySeq
<1>3. Volume(c) \in Nat /\ Volume(m) \in Nat
  <2>1. c \in 0..Len(talk)
    BY <1>1, <1>2
  <2> QED BY <2>1, Volumes
<1>4. c # m
  BY <1>1, <1>2, <1>3
<1>5. c \in 0..Len(talk) - 1 /\ c + 1 \in 1..m
  BY <1>1, <1>2, <1>4
<1>6. talk[c + 1] \in Requests /\ RequestIn(c)
  BY <1>5, Volumes
<1>7. Agree(b, Render(talk[c + 1]))
  <2> DEFINE s == Render(talk[c + 1])
  <2>1. Len(s) \in Nat /\ \A i \in 1..Len(s) : Whole[Volume(c) + i] = s[i]
    BY <1>6 DEF RequestIn
  <2> HIDE DEF s
  <2>2. ASSUME NEW i \in 1..Len(b), i <= Len(s)
        PROVE  b[i] = s[i]
    <3>1. i \in 1..Len(s)
      BY <1>2, <2>1, <2>2
    <3> QED BY <1>1, <2>1, <3>1
  <2> QED BY <2>2 DEF Agree, s
<1> QED BY <1>5, <1>6, <1>7

\* Bytes arrive.
LEMMA StreamFed ==
  ASSUME talk \in Seq(Requests), NEW m \in 0..Len(talk), NEW c, NEW b \in Seq(Word), NEW w \in Seq(Word),
         Stream(c, b, w, m), NEW x \in Seq(Word), NEW y \in Seq(Word), w = x \o y
  PROVE  Stream(c, b \o x, y, m)
<1> DEFINE v == Volume(c)
           B == b \o x
<1>1. /\ c \in 0..m /\ v + Len(b) + Len(w) = Volume(m)
      /\ \A i \in 1..Len(b) : Whole[v + i] = b[i]
      /\ \A i \in 1..Len(w) : Whole[v + Len(b) + i] = w[i]
  BY DEF Stream
<1>2. v \in Nat /\ Volume(m) \in Nat
  <2>1. c \in 0..Len(talk)
    BY <1>1
  <2> QED BY <2>1, Volumes
<1> HIDE DEF v, B
<1>3. /\ Len(w) = Len(x) + Len(y) /\ Len(x) \in Nat /\ Len(y) \in Nat
      /\ (\A i \in 1..Len(x) : w[i] = x[i]) /\ \A i \in 1..Len(y) : w[Len(x) + i] = y[i]
  BY Joined
<1>4. /\ Len(B) = Len(b) + Len(x) /\ Len(b) \in Nat
      /\ (\A i \in 1..Len(b) : B[i] = b[i]) /\ \A i \in 1..Len(x) : B[Len(b) + i] = x[i]
  BY Joined DEF B
<1>5. v + Len(B) + Len(y) = Volume(m)
  BY <1>1, <1>2, <1>3, <1>4
<1>6. ASSUME NEW i \in 1..Len(B)
      PROVE  Whole[v + i] = B[i]
  <2>1. CASE i <= Len(b)
    <3>1. i \in 1..Len(b)
      BY <1>4, <2>1
    <3> QED BY <1>1, <1>4, <3>1
  <2>2. CASE i > Len(b)
    <3> DEFINE j == i - Len(b)
    <3>1. j \in 1..Len(x) /\ Len(b) + j = i /\ j \in 1..Len(w) /\ v + Len(b) + j = v + i
      BY <1>2, <1>3, <1>4, <2>2
    <3> HIDE DEF j
    <3>2. B[i] = x[j] /\ w[j] = x[j] /\ Whole[v + Len(b) + j] = w[j]
      BY <1>1, <1>3, <1>4, <3>1
    <3> QED BY <3>1, <3>2
  <2>3. i \in Nat /\ Len(b) \in Nat
    BY <1>4
  <2> QED BY <2>1, <2>2, <2>3
<1>7. ASSUME NEW i \in 1..Len(y)
      PROVE  Whole[v + Len(B) + i] = y[i]
  <2> DEFINE j == Len(x) + i
  <2>1. j \in 1..Len(w) /\ v + Len(b) + j = v + Len(B) + i
    BY <1>2, <1>3, <1>4
  <2>2. w[j] = y[i]
    BY <1>3
  <2> HIDE DEF j
  <2> QED BY <1>1, <2>1, <2>2
<1> QED BY <1>1, <1>5, <1>6, <1>7 DEF Stream, v, B

\* A request is sent.
LEMMA StreamSent ==
  ASSUME talk \in Seq(Requests), NEW m \in 0..Len(talk) - 1, NEW c, NEW b \in Seq(Word), NEW w \in Seq(Word),
         Stream(c, b, w, m)
  PROVE  Stream(c, b, w \o Render(talk[m + 1]), m + 1)
<1> DEFINE v == Volume(c)
           s == Render(talk[m + 1])
           W == w \o s
<1>1. /\ c \in 0..m /\ v + Len(b) + Len(w) = Volume(m)
      /\ \A i \in 1..Len(b) : Whole[v + i] = b[i]
      /\ \A i \in 1..Len(w) : Whole[v + Len(b) + i] = w[i]
  BY DEF Stream
<1>2. v \in Nat /\ Volume(m) \in Nat
  <2>1. c \in 0..Len(talk) /\ m \in 0..Len(talk)
    BY <1>1
  <2> QED BY <2>1, Volumes
<1>3. /\ s \in Seq(Word) /\ Len(s) \in Nat /\ Volume(m + 1) = Volume(m) + Len(s)
      /\ \A i \in 1..Len(s) : Whole[Volume(m) + i] = s[i]
  <2>1. RequestIn(m)
    BY Volumes
  <2> QED BY <2>1 DEF RequestIn
<1> HIDE DEF v, s, W
<1>4. /\ Len(W) = Len(w) + Len(s) /\ Len(w) \in Nat /\ Len(b) \in Nat
      /\ (\A i \in 1..Len(w) : W[i] = w[i]) /\ \A i \in 1..Len(s) : W[Len(w) + i] = s[i]
  BY <1>3, Joined DEF W
<1>5. v + Len(b) + Len(W) = Volume(m + 1) /\ c \in 0..m + 1
  BY <1>1, <1>2, <1>3, <1>4
<1>6. ASSUME NEW i \in 1..Len(W)
      PROVE  Whole[v + Len(b) + i] = W[i]
  <2>1. CASE i <= Len(w)
    <3>1. i \in 1..Len(w)
      BY <1>4, <2>1
    <3> QED BY <1>1, <1>4, <3>1
  <2>2. CASE i > Len(w)
    <3> DEFINE j == i - Len(w)
    <3>1. j \in 1..Len(s) /\ Len(w) + j = i /\ Volume(m) + j = v + Len(b) + i
      BY <1>1, <1>2, <1>3, <1>4, <2>2
    <3> HIDE DEF j
    <3>2. W[i] = s[j] /\ Whole[Volume(m) + j] = s[j]
      BY <1>3, <1>4, <3>1
    <3> QED BY <3>1, <3>2
  <2>3. i \in Nat /\ Len(w) \in Nat
    BY <1>4
  <2> QED BY <2>1, <2>2, <2>3
<1> QED BY <1>1, <1>5, <1>6 DEF Stream, v, W, s

\* The connection starts over at the end of a request.
LEMMA StreamOver ==
  ASSUME talk \in Seq(Requests), NEW m \in 0..Len(talk), NEW c, NEW b \in Seq(Word), NEW w \in Seq(Word),
         Stream(c, b, w, m), c < m, Volume(m) - Len(w) = Volume(c + 1)
  PROVE  Stream(c + 1, <<>>, w, m)
<1> DEFINE v == Volume(c)
           u == Volume(c + 1)
<1>1. /\ c \in 0..m /\ v + Len(b) + Len(w) = Volume(m)
      /\ \A i \in 1..Len(w) : Whole[v + Len(b) + i] = w[i]
  BY DEF Stream
<1>2. v \in Nat /\ u \in Nat /\ Volume(m) \in Nat /\ Len(b) \in Nat /\ Len(w) \in Nat
  <2>1. c \in 0..Len(talk) /\ c + 1 \in 0..Len(talk)
    BY <1>1
  <2> QED BY <2>1, Volumes
<1>3. u = v + Len(b) /\ c + 1 \in 0..m
  BY <1>1, <1>2
<1> HIDE DEF u, v
<1>4. u + 0 + Len(w) = Volume(m)
  BY <1>1, <1>2, <1>3
<1>5. \A i \in 1..Len(w) : Whole[u + 0 + i] = w[i]
  BY <1>1, <1>2, <1>3
<1> QED BY <1>3, <1>4, <1>5 DEF Stream, u

-----------------------------------------------------------------------------
(* Where the connection is with the request that it reads. *)

\* The header of the request after the first c is not complete.
Unread(r, c) ==
  /\ r.state = "READY" /\ HeaderEnd(r.buffer) = 0 /\ r.length = <<>> /\ r.coding = <<>>
  /\ r.host = HostInForce(c)

\* r is what the header of the k-th request says.
Parsed(r, k) ==
  LET q == talk[k]
  IN  /\ HeaderVerdict(q) = OK /\ LineVerdict(q) = OK
      /\ r.method = q.verb /\ r.path = q.target /\ r.host = HostInForce(k)
      /\ r.length = LastValue(q, <<"Content-Length">>, <<>>)
      /\ r.coding = LastValue(q, <<"Transfer-Encoding">>, <<>>)
      /\ r.start = Len(Heading(q)) + 1 /\ r.start <= Len(r.buffer)

\* It has the server and the location that the reference wants.
Placed(r, k) ==
  /\ r.server = WantedServer(k)
  /\ Matching(k) # {} /\ r.location = WantedLocation(k) /\ Permitted(r.location, talk[k].verb)

Turning(r, c, k) ==
  /\ r.state = "DONE" /\ Parsed(r, k) /\ Placed(r, k)
  /\ c = "waiting" => r.method \in {<<"GET">>, <<"DELETE">>}
  /\ c = "script" => ByScript(talk[k], r.file)

\* No answer is due: the body is not complete, or a script runs.
Idle(r, c, k) ==
  /\ Turning(r, c, k)
  /\ c = "waiting" => r.coding = <<"chunked">> \/ ~Complete(r)

AnswerOf(r, code) ==
  [code |-> code, method |-> r.method, path |-> r.path, server |-> r.server,
   location |-> r.location, file |-> r.file]

\* An answer a to the k-th request that waits for its body is made when b has come.
Timely(b, a, k) ==
  AwaitsBody(talk[k], a) => Len(b) = Len(Heading(talk[k])) + 1 + Announced(talk[k])

\* The answer with this status is what the k-th request asked for, and in time.
Due(r, code, k) ==
  /\ Fits(k, AnswerOf(r, code)) /\ Timely(r.buffer, AnswerOf(r, code), k)
  /\ r.host = HostInForce(k) /\ Len(r.buffer) > Len(Heading(talk[k]))

Explained(k) ==
  \/ HeaderVerdict(talk[k]) = Undefined
  \/ /\ talk[k].verb = <<"GET">>
     /\ ToSet(RootOf([location |-> WantedLocation(k), server |-> WantedServer(k)])) \subseteq {"/"}

\* The ways the handling of b, of the k-th request, ends.
Turnout(b, k) ==
  \/ \E r, c : /\ Stay(r, c) /\ r.buffer = b
               /\ \/ c = "waiting" /\ Unread(r, k - 1)
                  \/ c \in {"waiting", "script"} /\ Idle(r, c, k)
  \/ \E r, code : Answer(r, code) /\ r.buffer = b /\ Due(r, code, k)
  \/ \E r : Stay(r, "undefined") /\ Explained(k)

\* What has come of the body.
LEMMA BodyLength ==
  ASSUME NEW r, Fine(r)
  PROVE  Len(Body(r)) = Len(r.buffer) - r.start /\ Len(r.buffer) \in Nat /\ r.start \in Nat
<1> DEFINE b == r.buffer
           a == r.start
           m == Len(b) - a
           x == SubSeq(b, a + 1, a + m)
<1>1. b \in Seq(Word) /\ Len(b) \in Nat /\ a \in Nat /\ a <= Len(b)
  BY ObjectParts DEF Fine
<1>2. m \in Nat /\ a + m = Len(b) /\ a + m <= Len(b)
  <2> HIDE DEF a, b
  <2> QED BY <1>1
<1>3. Body(r) = x
  BY <1>2 DEF Body
<1> HIDE DEF a, b, m
<1>4. Len(x) = m
  BY <1>1, <1>2, Part
<1> QED BY <1>1, <1>3, <1>4 DEF a, b, m

\* No header is refused with a status that waits for the body.
LEMMA Verdicts ==
  ASSUME NEW q
  PROVE  HeaderVerdict(q) \in {OK, Undefined, 400, 405, 505}
<1>1. LineVerdict(q) \in {OK, 400, 405, 505}
  BY DEF LineVerdict
<1>2. \A f : FieldVerdict(f) \in {OK, Undefined, 400}
  BY DEF FieldVerdict
<1> QED BY <1>1, <1>2 DEF HeaderVerdict

LEMMA PlacedFits ==
  ASSUME NEW r, Fine(r), NEW k, Parsed(r, k), Placed(r, k), NEW code,
         AwaitsBody(talk[k], AnswerOf(r, code)) => Complete(r),
         code \in IF Chunked(talk[k]) \/ ByScript(talk[k], r.file) THEN {200, 400, 413, 500} ELSE {200, 404},
         code = 413 => r.location.max # None /\ (Chunked(talk[k]) \/ Announced(talk[k]) > r.location.max)
  PROVE  Due(r, code, k)
<1> DEFINE a == AnswerOf(r, code)
           q == talk[k]
<1>1. /\ a.code = code /\ a.method = r.method /\ a.path = r.path /\ a.server = r.server
      /\ a.location = r.location /\ a.file = r.file
  BY DEF AnswerOf
<1>2. /\ HeaderVerdict(q) = OK /\ r.method = q.verb /\ r.path = q.target /\ r.server = WantedServer(k)
      /\ Matching(k) # {} /\ r.location = WantedLocation(k) /\ Permitted(r.location, q.verb)
  BY DEF Parsed, Placed
<1>3. /\ a.code \in IF Chunked(q) \/ ByScript(q, a.file) THEN {200, 400, 413, 500} ELSE {200, 404}
      /\ a.code = 413 => a.location.max # None /\ (Chunked(q) \/ Announced(q) > a.location.max)
  BY <1>1
<1>4. AwaitsBody(q, a) => Complete(r)
  OBVIOUS
<1> HIDE DEF a
<1>5. Fits(k, a)
  BY <1>1, <1>2, <1>3 DEF Fits
<1>6. r.host = HostInForce(k) /\ r.start = Len(Heading(q)) + 1 /\ r.start <= Len(r.buffer)
      /\ Stoui(r.length) = Announced(q)
  BY DEF Parsed, Announced
<1>7. Timely(r.buffer, a, k)
  <2>1. Len(Body(r)) = Len(r.buffer) - r.start /\ Len(r.buffer) \in Nat /\ r.start \in Nat
    BY BodyLength
  <2>2. Complete(r) => Len(r.buffer) - r.start = Announced(q)
    BY <1>6, <2>1 DEF Complete
  <2> DEFINE l == Len(r.buffer)  p == r.start  z == Announced(q)
  <2>3. l \in Nat /\ p \in Nat /\ (Complete(r) => l - p = z)
    BY <2>1, <2>2
  <2> HIDE DEF l, p, z
  <2>4. Complete(r) => l = p + z
    BY ONLY <2>3
  <2> QED BY <1>4, <1>6, <2>4 DEF Timely, l, p, z
<1>8. Len(r.buffer) > Len(Heading(q))
  BY <1>6, BodyLength
<1> QED BY <1>5, <1>6, <1>7, <1>8 DEF Due, a

\* What a request that is idle or has just been routed turns out to be, with what has
\* come of its body.
LEMMA ResponseTurns ==
  ASSUME port \in DOMAIN Servers, NEW k, NEW r, Fine(r), Located(r), NEW c \in {"waiting", "script"},
         Turning(r, c, k), talk[k] \in Requests, HandleResponse(r, c)
  PROVE  Turnout(r.buffer, k)
<1> DEFINE q == talk[k]
           C == r.coding = <<"chunked">>
<1>1. /\ Parsed(r, k) /\ Placed(r, k) /\ LineVerdict(q) = OK
      /\ r.method = q.verb /\ r.path = q.target /\ r.state = "DONE"
  BY DEF Turning, Parsed
<1>2. C <=> Chunked(q)
  BY DEF Turning, Parsed, Chunked
<1>3. Stoui(r.length) = Announced(q)
  BY DEF Turning, Parsed, Announced
<1>c. \A a : C => ~AwaitsBody(q, a)
  BY <1>2 DEF AwaitsBody
<1>4. r \in RequestObject /\ r.file \in Seq(Word) /\ r.path \in Seq(Word) /\ r.location \in Locations
  BY ObjectParts DEF Fine
<1>5. ASSUME NEW x \in {"waiting", "script"}, Stay(r, x), Idle(r, x, k)
      PROVE  Turnout(r.buffer, k)
  BY <1>5 DEF Turnout
<1>6. ASSUME NEW code, Answer(r, code), Due(r, code, k)
      PROVE  Turnout(r.buffer, k)
  BY <1>6 DEF Turnout
<1>7. CASE (C \/ ~Complete(r)) /\ Stay(r, c)
  <2>1. Idle(r, c, k)
    BY <1>7 DEF Idle
  <2> QED BY <1>5, <1>7, <2>1
<1>8. CASE C /\ Throw(r, 400)
  <2>1. Answer(r, 400)
    BY <1>8 DEF Throw, Undefined
  <2> DEFINE code == 400
  <2>2. code \in (IF Chunked(q) \/ ByScript(q, r.file) THEN {200, 400, 413, 500} ELSE {200, 404}) /\ code # 413
    BY <1>2, <1>8
  <2> HIDE DEF code
  <2>3. Due(r, code, k)
    BY <1>1, <1>8, <1>c, <2>2, PlacedFits
  <2> QED BY <1>6, <2>1, <2>3 DEF code
<1>9. CASE C /\ r.location.max # None /\ Throw(r, 413)
  <2>1. Answer(r, 413)
    BY <1>9 DEF Throw, Undefined
  <2> DEFINE code == 413
  <2>2. /\ code \in IF Chunked(q) \/ ByScript(q, r.file) THEN {200, 400, 413, 500} ELSE {200, 404}
        /\ r.location.max # None /\ Chunked(q)
    BY <1>2, <1>9
  <2> HIDE DEF code
  <2>3. Due(r, code, k)
    BY <1>1, <1>9, <1>c, <2>2, PlacedFits
  <2> QED BY <1>6, <2>1, <2>3 DEF code
<1>10. CASE ~C /\ Complete(r) /\ r.method = <<"GET">> /\ HandleGet(r)
  <2>1. /\ Names(r.file) = <<>> <=> \A i \in 1..Len(r.file) : r.file[i] = "/"
        /\ Names(r.file) # <<>> => (IsFilePy(r.file) <=> Script(r.file))
    BY <1>4, NamesIs
  <2>2. q.verb = <<"GET">> /\ q.verb \notin {<<"POST">>, <<"PUT">>}
    BY <1>1, <1>10
  <2>3. CASE Names(r.file) = <<>> /\ Throw(r, Undefined)
    <3>1. Stay(r, "undefined")
      BY <2>3 DEF Throw
    <3>2. /\ Len(r.location.path) > 0 /\ IsPrefix(r.location.path, r.path)
          /\ r.file = Convert(r.path, r.location, RootOf(r)) /\ r.server \in DOMAIN Servers[port]
      BY DEF Located
    <3>3. RootOf(r) \in Seq(Word)
      <4>1. r.location.root \in Seq(Word) /\ Servers[port][r.server].root \in Seq(Word)
        BY <1>4, <3>2, LocationParts, ServerParts
      <4> QED BY <4>1 DEF RootOf
    <3>4. ToSet(RootOf(r)) \subseteq {"/"}
      <4>1. \A i \in 1..Len(r.file) : r.file[i] = "/"
        BY <2>1, <2>3
      <4> DEFINE root == RootOf(r)
                 l == r.location
                 path == r.path
      <4>2. \A i \in 1..Len(Convert(path, l, root)) : Convert(path, l, root)[i] = "/"
        BY <3>2, <4>1
      <4>3. path \in Seq(Word) /\ l \in Locations /\ root \in Seq(Word) /\ IsPrefix(l.path, path)
        BY <1>4, <3>2, <3>3
      <4> HIDE DEF root, l, path
      <4>4. ToSet(root) \subseteq {"/"}
        BY <4>2, <4>3, OnlySlashes
      <4> QED BY <4>4 DEF root
    <3>5. RootOf([location |-> WantedLocation(k), server |-> WantedServer(k)]) = RootOf(r)
      BY <1>1 DEF Placed, RootOf
    <3>6. Explained(k)
      BY <2>2, <3>4, <3>5 DEF Explained
    <3> QED BY <3>1, <3>6 DEF Turnout
  <2>4. CASE Names(r.file) # <<>> /\ IsFilePy(r.file) /\ Stay(r, "script")
    <3>1. ByScript(q, r.file)
      BY <2>1, <2>2, <2>4 DEF ByScript
    <3>2. Turning(r, "script", k)
      BY <1>1, <3>1 DEF Turning
    <3>3. Idle(r, "script", k)
      BY <3>2 DEF Idle
    <3> QED BY <1>5, <2>4, <3>3
  <2>5. ASSUME NEW code \in {200, 404}, Names(r.file) # <<>>, ~IsFilePy(r.file), Answer(r, code)
        PROVE  Turnout(r.buffer, k)
    <3>1. ~ByScript(q, r.file)
      BY <2>1, <2>2, <2>5 DEF ByScript
    <3>2. /\ code \in IF Chunked(q) \/ ByScript(q, r.file) THEN {200, 400, 413, 500} ELSE {200, 404}
          /\ code # 413
      BY <1>2, <1>10, <3>1
    <3>3. Due(r, code, k)
      BY <1>1, <1>10, <3>2, PlacedFits
    <3> QED BY <1>6, <2>5, <3>3
  <2> QED BY <1>10, <2>3, <2>4, <2>5 DEF HandleGet
<1>11. CASE ~C /\ Complete(r) /\ r.method = <<"DELETE">> /\ HandleDelete(r)
  <2>1. PICK code \in {200, 404} : Answer(r, code)
    BY <1>11 DEF HandleDelete
  <2>2. ~ByScript(q, r.file)
    BY <1>1, <1>11 DEF ByScript
  <2>3. /\ code \in IF Chunked(q) \/ ByScript(q, r.file) THEN {200, 400, 413, 500} ELSE {200, 404}
        /\ code # 413
    BY <1>2, <1>11, <2>2
  <2>4. Due(r, code, k)
    BY <1>1, <1>11, <2>3, PlacedFits
  <2> QED BY <1>6, <2>1, <2>4
<1>12. CASE ~C /\ Complete(r) /\ r.method \in {<<"POST">>, <<"PUT">>} /\ HandlePost(r, c)
  <2>1. ByScript(q, r.file)
    BY <1>1, <1>12 DEF ByScript
  <2>2. CASE TooLarge(r) /\ Throw(r, 413)
    <3>1. Answer(r, 413)
      BY <2>2 DEF Throw, Undefined
    <3> DEFINE code == 413
    <3>2. /\ code \in IF Chunked(q) \/ ByScript(q, r.file) THEN {200, 400, 413, 500} ELSE {200, 404}
          /\ r.location.max # None /\ Announced(q) > r.location.max
      BY <1>3, <2>1, <2>2 DEF TooLarge
    <3> HIDE DEF code
    <3>3. Due(r, code, k)
      BY <1>1, <1>12, <3>2, PlacedFits
    <3> QED BY <1>6, <3>1, <3>3 DEF code
  <2>3. CASE ~TooLarge(r) /\ Stay(r, c)
    <3>1. c # "waiting"
      BY <1>12 DEF Turning
    <3>2. Idle(r, c, k)
      BY <3>1 DEF Idle
    <3> QED BY <1>5, <2>3, <3>2
  <2> QED BY <1>12, <2>2, <2>3 DEF HandlePost
<1> QED BY <1>7, <1>8, <1>9, <1>10, <1>11, <1>12 DEF HandleResponse

\* A request whose header has been read is routed as the reference says.
LEMMA RoutedAs ==
  ASSUME port \in DOMAIN Servers, NEW k, NEW r, Fine(r), Parsed(r, k)
  PROVE  /\ Fine(Route(r)) /\ Parsed(Route(r), k) /\ Route(r).buffer = r.buffer
         /\ Route(r).server = WantedServer(k)
         /\ Unlocated(r) <=> Matching(k) = {}
         /\ ~Unlocated(r) => Located(Route(r)) /\ Route(r).location = WantedLocation(k)
<1> DEFINE x == Route(r)
<1>1. /\ Fine(x) /\ (Unlocated(r) <=> Found(r) = NoLocation)
      /\ ~Unlocated(r) => Located(x) /\ x.location = Found(r)
      /\ x.server = FindServer(r) /\ x.buffer = r.buffer /\ x.start = r.start /\ x.method = r.method
      /\ x.path = r.path /\ x.length = r.length /\ x.coding = r.coding /\ x.host = r.host
  BY Routes
<1>2. r \in RequestObject /\ r.host = HostInForce(k) /\ r.path = talk[k].target
  BY DEF Fine, Parsed
<1> HIDE DEF x
<1>3. FindServer(r) = WantedServer(k)
  BY <1>2, ServerWanted
<1>4. /\ Found(r) = NoLocation <=> Matching(k) = {}
      /\ Matching(k) # {} => Found(r) = WantedLocation(k)
  BY <1>2, LocationWanted
<1>5. Parsed(x, k)
  BY <1>1 DEF Parsed
<1> QED BY <1>1, <1>3, <1>4, <1>5 DEF x

LEMMA CreateTurns ==
  ASSUME port \in DOMAIN Servers, NEW k, NEW r, Fine(r), Parsed(r, k), talk[k] \in Requests, Create(r)
  PROVE  Turnout(r.buffer, k)
<1> DEFINE q == talk[k]
           x == Route(r)
<1>1. /\ Fine(x) /\ Parsed(x, k) /\ x.buffer = r.buffer /\ x.server = WantedServer(k)
      /\ Unlocated(r) <=> Matching(k) = {}
      /\ ~Unlocated(r) => Located(x) /\ x.location = WantedLocation(k)
  BY RoutedAs
<1>2. /\ HeaderVerdict(q) = OK /\ LineVerdict(q) = OK /\ x.method = q.verb /\ x.path = q.target
      /\ x.host = HostInForce(k) /\ x.start = Len(Heading(q)) + 1 /\ x.start <= Len(x.buffer)
  BY <1>1 DEF Parsed
<1>3. \/ Unlocated(r) /\ Throw(x, 400)
      \/ ~Unlocated(r) /\ ~Allowed(x.location, x.method) /\ Throw(x, 405)
      \/ /\ ~Unlocated(r) /\ Allowed(x.location, x.method)
         /\ HandleResponse([x EXCEPT !.state = "DONE"],
                           IF x.method \in {<<"POST">>, <<"PUT">>} THEN "script" ELSE "waiting")
  BY DEF Create
<1>4. Allowed(x.location, x.method) <=> Permitted(x.location, q.verb)
  BY <1>2, PermittedIs
<1>5. ASSUME NEW code, Answer(x, code), Fits(k, AnswerOf(x, code)), code \in {400, 405}
      PROVE  Turnout(r.buffer, k)
  <2>1. AnswerOf(x, code).code = code
    BY DEF AnswerOf
  <2>2. Timely(x.buffer, AnswerOf(x, code), k)
    BY <1>5, <2>1 DEF Timely, AwaitsBody
  <2>3. Due(x, code, k)
    BY <1>2, <1>5, <2>2 DEF Due
  <2> HIDE DEF x
  <2> QED BY <1>1, <1>5, <2>3 DEF Turnout
<1>6. \A code : LET a == AnswerOf(x, code)
                IN  /\ a.code = code /\ a.method = x.method /\ a.path = x.path /\ a.server = x.server
                    /\ a.location = x.location
  BY DEF AnswerOf
<1> HIDE DEF x
<1>7. CASE Unlocated(r) /\ Throw(x, 400)
  <2>1. Answer(x, 400)
    BY <1>7 DEF Throw, Undefined
  <2> DEFINE a == AnswerOf(x, 400)
  <2>2. a.code = 400 /\ a.method = q.verb /\ a.path = q.target /\ a.server = WantedServer(k)
    BY <1>1, <1>2, <1>6
  <2> HIDE DEF a
  <2>3. Fits(k, a)
    BY <1>1, <1>2, <1>7, <2>2 DEF Fits
  <2> QED BY <1>5, <2>1, <2>3 DEF a
<1>8. CASE ~Unlocated(r) /\ ~Allowed(x.location, x.method) /\ Throw(x, 405)
  <2>1. Answer(x, 405)
    BY <1>8 DEF Throw, Undefined
  <2> DEFINE a == AnswerOf(x, 405)
  <2>2. /\ a.code = 405 /\ a.method = q.verb /\ a.path = q.target /\ a.server = WantedServer(k)
        /\ a.location = x.location
    BY <1>1, <1>2, <1>6
  <2> HIDE DEF a
  <2>3. Fits(k, a)
    BY <1>1, <1>2, <1>4, <1>8, <2>2 DEF Fits
  <2> QED BY <1>5, <2>1, <2>3 DEF a
<1>9. CASE /\ ~Unlocated(r) /\ Allowed(x.location, x.method)
           /\ HandleResponse([x EXCEPT !.state = "DONE"],
                             IF x.method \in {<<"POST">>, <<"PUT">>} THEN "script" ELSE "waiting")
  <2> DEFINE y == [x EXCEPT !.state = "DONE"]
             c == IF x.method \in {<<"POST">>, <<"PUT">>} THEN "script" ELSE "waiting"
  <2>1. x \in RequestObject /\ x.start \in 0..Len(x.buffer) /\ x.server \in 0..Len(Servers[port])
    BY <1>1 DEF Fine
  <2>2. /\ y.state = "DONE" /\ y.buffer = x.buffer /\ y.start = x.start /\ y.method = x.method
        /\ y.path = x.path /\ y.length = x.length /\ y.coding = x.coding /\ y.host = x.host
        /\ y.server = x.server /\ y.location = x.location /\ y.file = x.file
        /\ y \in RequestObject
    BY <2>1 DEF RequestObject
  <2> HIDE DEF y
  <2>3. Fine(y)
    BY <2>1, <2>2 DEF Fine
  <2>4. Located(x)
    BY <1>1, <1>9
  <2>5. Located(y)
    BY <2>2, <2>4 DEF Located, RootOf
  <2>6. Parsed(y, k)
    BY <1>1, <2>2 DEF Parsed
  <2>7. Placed(y, k)
    BY <1>1, <1>4, <1>9, <2>2 DEF Placed
  <2>8. c \in {"waiting", "script"}
    OBVIOUS
  <2>9. Turning(y, c, k)
    <3>1. q.verb \in Verbs
      BY <1>2 DEF LineVerdict, OK
    <3>2. CASE x.method \in {<<"POST">>, <<"PUT">>}
      <4>1. c = "script"
        BY <3>2
      <4>2. ByScript(q, y.file)
        BY <1>2, <3>2 DEF ByScript
      <4> QED BY <2>2, <2>6, <2>7, <4>1, <4>2 DEF Turning
    <3>3. CASE x.method \notin {<<"POST">>, <<"PUT">>}
      <4>1. c = "waiting"
        BY <3>3
      <4>2. y.method \in {<<"GET">>, <<"DELETE">>}
        BY <1>2, <2>2, <3>1, <3>3 DEF Verbs
      <4> QED BY <2>2, <2>6, <2>7, <4>1, <4>2 DEF Turning
    <3> QED BY <3>2, <3>3
  <2>10. HandleResponse(y, c)
    BY <1>9 DEF y
  <2> HIDE DEF c
  <2>11. Turnout(y.buffer, k)
    BY <2>3, <2>5, <2>8, <2>9, <2>10, ResponseTurns
  <2> QED BY <1>1, <2>2, <2>11
<1> QED BY <1>3, <1>7, <1>8, <1>9

\* Whatever has come of the k-th request.
LEMMA RequestTurns ==
  ASSUME port \in DOMAIN Servers, talk \in Seq(Requests), NEW k \in 1..Len(talk), NEW r, Fine(r),
         Agree(r.buffer, Render(talk[k])), Routed(r, conn), conn \in {"waiting", "script"},
         \/ /\ conn = "waiting" /\ r.state = "READY" /\ r.length = <<>> /\ r.coding = <<>>
            /\ r.host = HostInForce(k - 1)
         \/ Turning(r, conn, k),
         HandleRequest(r)
  PROVE  Turnout(r.buffer, k)
<1> DEFINE q == talk[k]
           b == r.buffer
<1>1. q \in Requests /\ Len(talk) \in Nat
  BY ElementOfSeq
<1>2. r \in RequestObject /\ b \in Seq(Word)
  BY ObjectParts DEF Fine
<1>3. HeaderEnd(b) # 0 => Len(b) > Len(Heading(q))
  <2>1. Len(b) <= Len(Heading(q)) => HeaderEnd(b) = 0
    BY <1>1, <1>2, HeaderEndOf
  <2>2. Len(b) \in Nat /\ Len(Heading(q)) \in Nat
    BY <1>1, <1>2, LinesIn
  <2> QED BY <2>1, <2>2
<1>4. CASE r.state = "READY" /\ HeaderEnd(b) = 0 /\ Stay(r, conn)
  <2>1. ~Turning(r, conn, k)
    BY <1>4 DEF Turning
  <2>2. conn = "waiting" /\ Unread(r, k - 1)
    BY <1>4, <2>1 DEF Unread
  <2> QED BY <1>4, <2>2 DEF Turnout
<1>5. CASE r.state = "DONE" /\ HandleResponse(r, conn)
  <2>1. Turning(r, conn, k) /\ Located(r)
    BY <1>5 DEF Routed
  <2> QED BY <1>1, <1>5, <2>1, ResponseTurns
<1>6. CASE /\ r.state = "READY" /\ HeaderEnd(b) # 0
           /\ LET parsed == ParsingHeader(r)
              IN  \/ parsed.error # OK /\ Throw(parsed.req, parsed.error)
                  \/ parsed.error = OK /\ Create(parsed.req)
  <2> DEFINE p == ParsingHeader(r)
             x == p.req
  <2>1. r.length = <<>> /\ r.coding = <<>> /\ r.host = HostInForce(k - 1)
    <3>1. ~Turning(r, conn, k)
      BY <1>6 DEF Turning
    <3> QED BY <3>1
  <2>2. Holding(q, r) /\ Len(b) > Len(Heading(q))
    BY <1>1, <1>2, <1>3, <1>6 DEF Holding
  <2>3. ParsedFrom(q, r, p)
    BY <2>2, ParsedAs
  <2>4. HostOf(q, r.host) = HostInForce(k)
    <3> DEFINE j == k - 1
    <3>1. j \in 0..Len(talk) - 1 /\ j + 1 = k
      BY <1>1
    <3> HIDE DEF j
    <3>2. HostInForce(j + 1) = HostOf(talk[j + 1], HostInForce(j))
      BY <3>1, HostsInForce
    <3>3. r.host = HostInForce(j)
      BY <2>1 DEF j
    <3> QED BY <3>1, <3>2, <3>3
  <2>5. \/ p.error # OK /\ Throw(x, p.error)
        \/ p.error = OK /\ Create(x)
    BY <1>6
  <2>6. Fine(r) /\ HeaderEnd(b) # 0
    BY <1>6
  <2>7. /\ p.error \in Errors \ {404} /\ x \in RequestObject /\ x.buffer = b /\ x.server = r.server
        /\ p.error # OK => Untouched(x, r)
        /\ p.error = OK => x.start \in 0..Len(b)
    BY <1>2, <2>6, ParsedType
  <2> HIDE DEF p, x
  <2>8. x.host = HostInForce(k) /\ p.error = HeaderVerdict(q)
    BY <2>3, <2>4 DEF ParsedFrom, x
  <2>9. CASE p.error # OK /\ Throw(x, p.error)
    <3>1. CASE p.error = Undefined
      <4>1. Stay(x, "undefined")
        BY <2>9, <3>1 DEF Throw
      <4>2. Explained(k)
        BY <2>8, <3>1 DEF Explained
      <4> QED BY <4>1, <4>2 DEF Turnout
    <3>2. CASE p.error # Undefined
      <4> DEFINE code == p.error
                 a == AnswerOf(x, code)
      <4>1. Answer(x, code)
        BY <2>9, <3>2 DEF Throw
      <4>2. a.code = code
        BY DEF AnswerOf
      <4> HIDE DEF a, code
      <4>3. Fits(k, a)
        BY <2>8, <2>9, <4>2 DEF Fits, code
      <4>4. Timely(x.buffer, a, k)
        <5>1. a.code \in {OK, Undefined, 400, 405, 505}
          BY <2>8, <4>2, Verdicts DEF code
        <5> QED BY <5>1 DEF Timely, AwaitsBody, OK, Undefined
      <4>5. Due(x, code, k)
        BY <2>2, <2>7, <2>8, <4>3, <4>4 DEF Due, a
      <4> QED BY <2>7, <4>1, <4>5 DEF Turnout
    <3> QED BY <3>1, <3>2
  <2>10. CASE p.error = OK /\ Create(x)
    <3>1. /\ x.method = q.verb /\ x.path = q.target
          /\ x.length = LastValue(q, <<"Content-Length">>, <<>>)
          /\ x.coding = LastValue(q, <<"Transfer-Encoding">>, <<>>)
          /\ x.start = Len(Heading(q)) + 1
      BY <2>1, <2>3, <2>10 DEF ParsedFrom, x
    <3>2. x.start <= Len(x.buffer)
      <4>1. x.start \in 0..Len(b)
        BY <2>7, <2>10
      <4> QED BY <1>2, <2>7, <4>1
    <3>3. Fine(x)
      BY <2>6, <2>7, <2>10 DEF Fine
    <3>4. LineVerdict(q) = OK
      BY <2>8, <2>10 DEF HeaderVerdict
    <3>5. Parsed(x, k)
      BY <2>8, <2>10, <3>1, <3>2, <3>4 DEF Parsed
    <3>6. Turnout(x.buffer, k)
      BY <1>1, <2>10, <3>3, <3>5, CreateTurns
    <3> QED BY <2>7, <3>6
  <2> QED BY <2>5, <2>9, <2>10
<1> QED BY <1>4, <1>5, <1>6 DEF HandleRequest

-----------------------------------------------------------------------------
(* The invariant that compares with the reference, and the steps. *)

\* Where a connection is that has not lost its place: n answers are made, m requests
\* sent, w is under way.
Following(r, c, w, m, n) ==
  /\ c \in {"waiting", "script"} => /\ Stream(n, r.buffer, w, m)
                                    /\ (c = "waiting" /\ Unread(r, n)) \/ (n < m /\ Idle(r, c, n + 1))
  /\ c = "answering" => /\ n \in 1..m /\ Stream(n - 1, r.buffer, w, m)
                        /\ r.host = HostInForce(n) /\ Len(r.buffer) > Len(Heading(talk[n]))

InStep == ~skewed => Following(req, conn, wire, sent, Len(answers))

\* A peer that waits has sent no more than it may.
Turns == patient => sent <= IF conn = "answering" THEN Len(answers) ELSE Len(answers) + 1

\* The answer under way did not come too early.
InTime ==
  ~skewed /\ conn = "answering" => Timely(req.buffer, answers[Len(answers)], Len(answers))

Good == InStep /\ Turns /\ AnsweredAsAsked /\ InTime /\ UndefinedExplained

LEMMA SameReference ==
  ASSUME talk' = talk, port' = port
  PROVE  /\ \A k : HostInForce(k)' = HostInForce(k)
         /\ \A k : Volume(k)' = Volume(k)
         /\ Whole' = Whole
         /\ \A k : WantedServer(k)' = WantedServer(k)
         /\ \A k : Matching(k)' = Matching(k)
         /\ \A k : WantedLocation(k)' = WantedLocation(k)
<1>1. ASSUME NEW k
      PROVE  HostInForce(k)' = HostInForce(k)
  BY DEF HostInForce
<1>2. ASSUME NEW k
      PROVE  Volume(k)' = Volume(k)
  BY DEF Volume
<1>3. Whole' = Whole
  BY DEF Whole, Renders
<1>4. ASSUME NEW k
      PROVE  WantedServer(k)' = WantedServer(k)
  BY <1>1 DEF WantedServer
<1>5. ASSUME NEW k
      PROVE  Matching(k)' = Matching(k)
  BY <1>4 DEF Matching
<1>6. ASSUME NEW k
      PROVE  WantedLocation(k)' = WantedLocation(k)
  BY <1>5 DEF WantedLocation
<1> QED BY <1>1, <1>2, <1>3, <1>4, <1>5, <1>6

LEMMA SameFollowing ==
  ASSUME talk' = talk, port' = port, NEW r, NEW c, NEW w, NEW m, NEW n
  PROVE  Following(r, c, w, m, n)' <=> Following(r, c, w, m, n)
<1>1. ASSUME NEW k, NEW b
      PROVE  Stream(k, b, w, m)' <=> Stream(k, b, w, m)
  BY SameReference DEF Stream
<1>2. ASSUME NEW k
      PROVE  Unread(r, k)' <=> Unread(r, k)
  BY SameReference DEF Unread
<1>3. ASSUME NEW k
      PROVE  Parsed(r, k)' <=> Parsed(r, k)
  BY SameReference DEF Parsed
<1>4. ASSUME NEW k
      PROVE  Placed(r, k)' <=> Placed(r, k)
  BY SameReference DEF Placed
<1>5. ASSUME NEW k
      PROVE  Idle(r, c, k)' <=> Idle(r, c, k)
  BY <1>3, <1>4 DEF Idle, Turning
<1>6. \A k : HostInForce(k)' = HostInForce(k)
  BY SameReference
<1> QED BY <1>1, <1>2, <1>5, <1>6 DEF Following

LEMMA SameFits ==
  ASSUME talk' = talk, port' = port, NEW k, NEW a
  PROVE  Fits(k, a)' <=> Fits(k, a)
BY SameReference DEF Fits

LEMMA SameTimely ==
  ASSUME talk' = talk, NEW b, NEW a, NEW k
  PROVE  Timely(b, a, k)' <=> Timely(b, a, k)
BY DEF Timely

LEMMA SameExplained ==
  ASSUME talk' = talk, port' = port, NEW k
  PROVE  Explained(k)' <=> Explained(k)
BY SameReference DEF Explained, RootOf

\* What handling a request may do to the connection.
LEMMA Moves ==
  ASSUME NEW r, conn \in {"waiting", "script"}, HandleRequest(r)
  PROVE  \/ \E x : \E c \in {"waiting", "script", "undefined"} : Stay(x, c)
         \/ \E x, code : Answer(x, code)
<1> DEFINE Moved == \/ \E x : \E c \in {"waiting", "script", "undefined"} : Stay(x, c)
                    \/ \E x, code : Answer(x, code)
<1>1. ASSUME NEW x, NEW c \in {"waiting", "script"}, Stay(x, c)
      PROVE  Moved
  BY <1>1
<1>2. ASSUME NEW x, NEW error, Throw(x, error)
      PROVE  Moved
  BY <1>2 DEF Throw
<1>3. ASSUME NEW x, NEW code, Answer(x, code)
      PROVE  Moved
  BY <1>3
<1> HIDE DEF Moved
<1>4. ASSUME NEW x, NEW c \in {"waiting", "script"}, HandleResponse(x, c)
      PROVE  Moved
  <2>1. CASE Stay(x, c)
    BY <1>1, <2>1
  <2>2. CASE Throw(x, 400) \/ Throw(x, 413)
    BY <1>2, <2>2
  <2>3. CASE HandleGet(x)
    BY <1>1, <1>2, <1>3, <2>3 DEF HandleGet
  <2>4. CASE HandleDelete(x)
    BY <1>3, <2>4 DEF HandleDelete
  <2>5. CASE HandlePost(x, c)
    BY <1>1, <1>2, <2>5 DEF HandlePost
  <2> QED BY <1>4, <2>1, <2>2, <2>3, <2>4, <2>5 DEF HandleResponse
<1>5. ASSUME NEW x, Create(x)
      PROVE  Moved
  BY <1>2, <1>4, <1>5 DEF Create
<1> QED BY <1>1, <1>2, <1>4, <1>5 DEF HandleRequest, Moved

LEMMA KeepsParts ==
  ASSUME Keeps
  PROVE  /\ port \in DOMAIN Servers /\ talk \in Seq(Requests) /\ wire \in Seq(Word) /\ Len(talk) \in Nat
         /\ sent \in 0..Len(talk) /\ sent \in Nat /\ patient \in BOOLEAN /\ skewed \in BOOLEAN
         /\ answers \in Seq(AnswerObject) /\ Len(answers) \in Nat /\ DOMAIN answers = 1..Len(answers)
         /\ Fine(req) /\ req.buffer \in Seq(Word) /\ Len(req.buffer) \in Nat /\ Len(wire) \in Nat
         /\ Routed(req, conn)
BY ObjectParts DEF Keeps, Surroundings, Sound, Answered, Fine

\* The two ways a step of the loop ends, of a connection that has not lost its place.
LEMMA StayGood ==
  ASSUME Keeps, Good, talk' = talk, port' = port, patient' = patient, sent' = sent, skewed' = skewed,
         answers' = answers, conn \in {"waiting", "script"}, conn' \in {"waiting", "script", "undefined"},
         ~skewed /\ conn' # "undefined" => Following(req', conn', wire', sent, Len(answers)),
         ~skewed /\ conn' = "undefined" => Explained(Len(answers) + 1)
  PROVE  Good'
<1> DEFINE n == Len(answers)
<1>1. InStep'
  <2>1. CASE ~skewed
    <3>1. Following(req', conn', wire', sent', Len(answers'))
      BY <2>1 DEF Following
    <3>2. \A r, c, w, m, i : Following(r, c, w, m, i)' <=> Following(r, c, w, m, i)
      BY SameFollowing
    <3> QED BY ONLY <3>1, <3>2 DEF InStep
  <2>2. CASE skewed
    BY <2>2 DEF InStep
  <2> QED BY <2>1, <2>2
<1>2. Turns'
  BY DEF Good, Turns
<1>3. AnsweredAsAsked'
  <2>1. ASSUME ~skewed, NEW k \in DOMAIN answers
        PROVE  Fits(k, answers[k])'
    <3>1. Fits(k, answers[k])
      BY <2>1 DEF Good, AnsweredAsAsked
    <3> QED BY <3>1, SameFits
  <2> QED BY <2>1 DEF AnsweredAsAsked
<1>4. InTime'
  BY DEF InTime
<1>5. UndefinedExplained'
  <2>1. CASE ~skewed /\ conn' = "undefined"
    <3>1. Explained(n + 1)'
      BY <2>1, SameExplained
    <3> QED BY <3>1 DEF UndefinedExplained, Explained
  <2>2. CASE skewed \/ conn' # "undefined"
    BY <2>2 DEF UndefinedExplained
  <2> QED BY <2>1, <2>2
<1> QED BY <1>1, <1>2, <1>3, <1>4, <1>5 DEF Good

LEMMA AnswerGood ==
  ASSUME Keeps, Good, talk' = talk, port' = port, patient' = patient, sent' = sent, skewed' = skewed,
         wire' \in Seq(Word), conn \in {"waiting", "script"}, NEW r, r.buffer \in Seq(Word), NEW code,
         Answer(r, code),
         ~skewed => /\ Len(answers) < sent /\ Due(r, code, Len(answers) + 1)
                    /\ Stream(Len(answers), r.buffer, wire', sent)
  PROVE  Good'
<1> DEFINE n == Len(answers)
           a == AnswerOf(r, code)
<1>1. /\ talk \in Seq(Requests) /\ Len(talk) \in Nat /\ sent \in 0..Len(talk) /\ sent \in Nat
      /\ answers \in Seq(AnswerObject) /\ n \in Nat /\ DOMAIN answers = 1..n
  BY KeepsParts
<1>2. req' = r /\ conn' = "answering" /\ answers' = Append(answers, a)
  BY DEF Answer, AnswerOf
<1> HIDE DEF a
<1>3. /\ Len(answers') = n + 1 /\ DOMAIN answers' = 1..n + 1 /\ answers'[n + 1] = a
      /\ \A k \in 1..n : answers'[k] = answers[k]
  BY <1>1, <1>2
<1>4. InStep'
  <2>1. CASE ~skewed
    <3>1. Due(r, code, n + 1) /\ Stream(n, r.buffer, wire', sent)
      BY <2>1
    <3>2. r.host = HostInForce(n + 1) /\ Len(r.buffer) > Len(Heading(talk[n + 1]))
      BY <3>1 DEF Due
    <3>3. n + 1 \in 1..sent
      BY <1>1, <2>1
    <3>4. (n + 1) - 1 = n
      BY <1>1
    <3>5. Following(r, "answering", wire', sent, n + 1)
      BY <3>1, <3>2, <3>3, <3>4 DEF Following
    <3>6. Following(req', conn', wire', sent', Len(answers'))
      BY <1>2, <1>3, <3>5
    <3>7. \A x, c, w, m, i : Following(x, c, w, m, i)' <=> Following(x, c, w, m, i)
      BY SameFollowing
    <3> QED BY ONLY <3>6, <3>7 DEF InStep
  <2>2. CASE skewed
    BY <2>2 DEF InStep
  <2> QED BY <2>1, <2>2
<1>5. Turns'
  BY <1>1, <1>2, <1>3 DEF Good, Turns
<1>6. AnsweredAsAsked'
  <2>1. ASSUME ~skewed, NEW k \in 1..n + 1
        PROVE  Fits(k, answers'[k])
    <3>1. CASE k \in 1..n
      <4>1. Fits(k, answers[k])
        BY <1>1, <2>1, <3>1 DEF Good, AnsweredAsAsked
      <4> QED BY <1>3, <3>1, <4>1
    <3>2. CASE k = n + 1
      <4>1. Fits(k, a)
        BY <2>1, <3>2 DEF Due, a
      <4> QED BY <1>3, <3>2, <4>1
    <3> QED BY <1>1, <3>1, <3>2
  <2>2. \A k, x : Fits(k, x)' <=> Fits(k, x)
    BY SameFits
  <2>3. ~skewed' => \A k \in DOMAIN answers' : Fits(k, answers'[k])
    BY <1>3, <2>1
  <2> QED BY ONLY <2>2, <2>3 DEF AnsweredAsAsked
<1>7. InTime'
  <2>1. ~skewed => Timely(r.buffer, a, n + 1)
    BY DEF Due, a
  <2>2. ~skewed => Timely(req'.buffer, answers'[Len(answers')], Len(answers'))
    BY <1>2, <1>3, <2>1
  <2>3. \A b, x, k : Timely(b, x, k)' <=> Timely(b, x, k)
    BY SameTimely
  <2>4. skewed' = skewed
    OBVIOUS
  <2> QED BY ONLY <2>2, <2>3, <2>4 DEF InTime
<1>8. UndefinedExplained'
  BY <1>2 DEF UndefinedExplained
<1> QED BY <1>4, <1>5, <1>6, <1>7, <1>8 DEF Good

LEMMA SkewedAnswerGood ==
  ASSUME Keeps, Good, skewed, talk' = talk, patient' = patient, sent' = sent, skewed' = skewed,
         conn \in {"waiting", "script"}, conn' = "answering", NEW a, answers' = Append(answers, a)
  PROVE  Good'
<1>1. /\ sent \in Nat /\ answers \in Seq(AnswerObject) /\ Len(answers) \in Nat
      /\ DOMAIN answers = 1..Len(answers)
  BY KeepsParts
<1>2. Len(answers') = Len(answers) + 1 /\ DOMAIN answers \subseteq DOMAIN answers'
  BY <1>1
<1>3. InStep' /\ AnsweredAsAsked' /\ UndefinedExplained' /\ InTime'
  BY DEF InStep, AnsweredAsAsked, UndefinedExplained, InTime
<1>4. Turns'
  BY <1>1, <1>2 DEF Good, Turns
<1> QED BY <1>3, <1>4 DEF Good

LEMMA ReceiveGood == Keeps /\ Good /\ Receive => Good'
<1> SUFFICES ASSUME Keeps, Good, Receive
             PROVE  Good'
  OBVIOUS
<1> DEFINE n == Len(answers)
           k == n + 1
<1>1. PICK i \in 1..Len(wire) : /\ HandleRequest(Fed(i))
                                /\ wire' = SubSeq(wire, i + 1, Len(wire))
  BY DEF Receive, Fed
<1>2. /\ conn \in {"waiting", "script"} /\ talk' = talk /\ port' = port /\ patient' = patient
      /\ sent' = sent /\ skewed' = skewed
  BY DEF Receive
<1> DEFINE r == Fed(i)
           x == SubSeq(wire, 1, i)
           y == SubSeq(wire, i + 1, Len(wire))
           b == req.buffer \o x
<1>3. /\ port \in DOMAIN Servers /\ talk \in Seq(Requests) /\ wire \in Seq(Word) /\ Len(talk) \in Nat
      /\ sent \in 0..Len(talk) /\ sent \in Nat /\ n \in Nat /\ req.buffer \in Seq(Word)
      /\ Len(wire) \in Nat /\ Routed(req, conn)
  BY KeepsParts
<1>4. x \in Seq(Word) /\ y \in Seq(Word) /\ wire = x \o y /\ Len(x) = i
  BY Delivering
<1>5. /\ Fine(r) /\ r.buffer = b
      /\ r.state = req.state /\ r.start = req.start /\ r.method = req.method
      /\ r.path = req.path /\ r.length = req.length /\ r.coding = req.coding
      /\ r.host = req.host /\ r.server = req.server
      /\ r.location = req.location /\ r.file = req.file
  BY FedIs
<1>6. b \in Seq(Word) /\ Len(b) = Len(req.buffer) + i /\ Len(req.buffer) \in Nat /\ b # <<>>
  <2>1. b \in Seq(Word) /\ Len(b) = Len(req.buffer) + Len(x) /\ Len(req.buffer) \in Nat
    BY <1>3, <1>4, Joined
  <2>2. Len(b) > 0
    BY <1>4, <2>1
  <2> QED BY <1>4, <2>1, <2>2, SMTT(30)
<1>7. wire' \in Seq(Word)
  BY <1>1, <1>4
<1> HIDE DEF r, x, y, b
<1>8. CASE skewed
  <2>1. CASE \E z : \E c \in {"waiting", "script", "undefined"} : Stay(z, c)
    <3>1. answers' = answers /\ conn' \in {"waiting", "script", "undefined"}
      BY <2>1 DEF Stay
    <3> QED BY <1>2, <1>8, <3>1, StayGood
  <2>2. CASE \E z, code : Answer(z, code)
    <3>1. PICK z, code : Answer(z, code)
      BY <2>2
    <3>2. /\ conn' = "answering" /\ answers' = Append(answers, AnswerOf(z, code))
      BY <3>1 DEF Answer, AnswerOf
    <3> QED BY <1>2, <1>3, <1>8, <3>2, SkewedAnswerGood
  <2>3. HandleRequest(r)
    BY <1>1 DEF r
  <2> QED BY <1>2, <2>1, <2>2, <2>3, Moves
<1>9. CASE ~skewed
  <2>1. /\ Stream(n, req.buffer, wire, sent)
        /\ (conn = "waiting" /\ Unread(req, n)) \/ (n < sent /\ Idle(req, conn, k))
    BY <1>2, <1>9 DEF Good, InStep, Following
  <2>2. Stream(n, b, wire', sent)
    <3>1. wire' = y
      BY <1>1 DEF y
    <3> QED BY <1>3, <1>4, <2>1, <3>1, StreamFed DEF b
  <2>3. k \in 1..sent /\ talk[k] \in Requests /\ Agree(b, Render(talk[k]))
    BY <1>3, <1>6, <1>7, <2>2, StreamRequest
  <2>4. n < sent /\ k \in 1..Len(talk) /\ k - 1 = n
    BY <1>3, <2>3
  <2>5. Routed(r, conn)
    BY <1>3, <1>5 DEF Routed, Located, RootOf
  <2>6. \/ /\ conn = "waiting" /\ r.state = "READY" /\ r.length = <<>> /\ r.coding = <<>>
           /\ r.host = HostInForce(k - 1)
        \/ Turning(r, conn, k)
    <3>1. CASE conn = "waiting" /\ Unread(req, n)
      BY <1>5, <2>4, <3>1 DEF Unread
    <3>2. CASE Idle(req, conn, k)
      <4>1. Turning(req, conn, k)
        BY <3>2 DEF Idle
      <4>2. Parsed(r, k)
        <5>1. Parsed(req, k)
          BY <4>1 DEF Turning
        <5>2. Fine(req) /\ Len(req.buffer) <= Len(b)
          BY <1>4, <1>6, KeepsParts
        <5>3. req.start <= Len(b)
          <6>1. req.start \in Nat /\ req.start <= Len(req.buffer)
            BY <5>2 DEF Fine
          <6> QED BY <1>6, <5>2, <6>1
        <5> QED BY <1>5, <5>1, <5>3 DEF Parsed
      <4>3. Placed(r, k)
        BY <1>5, <4>1 DEF Turning, Placed
      <4> QED BY <1>5, <4>1, <4>2, <4>3 DEF Turning
    <3> QED BY <2>1, <3>1, <3>2
  <2>7. Agree(r.buffer, Render(talk[k]))
    BY <1>5, <2>3
  <2>8. HandleRequest(r)
    BY <1>1 DEF r
  <2> HIDE DEF k
  <2>9. Turnout(b, k)
    <3>1. Turnout(r.buffer, k)
      BY <1>2, <1>3, <1>5, <2>4, <2>5, <2>6, <2>7, <2>8, RequestTurns
    <3> QED BY <1>5, <3>1
  <2>10. k - 1 = n /\ k = Len(answers) + 1
    BY <2>4 DEF k
  <2>11. ASSUME NEW z, NEW c, Stay(z, c), z.buffer = b,
                \/ c = "waiting" /\ Unread(z, k - 1)
                \/ c \in {"waiting", "script"} /\ Idle(z, c, k)
         PROVE  Good'
    <3>1. req' = z /\ conn' = c /\ answers' = answers /\ c \in {"waiting", "script"}
      BY <2>11 DEF Stay
    <3>2. Following(req', conn', wire', sent, n)
      BY <2>2, <2>4, <2>10, <2>11, <3>1 DEF Following
    <3> QED BY <1>2, <3>1, <3>2, StayGood
  <2>12. ASSUME NEW z, NEW code, Answer(z, code), z.buffer = b, Due(z, code, k)
         PROVE  Good'
    <3>1. Due(z, code, Len(answers) + 1) /\ Stream(Len(answers), z.buffer, wire', sent) /\ z.buffer \in Seq(Word)
      BY <1>6, <2>2, <2>10, <2>12
    <3> QED BY <1>2, <1>7, <2>4, <2>12, <3>1, AnswerGood
  <2>13. ASSUME NEW z, Stay(z, "undefined"), Explained(k)
         PROVE  Good'
    <3>1. conn' = "undefined" /\ answers' = answers
      BY <2>13 DEF Stay
    <3> QED BY <1>2, <2>10, <2>13, <3>1, StayGood
  <2> QED BY <2>9, <2>11, <2>12, <2>13 DEF Turnout
<1> QED BY <1>8, <1>9

LEMMA ScriptEndsGood == Keeps /\ Good /\ ScriptEnds => Good'
<1> SUFFICES ASSUME Keeps, Good, ScriptEnds
             PROVE  Good'
  OBVIOUS
<1> DEFINE n == Len(answers)
           k == n + 1
<1>1. /\ conn = "script" /\ talk' = talk /\ port' = port /\ patient' = patient /\ sent' = sent
      /\ skewed' = skewed /\ wire' = wire
  BY DEF ScriptEnds
<1>2. PICK code \in {200, 400, 500} : Answer(req, code)
  BY DEF ScriptEnds
<1>3. wire \in Seq(Word) /\ req.buffer \in Seq(Word)
  BY KeepsParts
<1>4. ASSUME ~skewed
      PROVE  n < sent /\ Due(req, code, k) /\ Stream(n, req.buffer, wire, sent)
  <2>1. Stream(n, req.buffer, wire, sent) /\ n < sent /\ Idle(req, conn, k)
    BY <1>1, <1>4 DEF Good, InStep, Following
  <2>2. Parsed(req, k) /\ Placed(req, k) /\ ByScript(talk[k], req.file)
    BY <1>1, <2>1 DEF Idle, Turning
  <2>3. /\ code \in IF Chunked(talk[k]) \/ ByScript(talk[k], req.file) THEN {200, 400, 413, 500} ELSE {200, 404}
        /\ code # 413
    BY <2>2
  <2> HIDE DEF k
  <2>4. ~AwaitsBody(talk[k], AnswerOf(req, code))
    BY <2>2, <2>3 DEF AwaitsBody, AnswerOf
  <2>5. Fine(req)
    BY KeepsParts
  <2>6. Due(req, code, k)
    BY <2>2, <2>3, <2>4, <2>5, PlacedFits
  <2> QED BY <2>1, <2>6
<1> QED BY <1>1, <1>2, <1>3, <1>4, AnswerGood

LEMMA HistoryKept ==
  ASSUME port' = port, talk' = talk, patient' = patient, answers' = answers, skewed' = skewed
  PROVE  /\ AnsweredAsAsked => AnsweredAsAsked'
         /\ conn' = conn /\ req' = req /\ InTime => InTime'
         /\ conn' = conn /\ UndefinedExplained => UndefinedExplained'
<1>1. AnsweredAsAsked => AnsweredAsAsked'
  <2> SUFFICES ASSUME AnsweredAsAsked
               PROVE  AnsweredAsAsked'
    OBVIOUS
  <2>1. \A k, a : Fits(k, a)' <=> Fits(k, a)
    BY SameFits
  <2>2. ~skewed' => \A k \in DOMAIN answers' : Fits(k, answers'[k])
    BY DEF AnsweredAsAsked
  <2> QED BY ONLY <2>1, <2>2 DEF AnsweredAsAsked
<1>2. ASSUME conn' = conn, req' = req, InTime
      PROVE  InTime'
  <2>1. \A b, a, k : Timely(b, a, k)' <=> Timely(b, a, k)
    BY SameTimely
  <2>2. ~skewed' /\ conn' = "answering" => Timely(req'.buffer, answers'[Len(answers')], Len(answers'))
    BY <1>2 DEF InTime
  <2> QED BY ONLY <2>1, <2>2 DEF InTime
<1>3. ASSUME conn' = conn, UndefinedExplained
      PROVE  UndefinedExplained'
  <2>1. \A k : Explained(k)' <=> Explained(k)
    BY SameExplained
  <2>2. conn' = "undefined" /\ ~skewed' => Explained(Len(answers') + 1)
    BY <1>3 DEF UndefinedExplained, Explained
  <2>3. conn' = "undefined" /\ ~skewed' => Explained(Len(answers) + 1)'
    BY ONLY <2>1, <2>2
  <2> QED BY <2>3 DEF UndefinedExplained, Explained
<1> QED BY <1>1, <1>2, <1>3

LEMMA SendGood == Keeps /\ Good /\ Send => Good'
<1> SUFFICES ASSUME Keeps, Good, Send
             PROVE  Good'
  OBVIOUS
<1> DEFINE n == Len(answers)
<1>1. /\ conn # "closed" /\ sent < Len(talk) /\ (patient => n = sent /\ conn # "answering")
      /\ sent' = sent + 1 /\ wire' = wire \o Render(talk[sent + 1])
      /\ port' = port /\ req' = req /\ conn' = conn /\ talk' = talk /\ patient' = patient
      /\ answers' = answers /\ skewed' = skewed
  BY DEF Send
<1>2. /\ talk \in Seq(Requests) /\ wire \in Seq(Word) /\ Len(talk) \in Nat /\ sent \in 0..Len(talk)
      /\ sent \in Nat /\ n \in Nat /\ req.buffer \in Seq(Word)
  BY KeepsParts
<1>3. InStep'
  <2>1. CASE ~skewed
    <3>1. Following(req, conn, wire, sent, n)
      BY <2>1 DEF Good, InStep
    <3>2. sent \in 0..Len(talk) - 1
      BY <1>1, <1>2
    <3>3. ASSUME NEW c, Stream(c, req.buffer, wire, sent)
          PROVE  Stream(c, req.buffer, wire', sent')
      BY <1>1, <1>2, <3>2, <3>3, StreamSent
    <3>4. Following(req, conn, wire', sent', n)
      <4>1. n < sent => n < sent'
        BY <1>1, <1>2
      <4>2. n \in 1..sent => n \in 1..sent'
        BY <1>1, <1>2
      <4> QED BY <3>1, <3>3, <4>1, <4>2 DEF Following
    <3>5. Following(req', conn', wire', sent', Len(answers'))
      BY <1>1, <3>4
    <3>6. \A r, c, w, m, i : Following(r, c, w, m, i)' <=> Following(r, c, w, m, i)
      BY <1>1, SameFollowing
    <3> QED BY ONLY <3>5, <3>6 DEF InStep
  <2>2. CASE skewed
    BY <1>1, <2>2 DEF InStep
  <2> QED BY <2>1, <2>2
<1>4. Turns'
  BY <1>1, <1>2 DEF Turns
<1>5. AnsweredAsAsked' /\ InTime' /\ UndefinedExplained'
  BY <1>1, HistoryKept DEF Good
<1> QED BY <1>3, <1>4, <1>5 DEF Good

LEMMA CloseGood == Keeps /\ Good /\ Close => Good'
<1> SUFFICES ASSUME Keeps, Good, Close
             PROVE  Good'
  OBVIOUS
<1>1. /\ conn' = "closed" /\ port' = port /\ talk' = talk /\ sent' = sent /\ patient' = patient
      /\ answers' = answers /\ skewed' = skewed
  BY DEF Close
<1>2. sent \in Nat /\ Len(answers) \in Nat
  BY KeepsParts
<1>3. InStep' /\ InTime'
  BY <1>1 DEF InStep, Following, InTime
<1>4. Turns'
  BY <1>1, <1>2 DEF Good, Turns
<1>5. AnsweredAsAsked'
  BY <1>1, HistoryKept DEF Good
<1>6. UndefinedExplained'
  BY <1>1 DEF UndefinedExplained
<1> QED BY <1>3, <1>4, <1>5, <1>6 DEF Good

\* What has not come when an answer is out is the rest of the body, and more than was
\* announced of one that was waited for.
LEMMA LostIsBody ==
  ASSUME Keeps, Good, conn = "answering", ~skewed, patient, Delivered # Volume(Len(answers))
  PROVE  /\ Volume(Len(answers)) - Len(talk[Len(answers)].body) <= Delivered
         /\ Delivered < Volume(Len(answers))
         /\ AwaitsBody(talk[Len(answers)], answers[Len(answers)]) =>
              Announced(talk[Len(answers)]) < Len(talk[Len(answers)].body)
<1> DEFINE n == Len(answers)
           c == n - 1
           q == talk[n]
           h == Len(Heading(q))
           b == req.buffer
<1>1. /\ talk \in Seq(Requests) /\ wire \in Seq(Word) /\ Len(talk) \in Nat /\ sent \in 0..Len(talk)
      /\ sent \in Nat /\ n \in Nat /\ b \in Seq(Word) /\ Len(b) \in Nat /\ Len(wire) \in Nat
      /\ DOMAIN answers = 1..n
  BY KeepsParts
<1>2. n \in 1..sent /\ Stream(c, b, wire, sent) /\ Len(b) > h
  BY DEF Good, InStep, Following
<1>3. sent = n
  <2>1. sent <= n
    BY DEF Good, Turns
  <2>2. n \in 1..sent /\ sent \in Nat /\ n \in Nat
    BY <1>1, <1>2
  <2> HIDE DEF n
  <2> QED BY ONLY <2>1, <2>2
<1>4. Volume(c) + Len(b) + Len(wire) = Volume(n)
  BY <1>2, <1>3 DEF Stream
<1>5. c \in 0..Len(talk) - 1 /\ c + 1 = n
  BY <1>1, <1>2
<1>6. q \in Requests /\ Volume(n) = Volume(c) + Len(Render(q)) /\ Volume(c) \in Nat
  <2> HIDE DEF c
  <2>1. talk[c + 1] \in Requests /\ RequestIn(c) /\ c \in 0..Len(talk)
    BY <1>1, <1>5, Volumes
  <2>2. Volume(c + 1) = Volume(c) + Len(Render(talk[c + 1])) /\ Volume(c) \in Nat
    BY <1>1, <2>1, Volumes DEF RequestIn
  <2> QED BY <1>5, <2>1, <2>2
<1> DEFINE m == Len(q.body)
<1>7. h \in Nat /\ m \in Nat /\ Len(Render(q)) = h + 1 + m /\ q.body \in Seq(Word)
  BY <1>6, RenderParts, RequestParts
<1>8. Delivered = Volume(n) - Len(wire)
  BY <1>3 DEF Delivered
<1> DEFINE a == answers[n]
           z == Announced(q)
<1>9. AwaitsBody(q, a) => Len(b) = h + 1 + z
  BY DEF Good, InTime, Timely
<1>10. z \in Nat
  <2>1. \A x : Stoui(x) \in Nat
    BY NumbersKnown DEF Stoui
  <2> QED BY <2>1 DEF Announced
<1>11. /\ Volume(n) - m <= Delivered /\ Delivered < Volume(n)
       /\ AwaitsBody(q, a) => z < m
  <2> DEFINE u == Volume(c)
             v == Volume(n)
             l == Len(Render(q))
             d == Delivered
             y == Len(b)
             x == Len(wire)
             early == AwaitsBody(q, a)
  <2>1. /\ u \in Nat /\ v = u + l /\ l = h + 1 + m /\ h \in Nat /\ m \in Nat /\ y \in Nat
        /\ x \in Nat /\ u + y + x = v /\ y > h /\ d = v - x /\ d # v
    BY <1>1, <1>2, <1>4, <1>6, <1>7, <1>8
  <2>2. z \in Nat /\ (early => y = h + 1 + z)
    BY <1>9, <1>10
  <2> HIDE DEF u, v, l, d, h, m, y, x, z, early
  <2>3. v - m <= d /\ d < v /\ (early => z < m)
    BY ONLY <2>1, <2>2
  <2> QED BY <2>3 DEF v, d, m, early, z
<1> QED BY <1>11

LEMMA SendAnswerGood == Keeps /\ Good /\ SendAnswer => Good'
<1> SUFFICES ASSUME Keeps, Good, SendAnswer
             PROVE  Good'
  OBVIOUS
<1> DEFINE n == Len(answers)
           x == Cleared(req)
           lost == Delivered # Volume(n)
<1>1. /\ conn = "answering" /\ conn' \in {"closed", "waiting"} /\ req' = x
      /\ skewed' = (skewed \/ lost) /\ port' = port /\ wire' = wire /\ talk' = talk /\ sent' = sent
      /\ patient' = patient /\ answers' = answers
  BY DEF SendAnswer, AfterAnswer
<1>2. /\ talk \in Seq(Requests) /\ wire \in Seq(Word) /\ Len(talk) \in Nat /\ sent \in 0..Len(talk)
      /\ sent \in Nat /\ n \in Nat /\ req.buffer \in Seq(Word) /\ Fine(req)
  BY KeepsParts
<1>3. /\ x.state = "READY" /\ x.buffer = <<>> /\ x.host = req.host /\ x.length = <<>> /\ x.coding = <<>>
  BY DEF Cleared, NewRequest
<1> HIDE DEF x, lost
<1>4. InStep'
  <2>1. CASE skewed \/ lost
    BY <1>1, <2>1 DEF InStep
  <2>2. CASE ~skewed /\ ~lost
    <3> DEFINE c == n - 1
    <3>1. n \in 1..sent /\ Stream(c, req.buffer, wire, sent) /\ req.host = HostInForce(n)
      BY <1>1, <2>2 DEF Good, InStep, Following
    <3>2. c < sent /\ c + 1 = n
      BY <1>2, <3>1
    <3>3. Volume(sent) - Len(wire) = Volume(n)
      BY <2>2 DEF lost, Delivered
    <3> HIDE DEF c
    <3>4. Stream(n, x.buffer, wire, sent)
      BY <1>2, <1>3, <3>1, <3>2, <3>3, StreamOver
    <3>5. HeaderEnd(x.buffer) = 0
      BY <1>3 DEF HeaderEnd
    <3>6. Unread(x, n)
      BY <1>3, <3>1, <3>5 DEF Unread
    <3>7. Following(req', conn', wire', sent', Len(answers'))
      BY <1>1, <3>4, <3>6 DEF Following
    <3>8. \A r, k, w, m, i : Following(r, k, w, m, i)' <=> Following(r, k, w, m, i)
      BY <1>1, SameFollowing
    <3> QED BY ONLY <3>7, <3>8 DEF InStep
  <2> QED BY <2>1, <2>2
<1>5. Turns'
  BY <1>1, <1>2 DEF Good, Turns
<1>6. AnsweredAsAsked'
  <2>1. CASE skewed \/ lost
    BY <1>1, <2>1 DEF AnsweredAsAsked
  <2>2. CASE ~(skewed \/ lost)
    <3>1. \A k \in DOMAIN answers : Fits(k, answers[k])
      BY <2>2 DEF Good, AnsweredAsAsked
    <3>2. \A k, a : Fits(k, a)' <=> Fits(k, a)
      BY <1>1, SameFits
    <3>3. \A k \in DOMAIN answers' : Fits(k, answers'[k])
      BY <1>1, <3>1
    <3> QED BY ONLY <3>2, <3>3 DEF AnsweredAsAsked
  <2> QED BY <2>1, <2>2
<1>7. InTime'
  BY <1>1 DEF InTime
<1>8. UndefinedExplained'
  BY <1>1 DEF UndefinedExplained
<1> QED BY <1>4, <1>5, <1>6, <1>7, <1>8 DEF Good

LEMMA StutterGood == Keeps /\ Good /\ UNCHANGED vars => Good'
<1> SUFFICES ASSUME Keeps, Good, UNCHANGED vars
             PROVE  Good'
  OBVIOUS
<1>1. /\ port' = port /\ req' = req /\ conn' = conn /\ wire' = wire /\ talk' = talk /\ sent' = sent
      /\ patient' = patient /\ answers' = answers /\ skewed' = skewed
  BY DEF vars
<1>2. InStep'
  <2>1. ~skewed' => Following(req', conn', wire', sent', Len(answers'))
    BY <1>1 DEF Good, InStep
  <2>2. \A r, k, w, m, i : Following(r, k, w, m, i)' <=> Following(r, k, w, m, i)
    BY <1>1, SameFollowing
  <2> QED BY ONLY <2>1, <2>2 DEF InStep
<1>3. Turns'
  BY <1>1 DEF Good, Turns
<1>4. AnsweredAsAsked' /\ InTime' /\ UndefinedExplained'
  BY <1>1, HistoryKept DEF Good
<1> QED BY <1>2, <1>3, <1>4 DEF Good

LEMMA GoodInit == Init => Good
<1> SUFFICES ASSUME Init
             PROVE  Good
  OBVIOUS
<1>1. /\ req = NewRequest /\ conn = "waiting" /\ wire = <<>> /\ sent = 0 /\ answers = <<>>
      /\ skewed = FALSE /\ talk \in Talks
  BY DEF Init
<1>2. talk \in Seq(Requests)
  BY <1>1, TalksKnown
<1>3. Len(answers) = 0 /\ DOMAIN answers = {}
  BY <1>1
<1>4. /\ req.state = "READY" /\ req.buffer = <<>> /\ req.host = <<>> /\ req.length = <<>> /\ req.coding = <<>>
  BY <1>1 DEF NewRequest
<1>5. Unread(req, 0)
  <2>1. HeaderEnd(req.buffer) = 0
    BY <1>4 DEF HeaderEnd
  <2>2. HostInForce(0) = <<>>
    BY <1>2, HostsInForce
  <2> QED BY <1>4, <2>1, <2>2 DEF Unread
<1>6. Stream(0, req.buffer, wire, sent)
  <2>1. Volume(0) = 0
    BY <1>2, Volumes
  <2> QED BY <1>1, <1>4, <2>1 DEF Stream
<1>7. InStep
  BY <1>1, <1>3, <1>5, <1>6 DEF InStep, Following
<1>8. Turns
  BY <1>1, <1>3 DEF Turns
<1>9. AnsweredAsAsked /\ InTime /\ UndefinedExplained
  BY <1>1, <1>3 DEF AnsweredAsAsked, InTime, UndefinedExplained
<1> QED BY <1>7, <1>8, <1>9 DEF Good

LEMMA GoodInvariant == Spec => [](Keeps /\ Good)
<1>1. Init => Keeps /\ Good
  BY KeepsInit, GoodInit
<1>2. Keeps /\ Good /\ [Next]_vars => Good'
  BY ReceiveGood, SendGood, ScriptEndsGood, SendAnswerGood, CloseGood, StutterGood DEF Next
<1>3. Keeps /\ [Next]_vars => Keeps'
  BY ReceiveKeeps, SendKeeps, ScriptEndsKeeps, SendAnswerKeeps, CloseKeeps, StutterKeeps DEF Next
<1> QED BY <1>1, <1>2, <1>3, PTL DEF Spec

-----------------------------------------------------------------------------
\* A peer that waits, and whose bytes have all arrived, has sent one whole request that is
\* not answered yet: all of it is in the buffer.
LEMMA WholeArrived ==
  ASSUME Keeps, Good, patient, ~skewed, conn = "waiting", wire = <<>>, sent > Len(answers)
  PROVE  /\ sent = Len(answers) + 1 /\ talk[sent] \in Requests
         /\ Agree(req.buffer, Render(talk[sent])) /\ Len(req.buffer) = Len(Render(talk[sent]))
<1> DEFINE n == Len(answers)
           b == req.buffer
           u == Volume(n)
           v == Volume(sent)
           l == Len(Render(talk[sent]))
<1>1. /\ talk \in Seq(Requests) /\ Len(talk) \in Nat /\ sent \in 0..Len(talk) /\ sent \in Nat
      /\ n \in Nat /\ b \in Seq(Word) /\ Len(b) \in Nat /\ wire \in Seq(Word)
  BY KeepsParts
<1>2. sent = n + 1
  <2>1. sent <= n + 1
    BY DEF Good, Turns
  <2>2. sent > n
    OBVIOUS
  <2> HIDE DEF n
  <2> QED BY ONLY <1>1, <2>1, <2>2
<1>3. Stream(n, b, wire, sent)
  BY DEF Good, InStep, Following
<1>4. u + Len(b) + 0 = v
  BY <1>3 DEF Stream
<1>5. n \in 0..Len(talk) - 1
  <2> HIDE DEF n
  <2> QED BY ONLY <1>1, <1>2
<1>6. talk[n + 1] \in Requests /\ RequestIn(n) /\ u \in Nat
  <2>1. n \in 0..Len(talk)
    <3> HIDE DEF n
    <3> QED BY ONLY <1>1, <1>5
  <2> QED BY <1>1, <1>5, <2>1, Volumes
<1>7. v = u + l /\ l \in Nat /\ l > 0
  BY <1>2, <1>6 DEF RequestIn
<1>8. Len(b) = l
  <2> HIDE DEF b, u, v, l
  <2> QED BY ONLY <1>1, <1>4, <1>6, <1>7
<1>9. b # <<>>
  BY <1>7, <1>8
<1>10. Agree(b, Render(talk[n + 1]))
  <2> HIDE DEF n, b
  <2> QED BY ONLY <1>1, <1>3, <1>9, StreamRequest
<1> QED BY <1>2, <1>6, <1>8, <1>10

LEMMA WaitersServed ==
  ASSUME Keeps, Good
  PROVE  NobodyWaits
<1> SUFFICES ASSUME patient, ~skewed, conn = "waiting", wire = <<>>, sent > Len(answers)
             PROVE  LET q == talk[sent]
                    IN  IF Chunked(q) THEN q.verb \in {<<"GET">>, <<"DELETE">>}
                        ELSE Len(q.body) # Announced(q)
  BY DEF NobodyWaits
<1> DEFINE q == talk[sent]
           b == req.buffer
           h == Len(Heading(q))
           m == Len(q.body)
<1>1. sent = Len(answers) + 1 /\ q \in Requests /\ Agree(b, Render(q)) /\ Len(b) = Len(Render(q))
  BY WholeArrived
<1>2. h \in Nat /\ m \in Nat /\ Len(Render(q)) = h + 1 + m /\ h > 0
  BY <1>1, RenderParts, NoGap
<1>3. b \in Seq(Word) /\ Len(b) = h + 1 + m /\ Len(b) > h
  <2>1. b \in Seq(Word) /\ Len(b) = h + 1 + m
    BY <1>1, <1>2, KeepsParts
  <2> HIDE DEF b, h, m
  <2> QED BY ONLY <1>2, <2>1
<1>4. HeaderEnd(b) # 0
  <2>1. HeaderEnd(b) = h
    BY <1>1, <1>3, HeaderEndOf
  <2> QED BY <1>2, <2>1
<1>5. Idle(req, "waiting", sent)
  <2>1. Unread(req, Len(answers)) \/ Idle(req, "waiting", Len(answers) + 1)
    BY DEF Good, InStep, Following
  <2> QED BY <1>1, <1>4, <2>1 DEF Unread
<1>6. /\ req.method = q.verb /\ req.length = LastValue(q, <<"Content-Length">>, <<>>)
      /\ req.coding = LastValue(q, <<"Transfer-Encoding">>, <<>>) /\ req.start = h + 1
      /\ req.method \in {<<"GET">>, <<"DELETE">>} /\ (req.coding = <<"chunked">> \/ ~Complete(req))
  BY <1>5 DEF Idle, Turning, Parsed
<1>7. CASE Chunked(q)
  BY <1>6, <1>7
<1>8. CASE ~Chunked(q)
  <2>1. ~Complete(req)
    BY <1>6, <1>8 DEF Chunked
  <2>2. Stoui(req.length) = Announced(q)
    BY <1>6 DEF Announced
  <2>3. Len(Body(req)) = m
    <3> DEFINE a == h + 1
               x == SubSeq(b, a + 1, a + m)
    <3>1. a \in Nat /\ m \in Nat /\ a + m <= Len(b) /\ a + m = Len(b)
      <4> HIDE DEF b, h, m
      <4> QED BY ONLY <1>2, <1>3
    <3>2. Len(x) = m
      <4> HIDE DEF a, m, b
      <4> QED BY ONLY <1>3, <3>1, Part
    <3>3. Body(req) = x
      BY <1>6, <3>1 DEF Body
    <3> QED BY <3>2, <3>3
  <2> QED BY <1>8, <2>1, <2>2, <2>3 DEF Complete
<1> QED BY <1>7, <1>8

\* However recv cuts the bytes, the k-th answer is made of the k-th request: the first
\* server with the host last named on the connection, the longest location that begins
\* the target, and the status those call for.  clearRequest keeps this true until it
\* throws away, or leaves for the next header, a part of the talk.
THEOREM AnswersAsAsked == Spec => []AnsweredAsAsked
<1>1. Keeps /\ Good => AnsweredAsAsked
  BY DEF Good
<1> QED BY <1>1, GoodInvariant, PTL

\* When clearRequest makes a peer that waits for its answers lose its place, all of the
\* header of the request just answered had been received, and what is left over is a part
\* of its body; if the answer had to wait for the body, this was longer than announced.
THEOREM BodiesLost == Spec => OnlyBodiesLost
<1>1. ASSUME Keeps, Good, [Next]_vars, patient, ~skewed, skewed'
      PROVE  LET k == Len(answers)
                 q == talk[k]
             IN  /\ Volume(k) - Len(q.body) <= Delivered /\ Delivered < Volume(k)
                 /\ AwaitsBody(q, answers[k]) => Announced(q) < Len(q.body)
  <2>1. ~UNCHANGED skewed
    BY <1>1
  <2>2. SendAnswer
    BY <1>1, <2>1 DEF Next, Send, Receive, ScriptEnds, Close, vars
  <2>3. conn = "answering" /\ Delivered # Volume(Len(answers))
    BY <1>1, <2>2 DEF SendAnswer
  <2> QED BY <1>1, <2>3, LostIsBody
<1>2. Keeps /\ Good /\ [Next]_vars =>
        [patient /\ ~skewed /\ skewed' =>
           LET k == Len(answers)
               q == talk[k]
           IN  /\ Volume(k) - Len(q.body) <= Delivered /\ Delivered < Volume(k)
               /\ AwaitsBody(q, answers[k]) => Announced(q) < Len(q.body)]_vars
  BY <1>1
<1> QED BY <1>2, GoodInvariant, PTL DEF Spec, OnlyBodiesLost

\* The vectors of getToken are indexed beyond their end only in setFieldLine, for a field
\* without ": ", and in isFilePy, for a GET whose root names no directory; of a
\* connection that clearRequest has brought out of step nothing is said.
THEOREM UndefinedCauses == Spec => []UndefinedExplained
<1>1. Keeps /\ Good => UndefinedExplained
  BY DEF Good
<1> QED BY <1>1, GoodInvariant, PTL

\* When a peer that waits for its answers has sent a whole request, and all of it was
\* received, handleRequest has started an answer, unless a script works on it, the body is
\* not as long as announced, or it is a chunked GET or DELETE; clearRequest may have thrown
\* away a part of an earlier body, and then nothing is said.
THEOREM WaitersAnswered == Spec => []NobodyWaits
<1> QED BY WaitersServed, GoodInvariant, PTL
=============================================================================
