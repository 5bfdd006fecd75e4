--------------------------- MODULE SequenceLemmas ---------------------------
(***************************************************************************)
(* Induction without an operator parameter, and what it gives for the      *)
(* recursive functions and the sequence operators the models are built     *)
(* from.                                                                   *)
(***************************************************************************)
EXTENDS Integers, SequencesExt, FiniteSetTheorems, SequenceTheorems, TLAPS

\* Every set of natural numbers that is not empty has a least element: the intervals
\* 0..m of its elements are finite sets, and inclusion of finite sets is well-founded.
LEMMA Least ==
  ASSUME NEW S \in SUBSET Nat, S # {}
  PROVE  \E m \in S : \A n \in S : m <= n
<1>1. PICK n \in S : TRUE
  OBVIOUS
<1> DEFINE T == {0 .. m : m \in {k \in S : k <= n}}
<1>2. IsWellFoundedOn(StrictSubsetOrdering(0..n), FiniteSubsetsOf(0..n))
  BY FS_StrictSubsetOrderingWellFounded
<1>3. T \subseteq FiniteSubsetsOf(0..n)
  <2> SUFFICES ASSUME NEW m \in S, m <= n
               PROVE  0..m \in FiniteSubsetsOf(0..n)
    OBVIOUS
  <2>1. 0..m \subseteq 0..n
    OBVIOUS
  <2>2. IsFiniteSet(0..m)
    BY FS_Interval
  <2> QED BY <2>1, <2>2 DEF FiniteSubsetsOf
<1>4. 0..n \in T
  BY <1>1
<1>5. PICK U \in T : \A V \in T : ~(<<V, U>> \in StrictSubsetOrdering(0..n))
  <2> HIDE DEF T
  <2>1. T # {}
    BY <1>4
  <2> QED BY ONLY <1>2, <1>3, <2>1, WFMin
<1>6. PICK m \in S : m <= n /\ U = 0..m
  OBVIOUS
<1>7. ASSUME NEW k \in S, ~(m <= k)
      PROVE  FALSE
  <2>1. 0..k \in T /\ k < m
    BY <1>6, <1>7
  <2>2. 0..k \subseteq 0..m /\ m \in 0..m /\ m \notin 0..k
    BY <2>1
  <2>3. 0..k \subseteq 0..n /\ 0..m \subseteq 0..n
    BY <2>1, <1>6
  <2>4. <<0..k, 0..m>> \in StrictSubsetOrdering(0..n)
    BY <2>2, <2>3 DEF StrictSubsetOrdering
  <2> QED BY <2>1, <2>4, <1>5, <1>6
<1> QED BY <1>7

\* What holds of 0, and of n + 1 if it holds of n, holds of every natural number.
LEMMA Induction ==
  ASSUME NEW S, 0 \in S, \A n \in Nat : n \in S => n + 1 \in S
  PROVE  Nat \subseteq S
<1> SUFFICES ASSUME Nat \ S # {} PROVE FALSE
  OBVIOUS
<1>1. PICK m \in Nat \ S : \A n \in Nat \ S : m <= n
  BY Least
<1>2. m - 1 \in Nat /\ m - 1 \in S
  BY <1>1
<1> QED BY <1>1, <1>2

\* The parts of a recursive definition, named so that the lemmas about it need no
\* operator parameter: for s in S it takes the value at nx[s], if the measure m says
\* that this is nearer the end, and G makes of it the value at s; otherwise it is B[s].
Measured(S, n, m) == n \in Nat /\ m \in [S -> 0..n]

Defines(S, X, G, B) ==
  /\ \A s \in S : B[s] \in X
  /\ \A s \in S : \A x \in X : G[<<s, x>>] \in X

Solution(S, X, m, nx, G, B) ==
  \E f \in [S -> X] : \A s \in S :
    f[s] = IF nx[s] \in S /\ m[nx[s]] < m[s] THEN G[<<s, f[nx[s]]>>] ELSE B[s]

Inherits(S, T, m, nx) ==
  \A s \in S : (nx[s] \in S /\ m[nx[s]] < m[s] => nx[s] \in T) => s \in T

\* A function may call itself on an argument of smaller measure.
LEMMA Recursion ==
  ASSUME NEW S, NEW X, NEW n, NEW m, NEW nx, NEW G, NEW B,
         Measured(S, n, m), Defines(S, X, G, B)
  PROVE  Solution(S, X, m, nx, G, B)
<1> USE DEF Measured, Defines
<1> DEFINE Calls(s) == nx[s] \in S /\ m[nx[s]] < m[s]
           Below(k) == {s \in S : m[s] < k}
           Good(f, k) == \A s \in Below(k) :
                           f[s] = IF Calls(s) THEN G[<<s, f[nx[s]]>>] ELSE B[s]
           P == {k \in Nat : \E f \in [Below(k) -> X] : Good(f, k)}
<1>1. 0 \in P
  <2> DEFINE f == [s \in Below(0) |-> B[s]]
  <2>1. Below(0) = {}
    OBVIOUS
  <2>2. f \in [Below(0) -> X] /\ Good(f, 0)
    BY <2>1
  <2> QED BY <2>2
<1>2. ASSUME NEW k \in Nat, k \in P
      PROVE  k + 1 \in P
  <2>1. PICK f \in [Below(k) -> X] : Good(f, k)
    BY <1>2
  <2> DEFINE g == [s \in Below(k + 1) |->
                     IF s \in Below(k) THEN f[s]
                     ELSE IF Calls(s) THEN G[<<s, f[nx[s]]>>] ELSE B[s]]
  <2>2. \A s \in Below(k + 1) : Calls(s) => nx[s] \in Below(k)
    OBVIOUS
  <2>3. g \in [Below(k + 1) -> X]
    BY <2>2
  <2>4. Below(k) \subseteq Below(k + 1)
    OBVIOUS
  <2>5. \A s \in Below(k) : g[s] = f[s]
    BY <2>4
  <2>6. Good(g, k + 1)
    <3> SUFFICES ASSUME NEW s \in Below(k + 1)
                 PROVE  g[s] = IF Calls(s) THEN G[<<s, g[nx[s]]>>] ELSE B[s]
      OBVIOUS
    <3>1. Calls(s) => g[nx[s]] = f[nx[s]]
      BY <2>2, <2>5
    <3>2. CASE s \in Below(k)
      BY <3>1, <3>2, <2>1, <2>5
    <3>3. CASE s \notin Below(k)
      BY <3>1, <3>3
    <3> QED BY <3>2, <3>3
  <2>7. \E h \in [Below(k + 1) -> X] : Good(h, k + 1)
    <3> HIDE DEF g, Below, Good
    <3> QED BY <2>3, <2>6
  <2> HIDE DEF Below, Good
  <2> QED BY <2>7
<1>3. n + 1 \in P
  <2> HIDE DEF P
  <2> QED BY <1>1, <1>2, Induction
<1>4. Below(n + 1) = S
  OBVIOUS
<1>5. PICK f \in [Below(n + 1) -> X] : Good(f, n + 1)
  BY <1>3
<1> QED BY <1>4, <1>5 DEF Solution

\* Induction along the calls of such a function.
LEMMA AlongCalls ==
  ASSUME NEW S, NEW T, NEW n, NEW m, NEW nx, Measured(S, n, m), Inherits(S, T, m, nx)
  PROVE  S \subseteq T
<1> USE DEF Measured, Inherits
<1> DEFINE P == {k \in Nat : \A s \in S : m[s] < k => s \in T}
<1>1. 0 \in P
  OBVIOUS
<1>2. ASSUME NEW k \in Nat, k \in P
      PROVE  k + 1 \in P
  <2> SUFFICES ASSUME NEW s \in S, m[s] < k + 1
               PROVE  s \in T
    OBVIOUS
  <2>1. nx[s] \in S /\ m[nx[s]] < m[s] => nx[s] \in T
    BY <1>2
  <2> QED BY <2>1
<1>3. n + 1 \in P
  <2> HIDE DEF P
  <2> QED BY <1>1, <1>2, Induction
<1> QED BY <1>3

\* The two for a function of 0..n that calls itself on the number before.
LEMMA Climb ==
  ASSUME NEW n \in Nat, NEW T, 0 \in T, \A i \in 0..n - 1 : i \in T => i + 1 \in T
  PROVE  0..n \subseteq T
<1> DEFINE P == {k \in Nat : k <= n => k \in T}
<1>1. 0 \in P
  OBVIOUS
<1>2. ASSUME NEW k \in Nat, k \in P
      PROVE  k + 1 \in P
  <2>1. k + 1 <= n => k \in 0..n - 1
    OBVIOUS
  <2> QED BY <1>2, <2>1
<1>3. Nat \subseteq P
  <2> HIDE DEF P
  <2> QED BY <1>1, <1>2, Induction
<1> QED BY <1>3

Iterated(X, n, x, G) ==
  \E f \in [0..n -> X] : f[0] = x /\ \A i \in 1..n : f[i] = G[<<i, f[i - 1]>>]

LEMMA Iteration ==
  ASSUME NEW X, NEW n \in Nat, NEW x \in X, NEW G,
         \A i \in 1..n : \A y \in X : G[<<i, y>>] \in X
  PROVE  Iterated(X, n, x, G)
<1> DEFINE S  == 0..n
           m  == [i \in S |-> i]
           nx == [i \in S |-> i - 1]
           F  == [p \in S \X X |-> IF p[1] = 0 THEN x ELSE G[p]]
           B  == [i \in S |-> x]
<1>1. Measured(S, n, m)
  BY DEF Measured
<1>2. \A i \in S : \A y \in X : F[<<i, y>>] = (IF i = 0 THEN x ELSE G[<<i, y>>]) /\ F[<<i, y>>] \in X
  <2> SUFFICES ASSUME NEW i \in S, NEW y \in X
               PROVE  F[<<i, y>>] = (IF i = 0 THEN x ELSE G[<<i, y>>]) /\ F[<<i, y>>] \in X
    OBVIOUS
  <2> DEFINE p == <<i, y>>
  <2>1. p \in S \X X /\ p[1] = i
    OBVIOUS
  <2>2. i # 0 => G[p] \in X
    OBVIOUS
  <2> HIDE DEF p
  <2>3. F[p] = (IF i = 0 THEN x ELSE G[p]) /\ F[p] \in X
    BY <2>1, <2>2
  <2> QED BY <2>3 DEF p
<1>3. Solution(S, X, m, nx, F, B)
  <2>1. Defines(S, X, F, B)
    BY <1>2 DEF Defines
  <2> HIDE DEF S, m, nx, F, B
  <2> QED BY <1>1, <2>1, Recursion
<1>4. PICK f \in [S -> X] : \A i \in S :
        f[i] = IF nx[i] \in S /\ m[nx[i]] < m[i] THEN F[<<i, f[nx[i]]>>] ELSE B[i]
  BY <1>3 DEF Solution
<1>5. f[0] = x
  <2>1. 0 \in S /\ nx[0] \notin S
    OBVIOUS
  <2> HIDE DEF nx, m, F
  <2> QED BY <1>4, <2>1
<1>6. ASSUME NEW i \in 1..n
      PROVE  f[i] = G[<<i, f[i - 1]>>]
  <2>1. i \in S /\ i # 0 /\ nx[i] = i - 1 /\ i - 1 \in S /\ m[i - 1] < m[i]
    OBVIOUS
  <2>2. f[i - 1] \in X
    BY <2>1
  <2> HIDE DEF nx, m, F, S
  <2> QED BY <1>2, <1>4, <2>1, <2>2
<1> QED BY <1>5, <1>6 DEF Iterated

-----------------------------------------------------------------------------
LEMMA MinIs ==
  ASSUME NEW S \in SUBSET Nat, S # {}
  PROVE  /\ Min(S) \in S
         /\ \A n \in S : Min(S) <= n
<1>1. \E m \in S : \A n \in S : m <= n
  BY Least
<1> QED BY <1>1 DEF Min

\* The recursive function in FlattenSeq.
LEMMA FlattenIs ==
  ASSUME NEW T, NEW ss \in Seq(Seq(T))
  PROVE  \E f \in [1..Len(ss) -> Seq(T)] :
           /\ \A i \in 1..Len(ss) : f[i] = IF i = 1 THEN ss[i] ELSE f[i - 1] \o ss[i]
           /\ FlattenSeq(ss) = IF Len(ss) = 0 THEN <<>> ELSE f[Len(ss)]
<1> DEFINE n  == Len(ss)
           S  == 1..n
           m  == [i \in S |-> i]
           nx == [i \in S |-> i - 1]
           G  == [p \in S \X Seq(T) |-> p[2] \o ss[p[1]]]
           Is(f) == f = [i \in 1..Len(ss) |-> IF i = 1 THEN ss[i] ELSE f[i - 1] \o ss[i]]
<1>1. Measured(S, n, m)
  BY DEF Measured
<1>2. \A i \in S : ss[i] \in Seq(T)
  OBVIOUS
<1>3. ASSUME NEW i \in S, NEW x \in Seq(T)
      PROVE  G[<<i, x>>] = x \o ss[i] /\ x \o ss[i] \in Seq(T)
  BY <1>2, ConcatProperties
<1>4. PICK f \in [S -> Seq(T)] : \A i \in S :
        f[i] = IF nx[i] \in S /\ m[nx[i]] < m[i] THEN G[<<i, f[nx[i]]>>] ELSE ss[i]
  <2>1. Defines(S, Seq(T), G, ss)
    BY <1>2, <1>3 DEF Defines
  <2>2. Solution(S, Seq(T), m, nx, G, ss)
    <3> HIDE DEF G, m, nx, S, n
    <3> QED BY <1>1, <2>1, Recursion
  <2> QED BY <2>2 DEF Solution
<1>5. \A i \in S : nx[i] \in S /\ m[nx[i]] < m[i] <=> i # 1
  OBVIOUS
<1>6. \A i \in S : f[i] = IF i = 1 THEN ss[i] ELSE f[i - 1] \o ss[i]
  <2> TAKE i \in S
  <2>1. CASE i = 1
    BY <1>4, <1>5, <2>1
  <2>2. CASE i # 1
    <3>1. i - 1 \in S /\ nx[i] = i - 1
      BY <2>2
    <3>2. f[i - 1] \in Seq(T)
      BY <3>1
    <3> HIDE DEF G
    <3> QED BY <1>3, <1>4, <1>5, <2>2, <3>1, <3>2
  <2> QED BY <2>1, <2>2
<1>7. Is(f)
  BY <1>6
<1>8. Is(CHOOSE g : Is(g))
  <2> HIDE DEF Is
  <2> QED BY <1>7
<1> DEFINE g == CHOOSE g : Is(g)
<1>9. DOMAIN g = S /\ \A i \in S : g[i] = IF i = 1 THEN ss[i] ELSE g[i - 1] \o ss[i]
  BY <1>8
<1>10. FlattenSeq(ss) = IF Len(ss) = 0 THEN <<>> ELSE g[Len(ss)]
  BY DEF FlattenSeq
<1> HIDE DEF g
<1>11. \A i \in S : g[i] = f[i]
  <2> DEFINE U == {i \in S : g[i] = f[i]}
  <2>1. Inherits(S, U, m, nx)
    <3> SUFFICES ASSUME NEW i \in S, nx[i] \in S /\ m[nx[i]] < m[i] => nx[i] \in U
                 PROVE  g[i] = f[i]
      BY DEF Inherits
    <3>1. CASE i = 1
      BY <1>6, <1>9, <3>1
    <3>2. CASE i # 1
      <4>1. nx[i] = i - 1 /\ nx[i] \in U
        BY <1>5, <3>2
      <4>2. g[i - 1] = f[i - 1]
        BY <4>1
      <4> QED BY ONLY <1>6, <1>9, <3>2, <4>2, i \in S
    <3> QED BY <3>1, <3>2
  <2>2. S \subseteq U
    <3> HIDE DEF U, m, nx, S, n
    <3> QED BY <1>1, <2>1, AlongCalls
  <2> QED BY <2>2
<1>12. FlattenSeq(ss) = IF Len(ss) = 0 THEN <<>> ELSE f[Len(ss)]
  BY <1>10, <1>11
<1> QED BY <1>6, <1>12

LEMMA FlattenType ==
  ASSUME NEW T, NEW ss \in Seq(Seq(T))
  PROVE  FlattenSeq(ss) \in Seq(T)
<1>1. PICK f \in [1..Len(ss) -> Seq(T)] :
        FlattenSeq(ss) = IF Len(ss) = 0 THEN <<>> ELSE f[Len(ss)]
  BY FlattenIs
<1>2. Len(ss) # 0 => Len(ss) \in 1..Len(ss)
  OBVIOUS
<1> QED BY <1>1, <1>2

LEMMA FlattenAppend ==
  ASSUME NEW T, NEW ss \in Seq(Seq(T)), NEW x \in Seq(T)
  PROVE  FlattenSeq(Append(ss, x)) = FlattenSeq(ss) \o x
<1> DEFINE n  == Len(ss)
           tt == Append(ss, x)
<1>1. n \in Nat /\ tt \in Seq(Seq(T)) /\ Len(tt) = n + 1 /\ tt[n + 1] = x
      /\ \A i \in 1..n : tt[i] = ss[i]
  OBVIOUS
<1>2. PICK f \in [1..n -> Seq(T)] :
        /\ \A i \in 1..n : f[i] = IF i = 1 THEN ss[i] ELSE f[i - 1] \o ss[i]
        /\ FlattenSeq(ss) = IF n = 0 THEN <<>> ELSE f[n]
  BY FlattenIs
<1>3. PICK g \in [1..Len(tt) -> Seq(T)] :
        /\ \A i \in 1..Len(tt) : g[i] = IF i = 1 THEN tt[i] ELSE g[i - 1] \o tt[i]
        /\ FlattenSeq(tt) = IF Len(tt) = 0 THEN <<>> ELSE g[Len(tt)]
  <2> HIDE DEF tt
  <2> QED BY <1>1, FlattenIs
<1> HIDE DEF tt
<1>4. \A i \in 1..n : g[i] = f[i]
  <2> DEFINE P == {k \in Nat : k \in 1..n => g[k] = f[k]}
  <2>1. 0 \in P
    OBVIOUS
  <2>2. ASSUME NEW k \in Nat, k \in P
        PROVE  k + 1 \in P
    <3> SUFFICES ASSUME k + 1 \in 1..n
                 PROVE  g[k + 1] = f[k + 1]
      OBVIOUS
    <3> DEFINE i == k + 1
    <3>1. i \in 1..n /\ i \in 1..Len(tt) /\ i - 1 = k /\ tt[i] = ss[i]
      BY <1>1
    <3> HIDE DEF i, n
    <3>2. ASSUME i = 1
          PROVE  g[i] = f[i]
      BY <1>2, <1>3, <3>1, <3>2
    <3>3. ASSUME i # 1
          PROVE  g[i] = f[i]
      <4>1. k \in 1..n
        BY <1>1, <3>1, <3>3
      <4>2. g[k] = f[k]
        BY <2>2, <4>1
      <4>3. g[i] = g[k] \o tt[i]
        BY <1>3, <3>1, <3>3
      <4>4. f[i] = f[k] \o ss[i]
        BY <1>2, <3>1, <3>3
      <4> QED BY <3>1, <4>2, <4>3, <4>4
    <3>4. g[i] = f[i]
      BY <3>2, <3>3
    <3> QED BY <3>4 DEF i
  <2>3. Nat \subseteq P
    <3> HIDE DEF P
    <3> QED BY <2>1, <2>2, Induction
  <2> QED BY <2>3
<1>5. CASE n = 0
  <2>1. FlattenSeq(tt) = x
    BY <1>1, <1>3, <1>5
  <2> QED BY <1>2, <1>5, <2>1, ConcatEmptySeq DEF tt
<1>6. CASE n # 0
  <2>1. n \in 1..n /\ g[n] = f[n]
    BY <1>1, <1>4, <1>6
  <2>2. FlattenSeq(tt) = g[n] \o x
    <3> DEFINE i == n + 1
    <3>1. i \in 1..Len(tt) /\ i - 1 = n /\ tt[i] = x /\ Len(tt) = i /\ Len(tt) # 0 /\ i # 1
      BY <1>1, <1>6
    <3> HIDE DEF i, n
    <3>2. g[i] = g[n] \o tt[i]
      BY <1>3, <3>1
    <3> QED BY <1>3, <3>1, <3>2
  <2> QED BY <1>2, <1>6, <2>1, <2>2 DEF tt
<1> QED BY <1>5, <1>6

LEMMA FlattenEmpty == FlattenSeq(<<>>) = <<>>
  BY DEF FlattenSeq

-----------------------------------------------------------------------------
(* The first k of several sequences, put together. *)

UpTo(ss, k) == FlattenSeq(SubSeq(ss, 1, k))

LEMMA UpToStep ==
  ASSUME NEW T, NEW ss \in Seq(Seq(T))
  PROVE  /\ UpTo(ss, 0) = <<>> /\ UpTo(ss, Len(ss)) = FlattenSeq(ss)
         /\ \A k \in 0..Len(ss) : UpTo(ss, k) \in Seq(T)
         /\ \A k \in 0..Len(ss) - 1 : UpTo(ss, k + 1) = UpTo(ss, k) \o ss[k + 1]
<1>1. UpTo(ss, 0) = <<>>
  <2>1. SubSeq(ss, 1, 0) = <<>>
    BY SubSeqEmpty
  <2> QED BY <2>1, FlattenEmpty DEF UpTo
<1>2. UpTo(ss, Len(ss)) = FlattenSeq(ss)
  BY SubSeqFull DEF UpTo
<1>3. \A k \in 0..Len(ss) : SubSeq(ss, 1, k) \in Seq(Seq(T))
  OBVIOUS
<1>4. \A k \in 0..Len(ss) : UpTo(ss, k) \in Seq(T)
  BY <1>3, FlattenType DEF UpTo
<1>5. ASSUME NEW k \in 0..Len(ss) - 1
      PROVE  UpTo(ss, k + 1) = UpTo(ss, k) \o ss[k + 1]
  <2>1. SubSeq(ss, 1, k) \in Seq(Seq(T)) /\ ss[k + 1] \in Seq(T)
    BY <1>3
  <2>2. SubSeq(ss, 1, k + 1) = Append(SubSeq(ss, 1, k), ss[k + 1])
    OBVIOUS
  <2> QED BY <2>1, <2>2, FlattenAppend DEF UpTo
<1> QED BY <1>1, <1>2, <1>4, <1>5

LEMMA Associative ==
  ASSUME NEW T, NEW x \in Seq(T), NEW y \in Seq(T), NEW z \in Seq(T)
  PROVE  (x \o y) \o z = x \o (y \o z)
  BY ConcatAssociative

LEMMA UpToRest ==
  ASSUME NEW T, NEW ss \in Seq(Seq(T)), NEW k \in 0..Len(ss)
  PROVE  \E r \in Seq(T) : FlattenSeq(ss) = UpTo(ss, k) \o r
<1> DEFINE n == Len(ss)
           R(j) == \E r \in Seq(T) : FlattenSeq(ss) = UpTo(ss, j) \o r
           P == {j \in Nat : j <= n => R(n - j)}
<1>1. R(n)
  <2>1. FlattenSeq(ss) = UpTo(ss, n) \o <<>>
    BY UpToStep, ConcatEmptySeq, FlattenType
  <2>2. <<>> \in Seq(T)
    OBVIOUS
  <2> QED BY <2>1, <2>2
<1>2. ASSUME NEW i \in 0..n - 1, R(i + 1)
      PROVE  R(i)
  <2>1. PICK r \in Seq(T) : FlattenSeq(ss) = UpTo(ss, i + 1) \o r
    BY <1>2
  <2>2. i \in 0..Len(ss) /\ i \in 0..Len(ss) - 1 /\ i + 1 \in 1..Len(ss)
    OBVIOUS
  <2>3. UpTo(ss, i + 1) = UpTo(ss, i) \o ss[i + 1] /\ UpTo(ss, i) \in Seq(T)
    BY <2>2, UpToStep
  <2>4. ss[i + 1] \in Seq(T)
    BY <2>2
  <2>5. ss[i + 1] \o r \in Seq(T)
    BY <2>4, ConcatProperties
  <2>6. FlattenSeq(ss) = UpTo(ss, i) \o (ss[i + 1] \o r)
    <3> DEFINE a == UpTo(ss, i)
               b == ss[i + 1]
    <3>1. a \in Seq(T) /\ b \in Seq(T) /\ r \in Seq(T)
      BY <2>3, <2>4
    <3>2. FlattenSeq(ss) = (a \o b) \o r
      BY <2>1, <2>3
    <3> HIDE DEF a, b, n
    <3>3. (a \o b) \o r = a \o (b \o r)
      BY ONLY <3>1, Associative, SMTT(30)
    <3> QED BY <3>2, <3>3 DEF a, b
  <2> QED BY <2>5, <2>6
<1> HIDE DEF R
<1>3. 0 \in P
  <2>1. n - 0 = n
    OBVIOUS
  <2> QED BY <1>1, <2>1
<1>4. ASSUME NEW j \in Nat, j \in P
      PROVE  j + 1 \in P
  <2> SUFFICES ASSUME j + 1 <= n
               PROVE  R(n - (j + 1))
    OBVIOUS
  <2>1. n - (j + 1) \in 0..n - 1 /\ n - (j + 1) + 1 = n - j /\ j <= n
    OBVIOUS
  <2> QED BY <1>2, <1>4, <2>1
<1>5. n - k \in P
  <2>1. n - k \in Nat
    OBVIOUS
  <2> HIDE DEF P
  <2> QED BY <1>3, <1>4, <2>1, Induction
<1>6. n - k <= n /\ n - (n - k) = k
  OBVIOUS
<1>7. R(k)
  BY <1>5, <1>6
<1> QED BY <1>7 DEF R

\* Where the k + 1-st of them is in the whole.
LEMMA UpToPart ==
  ASSUME NEW T, NEW ss \in Seq(Seq(T)), NEW k \in 0..Len(ss) - 1
  PROVE  /\ Len(UpTo(ss, k)) \in Nat /\ Len(ss[k + 1]) \in Nat
         /\ Len(UpTo(ss, k + 1)) = Len(UpTo(ss, k)) + Len(ss[k + 1])
         /\ Len(UpTo(ss, k + 1)) <= Len(FlattenSeq(ss))
         /\ \A i \in 1..Len(ss[k + 1]) : FlattenSeq(ss)[Len(UpTo(ss, k)) + i] = ss[k + 1][i]
<1> DEFINE a == UpTo(ss, k)
           b == ss[k + 1]
<1>1. k + 1 \in 1..Len(ss) /\ k \in 0..Len(ss) /\ k + 1 \in 0..Len(ss)
  OBVIOUS
<1>2. a \in Seq(T) /\ b \in Seq(T)
  BY <1>1, UpToStep
<1>3. UpTo(ss, k + 1) = a \o b
  BY UpToStep
<1>4. PICK r \in Seq(T) : FlattenSeq(ss) = (a \o b) \o r
  BY <1>1, <1>3, UpToRest, ZenonT(30)
<1> HIDE DEF a, b
<1>5. /\ Len(a) \in Nat /\ Len(b) \in Nat /\ Len(a \o b) = Len(a) + Len(b)
      /\ Len((a \o b) \o r) = Len(a) + Len(b) + Len(r) /\ Len(r) \in Nat
  BY <1>2
<1>6. \A i \in 1..Len(b) : ((a \o b) \o r)[Len(a) + i] = b[i]
  <2> TAKE i \in 1..Len(b)
  <2>1. (a \o b)[Len(a) + i] = b[i]
    BY <1>2, <1>5
  <2>2. ((a \o b) \o r)[Len(a) + i] = (a \o b)[Len(a) + i]
    BY <1>2, <1>5
  <2> QED BY <2>1, <2>2
<1>7. /\ Len(a) \in Nat /\ Len(b) \in Nat
      /\ Len(UpTo(ss, k + 1)) = Len(a) + Len(b)
      /\ Len(UpTo(ss, k + 1)) <= Len(FlattenSeq(ss))
      /\ \A i \in 1..Len(b) : FlattenSeq(ss)[Len(a) + i] = b[i]
  BY <1>3, <1>4, <1>5, <1>6
<1> QED BY <1>7 DEF a, b

LEMMA Part ==
  ASSUME NEW T, NEW s \in Seq(T), NEW a \in Nat, NEW k \in Nat, a + k <= Len(s)
  PROVE  /\ SubSeq(s, a + 1, a + k) \in Seq(T)
         /\ Len(SubSeq(s, a + 1, a + k)) = k
         /\ \A i \in 1..k : SubSeq(s, a + 1, a + k)[i] = s[a + i]
<1>1. \A i \in a + 1..a + k : s[i] \in T
  OBVIOUS
<1>2. SubSeq(s, a + 1, a + k) \in Seq(T)
      /\ Len(SubSeq(s, a + 1, a + k)) = IF a + 1 <= a + k THEN (a + k) - (a + 1) + 1 ELSE 0
  BY <1>1, SubSeqProperties
<1>3. ASSUME NEW i \in 1..k
      PROVE  SubSeq(s, a + 1, a + k)[i] = s[a + i]
  <2>1. i \in 1..(a + k) - (a + 1) + 1 /\ a + 1 + i - 1 = a + i
    OBVIOUS
  <2> QED BY <1>1, <2>1, SubSeqProperties
<1> QED BY <1>2, <1>3

LEMMA Joined ==
  ASSUME NEW T, NEW s \in Seq(T), NEW t \in Seq(T)
  PROVE  /\ s \o t \in Seq(T) /\ Len(s \o t) = Len(s) + Len(t)
         /\ Len(s) \in Nat /\ Len(t) \in Nat
         /\ \A i \in 1..Len(s) : (s \o t)[i] = s[i]
         /\ \A i \in 1..Len(t) : (s \o t)[Len(s) + i] = t[i]
<1>1. Len(s) \in Nat /\ Len(t) \in Nat
  OBVIOUS
<1>2. s \o t \in Seq(T) /\ Len(s \o t) = Len(s) + Len(t)
      /\ \A i \in 1..Len(s) + Len(t) : (s \o t)[i] = IF i <= Len(s) THEN s[i] ELSE t[i - Len(s)]
  BY ConcatProperties
<1>3. \A i \in 1..Len(t) : Len(s) + i \in 1..Len(s) + Len(t) /\ ~(Len(s) + i <= Len(s))
                           /\ Len(s) + i - Len(s) = i
  BY <1>1
<1>4. \A i \in 1..Len(t) : (s \o t)[Len(s) + i] = t[i]
  <2> TAKE i \in 1..Len(t)
  <2> DEFINE j == Len(s) + i
  <2>1. j \in 1..Len(s) + Len(t) /\ ~(j <= Len(s)) /\ j - Len(s) = i
    BY <1>3
  <2> HIDE DEF j
  <2>2. (s \o t)[j] = t[i]
    BY <1>2, <2>1
  <2> QED BY <2>2 DEF j
<1> QED BY <1>1, <1>2, <1>4

LEMMA JoinedAt ==
  ASSUME NEW T, NEW s \in Seq(T), NEW t \in Seq(T), NEW a, a = Len(s), NEW d, d = Len(t)
  PROVE  /\ s \o t \in Seq(T) /\ Len(s \o t) = a + d
         /\ a \in Nat /\ d \in Nat
         /\ \A i \in 1..a : (s \o t)[i] = s[i]
         /\ \A i \in 1..d : (s \o t)[a + i] = t[i]
  BY Joined

\* A sequence over part of T.
LEMMA Elements ==
  ASSUME NEW T, NEW S \in SUBSET T, NEW s \in Seq(S)
  PROVE  /\ s \in Seq(T) /\ Len(s) \in Nat /\ DOMAIN s = 1..Len(s)
         /\ \A i \in 1..Len(s) : s[i] \in S
  OBVIOUS

LEMMA Words ==
  ASSUME NEW T, NEW x \in T, NEW y \in T
  PROVE  /\ <<x>> \in Seq(T) /\ Len(<<x>>) = 1 /\ <<x>>[1] = x
         /\ <<x, y>> \in Seq(T) /\ Len(<<x, y>>) = 2 /\ <<x, y>>[1] = x /\ <<x, y>>[2] = y
  OBVIOUS

LEMMA SameStart ==
  ASSUME NEW T, NEW s \in Seq(T), NEW t \in Seq(T)
  PROVE  IsPrefix(s, t) <=> Len(s) <= Len(t) /\ \A i \in 1..Len(s) : t[i] = s[i]
<1>1. Len(s) \in Nat /\ Len(t) \in Nat /\ SubSeq(s, 1, Len(s)) = s
  BY SubSeqFull
<1>2. ASSUME Len(s) <= Len(t)
      PROVE  SubSeq(t, 1, Len(s)) = s <=> \A i \in 1..Len(s) : t[i] = s[i]
  <2> DEFINE n == Len(s)
             x == SubSeq(t, 1, n)
  <2>1. x \in Seq(T) /\ Len(x) = n /\ \A i \in 1..n : x[i] = t[i]
    <3>1. 0 + n <= Len(t) /\ 0 + n = n /\ 0 + 1 = 1 /\ \A i \in 1..n : 0 + i = i
      BY <1>1, <1>2
    <3> HIDE DEF n
    <3>2. LET y == SubSeq(t, 0 + 1, 0 + n)
          IN  y \in Seq(T) /\ Len(y) = n /\ \A i \in 1..n : y[i] = t[0 + i]
      BY <1>1, <3>1, Part DEF n
    <3> QED BY <3>1, <3>2
  <2> HIDE DEF x
  <2>2. x = s <=> \A i \in 1..Len(s) : x[i] = s[i]
    BY <2>1, SeqEqual
  <2> QED BY <2>1, <2>2 DEF x
<1> QED BY <1>1, <1>2 DEF IsPrefix
=============================================================================
