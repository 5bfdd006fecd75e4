------------------------- MODULE ChunkedBodyProofs -------------------------
(***************************************************************************)
(* What is proved about ChunkedBody.                                       *)
(***************************************************************************)
EXTENDS ChunkedBody, SequenceLemmas

\* A digit is no blank, and has a value.
LEMMA Digit ==
  /\ Hex \cap Spaces = {}
  /\ \A d \in Hex : HexValue(d) \in Nat
  /\ "0" \in Hex /\ HexValue("0") = 0
<1>1. DOMAIN Digits = 1..16
  BY DEF Digits
<1>2. \A d \in Hex : \E n \in DOMAIN Digits : Digits[n] = d
  BY DEF Hex, ToSet
<1>3. \A d \in Hex : HexValue(d) \in Nat
  BY <1>1, <1>2 DEF HexValue
<1>4. \A n \in DOMAIN Digits : Digits[n] \notin Spaces /\ (Digits[n] = "0" <=> n = 1)
  <2>1. /\ Digits[1] = "0" /\ Digits[2] = "1" /\ Digits[3] = "2" /\ Digits[4] = "3"
        /\ Digits[5] = "4" /\ Digits[6] = "5" /\ Digits[7] = "6" /\ Digits[8] = "7"
        /\ Digits[9] = "8" /\ Digits[10] = "9" /\ Digits[11] = "a" /\ Digits[12] = "b"
        /\ Digits[13] = "c" /\ Digits[14] = "d" /\ Digits[15] = "e" /\ Digits[16] = "f"
    BY DEF Digits
  <2>2. \A n \in 1..16 : \/ n = 1 \/ n = 2 \/ n = 3 \/ n = 4 \/ n = 5 \/ n = 6 \/ n = 7 \/ n = 8
                         \/ n = 9 \/ n = 10 \/ n = 11 \/ n = 12 \/ n = 13 \/ n = 14 \/ n = 15
                         \/ n = 16
    OBVIOUS
  <2> QED BY <1>1, <2>1, <2>2 DEF Spaces, CR, LF
<1>5. Hex \cap Spaces = {}
  BY <1>2, <1>4
<1>6. 1 \in DOMAIN Digits /\ Digits[1] = "0"
  BY <1>1, <1>4
<1>7. "0" \in Hex
  BY <1>6 DEF Hex, ToSet
<1>8. HexValue("0") = 0
  BY <1>4, <1>6 DEF HexValue
<1> QED BY <1>3, <1>5, <1>7, <1>8

\* The recursive function in Value.
LEMMA ValueIs ==
  ASSUME NEW s \in Seq(Hex)
  PROVE  \E v \in [0..Len(s) -> Nat] :
           /\ v[0] = 0
           /\ \A i \in 1..Len(s) : v[i] = 16 * v[i - 1] + HexValue(s[i])
           /\ Value(s) = v[Len(s)]
<1> DEFINE n  == Len(s)
           S  == 0..n
           m  == [i \in S |-> i]
           nx == [i \in S |-> i - 1]
           G  == [p \in S \X Nat |-> IF p[1] = 0 THEN 0 ELSE 16 * p[2] + HexValue(s[p[1]])]
           B  == [i \in S |-> 0]
           Is(f) == f = [i \in 0..Len(s) |-> IF i = 0 THEN 0 ELSE 16 * f[i - 1] + HexValue(s[i])]
<1>1. Measured(S, n, m)
  BY DEF Measured
<1>2. ASSUME NEW i \in S \ {0}, NEW x \in Nat
      PROVE  16 * x + HexValue(s[i]) \in Nat
  <2>1. s[i] \in Hex
    OBVIOUS
  <2>2. HexValue(s[i]) \in Nat
    BY <2>1, Digit
  <2> QED BY <2>2
<1>3. \A i \in S : \A x \in Nat :
        /\ G[<<i, x>>] = IF i = 0 THEN 0 ELSE 16 * x + HexValue(s[i])
        /\ G[<<i, x>>] \in Nat
  BY <1>2
<1>4. Solution(S, Nat, m, nx, G, B)
  <2>1. Defines(S, Nat, G, B)
    BY <1>3 DEF Defines
  <2> HIDE DEF S, n, m, nx, G, B
  <2> QED BY <1>1, <2>1, Recursion
<1>5. PICK f \in [S -> Nat] : \A i \in S :
        f[i] = IF nx[i] \in S /\ m[nx[i]] < m[i] THEN G[<<i, f[nx[i]]>>] ELSE B[i]
  BY <1>4 DEF Solution
<1>6. \A i \in S : nx[i] \in S /\ m[nx[i]] < m[i] <=> i # 0
  OBVIOUS
<1>7. \A i \in S : f[i] = IF i = 0 THEN 0 ELSE 16 * f[i - 1] + HexValue(s[i])
  <2> TAKE i \in S
  <2>1. CASE i = 0
    BY <1>5, <1>6, <2>1
  <2>2. CASE i # 0
    <3>1. nx[i] = i - 1 /\ i - 1 \in S
      BY <2>2
    <3>2. f[i - 1] \in Nat
      BY <3>1
    <3> HIDE DEF G, S
    <3> QED BY <1>3, <1>5, <1>6, <2>2, <3>1, <3>2
  <2> QED BY <2>1, <2>2
<1>8. Is(f)
  BY <1>7
<1>9. Is(CHOOSE g : Is(g))
  <2> HIDE DEF Is
  <2> QED BY <1>8
<1> DEFINE g == CHOOSE g : Is(g)
<1>10. DOMAIN g = S /\ \A i \in S : g[i] = IF i = 0 THEN 0 ELSE 16 * g[i - 1] + HexValue(s[i])
  BY <1>9
<1>11. Value(s) = g[Len(s)]
  BY DEF Value
<1> HIDE DEF g
<1>12. \A i \in S : g[i] = f[i]
  <2> DEFINE U == {i \in S : g[i] = f[i]}
  <2>1. Inherits(S, U, m, nx)
    <3> SUFFICES ASSUME NEW i \in S, nx[i] \in S /\ m[nx[i]] < m[i] => nx[i] \in U
                 PROVE  g[i] = f[i]
      BY DEF Inherits
    <3>1. CASE i = 0
      BY <1>7, <1>10, <3>1
    <3>2. CASE i # 0
      <4>1. nx[i] = i - 1 /\ nx[i] \in U
        BY <1>6, <3>2
      <4>2. g[i - 1] = f[i - 1]
        BY <4>1
      <4> QED BY ONLY <1>7, <1>10, <3>2, <4>2, i \in S
    <3> QED BY <3>1, <3>2
  <2>2. S \subseteq U
    <3> HIDE DEF U, m, nx, S, n
    <3> QED BY <1>1, <2>1, AlongCalls
  <2> QED BY <2>2
<1>13. 0 \in S /\ n \in S /\ 1..n \subseteq S
  OBVIOUS
<1>14. Value(s) = f[Len(s)]
  BY <1>11, <1>12, <1>13
<1>15. f[0] = 0 /\ \A i \in 1..Len(s) : f[i] = 16 * f[i - 1] + HexValue(s[i])
  BY <1>7, <1>13
<1> QED BY <1>14, <1>15

LEMMA ValueType ==
  ASSUME NEW s \in Seq(Hex)
  PROVE  Value(s) \in Nat
<1>1. PICK v \in [0..Len(s) -> Nat] : Value(s) = v[Len(s)]
  BY ValueIs
<1> QED BY <1>1

LEMMA ValueOfZero == Value(<<"0">>) = 0
<1> DEFINE s == <<"0">>
<1>1. s \in Seq(Hex) /\ Len(s) = 1 /\ s[1] = "0"
  BY Digit
<1> HIDE DEF s
<1>2. PICK v \in [0..Len(s) -> Nat] :
        /\ v[0] = 0
        /\ \A i \in 1..Len(s) : v[i] = 16 * v[i - 1] + HexValue(s[i])
        /\ Value(s) = v[Len(s)]
  BY <1>1, ValueIs
<1>3. v[1] = 16 * v[1 - 1] + HexValue(s[1])
  BY <1>1, <1>2
<1>4. Value(s) = 0
  BY <1>1, <1>2, <1>3, Digit
<1> QED BY <1>4 DEF s

LEMMA FirstNotIn ==
  ASSUME NEW s \in Seq(Byte), NEW S, NEW n \in 0..Len(s)
  PROVE  /\ FirstNot(s, S, n) \in n..Len(s)
         /\ FirstNot(s, S, n) = Len(s) \/ s[FirstNot(s, S, n) + 1] \notin S
         /\ \A i \in n..FirstNot(s, S, n) - 1 : s[i + 1] \in S
<1> DEFINE M == {m \in n .. Len(s) : m = Len(s) \/ s[m + 1] \notin S}
<1>1. M \in SUBSET Nat /\ Len(s) \in M
  OBVIOUS
<1>2. Min(M) \in M /\ \A m \in M : Min(M) <= m
  <2> HIDE DEF M
  <2> QED BY <1>1, MinIs
<1> DEFINE f == Min(M)
<1>3. FirstNot(s, S, n) = f
  BY DEF FirstNot
<1> HIDE DEF f
<1>4. f \in n..Len(s) /\ (f = Len(s) \/ s[f + 1] \notin S)
  BY <1>2 DEF f
<1>5. ASSUME NEW i \in n..f - 1
      PROVE  s[i + 1] \in S
  <2>1. i \in n..Len(s) /\ i # Len(s) /\ ~(f <= i)
    BY <1>4
  <2>2. i \notin M
    BY <1>2, <2>1 DEF f
  <2> QED BY <2>1, <2>2
<1> QED BY <1>3, <1>4, <1>5

LEMMA FirstNotIs ==
  ASSUME NEW s \in Seq(Byte), NEW S, NEW n \in 0..Len(s), NEW m \in n..Len(s),
         m = Len(s) \/ s[m + 1] \notin S,
         \A i \in n..m - 1 : s[i + 1] \in S
  PROVE  FirstNot(s, S, n) = m
<1> DEFINE f == FirstNot(s, S, n)
<1>1. /\ f \in n..Len(s)
      /\ f = Len(s) \/ s[f + 1] \notin S
      /\ \A i \in n..f - 1 : s[i + 1] \in S
  BY FirstNotIn
<1> HIDE DEF f
<1>2. ~(f < m)
  BY <1>1
<1>3. ~(m < f)
  BY <1>1
<1> QED BY <1>1, <1>2, <1>3 DEF f

-----------------------------------------------------------------------------
(* Types. *)

\* What a peer sends for one chunk of a body.
Frame(size, data) == size \o <<CR, LF>> \o data \o <<CR, LF>>

Framed(chunk) == Frame(chunk.size, chunk.data)

Frames(b) == [n \in DOMAIN b |-> Framed(b[n])]

LEMMA Framing ==
  ASSUME NEW b \in Bodies
  PROVE  /\ b \in Seq(ToSet(b)) /\ DOMAIN b = 1..Len(b)
         /\ \A n \in 1..Len(b) :
              /\ b[n].size \in Seq(Hex) /\ b[n].size \in Seq(Byte)
              /\ b[n].data \in Seq(Byte) /\ Len(b[n].data) > 0
              /\ Value(b[n].size) = Len(b[n].data)
              /\ Framed(b[n]) \in Seq(Byte)
         /\ Frames(b) \in Seq(Seq(Byte)) /\ Len(Frames(b)) = Len(b)
         /\ Encode(b) = FlattenSeq(Frames(b)) \o <<"0", CR, LF, CR, LF>>
         /\ Encode(b) \in Seq(Byte)
<1>1. b \in Seq(ToSet(b)) /\ DOMAIN b = 1..Len(b) /\ Len(b) \in Nat
  BY Sent
<1>2. Hex \subseteq Byte
  BY DEF Byte
<1>3. CR \in Byte /\ LF \in Byte /\ "0" \in Byte
  BY Digit DEF Byte, Spaces
<1>4. ASSUME NEW n \in 1..Len(b)
      PROVE  /\ b[n].size \in Seq(Hex) /\ b[n].size \in Seq(Byte)
             /\ b[n].data \in Seq(Byte) /\ Len(b[n].data) > 0
             /\ Value(b[n].size) = Len(b[n].data)
             /\ Framed(b[n]) \in Seq(Byte)
  <2>1. b[n].size \in Seq(Hex) /\ b[n].data \in Seq(Byte) \ {<<>>}
        /\ Value(b[n].size) = Len(b[n].data)
    BY <1>1, Sent
  <2>2. b[n].size \in Seq(Byte)
    BY <1>2, <2>1, SeqMonotonic
  <2>3. Len(b[n].data) > 0
    BY <2>1, EmptySeq
  <2>4. <<CR, LF>> \in Seq(Byte)
    BY <1>3
  <2>5. Framed(b[n]) \in Seq(Byte)
    BY <2>1, <2>2, <2>4, ConcatProperties DEF Framed, Frame
  <2> QED BY <2>1, <2>2, <2>3, <2>5
<1>5. Frames(b) \in Seq(Seq(Byte)) /\ Len(Frames(b)) = Len(b)
  BY <1>1, <1>4 DEF Frames
<1>6. Encode(b) = FlattenSeq(Frames(b)) \o <<"0", CR, LF, CR, LF>>
  BY DEF Encode, Frames, Framed, Frame
<1>7. FlattenSeq(Frames(b)) \in Seq(Byte)
  BY <1>5, FlattenType
<1>8. <<"0", CR, LF, CR, LF>> \in Seq(Byte)
  BY <1>3
<1>9. Encode(b) \in Seq(Byte)
  BY <1>6, <1>7, <1>8, ConcatProperties
<1> QED BY <1>1, <1>4, <1>5, <1>6, <1>9

Typed == TypeOK /\ stream \in Seq(Byte) /\ body \in Seq(Byte)

LEMMA BufferIs ==
  ASSUME Typed
  PROVE  /\ Buffer \in Seq(Byte) /\ Len(Buffer) = got /\ got \in Nat
         /\ \A i \in 1..got : Buffer[i] = stream[i]
  BY DEF Typed, TypeOK, Buffer

LEMMA StrtolIs ==
  ASSUME Typed, NEW n \in 0..got
  PROVE  /\ Strtol(n).end \in n..got
         /\ Strtol(n).value \in Nat
<1>1. /\ Buffer \in Seq(Byte) /\ Len(Buffer) = got /\ got \in Nat
  BY BufferIs
<1> DEFINE first == FirstNot(Buffer, Spaces, n)
           end   == FirstNot(Buffer, Hex, first)
           d     == SubSeq(Buffer, first + 1, end)
<1>2. first \in n..got
  BY <1>1, FirstNotIn
<1> HIDE DEF first
<1>3. first \in 0..Len(Buffer)
  BY <1>1, <1>2
<1>4. end \in first..got /\ \A i \in first..end - 1 : Buffer[i + 1] \in Hex
  BY <1>1, <1>3, FirstNotIn
<1> HIDE DEF end
<1>5. d \in Seq(Hex)
  <2>1. \A i \in first + 1..end : Buffer[i] \in Hex
    <3> TAKE i \in first + 1..end
    <3>1. i - 1 \in first..end - 1 /\ i - 1 + 1 = i
      BY <1>2, <1>4
    <3>2. Buffer[i - 1 + 1] \in Hex
      BY <1>4, <3>1
    <3> QED BY <3>1, <3>2
  <2>2. first + 1 \in Int /\ end \in Int
    BY <1>2, <1>4
  <2> QED BY <2>1, <2>2, SubSeqProperties
<1>6. Value(d) \in Nat
  BY <1>5, ValueType
<1>7. Strtol(n).end = (IF end = first THEN n ELSE end) /\ Strtol(n).value = Value(d)
  BY DEF Strtol, first, end, d
<1> QED BY <1>2, <1>4, <1>6, <1>7

\* Reading a size at n, when a size and an end of line are to be found there: the line
\* has ended once all of it has arrived, and the number is then the size's.
LEMMA StrtolAt ==
  ASSUME Typed, NEW n \in 0..got, NEW ds \in Seq(Hex), Len(ds) > 0,
         n + Len(ds) + 2 <= Len(stream),
         \A i \in 1..Len(ds) : stream[n + i] = ds[i],
         stream[n + Len(ds) + 1] = CR, stream[n + Len(ds) + 2] = LF
  PROVE  /\ SizeKnown(Strtol(n)) <=> n + Len(ds) + 2 <= got
         /\ SizeKnown(Strtol(n)) =>
              Strtol(n).end = n + Len(ds) /\ Strtol(n).value = Value(ds)
<1> DEFINE d == Len(ds)
<1>1. /\ Buffer \in Seq(Byte) /\ Len(Buffer) = got /\ got \in Nat
      /\ \A i \in 1..got : Buffer[i] = stream[i]
  BY BufferIs
<1>2. d \in Nat /\ d > 0 /\ n \in Nat /\ n <= got /\ \A i \in 1..d : ds[i] \in Hex \ Spaces /\ stream[n + i] = ds[i]
  BY Digit
<1>3. CR \notin Hex
  BY Digit DEF Spaces
<1>4. FirstNot(Buffer, Spaces, n) = n
  <2>1. n = got \/ Buffer[n + 1] \notin Spaces
    <3>1. ASSUME n # got
          PROVE  Buffer[n + 1] \notin Spaces
      <4>1. n + 1 \in 1..got /\ 1 \in 1..d
        BY <1>1, <1>2, <3>1
      <4>2. Buffer[n + 1] = ds[1]
        BY <1>1, <4>1
      <4> QED BY <1>2, <4>1, <4>2
    <3> QED BY <3>1
  <2>2. n \in 0..Len(Buffer) /\ n \in n..Len(Buffer) /\ \A i \in n..n - 1 : Buffer[i + 1] \in Spaces
    BY <1>1, <1>2
  <2> QED BY <1>1, <2>1, <2>2, FirstNotIs
<1> DEFINE e == IF n + d <= got THEN n + d ELSE got
<1>5. FirstNot(Buffer, Hex, n) = e
  <2>1. n \in 0..Len(Buffer) /\ e \in n..Len(Buffer)
    BY <1>1, <1>2
  <2>2. e = Len(Buffer) \/ Buffer[e + 1] \notin Hex
    <3>1. ASSUME e # got
          PROVE  e + 1 \in 1..got /\ e + 1 = n + d + 1
      BY <1>1, <1>2, <3>1
    <3>2. ASSUME e # got
          PROVE  Buffer[e + 1] = CR
      BY <1>1, <3>1, <3>2
    <3> QED BY <1>1, <1>3, <3>2
  <2>3. \A i \in n..e - 1 : Buffer[i + 1] \in Hex
    <3> TAKE i \in n..e - 1
    <3>1. i + 1 \in 1..got /\ i + 1 - n \in 1..d /\ i + 1 = n + (i + 1 - n)
      BY <1>1, <1>2, SMTT(30)
    <3>2. Buffer[i + 1] = ds[i + 1 - n]
      BY <1>1, <3>1
    <3> QED BY <1>2, <3>1, <3>2
  <2> HIDE DEF e
  <2> QED BY <1>1, <2>1, <2>2, <2>3, FirstNotIs
<1>6. /\ Strtol(n).end = (IF e = n THEN n ELSE e)
      /\ Strtol(n).value = Value(SubSeq(Buffer, n + 1, e))
  BY <1>4, <1>5 DEF Strtol
<1>7. Strtol(n).end = e
  BY <1>6
<1>8. CASE n + d <= got
  <2>1. e = n + d
    BY <1>8
  <2>2. SizeKnown(Strtol(n)) <=> n + d + 2 <= got
    <3>1. n + d + 2 <= got => Buffer[n + d + 1] = CR /\ Buffer[n + d + 2] = LF
      BY <1>1, <1>2
    <3> QED BY <1>1, <1>7, <2>1, <3>1 DEF SizeKnown, CrLf
  <2>3. SubSeq(Buffer, n + 1, n + d) = ds
    <3> DEFINE s == SubSeq(Buffer, n + 1, n + d)
    <3>1. s \in Seq(Byte) /\ Len(s) = d /\ \A i \in 1..d : s[i] = Buffer[n + i]
      <4> HIDE DEF d
      <4> QED BY <1>1, <1>2, <1>8, Part
    <3>2. \A i \in 1..d : s[i] = ds[i]
      <4> TAKE i \in 1..d
      <4> HIDE DEF d
      <4>1. n + i \in 1..got
        BY <1>1, <1>2, <1>8
      <4> QED BY <1>1, <1>2, <3>1, <4>1
    <3> HIDE DEF s
    <3>3. s = ds
      BY <3>1, <3>2, SeqEqual
    <3> QED BY <3>3 DEF s
  <2> QED BY <1>6, <1>7, <2>1, <2>2, <2>3
<1>9. CASE ~(n + d <= got)
  <2>1. e = got
    BY <1>9
  <2>2. ~SizeKnown(Strtol(n))
    BY <1>1, <1>7, <2>1 DEF SizeKnown, CrLf
  <2>3. ~(n + d + 2 <= got)
    BY <1>1, <1>2, <1>9
  <2> QED BY <2>2, <2>3
<1> QED BY <1>8, <1>9

-----------------------------------------------------------------------------
LEMMA InitTyped == Init => Typed
<1> SUFFICES ASSUME Init PROVE Typed
  OBVIOUS
<1>1. stream \in Seq(Byte)
  <2>1. CASE source \in Bodies /\ stream = Encode(source)
    BY <2>1, Framing
  <2>2. CASE stream \in Streams
    BY <2>2, Sent
  <2> QED BY <2>1, <2>2 DEF Init
<1>2. got = 0 /\ readIndex = 0 /\ body = <<>> /\ ended = FALSE /\ error = 0 /\ busy = FALSE
  BY DEF Init
<1>3. Len(stream) \in Nat
  BY <1>1
<1>4. body \in Seq(Byte) /\ Len(body) = 0
  BY <1>2
<1>5. got \in 0..Len(stream) /\ readIndex \in 0..got /\ Len(body) <= readIndex
  BY <1>2, <1>3, <1>4
<1> QED BY <1>1, <1>2, <1>4, <1>5 DEF Typed, TypeOK

\* What parseChunkedBody takes from the buffer, when it takes a chunk.
LEMMA Taken ==
  ASSUME Typed, NEW start \in Nat, NEW size \in Nat, Arrived(start, size)
  PROVE  LET data == SubSeq(stream, start + 1, start + size)
         IN  /\ start + size + 2 \in Nat /\ start + size + 2 <= got
             /\ data \in Seq(Byte) /\ Len(data) = size
             /\ \A i \in 1..size : data[i] = stream[start + i]
             /\ body \o data \in Seq(Byte) /\ Len(body \o data) = Len(body) + size
<1> DEFINE data  == SubSeq(stream, start + 1, start + size)
<1>1. got \in 0..Len(stream) /\ stream \in Seq(Byte) /\ body \in Seq(Byte)
  BY DEF Typed, TypeOK
<1>2. start + size + 2 \in Nat /\ start + size + 2 <= got
  BY DEF Arrived
<1>3. start + size <= Len(stream)
  BY <1>1, <1>2
<1>4. data \in Seq(Byte) /\ Len(data) = size /\ \A i \in 1..size : data[i] = stream[start + i]
  BY <1>1, <1>3, Part
<1> HIDE DEF data
<1>5. body \o data \in Seq(Byte) /\ Len(body \o data) = Len(body) + size
  BY <1>1, <1>4, ConcatProperties
<1> QED BY <1>2, <1>4, <1>5 DEF data

LEMMA NextTyped == Typed /\ [Next]_vars => Typed'
<1> SUFFICES ASSUME Typed, [Next]_vars PROVE Typed'
  OBVIOUS
<1>1. CASE Receive
  BY <1>1 DEF Receive, Typed, TypeOK
<1>2. CASE ParseChunkedBody
  <2> DEFINE num   == Strtol(readIndex)
             start == num.end + 2
  <2>1. UNCHANGED <<stream, source, got>>
    BY <1>2 DEF ParseChunkedBody
  <2>2. CASE SizeKnown(num) /\ num.value = 0 /\ HandleChunkedEnd(start)
    <3>1. /\ error' \in {413, error} /\ busy' = FALSE /\ UNCHANGED <<readIndex, body>>
      BY <2>2 DEF HandleChunkedEnd
    <3>2. ended' \in BOOLEAN
      BY Zenon, <2>2 DEF HandleChunkedEnd
    <3>3. /\ got' \in 0..Len(stream') /\ readIndex' \in 0..got' /\ Len(body') <= readIndex'
          /\ stream' \in Seq(Byte) /\ body' \in Seq(Byte)
      BY ONLY Typed, <2>1, <3>1 DEF Typed, TypeOK
    <3>4. error \in {0, 400, 413}
      BY DEF Typed, TypeOK
    <3>5. error' \in {0, 400, 413}
      BY ONLY <3>1, <3>4
    <3>6. busy' \in BOOLEAN
      BY ONLY Zenon, <3>1
    <3> QED BY ONLY <3>2, <3>3, <3>5, <3>6 DEF Typed, TypeOK
  <2>3. CASE /\ SizeKnown(num) /\ num.value > 0 /\ Arrived(start, num.value)
             /\ AppendChunkedData(start, num.value)
    <3>1. CASE ~CrLf(Buffer, start + num.value)
      <4>1. error' = 400 /\ busy' = FALSE /\ UNCHANGED <<readIndex, body, ended>>
        BY <2>3, <3>1 DEF AppendChunkedData
      <4> QED BY ONLY Typed, <2>1, <4>1 DEF Typed, TypeOK
    <3>2. CASE CrLf(Buffer, start + num.value)
      <4> DEFINE data == SubSeq(stream, start + 1, start + num.value)
      <4>1. body' = body \o data /\ readIndex' = start + num.value + 2
            /\ UNCHANGED <<ended, error, busy>>
        BY <2>3, <3>2 DEF AppendChunkedData, AfterChunk
      <4>2. num.end \in readIndex..got /\ num.value \in Nat /\ readIndex \in Nat
        BY StrtolIs DEF Typed, TypeOK
      <4>3. start \in Nat /\ start >= readIndex
        BY <4>2
      <4> HIDE DEF start
      <4>4. /\ start + num.value + 2 \in Nat /\ start + num.value + 2 <= got
            /\ body \o data \in Seq(Byte) /\ Len(body \o data) = Len(body) + num.value
        BY <2>3, <4>2, <4>3, Taken
      <4> HIDE DEF num, data
      <4> QED BY <2>1, <4>1, <4>2, <4>3, <4>4, SMTT(30) DEF Typed, TypeOK
    <3> QED BY <3>1, <3>2
  <2>4. CASE busy' = FALSE /\ UNCHANGED <<readIndex, body, ended, error>>
    BY <2>1, <2>4 DEF Typed, TypeOK
  <2> QED BY <1>2, <2>2, <2>3, <2>4 DEF ParseChunkedBody
<1>3. CASE UNCHANGED vars
  BY <1>3 DEF vars, Typed, TypeOK
<1> QED BY <1>1, <1>2, <1>3 DEF Next

\* The indices stay inside the buffer, and what has been decoded never outgrows what
\* has been read: parseChunkedBody and appendChunkedData keep this.
THEOREM TypeCorrect == Spec => []TypeOK
<1>1. Spec => []Typed
  BY InitTyped, NextTyped, PTL DEF Spec
<1>2. Typed => TypeOK
  BY DEF Typed
<1> QED BY <1>1, <1>2, PTL

-----------------------------------------------------------------------------
(* Where the parts of a body are in what the peer sends. *)

LEMMA FrameIs ==
  ASSUME NEW size \in Seq(Byte), NEW data \in Seq(Byte)
  PROVE  LET a == Len(size)
             d == Len(data)
         IN  /\ a \in Nat /\ d \in Nat /\ Len(Frame(size, data)) = a + d + 4
             /\ \A i \in 1..a : Frame(size, data)[i] = size[i]
             /\ Frame(size, data)[a + 1] = CR /\ Frame(size, data)[a + 2] = LF
             /\ \A i \in 1..d : Frame(size, data)[a + 2 + i] = data[i]
             /\ Frame(size, data)[a + d + 3] = CR /\ Frame(size, data)[a + d + 4] = LF
<1> DEFINE a == Len(size)
           d == Len(data)
           e == <<CR, LF>>
           x == size \o e
           y == x \o data
           z == y \o e
<1>1. e \in Seq(Byte) /\ 2 = Len(e) /\ e[1] = CR /\ e[2] = LF
  <2>1. CR \in Byte /\ LF \in Byte
    BY DEF Byte, Spaces
  <2> QED BY <2>1
<1>2. a \in Nat /\ d \in Nat
  OBVIOUS
<1> HIDE DEF e
<1>3. x \in Seq(Byte) /\ a + 2 = Len(x) /\ (\A i \in 1..a : x[i] = size[i])
      /\ \A i \in 1..2 : x[a + i] = e[i]
  <2>1. /\ size \o e \in Seq(Byte) /\ Len(size \o e) = Len(size) + Len(e)
        /\ \A i \in 1..Len(size) : (size \o e)[i] = size[i]
        /\ \A i \in 1..Len(e) : (size \o e)[Len(size) + i] = e[i]
    BY <1>1, <1>2, Joined
  <2> QED BY <1>1, <1>2, <2>1
<1> HIDE DEF x
<1>4. y \in Seq(Byte) /\ a + 2 + d = Len(y) /\ (\A i \in 1..a + 2 : y[i] = x[i])
      /\ \A i \in 1..d : y[a + 2 + i] = data[i]
  <2>1. /\ x \o data \in Seq(Byte) /\ Len(x \o data) = Len(x) + Len(data)
        /\ \A i \in 1..Len(x) : (x \o data)[i] = x[i]
        /\ \A i \in 1..Len(data) : (x \o data)[Len(x) + i] = data[i]
    BY <1>2, <1>3, Joined
  <2> QED BY <1>2, <1>3, <2>1
<1> HIDE DEF y
<1>5. z \in Seq(Byte) /\ a + 2 + d + 2 = Len(z) /\ (\A i \in 1..a + 2 + d : z[i] = y[i])
      /\ \A i \in 1..2 : z[a + 2 + d + i] = e[i]
  <2>1. /\ y \o e \in Seq(Byte) /\ Len(y \o e) = Len(y) + Len(e)
        /\ \A i \in 1..Len(y) : (y \o e)[i] = y[i]
        /\ \A i \in 1..Len(e) : (y \o e)[Len(y) + i] = e[i]
    BY <1>1, <1>2, <1>4, Joined
  <2> QED BY <1>1, <1>2, <1>4, <2>1
<1> HIDE DEF z, a, d
<1>6. Frame(size, data) = z
  BY DEF Frame, x, y, z, e
<1>7. \A i \in 1..a : z[i] = size[i]
  BY <1>2, <1>3, <1>4, <1>5
<1>8. z[a + 1] = CR /\ z[a + 2] = LF
  <2>1. a + 1 \in 1..a + 2 /\ a + 2 \in 1..a + 2 /\ a + 1 \in 1..a + 2 + d /\ a + 2 \in 1..a + 2 + d
    BY <1>2
  <2>2. x[a + 1] = CR /\ x[a + 2] = LF
    BY <1>1, <1>3
  <2> QED BY <1>4, <1>5, <2>1, <2>2
<1>9. \A i \in 1..d : z[a + 2 + i] = data[i]
  <2> TAKE i \in 1..d
  <2>1. a + 2 + i \in 1..a + 2 + d
    BY <1>2
  <2> QED BY <1>4, <1>5, <2>1
<1>10. z[a + d + 3] = CR /\ z[a + d + 4] = LF
  <2>1. a + 2 + d + 1 = a + d + 3 /\ a + 2 + d + 2 = a + d + 4 /\ 1 \in 1..2 /\ 2 \in 1..2
    BY <1>2
  <2> QED BY <1>1, <1>5, <2>1
<1>11. Len(z) = a + d + 4
  BY <1>2, <1>5
<1> QED BY <1>2, <1>6, <1>7, <1>8, <1>9, <1>10, <1>11 DEF a, d

LEMMA LastIs == <<"0", CR, LF, CR, LF>> \in Seq(Byte)
<1>1. "0" \in Byte /\ CR \in Byte /\ LF \in Byte
  BY Digit DEF Byte, Spaces
<1> QED BY <1>1

\* What stands in an encoded body after its first k chunks: the next one.
ChunkIn(b, k) ==
  LET s == Encode(b)
      p == Len(UpTo(Frames(b), k))
      c == b[k + 1]
      a == Len(c.size)
      d == Len(c.data)
  IN  /\ p \in Nat /\ a \in Nat /\ d \in Nat /\ a > 0 /\ d > 0
      /\ Len(UpTo(Frames(b), k + 1)) = p + a + d + 4
      /\ p + a + d + 4 <= Len(s)
      /\ \A i \in 1..a : s[p + i] = c.size[i]
      /\ s[p + a + 1] = CR /\ s[p + a + 2] = LF
      /\ \A i \in 1..d : s[p + a + 2 + i] = c.data[i]
      /\ s[p + a + d + 3] = CR /\ s[p + a + d + 4] = LF

LEMMA AtChunk ==
  ASSUME NEW b \in Bodies, NEW k \in 0..Len(b) - 1
  PROVE  ChunkIn(b, k)
<1> DEFINE s == Encode(b)
           w == FlattenSeq(Frames(b))
           p == Len(UpTo(Frames(b), k))
           c == b[k + 1]
           f == Framed(c)
           a == Len(c.size)
           d == Len(c.data)
<1>1. /\ Frames(b) \in Seq(Seq(Byte)) /\ Len(Frames(b)) = Len(b) /\ DOMAIN b = 1..Len(b)
      /\ c.size \in Seq(Hex) /\ c.size \in Seq(Byte) /\ c.data \in Seq(Byte) /\ d > 0 /\ Value(c.size) = d
      /\ s = w \o <<"0", CR, LF, CR, LF>> /\ Len(b) \in Nat
  <2>1. Len(b) \in Nat
    BY Sent
  <2>2. k + 1 \in 1..Len(b)
    BY <2>1
  <2> QED BY <2>1, <2>2, Framing
<1>2. a > 0
  <2>1. ASSUME c.size = <<>>
        PROVE  FALSE
    <3>1. PICK v \in [0..Len(c.size) -> Nat] : v[0] = 0 /\ Value(c.size) = v[Len(c.size)]
      BY <1>1, ValueIs
    <3> QED BY <1>1, <2>1, <3>1
  <2> QED BY <1>1, <2>1, EmptySeq, SMTT(30)
<1>3. Frames(b)[k + 1] = f
  BY <1>1 DEF Frames
<1>4. /\ p \in Nat /\ Len(f) \in Nat
      /\ Len(UpTo(Frames(b), k + 1)) = p + Len(f)
      /\ p + Len(f) <= Len(w)
      /\ \A i \in 1..Len(f) : w[p + i] = f[i]
  <2>1. k \in 0..Len(Frames(b)) - 1
    BY <1>1
  <2> HIDE DEF f
  <2> QED BY <1>1, <1>3, <2>1, UpToPart
<1>5. w \in Seq(Byte) /\ <<"0", CR, LF, CR, LF>> \in Seq(Byte)
  BY <1>1, FlattenType, LastIs
<1>6. Len(s) = Len(w) + 5 /\ Len(w) \in Nat /\ \A i \in 1..Len(w) : s[i] = w[i]
  <2>1. Len(<<"0", CR, LF, CR, LF>>) = 5
    OBVIOUS
  <2> HIDE DEF w
  <2> QED BY <1>1, <1>5, <2>1, Joined
<1>7. \A i \in 1..Len(f) : s[p + i] = f[i]
  <2> HIDE DEF s, w, f, p
  <2> QED BY <1>4, <1>6
<1>8. /\ a \in Nat /\ d \in Nat /\ Len(f) = a + d + 4
      /\ \A i \in 1..a : f[i] = c.size[i]
      /\ f[a + 1] = CR /\ f[a + 2] = LF
      /\ \A i \in 1..d : f[a + 2 + i] = c.data[i]
      /\ f[a + d + 3] = CR /\ f[a + d + 4] = LF
  <2> DEFINE size == c.size
             data == c.data
  <2>1. size \in Seq(Byte) /\ data \in Seq(Byte)
    BY <1>1
  <2> HIDE DEF size, data
  <2>2. LET g == Frame(size, data)
            m == Len(size)
            l == Len(data)
        IN  /\ m \in Nat /\ l \in Nat /\ Len(g) = m + l + 4
            /\ \A i \in 1..m : g[i] = size[i]
            /\ g[m + 1] = CR /\ g[m + 2] = LF
            /\ \A i \in 1..l : g[m + 2 + i] = data[i]
            /\ g[m + l + 3] = CR /\ g[m + l + 4] = LF
    BY <2>1, FrameIs
  <2> QED BY <2>2 DEF size, data, Framed
<1> HIDE DEF s, w, p, c, f, a, d
<1>9. \A i \in 1..a : s[p + i] = c.size[i]
  BY <1>7, <1>8
<1>10. s[p + a + 1] = CR /\ s[p + a + 2] = LF /\ s[p + a + d + 3] = CR /\ s[p + a + d + 4] = LF
  <2>1. /\ a + 1 \in 1..Len(f) /\ a + 2 \in 1..Len(f) /\ a + d + 3 \in 1..Len(f)
        /\ a + d + 4 \in 1..Len(f)
        /\ p + (a + 1) = p + a + 1 /\ p + (a + 2) = p + a + 2
        /\ p + (a + d + 3) = p + a + d + 3 /\ p + (a + d + 4) = p + a + d + 4
    <3>1. p \in Nat /\ a \in Nat /\ d \in Nat /\ Len(f) = a + d + 4
      BY <1>4, <1>8
    <3> QED BY <3>1
  <2> QED BY <1>7, <1>8, <2>1
<1>11. \A i \in 1..d : s[p + a + 2 + i] = c.data[i]
  <2> TAKE i \in 1..d
  <2>1. a + 2 + i \in 1..Len(f) /\ p + (a + 2 + i) = p + a + 2 + i
    BY <1>4, <1>8
  <2> QED BY <1>7, <1>8, <2>1
<1>12. Len(UpTo(Frames(b), k + 1)) = p + a + d + 4 /\ p + a + d + 4 <= Len(s)
  BY <1>4, <1>6, <1>8
<1>13. d > 0
  BY <1>1 DEF d
<1> QED BY <1>2, <1>4, <1>8, <1>9, <1>10, <1>11, <1>12, <1>13 DEF ChunkIn, s, p, c, a, d

LEMMA AtEnd ==
  ASSUME NEW b \in Bodies
  PROVE  LET s == Encode(b)
             p == Len(UpTo(Frames(b), Len(b)))
         IN  /\ p \in Nat /\ Len(s) = p + 5
             /\ s[p + 1] = "0" /\ s[p + 2] = CR /\ s[p + 3] = LF /\ s[p + 4] = CR /\ s[p + 5] = LF
<1> DEFINE s == Encode(b)
           w == FlattenSeq(Frames(b))
           t == <<"0", CR, LF, CR, LF>>
<1>1. Frames(b) \in Seq(Seq(Byte)) /\ Len(Frames(b)) = Len(b) /\ s = w \o t
  BY Framing
<1>2. UpTo(Frames(b), Len(b)) = w
  BY <1>1, UpToStep
<1>3. w \in Seq(Byte) /\ t \in Seq(Byte)
  BY <1>1, FlattenType, LastIs
<1> HIDE DEF w
<1>4. t[1] = "0" /\ t[2] = CR /\ t[3] = LF /\ t[4] = CR /\ t[5] = LF /\ Len(t) = 5
  OBVIOUS
<1> HIDE DEF t
<1>5. Len(s) = Len(w) + 5 /\ Len(w) \in Nat /\ \A i \in 1..5 : s[Len(w) + i] = t[i]
  <2>1. /\ Len(w \o t) = Len(w) + Len(t) /\ Len(w) \in Nat
        /\ \A i \in 1..Len(t) : (w \o t)[Len(w) + i] = t[i]
    BY <1>3, Joined
  <2> QED BY <1>1, <1>4, <2>1
<1> HIDE DEF s
<1> QED BY <1>2, <1>4, <1>5 DEF s

-----------------------------------------------------------------------------
(* A well-formed body.  Between two calls of parseChunkedBody the decoder  *)
(* stands at the start of a chunk, or of the last line, and holds the data *)
(* of the chunks before it.                                                *)

Datas(b) == [n \in DOMAIN b |-> b[n].data]

LEMMA DatasIs ==
  ASSUME NEW b \in Bodies
  PROVE  /\ Datas(b) \in Seq(Seq(Byte)) /\ Len(Datas(b)) = Len(b) /\ Len(b) \in Nat
         /\ \A n \in 1..Len(b) : Datas(b)[n] = b[n].data
         /\ Data(b) = FlattenSeq(Datas(b))
<1>1. DOMAIN b = 1..Len(b) /\ Len(b) \in Nat /\ \A n \in 1..Len(b) : b[n].data \in Seq(Byte)
  BY Sent, Framing
<1>2. Datas(b) \in Seq(Seq(Byte)) /\ Len(Datas(b)) = Len(b)
  BY <1>1 DEF Datas
<1>3. Data(b) = FlattenSeq(Datas(b))
  BY DEF Data, Datas
<1> QED BY <1>1, <1>2, <1>3 DEF Datas

AtStartOf(k) ==
  /\ readIndex = Len(UpTo(Frames(source), k))
  /\ body = UpTo(Datas(source), k)

Reading(k) == AtStartOf(k) /\ (ended \/ error = 413 => k = Len(source))

Keeping ==
  source # <<>> =>
    /\ source \in Bodies /\ stream = Encode(source)
    /\ error # 400
    /\ \E k \in 0..Len(source) : Reading(k)
    /\ ended => ~TooLarge
    /\ got = Len(stream) /\ ~busy => ended \/ error = 413

LEMMA InitKeeping == Init => Keeping
<1> SUFFICES ASSUME Init, source # <<>> PROVE Keeping
  BY DEF Keeping
<1>1. source \in Bodies /\ stream = Encode(source)
  BY DEF Init
<1>2. got = 0 /\ readIndex = 0 /\ body = <<>> /\ ended = FALSE /\ error = 0
  BY DEF Init
<1>3. Reading(0)
  <2>1. UpTo(Frames(source), 0) = <<>> /\ UpTo(Datas(source), 0) = <<>>
    BY <1>1, Framing, DatasIs, UpToStep
  <2> QED BY <1>2, <2>1 DEF Reading, AtStartOf
<1>4. 0 \in 0..Len(source)
  BY <1>1, DatasIs
<1>5. got # Len(stream)
  BY <1>1, <1>2, AtEnd
<1> QED BY <1>1, <1>2, <1>3, <1>4, <1>5 DEF Keeping

\* The step at a chunk: it is taken when all of it has arrived, and not before.
LEMMA StepAtChunk ==
  ASSUME Typed, Keeping, source # <<>>, ParseChunkedBody,
         NEW k \in 0..Len(source), Reading(k), k # Len(source)
  PROVE  Keeping'
<1> DEFINE p    == readIndex
           size == source[k + 1].size
           data == source[k + 1].data
           a    == Len(size)
           d    == Len(data)
           num  == Strtol(p)
           start == num.end + 2
<1>1. source \in Bodies /\ stream = Encode(source) /\ error # 400 /\ ~ended /\ error # 413
  BY DEF Keeping, Reading
<1>2. Len(source) \in Nat /\ k \in 0..Len(source) - 1 /\ k + 1 \in 1..Len(source)
  BY <1>1, DatasIs
<1>3. /\ p = Len(UpTo(Frames(source), k)) /\ body = UpTo(Datas(source), k)
  BY DEF Reading, AtStartOf
<1>4. /\ p \in Nat /\ a \in Nat /\ d \in Nat /\ a > 0 /\ d > 0
      /\ Len(UpTo(Frames(source), k + 1)) = p + a + d + 4
      /\ p + a + d + 4 <= Len(stream)
      /\ \A i \in 1..a : stream[p + i] = size[i]
      /\ stream[p + a + 1] = CR /\ stream[p + a + 2] = LF
      /\ \A i \in 1..d : stream[p + a + 2 + i] = data[i]
      /\ stream[p + a + d + 3] = CR /\ stream[p + a + d + 4] = LF
  <2>1. ChunkIn(source, k)
    BY <1>1, <1>2, AtChunk
  <2> QED BY <1>1, <1>3, <2>1 DEF ChunkIn
<1>5. size \in Seq(Hex) /\ data \in Seq(Byte) /\ Value(size) = d
  BY <1>1, <1>2, Framing
<1>6. /\ Buffer \in Seq(Byte) /\ Len(Buffer) = got /\ got \in Nat
      /\ \A i \in 1..got : Buffer[i] = stream[i]
      /\ p \in 0..got /\ got \in 0..Len(stream)
  BY BufferIs DEF Typed, TypeOK
<1>7. UNCHANGED <<stream, source, got>> /\ busy
  BY DEF ParseChunkedBody
<1> HIDE DEF p, size, data, a, d
<1>8. /\ SizeKnown(num) <=> p + a + 2 <= got
      /\ SizeKnown(num) => num.end = p + a /\ num.value = d
  <2>1. Len(size) = a /\ p + a + 2 <= Len(stream) /\ p \in 0..got
    BY <1>4, <1>6, SMTT(30) DEF a
  <2> QED BY <1>4, <1>5, <2>1, StrtolAt
<1> HIDE DEF num
<1>9. CASE SizeKnown(num) /\ num.value > 0 /\ Arrived(start, num.value)
           /\ AppendChunkedData(start, num.value)
  <2>1. num.end = p + a /\ num.value = d /\ start = p + a + 2
    BY <1>8, <1>9
  <2>2. p + a + d + 4 <= got
    BY <1>4, <1>9, <2>1 DEF Arrived
  <2>3. CrLf(Buffer, start + num.value)
    <3>1. /\ start + num.value + 1 = p + a + d + 3 /\ start + num.value + 2 = p + a + d + 4
          /\ p + a + d + 3 \in 1..got /\ p + a + d + 4 \in 1..got
      <4>1. start = p + a + 2 /\ num.value = d /\ p \in Nat /\ a \in Nat /\ d \in Nat
            /\ p + a + d + 4 <= got /\ got \in Nat
        BY <1>4, <1>6, <2>1, <2>2
      <4> HIDE DEF start
      <4> QED BY <4>1
    <3> QED BY <1>4, <1>6, <2>2, <3>1 DEF CrLf
  <2>4. /\ body' = body \o SubSeq(stream, start + 1, start + num.value)
        /\ readIndex' = start + num.value + 2 /\ UNCHANGED <<ended, error, busy>>
    BY <1>9, <2>3 DEF AppendChunkedData, AfterChunk
  <2>5. SubSeq(stream, start + 1, start + num.value) = data
    <3> DEFINE b == p + a + 2
               x == SubSeq(stream, b + 1, b + d)
    <3>1. b \in Nat /\ b + d <= Len(stream) /\ stream \in Seq(Byte)
      BY <1>4 DEF Typed
    <3>2. \A i \in 1..d : stream[b + i] = data[i]
      BY <1>4
    <3> HIDE DEF b
    <3>3. x \in Seq(Byte) /\ Len(x) = d /\ \A i \in 1..d : x[i] = stream[b + i]
      BY <1>4, <3>1, Part, SMTT(30)
    <3> HIDE DEF x
    <3>4. x = data
      BY <1>5, <3>2, <3>3, SeqEqual DEF d
    <3> QED BY <2>1, <3>4 DEF x, b
  <2>6. body' = UpTo(Datas(source), k + 1)
    <3>1. Datas(source) \in Seq(Seq(Byte)) /\ Len(Datas(source)) = Len(source)
          /\ Datas(source)[k + 1] = data
      BY <1>1, <1>2, DatasIs DEF data
    <3>2. UpTo(Datas(source), k + 1) = UpTo(Datas(source), k) \o data
      BY <1>2, <3>1, UpToStep
    <3> QED BY <1>3, <2>4, <2>5, <3>2
  <2>7. readIndex' = Len(UpTo(Frames(source), k + 1))
    BY <1>4, <2>1, <2>4
  <2>8. Reading(k + 1)'
    BY <1>1, <1>7, <2>4, <2>6, <2>7 DEF Reading, AtStartOf
  <2>9. k + 1 \in 0..Len(source)
    BY <1>2
  <2> QED BY <1>1, <1>7, <2>4, <2>8, <2>9 DEF Keeping
<1>10. CASE /\ ~SizeKnown(num) \/ (num.value > 0 /\ ~Arrived(start, num.value))
            /\ busy' = FALSE
            /\ UNCHANGED <<readIndex, body, ended, error>>
  <2>1. got # Len(stream)
    <3> SUFFICES ASSUME got = Len(stream) PROVE FALSE
      OBVIOUS
    <3>1. SizeKnown(num) /\ num.end = p + a /\ num.value = d
      BY <1>4, <1>6, <1>8
    <3>2. Arrived(start, num.value)
      BY <1>4, <1>6, <3>1 DEF Arrived
    <3> QED BY <1>10, <3>1, <3>2
  <2>2. Reading(k)'
    BY <1>7, <1>10 DEF Reading, AtStartOf
  <2> QED BY <1>1, <1>7, <1>10, <2>1, <2>2 DEF Keeping
<1>11. ~(SizeKnown(num) /\ num.value = 0)
  BY <1>4, <1>8
<1> QED BY <1>9, <1>10, <1>11 DEF ParseChunkedBody, num, p

\* The step at the last line: the end is seen when all of it has arrived.
LEMMA StepAtEnd ==
  ASSUME Typed, Keeping, source # <<>>, ParseChunkedBody,
         Reading(Len(source))
  PROVE  Keeping'
<1> DEFINE p    == readIndex
           num  == Strtol(p)
           start == num.end + 2
           over == \E n \in start .. got : CrLf(Buffer, n)
<1>1. source \in Bodies /\ stream = Encode(source) /\ error # 400 /\ (ended => ~TooLarge)
  BY DEF Keeping
<1>2. Len(source) \in 0..Len(source)
  BY <1>1, DatasIs
<1>3. p = Len(UpTo(Frames(source), Len(source)))
  BY DEF Reading, AtStartOf
<1>4. /\ p \in Nat /\ Len(stream) = p + 5
      /\ stream[p + 1] = "0" /\ stream[p + 2] = CR /\ stream[p + 3] = LF
      /\ stream[p + 4] = CR /\ stream[p + 5] = LF
  BY <1>1, <1>3, AtEnd
<1>5. /\ Buffer \in Seq(Byte) /\ Len(Buffer) = got /\ got \in Nat
      /\ \A i \in 1..got : Buffer[i] = stream[i]
      /\ p \in 0..got /\ got \in 0..Len(stream)
  BY BufferIs DEF Typed, TypeOK
<1>6. UNCHANGED <<stream, source, got>>
  BY DEF ParseChunkedBody
<1> HIDE DEF p
<1>7. /\ SizeKnown(num) <=> p + 3 <= got
      /\ SizeKnown(num) => num.end = p + 1 /\ num.value = 0
  <2> DEFINE ds == <<"0">>
  <2>1. ds \in Seq(Hex) /\ Len(ds) = 1 /\ ds[1] = "0" /\ Value(ds) = 0
    BY Digit, ValueOfZero
  <2> HIDE DEF ds
  <2>2. \A i \in 1..1 : stream[p + i] = ds[i]
    BY <1>4, <2>1
  <2>3. p + 1 + 2 = p + 3 /\ p + 1 + 1 = p + 2 /\ p + 3 <= Len(stream)
    BY <1>4
  <2>4. /\ Len(ds) > 0 /\ p + Len(ds) + 2 <= Len(stream) /\ p \in 0..got
        /\ \A i \in 1..Len(ds) : stream[p + i] = ds[i]
        /\ stream[p + Len(ds) + 1] = CR /\ stream[p + Len(ds) + 2] = LF
    BY <1>4, <1>5, <2>1, <2>2, <2>3
  <2>5. /\ SizeKnown(num) <=> p + Len(ds) + 2 <= got
        /\ SizeKnown(num) => num.end = p + Len(ds) /\ num.value = Value(ds)
    BY <2>1, <2>4, StrtolAt
  <2> QED BY <2>1, <2>3, <2>5
<1> HIDE DEF num
<1>8. CASE SizeKnown(num) /\ num.value = 0 /\ HandleChunkedEnd(start)
  <2>1. start = p + 3
    BY <1>4, <1>7, <1>8
  <2>2. got = Len(stream) => over
    <3> SUFFICES ASSUME got = Len(stream) PROVE over
      OBVIOUS
    <3>1. /\ start \in start..got /\ start + 2 <= got /\ start + 1 = p + 4 /\ start + 2 = p + 5
          /\ p + 4 \in 1..got /\ p + 5 \in 1..got
      BY <1>4, <2>1
    <3>2. CrLf(Buffer, start)
      BY <1>4, <1>5, <3>1 DEF CrLf
    <3> QED BY <3>1, <3>2
  <2>3. /\ error' = IF over /\ TooLarge THEN 413 ELSE error
        /\ ended' = (ended \/ (over /\ ~TooLarge))
        /\ busy' = FALSE /\ UNCHANGED <<readIndex, body>>
    BY <1>8 DEF HandleChunkedEnd
  <2> HIDE DEF over
  <2>4. TooLarge' <=> TooLarge
    BY <2>3 DEF TooLarge
  <2>5. Reading(Len(source))'
    BY <1>6, <2>3 DEF Reading, AtStartOf
  <2>6. error' # 400
    BY <1>1, <2>3
  <2>7. ended' => ~TooLarge'
    BY <1>1, <2>3, <2>4
  <2>8. got = Len(stream) => ended' \/ error' = 413
    BY <2>2, <2>3
  <2> QED BY <1>1, <1>2, <1>6, <2>5, <2>6, <2>7, <2>8 DEF Keeping
<1>9. CASE /\ ~SizeKnown(num) \/ (num.value > 0 /\ ~Arrived(start, num.value))
           /\ busy' = FALSE
           /\ UNCHANGED <<readIndex, body, ended, error>>
  <2>1. got # Len(stream)
    BY <1>4, <1>7, <1>9
  <2>2. Reading(Len(source))'
    BY <1>6, <1>9 DEF Reading, AtStartOf
  <2>3. TooLarge' <=> TooLarge
    BY <1>9 DEF TooLarge
  <2> QED BY <1>1, <1>2, <1>6, <1>9, <2>1, <2>2, <2>3 DEF Keeping
<1>10. ~(SizeKnown(num) /\ num.value > 0)
  BY <1>7
<1> QED BY <1>8, <1>9, <1>10 DEF ParseChunkedBody, num, p

LEMMA NextKeeping == Typed /\ Keeping /\ [Next]_vars => Keeping'
<1> SUFFICES ASSUME Typed, Keeping, [Next]_vars PROVE Keeping'
  OBVIOUS
<1>1. source' = source
  BY DEF Next, Receive, ParseChunkedBody, vars
<1>2. CASE source = <<>>
  BY <1>1, <1>2 DEF Keeping
<1>3. CASE source # <<>> /\ Receive
  <2>1. \A k : Reading(k)' <=> Reading(k)
    BY <1>3 DEF Receive, Reading, AtStartOf
  <2>2. TooLarge' <=> TooLarge
    BY <1>3 DEF Receive, TooLarge
  <2>3. busy' = TRUE /\ UNCHANGED <<stream, source, ended, error>>
    BY <1>3 DEF Receive
  <2> QED BY <1>3, <2>1, <2>2, <2>3 DEF Keeping
<1>4. CASE source # <<>> /\ ParseChunkedBody
  <2>1. PICK k \in 0..Len(source) : Reading(k)
    BY <1>4 DEF Keeping
  <2> QED BY <1>4, <2>1, StepAtChunk, StepAtEnd
<1>5. CASE source # <<>> /\ UNCHANGED vars
  <2>1. \A k : Reading(k)' <=> Reading(k)
    BY <1>5 DEF vars, Reading, AtStartOf
  <2>2. TooLarge' <=> TooLarge
    BY <1>5 DEF vars, TooLarge
  <2> QED BY <1>5, <2>1, <2>2 DEF Keeping, vars
<1> QED BY <1>2, <1>3, <1>4, <1>5 DEF Next

LEMMA KeptIsFaithful == Typed /\ Keeping => BodyFaithful
<1> SUFFICES ASSUME Typed, Keeping, source # <<>> PROVE BodyFaithful
  BY DEF BodyFaithful
<1> DEFINE all == Data(source)
<1>1. source \in Bodies /\ error # 400 /\ (ended => ~TooLarge)
      /\ (got = Len(stream) /\ ~busy => ended \/ error = 413)
  BY DEF Keeping
<1>2. PICK k \in 0..Len(source) : Reading(k)
  BY DEF Keeping
<1>3. Datas(source) \in Seq(Seq(Byte)) /\ Len(Datas(source)) = Len(source)
      /\ all = FlattenSeq(Datas(source))
  BY <1>1, DatasIs
<1>4. body = UpTo(Datas(source), k)
  BY <1>2 DEF Reading, AtStartOf
<1>5. IsPrefix(body, all)
  <2>1. PICK r \in Seq(Byte) : all = body \o r
    <3>1. k \in 0..Len(Datas(source))
      BY <1>3
    <3>2. \E r \in Seq(Byte) : FlattenSeq(Datas(source)) = UpTo(Datas(source), k) \o r
      BY <1>3, <3>1, UpToRest
    <3> QED BY <1>3, <1>4, <3>2
  <2>2. body \in Seq(Byte)
    BY DEF Typed
  <2>3. /\ Len(body \o r) = Len(body) + Len(r) /\ Len(body) \in Nat /\ Len(r) \in Nat
        /\ \A i \in 1..Len(body) : (body \o r)[i] = body[i]
    BY <2>2, Joined
  <2>4. body \o r \in Seq(Byte)
    BY <2>2, Joined
  <2>5. all \in Seq(Byte) /\ Len(body) <= Len(all) /\ \A i \in 1..Len(body) : all[i] = body[i]
    BY <2>1, <2>3, <2>4
  <2> HIDE DEF all
  <2> QED BY <2>2, <2>5, SameStart
<1>6. ended \/ error = 413 => body = all
  BY <1>2, <1>3, <1>4, UpToStep DEF Reading
<1>7. ended => MaxBody = Unlimited \/ Len(all) <= MaxBody
  <2>1. Len(body) \in Nat
    BY DEF Typed
  <2> QED BY <1>1, <1>6, <2>1, Limit DEF TooLarge
<1> HIDE DEF all
<1> QED BY <1>1, <1>5, <1>6, <1>7 DEF BodyFaithful, all

\* For every body peers may send and every way recv may cut it up: the data are decoded
\* in order and without loss, the end is seen once the last byte has come and not
\* before, and a body over client_max_body_size is answered 413.
THEOREM BodyCorrect == Spec => []BodyFaithful
<1>1. Init => Typed /\ Keeping
  BY InitTyped, InitKeeping
<1>2. (Typed /\ Keeping) /\ [Next]_vars => (Typed /\ Keeping)'
  BY NextTyped, NextKeeping
<1>3. Typed /\ Keeping => BodyFaithful
  BY KeptIsFaithful
<1> QED BY <1>1, <1>2, <1>3, PTL DEF Spec

-----------------------------------------------------------------------------
(* The reference: what a sequence of bytes means. *)

Result == [body : Seq(Byte), ended : BOOLEAN, error : {0, 400}, open : BOOLEAN]

\* At n: a blank, the end of the digits, their value, what follows the chunk.
Blank(s, n) == n < Len(s) /\ s[n + 1] \in Spaces
End(s, n)   == FirstNot(s, Hex, n)
Size(s, n)  == Value(SubSeq(s, n + 1, End(s, n)))
After(s, n) == End(s, n) + Size(s, n) + 4
Chunk(s, n) == SubSeq(s, End(s, n) + 3, After(s, n) - 2)

Whole(s, n) ==
  /\ ~Blank(s, n) /\ CrLf(s, End(s, n))
  /\ Size(s, n) > 0 /\ After(s, n) <= Len(s) /\ CrLf(s, After(s, n) - 2)

\* What is meant where no whole chunk stands.
Stops(s, n) ==
  IF Blank(s, n) THEN [Stuck(0) EXCEPT !.open = TRUE]
  ELSE IF ~CrLf(s, End(s, n)) THEN Stuck(0)
  ELSE IF Size(s, n) = 0
    THEN [Stuck(0) EXCEPT !.ended = \E m \in End(s, n) + 2 .. Len(s) : CrLf(s, m)]
  ELSE IF After(s, n) > Len(s) THEN Stuck(0)
  ELSE Stuck(400)

LEMMA EndIs ==
  ASSUME NEW s \in Seq(Byte), NEW n \in 0..Len(s)
  PROVE  /\ End(s, n) \in n..Len(s) /\ End(s, n) \in Nat
         /\ End(s, n) = Len(s) \/ s[End(s, n) + 1] \notin Hex
         /\ \A i \in n..End(s, n) - 1 : s[i + 1] \in Hex
         /\ SubSeq(s, n + 1, End(s, n)) \in Seq(Hex)
         /\ Size(s, n) \in Nat
         /\ After(s, n) \in Nat /\ After(s, n) > n
<1> DEFINE e == End(s, n)
<1>1. /\ e \in n..Len(s)
      /\ e = Len(s) \/ s[e + 1] \notin Hex
      /\ \A i \in n..e - 1 : s[i + 1] \in Hex
  BY FirstNotIn DEF End
<1> HIDE DEF e
<1>2. e \in Nat /\ Len(s) \in Nat
  BY <1>1
<1>3. SubSeq(s, n + 1, e) \in Seq(Hex)
  <2>1. \A i \in n + 1..e : s[i] \in Hex
    <3> TAKE i \in n + 1..e
    <3>1. i - 1 \in n..e - 1 /\ i - 1 + 1 = i
      BY <1>1
    <3>2. s[i - 1 + 1] \in Hex
      BY <1>1, <3>1
    <3> QED BY <3>1, <3>2
  <2>2. n + 1 \in Int /\ e \in Int
    BY <1>1
  <2> QED BY <2>1, <2>2, SubSeqProperties
<1>4. Size(s, n) \in Nat
  BY <1>3, ValueType DEF Size, e
<1>5. After(s, n) \in Nat /\ After(s, n) > n
  BY <1>1, <1>2, <1>4 DEF After, e
<1> QED BY <1>1, <1>2, <1>3, <1>4, <1>5 DEF e

LEMMA ChunkType ==
  ASSUME NEW s \in Seq(Byte), NEW n \in 0..Len(s), After(s, n) <= Len(s)
  PROVE  /\ Chunk(s, n) \in Seq(Byte) /\ Len(Chunk(s, n)) = Size(s, n)
         /\ \A i \in 1..Size(s, n) : Chunk(s, n)[i] = s[End(s, n) + 2 + i]
<1> DEFINE a == End(s, n) + 2
           k == Size(s, n)
<1>1. End(s, n) \in Nat /\ k \in Nat /\ Len(s) \in Nat
  BY EndIs
<1>2. a \in Nat /\ a + k <= Len(s) /\ a + 1 = End(s, n) + 3 /\ a + k = After(s, n) - 2
  BY <1>1 DEF After
<1>3. Chunk(s, n) = SubSeq(s, a + 1, a + k)
  BY <1>2 DEF Chunk
<1> HIDE DEF a, k
<1>4. /\ SubSeq(s, a + 1, a + k) \in Seq(Byte)
      /\ Len(SubSeq(s, a + 1, a + k)) = k
      /\ \A i \in 1..k : SubSeq(s, a + 1, a + k)[i] = s[a + i]
  <2>1. a \in Nat /\ k \in Nat /\ a + k <= Len(s) /\ s \in Seq(Byte)
    BY ONLY <1>1, <1>2
  <2> QED BY ONLY <2>1, Part
<1> QED BY <1>3, <1>4 DEF a, k

LEMMA DecodedFromIs ==
  ASSUME NEW s \in Seq(Byte)
  PROVE  /\ DecodedFrom(s) \in [0..Len(s) -> Result]
         /\ \A n \in 0..Len(s) :
              DecodedFrom(s)[n] =
                IF Whole(s, n)
                THEN [DecodedFrom(s)[After(s, n)] EXCEPT !.body = Chunk(s, n) \o @]
                ELSE Stops(s, n)
<1> DEFINE S  == 0..Len(s)
           m  == [n \in S |-> Len(s) - n]
           nx == [n \in S |-> IF Whole(s, n) THEN After(s, n) ELSE n]
           G  == [p \in S \X Result |->
                    IF Whole(s, p[1]) THEN [p[2] EXCEPT !.body = Chunk(s, p[1]) \o @] ELSE p[2]]
           B  == [n \in S |-> Stops(s, n)]
           Step(f, n) == IF Whole(s, n) THEN [f[After(s, n)] EXCEPT !.body = Chunk(s, n) \o @]
                         ELSE Stops(s, n)
           Is(f) == f = [n \in 0..Len(s) |->
             LET end  == FirstNot(s, Hex, n)
                 size == Value(SubSeq(s, n + 1, end))
                 next == end + size + 4
             IN  IF n < Len(s) /\ s[n + 1] \in Spaces THEN [Stuck(0) EXCEPT !.open = TRUE]
                 ELSE IF ~CrLf(s, end) THEN Stuck(0)
                 ELSE CASE size = 0 -> [Stuck(0) EXCEPT !.ended = \E k \in end + 2 .. Len(s) : CrLf(s, k)]
                        [] size > 0 /\ next > Len(s) -> Stuck(0)
                        [] size > 0 /\ next <= Len(s) /\ ~CrLf(s, next - 2) -> Stuck(400)
                        [] OTHER -> [f[next] EXCEPT !.body = SubSeq(s, end + 3, next - 2) \o @]]
<1>1. Len(s) \in Nat /\ Measured(S, Len(s), m)
  BY DEF Measured
<1>2. \A n \in S : Stops(s, n) \in Result
  <2> TAKE n \in S
  <2> DEFINE over == \E k \in End(s, n) + 2 .. Len(s) : CrLf(s, k)
  <2>1. over \in BOOLEAN
    OBVIOUS
  <2> HIDE DEF over
  <2>2. Stops(s, n) \in {[Stuck(0) EXCEPT !.open = TRUE], Stuck(0), Stuck(400),
                       [Stuck(0) EXCEPT !.ended = over]}
    BY DEF Stops, over
  <2>3. <<>> \in Seq(Byte)
    OBVIOUS
  <2>4. Stuck(0) \in Result /\ Stuck(400) \in Result
    BY <2>3 DEF Stuck, Result
  <2>5. ASSUME NEW x \in Result, NEW is \in BOOLEAN
        PROVE  [x EXCEPT !.open = is] \in Result /\ [x EXCEPT !.ended = is] \in Result
    BY DEF Result
  <2>6. [Stuck(0) EXCEPT !.open = TRUE] \in Result
    BY <2>3 DEF Stuck, Result
  <2>7. [Stuck(0) EXCEPT !.ended = over] \in Result
    BY <2>1, <2>4, <2>5
  <2> QED BY <2>2, <2>4, <2>6, <2>7, ZenonT(30)
<1>3. \A n \in S : Whole(s, n) => Chunk(s, n) \in Seq(Byte) /\ After(s, n) \in S /\ After(s, n) > n
  <2> TAKE n \in S
  <2> HAVE Whole(s, n)
  <2>1. After(s, n) <= Len(s)
    BY DEF Whole
  <2>2. n \in 0..Len(s)
    OBVIOUS
  <2>3. Chunk(s, n) \in Seq(Byte)
    BY ONLY <2>1, <2>2, ChunkType
  <2>4. End(s, n) \in Nat /\ Size(s, n) \in Nat /\ End(s, n) >= n
    BY ONLY <2>2, EndIs
  <2>5. After(s, n) \in 0..Len(s) /\ After(s, n) > n
    BY ONLY <1>1, <2>1, <2>2, <2>4 DEF After
  <2> QED BY ONLY <2>3, <2>5
<1>4. ASSUME NEW n \in S, NEW x \in Result, Whole(s, n)
      PROVE  [x EXCEPT !.body = Chunk(s, n) \o @] \in Result
  <2>1. x.body \in Seq(Byte) /\ Chunk(s, n) \in Seq(Byte)
    BY <1>3, <1>4 DEF Result
  <2>2. Chunk(s, n) \o x.body \in Seq(Byte)
    BY <2>1, Joined
  <2> QED BY <2>2, ZenonT(30) DEF Result
<1>5. \A n \in S : \A x \in Result :
        /\ G[<<n, x>>] = IF Whole(s, n) THEN [x EXCEPT !.body = Chunk(s, n) \o @] ELSE x
        /\ G[<<n, x>>] \in Result
  BY <1>4
<1>6. Solution(S, Result, m, nx, G, B)
  <2>1. Defines(S, Result, G, B)
    <3> HIDE DEF G
    <3> QED BY <1>2, <1>5 DEF Defines
  <2> HIDE DEF S, m, nx, G, B
  <2> QED BY <1>1, <2>1, Recursion
<1>7. PICK f \in [S -> Result] : \A n \in S :
        f[n] = IF nx[n] \in S /\ m[nx[n]] < m[n] THEN G[<<n, f[nx[n]]>>] ELSE B[n]
  BY <1>6 DEF Solution
<1>8. \A n \in S : /\ nx[n] \in S /\ m[nx[n]] < m[n] <=> Whole(s, n)
                   /\ Whole(s, n) => nx[n] = After(s, n)
  <2> TAKE n \in S
  <2>1. CASE Whole(s, n)
    <3>1. nx[n] = After(s, n) /\ After(s, n) \in S /\ After(s, n) > n
      BY <1>3, <2>1
    <3>2. m[After(s, n)] = Len(s) - After(s, n) /\ m[n] = Len(s) - n
      BY <3>1
    <3>3. Len(s) - After(s, n) < Len(s) - n
      BY <1>1, <3>1
    <3> HIDE DEF nx, m
    <3> QED BY <2>1, <3>1, <3>2, <3>3
  <2>2. CASE ~Whole(s, n)
    <3>1. nx[n] = n
      BY <2>2
    <3>2. m[n] \in Int
      BY <1>1
    <3>3. ~(m[nx[n]] < m[n])
      <4> HIDE DEF nx, m
      <4> QED BY <3>1, <3>2
    <3> QED BY <2>2, <3>3
  <2> QED BY <2>1, <2>2
<1>9. \A n \in S : f[n] = Step(f, n)
  <2> TAKE n \in S
  <2>1. CASE Whole(s, n)
    <3>1. After(s, n) \in S /\ f[After(s, n)] \in Result
      BY <1>3, <2>1
    <3> HIDE DEF G, nx, m, B
    <3> QED BY <1>5, <1>7, <1>8, <2>1, <3>1
  <2>2. CASE ~Whole(s, n)
    <3>1. B[n] = Stops(s, n)
      OBVIOUS
    <3> HIDE DEF G, nx, m, B
    <3> QED BY <1>7, <1>8, <2>2, <3>1
  <2> QED BY <2>1, <2>2
<1>10. ASSUME NEW h, NEW n \in S
       PROVE  (LET end  == FirstNot(s, Hex, n)
                   size == Value(SubSeq(s, n + 1, end))
                   next == end + size + 4
               IN  IF n < Len(s) /\ s[n + 1] \in Spaces THEN [Stuck(0) EXCEPT !.open = TRUE]
                   ELSE IF ~CrLf(s, end) THEN Stuck(0)
                   ELSE CASE size = 0 -> [Stuck(0) EXCEPT !.ended = \E k \in end + 2 .. Len(s) : CrLf(s, k)]
                          [] size > 0 /\ next > Len(s) -> Stuck(0)
                          [] size > 0 /\ next <= Len(s) /\ ~CrLf(s, next - 2) -> Stuck(400)
                          [] OTHER -> [h[next] EXCEPT !.body = SubSeq(s, end + 3, next - 2) \o @])
              = Step(h, n)
  <2> DEFINE end == FirstNot(s, Hex, n)
             size == Value(SubSeq(s, n + 1, end))
             next == end + size + 4
  <2>1. end = End(s, n) /\ size = Size(s, n) /\ next = After(s, n) /\ size \in Nat /\ next \in Nat
    BY EndIs DEF End, Size, After
  <2> HIDE DEF end, size, next
  <2> DEFINE there == IF n < Len(s) /\ s[n + 1] \in Spaces THEN [Stuck(0) EXCEPT !.open = TRUE]
                      ELSE IF ~CrLf(s, end) THEN Stuck(0)
                      ELSE CASE size = 0 -> [Stuck(0) EXCEPT !.ended = \E k \in end + 2 .. Len(s) : CrLf(s, k)]
                             [] size > 0 /\ next > Len(s) -> Stuck(0)
                             [] size > 0 /\ next <= Len(s) /\ ~CrLf(s, next - 2) -> Stuck(400)
                             [] OTHER -> [h[next] EXCEPT !.body = SubSeq(s, end + 3, next - 2) \o @]
  <2>2. ASSUME Blank(s, n)
        PROVE  there = Step(h, n)
    BY <2>2 DEF Blank, Whole, Stops
  <2>3. ASSUME ~Blank(s, n) /\ ~CrLf(s, end)
        PROVE  there = Step(h, n)
    BY <2>1, <2>3 DEF Blank, Whole, Stops
  <2>4. ASSUME ~Blank(s, n) /\ CrLf(s, end) /\ size = 0
        PROVE  there = Step(h, n)
    BY <2>1, <2>4 DEF Blank, Whole, Stops
  <2>5. ASSUME ~Blank(s, n) /\ CrLf(s, end) /\ size > 0 /\ next > Len(s)
        PROVE  there = Step(h, n)
    BY <1>1, <2>1, <2>5 DEF Blank, Whole, Stops
  <2>6. ASSUME ~Blank(s, n) /\ CrLf(s, end) /\ size > 0 /\ next <= Len(s) /\ ~CrLf(s, next - 2)
        PROVE  there = Step(h, n)
    BY <1>1, <2>1, <2>6 DEF Blank, Whole, Stops
  <2>7. ASSUME ~Blank(s, n) /\ CrLf(s, end) /\ size > 0 /\ next <= Len(s) /\ CrLf(s, next - 2)
        PROVE  there = Step(h, n)
    BY <1>1, <2>1, <2>7 DEF Blank, Whole, Chunk
  <2>8. there = Step(h, n)
    <3> HIDE DEF there, Step
    <3> QED BY <1>1, <2>1, <2>2, <2>3, <2>4, <2>5, <2>6, <2>7
  <2> QED BY <2>8 DEF end, size, next
<1>11. Is(f)
  BY <1>9, <1>10
<1>12. Is(CHOOSE g : Is(g))
  <2> HIDE DEF Is
  <2> QED BY <1>11
<1> DEFINE g == CHOOSE g : Is(g)
<1>13. DecodedFrom(s) = g
  BY DEF DecodedFrom
<1>14. DOMAIN g = S /\ g = [n \in S |-> g[n]] /\ \A n \in S : g[n] = Step(g, n)
  <2>1. Is(g)
    BY <1>12
  <2>2. DOMAIN g = S /\ g = [n \in S |-> g[n]]
    BY <2>1
  <2> HIDE DEF g, Step
  <2> QED BY <1>10, <2>1, <2>2, ZenonT(30)
<1> HIDE DEF g
<1>15. \A n \in S : g[n] = f[n]
  <2> DEFINE U == {n \in S : g[n] = f[n]}
  <2>1. Inherits(S, U, m, nx)
    <3> SUFFICES ASSUME NEW n \in S, nx[n] \in S /\ m[nx[n]] < m[n] => nx[n] \in U
                 PROVE  g[n] = f[n]
      BY DEF Inherits
    <3>1. CASE Whole(s, n)
      <4>1. g[After(s, n)] = f[After(s, n)]
        BY <1>8, <3>1
      <4> QED BY ONLY <1>9, <1>14, <3>1, <4>1, n \in S
    <3>2. CASE ~Whole(s, n)
      BY ONLY <1>9, <1>14, <3>2, n \in S
    <3> QED BY <3>1, <3>2
  <2>2. S \subseteq U
    <3> HIDE DEF U, m, nx, S
    <3> QED BY <1>1, <2>1, AlongCalls
  <2> QED BY <2>2
<1>16. g \in [S -> Result]
  BY <1>14, <1>15
<1> QED BY <1>13, <1>14, <1>16

-----------------------------------------------------------------------------
(* What has been decoded is what the bytes mean, and stays so whatever     *)
(* follows them: of every longer prefix of the stream the decoder has      *)
(* found the part that lies before readIndex.                              *)

LEMMA PrefixIs ==
  ASSUME Typed, NEW k \in got..Len(stream)
  PROVE  LET t == SubSeq(stream, 1, k)
         IN  /\ t \in Seq(Byte) /\ Len(t) = k /\ k \in Nat /\ got <= k
             /\ \A i \in 1..k : t[i] = stream[i]
             /\ \A i \in 1..got : t[i] = Buffer[i]
             /\ readIndex \in 0..Len(t)
<1> DEFINE t == SubSeq(stream, 1, k)
<1>1. stream \in Seq(Byte) /\ got \in 0..Len(stream) /\ readIndex \in 0..got
  BY DEF Typed, TypeOK
<1>2. k \in Nat /\ got \in Nat /\ 0 + k <= Len(stream) /\ 0 + 1 = 1 /\ 0 + k = k
  BY <1>1
<1>3. LET u == SubSeq(stream, 0 + 1, 0 + k)
      IN  u \in Seq(Byte) /\ Len(u) = k /\ \A i \in 1..k : u[i] = stream[0 + i]
  BY <1>1, <1>2, Part
<1>4. t \in Seq(Byte) /\ Len(t) = k /\ \A i \in 1..k : t[i] = stream[i]
  BY <1>2, <1>3
<1> HIDE DEF t
<1>5. \A i \in 1..got : Buffer[i] = stream[i]
  BY BufferIs
<1>6. \A i \in 1..got : i \in 1..k
  BY <1>1, <1>2
<1> QED BY <1>1, <1>2, <1>4, <1>5, <1>6 DEF t

\* An end of line that has come ends the digits for good.
LEMMA Longer ==
  ASSUME NEW s \in Seq(Byte), NEW t \in Seq(Byte), Len(s) <= Len(t),
         \A i \in 1..Len(s) : t[i] = s[i], NEW n \in 0..Len(s)
  PROVE  /\ \A j \in Nat : j + 2 <= Len(s) => (CrLf(t, j) <=> CrLf(s, j))
         /\ \A a, k \in Nat : a + k <= Len(s) =>
              SubSeq(t, a + 1, a + k) = SubSeq(s, a + 1, a + k)
         /\ CrLf(s, End(s, n)) =>
              End(t, n) = End(s, n) /\ Size(t, n) = Size(s, n) /\ After(t, n) = After(s, n)
<1>1. Len(s) \in Nat /\ Len(t) \in Nat /\ n \in 0..Len(t)
  OBVIOUS
<1>2. ASSUME NEW j \in Nat, j + 2 <= Len(s)
      PROVE  CrLf(t, j) <=> CrLf(s, j)
  <2>1. j + 1 \in 1..Len(s) /\ j + 2 \in 1..Len(s) /\ j + 2 <= Len(t)
    BY <1>1, <1>2
  <2> QED BY <1>2, <2>1 DEF CrLf
<1>3. ASSUME NEW a \in Nat, NEW k \in Nat, a + k <= Len(s)
      PROVE  SubSeq(t, a + 1, a + k) = SubSeq(s, a + 1, a + k)
  <2> DEFINE x == SubSeq(s, a + 1, a + k)
             y == SubSeq(t, a + 1, a + k)
  <2>1. x \in Seq(Byte) /\ Len(x) = k /\ \A i \in 1..k : x[i] = s[a + i]
    BY <1>3, Part
  <2>2. a + k <= Len(t)
    BY <1>1, <1>3
  <2>3. y \in Seq(Byte) /\ Len(y) = k /\ \A i \in 1..k : y[i] = t[a + i]
    BY <2>2, Part
  <2> HIDE DEF x, y
  <2>4. \A i \in 1..k : a + i \in 1..Len(s)
    BY <1>1, <1>3
  <2>5. \A i \in 1..k : x[i] = y[i]
    BY <2>1, <2>3, <2>4
  <2>6. x = y
    BY <2>1, <2>3, <2>5, SeqEqual
  <2> QED BY <2>6 DEF x, y
<1>4. ASSUME CrLf(s, End(s, n))
      PROVE  End(t, n) = End(s, n) /\ Size(t, n) = Size(s, n) /\ After(t, n) = After(s, n)
  <2> DEFINE e == End(s, n)
  <2>1. e \in n..Len(s) /\ e \in Nat /\ \A i \in n..e - 1 : s[i + 1] \in Hex
    BY EndIs
  <2>2. e + 2 <= Len(s) /\ s[e + 1] = CR
    BY <1>4 DEF CrLf
  <2> HIDE DEF e
  <2>3. e + 1 \in 1..Len(s) /\ e \in n..Len(t) /\ \A i \in n..e - 1 : i + 1 \in 1..Len(s)
    BY <1>1, <2>1, <2>2
  <2>4. t[e + 1] \notin Hex /\ \A i \in n..e - 1 : t[i + 1] \in Hex
    BY <2>1, <2>2, <2>3, Digit DEF Spaces
  <2>5. FirstNot(t, Hex, n) = e
    BY <1>1, <2>3, <2>4, FirstNotIs
  <2>6. SubSeq(t, n + 1, e) = SubSeq(s, n + 1, e)
    <3>1. n \in Nat /\ e - n \in Nat /\ n + (e - n) = e /\ e <= Len(s)
      BY <2>1
    <3> QED BY <1>3, <3>1
  <2> QED BY <2>5, <2>6 DEF e, End, Size, After
<1> QED BY <1>2, <1>3, <1>4

LEMMA StrtolSame ==
  ASSUME Typed, NEW n \in 0..got, ~Blank(Buffer, n)
  PROVE  Strtol(n).end = End(Buffer, n) /\ Strtol(n).value = Size(Buffer, n)
<1>1. Buffer \in Seq(Byte) /\ Len(Buffer) = got /\ got \in Nat
  BY BufferIs
<1>2. FirstNot(Buffer, Spaces, n) = n
  <2>1. n \in 0..Len(Buffer) /\ n \in n..Len(Buffer) /\ \A i \in n..n - 1 : Buffer[i + 1] \in Spaces
    BY <1>1
  <2>2. n = Len(Buffer) \/ Buffer[n + 1] \notin Spaces
    BY <1>1 DEF Blank
  <2> QED BY <1>1, <2>1, <2>2, FirstNotIs
<1> QED BY <1>2 DEF Strtol, End, Size

\* What is still to be found in k bytes.
Rest(k) == DecodedFrom(SubSeq(stream, 1, k))[readIndex]

Agrees(k) ==
  LET all == Decoded(SubSeq(stream, 1, k))
  IN  \/ all.open
      \/ /\ all = [Rest(k) EXCEPT !.body = body \o @]
         /\ ended => Rest(k).body = <<>> /\ Rest(k).ended
         /\ k = got /\ ~busy =>
              Rest(k).body = <<>> /\ Rest(k).ended = ended /\ Rest(k).error = error

Agreeing ==
  /\ error # 0 => ~busy
  /\ error # 413 => \A k \in got..Len(stream) : Agrees(k)

LEMMA FieldsOf ==
  /\ \A e : /\ Stuck(e).body = <<>> /\ Stuck(e).ended = FALSE /\ Stuck(e).error = e
            /\ Stuck(e).open = FALSE
  /\ \A e : [Stuck(e) EXCEPT !.open = TRUE].open
  /\ \A e : \A b \in BOOLEAN :
       LET x == [Stuck(e) EXCEPT !.ended = b]
       IN  x.body = <<>> /\ x.ended = b /\ x.error = e /\ x.open = FALSE
  /\ \A d \in Result : \A b : LET x == [d EXCEPT !.body = b]
                              IN  /\ x.body = b /\ x.ended = d.ended /\ x.error = d.error
                                  /\ x.open = d.open
<1>1. \A e : /\ Stuck(e).body = <<>> /\ Stuck(e).ended = FALSE /\ Stuck(e).error = e
            /\ Stuck(e).open = FALSE
  BY DEF Stuck
<1>2. \A e : [Stuck(e) EXCEPT !.open = TRUE].open
  BY DEF Stuck
<1>3. ASSUME NEW e, NEW b \in BOOLEAN
      PROVE  LET x == [Stuck(e) EXCEPT !.ended = b]
             IN  x.body = <<>> /\ x.ended = b /\ x.error = e /\ x.open = FALSE
  BY DEF Stuck
<1>4. ASSUME NEW d \in Result, NEW b
      PROVE  LET x == [d EXCEPT !.body = b]
             IN  x.body = b /\ x.ended = d.ended /\ x.error = d.error /\ x.open = d.open
  BY DEF Result
<1> QED BY <1>1, <1>2, <1>3, <1>4

LEMMA InitAgreeing == Init => Agreeing
<1> SUFFICES ASSUME Init PROVE Agreeing
  OBVIOUS
<1>1. Typed /\ got = 0 /\ readIndex = 0 /\ body = <<>> /\ ended = FALSE /\ error = 0 /\ busy = FALSE
  BY InitTyped DEF Init
<1>2. ASSUME NEW k \in got..Len(stream)
      PROVE  Agrees(k)
  <2> DEFINE t == SubSeq(stream, 1, k)
             D == DecodedFrom(t)
  <2>1. t \in Seq(Byte) /\ Len(t) = k /\ k \in Nat
    BY <1>1, PrefixIs
  <2> HIDE DEF t
  <2>2. 0 \in 0..Len(t)
    BY <2>1
  <2>3. D[0] \in Result
    BY <2>1, <2>2, DecodedFromIs
  <2>4. D[0] = [D[0] EXCEPT !.body = <<>> \o @]
    <3>1. D[0].body \in Seq(Byte)
      BY <2>3 DEF Result
    <3>2. <<>> \o D[0].body = D[0].body
      BY <3>1, ConcatEmptySeq
    <3> HIDE DEF D
    <3>3. D[0] = [D[0] EXCEPT !.body = D[0].body]
      BY <2>3 DEF Result
    <3> QED BY <3>2, <3>3
  <2>5. k = 0 => D[0] = Stuck(0)
    <3> SUFFICES ASSUME k = 0 PROVE D[0] = Stuck(0)
      OBVIOUS
    <3>1. End(t, 0) \in Nat
      BY <2>1, <2>2, EndIs
    <3>2. ~CrLf(t, End(t, 0))
      BY <2>1, <3>1 DEF CrLf
    <3>3. ~Blank(t, 0)
      BY <2>1 DEF Blank
    <3>4. ~Whole(t, 0) /\ Stops(t, 0) = Stuck(0)
      BY <3>2, <3>3 DEF Whole, Stops
    <3> QED BY <2>1, <2>2, <3>4, DecodedFromIs
  <2>6. Decoded(SubSeq(stream, 1, k)) = D[0] /\ Rest(k) = D[0]
    BY <1>1 DEF Decoded, Rest, t
  <2> HIDE DEF D
  <2>7. D[0] = [D[0] EXCEPT !.body = body \o @]
    BY <1>1, <2>4
  <2>8. k = got => D[0].body = <<>> /\ D[0].ended = ended /\ D[0].error = error
    <3> SUFFICES ASSUME k = got PROVE D[0].body = <<>> /\ D[0].ended = ended /\ D[0].error = error
      OBVIOUS
    <3>1. D[0] = Stuck(0)
      BY <1>1, <2>5
    <3>2. /\ Stuck(0).body = <<>> /\ Stuck(0).ended = FALSE /\ Stuck(0).error = 0
      BY FieldsOf
    <3> QED BY ONLY <1>1, <3>1, <3>2
  <2> QED BY <1>1, <2>6, <2>7, <2>8 DEF Agrees
<1> QED BY <1>1, <1>2 DEF Agreeing

LEMMA DecodedStops ==
  ASSUME NEW s \in Seq(Byte), NEW n \in 0..Len(s), ~Whole(s, n)
  PROVE  DecodedFrom(s)[n] = Stops(s, n)
  BY DecodedFromIs

\* A chunk with data is not the end.
LEMMA NotYet ==
  ASSUME NEW s \in Seq(Byte), NEW n \in 0..Len(s), Whole(s, n)
  PROVE  DecodedFrom(s)[n].body # <<>>
<1> DEFINE x == DecodedFrom(s)[After(s, n)]
<1>1. After(s, n) \in 0..Len(s) /\ After(s, n) <= Len(s)
  BY EndIs DEF Whole
<1>2. x \in Result
  BY <1>1, DecodedFromIs
<1>3. DecodedFrom(s)[n] = [x EXCEPT !.body = Chunk(s, n) \o @]
  BY DecodedFromIs
<1> HIDE DEF x
<1>4. DecodedFrom(s)[n].body = Chunk(s, n) \o x.body
  BY <1>2, <1>3 DEF Result
<1>5. Chunk(s, n) \in Seq(Byte) /\ Len(Chunk(s, n)) = Size(s, n) /\ x.body \in Seq(Byte)
  BY <1>1, <1>2, ChunkType DEF Result
<1>6. Len(Chunk(s, n) \o x.body) > 0
  <2>1. Len(Chunk(s, n) \o x.body) = Len(Chunk(s, n)) + Len(x.body) /\ Len(x.body) \in Nat
    BY <1>5, Joined
  <2>2. Size(s, n) \in Nat /\ Size(s, n) > 0
    BY EndIs DEF Whole
  <2> QED BY <1>5, <2>1, <2>2
<1> QED BY <1>4, <1>6

\* Agrees, one step later.
LEMMA AgreesNext ==
  ASSUME NEW k,
         Decoded(SubSeq(stream, 1, k))' = [Rest(k)' EXCEPT !.body = body' \o @],
         ended' => Rest(k)'.body = <<>> /\ Rest(k)'.ended,
         k = got' /\ ~busy' =>
           Rest(k)'.body = <<>> /\ Rest(k)'.ended = ended' /\ Rest(k)'.error = error'
  PROVE  Agrees(k)'
  BY DEF Agrees

LEMMA StepAgrees ==
  ASSUME Typed, Agreeing, ParseChunkedBody, error' # 413, NEW k \in got..Len(stream)
  PROVE  Agrees(k)'
<1> DEFINE t   == SubSeq(stream, 1, k)
           r   == readIndex
           all == Decoded(t)
           e   == End(Buffer, r)
           z   == Size(Buffer, r)
           num == Strtol(r)
           start == num.end + 2
<1>1. busy /\ error = 0 /\ UNCHANGED <<stream, source, got>>
  BY DEF ParseChunkedBody, Agreeing
<1>2. Agrees(k)
  BY <1>1 DEF Agreeing
<1>3. /\ t \in Seq(Byte) /\ Len(t) = k /\ k \in Nat /\ got <= k
      /\ \A i \in 1..k : t[i] = stream[i]
      /\ \A i \in 1..got : t[i] = Buffer[i]
      /\ r \in 0..Len(t)
  BY PrefixIs
<1>4. /\ Buffer \in Seq(Byte) /\ Len(Buffer) = got /\ got \in Nat /\ Buffer = SubSeq(stream, 1, got)
      /\ r \in 0..got /\ body \in Seq(Byte) /\ got <= Len(stream) /\ stream \in Seq(Byte)
  BY BufferIs DEF Typed, TypeOK, Buffer
<1>5. Decoded(SubSeq(stream, 1, k))' = all
  BY <1>1
<1>6. Rest(k)' = DecodedFrom(t)[readIndex']
  BY <1>1 DEF Rest
<1>7. Rest(k) = DecodedFrom(t)[r]
  BY DEF Rest
<1> HIDE DEF t, r, all
<1>8. CASE all.open
  BY <1>5, <1>8 DEF Agrees
<1>9. CASE ~all.open
  <2>1. /\ all = [Rest(k) EXCEPT !.body = body \o @]
        /\ ended => Rest(k).body = <<>> /\ Rest(k).ended
    BY <1>2, <1>9 DEF Agrees, all, t
  <2>2. Rest(k) \in Result
    BY <1>3, <1>7, DecodedFromIs
  <2>3. ~Rest(k).open
    BY <1>9, <2>1, <2>2, FieldsOf
  <2>4. ~Blank(t, r)
    <3> SUFFICES ASSUME Blank(t, r) PROVE FALSE
      OBVIOUS
    <3>1. ~Whole(t, r)
      BY DEF Whole
    <3>2. DecodedFrom(t)[r] = Stops(t, r)
      BY <1>3, <3>1, DecodedStops
    <3>3. Stops(t, r).open
      BY FieldsOf DEF Stops
    <3> QED BY <1>7, <2>3, <3>2, <3>3
  <2>5. ~Blank(Buffer, r)
    <3>1. ASSUME r < got
          PROVE  r + 1 \in 1..got
      BY <1>4, <3>1
    <3> QED BY <1>3, <1>4, <2>4, <3>1 DEF Blank
  <2>6. num.end = e /\ num.value = z
    BY <1>4, <2>5, StrtolSame
  <2>7. e \in r..got /\ e \in Nat /\ z \in Nat /\ After(Buffer, r) = e + z + 4
    BY <1>4, EndIs DEF After
  <2>8. /\ \A j \in Nat : j + 2 <= got => (CrLf(t, j) <=> CrLf(Buffer, j))
        /\ CrLf(Buffer, e) => End(t, r) = e /\ Size(t, r) = z /\ After(t, r) = e + z + 4
    <3> DEFINE b == Buffer
    <3>1. b \in Seq(Byte) /\ Len(b) <= Len(t) /\ r \in 0..Len(b) /\ \A i \in 1..Len(b) : t[i] = b[i]
      BY <1>3, <1>4
    <3> HIDE DEF b
    <3>2. \A j \in Nat : j + 2 <= Len(b) => (CrLf(t, j) <=> CrLf(b, j))
      BY <1>3, <3>1, Longer, SMTT(30)
    <3>3. CrLf(b, End(b, r)) =>
            End(t, r) = End(b, r) /\ Size(t, r) = Size(b, r) /\ After(t, r) = After(b, r)
      BY <1>3, <3>1, Longer
    <3> QED BY <1>4, <2>7, <3>2, <3>3 DEF b
  <2>9. CrLf(Buffer, e) => CrLf(t, e)
    BY <1>4, <2>7, <2>8 DEF CrLf
  <2>10. SizeKnown(num) <=> CrLf(Buffer, e)
    BY <2>6 DEF SizeKnown
  <2>11. /\ \/ SizeKnown(num) /\ num.value = 0 /\ HandleChunkedEnd(start)
            \/ SizeKnown(num) /\ num.value > 0 /\ Arrived(start, num.value)
                 /\ AppendChunkedData(start, num.value)
            \/ /\ ~SizeKnown(num) \/ (num.value > 0 /\ ~Arrived(start, num.value))
               /\ busy' = FALSE
               /\ UNCHANGED <<readIndex, body, ended, error>>
    BY DEF ParseChunkedBody, r
  <2> HIDE DEF num, e, z
  <2>12. CASE SizeKnown(num) /\ num.value = 0 /\ HandleChunkedEnd(start)
    <3> DEFINE over  == \E n \in start .. got : CrLf(Buffer, n)
               there == \E m \in e + 2 .. k : CrLf(t, m)
    <3>1. start = e + 2 /\ CrLf(Buffer, e) /\ z = 0
      BY <2>6, <2>10, <2>12
    <3>2. ~Whole(t, r) /\ Stops(t, r) = [Stuck(0) EXCEPT !.ended = there]
      BY <1>3, <2>4, <2>8, <2>9, <3>1 DEF Whole, Stops
    <3>3. over => there
      <4> SUFFICES ASSUME NEW n \in start..got, CrLf(Buffer, n) PROVE there
        OBVIOUS
      <4>1. n \in Nat /\ n + 2 <= got /\ n \in e + 2..k
        BY <1>3, <1>4, <2>7, <3>1 DEF CrLf
      <4> QED BY <2>8, <4>1
    <3>4. k = got => (there => over)
      <4> SUFFICES ASSUME k = got, NEW m \in e + 2..k, CrLf(t, m) PROVE over
        OBVIOUS
      <4>1. m \in Nat /\ m + 2 <= got /\ m \in start..got
        BY <1>3, <1>4, <2>7, <3>1 DEF CrLf
      <4> QED BY <2>8, <4>1
    <3> HIDE DEF over, there
    <3>5. Rest(k) = [Stuck(0) EXCEPT !.ended = there]
      BY <1>3, <1>7, <3>2, DecodedFromIs
    <3>6. there \in BOOLEAN
      BY DEF there
    <3>7. Rest(k).body = <<>> /\ Rest(k).ended = there /\ Rest(k).error = 0
      BY <3>5, <3>6, FieldsOf
    <3>8. /\ error' = IF over /\ TooLarge THEN 413 ELSE error
          /\ ended' = (ended \/ (over /\ ~TooLarge))
          /\ readIndex' = r /\ body' = body
      BY <2>12 DEF HandleChunkedEnd, over, r
    <3>9. Rest(k)' = Rest(k)
      BY <1>6, <1>7, <3>8
    <3>10. ended' => Rest(k).body = <<>> /\ Rest(k).ended
      BY <2>1, <3>3, <3>7, <3>8
    <3>11. error' = 0 /\ ~(over /\ TooLarge)
      BY <1>1, <3>8
    <3>12. k = got => (ended' <=> there)
      <4>1. ended => there
        BY <2>1, <3>7
      <4> QED BY <3>3, <3>4, <3>8, <3>11, <4>1
    <3>13. ended' \in BOOLEAN
      BY <3>8
    <3>14. k = got => Rest(k).ended = ended'
      BY <3>6, <3>7, <3>12, <3>13
    <3>15. k = got => Rest(k).error = error'
      BY <3>7, <3>11
    <3>16. Decoded(SubSeq(stream, 1, k))' = [Rest(k)' EXCEPT !.body = body' \o @]
      BY <1>5, <2>1, <3>8, <3>9
    <3>17. ended' => Rest(k)'.body = <<>> /\ Rest(k)'.ended
      BY <3>9, <3>10
    <3>18. k = got' => Rest(k)'.body = <<>> /\ Rest(k)'.ended = ended' /\ Rest(k)'.error = error'
      BY <1>1, <3>7, <3>9, <3>14, <3>15
    <3> QED BY ONLY <3>16, <3>17, <3>18, AgreesNext
  <2>13. CASE SizeKnown(num) /\ num.value > 0 /\ Arrived(start, num.value)
              /\ AppendChunkedData(start, num.value)
    <3>1. start = e + 2 /\ CrLf(Buffer, e) /\ z > 0 /\ num.value = z
      BY <2>6, <2>10, <2>13
    <3>2. e + z + 4 <= got /\ e + z + 4 \in 0..k /\ start + z = e + z + 2 /\ e + z + 2 \in Nat
          /\ start + z + 2 = e + z + 4
      <4>1. start + z + 2 <= got
        BY <2>13, <3>1 DEF Arrived
      <4>2. start = e + 2 /\ e \in Nat /\ z \in Nat /\ got \in Nat /\ k \in Nat /\ got <= k
        BY <1>3, <1>4, <2>7, <3>1
      <4> HIDE DEF start
      <4> QED BY <4>1, <4>2
    <3>3. CrLf(t, e + z + 2) <=> CrLf(Buffer, e + z + 2)
      BY <2>8, <3>2, <2>7, <1>4
    <3>4. End(t, r) = e /\ Size(t, r) = z /\ After(t, r) = e + z + 4 /\ CrLf(t, End(t, r))
          /\ After(t, r) - 2 = e + z + 2 /\ After(t, r) <= Len(t)
      BY <1>3, <2>7, <2>8, <2>9, <3>1, <3>2
    <3>5. CASE CrLf(Buffer, e + z + 2)
      <4> DEFINE x == DecodedFrom(t)[e + z + 4]
                 data == Chunk(t, r)
      <4>1. Whole(t, r)
        BY <2>4, <3>1, <3>3, <3>4, <3>5 DEF Whole
      <4>2. Rest(k) = [x EXCEPT !.body = data \o @]
        BY <1>3, <1>7, <3>4, <4>1, DecodedFromIs
      <4>3. x \in Result /\ data \in Seq(Byte)
        BY <1>3, <3>2, <3>4, DecodedFromIs, ChunkType
      <4>4. ~ended
        BY <1>3, <1>7, <2>1, <4>1, NotYet
      <4>5. /\ body' = body \o SubSeq(stream, start + 1, start + z)
            /\ readIndex' = e + z + 4
            /\ UNCHANGED <<ended, error, busy>>
        BY <2>13, <3>1, <3>2, <3>5 DEF AppendChunkedData, AfterChunk
      <4>6. SubSeq(stream, start + 1, start + z) = data
        <5>1. data = SubSeq(t, start + 1, start + z)
          <6>1. End(t, r) + 3 = start + 1 /\ After(t, r) - 2 = start + z
            BY <2>7, <3>1, <3>2, <3>4
          <6> QED BY <6>1 DEF Chunk
        <5>2. /\ start \in Nat /\ z \in Nat /\ start + z <= Len(t) /\ Len(t) <= Len(stream)
              /\ 0 \in 0..Len(t)
          BY <1>3, <2>7, <3>1, <3>2
        <5>3. \A i \in 1..Len(t) : stream[i] = t[i]
          BY <1>3
        <5> HIDE DEF start, data
        <5>4. \A a, c \in Nat : a + c <= Len(t) =>
                SubSeq(stream, a + 1, a + c) = SubSeq(t, a + 1, a + c)
          BY <1>3, <1>4, <5>2, <5>3, Longer
        <5> QED BY <5>1, <5>2, <5>4
      <4>7. Rest(k)' = x
        BY <1>6, <4>5
      <4> HIDE DEF x, data
      <4>8. all = [x EXCEPT !.body = (body \o data) \o @]
        <5> DEFINE y == x.body
        <5>1. y \in Seq(Byte) /\ body \in Seq(Byte) /\ data \in Seq(Byte)
          BY <1>4, <4>3 DEF Result
        <5> HIDE DEF y
        <5>2. (body \o data) \o y = body \o (data \o y)
          BY ONLY <5>1, Associative, SMTT(30)
        <5>3. Rest(k).body = data \o y
          BY <4>2, <4>3 DEF Result, y
        <5>4. all = [Rest(k) EXCEPT !.body = body \o (data \o y)]
          BY <2>1, <5>3
        <5>5. ASSUME NEW q \in Result, NEW u \in Seq(Byte), NEW v \in Seq(Byte)
              PROVE  [[q EXCEPT !.body = u] EXCEPT !.body = v] = [q EXCEPT !.body = v]
          <6>1. ASSUME NEW p \in Result, NEW w
                PROVE  [p EXCEPT !.body = w] =
                         [body |-> w, ended |-> p.ended, error |-> p.error, open |-> p.open]
            BY DEF Result
          <6>2. [q EXCEPT !.body = u] \in Result
            BY DEF Result
          <6>3. LET p == [q EXCEPT !.body = u]
                IN  p.ended = q.ended /\ p.error = q.error /\ p.open = q.open
            BY FieldsOf
          <6> QED BY <6>1, <6>2, <6>3, ZenonT(30)
        <5>6. Rest(k) = [x EXCEPT !.body = data \o y]
          BY <4>2 DEF y
        <5>7. all = [x EXCEPT !.body = body \o (data \o y)]
          <6>1. data \o y \in Seq(Byte) /\ body \o (data \o y) \in Seq(Byte)
            BY <5>1, Joined
          <6> QED BY <4>3, <5>4, <5>5, <5>6, <6>1
        <5> QED BY <5>2, <5>7 DEF y
      <4>9. body' = body \o data
        BY <4>5, <4>6
      <4> QED BY <1>1, <1>5, <4>4, <4>5, <4>7, <4>8, <4>9 DEF Agrees
    <3>6. CASE ~CrLf(Buffer, e + z + 2)
      <4>1. ~Whole(t, r)
        BY <3>3, <3>4, <3>6 DEF Whole
      <4>2. Stops(t, r) = Stuck(400)
        BY <1>3, <2>4, <3>1, <3>2, <3>4 DEF Stops
      <4>3. Rest(k) = Stuck(400)
        BY <1>3, <1>7, <4>1, <4>2, DecodedFromIs
      <4>4. Rest(k).body = <<>> /\ Rest(k).ended = FALSE /\ Rest(k).error = 400
        BY <4>3, FieldsOf
      <4>5. error' = 400 /\ UNCHANGED <<readIndex, body, ended>>
        BY <2>13, <3>1, <3>2, <3>6 DEF AppendChunkedData
      <4>6. Rest(k)' = Rest(k)
        BY <1>6, <1>7, <4>5 DEF r
      <4>7. ended = FALSE
        BY <2>1, <4>4 DEF Typed, TypeOK
      <4>8. all = [Rest(k)' EXCEPT !.body = body' \o @]
        BY <2>1, <4>5, <4>6
      <4>9. ended' = FALSE
        BY <4>5, <4>7
      <4>10. Decoded(SubSeq(stream, 1, k))' = [Rest(k)' EXCEPT !.body = body' \o @]
        BY <1>5, <4>8
      <4>11. Rest(k)'.body = <<>> /\ Rest(k)'.ended = FALSE /\ Rest(k)'.error = error'
        BY <4>4, <4>5, <4>6
      <4> QED BY ONLY <4>9, <4>10, <4>11, AgreesNext
    <3> QED BY <3>5, <3>6
  <2>14. CASE /\ ~SizeKnown(num) \/ (num.value > 0 /\ ~Arrived(start, num.value))
              /\ busy' = FALSE
              /\ UNCHANGED <<readIndex, body, ended, error>>
    <3>1. Rest(k)' = Rest(k)
      BY <1>6, <1>7, <2>14 DEF r
    <3>2. ASSUME k = got
          PROVE  Rest(k).body = <<>> /\ Rest(k).ended = FALSE /\ Rest(k).error = 0
      <4>1. t = Buffer
        BY <1>4, <3>2 DEF t
      <4>2. ~CrLf(t, End(t, r)) \/ (Size(t, r) > 0 /\ After(t, r) > Len(t))
        BY <1>4, <2>6, <2>7, <2>10, <2>14, <4>1 DEF Arrived, e, z
      <4>3. Size(t, r) \in Nat /\ After(t, r) \in Nat /\ Len(t) \in Nat
        BY <1>3, EndIs
      <4>4. ~Whole(t, r)
        BY <4>2, <4>3 DEF Whole
      <4>5. Stops(t, r) = Stuck(0)
        BY <2>4, <4>2, <4>3 DEF Stops
      <4>6. Rest(k) = Stuck(0)
        BY <1>3, <1>7, <4>4, <4>5, DecodedFromIs
      <4> QED BY <4>6, FieldsOf
    <3>3. k = got => ended = FALSE
      BY <2>1, <3>2 DEF Typed, TypeOK
    <3> QED BY <1>1, <1>5, <2>1, <2>14, <3>1, <3>2, <3>3 DEF Agrees
  <2> QED BY <2>11, <2>12, <2>13, <2>14
<1> QED BY <1>8, <1>9

LEMMA NextAgreeing == Typed /\ Agreeing /\ [Next]_vars => Agreeing'
<1> SUFFICES ASSUME Typed, Agreeing, [Next]_vars PROVE Agreeing'
  OBVIOUS
<1>1. CASE Receive
  <2>1. busy' = TRUE /\ error = 0 /\ UNCHANGED <<stream, readIndex, body, ended, error>>
        /\ got' \in got + 1..Len(stream)
    BY <1>1 DEF Receive
  <2>2. got \in Nat /\ Len(stream) \in Nat
    BY DEF Typed, TypeOK
  <2>3. ASSUME NEW k \in got'..Len(stream)
        PROVE  Agrees(k)'
    <3>1. k \in got..Len(stream)
      BY <2>1, <2>2
    <3>2. Agrees(k)
      BY <2>1, <3>1 DEF Agreeing
    <3>3. Rest(k)' = Rest(k) /\ Decoded(SubSeq(stream, 1, k))' = Decoded(SubSeq(stream, 1, k))
      BY <2>1 DEF Rest
    <3> QED BY <2>1, <3>2, <3>3 DEF Agrees
  <2> QED BY <2>1, <2>3 DEF Agreeing
<1>2. CASE ParseChunkedBody
  <2>1. error' # 413 => \A k \in got..Len(stream) : Agrees(k)'
    BY <1>2, StepAgrees
  <2>2. got' = got /\ stream' = stream /\ busy /\ error = 0
    BY <1>2 DEF ParseChunkedBody, Agreeing
  <2>3. error' # 0 => ~busy'
    BY <1>2, <2>2 DEF ParseChunkedBody, HandleChunkedEnd, AppendChunkedData
  <2> QED BY <2>1, <2>2, <2>3 DEF Agreeing
<1>3. CASE UNCHANGED vars
  BY <1>3 DEF vars, Agreeing, Agrees, Rest
<1> QED BY <1>1, <1>2, <1>3 DEF Next

LEMMA AgreeingDecides == Typed /\ Agreeing => PiecesDoNotMatter
<1> DEFINE d == Decoded(Buffer)
<1> SUFFICES ASSUME Typed, Agreeing, ~busy, error # 413
             PROVE  d.open \/ (body = d.body /\ ended = d.ended /\ error = d.error)
  BY DEF PiecesDoNotMatter
<1>1. /\ got \in got..Len(stream) /\ Buffer = SubSeq(stream, 1, got) /\ Buffer \in Seq(Byte)
      /\ Len(Buffer) = got /\ readIndex \in 0..got /\ body \in Seq(Byte)
  BY BufferIs DEF Typed, TypeOK, Buffer
<1>2. Agrees(got)
  BY <1>1 DEF Agreeing
<1>3. Rest(got) \in Result
  BY <1>1, DecodedFromIs DEF Rest
<1>4. d.open \/ /\ d = [Rest(got) EXCEPT !.body = body \o @]
                /\ Rest(got).body = <<>> /\ Rest(got).ended = ended /\ Rest(got).error = error
  BY <1>1, <1>2 DEF Agrees
<1> HIDE DEF d
<1>5. CASE /\ d = [Rest(got) EXCEPT !.body = body \o @]
           /\ Rest(got).body = <<>> /\ Rest(got).ended = ended /\ Rest(got).error = error
  <2>1. d = [Rest(got) EXCEPT !.body = body \o <<>>]
    BY <1>5
  <2>2. body \o <<>> = body
    BY <1>1, ConcatEmptySeq
  <2>3. d = [Rest(got) EXCEPT !.body = body]
    BY <2>1, <2>2
  <2>4. d.body = body /\ d.ended = Rest(got).ended /\ d.error = Rest(got).error
    BY <1>3, <2>3, FieldsOf
  <2> QED BY <1>5, <2>4
<1> QED BY <1>4, <1>5

\* For every stream and every way recv may cut it up, what has been decoded of the bytes
\* received is what a decoder given them at once finds, until a blank stands in place
\* of a size.
THEOREM PiecesIrrelevant == Spec => []PiecesDoNotMatter
<1>1. Init => Typed /\ Agreeing
  BY InitTyped, InitAgreeing
<1>2. (Typed /\ Agreeing) /\ [Next]_vars => (Typed /\ Agreeing)'
  BY NextTyped, NextAgreeing
<1>3. Typed /\ Agreeing => PiecesDoNotMatter
  BY AgreeingDecides
<1> QED BY <1>1, <1>2, <1>3, PTL DEF Spec
=============================================================================
