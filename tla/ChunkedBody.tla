---------------------------- MODULE ChunkedBody ----------------------------
(***************************************************************************)
(* Request::parsingChunkedData: decoding a chunked body that arrives in    *)
(* pieces.  Every piece recv delivers is appended to _requestBuffer, and   *)
(* parseChunkedBody is called until it returns false.  A buffer is modelled *)
(* as far as the decoder tells bytes apart; index n is the byte after the  *)
(* first n, counted from _bodyStartIndex.                                  *)
(***************************************************************************)
EXTENDS Integers, FiniteSets, SequencesExt

CONSTANTS Bodies,     \* bodies peers send: sequences of chunks, each the digits of its
                      \* size and its data
          Streams,    \* further sequences of bytes peers send
          MaxBody,    \* client_max_body_size of the location, or Unlimited
          Unlimited,
          Others      \* the bytes the decoder does not tell apart

CR == "\r"
LF == "\n"
Spaces == {CR, LF, " "}
Digits == <<"0", "1", "2", "3", "4", "5", "6", "7", "8", "9", "a", "b", "c", "d", "e", "f">>
Hex == ToSet(Digits)
Byte == Hex \cup Spaces \cup Others
HexValue(d) == (CHOOSE n \in DOMAIN Digits : Digits[n] = d) - 1

\* The number a sequence of digits stands for.
Value(digits) ==
  LET v[n \in 0 .. Len(digits)] == IF n = 0 THEN 0 ELSE 16 * v[n - 1] + HexValue(digits[n])
  IN  v[Len(digits)]

ASSUME Limit == MaxBody # Unlimited => MaxBody \in Nat

ASSUME Sent ==
  /\ \A b \in Bodies : \A n \in DOMAIN b :
       /\ b[n].size \in Seq(Hex) /\ b[n].data \in Seq(Byte) \ {<<>>}
       /\ Value(b[n].size) = Len(b[n].data)
  /\ \A b \in Bodies : b \in Seq(ToSet(b))
  /\ Streams \subseteq Seq(Byte)

VARIABLES
  stream,    \* all the bytes the peer will send after the header
  source,    \* history: the body they encode, or <<>>
  got,       \* how many of them _requestBuffer holds
  readIndex, \* _readIndex
  body,      \* _requestBody
  ended,     \* _chunkedEnd
  error,     \* what was thrown: 400, 413, or 0
  busy       \* parsingChunkedData's loop runs

vars == <<stream, source, got, readIndex, body, ended, error, busy>>

-----------------------------------------------------------------------------
(* The reference: what a chunked body is, and what a sequence of bytes means. *)

Encode(chunks) ==
  FlattenSeq([n \in DOMAIN chunks |->
                chunks[n].size \o <<CR, LF>> \o chunks[n].data \o <<CR, LF>>])
    \o <<"0", CR, LF, CR, LF>>

Data(chunks) == FlattenSeq([n \in DOMAIN chunks |-> chunks[n].data])

CrLf(s, n) == n + 2 <= Len(s) /\ s[n + 1] = CR /\ s[n + 2] = LF

\* The first index of s from n on where what is no longer holds.
FirstNot(s, S, n) == Min({m \in n .. Len(s) : m = Len(s) \/ s[m + 1] \notin S})

\* A size is digits and an end of line; anything else never becomes one.  What a blank
\* in its place means is left open.
Stuck(e) == [body |-> <<>>, ended |-> FALSE, error |-> e, open |-> FALSE]

\* What the bytes of s after the first n mean.
DecodedFrom(s) ==
  LET D[n \in 0 .. Len(s)] ==
        LET end  == FirstNot(s, Hex, n)
            size == Value(SubSeq(s, n + 1, end))
            next == end + size + 4
        IN  IF n < Len(s) /\ s[n + 1] \in Spaces THEN [Stuck(0) EXCEPT !.open = TRUE]
            ELSE IF ~CrLf(s, end) THEN Stuck(0)
            ELSE CASE size = 0 -> [Stuck(0) EXCEPT !.ended = \E m \in end + 2 .. Len(s) : CrLf(s, m)]
                   [] size > 0 /\ next > Len(s) -> Stuck(0)
                   [] size > 0 /\ next <= Len(s) /\ ~CrLf(s, next - 2) -> Stuck(400)
                   [] OTHER -> [D[next] EXCEPT !.body = SubSeq(s, end + 3, next - 2) \o @]
  IN D

Decoded(s) == DecodedFrom(s)[0]

-----------------------------------------------------------------------------
Init ==
  /\ \/ source \in Bodies /\ stream = Encode(source)
     \/ source = <<>> /\ stream \in Streams
  /\ got = 0 /\ readIndex = 0
  /\ body = <<>> /\ ended = FALSE /\ error = 0 /\ busy = FALSE

\* recv hands over the next bytes, however many; none after an error, when the
\* socket's READ event is deleted.
Receive ==
  /\ ~busy /\ error = 0
  /\ got' \in got + 1 .. Len(stream)
  /\ busy' = TRUE
  /\ UNCHANGED <<stream, source, readIndex, body, ended, error>>

Buffer == SubSeq(stream, 1, got)

\* strtol base 16 at index n of the buffer: leading space is skipped; without a
\* digit the result is 0 and the end is n.  Signs and 0x do not occur in stream.
Strtol(n) ==
  LET first == FirstNot(Buffer, Spaces, n)
      end   == FirstNot(Buffer, Hex, first)
  IN  [end   |-> IF end = first THEN n ELSE end,
       value |-> Value(SubSeq(Buffer, first + 1, end))]

\* The size is known once its line has ended.
SizeKnown(num) == CrLf(Buffer, num.end)

\* Mutant: the two bytes after the data are not waited for.
ArrivedData(start, size) == start + size <= got

\* A chunk is taken when all of it has arrived.
Arrived(start, size) == start + size + 2 <= got

\* Mutant: the end of the size line is counted twice.
AfterTwoLines(start, size) == start + size + 4

AfterChunk(start, size) == start + size + 2

\* appendChunkedData.
AppendChunkedData(start, size) ==
  IF CrLf(Buffer, start + size)
  THEN /\ body' = body \o SubSeq(stream, start + 1, start + size)
       /\ readIndex' = AfterChunk(start, size)
       /\ UNCHANGED <<ended, error, busy>>
  ELSE /\ error' = 400 /\ busy' = FALSE
       /\ UNCHANGED <<readIndex, body, ended>>

\* Mutant: the limit is one byte too high.
TooLargeByOne == MaxBody # Unlimited /\ Len(body) > MaxBody + 1

TooLarge == MaxBody # Unlimited /\ Len(body) > MaxBody

\* handleChunkedEnd: the last chunk, once an end of line follows it.
HandleChunkedEnd(start) ==
  LET over == \E n \in start .. got : CrLf(Buffer, n)
  IN /\ error' = IF over /\ TooLarge THEN 413 ELSE error
     /\ ended' = (ended \/ (over /\ ~TooLarge))
     /\ busy' = FALSE
     /\ UNCHANGED <<readIndex, body>>

\* parseChunkedBody, and the loop around it.
ParseChunkedBody ==
  LET num   == Strtol(readIndex)
      start == num.end + 2
  IN
  /\ busy
  /\ \/ SizeKnown(num) /\ num.value = 0 /\ HandleChunkedEnd(start)
     \/ SizeKnown(num) /\ num.value > 0 /\ Arrived(start, num.value)
          /\ AppendChunkedData(start, num.value)
     \/ /\ ~SizeKnown(num) \/ (num.value > 0 /\ ~Arrived(start, num.value))
        /\ busy' = FALSE
        /\ UNCHANGED <<readIndex, body, ended, error>>
  /\ UNCHANGED <<stream, source, got>>

Next == Receive \/ ParseChunkedBody

Spec == Init /\ [][Next]_vars

-----------------------------------------------------------------------------
TypeOK ==
  /\ got \in 0 .. Len(stream)
  /\ readIndex \in 0 .. got
  /\ Len(body) <= readIndex
  /\ ended \in BOOLEAN /\ error \in {0, 400, 413} /\ busy \in BOOLEAN

\* How the network cuts the bytes into pieces makes no difference: what was decoded
\* of the bytes received so far is what a decoder given them at once would find.  This
\* is so until a blank stands where a size is expected: strtol skips it, but only if a
\* digit that follows has come as well; without it, an end of line there is a size of 0.
PiecesDoNotMatter ==
  ~busy /\ error # 413 =>
    LET d == Decoded(Buffer)
    IN  d.open \/ (body = d.body /\ ended = d.ended /\ error = d.error)

\* The body of a well-formed request is never garbled: bytes of it appear in order,
\* its end is neither seen too early nor missed once the last byte has come, and a
\* body over client_max_body_size is answered 413 instead.
BodyFaithful ==
  source # <<>> =>
    LET all == Data(source)
    IN /\ IsPrefix(body, all)
       /\ error # 400
       /\ ended \/ error = 413 => body = all
       /\ got = Len(stream) /\ ~busy => ended \/ error = 413
       /\ ended => MaxBody = Unlimited \/ Len(all) <= MaxBody
=============================================================================
