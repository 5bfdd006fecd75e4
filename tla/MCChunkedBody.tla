--------------------------- MODULE MCChunkedBody ---------------------------
EXTENDS ChunkedBody

\* Data that looks like the framing around it, in chunks of up to two bytes; sizes of
\* one digit or two, the largest more than sixteen.
Chunk(data) == [size |-> <<Digits[Len(data) + 1]>>, data |-> data]

Chunks == {Chunk(d) : d \in UNION {[1..n -> {"z", "0", CR, LF}] : n \in 1..2}}

Long == [size |-> <<"1", "2">>, data |-> [n \in 1..18 |-> "1"]]

SomeBodies ==
  {<<c>> : c \in Chunks} \cup {<<c, d>> : c, d \in Chunks}
    \cup {<<[Chunk(<<"z">>) EXCEPT !.size = <<"0", "1">>]>>, <<Long>>}

\* One byte of an encoded body is replaced, or blanks stand before it.
BrokenStreams ==
  LET whole == {Encode(<<c>>) : c \in Chunks} \cup {Encode(<<Chunk(<<"z">>), c>>) : c \in Chunks}
  IN  UNION {{[s EXCEPT ![n] = w] : n \in DOMAIN s, w \in {"z", "1", CR}} : s \in whole}
        \cup {<<CR, LF>> \o b \o Encode(<<Chunk(<<"z">>)>>) : b \in {<<>>, <<CR, LF>>, <<" ">>}}
=============================================================================
