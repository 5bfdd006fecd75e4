--------------------------- MODULE MCConfigParser ---------------------------
EXTENDS ConfigParser

\* Every file of at most n tokens over W.
Upto(n, W) == UNION {[1..k -> W] : k \in 0..n}

Words == {"server", "location", "{", "}", ";", "root", "80"}

\* A token is lost, replaced or put in.
Edits(f) ==
  {f} \cup {RemoveAt(f, k) : k \in DOMAIN f}
      \cup {[f EXCEPT ![k] = w] : k \in DOMAIN f, w \in Words}
      \cup {InsertAt(f, k, w) : k \in 1..Len(f) + 1, w \in Words}

Base == <<"server", "{", "listen", "80", ";", "location", "/", "{", "}", "}">>

\* Two edits away from a file that is accepted.
EditedFiles == UNION {Edits(f) : f \in Edits(Base)}

\* A word that is neither a bracket nor the name of a block is lost or put in.
PlainEdits(f) ==
  {f} \cup {RemoveAt(f, k) : k \in {j \in DOMAIN f : f[j] \in {"root", "80", ";"}}}
      \cup {InsertAt(f, k, w) : k \in 1..Len(f) + 1, w \in {"root", "80", ";"}}

DirectiveFiles ==
  UNION {PlainEdits(f) : f \in PlainEdits(<<"server", "{", "root", "80", ";", "}">>)}

ShortFiles == Upto(4, Words)

NestedFiles == {<<"server", "{", "location", "/", "{", "server", "{", "}", "}", "}">>}

-----------------------------------------------------------------------------
SomeWords ==
  {"listen", "server_name", "root", "limit_except", "upload", "80", "81", "a", "b", "x", "y",
   "GET", "POST", "/", "/a"}

\* Sequences of at most n members of S.
SeqUpto(n, S) == UNION {[1..k -> S] : k \in 0..n}

Limits == <<"limit_except", <<"GET", "POST">>>>
Roots  == <<"root", <<"x", "y">>>>

SomeLocations ==
  [path : {"/", "/a"}, directives : {<<>>, <<Roots, Limits>>, <<Roots, Roots>>}]

SomeDirectives ==
  {<<>>,
   << <<"listen", <<"x">>>> >>,
   << <<"listen", <<"80">>>> >>,
   << <<"listen", <<"80">>>>, <<"upload", <<"y">>>> >>,
   << <<"server_name", <<"a", "b">>>>, <<"listen", <<"80">>>> >>,
   << <<"listen", <<"80", "81">>>>, <<"server_name", <<"b">>>> >>,
   << <<"listen", <<"80">>>>, Roots, <<"server_name", <<"b">>>> >>}

ServersWith(n) == [directives : SomeDirectives, locations : SeqUpto(n, SomeLocations)]

SomeConfigs == SeqUpto(1, ServersWith(2)) \cup SeqUpto(2, ServersWith(1))
=============================================================================
