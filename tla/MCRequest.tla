----------------------------- MODULE MCRequest -----------------------------
EXTENDS Request, TLC

Loc(path, root, limit, max) == [path |-> path, root |-> root, limit |-> limit, max |-> max]

GETs == {<<"GET">>}

\* The shape of conf/default.conf: nested locations, limits, roots that come from the
\* location, from the server, or from nowhere.
TwoPorts ==
  (80 :> << [names |-> {<<"a">>}, root |-> <<>>,
             locations |-> << Loc(<<"/", "p">>, <<"/", "u", "/">>, {<<"GET">>, <<"POST">>, <<"DELETE">>}, 1),
                              Loc(<<"/">>, <<"/", "r">>, GETs, None),
                              Loc(<<"/", "p", "/", "q">>, <<>>, {}, None) >>],
            [names |-> {<<"b">>, <<"c">>}, root |-> <<"/", "s">>,
             locations |-> << Loc(<<"/">>, <<>>, {}, None), Loc(<<"/", "p">>, <<>>, {}, None) >>] >>)
  @@
  (81 :> << [names |-> {}, root |-> <<>>,
             locations |-> << Loc(<<"/", "p">>, <<"/">>, {}, None) >>] >>)

SomeNumbers == ("1" :> 1) @@ ("2" :> 2)

SomeWords ==
  {"/", ":", " ", CRLF, "p", "q", "x", "y", "u", "r", "s", "a", "b", "c", "80", "1", "2", "0", "#", ".py",
   "GET", "DELETE", "POST", "PUT", "HEAD", "HTTP/1.1", "HTTP/1.0",
   "Host", "Content-Length", "Transfer-Encoding", "chunked", "X"}

Field(name, value) == [name |-> <<name>>, sep |-> <<":", " ">>, value |-> value]

Plain(verb, target, fields) ==
  [verb |-> <<verb>>, target |-> target, version |-> "HTTP/1.1", fields |-> fields, body |-> <<>>]

Targets ==
  {<<"/">>, <<"/", "p">>, <<"/", "p", "/">>, <<"/", "p", "/", "q">>, <<"/", "p", "x">>, <<"/", "p", "/", ".py">>}

Hosts == {<<>>, <<Field("Host", <<"b">>)>>, <<Field("Host", <<"a", ":", "80">>)>>}

Routed == {Plain(v, t, h) : v \in {"GET", "DELETE", "POST"}, t \in Targets, h \in Hosts}

Get == Plain("GET", <<"/", "p">>, <<>>)

B == Field("Host", <<"b">>)

Refused ==
  {[Get EXCEPT !.verb = <<"HEAD">>], [Get EXCEPT !.version = "HTTP/1.0", !.fields = <<B>>],
   [Get EXCEPT !.target = <<"/", " ", "p">>], [Get EXCEPT !.target = <<" ", "/">>],
   [Get EXCEPT !.target = <<>>]}
  \cup {[Get EXCEPT !.fields = <<B, f>>] :
          f \in {Field("Host", <<>>), Field("Host", <<"b", " ", " ", "c">>), Field("X", <<"x", ":", " ">>),
                 Field("X", <<"x", " ", "y">>),
                 Field("Host", <<"a", ":", " ", "b">>),
                 [name |-> <<"X", " ">>, sep |-> <<":", " ">>, value |-> <<"y">>],
                 [name |-> <<"X">>, sep |-> <<":">>, value |-> <<"y">>]}}

Post == Plain("POST", <<"/", "p">>, <<>>)

Length(n) == Field("Content-Length", <<n>>)
Coding == Field("Transfer-Encoding", <<"chunked">>)
Chunk == <<"1", CRLF, "#", CRLF, "0", CRLF, CRLF>>

WithBody ==
  {[Post EXCEPT !.fields = <<Length("2")>>, !.body = <<"#", "#">>],
   [Post EXCEPT !.fields = <<Length("1")>>, !.body = <<"#">>],
   [Post EXCEPT !.fields = <<Length("1")>>, !.body = <<"#", "#">>],
   [Post EXCEPT !.target = <<"/">>, !.fields = <<Length("1")>>, !.body = <<"#">>],
   [Post EXCEPT !.fields = <<Coding>>, !.body = Chunk],
   [Get  EXCEPT !.fields = <<Length("1")>>, !.body = <<"#">>],
   [Get  EXCEPT !.fields = <<Length("1")>>, !.body = <<"#", "#">>],
   [Get  EXCEPT !.fields = <<Coding>>, !.body = Chunk]}

Later == {Get, Plain("GET", <<"/">>, <<Field("Host", <<"a">>)>>), Plain("POST", <<"/", "p">>, <<B>>)}

SomeTalks ==
  {<<q>> : q \in Routed} \cup {<<q, r>> : q \in Refused \cup WithBody \cup Later, r \in Later}
    \cup {<<Plain("GET", <<"/">>, <<B>>), q, Get>> : q \in Refused}
=============================================================================
