--------------------------- MODULE MCCgiExchange ---------------------------
EXTENDS CgiExchange

SomeWords == {CRLF, "a", "b", "State", "Type"}

SomeBodies == {<<>>, <<"a", "b">>}

Text(body, blank) == [first |-> <<"State">>, fields |-> <<"Type", CRLF>>, blank |-> blank, body |-> body]

SomeOutputs == {Text(<<CRLF>>, TRUE), Text(<<>>, FALSE), NoOutput}
=============================================================================
