---------------------------- MODULE ConfigParser ----------------------------
(***************************************************************************)
(* Configuration::parsing: four passes over the tokens of the file.        *)
(* setCheckList gives every token its kind, checkSyntax matches brackets,  *)
(* checkSameKey looks for repeated directives, and setValue builds the     *)
(* servers and hands them to Operation.  One action is one iteration of    *)
(* the loop of one pass.  getToken's work is not modelled: a file is the   *)
(* sequence of tokens it returns.                                          *)
(***************************************************************************)
EXTENDS Integers, FiniteSets, SequencesExt

CONSTANTS Files,   \* files, as sequences of tokens
          Configs, \* abstract configurations, whose renderings are parsed too
          Plain,   \* the words that are no name of a block, bracket or semicolon
          Ports,   \* the words util::stoui turns into a number that is not 0
          AnyPort, \* the port of a Server whose _listen was never set
          None

ASSUME NoPort == AnyPort \notin Ports

VARIABLES
  file,       \* the tokens
  source,     \* history: the configuration file is the rendering of, or None
  phase,      \* the pass that runs, or how parsing ended
  i,          \* its loop index
  check,      \* checkList: the kinds given so far
  tokenState, \* _tokenState
  bracket,    \* _bracket, its top last
  stackState, \* _stackState
  blockCount, \* _blockCount
  block,      \* the local "state" of checkSameKey and setValue
  table,      \* serverTable and locationTable: the keys met; None when not yet cleared
  server,     \* the local "server" of setValue
  location,   \* the local "location" of setValue
  servers     \* Operation::_servers, in the order of registration

lists    == <<check, tokenState>>
brackets == <<bracket, stackState, blockCount>>
values   == <<server, location, servers>>
vars     == <<file, source, phase, i, lists, brackets, block, table, values>>

Phases == {"setCheckList", "checkSyntax", "checkSameKey", "setValue", "done", "error", "undefined"}
Kinds  == {"SERVER", "LOCATION", "PATH", "OPEN_BRACKET", "CLOSE_BRACKET", "SEMICOLON", "KEY", "VALUE"}
States == {"SERVER", "LOCATION", "PATH", "KEY", "VALUE", "SEMICOLON", "CLOSE_BRACKET"}

ServerKeys == {"server_name", "root", "listen", "error_page", "index", "client_max_body_size"}
LocationKeys ==
  {"root", "index", "autoindex", "upload", ".py", ".bla", ".php", "client_max_body_size",
   "limit_except", "try_files"}

\* The directives whose values are collected; of the others the last value counts.
ListKeys == {"server_name", "error_page", "limit_except"}

Fields(keys) == [k \in keys |-> <<>>]

\* None is no kind, no kind with a state and no set of keys.
ASSUME NoneIsNone ==
  /\ None \notin Kinds
  /\ \A k \in Kinds, s \in States : None # <<k, s>>
  /\ \A keys \in SUBSET (ServerKeys \cup LocationKeys) : None # keys

NewLocation == [path |-> None, values |-> Fields(LocationKeys)]
NewServer   == [values |-> Fields(ServerKeys), locations |-> <<>>]

-----------------------------------------------------------------------------
(* What a well-formed file is, and what it means: the reference. *)

\* A configuration is a sequence of servers, a server a record of directives,
\* each a pair of a key and its values, and of locations that follow them.
ASSUME PlainWords == Plain \cap {"server", "location", "{", "}", ";"} = {}

Directive == Plain \X (Seq(Plain) \ {<<>>})
Location  == [path : Plain, directives : Seq(Directive)]

ASSUME ConfigsKnown ==
  Configs \subseteq Seq([directives : Seq(Directive), locations : Seq(Location)])

Directives(ds) == FlattenSeq([n \in DOMAIN ds |-> <<ds[n][1]>> \o ds[n][2] \o <<";">>])
Locations(ls) ==
  FlattenSeq([n \in DOMAIN ls |->
            <<"location", ls[n].path, "{">> \o Directives(ls[n].directives) \o <<"}">>])
Render(conf) ==
  FlattenSeq([n \in DOMAIN conf |->
            <<"server", "{">> \o Directives(conf[n].directives)
              \o Locations(conf[n].locations) \o <<"}">>])

\* What getToken returns is finite.
ASSUME Tokens == \A f \in Files : Len(f) \in Nat

Given(keys, ds) ==
  [k \in keys |->
     LET ours == {n \in DOMAIN ds : ds[n][1] = k}
         vs   == ds[Min(ours)][2]
     IN  IF ours = {} THEN <<>> ELSE IF k \in ListKeys THEN vs ELSE <<Last(vs)>>]

Meaning(conf) ==
  [n \in DOMAIN conf |->
     [port      |-> Given(ServerKeys, conf[n].directives)["listen"][1],
      values    |-> Given(ServerKeys, conf[n].directives),
      locations |-> [m \in DOMAIN conf[n].locations |->
                       [path   |-> conf[n].locations[m].path,
                        values |-> Given(LocationKeys, conf[n].locations[m].directives)]]]]

\* Every server names its port.
Listening(conf) == \A n \in DOMAIN conf : \E d \in ToSet(conf[n].directives) : d[1] = "listen"

\* No directive is repeated, paths differ within a server, ports are numbers, and
\* servers that listen on one port have no name in common.
KeysDiffer(keys, ds) ==
  /\ \A n \in DOMAIN ds : ds[n][1] \in keys
  /\ \A m, n \in DOMAIN ds : ds[m][1] = ds[n][1] => m = n
Unambiguous(ss) ==
  /\ \A m, n \in DOMAIN ss : m # n /\ ss[m].port = ss[n].port =>
       ToSet(ss[m].values["server_name"]) \cap ToSet(ss[n].values["server_name"]) = {}
  /\ \A n \in DOMAIN ss : \A a, b \in DOMAIN ss[n].locations :
       ss[n].locations[a].path = ss[n].locations[b].path => a = b
Valid(conf) ==
  /\ \A n \in DOMAIN conf :
       /\ KeysDiffer(ServerKeys, conf[n].directives)
       /\ \A d \in ToSet(conf[n].directives) : d[1] = "listen" => ToSet(d[2]) \subseteq Ports
       /\ \A l \in ToSet(conf[n].locations) : KeysDiffer(LocationKeys, l.directives)
  /\ Unambiguous(Meaning(conf))

-----------------------------------------------------------------------------
Init ==
  /\ \/ file \in Files /\ source = None
     \/ source \in Configs /\ file = Render(source)
  /\ phase = "setCheckList" /\ i = 1
  /\ check = <<>> /\ tokenState = "SERVER"
  /\ bracket = <<>> /\ stackState = None /\ blockCount = 0
  /\ block = "SERVER" /\ table = [server |-> None, location |-> None]
  /\ server = NewServer /\ location = NewLocation /\ servers = <<>>

\* A thrown logic_error or runtime_error: main reports it and exits.
Throw == phase' = "error" /\ UNCHANGED <<i, lists, brackets, block, table, values>>

\* Memory is read that is not there.
Undefined == phase' = "undefined" /\ UNCHANGED <<i, lists, brackets, block, table, values>>

\* The loop of a pass ends; the next one starts with its own "state".
Go(pass) ==
  /\ phase' = pass
  /\ i' = 1 /\ block' = "SERVER"
  /\ UNCHANGED <<lists, brackets, table, values>>

InPass(p) == phase = p /\ i <= Len(file)
AtEnd(p)  == phase = p /\ i > Len(file)

\* setCheckList's else: a word, or a misplaced ; { or location.
Word(s, w) ==
  CASE s \in {"PATH", "LOCATION"} -> <<"PATH", "PATH">>
    [] s = "KEY" /\ w # ";"       -> <<"KEY", "VALUE">>
    [] s = "VALUE"                -> <<"VALUE", "VALUE">>
    [] OTHER                      -> None

\* The kind of token w in _tokenState s, and the next state.  The state SEMICOLON
\* is tested for but never entered, so that } always leaves the state alone.
Classify(s, w) ==
  CASE w = "server" -> <<"SERVER", "SERVER">>
    [] w = "location" /\ s \in {"KEY", "SEMICOLON", "CLOSE_BRACKET"} -> <<"LOCATION", "LOCATION">>
    [] w = "{" /\ s \in {"PATH", "SERVER"} -> <<"OPEN_BRACKET", "KEY">>
    [] w = "}" -> <<"CLOSE_BRACKET", CASE s = "CLOSE_BRACKET" -> "SERVER"
                                       [] s = "SEMICOLON" -> "CLOSE_BRACKET"
                                       [] OTHER -> s>>
    [] w = ";" /\ s = "VALUE" -> <<"SEMICOLON", "KEY">>
    [] OTHER -> Word(s, w)

SetCheckList ==
  \/ /\ InPass("setCheckList")
     /\ LET k == Classify(tokenState, file[i])
        IN \/ k = None /\ Throw
           \/ /\ k # None
              /\ check' = Append(check, k[1]) /\ tokenState' = k[2]
              /\ i' = i + 1
              /\ UNCHANGED <<phase, brackets, block, table, values>>
  \/ AtEnd("setCheckList") /\ Go("checkSyntax")

-----------------------------------------------------------------------------
Prev == IF i = 1 THEN None ELSE check[i - 1]

\* checkSyntax's tests on two neighbours.
Refused(p, cur) ==
  \/ p = cur /\ p \notin {"PATH", "CLOSE_BRACKET", "VALUE"}
  \/ p = "VALUE" /\ cur \in {"LOCATION", "CLOSE_BRACKET"}
  \/ p = "KEY" /\ cur = "SEMICOLON"

Push(k) ==
  \/ k \in {"SERVER", "LOCATION"} /\ stackState = k /\ Throw
  \/ /\ k \in {"SERVER", "LOCATION"} => stackState # k
     /\ bracket' = Append(bracket, k)
     /\ IF k = "OPEN_BRACKET"
        THEN UNCHANGED <<stackState, blockCount>>
        ELSE stackState' = k /\ blockCount' = blockCount + 1
     /\ i' = i + 1
     /\ UNCHANGED <<phase, lists, block, table, values>>

\* Mutant: a location that closes is not counted.
UncountedServer(name) == IF name = "SERVER" THEN blockCount - 1 ELSE blockCount

\* Mutant: the decrement stands in each branch and after them.
UncountedTwice(name) == blockCount - 2

\* _blockCount is an unsigned int.
Uncounted(name) == blockCount - 1

\* pop reads the name under an open bracket without asking whether there is one.
Pop ==
  LET n   == Len(bracket)
      top == IF n = 0 THEN None ELSE bracket[n]
  IN \/ top # "OPEN_BRACKET" /\ Throw
     \/ top = "OPEN_BRACKET" /\ n = 1 /\ Undefined
     \/ /\ top = "OPEN_BRACKET" /\ n > 1
        /\ \/ bracket[n - 1] \notin {"SERVER", "LOCATION"} /\ Throw
           \/ /\ bracket[n - 1] \in {"SERVER", "LOCATION"}
              /\ stackState' = IF bracket[n - 1] = "SERVER" THEN None ELSE "SERVER"
              /\ blockCount' = Uncounted(bracket[n - 1])
              /\ bracket' = SubSeq(bracket, 1, n - 2)
              /\ i' = i + 1
              /\ UNCHANGED <<phase, lists, block, table, values>>

CheckSyntax ==
  \/ /\ InPass("checkSyntax")
     /\ \/ Refused(Prev, check[i]) /\ Throw
        \/ /\ ~Refused(Prev, check[i])
           /\ CASE check[i] \in {"SERVER", "LOCATION", "OPEN_BRACKET"} -> Push(check[i])
                [] check[i] = "CLOSE_BRACKET" -> Pop
                [] OTHER -> /\ i' = i + 1
                            /\ UNCHANGED <<phase, lists, brackets, block, table, values>>
  \/ /\ AtEnd("checkSyntax")
     /\ \/ blockCount # 0 /\ Throw
        \/ blockCount = 0 /\ Go("checkSameKey")

-----------------------------------------------------------------------------
\* findServerKey, findLocationKey.
KeysOf(b) == IF b = "SERVER" THEN ServerKeys ELSE LocationKeys

\* A new block clears its own table, and its keys are checked against that one until
\* the next block starts, also those that follow the end of a location.
CheckSameKey ==
  LET name == IF block = "SERVER" THEN "server" ELSE "location"
      move == i' = i + 1 /\ UNCHANGED <<phase, lists, brackets, values>>
  IN
  \/ /\ InPass("checkSameKey")
     /\ \/ /\ check[i] = "SERVER"
           /\ block' = "SERVER" /\ table' = [table EXCEPT !.server = {}]
           /\ move
        \/ /\ check[i] = "LOCATION"
           /\ block' = "LOCATION" /\ table' = [table EXCEPT !.location = {}]
           /\ move
        \/ /\ check[i] = "KEY"
           /\ \/ /\ \/ file[i] \notin KeysOf(block)
                    \/ table[name] = None              \* not cleared: any content
                    \/ table[name] # None /\ file[i] \in table[name]
                 /\ Throw
              \/ /\ file[i] \in KeysOf(block)
                 /\ table[name] # None => file[i] \notin table[name]
                 /\ table' = IF table[name] = None THEN table
                             ELSE [table EXCEPT ![name] = @ \cup {file[i]}]
                 /\ UNCHANGED block
                 /\ move
        \/ /\ check[i] \notin {"SERVER", "LOCATION", "KEY"}
           /\ UNCHANGED <<block, table>>
           /\ move
  \/ AtEnd("checkSameKey") /\ Go("setValue")

-----------------------------------------------------------------------------
\* Mutant: the first of several values counts.
TakeFirst(r, k, vs) ==
  IF k \in DOMAIN r.values /\ vs # <<>> THEN [r EXCEPT !.values[k] = <<vs[1]>>] ELSE r

\* Server::setValue and setLocationValue for all the values of one directive; the
\* index -1 of a key of the other kind of block sets nothing.
Take(r, k, vs) ==
  IF k \in DOMAIN r.values /\ vs # <<>>
  THEN [r EXCEPT !.values[k] = IF k \in ListKeys THEN @ \o vs ELSE <<Last(vs)>>]
  ELSE r

\* _listen, or whatever an unset one contains.
ListenPorts ==
  IF server.values["listen"] = <<>> THEN Ports \cup {AnyPort} ELSE ToSet(server.values["listen"])

\* Mutant: only the first of its names is compared.
ClashFirst(p) ==
  \E s \in ToSet(servers) :
    LET names == s.values["server_name"]
    IN  s.port = p /\ names # <<>> /\ Head(names) \in ToSet(server.values["server_name"])

\* compareServer: a registered server has the port and one of the names.
Clash(p) ==
  \E s \in ToSet(servers) :
    s.port = p /\ ToSet(s.values["server_name"]) \cap ToSet(server.values["server_name"]) # {}

\* The end of a server: Operation::setServer.
CloseServer ==
  \E p \in ListenPorts :
    \/ Clash(p) /\ Throw
    \/ /\ ~Clash(p)
       /\ servers' = Append(servers, [port |-> p, values |-> server.values,
                                      locations |-> server.locations])
       /\ i' = i + 1
       /\ UNCHANGED <<phase, lists, brackets, block, table, server, location>>

\* The end of a location: Server::setLocation.
CloseLocation ==
  LET paths == {l.path : l \in ToSet(server.locations)}
  IN \/ location.path \in paths /\ Throw
     \/ /\ location.path \notin paths
        /\ server' = [server EXCEPT !.locations = Append(@, location)]
        /\ block' = "SERVER"
        /\ i' = i + 1
        /\ UNCHANGED <<phase, lists, brackets, table, location, servers>>

\* A KEY takes every token up to the next SEMICOLON, of whatever kind; the inner
\* loop does not stop at the end of checkList.
SetDirective ==
  LET ends   == {n \in i + 1 .. Len(check) : check[n] = "SEMICOLON"}
      end    == IF ends = {} THEN Len(check) + 1 ELSE Min(ends)
      vs     == SubSeq(file, i + 1, end - 1)
      badNum == block = "SERVER" /\ file[i] = "listen" /\ ~(ToSet(vs) \subseteq Ports)
  IN \/ badNum /\ Throw
     \/ ~badNum /\ ends = {} /\ Undefined
     \/ /\ ~badNum /\ ends # {}
        /\ IF block = "SERVER"
           THEN server' = Take(server, file[i], vs) /\ UNCHANGED location
           ELSE location' = Take(location, file[i], vs) /\ UNCHANGED server
        /\ i' = end + 1
        /\ UNCHANGED <<phase, lists, brackets, block, table, servers>>

SetValue ==
  \/ /\ InPass("setValue")
     /\ \/ check[i] = "CLOSE_BRACKET" /\ block = "SERVER" /\ CloseServer
        \/ check[i] = "CLOSE_BRACKET" /\ block = "LOCATION" /\ CloseLocation
        \/ /\ check[i] = "SERVER"
           /\ block' = "SERVER" /\ server' = NewServer
           /\ i' = i + 1
           /\ UNCHANGED <<phase, lists, brackets, table, location, servers>>
        \/ /\ check[i] = "LOCATION"
           /\ block' = "LOCATION" /\ location' = NewLocation
           /\ i' = i + 1
           /\ UNCHANGED <<phase, lists, brackets, table, server, servers>>
        \/ check[i] = "KEY" /\ SetDirective
        \/ /\ check[i] = "PATH"
           /\ location' = [location EXCEPT !.path = file[i]]
           /\ i' = i + 1
           /\ UNCHANGED <<phase, lists, brackets, block, table, server, servers>>
        \/ /\ check[i] \in {"OPEN_BRACKET", "SEMICOLON", "VALUE"}
           /\ i' = i + 1
           /\ UNCHANGED <<phase, lists, brackets, block, table, values>>
  \/ AtEnd("setValue") /\ Go("done")

Next ==
  /\ SetCheckList \/ CheckSyntax \/ CheckSameKey \/ SetValue
  /\ UNCHANGED <<file, source>>

Spec == Init /\ [][Next]_vars

-----------------------------------------------------------------------------
(* Properties. *)

Parsed == phase \in {"checkSameKey", "setValue", "done"}
Named == {n \in DOMAIN bracket : bracket[n] \in {"SERVER", "LOCATION"}}

TypeOK ==
  /\ phase \in Phases
  /\ i \in 1 .. Len(file) + 1
  /\ check \in Seq(Kinds) /\ Len(check) <= Len(file)
  /\ phase = "setCheckList" => Len(check) = i - 1
  /\ Parsed \/ phase = "checkSyntax" => Len(check) = Len(file)
  /\ tokenState \in States
  /\ bracket \in Seq({"SERVER", "LOCATION", "OPEN_BRACKET"})
  /\ stackState \in {None, "SERVER", "LOCATION"}
  /\ blockCount \in Nat
  /\ block \in {"SERVER", "LOCATION"}

\* The four passes agree on a well-formed file: it is accepted, and Operation gets
\* the servers, directives and locations it describes; a file in which a directive,
\* a path or a name of a port is repeated, or a port is no number, is refused.  (Of a
\* server without "listen" the port is whatever memory holds.)
WellFormedParsed ==
  source # None /\ Listening(source) =>
    /\ phase = "done"  => Valid(source) /\ servers = Meaning(source)
    /\ phase = "error" => ~Valid(source)
    /\ phase # "undefined"

\* _blockCount is the number of servers and locations still on the stack, so that it
\* never wraps below 0 and no block is left open when checkSyntax accepts a file.
BlocksCounted ==
  /\ blockCount = Cardinality(Named)
  /\ Parsed => Named = {}

\* Whatever the file, of the servers registered for one port no two have a name in
\* common, and no two locations of a server have the same path.
RoutesUnambiguous == Unambiguous(servers)

\* "Error: Token Semicolon error": the values of a directive end with a semicolon,
\* or the file is refused.
SemicolonChecked ==
  phase \in {"setValue", "done"} => \A n \in DOMAIN check :
    check[n] = "KEY" =>
      \E m \in n + 1 .. Len(check) :
        check[m] = "SEMICOLON" /\ \A l \in n + 1 .. m - 1 : check[l] = "VALUE"

\* "Error: server or location is not exist": a block without a name is refused.
NamelessRefused == phase = "undefined" => bracket # <<"OPEN_BRACKET">>

\* "Error: Server is already exist": a server inside a server is refused.
ServersApart ==
  phase = "done" => \A m, n \in DOMAIN check :
    m < n /\ check[m] = "SERVER" /\ check[n] = "SERVER" =>
      LET inside(k) == {l \in m .. n : check[l] = k}
      IN  Cardinality(inside("CLOSE_BRACKET")) >= Cardinality(inside("OPEN_BRACKET"))
=============================================================================
