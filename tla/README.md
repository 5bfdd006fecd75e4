# webserv, specified and checked

TLA+ models of webserv, a single-threaded HTTP/1.1 server written in C++98 on
`kqueue`, their model checking with TLC, and proofs about them with TLAPS. Paths below
are relative to the repository.

## The system

One process, one thread, one kqueue. `main` parses a configuration file into
`Operation::_servers` and calls `Operation::start`, which opens a listening socket for
each port and loops for ever: `kevent` returns a batch of up to 1024 events,
`handleEvent` handles them one by one. Everything else happens inside a handler:

- the listening socket becomes readable: `acceptClient` makes a `Request` and a
  `Client`, whose constructor registers READ on the socket and a 60 s timer;
- a client's socket becomes readable: the bytes go to `Request::handleRequest`, which
  parses the header when all of it is there, finds the server and the location, starts a
  script for POST and PUT, and hands over to `Client::handleResponse`; a GET of a `.py`
  file starts a script too, any other GET and a DELETE are answered at once;
- a script's pipes become writable or readable, or the script exits: `writePipe` feeds it
  the body, `readPipe` collects its output and makes the answer of it, `handleEndProcess`
  reaps it and asks for the answer to be sent;
- a client's socket becomes writable: `sendData` sends the answer, and starts over when
  all of it is out;
- the timer fires, or the peer is gone: `CleanUpClientResources` frees the client.

An `int` thrown by a handler is an HTTP status; `handleEvent` catches it and turns it into
an error answer. An `int` that leaves `handleEvent` reaches `main`, which calls `start`
again.

| component | state | operations | interacts with |
|---|---|---|---|
| Event loop (`Operation`) | the kqueue, the current batch, `_clients`, `_servers` | accept, dispatch, error answer, clean-up | kernel (kevent), Client through raw `udata` pointers |
| Client | socket, two pipes, pid, status code, response, send and write indexes | send, end of a process, destructor, add and delete events | Request, children, kernel |
| CGI processes | running, exited, reaped, killed | fork, exit, wait, kill; pipes | Client |
| Request header and routing | `_state`, buffer, fields, server, location | parse, route, reset | Client, Server |
| Chunked decoder | `_readIndex`, `_requestBody`, `_chunkedEnd` | decode what has arrived | Client (`handleResponse`) |
| Configuration parser | token kinds, bracket stack, block counter, tables | four passes | Operation (`setServer`), Server |
| Server, Location | directives, locations | set a value, add a location | parser, routing |
| main | none | start, restart on `int`, exit on an exception | all |

What is hard to get right here: the order of the events in a batch and what an event does
to the later ones; objects the kernel knows by a pointer or by a number that is reused;
exceptions thrown while another is handled; scripts that exit before, while or after
their pipes are used; bytes that arrive cut anywhere; and four parser passes that
recognise blocks each in its own way. `PROJECT.json` lists these hazards line by line.

## Modules

| module | models | state and actions |
|---|---|---|
| `Kqueue` | `kevent(2)` as the repository uses it (external) | a set of knotes (filter, ident, udata); `Add`, `Del`, `CloseAll` |
| `EventLoop` | event loop, Client, CGI processes, the control of Request | `kn` the kqueue, `batch` the events still to handle, `mode` how `main` fares, `cl` the Clients with their Requests, `clients` `_clients`, `fdt` the descriptor table, `proc` the processes, `stolen` a history variable |
| `Connection` | abstract: what the server promises each peer | `stage` and `code` of each connection; accept, answer, finish, close |
| `Request` | one connection's `Request`: header parser, choice of server, location and file, reset | `req` the object, `wire` and `talk` what the peer says, `answers` what is answered; `Send`, `Receive`, `ScriptEnds`, `SendAnswer`, `Close` |
| `CgiExchange` | the bytes between a connection and its script, and to its peer | `cl` the Client, `sc` the script, `inp` and `outp` the pipes, `out` what the peer has got; one action per handler and per step of the script |
| `ChunkedBody` | `Request::parsingChunkedData` | `Receive`, `ParseChunkedBody` |
| `ConfigParser` | the four passes of `Configuration::parsing`, `Server::setValue`, `setLocation`, `Operation::setServer` | one action per pass, each an iteration of its loop |
| `MCEventLoop`, `MCRequest`, `MCCgiExchange`, `MCChunkedBody`, `MCConfigParser` | symmetry and the sets of inputs the runs use | |
| `EventLoopProofs`, `ConnectionProofs`, `UptimeProofs`, `CgiExchangeProofs`, `RequestProofs`, `ChunkedBodyProofs`, `ConfigParserProofs` | theorems and their proofs | |
| `SequenceLemmas` | induction and recursion, and lemmas about the operators on sequences | |

The server is cut along what its parts tell one another. `EventLoop` has every
connection, event and descriptor, and of the data only what control asks for: is an
answer there, is a body as long as announced, has routing refused. `Request` and
`CgiExchange` each take one connection, keep the bytes, and let what `EventLoop` says of
events happen in any order one connection can see. `ChunkedBody` is one call of
`Request`, `ConfigParser` what happens before the loop.

### EventLoop

An action is one event handled from `handleEvent`'s `switch` to the end, with every call
on the way. `HandleEvent(e)` takes any event left in the batch: nothing promises the
order in which `kevent` fills its array, so a batch is a set. `Kevent` returns any
non-empty set of ready knotes up to `MAX_EVENT`. Only `ChildExits` interleaves with the
handlers.

A handler works on copies `r` of the client's record and `K` of the knotes, made in the
order of the code's calls, and ends in `Return`, `Throw` (the `catch (const int)` and
`handleError`), `Leave` (the loop is left) or `CleanUp` (the client is freed and
`handleEvent` returns). `Throw` is where the double faults are: when READ is no longer
registered on the socket, `deleteSocketReadEvent` throws out of the catch block.

`mode` says what became of the process: `"deaf"` is the state after `main` caught an
`int` and called `start` again (a new, empty kqueue; `bind` fails on ports that are still
open), `"exited"` the return from `main`, `"killed"` SIGPIPE from `writePipe`, and
`"undefined"` the use of freed or absent memory. Nothing is claimed, and nothing happens,
after the loop is left.

The data is abstracted to what control depends on. A response is empty or not (`resp`,
`buf`), a body is short of, equal to or over its Content-Length, a status is 200, 405,
500 or "another error that is handled the same way" (400 stands for 400, 404, 413, 505),
and a method is GET, CGI (a GET of a `.py` file), DELETE or POST (and PUT).

Descriptors are numbers from `Fds`: a socket gets any free one, and a close frees it for
the next, as in the process. `writePipe` and `readPipe` close a pipe without forgetting
its number, so a later close may hit a descriptor of another connection. That is
modelled, and `stolen` remembers it; some properties are claimed only as long as it has
not happened.

Faults are a parameter: which of accept, pipe and fork may fail for want of resources
(accept and pipe always fail when no descriptor is left), whether the error page may be
missing, whether a header field may lack its `": "`, and whether a root may have no name
in it (then `isFilePy` reads the last element of an empty vector).

### Connection, and how EventLoop implements it

`Connection` is the promise to a peer: after it is accepted, requests and answers
alternate, an answer has one status from its first byte to its last, a 405 is the last
answer, a closed connection stays closed, and no step moves two connections at once. The
end of `EventLoop` maps its state to that: a connection is `"answering"` when WRITE is
registered on its socket, `"awaiting"` when it is live and WRITE is not, `"lost"` when
the loop was left or a descriptor was stolen. `Converses` is the mapped specification, a
property of the run `children`.

### Request

A word of bytes is a token's piece or one of the separators the parser looks for, so that
a request can be cut anywhere that matters. `ParsingHeader`, `RequestLineError`,
`FieldLineError`, `GetToken`, `Stoui`, `FindServer`, `FindLocation`, `Convert`, `Allowed`
and `Cleared` are the functions of these names; `HandleRequest`, `HandleResponse`,
`HandleGet`, ... the control above them, of which the sending itself, files and scripts
are left to choice. `Tokens` finds tokens where `util::getToken` does, one byte and not
one delimiter after the last, which is why a field's value begins with a blank. `Reading`
is the loop of `parsingHeader`, line by line, so that what the lines before a bad one have
set stays set.

The peer chooses a talk, a sequence of up to three requests, and either waits for each
answer or does not. `Requests` says what a request is: lines
without line ends, a method without blanks, and a field's name without a colon; a target
may have blanks, a field may lack its `": "`. The reference says of a request, not of its
bytes, what the header must lead to (`HeaderVerdict`), and which server and location are meant: the host in
force is the last one named on the connection, because `clearRequest` keeps `_host`.
A server's configuration may hold anything the parser accepts: any locations, of which no
two of a server share a path (`RoutesUnambiguous`).

### CgiExchange

One connection, its requests one after the other, and one script at a time. The events of
`EventLoop` that concern it are actions: `WritePipe`, `ReadPipe`, `EndProcess`,
`SendData`, `Close`, `Ask` and `ReceiveBody` for the socket; the script reads, prints,
exits with 0 or fails at any time. `LoseExit` is the one event of other connections that
reaches it: a clean-up drops the batch with the report of the script's exit. Pipes hold `Capacity` bytes, reads and writes move any
number of them. A text is a sequence of words of which CRLF is two bytes, so that
Content-Length is a real count. `Wrapped` is what `readPipe` makes of an output, `Reply`
what the peer should get.

History variables tell what went on: `ask` the request and the status of its answer,
`out` what the peer has got of it, and `race` which of three orders came about: a script's
exit was handled before the end of its output (`"early"`), output was read into an error
answer or another request (`"mixed"`), the connection was closed from outside
(`"gone"`). Unlike in `EventLoop`, descriptors here are never stolen and system calls do
not fail.

### ConfigParser

A file is the sequence of tokens `getToken` returns. `setCheckList` gives each a kind,
`checkSyntax` pushes and pops blocks, `checkSameKey` rejects repeated keys, `setValue`
builds `Server` objects. The reference is in the same module: a configuration is a
record, `Render` writes it, `Valid` says whether it is unambiguous and `Meaning` which
servers it describes. Its keys, values and paths are words of `Plain`, any words but the
names of blocks, brackets and `;`; a key may be one the parser does not know. The phase `"undefined"` is a read outside memory: the top of an
empty stack, or `checkList` past its end.

### ChunkedBody

Bytes are single-character strings; the decoder tells CR, LF, blank, hexadecimal digits
and the rest (`Others`) apart. Sizes have any number of digits. The reference is `Encode`
(what a chunked body is) and `Decoded` (what a sequence of bytes means if it comes at
once). `Decoded` leaves open what follows a blank in place of a size: `strtol` skips
white space, but only if a digit behind it is already there, so what it finds depends on
the cut.

## Runs

| run | instance | question | distinct states |
|---|---|---|---|
| `interleavings` | 2 clients, 3 descriptors, 1 process, batches of 2; GET, CGI, POST; accept failing, roots without a name | do knotes, events and Client objects agree; is a connection always timed, watched and registered, and either reading or writing | 122,000 |
| `faults` | the same, CGI and POST, pipe, fork, accept and page failing, bad fields | are scripts ended with their connection, is nobody else killed, are answers final | 180,000 |
| `children` | 2 clients, 4 descriptors, 2 processes, batches of 3; CGI | may `waitpid` block, which exit reports may be lost; does the loop implement `Connection` | 236,000 |
| `requests` | 1 client, every method, chunked or not | does a 200 wait for the header, for the body of a GET or DELETE and for the script of a POST; can anything but a script end the loop | 58,000 |
| `liveness` | 2 clients, 3 descriptors, 1 process | are connections reclaimed and endless scripts killed | 151,000 |
| `routing` | 2 ports, 3 servers, 6 locations; talks of one to three requests out of good, refused and with body, cut anywhere | is every request answered as it asks, and every peer that waits; where does the connection lose its place | 119,000 |
| `cgi_exchange` | 2 requests, bodies of up to 2 words and outputs of up to 6, pipes of 2, reports of exits that get lost | do bodies and outputs pass whole; who is left without an answer, or waiting | 1,126,000 |
| `chunked` | bodies of one or two chunks of 1-2 bytes out of `z 0 CR LF`, one of 18 bytes, limit 3; such bodies with one byte replaced or white space before them; all cuts | is a good body decoded or answered 413; does the outcome depend on the cuts | 78,000 |
| `config_files` | every file two token edits from a good one; configurations of up to two servers with up to two locations | is the block counter right on arbitrary files; does the parser accept exactly the unambiguous configurations and build what they say | 399,000 |

Three runs end in a violation and show a disagreement between what the parser's own
checks announce and what they do:

- `config_semicolon`: `server { root }` passes `checkSyntax` and `checkSameKey`: a value
  right before `}` is refused and a semicolon right after a key, but not a key right
  before `}`. (`setValue`, which the run stops before, then takes the bracket for a value
  and reads past the end of `checkList`.) Its files have their blocks as they are, and
  only other words are lost or put in.
- `config_nameless`: for `{ }` `pop` reads the top of an empty stack.
- `config_nested`: a server inside a location is accepted and replaces the outer one.

### Bounds

Connections: `Clients` are never reused after they are freed, so a run sees as many
connections as it has clients; two are enough for one to disturb another (the same
descriptor number, the same batch). Three descriptors are two sockets and one pipe, or
one connection with a POST's two pipes; a fourth lets two scripts run at once. Running
out of descriptors thus happens in every run, with pipe and accept failing for it.
`MAX_EVENT` 2 or 3 stands for 1024: a batch that mixes two clients, or all of one
client's knotes. Symmetry is used for safety runs only; clients, descriptors and
processes are interchangeable in every definition and property.

Three requests on a connection (`routing`) are one that sets a host, one that is refused
and one that is answered by what they left. Two (`cgi_exchange`, `MaxTurns`) let the
output and the pipes of the first meet the second. Pipes of two are full after two:
an output needs several writes, a body may, and script and server can wait for each other.
The outputs have a body with a line end, or no empty line, or nothing at all.

The edited files of `config_files` include unbalanced and misplaced brackets, lost semicolons
and repeated keys. Chunks of one or two bytes out of CR, LF, a digit and another byte
imitate every part of the framing; a replaced byte makes sizes that are too small, too
large, or not numbers; the chunk of 18 bytes has a size of two digits.

### Fairness

`EventLoop`'s `FairSpec` assumes that the loop is not stopped (weak fairness of `Kevent`
and of the handlers: `handleTriggerEvent` does nothing else) and that a peer does not keep
its connection busy for ever: strong fairness of a batch with the client's timer in it. A
timer is reset by every event on the socket, so the code guarantees nothing about a peer
that sends a byte a minute; and it is the timer that ends a script that never ends.
Both properties also allow that the loop was left, or a descriptor stolen. The run has
unchunked GETs of scripts only; with chunked requests it takes longer than is practical.

`CgiExchange`'s `FairSpec` assumes weak fairness of `WritePipe`, `ReadPipe`, `EndProcess`
and `SendData` (the kernel reports a level-triggered event again and again until it is
handled, and the loop handles what is reported). An exit is reported once, and the code
gives no guarantee that it is handled: `handleEvent` drops the rest of a batch when it has
cleaned up another client (`ExitNotLost`). So the loss is an action, `LoseExit`, possible
whenever an exit is pending and under no fairness; it disables `EndProcess`, and fairness
of `EndProcess` only says that an exit that is not lost is handled. `Answered` holds up to
such a loss, after which nothing but the timer is left. There is fairness also of the
script's own steps together (it reads, prints and comes to its end when nothing keeps it
waiting), and of the arrival of the whole body. Nothing is assumed of failing scripts, of further requests
or of the timer: short of a lost exit `Answered` must not need them.

## Properties

Each property stands in its module under a comment that says what it means.

- Event loop: `UdataLive` (raw pointers in knotes and events), `WaitNeverBlocks` (a
  blocking `waitpid` in the only thread), `KillsOnlyOwnChild` (no kill of a reaped or
  foreign pid, or of -1), `HalfDuplex` (one of READ and WRITE), `TimerArmed`,
  `CgiWatched`, `ExitNotLost` (the one-shot NOTE_EXIT gets lost only through the early
  return after a clean-up), `NoOrphanChild`, `RegistryLive`, `NoEarlyReply`
  (a 200 waits for the header, for the body of a GET or DELETE, and for the script of a
  POST or PUT, which may end before the body has come), `AnswerIsFinal` (the status stays
  from the registration of WRITE to its end), `OnlyCgiTakesItDown`, `Converses`, and under fairness `Reclaimed` and
  `CgiTimesOut`.
- Request: `AnsweredAsAsked` (the k-th answer is to the k-th request, from the right
  server and location, or the right refusal, however the bytes are cut), `NobodyWaits`
  (who is left without an answer), `OnlyBodiesLost` (where `clearRequest` makes a peer
  that waits lose its place: within the body of the request just answered, which the answer
  did not wait for or which was longer than announced), `FileAsAsked` (the names of the
  file are those of the root and of the rest of the target), `UndefinedExplained` (where an
  empty vector is indexed).
- CgiExchange: `InputWhole` (the script gets its body and its end of input after it),
  `AnswerWhole` (the peer gets the right answer, in order and whole), `LostOnlyByRace`
  (the only way the server closes a connection unanswered), and under fairness
  `Answered` (body, output and exit never wait for one another).
- Decoder: `PiecesDoNotMatter`, `BodyFaithful`. Parser: `BlocksCounted`,
  `WellFormedParsed`, `RoutesUnambiguous`.

Several properties name the circumstances in which the code does not keep them, and the
models reach these circumstances: a stale descriptor was closed (`stolen`), a request
began in the midst of the one before (`skewed`), a script's output met another answer
(`"mixed"`) or its exit overtook its output (`"early"`).

## Proofs

`EventLoopProofs` proves, for any sets of clients, descriptors and processes, any
`MAX_EVENT`, methods and faults, `TypeOK`, `UdataLive`, `WaitNeverBlocks`,
`NoEarlyReply` and `KillsOnlyOwnChild`. The assumptions are those of `EventLoop`
(`Sentinels`: `None`, `Failed` and `Listener` are none of the numbers the process uses;
`Parameters`).

None of them is inductive. The invariant `IInv` adds, while the loop runs:

- the kqueue and the batch hold one knote for a filter and ident, and are finite;
- `KnoteOK`, for every knote *and every pending event* of a client: a timer, an exit or
  the socket's own event belongs to a live client and carries its socket number or pid;
  READ on the socket excludes a request that has just failed routing; WRITE on it with
  status 200 means that the header is complete, the body of a GET or DELETE there, and no
  script left to reap;
- `ClientOK`: a pipe never has the socket's number, and a pid is held only by a request
  whose script was started;
- `ProcOK`: a watched process was neither reaped nor killed; one whose exit is pending
  has exited and is no longer watched.

The pending events are the point: an event was put in the batch before the handlers of
the earlier ones ran. It stays harmless because a handler that invalidates a client's
events (`CleanUp`) also drops the batch, and one that gives up a pid does so on that
process's own event or in an error answer, for which the knote is still registered.

The proof follows the shape of the module. `ReturnInv`, `ThrowHeld`, `CleanUpInv` and
`LeaveInv` show once for each way to end a handler that it re-establishes `IInv` from
`Held`, the statement that the working copies `r` and `K` are consistent; each handler
then only has to show `Held`. `KillsOnlyOwnChild` is an action property; its proof uses
`IInv` and walks over the two places that call `kill`.

`EventLoopProofs` also proves `ExitNotLost` (`ReportsArrive`): for each handler it follows
where the pending exits and the watched processes go, and only a clean-up, which frees a
client, drops any.

`ConnectionProofs` proves `HalfDuplex`, `TimerArmed`, `RegistryLive`, `NoOrphanChild`,
`AnswerIsFinal`, and that `EventLoop` implements `Connection` (`Implements`). A second
invariant `ConvInv` goes beside `IInv`. It says that every running child belongs to an
open connection (`NotOrphaned`), that `_clients` holds open connections under their own
sockets (`Registered`), that only a complete body was ended (`EndOK`), and, until a
descriptor is stolen, `Mine` of every open connection: it owns its socket, has its timer
and exactly one of READ and WRITE, nobody else waits for its socket, a pending WRITE
excludes any READ, and a body still to come has a pipe of its own. The last part keeps a
close of one pipe, of which the other's number is a copy or a leftover, from reaching the
socket. A handler's copies are `Sound` when what it may return satisfies `Mine`, and
`Fit` while the connection has not moved; `Apart` says that no handler touches what other
clients own, so that their part of the invariant need not be shown again. Each handler
ends in `Done`, which gives the next `ConvInv` and the one step of `Connection` (`Moves`)
at once.

It ends with the proof of `CgiWatched`. `WatchInv` strengthens it: the pipe from which the
output is awaited is open, is an output pipe, and is this connection's. So `writePipe`,
which closes an input pipe, cannot close it by a leftover number, and no handler of
another client can without a theft (`PipesLeft`, `Untouched`).

`UptimeProofs` proves `OnlyCgiTakesItDown`. Its invariant `CalmInv` says that, as long as no
script was ever started, every knote and pending event is of an open connection's own
socket, a pending READ is still registered, and no body waits for a script. So no handler
meets a freed client, a process that is not there, or a READ it cannot delete, and
nothing is thrown out of the loop.

`CgiExchangeProofs` proves `TypeOK`, `InputWhole`, `AnswerWhole` and `LostOnlyByRace` for
any words, bodies and capacity of the pipes, and any outputs as `Inputs` describes them
(the header of an output ends at its first empty line). What the peer has got is no
induction hypothesis; what helps is an account of where the rest is. `IInv` says that
what has come of the body is its beginning (`BodyInv`); that what the script has read and
what is in its pipe are together what was written of the body, and that the pipe is
closed only after all of it (`InputInv`); that, unless a race has mixed answers, the
response is empty until it is made and `_writeIndex` inside it while it is sent
(`AnswerInv`); and that what was read of the output and what is in its pipe are together
what the script has printed, until the response made of it is the one the peer should get
(`WholeInv`). `Mine` says that a script runs only for the request being answered. The
lemma `WrappedIsReply` is where bytes are counted: what `readPipe` finds to be the header
ends at the empty line, and the Content-Length it computes is that of the body.

`ConfigParserProofs` proves all invariants of `ConfigParser`, for any files and any
configurations. `BlocksCounted`: a push adds a name to the
stack exactly when it counts one, a pop that is not refused removes an open bracket and
the one name under it, and no other step touches the stack. `CountInv` adds to the
property only the type of the stack.
`RoutesUnambiguous` follows from `RoutesInv`: `setLocation` and `setServer` append only a
location whose path is new to its server, and only a server that clashes with none.
`TypeCorrect` proves the type invariant, among it that the passes stay within the file;
it assumes that files are finite (`Tokens`; the rendering of a configuration is, by
`ServersType`) and takes the type of the counter from `CountInv`.

`WellFormedParsed` is proved for every configuration of any number of servers, locations,
directives and values. It assumes of the words that those of a configuration are `Plain`
(`PlainWords`, `ConfigsKnown`) and that `None` is none of the values it stands beside
(`NoneIsNone`). The four passes read the same file with different state and never look at
a configuration, so the proof first says where in its configuration each word stands. A
place names a server, a location of it, a directive of that and how many of its values
have been read; `Leads` lists the words that lead from one place to the next, and the
lemmas from `LiesJoined` to `WalkExists` follow the offsets of all directives, locations
and servers through `Render` to show that the file of every configuration is one `Walk`
from before its first server to behind its last. `Following` then says of each pass what
holds at its place:

- `setCheckList` has given every word the kind of its place and is in the state that
  belongs there (`Listing`); it never refuses a word (`StepsFit`).
- `checkSyntax` has the stack of the blocks that are open there (`Matching`), so it throws
  nothing and reads no empty stack.
- `checkSameKey` has in its tables the keys of the directives met so far, which are all
  known and different (`KeysMet`, `Comparing`). If it throws, the configuration is not
  `Valid`.
- `setValue` has built what the part before the place means (`Building`): whole servers,
  then the server and the location under way. A key's values are the words up to the next
  `SEMICOLON` in `checkList`, and that these are the values of its directive is the lemma
  `EndFound`; so it is also here that nothing is read past the end of `checkList`. The
  three errors it can throw (a path, a server or a port) each contradict `Valid`
  (`PortIs`, `TwicePath`, `TwiceName`).

At the end of the last pass the keys met and the ports are all there are (`AllValid`) and,
by `RoutesInv`, no routes clash, so an accepted configuration is valid and its servers are
its `Meaning`.

`SequenceLemmas` makes induction possible: the library's induction theorems take an
operator as a parameter, which the provers used here cannot instantiate, but `Least` (a
set of numbers that is not empty has a least element) needs only the well-foundedness of
inclusion between finite sets. From it follow the two forms in which the models recurse: a
function on `n..m` whose value at `i` is made of its values behind `i` (`Recursion`, with
`AlongCalls` for what all its values have in common) and one whose value at `n` is made of
the one at `n - 1` (`Iteration`, `Climb`). The rest of the module is about `FlattenSeq`,
`SubSeq` and `\o`.

`ChunkedBodyProofs` proves `TypeOK`, `BodyFaithful` and `PiecesDoNotMatter` for any
bodies, limits and streams. For the first two, an invariant says that the decoder stands
between two chunks of the body: the stream is the encoding of the chunks decoded, then
that of the rest. The size at the head of the rest is the number its digits stand for,
and nothing shorter: what `strtol` reads ends at the first byte that is no digit, and the
CR behind it is one. For the third, `Decoded` of the bytes received is `body` followed by
what the bytes from `_readIndex` on mean, and the meaning of a prefix does not change
once it is not "more is needed".

`RequestProofs` proves all invariants of `Request`, for any configuration that the parser
accepts, any talk and any cuts. It assumes only what `Request` says of its constants:
`Talks` are sequences of `Requests`, the separators are words, numbers are natural, every
port has a server, and the locations of a server have different paths
(`RoutesUnambiguous` of `ConfigParser`). The first parts are about the
functions: where `Find` finds (`FindIs`), what tokens are made of (`TokensAre`), that the
loop of `findLocationPath` ends with a location of the server that begins the path
(`LocationChosen`), and which names a file has that is put together of two parts
(`NamesJoined`, `NamesWithoutSlash`). `Sound` then says
of the object and of every answer what the later steps use: a request that was routed has
a location and a file that belong together. What a request's bytes say does not matter to
it, so `TypeOK` and `FileAsAsked` also hold after the connection has started over in the
midst of a request.

The other four compare the parser with the reference, which never looks at bytes:

- A line: `getToken` of the rendered line yields what the reference reads off the
  request, or the same error (`FirstLineVerdict`, `FieldLineVerdict`). The tokens overlap
  the separators by a word, as in the code, so this is where `": "` within a value matters.
- The header: no line is empty, so `HeaderEnd` of whatever has arrived is 0 up to the
  empty line and then always the same (`HeaderEndOf`). `After` says what the loop of
  `parsingHeader` has set after the first line and `j` fields, and that it has stopped at
  the first bad line or stands behind these (`ReadAll`); so it ends with the verdict, host, length and coding of the
  reference (`ParsedAs`).
- The route: the loops of `findServer` and `findLocationPath` end where `Min` and the
  `CHOOSE` of the longest path point (`ServerWanted`, `LocationWanted`; the choice is
  unique because paths differ), and `isFilePy` looks at the last name (`NamesIs`).
- The talk: `Stream` says that the buffer is the beginning of the request that comes next,
  and that what is under way continues it.

The invariant `Good` adds two parts to the properties. `InStep`: as long as `skewed` is
false, the connection is in the midst of the request after the last one answered, with a
header that is not complete yet, or with an object that says what the reference says and
waits for its body or script (`Idle`). `Turns`: a peer that waits is one request ahead at
most. `Keeps` (the types and `Sound`)
and `Good` are the inductive invariant; TLC found neither violated on the instance of
`Routing.cfg`.
`AnsweredAsAsked` follows because a step that answers does so from `Idle` or from a header
just parsed (`RequestTurns`); `OnlyBodiesLost` because what is left over or missing when an
answer is out belongs, by `Turns`, to the body of the request answered, and because an
answer that had to wait for the body was made of one that was there (`Timely`, `LostIsBody`);
and `NobodyWaits` because a buffer that holds a whole request is past its header and has
the length of its body (`WholeArrived`).

Every invariant and action property that a passing run checks is proved. Only
model-checked: liveness, which the prover does not do.

## Not modelled

- The pages and the build: no state. Of `Util`, the date and the content type.
- Splitting a file into tokens. `getVectorLine` joins the lines of a file without a
  separator, so a token may run across a line's end.
- The environment variables and the arguments a script gets, and the files it writes to
  `public/`; the contents of files and of directory listings. A page is five words.
- In Request: fields that only reach a script (cookies, boundaries, content types), and
  header fields that are repeated without deciding anything.
- Where a file lies. `..` in a target is a name like any other to the code, which does not
  look for it; links, and what `..` leads to, are up to the system.
- In ChunkedBody: signs and `0x` before a size, and sizes that overflow.
- In EventLoop: ports that cannot be bound at the first start, `kevent` failing, and
  `~Operation`, which frees the clients that are left when `main` returns.
- That child processes inherit the descriptors of other connections (nothing sets
  `FD_CLOEXEC`), which only delays the end of a pipe: `EventLoop` lets an end of file come
  at any time or never; `CgiExchange` lets it come when the script has exited.
- The composition of `EventLoop`'s many connections with the bytes of `Request` and
  `CgiExchange`: the product is out of TLC's reach, and each of the two takes the events
  of `EventLoop` in more orders than the loop delivers them.

## Plan

Done: `EventLoop` and its implementation of `Connection`, `Request`, `CgiExchange`,
`ChunkedBody`, `ConfigParser`, and the proofs above. What is left, in the order of what
it would add:

1. `ChunkedBody` with signed and overflowing sizes.
2. The tokens of a configuration file from its lines.
3. Static files: `handleGet`'s choice between a file, an index and a listing.
