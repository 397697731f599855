# TLA+ verification of piercloud

piercloud makes a web server behind a firewall reachable: a daemon beside the
local server keeps one long HTTP request (the *tunnel*) open to piercloud.com;
browsers ask for `<id>.piercloud.com`; a CGI program on piercloud.com writes
their requests into the tunnel and returns the answers that the daemon sends
back with one PUT each.

    browser --HTTP--> Pier ==FIFO <id>==> Connect --HTTP chunks--> daemon --fork--> child
    browser <-------- Pier <==FIFO <id>.0/<pid>== Respond <--------- PUT ------------+

## Inventory

| part | state | operations | properties that make it correct |
|---|---|---|---|
| `Pier` (piercloud-cgi.c:219) one CGI process per browser request | its place in the code, lock, descriptors | create `<id>.0/<pid>`, lock `<id>.lock`, write the request to `<id>`, read the answer, unlock, unlink; 434 when files are missing | one exchange at a time; its own, whole answer while no request was torn; no file left |
| `Connect` (:145) one CGI process per tunnel | descriptor of `<id>` | create lock file and FIFO; for ever: open, select 20 s, ping or copy, close | requests unmixed, in order, once, whole |
| `Respond` (:99) one CGI process per answer | descriptor of `<id>.0/<pid>` | open, copy, close | answer reaches the right Pier |
| daemon (client piercloud.c: `main`, `doReadFromServer`, `Chunk`, `getConnectionRequest`) | static `buf`, `request`, `in_header`, `in_data`, `pid`, `content_len` | reconnect, take chunks apart, skip pings, glue, parse, fork | while the stream is whole, a child gets its own whole request once and the daemon survives |
| socket buffer (socket.c) | `soc->buf` | row, buffer of a size | no byte lost, none twice |
| child (`getLocalHostRespond`) | local connection | ask the local server, collect, PUT | answer complete, length true |
| `Connection` (connection.c) | descriptor, what was read of an answer | direct connect; HTTP, SOCKS4, SOCKS5 handshakes over `AtomIO` and `GetSockRow`; `CloseConnection` | a descriptor only for a granted connection, its stream whole; every call ends and leaves nothing open but descriptor 0 |
| daemon's life (client piercloud.c: `initDaemon`, `main`; sslwrapper.h; `Authorization`) | pid file, descriptor, `ctx`, `ssl`, `soc`, result of the header | fork twice, connect, TLS, authorise, serve, give everything back, again | nothing stays held; the tunnel begins at its first byte; a lost connection is made again unless the tunnel's reading ends the daemon |
| `main` of the CGI program (:30) | none | choose Pier, Connect or Respond by host name and URI | a daemon's request becomes Connect |
| liblst | static `rest` of `readFileRow` | rows of files, replace, split, glue, `Write` | rows in order, each once |
| base64, trace.h | none | encodings, logging | - |

The processes share nothing but files: the parts interact by FIFOs, a `lockf`
lock, pids in file names and in the stream, and HTTP. What is hard is all
there: processes interleave at every system call; each may be killed
(`make deploy` does it with `killall -9`); pids are reused; the kernel discards
what a FIFO holds when its last end is closed; the tunnel is cut into chunks
and reads at places nobody chose; a lost connection leaves a Connect behind
that still reads; parser state outlives connections; nothing in the stream
marks where a request begins or ends. PROJECT.json lists the hazards line by
line.

## Modules

* **Cgi** - the server. The three roles over the lock file, the FIFO `<id>`
  and the answer FIFOs of one `<id>` (every path contains it, so ids do not
  interact). One action per system call that another process can observe, in
  the order of the code. A request is a sequence of tokens, a token one Write
  of at most `PIPE_BUF` bytes, which the kernel makes atomic. Open ends are
  computed from the control states, because descriptors are opened and closed
  at fixed lines: `ReqReaders`, `ReqWriters`, `RspReaders`, `RspWriters`. The
  FIFO semantics are those of Linux: a blocking open waits for the other side
  and counts as open, a read at the end of data gives 0 only without writer,
  the last close discards the buffer (`SettleReq`, `SettleRsp`), an unlinked
  FIFO lives on for those that have it open. An answer FIFO inode is named by
  the request whose Pier made it, so that a path reused by a later process
  with the same pid can be told from a new one. `Refuse` leaves or removes the
  FIFO, because its name is used after it was freed. `BodyEndsEarly` is a browser
  that hangs up within its body: the Pier goes on as after a whole one.
  Of the client it has what decides which child answers whom: how many tokens
  of its connection it has taken (`place`) and which body token it waits for
  (`due`). It compares neither with what comes. In step, it forks at the last
  token of a request, for the pid that request named (`ClientFollows`); a token it
  did not wait for, or a connection lost within a request, makes it lose its
  place for good (`ClientLosesPlace`, `ClientLeaves`; the static `in_data`, `pid`
  and `content_len` outlive the connection). Then what it makes of the bytes
  depends on the bytes, down to the digits of a cut pid row: it may fork a child
  for any pid, with the bytes of any request that this connection brought
  (`ClientStrays`, which allows more than one stream of bytes would). `to` is the
  pid each child was given.
* **SocketBuf** - the socket buffer of the client as operators. Bytes are units
  with the kinds the parsers distinguish; rows end in a newline. `Increased` is
  one read, `Row` and `Block` what GetRowFromSocket and GetBufFromSocket return,
  `Surplus` whether the latter throws away more than the end of a chunk.
* **Client** - the daemon over its socket buffer. The stream is
  produced by the Piers in lock order, cut into chunks by what happens to have
  been written, and read in pieces of every possible size. The history
  variable `causes` names what has gone wrong, so that properties say exactly
  when they hold. `getConnectionRequest` is `Chunk`: `in_header` is not kept,
  since a header is finished within the call or the process ends. As long as
  the units behind a header are its own body (`OwnUnits`), a length counts units
  as the bytes do; from the first strange one on, content_len bytes may end
  behind any unit or inside it (`BodyCuts`), and what is left of a row that was
  cut is a row of unknown text: atoi() may find any pid in it, a live one's
  too (`AtoI`). Reading through the freed row after a short read (`UsesFreedRow`)
  is a choice among the outcomes: the process aborts, or what the heap holds - a
  '0', rows of any text, old pids, blank rows - is skipped or parsed, and it
  aborts at the second free() or goes on.
* **LocalHost** - the forked child: the request to the local HTTP server, the
  header loop, the two branches of `getLocalHostRespond` and the PUT. `content`
  stands for `content` in the chunked branch and for `data` in the other;
  `header` is the rewritten header by rows, with the Content-Length that
  replaces the chunked coding. An answer is any header, what follows it on the
  wire, and the body it means (`Answers`); the server may close at every point.
  Where the code copies from NULL the child is gone, where it copies from a
  freed row it is gone or has junk.
* **Tunnel** - what the server promises for one host, without processes or
  files: requests take turns; in its turn a request is written to a queue from
  which the client gets each token at most once and in order; a browser is
  given answers in its turn only, when no more of its request is to come, and
  only answers to requests that the client has received whole - until a request
  stays half written or the connection is cut: from then on (`Confusing`) they may
  be to requests of which the client has a part. The queue may be
  thrown away at any time. Cgi implements it: `Service` at its end reads the
  abstract state off the Piers' places, the FIFO and the tokens that are
  neither in the FIFO nor dropped. Whose answer a browser gets is not promised
  (see `Isolation`).
* **Socks** - `Connection()` and the proxy at the other end: the argument
  checks, the address and socket calls with their failures, the requests, every
  read of `AtomIO` and the peek-and-take of `GetSockRow`. Answers arrive unit
  by unit and may be cut off anywhere; behind a grant come the target's own
  bytes. `fd` is the number socket() gives: CloseConnection() does not close 0.
  `causes` names what was out of the ordinary. main() passes no proxy:
  the handshakes are library interface of the client.
* **Lst** - `ptReplaceStr`, `chopStr` and `lstSplitStr` as operators
  on sequences. **Rows** - `readFileRow` over them, one action per read(), for
  one file after another; `rest` is the static variable they share.
* **Dispatch** - the role main() of the CGI program takes for a host name and a
  URI.
* **Session** - the daemon around its tunnel: `initDaemon`, the loop of `main`
  stage by stage with each call failing, the TLS macros, `Authorization` read
  by read, the descriptors 0 to 2. The answer to `GET /<id>` follows from
  Dispatch's role; `doReadFromServer` is one step here (it is Client): it returns
  or, once the size of a chunk has come, may end the daemon (`Dies`).
* Theorems: **CgiProofs** (types, files, the lock), **CgiRequests** (the request
  FIFO and the tunnels) and **CgiAnswers** (the answer FIFOs and the
  refinement), each on top of the one before; **SocketBufProofs** (what the
  operators of SocketBuf return) below **ClientProofs** and **LocalHostProofs**;
  **SessionProofs**, **SocksProofs**.
* **MCCgi**, **MCClient**, **MCLocalHost**, **MCSocks**, **MCRows**,
  **MCSession** - instances for TLC.

`Client`'s server actions are the part of `Cgi` it can see (the lock, the
writes, a death); `Cgi`'s `ClientFollows`, `ClientLosesPlace` and `ClientStrays`
are the part of `Client` it can see: `Clean` there is that the client keeps its
place. A
member of `Client`'s `children` is a child at `start` in `LocalHost`, whose PUT
is a `RespondOpens` in `Cgi`; a child that is `gone` is `Cgi`'s `RespondDies`
or an answer that never comes. Session's step into `serve` is Client's
`Connects`, its `free` what follows Client's `Loses`; `Connection()` without a
proxy is in Session as main() sees it and in Socks in detail. The role of
Session's request starts a `ConnectStarts` of Cgi.

## Runs

| run | bounds | shows |
|---|---|---|
| cgi_tunnel | 2 requests of 2 tokens, 2 Connects, FIFO of 2, 1 death, 1 lost connection (one of them once the client has lost its place: `OneFaultAstray`) | `OneExchange`, `RequestsInOrder`, `DeliveredOnce`, `AllOrNothing`, `KeepsPlace`, `RefusedOnlyAtFirst`, `ImplementsTunnel` |
| cgi_answer | 3 requests of 2 tokens on 2 pids, 1 Connect, answers of 2 tokens, FIFO of 1, 1 death | `TypeOK`, `FilesInPlace`, `Isolation`, `WholeAnswer`, `NoFifoLeft` |
| cgi_live | 2 requests of 2 tokens, no fault | `EndsUnlessDropped` |
| client_faults | 2 requests, 3 bodies, blocks of 4 units, reads of up to 5, 2 faults, 1 ping (one of these once the stream is torn: `OneFaultBehind`) | `TypeOK`, `OwnRequest`, `OneChild`, `StaysUp` |
| client_live | the same with reads of up to 3 and 1 fault, until a cause befalls the tunnel (`NoCause`) | `EveryRequestServed` |
| client_header | violated: a header of 3 or 4 units, blocks of 2 | `HeaderInBuffer` |
| local_answers | 7 answers: plain (0 and 3 units), to HEAD, without length, in two chunks (two sizes), behind "100 Continue"; reads of up to 4 | `TypeOK`, `WholeAnswer`, `LengthTrue`, `ContentIsHead`, `AnswerSent` |
| local_surplus | violated: the two chunked answers | `ContentInOrder` |
| socks | all four ways, a name and an IPv6 address, ports 0 and 80, descriptors 0 and 3, a silent target and one that greets with an empty row | `TypeOK`, `ConnectedMeansGranted`, `StreamWhole`, `FailsForReason`, `AuthorisedFirst`, `HandshakeEnds` |
| rows | every file of up to 3 bytes over two letters and newline, and three of 6 or 7; reads of up to 3 bytes, 2 files, 4 rows remembered | `TypeOK`, `RowsInOrder`, `AllRows`, `ReplacesAll`, `EndsIfTerminated` |
| rows_loop | violated: the same files | `LoopEnds` |
| session | ids that are a number, a text, two numbers with a slash; reads of up to 4 units; 3 attempts to shut down | `TypeOK`, `NothingHeld`, `ChunksFromStart`, `ServedIsAuthorised`, `Reconnects`, `AnswerEnds` |

Why the bounds are enough. Two requests give every interleaving of two Piers
over one lock; the third in cgi_answer lets a pid come back while another Pier
lives. Two Connects are a client and the process its lost connection left. Two
tokens distinguish the head of a request from its tail; a FIFO of one or two
tokens makes writers block. One fault puts a death at every point; two in
client_faults combine, say, a lost connection with a death. A block of 4 units
holds a whole header but not always a ping and a header, 5 units are read at
once in the shortest read that reaches the next chunk. The state
constraints cut off little that a property speaks of: behind a torn stream
`OwnRequest` and `OneChild` promise nothing, and `StaysUp` nothing behind any
cause (only `TypeOK` goes on), so `OneFaultBehind` follows the first fault to
its end and only drops a second; a cause fulfils `EveryRequestServed` for good;
`OneFaultAstray` leaves to the proofs what the second fault does behind a lost
place. In LocalHost a read of 4 units goes from a size over a chunk of one into
the next size; two chunks are enough for bytes to be lost between them. Symmetry
is used where processes and pids are interchangeable, never in the liveness
runs. The Client runs do not check deadlock: the daemon may end (`Exits`), and
with every request served nothing has to happen. Neither do the LocalHost runs:
the child ends. The proxy's answers cover each branch of the code (every address
type, version, method and status, rows with and without CR); port 80 is one
whose bytes differ when swapped. Three bytes hold a blank row between two others
and a repeated row; the longer files have rows that end in one another and a row
cut by every read. A read of 4 units in session reaches from any header row into
the tunnel's first chunk; 3 attempts stand for 64, the loop's body does not
depend on the count. Socks, Rows and Session do not check deadlock: a call ends,
a file is read, a daemon whose fork failed is not there.

What the runs show beyond "pass":

* The lock does its work: requests are never mixed in the FIFO, even when the
  holder is killed and two Connects read (`RequestsInOrder`, `DeliveredOnce`).
* Connect's close and reopen can lose a request - altogether, never a part of
  it while the client keeps its tunnel (`AllOrNothing`) - and then its Pier
  waits for ever with the lock held: this is the exception in
  `EndsUnlessDropped`, and TLC reaches it.
* The client is in step with the Piers until a request stays half written - its
  Pier was killed, its browser hung up - or a connection is lost (`KeepsPlace`).
  From then on nothing brings it back: a later request is taken for the missing
  body, and what its rest is taken for depends on the bytes.
* A browser can be given the answer to another's request in two ways: a Pier
  with the same pid was killed before, or the client may have lost its place and
  taken one request's bytes for another's, or digits of a cut row for a pid
  (`Isolation`). In both, the answer was sent to the pid of the browser's Pier.
* A browser that hangs up within its body leaves its Pier waiting for an answer
  with the lock held, for as long as nobody kills it: an exception of
  `EndsUnlessDropped`, which TLC reaches.
* The daemon gives children their own requests for every cut of the stream as
  long as no Pier is killed in mid-request, no connection lost in mid-request,
  no body block is a lone `0` and no read reaches past a chunk (`OwnRequest`);
  each of these four alone breaks it, which was confirmed with TLC. Under the
  same conditions no pid gets two children (`OneChild`); behind a torn body a pid
  row that lost its first digits can give another Pier a second one.
* What the child sends always has the length it declares, even from a broken
  connection (`LengthTrue`), and without a lost byte or a freed row its content
  is a beginning of the true body (`ContentIsHead`): a cut chunked answer
  arrives as a complete shorter one. A child that gives no answer at all was cut
  off, short of bytes or refused by one of the two servers (`AnswerSent`); its
  Pier then waits with the lock held (`Cgi`). An answer without length arrives
  empty, one behind "100 Continue" not at all (cause `unread`).
* The lock, FIFOs and processes together implement the service of Tunnel, with
  a death and a lost connection (`ImplementsTunnel`): with whole requests
  on one connection, answers are to requests received whole, although the client
  asks for no such thing.
* A proxied connection is never reported unless the proxy granted it, and a
  failed call keeps no descriptor but number 0, which SocksConnection()'s error
  exits do not close (`FailsForReason`); but the HTTP proxy is asked for the port
  with its bytes swapped (`ConnectedMeansGranted`), HTTP/1.1 and a version 1
  authentication reply are taken for refusals (`FailsForReason`), a demand for
  GSSAPI is passed over (`AuthorisedFirst`), and the caller's stream is damaged
  in three ways only: rows without CR, a recv() that takes more than was
  peeked, an unknown address type (`StreamWhole`). The first two can also hang
  the call (`HandshakeEnds`). Each of these exceptions was confirmed with TLC.
* `readFileRow` gives the rows of a file right when no row is the end of a
  later one and the last file was read to its end (`RowsInOrder`); a blank or
  repeated row loses bytes, and can make the loop endless even for a file that
  ends in a newline (`EndsIfTerminated`).
* However a connection attempt, the TLS set-up or the authorisation fails, the
  daemon holds nothing when it tries again, except descriptor 0 if it was
  started without stdin (`NothingHeld`; the static `buf` and `request`, whose
  memory doReadFromServer() forgets at each connection, are not counted); rows
  and chunks that arrive together are not mixed up (`ChunksFromStart`). A lost
  connection is made again, unless the size of a chunk had reached the daemon:
  then it may end in an ASSERT or at the second free() of a row (`Reconnects`),
  and nothing starts it again.
* Findings: `rows_loop` (a last row without newline comes for ever),
  `local_surplus` (bytes of the next chunk thrown away by
  `GetBufFromSocket`) and `client_header` (a header in two chunks ends the
  daemon by ASSERT). The port with its bytes swapped is a defect too, against
  "port of destination server" (connection.c:268): `ConnectedMeansGranted` states
  what the proxy is really asked for, `Swapped`.

Every property has a mutant in PROJECT.json: an operator in the module that
changes one definition the way a plausible bug would, under which TLC finds
the property violated.

## Fairness

`Cgi!FairSpec`: the operating system runs each process that can run - weak
fairness for each Pier, Respond and Connect - and the client reconnects and
takes what it receives (`ConnectStarts`, `ClientParses`); what a client out of
place makes of its bytes (`ClientStrays`) is not forced. `WriteReq` has strong
fairness: Write repeats write() on EPIPE in a tight loop, and a reader is there
for up to 20 seconds at a time; untimed, select() could time out at once each
time, which weak fairness would allow. No fairness is assumed of browsers
(coming or hanging up), deaths, lost connections or timeouts. `Client!FairSpec`:
weak fairness of the daemon's loop, of a Pier's writing and of the HTTP server's
sending. `LocalHost!FairSpec`: weak fairness of the child, and of the local
server's closing - an HTTP server ends a connection nobody uses.
`Socks!FairSpec`: the caller runs, the network delivers, and a proxy answers
what it is asked; nothing bounds its silence otherwise. `Rows!FairSpec`: test.c
calls again after every row. `Session!FairSpec`: the daemon runs, and the server
sends the whole of its answer once it began; nothing makes it end a connection,
let a shutdown go or hold one up, so `Reconnects` starts from the connection's
end.

## Proofs

Each theorem holds for every value of the constants that the named assumption
of its module allows. The assumptions only say what sort of value a constant
has: that lengths, capacities and numbers of faults are natural numbers, that
`None` is not a request or a pid, in Client that the set of requests is finite,
in Session that an id is a text, in Socks that a port is at most 65535. LocalHost
has one more, `AnswersAssumption`, about its environment (see below). Hardly any
of the properties is inductive by itself.

**Cgi** - any number of browsers, pids and Connects, any number of deaths and
lost connections. `IInv == TypeOK /\ FilesInPlace` is the base.

| theorem | property | rests on |
|---|---|---|
| `CgiProofs!TypeCorrect`, `FilesCorrect` | `TypeOK`, `FilesInPlace` | A Pier reads from `rspBuf[fifo[pid[r]]]`, a buffer only if the FIFO is there: live Piers have distinct pids and their FIFO exists, so one Pier's unlink never takes another's. `FilesKept` is the frame of the steps that start, send and open nothing. |
| `OneExchangeAlways` | `OneExchange` | `LockHeld`, its first conjunct, is inductive with the types; `ReqWriters` lie in the locked stretch. |
| `RefusedOnlyAtFirstAlways` | `RefusedOnlyAtFirst` | `FilesSeen`: what a Pier's progress says of the two files, which nothing removes; `RefusedWhy`: only a missing file refuses. |
| `NoFifoLeftAlways` | `NoFifoLeft` | Inductive with `IInv`; pids may be reused, but not while their Pier lives. |
| `CgiRequests!DeliveredOnceAlways` | `DeliveredOnce` | `Delivery`: every token in the FIFO, on a tunnel or discarded was sent (`OnlySent`), and the FIFO holds none twice; so the one written next is nowhere yet. |
| `RequestsInOrderAlways` | `RequestsInOrder` | `InOrder`: each tunnel *followed by the FIFO* is serial, and while a Pier writes nothing of another request comes behind its tokens. It needs `OneExchange` for the writer and `Delivery` for the token. `PartOfSerial` and `PartsInOrder` are the lemmas on sequences. |
| `AllOrNothingAlways` | `AllOrNothing` | `Wholly`: while no tunnel was lost, a Connect that delivered a part of a request stays in its read loop as long as more is to come, and a discarded request is not being written. `TunnelsKept` says of one step what keeps a Connect reading. |
| `KeepsPlaceAlways` | `KeepsPlace` | `PInv`. `Unbroken`: before a tunnel is lost, the one tunnel there is (`OneTunnel`) followed by the FIFO has behind each token the token that its Pier wrote behind it; `InPlace`: what the client waits for is what follows the token it took last. So a token out of step (`NeverOutOfStep`) is behind a torn request or on a second connection. |
| `CgiAnswers!IsolationAlways` | `Isolation` | `AInv`, of which `PidInPlace` says that an answer FIFO, its writers, its contents and its readers have one pid, and that this is the request's own while the client is not confused: `ClientForks` says for which request and pid the client forks, from `PInv`. |
| `WholeAnswerAlways` | `WholeAnswer` | `EndsMeet` and `OwnAnswers`: for a Pier whose pid no killed Pier had and a client in its place (`Clean`), what it has read followed by what its FIFO holds is the beginning of its own answer. |
| `TunnelImplemented` | `ImplementsTunnel` | `Init` maps to `Service!Init` and every step to a step of `Service` or a stutter, one lemma per kind of step. `Grounds` carries what the guards of the service ask for: a Pier that awaits its answer has written some of its request, a child was forked for a request of which the client had a part and, unless it is confused, all (`WholeReceived`: the last token of a request is in step only behind the others). `Delivery` makes `Received` grow by just the token read; `LockHeld` gives the turn. |

**Client** - any requests, bodies, size of blocks and reads, faults and pings.
`TypeCorrect` (`TypeOK`) needs nothing else: whatever is read, torn or freed keeps
its type. The rest is one invariant, `StreamInductive`: `SInv == IInv /\ Streams`
with `IInv == TypeOK /\ (Clean => Routed)`, and `Clean` that nothing was torn, lost,
thrown away or taken for a ping. `OneChild` is a fact about rows that are still on
their way, so `Routed` says that a pid is in one place at a time: a pid row in
the feed, the wire, the socket's buffer or the request buffer, with the parser
that waits for a body, or with the child. Cutting and joining sequences keeps
this (`CutPids`, `JoinPids`), and so does a chunk (`ChunkPasses`) if the parser cuts
requests where they begin and end; that it does (`ParsesOwn`, `ChunkIsExact`) is what
the stream below says. Behind a torn body it does not, and `OneChild` ends there.

`OwnRequest` and `StaysUp` speak of the children and of how the daemon ended,
and both follow from bytes that are still on their way, so
`Streams` says what those are. `Runs`: while nothing was torn,
lost, thrown away or taken for a ping, there is a stream V of whole
requests and pings that begin at the places S (`Serial`), of which the parser has
taken the first a units and stands between two requests or behind a header
(`Parsed`); the request buffer, the chunks under way up to d, `feed` and `left`
follow in this order (`Queued`, `Waits`). The frames hold these units with sizes
and line ends between them: c gives the place in V at which each chunk begins
(`Chunks`), wherever soc->buf and the wire are divided, and `Starts` says that the
next thing the daemon looks at is the size or the chunk it takes it for. As long
as `causes` is empty no chunk ends inside a header and none but a lone one has a
ping in it, and an idle parser has an empty buffer; so a chunk that reaches it
brings a pid row and a whole header (`ChunkIsParsed`), which is `StaysUp`, while
`OwnRequest` is that the parser hands out what `Said` finds in V (`ChunkParses`).
`Steady` is the server's part: a request is composed with the length it says,
and what Connect holds has a ping at its head only.

Each step has to give the stream behind it, and one lemma per action (`...Goes`)
does. Three of them change V: a Pier that starts and a ping append to it
(`RowsJoin`, `SerialMore`), and a ping that is skipped while the buffer holds
the beginning of a request *overtakes* that beginning in V (`Overtakes`,
`Rotates`). A connection that ends with whole frames lost nothing
(`ConnectionEndsGoes`); one that loses more is a cause. Theorems:
`StreamInductive`, `OwnRequestAlways` (`OwnRequest`), `OneChildAlways`
(`OneChild`), `StaysUpAlways` (`StaysUp`).

**LocalHost** - any answers, sizes of reads and misread sizes. `IInv == TypeInv /\
Course` says where the child is in the server's stream: `Behind(k)`, that what it
has still to look at (`Left`: the buffer, then the wire) follows the first k
units; while it reads the header, k is the number of rows it has noted and
`Noted` says what `chunked` and `content_len` follow from; in the body, that `size`
is the length in the header; among chunks (`InPlace`), as long as nothing was
thrown away, that it takes its place for what it is - a size, or the end of a
chunk before one - and holds exactly what the chunks up to there bring
(`Brought`). `LengthTrue`, `ContentIsHead` and `WholeAnswer` are conjuncts of `IInv`:
none follows without the place. `LengthTrue` needs it least: also after a surplus
`content_len` counts what was collected (a conjunct of `TypeOK`) and nothing the
child has still to look at is a Content-Length row.

`AnswersAssumption` says that every answer is `WellFormed`: one blank row, at the
end of the header; at most one row that says how long the body is; chunks that
are coded as the protocol has it, or as many units as the length says. An
answer without length may be followed by anything, and a length by less (an
answer to HEAD, or one that ends early). It is what an HTTP server sends; each
answer of the runs fulfils it, and nothing in it speaks of the cuts, closes and
losses that the proofs are about. Two Content-Length rows would make the child
believe the last. `TypeCorrect` (`TypeOK`) does not use it; `LengthTrueAlways`,
`ContentIsHeadAlways` and `WholeAnswerAlways` do.

**Session** - any set of ids, size of reads and number of shutdown attempts.
`NothingHeldAlways`: `NothingHeld` speaks of some stages only, so `IInv` says of
every stage exactly what `main` holds (`Stage`), and that no descriptor but 0
and the connection's is open (`Descriptors`); `LowestFree` is the lemma on what
socket() returns. A daemon that `Dies` holds nothing more. `AInv` adds what is
being read: while `Authorization` takes rows, what lies in the buffer, the wire
and the network is the server's answer from the row it is at (`Taken`, `From`),
and `rval` and `content_len` are those of the rows before. From it follow
`TypeCorrect` (`TypeOK`), `ServedIsAuthorisedAlways` (`ServedIsAuthorised`;
`RoleShape` says what the program becomes for a URI) and `ChunksFromStartAlways`
(`ChunksFromStart`).

**Socks** - any targets, ports and greetings. `IInv == TypeOK /\ Stage /\ Reply
/\ Done /\ Failed` says where the call is in its dialogue: `Stage` what was
asked so far; `Reply` that what is read, arrived and under way (`Unread`) is the
proxy's answer to the *last* message from its k-th unit on (`Due`), and that
`causes` and `granted` record what that answer was (`Recorded`); for HTTP also
that each row begins where the last one ended, unless a row without CR or a
`recv` that took more than was peeked lost the place (`RowAt`); `Done` what is
left when the call succeeds; `Failed` that a call gives up with its descriptor
closed, or with number 0 of a connection to a proxy left open. The properties
alone are not inductive: that the proxy granted what the code takes for a grant
follows from whose bytes it has read, and they may have come one by one.
Theorems: `DialogueInductive`, `TypeCorrect` (`TypeOK`),
`ConnectedMeansGrantedAlways` (`ConnectedMeansGranted`), `StreamWholeAlways`
(`StreamWhole`), `FailsForReasonAlways` (`FailsForReason`) and
`AuthorisedFirstAlways`, the action property `AuthorisedFirst`.

Model-checked only:

* all liveness (`EndsUnlessDropped`, `EveryRequestServed`, `AnswerSent`,
  `HandshakeEnds`, `EndsIfTerminated`, `Reconnects`, `AnswerEnds`): liveness
  under fairness and ENABLED are out of the prover's reach;
* Rows: its invariants relate the rows to recursive functions over the file, and
  what those compute needs induction over data.

So all safety properties of the runs but those of Rows are theorems.

## Abstractions and what is not modelled

* Server: header text and environment (`addHeader`, `getEnv`: the rows of a
request are units in Client); numbers in a URI are single symbols; the   HTTP
server's own buffering; a header longer than `PIPE_BUF` (in Client it   is a
block boundary). Failing `mkdir`, `mkfifo`, `String` end the process   before it
has done anything others see. `SIGPIPE` is one of the deaths. * Cgi: a request
has at most one child. A client that has lost its place could   fork more for
the bytes of one; each would be another `ClientStrays`. * Client: lengths count
units. Where bytes and units differ - a body torn inside   a row, bytes thrown
away inside a row, a freed row - the outcomes are   enumerated (`BodyCuts`,
`Rest`, `Behind`, `AtoI`, `Heap`); a size that was misread   counts units too.
The units of a body contain no newline. Failing allocations (but for
InitSocket's), fork's zombies, the TLS library. * Proxies: no signal handler
interrupts the calls, so EINTR and EAGAIN do not   occur; rows are shorter than
the 255 bytes of GetSockRow's buffer. The branch   of a bare domain name in the
SOCKS5 request is never reached, because   getaddrinfo() has set the address by
then. A "%s" without argument in a   DEBUG line (connection.c:484) gets the
status byte 0 and prints "(null)". * A daemon's header row that contains
"Content-Length: " elsewhere than at its   start is not among Session's answers.
* The pid file is state of Session without a property: nothing in the
repository reads it. A failed second fork leaves "-1" in it. * liblst beyond
Lst, Rows and `Write`: lists and maps without state of their   own, directory,
shell, configuration and formatting functions that only pass   through to libc.
base64 (a wrapper of OpenSSL; a vendored file nobody calls),   trace.h, the
Makefiles and printUsage() have no state to speak of.

## Plan

1. (done) Cgi, Client, SocketBuf, LocalHost with their runs, CgiProofs.
2. (done) Tunnel and the refinement, Socks, Lst, Rows, Dispatch, Session with
   their runs, SessionProofs.
3. (done) The safety theorems and the refinement of Cgi, `TypeOK` and `OneChild`
   of Client, the invariants of Session and of Socks, `AuthorisedFirst`.
4. (done) The invariants of LocalHost; `OwnRequest` and `StaysUp` of Client from
   an invariant on the framing of the stream.
5. (done) What the client makes of a torn stream: its place in Cgi, `KeepsPlace`
   with its proof, bodies cut inside rows in Client; the exits of
   doReadFromServer() in Session; descriptor 0 in Socks.
