------------------------------- MODULE Client -------------------------------
(***************************************************************************)
(* The client half of piercloud: the daemon's tunnel reader (piercloud.c:  *)
(* main, doReadFromServer, Chunk, getConnectionRequest, the buffer_t       *)
(* helpers) over its socket buffer (socket.c).                             *)
(*                                                                         *)
(* The server's Connect writes blocks of request bytes, and a "0" when it  *)
(* is idle, to its HTTP response; the HTTP server frames what it finds in  *)
(* chunks; the daemon takes the frames apart, glues the chunks together    *)
(* and forks one child for each request it completes.  The child answers   *)
(* with PUT /<id>/<pid>, so the pid it got is where the answer goes.       *)
(*                                                                         *)
(* Bytes come in the units of SocketBuf: a request is the rows "pid",      *)
(* "line", "clen" (Content-Length) and "blank" and a body of "zero"s, the  *)
(* single byte '0', and "body"s, anything longer.  A length counts units.  *)
(*                                                                         *)
(* What goes wrong on the way is recorded in causes, so that a property    *)
(* can say under which of them it holds:                                   *)
(*   "split"    a header lies in two chunks                                *)
(*   "zero"     a body block of the one byte '0' was taken for a ping      *)
(*   "surplus"  GetBufFromSocket threw away bytes of the following chunk   *)
(*   "torn"     a Pier was killed before it had written its whole request  *)
(*   "lost"     the connection ended with bytes of a request under way     *)
(*   "behind"   a chunk brought a whole request and the start of the next  *)
(*   "fork"     fork() failed                                              *)
(***************************************************************************)
EXTENDS SocketBuf, FiniteSets

CONSTANTS
  Reqs,       \* requests; a request stands for the pid of its Pier too
  Bodies,     \* the bodies a request may have, sequences of "body" and "zero"
  MaxBlock,   \* units the HTTP server puts in one chunk at most
  RowRead,    \* units IncreaseSoc reads at most when a row is wanted
  MaxMisread, \* bound: the sizes a row that is no size may be read as
  MaxFaults,  \* bound: Piers killed, connections lost and forks failed
  MaxPings,   \* bound: pings
  None,       \* no request; atoi() of a row that is no number
  Stray       \* the pid read from a row that is a number but no pid

ASSUME ConstantsAssumption ==
  /\ IsFiniteSet(Reqs)
  /\ Bodies \subseteq Seq({"body", "zero"})
  /\ MaxBlock \in Nat \ {0}
  /\ RowRead \in Nat \ {0}
  /\ MaxMisread \in Nat
  /\ MaxFaults \in Nat
  /\ MaxPings \in Nat
  /\ None \notin Reqs /\ Stray \notin Reqs /\ None # Stray

VARIABLES
  cur,         \* the request whose Pier has the server's lock
  asked,       \* each request as the browser's Pier composes it, from line 2
  left,        \* what the Pier of cur has still to write
  feed,        \* what Connect and the HTTP server have of it
  wire,        \* frames on their way to the client
  eof,         \* the connection has ended behind wire
  mode,        \* what doReadFromServer waits for, or how the daemon ended
  size,        \* len in doReadFromServer
  sbuf,        \* soc->buf
  buf,         \* static buf in doReadFromServer
  request,     \* static request in doReadFromServer
  in_data,     \* static in getConnectionRequest
  pid,         \* static in getConnectionRequest
  content_len, \* static in getConnectionRequest
  children,    \* history: the pid and the request of each child forked
  causes,      \* history: what went wrong so far
  faults,      \* faults so far
  pings        \* pings so far

server == <<cur, asked, left, feed>>
parser == <<in_data, pid, content_len>>
vars == <<cur, asked, left, feed, wire, eof, mode, size, sbuf, buf, request,
          in_data, pid, content_len, children, causes, faults, pings>>

Units    == [k : Kinds, r : Reqs \cup {None}, n : Nat]
Crlf     == Unit("crlf", None, 0)
Ping     == Unit("zero", None, 0)
Modes    == {"down", "row", "buf"}
Exits    == {"noPid", "noHeader", "abort"}
Causes   == {"split", "zero", "surplus", "torn", "lost", "behind", "fork"}

TypeOK ==
  /\ cur \in Reqs \cup {None}
  /\ asked \in [Reqs -> Seq(Units)]
  /\ left \in Seq(Units)
  /\ feed \in Seq(Units)
  /\ wire \in Seq(Units)
  /\ eof \in BOOLEAN
  /\ mode \in Modes \cup Exits
  /\ size \in Nat
  /\ sbuf \in Seq(Units)
  /\ buf \in Seq(Units)
  /\ request \in Seq(Units)
  /\ in_data \in BOOLEAN
  /\ pid \in Reqs \cup {None, Stray}
  /\ content_len \in Nat
  /\ children \in Seq([pid : Reqs \cup {Stray}, req : Seq(Units)])
  /\ causes \subseteq Causes
  /\ faults \in 0..MaxFaults
  /\ pings \in 0..MaxPings

Init ==
  /\ cur = None
  /\ asked = [r \in Reqs |-> <<>>]
  /\ left = <<>>
  /\ feed = <<>>
  /\ wire = <<>>
  /\ eof = FALSE
  /\ mode = "down"
  /\ size = 0
  /\ sbuf = <<>>
  /\ buf = <<>>
  /\ request = <<>>
  /\ in_data = FALSE
  /\ pid = None
  /\ content_len = 0
  /\ children = <<>>
  /\ causes = {}
  /\ faults = 0
  /\ pings = 0

-----------------------------------------------------------------------------
(* The server, as far as its output goes.                                  *)

\* Everything but the end of a chunk is a loss when it is thrown away.
Matters(s) == \E i \in DOMAIN s : s[i] # Crlf

Blame(cause, happened) == IF happened THEN {cause} ELSE {}

Header(r, b) ==
  <<Unit("line", r, 0)>>
    \o (IF b = <<>> THEN <<>> ELSE <<Unit("clen", r, Len(b))>>)
    \o <<Unit("blank", r, 0)>>

Body(r, b) == [i \in DOMAIN b |-> Unit(b[i], r, i)]

\* A Pier takes the lock and writes its pid and the header in one Write; the
\* body follows block by block.
PierStarts(r, b) ==
  /\ cur = None
  /\ asked[r] = <<>>
  /\ cur' = r
  /\ asked' = [asked EXCEPT ![r] = Header(r, b) \o Body(r, b)]
  /\ feed' = feed \o <<Unit("pid", r, 0)>> \o Header(r, b)
  /\ left' = Body(r, b)
  /\ UNCHANGED <<wire, eof, mode, size, sbuf, buf, request, parser, children, causes, faults,
                 pings>>

PierWrites ==
  /\ left # <<>>
  /\ feed' = Append(feed, Head(left))
  /\ left' = Tail(left)
  /\ UNCHANGED <<cur, asked, wire, eof, mode, size, sbuf, buf, request, parser, children,
                 causes, faults, pings>>

\* The answer of the child for its pid ends a Pier.
PierEnds ==
  /\ cur # None
  /\ left = <<>>
  /\ \E j \in DOMAIN children : children[j].pid = cur
  /\ cur' = None
  /\ UNCHANGED <<asked, left, feed, wire, eof, mode, size, sbuf, buf, request, parser, children,
                 causes, faults, pings>>

PierDies ==
  /\ cur # None
  /\ faults < MaxFaults
  /\ faults' = faults + 1
  /\ cur' = None
  /\ left' = <<>>
  /\ causes' = causes \cup Blame("torn", left # <<>>)
  /\ UNCHANGED <<asked, feed, wire, eof, mode, size, sbuf, buf, request, parser, children, pings>>

\* Connect's select() timed out: nothing to read and no Pier still writing.
\* The ping before it has long been sent.
PingWrites ==
  /\ mode \in {"row", "buf"} /\ ~eof
  /\ feed = <<>>
  /\ left = <<>>
  /\ pings < MaxPings
  /\ pings' = pings + 1
  /\ feed' = <<Ping>>
  /\ UNCHANGED <<cur, asked, left, wire, eof, mode, size, sbuf, buf, request, parser, children,
                 causes, faults>>

\* The HTTP server makes a chunk of all that Connect has written by now.
FramesChunk ==
  LET n == Smaller(Len(feed), MaxBlock) IN
  /\ mode \in {"row", "buf"} /\ ~eof
  /\ feed # <<>>
  /\ wire' = wire \o <<Unit("size", None, n)>> \o Prefix(feed, n) \o <<Crlf>>
  /\ feed' = Suffix(feed, n)
  /\ causes' = causes \cup Blame("split", feed[n].k \in {"pid", "line", "clen"})
  /\ UNCHANGED <<cur, asked, left, eof, mode, size, sbuf, buf, request, parser, children, faults,
                 pings>>

\* The connection ends: its last bytes may still arrive, or not.
ConnectionEnds ==
  /\ mode \in {"row", "buf"} /\ ~eof
  /\ faults < MaxFaults
  /\ faults' = faults + 1
  /\ eof' = TRUE
  /\ \E n \in 0..Len(wire) :
       /\ wire' = Prefix(wire, n)
       /\ causes' = causes \cup Blame("lost", Matters(Suffix(wire, n)))
  /\ UNCHANGED <<server, mode, size, sbuf, buf, request, parser, children, pings>>

-----------------------------------------------------------------------------
(* getConnectionRequest: the rows of the buffer up to the blank one are a   *)
(* header, the first of them the pid; content_len units after it the body.  *)

\* atoi() skips the zeros a ping put in front of the digits, and stops at
\* anything that is no digit; 0 is None.  A row that begins with the rest of
\* another, or with a piece of a body, may be any number, a live pid too.
AtoI(row) ==
  LET u == row[Len(row)] IN
  IF u.k \in {"size", "cut"} \/ \E i \in 1..Len(row) - 1 : row[i].k # "zero"
  THEN Reqs \cup {None, Stray}
  ELSE IF u.k = "pid" THEN {u.r} ELSE {None}

\* Where the header ends that starts in b; 0 if no blank row is there.
HeaderEnd(b) ==
  LET blanks == {i \in DOMAIN b : IsRow(b, i) /\ BlankRow(b[i]) /\ i > Min(RowEnds(b))} IN
  IF blanks = {} THEN 0 ELSE Min(blanks)

\* Mutant of ContentLength: one unit short.
ContentLengthShort(b) ==
  LET rows == {i \in Min(RowEnds(b)) + 1..HeaderEnd(b) : IsRow(b, i) /\ b[i].k = "clen"} IN
  IF rows = {} THEN 0 ELSE b[Max(rows)].n - 1

\* The last Content-Length row of the header, 0 without one.
ContentLength(b) ==
  LET rows == {i \in Min(RowEnds(b)) + 1..HeaderEnd(b) : IsRow(b, i) /\ b[i].k = "clen"} IN
  IF rows = {} THEN 0 ELSE b[Max(rows)].n

\* What is left when the header has been cut from b, and out_buf with it.
AfterHeader(b) == Suffix(b, HeaderEnd(b))
WithHeader(b) == request \o SubSeq(b, Min(RowEnds(b)) + 1, HeaderEnd(b))

\* The request whose body the last Content-Length row in req announces, and the
\* units of b that are, from the first on, units of this body: as long as it is
\* only these, len units are content_len bytes.
Announced(req) ==
  LET rows == {i \in DOMAIN req : IsRow(req, i) /\ req[i].k = "clen"} IN
  IF rows = {} THEN None ELSE req[Max(rows)].r
OwnUnits(req, len, b) ==
  Max({n \in 0..Smaller(len, Len(b)) :
         \A i \in 1..n : \E k \in {"body", "zero"} : b[i] = Unit(k, Announced(req), i)})

\* What a cut inside the unit u leaves of it; '\n' is a blank row again.
Rest(u) ==
  IF BlankRow(u) THEN u ELSE Unit(IF u.k \in Newline THEN "cut" ELSE "junk", None, 0)

\* The ways in which content_len bytes at the head of b can be cut off: behind
\* len units if all of them are the body's, and else behind or inside any unit
\* from the first strange one on.
BodyCuts(req, len, b) ==
  LET own == OwnUnits(req, len, b) IN
  IF own = len THEN {<<Prefix(b, len), Suffix(b, len)>>}
  ELSE {<<Prefix(b, j), Suffix(b, j)>> : j \in own + 1..Len(b)}
         \cup {<<Append(Prefix(b, j - 1), Unit("junk", None, 0)), <<Rest(b[j])>> \o Suffix(b, j)>> :
                 j \in {i \in own + 1..Len(b) : b[i].k # "zero"}}

\* There may be less than content_len bytes.
BodyMissing(req, len, b) == OwnUnits(req, len, b) # len

-----------------------------------------------------------------------------
(* The daemon.                                                             *)

\* main()'s loop: connect, InitSocket, Authorization, then doReadFromServer()
\* clears its two buffers; what getConnectionRequest() keeps is not cleared.
Connects ==
  /\ mode = "down"
  /\ mode' = "row"
  /\ eof' = FALSE
  /\ wire' = <<>>
  /\ sbuf' = <<>>
  /\ buf' = <<>>
  /\ request' = <<>>
  /\ UNCHANGED <<server, size, parser, children, causes, faults, pings>>

\* doReadFromServer() returns: everything it had of a request is gone.
Loses(rest, b) == Blame("lost", Matters(rest) \/ b # <<>> \/ in_data')

\* GetRowFromSocket(): IncreaseSoc(soc, READ_BUF_SIZE) until there is a row.
ReadsForRow ==
  /\ mode = "row"
  /\ ~HasRow(sbuf)
  /\ \E read \in Increased(sbuf, wire, RowRead) : sbuf' = read[1] /\ wire' = read[2]
  /\ UNCHANGED <<server, eof, mode, size, buf, request, parser, children, causes, faults, pings>>

\* ... or the connection has ended: NULL, and doReadFromServer() returns.
NoMoreRows ==
  /\ mode = "row"
  /\ ~HasRow(sbuf)
  /\ wire = <<>> /\ eof
  /\ mode' = "down"
  /\ UNCHANGED <<server, wire, eof, size, sbuf, buf, request, parser, children, faults, pings>>
  /\ causes' = causes \cup Loses(sbuf, buf)

SkipsBlankRow ==
  /\ mode = "row"
  /\ BlankFirst(sbuf)
  /\ sbuf' = Tail(sbuf)
  /\ UNCHANGED <<server, wire, eof, mode, size, buf, request, parser, children, causes, faults,
                 pings>>

\* The row is the size of a chunk; GetBufFromSocket() of 0 units gives NULL,
\* on which doReadFromServer() returns.
TakesSize ==
  /\ mode = "row"
  /\ HasRow(sbuf) /\ ~BlankFirst(sbuf)
  /\ size' \in StrToL(Row(sbuf), MaxMisread)
  /\ sbuf' = Suffix(sbuf, Len(Row(sbuf)))
  /\ mode' = IF size' = 0 THEN "down" ELSE "buf"
  /\ UNCHANGED <<server, wire, eof, buf, request, parser, children, faults, pings>>
  /\ causes' = causes \cup (IF size' = 0 THEN Loses(sbuf' \o wire, buf) ELSE {})

\* GetBufFromSocket(): IncreaseSoc(soc, size - r) until there is enough.
ReadsForChunk ==
  /\ mode = "buf"
  /\ Len(sbuf) < size
  /\ \E read \in Increased(sbuf, wire, size - Len(sbuf)) : sbuf' = read[1] /\ wire' = read[2]
  /\ UNCHANGED <<server, eof, mode, size, buf, request, parser, children, causes, faults, pings>>

\* Mutant of Forks: the parent keeps the request.
ForksKeepingRequest(p, req) ==
  /\ request' = req
  /\ children' = Append(children, [pid |-> p, req |-> req])
  /\ UNCHANGED faults

\* Chunk()'s end: the parent after fork(), or after fork() failed.
Forks(p, req) ==
  /\ request' = <<>>
  /\ \/ children' = Append(children, [pid |-> p, req |-> req]) /\ UNCHANGED faults
     \/ UNCHANGED children /\ faults < MaxFaults /\ faults' = faults + 1

Keeps(req) == request' = req /\ UNCHANGED <<children, faults>>

\* Mutant of TakesBody: in_data is not reset.
TakesBodyStillIn(p, req, rest) ==
  /\ buf' = rest
  /\ in_data' = in_data
  /\ IF p # None THEN Forks(p, req) ELSE Keeps(req)

\* Mutant of TakesBody: a child even without a pid.
TakesBodyAnyPid(p, req, rest) ==
  /\ buf' = rest
  /\ in_data' = FALSE
  /\ Forks(p, req)

\* getConnectionRequest() has cut content_len bytes off, rest is left.
TakesBody(p, req, rest) ==
  /\ buf' = rest
  /\ in_data' = FALSE
  /\ IF p # None THEN Forks(p, req) ELSE Keeps(req)

\* Mutant of ParsesBody: the body must be followed by something.
ParsesBodyTooLate(p, req, len, b) ==
  \/ BodyMissing(req, len, b) /\ buf' = b /\ in_data' = TRUE /\ Keeps(req)
  \/ \E cut \in BodyCuts(req, len, b) :
       IF cut[2] = <<>> THEN buf' = b /\ in_data' = TRUE /\ Keeps(req)
       ELSE TakesBody(p, req \o cut[1], cut[2])

\* getConnectionRequest() from its in_data part on.
ParsesBody(p, req, len, b) ==
  \/ BodyMissing(req, len, b) /\ buf' = b /\ in_data' = TRUE /\ Keeps(req)
  \/ \E cut \in BodyCuts(req, len, b) : TakesBody(p, req \o cut[1], cut[2])

\* Chunk(): increaseBuffer(), getConnectionRequest() once, and the fork.
Chunk(data, next) ==
  LET b == buf \o data IN
  IF in_data
  THEN /\ ParsesBody(pid, request, content_len, b)
       /\ mode' = next
       /\ UNCHANGED <<pid, content_len>>
  ELSE \* ASSERT(strpid == NULL), ASSERT(header == NULL)
       IF RowEnds(b) = {} \/ HeaderEnd(b) = 0
       THEN /\ mode' = IF RowEnds(b) = {} THEN "noPid" ELSE "noHeader"
            /\ UNCHANGED <<buf, request, parser, children, faults>>
       ELSE /\ pid' \in AtoI(Row(b))
            /\ content_len' = ContentLength(b)
            /\ ParsesBody(pid', WithHeader(b), content_len', AfterHeader(b))
            /\ mode' = next

\* What GetBufFromSocket() throws away may end inside a row.
Behind(w, thrown) ==
  {w} \cup (IF thrown /\ w # <<>> /\ w[1].k # "zero" THEN {<<Rest(w[1])>> \o Tail(w)} ELSE {})

\* A chunk of the one byte '0' is a ping, or is taken for one.
SkipsPing ==
  /\ mode = "buf"
  /\ size = 1 /\ sbuf # <<>> /\ sbuf[1].k = "zero"
  /\ sbuf' = <<>>
  /\ wire' \in Behind(wire, Surplus(sbuf, size))
  /\ mode' = "row"
  /\ causes' = causes \cup Blame("zero", sbuf[1] # Ping)
                      \cup Blame("surplus", Surplus(sbuf, size))
  /\ UNCHANGED <<server, eof, size, buf, request, parser, children, faults, pings>>

TakesChunk ==
  /\ mode = "buf"
  /\ Len(sbuf) >= size
  /\ ~(size = 1 /\ sbuf[1].k = "zero")
  /\ sbuf' = <<>>
  /\ wire' \in Behind(wire, Surplus(sbuf, size))
  /\ Chunk(Block(sbuf, size), "row")
  /\ causes' = causes \cup Blame("surplus", Surplus(sbuf, size))
                      \cup Blame("fork", faults' # faults)
                      \cup Blame("behind", request' = <<>> /\ buf' # <<>>)
  /\ UNCHANGED <<server, eof, size, pings>>

\* What the heap may hold where a row was freed: bytes, rows of unknown text,
\* which may be those of an old pid, a blank row, an old Content-Length.
Heap == {Unit("junk", None, 0), Unit("cut", None, 0), Unit("blank", None, 0), Unit("clen", None, 1)}

\* GetBufFromSocket() finds the connection ended before it has enough and
\* leaves data pointing to the row that was freed: whatever the heap holds
\* there is taken for a ping or used as the chunk, and freed again, if the
\* process lives that long.
UsesFreedRow ==
  /\ mode = "buf"
  /\ Len(sbuf) < size
  /\ wire = <<>> /\ eof
  /\ sbuf' = <<>>
  /\ \/ /\ mode' = "abort" \/ (mode' = "down" /\ size = 1)
        /\ UNCHANGED <<buf, request, parser, children, faults>>
     \/ \E data \in [1..size -> Heap], next \in {"abort", "down"} : Chunk(data, next)
  /\ causes' = causes \cup {"lost"} \cup Blame("fork", faults' # faults)
  /\ UNCHANGED <<server, wire, eof, size, pings>>

-----------------------------------------------------------------------------
Daemon ==
  \/ Connects \/ ReadsForRow \/ NoMoreRows \/ SkipsBlankRow \/ TakesSize
  \/ ReadsForChunk \/ SkipsPing \/ TakesChunk \/ UsesFreedRow

Next ==
  \/ \E r \in Reqs, b \in Bodies : PierStarts(r, b)
  \/ PierWrites \/ PierEnds \/ PierDies \/ PingWrites
  \/ FramesChunk \/ ConnectionEnds
  \/ Daemon

Spec == Init /\ [][Next]_vars

\* The daemon's loop runs on, a Pier writes what it has, and the HTTP server
\* passes on what Connect wrote.  Nothing forces a ping, a fault or a request.
FairSpec ==
  /\ Spec
  /\ WF_vars(Daemon)
  /\ WF_vars(PierWrites)
  /\ WF_vars(FramesChunk)

-----------------------------------------------------------------------------
(* Properties.                                                             *)

\* Nothing befell the tunnel that the parser cannot find its way behind: no Pier
\* killed half way, no unlucky read, no body of '0', no bytes lost with a
\* connection.
Clean == causes \cap {"torn", "surplus", "zero", "lost"} = {}

\* A child is given the request whose pid it answers to, whole, in order and
\* with nothing of another, however the bytes were cut into chunks and reads.
\* A failed fork() or a chunk with parts of two requests do not spoil this, and
\* neither does a connection that ends between two requests.
OwnRequest ==
  Clean =>
    \A j \in DOMAIN children :
      /\ children[j].pid \in Reqs
      /\ children[j].req = asked[children[j].pid]

\* No Pier gets two answers: there is at most one child for each pid, though
\* pid, in_data and content_len outlive the child and the connection.
OneChild ==
  Clean =>
    \A i, j \in DOMAIN children :
      children[i].pid = children[j].pid /\ children[i].pid # Stray => i = j

\* The daemon is never ended by an ASSERT or by the heap unless one of the
\* causes befell it.
StaysUp == mode \in Exits => causes # {}

\* A request that a Pier has begun to send gets its child, unless one of the
\* causes befell the tunnel.
EveryRequestServed ==
  \A r \in Reqs :
    cur = r ~> (causes # {} \/ \E j \in DOMAIN children : children[j].pid = r)

\* ASSERT(header == NULL) (piercloud.c:267): a header is complete in the buffer.
HeaderInBuffer == mode # "noHeader"

=============================================================================
