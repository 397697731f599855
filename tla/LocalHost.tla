------------------------------ MODULE LocalHost ------------------------------
(***************************************************************************)
(* The child of the client daemon: the forked part of Chunk(),             *)
(* getLocalHostRespond() and RespondHeader() (piercloud.c,                 *)
(* authorization.c).  It sends one request to the HTTP server of its host, *)
(* collects the answer over plain TCP with the operations of SocketBuf,    *)
(* turns it into the answer of a CGI program and PUTs it to piercloud.com. *)
(*                                                                         *)
(* An answer of the local server is a header, rows "status", "line",       *)
(* "clen" (Content-Length), "te" (Transfer-Encoding: chunked) up to the    *)
(* "blank" one, and what follows it: the body, or chunks.  A length counts *)
(* units.  What can spoil an answer is recorded in causes:                 *)
(*   "skipped"  the local server was not asked, on purpose or in vain      *)
(*   "refused"  the request or the PUT could not be sent                   *)
(*   "cut"      the local server's connection ended before the answer      *)
(*   "short"    there were fewer bytes than Content-Length says            *)
(*   "surplus"  GetBufFromSocket threw away bytes of a following chunk     *)
(*   "unread"   something follows a header without length, or an interim   *)
(*              one ("100 Continue")                                       *)
(***************************************************************************)
EXTENDS SocketBuf, FiniteSets

CONSTANTS
  Answers,    \* answers: header, what follows it, and the body that is meant
  RowRead,    \* units IncreaseSoc reads at most when a row is wanted
  MaxMisread, \* bound: the sizes a row that is no size may be read as
  None        \* units here belong to no request

Units == [k : Kinds, r : {None}, n : Nat]
HeaderKinds == {"status", "line", "clen", "te", "blank"}

ASSUME ConstantsAssumption ==
  /\ \A a \in Answers :
       /\ DOMAIN a = {"header", "rest", "body"}
       /\ a.header \in Seq(Units) /\ a.rest \in Seq(Units) /\ a.body \in Seq(Units)
       /\ \A i \in DOMAIN a.header : a.header[i].k \in HeaderKinds
  /\ RowRead \in Nat \ {0}
  /\ MaxMisread \in Nat

Blank     == Unit("blank", None, 0)
Length(n) == Unit("clen", None, n)
DataKinds == {"body", "zero"}

\* How much of the body the first n units of what follows a header bring.
Brought(rest, n) == Cardinality({i \in 1..n : rest[i].k \in DataKinds})

\* The chunks of rest carry body: behind a size come so many units, the end of
\* the chunk and the next size, behind a size of 0 nothing of the body.  The
\* last chunks may be missing, or end too early.
Coded(rest, body) ==
  /\ rest # <<>> => rest[1].k = "size"
  /\ \A i, j \in DOMAIN rest :
       rest[i].k = "size" /\ j > i =>
         IF rest[i].n = 0
         THEN rest[j].k \notin DataKinds
         ELSE /\ j <= i + rest[i].n => rest[j].k \in DataKinds
              /\ j = i + rest[i].n + 1 => rest[j].k = "crlf"
              /\ j = i + rest[i].n + 2 => rest[j].k = "size"
  /\ Len(body) = Brought(rest, Len(rest))
  /\ \A i \in DOMAIN rest : rest[i].k \in DataKinds => body[Brought(rest, i)] = rest[i]

\* What an HTTP server sends: one blank row, at the end of the header; in the
\* header one row at most that says how long the body is, a length or the
\* coding, which what follows keeps to; none in what follows.  A header without
\* such a row may be followed by anything, and a length by less than it says,
\* as in the answer to a HEAD request.
WellFormed(a) ==
  LET lengths == {i \in DOMAIN a.header : a.header[i].k \in {"clen", "te"}} IN
  /\ a.header # <<>> /\ a.header[Len(a.header)] = Blank
  /\ \A i \in DOMAIN a.header : a.header[i].k = "blank" => i = Len(a.header)
  /\ \A i, j \in lengths : i = j
  /\ \A i \in lengths :
       /\ \A j \in DOMAIN a.rest : a.rest[j].k # "clen"
       /\ IF a.header[i].k = "te"
          THEN Coded(a.rest, a.body)
          ELSE a.header[i].n <= Len(a.rest) => a.body = Prefix(a.rest, a.header[i].n)
  /\ lengths = {} /\ a.rest = <<>> => a.body = <<>>

ASSUME AnswersAssumption == \A a \in Answers : WellFormed(a)

VARIABLES
  answer,      \* what the local server answers
  wire,        \* what of it is on its way
  eof,         \* the local server has closed behind wire
  pc,          \* where the child is
  sbuf,        \* s.buf
  header,      \* header, as rows
  chunked,     \* chunked
  content_len, \* content_len
  size,        \* what GetBufFromSocket is asked for
  content,     \* content, and data of the other branch
  respond,     \* respond
  causes       \* history: what has spoilt the answer so far

vars == <<answer, wire, eof, pc, sbuf, header, chunked, content_len, size, content, respond,
          causes>>
conn   == <<answer, wire, eof>>
coding == <<header, chunked, content_len>>

Reading == {"header", "body", "size", "chunk"}
Ended   == {"sent", "gone"}
Causes  == {"skipped", "refused", "cut", "short", "surplus", "unread"}

\* Types, and what content_len counts once chunks are collected.
TypeOK ==
  /\ answer \in Answers
  /\ wire \in Seq(Units)
  /\ eof \in BOOLEAN
  /\ pc \in {"start", "put"} \cup Reading \cup Ended
  /\ sbuf \in Seq(Units)
  /\ header \in Seq(Units)
  /\ chunked \in BOOLEAN
  /\ content_len \in Nat
  /\ size \in Nat
  /\ content \in Seq(Units)
  /\ respond \in Seq(Units)
  /\ causes \subseteq Causes
  /\ pc \in {"size", "chunk"} => content_len = Len(content)

Init ==
  /\ answer \in Answers
  /\ wire = <<>>
  /\ eof = FALSE
  /\ pc = "start"
  /\ sbuf = <<>>
  /\ header = <<>>
  /\ chunked = FALSE
  /\ content_len = 0
  /\ size = 0
  /\ content = <<>>
  /\ respond = <<>>
  /\ causes = {}

Blame(cause, happened) == IF happened THEN {cause} ELSE {}

Junk(n) == [i \in 1..n |-> Unit("junk", None, 0)]

-----------------------------------------------------------------------------
(* The local server.                                                       *)

\* It closes when it has sent everything, or too early.
ServerCloses ==
  /\ pc \in Reading /\ ~eof
  /\ eof' = TRUE
  /\ \E n \in 0..Len(wire) :
       /\ wire' = Prefix(wire, n)
       /\ causes' = causes \cup Blame("cut", n < Len(wire))
  /\ UNCHANGED <<answer, pc, sbuf, coding, size, content, respond>>

-----------------------------------------------------------------------------
(* The request.                                                            *)

\* An event subscription is not passed on; Connection() may fail.  Either way
\* respond stays empty and is sent.
Skips ==
  /\ pc = "start"
  /\ pc' = "put"
  /\ causes' = causes \cup {"skipped"}
  /\ UNCHANGED <<conn, sbuf, coding, size, content, respond>>

\* ASSERT(errno) after Write().
RequestFails ==
  /\ pc = "start"
  /\ pc' = "gone"
  /\ causes' = causes \cup {"refused"}
  /\ UNCHANGED <<conn, sbuf, coding, size, content, respond>>

Asks ==
  /\ pc = "start"
  /\ pc' = "header"
  /\ wire' = answer.header \o answer.rest
  /\ UNCHANGED <<answer, eof, sbuf, coding, size, content, respond, causes>>

-----------------------------------------------------------------------------
(* The header.                                                             *)

\* GetRowFromSocket(): IncreaseSoc(soc, READ_BUF_SIZE) until there is a row.
ReadsForRow ==
  /\ pc \in {"header", "size"}
  /\ ~HasRow(sbuf)
  /\ \E read \in Increased(sbuf, wire, RowRead) : sbuf' = read[1] /\ wire' = read[2]
  /\ UNCHANGED <<answer, eof, pc, coding, size, content, respond, causes>>

\* Mutant of HeaderRow: the row of the coding stays.
HeaderRowAsSent(u) == u

\* What is noted of a row: the status line becomes "Status: ", the coding a
\* length of 0 that is corrected when all chunks are there.
HeaderRow(u) == IF u.k = "te" THEN Length(0) ELSE u

TakesHeaderRow ==
  LET u == sbuf[1] IN
  /\ pc = "header"
  /\ HasRow(sbuf) /\ ~BlankFirst(sbuf)
  /\ sbuf' = Tail(sbuf)
  /\ header' = Append(header, HeaderRow(u))
  /\ chunked' = (chunked \/ u.k = "te")
  /\ content_len' = IF u.k = "clen" THEN u.n ELSE content_len
  /\ UNCHANGED <<conn, pc, size, content, respond, causes>>

\* The blank row ends the header; what comes next is decided by chunked.
EndsHeader ==
  /\ pc = "header"
  /\ BlankFirst(sbuf)
  /\ sbuf' = Tail(sbuf)
  /\ IF chunked
     THEN pc' = "size" /\ content_len' = 0 /\ UNCHANGED <<size, causes>>
     ELSE /\ pc' = "body"
          /\ size' = content_len
          /\ causes' = causes \cup Blame("unread", content_len = 0 /\ answer.rest # <<>>)
          /\ UNCHANGED content_len
  /\ UNCHANGED <<conn, header, chunked, content, respond>>

-----------------------------------------------------------------------------
(* The content.                                                            *)

\* Mutant of ChunkedHeader: the length is not corrected.
ChunkedHeaderAsNoted(h, n) == Append(h, Blank)

\* replaceStrFormat("Content-Length: 0", content_len) and the blank row.
ChunkedHeader(h, n) ==
  Append([i \in DOMAIN h |-> IF h[i] = Length(0) THEN Length(n) ELSE h[i]], Blank)

\* The header loop is left because the connection has ended.  s.buf is NULL
\* now: there will be no row, and data stays NULL, which content_len bytes are
\* copied from.
HeaderCut ==
  /\ pc = "header"
  /\ ~HasRow(sbuf) /\ wire = <<>> /\ eof
  /\ pc' = IF chunked \/ content_len = 0 THEN "put" ELSE "gone"
  /\ respond' = IF chunked THEN ChunkedHeader(header, 0) ELSE Append(header, Blank)
  /\ UNCHANGED <<conn, sbuf, coding, size, content, causes>>

\* GetBufFromSocket(): IncreaseSoc(soc, size - r) until there is enough.
ReadsForSize ==
  /\ pc \in {"body", "chunk"}
  /\ Len(sbuf) < size
  /\ \E read \in Increased(sbuf, wire, size - Len(sbuf)) : sbuf' = read[1] /\ wire' = read[2]
  /\ UNCHANGED <<answer, eof, pc, coding, size, content, respond, causes>>

TakesBody ==
  /\ pc = "body"
  /\ Len(sbuf) >= size
  /\ content' = Block(sbuf, size)
  /\ respond' = Append(header, Blank) \o content'
  /\ pc' = "put"
  /\ sbuf' = <<>>
  /\ UNCHANGED <<conn, coding, size, causes>>

\* The connection has ended first.  data still points to the blank row, which
\* was freed: its block is copied and freed again, if the heap lets it.
UsesFreedRow ==
  /\ pc = "body"
  /\ Len(sbuf) < size
  /\ wire = <<>> /\ eof
  /\ \/ pc' = "gone" /\ UNCHANGED <<content, respond>>
     \/ /\ pc' = "put"
        /\ content' = Junk(size)
        /\ respond' = Append(header, Blank) \o content'
  /\ causes' = causes \cup {"short"}
  /\ UNCHANGED <<conn, sbuf, coding, size>>

SkipsBlankRow ==
  /\ pc = "size"
  /\ BlankFirst(sbuf)
  /\ sbuf' = Tail(sbuf)
  /\ UNCHANGED <<conn, pc, coding, size, content, respond, causes>>

\* All chunks are there, as far as the child can tell.
Finishes ==
  /\ respond' = ChunkedHeader(header, content_len) \o content
  /\ pc' = "put"

TakesSize ==
  /\ pc = "size"
  /\ HasRow(sbuf) /\ ~BlankFirst(sbuf)
  /\ size' \in StrToL(Row(sbuf), MaxMisread)
  /\ sbuf' = Suffix(sbuf, Len(Row(sbuf)))
  /\ IF size' = 0 THEN Finishes ELSE pc' = "chunk" /\ UNCHANGED respond
  /\ UNCHANGED <<conn, coding, content, causes>>

\* Mutant of NoMoreChunks: the loop is not left.
NoMoreChunksWaits ==
  /\ pc = "size"
  /\ ~HasRow(sbuf) /\ wire = <<>> /\ eof
  /\ UNCHANGED vars

\* No further row: the loop is left and what has been collected is the answer.
NoMoreChunks ==
  /\ pc = "size"
  /\ ~HasRow(sbuf) /\ wire = <<>> /\ eof
  /\ Finishes
  /\ UNCHANGED <<conn, sbuf, coding, size, content, causes>>

\* Mutant of TakesChunk: all of data is counted.
TakesChunkCountsAll ==
  /\ pc = "chunk"
  /\ Len(sbuf) >= size
  /\ content' = content \o Block(sbuf, size)
  /\ content_len' = content_len + Len(sbuf)
  /\ causes' = causes \cup Blame("surplus", Surplus(sbuf, size))
  /\ sbuf' = <<>>
  /\ pc' = "size"
  /\ UNCHANGED <<conn, header, chunked, size, respond>>

TakesChunk ==
  /\ pc = "chunk"
  /\ Len(sbuf) >= size
  /\ content' = content \o Block(sbuf, size)
  /\ content_len' = content_len + size
  /\ causes' = causes \cup Blame("surplus", Surplus(sbuf, size))
  /\ sbuf' = <<>>
  /\ pc' = "size"
  /\ UNCHANGED <<conn, header, chunked, size, respond>>

\* Mutant of ChunkCut: data is not NULL, as in the other branch.
ChunkCutCopies ==
  /\ pc = "chunk"
  /\ Len(sbuf) < size
  /\ wire = <<>> /\ eof
  /\ content' = content \o Junk(size)
  /\ content_len' = content_len + size
  /\ pc' = "size"
  /\ sbuf' = <<>>
  /\ UNCHANGED <<conn, header, chunked, size, respond, causes>>

\* The connection ends inside a chunk: memcpy() from the NULL in data.
ChunkCut ==
  /\ pc = "chunk"
  /\ Len(sbuf) < size
  /\ wire = <<>> /\ eof
  /\ pc' = "gone"
  /\ UNCHANGED <<conn, sbuf, coding, size, content, respond, causes>>

-----------------------------------------------------------------------------
(* The PUT: RespondHeader() with respond.len, and respond.                 *)

Puts ==
  /\ pc = "put"
  /\ pc' = "sent"
  /\ UNCHANGED <<conn, sbuf, coding, size, content, respond, causes>>

\* No connection to piercloud.com, or SSL_connect() failed: the child ends
\* without an answer and without an error.
PutFails ==
  /\ pc = "put"
  /\ pc' = "gone"
  /\ causes' = causes \cup {"refused"}
  /\ UNCHANGED <<conn, sbuf, coding, size, content, respond>>

-----------------------------------------------------------------------------
Child ==
  \/ Skips \/ RequestFails \/ Asks
  \/ ReadsForRow \/ TakesHeaderRow \/ EndsHeader \/ HeaderCut
  \/ ReadsForSize \/ TakesBody \/ UsesFreedRow
  \/ SkipsBlankRow \/ TakesSize \/ NoMoreChunks \/ TakesChunk \/ ChunkCut
  \/ Puts \/ PutFails

Next == Child \/ ServerCloses

Spec == Init /\ [][Next]_vars

\* The child runs, and the local server ends a connection some day.
FairSpec == Spec /\ WF_vars(Child) /\ WF_vars(ServerCloses)

-----------------------------------------------------------------------------
(* Properties.                                                             *)

\* What a CGI program would print for the local server's answer.
Expected(a) ==
  [i \in DOMAIN a.header |->
     IF a.header[i].k = "te" THEN Length(Len(a.body)) ELSE a.header[i]] \o a.body

\* The browser gets the header, with a true length in place of the coding,
\* and the body, however the answer came in reads and chunks, unless one of
\* the causes befell it.
WholeAnswer ==
  pc \in {"put", "sent"} /\ causes = {} => respond = Expected(answer)

HeaderLen(s) == Min({i \in DOMAIN s : s[i].k = "blank"})

\* What the child sends is as long as its Content-Length says, even when the
\* connection broke or the chunks were misread: the HTTP server that passes
\* the answer on, and the browser behind it, never wait for more.
LengthTrue ==
  pc \in {"put", "sent"} =>
    \A i \in DOMAIN respond :
      respond[i].k = "clen" => respond[i].n = Len(respond) - HeaderLen(respond)

\* Nothing foreign in the content: a cut answer is a shorter one, unless bytes
\* were thrown away or a freed block was read.
ContentIsHead ==
  causes \cap {"surplus", "short"} = {} =>
    content = Prefix(answer.body, Len(content))

\* GetBufFromSocket(): "read buffer with size length from SSL socket"
\* (socket.c:187), beside "keep tail in the buffer" (socket.c:13).  So the
\* content collected is a beginning of the body that was sent.
ContentInOrder == content = Prefix(answer.body, Len(content))

\* Every child ends, and with an answer unless a cause that can kill it befell
\* it: a header without length or a server that could not be asked give a
\* wrong answer, never none.
AnswerSent ==
  <>(\/ pc = "sent"
     \/ pc = "gone" /\ causes \cap {"refused", "cut", "short", "surplus"} # {})

=============================================================================
