------------------------------ MODULE Session ------------------------------
(***************************************************************************)
(* The client daemon around its tunnel: initDaemon() and main()            *)
(* (piercloud.c), Connection() without a proxy and CloseConnection()       *)
(* (connection.c), SSL_WRAPP and SSL_CLEANUP (sslwrapper.h) and            *)
(* Authorization() (authorization.c) over the operations of SocketBuf.     *)
(* doReadFromServer() is the module Client; here it is one step, taken     *)
(* when the connection is at its end.                                      *)
(*                                                                         *)
(* The server answers "GET /<id>" by the role Dispatch gives the CGI       *)
(* program.  The status row's n is 1 for three words with 200 and OK.      *)
(***************************************************************************)
EXTENDS Dispatch, SocketBuf

CONSTANTS
  Ids,           \* ids the daemon is started with, as symbols
  RowRead,       \* units IncreaseSoc() reads at most when a row is wanted
  ShutdownTries  \* 64 in sslwrapper.h

ASSUME ConstantsAssumption ==
  /\ \A id \in Ids : id \in Seq(STRING)
  /\ RowRead \in Nat \ {0}
  /\ ShutdownTries \in Nat

VARIABLES
  g_id,        \* g_id
  pc,          \* where the daemon is
  writer,      \* what the process that waits to write the pid file has as pid
  pidfile,     \* the pid file
  files,       \* descriptors 0, 1, 2 that are open
  c,           \* c
  held,        \* what main holds of "ctx", "ssl" and "buf" (soc.buf is not NULL)
  sbuf,        \* what is in soc.buf
  row,         \* Authorization: i
  rval,        \* Authorization: rval
  content_len, \* Authorization: content_len
  tries,       \* SSL_CLEANUP: i
  coming,      \* the server's answer, as far as it is not sent
  wire,        \* what is on its way
  eof          \* the connection has ended behind wire

daemon == <<g_id, pc, writer, pidfile>>
fds    == <<files, c, held>>
auth   == <<sbuf, row, rval, content_len>>
conn   == <<coming, wire, eof>>
vars   == <<daemon, fds, auth, tries, conn>>

Stages == {"start", "forked", "none", "connect", "socket", "ctx", "ssl", "handshake", "init",
           "request", "header", "body", "serve", "free", "shutdown", "release", "close"}

TypeOK ==
  /\ g_id \in Ids
  /\ pc \in Stages
  /\ {writer, pidfile} \subseteq {"none", "daemon", "-1"}
  /\ files \subseteq 0..2 /\ c \in -1..2
  /\ held \subseteq {"ctx", "ssl", "buf"}
  /\ row \in 0..2 /\ rval \in -1..1 /\ content_len \in 0..1
  /\ tries \in 0..ShutdownTries
  /\ ("buf" \notin held \/ pc \in {"start", "forked", "connect"}) => sbuf = <<>>

Init ==
  /\ g_id \in Ids
  /\ pc = "start" /\ writer = "none" /\ pidfile = "none"
  /\ files \in {{0, 1, 2}, {1, 2}}    \* stdin may be closed
  /\ c = -1 /\ held = {}
  /\ sbuf = <<>> /\ row = 0 /\ rval = -1 /\ content_len = 0
  /\ tries = 0
  /\ coming = <<>> /\ wire = <<>> /\ eof = TRUE

-----------------------------------------------------------------------------
(* The server.                                                             *)

Ok     == Unit("status", 0, 1)
No     == Unit("status", 0, 0)
Blank  == Unit("blank", 0, 0)
Body   == Unit("body", 0, 1)
Coded  == Unit("te", 0, 0)
Stream == <<Unit("size", 0, 1), Body, Unit("crlf", 0, 0)>>

Refusal == <<No, Unit("clen", 0, 1), Blank, Body>>

\* Connect() and Respond() write an empty answer with status 200; the HTTP
\* server sends the one in chunks, for it does not end, and the other with its
\* length.  A Respond() without a FIFO to open, and a program that exits at
\* once, leave a refusal to the HTTP server; it may be busy otherwise.
RoleOf(id) == Role(<<"piercloud", ".", "com">>, <<"/">> \o id)

Answers(id) ==
  {Refusal}
    \cup (IF RoleOf(id).name = "Connect" THEN {<<Ok, Coded, Blank>> \o Stream} ELSE {})
    \cup (IF RoleOf(id).name = "Respond" THEN {<<Ok, Unit("clen", 0, 0), Blank>>} ELSE {})

ServerSends ==
  /\ coming # <<>> /\ ~eof
  /\ wire' = Append(wire, Head(coming))
  /\ coming' = Tail(coming)
  /\ UNCHANGED <<daemon, fds, auth, tries, eof>>

\* The connection may end anywhere; what is on its way may be lost with it.
ConnectionEnds ==
  /\ ~eof /\ eof' = TRUE
  /\ wire' \in {wire, <<>>}
  /\ coming' = <<>>
  /\ UNCHANGED <<daemon, fds, auth, tries>>

-----------------------------------------------------------------------------
(* initDaemon().                                                           *)

Goes(to) == pc' = to /\ UNCHANGED <<g_id, writer, pidfile>>

\* A failed fork() ends the program like a successful one.
ForkFirst ==
  /\ pc = "start"
  /\ Goes("forked") \/ Goes("none")
  /\ UNCHANGED <<fds, auth, tries, conn>>

\* The parent has a pid to write in either case; the child closes 1 and 2.
ForkSecond ==
  /\ pc = "forked"
  /\ \/ pc' = "connect" /\ writer' = "daemon" /\ files' = files \ {1, 2}
     \/ pc' = "none" /\ writer' = "-1" /\ UNCHANGED files
  /\ UNCHANGED <<g_id, pidfile, c, held, auth, tries, conn>>

\* fopen() may fail; the daemon runs in the meantime.
WritePid ==
  /\ writer # "none"
  /\ pidfile' \in {pidfile, writer}
  /\ writer' = "none"
  /\ UNCHANGED <<g_id, pc, fds, auth, tries, conn>>

-----------------------------------------------------------------------------
(* Connection() and CloseConnection().                                     *)

\* PrepareSockaddr() or socket() fails and main() tries again, or socket()
\* gives the lowest free descriptor.
OpenSocket ==
  /\ pc = "connect"
  /\ \/ /\ c' = -1 /\ UNCHANGED <<daemon, files>>
     \/ /\ c' = Min(0..2 \ files)
        /\ files' = files \cup {c'}
        /\ Goes("socket")
  /\ UNCHANGED <<held, auth, tries, conn>>

\* Setsockopt() or connect() fails.
ConnectFails ==
  /\ pc = "socket"
  /\ files' = files \ {c} /\ c' = -1
  /\ Goes("connect")
  /\ UNCHANGED <<held, auth, tries, conn>>

Connects ==
  /\ pc = "socket"
  /\ Goes("ctx")
  /\ wire' = <<>> /\ coming' = <<>> /\ eof' = FALSE
  /\ UNCHANGED <<fds, auth, tries>>

\* A descriptor that is not positive is refused.
CloseConnection ==
  /\ pc = "close"
  /\ files' = IF c <= 0 THEN files ELSE files \ {c}
  /\ Goes("connect")
  /\ wire' = <<>> /\ coming' = <<>> /\ eof' = TRUE
  /\ UNCHANGED <<c, held, auth, tries>>

-----------------------------------------------------------------------------
(* SSL_WRAPP and SSL_CLEANUP.                                              *)

NewCtx ==
  /\ pc = "ctx"
  /\ \/ held' = held \cup {"ctx"} /\ Goes("ssl")
     \/ UNCHANGED held /\ Goes("close")
  /\ UNCHANGED <<files, c, auth, tries, conn>>

NewSsl ==
  /\ pc = "ssl"
  /\ \/ held' = held \cup {"ssl"} /\ Goes("handshake")
     \/ UNCHANGED held /\ Goes("release")
  /\ UNCHANGED <<files, c, auth, tries, conn>>

\* SSL_set_fd() or SSL_connect() fails, or the tunnel is encrypted.
Handshake ==
  /\ pc = "handshake"
  /\ (~eof /\ Goes("init")) \/ Goes("release")
  /\ UNCHANGED <<fds, auth, tries, conn>>

\* Mutant of Again: one attempt more.
AgainOnce == tries <= ShutdownTries
\* while(!SSL_shutdown(ssl) && i < 64)
Again == tries < ShutdownTries

\* The first call sends, the others wait for the server.
ShutdownStep ==
  /\ pc = "shutdown"
  /\ \/ Again /\ tries' = tries + 1 /\ UNCHANGED daemon
     \/ tries' = 0 /\ Goes("release")
  /\ UNCHANGED <<fds, auth, conn>>

Shutdown   == (tries = 0 \/ eof) /\ ShutdownStep
PeerLetsGo == tries > 0 /\ ~eof /\ ShutdownStep

\* SSL_free() if there is one, SSL_CTX_free().
Release ==
  /\ pc = "release"
  /\ held' = held \ {"ssl", "ctx"}
  /\ Goes("close")
  /\ UNCHANGED <<files, c, auth, tries, conn>>

-----------------------------------------------------------------------------
(* InitSocket(), Authorization() and FreeSocket().                         *)

InitSocket ==
  /\ pc = "init"
  /\ \/ held' = held \cup {"buf"} /\ Goes("request")
     \/ UNCHANGED held /\ Goes("shutdown")      \* strdup() failed
  /\ sbuf' = <<>>
  /\ UNCHANGED <<files, c, row, rval, content_len, tries, conn>>

\* SSL_write() of the request fails, or the server begins to answer.
Ask ==
  /\ pc = "request"
  /\ row' = 0 /\ content_len' = 0 /\ rval' = -1
  /\ \/ Goes("free") /\ UNCHANGED conn
     \/ ~eof /\ Goes("header") /\ coming' \in Answers(g_id) /\ UNCHANGED <<wire, eof>>
  /\ UNCHANGED <<fds, sbuf, tries>>

Reads == \E p \in Increased(sbuf, wire, RowRead) : sbuf' = p[1] /\ wire' = p[2]

ReadsHeader ==
  /\ pc = "header" /\ ~HasRow(sbuf) /\ wire # <<>>
  /\ Reads
  /\ UNCHANGED <<daemon, fds, row, rval, content_len, tries, coming, eof>>

\* What becomes of main() with Authorization()'s result r.
Returns(r) == IF r = 1 THEN Goes("serve") ELSE Goes("free")

\* Mutant of HeaderCut: a read of 0 bytes is tried again.
HeaderCutSpins ==
  /\ pc = "header" /\ ~HasRow(sbuf) /\ wire = <<>> /\ eof
  /\ UNCHANGED vars

\* GetRowFromSocket() fails and frees soc.buf; after a first row that makes no
\* difference to the result.
HeaderCut ==
  /\ pc = "header" /\ ~HasRow(sbuf) /\ wire = <<>> /\ eof
  /\ held' = held \ {"buf"} /\ sbuf' = <<>>
  /\ Returns(IF row = 0 THEN -1 ELSE rval)
  /\ UNCHANGED <<files, c, row, rval, content_len, tries, conn>>

\* Mutant of Authorised: any number of words will do.
AuthorisedAny(u) == u.k = "status"

\* lstSize(lst) == 3 with 200 and OK, in the first row.
Authorised(u) == u.k = "status" /\ u.n = 1

\* Mutant of Cut: only the row is left of the buffer.
CutAll(b) == <<>>

\* GetRowAndCut(): the row is cut from the head.
Cut(b) == Suffix(b, Len(Row(b)))

TakesRow ==
  /\ pc = "header" /\ HasRow(sbuf)
  /\ LET u == Head(Row(sbuf)) IN
       IF u = Blank
       THEN /\ UNCHANGED <<row, rval, content_len>>
            /\ IF content_len > 0 THEN Goes("body") ELSE Returns(rval)
       ELSE /\ row' = IF row = 0 THEN 1 ELSE 2
            /\ rval' = IF row > 0 THEN rval ELSE IF Authorised(u) THEN 1 ELSE 0
            /\ content_len' = IF u.k = "clen" THEN u.n ELSE content_len
            /\ UNCHANGED daemon
  /\ sbuf' = Cut(sbuf)
  /\ UNCHANGED <<fds, tries, conn>>

\* Mutant of BodyThere: it waits for one byte more.
BodyThereLate == Len(sbuf) > content_len
BodyThere == Len(sbuf) >= content_len

\* GetBufFromSocket() of the body: it hands over all that is there.
ReadsBody ==
  /\ pc = "body" /\ ~BodyThere /\ wire # <<>>
  /\ \E p \in Increased(sbuf, wire, content_len - Len(sbuf)) : sbuf' = p[1] /\ wire' = p[2]
  /\ UNCHANGED <<daemon, fds, row, rval, content_len, tries, coming, eof>>

TakesBody ==
  /\ pc = "body"
  /\ \/ BodyThere /\ UNCHANGED held
     \/ ~BodyThere /\ wire = <<>> /\ eof /\ held' = held \ {"buf"}
  /\ sbuf' = <<>>
  /\ Returns(rval)
  /\ UNCHANGED <<files, c, row, rval, content_len, tries, conn>>

\* doReadFromServer() returns.
Returned ==
  /\ pc = "serve"
  /\ wire' = <<>> /\ sbuf' = <<>>
  /\ held' = held \ {"buf"}
  /\ Goes("free")
  /\ UNCHANGED <<files, c, row, rval, content_len, tries, coming, eof>>

\* A chunk's size row has come.
Begun == \E i \in DOMAIN (sbuf \o wire) : (sbuf \o wire)[i].k = "size"

\* It ends the daemon: an ASSERT() misses the pid or a header row in a chunk, or
\* the connection ends inside the chunk, whose freed size row is then used and
\* freed again.  What exactly leads to that is the module Client's.
Dies ==
  /\ pc = "serve" /\ Begun
  /\ coming' = <<>> /\ wire' = <<>> /\ eof' = TRUE
  /\ sbuf' = <<>> /\ held' = {}
  /\ Goes("none")
  /\ UNCHANGED <<files, c, row, rval, content_len, tries>>

\* It has read all there is, or got no data for a chunk, as for the last one.
Serve      == eof /\ (Returned \/ Dies)
ServeStops == ~eof /\ (Returned \/ Dies)

\* Mutant of FreeSocket: the goto of a refused Authorization() leaves it out.
FreeSocketServed ==
  /\ pc = "free"
  /\ held' = (IF rval = 1 THEN held \ {"buf"} ELSE held) /\ sbuf' = <<>>
  /\ Goes("shutdown")
  /\ UNCHANGED <<files, c, row, rval, content_len, tries, conn>>

FreeSocket ==
  /\ pc = "free"
  /\ held' = held \ {"buf"} /\ sbuf' = <<>>
  /\ Goes("shutdown")
  /\ UNCHANGED <<files, c, row, rval, content_len, tries, conn>>

-----------------------------------------------------------------------------
Connection == OpenSocket \/ ConnectFails \/ Connects
Wrap == NewCtx \/ NewSsl \/ Handshake
Authorization == Ask \/ ReadsHeader \/ HeaderCut \/ TakesRow \/ ReadsBody \/ TakesBody
Cleanup == FreeSocket \/ Shutdown \/ Release \/ CloseConnection

Main == Connection \/ Wrap \/ InitSocket \/ Authorization \/ Serve \/ Cleanup

Next == ForkFirst \/ ForkSecond \/ WritePid \/ Main \/ PeerLetsGo \/ ServeStops \/ ServerSends
          \/ ConnectionEnds

Spec == Init /\ [][Next]_vars

\* The daemon runs, and the server sends the whole of its answer.
FairSpec == Spec /\ WF_vars(Main) /\ WF_vars(ServerSends)

-----------------------------------------------------------------------------
(* Properties.                                                             *)

\* Each way through main() gives back what it took: when it connects again it
\* holds no TLS object, no buffer and no descriptor of a connection, but for
\* the one that is 0, which CloseConnection() refuses; and while it uses the
\* tunnel all of it is there.  The two static buffers of doReadFromServer(),
\* which it clears without freeing what they hold, are not counted.
NothingHeld ==
  /\ pc = "connect" => held = {} /\ files \subseteq {0}
  /\ pc \in {"init", "request", "header", "body", "serve", "free", "shutdown"} =>
       {"ctx", "ssl"} \subseteq held /\ c \in files
  /\ pc \in {"request", "body"} => "buf" \in held

\* doReadFromServer() begins with the first byte of the first chunk, however
\* much of the stream the reads for the header's rows have brought.
ChunksFromStart ==
  (pc = "serve" /\ RoleOf(g_id).name = "Connect" /\ "buf" \in held) =>
    /\ sbuf \o wire = Prefix(Stream, Len(sbuf \o wire))
    /\ ~eof => sbuf \o wire \o coming = Stream

\* A tunnel is served only to a daemon whose id is a number: the answer of a
\* program that became Connect() for it, or, with a number behind a slash, of a
\* Respond() for somebody's request.
ServedIsAuthorised ==
  pc = "serve" => \/ RoleOf(g_id) = [name |-> "Connect", id |-> Head(g_id), pid |-> "none"]
                  \/ RoleOf(g_id).name = "Respond" /\ "/" \in {g_id[i] : i \in DOMAIN g_id}

\* A daemon whose connection is lost, wherever it is then, connects again, unless
\* a chunk of the tunnel has reached it: reading that may be its end.
Lost == pc \notin {"start", "forked", "none", "socket"} /\ eof
Reconnects ==
  /\ (Lost /\ ~Begun) ~> pc = "connect"
  /\ Lost ~> pc \in {"connect", "none"}

\* Authorization() comes to an end with each answer: it waits for nothing that
\* the server does not send.
AnswerEnds == pc = "request" ~> pc \in {"serve", "free"}
=============================================================================
