--------------------------------- MODULE Cgi ---------------------------------
(***************************************************************************)
(* The server half of piercloud: the CGI program piercloud-cgi.c.          *)
(*                                                                         *)
(* The HTTP server runs one process of it per request, in one of three     *)
(* roles that share nothing but files under /tmp/piercloud:                *)
(*   Pier     a browser asks for <id>.piercloud.com: send the request down *)
(*            the FIFO <id>, wait for the answer on the FIFO <id>.0/<pid>; *)
(*   Connect  the client daemon's long GET /<id>: copy whatever appears on *)
(*            the FIFO <id> to its own HTTP response, and ping when idle;  *)
(*   Respond  the client's PUT /<id>/<pid>: copy the body to the FIFO      *)
(*            <id>.0/<pid>.                                                *)
(* The lock file <id>.lock (lockf) is meant to let one Pier at a time use  *)
(* the request FIFO.  The module is about one <id>: every path holds it.   *)
(*                                                                         *)
(* A request is the tokens 1..ReqLen (1 is the header block with the pid,  *)
(* the others are body blocks), an answer the tokens 1..RspLen; a token is *)
(* one Write of at most PIPE_BUF bytes, which the kernel makes atomic.     *)
(* Of the client daemon, the module has what decides which child answers   *)
(* whom: how far getConnectionRequest (piercloud.c) is in a request, and   *)
(* that it takes whatever comes next for the bytes it waits for.  Where    *)
(* that is not what it waited for, what it makes of the bytes depends on   *)
(* the bytes: it may then fork a child for any pid (ClientStrays).         *)
(* FIFO semantics are Linux's (fifo(7)): a blocked open counts as an open  *)
(* end, the arrival of a partner ends the blocked opens of the other side, *)
(* and what is buffered is discarded when the last end is closed.          *)
(* A Write to a FIFO without reader is retried (liblst.c Write, EPIPE), so *)
(* it waits; where SIGPIPE is not ignored the process is killed instead,   *)
(* which is one of the deaths of PierDies and RespondDies.                 *)
(***************************************************************************)
EXTENDS Naturals, Sequences, FiniteSets

CONSTANTS
  Reqs,       \* browser requests; each is served by one Pier process
  Pids,       \* process ids; one may be reused once its process is gone
  Conns,      \* slots for Connect processes
  ReqLen,     \* tokens of a request
  RspLen,     \* tokens of an answer
  PipeCap,    \* tokens a FIFO buffers before a Write blocks
  MaxDeaths,  \* bound: Pier, Respond or client-child processes that may die
  MaxLeaves,  \* bound: times the client may lose its tunnel connection
  None,       \* no process, no pid, no FIFO, no token
  Stray       \* the client has lost its place in the stream

Tok(r, i) == [req |-> r, i |-> i]
ReqToken  == [req : Reqs, i : 1..ReqLen]
RspToken  == [req : Reqs, i : 1..RspLen]

ASSUME ConstantsAssumption ==
  /\ ReqLen \in Nat \ {0}
  /\ RspLen \in Nat
  /\ PipeCap \in Nat \ {0}
  /\ MaxDeaths \in Nat
  /\ MaxLeaves \in Nat
  /\ None \notin Reqs \cup Pids \cup ReqToken
  /\ Stray \notin ReqToken \cup {None}

VARIABLES
  files,      \* which of <id>.lock ("lock") and <id> ("fifo") exist
  owner,      \* the request whose Pier holds the lockf lock
  ppc,        \* control state of each request's Pier process
  pid,        \* process id of each request's Pier
  sent,       \* request tokens the Pier has written
  out,        \* what the Pier copied to its browser
  reqBuf,     \* bytes buffered in the request FIFO
  cpc,        \* control state of each Connect process
  up,         \* whether the client still reads that Connect's response
  sawWriter,  \* Connects whose current descriptor has seen a writer
  stream,     \* what each Connect has copied to its response
  place,      \* tokens of its current Connect's response the client has taken
  due,        \* the body token the client waits for; None: a request's header
  fifo,       \* path <id>.0/<pid> -> inode, named by the request that made it
  rpc,        \* control state of the client child and Respond of a request
  rino,       \* inode each Respond has open
  rsent,      \* answer tokens the Respond has written
  to,         \* the pid the client gave the child of a request
  rspBuf,     \* bytes buffered in each answer FIFO inode
  dropped,    \* history: request tokens the kernel discarded unread
  deaths,     \* processes that died
  leaves      \* tunnel connections the client lost

pierVars == <<owner, ppc, pid, sent, out>>
connVars == <<cpc, up, sawWriter, stream, place, due, leaves>>
rspVars  == <<rpc, rino, rsent, to>>
vars == <<files, owner, ppc, pid, sent, out, reqBuf, cpc, up, sawWriter, stream,
          place, due, fifo, rpc, rino, rsent, to, rspBuf, dropped, deaths, leaves>>

PierStates == {"idle", "openLock", "lockWait", "openReq", "blocked", "write",
               "openRsp", "waitRsp", "read", "closeRsp", "unlock", "unlink",
               "done", "refused", "dead"}
ConnStates == {"off", "mkfifo", "open", "select", "read", "close"}
RspStates  == {"none", "child", "opening", "write", "done", "aborted", "dead"}

Elems(s) == {s[k] : k \in DOMAIN s}

TypeOK ==
  /\ files \in SUBSET {"lock", "fifo"}
  /\ owner \in Reqs \cup {None}
  /\ ppc \in [Reqs -> PierStates]
  /\ pid \in [Reqs -> Pids \cup {None}]
  /\ sent \in [Reqs -> 0..ReqLen]
  /\ out \in [Reqs -> Seq(RspToken)]
  /\ reqBuf \in Seq(ReqToken)
  /\ cpc \in [Conns -> ConnStates]
  /\ up \in [Conns -> BOOLEAN]
  /\ sawWriter \in SUBSET Conns
  /\ stream \in [Conns -> Seq(ReqToken)]
  /\ place \in Nat
  /\ due \in ReqToken \cup {None, Stray}
  /\ fifo \in [Pids -> Reqs \cup {None}]
  /\ rpc \in [Reqs -> RspStates]
  /\ rino \in [Reqs -> Reqs \cup {None}]
  /\ rsent \in [Reqs -> 0..RspLen]
  /\ to \in [Reqs -> Pids \cup {None}]
  /\ rspBuf \in [Reqs -> Seq(RspToken)]
  /\ dropped \in SUBSET ReqToken
  /\ deaths \in 0..MaxDeaths
  /\ leaves \in 0..MaxLeaves

Init ==
  /\ files = {}
  /\ owner = None
  /\ ppc = [r \in Reqs |-> "idle"]
  /\ pid = [r \in Reqs |-> None]
  /\ sent = [r \in Reqs |-> 0]
  /\ out = [r \in Reqs |-> <<>>]
  /\ reqBuf = <<>>
  /\ cpc = [c \in Conns |-> "off"]
  /\ up = [c \in Conns |-> FALSE]
  /\ sawWriter = {}
  /\ stream = [c \in Conns |-> <<>>]
  /\ place = 0
  /\ due = None
  /\ fifo = [p \in Pids |-> None]
  /\ rpc = [r \in Reqs |-> "none"]
  /\ rino = [r \in Reqs |-> None]
  /\ rsent = [r \in Reqs |-> 0]
  /\ to = [r \in Reqs |-> None]
  /\ rspBuf = [r \in Reqs |-> <<>>]
  /\ dropped = {}
  /\ deaths = 0
  /\ leaves = 0

-----------------------------------------------------------------------------
(* Which processes have which end of a FIFO open follows from the control  *)
(* states: the descriptors are opened and closed at fixed lines.           *)

PierAlive(r) == ppc[r] \notin {"idle", "done", "refused", "dead"}

\* Piers between lockf(F_LOCK) and lockf(F_ULOCK).
Locked == {"openReq", "blocked", "write", "openRsp", "waitRsp", "read", "closeRsp", "unlock"}

ReqWriters == {r \in Reqs : ppc[r] \in {"blocked", "write"}}
ReqReaders == {c \in Conns : cpc[c] \in {"select", "read", "close"}}

RspReaders(n) == {r \in Reqs : /\ ppc[r] \in {"waitRsp", "read", "closeRsp"}
                               /\ fifo[pid[r]] = n}
RspWriters(n) == {r \in Reqs : rpc[r] \in {"opening", "write"} /\ rino[r] = n}

\* The kernel frees a FIFO's buffer when its last end is closed.
SettleReq ==
  IF ReqWriters' = {} /\ ReqReaders' = {}
  THEN reqBuf' = <<>> /\ dropped' = dropped \cup Elems(reqBuf)
  ELSE UNCHANGED <<reqBuf, dropped>>

SettleRsp ==
  rspBuf' = [n \in Reqs |-> IF RspWriters(n)' = {} /\ RspReaders(n)' = {}
                            THEN <<>> ELSE rspBuf[n]]

-----------------------------------------------------------------------------
(* Pier: one action per system call that another process can observe.      *)

\* Pier() up to the lock: mkdir <id>.0 and MkFifo(<id>.0/<pid>), where a FIFO
\* left behind by an earlier process with the same pid is used again (EEXIST).
PierStarts(r, p) ==
  /\ ppc[r] = "idle"
  /\ \A q \in Reqs : PierAlive(q) => pid[q] # p
  /\ ppc' = [ppc EXCEPT ![r] = "openLock"]
  /\ pid' = [pid EXCEPT ![r] = p]
  /\ fifo' = [fifo EXCEPT ![p] = IF @ = None THEN r ELSE @]
  /\ UNCHANGED <<files, owner, sent, out, reqBuf, connVars, rspVars, rspBuf, dropped, deaths>>

\* Status 434: gcClean() frees the name of the answer FIFO before unlink() is
\* given it, so the FIFO may be unlinked or stay.  Leaving releases the lock.
Refuse(r) ==
  /\ ppc' = [ppc EXCEPT ![r] = "refused"]
  /\ owner' = IF owner = r THEN None ELSE owner
  /\ \/ fifo' = [fifo EXCEPT ![pid[r]] = None]
     \/ fifo' = fifo
  /\ UNCHANGED <<files, pid, sent, out, reqBuf, connVars, rspVars, rspBuf, dropped, deaths>>

\* Mutant of OpenLock: the lock file is opened and never locked.
OpenLockNoLockf(r) ==
  /\ ppc[r] = "openLock"
  /\ "lock" \in files
  /\ ppc' = [ppc EXCEPT ![r] = "openReq"]
  /\ UNCHANGED <<files, owner, pid, sent, out, reqBuf, connVars, fifo, rspVars, rspBuf,
                 dropped, deaths>>

\* open(<id>.lock) succeeds once some Connect has created the file.
OpenLock(r) ==
  /\ ppc[r] = "openLock"
  /\ "lock" \in files
  /\ ppc' = [ppc EXCEPT ![r] = "lockWait"]
  /\ UNCHANGED <<files, owner, pid, sent, out, reqBuf, connVars, fifo, rspVars, rspBuf,
                 dropped, deaths>>

NoLockFile(r) == ppc[r] = "openLock" /\ "lock" \notin files /\ Refuse(r)

\* lockf() fails (ENOLCK).
LockFails(r) == ppc[r] = "lockWait" /\ Refuse(r)

\* Mutant of TakeLock: F_TLOCK, its result ignored.
TakeLockNoWait(r) ==
  /\ ppc[r] = "lockWait"
  /\ owner' = IF owner = None THEN r ELSE owner
  /\ ppc' = [ppc EXCEPT ![r] = "openReq"]
  /\ UNCHANGED <<files, pid, sent, out, reqBuf, connVars, fifo, rspVars, rspBuf,
                 dropped, deaths>>

\* lockf(Lfd, F_LOCK) returns once no process holds the lock.
TakeLock(r) ==
  /\ ppc[r] = "lockWait"
  /\ owner = None
  /\ owner' = r
  /\ ppc' = [ppc EXCEPT ![r] = "openReq"]
  /\ UNCHANGED <<files, pid, sent, out, reqBuf, connVars, fifo, rspVars, rspBuf,
                 dropped, deaths>>

\* open(<id>, O_WRONLY): blocks until a Connect has the FIFO open.
OpenReqFifo(r) ==
  /\ ppc[r] = "openReq"
  /\ "fifo" \in files
  /\ ppc' = [ppc EXCEPT ![r] = IF ReqReaders = {} THEN "blocked" ELSE "write"]
  /\ sawWriter' = sawWriter \cup ReqReaders
  /\ UNCHANGED <<files, owner, pid, sent, out, reqBuf, cpc, up, stream, place, due, leaves, fifo,
                 rspVars, rspBuf, dropped, deaths>>

NoReqFifo(r) == ppc[r] = "openReq" /\ "fifo" \notin files /\ Refuse(r)

\* Mutant of WriteReq: a Write that was retried has been done before.
WriteReqTwice(r) ==
  /\ ppc[r] = "write"
  /\ ReqReaders # {}
  /\ Len(reqBuf) < PipeCap
  /\ \E n \in {sent[r], sent[r] + 1} \cap 1..ReqLen :
       sent' = [sent EXCEPT ![r] = n] /\ reqBuf' = Append(reqBuf, Tok(r, n))
  /\ UNCHANGED <<files, owner, ppc, pid, out, connVars, fifo, rspVars, rspBuf, dropped, deaths>>

\* Mutant of WriteReq: one block too many.
WriteReqPastEnd(r) ==
  /\ ppc[r] = "write"
  /\ sent[r] <= ReqLen
  /\ ReqReaders # {}
  /\ Len(reqBuf) < PipeCap
  /\ sent' = [sent EXCEPT ![r] = @ + 1]
  /\ reqBuf' = Append(reqBuf, Tok(r, sent[r] + 1))
  /\ UNCHANGED <<files, owner, ppc, pid, out, connVars, fifo, rspVars, rspBuf, dropped, deaths>>

\* Write(Wfd, ...) of the header, then of each block read from the browser.
WriteReq(r) ==
  /\ ppc[r] = "write"
  /\ sent[r] < ReqLen
  /\ ReqReaders # {}
  /\ Len(reqBuf) < PipeCap
  /\ sent' = [sent EXCEPT ![r] = @ + 1]
  /\ reqBuf' = Append(reqBuf, Tok(r, sent[r] + 1))
  /\ UNCHANGED <<files, owner, ppc, pid, out, connVars, fifo, rspVars, rspBuf, dropped, deaths>>

\* read(0, ...) returned 0: close(Wfd), and on to the answer.
CloseReqFifo(r) ==
  /\ ppc' = [ppc EXCEPT ![r] = "openRsp"]
  /\ UNCHANGED <<files, owner, pid, sent, out, connVars, fifo, rspVars, rspBuf, deaths>>
  /\ SettleReq

\* The browser's body is complete.
BodyEnds(r) == ppc[r] = "write" /\ sent[r] = ReqLen /\ CloseReqFifo(r)

\* The browser hung up before the end of the body it announced: the count of
\* what was read is compared with nothing, and the Pier waits for an answer.
BodyEndsEarly(r) == ppc[r] = "write" /\ sent[r] \in 1..ReqLen - 1 /\ CloseReqFifo(r)

\* open(<id>.0/<pid>, O_RDONLY): blocks until a Respond has it open, and ends
\* the blocked opens of the Responds that came first.
OpenRspFifo(r) ==
  LET n == fifo[pid[r]] IN
  /\ ppc[r] = "openRsp"
  /\ ppc' = [ppc EXCEPT ![r] = IF RspWriters(n) = {} THEN "waitRsp" ELSE "read"]
  /\ rpc' = [q \in Reqs |-> IF rpc[q] = "opening" /\ rino[q] = n THEN "write" ELSE rpc[q]]
  /\ UNCHANGED <<files, owner, pid, sent, out, reqBuf, connVars, fifo, rino, rsent, to, rspBuf,
                 dropped, deaths>>

\* read(Rfd) gives a block, which is copied to the browser.
ReadRsp(r) ==
  LET n == fifo[pid[r]] IN
  /\ ppc[r] = "read"
  /\ rspBuf[n] # <<>>
  /\ out' = [out EXCEPT ![r] = Append(@, Head(rspBuf[n]))]
  /\ rspBuf' = [rspBuf EXCEPT ![n] = Tail(@)]
  /\ UNCHANGED <<files, owner, ppc, pid, sent, reqBuf, connVars, fifo, rspVars, dropped, deaths>>

\* Mutant of EndOfRsp: a read that finds nothing yet ends the answer.
EndOfRspEmpty(r) ==
  /\ ppc[r] = "read"
  /\ rspBuf[fifo[pid[r]]] = <<>>
  /\ ppc' = [ppc EXCEPT ![r] = "closeRsp"]
  /\ UNCHANGED <<files, owner, pid, sent, out, reqBuf, connVars, fifo, rspVars, rspBuf,
                 dropped, deaths>>

\* read(Rfd) returns 0: nothing buffered and no writer.
EndOfRsp(r) ==
  /\ ppc[r] = "read"
  /\ rspBuf[fifo[pid[r]]] = <<>>
  /\ RspWriters(fifo[pid[r]]) = {}
  /\ ppc' = [ppc EXCEPT ![r] = "closeRsp"]
  /\ UNCHANGED <<files, owner, pid, sent, out, reqBuf, connVars, fifo, rspVars, rspBuf,
                 dropped, deaths>>

CloseRspFifo(r) ==
  /\ ppc[r] = "closeRsp"
  /\ ppc' = [ppc EXCEPT ![r] = "unlock"]
  /\ UNCHANGED <<files, owner, pid, sent, out, reqBuf, connVars, fifo, rspVars, dropped, deaths>>
  /\ SettleRsp

\* lockf(Lfd, F_ULOCK); close(Lfd).
Unlock(r) ==
  /\ ppc[r] = "unlock"
  /\ ppc' = [ppc EXCEPT ![r] = "unlink"]
  /\ owner' = None
  /\ UNCHANGED <<files, pid, sent, out, reqBuf, connVars, fifo, rspVars, rspBuf, dropped, deaths>>

\* Mutant of UnlinkRspFifo: nothing is unlinked.
UnlinkNothing(r) ==
  /\ ppc[r] = "unlink"
  /\ ppc' = [ppc EXCEPT ![r] = "done"]
  /\ UNCHANGED <<files, owner, pid, sent, out, reqBuf, connVars, fifo, rspVars, rspBuf,
                 dropped, deaths>>

\* unlink(<id>.0/<pid>): a Respond still in open() keeps the inode, nameless.
UnlinkRspFifo(r) ==
  /\ ppc[r] = "unlink"
  /\ ppc' = [ppc EXCEPT ![r] = "done"]
  /\ fifo' = [fifo EXCEPT ![pid[r]] = None]
  /\ UNCHANGED <<files, owner, pid, sent, out, reqBuf, connVars, rspVars, rspBuf, dropped, deaths>>

\* The HTTP server kills the process (the browser hung up, its own timeout,
\* "make deploy"), SIGPIPE does, or an ASSERT ends it: the kernel closes its
\* descriptors and releases its lock; nothing unlinks its answer FIFO.
PierDies(r) ==
  /\ PierAlive(r)
  /\ deaths < MaxDeaths
  /\ deaths' = deaths + 1
  /\ ppc' = [ppc EXCEPT ![r] = "dead"]
  /\ owner' = IF owner = r THEN None ELSE owner
  /\ UNCHANGED <<files, pid, sent, out, connVars, fifo, rspVars>>
  /\ SettleReq
  /\ SettleRsp

-----------------------------------------------------------------------------
(* Connect: the client's tunnel.                                           *)

\* The client (one process, one tunnel connection at a time) sends GET /<id>;
\* Connect() creates the lock file, or truncates the one that is there.
ConnectStarts(c) ==
  /\ cpc[c] = "off"
  /\ \A d \in Conns : ~up[d]
  /\ cpc' = [cpc EXCEPT ![c] = "mkfifo"]
  /\ up' = [up EXCEPT ![c] = TRUE]
  /\ stream' = [stream EXCEPT ![c] = <<>>]
  /\ place' = 0
  /\ files' = files \cup {"lock"}
  /\ UNCHANGED <<pierVars, reqBuf, sawWriter, due, leaves, fifo, rspVars, rspBuf, dropped, deaths>>

\* MkFifo(<id>) (EEXIST is success) and the status line.
MakeReqFifo(c) ==
  /\ cpc[c] = "mkfifo"
  /\ cpc' = [cpc EXCEPT ![c] = "open"]
  /\ files' = files \cup {"fifo"}
  /\ UNCHANGED <<pierVars, reqBuf, up, sawWriter, stream, place, due, leaves, fifo, rspVars, rspBuf,
                 dropped, deaths>>

\* open(<id>, O_RDONLY | O_NONBLOCK): ends the blocked open of a Pier.
OpenTunnel(c) ==
  /\ cpc[c] = "open"
  /\ cpc' = [cpc EXCEPT ![c] = "select"]
  /\ sawWriter' = IF ReqWriters # {} THEN sawWriter \cup {c} ELSE sawWriter \ {c}
  /\ ppc' = [r \in Reqs |-> IF ppc[r] = "blocked" THEN "write" ELSE ppc[r]]
  /\ UNCHANGED <<files, owner, pid, sent, out, reqBuf, up, stream, place, due, leaves, fifo, rspVars, rspBuf,
                 dropped, deaths>>

\* select() says readable: data, or every writer this descriptor saw is gone.
Readable(c) == reqBuf # <<>> \/ (c \in sawWriter /\ ReqWriters = {})

SelectReady(c) ==
  /\ cpc[c] = "select"
  /\ Readable(c)
  /\ cpc' = [cpc EXCEPT ![c] = "read"]
  /\ UNCHANGED <<files, pierVars, reqBuf, up, sawWriter, stream, place, due, leaves, fifo, rspVars, rspBuf,
                 dropped, deaths>>

\* SEC_TO_PING passed: the ping is written, close(Rfd) comes next.
SelectTimeout(c) ==
  /\ cpc[c] = "select"
  /\ ~Readable(c)
  /\ cpc' = [cpc EXCEPT ![c] = "close"]
  /\ UNCHANGED <<files, pierVars, reqBuf, up, sawWriter, stream, place, due, leaves, fifo, rspVars, rspBuf,
                 dropped, deaths>>

\* read(Rfd) gives a block, which is copied to the client.
ReadReq(c) ==
  /\ cpc[c] = "read"
  /\ reqBuf # <<>>
  /\ stream' = [stream EXCEPT ![c] = Append(@, Head(reqBuf))]
  /\ reqBuf' = Tail(reqBuf)
  /\ UNCHANGED <<files, pierVars, cpc, up, sawWriter, place, due, leaves, fifo, rspVars, rspBuf,
                 dropped, deaths>>

\* Mutant of EndOfReq: EAGAIN ends the loop too.
EndOfReqAgain(c) ==
  /\ cpc[c] = "read"
  /\ reqBuf = <<>>
  /\ cpc' = [cpc EXCEPT ![c] = "close"]
  /\ UNCHANGED <<files, pierVars, reqBuf, up, sawWriter, stream, place, due, leaves, fifo, rspVars, rspBuf,
                 dropped, deaths>>

\* read(Rfd) returns 0; with a writer still there it is EAGAIN and the loop spins.
EndOfReq(c) ==
  /\ cpc[c] = "read"
  /\ reqBuf = <<>>
  /\ ReqWriters = {}
  /\ cpc' = [cpc EXCEPT ![c] = "close"]
  /\ UNCHANGED <<files, pierVars, reqBuf, up, sawWriter, stream, place, due, leaves, fifo, rspVars, rspBuf,
                 dropped, deaths>>

\* close(Rfd), then round the loop to open it again.
CloseTunnel(c) ==
  /\ cpc[c] = "close"
  /\ cpc' = [cpc EXCEPT ![c] = "open"]
  /\ UNCHANGED <<files, pierVars, up, sawWriter, stream, place, due, leaves, fifo, rspVars, rspBuf, deaths>>
  /\ SettleReq

\* The client's end of the tunnel is gone (network, crash, restart); Connect
\* does not notice until it writes, and goes on reading the FIFO till then.
\* A client that only lost its connection still waits for the rest of a body
\* (in_data, pid and content_len are static), and takes what comes for it.
ClientLeaves(c) ==
  /\ up[c]
  /\ leaves < MaxLeaves
  /\ leaves' = leaves + 1
  /\ up' = [up EXCEPT ![c] = FALSE]
  /\ due' \in IF due = None THEN {None} ELSE {None, Stray}
  /\ UNCHANGED <<files, pierVars, reqBuf, cpc, sawWriter, stream, place, fifo, rspVars, rspBuf,
                 dropped, deaths>>

\* Mutant of ConnectDies: the unlink()s of the FIFO and the lock file are reached.
ConnectDiesTidily(c) ==
  /\ cpc[c] # "off"
  /\ ~up[c]
  /\ cpc' = [cpc EXCEPT ![c] = "off"]
  /\ files' = {}
  /\ UNCHANGED <<pierVars, up, sawWriter, stream, place, due, leaves, fifo, rspVars, rspBuf, deaths>>
  /\ SettleReq

\* Connect ends (ASSERT(errno) after Write, SIGPIPE, killed): the unlink()s
\* that follow its endless loop are never reached.
ConnectDies(c) ==
  /\ cpc[c] # "off"
  /\ ~up[c]
  /\ cpc' = [cpc EXCEPT ![c] = "off"]
  /\ UNCHANGED <<files, pierVars, up, sawWriter, stream, place, due, leaves, fifo, rspVars, rspBuf, deaths>>
  /\ SettleReq

-----------------------------------------------------------------------------
(* The client's child for a request, and the Respond process it causes.    *)

\* getConnectionRequest returned pid p: a child is forked, with the bytes of r
\* in its request.  Bound: one child per request; a client that has lost its
\* place could fork more of one.
Forks(r, p) ==
  IF rpc[r] = "none"
  THEN rpc' = [rpc EXCEPT ![r] = "child"] /\ to' = [to EXCEPT ![r] = p]
  ELSE UNCHANGED <<rpc, to>>

\* Mutant of NextDue: in_data is not reset.
NextDueNoReset(t) == IF t.i < ReqLen THEN Tok(t.req, t.i + 1) ELSE t

\* What follows token t of a request, if its Content-Length is true.
NextDue(t) == IF t.i < ReqLen THEN Tok(t.req, t.i + 1) ELSE None

InStep(t) == t = due \/ (due = None /\ t.i = 1)

\* Mutant of ClientFollows: the child is forked for the header alone.
ClientFollowsHeader(c) ==
  /\ up[c] /\ place < Len(stream[c])
  /\ LET t == stream[c][place + 1] IN
       /\ InStep(t)
       /\ place' = place + 1
       /\ due' = NextDue(t)
       /\ Forks(t.req, pid[t.req])
  /\ UNCHANGED <<files, pierVars, reqBuf, cpc, up, sawWriter, stream, leaves, fifo, rino, rsent,
                 rspBuf, dropped, deaths>>

\* The client takes the token it waits for, and forks a child at the last one
\* of a request, for the pid that its header named.
ClientFollows(c) ==
  /\ up[c] /\ place < Len(stream[c])
  /\ LET t == stream[c][place + 1] IN
       /\ InStep(t)
       /\ place' = place + 1
       /\ due' = NextDue(t)
       /\ IF t.i = ReqLen THEN Forks(t.req, pid[t.req]) ELSE UNCHANGED <<rpc, to>>
  /\ UNCHANGED <<files, pierVars, reqBuf, cpc, up, sawWriter, stream, leaves, fifo, rino, rsent,
                 rspBuf, dropped, deaths>>

\* It takes a header for the body it waits for, or a body for a header: what it
\* has read is no longer cut where requests are.
ClientLosesPlace(c) ==
  /\ up[c] /\ place < Len(stream[c])
  /\ ~InStep(stream[c][place + 1])
  /\ place' = place + 1
  /\ due' = Stray
  /\ UNCHANGED <<files, pierVars, reqBuf, cpc, up, sawWriter, stream, leaves, fifo, rspVars,
                 rspBuf, dropped, deaths>>

\* Out of place it may have a request together, of bytes of r that this
\* connection brought (its buffers begin empty), under any pid: the last
\* header's, which may be a lost connection's, or digits it took for a pid row.
ClientStrays(c, r, p) ==
  /\ up[c] /\ due = Stray
  /\ \E k \in 1..place : stream[c][k].req = r
  /\ rpc[r] = "none"
  /\ Forks(r, p)
  /\ UNCHANGED <<files, pierVars, reqBuf, connVars, fifo, rino, rsent, rspBuf, dropped, deaths>>

\* Mutant of RespondOpens: the child uses the pid of whichever request came last.
RespondOpensAny(r) ==
  \E o \in Reqs : LET n == fifo[to[o]] IN
  /\ rpc[r] = "child"
  /\ rpc[o] # "none"
  /\ n # None
  /\ rino' = [rino EXCEPT ![r] = n]
  /\ rpc' = [rpc EXCEPT ![r] = IF RspReaders(n) = {} THEN "opening" ELSE "write"]
  /\ ppc' = [q \in Reqs |-> IF ppc[q] = "waitRsp" /\ fifo[pid[q]] = n THEN "read" ELSE ppc[q]]
  /\ UNCHANGED <<files, owner, pid, sent, out, reqBuf, connVars, fifo, rsent, to, rspBuf,
                 dropped, deaths>>

\* Mutant of RespondOpens: O_NONBLOCK, so without a Pier reading the open fails.
RespondOpensNoWait(r) ==
  LET n == fifo[to[r]] IN
  /\ rpc[r] = "child"
  /\ n # None
  /\ rino' = [rino EXCEPT ![r] = n]
  /\ rpc' = [rpc EXCEPT ![r] = IF RspReaders(n) = {} THEN "aborted" ELSE "write"]
  /\ ppc' = [q \in Reqs |-> IF ppc[q] = "waitRsp" /\ fifo[pid[q]] = n THEN "read" ELSE ppc[q]]
  /\ UNCHANGED <<files, owner, pid, sent, out, reqBuf, connVars, fifo, rsent, to, rspBuf,
                 dropped, deaths>>

\* PUT /<id>/<pid>: open(<id>.0/<pid>, O_WRONLY) blocks until a Pier has it
\* open; a missing FIFO ends the process by ASSERT.
RespondOpens(r) ==
  LET n == fifo[to[r]] IN
  /\ rpc[r] = "child"
  /\ n # None
  /\ rino' = [rino EXCEPT ![r] = n]
  /\ rpc' = [rpc EXCEPT ![r] = IF RspReaders(n) = {} THEN "opening" ELSE "write"]
  /\ ppc' = [q \in Reqs |-> IF ppc[q] = "waitRsp" /\ fifo[pid[q]] = n THEN "read" ELSE ppc[q]]
  /\ UNCHANGED <<files, owner, pid, sent, out, reqBuf, connVars, fifo, rsent, to, rspBuf,
                 dropped, deaths>>

RespondAborts(r) ==
  /\ rpc[r] = "child"
  /\ fifo[to[r]] = None
  /\ rpc' = [rpc EXCEPT ![r] = "aborted"]
  /\ UNCHANGED <<files, pierVars, reqBuf, connVars, fifo, rino, rsent, to, rspBuf, dropped, deaths>>

WriteRsp(r) ==
  /\ rpc[r] = "write"
  /\ rsent[r] < RspLen
  /\ RspReaders(rino[r]) # {}
  /\ Len(rspBuf[rino[r]]) < PipeCap
  /\ rsent' = [rsent EXCEPT ![r] = @ + 1]
  /\ rspBuf' = [rspBuf EXCEPT ![rino[r]] = Append(@, Tok(r, rsent[r] + 1))]
  /\ UNCHANGED <<files, pierVars, reqBuf, connVars, fifo, rpc, rino, to, dropped, deaths>>

\* Mutant of RespondEnds: Respond removes the FIFO it has written to.
RespondEndsUnlinking(r) ==
  /\ rpc[r] = "write"
  /\ rsent[r] = RspLen
  /\ rpc' = [rpc EXCEPT ![r] = "done"]
  /\ fifo' = [fifo EXCEPT ![to[r]] = None]
  /\ UNCHANGED <<files, pierVars, reqBuf, connVars, rino, rsent, to, dropped, deaths>>
  /\ SettleRsp

\* The body of the PUT has ended: close(Wfd), then 200 OK to the client.
RespondEnds(r) ==
  /\ rpc[r] = "write"
  /\ rsent[r] = RspLen
  /\ rpc' = [rpc EXCEPT ![r] = "done"]
  /\ UNCHANGED <<files, pierVars, reqBuf, connVars, fifo, rino, rsent, to, dropped, deaths>>
  /\ SettleRsp

\* The client child fails before its PUT, or the Respond process is killed.
RespondDies(r) ==
  /\ rpc[r] \in {"child", "opening", "write"}
  /\ deaths < MaxDeaths
  /\ deaths' = deaths + 1
  /\ rpc' = [rpc EXCEPT ![r] = "dead"]
  /\ UNCHANGED <<files, pierVars, reqBuf, connVars, fifo, rino, rsent, to, dropped>>
  /\ SettleRsp

-----------------------------------------------------------------------------
PierStep(r) ==
  \/ NoLockFile(r) \/ OpenLock(r) \/ TakeLock(r)
  \/ NoReqFifo(r) \/ OpenReqFifo(r) \/ WriteReq(r) \/ BodyEnds(r)
  \/ OpenRspFifo(r) \/ ReadRsp(r) \/ EndOfRsp(r) \/ CloseRspFifo(r)
  \/ Unlock(r) \/ UnlinkRspFifo(r)

ConnectStep(c) ==
  \/ MakeReqFifo(c) \/ OpenTunnel(c) \/ SelectReady(c)
  \/ ReadReq(c) \/ EndOfReq(c) \/ CloseTunnel(c)

RespondStep(r) == RespondOpens(r) \/ RespondAborts(r) \/ WriteRsp(r) \/ RespondEnds(r)

Environment ==
  \/ \E r \in Reqs : \/ \E p \in Pids : PierStarts(r, p)
                     \/ LockFails(r) \/ BodyEndsEarly(r) \/ PierDies(r) \/ RespondDies(r)
  \/ \E c \in Conns : ClientLeaves(c) \/ ConnectDies(c)

ClientParses(c) == ClientFollows(c) \/ ClientLosesPlace(c)

Client ==
  \E c \in Conns : \/ ConnectStarts(c) \/ ClientParses(c)
                  \/ \E r \in Reqs, p \in Pids : ClientStrays(c, r, p)

Next ==
  \/ \E r \in Reqs : PierStep(r) \/ RespondStep(r)
  \/ \E c \in Conns : ConnectStep(c) \/ SelectTimeout(c)
  \/ Client
  \/ Environment

Spec == Init /\ [][Next]_vars

\* The operating system runs every process that can run, and the client's
\* main loop reconnects and takes what it receives.  A Write that
\* is retried on EPIPE gets its turn during the 20 seconds a select() may
\* last, although an untimed select() may time out at once every time: that
\* is strong fairness.  Nothing forces browsers to come or to hang up, processes
\* to die, clients to leave, or a select() to time out.
Fairness ==
  /\ \A r \in Reqs : /\ WF_vars(PierStep(r))
                     /\ SF_vars(WriteReq(r))
                     /\ WF_vars(RespondStep(r))
  /\ \A c \in Conns : /\ WF_vars(ConnectStep(c)) /\ WF_vars(ConnectStarts(c))
                      /\ WF_vars(ClientParses(c))

FairSpec == Spec /\ Fairness

-----------------------------------------------------------------------------
(* Properties.                                                             *)

\* The lock file gives one Pier at a time the host: no two Piers are between
\* lockf(F_LOCK) and lockf(F_ULOCK), which are 120 lines apart and have six
\* ways out between them, and only such a Pier has the request FIFO open.
OneExchange ==
  /\ \A r \in Reqs : ppc[r] \in Locked => owner = r
  /\ ReqWriters \subseteq {owner}

\* What the types of the file names rest on.  A live Pier has a pid of its own
\* and its answer FIFO is there; a token in flight has a Pier that sent it, so
\* the pid a client child is given is one; an open Respond has an inode.
FilesInPlace ==
  /\ \A r \in Reqs : PierAlive(r) => pid[r] \in Pids /\ fifo[pid[r]] \in Reqs
  /\ \A q, r \in Reqs : PierAlive(q) /\ PierAlive(r) /\ q # r => pid[q] # pid[r]
  /\ \A t \in Elems(reqBuf) : pid[t.req] \in Pids
  /\ \A c \in Conns : \A t \in Elems(stream[c]) : pid[t.req] \in Pids
  /\ \A r \in Reqs : rpc[r] # "none" => to[r] \in Pids
  /\ \A r \in Reqs : rpc[r] \in {"opening", "write"} => rino[r] \in Reqs

\* In a stream no request is inside another, and the tokens of one are in order.
Serial(s) ==
  \A j, k \in DOMAIN s :
    (j < k /\ s[j].req = s[k].req) =>
      /\ s[j].i < s[k].i
      /\ \A m \in j..k : s[m].req = s[j].req

\* What a client reads on its tunnel, and what it is still to read, is one
\* request after the other, never two mixed, whichever Piers were killed
\* half way and however many Connects read the same FIFO.
RequestsInOrder == \A c \in Conns : Serial(stream[c] \o reqBuf)

\* No token of a request reaches the client twice: not on two tunnels (a
\* reconnected client and the Connect of its former connection read the same
\* FIFO), nor after it was discarded.
DeliveredOnce ==
  /\ \A c \in Conns : Elems(stream[c]) \cap (Elems(reqBuf) \cup dropped) = {}
  /\ Elems(reqBuf) \cap dropped = {}
  /\ \A c, d \in Conns : c # d => Elems(stream[c]) \cap Elems(stream[d]) = {}

Touched(r, S) == \E t \in S : t.req = r

\* While no tunnel connection is lost, the close and reopen of the FIFO in
\* Connect's loop loses a request altogether or not at all: it never leaves
\* the client with the head of a request whose tail was discarded.
AllOrNothing ==
  leaves = 0 =>
    \A r \in Reqs : Touched(r, dropped) =>
      /\ ~Touched(r, Elems(reqBuf))
      /\ \A c \in Conns : ~Touched(r, Elems(stream[c]))

\* A request that was written in part, and no more of it will be.
Torn(r) == sent[r] \in 1..ReqLen - 1 /\ ppc[r] # "write"

\* What can make the client lose its place.
Confused == leaves > 0 \/ \E r \in Reqs : Torn(r)

\* The client, which never compares what it reads with what it waits for, is
\* in step with the Piers until it loses a connection, or a Pier is killed or
\* its browser hangs up between the header and the end of the body.
KeepsPlace == due = Stray => Confused

\* A browser is given what was sent to its Pier's pid, and that is the answer
\* to its own request.  The answer FIFO is named by the pid and outlives a
\* killed Pier, so after such a death it can be the answer to an earlier
\* request that had the same pid; and a client that has lost its place takes
\* one request's bytes for another's, or for a pid.
Isolation ==
  \A r \in Reqs : \A t \in Elems(out[r]) :
    /\ to[t.req] = pid[r]
    /\ \/ t.req = r
       \/ pid[t.req] = pid[r] /\ \E q \in Reqs : ppc[q] = "dead" /\ pid[q] = pid[r]
       \/ Confused

Answer(r) == [i \in 1..RspLen |-> Tok(r, i)]

\* A Pier that ends normally has given its browser the whole answer, each
\* block once and in order, unless the sender of it or some Pier died, or the
\* client may have lost its place.
WholeAnswer ==
  \A r \in Reqs :
    ppc[r] = "done" => \/ out[r] = Answer(r)
                       \/ rpc[r] = "dead"
                       \/ \E q \in Reqs : ppc[q] = "dead"
                       \/ Confused

\* An answer FIFO left in <id>.0 belongs to a Pier that is alive, was killed
\* or refused its request: a completed exchange leaves none.
NoFifoLeft ==
  \A p \in Pids : fifo[p] # None =>
    \E r \in Reqs : pid[r] = p /\ ppc[r] \notin {"idle", "done"}

\* Unless lockf() fails, status 434 is only for a host that never had a request
\* written to its FIFO: from then on no Pier is refused, even when the client
\* has gone (it waits for the client to return).
RefusedOnlyAtFirst ==
  [][(\E r \in Reqs : ppc[r] \in {"openLock", "openReq"} /\ ppc'[r] = "refused") =>
       \A r \in Reqs : sent[r] = 0]_vars

\* Without deaths and lost tunnels every request ends, with its answer or
\* with 434, unless some browser hung up half way through its body, or the
\* kernel discarded a request while Connect had the FIFO closed: its Pier then
\* waits for ever with the lock held.
EndsUnlessDropped ==
  \A r \in Reqs :
    ppc[r] = "openLock" ~> (ppc[r] \in {"done", "refused"} \/ dropped # {} \/ Confused)

-----------------------------------------------------------------------------
(* The abstract service, and how its state is read off this module's.      *)

Phase(r) ==
  CASE ppc[r] = "idle"                     -> "new"
    [] ppc[r] \in {"openLock", "lockWait"} -> "asking"
    [] ppc[r] \in Locked                   -> IF Torn(r) THEN "short" ELSE "turn"
    [] ppc[r] \in {"unlink", "done"}       -> "answered"
    [] ppc[r] = "refused"                  -> "refused"
    [] OTHER                               -> "lost"

Received == {t \in ReqToken : t.i <= sent[t.req]} \ (Elems(reqBuf) \cup dropped)

Service == INSTANCE Tunnel WITH
  phase <- [r \in Reqs |-> Phase(r)], turn <- owner, written <- sent, queue <- reqBuf,
  got <- Received, lost <- dropped, reply <- out, cut <- leaves > 0

\* The processes, the FIFOs and the lock implement the service of Tunnel:
\* requests have their turns one by one, and nobody is given an answer to a
\* request that the client had not received whole, until one was written in
\* part or a connection was lost.
ImplementsTunnel == Service!Spec

=============================================================================
