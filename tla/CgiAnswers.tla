----------------------------- MODULE CgiAnswers ------------------------------
(* Proofs about Cgi: the answers on the FIFOs <id>.0/<pid>, and that Cgi     *)
(* implements Tunnel, for every number of browsers, pids and tokens, and     *)
(* every number of deaths.                                                   *)
EXTENDS CgiRequests

USE ConstantsAssumption

-----------------------------------------------------------------------------
(* The inductive invariant.                                                  *)

\* A pid that no killed Pier had, what such a Pier leaves behind being in no
\* one's way, and a client that did not lose its place.
Clean(r) == ~Confused /\ \A q \in Reqs : ppc[q] = "dead" => pid[q] # pid[r]

\* A Pier behind its last read of the answer.
Ending == {"closeRsp", "unlock", "unlink", "done"}

\* The first n blocks of the answer to r.
Prefix(r, n) == [i \in 1..n |-> Tok(r, i)]

\* The answer token t was sent to pid p.
SentTo(t, p) == rpc[t.req] # "none" /\ to[t.req] = p /\ p \in Pids

\* An answer FIFO, its writers, and what is in it and comes out of it belong
\* to one pid, the one in its name; until a Pier has started it has no pid and
\* no answer, and until it has written of its request no Respond; and this is
\* given the Pier's pid by a client that knows where it is.
PidInPlace ==
  /\ \A r \in Reqs : ppc[r] = "idle" => pid[r] = None /\ out[r] = <<>> /\ rsent[r] = 0
  /\ \A r \in Reqs : rpc[r] # "none" => ppc[r] \notin Unsent
  /\ \A p \in Pids : fifo[p] # None => pid[fifo[p]] = p
  /\ \A q \in Reqs : rpc[q] \in {"opening", "write"} => pid[rino[q]] = to[q]
  /\ \A n \in Reqs : \A t \in Elems(rspBuf[n]) : SentTo(t, pid[n])
  /\ \A r \in Reqs : \A t \in Elems(out[r]) : SentTo(t, pid[r])
  /\ ~Confused => \A r \in Reqs : rpc[r] # "none" => to[r] = pid[r]

\* Unless the client is confused a Respond has the FIFO open that its Pier is to
\* read; a FIFO that nobody has open is empty; a Respond that ended well wrote
\* all of the answer.
EndsMeet ==
  /\ ~Confused => \A r \in Reqs : PierAlive(r) =>
       /\ rpc[r] # "aborted"
       /\ rpc[r] \in {"opening", "write"} => rino[r] = fifo[pid[r]]
  /\ \A n \in Reqs : RspWriters(n) = {} /\ RspReaders(n) = {} => rspBuf[n] = <<>>
  /\ \A r \in Reqs : rpc[r] = "done" => rsent[r] = RspLen

\* A Pier with a clean pid that reads has a Respond; it stops reading when that
\* has ended.
Attended(r) ==
  /\ ppc[r] = "read" => rpc[r] \notin {"none", "child"}
  /\ ppc[r] \in Ending => rpc[r] \in {"done", "dead"}

\* And what it has read, with what its FIFO holds, is what its own Respond wrote.
Copied(r) ==
  /\ ppc[r] \in {"waitRsp", "read"} =>
       out[r] \o rspBuf[fifo[pid[r]]] = Prefix(r, rsent[r])
  /\ ppc[r] \in Ending => out[r] = Prefix(r, rsent[r])
  /\ ppc[r] \notin Ending \cup {"waitRsp", "read"} => out[r] = <<>> /\ rsent[r] = 0
  /\ PierAlive(r) /\ ppc[r] \notin {"waitRsp", "read"} => rspBuf[fifo[pid[r]]] = <<>>

OwnAnswers == \A r \in Reqs : Clean(r) => Attended(r) /\ Copied(r)

AInv == PidInPlace /\ EndsMeet /\ OwnAnswers

\* The elements and prefixes of the next state are those of its variables.
LEMMA PrimedAnswers ==
  /\ \A r \in Reqs : Elems(out[r])' = Elems(out'[r])
  /\ \A n \in Reqs : Elems(rspBuf[n])' = Elems(rspBuf'[n])
  /\ \A r \in Reqs : Prefix(r, rsent[r])' = Prefix(r, rsent'[r])
  BY DEF Elems, Prefix, Tok

-----------------------------------------------------------------------------
(* What the client makes of what it has received.                            *)

\* Children stay with their pids.
ChildrenStay == \A q \in Reqs : /\ rpc'[q] # "none" => rpc[q] # "none"
                                /\ rpc[q] # "none" => rpc'[q] # "none" /\ to'[q] = to[q]

\* A child is forked for q and given pid p: p is the pid of q, and all of q
\* was received, unless the client is confused.
ForkedRightly(q, p) ==
  /\ rpc[q] = "none" /\ p \in Pids
  /\ sent[q] # 0
  /\ \E i \in 1..ReqLen : Tok(q, i) \in Received
  /\ ~Confused => p = pid[q] /\ \A i \in 1..ReqLen : Tok(q, i) \in Received

\* What is on a tunnel was received.
LEMMA OnTunnel ==
  ASSUME TypeOK, Delivery, NEW c \in Conns, NEW k \in 1..Len(stream[c])
  PROVE  /\ stream[c][k] \in Received
         /\ stream[c][k] \in ReqToken
         /\ sent[stream[c][k].req] # 0
<1>. DEFINE t == stream[c][k]
<1>1. stream[c] \in Seq(ReqToken)
  BY DEF TypeOK
<1>2. t \in ReqToken /\ t \in Elems(stream[c])
  BY <1>1 DEF Elems
<1>. HIDE DEF t
<1>3. t.i \in 1..ReqLen /\ t.i <= sent[t.req]
  BY <1>2 DEF ReqToken, Delivery, OnlySent
<1>4. t \in Received
  BY <1>2, <1>3 DEF Delivery, DeliveredOnce, Received
<1>5. sent[t.req] # 0
  BY <1>3
<1>. QED
  BY <1>2, <1>4, <1>5 DEF t

\* A request whose last token is on a tunnel was received whole, unless a tunnel
\* was lost: nothing of it was discarded, and nothing of it is still to come.
LEMMA WholeReceived ==
  ASSUME TypeOK, Delivery, PInv, leaves = 0,
         NEW c \in Conns, NEW k \in 1..Len(stream[c]), stream[c][k].i = ReqLen,
         NEW i \in 1..ReqLen
  PROVE  Tok(stream[c][k].req, i) \in Received
<1>. DEFINE q == stream[c][k].req
            e == Tok(q, i)
            s == stream[c] \o reqBuf
<1>1. /\ stream[c] \in Seq(ReqToken) /\ reqBuf \in Seq(ReqToken)
      /\ stream[c][k] \in ReqToken /\ stream[c][k] \in Elems(stream[c])
  <2>1. stream[c] \in Seq(ReqToken) /\ reqBuf \in Seq(ReqToken)
    BY DEF TypeOK
  <2>. QED
    BY <2>1 DEF Elems
<1>2. q \in Reqs
  BY <1>1 DEF ReqToken
<1>3. e \in ReqToken /\ e.req = q /\ e.i = i
  BY <1>2 DEF Tok, ReqToken
<1>4. e.i <= sent[e.req]
  <2>1. ReqLen <= sent[q]
    BY <1>1 DEF Delivery, OnlySent
  <2>2. sent[q] \in Nat
    BY <1>2 DEF TypeOK
  <2>. QED
    BY <1>3, <2>1, <2>2
<1>5. e \notin dropped
  <2>1. Touched(q, Elems(stream[c]))
    BY <1>1 DEF Touched
  <2>2. ~Touched(q, dropped)
    BY <1>2, <2>1 DEF PInv, AllOrNothing
  <2>. QED
    BY <1>3, <2>2 DEF Touched
<1>6. e \notin Elems(reqBuf)
  <2>. SUFFICES ASSUME NEW m \in DOMAIN reqBuf, reqBuf[m] = e
                PROVE  FALSE
    BY DEF Elems
  <2>. DEFINE n == Len(stream[c]) + m
  <2>1. /\ k \in DOMAIN s /\ n \in DOMAIN s /\ k < n
        /\ s[k] = stream[c][k] /\ s[n] = e
    BY <1>1
  <2>2. Serial(s)
    BY DEF PInv, InOrder
  <2>. HIDE DEF n, s, e
  <2>3. s[k].i < s[n].i
    BY <1>3, <2>1, <2>2 DEF Serial
  <2>. QED
    BY <1>3, <2>1, <2>3
<1>. QED
  BY <1>3, <1>4, <1>5, <1>6 DEF Received

\* What the client does to its children.
LEMMA ClientForks ==
  ASSUME TypeOK, FilesInPlace, Delivery, PInv, NEW c \in Conns, ClientActs(c), NEW q \in Reqs
  PROVE  \/ rpc'[q] = rpc[q] /\ to'[q] = to[q]
         \/ rpc'[q] = "child" /\ ForkedRightly(q, to'[q])
<1>1. CASE ClientLosesPlace(c)
  BY <1>1 DEF ClientLosesPlace, rspVars
<1>2. ASSUME NEW r \in Reqs, NEW p \in Pids, ClientStrays(c, r, p)
      PROVE  \/ rpc'[q] = rpc[q] /\ to'[q] = to[q]
             \/ rpc'[q] = "child" /\ ForkedRightly(q, to'[q])
  <2>1. /\ rpc[r] = "none" /\ rpc' = [rpc EXCEPT ![r] = "child"] /\ to' = [to EXCEPT ![r] = p]
        /\ due = Stray /\ up[c]
    BY <1>2 DEF ClientStrays, Forks
  <2>2. PICK k \in 1..place : stream[c][k].req = r
    BY <1>2 DEF ClientStrays
  <2>3. k \in 1..Len(stream[c])
    <3>1. place <= Len(stream[c]) /\ place \in Nat /\ Len(stream[c]) \in Nat
      BY <2>1 DEF PInv, Inside, TypeOK
    <3>. QED
      BY <3>1
  <2>4. /\ stream[c][k] \in Received /\ stream[c][k] \in ReqToken /\ sent[r] # 0
    BY <2>2, <2>3, OnTunnel
  <2>5. stream[c][k].i \in 1..ReqLen /\ stream[c][k] = Tok(r, stream[c][k].i)
    BY <2>2, <2>4 DEF ReqToken, Tok
  <2>6. Confused
    BY <2>1, KeepsPlaceHere DEF KeepsPlace
  <2>7. ForkedRightly(r, p)
    BY <2>1, <2>4, <2>5, <2>6 DEF ForkedRightly
  <2>8. CASE q = r
    BY <2>1, <2>7, <2>8 DEF TypeOK
  <2>9. CASE q # r
    BY <2>1, <2>9 DEF TypeOK
  <2>. QED
    BY <2>8, <2>9
<1>3. CASE ClientFollows(c)
  <2>. DEFINE k == place + 1
              t == stream[c][k]
  <2>1. /\ k \in 1..Len(stream[c])
        /\ IF t.i = ReqLen THEN Forks(t.req, pid[t.req]) ELSE UNCHANGED <<rpc, to>>
    <3>1. place \in Nat /\ Len(stream[c]) \in Nat
      BY DEF TypeOK
    <3>. QED
      BY <1>3, <3>1 DEF ClientFollows
  <2>2. t \in Received /\ t \in ReqToken /\ sent[t.req] # 0
    BY <2>1, OnTunnel
  <2>3. t.req \in Reqs /\ pid[t.req] \in Pids /\ t = Tok(t.req, t.i) /\ t.i \in 1..ReqLen
    <3>1. t \in Elems(stream[c])
      BY <2>1 DEF TypeOK, Elems
    <3>. QED
      BY <2>2, <3>1 DEF FilesInPlace, ReqToken, Tok
  <2>4. ASSUME t.i = ReqLen, ~Confused, NEW i \in 1..ReqLen
        PROVE  Tok(t.req, i) \in Received
    <3>1. leaves = 0
      BY <2>4 DEF Confused, TypeOK
    <3>. QED
      BY <2>1, <2>4, <3>1, WholeReceived
  <2>. HIDE DEF t, k
  <2>5. CASE t.i = ReqLen /\ rpc[t.req] = "none"
    <3>1. rpc' = [rpc EXCEPT ![t.req] = "child"] /\ to' = [to EXCEPT ![t.req] = pid[t.req]]
      BY <2>1, <2>5 DEF Forks
    <3>2. ForkedRightly(t.req, pid[t.req])
      BY <2>2, <2>3, <2>4, <2>5 DEF ForkedRightly
    <3>3. CASE q = t.req
      BY <3>1, <3>2, <3>3 DEF TypeOK
    <3>4. CASE q # t.req
      BY <3>1, <3>4 DEF TypeOK
    <3>. QED
      BY <3>3, <3>4
  <2>6. CASE ~(t.i = ReqLen /\ rpc[t.req] = "none")
    BY <2>1, <2>6 DEF Forks
  <2>. QED
    BY <2>5, <2>6
<1>. QED
  BY <1>1, <1>2, <1>3 DEF ClientActs, ClientParses

-----------------------------------------------------------------------------
(* What a step does to the answers.                                          *)

\* Before the Pier opens its answer FIFO.
Before == {"openLock", "lockWait", "openReq", "blocked", "write", "openRsp"}

\* A step on the request's way only, which ends when some of it is written.
Elsewhere ==
  /\ UNCHANGED <<pid, out, fifo, rspVars, rspBuf>>
  /\ \A r \in Reqs : \/ ppc'[r] = ppc[r]
                     \/ /\ ppc[r] \in Before /\ ppc'[r] \in Before
                        /\ ppc'[r] \in Unsent => ppc[r] \in Unsent
                        /\ ppc'[r] = "openRsp" => ppc[r] = "openRsp" \/ sent[r] # 0

\* A Pier is given status 434 or fails in lockf().
Refuses(r) == ppc[r] \in {"openLock", "lockWait", "openReq"} /\ Refuse(r)

\* A step leaves the answers alone or is one of the steps that start or refuse a
\* Pier, move it through its FIFO's life, or are a Respond's.
LEMMA AnswerSide ==
  ASSUME TypeOK, [Next]_vars
  PROVE  \/ Elsewhere
         \/ \E r \in Reqs : (\E p \in Pids : PierStarts(r, p)) \/ Refuses(r)
         \/ \E r \in Reqs : OpenRspFifo(r) \/ ReadRsp(r) \/ EndOfRsp(r)
         \/ \E r \in Reqs : CloseRspFifo(r) \/ Unlock(r) \/ UnlinkRspFifo(r) \/ PierDies(r)
         \/ \E c \in Conns : ClientActs(c)
         \/ \E r \in Reqs : RespondOpens(r) \/ RespondAborts(r)
         \/ \E r \in Reqs : WriteRsp(r) \/ RespondEnds(r) \/ RespondDies(r)
<1>. USE DEF Elsewhere, Before, Unsent, TypeOK, pierVars, connVars, rspVars
<1>1. ASSUME NEW r \in Reqs, NoLockFile(r) \/ LockFails(r) \/ NoReqFifo(r)
      PROVE  Refuses(r)
  BY <1>1 DEF NoLockFile, LockFails, NoReqFifo, Refuses
<1>2. ASSUME NEW r \in Reqs, OpenLock(r) \/ TakeLock(r)
      PROVE  Elsewhere
  BY <1>2 DEF OpenLock, TakeLock
<1>3. ASSUME NEW r \in Reqs, OpenReqFifo(r) \/ WriteReq(r)
      PROVE  Elsewhere
  BY <1>3 DEF OpenReqFifo, WriteReq
<1>4. ASSUME NEW r \in Reqs, BodyEnds(r) \/ BodyEndsEarly(r)
      PROVE  Elsewhere
  <2>1. ppc[r] = "write" /\ sent[r] # 0 /\ CloseReqFifo(r)
    BY <1>4 DEF BodyEnds, BodyEndsEarly
  <2>. QED
    BY <2>1 DEF CloseReqFifo
<1>5. ASSUME NEW c \in Conns, ConnectStarts(c) \/ MakeReqFifo(c) \/ OpenTunnel(c)
      PROVE  Elsewhere
  BY <1>5 DEF ConnectStarts, MakeReqFifo, OpenTunnel
<1>6. ASSUME NEW c \in Conns, SelectReady(c) \/ SelectTimeout(c) \/ ReadReq(c)
      PROVE  Elsewhere
  BY <1>6 DEF SelectReady, SelectTimeout, ReadReq
<1>7. ASSUME NEW c \in Conns, EndOfReq(c) \/ CloseTunnel(c)
      PROVE  Elsewhere
  BY <1>7 DEF EndOfReq, CloseTunnel
<1>8. ASSUME NEW c \in Conns, ClientLeaves(c) \/ ConnectDies(c)
      PROVE  Elsewhere
  BY <1>8 DEF ClientLeaves, ConnectDies
<1>9. ASSUME UNCHANGED vars
      PROVE  Elsewhere
  BY <1>9 DEF vars
<1>. QED
  BY <1>1, <1>2, <1>3, <1>5, <1>6, <1>7, <1>8, <1>9, <1>4
     DEF Next, PierStep, ConnectStep, RespondStep, Environment, Client, ClientActs

\* The kernel keeps a buffer or frees it, and keeps that of an open FIFO.
LEMMA SettleKeeps ==
  ASSUME SettleRsp, NEW n \in Reqs
  PROVE  /\ rspBuf'[n] = rspBuf[n] \/ rspBuf'[n] = <<>>
         /\ RspWriters(n)' # {} \/ RspReaders(n)' # {} => rspBuf'[n] = rspBuf[n]
         /\ RspWriters(n)' = {} /\ RspReaders(n)' = {} => rspBuf'[n] = <<>>
  BY DEF SettleRsp, RspWriters, RspReaders

-----------------------------------------------------------------------------
(* Pids.                                                                     *)

\* No step brings a token, an inode or a Respond under another pid.
LEMMA PidStep == IInv /\ Delivery /\ PInv /\ PidInPlace /\ [Next]_vars => PidInPlace'
<1>. SUFFICES ASSUME IInv, TypeOK, FilesInPlace, Delivery, PInv, PidInPlace, [Next]_vars
              PROVE  PidInPlace'
  BY DEF IInv
<1>. DEFINE
       P1 == \A r \in Reqs : ppc'[r] = "idle" => pid'[r] = None /\ out'[r] = <<>> /\ rsent'[r] = 0
       P2 == \A r \in Reqs : rpc'[r] # "none" => ppc'[r] \notin Unsent
       P3 == \A p \in Pids : fifo'[p] # None => pid'[fifo'[p]] = p
       P4 == \A q \in Reqs : rpc'[q] \in {"opening", "write"} => pid'[rino'[q]] = to'[q]
       Goes(t, p) == rpc'[t.req] # "none" /\ to'[t.req] = p /\ p \in Pids
       P5 == \A n \in Reqs : \A t \in Elems(rspBuf'[n]) : Goes(t, pid'[n])
       P6 == \A r \in Reqs : \A t \in Elems(out'[r]) : Goes(t, pid'[r])
       P7 == ~Confused' => \A r \in Reqs : rpc'[r] # "none" => to'[r] = pid'[r]
       Sent(t, p) == rpc[t.req] # "none" /\ to[t.req] = p /\ p \in Pids
<1>1. SUFFICES P1 /\ P2 /\ P3 /\ P4 /\ P5 /\ P6 /\ P7
  BY PrimedAnswers DEF PidInPlace, SentTo
<1>2. /\ \A r \in Reqs : ppc[r] = "idle" => pid[r] = None /\ out[r] = <<>> /\ rsent[r] = 0
      /\ \A r \in Reqs : rpc[r] # "none" => ppc[r] \notin Unsent
      /\ \A p \in Pids : fifo[p] # None => pid[fifo[p]] = p
      /\ \A q \in Reqs : rpc[q] \in {"opening", "write"} => pid[rino[q]] = to[q]
      /\ \A n \in Reqs : \A t \in Elems(rspBuf[n]) : Sent(t, pid[n])
      /\ \A r \in Reqs : \A t \in Elems(out[r]) : Sent(t, pid[r])
      /\ ~Confused' => \A r \in Reqs : rpc[r] # "none" => to[r] = pid[r]
  <2>1. ~Confused' => ~Confused
    BY TypeStep, ConfusedStays
  <2>. QED
    BY <2>1 DEF PidInPlace, SentTo
<1>3. /\ \A r \in Reqs : PierAlive(r) => pid[r] \in Pids /\ fifo[pid[r]] \in Reqs
      /\ \A r \in Reqs : rpc[r] # "none" => to[r] \in Pids
      /\ \A r \in Reqs : rpc[r] \in {"opening", "write"} => rino[r] \in Reqs
  BY DEF FilesInPlace
<1>4. /\ \A r \in Reqs : Elems(out[r]) \subseteq RspToken
      /\ \A n \in Reqs : Elems(rspBuf[n]) \subseteq RspToken
      /\ \A t \in RspToken : t.req \in Reqs
      /\ Elems(<<>>) = {}
  <2>1. /\ \A r \in Reqs : Elems(out[r]) \subseteq RspToken
        /\ \A n \in Reqs : Elems(rspBuf[n]) \subseteq RspToken
    BY ElemsOfSeq DEF TypeOK
  <2>. QED
    BY <2>1 DEF RspToken, Elems
<1>5. ASSUME UNCHANGED <<pid, out>>, ChildrenStay,
             \A n \in Reqs : rspBuf'[n] = rspBuf[n] \/ rspBuf'[n] = <<>>
      PROVE  P5 /\ P6 /\ P7
  <2>1. \A t \in RspToken : \A p : Sent(t, p) => Goes(t, p)
    BY <1>4, <1>5 DEF ChildrenStay
  <2>2. P5 /\ P6
    BY <1>2, <1>4, <1>5, <2>1
  <2>3. P7
    BY <1>2, <1>5 DEF ChildrenStay
  <2>. QED
    BY <2>2, <2>3
<1>6. ASSUME UNCHANGED <<pid, out, fifo, rpc, rino, rsent, to>>,
             \A n \in Reqs : rspBuf'[n] = rspBuf[n] \/ rspBuf'[n] = <<>>,
             \A r \in Reqs : /\ ppc'[r] = "idle" => ppc[r] = "idle"
                             /\ ppc'[r] \in Unsent => ppc[r] \in Unsent
      PROVE  P1 /\ P2 /\ P3 /\ P4 /\ P5 /\ P6 /\ P7
  BY <1>2, <1>5, <1>6 DEF ChildrenStay
<1>7. CASE Elsewhere
  <2>1. /\ UNCHANGED <<pid, out, fifo, rpc, rino, rsent, to>>
        /\ \A n \in Reqs : rspBuf'[n] = rspBuf[n] \/ rspBuf'[n] = <<>>
    BY <1>7 DEF Elsewhere, rspVars
  <2>2. \A r \in Reqs : /\ ppc'[r] = "idle" => ppc[r] = "idle"
                        /\ ppc'[r] \in Unsent => ppc[r] \in Unsent
    BY <1>7 DEF Elsewhere, Before
  <2>. QED
    BY <1>6, <2>1, <2>2
<1>8. ASSUME NEW r \in Reqs, NEW p \in Pids, PierStarts(r, p)
      PROVE  P1 /\ P2 /\ P3 /\ P4 /\ P5 /\ P6 /\ P7
  <2>1. /\ ppc[r] = "idle" /\ ppc' = [ppc EXCEPT ![r] = "openLock"]
        /\ pid' = [pid EXCEPT ![r] = p]
        /\ fifo' = [fifo EXCEPT ![p] = IF @ = None THEN r ELSE @]
        /\ UNCHANGED <<out, rpc, rino, rsent, to, rspBuf>>
    BY <1>8 DEF PierStarts, rspVars
  <2>2. pid[r] = None /\ pid[r] \notin Pids /\ rpc[r] = "none"
    BY <1>2, <1>3, <2>1 DEF Unsent
  <2>3. \A q \in Reqs : pid[q] \in Pids => pid'[q] = pid[q]
    BY <2>1, <2>2 DEF TypeOK
  <2>4. P1
    BY <1>2, <2>1, <2>3 DEF TypeOK
  <2>5. P2
    BY <1>2, <2>1, <2>2 DEF TypeOK, Unsent
  <2>6. P3
    BY <1>2, <2>1, <2>2 DEF TypeOK
  <2>7. P4
    BY <1>2, <1>3, <2>1, <2>3
  <2>8. P5 /\ P6
    <3>1. \A t, q : Sent(t, pid[q]) /\ q \in Reqs => Goes(t, pid'[q])
      BY <2>1, <2>3
    <3>. QED
      BY <1>2, <2>1, <3>1
  <2>9. P7
    <3>1. \A q \in Reqs : rpc[q] # "none" => pid'[q] = pid[q]
      BY <2>1, <2>2 DEF TypeOK
    <3>. QED
      BY <1>2, <2>1, <3>1
  <2>. QED
    BY <2>4, <2>5, <2>6, <2>7, <2>8, <2>9
<1>9. ASSUME NEW r \in Reqs, Refuses(r) \/ UnlinkRspFifo(r)
      PROVE  P1 /\ P2 /\ P3 /\ P4 /\ P5 /\ P6 /\ P7
  <2>1. /\ ppc[r] \in {"openLock", "lockWait", "openReq", "unlink"}
        /\ ppc[r] = "unlink" => ppc' = [ppc EXCEPT ![r] = "done"]
        /\ ppc[r] # "unlink" => ppc' = [ppc EXCEPT ![r] = "refused"]
        /\ fifo' = fifo \/ fifo' = [fifo EXCEPT ![pid[r]] = None]
        /\ UNCHANGED <<pid, out, rpc, rino, rsent, to, rspBuf>>
    BY <1>9 DEF Refuses, Refuse, UnlinkRspFifo, rspVars
  <2>2. \A p \in Pids : fifo'[p] = fifo[p] \/ fifo'[p] = None
    BY <2>1 DEF TypeOK
  <2>3. \A q \in Reqs : /\ ppc'[q] # "idle" \/ ppc[q] = "idle"
                        /\ ppc'[q] \in Unsent => ppc[q] \in Unsent
    BY <2>1 DEF TypeOK, Unsent
  <2>4. P3
    BY <1>2, <2>1, <2>2
  <2>. QED
    BY <1>2, <1>5, <2>1, <2>3, <2>4 DEF ChildrenStay
<1>10. ASSUME NEW r \in Reqs, OpenRspFifo(r)
       PROVE  P1 /\ P2 /\ P3 /\ P4 /\ P5 /\ P6 /\ P7
  <2>1. /\ ppc' = [ppc EXCEPT ![r] = "waitRsp"] \/ ppc' = [ppc EXCEPT ![r] = "read"]
        /\ rpc' = [q \in Reqs |-> IF rpc[q] = "opening" /\ rino[q] = fifo[pid[r]]
                                  THEN "write" ELSE rpc[q]]
        /\ UNCHANGED <<pid, out, fifo, rino, rsent, to, rspBuf>>
    BY <1>10 DEF OpenRspFifo
  <2>2. \A q \in Reqs : /\ ppc'[q] # "idle" \/ ppc[q] = "idle"
                        /\ ppc'[q] \in Unsent => ppc[q] \in Unsent
    BY <2>1 DEF TypeOK, Unsent
  <2>3. P1 /\ P2 /\ P4
    BY <1>2, <2>1, <2>2
  <2>4. ChildrenStay
    BY <2>1 DEF ChildrenStay
  <2>. QED
    BY <1>2, <1>5, <2>1, <2>3, <2>4
<1>11. ASSUME NEW r \in Reqs, ReadRsp(r)
       PROVE  P1 /\ P2 /\ P3 /\ P4 /\ P5 /\ P6 /\ P7
  <2>. DEFINE n == fifo[pid[r]]
  <2>1. /\ ppc[r] = "read" /\ rspBuf[n] # <<>>
        /\ out' = [out EXCEPT ![r] = Append(@, Head(rspBuf[n]))]
        /\ rspBuf' = [rspBuf EXCEPT ![n] = Tail(@)]
        /\ UNCHANGED <<ppc, pid, fifo, rpc, rino, rsent, to>>
    BY <1>11 DEF ReadRsp, rspVars
  <2>2. n \in Reqs /\ pid[r] \in Pids /\ pid[n] = pid[r]
    BY <1>2, <1>3, <2>1 DEF PierAlive, ConstantsAssumption
  <2>. HIDE DEF n
  <2>3. /\ Head(rspBuf[n]) \in Elems(rspBuf[n])
        /\ Elems(Tail(rspBuf[n])) \subseteq Elems(rspBuf[n])
    BY <2>1, <2>2, ElemsOfSeq DEF TypeOK
  <2>4. Elems(out'[r]) = Elems(out[r]) \cup {Head(rspBuf[n])}
    BY <1>4, <2>1, <2>2, <2>3, ElemsOfSeq DEF TypeOK
  <2>5. P5
    BY <1>2, <2>1, <2>2, <2>3, SMTT(30) DEF TypeOK
  <2>6. P6
    <3>1. \A q \in Reqs : q # r => out'[q] = out[q]
      BY <2>1 DEF TypeOK
    <3>2. \A t \in Elems(out'[r]) : Sent(t, pid[r])
      BY <1>2, <2>2, <2>3, <2>4
    <3>. QED
      BY <1>2, <2>1, <2>2, <3>1, <3>2
  <2>7. P1
    BY <1>2, <2>1 DEF TypeOK
  <2>. QED
    BY <1>2, <2>1, <2>5, <2>6, <2>7
<1>12. ASSUME NEW r \in Reqs, EndOfRsp(r) \/ Unlock(r) \/ CloseRspFifo(r) \/ PierDies(r)
       PROVE  P1 /\ P2 /\ P3 /\ P4 /\ P5 /\ P6 /\ P7
  <2>1. /\ \E s \in PierStates \ Unsent : s # "idle" /\ ppc' = [ppc EXCEPT ![r] = s]
        /\ UNCHANGED <<pid, out, fifo, rpc, rino, rsent, to>>
        /\ UNCHANGED rspBuf \/ SettleRsp
    BY <1>12 DEF EndOfRsp, Unlock, CloseRspFifo, PierDies, rspVars, Unsent, PierStates
  <2>2. \A n \in Reqs : rspBuf'[n] = rspBuf[n] \/ rspBuf'[n] = <<>>
    BY <2>1, SettleKeeps
  <2>3. \A q \in Reqs : /\ ppc'[q] = "idle" => ppc[q] = "idle"
                        /\ ppc'[q] \in Unsent => ppc[q] \in Unsent
    BY <2>1 DEF TypeOK
  <2>. QED
    BY <1>6, <2>1, <2>2, <2>3
<1>13. ASSUME NEW c \in Conns, ClientActs(c)
       PROVE  P1 /\ P2 /\ P3 /\ P4 /\ P5 /\ P6 /\ P7
  <2>1. UNCHANGED <<ppc, pid, out, fifo, rino, rsent, rspBuf>>
    BY <1>13, ClientStill DEF pierVars
  <2>2. \A q \in Reqs : \/ rpc'[q] = rpc[q] /\ to'[q] = to[q]
                        \/ rpc'[q] = "child" /\ ForkedRightly(q, to'[q])
    BY <1>13, ClientForks
  <2>3. \A q \in Reqs : rpc'[q] = rpc[q] \/ ppc[q] \notin Unsent
    BY <2>2 DEF ForkedRightly, Delivery, OnlySent
  <2>4. P1 /\ P2 /\ P4
    <3>1. \A q \in Reqs : rpc'[q] \in {"opening", "write"} => rpc'[q] = rpc[q] /\ to'[q] = to[q]
      BY <2>2
    <3>. QED
      BY <1>2, <2>1, <2>3, <3>1
  <2>5. P5 /\ P6
    <3>1. \A q \in Reqs : rpc[q] # "none" => rpc'[q] # "none" /\ to'[q] = to[q]
      BY <2>2 DEF ForkedRightly
    <3>2. \A t \in RspToken : \A p : Sent(t, p) => Goes(t, p)
      BY <1>4, <3>1
    <3>. QED
      BY <1>2, <1>4, <2>1, <3>2
  <2>6. P7
    <3>. SUFFICES ASSUME ~Confused', NEW q \in Reqs, rpc'[q] # "none"
                  PROVE  to'[q] = pid'[q]
      OBVIOUS
    <3>1. ~Confused
      BY TypeStep, ConfusedStays
    <3>. QED
      BY <1>2, <2>1, <2>2, <3>1 DEF ForkedRightly
  <2>. QED
    BY <1>2, <2>1, <2>4, <2>5, <2>6
<1>14. ASSUME NEW r \in Reqs, RespondOpens(r)
       PROVE  P1 /\ P2 /\ P3 /\ P4 /\ P5 /\ P6 /\ P7
  <2>. DEFINE n == fifo[to[r]]
  <2>1. /\ rpc[r] = "child" /\ n # None
        /\ rino' = [rino EXCEPT ![r] = n]
        /\ rpc' = [rpc EXCEPT ![r] = "opening"] \/ rpc' = [rpc EXCEPT ![r] = "write"]
        /\ \A q \in Reqs : ppc'[q] = ppc[q] \/ ppc'[q] = "read"
        /\ UNCHANGED <<pid, out, fifo, rsent, to, rspBuf>>
    BY <1>14 DEF RespondOpens
  <2>2. pid[n] = to[r]
    BY <1>2, <1>3, <2>1
  <2>. HIDE DEF n
  <2>3. P1 /\ P2
    BY <1>2, <2>1, ZenonT(40) DEF TypeOK, Unsent
  <2>4. P4
    BY <1>2, <2>1, <2>2 DEF TypeOK
  <2>5. ChildrenStay
    BY <2>1 DEF ChildrenStay, TypeOK
  <2>. QED
    BY <1>2, <1>5, <2>1, <2>3, <2>4, <2>5
<1>15. ASSUME NEW r \in Reqs, RespondAborts(r) \/ RespondEnds(r) \/ RespondDies(r)
       PROVE  P1 /\ P2 /\ P3 /\ P4 /\ P5 /\ P6 /\ P7
  <2>1. /\ rpc[r] # "none"
        /\ \E s \in {"aborted", "done", "dead"} : rpc' = [rpc EXCEPT ![r] = s]
        /\ UNCHANGED <<ppc, pid, out, fifo, rino, rsent, to>>
        /\ UNCHANGED rspBuf \/ SettleRsp
    BY <1>15 DEF RespondAborts, RespondEnds, RespondDies, pierVars
  <2>2. \A n \in Reqs : rspBuf'[n] = rspBuf[n] \/ rspBuf'[n] = <<>>
    BY <2>1, SettleKeeps
  <2>3. P1 /\ P2 /\ P4
    BY <1>2, <2>1 DEF TypeOK
  <2>4. ChildrenStay
    BY <2>1 DEF ChildrenStay, TypeOK
  <2>. QED
    BY <1>2, <1>5, <2>1, <2>2, <2>3, <2>4
<1>16. ASSUME NEW r \in Reqs, WriteRsp(r)
       PROVE  P1 /\ P2 /\ P3 /\ P4 /\ P5 /\ P6 /\ P7
  <2>. DEFINE n == rino[r]
              t == Tok(r, rsent[r] + 1)
  <2>1. /\ rpc[r] = "write" /\ rsent' = [rsent EXCEPT ![r] = @ + 1]
        /\ rspBuf' = [rspBuf EXCEPT ![n] = Append(@, t)]
        /\ UNCHANGED <<ppc, pid, out, fifo, rpc, rino, to>>
    BY <1>16 DEF WriteRsp, pierVars
  <2>2. n \in Reqs /\ pid[n] = to[r] /\ to[r] \in Pids
    BY <1>2, <1>3, <2>1
  <2>3. t \in RspToken /\ t.req = r
    BY <1>16 DEF WriteRsp, TypeOK, RspToken, Tok
  <2>. HIDE DEF n, t
  <2>4. Elems(rspBuf'[n]) = Elems(rspBuf[n]) \cup {t}
    BY <2>1, <2>2, <2>3, ElemsOfSeq DEF TypeOK
  <2>5. P5
    BY <1>2, <2>1, <2>2, <2>3, <2>4, SMTT(30) DEF TypeOK
  <2>6. P1
    BY <1>2, <2>1 DEF TypeOK, Unsent
  <2>. QED
    BY <1>2, <2>1, <2>5, <2>6
<1>. QED
  BY <1>1, <1>7, <1>8, <1>9, <1>10, <1>11, <1>12, <1>13, <1>14, <1>15, <1>16, AnswerSide

-----------------------------------------------------------------------------
(* The two ends of an answer FIFO.                                           *)

Reading == {"waitRsp", "read", "closeRsp"}
Writing == {"opening", "write"}

\* While no one closes an end, a FIFO that is not open stays empty.
LEMMA OpenStays ==
  ASSUME EndsMeet,
         \A q \in Reqs : rpc[q] \in Writing => rpc'[q] \in Writing /\ rino'[q] = rino[q],
         \A q \in Reqs : ppc[q] \in Reading =>
                           ppc'[q] \in Reading /\ fifo'[pid'[q]] = fifo[pid[q]],
         NEW n \in Reqs, rspBuf'[n] = rspBuf[n]
  PROVE  RspWriters(n)' = {} /\ RspReaders(n)' = {} => rspBuf'[n] = <<>>
<1>1. \A q \in RspWriters(n) : q \in RspWriters(n)'
  BY DEF RspWriters, Writing
<1>2. \A q \in RspReaders(n) : q \in RspReaders(n)'
  BY DEF RspReaders, Reading
<1>. QED
  BY <1>1, <1>2 DEF EndsMeet

\* No step separates a live Pier from its Respond or leaves data in a closed FIFO.
LEMMA EndsStep == IInv /\ Delivery /\ PInv /\ PidInPlace /\ EndsMeet /\ [Next]_vars => EndsMeet'
<1>. SUFFICES ASSUME IInv, TypeOK, FilesInPlace, Delivery, PInv, PidInPlace, EndsMeet, [Next]_vars
              PROVE  EndsMeet'
  BY DEF IInv
<1>. DEFINE
       Alive(q) == ppc'[q] \notin {"idle", "done", "refused", "dead"}
       P1 == ~Confused' => \A q \in Reqs : Alive(q) =>
               /\ rpc'[q] # "aborted"
               /\ rpc'[q] \in Writing => rino'[q] = fifo'[pid'[q]]
       P2 == \A n \in Reqs : RspWriters(n)' = {} /\ RspReaders(n)' = {} => rspBuf'[n] = <<>>
       P3 == \A q \in Reqs : rpc'[q] = "done" => rsent'[q] = RspLen
       Kept == \A q \in Reqs :
                 /\ rpc[q] \in Writing => rpc'[q] \in Writing /\ rino'[q] = rino[q]
                 /\ ppc[q] \in Reading =>
                      ppc'[q] \in Reading /\ fifo'[pid'[q]] = fifo[pid[q]]
<1>1. SUFFICES P1 /\ P2 /\ P3
  BY DEF EndsMeet, PierAlive, Writing
<1>2. /\ ~Confused' => \A q \in Reqs : PierAlive(q) =>
           /\ rpc[q] # "aborted"
           /\ rpc[q] \in Writing => rino[q] = fifo[pid[q]]
      /\ ~Confused' => \A q \in Reqs : rpc[q] # "none" => to[q] = pid[q]
      /\ \A q \in Reqs : rpc[q] = "done" => rsent[q] = RspLen
  <2>1. ~Confused' => ~Confused
    BY TypeStep, ConfusedStays
  <2>. QED
    BY <2>1 DEF EndsMeet, PidInPlace, Writing
<1>3. /\ \A q \in Reqs : PierAlive(q) => pid[q] \in Pids /\ fifo[pid[q]] \in Reqs
      /\ \A q, r \in Reqs : PierAlive(q) /\ PierAlive(r) /\ q # r => pid[q] # pid[r]
      /\ \A q \in Reqs : rpc[q] \in Writing => rino[q] \in Reqs
      /\ \A q \in Reqs : rpc[q] # "none" => ppc[q] \notin Unsent
  BY DEF FilesInPlace, PidInPlace, Writing
<1>4. \A q \in Reqs : PierAlive(q) <=> ppc[q] \notin {"idle", "done", "refused", "dead"}
  BY DEF PierAlive
<1>5. ASSUME Kept, UNCHANGED rspBuf
      PROVE  P2
  BY <1>5, OpenStays
<1>6. ASSUME SettleRsp
      PROVE  P2
  BY <1>6, SettleKeeps
<1>7. CASE Elsewhere
  <2>1. /\ UNCHANGED <<pid, fifo, rpc, rino, rsent, rspBuf>>
        /\ \A q \in Reqs : ppc'[q] = ppc[q] \/ (ppc[q] \in Before /\ ppc'[q] \in Before)
    BY <1>7 DEF Elsewhere, rspVars
  <2>2. Kept
    BY <2>1 DEF Before, Reading
  <2>3. P1
    BY <1>2, <1>4, <2>1 DEF Before
  <2>. QED
    BY <1>2, <1>5, <2>1, <2>2, <2>3
<1>8. ASSUME NEW r \in Reqs, NEW p \in Pids, PierStarts(r, p)
      PROVE  P1 /\ P2 /\ P3
  <2>1. /\ ppc[r] = "idle" /\ ppc' = [ppc EXCEPT ![r] = "openLock"]
        /\ pid' = [pid EXCEPT ![r] = p]
        /\ fifo' = [fifo EXCEPT ![p] = IF @ = None THEN r ELSE @]
        /\ \A q \in Reqs : PierAlive(q) => pid[q] # p
        /\ UNCHANGED <<rpc, rino, rsent, rspBuf>>
    BY <1>8 DEF PierStarts, rspVars
  <2>2. rpc[r] = "none"
    BY <1>3, <2>1 DEF Unsent
  <2>3. \A q \in Reqs : PierAlive(q) => q # r /\ ppc'[q] = ppc[q] /\ pid'[q] = pid[q]
    BY <1>4, <2>1 DEF TypeOK
  <2>4. \A q \in Reqs : PierAlive(q) => fifo'[pid'[q]] = fifo[pid[q]]
    BY <1>3, <2>1, <2>3 DEF TypeOK
  <2>5. Kept
    BY <1>4, <2>1, <2>3, <2>4 DEF Reading
  <2>6. \A q \in Reqs : Alive(q) => q = r \/ PierAlive(q)
    BY <1>4, <2>1 DEF TypeOK
  <2>7. P1
    BY <1>2, <2>1, <2>2, <2>4, <2>6 DEF Writing
  <2>. QED
    BY <1>2, <1>5, <2>1, <2>5, <2>7
<1>9. ASSUME NEW r \in Reqs, Refuses(r) \/ UnlinkRspFifo(r)
      PROVE  P1 /\ P2 /\ P3
  <2>1. /\ ppc[r] \in {"openLock", "lockWait", "openReq", "unlink"}
        /\ \E s \in {"done", "refused"} : ppc' = [ppc EXCEPT ![r] = s]
        /\ fifo' = fifo \/ fifo' = [fifo EXCEPT ![pid[r]] = None]
        /\ UNCHANGED <<pid, rpc, rino, rsent, rspBuf>>
    BY <1>9 DEF Refuses, Refuse, UnlinkRspFifo, rspVars
  <2>2. \A q \in Reqs : q # r => ppc'[q] = ppc[q]
    BY <2>1 DEF TypeOK
  <2>3. PierAlive(r) /\ ~Alive(r)
    BY <1>4, <2>1 DEF TypeOK
  <2>4. \A q \in Reqs : PierAlive(q) /\ q # r => fifo'[pid'[q]] = fifo[pid[q]]
    BY <1>3, <2>1, <2>3 DEF TypeOK
  <2>5. Kept
    BY <1>4, <2>1, <2>2, <2>4 DEF Reading
  <2>6. \A q \in Reqs : Alive(q) => q # r /\ PierAlive(q)
    BY <1>4, <2>2, <2>3
  <2>7. P1
    BY <1>2, <2>1, <2>4, <2>6
  <2>. QED
    BY <1>2, <1>5, <2>1, <2>5, <2>7
<1>10. ASSUME NEW r \in Reqs, OpenRspFifo(r)
       PROVE  P1 /\ P2 /\ P3
  <2>1. /\ ppc[r] = "openRsp"
        /\ ppc' = [ppc EXCEPT ![r] = "waitRsp"] \/ ppc' = [ppc EXCEPT ![r] = "read"]
        /\ rpc' = [q \in Reqs |-> IF rpc[q] = "opening" /\ rino[q] = fifo[pid[r]]
                                  THEN "write" ELSE rpc[q]]
        /\ UNCHANGED <<pid, fifo, rino, rsent, rspBuf>>
    BY <1>10 DEF OpenRspFifo
  <2>2. Kept
    BY <2>1 DEF TypeOK, Reading, Writing
  <2>3. \A q \in Reqs : Alive(q) => PierAlive(q)
    BY <1>4, <2>1 DEF TypeOK
  <2>4. \A q \in Reqs : rpc'[q] = rpc[q] \/ (rpc[q] = "opening" /\ rpc'[q] = "write")
    BY <2>1
  <2>. QED
    BY <1>2, <1>5, <2>1, <2>2, <2>3, <2>4 DEF Writing
<1>11. ASSUME NEW r \in Reqs, ReadRsp(r)
       PROVE  P1 /\ P2 /\ P3
  <2>1. /\ ppc[r] = "read" /\ rspBuf' = [rspBuf EXCEPT ![fifo[pid[r]]] = Tail(@)]
        /\ UNCHANGED <<ppc, pid, fifo, rpc, rino, rsent>>
    BY <1>11 DEF ReadRsp, rspVars
  <2>2. ASSUME NEW n \in Reqs
        PROVE  RspWriters(n)' = {} /\ RspReaders(n)' = {} => rspBuf'[n] = <<>>
    <3>1. CASE n = fifo[pid[r]]
      <4>1. r \in RspReaders(n)'
        BY <2>1, <3>1 DEF RspReaders
      <4>. QED
        BY <4>1
    <3>2. CASE n # fifo[pid[r]]
      <4>1. rspBuf'[n] = rspBuf[n]
        BY <2>1, <3>2 DEF TypeOK
      <4>. QED
        BY <2>1, <4>1, OpenStays
    <3>. QED
      BY <3>1, <3>2
  <2>. QED
    BY <1>2, <1>4, <2>1, <2>2
<1>12. ASSUME NEW r \in Reqs, EndOfRsp(r) \/ Unlock(r)
       PROVE  P1 /\ P2 /\ P3
  <2>1. /\ \/ ppc[r] = "read" /\ ppc' = [ppc EXCEPT ![r] = "closeRsp"]
           \/ ppc[r] = "unlock" /\ ppc' = [ppc EXCEPT ![r] = "unlink"]
        /\ UNCHANGED <<pid, fifo, rpc, rino, rsent, rspBuf>>
    BY <1>12 DEF EndOfRsp, Unlock, rspVars
  <2>2. Kept
    BY <2>1 DEF TypeOK, Reading
  <2>3. \A q \in Reqs : Alive(q) => PierAlive(q)
    BY <1>4, <2>1 DEF TypeOK
  <2>. QED
    BY <1>2, <1>5, <2>1, <2>2, <2>3
<1>13. ASSUME NEW r \in Reqs, CloseRspFifo(r) \/ PierDies(r)
       PROVE  P1 /\ P2 /\ P3
  <2>1. /\ PierAlive(r) /\ \E s \in {"unlock", "dead"} : ppc' = [ppc EXCEPT ![r] = s]
        /\ UNCHANGED <<pid, fifo, rpc, rino, rsent>> /\ SettleRsp
    BY <1>13 DEF CloseRspFifo, PierDies, PierAlive, rspVars
  <2>2. \A q \in Reqs : Alive(q) => PierAlive(q)
    BY <1>4, <2>1 DEF TypeOK
  <2>. QED
    BY <1>2, <1>6, <2>1, <2>2
<1>14. ASSUME NEW c \in Conns, ClientActs(c)
       PROVE  P1 /\ P2 /\ P3
  <2>1. UNCHANGED <<ppc, pid, fifo, rino, rsent, rspBuf>>
    BY <1>14, ClientStill DEF pierVars
  <2>2. \A q \in Reqs : rpc'[q] = rpc[q] \/ (rpc[q] = "none" /\ rpc'[q] = "child")
    BY <1>14, ClientForks DEF ForkedRightly
  <2>3. Kept
    BY <2>1, <2>2 DEF Writing
  <2>4. P1
    BY <1>2, <1>4, <2>1, <2>2 DEF Writing
  <2>. QED
    BY <1>2, <1>5, <2>1, <2>2, <2>3, <2>4
<1>15. ASSUME NEW r \in Reqs, RespondAborts(r)
       PROVE  P1 /\ P2 /\ P3
  <2>1. /\ rpc[r] = "child" /\ rpc' = [rpc EXCEPT ![r] = "aborted"] /\ fifo[to[r]] = None
        /\ UNCHANGED <<ppc, pid, fifo, rino, rsent, rspBuf>>
    BY <1>15 DEF RespondAborts, pierVars
  <2>2. Kept
    BY <2>1 DEF TypeOK, Writing
  <2>3. ~Confused' => ~PierAlive(r)
    BY <1>2, <1>3, <2>1, ConstantsAssumption
  <2>4. \A q \in Reqs : q # r => rpc'[q] = rpc[q]
    BY <2>1 DEF TypeOK
  <2>5. rpc'[r] = "aborted"
    BY <2>1 DEF TypeOK
  <2>6. P1
    BY <1>2, <1>4, <2>1, <2>3, <2>4
  <2>. QED
    BY <1>2, <1>5, <2>1, <2>2, <2>4, <2>5, <2>6
<1>16. ASSUME NEW r \in Reqs, RespondOpens(r)
       PROVE  P1 /\ P2 /\ P3
  <2>1. /\ rpc[r] = "child"
        /\ rino' = [rino EXCEPT ![r] = fifo[to[r]]]
        /\ rpc' = [rpc EXCEPT ![r] = "opening"] \/ rpc' = [rpc EXCEPT ![r] = "write"]
        /\ ppc' = [q \in Reqs |-> IF ppc[q] = "waitRsp" /\ fifo[pid[q]] = fifo[to[r]]
                                  THEN "read" ELSE ppc[q]]
        /\ UNCHANGED <<pid, fifo, rsent, rspBuf>>
    BY <1>16 DEF RespondOpens
  <2>2. \A q \in Reqs : q # r => rpc'[q] = rpc[q] /\ rino'[q] = rino[q]
    BY <2>1 DEF TypeOK
  <2>3. rpc'[r] \in Writing /\ rino'[r] = fifo[to[r]] /\ (~Confused' => to[r] = pid[r])
    BY <1>2, <2>1 DEF TypeOK, Writing
  <2>4. Kept
    BY <2>1, <2>2 DEF Reading, Writing
  <2>5. \A q \in Reqs : Alive(q) => PierAlive(q)
    BY <1>4, <2>1
  <2>6. P1
    BY <1>2, <2>1, <2>2, <2>3, <2>5 DEF Writing
  <2>. QED
    BY <1>2, <1>5, <2>1, <2>2, <2>3, <2>4, <2>6 DEF Writing
<1>17. ASSUME NEW r \in Reqs, WriteRsp(r)
       PROVE  P1 /\ P2 /\ P3
  <2>1. /\ rpc[r] = "write" /\ rsent' = [rsent EXCEPT ![r] = @ + 1]
        /\ rspBuf' = [rspBuf EXCEPT ![rino[r]] = Append(@, Tok(r, rsent[r] + 1))]
        /\ UNCHANGED <<ppc, pid, fifo, rpc, rino>>
    BY <1>17 DEF WriteRsp, pierVars
  <2>2. ASSUME NEW n \in Reqs
        PROVE  RspWriters(n)' = {} /\ RspReaders(n)' = {} => rspBuf'[n] = <<>>
    <3>1. CASE n = rino[r]
      <4>1. r \in RspWriters(n)'
        BY <2>1, <3>1 DEF RspWriters
      <4>. QED
        BY <4>1
    <3>2. CASE n # rino[r]
      <4>1. rspBuf'[n] = rspBuf[n]
        BY <2>1, <3>2 DEF TypeOK
      <4>. QED
        BY <2>1, <4>1, OpenStays
    <3>. QED
      BY <3>1, <3>2
  <2>3. P3
    BY <1>2, <2>1 DEF TypeOK
  <2>. QED
    BY <1>2, <1>4, <2>1, <2>2, <2>3
<1>18. ASSUME NEW r \in Reqs, RespondEnds(r) \/ RespondDies(r)
       PROVE  P1 /\ P2 /\ P3
  <2>1. /\ \/ rpc' = [rpc EXCEPT ![r] = "done"] /\ rsent[r] = RspLen
           \/ rpc' = [rpc EXCEPT ![r] = "dead"]
        /\ UNCHANGED <<ppc, pid, fifo, rino, rsent>> /\ SettleRsp
    BY <1>18 DEF RespondEnds, RespondDies, pierVars
  <2>2. \A q \in Reqs : q # r => rpc'[q] = rpc[q]
    BY <2>1 DEF TypeOK
  <2>3. (rpc'[r] = "done" /\ rsent[r] = RspLen) \/ rpc'[r] = "dead"
    BY <2>1 DEF TypeOK
  <2>. QED
    BY <1>2, <1>4, <1>6, <2>1, <2>2, <2>3 DEF Writing
<1>. QED
  BY <1>1, <1>7, <1>8, <1>9, <1>10, <1>11, <1>12, <1>13, <1>14, <1>16, <1>17, <1>18, <1>15, AnswerSide

-----------------------------------------------------------------------------
(* One's own Respond.                                                        *)

\* With a clean pid a client child or Respond at work has its Pier alive.
LEMMA PierOfRespond ==
  ASSUME PidInPlace, OwnAnswers,
         NEW q \in Reqs, Clean(q), rpc[q] \in {"child", "opening", "write"}
  PROVE  PierAlive(q)
<1>1. ppc[q] \notin {"idle", "refused"}
  BY DEF PidInPlace, Unsent
<1>2. ppc[q] # "done"
  BY DEF OwnAnswers, Attended, Ending
<1>3. ppc[q] # "dead"
  BY DEF Clean
<1>. QED
  BY <1>1, <1>2, <1>3 DEF PierAlive

\* And it has its pid to itself.
LEMMA OnlyOwnRespond ==
  ASSUME FilesInPlace, PidInPlace, OwnAnswers,
         NEW q \in Reqs, rpc[q] \in {"child", "opening", "write"},
         NEW r \in Reqs, PierAlive(r), pid[q] = pid[r], Clean(r)
  PROVE  q = r
<1>1. Clean(q)
  BY DEF Clean
<1>2. PierAlive(q)
  BY <1>1, PierOfRespond
<1>. QED
  BY <1>2 DEF FilesInPlace

\* The FIFO of a live Pier is one of its pid, and no other live Pier's.
LEMMA OwnFifo ==
  ASSUME TypeOK, FilesInPlace, PidInPlace, NEW r \in Reqs, PierAlive(r)
  PROVE  /\ pid[r] \in Pids /\ fifo[pid[r]] \in Reqs /\ pid[fifo[pid[r]]] = pid[r]
         /\ \A q \in Reqs : PierAlive(q) /\ fifo[pid[q]] = fifo[pid[r]] => q = r
<1>1. \A q \in Reqs : PierAlive(q) =>
        pid[q] \in Pids /\ fifo[pid[q]] \in Reqs /\ pid[fifo[pid[q]]] = pid[q]
  BY ConstantsAssumption DEF FilesInPlace, PidInPlace
<1>. QED
  BY <1>1 DEF FilesInPlace

\* The Pier that has an inode open for reading or waits for it.
LEMMA ReaderAlive ==
  ASSUME NEW n, NEW q \in RspReaders(n)
  PROVE  q \in Reqs /\ PierAlive(q) /\ fifo[pid[q]] = n /\ ppc[q] \in Reading
  BY DEF RspReaders, PierAlive, Reading

-----------------------------------------------------------------------------
\* A Pier with a clean pid stops reading only when its own Respond has ended.
LEMMA AttendedStep ==
  IInv /\ Delivery /\ PInv /\ PidInPlace /\ EndsMeet /\ OwnAnswers /\ [Next]_vars =>
    \A r \in Reqs : Clean(r)' => Attended(r)'
<1>. DEFINE
       Clean2(x) == ~Confused' /\ \A q \in Reqs : ppc'[q] = "dead" => pid'[q] # pid'[x]
       A(x) == /\ ppc'[x] = "read" => rpc'[x] \notin {"none", "child"}
               /\ ppc'[x] \in Ending => rpc'[x] \in {"done", "dead"}
<1>. SUFFICES ASSUME IInv, TypeOK, FilesInPlace, Delivery, PInv, PidInPlace, EndsMeet, OwnAnswers,
                     [Next]_vars, NEW x \in Reqs, Clean2(x)
              PROVE  A(x)
  BY DEF IInv, Clean, Attended
<1>1. /\ Clean(x) /\ ppc[x] = "read" => rpc[x] \notin {"none", "child"}
      /\ Clean(x) /\ ppc[x] \in Ending => rpc[x] \in {"done", "dead"}
  BY DEF OwnAnswers, Attended
<1>2. ~Confused /\ \A q \in Reqs : rpc[q] # "none" => to[q] = pid[q]
  <2>1. ~Confused
    BY TypeStep, ConfusedStays
  <2>. QED
    BY <2>1 DEF PidInPlace
<1>3. ASSUME pid' = pid, \A q \in Reqs : ppc[q] = "dead" => ppc'[q] = "dead"
      PROVE  Clean(x)
  BY <1>3, <1>2 DEF Clean
<1>4. ASSUME pid' = pid, rpc' = rpc,
             \A q \in Reqs : \/ ppc'[q] = ppc[q]
                             \/ ppc[q] # "dead" /\ ppc'[q] \notin {"read"} \cup Ending
                             \/ ppc[q] \in Ending /\ ppc'[q] \in Ending
      PROVE  A(x)
  <2>1. Clean(x)
    BY <1>3, <1>4 DEF Ending
  <2>. QED
    BY <1>1, <1>4, <2>1 DEF Ending
<1>5. CASE Elsewhere
  BY <1>4, <1>5 DEF Elsewhere, Before, Ending, rspVars
<1>6. ASSUME NEW r \in Reqs, NEW p \in Pids, PierStarts(r, p)
      PROVE  A(x)
  <2>1. /\ ppc[r] = "idle" /\ ppc' = [ppc EXCEPT ![r] = "openLock"]
        /\ pid' = [pid EXCEPT ![r] = p] /\ rpc' = rpc
    BY <1>6 DEF PierStarts, rspVars
  <2>2. CASE x = r
    BY <2>1, <2>2 DEF TypeOK, Ending
  <2>3. CASE x # r
    <3>1. \A q \in Reqs : ppc[q] = "dead" => ppc'[q] = "dead" /\ pid'[q] = pid[q]
      BY <2>1 DEF TypeOK
    <3>2. pid'[x] = pid[x] /\ ppc'[x] = ppc[x]
      BY <2>1, <2>3 DEF TypeOK
    <3>. QED
      BY <1>1, <1>2, <2>1, <3>1, <3>2 DEF Clean
  <2>. QED
    BY <2>2, <2>3
<1>7. ASSUME NEW r \in Reqs, Refuses(r) \/ ReadRsp(r) \/ CloseRspFifo(r) \/ Unlock(r)
                               \/ UnlinkRspFifo(r) \/ PierDies(r)
      PROVE  A(x)
  <2>1. /\ pid' = pid /\ rpc' = rpc
        /\ \/ UNCHANGED ppc
           \/ ppc' = [ppc EXCEPT ![r] = "refused"] /\ ppc[r] # "dead"
           \/ ppc' = [ppc EXCEPT ![r] = "dead"]
           \/ ppc[r] \in Ending /\ \E s \in Ending : ppc' = [ppc EXCEPT ![r] = s]
    BY <1>7 DEF Refuses, Refuse, ReadRsp, CloseRspFifo, Unlock, UnlinkRspFifo, PierDies,
                rspVars, Ending
  <2>2. \A q \in Reqs : \/ ppc'[q] = ppc[q]
                        \/ ppc[q] # "dead" /\ ppc'[q] \notin {"read"} \cup Ending
                        \/ ppc[q] \in Ending /\ ppc'[q] \in Ending
    BY <2>1 DEF TypeOK, Ending
  <2>. QED
    BY <1>4, <2>1, <2>2
<1>8. ASSUME NEW r \in Reqs, OpenRspFifo(r)
      PROVE  A(x)
  <2>. DEFINE n == fifo[pid[r]]
  <2>1. /\ ppc[r] = "openRsp"
        /\ ppc' = [ppc EXCEPT ![r] = IF RspWriters(n) = {} THEN "waitRsp" ELSE "read"]
        /\ rpc' = [q \in Reqs |-> IF rpc[q] = "opening" /\ rino[q] = n
                                  THEN "write" ELSE rpc[q]]
        /\ pid' = pid
    BY <1>8 DEF OpenRspFifo
  <2>2. Clean(x)
    BY <1>3, <2>1 DEF TypeOK
  <2>3. rpc'[x] = rpc[x] \/ (rpc[x] = "opening" /\ rpc'[x] = "write")
    BY <2>1
  <2>4. CASE x # r
    BY <1>1, <2>1, <2>2, <2>3, <2>4 DEF TypeOK, Ending
  <2>5. CASE x = r /\ RspWriters(n) = {}
    BY <2>1, <2>5 DEF TypeOK, Ending
  <2>6. CASE x = r /\ RspWriters(n) # {}
    <3>1. PICK q \in Reqs : rpc[q] \in {"opening", "write"} /\ rino[q] = n
      BY <2>6 DEF RspWriters
    <3>2. PierAlive(r) /\ pid[n] = pid[r]
      BY <2>1, OwnFifo DEF PierAlive
    <3>3. pid[q] = pid[r]
      BY <1>2, <3>1, <3>2 DEF PidInPlace
    <3>4. q = r
      BY <2>2, <2>6, <3>1, <3>2, <3>3, OnlyOwnRespond
    <3>. QED
      BY <2>1, <2>3, <2>6, <3>1, <3>4 DEF TypeOK, Ending
  <2>. QED
    BY <2>4, <2>5, <2>6
<1>9. ASSUME NEW r \in Reqs, EndOfRsp(r)
      PROVE  A(x)
  <2>1. /\ ppc[r] = "read" /\ ppc' = [ppc EXCEPT ![r] = "closeRsp"]
        /\ RspWriters(fifo[pid[r]]) = {}
        /\ pid' = pid /\ rpc' = rpc
    BY <1>9 DEF EndOfRsp, rspVars
  <2>2. Clean(x)
    BY <1>3, <2>1 DEF TypeOK
  <2>3. CASE x = r
    <3>1. rpc[r] # "aborted" /\ (rpc[r] \in {"opening", "write"} => r \in RspWriters(fifo[pid[r]]))
      BY <1>2, <2>1 DEF EndsMeet, PierAlive, RspWriters
    <3>2. rpc[r] \in {"done", "dead"}
      BY <1>1, <2>1, <2>2, <2>3, <3>1 DEF TypeOK, RspStates
    <3>. QED
      BY <2>1, <2>3, <3>2 DEF TypeOK
  <2>4. CASE x # r
    BY <1>1, <2>1, <2>2, <2>4 DEF TypeOK
  <2>. QED
    BY <2>3, <2>4
<1>10. ASSUME NEW c \in Conns, ClientActs(c)
       PROVE  A(x)
  <2>1. ppc' = ppc /\ pid' = pid
    BY <1>10, ClientStill DEF pierVars
  <2>2. rpc'[x] = rpc[x] \/ rpc[x] = "none"
    BY <1>10, ClientForks DEF ForkedRightly
  <2>3. Clean(x)
    BY <1>3, <2>1
  <2>. QED
    BY <1>1, <2>1, <2>2, <2>3
<1>11. ASSUME NEW r \in Reqs, RespondAborts(r) \/ WriteRsp(r) \/ RespondEnds(r) \/ RespondDies(r)
      PROVE  A(x)
  <2>1. /\ ppc' = ppc /\ pid' = pid
        /\ \/ rpc[r] = "child" /\ rpc' = [rpc EXCEPT ![r] = "aborted"]
           \/ UNCHANGED rpc
           \/ rpc' = [rpc EXCEPT ![r] = "done"]
           \/ rpc' = [rpc EXCEPT ![r] = "dead"]
    BY <1>11 DEF RespondAborts, WriteRsp, RespondEnds, RespondDies, pierVars
  <2>2. Clean(x)
    BY <1>3, <2>1
  <2>. QED
    BY <1>1, <2>1, <2>2 DEF TypeOK, Ending
<1>12. ASSUME NEW r \in Reqs, RespondOpens(r)
       PROVE  A(x)
  <2>. DEFINE n == fifo[to[r]]
  <2>1. /\ rpc[r] = "child" /\ n # None
        /\ rpc' = [rpc EXCEPT ![r] = "opening"] \/ rpc' = [rpc EXCEPT ![r] = "write"]
        /\ ppc' = [q \in Reqs |-> IF ppc[q] = "waitRsp" /\ fifo[pid[q]] = n
                                  THEN "read" ELSE ppc[q]]
        /\ pid' = pid
    BY <1>12 DEF RespondOpens
  <2>2. Clean(x)
    BY <1>3, <2>1
  <2>3. x # r => rpc'[x] = rpc[x]
    BY <2>1 DEF TypeOK
  <2>4. rpc'[r] \in {"opening", "write"}
    BY <2>1 DEF TypeOK
  <2>5. CASE ppc'[x] = ppc[x]
    BY <1>1, <2>1, <2>2, <2>3, <2>4, <2>5
  <2>6. CASE ppc'[x] # ppc[x]
    <3>1. ppc[x] = "waitRsp" /\ fifo[pid[x]] = n /\ ppc'[x] = "read"
      BY <2>1, <2>6
    <3>2. PierAlive(x) /\ pid[n] = pid[x]
      BY <3>1, OwnFifo DEF PierAlive
    <3>3. pid[n] = pid[r]
      BY <1>2, <2>1 DEF PidInPlace, FilesInPlace
    <3>4. r = x
      BY <2>1, <2>2, <3>2, <3>3, OnlyOwnRespond
    <3>. QED
      BY <2>4, <3>1, <3>4 DEF Ending
  <2>. QED
    BY <2>5, <2>6
<1>. QED
  BY <1>5, <1>6, <1>7, <1>8, <1>9, <1>11, <1>12, <1>10, AnswerSide

-----------------------------------------------------------------------------
(* What a Pier has read.                                                     *)

\* The answer block by block.
LEMMA Prefixes ==
  ASSUME NEW r \in Reqs, NEW n \in Nat
  PROVE  /\ Prefix(r, 0) = <<>>
         /\ Append(Prefix(r, n), Tok(r, n + 1)) = Prefix(r, n + 1)
<1>1. Prefix(r, 0) = <<>>
  BY DEF Prefix
<1>2. /\ Prefix(r, n) \in Seq([req : Reqs, i : Nat])
      /\ Len(Prefix(r, n)) = n /\ DOMAIN Prefix(r, n) = 1..n
      /\ \A i \in 1..n : Prefix(r, n)[i] = Tok(r, i)
  BY DEF Prefix, Tok
<1>3. DOMAIN Append(Prefix(r, n), Tok(r, n + 1)) = 1..n + 1
  BY <1>2
<1>4. ASSUME NEW i \in 1..n + 1
      PROVE  Append(Prefix(r, n), Tok(r, n + 1))[i] = Tok(r, i)
  BY <1>2
<1>5. Append(Prefix(r, n), Tok(r, n + 1)) = [i \in 1..n + 1 |-> Tok(r, i)]
  BY <1>3, <1>4
<1>. QED
  BY <1>1, <1>5 DEF Prefix

\* Moving the head of one sequence to the end of another.
LEMMA MoveHead ==
  ASSUME NEW a \in Seq(RspToken), NEW b \in Seq(RspToken)
  PROVE  /\ b # <<>> => Append(a, Head(b)) \o Tail(b) = a \o b
         /\ \A e \in RspToken : a \o Append(b, e) = Append(a \o b, e)
         /\ a \o <<>> = a
<1>1. b # <<>> => Append(a, Head(b)) \o Tail(b) = a \o b
  OBVIOUS
<1>2. ASSUME NEW e \in RspToken
      PROVE  a \o Append(b, e) = Append(a \o b, e)
  OBVIOUS
<1>3. a \o <<>> = a
  OBVIOUS
<1>. QED
  BY <1>1, <1>2, <1>3

\* Nothing is put into or taken out of a clean Pier's answer but by its Respond
\* and by its own reads.
LEMMA CopiedStep ==
  IInv /\ Delivery /\ PidInPlace /\ EndsMeet /\ OwnAnswers /\ [Next]_vars =>
    \A r \in Reqs : Clean(r)' => Copied(r)'
<1>. DEFINE
       Waiting == {"waitRsp", "read"}
       Clean2(x) == ~Confused' /\ \A q \in Reqs : ppc'[q] = "dead" => pid'[q] # pid'[x]
       Alive(x) == ppc'[x] \notin {"idle", "done", "refused", "dead"}
       C(x) == /\ ppc'[x] \in Waiting =>
                    out'[x] \o rspBuf'[fifo'[pid'[x]]] = Prefix(x, rsent'[x])
               /\ ppc'[x] \in Ending => out'[x] = Prefix(x, rsent'[x])
               /\ ppc'[x] \notin Ending \cup Waiting => out'[x] = <<>> /\ rsent'[x] = 0
               /\ Alive(x) /\ ppc'[x] \notin Waiting => rspBuf'[fifo'[pid'[x]]] = <<>>
<1>. SUFFICES ASSUME IInv, TypeOK, FilesInPlace, Delivery, PidInPlace, EndsMeet, OwnAnswers,
                     [Next]_vars, NEW x \in Reqs, Clean2(x)
              PROVE  C(x)
  BY PrimedAnswers DEF IInv, Clean, Copied, PierAlive
<1>1. ASSUME Clean(x)
      PROVE  /\ ppc[x] \in Waiting => out[x] \o rspBuf[fifo[pid[x]]] = Prefix(x, rsent[x])
             /\ ppc[x] \in Ending => out[x] = Prefix(x, rsent[x])
             /\ ppc[x] \notin Ending \cup Waiting => out[x] = <<>> /\ rsent[x] = 0
             /\ PierAlive(x) /\ ppc[x] \notin Waiting => rspBuf[fifo[pid[x]]] = <<>>
  BY <1>1 DEF OwnAnswers, Copied
<1>2. ~Confused /\ \A q \in Reqs : rpc[q] # "none" => to[q] = pid[q]
  <2>1. ~Confused
    BY TypeStep, ConfusedStays
  <2>. QED
    BY <2>1 DEF PidInPlace
<1>3. ASSUME pid' = pid, \A q \in Reqs : ppc[q] = "dead" => ppc'[q] = "dead"
      PROVE  Clean(x)
  BY <1>3, <1>2 DEF Clean
<1>4. \A q \in Reqs : PierAlive(q) <=> ppc[q] \notin {"idle", "done", "refused", "dead"}
  BY DEF PierAlive
<1>5. \A q \in Reqs : PierAlive(q) =>
        /\ pid[q] \in Pids /\ fifo[pid[q]] \in Reqs /\ pid[fifo[pid[q]]] = pid[q]
        /\ \A r \in Reqs : PierAlive(r) /\ fifo[pid[r]] = fifo[pid[q]] => r = q
  BY OwnFifo
\* A step that lets x and its FIFO alone.
<1>6. ASSUME Clean(x), out'[x] = out[x], rsent'[x] = rsent[x], pid'[x] = pid[x],
             \/ ppc'[x] = ppc[x]
             \/ ppc[x] \in Waiting /\ ppc'[x] \in Waiting
             \/ ppc[x] \in Before /\ ppc'[x] \in Before,
             PierAlive(x) => /\ fifo'[pid[x]] = fifo[pid[x]]
                             /\ rspBuf'[fifo[pid[x]]] = rspBuf[fifo[pid[x]]]
      PROVE  C(x)
  BY <1>1, <1>4, <1>6 DEF Before, Ending
\* A step that closes an end somewhere.
<1>7. ASSUME Clean(x), SettleRsp, UNCHANGED <<pid, out, fifo, rsent>>, ppc'[x] = ppc[x]
      PROVE  C(x)
  <2>1. CASE ~PierAlive(x)
    BY <1>6, <1>7, <2>1
  <2>2. CASE PierAlive(x) /\ ppc[x] \notin Waiting
    BY <1>1, <1>4, <1>5, <1>7, <2>2, SettleKeeps
  <2>3. CASE PierAlive(x) /\ ppc[x] \in Waiting
    <3>1. PICK n \in Reqs : n = fifo[pid[x]]
      BY <1>5, <2>3
    <3>2. x \in RspReaders(n)'
      BY <1>7, <2>3, <3>1 DEF RspReaders
    <3>3. rspBuf'[n] = rspBuf[n]
      BY <1>7, <3>2, SettleKeeps
    <3>. QED
      BY <1>6, <1>7, <3>1, <3>3
  <2>. QED
    BY <2>1, <2>2, <2>3
<1>8. CASE Elsewhere
  <2>1. Clean(x)
    BY <1>3, <1>8 DEF Elsewhere, Before
  <2>. QED
    BY <1>6, <1>8, <2>1 DEF Elsewhere, rspVars
<1>9. ASSUME NEW r \in Reqs, NEW p \in Pids, PierStarts(r, p)
      PROVE  C(x)
  <2>1. /\ ppc[r] = "idle" /\ ppc' = [ppc EXCEPT ![r] = "openLock"]
        /\ pid' = [pid EXCEPT ![r] = p]
        /\ fifo' = [fifo EXCEPT ![p] = IF @ = None THEN r ELSE @]
        /\ \A q \in Reqs : PierAlive(q) => pid[q] # p
        /\ UNCHANGED <<out, rsent, rspBuf>>
    BY <1>9 DEF PierStarts, rspVars
  <2>2. pid[r] = None /\ pid[r] \notin Pids /\ out[r] = <<>> /\ rsent[r] = 0
    BY <2>1, ConstantsAssumption DEF PidInPlace
  <2>3. \A q \in Reqs : q # r => ppc'[q] = ppc[q] /\ pid'[q] = pid[q]
    BY <2>1 DEF TypeOK
  <2>4. CASE x # r
    <3>1. Clean(x)
      BY <1>2, <2>1, <2>3, <2>4 DEF Clean
    <3>2. PierAlive(x) => fifo'[pid[x]] = fifo[pid[x]]
      BY <1>5, <2>1 DEF TypeOK
    <3>. QED
      BY <1>6, <2>1, <2>3, <2>4, <3>1, <3>2
  <2>5. CASE x = r
    <3>. DEFINE n == fifo'[p]
    <3>1. /\ ppc'[x] = "openLock" /\ pid'[x] = p
          /\ n \in Reqs /\ (n = r \/ (n = fifo[p] /\ fifo[p] # None))
      BY <2>1, <2>5 DEF TypeOK
    <3>2. pid[n] = None \/ pid[n] = p
      BY <2>2, <3>1 DEF PidInPlace
    <3>. HIDE DEF n
    <3>3. RspReaders(n) = {}
      <4>. SUFFICES ASSUME NEW q \in RspReaders(n) PROVE FALSE
        OBVIOUS
      <4>1. q \in Reqs /\ PierAlive(q) /\ fifo[pid[q]] = n
        BY ReaderAlive
      <4>2. pid[n] = pid[q] /\ pid[q] \in Pids
        BY <1>5, <4>1
      <4>. QED
        BY <2>1, <3>2, <4>1, <4>2, ConstantsAssumption
    <3>4. RspWriters(n) = {}
      <4>. SUFFICES ASSUME NEW q \in RspWriters(n) PROVE FALSE
        OBVIOUS
      <4>1. q \in Reqs /\ rpc[q] \in {"opening", "write"} /\ rino[q] = n
        BY DEF RspWriters
      <4>2. pid[n] = pid[q] /\ pid[q] \in Pids
        BY <1>2, <4>1 DEF PidInPlace, FilesInPlace
      <4>3. pid[q] = p
        BY <3>2, <4>2, ConstantsAssumption
      <4>4. Clean(q)
        BY <1>2, <2>1, <2>3, <3>1, <4>3 DEF Clean
      <4>5. PierAlive(q)
        BY <4>1, <4>4, PierOfRespond
      <4>. QED
        BY <2>1, <4>1, <4>3, <4>5
    <3>5. rspBuf'[n] = <<>>
      BY <2>1, <3>1, <3>3, <3>4 DEF EndsMeet
    <3>. QED
      BY <2>1, <2>2, <2>5, <3>1, <3>5 DEF n, Ending
  <2>. QED
    BY <2>4, <2>5
<1>10. ASSUME NEW r \in Reqs, Refuses(r) \/ UnlinkRspFifo(r)
      PROVE  C(x)
  <2>1. /\ \/ /\ ppc[r] \in {"openLock", "lockWait", "openReq"}
              /\ ppc' = [ppc EXCEPT ![r] = "refused"]
           \/ ppc[r] = "unlink" /\ ppc' = [ppc EXCEPT ![r] = "done"]
        /\ fifo' = fifo \/ fifo' = [fifo EXCEPT ![pid[r]] = None]
        /\ UNCHANGED <<pid, out, rsent, rspBuf>>
    BY <1>10 DEF Refuses, Refuse, UnlinkRspFifo, rspVars
  <2>2. Clean(x) /\ PierAlive(r)
    BY <1>3, <1>4, <2>1 DEF TypeOK
  <2>3. CASE x = r
    BY <1>1, <2>1, <2>2, <2>3 DEF TypeOK, Ending
  <2>4. CASE x # r
    <3>1. PierAlive(x) => pid[x] # pid[r]
      BY <2>2, <2>4 DEF FilesInPlace
    <3>2. PierAlive(x) => fifo'[pid[x]] = fifo[pid[x]]
      BY <1>5, <2>1, <3>1 DEF TypeOK
    <3>3. ppc'[x] = ppc[x]
      BY <2>1, <2>4 DEF TypeOK
    <3>. QED
      BY <1>6, <2>1, <2>2, <3>2, <3>3
  <2>. QED
    BY <2>3, <2>4
<1>11. ASSUME NEW r \in Reqs, OpenRspFifo(r)
       PROVE  C(x)
  <2>1. /\ ppc[r] = "openRsp"
        /\ ppc' = [ppc EXCEPT ![r] = "waitRsp"] \/ ppc' = [ppc EXCEPT ![r] = "read"]
        /\ UNCHANGED <<pid, out, fifo, rsent, rspBuf>>
    BY <1>11 DEF OpenRspFifo
  <2>2. Clean(x)
    BY <1>3, <2>1 DEF TypeOK
  <2>3. CASE x = r
    <3>1. /\ out[x] = <<>> /\ rsent[x] = 0 /\ rspBuf[fifo[pid[x]]] = <<>>
          /\ ppc'[x] \in Waiting
      BY <1>1, <1>4, <2>1, <2>2, <2>3 DEF TypeOK, Ending
    <3>2. <<>> \o <<>> = <<>> /\ Prefix(x, 0) = <<>>
      BY Prefixes
    <3>. QED
      BY <2>1, <3>1, <3>2 DEF Ending
  <2>4. CASE x # r
    BY <1>6, <2>1, <2>2, <2>4 DEF TypeOK
  <2>. QED
    BY <2>3, <2>4
<1>12. ASSUME NEW r \in Reqs, ReadRsp(r)
       PROVE  C(x)
  <2>. DEFINE n == fifo[pid[r]]
  <2>1. /\ ppc[r] = "read" /\ rspBuf[n] # <<>>
        /\ out' = [out EXCEPT ![r] = Append(@, Head(rspBuf[n]))]
        /\ rspBuf' = [rspBuf EXCEPT ![n] = Tail(@)]
        /\ UNCHANGED <<ppc, pid, fifo, rsent>>
    BY <1>12 DEF ReadRsp, rspVars
  <2>2. Clean(x)
    BY <1>3, <2>1
  <2>3. PierAlive(r) /\ n \in Reqs
    BY <1>4, <1>5, <2>1
  <2>4. CASE x = r
    <3>. HIDE DEF n
    <3>1. out'[r] = Append(out[r], Head(rspBuf[n])) /\ rspBuf'[n] = Tail(rspBuf[n])
      BY <2>1, <2>3 DEF TypeOK
    <3>2. out[r] \in Seq(RspToken) /\ rspBuf[n] \in Seq(RspToken)
      BY <2>3 DEF TypeOK
    <3>3. Append(out[r], Head(rspBuf[n])) \o Tail(rspBuf[n]) = out[r] \o rspBuf[n]
      BY <2>1, <3>2, MoveHead
    <3>4. out'[r] \o rspBuf'[n] = out[r] \o rspBuf[n]
      BY <3>1, <3>3
    <3>. QED
      BY <1>1, <2>1, <2>2, <2>4, <3>4 DEF n, Ending
  <2>5. CASE x # r
    <3>1. out'[x] = out[x]
      BY <2>1, <2>5 DEF TypeOK
    <3>2. PierAlive(x) => rspBuf'[fifo[pid[x]]] = rspBuf[fifo[pid[x]]]
      BY <1>5, <2>1, <2>3, <2>5 DEF TypeOK
    <3>. QED
      BY <1>6, <2>1, <2>2, <3>1, <3>2
  <2>. QED
    BY <2>4, <2>5
<1>13. ASSUME NEW r \in Reqs, EndOfRsp(r)
       PROVE  C(x)
  <2>1. /\ ppc[r] = "read" /\ ppc' = [ppc EXCEPT ![r] = "closeRsp"]
        /\ rspBuf[fifo[pid[r]]] = <<>>
        /\ UNCHANGED <<pid, out, fifo, rsent, rspBuf>>
    BY <1>13 DEF EndOfRsp, rspVars
  <2>2. Clean(x)
    BY <1>3, <2>1 DEF TypeOK
  <2>3. CASE x = r
    <3>1. out[r] \o <<>> = out[r]
      BY MoveHead DEF TypeOK
    <3>2. ppc'[x] = "closeRsp"
      BY <2>1, <2>3 DEF TypeOK
    <3>. QED
      BY <1>1, <2>1, <2>2, <2>3, <3>1, <3>2 DEF Ending
  <2>4. CASE x # r
    BY <1>6, <2>1, <2>2, <2>4 DEF TypeOK
  <2>. QED
    BY <2>3, <2>4
<1>14. ASSUME NEW r \in Reqs, Unlock(r)
       PROVE  C(x)
  <2>1. /\ ppc[r] = "unlock" /\ ppc' = [ppc EXCEPT ![r] = "unlink"]
        /\ UNCHANGED <<pid, out, fifo, rsent, rspBuf>>
    BY <1>14 DEF Unlock, rspVars
  <2>2. Clean(x)
    BY <1>3, <2>1 DEF TypeOK
  <2>. QED
    BY <1>1, <1>4, <2>1, <2>2 DEF TypeOK, Ending
<1>15. ASSUME NEW r \in Reqs, CloseRspFifo(r) \/ PierDies(r)
       PROVE  C(x)
  <2>1. /\ \/ ppc[r] = "closeRsp" /\ ppc' = [ppc EXCEPT ![r] = "unlock"]
           \/ ppc' = [ppc EXCEPT ![r] = "dead"]
        /\ UNCHANGED <<pid, out, fifo, rsent>> /\ SettleRsp
    BY <1>15 DEF CloseRspFifo, PierDies, rspVars
  <2>2. Clean(x)
    BY <1>3, <2>1 DEF TypeOK
  <2>3. CASE x = r
    <3>1. ppc[x] = "closeRsp" /\ ppc'[x] = "unlock"
      BY <2>1, <2>3 DEF TypeOK
    <3>2. rspBuf[fifo[pid[x]]] = <<>> /\ fifo[pid[x]] \in Reqs
      BY <1>1, <1>4, <1>5, <2>2, <3>1
    <3>3. rspBuf'[fifo[pid[x]]] = <<>>
      BY <2>1, <3>2, SettleKeeps
    <3>. QED
      BY <1>1, <2>1, <2>2, <3>1, <3>3 DEF Ending
  <2>4. CASE x # r
    BY <1>7, <2>1, <2>2, <2>4 DEF TypeOK
  <2>. QED
    BY <2>3, <2>4
<1>16. ASSUME NEW c \in Conns, ClientActs(c)
       PROVE  C(x)
  <2>1. UNCHANGED <<ppc, pid, out, fifo, rsent, rspBuf>>
    BY <1>16, ClientStill DEF pierVars
  <2>. QED
    BY <1>3, <1>6, <2>1
<1>17. ASSUME NEW r \in Reqs, RespondAborts(r)
       PROVE  C(x)
  <2>1. UNCHANGED <<ppc, pid, out, fifo, rsent, rspBuf>>
    BY <1>17 DEF RespondAborts, pierVars
  <2>. QED
    BY <1>3, <1>6, <2>1
<1>18. ASSUME NEW r \in Reqs, RespondOpens(r)
       PROVE  C(x)
  <2>1. /\ \A q \in Reqs : ppc'[q] = ppc[q] \/ (ppc[q] = "waitRsp" /\ ppc'[q] = "read")
        /\ UNCHANGED <<pid, out, fifo, rsent, rspBuf>>
    BY <1>18 DEF RespondOpens
  <2>2. Clean(x)
    BY <1>3, <2>1
  <2>. QED
    BY <1>6, <2>1, <2>2
<1>19. ASSUME NEW r \in Reqs, WriteRsp(r)
       PROVE  C(x)
  <2>. DEFINE n == rino[r]
              t == Tok(r, rsent[r] + 1)
  <2>1. /\ rpc[r] = "write" /\ rsent[r] < RspLen /\ RspReaders(n) # {}
        /\ rsent' = [rsent EXCEPT ![r] = @ + 1]
        /\ rspBuf' = [rspBuf EXCEPT ![n] = Append(@, t)]
        /\ UNCHANGED <<ppc, pid, out, fifo>>
    BY <1>19 DEF WriteRsp, pierVars
  <2>2. Clean(x)
    BY <1>3, <2>1
  <2>3. n \in Reqs /\ pid[n] = pid[r]
    BY <1>2, <2>1 DEF FilesInPlace, PidInPlace
  <2>4. t \in RspToken /\ rsent[r] \in Nat
    BY <2>1 DEF TypeOK, RspToken, Tok
  <2>5. CASE x = r
    <3>1. PierAlive(r)
      BY <2>1, <2>2, <2>5, PierOfRespond
    <3>2. PICK q \in RspReaders(n) : TRUE
      BY <2>1
    <3>3. q \in Reqs /\ PierAlive(q) /\ fifo[pid[q]] = n /\ ppc[q] \in Reading
      BY ReaderAlive
    <3>4. q = r
      BY <1>5, <2>3, <3>1, <3>3 DEF FilesInPlace
    <3>5. ppc[r] \in Waiting
      BY <2>1, <2>2, <2>5, <3>3, <3>4 DEF OwnAnswers, Attended, Reading, Ending
    <3>. HIDE DEF n, t
    <3>6. rspBuf'[n] = Append(rspBuf[n], t) /\ rsent'[r] = rsent[r] + 1
      BY <2>1, <2>3 DEF TypeOK
    <3>7. out[r] \o rspBuf'[n] = Append(out[r] \o rspBuf[n], t)
      <4>1. out[r] \in Seq(RspToken) /\ rspBuf[n] \in Seq(RspToken)
        BY <2>3 DEF TypeOK
      <4>2. out[r] \o Append(rspBuf[n], t) = Append(out[r] \o rspBuf[n], t)
        BY <2>4, <4>1, MoveHead
      <4>. QED
        BY <3>6, <4>2
    <3>8. out[r] \o rspBuf'[n] = Prefix(r, rsent'[r])
      BY <1>1, <2>2, <2>4, <2>5, <3>3, <3>4, <3>5, <3>6, <3>7, Prefixes, ZenonT(40) DEF t
    <3>. QED
      BY <2>1, <2>5, <3>3, <3>4, <3>5, <3>8 DEF Ending
  <2>6. CASE x # r
    <3>1. PierAlive(x) => fifo[pid[x]] # n
      BY <1>5, <2>1, <2>2, <2>3, <2>6, OnlyOwnRespond
    <3>2. PierAlive(x) => rspBuf'[fifo[pid[x]]] = rspBuf[fifo[pid[x]]]
      BY <1>5, <2>1, <3>1 DEF TypeOK
    <3>3. rsent'[x] = rsent[x]
      BY <2>1, <2>6 DEF TypeOK
    <3>. QED
      BY <1>6, <2>1, <2>2, <3>2, <3>3
  <2>. QED
    BY <2>5, <2>6
<1>20. ASSUME NEW r \in Reqs, RespondEnds(r) \/ RespondDies(r)
       PROVE  C(x)
  <2>1. UNCHANGED <<ppc, pid, out, fifo, rsent>> /\ SettleRsp
    BY <1>20 DEF RespondEnds, RespondDies, pierVars
  <2>. QED
    BY <1>3, <1>7, <2>1
<1>. QED
  BY <1>8, <1>9, <1>10, <1>11, <1>12, <1>13, <1>14, <1>15, <1>17, <1>18, <1>19, <1>20, <1>16, AnswerSide

-----------------------------------------------------------------------------
(* The theorems.                                                             *)

\* Before any process starts there is no answer.
LEMMA InitAInv == Init => AInv
  BY DEF Init, AInv, PidInPlace, EndsMeet, OwnAnswers, Clean, Attended, Copied, Unsent,
         SentTo, Ending, PierAlive, RspWriters, RspReaders, Elems

\* The invariant on answers is inductive with those on files and requests.
LEMMA AInvStep == IInv /\ Delivery /\ PInv /\ AInv /\ [Next]_vars => AInv'
<1>. SUFFICES ASSUME IInv, Delivery, PInv, AInv, [Next]_vars
              PROVE  AInv'
  OBVIOUS
<1>1. PidInPlace' /\ EndsMeet'
  BY PidStep, EndsStep DEF AInv
<1>2. \A r \in Reqs : Clean(r)' => Attended(r)' /\ Copied(r)'
  BY AttendedStep, CopiedStep DEF AInv
<1>3. OwnAnswers'
  BY <1>2 DEF OwnAnswers
<1>. QED
  BY <1>1, <1>3 DEF AInv

\* It holds in every reachable state.
LEMMA AnswersKept == Spec => [](IInv /\ AInv)
<1>1. TypeOK /\ FilesInPlace /\ Delivery /\ PInv /\ AInv /\ [Next]_vars => AInv'
  BY AInvStep DEF IInv
<1>2. TypeOK /\ FilesInPlace => IInv
  BY DEF IInv
<1>. QED
  BY <1>1, <1>2, InitAInv, PlaceKept, PTL DEF Spec

\* A browser is given what was sent to its Pier's pid, blocks of the answer to
\* its own request; they can be of another's only behind a killed Pier that had
\* its Pier's pid, or when the client may have lost its place.
THEOREM IsolationAlways == Spec => []Isolation
<1>1. IInv /\ AInv => Isolation
  <2>. SUFFICES ASSUME TypeOK, FilesInPlace, AInv, NEW r \in Reqs, NEW t \in Elems(out[r])
                PROVE  /\ to[t.req] = pid[r]
                       /\ \/ t.req = r
                          \/ pid[t.req] = pid[r] /\ \E q \in Reqs : ppc[q] = "dead" /\ pid[q] = pid[r]
                          \/ Confused
    BY DEF IInv, Isolation
  <2>1. rpc[t.req] # "none" /\ to[t.req] = pid[r]
    BY DEF AInv, PidInPlace, SentTo
  <2>2. Confused \/ pid[t.req] = pid[r]
    <3>1. t.req \in Reqs
      <4>1. Elems(out[r]) \subseteq RspToken
        BY ElemsOfSeq DEF TypeOK
      <4>. QED
        BY <4>1 DEF RspToken
    <3>. QED
      BY <2>1, <3>1 DEF AInv, PidInPlace
  <2>3. ASSUME Clean(r)
        PROVE  t.req = r
    <3>1. PICK k \in DOMAIN out[r] : t = out[r][k]
      BY DEF Elems
    <3>2. out[r] \in Seq(RspToken) /\ out[r] # <<>>
      BY <3>1 DEF TypeOK
    <3>3. DOMAIN Prefix(r, rsent[r]) = 1..rsent[r]
          /\ \A i \in 1..rsent[r] : Prefix(r, rsent[r])[i].req = r
      BY DEF Prefix, Tok
    <3>4. ppc[r] \in Ending \cup {"waitRsp", "read"}
      BY <2>3, <3>2 DEF AInv, OwnAnswers, Copied
    <3>5. CASE ppc[r] \in Ending
      BY <2>3, <3>1, <3>3, <3>5 DEF AInv, OwnAnswers, Copied
    <3>6. CASE ppc[r] \in {"waitRsp", "read"}
      <4>1. PICK b \in Seq(RspToken) : out[r] \o b = Prefix(r, rsent[r])
        <5>1. fifo[pid[r]] \in Reqs
          BY <3>6 DEF FilesInPlace, PierAlive
        <5>. QED
          BY <2>3, <3>6, <5>1 DEF AInv, OwnAnswers, Copied, TypeOK
      <4>2. /\ DOMAIN (out[r] \o b) = 1..Len(out[r]) + Len(b)
            /\ (out[r] \o b)[k] = out[r][k] /\ k \in 1..Len(out[r]) + Len(b)
        BY <3>1, <3>2
      <4>. QED
        BY <3>1, <3>3, <4>1, <4>2
    <3>. QED
      BY <3>4, <3>5, <3>6
  <2>. QED
    BY <2>1, <2>3, <2>2 DEF Clean
<1>. QED
  BY <1>1, AnswersKept, PTL

\* A Pier that ends normally has given its browser the whole answer, each block
\* once and in order, unless the sender of it or some Pier died, or the client
\* may have lost its place.
THEOREM WholeAnswerAlways == Spec => []WholeAnswer
<1>1. IInv /\ AInv => WholeAnswer
  <2>. SUFFICES ASSUME TypeOK, FilesInPlace, AInv, NEW r \in Reqs, ppc[r] = "done",
                       \A q \in Reqs : ppc[q] # "dead", rpc[r] # "dead", ~Confused
                PROVE  out[r] = Answer(r)
    BY DEF IInv, WholeAnswer
  <2>1. Attended(r) /\ Copied(r)
    BY DEF AInv, OwnAnswers, Clean
  <2>2. rpc[r] = "done" /\ out[r] = Prefix(r, rsent[r])
    BY <2>1 DEF Attended, Copied, Ending
  <2>3. rsent[r] = RspLen
    BY <2>2 DEF AInv, EndsMeet
  <2>. QED
    BY <2>2, <2>3 DEF Prefix, Answer
<1>. QED
  BY <1>1, AnswersKept, PTL

-----------------------------------------------------------------------------
(* What the steps of the service rest on.                                    *)

\* Where the Pier has closed the request FIFO.
Waits == {"openRsp", "waitRsp", "read", "closeRsp", "unlock", "unlink", "done"}

\* A Pier waits for its answer when some of its request is written; a child is
\* forked for a request of which the client received some, and, unless it is
\* confused, all.
Grounds ==
  /\ \A r \in Reqs : ppc[r] \in Waits => sent[r] # 0
  /\ \A q \in Reqs : rpc[q] # "none" =>
       /\ \E i \in 1..ReqLen : Tok(q, i) \in Received
       /\ ~Confused => \A i \in 1..ReqLen : Tok(q, i) \in Received

\* What the client has received changes only when it reads.
LEMMA ReceivedStep ==
  ASSUME TypeOK, Delivery, [Next]_vars
  PROVE  /\ \/ Received' = Received
            \/ \E c \in Conns : ReadReq(c)
         /\ \A c \in Conns : ReadReq(c) =>
              /\ Head(reqBuf) \notin Received \cup dropped
              /\ Received' = Received \cup {Head(reqBuf)}
<1>1. /\ Elems(reqBuf) \subseteq ReqToken /\ dropped \subseteq ReqToken
      /\ \A t \in Elems(reqBuf) \cup dropped : t.i <= sent[t.req]
  BY ElemsOfSeq DEF TypeOK, Delivery, OnlySent
<1>2. ASSUME Quiet
      PROVE  Received' = Received
  <2>1. Elems(<<>>) = {}
    BY DEF Elems
  <2>2. sent' = sent /\ Elems(reqBuf') \cup dropped' = Elems(reqBuf) \cup dropped
    BY <1>2, <2>1 DEF Quiet, Discards
  <2>. QED
    BY <2>2, PrimedElems DEF Received
<1>3. ASSUME NEW r \in Reqs, WriteReq(r)
      PROVE  Received' = Received
  <2>. DEFINE t == Tok(r, sent[r] + 1)
  <2>1. /\ sent' = [sent EXCEPT ![r] = @ + 1] /\ reqBuf' = Append(reqBuf, t)
        /\ dropped' = dropped /\ sent[r] < ReqLen /\ sent[r] \in Nat
    BY <1>3 DEF WriteReq, TypeOK
  <2>2. t \in ReqToken
    BY <2>1 DEF Tok, ReqToken
  <2>3. Elems(reqBuf') = Elems(reqBuf) \cup {t}
    BY <2>2, <2>1, ElemsOfSeq DEF TypeOK
  <2>4. ASSUME NEW e \in ReqToken
        PROVE  e.i <= sent'[e.req] <=> e.i <= sent[e.req] \/ e = t
    <3>1. e.req \in Reqs /\ e.i \in Nat /\ sent[e.req] \in Nat /\ e = Tok(e.req, e.i)
      BY DEF ReqToken, Tok, TypeOK
    <3>2. CASE e.req # r
      BY <2>1, <3>1, <3>2 DEF TypeOK, Tok
    <3>3. CASE e.req = r
      <4>1. e = t <=> e.i = sent[r] + 1
        BY <3>1, <3>3 DEF Tok
      <4>2. sent'[e.req] = sent[r] + 1
        BY <2>1, <3>3 DEF TypeOK
      <4>. QED
        BY <2>1, <3>1, <3>3, <4>1, <4>2
    <3>. QED
      BY <3>2, <3>3
  <2>5. ~(t.i <= sent[t.req])
    BY DEF Tok, TypeOK
  <2>. HIDE DEF t
  <2>. QED
    BY <1>1, <2>2, <2>1, <2>3, <2>4, <2>5, PrimedElems DEF Received
<1>4. ASSUME NEW c \in Conns, ReadReq(c)
      PROVE  /\ Head(reqBuf) \notin Received \cup dropped
             /\ Received' = Received \cup {Head(reqBuf)}
  <2>1. /\ reqBuf # <<>> /\ reqBuf' = Tail(reqBuf)
        /\ UNCHANGED <<sent, dropped>>
    BY <1>4 DEF ReadReq, pierVars
  <2>2. /\ Elems(reqBuf) = {Head(reqBuf)} \cup Elems(reqBuf')
        /\ Head(reqBuf) \notin Elems(reqBuf')
    BY <2>1, HeadOnce DEF TypeOK, Delivery
  <2>3. Head(reqBuf) \notin dropped
    BY <2>2 DEF Delivery, DeliveredOnce
  <2>. QED
    BY <1>1, <2>1, <2>2, <2>3, PrimedElems DEF Received
<1>5. ASSUME NEW c \in Conns, ConnectStarts(c)
      PROVE  Received' = Received
  BY <1>5, PrimedElems DEF ConnectStarts, pierVars, Received
<1>. QED
  BY <1>2, <1>3, <1>4, <1>5, RequestSide

\* No step takes back what the client received or what a Pier wrote.
LEMMA GroundsStep ==
  IInv /\ Delivery /\ PInv /\ Grounds /\ [Next]_vars => Grounds'
<1>. SUFFICES ASSUME IInv, TypeOK, FilesInPlace, Delivery, PInv, Grounds, [Next]_vars
              PROVE  Grounds'
  BY DEF IInv
<1>1. Received \subseteq Received'
  BY ReceivedStep
<1>2. ASSUME NEW r \in Reqs, ppc[r] \in Waits
      PROVE  sent'[r] # 0
  <2>1. sent[r] # 0
    BY <1>2 DEF Grounds
  <2>2. ASSUME NEW q \in Reqs, WriteReq(q)
        PROVE  sent'[r] = sent[r]
    BY <1>2, <2>2 DEF WriteReq, TypeOK, Waits
  <2>. QED
    BY <2>1, <2>2, RequestSide DEF Quiet, ReadReq, ConnectStarts, pierVars
<1>3. ASSUME NEW r \in Reqs, ppc'[r] \in Waits
      PROVE  ppc[r] \in Waits \/ (sent[r] # 0 /\ sent' = sent)
  <2>1. CASE Elsewhere
    <3>1. ppc'[r] = ppc[r] \/ (ppc[r] \in Before /\ ppc'[r] \in Before /\ sent[r] # 0)
      BY <1>3, <2>1 DEF Elsewhere, Before, Waits
    <3>2. ASSUME NEW q \in Reqs, WriteReq(q)
          PROVE  ppc' = ppc
      BY <3>2 DEF WriteReq
    <3>. QED
      BY <1>3, <3>1, <3>2, RequestSide DEF Quiet, ReadReq, ConnectStarts, pierVars
  <2>2. ASSUME NEW q \in Reqs, (\E p \in Pids : PierStarts(q, p)) \/ Refuses(q)
        PROVE  ppc[r] \in Waits
    BY <1>3, <2>2 DEF PierStarts, Refuses, Refuse, TypeOK, Waits
  <2>3. ASSUME NEW q \in Reqs, OpenRspFifo(q) \/ ReadRsp(q) \/ EndOfRsp(q)
        PROVE  ppc[r] \in Waits
    BY <1>3, <2>3 DEF OpenRspFifo, ReadRsp, EndOfRsp, TypeOK, Waits
  <2>4. ASSUME NEW q \in Reqs, CloseRspFifo(q) \/ Unlock(q) \/ UnlinkRspFifo(q) \/ PierDies(q)
        PROVE  ppc[r] \in Waits
    BY <1>3, <2>4 DEF CloseRspFifo, Unlock, UnlinkRspFifo, PierDies, TypeOK, Waits
  <2>5. ASSUME NEW c \in Conns, ClientActs(c)
        PROVE  ppc[r] \in Waits
    BY <1>3, <2>5, ClientStill DEF pierVars
  <2>6. ASSUME NEW q \in Reqs, RespondOpens(q) \/ RespondAborts(q)
        PROVE  ppc[r] \in Waits
    BY <1>3, <2>6 DEF RespondOpens, RespondAborts, pierVars, Waits
  <2>7. ASSUME NEW q \in Reqs, WriteRsp(q) \/ RespondEnds(q) \/ RespondDies(q)
        PROVE  ppc[r] \in Waits
    BY <1>3, <2>7 DEF WriteRsp, RespondEnds, RespondDies, pierVars
  <2>. QED
    BY <2>1, <2>2, <2>3, <2>4, <2>6, <2>7, <2>5, AnswerSide
<1>4. ASSUME NEW q \in Reqs
      PROVE  \/ rpc[q] = "none" /\ rpc'[q] = "none"
             \/ rpc[q] # "none" /\ rpc'[q] # "none"
             \/ \E p \in Pids : ForkedRightly(q, p)
  <2>1. CASE Elsewhere
    BY <2>1 DEF Elsewhere, rspVars
  <2>2. ASSUME NEW r \in Reqs, (\E p \in Pids : PierStarts(r, p)) \/ Refuses(r)
        PROVE  rpc' = rpc
    BY <2>2 DEF PierStarts, Refuses, Refuse, rspVars
  <2>3. ASSUME NEW r \in Reqs, OpenRspFifo(r) \/ ReadRsp(r) \/ EndOfRsp(r)
        PROVE  \/ rpc[q] = "none" /\ rpc'[q] = "none"
               \/ rpc[q] # "none" /\ rpc'[q] # "none"
    BY <2>3 DEF OpenRspFifo, ReadRsp, EndOfRsp, rspVars
  <2>4. ASSUME NEW r \in Reqs, CloseRspFifo(r) \/ Unlock(r) \/ UnlinkRspFifo(r) \/ PierDies(r)
        PROVE  rpc' = rpc
    BY <2>4 DEF CloseRspFifo, Unlock, UnlinkRspFifo, PierDies, rspVars
  <2>5. ASSUME NEW c \in Conns, ClientActs(c)
        PROVE  \/ rpc'[q] = rpc[q]
               \/ \E p \in Pids : ForkedRightly(q, p)
    BY <2>5, ClientForks DEF ForkedRightly
  <2>6. ASSUME NEW r \in Reqs, RespondOpens(r) \/ RespondAborts(r)
        PROVE  \/ rpc[q] = "none" /\ rpc'[q] = "none"
               \/ rpc[q] # "none" /\ rpc'[q] # "none"
    BY <2>6 DEF RespondOpens, RespondAborts, TypeOK
  <2>7. ASSUME NEW r \in Reqs, WriteRsp(r) \/ RespondEnds(r) \/ RespondDies(r)
        PROVE  \/ rpc[q] = "none" /\ rpc'[q] = "none"
               \/ rpc[q] # "none" /\ rpc'[q] # "none"
    BY <2>7 DEF WriteRsp, RespondEnds, RespondDies, TypeOK
  <2>. QED
    BY <2>1, <2>2, <2>3, <2>4, <2>6, <2>7, <2>5, AnswerSide
<1>5. ASSUME NEW q \in Reqs, rpc'[q] # "none"
      PROVE  /\ \E i \in 1..ReqLen : Tok(q, i) \in Received
             /\ ~Confused => \A i \in 1..ReqLen : Tok(q, i) \in Received
  BY <1>4, <1>5 DEF Grounds, ForkedRightly
<1>6. Confused => Confused'
  BY TypeStep, ConfusedStays
<1>. QED
  <2>1. \A r \in Reqs : ppc'[r] \in Waits => sent'[r] # 0
    BY <1>2, <1>3
  <2>2. \A q \in Reqs : rpc'[q] # "none" =>
          /\ \E i \in 1..ReqLen : Tok(q, i) \in Received'
          /\ ~Confused' => \A i \in 1..ReqLen : Tok(q, i) \in Received'
    BY <1>1, <1>5, <1>6
  <2>. QED
    BY <2>1, <2>2 DEF Grounds, Tok

-----------------------------------------------------------------------------
(* The state of the service.                                                 *)

phases == [r \in Reqs |-> Phase(r)]
isCut  == leaves > 0

\* How far a request is of which n tokens are written and whose Pier's control
\* state is s.
PhaseOf(s, n) ==
  CASE s = "idle"                     -> "new"
    [] s \in {"openLock", "lockWait"} -> "asking"
    [] s \in Locked                   -> IF n \in 1..ReqLen - 1 /\ s # "write" THEN "short" ELSE "turn"
    [] s \in {"unlink", "done"}       -> "answered"
    [] s = "refused"                  -> "refused"
    [] OTHER                          -> "lost"

\* The phases follow the control states, before and after a step.
LEMMA PhasesAre ==
  /\ phases = [r \in Reqs |-> PhaseOf(ppc[r], sent[r])]
  /\ phases' = [r \in Reqs |-> PhaseOf(ppc'[r], sent'[r])]
  BY DEF phases, Phase, PhaseOf, Torn, Locked

\* Every control state has the phase its stretch of Pier() stands for.
LEMMA PhaseTable ==
  ASSUME NEW n
  PROVE  /\ PhaseOf("idle", n) = "new"
         /\ \A s \in {"openLock", "lockWait"} : PhaseOf(s, n) = "asking"
         /\ \A s \in Locked : n \notin 1..ReqLen - 1 \/ s = "write" => PhaseOf(s, n) = "turn"
         /\ \A s \in Locked \ {"write"} : n \in 1..ReqLen - 1 => PhaseOf(s, n) = "short"
         /\ \A s \in Locked : PhaseOf(s, n) \in {"turn", "short"}
         /\ \A s, u \in Locked \ {"write"} : PhaseOf(s, n) = PhaseOf(u, n)
         /\ \A s \in {"unlink", "done"} : PhaseOf(s, n) = "answered"
         /\ PhaseOf("refused", n) = "refused"
         /\ PhaseOf("dead", n) = "lost"
  BY DEF PhaseOf, Locked

Moves(r, s) == ppc' = [ppc EXCEPT ![r] = s] /\ sent' = sent

\* A Pier that moves to s moves its request to the phase of s, and no other.
LEMMA PhaseMoves ==
  ASSUME TypeOK, NEW r \in Reqs, NEW s, Moves(r, s)
  PROVE  /\ phases[r] = PhaseOf(ppc[r], sent[r])
         /\ phases' = [phases EXCEPT ![r] = PhaseOf(s, sent[r])]
         /\ PhaseOf(s, sent[r]) = PhaseOf(ppc[r], sent[r]) => phases' = phases
  BY PhasesAre DEF TypeOK, Moves

\* What is discarded was never received.
LEMMA ReceivedKept ==
  ASSUME sent' = sent,
         UNCHANGED <<reqBuf, dropped>> \/ (reqBuf' = <<>> /\ dropped' = dropped \cup Elems(reqBuf))
  PROVE  Received' = Received
<1>1. Elems(<<>>) = {}
  BY DEF Elems
<1>2. Elems(reqBuf') \cup dropped' = Elems(reqBuf) \cup dropped
  BY <1>1
<1>. QED
  BY <1>2, PrimedElems DEF Received

-----------------------------------------------------------------------------
(* The refinement.                                                           *)

Stutters == UNCHANGED <<phases, owner, sent, reqBuf, Received, dropped, out, isCut>>

\* Discarding what is buffered is a Spill, or nothing when it is not done.
LEMMA SettleSpills ==
  ASSUME SettleReq
  PROVE  Service!Spilt \/ UNCHANGED <<reqBuf, dropped>>
  BY DEF SettleReq, Service!Spilt, Service!Members, Elems

\* Without a process the service has not begun.
LEMMA InitImplements == Init => Service!Init /\ Grounds
<1>. SUFFICES ASSUME Init
              PROVE  Service!Init /\ Grounds
  OBVIOUS
<1>1. phases = [r \in Reqs |-> "new"]
  BY PhasesAre, PhaseTable DEF Init
<1>2. Received = {}
  BY DEF Init, Received, Elems, ReqToken
<1>3. Service!Init
  BY <1>1, <1>2 DEF Init, Service!Init, phases
<1>4. Grounds
  BY DEF Init, Grounds, Waits
<1>. QED
  BY <1>3, <1>4

\* What a step of Cgi is to the service.
LEMMA StepImplements ==
  IInv /\ LockHeld /\ Delivery /\ PInv /\ AInv /\ Grounds /\ [Next]_vars
    => [Service!Next]_(Service!vars)
<1>. SUFFICES ASSUME TypeOK, FilesInPlace, LockHeld, Delivery, PInv, AInv, Grounds, [Next]_vars
              PROVE  Service!Next \/ Stutters
  BY DEF IInv, Stutters, Service!vars, phases, isCut
<1>. USE DEF pierVars, connVars, rspVars, isCut
<1>1. \A r \in Reqs : ppc[r] \in Unsent => sent[r] = 0 /\ sent[r] \notin 1..ReqLen - 1
  BY DEF Delivery, OnlySent
<1>2. ASSUME NEW r \in Reqs, ppc[r] \in Waits, ppc[r] \in Locked
       PROVE  sent[r] = ReqLen \/ phases[r] = "short"
  <2>1. sent[r] # 0 /\ sent[r] \in 0..ReqLen /\ ReqLen \in Nat
    BY <1>2 DEF Grounds, TypeOK
  <2>2. sent[r] = ReqLen \/ sent[r] \in 1..ReqLen - 1
    BY <2>1
  <2>3. ppc[r] \in Locked \ {"write"}
    BY <1>2 DEF Waits
  <2>. QED
    BY <2>2, <2>3, PhasesAre, PhaseTable
<1>3. ASSUME NEW r \in Reqs, NEW p \in Pids, PierStarts(r, p)
      PROVE  Service!Ask(r)
  <2>1. Received' = Received
    BY <1>3, ReceivedKept DEF PierStarts
  <2>2. phases[r] = "new" /\ phases' = [phases EXCEPT ![r] = "asking"]
    <3>1. Moves(r, "openLock") /\ ppc[r] = "idle"
      BY <1>3 DEF PierStarts, Moves
    <3>. QED
      BY <3>1, PhaseMoves, PhaseTable
  <2>. QED
    BY <1>3, <2>1, <2>2 DEF PierStarts, Service!Ask, phases
<1>4. ASSUME NEW r \in Reqs, OpenLock(r)
      PROVE  Stutters
  <2>1. Received' = Received
    BY <1>4, ReceivedKept DEF OpenLock
  <2>2. phases' = phases
    <3>1. Moves(r, "lockWait") /\ ppc[r] = "openLock"
      BY <1>4 DEF OpenLock, Moves
    <3>. QED
      BY <3>1, PhaseMoves, PhaseTable
  <2>. QED
    BY <1>4, <2>1, <2>2 DEF OpenLock, Stutters
<1>5. ASSUME NEW r \in Reqs, TakeLock(r)
      PROVE  Service!Begin(r)
  <2>1. Received' = Received
    BY <1>5, ReceivedKept DEF TakeLock
  <2>2. phases[r] = "asking" /\ phases' = [phases EXCEPT ![r] = "turn"]
    <3>1. Moves(r, "openReq") /\ ppc[r] = "lockWait"
      BY <1>5 DEF TakeLock, Moves
    <3>. QED
      BY <1>1, <3>1, PhaseMoves, PhaseTable DEF Locked, Unsent
  <2>. QED
    BY <1>5, <2>1, <2>2 DEF TakeLock, Service!Begin, phases
<1>6. ASSUME NEW r \in Reqs, Refuses(r)
      PROVE  Service!Refuse(r)
  <2>1. Received' = Received
    BY <1>6, ReceivedKept DEF Refuses, Refuse
  <2>2. sent[r] = 0
    BY <1>6 DEF Refuses, Delivery, OnlySent, Unsent
  <2>3. phases[r] \in {"asking", "turn"} /\ phases' = [phases EXCEPT ![r] = "refused"]
    <3>1. Moves(r, "refused") /\ ppc[r] \in {"openLock", "lockWait", "openReq"}
      BY <1>6 DEF Refuses, Refuse, Moves
    <3>. QED
      BY <1>1, <3>1, PhaseMoves, PhaseTable DEF Locked, Unsent
  <2>. QED
    BY <1>6, <2>1, <2>2, <2>3 DEF Refuses, Refuse, Service!Refuse, Service!Leave, phases
<1>7. ASSUME NEW r \in Reqs, OpenReqFifo(r)
      PROVE  Stutters
  <2>1. Received' = Received
    BY <1>7, ReceivedKept DEF OpenReqFifo
  <2>2. PICK s \in {"blocked", "write"} : Moves(r, s)
    BY <1>7 DEF OpenReqFifo, Moves
  <2>3. phases' = phases
    <3>1. ppc[r] = "openReq"
      BY <1>7 DEF OpenReqFifo
    <3>. QED
      BY <1>1, <2>2, <3>1, PhaseMoves, PhaseTable DEF Locked, Unsent
  <2>. QED
    BY <1>7, <2>1, <2>3 DEF OpenReqFifo, Stutters
<1>8. ASSUME NEW r \in Reqs, WriteReq(r)
      PROVE  Service!Write(r)
  <2>1. ~\E c \in Conns : ReadReq(c)
    BY <1>8 DEF WriteReq, ReadReq, TypeOK
  <2>2. Received' = Received
    BY <2>1, ReceivedStep
  <2>3. phases' = phases
    <3>1. /\ ppc' = ppc /\ ppc[r] = "write" /\ sent' = [sent EXCEPT ![r] = @ + 1]
      BY <1>8 DEF WriteReq
    <3>2. \A q \in Reqs : PhaseOf(ppc'[q], sent'[q]) = PhaseOf(ppc[q], sent[q])
      BY <3>1, PhaseTable DEF Locked, TypeOK
    <3>. QED
      BY <3>2, PhasesAre
  <2>4. phases[r] = "turn"
    BY <1>8, PhasesAre, PhaseTable DEF WriteReq, Locked
  <2>5. owner = r
    BY <1>8 DEF WriteReq, LockHeld, Locked
  <2>. QED
    BY <1>8, <2>2, <2>3, <2>5, <2>4 DEF WriteReq, Service!Write, phases, Tok
<1>9. ASSUME NEW r \in Reqs, BodyEnds(r)
      PROVE  Service!Spill \/ Stutters
  <2>1. SettleReq /\ CloseReqFifo(r) /\ ppc[r] = "write" /\ sent[r] \notin 1..ReqLen - 1
    BY <1>9 DEF BodyEnds, CloseReqFifo
  <2>2. Received' = Received
    BY <2>1, ReceivedKept DEF CloseReqFifo, SettleReq
  <2>3. phases' = phases
    <3>1. Moves(r, "openRsp")
      BY <2>1 DEF CloseReqFifo, Moves
    <3>. QED
      BY <2>1, <3>1, PhaseMoves, PhaseTable DEF Locked
  <2>. QED
    BY <2>1, <2>2, <2>3, SettleSpills DEF CloseReqFifo, Service!Spill, Stutters, phases
<1>10. ASSUME NEW r \in Reqs, BodyEndsEarly(r)
       PROVE  Service!Break(r)
  <2>1. SettleReq /\ CloseReqFifo(r) /\ ppc[r] = "write" /\ sent[r] \in 1..ReqLen - 1
    BY <1>10 DEF BodyEndsEarly, CloseReqFifo
  <2>2. Received' = Received
    BY <2>1, ReceivedKept DEF CloseReqFifo, SettleReq
  <2>3. phases[r] = "turn" /\ phases' = [phases EXCEPT ![r] = "short"]
    <3>1. Moves(r, "openRsp")
      BY <2>1 DEF CloseReqFifo, Moves
    <3>. QED
      BY <2>1, <3>1, PhaseMoves, PhaseTable DEF Locked
  <2>4. owner = r
    BY <2>1 DEF LockHeld, Locked
  <2>. QED
    BY <2>1, <2>2, <2>3, <2>4, SettleSpills DEF CloseReqFifo, Service!Break, phases
<1>11. ASSUME NEW r \in Reqs, OpenRspFifo(r)
      PROVE  Stutters
  <2>1. Received' = Received
    BY <1>11, ReceivedKept DEF OpenRspFifo
  <2>2. PICK s \in {"waitRsp", "read"} : Moves(r, s)
    BY <1>11 DEF OpenRspFifo, Moves
  <2>3. phases' = phases
    <3>1. ppc[r] = "openRsp"
      BY <1>11 DEF OpenRspFifo
    <3>2. {s, "openRsp"} \subseteq Locked \ {"write"}
      BY <2>2 DEF Locked
    <3>. QED
      BY <2>2, <3>1, <3>2, PhaseMoves, PhaseTable
  <2>. QED
    BY <1>11, <2>1, <2>3 DEF OpenRspFifo, Stutters
<1>12. ASSUME NEW r \in Reqs, ReadRsp(r)
      PROVE  Service!Reply(r)
  <2>. DEFINE n == fifo[pid[r]]
  <2>1. /\ n \in Reqs /\ rspBuf[n] # <<>> /\ rspBuf[n] \in Seq(RspToken)
    BY <1>12 DEF ReadRsp, FilesInPlace, PierAlive, TypeOK
  <2>2. PICK t \in Elems(rspBuf[n]) : t \in RspToken /\ t = Head(rspBuf[n])
    BY <2>1, ElemsOfSeq
  <2>3. out' = [out EXCEPT ![r] = Append(@, t)]
    BY <1>12, <2>2 DEF ReadRsp
  <2>4. /\ \E i \in 1..ReqLen : Tok(t.req, i) \in Received
        /\ ~Confused => \A i \in 1..ReqLen : Tok(t.req, i) \in Received
    <3>1. rpc[t.req] # "none" /\ t.req \in Reqs
      BY <2>1, <2>2 DEF AInv, PidInPlace, SentTo, RspToken
    <3>. QED
      BY <3>1 DEF Grounds
  <2>5. /\ Service!Whole(t.req) \cap Received # {}
        /\ ~Confused => Service!Whole(t.req) \subseteq Received
    BY <2>4 DEF Service!Whole, Tok
  <2>6. t \in [req : Reqs, i : 1..RspLen]
    BY <2>2 DEF RspToken
  <2>7. Received' = Received
    BY <1>12, ReceivedKept DEF ReadRsp
  <2>8. phases' = phases
    BY <1>12, PhasesAre DEF ReadRsp
  <2>9. owner = r /\ Service!Asked(r)
    <3>1. owner = r
      BY <1>12 DEF ReadRsp, LockHeld, Locked
    <3>2. sent[r] = ReqLen \/ phases[r] = "short"
      BY <1>12, <1>2 DEF ReadRsp, Waits, Locked
    <3>. QED
      BY <3>1, <3>2 DEF Service!Asked, phases
  <2>10. Confused => Service!Confusing
    <3>1. ASSUME NEW q \in Reqs, Torn(q)
          PROVE  sent[q] \in 1..ReqLen - 1 /\ phases[q] # "turn"
      BY <3>1 DEF Torn, phases, Phase
    <3>. QED
      BY <3>1 DEF Confused, Service!Confusing, phases
  <2>11. \/ Service!Whole(t.req) \subseteq Received
         \/ Service!Confusing /\ Service!Whole(t.req) \cap Received # {}
    BY <2>5, <2>10
  <2>12. UNCHANGED <<owner, sent, reqBuf, dropped, leaves>>
    BY <1>12 DEF ReadRsp
  <2>. QED
    BY <2>3, <2>6, <2>7, <2>8, <2>9, <2>11, <2>12 DEF Service!Reply, phases
<1>13. ASSUME NEW r \in Reqs, EndOfRsp(r) \/ CloseRspFifo(r) \/ UnlinkRspFifo(r)
       PROVE  Stutters
  <2>1. Received' = Received
    BY <1>13, ReceivedKept DEF EndOfRsp, CloseRspFifo, UnlinkRspFifo
  <2>2. \/ ppc[r] \in Locked \ {"write"} /\ \E s \in Locked \ {"write"} : Moves(r, s)
        \/ ppc[r] = "unlink" /\ Moves(r, "done")
    BY <1>13 DEF EndOfRsp, CloseRspFifo, UnlinkRspFifo, Locked, Moves
  <2>3. phases' = phases
    BY <2>2, PhaseMoves, PhaseTable
  <2>. QED
    BY <1>13, <2>1, <2>3 DEF EndOfRsp, CloseRspFifo, UnlinkRspFifo, Stutters
<1>14. ASSUME NEW r \in Reqs, Unlock(r)
       PROVE  Service!Finish(r)
  <2>1. Received' = Received
    BY <1>14, ReceivedKept DEF Unlock
  <2>2. phases' = [phases EXCEPT ![r] = "answered"]
    <3>1. Moves(r, "unlink")
      BY <1>14 DEF Unlock, Moves
    <3>. QED
      BY <3>1, PhaseMoves, PhaseTable
  <2>3. owner = r /\ Service!Asked(r)
    <3>1. owner = r
      BY <1>14 DEF Unlock, LockHeld, Locked
    <3>2. sent[r] = ReqLen \/ phases[r] = "short"
      BY <1>14, <1>2 DEF Unlock, Waits, Locked
    <3>. QED
      BY <3>1, <3>2 DEF Service!Asked, phases
  <2>. QED
    BY <1>14, <2>1, <2>2, <2>3 DEF Unlock, Service!Finish, Service!Leave, phases
<1>15. ASSUME NEW r \in Reqs, PierDies(r)
       PROVE  Service!Lose(r)
  <2>1. SettleReq
    BY <1>15 DEF PierDies
  <2>2. Received' = Received
    BY <1>15, <2>1, ReceivedKept DEF PierDies, SettleReq
  <2>3. phases' = [phases EXCEPT ![r] = "lost"]
    <3>1. Moves(r, "dead")
      BY <1>15 DEF PierDies, Moves
    <3>. QED
      BY <3>1, PhaseMoves, PhaseTable
  <2>4. ppc[r] \in {"openLock", "lockWait", "unlink"} \cup Locked
    BY <1>15 DEF PierDies, PierAlive, TypeOK, PierStates, Locked
  <2>5. phases[r] \in {"asking", "turn", "short", "answered"}
    <3>1. phases[r] = PhaseOf(ppc[r], sent[r])
      BY PhasesAre
    <3>2. CASE ppc[r] \in {"openLock", "lockWait"}
      BY <3>1, <3>2, PhaseTable
    <3>3. CASE ppc[r] = "unlink"
      <4>1. PhaseOf("unlink", sent[r]) = "answered"
        BY PhaseTable
      <4>. QED
        BY <3>1, <3>3, <4>1
    <3>4. CASE ppc[r] \in Locked
      <4>1. PhaseOf(ppc[r], sent[r]) \in {"turn", "short"}
        BY <3>4, PhaseTable
      <4>. QED
        BY <3>1, <4>1
    <3>. QED
      BY <2>4, <3>2, <3>3, <3>4
  <2>. QED
    BY <1>15, <2>1, <2>2, <2>3, <2>5, SettleSpills
       DEF PierDies, Service!Lose, Service!Leave, phases
<1>16. ASSUME NEW c \in Conns, ReadReq(c)
       PROVE  Service!Deliver
  <2>1. /\ Head(reqBuf) \notin Received \cup dropped
        /\ Received' = Received \cup {Head(reqBuf)}
    BY <1>16, ReceivedStep
  <2>2. phases' = phases
    BY <1>16, PhasesAre DEF ReadReq
  <2>. QED
    BY <1>16, <2>1, <2>2 DEF ReadReq, Service!Deliver, phases
<1>17. ASSUME NEW c \in Conns, CloseTunnel(c) \/ ConnectDies(c)
       PROVE  Service!Spill \/ Stutters
  <2>1. SettleReq
    BY <1>17 DEF CloseTunnel, ConnectDies
  <2>2. Received' = Received
    BY <1>17, <2>1, ReceivedKept DEF CloseTunnel, ConnectDies, SettleReq
  <2>3. phases' = phases
    BY <1>17, PhasesAre DEF CloseTunnel, ConnectDies
  <2>. QED
    BY <1>17, <2>1, <2>2, <2>3, SettleSpills
       DEF CloseTunnel, ConnectDies, Service!Spill, Stutters, phases
<1>18. ASSUME NEW c \in Conns, OpenTunnel(c)
       PROVE  Stutters
  <2>1. Received' = Received
    BY <1>18, ReceivedKept DEF OpenTunnel
  <2>2. \A r \in Reqs : PhaseOf(ppc'[r], sent[r]) = PhaseOf(ppc[r], sent[r])
    BY <1>18, <1>1, PhaseTable DEF OpenTunnel, Locked, Unsent
  <2>3. phases' = phases
    BY <1>18, <2>2, PhasesAre DEF OpenTunnel
  <2>. QED
    BY <1>18, <2>1, <2>3 DEF OpenTunnel, Stutters
<1>19. ASSUME NEW c \in Conns,
              \/ ConnectStarts(c) \/ MakeReqFifo(c) \/ SelectReady(c) \/ SelectTimeout(c)
              \/ EndOfReq(c)
       PROVE  Stutters
  <2>1. UNCHANGED <<ppc, owner, sent, out, reqBuf, dropped, leaves>>
    BY <1>19 DEF ConnectStarts, MakeReqFifo, SelectReady, SelectTimeout, EndOfReq
  <2>. QED
    BY <2>1, ReceivedKept, PhasesAre DEF Stutters
<1>20. ASSUME NEW c \in Conns, ClientLeaves(c)
       PROVE  Service!Cut
  <2>1. UNCHANGED <<ppc, owner, sent, out, reqBuf, dropped>> /\ leaves' = leaves + 1 /\ leaves \in Nat
    BY <1>20 DEF ClientLeaves, TypeOK
  <2>2. phases' = phases /\ Received' = Received
    BY <2>1, ReceivedKept, PhasesAre
  <2>3. leaves' > 0
    BY <2>1
  <2>. QED
    BY <2>1, <2>2, <2>3 DEF Service!Cut, phases
<1>21. ASSUME NEW c \in Conns, ClientActs(c)
       PROVE  Stutters
  <2>1. UNCHANGED <<ppc, owner, sent, out, reqBuf, dropped, leaves>>
    BY <1>21, ClientStill
  <2>. QED
    BY <2>1, ReceivedKept, PhasesAre DEF Stutters
<1>22. ASSUME NEW r \in Reqs, RespondOpens(r)
       PROVE  Stutters
  <2>1. Received' = Received
    BY <1>22, ReceivedKept DEF RespondOpens
  <2>2. \A q \in Reqs : PhaseOf(ppc'[q], sent[q]) = PhaseOf(ppc[q], sent[q])
    <3>1. \A q \in Reqs : ppc'[q] = ppc[q] \/ {ppc'[q], ppc[q]} \subseteq Locked \ {"write"}
      BY <1>22 DEF RespondOpens, Locked
    <3>2. ASSUME NEW q \in Reqs, {ppc'[q], ppc[q]} \subseteq Locked \ {"write"}
          PROVE  PhaseOf(ppc'[q], sent[q]) = PhaseOf(ppc[q], sent[q])
      <4>1. \A s, u \in Locked \ {"write"} : PhaseOf(s, sent[q]) = PhaseOf(u, sent[q])
        BY PhaseTable
      <4>2. ppc'[q] \in Locked \ {"write"} /\ ppc[q] \in Locked \ {"write"}
        BY <3>2
      <4>. QED
        BY <4>1, <4>2
    <3>3. ASSUME NEW q \in Reqs, ppc'[q] = ppc[q]
          PROVE  PhaseOf(ppc'[q], sent[q]) = PhaseOf(ppc[q], sent[q])
      BY <3>3
    <3>. QED
      BY <3>1, <3>2, <3>3
  <2>3. phases' = phases
    BY <1>22, <2>2, PhasesAre DEF RespondOpens
  <2>. QED
    BY <1>22, <2>1, <2>3 DEF RespondOpens, Stutters
<1>23. ASSUME NEW r \in Reqs,
              \/ RespondAborts(r) \/ WriteRsp(r)
              \/ RespondEnds(r) \/ RespondDies(r)
       PROVE  Stutters
  <2>1. UNCHANGED <<ppc, owner, sent, out, reqBuf, dropped, leaves>>
    BY <1>23 DEF RespondAborts, WriteRsp, RespondEnds, RespondDies
  <2>. QED
    BY <2>1, ReceivedKept, PhasesAre DEF Stutters
<1>24. ASSUME UNCHANGED vars
       PROVE  Stutters
  <2>1. UNCHANGED <<ppc, owner, sent, out, reqBuf, dropped, leaves>>
    BY <1>24 DEF vars
  <2>. QED
    BY <2>1, ReceivedKept, PhasesAre DEF Stutters
<1>25. ASSUME NEW r \in Reqs, NoLockFile(r) \/ LockFails(r) \/ NoReqFifo(r)
       PROVE  Refuses(r)
  BY <1>25 DEF NoLockFile, LockFails, NoReqFifo, Refuses
<1>. QED
  BY <1>3, <1>4, <1>5, <1>6, <1>7, <1>8, <1>9, <1>11, <1>12, <1>13, <1>14, <1>15, <1>16, <1>17,
     <1>18, <1>19, <1>22, <1>23, <1>24, <1>25, <1>10, <1>20, <1>21
     DEF Next, PierStep, ConnectStep, RespondStep, Environment, Client, ClientActs, Service!Next

\* The processes, the FIFOs and the lock implement Tunnel: each of their steps
\* is a step of the service, or none of its business.
THEOREM TunnelImplemented == Spec => ImplementsTunnel
<1>1. Init => LockHeld
  BY DEF Init, LockHeld, Locked
<1>2. LockHeld /\ Grounds /\ TypeOK /\ FilesInPlace /\ Delivery /\ PInv /\ [Next]_vars
        => LockHeld' /\ Grounds'
  BY LockStep, GroundsStep DEF IInv
<1>3. /\ TypeOK /\ FilesInPlace /\ Delivery /\ PInv /\ AInv /\ LockHeld /\ Grounds /\ [Next]_vars
      => [Service!Next]_(Service!vars)
  BY StepImplements DEF IInv
<1>4. Init => Service!Init /\ Grounds
  BY InitImplements
<1>. QED
  BY <1>1, <1>2, <1>3, <1>4, PlaceKept, AnswersKept, PTL DEF Spec, ImplementsTunnel, Service!Spec
=============================================================================
