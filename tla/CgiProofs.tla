------------------------------ MODULE CgiProofs ------------------------------
(* Proofs about Cgi, for every number of browsers, pids, Connect processes   *)
(* and tokens, every capacity of a FIFO and every number of faults.          *)
EXTENDS Cgi, TLAPS

USE ConstantsAssumption

\* The elements of a sequence, and what remains when one is taken or added.
LEMMA ElemsOfSeq ==
  ASSUME NEW S, NEW s \in Seq(S)
  PROVE  /\ Elems(s) \subseteq S
         /\ \A e \in S : Elems(Append(s, e)) = Elems(s) \cup {e}
         /\ s # <<>> => /\ Head(s) \in Elems(s)
                        /\ Tail(s) \in Seq(S)
                        /\ Elems(Tail(s)) \subseteq Elems(s)
<1>1. Elems(s) \subseteq S
  BY DEF Elems
<1>2. ASSUME NEW e \in S
      PROVE  Elems(Append(s, e)) = Elems(s) \cup {e}
  <2>. DEFINE t == Append(s, e)
  <2>1. /\ DOMAIN t = 1..Len(s) + 1
        /\ DOMAIN s = 1..Len(s)
        /\ \A k \in 1..Len(s) : t[k] = s[k]
        /\ t[Len(s) + 1] = e
        /\ Len(s) \in Nat
    OBVIOUS
  <2>. HIDE DEF t
  <2>2. \A x \in Elems(s) \cup {e} : x \in Elems(t)
    BY <2>1 DEF Elems
  <2>3. \A x \in Elems(t) : x \in Elems(s) \cup {e}
    BY <2>1 DEF Elems
  <2>. QED
    BY <2>2, <2>3 DEF t
<1>3. ASSUME s # <<>>
      PROVE  /\ Head(s) \in Elems(s)
             /\ Tail(s) \in Seq(S)
             /\ Elems(Tail(s)) \subseteq Elems(s)
  BY <1>3 DEF Elems
<1>. QED
  BY <1>1, <1>2, <1>3

-----------------------------------------------------------------------------
(* The client.                                                               *)

\* What the client does with what it is given on its tunnel.
ClientActs(c) == ClientParses(c) \/ \E r \in Reqs, p \in Pids : ClientStrays(c, r, p)

\* Reading touches nothing of the Piers, the Connects and the FIFOs.
LEMMA ClientStill ==
  ASSUME NEW c \in Conns, ClientActs(c)
  PROVE  UNCHANGED <<files, pierVars, reqBuf, cpc, up, sawWriter, stream, leaves, fifo, rino,
                     rsent, rspBuf, dropped, deaths>>
  BY DEF ClientActs, ClientParses, ClientFollows, ClientLosesPlace, ClientStrays, connVars, rspVars

\* A child is forked for one request, or none is.
ChildStep ==
  \/ UNCHANGED <<rpc, to>>
  \/ \E r \in Reqs, p \in Pids : /\ rpc[r] = "none"
                                 /\ rpc' = [rpc EXCEPT ![r] = "child"]
                                 /\ to' = [to EXCEPT ![r] = p]

-----------------------------------------------------------------------------
(* Type correctness.                                                         *)

IInv == TypeOK /\ FilesInPlace

\* Without a process there is no FIFO, token or pid.
LEMMA InitIInv == Init => IInv
  BY DEF Init, IInv, TypeOK, PierStates, ConnStates, RspStates, ReqToken, RspToken,
         FilesInPlace, PierAlive, Elems

\* What the kernel keeps of a FIFO's buffer is of the buffer's type.
LEMMA SettleTypes ==
  ASSUME TypeOK
  PROVE  /\ SettleReq => /\ reqBuf' \in Seq(ReqToken)
                         /\ dropped' \in SUBSET ReqToken
                         /\ Elems(reqBuf') \subseteq Elems(reqBuf)
         /\ SettleRsp => rspBuf' \in [Reqs -> Seq(RspToken)]
<1>1. Elems(reqBuf) \subseteq ReqToken
  BY ElemsOfSeq DEF TypeOK
<1>2. Elems(<<>>) = {}
  BY DEF Elems
<1>3. SettleReq => /\ reqBuf' \in Seq(ReqToken)
                   /\ dropped' \in SUBSET ReqToken
                   /\ Elems(reqBuf') \subseteq Elems(reqBuf)
  <2>1. CASE reqBuf' = <<>> /\ dropped' = dropped \cup Elems(reqBuf)
    <3>1. <<>> \in Seq(ReqToken)
      OBVIOUS
    <3>. QED
      BY <1>1, <1>2, <2>1, <3>1 DEF TypeOK
  <2>2. CASE UNCHANGED <<reqBuf, dropped>>
    BY <2>2 DEF TypeOK
  <2>. QED
    BY <2>1, <2>2 DEF SettleReq
<1>4. SettleRsp => rspBuf' \in [Reqs -> Seq(RspToken)]
  BY DEF SettleRsp, TypeOK
<1>. QED
  BY <1>3, <1>4

\* A child that is forked is the first for its request, and has a pid.
LEMMA ChildStepKeeps ==
  ASSUME TypeOK, ChildStep
  PROVE  /\ rpc' \in [Reqs -> RspStates] /\ to' \in [Reqs -> Pids \cup {None}]
         /\ \A r \in Reqs : \/ rpc'[r] = rpc[r] /\ to'[r] = to[r]
                            \/ rpc[r] = "none" /\ rpc'[r] = "child" /\ to'[r] \in Pids
<1>. DEFINE Kept(r) == rpc'[r] = rpc[r] /\ to'[r] = to[r]
            Forked(r) == rpc[r] = "none" /\ rpc'[r] = "child" /\ to'[r] \in Pids
<1>1. rpc \in [Reqs -> RspStates] /\ to \in [Reqs -> Pids \cup {None}]
  BY DEF TypeOK
<1>2. CASE UNCHANGED <<rpc, to>>
  BY <1>1, <1>2
<1>3. ASSUME NEW q \in Reqs, NEW p \in Pids, rpc[q] = "none",
             rpc' = [rpc EXCEPT ![q] = "child"], to' = [to EXCEPT ![q] = p]
      PROVE  /\ rpc' \in [Reqs -> RspStates] /\ to' \in [Reqs -> Pids \cup {None}]
             /\ \A r \in Reqs : Kept(r) \/ Forked(r)
  <2>1. rpc' \in [Reqs -> RspStates] /\ to' \in [Reqs -> Pids \cup {None}]
    BY <1>1, <1>3 DEF RspStates
  <2>2. \A r \in Reqs : r # q => Kept(r)
    BY <1>1, <1>3
  <2>3. Forked(q)
    BY <1>1, <1>3
  <2>. QED
    BY <2>1, <2>2, <2>3
<1>. QED
  BY <1>2, <1>3 DEF ChildStep

\* A child is given the pid of a process that was started.
LEMMA ClientMoves ==
  ASSUME TypeOK, FilesInPlace, NEW c \in Conns, ClientActs(c)
  PROVE  place' \in Nat /\ due' \in ReqToken \cup {None, Stray} /\ ChildStep
<1>1. CASE ClientFollows(c)
  <2>. DEFINE t == stream[c][place + 1]
  <2>1. t \in ReqToken /\ t \in Elems(stream[c])
    <3>1. stream[c] \in Seq(ReqToken) /\ place + 1 \in 1..Len(stream[c])
      BY <1>1 DEF ClientFollows, TypeOK
    <3>. QED
      BY <3>1 DEF Elems
  <2>2. t.req \in Reqs /\ pid[t.req] \in Pids /\ t.i \in 1..ReqLen
    BY <2>1 DEF FilesInPlace, ReqToken
  <2>3. /\ place' = place + 1 /\ due' = NextDue(t)
        /\ IF t.i = ReqLen THEN Forks(t.req, pid[t.req]) ELSE UNCHANGED <<rpc, to>>
    BY <1>1 DEF ClientFollows
  <2>. HIDE DEF t
  <2>4. NextDue(t) \in ReqToken \cup {None}
    BY <2>2 DEF NextDue, Tok, ReqToken
  <2>5. ChildStep
    BY <2>2, <2>3 DEF Forks, ChildStep
  <2>6. place' \in Nat
    <3>1. place \in Nat
      BY DEF TypeOK
    <3>. QED
      BY <2>3, <3>1
  <2>. QED
    BY <2>3, <2>4, <2>5, <2>6
<1>2. CASE ClientLosesPlace(c)
  <2>1. place' = place + 1 /\ due' = Stray /\ UNCHANGED <<rpc, to>>
    BY <1>2 DEF ClientLosesPlace, rspVars
  <2>2. place \in Nat
    BY DEF TypeOK
  <2>. QED
    BY <2>1, <2>2 DEF ChildStep
<1>3. ASSUME NEW r \in Reqs, NEW p \in Pids, ClientStrays(c, r, p)
      PROVE  place' \in Nat /\ due' \in ReqToken \cup {None, Stray} /\ ChildStep
  BY <1>3 DEF ClientStrays, Forks, TypeOK, ChildStep, connVars
<1>. QED
  BY <1>1, <1>2, <1>3 DEF ClientActs, ClientParses

\* Every step keeps the types.
LEMMA TypeStep == IInv /\ [Next]_vars => TypeOK'
<1>. SUFFICES ASSUME TypeOK, FilesInPlace, [Next]_vars
              PROVE  TypeOK'
  BY DEF IInv
<1>. USE DEF pierVars, connVars, rspVars
<1>1. ASSUME NEW r \in Reqs, NEW p \in Pids, PierStarts(r, p)
       PROVE  TypeOK'
  BY <1>1 DEF PierStarts, TypeOK, PierStates, ConnStates, RspStates
<1>2. ASSUME NEW r \in Reqs, NoLockFile(r)
       PROVE  TypeOK'
  BY <1>2 DEF NoLockFile, Refuse, TypeOK, PierStates, ConnStates, RspStates
<1>3. ASSUME NEW r \in Reqs, LockFails(r)
       PROVE  TypeOK'
  BY <1>3 DEF LockFails, Refuse, TypeOK, PierStates, ConnStates, RspStates
<1>4. ASSUME NEW r \in Reqs, OpenLock(r)
       PROVE  TypeOK'
  BY <1>4 DEF OpenLock, TypeOK, PierStates, ConnStates, RspStates
<1>5. ASSUME NEW r \in Reqs, TakeLock(r)
       PROVE  TypeOK'
  BY <1>5 DEF TakeLock, TypeOK, PierStates, ConnStates, RspStates
<1>6. ASSUME NEW r \in Reqs, NoReqFifo(r)
       PROVE  TypeOK'
  BY <1>6 DEF NoReqFifo, Refuse, TypeOK, PierStates, ConnStates, RspStates
<1>7. ASSUME NEW r \in Reqs, OpenReqFifo(r)
       PROVE  TypeOK'
  <2>1. ppc' \in [Reqs -> PierStates]
    BY <1>7 DEF OpenReqFifo, TypeOK, PierStates
  <2>2. sawWriter' \in SUBSET Conns
    BY <1>7 DEF OpenReqFifo, TypeOK, ReqReaders
  <2>. QED
    BY <1>7, <2>1, <2>2 DEF OpenReqFifo, TypeOK
<1>8. ASSUME NEW r \in Reqs, WriteReq(r)
       PROVE  TypeOK'
  <2>1. Tok(r, sent[r] + 1) \in ReqToken /\ sent[r] + 1 \in 0..ReqLen
    BY <1>8, SMTT(30) DEF WriteReq, TypeOK, Tok, ReqToken
  <2>2. reqBuf' \in Seq(ReqToken)
    BY <1>8, <2>1 DEF WriteReq, TypeOK
  <2>. QED
    BY <1>8, <2>1, <2>2 DEF WriteReq, TypeOK
<1>9. ASSUME NEW r \in Reqs, ppc[r] = "write", CloseReqFifo(r)
       PROVE  TypeOK'
  BY <1>9, SettleTypes DEF CloseReqFifo, TypeOK, PierStates, ConnStates, RspStates
<1>10. ASSUME NEW r \in Reqs, OpenRspFifo(r)
       PROVE  TypeOK'
  BY <1>10 DEF OpenRspFifo, TypeOK, PierStates, ConnStates, RspStates
<1>11. ASSUME NEW r \in Reqs, ReadRsp(r)
       PROVE  TypeOK'
  <2>1. fifo[pid[r]] \in Reqs
    BY <1>11 DEF ReadRsp, FilesInPlace, PierAlive
  <2>2. /\ Head(rspBuf[fifo[pid[r]]]) \in RspToken
        /\ Tail(rspBuf[fifo[pid[r]]]) \in Seq(RspToken)
    BY <1>11, <2>1, ElemsOfSeq DEF ReadRsp, TypeOK
  <2>. QED
    <3>1. Append(out[r], Head(rspBuf[fifo[pid[r]]])) \in Seq(RspToken)
      BY <2>2 DEF TypeOK
    <3>2. /\ out' \in [Reqs -> Seq(RspToken)]
          /\ rspBuf' \in [Reqs -> Seq(RspToken)]
      BY <1>11, <2>1, <2>2, <3>1 DEF ReadRsp, TypeOK
    <3>. QED
      BY <1>11, <3>2 DEF ReadRsp, TypeOK
<1>12. ASSUME NEW r \in Reqs, EndOfRsp(r)
       PROVE  TypeOK'
  BY <1>12 DEF EndOfRsp, TypeOK, PierStates, ConnStates, RspStates
<1>13. ASSUME NEW r \in Reqs, CloseRspFifo(r)
       PROVE  TypeOK'
  BY <1>13, SettleTypes DEF CloseRspFifo, TypeOK, PierStates, ConnStates, RspStates
<1>14. ASSUME NEW r \in Reqs, Unlock(r)
       PROVE  TypeOK'
  BY <1>14 DEF Unlock, TypeOK, PierStates, ConnStates, RspStates
<1>15. ASSUME NEW r \in Reqs, UnlinkRspFifo(r)
       PROVE  TypeOK'
  BY <1>15 DEF UnlinkRspFifo, TypeOK, PierStates, ConnStates, RspStates
<1>16. ASSUME NEW r \in Reqs, PierDies(r)
       PROVE  TypeOK'
  <2>1. /\ reqBuf' \in Seq(ReqToken)
        /\ dropped' \in SUBSET ReqToken
        /\ rspBuf' \in [Reqs -> Seq(RspToken)]
    BY <1>16, SettleTypes DEF PierDies
  <2>2. /\ deaths' \in 0..MaxDeaths
        /\ owner' \in Reqs \cup {None}
        /\ ppc' \in [Reqs -> PierStates]
    BY <1>16 DEF PierDies, TypeOK, PierStates
  <2>. QED
    BY <1>16, <2>1, <2>2 DEF PierDies, TypeOK
<1>17. ASSUME NEW c \in Conns, ConnectStarts(c)
       PROVE  TypeOK'
  BY <1>17 DEF ConnectStarts, TypeOK, PierStates, ConnStates, RspStates
<1>18. ASSUME NEW c \in Conns, MakeReqFifo(c)
       PROVE  TypeOK'
  BY <1>18 DEF MakeReqFifo, TypeOK, PierStates, ConnStates, RspStates
<1>19. ASSUME NEW c \in Conns, OpenTunnel(c)
       PROVE  TypeOK'
  BY <1>19 DEF OpenTunnel, TypeOK, PierStates, ConnStates, RspStates
<1>20. ASSUME NEW c \in Conns, SelectReady(c)
       PROVE  TypeOK'
  BY <1>20 DEF SelectReady, TypeOK, PierStates, ConnStates, RspStates
<1>21. ASSUME NEW c \in Conns, SelectTimeout(c)
       PROVE  TypeOK'
  BY <1>21 DEF SelectTimeout, TypeOK, PierStates, ConnStates, RspStates
<1>22. ASSUME NEW c \in Conns, ReadReq(c)
       PROVE  TypeOK'
  <2>1. Head(reqBuf) \in ReqToken /\ Tail(reqBuf) \in Seq(ReqToken)
    BY <1>22, ElemsOfSeq DEF ReadReq, TypeOK
  <2>. QED
    BY <1>22, <2>1, SMTT(30) DEF ReadReq, TypeOK
<1>23. ASSUME NEW c \in Conns, EndOfReq(c)
       PROVE  TypeOK'
  BY <1>23 DEF EndOfReq, TypeOK, PierStates, ConnStates, RspStates
<1>24. ASSUME NEW c \in Conns, CloseTunnel(c)
       PROVE  TypeOK'
  BY <1>24, SettleTypes DEF CloseTunnel, TypeOK, PierStates, ConnStates, RspStates
<1>25. ASSUME NEW c \in Conns, ClientLeaves(c)
       PROVE  TypeOK'
  BY <1>25, SMTT(60) DEF ClientLeaves, TypeOK, PierStates, ConnStates, RspStates
<1>26. ASSUME NEW c \in Conns, ConnectDies(c)
       PROVE  TypeOK'
  BY <1>26, SettleTypes DEF ConnectDies, TypeOK, PierStates, ConnStates, RspStates
<1>27. ASSUME NEW c \in Conns, ClientActs(c)
       PROVE  TypeOK'
  <2>1. rpc' \in [Reqs -> RspStates] /\ to' \in [Reqs -> Pids \cup {None}]
    BY <1>27, ClientMoves, ChildStepKeeps
  <2>2. place' \in Nat /\ due' \in ReqToken \cup {None, Stray}
    BY <1>27, ClientMoves
  <2>. QED
    BY <1>27, <2>1, <2>2, ClientStill DEF TypeOK
<1>28. ASSUME NEW r \in Reqs, RespondOpens(r)
       PROVE  TypeOK'
  <2>. DEFINE n == fifo[to[r]]
  <2>1. n \in Reqs
    BY <1>28 DEF RespondOpens, TypeOK, FilesInPlace
  <2>2. ppc' \in [Reqs -> PierStates]
    BY <1>28 DEF RespondOpens, TypeOK, PierStates
  <2>3. rino' \in [Reqs -> Reqs \cup {None}] /\ rpc' \in [Reqs -> RspStates]
    BY <1>28, <2>1 DEF RespondOpens, TypeOK, RspStates
  <2>. QED
    BY <1>28, <2>2, <2>3 DEF RespondOpens, TypeOK
<1>29. ASSUME NEW r \in Reqs, RespondAborts(r)
       PROVE  TypeOK'
  BY <1>29 DEF RespondAborts, TypeOK, PierStates, ConnStates, RspStates
<1>30. ASSUME NEW r \in Reqs, WriteRsp(r)
       PROVE  TypeOK'
  <2>1. rino[r] \in Reqs
    BY <1>30 DEF WriteRsp, FilesInPlace
  <2>2. Tok(r, rsent[r] + 1) \in RspToken /\ rsent[r] + 1 \in 0..RspLen
    BY <1>30, SMTT(30) DEF WriteRsp, TypeOK, Tok, RspToken
  <2>. QED
    <3>1. Append(rspBuf[rino[r]], Tok(r, rsent[r] + 1)) \in Seq(RspToken)
      BY <2>1, <2>2 DEF TypeOK
    <3>2. /\ rsent' \in [Reqs -> 0..RspLen]
          /\ rspBuf' \in [Reqs -> Seq(RspToken)]
      BY <1>30, <2>1, <2>2, <3>1 DEF WriteRsp, TypeOK
    <3>. QED
      BY <1>30, <3>2 DEF WriteRsp, TypeOK
<1>31. ASSUME NEW r \in Reqs, RespondEnds(r)
       PROVE  TypeOK'
  BY <1>31, SettleTypes DEF RespondEnds, TypeOK, PierStates, ConnStates, RspStates
<1>32. ASSUME NEW r \in Reqs, RespondDies(r)
       PROVE  TypeOK'
  BY <1>32, SettleTypes DEF RespondDies, TypeOK, PierStates, ConnStates, RspStates
<1>33. CASE UNCHANGED vars
  BY <1>33 DEF vars, TypeOK
<1>. QED
  BY <1>1, <1>2, <1>3, <1>4, <1>5, <1>6, <1>7, <1>8, <1>9, <1>10, <1>11, <1>12, <1>13, <1>14, <1>15, <1>16, <1>17, <1>18, <1>19, <1>20, <1>21, <1>22, <1>23, <1>24, <1>25, <1>26, <1>27, <1>28, <1>29, <1>30, <1>31, <1>32, <1>33
     DEF Next, PierStep, ConnectStep, RespondStep, Environment, Client, ClientActs, BodyEnds, BodyEndsEarly

\* A step that starts no Pier, sends no token, forks no child and opens no
\* answer FIFO keeps the files in place if it unlinks none of a live Pier.
LEMMA FilesKept ==
  ASSUME FilesInPlace,
         pid' = pid,
         \A r \in Reqs : PierAlive(r)' => PierAlive(r) /\ fifo'[pid[r]] = fifo[pid[r]],
         Elems(reqBuf') \subseteq Elems(reqBuf),
         \A c \in Conns : Elems(stream'[c]) \subseteq Elems(stream[c]) \cup Elems(reqBuf),
         \A r \in Reqs : rpc'[r] # "none" => rpc[r] # "none" /\ to'[r] = to[r],
         \A r \in Reqs : rpc'[r] \in {"opening", "write"} =>
                           rpc[r] \in {"opening", "write"} /\ rino'[r] = rino[r]
  PROVE  FilesInPlace'
<1>1. \A r \in Reqs : PierAlive(r)' => pid'[r] \in Pids /\ fifo'[pid'[r]] \in Reqs
  BY DEF FilesInPlace
<1>2. \A q, r \in Reqs : PierAlive(q)' /\ PierAlive(r)' /\ q # r => pid'[q] # pid'[r]
  BY DEF FilesInPlace
<1>3. \A t \in Elems(reqBuf') : pid'[t.req] \in Pids
  BY DEF FilesInPlace
<1>4. \A c \in Conns : \A t \in Elems(stream'[c]) : pid'[t.req] \in Pids
  BY DEF FilesInPlace
<1>5. /\ \A r \in Reqs : rpc'[r] # "none" => to'[r] \in Pids
      /\ \A r \in Reqs : rpc'[r] \in {"opening", "write"} => rino'[r] \in Reqs
  BY DEF FilesInPlace
<1>6. Elems(reqBuf)' = Elems(reqBuf')
  BY DEF Elems
<1>7. \A c \in Conns : Elems(stream[c])' = Elems(stream'[c])
  BY DEF Elems
<1>. QED
  BY <1>1, <1>2, <1>3, <1>4, <1>5, <1>6, <1>7 DEF FilesInPlace

\* Every step keeps the files in place.
LEMMA FilesStep == IInv /\ [Next]_vars => FilesInPlace'
<1>. SUFFICES ASSUME TypeOK, FilesInPlace, [Next]_vars
              PROVE  FilesInPlace'
  BY DEF IInv
<1>. USE DEF pierVars, connVars, rspVars
<1>1. ASSUME NEW r \in Reqs, NoLockFile(r)
       PROVE  FilesInPlace'
  <2>1. PierAlive(r) /\ ~PierAlive(r)'
    BY <1>1 DEF NoLockFile, Refuse, PierAlive, TypeOK
  <2>2. \A q \in Reqs : PierAlive(q)' => PierAlive(q) /\ fifo'[pid[q]] = fifo[pid[q]]
    BY <1>1, <2>1 DEF NoLockFile, Refuse, PierAlive, TypeOK, FilesInPlace
  <2>. QED
    BY <1>1, <2>2, FilesKept DEF NoLockFile, Refuse
<1>2. ASSUME NEW r \in Reqs, LockFails(r)
       PROVE  FilesInPlace'
  <2>1. PierAlive(r) /\ ~PierAlive(r)'
    BY <1>2 DEF LockFails, Refuse, PierAlive, TypeOK
  <2>2. \A q \in Reqs : PierAlive(q)' => PierAlive(q) /\ fifo'[pid[q]] = fifo[pid[q]]
    BY <1>2, <2>1 DEF LockFails, Refuse, PierAlive, TypeOK, FilesInPlace
  <2>. QED
    BY <1>2, <2>2, FilesKept DEF LockFails, Refuse
<1>3. ASSUME NEW r \in Reqs, NoReqFifo(r)
       PROVE  FilesInPlace'
  <2>1. PierAlive(r) /\ ~PierAlive(r)'
    BY <1>3 DEF NoReqFifo, Refuse, PierAlive, TypeOK
  <2>2. \A q \in Reqs : PierAlive(q)' => PierAlive(q) /\ fifo'[pid[q]] = fifo[pid[q]]
    BY <1>3, <2>1 DEF NoReqFifo, Refuse, PierAlive, TypeOK, FilesInPlace
  <2>. QED
    BY <1>3, <2>2, FilesKept DEF NoReqFifo, Refuse
<1>4. ASSUME NEW r \in Reqs, UnlinkRspFifo(r)
       PROVE  FilesInPlace'
  <2>1. PierAlive(r) /\ ~PierAlive(r)'
    BY <1>4 DEF UnlinkRspFifo, PierAlive, TypeOK
  <2>2. \A q \in Reqs : PierAlive(q)' => PierAlive(q) /\ fifo'[pid[q]] = fifo[pid[q]]
    BY <1>4, <2>1 DEF UnlinkRspFifo, PierAlive, TypeOK, FilesInPlace
  <2>. QED
    BY <1>4, <2>2, FilesKept DEF UnlinkRspFifo
<1>5. ASSUME NEW r \in Reqs, OpenLock(r)
       PROVE  FilesInPlace'
  BY <1>5, FilesKept DEF OpenLock, PierAlive, TypeOK
<1>6. ASSUME NEW r \in Reqs, TakeLock(r)
       PROVE  FilesInPlace'
  BY <1>6, FilesKept DEF TakeLock, PierAlive, TypeOK
<1>7. ASSUME NEW r \in Reqs, OpenReqFifo(r)
       PROVE  FilesInPlace'
  BY <1>7, FilesKept DEF OpenReqFifo, PierAlive, TypeOK
<1>8. ASSUME NEW r \in Reqs, ReadRsp(r)
       PROVE  FilesInPlace'
  BY <1>8, FilesKept DEF ReadRsp, PierAlive, TypeOK
<1>9. ASSUME NEW r \in Reqs, EndOfRsp(r)
       PROVE  FilesInPlace'
  BY <1>9, FilesKept DEF EndOfRsp, PierAlive, TypeOK
<1>10. ASSUME NEW r \in Reqs, CloseRspFifo(r)
       PROVE  FilesInPlace'
  BY <1>10, FilesKept DEF CloseRspFifo, PierAlive, TypeOK
<1>11. ASSUME NEW r \in Reqs, Unlock(r)
       PROVE  FilesInPlace'
  BY <1>11, FilesKept DEF Unlock, PierAlive, TypeOK
<1>12. ASSUME NEW r \in Reqs, ppc[r] = "write", CloseReqFifo(r)
       PROVE  FilesInPlace'
  BY <1>12, FilesKept, SettleTypes DEF CloseReqFifo, PierAlive, TypeOK
<1>13. ASSUME NEW r \in Reqs, PierDies(r)
       PROVE  FilesInPlace'
  BY <1>13, FilesKept, SettleTypes DEF PierDies, PierAlive, TypeOK
<1>14. ASSUME NEW c \in Conns, MakeReqFifo(c)
       PROVE  FilesInPlace'
  BY <1>14, FilesKept DEF MakeReqFifo, PierAlive, TypeOK
<1>15. ASSUME NEW c \in Conns, OpenTunnel(c)
       PROVE  FilesInPlace'
  BY <1>15, FilesKept DEF OpenTunnel, PierAlive, TypeOK
<1>16. ASSUME NEW c \in Conns, SelectReady(c)
       PROVE  FilesInPlace'
  BY <1>16, FilesKept DEF SelectReady, PierAlive, TypeOK
<1>17. ASSUME NEW c \in Conns, SelectTimeout(c)
       PROVE  FilesInPlace'
  BY <1>17, FilesKept DEF SelectTimeout, PierAlive, TypeOK
<1>18. ASSUME NEW c \in Conns, EndOfReq(c)
       PROVE  FilesInPlace'
  BY <1>18, FilesKept DEF EndOfReq, PierAlive, TypeOK
<1>19. ASSUME NEW c \in Conns, ClientLeaves(c)
       PROVE  FilesInPlace'
  BY <1>19, FilesKept DEF ClientLeaves, PierAlive, TypeOK
<1>20. ASSUME NEW c \in Conns, CloseTunnel(c)
       PROVE  FilesInPlace'
  BY <1>20, FilesKept, SettleTypes DEF CloseTunnel, PierAlive
<1>21. ASSUME NEW c \in Conns, ConnectDies(c)
       PROVE  FilesInPlace'
  BY <1>21, FilesKept, SettleTypes DEF ConnectDies, PierAlive
<1>22. ASSUME NEW r \in Reqs, RespondAborts(r)
       PROVE  FilesInPlace'
  BY <1>22, FilesKept DEF RespondAborts, PierAlive, TypeOK
<1>23. ASSUME NEW r \in Reqs, WriteRsp(r)
       PROVE  FilesInPlace'
  BY <1>23, FilesKept DEF WriteRsp, PierAlive, TypeOK
<1>24. ASSUME NEW r \in Reqs, RespondEnds(r)
       PROVE  FilesInPlace'
  BY <1>24, FilesKept DEF RespondEnds, PierAlive, TypeOK
<1>25. ASSUME NEW r \in Reqs, RespondDies(r)
       PROVE  FilesInPlace'
  BY <1>25, FilesKept DEF RespondDies, PierAlive, TypeOK
<1>26. ASSUME NEW r \in Reqs, OpenRspFifo(r)
       PROVE  FilesInPlace'
  BY <1>26, FilesKept DEF OpenRspFifo, PierAlive, TypeOK
<1>27. ASSUME NEW c \in Conns, ConnectStarts(c)
       PROVE  FilesInPlace'
  <2>1. \A d \in Conns : Elems(stream'[d]) \subseteq Elems(stream[d]) \cup Elems(reqBuf)
    BY <1>27 DEF ConnectStarts, TypeOK, Elems
  <2>. QED
    BY <1>27, <2>1, FilesKept DEF ConnectStarts, PierAlive
<1>28. ASSUME NEW c \in Conns, ReadReq(c)
       PROVE  FilesInPlace'
  <2>1. /\ Head(reqBuf) \in Elems(reqBuf)
        /\ Elems(Tail(reqBuf)) \subseteq Elems(reqBuf)
        /\ Head(reqBuf) \in ReqToken
    BY <1>28, ElemsOfSeq DEF ReadReq, TypeOK
  <2>2. Elems(Append(stream[c], Head(reqBuf))) = Elems(stream[c]) \cup {Head(reqBuf)}
    BY <2>1, ElemsOfSeq DEF TypeOK
  <2>3. \A d \in Conns : Elems(stream'[d]) \subseteq Elems(stream[d]) \cup Elems(reqBuf)
    BY <1>28, <2>1, <2>2 DEF ReadReq, TypeOK
  <2>. QED
    BY <1>28, <2>1, <2>3, FilesKept DEF ReadReq, PierAlive
<1>29. ASSUME NEW r \in Reqs, NEW p \in Pids, PierStarts(r, p)
       PROVE  FilesInPlace'
  <2>1. /\ pid' = [pid EXCEPT ![r] = p]
        /\ \A q \in Reqs : PierAlive(q)' => q = r \/ PierAlive(q)
        /\ fifo'[p] \in Reqs
        /\ \A i \in Pids \ {p} : fifo'[i] = fifo[i]
    BY <1>29 DEF PierStarts, PierAlive, TypeOK
  <2>2. \A q \in Reqs : PierAlive(q) => pid[q] # p
    BY <1>29 DEF PierStarts
  <2>3. \A q \in Reqs : PierAlive(q)' => pid'[q] \in Pids /\ fifo'[pid'[q]] \in Reqs
    BY <2>1, <2>2 DEF FilesInPlace, TypeOK
  <2>4. \A q, o \in Reqs : PierAlive(q)' /\ PierAlive(o)' /\ q # o => pid'[q] # pid'[o]
    BY <2>1, <2>2 DEF FilesInPlace, TypeOK
  <2>5. \A q \in Reqs : pid[q] \in Pids => pid'[q] \in Pids
    BY <2>1 DEF TypeOK
  <2>6. /\ \A t \in Elems(reqBuf) : t.req \in Reqs
        /\ \A c \in Conns : \A t \in Elems(stream[c]) : t.req \in Reqs
    <3>1. Elems(reqBuf) \subseteq ReqToken
      BY ElemsOfSeq DEF TypeOK
    <3>2. ASSUME NEW c \in Conns
          PROVE  Elems(stream[c]) \subseteq ReqToken
      BY ElemsOfSeq DEF TypeOK
    <3>. QED
      BY <3>1, <3>2 DEF ReqToken
  <2>7. /\ Elems(reqBuf)' = Elems(reqBuf)
        /\ \A c \in Conns : Elems(stream[c])' = Elems(stream[c])
        /\ rpc' = rpc /\ rino' = rino /\ to' = to
    BY <1>29 DEF PierStarts, Elems
  <2>. QED
    BY <2>3, <2>4, <2>5, <2>6, <2>7 DEF FilesInPlace
<1>30. ASSUME NEW r \in Reqs, WriteReq(r)
       PROVE  FilesInPlace'
  <2>1. /\ Tok(r, sent[r] + 1) \in ReqToken
        /\ Tok(r, sent[r] + 1).req = r
        /\ pid[r] \in Pids
    <3>1. Tok(r, sent[r] + 1) \in ReqToken
      BY <1>30, SMTT(30) DEF WriteReq, TypeOK, Tok, ReqToken
    <3>2. pid[r] \in Pids
      BY <1>30 DEF WriteReq, FilesInPlace, PierAlive
    <3>. QED
      BY <3>1, <3>2 DEF Tok
  <2>2. Elems(reqBuf') = Elems(reqBuf) \cup {Tok(r, sent[r] + 1)}
    BY <1>30, <2>1, ElemsOfSeq DEF WriteReq, TypeOK
  <2>3. \A t \in Elems(reqBuf') : pid[t.req] \in Pids
    BY <2>1, <2>2 DEF FilesInPlace
  <2>4. Elems(reqBuf)' = Elems(reqBuf') /\ \A c \in Conns : Elems(stream[c])' = Elems(stream[c])
    BY <1>30 DEF WriteReq, Elems
  <2>. QED
    BY <1>30, <2>3, <2>4 DEF WriteReq, FilesInPlace, PierAlive
<1>31. ASSUME NEW c \in Conns, ClientActs(c)
       PROVE  FilesInPlace'
  <2>1. \A r \in Reqs : rpc'[r] # "none" => to'[r] \in Pids
    BY <1>31, ClientMoves, ChildStepKeeps DEF FilesInPlace
  <2>2. \A r \in Reqs : rpc'[r] \in {"opening", "write"} => rino[r] \in Reqs
    BY <1>31, ClientMoves, ChildStepKeeps DEF FilesInPlace
  <2>3. UNCHANGED <<ppc, pid, reqBuf, stream, fifo, rino>>
    BY <1>31, ClientStill DEF pierVars
  <2>4. /\ Elems(reqBuf)' = Elems(reqBuf)
        /\ \A d \in Conns : Elems(stream[d])' = Elems(stream[d])
    BY <2>3 DEF Elems
  <2>. QED
    BY <2>1, <2>2, <2>3, <2>4 DEF FilesInPlace, PierAlive
<1>32. ASSUME NEW r \in Reqs, RespondOpens(r)
       PROVE  FilesInPlace'
  <2>1. fifo[to[r]] \in Reqs
    BY <1>32 DEF RespondOpens, TypeOK, FilesInPlace
  <2>2. \A q \in Reqs : PierAlive(q)' => PierAlive(q)
    BY <1>32 DEF RespondOpens, PierAlive, TypeOK
  <2>3. /\ \A q \in Reqs : rpc'[q] # "none" => to[q] \in Pids
        /\ \A q \in Reqs : rpc'[q] \in {"opening", "write"} => rino'[q] \in Reqs
    BY <1>32, <2>1 DEF RespondOpens, FilesInPlace, TypeOK
  <2>4. /\ Elems(reqBuf)' = Elems(reqBuf)
        /\ \A c \in Conns : Elems(stream[c])' = Elems(stream[c])
    BY <1>32 DEF RespondOpens, Elems
  <2>. QED
    BY <1>32, <2>2, <2>3, <2>4 DEF RespondOpens, FilesInPlace
<1>33. CASE UNCHANGED vars
  BY <1>33, FilesKept DEF vars, PierAlive
<1>. QED
  BY <1>1, <1>2, <1>3, <1>4, <1>5, <1>6, <1>7, <1>8, <1>9, <1>10, <1>11, <1>12, <1>13, <1>14, <1>15, <1>16, <1>17, <1>18, <1>19, <1>20, <1>21, <1>22, <1>23, <1>24, <1>25, <1>26, <1>27, <1>28, <1>29, <1>30, <1>31, <1>32, <1>33
     DEF Next, PierStep, ConnectStep, RespondStep, Environment, Client, ClientActs, BodyEnds, BodyEndsEarly

\* Every value has its type, whatever processes die and however late they are:
\* above all, no step reads or writes an answer FIFO that is not there.
THEOREM TypeCorrect == Spec => []TypeOK
<1>1. IInv /\ [Next]_vars => IInv'
  BY TypeStep, FilesStep DEF IInv
<1>2. IInv => TypeOK
  BY DEF IInv
<1>. QED
  BY InitIInv, <1>1, <1>2, PTL DEF Spec

\* A live Pier has a pid of its own and its answer FIFO exists, every token in
\* flight carries the pid of a process that was started, and a Respond that
\* has opened an answer FIFO has its inode.
THEOREM FilesCorrect == Spec => []FilesInPlace
<1>1. IInv /\ [Next]_vars => IInv'
  BY TypeStep, FilesStep DEF IInv
<1>2. IInv => FilesInPlace
  BY DEF IInv
<1>. QED
  BY InitIInv, <1>1, <1>2, PTL DEF Spec

-----------------------------------------------------------------------------
(* The lock.                                                                 *)

LockHeld == \A r \in Reqs : ppc[r] \in Locked => owner = r

\* A Pier enters the locked stretch of its code only when no one owns the
\* lock, and gives the lock away only when it leaves it.
LEMMA LockStep == TypeOK /\ LockHeld /\ [Next]_vars => LockHeld'
<1>. SUFFICES ASSUME TypeOK, LockHeld, [Next]_vars
              PROVE  LockHeld'
  OBVIOUS
<1>. USE DEF pierVars, connVars, rspVars, TypeOK, LockHeld, Locked
<1>1. ASSUME NEW r \in Reqs, NEW p \in Pids, PierStarts(r, p)
       PROVE  LockHeld'
  BY <1>1 DEF PierStarts
<1>2. ASSUME NEW r \in Reqs, NoLockFile(r)
       PROVE  LockHeld'
  BY <1>2 DEF NoLockFile, Refuse
<1>3. ASSUME NEW r \in Reqs, LockFails(r)
       PROVE  LockHeld'
  BY <1>3 DEF LockFails, Refuse
<1>4. ASSUME NEW r \in Reqs, OpenLock(r)
       PROVE  LockHeld'
  BY <1>4 DEF OpenLock
<1>5. ASSUME NEW r \in Reqs, TakeLock(r)
       PROVE  LockHeld'
  BY <1>5 DEF TakeLock
<1>6. ASSUME NEW r \in Reqs, NoReqFifo(r)
       PROVE  LockHeld'
  BY <1>6 DEF NoReqFifo, Refuse
<1>7. ASSUME NEW r \in Reqs, OpenReqFifo(r)
       PROVE  LockHeld'
  BY <1>7 DEF OpenReqFifo
<1>8. ASSUME NEW r \in Reqs, WriteReq(r)
       PROVE  LockHeld'
  BY <1>8 DEF WriteReq
<1>9. ASSUME NEW r \in Reqs, ppc[r] = "write", CloseReqFifo(r)
       PROVE  LockHeld'
  BY <1>9 DEF CloseReqFifo
<1>10. ASSUME NEW r \in Reqs, OpenRspFifo(r)
       PROVE  LockHeld'
  BY <1>10 DEF OpenRspFifo
<1>11. ASSUME NEW r \in Reqs, ReadRsp(r)
       PROVE  LockHeld'
  BY <1>11 DEF ReadRsp
<1>12. ASSUME NEW r \in Reqs, EndOfRsp(r)
       PROVE  LockHeld'
  BY <1>12 DEF EndOfRsp
<1>13. ASSUME NEW r \in Reqs, CloseRspFifo(r)
       PROVE  LockHeld'
  BY <1>13 DEF CloseRspFifo
<1>14. ASSUME NEW r \in Reqs, Unlock(r)
       PROVE  LockHeld'
  BY <1>14 DEF Unlock
<1>15. ASSUME NEW r \in Reqs, UnlinkRspFifo(r)
       PROVE  LockHeld'
  BY <1>15 DEF UnlinkRspFifo
<1>16. ASSUME NEW r \in Reqs, PierDies(r)
       PROVE  LockHeld'
  BY <1>16 DEF PierDies
<1>17. ASSUME NEW c \in Conns, ConnectStarts(c)
       PROVE  LockHeld'
  BY <1>17 DEF ConnectStarts
<1>18. ASSUME NEW c \in Conns, MakeReqFifo(c)
       PROVE  LockHeld'
  BY <1>18 DEF MakeReqFifo
<1>19. ASSUME NEW c \in Conns, OpenTunnel(c)
       PROVE  LockHeld'
  BY <1>19 DEF OpenTunnel
<1>20. ASSUME NEW c \in Conns, SelectReady(c)
       PROVE  LockHeld'
  BY <1>20 DEF SelectReady
<1>21. ASSUME NEW c \in Conns, SelectTimeout(c)
       PROVE  LockHeld'
  BY <1>21 DEF SelectTimeout
<1>22. ASSUME NEW c \in Conns, ReadReq(c)
       PROVE  LockHeld'
  BY <1>22 DEF ReadReq
<1>23. ASSUME NEW c \in Conns, EndOfReq(c)
       PROVE  LockHeld'
  BY <1>23 DEF EndOfReq
<1>24. ASSUME NEW c \in Conns, CloseTunnel(c)
       PROVE  LockHeld'
  BY <1>24 DEF CloseTunnel
<1>25. ASSUME NEW c \in Conns, ClientLeaves(c)
       PROVE  LockHeld'
  BY <1>25 DEF ClientLeaves
<1>26. ASSUME NEW c \in Conns, ConnectDies(c)
       PROVE  LockHeld'
  BY <1>26 DEF ConnectDies
<1>27. ASSUME NEW c \in Conns, ClientActs(c)
       PROVE  LockHeld'
  BY <1>27, ClientStill
<1>28. ASSUME NEW r \in Reqs, RespondOpens(r)
       PROVE  LockHeld'
  BY <1>28 DEF RespondOpens
<1>29. ASSUME NEW r \in Reqs, RespondAborts(r)
       PROVE  LockHeld'
  BY <1>29 DEF RespondAborts
<1>30. ASSUME NEW r \in Reqs, WriteRsp(r)
       PROVE  LockHeld'
  BY <1>30 DEF WriteRsp
<1>31. ASSUME NEW r \in Reqs, RespondEnds(r)
       PROVE  LockHeld'
  BY <1>31 DEF RespondEnds
<1>32. ASSUME NEW r \in Reqs, RespondDies(r)
       PROVE  LockHeld'
  BY <1>32 DEF RespondDies
<1>33. CASE UNCHANGED vars
  BY <1>33 DEF vars
<1>. QED
  BY <1>1, <1>2, <1>3, <1>4, <1>5, <1>6, <1>7, <1>8, <1>9, <1>10, <1>11, <1>12, <1>13, <1>14, <1>15, <1>16, <1>17, <1>18, <1>19, <1>20, <1>21, <1>22, <1>23, <1>24, <1>25, <1>26, <1>27, <1>28, <1>29, <1>30, <1>31, <1>32, <1>33
     DEF Next, PierStep, ConnectStep, RespondStep, Environment, Client, ClientActs, BodyEnds, BodyEndsEarly

\* At most one Pier is between lockf(F_LOCK) and lockf(F_ULOCK), and only it
\* has the request FIFO open, whatever Piers are killed in between.
THEOREM OneExchangeAlways == Spec => []OneExchange
<1>1. Init => LockHeld
  BY DEF Init, LockHeld, Locked
<1>2. LockHeld => OneExchange
  BY DEF LockHeld, OneExchange, ReqWriters, Locked
<1>. QED
  BY <1>1, <1>2, LockStep, TypeCorrect, PTL DEF Spec

-----------------------------------------------------------------------------
(* Status 434.                                                               *)

\* What a Pier's progress says about the files; none of them is ever removed.
FilesSeen ==
  /\ \A r \in Reqs : ppc[r] \in Locked \cup {"lockWait"} => "lock" \in files
  /\ \A r \in Reqs : ppc[r] \in {"blocked", "write"} => "fifo" \in files
  /\ \A r \in Reqs : sent[r] # 0 => {"lock", "fifo"} \subseteq files

Refused434(r) == ppc[r] \in {"openLock", "openReq"} /\ ppc'[r] = "refused"

\* No step removes one of the two files that a Pier's progress shows to exist.
LEMMA FilesSeenStep == TypeOK /\ FilesSeen /\ [Next]_vars => FilesSeen'
<1>. SUFFICES ASSUME TypeOK, FilesSeen, [Next]_vars
              PROVE  FilesSeen'
  OBVIOUS
<1>. USE DEF pierVars, connVars, rspVars, TypeOK, FilesSeen, Locked
<1>1. ASSUME NEW r \in Reqs, NEW p \in Pids, PierStarts(r, p)
       PROVE  FilesSeen'
  BY <1>1 DEF PierStarts
<1>2. ASSUME NEW r \in Reqs, NoLockFile(r)
       PROVE  FilesSeen'
  BY <1>2 DEF NoLockFile, Refuse
<1>3. ASSUME NEW r \in Reqs, LockFails(r)
       PROVE  FilesSeen'
  BY <1>3 DEF LockFails, Refuse
<1>4. ASSUME NEW r \in Reqs, OpenLock(r)
       PROVE  FilesSeen'
  BY <1>4 DEF OpenLock
<1>5. ASSUME NEW r \in Reqs, TakeLock(r)
       PROVE  FilesSeen'
  BY <1>5 DEF TakeLock
<1>6. ASSUME NEW r \in Reqs, NoReqFifo(r)
       PROVE  FilesSeen'
  BY <1>6 DEF NoReqFifo, Refuse
<1>7. ASSUME NEW r \in Reqs, OpenReqFifo(r)
       PROVE  FilesSeen'
  BY <1>7 DEF OpenReqFifo
<1>8. ASSUME NEW r \in Reqs, WriteReq(r)
       PROVE  FilesSeen'
  BY <1>8 DEF WriteReq
<1>9. ASSUME NEW r \in Reqs, ppc[r] = "write", CloseReqFifo(r)
       PROVE  FilesSeen'
  BY <1>9 DEF CloseReqFifo
<1>10. ASSUME NEW r \in Reqs, OpenRspFifo(r)
       PROVE  FilesSeen'
  BY <1>10 DEF OpenRspFifo
<1>11. ASSUME NEW r \in Reqs, ReadRsp(r)
       PROVE  FilesSeen'
  BY <1>11 DEF ReadRsp
<1>12. ASSUME NEW r \in Reqs, EndOfRsp(r)
       PROVE  FilesSeen'
  BY <1>12 DEF EndOfRsp
<1>13. ASSUME NEW r \in Reqs, CloseRspFifo(r)
       PROVE  FilesSeen'
  BY <1>13 DEF CloseRspFifo
<1>14. ASSUME NEW r \in Reqs, Unlock(r)
       PROVE  FilesSeen'
  BY <1>14 DEF Unlock
<1>15. ASSUME NEW r \in Reqs, UnlinkRspFifo(r)
       PROVE  FilesSeen'
  BY <1>15 DEF UnlinkRspFifo
<1>16. ASSUME NEW r \in Reqs, PierDies(r)
       PROVE  FilesSeen'
  BY <1>16 DEF PierDies
<1>17. ASSUME NEW c \in Conns, ConnectStarts(c)
       PROVE  FilesSeen'
  BY <1>17 DEF ConnectStarts
<1>18. ASSUME NEW c \in Conns, MakeReqFifo(c)
       PROVE  FilesSeen'
  BY <1>18 DEF MakeReqFifo
<1>19. ASSUME NEW c \in Conns, OpenTunnel(c)
       PROVE  FilesSeen'
  BY <1>19 DEF OpenTunnel
<1>20. ASSUME NEW c \in Conns, SelectReady(c)
       PROVE  FilesSeen'
  BY <1>20 DEF SelectReady
<1>21. ASSUME NEW c \in Conns, SelectTimeout(c)
       PROVE  FilesSeen'
  BY <1>21 DEF SelectTimeout
<1>22. ASSUME NEW c \in Conns, ReadReq(c)
       PROVE  FilesSeen'
  BY <1>22 DEF ReadReq
<1>23. ASSUME NEW c \in Conns, EndOfReq(c)
       PROVE  FilesSeen'
  BY <1>23 DEF EndOfReq
<1>24. ASSUME NEW c \in Conns, CloseTunnel(c)
       PROVE  FilesSeen'
  BY <1>24 DEF CloseTunnel
<1>25. ASSUME NEW c \in Conns, ClientLeaves(c)
       PROVE  FilesSeen'
  BY <1>25 DEF ClientLeaves
<1>26. ASSUME NEW c \in Conns, ConnectDies(c)
       PROVE  FilesSeen'
  BY <1>26 DEF ConnectDies
<1>27. ASSUME NEW c \in Conns, ClientActs(c)
       PROVE  FilesSeen'
  BY <1>27, ClientStill
<1>28. ASSUME NEW r \in Reqs, RespondOpens(r)
       PROVE  FilesSeen'
  BY <1>28 DEF RespondOpens
<1>29. ASSUME NEW r \in Reqs, RespondAborts(r)
       PROVE  FilesSeen'
  BY <1>29 DEF RespondAborts
<1>30. ASSUME NEW r \in Reqs, WriteRsp(r)
       PROVE  FilesSeen'
  BY <1>30 DEF WriteRsp
<1>31. ASSUME NEW r \in Reqs, RespondEnds(r)
       PROVE  FilesSeen'
  BY <1>31 DEF RespondEnds
<1>32. ASSUME NEW r \in Reqs, RespondDies(r)
       PROVE  FilesSeen'
  BY <1>32 DEF RespondDies
<1>33. CASE UNCHANGED vars
  BY <1>33 DEF vars
<1>. QED
  BY <1>1, <1>2, <1>3, <1>4, <1>5, <1>6, <1>7, <1>8, <1>9, <1>10, <1>11, <1>12, <1>13, <1>14, <1>15, <1>16, <1>17, <1>18, <1>19, <1>20, <1>21, <1>22, <1>23, <1>24, <1>25, <1>26, <1>27, <1>28, <1>29, <1>30, <1>31, <1>32, <1>33
     DEF Next, PierStep, ConnectStep, RespondStep, Environment, Client, ClientActs, BodyEnds, BodyEndsEarly

\* Only a missing file refuses a Pier that has not waited for the lock.
LEMMA RefusedWhy ==
  ASSUME TypeOK, [Next]_vars, NEW q \in Reqs, Refused434(q)
  PROVE  "lock" \notin files \/ "fifo" \notin files
<1>. DEFINE Goal == "lock" \notin files \/ "fifo" \notin files
<1>. USE DEF pierVars, connVars, rspVars, TypeOK, Refused434
<1>1. ASSUME NEW r \in Reqs, NEW p \in Pids, PierStarts(r, p)
       PROVE  Goal
  BY <1>1 DEF PierStarts
<1>2. ASSUME NEW r \in Reqs, NoLockFile(r)
       PROVE  Goal
  BY <1>2 DEF NoLockFile, Refuse
<1>3. ASSUME NEW r \in Reqs, LockFails(r)
       PROVE  Goal
  BY <1>3 DEF LockFails, Refuse
<1>4. ASSUME NEW r \in Reqs, OpenLock(r)
       PROVE  Goal
  BY <1>4 DEF OpenLock
<1>5. ASSUME NEW r \in Reqs, TakeLock(r)
       PROVE  Goal
  BY <1>5 DEF TakeLock
<1>6. ASSUME NEW r \in Reqs, NoReqFifo(r)
       PROVE  Goal
  BY <1>6 DEF NoReqFifo, Refuse
<1>7. ASSUME NEW r \in Reqs, OpenReqFifo(r)
       PROVE  Goal
  BY <1>7 DEF OpenReqFifo
<1>8. ASSUME NEW r \in Reqs, WriteReq(r)
       PROVE  Goal
  BY <1>8 DEF WriteReq
<1>9. ASSUME NEW r \in Reqs, ppc[r] = "write", CloseReqFifo(r)
       PROVE  Goal
  BY <1>9 DEF CloseReqFifo
<1>10. ASSUME NEW r \in Reqs, OpenRspFifo(r)
       PROVE  Goal
  BY <1>10 DEF OpenRspFifo
<1>11. ASSUME NEW r \in Reqs, ReadRsp(r)
       PROVE  Goal
  BY <1>11 DEF ReadRsp
<1>12. ASSUME NEW r \in Reqs, EndOfRsp(r)
       PROVE  Goal
  BY <1>12 DEF EndOfRsp
<1>13. ASSUME NEW r \in Reqs, CloseRspFifo(r)
       PROVE  Goal
  BY <1>13 DEF CloseRspFifo
<1>14. ASSUME NEW r \in Reqs, Unlock(r)
       PROVE  Goal
  BY <1>14 DEF Unlock
<1>15. ASSUME NEW r \in Reqs, UnlinkRspFifo(r)
       PROVE  Goal
  BY <1>15 DEF UnlinkRspFifo
<1>16. ASSUME NEW r \in Reqs, PierDies(r)
       PROVE  Goal
  BY <1>16 DEF PierDies
<1>17. ASSUME NEW c \in Conns, ConnectStarts(c)
       PROVE  Goal
  BY <1>17 DEF ConnectStarts
<1>18. ASSUME NEW c \in Conns, MakeReqFifo(c)
       PROVE  Goal
  BY <1>18 DEF MakeReqFifo
<1>19. ASSUME NEW c \in Conns, OpenTunnel(c)
       PROVE  Goal
  BY <1>19 DEF OpenTunnel
<1>20. ASSUME NEW c \in Conns, SelectReady(c)
       PROVE  Goal
  BY <1>20 DEF SelectReady
<1>21. ASSUME NEW c \in Conns, SelectTimeout(c)
       PROVE  Goal
  BY <1>21 DEF SelectTimeout
<1>22. ASSUME NEW c \in Conns, ReadReq(c)
       PROVE  Goal
  BY <1>22 DEF ReadReq
<1>23. ASSUME NEW c \in Conns, EndOfReq(c)
       PROVE  Goal
  BY <1>23 DEF EndOfReq
<1>24. ASSUME NEW c \in Conns, CloseTunnel(c)
       PROVE  Goal
  BY <1>24 DEF CloseTunnel
<1>25. ASSUME NEW c \in Conns, ClientLeaves(c)
       PROVE  Goal
  BY <1>25 DEF ClientLeaves
<1>26. ASSUME NEW c \in Conns, ConnectDies(c)
       PROVE  Goal
  BY <1>26 DEF ConnectDies
<1>27. ASSUME NEW c \in Conns, ClientActs(c)
       PROVE  Goal
  BY <1>27, ClientStill
<1>28. ASSUME NEW r \in Reqs, RespondOpens(r)
       PROVE  Goal
  BY <1>28 DEF RespondOpens
<1>29. ASSUME NEW r \in Reqs, RespondAborts(r)
       PROVE  Goal
  BY <1>29 DEF RespondAborts
<1>30. ASSUME NEW r \in Reqs, WriteRsp(r)
       PROVE  Goal
  BY <1>30 DEF WriteRsp
<1>31. ASSUME NEW r \in Reqs, RespondEnds(r)
       PROVE  Goal
  BY <1>31 DEF RespondEnds
<1>32. ASSUME NEW r \in Reqs, RespondDies(r)
       PROVE  Goal
  BY <1>32 DEF RespondDies
<1>33. ASSUME UNCHANGED vars
       PROVE  Goal
  BY <1>33 DEF vars
<1>. QED
  BY <1>1, <1>2, <1>3, <1>4, <1>5, <1>6, <1>7, <1>8, <1>9, <1>10, <1>11, <1>12, <1>13, <1>14, <1>15, <1>16, <1>17, <1>18, <1>19, <1>20, <1>21, <1>22, <1>23, <1>24, <1>25, <1>26, <1>27, <1>28, <1>29, <1>30, <1>31, <1>32, <1>33
     DEF Next, PierStep, ConnectStep, RespondStep, Environment, Client, ClientActs, BodyEnds, BodyEndsEarly

\* Once one request was written to the FIFO of a host, no Pier of that host is
\* refused for a missing file.
THEOREM RefusedOnlyAtFirstAlways == Spec => RefusedOnlyAtFirst
<1>1. Init => FilesSeen
  BY DEF Init, FilesSeen, Locked
<1>2. TypeOK /\ FilesSeen /\ [Next]_vars =>
        [(\E r \in Reqs : ppc[r] \in {"openLock", "openReq"} /\ ppc'[r] = "refused") =>
           \A r \in Reqs : sent[r] = 0]_vars
  BY RefusedWhy DEF FilesSeen, Refused434
<1>. QED
  BY <1>1, <1>2, FilesSeenStep, TypeCorrect, PTL DEF Spec, RefusedOnlyAtFirst

-----------------------------------------------------------------------------
(* The answer FIFOs that stay behind.                                        *)

\* A Pier unlinks its own FIFO last, and no one makes it again.
LEMMA NoFifoLeftStep == IInv /\ NoFifoLeft /\ [Next]_vars => NoFifoLeft'
<1>. SUFFICES ASSUME TypeOK, FilesInPlace, NoFifoLeft, [Next]_vars
              PROVE  NoFifoLeft'
  BY DEF IInv
<1>. USE DEF pierVars, connVars, rspVars, TypeOK, NoFifoLeft
<1>1. ASSUME NEW r \in Reqs, NEW p \in Pids, PierStarts(r, p)
       PROVE  NoFifoLeft'
  BY <1>1 DEF PierStarts
<1>2. ASSUME NEW r \in Reqs, NoLockFile(r)
       PROVE  NoFifoLeft'
  BY <1>2 DEF NoLockFile, Refuse
<1>3. ASSUME NEW r \in Reqs, LockFails(r)
       PROVE  NoFifoLeft'
  BY <1>3 DEF LockFails, Refuse
<1>4. ASSUME NEW r \in Reqs, OpenLock(r)
       PROVE  NoFifoLeft'
  BY <1>4 DEF OpenLock
<1>5. ASSUME NEW r \in Reqs, TakeLock(r)
       PROVE  NoFifoLeft'
  BY <1>5 DEF TakeLock
<1>6. ASSUME NEW r \in Reqs, NoReqFifo(r)
       PROVE  NoFifoLeft'
  BY <1>6 DEF NoReqFifo, Refuse
<1>7. ASSUME NEW r \in Reqs, OpenReqFifo(r)
       PROVE  NoFifoLeft'
  BY <1>7 DEF OpenReqFifo
<1>8. ASSUME NEW r \in Reqs, WriteReq(r)
       PROVE  NoFifoLeft'
  BY <1>8 DEF WriteReq
<1>9. ASSUME NEW r \in Reqs, ppc[r] = "write", CloseReqFifo(r)
       PROVE  NoFifoLeft'
  BY <1>9 DEF CloseReqFifo
<1>10. ASSUME NEW r \in Reqs, OpenRspFifo(r)
       PROVE  NoFifoLeft'
  BY <1>10 DEF OpenRspFifo
<1>11. ASSUME NEW r \in Reqs, ReadRsp(r)
       PROVE  NoFifoLeft'
  BY <1>11 DEF ReadRsp
<1>12. ASSUME NEW r \in Reqs, EndOfRsp(r)
       PROVE  NoFifoLeft'
  BY <1>12 DEF EndOfRsp
<1>13. ASSUME NEW r \in Reqs, CloseRspFifo(r)
       PROVE  NoFifoLeft'
  BY <1>13 DEF CloseRspFifo
<1>14. ASSUME NEW r \in Reqs, Unlock(r)
       PROVE  NoFifoLeft'
  BY <1>14 DEF Unlock
<1>15. ASSUME NEW r \in Reqs, UnlinkRspFifo(r)
       PROVE  NoFifoLeft'
  BY <1>15 DEF UnlinkRspFifo
<1>16. ASSUME NEW r \in Reqs, PierDies(r)
       PROVE  NoFifoLeft'
  BY <1>16 DEF PierDies
<1>17. ASSUME NEW c \in Conns, ConnectStarts(c)
       PROVE  NoFifoLeft'
  BY <1>17 DEF ConnectStarts
<1>18. ASSUME NEW c \in Conns, MakeReqFifo(c)
       PROVE  NoFifoLeft'
  BY <1>18 DEF MakeReqFifo
<1>19. ASSUME NEW c \in Conns, OpenTunnel(c)
       PROVE  NoFifoLeft'
  BY <1>19 DEF OpenTunnel
<1>20. ASSUME NEW c \in Conns, SelectReady(c)
       PROVE  NoFifoLeft'
  BY <1>20 DEF SelectReady
<1>21. ASSUME NEW c \in Conns, SelectTimeout(c)
       PROVE  NoFifoLeft'
  BY <1>21 DEF SelectTimeout
<1>22. ASSUME NEW c \in Conns, ReadReq(c)
       PROVE  NoFifoLeft'
  BY <1>22 DEF ReadReq
<1>23. ASSUME NEW c \in Conns, EndOfReq(c)
       PROVE  NoFifoLeft'
  BY <1>23 DEF EndOfReq
<1>24. ASSUME NEW c \in Conns, CloseTunnel(c)
       PROVE  NoFifoLeft'
  BY <1>24 DEF CloseTunnel
<1>25. ASSUME NEW c \in Conns, ClientLeaves(c)
       PROVE  NoFifoLeft'
  BY <1>25 DEF ClientLeaves
<1>26. ASSUME NEW c \in Conns, ConnectDies(c)
       PROVE  NoFifoLeft'
  BY <1>26 DEF ConnectDies
<1>27. ASSUME NEW c \in Conns, ClientActs(c)
       PROVE  NoFifoLeft'
  BY <1>27, ClientStill
<1>28. ASSUME NEW r \in Reqs, RespondOpens(r)
       PROVE  NoFifoLeft'
  BY <1>28 DEF RespondOpens
<1>29. ASSUME NEW r \in Reqs, RespondAborts(r)
       PROVE  NoFifoLeft'
  BY <1>29 DEF RespondAborts
<1>30. ASSUME NEW r \in Reqs, WriteRsp(r)
       PROVE  NoFifoLeft'
  BY <1>30 DEF WriteRsp
<1>31. ASSUME NEW r \in Reqs, RespondEnds(r)
       PROVE  NoFifoLeft'
  BY <1>31 DEF RespondEnds
<1>32. ASSUME NEW r \in Reqs, RespondDies(r)
       PROVE  NoFifoLeft'
  BY <1>32 DEF RespondDies
<1>33. CASE UNCHANGED vars
  BY <1>33 DEF vars
<1>. QED
  BY <1>1, <1>2, <1>3, <1>4, <1>5, <1>6, <1>7, <1>8, <1>9, <1>10, <1>11, <1>12, <1>13, <1>14, <1>15, <1>16, <1>17, <1>18, <1>19, <1>20, <1>21, <1>22, <1>23, <1>24, <1>25, <1>26, <1>27, <1>28, <1>29, <1>30, <1>31, <1>32, <1>33
     DEF Next, PierStep, ConnectStep, RespondStep, Environment, Client, ClientActs, BodyEnds, BodyEndsEarly

\* An answer FIFO whose Pier ended normally is gone, whatever pids are reused:
\* one that is left belongs to a Pier that is alive, was killed or was refused.
THEOREM NoFifoLeftAlways == Spec => []NoFifoLeft
<1>1. Init => NoFifoLeft
  BY DEF Init, NoFifoLeft
<1>2. IInv /\ [Next]_vars => IInv'
  BY TypeStep, FilesStep DEF IInv
<1>. QED
  BY <1>1, <1>2, InitIInv, NoFifoLeftStep, PTL DEF Spec

=============================================================================
