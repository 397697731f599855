----------------------------- MODULE CgiRequests -----------------------------
(* Proofs about Cgi: the requests in the FIFO and on the tunnels, for every  *)
(* number of browsers, Connects and tokens and every number of faults.       *)
EXTENDS CgiProofs

USE ConstantsAssumption

-----------------------------------------------------------------------------
(* Sequences in which requests follow one another.                           *)

\* Nothing of another request comes behind r.
Final(r, s) == \A j, k \in DOMAIN s : j < k /\ s[j].req = r => s[k].req = r

\* A sequence from which elements were taken out is as serial as it was.
LEMMA PartOfSerial ==
  ASSUME NEW s \in Seq(ReqToken), NEW t \in Seq(ReqToken), NEW at,
         \A k \in DOMAIN t : at[k] \in DOMAIN s /\ t[k] = s[at[k]],
         \A j, k \in DOMAIN t : j < k => at[j] < at[k]
  PROVE  /\ Serial(s) => Serial(t)
         /\ \A r : Final(r, s) => Final(r, t)
<1>. DEFINE N == DOMAIN s
<1>1. DOMAIN s = 1..Len(s) /\ DOMAIN t = 1..Len(t) /\ Len(s) \in Nat /\ Len(t) \in Nat
  OBVIOUS
<1>2. ASSUME Serial(s)
      PROVE  Serial(t)
  <2>. SUFFICES ASSUME NEW j \in DOMAIN t, NEW k \in DOMAIN t, j < k, t[j].req = t[k].req
                PROVE  /\ t[j].i < t[k].i
                       /\ \A m \in j..k : t[m].req = t[j].req
    BY DEF Serial
  <2>1. /\ s[at[j]].i < s[at[k]].i
        /\ \A m \in at[j]..at[k] : s[m].req = s[at[j]].req
    BY <1>2 DEF Serial
  <2>2. ASSUME NEW m \in j..k
        PROVE  m \in DOMAIN t /\ at[m] \in at[j]..at[k]
    <3>1. m \in DOMAIN t /\ (m = j \/ m = k \/ (j < m /\ m < k))
      BY <1>1
    <3>2. at[j] \in Nat /\ at[m] \in Nat /\ at[k] \in Nat
      BY <1>1, <3>1
    <3>. QED
      BY <3>1, <3>2
  <2>3. t[j] = s[at[j]] /\ t[k] = s[at[k]]
    OBVIOUS
  <2>4. ASSUME NEW m \in j..k
        PROVE  t[m].req = t[j].req
    <3>1. t[m] = s[at[m]]
      BY <2>2
    <3>. QED
      BY <2>1, <2>2, <2>3, <3>1
  <2>. QED
    BY <2>1, <2>3, <2>4
<1>3. ASSUME NEW r, Final(r, s)
      PROVE  Final(r, t)
  <2>. SUFFICES ASSUME NEW j \in DOMAIN t, NEW k \in DOMAIN t, j < k, t[j].req = r
                PROVE  t[k].req = r
    BY DEF Final
  <2>1. /\ at[j] \in DOMAIN s /\ at[k] \in DOMAIN s /\ at[j] < at[k]
        /\ t[j] = s[at[j]] /\ t[k] = s[at[k]]
    OBVIOUS
  <2>2. s[at[j]].req = r
    BY <2>1
  <2>3. s[at[k]].req = r
    BY <1>3, <2>1, <2>2 DEF Final
  <2>. QED
    BY <2>1, <2>3
<1>. QED
  BY <1>2, <1>3

\* A token of r behind the others keeps a sequence serial when nothing of
\* another request is behind r and all its tokens come before this one.
LEMMA SerialAppend ==
  ASSUME NEW s \in Seq(ReqToken), NEW e \in ReqToken,
         Serial(s), Final(e.req, s), \A k \in DOMAIN s : s[k].req = e.req => s[k].i < e.i
  PROVE  Serial(Append(s, e)) /\ Final(e.req, Append(s, e))
<1>. DEFINE t == Append(s, e)
<1>1. /\ DOMAIN s = 1..Len(s) /\ DOMAIN t = 1..Len(s) + 1 /\ Len(s) \in Nat
      /\ \A k \in 1..Len(s) : t[k] = s[k]
      /\ t[Len(s) + 1] = e
  OBVIOUS
<1>. HIDE DEF t
<1>2. Serial(t)
  <2>. SUFFICES ASSUME NEW j \in DOMAIN t, NEW k \in DOMAIN t, j < k, t[j].req = t[k].req
                PROVE  /\ t[j].i < t[k].i
                       /\ \A m \in j..k : t[m].req = t[j].req
    BY DEF Serial
  <2>1. CASE k \in DOMAIN s
    BY <1>1, <2>1 DEF Serial
  <2>2. CASE k = Len(s) + 1
    <3>1. j \in DOMAIN s /\ t[j] = s[j] /\ s[j].req = e.req
      BY <1>1, <2>2
    <3>2. \A m \in j..k : m = j \/ m = k \/ (m \in DOMAIN s /\ j < m)
      BY <1>1, <2>2
    <3>. QED
      BY <1>1, <2>2, <3>1, <3>2 DEF Final
  <2>. QED
    BY <1>1, <2>1, <2>2
<1>3. Final(e.req, t)
  BY <1>1 DEF Final
<1>. QED
  BY <1>2, <1>3 DEF t

\* What happens to a tunnel's tokens and those in the FIFO behind them.
LEMMA Concatenations ==
  ASSUME NEW a \in Seq(ReqToken), NEW b \in Seq(ReqToken)
  PROVE  /\ a \o b \in Seq(ReqToken)
         /\ Elems(a \o b) = Elems(a) \cup Elems(b)
         /\ \A e \in ReqToken : a \o Append(b, e) = Append(a \o b, e)
         /\ b # <<>> => Append(a, Head(b)) \o Tail(b) = a \o b
<1>1. \A i \in 1..Len(a) + Len(b) : (a \o b)[i] = IF i <= Len(a) THEN a[i] ELSE b[i - Len(a)]
  OBVIOUS
<1>2. /\ a \o b \in Seq(ReqToken)
      /\ DOMAIN (a \o b) = 1..Len(a) + Len(b)
      /\ DOMAIN a = 1..Len(a) /\ DOMAIN b = 1..Len(b) /\ Len(a) \in Nat /\ Len(b) \in Nat
  OBVIOUS
<1>3. Elems(a \o b) = Elems(a) \cup Elems(b)
  <2>. DEFINE c == a \o b
  <2>. HIDE DEF c
  <2>1. ASSUME NEW x \in Elems(a) PROVE x \in Elems(c)
    BY <1>1, <1>2 DEF Elems, c
  <2>2. ASSUME NEW x \in Elems(b) PROVE x \in Elems(c)
    <3>1. PICK k \in 1..Len(b) : x = b[k]
      BY <1>2 DEF Elems
    <3>2. k + Len(a) \in DOMAIN c /\ c[k + Len(a)] = b[k]
      BY <1>1, <1>2 DEF c
    <3>. QED
      BY <3>1, <3>2 DEF Elems
  <2>3. ASSUME NEW x \in Elems(c) PROVE x \in Elems(a) \cup Elems(b)
    BY <1>1, <1>2 DEF Elems, c
  <2>. QED
    BY <2>1, <2>2, <2>3 DEF c
<1>4. ASSUME NEW e \in ReqToken
      PROVE  a \o Append(b, e) = Append(a \o b, e)
  OBVIOUS
<1>5. b # <<>> => Append(a, Head(b)) \o Tail(b) = a \o b
  OBVIOUS
<1>. QED
  BY <1>2, <1>3, <1>4, <1>5

-----------------------------------------------------------------------------
(* What a step does to the request FIFO and the tunnels.                     *)

\* Where a Pier has not written anything.
Unsent == {"idle", "openLock", "lockWait", "openReq", "blocked", "refused"}

\* The last end of the FIFO is closed.
Discards ==
  /\ ReqWriters' = {} /\ ReqReaders' = {}
  /\ reqBuf' = <<>> /\ dropped' = dropped \cup Elems(reqBuf)

\* A step that writes no token and reads none; it may discard those there are.
Quiet ==
  /\ UNCHANGED <<sent, stream>>
  /\ UNCHANGED <<reqBuf, dropped>> \/ Discards
  /\ \A r \in Reqs : ppc'[r] \in Unsent => ppc[r] \in Unsent
  /\ \A r \in Reqs : ppc'[r] = "write" => ppc[r] \in Unsent \cup {"write"}

\* A step writes a token, reads one, opens a tunnel, or adds nothing to the FIFO
\* and the tunnels: at most the FIFO's contents are discarded.
LEMMA RequestSide ==
  ASSUME TypeOK, [Next]_vars
  PROVE  \/ Quiet
         \/ \E r \in Reqs : WriteReq(r)
         \/ \E c \in Conns : ReadReq(c) \/ ConnectStarts(c)
<1>. USE DEF Quiet, Discards, Unsent, TypeOK, pierVars, connVars, rspVars, SettleReq
<1>1. ASSUME NEW r \in Reqs, NoLockFile(r) \/ LockFails(r) \/ NoReqFifo(r)
      PROVE  Quiet
  BY <1>1 DEF NoLockFile, LockFails, NoReqFifo, Refuse
<1>2. ASSUME NEW r \in Reqs, (\E p \in Pids : PierStarts(r, p)) \/ OpenLock(r) \/ TakeLock(r)
      PROVE  Quiet
  BY <1>2 DEF PierStarts, OpenLock, TakeLock
<1>3. ASSUME NEW r \in Reqs, OpenReqFifo(r)
      PROVE  Quiet
  BY <1>3 DEF OpenReqFifo
<1>4. ASSUME NEW r \in Reqs, ppc[r] = "write", CloseReqFifo(r)
      PROVE  Quiet
  BY <1>4 DEF CloseReqFifo
<1>5. ASSUME NEW r \in Reqs, OpenRspFifo(r) \/ ReadRsp(r) \/ EndOfRsp(r)
      PROVE  Quiet
  BY <1>5, SMTT(30) DEF OpenRspFifo, ReadRsp, EndOfRsp
<1>6. ASSUME NEW r \in Reqs, CloseRspFifo(r) \/ Unlock(r) \/ UnlinkRspFifo(r)
      PROVE  Quiet
  BY <1>6, SMTT(30) DEF CloseRspFifo, Unlock, UnlinkRspFifo
<1>7. ASSUME NEW r \in Reqs, PierDies(r)
      PROVE  Quiet
  BY <1>7 DEF PierDies
<1>8. ASSUME NEW c \in Conns, MakeReqFifo(c) \/ OpenTunnel(c) \/ SelectReady(c)
      PROVE  Quiet
  BY <1>8 DEF MakeReqFifo, OpenTunnel, SelectReady
<1>9. ASSUME NEW c \in Conns, SelectTimeout(c) \/ EndOfReq(c) \/ ClientLeaves(c)
      PROVE  Quiet
  BY <1>9 DEF SelectTimeout, EndOfReq, ClientLeaves
<1>10. ASSUME NEW c \in Conns, CloseTunnel(c) \/ ConnectDies(c)
      PROVE  Quiet
  BY <1>10 DEF CloseTunnel, ConnectDies
<1>11. ASSUME NEW r \in Reqs, RespondAborts(r) \/ RespondDies(r)
      PROVE  Quiet
  BY <1>11 DEF RespondAborts, RespondDies
<1>12. ASSUME NEW r \in Reqs, RespondOpens(r) \/ WriteRsp(r) \/ RespondEnds(r)
      PROVE  Quiet
  BY <1>12, SMTT(30) DEF RespondOpens, WriteRsp, RespondEnds
<1>13. ASSUME NEW c \in Conns, ClientActs(c)
      PROVE  Quiet
  BY <1>13, ClientStill
<1>14. ASSUME UNCHANGED vars
      PROVE  Quiet
  BY <1>14 DEF vars
<1>. QED
  BY <1>1, <1>2, <1>3, <1>4, <1>5, <1>6, <1>7, <1>8, <1>9, <1>10, <1>11, <1>12, <1>13, <1>14
     DEF Next, PierStep, ConnectStep, RespondStep, Environment, Client, ClientActs, BodyEnds, BodyEndsEarly

-----------------------------------------------------------------------------
(* No token twice.                                                           *)

NoneTwice(s) == \A j, k \in DOMAIN s : j # k => s[j] # s[k]

\* Only what its Pier has written of a request is anywhere, and a Pier that
\* is not past its open() has written nothing.
OnlySent ==
  /\ \A r \in Reqs : ppc[r] \in Unsent => sent[r] = 0
  /\ \A t \in Elems(reqBuf) : t.i <= sent[t.req]
  /\ \A t \in dropped : t.i <= sent[t.req]
  /\ \A c \in Conns : \A t \in Elems(stream[c]) : t.i <= sent[t.req]

Delivery == OnlySent /\ NoneTwice(reqBuf) /\ DeliveredOnce

\* The elements of the next state are those of its variables.
LEMMA PrimedElems ==
  /\ Elems(reqBuf)' = Elems(reqBuf')
  /\ \A c \in Conns : Elems(stream[c])' = Elems(stream'[c])
  /\ NoneTwice(reqBuf)' = NoneTwice(reqBuf')
  BY DEF Elems, NoneTwice

\* The head of a queue without repetitions is not in its tail.
LEMMA HeadOnce ==
  ASSUME NEW s \in Seq(ReqToken), s # <<>>, NoneTwice(s)
  PROVE  /\ Elems(s) = {Head(s)} \cup Elems(Tail(s))
         /\ Head(s) \notin Elems(Tail(s))
         /\ NoneTwice(Tail(s))
<1>. DEFINE t == Tail(s)
<1>1. /\ DOMAIN s = 1..Len(s) /\ Len(s) \in Nat /\ Len(s) # 0
      /\ DOMAIN t = 1..Len(s) - 1
      /\ \A k \in 1..Len(s) - 1 : t[k] = s[k + 1]
      /\ Head(s) = s[1]
  OBVIOUS
<1>. HIDE DEF t
<1>2. \A k \in DOMAIN t : k + 1 \in DOMAIN s /\ k + 1 # 1
  BY <1>1
<1>3. Elems(s) \subseteq {Head(s)} \cup Elems(t)
  <2>. SUFFICES ASSUME NEW k \in DOMAIN s, k # 1 PROVE s[k] \in Elems(t)
    BY <1>1 DEF Elems
  <2>1. k - 1 \in DOMAIN t /\ t[k - 1] = s[k]
    BY <1>1
  <2>. QED
    BY <2>1 DEF Elems
<1>4. {Head(s)} \cup Elems(t) \subseteq Elems(s)
  BY <1>1, <1>2 DEF Elems
<1>5. Head(s) \notin Elems(t)
  BY <1>1, <1>2 DEF Elems, NoneTwice
<1>6. NoneTwice(t)
  BY <1>1, <1>2 DEF NoneTwice
<1>. QED
  BY <1>3, <1>4, <1>5, <1>6 DEF t

\* A token is written once, and leaves the FIFO to one tunnel or to nowhere.
LEMMA DeliveryStep == TypeOK /\ Delivery /\ [Next]_vars => Delivery'
<1>. SUFFICES ASSUME TypeOK, Delivery, [Next]_vars
              PROVE  Delivery'
  OBVIOUS
<1>1. Elems(reqBuf) \subseteq ReqToken /\ \A c \in Conns : Elems(stream[c]) \subseteq ReqToken
  BY ElemsOfSeq DEF TypeOK
<1>2. dropped \subseteq ReqToken /\ \A t \in ReqToken : t.req \in Reqs
  BY DEF TypeOK, ReqToken
<1>3. Elems(<<>>) = {} /\ NoneTwice(<<>>)
  BY DEF Elems, NoneTwice
<1>4. CASE Quiet
  <2>1. \A r \in Reqs : ppc'[r] \in Unsent => sent'[r] = 0
    BY <1>4 DEF Quiet, Delivery, OnlySent
  <2>2. CASE UNCHANGED <<reqBuf, dropped>>
    BY <1>4, <2>1, <2>2, PrimedElems DEF Quiet, Delivery, OnlySent, DeliveredOnce
  <2>3. CASE Discards
    BY <1>3, <1>4, <2>1, <2>3, PrimedElems DEF Quiet, Discards, Delivery, OnlySent, DeliveredOnce
  <2>. QED
    BY <1>4, <2>2, <2>3 DEF Quiet
<1>5. ASSUME NEW r \in Reqs, WriteReq(r)
      PROVE  Delivery'
  <2>. DEFINE t == Tok(r, sent[r] + 1)
  <2>1. /\ t \in ReqToken /\ t.req = r /\ t.i = sent[r] + 1 /\ ppc[r] = "write"
        /\ sent[r] \in Nat /\ sent' = [sent EXCEPT ![r] = @ + 1]
        /\ reqBuf' = Append(reqBuf, t)
        /\ UNCHANGED <<ppc, stream, dropped>>
    BY <1>5, SMTT(30) DEF WriteReq, TypeOK, Tok, ReqToken, connVars
  <2>. HIDE DEF t
  <2>2. ~(t.i <= sent[t.req])
    BY <2>1
  <2>3. /\ t \notin Elems(reqBuf) /\ t \notin dropped
        /\ \A c \in Conns : t \notin Elems(stream[c])
    BY <2>2 DEF Delivery, OnlySent
  <2>4. Elems(reqBuf') = Elems(reqBuf) \cup {t}
    BY <2>1, ElemsOfSeq DEF TypeOK
  <2>5. NoneTwice(reqBuf')
    <3>1. /\ DOMAIN reqBuf = 1..Len(reqBuf) /\ Len(reqBuf) \in Nat
          /\ DOMAIN reqBuf' = 1..Len(reqBuf) + 1
          /\ \A k \in DOMAIN reqBuf : reqBuf'[k] = reqBuf[k]
          /\ reqBuf'[Len(reqBuf) + 1] = t
      BY <2>1 DEF TypeOK
    <3>2. \A k \in DOMAIN reqBuf : reqBuf[k] # t
      BY <2>3 DEF Elems
    <3>. QED
      BY <3>1, <3>2 DEF NoneTwice, Delivery
  <2>6. \A e \in ReqToken : e.i <= sent[e.req] => e.i <= sent'[e.req]
    <3>. SUFFICES ASSUME NEW e \in ReqToken, e.i <= sent[e.req] PROVE e.i <= sent'[e.req]
      OBVIOUS
    <3>1. e.i \in Nat /\ e.req \in Reqs /\ sent[e.req] \in Nat
      BY DEF ReqToken, TypeOK
    <3>. QED
      BY <2>1, <3>1 DEF TypeOK
  <2>7. t.i <= sent'[t.req]
    BY <2>1 DEF TypeOK
  <2>8. OnlySent'
    <3>1. \A q \in Reqs : ppc'[q] \in Unsent => sent'[q] = 0
      BY <2>1 DEF Delivery, OnlySent, Unsent, TypeOK
    <3>2. \A e \in Elems(reqBuf') : e.i <= sent'[e.req]
      BY <1>1, <2>4, <2>6, <2>7 DEF Delivery, OnlySent
    <3>3. \A e \in dropped' : e.i <= sent'[e.req]
      BY <1>2, <2>1, <2>6 DEF Delivery, OnlySent
    <3>4. \A c \in Conns : \A e \in Elems(stream'[c]) : e.i <= sent'[e.req]
      BY <1>1, <2>1, <2>6 DEF Delivery, OnlySent
    <3>. QED
      BY <3>1, <3>2, <3>3, <3>4, PrimedElems DEF OnlySent
  <2>9. DeliveredOnce'
    BY <2>1, <2>3, <2>4, PrimedElems, SMTT(30) DEF Delivery, DeliveredOnce
  <2>. QED
    BY <2>5, <2>8, <2>9, PrimedElems DEF Delivery
<1>6. ASSUME NEW c \in Conns, ReadReq(c)
      PROVE  Delivery'
  <2>. DEFINE h == Head(reqBuf)
  <2>1. /\ reqBuf # <<>> /\ reqBuf' = Tail(reqBuf)
        /\ stream' = [stream EXCEPT ![c] = Append(@, h)]
        /\ UNCHANGED <<ppc, sent, dropped>>
    BY <1>6 DEF ReadReq, pierVars
  <2>2. /\ h \in ReqToken
        /\ Elems(reqBuf) = {h} \cup Elems(reqBuf')
        /\ h \notin Elems(reqBuf') /\ NoneTwice(reqBuf')
    BY <2>1, HeadOnce, ElemsOfSeq DEF TypeOK, Delivery
  <2>. HIDE DEF h
  <2>3. Elems(stream'[c]) = Elems(stream[c]) \cup {h}
    BY <2>1, <2>2, ElemsOfSeq DEF TypeOK
  <2>4. \A d \in Conns : d # c => stream'[d] = stream[d]
    BY <2>1 DEF TypeOK
  <2>5. OnlySent'
    BY <2>1, <2>2, <2>3, <2>4, PrimedElems DEF Delivery, OnlySent
  <2>6. DeliveredOnce'
    <3>1. /\ \A d \in Conns : Elems(stream[d]) \cap (Elems(reqBuf) \cup dropped) = {}
          /\ Elems(reqBuf) \cap dropped = {}
          /\ \A d, e \in Conns : d # e => Elems(stream[d]) \cap Elems(stream[e]) = {}
      BY DEF Delivery, DeliveredOnce
    <3>2. h \notin dropped /\ \A d \in Conns : h \notin Elems(stream[d])
      BY <2>2, <3>1
    <3>3. \A d \in Conns : Elems(stream'[d]) \cap (Elems(reqBuf') \cup dropped) = {}
      BY <2>2, <2>3, <2>4, <3>1, <3>2
    <3>4. \A d, e \in Conns : d # e => Elems(stream'[d]) \cap Elems(stream'[e]) = {}
      BY <2>3, <2>4, <3>1, <3>2
    <3>. QED
      BY <2>1, <2>2, <3>1, <3>3, <3>4, PrimedElems DEF DeliveredOnce
  <2>. QED
    BY <2>2, <2>5, <2>6, PrimedElems DEF Delivery
<1>7. ASSUME NEW c \in Conns, ConnectStarts(c)
      PROVE  Delivery'
  <2>1. /\ stream' = [stream EXCEPT ![c] = <<>>]
        /\ UNCHANGED <<ppc, sent, reqBuf, dropped>>
    BY <1>7 DEF ConnectStarts, pierVars
  <2>2. \A d \in Conns : stream'[d] = stream[d] \/ Elems(stream'[d]) = {}
    BY <1>3, <2>1 DEF TypeOK
  <2>3. OnlySent'
    BY <2>1, <2>2, PrimedElems DEF Delivery, OnlySent
  <2>4. DeliveredOnce'
    BY <2>1, <2>2, PrimedElems DEF Delivery, DeliveredOnce
  <2>. QED
    BY <2>1, <2>3, <2>4, PrimedElems DEF Delivery
<1>. QED
  BY <1>4, <1>5, <1>6, <1>7, RequestSide

\* Before any process starts there is no token.
LEMMA InitDelivery == Init => Delivery
  BY DEF Init, Delivery, OnlySent, NoneTwice, DeliveredOnce, Elems, Unsent

\* No token reaches the client on two tunnels, or after it was discarded, with
\* any number of Connects reading the FIFO.
THEOREM DeliveredOnceAlways == Spec => []DeliveredOnce
<1>1. Delivery => DeliveredOnce
  BY DEF Delivery
<1>. QED
  BY <1>1, InitDelivery, DeliveryStep, TypeCorrect, PTL DEF Spec

-----------------------------------------------------------------------------
(* Requests one after the other.                                             *)

\* Each client's tokens with those it may still get are serial, and while a
\* Pier writes nothing is behind its tokens.
InOrder ==
  \A c \in Conns :
    /\ Serial(stream[c] \o reqBuf)
    /\ \A r \in Reqs : ppc[r] = "write" => Final(r, stream[c] \o reqBuf)

\* The order of the next state is that of its variables.
LEMMA PrimedOrder ==
  \A c \in Conns : /\ Serial(stream[c] \o reqBuf)' = Serial(stream'[c] \o reqBuf')
                   /\ \A r \in Reqs : Final(r, stream[c] \o reqBuf)'
                                        = Final(r, stream'[c] \o reqBuf')
  BY DEF Serial, Final

\* Taking out of a tunnel or the FIFO keeps the order.
LEMMA PartsInOrder ==
  ASSUME NEW a \in Seq(ReqToken), NEW b \in Seq(ReqToken)
  PROVE  /\ Serial(a \o b) => Serial(a \o <<>>) /\ Serial(<<>> \o b)
         /\ \A r : Final(r, a \o b) => Final(r, a \o <<>>) /\ Final(r, <<>> \o b)
         /\ b # <<>> => /\ Serial(a \o b) => Serial(a \o Tail(b))
                        /\ \A r : Final(r, a \o b) => Final(r, a \o Tail(b))
<1>. DEFINE s == a \o b
<1>1. /\ s \in Seq(ReqToken) /\ a \o <<>> = a /\ <<>> \o b = b
      /\ DOMAIN s = 1..Len(a) + Len(b)
      /\ DOMAIN a = 1..Len(a) /\ DOMAIN b = 1..Len(b) /\ Len(a) \in Nat /\ Len(b) \in Nat
      /\ \A i \in 1..Len(a) + Len(b) : s[i] = IF i <= Len(a) THEN a[i] ELSE b[i - Len(a)]
  OBVIOUS
<1>. HIDE DEF s
<1>2. /\ Serial(s) => Serial(a)
      /\ \A r : Final(r, s) => Final(r, a)
  <2>. DEFINE at == [k \in DOMAIN a |-> k]
  <2>1. \A k \in DOMAIN a : at[k] \in DOMAIN s /\ a[k] = s[at[k]]
    BY <1>1
  <2>2. \A j, k \in DOMAIN a : j < k => at[j] < at[k]
    BY <1>1
  <2>. HIDE DEF at
  <2>. QED
    BY <1>1, <2>1, <2>2, PartOfSerial
<1>3. /\ Serial(s) => Serial(b)
      /\ \A r : Final(r, s) => Final(r, b)
  <2>. DEFINE at == [k \in DOMAIN b |-> k + Len(a)]
  <2>1. \A k \in DOMAIN b : at[k] \in DOMAIN s /\ b[k] = s[at[k]]
    BY <1>1
  <2>2. \A j, k \in DOMAIN b : j < k => at[j] < at[k]
    BY <1>1
  <2>. HIDE DEF at
  <2>. QED
    BY <1>1, <2>1, <2>2, PartOfSerial
<1>4. ASSUME b # <<>>
      PROVE  /\ Serial(s) => Serial(a \o Tail(b))
             /\ \A r : Final(r, s) => Final(r, a \o Tail(b))
  <2>. DEFINE t == a \o Tail(b)
              at == [k \in 1..Len(a) + Len(b) - 1 |-> IF k <= Len(a) THEN k ELSE k + 1]
  <2>1. /\ Tail(b) \in Seq(ReqToken) /\ Len(Tail(b)) = Len(b) - 1 /\ Len(b) - 1 \in Nat
        /\ \A k \in 1..Len(b) - 1 : Tail(b)[k] = b[k + 1]
    BY <1>4
  <2>2. /\ t \in Seq(ReqToken) /\ DOMAIN t = 1..Len(a) + Len(b) - 1
        /\ \A k \in 1..Len(a) + Len(b) - 1 :
             t[k] = IF k <= Len(a) THEN a[k] ELSE Tail(b)[k - Len(a)]
    BY <2>1
  <2>. HIDE DEF t
  <2>3. ASSUME NEW k \in DOMAIN t
        PROVE  at[k] \in DOMAIN s /\ t[k] = s[at[k]]
    <3>1. CASE k <= Len(a)
      BY <1>1, <2>2, <3>1
    <3>2. CASE ~(k <= Len(a))
      <4>1. /\ at[k] = k + 1 /\ k + 1 \in DOMAIN s /\ ~(k + 1 <= Len(a))
            /\ k - Len(a) \in 1..Len(b) - 1 /\ k + 1 - Len(a) = (k - Len(a)) + 1
        BY <1>1, <2>2, <3>2
      <4>2. t[k] = Tail(b)[k - Len(a)] /\ Tail(b)[k - Len(a)] = b[(k - Len(a)) + 1]
        BY <2>1, <2>2, <3>2, <4>1
      <4>3. s[k + 1] = b[k + 1 - Len(a)]
        <5>1. \A m \in DOMAIN s : ~(m <= Len(a)) => s[m] = b[m - Len(a)]
          BY <1>1
        <5>. DEFINE m == k + 1
        <5>2. m \in DOMAIN s /\ ~(m <= Len(a))
          BY <4>1
        <5>. HIDE DEF m
        <5>3. s[m] = b[m - Len(a)]
          BY <5>1, <5>2
        <5>. QED
          BY <5>3 DEF m
      <4>. QED
        BY <4>1, <4>2, <4>3
    <3>. QED
      BY <3>1, <3>2
  <2>4. \A j, k \in DOMAIN t : j < k => at[j] < at[k]
    BY <1>1, <2>2
  <2>. HIDE DEF at
  <2>5. /\ Serial(s) => Serial(t)
        /\ \A r : Final(r, s) => Final(r, t)
    BY <1>1, <2>2, <2>3, <2>4, PartOfSerial
  <2>. QED
    BY <2>5 DEF t
<1>. QED
  BY <1>1, <1>2, <1>3, <1>4 DEF s

\* The lock's holder alone writes, and behind nothing but its own tokens.
LEMMA InOrderStep == TypeOK /\ OneExchange /\ Delivery /\ InOrder /\ [Next]_vars => InOrder'
<1>. SUFFICES ASSUME TypeOK, OneExchange, Delivery, InOrder, [Next]_vars,
                     NEW c \in Conns
              PROVE  /\ Serial(stream'[c] \o reqBuf')
                     /\ \A r \in Reqs : ppc'[r] = "write" => Final(r, stream'[c] \o reqBuf')
  BY PrimedOrder DEF InOrder
<1>. DEFINE s == stream[c] \o reqBuf
<1>1. /\ stream[c] \in Seq(ReqToken) /\ reqBuf \in Seq(ReqToken) /\ s \in Seq(ReqToken)
      /\ Elems(s) = Elems(stream[c]) \cup Elems(reqBuf)
  BY Concatenations DEF TypeOK
<1>2. Serial(s) /\ \A r \in Reqs : ppc[r] = "write" => Final(r, s)
  BY DEF InOrder
<1>3. ASSUME NEW k \in DOMAIN s
      PROVE  s[k] \in ReqToken /\ s[k].i \in 1..ReqLen /\ s[k].i <= sent[s[k].req]
  <2>1. s[k] \in ReqToken /\ s[k] \in Elems(s)
    BY <1>1 DEF Elems
  <2>. QED
    BY <1>1, <2>1 DEF Delivery, OnlySent, ReqToken
<1>4. ASSUME NEW r \in Reqs, ppc[r] \in Unsent
      PROVE  Final(r, s)
  <2>1. sent[r] = 0
    BY <1>4 DEF Delivery, OnlySent
  <2>2. \A k \in DOMAIN s : s[k].req # r
    BY <1>3, <2>1
  <2>. QED
    BY <2>2 DEF Final
<1>5. CASE Quiet
  <2>1. \A r \in Reqs : ppc'[r] = "write" => Final(r, s)
    BY <1>2, <1>4, <1>5 DEF Quiet
  <2>2. CASE UNCHANGED <<reqBuf, dropped>>
    BY <1>2, <1>5, <2>1, <2>2 DEF Quiet
  <2>3. CASE Discards
    BY <1>1, <1>2, <1>5, <2>1, <2>3, PartsInOrder DEF Quiet, Discards
  <2>. QED
    BY <1>5, <2>2, <2>3 DEF Quiet
<1>6. ASSUME NEW r \in Reqs, WriteReq(r)
      PROVE  /\ Serial(stream'[c] \o reqBuf')
             /\ \A q \in Reqs : ppc'[q] = "write" => Final(q, stream'[c] \o reqBuf')
  <2>. DEFINE t == Tok(r, sent[r] + 1)
  <2>1. /\ t \in ReqToken /\ t.req = r /\ t.i = sent[r] + 1 /\ sent[r] \in Nat
        /\ ppc[r] = "write" /\ ppc' = ppc
        /\ stream' = stream /\ reqBuf' = Append(reqBuf, t)
    BY <1>6, SMTT(30) DEF WriteReq, TypeOK, Tok, ReqToken, connVars
  <2>. HIDE DEF t
  <2>2. stream'[c] \o reqBuf' = Append(s, t)
    BY <1>1, <2>1, Concatenations
  <2>3. ASSUME NEW k \in DOMAIN s, s[k].req = r
        PROVE  s[k].i < t.i
    <3>1. s[k].i \in Nat /\ s[k].i <= sent[r]
      BY <1>3, <2>3
    <3>2. sent[r] \in Nat /\ t.i = sent[r] + 1
      BY <2>1
    <3>. QED
      BY <3>1, <3>2
  <2>4. Serial(Append(s, t)) /\ Final(r, Append(s, t))
    BY <1>1, <1>2, <2>1, <2>3, SerialAppend
  <2>5. \A q \in Reqs : ppc'[q] = "write" => q = r
    BY <2>1 DEF OneExchange, Locked
  <2>. QED
    BY <2>2, <2>4, <2>5
<1>7. ASSUME NEW d \in Conns, ReadReq(d)
      PROVE  /\ Serial(stream'[c] \o reqBuf')
             /\ \A r \in Reqs : ppc'[r] = "write" => Final(r, stream'[c] \o reqBuf')
  <2>1. /\ reqBuf # <<>> /\ reqBuf' = Tail(reqBuf) /\ ppc' = ppc
        /\ stream' = [stream EXCEPT ![d] = Append(@, Head(reqBuf))]
    BY <1>7 DEF ReadReq, pierVars
  <2>2. CASE d = c
    <3>1. stream'[c] \o reqBuf' = s
      BY <1>1, <2>1, <2>2, Concatenations DEF TypeOK
    <3>. QED
      BY <1>2, <2>1, <3>1
  <2>3. CASE d # c
    <3>1. stream'[c] \o reqBuf' = stream[c] \o Tail(reqBuf)
      BY <2>1, <2>3 DEF TypeOK
    <3>. QED
      BY <1>1, <1>2, <2>1, <3>1, PartsInOrder
  <2>. QED
    BY <2>2, <2>3
<1>8. ASSUME NEW d \in Conns, ConnectStarts(d)
      PROVE  /\ Serial(stream'[c] \o reqBuf')
             /\ \A r \in Reqs : ppc'[r] = "write" => Final(r, stream'[c] \o reqBuf')
  <2>1. /\ stream' = [stream EXCEPT ![d] = <<>>]
        /\ UNCHANGED <<ppc, reqBuf>>
    BY <1>8 DEF ConnectStarts, pierVars
  <2>2. CASE d = c
    <3>1. stream'[c] \o reqBuf' = <<>> \o reqBuf
      BY <2>1, <2>2 DEF TypeOK
    <3>. QED
      BY <1>1, <1>2, <2>1, <3>1, PartsInOrder
  <2>3. CASE d # c
    <3>1. stream'[c] \o reqBuf' = s
      BY <2>1, <2>3 DEF TypeOK
    <3>. QED
      BY <1>2, <2>1, <3>1
  <2>. QED
    BY <2>2, <2>3
<1>. QED
  BY <1>5, <1>6, <1>7, <1>8, RequestSide

\* On a tunnel requests follow one another, whole or not, whichever Piers are
\* killed and however many Connects read.
THEOREM RequestsInOrderAlways == Spec => []RequestsInOrder
<1>1. Init => InOrder
  BY DEF Init, InOrder, Serial, Final
<1>2. InOrder => RequestsInOrder
  BY DEF InOrder, RequestsInOrder
<1>. QED
  BY <1>1, <1>2, InOrderStep, InitDelivery, DeliveryStep, TypeCorrect, OneExchangeAlways, PTL
     DEF Spec

-----------------------------------------------------------------------------
(* A request altogether or not at all.                                       *)

\* A Connect stays in its read loop until the FIFO is empty and no Pier has it
\* open, unless its client has left.
StaysReading(c) ==
  cpc[c] = "read" =>
    \/ cpc'[c] = "read"
    \/ reqBuf = <<>> /\ ReqWriters = {} /\ UNCHANGED <<ppc, reqBuf, stream, dropped>>
    \/ ~up[c]

\* Until a tunnel is lost no Connect loses its client, and one that starts has one.
TunnelsKept ==
  /\ leaves' = 0 => leaves = 0
  /\ \A c \in Conns : /\ leaves' = 0 /\ up[c] => up'[c]
                      /\ cpc'[c] # "off" => cpc[c] # "off" \/ up'[c]
                      /\ StaysReading(c)

\* While the client leaves no tunnel, a Connect that reads keeps reading.
LEMMA TunnelSide == TypeOK /\ [Next]_vars => TunnelsKept
<1>. SUFFICES ASSUME TypeOK, [Next]_vars
              PROVE  TunnelsKept
  OBVIOUS
<1>. USE DEF TunnelsKept, StaysReading, TypeOK, pierVars, connVars, rspVars
<1>1. ASSUME NEW r \in Reqs, NoLockFile(r) \/ LockFails(r) \/ NoReqFifo(r)
      PROVE  TunnelsKept
  BY <1>1 DEF NoLockFile, LockFails, NoReqFifo, Refuse
<1>2. ASSUME NEW r \in Reqs, (\E p \in Pids : PierStarts(r, p)) \/ OpenLock(r) \/ TakeLock(r)
      PROVE  TunnelsKept
  BY <1>2 DEF PierStarts, OpenLock, TakeLock
<1>3. ASSUME NEW r \in Reqs, OpenReqFifo(r) \/ WriteReq(r) \/ CloseReqFifo(r)
      PROVE  TunnelsKept
  BY <1>3 DEF OpenReqFifo, WriteReq, CloseReqFifo
<1>4. ASSUME NEW r \in Reqs, OpenRspFifo(r) \/ ReadRsp(r) \/ EndOfRsp(r)
      PROVE  TunnelsKept
  BY <1>4 DEF OpenRspFifo, ReadRsp, EndOfRsp
<1>5. ASSUME NEW r \in Reqs, CloseRspFifo(r) \/ Unlock(r) \/ UnlinkRspFifo(r) \/ PierDies(r)
      PROVE  TunnelsKept
  BY <1>5 DEF CloseRspFifo, Unlock, UnlinkRspFifo, PierDies
<1>6. ASSUME NEW d \in Conns, ConnectStarts(d) \/ MakeReqFifo(d) \/ OpenTunnel(d)
      PROVE  TunnelsKept
  BY <1>6 DEF ConnectStarts, MakeReqFifo, OpenTunnel
<1>7. ASSUME NEW d \in Conns, SelectReady(d) \/ SelectTimeout(d) \/ ReadReq(d)
      PROVE  TunnelsKept
  BY <1>7 DEF SelectReady, SelectTimeout, ReadReq
<1>8. ASSUME NEW d \in Conns, EndOfReq(d) \/ CloseTunnel(d)
      PROVE  TunnelsKept
  BY <1>8 DEF EndOfReq, CloseTunnel
<1>9. ASSUME NEW d \in Conns, ClientLeaves(d) \/ ConnectDies(d)
      PROVE  TunnelsKept
  BY <1>9 DEF ClientLeaves, ConnectDies
<1>10. ASSUME NEW r \in Reqs, RespondAborts(r) \/ RespondDies(r)
       PROVE  TunnelsKept
  BY <1>10 DEF RespondAborts, RespondDies
<1>11. ASSUME NEW r \in Reqs, RespondOpens(r) \/ WriteRsp(r) \/ RespondEnds(r)
       PROVE  TunnelsKept
  BY <1>11 DEF RespondOpens, WriteRsp, RespondEnds
<1>12. ASSUME NEW c \in Conns, ClientActs(c)
       PROVE  TunnelsKept
  BY <1>12, ClientStill
<1>13. ASSUME UNCHANGED vars
       PROVE  TunnelsKept
  BY <1>13 DEF vars
<1>. QED
  BY <1>1, <1>2, <1>3, <1>4, <1>5, <1>6, <1>7, <1>8, <1>9, <1>10, <1>11, <1>12, <1>13
     DEF Next, PierStep, ConnectStep, RespondStep, Environment, Client, ClientActs, BodyEnds, BodyEndsEarly

\* Until the client loses a tunnel: every Connect still has its client; a
\* Connect that delivered part of a request stays in its read loop as long as
\* there is more to come; a request that was discarded is not being written.
Wholly ==
  leaves = 0 =>
    /\ \A c \in Conns : cpc[c] # "off" => up[c]
    /\ \A c \in Conns, r \in Reqs :
         /\ Touched(r, Elems(stream[c]))
         /\ Touched(r, Elems(reqBuf)) \/ ppc[r] = "write"
         => cpc[c] = "read"
    /\ \A r \in Reqs : Touched(r, dropped) => ppc[r] # "write"

\* The requests in a part of the next state are those of its variables.
LEMMA PrimedTouched ==
  /\ \A r \in Reqs : Touched(r, Elems(reqBuf))' = Touched(r, Elems(reqBuf'))
  /\ \A r \in Reqs : Touched(r, dropped)' = Touched(r, dropped')
  /\ \A r \in Reqs, c \in Conns : Touched(r, Elems(stream[c]))' = Touched(r, Elems(stream'[c]))
  BY DEF Touched, Elems

\* What is discarded is discarded with all of its request.
LEMMA WhollyStep ==
  TypeOK /\ Delivery /\ Wholly /\ AllOrNothing /\ [Next]_vars => Wholly' /\ AllOrNothing'
<1>. SUFFICES ASSUME TypeOK, Delivery, Wholly, AllOrNothing, [Next]_vars, leaves' = 0
              PROVE  Wholly' /\ AllOrNothing'
  BY DEF Wholly, AllOrNothing
<1>1. TunnelsKept
  BY TunnelSide
<1>2. leaves = 0 /\ \A c \in Conns : up[c] => up'[c]
  BY <1>1 DEF TunnelsKept
<1>3. /\ \A c \in Conns : cpc[c] # "off" => up[c]
      /\ \A c \in Conns, r \in Reqs :
           Touched(r, Elems(stream[c])) /\ (Touched(r, Elems(reqBuf)) \/ ppc[r] = "write")
             => cpc[c] = "read"
      /\ \A r \in Reqs : Touched(r, dropped) => ppc[r] # "write"
  BY <1>2 DEF Wholly
<1>4. \A r \in Reqs : Touched(r, dropped) =>
        ~Touched(r, Elems(reqBuf)) /\ \A c \in Conns : ~Touched(r, Elems(stream[c]))
  BY <1>2 DEF AllOrNothing
<1>5. \A c \in Conns : cpc'[c] # "off" => up'[c]
  BY <1>1, <1>2, <1>3 DEF TunnelsKept
<1>6. \A c \in Conns : cpc[c] = "read" =>
        \/ cpc'[c] = "read"
        \/ reqBuf = <<>> /\ ReqWriters = {} /\ UNCHANGED <<ppc, reqBuf, stream, dropped>>
  BY <1>1, <1>3 DEF TunnelsKept, StaysReading
<1>7. ASSUME NEW r \in Reqs, ppc[r] \in Unsent
      PROVE  /\ ~Touched(r, dropped) /\ ~Touched(r, Elems(reqBuf))
             /\ \A c \in Conns : ~Touched(r, Elems(stream[c]))
  <2>1. \A t \in ReqToken : t.req = r => ~(t.i <= sent[t.req])
    BY <1>7 DEF Delivery, OnlySent, ReqToken
  <2>2. /\ dropped \subseteq ReqToken /\ Elems(reqBuf) \subseteq ReqToken
        /\ \A c \in Conns : Elems(stream[c]) \subseteq ReqToken
    BY ElemsOfSeq DEF TypeOK
  <2>. QED
    BY <2>1, <2>2 DEF Delivery, OnlySent, Touched
<1>8. \A r \in Reqs : ~Touched(r, Elems(<<>>)) /\ ~Touched(r, {})
  BY DEF Touched, Elems
<1>9. \A r : r \in ReqWriters <=> r \in Reqs /\ ppc[r] \in {"blocked", "write"}
  BY DEF ReqWriters
<1>10. SUFFICES /\ \A c \in Conns, r \in Reqs :
                    /\ Touched(r, Elems(stream'[c]))
                    /\ Touched(r, Elems(reqBuf')) \/ ppc'[r] = "write"
                    => cpc'[c] = "read"
               /\ \A r \in Reqs : Touched(r, dropped') =>
                    /\ ppc'[r] # "write"
                    /\ ~Touched(r, Elems(reqBuf'))
                    /\ \A c \in Conns : ~Touched(r, Elems(stream'[c]))
  BY <1>5, PrimedTouched DEF Wholly, AllOrNothing
<1>11. CASE Quiet
  <2>1. ASSUME NEW r \in Reqs, ppc'[r] = "write"
        PROVE  ppc[r] = "write" \/ ppc[r] \in Unsent
    BY <1>11, <2>1 DEF Quiet
  <2>2. CASE UNCHANGED <<reqBuf, dropped>>
    <3>1. ASSUME NEW c \in Conns, NEW r \in Reqs, Touched(r, Elems(stream[c])),
                 Touched(r, Elems(reqBuf)) \/ ppc'[r] = "write"
          PROVE  cpc'[c] = "read"
      <4>1. cpc[c] = "read" /\ (Touched(r, Elems(reqBuf)) \/ ppc[r] = "write")
        BY <1>3, <1>7, <2>1, <3>1
      <4>. QED
        BY <1>6, <1>8, <1>9, <4>1
    <3>2. \A r \in Reqs : Touched(r, dropped) => ppc'[r] # "write"
      BY <1>3, <1>7, <2>1
    <3>. QED
      BY <1>4, <1>11, <2>2, <3>1, <3>2 DEF Quiet
  <2>3. CASE Discards
    <3>1. /\ reqBuf' = <<>> /\ stream' = stream
          /\ \A r \in Reqs : Touched(r, dropped') =>
               Touched(r, dropped) \/ Touched(r, Elems(reqBuf))
      BY <1>11, <2>3 DEF Discards, Quiet, Touched
    <3>2. \A r \in Reqs : ppc'[r] # "write"
      BY <2>3 DEF Discards, ReqWriters
    <3>3. \A c \in Conns : cpc'[c] # "read"
      BY <2>3 DEF Discards, ReqReaders
    <3>4. ASSUME NEW r \in Reqs, Touched(r, Elems(reqBuf)), NEW c \in Conns
          PROVE  ~Touched(r, Elems(stream[c]))
      BY <1>3, <1>6, <1>8, <3>3, <3>4
    <3>. QED
      BY <1>4, <1>8, <3>1, <3>2, <3>4
  <2>. QED
    BY <1>11, <2>2, <2>3 DEF Quiet
<1>12. ASSUME NEW r \in Reqs, WriteReq(r)
       PROVE  /\ \A c \in Conns, q \in Reqs :
                   /\ Touched(q, Elems(stream'[c]))
                   /\ Touched(q, Elems(reqBuf')) \/ ppc'[q] = "write"
                   => cpc'[c] = "read"
              /\ \A q \in Reqs : Touched(q, dropped') =>
                   /\ ppc'[q] # "write"
                   /\ ~Touched(q, Elems(reqBuf'))
                   /\ \A c \in Conns : ~Touched(q, Elems(stream'[c]))
  <2>1. /\ ppc[r] = "write" /\ reqBuf' = Append(reqBuf, Tok(r, sent[r] + 1))
        /\ Tok(r, sent[r] + 1) \in ReqToken /\ Tok(r, sent[r] + 1).req = r
        /\ UNCHANGED <<ppc, cpc, stream, dropped>>
    BY <1>12, SMTT(30) DEF WriteReq, TypeOK, Tok, ReqToken, connVars
  <2>2. Elems(reqBuf') = Elems(reqBuf) \cup {Tok(r, sent[r] + 1)}
    BY <2>1, ElemsOfSeq DEF TypeOK
  <2>3. \A q \in Reqs : Touched(q, Elems(reqBuf')) => q = r \/ Touched(q, Elems(reqBuf))
    BY <2>1, <2>2 DEF Touched
  <2>. QED
    BY <1>3, <1>4, <2>1, <2>3
<1>13. ASSUME NEW d \in Conns, ReadReq(d)
       PROVE  /\ \A c \in Conns, r \in Reqs :
                   /\ Touched(r, Elems(stream'[c]))
                   /\ Touched(r, Elems(reqBuf')) \/ ppc'[r] = "write"
                   => cpc'[c] = "read"
              /\ \A r \in Reqs : Touched(r, dropped') =>
                   /\ ppc'[r] # "write"
                   /\ ~Touched(r, Elems(reqBuf'))
                   /\ \A c \in Conns : ~Touched(r, Elems(stream'[c]))
  <2>1. /\ cpc[d] = "read" /\ reqBuf # <<>> /\ reqBuf' = Tail(reqBuf)
        /\ stream' = [stream EXCEPT ![d] = Append(@, Head(reqBuf))]
        /\ UNCHANGED <<ppc, cpc, dropped>>
    BY <1>13 DEF ReadReq, pierVars
  <2>2. /\ Head(reqBuf) \in Elems(reqBuf) /\ Elems(reqBuf') \subseteq Elems(reqBuf)
        /\ Elems(reqBuf) \subseteq ReqToken
    BY <2>1, ElemsOfSeq DEF TypeOK
  <2>3. Elems(stream'[d]) = Elems(stream[d]) \cup {Head(reqBuf)}
    BY <2>1, <2>2, ElemsOfSeq DEF TypeOK
  <2>4. \A c \in Conns : c # d => stream'[c] = stream[c]
    BY <2>1 DEF TypeOK
  <2>5. \A r \in Reqs : Touched(r, Elems(reqBuf')) => Touched(r, Elems(reqBuf))
    BY <2>2 DEF Touched
  <2>6. \A r \in Reqs : Touched(r, Elems(stream'[d])) =>
          Touched(r, Elems(stream[d])) \/ Touched(r, Elems(reqBuf))
    BY <2>2, <2>3 DEF Touched
  <2>. QED
    BY <1>3, <1>4, <2>1, <2>4, <2>5, <2>6
<1>14. ASSUME NEW d \in Conns, ConnectStarts(d)
       PROVE  /\ \A c \in Conns, r \in Reqs :
                   /\ Touched(r, Elems(stream'[c]))
                   /\ Touched(r, Elems(reqBuf')) \/ ppc'[r] = "write"
                   => cpc'[c] = "read"
              /\ \A r \in Reqs : Touched(r, dropped') =>
                   /\ ppc'[r] # "write"
                   /\ ~Touched(r, Elems(reqBuf'))
                   /\ \A c \in Conns : ~Touched(r, Elems(stream'[c]))
  <2>1. /\ cpc[d] = "off" /\ cpc' = [cpc EXCEPT ![d] = "mkfifo"]
        /\ stream' = [stream EXCEPT ![d] = <<>>]
        /\ UNCHANGED <<ppc, reqBuf, dropped>>
    BY <1>14 DEF ConnectStarts, pierVars
  <2>2. \A c \in Conns : \/ stream'[c] = stream[c] /\ cpc'[c] = cpc[c]
                         \/ stream'[c] = <<>>
    BY <2>1 DEF TypeOK
  <2>. QED
    BY <1>3, <1>4, <1>8, <2>1, <2>2
<1>. QED
  BY <1>10, <1>11, <1>12, <1>13, <1>14, RequestSide

\* While the client keeps its tunnel, Connect's close and reopen of the FIFO
\* loses a request altogether or not at all.
THEOREM AllOrNothingAlways == Spec => []AllOrNothing
<1>1. Init => Wholly /\ AllOrNothing
  BY DEF Init, Wholly, AllOrNothing, Touched, Elems
<1>. QED
  BY <1>1, WhollyStep, InitDelivery, DeliveryStep, TypeCorrect, PTL DEF Spec

-----------------------------------------------------------------------------
(* The client's place in what it reads.                                      *)

\* Each body token comes right behind the token before it.
Joined(s) == \A k \in DOMAIN s : s[k].i > 1 => k > 1 /\ s[k - 1] = Tok(s[k].req, s[k].i - 1)

\* What its Pier, which has written n tokens, wrote behind a token comes next.
Continued(s, n) ==
  \A k \in DOMAIN s : s[k].i < n[s[k].req] =>
    k + 1 \in DOMAIN s /\ s[k + 1] = Tok(s[k].req, s[k].i + 1)

\* The last token of a Pier that is writing is at the end.
AtEnd(s, pc, n) ==
  \A r \in Reqs : pc[r] = "write" /\ n[r] > 0 => s # <<>> /\ s[Len(s)] = Tok(r, n[r])

Whole(s, pc, n) == Joined(s) /\ Continued(s, n) /\ AtEnd(s, pc, n)

\* Before a tunnel is lost requests are whole on it as far as they are written.
Unbroken ==
  leaves = 0 =>
    \A c \in Conns : up[c] => Whole(stream[c] \o reqBuf, ppc, sent)

\* The client has one tunnel at a time, and nothing is written before the first.
OneTunnel ==
  /\ \A c, d \in Conns : up[c] /\ up[d] => c = d
  /\ leaves = 0 /\ (\A c \in Conns : ~up[c]) => due = None /\ \A r \in Reqs : sent[r] = 0

\* The client has taken no more than the tunnel brought.
Inside == \A c \in Conns : up[c] => place <= Len(stream[c])

\* The client waits for what follows the token it took last.
InPlace ==
  ~Confused =>
    \A c \in Conns : up[c] =>
      /\ place = 0 => due = None
      /\ place # 0 => due = NextDue(stream[c][place])

\* Three things move the client's place: a new tunnel, a lost one, and reading.
LEMMA PlaceSide ==
  ASSUME TypeOK, [Next]_vars
  PROVE  \/ UNCHANGED <<up, place, due>>
         \/ \E c \in Conns : ConnectStarts(c) \/ ClientLeaves(c) \/ ClientActs(c)
<1>. USE DEF pierVars, connVars, rspVars
<1>. DEFINE Same == UNCHANGED <<up, place, due>>
<1>1. ASSUME NEW r \in Reqs, NoLockFile(r) \/ LockFails(r) \/ NoReqFifo(r)
      PROVE  Same
  BY <1>1 DEF NoLockFile, LockFails, NoReqFifo, Refuse
<1>2. ASSUME NEW r \in Reqs, (\E p \in Pids : PierStarts(r, p)) \/ OpenLock(r) \/ TakeLock(r)
      PROVE  Same
  BY <1>2 DEF PierStarts, OpenLock, TakeLock
<1>3. ASSUME NEW r \in Reqs, OpenReqFifo(r) \/ WriteReq(r) \/ CloseReqFifo(r)
      PROVE  Same
  BY <1>3 DEF OpenReqFifo, WriteReq, CloseReqFifo
<1>4. ASSUME NEW r \in Reqs, OpenRspFifo(r) \/ ReadRsp(r) \/ EndOfRsp(r)
      PROVE  Same
  BY <1>4 DEF OpenRspFifo, ReadRsp, EndOfRsp
<1>5. ASSUME NEW r \in Reqs, CloseRspFifo(r) \/ Unlock(r) \/ UnlinkRspFifo(r) \/ PierDies(r)
      PROVE  Same
  BY <1>5 DEF CloseRspFifo, Unlock, UnlinkRspFifo, PierDies
<1>6. ASSUME NEW d \in Conns, MakeReqFifo(d) \/ OpenTunnel(d)
      PROVE  Same
  BY <1>6 DEF MakeReqFifo, OpenTunnel
<1>7. ASSUME NEW d \in Conns, SelectReady(d) \/ SelectTimeout(d) \/ ReadReq(d)
      PROVE  Same
  BY <1>7 DEF SelectReady, SelectTimeout, ReadReq
<1>8. ASSUME NEW d \in Conns, EndOfReq(d) \/ CloseTunnel(d) \/ ConnectDies(d)
      PROVE  Same
  BY <1>8 DEF EndOfReq, CloseTunnel, ConnectDies
<1>9. ASSUME NEW r \in Reqs, RespondAborts(r) \/ RespondDies(r)
      PROVE  Same
  BY <1>9 DEF RespondAborts, RespondDies
<1>10. ASSUME NEW r \in Reqs, RespondOpens(r) \/ WriteRsp(r) \/ RespondEnds(r)
       PROVE  Same
  BY <1>10 DEF RespondOpens, WriteRsp, RespondEnds
<1>11. ASSUME UNCHANGED vars
       PROVE  Same
  BY <1>11 DEF vars
<1>. QED
  BY <1>1, <1>2, <1>3, <1>4, <1>5, <1>6, <1>7, <1>8, <1>9, <1>10, <1>11
     DEF Next, PierStep, ConnectStep, RespondStep, Environment, Client, ClientActs, BodyEnds, BodyEndsEarly

\* A lost tunnel stays lost, and a torn request torn.
LEMMA ConfusedStays ==
  ASSUME TypeOK, TypeOK', Delivery, [Next]_vars, Confused
  PROVE  Confused'
<1>1. CASE leaves > 0
  <2>1. leaves' # 0
    BY <1>1, TunnelSide DEF TunnelsKept
  <2>2. leaves' \in Nat
    BY DEF TypeOK
  <2>. QED
    BY <2>1, <2>2 DEF Confused
<1>2. ASSUME NEW r \in Reqs, Torn(r)
      PROVE  Confused'
  <2>1. sent[r] \in 1..ReqLen - 1 /\ ppc[r] # "write" /\ ppc[r] \notin Unsent
    BY <1>2 DEF Torn, Delivery, OnlySent
  <2>2. sent'[r] = sent[r] /\ ppc'[r] # "write"
    <3>1. CASE Quiet
      BY <2>1, <3>1 DEF Quiet
    <3>2. ASSUME NEW q \in Reqs, WriteReq(q)
          PROVE  sent'[r] = sent[r] /\ ppc'[r] # "write"
      BY <2>1, <3>2 DEF WriteReq, TypeOK
    <3>3. ASSUME NEW c \in Conns, ReadReq(c) \/ ConnectStarts(c)
          PROVE  sent'[r] = sent[r] /\ ppc'[r] # "write"
      BY <2>1, <3>3 DEF ReadReq, ConnectStarts, pierVars
    <3>. QED
      BY <3>1, <3>2, <3>3, RequestSide
  <2>3. Torn(r)'
    BY <2>1, <2>2 DEF Torn
  <2>. QED
    BY <2>3 DEF Confused
<1>. QED
  BY <1>1, <1>2 DEF Confused

\* The client's tunnels come one by one.
LEMMA OneTunnelStep ==
  TypeOK /\ TypeOK' /\ Wholly /\ OneTunnel /\ [Next]_vars => OneTunnel'
<1>. SUFFICES ASSUME TypeOK, TypeOK', Wholly, OneTunnel, [Next]_vars
              PROVE  OneTunnel'
  OBVIOUS
<1>1. \A c, d \in Conns : up'[c] /\ up'[d] => c = d
  <2>1. CASE UNCHANGED <<up, place, due>>
    BY <2>1 DEF OneTunnel
  <2>2. ASSUME NEW e \in Conns, ConnectStarts(e)
        PROVE  \A c, d \in Conns : up'[c] /\ up'[d] => c = d
    BY <2>2 DEF ConnectStarts, TypeOK
  <2>3. ASSUME NEW e \in Conns, ClientLeaves(e)
        PROVE  \A c, d \in Conns : up'[c] /\ up'[d] => c = d
    BY <2>3 DEF ClientLeaves, TypeOK, OneTunnel
  <2>4. ASSUME NEW e \in Conns, ClientActs(e)
        PROVE  \A c, d \in Conns : up'[c] /\ up'[d] => c = d
    BY <2>4, ClientStill DEF OneTunnel
  <2>. QED
    BY <2>1, <2>2, <2>3, <2>4, PlaceSide
<1>2. ASSUME leaves' = 0, \A c \in Conns : ~up'[c]
      PROVE  due' = None /\ \A r \in Reqs : sent'[r] = 0
  <2>1. leaves = 0 /\ \A c \in Conns : ~up[c]
    BY <1>2, TunnelSide DEF TunnelsKept
  <2>2. due = None /\ \A r \in Reqs : sent[r] = 0
    BY <2>1 DEF OneTunnel
  <2>3. \A c \in Conns : cpc[c] = "off"
    BY <2>1 DEF Wholly
  <2>4. due' = due
    <3>1. ASSUME NEW e \in Conns, ConnectStarts(e)
          PROVE  due' = due
      BY <3>1 DEF ConnectStarts
    <3>2. ASSUME NEW e \in Conns
          PROVE  ~ClientLeaves(e) /\ ~ClientActs(e)
      BY <2>1 DEF ClientLeaves, ClientActs, ClientParses, ClientFollows, ClientLosesPlace, ClientStrays
    <3>. QED
      BY <3>1, <3>2, PlaceSide
  <2>5. sent' = sent
    <3>1. ASSUME NEW r \in Reqs
          PROVE  ~WriteReq(r)
      BY <2>3 DEF WriteReq, ReqReaders
    <3>2. ASSUME NEW c \in Conns, ReadReq(c) \/ ConnectStarts(c)
          PROVE  sent' = sent
      BY <3>2 DEF ReadReq, ConnectStarts, pierVars
    <3>. QED
      BY <3>1, <3>2, RequestSide DEF Quiet
  <2>. QED
    BY <2>2, <2>4, <2>5
<1>. QED
  BY <1>1, <1>2 DEF OneTunnel

\* The beginning of a sequence is joined as it is.
LEMMA JoinedPart ==
  ASSUME NEW a \in Seq(ReqToken), NEW b \in Seq(ReqToken), Joined(a \o b)
  PROVE  Joined(a)
<1>. DEFINE s == a \o b
<1>1. /\ DOMAIN a = 1..Len(a) /\ DOMAIN s = 1..Len(a) + Len(b)
      /\ Len(a) \in Nat /\ Len(b) \in Nat
      /\ \A k \in 1..Len(a) : s[k] = a[k]
  OBVIOUS
<1>2. Joined(s)
  OBVIOUS
<1>. HIDE DEF s
<1>3. ASSUME NEW k \in DOMAIN a, a[k].i > 1
      PROVE  k > 1 /\ a[k - 1] = Tok(a[k].req, a[k].i - 1)
  <2>1. k \in DOMAIN s /\ s[k] = a[k]
    BY <1>1
  <2>2. k > 1 /\ s[k - 1] = Tok(a[k].req, a[k].i - 1)
    BY <1>2, <1>3, <2>1 DEF Joined
  <2>3. k - 1 \in 1..Len(a)
    BY <1>1, <2>2
  <2>. QED
    BY <1>1, <2>2, <2>3
<1>. QED
  BY <1>3 DEF Joined

\* A token written behind a whole sequence leaves it whole.
LEMMA UnbrokenAppend ==
  ASSUME TypeOK, NEW s \in Seq(ReqToken), NEW r \in Reqs, OneExchange, WriteReq(r),
         Serial(s), Whole(s, ppc, sent), \A k \in DOMAIN s : s[k].i <= sent[s[k].req]
  PROVE  Whole(Append(s, Tok(r, sent[r] + 1)), ppc', sent')
<1>. DEFINE e == Tok(r, sent[r] + 1)
            t == Append(s, e)
<1>1. /\ e \in ReqToken /\ e.req = r /\ e.i = sent[r] + 1 /\ sent[r] \in Nat
      /\ ppc[r] = "write" /\ ppc' = ppc /\ sent' = [sent EXCEPT ![r] = @ + 1]
      /\ sent'[r] = sent[r] + 1
      /\ \A q \in Reqs : q # r => sent'[q] = sent[q]
  BY SMTT(30) DEF WriteReq, TypeOK, Tok, ReqToken
<1>2. /\ DOMAIN s = 1..Len(s) /\ DOMAIN t = 1..Len(s) + 1 /\ Len(s) \in Nat /\ Len(t) = Len(s) + 1
      /\ \A k \in 1..Len(s) : t[k] = s[k]
      /\ t[Len(s) + 1] = e
      /\ t # <<>>
      /\ s = <<>> <=> Len(s) = 0
  BY <1>1
<1>3. ASSUME NEW k \in DOMAIN s
      PROVE  s[k] \in ReqToken /\ s[k].req \in Reqs /\ s[k].i \in Nat
  <2>1. s[k] \in ReqToken
    OBVIOUS
  <2>. QED
    BY <2>1 DEF ReqToken
<1>. HIDE DEF t, e
<1>4. Joined(s) /\ Continued(s, sent) /\ AtEnd(s, ppc, sent)
  BY DEF Whole
<1>5. sent[r] > 0 => Len(s) \in DOMAIN s /\ s[Len(s)] = Tok(r, sent[r])
  BY <1>1, <1>2, <1>4 DEF AtEnd
<1>6. Joined(t)
  <2>1. ASSUME NEW k \in DOMAIN s, t[k].i > 1
        PROVE  k > 1 /\ t[k - 1] = Tok(t[k].req, t[k].i - 1)
    <3>1. k > 1 /\ s[k - 1] = Tok(s[k].req, s[k].i - 1)
      BY <1>2, <1>4, <2>1 DEF Joined
    <3>2. k - 1 \in 1..Len(s)
      BY <1>2, <3>1
    <3>. QED
      BY <1>2, <3>1, <3>2
  <2>2. ASSUME e.i > 1
        PROVE  Len(s) + 1 > 1 /\ t[Len(s) + 1 - 1] = Tok(e.req, e.i - 1)
    <3>1. sent[r] > 0 /\ e.i - 1 = sent[r] /\ Len(s) + 1 - 1 = Len(s)
      BY <1>1, <1>2, <2>2
    <3>. QED
      BY <1>1, <1>2, <1>5, <3>1
  <2>. QED
    BY <1>2, <2>1, <2>2 DEF Joined
<1>7. Continued(t, sent')
  <2>1. ASSUME NEW k \in DOMAIN s, s[k].i < sent'[s[k].req]
        PROVE  k + 1 \in DOMAIN t /\ t[k + 1] = Tok(s[k].req, s[k].i + 1)
    <3>1. CASE s[k].i < sent[s[k].req]
      <4>1. k + 1 \in DOMAIN s /\ s[k + 1] = Tok(s[k].req, s[k].i + 1)
        BY <1>4, <3>1 DEF Continued
      <4>. QED
        BY <1>2, <4>1
    <3>2. CASE ~(s[k].i < sent[s[k].req])
      <4>1. s[k].req = r /\ s[k].i = sent[r]
        BY <1>1, <1>3, <2>1, <3>2 DEF TypeOK
      <4>2. sent[r] > 0
        BY <1>3, <4>1 DEF ReqToken
      <4>3. Len(s) \in DOMAIN s /\ s[Len(s)].req = r /\ s[Len(s)].i = sent[r]
        BY <1>5, <4>2 DEF Tok
      <4>4. ~(k < Len(s))
        BY <1>1, <4>1, <4>3 DEF Serial
      <4>5. k = Len(s)
        BY <1>2, <4>4
      <4>. QED
        BY <1>1, <1>2, <4>1, <4>5 DEF e
    <3>. QED
      BY <3>1, <3>2
  <2>2. ~(e.i < sent'[e.req])
    BY <1>1
  <2>3. \A k \in DOMAIN t : t[k].i < sent'[t[k].req] =>
          k + 1 \in DOMAIN t /\ t[k + 1] = Tok(t[k].req, t[k].i + 1)
    BY <1>2, <2>1, <2>2
  <2>. QED
    BY <2>3 DEF Continued
<1>8. AtEnd(t, ppc', sent')
  <2>1. \A q \in Reqs : ppc'[q] = "write" => q = r
    BY <1>1 DEF OneExchange, Locked
  <2>2. t[Len(t)] = Tok(r, sent'[r])
    BY <1>1, <1>2 DEF e
  <2>. QED
    BY <1>2, <2>1, <2>2 DEF AtEnd
<1>. QED
  BY <1>6, <1>7, <1>8 DEF Whole, t, e

\* What comes first behind a sequence.
LEMMA FirstBehind ==
  ASSUME NEW a \in Seq(ReqToken), NEW b \in Seq(ReqToken), Len(b) > 0
  PROVE  (a \o b)[Len(a) + 1] = b[1]
<1>1. /\ Len(a) \in Nat /\ Len(b) \in Nat /\ Len(a) + 1 \in 1..Len(a) + Len(b)
      /\ \A i \in 1..Len(a) + Len(b) : (a \o b)[i] = IF i <= Len(a) THEN a[i] ELSE b[i - Len(a)]
  OBVIOUS
<1>2. Len(a) + 1 - Len(a) = 1 /\ ~(Len(a) + 1 <= Len(a))
  BY <1>1
<1>. QED
  BY <1>1, <1>2

\* Discarding and reading leave what the client has and may get as whole as it was.
LEMMA UnbrokenStep ==
  ASSUME TypeOK, TypeOK', OneExchange, Delivery, InOrder, Wholly, OneTunnel, Unbroken, [Next]_vars
  PROVE  Unbroken'
<1>. SUFFICES ASSUME leaves' = 0, NEW c \in Conns, up'[c]
              PROVE  Whole(stream'[c] \o reqBuf', ppc', sent')
  BY DEF Unbroken, Whole, Joined, Continued, AtEnd
<1>. DEFINE s == stream[c] \o reqBuf
<1>1. leaves = 0 /\ TunnelsKept
  BY TunnelSide DEF TunnelsKept
<1>2. /\ stream[c] \in Seq(ReqToken) /\ reqBuf \in Seq(ReqToken) /\ s \in Seq(ReqToken)
      /\ Elems(s) = Elems(stream[c]) \cup Elems(reqBuf)
  BY Concatenations DEF TypeOK
<1>3. \A d \in Conns : cpc[d] # "off" => up[d]
  BY <1>1 DEF Wholly
<1>4. CASE ~up[c]
  <2>1. ConnectStarts(c)
    <3>1. ASSUME NEW d \in Conns, ConnectStarts(d)
          PROVE  d = c
      BY <1>4, <3>1 DEF ConnectStarts, TypeOK
    <3>2. ASSUME NEW d \in Conns
          PROVE  ~ClientLeaves(d)
      BY <1>4 DEF ClientLeaves, TypeOK
    <3>3. ASSUME NEW d \in Conns
          PROVE  ~ClientActs(d)
      BY <1>4, ClientStill
    <3>. QED
      BY <1>4, <3>1, <3>2, <3>3, PlaceSide
  <2>2. \A d \in Conns : ~up[d]
    BY <2>1 DEF ConnectStarts
  <2>3. \A r \in Reqs : sent[r] = 0
    BY <1>1, <2>2 DEF OneTunnel
  <2>4. reqBuf = <<>>
    <3>1. ASSUME reqBuf # <<>>
          PROVE  FALSE
      <4>1. Head(reqBuf) \in Elems(reqBuf) /\ Head(reqBuf) \in ReqToken
        BY <1>2, <3>1, ElemsOfSeq
      <4>2. Head(reqBuf).i <= 0
        BY <2>3, <4>1 DEF Delivery, OnlySent, ReqToken
      <4>. QED
        BY <4>1, <4>2 DEF ReqToken
    <3>. QED
      BY <3>1
  <2>5. stream'[c] \o reqBuf' = <<>> /\ ppc' = ppc /\ sent' = sent
    <3>1. stream'[c] = <<>> /\ reqBuf' = <<>>
      BY <2>1, <2>4 DEF ConnectStarts, TypeOK
    <3>2. <<>> \o <<>> = <<>>
      OBVIOUS
    <3>. QED
      BY <2>1, <3>1, <3>2 DEF ConnectStarts, pierVars
  <2>6. \A r \in Reqs : ~(sent[r] > 0)
    BY <2>3
  <2>. QED
    BY <2>5, <2>6 DEF Whole, Joined, Continued, AtEnd
<1>5. CASE up[c]
  <2>1. Whole(s, ppc, sent)
    BY <1>1, <1>5 DEF Unbroken
  <2>2. CASE Quiet
    <3>1. \A r \in Reqs : ppc'[r] = "write" /\ sent[r] > 0 => ppc[r] = "write"
      BY <2>2 DEF Quiet, Delivery, OnlySent
    <3>2. CASE UNCHANGED <<reqBuf, dropped>>
      BY <2>1, <2>2, <3>1, <3>2 DEF Quiet, Whole, AtEnd
    <3>3. CASE Discards
      <4>1. reqBuf' = <<>> /\ stream'[c] \o reqBuf' = stream[c] /\ sent' = sent
        BY <1>2, <2>2, <3>3 DEF Discards, Quiet
      <4>2. Joined(stream[c])
        BY <1>2, <2>1, JoinedPart DEF Whole
      <4>3. Continued(stream[c], sent)
        <5>1. /\ DOMAIN stream[c] = 1..Len(stream[c]) /\ DOMAIN s = 1..Len(stream[c]) + Len(reqBuf)
              /\ Len(stream[c]) \in Nat /\ Len(reqBuf) \in Nat
              /\ \A k \in 1..Len(stream[c]) : s[k] = stream[c][k]
              /\ DOMAIN reqBuf = 1..Len(reqBuf)
              /\ Len(reqBuf) > 0 => s[Len(stream[c]) + 1] = reqBuf[1]
          BY <1>2, FirstBehind
        <5>2. \A k \in DOMAIN s : s[k].i < sent[s[k].req] =>
                k + 1 \in DOMAIN s /\ s[k + 1] = Tok(s[k].req, s[k].i + 1)
          BY <2>1 DEF Whole, Continued
        <5>. HIDE DEF s
        <5>3. ASSUME NEW k \in DOMAIN stream[c], stream[c][k].i < sent[stream[c][k].req]
              PROVE  k + 1 \in DOMAIN stream[c] /\ stream[c][k + 1] = Tok(stream[c][k].req, stream[c][k].i + 1)
          <6>1. /\ k + 1 \in DOMAIN s
                /\ s[k + 1] = Tok(stream[c][k].req, stream[c][k].i + 1)
            BY <5>1, <5>2, <5>3
          <6>2. CASE k + 1 \in DOMAIN stream[c]
            BY <5>1, <6>1, <6>2
          <6>3. CASE k + 1 \notin DOMAIN stream[c]
            <7>1. k = Len(stream[c]) /\ Len(reqBuf) > 0 /\ reqBuf[1] \in Elems(reqBuf)
              BY <5>1, <6>1, <6>3 DEF Elems
            <7>2. reqBuf[1] = Tok(stream[c][k].req, stream[c][k].i + 1)
              BY <5>1, <6>1, <7>1
            <7>3. stream[c][k] \in Elems(stream[c]) /\ stream[c][k].req \in Reqs
              <8>1. stream[c][k] \in Elems(stream[c]) /\ stream[c][k] \in ReqToken
                BY <1>2 DEF Elems
              <8>. QED
                BY <8>1 DEF ReqToken
            <7>4. /\ Touched(stream[c][k].req, Elems(stream[c]))
                  /\ Touched(stream[c][k].req, Elems(reqBuf))
              BY <7>1, <7>2, <7>3 DEF Touched, Tok
            <7>5. cpc[c] = "read"
              BY <1>1, <7>3, <7>4 DEF Wholly
            <7>6. cpc'[c] # "read"
              BY <3>3 DEF Discards, ReqReaders
            <7>7. reqBuf = <<>>
              BY <1>1, <1>5, <7>5, <7>6 DEF TunnelsKept, StaysReading
            <7>. QED
              BY <7>1, <7>7
          <6>. QED
            BY <6>2, <6>3
        <5>. QED
          BY <5>3 DEF Continued
      <4>4. \A r \in Reqs : ppc'[r] # "write"
        BY <3>3 DEF Discards, ReqWriters
      <4>. QED
        BY <4>1, <4>2, <4>3, <4>4 DEF Whole, AtEnd
    <3>. QED
      BY <2>2, <3>2, <3>3 DEF Quiet
  <2>3. ASSUME NEW r \in Reqs, WriteReq(r)
        PROVE  Whole(stream'[c] \o reqBuf', ppc', sent')
    <3>. DEFINE e == Tok(r, sent[r] + 1)
    <3>1. e \in ReqToken /\ stream' = stream /\ reqBuf' = Append(reqBuf, e)
      BY <2>3 DEF WriteReq, TypeOK, Tok, ReqToken, connVars
    <3>. HIDE DEF e
    <3>2. stream'[c] \o reqBuf' = Append(s, e)
      BY <1>2, <3>1, Concatenations
    <3>3. Serial(s)
      BY DEF InOrder
    <3>4. \A k \in DOMAIN s : s[k].i <= sent[s[k].req]
      <4>1. \A k \in DOMAIN s : s[k] \in Elems(s)
        BY DEF Elems
      <4>. QED
        BY <1>2, <4>1 DEF Delivery, OnlySent
    <3>5. Whole(Append(s, Tok(r, sent[r] + 1)), ppc', sent')
      <4>. HIDE DEF s
      <4>. QED
        BY <1>2, <2>1, <2>3, <3>3, <3>4, UnbrokenAppend
    <3>. QED
      BY <3>2, <3>5 DEF e
  <2>4. ASSUME NEW d \in Conns, ReadReq(d)
        PROVE  Whole(stream'[c] \o reqBuf', ppc', sent')
    <3>1. d = c
      BY <1>3, <1>5, <2>4 DEF ReadReq, OneTunnel
    <3>2. /\ reqBuf # <<>> /\ reqBuf' = Tail(reqBuf) /\ ppc' = ppc /\ sent' = sent
          /\ stream'[c] = Append(stream[c], Head(reqBuf))
      BY <2>4, <3>1 DEF ReadReq, TypeOK, pierVars
    <3>3. stream'[c] \o reqBuf' = s
      BY <1>2, <3>2, Concatenations
    <3>. QED
      BY <2>1, <3>2, <3>3
  <2>5. ASSUME NEW d \in Conns
        PROVE  ~ConnectStarts(d)
    BY <1>5 DEF ConnectStarts
  <2>. QED
    BY <2>2, <2>3, <2>4, <2>5, RequestSide
<1>. QED
  BY <1>4, <1>5

\* Where requests are whole the client takes what it waits for.
LEMMA NeverOutOfStep ==
  ASSUME TypeOK, Delivery, InOrder, Unbroken, InPlace, ~Confused, NEW c \in Conns
  PROVE  ~ClientLosesPlace(c)
<1>. SUFFICES ASSUME ClientLosesPlace(c)
              PROVE  FALSE
  OBVIOUS
<1>. DEFINE s == stream[c] \o reqBuf
            k == place + 1
            t == stream[c][k]
<1>1. up[c] /\ place < Len(stream[c]) /\ ~InStep(t) /\ place \in Nat
  BY DEF ClientLosesPlace, TypeOK
<1>2. /\ place = 0 => due = None
      /\ place # 0 => due = NextDue(stream[c][place])
  BY <1>1 DEF InPlace
<1>3. leaves = 0 /\ \A r \in Reqs : ~Torn(r)
  BY DEF Confused, TypeOK
<1>4. /\ \A j \in DOMAIN s : s[j] \in ReqToken /\ s[j].i <= sent[s[j].req]
      /\ Len(s) \in Nat /\ DOMAIN s = 1..Len(s)
      /\ place + 1 \in DOMAIN s /\ s[place + 1] = stream[c][place + 1]
      /\ place # 0 => place \in DOMAIN s /\ s[place] = stream[c][place]
  <2>1. /\ stream[c] \in Seq(ReqToken) /\ reqBuf \in Seq(ReqToken) /\ s \in Seq(ReqToken)
        /\ Elems(s) = Elems(stream[c]) \cup Elems(reqBuf)
    BY Concatenations DEF TypeOK
  <2>2. /\ DOMAIN s = 1..Len(stream[c]) + Len(reqBuf) /\ Len(s) = Len(stream[c]) + Len(reqBuf)
        /\ Len(stream[c]) \in Nat /\ Len(reqBuf) \in Nat
        /\ \A j \in 1..Len(stream[c]) : s[j] = stream[c][j]
    BY <2>1
  <2>3. \A j \in DOMAIN s : s[j] \in Elems(s) /\ s[j] \in ReqToken
    BY <2>1 DEF Elems
  <2>. HIDE DEF s
  <2>4. \A j \in DOMAIN s : s[j].i <= sent[s[j].req]
    BY <2>1, <2>3 DEF Delivery, OnlySent
  <2>. QED
    BY <1>1, <2>2, <2>3, <2>4
<1>5. /\ \A j \in DOMAIN s : s[j].i > 1 => j > 1 /\ s[j - 1] = Tok(s[j].req, s[j].i - 1)
      /\ \A j \in DOMAIN s : s[j].i < sent[s[j].req] =>
           j + 1 \in DOMAIN s /\ s[j + 1] = Tok(s[j].req, s[j].i + 1)
      /\ \A r \in Reqs : ppc[r] = "write" /\ sent[r] > 0 => s # <<>> /\ s[Len(s)] = Tok(r, sent[r])
      /\ Serial(s)
  BY <1>1, <1>3 DEF Unbroken, Whole, Joined, Continued, AtEnd, InOrder
<1>6. t = s[k] /\ k \in DOMAIN s /\ t \in ReqToken /\ t.i \in 1..ReqLen
  <2>. HIDE DEF s
  <2>. QED
    BY <1>4 DEF ReqToken
<1>. HIDE DEF s, t
<1>7. CASE place = 0
  <2>1. t.i > 1
    BY <1>1, <1>2, <1>6, <1>7 DEF InStep
  <2>2. k > 1
    BY <1>5, <1>6, <2>1
  <2>. QED
    BY <1>7, <2>2
<1>8. CASE place # 0
  <2>. DEFINE u == stream[c][place]
  <2>1. u = s[place] /\ place \in DOMAIN s /\ u \in ReqToken /\ u.req \in Reqs /\ u.i \in 1..ReqLen
        /\ due = NextDue(u) /\ u.i <= sent[u.req] /\ sent[u.req] \in 0..ReqLen
    BY <1>2, <1>4, <1>8 DEF ReqToken, TypeOK
  <2>. HIDE DEF u
  <2>2. CASE u.i = ReqLen
    <3>1. due = None
      BY <2>1, <2>2 DEF NextDue
    <3>2. t.i > 1
      BY <1>1, <1>6, <3>1 DEF InStep
    <3>3. s[k - 1] = Tok(t.req, t.i - 1)
      BY <1>5, <1>6, <3>2
    <3>4. k - 1 = place
      BY <1>1
    <3>5. u.i = t.i - 1
      BY <2>1, <3>3, <3>4 DEF Tok
    <3>. QED
      BY <1>6, <2>2, <3>5
  <2>3. CASE u.i # ReqLen
    <3>1. due = Tok(u.req, u.i + 1)
      BY <2>1, <2>3 DEF NextDue
    <3>2. ~(u.i < sent[u.req])
      <4>1. ASSUME u.i < sent[u.req]
            PROVE  FALSE
        <5>1. s[place + 1] = Tok(u.req, u.i + 1)
          BY <1>5, <2>1, <4>1
        <5>2. t = due
          BY <1>6, <3>1, <5>1
        <5>. QED
          BY <1>1, <5>2 DEF InStep
      <4>. QED
        BY <4>1
    <3>3. sent[u.req] = u.i /\ sent[u.req] > 0 /\ sent[u.req] \in 1..ReqLen - 1
      BY <2>1, <2>3, <3>2
    <3>4. ppc[u.req] = "write"
      BY <1>3, <2>1, <3>3 DEF Torn
    <3>5. s[Len(s)] = Tok(u.req, u.i)
      BY <1>5, <2>1, <3>3, <3>4
    <3>6. s[Len(s)].req = u.req /\ s[Len(s)].i = u.i
      BY <3>5 DEF Tok
    <3>7. place < Len(s) /\ Len(s) \in DOMAIN s
      BY <1>1, <1>4
    <3>. QED
      BY <1>5, <2>1, <3>6, <3>7 DEF Serial
  <2>. QED
    BY <2>2, <2>3
<1>. QED
  BY <1>7, <1>8

\* A tunnel begins anew or goes on.
LEMMA TunnelGrows ==
  ASSUME TypeOK, TypeOK', [Next]_vars, NEW c \in Conns
  PROVE  \/ \E d \in Conns : ConnectStarts(d)
         \/ /\ Len(stream[c]) \in Nat /\ Len(stream'[c]) \in Nat
            /\ Len(stream[c]) <= Len(stream'[c])
            /\ \A j \in 1..Len(stream[c]) : stream'[c][j] = stream[c][j]
<1>1. Len(stream[c]) \in Nat /\ Len(stream'[c]) \in Nat
  <2>1. stream[c] \in Seq(ReqToken)
    BY DEF TypeOK
  <2>2. stream'[c] \in Seq(ReqToken)
    BY DEF TypeOK
  <2>. QED
    BY <2>1, <2>2
<1>2. CASE stream'[c] = stream[c]
  BY <1>1, <1>2
<1>3. ASSUME NEW d \in Conns, ReadReq(d), stream'[c] # stream[c]
      PROVE  Len(stream[c]) <= Len(stream'[c]) /\ \A j \in 1..Len(stream[c]) : stream'[c][j] = stream[c][j]
  <2>1. /\ reqBuf # <<>> /\ reqBuf \in Seq(ReqToken) /\ stream[c] \in Seq(ReqToken)
        /\ stream'[c] = Append(stream[c], Head(reqBuf))
    BY <1>3 DEF ReadReq, TypeOK
  <2>2. Head(reqBuf) \in ReqToken
    BY <2>1
  <2>. HIDE DEF TypeOK
  <2>. QED
    BY <2>1, <2>2
<1>4. \A r \in Reqs : WriteReq(r) => stream' = stream
  BY DEF WriteReq, connVars
<1>. QED
  BY <1>1, <1>2, <1>3, <1>4, RequestSide DEF Quiet

\* The client reads no more than there is.
LEMMA InsideStep ==
  ASSUME TypeOK, TypeOK', OneTunnel, Inside, [Next]_vars
  PROVE  Inside'
<1>. SUFFICES ASSUME NEW c \in Conns, up'[c]
              PROVE  place' <= Len(stream'[c])
  BY DEF Inside
<1>1. Len(stream'[c]) \in Nat /\ place \in Nat
  <2>1. stream'[c] \in Seq(ReqToken) /\ place \in Nat
    BY DEF TypeOK
  <2>. QED
    BY <2>1
<1>2. ASSUME NEW d \in Conns, ConnectStarts(d)
      PROVE  place' <= Len(stream'[c])
  BY <1>1, <1>2 DEF ConnectStarts
<1>3. CASE up[c] /\ ~\E d \in Conns : ConnectStarts(d) \/ ClientActs(d)
  <2>1. place <= Len(stream[c])
    BY <1>3 DEF Inside
  <2>2. place' = place
    BY <1>3, PlaceSide DEF ClientLeaves
  <2>. QED
    BY <1>1, <1>3, <2>1, <2>2, TunnelGrows
<1>4. ASSUME NEW d \in Conns, ClientActs(d)
      PROVE  place' <= Len(stream'[c])
  <2>1. stream' = stream /\ up' = up /\ up[d]
    BY <1>4, ClientStill DEF ClientActs, ClientParses, ClientFollows, ClientLosesPlace, ClientStrays
  <2>2. d = c /\ place <= Len(stream[c])
    BY <2>1 DEF OneTunnel, Inside
  <2>3. place' = place \/ (place' = place + 1 /\ place < Len(stream[d]))
    BY <1>4 DEF ClientActs, ClientParses, ClientFollows, ClientLosesPlace, ClientStrays, connVars
  <2>. QED
    BY <1>1, <2>1, <2>2, <2>3
<1>5. up[c] \/ \E d \in Conns : ConnectStarts(d)
  <2>1. ASSUME NEW d \in Conns, ClientLeaves(d)
        PROVE  up[c]
    BY <2>1 DEF ClientLeaves, TypeOK
  <2>2. ASSUME NEW d \in Conns, ClientActs(d)
        PROVE  up[c]
    BY <2>2, ClientStill
  <2>. QED
    BY <2>1, <2>2, PlaceSide
<1>. QED
  BY <1>2, <1>3, <1>4, <1>5

\* Every token the client takes is the one it waits for.
LEMMA InPlaceStep ==
  ASSUME TypeOK, TypeOK', FilesInPlace, Delivery, InOrder, OneTunnel, Unbroken, Inside, InPlace,
         [Next]_vars
  PROVE  InPlace'
<1>. SUFFICES ASSUME ~Confused', NEW c \in Conns, up'[c]
              PROVE  /\ place' = 0 => due' = None
                     /\ place' # 0 => due' = NextDue(stream'[c][place'])
  BY DEF InPlace, NextDue, Tok
<1>1. ~Confused
  BY ConfusedStays
<1>2. leaves = 0 /\ leaves' = 0
  BY <1>1 DEF Confused, TypeOK
<1>3. Len(stream[c]) \in Nat /\ place \in Nat
  BY DEF TypeOK
<1>4. ASSUME NEW d \in Conns, ConnectStarts(d)
      PROVE  /\ place' = 0 => due' = None
             /\ place' # 0 => due' = NextDue(stream'[c][place'])
  BY <1>2, <1>4 DEF ConnectStarts, OneTunnel
<1>5. ASSUME NEW d \in Conns, ClientLeaves(d)
      PROVE  FALSE
  BY <1>2, <1>5 DEF ClientLeaves, TypeOK
<1>6. ASSUME NEW d \in Conns, ClientActs(d)
      PROVE  /\ place' = 0 => due' = None
             /\ place' # 0 => due' = NextDue(stream'[c][place'])
  <2>1. stream' = stream /\ up' = up
    BY <1>6, ClientStill
  <2>2. /\ place = 0 => due = None
        /\ place # 0 => due = NextDue(stream[c][place])
    BY <1>1, <2>1 DEF InPlace
  <2>3. d = c
    BY <1>6, <2>1 DEF OneTunnel, ClientActs, ClientParses, ClientFollows, ClientLosesPlace,
                      ClientStrays
  <2>4. CASE ClientFollows(d)
    <3>1. place' = place + 1 /\ due' = NextDue(stream[c][place + 1])
      BY <2>3, <2>4 DEF ClientFollows
    <3>. QED
      BY <1>3, <2>1, <3>1
  <2>5. ~ClientLosesPlace(d)
    BY <1>1, NeverOutOfStep
  <2>6. ASSUME NEW r \in Reqs, NEW p \in Pids, ClientStrays(d, r, p)
        PROVE  place' = place /\ due' = due
    BY <2>6 DEF ClientStrays, connVars
  <2>. QED
    BY <1>6, <2>1, <2>2, <2>4, <2>5, <2>6 DEF ClientActs, ClientParses
<1>7. CASE UNCHANGED <<up, place, due>>
  <2>1. /\ place <= Len(stream[c])
        /\ place = 0 => due = None
        /\ place # 0 => due = NextDue(stream[c][place])
    BY <1>1, <1>7 DEF Inside, InPlace
  <2>2. ASSUME NEW d \in Conns
        PROVE  ~ConnectStarts(d)
    BY <1>7 DEF ConnectStarts, TypeOK
  <2>3. \A j \in 1..Len(stream[c]) : stream'[c][j] = stream[c][j]
    BY <2>2, TunnelGrows
  <2>. QED
    BY <1>3, <1>7, <2>1, <2>3
<1>. QED
  BY <1>4, <1>5, <1>6, <1>7, PlaceSide

\* What is known of the client and of what it reads.
PInv == Wholly /\ AllOrNothing /\ InOrder /\ OneTunnel /\ Unbroken /\ Inside /\ InPlace

\* Until the client may be confused it waits for the token that comes next.
LEMMA KeepsPlaceHere ==
  ASSUME TypeOK, PInv
  PROVE  KeepsPlace
<1>. SUFFICES ASSUME ~Confused, due = Stray
              PROVE  FALSE
  BY DEF KeepsPlace
<1>1. leaves = 0
  BY DEF Confused, TypeOK
<1>2. PICK c \in Conns : up[c]
  BY <1>1 DEF PInv, OneTunnel
<1>3. place # 0 /\ due = NextDue(stream[c][place]) /\ place \in 1..Len(stream[c])
  BY <1>2 DEF PInv, Inside, InPlace, TypeOK
<1>4. stream[c][place] \in ReqToken
  BY <1>3 DEF TypeOK
<1>5. NextDue(stream[c][place]) \in ReqToken \cup {None}
  BY <1>4 DEF NextDue, Tok, ReqToken
<1>. QED
  BY <1>3, <1>5

\* It is known in every reachable state.
LEMMA PlaceKept == Spec => [](TypeOK /\ FilesInPlace /\ Delivery /\ PInv)
<1>1. Init => Delivery /\ PInv
  BY InitDelivery DEF Init, PInv, Wholly, AllOrNothing, Touched, Elems, InOrder, Serial, Final,
     OneTunnel, Unbroken, Inside, InPlace, Whole, Joined, Continued, AtEnd
<1>2. /\ TypeOK /\ TypeOK' /\ FilesInPlace /\ OneExchange /\ Delivery /\ PInv /\ [Next]_vars
      => PInv'
  BY WhollyStep, InOrderStep, OneTunnelStep, UnbrokenStep, InsideStep, InPlaceStep DEF PInv
<1>. QED
  BY <1>1, <1>2, DeliveryStep, TypeCorrect, FilesCorrect, OneExchangeAlways, PTL DEF Spec

\* The client loses its place in the stream only after a connection was lost,
\* or a Pier was killed, or its browser hung up, inside a request: although
\* nothing marks where a request ends, any number of Piers, chunks and FIFO
\* discards keep it in step.
THEOREM KeepsPlaceAlways == Spec => []KeepsPlace
  BY PlaceKept, KeepsPlaceHere, PTL
=============================================================================
