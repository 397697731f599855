---------------------------- MODULE SessionProofs ----------------------------
(* Proofs about Session, for every id, every size of a read and every number *)
(* of attempts to shut down.                                                 *)
EXTENDS Session, SocketBufProofs

\* What main() holds at each of its stages.
Stage(held0, pc0) ==
  /\ pc0 \in {"start", "forked", "none", "connect", "socket", "ctx", "close"} => held0 = {}
  /\ pc0 = "ssl" => held0 = {"ctx"}
  /\ pc0 \in {"handshake", "init", "shutdown"} => held0 = {"ctx", "ssl"}
  /\ pc0 \in {"request", "header", "body"} => held0 = {"ctx", "ssl", "buf"}
  /\ pc0 \in {"serve", "free"} => held0 \in {{"ctx", "ssl"}, {"ctx", "ssl", "buf"}}
  /\ pc0 = "release" => held0 \subseteq {"ctx", "ssl"}

\* Which descriptors are open: besides the connection's only 0 can be.
Descriptors ==
  /\ files \subseteq 0..2
  /\ pc = "connect" => files \subseteq {0}
  /\ pc \notin {"start", "forked", "none", "connect"} => c \in files /\ files \subseteq {0, c}

IInv == pc \in Stages /\ Stage(held, pc) /\ Descriptors

\* socket() gives a descriptor that was not open.
LEMMA LowestFree ==
  ASSUME NEW F, F \subseteq {0}
  PROVE  Min((0..2) \ F) \in (0..2) \ F
<1>1. CASE 0 \in F
  <2>1. \A y \in (0..2) \ F : 1 <= y
    BY <1>1
  <2>2. 1 \in (0..2) \ F
    BY <1>1
  <2>. QED
    BY <2>1, <2>2 DEF Min
<1>2. CASE 0 \notin F
  <2>1. 0 \in (0..2) \ F /\ \A y \in (0..2) \ F : 0 <= y
    BY <1>2
  <2>. QED
    BY <2>1 DEF Min
<1>. QED
  BY <1>1, <1>2

\* IInv says what NothingHeld does, stage by stage.
LEMMA HeldByStage == IInv => NothingHeld
<1>. SUFFICES ASSUME IInv PROVE NothingHeld
  OBVIOUS
<1>1. pc = "connect" => held = {} /\ files \subseteq {0}
  BY DEF IInv, Stage, Descriptors
<1>2. ASSUME pc \in {"init", "request", "header", "body", "serve", "free", "shutdown"}
      PROVE  {"ctx", "ssl"} \subseteq held /\ c \in files
  BY <1>2 DEF IInv, Stage, Descriptors
<1>3. pc \in {"request", "body"} => "buf" \in held
  BY DEF IInv, Stage
<1>. QED
  BY <1>1, <1>2, <1>3 DEF NothingHeld

\* Each step of the daemon leads from what its stage holds to what the next
\* one's does.
LEMMA HeldStep == IInv /\ [Next]_vars => IInv'
<1>. SUFFICES ASSUME IInv, [Next]_vars PROVE IInv'
  OBVIOUS
<1>. USE DEF IInv, Stage, Descriptors, Stages, Goes
<1>1. CASE ForkFirst
  BY <1>1 DEF ForkFirst, fds
<1>2. CASE ForkSecond
  <2>1. pc' \in {"connect", "none"} /\ held' = {}
    BY <1>2 DEF ForkSecond
  <2>2. files' \subseteq 0..2 /\ (pc' = "connect" => files' \subseteq {0})
    <3>1. CASE files' = files \ {1, 2}
      <4>1. \A k \in 0..2 : k = 0 \/ k = 1 \/ k = 2
        OBVIOUS
      <4>. QED
        BY <3>1, <4>1
    <3>2. CASE pc' = "none" /\ UNCHANGED files
      BY <3>2
    <3>. QED
      BY <1>2, <3>1, <3>2 DEF ForkSecond
  <2>. QED
    BY <2>1, <2>2
<1>3. CASE WritePid
  BY <1>3 DEF WritePid, fds
<1>4. CASE OpenSocket
  <2>1. CASE c' = -1 /\ UNCHANGED <<daemon, files>>
    BY <1>4, <2>1 DEF OpenSocket, daemon
  <2>2. CASE c' = Min((0..2) \ files) /\ files' = files \cup {c'} /\ Goes("socket")
    <3>1. c' \in 0..2
      BY <1>4, <2>2, LowestFree DEF OpenSocket
    <3>. QED
      BY <1>4, <2>2, <3>1 DEF OpenSocket
  <2>. QED
    BY <1>4, <2>1, <2>2 DEF OpenSocket
<1>5. CASE ConnectFails
  BY <1>5 DEF ConnectFails
<1>6. CASE Connects
  BY <1>6 DEF Connects, fds
<1>7. CASE CloseConnection
  <2>1. c \in 0..2 /\ files \subseteq {0, c} /\ held = {}
    BY <1>7 DEF CloseConnection
  <2>2. files' \subseteq {0}
    <3>1. CASE c <= 0
      <4>1. c = 0
        BY <2>1, <3>1
      <4>. QED
        BY <1>7, <2>1, <3>1, <4>1 DEF CloseConnection
    <3>2. CASE ~(c <= 0)
      BY <1>7, <2>1, <3>2 DEF CloseConnection
    <3>. QED
      BY <3>1, <3>2
  <2>3. pc' = "connect" /\ held' = {} /\ files' \subseteq 0..2
    BY <1>7, <2>1 DEF CloseConnection
  <2>. QED
    BY <2>2, <2>3
<1>8. CASE NewCtx
  BY <1>8 DEF NewCtx
<1>9. CASE NewSsl
  BY <1>9 DEF NewSsl
<1>10. CASE Handshake
  BY <1>10 DEF Handshake, fds
<1>11. CASE ShutdownStep
  BY <1>11 DEF ShutdownStep, fds, daemon
<1>12. CASE Release
  BY <1>12 DEF Release
<1>13. CASE InitSocket
  BY <1>13 DEF InitSocket
<1>14. CASE Ask
  BY <1>14 DEF Ask, fds
<1>15. CASE ReadsHeader
  BY <1>15 DEF ReadsHeader, fds, daemon
<1>16. CASE HeaderCut
  BY <1>16 DEF HeaderCut, Returns
<1>17. CASE TakesRow
  BY <1>17 DEF TakesRow, Returns, fds, daemon
<1>18. CASE ReadsBody
  BY <1>18 DEF ReadsBody, fds, daemon
<1>19. CASE TakesBody
  BY <1>19 DEF TakesBody, Returns
<1>20. CASE Returned \/ Dies
  BY <1>20 DEF Returned, Dies
<1>21. CASE FreeSocket
  BY <1>21 DEF FreeSocket
<1>22. CASE ServerSends
  BY <1>22 DEF ServerSends, fds, daemon
<1>23. CASE ConnectionEnds
  BY <1>23 DEF ConnectionEnds, fds, daemon
<1>24. CASE UNCHANGED vars
  BY <1>24 DEF vars, fds, daemon
<1>. QED
  BY <1>1, <1>2, <1>3, <1>4, <1>5, <1>6, <1>7, <1>8, <1>9, <1>10, <1>11, <1>12, <1>13, <1>14,
     <1>15, <1>16, <1>17, <1>18, <1>19, <1>20, <1>21, <1>22, <1>23, <1>24
     DEF Next, Main, Connection, Wrap, Authorization, Cleanup, Shutdown, PeerLetsGo, Serve,
         ServeStops

\* Whatever fails in main()'s loop, it comes back to Connection() with nothing
\* of the last connection held but a descriptor 0, and uses no TLS object or
\* descriptor that it has given back.
THEOREM NothingHeldAlways == Spec => []NothingHeld
<1>1. Init => IInv
  BY DEF Init, IInv, Stage, Descriptors, Stages
<1>. QED
  BY <1>1, HeldStep, HeldByStage, PTL DEF Spec

-----------------------------------------------------------------------------
(* The answer and what Authorization() makes of it.                        *)

\* What is still to be read of the answer, and that it is the one from the unit
\* behind the k-th on, cut short at most by the end of the connection.
Unread == sbuf \o wire \o coming

Follows(s, A, k) == Len(s) <= Len(A) - k /\ \A i \in 1..Len(s) : s[i] = A[k + i]
From(A, k) == Follows(Unread, A, k) /\ (~eof => Len(Unread) = Len(A) - k)

\* What Authorization() knows of the answer A after the rows it has taken.
Taken(A) ==
  /\ row \in 0..2 /\ From(A, row)
  /\ rval = (IF row = 0 THEN -1 ELSE IF A[1] = Ok THEN 1 ELSE 0)
  /\ content_len = (IF row = 2 /\ A[2].k = "clen" THEN A[2].n ELSE 0)

AnswerUnits == [k : Kinds, r : {0}, n : {0, 1}]

SeqsTyped ==
  /\ sbuf \in Seq(AnswerUnits) /\ wire \in Seq(AnswerUnits) /\ coming \in Seq(AnswerUnits)
  /\ row \in 0..2 /\ rval \in -1..1 /\ content_len \in 0..1

\* The buffers are empty until the answer is asked for, and soc->buf while there is none.
Quiet ==
  /\ pc \in {"ctx", "ssl", "handshake", "init", "request"} => wire = <<>> /\ coming = <<>>
  /\ "buf" \notin held \/ pc \notin {"header", "body", "serve", "free"} => sbuf = <<>>

Answer ==
  /\ pc = "header" => \E A \in Answers(g_id) : Taken(A)
  /\ pc = "body" => rval = 0
  /\ pc = "serve" => RoleOf(g_id).name \in {"Connect", "Respond"}
  /\ pc = "serve" /\ RoleOf(g_id).name = "Connect" /\ "buf" \in held => From(Stream, 0)

Others ==
  /\ g_id \in Ids /\ {writer, pidfile} \subseteq {"none", "daemon", "-1"}
  /\ c \in -1..2 /\ tries \in 0..ShutdownTries

AInv == SeqsTyped /\ Quiet /\ Answer /\ Others

\* What the CGI program becomes for the URI "/<id>".
LEMMA RoleShape ==
  ASSUME NEW id \in Ids
  PROVE  /\ RoleOf(id).name = "Connect" =>
              RoleOf(id) = [name |-> "Connect", id |-> Head(id), pid |-> "none"]
         /\ RoleOf(id).name = "Respond" => "/" \in {id[i] : i \in DOMAIN id}
<1>. DEFINE lstArgs == SplitStr(".", <<"piercloud", ".", "com">>)
            path == Tail(<<"/">> \o id)
            slash == Occurrences(path, <<"/">>, 1)
            t == CHOOSE k \in slash : \A j \in slash : k <= j
<1>1. id \in Seq(STRING)
  BY ConstantsAssumption
<1>2. path = id
  BY <1>1
<1>3. RoleOf(id) =
        IF Len(lstArgs) < 2 THEN Checked("exit", "0", "0")
        ELSE IF Len(lstArgs) > 2 THEN Checked("Pier", AtoL(lstArgs[1]), "none")
        ELSE IF slash = {} THEN Checked("Connect", AtoL(path), "none")
        ELSE Checked("Respond", AtoL(SubSeq(path, 1, t - 1)), AtoL(SubSeq(path, t + 1, Len(path))))
  BY Zenon DEF RoleOf, Role
<1>. HIDE DEF lstArgs, path
<1>4. \A n, i, p : Checked(n, i, p).name \in {n, "exit"}
  BY DEF Checked
<1>5. RoleOf(id).name = "Connect" => slash = {} /\ RoleOf(id) = Checked("Connect", AtoL(id), "none")
  BY <1>2, <1>3, <1>4
<1>6. RoleOf(id).name = "Respond" => slash # {}
  BY <1>3, <1>4
<1>7. ASSUME RoleOf(id).name = "Connect"
      PROVE  RoleOf(id) = [name |-> "Connect", id |-> Head(id), pid |-> "none"]
  <2>1. RoleOf(id) = Checked("Connect", AtoL(id), "none")
    BY <1>5, <1>7
  <2>2. AtoL(id) # "0"
    BY <1>7, <2>1 DEF Checked
  <2>3. AtoL(id) = Head(id)
    BY <2>2 DEF AtoL
  <2>. QED
    BY <2>1, <2>2, <2>3 DEF Checked
<1>8. ASSUME RoleOf(id).name = "Respond"
      PROVE  "/" \in {id[i] : i \in DOMAIN id}
  <2>1. PICK k \in slash : TRUE
    BY <1>6, <1>8
  <2>2. k \in 1..Len(id) /\ SubSeq(id, k, k + Len(<<"/">>) - 1) = <<"/">>
    BY <1>2, <2>1 DEF Occurrences, OccursAt
  <2>3. SubSeq(id, k, k) = <<"/">>
    BY <2>2
  <2>4. SubSeq(id, k, k)[1] = id[k] /\ k \in DOMAIN id
    BY <1>1, <2>2
  <2>. QED
    BY <2>3, <2>4
<1>. QED
  BY <1>7, <1>8

\* What every answer is made of: a status row, one more row, a blank one, and
\* for a Connect() whose status is 200 the stream.
LEMMA AnswerShape ==
  ASSUME NEW id \in Ids, NEW A \in Answers(id)
  PROVE  /\ A \in Seq(AnswerUnits) /\ Len(A) \in Nat /\ Len(A) >= 3
         /\ A[1].k = "status" /\ (A[1].n = 1 <=> A[1] = Ok) /\ A[1] # Blank
         /\ A[2].k \in {"clen", "te"} /\ A[2].n \in {0, 1} /\ A[2] # Blank
         /\ A[3] = Blank /\ A[3].k = "blank"
         /\ A[1] = Ok => /\ RoleOf(id).name \in {"Connect", "Respond"}
                         /\ A[2].k = "clen" => A[2].n = 0
         /\ A[1] = Ok /\ RoleOf(id).name = "Connect" =>
              Len(A) = 6 /\ \A i \in 1..3 : A[3 + i] = Stream[i]
<1>. DEFINE S == <<Ok, Coded, Blank, Unit("size", 0, 1), Body, Unit("crlf", 0, 0)>>
            E == <<Ok, Unit("clen", 0, 0), Blank>>
<1>1. \/ A = Refusal
      \/ A = S /\ RoleOf(id).name = "Connect"
      \/ A = E /\ RoleOf(id).name = "Respond"
  BY DEF Answers, Stream
<1>2. Kinds = {"pid", "line", "status", "clen", "te", "blank", "size", "crlf", "cut", "body", "zero", "junk"}
  BY DEF Kinds, Newline
<1>3. CASE A = Refusal
  BY <1>2, <1>3 DEF Refusal, No, Ok, Blank, Body, Unit, AnswerUnits
<1>4. CASE A = S /\ RoleOf(id).name = "Connect"
  <2>1. /\ A \in Seq(AnswerUnits) /\ Len(A) = 6
    BY <1>2, <1>4 DEF Ok, Coded, Blank, Body, Unit, AnswerUnits
  <2>2. \A i \in 1..3 : i = 1 \/ i = 2 \/ i = 3
    OBVIOUS
  <2>3. \A i \in 1..3 : A[3 + i] = Stream[i]
    BY <1>4, <2>2 DEF Stream
  <2>. QED
    BY <1>4, <2>1, <2>3 DEF Ok, Coded, Blank, Unit
<1>5. CASE A = E /\ RoleOf(id).name = "Respond"
  BY <1>2, <1>5 DEF Ok, Blank, Unit, AnswerUnits
<1>. QED
  BY <1>1, <1>3, <1>4, <1>5

-----------------------------------------------------------------------------
(* The bytes between the server and Authorization().                       *)

\* Of three sequences it does not matter which two are joined first.
LEMMA JoinsAssociate ==
  \A s, t, u \in Seq(AnswerUnits) : (s \o t) \o u = s \o (t \o u)
BY ConcatAssociative

\* A read moves bytes without loss.
LEMMA ReadKeeps ==
  ASSUME SeqsTyped, NEW n \in 1..Len(wire),
         sbuf' = sbuf \o Prefix(wire, n), wire' = Suffix(wire, n), UNCHANGED coming
  PROVE  sbuf' \in Seq(AnswerUnits) /\ wire' \in Seq(AnswerUnits) /\ Unread' = Unread
<1>1. sbuf \in Seq(AnswerUnits) /\ wire \in Seq(AnswerUnits) /\ coming \in Seq(AnswerUnits)
  BY DEF SeqsTyped
<1>2. PICK d : d = Prefix(wire, n)
  OBVIOUS
<1>3. PICK w : w = Suffix(wire, n)
  OBVIOUS
<1>4. n \in 0..Len(wire)
  OBVIOUS
<1>5. d \in Seq(AnswerUnits) /\ w \in Seq(AnswerUnits)
  BY <1>1, <1>2, <1>3, <1>4, Cuts
<1>6. d \o w = wire
  BY <1>1, <1>2, <1>3, <1>4, CutJoins
<1>7. (sbuf \o d) \o w = sbuf \o (d \o w)
  BY <1>1, <1>5, JoinsAssociate, SMTT(30)
<1>. QED
  BY <1>1, <1>2, <1>3, <1>5, <1>6, <1>7 DEF Unread

\* So does the network.
LEMMA SendKeeps ==
  ASSUME SeqsTyped, coming # <<>>, wire' = Append(wire, Head(coming)), coming' = Tail(coming),
         UNCHANGED sbuf
  PROVE  wire' \in Seq(AnswerUnits) /\ coming' \in Seq(AnswerUnits) /\ Unread' = Unread
<1>1. sbuf \in Seq(AnswerUnits) /\ wire \in Seq(AnswerUnits) /\ coming \in Seq(AnswerUnits)
  BY DEF SeqsTyped
<1>2. /\ Head(coming) \in AnswerUnits /\ Tail(coming) \in Seq(AnswerUnits)
      /\ Append(wire, Head(coming)) \in Seq(AnswerUnits)
      /\ Len(Tail(coming)) = Len(coming) - 1 /\ Len(coming) >= 1
  BY <1>1
<1>3. PICK h : h = <<Head(coming)>>
  OBVIOUS
<1>4. PICK t : t = Tail(coming)
  OBVIOUS
<1>5. h \in Seq(AnswerUnits) /\ t \in Seq(AnswerUnits)
  BY <1>2, <1>3, <1>4
<1>6. h \o t = coming
  <2>1. 1 \in 1..Len(coming) /\ Len(coming) \in 1..Len(coming)
    BY <1>1, <1>2
  <2>2. SubSeq(coming, 1, Len(coming)) = <<coming[1]>> \o SubSeq(coming, 1 + 1, Len(coming))
    BY <1>1, <2>1, SubSeqRecursiveFirst
  <2>3. SubSeq(coming, 1, Len(coming)) = coming /\ Tail(coming) = SubSeq(coming, 2, Len(coming))
    BY <1>1, SubSeqFull, TailIsSubSeq
  <2>4. Head(coming) = coming[1] /\ 1 + 1 = 2
    BY <1>1
  <2>. QED
    BY <1>3, <1>4, <2>2, <2>3, <2>4
<1>7. wire' = wire \o h
  BY <1>1, <1>2, <1>3, AppendIsConcat
<1>8. sbuf \o (wire \o h) = (sbuf \o wire) \o h
  BY <1>1, <1>5, JoinsAssociate, SMTT(30)
<1>9. PICK v : v = sbuf \o wire
  OBVIOUS
<1>10. v \in Seq(AnswerUnits)
  BY <1>1, <1>9
<1>11. (v \o h) \o t = v \o (h \o t)
  BY <1>5, <1>10, JoinsAssociate
<1>. QED
  BY <1>2, <1>4, <1>6, <1>7, <1>8, <1>9, <1>11 DEF Unread

\* The end of the connection cuts at the end.
LEMMA EndCuts ==
  ASSUME SeqsTyped, NEW A, NEW k \in Nat, Len(A) \in Nat, Follows(Unread, A, k),
         UNCHANGED sbuf, wire' \in {wire, <<>>}, coming' = <<>>
  PROVE  Follows(Unread', A, k)
<1>1. sbuf \in Seq(AnswerUnits) /\ wire \in Seq(AnswerUnits) /\ coming \in Seq(AnswerUnits)
  BY DEF SeqsTyped
<1>2. Unread' = sbuf \o wire \/ Unread' = sbuf
  <2>1. \A x \in Seq(AnswerUnits) : x \o <<>> = x
    BY ConcatEmptySeq
  <2>2. sbuf \o wire \in Seq(AnswerUnits)
    BY <1>1
  <2>3. Unread' = sbuf \o wire' \o <<>>
    BY DEF Unread
  <2>. QED
    BY <1>1, <2>1, <2>2, <2>3
<1>3. /\ Len(Unread) = Len(sbuf) + Len(wire) + Len(coming)
      /\ \A i \in 1..Len(sbuf) : Unread[i] = sbuf[i]
      /\ Len(sbuf \o wire) = Len(sbuf) + Len(wire)
      /\ \A i \in 1..Len(sbuf \o wire) : Unread[i] = (sbuf \o wire)[i]
  BY <1>1 DEF Unread
<1>4. Len(sbuf) \in Nat /\ Len(wire) \in Nat /\ Len(coming) \in Nat
  BY <1>1
<1>5. Len(Unread) <= Len(A) - k /\ \A i \in 1..Len(Unread) : Unread[i] = A[k + i]
  BY DEF Follows
<1>6. CASE Unread' = sbuf \o wire
  BY <1>3, <1>4, <1>5, <1>6, SMTT(30) DEF Follows
<1>7. CASE Unread' = sbuf
  BY <1>3, <1>4, <1>5, <1>7 DEF Follows
<1>. QED
  BY <1>2, <1>6, <1>7

\* While a header's row is awaited, the row at the head of the buffer is the
\* next unit of the answer, and the cut leaves what follows it.
LEMMA RowOfAnswer ==
  ASSUME SeqsTyped, NEW A \in Answers(g_id), g_id \in Ids, NEW k \in 0..2, From(A, k),
         HasRow(sbuf), sbuf' = Cut(sbuf), UNCHANGED <<wire, coming, eof>>
  PROVE  /\ Head(Row(sbuf)) = A[k + 1]
         /\ sbuf' \in Seq(AnswerUnits) /\ From(A, k + 1)'
<1>1. sbuf \in Seq(AnswerUnits) /\ wire \in Seq(AnswerUnits) /\ coming \in Seq(AnswerUnits)
  BY DEF SeqsTyped
<1>2. /\ Min(RowEnds(sbuf)) \in 1..Len(sbuf) /\ \A i \in RowEnds(sbuf) : Min(RowEnds(sbuf)) <= i
      /\ Row(sbuf) \in Seq(AnswerUnits) /\ Len(Row(sbuf)) = Min(RowEnds(sbuf))
      /\ \A i \in 1..Len(Row(sbuf)) : Row(sbuf)[i] = sbuf[i]
  BY <1>1, RowAtHead
<1>3. /\ Len(Unread) = Len(sbuf) + Len(wire) + Len(coming) /\ Unread[1] = sbuf[1]
      /\ Len(sbuf) \in Nat /\ Len(sbuf) >= 1 /\ Len(wire) \in Nat /\ Len(coming) \in Nat
      /\ 1 \in 1..Len(Unread)
  BY <1>1, <1>2 DEF Unread
<1>4. Len(Unread) <= Len(A) - k /\ \A i \in 1..Len(Unread) : Unread[i] = A[k + i]
  BY DEF From, Follows
<1>5. sbuf[1] = A[k + 1]
  BY <1>3, <1>4
<1>6. sbuf[1].k \in Newline
  <2>1. k = 0 \/ k = 1 \/ k = 2
    OBVIOUS
  <2>2. A[1].k = "status" /\ A[2].k \in {"clen", "te"} /\ A[3].k = "blank"
    BY AnswerShape
  <2>. QED
    BY <1>5, <2>1, <2>2 DEF Newline
<1>7. Len(Row(sbuf)) = 1
  <2>1. 1 \in RowEnds(sbuf)
    BY <1>1, <1>3, <1>6 DEF RowEnds
  <2>. QED
    BY <1>2, <2>1
<1>8. Head(Row(sbuf)) = A[k + 1]
  BY <1>2, <1>5, <1>7
<1>9. sbuf' = Suffix(sbuf, 1)
  BY <1>7 DEF Cut
<1>10. /\ sbuf' \in Seq(AnswerUnits) /\ Len(sbuf') = Len(sbuf) - 1
       /\ \A i \in 1..Len(sbuf) - 1 : sbuf'[i] = sbuf[1 + i]
  <2>1. 1 \in 0..Len(sbuf)
    BY <1>3
  <2>2. /\ Suffix(sbuf, 1) \in Seq(AnswerUnits) /\ Len(Suffix(sbuf, 1)) = Len(sbuf) - 1
        /\ \A i \in 1..Len(sbuf) - 1 : Suffix(sbuf, 1)[i] = sbuf[1 + i]
    BY <1>1, <2>1, Cuts
  <2>. QED
    BY <1>9, <2>2
<1>11. Unread' = Suffix(Unread, 1) /\ Unread \in Seq(AnswerUnits)
  <2>1. Unread' = (Suffix(sbuf, 1) \o wire) \o coming
    BY <1>9 DEF Unread
  <2>2. 1 \in 0..Len(sbuf)
    BY <1>3
  <2>3. Suffix(sbuf, 1) \o wire = Suffix(sbuf \o wire, 1) /\ 1 \in 0..Len(sbuf \o wire)
    BY <1>1, <2>2, CutOfJoin
  <2>4. PICK v : v = sbuf \o wire
    OBVIOUS
  <2>5. v \in Seq(AnswerUnits) /\ 1 \in 0..Len(v)
    BY <1>1, <2>3, <2>4
  <2>6. Suffix(v, 1) \o coming = Suffix(v \o coming, 1)
    BY <1>1, <2>5, CutOfJoin
  <2>7. v \o coming \in Seq(AnswerUnits)
    BY <1>1, <2>5
  <2>. QED
    BY <2>1, <2>3, <2>4, <2>6, <2>7 DEF Unread
<1>12. Len(Unread') = Len(Unread) - 1 /\ \A i \in 1..Len(Unread') : Unread'[i] = Unread[1 + i]
  <2>1. 1 \in 0..Len(Unread)
    BY <1>3
  <2>2. /\ Len(Suffix(Unread, 1)) = Len(Unread) - 1
        /\ \A i \in 1..Len(Unread) - 1 : Suffix(Unread, 1)[i] = Unread[1 + i]
    BY <1>11, <2>1, Cuts
  <2>. QED
    BY <1>11, <2>2
<1>13. From(A, k + 1)'
  <2>1. Len(A) \in Nat
    BY AnswerShape
  <2>2. Len(Unread') <= Len(A) - (k + 1)
    BY <1>3, <1>4, <1>12, <2>1
  <2>3. \A i \in 1..Len(Unread') : Unread'[i] = A[k + 1 + i]
    <3>. TAKE i \in 1..Len(Unread')
    <3>1. 1 + i \in 1..Len(Unread) /\ k + (1 + i) = k + 1 + i
      BY <1>3, <1>12
    <3>. QED
      BY <1>4, <1>12, <3>1
  <2>4. ~eof' => Len(Unread') = Len(A) - (k + 1)
    BY <1>3, <1>12, <2>1 DEF From
  <2>. QED
    BY <2>2, <2>3, <2>4 DEF From, Follows
<1>. QED
  BY <1>8, <1>10, <1>13

-----------------------------------------------------------------------------
(* Every step keeps what is known of the answer.                           *)

\* As long as nothing of the answer is lost or taken, what is known of it
\* stays; the end of the connection takes away its completeness only.
LEMMA AnswerKept ==
  ASSUME IInv, AInv, UNCHANGED <<g_id, pc, held, row, rval, content_len>>,
         \/ Unread' = Unread /\ eof' = eof
         \/ UNCHANGED sbuf /\ wire' \in {wire, <<>>} /\ coming' = <<>> /\ eof' = TRUE
  PROVE  Answer'
<1>. USE DEF AInv
<1>1. ASSUME NEW A, NEW k \in Nat, Len(A) \in Nat, From(A, k)
      PROVE  From(A, k)'
  <2>1. Follows(Unread, A, k)
    BY <1>1 DEF From
  <2>2. CASE Unread' = Unread /\ eof' = eof
    <3>1. Follows(Unread', A, k)
      BY <2>1, <2>2
    <3>. QED
      BY <1>1, <2>2, <3>1 DEF From, Follows
  <2>3. CASE UNCHANGED sbuf /\ wire' \in {wire, <<>>} /\ coming' = <<>> /\ eof' = TRUE
    <3>1. Follows(Unread', A, k)
      BY <1>1, <2>1, <2>3, EndCuts
    <3>. QED
      BY <2>3, <3>1 DEF From, Follows
  <2>. QED
    BY <2>2, <2>3
<1>2. ASSUME pc = "header"
      PROVE  \E A \in Answers(g_id) : Taken(A)'
  <2>1. PICK A \in Answers(g_id) : Taken(A)
    BY <1>2 DEF Answer
  <2>2. Len(A) \in Nat /\ row \in Nat
    BY <2>1, AnswerShape DEF Others, Taken
  <2>3. PICK k \in Nat : k = row
    BY <2>2
  <2>4. From(A, k)'
    BY <1>1, <2>1, <2>2, <2>3 DEF Taken
  <2>5. Taken(A)'
    BY <2>1, <2>3, <2>4 DEF Taken, From, Follows
  <2>. QED
    BY <2>5
<1>3. ASSUME From(Stream, 0)
      PROVE  From(Stream, 0)'
  <2>1. Len(Stream) \in Nat /\ 0 \in Nat
    BY DEF Stream
  <2>. QED
    BY <1>1, <1>3, <2>1
<1>. QED
  BY <1>2, <1>3 DEF Answer

\* Away from Authorization() and doReadFromServer() there is nothing to know.
LEMMA NoAnswer ==
  ASSUME pc' \notin {"header", "body", "serve"}
  PROVE  Answer'
BY DEF Answer

\* The variables that the answer has no part in.
LEMMA OthersStep ==
  ASSUME IInv, Others, [Next]_vars
  PROVE  Others'
<1>. USE DEF Others, Goes
<1>1. CASE ForkFirst \/ ForkSecond \/ WritePid
  BY <1>1 DEF ForkFirst, ForkSecond, WritePid, fds
<1>2. CASE OpenSocket
  <2>1. CASE c' = Min((0..2) \ files)
    <3>1. files \subseteq {0}
      BY <1>2 DEF OpenSocket, IInv, Descriptors
    <3>2. c' \in 0..2
      BY <2>1, <3>1, LowestFree
    <3>. QED
      BY <1>2, <3>2 DEF OpenSocket, daemon
  <2>2. CASE c' = -1
    BY <1>2, <2>2 DEF OpenSocket, daemon
  <2>. QED
    BY <1>2, <2>1, <2>2 DEF OpenSocket
<1>3. CASE ConnectFails \/ Connects \/ CloseConnection
  BY <1>3 DEF ConnectFails, Connects, CloseConnection, fds
<1>4. CASE NewCtx \/ NewSsl \/ Handshake \/ Release \/ InitSocket \/ FreeSocket
  BY <1>4 DEF NewCtx, NewSsl, Handshake, Release, InitSocket, FreeSocket, fds
<1>5. CASE ShutdownStep
  BY <1>5, ConstantsAssumption DEF ShutdownStep, Again, fds, daemon
<1>6. CASE Ask \/ ReadsHeader \/ HeaderCut \/ TakesRow \/ ReadsBody \/ TakesBody \/ Returned
           \/ Dies
  BY <1>6 DEF Ask, ReadsHeader, HeaderCut, TakesRow, ReadsBody, TakesBody, Returned, Dies, Returns,
              fds, daemon
<1>7. CASE ServerSends \/ ConnectionEnds \/ UNCHANGED vars
  BY <1>7 DEF ServerSends, ConnectionEnds, vars, fds, daemon
<1>. QED
  BY <1>1, <1>2, <1>3, <1>4, <1>5, <1>6, <1>7
     DEF Next, Main, Connection, Wrap, Authorization, Cleanup, Shutdown, PeerLetsGo, Serve, ServeStops

\* Outside Authorization() the buffers are emptied or left alone.
LEMMA QuietStages ==
  ASSUME IInv, AInv,
         \/ ForkFirst \/ ForkSecond \/ OpenSocket \/ ConnectFails \/ Connects \/ CloseConnection
         \/ NewCtx \/ NewSsl \/ Handshake \/ ShutdownStep \/ Release \/ InitSocket \/ FreeSocket
         \/ Returned \/ Dies
  PROVE  SeqsTyped' /\ Quiet' /\ Answer'
<1>. USE DEF AInv, IInv, Stage, Goes
<1>1. \A S : <<>> \in Seq(S)
  OBVIOUS
<1>2. CASE ForkFirst \/ ForkSecond
  BY <1>2, NoAnswer DEF ForkFirst, ForkSecond, SeqsTyped, Quiet, auth, conn, fds
<1>3. CASE OpenSocket \/ ConnectFails
  <2>1. pc' \in {"connect", "socket"} /\ UNCHANGED <<sbuf, row, rval, content_len, wire, coming>> /\ held' = held
    BY <1>3 DEF OpenSocket, ConnectFails, auth, conn, daemon
  <2>. QED
    BY <1>3, <2>1, NoAnswer DEF OpenSocket, ConnectFails, SeqsTyped, Quiet
<1>4. CASE Connects \/ CloseConnection
  BY <1>1, <1>4, NoAnswer DEF Connects, CloseConnection, SeqsTyped, Quiet, auth, fds
<1>5. CASE NewCtx \/ NewSsl \/ Handshake
  BY <1>5, NoAnswer DEF NewCtx, NewSsl, Handshake, SeqsTyped, Quiet, auth, conn, fds
<1>6. CASE ShutdownStep \/ Release
  BY <1>6, NoAnswer DEF ShutdownStep, Release, SeqsTyped, Quiet, auth, conn, fds, daemon
<1>7. CASE InitSocket \/ FreeSocket \/ Returned \/ Dies
  BY <1>1, <1>7, NoAnswer DEF InitSocket, FreeSocket, Returned, Dies, SeqsTyped, Quiet, conn
<1>. QED
  BY <1>2, <1>3, <1>4, <1>5, <1>6, <1>7

\* The server's answer begins: none of it has been sent.
LEMMA AskStep ==
  ASSUME IInv, AInv, Ask
  PROVE  SeqsTyped' /\ Quiet' /\ Answer'
<1>. USE DEF AInv, IInv, Stage, Goes
<1>1. sbuf = <<>> /\ wire = <<>> /\ coming = <<>>
  BY DEF Ask, Quiet
<1>2. row' = 0 /\ content_len' = 0 /\ rval' = -1 /\ UNCHANGED <<sbuf, held>>
  BY DEF Ask, fds
<1>3. CASE pc' = "free" /\ UNCHANGED conn
  BY <1>1, <1>2, <1>3, NoAnswer DEF SeqsTyped, Quiet, conn
<1>4. CASE pc' = "header" /\ coming' \in Answers(g_id) /\ UNCHANGED <<wire, eof, g_id>>
  <2>1. PICK A \in Answers(g_id) : coming' = A
    BY <1>4
  <2>2. A \in Seq(AnswerUnits)
    BY AnswerShape DEF Others
  <2>3. Unread' = A
    <3>1. Unread' = (<<>> \o <<>>) \o A
      BY <1>1, <1>2, <1>4, <2>1 DEF Unread
    <3>. QED
      BY <2>2, <3>1
  <2>4. From(A, 0)'
    <3>1. Len(A) <= Len(A) - 0 /\ \A i \in 1..Len(A) : A[i] = A[0 + i]
      BY <2>2
    <3>2. Len(A) = Len(A) - 0
      BY <2>2
    <3>. QED
      BY <2>3, <3>1, <3>2 DEF From, Follows
  <2>5. Taken(A)'
    BY <1>2, <2>4 DEF Taken, From, Follows
  <2>6. SeqsTyped' /\ Quiet'
    BY <1>1, <1>2, <1>4, <2>1, <2>2 DEF SeqsTyped, Quiet
  <2>. QED
    BY <1>4, <2>5, <2>6 DEF Answer
<1>. QED
  BY <1>3, <1>4 DEF Ask

\* Reads and the network only move the answer on.
LEMMA MovesStep ==
  ASSUME IInv, AInv, ReadsHeader \/ ReadsBody \/ ServerSends
  PROVE  SeqsTyped' /\ Quiet' /\ Answer'
<1>. USE DEF AInv, IInv, Stage
<1>1. SeqsTyped
  OBVIOUS
<1>2. UNCHANGED <<g_id, pc, held, row, rval, content_len, eof>>
  BY DEF ReadsHeader, ReadsBody, ServerSends, daemon, fds, auth
<1>3. CASE ReadsHeader \/ ReadsBody
  <2>1. \E most \in Int : \E p \in Increased(sbuf, wire, most) : sbuf' = p[1] /\ wire' = p[2]
    <3>1. CASE ReadsHeader
      <4>1. RowRead \in Int
        BY ConstantsAssumption
      <4>. QED
        BY <3>1, <4>1 DEF ReadsHeader, Reads
    <3>2. CASE ReadsBody
      <4>1. content_len - Len(sbuf) \in Int
        BY DEF SeqsTyped
      <4>. QED
        BY <3>2, <4>1 DEF ReadsBody
    <3>. QED
      BY <1>3, <3>1, <3>2
  <2>2. PICK most \in Int : \E n \in 1..Smaller(most, Len(wire)) :
          sbuf' = sbuf \o Prefix(wire, n) /\ wire' = Suffix(wire, n)
    <3>1. PICK most \in Int : \E p \in Increased(sbuf, wire, most) : sbuf' = p[1] /\ wire' = p[2]
      BY <2>1
    <3>2. PICK p \in Increased(sbuf, wire, most) : sbuf' = p[1] /\ wire' = p[2]
      BY <3>1
    <3>3. PICK n \in 1..Smaller(most, Len(wire)) : p = <<sbuf \o Prefix(wire, n), Suffix(wire, n)>>
      BY DEF Increased
    <3>. QED
      BY <3>2, <3>3
  <2>3. PICK n \in 1..Len(wire) : sbuf' = sbuf \o Prefix(wire, n) /\ wire' = Suffix(wire, n)
    <3>1. Len(wire) \in Nat
      BY DEF SeqsTyped
    <3>. QED
      BY <2>2, <3>1 DEF Smaller
  <2>4. sbuf' = sbuf \o Prefix(wire, n) /\ wire' = Suffix(wire, n) /\ UNCHANGED coming
    BY <1>3, <2>3 DEF ReadsHeader, ReadsBody
  <2>5. sbuf' \in Seq(AnswerUnits) /\ wire' \in Seq(AnswerUnits) /\ Unread' = Unread
    BY <1>1, <2>3, <2>4, ReadKeeps
  <2>6. SeqsTyped'
    BY <1>2, <2>4, <2>5 DEF SeqsTyped
  <2>7. pc \in {"header", "body"}
    BY <1>3 DEF ReadsHeader, ReadsBody
  <2>8. Quiet'
    BY <1>2, <2>7 DEF Quiet
  <2>. QED
    BY <1>2, <2>5, <2>6, <2>8, AnswerKept
<1>4. CASE ServerSends
  <2>1. /\ coming # <<>> /\ wire' = Append(wire, Head(coming)) /\ coming' = Tail(coming)
        /\ UNCHANGED sbuf
    BY <1>4 DEF ServerSends, auth
  <2>2. wire' \in Seq(AnswerUnits) /\ coming' \in Seq(AnswerUnits) /\ Unread' = Unread
    BY <1>1, <2>1, SendKeeps
  <2>3. SeqsTyped' /\ Quiet'
    BY <1>2, <2>1, <2>2 DEF SeqsTyped, Quiet
  <2>. QED
    BY <1>2, <2>2, <2>3, AnswerKept
<1>. QED
  BY <1>3, <1>4

\* The end of the connection, and the steps that leave all of this alone.
LEMMA EndsStep ==
  ASSUME IInv, AInv, ConnectionEnds \/ WritePid \/ UNCHANGED vars
  PROVE  SeqsTyped' /\ Quiet' /\ Answer'
<1>. USE DEF AInv, IInv
<1>1. UNCHANGED <<g_id, pc, held, row, rval, content_len, sbuf>>
  BY DEF ConnectionEnds, WritePid, vars, daemon, fds, auth
<1>2. CASE ConnectionEnds
  <2>1. wire' \in {wire, <<>>} /\ coming' = <<>> /\ eof' = TRUE
    BY <1>2 DEF ConnectionEnds
  <2>2. SeqsTyped' /\ Quiet'
    <3>1. \A S : <<>> \in Seq(S)
      OBVIOUS
    <3>2. SeqsTyped'
      BY <1>1, <2>1, <3>1 DEF SeqsTyped
    <3>3. Quiet'
      BY <1>1, <2>1 DEF Quiet
    <3>. QED
      BY <3>2, <3>3
  <2>. QED
    BY <1>1, <2>1, <2>2, AnswerKept
<1>3. CASE WritePid \/ UNCHANGED vars
  <2>1. UNCHANGED <<sbuf, wire, coming, eof>>
    BY <1>3 DEF WritePid, vars, conn, auth
  <2>2. Unread' = Unread /\ eof' = eof
    BY <2>1 DEF Unread
  <2>3. SeqsTyped' /\ Quiet'
    BY <1>1, <2>1 DEF SeqsTyped, Quiet
  <2>. QED
    BY <1>1, <2>2, <2>3, AnswerKept
<1>. QED
  BY <1>2, <1>3

\* A header that is cut off is no authorization unless its first row was one.
LEMMA HeaderCutStep ==
  ASSUME IInv, AInv, HeaderCut
  PROVE  SeqsTyped' /\ Quiet' /\ Answer'
<1>. USE DEF AInv, IInv, Stage
<1>1. PICK A \in Answers(g_id) : Taken(A)
  BY DEF HeaderCut, Answer
<1>2. sbuf' = <<>> /\ held' = held \ {"buf"} /\ UNCHANGED <<g_id, row, rval, content_len, wire, coming>>
  BY DEF HeaderCut, Returns, Goes, conn
<1>3. pc' = IF (IF row = 0 THEN -1 ELSE rval) = 1 THEN "serve" ELSE "free"
  BY DEF HeaderCut, Returns, Goes
<1>4. pc' = "serve" => A[1] = Ok
  BY <1>1, <1>3 DEF Taken
<1>5. pc' = "serve" => RoleOf(g_id).name \in {"Connect", "Respond"}
  BY <1>4, AnswerShape DEF Others
<1>6. SeqsTyped' /\ Quiet'
  BY <1>2, <1>3 DEF SeqsTyped, Quiet
<1>7. Answer'
  BY <1>2, <1>3, <1>5 DEF Answer
<1>. QED
  BY <1>6, <1>7

\* Each row is the next one of the answer; behind the blank one follows what
\* doReadFromServer() is to read, or the body of a refusal.
LEMMA TakesRowStep ==
  ASSUME IInv, AInv, TakesRow
  PROVE  SeqsTyped' /\ Quiet' /\ Answer'
<1>. USE DEF AInv, IInv, Stage
<1>1. pc = "header" /\ HasRow(sbuf) /\ sbuf' = Cut(sbuf) /\ UNCHANGED <<wire, coming, eof, held>>
  BY DEF TakesRow, conn, fds
<1>2. PICK A \in Answers(g_id) : Taken(A)
  BY <1>1 DEF Answer
<1>3. PICK k \in 0..2 : k = row
  BY <1>2 DEF Taken
<1>4. Head(Row(sbuf)) = A[k + 1] /\ sbuf' \in Seq(AnswerUnits) /\ From(A, k + 1)'
  BY <1>1, <1>2, <1>3, RowOfAnswer DEF Taken, Others
<1>5. /\ Len(A) \in Nat
      /\ A[1].k = "status" /\ (A[1].n = 1 <=> A[1] = Ok) /\ A[1] # Blank
      /\ A[2].k \in {"clen", "te"} /\ A[2].n \in {0, 1} /\ A[2] # Blank
      /\ A[3] = Blank
      /\ A[1] = Ok => /\ RoleOf(g_id).name \in {"Connect", "Respond"}
                      /\ A[2].k = "clen" => A[2].n = 0
      /\ A[1] = Ok /\ RoleOf(g_id).name = "Connect" =>
           Len(A) = 6 /\ \A i \in 1..3 : A[3 + i] = Stream[i]
  BY AnswerShape DEF Others
<1>6. CASE k = 2
  <2>1. Head(Row(sbuf)) = Blank
    BY <1>4, <1>5, <1>6
  <2>2. /\ UNCHANGED <<row, rval, content_len, g_id>>
        /\ pc' = IF content_len > 0 THEN "body" ELSE IF rval = 1 THEN "serve" ELSE "free"
    BY <2>1 DEF TakesRow, Returns, Goes
  <2>3. SeqsTyped' /\ Quiet'
    <3>1. pc' \in {"body", "serve", "free"} /\ "buf" \in held'
      BY <1>1, <2>2
    <3>2. Quiet'
      BY <3>1 DEF Quiet
    <3>3. SeqsTyped'
      BY <1>1, <1>4, <2>2 DEF SeqsTyped
    <3>. QED
      BY <3>2, <3>3
  <2>4. pc' = "body" => rval' = 0
    <3>1. row = 2 /\ rval = (IF A[1] = Ok THEN 1 ELSE 0)
      BY <1>2, <1>3, <1>6 DEF Taken
    <3>2. content_len = (IF A[2].k = "clen" THEN A[2].n ELSE 0)
      BY <1>2, <3>1 DEF Taken
    <3>3. A[1] = Ok => content_len = 0
      BY <1>5, <3>2
    <3>. QED
      BY <2>2, <3>1, <3>3
  <2>5. pc' = "serve" => A[1] = Ok
    BY <1>2, <2>2 DEF Taken
  <2>6. ASSUME A[1] = Ok, RoleOf(g_id).name = "Connect"
        PROVE  From(Stream, 0)'
    <3>1. Len(A) = 6 /\ \A i \in 1..3 : A[3 + i] = Stream[i]
      BY <1>5, <2>6
    <3>2. Len(Stream) = 3
      BY DEF Stream
    <3>3. From(A, 3)'
      BY <1>4, <1>6
    <3>4. /\ Len(Unread') <= 3 /\ \A i \in 1..Len(Unread') : Unread'[i] = A[3 + i]
          /\ ~eof' => Len(Unread') = 3
      BY <3>1, <3>3 DEF From, Follows
    <3>5. Unread' \in Seq(AnswerUnits)
      BY <1>1, <1>4 DEF Unread, SeqsTyped
    <3>6. \A i \in 1..Len(Unread') : Unread'[i] = Stream[0 + i]
      BY <3>1, <3>4, <3>5
    <3>. QED
      BY <3>2, <3>4, <3>6 DEF From, Follows
  <2>7. Answer'
    BY <1>5, <2>2, <2>4, <2>5, <2>6 DEF Answer
  <2>. QED
    BY <2>3, <2>7
<1>7. CASE k \in {0, 1}
  <2>1. Head(Row(sbuf)) # Blank
    BY <1>4, <1>5, <1>7
  <2>2. /\ row' = k + 1
        /\ rval' = (IF k > 0 THEN rval ELSE IF Authorised(A[1]) THEN 1 ELSE 0)
        /\ content_len' = (IF A[k + 1].k = "clen" THEN A[k + 1].n ELSE content_len)
        /\ UNCHANGED <<pc, g_id>>
    BY <1>3, <1>4, <1>7, <2>1 DEF TakesRow, daemon
  <2>3. rval' = (IF A[1] = Ok THEN 1 ELSE 0)
    BY <1>2, <1>3, <1>5, <1>7, <2>2 DEF Taken, Authorised
  <2>4. content_len' = (IF row' = 2 /\ A[2].k = "clen" THEN A[2].n ELSE 0)
    BY <1>2, <1>3, <1>5, <1>7, <2>2 DEF Taken
  <2>5. row' \in 1..2 /\ content_len' \in 0..1
    BY <1>5, <1>7, <2>2, <2>4
  <2>6. Taken(A)'
    BY <1>4, <2>2, <2>3, <2>4, <2>5 DEF Taken, From, Follows
  <2>7. SeqsTyped' /\ Quiet'
    BY <1>1, <1>4, <2>2, <2>3, <2>5 DEF SeqsTyped, Quiet
  <2>8. Answer'
    BY <1>1, <2>2, <2>6 DEF Answer
  <2>. QED
    BY <2>7, <2>8
<1>. QED
  BY <1>6, <1>7

\* A body belongs to a refusal.
LEMMA TakesBodyStep ==
  ASSUME IInv, AInv, TakesBody
  PROVE  SeqsTyped' /\ Quiet' /\ Answer'
<1>. USE DEF AInv, IInv, Stage
<1>1. rval = 0
  BY DEF TakesBody, Answer
<1>2. pc' = "free" /\ sbuf' = <<>> /\ UNCHANGED <<row, rval, content_len, wire, coming>>
  BY <1>1 DEF TakesBody, Returns, Goes, conn
<1>. QED
  BY <1>2, NoAnswer DEF SeqsTyped, Quiet

\* All of it together.
LEMMA AInvStep == IInv /\ AInv /\ [Next]_vars => AInv'
<1>. SUFFICES ASSUME IInv, AInv, [Next]_vars PROVE AInv'
  OBVIOUS
<1>1. Others'
  BY OthersStep DEF AInv
<1>2. SeqsTyped' /\ Quiet' /\ Answer'
  BY QuietStages, AskStep, MovesStep, EndsStep, HeaderCutStep, TakesRowStep, TakesBodyStep
     DEF Next, Main, Connection, Wrap, Authorization, Cleanup, Shutdown, PeerLetsGo, Serve, ServeStops
<1>. QED
  BY <1>1, <1>2 DEF AInv

\* It holds before initDaemon().
LEMMA InitAInv == Init => IInv /\ AInv
<1>. SUFFICES ASSUME Init PROVE IInv /\ AInv
  OBVIOUS
<1>1. IInv
  BY DEF Init, IInv, Stage, Descriptors, Stages
<1>2. 0 \in 0..ShutdownTries
  BY ConstantsAssumption
<1>3. AInv
  BY <1>2 DEF Init, AInv, SeqsTyped, Quiet, Answer, Others
<1>. QED
  BY <1>1, <1>3

\* The state of the daemon and the answer it reads, in every reachable state.
LEMMA AnswerKnown == Spec => [](IInv /\ AInv)
<1>1. IInv /\ AInv /\ [Next]_vars => (IInv /\ AInv)'
  BY HeldStep, AInvStep
<1>. QED
  BY <1>1, InitAInv, PTL DEF Spec

\* Every variable keeps its type, and soc->buf holds nothing when there is none.
THEOREM TypeCorrect == Spec => []TypeOK
<1>1. IInv /\ AInv => TypeOK
  <2>. SUFFICES ASSUME IInv, AInv PROVE TypeOK
    OBVIOUS
  <2>1. g_id \in Ids /\ {writer, pidfile} \subseteq {"none", "daemon", "-1"} /\ c \in -1..2 /\ tries \in 0..ShutdownTries
    BY DEF AInv, Others
  <2>2. row \in 0..2 /\ rval \in -1..1 /\ content_len \in 0..1
    BY DEF AInv, SeqsTyped
  <2>3. pc \in Stages /\ files \subseteq 0..2
    BY DEF IInv, Descriptors
  <2>4. held \subseteq {"ctx", "ssl", "buf"}
    BY <2>3 DEF IInv, Stage, Stages
  <2>5. ("buf" \notin held \/ pc \in {"start", "forked", "connect"}) => sbuf = <<>>
    BY DEF AInv, Quiet
  <2>. QED
    BY <2>1, <2>2, <2>3, <2>4, <2>5 DEF TypeOK
<1>. QED
  BY <1>1, AnswerKnown, PTL

\* doReadFromServer() is not entered for an id that is no number, whatever the
\* server answers, wherever the connection ends and however the reads cut it.
THEOREM ServedIsAuthorisedAlways == Spec => []ServedIsAuthorised
<1>1. IInv /\ AInv => ServedIsAuthorised
  BY RoleShape DEF AInv, Answer, Others, ServedIsAuthorised
<1>. QED
  BY <1>1, AnswerKnown, PTL

\* The header's rows take nothing of the stream with them.
THEOREM ChunksFromStartAlways == Spec => []ChunksFromStart
<1>1. IInv /\ AInv => ChunksFromStart
  <2>. SUFFICES ASSUME IInv, AInv, pc = "serve", RoleOf(g_id).name = "Connect", "buf" \in held
                PROVE  /\ sbuf \o wire = Prefix(Stream, Len(sbuf \o wire))
                       /\ ~eof => sbuf \o wire \o coming = Stream
    BY DEF ChunksFromStart
  <2>1. sbuf \in Seq(AnswerUnits) /\ wire \in Seq(AnswerUnits) /\ coming \in Seq(AnswerUnits)
    BY DEF AInv, SeqsTyped
  <2>2. Len(Stream) = 3 /\ Stream \in Seq(AnswerUnits)
    BY DEF Stream, Body, Unit, AnswerUnits, Kinds, Newline
  <2>3. /\ Len(Unread) <= 3 /\ (~eof => Len(Unread) = 3)
        /\ \A i \in 1..Len(Unread) : Unread[i] = Stream[0 + i]
    BY <2>2 DEF AInv, Answer, From, Follows
  <2>4. PICK v : v = sbuf \o wire
    OBVIOUS
  <2>5. v \in Seq(AnswerUnits) /\ Unread = v \o coming
    BY <2>1, <2>4 DEF Unread
  <2>6. /\ Unread \in Seq(AnswerUnits) /\ Len(Unread) = Len(v) + Len(coming)
        /\ \A i \in 1..Len(v) : Unread[i] = v[i]
    BY <2>1, <2>5
  <2>7. Len(v) \in 0..Len(Stream) /\ Len(v) \in Nat
    <3>1. Len(v) \in Nat /\ Len(coming) \in Nat
      BY <2>1, <2>5
    <3>2. Len(v) <= Len(Unread)
      BY <2>6, <3>1
    <3>3. Len(v) <= 3
      BY <2>3, <2>6, <3>1
    <3>4. \A m \in Nat : m <= 3 => m \in 0..3
      OBVIOUS
    <3>5. Len(v) \in 0..3
      BY <3>1, <3>3, <3>4
    <3>6. Len(Stream) = 3
      BY <2>2
    <3>. QED
      BY <3>1, <3>5, <3>6
  <2>8. /\ Prefix(Stream, Len(v)) \in Seq(AnswerUnits) /\ Len(Prefix(Stream, Len(v))) = Len(v)
        /\ \A i \in 1..Len(v) : Prefix(Stream, Len(v))[i] = Stream[i]
    BY <2>2, <2>7, Cuts, ZenonT(40)
  <2>9. \A i \in 1..Len(v) : v[i] = Prefix(Stream, Len(v))[i]
    BY <2>1, <2>3, <2>6, <2>7, <2>8, SMTT(30)
  <2>10. v = Prefix(Stream, Len(v))
    BY <2>5, <2>8, <2>9, SeqEqual
  <2>11. ASSUME ~eof
         PROVE  Unread = Stream
    <3>1. Len(Unread) = Len(Stream) /\ \A i \in 1..Len(Unread) : Unread[i] = Stream[i]
      BY <2>2, <2>3, <2>6, <2>11
    <3>. QED
      BY <2>2, <2>6, <3>1, SeqEqual
  <2>. QED
    BY <2>4, <2>10, <2>11 DEF Unread
<1>. QED
  BY <1>1, AnswerKnown, PTL
=============================================================================
