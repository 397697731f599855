---------------------------- MODULE ClientProofs ----------------------------
(***************************************************************************)
(* Proofs about the daemon's tunnel reader: its variables keep their types,*)
(* whatever is read, lost or parsed; and unless one of the causes that the *)
(* properties name befell it, every child gets the request it answers to,  *)
(* whole, no Pier is answered by two children, and the daemon stays up.    *)
(* This rests on a stream of whole requests, of which parser, frames and   *)
(* Pier hold one part each, and on every pid being in one place of it.     *)
(***************************************************************************)
EXTENDS Client, SocketBufProofs

-----------------------------------------------------------------------------
(* What getConnectionRequest takes from a buffer.                          *)

\* The blank row that ends a header is behind its pid row.
LEMMA HeaderIn ==
  ASSUME NEW b \in Seq(Units), HasRow(b), HeaderEnd(b) # 0
  PROVE  HeaderEnd(b) \in 1..Len(b) /\ HeaderEnd(b) > Min(RowEnds(b))
<1>. DEFINE blanks == {i \in DOMAIN b : IsRow(b, i) /\ BlankRow(b[i]) /\ i > Min(RowEnds(b))}
<1>1. blanks \subseteq 1..Len(b) /\ blanks \subseteq Nat
  OBVIOUS
<1>2. blanks # {} /\ HeaderEnd(b) = Min(blanks)
  BY DEF HeaderEnd
<1>3. HeaderEnd(b) \in blanks
  BY <1>1, <1>2, LeastOf
<1>. QED
  BY <1>1, <1>3

\* A Content-Length is a number.
LEMMA ContentLengthIsNat ==
  ASSUME NEW b \in Seq(Units), HasRow(b), HeaderEnd(b) # 0
  PROVE  ContentLength(b) \in Nat
<1>. DEFINE rows == {i \in Min(RowEnds(b)) + 1..HeaderEnd(b) : IsRow(b, i) /\ b[i].k = "clen"}
<1>1. Min(RowEnds(b)) \in 1..Len(b) /\ HeaderEnd(b) \in 1..Len(b)
  BY RowAtHead, HeaderIn
<1>2. rows \subseteq 0..Len(b) /\ rows \subseteq 1..Len(b)
  BY <1>1
<1>3. CASE rows = {}
  BY <1>3 DEF ContentLength
<1>4. CASE rows # {}
  <2>1. Max(rows) \in 1..Len(b)
    <3>1. Len(b) \in Nat
      OBVIOUS
    <3>2. Max(rows) \in rows
      BY <1>2, <1>4, <3>1, GreatestOf
    <3>. QED
      BY <1>2, <3>2
  <2>2. b[Max(rows)] \in Units
    BY <2>1
  <2>. QED
    BY <1>4, <2>2 DEF ContentLength, Units
<1>. QED
  BY <1>3, <1>4

\* The rows of a header are units again, and so is what is behind it.
LEMMA HeaderTyped ==
  ASSUME NEW b \in Seq(Units), HasRow(b), HeaderEnd(b) # 0, request \in Seq(Units)
  PROVE  /\ WithHeader(b) \in Seq(Units) /\ AfterHeader(b) \in Seq(Units)
         /\ Len(AfterHeader(b)) <= Len(b)
<1>. DEFINE m == Min(RowEnds(b))
            h == HeaderEnd(b)
<1>1. m \in 1..Len(b) /\ h \in 1..Len(b) /\ h > m
  BY RowAtHead, HeaderIn
<1>2. AfterHeader(b) \in Seq(Units) /\ Len(AfterHeader(b)) = Len(b) - h
  <2>1. h \in 0..Len(b)
    BY <1>1
  <2>. QED
    BY <2>1, Cuts DEF AfterHeader
<1>3. SubSeq(b, m + 1, h) \in Seq(Units)
  <2>1. \A i \in m + 1..h : b[i] \in Units
    BY <1>1
  <2>. QED
    BY <1>1, <2>1, SubSeqProperties
<1>4. Len(AfterHeader(b)) <= Len(b)
  <2>1. Len(b) \in Nat
    OBVIOUS
  <2>. QED
    BY <1>1, <1>2, <2>1
<1>. QED
  BY <1>2, <1>3, <1>4 DEF WithHeader

-----------------------------------------------------------------------------
(* Types.                                                                  *)

\* A causes entry is one of the seven.
LEMMA BlameTyped ==
  ASSUME NEW c \in Causes, NEW happened
  PROVE  Blame(c, happened) \subseteq Causes
BY DEF Blame

\* The header and the body that a Pier composes.
LEMMA ComposedTyped ==
  ASSUME NEW r \in Reqs, NEW b \in Bodies
  PROVE  Header(r, b) \in Seq(Units) /\ Body(r, b) \in Seq(Units)
<1>1. b \in Seq({"body", "zero"})
  BY ConstantsAssumption
<1>2. Body(r, b) \in Seq(Units)
  <2>1. \A i \in DOMAIN b : b[i] \in {"body", "zero"} /\ i \in Nat
    BY <1>1
  <2>2. \A i \in DOMAIN b : Unit(b[i], r, i) \in Units
    BY <2>1 DEF Unit, Units, Kinds
  <2>. QED
    BY <1>1, <2>2 DEF Body
<1>3. Header(r, b) \in Seq(Units)
  <2>1. /\ Unit("line", r, 0) \in Units /\ Unit("clen", r, Len(b)) \in Units
        /\ Unit("blank", r, 0) \in Units
    BY <1>1 DEF Unit, Units, Kinds, Newline
  <2>. QED
    BY <2>1 DEF Header
<1>. QED
  BY <1>2, <1>3

\* What is left of a unit is a unit.
LEMMA RestTyped ==
  ASSUME NEW u \in Units
  PROVE  Rest(u) \in Units
BY DEF Rest, Unit, Units, Kinds, Newline

\* So is what is behind bytes that were thrown away.
LEMMA BehindTyped ==
  ASSUME NEW w \in Seq(Units), NEW thrown, NEW v \in Behind(w, thrown)
  PROVE  v \in Seq(Units)
<1>1. CASE v = w
  BY <1>1
<1>2. CASE v # w
  <2>1. w # <<>> /\ v = <<Rest(w[1])>> \o Tail(w)
    BY <1>2 DEF Behind
  <2>2. w[1] \in Units /\ Tail(w) \in Seq(Units)
    BY <2>1
  <2>3. Rest(w[1]) \in Units
    BY <2>2, RestTyped
  <2>. QED
    BY <2>1, <2>2, <2>3
<1>. QED
  BY <1>1, <1>2

\* The units of a body at the head of b are among its first len.
LEMMA OwnBound ==
  ASSUME NEW req, NEW len \in Nat, NEW b \in Seq(Units)
  PROVE  OwnUnits(req, len, b) \in 0..Smaller(len, Len(b))
<1>. DEFINE T == {n \in 0..Smaller(len, Len(b)) :
                    \A i \in 1..n : \E k \in {"body", "zero"} : b[i] = Unit(k, Announced(req), i)}
<1>1. Smaller(len, Len(b)) \in Nat
  BY DEF Smaller
<1>2. 0 \in T
  BY <1>1
<1>3. T \subseteq 0..Smaller(len, Len(b)) /\ T # {}
  BY <1>2
<1>. HIDE DEF T
<1>4. Max(T) \in T
  BY <1>1, <1>3, GreatestOf
<1>5. OwnUnits(req, len, b) = Max(T)
  BY DEF OwnUnits, T
<1>. QED
  BY <1>3, <1>4, <1>5

\* A cut leaves two sequences of units, the second no longer than what was cut.
LEMMA CutTyped ==
  ASSUME NEW req, NEW len \in Nat, NEW b \in Seq(Units), NEW cut \in BodyCuts(req, len, b)
  PROVE  cut[1] \in Seq(Units) /\ cut[2] \in Seq(Units) /\ Len(cut[2]) <= Len(b)
<1>1. PICK own \in 0..Len(b) : own = OwnUnits(req, len, b)
  BY OwnBound DEF Smaller
<1>2. CASE \E n \in 0..Len(b) : cut = <<Prefix(b, n), Suffix(b, n)>>
  <2>1. PICK n \in 0..Len(b) : cut = <<Prefix(b, n), Suffix(b, n)>>
    BY <1>2
  <2>2. /\ Prefix(b, n) \in Seq(Units) /\ Suffix(b, n) \in Seq(Units)
        /\ Len(Suffix(b, n)) = Len(b) - n
    BY Cuts
  <2>. QED
    BY <2>1, <2>2
<1>3. CASE \E j \in 1..Len(b) :
             cut = <<Append(Prefix(b, j - 1), Unit("junk", None, 0)), <<Rest(b[j])>> \o Suffix(b, j)>>
  <2>1. PICK j \in 1..Len(b) :
          cut = <<Append(Prefix(b, j - 1), Unit("junk", None, 0)), <<Rest(b[j])>> \o Suffix(b, j)>>
    BY <1>3
  <2>2. j \in 0..Len(b) /\ j - 1 \in 0..Len(b) /\ b[j] \in Units
    OBVIOUS
  <2>3. Prefix(b, j - 1) \in Seq(Units)
    BY <2>2, Cuts
  <2>4. Suffix(b, j) \in Seq(Units) /\ Len(Suffix(b, j)) = Len(b) - j
    BY <2>2, Cuts
  <2>5. Unit("junk", None, 0) \in Units
    BY DEF Unit, Units, Kinds
  <2>6. Rest(b[j]) \in Units
    BY <2>2, RestTyped
  <2>7. Append(Prefix(b, j - 1), Unit("junk", None, 0)) \in Seq(Units)
    BY <2>3, <2>5
  <2>8. PICK z : z = Suffix(b, j)
    OBVIOUS
  <2>9. /\ <<Rest(b[j])>> \o z \in Seq(Units)
        /\ Len(<<Rest(b[j])>> \o z) = 1 + Len(z)
    BY <2>4, <2>6, <2>8
  <2>10. 1 + Len(z) <= Len(b)
    BY <2>4, <2>8
  <2>. QED
    BY <2>1, <2>7, <2>8, <2>9, <2>10
<1>4. own = len => len \in 0..Len(b)
  OBVIOUS
<1>5. \A j \in own + 1..Len(b) : j \in 0..Len(b) /\ j \in 1..Len(b)
  OBVIOUS
<1>. QED
  BY <1>1, <1>2, <1>3, <1>4, <1>5 DEF BodyCuts

\* A pid is that of a request, none, or a stray number.
LEMMA AtoITyped ==
  ASSUME NEW b \in Seq(Units), HasRow(b), NEW p \in AtoI(Row(b))
  PROVE  p \in Reqs \cup {None, Stray}
<1>1. Row(b) \in Seq(Units) /\ Len(Row(b)) \in 1..Len(b)
  BY RowAtHead
<1>2. Row(b)[Len(Row(b))] \in Units
  BY <1>1
<1>. QED
  BY <1>2 DEF AtoI, Units

\* What a chunk leaves of the parser.
ParserTyped ==
  /\ buf' \in Seq(Units) /\ request' \in Seq(Units) /\ in_data' \in BOOLEAN
  /\ children' \in Seq([pid : Reqs \cup {Stray}, req : Seq(Units)])
  /\ faults' \in 0..MaxFaults

\* The body's part of getConnectionRequest.
LEMMA BodyTyped ==
  ASSUME TypeOK, NEW p \in Reqs \cup {None, Stray}, NEW req \in Seq(Units), NEW len \in Nat,
         NEW b \in Seq(Units), ParsesBody(p, req, len, b)
  PROVE  ParserTyped /\ Len(buf') <= Len(b)
<1>1. ASSUME NEW q \in Seq(Units), Keeps(q)
      PROVE  /\ request' \in Seq(Units) /\ faults' \in 0..MaxFaults
             /\ children' \in Seq([pid : Reqs \cup {Stray}, req : Seq(Units)])
  BY <1>1 DEF Keeps, TypeOK
<1>2. CASE buf' = b /\ in_data' = TRUE /\ Keeps(req)
  <2>1. /\ request' \in Seq(Units) /\ faults' \in 0..MaxFaults
        /\ children' \in Seq([pid : Reqs \cup {Stray}, req : Seq(Units)])
    BY <1>1, <1>2
  <2>2. Len(b) <= Len(b)
    OBVIOUS
  <2>3. buf' \in Seq(Units) /\ in_data' \in BOOLEAN /\ Len(buf') <= Len(b)
    BY <1>2, <2>2
  <2>. QED
    BY <2>1, <2>3 DEF ParserTyped
<1>3. ASSUME NEW cut \in BodyCuts(req, len, b), TakesBody(p, req \o cut[1], cut[2])
      PROVE  ParserTyped /\ Len(buf') <= Len(b)
  <2>1. cut[1] \in Seq(Units) /\ cut[2] \in Seq(Units) /\ Len(cut[2]) <= Len(b)
    BY CutTyped
  <2>2. PICK q \in Seq(Units) : q = req \o cut[1]
    <3>1. \A t \in Seq(Units) : req \o t \in Seq(Units)
      OBVIOUS
    <3>. QED
      BY <2>1, <3>1
  <2>3. buf' = cut[2] /\ in_data' = FALSE /\ IF p # None THEN Forks(p, q) ELSE Keeps(q)
    BY <1>3, <2>2 DEF TakesBody
  <2>4. CASE p # None
    <3>1. p \in Reqs \cup {Stray} /\ Forks(p, q)
      BY <2>3, <2>4
    <3>2. request' = <<>> /\ request' \in Seq(Units)
      BY <3>1 DEF Forks
    <3>3. children' \in Seq([pid : Reqs \cup {Stray}, req : Seq(Units)])
      <4>1. [pid |-> p, req |-> q] \in [pid : Reqs \cup {Stray}, req : Seq(Units)]
        BY <3>1
      <4>2. children \in Seq([pid : Reqs \cup {Stray}, req : Seq(Units)])
        BY DEF TypeOK
      <4>3. children' = children \/ children' = Append(children, [pid |-> p, req |-> q])
        BY <3>1 DEF Forks
      <4>4. \A x \in [pid : Reqs \cup {Stray}, req : Seq(Units)] :
              Append(children, x) \in Seq([pid : Reqs \cup {Stray}, req : Seq(Units)])
        BY <4>2, AppendProperties
      <4>. QED
        BY <4>1, <4>2, <4>3, <4>4
    <3>4. faults' \in 0..MaxFaults
      <4>1. faults \in 0..MaxFaults /\ MaxFaults \in Nat
        BY ConstantsAssumption DEF TypeOK
      <4>2. faults' = faults \/ (faults < MaxFaults /\ faults' = faults + 1)
        BY <3>1 DEF Forks
      <4>. QED
        BY <4>1, <4>2
    <3>. QED
      BY <2>1, <2>3, <3>2, <3>3, <3>4 DEF ParserTyped
  <2>5. CASE p = None
    BY <1>1, <2>1, <2>3, <2>5 DEF ParserTyped
  <2>. QED
    BY <2>4, <2>5
<1>. QED
  BY <1>2, <1>3 DEF ParsesBody

\* Chunk(), whatever it finds in the buffer.
LEMMA ChunkTyped ==
  ASSUME TypeOK, NEW data \in Seq(Units), NEW next \in Modes \cup Exits, Chunk(data, next)
  PROVE  /\ ParserTyped /\ pid' \in Reqs \cup {None, Stray} /\ content_len' \in Nat
         /\ mode' \in Modes \cup Exits
         /\ mode' \notin {"noPid", "noHeader"} => Len(buf') <= Len(buf \o data)
<1>1. PICK b \in Seq(Units) : b = buf \o data
  <2>1. buf \in Seq(Units)
    BY DEF TypeOK
  <2>2. buf \o data \in Seq(Units)
    BY <2>1
  <2>. QED
    BY <2>2
<1>2. CASE in_data
  <2>1. ParsesBody(pid, request, content_len, b) /\ mode' = next /\ UNCHANGED <<pid, content_len>>
    BY <1>1, <1>2 DEF Chunk
  <2>2. pid \in Reqs \cup {None, Stray} /\ request \in Seq(Units) /\ content_len \in Nat
    BY DEF TypeOK
  <2>. QED
    BY <1>1, <2>1, <2>2, BodyTyped
<1>3. CASE ~in_data /\ (RowEnds(b) = {} \/ HeaderEnd(b) = 0)
  <2>1. /\ mode' \in {"noPid", "noHeader"}
        /\ UNCHANGED <<buf, request, parser, children, faults>>
    BY <1>1, <1>3 DEF Chunk
  <2>2. mode' \in Modes \cup Exits
    BY <2>1 DEF Exits
  <2>. QED
    BY <2>1, <2>2 DEF TypeOK, ParserTyped, parser
<1>4. CASE ~in_data /\ ~(RowEnds(b) = {} \/ HeaderEnd(b) = 0)
  <2>1. /\ pid' \in AtoI(Row(b)) /\ content_len' = ContentLength(b) /\ mode' = next
        /\ ParsesBody(pid', WithHeader(b), content_len', AfterHeader(b))
    BY <1>1, <1>4 DEF Chunk
  <2>2. HasRow(b) /\ HeaderEnd(b) # 0 /\ request \in Seq(Units)
    BY <1>4 DEF HasRow, TypeOK
  <2>3. PICK p \in Reqs \cup {None, Stray} : p = pid'
    BY <2>1, <2>2, AtoITyped
  <2>4. PICK len \in Nat : len = content_len'
    BY <2>1, <2>2, ContentLengthIsNat
  <2>5. AfterHeader(b) \in Seq(Units) /\ WithHeader(b) \in Seq(Units) /\ Len(AfterHeader(b)) <= Len(b)
    BY <2>2, HeaderTyped
  <2>6. ParsesBody(p, WithHeader(b), len, AfterHeader(b))
    BY <2>1, <2>3, <2>4
  <2>7. ParserTyped /\ Len(buf') <= Len(AfterHeader(b))
    BY <2>5, <2>6, BodyTyped
  <2>8. Len(buf') <= Len(b)
    <3>1. Len(buf') \in Nat /\ Len(b) \in Nat /\ Len(AfterHeader(b)) \in Nat
      BY <2>5, <2>7 DEF ParserTyped
    <3>. QED
      BY <2>5, <2>7, <3>1
  <2>. QED
    BY <1>1, <2>1, <2>3, <2>4, <2>7, <2>8
<1>. QED
  BY <1>2, <1>3, <1>4

\* Every step keeps the types.
LEMMA ServerTyped ==
  ASSUME TypeOK,
         \/ \E r \in Reqs, b \in Bodies : PierStarts(r, b)
         \/ PierWrites \/ PierEnds \/ PierDies \/ PingWrites \/ FramesChunk \/ ConnectionEnds
  PROVE  TypeOK'
<1>1. ASSUME NEW r \in Reqs, NEW b \in Bodies, PierStarts(r, b)
      PROVE  TypeOK'
  <2>1. PICK h, t \in Seq(Units) : h = Header(r, b) /\ t = Body(r, b)
    BY ComposedTyped
  <2>2. PICK p : p = <<Unit("pid", r, 0)>>
    OBVIOUS
  <2>3. p \in Seq(Units)
    BY <2>2 DEF Unit, Units, Kinds, Newline
  <2>4. /\ asked' = [asked EXCEPT ![r] = h \o t] /\ feed' = (feed \o p) \o h /\ left' = t /\ cur' = r
        /\ UNCHANGED <<wire, eof, mode, size, sbuf, buf, request, parser, children, causes, faults,
                       pings>>
    BY <1>1, <2>1, <2>2 DEF PierStarts
  <2>5. h \o t \in Seq(Units) /\ (feed \o p) \o h \in Seq(Units)
    BY <2>1, <2>3 DEF TypeOK
  <2>. QED
    BY <2>1, <2>4, <2>5 DEF TypeOK, parser
<1>2. CASE PierWrites
  <2>1. Head(left) \in Units /\ Tail(left) \in Seq(Units)
    BY <1>2 DEF PierWrites, TypeOK
  <2>2. Append(feed, Head(left)) \in Seq(Units)
    BY <2>1 DEF TypeOK
  <2>. QED
    BY <1>2, <2>1, <2>2 DEF PierWrites, TypeOK, parser
<1>3. CASE PierEnds
  BY <1>3 DEF PierEnds, TypeOK, parser
<1>4. CASE PierDies
  <2>1. Blame("torn", left # <<>>) \subseteq Causes
    BY BlameTyped DEF Causes
  <2>2. faults' \in 0..MaxFaults
    BY <1>4, ConstantsAssumption DEF TypeOK, PierDies
  <2>3. left' \in Seq(Units)
    BY <1>4 DEF PierDies
  <2>. QED
    BY <1>4, <2>1, <2>2, <2>3 DEF PierDies, TypeOK, parser
<1>5. CASE PingWrites
  <2>1. feed' \in Seq(Units)
    BY <1>5 DEF PingWrites, Ping, Unit, Units, Kinds
  <2>2. pings' \in 0..MaxPings
    BY <1>5, ConstantsAssumption DEF TypeOK, PingWrites
  <2>. QED
    BY <1>5, <2>1, <2>2 DEF PingWrites, TypeOK, parser
<1>6. CASE FramesChunk
  <2>1. PICK n : n = Smaller(Len(feed), MaxBlock)
    OBVIOUS
  <2>2. n \in 0..Len(feed) /\ n \in Nat
    BY <2>1, ConstantsAssumption DEF TypeOK, Smaller
  <2>3. Prefix(feed, n) \in Seq(Units) /\ Suffix(feed, n) \in Seq(Units)
    BY <2>2, Cuts DEF TypeOK
  <2>4. PICK a, z \in Seq(Units) : a = <<Unit("size", None, n)>> /\ z = <<Crlf>>
    <3>1. Unit("size", None, n) \in Units /\ Crlf \in Units
      BY <2>2 DEF Crlf, Unit, Units, Kinds, Newline
    <3>2. <<Unit("size", None, n)>> \in Seq(Units) /\ <<Crlf>> \in Seq(Units)
      BY <3>1
    <3>. QED
      BY <3>2
  <2>5. wire' = ((wire \o a) \o Prefix(feed, n)) \o z /\ feed' = Suffix(feed, n)
    BY <1>6, <2>1, <2>4 DEF FramesChunk
  <2>6. wire' \in Seq(Units)
    BY <2>3, <2>4, <2>5 DEF TypeOK
  <2>7. causes' \subseteq Causes
    <3>1. Blame("split", feed[n].k \in {"pid", "line", "clen"}) \subseteq Causes
      BY BlameTyped DEF Causes
    <3>. QED
      BY <1>6, <2>1, <3>1 DEF FramesChunk, TypeOK
  <2>. QED
    BY <1>6, <2>3, <2>5, <2>6, <2>7 DEF FramesChunk, TypeOK, parser
<1>7. CASE ConnectionEnds
  <2>1. PICK n \in 0..Len(wire) :
          wire' = Prefix(wire, n) /\ causes' = causes \cup Blame("lost", Matters(Suffix(wire, n)))
    BY <1>7 DEF ConnectionEnds
  <2>2. wire' \in Seq(Units)
    BY <2>1, Cuts DEF TypeOK
  <2>3. Blame("lost", Matters(Suffix(wire, n))) \subseteq Causes
    BY BlameTyped DEF Causes
  <2>4. faults' \in 0..MaxFaults
    BY <1>7, ConstantsAssumption DEF TypeOK, ConnectionEnds
  <2>. QED
    BY <1>7, <2>1, <2>2, <2>3, <2>4 DEF ConnectionEnds, TypeOK, parser, server
<1>. QED
  BY <1>1, <1>2, <1>3, <1>4, <1>5, <1>6, <1>7

\* A read moves units from the wire to the socket's buffer.
LEMMA ReadTyped ==
  ASSUME TypeOK, NEW most \in Nat, NEW read \in Increased(sbuf, wire, most)
  PROVE  read[1] \in Seq(Units) /\ read[2] \in Seq(Units)
<1>1. PICK n \in 1..Smaller(most, Len(wire)) : read = <<sbuf \o Prefix(wire, n), Suffix(wire, n)>>
  BY DEF Increased
<1>2. n \in 0..Len(wire)
  <2>1. Len(wire) \in Nat
    BY DEF TypeOK
  <2>. QED
    BY <2>1 DEF Smaller
<1>3. Prefix(wire, n) \in Seq(Units) /\ Suffix(wire, n) \in Seq(Units)
  BY <1>2, Cuts DEF TypeOK
<1>4. sbuf \o Prefix(wire, n) \in Seq(Units)
  BY <1>3 DEF TypeOK
<1>. QED
  BY <1>1, <1>3, <1>4

LEMMA ReaderTyped ==
  ASSUME TypeOK,
         Connects \/ ReadsForRow \/ NoMoreRows \/ SkipsBlankRow \/ TakesSize \/ ReadsForChunk
  PROVE  TypeOK'
<1>1. CASE Connects
  <2>1. \A S : <<>> \in Seq(S)
    OBVIOUS
  <2>. QED
    BY <1>1, <2>1 DEF Connects, TypeOK, parser, server, Modes
<1>2. CASE ReadsForRow
  <2>1. PICK read \in Increased(sbuf, wire, RowRead) : sbuf' = read[1] /\ wire' = read[2]
    BY <1>2 DEF ReadsForRow
  <2>2. sbuf' \in Seq(Units) /\ wire' \in Seq(Units)
    BY <2>1, ReadTyped, ConstantsAssumption
  <2>. QED
    BY <1>2, <2>2 DEF ReadsForRow, TypeOK, parser, server
<1>3. CASE NoMoreRows
  <2>1. Loses(sbuf, buf) \subseteq Causes
    BY BlameTyped DEF Loses, Causes
  <2>. QED
    BY <1>3, <2>1 DEF NoMoreRows, TypeOK, parser, server, Modes
<1>4. CASE SkipsBlankRow
  <2>1. sbuf # <<>> /\ sbuf' = Tail(sbuf)
    BY <1>4 DEF SkipsBlankRow, BlankFirst, HasRow, RowEnds
  <2>2. sbuf' \in Seq(Units)
    BY <2>1 DEF TypeOK
  <2>. QED
    BY <1>4, <2>2 DEF SkipsBlankRow, TypeOK, parser, server
<1>5. CASE TakesSize
  <2>1. sbuf \in Seq(Units) /\ HasRow(sbuf)
    BY <1>5 DEF TakesSize, TypeOK
  <2>2. Len(Row(sbuf)) \in 1..Len(sbuf) /\ Row(sbuf) \in Seq(Units)
    BY <2>1, RowAtHead
  <2>3. Row(sbuf)[Len(Row(sbuf))] \in Units
    BY <2>2
  <2>4. size' \in Nat
    BY <1>5, <2>3, ConstantsAssumption DEF TakesSize, StrToL, Units
  <2>5. sbuf' \in Seq(Units)
    <3>1. Len(Row(sbuf)) \in 0..Len(sbuf)
      BY <2>2
    <3>. QED
      BY <1>5, <2>1, <3>1, Cuts DEF TakesSize
  <2>6. causes' \subseteq Causes
    <3>1. Loses(sbuf' \o wire, buf) \subseteq Causes
      BY BlameTyped DEF Loses, Causes
    <3>. QED
      BY <1>5, <3>1 DEF TakesSize, TypeOK
  <2>7. mode' \in Modes \cup Exits
    BY <1>5 DEF TakesSize, Modes
  <2>. QED
    BY <1>5, <2>4, <2>5, <2>6, <2>7 DEF TakesSize, TypeOK, parser, server
<1>6. CASE ReadsForChunk
  <2>1. PICK read \in Increased(sbuf, wire, size - Len(sbuf)) : sbuf' = read[1] /\ wire' = read[2]
    BY <1>6 DEF ReadsForChunk
  <2>2. size - Len(sbuf) \in Nat
    BY <1>6 DEF ReadsForChunk, TypeOK
  <2>3. sbuf' \in Seq(Units) /\ wire' \in Seq(Units)
    BY <2>1, <2>2, ReadTyped
  <2>. QED
    BY <1>6, <2>3 DEF ReadsForChunk, TypeOK, parser, server
<1>. QED
  BY <1>1, <1>2, <1>3, <1>4, <1>5, <1>6

LEMMA ChunksTyped ==
  ASSUME TypeOK, SkipsPing \/ TakesChunk \/ UsesFreedRow
  PROVE  TypeOK'
<1>1. \A S : <<>> \in Seq(S)
  OBVIOUS
<1>2. CASE SkipsPing
  <2>1. wire' \in Seq(Units)
    BY <1>2, BehindTyped DEF SkipsPing, TypeOK
  <2>2. causes' \subseteq Causes
    BY <1>2, BlameTyped DEF SkipsPing, Causes, TypeOK
  <2>. QED
    BY <1>1, <1>2, <2>1, <2>2 DEF SkipsPing, TypeOK, parser, server, Modes
<1>3. CASE TakesChunk
  <2>1. wire' \in Seq(Units)
    BY <1>3, BehindTyped DEF TakesChunk, TypeOK
  <2>2. causes' \subseteq Causes
    BY <1>3, BlameTyped DEF TakesChunk, Causes, TypeOK
  <2>3. PICK d : d = Block(sbuf, size)
    OBVIOUS
  <2>4. size \in 0..Len(sbuf)
    BY <1>3 DEF TakesChunk, TypeOK
  <2>5. d \in Seq(Units)
    BY <2>3, <2>4, Cuts DEF Block, TypeOK
  <2>6. Chunk(d, "row") /\ "row" \in Modes \cup Exits
    BY <1>3, <2>3 DEF TakesChunk, Modes
  <2>7. /\ ParserTyped /\ pid' \in Reqs \cup {None, Stray} /\ content_len' \in Nat
        /\ mode' \in Modes \cup Exits
    BY <2>5, <2>6, ChunkTyped
  <2>8. sbuf' = <<>> /\ UNCHANGED <<server, eof, size, pings>>
    BY <1>3 DEF TakesChunk
  <2>. QED
    BY <1>1, <2>1, <2>2, <2>7, <2>8 DEF ParserTyped, TypeOK, server
<1>4. CASE UsesFreedRow
  <2>1. causes' \subseteq Causes
    BY <1>4, BlameTyped DEF UsesFreedRow, Causes, TypeOK
  <2>2. sbuf' = <<>> /\ UNCHANGED <<server, wire, eof, size, pings>>
    BY <1>4 DEF UsesFreedRow
  <2>3. CASE mode' \in {"abort", "down"} /\ UNCHANGED <<buf, request, parser, children, faults>>
    BY <1>1, <2>1, <2>2, <2>3 DEF TypeOK, parser, server, Modes, Exits
  <2>4. ASSUME NEW data \in [1..size -> Heap], NEW next \in {"abort", "down"}, Chunk(data, next)
        PROVE  TypeOK'
    <3>1. data \in Seq(Units)
      <4>1. Heap \subseteq Units
        BY DEF Heap, Unit, Units, Kinds, Newline
      <4>2. size \in Nat
        BY DEF TypeOK
      <4>. QED
        BY <4>1, <4>2
    <3>2. next \in Modes \cup Exits
      BY DEF Modes, Exits
    <3>3. /\ ParserTyped /\ pid' \in Reqs \cup {None, Stray} /\ content_len' \in Nat
          /\ mode' \in Modes \cup Exits
      BY <2>4, <3>1, <3>2, ChunkTyped
    <3>. QED
      BY <1>1, <2>1, <2>2, <3>3 DEF ParserTyped, TypeOK, server
  <2>. QED
    BY <1>4, <2>3, <2>4 DEF UsesFreedRow
<1>. QED
  BY <1>2, <1>3, <1>4

LEMMA TypesGo == TypeOK /\ [Next]_vars => TypeOK'
<1>. SUFFICES ASSUME TypeOK, [Next]_vars PROVE TypeOK'
  OBVIOUS
<1>1. CASE UNCHANGED vars
  BY <1>1 DEF TypeOK, vars
<1>. QED
  BY <1>1, ServerTyped, ReaderTyped, ChunksTyped DEF Next, Daemon

LEMMA InitTyped == Init => TypeOK
<1>. SUFFICES ASSUME Init PROVE TypeOK
  OBVIOUS
<1>1. 0 \in 0..MaxFaults /\ 0 \in 0..MaxPings
  BY ConstantsAssumption
<1>2. \A S : <<>> \in Seq(S)
  OBVIOUS
<1>3. [r \in Reqs |-> <<>>] \in [Reqs -> Seq(Units)]
  BY <1>2
<1>. QED
  BY <1>1, <1>2, <1>3 DEF Init, TypeOK, Modes, Causes

\* Every variable of the daemon and of the server keeps its type, whatever is
\* read, lost or parsed.
THEOREM TypeCorrect == Spec => []TypeOK
<1>. QED
  BY InitTyped, TypesGo, PTL DEF Spec

-----------------------------------------------------------------------------
(* Where the pids are.                                                     *)

\* The requests whose pid rows are in s, and that no two of them are the same.
PidRows(s) == {i \in DOMAIN s : s[i].k = "pid"}
Pids(s)    == {s[i].r : i \in PidRows(s)}
Once(s)    == \A i, j \in PidRows(s) : s[i].r = s[j].r => i = j

Asked    == {r \in Reqs : asked[r] # <<>>}
Pending  == IF in_data THEN {pid} \ {None, Stray} ELSE {}
Answered == {children[j].pid : j \in DOMAIN children} \ {Stray}

\* A pid is in one place at a time: in a row on its way, with the parser that
\* waits for the body, or with the child it was handed to.
OnePlace ==
  /\ Once(feed) /\ Once(wire) /\ Once(sbuf) /\ Once(buf)
  /\ Pids(feed) \cap Pids(wire) = {} /\ Pids(feed) \cap Pids(sbuf) = {}
  /\ Pids(feed) \cap Pids(buf) = {} /\ Pids(wire) \cap Pids(sbuf) = {}
  /\ Pids(wire) \cap Pids(buf) = {} /\ Pids(sbuf) \cap Pids(buf) = {}
  /\ Pending \cap Answered = {}
  /\ (Pids(feed) \cup Pids(wire) \cup Pids(sbuf) \cup Pids(buf)) \cap (Pending \cup Answered) = {}

\* No pid is anywhere before its Pier has started.
FromPiers ==
  /\ Pids(left) = {}
  /\ Pids(feed) \cup Pids(wire) \cup Pids(sbuf) \cup Pids(buf) \cup Pending \cup Answered \subseteq Asked

\* No two children answer to the same pid.
Single ==
  \A i, j \in DOMAIN children :
    children[i].pid = children[j].pid /\ children[i].pid # Stray => i = j

Routed == OnePlace /\ FromPiers /\ Single

-----------------------------------------------------------------------------
(* Pid rows in a sequence that is cut or joined.                           *)

\* A cut shares the pids out between its halves.
LEMMA CutPids ==
  ASSUME NEW s \in Seq(Units), NEW n \in 0..Len(s), Once(s)
  PROVE  /\ Prefix(s, n) \in Seq(Units) /\ Suffix(s, n) \in Seq(Units)
         /\ Once(Prefix(s, n)) /\ Once(Suffix(s, n))
         /\ Pids(Prefix(s, n)) \subseteq Pids(s) /\ Pids(Suffix(s, n)) \subseteq Pids(s)
         /\ Pids(Prefix(s, n)) \cap Pids(Suffix(s, n)) = {}
<1>. DEFINE a == Prefix(s, n)
            z == Suffix(s, n)
<1>1. /\ a \in Seq(Units) /\ z \in Seq(Units) /\ Len(a) = n /\ Len(z) = Len(s) - n
      /\ \A i \in 1..n : a[i] = s[i]
      /\ \A i \in 1..Len(s) - n : z[i] = s[n + i]
  BY Cuts
<1>2. DOMAIN s = 1..Len(s) /\ DOMAIN a = 1..n /\ DOMAIN z = 1..Len(s) - n /\ Len(s) \in Nat /\ n \in Nat
  BY <1>1
<1>. HIDE DEF a, z
<1>3. \A i \in PidRows(a) : i \in PidRows(s) /\ i <= n /\ a[i].r = s[i].r
  <2>1. ASSUME NEW i \in PidRows(a)
        PROVE  i \in PidRows(s) /\ i <= n /\ a[i].r = s[i].r
    <3>1. i \in 1..n /\ a[i].k = "pid"
      BY <1>2 DEF PidRows
    <3>2. i \in 1..Len(s) /\ i <= n
      BY <1>2, <3>1
    <3>3. a[i] = s[i]
      BY <1>1, <3>1
    <3>. QED
      BY <1>2, <3>1, <3>2, <3>3 DEF PidRows
  <2>. QED
    BY <2>1
<1>4. \A i \in PidRows(z) : n + i \in PidRows(s) /\ i > 0 /\ i \in Nat /\ z[i].r = s[n + i].r
  <2>1. ASSUME NEW i \in PidRows(z)
        PROVE  n + i \in PidRows(s) /\ i > 0 /\ i \in Nat /\ z[i].r = s[n + i].r
    <3>1. i \in 1..Len(s) - n /\ z[i].k = "pid"
      BY <1>2 DEF PidRows
    <3>2. n + i \in 1..Len(s) /\ i > 0 /\ i \in Nat
      BY <1>2, <3>1
    <3>3. z[i] = s[n + i]
      BY <1>1, <3>1
    <3>. QED
      BY <1>2, <3>1, <3>2, <3>3 DEF PidRows
  <2>. QED
    BY <2>1
<1>5. Once(a)
  BY <1>3 DEF Once
<1>6. Once(z)
  BY <1>2, <1>4 DEF Once
<1>7. Pids(a) \subseteq Pids(s) /\ Pids(z) \subseteq Pids(s)
  BY <1>3, <1>4 DEF Pids
<1>8. \A i \in PidRows(a), j \in PidRows(z) : a[i].r # z[j].r
  BY <1>2, <1>3, <1>4 DEF Once
<1>9. Pids(a) \cap Pids(z) = {}
  BY <1>8 DEF Pids
<1>. QED
  BY <1>1, <1>5, <1>6, <1>7, <1>9 DEF a, z

\* Joining adds them up.
LEMMA JoinPids ==
  ASSUME NEW s \in Seq(Units), NEW t \in Seq(Units)
  PROVE  /\ s \o t \in Seq(Units)
         /\ Pids(s \o t) = Pids(s) \cup Pids(t)
         /\ Once(s) /\ Once(t) /\ Pids(s) \cap Pids(t) = {} => Once(s \o t)
<1>. DEFINE u == s \o t
<1>1. /\ u \in Seq(Units) /\ DOMAIN u = 1..Len(s) + Len(t)
      /\ DOMAIN s = 1..Len(s) /\ DOMAIN t = 1..Len(t) /\ Len(s) \in Nat /\ Len(t) \in Nat
      /\ \A i \in 1..Len(s) : u[i] = s[i]
      /\ \A i \in 1..Len(t) : u[Len(s) + i] = t[i]
  OBVIOUS
<1>. HIDE DEF u
<1>2. \A i \in PidRows(s) : i \in PidRows(u) /\ u[i].r = s[i].r
  BY <1>1 DEF PidRows
<1>3. \A i \in PidRows(t) : Len(s) + i \in PidRows(u) /\ u[Len(s) + i].r = t[i].r
  BY <1>1 DEF PidRows
<1>4. \A i \in PidRows(u) : \/ i \in PidRows(s) /\ u[i].r = s[i].r
                            \/ \E k \in PidRows(t) : i = Len(s) + k /\ u[i].r = t[k].r
  <2>. TAKE i \in PidRows(u)
  <2>1. i \in 1..Len(s) + Len(t) /\ u[i].k = "pid"
    BY <1>1 DEF PidRows
  <2>2. CASE i <= Len(s)
    BY <1>1, <2>1, <2>2 DEF PidRows
  <2>3. CASE ~(i <= Len(s))
    <3>. DEFINE k == i - Len(s)
    <3>1. k \in 1..Len(t) /\ i = Len(s) + k
      BY <1>1, <2>1, <2>3
    <3>2. k \in PidRows(t) /\ u[i].r = t[k].r
      BY <1>1, <2>1, <3>1 DEF PidRows
    <3>. QED
      BY <3>1, <3>2
  <2>. QED
    BY <2>2, <2>3
<1>5. Pids(u) = Pids(s) \cup Pids(t)
  <2>1. Pids(s) \subseteq Pids(u) /\ Pids(t) \subseteq Pids(u)
    BY <1>2, <1>3 DEF Pids
  <2>2. Pids(u) \subseteq Pids(s) \cup Pids(t)
    BY <1>4 DEF Pids
  <2>. QED
    BY <2>1, <2>2
<1>6. ASSUME Once(s), Once(t), Pids(s) \cap Pids(t) = {}
      PROVE  Once(u)
  <2>1. \A i \in PidRows(s), j \in PidRows(t) : s[i].r # t[j].r
    BY <1>6 DEF Pids
  <2>. QED
    BY <1>4, <1>6, <2>1 DEF Once
<1>. QED
  BY <1>1, <1>5, <1>6 DEF u

\* The pid in the first row of b is not behind the header.
LEMMA HeadPid ==
  ASSUME NEW b \in Seq(Units), HasRow(b), HeaderEnd(b) # 0, Once(b),
         b[Min(RowEnds(b))].k = "pid"
  PROVE  LET p == b[Min(RowEnds(b))].r IN p \in Pids(b) /\ p \notin Pids(AfterHeader(b))
<1>. DEFINE m == Min(RowEnds(b))
            h == HeaderEnd(b)
            p == b[m].r
<1>1. m \in 1..Len(b)
  BY RowAtHead
<1>2. h \in 1..Len(b) /\ h > m
  BY HeaderIn
<1>3. m \in PidRows(b)
  BY <1>1 DEF PidRows
<1>4. p \in Pids(Prefix(b, h))
  <2>1. Len(Prefix(b, h)) = h /\ Prefix(b, h) \in Seq(Units) /\ \A i \in 1..h : Prefix(b, h)[i] = b[i]
    <3>1. h \in 0..Len(b)
      BY <1>2
    <3>. QED
      BY <3>1, Cuts
  <2>2. m \in 1..h
    BY <1>1, <1>2
  <2>3. m \in DOMAIN Prefix(b, h) /\ Prefix(b, h)[m] = b[m]
    BY <2>1, <2>2
  <2>4. m \in PidRows(Prefix(b, h))
    BY <2>3 DEF PidRows
  <2>. QED
    BY <2>3, <2>4 DEF Pids
<1>5. p \in Pids(b) /\ p \notin Pids(Suffix(b, h))
  <2>1. h \in 0..Len(b)
    BY <1>2
  <2>. QED
    BY <1>3, <1>4, <2>1, CutPids DEF Pids
<1>. QED
  BY <1>5 DEF AfterHeader

\* What is behind the header has no pids but those of the buffer.
LEMMA HeaderCut ==
  ASSUME NEW b \in Seq(Units), HasRow(b), HeaderEnd(b) # 0, Once(b)
  PROVE  Once(AfterHeader(b)) /\ Pids(AfterHeader(b)) \subseteq Pids(b)
<1>1. HeaderEnd(b) \in 0..Len(b)
  <2>1. HeaderEnd(b) \in 1..Len(b)
    BY HeaderIn
  <2>. QED
    BY <2>1
<1>. QED
  BY <1>1, CutPids DEF AfterHeader

-----------------------------------------------------------------------------
(* One chunk.                                                              *)

\* What getConnectionRequest() does where the buffer has the body and nothing
\* else before it: no byte more or less is taken.
TakesOwn(p, req, len, b) ==
  IF len <= Len(b) THEN TakesBody(p, req \o Prefix(b, len), Suffix(b, len))
  ELSE buf' = b /\ in_data' = TRUE /\ Keeps(req)

\* And what Chunk() does where the first row of the buffer is a pid.
ParsesOwn(b, next) ==
  IF in_data
  THEN TakesOwn(pid, request, content_len, b) /\ mode' = next /\ UNCHANGED <<pid, content_len>>
  ELSE IF RowEnds(b) = {} \/ HeaderEnd(b) = 0
       THEN mode' \in {"noPid", "noHeader"} /\ UNCHANGED <<buf, request, parser, children, faults>>
       ELSE /\ b[Min(RowEnds(b))].k = "pid" /\ pid' = b[Min(RowEnds(b))].r /\ pid' \in Reqs
            /\ content_len' = ContentLength(b) /\ mode' = next
            /\ TakesOwn(pid', WithHeader(b), content_len', AfterHeader(b))

\* What a chunk may do to the pids: those in the buffer, with the parser and
\* with the children afterwards come from the same places or from the chunk,
\* and no pid comes to be in two.
Passes(from) ==
  /\ Once(buf)'
  /\ Pids(buf)' \cup Pending' \cup Answered' \subseteq from
  /\ Pids(buf)' \cap (Pending' \cup Answered') = {}
  /\ Pending' \cap Answered' = {}
  /\ Single'

\* A new child is the only one for its pid.
LEMMA ChildAdded ==
  ASSUME TypeOK, Single, NEW p \in Reqs \cup {Stray}, NEW req, p \notin Answered,
         children' = Append(children, [pid |-> p, req |-> req])
  PROVE  Answered' = Answered \cup ({p} \ {Stray}) /\ Single'
<1>1. PICK n \in Nat : n = Len(children) /\ DOMAIN children = 1..n
  BY DEF TypeOK
<1>2. /\ DOMAIN children' = 1..n + 1
      /\ children'[n + 1].pid = p
      /\ \A j \in 1..n : children'[j] = children[j]
  BY <1>1 DEF TypeOK
<1>3. \A j \in 1..n + 1 : j \in 1..n \/ j = n + 1
  BY <1>1
<1>4. Answered' = Answered \cup ({p} \ {Stray})
  BY <1>1, <1>2, <1>3 DEF Answered
<1>5. \A j \in 1..n : children[j].pid = p => p = Stray
  BY <1>1 DEF Answered
<1>6. Single'
  BY <1>1, <1>2, <1>3, <1>5 DEF Single
<1>. QED
  BY <1>4, <1>6

\* The body's part of getConnectionRequest passes the pid p it has on, to the
\* child or to the next chunk.
LEMMA BodyPasses ==
  ASSUME TypeOK, Single,
         NEW p \in Reqs \cup {None, Stray}, NEW req, NEW len \in Nat,
         NEW b \in Seq(Units), Once(b), pid' = p,
         Pids(b) \cap Answered = {}, p \notin {None, Stray} => p \notin Pids(b) \cup Answered,
         TakesOwn(p, req, len, b)
  PROVE  Passes(Pids(b) \cup Answered \cup ({p} \ {None, Stray}))
<1>. DEFINE from == Pids(b) \cup Answered \cup ({p} \ {None, Stray})
<1>1. CASE len <= Len(b)
  <2>1. buf' = Suffix(b, len) /\ in_data' = FALSE
    BY <1>1 DEF TakesOwn, TakesBody
  <2>2. len \in 0..Len(b)
    BY <1>1
  <2>3. Once(buf)' /\ Pids(buf)' \subseteq Pids(b)
    <3>1. Once(buf)' = Once(Suffix(b, len)) /\ Pids(buf)' = Pids(Suffix(b, len))
      BY <2>1 DEF Once, Pids, PidRows
    <3>. QED
      BY <2>1, <2>2, <3>1, CutPids
  <2>4. Pending' = {}
    BY <2>1 DEF Pending
  <2>5. CASE UNCHANGED children
    <3>1. Answered' = Answered /\ Single'
      BY <2>5 DEF Answered, Single
    <3>. QED
      BY <2>3, <2>4, <3>1 DEF Passes
  <2>6. CASE ~UNCHANGED children
    <3>1. PICK q : q = req \o Prefix(b, len)
      OBVIOUS
    <3>2. p # None /\ children' = Append(children, [pid |-> p, req |-> q])
      BY <1>1, <2>6, <3>1 DEF TakesOwn, TakesBody, Forks, Keeps
    <3>3. p \in Reqs \cup {Stray} /\ p \notin Answered
      BY <3>2 DEF Answered
    <3>4. Answered' = Answered \cup ({p} \ {Stray}) /\ Single'
      BY <3>2, <3>3, ChildAdded
    <3>5. /\ Pids(buf)' \cup Pending' \cup Answered' \subseteq from
          /\ Pids(buf)' \cap (Pending' \cup Answered') = {}
          /\ Pending' \cap Answered' = {}
      BY <2>3, <2>4, <3>2, <3>4
    <3>. QED
      BY <2>3, <3>4, <3>5 DEF Passes
  <2>. QED
    BY <2>5, <2>6
<1>2. CASE ~(len <= Len(b))
  <2>1. buf' = b /\ in_data' = TRUE /\ UNCHANGED children
    BY <1>2 DEF TakesOwn, Keeps
  <2>2. Once(buf)' /\ Pids(buf)' = Pids(b)
    BY <2>1 DEF Once, Pids, PidRows
  <2>3. Pending' = {p} \ {None, Stray}
    BY <2>1 DEF Pending
  <2>4. Answered' = Answered /\ Single'
    BY <2>1 DEF Answered, Single
  <2>. QED
    BY <2>2, <2>3, <2>4 DEF Passes
<1>. QED
  BY <1>1, <1>2

\* Chunk() passes on the pids that the chunk and the parser bring.
LEMMA ChunkPasses ==
  ASSUME TypeOK, Single, Pending \cap Answered = {},
         NEW data \in Seq(Units), NEW next, Once(buf), Once(data),
         Pids(buf) \cap Pids(data) = {},
         (Pids(buf) \cup Pids(data)) \cap (Pending \cup Answered) = {},
         ParsesOwn(buf \o data, next)
  PROVE  Passes(Pids(buf) \cup Pids(data) \cup Pending \cup Answered)
<1>. DEFINE b == buf \o data
<1>1. b \in Seq(Units) /\ Pids(b) = Pids(buf) \cup Pids(data) /\ Once(b)
  BY JoinPids DEF TypeOK
<1>. HIDE DEF b
<1>2. CASE in_data
  <2>1. TakesOwn(pid, request, content_len, b) /\ pid' = pid
    BY <1>2 DEF ParsesOwn, b
  <2>2. Pending = {pid} \ {None, Stray}
    BY <1>2 DEF Pending
  <2>3. pid \in Reqs \cup {None, Stray} /\ content_len \in Nat
    BY DEF TypeOK
  <2>4. /\ Pids(b) \cap Answered = {}
        /\ pid \notin {None, Stray} => pid \notin Pids(b) \cup Answered
    BY <1>1, <2>2
  <2>5. Passes(Pids(b) \cup Answered \cup ({pid} \ {None, Stray}))
    BY <1>1, <2>1, <2>3, <2>4, BodyPasses
  <2>6. Pids(b) \cup Answered \cup ({pid} \ {None, Stray}) = Pids(buf) \cup Pids(data) \cup Pending \cup Answered
    BY <1>1, <2>2
  <2>. QED
    BY <2>5, <2>6
<1>3. CASE ~in_data /\ (RowEnds(b) = {} \/ HeaderEnd(b) = 0)
  <2>1. UNCHANGED <<buf, parser, children>>
    BY <1>3 DEF ParsesOwn, b
  <2>2. Pids(buf)' = Pids(buf) /\ Once(buf)' /\ Pending' = Pending /\ Answered' = Answered /\ Single'
    BY <2>1 DEF Pids, Once, PidRows, Pending, Answered, Single, parser
  <2>. QED
    BY <2>2 DEF Passes
<1>4. CASE ~in_data /\ ~(RowEnds(b) = {} \/ HeaderEnd(b) = 0)
  <2>1. /\ b[Min(RowEnds(b))].k = "pid" /\ pid' = b[Min(RowEnds(b))].r /\ pid' \in Reqs
        /\ content_len' = ContentLength(b)
        /\ TakesOwn(pid', WithHeader(b), content_len', AfterHeader(b))
    BY <1>4 DEF ParsesOwn, b
  <2>2. HasRow(b) /\ HeaderEnd(b) # 0 /\ request \in Seq(Units)
    BY <1>4 DEF HasRow, TypeOK
  <2>3. PICK p \in Reqs : p = pid'
    BY <2>1
  <2>4. PICK len \in Nat : len = content_len'
    BY <1>1, <2>1, <2>2, ContentLengthIsNat
  <2>5. p \in Pids(b) /\ p \notin Pids(AfterHeader(b))
    BY <1>1, <2>1, <2>2, <2>3, HeadPid
  <2>6. Once(AfterHeader(b)) /\ Pids(AfterHeader(b)) \subseteq Pids(b)
    BY <1>1, <2>2, HeaderCut
  <2>7. PICK z \in Seq(Units) : z = AfterHeader(b)
    BY <1>1, <2>2, HeaderTyped
  <2>8. PICK req : req = WithHeader(b)
    OBVIOUS
  <2>9. TakesOwn(p, req, len, z)
    BY <2>1, <2>3, <2>4, <2>7, <2>8
  <2>10. Passes(Pids(z) \cup Answered \cup ({p} \ {None, Stray}))
    BY <1>1, <2>3, <2>5, <2>6, <2>7, <2>9, BodyPasses
  <2>11. Pids(z) \cup Answered \cup ({p} \ {None, Stray})
          \subseteq Pids(buf) \cup Pids(data) \cup Pending \cup Answered
    BY <1>1, <2>5, <2>6, <2>7
  <2>. QED
    BY <2>10, <2>11 DEF Passes
<1>. QED
  BY <1>2, <1>3, <1>4

-----------------------------------------------------------------------------
(* The invariant.                                                          *)

\* A sequence without pid rows.
LEMMA NoPids ==
  ASSUME NEW s, \A i \in DOMAIN s : s[i].k # "pid"
  PROVE  Pids(s) = {} /\ Once(s)
BY DEF Pids, Once, PidRows

\* The bodies are typed units without a pid row, and so is a header.
LEMMA ComposedUnits ==
  ASSUME NEW r \in Reqs, NEW b \in Bodies
  PROVE  /\ Header(r, b) \in Seq(Units) /\ Pids(Header(r, b)) = {} /\ Once(Header(r, b))
         /\ Header(r, b) \o Body(r, b) # <<>>
         /\ Body(r, b) \in Seq(Units) /\ Pids(Body(r, b)) = {}
<1>1. b \in Seq({"body", "zero"})
  BY ConstantsAssumption
<1>2. Body(r, b) \in Seq(Units) /\ \A i \in DOMAIN Body(r, b) : Body(r, b)[i].k # "pid"
  <2>1. \A i \in DOMAIN b : b[i] \in {"body", "zero"} /\ i \in Nat
    BY <1>1
  <2>2. \A i \in DOMAIN b : Unit(b[i], r, i) \in Units /\ Unit(b[i], r, i).k # "pid"
    BY <2>1 DEF Unit, Units, Kinds
  <2>. QED
    BY <1>1, <2>2 DEF Body
<1>3. /\ Header(r, b) \in Seq(Units) /\ Len(Header(r, b)) > 0
      /\ Pids(Header(r, b)) = {} /\ Once(Header(r, b))
  <2>. DEFINE l == <<Unit("line", r, 0)>>
              c == IF b = <<>> THEN <<>> ELSE <<Unit("clen", r, Len(b))>>
              z == <<Unit("blank", r, 0)>>
  <2>1. Len(b) \in Nat
    BY <1>1
  <2>2. /\ Unit("line", r, 0) \in Units /\ Unit("clen", r, Len(b)) \in Units
        /\ Unit("blank", r, 0) \in Units
        /\ Unit("line", r, 0).k = "line" /\ Unit("clen", r, Len(b)).k = "clen"
        /\ Unit("blank", r, 0).k = "blank"
    BY <2>1 DEF Unit, Units, Kinds, Newline
  <2>3. /\ l \in Seq(Units) /\ c \in Seq(Units) /\ z \in Seq(Units) /\ Len(l) = 1
        /\ \A i \in DOMAIN l : l[i].k # "pid"
        /\ \A i \in DOMAIN c : c[i].k # "pid"
        /\ \A i \in DOMAIN z : z[i].k # "pid"
    BY <2>2
  <2>4. Header(r, b) = (l \o c) \o z
    BY DEF Header
  <2>. HIDE DEF l, c, z
  <2>5. /\ Pids(l) = {} /\ Once(l) /\ Pids(c) = {} /\ Once(c) /\ Pids(z) = {} /\ Once(z)
    BY <2>3, NoPids
  <2>6. l \o c \in Seq(Units) /\ Pids(l \o c) = {} /\ Once(l \o c)
    BY <2>3, <2>5, JoinPids
  <2>7. Len((l \o c) \o z) > 0
    BY <2>3, <2>6
  <2>8. /\ (l \o c) \o z \in Seq(Units) /\ Pids((l \o c) \o z) = {} /\ Once((l \o c) \o z)
    <3>. DEFINE m == l \o c
    <3>. HIDE DEF m
    <3>1. m \in Seq(Units) /\ Pids(m) = {} /\ Once(m)
      BY <2>6 DEF m
    <3>2. m \o z \in Seq(Units) /\ Pids(m \o z) = {} /\ Once(m \o z)
      BY <2>3, <2>5, <3>1, JoinPids
    <3>. QED
      BY <3>2 DEF m
  <2>. QED
    BY <2>4, <2>7, <2>8
<1>4. Pids(Body(r, b)) = {}
  BY <1>2, NoPids
<1>5. Header(r, b) \o Body(r, b) # <<>>
  BY <1>2, <1>3
<1>. QED
  BY <1>2, <1>3, <1>4, <1>5

\* The other direction: where there is no pid, every unit is another one.
LEMMA NoPidRows ==
  ASSUME NEW s, Pids(s) = {}
  PROVE  \A i \in DOMAIN s : s[i].k # "pid"
BY DEF Pids, PidRows

\* What the tunnel keeps of a state that a step leaves alone.
LEMMA Kept ==
  ASSUME UNCHANGED <<parser, children>>
  PROVE  Pending' = Pending /\ Answered' = Answered /\ Single' = Single
BY DEF parser, Pending, Answered, Single

\* It holds before the first request.
LEMMA InitRouted == Init => Routed
<1>. SUFFICES ASSUME Init PROVE Routed
  OBVIOUS
<1>1. Pids(<<>>) = {} /\ Once(<<>>)
  BY NoPids
<1>2. Pending = {} /\ Answered = {} /\ Single
  BY DEF Init, Pending, Answered, Single
<1>. QED
  BY <1>1, <1>2 DEF Init, Routed, OnePlace, FromPiers

\* A step that leaves the parser and the children alone keeps the invariant if
\* what is on its way comes from what was.
LEMMA Travels ==
  ASSUME TypeOK, TypeOK', Routed, UNCHANGED <<asked, parser, children>>,
         Pids(left') = {},
         Once(feed') /\ Once(wire') /\ Once(sbuf') /\ Once(buf'),
         /\ Pids(feed') \cap Pids(wire') = {} /\ Pids(feed') \cap Pids(sbuf') = {}
         /\ Pids(feed') \cap Pids(buf') = {} /\ Pids(wire') \cap Pids(sbuf') = {}
         /\ Pids(wire') \cap Pids(buf') = {} /\ Pids(sbuf') \cap Pids(buf') = {},
         Pids(feed') \cup Pids(wire') \cup Pids(sbuf') \cup Pids(buf')
           \subseteq Pids(feed) \cup Pids(wire) \cup Pids(sbuf) \cup Pids(buf)
  PROVE  Routed'
<1>1. Pending' = Pending /\ Answered' = Answered /\ Single' = Single
  BY Kept
<1>2. Asked' = Asked
  BY DEF Asked
<1>3. /\ Once(feed)' = Once(feed') /\ Once(wire)' = Once(wire') /\ Once(sbuf)' = Once(sbuf')
      /\ Once(buf)' = Once(buf') /\ Pids(feed)' = Pids(feed') /\ Pids(wire)' = Pids(wire')
      /\ Pids(sbuf)' = Pids(sbuf') /\ Pids(buf)' = Pids(buf') /\ Pids(left)' = Pids(left')
  BY DEF Once, Pids, PidRows
<1>4. OnePlace'
  BY <1>1, <1>3 DEF Routed, OnePlace
<1>5. FromPiers'
  BY <1>1, <1>2, <1>3 DEF Routed, FromPiers
<1>. QED
  BY <1>1, <1>4, <1>5 DEF Routed

-----------------------------------------------------------------------------
(* Every step keeps it.                                                    *)

\* A Pier that starts brings a pid that is nowhere yet.
LEMMA PierStartsStep ==
  ASSUME TypeOK, TypeOK', Routed, NEW r \in Reqs, NEW b \in Bodies, PierStarts(r, b)
  PROVE  Routed'
<1>. DEFINE h == Header(r, b)
            t == Body(r, b)
            p == <<Unit("pid", r, 0)>>
<1>1. /\ h \in Seq(Units) /\ Pids(h) = {} /\ Once(h) /\ h \o t # <<>>
      /\ t \in Seq(Units) /\ Pids(t) = {}
  BY ComposedUnits
<1>2. p \in Seq(Units) /\ Pids(p) = {r} /\ Once(p)
  <2>1. Unit("pid", r, 0) \in Units /\ Unit("pid", r, 0).k = "pid" /\ Unit("pid", r, 0).r = r
    BY DEF Unit, Units, Kinds, Newline
  <2>2. PidRows(p) = {1}
    BY <2>1 DEF PidRows
  <2>. QED
    BY <2>1, <2>2 DEF Pids, Once
<1>3. asked[r] = <<>> /\ r \notin Asked
  BY DEF PierStarts, Asked
<1>4. /\ asked' = [asked EXCEPT ![r] = h \o t] /\ feed' = feed \o p \o h /\ left' = t /\ cur' = r
      /\ UNCHANGED <<wire, eof, mode, size, sbuf, buf, request, parser, children, causes, faults,
                     pings>>
  BY DEF PierStarts
<1>5. /\ feed \in Seq(Units) /\ Once(feed) /\ asked \in [Reqs -> Seq(Units)]
      /\ r \notin Pids(feed) \cup Pids(wire) \cup Pids(sbuf) \cup Pids(buf) \cup Pending \cup Answered
  BY <1>3 DEF Routed, OnePlace, FromPiers, TypeOK
<1>. HIDE DEF h, t, p
<1>6. feed \o p \in Seq(Units) /\ Pids(feed \o p) = Pids(feed) \cup {r} /\ Once(feed \o p)
  BY <1>2, <1>5, JoinPids
<1>7. feed' \in Seq(Units) /\ Pids(feed)' = Pids(feed) \cup {r} /\ Once(feed)'
  <2>. DEFINE q == feed \o p
  <2>. HIDE DEF q
  <2>1. q \in Seq(Units) /\ Pids(q) = Pids(feed) \cup {r} /\ Once(q)
    BY <1>6 DEF q
  <2>2. q \o h \in Seq(Units) /\ Pids(q \o h) = Pids(feed) \cup {r} /\ Once(q \o h)
    BY <1>1, <2>1, JoinPids
  <2>3. feed' = q \o h
    BY <1>4 DEF q
  <2>. QED
    BY <2>2, <2>3, ZenonT(40) DEF Pids, Once, PidRows
<1>8. /\ Pids(wire)' = Pids(wire) /\ Once(wire)' /\ Pids(sbuf)' = Pids(sbuf) /\ Once(sbuf)'
       /\ Pids(buf)' = Pids(buf) /\ Once(buf)' /\ Pids(left)' = {}
  <2>1. /\ Pids(wire)' = Pids(wire) /\ Once(wire)' = Once(wire)
        /\ Pids(sbuf)' = Pids(sbuf) /\ Once(sbuf)' = Once(sbuf)
        /\ Pids(buf)' = Pids(buf) /\ Once(buf)' = Once(buf)
    BY <1>4 DEF Pids, Once, PidRows
  <2>2. Pids(left)' = Pids(t)
    BY <1>4 DEF Pids, PidRows
  <2>. QED
    BY <1>1, <2>1, <2>2 DEF Routed, OnePlace
<1>9. Pending' = Pending /\ Answered' = Answered /\ Single'
  BY <1>4, Kept DEF Routed
<1>10. OnePlace'
  BY <1>5, <1>7, <1>8, <1>9 DEF Routed, OnePlace
<1>11. Asked' = Asked \cup {r}
  BY <1>1, <1>4, <1>5 DEF Asked
<1>12. FromPiers'
  BY <1>7, <1>8, <1>9, <1>11 DEF Routed, FromPiers
<1>. QED
  BY <1>9, <1>10, <1>12 DEF Routed

\* What it writes of the body holds no pid.
LEMMA PierWritesStep ==
  ASSUME TypeOK, TypeOK', Routed, PierWrites
  PROVE  Routed'
<1>. DEFINE p == <<Head(left)>>
<1>1. left \in Seq(Units) /\ left # <<>> /\ Pids(left) = {} /\ feed \in Seq(Units)
  BY DEF PierWrites, TypeOK, Routed, FromPiers
<1>2. \A i \in DOMAIN left : left[i].k # "pid"
  BY <1>1, NoPidRows
<1>3. p \in Seq(Units) /\ Pids(p) = {} /\ Once(p)
  <2>1. Head(left) = left[1] /\ 1 \in DOMAIN left /\ left[1] \in Units
    BY <1>1
  <2>2. p \in Seq(Units) /\ \A i \in DOMAIN p : p[i].k # "pid"
    BY <1>2, <2>1
  <2>. QED
    BY <2>2, NoPids
<1>4. feed' = feed \o p
  BY <1>1, <1>3 DEF PierWrites
<1>5. left' = Tail(left)
  BY DEF PierWrites
<1>6. feed' \in Seq(Units) /\ Pids(feed') = Pids(feed) /\ Once(feed')
  <2>. HIDE DEF p
  <2>1. Once(feed) /\ Pids(feed) \cap Pids(p) = {}
    BY <1>3 DEF Routed, OnePlace
  <2>2. feed \o p \in Seq(Units) /\ Pids(feed \o p) = Pids(feed) \cup Pids(p) /\ Once(feed \o p)
    BY <1>1, <1>3, <2>1, JoinPids
  <2>3. Pids(feed) \cup Pids(p) = Pids(feed)
    BY <1>3
  <2>. QED
    BY <1>4, <2>2, <2>3
<1>7. left' \in Seq(Units) /\ Pids(left') = {}
  <2>1. left' \in Seq(Units) /\ \A i \in DOMAIN left' : i + 1 \in DOMAIN left /\ left'[i] = left[i + 1]
    BY <1>1, <1>5
  <2>2. \A i \in DOMAIN left' : left'[i].k # "pid"
    BY <1>2, <2>1
  <2>. QED
    BY <2>1, <2>2 DEF Pids, PidRows
<1>8. wire' = wire /\ sbuf' = sbuf /\ buf' = buf /\ UNCHANGED <<asked, parser, children>>
  BY DEF PierWrites
<1>. QED
  BY <1>6, <1>7, <1>8, Travels DEF Routed, OnePlace

\* A step of the daemon or of a Pier that changes nothing on its way.
LEMMA StandsStill ==
  ASSUME TypeOK, TypeOK', Routed, UNCHANGED <<asked, parser, children, feed, wire, sbuf, buf>>, left' \in {left, <<>>}
  PROVE  Routed'
<1>1. Pids(left') = {}
  BY NoPids DEF Routed, FromPiers
<1>2. feed' = feed /\ wire' = wire /\ sbuf' = sbuf /\ buf' = buf /\ UNCHANGED <<asked, parser, children>>
  OBVIOUS
<1>. QED
  BY <1>1, <1>2, Travels DEF Routed, OnePlace

\* The end of a request moves no pid.
LEMMA PierEndsStep ==
  ASSUME TypeOK, TypeOK', Routed, PierEnds
  PROVE  Routed'
BY StandsStill DEF PierEnds

\* A death leaves the rest of a request unwritten, which has no pid row in it.
LEMMA PierDiesStep ==
  ASSUME TypeOK, TypeOK', Routed, PierDies
  PROVE  Routed'
BY StandsStill DEF PierDies

\* A ping holds no pid.
LEMMA PingWritesStep ==
  ASSUME TypeOK, TypeOK', Routed, PingWrites
  PROVE  Routed'
<1>1. Ping \in Units /\ Ping.k = "zero"
  BY DEF Ping, Unit, Units, Kinds
<1>2. feed' = <<Ping>> /\ feed' \in Seq(Units) /\ Pids(feed') = {} /\ Once(feed')
  <2>1. feed' = <<Ping>>
    BY DEF PingWrites
  <2>2. <<Ping>> \in Seq(Units) /\ \A i \in DOMAIN <<Ping>> : <<Ping>>[i].k # "pid"
    BY <1>1
  <2>. QED
    BY <2>1, <2>2, NoPids
<1>3. wire' = wire /\ sbuf' = sbuf /\ buf' = buf /\ left' = left /\ UNCHANGED <<asked, parser, children>>
  BY DEF PingWrites
<1>. QED
  BY <1>2, <1>3, Travels DEF Routed, OnePlace, FromPiers

\* The frame of a chunk holds no pid, and what is in it no longer waits.
LEMMA FramesChunkStep ==
  ASSUME TypeOK, TypeOK', Routed, FramesChunk
  PROVE  Routed'
<1>. DEFINE n == Smaller(Len(feed), MaxBlock)
            a == <<Unit("size", None, n)>>
            d == Prefix(feed, n)
            z == <<Crlf>>
<1>1. feed \in Seq(Units) /\ wire \in Seq(Units) /\ Once(feed) /\ Once(wire) /\ Pids(feed) \cap Pids(wire) = {}
  BY DEF TypeOK, Routed, OnePlace
<1>2. n \in 0..Len(feed) /\ n \in Nat
  BY <1>1, ConstantsAssumption DEF Smaller
<1>3. /\ wire' = ((wire \o a) \o d) \o z /\ feed' = Suffix(feed, n)
      /\ UNCHANGED <<cur, asked, left, eof, mode, size, sbuf, buf, request, parser, children, faults,
                     pings>>
      /\ causes' = causes \cup Blame("split", feed[n].k \in {"pid", "line", "clen"})
  BY DEF FramesChunk
<1>4. /\ d \in Seq(Units) /\ Once(d) /\ Pids(d) \subseteq Pids(feed)
      /\ feed' \in Seq(Units) /\ Once(feed') /\ Pids(feed') \subseteq Pids(feed)
      /\ Pids(d) \cap Pids(feed') = {}
  BY <1>1, <1>2, <1>3, CutPids
<1>5. a \in Seq(Units) /\ Pids(a) = {} /\ Once(a)
  <2>1. Unit("size", None, n) \in Units /\ Unit("size", None, n).k = "size"
    BY <1>2 DEF Unit, Units, Kinds, Newline
  <2>2. a \in Seq(Units) /\ \A i \in DOMAIN a : a[i].k # "pid"
    BY <2>1
  <2>. QED
    BY <2>2, NoPids
<1>6. z \in Seq(Units) /\ Pids(z) = {} /\ Once(z)
  <2>1. Crlf \in Units /\ Crlf.k = "crlf"
    BY DEF Crlf, Unit, Units, Kinds, Newline
  <2>2. z \in Seq(Units) /\ \A i \in DOMAIN z : z[i].k # "pid"
    BY <2>1
  <2>. QED
    BY <2>2, NoPids
<1>. HIDE DEF a, d, z
<1>7. PICK u : u = wire \o a
  OBVIOUS
<1>8. u \in Seq(Units) /\ Pids(u) = Pids(wire) /\ Once(u)
  <2>1. Pids(wire) \cap Pids(a) = {}
    BY <1>5
  <2>2. wire \o a \in Seq(Units) /\ Pids(wire \o a) = Pids(wire) \cup Pids(a) /\ Once(wire \o a)
    BY <1>1, <1>5, <2>1, JoinPids
  <2>3. Pids(wire) \cup Pids(a) = Pids(wire)
    BY <1>5
  <2>. QED
    BY <1>7, <2>2, <2>3
<1>9. PICK v : v = u \o d
  OBVIOUS
<1>10. v \in Seq(Units) /\ Pids(v) = Pids(wire) \cup Pids(d) /\ Once(v)
  <2>1. Pids(u) \cap Pids(d) = {}
    BY <1>1, <1>4, <1>8
  <2>. QED
    BY <1>4, <1>8, <1>9, <2>1, JoinPids
<1>11. wire' = v \o z
  BY <1>3, <1>7, <1>9
<1>12. wire' \in Seq(Units) /\ Pids(wire') = Pids(wire) \cup Pids(d) /\ Once(wire')
  <2>1. v \o z \in Seq(Units) /\ Pids(v \o z) = Pids(wire) \cup Pids(d) /\ Once(v \o z)
    BY <1>6, <1>10, JoinPids
  <2>. QED
    BY <1>11, <2>1
<1>. QED
  BY <1>3, <1>4, <1>12, Travels DEF Routed, OnePlace, FromPiers

\* What the connection loses was on the wire.
LEMMA ConnectionEndsStep ==
  ASSUME TypeOK, TypeOK', Routed, ConnectionEnds
  PROVE  Routed'
<1>1. PICK n \in 0..Len(wire) :
        wire' = Prefix(wire, n) /\ causes' = causes \cup Blame("lost", Matters(Suffix(wire, n)))
  BY DEF ConnectionEnds
<1>2. wire \in Seq(Units) /\ Once(wire)
  BY DEF TypeOK, Routed, OnePlace
<1>3. wire' \in Seq(Units) /\ Once(wire') /\ Pids(wire') \subseteq Pids(wire)
  BY <1>1, <1>2, CutPids
<1>4. feed' = feed /\ sbuf' = sbuf /\ buf' = buf /\ left' = left /\ UNCHANGED <<asked, parser, children>>
  BY DEF ConnectionEnds, server
<1>. QED
  BY <1>3, <1>4, Travels DEF Routed, OnePlace, FromPiers

\* A new connection starts with empty buffers.
LEMMA ConnectsStep ==
  ASSUME TypeOK, TypeOK', Routed, Connects
  PROVE  Routed'
<1>1. /\ wire' = <<>> /\ sbuf' = <<>> /\ buf' = <<>> /\ feed' = feed /\ left' = left
      /\ UNCHANGED <<asked, parser, children>>
  BY DEF Connects, server
<1>2. Pids(<<>>) = {} /\ Once(<<>>)
  BY NoPids
<1>. QED
  BY <1>1, <1>2, Travels DEF Routed, OnePlace, FromPiers

\* A read moves pids from the wire to the socket's buffer.
LEMMA ReadStep ==
  ASSUME TypeOK, TypeOK', Routed, NEW most \in Nat, NEW read \in Increased(sbuf, wire, most),
         sbuf' = read[1] /\ wire' = read[2],
         UNCHANGED <<server, eof, mode, size, buf, request, parser, children, causes, faults, pings>>
  PROVE  Routed'
<1>1. /\ sbuf \in Seq(Units) /\ wire \in Seq(Units) /\ Once(sbuf) /\ Once(wire)
      /\ Pids(wire) \cap Pids(sbuf) = {}
  BY DEF TypeOK, Routed, OnePlace
<1>2. PICK n \in 1..Len(wire) : sbuf' = sbuf \o Prefix(wire, n) /\ wire' = Suffix(wire, n)
  <2>1. Len(wire) \in Nat
    BY <1>1
  <2>2. PICK n \in 1..Smaller(most, Len(wire)) : read = <<sbuf \o Prefix(wire, n), Suffix(wire, n)>>
    BY DEF Increased
  <2>3. n \in 1..Len(wire)
    BY <2>1 DEF Smaller
  <2>. QED
    BY <2>2, <2>3
<1>3. PICK d : d = Prefix(wire, n)
  OBVIOUS
<1>4. /\ d \in Seq(Units) /\ Once(d) /\ Pids(d) \subseteq Pids(wire)
      /\ wire' \in Seq(Units) /\ Once(wire') /\ Pids(wire') \subseteq Pids(wire)
      /\ Pids(d) \cap Pids(wire') = {}
  <2>1. n \in 0..Len(wire)
    OBVIOUS
  <2>. QED
    BY <1>1, <1>2, <1>3, <2>1, CutPids
<1>5. sbuf' \in Seq(Units) /\ Once(sbuf') /\ Pids(sbuf') = Pids(sbuf) \cup Pids(d)
  <2>1. Pids(sbuf) \cap Pids(d) = {}
    BY <1>1, <1>4
  <2>2. sbuf \o d \in Seq(Units) /\ Once(sbuf \o d) /\ Pids(sbuf \o d) = Pids(sbuf) \cup Pids(d)
    BY <1>1, <1>4, <2>1, JoinPids
  <2>. QED
    BY <1>2, <1>3, <2>2
<1>6. feed' = feed /\ buf' = buf /\ left' = left /\ UNCHANGED <<asked, parser, children>>
  BY DEF server
<1>. QED
  BY <1>4, <1>5, <1>6, Travels DEF Routed, OnePlace, FromPiers

\* A row or a size cut from the socket's buffer is gone.
LEMMA CutStep ==
  ASSUME TypeOK, TypeOK', Routed, NEW n \in 0..Len(sbuf), sbuf' \in {Suffix(sbuf, n), <<>>},
         UNCHANGED <<server, wire, buf, parser, children>>
  PROVE  Routed'
<1>1. sbuf \in Seq(Units) /\ Once(sbuf)
  BY DEF TypeOK, Routed, OnePlace
<1>2. sbuf' \in Seq(Units) /\ Once(sbuf') /\ Pids(sbuf') \subseteq Pids(sbuf)
  <2>1. CASE sbuf' = Suffix(sbuf, n)
    BY <1>1, <2>1, CutPids
  <2>2. CASE sbuf' = <<>>
    <3>1. Pids(<<>>) = {} /\ Once(<<>>)
      BY NoPids
    <3>. QED
      BY <2>2, <3>1
  <2>. QED
    BY <2>1, <2>2
<1>3. feed' = feed /\ wire' = wire /\ buf' = buf /\ left' = left /\ UNCHANGED <<asked, parser, children>>
  BY DEF server
<1>. QED
  BY <1>2, <1>3, Travels DEF Routed, OnePlace, FromPiers

\* A read for a row moves units from the wire to soc->buf.
LEMMA ReadsForRowStep ==
  ASSUME TypeOK, TypeOK', Routed, ReadsForRow
  PROVE  Routed'
<1>1. PICK read \in Increased(sbuf, wire, RowRead) : sbuf' = read[1] /\ wire' = read[2]
  BY DEF ReadsForRow
<1>2. RowRead \in Nat
  BY ConstantsAssumption
<1>. QED
  BY <1>1, <1>2, ReadStep DEF ReadsForRow

\* So does a read for the rest of a chunk.
LEMMA ReadsForChunkStep ==
  ASSUME TypeOK, TypeOK', Routed, ReadsForChunk
  PROVE  Routed'
<1>1. PICK read \in Increased(sbuf, wire, size - Len(sbuf)) : sbuf' = read[1] /\ wire' = read[2]
  BY DEF ReadsForChunk
<1>2. size - Len(sbuf) \in Nat
  BY DEF ReadsForChunk, TypeOK
<1>. QED
  BY <1>1, <1>2, ReadStep DEF ReadsForChunk

\* The end of the tunnel moves no pid.
LEMMA NoMoreRowsStep ==
  ASSUME TypeOK, TypeOK', Routed, NoMoreRows
  PROVE  Routed'
<1>1. UNCHANGED <<asked, parser, children, feed, wire, sbuf, buf>> /\ left' \in {left, <<>>}
  BY DEF NoMoreRows, server
<1>. QED
  BY <1>1, StandsStill

\* The blank row behind a chunk has no pid.
LEMMA SkipsBlankRowStep ==
  ASSUME TypeOK, TypeOK', Routed, SkipsBlankRow
  PROVE  Routed'
<1>1. sbuf \in Seq(Units) /\ sbuf # <<>>
  BY DEF SkipsBlankRow, BlankFirst, HasRow, RowEnds, TypeOK
<1>2. 1 \in 0..Len(sbuf) /\ sbuf' = Suffix(sbuf, 1)
  <2>1. Tail(sbuf) = SubSeq(sbuf, 2, Len(sbuf)) /\ Len(sbuf) > 0
    BY <1>1
  <2>. QED
    BY <1>1, <2>1 DEF SkipsBlankRow, Suffix
<1>. QED
  BY <1>2, CutStep DEF SkipsBlankRow

\* Neither has the row of a chunk's size.
LEMMA TakesSizeStep ==
  ASSUME TypeOK, TypeOK', Routed, TakesSize
  PROVE  Routed'
<1>1. sbuf \in Seq(Units) /\ HasRow(sbuf)
  BY DEF TakesSize, TypeOK
<1>2. /\ Len(Row(sbuf)) \in 1..Len(sbuf) /\ Row(sbuf) \in Seq(Units)
      /\ Row(sbuf)[Len(Row(sbuf))] \in Units
  <2>1. Len(Row(sbuf)) \in 1..Len(sbuf) /\ Row(sbuf) \in Seq(Units)
    BY <1>1, RowAtHead
  <2>. QED
    BY <2>1
<1>3. Len(Row(sbuf)) \in 0..Len(sbuf) /\ sbuf' = Suffix(sbuf, Len(Row(sbuf)))
  BY <1>1, <1>2 DEF TakesSize
<1>. QED
  BY <1>3, CutStep DEF TakesSize

\* Where nothing was thrown away, the rows behind are whole.
LEMMA NotThrown ==
  ASSUME Clean', Blame("surplus", Surplus(sbuf, size)) \subseteq causes',
         wire' \in Behind(wire, Surplus(sbuf, size))
  PROVE  wire' = wire
<1>1. "surplus" \notin causes'
  BY DEF Clean
<1>2. ~Surplus(sbuf, size)
  BY <1>1 DEF Blame
<1>. QED
  BY <1>2 DEF Behind

\* Nor has a ping.
LEMMA SkipsPingStep ==
  ASSUME TypeOK, TypeOK', Routed, Clean', SkipsPing
  PROVE  Routed'
<1>1. wire' = wire
  BY NotThrown DEF SkipsPing
<1>2. 0 \in 0..Len(sbuf) /\ sbuf' \in {Suffix(sbuf, 0), <<>>}
  BY DEF SkipsPing, TypeOK
<1>. QED
  BY <1>1, <1>2, CutStep DEF SkipsPing

-----------------------------------------------------------------------------
(* The stream of requests, and where each part of it is.  As long as nothing *)
(* of it was torn, lost, thrown away or taken for a ping, there is a stream  *)
(* V of whole requests and pings, each of which begins at a place in S, such *)
(* that the parser has taken the first a units of it, what the daemon has    *)
(* buffered follows, then what the chunks under way carry, up to d, then     *)
(* what waits for a chunk, then what the Pier has still to write.            *)

\* The frames that the daemon has still to look at.
Flow == sbuf \o wire

\* s is what V holds behind its first k units.
Holds(s, V, k) == \A i \in 1..Len(s) : s[i] = V[k + i]

\* The pid and the request of r are in V from place s on.
Said(V, s, r) ==
  /\ V[s] = Unit("pid", r, 0)
  /\ \A i \in 1..Len(asked[r]) : V[s + i] = asked[r][i]

Serial(V, S) ==
  /\ S \subseteq 1..Len(V) + 1 /\ Len(V) + 1 \in S
  /\ \A j \in 1..Len(V) : V[j].k \notin {"size", "crlf"}
  /\ \A s \in S :
       s <= Len(V) =>
         \/ V[s] = Ping /\ s + 1 \in S
         \/ \E r \in Reqs : asked[r] # <<>> /\ Said(V, s, r) /\ s + Len(asked[r]) + 1 \in S

\* The request of r is a header of h rows and as many units as it says.
Composed(r, h) ==
  /\ h <= Len(asked[r])
  /\ asked[r][1].k = "line" /\ asked[r][h].k = "blank"
  /\ \/ h = 2 /\ Len(asked[r]) = 2
     \/ h = 3 /\ asked[r][2] = Unit("clen", r, Len(asked[r]) - 3)
  /\ \A i \in 1..Len(asked[r]) :
       /\ asked[r][i].r = r
       /\ asked[r][i].k \notin {"pid", "size", "crlf"}
       /\ i > h => \E k \in {"body", "zero"} : asked[r][i] = Unit(k, r, i - h)

\* The parser is between two requests, or behind a header.
Parsed(V, S, a) ==
  IF in_data
  THEN /\ pid \in Reqs /\ asked[pid] # <<>>
       /\ \E h \in {2, 3}, s \in S :
            /\ Composed(pid, h) /\ a = s + h
            /\ Said(V, s, pid) /\ s + Len(asked[pid]) + 1 \in S
            /\ request = Prefix(asked[pid], h)
            /\ content_len = Len(asked[pid]) - h
       /\ Len(buf) < content_len
  ELSE a + 1 \in S /\ request = <<>>

\* What is not framed yet follows d, and ends the stream.
Waits(V, d) ==
  /\ Holds(feed, V, d) /\ Holds(left, V, d + Len(feed))
  /\ d + Len(feed) + Len(left) = Len(V)

Queued(V, a, d) == Holds(buf, V, a) /\ a + Len(buf) <= d /\ Waits(V, d)

\* Behind i frame units comes nothing, or a size; the units that its chunk
\* carries follow the first e of V.
SizeAt(c, d, i, e) ==
  IF i < Len(Flow) THEN Flow[i + 1].k = "size" /\ c[i + 1] = e ELSE d = e

\* A chunk of n units behind the first i carries what V holds behind c[i].
ChunkAt(V, c, d, i, n) ==
  /\ n > 0 /\ i + n <= Len(Flow) /\ c[i] + n <= d
  /\ \A j \in 1..n : Flow[i + j] = V[c[i] + j] /\ Flow[i + j].k \notin {"size", "crlf"}
  /\ ~eof => i + n < Len(Flow)
  /\ i + n < Len(Flow) => Flow[i + n + 1] = Crlf
  /\ SizeAt(c, d, i + n + 1, c[i] + n)
  /\ causes = {} =>
       /\ Flow[i + n].k \notin {"pid", "line", "clen"}
       /\ \A j \in 2..n : Flow[i + j] # Ping

\* Behind the first i a chunk of n units begins.
Opens(i, n) ==
  \/ i \in 1..Len(Flow) /\ Flow[i].k = "size" /\ n = Flow[i].n
  \/ i = 0 /\ mode = "buf" /\ n = size

Chunks(V, c, d) ==
  /\ \A i, n \in Nat : Opens(i, n) => ChunkAt(V, c, d, i, n)
  /\ \A i, j, m, n \in Nat : Opens(i, m) /\ Opens(j, n) /\ i < j => c[i] + m <= c[j]

Starts(c, d, e) ==
  /\ mode = "buf" => c[0] = e
  /\ mode = "row" => \/ SizeAt(c, d, 0, e)
                     \/ Flow # <<>> /\ Flow[1] = Crlf /\ SizeAt(c, d, 1, e)

Fits(V, S, a, d, c) ==
  /\ Serial(V, S)
  /\ Parsed(V, S, a)
  /\ \A j \in a + 1..Len(V) : V[j] = Ping => j \in S
  /\ causes = {} /\ ~in_data => buf = <<>>
  /\ Queued(V, a, d)
  /\ IF mode = "down"
     THEN buf = <<>> /\ ~in_data /\ a = d
     ELSE Chunks(V, c, d) /\ Starts(c, d, a + Len(buf))

Steady ==
  /\ cur = None => left = <<>>
  /\ \A j \in 1..Len(left) : left[j] # Ping
  /\ \A j \in 2..Len(feed) : feed[j] # Ping
  /\ \A r \in Reqs : asked[r] # <<>> => \E h \in {2, 3} : Composed(r, h)

Runs ==
  Clean /\ mode \in Modes =>
    \E V \in Seq(Units), S \in SUBSET Nat, a, d \in Nat, c \in [Nat -> Nat] : Fits(V, S, a, d, c)

Streams == Steady /\ Runs /\ OwnRequest /\ StaysUp

IInv == TypeOK /\ (Clean => Routed)

SInv == IInv /\ Streams

-----------------------------------------------------------------------------
(* What the stream says where.                                               *)

\* What a request that was asked for is made of.
AskedWell(r, h) ==
  /\ asked[r] \in Seq(Units) /\ Len(asked[r]) \in Nat /\ h <= Len(asked[r]) /\ asked[r] # <<>>
  /\ \A i \in 1..Len(asked[r]) :
       /\ asked[r][i] \in Units /\ asked[r][i] # Ping
       /\ asked[r][i].k \notin {"pid", "size", "crlf"}
  /\ \A i \in 1..h : asked[r][i].k \in Newline
  /\ \A i \in 1..h - 1 : asked[r][i].k \in {"line", "clen"}
  /\ asked[r][h].k = "blank"

\* A request is at least a line and a blank row, and none of its units is a
\* ping or belongs to another.
LEMMA ComposedWell ==
  ASSUME TypeOK, NEW r \in Reqs, NEW h \in {2, 3}, Composed(r, h)
  PROVE  AskedWell(r, h)
<1>1. asked[r] \in Seq(Units)
  BY DEF TypeOK
<1>2. Len(asked[r]) \in Nat /\ h <= Len(asked[r]) /\ asked[r] # <<>>
  BY <1>1 DEF Composed
<1>3. ASSUME NEW i \in 1..Len(asked[r])
      PROVE  /\ asked[r][i] \in Units /\ asked[r][i] # Ping
             /\ asked[r][i].k \notin {"pid", "size", "crlf"}
  <2>1. asked[r][i].r = r /\ Ping.r = None
    BY DEF Composed, Ping, Unit
  <2>2. r # None
    BY ConstantsAssumption
  <2>3. asked[r][i] # Ping
    BY <2>1, <2>2
  <2>. QED
    BY <1>1, <2>3 DEF Composed
<1>4. /\ \A i \in 1..h - 1 : asked[r][i].k \in {"line", "clen"}
      /\ asked[r][h].k = "blank"
  <2>1. /\ asked[r][1].k = "line" /\ asked[r][h].k = "blank"
        /\ h = 2 \/ (h = 3 /\ asked[r][2].k = "clen")
    BY DEF Composed, Unit
  <2>2. h = 2 => 1..h - 1 = {1}
    OBVIOUS
  <2>3. h = 3 => 1..h - 1 = {1, 2}
    OBVIOUS
  <2>. QED
    BY <2>1, <2>2, <2>3
<1>5. \A i \in 1..h : asked[r][i].k \in Newline
  <2>1. \A i \in 1..h : i \in 1..h - 1 \/ i = h
    OBVIOUS
  <2>. QED
    BY <1>4, <2>1 DEF Newline
<1>. QED
  BY <1>1, <1>2, <1>3, <1>4, <1>5 DEF AskedWell

\* Places at which rows or pings begin.
LEMMA PlaceSays ==
  ASSUME NEW V \in Seq(Units), NEW S \in SUBSET Nat, Serial(V, S), NEW s \in S, s <= Len(V)
  PROVE  /\ s \in 1..Len(V)
         /\ V[s] = Ping => s + 1 \in S
         /\ V[s] # Ping => \E r \in Reqs : /\ asked[r] # <<>> /\ Said(V, s, r)
                                           /\ s + Len(asked[r]) + 1 \in S
<1>1. s \in 1..Len(V)
  <2>1. s \in 1..Len(V) + 1 /\ Len(V) \in Nat
    BY DEF Serial
  <2>. QED
    BY <2>1
<1>2. ASSUME V[s] = Ping
      PROVE  s + 1 \in S
  <2>1. ASSUME NEW r \in Reqs, Said(V, s, r)
        PROVE  FALSE
    BY <1>2, <2>1 DEF Said, Unit, Ping
  <2>. QED
    BY <2>1 DEF Serial
<1>3. ASSUME V[s] # Ping
      PROVE  \E r \in Reqs : /\ asked[r] # <<>> /\ Said(V, s, r)
                             /\ s + Len(asked[r]) + 1 \in S
  BY <1>3 DEF Serial
<1>. QED
  BY <1>1, <1>2, <1>3

\* A request that is said is wholly in the stream.
LEMMA SaidWhole ==
  ASSUME TypeOK, NEW V \in Seq(Units), NEW S \in SUBSET Nat, Serial(V, S), NEW s \in S,
         NEW r \in Reqs, s + Len(asked[r]) + 1 \in S
  PROVE  s \in Nat /\ s > 0 /\ Len(asked[r]) \in Nat /\ s + Len(asked[r]) <= Len(V)
<1>1. asked[r] \in Seq(Units) /\ Len(V) \in Nat /\ S \subseteq 1..Len(V) + 1
  BY DEF TypeOK, Serial
<1>. QED
  BY <1>1

-----------------------------------------------------------------------------
(* The row at the head of a buffer, and the header behind it.                *)

\* No row ends in front of unit q of b.
RowFree(b, q) == \A i \in 1..q - 1 : b[i].k \notin Newline

\* Only pings are in front of unit q of b, which begins something, too.
Leads(S, a, b, q) == \A i \in 1..q : a + i \in S /\ (i < q => b[i] = Ping)

\* Between requests only pings are in front of the first row.
LEMMA Leading ==
  ASSUME NEW V \in Seq(Units), NEW S \in SUBSET Nat, Serial(V, S),
         NEW a \in Nat, a + 1 \in S, NEW b \in Seq(Units), Holds(b, V, a), a + Len(b) <= Len(V),
         NEW q \in 1..Len(b), RowFree(b, q)
  PROVE  Leads(S, a, b, q)
<1>1. ASSUME NEW i \in 1..q, i < q, a + i \in S
      PROVE  b[i] = Ping /\ a + (i + 1) \in S
  <2>1. i \in 1..Len(b) /\ i \in 1..q - 1 /\ a + i <= Len(V)
    BY <1>1
  <2>2. b[i] = V[a + i] /\ b[i].k \notin Newline
    BY <2>1 DEF Holds, RowFree
  <2>3. V[a + i] = Ping
    <3>1. ASSUME NEW r \in Reqs, Said(V, a + i, r)
          PROVE  FALSE
      BY <2>2, <3>1 DEF Said, Unit, Newline
    <3>. QED
      BY <1>1, <2>1, <3>1, PlaceSays
  <2>4. (a + i) + 1 \in S
    BY <1>1, <2>1, <2>3, PlaceSays
  <2>5. (a + i) + 1 = a + (i + 1)
    BY <1>1
  <2>. QED
    BY <2>2, <2>3, <2>4, <2>5
<1>2. ASSUME NEW i \in 1..q
      PROVE  a + i \in S
  <2>. DEFINE T == {j \in 0..i : j >= 1 /\ a + j \in S}
  <2>1. i \in Nat /\ T \subseteq 0..i /\ 1 \in T
    BY <1>2
  <2>2. PICK m : m = Max(T) /\ m \in T /\ \A t \in T : t <= m
    BY <2>1, GreatestOf
  <2>. HIDE DEF T
  <2>3. m \in 0..i /\ m >= 1 /\ a + m \in S
    BY <2>2 DEF T
  <2>4. m = i
    <3>1. SUFFICES ASSUME m < i PROVE FALSE
      BY <2>3
    <3>2. m \in 1..q /\ m < q
      BY <1>2, <2>3, <3>1
    <3>3. a + (m + 1) \in S
      BY <1>1, <2>3, <3>2
    <3>4. m + 1 \in T
      BY <2>3, <3>1, <3>3 DEF T
    <3>. QED
      BY <2>2, <2>3, <3>4
  <2>. QED
    BY <2>3, <2>4
<1>. QED
  BY <1>1, <1>2 DEF Leads

\* Row q of b is the pid of a request, and the first row.
NextRow(V, S, a, b, q) ==
  /\ q \in 1..Len(b) /\ q \in RowEnds(b) /\ a + q \in S
  /\ \E r \in Reqs : /\ asked[r] # <<>> /\ Said(V, a + q, r)
                     /\ a + q + Len(asked[r]) + 1 \in S
                     /\ AtoI(Row(b)) = {r}

\* The first row is the pid of the request that comes next.
LEMMA FirstRow ==
  ASSUME NEW V \in Seq(Units), NEW S \in SUBSET Nat, Serial(V, S),
         NEW a \in Nat, a + 1 \in S, NEW b \in Seq(Units), Holds(b, V, a), a + Len(b) <= Len(V),
         HasRow(b), NEW q, q = Min(RowEnds(b))
  PROVE  NextRow(V, S, a, b, q)
<1>1. /\ q \in 1..Len(b) /\ q \in RowEnds(b) /\ \A i \in 1..q - 1 : b[i].k \notin Newline
      /\ Row(b) \in Seq(Units) /\ Len(Row(b)) = q
      /\ \A i \in 1..q : Row(b)[i] = b[i]
  <2>1. RowEnds(b) \subseteq Nat /\ RowEnds(b) # {}
    BY DEF RowEnds, HasRow
  <2>2. /\ q \in 1..Len(b) /\ q \in RowEnds(b)
        /\ Row(b) \in Seq(Units) /\ Len(Row(b)) = q
        /\ \A i \in 1..q : Row(b)[i] = b[i]
    BY RowAtHead
  <2>3. \A i \in RowEnds(b) : q <= i
    BY <2>1, LeastOf
  <2>4. \A i \in 1..q - 1 : i \in DOMAIN b /\ ~(q <= i)
    BY <2>2
  <2>. QED
    BY <2>2, <2>3, <2>4 DEF RowEnds
<1>2. \A i \in 1..q : a + i \in S /\ (i < q => b[i] = Ping)
  <2>1. PICK p \in 1..Len(b) : p = q /\ RowFree(b, p)
    BY <1>1 DEF RowFree
  <2>2. Leads(S, a, b, p)
    BY <2>1, Leading
  <2>. QED
    BY <2>1, <2>2 DEF Leads
<1>3. a + q \in S /\ a + q <= Len(V) /\ b[q] = V[a + q] /\ b[q].k \in Newline
  BY <1>1, <1>2, SMTT(30) DEF Holds, RowEnds
<1>4. V[a + q] # Ping
  BY <1>3 DEF Ping, Unit, Newline
<1>5. PICK r \in Reqs : asked[r] # <<>> /\ Said(V, a + q, r) /\ a + q + Len(asked[r]) + 1 \in S
  BY <1>3, <1>4, PlaceSays
<1>6. AtoI(Row(b)) = {r}
  <2>1. Row(b)[q].k = "pid" /\ Row(b)[q].r = r
    <3>1. q \in 1..q /\ Row(b)[q] = Unit("pid", r, 0)
      BY <1>1, <1>3, <1>5, SMTT(30) DEF Said
    <3>. QED
      BY <3>1 DEF Unit
  <2>2. \A i \in 1..q - 1 : Row(b)[i].k = "zero"
    <3>1. \A i \in 1..q - 1 : i \in 1..q /\ i < q
      BY <1>1
    <3>2. \A i \in 1..q - 1 : Row(b)[i] = Ping
      BY <1>1, <1>2, <3>1
    <3>. QED
      BY <3>2 DEF Ping, Unit
  <2>. QED
    BY <1>1, <2>1, <2>2 DEF AtoI
<1>. QED
  BY <1>1, <1>3, <1>5, <1>6 DEF NextRow

\* The header of the request is found if it is in the buffer.
LEMMA HeaderFound ==
  ASSUME TypeOK, NEW V \in Seq(Units), NEW r \in Reqs, NEW h \in {2, 3}, Composed(r, h),
         NEW a \in Nat, NEW b \in Seq(Units), Holds(b, V, a),
         NEW q \in 1..Len(b), q = Min(RowEnds(b)), q \in RowEnds(b), Said(V, a + q, r)
  PROVE  /\ q + h > Len(b) => HeaderEnd(b) = 0
         /\ q + h <= Len(b) =>
              /\ HeaderEnd(b) = q + h
              /\ ContentLength(b) = Len(asked[r]) - h
              /\ \A i \in 1..h : b[q + i] = asked[r][i]
<1>. DEFINE blanks == {i \in DOMAIN b : IsRow(b, i) /\ BlankRow(b[i]) /\ i > Min(RowEnds(b))}
<1>1. /\ \A i \in 1..h : asked[r][i].k \in Newline
      /\ \A i \in 1..h - 1 : asked[r][i].k \in {"line", "clen"}
      /\ asked[r][h].k = "blank" /\ h <= Len(asked[r]) /\ Len(asked[r]) \in Nat
  <2>1. AskedWell(r, h)
    BY ComposedWell
  <2>. QED
    BY <2>1 DEF AskedWell
<1>2. PICK n \in Nat : n = Len(b) /\ DOMAIN b = 1..n
  OBVIOUS
<1>3. \A i \in 1..h : q + i <= n => b[q + i] = asked[r][i]
  <2>1. ASSUME NEW i \in 1..h, q + i <= n
        PROVE  b[q + i] = asked[r][i]
    <3>1. q + i \in 1..Len(b) /\ a + (q + i) = (a + q) + i /\ i \in 1..Len(asked[r])
      <4>1. PICK l \in Nat : l = Len(asked[r]) /\ h <= l
        BY <1>1
      <4>2. q \in Nat /\ i \in Nat /\ q + i \in 1..n /\ i \in 1..l
        BY <2>1, <4>1
      <4>3. a + (q + i) = (a + q) + i
        BY <4>2
      <4>. QED
        BY <1>2, <4>1, <4>2, <4>3
    <3>2. b[q + i] = V[a + (q + i)]
      BY <3>1 DEF Holds
    <3>3. V[(a + q) + i] = asked[r][i]
      BY <3>1 DEF Said
    <3>. QED
      BY <3>1, <3>2, <3>3
  <2>. QED
    BY <2>1
<1>4. \A i \in blanks : i \in 1..n /\ i >= q + h
  <2>1. SUFFICES ASSUME NEW i \in blanks, i < q + h PROVE FALSE
    BY <1>2
  <2>2. i \in 1..n /\ i > q /\ b[i].k \in {"blank", "crlf"}
    BY <1>2, <2>1 DEF BlankRow
  <2>3. PICK j \in 1..h - 1 : q + j = i
    <3>1. i - q \in 1..h - 1 /\ q + (i - q) = i
      BY <2>1, <2>2
    <3>. QED
      BY <3>1
  <2>4. b[i].k \in {"line", "clen"}
    <3>1. j \in 1..h /\ q + j <= n
      BY <2>2, <2>3
    <3>. QED
      BY <1>1, <1>3, <2>3, <3>1
  <2>. QED
    BY <2>2, <2>4
<1>5. ASSUME q + h > Len(b)
      PROVE  HeaderEnd(b) = 0
  <2>1. blanks = {}
    BY <1>2, <1>4, <1>5
  <2>. QED
    BY <2>1 DEF HeaderEnd
<1>6. ASSUME q + h <= Len(b)
      PROVE  /\ HeaderEnd(b) = q + h
             /\ ContentLength(b) = Len(asked[r]) - h
             /\ \A i \in 1..h : b[q + i] = asked[r][i]
  <2>1. \A i \in 1..h : q + i \in 1..n /\ b[q + i] = asked[r][i]
    BY <1>2, <1>3, <1>6
  <2>2. \A i \in 1..h : q + i \in RowEnds(b)
    BY <1>1, <1>2, <2>1 DEF RowEnds
  <2>3. \A i \in 1..h : IsRow(b, q + i)
    <3>1. ASSUME NEW i \in 1..h
          PROVE  (q + i) - 1 \in RowEnds(b)
      <4>1. CASE i = 1
        BY <4>1
      <4>2. CASE i # 1
        <5>1. i - 1 \in 1..h /\ (q + i) - 1 = q + (i - 1)
          BY <4>2
        <5>. QED
          BY <2>2, <5>1
      <4>. QED
        BY <4>1, <4>2
    <3>. QED
      BY <2>2, <3>1 DEF IsRow
  <2>4. q + h \in blanks
    <3>1. h \in 1..h /\ q + h > q
      OBVIOUS
    <3>. QED
      BY <1>1, <1>2, <2>1, <2>3, <3>1 DEF BlankRow
  <2>5. HeaderEnd(b) = q + h
    <3>1. blanks \subseteq Nat /\ blanks # {}
      BY <1>2, <2>4
    <3>2. Min(blanks) \in blanks /\ \A i \in blanks : Min(blanks) <= i
      BY <3>1, LeastOf
    <3>3. HeaderEnd(b) = Min(blanks)
      BY <3>1 DEF HeaderEnd
    <3>. HIDE DEF blanks
    <3>4. Min(blanks) <= q + h /\ Min(blanks) >= q + h /\ Min(blanks) \in 1..n
      BY <1>4, <2>4, <3>2
    <3>. QED
      BY <3>3, <3>4
  <2>. DEFINE rows == {i \in q + 1..q + h : IsRow(b, i) /\ b[i].k = "clen"}
  <2>6. ContentLength(b) = IF rows = {} THEN 0 ELSE b[Max(rows)].n
    BY <2>5 DEF ContentLength
  <2>7. CASE h = 2
    <3>1. Len(asked[r]) = 2 /\ asked[r][1].k = "line" /\ asked[r][2].k = "blank"
      BY <2>7 DEF Composed
    <3>2. b[q + 1].k = "line" /\ b[q + 2].k = "blank"
      BY <2>1, <2>7, <3>1
    <3>3. \A i \in q + 1..q + h : i = q + 1 \/ i = q + 2
      BY <2>7
    <3>4. rows = {}
      BY <3>2, <3>3
    <3>5. ContentLength(b) = 0
      BY <2>6, <3>4
    <3>6. Len(asked[r]) - h = 0
      BY <2>7, <3>1
    <3>. QED
      BY <2>1, <2>5, <3>5, <3>6
  <2>8. CASE h = 3
    <3>1. /\ asked[r][1].k = "line" /\ asked[r][3].k = "blank" /\ asked[r][2].k = "clen"
          /\ asked[r][2].n = Len(asked[r]) - 3
      BY <2>8 DEF Composed, Unit
    <3>2. b[q + 1].k = "line" /\ b[q + 3].k = "blank" /\ b[q + 2].k = "clen" /\ b[q + 2] = asked[r][2]
      <4>1. 1 \in 1..h /\ 2 \in 1..h /\ 3 \in 1..h
        BY <2>8
      <4>2. b[q + 1] = asked[r][1] /\ b[q + 2] = asked[r][2] /\ b[q + 3] = asked[r][3]
        BY <2>1, <4>1
      <4>. QED
        BY <3>1, <4>2
    <3>3. \A i \in q + 1..q + h : i = q + 1 \/ i = q + 2 \/ i = q + 3
      BY <2>8
    <3>4. IsRow(b, q + 2) /\ q + 2 \in q + 1..q + h
      BY <2>3, <2>8
    <3>5. rows = {q + 2}
      BY <3>2, <3>3, <3>4
    <3>6. Max(rows) = q + 2
      <4>1. rows \subseteq 0..n /\ rows # {}
        BY <1>6, <1>2, <3>5
      <4>. HIDE DEF rows
      <4>2. Max(rows) \in rows
        BY <4>1, GreatestOf
      <4>. QED
        BY <3>5, <4>2
    <3>7. rows # {}
      BY <3>5
    <3>. HIDE DEF rows
    <3>8. ContentLength(b) = asked[r][2].n
      BY <2>6, <3>2, <3>6, <3>7
    <3>. QED
      BY <2>1, <2>5, <2>8, <3>1, <3>8
  <2>. QED
    BY <2>7, <2>8
<1>. QED
  BY <1>5, <1>6

-----------------------------------------------------------------------------
(* What Chunk() makes of the stream.                                         *)

\* Nothing new for the children, or the whole request of one more.
Hands ==
  \/ children' = children
  \/ \E r \in Reqs : asked[r] # <<>> /\ children' = Append(children, [pid |-> r, req |-> asked[r]])

\* The parser comes from its place to another, up to which all is in order.
Parses(V, S, e) ==
  /\ \E a \in Nat : Parsed(V, S, a)' /\ Holds(buf, V, a)' /\ a + Len(buf') = e
  /\ Hands

\* A cut of what is behind the header is the body.
LEMMA BodyJoins ==
  ASSUME NEW A \in Seq(Units), NEW h \in Nat, NEW l \in Nat, Len(A) = h + l,
         NEW b \in Seq(Units), l <= Len(b), \A i \in 1..l : b[i] = A[h + i]
  PROVE  Prefix(A, h) \o Prefix(b, l) = A
<1>1. h \in 0..Len(A) /\ l \in 0..Len(b)
  OBVIOUS
<1>2. PICK x : x = Prefix(A, h)
  OBVIOUS
<1>3. PICK z : z = Prefix(b, l)
  OBVIOUS
<1>4. x \in Seq(Units) /\ Len(x) = h /\ \A i \in 1..h : x[i] = A[i]
  BY <1>1, <1>2, Cuts
<1>5. z \in Seq(Units) /\ Len(z) = l /\ \A i \in 1..l : z[i] = A[h + i]
  BY <1>1, <1>3, Cuts
<1>6. /\ x \o z \in Seq(Units) /\ Len(x \o z) = Len(x) + Len(z)
      /\ \A i \in 1..Len(x) : (x \o z)[i] = x[i]
      /\ \A i \in 1..Len(z) : (x \o z)[Len(x) + i] = z[i]
  <2>1. x \in Seq(Units) /\ z \in Seq(Units)
    BY <1>4, <1>5
  <2>. QED
    BY <2>1, Joins
<1>7. ASSUME NEW i \in 1..h + l
      PROVE  (x \o z)[i] = A[i]
  <2>1. CASE i \in 1..h
    BY <1>4, <1>6, <2>1
  <2>2. CASE i \notin 1..h
    <3>1. PICK j \in 1..l : i = h + j
      <4>1. i - h \in 1..l /\ i = h + (i - h)
        BY <2>2
      <4>. QED
        BY <4>1
    <3>. QED
      BY <1>4, <1>5, <1>6, <3>1
  <2>. QED
    BY <2>1, <2>2
<1>8. Len(x \o z) = Len(A) /\ \A i \in 1..Len(x \o z) : (x \o z)[i] = A[i]
  BY <1>4, <1>5, <1>6, <1>7
<1>9. x \o z = A
  BY <1>6, <1>8, SeqEqual
<1>. QED
  BY <1>2, <1>3, <1>9

\* What follows a cut is held from there on.
LEMMA HoldsBehind ==
  ASSUME NEW V, NEW b \in Seq(Units), NEW a \in Nat, Holds(b, V, a), NEW l \in 0..Len(b)
  PROVE  /\ Suffix(b, l) \in Seq(Units) /\ Holds(Suffix(b, l), V, a + l)
         /\ a + l + Len(Suffix(b, l)) = a + Len(b)
<1>1. /\ Suffix(b, l) \in Seq(Units) /\ Len(Suffix(b, l)) = Len(b) - l
      /\ \A i \in 1..Len(b) - l : Suffix(b, l)[i] = b[l + i]
  BY Cuts
<1>2. PICK z : z = Suffix(b, l)
  OBVIOUS
<1>3. PICK m \in Nat : m = Len(b)
  OBVIOUS
<1>4. z \in Seq(Units) /\ Len(z) = m - l /\ l \in Nat /\ l <= m /\ \A i \in 1..m - l : z[i] = b[l + i]
  BY <1>1, <1>2, <1>3
<1>5. ASSUME NEW i \in 1..m - l
      PROVE  z[i] = V[(a + l) + i]
  <2>1. l + i \in 1..Len(b) /\ a + (l + i) = (a + l) + i
    BY <1>3, <1>4
  <2>. QED
    BY <1>4, <2>1 DEF Holds
<1>6. Holds(z, V, a + l)
  BY <1>4, <1>5 DEF Holds
<1>7. a + l + Len(z) = a + m
  BY <1>4
<1>. QED
  BY <1>2, <1>3, <1>4, <1>6, <1>7

\* Behind a header the body is taken if it is there, and is awaited if not.
LEMMA BodyTaken ==
  ASSUME TypeOK, NEW V \in Seq(Units), NEW S \in SUBSET Nat,
         NEW p \in Reqs, asked[p] # <<>>, NEW h \in {2, 3}, Composed(p, h),
         NEW s \in S, NEW a, a = s + h, Said(V, s, p), s + Len(asked[p]) + 1 \in S,
         NEW b \in Seq(Units), Holds(b, V, a),
         NEW len, len = Len(asked[p]) - h, NEW req, req = Prefix(asked[p], h),
         TakesOwn(p, req, len, b), pid' = p, content_len' = len, asked' = asked
  PROVE  Parses(V, S, a + Len(b))
<1>1. PICK A \in Seq(Units) : A = asked[p] /\ h <= Len(A)
  <2>1. AskedWell(p, h)
    BY ComposedWell
  <2>. QED
    BY <2>1 DEF AskedWell
<1>2. PICK l \in Nat : l = len /\ Len(A) = h + l
  <2>1. Len(A) - h \in Nat /\ Len(A) = h + (Len(A) - h)
    BY <1>1
  <2>. QED
    BY <1>1, <2>1
<1>3. PICK m \in Nat : m = Len(b)
  OBVIOUS
<1>4. Composed(p, h)'
  BY DEF Composed
<1>5. s \in Nat /\ a \in Nat
  <2>1. s \in Nat /\ h \in Nat
    OBVIOUS
  <2>. QED
    BY <2>1
<1>6. CASE l <= m
  <2>1. buf' = Suffix(b, l) /\ in_data' = FALSE /\ Forks(p, req \o Prefix(b, l))
    BY <1>2, <1>3, <1>6, ConstantsAssumption DEF TakesOwn, TakesBody
  <2>2. l \in 0..Len(b) /\ h \in Nat
    BY <1>3, <1>6
  <2>3. ASSUME NEW i \in 1..l
        PROVE  b[i] = A[h + i]
    <3>1. i \in 1..Len(b) /\ h + i \in 1..Len(A) /\ a + i = s + (h + i)
      BY <1>2, <1>5, <2>2
    <3>2. b[i] = V[a + i]
      BY <3>1 DEF Holds
    <3>3. V[s + (h + i)] = A[h + i]
      BY <1>1, <3>1 DEF Said
    <3>. QED
      BY <3>1, <3>2, <3>3
  <2>4. req \o Prefix(b, l) = A
    <3>1. req = Prefix(A, h) /\ l <= Len(b)
      BY <1>1, <1>3, <1>6
    <3>2. Prefix(A, h) \o Prefix(b, l) = A
      BY <1>2, <2>2, <2>3, <3>1, BodyJoins, ZenonT(40)
    <3>. QED
      BY <3>1, <3>2
  <2>5. request' = <<>> /\ Hands
    BY <1>1, <2>1, <2>4 DEF Forks, Hands
  <2>6. s + Len(A) + 1 = (a + l) + 1 /\ a + l \in Nat
    <3>1. s \in Nat /\ h \in Nat /\ l \in Nat /\ a = s + h /\ Len(A) = h + l
      BY <1>2, <1>5
    <3>. QED
      BY <3>1
  <2>7. Parsed(V, S, a + l)'
    BY <1>1, <2>1, <2>5, <2>6 DEF Parsed
  <2>8. Holds(buf, V, a + l)' /\ a + l + Len(buf') = a + Len(b)
    <3>1. Holds(Suffix(b, l), V, a + l) /\ a + l + Len(Suffix(b, l)) = a + Len(b)
      BY <1>5, <2>2, HoldsBehind, ZenonT(40)
    <3>. QED
      BY <2>1, <3>1 DEF Holds
  <2>. QED
    BY <2>5, <2>6, <2>7, <2>8 DEF Parses
<1>7. CASE ~(l <= m)
  <2>1. buf' = b /\ in_data' = TRUE /\ request' = req /\ UNCHANGED children
    BY <1>2, <1>3, <1>7 DEF TakesOwn, Keeps
  <2>2. Len(buf') < content_len'
    BY <1>2, <1>3, <1>7, <2>1
  <2>3. Said(V, s, p)' /\ request' = Prefix(asked'[p], h) /\ content_len' = Len(asked'[p]) - h
    BY <2>1 DEF Said
  <2>4. Parsed(V, S, a)'
    BY <1>4, <2>1, <2>2, <2>3 DEF Parsed
  <2>5. Holds(buf, V, a)'
    BY <2>1 DEF Holds
  <2>. QED
    BY <1>5, <2>1, <2>4, <2>5 DEF Parses, Hands
<1>. QED
  BY <1>6, <1>7

\* The rows between the pid and the blank one are what out_buf gets.
LEMMA HeaderTaken ==
  ASSUME NEW A \in Seq(Units), NEW h \in 1..Len(A), NEW b \in Seq(Units), NEW q \in 1..Len(b),
         q + h <= Len(b), \A i \in 1..h : b[q + i] = A[i]
  PROVE  SubSeq(b, q + 1, q + h) = Prefix(A, h)
<1>1. PICK w : w = SubSeq(b, q + 1, q + h)
  OBVIOUS
<1>2. PICK x : x = Prefix(A, h)
  OBVIOUS
<1>3. h \in 0..Len(A) /\ q \in Nat /\ h \in Nat
  OBVIOUS
<1>4. x \in Seq(Units) /\ Len(x) = h /\ \A i \in 1..h : x[i] = A[i]
  BY <1>2, <1>3, Cuts
<1>5. w \in Seq(Units) /\ Len(w) = h /\ \A i \in 1..h : w[i] = b[q + i]
  <2>1. \A i \in q + 1..q + h : i \in 1..Len(b) /\ b[i] \in Units
    BY <1>3
  <2>2. /\ SubSeq(b, q + 1, q + h) \in Seq(Units)
        /\ Len(SubSeq(b, q + 1, q + h)) = IF q + 1 <= q + h THEN (q + h) - (q + 1) + 1 ELSE 0
        /\ \A i \in 1..(q + h) - (q + 1) + 1 : SubSeq(b, q + 1, q + h)[i] = b[(q + 1) + i - 1]
    BY <1>3, <2>1, SubSeqProperties
  <2>3. /\ (q + h) - (q + 1) + 1 = h /\ q + 1 <= q + h
        /\ \A i \in 1..h : (q + 1) + i - 1 = q + i
    BY <1>3
  <2>. QED
    BY <1>1, <2>2, <2>3
<1>6. Len(w) = Len(x) /\ \A i \in 1..Len(w) : w[i] = x[i]
  BY <1>4, <1>5
<1>. QED
  BY <1>1, <1>2, <1>4, <1>5, <1>6, SeqEqual

\* The first row of b is the pid of a request; where it is, and its header.
NextRequest(V, S, a, b) ==
  \E q \in 1..Len(b), s \in S, r \in Reqs, h \in {2, 3} :
    /\ q = Min(RowEnds(b)) /\ s = a + q /\ asked[r] # <<>> /\ Composed(r, h)
    /\ Said(V, s, r) /\ s + Len(asked[r]) + 1 \in S /\ AtoI(Row(b)) = {r}
    /\ q + h > Len(b) => HeaderEnd(b) = 0
    /\ q + h <= Len(b) =>
         /\ HeaderEnd(b) = q + h
         /\ ContentLength(b) = Len(asked[r]) - h
         /\ \A i \in 1..h : b[q + i] = asked[r][i]

\* Where the first row of the next request is, and that its header is there.
LEMMA HeaderAt ==
  ASSUME TypeOK, Steady, NEW V \in Seq(Units), NEW S \in SUBSET Nat, Serial(V, S),
         NEW a \in Nat, a + 1 \in S, NEW b \in Seq(Units), Holds(b, V, a), a + Len(b) <= Len(V),
         HasRow(b)
  PROVE  NextRequest(V, S, a, b)
<1>1. PICK m : m = Min(RowEnds(b))
  OBVIOUS
<1>2. /\ m \in 1..Len(b) /\ m \in RowEnds(b) /\ a + m \in S
      /\ \E r \in Reqs : /\ asked[r] # <<>> /\ Said(V, a + m, r)
                         /\ a + m + Len(asked[r]) + 1 \in S
                         /\ AtoI(Row(b)) = {r}
  <2>1. NextRow(V, S, a, b, m)
    BY <1>1, FirstRow
  <2>. QED
    BY <2>1 DEF NextRow
<1>3. PICK q \in 1..Len(b) : q = m
  BY <1>2
<1>4. PICK r \in Reqs : /\ asked[r] # <<>> /\ Said(V, a + q, r)
                        /\ a + q + Len(asked[r]) + 1 \in S
                        /\ AtoI(Row(b)) = {r}
  BY <1>2, <1>3
<1>5. PICK h \in {2, 3} : Composed(r, h)
  BY <1>4 DEF Steady
<1>6. q = Min(RowEnds(b)) /\ q \in RowEnds(b) /\ Said(V, a + q, r) /\ Composed(r, h)
  BY <1>1, <1>2, <1>3, <1>4, <1>5
<1>7. /\ q + h > Len(b) => HeaderEnd(b) = 0
      /\ q + h <= Len(b) =>
           /\ HeaderEnd(b) = q + h
           /\ ContentLength(b) = Len(asked[r]) - h
           /\ \A i \in 1..h : b[q + i] = asked[r][i]
  BY <1>6, HeaderFound, SMTT(60)
<1>8. PICK s \in S : s = a + q
  BY <1>2, <1>3
<1>. QED
  BY <1>4, <1>6, <1>7, <1>8 DEF NextRequest

\* The header of the next request as it is in the buffer, and what is behind it.
HeaderBehind(V, b, r, h, e, end) ==
  /\ WithHeader(b) = Prefix(asked[r], h)
  /\ AfterHeader(b) \in Seq(Units) /\ Holds(AfterHeader(b), V, e)
  /\ e + Len(AfterHeader(b)) = end

HeaderIs(b, q, h, r) ==
  /\ q = Min(RowEnds(b)) /\ q + h <= Len(b) /\ HeaderEnd(b) = q + h
  /\ \A i \in 1..h : b[q + i] = asked[r][i]

LEMMA HeaderCuts ==
  ASSUME TypeOK, NEW V \in Seq(Units), NEW S \in SUBSET Nat,
         NEW r \in Reqs, NEW h \in {2, 3}, Composed(r, h),
         NEW a \in Nat, NEW b \in Seq(Units), Holds(b, V, a),
         NEW q \in 1..Len(b), NEW s \in S, s = a + q,
         HeaderIs(b, q, h, r), request = <<>>,
         NEW e, e = s + h, NEW end, end = a + Len(b)
  PROVE  HeaderBehind(V, b, r, h, e, end)
<1>1. /\ q = Min(RowEnds(b)) /\ q + h <= Len(b) /\ HeaderEnd(b) = q + h
      /\ \A i \in 1..h : b[q + i] = asked[r][i]
  BY DEF HeaderIs
<1>2. asked[r] \in Seq(Units) /\ Len(asked[r]) \in Nat /\ h <= Len(asked[r])
  <2>1. AskedWell(r, h)
    BY ComposedWell
  <2>. QED
    BY <2>1 DEF AskedWell
<1>3. PICK A \in Seq(Units) : A = asked[r]
  BY <1>2
<1>4. WithHeader(b) = Prefix(A, h)
  <2>1. h \in 1..Len(A) /\ \A i \in 1..h : b[q + i] = A[i]
    <3>1. PICK l \in Nat : l = Len(A) /\ h <= l
      BY <1>2, <1>3
    <3>2. h \in 1..l
      BY <3>1
    <3>3. \A i \in 1..h : b[q + i] = A[i]
      BY <1>3, <1>1
    <3>. QED
      BY <3>1, <3>2, <3>3
  <2>2. SubSeq(b, q + 1, q + h) = Prefix(A, h)
    BY <1>1, <2>1, HeaderTaken
  <2>3. Prefix(A, h) \in Seq(Units)
    <3>1. h \in 0..Len(A)
      BY <2>1
    <3>. QED
      BY <3>1, Cuts
  <2>4. <<>> \o Prefix(A, h) = Prefix(A, h)
    BY <2>3, ConcatEmptySeq
  <2>. QED
    BY <1>1, <2>2, <2>4 DEF WithHeader
<1>5. PICK k \in 0..Len(b) : k = q + h
  BY <1>1
<1>6. PICK z : z = AfterHeader(b)
  OBVIOUS
<1>7. z = Suffix(b, k)
  BY <1>5, <1>6, <1>1 DEF AfterHeader
<1>8. z \in Seq(Units) /\ Holds(z, V, a + k) /\ a + k + Len(z) = a + Len(b)
  <2>1. /\ Suffix(b, k) \in Seq(Units) /\ Holds(Suffix(b, k), V, a + k)
        /\ a + k + Len(Suffix(b, k)) = a + Len(b)
    BY HoldsBehind
  <2>. QED
    BY <1>7, <2>1
<1>9. PICK e2 : e2 = a + k
  OBVIOUS
<1>10. e = e2
  <2>1. a \in Nat /\ q \in Nat /\ h \in Nat /\ e = s + h /\ e2 = a + k /\ k = q + h /\ s = a + q
    BY <1>5, <1>9, SMTT(60)
  <2>. QED
    BY <2>1, SMTT(60)
<1>11. Holds(z, V, e) /\ e + Len(z) = end
  BY <1>8, <1>9, <1>10
<1>. QED
  BY <1>3, <1>4, <1>6, <1>8, <1>11 DEF HeaderBehind

\* A chunk that has the header of the next request brings the parser behind it.
LEMMA HeaderParses ==
  ASSUME TypeOK, NEW V \in Seq(Units), NEW S \in SUBSET Nat,
         NEW r \in Reqs, asked[r] # <<>>, NEW h \in {2, 3}, Composed(r, h),
         NEW s \in S, Said(V, s, r), s + Len(asked[r]) + 1 \in S,
         NEW a \in Nat, NEW b \in Seq(Units), Holds(b, V, a),
         NEW q \in 1..Len(b), q = Min(RowEnds(b)), s = a + q, q + h <= Len(b),
         HeaderEnd(b) = q + h, ContentLength(b) = Len(asked[r]) - h,
         \A i \in 1..h : b[q + i] = asked[r][i],
         pid' = r, content_len' = ContentLength(b),
         request = <<>>, asked' = asked,
         TakesOwn(r, WithHeader(b), ContentLength(b), AfterHeader(b))
  PROVE  Parses(V, S, a + Len(b))
<1>1. PICK e, end : e = s + h /\ end = a + Len(b)
  OBVIOUS
<1>2. HeaderBehind(V, b, r, h, e, end)
  <2>1. HeaderIs(b, q, h, r)
    BY DEF HeaderIs
  <2>. QED
    BY <1>1, <2>1, HeaderCuts
<1>3. PICK z, req, len : z = AfterHeader(b) /\ req = WithHeader(b) /\ len = ContentLength(b)
  OBVIOUS
<1>4. /\ len = Len(asked[r]) - h /\ req = Prefix(asked[r], h)
      /\ TakesOwn(r, req, len, z) /\ content_len' = len
      /\ z \in Seq(Units) /\ Holds(z, V, e) /\ e + Len(z) = end
  BY <1>2, <1>3 DEF HeaderBehind
<1>5. Parses(V, S, e + Len(z))
  BY <1>1, <1>4, BodyTaken
<1>. QED
  BY <1>1, <1>4, <1>5

\* Between requests the parser finds the next one, or nothing it can use.
LEMMA FreshParses ==
  ASSUME TypeOK, Steady, NEW V \in Seq(Units), NEW S \in SUBSET Nat, Serial(V, S),
         NEW a \in Nat, a + 1 \in S, request = <<>>, NEW b \in Seq(Units), Holds(b, V, a),
         a + Len(b) <= Len(V), HasRow(b), HeaderEnd(b) # 0, asked' = asked,
         pid' = b[Min(RowEnds(b))].r, content_len' = ContentLength(b),
         TakesOwn(pid', WithHeader(b), content_len', AfterHeader(b))
  PROVE  Parses(V, S, a + Len(b))
<1>1. PICK q \in 1..Len(b), s \in S, r \in Reqs, h \in {2, 3} :
           /\ q = Min(RowEnds(b)) /\ s = a + q /\ asked[r] # <<>> /\ Composed(r, h)
           /\ Said(V, s, r) /\ s + Len(asked[r]) + 1 \in S /\ AtoI(Row(b)) = {r}
           /\ q + h > Len(b) => HeaderEnd(b) = 0
           /\ q + h <= Len(b) =>
                /\ HeaderEnd(b) = q + h
                /\ ContentLength(b) = Len(asked[r]) - h
                /\ \A i \in 1..h : b[q + i] = asked[r][i]
  <2>1. NextRequest(V, S, a, b)
    BY HeaderAt
  <2>. QED
    BY <2>1 DEF NextRequest
<1>2. q + h <= Len(b)
  <2>1. q \in Nat /\ h \in Nat /\ Len(b) \in Nat
    OBVIOUS
  <2>2. ~(q + h > Len(b))
    BY <1>1
  <2>. QED
    BY <2>1, <2>2
<1>3. pid' = r
  <2>1. q \in 1..Len(b) /\ b[q] = V[a + q] /\ V[a + q] = Unit("pid", r, 0)
    BY <1>1 DEF Holds, Said
  <2>. QED
    BY <1>1, <2>1 DEF Unit
<1>4. TakesOwn(r, WithHeader(b), ContentLength(b), AfterHeader(b))
  BY <1>3
<1>. QED
  BY <1>1, <1>2, <1>3, <1>4, HeaderParses

\* Behind a header of its own the parser finds nothing but the body's units.
OwnBody(req, p, h) ==
  /\ req = Prefix(asked[p], h)
  /\ h = 3 => Announced(req) = p

LEMMA AnnouncedIsOwn ==
  ASSUME TypeOK, NEW p \in Reqs, NEW h \in {2, 3}, Composed(p, h), NEW req, req = Prefix(asked[p], h)
  PROVE  OwnBody(req, p, h)
<1>1. PICK A \in Seq(Units) : A = asked[p] /\ h \in 0..Len(A)
  <2>1. AskedWell(p, h)
    BY ComposedWell
  <2>2. asked[p] \in Seq(Units) /\ h \in 0..Len(asked[p])
    BY <2>1 DEF AskedWell
  <2>. QED
    BY <2>2
<1>2. ASSUME h = 3
      PROVE  Announced(req) = p
  <2>1. req \in Seq(Units) /\ Len(req) = 3 /\ \A i \in 1..3 : req[i] = A[i]
    BY <1>1, <1>2, Cuts
  <2>2. A[1].k = "line" /\ A[2] = Unit("clen", p, Len(A) - 3) /\ A[3].k = "blank"
    BY <1>1, <1>2 DEF Composed
  <2>3. /\ DOMAIN req = 1..3 /\ req[1].k = "line" /\ req[2].k = "clen" /\ req[2].r = p
        /\ req[3].k = "blank"
    BY <2>1, <2>2 DEF Unit
  <2>4. IsRow(req, 2)
    <3>1. 1 \in RowEnds(req) /\ 2 \in RowEnds(req)
      BY <2>3 DEF RowEnds, Newline
    <3>. QED
      BY <3>1 DEF IsRow
  <2>. DEFINE rows == {i \in DOMAIN req : IsRow(req, i) /\ req[i].k = "clen"}
  <2>5. rows = {2}
    <3>1. \A i \in 1..3 : i = 1 \/ i = 2 \/ i = 3
      OBVIOUS
    <3>. QED
      BY <2>3, <2>4, <3>1
  <2>6. PICK n \in Nat : n = 3 /\ rows \subseteq 0..n /\ rows # {}
    BY <2>5
  <2>7. Announced(req) = req[Max(rows)].r
    BY <2>6 DEF Announced
  <2>. HIDE DEF rows
  <2>8. Max(rows) = 2
    <3>1. Max(rows) \in rows
      BY <2>6, GreatestOf
    <3>. QED
      BY <2>5, <3>1
  <2>. QED
    BY <2>3, <2>7, <2>8
<1>. QED
  BY <1>2 DEF OwnBody

\* If the first units of b are units of the body, all that may be are.
OwnTo(req, b, n) == \A i \in 1..n : \E k \in {"body", "zero"} : b[i] = Unit(k, Announced(req), i)

LEMMA OwnAll ==
  ASSUME NEW req, NEW len \in Nat, NEW b \in Seq(Units), NEW n \in Nat, n = Smaller(len, Len(b)),
         OwnTo(req, b, n)
  PROVE  OwnUnits(req, len, b) = n
<1>. DEFINE T == {m \in 0..Smaller(len, Len(b)) :
                    \A i \in 1..m : \E k \in {"body", "zero"} : b[i] = Unit(k, Announced(req), i)}
<1>1. n \in T
  BY DEF OwnTo
<1>2. T \subseteq 0..n /\ T # {}
  BY <1>1
<1>3. OwnUnits(req, len, b) = Max(T)
  BY DEF OwnUnits
<1>. HIDE DEF T
<1>4. Max(T) \in 0..n /\ n <= Max(T)
  <2>1. Max(T) \in T /\ \A x \in T : x <= Max(T)
    BY <1>2, GreatestOf
  <2>. QED
    BY <1>1, <1>2, <2>1
<1>. QED
  BY <1>3, <1>4

\* So it takes len units, no more and no less.
LEMMA BodyIsOwn ==
  ASSUME TypeOK, NEW V \in Seq(Units),
         NEW p \in Reqs, NEW h \in {2, 3}, Composed(p, h),
         NEW s \in Nat, NEW a, a = s + h, Said(V, s, p),
         NEW b \in Seq(Units), Holds(b, V, a),
         NEW len, len = Len(asked[p]) - h, NEW req, req = Prefix(asked[p], h),
         NEW x, ParsesBody(x, req, len, b)
  PROVE  TakesOwn(x, req, len, b)
<1>1. PICK A \in Seq(Units) : A = asked[p] /\ h <= Len(A)
  <2>1. AskedWell(p, h)
    BY ComposedWell
  <2>. QED
    BY <2>1 DEF AskedWell
<1>2. PICK l \in Nat : l = len /\ Len(A) = h + l
  <2>1. Len(A) - h \in Nat /\ Len(A) = h + (Len(A) - h)
    BY <1>1
  <2>. QED
    BY <1>1, <2>1
<1>3. PICK m \in Nat : m = Len(b)
  OBVIOUS
<1>4. PICK n \in Nat : n = Smaller(l, m) /\ n <= l /\ n <= m
  BY DEF Smaller
<1>5. ASSUME NEW i \in 1..n
      PROVE  \E k \in {"body", "zero"} : b[i] = Unit(k, Announced(req), i)
  <2>1. h = 3
    <3>1. h = 2 => Len(A) = 2
      BY <1>1 DEF Composed
    <3>2. h = 2 => l = 0
      BY <1>2, <3>1
    <3>. QED
      BY <1>4, <3>2
  <2>2. Announced(req) = p
    BY <2>1, AnnouncedIsOwn DEF OwnBody
  <2>3. i \in 1..Len(b) /\ 3 + i \in 1..Len(A) /\ a + i = s + (3 + i) /\ 3 + i > 3 /\ (3 + i) - 3 = i
    BY <1>2, <1>3, <1>4, <2>1
  <2>4. b[i] = V[s + (3 + i)]
    BY <2>3 DEF Holds
  <2>5. V[s + (3 + i)] = A[3 + i]
    BY <1>1, <2>3 DEF Said
  <2>6. \E k \in {"body", "zero"} : A[3 + i] = Unit(k, p, (3 + i) - 3)
    BY <1>1, <2>1, <2>3 DEF Composed
  <2>. QED
    BY <2>2, <2>3, <2>4, <2>5, <2>6
<1>6. OwnUnits(req, l, b) = n
  <2>1. n = Smaller(l, Len(b))
    BY <1>3, <1>4
  <2>2. OwnTo(req, b, n)
    BY <1>5 DEF OwnTo
  <2>. QED
    BY <2>1, <2>2, OwnAll
<1>7. CASE l <= m
  <2>1. n = l
    BY <1>4, <1>7 DEF Smaller
  <2>2. BodyCuts(req, l, b) = {<<Prefix(b, l), Suffix(b, l)>>} /\ ~BodyMissing(req, l, b)
    BY <1>6, <2>1 DEF BodyCuts, BodyMissing
  <2>3. PICK cut \in BodyCuts(req, l, b) : TakesBody(x, req \o cut[1], cut[2])
    BY <1>2, <2>2 DEF ParsesBody
  <2>4. cut[1] = Prefix(b, l) /\ cut[2] = Suffix(b, l)
    BY <2>2
  <2>. QED
    BY <1>2, <1>3, <1>7, <2>3, <2>4 DEF TakesOwn
<1>8. CASE ~(l <= m)
  <2>1. n = m /\ n # l
    BY <1>4, <1>8 DEF Smaller
  <2>2. n + 1..Len(b) = {}
    BY <1>3, <2>1
  <2>3. BodyCuts(req, l, b) = {}
    BY <1>6, <2>1, <2>2 DEF BodyCuts
  <2>4. buf' = b /\ in_data' = TRUE /\ Keeps(req)
    BY <1>2, <2>3 DEF ParsesBody
  <2>. QED
    BY <1>2, <1>3, <1>8, <2>4 DEF TakesOwn
<1>. QED
  BY <1>7, <1>8

\* Chunk() in a stream of whole requests takes pids and bodies as they are.
LEMMA ChunkIsExact ==
  ASSUME TypeOK, Steady, NEW V \in Seq(Units), NEW S \in SUBSET Nat, Serial(V, S),
         NEW a \in Nat, Parsed(V, S, a), NEW data \in Seq(Units), NEW next, NEW b, b = buf \o data,
         Holds(b, V, a), a + Len(b) <= Len(V), Chunk(data, next)
  PROVE  ParsesOwn(b, next)
<1>1. b \in Seq(Units)
  BY DEF TypeOK
<1>2. CASE in_data
  <2>1. ParsesBody(pid, request, content_len, b) /\ mode' = next /\ UNCHANGED <<pid, content_len>>
    BY <1>2 DEF Chunk
  <2>2. PICK h \in {2, 3}, s \in S :
          /\ Composed(pid, h) /\ a = s + h /\ Said(V, s, pid)
          /\ request = Prefix(asked[pid], h) /\ content_len = Len(asked[pid]) - h
    BY <1>2 DEF Parsed
  <2>3. PICK p \in Reqs : p = pid
    BY <1>2 DEF Parsed
  <2>4. PICK req, len : req = request /\ len = content_len
    OBVIOUS
  <2>5. s \in Nat
    OBVIOUS
  <2>6. TakesOwn(p, req, len, b)
    BY <1>1, <2>1, <2>2, <2>3, <2>4, <2>5, BodyIsOwn
  <2>. QED
    BY <1>2, <2>1, <2>3, <2>4, <2>6 DEF ParsesOwn
<1>3. CASE ~in_data /\ (RowEnds(b) = {} \/ HeaderEnd(b) = 0)
  <2>1. mode' \in {"noPid", "noHeader"} /\ UNCHANGED <<buf, request, parser, children, faults>>
    BY <1>3 DEF Chunk
  <2>. QED
    BY <1>3, <2>1 DEF ParsesOwn
<1>4. CASE ~in_data /\ ~(RowEnds(b) = {} \/ HeaderEnd(b) = 0)
  <2>1. /\ pid' \in AtoI(Row(b)) /\ content_len' = ContentLength(b) /\ mode' = next
        /\ ParsesBody(pid', WithHeader(b), content_len', AfterHeader(b))
    BY <1>4 DEF Chunk
  <2>2. a + 1 \in S /\ request = <<>> /\ HasRow(b) /\ HeaderEnd(b) # 0
    BY <1>4 DEF Parsed, HasRow
  <2>3. PICK q \in 1..Len(b), s \in S, r \in Reqs, h \in {2, 3} :
           /\ q = Min(RowEnds(b)) /\ s = a + q /\ asked[r] # <<>> /\ Composed(r, h)
           /\ Said(V, s, r) /\ s + Len(asked[r]) + 1 \in S /\ AtoI(Row(b)) = {r}
           /\ q + h > Len(b) => HeaderEnd(b) = 0
           /\ q + h <= Len(b) =>
                /\ HeaderEnd(b) = q + h
                /\ ContentLength(b) = Len(asked[r]) - h
                /\ \A i \in 1..h : b[q + i] = asked[r][i]
    <3>1. NextRequest(V, S, a, b)
      BY <1>1, <2>2, HeaderAt
    <3>. QED
      BY <3>1 DEF NextRequest
  <2>4. q + h <= Len(b)
    <3>1. q \in Nat /\ h \in Nat /\ Len(b) \in Nat
      BY <1>1
    <3>2. ~(q + h > Len(b))
      BY <2>2, <2>3
    <3>. QED
      BY <3>1, <3>2
  <2>5. pid' = r /\ b[Min(RowEnds(b))] = Unit("pid", r, 0)
    <3>1. b[q] = V[a + q] /\ V[a + q] = Unit("pid", r, 0)
      BY <2>3 DEF Holds, Said
    <3>. QED
      BY <2>1, <2>3, <3>1
  <2>6. PICK e, end : e = s + h /\ end = a + Len(b)
    OBVIOUS
  <2>7. HeaderBehind(V, b, r, h, e, end)
    <3>1. HeaderIs(b, q, h, r)
      BY <2>3, <2>4 DEF HeaderIs
    <3>2. /\ q \in 1..Len(b) /\ s \in S /\ r \in Reqs /\ h \in {2, 3}
          /\ s = a + q /\ Composed(r, h) /\ request = <<>>
      BY <2>2, <2>3
    <3>. QED
      BY <1>1, <2>6, <3>1, <3>2, HeaderCuts
  <2>8. PICK z, req, len : z = AfterHeader(b) /\ req = WithHeader(b) /\ len = ContentLength(b)
    OBVIOUS
  <2>9. /\ z \in Seq(Units) /\ Holds(z, V, e) /\ req = Prefix(asked[r], h)
        /\ len = Len(asked[r]) - h /\ s \in Nat /\ ParsesBody(r, req, len, z)
    <3>1. /\ z \in Seq(Units) /\ Holds(z, V, e) /\ req = Prefix(asked[r], h)
      BY <2>7, <2>8 DEF HeaderBehind
    <3>2. len = Len(asked[r]) - h /\ s \in Nat
      BY <2>3, <2>4, <2>8
    <3>3. ParsesBody(r, req, len, z)
      BY <2>1, <2>5, <2>8
    <3>. QED
      BY <3>1, <3>2, <3>3
  <2>10. TakesOwn(r, req, len, z)
    BY <2>3, <2>6, <2>9, BodyIsOwn
  <2>. QED
    BY <1>4, <2>1, <2>5, <2>8, <2>10 DEF ParsesOwn, Unit
<1>. QED
  BY <1>2, <1>3, <1>4

\* A chunk brings the parser to the end of what it is given, or ends the daemon.
LEMMA ChunkParses ==
  ASSUME TypeOK, Steady, NEW V \in Seq(Units), NEW S \in SUBSET Nat, Serial(V, S),
         NEW a \in Nat, Parsed(V, S, a), NEW data \in Seq(Units), NEW next, NEW b, b = buf \o data,
         Holds(b, V, a), a + Len(b) <= Len(V), ParsesOwn(b, next), asked' = asked
  PROVE  \/ /\ mode' \in {"noPid", "noHeader"} /\ UNCHANGED children
            /\ ~in_data /\ (RowEnds(b) = {} \/ HeaderEnd(b) = 0)
         \/ mode' = next /\ Parses(V, S, a + Len(b))
<1>1. b \in Seq(Units)
  BY DEF TypeOK
<1>2. CASE in_data
  <2>1. /\ TakesOwn(pid, request, content_len, b) /\ mode' = next
        /\ pid' = pid /\ content_len' = content_len
    BY <1>2 DEF ParsesOwn
  <2>2. PICK h \in {2, 3}, s \in S :
          /\ Composed(pid, h) /\ a = s + h
          /\ Said(V, s, pid) /\ s + Len(asked[pid]) + 1 \in S
          /\ request = Prefix(asked[pid], h)
          /\ content_len = Len(asked[pid]) - h
    BY <1>2 DEF Parsed
  <2>3. pid \in Reqs /\ asked[pid] # <<>>
    BY <1>2 DEF Parsed
  <2>4. PICK p \in Reqs : p = pid
    BY <2>3
  <2>5. PICK req, len : req = request /\ len = content_len
    OBVIOUS
  <2>6. /\ Composed(p, h) /\ a = s + h /\ Said(V, s, p) /\ s + Len(asked[p]) + 1 \in S
        /\ asked[p] # <<>> /\ len = Len(asked[p]) - h /\ req = Prefix(asked[p], h)
        /\ TakesOwn(p, req, len, b) /\ pid' = p /\ content_len' = len
    BY <2>1, <2>2, <2>3, <2>4, <2>5
  <2>7. Parses(V, S, a + Len(b))
    BY <1>1, <2>6, BodyTaken
  <2>. QED
    BY <2>1, <2>7
<1>3. CASE ~in_data /\ (RowEnds(b) = {} \/ HeaderEnd(b) = 0)
  <2>1. mode' \in {"noPid", "noHeader"} /\ UNCHANGED children
    BY <1>3 DEF ParsesOwn
  <2>. QED
    BY <1>3, <2>1
<1>4. CASE ~in_data /\ ~(RowEnds(b) = {} \/ HeaderEnd(b) = 0)
  <2>1. /\ pid' = b[Min(RowEnds(b))].r /\ content_len' = ContentLength(b) /\ mode' = next
        /\ TakesOwn(pid', WithHeader(b), content_len', AfterHeader(b))
    BY <1>4 DEF ParsesOwn
  <2>2. a + 1 \in S /\ request = <<>> /\ HasRow(b) /\ HeaderEnd(b) # 0
    BY <1>4 DEF Parsed, HasRow
  <2>3. Parses(V, S, a + Len(b))
    BY <1>1, <2>1, <2>2, FreshParses
  <2>. QED
    BY <2>1, <2>3
<1>. QED
  BY <1>2, <1>3, <1>4

-----------------------------------------------------------------------------
(* How the frames move.                                                      *)

\* What the daemon has still to look at, and how the two parts of it lie.
LEMMA FlowTyped ==
  ASSUME TypeOK
  PROVE  /\ Flow \in Seq(Units) /\ Len(Flow) = Len(sbuf) + Len(wire)
         /\ Len(Flow) \in Nat /\ Len(sbuf) \in Nat /\ Len(wire) \in Nat
         /\ \A i \in 1..Len(sbuf) : Flow[i] = sbuf[i]
         /\ \A i \in 1..Len(wire) : Flow[Len(sbuf) + i] = wire[i]
<1>1. sbuf \in Seq(Units) /\ wire \in Seq(Units)
  BY DEF TypeOK
<1>. QED
  BY <1>1, Joins DEF Flow

\* The first k units of the flow are taken; c2 says of the rest what c said.
Taken(k, c, c2) ==
  /\ Len(Flow) = k + Len(Flow')
  /\ \A i \in 1..Len(Flow') : Flow'[i] = Flow[k + i]
  /\ \A i \in Nat : c2[i] = c[k + i]
  /\ \A n \in Nat : mode' = "buf" /\ n = size' => Opens(k, n)
  /\ eof' = eof
  /\ causes' = {} => causes = {}

\* V2 is V where the chunks behind the first k units are.
Agree(V, V2, c, k) ==
  \A i, n \in Nat : i >= k /\ Opens(i, n) => \A j \in 1..n : V2[c[i] + j] = V[c[i] + j]

\* The chunks that are left began further on.
LEMMA TakenOpens ==
  ASSUME NEW k \in Nat, NEW c, NEW c2, Len(Flow) \in Nat, Len(Flow') \in Nat, Taken(k, c, c2),
         NEW i \in Nat, NEW n \in Nat, Opens(i, n)', NEW h, h = k + i
  PROVE  h \in Nat /\ h >= k /\ Opens(h, n)
<1>1. PICK M \in Nat : M = Len(Flow')
  OBVIOUS
<1>2. h \in Nat /\ h >= k
  OBVIOUS
<1>3. CASE i \in 1..M /\ Flow'[i].k = "size" /\ n = Flow'[i].n
  <2>1. Flow'[i] = Flow[h] /\ Len(Flow) = k + M
    BY <1>1, <1>3 DEF Taken
  <2>2. h \in 1..Len(Flow)
    BY <1>3, <2>1
  <2>. QED
    BY <1>2, <1>3, <2>1, <2>2 DEF Opens
<1>4. CASE i = 0 /\ mode' = "buf" /\ n = size'
  <2>1. h = k
    BY <1>4
  <2>2. Opens(k, n)
    BY <1>4 DEF Taken
  <2>. QED
    BY <1>2, <2>1, <2>2
<1>. QED
  BY <1>1, <1>3, <1>4 DEF Opens

\* What follows a chunk follows it still.
LEMMA TakenSizes ==
  ASSUME NEW k \in Nat, NEW c, NEW c2, Len(Flow) \in Nat, Len(Flow') \in Nat, Taken(k, c, c2),
         NEW d, NEW e, NEW i \in Nat, NEW h, h = k + i, SizeAt(c, d, h, e)
  PROVE  SizeAt(c2, d, i, e)'
<1>1. PICK M \in Nat : M = Len(Flow') /\ Len(Flow) = k + M
  BY DEF Taken
<1>2. CASE i < M
  <2>1. h < Len(Flow) /\ i + 1 \in 1..M /\ h + 1 = k + (i + 1)
    BY <1>1, <1>2
  <2>2. Flow[h + 1].k = "size" /\ c[h + 1] = e
    BY <2>1 DEF SizeAt
  <2>3. PICK m \in 1..M : m = i + 1 /\ h + 1 = k + m
    BY <2>1
  <2>4. Flow'[m] = Flow[k + m] /\ c2[m] = c[k + m]
    BY <1>1 DEF Taken
  <2>5. Flow'[i + 1].k = "size" /\ c2[i + 1] = e
    BY <2>2, <2>3, <2>4
  <2>. QED
    BY <1>1, <1>2, <2>5 DEF SizeAt
<1>3. CASE ~(i < M)
  <2>1. ~(h < Len(Flow))
    BY <1>1, <1>3
  <2>. QED
    BY <1>1, <1>3, <2>1 DEF SizeAt
<1>. QED
  BY <1>2, <1>3

\* A chunk stays a chunk.
LEMMA TakenChunk ==
  ASSUME NEW k \in Nat, NEW c, NEW c2, Len(Flow) \in Nat, Len(Flow') \in Nat, Taken(k, c, c2),
         NEW V, NEW V2, Agree(V, V2, c, k), NEW d \in Nat,
         NEW i \in Nat, NEW n \in Nat, NEW h \in Nat, h = k + i, Opens(h, n), c[h] \in Nat,
         ChunkAt(V, c, d, h, n)
  PROVE  ChunkAt(V2, c2, d, i, n)'
<1>1. PICK M \in Nat : M = Len(Flow') /\ Len(Flow) = k + M
  BY DEF Taken
<1>2. PICK F, G : F = Flow /\ G = Flow' /\ \A j \in 1..M : G[j] = F[k + j]
  <2>1. \A j \in 1..Len(Flow') : Flow'[j] = Flow[k + j]
    BY DEF Taken
  <2>2. M = Len(Flow')
    BY <1>1
  <2>3. \A j \in 1..M : Flow'[j] = Flow[k + j]
    BY <2>1, <2>2
  <2>. QED
    BY <2>3
<1>3. /\ n > 0 /\ h + n <= k + M /\ c[h] + n <= d
      /\ \A j \in 1..n : F[h + j] = V[c[h] + j] /\ F[h + j].k \notin {"size", "crlf"}
      /\ ~eof => h + n < k + M
      /\ h + n < k + M => F[h + n + 1] = Crlf
      /\ SizeAt(c, d, h + n + 1, c[h] + n)
      /\ causes = {} =>
           /\ F[h + n].k \notin {"pid", "line", "clen"}
           /\ \A j \in 2..n : F[h + j] # Ping
  BY <1>1, <1>2 DEF ChunkAt
<1>4. c2[i] = c[h] /\ eof' = eof /\ (causes' = {} => causes = {})
  BY DEF Taken
<1>5. i + n <= M /\ (~eof => i + n < M)
  BY <1>3, SMTT(30)
<1>6. ASSUME NEW j \in 1..n
      PROVE  G[i + j] = F[h + j]
  <2>1. PICK m \in 1..M : m = i + j /\ k + m = h + j
    <3>1. i + j \in 1..M /\ k + (i + j) = h + j
      BY <1>5
    <3>. QED
      BY <3>1
  <2>2. G[m] = F[k + m]
    BY <1>2
  <2>. QED
    BY <2>1, <2>2
<1>7. \A j \in 1..n : V2[c[h] + j] = V[c[h] + j]
  <2>1. h >= k
    OBVIOUS
  <2>. QED
    BY <2>1 DEF Agree
<1>8. \A j \in 1..n : G[i + j] = V2[c2[i] + j] /\ G[i + j].k \notin {"size", "crlf"}
  BY <1>3, <1>4, <1>6, <1>7, ZenonT(40)
<1>9. ASSUME i + n < M
      PROVE  G[i + n + 1] = Crlf
  <2>1. PICK m \in 1..M : m = i + n + 1 /\ k + m = h + n + 1 /\ h + n < k + M
    <3>1. i + n + 1 \in 1..M /\ k + (i + n + 1) = h + n + 1 /\ h + n < k + M
      BY <1>9
    <3>. QED
      BY <3>1
  <2>2. G[m] = F[k + m]
    BY <1>2
  <2>. QED
    BY <1>3, <2>1, <2>2
<1>10. SizeAt(c2, d, i + n + 1, c2[i] + n)'
  <2>1. PICK m \in Nat, p \in Nat : m = i + n + 1 /\ p = h + n + 1 /\ p = k + m
    <3>1. i + n + 1 \in Nat /\ h + n + 1 = k + (i + n + 1)
      OBVIOUS
    <3>. QED
      BY <3>1
  <2>2. PICK e : e = c[h] + n
    OBVIOUS
  <2>3. SizeAt(c, d, p, e)
    BY <1>3, <2>1, <2>2
  <2>4. SizeAt(c2, d, m, e)'
    BY <2>1, <2>3, TakenSizes
  <2>. QED
    BY <1>4, <2>1, <2>2, <2>4
<1>11. causes = {} =>
         /\ G[i + n].k \notin {"pid", "line", "clen"}
         /\ \A j \in 2..n : G[i + j] # Ping
  <2>1. n \in 1..n /\ \A j \in 2..n : j \in 1..n
    BY <1>3
  <2>. QED
    BY <1>3, <1>6, <2>1
<1>. QED
  BY <1>1, <1>2, <1>3, <1>4, <1>5, <1>8, <1>9, <1>10, <1>11 DEF ChunkAt

\* So all the chunks behind the first k units stay chunks, and in order.
LEMMA Shifts ==
  ASSUME NEW k \in Nat, NEW c \in [Nat -> Nat], NEW c2 \in [Nat -> Nat],
         Len(Flow) \in Nat, Len(Flow') \in Nat, Taken(k, c, c2),
         NEW V, NEW V2, Agree(V, V2, c, k), NEW d \in Nat, Chunks(V, c, d)
  PROVE  Chunks(V2, c2, d)'
<1>1. ASSUME NEW i \in Nat, NEW n \in Nat, Opens(i, n)'
      PROVE  ChunkAt(V2, c2, d, i, n)'
  <2>1. PICK h \in Nat : h = k + i
    OBVIOUS
  <2>2. Opens(h, n)
    BY <1>1, <2>1, TakenOpens
  <2>3. ChunkAt(V, c, d, h, n) /\ c[h] \in Nat
    BY <2>2 DEF Chunks
  <2>. QED
    BY <2>1, <2>2, <2>3, TakenChunk
<1>2. ASSUME NEW i \in Nat, NEW j \in Nat, NEW m \in Nat, NEW n \in Nat,
             Opens(i, m)', Opens(j, n)', i < j
      PROVE  c2[i] + m <= c2[j]
  <2>1. PICK g, h \in Nat : g = k + i /\ h = k + j /\ g < h
    <3>1. k + i \in Nat /\ k + j \in Nat /\ k + i < k + j
      BY <1>2
    <3>. QED
      BY <3>1
  <2>2. Opens(g, m) /\ Opens(h, n)
    BY <1>2, <2>1, TakenOpens
  <2>3. c[g] + m <= c[h]
    BY <2>1, <2>2 DEF Chunks
  <2>4. c2[i] = c[g] /\ c2[j] = c[h]
    BY <2>1 DEF Taken
  <2>. QED
    BY <2>3, <2>4
<1>. QED
  BY <1>1, <1>2 DEF Chunks

\* A chunk ends where the stream has been framed, at the latest.
LEMMA Within ==
  ASSUME NEW e \in Nat, NEW n \in Nat, NEW d \in Nat, e + n <= d, NEW j \in 1..n
  PROVE  e + j \in 1..d
OBVIOUS

\* A stream that is as it was where it has been framed has the same chunks.
LEMMA Stays ==
  ASSUME NEW V, NEW V2, NEW c \in [Nat -> Nat], NEW d \in Nat,
         Chunks(V, c, d), Len(Flow) \in Nat, Flow' = Flow,
         UNCHANGED <<mode, size, eof>>, causes' = {} => causes = {},
         \A i \in 1..d : V2[i] = V[i]
  PROVE  Chunks(V2, c, d)' /\ \A e : Starts(c, d, e) => Starts(c, d, e)'
<1>1. ASSUME NEW i \in Nat, NEW n \in Nat, Opens(i, n), NEW j \in 1..n
      PROVE  V2[c[i] + j] = V[c[i] + j]
  <2>1. c[i] + n <= d /\ c[i] \in Nat
    BY <1>1 DEF Chunks, ChunkAt
  <2>2. PICK e \in Nat : e = c[i] /\ e + n <= d
    BY <2>1
  <2>3. e + j \in 1..d
    BY <2>2, Within
  <2>. QED
    BY <2>2, <2>3
<1>2. Agree(V, V2, c, 0)
  BY <1>1 DEF Agree
<1>3. Taken(0, c, c)
  <2>1. \A n \in Nat : mode' = "buf" /\ n = size' => Opens(0, n)
    BY DEF Opens
  <2>2. Len(Flow) = 0 + Len(Flow')
    OBVIOUS
  <2>3. \A i \in 1..Len(Flow') : Flow'[i] = Flow[0 + i]
    OBVIOUS
  <2>4. \A i \in Nat : c[i] = c[0 + i]
    OBVIOUS
  <2>. QED
    BY <2>1, <2>2, <2>3, <2>4 DEF Taken
<1>4. Chunks(V2, c, d)'
  BY <1>2, <1>3, Shifts
<1>5. ASSUME NEW e, Starts(c, d, e)
      PROVE  Starts(c, d, e)'
  BY <1>5 DEF Starts, SizeAt
<1>. QED
  BY <1>4, <1>5

-----------------------------------------------------------------------------
(* How the stream grows.                                                     *)

\* V2 goes on where V ends.
Extends(V, S, V2, S2) ==
  /\ Len(V) <= Len(V2) /\ \A i \in 1..Len(V) : V2[i] = V[i]
  /\ S \subseteq S2
  /\ \A j \in Len(V) + 1..Len(V2) : V2[j] = Ping => j \in S2

\* What a Pier has composed is not composed anew.
Remembers == \A r \in Reqs : asked[r] # <<>> => asked'[r] = asked[r]

\* A request stays where it is in the stream.
LEMMA SaidStill ==
  ASSUME TypeOK, NEW V \in Seq(Units), NEW S \in SUBSET Nat, Serial(V, S),
         NEW V2 \in Seq(Units), NEW S2 \in SUBSET Nat, Extends(V, S, V2, S2), Remembers,
         NEW s \in S, NEW r \in Reqs, asked[r] # <<>>, Said(V, s, r), s + Len(asked[r]) + 1 \in S
  PROVE  asked'[r] = asked[r] /\ Said(V2, s, r)' /\ s + Len(asked'[r]) + 1 \in S2
<1>1. asked'[r] = asked[r]
  BY DEF Remembers
<1>2. s \in Nat /\ s > 0 /\ Len(asked[r]) \in Nat /\ s + Len(asked[r]) <= Len(V)
  BY SaidWhole
<1>3. \A i \in 1..Len(V) : V2[i] = V[i]
  BY DEF Extends
<1>4. V2[s] = V[s]
  <2>1. s \in 1..Len(V)
    BY <1>2
  <2>. QED
    BY <1>3, <2>1
<1>5. ASSUME NEW i \in 1..Len(asked[r])
      PROVE  V2[s + i] = V[s + i]
  <2>1. s + i \in 1..Len(V)
    BY <1>2
  <2>. QED
    BY <1>3, <2>1
<1>6. Said(V2, s, r)'
  BY <1>1, <1>4, <1>5 DEF Said
<1>. QED
  BY <1>1, <1>6 DEF Extends

\* The parser's place in it stays.
LEMMA ParsedStill ==
  ASSUME TypeOK, NEW V \in Seq(Units), NEW S \in SUBSET Nat, Serial(V, S),
         NEW V2 \in Seq(Units), NEW S2 \in SUBSET Nat, Extends(V, S, V2, S2), Remembers,
         NEW a \in Nat, Parsed(V, S, a), UNCHANGED <<in_data, pid, request, content_len, buf>>
  PROVE  Parsed(V2, S2, a)'
<1>1. CASE in_data
  <2>1. PICK h \in {2, 3}, s \in S :
          /\ Composed(pid, h) /\ a = s + h
          /\ Said(V, s, pid) /\ s + Len(asked[pid]) + 1 \in S
          /\ request = Prefix(asked[pid], h)
          /\ content_len = Len(asked[pid]) - h
    BY <1>1 DEF Parsed
  <2>2. pid \in Reqs /\ asked[pid] # <<>> /\ Len(buf) < content_len
    BY <1>1 DEF Parsed
  <2>3. PICK p \in Reqs : p = pid
    BY <2>2
  <2>4. asked'[p] = asked[p] /\ Said(V2, s, p)' /\ s + Len(asked'[p]) + 1 \in S2
    <3>1. asked[p] # <<>> /\ Said(V, s, p) /\ s + Len(asked[p]) + 1 \in S
      BY <2>1, <2>2, <2>3
    <3>. QED
      BY <3>1, SaidStill
  <2>5. Composed(p, h)'
    BY <2>1, <2>3, <2>4 DEF Composed
  <2>6. s \in S2
    BY DEF Extends
  <2>. QED
    BY <1>1, <2>1, <2>2, <2>3, <2>4, <2>5, <2>6 DEF Parsed
<1>2. CASE ~in_data
  BY <1>2 DEF Parsed, Extends
<1>. QED
  BY <1>1, <1>2

\* The server writes on, or a read moves what is on its way.
LEMMA Grows ==
  ASSUME TypeOK, TypeOK', NEW V \in Seq(Units), NEW S \in SUBSET Nat, NEW a \in Nat, NEW d \in Nat,
         NEW c \in [Nat -> Nat], Fits(V, S, a, d, c),
         NEW V2 \in Seq(Units), NEW S2 \in SUBSET Nat, Extends(V, S, V2, S2), Remembers, Serial(V2, S2)',
         UNCHANGED <<in_data, pid, request, content_len, buf, mode, size, eof>>, Flow' = Flow,
         causes' = {} => causes = {}, Waits(V2, d)'
  PROVE  Fits(V2, S2, a, d, c)'
<1>1. Len(V) \in Nat /\ Len(V2) \in Nat /\ Len(V) <= Len(V2) /\ \A i \in 1..Len(V) : V2[i] = V[i]
  <2>1. Len(V) \in Nat /\ Len(V2) \in Nat
    BY LenProperties, Zenon
  <2>. QED
    BY <2>1 DEF Extends
<1>2. Parsed(V2, S2, a)'
  BY ParsedStill DEF Fits
<1>3. \A j \in a + 1..Len(V2) : V2[j] = Ping => j \in S2
  <2>1. ASSUME NEW j \in a + 1..Len(V2), V2[j] = Ping
        PROVE  j \in S2
    <3>1. CASE j \in Len(V) + 1..Len(V2)
      BY <2>1, <3>1 DEF Extends
    <3>2. CASE j \notin Len(V) + 1..Len(V2)
      <4>1. j \in a + 1..Len(V) /\ j \in 1..Len(V)
        BY <1>1, <3>2
      <4>2. j \in S
        BY <1>1, <2>1, <4>1 DEF Fits
      <4>. QED
        BY <4>2 DEF Extends
    <3>. QED
      BY <3>1, <3>2
  <2>. QED
    BY <2>1
<1>4. a + Len(buf) <= d /\ d <= Len(V) /\ Len(buf) \in Nat
  <2>1. feed \in Seq(Units) /\ left \in Seq(Units) /\ buf \in Seq(Units)
    BY DEF TypeOK
  <2>2. PICK x, y, z \in Nat : x = Len(feed) /\ y = Len(left) /\ z = Len(V)
    BY <2>1
  <2>3. a + Len(buf) <= d /\ d + x + y = z
    BY <2>2 DEF Fits, Queued, Waits
  <2>4. d <= z
    BY <2>2, <2>3
  <2>. QED
    BY <2>1, <2>2, <2>3, <2>4
<1>5. \A i \in 1..d : V2[i] = V[i]
  <2>1. \A i \in 1..d : i \in 1..Len(V)
    BY <1>1, <1>4
  <2>. QED
    BY <1>1, <2>1
<1>6. Holds(buf, V2, a)'
  <2>1. ASSUME NEW i \in 1..Len(buf)
        PROVE  buf[i] = V2[a + i]
    <3>1. a + i \in 1..d
      BY <1>4
    <3>2. buf[i] = V[a + i]
      BY DEF Fits, Queued, Holds
    <3>. QED
      BY <1>5, <3>1, <3>2
  <2>. QED
    BY <2>1 DEF Holds
<1>7. Queued(V2, a, d)'
  BY <1>4, <1>6 DEF Queued, Holds
<1>8. causes' = {} /\ ~in_data' => buf' = <<>>
  BY DEF Fits
<1>9. CASE mode = "down"
  <2>1. buf = <<>> /\ ~in_data /\ a = d
    BY <1>9 DEF Fits
  <2>. QED
    BY <1>2, <1>3, <1>7, <1>8, <1>9, <2>1 DEF Fits
<1>10. CASE mode # "down"
  <2>1. Chunks(V, c, d) /\ Starts(c, d, a + Len(buf))
    BY <1>10 DEF Fits
  <2>2. Len(Flow) \in Nat
    BY FlowTyped
  <2>3. Chunks(V2, c, d)' /\ \A e : Starts(c, d, e) => Starts(c, d, e)'
    BY <1>5, <2>1, <2>2, Stays
  <2>4. Starts(c, d, a + Len(buf))'
    <3>1. PICK e : e = a + Len(buf)
      OBVIOUS
    <3>2. Starts(c, d, e)'
      BY <2>1, <2>3, <3>1
    <3>. QED
      BY <3>1, <3>2
  <2>. QED
    BY <1>2, <1>3, <1>7, <1>8, <1>10, <2>3, <2>4 DEF Fits
<1>. QED
  BY <1>9, <1>10

\* A stream extends itself.
LEMMA SameStream ==
  ASSUME NEW V \in Seq(Units), NEW S
  PROVE  Extends(V, S, V, S)
<1>1. Len(V) \in Nat
  OBVIOUS
<1>2. Len(V) <= Len(V) /\ \A j \in Len(V) + 1..Len(V) : FALSE
  BY <1>1
<1>. QED
  BY <1>2 DEF Extends

\* A step that gives the children nothing keeps what the parser promises if it
\* keeps the stream.
LEMMA Goes ==
  ASSUME IInv, Streams, Steady', Runs', causes \subseteq causes', children' = children, Remembers,
         mode' \in Exits => mode \in Exits \/ causes' # {}
  PROVE  Streams'
<1>1. OwnRequest'
  <2>1. SUFFICES ASSUME Clean', NEW j \in DOMAIN children
                 PROVE  /\ children[j].pid \in Reqs
                        /\ children[j].req = asked'[children[j].pid]
    BY DEF OwnRequest, Clean
  <2>2. Clean
    BY <2>1 DEF Clean
  <2>3. children[j].pid \in Reqs /\ children[j].req = asked[children[j].pid]
    BY <2>1, <2>2 DEF Streams, OwnRequest, Clean
  <2>4. children[j].pid # Stray
    BY <2>3, ConstantsAssumption
  <2>5. children[j].pid \in Answered
    BY <2>1, <2>4 DEF Answered
  <2>6. asked[children[j].pid] # <<>>
    BY <2>2, <2>3, <2>5 DEF IInv, Routed, FromPiers, Asked
  <2>. QED
    BY <2>3, <2>6 DEF Remembers
<1>2. StaysUp'
  <2>1. mode \in Exits => causes' # {}
    BY DEF Streams, StaysUp
  <2>. QED
    BY <2>1 DEF StaysUp
<1>. QED
  BY <1>1, <1>2 DEF Streams

-----------------------------------------------------------------------------
(* Every step of the server keeps the stream.                                *)

\* What a step has to show of the stream.
LEMMA Given ==
  ASSUME Runs, Clean', mode \in Modes, causes \subseteq causes'
  PROVE  \E V \in Seq(Units), S \in SUBSET Nat, a, d \in Nat, c \in [Nat -> Nat] : Fits(V, S, a, d, c)
BY DEF Runs, Clean

\* A step that leaves Piers, parser and frames alone keeps the stream.
LEMMA Untouched ==
  ASSUME IInv, TypeOK', Streams, UNCHANGED <<asked, feed, left, in_data, pid, request, content_len, buf>>,
         mode' \in Modes \cup Exits, mode' = mode, size' = size, eof' = eof, Flow' = Flow,
         causes \subseteq causes', causes' = {} => causes = {}
  PROVE  Runs'
<1>1. SUFFICES ASSUME Clean', mode \in Modes
               PROVE  (\E V \in Seq(Units), S \in SUBSET Nat, a, d \in Nat, c \in [Nat -> Nat] :
                         Fits(V, S, a, d, c))'
  BY DEF Runs
<1>2. PICK V \in Seq(Units), S \in SUBSET Nat, a \in Nat, d \in Nat, c \in [Nat -> Nat] :
        Fits(V, S, a, d, c)
  BY <1>1, Given DEF Streams
<1>3. Extends(V, S, V, S) /\ Remembers
  BY SameStream DEF Remembers
<1>4. Serial(V, S)'
  BY <1>2 DEF Fits, Serial, Said
<1>5. Waits(V, d)'
  BY <1>2 DEF Fits, Queued, Waits, Holds
<1>6. Fits(V, S, a, d, c)'
  BY <1>2, <1>3, <1>4, <1>5, Grows DEF IInv
<1>. QED
  BY <1>6

\* The end of a Pier leaves the stream as it is.
LEMMA PierEndsGoes ==
  ASSUME IInv, TypeOK', Streams, PierEnds
  PROVE  Streams'
<1>1. /\ UNCHANGED <<asked, feed, left, in_data, pid, request, content_len, buf>>
      /\ mode' = mode /\ size' = size /\ eof' = eof /\ causes' = causes /\ children' = children
      /\ left = <<>> /\ sbuf' = sbuf /\ wire' = wire
  BY DEF PierEnds, parser
<1>2. Runs'
  BY <1>1, Untouched DEF IInv, TypeOK, Flow
<1>3. Steady'
  BY <1>1 DEF Streams, Steady, Composed
<1>4. Remembers
  BY <1>1 DEF Remembers
<1>. QED
  BY <1>1, <1>2, <1>3, <1>4, Goes

\* The death of a Pier that has written everything does, too.
LEMMA PierDiesGoes ==
  ASSUME IInv, TypeOK', Streams, PierDies
  PROVE  Streams'
<1>1. /\ UNCHANGED <<asked, feed, in_data, pid, request, content_len, buf>>
      /\ mode' = mode /\ size' = size /\ eof' = eof /\ children' = children /\ left' = <<>>
      /\ causes' = causes \cup Blame("torn", left # <<>>) /\ sbuf' = sbuf /\ wire' = wire
  BY DEF PierDies, parser
<1>2. Runs'
  <2>1. CASE left = <<>>
    <3>1. causes' = causes
      BY <1>1, <2>1 DEF Blame
    <3>. QED
      BY <1>1, <2>1, <3>1, Untouched DEF IInv, TypeOK, Flow
  <2>2. CASE left # <<>>
    <3>1. "torn" \in causes'
      BY <1>1, <2>2 DEF Blame
    <3>. QED
      BY <3>1 DEF Runs, Clean
  <2>. QED
    BY <2>1, <2>2
<1>3. Steady'
  BY <1>1 DEF Streams, Steady, Composed
<1>4. Remembers
  BY <1>1 DEF Remembers
<1>. QED
  BY <1>1, <1>2, <1>3, <1>4, Goes

\* What a Pier writes of its body was the next of the stream.
LEMMA PierWritesGoes ==
  ASSUME IInv, TypeOK', Streams, PierWrites
  PROVE  Streams'
<1>1. /\ UNCHANGED <<cur, asked, in_data, pid, request, content_len, buf, mode, size, eof>>
      /\ mode' = mode /\ causes' = causes /\ children' = children
      /\ sbuf' = sbuf /\ wire' = wire /\ left # <<>>
      /\ feed' = Append(feed, Head(left)) /\ left' = Tail(left)
  BY DEF PierWrites, parser
<1>2. PICK n, m \in Nat : n = Len(feed) /\ m + 1 = Len(left)
  <2>1. Len(feed) \in Nat /\ Len(left) \in Nat /\ Len(left) > 0
    <3>1. PICK f, l \in Seq(Units) : f = feed /\ l = left
      BY DEF IInv, TypeOK
    <3>2. l # <<>>
      BY <1>1, <3>1
    <3>3. Len(f) \in Nat /\ Len(l) \in Nat /\ Len(l) > 0
      BY <3>2
    <3>. QED
      BY <3>1, <3>3
  <2>2. Len(left) - 1 \in Nat /\ (Len(left) - 1) + 1 = Len(left)
    BY <2>1
  <2>. QED
    BY <2>1, <2>2
<1>3. /\ Len(feed') = n + 1 /\ Len(left') = m
      /\ \A i \in 1..n : feed'[i] = feed[i]
      /\ feed'[n + 1] = left[1]
      /\ \A i \in 1..m : left'[i] = left[i + 1]
  <2>1. feed \in Seq(Units) /\ left \in Seq(Units)
    BY DEF IInv, TypeOK
  <2>. QED
    BY <1>1, <1>2, <2>1
<1>4. Steady'
  <2>1. \A j \in 1..m : left'[j] # Ping
    <3>1. \A j \in 1..m : j + 1 \in 1..Len(left)
      BY <1>2
    <3>. QED
      BY <1>3, <3>1 DEF Streams, Steady
  <2>2. \A j \in 2..n + 1 : feed'[j] # Ping
    <3>1. \A j \in 2..n + 1 : j \in 2..Len(feed) \/ j = n + 1
      BY <1>2
    <3>2. 1 \in 1..Len(left)
      BY <1>2
    <3>3. \A j \in 2..Len(feed) : j \in 1..n
      BY <1>2
    <3>. QED
      BY <1>3, <3>1, <3>2, <3>3 DEF Streams, Steady
  <2>3. cur' = None => left' = <<>>
    BY <1>1 DEF Streams, Steady
  <2>4. \A r \in Reqs : asked'[r] # <<>> => \E h \in {2, 3} : Composed(r, h)'
    BY <1>1 DEF Streams, Steady, Composed
  <2>. QED
    BY <1>3, <2>1, <2>2, <2>3, <2>4 DEF Steady
<1>5. Runs'
  <2>1. SUFFICES ASSUME Clean', mode \in Modes
                 PROVE  (\E V \in Seq(Units), S \in SUBSET Nat, a, d \in Nat, c \in [Nat -> Nat] :
                           Fits(V, S, a, d, c))'
    BY <1>1 DEF Runs
  <2>2. PICK V \in Seq(Units), S \in SUBSET Nat, a \in Nat, d \in Nat, c \in [Nat -> Nat] :
          Fits(V, S, a, d, c)
    BY <1>1, <2>1, Given DEF Streams
  <2>3. Extends(V, S, V, S) /\ Remembers
    BY <1>1, SameStream DEF Remembers
  <2>4. Serial(V, S)'
    BY <1>1, <2>2 DEF Fits, Serial, Said
  <2>5. Waits(V, d)'
    <3>1. Holds(feed, V, d) /\ Holds(left, V, d + n) /\ d + n + (m + 1) = Len(V)
      BY <1>2, <2>2 DEF Fits, Queued, Waits
    <3>2. Holds(feed', V, d)
      <4>1. ASSUME NEW i \in 1..n + 1
            PROVE  feed'[i] = V[d + i]
        <5>1. CASE i \in 1..n
          BY <1>2, <1>3, <3>1, <5>1 DEF Holds
        <5>2. CASE i = n + 1
          <6>1. 1 \in 1..Len(left) /\ (d + n) + 1 = d + (n + 1)
            BY <1>2
          <6>. QED
            BY <1>3, <3>1, <5>2, <6>1 DEF Holds
        <5>3. i \in 1..n \/ i = n + 1
          OBVIOUS
        <5>. QED
          BY <5>1, <5>2, <5>3
      <4>. QED
        BY <1>3, <4>1 DEF Holds
    <3>3. Holds(left', V, d + (n + 1))
      <4>1. ASSUME NEW i \in 1..m
            PROVE  left'[i] = V[(d + (n + 1)) + i]
        <5>1. i + 1 \in 1..Len(left) /\ (d + n) + (i + 1) = (d + (n + 1)) + i
          BY <1>2
        <5>. QED
          BY <1>3, <3>1, <5>1 DEF Holds
      <4>. QED
        BY <1>3, <4>1 DEF Holds
    <3>4. d + (n + 1) + m = Len(V)
      BY <1>2, <3>1
    <3>. QED
      BY <1>3, <3>2, <3>3, <3>4 DEF Waits, Holds
  <2>6. Fits(V, S, a, d, c)'
    BY <1>1, <2>2, <2>3, <2>4, <2>5, Grows DEF IInv, Flow
  <2>. QED
    BY <2>6
<1>6. Remembers
  BY <1>1 DEF Remembers
<1>. QED
  BY <1>1, <1>4, <1>5, <1>6, Goes

\* U is V and then W.
Joined(U, V, W) == U = V \o W

\* Sums of lengths.
LEMMA SumOfThree ==
  ASSUME NEW d \in Nat, NEW n \in Nat, NEW p \in Nat, NEW t \in Nat, NEW v \in Nat, d + n = v
  PROVE  d + (n + p) = v + p /\ d + (n + p) + t = v + (p + t)
OBVIOUS

\* The place behind a request.
LEMMA LastPlace ==
  ASSUME NEW v \in Nat, NEW w \in Nat, NEW x \in Nat, w = x + 1
  PROVE  (v + 1) + x + 1 = v + w + 1
OBVIOUS

\* What is written when nothing is left to write waits behind what waited.
LEMMA WaitsMore ==
  ASSUME TypeOK, NEW V \in Seq(Units), NEW d \in Nat, Waits(V, d), left = <<>>,
         NEW P \in Seq(Units), NEW T \in Seq(Units), feed' = feed \o P, left' = T,
         NEW U, Joined(U, V, P \o T)
  PROVE  Waits(U, d)'
<1>1. PICK f : f = feed
  OBVIOUS
<1>2. f \in Seq(Units)
  BY <1>1 DEF TypeOK
<1>3. PICK n, v, p, t \in Nat : n = Len(f) /\ v = Len(V) /\ p = Len(P) /\ t = Len(T)
  <2>1. Len(f) \in Nat /\ Len(V) \in Nat /\ Len(P) \in Nat /\ Len(T) \in Nat
    BY <1>2, LenProperties, Zenon
  <2>. QED
    BY <2>1
<1>4. PICK W : W = P \o T
  OBVIOUS
<1>5. /\ W \in Seq(Units) /\ Len(W) = p + t
      /\ \A i \in 1..p : W[i] = P[i]
      /\ \A i \in 1..t : W[p + i] = T[i]
  <2>1. /\ P \o T \in Seq(Units) /\ Len(P \o T) = Len(P) + Len(T)
        /\ \A i \in 1..Len(P) : (P \o T)[i] = P[i]
        /\ \A i \in 1..Len(T) : (P \o T)[Len(P) + i] = T[i]
    BY Joins
  <2>. QED
    BY <1>3, <1>4, <2>1
<1>6. /\ Len(U) = v + (p + t)
      /\ \A i \in 1..v : U[i] = V[i]
      /\ \A i \in 1..p + t : U[v + i] = W[i]
  <2>1. /\ V \o W \in Seq(Units) /\ Len(V \o W) = Len(V) + Len(W)
        /\ \A i \in 1..Len(V) : (V \o W)[i] = V[i]
        /\ \A i \in 1..Len(W) : (V \o W)[Len(V) + i] = W[i]
    BY <1>5, Joins
  <2>. QED
    BY <1>3, <1>4, <1>5, <2>1 DEF Joined
<1>7. PICK g : g = feed'
  OBVIOUS
<1>8. /\ Len(g) = n + p
      /\ \A i \in 1..n : g[i] = f[i]
      /\ \A i \in 1..p : g[n + i] = P[i]
  <2>1. /\ f \o P \in Seq(Units) /\ Len(f \o P) = Len(f) + Len(P)
        /\ \A i \in 1..Len(f) : (f \o P)[i] = f[i]
        /\ \A i \in 1..Len(P) : (f \o P)[Len(f) + i] = P[i]
    BY <1>2, Joins
  <2>. QED
    BY <1>1, <1>3, <1>7, <2>1
<1>9. d + n = v /\ Holds(f, V, d)
  <2>1. Holds(feed, V, d) /\ d + Len(feed) + Len(left) = Len(V) /\ Len(left) = 0
    <3>1. Len(left) = 0
      OBVIOUS
    <3>. QED
      BY <3>1 DEF Waits
  <2>2. d + n + 0 = v
    BY <1>1, <1>3, <2>1
  <2>3. d + n = v
    BY <1>3, <2>2, SMTT(30)
  <2>. QED
    BY <1>1, <2>1, <2>3
<1>10. Holds(g, U, d)
  <2>1. ASSUME NEW i \in 1..n + p
        PROVE  g[i] = U[d + i]
    <3>1. CASE i \in 1..n
      <4>1. d + i \in 1..v
        BY <1>9, <3>1
      <4>. QED
        BY <1>3, <1>6, <1>8, <1>9, <3>1, <4>1 DEF Holds
    <3>2. CASE i \notin 1..n
      <4>1. PICK j \in 1..p : i = n + j /\ d + i = v + j /\ j \in 1..p + t
        <5>1. i - n \in 1..p /\ i = n + (i - n) /\ d + i = v + (i - n) /\ i - n \in 1..p + t
          BY <1>9, <3>2
        <5>. QED
          BY <5>1
      <4>2. g[i] = P[j]
        BY <1>8, <4>1
      <4>3. P[j] = W[j]
        BY <1>5
      <4>4. W[j] = U[d + i]
        BY <1>6, <4>1
      <4>. QED
        BY <4>2, <4>3, <4>4
    <3>. QED
      BY <3>1, <3>2
  <2>. QED
    BY <1>8, <2>1 DEF Holds
<1>11. Holds(T, U, v + p)
  <2>1. ASSUME NEW i \in 1..t
        PROVE  T[i] = U[(v + p) + i]
    <3>1. PICK j \in 1..p + t : j = p + i /\ (v + p) + i = v + j
      <4>1. p + i \in 1..p + t /\ (v + p) + i = v + (p + i)
        OBVIOUS
      <4>. QED
        BY <4>1
    <3>. QED
      BY <1>5, <1>6, <3>1
  <2>. QED
    BY <1>3, <2>1 DEF Holds
<1>12. d + Len(g) = v + p /\ d + Len(g) + Len(T) = Len(U)
  <2>1. n \in Nat /\ v \in Nat /\ p \in Nat /\ t \in Nat /\ d + n = v
    BY <1>3, <1>9
  <2>2. d + (n + p) = v + p /\ d + (n + p) + t = v + (p + t)
    BY <2>1, SumOfThree
  <2>. QED
    BY <1>3, <1>6, <1>8, <2>2
<1>13. Holds(g, U, d) /\ Holds(T, U, d + Len(g)) /\ d + Len(g) + Len(T) = Len(U)
  BY <1>10, <1>11, <1>12
<1>. QED
  BY <1>7, <1>13 DEF Waits, Holds

\* What begins in front of the stream's end begins there still.
LEMMA PlaceStill ==
  ASSUME TypeOK, NEW V \in Seq(Units), NEW S \in SUBSET Nat, Serial(V, S),
         NEW U \in Seq(Units), NEW S2 \in SUBSET Nat, Extends(V, S, U, S2), Remembers,
         NEW s \in S, s <= Len(V)
  PROVE  \/ U[s] = Ping /\ s + 1 \in S2
         \/ \E r \in Reqs : asked'[r] # <<>> /\ Said(U, s, r)' /\ s + Len(asked'[r]) + 1 \in S2
<1>1. /\ s \in 1..Len(V)
      /\ V[s] = Ping => s + 1 \in S
      /\ V[s] # Ping => \E r \in Reqs : /\ asked[r] # <<>> /\ Said(V, s, r)
                                        /\ s + Len(asked[r]) + 1 \in S
  BY PlaceSays
<1>2. U[s] = V[s] /\ S \subseteq S2
  BY <1>1 DEF Extends
<1>3. CASE V[s] = Ping
  BY <1>1, <1>2, <1>3
<1>4. CASE V[s] # Ping
  <2>1. PICK r \in Reqs : asked[r] # <<>> /\ Said(V, s, r) /\ s + Len(asked[r]) + 1 \in S
    BY <1>1, <1>4
  <2>2. asked'[r] = asked[r] /\ Said(U, s, r)' /\ s + Len(asked'[r]) + 1 \in S2
    BY <2>1, SaidStill
  <2>. QED
    BY <2>1, <2>2
<1>. QED
  BY <1>3, <1>4

\* W is a ping, or the pid of a Pier and what it has composed now.
Batch(W) ==
  /\ \A i \in 1..Len(W) : W[i].k \notin {"size", "crlf"} /\ (W[i] = Ping => i = 1)
  /\ \/ W = <<Ping>>
     \/ \E r \in Reqs : /\ asked'[r] # <<>> /\ asked'[r] \in Seq(Units)
                        /\ Len(W) = Len(asked'[r]) + 1
                        /\ W[1] = Unit("pid", r, 0)
                        /\ \A i \in 1..Len(asked'[r]) : W[1 + i] = asked'[r][i]

\* A ping or a request behind the stream makes a longer one.
LEMMA SerialMore ==
  ASSUME TypeOK, NEW V \in Seq(Units), NEW S \in SUBSET Nat, Serial(V, S), Remembers,
         NEW W \in Seq(Units), Batch(W), NEW U, Joined(U, V, W),
         NEW S2, S2 = S \cup {Len(V) + Len(W) + 1}
  PROVE  U \in Seq(Units) /\ Serial(U, S2)' /\ Extends(V, S, U, S2)
<1>1. PICK v, w \in Nat : v = Len(V) /\ w = Len(W)
  <2>1. Len(V) \in Nat /\ Len(W) \in Nat
    BY LenProperties, Zenon
  <2>. QED
    BY <2>1
<1>2. /\ U \in Seq(Units) /\ Len(U) = v + w
      /\ \A i \in 1..v : U[i] = V[i]
      /\ \A i \in 1..w : U[v + i] = W[i]
  <2>1. /\ V \o W \in Seq(Units) /\ Len(V \o W) = Len(V) + Len(W)
        /\ \A i \in 1..Len(V) : (V \o W)[i] = V[i]
        /\ \A i \in 1..Len(W) : (V \o W)[Len(V) + i] = W[i]
    BY Joins
  <2>. QED
    BY <1>1, <2>1 DEF Joined
<1>3. w > 0
  <2>1. CASE W = <<Ping>>
    BY <1>1, <2>1
  <2>2. CASE W # <<Ping>>
    <3>1. PICK r \in Reqs : asked'[r] \in Seq(Units) /\ Len(W) = Len(asked'[r]) + 1
      BY <2>2 DEF Batch
    <3>2. Len(asked'[r]) \in Nat
      BY <3>1
    <3>. QED
      BY <1>1, <3>1, <3>2
  <2>. QED
    BY <2>1, <2>2
<1>4. S2 \in SUBSET Nat /\ S2 \subseteq 1..Len(U) + 1 /\ Len(U) + 1 \in S2 /\ v + 1 \in S
  <2>1. S \subseteq 1..v + 1 /\ v + 1 \in S
    BY <1>1 DEF Serial
  <2>2. v + w + 1 \in 1..v + w + 1 /\ v + w + 1 \in Nat /\ 1..v + 1 \subseteq 1..v + w + 1
    BY <1>1
  <2>3. S2 = S \cup {v + w + 1} /\ Len(U) + 1 = v + w + 1
    BY <1>1, <1>2
  <2>. QED
    BY <2>1, <2>2, <2>3, ZenonT(30)
<1>5. ASSUME NEW j \in 1..v + w
      PROVE  /\ U[j].k \notin {"size", "crlf"}
             /\ j > v /\ U[j] = Ping => j \in S2
  <2>1. CASE j \in 1..v
    <3>1. U[j].k \notin {"size", "crlf"}
      BY <1>1, <1>2, <2>1 DEF Serial
    <3>. QED
      BY <2>1, <3>1
  <2>2. CASE j \notin 1..v
    <3>1. PICK i \in 1..w : j = v + i
      <4>1. j - v \in 1..w /\ j = v + (j - v)
        BY <2>2
      <4>. QED
        BY <4>1
    <3>2. U[j] = W[i]
      BY <1>2, <3>1
    <3>3. U[j].k \notin {"size", "crlf"} /\ (U[j] = Ping => i = 1)
      BY <1>1, <3>2 DEF Batch
    <3>. QED
      BY <1>4, <3>1, <3>3
  <2>. QED
    BY <2>1, <2>2
<1>6. Extends(V, S, U, S2)
  <2>1. v <= v + w /\ \A j \in v + 1..v + w : j \in 1..v + w /\ j > v
    BY <1>1
  <2>. QED
    BY <1>1, <1>2, <1>5, <2>1 DEF Extends
<1>7. ASSUME NEW s \in S2, s <= v + w
      PROVE  \/ U[s] = Ping /\ s + 1 \in S2
             \/ \E r \in Reqs : asked'[r] # <<>> /\ Said(U, s, r)' /\ s + Len(asked'[r]) + 1 \in S2
  <2>1. s \in S
    <3>1. s # v + w + 1
      BY <1>4, <1>7
    <3>. QED
      BY <1>1, <3>1
  <2>2. CASE s <= v
    <3>1. s \in S /\ s <= Len(V) /\ U \in Seq(Units) /\ S2 \in SUBSET Nat
      BY <1>1, <1>2, <1>4, <2>1, <2>2
    <3>. QED
      BY <1>6, <3>1, PlaceStill, SMTT(40)
  <2>3. CASE ~(s <= v)
    <3>1. s = v + 1
      <4>1. s \in 1..v + 1
        BY <1>1, <2>1 DEF Serial
      <4>. QED
        BY <2>3, <4>1
    <3>2. 1 \in 1..w /\ U[s] = W[1]
      BY <1>2, <1>3, <3>1
    <3>3. CASE W = <<Ping>>
      <4>1. w = 1 /\ W[1] = Ping
        BY <1>1, <3>3
      <4>2. s + 1 = v + w + 1
        BY <3>1, <4>1
      <4>. QED
        BY <1>1, <3>2, <4>1, <4>2
    <3>4. CASE W # <<Ping>>
      <4>1. PICK r \in Reqs : /\ asked'[r] # <<>> /\ asked'[r] \in Seq(Units)
                              /\ Len(W) = Len(asked'[r]) + 1
                              /\ W[1] = Unit("pid", r, 0)
                              /\ \A i \in 1..Len(asked'[r]) : W[1 + i] = asked'[r][i]
        BY <3>4 DEF Batch
      <4>2. PICK x \in Nat : x = Len(asked'[r]) /\ w = x + 1
        <5>1. Len(asked'[r]) \in Nat
          BY <4>1
        <5>. QED
          BY <1>1, <4>1, <5>1
      <4>3. ASSUME NEW i \in 1..x
            PROVE  U[s + i] = asked'[r][i]
        <5>1. PICK j \in 1..w : j = 1 + i /\ s + i = v + j
          <6>1. 1 + i \in 1..w /\ s + i = v + (1 + i)
            BY <3>1, <4>2
          <6>. QED
            BY <6>1
        <5>. QED
          BY <1>2, <4>1, <4>2, <5>1
      <4>4. Said(U, s, r)'
        BY <3>2, <4>1, <4>2, <4>3 DEF Said
      <4>5. s + x + 1 = v + w + 1
        BY <1>1, <3>1, <4>2, LastPlace
      <4>. QED
        BY <1>1, <4>1, <4>2, <4>4, <4>5
    <3>. QED
      BY <3>3, <3>4
  <2>. QED
    BY <2>2, <2>3
<1>8. Serial(U, S2)'
  BY <1>2, <1>4, <1>5, <1>7 DEF Serial
<1>. QED
  BY <1>2, <1>4, <1>6, <1>8

\* Rows behind each other.
LEMMA RowsJoin ==
  ASSUME NEW x, NEW y, NEW z
  PROVE  <<x>> \o <<>> \o <<z>> = <<x, z>> /\ <<x>> \o <<y>> \o <<z>> = <<x, y, z>>
<1>1. PICK S : S = {x, y, z}
  OBVIOUS
<1>2. ASSUME NEW p \in S, NEW q \in S
      PROVE  <<p>> \o <<q>> = <<p, q>>
  <2>1. <<p>> \in Seq(S) /\ <<q>> \in Seq(S) /\ <<p, q>> \in Seq(S)
    OBVIOUS
  <2>2. /\ <<p>> \o <<q>> \in Seq(S) /\ Len(<<p>> \o <<q>>) = Len(<<p>>) + Len(<<q>>)
        /\ \A i \in 1..Len(<<p>>) : (<<p>> \o <<q>>)[i] = <<p>>[i]
        /\ \A i \in 1..Len(<<q>>) : (<<p>> \o <<q>>)[Len(<<p>>) + i] = <<q>>[i]
    BY <2>1, Joins
  <2>3. PICK u, t : u = <<p>> \o <<q>> /\ t = <<p, q>>
    OBVIOUS
  <2>4. u \in Seq(S) /\ Len(u) = 2 /\ u[1] = p /\ u[2] = q
    BY <2>2, <2>3
  <2>5. t \in Seq(S) /\ Len(t) = 2 /\ t[1] = p /\ t[2] = q
    BY <2>1, <2>3
  <2>6. Len(u) = Len(t) /\ \A i \in 1..Len(u) : u[i] = t[i]
    <3>1. \A i \in 1..2 : i = 1 \/ i = 2
      OBVIOUS
    <3>. QED
      BY <2>4, <2>5, <3>1
  <2>. QED
    BY <2>3, <2>4, <2>5, <2>6, SeqEqual
<1>3. <<x>> \o <<>> = <<x>>
  <2>1. <<x>> \in Seq(S)
    BY <1>1
  <2>. QED
    BY <2>1, ConcatEmptySeq
<1>4. <<x>> \o <<y>> \o <<z>> = <<x, y, z>>
  <2>1. PICK w : w = <<x, y>>
    OBVIOUS
  <2>2. w \in Seq(S) /\ <<z>> \in Seq(S) /\ <<x, y, z>> \in Seq(S)
    BY <1>1, <2>1
  <2>3. /\ w \o <<z>> \in Seq(S) /\ Len(w \o <<z>>) = Len(w) + Len(<<z>>)
        /\ \A i \in 1..Len(w) : (w \o <<z>>)[i] = w[i]
        /\ \A i \in 1..Len(<<z>>) : (w \o <<z>>)[Len(w) + i] = <<z>>[i]
    BY <2>2, Joins
  <2>4. w \o <<z>> = <<x, y, z>>
    <3>1. PICK u, t : u = w \o <<z>> /\ t = <<x, y, z>>
      OBVIOUS
    <3>2. Len(w) = 2 /\ w[1] = x /\ w[2] = y
      BY <2>1
    <3>3. u \in Seq(S) /\ Len(u) = 3 /\ u[1] = x /\ u[2] = y /\ u[3] = z
      BY <2>3, <3>1, <3>2
    <3>4. t \in Seq(S) /\ Len(t) = 3 /\ t[1] = x /\ t[2] = y /\ t[3] = z
      BY <2>2, <3>1
    <3>5. Len(u) = Len(t) /\ \A i \in 1..Len(u) : u[i] = t[i]
      <4>1. \A i \in 1..3 : i = 1 \/ i = 2 \/ i = 3
        OBVIOUS
      <4>. QED
        BY <3>3, <3>4, <4>1
    <3>. QED
      BY <3>1, <3>3, <3>4, <3>5, SeqEqual
  <2>5. <<x>> \o <<y>> = w
    BY <1>1, <1>2, <2>1
  <2>. QED
    BY <2>4, <2>5
<1>. QED
  BY <1>1, <1>2, <1>3, <1>4

\* A is a header of h rows of r and as many units of body as it says.
WellMade(A, r, h) ==
  /\ h <= Len(A) /\ A[1].k = "line" /\ A[h].k = "blank"
  /\ \/ h = 2 /\ Len(A) = 2
     \/ h = 3 /\ A[2] = Unit("clen", r, Len(A) - 3)
  /\ \A i \in 1..Len(A) :
       /\ A[i].r = r
       /\ A[i].k \notin {"pid", "size", "crlf"}
       /\ i > h => \E k \in {"body", "zero"} : A[i] = Unit(k, r, i - h)

\* A Pier composes a line, the length of the body if there is one, a blank row
\* and the body.
LEMMA Composes ==
  ASSUME NEW r \in Reqs, NEW b \in Bodies, NEW A, Joined(A, Header(r, b), Body(r, b))
  PROVE  \E h \in {2, 3} : WellMade(A, r, h)
<1>1. PICK n \in Nat : n = Len(b) /\ DOMAIN b = 1..n /\ \A i \in 1..n : b[i] \in {"body", "zero"}
  <2>1. b \in Seq({"body", "zero"})
    BY ConstantsAssumption
  <2>. QED
    BY <2>1
<1>2. Header(r, b) \in Seq(Units) /\ Body(r, b) \in Seq(Units)
  BY ComposedUnits
<1>3. PICK t : t = Body(r, b)
  OBVIOUS
<1>4. t \in Seq(Units) /\ Len(t) = n /\ \A i \in 1..n : t[i] = Unit(b[i], r, i)
  BY <1>1, <1>2, <1>3 DEF Body
<1>5. PICK g : g = Header(r, b)
  OBVIOUS
<1>6. PICK m \in Nat : m = Len(g)
  BY <1>2, <1>5
<1>7. /\ Len(A) = m + n
      /\ \A i \in 1..m : A[i] = g[i]
      /\ \A i \in 1..n : A[m + i] = t[i]
  <2>1. g \in Seq(Units) /\ t \in Seq(Units) /\ A = g \o t
    BY <1>2, <1>3, <1>5 DEF Joined
  <2>2. /\ Len(g \o t) = Len(g) + Len(t)
        /\ \A i \in 1..Len(g) : (g \o t)[i] = g[i]
        /\ \A i \in 1..Len(t) : (g \o t)[Len(g) + i] = t[i]
    BY <2>1, Joins
  <2>. QED
    BY <1>4, <1>6, <2>1, <2>2
<1>8. CASE b = <<>>
  <2>1. g = <<Unit("line", r, 0), Unit("blank", r, 0)>>
    <3>1. g = <<Unit("line", r, 0)>> \o <<>> \o <<Unit("blank", r, 0)>>
      BY <1>5, <1>8 DEF Header
    <3>. QED
      BY <3>1, RowsJoin
  <2>2. m = 2 /\ n = 0 /\ g[1] = Unit("line", r, 0) /\ g[2] = Unit("blank", r, 0)
    BY <1>1, <1>6, <1>8, <2>1
  <2>3. Len(A) = 2 /\ A[1] = Unit("line", r, 0) /\ A[2] = Unit("blank", r, 0)
    BY <1>7, <2>2
  <2>4. \A i \in 1..Len(A) : i = 1 \/ i = 2
    BY <2>3
  <2>5. \A i \in 1..Len(A) : /\ A[i].r = r
                             /\ A[i].k \notin {"pid", "size", "crlf"}
                             /\ ~(i > 2)
    BY <2>3, <2>4 DEF Unit
  <2>6. 2 <= Len(A) /\ A[1].k = "line" /\ A[2].k = "blank"
    BY <2>3 DEF Unit
  <2>7. WellMade(A, r, 2)
    BY <2>3, <2>5, <2>6 DEF WellMade
  <2>. QED
    BY <2>7
<1>9. CASE b # <<>>
  <2>1. g = <<Unit("line", r, 0), Unit("clen", r, n), Unit("blank", r, 0)>>
    <3>1. g = <<Unit("line", r, 0)>> \o <<Unit("clen", r, Len(b))>> \o <<Unit("blank", r, 0)>>
      BY <1>5, <1>9 DEF Header
    <3>. QED
      BY <1>1, <3>1, RowsJoin
  <2>2. /\ m = 3 /\ g[1] = Unit("line", r, 0) /\ g[2] = Unit("clen", r, n)
        /\ g[3] = Unit("blank", r, 0)
    BY <1>6, <2>1
  <2>3. /\ Len(A) = 3 + n /\ A[1] = Unit("line", r, 0) /\ A[2] = Unit("clen", r, n)
        /\ A[3] = Unit("blank", r, 0) /\ \A i \in 1..n : A[3 + i] = Unit(b[i], r, i)
    <3>1. 1 \in 1..m /\ 2 \in 1..m /\ 3 \in 1..m
      BY <2>2
    <3>2. A[1] = g[1] /\ A[2] = g[2] /\ A[3] = g[3] /\ Len(A) = 3 + n
      BY <1>7, <2>2, <3>1
    <3>3. \A i \in 1..n : A[3 + i] = Unit(b[i], r, i)
      BY <1>4, <1>7, <2>2
    <3>. QED
      BY <2>2, <3>2, <3>3
  <2>4. ASSUME NEW i \in 1..3 + n
        PROVE  \/ i = 1 \/ i = 2 \/ i = 3
               \/ \E j \in 1..n : i = 3 + j
    <3>1. CASE i > 3
      <4>1. i - 3 \in 1..n /\ i = 3 + (i - 3)
        BY <1>1, <3>1
      <4>. QED
        BY <4>1
    <3>2. CASE ~(i > 3)
      BY <3>2
    <3>. QED
      BY <3>1, <3>2
  <2>5. ASSUME NEW i \in 1..3 + n
        PROVE  /\ A[i].r = r
               /\ A[i].k \notin {"pid", "size", "crlf"}
               /\ i > 3 => \E k \in {"body", "zero"} : A[i] = Unit(k, r, i - 3)
    <3>1. CASE i = 1 \/ i = 2 \/ i = 3
      BY <2>3, <3>1 DEF Unit
    <3>2. CASE \E j \in 1..n : i = 3 + j
      <4>1. PICK j \in 1..n : i = 3 + j
        BY <3>2
      <4>2. A[i] = Unit(b[j], r, j) /\ b[j] \in {"body", "zero"} /\ j = i - 3
        BY <1>1, <2>3, <4>1
      <4>. QED
        BY <4>2 DEF Unit
    <3>. QED
      BY <2>4, <3>1, <3>2
  <2>6. A[2] = Unit("clen", r, Len(A) - 3) /\ A[1].k = "line" /\ A[3].k = "blank" /\ 3 <= Len(A)
    <3>1. (3 + n) - 3 = n /\ 3 <= 3 + n
      BY <1>1
    <3>. QED
      BY <2>3, <3>1 DEF Unit
  <2>7. WellMade(A, r, 3)
    BY <2>3, <2>5, <2>6 DEF WellMade
  <2>. QED
    BY <2>7
<1>. QED
  BY <1>8, <1>9

\* A ping that Connect writes when it is idle goes behind the stream.
LEMMA PingWritesGoes ==
  ASSUME IInv, TypeOK', Streams, PingWrites
  PROVE  Streams'
<1>1. /\ UNCHANGED <<cur, asked, left, in_data, pid, request, content_len, buf, mode, size, eof>>
      /\ mode' = mode /\ causes' = causes /\ children' = children
      /\ sbuf' = sbuf /\ wire' = wire /\ feed = <<>> /\ left = <<>> /\ feed' = <<Ping>>
  BY DEF PingWrites, parser
<1>2. Steady'
  <2>1. \A j \in 2..Len(feed') : feed'[j] # Ping
    BY <1>1
  <2>2. \A r \in Reqs : asked'[r] # <<>> => \E h \in {2, 3} : Composed(r, h)'
    BY <1>1 DEF Streams, Steady, Composed
  <2>. QED
    BY <1>1, <2>1, <2>2 DEF Steady
<1>3. Remembers
  BY <1>1 DEF Remembers
<1>4. Runs'
  <2>1. SUFFICES ASSUME Clean', mode \in Modes
                 PROVE  (\E V \in Seq(Units), S \in SUBSET Nat, a, d \in Nat, c \in [Nat -> Nat] :
                           Fits(V, S, a, d, c))'
    BY <1>1 DEF Runs
  <2>2. PICK V \in Seq(Units), S \in SUBSET Nat, a \in Nat, d \in Nat, c \in [Nat -> Nat] :
          Fits(V, S, a, d, c)
    BY <1>1, <2>1, Given DEF Streams
  <2>3. PICK W, S2 : W = <<Ping>> /\ S2 = S \cup {Len(V) + Len(W) + 1}
    OBVIOUS
  <2>4. W \in Seq(Units) /\ Batch(W)
    <3>1. Ping \in Units /\ Ping.k = "zero"
      BY DEF Ping, Unit, Units, Kinds
    <3>. QED
      BY <2>3, <3>1 DEF Batch
  <2>5. Serial(V, S) /\ Waits(V, d) /\ TypeOK
    BY <2>2 DEF Fits, Queued, IInv
  <2>6. PICK V2 : Joined(V2, V, W)
    BY DEF Joined
  <2>7. V2 \in Seq(Units) /\ S2 \in SUBSET Nat /\ Serial(V2, S2)' /\ Extends(V, S, V2, S2)
    <3>1. S2 = S \cup {Len(V) + Len(W) + 1} /\ V \in Seq(Units) /\ S \in SUBSET Nat
      BY <2>2, <2>3
    <3>2. V2 \in Seq(Units) /\ Serial(V2, S2)' /\ Extends(V, S, V2, S2)
      BY <1>3, <2>4, <2>5, <2>6, <3>1, SerialMore
    <3>3. S2 \in SUBSET Nat
      <4>1. Len(V) + Len(W) + 1 \in Nat
        BY <2>4, <3>1
      <4>. QED
        BY <3>1, <4>1
    <3>. QED
      BY <3>2, <3>3
  <2>8. Waits(V2, d)'
    <3>1. <<>> \in Seq(Units)
      OBVIOUS
    <3>2. W \o <<>> = W /\ feed' = feed \o W
      BY <1>1, <2>3
    <3>3. Joined(V2, V, W \o <<>>)
      BY <2>6, <3>2
    <3>. QED
      BY <1>1, <2>4, <2>5, <3>1, <3>2, <3>3, WaitsMore
  <2>9. Fits(V2, S2, a, d, c)'
    BY <1>1, <1>3, <2>2, <2>5, <2>7, <2>8, Grows DEF Flow
  <2>. QED
    BY <2>7, <2>9
<1>. QED
  BY <1>1, <1>2, <1>3, <1>4, Goes

\* W is the pid of r and then A.
Announces(W, r, A) ==
  /\ Len(W) = Len(A) + 1
  /\ W[1] = Unit("pid", r, 0)
  /\ \A i \in 1..Len(A) : W[1 + i] = A[i]

PidRow(J, r) == J = <<Unit("pid", r, 0)>>

\* What a Pier writes first and what it leaves to write are its pid and what
\* it has composed, and every unit of them is its own.
LEMMA PierSays ==
  ASSUME NEW r \in Reqs, NEW J \in Seq(Units), PidRow(J, r),
         NEW g \in Seq(Units), NEW t \in Seq(Units), NEW A \in Seq(Units), Joined(A, g, t),
         NEW h, WellMade(A, r, h), NEW P, Joined(P, J, g)
  PROVE  /\ P \in Seq(Units)
         /\ \A i \in 1..Len(P) : P[i].r = r
         /\ \A i \in 1..Len(t) : t[i].r = r
         /\ \A W : Joined(W, P, t) => W \in Seq(Units) /\ Announces(W, r, A)
<1>1. PICK m, n \in Nat : m = Len(g) /\ n = Len(t)
  OBVIOUS
<1>2. Len(J) = 1 /\ J[1] = Unit("pid", r, 0)
  BY DEF PidRow
<1>3. /\ P \in Seq(Units) /\ Len(P) = 1 + m
      /\ P[1] = Unit("pid", r, 0)
      /\ \A i \in 1..m : P[1 + i] = g[i]
  <2>1. /\ J \o g \in Seq(Units) /\ Len(J \o g) = Len(J) + Len(g)
        /\ \A i \in 1..Len(J) : (J \o g)[i] = J[i]
        /\ \A i \in 1..Len(g) : (J \o g)[Len(J) + i] = g[i]
    BY Joins
  <2>. QED
    BY <1>1, <1>2, <2>1 DEF Joined
<1>4. /\ Len(A) = m + n
      /\ \A i \in 1..m : A[i] = g[i]
      /\ \A i \in 1..n : A[m + i] = t[i]
  <2>1. /\ Len(g \o t) = Len(g) + Len(t)
        /\ \A i \in 1..Len(g) : (g \o t)[i] = g[i]
        /\ \A i \in 1..Len(t) : (g \o t)[Len(g) + i] = t[i]
    BY Joins
  <2>. QED
    BY <1>1, <2>1 DEF Joined
<1>5. ASSUME NEW i \in 1..1 + m
      PROVE  P[i].r = r
  <2>1. CASE i = 1
    BY <1>3, <2>1 DEF Unit
  <2>2. CASE i # 1
    <3>1. PICK j \in 1..m : i = 1 + j
      <4>1. i - 1 \in 1..m /\ i = 1 + (i - 1)
        BY <1>1, <2>2
      <4>. QED
        BY <4>1
    <3>2. P[i] = A[j] /\ j \in 1..Len(A)
      BY <1>3, <1>4, <3>1
    <3>. QED
      BY <3>2 DEF WellMade
  <2>. QED
    BY <2>1, <2>2
<1>6. ASSUME NEW i \in 1..n
      PROVE  t[i].r = r
  <2>1. m + i \in 1..Len(A)
    BY <1>4
  <2>. QED
    BY <1>4, <2>1 DEF WellMade
<1>7. ASSUME NEW W, Joined(W, P, t)
      PROVE  W \in Seq(Units) /\ Announces(W, r, A)
  <2>1. (J \o g) \o t = J \o (g \o t)
    BY ConcatAssociative
  <2>2. W = J \o A
    BY <1>7, <2>1 DEF Joined
  <2>3. /\ J \o A \in Seq(Units) /\ Len(J \o A) = Len(J) + Len(A) /\ Len(A) \in Nat
        /\ \A i \in 1..Len(J) : (J \o A)[i] = J[i]
        /\ \A i \in 1..Len(A) : (J \o A)[Len(J) + i] = A[i]
    BY Joins
  <2>. QED
    BY <1>2, <2>2, <2>3 DEF Announces
<1>. QED
  BY <1>1, <1>3, <1>5, <1>6, <1>7

\* A Pier that takes the lock brings the stream a whole request more.
LEMMA PierStartsGoes ==
  ASSUME IInv, TypeOK', Streams, NEW r \in Reqs, NEW b \in Bodies, PierStarts(r, b)
  PROVE  Streams'
<1>1. PICK A, J, g, T, P, W :
        /\ g = Header(r, b) /\ T = Body(r, b) /\ PidRow(J, r)
        /\ Joined(A, g, T) /\ Joined(P, J, g) /\ Joined(W, P, T)
  BY DEF Joined, PidRow
<1>2. /\ UNCHANGED <<in_data, pid, request, content_len, buf, mode, size, eof>>
      /\ mode' = mode /\ causes' = causes /\ children' = children
      /\ sbuf' = sbuf /\ wire' = wire /\ cur = None /\ cur' = r /\ asked[r] = <<>>
      /\ asked' = [asked EXCEPT ![r] = A]
  BY <1>1 DEF PierStarts, parser, Joined
<1>3. feed' = feed \o J \o g /\ left' = T
  BY <1>1 DEF PierStarts, PidRow
<1>4. feed \in Seq(Units) /\ asked \in [Reqs -> Seq(Units)] /\ r # None /\ TypeOK
  BY ConstantsAssumption DEF IInv, TypeOK
<1>5. left = <<>>
  BY <1>2 DEF Streams, Steady
<1>6. PICK h \in {2, 3} : WellMade(A, r, h)
  BY <1>1, Composes
<1>7. g \in Seq(Units) /\ T \in Seq(Units) /\ A \in Seq(Units) /\ A # <<>>
  <2>1. Header(r, b) \in Seq(Units) /\ Body(r, b) \in Seq(Units) /\ Header(r, b) \o Body(r, b) # <<>>
    BY ComposedUnits
  <2>. QED
    BY <1>1, <2>1, Joins DEF Joined
<1>8. asked'[r] = A /\ \A x \in Reqs : x # r => asked'[x] = asked[x]
  BY <1>2, <1>4
<1>9. Remembers
  BY <1>2, <1>8 DEF Remembers
<1>10. J \in Seq(Units)
  <2>1. Unit("pid", r, 0) \in Units
    BY DEF Unit, Units, Kinds, Newline
  <2>. QED
    BY <1>1, <2>1 DEF PidRow
<1>11. /\ P \in Seq(Units) /\ W \in Seq(Units)
       /\ \A i \in 1..Len(P) : P[i].r = r
       /\ \A i \in 1..Len(T) : T[i].r = r
       /\ Announces(W, r, A)
       /\ \A i \in 1..Len(A) : A[i].r = r /\ A[i].k \notin {"pid", "size", "crlf"}
  <2>1. \A i \in 1..Len(A) : A[i].r = r /\ A[i].k \notin {"pid", "size", "crlf"}
    BY <1>6 DEF WellMade
  <2>2. PidRow(J, r) /\ Joined(A, g, T) /\ Joined(P, J, g) /\ Joined(W, P, T)
    BY <1>1
  <2>3. /\ P \in Seq(Units)
        /\ \A i \in 1..Len(P) : P[i].r = r
        /\ \A i \in 1..Len(T) : T[i].r = r
        /\ \A w : Joined(w, P, T) => w \in Seq(Units) /\ Announces(w, r, A)
    BY <1>6, <1>7, <1>10, <2>2, PierSays
  <2>. QED
    BY <2>1, <2>2, <2>3
<1>12. Ping.r = None /\ feed' = feed \o P
  <2>1. PICK f : f = feed
    OBVIOUS
  <2>2. f \in Seq(Units) /\ J \in Seq(Units) /\ g \in Seq(Units)
    BY <1>4, <1>7, <1>10, <2>1
  <2>3. (f \o J) \o g = f \o (J \o g)
    BY <2>2, ConcatAssociative
  <2>4. P = J \o g
    BY <1>1 DEF Joined
  <2>. QED
    BY <1>3, <2>1, <2>3, <2>4 DEF Ping, Unit
<1>13. Steady'
  <2>1. cur' # None
    BY <1>2, <1>4
  <2>2. \A j \in 1..Len(left') : left'[j] # Ping
    BY <1>3, <1>4, <1>11, <1>12
  <2>3. ASSUME NEW j \in 2..Len(feed')
        PROVE  feed'[j] # Ping
    <3>1. /\ Len(feed') = Len(feed) + Len(P) /\ Len(feed) \in Nat /\ Len(P) \in Nat
          /\ \A i \in 1..Len(feed) : feed'[i] = feed[i]
          /\ \A i \in 1..Len(P) : feed'[Len(feed) + i] = P[i]
      <4>1. feed' = feed \o P
        BY <1>12
      <4>2. /\ Len(feed \o P) = Len(feed) + Len(P) /\ Len(feed) \in Nat /\ Len(P) \in Nat
            /\ \A i \in 1..Len(feed) : (feed \o P)[i] = feed[i]
            /\ \A i \in 1..Len(P) : (feed \o P)[Len(feed) + i] = P[i]
        BY <1>4, <1>11, Joins
      <4>. QED
        BY <4>1, <4>2
    <3>2. CASE j <= Len(feed)
      <4>1. j \in 2..Len(feed) /\ j \in 1..Len(feed)
        BY <3>1, <3>2
      <4>. QED
        BY <3>1, <4>1 DEF Streams, Steady
    <3>3. CASE ~(j <= Len(feed))
      <4>1. PICK i \in 1..Len(P) : j = Len(feed) + i
        <5>1. j - Len(feed) \in 1..Len(P) /\ j = Len(feed) + (j - Len(feed))
          BY <3>1, <3>3
        <5>. QED
          BY <5>1
      <4>. QED
        BY <1>4, <1>11, <1>12, <3>1, <4>1
    <3>. QED
      BY <3>2, <3>3
  <2>4. ASSUME NEW x \in Reqs, asked'[x] # <<>>
        PROVE  \E k \in {2, 3} : Composed(x, k)'
    <3>1. CASE x = r
      BY <1>6, <1>8, <3>1 DEF WellMade, Composed
    <3>2. CASE x # r
      <4>1. asked'[x] = asked[x]
        BY <1>8, <3>2
      <4>2. PICK k \in {2, 3} : Composed(x, k)
        BY <2>4, <4>1 DEF Streams, Steady
      <4>3. Composed(x, k)'
        BY <4>1, <4>2 DEF Composed
      <4>. QED
        BY <4>3
    <3>. QED
      BY <3>1, <3>2
  <2>. QED
    BY <2>1, <2>2, <2>3, <2>4 DEF Steady
<1>14. Batch(W)
  <2>1. Len(W) = Len(A) + 1 /\ W[1] = Unit("pid", r, 0) /\ \A i \in 1..Len(A) : W[1 + i] = A[i]
    BY <1>11 DEF Announces
  <2>2. Len(A) \in Nat
    BY <1>7
  <2>3. ASSUME NEW i \in 1..Len(W)
        PROVE  W[i].k \notin {"size", "crlf"} /\ (W[i] = Ping => i = 1)
    <3>1. CASE i = 1
      BY <2>1, <3>1 DEF Unit
    <3>2. CASE i # 1
      <4>1. PICK j \in 1..Len(A) : i = 1 + j
        <5>1. i - 1 \in 1..Len(A) /\ i = 1 + (i - 1)
          BY <2>1, <2>2, <3>2
        <5>. QED
          BY <5>1
      <4>2. W[i] = A[j]
        BY <2>1, <4>1
      <4>. QED
        BY <1>4, <1>11, <1>12, <4>2
    <3>. QED
      BY <3>1, <3>2
  <2>. QED
    BY <1>7, <1>8, <2>1, <2>3 DEF Batch
<1>15. Runs'
  <2>1. SUFFICES ASSUME Clean', mode \in Modes
                 PROVE  (\E V \in Seq(Units), S \in SUBSET Nat, a, d \in Nat, c \in [Nat -> Nat] :
                           Fits(V, S, a, d, c))'
    BY <1>2 DEF Runs
  <2>2. PICK V \in Seq(Units), S \in SUBSET Nat, a \in Nat, d \in Nat, c \in [Nat -> Nat] :
          Fits(V, S, a, d, c)
    BY <1>2, <2>1, Given DEF Streams
  <2>3. PICK S2, V2 : S2 = S \cup {Len(V) + Len(W) + 1} /\ Joined(V2, V, W)
    BY DEF Joined
  <2>4. Serial(V, S) /\ Waits(V, d)
    BY <2>2 DEF Fits, Queued
  <2>5. V2 \in Seq(Units) /\ Serial(V2, S2)' /\ Extends(V, S, V2, S2)
    BY <1>4, <1>9, <1>11, <1>14, <2>2, <2>3, <2>4, SerialMore
  <2>6. S2 \in SUBSET Nat
    <3>1. Len(V) + Len(W) + 1 \in Nat
      BY <1>11, <2>2
    <3>. QED
      BY <2>2, <2>3, <3>1
  <2>7. Waits(V2, d)'
    <3>1. Joined(V2, V, P \o T)
      BY <1>1, <2>3 DEF Joined
    <3>2. feed' = feed \o P
      BY <1>12
    <3>. QED
      BY <1>3, <1>4, <1>5, <1>7, <1>11, <2>2, <2>4, <3>1, <3>2, WaitsMore
  <2>8. Fits(V2, S2, a, d, c)'
    BY <1>2, <1>4, <1>9, <2>2, <2>5, <2>6, <2>7, Grows DEF Flow
  <2>. QED
    BY <2>5, <2>6, <2>8
<1>. QED
  BY <1>2, <1>9, <1>13, <1>15, Goes

-----------------------------------------------------------------------------
(* Every step of the daemon does, too.                                       *)

\* A read moves units from the wire to soc->buf.
LEMMA ReadGoes ==
  ASSUME IInv, TypeOK', Streams, NEW most \in Nat, NEW read \in Increased(sbuf, wire, most),
         sbuf' = read[1] /\ wire' = read[2],
         UNCHANGED <<server, eof, mode, size, buf, request, parser, children, causes, faults, pings>>
  PROVE  Streams'
<1>1. Flow' = Flow
  <2>1. PICK s, w : s = sbuf /\ w = wire
    OBVIOUS
  <2>2. s \in Seq(Units) /\ w \in Seq(Units)
    BY <2>1 DEF IInv, TypeOK
  <2>3. Len(w) \in Nat
    BY <2>2
  <2>4. PICK n \in 1..Smaller(most, Len(w)) : read = <<s \o Prefix(w, n), Suffix(w, n)>>
    BY <2>1 DEF Increased
  <2>5. n \in 0..Len(w)
    BY <2>3 DEF Smaller
  <2>6. Prefix(w, n) \in Seq(Units) /\ Suffix(w, n) \in Seq(Units)
    BY <2>2, <2>5, Cuts
  <2>7. Prefix(w, n) \o Suffix(w, n) = w
    BY <2>2, <2>5, CutJoins
  <2>8. (s \o Prefix(w, n)) \o Suffix(w, n) = s \o w
    <3>1. (s \o Prefix(w, n)) \o Suffix(w, n) = s \o (Prefix(w, n) \o Suffix(w, n))
      BY <2>2, <2>6, ConcatAssociative, SMTT(30)
    <3>. QED
      BY <2>7, <3>1
  <2>9. sbuf' = s \o Prefix(w, n) /\ wire' = Suffix(w, n)
    BY <2>4
  <2>. QED
    BY <2>1, <2>8, <2>9 DEF Flow
<1>2. Runs'
  BY <1>1, Untouched DEF server, parser, TypeOK
<1>3. Steady'
  BY SMTT(30) DEF Streams, Steady, Composed, server
<1>4. Remembers
  BY DEF Remembers, server
<1>. QED
  BY <1>2, <1>3, <1>4, Goes

\* A read for a row.
LEMMA ReadsForRowGoes ==
  ASSUME IInv, TypeOK', Streams, ReadsForRow
  PROVE  Streams'
<1>1. PICK read \in Increased(sbuf, wire, RowRead) : sbuf' = read[1] /\ wire' = read[2]
  BY DEF ReadsForRow
<1>2. RowRead \in Nat
  BY ConstantsAssumption
<1>. QED
  BY <1>1, <1>2, ReadGoes DEF ReadsForRow

\* A read for a chunk.
LEMMA ReadsForChunkGoes ==
  ASSUME IInv, TypeOK', Streams, ReadsForChunk
  PROVE  Streams'
<1>1. PICK read \in Increased(sbuf, wire, size - Len(sbuf)) : sbuf' = read[1] /\ wire' = read[2]
  BY DEF ReadsForChunk
<1>2. size - Len(sbuf) \in Nat
  BY DEF ReadsForChunk, TypeOK
<1>. QED
  BY <1>1, <1>2, ReadGoes DEF ReadsForChunk

\* A freed row that is parsed is a cause by itself.
LEMMA UsesFreedRowGoes ==
  ASSUME IInv, TypeOK', Streams, UsesFreedRow
  PROVE  Streams'
<1>1. "lost" \in causes' /\ UNCHANGED <<cur, asked, left, feed>>
  BY DEF UsesFreedRow, server
<1>2. Steady'
  BY <1>1 DEF Streams, Steady, Composed
<1>. QED
  BY <1>1, <1>2 DEF Streams, Runs, Clean, OwnRequest, StaysUp

\* A step that changes nothing.
LEMMA StutterGoes ==
  ASSUME IInv, TypeOK', Streams, UNCHANGED vars
  PROVE  Streams'
<1>1. /\ UNCHANGED <<cur, asked, feed, left, in_data, pid, request, content_len, buf>>
      /\ mode' = mode /\ size' = size /\ eof' = eof /\ causes' = causes /\ children' = children
      /\ sbuf' = sbuf /\ wire' = wire
  BY DEF vars
<1>2. Runs'
  BY <1>1, Untouched DEF IInv, TypeOK, Flow
<1>3. Steady'
  <2>1. ASSUME NEW r, NEW h, Composed(r, h)
        PROVE  Composed(r, h)'
    BY <1>1, <2>1 DEF Composed
  <2>2. asked' = asked /\ left' = left /\ feed' = feed /\ cur' = cur
    BY <1>1
  <2>. QED
    BY <2>1, <2>2 DEF Streams, Steady
<1>4. Remembers
  BY <1>1 DEF Remembers
<1>. QED
  BY <1>1, <1>2, <1>3, <1>4, Goes

\* Units cut from soc->buf are the first of what the daemon has to look at.
LEMMA FlowCut ==
  ASSUME TypeOK, TypeOK', NEW k \in 0..Len(sbuf), sbuf' = Suffix(sbuf, k), wire' = wire
  PROVE  Len(Flow) = k + Len(Flow') /\ \A i \in 1..Len(Flow') : Flow'[i] = Flow[k + i]
<1>1. /\ Len(Flow) = Len(sbuf) + Len(wire) /\ Len(sbuf) \in Nat /\ Len(wire) \in Nat
      /\ \A i \in 1..Len(sbuf) : Flow[i] = sbuf[i]
      /\ \A i \in 1..Len(wire) : Flow[Len(sbuf) + i] = wire[i]
  BY FlowTyped
<1>2. /\ Len(Flow') = Len(sbuf') + Len(wire')
      /\ \A i \in 1..Len(sbuf') : Flow'[i] = sbuf'[i]
      /\ \A i \in 1..Len(wire') : Flow'[Len(sbuf') + i] = wire'[i]
  <2>1. TypeOK' => /\ Len(Flow') = Len(sbuf') + Len(wire')
                   /\ \A i \in 1..Len(sbuf') : Flow'[i] = sbuf'[i]
                   /\ \A i \in 1..Len(wire') : Flow'[Len(sbuf') + i] = wire'[i]
    <3>1. TypeOK' => sbuf' \in Seq(Units) /\ wire' \in Seq(Units)
      BY DEF TypeOK
    <3>. QED
      BY <3>1, Joins DEF Flow
  <2>. QED
    BY <2>1
<1>3. /\ Len(sbuf') = Len(sbuf) - k
      /\ \A i \in 1..Len(sbuf) - k : sbuf'[i] = sbuf[k + i]
  <2>1. sbuf \in Seq(Units)
    BY DEF TypeOK
  <2>. QED
    BY <2>1, Cuts
<1>4. PICK m, w, x \in Nat : m = Len(sbuf) /\ w = Len(wire) /\ m = k + x
  <2>1. Len(sbuf) - k \in Nat /\ Len(sbuf) = k + (Len(sbuf) - k)
    BY <1>1
  <2>. QED
    BY <1>1, <2>1
<1>5. Len(sbuf') = x /\ k \in Nat
  BY <1>3, <1>4
<1>6. Len(Flow') = x + w /\ Len(Flow) = m + w
  BY <1>1, <1>2, <1>4, <1>5
<1>7. ASSUME NEW i \in 1..x + w
      PROVE  Flow'[i] = Flow[k + i]
  <2>1. CASE i \in 1..x
    <3>1. k + i \in 1..m
      BY <1>4, <1>5, <2>1
    <3>. QED
      BY <1>1, <1>2, <1>3, <1>4, <1>5, <2>1, <3>1
  <2>2. CASE i \notin 1..x
    <3>1. PICK j \in 1..w : i = x + j /\ k + i = m + j
      <4>1. i - x \in 1..w /\ i = x + (i - x) /\ k + i = m + (i - x)
        BY <1>4, <1>5, <2>2
      <4>. QED
        BY <4>1
    <3>. QED
      BY <1>1, <1>2, <1>4, <1>5, <3>1
  <2>. QED
    BY <2>1, <2>2
<1>8. m + w = k + (x + w)
  BY <1>4, <1>5
<1>. QED
  BY <1>6, <1>7, <1>8

\* A step that only takes frames away keeps the stream.
LEMMA CutFits ==
  ASSUME TypeOK, TypeOK', NEW V \in Seq(Units), NEW S \in SUBSET Nat, NEW a \in Nat, NEW d \in Nat,
         NEW c \in [Nat -> Nat], Fits(V, S, a, d, c), mode # "down", mode' # "down",
         NEW k \in Nat, NEW c2 \in [Nat -> Nat], Taken(k, c, c2),
         NEW e, e = a + Len(buf), Starts(c2, d, e)',
         UNCHANGED <<asked, feed, left, in_data, pid, request, content_len, buf>>
  PROVE  Fits(V, S, a, d, c2)'
<1>1. Len(Flow) \in Nat /\ Len(Flow') \in Nat
  <2>1. Len(Flow') \in Nat
    <3>1. TypeOK' => Len(Flow') \in Nat
      <4>1. TypeOK' => sbuf' \in Seq(Units) /\ wire' \in Seq(Units)
        BY DEF TypeOK
      <4>. QED
        BY <4>1 DEF Flow
    <3>. QED
      BY <3>1
  <2>. QED
    BY <2>1, FlowTyped
<1>2. Chunks(V, c, d)
  BY DEF Fits
<1>3. Agree(V, V, c, k)
  BY DEF Agree
<1>4. Chunks(V, c2, d)'
  BY <1>1, <1>2, <1>3, Shifts
<1>5. Serial(V, S)' /\ Parsed(V, S, a)' /\ Queued(V, a, d)'
  BY DEF Fits, Serial, Parsed, Queued, Said, Holds, Waits, Composed
<1>6. causes' = {} /\ ~in_data' => buf' = <<>>
  BY DEF Fits, Taken
<1>7. Starts(c2, d, a + Len(buf))'
  OBVIOUS
<1>8. \A j \in a + 1..Len(V) : V[j] = Ping => j \in S
  BY DEF Fits
<1>. QED
  BY <1>4, <1>5, <1>6, <1>7, <1>8 DEF Fits

\* The places of the chunks that are left.
LEMMA Places ==
  ASSUME NEW c \in [Nat -> Nat], NEW k \in Nat
  PROVE  \E c2 \in [Nat -> Nat] : \A i \in Nat : c2[i] = c[k + i]
<1>1. [i \in Nat |-> c[k + i]] \in [Nat -> Nat]
  OBVIOUS
<1>. QED
  BY <1>1

\* Where a row is wanted the first unit of the frames is a size or the end of
\* a chunk, and a row by itself.
LEMMA FrameAtHead ==
  ASSUME TypeOK, NEW c, NEW d, NEW e, Starts(c, d, e), mode = "row", sbuf # <<>>
  PROVE  /\ 1 \in 0..Len(sbuf) /\ HasRow(sbuf) /\ IsRow(sbuf, 1) /\ sbuf[1] \in Units /\ Min(RowEnds(sbuf)) = 1
         /\ 1 \in 1..Len(Flow) /\ Flow[1] = sbuf[1]
         /\ \/ Flow[1].k = "size" /\ c[1] = e
            \/ Flow[1] = Crlf /\ SizeAt(c, d, 1, e)
<1>1. /\ Len(sbuf) \in Nat /\ Len(sbuf) > 0 /\ sbuf[1] \in Units /\ 1 \in DOMAIN sbuf
      /\ Len(Flow) \in Nat /\ Len(Flow) > 0 /\ Flow[1] = sbuf[1]
  <2>1. Len(sbuf) \in Nat /\ Len(sbuf) > 0 /\ sbuf[1] \in Units /\ 1 \in DOMAIN sbuf
    BY DEF TypeOK
  <2>2. 1 \in 1..Len(sbuf)
    BY <2>1
  <2>3. Flow[1] = sbuf[1] /\ Len(Flow) \in Nat /\ Len(Flow) = Len(sbuf) + Len(wire) /\ Len(wire) \in Nat
    BY <2>2, FlowTyped
  <2>. QED
    BY <2>1, <2>3
<1>2. \/ Flow[1].k = "size" /\ c[1] = e
      \/ Flow[1] = Crlf /\ SizeAt(c, d, 1, e)
  <2>1. SizeAt(c, d, 0, e) => Flow[1].k = "size" /\ c[1] = e
    <3>1. 0 < Len(Flow) /\ 0 + 1 = 1
      BY <1>1
    <3>. QED
      BY <3>1 DEF SizeAt
  <2>. QED
    BY <2>1 DEF Starts
<1>3. sbuf[1].k \in Newline
  BY <1>1, <1>2 DEF Crlf, Unit, Newline
<1>4. 1 \in RowEnds(sbuf)
  BY <1>1, <1>3 DEF RowEnds
<1>5. HasRow(sbuf) /\ IsRow(sbuf, 1)
  BY <1>4 DEF HasRow, IsRow
<1>6. Min(RowEnds(sbuf)) = 1
  <2>1. RowEnds(sbuf) \subseteq 1..Len(sbuf)
    BY DEF RowEnds, TypeOK
  <2>2. RowEnds(sbuf) \subseteq Nat /\ RowEnds(sbuf) # {}
    BY <1>4, <2>1
  <2>3. Min(RowEnds(sbuf)) \in RowEnds(sbuf) /\ Min(RowEnds(sbuf)) <= 1
    BY <1>4, <2>2, LeastOf
  <2>. QED
    BY <2>1, <2>3
<1>. QED
  BY <1>1, <1>2, <1>5, <1>6

\* The blank row that is skipped is the end of a chunk.
LEMMA SkipsBlankRowGoes ==
  ASSUME IInv, TypeOK', Streams, SkipsBlankRow
  PROVE  Streams'
<1>1. /\ UNCHANGED <<cur, asked, feed, left, in_data, pid, request, content_len, buf>>
      /\ mode' = mode /\ mode = "row" /\ eof' = eof /\ causes' = causes /\ children' = children
      /\ BlankFirst(sbuf) /\ sbuf' = Tail(sbuf) /\ wire' = wire
  BY DEF SkipsBlankRow, server, parser
<1>2. TypeOK /\ sbuf \in Seq(Units) /\ sbuf # <<>>
  BY <1>1, SMTT(30) DEF BlankFirst, HasRow, RowEnds, IInv, TypeOK
<1>3. 1 \in 0..Len(sbuf) /\ sbuf' = Suffix(sbuf, 1)
  <2>1. Tail(sbuf) = SubSeq(sbuf, 2, Len(sbuf)) /\ Len(sbuf) > 0
    BY <1>2
  <2>. QED
    BY <1>1, <1>2, <2>1 DEF Suffix
<1>4. Runs'
  <2>1. SUFFICES ASSUME Clean', mode \in Modes
                 PROVE  (\E V \in Seq(Units), S \in SUBSET Nat, a, d \in Nat, c \in [Nat -> Nat] :
                           Fits(V, S, a, d, c))'
    BY <1>1 DEF Runs
  <2>2. PICK V \in Seq(Units), S \in SUBSET Nat, a \in Nat, d \in Nat, c \in [Nat -> Nat] :
          Fits(V, S, a, d, c)
    BY <1>1, <2>1, Given DEF Streams
  <2>3. PICK e : e = a + Len(buf)
    OBVIOUS
  <2>4. Starts(c, d, e)
    BY <1>1, <2>2, <2>3 DEF Fits
  <2>5. SizeAt(c, d, 1, e)
    <3>1. /\ Flow[1] = sbuf[1]
          /\ \/ Flow[1].k = "size" /\ c[1] = e
             \/ Flow[1] = Crlf /\ SizeAt(c, d, 1, e)
      BY <1>1, <1>2, <2>4, FrameAtHead
    <3>2. sbuf[1].k # "size"
      BY <1>1 DEF BlankFirst, BlankRow
    <3>. QED
      BY <3>1, <3>2
  <2>6. PICK c2 \in [Nat -> Nat] : \A i \in Nat : c2[i] = c[1 + i]
    <3>1. c \in [Nat -> Nat] /\ 1 \in Nat
      BY <2>2
    <3>. QED
      BY <3>1, Places
  <2>7. Len(Flow) = 1 + Len(Flow') /\ \A i \in 1..Len(Flow') : Flow'[i] = Flow[1 + i]
    BY <1>1, <1>2, <1>3, FlowCut
  <2>8. Taken(1, c, c2)
    BY <1>1, <2>6, <2>7 DEF Taken
  <2>9. Len(Flow) \in Nat /\ Len(Flow') \in Nat
    <3>1. Len(Flow) \in Nat
      BY <1>2, FlowTyped
    <3>2. sbuf' \in Seq(Units) /\ wire' \in Seq(Units)
      BY DEF TypeOK
    <3>. QED
      BY <3>1, <3>2 DEF Flow
  <2>10. SizeAt(c2, d, 0, e)'
    <3>1. 1 \in Nat /\ 0 \in Nat /\ 1 = 1 + 0
      OBVIOUS
    <3>. QED
      BY <2>5, <2>8, <2>9, <3>1, TakenSizes
  <2>11. Starts(c2, d, e)'
    BY <1>1, <2>10 DEF Starts
  <2>12. Fits(V, S, a, d, c2)'
    BY <1>1, <1>2, <2>2, <2>3, <2>6, <2>8, <2>11, CutFits
  <2>. QED
    BY <2>2, <2>6, <2>12
<1>5. Steady'
  BY <1>1 DEF Streams, Steady, Composed
<1>6. Remembers
  BY <1>1 DEF Remembers
<1>. QED
  BY <1>1, <1>4, <1>5, <1>6, Goes

\* The row that is read as a size is one.
LEMMA TakesSizeGoes ==
  ASSUME IInv, TypeOK', Streams, TakesSize
  PROVE  Streams'
<1>1. /\ UNCHANGED <<cur, asked, feed, left, in_data, pid, request, content_len, buf>>
      /\ mode = "row" /\ eof' = eof /\ causes \subseteq causes' /\ children' = children
      /\ HasRow(sbuf) /\ ~BlankFirst(sbuf) /\ wire' = wire
      /\ sbuf' = Suffix(sbuf, Len(Row(sbuf))) /\ size' \in StrToL(Row(sbuf), MaxMisread)
      /\ mode' = IF size' = 0 THEN "down" ELSE "buf"
      /\ causes' = causes \cup (IF size' = 0 THEN Loses(sbuf' \o wire, buf) ELSE {})
  BY DEF TakesSize, server, parser
<1>2. TypeOK /\ sbuf \in Seq(Units) /\ sbuf # <<>>
  BY <1>1, SMTT(30) DEF HasRow, RowEnds, IInv, TypeOK
<1>3. Runs'
  <2>1. SUFFICES ASSUME Clean'
                 PROVE  (\E V \in Seq(Units), S \in SUBSET Nat, a, d \in Nat, c \in [Nat -> Nat] :
                           Fits(V, S, a, d, c))'
    BY DEF Runs
  <2>2. PICK V \in Seq(Units), S \in SUBSET Nat, a \in Nat, d \in Nat, c \in [Nat -> Nat] :
          Fits(V, S, a, d, c)
    <3>1. mode \in Modes
      BY <1>1 DEF Modes
    <3>. QED
      BY <1>1, <2>1, <3>1, Given DEF Streams
  <2>3. PICK e : e = a + Len(buf)
    OBVIOUS
  <2>4. Starts(c, d, e) /\ Chunks(V, c, d)
    BY <1>1, <2>2, <2>3 DEF Fits
  <2>5. /\ 1 \in 0..Len(sbuf) /\ IsRow(sbuf, 1) /\ Min(RowEnds(sbuf)) = 1 /\ sbuf[1] \in Units
        /\ 1 \in 1..Len(Flow) /\ Flow[1] = sbuf[1]
        /\ \/ Flow[1].k = "size" /\ c[1] = e
           \/ Flow[1] = Crlf /\ SizeAt(c, d, 1, e)
    BY <1>1, <1>2, <2>4, FrameAtHead
  <2>6. Flow[1].k = "size" /\ c[1] = e
    <3>1. HasRow(sbuf) /\ ~BlankRow(sbuf[1])
      BY <1>1, <2>5 DEF BlankFirst
    <3>2. BlankRow(Crlf)
      BY DEF BlankRow, Crlf, Unit
    <3>3. Flow[1] # Crlf
      BY <2>5, <3>1, <3>2
    <3>. QED
      BY <2>5, <3>3
  <2>7. PICK row : row = Row(sbuf)
    OBVIOUS
  <2>8. Len(row) = 1 /\ row[1] = sbuf[1]
    <3>1. row = Prefix(sbuf, 1)
      BY <2>5, <2>7 DEF Row
    <3>2. 1 \in 0..Len(sbuf)
      BY <2>5
    <3>3. Len(Prefix(sbuf, 1)) = 1 /\ \A i \in 1..1 : Prefix(sbuf, 1)[i] = sbuf[i]
      BY <1>2, <3>2, Cuts
    <3>. QED
      BY <3>1, <3>3
  <2>9. size' = sbuf[1].n
    <3>1. row[Len(row)] = sbuf[1] /\ \A i \in 1..Len(row) - 1 : FALSE
      BY <2>8
    <3>2. StrToL(row, MaxMisread) = {sbuf[1].n}
      BY <2>5, <2>6, <3>1 DEF StrToL
    <3>. QED
      BY <1>1, <2>7, <3>2
  <2>10. size' \in Nat /\ Opens(1, size')
    BY <2>5, <2>6, <2>9 DEF Opens, Units
  <2>11. PICK n \in Nat : n = size' /\ Opens(1, n)
    BY <2>10
  <2>12. n > 0
    <3>1. ChunkAt(V, c, d, 1, n)
      BY <2>4, <2>11 DEF Chunks
    <3>. QED
      BY <3>1 DEF ChunkAt
  <2>13. mode' = "buf" /\ causes' = causes
    <3>1. size' # 0
      BY <2>11, <2>12
    <3>2. causes' = causes \cup {}
      BY <1>1, <3>1
    <3>. QED
      BY <1>1, <3>1, <3>2
  <2>14. PICK c2 \in [Nat -> Nat] : \A i \in Nat : c2[i] = c[1 + i]
    <3>1. c \in [Nat -> Nat] /\ 1 \in Nat
      BY <2>2
    <3>. QED
      BY <3>1, Places
  <2>15. Len(Flow) = 1 + Len(Flow') /\ \A i \in 1..Len(Flow') : Flow'[i] = Flow[1 + i]
    <3>1. sbuf' = Suffix(sbuf, 1) /\ 1 \in 0..Len(sbuf)
      BY <1>1, <2>5, <2>7, <2>8
    <3>. QED
      BY <1>1, <1>2, <3>1, FlowCut
  <2>16. Taken(1, c, c2)
    BY <1>1, <2>11, <2>13, <2>14, <2>15 DEF Taken
  <2>17. Starts(c2, d, e)'
    <3>1. c2[0] = c[1]
      BY <2>14
    <3>. QED
      BY <2>6, <2>13, <3>1 DEF Starts
  <2>18. mode # "down" /\ mode' # "down"
    BY <1>1, <2>13
  <2>19. Fits(V, S, a, d, c2)'
    BY <1>1, <1>2, <2>2, <2>3, <2>14, <2>16, <2>17, <2>18, CutFits
  <2>. QED
    BY <2>2, <2>14, <2>19
<1>4. Steady'
  BY <1>1 DEF Streams, Steady, Composed
<1>5. Remembers
  BY <1>1 DEF Remembers
<1>6. mode' \notin Exits
  BY <1>1 DEF Exits
<1>. QED
  BY <1>1, <1>3, <1>4, <1>5, <1>6, Goes

\* The daemon that finds no more rows and loses nothing has taken the stream
\* as far as it was framed.
LEMMA NoMoreRowsGoes ==
  ASSUME IInv, TypeOK', Streams, NoMoreRows
  PROVE  Streams'
<1>1. /\ UNCHANGED <<cur, asked, feed, left, in_data, pid, request, content_len, buf>>
      /\ mode = "row" /\ mode' = "down" /\ causes \subseteq causes' /\ children' = children
      /\ ~HasRow(sbuf) /\ wire = <<>> /\ causes' = causes \cup Loses(sbuf, buf)
  BY DEF NoMoreRows, server, parser
<1>2. Runs'
  <2>1. SUFFICES ASSUME Clean'
                 PROVE  (\E V \in Seq(Units), S \in SUBSET Nat, a, d \in Nat, c \in [Nat -> Nat] :
                           Fits(V, S, a, d, c))'
    BY DEF Runs
  <2>2. PICK V \in Seq(Units), S \in SUBSET Nat, a \in Nat, d \in Nat, c \in [Nat -> Nat] :
          Fits(V, S, a, d, c)
    <3>1. mode \in Modes
      BY <1>1 DEF Modes
    <3>. QED
      BY <1>1, <2>1, <3>1, Given DEF Streams
  <2>3. PICK e : e = a + Len(buf)
    OBVIOUS
  <2>4. Starts(c, d, e)
    BY <1>1, <2>2, <2>3 DEF Fits
  <2>5. buf = <<>> /\ ~in_data' /\ causes' = causes
    <3>1. "lost" \notin causes'
      BY <2>1 DEF Clean
    <3>2. ~(Matters(sbuf) \/ buf # <<>> \/ in_data')
      BY <1>1, <3>1 DEF Loses, Blame
    <3>. QED
      BY <1>1, <3>2 DEF Loses, Blame
  <2>6. TypeOK
    BY DEF IInv
  <2>7. sbuf = <<>>
    BY <1>1, <2>4, <2>6, FrameAtHead
  <2>8. Len(Flow) = 0
    BY <1>1, <2>7 DEF Flow
  <2>9. a = d
    <3>1. SizeAt(c, d, 0, e)
      <4>1. Flow = <<>>
        BY <1>1, <2>7 DEF Flow
      <4>. QED
        BY <1>1, <2>4, <4>1 DEF Starts
    <3>2. d = e
      BY <2>8, <3>1 DEF SizeAt
    <3>. QED
      BY <2>2, <2>3, <2>5, <3>2
  <2>10. Serial(V, S)' /\ Parsed(V, S, a)' /\ Queued(V, a, d)'
    BY <1>1, <2>2 DEF Fits, Serial, Parsed, Queued, Said, Holds, Waits, Composed
  <2>11. \A j \in a + 1..Len(V) : V[j] = Ping => j \in S
    BY <2>2 DEF Fits
  <2>12. Fits(V, S, a, d, c)'
    BY <1>1, <2>5, <2>9, <2>10, <2>11 DEF Fits
  <2>. QED
    BY <2>2, <2>12
<1>3. Steady'
  BY <1>1 DEF Streams, Steady, Composed
<1>4. Remembers
  BY <1>1 DEF Remembers
<1>5. mode' \notin Exits
  BY <1>1 DEF Exits
<1>. QED
  BY <1>1, <1>2, <1>3, <1>4, <1>5, Goes

\* A new connection begins with the stream where the old one ended.
LEMMA ConnectsGoes ==
  ASSUME IInv, TypeOK', Streams, Connects
  PROVE  Streams'
<1>1. /\ UNCHANGED <<cur, asked, feed, left, in_data, pid, content_len>>
      /\ mode = "down" /\ mode' = "row" /\ causes' = causes /\ children' = children
      /\ sbuf' = <<>> /\ wire' = <<>> /\ buf' = <<>> /\ request' = <<>>
  BY DEF Connects, server, parser
<1>2. Runs'
  <2>1. SUFFICES ASSUME Clean'
                 PROVE  (\E V \in Seq(Units), S \in SUBSET Nat, a, d \in Nat, c \in [Nat -> Nat] :
                           Fits(V, S, a, d, c))'
    BY DEF Runs
  <2>2. PICK V \in Seq(Units), S \in SUBSET Nat, a \in Nat, d \in Nat, c \in [Nat -> Nat] :
          Fits(V, S, a, d, c)
    <3>1. mode \in Modes
      BY <1>1 DEF Modes
    <3>. QED
      BY <1>1, <2>1, <3>1, Given DEF Streams
  <2>3. buf = <<>> /\ ~in_data /\ a = d
    BY <1>1, <2>2 DEF Fits
  <2>4. Flow' = <<>>
    BY <1>1 DEF Flow
  <2>5. Serial(V, S)' /\ Parsed(V, S, a)' /\ Queued(V, a, d)'
    BY <1>1, <2>2, <2>3 DEF Fits, Serial, Parsed, Queued, Said, Holds, Waits, Composed
  <2>6. \A j \in a + 1..Len(V) : V[j] = Ping => j \in S
    BY <2>2 DEF Fits
  <2>7. Chunks(V, c, d)'
    <3>1. \A i, n \in Nat : ~Opens(i, n)'
      BY <1>1, <2>4 DEF Opens
    <3>. QED
      BY <3>1 DEF Chunks
  <2>8. Starts(c, d, a + Len(buf))'
    <3>1. a + Len(buf') = d
      BY <1>1, <2>2, <2>3
    <3>2. SizeAt(c, d, 0, d)'
      BY <2>4 DEF SizeAt
    <3>. QED
      BY <1>1, <3>1, <3>2 DEF Starts
  <2>9. Fits(V, S, a, d, c)'
    BY <1>1, <2>5, <2>6, <2>7, <2>8 DEF Fits
  <2>. QED
    BY <2>2, <2>9
<1>3. Steady'
  BY <1>1 DEF Streams, Steady, Composed
<1>4. Remembers
  BY <1>1 DEF Remembers
<1>5. mode' \notin Exits
  BY <1>1 DEF Exits
<1>. QED
  BY <1>1, <1>2, <1>3, <1>4, <1>5, Goes

-----------------------------------------------------------------------------
(* The connection may end where only the end of a chunk is lost.             *)

Trimmed ==
  /\ Len(Flow') <= Len(Flow)
  /\ \A i \in 1..Len(Flow') : Flow'[i] = Flow[i]
  /\ \A i \in Len(Flow') + 1..Len(Flow) : Flow[i] = Crlf

\* What the connection loses, if nothing of it matters.
LEMMA WireTrimmed ==
  ASSUME TypeOK, TypeOK', NEW n \in 0..Len(wire), wire' = Prefix(wire, n), sbuf' = sbuf,
         ~Matters(Suffix(wire, n))
  PROVE  Trimmed
<1>1. /\ Len(Flow) = Len(sbuf) + Len(wire) /\ Len(sbuf) \in Nat /\ Len(wire) \in Nat
      /\ \A i \in 1..Len(sbuf) : Flow[i] = sbuf[i]
      /\ \A i \in 1..Len(wire) : Flow[Len(sbuf) + i] = wire[i]
  BY FlowTyped
<1>2. /\ Len(Flow') = Len(sbuf') + Len(wire')
      /\ \A i \in 1..Len(sbuf') : Flow'[i] = sbuf'[i]
      /\ \A i \in 1..Len(wire') : Flow'[Len(sbuf') + i] = wire'[i]
  <2>1. sbuf' \in Seq(Units) /\ wire' \in Seq(Units)
    BY DEF TypeOK
  <2>2. PICK s, w : s = sbuf' /\ w = wire'
    OBVIOUS
  <2>3. s \in Seq(Units) /\ w \in Seq(Units) /\ Flow' = s \o w
    BY <2>1, <2>2 DEF Flow
  <2>4. /\ Len(s \o w) = Len(s) + Len(w)
        /\ \A i \in 1..Len(s) : (s \o w)[i] = s[i]
        /\ \A i \in 1..Len(w) : (s \o w)[Len(s) + i] = w[i]
    BY <2>3, Joins
  <2>. QED
    BY <2>2, <2>3, <2>4
<1>3. /\ Len(Prefix(wire, n)) = n /\ \A i \in 1..n : Prefix(wire, n)[i] = wire[i]
      /\ Suffix(wire, n) \in Seq(Units) /\ Len(Suffix(wire, n)) = Len(wire) - n
      /\ \A i \in 1..Len(wire) - n : Suffix(wire, n)[i] = wire[n + i]
  <2>1. wire \in Seq(Units)
    BY DEF TypeOK
  <2>. QED
    BY <2>1, Cuts
<1>4. \A i \in 1..Len(wire) - n : wire[n + i] = Crlf
  <2>1. \A i \in DOMAIN Suffix(wire, n) : Suffix(wire, n)[i] = Crlf
    BY DEF Matters
  <2>. QED
    BY <1>3, <2>1
<1>5. PICK m, w, x \in Nat : m = Len(sbuf) /\ w = Len(wire) /\ w = n + x
  <2>1. Len(wire) - n \in Nat /\ Len(wire) = n + (Len(wire) - n)
    BY <1>1
  <2>. QED
    BY <1>1, <2>1
<1>6. n \in Nat /\ Len(Flow) = m + (n + x) /\ Len(Flow') = m + n
  BY <1>1, <1>2, <1>3, <1>5
<1>7. ASSUME NEW i \in 1..m + n
      PROVE  Flow'[i] = Flow[i]
  <2>1. CASE i \in 1..m
    BY <1>1, <1>2, <1>5, <2>1
  <2>2. CASE i \notin 1..m
    <3>1. PICK j \in 1..n : i = m + j
      <4>1. i - m \in 1..n /\ i = m + (i - m)
        BY <1>5, <1>6, <2>2
      <4>. QED
        BY <4>1
    <3>2. j \in 1..w
      BY <1>5, <1>6, <3>1
    <3>. QED
      BY <1>1, <1>2, <1>3, <1>5, <3>1, <3>2
  <2>. QED
    BY <2>1, <2>2
<1>8. ASSUME NEW i \in (m + n) + 1..m + (n + x)
      PROVE  Flow[i] = Crlf
  <2>1. PICK j \in 1..x : i = m + (n + j) /\ n + j \in 1..w
    <3>1. i - (m + n) \in 1..x /\ i = m + (n + (i - (m + n))) /\ n + (i - (m + n)) \in 1..w
      BY <1>5, <1>6
    <3>. QED
      BY <3>1
  <2>2. wire[n + j] = Crlf
    <3>1. Len(wire) - n = x
      BY <1>5, <1>6
    <3>. QED
      BY <1>4, <2>1, <3>1
  <2>. QED
    BY <1>1, <1>5, <2>1, <2>2
<1>9. m + n <= m + (n + x)
  BY <1>5, <1>6
<1>. QED
  BY <1>6, <1>7, <1>8, <1>9 DEF Trimmed

\* No size is lost.
LEMMA TrimmedSizes ==
  ASSUME Len(Flow) \in Nat, Len(Flow') \in Nat, Trimmed, NEW c, NEW d, NEW e, NEW i \in Nat,
         SizeAt(c, d, i, e)
  PROVE  SizeAt(c, d, i, e)'
<1>1. CASE i < Len(Flow')
  <2>1. i + 1 \in 1..Len(Flow') /\ i < Len(Flow)
    BY <1>1 DEF Trimmed
  <2>. QED
    BY <1>1, <2>1 DEF SizeAt, Trimmed
<1>2. CASE ~(i < Len(Flow'))
  <2>1. ~(i < Len(Flow))
    <3>1. SUFFICES ASSUME i < Len(Flow) PROVE FALSE
      OBVIOUS
    <3>2. i + 1 \in Len(Flow') + 1..Len(Flow)
      BY <1>2, <3>1
    <3>3. Flow[i + 1] = Crlf
      BY <3>2 DEF Trimmed
    <3>. QED
      BY <3>1, <3>3 DEF SizeAt, Crlf, Unit
  <2>. QED
    BY <1>2, <2>1 DEF SizeAt
<1>. QED
  BY <1>1, <1>2

\* No unit of a chunk is lost.
LEMMA TrimmedChunk ==
  ASSUME Len(Flow) \in Nat, Len(Flow') \in Nat, Trimmed, NEW c, NEW d, NEW V,
         NEW i \in Nat, NEW n \in Nat, ChunkAt(V, c, d, i, n), eof' = TRUE, causes' = {} => causes = {}
  PROVE  ChunkAt(V, c, d, i, n)'
<1>1. PICK L, M \in Nat : L = Len(Flow) /\ M = Len(Flow')
  OBVIOUS
<1>2. PICK F, G : F = Flow /\ G = Flow'
  OBVIOUS
<1>3. M <= L /\ (\A j \in 1..M : G[j] = F[j]) /\ \A j \in M + 1..L : F[j] = Crlf
  BY <1>1, <1>2 DEF Trimmed
<1>4. /\ n > 0 /\ i + n <= L /\ c[i] + n <= d
      /\ \A j \in 1..n : F[i + j] = V[c[i] + j] /\ F[i + j].k \notin {"size", "crlf"}
      /\ i + n < L => F[i + n + 1] = Crlf
      /\ SizeAt(c, d, i + n + 1, c[i] + n)
      /\ causes = {} =>
           /\ F[i + n].k \notin {"pid", "line", "clen"}
           /\ \A j \in 2..n : F[i + j] # Ping
  BY <1>1, <1>2 DEF ChunkAt
<1>5. i + n <= M
  <2>1. SUFFICES ASSUME i + n > M PROVE FALSE
    BY <1>1
  <2>2. n \in 1..n /\ i + n \in M + 1..L
    BY <1>1, <1>4, <2>1
  <2>3. F[i + n] = Crlf
    BY <1>3, <2>2
  <2>. QED
    BY <1>4, <2>2, <2>3 DEF Crlf, Unit
<1>6. ASSUME NEW j \in 1..n
      PROVE  G[i + j] = F[i + j]
  <2>1. i + j \in 1..M
    BY <1>1, <1>5
  <2>. QED
    BY <1>3, <2>1
<1>7. i + n < M => G[i + n + 1] = Crlf
  <2>1. i + n < M => i + n + 1 \in 1..M /\ i + n < L
    BY <1>1, <1>3
  <2>. QED
    BY <1>3, <1>4, <2>1
<1>8. SizeAt(c, d, i + n + 1, c[i] + n)'
  <2>1. PICK m, e : m \in Nat /\ m = i + n + 1 /\ e = c[i] + n
    <3>1. i + n + 1 \in Nat
      OBVIOUS
    <3>. QED
      BY <3>1
  <2>2. SizeAt(c, d, m, e)'
    BY <1>4, <2>1, TrimmedSizes
  <2>. QED
    BY <2>1, <2>2
<1>9. n \in 1..n /\ \A j \in 2..n : j \in 1..n
  BY <1>4
<1>10. /\ \A j \in 1..n : G[i + j] = V[c[i] + j] /\ G[i + j].k \notin {"size", "crlf"}
       /\ causes' = {} =>
           /\ G[i + n].k \notin {"pid", "line", "clen"}
           /\ \A j \in 2..n : G[i + j] # Ping
  BY <1>4, <1>6, <1>9
<1>. QED
  BY <1>1, <1>2, <1>4, <1>5, <1>7, <1>8, <1>10 DEF ChunkAt

\* A connection that ends without a loss keeps the stream.
LEMMA ConnectionEndsGoes ==
  ASSUME IInv, TypeOK', Streams, ConnectionEnds
  PROVE  Streams'
<1>1. PICK n \in 0..Len(wire) :
        /\ wire' = Prefix(wire, n)
        /\ causes' = causes \cup Blame("lost", Matters(Suffix(wire, n)))
  BY DEF ConnectionEnds
<1>2. /\ UNCHANGED <<cur, asked, feed, left, in_data, pid, request, content_len, buf, size>>
      /\ mode \in {"row", "buf"} /\ mode' = mode /\ eof' = TRUE /\ children' = children /\ sbuf' = sbuf
  BY DEF ConnectionEnds, server, parser
<1>3. TypeOK
  BY DEF IInv
<1>4. Len(Flow) \in Nat /\ Len(Flow') \in Nat
  <2>1. sbuf' \in Seq(Units) /\ wire' \in Seq(Units)
    BY DEF TypeOK
  <2>2. Len(Flow') \in Nat
    BY <2>1 DEF Flow
  <2>. QED
    BY <1>3, <2>2, FlowTyped
<1>5. Runs'
  <2>1. SUFFICES ASSUME Clean'
                 PROVE  (\E V \in Seq(Units), S \in SUBSET Nat, a, d \in Nat, c \in [Nat -> Nat] :
                           Fits(V, S, a, d, c))'
    BY DEF Runs
  <2>2. PICK V \in Seq(Units), S \in SUBSET Nat, a \in Nat, d \in Nat, c \in [Nat -> Nat] :
          Fits(V, S, a, d, c)
    <3>1. mode \in Modes /\ causes \subseteq causes'
      BY <1>1, <1>2 DEF Modes
    <3>. QED
      BY <2>1, <3>1, Given DEF Streams
  <2>3. ~Matters(Suffix(wire, n)) /\ causes' = causes
    <3>1. "lost" \notin causes'
      BY <2>1 DEF Clean
    <3>. QED
      BY <1>1, <3>1 DEF Blame
  <2>4. Trimmed
    BY <1>1, <1>2, <1>3, <2>3, WireTrimmed
  <2>5. Chunks(V, c, d) /\ Starts(c, d, a + Len(buf))
    BY <1>2, <2>2 DEF Fits
  <2>6. ASSUME NEW i \in Nat, NEW m \in Nat, Opens(i, m)'
        PROVE  Opens(i, m)
    <3>1. CASE i \in 1..Len(Flow') /\ Flow'[i].k = "size" /\ m = Flow'[i].n
      <4>1. i \in 1..Len(Flow) /\ Flow'[i] = Flow[i]
        <5>1. Len(Flow') <= Len(Flow) /\ Flow'[i] = Flow[i]
          BY <2>4, <3>1 DEF Trimmed
        <5>2. PICK x, y \in Nat : x = Len(Flow') /\ y = Len(Flow)
          BY <1>4
        <5>3. i \in 1..x /\ x <= y
          BY <3>1, <5>1, <5>2
        <5>4. i \in 1..y
          BY <5>2, <5>3
        <5>. QED
          BY <5>1, <5>2, <5>4
      <4>. QED
        BY <3>1, <4>1 DEF Opens
    <3>2. CASE i = 0 /\ mode' = "buf" /\ m = size'
      BY <1>2, <3>2 DEF Opens
    <3>. QED
      BY <2>6, <3>1, <3>2 DEF Opens
  <2>7. Chunks(V, c, d)'
    <3>1. ASSUME NEW i \in Nat, NEW m \in Nat, Opens(i, m)'
          PROVE  ChunkAt(V, c, d, i, m)'
      <4>1. ChunkAt(V, c, d, i, m)
        BY <2>5, <2>6, <3>1 DEF Chunks
      <4>. QED
        BY <1>2, <1>4, <2>3, <2>4, <4>1, TrimmedChunk
    <3>2. ASSUME NEW i \in Nat, NEW j \in Nat, NEW m \in Nat, NEW k \in Nat,
                 Opens(i, m)', Opens(j, k)', i < j
          PROVE  c[i] + m <= c[j]
      BY <2>5, <2>6, <3>2 DEF Chunks
    <3>. QED
      BY <3>1, <3>2 DEF Chunks
  <2>8. PICK e : e = a + Len(buf)
    OBVIOUS
  <2>9. Starts(c, d, e)'
    <3>1. Starts(c, d, e)
      BY <2>5, <2>8
    <3>2. CASE mode = "buf"
      BY <1>2, <3>1, <3>2 DEF Starts
    <3>3. CASE mode = "row" /\ SizeAt(c, d, 0, e)
      <4>1. SizeAt(c, d, 0, e)'
        <5>1. 0 \in Nat
          OBVIOUS
        <5>. QED
          BY <1>4, <2>4, <3>3, <5>1, TrimmedSizes
      <4>. QED
        BY <1>2, <3>3, <4>1 DEF Starts
    <3>4. CASE mode = "row" /\ Flow # <<>> /\ Flow[1] = Crlf /\ SizeAt(c, d, 1, e)
      <4>1. SizeAt(c, d, 1, e)'
        <5>1. 1 \in Nat
          OBVIOUS
        <5>. QED
          BY <1>4, <2>4, <3>4, <5>1, TrimmedSizes
      <4>2. CASE Len(Flow') = 0
        <5>1. SizeAt(c, d, 0, e)'
          BY <4>1, <4>2 DEF SizeAt
        <5>. QED
          BY <1>2, <3>4, <5>1 DEF Starts
      <4>3. CASE Len(Flow') # 0
        <5>1. Flow' # <<>> /\ 1 \in 1..Len(Flow')
          BY <1>4, <4>3
        <5>2. Flow'[1] = Crlf
          BY <2>4, <3>4, <5>1 DEF Trimmed
        <5>. QED
          BY <1>2, <3>4, <4>1, <5>1, <5>2 DEF Starts
      <4>. QED
        BY <4>2, <4>3
    <3>. QED
      BY <1>2, <3>1, <3>2, <3>3, <3>4 DEF Starts
  <2>10. Serial(V, S)' /\ Parsed(V, S, a)' /\ Queued(V, a, d)'
    BY <1>2, <2>2 DEF Fits, Serial, Parsed, Queued, Said, Holds, Waits, Composed
  <2>11. Fits(V, S, a, d, c)'
    <3>1. Starts(c, d, a + Len(buf))'
      BY <1>2, <2>8, <2>9
    <3>. QED
      BY <1>2, <2>2, <2>3, <2>7, <2>10, <3>1 DEF Fits
  <2>. QED
    BY <2>2, <2>11
<1>6. Steady'
  BY <1>2 DEF Streams, Steady, Composed
<1>7. Remembers
  BY <1>2 DEF Remembers
<1>8. mode' \notin Exits /\ causes \subseteq causes'
  BY <1>1, <1>2 DEF Exits
<1>. QED
  BY <1>2, <1>5, <1>6, <1>7, <1>8, Goes

-----------------------------------------------------------------------------
(* The HTTP server frames what comes next of the stream.                     *)

\* G is F with z behind it.
Longer(G, F, z) ==
  /\ G \in Seq(Units) /\ Len(G) = Len(F) + 1
  /\ \A i \in 1..Len(F) : G[i] = F[i]
  /\ G[Len(F) + 1] = z

\* A unit behind a sequence.
LEMMA OneMore ==
  ASSUME NEW F \in Seq(Units), NEW z \in Units, NEW G, Joined(G, F, <<z>>)
  PROVE  Longer(G, F, z)
<1>1. PICK t : t = <<z>>
  OBVIOUS
<1>2. t \in Seq(Units) /\ Len(t) = 1 /\ t[1] = z
  BY <1>1
<1>3. /\ F \o t \in Seq(Units) /\ Len(F \o t) = Len(F) + Len(t)
      /\ \A i \in 1..Len(F) : (F \o t)[i] = F[i]
      /\ \A i \in 1..Len(t) : (F \o t)[Len(F) + i] = t[i]
  <2>1. t \in Seq(Units)
    BY <1>2
  <2>. QED
    BY <2>1, Joins
<1>. QED
  BY <1>1, <1>2, <1>3 DEF Joined, Longer

\* Sequences of units are joined in any order.
LEMMA JoinsAssociate ==
  \A s, t, u \in Seq(Units) : (s \o t) \o u = s \o (t \o u)
BY ConcatAssociative

\* What a chunk of n units adds to the frames.
Framed(n) ==
  /\ Len(Flow') = Len(Flow) + n + 2
  /\ \A i \in 1..Len(Flow) : Flow'[i] = Flow[i]
  /\ Flow'[Len(Flow) + 1] = Unit("size", None, n)
  /\ \A j \in 1..n : Flow'[Len(Flow) + 1 + j] = feed[j]
  /\ Flow'[Len(Flow) + n + 2] = Crlf

\* The frames with a new one behind them.
LEMMA FlowFramed ==
  ASSUME TypeOK, NEW n \in Nat, n <= Len(feed), sbuf' = sbuf,
         wire' = wire \o <<Unit("size", None, n)>> \o Prefix(feed, n) \o <<Crlf>>
  PROVE  Framed(n)
<1>1. PICK z, x, P : z = Unit("size", None, n) /\ x = Crlf /\ P = Prefix(feed, n)
  OBVIOUS
<1>2. z \in Units /\ x \in Units
  BY <1>1 DEF Unit, Units, Crlf, Kinds, Newline
<1>3. P \in Seq(Units) /\ Len(P) = n /\ \A i \in 1..n : P[i] = feed[i]
  <2>1. PICK f \in Seq(Units) : f = feed
    BY DEF TypeOK
  <2>2. n \in 0..Len(f)
    BY <2>1
  <2>3. Prefix(f, n) \in Seq(Units) /\ Len(Prefix(f, n)) = n /\ \A i \in 1..n : Prefix(f, n)[i] = f[i]
    BY <2>2, Cuts
  <2>. QED
    BY <1>1, <2>1, <2>3
<1>4. PICK s, w : s = sbuf /\ w = wire
  OBVIOUS
<1>5. s \in Seq(Units) /\ w \in Seq(Units)
  BY <1>4 DEF TypeOK
<1>6. PICK F, A, B, G : /\ Joined(F, s, w) /\ Joined(A, F, <<z>>) /\ Joined(B, A, P)
                        /\ Joined(G, B, <<x>>)
  BY DEF Joined
<1>7. F \in Seq(Units)
  BY <1>5, <1>6, Joins DEF Joined
<1>8. /\ A \in Seq(Units) /\ Len(A) = Len(F) + 1
      /\ \A i \in 1..Len(F) : A[i] = F[i]
      /\ A[Len(F) + 1] = z
  <2>1. Longer(A, F, z)
    BY <1>2, <1>6, <1>7, OneMore
  <2>. QED
    BY <2>1 DEF Longer
<1>9. /\ B \in Seq(Units) /\ Len(B) = Len(A) + n
      /\ \A i \in 1..Len(A) : B[i] = A[i]
      /\ \A i \in 1..n : B[Len(A) + i] = P[i]
  <2>1. A \in Seq(Units) /\ P \in Seq(Units)
    BY <1>3, <1>8
  <2>2. /\ A \o P \in Seq(Units) /\ Len(A \o P) = Len(A) + Len(P)
        /\ \A i \in 1..Len(A) : (A \o P)[i] = A[i]
        /\ \A i \in 1..Len(P) : (A \o P)[Len(A) + i] = P[i]
    BY <2>1, Joins
  <2>. QED
    BY <1>3, <1>6, <2>2 DEF Joined
<1>10. /\ G \in Seq(Units) /\ Len(G) = Len(B) + 1
       /\ \A i \in 1..Len(B) : G[i] = B[i]
       /\ G[Len(B) + 1] = x
  <2>1. Longer(G, B, x)
    BY <1>2, <1>6, <1>9, OneMore
  <2>. QED
    BY <2>1 DEF Longer
<1>11. Flow' = G /\ Flow = F
  <2>1. <<z>> \in Seq(Units) /\ <<x>> \in Seq(Units) /\ P \in Seq(Units)
    BY <1>2, <1>3
  <2>2. PICK zz, xx : zz = <<z>> /\ xx = <<x>>
    OBVIOUS
  <2>3. zz \in Seq(Units) /\ xx \in Seq(Units)
    BY <2>1, <2>2
  <2>4. w \o zz \in Seq(Units) /\ (w \o zz) \o P \in Seq(Units)
    <3>1. w \o zz \in Seq(Units)
      BY <1>5, <2>3, Joins
    <3>. QED
      BY <2>1, <3>1, Joins
  <2>5. s \o (((w \o zz) \o P) \o xx) = (s \o ((w \o zz) \o P)) \o xx
    <3>1. PICK y \in Seq(Units) : y = (w \o zz) \o P
      BY <2>4
    <3>2. (s \o y) \o xx = s \o (y \o xx)
      BY <1>5, <2>3, <3>1, JoinsAssociate, ZenonT(40)
    <3>. QED
      BY <3>1, <3>2
  <2>6. s \o ((w \o zz) \o P) = (s \o (w \o zz)) \o P
    <3>1. PICK y \in Seq(Units) : y = w \o zz
      BY <2>4
    <3>2. (s \o y) \o P = s \o (y \o P)
      BY <1>5, <2>1, <3>1, JoinsAssociate, ZenonT(40)
    <3>. QED
      BY <3>1, <3>2
  <2>7. s \o (w \o zz) = (s \o w) \o zz
    BY <1>5, <2>3, JoinsAssociate
  <2>8. G = (((s \o w) \o zz) \o P) \o xx /\ F = s \o w
    BY <1>6, <2>2 DEF Joined
  <2>9. wire' = ((w \o zz) \o P) \o xx
    BY <1>1, <1>4, <2>2
  <2>. QED
    BY <1>4, <2>5, <2>6, <2>7, <2>8, <2>9 DEF Flow
<1>12. PICK l \in Nat : l = Len(F)
  BY <1>7
<1>13. /\ Len(A) = l + 1 /\ Len(B) = l + 1 + n /\ Len(G) = l + n + 2 /\ Len(B) + 1 = l + n + 2
       /\ l + 1 \in Nat
  <2>1. Len(A) = l + 1 /\ Len(B) = l + 1 + n
    BY <1>8, <1>9, <1>12
  <2>2. l + 1 + n + 1 = l + n + 2 /\ l + 1 \in Nat
    OBVIOUS
  <2>3. Len(G) = l + 1 + n + 1
    BY <1>10, <2>1
  <2>. QED
    BY <2>1, <2>2, <2>3
<1>14. ASSUME NEW i \in 1..l + 1
       PROVE  G[i] = A[i]
  <2>1. i \in 1..l + 1 + n
    OBVIOUS
  <2>. QED
    BY <1>9, <1>10, <1>13, <2>1
<1>15. ASSUME NEW i \in 1..l
       PROVE  G[i] = F[i]
  <2>1. i \in 1..l + 1
    OBVIOUS
  <2>. QED
    BY <1>8, <1>12, <1>14, <2>1
<1>16. G[l + 1] = z
  <2>1. l + 1 \in 1..l + 1
    OBVIOUS
  <2>. QED
    BY <1>8, <1>12, <1>14, <2>1
<1>17. ASSUME NEW j \in 1..n
       PROVE  G[l + 1 + j] = feed[j]
  <2>1. l + 1 + j \in 1..l + 1 + n
    OBVIOUS
  <2>2. G[l + 1 + j] = B[l + 1 + j]
    BY <1>10, <1>13, <2>1
  <2>3. B[l + 1 + j] = P[j]
    BY <1>9, <1>13
  <2>. QED
    BY <1>3, <2>2, <2>3
<1>18. G[l + n + 2] = x
  BY <1>10, <1>13
<1>. QED
  BY <1>1, <1>11, <1>12, <1>13, <1>15, <1>16, <1>17, <1>18 DEF Framed

\* c2 has the place of the new chunk, too, and d2 is behind it.
Placed(c, c2, d, d2, n) ==
  /\ c2[Len(Flow) + 1] = d /\ d2 = d + n
  /\ \A i \in Nat : i # Len(Flow) + 1 => c2[i] = c[i]

\* What came behind the frames comes with the new chunk.
LEMMA FramedSizes ==
  ASSUME Len(Flow) \in Nat, NEW n \in Nat, Framed(n), NEW c, NEW c2, NEW d, NEW d2,
         Placed(c, c2, d, d2, n), NEW i \in Nat, i <= Len(Flow), NEW e, SizeAt(c, d, i, e)
  PROVE  SizeAt(c2, d2, i, e)'
<1>1. PICK l \in Nat : l = Len(Flow) /\ Len(Flow') = l + n + 2
  BY DEF Framed
<1>2. i < Len(Flow')
  BY <1>1
<1>3. CASE i < l
  <2>1. i + 1 \in 1..Len(Flow) /\ i + 1 \in Nat /\ i + 1 # l + 1
    BY <1>1, <1>3
  <2>2. Flow'[i + 1] = Flow[i + 1]
    BY <2>1 DEF Framed
  <2>3. c2[i + 1] = c[i + 1]
    BY <1>1, <2>1 DEF Placed
  <2>. QED
    BY <1>1, <1>2, <1>3, <2>2, <2>3 DEF SizeAt
<1>4. CASE ~(i < l)
  <2>1. i = l
    BY <1>1, <1>4
  <2>2. Flow'[i + 1].k = "size"
    BY <1>1, <2>1 DEF Framed, Unit
  <2>3. d = e
    BY <1>1, <1>4 DEF SizeAt
  <2>4. c2[i + 1] = e
    BY <1>1, <2>1, <2>3 DEF Placed
  <2>. QED
    BY <1>2, <2>2, <2>4 DEF SizeAt
<1>. QED
  BY <1>3, <1>4

\* A chunk under way stays as it is: its end is there already.
LEMMA FramedChunk ==
  ASSUME Len(Flow) \in Nat, NEW n \in Nat, Framed(n), NEW c \in [Nat -> Nat], NEW c2,
         NEW d \in Nat, NEW d2, Placed(c, c2, d, d2, n), NEW V, NEW i \in Nat, NEW m \in Nat,
         ChunkAt(V, c, d, i, m), ~eof, eof' = eof, causes' = {} => causes = {}
  PROVE  ChunkAt(V, c2, d2, i, m)' /\ c2[i] = c[i] /\ i <= Len(Flow)
<1>1. PICK l \in Nat : l = Len(Flow) /\ Len(Flow') = l + n + 2
  BY DEF Framed
<1>2. PICK F, G : F = Flow /\ G = Flow'
  OBVIOUS
<1>3. \A j \in 1..l : G[j] = F[j]
  BY <1>1, <1>2 DEF Framed
<1>4. /\ m > 0 /\ i + m < l /\ c[i] + m <= d
      /\ \A j \in 1..m : F[i + j] = V[c[i] + j] /\ F[i + j].k \notin {"size", "crlf"}
      /\ F[i + m + 1] = Crlf
      /\ SizeAt(c, d, i + m + 1, c[i] + m)
      /\ causes = {} =>
           /\ F[i + m].k \notin {"pid", "line", "clen"}
           /\ \A j \in 2..m : F[i + j] # Ping
  BY <1>1, <1>2 DEF ChunkAt
<1>5. m > 0 /\ i + m < l
  BY <1>4
<1>6. i # l + 1 /\ i <= l
  BY <1>5
<1>7. c2[i] = c[i] /\ d2 = d + n
  BY <1>1, <1>6 DEF Placed
<1>8. ASSUME NEW j \in 1..m
      PROVE  G[i + j] = F[i + j]
  <2>1. i + j \in 1..l
    BY <1>4
  <2>. QED
    BY <1>3, <2>1
<1>9. G[i + m + 1] = Crlf
  <2>1. i + m + 1 \in 1..l
    BY <1>4
  <2>. QED
    BY <1>3, <1>4, <2>1
<1>10. SizeAt(c2, d2, i + m + 1, c2[i] + m)'
  <2>1. PICK x, e : x \in Nat /\ x = i + m + 1 /\ e = c[i] + m /\ x <= l
    <3>1. i + m + 1 \in Nat /\ i + m + 1 <= l
      BY <1>4
    <3>. QED
      BY <3>1
  <2>2. SizeAt(c2, d2, x, e)'
    <3>1. SizeAt(c, d, x, e) /\ x <= Len(Flow)
      BY <1>1, <1>4, <2>1
    <3>. QED
      BY <2>1, <3>1, FramedSizes
  <2>. QED
    BY <1>7, <2>1, <2>2
<1>11. m \in 1..m /\ \A j \in 2..m : j \in 1..m
  BY <1>5
<1>12. /\ \A j \in 1..m : G[i + j] = V[c2[i] + j] /\ G[i + j].k \notin {"size", "crlf"}
       /\ causes' = {} =>
           /\ G[i + m].k \notin {"pid", "line", "clen"}
           /\ \A j \in 2..m : G[i + j] # Ping
  BY <1>4, <1>7, <1>8, <1>11
<1>13. i + m < l + n + 2 /\ i + m <= l + n + 2
  BY <1>5
<1>14. c2[i] + m <= d2
  <2>1. PICK e \in Nat : e = c[i] /\ e + m <= d
    BY <1>4
  <2>2. e + m <= d + n
    BY <2>1
  <2>. QED
    BY <1>7, <2>1, <2>2
<1>15. ChunkAt(V, c2, d2, i, m)'
  BY <1>1, <1>2, <1>4, <1>9, <1>10, <1>12, <1>13, <1>14 DEF ChunkAt
<1>. QED
  BY <1>1, <1>6, <1>7, <1>15

\* The new chunk carries what waited first.
LEMMA FramedNew ==
  ASSUME Len(Flow) \in Nat, NEW n \in Nat, n > 0, n <= Len(feed), Framed(n), NEW c, NEW c2,
         NEW d \in Nat, NEW d2, Placed(c, c2, d, d2, n), NEW V,
         Holds(feed, V, d), Len(feed) \in Nat, \A j \in 1..n : feed[j].k \notin {"size", "crlf"},
         \A j \in 2..Len(feed) : feed[j] # Ping,
         causes' = causes \cup Blame("split", feed[n].k \in {"pid", "line", "clen"}),
         NEW x \in Nat, x = Len(Flow) + 1
  PROVE  ChunkAt(V, c2, d2, x, n)'
<1>1. PICK l \in Nat : l = Len(Flow) /\ Len(Flow') = l + n + 2 /\ x = l + 1
  BY DEF Framed
<1>2. PICK G : G = Flow'
  OBVIOUS
<1>3. /\ \A j \in 1..n : G[x + j] = feed[j]
      /\ G[l + n + 2] = Crlf
  BY <1>1, <1>2 DEF Framed
<1>4. x + n = l + n + 1 /\ x + n + 1 = l + n + 2
  BY <1>1
<1>5. c2[x] = d /\ d2 = d + n
  BY DEF Placed
<1>6. \A j \in 1..n : feed[j] = V[d + j]
  BY DEF Holds
<1>7. SizeAt(c2, d2, x + n + 1, d + n)'
  <2>1. ~(x + n + 1 < Len(Flow'))
    BY <1>1, <1>4
  <2>. QED
    BY <1>5, <2>1 DEF SizeAt
<1>8. causes' = {} =>
         /\ G[x + n].k \notin {"pid", "line", "clen"}
         /\ \A j \in 2..n : G[x + j] # Ping
  <2>1. causes' = {} => feed[n].k \notin {"pid", "line", "clen"}
    BY DEF Blame
  <2>2. n \in 1..n /\ \A j \in 2..n : j \in 1..n /\ j \in 2..Len(feed)
    OBVIOUS
  <2>. QED
    BY <1>3, <2>1, <2>2
<1>9. \A j \in 1..n : G[x + j] = V[c2[x] + j] /\ G[x + j].k \notin {"size", "crlf"}
  BY <1>3, <1>5, <1>6
<1>10. x + n < l + n + 2 /\ x + n <= l + n + 2 /\ G[x + n + 1] = Crlf /\ d + n <= d + n
  BY <1>3, <1>4
<1>. QED
  BY <1>1, <1>2, <1>5, <1>7, <1>8, <1>9, <1>10 DEF ChunkAt

\* Chunks begin where they began, and behind them.
LEMMA FramedOpens ==
  ASSUME Len(Flow) \in Nat, NEW n \in Nat, Framed(n), UNCHANGED <<mode, size>>,
         \A j \in 1..n : feed[j].k \notin {"size", "crlf"},
         NEW i \in Nat, NEW m \in Nat, Opens(i, m)'
  PROVE  Opens(i, m) \/ (i = Len(Flow) + 1 /\ m = n)
<1>1. PICK l \in Nat : l = Len(Flow) /\ Len(Flow') = l + n + 2
  BY DEF Framed
<1>2. CASE i = 0 /\ mode' = "buf" /\ m = size'
  BY <1>2 DEF Opens
<1>3. CASE i \in 1..Len(Flow') /\ Flow'[i].k = "size" /\ m = Flow'[i].n
  <2>1. CASE i \in 1..l
    BY <1>1, <1>3, <2>1 DEF Framed, Opens
  <2>2. CASE i = l + 1
    BY <1>1, <1>3, <2>2 DEF Framed, Unit
  <2>3. CASE i = l + n + 2
    BY <1>1, <1>3, <2>3 DEF Framed, Crlf, Unit
  <2>4. CASE i \notin 1..l /\ i # l + 1 /\ i # l + n + 2
    <3>1. PICK j \in 1..n : i = l + 1 + j
      <4>1. i \in 1..(l + n + 2)
        BY <1>1, <1>3
      <4>2. i > l + 1 /\ i < l + n + 2
        BY <2>4, <4>1
      <4>3. i - (l + 1) \in 1..n /\ i = l + 1 + (i - (l + 1))
        BY <4>2
      <4>. QED
        BY <4>3
    <3>2. Flow'[i] = feed[j]
      BY <1>1, <3>1 DEF Framed
    <3>. QED
      BY <1>3, <3>2
  <2>. QED
    BY <2>1, <2>2, <2>3, <2>4
<1>. QED
  BY <1>2, <1>3 DEF Opens

\* What is in front is not behind.
LEMMA OneWay ==
  ASSUME NEW i \in Nat, NEW j \in Nat, i < j
  PROVE  ~(j < i) /\ j # i
OBVIOUS

\* The frames with the new chunk carry the stream on.
LEMMA FramedFits ==
  ASSUME TypeOK, TypeOK', Steady, NEW V \in Seq(Units), NEW S \in SUBSET Nat, NEW a \in Nat,
         NEW d \in Nat, NEW c \in [Nat -> Nat], Fits(V, S, a, d, c), mode # "down", ~eof,
         NEW n \in Nat, n > 0, n <= Len(feed), Framed(n), feed' = Suffix(feed, n),
         causes' = causes \cup Blame("split", feed[n].k \in {"pid", "line", "clen"}),
         NEW c2 \in [Nat -> Nat], NEW d2 \in Nat, Placed(c, c2, d, d2, n),
         UNCHANGED <<asked, left, in_data, pid, request, content_len, buf, mode, size, eof>>
  PROVE  Fits(V, S, a, d2, c2)'
<1>1. Len(Flow) \in Nat /\ feed \in Seq(Units) /\ Len(feed) \in Nat
  <2>1. feed \in Seq(Units)
    BY DEF TypeOK
  <2>2. Len(feed) \in Nat
    BY <2>1, LenProperties, Zenon
  <2>. QED
    BY <2>1, <2>2, FlowTyped
<1>2. Holds(feed, V, d) /\ Holds(left, V, d + Len(feed)) /\ d + Len(feed) + Len(left) = Len(V)
  BY DEF Fits, Queued, Waits
<1>3. \A j \in 1..n : feed[j].k \notin {"size", "crlf"}
  <2>1. ASSUME NEW j \in 1..n
        PROVE  feed[j].k \notin {"size", "crlf"}
    <3>1. j \in 1..Len(feed)
      BY <1>1
    <3>2. d + j \in 1..Len(V)
      <4>1. PICK x, y, z \in Nat : x = Len(feed) /\ y = Len(left) /\ z = Len(V)
        <5>1. left \in Seq(Units)
          BY DEF TypeOK
        <5>2. Len(left) \in Nat /\ Len(V) \in Nat
          BY <5>1, LenProperties, Zenon
        <5>. QED
          BY <1>1, <5>2
      <4>2. d + x + y = z /\ j \in 1..x
        BY <1>2, <3>1, <4>1
      <4>3. d + j \in 1..z
        BY <4>1, <4>2
      <4>. QED
        BY <4>1, <4>3
    <3>3. V[d + j].k \notin {"size", "crlf"}
      BY <3>2 DEF Fits, Serial
    <3>. QED
      BY <1>2, <3>1, <3>3 DEF Holds
  <2>. QED
    BY <2>1
<1>4. \A j \in 2..Len(feed) : feed[j] # Ping
  BY DEF Steady
<1>5. causes' = {} => causes = {}
  OBVIOUS
<1>6. PICK x \in Nat : x = Len(Flow) + 1
  BY <1>1
<1>7. ChunkAt(V, c2, d2, x, n)'
  BY <1>1, <1>2, <1>3, <1>4, <1>6, FramedNew
<1>8. Chunks(V, c, d) /\ Starts(c, d, a + Len(buf))
  BY DEF Fits
<1>9. \A i, m \in Nat : Opens(i, m)' => Opens(i, m) \/ (i = x /\ m = n)
  <2>1. UNCHANGED <<mode, size>>
    OBVIOUS
  <2>. QED
    BY <1>1, <1>3, <1>6, <2>1, FramedOpens
<1>10. \A i, m \in Nat : Opens(i, m) => ChunkAt(V, c2, d2, i, m)' /\ c2[i] = c[i] /\ i < x
  <2>1. ASSUME NEW i \in Nat, NEW m \in Nat, Opens(i, m)
        PROVE  ChunkAt(V, c2, d2, i, m)' /\ c2[i] = c[i] /\ i < x
    <3>1. ChunkAt(V, c, d, i, m)
      BY <1>8, <2>1 DEF Chunks
    <3>2. ChunkAt(V, c2, d2, i, m)' /\ c2[i] = c[i] /\ i <= Len(Flow)
      BY <1>1, <1>5, <3>1, FramedChunk
    <3>. QED
      BY <1>1, <1>6, <3>2
  <2>. QED
    BY <2>1
<1>11. Chunks(V, c2, d2)'
  <2>1. ASSUME NEW i \in Nat, NEW m \in Nat, Opens(i, m)'
        PROVE  ChunkAt(V, c2, d2, i, m)'
    BY <1>7, <1>9, <1>10, <2>1
  <2>2. ASSUME NEW i \in Nat, NEW j \in Nat, NEW m \in Nat, NEW k \in Nat,
               Opens(i, m)', Opens(j, k)', i < j
        PROVE  c2[i] + m <= c2[j]
    <3>1. Opens(i, m)
      <4>1. CASE i = x
        <5>1. ~(j < i) /\ j # i
          BY <2>2, OneWay
        <5>2. ~(j < x) /\ j # x
          BY <4>1, <5>1
        <5>. QED
          BY <1>9, <1>10, <2>2, <5>2
      <4>. QED
        BY <1>9, <2>2, <4>1
    <3>2. c2[i] = c[i] /\ c[i] + m <= d
      BY <1>8, <1>10, <3>1 DEF Chunks, ChunkAt
    <3>3. CASE j = x
      <4>1. c2[j] = d
        BY <1>6, <3>3 DEF Placed
      <4>. QED
        BY <3>2, <4>1
    <3>4. CASE Opens(j, k)
      <4>1. c2[j] = c[j] /\ c[i] + m <= c[j]
        BY <1>8, <1>10, <2>2, <3>1, <3>4 DEF Chunks
      <4>. QED
        BY <3>2, <4>1
    <3>. QED
      BY <1>9, <2>2, <3>3, <3>4
  <2>. QED
    BY <2>1, <2>2 DEF Chunks
<1>12. PICK e : e = a + Len(buf)
  OBVIOUS
<1>13. Starts(c2, d2, e)'
  <2>1. Starts(c, d, e)
    BY <1>8, <1>12
  <2>2. CASE mode = "buf"
    <3>1. c2[0] = c[0]
      <4>1. 0 \in Nat /\ 0 # Len(Flow) + 1
        BY <1>1
      <4>. QED
        BY <4>1 DEF Placed
    <3>. QED
      BY <2>1, <2>2, <3>1 DEF Starts
  <2>3. CASE mode = "row" /\ SizeAt(c, d, 0, e)
    <3>1. 0 \in Nat /\ 0 <= Len(Flow)
      BY <1>1
    <3>2. SizeAt(c2, d2, 0, e)'
      BY <1>1, <2>3, <3>1, FramedSizes
    <3>. QED
      BY <2>3, <3>2 DEF Starts
  <2>4. CASE mode = "row" /\ Flow # <<>> /\ Flow[1] = Crlf /\ SizeAt(c, d, 1, e)
    <3>1. 1 \in Nat /\ 1 <= Len(Flow) /\ 1 \in 1..Len(Flow)
      <4>1. Flow \in Seq(Units)
        BY FlowTyped
      <4>. QED
        BY <2>4, <4>1
    <3>2. SizeAt(c2, d2, 1, e)'
      BY <1>1, <2>4, <3>1, FramedSizes
    <3>3. Flow'[1] = Crlf
      BY <2>4, <3>1 DEF Framed
    <3>4. Flow' # <<>>
      <4>1. Len(Flow') # 0
        <5>1. Len(Flow') = Len(Flow) + n + 2
          BY DEF Framed
        <5>2. PICK l \in Nat : l = Len(Flow)
          BY <1>1
        <5>3. l + n + 2 # 0
          BY <5>2
        <5>. QED
          BY <5>1, <5>2, <5>3
      <4>. QED
        BY <4>1
    <3>. QED
      BY <2>4, <3>2, <3>3, <3>4 DEF Starts
  <2>. QED
    BY <2>1, <2>2, <2>3, <2>4 DEF Starts
<1>14. Waits(V, d2)'
  <2>1. n \in 0..Len(feed) /\ d2 = d + n
    BY <1>1 DEF Placed
  <2>2. Holds(Suffix(feed, n), V, d + n) /\ d + n + Len(Suffix(feed, n)) = d + Len(feed)
    BY <1>1, <1>2, <2>1, HoldsBehind
  <2>. QED
    BY <1>2, <2>1, <2>2 DEF Waits, Holds
<1>15. Queued(V, a, d2)'
  <2>1. Holds(buf, V, a) /\ a + Len(buf) <= d
    BY DEF Fits, Queued
  <2>2. a + Len(buf) <= d2
    <3>1. PICK y \in Nat : y = a + Len(buf)
      BY DEF TypeOK
    <3>2. y <= d + n /\ d2 = d + n
      BY <2>1, <3>1, SMTT(30) DEF Placed
    <3>. QED
      BY <3>1, <3>2
  <2>. QED
    BY <1>14, <2>1, <2>2 DEF Queued, Holds
<1>16. Serial(V, S)' /\ Parsed(V, S, a)'
  <2>1. Serial(V, S) /\ Parsed(V, S, a)
    BY DEF Fits
  <2>2. Serial(V, S)'
    BY <2>1 DEF Serial, Said
  <2>3. Extends(V, S, V, S) /\ Remembers
    BY DEF Extends, Remembers
  <2>4. Parsed(V, S, a)'
    <3>1. UNCHANGED <<in_data, pid, request, content_len, buf>>
      OBVIOUS
    <3>. QED
      BY <2>1, <2>3, <3>1, ParsedStill
  <2>. QED
    BY <2>2, <2>4
<1>17. \A j \in a + 1..Len(V) : V[j] = Ping => j \in S
  BY DEF Fits
<1>18. causes' = {} /\ ~in_data' => buf' = <<>>
  BY <1>5 DEF Fits
<1>19. Starts(c2, d2, a + Len(buf))'
  BY <1>12, <1>13
<1>. QED
  BY <1>11, <1>15, <1>16, <1>17, <1>18, <1>19 DEF Fits

\* A chunk of what Connect wrote keeps the stream.
LEMMA FramesChunkGoes ==
  ASSUME IInv, TypeOK', Streams, FramesChunk
  PROVE  Streams'
<1>1. PICK n : n = Smaller(Len(feed), MaxBlock)
  OBVIOUS
<1>2. /\ UNCHANGED <<cur, asked, left, in_data, pid, request, content_len, buf, mode, size, eof>>
      /\ mode \in {"row", "buf"} /\ mode' = mode /\ ~eof /\ children' = children /\ sbuf' = sbuf
      /\ wire' = wire \o <<Unit("size", None, n)>> \o Prefix(feed, n) \o <<Crlf>>
      /\ feed' = Suffix(feed, n) /\ feed # <<>>
      /\ causes' = causes \cup Blame("split", feed[n].k \in {"pid", "line", "clen"})
  BY <1>1 DEF FramesChunk, parser
<1>3. TypeOK /\ feed \in Seq(Units) /\ Len(feed) \in Nat
  <2>1. TypeOK /\ feed \in Seq(Units)
    BY DEF IInv, TypeOK
  <2>. QED
    BY <2>1, LenProperties, Zenon
<1>4. n \in Nat /\ n > 0 /\ n <= Len(feed)
  <2>1. Len(feed) > 0
    BY <1>2, <1>3
  <2>. QED
    BY <1>1, <1>3, <2>1, ConstantsAssumption DEF Smaller
<1>5. Framed(n)
  BY <1>2, <1>3, <1>4, FlowFramed
<1>6. Runs'
  <2>1. SUFFICES ASSUME Clean'
                 PROVE  (\E V \in Seq(Units), S \in SUBSET Nat, a, d \in Nat, c \in [Nat -> Nat] :
                           Fits(V, S, a, d, c))'
    BY DEF Runs
  <2>2. PICK V \in Seq(Units), S \in SUBSET Nat, a \in Nat, d \in Nat, c \in [Nat -> Nat] :
          Fits(V, S, a, d, c)
    <3>1. mode \in Modes /\ causes \subseteq causes'
      BY <1>2 DEF Modes
    <3>. QED
      BY <2>1, <3>1, Given DEF Streams
  <2>3. PICK d2 \in Nat, c2 \in [Nat -> Nat] : Placed(c, c2, d, d2, n)
    <3>1. Len(Flow) + 1 \in Nat
      BY <1>3, FlowTyped
    <3>2. [c EXCEPT ![Len(Flow) + 1] = d] \in [Nat -> Nat] /\ d + n \in Nat
      BY <1>4, <2>2, <3>1
    <3>3. Placed(c, [c EXCEPT ![Len(Flow) + 1] = d], d, d + n, n)
      BY <2>2, <3>1 DEF Placed
    <3>. QED
      BY <3>2, <3>3
  <2>4. Steady /\ mode # "down"
    BY <1>2 DEF Streams
  <2>5. Fits(V, S, a, d2, c2)'
    BY <1>2, <1>3, <1>4, <1>5, <2>2, <2>3, <2>4, FramedFits
  <2>. QED
    BY <2>2, <2>3, <2>5
<1>7. Steady'
  <2>1. ASSUME NEW j \in 2..Len(feed')
        PROVE  feed'[j] # Ping
    <3>1. n \in 0..Len(feed)
      BY <1>3, <1>4
    <3>2. Len(feed') = Len(feed) - n /\ \A i \in 1..Len(feed) - n : feed'[i] = feed[n + i]
      BY <1>2, <1>3, <3>1, Cuts
    <3>3. j \in 1..Len(feed) - n /\ n + j \in 2..Len(feed)
      BY <1>3, <1>4, <3>2
    <3>. QED
      BY <3>2, <3>3 DEF Streams, Steady
  <2>. QED
    BY <1>2, <2>1 DEF Streams, Steady, Composed
<1>8. Remembers
  BY <1>2 DEF Remembers
<1>9. mode' \notin Exits /\ causes \subseteq causes'
  BY <1>2 DEF Exits
<1>. QED
  BY <1>2, <1>6, <1>7, <1>8, <1>9, Goes

-----------------------------------------------------------------------------
(* A chunk leaves soc->buf, and nothing of the next one with it.             *)

\* D is the chunk in soc->buf: it carries what V holds behind e.
Carries(D, V, d, e) ==
  /\ size \in Nat /\ size > 0 /\ size <= Len(sbuf) /\ e \in Nat /\ e + size <= d
  /\ D \in Seq(Units) /\ Len(D) = size
  /\ \A j \in 1..size : D[j] = V[e + j] /\ D[j] = sbuf[j]
  /\ causes = {} => D[size].k \notin {"pid", "line", "clen"} /\ \A j \in 2..size : D[j] # Ping

\* The chunk that is read: where it is in the stream and what it may be.
LEMMA BlockOf ==
  ASSUME TypeOK, NEW V, NEW c \in [Nat -> Nat], NEW d \in Nat, NEW e, Chunks(V, c, d),
         Starts(c, d, e), mode = "buf", Len(sbuf) >= size,
         NEW D, D = Block(sbuf, size)
  PROVE  Carries(D, V, d, e)
<1>1. size \in Nat /\ sbuf \in Seq(Units)
  BY DEF TypeOK
<1>2. PICK n \in Nat : n = size
  BY <1>1
<1>3. ChunkAt(V, c, d, 0, n)
  <2>1. Opens(0, n)
    BY <1>2 DEF Opens
  <2>. QED
    BY <2>1 DEF Chunks
<1>4. n > 0 /\ c[0] + n <= d /\ c[0] \in Nat
  BY <1>3 DEF ChunkAt
<1>5. e = c[0]
  BY DEF Starts
<1>6. PICK m \in Nat : m = Len(sbuf) /\ n <= m
  BY <1>1, <1>2
<1>7. D \in Seq(Units) /\ Len(D) = n /\ \A j \in 1..n : D[j] = sbuf[j]
  <2>1. n \in 0..Len(sbuf)
    BY <1>6
  <2>2. /\ Prefix(sbuf, n) \in Seq(Units) /\ Len(Prefix(sbuf, n)) = n
        /\ \A j \in 1..n : Prefix(sbuf, n)[j] = sbuf[j]
    BY <1>1, <2>1, Cuts
  <2>. QED
    BY <1>2, <2>2 DEF Block
<1>8. \A j \in 1..n : Flow[0 + j] = sbuf[j] /\ 0 + j = j
  <2>1. \A j \in 1..n : j \in 1..Len(sbuf) /\ 0 + j = j
    BY <1>6
  <2>. QED
    BY <2>1, FlowTyped
<1>9. \A j \in 1..n : D[j] = V[e + j]
  BY <1>3, <1>5, <1>7, <1>8 DEF ChunkAt
<1>10. causes = {} => D[n].k \notin {"pid", "line", "clen"} /\ \A j \in 2..n : D[j] # Ping
  <2>1. n \in 1..n /\ \A j \in 2..n : j \in 1..n
    BY <1>4
  <2>. QED
    BY <1>3, <1>7, <1>8, <2>1, ZenonT(40) DEF ChunkAt
<1>. QED
  BY <1>2, <1>4, <1>5, <1>6, <1>7, <1>9, <1>10 DEF Carries

\* The frames behind a chunk that was read with no surplus.
LEMMA ChunkLeaves ==
  ASSUME TypeOK, TypeOK', NEW V, NEW c \in [Nat -> Nat], NEW d \in Nat, NEW e, Chunks(V, c, d),
         Starts(c, d, e), mode = "buf", Len(sbuf) >= size, ~Surplus(sbuf, size),
         sbuf' = <<>>, wire' = wire, mode' = "row", eof' = eof, causes' = {} => causes = {},
         NEW e2, e2 = e + size
  PROVE  \E k \in Nat, c2 \in [Nat -> Nat] : k > 0 /\ Taken(k, c, c2) /\ Starts(c2, d, e2)'
<1>1. PICK n, k \in Nat : n = size /\ k = Len(sbuf) /\ n <= k
  <2>1. size \in Nat /\ sbuf \in Seq(Units)
    BY DEF TypeOK
  <2>2. Len(sbuf) \in Nat
    BY <2>1, LenProperties, Zenon
  <2>3. PICK n, k : n = size /\ k = Len(sbuf)
    OBVIOUS
  <2>4. n \in Nat /\ k \in Nat
    BY <2>1, <2>2, <2>3
  <2>5. n <= k
    BY <2>3, <2>4
  <2>. QED
    BY <2>3, <2>4, <2>5
<1>2. ChunkAt(V, c, d, 0, n)
  <2>1. Opens(0, n)
    BY <1>1 DEF Opens
  <2>. QED
    BY <2>1 DEF Chunks
<1>3. PICK l, w \in Nat : l = Len(Flow) /\ w = Len(wire) /\ l = k + w
  BY <1>1, FlowTyped
<1>4. PICK F : F = Flow
  OBVIOUS
<1>5. /\ n > 0
      /\ n < l => F[n + 1] = Crlf
      /\ SizeAt(c, d, n + 1, e2)
  <2>1. 0 + n = n /\ c[0] + n = e2
    BY <1>1 DEF Starts
  <2>. QED
    BY <1>2, <1>3, <1>4, <2>1 DEF ChunkAt
<1>6. n > 0
  BY <1>5
<1>7. k = n \/ k = n + 1
  <2>1. SUFFICES ASSUME k >= n + 2 PROVE FALSE
    BY <1>1
  <2>2. n + 2 \in 1..k /\ n + 2 \in n + 1..k /\ n + 1 < l /\ (n + 1) + 1 = n + 2
    BY <1>3, <2>1
  <2>3. sbuf[n + 2].k = "crlf"
    BY <1>1, <2>2 DEF Surplus
  <2>4. F[n + 2] = sbuf[n + 2]
    BY <1>1, <1>4, <2>2, FlowTyped
  <2>5. F[n + 2].k = "size"
    BY <1>3, <1>4, <1>5, <2>2 DEF SizeAt
  <2>. QED
    BY <2>3, <2>4, <2>5
<1>8. PICK c2 \in [Nat -> Nat] : \A i \in Nat : c2[i] = c[k + i]
  <2>1. k \in Nat /\ c \in [Nat -> Nat]
    OBVIOUS
  <2>. QED
    BY <2>1, Places
<1>9. Len(Flow) = k + Len(Flow') /\ \A i \in 1..Len(Flow') : Flow'[i] = Flow[k + i]
  <2>1. k \in 0..Len(sbuf) /\ sbuf \in Seq(Units)
    BY <1>1 DEF TypeOK
  <2>2. Suffix(sbuf, k) = <<>>
    <3>1. Len(Suffix(sbuf, k)) = Len(sbuf) - k /\ Suffix(sbuf, k) \in Seq(Units)
      BY <2>1, Cuts
    <3>2. Len(sbuf) - k = 0
      BY <1>1
    <3>. QED
      BY <3>1, <3>2
  <2>. QED
    BY <2>1, <2>2, FlowCut
<1>10. Taken(k, c, c2)
  BY <1>8, <1>9 DEF Taken
<1>11. Len(Flow) \in Nat /\ Len(Flow') \in Nat /\ Len(Flow') = w
  <2>1. Flow' = wire'
    <3>1. wire' \in Seq(Units)
      BY DEF TypeOK
    <3>. QED
      BY <3>1, ConcatEmptySeq DEF Flow
  <2>. QED
    BY <1>3, <2>1
<1>12. Starts(c2, d, e2)'
  <2>1. CASE k = n + 1
    <3>1. SizeAt(c2, d, 0, e2)'
      <4>1. SizeAt(c, d, k, e2) /\ 0 \in Nat /\ k = k + 0
        BY <1>5, <2>1
      <4>. QED
        BY <1>10, <1>11, <4>1, TakenSizes
    <3>. QED
      BY <3>1 DEF Starts
  <2>2. CASE k = n /\ w = 0
    <3>1. ~(n + 1 < l)
      BY <1>3, <2>2
    <3>2. d = e2
      BY <1>3, <1>5, <3>1 DEF SizeAt
    <3>3. SizeAt(c2, d, 0, e2)'
      BY <1>11, <2>2, <3>2 DEF SizeAt
    <3>. QED
      BY <3>3 DEF Starts
  <2>3. CASE k = n /\ w # 0
    <3>1. SizeAt(c2, d, 1, e2)'
      <4>1. PICK h \in Nat : h = k + 1
        OBVIOUS
      <4>2. SizeAt(c, d, h, e2) /\ 1 \in Nat
        BY <1>5, <2>3, <4>1
      <4>. QED
        BY <1>10, <1>11, <4>1, <4>2, TakenSizes
    <3>2. n < l /\ 1 \in 1..w
      <4>1. l = k + w
        BY <1>3
      <4>. QED
        BY <2>3, <4>1
    <3>3. Flow'[1] = Crlf
      BY <1>4, <1>5, <1>9, <1>11, <2>3, <3>2
    <3>4. Flow' # <<>>
      BY <1>11, <2>3
    <3>. QED
      BY <3>1, <3>3, <3>4 DEF Starts
  <2>. QED
    BY <1>3, <1>7, <2>1, <2>2, <2>3
<1>13. k > 0
  BY <1>1, <1>6
<1>. QED
  BY <1>10, <1>12, <1>13

-----------------------------------------------------------------------------
(* A ping that is skipped.  If the daemon holds the beginning of a request   *)
(* that a chunk brought with the end of the one before, the ping overtakes   *)
(* it: in the stream it moves in front of what is held.                      *)

\* V2 is V with what is at p moved in front of what is at a + 1 and behind.
Overtakes(V, V2, a, p) ==
  /\ Len(V2) = Len(V) /\ a < p /\ p <= Len(V)
  /\ V2[a + 1] = Ping
  /\ \A j \in 1..Len(V) : j <= a => V2[j] = V[j]
  /\ \A j \in Nat : a < j /\ j < p => V2[j + 1] = V[j]
  /\ \A j \in 1..Len(V) : j > p => V2[j] = V[j]

\* Such a V2 there is.
LEMMA OvertakenSeq ==
  ASSUME NEW V \in Seq(Units), NEW a \in Nat, NEW p \in Nat, a < p, p <= Len(V)
  PROVE  \E V2 \in Seq(Units) : Overtakes(V, V2, a, p)
<1>1. PICK n \in Nat : n = Len(V) /\ \A j \in 1..n : V[j] \in Units
  OBVIOUS
<1>2. p <= n
  BY <1>1
<1>3. PICK V2 : V2 = [j \in 1..n |-> IF j = a + 1 THEN Ping
                                     ELSE IF j > a /\ j <= p THEN V[j - 1] ELSE V[j]]
  OBVIOUS
<1>4. Ping \in Units
  BY DEF Ping, Unit, Units, Kinds
<1>5. ASSUME NEW j \in 1..n, j # a + 1, j > a, j <= p
      PROVE  j - 1 \in 1..n
  BY <1>5
<1>6. \A j \in 1..n : V2[j] \in Units
  BY <1>1, <1>3, <1>4, <1>5
<1>7. V2 \in Seq(Units) /\ Len(V2) = n
  BY <1>1, <1>3, <1>6
<1>8. V2[a + 1] = Ping
  <2>1. a + 1 \in 1..n
    BY <1>2
  <2>. QED
    BY <1>3, <2>1
<1>9. ASSUME NEW j \in Nat, a < j, j < p
      PROVE  V2[j + 1] = V[j]
  <2>1. j + 1 \in 1..n /\ j + 1 # a + 1 /\ j + 1 > a /\ j + 1 <= p /\ (j + 1) - 1 = j
    BY <1>2, <1>9
  <2>. QED
    BY <1>3, <2>1
<1>10. ASSUME NEW j \in 1..n, j > p
       PROVE  V2[j] = V[j]
  <2>1. j # a + 1 /\ ~(j <= p)
    BY <1>10
  <2>. QED
    BY <1>3, <2>1
<1>11. ASSUME NEW j \in 1..n, j <= a
       PROVE  V2[j] = V[j]
  <2>1. j # a + 1 /\ ~(j > a)
    BY <1>11
  <2>. QED
    BY <1>3, <2>1
<1>. QED
  BY <1>1, <1>7, <1>8, <1>9, <1>10, <1>11 DEF Overtakes

\* Where requests and pings begin then.
Begins(V, S, a, p) ==
  {s \in 1..Len(V) + 1 : \/ s > p /\ s \in S
                         \/ s <= p /\ s > a + 1 /\ s - 1 \in S}

\* Each of these places was one before, or follows one.
LEMMA BeginsAt ==
  ASSUME NEW V, NEW S, NEW a, NEW p, NEW s \in Begins(V, S, a, p)
  PROVE  s \in 1..Len(V) + 1 /\ ((s > p /\ s \in S) \/ (s <= p /\ s > a + 1 /\ s - 1 \in S))
BY DEF Begins

\* What began at a place in front of the ping begins at the next one.
LEMMA Moved ==
  ASSUME NEW V, NEW S \in SUBSET Nat, NEW a \in Nat, NEW p \in Nat, Len(V) \in Nat,
         p <= Len(V), p + 1 \in S, NEW u \in S, a < u, u <= p
  PROVE  u + 1 \in Begins(V, S, a, p)
<1>1. u \in Nat
  OBVIOUS
<1>2. PICK n \in Nat : n = Len(V) /\ p <= n
  OBVIOUS
<1>3. CASE u = p
  <2>1. u + 1 \in 1..n + 1 /\ u + 1 > p
    BY <1>2, <1>3
  <2>. QED
    BY <1>2, <1>3, <2>1 DEF Begins
<1>4. CASE u # p
  <2>1. u + 1 \in 1..n + 1 /\ u + 1 <= p /\ u + 1 > a + 1 /\ (u + 1) - 1 = u
    BY <1>1, <1>2, <1>4
  <2>. QED
    BY <1>2, <2>1 DEF Begins
<1>. QED
  BY <1>3, <1>4

\* A request behind the ping stays where it is.
LEMMA StaysBehind ==
  ASSUME TypeOK, asked' = asked, NEW V \in Seq(Units), NEW S \in SUBSET Nat, Serial(V, S),
         NEW V2, NEW a \in Nat, NEW p \in Nat, Overtakes(V, V2, a, p),
         NEW s \in S, s > p, NEW r \in Reqs, Said(V, s, r), s + Len(asked[r]) + 1 \in S
  PROVE  Said(V2, s, r)' /\ s + Len(asked'[r]) + 1 \in Begins(V, S, a, p)
<1>1. s \in Nat /\ s > 0 /\ Len(asked[r]) \in Nat /\ s + Len(asked[r]) <= Len(V)
  BY SaidWhole
<1>2. PICK l, n \in Nat : l = Len(asked[r]) /\ n = Len(V)
  BY <1>1
<1>3. s + l <= n
  BY <1>1, <1>2
<1>4. \A j \in 1..n : j > p => V2[j] = V[j]
  BY <1>2 DEF Overtakes
<1>5. V2[s] = V[s]
  <2>1. s \in 1..n
    BY <1>1, <1>2, <1>3
  <2>. QED
    BY <1>4, <2>1
<1>6. ASSUME NEW i \in 1..l
      PROVE  V2[s + i] = V[s + i]
  <2>1. s + i \in 1..n /\ s + i > p
    BY <1>1, <1>2, <1>3
  <2>. QED
    BY <1>4, <2>1
<1>7. Said(V2, s, r)'
  BY <1>2, <1>5, <1>6 DEF Said
<1>8. s + l + 1 \in 1..n + 1 /\ s + l + 1 > p
  BY <1>1, <1>2, <1>3
<1>. QED
  BY <1>2, <1>7, <1>8 DEF Begins

\* A request in front of the ping moves by one, and as a whole.
LEMMA MovesOn ==
  ASSUME TypeOK, Steady, asked' = asked, NEW V \in Seq(Units), NEW S \in SUBSET Nat, Serial(V, S),
         NEW V2, NEW a \in Nat, NEW p \in Nat, Overtakes(V, V2, a, p), V[p] = Ping, p + 1 \in S,
         NEW t \in S, a < t, t < p, NEW r \in Reqs, asked[r] # <<>>, Said(V, t, r),
         t + Len(asked[r]) + 1 \in S
  PROVE  Said(V2, t + 1, r)' /\ (t + 1) + Len(asked'[r]) + 1 \in Begins(V, S, a, p)
<1>1. t \in Nat /\ t > 0 /\ Len(asked[r]) \in Nat /\ t + Len(asked[r]) <= Len(V)
  BY SaidWhole
<1>2. PICK h \in {2, 3} : Composed(r, h)
  BY DEF Steady
<1>3. \A i \in 1..Len(asked[r]) : asked[r][i] # Ping
  <2>1. AskedWell(r, h)
    BY <1>2, ComposedWell
  <2>. QED
    BY <2>1 DEF AskedWell
<1>4. PICK l, n \in Nat : l = Len(asked[r]) /\ n = Len(V)
  BY <1>1
<1>5. t + l < p
  <2>1. SUFFICES ASSUME p <= t + l PROVE FALSE
    BY <1>1, <1>4
  <2>2. PICK i \in 1..l : p = t + i
    <3>1. p - t \in 1..l /\ p = t + (p - t)
      BY <1>1, <1>4, <2>1
    <3>. QED
      BY <3>1
  <2>3. V[t + i] = asked[r][i]
    BY <1>4 DEF Said
  <2>. QED
    BY <1>3, <1>4, <2>2, <2>3
<1>6. \A j \in Nat : a < j /\ j < p => V2[j + 1] = V[j]
  BY DEF Overtakes
<1>7. V2[t + 1] = V[t]
  BY <1>1, <1>6
<1>8. ASSUME NEW i \in 1..l
      PROVE  V2[(t + 1) + i] = V[t + i]
  <2>1. PICK j \in Nat : j = t + i /\ j + 1 = (t + 1) + i
    <3>1. t + i \in Nat /\ (t + i) + 1 = (t + 1) + i
      BY <1>1
    <3>. QED
      BY <3>1
  <2>2. a < j /\ j < p
    BY <1>1, <1>4, <1>5, <2>1
  <2>. QED
    BY <1>6, <2>1, <2>2
<1>9. Said(V2, t + 1, r)'
  BY <1>4, <1>7, <1>8 DEF Said
<1>10. (t + 1) + l + 1 \in Begins(V, S, a, p)
  <2>1. PICK u \in S : u = t + l + 1 /\ u + 1 = (t + 1) + l + 1 /\ a < u /\ u <= p
    <3>1. t \in Nat /\ l \in Nat
      BY <1>1, <1>4
    <3>2. (t + l + 1) + 1 = (t + 1) + l + 1 /\ a < t + l + 1 /\ t + l + 1 <= p
      BY <1>5, <3>1
    <3>. QED
      BY <1>4, <3>2
  <2>2. p <= Len(V) /\ Len(V) \in Nat
    BY <1>4 DEF Overtakes
  <2>3. u + 1 \in Begins(V, S, a, p)
    BY <2>1, <2>2, Moved
  <2>. QED
    BY <2>1, <2>3
<1>. QED
  BY <1>4, <1>9, <1>10

\* So the stream with the ping moved is one, too.
LEMMA Rotates ==
  ASSUME TypeOK, Steady, asked' = asked, NEW V \in Seq(Units), NEW S \in SUBSET Nat, Serial(V, S),
         NEW V2 \in Seq(Units), NEW a \in Nat, NEW p \in Nat, Overtakes(V, V2, a, p), V[p] = Ping,
         p \in S, NEW S2, S2 = Begins(V, S, a, p)
  PROVE  Serial(V2, S2)'
<1>1. PICK n \in Nat : n = Len(V)
  OBVIOUS
<1>2. Len(V2) = n /\ a < p /\ p <= n /\ V2[a + 1] = Ping
  BY <1>1 DEF Overtakes
<1>3. p + 1 \in S
  BY <1>1, <1>2, PlaceSays
<1>4. \A j \in 1..n : V[j].k \notin {"size", "crlf"}
  BY <1>1 DEF Serial
<1>5. \A j \in 1..n : j <= a \/ j > p => V2[j] = V[j]
  BY <1>1 DEF Overtakes
<1>6. \A j \in Nat : a < j /\ j < p => V2[j + 1] = V[j]
  BY DEF Overtakes
<1>7. ASSUME NEW j \in 1..n
      PROVE  V2[j].k \notin {"size", "crlf"}
  <2>1. CASE j <= a \/ j > p
    BY <1>4, <1>5, <2>1
  <2>2. CASE j = a + 1
    BY <1>2, <2>2 DEF Ping, Unit
  <2>3. CASE j > a + 1 /\ j <= p
    <3>1. PICK i \in 1..n : j = i + 1 /\ a < i /\ i < p
      <4>1. j - 1 \in 1..n /\ j = (j - 1) + 1 /\ a < j - 1 /\ j - 1 < p
        BY <2>3
      <4>. QED
        BY <4>1
    <3>2. V2[i + 1] = V[i]
      BY <1>6, <3>1
    <3>. QED
      BY <1>4, <3>1, <3>2
  <2>4. j <= a \/ j > p \/ j = a + 1 \/ (j > a + 1 /\ j <= p)
    OBVIOUS
  <2>. QED
    BY <2>1, <2>2, <2>3, <2>4
<1>8. S2 \subseteq 1..n + 1 /\ n + 1 \in S2
  <2>1. n + 1 \in S
    BY <1>1 DEF Serial
  <2>2. n + 1 > p /\ n + 1 \in 1..n + 1
    BY <1>2
  <2>. QED
    BY <1>1, <2>1, <2>2 DEF Begins
<1>9. ASSUME NEW s \in S2, s <= n, s > p, s \in S
      PROVE  \/ V2[s] = Ping /\ s + 1 \in S2
             \/ \E r \in Reqs : asked[r] # <<>> /\ Said(V2, s, r)' /\ s + Len(asked'[r]) + 1 \in S2
  <2>1. s \in 1..n /\ V2[s] = V[s]
    <3>1. s \in Nat
      BY <1>9
    <3>2. s \in 1..n
      BY <1>9, <3>1
    <3>. QED
      BY <1>5, <1>9, <3>2
  <2>2. CASE V[s] = Ping
    <3>1. s + 1 \in S
      BY <1>1, <1>9, <2>2, PlaceSays
    <3>2. s + 1 \in 1..n + 1 /\ s + 1 > p
      BY <1>9, <2>1
    <3>. QED
      BY <1>1, <2>1, <2>2, <3>1, <3>2 DEF Begins
  <2>3. CASE V[s] # Ping
    <3>1. PICK r \in Reqs : asked[r] # <<>> /\ Said(V, s, r) /\ s + Len(asked[r]) + 1 \in S
      BY <1>1, <1>9, <2>3, PlaceSays
    <3>2. Said(V2, s, r)' /\ s + Len(asked'[r]) + 1 \in Begins(V, S, a, p)
      BY <1>9, <3>1, StaysBehind
    <3>. QED
      BY <3>1, <3>2
  <2>. QED
    BY <2>2, <2>3
<1>10. ASSUME NEW s \in S2, s <= p, NEW t \in S, s = t + 1, a < t, t < p
       PROVE  \/ V2[s] = Ping /\ s + 1 \in S2
              \/ \E r \in Reqs : asked[r] # <<>> /\ Said(V2, s, r)' /\ s + Len(asked'[r]) + 1 \in S2
  <2>1. t \in Nat /\ t <= n
    <3>1. t \in Nat
      OBVIOUS
    <3>. QED
      BY <1>2, <1>10, <3>1
  <2>2. V2[t + 1] = V[t]
    BY <1>6, <1>10, <2>1
  <2>3. CASE V[t] = Ping
    <3>1. t + 1 \in S
      BY <1>1, <2>1, <2>3, PlaceSays
    <3>2. a < t + 1 /\ t + 1 <= p
      BY <1>10, <2>1
    <3>3. PICK u \in S : u = t + 1 /\ a < u /\ u <= p
      BY <3>1, <3>2
    <3>4. u + 1 \in Begins(V, S, a, p)
      BY <1>1, <1>2, <1>3, <3>3, Moved
    <3>. QED
      BY <1>10, <2>2, <2>3, <3>3, <3>4
  <2>4. CASE V[t] # Ping
    <3>1. PICK r \in Reqs : asked[r] # <<>> /\ Said(V, t, r) /\ t + Len(asked[r]) + 1 \in S
      BY <1>1, <2>1, <2>4, PlaceSays
    <3>2. Said(V2, t + 1, r)' /\ (t + 1) + Len(asked'[r]) + 1 \in Begins(V, S, a, p)
      BY <1>3, <1>10, <3>1, MovesOn
    <3>. QED
      BY <1>10, <3>1, <3>2
  <2>. QED
    BY <2>3, <2>4
<1>11. ASSUME NEW s \in S2, s <= n
       PROVE  \/ V2[s] = Ping /\ s + 1 \in S2
              \/ \E r \in Reqs : asked[r] # <<>> /\ Said(V2, s, r)' /\ s + Len(asked'[r]) + 1 \in S2
  <2>1. s \in 1..n + 1 /\ ((s > p /\ s \in S) \/ (s <= p /\ s > a + 1 /\ s - 1 \in S))
    <3>1. s \in Begins(V, S, a, p)
      BY <1>11
    <3>2. s \in 1..Len(V) + 1 /\ ((s > p /\ s \in S) \/ (s <= p /\ s > a + 1 /\ s - 1 \in S))
      BY <3>1, BeginsAt
    <3>. QED
      BY <1>1, <3>2
  <2>2. CASE s > p /\ s \in S
    BY <1>9, <1>11, <2>2
  <2>3. CASE s <= p /\ s > a + 1 /\ s - 1 \in S
    <3>1. s \in Nat
      BY <2>1
    <3>2. PICK t \in S : t = s - 1
      BY <2>3
    <3>3. s = t + 1 /\ a < t /\ t < p
      BY <2>3, <3>1, <3>2
    <3>. QED
      BY <1>10, <2>3, <3>3
  <2>. QED
    BY <2>1, <2>2, <2>3
<1>. QED
  BY <1>2, <1>7, <1>8, <1>11 DEF Serial

\* How far the parser, the frames and the stream are apart.
LEMMA Lengths ==
  ASSUME TypeOK, NEW V \in Seq(Units), NEW a \in Nat, NEW d \in Nat, Queued(V, a, d)
  PROVE  Len(buf) \in Nat /\ Len(V) \in Nat /\ a + Len(buf) <= d /\ d <= Len(V)
<1>1. buf \in Seq(Units) /\ feed \in Seq(Units) /\ left \in Seq(Units)
  BY DEF TypeOK
<1>2. PICK x, y, z \in Nat : x = Len(feed) /\ y = Len(left) /\ z = Len(V)
  BY <1>1
<1>3. d + x + y = z /\ a + Len(buf) <= d
  BY <1>2 DEF Queued, Waits
<1>4. d <= z
  BY <1>2, <1>3
<1>. QED
  BY <1>1, <1>2, <1>3, <1>4

\* Place p of stream V is the ping that is read next: a request begins behind it.
PingAt(V, S, a, d, c, p) ==
  /\ p = a + Len(buf) + 1 /\ p = c[0] + 1 /\ a < p /\ p <= d /\ p <= Len(V)
  /\ V[p] = Ping /\ p \in S /\ ~in_data

\* A ping that is skipped is one of the stream, not in the middle of a request.
LEMMA PingFound ==
  ASSUME TypeOK, Steady, NEW V \in Seq(Units), NEW S \in SUBSET Nat, NEW a \in Nat, NEW d \in Nat,
         NEW c \in [Nat -> Nat], Fits(V, S, a, d, c),
         mode = "buf", size = 1, sbuf # <<>>, sbuf[1] = Ping
  PROVE  \E p \in Nat : PingAt(V, S, a, d, c, p)
<1>1. PICK m \in Nat : m = Len(buf) /\ a + m <= d /\ d <= Len(V) /\ Len(V) \in Nat
  BY Lengths DEF Fits
<1>2. ChunkAt(V, c, d, 0, 1)
  <2>1. Opens(0, 1)
    BY DEF Opens
  <2>2. Chunks(V, c, d)
    BY DEF Fits
  <2>. QED
    BY <2>1, <2>2 DEF Chunks
<1>3. c[0] = a + m
  <2>1. Starts(c, d, a + Len(buf))
    BY DEF Fits
  <2>. QED
    BY <1>1, <2>1 DEF Starts
<1>4. PICK p \in Nat : p = a + m + 1
  OBVIOUS
<1>5. p <= d
  <2>1. c[0] + 1 <= d
    BY <1>2 DEF ChunkAt
  <2>. QED
    BY <1>3, <1>4, <2>1
<1>6. a < p /\ p <= Len(V) /\ p = c[0] + 1
  <2>1. d <= Len(V) /\ Len(V) \in Nat /\ m \in Nat
    BY <1>1
  <2>2. a < p /\ p <= Len(V)
    BY <1>4, <1>5, <2>1
  <2>. QED
    BY <1>3, <1>4, <2>2
<1>7. V[p] = Ping
  <2>1. Flow[0 + 1] = V[c[0] + 1] /\ 0 + 1 = 1
    BY <1>2 DEF ChunkAt
  <2>2. 1 \in 1..Len(sbuf)
    BY DEF TypeOK
  <2>3. Flow[1] = sbuf[1]
    BY <2>2, FlowTyped
  <2>. QED
    BY <1>6, <2>1, <2>3
<1>8. p \in S
  <2>1. p \in a + 1..Len(V)
    BY <1>6
  <2>. QED
    BY <1>7, <2>1 DEF Fits
<1>9. ASSUME in_data
      PROVE  FALSE
  <2>1. Parsed(V, S, a)
    BY DEF Fits
  <2>2. PICK h \in {2, 3}, s \in S :
          /\ Composed(pid, h) /\ a = s + h
          /\ Said(V, s, pid) /\ s + Len(asked[pid]) + 1 \in S
          /\ content_len = Len(asked[pid]) - h
    BY <1>9, <2>1 DEF Parsed
  <2>3. pid \in Reqs /\ m < content_len
    BY <1>1, <1>9, <2>1 DEF Parsed
  <2>4. PICK r \in Reqs : r = pid
    BY <2>3
  <2>5. Len(asked[r]) \in Nat /\ \A i \in 1..Len(asked[r]) : asked[r][i] # Ping
    <3>1. AskedWell(r, h)
      BY <2>2, <2>4, ComposedWell
    <3>. QED
      BY <3>1 DEF AskedWell
  <2>6. PICK l \in Nat : l = Len(asked[r]) /\ \A i \in 1..l : V[s + i] = asked[r][i] /\ asked[r][i] # Ping
    BY <2>2, <2>4, <2>5 DEF Said
  <2>7. s \in Nat /\ m < l - h
    BY <2>2, <2>3, <2>4, <2>6
  <2>8. PICK i \in 1..l : p = s + i
    <3>1. h \in Nat /\ m \in Nat /\ l \in Nat /\ s \in Nat /\ a = s + h /\ m < l - h
      BY <1>1, <2>2, <2>6, <2>7
    <3>2. h + m + 1 \in 1..l /\ p = s + (h + m + 1)
      BY <1>4, <3>1
    <3>. QED
      BY <3>2
  <2>. QED
    BY <1>7, <2>6, <2>8
<1>. QED
  BY <1>1, <1>4, <1>5, <1>6, <1>7, <1>8, <1>9 DEF PingAt

\* The chunks behind the ping carry what they carried.
LEMMA PingAgrees ==
  ASSUME NEW V \in Seq(Units), NEW c \in [Nat -> Nat], NEW d \in Nat, Chunks(V, c, d),
         mode = "buf", size = 1, NEW k \in Nat, k > 0,
         NEW V2, NEW a, NEW p \in Nat, p = c[0] + 1, d <= Len(V), Len(V) \in Nat,
         Overtakes(V, V2, a, p)
  PROVE  Agree(V, V2, c, k)
<1>1. SUFFICES ASSUME NEW i \in Nat, NEW n \in Nat, i >= k, Opens(i, n), NEW j \in 1..n
               PROVE  V2[c[i] + j] = V[c[i] + j]
  BY DEF Agree
<1>2. Opens(0, 1)
  BY DEF Opens
<1>3. 0 < i
  BY <1>1
<1>4. c[0] + 1 <= c[i] /\ c[i] + n <= d
  BY <1>1, <1>2, <1>3 DEF Chunks, ChunkAt
<1>5. PICK e \in Nat : e = c[i]
  OBVIOUS
<1>6. p <= e /\ e + n <= d
  BY <1>4, <1>5
<1>7. e + j \in 1..Len(V) /\ e + j > p
  <2>1. PICK x \in Nat : x = Len(V) /\ d <= x
    OBVIOUS
  <2>2. e + j \in 1..d /\ e + j > p
    <3>1. e + j \in 1..d
      BY <1>6, Within
    <3>2. e \in Nat /\ j \in Nat /\ j >= 1
      OBVIOUS
    <3>. QED
      BY <1>6, <3>1, <3>2
  <2>. QED
    BY <2>1, <2>2
<1>8. \A q \in 1..Len(V) : q > p => V2[q] = V[q]
  BY DEF Overtakes
<1>. QED
  BY <1>5, <1>7, <1>8

\* What is held behind a is held behind the ping that has overtaken it.
LEMMA HoldsOn ==
  ASSUME NEW V, NEW V2, NEW b \in Seq(Units), NEW a \in Nat, NEW p \in Nat, Holds(b, V, a),
         p = a + Len(b) + 1, Overtakes(V, V2, a, p)
  PROVE  Holds(b, V2, a + 1)
<1>1. PICK n \in Nat : n = Len(b)
  OBVIOUS
<1>2. ASSUME NEW i \in 1..n
      PROVE  b[i] = V2[(a + 1) + i]
  <2>1. PICK j \in Nat : j = a + i /\ j + 1 = (a + 1) + i /\ a < j /\ j < p
    <3>1. a + i \in Nat /\ (a + i) + 1 = (a + 1) + i /\ a < a + i /\ a + i < p
      BY <1>1
    <3>. QED
      BY <3>1
  <2>2. V2[j + 1] = V[j]
    BY <2>1 DEF Overtakes
  <2>3. b[i] = V[a + i]
    BY <1>1 DEF Holds
  <2>. QED
    BY <2>1, <2>2, <2>3
<1>. QED
  BY <1>1, <1>2 DEF Holds

\* What follows the ping is where it was.
LEMMA WaitsOn ==
  ASSUME TypeOK, NEW V \in Seq(Units), NEW d \in Nat, Waits(V, d),
         NEW V2, NEW a, NEW p \in Nat, p <= d, Overtakes(V, V2, a, p)
  PROVE  Waits(V2, d)
<1>1. PICK x, y, z \in Nat : x = Len(feed) /\ y = Len(left) /\ z = Len(V)
  BY DEF TypeOK
<1>2. d + x + y = z /\ Len(V2) = z
  BY <1>1 DEF Waits, Overtakes
<1>3. \A j \in 1..z : j > p => V2[j] = V[j]
  BY <1>1 DEF Overtakes
<1>4. ASSUME NEW i \in 1..x
      PROVE  feed[i] = V2[d + i]
  <2>1. d + i \in 1..z /\ d + i > p
    BY <1>2
  <2>2. feed[i] = V[d + i]
    BY <1>1 DEF Waits, Holds
  <2>. QED
    BY <1>3, <2>1, <2>2
<1>5. ASSUME NEW i \in 1..y
      PROVE  left[i] = V2[(d + x) + i]
  <2>1. (d + x) + i \in 1..z /\ (d + x) + i > p
    BY <1>2
  <2>2. left[i] = V[(d + x) + i]
    BY <1>1 DEF Waits, Holds
  <2>. QED
    BY <1>3, <2>1, <2>2
<1>. QED
  BY <1>1, <1>2, <1>4, <1>5 DEF Waits, Holds

\* The pings behind the parser are where the stream says.
LEMMA PingsOn ==
  ASSUME NEW V \in Seq(Units), NEW S \in SUBSET Nat, NEW a \in Nat, NEW p \in Nat,
         \A j \in a + 1..Len(V) : V[j] = Ping => j \in S, p + 1 \in S,
         NEW V2, Overtakes(V, V2, a, p), NEW S2, S2 = Begins(V, S, a, p),
         NEW j \in (a + 1) + 1..Len(V2), V2[j] = Ping
  PROVE  j \in S2
<1>1. PICK n \in Nat : n = Len(V) /\ Len(V2) = n /\ p <= n /\ a < p
  BY DEF Overtakes
<1>2. j \in Nat /\ j > a + 1 /\ j <= n
  BY <1>1
<1>3. CASE j > p
  <2>1. j \in 1..n /\ j \in a + 1..n
    BY <1>2
  <2>2. V2[j] = V[j]
    BY <1>1, <1>3, <2>1 DEF Overtakes
  <2>3. j \in S
    BY <1>1, <2>1, <2>2
  <2>4. j \in 1..n + 1
    BY <2>1
  <2>. QED
    BY <1>1, <1>3, <2>3, <2>4 DEF Begins
<1>4. CASE j <= p
  <2>1. PICK i \in a + 1..n : j = i + 1 /\ a < i /\ i < p /\ i <= p /\ i \in Nat
    <3>1. j - 1 \in a + 1..n /\ j = (j - 1) + 1 /\ a < j - 1 /\ j - 1 < p /\ j - 1 <= p /\ j - 1 \in Nat
      BY <1>2, <1>4
    <3>. QED
      BY <3>1
  <2>2. V2[i + 1] = V[i]
    BY <2>1 DEF Overtakes
  <2>3. PICK u \in S : u = i
    BY <1>1, <2>1, <2>2
  <2>4. u + 1 \in Begins(V, S, a, p)
    BY <1>1, <2>1, <2>3, Moved
  <2>. QED
    BY <2>1, <2>3, <2>4
<1>. QED
  BY <1>2, <1>3, <1>4

\* A ping that is skipped leaves a stream behind it.
LEMMA PingPasses ==
  ASSUME TypeOK, Steady, asked' = asked,
         UNCHANGED <<feed, left, in_data, pid, request, content_len, buf>>,
         NEW V \in Seq(Units), NEW S \in SUBSET Nat, NEW a \in Nat, NEW d \in Nat,
         NEW c \in [Nat -> Nat], Fits(V, S, a, d, c),
         mode = "buf", size = 1, sbuf # <<>>, sbuf[1] = Ping, mode' = "row",
         NEW k \in Nat, k > 0, NEW c2 \in [Nat -> Nat], Taken(k, c, c2), Len(Flow') \in Nat,
         NEW e2, e2 = a + Len(buf) + 1, Starts(c2, d, e2)'
  PROVE  (\E U \in Seq(Units), T \in SUBSET Nat, t, x \in Nat, y \in [Nat -> Nat] :
            Fits(U, T, t, x, y))'
<1>1. PICK p \in Nat : /\ p = a + Len(buf) + 1 /\ p = c[0] + 1 /\ a < p /\ p <= d /\ p <= Len(V)
                       /\ V[p] = Ping /\ p \in S /\ ~in_data
  <2>1. \E p \in Nat : PingAt(V, S, a, d, c, p)
    BY PingFound
  <2>. QED
    BY <2>1 DEF PingAt
<1>2. Serial(V, S) /\ Parsed(V, S, a) /\ Queued(V, a, d) /\ Chunks(V, c, d)
  BY DEF Fits
<1>3. Len(buf) \in Nat /\ Len(V) \in Nat /\ d <= Len(V)
  BY <1>2, Lengths
<1>4. a + 1 \in S /\ request = <<>> /\ p + 1 \in S
  <2>1. p + 1 \in S
    BY <1>1, <1>2, PlaceSays
  <2>. QED
    BY <1>1, <1>2, <2>1 DEF Parsed
<1>5. PICK V2 \in Seq(Units) : Overtakes(V, V2, a, p)
  BY <1>1, OvertakenSeq
<1>6. PICK S2 : S2 = Begins(V, S, a, p)
  OBVIOUS
<1>7. S2 \in SUBSET Nat
  BY <1>3, <1>6 DEF Begins
<1>8. PICK a2 \in Nat : a2 = a + 1
  OBVIOUS
<1>9. Serial(V2, S2)'
  BY <1>1, <1>2, <1>5, <1>6, Rotates
<1>10. Parsed(V2, S2, a2)'
  <2>1. PICK u \in S : u = a2 /\ a < u /\ u <= p
    BY <1>1, <1>4, <1>8
  <2>2. u + 1 \in Begins(V, S, a, p)
    BY <1>1, <1>3, <1>4, <2>1, Moved
  <2>. QED
    BY <1>1, <1>4, <1>6, <2>1, <2>2 DEF Parsed
<1>11. \A j \in a2 + 1..Len(V2) : V2[j] = Ping => j \in S2
  <2>1. \A j \in a + 1..Len(V) : V[j] = Ping => j \in S
    BY DEF Fits
  <2>2. \A j \in (a + 1) + 1..Len(V2) : V2[j] = Ping => j \in S2
    BY <1>4, <1>5, <1>6, <2>1, PingsOn
  <2>. QED
    BY <1>8, <2>2
<1>12. causes' = {} /\ ~in_data' => buf' = <<>>
  BY DEF Fits, Taken
<1>13. Queued(V2, a2, d)'
  <2>1. PICK b \in Seq(Units) : b = buf
    BY DEF TypeOK
  <2>2. Holds(b, V2, a + 1)
    <3>1. Holds(b, V, a) /\ p = a + Len(b) + 1
      BY <1>1, <1>2, <2>1 DEF Queued
    <3>. QED
      BY <1>5, <3>1, HoldsOn
  <2>3. Holds(buf, V2, a2)'
    BY <1>8, <2>1, <2>2 DEF Holds
  <2>4. a2 + Len(buf) <= d
    BY <1>1, <1>3, <1>8
  <2>5. Waits(V2, d)
    BY <1>1, <1>2, <1>5, WaitsOn DEF Queued
  <2>6. Waits(V2, d)'
    BY <2>5 DEF Waits, Holds
  <2>. QED
    BY <2>3, <2>4, <2>6 DEF Queued
<1>14. Chunks(V2, c2, d)'
  <2>1. Len(Flow) \in Nat
    BY FlowTyped
  <2>2. Agree(V, V2, c, k)
    BY <1>1, <1>2, <1>3, <1>5, PingAgrees
  <2>. QED
    BY <1>2, <2>1, <2>2, Shifts
<1>15. Starts(c2, d, a2 + Len(buf))'
  <2>1. a2 + Len(buf') = e2
    BY <1>3, <1>8
  <2>. QED
    BY <2>1 DEF Starts, SizeAt
<1>16. Fits(V2, S2, a2, d, c2)'
  BY <1>9, <1>10, <1>11, <1>12, <1>13, <1>14, <1>15 DEF Fits
<1>. QED
  BY <1>5, <1>7, <1>8, <1>16

\* A chunk of one unit '0' that is skipped is a ping.
LEMMA SkipsPingGoes ==
  ASSUME IInv, TypeOK', Streams, SkipsPing
  PROVE  Streams'
<1>1. /\ UNCHANGED <<cur, asked, feed, left, in_data, pid, request, content_len, buf>>
      /\ mode = "buf" /\ size = 1 /\ sbuf # <<>> /\ sbuf[1].k = "zero" /\ sbuf' = <<>>
      /\ mode' = "row" /\ eof' = eof /\ children' = children
      /\ causes' = causes \cup Blame("zero", sbuf[1] # Ping) \cup Blame("surplus", Surplus(sbuf, size))
  BY DEF SkipsPing, server, parser
<1>2. TypeOK /\ Steady /\ sbuf \in Seq(Units)
  BY DEF IInv, TypeOK, Streams
<1>3. Runs'
  <2>1. SUFFICES ASSUME Clean'
                 PROVE  (\E V \in Seq(Units), S \in SUBSET Nat, a, d \in Nat, c \in [Nat -> Nat] :
                           Fits(V, S, a, d, c))'
    BY DEF Runs
  <2>2. PICK V \in Seq(Units), S \in SUBSET Nat, a \in Nat, d \in Nat, c \in [Nat -> Nat] :
          Fits(V, S, a, d, c)
    <3>1. mode \in Modes /\ causes \subseteq causes'
      BY <1>1 DEF Modes
    <3>. QED
      BY <2>1, <3>1, Given DEF Streams
  <2>3. sbuf[1] = Ping /\ ~Surplus(sbuf, size) /\ causes' = causes
    BY <1>1, <2>1 DEF Clean, Blame
  <2>4. wire' = wire
    BY <2>1, NotThrown DEF SkipsPing
  <2>5. PICK e : e = a + Len(buf)
    OBVIOUS
  <2>6. PICK e2 : e2 = e + size
    OBVIOUS
  <2>7. Starts(c, d, e) /\ Chunks(V, c, d)
    BY <1>1, <2>2, <2>5 DEF Fits
  <2>8. Len(sbuf) >= size
    BY <1>1, <1>2
  <2>9. PICK k \in Nat, c2 \in [Nat -> Nat] : k > 0 /\ Taken(k, c, c2) /\ Starts(c2, d, e2)'
    BY <1>1, <1>2, <2>2, <2>3, <2>4, <2>6, <2>7, <2>8, ChunkLeaves
  <2>10. Len(Flow') \in Nat
    BY DEF Flow, TypeOK
  <2>11. e2 = a + Len(buf) + 1
    BY <1>1, <2>5, <2>6
  <2>. QED
    BY <1>1, <1>2, <2>2, <2>3, <2>4, <2>9, <2>10, <2>11, PingPasses
<1>4. Steady'
  BY <1>1 DEF Streams, Steady, Composed
<1>5. Remembers
  BY <1>1 DEF Remembers
<1>6. mode' \notin Exits
  BY <1>1 DEF Exits
<1>. QED
  BY <1>1, <1>3, <1>4, <1>5, <1>6, Goes

-----------------------------------------------------------------------------
(* A chunk that is parsed.                                                   *)

\* As long as nothing has gone wrong a chunk that reaches an idle parser has a
\* row: it is no ping, and pings are chunks of their own.
LEMMA ChunkHasRow ==
  ASSUME NEW V \in Seq(Units), NEW S \in SUBSET Nat, Serial(V, S), NEW a \in Nat, a + 1 \in S,
         NEW b \in Seq(Units), b # <<>>, Holds(b, V, a), a + Len(b) <= Len(V),
         ~(Len(b) = 1 /\ b[1].k = "zero"), \A j \in 2..Len(b) : b[j] # Ping
  PROVE  HasRow(b)
<1>1. SUFFICES ASSUME ~HasRow(b) PROVE FALSE
  OBVIOUS
<1>2. \A i \in 1..Len(b) : b[i].k \notin Newline
  BY <1>1 DEF HasRow, RowEnds
<1>3. PICK n \in 1..Len(b) : n = Len(b)
  OBVIOUS
<1>4. RowFree(b, n)
  BY <1>2, <1>3 DEF RowFree
<1>5. \A i \in 1..n : a + i \in S /\ (i < n => b[i] = Ping)
  <2>1. Leads(S, a, b, n)
    BY <1>3, <1>4, Leading
  <2>. QED
    BY <2>1 DEF Leads
<1>6. a + n \in S /\ a + n <= Len(V) /\ b[n] = V[a + n] /\ b[n].k \notin Newline
  BY <1>2, <1>3, <1>5 DEF Holds
<1>7. b[n] = Ping
  <2>1. ASSUME NEW r \in Reqs, Said(V, a + n, r)
        PROVE  FALSE
    BY <1>6, <2>1 DEF Said, Unit, Newline
  <2>. QED
    BY <1>6, <2>1, PlaceSays
<1>8. n = 1
  <2>1. n # 1 => n \in 2..Len(b)
    BY <1>3
  <2>. QED
    BY <1>7, <2>1
<1>. QED
  BY <1>3, <1>7, <1>8 DEF Ping, Unit

\* ... and a header, since no chunk ends inside one.
LEMMA ChunkHasHeader ==
  ASSUME TypeOK, Steady, NEW V \in Seq(Units), NEW S \in SUBSET Nat, Serial(V, S),
         NEW a \in Nat, a + 1 \in S, NEW b \in Seq(Units), Holds(b, V, a), a + Len(b) <= Len(V),
         HasRow(b), b[Len(b)].k \notin {"pid", "line", "clen"}
  PROVE  HeaderEnd(b) # 0
<1>1. PICK q \in 1..Len(b), s \in S, r \in Reqs, h \in {2, 3} :
           /\ q = Min(RowEnds(b)) /\ s = a + q /\ asked[r] # <<>> /\ Composed(r, h)
           /\ Said(V, s, r) /\ s + Len(asked[r]) + 1 \in S /\ AtoI(Row(b)) = {r}
           /\ q + h > Len(b) => HeaderEnd(b) = 0
           /\ q + h <= Len(b) =>
                /\ HeaderEnd(b) = q + h
                /\ ContentLength(b) = Len(asked[r]) - h
                /\ \A i \in 1..h : b[q + i] = asked[r][i]
  <2>1. NextRequest(V, S, a, b)
    BY HeaderAt
  <2>. QED
    BY <2>1 DEF NextRequest
<1>2. PICK n \in Nat : n = Len(b) /\ q \in 1..n
  OBVIOUS
<1>3. b[n] = V[a + n]
  <2>1. n \in 1..Len(b)
    BY <1>2
  <2>. QED
    BY <2>1 DEF Holds
<1>4. q + h <= n
  <2>1. SUFFICES ASSUME q + h > n PROVE FALSE
    BY <1>2
  <2>2. CASE n = q
    BY <1>1, <1>2, <1>3, <2>2 DEF Said, Unit
  <2>3. CASE n # q
    <3>1. PICK i \in 1..h - 1 : n = q + i
      <4>1. n - q \in 1..h - 1 /\ n = q + (n - q)
        BY <1>2, <2>1, <2>3
      <4>. QED
        BY <4>1
    <3>2. /\ Len(asked[r]) \in Nat /\ h <= Len(asked[r])
          /\ \A m \in 1..h - 1 : asked[r][m].k \in {"line", "clen"}
      <4>1. Composed(r, h)
        BY <1>1
      <4>2. AskedWell(r, h)
        BY <4>1, ComposedWell
      <4>. QED
        BY <4>2 DEF AskedWell
    <3>3. i \in 1..Len(asked[r]) /\ s + i = a + n
      <4>1. s = a + q /\ q \in Nat /\ h \in Nat
        BY <1>1
      <4>2. PICK l \in Nat : l = Len(asked[r]) /\ h <= l
        BY <3>2
      <4>3. i \in 1..l /\ s + i = a + n
        BY <3>1, <4>1, <4>2
      <4>. QED
        BY <4>2, <4>3
    <3>4. V[s + i] = asked[r][i]
      BY <1>1, <3>3 DEF Said
    <3>. QED
      BY <1>2, <1>3, <3>2, <3>3, <3>4
  <2>. QED
    BY <2>2, <2>3
<1>5. HeaderEnd(b) = q + h
  BY <1>1, <1>2, <1>4
<1>. QED
  BY <1>2, <1>5

\* So it is parsed.
LEMMA ChunkIsParsed ==
  ASSUME TypeOK, Steady, NEW V \in Seq(Units), NEW S \in SUBSET Nat, NEW a \in Nat, NEW d \in Nat,
         NEW c \in [Nat -> Nat], Fits(V, S, a, d, c), causes = {}, ~in_data,
         mode = "buf", Len(sbuf) >= size, ~(size = 1 /\ sbuf[1].k = "zero"),
         NEW b, b = buf \o Block(sbuf, size)
  PROVE  RowEnds(b) # {} /\ HeaderEnd(b) # 0
<1>1. Serial(V, S) /\ Parsed(V, S, a) /\ Queued(V, a, d) /\ Chunks(V, c, d) /\ buf = <<>>
  BY DEF Fits
<1>2. a + 1 \in S
  BY <1>1 DEF Parsed
<1>3. Len(V) \in Nat /\ d <= Len(V)
  BY <1>1, Lengths
<1>4. Starts(c, d, a)
  <2>1. Starts(c, d, a + Len(buf))
    BY DEF Fits
  <2>2. a + Len(buf) = a
    BY <1>1
  <2>. QED
    BY <2>1, <2>2
<1>5. PICK D : D = Block(sbuf, size)
  OBVIOUS
<1>6. /\ size \in Nat /\ size > 0 /\ size <= Len(sbuf) /\ a \in Nat /\ a + size <= d
      /\ D \in Seq(Units) /\ Len(D) = size
      /\ \A j \in 1..size : D[j] = V[a + j] /\ D[j] = sbuf[j]
      /\ causes = {} => D[size].k \notin {"pid", "line", "clen"} /\ \A j \in 2..size : D[j] # Ping
  <2>1. Carries(D, V, d, a)
    BY <1>1, <1>4, <1>5, BlockOf
  <2>. QED
    BY <2>1 DEF Carries
<1>7. b = D
  BY <1>1, <1>5, <1>6, ConcatEmptySeq
<1>8. PICK n \in Nat : n = size /\ n > 0 /\ Len(D) = n /\ a + n <= d
  BY <1>6
<1>9. /\ b \in Seq(Units) /\ b # <<>> /\ Holds(b, V, a) /\ a + Len(b) <= Len(V)
      /\ ~(Len(b) = 1 /\ b[1].k = "zero")
      /\ \A j \in 2..Len(b) : b[j] # Ping
      /\ b[Len(b)].k \notin {"pid", "line", "clen"}
  <2>1. a + n <= Len(V)
    BY <1>3, <1>8
  <2>2. Holds(b, V, a)
    BY <1>6, <1>7, <1>8 DEF Holds
  <2>3. ~(Len(b) = 1 /\ b[1].k = "zero")
    <3>1. n = 1 => b[1] = sbuf[1]
      BY <1>6, <1>7, <1>8
    <3>. QED
      BY <1>7, <1>8, <3>1
  <2>4. \A j \in 2..Len(b) : b[j] # Ping
    BY <1>6, <1>7, <1>8
  <2>5. b[Len(b)].k \notin {"pid", "line", "clen"}
    BY <1>6, <1>7, <1>8
  <2>6. b \in Seq(Units) /\ b # <<>>
    BY <1>6, <1>7, <1>8
  <2>. QED
    BY <1>7, <1>8, <2>1, <2>2, <2>3, <2>4, <2>5, <2>6
<1>10. HasRow(b)
  BY <1>1, <1>2, <1>9, ChunkHasRow
<1>11. HeaderEnd(b) # 0
  BY <1>1, <1>2, <1>9, <1>10, ChunkHasHeader
<1>. QED
  BY <1>10, <1>11 DEF HasRow

\* What was buffered and the chunk behind it.
LEMMA HoldsJoined ==
  ASSUME NEW V, NEW a \in Nat, NEW s \in Seq(Units), NEW D \in Seq(Units), Holds(s, V, a),
         NEW e, e = a + Len(s), Holds(D, V, e), NEW b, Joined(b, s, D)
  PROVE  b \in Seq(Units) /\ Len(b) \in Nat /\ Holds(b, V, a) /\ a + Len(b) = e + Len(D)
<1>1. PICK m, n \in Nat : m = Len(s) /\ n = Len(D)
  OBVIOUS
<1>2. /\ b \in Seq(Units) /\ Len(b) = m + n
      /\ \A i \in 1..m : b[i] = s[i]
      /\ \A i \in 1..n : b[m + i] = D[i]
  <2>1. /\ s \o D \in Seq(Units) /\ Len(s \o D) = Len(s) + Len(D)
        /\ \A i \in 1..Len(s) : (s \o D)[i] = s[i]
        /\ \A i \in 1..Len(D) : (s \o D)[Len(s) + i] = D[i]
    BY Joins
  <2>. QED
    BY <1>1, <2>1 DEF Joined
<1>3. ASSUME NEW i \in 1..m + n
      PROVE  b[i] = V[a + i]
  <2>1. CASE i \in 1..m
    BY <1>1, <1>2, <2>1 DEF Holds
  <2>2. CASE i \notin 1..m
    <3>1. PICK j \in 1..n : i = m + j /\ e + j = a + i
      <4>1. i - m \in 1..n /\ i = m + (i - m) /\ e + (i - m) = a + i
        BY <1>1, <2>2
      <4>. QED
        BY <4>1
    <3>2. D[j] = V[e + j]
      BY <1>1, <3>1 DEF Holds
    <3>. QED
      BY <1>2, <3>1, <3>2
  <2>. QED
    BY <2>1, <2>2
<1>4. Holds(b, V, a)
  BY <1>2, <1>3 DEF Holds
<1>. QED
  BY <1>1, <1>2, <1>4

\* The stream behind a chunk that was parsed.
LEMMA ParsedFits ==
  ASSUME TypeOK, TypeOK', UNCHANGED <<asked, feed, left>>,
         NEW V \in Seq(Units), NEW S \in SUBSET Nat, NEW a \in Nat, NEW d \in Nat,
         NEW c \in [Nat -> Nat], Fits(V, S, a, d, c), mode # "down", mode' = "row",
         NEW a2 \in Nat, a <= a2, Parsed(V, S, a2)', Holds(buf, V, a2)',
         NEW e2, e2 = a2 + Len(buf'), e2 <= d,
         causes' = {} /\ ~in_data' => buf' = <<>>,
         NEW k \in Nat, NEW c2 \in [Nat -> Nat], Taken(k, c, c2), Len(Flow') \in Nat,
         Starts(c2, d, e2)'
  PROVE  Fits(V, S, a2, d, c2)'
<1>1. Serial(V, S) /\ Queued(V, a, d) /\ Chunks(V, c, d)
  BY DEF Fits
<1>2. Serial(V, S)'
  BY <1>1 DEF Serial, Said
<1>3. \A j \in a2 + 1..Len(V) : V[j] = Ping => j \in S
  <2>1. \A j \in a + 1..Len(V) : V[j] = Ping => j \in S
    BY DEF Fits
  <2>2. \A j \in a2 + 1..Len(V) : j \in a + 1..Len(V)
    BY LenProperties
  <2>. QED
    BY <2>1, <2>2
<1>4. Queued(V, a2, d)'
  BY <1>1 DEF Queued, Waits, Holds
<1>5. Chunks(V, c2, d)'
  <2>1. Len(Flow) \in Nat
    BY FlowTyped
  <2>2. Agree(V, V, c, k)
    BY DEF Agree
  <2>. QED
    BY <1>1, <2>1, <2>2, Shifts
<1>6. Starts(c2, d, a2 + Len(buf))'
  BY DEF Starts, SizeAt
<1>. QED
  BY <1>2, <1>3, <1>4, <1>5, <1>6 DEF Fits

\* What a chunk that is clean does: it hands a child its own request or hands
\* out nothing, and the stream goes on behind it.
LEMMA ChunkHands ==
  ASSUME IInv, TypeOK', Streams, TakesChunk, Clean'
  PROVE  /\ Hands /\ (causes' = {} => mode' = "row")
         /\ ParsesOwn(buf \o Block(sbuf, size), "row")
         /\ mode' = "row" =>
              (\E V \in Seq(Units), S \in SUBSET Nat, a, d \in Nat, c \in [Nat -> Nat] :
                 Fits(V, S, a, d, c))'
<1>1. /\ UNCHANGED <<cur, asked, feed, left>> /\ wire' = wire /\ eof' = eof /\ sbuf' = <<>>
      /\ mode = "buf" /\ Len(sbuf) >= size /\ ~(size = 1 /\ sbuf[1].k = "zero")
      /\ Chunk(Block(sbuf, size), "row") /\ causes \subseteq causes'
      /\ Surplus(sbuf, size) => "surplus" \in causes'
      /\ request' = <<>> /\ buf' # <<>> => "behind" \in causes'
  <2>1. wire' = wire
    BY NotThrown DEF TakesChunk
  <2>. QED
    BY <2>1 DEF TakesChunk, server, Blame
<1>2. TypeOK /\ Steady
  BY DEF IInv, Streams
<1>3. PICK V \in Seq(Units), S \in SUBSET Nat, a \in Nat, d \in Nat, c \in [Nat -> Nat] :
        Fits(V, S, a, d, c)
  <2>1. mode \in Modes
    BY <1>1 DEF Modes
  <2>. QED
    BY <1>1, <2>1, Given DEF Streams
<1>4. Serial(V, S) /\ Parsed(V, S, a) /\ Queued(V, a, d) /\ Chunks(V, c, d) /\ Holds(buf, V, a)
  BY <1>1, <1>3 DEF Fits, Queued
<1>5. PICK e, D, b : e = a + Len(buf) /\ D = Block(sbuf, size) /\ b = buf \o D
  OBVIOUS
<1>6. Starts(c, d, e)
  BY <1>1, <1>3, <1>5 DEF Fits
<1>7. Carries(D, V, d, e)
  BY <1>1, <1>2, <1>4, <1>5, <1>6, BlockOf
<1>8. D \in Seq(Units) /\ Len(D) = size /\ Holds(D, V, e) /\ e + size <= d /\ e \in Nat /\ size \in Nat
  BY <1>7 DEF Carries, Holds
<1>9. b \in Seq(Units) /\ Len(b) \in Nat /\ Holds(b, V, a) /\ a + Len(b) = e + Len(D)
  <2>1. PICK s \in Seq(Units) : s = buf
    BY <1>2 DEF TypeOK
  <2>2. Holds(s, V, a) /\ e = a + Len(s) /\ Joined(b, s, D) /\ Holds(D, V, e) /\ D \in Seq(Units)
    BY <1>4, <1>5, <1>8, <2>1 DEF Joined
  <2>. QED
    BY <1>3, <2>1, <2>2, HoldsJoined
<1>10. a + Len(b) <= Len(V)
  <2>1. Len(V) \in Nat /\ d <= Len(V)
    BY <1>2, <1>4, Lengths
  <2>2. a + Len(b) <= d
    BY <1>8, <1>9
  <2>. QED
    BY <1>9, <2>1, <2>2
<1>11. Chunk(D, "row")
  BY <1>1, <1>5
<1>12. ParsesOwn(b, "row")
  BY <1>2, <1>3, <1>4, <1>5, <1>8, <1>9, <1>10, <1>11, ChunkIsExact
<1>13. \/ /\ mode' \in {"noPid", "noHeader"} /\ UNCHANGED children
          /\ ~in_data /\ (RowEnds(b) = {} \/ HeaderEnd(b) = 0)
       \/ mode' = "row" /\ Parses(V, S, a + Len(b))
  BY <1>1, <1>2, <1>3, <1>4, <1>5, <1>8, <1>9, <1>10, <1>12, ChunkParses
<1>14. CASE /\ mode' \in {"noPid", "noHeader"} /\ UNCHANGED children
            /\ ~in_data /\ (RowEnds(b) = {} \/ HeaderEnd(b) = 0)
  <2>1. ASSUME causes = {}
        PROVE  FALSE
    BY <1>1, <1>2, <1>3, <1>5, <1>14, <2>1, ChunkIsParsed
  <2>. QED
    BY <1>1, <1>5, <1>12, <1>14, <2>1 DEF Hands
<1>15. CASE mode' = "row" /\ Parses(V, S, a + Len(b))
  <2>1. Hands
    BY <1>15 DEF Parses
  <2>2. PICK a2 \in Nat : Parsed(V, S, a2)' /\ Holds(buf, V, a2)' /\ a2 + Len(buf') = a + Len(b)
    BY <1>15 DEF Parses
  <2>3. a <= a2
    <3>1. Len(buf') <= Len(b)
      <4>1. mode' \notin {"noPid", "noHeader"} /\ "row" \in Modes \cup Exits
        BY <1>15 DEF Modes
      <4>. QED
        BY <1>2, <1>5, <1>8, <1>11, <4>1, ChunkTyped
    <3>2. Len(buf') \in Nat
      BY DEF TypeOK
    <3>. QED
      BY <1>9, <2>2, <3>1, <3>2
  <2>4. causes' = {} /\ ~in_data' => buf' = <<>>
    <3>1. ~in_data' => request' = <<>>
      BY <2>2 DEF Parsed
    <3>. QED
      BY <1>1, <3>1
  <2>5. PICK e2 : e2 = e + size
    OBVIOUS
  <2>6. e2 = a2 + Len(buf') /\ e2 <= d
    BY <1>8, <1>9, <2>2, <2>5
  <2>7. PICK k \in Nat, c2 \in [Nat -> Nat] : k > 0 /\ Taken(k, c, c2) /\ Starts(c2, d, e2)'
    <3>1. ~Surplus(sbuf, size)
      BY <1>1 DEF Clean
    <3>2. mode' = "row" /\ (causes' = {} => causes = {})
      BY <1>1, <1>15
    <3>. QED
      BY <1>1, <1>2, <1>4, <1>6, <2>5, <3>1, <3>2, ChunkLeaves
  <2>8. Len(Flow') \in Nat
    BY <1>1 DEF Flow, TypeOK
  <2>9. Fits(V, S, a2, d, c2)'
    <3>1. mode # "down" /\ mode' = "row"
      BY <1>1, <1>15
    <3>. QED
      BY <1>1, <1>2, <1>3, <2>2, <2>3, <2>4, <2>6, <2>7, <2>8, <3>1, ParsedFits
  <2>. QED
    BY <1>3, <1>5, <1>12, <1>15, <2>1, <2>2, <2>7, <2>9
<1>. QED
  BY <1>5, <1>13, <1>14, <1>15, <1>12

\* So a chunk keeps the stream, and what the children were given.
LEMMA TakesChunkGoes ==
  ASSUME IInv, TypeOK', Streams, TakesChunk
  PROVE  Streams'
<1>1. UNCHANGED <<cur, asked, feed, left>> /\ causes \subseteq causes'
  BY DEF TakesChunk, server
<1>2. Steady'
  BY <1>1 DEF Streams, Steady, Composed
<1>3. mode' \in Modes => mode' = "row"
  BY DEF TakesChunk, Chunk, Modes
<1>4. Runs'
  <2>1. SUFFICES ASSUME Clean', mode' \in Modes
                 PROVE  (\E V \in Seq(Units), S \in SUBSET Nat, a, d \in Nat, c \in [Nat -> Nat] :
                           Fits(V, S, a, d, c))'
    BY DEF Runs
  <2>. QED
    BY <1>3, <2>1, ChunkHands
<1>5. OwnRequest'
  <2>1. SUFFICES ASSUME Clean'
                 PROVE  \A j \in DOMAIN children' :
                          /\ children'[j].pid \in Reqs
                          /\ children'[j].req = asked'[children'[j].pid]
    BY DEF OwnRequest, Clean
  <2>2. \A j \in DOMAIN children :
          children[j].pid \in Reqs /\ children[j].req = asked[children[j].pid]
    BY <1>1, <2>1 DEF Clean, Streams, OwnRequest
  <2>3. CASE children' = children
    BY <1>1, <2>2, <2>3
  <2>4. ASSUME NEW r \in Reqs, children' = Append(children, [pid |-> r, req |-> asked[r]])
        PROVE  \A j \in DOMAIN children' :
                 /\ children'[j].pid \in Reqs
                 /\ children'[j].req = asked'[children'[j].pid]
    <3>1. PICK n \in Nat : n = Len(children) /\ DOMAIN children = 1..n
      BY DEF IInv, TypeOK
    <3>2. /\ DOMAIN children' = 1..n + 1
          /\ \A j \in 1..n : children'[j] = children[j]
          /\ children'[n + 1] = [pid |-> r, req |-> asked[r]]
      BY <2>4, <3>1 DEF IInv, TypeOK
    <3>3. \A j \in 1..n + 1 : j \in 1..n \/ j = n + 1
      OBVIOUS
    <3>. QED
      BY <1>1, <2>2, <3>1, <3>2, <3>3
  <2>. QED
    BY <2>1, <2>3, <2>4, ChunkHands DEF Hands
<1>6. StaysUp'
  <2>1. SUFFICES ASSUME causes' = {}
                 PROVE  mode' \notin Exits
    BY DEF StaysUp
  <2>2. mode' = "row"
    BY <2>1, ChunkHands DEF Clean
  <2>. QED
    BY <2>2 DEF Exits
<1>. QED
  BY <1>2, <1>4, <1>5, <1>6 DEF Streams

-----------------------------------------------------------------------------
(* Every step keeps the stream.                                              *)

\* At the beginning the stream is empty.
LEMMA InitStreams == Init => Streams
<1>. SUFFICES ASSUME Init PROVE Streams
  OBVIOUS
<1>1. Steady /\ OwnRequest /\ StaysUp
  BY DEF Init, Steady, OwnRequest, StaysUp, Exits
<1>2. PICK V, S, c : V = <<>> /\ S = {1} /\ c = [i \in Nat |-> 0]
  OBVIOUS
<1>3. V \in Seq(Units) /\ Len(V) = 0 /\ S \in SUBSET Nat /\ c \in [Nat -> Nat]
  BY <1>2
<1>4. Serial(V, S)
  BY <1>2, <1>3 DEF Serial
<1>5. Parsed(V, S, 0)
  BY <1>2 DEF Init, Parsed
<1>6. Queued(V, 0, 0)
  BY <1>3 DEF Init, Queued, Waits, Holds
<1>7. Fits(V, S, 0, 0, c)
  <2>1. \A j \in 0 + 1..Len(V) : FALSE
    BY <1>3
  <2>2. mode = "down" /\ buf = <<>> /\ ~in_data
    BY DEF Init
  <2>. QED
    BY <1>4, <1>5, <1>6, <2>1, <2>2 DEF Fits
<1>8. Runs
  <2>1. 0 \in Nat
    OBVIOUS
  <2>. QED
    BY <1>3, <1>7, <2>1, Zenon DEF Runs
<1>. QED
  BY <1>1, <1>8 DEF Streams

\* The stream is kept by every step.
LEMMA StreamsGo ==
  ASSUME IInv, TypeOK', Streams, [Next]_vars
  PROVE  Streams'
<1>1. CASE \E r \in Reqs, b \in Bodies : PierStarts(r, b)
  BY <1>1, PierStartsGoes
<1>2. CASE PierWrites
  BY <1>2, PierWritesGoes
<1>3. CASE PierEnds
  BY <1>3, PierEndsGoes
<1>4. CASE PierDies
  BY <1>4, PierDiesGoes
<1>5. CASE PingWrites
  BY <1>5, PingWritesGoes
<1>6. CASE FramesChunk
  BY <1>6, FramesChunkGoes
<1>7. CASE ConnectionEnds
  BY <1>7, ConnectionEndsGoes
<1>8. CASE Connects
  BY <1>8, ConnectsGoes
<1>9. CASE ReadsForRow
  BY <1>9, ReadsForRowGoes
<1>10. CASE NoMoreRows
  BY <1>10, NoMoreRowsGoes
<1>11. CASE SkipsBlankRow
  BY <1>11, SkipsBlankRowGoes
<1>12. CASE TakesSize
  BY <1>12, TakesSizeGoes
<1>13. CASE ReadsForChunk
  BY <1>13, ReadsForChunkGoes
<1>14. CASE SkipsPing
  BY <1>14, SkipsPingGoes
<1>15. CASE TakesChunk
  BY <1>15, TakesChunkGoes
<1>16. CASE UsesFreedRow
  BY <1>16, UsesFreedRowGoes
<1>17. CASE UNCHANGED vars
  BY <1>17, StutterGoes
<1>. QED
  BY <1>1, <1>2, <1>3, <1>4, <1>5, <1>6, <1>7, <1>8, <1>9, <1>10, <1>11, <1>12, <1>13, <1>14,
     <1>15, <1>16, <1>17 DEF Next, Daemon

\* A chunk takes the pids in it from soc->buf into the request buffer, to the
\* parser or to a child.
LEMMA TakesChunkRoutes ==
  ASSUME IInv, TypeOK', Streams, Routed, TakesChunk, Clean'
  PROVE  Routed'
<1>1. sbuf \in Seq(Units) /\ Once(sbuf) /\ size \in 0..Len(sbuf)
  BY DEF TakesChunk, IInv, TypeOK, Routed, OnePlace
<1>2. PICK d : d = Block(sbuf, size)
  OBVIOUS
<1>3. d \in Seq(Units) /\ Once(d) /\ Pids(d) \subseteq Pids(sbuf)
  BY <1>1, <1>2, CutPids DEF Block
<1>4. ParsesOwn(buf \o d, "row")
  BY <1>2, ChunkHands
<1>5. /\ TypeOK /\ Single /\ Pending \cap Answered = {} /\ Once(buf)
      /\ Pids(buf) \cap Pids(d) = {}
      /\ (Pids(buf) \cup Pids(d)) \cap (Pending \cup Answered) = {}
  BY <1>3 DEF IInv, Routed, OnePlace
<1>6. Passes(Pids(buf) \cup Pids(d) \cup Pending \cup Answered)
  BY <1>3, <1>4, <1>5, ChunkPasses
<1>7. wire' = wire /\ sbuf' = <<>> /\ UNCHANGED <<asked, left, feed>>
  BY NotThrown DEF TakesChunk, server
<1>8. /\ Pids(feed)' = Pids(feed) /\ Once(feed)' = Once(feed)
      /\ Pids(wire)' = Pids(wire) /\ Once(wire)' = Once(wire)
      /\ Pids(left)' = Pids(left) /\ Asked' = Asked
  BY <1>7 DEF Pids, Once, PidRows, Asked
<1>9. Pids(sbuf)' = {} /\ Once(sbuf)'
  BY <1>7 DEF Pids, Once, PidRows
<1>10. OnePlace'
  BY <1>3, <1>6, <1>8, <1>9 DEF Routed, OnePlace, Passes
<1>11. FromPiers'
  BY <1>3, <1>6, <1>8, <1>9 DEF Routed, FromPiers, Passes
<1>. QED
  BY <1>6, <1>10, <1>11 DEF Routed, Passes

\* Every step keeps every pid in one place as long as the stream is clean.
LEMMA RoutedGoes ==
  ASSUME IInv, TypeOK', Streams, [Next]_vars, Clean'
  PROVE  Routed'
<1>1. causes \subseteq causes'
  BY DEF Next, Daemon, PierStarts, PierWrites, PierEnds, PierDies, PingWrites, FramesChunk,
         ConnectionEnds, Connects, ReadsForRow, NoMoreRows, SkipsBlankRow, TakesSize,
         ReadsForChunk, SkipsPing, TakesChunk, UsesFreedRow, vars
<1>2. TypeOK /\ Routed
  BY <1>1 DEF IInv, Clean
<1>3. CASE \E r \in Reqs, b \in Bodies : PierStarts(r, b)
  BY <1>2, <1>3, PierStartsStep
<1>4. CASE PierWrites
  BY <1>2, <1>4, PierWritesStep
<1>5. CASE PierEnds
  BY <1>2, <1>5, PierEndsStep
<1>6. CASE PierDies
  BY <1>2, <1>6, PierDiesStep
<1>7. CASE PingWrites
  BY <1>2, <1>7, PingWritesStep
<1>8. CASE FramesChunk
  BY <1>2, <1>8, FramesChunkStep
<1>9. CASE ConnectionEnds
  BY <1>2, <1>9, ConnectionEndsStep
<1>10. CASE Connects
  BY <1>2, <1>10, ConnectsStep
<1>11. CASE ReadsForRow
  BY <1>2, <1>11, ReadsForRowStep
<1>12. CASE NoMoreRows
  BY <1>2, <1>12, NoMoreRowsStep
<1>13. CASE SkipsBlankRow
  BY <1>2, <1>13, SkipsBlankRowStep
<1>14. CASE TakesSize
  BY <1>2, <1>14, TakesSizeStep
<1>15. CASE ReadsForChunk
  BY <1>2, <1>15, ReadsForChunkStep
<1>16. CASE SkipsPing
  BY <1>2, <1>16, SkipsPingStep
<1>17. CASE TakesChunk
  BY <1>2, <1>17, TakesChunkRoutes
<1>18. CASE UsesFreedRow
  BY <1>18 DEF UsesFreedRow, Clean
<1>19. CASE UNCHANGED vars
  <2>1. UNCHANGED <<asked, parser, children, feed, wire, sbuf, buf>> /\ left' \in {left, <<>>}
    BY <1>19 DEF vars, parser
  <2>. QED
    BY <1>2, <2>1, StandsStill
<1>. QED
  BY <1>3, <1>4, <1>5, <1>6, <1>7, <1>8, <1>9, <1>10, <1>11, <1>12, <1>13, <1>14, <1>15, <1>16,
     <1>17, <1>18, <1>19 DEF Next, Daemon

\* As long as nothing was torn, lost, thrown away or taken for a ping, there is
\* a stream of whole requests that the parser, the frames, Connect and the Pier
\* hold one part each of; the children had what was in front of it, and every
\* pid is in one place of it.
THEOREM StreamInductive == Spec => []SInv
<1>1. Init => SInv
  BY InitTyped, InitRouted, InitStreams DEF SInv, IInv
<1>2. SInv /\ [Next]_vars => SInv'
  <2>. SUFFICES ASSUME SInv, [Next]_vars
                PROVE  SInv'
    OBVIOUS
  <2>1. IInv /\ TypeOK /\ Streams
    BY DEF SInv, IInv
  <2>2. TypeOK'
    BY <2>1, TypesGo
  <2>3. Streams'
    BY <2>1, <2>2, StreamsGo
  <2>4. Clean' => Routed'
    BY <2>1, <2>2, RoutedGoes
  <2>. QED
    BY <2>2, <2>3, <2>4 DEF SInv, IInv
<1>. QED
  BY <1>1, <1>2, PTL DEF Spec

\* Unless a Pier was killed, a chunk misread, a body of '0' taken for a ping or
\* bytes lost with a connection, every child gets the request that it answers
\* to, whole, for any requests, bodies and pings and any size of chunks and reads.
THEOREM OwnRequestAlways == Spec => []OwnRequest
<1>1. SInv => OwnRequest
  BY DEF SInv, Streams
<1>. QED
  BY <1>1, StreamInductive, PTL

\* Under the same conditions no Pier is answered by two children: no pid is met
\* twice by the parser, which keeps the last one between two requests.
THEOREM OneChildAlways == Spec => []OneChild
<1>1. SInv => OneChild
  BY DEF SInv, IInv, Routed, Single, OneChild
<1>. QED
  BY <1>1, StreamInductive, PTL

\* No ASSERT and no freed row ends the daemon as long as none of the causes
\* befell it: a chunk that reaches the parser between two requests brings a pid
\* and a whole header.
THEOREM StaysUpAlways == Spec => []StaysUp
<1>1. SInv => StaysUp
  BY DEF SInv, Streams
<1>. QED
  BY <1>1, StreamInductive, PTL
=============================================================================
