--------------------------- MODULE LocalHostProofs ---------------------------
(* Proofs about LocalHost, for all answers a local server may give, however  *)
(* long, and however they are cut into reads.                                *)
EXTENDS LocalHost, SocketBufProofs

-----------------------------------------------------------------------------
(* The inductive invariant.                                                  *)

\* No content before the header is read.
Fresh == pc \in {"start", "header"} => content = <<>>

\* What the server sends, and what of it the child has still to look at.
Stream == answer.header \o answer.rest
Left   == sbuf \o wire

\* The child has looked at k units of the stream; what it has still to look at
\* follows them, up to the end of the stream unless it was cut.
Behind(k) ==
  /\ k + Len(Left) <= Len(Stream)
  /\ \A i \in 1..Len(Left) : Left[i] = Stream[k + i]
  /\ "cut" \notin causes => k + Len(Left) = Len(Stream)

\* The header, chunked and content_len are what its first rows say.
Noted ==
  /\ Len(header) < Len(answer.header)
  /\ \A i \in 1..Len(header) : header[i] = HeaderRow(answer.header[i])
  /\ chunked <=> \E i \in 1..Len(header) : answer.header[i].k = "te"
  /\ \A i \in 1..Len(header) : answer.header[i].k = "clen" => content_len = answer.header[i].n
  /\ (\A i \in 1..Len(header) : answer.header[i].k # "clen") => content_len = 0

AtStart ==
  pc = "start" =>
    /\ wire = <<>> /\ sbuf = <<>> /\ header = <<>>
    /\ ~chunked /\ content_len = 0 /\ respond = <<>> /\ causes = {}

InHeader == pc = "header" => Noted /\ Behind(Len(header))

InBody ==
  pc = "body" =>
    /\ Noted /\ ~chunked /\ Len(header) + 1 = Len(answer.header)
    /\ Behind(Len(answer.header))
    /\ size = content_len
    /\ "unread" \notin causes /\ size = 0 => answer.rest = <<>>

\* Behind k units of the chunks comes a size, or the end of a chunk before one.
AtSize(k) ==
  k < Len(answer.rest) =>
    \/ answer.rest[k + 1].k = "size"
    \/ /\ answer.rest[k + 1].k = "crlf"
       /\ k + 1 < Len(answer.rest) => answer.rest[k + 2].k = "size"

\* As long as no surplus was thrown away, the child is at a place of the chunks
\* that it takes for what it is, and has what they brought up to there.
InPlace(k) ==
  /\ Behind(Len(answer.header) + k)
  /\ Len(content) = Brought(answer.rest, k)
  /\ pc = "size" => AtSize(k)
  /\ pc = "chunk" =>
       /\ k > 0 /\ answer.rest[k].k = "size" /\ answer.rest[k].n = size /\ size > 0

InChunks ==
  pc \in {"size", "chunk"} =>
    /\ Len(header) + 1 = Len(answer.header)
    /\ \A i \in 1..Len(header) : header[i] = HeaderRow(answer.header[i])
    /\ \E i \in 1..Len(header) : answer.header[i].k = "te"
    /\ \A i \in 1..Len(Left) : Left[i].k # "clen"
    /\ \A i \in 1..Len(content) : content[i].k # "clen"
    /\ "surplus" \notin causes => \E k \in 0..Len(answer.rest) : InPlace(k)

Course ==
  /\ AtStart /\ InHeader /\ InBody /\ InChunks
  /\ ContentIsHead /\ LengthTrue /\ WholeAnswer

TypeInv == TypeOK /\ Fresh

IInv == TypeInv /\ Course

-----------------------------------------------------------------------------
(* Types.                                                                    *)

\* Joining sequences is associative.
LEMMA JoinsAssociate ==
  \A s, t, u \in Seq(Units) : (s \o t) \o u = s \o (t \o u)
BY ConcatAssociative

\* What a read leaves buffered and on its way is typed, and together unchanged.
LEMMA ReadKeeps ==
  ASSUME TypeOK, NEW most \in Nat, NEW read \in Increased(sbuf, wire, most)
  PROVE  /\ read[1] \in Seq(Units) /\ read[2] \in Seq(Units)
         /\ read[1] \o read[2] = sbuf \o wire
<1>1. sbuf \in Seq(Units) /\ wire \in Seq(Units) /\ Len(wire) \in Nat
  BY DEF TypeOK
<1>2. PICK n \in 1..Smaller(most, Len(wire)) : read = <<sbuf \o Prefix(wire, n), Suffix(wire, n)>>
  BY DEF Increased
<1>3. n \in 0..Len(wire)
  BY <1>1, <1>2 DEF Smaller
<1>4. Prefix(wire, n) \in Seq(Units) /\ Suffix(wire, n) \in Seq(Units)
  BY <1>1, <1>3, Cuts
<1>5. Prefix(wire, n) \o Suffix(wire, n) = wire
  BY <1>1, <1>3, CutJoins
<1>6. (sbuf \o Prefix(wire, n)) \o Suffix(wire, n) = sbuf \o (Prefix(wire, n) \o Suffix(wire, n))
  BY <1>1, <1>4, JoinsAssociate
<1>7. sbuf \o Prefix(wire, n) \in Seq(Units)
  BY <1>1, <1>4, ConcatProperties
<1>. QED
  BY <1>2, <1>4, <1>5, <1>6, <1>7

\* A buffer in which a row begins is not empty.
LEMMA RowMeansUnits ==
  ASSUME NEW s \in Seq(Units), HasRow(s)
  PROVE  s # <<>> /\ s[1] \in Units
BY DEF HasRow, RowEnds

\* The header of a chunked answer, with its length put in.
LEMMA ChunkedHeaderTyped ==
  ASSUME NEW h \in Seq(Units), NEW n \in Nat
  PROVE  ChunkedHeader(h, n) \in Seq(Units)
<1>. DEFINE g == [i \in DOMAIN h |-> IF h[i] = Length(0) THEN Length(n) ELSE h[i]]
<1>1. Length(n) \in Units /\ Blank \in Units
  BY DEF Length, Blank, Unit, Units, Kinds, Newline
<1>2. DOMAIN h = 1..Len(h) /\ Len(h) \in Nat /\ \A i \in 1..Len(h) : h[i] \in Units
  OBVIOUS
<1>3. g \in [1..Len(h) -> Units]
  BY <1>1, <1>2
<1>4. g \in Seq(Units)
  BY <1>2, <1>3
<1>. HIDE DEF g
<1>5. Append(g, Blank) \in Seq(Units)
  BY <1>1, <1>4
<1>. QED
  BY <1>5 DEF ChunkedHeader, g

\* A number that a row may be read as is one.
LEMMA SizeTyped ==
  ASSUME NEW b \in Seq(Units), HasRow(b), NEW n \in StrToL(Row(b), MaxMisread)
  PROVE  n \in Nat
<1>1. Row(b) \in Seq(Units) /\ Len(Row(b)) \in 1..Len(b)
  BY RowAtHead
<1>2. Row(b)[Len(Row(b))] \in Units
  BY <1>1
<1>3. Row(b)[Len(Row(b))].n \in Nat
  BY <1>2 DEF Units
<1>. QED
  BY <1>3, ConstantsAssumption DEF StrToL

\* The cause of something is a cause.
LEMMA BlameTyped ==
  ASSUME NEW c \in Causes, NEW happened
  PROVE  Blame(c, happened) \subseteq Causes
BY DEF Blame

\* Every step keeps the types.
LEMMA TypeStep ==
  ASSUME TypeInv, [Next]_vars
  PROVE  TypeInv'
<1>. USE DEF TypeInv
<1>. DEFINE Same == UNCHANGED vars
<1>1. /\ answer \in Answers /\ wire \in Seq(Units) /\ sbuf \in Seq(Units) /\ header \in Seq(Units)
      /\ content \in Seq(Units) /\ respond \in Seq(Units) /\ size \in Nat /\ content_len \in Nat
      /\ chunked \in BOOLEAN /\ causes \subseteq Causes /\ eof \in BOOLEAN
  BY DEF TypeOK
<1>2. /\ answer.header \in Seq(Units) /\ answer.rest \in Seq(Units) /\ answer.body \in Seq(Units)
  BY <1>1, ConstantsAssumption
<1>3. Blank \in Units /\ Length(0) \in Units /\ Unit("junk", None, 0) \in Units
  BY DEF Length, Blank, Unit, Units, Kinds, Newline
<1>4. CASE UNCHANGED vars
  BY <1>4 DEF vars, TypeOK, Fresh
<1>5. CASE Skips
  BY <1>5 DEF Skips, TypeOK, Fresh, conn, coding, Causes
<1>6. CASE RequestFails
  BY <1>6 DEF RequestFails, TypeOK, Fresh, conn, coding, Causes, Ended
<1>7. CASE Asks
  <2>1. wire' \in Seq(Units)
    BY <1>2, <1>7, ConcatProperties DEF Asks
  <2>. QED
    BY <1>7, <2>1 DEF Asks, TypeOK, Fresh, coding, Reading
<1>8. CASE ReadsForRow
  <2>1. sbuf' \in Seq(Units) /\ wire' \in Seq(Units)
    <3>1. RowRead \in Nat
      BY ConstantsAssumption
    <3>. QED
      BY <1>8, <3>1, ReadKeeps DEF ReadsForRow
  <2>. QED
    BY <1>8, <2>1 DEF ReadsForRow, TypeOK, Fresh, coding
<1>9. CASE TakesHeaderRow
  <2>1. sbuf # <<>> /\ sbuf[1] \in Units
    BY <1>1, <1>9, RowMeansUnits DEF TakesHeaderRow
  <2>2. sbuf' \in Seq(Units)
    BY <1>1, <1>9, <2>1 DEF TakesHeaderRow
  <2>3. HeaderRow(sbuf[1]) \in Units
    BY <1>3, <2>1 DEF HeaderRow
  <2>4. header' \in Seq(Units)
    BY <1>1, <1>9, <2>3 DEF TakesHeaderRow
  <2>5. content_len' \in Nat
    BY <1>1, <1>9, <2>1 DEF TakesHeaderRow, Units
  <2>6. chunked' \in BOOLEAN
    BY <1>9 DEF TakesHeaderRow
  <2>. QED
    BY <1>9, <2>2, <2>4, <2>5, <2>6 DEF TakesHeaderRow, TypeOK, Fresh, conn
<1>10. CASE EndsHeader
  <2>1. sbuf # <<>>
    BY <1>1, <1>10, RowMeansUnits DEF EndsHeader, BlankFirst
  <2>2. sbuf' \in Seq(Units)
    BY <1>1, <1>10, <2>1 DEF EndsHeader
  <2>3. content = <<>>
    BY <1>10 DEF EndsHeader, Fresh
  <2>4. Blame("unread", content_len = 0 /\ answer.rest # <<>>) \subseteq Causes
    BY BlameTyped DEF Causes
  <2>5. CASE chunked
    BY <1>10, <2>2, <2>3, <2>5 DEF EndsHeader, TypeOK, Fresh, conn, Reading
  <2>6. CASE ~chunked
    BY <1>10, <2>2, <2>3, <2>4, <2>6 DEF EndsHeader, TypeOK, Fresh, conn, Reading
  <2>. QED
    BY <2>5, <2>6
<1>11. CASE HeaderCut
  <2>1. ChunkedHeader(header, 0) \in Seq(Units)
    BY <1>1, ChunkedHeaderTyped
  <2>2. Append(header, Blank) \in Seq(Units)
    BY <1>1, <1>3
  <2>3. respond' \in Seq(Units) /\ pc' \in {"put", "gone"}
    BY <1>11, <2>1, <2>2 DEF HeaderCut
  <2>. QED
    BY <1>11, <2>3 DEF HeaderCut, TypeOK, Fresh, conn, coding, Ended
<1>12. CASE ReadsForSize
  <2>1. sbuf' \in Seq(Units) /\ wire' \in Seq(Units)
    <3>1. size - Len(sbuf) \in Nat
      BY <1>1, <1>12 DEF ReadsForSize
    <3>. QED
      BY <1>12, <3>1, ReadKeeps DEF ReadsForSize
  <2>. QED
    BY <1>12, <2>1 DEF ReadsForSize, TypeOK, Fresh, coding
<1>13. CASE TakesBody
  <2>1. size \in 0..Len(sbuf)
    BY <1>1, <1>13 DEF TakesBody
  <2>2. content' \in Seq(Units)
    BY <1>1, <1>13, <2>1, Cuts DEF TakesBody, Block
  <2>3. respond' \in Seq(Units) /\ sbuf' \in Seq(Units)
    BY <1>1, <1>3, <1>13, <2>2 DEF TakesBody
  <2>. QED
    BY <1>13, <2>2, <2>3 DEF TakesBody, TypeOK, Fresh, conn, coding
<1>14. CASE UsesFreedRow
  <2>1. Junk(size) \in Seq(Units)
    BY <1>1, <1>3 DEF Junk
  <2>2. Append(header, Blank) \in Seq(Units)
    BY <1>1, <1>3
  <2>3. Append(header, Blank) \o Junk(size) \in Seq(Units)
    BY <2>1, <2>2, ConcatProperties
  <2>4. content' \in Seq(Units) /\ respond' \in Seq(Units)
    BY <1>1, <1>14, <2>1, <2>3 DEF UsesFreedRow
  <2>5. pc' \in {"put", "gone"} /\ causes' \subseteq Causes
    BY <1>1, <1>14 DEF UsesFreedRow, Causes
  <2>. QED
    BY <1>14, <2>4, <2>5 DEF UsesFreedRow, TypeOK, Fresh, conn, coding, Ended
<1>15. CASE SkipsBlankRow
  <2>1. sbuf # <<>>
    BY <1>1, <1>15, RowMeansUnits DEF SkipsBlankRow, BlankFirst
  <2>2. sbuf' \in Seq(Units)
    BY <1>1, <1>15, <2>1 DEF SkipsBlankRow
  <2>. QED
    BY <1>15, <2>2 DEF SkipsBlankRow, TypeOK, Fresh, conn, coding
<1>16. CASE TakesSize
  <2>1. size' \in Nat
    BY <1>1, <1>16, SizeTyped DEF TakesSize
  <2>2. Len(Row(sbuf)) \in 0..Len(sbuf)
    BY <1>1, <1>16, RowAtHead DEF TakesSize
  <2>3. sbuf' \in Seq(Units)
    BY <1>1, <1>16, <2>2, Cuts DEF TakesSize
  <2>4. ChunkedHeader(header, content_len) \o content \in Seq(Units)
    BY <1>1, ChunkedHeaderTyped, ConcatProperties
  <2>5. respond' \in Seq(Units) /\ pc' \in {"put", "chunk"}
    BY <1>1, <1>16, <2>4 DEF TakesSize, Finishes
  <2>. QED
    BY <1>16, <2>1, <2>3, <2>5 DEF TakesSize, TypeOK, Fresh, conn, coding, Reading
<1>17. CASE NoMoreChunks
  <2>1. ChunkedHeader(header, content_len) \o content \in Seq(Units)
    BY <1>1, ChunkedHeaderTyped, ConcatProperties
  <2>. QED
    BY <1>17, <2>1 DEF NoMoreChunks, Finishes, TypeOK, Fresh, conn, coding
<1>18. CASE TakesChunk
  <2>1. size \in 0..Len(sbuf)
    BY <1>1, <1>18 DEF TakesChunk
  <2>2. Block(sbuf, size) \in Seq(Units) /\ Len(Block(sbuf, size)) = size
    BY <1>1, <2>1, Cuts DEF Block
  <2>3. content' \in Seq(Units) /\ Len(content') = Len(content) + size
    BY <1>1, <1>18, <2>2, ConcatProperties DEF TakesChunk
  <2>4. content_len' = Len(content') /\ content_len' \in Nat
    <3>1. content_len' = content_len + size /\ content_len = Len(content)
      BY <1>18 DEF TakesChunk, TypeOK
    <3>. QED
      BY <1>1, <2>3, <3>1
  <2>5. Blame("surplus", Surplus(sbuf, size)) \subseteq Causes
    BY BlameTyped DEF Causes
  <2>6. sbuf' \in Seq(Units)
    BY <1>18 DEF TakesChunk
  <2>. QED
    BY <1>18, <2>3, <2>4, <2>5, <2>6 DEF TakesChunk, TypeOK, Fresh, conn, Reading
<1>19. CASE ChunkCut
  BY <1>19 DEF ChunkCut, TypeOK, Fresh, conn, coding, Ended
<1>20. CASE Puts
  BY <1>20 DEF Puts, TypeOK, Fresh, conn, coding, Ended
<1>21. CASE PutFails
  BY <1>21 DEF PutFails, TypeOK, Fresh, conn, coding, Ended, Causes
<1>22. CASE ServerCloses
  <2>1. PICK n \in 0..Len(wire) :
          wire' = Prefix(wire, n) /\ causes' = causes \cup Blame("cut", n < Len(wire))
    BY <1>22 DEF ServerCloses
  <2>2. wire' \in Seq(Units)
    BY <1>1, <2>1, Cuts
  <2>3. Blame("cut", n < Len(wire)) \subseteq Causes
    BY BlameTyped DEF Causes
  <2>. QED
    BY <1>22, <2>1, <2>2, <2>3 DEF ServerCloses, TypeOK, Fresh, coding
<1>. QED
  BY <1>4, <1>5, <1>6, <1>7, <1>8, <1>9, <1>10, <1>11, <1>12, <1>13, <1>14, <1>15, <1>16,
     <1>17, <1>18, <1>19, <1>20, <1>21, <1>22 DEF Next, Child

\* The child starts with nothing.
LEMMA InitTyped == Init => TypeInv
<1>1. \A S : <<>> \in Seq(S)
  OBVIOUS
<1>2. Init => TypeOK
  <2>. SUFFICES ASSUME Init PROVE TypeOK
    OBVIOUS
  <2>1. <<>> \in Seq(Units)
    BY <1>1
  <2>2. causes \subseteq Causes /\ 0 \in Nat
    BY DEF Init
  <2>. QED
    BY <2>1, <2>2 DEF Init, TypeOK
<1>3. Init => Fresh
  BY DEF Init, Fresh
<1>. QED
  BY <1>2, <1>3 DEF TypeInv

\* The child's variables keep their types, and once chunks are collected
\* content_len counts what has been collected, whatever the server sends.
THEOREM TypeCorrect == Spec => []TypeOK
<1>1. Init => TypeInv
  BY InitTyped
<1>2. TypeInv /\ [Next]_vars => TypeInv'
  BY TypeStep
<1>3. TypeInv => TypeOK
  BY DEF TypeInv
<1>. QED
  BY <1>1, <1>2, <1>3, PTL DEF Spec

-----------------------------------------------------------------------------
(* The answer, and how far the child has come in it.                         *)

\* The parts of an answer are typed, its stream is the one behind the other,
\* and its header is made of rows, with the blank one at the end.
LEMMA AnswerTyped ==
  ASSUME TypeOK
  PROVE  /\ answer.header \in Seq(Units) /\ answer.rest \in Seq(Units) /\ answer.body \in Seq(Units)
         /\ Stream \in Seq(Units) /\ Len(Stream) = Len(answer.header) + Len(answer.rest)
         /\ Len(answer.header) \in Nat \ {0} /\ Len(answer.rest) \in Nat
         /\ \A i \in 1..Len(answer.header) :
              /\ Stream[i] = answer.header[i] /\ answer.header[i] \in Units
              /\ answer.header[i].k \in HeaderKinds
              /\ answer.header[i].k = "blank" <=> i = Len(answer.header)
         /\ \A i \in 1..Len(answer.rest) :
              Stream[Len(answer.header) + i] = answer.rest[i] /\ answer.rest[i] \in Units
         /\ answer.header[Len(answer.header)] = Blank
<1>1. answer \in Answers
  BY DEF TypeOK
<1>2. /\ answer.header \in Seq(Units) /\ answer.rest \in Seq(Units) /\ answer.body \in Seq(Units)
      /\ \A i \in DOMAIN answer.header : answer.header[i].k \in HeaderKinds
  BY <1>1, ConstantsAssumption
<1>3. /\ answer.header # <<>> /\ answer.header[Len(answer.header)] = Blank
      /\ \A i \in DOMAIN answer.header : answer.header[i].k = "blank" => i = Len(answer.header)
  BY <1>1, AnswersAssumption DEF WellFormed
<1>4. Len(answer.header) \in Nat \ {0} /\ Len(answer.rest) \in Nat
  BY <1>2, <1>3
<1>5. Blank.k = "blank"
  BY DEF Blank, Unit
<1>6. /\ Stream \in Seq(Units) /\ Len(Stream) = Len(answer.header) + Len(answer.rest)
      /\ \A i \in 1..Len(answer.header) : Stream[i] = answer.header[i]
      /\ \A i \in 1..Len(answer.rest) : Stream[Len(answer.header) + i] = answer.rest[i]
  <2>1. PICK h, r \in Seq(Units) : h = answer.header /\ r = answer.rest
    BY <1>2
  <2>2. Stream = h \o r
    BY <2>1 DEF Stream
  <2>3. /\ h \o r \in Seq(Units) /\ Len(h \o r) = Len(h) + Len(r)
        /\ \A i \in 1..Len(h) : (h \o r)[i] = h[i]
        /\ \A i \in 1..Len(r) : (h \o r)[Len(h) + i] = r[i]
    BY Joins
  <2>. QED
    BY <2>1, <2>2, <2>3
<1>7. ASSUME NEW i \in 1..Len(answer.header)
      PROVE  /\ answer.header[i] \in Units /\ answer.header[i].k \in HeaderKinds
             /\ answer.header[i].k = "blank" <=> i = Len(answer.header)
  <2>1. DOMAIN answer.header = 1..Len(answer.header)
    BY <1>2
  <2>. QED
    BY <1>2, <1>3, <1>5, <2>1
<1>8. \A i \in 1..Len(answer.rest) : answer.rest[i] \in Units
  BY <1>2
<1>. QED
  BY <1>2, <1>3, <1>4, <1>6, <1>7, <1>8

\* What the child has still to look at is typed, and begins with what is
\* buffered.
LEMMA LeftTyped ==
  ASSUME TypeOK
  PROVE  /\ Left \in Seq(Units) /\ Len(Left) = Len(sbuf) + Len(wire)
         /\ Len(sbuf) \in Nat /\ Len(wire) \in Nat /\ Len(Left) \in Nat
         /\ \A i \in 1..Len(sbuf) : Left[i] = sbuf[i]
<1>1. sbuf \in Seq(Units) /\ wire \in Seq(Units)
  BY DEF TypeOK
<1>. QED
  BY <1>1 DEF Left

\* A read changes nothing of it.
LEMMA BehindRead ==
  ASSUME NEW k \in Nat, Behind(k), Left' = Left, UNCHANGED <<answer, causes>>
  PROVE  Behind(k)'
BY DEF Behind, Stream

\* Units taken from the buffer are taken from the front of it.
LEMMA LeftTaken ==
  ASSUME TypeOK, NEW n \in 0..Len(sbuf), sbuf' = Suffix(sbuf, n), wire' = wire
  PROVE  /\ Left' \in Seq(Units) /\ Len(Left') = Len(Left) - n
         /\ \A i \in 1..Len(Left') : n + i \in 1..Len(Left) /\ Left'[i] = Left[n + i]
<1>1. /\ Left \in Seq(Units) /\ Len(Left) = Len(sbuf) + Len(wire)
      /\ Len(sbuf) \in Nat /\ Len(wire) \in Nat /\ sbuf \in Seq(Units) /\ wire \in Seq(Units)
  BY LeftTyped DEF TypeOK
<1>2. Left' = Suffix(sbuf, n) \o wire
  BY DEF Left
<1>3. Left' = Suffix(Left, n) /\ n \in 0..Len(Left)
  <2>1. Suffix(sbuf, n) \o wire = Suffix(sbuf \o wire, n) /\ n \in 0..Len(sbuf \o wire)
    BY <1>1, CutOfJoin
  <2>. QED
    BY <1>2, <2>1 DEF Left
<1>4. /\ Left' \in Seq(Units) /\ Len(Left') = Len(Left) - n
      /\ \A i \in 1..Len(Left) - n : Left'[i] = Left[n + i]
  <2>1. /\ Suffix(Left, n) \in Seq(Units) /\ Len(Suffix(Left, n)) = Len(Left) - n
        /\ \A i \in 1..Len(Left) - n : Suffix(Left, n)[i] = Left[n + i]
    BY <1>1, <1>3, Cuts
  <2>. QED
    BY <1>3, <2>1
<1>5. Len(Left) \in Nat /\ n \in Nat
  BY <1>1
<1>6. \A i \in 1..Len(Left) - n : n + i \in 1..Len(Left)
  BY <1>5
<1>. QED
  BY <1>4, <1>6

\* They bring the child forward by as many.
LEMMA BehindTaken ==
  ASSUME TypeOK, NEW k \in Nat, Behind(k), NEW n \in 0..Len(sbuf), sbuf' = Suffix(sbuf, n),
         UNCHANGED <<answer, wire>>, "cut" \in causes <=> "cut" \in causes'
  PROVE  /\ Behind(k + n)'
         /\ Left' \in Seq(Units) /\ Len(Left') = Len(Left) - n
         /\ \A i \in 1..Len(Left') : Left'[i] = Left[n + i]
<1>1. /\ Left' \in Seq(Units) /\ Len(Left') = Len(Left) - n
      /\ \A i \in 1..Len(Left') : n + i \in 1..Len(Left) /\ Left'[i] = Left[n + i]
  BY LeftTaken
<1>2. Stream' = Stream
  BY DEF Stream
<1>3. /\ k + Len(Left) <= Len(Stream) /\ \A i \in 1..Len(Left) : Left[i] = Stream[k + i]
      /\ "cut" \notin causes => k + Len(Left) = Len(Stream)
  BY DEF Behind
<1>4. Len(Left) \in Nat /\ n \in Nat
  BY LeftTyped
<1>5. \A i \in 1..Len(Left) - n : Left[n + i] = Stream[(k + n) + i]
  <2>1. ASSUME NEW i \in 1..Len(Left) - n
        PROVE  Left[n + i] = Stream[(k + n) + i]
    <3>1. n + i \in 1..Len(Left) /\ k + (n + i) = (k + n) + i
      BY <1>4
    <3>. QED
      BY <1>3, <3>1
  <2>. QED
    BY <2>1
<1>6. k + n + Len(Left') = k + Len(Left)
  BY <1>1, <1>4
<1>7. Behind(k + n)'
  BY <1>1, <1>2, <1>3, <1>5, <1>6 DEF Behind
<1>. QED
  BY <1>1, <1>7

\* The whole buffer may be taken too.
LEMMA AllTaken ==
  ASSUME TypeOK, sbuf' = <<>>
  PROVE  sbuf' = Suffix(sbuf, Len(sbuf)) /\ Len(sbuf) \in 0..Len(sbuf)
<1>1. sbuf \in Seq(Units) /\ Len(sbuf) \in 0..Len(sbuf)
  BY DEF TypeOK
<1>2. Suffix(sbuf, Len(sbuf)) \in Seq(Units) /\ Len(Suffix(sbuf, Len(sbuf))) = Len(sbuf) - Len(sbuf)
  BY <1>1, Cuts
<1>3. Suffix(sbuf, Len(sbuf)) = <<>>
  BY <1>1, <1>2
<1>. QED
  BY <1>1, <1>3

\* The end of the connection takes nothing from the front.
LEMMA BehindCut ==
  ASSUME TypeOK, ServerCloses
  PROVE  /\ \A k \in Nat : Behind(k) => Behind(k)'
         /\ Len(Left') <= Len(Left) /\ Len(Left') \in Nat /\ Len(Left) \in Nat
         /\ \A i \in 1..Len(Left') : Left'[i] = Left[i]
<1>1. PICK n \in 0..Len(wire) :
        wire' = Prefix(wire, n) /\ causes' = causes \cup Blame("cut", n < Len(wire))
  BY DEF ServerCloses
<1>2. sbuf' = sbuf /\ answer' = answer
  BY DEF ServerCloses
<1>3. sbuf \in Seq(Units) /\ wire \in Seq(Units) /\ Len(sbuf) \in Nat /\ Len(wire) \in Nat /\ n \in Nat
  BY DEF TypeOK
<1>4. /\ Prefix(wire, n) \in Seq(Units) /\ Len(Prefix(wire, n)) = n
      /\ \A i \in 1..n : Prefix(wire, n)[i] = wire[i]
  BY <1>3, Cuts
<1>5. PICK w \in Seq(Units) : w = wire' /\ Len(w) = n /\ \A i \in 1..n : w[i] = wire[i]
  BY <1>1, <1>4
<1>6. Left' = sbuf \o w /\ Left = sbuf \o wire
  BY <1>2, <1>5 DEF Left
<1>7. /\ Len(Left') = Len(sbuf) + n /\ Len(Left) = Len(sbuf) + Len(wire)
      /\ \A i \in 1..Len(sbuf) + n : Left'[i] = Left[i]
  <2>1. /\ Len(Left') = Len(sbuf) + n /\ Len(Left) = Len(sbuf) + Len(wire)
        /\ \A i \in 1..Len(sbuf) + n : Left'[i] = IF i <= Len(sbuf) THEN sbuf[i] ELSE w[i - Len(sbuf)]
        /\ \A i \in 1..Len(sbuf) + Len(wire) : Left[i] = IF i <= Len(sbuf) THEN sbuf[i] ELSE wire[i - Len(sbuf)]
    BY <1>3, <1>5, <1>6, ConcatProperties
  <2>2. ASSUME NEW i \in 1..Len(sbuf) + n
        PROVE  Left'[i] = Left[i]
    <3>1. i \in 1..Len(sbuf) + Len(wire)
      BY <1>3
    <3>2. ~(i <= Len(sbuf)) => i - Len(sbuf) \in 1..n
      BY <1>3
    <3>. QED
      BY <1>5, <2>1, <3>1, <3>2
  <2>. QED
    BY <2>1, <2>2
<1>8. "cut" \notin causes' => n = Len(wire) /\ "cut" \notin causes
  BY <1>1, <1>3 DEF Blame
<1>9. Stream' = Stream
  BY <1>2 DEF Stream
<1>10. Len(Left') <= Len(Left) /\ Len(Left') \in Nat /\ Len(Left) \in Nat
  BY <1>3, <1>7
<1>11. Len(Stream) \in Nat
  BY AnswerTyped
<1>12. ASSUME NEW k \in Nat, Behind(k)
       PROVE  Behind(k)'
  BY <1>7, <1>8, <1>9, <1>10, <1>11, <1>12 DEF Behind
<1>. QED
  BY <1>7, <1>10, <1>12

\* The row that says how long the body is is the only one, and what follows
\* keeps to it.
LEMMA OneLength ==
  ASSUME TypeOK, NEW i \in 1..Len(answer.header), answer.header[i].k \in {"clen", "te"}
  PROVE  /\ \A j \in 1..Len(answer.header) : answer.header[j].k \in {"clen", "te"} => j = i
         /\ \A j \in 1..Len(answer.rest) : answer.rest[j].k # "clen"
         /\ answer.header[i].k = "te" => Coded(answer.rest, answer.body)
         /\ answer.header[i].k = "clen" /\ answer.header[i].n <= Len(answer.rest) =>
              answer.body = Prefix(answer.rest, answer.header[i].n)
<1>. DEFINE lengths == {j \in DOMAIN answer.header : answer.header[j].k \in {"clen", "te"}}
<1>1. WellFormed(answer)
  BY AnswersAssumption DEF TypeOK
<1>2. DOMAIN answer.header = 1..Len(answer.header) /\ DOMAIN answer.rest = 1..Len(answer.rest)
  BY AnswerTyped
<1>3. i \in lengths
  BY <1>2
<1>4. /\ \A j, l \in lengths : j = l
      /\ \A l \in lengths :
           /\ \A j \in DOMAIN answer.rest : answer.rest[j].k # "clen"
           /\ IF answer.header[l].k = "te"
              THEN Coded(answer.rest, answer.body)
              ELSE answer.header[l].n <= Len(answer.rest) =>
                     answer.body = Prefix(answer.rest, answer.header[l].n)
  BY <1>1 DEF WellFormed
<1>. QED
  BY <1>2, <1>3, <1>4

\* A header without such a row and nothing behind it mean an empty body.
LEMMA NoLength ==
  ASSUME TypeOK, \A i \in 1..Len(answer.header) : answer.header[i].k \notin {"clen", "te"},
         answer.rest = <<>>
  PROVE  answer.body = <<>>
<1>1. WellFormed(answer)
  BY AnswersAssumption DEF TypeOK
<1>2. DOMAIN answer.header = 1..Len(answer.header)
  BY AnswerTyped
<1>. QED
  BY <1>1, <1>2 DEF WellFormed

\* A row at the head of a buffer is one of its own.
LEMMA RowFirst ==
  ASSUME NEW b \in Seq(Units), b # <<>>, b[1].k \in Newline
  PROVE  /\ HasRow(b) /\ Len(Row(b)) = 1 /\ Row(b)[1] = b[1]
         /\ BlankFirst(b) <=> BlankRow(b[1])
<1>1. 1 \in 1..Len(b) /\ DOMAIN b = 1..Len(b) /\ Len(b) \in Nat
  OBVIOUS
<1>2. 1 \in RowEnds(b)
  BY <1>1 DEF RowEnds
<1>3. HasRow(b)
  BY <1>2 DEF HasRow
<1>4. /\ Min(RowEnds(b)) \in 1..Len(b) /\ \A i \in RowEnds(b) : Min(RowEnds(b)) <= i
      /\ Len(Row(b)) = Min(RowEnds(b)) /\ \A i \in 1..Len(Row(b)) : Row(b)[i] = b[i]
  BY <1>3, RowAtHead
<1>5. Len(Row(b)) = 1
  BY <1>2, <1>4
<1>6. IsRow(b, 1)
  BY <1>2 DEF IsRow
<1>. QED
  BY <1>3, <1>4, <1>5, <1>6 DEF BlankFirst

\* What stands in a header is a row, one that says "blank" the last.
LEMMA RowOfHeader ==
  ASSUME TypeOK, NEW m \in Nat, m < Len(answer.header), Behind(m), sbuf # <<>>
  PROVE  /\ sbuf[1] = answer.header[m + 1] /\ sbuf[1] \in Units /\ sbuf[1].k \in HeaderKinds
         /\ HasRow(sbuf) /\ sbuf \in Seq(Units)
         /\ BlankFirst(sbuf) <=> m + 1 = Len(answer.header)
         /\ Tail(sbuf) = Suffix(sbuf, 1) /\ 1 \in 0..Len(sbuf)
<1>1. sbuf \in Seq(Units) /\ Len(sbuf) \in Nat /\ 1 \in 1..Len(sbuf)
  BY DEF TypeOK
<1>2. Left[1] = sbuf[1] /\ 1 \in 1..Len(Left)
  BY <1>1, LeftTyped
<1>3. Left[1] = Stream[m + 1]
  BY <1>2 DEF Behind
<1>4. m + 1 \in 1..Len(answer.header)
  BY AnswerTyped
<1>5. /\ sbuf[1] = answer.header[m + 1] /\ sbuf[1] \in Units /\ sbuf[1].k \in HeaderKinds
      /\ sbuf[1].k = "blank" <=> m + 1 = Len(answer.header)
  <2>1. /\ Stream[m + 1] = answer.header[m + 1] /\ answer.header[m + 1] \in Units
        /\ answer.header[m + 1].k \in HeaderKinds
        /\ answer.header[m + 1].k = "blank" <=> m + 1 = Len(answer.header)
    BY <1>4, AnswerTyped
  <2>. QED
    BY <1>2, <1>3, <2>1
<1>6. sbuf[1].k \in Newline /\ (BlankRow(sbuf[1]) <=> sbuf[1].k = "blank")
  BY <1>5 DEF HeaderKinds, Newline, BlankRow
<1>7. HasRow(sbuf) /\ (BlankFirst(sbuf) <=> BlankRow(sbuf[1]))
  BY <1>1, <1>6, RowFirst
<1>. QED
  BY <1>1, <1>5, <1>6, <1>7, TailCuts

\* A header with one blank row, at its end, and a content of the length that
\* it says.
LEMMA RespondLength ==
  ASSUME NEW h \in Seq(Units), NEW c \in Seq(Units), \A i \in 1..Len(h) : h[i].k # "blank",
         \A i \in 1..Len(h) : h[i].k = "clen" => h[i].n = Len(c),
         \A i \in 1..Len(c) : c[i].k # "clen"
  PROVE  \A r : r = Append(h, Blank) \o c =>
           \A i \in DOMAIN r : r[i].k = "clen" => r[i].n = Len(r) - HeaderLen(r)
<1>. DEFINE g == Append(h, Blank)
<1>1. Blank \in Units /\ Blank.k = "blank"
  BY DEF Blank, Unit, Units, Kinds, Newline
<1>2. /\ g \in Seq(Units) /\ Len(g) = Len(h) + 1 /\ g[Len(h) + 1] = Blank /\ Len(h) \in Nat
      /\ \A i \in 1..Len(h) : g[i] = h[i]
  BY <1>1
<1>. HIDE DEF g
<1>3. PICK s : s = g \o c
  OBVIOUS
<1>4. /\ s \in Seq(Units) /\ Len(s) = Len(g) + Len(c) /\ Len(g) \in Nat /\ Len(c) \in Nat
      /\ \A i \in 1..Len(g) : s[i] = g[i]
      /\ \A i \in 1..Len(c) : s[Len(g) + i] = c[i]
  <2>1. /\ g \o c \in Seq(Units) /\ Len(g \o c) = Len(g) + Len(c) /\ Len(g) \in Nat /\ Len(c) \in Nat
        /\ \A i \in 1..Len(g) : (g \o c)[i] = g[i] /\ g[i] \in Units
        /\ \A i \in 1..Len(c) : (g \o c)[Len(g) + i] = c[i] /\ c[i] \in Units
    <3>1. g \in Seq(Units)
      BY <1>2
    <3>. QED
      BY <3>1, Joins
  <2>. QED
    BY <1>3, <2>1
<1>5. DOMAIN s = 1..Len(s)
  BY <1>4
<1>6. HeaderLen(s) = Len(h) + 1
  <2>. DEFINE T == {i \in DOMAIN s : s[i].k = "blank"}
  <2>1. Len(h) + 1 \in T
    BY <1>1, <1>2, <1>4, <1>5
  <2>2. \A i \in T : i >= Len(h) + 1
    <3>1. ASSUME NEW i \in 1..Len(h)
          PROVE  s[i].k # "blank"
      <4>1. i \in 1..Len(g)
        BY <1>2
      <4>. QED
        BY <1>2, <1>4, <4>1
    <3>2. \A i \in 1..Len(s) : i \notin 1..Len(h) => i >= Len(h) + 1
      BY <1>2, <1>4
    <3>. QED
      BY <1>5, <3>1, <3>2
  <2>3. T \subseteq Nat /\ T # {}
    <3>1. T \subseteq 1..Len(s)
      BY <1>5
    <3>2. 1..Len(s) \subseteq Nat
      OBVIOUS
    <3>. QED
      BY <2>1, <3>1, <3>2
  <2>. HIDE DEF T
  <2>4. Min(T) \in T /\ \A x \in T : Min(T) <= x
    BY <2>3, LeastOf
  <2>5. Min(T) = Len(h) + 1
    <3>1. Min(T) >= Len(h) + 1 /\ Min(T) <= Len(h) + 1 /\ Min(T) \in Nat
      BY <2>1, <2>2, <2>3, <2>4
    <3>. QED
      BY <1>2, <3>1
  <2>. QED
    BY <2>5 DEF HeaderLen, T
<1>7. ASSUME NEW i \in DOMAIN s, s[i].k = "clen"
      PROVE  s[i].n = Len(s) - HeaderLen(s)
  <2>1. i \in 1..Len(h)
    <3>1. i # Len(h) + 1
      BY <1>1, <1>2, <1>4, <1>7
    <3>2. ~(i > Len(h) + 1)
      <4>1. SUFFICES ASSUME i > Len(h) + 1 PROVE FALSE
        OBVIOUS
      <4>2. PICK j \in 1..Len(c) : i = Len(g) + j
        <5>1. i \in 1..Len(g) + Len(c) /\ i > Len(g)
          BY <1>2, <1>4, <1>5, <4>1
        <5>2. i - Len(g) \in 1..Len(c) /\ i = Len(g) + (i - Len(g))
          BY <1>4, <5>1
        <5>. QED
          BY <5>2
      <4>3. s[i] = c[j]
        BY <1>4, <4>2
      <4>. QED
        BY <1>7, <4>3
    <3>. QED
      BY <1>2, <1>4, <1>5, <3>1, <3>2
  <2>2. s[i] = h[i]
    BY <1>2, <1>4, <2>1
  <2>3. h[i].n = Len(c)
    BY <1>7, <2>1, <2>2
  <2>. QED
    BY <1>2, <1>4, <1>6, <2>2, <2>3
<1>. QED
  BY <1>3, <1>7 DEF g

-----------------------------------------------------------------------------
(* The steps up to the content.                                              *)

\* Content that a step leaves alone stays a beginning of the body.
LEMMA ContentStays ==
  ASSUME ContentIsHead, UNCHANGED <<answer, content>>, causes \subseteq causes'
  PROVE  ContentIsHead'
BY DEF ContentIsHead

\* Before the request.
LEMMA StartStep ==
  ASSUME IInv, Skips \/ RequestFails \/ Asks
  PROVE  Course'
<1>. USE DEF IInv
<1>1. pc = "start" /\ UNCHANGED <<answer, content>> /\ causes \subseteq causes'
  BY DEF Skips, RequestFails, Asks, conn
<1>2. ContentIsHead'
  BY <1>1, ContentStays DEF Course
<1>3. /\ wire = <<>> /\ sbuf = <<>> /\ header = <<>>
      /\ ~chunked /\ content_len = 0 /\ respond = <<>> /\ causes = {}
  BY <1>1 DEF Course, AtStart
<1>4. CASE Skips
  <2>1. pc' = "put" /\ respond' = <<>> /\ "skipped" \in causes'
    BY <1>3, <1>4 DEF Skips
  <2>2. DOMAIN respond' = {}
    BY <2>1
  <2>3. LengthTrue' /\ WholeAnswer'
    BY <2>1, <2>2 DEF LengthTrue, WholeAnswer
  <2>. QED
    BY <1>2, <2>1, <2>3 DEF Course, AtStart, InHeader, InBody, InChunks
<1>5. CASE RequestFails
  <2>1. pc' = "gone"
    BY <1>5 DEF RequestFails
  <2>. QED
    BY <1>2, <2>1 DEF Course, AtStart, InHeader, InBody, InChunks, LengthTrue, WholeAnswer
<1>6. CASE Asks
  <2>1. /\ pc' = "header" /\ wire' = Stream /\ UNCHANGED <<answer, sbuf, header, chunked, content_len, causes>>
    BY <1>6 DEF Asks, Stream, coding
  <2>2. Stream \in Seq(Units) /\ Len(answer.header) \in Nat \ {0} /\ Stream' = Stream
    BY <2>1, AnswerTyped DEF TypeInv, Stream
  <2>3. Left' = Stream
    <3>1. <<>> \o Stream = Stream
      BY <2>2, ConcatEmptySeq
    <3>. QED
      BY <1>3, <2>1, <3>1 DEF Left
  <2>4. header' = <<>> /\ Len(header') = 0
    BY <1>3, <2>1
  <2>5. Noted'
    BY <1>3, <2>1, <2>2, <2>4 DEF Noted
  <2>6. Behind(0)'
    <3>1. Len(Stream) \in Nat /\ \A i \in 1..Len(Stream) : 0 + i = i
      BY <2>2
    <3>. QED
      BY <2>2, <2>3, <3>1 DEF Behind
  <2>7. Behind(Len(header))'
    BY <2>4, <2>6 DEF Behind
  <2>8. InHeader'
    BY <2>5, <2>7 DEF InHeader
  <2>. QED
    BY <1>2, <2>1, <2>8 DEF Course, AtStart, InBody, InChunks, LengthTrue, WholeAnswer
<1>. QED
  BY <1>4, <1>5, <1>6

\* A read changes nothing that the invariant speaks of.
LEMMA ReadStep ==
  ASSUME IInv, ReadsForRow \/ ReadsForSize
  PROVE  Course'
<1>. USE DEF IInv
<1>1. /\ pc' = pc /\ pc \in Reading
      /\ UNCHANGED <<answer, header, chunked, content_len, size, content, respond, causes>>
  BY DEF ReadsForRow, ReadsForSize, coding, Reading
<1>2. Left' = Left
  <2>1. ASSUME NEW most \in Nat, NEW read \in Increased(sbuf, wire, most),
               sbuf' = read[1] /\ wire' = read[2]
        PROVE  Left' = Left
    BY <2>1, ReadKeeps DEF Left, TypeInv
  <2>2. RowRead \in Nat
    BY ConstantsAssumption
  <2>3. CASE ReadsForRow
    BY <2>1, <2>2, <2>3 DEF ReadsForRow
  <2>4. CASE ReadsForSize
    <3>1. size - Len(sbuf) \in Nat
      BY <2>4 DEF ReadsForSize, TypeInv, TypeOK
    <3>. QED
      BY <2>1, <2>4, <3>1 DEF ReadsForSize
  <2>. QED
    BY <2>3, <2>4
<1>3. Noted' <=> Noted
  BY <1>1 DEF Noted
<1>4. Stream' = Stream
  BY <1>1 DEF Stream
<1>5. InHeader' /\ InBody'
  BY <1>1, <1>2, <1>3, <1>4 DEF Course, InHeader, InBody, Behind
<1>6. InChunks'
  <2>1. \A k : InPlace(k) => InPlace(k)'
    BY <1>1, <1>2, <1>4 DEF InPlace, Behind, AtSize
  <2>. QED
    BY <1>1, <1>2, <2>1 DEF Course, InChunks
<1>7. ContentIsHead'
  BY <1>1, ContentStays DEF Course
<1>. QED
  BY <1>1, <1>5, <1>6, <1>7 DEF Course, AtStart, LengthTrue, WholeAnswer, Reading

\* A row of the header is noted.
LEMMA TakesHeaderRowStep ==
  ASSUME IInv, TakesHeaderRow
  PROVE  Course'
<1>. USE DEF IInv
<1>1. TypeOK /\ pc = "header" /\ Noted /\ Behind(Len(header))
  BY DEF TakesHeaderRow, Course, InHeader, TypeInv
<1>2. PICK m \in Nat : m = Len(header)
  BY <1>1 DEF TypeOK
<1>3. PICK u : u = sbuf[1]
  OBVIOUS
<1>4. m < Len(answer.header) /\ Behind(m) /\ sbuf # <<>>
  BY <1>1, <1>2, RowMeansUnits DEF Noted, TakesHeaderRow, TypeOK
<1>5. /\ u = answer.header[m + 1] /\ u \in Units /\ m + 1 # Len(answer.header)
      /\ Tail(sbuf) = Suffix(sbuf, 1) /\ 1 \in 0..Len(sbuf)
  BY <1>1, <1>3, <1>4, RowOfHeader DEF TakesHeaderRow
<1>6. Len(answer.header) \in Nat
  BY <1>1, AnswerTyped
<1>7. /\ pc' = "header" /\ header' = Append(header, HeaderRow(u))
      /\ chunked' = (chunked \/ u.k = "te")
      /\ content_len' = IF u.k = "clen" THEN u.n ELSE content_len
      /\ sbuf' = Suffix(sbuf, 1) /\ UNCHANGED <<answer, wire, content, causes>>
  BY <1>3, <1>5 DEF TakesHeaderRow, conn
<1>8. Behind(m + 1)'
  BY <1>1, <1>4, <1>5, <1>7, BehindTaken
<1>9. /\ Len(header') = m + 1 /\ header'[m + 1] = HeaderRow(u)
      /\ \A i \in 1..m : header'[i] = header[i]
  BY <1>1, <1>2, <1>7 DEF TypeOK
<1>10. Behind(Len(header))'
  BY <1>8, <1>9 DEF Behind
<1>11. \A i \in 1..m + 1 : i \in 1..m \/ i = m + 1
  OBVIOUS
<1>12. 1..m \subseteq 1..m + 1 /\ m + 1 \in 1..m + 1
  OBVIOUS
<1>13. Len(header') < Len(answer'.header)
  BY <1>4, <1>5, <1>6, <1>7, <1>9
<1>14. \A i \in 1..m + 1 : header'[i] = HeaderRow(answer'.header[i])
  BY <1>1, <1>2, <1>5, <1>7, <1>9, <1>11 DEF Noted
<1>15. chunked' <=> \E i \in 1..m + 1 : answer'.header[i].k = "te"
  <2>1. chunked <=> \E i \in 1..m : answer.header[i].k = "te"
    BY <1>1, <1>2 DEF Noted
  <2>. QED
    BY <1>5, <1>7, <1>11, <1>12, <2>1
<1>16. /\ \A i \in 1..m : answer.header[i].k = "clen" => content_len = answer.header[i].n
       /\ (\A i \in 1..m : answer.header[i].k # "clen") => content_len = 0
  BY <1>1, <1>2 DEF Noted
<1>17. ASSUME NEW i \in 1..m + 1, answer.header[i].k = "clen"
       PROVE  content_len' = answer.header[i].n
  <2>1. CASE u.k = "clen"
    <3>1. m + 1 \in 1..Len(answer.header) /\ i \in 1..Len(answer.header)
      BY <1>4, <1>6
    <3>2. i = m + 1
      BY <1>1, <1>5, <1>17, <2>1, <3>1, OneLength
    <3>. QED
      BY <1>5, <1>7, <2>1, <3>2
  <2>2. CASE u.k # "clen"
    <3>1. i # m + 1
      BY <1>5, <1>17, <2>2
    <3>2. i \in 1..m
      BY <1>11, <3>1
    <3>. QED
      BY <1>7, <1>16, <1>17, <2>2, <3>2
  <2>. QED
    BY <2>1, <2>2
<1>18. (\A i \in 1..m + 1 : answer.header[i].k # "clen") => content_len' = 0
  BY <1>5, <1>7, <1>12, <1>16
<1>19. Noted'
  <2>1. answer' = answer
    BY <1>7
  <2>. QED
    BY <1>9, <1>13, <1>14, <1>15, <1>17, <1>18, <2>1 DEF Noted
<1>20. ContentIsHead'
  BY <1>7, ContentStays DEF Course
<1>. QED
  BY <1>7, <1>10, <1>19, <1>20 DEF Course, AtStart, InHeader, InBody, InChunks, LengthTrue, WholeAnswer

\* What the child has still to look at behind the header.
LEMMA LeftOfRest ==
  ASSUME TypeOK, NEW k \in Nat, Behind(Len(answer.header) + k)
  PROVE  /\ Len(Left) \in Nat /\ k + Len(Left) <= Len(answer.rest)
         /\ \A i \in 1..Len(Left) : k + i \in 1..Len(answer.rest) /\ Left[i] = answer.rest[k + i]
         /\ "cut" \notin causes => k + Len(Left) = Len(answer.rest)
<1>1. /\ Len(Stream) = Len(answer.header) + Len(answer.rest)
      /\ Len(answer.header) \in Nat /\ Len(answer.rest) \in Nat
  BY AnswerTyped
<1>2. PICK h, r, l \in Nat : h = Len(answer.header) /\ r = Len(answer.rest) /\ l = Len(Left)
  BY <1>1, LeftTyped
<1>3. /\ h + k + l <= h + r
      /\ \A i \in 1..l : Left[i] = Stream[h + k + i]
      /\ "cut" \notin causes => h + k + l = h + r
  BY <1>1, <1>2 DEF Behind
<1>4. k + l <= r /\ ("cut" \notin causes => k + l = r)
  BY <1>3
<1>5. ASSUME NEW i \in 1..l
      PROVE  k + i \in 1..r /\ Left[i] = answer.rest[k + i]
  <2>1. k + i \in 1..r /\ h + k + i = h + (k + i)
    BY <1>4
  <2>2. Stream[h + (k + i)] = answer.rest[k + i]
    BY <1>2, <2>1, AnswerTyped
  <2>. QED
    BY <1>3, <2>1, <2>2
<1>. QED
  BY <1>2, <1>4, <1>5

\* What is noted of a header: no blank row, and no length but the one that is
\* there, or 0 for the coding.
LEMMA NotedRows ==
  ASSUME TypeOK, Len(header) < Len(answer.header),
         \A i \in 1..Len(header) : header[i] = HeaderRow(answer.header[i]),
         NEW i \in 1..Len(header)
  PROVE  /\ i \in 1..Len(answer.header)
         /\ header[i].k # "blank"
         /\ answer.header[i].k = "te" => header[i] = Length(0)
         /\ answer.header[i].k # "te" => header[i] = answer.header[i]
         /\ Length(0).k = "clen" /\ Length(0).n = 0
<1>1. Len(header) \in Nat /\ Len(answer.header) \in Nat
  BY AnswerTyped DEF TypeOK
<1>2. i \in 1..Len(answer.header) /\ i # Len(answer.header)
  BY <1>1
<1>3. answer.header[i].k # "blank"
  BY <1>2, AnswerTyped
<1>4. header[i] = HeaderRow(answer.header[i])
  OBVIOUS
<1>5. Length(0).k = "clen" /\ Length(0).n = 0
  BY DEF Length, Unit
<1>. QED
  BY <1>2, <1>3, <1>4, <1>5 DEF HeaderRow

\* The blank row ends the header.
LEMMA EndsHeaderStep ==
  ASSUME IInv, EndsHeader
  PROVE  Course'
<1>. USE DEF IInv
<1>1. TypeOK /\ pc = "header" /\ Noted /\ Behind(Len(header)) /\ content = <<>>
  BY DEF EndsHeader, Course, InHeader, TypeInv, Fresh
<1>2. PICK m \in Nat : m = Len(header)
  BY <1>1 DEF TypeOK
<1>3. m < Len(answer.header) /\ Behind(m) /\ sbuf # <<>>
  BY <1>1, <1>2, RowMeansUnits DEF Noted, EndsHeader, TypeOK, BlankFirst
<1>4. /\ m + 1 = Len(answer.header)
      /\ Tail(sbuf) = Suffix(sbuf, 1) /\ 1 \in 0..Len(sbuf)
  BY <1>1, <1>3, RowOfHeader DEF EndsHeader
<1>5. /\ sbuf' = Suffix(sbuf, 1) /\ UNCHANGED <<answer, wire, content, header, chunked>>
      /\ "cut" \in causes <=> "cut" \in causes'
      /\ causes \subseteq causes'
  BY <1>4 DEF EndsHeader, conn, Blame
<1>6. /\ Behind(m + 1)' /\ Len(Left') = Len(Left) - 1
      /\ \A i \in 1..Len(Left') : Left'[i] = Left[1 + i]
  BY <1>1, <1>3, <1>4, <1>5, BehindTaken
<1>7. ContentIsHead'
  BY <1>5, ContentStays DEF Course
<1>8. CASE ~chunked
  <2>1. /\ pc' = "body" /\ size' = content_len /\ content_len' = content_len
        /\ causes' = causes \cup Blame("unread", content_len = 0 /\ answer.rest # <<>>)
    BY <1>8 DEF EndsHeader
  <2>2. Noted' /\ ~chunked'
    BY <1>1, <1>5, <1>8, <2>1 DEF Noted
  <2>3. Behind(Len(answer.header))'
    BY <1>4, <1>5, <1>6 DEF Behind
  <2>4. "unread" \notin causes' /\ size' = 0 => answer'.rest = <<>>
    BY <1>5, <2>1 DEF Blame
  <2>5. Len(header') + 1 = Len(answer'.header)
    BY <1>2, <1>4, <1>5
  <2>6. InBody'
    BY <2>1, <2>2, <2>3, <2>4, <2>5 DEF InBody
  <2>. QED
    BY <1>7, <2>1, <2>6 DEF Course, AtStart, InHeader, InChunks, LengthTrue, WholeAnswer
<1>9. CASE chunked
  <2>1. pc' = "size"
    BY <1>9 DEF EndsHeader
  <2>2. PICK t \in 1..m : answer.header[t].k = "te"
    BY <1>1, <1>2, <1>9 DEF Noted
  <2>3. t \in 1..Len(answer.header)
    BY <1>3, AnswerTyped, <1>1
  <2>4. (\A j \in 1..Len(answer.rest) : answer.rest[j].k # "clen") /\ Coded(answer.rest, answer.body)
    BY <1>1, <2>2, <2>3, OneLength
  <2>5. \A i \in 1..Len(Left') : Left'[i].k # "clen"
    <3>1. ASSUME NEW i \in 1..Len(Left')
          PROVE  Left'[i].k # "clen"
      <4>1. PICK h, r, l \in Nat : /\ h = Len(answer.header) /\ r = Len(answer.rest) /\ l = Len(Left)
                                   /\ Len(Stream) = h + r
        BY <1>1, LeftTyped, AnswerTyped
      <4>2. 1 + i \in 1..l /\ m + 1 = h
        BY <1>4, <1>6, <4>1
      <4>3. Left[1 + i] = Stream[m + (1 + i)] /\ m + l <= h + r
        BY <1>3, <4>1, <4>2 DEF Behind
      <4>4. i \in 1..r /\ m + (1 + i) = h + i
        BY <4>2, <4>3
      <4>5. Stream[h + i] = answer.rest[i]
        BY <1>1, <4>1, <4>4, AnswerTyped
      <4>. QED
        BY <1>6, <2>4, <4>1, <4>3, <4>4, <4>5
    <3>. QED
      BY <3>1
  <2>6. Len(content') = 0 /\ content' = <<>>
    BY <1>1, <1>5
  <2>7. Brought(answer.rest, 0) = 0
    <3>1. {i \in 1..0 : answer.rest[i].k \in DataKinds} = {}
      OBVIOUS
    <3>. QED
      BY <3>1, FS_EmptySet DEF Brought
  <2>8. AtSize(0)'
    <3>1. 0 < Len(answer.rest) => answer.rest[1].k = "size"
      BY <2>4 DEF Coded
    <3>. QED
      BY <1>5, <3>1 DEF AtSize
  <2>9. Behind(Len(answer.header) + 0)'
    <3>1. Len(answer.header) + 0 = m + 1
      BY <1>4
    <3>. QED
      BY <1>5, <1>6, <3>1 DEF Behind
  <2>10. InPlace(0)'
    BY <1>5, <2>1, <2>6, <2>7, <2>8, <2>9 DEF InPlace
  <2>11. 0 \in 0..Len(answer'.rest)
    BY <1>1, <1>5, AnswerTyped
  <2>12. InChunks'
    <3>1. /\ Len(header') + 1 = Len(answer'.header)
          /\ \A i \in 1..Len(header') : header'[i] = HeaderRow(answer'.header[i])
          /\ \E i \in 1..Len(header') : answer'.header[i].k = "te"
      BY <1>1, <1>2, <1>4, <1>5, <2>2 DEF Noted
    <3>. QED
      BY <2>5, <2>6, <2>10, <2>11, <3>1 DEF InChunks
  <2>. QED
    BY <1>7, <2>1, <2>12 DEF Course, AtStart, InHeader, InBody, LengthTrue, WholeAnswer
<1>. QED
  BY <1>8, <1>9

\* The header of a chunked answer gets the length of its chunks.
LEMMA ChunkedRespond ==
  ASSUME TypeOK, Len(header) < Len(answer.header),
         \A i \in 1..Len(header) : header[i] = HeaderRow(answer.header[i]),
         \E i \in 1..Len(header) : answer.header[i].k = "te",
         NEW c \in Seq(Units), \A i \in 1..Len(c) : c[i].k # "clen"
  PROVE  \A r : r = ChunkedHeader(header, Len(c)) \o c =>
           \A i \in DOMAIN r : r[i].k = "clen" => r[i].n = Len(r) - HeaderLen(r)
<1>. DEFINE g == [i \in DOMAIN header |-> IF header[i] = Length(0) THEN Length(Len(c)) ELSE header[i]]
<1>1. header \in Seq(Units) /\ Len(header) \in Nat /\ DOMAIN header = 1..Len(header) /\ Len(c) \in Nat
  BY DEF TypeOK
<1>2. Length(Len(c)) \in Units /\ Length(Len(c)).k = "clen" /\ Length(Len(c)).n = Len(c)
  BY <1>1 DEF Length, Unit, Units, Kinds, Newline
<1>3. \A i \in 1..Len(header) : header[i] \in Units
  BY <1>1
<1>4. g \in Seq(Units) /\ Len(g) = Len(header)
  <2>1. g \in [1..Len(header) -> Units]
    BY <1>1, <1>2, <1>3
  <2>. QED
    BY <1>1, <2>1
<1>5. \A i \in 1..Len(g) : g[i] = IF header[i] = Length(0) THEN Length(Len(c)) ELSE header[i]
  BY <1>1, <1>4
<1>6. PICK t \in 1..Len(header) : answer.header[t].k = "te"
  OBVIOUS
<1>. HIDE DEF g
<1>7. ASSUME NEW i \in 1..Len(g)
      PROVE  g[i].k # "blank" /\ (g[i].k = "clen" => g[i].n = Len(c))
  <2>1. i \in 1..Len(header) /\ t \in 1..Len(header)
    BY <1>4
  <2>2. /\ i \in 1..Len(answer.header) /\ header[i].k # "blank"
        /\ answer.header[i].k = "te" => header[i] = Length(0)
        /\ answer.header[i].k # "te" => header[i] = answer.header[i]
    BY <2>1, NotedRows
  <2>3. t \in 1..Len(answer.header)
    BY <2>1, NotedRows
  <2>4. answer.header[i].k = "clen" => i = t
    BY <1>6, <2>2, <2>3, OneLength
  <2>5. CASE header[i] = Length(0)
    BY <1>2, <1>5, <2>5
  <2>6. CASE header[i] # Length(0)
    <3>1. g[i] = header[i] /\ header[i] = answer.header[i]
      BY <1>5, <2>2, <2>6
    <3>2. header[i].k # "clen"
      BY <1>6, <2>2, <2>4, <3>1
    <3>. QED
      BY <2>2, <3>1, <3>2
  <2>. QED
    BY <2>5, <2>6
<1>8. \A r : r = Append(g, Blank) \o c =>
        \A i \in DOMAIN r : r[i].k = "clen" => r[i].n = Len(r) - HeaderLen(r)
  BY <1>4, <1>7, RespondLength
<1>. QED
  BY <1>8 DEF ChunkedHeader, g

\* An answer that ends in its header is one without content.
LEMMA HeaderCutStep ==
  ASSUME IInv, HeaderCut
  PROVE  Course'
<1>. USE DEF IInv
<1>1. TypeOK /\ pc = "header" /\ Noted /\ Behind(Len(header)) /\ wire = <<>> /\ ~HasRow(sbuf)
  BY DEF HeaderCut, Course, InHeader, TypeInv
<1>2. PICK m \in Nat : m = Len(header)
  BY <1>1 DEF TypeOK
<1>3. /\ pc' = IF chunked \/ content_len = 0 THEN "put" ELSE "gone"
      /\ respond' = IF chunked THEN ChunkedHeader(header, 0) ELSE Append(header, Blank)
      /\ UNCHANGED <<answer, content, causes>>
  BY DEF HeaderCut, conn
<1>4. ContentIsHead'
  BY <1>3, ContentStays DEF Course
<1>5. "cut" \in causes
  <2>1. SUFFICES ASSUME "cut" \notin causes PROVE FALSE
    OBVIOUS
  <2>2. m + Len(Left) = Len(Stream) /\ m < Len(answer.header)
    BY <1>1, <1>2, <2>1 DEF Behind, Noted
  <2>3. sbuf # <<>>
    <3>1. PICK h, r, l \in Nat :
            h = Len(answer.header) /\ r = Len(answer.rest) /\ Len(Stream) = h + r /\ l = Len(sbuf)
      BY <1>1, AnswerTyped, LeftTyped
    <3>2. Len(Left) = l
      <4>1. Len(Left) = l + Len(wire) /\ Len(wire) = 0
        BY <1>1, <3>1, LeftTyped
      <4>. QED
        BY <4>1
    <3>3. m + l = h + r /\ m < h
      BY <2>2, <3>1, <3>2
    <3>4. l # 0
      BY <3>3
    <3>. QED
      BY <3>1, <3>4
  <2>. QED
    BY <1>1, <1>2, <2>2, <2>3, RowOfHeader
<1>6. WholeAnswer'
  BY <1>3, <1>5 DEF WholeAnswer
<1>7. PICK c \in Seq(Units) : c = <<>> /\ Len(c) = 0 /\ header \in Seq(Units)
  BY <1>1 DEF TypeOK
<1>8. Len(header) < Len(answer.header) /\ \A i \in 1..Len(header) : header[i] = HeaderRow(answer.header[i])
  BY <1>1 DEF Noted
<1>9. LengthTrue'
  <2>1. CASE chunked
    <3>1. ChunkedHeader(header, Len(c)) \in Seq(Units)
      BY <1>7, ChunkedHeaderTyped
    <3>2. respond' = ChunkedHeader(header, Len(c)) \o c
      <4>1. ChunkedHeader(header, Len(c)) \o <<>> = ChunkedHeader(header, Len(c))
        BY <3>1, ConcatEmptySeq
      <4>. QED
        BY <1>3, <1>7, <2>1, <4>1
    <3>3. \E i \in 1..Len(header) : answer.header[i].k = "te"
      BY <1>1, <2>1 DEF Noted
    <3>4. \A r : r = ChunkedHeader(header, Len(c)) \o c =>
            \A i \in DOMAIN r : r[i].k = "clen" => r[i].n = Len(r) - HeaderLen(r)
      <4>1. \A i \in 1..Len(c) : c[i].k # "clen"
        BY <1>7
      <4>. QED
        BY <1>1, <1>8, <3>3, <4>1, ChunkedRespond
    <3>. QED
      BY <3>2, <3>4 DEF LengthTrue, HeaderLen
  <2>2. CASE ~chunked /\ content_len = 0
    <3>1. Append(header, Blank) \in Seq(Units)
      BY <1>7 DEF Blank, Unit, Units, Kinds, Newline
    <3>2. respond' = Append(header, Blank) \o c
      <4>1. Append(header, Blank) \o <<>> = Append(header, Blank)
        BY <3>1, ConcatEmptySeq
      <4>. QED
        BY <1>3, <1>7, <2>2, <4>1
    <3>3. ASSUME NEW i \in 1..Len(header)
          PROVE  header[i].k # "blank" /\ (header[i].k = "clen" => header[i].n = Len(c))
      <4>1. answer.header[i].k # "te" /\ (answer.header[i].k = "clen" => answer.header[i].n = 0)
        BY <1>1, <2>2 DEF Noted
      <4>. QED
        BY <1>1, <1>7, <1>8, <4>1, NotedRows
    <3>4. \A r : r = Append(header, Blank) \o c =>
            \A i \in DOMAIN r : r[i].k = "clen" => r[i].n = Len(r) - HeaderLen(r)
      <4>1. \A i \in 1..Len(c) : c[i].k # "clen"
        BY <1>7
      <4>. QED
        BY <1>7, <3>3, <4>1, RespondLength
    <3>. QED
      BY <3>2, <3>4 DEF LengthTrue, HeaderLen
  <2>3. CASE ~chunked /\ content_len # 0
    BY <1>3, <2>3 DEF LengthTrue
  <2>. QED
    BY <2>1, <2>2, <2>3
<1>. QED
  BY <1>3, <1>4, <1>6, <1>9 DEF Course, AtStart, InHeader, InBody, InChunks

-----------------------------------------------------------------------------
(* A content of a length that the header says.                               *)

\* The header without a coding is passed on as it was sent.
LEMMA PlainRows ==
  ASSUME TypeOK, Noted, ~chunked, NEW i \in 1..Len(header)
  PROVE  /\ header[i] = answer.header[i] /\ header[i].k \notin {"te", "blank"}
         /\ header[i].k = "clen" => header[i].n = content_len
<1>1. answer.header[i].k # "te"
  BY DEF Noted
<1>2. header[i] = answer.header[i] /\ header[i].k # "blank"
  BY <1>1, NotedRows DEF Noted
<1>. QED
  BY <1>1, <1>2 DEF Noted

\* So what is passed on is as long as it says, with as many units behind it.
LEMMA PlainLength ==
  ASSUME TypeOK, Noted, ~chunked, NEW c \in Seq(Units), Len(c) = content_len,
         \A i \in 1..Len(c) : c[i].k # "clen"
  PROVE  \A r : r = Append(header, Blank) \o c =>
           \A i \in DOMAIN r : r[i].k = "clen" => r[i].n = Len(r) - HeaderLen(r)
<1>1. header \in Seq(Units)
  BY DEF TypeOK
<1>2. \A i \in 1..Len(header) : header[i].k # "blank" /\ (header[i].k = "clen" => header[i].n = Len(c))
  BY PlainRows
<1>. QED
  BY <1>1, <1>2, RespondLength

\* With the body behind it, it is the answer.
LEMMA PlainWhole ==
  ASSUME TypeOK, Noted, ~chunked, Len(header) + 1 = Len(answer.header)
  PROVE  Append(header, Blank) \o answer.body = Expected(answer)
<1>. DEFINE g == Append(header, Blank)
            e == [i \in DOMAIN answer.header |->
                    IF answer.header[i].k = "te" THEN Length(Len(answer.body)) ELSE answer.header[i]]
<1>1. /\ header \in Seq(Units) /\ Len(header) \in Nat /\ Blank \in Units /\ Blank.k = "blank"
      /\ answer.header \in Seq(Units) /\ DOMAIN answer.header = 1..Len(header) + 1
      /\ answer.header[Len(header) + 1] = Blank
  <2>1. header \in Seq(Units) /\ Len(header) \in Nat
    BY DEF TypeOK
  <2>2. Blank \in Units /\ Blank.k = "blank"
    BY DEF Blank, Unit, Units, Kinds, Newline
  <2>3. /\ answer.header \in Seq(Units) /\ answer.header[Len(answer.header)] = Blank
        /\ Len(header) + 1 = Len(answer.header)
    BY AnswerTyped
  <2>. QED
    BY <2>1, <2>2, <2>3
<1>2. \A i \in 1..Len(header) : header[i] = answer.header[i] /\ answer.header[i].k # "te"
  BY PlainRows
<1>3. \A i \in 1..Len(header) + 1 : e[i] = answer.header[i]
  BY <1>1, <1>2
<1>4. e = answer.header
  <2>1. answer.header = [i \in 1..Len(header) + 1 |-> answer.header[i]]
    BY <1>1
  <2>. QED
    BY <1>1, <1>3, <2>1
<1>. HIDE DEF e
<1>5. g \in Seq(Units) /\ Len(g) = Len(header) + 1 /\ \A i \in 1..Len(header) + 1 : g[i] = answer.header[i]
  BY <1>1, <1>2
<1>6. g = answer.header
  BY <1>1, <1>5, SeqEqual
<1>. QED
  BY <1>4, <1>6 DEF Expected, e

\* The body is there.
LEMMA TakesBodyStep ==
  ASSUME IInv, TypeInv', TakesBody
  PROVE  Course'
<1>. USE DEF IInv
<1>1. /\ TypeOK /\ Noted /\ ~chunked /\ Len(header) + 1 = Len(answer.header)
      /\ Behind(Len(answer.header)) /\ size = content_len
      /\ "unread" \notin causes /\ size = 0 => answer.rest = <<>>
  BY DEF TakesBody, Course, InBody, TypeInv
<1>2. /\ pc' = "put" /\ content' = Prefix(sbuf, size) /\ respond' = Append(header, Blank) \o content'
      /\ Len(sbuf) >= size /\ UNCHANGED <<answer, causes>>
  BY DEF TakesBody, Block, conn
<1>3. PICK c : c = content'
  OBVIOUS
<1>4. /\ sbuf \in Seq(Units) /\ header \in Seq(Units) /\ size \in Nat /\ Len(sbuf) \in Nat
      /\ answer.rest \in Seq(Units) /\ answer.body \in Seq(Units)
      /\ Len(answer.rest) \in Nat /\ Len(answer.header) \in Nat /\ Len(header) \in Nat
  <2>1. sbuf \in Seq(Units) /\ header \in Seq(Units) /\ size \in Nat /\ Len(sbuf) \in Nat /\ Len(header) \in Nat
    BY <1>1 DEF TypeOK
  <2>2. /\ answer.rest \in Seq(Units) /\ answer.body \in Seq(Units)
        /\ Len(answer.rest) \in Nat /\ Len(answer.header) \in Nat
    BY <1>1, AnswerTyped
  <2>. QED
    BY <2>1, <2>2
<1>5. c \in Seq(Units) /\ Len(c) = size /\ \A i \in 1..size : c[i] = sbuf[i]
  <2>1. sbuf \in Seq(Units) /\ size \in 0..Len(sbuf)
    BY <1>2, <1>4
  <2>2. /\ Prefix(sbuf, size) \in Seq(Units) /\ Len(Prefix(sbuf, size)) = size
        /\ \A i \in 1..size : Prefix(sbuf, size)[i] = sbuf[i]
    BY <2>1, Cuts
  <2>. QED
    BY <1>2, <1>3, <2>2
<1>6. /\ Len(Left) \in Nat /\ Len(Left) <= Len(answer.rest) /\ Len(sbuf) <= Len(Left)
      /\ \A i \in 1..Len(sbuf) : Left[i] = sbuf[i]
      /\ \A i \in 1..Len(Left) : Left[i] = answer.rest[i]
      /\ "cut" \notin causes => Len(Left) = Len(answer.rest)
  <2>1. Behind(Len(answer.header) + 0)
    BY <1>1, <1>4
  <2>2. /\ Len(Left) \in Nat /\ 0 + Len(Left) <= Len(answer.rest)
        /\ \A i \in 1..Len(Left) : Left[i] = answer.rest[0 + i]
        /\ "cut" \notin causes => 0 + Len(Left) = Len(answer.rest)
    BY <1>1, <2>1, LeftOfRest
  <2>3. \A i \in 1..Len(Left) : 0 + i = i
    OBVIOUS
  <2>4. /\ Len(Left) = Len(sbuf) + Len(wire) /\ Len(wire) \in Nat
        /\ \A i \in 1..Len(sbuf) : Left[i] = sbuf[i]
    BY <1>1, LeftTyped
  <2>. QED
    BY <1>4, <2>2, <2>3, <2>4
<1>7. \A i \in 1..size : c[i] = answer.rest[i] /\ i \in 1..Len(answer.rest)
  <2>1. \A i \in 1..size : i \in 1..Len(sbuf) /\ i \in 1..Len(Left) /\ i \in 1..Len(answer.rest)
    BY <1>2, <1>4, <1>6
  <2>. QED
    BY <1>5, <1>6, <2>1
<1>8. CASE \E i \in 1..Len(header) : answer.header[i].k = "clen"
  <2>1. PICK i \in 1..Len(header) : answer.header[i].k = "clen"
    BY <1>8
  <2>2. i \in 1..Len(answer.header)
    BY <1>1, <1>4
  <2>3. answer.header[i].n = size /\ size <= Len(answer.rest)
    BY <1>1, <1>2, <1>4, <1>6, <2>1 DEF Noted
  <2>4. /\ \A j \in 1..Len(answer.rest) : answer.rest[j].k # "clen"
        /\ answer.body = Prefix(answer.rest, size)
        /\ \A j \in 1..Len(answer.header) : answer.header[j].k \in {"clen", "te"} => j = i
    BY <1>1, <2>1, <2>2, <2>3, OneLength
  <2>5. c = answer.body
    <3>1. size \in 0..Len(answer.rest)
      BY <1>4, <2>3
    <3>2. /\ Len(answer.body) = size /\ \A j \in 1..size : answer.body[j] = answer.rest[j]
      <4>1. /\ Len(Prefix(answer.rest, size)) = size
            /\ \A j \in 1..size : Prefix(answer.rest, size)[j] = answer.rest[j]
        BY <1>4, <3>1, Cuts
      <4>. QED
        BY <2>4, <4>1
    <3>3. \A j \in 1..Len(c) : c[j] = answer.body[j]
      BY <1>5, <1>7, <3>2
    <3>. QED
      BY <1>4, <1>5, <3>2, <3>3, SeqEqual
  <2>6. \A j \in 1..Len(c) : c[j].k # "clen"
    BY <1>5, <1>7, <2>4
  <2>7. Prefix(answer.body, Len(c)) = answer.body
    BY <1>4, <2>5, SubSeqFull DEF Prefix
  <2>. QED
    <3>1. LengthTrue'
      <4>1. \A r : r = Append(header, Blank) \o c =>
              \A j \in DOMAIN r : r[j].k = "clen" => r[j].n = Len(r) - HeaderLen(r)
        BY <1>1, <1>5, <2>6, PlainLength
      <4>2. respond' = Append(header, Blank) \o c
        BY <1>2, <1>3
      <4>. QED
        BY <4>1, <4>2 DEF LengthTrue, HeaderLen
    <3>2. ContentIsHead'
      BY <1>2, <1>3, <2>5, <2>7 DEF ContentIsHead
    <3>3. WholeAnswer'
      BY <1>1, <1>2, <1>3, <2>5, PlainWhole DEF WholeAnswer
    <3>. QED
      BY <1>2, <3>1, <3>2, <3>3 DEF Course, AtStart, InHeader, InBody, InChunks
<1>9. CASE \A i \in 1..Len(header) : answer.header[i].k # "clen"
  <2>1. size = 0 /\ c = <<>>
    BY <1>1, <1>5, <1>9 DEF Noted
  <2>2. causes = {} => answer.body = <<>>
    <3>1. SUFFICES ASSUME causes = {} PROVE answer.body = <<>>
      OBVIOUS
    <3>2. answer.rest = <<>>
      BY <1>1, <2>1, <3>1
    <3>3. \A i \in 1..Len(answer.header) : answer.header[i].k \notin {"clen", "te"}
      <4>1. ASSUME NEW i \in 1..Len(answer.header)
            PROVE  answer.header[i].k \notin {"clen", "te"}
        <5>1. CASE i = Len(answer.header)
          BY <1>1, <5>1, AnswerTyped
        <5>2. CASE i # Len(answer.header)
          <6>1. i \in 1..Len(header)
            BY <1>1, <1>4, <5>2
          <6>2. header[i] = answer.header[i] /\ header[i].k \notin {"te", "blank"}
            BY <1>1, <6>1, PlainRows
          <6>. QED
            BY <1>9, <6>1, <6>2
        <5>. QED
          BY <5>1, <5>2
      <4>. QED
        BY <4>1
    <3>. QED
      BY <1>1, <3>2, <3>3, NoLength
  <2>3. \A j \in 1..Len(c) : c[j].k # "clen"
    BY <2>1
  <2>4. Prefix(answer.body, 0) = <<>>
    <3>1. 0 \in 0..Len(answer.body)
      BY <1>4
    <3>2. Prefix(answer.body, 0) \in Seq(Units) /\ Len(Prefix(answer.body, 0)) = 0
      BY <1>4, <3>1, Cuts
    <3>. QED
      BY <3>2
  <2>5. LengthTrue'
    <3>1. \A r : r = Append(header, Blank) \o c =>
            \A j \in DOMAIN r : r[j].k = "clen" => r[j].n = Len(r) - HeaderLen(r)
      BY <1>1, <1>5, <2>3, PlainLength
    <3>2. respond' = Append(header, Blank) \o c
      BY <1>2, <1>3
    <3>. QED
      BY <3>1, <3>2 DEF LengthTrue, HeaderLen
  <2>6. ContentIsHead'
    <3>1. Len(c) = 0
      BY <2>1
    <3>. QED
      BY <1>2, <1>3, <2>1, <2>4, <3>1 DEF ContentIsHead
  <2>7. WholeAnswer'
    BY <1>1, <1>2, <1>3, <2>1, <2>2, PlainWhole DEF WholeAnswer
  <2>. QED
    BY <1>2, <2>5, <2>6, <2>7 DEF Course, AtStart, InHeader, InBody, InChunks
<1>. QED
  BY <1>8, <1>9

\* What a short read copied from a freed block is as long as it should be.
LEMMA UsesFreedRowStep ==
  ASSUME IInv, UsesFreedRow
  PROVE  Course'
<1>. USE DEF IInv
<1>1. TypeOK /\ Noted /\ ~chunked /\ size = content_len
  BY DEF UsesFreedRow, Course, InBody, TypeInv
<1>2. "short" \in causes' /\ pc' \in {"gone", "put"}
  BY DEF UsesFreedRow
<1>3. ContentIsHead' /\ WholeAnswer'
  BY <1>2 DEF ContentIsHead, WholeAnswer
<1>4. LengthTrue'
  <2>1. CASE pc' = "gone"
    BY <2>1 DEF LengthTrue
  <2>2. CASE pc' = "put"
    <3>1. respond' = Append(header, Blank) \o Junk(size)
      BY <2>2 DEF UsesFreedRow
    <3>2. size \in Nat /\ Unit("junk", None, 0) \in Units /\ Unit("junk", None, 0).k = "junk"
      BY <1>1 DEF TypeOK, Unit, Units, Kinds
    <3>3. Junk(size) \in Seq(Units) /\ Len(Junk(size)) = size /\ \A i \in 1..size : Junk(size)[i].k # "clen"
      BY <3>2 DEF Junk
    <3>4. \A r : r = Append(header, Blank) \o Junk(size) =>
            \A j \in DOMAIN r : r[j].k = "clen" => r[j].n = Len(r) - HeaderLen(r)
      BY <1>1, <3>3, PlainLength
    <3>. QED
      BY <3>1, <3>4 DEF LengthTrue, HeaderLen
  <2>. QED
    BY <1>2, <2>1, <2>2
<1>. QED
  BY <1>2, <1>3, <1>4 DEF Course, AtStart, InHeader, InBody, InChunks

-----------------------------------------------------------------------------
(* Chunks.                                                                   *)

\* What some units bring is a number, and more units bring no less.
LEMMA BroughtGrows ==
  ASSUME NEW s, NEW m \in Nat, NEW n \in Nat, m <= n
  PROVE  Brought(s, m) \in Nat /\ Brought(s, n) \in Nat /\ Brought(s, m) <= Brought(s, n)
<1>. DEFINE A == {i \in 1..m : s[i].k \in DataKinds}
            B == {i \in 1..n : s[i].k \in DataKinds}
<1>1. IsFiniteSet(1..n) /\ 1..m \subseteq 1..n
  BY FS_Interval
<1>2. B \subseteq 1..n /\ A \subseteq B
  BY <1>1
<1>. HIDE DEF A, B
<1>3. IsFiniteSet(B)
  BY <1>1, <1>2, FS_Subset
<1>4. IsFiniteSet(A) /\ Cardinality(A) <= Cardinality(B)
  BY <1>2, <1>3, FS_Subset
<1>5. Cardinality(A) \in Nat /\ Cardinality(B) \in Nat
  BY <1>3, <1>4, FS_CardinalityType
<1>. QED
  BY <1>4, <1>5 DEF Brought, A, B

\* Units that are no data bring nothing.
LEMMA BroughtNothing ==
  ASSUME NEW s, NEW m \in Nat, NEW n \in Nat, m <= n,
         \A i \in m + 1..n : s[i].k \notin DataKinds
  PROVE  Brought(s, n) = Brought(s, m)
<1>1. \A i \in 1..n : i \in 1..m \/ i \in m + 1..n
  OBVIOUS
<1>2. \A i \in 1..m : i \in 1..n
  OBVIOUS
<1>3. {i \in 1..n : s[i].k \in DataKinds} = {i \in 1..m : s[i].k \in DataKinds}
  BY <1>1, <1>2
<1>. QED
  BY <1>3 DEF Brought

\* Units of data bring as many.
LEMMA BroughtData ==
  ASSUME NEW s, NEW m \in Nat, NEW n \in Nat,
         \A i \in 1..n : s[m + i].k \in DataKinds
  PROVE  Brought(s, m + n) = Brought(s, m) + n
<1>. DEFINE A == {i \in 1..m : s[i].k \in DataKinds}
            B == {i \in 1..m + n : s[i].k \in DataKinds}
            C == m + 1..m + n
<1>1. IsFiniteSet(1..m) /\ A \subseteq 1..m
  BY FS_Interval
<1>2. IsFiniteSet(A)
  BY <1>1, FS_Subset
<1>3. IsFiniteSet(C) /\ Cardinality(C) = n
  <2>1. m + 1 \in Int /\ m + n \in Int
    OBVIOUS
  <2>2. /\ IsFiniteSet(m + 1..m + n)
        /\ Cardinality(m + 1..m + n) = IF m + 1 > m + n THEN 0 ELSE m + n - (m + 1) + 1
    BY <2>1, FS_Interval
  <2>. QED
    BY <2>2
<1>4. A \cap C = {}
  OBVIOUS
<1>5. B = A \cup C
  <2>1. ASSUME NEW i \in C
        PROVE  i \in B
    <3>1. i - m \in 1..n /\ m + (i - m) = i /\ i \in 1..m + n
      OBVIOUS
    <3>2. s[m + (i - m)].k \in DataKinds
      BY <3>1
    <3>. QED
      BY <3>1, <3>2
  <2>2. \A i \in 1..m + n : i \in 1..m \/ i \in C
    OBVIOUS
  <2>3. \A i \in 1..m : i \in 1..m + n
    OBVIOUS
  <2>. QED
    BY <2>1, <2>2, <2>3
<1>. HIDE DEF A, B, C
<1>6. Cardinality(A \cup C) = Cardinality(A) + Cardinality(C) - Cardinality(A \cap C)
  BY <1>2, <1>3, FS_Union
<1>7. Cardinality({}) = 0 /\ Cardinality(A) \in Nat
  BY <1>2, FS_EmptySet, FS_CardinalityType
<1>8. Cardinality(B) = Cardinality(A) + n
  <2>1. Cardinality(A \cap C) = 0 /\ Cardinality(B) = Cardinality(A \cup C)
    BY <1>4, <1>5, <1>7
  <2>2. Cardinality(B) = Cardinality(A) + n - 0
    BY <1>3, <1>6, <2>1
  <2>. QED
    BY <1>7, <2>2
<1>. QED
  BY <1>8 DEF Brought, A, B

\* What the code of a chunk says about the units around it.
LEMMA ChunkRead ==
  ASSUME NEW rest \in Seq(Units), NEW body, Coded(rest, body), NEW k \in 1..Len(rest),
         rest[k].k = "size", NEW n \in Nat, n = rest[k].n, n > 0
  PROVE  /\ \A i \in 1..n : k + i \in 1..Len(rest) => rest[k + i].k \in DataKinds
         /\ k + n + 1 \in 1..Len(rest) => rest[k + n + 1].k = "crlf"
         /\ k + n + 2 \in 1..Len(rest) => rest[k + n + 2].k = "size"
<1>1. DOMAIN rest = 1..Len(rest) /\ Len(rest) \in Nat
  OBVIOUS
<1>2. \A j \in 1..Len(rest) : j > k =>
        /\ j <= k + n => rest[j].k \in DataKinds
        /\ j = k + n + 1 => rest[j].k = "crlf"
        /\ j = k + n + 2 => rest[j].k = "size"
  BY <1>1 DEF Coded
<1>3. ASSUME NEW i \in 1..n, k + i \in 1..Len(rest)
      PROVE  rest[k + i].k \in DataKinds
  <2>1. k + i > k /\ k + i <= k + n
    OBVIOUS
  <2>. QED
    BY <1>2, <1>3, <2>1
<1>4. k + n + 1 > k /\ k + n + 2 > k
  OBVIOUS
<1>. QED
  BY <1>2, <1>3, <1>4

\* A chunk of data brings the next units of the body.
LEMMA ChunkBrings ==
  ASSUME NEW rest \in Seq(Units), NEW body \in Seq(Units), Coded(rest, body), NEW k \in 1..Len(rest),
         NEW n \in Nat, k + n <= Len(rest), \A i \in 1..n : rest[k + i].k \in DataKinds
  PROVE  /\ Brought(rest, k) \in Nat /\ Brought(rest, k) + n <= Len(body)
         /\ \A i \in 1..n : body[Brought(rest, k) + i] = rest[k + i]
<1>1. k \in Nat /\ Len(rest) \in Nat /\ k + n \in Nat /\ DOMAIN rest = 1..Len(rest)
  OBVIOUS
<1>2. Brought(rest, k) \in Nat
  BY <1>1, BroughtGrows
<1>3. Brought(rest, k + n) = Brought(rest, k) + n
  BY <1>1, BroughtData
<1>4. Brought(rest, k + n) <= Brought(rest, Len(rest))
  BY <1>1, BroughtGrows
<1>5. Len(body) = Brought(rest, Len(rest))
  BY DEF Coded
<1>6. ASSUME NEW i \in 1..n
      PROVE  body[Brought(rest, k) + i] = rest[k + i]
  <2>1. i \in Nat /\ k + i \in 1..Len(rest) /\ \A j \in 1..i : j \in 1..n
    BY <1>1
  <2>2. Brought(rest, k + i) = Brought(rest, k) + i
    BY <1>1, <2>1, BroughtData
  <2>3. body[Brought(rest, k + i)] = rest[k + i]
    BY <1>1, <2>1 DEF Coded
  <2>. QED
    BY <2>2, <2>3
<1>. QED
  BY <1>2, <1>3, <1>4, <1>5, <1>6

\* Where a size may come, the row at the head of the buffer is the size, or a
\* blank row before it.
LEMMA RowOfChunks ==
  ASSUME TypeOK, pc = "size", NEW k \in 0..Len(answer.rest), InPlace(k), sbuf # <<>>
  PROVE  /\ k + 1 \in 1..Len(answer.rest) /\ sbuf[1] = answer.rest[k + 1] /\ HasRow(sbuf)
         /\ sbuf[1].k \in {"size", "crlf"}
         /\ BlankFirst(sbuf) <=> sbuf[1].k = "crlf"
         /\ Len(Row(sbuf)) = 1 /\ Row(sbuf)[1] = sbuf[1]
<1>1. sbuf \in Seq(Units) /\ Len(sbuf) \in Nat /\ 1 \in 1..Len(sbuf)
  BY DEF TypeOK
<1>2. PICK r \in Nat : r = Len(answer.rest)
  BY AnswerTyped
<1>3. k \in Nat /\ k \in 0..r
  BY <1>2
<1>4. Behind(Len(answer.header) + k)
  BY DEF InPlace
<1>5. Left[1] = sbuf[1] /\ 1 \in 1..Len(Left)
  BY <1>1, LeftTyped
<1>6. k + 1 \in 1..r /\ sbuf[1] = answer.rest[k + 1]
  BY <1>2, <1>3, <1>4, <1>5, LeftOfRest
<1>7. sbuf[1].k \in {"size", "crlf"}
  BY <1>2, <1>3, <1>6 DEF InPlace, AtSize
<1>8. sbuf[1].k \in Newline /\ (BlankRow(sbuf[1]) <=> sbuf[1].k = "crlf")
  BY <1>7 DEF Newline, BlankRow
<1>. QED
  BY <1>1, <1>2, <1>6, <1>7, <1>8, RowFirst

\* With all of the body behind it, the header that got its length is the answer.
LEMMA ChunkedWhole ==
  ASSUME TypeOK, Len(header) + 1 = Len(answer.header),
         \A i \in 1..Len(header) : header[i] = HeaderRow(answer.header[i]),
         \E i \in 1..Len(header) : answer.header[i].k = "te"
  PROVE  ChunkedHeader(header, Len(answer.body)) \o answer.body = Expected(answer)
<1>. DEFINE g == [i \in DOMAIN header |->
                    IF header[i] = Length(0) THEN Length(Len(answer.body)) ELSE header[i]]
            e == [i \in DOMAIN answer.header |->
                    IF answer.header[i].k = "te" THEN Length(Len(answer.body)) ELSE answer.header[i]]
<1>1. PICK m \in Nat : m = Len(header) /\ header \in Seq(Units) /\ DOMAIN header = 1..m
  BY DEF TypeOK
<1>2. /\ answer.header \in Seq(Units) /\ answer.body \in Seq(Units) /\ DOMAIN answer.header = 1..m + 1
      /\ answer.header[m + 1] = Blank
  BY <1>1, AnswerTyped
<1>3. Blank \in Units /\ Blank.k = "blank" /\ Length(Len(answer.body)) \in Units
  BY <1>2 DEF Blank, Length, Unit, Units, Kinds, Newline
<1>4. PICK t \in 1..m : answer.header[t].k = "te"
  BY <1>1
<1>5. ASSUME NEW i \in 1..m
      PROVE  g[i] = e[i]
  <2>1. m < Len(answer.header)
    BY <1>1
  <2>2. /\ i \in 1..Len(answer.header)
        /\ answer.header[i].k = "te" => header[i] = Length(0)
        /\ answer.header[i].k # "te" => header[i] = answer.header[i]
        /\ Length(0).k = "clen"
    BY <1>1, <2>1, NotedRows
  <2>3. t \in 1..Len(answer.header)
    BY <1>1, <2>1, NotedRows
  <2>4. answer.header[i].k = "clen" => i = t
    BY <1>4, <2>2, <2>3, OneLength
  <2>5. i \in DOMAIN header /\ i \in DOMAIN answer.header
    BY <1>1, <1>2
  <2>6. CASE answer.header[i].k = "te"
    BY <2>2, <2>5, <2>6
  <2>7. CASE answer.header[i].k # "te"
    <3>1. header[i] # Length(0)
      BY <1>4, <2>2, <2>4, <2>7
    <3>. QED
      BY <2>2, <2>5, <2>7, <3>1
  <2>. QED
    BY <2>6, <2>7
<1>6. g \in Seq(Units) /\ Len(g) = m
  <2>1. \A i \in 1..m : header[i] \in Units
    BY <1>1
  <2>2. g \in [1..m -> Units]
    BY <1>1, <1>3, <2>1
  <2>. QED
    BY <1>1, <2>2
<1>7. e \in Seq(Units) /\ Len(e) = m + 1
  <2>1. \A i \in 1..m + 1 : answer.header[i] \in Units
    BY <1>2
  <2>2. e \in [1..m + 1 -> Units]
    BY <1>2, <1>3, <2>1
  <2>3. m + 1 \in Nat
    BY <1>1
  <2>. HIDE DEF e
  <2>. QED
    BY <2>2, <2>3
<1>8. e[m + 1] = Blank
  BY <1>2, <1>3
<1>. HIDE DEF g, e
<1>9. Append(g, Blank) = e
  <2>1. /\ Append(g, Blank) \in Seq(Units) /\ Len(Append(g, Blank)) = m + 1
        /\ \A i \in 1..m : Append(g, Blank)[i] = g[i]
        /\ Append(g, Blank)[m + 1] = Blank
    BY <1>3, <1>6
  <2>2. \A i \in 1..m + 1 : i \in 1..m \/ i = m + 1
    BY <1>1
  <2>3. \A i \in 1..m + 1 : Append(g, Blank)[i] = e[i]
    BY <1>5, <1>8, <2>1, <2>2
  <2>. QED
    BY <1>7, <2>1, <2>3, SeqEqual
<1>. QED
  BY <1>9 DEF ChunkedHeader, Expected, g, e

\* The facts about an answer in chunks that no step between them changes.
LEMMA ChunksCoded ==
  ASSUME TypeOK, Len(header) + 1 = Len(answer.header),
         \E i \in 1..Len(header) : answer.header[i].k = "te"
  PROVE  /\ Coded(answer.rest, answer.body)
         /\ answer.rest \in Seq(Units) /\ answer.body \in Seq(Units)
<1>1. PICK t \in 1..Len(header) : answer.header[t].k = "te"
  OBVIOUS
<1>2. t \in 1..Len(answer.header)
  <2>1. Len(header) \in Nat
    BY DEF TypeOK
  <2>. QED
    BY <2>1
<1>. QED
  BY <1>1, <1>2, OneLength, AnswerTyped

\* A blank row between chunks is skipped.
LEMMA SkipsBlankRowStep ==
  ASSUME IInv, SkipsBlankRow
  PROVE  Course'
<1>. USE DEF IInv
<1>1. TypeOK /\ pc = "size" /\ InChunks
  BY DEF SkipsBlankRow, Course, TypeInv
<1>2. sbuf \in Seq(Units) /\ sbuf # <<>>
  BY <1>1, RowMeansUnits DEF SkipsBlankRow, BlankFirst, TypeOK
<1>3. Tail(sbuf) = Suffix(sbuf, 1) /\ 1 \in 0..Len(sbuf)
  BY <1>2, TailCuts
<1>4. /\ sbuf' = Suffix(sbuf, 1) /\ pc' = "size"
      /\ UNCHANGED <<answer, wire, header, content, respond, causes>>
  BY <1>3 DEF SkipsBlankRow, conn, coding
<1>5. \A i \in 1..Len(Left') : Left'[i].k # "clen"
  <2>1. \A i \in 1..Len(Left) : Left[i].k # "clen"
    BY <1>1 DEF InChunks
  <2>. QED
    BY <1>1, <1>3, <1>4, <2>1, LeftTaken
<1>6. ASSUME "surplus" \notin causes'
      PROVE  \E k \in 0..Len(answer'.rest) : InPlace(k)'
  <2>1. PICK k \in 0..Len(answer.rest) : InPlace(k)
    BY <1>1, <1>4, <1>6 DEF InChunks
  <2>2. PICK r \in Nat : r = Len(answer.rest)
    BY <1>1, AnswerTyped
  <2>3. k \in Nat
    BY <2>2
  <2>4. /\ k + 1 \in 1..r /\ sbuf[1] = answer.rest[k + 1] /\ sbuf[1].k = "crlf"
    BY <1>1, <1>2, <2>1, <2>2, RowOfChunks DEF SkipsBlankRow
  <2>5. PICK h \in Nat : h = Len(answer.header)
    BY <1>1, AnswerTyped
  <2>6. Behind(h + k)
    BY <2>1, <2>5 DEF InPlace
  <2>7. Behind((h + k) + 1)'
    BY <1>1, <1>3, <1>4, <2>3, <2>6, BehindTaken
  <2>8. Behind(Len(answer.header) + (k + 1))'
    <3>1. (h + k) + 1 = h + (k + 1)
      BY <2>3
    <3>. QED
      BY <1>4, <2>5, <2>7, <3>1 DEF Behind
  <2>9. Brought(answer.rest, k + 1) = Brought(answer.rest, k)
    <3>1. \A i \in k + 1..k + 1 : i = k + 1
      BY <2>3
    <3>2. answer.rest[k + 1].k \notin DataKinds
      BY <2>4 DEF DataKinds
    <3>3. k <= k + 1 /\ k + 1 \in Nat
      BY <2>3
    <3>. QED
      BY <2>3, <3>1, <3>2, <3>3, BroughtNothing
  <2>10. Len(content') = Brought(answer'.rest, k + 1)
    BY <1>4, <2>1, <2>9 DEF InPlace
  <2>11. AtSize(k + 1)'
    <3>1. k + 1 < r => answer.rest[k + 2].k = "size"
      BY <1>1, <2>1, <2>2, <2>3, <2>4 DEF InPlace, AtSize
    <3>2. k + 2 = (k + 1) + 1
      BY <2>3
    <3>. QED
      BY <1>4, <2>2, <3>1, <3>2 DEF AtSize
  <2>12. InPlace(k + 1)'
    BY <1>4, <2>8, <2>10, <2>11 DEF InPlace
  <2>13. k + 1 \in 0..Len(answer'.rest)
    BY <1>4, <2>2, <2>4
  <2>. QED
    BY <2>12, <2>13
<1>7. InChunks'
  BY <1>1, <1>4, <1>5, <1>6 DEF InChunks
<1>8. ContentIsHead'
  BY <1>4, ContentStays DEF Course
<1>. QED
  BY <1>4, <1>7, <1>8 DEF Course, AtStart, InHeader, InBody, LengthTrue, WholeAnswer

\* When all chunks seem to be there, the length is that of what was collected,
\* and this is the body if the child is at the end of the chunks.
LEMMA FinishStep ==
  ASSUME IInv, pc = "size", Finishes, UNCHANGED <<answer, content, causes>>,
         causes = {} => Len(content) = Len(answer.body)
  PROVE  Course'
<1>. USE DEF IInv
<1>1. TypeOK /\ InChunks /\ ContentIsHead
  BY DEF Course, TypeInv
<1>2. /\ Len(header) + 1 = Len(answer.header)
      /\ \A i \in 1..Len(header) : header[i] = HeaderRow(answer.header[i])
      /\ \E i \in 1..Len(header) : answer.header[i].k = "te"
      /\ \A i \in 1..Len(content) : content[i].k # "clen"
  BY <1>1 DEF InChunks
<1>3. content \in Seq(Units) /\ content_len = Len(content) /\ Len(header) \in Nat
  BY <1>1 DEF TypeOK
<1>4. pc' = "put" /\ respond' = ChunkedHeader(header, Len(content)) \o content
  BY <1>3 DEF Finishes
<1>5. LengthTrue'
  <2>1. Len(header) < Len(answer.header)
    BY <1>2, <1>3
  <2>2. \A r : r = ChunkedHeader(header, Len(content)) \o content =>
          \A i \in DOMAIN r : r[i].k = "clen" => r[i].n = Len(r) - HeaderLen(r)
    BY <1>1, <1>2, <1>3, <2>1, ChunkedRespond
  <2>. QED
    BY <1>4, <2>2 DEF LengthTrue, HeaderLen
<1>6. WholeAnswer'
  <2>1. SUFFICES ASSUME causes = {} PROVE respond' = Expected(answer)
    BY <1>4 DEF WholeAnswer
  <2>2. Len(content) = Len(answer.body)
    BY <2>1
  <2>3. content = Prefix(answer.body, Len(content))
    BY <1>1, <2>1 DEF ContentIsHead
  <2>4. answer.body \in Seq(Units)
    BY <1>1, AnswerTyped
  <2>5. content = answer.body
    BY <2>2, <2>3, <2>4, SubSeqFull DEF Prefix
  <2>. QED
    BY <1>1, <1>2, <1>4, <2>5, ChunkedWhole
<1>7. ContentIsHead'
  BY <1>1, ContentStays
<1>. QED
  BY <1>4, <1>5, <1>6, <1>7 DEF Course, AtStart, InHeader, InBody, InChunks

\* A size is read: of the next chunk, or of none.
LEMMA TakesSizeStep ==
  ASSUME IInv, TakesSize
  PROVE  Course'
<1>. USE DEF IInv
<1>1. TypeOK /\ pc = "size" /\ InChunks
  BY DEF TakesSize, Course, TypeInv
<1>2. sbuf \in Seq(Units) /\ sbuf # <<>>
  BY <1>1, RowMeansUnits DEF TakesSize, TypeOK
<1>3. PICK n \in Nat : n = Len(Row(sbuf)) /\ n \in 0..Len(sbuf)
  BY <1>2, RowAtHead DEF TakesSize
<1>4. /\ size' \in StrToL(Row(sbuf), MaxMisread) /\ sbuf' = Suffix(sbuf, n)
      /\ IF size' = 0 THEN Finishes ELSE pc' = "chunk" /\ UNCHANGED respond
      /\ UNCHANGED <<answer, wire, header, content, causes>>
  BY <1>3 DEF TakesSize, conn, coding
<1>5. ASSUME NEW k \in 0..Len(answer.rest), InPlace(k)
      PROVE  /\ k + 1 \in 1..Len(answer.rest) /\ answer.rest[k + 1].k = "size"
             /\ size' = answer.rest[k + 1].n /\ n = 1 /\ k \in Nat
             /\ Brought(answer.rest, k + 1) = Brought(answer.rest, k)
  <2>1. /\ k + 1 \in 1..Len(answer.rest) /\ sbuf[1] = answer.rest[k + 1]
        /\ sbuf[1].k = "size" /\ Len(Row(sbuf)) = 1 /\ Row(sbuf)[1] = sbuf[1]
    BY <1>1, <1>2, <1>5, RowOfChunks DEF TakesSize
  <2>2. StrToL(Row(sbuf), MaxMisread) = {sbuf[1].n}
    <3>1. \A i \in 1..Len(Row(sbuf)) - 1 : Row(sbuf)[i].k = "zero"
      BY <2>1
    <3>. QED
      BY <2>1, <3>1 DEF StrToL
  <2>3. k \in Nat
    BY <1>1, AnswerTyped
  <2>4. Brought(answer.rest, k + 1) = Brought(answer.rest, k)
    <3>1. \A i \in k + 1..k + 1 : i = k + 1
      BY <2>3
    <3>2. answer.rest[k + 1].k \notin DataKinds
      BY <2>1 DEF DataKinds
    <3>3. k <= k + 1 /\ k + 1 \in Nat
      BY <2>3
    <3>. QED
      BY <2>3, <3>1, <3>2, <3>3, BroughtNothing
  <2>. QED
    BY <1>3, <1>4, <2>1, <2>2, <2>3, <2>4
<1>6. CASE size' = 0
  <2>1. ASSUME causes = {}
        PROVE  Len(content) = Len(answer.body)
    <3>1. PICK k \in 0..Len(answer.rest) : InPlace(k)
      BY <1>1, <2>1 DEF InChunks
    <3>2. /\ k + 1 \in 1..Len(answer.rest) /\ answer.rest[k + 1].k = "size" /\ answer.rest[k + 1].n = 0
          /\ k \in Nat /\ Brought(answer.rest, k + 1) = Brought(answer.rest, k)
      BY <1>5, <1>6, <3>1
    <3>3. PICK r \in Nat : r = Len(answer.rest)
      BY <1>1, AnswerTyped
    <3>4. Coded(answer.rest, answer.body) /\ DOMAIN answer.rest = 1..r
      BY <1>1, <3>3, ChunksCoded DEF InChunks
    <3>5. \A j \in 1..r : j > k + 1 => answer.rest[j].k \notin DataKinds
      BY <3>2, <3>3, <3>4 DEF Coded
    <3>6. Brought(answer.rest, r) = Brought(answer.rest, k + 1)
      <4>1. \A i \in (k + 1) + 1..r : i \in 1..r /\ i > k + 1
        BY <3>2
      <4>2. k + 1 \in Nat /\ k + 1 <= r
        BY <3>2, <3>3
      <4>. QED
        BY <3>5, <4>1, <4>2, BroughtNothing
    <3>7. Len(content) = Brought(answer.rest, k) /\ Len(answer.body) = Brought(answer.rest, r)
      BY <3>1, <3>3, <3>4 DEF InPlace, Coded
    <3>. QED
      BY <3>2, <3>6, <3>7
  <2>. QED
    BY <1>1, <1>4, <1>6, <2>1, FinishStep
<1>7. CASE size' # 0
  <2>1. pc' = "chunk" /\ size' \in Nat
    BY <1>2, <1>4, <1>7, SizeTyped DEF TakesSize
  <2>2. \A i \in 1..Len(Left') : Left'[i].k # "clen"
    <3>1. \A i \in 1..Len(Left) : Left[i].k # "clen"
      BY <1>1 DEF InChunks
    <3>. QED
      BY <1>1, <1>3, <1>4, <3>1, LeftTaken
  <2>3. ASSUME "surplus" \notin causes'
        PROVE  \E k \in 0..Len(answer'.rest) : InPlace(k)'
    <3>1. PICK k \in 0..Len(answer.rest) : InPlace(k)
      BY <1>1, <1>4, <2>3 DEF InChunks
    <3>2. /\ k + 1 \in 1..Len(answer.rest) /\ answer.rest[k + 1].k = "size"
          /\ size' = answer.rest[k + 1].n /\ n = 1 /\ k \in Nat
          /\ Brought(answer.rest, k + 1) = Brought(answer.rest, k)
      BY <1>5, <3>1
    <3>3. PICK h \in Nat : h = Len(answer.header)
      BY <1>1, AnswerTyped
    <3>4. Behind(h + k)
      BY <3>1, <3>3 DEF InPlace
    <3>5. Behind((h + k) + n)'
      BY <1>1, <1>3, <1>4, <3>2, <3>4, BehindTaken
    <3>6. Behind(Len(answer.header) + (k + 1))'
      <4>1. (h + k) + n = h + (k + 1)
        BY <3>2
      <4>. QED
        BY <1>4, <3>3, <3>5, <4>1 DEF Behind
    <3>7. Len(content') = Brought(answer'.rest, k + 1)
      BY <1>4, <3>1, <3>2 DEF InPlace
    <3>8. k + 1 > 0 /\ size' > 0
      BY <1>7, <2>1, <3>2
    <3>9. InPlace(k + 1)'
      BY <1>4, <2>1, <3>2, <3>6, <3>7, <3>8 DEF InPlace
    <3>10. k + 1 \in 0..Len(answer'.rest)
      BY <1>4, <3>2
    <3>. QED
      BY <3>9, <3>10
  <2>4. InChunks'
    BY <1>1, <1>4, <2>2, <2>3 DEF InChunks
  <2>5. ContentIsHead'
    BY <1>4, ContentStays DEF Course
  <2>. QED
    BY <2>1, <2>4, <2>5 DEF Course, AtStart, InHeader, InBody, LengthTrue, WholeAnswer
<1>. QED
  BY <1>6, <1>7

\* The end of the connection between chunks is taken for the end of the answer.
LEMMA NoMoreChunksStep ==
  ASSUME IInv, NoMoreChunks
  PROVE  Course'
<1>. USE DEF IInv
<1>1. TypeOK /\ pc = "size" /\ InChunks /\ Finishes /\ UNCHANGED <<answer, content, causes>>
  BY DEF NoMoreChunks, Course, TypeInv, conn
<1>2. ASSUME causes = {}
      PROVE  Len(content) = Len(answer.body)
  <2>1. PICK k \in 0..Len(answer.rest) : InPlace(k)
    BY <1>1, <1>2 DEF InChunks
  <2>2. sbuf = <<>> /\ wire = <<>>
    BY <1>1, <2>1, RowOfChunks DEF NoMoreChunks
  <2>3. PICK r, l \in Nat : r = Len(answer.rest) /\ l = Len(Left)
    BY <1>1, AnswerTyped, LeftTyped
  <2>4. l = 0
    <3>1. l = Len(sbuf) + Len(wire)
      BY <1>1, <2>3, LeftTyped
    <3>2. Len(sbuf) = 0 /\ Len(wire) = 0
      BY <2>2
    <3>. QED
      BY <3>1, <3>2
  <2>5. k + l = r
    <3>1. k \in Nat /\ Behind(Len(answer.header) + k)
      BY <2>1, <2>3 DEF InPlace
    <3>. QED
      BY <1>1, <1>2, <2>3, <3>1, LeftOfRest
  <2>6. k = r
    BY <2>3, <2>4, <2>5
  <2>7. Coded(answer.rest, answer.body)
    BY <1>1, ChunksCoded DEF InChunks
  <2>. QED
    BY <2>1, <2>3, <2>6, <2>7 DEF InPlace, Coded
<1>. QED
  BY <1>1, <1>2, FinishStep

\* A chunk is added to the content; what is thrown away behind it is the end of
\* the chunk, or a surplus.
LEMMA TakesChunkStep ==
  ASSUME IInv, TakesChunk
  PROVE  Course'
<1>. USE DEF IInv
<1>1. TypeOK /\ pc = "chunk" /\ InChunks /\ ContentIsHead
  BY DEF TakesChunk, Course, TypeInv
<1>2. PICK n, l \in Nat : n = size /\ l = Len(sbuf) /\ n <= l /\ sbuf \in Seq(Units)
  <2>1. size \in Nat /\ sbuf \in Seq(Units)
    BY <1>1 DEF TypeOK
  <2>2. Len(sbuf) \in Nat /\ size <= Len(sbuf)
    BY <2>1 DEF TakesChunk
  <2>. QED
    BY <2>1, <2>2
<1>3. PICK d : d = Prefix(sbuf, n)
  OBVIOUS
<1>4. d \in Seq(Units) /\ Len(d) = n /\ \A i \in 1..n : d[i] = sbuf[i] /\ i \in 1..l
  <2>1. n \in 0..Len(sbuf) /\ \A i \in 1..n : i \in 1..l
    BY <1>2
  <2>2. /\ Prefix(sbuf, n) \in Seq(Units) /\ Len(Prefix(sbuf, n)) = n
        /\ \A i \in 1..n : Prefix(sbuf, n)[i] = sbuf[i]
    BY <1>2, <2>1, Cuts
  <2>. QED
    BY <1>3, <2>1, <2>2
<1>5. /\ content' = content \o d /\ pc' = "size" /\ sbuf' = <<>>
      /\ causes' = causes \cup Blame("surplus", Surplus(sbuf, size))
      /\ UNCHANGED <<answer, wire, header, respond>>
  BY <1>2, <1>3 DEF TakesChunk, Block, conn
<1>6. sbuf' = Suffix(sbuf, l) /\ l \in 0..Len(sbuf)
  BY <1>1, <1>2, <1>5, AllTaken
<1>7. PICK m \in Nat : m = Len(content) /\ content \in Seq(Units)
  BY <1>1 DEF TypeOK
<1>8. /\ content' \in Seq(Units) /\ Len(content') = m + n
      /\ \A i \in 1..m : content'[i] = content[i]
      /\ \A i \in 1..n : content'[m + i] = d[i]
  <2>1. /\ content \o d \in Seq(Units) /\ Len(content \o d) = Len(content) + Len(d)
        /\ \A i \in 1..Len(content) : (content \o d)[i] = content[i] /\ content[i] \in Units
        /\ \A i \in 1..Len(d) : (content \o d)[Len(content) + i] = d[i] /\ d[i] \in Units
    BY <1>4, <1>7, Joins
  <2>. QED
    BY <1>4, <1>5, <1>7, <2>1
<1>9. \A i \in 1..m + n : i \in 1..m \/ \E j \in 1..n : i = m + j
  <2>1. ASSUME NEW i \in 1..m + n, i \notin 1..m
        PROVE  \E j \in 1..n : i = m + j
    <3>1. i - m \in 1..n /\ i = m + (i - m)
      BY <2>1
    <3>. QED
      BY <3>1
  <2>. QED
    BY <2>1
<1>10. \A i \in 1..Len(Left') : Left'[i].k # "clen"
  <2>1. \A i \in 1..Len(Left) : Left[i].k # "clen"
    BY <1>1 DEF InChunks
  <2>. QED
    BY <1>1, <1>5, <1>6, <2>1, LeftTaken
<1>11. \A i \in 1..l : Left[i] = sbuf[i] /\ i \in 1..Len(Left)
  <2>1. Len(Left) = l + Len(wire) /\ Len(wire) \in Nat /\ \A i \in 1..l : Left[i] = sbuf[i]
    BY <1>1, <1>2, LeftTyped
  <2>. QED
    BY <2>1
<1>12. \A i \in 1..Len(content') : content'[i].k # "clen"
  <2>1. /\ \A i \in 1..Len(Left) : Left[i].k # "clen"
        /\ \A i \in 1..m : content[i].k # "clen"
    BY <1>1, <1>7 DEF InChunks
  <2>2. \A i \in 1..n : d[i].k # "clen"
    BY <1>4, <1>11, <2>1
  <2>3. ASSUME NEW i \in 1..m + n
        PROVE  content'[i].k # "clen"
    <3>1. CASE i \in 1..m
      BY <1>8, <2>1, <3>1
    <3>2. CASE i \notin 1..m
      <4>1. PICK j \in 1..n : i = m + j
        BY <1>9, <3>2
      <4>. QED
        BY <1>8, <2>2, <4>1
    <3>. QED
      BY <3>1, <3>2
  <2>. QED
    BY <1>8, <2>3
<1>13. ASSUME NEW k \in 0..Len(answer.rest), InPlace(k)
       PROVE  /\ k \in 1..Len(answer.rest) /\ answer.rest[k].k = "size" /\ answer.rest[k].n = n /\ n > 0
              /\ Brought(answer.rest, k) = m /\ k + l <= Len(answer.rest)
              /\ \A i \in 1..l : k + i \in 1..Len(answer.rest) /\ sbuf[i] = answer.rest[k + i]
              /\ \A i \in 1..n : answer.rest[k + i].k \in DataKinds
  <2>1. PICK r \in Nat : r = Len(answer.rest)
    BY <1>1, AnswerTyped
  <2>2. /\ Behind(Len(answer.header) + k) /\ m = Brought(answer.rest, k)
        /\ k > 0 /\ answer.rest[k].k = "size" /\ answer.rest[k].n = n /\ n > 0
    BY <1>1, <1>2, <1>7, <1>13 DEF InPlace
  <2>3. k \in Nat /\ k \in 1..r
    BY <2>1, <2>2
  <2>4. /\ k + Len(Left) <= r /\ Len(Left) \in Nat
        /\ \A i \in 1..Len(Left) : k + i \in 1..r /\ Left[i] = answer.rest[k + i]
    BY <1>1, <2>1, <2>2, <2>3, LeftOfRest
  <2>5. k + l <= r
    <3>1. Len(Left) = l + Len(wire) /\ Len(wire) \in Nat
      BY <1>1, <1>2, LeftTyped
    <3>. QED
      BY <2>3, <2>4, <3>1
  <2>6. \A i \in 1..l : k + i \in 1..r /\ sbuf[i] = answer.rest[k + i]
    BY <1>11, <2>4
  <2>7. Coded(answer.rest, answer.body) /\ answer.rest \in Seq(Units)
    BY <1>1, ChunksCoded DEF InChunks
  <2>8. \A i \in 1..n : k + i \in 1..Len(answer.rest) => answer.rest[k + i].k \in DataKinds
    BY <2>1, <2>2, <2>3, <2>7, ChunkRead
  <2>. QED
    BY <1>4, <2>1, <2>2, <2>3, <2>5, <2>6, <2>8
<1>14. ContentIsHead'
  <2>1. SUFFICES ASSUME causes' \cap {"surplus", "short"} = {}
                 PROVE  content' = Prefix(answer.body, Len(content'))
    BY <1>5 DEF ContentIsHead
  <2>2. PICK k \in 0..Len(answer.rest) : InPlace(k)
    BY <1>1, <1>5, <2>1 DEF InChunks
  <2>3. content = Prefix(answer.body, m)
    BY <1>1, <1>5, <1>7, <2>1 DEF ContentIsHead
  <2>4. Coded(answer.rest, answer.body) /\ answer.rest \in Seq(Units) /\ answer.body \in Seq(Units)
    BY <1>1, ChunksCoded DEF InChunks
  <2>5. PICK r, b \in Nat : r = Len(answer.rest) /\ b = Len(answer.body)
    BY <2>4
  <2>6. /\ k \in 1..r /\ Brought(answer.rest, k) = m /\ k + l <= r
        /\ \A i \in 1..l : sbuf[i] = answer.rest[k + i]
        /\ \A i \in 1..n : answer.rest[k + i].k \in DataKinds
    BY <1>13, <2>2, <2>5
  <2>7. k + n <= r
    BY <1>2, <2>6
  <2>8. m + n <= b /\ \A i \in 1..n : answer.body[m + i] = answer.rest[k + i]
    BY <2>4, <2>5, <2>6, <2>7, ChunkBrings
  <2>9. m + n \in 0..b /\ m \in 0..b
    BY <2>8
  <2>10. /\ Prefix(answer.body, m + n) \in Seq(Units) /\ Len(Prefix(answer.body, m + n)) = m + n
         /\ \A i \in 1..m + n : Prefix(answer.body, m + n)[i] = answer.body[i]
    BY <2>4, <2>5, <2>9, Cuts
  <2>11. \A i \in 1..m : content[i] = answer.body[i]
    <3>1. \A i \in 1..m : Prefix(answer.body, m)[i] = answer.body[i]
      BY <2>4, <2>5, <2>9, Cuts
    <3>. QED
      BY <2>3, <3>1
  <2>12. ASSUME NEW i \in 1..m + n
         PROVE  content'[i] = Prefix(answer.body, m + n)[i]
    <3>1. CASE i \in 1..m
      BY <1>8, <2>10, <2>11, <3>1
    <3>2. CASE i \notin 1..m
      <4>1. PICK j \in 1..n : i = m + j
        BY <1>9, <3>2
      <4>2. content'[i] = sbuf[j] /\ j \in 1..l
        BY <1>4, <1>8, <4>1
      <4>3. sbuf[j] = answer.body[m + j]
        BY <2>6, <2>8, <4>2
      <4>. QED
        BY <2>10, <4>1, <4>2, <4>3
    <3>. QED
      BY <3>1, <3>2
  <2>13. content' = Prefix(answer.body, m + n)
    BY <1>8, <2>10, <2>12, SeqEqual
  <2>. QED
    BY <1>8, <2>13
<1>15. ASSUME "surplus" \notin causes'
       PROVE  \E k \in 0..Len(answer'.rest) : InPlace(k)'
  <2>1. ~Surplus(sbuf, n) /\ "surplus" \notin causes
    BY <1>2, <1>5, <1>15 DEF Blame
  <2>2. PICK k \in 0..Len(answer.rest) : InPlace(k)
    BY <1>1, <2>1 DEF InChunks
  <2>3. PICK r \in Nat : r = Len(answer.rest)
    BY <1>1, AnswerTyped
  <2>4. /\ k \in 1..r /\ answer.rest[k].k = "size" /\ answer.rest[k].n = n /\ n > 0
        /\ Brought(answer.rest, k) = m /\ k + l <= r
        /\ \A i \in 1..l : k + i \in 1..r /\ sbuf[i] = answer.rest[k + i]
        /\ \A i \in 1..n : answer.rest[k + i].k \in DataKinds
    BY <1>13, <2>2, <2>3
  <2>5. /\ k + n + 1 \in 1..r => answer.rest[k + n + 1].k = "crlf"
        /\ k + n + 2 \in 1..r => answer.rest[k + n + 2].k = "size"
    <3>1. Coded(answer.rest, answer.body) /\ answer.rest \in Seq(Units)
      BY <1>1, ChunksCoded DEF InChunks
    <3>. QED
      BY <2>3, <2>4, <3>1, ChunkRead
  <2>6. l = n \/ l = n + 1
    <3>1. SUFFICES ASSUME l >= n + 2 PROVE FALSE
      BY <1>2
    <3>2. n + 2 \in 1..l /\ n + 2 \in n + 1..l
      BY <3>1
    <3>3. sbuf[n + 2] = answer.rest[k + (n + 2)] /\ k + (n + 2) \in 1..r
      BY <2>4, <3>2
    <3>4. k + (n + 2) = k + n + 2
      BY <2>4
    <3>5. sbuf[n + 2].k = "size"
      BY <2>5, <3>3, <3>4
    <3>6. sbuf[n + 2].k = "crlf"
      BY <1>2, <2>1, <3>2 DEF Surplus
    <3>. QED
      BY <3>5, <3>6
  <2>7. Brought(answer.rest, k + l) = m + n
    <3>1. k \in Nat /\ k + n \in Nat /\ k + l \in Nat
      BY <2>4
    <3>2. Brought(answer.rest, k + n) = m + n
      BY <2>4, <3>1, BroughtData
    <3>3. ASSUME l = n + 1
          PROVE  Brought(answer.rest, k + l) = Brought(answer.rest, k + n)
      <4>1. k + n + 1 \in 1..r /\ k + n <= k + l
        BY <2>4, <3>3
      <4>2. answer.rest[k + n + 1].k \notin DataKinds
        BY <2>5, <4>1 DEF DataKinds
      <4>3. \A i \in (k + n) + 1..k + l : i = k + n + 1
        BY <3>1, <3>3
      <4>4. \A i \in (k + n) + 1..k + l : answer.rest[i].k \notin DataKinds
        BY <4>2, <4>3
      <4>. QED
        BY <3>1, <4>1, <4>4, BroughtNothing
    <3>. QED
      BY <2>6, <3>2, <3>3
  <2>8. AtSize(k + l)'
    <3>1. k \in Nat
      BY <2>4
    <3>2. SUFFICES ASSUME k + l < r
                   PROVE  \/ answer.rest[k + l + 1].k = "size"
                          \/ /\ answer.rest[k + l + 1].k = "crlf"
                             /\ k + l + 1 < r => answer.rest[k + l + 2].k = "size"
      BY <1>5, <2>3 DEF AtSize
    <3>3. CASE l = n
      <4>1. k + n + 1 \in 1..r /\ (k + n + 1 < r => k + n + 2 \in 1..r)
        BY <3>1, <3>2, <3>3
      <4>. QED
        BY <2>5, <3>3, <4>1
    <3>4. CASE l = n + 1
      <4>1. k + n + 2 \in 1..r /\ k + l + 1 = k + n + 2
        BY <3>1, <3>2, <3>4
      <4>. QED
        BY <2>5, <4>1
    <3>. QED
      BY <2>6, <3>3, <3>4
  <2>9. PICK h \in Nat : h = Len(answer.header)
    BY <1>1, AnswerTyped
  <2>10. k \in Nat /\ Behind(h + k)
    BY <2>2, <2>3, <2>9 DEF InPlace
  <2>11. "cut" \in causes <=> "cut" \in causes'
    BY <1>5 DEF Blame
  <2>12. Behind((h + k) + l)'
    <3>1. h + k \in Nat
      BY <2>10
    <3>2. UNCHANGED <<answer, wire>>
      BY <1>5
    <3>. QED
      BY <1>1, <1>6, <2>10, <2>11, <3>1, <3>2, BehindTaken
  <2>13. Behind(Len(answer.header) + (k + l))'
    <3>1. (h + k) + l = h + (k + l)
      BY <2>10
    <3>. QED
      BY <1>5, <2>9, <2>12, <3>1 DEF Behind
  <2>14. InPlace(k + l)'
    BY <1>5, <1>8, <2>7, <2>8, <2>13 DEF InPlace
  <2>15. k + l \in 0..Len(answer'.rest)
    BY <1>5, <2>3, <2>4, <2>10
  <2>. QED
    BY <2>14, <2>15
<1>16. InChunks'
  BY <1>1, <1>5, <1>10, <1>12, <1>15 DEF InChunks
<1>. QED
  BY <1>5, <1>14, <1>16 DEF Course, AtStart, InHeader, InBody, LengthTrue, WholeAnswer

-----------------------------------------------------------------------------
(* The ends, and the theorems.                                               *)

\* A child that the end of a chunk kills sends nothing.
LEMMA ChunkCutStep ==
  ASSUME IInv, ChunkCut
  PROVE  Course'
<1>. USE DEF IInv
<1>1. pc' = "gone" /\ UNCHANGED <<answer, content, causes>>
  BY DEF ChunkCut, conn
<1>2. ContentIsHead'
  BY <1>1, ContentStays DEF Course
<1>. QED
  BY <1>1, <1>2 DEF Course, AtStart, InHeader, InBody, InChunks, LengthTrue, WholeAnswer

\* The PUT sends what was decided before.
LEMMA PutStep ==
  ASSUME IInv, Puts \/ PutFails
  PROVE  Course'
<1>. USE DEF IInv
<1>1. /\ pc = "put" /\ pc' \in {"sent", "gone"} /\ UNCHANGED <<answer, content, respond>>
      /\ causes \subseteq causes' /\ (pc' = "sent" => causes' = causes)
  BY DEF Puts, PutFails, conn
<1>2. ContentIsHead'
  BY <1>1, ContentStays DEF Course
<1>3. LengthTrue'
  BY <1>1 DEF Course, LengthTrue, HeaderLen
<1>4. WholeAnswer'
  BY <1>1 DEF Course, WholeAnswer, Expected
<1>. QED
  BY <1>1, <1>2, <1>3, <1>4 DEF Course, AtStart, InHeader, InBody, InChunks

\* The end of the connection leaves what is buffered in its place.
LEMMA ServerClosesStep ==
  ASSUME IInv, ServerCloses
  PROVE  Course'
<1>. USE DEF IInv
<1>1. /\ TypeOK /\ pc' = pc /\ pc \in Reading
      /\ UNCHANGED <<answer, sbuf, header, chunked, content_len, size, content, respond>>
  BY DEF ServerCloses, coding, TypeInv
<1>2. /\ causes \subseteq causes'
      /\ "unread" \in causes <=> "unread" \in causes'
      /\ "surplus" \in causes <=> "surplus" \in causes'
  BY DEF ServerCloses, Blame
<1>3. /\ \A k \in Nat : Behind(k) => Behind(k)'
      /\ Len(Left') <= Len(Left) /\ Len(Left') \in Nat /\ Len(Left) \in Nat
      /\ \A i \in 1..Len(Left') : Left'[i] = Left[i]
  BY <1>1, BehindCut
<1>4. PICK h, r, n \in Nat : h = Len(answer.header) /\ r = Len(answer.rest) /\ n = Len(header)
  <2>1. Len(answer.header) \in Nat /\ Len(answer.rest) \in Nat
    BY <1>1, AnswerTyped
  <2>2. header \in Seq(Units)
    BY <1>1 DEF TypeOK
  <2>3. Len(header) \in Nat
    BY <2>2
  <2>. QED
    BY <2>1, <2>3
<1>5. Noted' <=> Noted
  BY <1>1 DEF Noted
<1>6. InHeader'
  <2>1. SUFFICES ASSUME pc = "header" PROVE Noted' /\ Behind(Len(header))'
    BY <1>1 DEF InHeader
  <2>2. Noted /\ Behind(n)
    BY <1>4, <2>1 DEF Course, InHeader
  <2>3. Behind(n)'
    BY <1>3, <2>2
  <2>. QED
    BY <1>1, <1>4, <1>5, <2>2, <2>3 DEF Behind
<1>7. InBody'
  <2>1. SUFFICES ASSUME pc = "body", InBody PROVE InBody'
    BY <1>1 DEF Course, InBody
  <2>2. Noted /\ Behind(h)
    BY <1>4, <2>1 DEF InBody
  <2>3. Behind(h)'
    BY <1>3, <2>2
  <2>4. Behind(Len(answer.header))'
    BY <1>1, <1>4, <2>3 DEF Behind
  <2>. QED
    BY <1>1, <1>2, <1>5, <2>1, <2>2, <2>4 DEF InBody
<1>8. InChunks'
  <2>1. SUFFICES ASSUME pc \in {"size", "chunk"}, InChunks PROVE InChunks'
    BY <1>1 DEF Course, InChunks
  <2>2. \A i \in 1..Len(Left') : Left'[i].k # "clen"
    <3>1. \A i \in 1..Len(Left) : Left[i].k # "clen"
      BY <2>1 DEF InChunks
    <3>2. \A i \in 1..Len(Left') : i \in 1..Len(Left)
      BY <1>3
    <3>. QED
      BY <1>3, <3>1, <3>2
  <2>3. ASSUME NEW k \in 0..Len(answer.rest), InPlace(k)
        PROVE  InPlace(k)'
    <3>1. k \in Nat /\ h + k \in Nat
      BY <1>4
    <3>2. Behind(h + k)
      BY <1>4, <2>3 DEF InPlace
    <3>3. Behind(h + k)'
      BY <1>3, <3>1, <3>2
    <3>4. Behind(Len(answer.header) + k)'
      BY <1>1, <1>4, <3>3 DEF Behind
    <3>5. AtSize(k)' <=> AtSize(k)
      BY <1>1 DEF AtSize
    <3>. QED
      BY <1>1, <2>3, <3>4, <3>5 DEF InPlace
  <2>. QED
    BY <1>1, <1>2, <2>1, <2>2, <2>3 DEF InChunks
<1>9. ContentIsHead'
  BY <1>1, <1>2, ContentStays DEF Course
<1>. QED
  BY <1>1, <1>6, <1>7, <1>8, <1>9 DEF Course, AtStart, LengthTrue, WholeAnswer, Reading

\* Nothing changes when nobody moves.
LEMMA StutterStep ==
  ASSUME Course, UNCHANGED vars
  PROVE  Course'
<1>1. /\ UNCHANGED <<answer, wire, pc, sbuf, header, chunked, content_len, size>>
      /\ UNCHANGED <<content, respond, causes>>
  BY DEF vars
<1>2. AtStart' /\ ContentIsHead' /\ LengthTrue' /\ WholeAnswer'
  BY <1>1 DEF Course, AtStart, ContentIsHead, LengthTrue, HeaderLen, WholeAnswer, Expected
<1>3. InHeader' /\ InBody'
  BY <1>1 DEF Course, InHeader, InBody, Noted, Behind, Left, Stream
<1>4. InChunks'
  BY <1>1 DEF Course, InChunks, InPlace, AtSize, Behind, Left, Stream
<1>. QED
  BY <1>2, <1>3, <1>4 DEF Course

\* Every step leads from a state of the invariant to one.
LEMMA CourseStep ==
  ASSUME IInv, [Next]_vars
  PROVE  IInv'
<1>1. TypeInv'
  BY TypeStep DEF IInv
<1>2. ASSUME Child
      PROVE  Course'
  <2>1. CASE Skips \/ RequestFails \/ Asks
    BY <2>1, StartStep
  <2>2. CASE ReadsForRow \/ ReadsForSize
    BY <2>2, ReadStep
  <2>3. CASE TakesHeaderRow
    BY <2>3, TakesHeaderRowStep
  <2>4. CASE EndsHeader
    BY <2>4, EndsHeaderStep
  <2>5. CASE HeaderCut
    BY <2>5, HeaderCutStep
  <2>6. CASE TakesBody
    BY <1>1, <2>6, TakesBodyStep
  <2>7. CASE UsesFreedRow
    BY <2>7, UsesFreedRowStep
  <2>8. CASE SkipsBlankRow
    BY <2>8, SkipsBlankRowStep
  <2>9. CASE TakesSize
    BY <2>9, TakesSizeStep
  <2>10. CASE NoMoreChunks
    BY <2>10, NoMoreChunksStep
  <2>11. CASE TakesChunk
    BY <2>11, TakesChunkStep
  <2>12. CASE ChunkCut
    BY <2>12, ChunkCutStep
  <2>13. CASE Puts \/ PutFails
    BY <2>13, PutStep
  <2>. QED
    BY <1>2, <2>1, <2>2, <2>3, <2>4, <2>5, <2>6, <2>7, <2>8, <2>9, <2>10, <2>11, <2>12, <2>13
       DEF Child
<1>3. CASE ServerCloses
  BY <1>1, <1>3, ServerClosesStep DEF IInv
<1>4. CASE UNCHANGED vars
  BY <1>1, <1>4, StutterStep DEF IInv
<1>. QED
  BY <1>1, <1>2, <1>3, <1>4 DEF Next, IInv

\* A child that has not asked yet has nothing.
LEMMA InitCourse == Init => IInv
<1>. SUFFICES ASSUME Init PROVE IInv
  OBVIOUS
<1>1. TypeInv
  BY InitTyped
<1>2. content = Prefix(answer.body, Len(content))
  <2>1. answer.body \in Seq(Units)
    BY <1>1, AnswerTyped DEF TypeInv
  <2>2. 0 \in 0..Len(answer.body)
    BY <2>1
  <2>3. Prefix(answer.body, 0) \in Seq(Units) /\ Len(Prefix(answer.body, 0)) = 0
    BY <2>1, <2>2, Cuts
  <2>4. Prefix(answer.body, 0) = <<>>
    BY <2>3
  <2>5. content = <<>> /\ Len(content) = 0
    BY DEF Init
  <2>. QED
    BY <2>4, <2>5
<1>. QED
  BY <1>1, <1>2 DEF IInv, Course, Init, AtStart, InHeader, InBody, InChunks, ContentIsHead, LengthTrue,
     WholeAnswer

\* The invariant holds in every state of every child.
LEMMA Inductive == Spec => []IInv
<1>1. Init => IInv
  BY InitCourse
<1>2. IInv /\ [Next]_vars => IInv'
  BY CourseStep
<1>. QED
  BY <1>1, <1>2, PTL DEF Spec

\* The browser gets the whole answer of the local server, its header with the
\* true length in place of the coding, whatever reads and chunks it came in,
\* unless one of the causes befell it.
THEOREM WholeAnswerAlways == Spec => []WholeAnswer
<1>1. IInv => WholeAnswer
  BY DEF IInv, Course
<1>. QED
  BY <1>1, Inductive, PTL

\* What the child sends is as long as its Content-Length says, also when the
\* connection broke or a chunk's size was misread.
THEOREM LengthTrueAlways == Spec => []LengthTrue
<1>1. IInv => LengthTrue
  BY DEF IInv, Course
<1>. QED
  BY <1>1, Inductive, PTL

\* The content that is collected is a beginning of the body, unless bytes were
\* thrown away behind a chunk or a freed block was read.
THEOREM ContentIsHeadAlways == Spec => []ContentIsHead
<1>1. IInv => ContentIsHead
  BY DEF IInv, Course
<1>. QED
  BY <1>1, Inductive, PTL

=============================================================================
