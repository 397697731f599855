----------------------------- MODULE SocksProofs -----------------------------
(***************************************************************************)
(* Proofs about Connection() and its proxies, for every target, port and   *)
(* greeting: what the call reads is the proxy's answer to its last         *)
(* message, however it arrives and wherever it is cut off, and so a        *)
(* descriptor is handed over only when the proxy granted the connection.   *)
(***************************************************************************)
EXTENDS Socks, SequenceTheorems, TLAPS

\* The lemmas on the least of a set of positions.
SB == INSTANCE SocketBufProofs

\* What the proxy has sent and the call has not made use of, and the message
\* it answers.
Unread == got \o wire \o coming
Last   == asked[Len(asked)]

\* What the proxy sends on the message m if its answer is a.
Total(m, a) == a.units \o (IF m.type = "connect" /\ a.accepts THEN data ELSE <<>>)

\* The unread units are those of Total behind the k-th, and short of it only if
\* the proxy has closed.
Due(s, k) ==
  /\ k \in 0..Len(s)
  /\ Len(Unread) <= Len(s) - k /\ \A i \in 1..Len(Unread) : Unread[i] = s[k + i]
  /\ ~down => Len(Unread) = Len(s) - k

\* What is recorded of the answer a to the message m.
Clean == causes \cap {"refused", "version1"} = {}
Recorded(m, a) ==
  /\ a.odd \subseteq causes
  /\ causes \cap {"refused", "version1"} =
       (IF a.accepts THEN {} ELSE {"refused"}) \cup (a.odd \cap {"version1"})
  /\ m.type = "connect" /\ a.accepts => granted = m

Silent  == got = <<>> /\ wire = <<>> /\ coming = <<>>
Waiting == asked # <<>> /\ answered = Len(asked) - 1 /\ Silent /\ Clean

\* The answer to the last message is being read from its k-th unit on.
Replied(k) ==
  /\ asked # <<>> /\ answered = Len(asked)
  /\ \E a \in Answers(Last) : Due(Total(Last, a), k) /\ Recorded(Last, a)

Passed ==
  /\ asked # <<>> /\ answered = Len(asked)
  /\ \E a \in Answers(Last) :
       Due(Total(Last, a), 5) /\ Recorded(Last, a) /\ a.accepts /\ want = Rest(a.units)

\* RowStages of an HTTP answer: the last row of what is read so far begins at k.
InOrder == causes \cap {"lfOnly", "raced"} = {}
RowAt(a, k) ==
  /\ first => k = 0
  /\ ~first => a.units[1] = Status200
  /\ InOrder =>
       /\ k < Len(a.units) /\ (k = 0 \/ a.units[k] = NL)
       /\ \A i \in 1..Len(got) - 1 : got[i] # NL
       /\ pc \in {"peek", "take"} /\ got # <<>> => got[Len(got)] # NL
       /\ pc = "row" => got[Len(got)] = NL \/ AtEnd

InRows ==
  /\ asked # <<>> /\ answered = Len(asked)
  /\ \E a \in HttpAnswers : \E k \in 0..Len(Total(Last, a)) :
       Due(Total(Last, a), k) /\ Recorded(Last, a) /\ RowAt(a, k)

Before == {"args", "resolve", "socket", "options", "connect", "ask"}
RowStages   == {"peek", "take", "row"}
Replies5 == {"method", "auth", "authReply", "ask5", "reply5", "tail5"}

\* What the call is about, by where it is.
Stage ==
  /\ pc \notin {"args", "failed"} => port > 0 /\ port <= MaxPort
  /\ pc \in {"args", "resolve", "socket"} => ~open
  /\ pc \notin {"args", "resolve", "socket", "failed"} => open
  /\ pc = "ask" => kind # "direct"
  /\ pc \in RowStages => kind = "HTTP" /\ host # "v6"
  /\ pc = "reply4" => kind = "SOCKS4"
  /\ pc \in Replies5 => kind = "SOCKS5"
  /\ pc \in Before => asked = <<>> /\ answered = 0 /\ Silent /\ causes = {} /\ first
  /\ pc \in {"auth", "ask5"} => answered = Len(asked) /\ Silent /\ Clean

Wanted == IF kind = "HTTP" THEN Target(Swapped(port)) ELSE Target(port)

\* What it reads there.
Reply ==
  /\ pc = "reply4" => want = 8 /\ Last = Wanted /\ (Waiting \/ Replied(0))
  /\ pc \in {"method", "authReply"} =>
       /\ want = 2 /\ (Waiting \/ Replied(0))
       /\ Last = [type |-> IF pc = "method" THEN "hello" ELSE "auth"]
  /\ pc = "reply5" => want = 5 /\ Last = Wanted /\ (Waiting \/ Replied(0))
  /\ pc = "tail5" => Last = Wanted /\ Passed
  /\ pc \in RowStages => Last = Wanted /\ ((Waiting /\ first /\ pc = "peek") \/ InRows)
  /\ pc = "row" => got # <<>>
  /\ pc = "take" => wire # <<>> /\ peeked \in 1..Len(wire)

\* What it hands over.
Done ==
  pc = "ok" =>
    /\ got = <<>>
    /\ kind # "direct" =>
         /\ granted = Wanted /\ answered = Len(asked)
         /\ causes \cap {"lfOnly", "raced", "unknownType"} = {} => Due(data, 0)

Failed == pc = "failed" => FailsForReason

IInv == TypeOK /\ Stage /\ Reply /\ Done /\ Failed

-----------------------------------------------------------------------------
(* Units that are read.                                                    *)

Sequences == got \in Seq(Units) /\ wire \in Seq(Units) /\ coming \in Seq(Units)

\* Of three sequences it does not matter which two are joined first.
LEMMA JoinsAssociate ==
  \A s, t, u \in Seq(Units) : (s \o t) \o u = s \o (t \o u)
BY ConcatAssociative

\* Two sequences that are joined.
LEMMA Joined ==
  ASSUME NEW p \in Seq(Units), NEW q \in Seq(Units)
  PROVE  /\ p \o q \in Seq(Units) /\ Len(p \o q) = Len(p) + Len(q)
         /\ Len(p) \in Nat /\ Len(q) \in Nat
         /\ \A i \in 1..Len(p) : (p \o q)[i] = p[i]
         /\ \A i \in 1..Len(q) : (p \o q)[Len(p) + i] = q[i]
OBVIOUS

\* A read moves units without loss.
LEMMA TakeKeeps ==
  ASSUME Sequences, NEW k \in 0..Len(wire), TakeUpTo(k), UNCHANGED coming
  PROVE  got' \in Seq(Units) /\ wire' \in Seq(Units) /\ Unread' = Unread
<1>1. got \in Seq(Units) /\ wire \in Seq(Units) /\ coming \in Seq(Units)
  BY DEF Sequences
<1>2. PICK d : d = SubSeq(wire, 1, k)
  OBVIOUS
<1>3. PICK w : w = SubSeq(wire, k + 1, Len(wire))
  OBVIOUS
<1>4. \A i \in 1..Len(wire) : wire[i] \in Units
  BY <1>1
<1>5. d \in Seq(Units) /\ w \in Seq(Units)
  <2>1. (\A i \in 1..k : wire[i] \in Units) /\ \A i \in k + 1..Len(wire) : wire[i] \in Units
    BY <1>1, <1>4
  <2>. QED
    BY <1>1, <1>2, <1>3, <2>1, SubSeqProperties
<1>6. d \o w = wire
  <2>1. 1 \in 1..Len(wire) + 1 /\ k \in 1 - 1..Len(wire) /\ Len(wire) \in k..Len(wire)
    BY <1>1
  <2>2. SubSeq(wire, 1, k) \o SubSeq(wire, k + 1, Len(wire)) = SubSeq(wire, 1, Len(wire))
    BY <1>1, <2>1, ConcatAdjacentSubSeq
  <2>. QED
    BY <1>1, <1>2, <1>3, <2>2, SubSeqFull
<1>7. (got \o d) \o w = got \o (d \o w)
  BY <1>1, <1>5, JoinsAssociate
<1>8. got' = got \o d /\ wire' = w
  BY <1>2, <1>3 DEF TakeUpTo
<1>9. Unread' = ((got \o d) \o w) \o coming
  BY <1>8 DEF Unread
<1>10. Unread' = Unread
  BY <1>6, <1>7, <1>9 DEF Unread
<1>11. got \o d \in Seq(Units)
  BY <1>1, <1>5
<1>. QED
  BY <1>5, <1>8, <1>10, <1>11

\* So does the network.
LEMMA ArrivesKeeps ==
  ASSUME Sequences, Arrives
  PROVE  wire' \in Seq(Units) /\ coming' \in Seq(Units) /\ Unread' = Unread
<1>1. /\ got \in Seq(Units) /\ wire \in Seq(Units) /\ coming \in Seq(Units) /\ coming # <<>>
      /\ wire' = Append(wire, Head(coming)) /\ coming' = Tail(coming) /\ got' = got
  BY DEF Sequences, Arrives
<1>2. /\ Head(coming) \in Units /\ Tail(coming) \in Seq(Units)
      /\ Append(wire, Head(coming)) \in Seq(Units) /\ Len(coming) >= 1
  BY <1>1
<1>3. PICK h : h = <<Head(coming)>>
  OBVIOUS
<1>4. PICK t : t = Tail(coming)
  OBVIOUS
<1>5. h \in Seq(Units) /\ t \in Seq(Units)
  BY <1>2, <1>3, <1>4
<1>6. h \o t = coming
  <2>1. 1 \in 1..Len(coming) /\ Len(coming) \in 1..Len(coming)
    BY <1>1, <1>2
  <2>2. SubSeq(coming, 1, Len(coming)) = <<coming[1]>> \o SubSeq(coming, 1 + 1, Len(coming))
    BY <1>1, <2>1, SubSeqRecursiveFirst
  <2>3. SubSeq(coming, 1, Len(coming)) = coming /\ Tail(coming) = SubSeq(coming, 2, Len(coming))
    BY <1>1, SubSeqFull, TailIsSubSeq
  <2>4. Head(coming) = coming[1] /\ 1 + 1 = 2
    BY <1>1
  <2>. QED
    BY <1>3, <1>4, <2>2, <2>3, <2>4
<1>7. wire' = wire \o h
  BY <1>1, <1>2, <1>3, AppendIsConcat
<1>8. got \o (wire \o h) = (got \o wire) \o h
  BY <1>1, <1>5, JoinsAssociate, SMTT(30)
<1>9. PICK v : v = got \o wire
  OBVIOUS
<1>10. v \in Seq(Units)
  BY <1>1, <1>9
<1>11. (v \o h) \o t = v \o (h \o t)
  BY <1>5, <1>10, JoinsAssociate
<1>. QED
  BY <1>1, <1>2, <1>4, <1>6, <1>7, <1>8, <1>9, <1>11 DEF Unread

\* What has been read is the first part of the unread, the rest follows.
LEMMA UnreadParts ==
  ASSUME Sequences
  PROVE  /\ Unread \in Seq(Units) /\ wire \o coming \in Seq(Units)
         /\ Len(Unread) = Len(got) + Len(wire) + Len(coming)
         /\ Len(wire \o coming) = Len(wire) + Len(coming)
         /\ Len(got) \in Nat /\ Len(wire) \in Nat /\ Len(coming) \in Nat /\ Len(Unread) \in Nat
         /\ \A i \in 1..Len(got) : Unread[i] = got[i]
         /\ \A i \in 1..Len(wire) : Unread[Len(got) + i] = wire[i]
         /\ \A i \in 1..Len(wire) + Len(coming) : Unread[Len(got) + i] = (wire \o coming)[i]
<1>1. got \in Seq(Units) /\ wire \in Seq(Units) /\ coming \in Seq(Units)
  BY DEF Sequences
<1>2. Len(got) \in Nat /\ Len(wire) \in Nat /\ Len(coming) \in Nat
  BY <1>1
<1>3. PICK r : r = wire \o coming
  OBVIOUS
<1>4. /\ r \in Seq(Units) /\ Len(r) = Len(wire) + Len(coming)
      /\ \A i \in 1..Len(wire) : r[i] = wire[i]
  BY <1>1, <1>3
<1>5. Unread = got \o r
  BY <1>1, <1>3, JoinsAssociate DEF Unread
<1>6. /\ Unread \in Seq(Units) /\ Len(Unread) = Len(got) + Len(r)
      /\ \A i \in 1..Len(got) : Unread[i] = got[i]
  <2>1. /\ got \o r \in Seq(Units) /\ Len(got \o r) = Len(got) + Len(r)
        /\ \A i \in 1..Len(got) : (got \o r)[i] = got[i]
    BY <1>1, <1>4, Joined
  <2>. QED
    BY <1>5, <2>1
<1>7. ASSUME NEW i \in 1..Len(r)
      PROVE  Unread[Len(got) + i] = r[i]
  BY <1>1, <1>4, <1>5
<1>8. \A i \in 1..Len(wire) : i \in 1..Len(r)
  BY <1>2, <1>4
<1>. QED
  BY <1>2, <1>3, <1>4, <1>6, <1>7, <1>8

\* When a reply has been judged the next unit is the one behind it.
LEMMA Consumes ==
  ASSUME Sequences, NEW s, Len(s) \in Nat, NEW k \in Nat, Due(s, k), got' = <<>>,
         UNCHANGED <<wire, coming, down>>
  PROVE  /\ \A n : n = k + Len(got) => Due(s, n)'
         /\ k + Len(got) \in Nat /\ Unread' = wire \o coming
<1>1. /\ Len(Unread) = Len(got) + Len(wire) + Len(coming)
      /\ Len(wire \o coming) = Len(wire) + Len(coming) /\ wire \o coming \in Seq(Units)
      /\ Len(got) \in Nat /\ Len(wire) \in Nat /\ Len(coming) \in Nat
      /\ \A i \in 1..Len(wire) + Len(coming) : Unread[Len(got) + i] = (wire \o coming)[i]
  BY UnreadParts
<1>2. Unread' = wire \o coming
  <2>1. Unread' = (<<>> \o wire) \o coming
    BY DEF Unread
  <2>2. <<>> \o wire = wire
    BY DEF Sequences
  <2>. QED
    BY <2>1, <2>2
<1>3. PICK n \in Nat : n = k + Len(got)
  BY <1>1
<1>4. PICK r : r = wire \o coming
  OBVIOUS
<1>5. /\ k \in 0..Len(s) /\ Len(Unread) <= Len(s) - k
      /\ \A i \in 1..Len(Unread) : Unread[i] = s[k + i]
      /\ ~down => Len(Unread) = Len(s) - k
  BY DEF Due
<1>6. n \in 0..Len(s) /\ Len(r) <= Len(s) - n /\ (~down => Len(r) = Len(s) - n)
  BY <1>1, <1>3, <1>4, <1>5
<1>7. ASSUME NEW i \in 1..Len(r)
      PROVE  r[i] = s[n + i]
  <2>1. Len(got) + i \in 1..Len(Unread) /\ k + (Len(got) + i) = n + i
    BY <1>1, <1>3, <1>4
  <2>2. Unread[Len(got) + i] = r[i]
    BY <1>1, <1>4
  <2>. QED
    BY <1>5, <2>1, <2>2
<1>8. UNCHANGED down
  OBVIOUS
<1>9. Due(s, n)'
  BY <1>2, <1>4, <1>6, <1>7, <1>8 DEF Due
<1>. QED
  BY <1>1, <1>2, <1>3, <1>9

\* A proxy that closes takes away from the end.
LEMMA CloseCuts ==
  ASSUME Sequences, NEW s, Len(s) \in Nat, NEW k \in Nat, Due(s, k),
         UNCHANGED <<got, wire>>, coming' \in {coming, <<>>}, down' = TRUE
  PROVE  Due(s, k)'
<1>1. got \in Seq(Units) /\ wire \in Seq(Units) /\ coming \in Seq(Units)
  BY DEF Sequences
<1>2. CASE coming' = coming
  <2>1. Unread' = Unread
    BY <1>2 DEF Unread
  <2>. QED
    BY <2>1 DEF Due
<1>3. CASE coming' = <<>>
  <2>1. Unread' = (got \o wire) \o <<>>
    BY <1>3 DEF Unread
  <2>2. PICK v : v = got \o wire
    OBVIOUS
  <2>3. v \in Seq(Units) /\ v \o <<>> = v
    BY <1>1, <2>2
  <2>4. Len(Unread) = Len(v) + Len(coming) /\ \A i \in 1..Len(v) : Unread[i] = v[i]
    BY <1>1, <2>2, <2>3 DEF Unread
  <2>5. Len(v) \in Nat /\ Len(coming) \in Nat
    BY <1>1, <2>3
  <2>6. Unread' = v
    BY <2>1, <2>2, <2>3
  <2>7. /\ k \in 0..Len(s) /\ Len(Unread) <= Len(s) - k
        /\ \A i \in 1..Len(Unread) : Unread[i] = s[k + i]
    BY DEF Due
  <2>. QED
    BY <2>4, <2>5, <2>6, <2>7 DEF Due
<1>. QED
  BY <1>2, <1>3

\* What has been read is what the answer has there.
LEMMA GotIsDue ==
  ASSUME Sequences, NEW s, Len(s) \in Nat, NEW k \in Nat, Due(s, k)
  PROVE  \A i \in 1..Len(got) : got[i] = s[k + i]
BY UnreadParts DEF Due

-----------------------------------------------------------------------------
(* The answers.                                                            *)

\* An answer with the target's bytes behind it.
LEMMA TotalParts ==
  ASSUME NEW m, NEW a, a.units \in Seq(Units), data \in Seq(Units)
  PROVE  /\ Total(m, a) \in Seq(Units) /\ Len(Total(m, a)) \in Nat
         /\ Len(a.units) \in Nat /\ Len(a.units) <= Len(Total(m, a))
         /\ \A i \in 1..Len(a.units) : Total(m, a)[i] = a.units[i]
         /\ ~(m.type = "connect" /\ a.accepts) => Len(Total(m, a)) = Len(a.units)
         /\ m.type = "connect" /\ a.accepts =>
              /\ Len(Total(m, a)) = Len(a.units) + Len(data)
              /\ \A i \in 1..Len(data) : Total(m, a)[Len(a.units) + i] = data[i]
<1>1. CASE m.type = "connect" /\ a.accepts
  <2>1. PICK u \in Seq(Units) : u = a.units
    OBVIOUS
  <2>2. Total(m, a) = u \o data
    BY <1>1, <2>1 DEF Total
  <2>3. /\ u \o data \in Seq(Units) /\ Len(u \o data) = Len(u) + Len(data)
        /\ Len(u) \in Nat /\ Len(data) \in Nat
        /\ \A i \in 1..Len(u) : (u \o data)[i] = u[i]
        /\ \A i \in 1..Len(data) : (u \o data)[Len(u) + i] = data[i]
    BY <2>1
  <2>. QED
    BY <1>1, <2>1, <2>2, <2>3
<1>2. CASE ~(m.type = "connect" /\ a.accepts)
  <2>1. PICK u \in Seq(Units) : u = a.units
    OBVIOUS
  <2>2. Total(m, a) = u \o <<>>
    BY <1>2, <2>1 DEF Total
  <2>3. u \o <<>> = u /\ Len(u) \in Nat
    BY <2>1
  <2>. QED
    BY <1>2, <2>1, <2>2, <2>3
<1>. QED
  BY <1>1, <1>2

\* SOCKS4: eight bytes, the second of them tells.
LEMMA Shape4 ==
  ASSUME NEW a \in Socks4Answers
  PROVE  /\ a.units \in Seq(Units) /\ Len(a.units) = 8 /\ a.accepts \in BOOLEAN
         /\ a.odd = {} /\ (a.units[2] = 90 <=> a.accepts)
<1>1. PICK s \in {90, 91} : a = Ans(<<0, s, 0, 0, 0, 0, 0, 0>>, s = 90, {})
  BY DEF Socks4Answers
<1>2. /\ a.units = <<0, s, 0, 0, 0, 0, 0, 0>> /\ a.odd = {}
      /\ (a.accepts <=> s = 90) /\ a.accepts \in BOOLEAN
  BY <1>1 DEF Ans
<1>3. s \in Units /\ 0 \in Units
  BY DEF Units
<1>4. a.units \in Seq(Units) /\ Len(a.units) = 8 /\ a.units[2] = s
  BY <1>2, <1>3
<1>. QED
  BY <1>2, <1>4

\* The choice of a method: two bytes, which the code takes as they are meant.
LEMMA ShapeHello ==
  ASSUME NEW a \in HelloAnswers
  PROVE  /\ a.units \in Seq(Units) /\ Len(a.units) = 2 /\ a.accepts \in BOOLEAN
         /\ a.odd \subseteq {"gssapi"}
         /\ a.accepts => a.units[1] = 5 /\ a.units[2] \in {0, 1, 2}
         /\ ~a.accepts => a.units[1] # 5 \/ a.units[2] \notin {0, 1, 2}
<1>1. \/ a = Ans(<<5, 0>>, TRUE, {}) \/ a = Ans(<<5, 2>>, TRUE, {})
      \/ a = Ans(<<5, 255>>, FALSE, {}) \/ a = Ans(<<5, 1>>, TRUE, {"gssapi"})
      \/ a = Ans(<<Text, Text>>, FALSE, {})
  BY DEF HelloAnswers
<1>2. ASSUME NEW x \in Units, NEW y \in Units
      PROVE  <<x, y>> \in Seq(Units) /\ Len(<<x, y>>) = 2
  OBVIOUS
<1>3. {5, 0, 1, 2, 255, Text} \subseteq Units
  BY DEF Units, Text
<1>4. Text # 5
  BY DEF Text
<1>5. CASE a = Ans(<<5, 0>>, TRUE, {})
  <2>1. /\ a.units = <<5, 0>> /\ a.odd = {}
        /\ a.accepts /\ a.accepts \in BOOLEAN
    BY <1>5 DEF Ans
  <2>2. a.units \in Seq(Units) /\ Len(a.units) = 2 /\ a.units[1] = 5 /\ a.units[2] = 0
    BY <1>2, <1>3, <2>1
  <2>. QED
    BY <1>4, <2>1, <2>2
<1>6. CASE a = Ans(<<5, 2>>, TRUE, {})
  <2>1. /\ a.units = <<5, 2>> /\ a.odd = {}
        /\ a.accepts /\ a.accepts \in BOOLEAN
    BY <1>6 DEF Ans
  <2>2. a.units \in Seq(Units) /\ Len(a.units) = 2 /\ a.units[1] = 5 /\ a.units[2] = 2
    BY <1>2, <1>3, <2>1
  <2>. QED
    BY <1>4, <2>1, <2>2
<1>7. CASE a = Ans(<<5, 255>>, FALSE, {})
  <2>1. /\ a.units = <<5, 255>> /\ a.odd = {}
        /\ ~a.accepts /\ a.accepts \in BOOLEAN
    BY <1>7 DEF Ans
  <2>2. a.units \in Seq(Units) /\ Len(a.units) = 2 /\ a.units[1] = 5 /\ a.units[2] = 255
    BY <1>2, <1>3, <2>1
  <2>. QED
    BY <1>4, <2>1, <2>2
<1>8. CASE a = Ans(<<5, 1>>, TRUE, {"gssapi"})
  <2>1. /\ a.units = <<5, 1>> /\ a.odd = {"gssapi"}
        /\ a.accepts /\ a.accepts \in BOOLEAN
    BY <1>8 DEF Ans
  <2>2. a.units \in Seq(Units) /\ Len(a.units) = 2 /\ a.units[1] = 5 /\ a.units[2] = 1
    BY <1>2, <1>3, <2>1
  <2>. QED
    BY <1>4, <2>1, <2>2
<1>9. CASE a = Ans(<<Text, Text>>, FALSE, {})
  <2>1. /\ a.units = <<Text, Text>> /\ a.odd = {}
        /\ ~a.accepts /\ a.accepts \in BOOLEAN
    BY <1>9 DEF Ans
  <2>2. a.units \in Seq(Units) /\ Len(a.units) = 2 /\ a.units[1] = Text /\ a.units[2] = Text
    BY <1>2, <1>3, <2>1
  <2>. QED
    BY <1>4, <2>1, <2>2
<1>. QED
  BY <1>1, <1>5, <1>6, <1>7, <1>8, <1>9

\* The reply to name and password: what the code takes is accepted.
LEMMA ShapeAuth ==
  ASSUME NEW a \in AuthAnswers
  PROVE  /\ a.units \in Seq(Units) /\ Len(a.units) = 2 /\ a.accepts \in BOOLEAN
         /\ a.odd \subseteq {"version1"}
         /\ a.units[1] = 5 /\ a.units[2] = 0 => a.accepts /\ a.odd = {}
         /\ ~(a.units[1] = 5 /\ a.units[2] = 0) => ~a.accepts \/ "version1" \in a.odd
<1>1. PICK v \in {1, 5}, z \in {0, 1} :
        a = Ans(<<v, z>>, z = 0, IF v = 1 THEN {"version1"} ELSE {})
  BY DEF AuthAnswers
<1>2. /\ a.units = <<v, z>> /\ (a.accepts <=> z = 0) /\ a.accepts \in BOOLEAN
      /\ a.odd = IF v = 1 THEN {"version1"} ELSE {}
  BY <1>1 DEF Ans
<1>3. v \in Units /\ z \in Units
  BY DEF Units
<1>4. <<v, z>> \in Seq(Units) /\ Len(<<v, z>>) = 2
  BY <1>3
<1>. QED
  BY <1>2, <1>4

\* The reply to the request: the rest that the code reads is the rest of it,
\* but for a type of address it does not know.
LEMMA Shape5 ==
  ASSUME NEW a \in Socks5Answers
  PROVE  /\ a.units \in Seq(Units) /\ Len(a.units) >= 5 /\ Len(a.units) \in Nat
         /\ a.accepts \in BOOLEAN /\ a.odd \subseteq {"unknownType"}
         /\ a.units[1] = 5 /\ (a.units[2] = 0 <=> a.accepts)
         /\ Rest(a.units) \in 0..17
         /\ a.accepts /\ "unknownType" \notin a.odd => 5 + Rest(a.units) = Len(a.units)
         /\ \A b : (\A i \in 1..5 : b[i] = a.units[i]) => Rest(b) = Rest(a.units)
<1>. DEFINE Zeros(n) == [k \in 1..n |-> 0]
<1>1. \A n \in Nat : Zeros(n) \in Seq(Units) /\ Len(Zeros(n)) = n
  BY DEF Units
<1>2. \/ a = Ans(<<5, 0, 0, 1>> \o Zeros(6), TRUE, {})
      \/ a = Ans(<<5, 0, 0, 3, 2>> \o Zeros(4), TRUE, {})
      \/ a = Ans(<<5, 0, 0, 4>> \o Zeros(18), TRUE, {})
      \/ a = Ans(<<5, 0, 0, 0>> \o Zeros(6), TRUE, {"unknownType"})
      \/ a = Ans(<<5, 2, 0, 1>> \o Zeros(6), FALSE, {})
  BY DEF Socks5Answers
<1>3. \A b : (\A i \in 1..5 : b[i] = a.units[i]) => Rest(b) = Rest(a.units)
  BY DEF Rest
<1>. HIDE DEF Zeros
<1>. HIDE DEF Zeros
<1>4. ASSUME NEW h \in Seq(Units), NEW n \in Nat
      PROVE  /\ h \o Zeros(n) \in Seq(Units) /\ Len(h \o Zeros(n)) = Len(h) + n
             /\ \A i \in 1..Len(h) : (h \o Zeros(n))[i] = h[i]
  BY <1>1, Joined
<1>5. 5 \in Units /\ 0 \in Units /\ 3 \in Units /\ 2 \in Units /\ 1 \in Units /\ 4 \in Units
  BY DEF Units
<1>6. CASE a = Ans(<<5, 0, 0, 1>> \o Zeros(6), TRUE, {})
  <2>1. PICK h : h = <<5, 0, 0, 1>>
    OBVIOUS
  <2>2. /\ a.units = h \o Zeros(6) /\ a.odd = {}
        /\ a.accepts /\ a.accepts \in BOOLEAN
    BY <1>6, <2>1 DEF Ans
  <2>3. h \in Seq(Units) /\ Len(h) = 4 /\ h[1] = 5 /\ h[2] = 0 /\ h[4] = 1
    BY <1>5, <2>1
  <2>4. a.units \in Seq(Units) /\ Len(a.units) = 10 /\ \A i \in 1..4 : a.units[i] = h[i]
    <3>1. 6 \in Nat /\ Len(h) + 6 = 10
      BY <2>3
    <3>2. /\ h \o Zeros(6) \in Seq(Units) /\ Len(h \o Zeros(6)) = Len(h) + 6
          /\ \A i \in 1..Len(h) : (h \o Zeros(6))[i] = h[i]
      BY <1>4, <2>3, <3>1
    <3>3. 1..Len(h) = 1..4
      BY <2>3
    <3>. QED
      BY <2>2, <3>1, <3>2, <3>3
  <2>5. a.units[1] = 5 /\ a.units[2] = 0 /\ a.units[4] = 1
    BY <2>3, <2>4
  <2>6. Rest(a.units) = 5
    BY <2>5 DEF Rest
  <2>. QED
    BY <1>3, <2>2, <2>4, <2>5, <2>6
<1>7. CASE a = Ans(<<5, 0, 0, 4>> \o Zeros(18), TRUE, {})
  <2>1. PICK h : h = <<5, 0, 0, 4>>
    OBVIOUS
  <2>2. /\ a.units = h \o Zeros(18) /\ a.odd = {}
        /\ a.accepts /\ a.accepts \in BOOLEAN
    BY <1>7, <2>1 DEF Ans
  <2>3. h \in Seq(Units) /\ Len(h) = 4 /\ h[1] = 5 /\ h[2] = 0 /\ h[4] = 4
    BY <1>5, <2>1
  <2>4. a.units \in Seq(Units) /\ Len(a.units) = 22 /\ \A i \in 1..4 : a.units[i] = h[i]
    <3>1. 18 \in Nat /\ Len(h) + 18 = 22
      BY <2>3
    <3>2. /\ h \o Zeros(18) \in Seq(Units) /\ Len(h \o Zeros(18)) = Len(h) + 18
          /\ \A i \in 1..Len(h) : (h \o Zeros(18))[i] = h[i]
      BY <1>4, <2>3, <3>1
    <3>3. 1..Len(h) = 1..4
      BY <2>3
    <3>. QED
      BY <2>2, <3>1, <3>2, <3>3
  <2>5. a.units[1] = 5 /\ a.units[2] = 0 /\ a.units[4] = 4
    BY <2>3, <2>4
  <2>6. Rest(a.units) = 17
    BY <2>5 DEF Rest
  <2>. QED
    BY <1>3, <2>2, <2>4, <2>5, <2>6, SMTT(30)
<1>8. CASE a = Ans(<<5, 0, 0, 0>> \o Zeros(6), TRUE, {"unknownType"})
  <2>1. PICK h : h = <<5, 0, 0, 0>>
    OBVIOUS
  <2>2. /\ a.units = h \o Zeros(6) /\ a.odd = {"unknownType"}
        /\ a.accepts /\ a.accepts \in BOOLEAN
    BY <1>8, <2>1 DEF Ans
  <2>3. h \in Seq(Units) /\ Len(h) = 4 /\ h[1] = 5 /\ h[2] = 0 /\ h[4] = 0
    BY <1>5, <2>1
  <2>4. a.units \in Seq(Units) /\ Len(a.units) = 10 /\ \A i \in 1..4 : a.units[i] = h[i]
    <3>1. 6 \in Nat /\ Len(h) + 6 = 10
      BY <2>3
    <3>2. /\ h \o Zeros(6) \in Seq(Units) /\ Len(h \o Zeros(6)) = Len(h) + 6
          /\ \A i \in 1..Len(h) : (h \o Zeros(6))[i] = h[i]
      BY <1>4, <2>3, <3>1
    <3>3. 1..Len(h) = 1..4
      BY <2>3
    <3>. QED
      BY <2>2, <3>1, <3>2, <3>3
  <2>5. a.units[1] = 5 /\ a.units[2] = 0 /\ a.units[4] = 0
    BY <2>3, <2>4
  <2>6. Rest(a.units) = 0
    BY <2>5 DEF Rest
  <2>. QED
    BY <1>3, <2>2, <2>4, <2>5, <2>6, SMTT(30)
<1>9. CASE a = Ans(<<5, 2, 0, 1>> \o Zeros(6), FALSE, {})
  <2>1. PICK h : h = <<5, 2, 0, 1>>
    OBVIOUS
  <2>2. /\ a.units = h \o Zeros(6) /\ a.odd = {}
        /\ ~a.accepts /\ a.accepts \in BOOLEAN
    BY <1>9, <2>1 DEF Ans
  <2>3. h \in Seq(Units) /\ Len(h) = 4 /\ h[1] = 5 /\ h[2] = 2 /\ h[4] = 1
    BY <1>5, <2>1
  <2>4. a.units \in Seq(Units) /\ Len(a.units) = 10 /\ \A i \in 1..4 : a.units[i] = h[i]
    <3>1. 6 \in Nat /\ Len(h) + 6 = 10
      BY <2>3
    <3>2. /\ h \o Zeros(6) \in Seq(Units) /\ Len(h \o Zeros(6)) = Len(h) + 6
          /\ \A i \in 1..Len(h) : (h \o Zeros(6))[i] = h[i]
      BY <1>4, <2>3, <3>1
    <3>3. 1..Len(h) = 1..4
      BY <2>3
    <3>. QED
      BY <2>2, <3>1, <3>2, <3>3
  <2>5. a.units[1] = 5 /\ a.units[2] = 2 /\ a.units[4] = 1
    BY <2>3, <2>4
  <2>6. Rest(a.units) = 5
    BY <2>5 DEF Rest
  <2>. QED
    BY <1>3, <2>2, <2>4, <2>5, <2>6, SMTT(30)
<1>10. CASE a = Ans(<<5, 0, 0, 3, 2>> \o Zeros(4), TRUE, {})
  <2>1. PICK h : h = <<5, 0, 0, 3, 2>>
    OBVIOUS
  <2>2. /\ a.units = h \o Zeros(4) /\ a.odd = {}
        /\ a.accepts /\ a.accepts \in BOOLEAN
    BY <1>10, <2>1 DEF Ans
  <2>3. h \in Seq(Units) /\ Len(h) = 5 /\ h[1] = 5 /\ h[2] = 0 /\ h[4] = 3 /\ h[5] = 2
    BY <1>5, <2>1
  <2>4. a.units \in Seq(Units) /\ Len(a.units) = 9 /\ \A i \in 1..5 : a.units[i] = h[i]
    <3>1. 4 \in Nat /\ Len(h) + 4 = 9
      BY <2>3
    <3>2. /\ h \o Zeros(4) \in Seq(Units) /\ Len(h \o Zeros(4)) = Len(h) + 4
          /\ \A i \in 1..Len(h) : (h \o Zeros(4))[i] = h[i]
      BY <1>4, <2>3, <3>1
    <3>3. 1..Len(h) = 1..5
      BY <2>3
    <3>. QED
      BY <2>2, <3>1, <3>2, <3>3
  <2>5. a.units[1] = 5 /\ a.units[2] = 0 /\ a.units[4] = 3 /\ a.units[5] = 2
    BY <2>3, <2>4
  <2>6. Rest(a.units) = 4
    BY <2>5 DEF Rest
  <2>. QED
    BY <1>3, <2>2, <2>4, <2>5, <2>6, SMTT(30)
<1>. QED
  BY <1>2, <1>6, <1>7, <1>8, <1>9, <1>10

\* The rows of an HTTP proxy.
LEMMA ShapeHttp ==
  ASSUME NEW a \in HttpAnswers
  PROVE  /\ a.units \in Seq(Units) /\ Len(a.units) \in 3..8 /\ a.accepts \in BOOLEAN
         /\ a.odd \subseteq {"lfOnly", "http11"}
         /\ a.units[1] = Status200 => a.accepts /\ "http11" \notin a.odd
         /\ a.units[1] # Status200 => ~a.accepts \/ "http11" \in a.odd
         /\ a.units[1] # NL /\ a.units[1] # CR
         /\ a.units[1] = Status200 /\ "lfOnly" \notin a.odd =>
              \/ /\ Len(a.units) = 5
                 /\ a.units[2] = CR /\ a.units[3] = NL /\ a.units[4] = CR /\ a.units[5] = NL
              \/ /\ Len(a.units) = 8
                 /\ a.units[2] = CR /\ a.units[3] = NL /\ a.units[4] = Text
                 /\ a.units[5] = CR /\ a.units[6] = NL /\ a.units[7] = CR /\ a.units[8] = NL
<1>1. \/ a = Ans(<<Status200>> \o <<CR, NL, CR, NL>>, TRUE, {})
      \/ a = Ans(<<Status200, CR, NL, Text>> \o <<CR, NL, CR, NL>>, TRUE, {})
      \/ a = Ans(<<Status200, NL, NL>>, TRUE, {"lfOnly"})
      \/ a = Ans(<<Status11>> \o <<CR, NL, CR, NL>>, TRUE, {"http11"})
      \/ a = Ans(<<Status403>> \o <<CR, NL, CR, NL>>, FALSE, {})
  BY DEF HttpAnswers
<1>2. PICK e : e = <<CR, NL, CR, NL>>
  OBVIOUS
<1>3. /\ CR \in Units /\ NL \in Units /\ Text \in Units
      /\ Status200 \in Units /\ Status11 \in Units /\ Status403 \in Units
  BY DEF Units, CR, NL, Text, Status200, Status11, Status403
<1>4. e \in Seq(Units) /\ Len(e) = 4 /\ e[1] = CR /\ e[2] = NL /\ e[3] = CR /\ e[4] = NL
  BY <1>2, <1>3
<1>5. /\ Status200 # CR /\ Status200 # NL /\ Status11 # CR /\ Status11 # NL
      /\ Status403 # CR /\ Status403 # NL /\ Status200 # Status11 /\ Status200 # Status403
  BY DEF CR, NL, Status200, Status11, Status403
<1>6. CASE a = Ans(<<Status200>> \o <<CR, NL, CR, NL>>, TRUE, {})
  <2>1. PICK h : h = <<Status200>>
    OBVIOUS
  <2>2. /\ a.units = h \o e /\ a.odd = {}
        /\ a.accepts /\ a.accepts \in BOOLEAN
    BY <1>2, <1>6, <2>1 DEF Ans
  <2>3. h \in Seq(Units) /\ Len(h) = 1 /\ h[1] = Status200
    BY <1>3, <2>1
  <2>4. /\ a.units \in Seq(Units) /\ Len(a.units) = 5 /\ \A i \in 1..1 : a.units[i] = h[i]
        /\ \A i \in 1..4 : a.units[1 + i] = e[i]
    <3>1. /\ h \o e \in Seq(Units) /\ Len(h \o e) = Len(h) + Len(e)
          /\ \A i \in 1..Len(h) : (h \o e)[i] = h[i]
          /\ \A i \in 1..Len(e) : (h \o e)[Len(h) + i] = e[i]
      BY <1>4, <2>3, Joined
    <3>. QED
      BY <1>4, <2>2, <2>3, <3>1
  <2>5. /\ a.units[1] = Status200 /\ a.units[1 + 1] = CR /\ a.units[1 + 2] = NL
        /\ a.units[1 + 3] = CR /\ a.units[1 + 4] = NL
    BY <1>4, <2>3, <2>4
  <2>. QED
    BY <1>5, <2>2, <2>4, <2>5
<1>7. CASE a = Ans(<<Status200, CR, NL, Text>> \o <<CR, NL, CR, NL>>, TRUE, {})
  <2>1. PICK h : h = <<Status200, CR, NL, Text>>
    OBVIOUS
  <2>2. /\ a.units = h \o e /\ a.odd = {}
        /\ a.accepts /\ a.accepts \in BOOLEAN
    BY <1>2, <1>7, <2>1 DEF Ans
  <2>3. h \in Seq(Units) /\ Len(h) = 4 /\ h[1] = Status200 /\ h[2] = CR /\ h[3] = NL /\ h[4] = Text
    BY <1>3, <2>1
  <2>4. /\ a.units \in Seq(Units) /\ Len(a.units) = 8 /\ \A i \in 1..4 : a.units[i] = h[i]
        /\ \A i \in 1..4 : a.units[4 + i] = e[i]
    <3>1. /\ h \o e \in Seq(Units) /\ Len(h \o e) = Len(h) + Len(e)
          /\ \A i \in 1..Len(h) : (h \o e)[i] = h[i]
          /\ \A i \in 1..Len(e) : (h \o e)[Len(h) + i] = e[i]
      BY <1>4, <2>3, Joined
    <3>. QED
      BY <1>4, <2>2, <2>3, <3>1
  <2>5. /\ a.units[1] = Status200 /\ a.units[2] = CR /\ a.units[3] = NL /\ a.units[4] = Text
        /\ a.units[4 + 1] = CR /\ a.units[4 + 2] = NL /\ a.units[4 + 3] = CR /\ a.units[4 + 4] = NL
    BY <1>4, <2>3, <2>4
  <2>. QED
    BY <1>5, <2>2, <2>4, <2>5
<1>8. CASE a = Ans(<<Status200, NL, NL>>, TRUE, {"lfOnly"})
  <2>1. /\ a.units = <<Status200, NL, NL>> /\ a.odd = {"lfOnly"}
        /\ a.accepts /\ a.accepts \in BOOLEAN
    BY <1>8 DEF Ans
  <2>2. a.units \in Seq(Units) /\ Len(a.units) = 3 /\ a.units[1] = Status200
    BY <1>3, <2>1
  <2>. QED
    BY <1>5, <2>1, <2>2
<1>9. CASE a = Ans(<<Status11>> \o <<CR, NL, CR, NL>>, TRUE, {"http11"})
  <2>1. PICK h : h = <<Status11>>
    OBVIOUS
  <2>2. /\ a.units = h \o e /\ a.odd = {"http11"}
        /\ a.accepts /\ a.accepts \in BOOLEAN
    BY <1>2, <1>9, <2>1 DEF Ans
  <2>3. h \in Seq(Units) /\ Len(h) = 1 /\ h[1] = Status11
    BY <1>3, <2>1
  <2>4. /\ a.units \in Seq(Units) /\ Len(a.units) = 5 /\ \A i \in 1..1 : a.units[i] = h[i]
        /\ \A i \in 1..4 : a.units[1 + i] = e[i]
    <3>1. /\ h \o e \in Seq(Units) /\ Len(h \o e) = Len(h) + Len(e)
          /\ \A i \in 1..Len(h) : (h \o e)[i] = h[i]
          /\ \A i \in 1..Len(e) : (h \o e)[Len(h) + i] = e[i]
      BY <1>4, <2>3, Joined
    <3>. QED
      BY <1>4, <2>2, <2>3, <3>1
  <2>5. /\ a.units[1] = Status11 /\ a.units[1 + 1] = CR /\ a.units[1 + 2] = NL
        /\ a.units[1 + 3] = CR /\ a.units[1 + 4] = NL
    BY <1>4, <2>3, <2>4
  <2>. QED
    BY <1>5, <2>2, <2>4, <2>5
<1>10. CASE a = Ans(<<Status403>> \o <<CR, NL, CR, NL>>, FALSE, {})
  <2>1. PICK h : h = <<Status403>>
    OBVIOUS
  <2>2. /\ a.units = h \o e /\ a.odd = {}
        /\ ~a.accepts /\ a.accepts \in BOOLEAN
    BY <1>2, <1>10, <2>1 DEF Ans
  <2>3. h \in Seq(Units) /\ Len(h) = 1 /\ h[1] = Status403
    BY <1>3, <2>1
  <2>4. /\ a.units \in Seq(Units) /\ Len(a.units) = 5 /\ \A i \in 1..1 : a.units[i] = h[i]
        /\ \A i \in 1..4 : a.units[1 + i] = e[i]
    <3>1. /\ h \o e \in Seq(Units) /\ Len(h \o e) = Len(h) + Len(e)
          /\ \A i \in 1..Len(h) : (h \o e)[i] = h[i]
          /\ \A i \in 1..Len(e) : (h \o e)[Len(h) + i] = e[i]
      BY <1>4, <2>3, Joined
    <3>. QED
      BY <1>4, <2>2, <2>3, <3>1
  <2>5. /\ a.units[1] = Status403 /\ a.units[1 + 1] = CR /\ a.units[1 + 2] = NL
        /\ a.units[1 + 3] = CR /\ a.units[1 + 4] = NL
    BY <1>4, <2>3, <2>4
  <2>. QED
    BY <1>5, <2>2, <2>4, <2>5
<1>. QED
  BY <1>1, <1>6, <1>7, <1>8, <1>9, <1>10

\* Every answer is made of units, and what it may record.
LEMMA AnswerUnits ==
  ASSUME NEW m, NEW a \in Answers(m), data \in Seq(Units)
  PROVE  /\ a.units \in Seq(Units) /\ a.accepts \in BOOLEAN
         /\ a.odd \subseteq {"http11", "lfOnly", "version1", "gssapi", "unknownType"}
         /\ Total(m, a) \in Seq(Units) /\ Len(Total(m, a)) \in Nat
<1>1. \/ a \in HelloAnswers \/ a \in AuthAnswers \/ a \in HttpAnswers
      \/ a \in Socks4Answers \/ a \in Socks5Answers
  BY DEF Answers
<1>2. /\ a.units \in Seq(Units) /\ a.accepts \in BOOLEAN
      /\ a.odd \subseteq {"http11", "lfOnly", "version1", "gssapi", "unknownType"}
  <2>1. CASE a \in HelloAnswers
    BY <2>1, ShapeHello
  <2>2. CASE a \in AuthAnswers
    BY <2>2, ShapeAuth
  <2>3. CASE a \in HttpAnswers
    BY <2>3, ShapeHttp
  <2>4. CASE a \in Socks4Answers
    BY <2>4, Shape4
  <2>5. CASE a \in Socks5Answers
    BY <2>5, Shape5
  <2>. QED
    BY <1>1, <2>1, <2>2, <2>3, <2>4, <2>5
<1>. QED
  BY <1>2, TotalParts

\* Which answers a message may have depends on the kind of proxy, and on
\* whether it has asked for GSSAPI.
LEMMA AnswersKept ==
  ASSUME kind' = kind, "gssapi" \in causes' <=> "gssapi" \in causes, NEW m
  PROVE  Answers(m)' = Answers(m)
<1>1. PICK g : g = {Ans(<<5, 0, 0, 1>> \o [k \in 1..6 |-> 0], TRUE, {}),
                    Ans(<<5, 0, 0, 3, 2>> \o [k \in 1..4 |-> 0], TRUE, {}),
                    Ans(<<5, 0, 0, 4>> \o [k \in 1..18 |-> 0], TRUE, {}),
                    Ans(<<5, 0, 0, 0>> \o [k \in 1..6 |-> 0], TRUE, {"unknownType"})}
  OBVIOUS
<1>2. PICK r : r = {Ans(<<5, 2, 0, 1>> \o [k \in 1..6 |-> 0], FALSE, {})}
  OBVIOUS
<1>3. Socks5Answers = (IF "gssapi" \in causes THEN {} ELSE g) \cup r
  BY <1>1, <1>2 DEF Socks5Answers
<1>4. Socks5Answers' = (IF "gssapi" \in causes' THEN {} ELSE g) \cup r
  BY <1>1, <1>2 DEF Socks5Answers
<1>5. Socks5Answers' = Socks5Answers
  BY <1>3, <1>4
<1>. QED
  BY <1>5 DEF Answers

\* The answers to the request, by kind of proxy.
LEMMA RequestAnswers ==
  ASSUME NEW m, m.type = "connect"
  PROVE  /\ kind = "HTTP" => Answers(m) = HttpAnswers
         /\ kind = "SOCKS4" => Answers(m) = Socks4Answers
         /\ kind = "SOCKS5" => Answers(m) = Socks5Answers
BY DEF Answers

\* A step that only moves or cuts off what is unread leaves the call where it is
\* in its dialogue.
LEMMA DialogueKept ==
  ASSUME data \in Seq(Units), UNCHANGED <<inputs, want, asked, answered, granted, causes>>,
         Silent => Silent',
         \A s : \A k \in Nat : Len(s) \in Nat /\ Due(s, k) => Due(s, k)'
  PROVE  /\ Waiting => Waiting'
         /\ Replied(0) => Replied(0)'
         /\ Passed => Passed'
<1>1. UNCHANGED <<asked, answered, kind, data, want, granted, causes>>
  BY DEF inputs
<1>2. PICK l : l = Last
  OBVIOUS
<1>3. Last' = l /\ Answers(l)' = Answers(l)
  BY <1>1, <1>2, AnswersKept DEF Last
<1>4. ASSUME NEW a
      PROVE  Total(l, a)' = Total(l, a) /\ (Recorded(l, a) => Recorded(l, a)')
  BY <1>1 DEF Total, Recorded
<1>5. Waiting => Waiting'
  BY <1>1 DEF Waiting, Clean
<1>6. ASSUME NEW a \in Answers(l), NEW k \in Nat, Due(Total(l, a), k)
      PROVE  Due(Total(l, a), k)'
  <2>1. PICK s : s = Total(l, a)
    OBVIOUS
  <2>2. Len(s) \in Nat
    BY <2>1, AnswerUnits
  <2>3. Due(s, k)'
    BY <1>6, <2>1, <2>2
  <2>4. Total(l, a)' = s
    BY <1>4, <2>1
  <2>. QED
    BY <2>3, <2>4 DEF Due
<1>7. Replied(0) => Replied(0)'
  <2>1. SUFFICES ASSUME Replied(0)
                 PROVE  Replied(0)'
    OBVIOUS
  <2>2. PICK a \in Answers(l) : Due(Total(l, a), 0) /\ Recorded(l, a)
    BY <1>2, <2>1 DEF Replied
  <2>3. a \in Answers(l)' /\ Due(Total(l, a), 0)' /\ Recorded(l, a)'
    BY <1>3, <1>4, <1>6, <2>2
  <2>4. asked' # <<>> /\ answered' = Len(asked')
    BY <1>1, <2>1 DEF Replied
  <2>. QED
    BY <1>3, <2>3, <2>4 DEF Replied
<1>8. Passed => Passed'
  <2>1. SUFFICES ASSUME Passed
                 PROVE  Passed'
    OBVIOUS
  <2>2. PICK a \in Answers(l) :
          Due(Total(l, a), 5) /\ Recorded(l, a) /\ a.accepts /\ want = Rest(a.units)
    BY <1>2, <2>1 DEF Passed
  <2>3. a \in Answers(l)' /\ Due(Total(l, a), 5)' /\ Recorded(l, a)' /\ want' = Rest(a.units)
    BY <1>1, <1>3, <1>4, <1>6, <2>2
  <2>4. asked' # <<>> /\ answered' = Len(asked')
    BY <1>1, <2>1 DEF Passed
  <2>. QED
    BY <1>3, <2>2, <2>3, <2>4 DEF Passed
<1>. QED
  BY <1>5, <1>7, <1>8


\* The same for the rows of an answer, if the step keeps the place of a row.
LEMMA RowsKept ==
  ASSUME data \in Seq(Units), UNCHANGED <<inputs, asked, answered, granted>>,
         causes' = causes \/ causes' = causes \cup {"raced"},
         \A s : \A k \in Nat : Len(s) \in Nat /\ Due(s, k) => Due(s, k)',
         \A a \in HttpAnswers : \A k \in Nat : RowAt(a, k) => RowAt(a, k)',
         InRows
  PROVE  InRows'
<1>1. UNCHANGED <<asked, answered, kind, data, granted>>
  BY DEF inputs
<1>2. PICK l : l = Last
  OBVIOUS
<1>3. Last' = l
  BY <1>1, <1>2 DEF Last
<1>4. ASSUME NEW a
      PROVE  Total(l, a)' = Total(l, a) /\ (Recorded(l, a) => Recorded(l, a)')
  <2>1. Total(l, a)' = Total(l, a)
    BY <1>1 DEF Total
  <2>2. /\ causes \subseteq causes'
        /\ causes' \cap {"refused", "version1"} = causes \cap {"refused", "version1"}
    OBVIOUS
  <2>. QED
    BY <1>1, <2>1, <2>2 DEF Recorded
<1>5. PICK a \in HttpAnswers : \E k \in 0..Len(Total(l, a)) :
        Due(Total(l, a), k) /\ Recorded(l, a) /\ RowAt(a, k)
  BY <1>2 DEF InRows
<1>6. PICK k \in 0..Len(Total(l, a)) : Due(Total(l, a), k) /\ Recorded(l, a) /\ RowAt(a, k)
  BY <1>5
<1>7. PICK s : s = Total(l, a)
  OBVIOUS
<1>8. Len(s) \in Nat /\ k \in Nat
  BY <1>7, ShapeHttp, TotalParts
<1>9. Due(s, k)' /\ RowAt(a, k)'
  BY <1>6, <1>7, <1>8
<1>10. Total(l, a)' = s
  BY <1>4, <1>7
<1>11. Due(Total(l, a), k)'
  BY <1>9, <1>10 DEF Due
<1>12. asked' # <<>> /\ answered' = Len(asked') /\ k \in 0..Len(s)
  BY <1>1, <1>6, <1>7 DEF InRows
<1>13. Recorded(l, a)'
  BY <1>4, <1>6
<1>14. \E c \in HttpAnswers : \E j \in 0..Len(Total(l, c)') :
         Due(Total(l, c), j)' /\ Recorded(l, c)' /\ RowAt(c, j)'
  BY <1>9, <1>10, <1>11, <1>12, <1>13
<1>. QED
  BY <1>3, <1>12, <1>14 DEF InRows

\* Once the answer that grants the request is read the target's bytes follow.
LEMMA BehindAnswer ==
  ASSUME Unread' \in Seq(Units), data \in Seq(Units), data' = data,
         NEW m, NEW a, a.units \in Seq(Units), m.type = "connect", a.accepts,
         NEW t, t = Total(m, a), NEW n, n = Len(a.units), Due(t, n)'
  PROVE  \A d : d = data => Due(d, 0)'
<1>1. n \in Nat /\ Len(t) = n + Len(data) /\ \A i \in 1..Len(data) : t[n + i] = data[i]
  BY TotalParts
<1>2. Len(data) \in Nat /\ Len(Unread') \in Nat
  OBVIOUS
<1>3. /\ Len(Unread') <= Len(t) - n /\ \A i \in 1..Len(Unread') : Unread'[i] = t[n + i]
      /\ ~down' => Len(Unread') = Len(t) - n
  BY DEF Due
<1>4. Len(Unread') <= Len(data) /\ (~down' => Len(Unread') = Len(data))
  BY <1>1, <1>2, <1>3
<1>5. ASSUME NEW i \in 1..Len(Unread')
      PROVE  Unread'[i] = data[0 + i]
  <2>1. i \in 1..Len(data) /\ 0 + i = i
    BY <1>2, <1>4
  <2>. QED
    BY <1>1, <1>3, <2>1
<1>6. 0 \in 0..Len(data) /\ Len(data) - 0 = Len(data)
  BY <1>2
<1>7. ASSUME NEW d, d = data
      PROVE  Due(d, 0)'
  BY <1>4, <1>5, <1>6, <1>7 DEF Due
<1>. QED
  BY <1>7

\* Behind any other answer there is nothing.
LEMMA NothingBehind ==
  ASSUME Unread' \in Seq(Units), data \in Seq(Units),
         NEW m, NEW a, a.units \in Seq(Units), ~(m.type = "connect" /\ a.accepts),
         NEW t, t = Total(m, a), NEW n, n = Len(a.units), Due(t, n)'
  PROVE  Unread' = <<>>
<1>1. Len(t) = n /\ n \in Nat
  BY TotalParts
<1>2. Len(Unread') \in Nat
  OBVIOUS
<1>3. Len(Unread') = 0
  BY <1>1, <1>2 DEF Due
<1>. QED
  BY <1>3

\* The newline that ends the first row.
LEMMA FirstOfRow ==
  ASSUME wire \in Seq(Units), NEW n \in Nat, n <= Len(wire), Newlines(SubSeq(wire, 1, n)) # {}
  PROVE  LET k == FirstNewline(wire) IN
         /\ k \in 1..Len(wire) /\ wire[k] = NL /\ \A i \in 1..k - 1 : wire[i] # NL
<1>1. PICK s : s = SubSeq(wire, 1, n)
  OBVIOUS
<1>2. \A i \in 1..n : wire[i] \in Units
  OBVIOUS
<1>3. s \in Seq(Units) /\ Len(s) = n /\ \A i \in 1..n : s[i] = wire[i]
  BY <1>1, <1>2, SubSeqProperties
<1>4. PICK k \in 1..n : s[k] = NL
  BY <1>1, <1>3 DEF Newlines
<1>5. k \in Newlines(wire) /\ Newlines(wire) \subseteq Nat
  BY <1>3, <1>4 DEF Newlines
<1>6. FirstNewline(wire) \in Newlines(wire) /\ \A j \in Newlines(wire) : FirstNewline(wire) <= j
  <2>1. SB!Min(Newlines(wire)) \in Newlines(wire)
        /\ \A x \in Newlines(wire) : SB!Min(Newlines(wire)) <= x
    BY <1>5, SB!LeastOf
  <2>. QED
    BY <2>1 DEF FirstNewline
<1>. QED
  BY <1>6 DEF Newlines

\* A call that fails keeps its invariant if it has a reason.
LEMMA FailKeeps ==
  ASSUME TypeOK', pc' = "failed", open' => fd' = 0 /\ kind' # "direct",
         \/ port' <= 0 \/ host' = "v6" \/ down'
         \/ causes' \cap {"local", "refused", "http11", "version1"} # {}
  PROVE  IInv'
BY DEF IInv, Stage, Reply, Done, Failed, FailsForReason, Before, RowStages, Replies5


-----------------------------------------------------------------------------
(* The steps keep the invariant.                                           *)

\* What every step starts from.
LEMMA Types ==
  ASSUME TypeOK
  PROVE  /\ Sequences /\ data \in Seq(Units) /\ port \in Int
         /\ asked \in Seq(Messages) /\ Len(asked) \in Nat
         /\ port <= MaxPort
<1>1. port \in -1..MaxPort
  BY InputAssumption DEF TypeOK
<1>2. MaxPort \in Int
  BY SMT DEF MaxPort
<1>3. port \in Int /\ port <= MaxPort
  BY <1>1, <1>2
<1>. QED
  BY <1>3, InputAssumption DEF TypeOK, Sequences

\* What a failing step leaves open.
Leftover == open' \in BOOLEAN /\ (open' => fd = 0 /\ kind # "direct")

\* A step that fails for a reason, and changes nothing else but that reason.
LEMMA GiveUp ==
  ASSUME IInv, pc' = "failed", Leftover,
         UNCHANGED <<inputs, want, got, first, peeked, asked, wire, proxyVars>>,
         \/ causes' = causes /\ (port <= 0 \/ host = "v6" \/ down)
         \/ causes' = causes \cup {"local"}
  PROVE  IInv'
<1>1. UNCHANGED <<kind, host, port, data, fd, want, got, first, peeked, asked, wire,
                  answered, coming, down, granted>>
  BY DEF inputs, proxyVars
<1>2. TypeOK'
  <2>1. TypeOK /\ pc' = "failed" /\ open' \in BOOLEAN
    BY DEF IInv, Leftover
  <2>2. causes' \subseteq {"local", "refused", "http11", "lfOnly", "version1", "gssapi", "unknownType", "raced"}
    BY <2>1 DEF TypeOK
  <2>. QED
    BY <1>1, <2>1, <2>2 DEF TypeOK
<1>3. \/ port' <= 0 \/ host' = "v6" \/ down'
      \/ causes' \cap {"local", "refused", "http11", "version1"} # {}
  BY <1>1
<1>4. open' => fd' = 0 /\ kind' # "direct"
  BY <1>1 DEF Leftover
<1>. QED
  BY <1>2, <1>3, <1>4, FailKeeps

\* CloseConnection() leaves number 0 open and no other.
LEMMA Closes ==
  ASSUME TypeOK, CloseConnection(fd), kind # "direct"
  PROVE  Leftover
<1>1. fd \in Nat
  <2>1. fd \in Fds
    BY DEF TypeOK
  <2>. QED
    BY <2>1, InputAssumption
<1>2. open' = (open /\ fd <= 0) /\ open \in BOOLEAN
  BY DEF TypeOK, CloseConnection
<1>3. fd <= 0 => fd = 0
  BY <1>1
<1>. QED
  BY <1>2, <1>3, Zenon DEF Leftover

\* So does a way out of SocksConnection().
LEMMA Fails ==
  ASSUME IInv, Fail, kind # "direct"
  PROVE  pc' = "failed" /\ Leftover
BY Closes DEF IInv, Fail

\* CheckArgs keeps the invariant.
LEMMA CheckArgsStep ==
  ASSUME IInv, CheckArgs
  PROVE  IInv'
<1>1. CASE port <= 0
  <2>1. /\ pc' = "failed" /\ open' = FALSE /\ causes' = causes
        /\ UNCHANGED <<inputs, want, got, first, peeked, asked, wire, proxyVars>>
    BY <1>1 DEF CheckArgs, IInv, Stage
  <2>2. Leftover
    BY <2>1 DEF Leftover
  <2>. QED
    BY <1>1, <2>1, <2>2, GiveUp
<1>2. CASE ~(port <= 0)
  <2>1. /\ pc = "args" /\ pc' = "resolve"
        /\ UNCHANGED <<inputs, open, want, got, first, peeked, asked, wire, proxyVars, causes>>
    BY <1>2 DEF CheckArgs
  <2>2. port > 0 /\ port <= MaxPort /\ TypeOK /\ Stage
    BY <1>2, Types DEF IInv
  <2>3. TypeOK'
    BY <2>1, <2>2 DEF TypeOK, inputs, proxyVars
  <2>4. Stage'
    BY <2>1, <2>2 DEF Stage, Before, RowStages, Replies5, Silent, inputs, proxyVars
  <2>5. Reply' /\ Done' /\ Failed'
    BY <2>1 DEF Reply, Done, Failed, RowStages
  <2>. QED
    BY <2>3, <2>4, <2>5 DEF IInv
<1>. QED
  BY <1>1, <1>2

\* LocalError keeps the invariant: it closes whatever is open.
LEMMA LocalErrorStep ==
  ASSUME IInv, LocalError
  PROVE  IInv'
<1>1. /\ pc' = "failed" /\ open' = FALSE /\ causes' = causes \cup {"local"}
      /\ UNCHANGED <<inputs, want, got, first, peeked, asked, wire, proxyVars>>
  BY DEF LocalError
<1>2. Leftover
  BY <1>1 DEF Leftover
<1>. QED
  BY <1>1, <1>2, GiveUp

\* So does NoAddress.
LEMMA NoAddressStep ==
  ASSUME IInv, NoAddress
  PROVE  IInv'
<1>1. kind # "direct"
  BY DEF NoAddress, IInv, Stage, Replies5
<1>2. pc' = "failed" /\ Leftover
  BY <1>1, Fails DEF NoAddress
<1>. QED
  BY <1>2, GiveUp DEF NoAddress

\* So does ReadShort: the connection has ended.
LEMMA ReadShortStep ==
  ASSUME IInv, ReadShort
  PROVE  IInv'
<1>1. kind # "direct"
  BY DEF ReadShort, Reading, IInv, Stage, Replies5
<1>2. pc' = "failed" /\ Leftover
  BY <1>1, Fails DEF ReadShort
<1>. QED
  BY <1>2, GiveUp DEF ReadShort, AtEnd

\* Connect keeps the invariant: nothing is asked yet.
LEMMA ConnectStep ==
  ASSUME IInv, Connect
  PROVE  IInv'
<1>1. /\ UNCHANGED <<inputs, want, got, first, peeked, asked, wire, proxyVars, causes>>
      /\ \/ pc = "resolve" /\ pc' = "socket" /\ open' = open
         \/ pc = "socket" /\ pc' = "options" /\ open' = TRUE
         \/ pc = "options" /\ pc' = "connect" /\ open' = open
         \/ pc = "connect" /\ kind = "direct" /\ pc' = "ok" /\ open' = open
         \/ pc = "connect" /\ kind # "direct" /\ pc' = "ask" /\ open' = open
  BY DEF Connect
<1>2. UNCHANGED <<kind, host, port, data, fd, got, wire, coming, asked, answered, down, granted, causes, first>>
  BY <1>1 DEF inputs, proxyVars
<1>3. TypeOK /\ Stage
  BY DEF IInv
<1>4. TypeOK'
  BY <1>1, <1>3 DEF TypeOK, inputs, proxyVars
<1>5. asked = <<>> /\ answered = 0 /\ Silent /\ causes = {} /\ first /\ port > 0 /\ port <= MaxPort
  BY <1>1, <1>3 DEF Stage, Before
<1>6. Stage'
  BY <1>1, <1>2, <1>3, <1>5 DEF Stage, Before, RowStages, Replies5, Silent
<1>7. Done'
  BY <1>1, <1>2, <1>5 DEF Done, Silent
<1>8. Reply' /\ Failed'
  BY <1>1 DEF Reply, Failed, RowStages
<1>. QED
  BY <1>4, <1>6, <1>7, <1>8 DEF IInv

\* A message is sent: the proxy's answer to it is awaited, or the proxy is gone.
LEMMA SendStep ==
  ASSUME IInv, NEW m \in Messages, NEW next, NEW n \in Nat, n <= 257, Send(m, next, n),
         answered = Len(asked), Silent, Clean, kind # "direct",
         next \in {"reply4", "method", "authReply", "reply5", "peek"}
  PROVE  \/ IInv'
         \/ /\ TypeOK' /\ Waiting' /\ Last' = m /\ pc' = next /\ want' = n /\ got' = <<>>
            /\ UNCHANGED <<inputs, open, first, peeked, wire, proxyVars, causes>>
<1>1. CASE down /\ Fail /\ UNCHANGED <<inputs, want, got, first, peeked, asked, wire, proxyVars, causes>>
  BY <1>1, Fails, GiveUp
<1>2. CASE /\ asked' = Append(asked, m)
           /\ pc' = next /\ want' = n /\ got' = <<>>
           /\ UNCHANGED <<inputs, open, first, peeked, wire, proxyVars, causes>>
  <2>1. TypeOK /\ asked \in Seq(Messages) /\ Len(asked) \in Nat
    BY Types DEF IInv
  <2>2. /\ asked' \in Seq(Messages) /\ Len(asked') = Len(asked) + 1 /\ asked'[Len(asked')] = m
        /\ asked' # <<>>
    BY <1>2, <2>1
  <2>3. UNCHANGED <<kind, host, port, data, fd, answered, coming, down, granted, causes, wire>>
    BY <1>2 DEF inputs, proxyVars
  <2>4. <<>> \in Seq(Units)
    OBVIOUS
  <2>5. answered' \in 0..Len(asked')
    BY <2>1, <2>2, <2>3
  <2>6. TypeOK'
    BY <1>2, <2>1, <2>2, <2>3, <2>4, <2>5 DEF TypeOK
  <2>7. Waiting'
    BY <1>2, <2>1, <2>2, <2>3 DEF Waiting, Silent, Clean
  <2>8. Last' = m
    BY <2>2 DEF Last
  <2>. QED
    BY <1>2, <2>6, <2>7, <2>8
<1>. QED
  BY <1>1, <1>2 DEF Send

\* A request for a port is a message, and so is one for a port with its bytes
\* swapped.
LEMMA Requests ==
  ASSUME host \in Hosts, port > 0, port <= MaxPort, port \in Int
  PROVE  Target(port) \in Messages /\ Target(Swapped(port)) \in Messages
<1>1. PICK a : a = port % 256
  OBVIOUS
<1>2. PICK b : b = port \div 256
  OBVIOUS
<1>3. a >= 0 /\ a < 256 /\ a \in Int
  BY <1>1, SMT
<1>4. b >= 0 /\ b < 256 /\ b \in Int
  BY <1>2, SMT DEF MaxPort
<1>5. a * 256 + b \in Int /\ a * 256 + b >= 0 /\ a * 256 + b <= MaxPort
  BY <1>3, <1>4, SMT DEF MaxPort
<1>6. MaxPort \in Int
  BY SMT DEF MaxPort
<1>7. port \in 0..MaxPort /\ a * 256 + b \in 0..MaxPort
  BY <1>5, <1>6, SMT
<1>8. \A x \in 0..MaxPort : Target(x) \in Messages
  BY DEF Target, Messages
<1>9. Swapped(port) = a * 256 + b
  BY <1>1, <1>2, Zenon DEF Swapped
<1>. QED
  BY <1>7, <1>8, <1>9

\* AskHttp keeps the invariant.
LEMMA AskHttpStep ==
  ASSUME IInv, AskHttp
  PROVE  IInv'
<1>1. pc = "ask" /\ kind = "HTTP" /\ TypeOK /\ Stage
  BY DEF AskHttp, IInv
<1>2. CASE /\ host = "v6" /\ Fail
           /\ UNCHANGED <<inputs, want, got, first, peeked, asked, wire, proxyVars, causes>>
  BY <1>1, <1>2, Fails, GiveUp
<1>3. CASE host # "v6" /\ Send(Target(Swapped(port)), "peek", 0)
  <2>1. PICK m : m = Target(Swapped(port))
    OBVIOUS
  <2>2. port > 0 /\ port <= MaxPort /\ asked = <<>> /\ answered = 0 /\ Silent /\ causes = {} /\ first /\ open
    BY <1>1 DEF Stage, Before
  <2>3. m \in Messages
    BY <1>1, <2>1, <2>2, Requests, Types DEF TypeOK
  <2>4. answered = Len(asked) /\ Clean
    BY <2>2 DEF Clean
  <2>5. \/ IInv'
        \/ /\ TypeOK' /\ Waiting' /\ Last' = m /\ pc' = "peek"
           /\ UNCHANGED <<inputs, open, first, peeked, wire, proxyVars, causes>>
    <3>1. Send(m, "peek", 0) /\ 0 \in Nat /\ 0 <= 257
      BY <1>3, <2>1
    <3>. QED
      BY <1>1, <2>2, <2>3, <2>4, <3>1, SendStep
  <2>6. ASSUME /\ TypeOK' /\ Waiting' /\ Last' = m /\ pc' = "peek"
               /\ UNCHANGED <<inputs, open, first, peeked, wire, proxyVars, causes>>
        PROVE  IInv'
    <3>1. UNCHANGED <<kind, host, port, open, first>>
      BY <2>6 DEF inputs
    <3>2. Stage'
      BY <1>1, <1>3, <2>2, <2>6, <3>1 DEF Stage, Before, RowStages, Replies5
    <3>3. Wanted' = m
      BY <1>1, <2>1, <3>1 DEF Wanted, Target
    <3>4. Reply'
      BY <2>2, <2>6, <3>1, <3>3 DEF Reply, RowStages
    <3>5. Done' /\ Failed'
      BY <2>6 DEF Done, Failed
    <3>. QED
      BY <2>6, <3>2, <3>4, <3>5 DEF IInv
  <2>. QED
    BY <2>5, <2>6
<1>. QED
  BY <1>2, <1>3 DEF AskHttp


\* AskSocks4 keeps the invariant.
LEMMA AskSocks4Step ==
  ASSUME IInv, AskSocks4
  PROVE  IInv'
<1>1. pc = "ask" /\ TypeOK /\ Stage /\ kind = "SOCKS4"
  BY DEF AskSocks4, IInv
<1>2. PICK m : m = Target(port)
  OBVIOUS
<1>3. asked = <<>> /\ answered = 0 /\ Silent /\ causes = {} /\ port > 0 /\ port <= MaxPort /\ open
  BY <1>1 DEF Stage, Before, RowStages, Replies5, Clean
<1>4. m \in Messages
  BY <1>1, <1>2, <1>3, Requests, Types DEF TypeOK, Messages
<1>5. \/ IInv'
      \/ /\ TypeOK' /\ Waiting' /\ Last' = m /\ pc' = "reply4" /\ want' = 8
         /\ UNCHANGED <<inputs, open, first, peeked, wire, proxyVars, causes>>
  <2>1. Send(m, "reply4", 8) /\ 8 \in Nat /\ 8 <= 257
    BY <1>2 DEF AskSocks4
  <2>2. answered = Len(asked) /\ Silent /\ Clean
    BY <1>3 DEF Clean
  <2>. QED
    BY <1>1, <1>3, <1>4, <2>1, <2>2, SendStep
<1>6. ASSUME /\ TypeOK' /\ Waiting' /\ Last' = m /\ pc' = "reply4" /\ want' = 8
             /\ UNCHANGED <<inputs, open, first, peeked, wire, proxyVars, causes>>
      PROVE  IInv'
  <2>1. UNCHANGED <<kind, host, port, open, first>>
    BY <1>6 DEF inputs
  <2>2. Stage'
    BY <1>1, <1>3, <1>6, <2>1 DEF Stage, Before, RowStages, Replies5
  <2>3. Wanted' = m
    BY <1>1, <1>2, <1>3, <2>1 DEF Wanted, Target
  <2>4. Reply'
    BY <1>6, <2>1, <2>3 DEF Reply, RowStages
  <2>5. Done' /\ Failed'
    BY <1>6 DEF Done, Failed
  <2>. QED
    BY <1>6, <2>2, <2>4, <2>5 DEF IInv
<1>. QED
  BY <1>5, <1>6

\* So does Hello.
LEMMA HelloStep ==
  ASSUME IInv, Hello
  PROVE  IInv'
<1>1. pc = "ask" /\ TypeOK /\ Stage /\ kind = "SOCKS5"
  BY DEF Hello, IInv
<1>2. PICK m : m = [type |-> "hello"]
  OBVIOUS
<1>3. asked = <<>> /\ answered = 0 /\ Silent /\ causes = {} /\ port > 0 /\ port <= MaxPort /\ open
  BY <1>1 DEF Stage, Before, RowStages, Replies5, Clean
<1>4. m \in Messages
  BY <1>1, <1>2, <1>3, Requests, Types DEF TypeOK, Messages
<1>5. \/ IInv'
      \/ /\ TypeOK' /\ Waiting' /\ Last' = m /\ pc' = "method" /\ want' = 2
         /\ UNCHANGED <<inputs, open, first, peeked, wire, proxyVars, causes>>
  <2>1. Send(m, "method", 2) /\ 2 \in Nat /\ 2 <= 257
    BY <1>2 DEF Hello
  <2>2. answered = Len(asked) /\ Silent /\ Clean
    BY <1>3 DEF Clean
  <2>. QED
    BY <1>1, <1>3, <1>4, <2>1, <2>2, SendStep
<1>6. ASSUME /\ TypeOK' /\ Waiting' /\ Last' = m /\ pc' = "method" /\ want' = 2
             /\ UNCHANGED <<inputs, open, first, peeked, wire, proxyVars, causes>>
      PROVE  IInv'
  <2>1. UNCHANGED <<kind, host, port, open, first>>
    BY <1>6 DEF inputs
  <2>2. Stage'
    BY <1>1, <1>3, <1>6, <2>1 DEF Stage, Before, RowStages, Replies5
  <2>3. m = [type |-> "hello"]
    BY <1>1, <1>2, <1>3, <2>1 DEF Wanted, Target
  <2>4. Reply'
    BY <1>6, <2>1, <2>3 DEF Reply, RowStages
  <2>5. Done' /\ Failed'
    BY <1>6 DEF Done, Failed
  <2>. QED
    BY <1>6, <2>2, <2>4, <2>5 DEF IInv
<1>. QED
  BY <1>5, <1>6

\* So does Authenticate, once the proxy has asked for it.
LEMMA AuthenticateStep ==
  ASSUME IInv, Authenticate
  PROVE  IInv'
<1>1. pc = "auth" /\ TypeOK /\ Stage
  BY DEF Authenticate, IInv
<1>2. PICK m : m = [type |-> "auth"]
  OBVIOUS
<1>3. answered = Len(asked) /\ Silent /\ Clean /\ kind = "SOCKS5" /\ port > 0 /\ port <= MaxPort /\ open
  BY <1>1 DEF Stage, Before, RowStages, Replies5, Clean
<1>4. m \in Messages
  BY <1>1, <1>2, <1>3, Requests, Types DEF TypeOK, Messages
<1>5. \/ IInv'
      \/ /\ TypeOK' /\ Waiting' /\ Last' = m /\ pc' = "authReply" /\ want' = 2
         /\ UNCHANGED <<inputs, open, first, peeked, wire, proxyVars, causes>>
  <2>1. Send(m, "authReply", 2) /\ 2 \in Nat /\ 2 <= 257
    BY <1>2 DEF Authenticate
  <2>2. answered = Len(asked) /\ Silent /\ Clean
    BY <1>3 DEF Clean
  <2>. QED
    BY <1>1, <1>3, <1>4, <2>1, <2>2, SendStep
<1>6. ASSUME /\ TypeOK' /\ Waiting' /\ Last' = m /\ pc' = "authReply" /\ want' = 2
             /\ UNCHANGED <<inputs, open, first, peeked, wire, proxyVars, causes>>
      PROVE  IInv'
  <2>1. UNCHANGED <<kind, host, port, open, first>>
    BY <1>6 DEF inputs
  <2>2. Stage'
    BY <1>1, <1>3, <1>6, <2>1 DEF Stage, Before, RowStages, Replies5
  <2>3. m = [type |-> "auth"]
    BY <1>1, <1>2, <1>3, <2>1 DEF Wanted, Target
  <2>4. Reply'
    BY <1>6, <2>1, <2>3 DEF Reply, RowStages
  <2>5. Done' /\ Failed'
    BY <1>6 DEF Done, Failed
  <2>. QED
    BY <1>6, <2>2, <2>4, <2>5 DEF IInv
<1>. QED
  BY <1>5, <1>6

\* So does AskSocks5, once nothing is left to agree on.
LEMMA AskSocks5Step ==
  ASSUME IInv, AskSocks5
  PROVE  IInv'
<1>1. pc = "ask5" /\ TypeOK /\ Stage
  BY DEF AskSocks5, IInv
<1>2. PICK m : m = Target(port)
  OBVIOUS
<1>3. answered = Len(asked) /\ Silent /\ Clean /\ kind = "SOCKS5" /\ port > 0 /\ port <= MaxPort /\ open
  BY <1>1 DEF Stage, Before, RowStages, Replies5, Clean
<1>4. m \in Messages
  BY <1>1, <1>2, <1>3, Requests, Types DEF TypeOK, Messages
<1>5. \/ IInv'
      \/ /\ TypeOK' /\ Waiting' /\ Last' = m /\ pc' = "reply5" /\ want' = 5
         /\ UNCHANGED <<inputs, open, first, peeked, wire, proxyVars, causes>>
  <2>1. Send(m, "reply5", 5) /\ 5 \in Nat /\ 5 <= 257
    BY <1>2 DEF AskSocks5
  <2>2. answered = Len(asked) /\ Silent /\ Clean
    BY <1>3 DEF Clean
  <2>. QED
    BY <1>1, <1>3, <1>4, <2>1, <2>2, SendStep
<1>6. ASSUME /\ TypeOK' /\ Waiting' /\ Last' = m /\ pc' = "reply5" /\ want' = 5
             /\ UNCHANGED <<inputs, open, first, peeked, wire, proxyVars, causes>>
      PROVE  IInv'
  <2>1. UNCHANGED <<kind, host, port, open, first>>
    BY <1>6 DEF inputs
  <2>2. Stage'
    BY <1>1, <1>3, <1>6, <2>1 DEF Stage, Before, RowStages, Replies5
  <2>3. Wanted' = m
    BY <1>1, <1>2, <1>3, <2>1 DEF Wanted, Target
  <2>4. Reply'
    BY <1>6, <2>1, <2>3 DEF Reply, RowStages
  <2>5. Done' /\ Failed'
    BY <1>6 DEF Done, Failed
  <2>. QED
    BY <1>6, <2>2, <2>4, <2>5 DEF IInv
<1>. QED
  BY <1>5, <1>6


\* Units that only move stay due where they were.
LEMMA MovesKeepDue ==
  ASSUME Unread' = Unread, down' = down
  PROVE  \A s : \A k \in Nat : Len(s) \in Nat /\ Due(s, k) => Due(s, k)'
BY DEF Due

\* ReadSome keeps the invariant.
LEMMA ReadSomeStep ==
  ASSUME IInv, ReadSome
  PROVE  IInv'
<1>1. /\ TypeOK /\ Stage /\ Reply /\ Sequences /\ data \in Seq(Units)
      /\ pc \in {"reply4", "method", "authReply", "reply5", "tail5"} /\ wire # <<>>
      /\ Len(got) < want
      /\ UNCHANGED <<inputs, pc, open, want, first, peeked, asked, proxyVars, causes>>
  BY Types DEF IInv, ReadSome, Reading
<1>2. PICK k \in 0..Len(wire) : TakeUpTo(k)
  <2>1. PICK n : n = want - Len(got)
    OBVIOUS
  <2>2. PICK k : k = IF n < Len(wire) THEN n ELSE Len(wire)
    OBVIOUS
  <2>3. want \in 0..257 /\ Len(got) \in Nat /\ Len(wire) \in Nat
    BY <1>1 DEF TypeOK, Sequences
  <2>4. k \in 0..Len(wire)
    BY <1>1, <2>1, <2>2, <2>3
  <2>5. TakeUpTo(k)
    BY <2>1, <2>2 DEF ReadSome, TakeUpTo
  <2>. QED
    BY <2>4, <2>5
<1>3. UNCHANGED <<kind, host, port, data, fd, coming, answered, down, granted>>
  BY <1>1 DEF inputs, proxyVars
<1>4. got' \in Seq(Units) /\ wire' \in Seq(Units) /\ Unread' = Unread
  BY <1>1, <1>2, <1>3, TakeKeeps
<1>5. TypeOK'
  BY <1>1, <1>3, <1>4 DEF TypeOK
<1>6. ~Waiting /\ (Silent => Silent')
  BY <1>1 DEF Waiting, Silent
<1>7. (Replied(0) => Replied(0)') /\ (Passed => Passed')
  BY <1>1, <1>3, <1>4, <1>6, MovesKeepDue, DialogueKept
<1>8. Last' = Last /\ Wanted' = Wanted
  BY <1>1, <1>3 DEF Last, Wanted, Target
<1>9. Stage'
  BY <1>1, <1>3 DEF Stage, Before, RowStages, Replies5
<1>10. Reply'
  <2>1. pc' = pc /\ want' = want
    BY <1>1
  <2>. QED
    BY <1>1, <1>6, <1>7, <1>8, <2>1 DEF Reply, RowStages
<1>11. Done' /\ Failed'
  BY <1>1 DEF Done, Failed
<1>. QED
  BY <1>5, <1>9, <1>10, <1>11 DEF IInv

\* A reply that is complete is the proxy's answer to the last message; the
\* code looks at bytes of that answer, and reads on behind it.
LEMMA Judged ==
  ASSUME IInv, NEW next, NEW n, Judge(next, n), want > 0, Waiting \/ Replied(0)
  PROVE  /\ Replied(0) /\ data \in Seq(Units)
         /\ Unread' = wire \o coming /\ Unread' \in Seq(Units)
         /\ asked # <<>> /\ answered = Len(asked)
         /\ \E a \in Answers(Last) :
              /\ Recorded(Last, a) /\ a.units \in Seq(Units) /\ a.accepts \in BOOLEAN
              /\ a.odd \subseteq {"http11", "lfOnly", "version1", "gssapi", "unknownType"}
              /\ \A s, w : s = Total(Last, a) /\ w = want => Due(s, w)'
              /\ \A i \in 1..want : got[i] = Total(Last, a)[i]
              /\ want <= Len(a.units) =>
                   \A i \in 1..want : got[i] = a.units[i]
<1>1. /\ TypeOK /\ Sequences /\ data \in Seq(Units) /\ Len(got) = want /\ got' = <<>>
      /\ UNCHANGED <<wire, coming, down, asked, data>>
  BY Types DEF IInv, Judge, proxyVars, inputs
<1>2. want \in Nat /\ got # <<>>
  BY <1>1 DEF Sequences
<1>3. Replied(0) /\ asked # <<>> /\ answered = Len(asked)
  BY <1>2 DEF Waiting, Silent, Replied
<1>4. PICK l : l = Last
  OBVIOUS
<1>5. PICK a \in Answers(l) : Due(Total(l, a), 0) /\ Recorded(l, a)
  BY <1>3, <1>4 DEF Replied
<1>6. /\ a.units \in Seq(Units) /\ a.accepts \in BOOLEAN
      /\ a.odd \subseteq {"http11", "lfOnly", "version1", "gssapi", "unknownType"}
      /\ Total(l, a) \in Seq(Units) /\ Len(Total(l, a)) \in Nat
  BY <1>1, AnswerUnits
<1>7. PICK s : s = Total(l, a)
  OBVIOUS
<1>8. PICK w : w = want
  OBVIOUS
<1>9. (\A v : v = 0 + Len(got) => Due(s, v)') /\ Unread' = wire \o coming
  BY <1>1, <1>5, <1>6, <1>7, Consumes
<1>10. Unread' \in Seq(Units)
  BY <1>1, <1>9, UnreadParts
<1>11. Due(s, w)'
  BY <1>1, <1>2, <1>8, <1>9
<1>12. \A i \in 1..Len(got) : got[i] = s[0 + i]
  BY <1>1, <1>5, <1>6, <1>7, GotIsDue
<1>13. \A i \in 1..want : got[i] = s[i]
  BY <1>1, <1>12
<1>14. \A i \in 1..Len(a.units) : s[i] = a.units[i]
  BY <1>1, <1>6, <1>7, TotalParts
<1>15. Len(a.units) \in Nat
  BY <1>6
<1>16. want <= Len(a.units) => \A i \in 1..want : got[i] = a.units[i]
  BY <1>2, <1>13, <1>14, <1>15
<1>17. /\ \A t, v : t = Total(Last, a) /\ v = want => Due(t, v)'
       /\ \A i \in 1..want : got[i] = Total(Last, a)[i]
       /\ a \in Answers(Last) /\ Recorded(Last, a)
  BY <1>4, <1>5, <1>7, <1>8, <1>11, <1>13
<1>. QED
  BY <1>1, <1>3, <1>6, <1>9, <1>16, <1>17, <1>10


\* What a judged reply leaves: nothing of it, and a place to go on.
LEMMA JudgeTypes ==
  ASSUME IInv, NEW next \in {"ok", "failed", "ask5", "auth", "tail5"}, NEW n \in Nat, n <= 257, Judge(next, n)
  PROVE  /\ TypeOK' /\ got' = <<>> /\ want' = n /\ pc' = next
         /\ (next = "failed" /\ kind # "direct" => Leftover) /\ (next # "failed" => open' = open)
         /\ UNCHANGED <<kind, host, port, data, fd, first, peeked, asked, wire, coming, answered,
                        down, granted, causes>>
<1>1. /\ got' = <<>> /\ want' = n /\ pc' = next
      /\ (next = "failed" => CloseConnection(fd)) /\ (next # "failed" => open' = open)
      /\ UNCHANGED <<kind, host, port, data, fd, first, peeked, asked, wire, coming, answered,
                     down, granted, causes>>
  BY DEF Judge, Fail, inputs, proxyVars
<1>2. TypeOK /\ <<>> \in Seq(Units)
  BY DEF IInv
<1>3. open' \in BOOLEAN
  BY <1>1, <1>2 DEF TypeOK, CloseConnection
<1>4. TypeOK'
  BY <1>1, <1>2, <1>3 DEF TypeOK
<1>5. next = "failed" /\ kind # "direct" => Leftover
  BY <1>1, <1>2, Closes
<1>. QED
  BY <1>1, <1>4, <1>5

\* A reply that is not taken ends the call, for a reason.
LEMMA JudgeFails ==
  ASSUME IInv, NEW n \in Nat, n <= 257, Judge("failed", n),
         kind # "direct", causes \cap {"local", "refused", "http11", "version1"} # {}
  PROVE  IInv'
<1>1. "failed" \in {"ok", "failed", "ask5", "auth", "tail5"}
  OBVIOUS
<1>2. TypeOK' /\ pc' = "failed" /\ Leftover /\ causes' = causes /\ fd' = fd /\ kind' = kind
  BY <1>1, JudgeTypes
<1>3. open' => fd' = 0 /\ kind' # "direct"
  BY <1>2 DEF Leftover
<1>. QED
  BY <1>2, <1>3, FailKeeps

\* A reply that is agreed to leads to the next message, with nothing unread.
LEMMA JudgeAgrees ==
  ASSUME IInv, NEW next \in {"ask5", "auth"}, Judge(next, 0), pc \in {"method", "authReply"},
         Clean, answered = Len(asked), wire \o coming = <<>>
  PROVE  IInv'
<1>1. next \in {"ok", "failed", "ask5", "auth", "tail5"} /\ next # "failed" /\ 0 \in Nat /\ 0 <= 257
  OBVIOUS
<1>2. /\ TypeOK' /\ got' = <<>> /\ pc' = next /\ open' = open
      /\ UNCHANGED <<kind, host, port, data, fd, first, peeked, asked, wire, coming, answered,
                     down, granted, causes>>
  BY <1>1, JudgeTypes
<1>3. wire = <<>> /\ coming = <<>>
  <2>1. Len(wire \o coming) = Len(wire) + Len(coming) /\ Len(wire) \in Nat /\ Len(coming) \in Nat
    BY Types, UnreadParts DEF IInv
  <2>2. wire \in Seq(Units) /\ coming \in Seq(Units)
    BY Types DEF IInv, Sequences
  <2>3. Len(wire) = 0 /\ Len(coming) = 0
    BY <2>1
  <2>. QED
    BY <2>2, <2>3
<1>4. Silent' /\ Clean'
  BY <1>2, <1>3 DEF Silent, Clean
<1>5. Stage
  BY DEF IInv
<1>6. /\ port > 0 /\ port <= MaxPort /\ open /\ kind = "SOCKS5"
  BY <1>5 DEF Stage, Replies5
<1>7. Stage'
  BY <1>2, <1>4, <1>6 DEF Stage, Before, RowStages, Replies5
<1>8. Reply' /\ Done' /\ Failed'
  BY <1>2 DEF Reply, Done, Failed, RowStages
<1>. QED
  BY <1>2, <1>7, <1>8 DEF IInv

\* A reply that grants the request ends the call with an open descriptor.
LEMMA JudgeGrants ==
  ASSUME IInv, Judge("ok", 0), pc \in {"reply4", "tail5"},
         granted = Wanted, answered = Len(asked),
         causes \cap {"lfOnly", "raced", "unknownType"} = {} => \A d : d = data => Due(d, 0)'
  PROVE  IInv'
<1>1. "ok" \in {"ok", "failed", "ask5", "auth", "tail5"} /\ 0 \in Nat /\ 0 <= 257
  OBVIOUS
<1>2. /\ TypeOK' /\ got' = <<>> /\ pc' = "ok" /\ open' = open
      /\ UNCHANGED <<kind, host, port, data, fd, first, peeked, asked, wire, coming, answered,
                     down, granted, causes>>
  BY <1>1, JudgeTypes
<1>3. Stage
  BY DEF IInv
<1>4. port > 0 /\ port <= MaxPort /\ open
  BY <1>3 DEF Stage
<1>5. Stage'
  BY <1>2, <1>4 DEF Stage, Before, RowStages, Replies5
<1>6. Wanted' = Wanted
  BY <1>2 DEF Wanted, Target
<1>7. Done'
  <2>1. causes' \cap {"lfOnly", "raced", "unknownType"} = {} => Due(data, 0)'
    BY <1>2 DEF Due
  <2>. QED
    BY <1>2, <1>6, <2>1 DEF Done
<1>8. Reply' /\ Failed'
  BY <1>2 DEF Reply, Failed, RowStages
<1>. QED
  BY <1>2, <1>5, <1>7, <1>8 DEF IInv

\* The request is a message to connect.
LEMMA WantedConnects == Wanted.type = "connect"
BY DEF Wanted, Target

\* Reply4 keeps the invariant.
LEMMA Reply4Step ==
  ASSUME IInv, Reply4
  PROVE  IInv'
<1>1. /\ pc = "reply4" /\ want = 8 /\ Last = Wanted /\ (Waiting \/ Replied(0)) /\ kind = "SOCKS4"
      /\ TypeOK
  BY DEF Reply4, IInv, Stage, Reply
<1>2. PICK next : next = IF got[2] = 90 THEN "ok" ELSE "failed"
  OBVIOUS
<1>3. Judge(next, 0)
  BY <1>2 DEF Reply4
<1>4. PICK l : l = Last
  OBVIOUS
<1>5. l.type = "connect" /\ Answers(l) = Socks4Answers
  BY <1>1, <1>4, WantedConnects, RequestAnswers
<1>6. want > 0
  BY <1>1
<1>7. /\ data \in Seq(Units) /\ Unread' \in Seq(Units) /\ answered = Len(asked)
      /\ \E a \in Answers(l) :
           /\ Recorded(l, a) /\ (\A s, w : s = Total(l, a) /\ w = want => Due(s, w)')
           /\ (want <= Len(a.units) => \A i \in 1..want : got[i] = a.units[i])
  BY <1>1, <1>3, <1>4, <1>6, Judged
<1>8. PICK a \in Socks4Answers :
        /\ Recorded(l, a) /\ (\A s, w : s = Total(l, a) /\ w = want => Due(s, w)')
        /\ (want <= Len(a.units) => \A i \in 1..want : got[i] = a.units[i])
  BY <1>5, <1>7
<1>9. /\ a.units \in Seq(Units) /\ Len(a.units) = 8 /\ a.accepts \in BOOLEAN
      /\ a.odd = {} /\ (a.units[2] = 90 <=> a.accepts)
  BY Shape4
<1>10. got[2] = a.units[2]
  BY <1>1, <1>8, <1>9
<1>11. CASE a.accepts
  <2>1. Judge("ok", 0)
    BY <1>2, <1>3, <1>9, <1>10, <1>11
  <2>2. granted = Wanted
    BY <1>1, <1>4, <1>5, <1>8, <1>11 DEF Recorded
  <2>3. PICK t : t = Total(l, a)
    OBVIOUS
  <2>4. PICK n : n = 8
    OBVIOUS
  <2>5. Due(t, n)' /\ n = Len(a.units) /\ data' = data
    BY <1>1, <1>8, <1>9, <2>1, <2>3, <2>4 DEF Judge, inputs
  <2>6. \A d : d = data => Due(d, 0)'
    BY <1>5, <1>7, <1>9, <1>11, <2>3, <2>5, BehindAnswer
  <2>. QED
    BY <1>1, <1>7, <2>1, <2>2, <2>6, JudgeGrants
<1>12. CASE ~a.accepts
  <2>1. Judge("failed", 0)
    BY <1>2, <1>3, <1>9, <1>10, <1>12
  <2>2. "refused" \in causes
    BY <1>8, <1>12 DEF Recorded
  <2>3. 0 \in Nat /\ 0 <= 257 /\ causes \cap {"local", "refused", "http11", "version1"} # {}
    BY <2>2
  <2>4. kind # "direct"
    BY DEF Reply4, IInv, Stage, Replies5
  <2>. QED
    BY <2>1, <2>3, <2>4, JudgeFails
<1>. QED
  BY <1>9, <1>11, <1>12


\* Method keeps the invariant.
LEMMA MethodStep ==
  ASSUME IInv, Method
  PROVE  IInv'
<1>1. /\ pc = "method" /\ want = 2 /\ Last = [type |-> "hello"] /\ (Waiting \/ Replied(0))
      /\ kind = "SOCKS5"
  BY DEF Method, IInv, Stage, Reply, Replies5
<1>2. PICK next : next = CASE got[1] = 5 /\ got[2] \in {0, 1} -> "ask5"
                           [] got[1] = 5 /\ got[2] = 2        -> "auth"
                           [] OTHER                           -> "failed"
  OBVIOUS
<1>3. Judge(next, 0)
  BY <1>2, Zenon DEF Method
<1>4. PICK l : l = Last
  OBVIOUS
<1>5. l.type = "hello" /\ Answers(l) = HelloAnswers
  BY <1>1, <1>4 DEF Answers
<1>6. want > 0
  BY <1>1
<1>7. /\ data \in Seq(Units) /\ Unread' \in Seq(Units) /\ Unread' = wire \o coming
      /\ answered = Len(asked)
      /\ \E a \in Answers(l) :
           /\ Recorded(l, a) /\ (\A s, w : s = Total(l, a) /\ w = want => Due(s, w)')
           /\ (want <= Len(a.units) => \A i \in 1..want : got[i] = a.units[i])
  BY <1>1, <1>3, <1>4, <1>6, Judged
<1>8. PICK a \in HelloAnswers :
        /\ Recorded(l, a) /\ (\A s, w : s = Total(l, a) /\ w = want => Due(s, w)')
        /\ (want <= Len(a.units) => \A i \in 1..want : got[i] = a.units[i])
  BY <1>5, <1>7
<1>9. /\ a.units \in Seq(Units) /\ Len(a.units) = 2 /\ a.accepts \in BOOLEAN
      /\ a.odd \subseteq {"gssapi"}
      /\ (a.accepts => a.units[1] = 5 /\ a.units[2] \in {0, 1, 2})
      /\ (~a.accepts => a.units[1] # 5 \/ a.units[2] \notin {0, 1, 2})
  BY ShapeHello
<1>10. got[1] = a.units[1] /\ got[2] = a.units[2]
  BY <1>1, <1>8, <1>9
<1>11. CASE a.accepts
  <2>1. next \in {"ask5", "auth"}
    BY <1>2, <1>9, <1>10, <1>11
  <2>2. Clean
    BY <1>8, <1>9, <1>11 DEF Clean, Recorded
  <2>3. PICK t : t = Total(l, a)
    OBVIOUS
  <2>4. PICK n : n = 2
    OBVIOUS
  <2>5. Due(t, n)' /\ n = Len(a.units) /\ ~(l.type = "connect" /\ a.accepts)
    BY <1>1, <1>5, <1>8, <1>9, <2>3, <2>4
  <2>6. Unread' = <<>>
    BY <1>7, <1>9, <2>3, <2>5, NothingBehind
  <2>7. wire \o coming = <<>>
    BY <1>7, <2>6
  <2>. QED
    BY <1>1, <1>3, <1>7, <2>1, <2>2, <2>7, JudgeAgrees
<1>12. CASE ~a.accepts
  <2>1. next = "failed"
    BY <1>2, <1>9, <1>10, <1>12
  <2>2. "refused" \in causes
    BY <1>8, <1>12 DEF Recorded
  <2>3. 0 \in Nat /\ 0 <= 257 /\ causes \cap {"local", "refused", "http11", "version1"} # {}
    BY <2>2
  <2>4. kind # "direct"
    BY DEF Method, IInv, Stage, Replies5
  <2>. QED
    BY <1>3, <2>1, <2>3, <2>4, JudgeFails
<1>. QED
  BY <1>9, <1>11, <1>12

\* AuthReply keeps the invariant: what it takes is acceptance, and what it does
\* not take is refusal or the version 1 of the method.
LEMMA AuthReplyStep ==
  ASSUME IInv, AuthReply
  PROVE  IInv'
<1>1. /\ pc = "authReply" /\ want = 2 /\ Last = [type |-> "auth"] /\ (Waiting \/ Replied(0))
      /\ kind = "SOCKS5"
  BY DEF AuthReply, IInv, Stage, Reply, Replies5
<1>2. PICK next : next = IF got[1] = 5 /\ got[2] = 0 THEN "ask5" ELSE "failed"
  OBVIOUS
<1>3. Judge(next, 0)
  BY <1>2, Zenon DEF AuthReply
<1>4. PICK l : l = Last
  OBVIOUS
<1>5. l.type = "auth" /\ Answers(l) = AuthAnswers
  BY <1>1, <1>4 DEF Answers
<1>6. want > 0
  BY <1>1
<1>7. /\ data \in Seq(Units) /\ Unread' \in Seq(Units) /\ Unread' = wire \o coming
      /\ answered = Len(asked)
      /\ \E a \in Answers(l) :
           /\ Recorded(l, a) /\ (\A s, w : s = Total(l, a) /\ w = want => Due(s, w)')
           /\ (want <= Len(a.units) => \A i \in 1..want : got[i] = a.units[i])
  BY <1>1, <1>3, <1>4, <1>6, Judged
<1>8. PICK a \in AuthAnswers :
        /\ Recorded(l, a) /\ (\A s, w : s = Total(l, a) /\ w = want => Due(s, w)')
        /\ (want <= Len(a.units) => \A i \in 1..want : got[i] = a.units[i])
  BY <1>5, <1>7
<1>9. /\ a.units \in Seq(Units) /\ Len(a.units) = 2 /\ a.accepts \in BOOLEAN
      /\ a.odd \subseteq {"version1"}
      /\ (a.units[1] = 5 /\ a.units[2] = 0 => a.accepts /\ a.odd = {})
      /\ (~(a.units[1] = 5 /\ a.units[2] = 0) => ~a.accepts \/ "version1" \in a.odd)
  BY ShapeAuth
<1>10. got[1] = a.units[1] /\ got[2] = a.units[2]
  BY <1>1, <1>8, <1>9
<1>11. CASE a.units[1] = 5 /\ a.units[2] = 0
  <2>1. next = "ask5" /\ next \in {"ask5", "auth"}
    BY <1>2, <1>10, <1>11
  <2>2. Clean
    BY <1>8, <1>9, <1>11 DEF Clean, Recorded
  <2>3. PICK t : t = Total(l, a)
    OBVIOUS
  <2>4. PICK n : n = 2
    OBVIOUS
  <2>5. Due(t, n)' /\ n = Len(a.units) /\ ~(l.type = "connect" /\ a.accepts)
    BY <1>1, <1>5, <1>8, <1>9, <2>3, <2>4
  <2>6. Unread' = <<>>
    BY <1>7, <1>9, <2>3, <2>5, NothingBehind
  <2>7. wire \o coming = <<>>
    BY <1>7, <2>6
  <2>. QED
    BY <1>1, <1>3, <1>7, <2>1, <2>2, <2>7, JudgeAgrees
<1>12. CASE ~(a.units[1] = 5 /\ a.units[2] = 0)
  <2>1. next = "failed"
    BY <1>2, <1>10, <1>12
  <2>2. "refused" \in causes \/ "version1" \in causes
    BY <1>8, <1>9, <1>12 DEF Recorded
  <2>3. 0 \in Nat /\ 0 <= 257 /\ causes \cap {"local", "refused", "http11", "version1"} # {}
    BY <2>2
  <2>4. kind # "direct"
    BY DEF AuthReply, IInv, Stage, Replies5
  <2>. QED
    BY <1>3, <2>1, <2>3, <2>4, JudgeFails
<1>. QED
  BY <1>11, <1>12

\* Reply5 keeps the invariant: the rest to read is the rest of that answer.
LEMMA Reply5Step ==
  ASSUME IInv, Reply5
  PROVE  IInv'
<1>1. /\ pc = "reply5" /\ want = 5 /\ Last = Wanted /\ (Waiting \/ Replied(0)) /\ kind = "SOCKS5"
      /\ Stage /\ TypeOK
  BY DEF Reply5, IInv, Stage, Reply, Replies5
<1>2. PICK next, r : /\ next = IF got[1] = 5 /\ got[2] = 0 THEN "tail5" ELSE "failed"
                     /\ r = IF got[1] = 5 /\ got[2] = 0 THEN Rest(got) ELSE 0
  OBVIOUS
<1>3. Judge(next, r)
  BY <1>2 DEF Reply5
<1>4. PICK l : l = Last
  OBVIOUS
<1>5. l.type = "connect" /\ Answers(l) = Socks5Answers
  BY <1>1, <1>4, WantedConnects, RequestAnswers
<1>6. want > 0
  BY <1>1
<1>7. /\ answered = Len(asked) /\ asked # <<>>
      /\ \E a \in Answers(l) :
           /\ Recorded(l, a) /\ (\A s, w : s = Total(l, a) /\ w = want => Due(s, w)')
           /\ (want <= Len(a.units) => \A i \in 1..want : got[i] = a.units[i])
  BY <1>1, <1>3, <1>4, <1>6, Judged
<1>8. PICK a \in Socks5Answers :
        /\ Recorded(l, a) /\ (\A s, w : s = Total(l, a) /\ w = want => Due(s, w)')
        /\ (want <= Len(a.units) => \A i \in 1..want : got[i] = a.units[i])
  BY <1>5, <1>7
<1>9. /\ Len(a.units) >= 5 /\ a.accepts \in BOOLEAN
      /\ a.units[1] = 5 /\ (a.units[2] = 0 <=> a.accepts)
      /\ Rest(a.units) \in 0..17
      /\ \A b : (\A i \in 1..5 : b[i] = a.units[i]) => Rest(b) = Rest(a.units)
  BY Shape5
<1>10. (\A i \in 1..5 : got[i] = a.units[i]) /\ got[1] = a.units[1] /\ got[2] = a.units[2]
  BY <1>1, <1>8, <1>9
<1>11. Rest(got) = Rest(a.units)
  BY <1>9, <1>10
<1>12. CASE a.accepts
  <2>1. next = "tail5" /\ r = Rest(a.units) /\ r \in Nat /\ r <= 257
    BY <1>2, <1>9, <1>10, <1>11, <1>12, SMTT(30)
  <2>2. "tail5" \in {"ok", "failed", "ask5", "auth", "tail5"} /\ Judge("tail5", r)
    BY <1>3, <2>1
  <2>3. /\ TypeOK' /\ got' = <<>> /\ want' = r /\ pc' = "tail5" /\ open' = open
        /\ UNCHANGED <<kind, host, port, data, fd, first, peeked, asked, wire, coming, answered,
                       down, granted, causes>>
    BY <2>1, <2>2, JudgeTypes
  <2>4. port > 0 /\ port <= MaxPort /\ open
    BY <1>1 DEF Stage
  <2>5. Stage'
    BY <1>1, <2>3, <2>4 DEF Stage, Before, RowStages, Replies5
  <2>6. Last' = l /\ Wanted' = Wanted
    BY <1>4, <2>3 DEF Last, Wanted, Target
  <2>7. Answers(l)' = Answers(l)
    BY <2>3, AnswersKept
  <2>8. a \in Answers(l)' /\ Recorded(l, a)'
    BY <1>5, <1>8, <2>3, <2>7 DEF Recorded
  <2>9. Due(Total(l, a), 5)'
    <3>1. PICK t, n : t = Total(l, a) /\ n = 5
      OBVIOUS
    <3>2. Due(t, n)'
      BY <1>1, <1>8, <3>1
    <3>3. Total(l, a)' = t
      BY <2>3, <3>1 DEF Total
    <3>. QED
      BY <3>1, <3>2, <3>3 DEF Due
  <2>10. Passed'
    BY <1>7, <1>12, <2>1, <2>3, <2>6, <2>8, <2>9 DEF Passed
  <2>11. Reply'
    BY <1>1, <1>4, <2>3, <2>6, <2>10 DEF Reply, RowStages
  <2>12. Done' /\ Failed'
    BY <2>3 DEF Done, Failed
  <2>. QED
    BY <2>3, <2>5, <2>11, <2>12 DEF IInv
<1>13. CASE ~a.accepts
  <2>1. next = "failed" /\ r = 0
    BY <1>2, <1>9, <1>10, <1>13
  <2>2. "refused" \in causes
    BY <1>8, <1>13 DEF Recorded
  <2>3. 0 \in Nat /\ 0 <= 257 /\ causes \cap {"local", "refused", "http11", "version1"} # {}
    BY <2>2
  <2>4. kind # "direct"
    BY DEF Reply5, IInv, Stage, Replies5
  <2>. QED
    BY <1>3, <2>1, <2>3, <2>4, JudgeFails
<1>. QED
  BY <1>9, <1>12, <1>13

\* Tail5 keeps the invariant: behind the tail is the target, unless the type of
\* the address was not known.
LEMMA Tail5Step ==
  ASSUME IInv, Tail5
  PROVE  IInv'
<1>1. /\ pc = "tail5" /\ Last = Wanted /\ Passed /\ kind = "SOCKS5" /\ TypeOK
      /\ Sequences /\ data \in Seq(Units) /\ Judge("ok", 0)
  BY Types DEF Tail5, IInv, Stage, Reply, Replies5
<1>2. PICK l : l = Last
  OBVIOUS
<1>3. l.type = "connect" /\ Answers(l) = Socks5Answers
  BY <1>1, <1>2, WantedConnects, RequestAnswers
<1>4. PICK a \in Socks5Answers :
        Due(Total(l, a), 5) /\ Recorded(l, a) /\ a.accepts /\ want = Rest(a.units)
  BY <1>1, <1>2, <1>3 DEF Passed
<1>5. answered = Len(asked)
  BY <1>1 DEF Passed
<1>6. /\ a.units \in Seq(Units) /\ a.odd \subseteq {"unknownType"} /\ Rest(a.units) \in 0..17
      /\ ("unknownType" \notin a.odd => 5 + Rest(a.units) = Len(a.units))
  BY <1>4, Shape5
<1>7. Len(got) = want /\ got' = <<>> /\ UNCHANGED <<wire, coming, down, data>>
  BY <1>1 DEF Judge, inputs, proxyVars
<1>8. granted = Wanted
  BY <1>1, <1>2, <1>3, <1>4 DEF Recorded
<1>9. ASSUME "unknownType" \notin causes
      PROVE  \A d : d = data => Due(d, 0)'
  <2>1. "unknownType" \notin a.odd
    BY <1>4, <1>9 DEF Recorded
  <2>2. PICK t : t = Total(l, a)
    OBVIOUS
  <2>3. PICK n : n = Len(a.units)
    OBVIOUS
  <2>4. Len(t) \in Nat /\ n = 5 + Len(got)
    BY <1>1, <1>4, <1>6, <1>7, <2>1, <2>2, <2>3, TotalParts
  <2>5. Due(t, 5) /\ 5 \in Nat
    BY <1>4, <2>2
  <2>6. Due(t, n)' /\ Unread' = wire \o coming
    BY <1>1, <1>7, <2>4, <2>5, Consumes
  <2>7. Unread' \in Seq(Units)
    BY <1>1, <2>6, UnreadParts
  <2>. QED
    BY <1>1, <1>3, <1>4, <1>6, <1>7, <2>2, <2>3, <2>6, <2>7, BehindAnswer
<1>10. causes \cap {"lfOnly", "raced", "unknownType"} = {} => \A d : d = data => Due(d, 0)'
  BY <1>9
<1>. QED
  BY <1>1, <1>5, <1>8, <1>10, JudgeGrants


\* A step from one stage of a row to another keeps the invariant if it keeps
\* the place in the answer.
LEMMA RowStageStep ==
  ASSUME IInv, pc \in RowStages, pc' \in RowStages,
         UNCHANGED <<kind, host, port, open, asked>>,
         TypeOK', InRows', pc' = "row" => got' # <<>>,
         pc' = "take" => wire' # <<>> /\ peeked' \in 1..Len(wire')
  PROVE  IInv'
<1>1. pc \in {"peek", "take", "row"} /\ pc' \in {"peek", "take", "row"} /\ Stage /\ Reply
  BY DEF IInv, RowStages
<1>2. port > 0 /\ port <= MaxPort /\ open /\ kind = "HTTP" /\ host # "v6" /\ Last = Wanted
  BY <1>1 DEF Stage, Reply, RowStages
<1>3. Stage'
  BY <1>1, <1>2 DEF Stage, Before, RowStages, Replies5
<1>4. Last' = Wanted'
  BY <1>2 DEF Last, Wanted, Target
<1>5. Reply'
  BY <1>1, <1>4 DEF Reply, RowStages
<1>6. Done' /\ Failed'
  BY <1>1 DEF Done, Failed
<1>. QED
  BY <1>3, <1>5, <1>6 DEF IInv

\* Peek keeps the invariant.
LEMMA PeekStep ==
  ASSUME IInv, Peek
  PROVE  IInv'
<1>1. /\ pc = "peek" /\ wire # <<>> /\ peeked' = Len(wire) /\ pc' = "take"
      /\ UNCHANGED <<inputs, open, want, got, first, asked, wire, proxyVars, causes>>
      /\ TypeOK /\ Reply /\ Sequences /\ data \in Seq(Units)
  BY Types DEF Peek, IInv
<1>2. UNCHANGED <<kind, host, port, data, fd, answered, coming, down, granted>>
  BY <1>1 DEF inputs, proxyVars
<1>3. InRows
  BY <1>1 DEF Reply, RowStages, Waiting, Silent
<1>4. Len(wire) \in Nat /\ Len(wire) > 0
  BY <1>1 DEF Sequences
<1>5. Unread' = Unread
  BY <1>1, <1>2 DEF Unread
<1>6. ASSUME NEW a \in HttpAnswers, NEW k \in Nat, RowAt(a, k)
      PROVE  RowAt(a, k)'
  BY <1>1, <1>2, <1>6 DEF RowAt, InOrder
<1>7. InRows'
  BY <1>1, <1>2, <1>3, <1>5, <1>6, MovesKeepDue, RowsKept
<1>8. TypeOK'
  BY <1>1, <1>2, <1>4 DEF TypeOK
<1>9. pc \in RowStages /\ pc' \in RowStages /\ wire' # <<>> /\ peeked' \in 1..Len(wire')
  BY <1>1, <1>4 DEF RowStages
<1>. QED
  BY <1>1, <1>2, <1>7, <1>8, <1>9, RowStageStep

\* PeekAtEnd keeps the invariant: what there is of a row is the last of it.
LEMMA PeekAtEndStep ==
  ASSUME IInv, PeekAtEnd
  PROVE  IInv'
<1>1. CASE got = <<>>
  <2>1. Fail /\ down /\ UNCHANGED <<inputs, want, got, first, peeked, asked, wire, proxyVars, causes>>
    BY <1>1 DEF PeekAtEnd, AtEnd
  <2>2. kind # "direct"
    BY DEF PeekAtEnd, IInv, Stage, RowStages
  <2>. QED
    BY <2>1, <2>2, Fails, GiveUp
<1>2. CASE got # <<>>
  <2>1. /\ pc = "peek" /\ AtEnd /\ pc' = "row"
        /\ UNCHANGED <<inputs, open, want, got, first, peeked, asked, wire, proxyVars, causes>>
        /\ TypeOK /\ Reply /\ Sequences /\ data \in Seq(Units)
    BY <1>2, Types DEF PeekAtEnd, IInv
  <2>2. UNCHANGED <<kind, host, port, data, fd, answered, coming, down, granted>>
    BY <2>1 DEF inputs, proxyVars
  <2>3. InRows
    BY <1>2, <2>1 DEF Reply, RowStages, Waiting, Silent
  <2>4. Unread' = Unread /\ AtEnd'
    BY <2>1, <2>2 DEF Unread, AtEnd
  <2>5. ASSUME NEW a \in HttpAnswers, NEW k \in Nat, RowAt(a, k)
        PROVE  RowAt(a, k)'
    BY <2>1, <2>2, <2>4, <2>5 DEF RowAt, InOrder
  <2>6. InRows'
    BY <2>1, <2>2, <2>3, <2>4, <2>5, MovesKeepDue, RowsKept
  <2>7. TypeOK'
    BY <2>1, <2>2 DEF TypeOK
  <2>8. pc \in RowStages /\ pc' \in RowStages /\ pc' # "take" /\ got' # <<>>
    BY <1>2, <2>1 DEF RowStages
  <2>. QED
    BY <2>1, <2>2, <2>6, <2>7, <2>8, RowStageStep
<1>. QED
  BY <1>1, <1>2

\* TakeRow keeps the invariant: what it has then is a row, and no more.
LEMMA TakeRowStep ==
  ASSUME IInv, TakeRow
  PROVE  IInv'
<1>1. /\ pc = "take" /\ Newlines(SubSeq(wire, 1, peeked)) # {} /\ TakeUpTo(FirstNewline(wire))
      /\ pc' = "row"
      /\ UNCHANGED <<inputs, open, want, first, peeked, asked, proxyVars, causes>>
      /\ TypeOK /\ Reply /\ Sequences /\ data \in Seq(Units)
  BY Types DEF TakeRow, IInv
<1>2. UNCHANGED <<kind, host, port, data, fd, answered, coming, down, granted>>
  BY <1>1 DEF inputs, proxyVars
<1>3. InRows /\ peeked \in 1..Len(wire) /\ wire \in Seq(Units) /\ got \in Seq(Units)
  BY <1>1 DEF Reply, RowStages, Sequences
<1>4. PICK k \in 1..Len(wire) : k = FirstNewline(wire) /\ wire[k] = NL /\ \A i \in 1..k - 1 : wire[i] # NL
  <2>1. peeked \in Nat /\ peeked <= Len(wire)
    BY <1>3
  <2>. QED
    BY <1>1, <1>3, <2>1, FirstOfRow
<1>5. k \in 0..Len(wire) /\ TakeUpTo(k)
  BY <1>1, <1>3, <1>4
<1>6. got' \in Seq(Units) /\ wire' \in Seq(Units) /\ Unread' = Unread
  BY <1>1, <1>2, <1>5, TakeKeeps
<1>7. PICK d : d = SubSeq(wire, 1, k)
  OBVIOUS
<1>8. d \in Seq(Units) /\ Len(d) = k /\ \A i \in 1..k : d[i] = wire[i]
  <2>1. \A i \in 1..k : wire[i] \in Units
    BY <1>3, <1>4
  <2>. QED
    BY <1>3, <1>4, <1>7, <2>1, SubSeqProperties
<1>9. got' = got \o d
  BY <1>5, <1>7 DEF TakeUpTo
<1>10. /\ Len(got') = Len(got) + k /\ Len(got) \in Nat
       /\ \A i \in 1..Len(got) : got'[i] = got[i]
       /\ \A i \in 1..k : got'[Len(got) + i] = wire[i]
  BY <1>3, <1>8, <1>9, Joined
<1>11. got'[Len(got')] = NL
  BY <1>4, <1>10
<1>12. ASSUME NEW a \in HttpAnswers, NEW j \in Nat, RowAt(a, j)
       PROVE  RowAt(a, j)'
  <2>1. UNCHANGED <<first, causes>> /\ (InOrder' <=> InOrder)
    BY <1>1 DEF InOrder
  <2>2. ASSUME InOrder, NEW i \in 1..Len(got') - 1
        PROVE  got'[i] # NL
    <3>1. CASE i < Len(got)
      <4>1. i \in 1..Len(got) - 1 /\ i \in 1..Len(got)
        BY <1>10, <3>1
      <4>2. got[i] # NL /\ got'[i] = got[i]
        BY <1>10, <1>12, <2>2, <4>1 DEF RowAt
      <4>. QED
        BY <4>2
    <3>2. CASE i = Len(got)
      <4>1. got # <<>> /\ got'[i] = got[Len(got)] /\ got[Len(got)] # NL
        BY <1>1, <1>3, <1>10, <1>12, <2>2, <3>2 DEF RowAt
      <4>. QED
        BY <4>1
    <3>3. CASE i > Len(got)
      <4>1. PICK m \in 1..k - 1 : i = Len(got) + m
        <5>1. i - Len(got) \in 1..k - 1 /\ i = Len(got) + (i - Len(got))
          BY <1>4, <1>10, <3>3
        <5>. QED
          BY <5>1
      <4>2. m \in 1..k
        BY <1>4
      <4>3. got'[Len(got) + m] = wire[m] /\ wire[m] # NL
        BY <1>4, <1>10, <4>2
      <4>. QED
        BY <4>1, <4>3
    <3>. QED
      BY <1>10, <3>1, <3>2, <3>3
  <2>. QED
    BY <1>1, <1>11, <1>12, <2>1, <2>2 DEF RowAt
<1>13. InRows'
  BY <1>1, <1>2, <1>3, <1>6, <1>12, MovesKeepDue, RowsKept
<1>14. TypeOK'
  BY <1>1, <1>2, <1>6 DEF TypeOK
<1>15. pc \in RowStages /\ pc' \in RowStages /\ pc' # "take" /\ got' # <<>>
  BY <1>1, <1>4, <1>6, <1>10 DEF RowStages
<1>. QED
  BY <1>1, <1>2, <1>13, <1>14, <1>15, RowStageStep


\* TakePart keeps the invariant: either there is no newline in what it took, or
\* the place in the rows is lost.
LEMMA TakePartStep ==
  ASSUME IInv, TakePart
  PROVE  IInv'
<1>1. /\ pc = "take" /\ TakeUpTo(Len(wire)) /\ pc' = "peek"
      /\ causes' = IF Newlines(wire) # {} THEN causes \cup {"raced"} ELSE causes
      /\ UNCHANGED <<inputs, open, want, first, peeked, asked, proxyVars>>
      /\ TypeOK /\ Reply /\ Sequences /\ data \in Seq(Units)
  BY Types DEF TakePart, IInv
<1>2. UNCHANGED <<kind, host, port, data, fd, answered, coming, down, granted>>
  BY <1>1 DEF inputs, proxyVars
<1>3. InRows /\ wire \in Seq(Units) /\ got \in Seq(Units) /\ wire # <<>>
  BY <1>1 DEF Reply, RowStages, Sequences
<1>4. Len(wire) \in 0..Len(wire) /\ Len(wire) \in Nat /\ Len(wire) > 0
  BY <1>3
<1>5. got' \in Seq(Units) /\ wire' \in Seq(Units) /\ Unread' = Unread
  BY <1>1, <1>2, <1>4, TakeKeeps
<1>6. got' = got \o wire
  <2>1. SubSeq(wire, 1, Len(wire)) = wire
    BY <1>3, SubSeqFull
  <2>. QED
    BY <1>1, <2>1 DEF TakeUpTo
<1>7. /\ Len(got') = Len(got) + Len(wire) /\ Len(got) \in Nat
      /\ \A i \in 1..Len(got) : got'[i] = got[i]
      /\ \A i \in 1..Len(wire) : got'[Len(got) + i] = wire[i]
  BY <1>3, <1>6, Joined
<1>8. causes' = causes \/ causes' = causes \cup {"raced"}
  BY <1>1
<1>9. ASSUME InOrder'
      PROVE  InOrder /\ \A i \in 1..Len(wire) : wire[i] # NL
  <2>1. Newlines(wire) = {}
    BY <1>1, <1>9 DEF InOrder
  <2>2. InOrder
    BY <1>1, <1>9, <2>1 DEF InOrder
  <2>. QED
    BY <1>3, <2>1, <2>2 DEF Newlines
<1>10. ASSUME NEW a \in HttpAnswers, NEW j \in Nat, RowAt(a, j)
       PROVE  RowAt(a, j)'
  <2>1. ASSUME InOrder', NEW i \in 1..Len(got')
        PROVE  got'[i] # NL
    <3>1. CASE i < Len(got)
      <4>1. i \in 1..Len(got) - 1 /\ i \in 1..Len(got)
        BY <1>7, <3>1
      <4>2. got[i] # NL /\ got'[i] = got[i]
        BY <1>7, <1>9, <1>10, <2>1, <4>1 DEF RowAt
      <4>. QED
        BY <4>2
    <3>2. CASE i = Len(got)
      <4>1. got # <<>> /\ i \in 1..Len(got)
        BY <1>3, <1>7, <3>2
      <4>2. got[Len(got)] # NL
        BY <1>1, <1>9, <1>10, <2>1, <4>1 DEF RowAt
      <4>. QED
        BY <1>7, <3>2, <4>1, <4>2
    <3>3. CASE i > Len(got)
      <4>1. i - Len(got) \in 1..Len(wire) /\ i = Len(got) + (i - Len(got))
        BY <1>4, <1>7, <3>3
      <4>2. PICK m \in 1..Len(wire) : i = Len(got) + m
        BY <4>1
      <4>. QED
        BY <1>7, <1>9, <2>1, <4>2
    <3>. QED
      BY <1>7, <3>1, <3>2, <3>3
  <2>2. Len(got') \in Nat /\ (got' # <<>> => Len(got') \in 1..Len(got'))
    BY <1>5
  <2>3. InOrder' => /\ \A i \in 1..Len(got') - 1 : got'[i] # NL
                    /\ got' # <<>> => got'[Len(got')] # NL
    <3>1. \A i \in 1..Len(got') - 1 : i \in 1..Len(got')
      BY <2>2
    <3>. QED
      BY <2>1, <2>2, <3>1
  <2>4. InOrder' => j < Len(a.units) /\ (j = 0 \/ a.units[j] = NL)
    BY <1>9, <1>10 DEF RowAt
  <2>5. (first => j = 0) /\ (~first => a.units[1] = Status200) /\ first' = first
    BY <1>1, <1>10 DEF RowAt
  <2>. QED
    BY <1>1, <2>3, <2>4, <2>5 DEF RowAt
<1>11. InRows'
  BY <1>1, <1>2, <1>3, <1>5, <1>8, <1>10, MovesKeepDue, RowsKept
<1>12. TypeOK'
  BY <1>1, <1>2, <1>5, <1>8 DEF TypeOK
<1>13. pc \in RowStages /\ pc' \in RowStages /\ pc' # "take" /\ pc' # "row"
  BY <1>1 DEF RowStages
<1>. QED
  BY <1>1, <1>2, <1>11, <1>12, <1>13, RowStageStep

\* Arrives keeps the invariant.
LEMMA ArrivesStep ==
  ASSUME IInv, Arrives
  PROVE  IInv'
<1>1. /\ coming # <<>> /\ wire' = Append(wire, Head(coming))
      /\ UNCHANGED <<inputs, pc, open, want, got, first, peeked, asked, answered, down, granted, causes>>
      /\ TypeOK /\ Stage /\ Reply /\ Done /\ Failed /\ Sequences /\ data \in Seq(Units)
  BY Types DEF Arrives, IInv
<1>2. UNCHANGED <<kind, host, port, data, fd>>
  BY <1>1 DEF inputs
<1>3. wire' \in Seq(Units) /\ coming' \in Seq(Units) /\ Unread' = Unread
  BY <1>1, ArrivesKeeps
<1>4. TypeOK'
  BY <1>1, <1>2, <1>3 DEF TypeOK
<1>5. ~Silent /\ ~AtEnd /\ ~Waiting
  BY <1>1 DEF Silent, AtEnd, Waiting
<1>6. Last' = Last /\ Wanted' = Wanted
  BY <1>1, <1>2 DEF Last, Wanted, Target
<1>7. (Replied(0) => Replied(0)') /\ (Passed => Passed')
  BY <1>1, <1>3, <1>5, MovesKeepDue, DialogueKept
<1>8. Stage'
  BY <1>1, <1>2, <1>5 DEF Stage
<1>9. ASSUME NEW a \in HttpAnswers, NEW k \in Nat, RowAt(a, k)
      PROVE  RowAt(a, k)'
  BY <1>1, <1>2, <1>5, <1>9 DEF RowAt, InOrder
<1>10. InRows => InRows'
  BY <1>1, <1>3, <1>9, MovesKeepDue, RowsKept
<1>11. pc = "take" => wire' # <<>> /\ peeked \in 1..Len(wire')
  <2>1. wire \in Seq(Units) /\ Head(coming) \in Units
    BY <1>1 DEF Sequences
  <2>2. Len(wire') = Len(wire) + 1 /\ Len(wire) \in Nat /\ wire' # <<>>
    BY <1>1, <2>1
  <2>3. pc = "take" => peeked \in 1..Len(wire)
    BY <1>1 DEF Reply
  <2>. QED
    BY <2>2, <2>3
<1>12. Reply'
  <2>1. pc' = pc /\ want' = want /\ got' = got /\ peeked' = peeked
    BY <1>1
  <2>. QED
    BY <1>1, <1>5, <1>6, <1>7, <1>10, <1>11, <2>1 DEF Reply
<1>13. Done'
  <2>1. Due(data, 0) => Due(data, 0)'
    BY <1>1, <1>2, <1>3 DEF Due
  <2>. QED
    BY <1>1, <1>2, <1>6, <2>1 DEF Done
<1>14. Failed'
  BY <1>1, <1>2 DEF Failed, FailsForReason
<1>. QED
  BY <1>4, <1>8, <1>12, <1>13, <1>14 DEF IInv

\* ProxyCloses keeps the invariant.
LEMMA ProxyClosesStep ==
  ASSUME IInv, ProxyCloses
  PROVE  IInv'
<1>1. /\ ~down /\ down' = TRUE /\ coming' \in {coming, <<>>}
      /\ UNCHANGED <<inputs, pc, open, want, got, first, peeked, asked, wire, answered, granted, causes>>
      /\ TypeOK /\ Stage /\ Reply /\ Done /\ Failed /\ Sequences /\ data \in Seq(Units)
  BY Types DEF ProxyCloses, IInv
<1>2. UNCHANGED <<kind, host, port, data, fd>>
  BY <1>1 DEF inputs
<1>3. coming' \in Seq(Units)
  <2>1. coming \in Seq(Units) /\ <<>> \in Seq(Units)
    BY <1>1 DEF Sequences
  <2>. QED
    BY <1>1, <2>1
<1>4. TypeOK'
  BY <1>1, <1>2, <1>3 DEF TypeOK
<1>5. \A s : \A k \in Nat : Len(s) \in Nat /\ Due(s, k) => Due(s, k)'
  BY <1>1, CloseCuts
<1>6. (Silent => Silent') /\ ~AtEnd /\ Last' = Last /\ Wanted' = Wanted
  BY <1>1, <1>2 DEF Silent, AtEnd, Last, Wanted, Target
<1>7. (Waiting => Waiting') /\ (Replied(0) => Replied(0)') /\ (Passed => Passed')
  BY <1>1, <1>5, <1>6, DialogueKept
<1>8. Stage'
  BY <1>1, <1>2, <1>6 DEF Stage, Clean
<1>9. ASSUME NEW a \in HttpAnswers, NEW k \in Nat, RowAt(a, k)
      PROVE  RowAt(a, k)'
  BY <1>1, <1>2, <1>6, <1>9 DEF RowAt, InOrder
<1>10. InRows => InRows'
  BY <1>1, <1>5, <1>9, RowsKept
<1>11. Reply'
  <2>1. pc' = pc /\ want' = want /\ got' = got /\ peeked' = peeked /\ wire' = wire /\ first' = first
    BY <1>1
  <2>. QED
    BY <1>1, <1>6, <1>7, <1>10, <2>1 DEF Reply
<1>12. Done'
  <2>1. PICK d : d = data
    OBVIOUS
  <2>2. Len(d) \in Nat /\ 0 \in Nat
    BY <1>1, <2>1
  <2>3. Due(data, 0) => Due(d, 0)'
    BY <1>5, <2>1, <2>2
  <2>4. Due(data, 0) => Due(data, 0)'
    BY <1>2, <2>1, <2>3 DEF Due
  <2>. QED
    BY <1>1, <1>2, <1>6, <2>4 DEF Done
<1>13. Failed'
  BY <1>1, <1>2 DEF Failed, FailsForReason
<1>. QED
  BY <1>4, <1>8, <1>11, <1>12, <1>13 DEF IInv


\* The row at k of an answer in order: it ends with the next newline, so the
\* row behind it begins at the next, and the one that begins with CR is the last.
LEMMA RowsOfAnswer ==
  ASSUME NEW a \in HttpAnswers, a.units[1] = Status200, "lfOnly" \notin a.odd,
         NEW k \in Nat, k < Len(a.units), k = 0 \/ a.units[k] = NL, NEW n \in Nat, n >= 1,
         \A i \in 1..n - 1 : k + i <= Len(a.units) => a.units[k + i] # NL
  PROVE  /\ k = 0 => a.units[k + 1] # CR
         /\ a.units[k + 1] = CR => /\ k + 2 = Len(a.units) /\ n <= 2
                                   /\ a.units[k + 2] = NL
         /\ k + n <= Len(a.units)
         /\ a.units[k + n] = NL /\ a.units[k + 1] # CR => k + n < Len(a.units)
         /\ a.units[k + 1] = CR /\ n = 1 => a.units[k + n] # NL
<1>1. \/ /\ Len(a.units) = 5
         /\ a.units[2] = CR /\ a.units[3] = NL /\ a.units[4] = CR /\ a.units[5] = NL
      \/ /\ Len(a.units) = 8
         /\ a.units[2] = CR /\ a.units[3] = NL /\ a.units[4] = Text
         /\ a.units[5] = CR /\ a.units[6] = NL /\ a.units[7] = CR /\ a.units[8] = NL
  BY ShapeHttp
<1>2. /\ CR # NL /\ Status200 # CR /\ Status200 # NL /\ Text # CR /\ Text # NL
  BY DEF CR, NL, Text, Status200
<1>3. PICK u : u = a.units
  OBVIOUS
<1>4. CASE Len(u) = 5 /\ u[2] = CR /\ u[3] = NL /\ u[4] = CR /\ u[5] = NL
  <2>1. k \in {0, 3}
    <3>1. k \in {0, 1, 2, 3, 4}
      BY <1>3, <1>4
    <3>. QED
      BY <1>2, <1>3, <1>4, <3>1
  <2>2. CASE k = 0
    <3>1. n <= 3
      <4>1. n > 3 => 3 \in 1..n - 1 /\ k + 3 = 3
        BY <2>2
      <4>. QED
        BY <1>3, <1>4, <4>1
    <3>2. n \in {1, 2, 3}
      BY <3>1
    <3>. QED
      BY <1>2, <1>3, <1>4, <2>2, <3>2
  <2>3. CASE k = 3
    <3>1. n <= 2
      <4>1. n > 2 => 2 \in 1..n - 1 /\ k + 2 = 5
        BY <2>3
      <4>. QED
        BY <1>3, <1>4, <4>1
    <3>2. n \in {1, 2}
      BY <3>1
    <3>. QED
      BY <1>2, <1>3, <1>4, <2>3, <3>2
  <2>. QED
    BY <2>1, <2>2, <2>3
<1>5. CASE /\ Len(u) = 8 /\ u[2] = CR /\ u[3] = NL /\ u[4] = Text
           /\ u[5] = CR /\ u[6] = NL /\ u[7] = CR /\ u[8] = NL
  <2>1. k \in {0, 3, 6}
    <3>1. k \in {0, 1, 2, 3, 4, 5, 6, 7}
      BY <1>3, <1>5
    <3>. QED
      BY <1>2, <1>3, <1>5, <3>1
  <2>2. CASE k = 0
    <3>1. n <= 3
      <4>1. n > 3 => 3 \in 1..n - 1 /\ k + 3 = 3
        BY <2>2
      <4>. QED
        BY <1>3, <1>5, <4>1
    <3>2. n \in {1, 2, 3}
      BY <3>1
    <3>. QED
      BY <1>2, <1>3, <1>5, <2>2, <3>2
  <2>3. CASE k = 3
    <3>1. n <= 3
      <4>1. n > 3 => 3 \in 1..n - 1 /\ k + 3 = 6
        BY <2>3
      <4>. QED
        BY <1>3, <1>5, <4>1
    <3>2. n \in {1, 2, 3}
      BY <3>1
    <3>. QED
      BY <1>2, <1>3, <1>5, <2>3, <3>2
  <2>4. CASE k = 6
    <3>1. n <= 2
      <4>1. n > 2 => 2 \in 1..n - 1 /\ k + 2 = 8
        BY <2>4
      <4>. QED
        BY <1>3, <1>5, <4>1
    <3>2. n \in {1, 2}
      BY <3>1
    <3>. QED
      BY <1>2, <1>3, <1>5, <2>4, <3>2
  <2>. QED
    BY <2>1, <2>2, <2>3, <2>4
<1>. QED
  BY <1>1, <1>3, <1>4, <1>5


\* Row keeps the invariant: a row that is not the last leads to the next one,
\* and behind the last one is the target.
LEMMA RowStep ==
  ASSUME IInv, Row
  PROVE  IInv'
<1>1. /\ pc = "row" /\ first' = FALSE /\ got' = <<>>
      /\ UNCHANGED <<inputs, want, peeked, asked, wire, proxyVars, causes>>
      /\ TypeOK /\ Stage /\ Reply /\ Sequences /\ data \in Seq(Units)
  BY Types DEF Row, IInv
<1>2. UNCHANGED <<kind, host, port, data, fd, answered, coming, down, granted>>
  BY <1>1 DEF inputs, proxyVars
<1>3. InRows /\ got # <<>> /\ Last = Wanted /\ got \in Seq(Units)
  BY <1>1 DEF Reply, RowStages, Sequences
<1>4. PICK l : l = Last
  OBVIOUS
<1>5. l.type = "connect" /\ asked # <<>> /\ answered = Len(asked)
  BY <1>3, <1>4, WantedConnects DEF InRows
<1>6. PICK a \in HttpAnswers : \E k \in 0..Len(Total(l, a)) :
        Due(Total(l, a), k) /\ Recorded(l, a) /\ RowAt(a, k)
  BY <1>3, <1>4 DEF InRows
<1>7. PICK k \in 0..Len(Total(l, a)) : Due(Total(l, a), k) /\ Recorded(l, a) /\ RowAt(a, k)
  BY <1>6
<1>8. PICK s : s = Total(l, a)
  OBVIOUS
<1>9. PICK u : u = a.units
  OBVIOUS
<1>10. /\ u \in Seq(Units) /\ Len(u) \in 3..8 /\ Len(u) \in Nat /\ a.accepts \in BOOLEAN
       /\ (u[1] = Status200 => a.accepts)
       /\ (u[1] # Status200 => ~a.accepts \/ "http11" \in a.odd)
  BY <1>9, ShapeHttp
<1>11. /\ Len(s) \in Nat /\ Len(u) <= Len(s) /\ \A i \in 1..Len(u) : s[i] = u[i]
  BY <1>1, <1>8, <1>9, <1>10, TotalParts
<1>12. k \in Nat /\ Due(s, k) /\ k <= Len(s)
  BY <1>7, <1>8, <1>11
<1>13. PICK n \in Nat : n = Len(got) /\ n >= 1
  <2>1. Len(got) \in Nat /\ Len(got) >= 1
    BY <1>3
  <2>. QED
    BY <2>1
<1>14. \A i \in 1..n : got[i] = s[k + i]
  BY <1>1, <1>11, <1>12, <1>13, GotIsDue
<1>15. \A i \in 1..n : k + i <= Len(u) => got[i] = u[k + i]
  BY <1>10, <1>11, <1>12, <1>13, <1>14
<1>16. (\A j : j = k + n => Due(s, j)') /\ Unread' = wire \o coming
  BY <1>1, <1>2, <1>11, <1>12, <1>13, Consumes
<1>17. Unread' \in Seq(Units)
  BY <1>1, <1>16, UnreadParts
<1>18. 1 \in 1..n /\ n \in 1..n
  BY <1>13
<1>19. UNCHANGED causes /\ (InOrder' <=> InOrder)
  BY <1>1 DEF InOrder
<1>20. AtEnd => \A d, j : /\ Len(d) \in Nat /\ j \in 0..Len(d) /\ Len(d) - j \in Nat
                         => Due(d, j)'
  <2>1. SUFFICES ASSUME AtEnd, NEW d, NEW j, Len(d) \in Nat, j \in 0..Len(d), Len(d) - j \in Nat
                 PROVE  Due(d, j)'
    OBVIOUS
  <2>2. Unread' = <<>> /\ down' = TRUE
    <3>1. wire = <<>> /\ coming = <<>> /\ down /\ wire' = wire /\ coming' = coming
      BY <1>1, <1>2, <2>1 DEF AtEnd
    <3>2. Unread' = (<<>> \o <<>>) \o <<>>
      BY <1>1, <3>1 DEF Unread
    <3>3. down \in BOOLEAN
      BY <1>1 DEF TypeOK
    <3>. QED
      BY <1>2, <3>1, <3>2, <3>3
  <2>. QED
    BY <2>1, <2>2 DEF Due
<1>21. got' \in Seq(Units)
  <2>1. <<>> \in Seq(Units)
    OBVIOUS
  <2>. QED
    BY <1>1, <2>1
<1>22. CASE first /\ got[1] # Status200
  <2>1. k = 0
    BY <1>7, <1>22 DEF RowAt
  <2>2. u[1] # Status200
    BY <1>10, <1>15, <1>18, <1>22, <2>1
  <2>3. "refused" \in causes \/ "http11" \in causes
    BY <1>7, <1>10, <2>2 DEF Recorded
  <2>4. pc' = "failed" /\ Leftover
    <3>1. Fail /\ kind # "direct"
      BY <1>22 DEF Row, IInv, Stage, RowStages
    <3>. QED
      BY <3>1, Fails
  <2>5. TypeOK' /\ (open' => fd' = 0 /\ kind' # "direct")
    BY <1>1, <1>2, <1>21, <2>4 DEF TypeOK, Leftover
  <2>6. causes' \cap {"local", "refused", "http11", "version1"} # {}
    BY <1>1, <2>3
  <2>. QED
    BY <2>4, <2>5, <2>6, FailKeeps
<1>23. ASSUME InOrder, u[1] = Status200
       PROVE  /\ k < Len(u)
              /\ k = 0 => u[k + 1] # CR
              /\ u[k + 1] = CR => /\ k + 2 = Len(u) /\ n <= 2
                                  /\ u[k + 2] = NL
              /\ k + n <= Len(u)
              /\ u[k + n] = NL /\ u[k + 1] # CR => k + n < Len(u)
              /\ u[k + 1] = CR /\ n = 1 => u[k + n] # NL
              /\ got[1] = u[k + 1] /\ got[n] = u[k + n]
              /\ got[n] = NL \/ AtEnd
  <2>1. /\ k < Len(u) /\ (k = 0 \/ u[k] = NL) /\ \A i \in 1..n - 1 : got[i] # NL
        /\ got[n] = NL \/ AtEnd
    BY <1>1, <1>7, <1>9, <1>13, <1>23 DEF RowAt
  <2>2. "lfOnly" \notin a.odd
    BY <1>7, <1>23 DEF InOrder, Recorded
  <2>3. \A i \in 1..n - 1 : i \in 1..n
    BY <1>13
  <2>4. \A i \in 1..n - 1 : k + i <= Len(u) => u[k + i] # NL
    BY <1>15, <2>1, <2>3
  <2>5. /\ k = 0 => u[k + 1] # CR
        /\ u[k + 1] = CR => /\ k + 2 = Len(u) /\ n <= 2
                            /\ u[k + 2] = NL
        /\ k + n <= Len(u)
        /\ u[k + n] = NL /\ u[k + 1] # CR => k + n < Len(u)
        /\ u[k + 1] = CR /\ n = 1 => u[k + n] # NL
    BY <1>9, <1>12, <1>13, <1>23, <2>1, <2>2, <2>4, RowsOfAnswer
  <2>6. k + 1 <= Len(u)
    BY <1>10, <1>12, <2>1
  <2>7. got[1] = u[k + 1] /\ got[n] = u[k + n]
    BY <1>15, <1>18, <2>5, <2>6
  <2>. QED
    BY <2>1, <2>5, <2>7
<1>24. CASE ~first /\ got[1] = CR
  <2>1. u[1] = Status200 /\ a.accepts
    BY <1>7, <1>9, <1>10, <1>24 DEF RowAt
  <2>2. granted = Wanted
    BY <1>3, <1>4, <1>5, <1>7, <2>1 DEF Recorded
  <2>3. pc' = "ok" /\ open' = open
    BY <1>24 DEF Row
  <2>4. TypeOK'
    BY <1>1, <1>2, <1>21, <2>3 DEF TypeOK
  <2>5. ASSUME InOrder
        PROVE  \A d : d = data => Due(d, 0)'
    <3>1. /\ k + 2 = Len(u) /\ (n = 1 => AtEnd) /\ n \in {1, 2}
      BY <1>13, <1>23, <1>24, <2>1, <2>5, SMTT(30)
    <3>2. CASE n = 1
      <4>1. AtEnd /\ Len(data) \in Nat /\ 0 \in 0..Len(data) /\ Len(data) - 0 \in Nat
        BY <1>1, <3>1, <3>2
      <4>. QED
        BY <1>20, <4>1
    <3>3. CASE n = 2
      <4>1. PICK j : j = k + n
        OBVIOUS
      <4>2. Due(s, j)' /\ j = Len(a.units)
        BY <1>9, <1>16, <3>1, <3>3, <4>1
      <4>3. a.units \in Seq(Units)
        BY <1>9, <1>10
      <4>. QED
        BY <1>1, <1>2, <1>5, <1>8, <1>17, <2>1, <4>2, <4>3, BehindAnswer
    <3>. QED
      BY <3>1, <3>2, <3>3
  <2>6. Wanted' = Wanted
    BY <1>2 DEF Wanted, Target
  <2>7. causes' \cap {"lfOnly", "raced", "unknownType"} = {} => Due(data, 0)'
    <3>1. causes' \cap {"lfOnly", "raced", "unknownType"} = {} => InOrder
      BY <1>1 DEF InOrder
    <3>. QED
      BY <1>2, <2>5, <3>1 DEF Due
  <2>8. Done'
    BY <1>1, <1>2, <1>5, <2>2, <2>6, <2>7 DEF Done
  <2>9. port > 0 /\ port <= MaxPort /\ open
    BY <1>1 DEF Stage
  <2>10. Stage'
    BY <1>2, <2>3, <2>9 DEF Stage, Before, RowStages, Replies5
  <2>11. Reply' /\ Failed'
    BY <2>3 DEF Reply, Failed, RowStages
  <2>. QED
    BY <2>4, <2>8, <2>10, <2>11 DEF IInv
<1>25. CASE ~(first /\ got[1] # Status200) /\ ~(~first /\ got[1] = CR)
  <2>1. pc' = "peek" /\ open' = open
    BY <1>25 DEF Row
  <2>2. TypeOK'
    BY <1>1, <1>2, <1>21, <2>1 DEF TypeOK
  <2>3. u[1] = Status200
    <3>1. CASE first
      <4>1. k = 0 /\ got[1] = Status200
        BY <1>7, <1>25, <3>1 DEF RowAt
      <4>. QED
        BY <1>10, <1>15, <1>18, <4>1
    <3>2. CASE ~first
      BY <1>7, <1>9, <3>2 DEF RowAt
    <3>. QED
      BY <3>1, <3>2
  <2>4. got[1] # CR
    <3>1. Status200 # CR
      BY DEF Status200, CR
    <3>. QED
      BY <1>25, <3>1
  <2>5. PICK j \in Nat : j <= Len(s) /\ Due(s, j)' /\ RowAt(a, j)'
    <3>1. ASSUME NEW j \in Nat, InOrder => j < Len(u) /\ (j = 0 \/ u[j] = NL)
          PROVE  RowAt(a, j)'
      <4>1. Len(got') - 1 = -1 /\ 1..-1 = {}
        BY <1>1
      <4>. QED
        BY <1>1, <1>9, <1>19, <2>1, <2>3, <3>1, <4>1 DEF RowAt
    <3>2. Due(s, k + n)' /\ k + n \in Nat /\ k + n <= Len(s)
      <4>1. PICK j : j = k + n
        OBVIOUS
      <4>2. Due(s, j)'
        BY <1>16, <4>1
      <4>3. j \in 0..Len(s)
        BY <4>2 DEF Due
      <4>4. k + n <= Len(s)
        BY <4>1, <4>3, <1>11
      <4>. QED
        BY <1>12, <1>13, <4>1, <4>2, <4>4 DEF Due
    <3>3. CASE ~InOrder
      BY <3>1, <3>2, <3>3
    <3>4. CASE InOrder /\ got[n] = NL
      <4>1. k + n < Len(u) /\ u[k + n] = NL
        BY <1>23, <2>3, <2>4, <3>4
      <4>. QED
        BY <3>1, <3>2, <4>1
    <3>5. CASE InOrder /\ AtEnd
      <4>1. k < Len(u) /\ (k = 0 \/ u[k] = NL)
        BY <1>1, <1>7, <1>9, <3>5 DEF RowAt
      <4>2. k \in 0..Len(s) /\ Len(s) - k \in Nat
        BY <1>11, <1>12
      <4>. QED
        BY <1>11, <1>12, <1>20, <3>1, <3>5, <4>1, <4>2
    <3>. QED
      BY <1>23, <2>3, <3>3, <3>4, <3>5
  <2>6. Last' = l /\ Total(l, a)' = s
    BY <1>1, <1>2, <1>4, <1>8 DEF Last, Total
  <2>7. Recorded(l, a)'
    BY <1>1, <1>2, <1>7 DEF Recorded
  <2>8. Due(Total(l, a), j)' /\ j \in 0..Len(Total(l, a)')
    BY <1>11, <2>5, <2>6 DEF Due
  <2>9. InRows'
    BY <1>1, <1>2, <1>5, <2>5, <2>6, <2>7, <2>8 DEF InRows
  <2>10. pc \in RowStages /\ pc' \in RowStages /\ pc' # "row" /\ pc' # "take"
    BY <1>1, <2>1 DEF RowStages
  <2>. QED
    BY <1>1, <1>2, <2>1, <2>2, <2>9, <2>10, RowStageStep
<1>. QED
  BY <1>22, <1>24, <1>25


\* ProxyAnswers keeps the invariant: what it sends is an answer to the last
\* message, all of it unread.
LEMMA ProxyAnswersStep ==
  ASSUME IInv, ProxyAnswers
  PROVE  IInv'
<1>1. /\ ~down /\ answered < Len(asked) /\ answered' = answered + 1
      /\ UNCHANGED <<inputs, pc, open, want, got, first, peeked, asked, wire, down>>
      /\ TypeOK /\ Stage /\ Reply /\ Done /\ Failed /\ Sequences /\ data \in Seq(Units)
      /\ asked \in Seq(Messages) /\ Len(asked) \in Nat
  BY Types DEF ProxyAnswers, IInv
<1>2. UNCHANGED <<kind, host, port, data, fd>>
  BY <1>1 DEF inputs
<1>3. PICK m : m = asked[answered + 1]
  OBVIOUS
<1>4. m \in Messages /\ answered \in Nat
  <2>1. answered \in 0..Len(asked)
    BY <1>1 DEF TypeOK
  <2>2. answered + 1 \in 1..Len(asked)
    BY <1>1, <2>1
  <2>. QED
    BY <1>1, <1>3, <2>1, <2>2
<1>5. PICK a \in Answers(m) :
        /\ coming' = coming \o a.units \o (IF m.type = "connect" /\ a.accepts THEN data ELSE <<>>)
        /\ granted' = IF m.type = "connect" /\ a.accepts THEN m ELSE granted
        /\ causes' = causes \cup a.odd \cup (IF a.accepts THEN {} ELSE {"refused"})
  BY <1>3 DEF ProxyAnswers
<1>6. /\ a.units \in Seq(Units) /\ a.accepts \in BOOLEAN
      /\ a.odd \subseteq {"http11", "lfOnly", "version1", "gssapi", "unknownType"}
      /\ Total(m, a) \in Seq(Units) /\ Len(Total(m, a)) \in Nat
  BY <1>1, AnswerUnits
<1>7. coming' = coming \o Total(m, a) /\ coming' \in Seq(Units)
  <2>1. PICK x : x = IF m.type = "connect" /\ a.accepts THEN data ELSE <<>>
    OBVIOUS
  <2>2. PICK u : u = a.units
    OBVIOUS
  <2>3. x \in Seq(Units) /\ u \in Seq(Units) /\ coming \in Seq(Units)
    <3>1. <<>> \in Seq(Units)
      OBVIOUS
    <3>. QED
      BY <1>1, <1>6, <2>1, <2>2, <3>1 DEF Sequences
  <2>4. coming' = (coming \o u) \o x
    BY <1>5, <2>1, <2>2
  <2>5. Total(m, a) = u \o x
    BY <2>1, <2>2 DEF Total
  <2>6. (coming \o u) \o x = coming \o (u \o x)
    BY <2>3, JoinsAssociate
  <2>7. u \o x \in Seq(Units)
    BY <2>3
  <2>. QED
    BY <2>3, <2>4, <2>5, <2>6, <2>7
<1>8. TypeOK'
  <2>1. granted' \in Messages \cup {None}
    BY <1>1, <1>4, <1>5 DEF TypeOK
  <2>2. causes' \subseteq {"local", "refused", "http11", "lfOnly", "version1", "gssapi",
                           "unknownType", "raced"}
    <3>1. (IF a.accepts THEN {} ELSE {"refused"}) \subseteq {"refused"}
      OBVIOUS
    <3>. QED
      BY <1>1, <1>5, <1>6, <3>1 DEF TypeOK
  <2>3. answered' \in 0..Len(asked')
    BY <1>1, <1>4
  <2>. QED
    BY <1>1, <1>2, <1>7, <2>1, <2>2, <2>3 DEF TypeOK
<1>9. (Waiting \/ pc \in {"ok", "failed"}) /\ (pc = "ok" => kind = "direct")
  <2>1. pc \notin Before
    <3>1. pc \in Before => asked = <<>> /\ answered = 0
      BY <1>1 DEF Stage
    <3>. QED
      BY <1>1, <3>1
  <2>2. pc \notin {"auth", "ask5"}
    BY <1>1, <1>4 DEF Stage
  <2>3. pc = "ok" => kind = "direct"
    BY <1>1, <1>4 DEF Done
  <2>4. ~Replied(0) /\ ~Passed /\ ~InRows
    BY <1>1, <1>4 DEF Replied, Passed, InRows
  <2>5. pc \in {"reply4", "method", "authReply", "reply5", "tail5", "peek", "take", "row"} => Waiting
    BY <1>1, <2>4 DEF Reply, RowStages
  <2>6. pc \in {"args", "resolve", "socket", "options", "connect", "ask", "peek", "take", "row",
               "reply4", "method", "auth", "authReply", "ask5", "reply5", "tail5", "ok", "failed"}
    BY <1>1 DEF TypeOK
  <2>7. pc \notin {"args", "resolve", "socket", "options", "connect", "ask"}
    BY <2>1 DEF Before
  <2>8. CASE pc \in {"ok", "failed"}
    BY <2>3, <2>8
  <2>9. CASE pc \notin {"ok", "failed"}
    <3>1. pc \in {"reply4", "method", "authReply", "reply5", "tail5", "peek", "take", "row"}
      BY <2>2, <2>6, <2>7, <2>9
    <3>. QED
      BY <2>5, <3>1
  <2>. QED
    BY <2>3, <2>8, <2>9
<1>10. CASE pc = "failed"
  <2>1. FailsForReason
    BY <1>1, <1>10 DEF Failed
  <2>2. pc' = "failed" /\ (open' => fd' = 0 /\ kind' # "direct") /\ causes \subseteq causes'
    BY <1>1, <1>2, <1>5, <1>10, <2>1 DEF FailsForReason
  <2>3. \/ port' <= 0 \/ host' = "v6" \/ down'
        \/ causes' \cap {"local", "refused", "http11", "version1"} # {}
    BY <1>1, <1>2, <1>10, <2>1, <2>2 DEF FailsForReason
  <2>. QED
    BY <1>8, <2>2, <2>3, FailKeeps
<1>11. CASE pc = "ok" /\ kind = "direct"
  <2>1. pc' = "ok" /\ kind' = "direct" /\ got' = <<>>
    BY <1>1, <1>2, <1>11 DEF Done
  <2>2. Stage'
    BY <1>1, <1>2, <1>11 DEF Stage, Before, RowStages, Replies5
  <2>3. Reply' /\ Done' /\ Failed'
    BY <2>1 DEF Reply, Done, Failed, RowStages
  <2>. QED
    BY <1>8, <2>2, <2>3 DEF IInv
<1>12. CASE Waiting /\ pc \notin {"ok", "failed"}
  <2>1. asked # <<>> /\ answered = Len(asked) - 1 /\ Silent /\ Clean /\ m = Last
    BY <1>1, <1>3, <1>12 DEF Waiting, Last
  <2>2. answered' = Len(asked') /\ asked' # <<>> /\ Last' = m
    BY <1>1, <1>4, <2>1 DEF Last
  <2>3. PICK t : t = Total(m, a)
    OBVIOUS
  <2>4. t \in Seq(Units) /\ Len(t) \in Nat
    BY <1>6, <2>3
  <2>5. Unread' = t
    <3>1. /\ got' = <<>> /\ wire' = <<>> /\ coming' = <<>> \o t
      BY <1>1, <1>7, <2>1, <2>3 DEF Silent
    <3>2. <<>> \o t = t
      BY <2>4
    <3>3. Unread' = (<<>> \o <<>>) \o t
      BY <3>1, <3>2 DEF Unread
    <3>4. <<>> \o <<>> = <<>>
      OBVIOUS
    <3>. QED
      BY <3>2, <3>3, <3>4
  <2>6. Due(t, 0)'
    <3>1. 0 \in 0..Len(t) /\ Len(t) <= Len(t) - 0 /\ Len(t) = Len(t) - 0
      BY <2>4
    <3>2. \A i \in 1..Len(t) : t[i] = t[0 + i]
      BY <2>4
    <3>. QED
      BY <2>5, <3>1, <3>2 DEF Due
  <2>7. Total(m, a)' = t
    BY <1>2, <2>3 DEF Total
  <2>8. Due(Total(m, a), 0)'
    BY <2>6, <2>7 DEF Due
  <2>9. Recorded(m, a)'
    <3>1. a.odd \subseteq causes'
      BY <1>5
    <3>2. causes' \cap {"refused", "version1"} =
            (IF a.accepts THEN {} ELSE {"refused"}) \cup (a.odd \cap {"version1"})
      <4>1. causes \cap {"refused", "version1"} = {}
        BY <2>1 DEF Clean
      <4>2. CASE a.accepts
        BY <1>5, <1>6, <4>1, <4>2
      <4>3. CASE ~a.accepts
        BY <1>5, <1>6, <4>1, <4>3
      <4>. QED
        BY <4>2, <4>3
    <3>3. m.type = "connect" /\ a.accepts => granted' = m
      BY <1>5
    <3>. QED
      BY <3>1, <3>2, <3>3 DEF Recorded
  <2>10. Wanted' = Wanted /\ Wanted.type = "connect"
    BY <1>2, WantedConnects DEF Wanted, Target
  <2>11. pc \in {"reply4", "method", "authReply", "reply5", "peek"}
    <3>1. pc \notin Before
      <4>1. pc \in Before => asked = <<>>
        BY <1>1 DEF Stage
      <4>. QED
        BY <2>1, <4>1
    <3>2. pc \notin {"auth", "ask5"}
      BY <1>1, <1>4 DEF Stage
    <3>3. ~Passed /\ ~InRows
      BY <1>1, <1>4 DEF Passed, InRows
    <3>4. pc \notin {"tail5", "take", "row"}
      BY <1>1, <3>3 DEF Reply, RowStages
    <3>. QED
      BY <1>1, <1>12, <3>1, <3>2, <3>4 DEF TypeOK, Before
  <2>12. pc # "peek" => a \in Answers(m)'
    <3>1. CASE pc = "reply4"
      <4>1. m.type = "connect" /\ kind = "SOCKS4" /\ kind' = "SOCKS4"
        BY <1>1, <1>2, <2>1, <2>10, <3>1 DEF Reply, Stage
      <4>2. Answers(m) = Socks4Answers /\ Answers(m)' = Socks4Answers
        BY <4>1 DEF Answers
      <4>. QED
        BY <4>2
    <3>2. CASE pc \in {"method", "authReply"}
      <4>1. m.type = (IF pc = "method" THEN "hello" ELSE "auth") /\ kind = "SOCKS5" /\ kind' = "SOCKS5"
        BY <1>1, <1>2, <2>1, <3>2 DEF Reply, Stage, Replies5
      <4>2. Answers(m)' = Answers(m)
        BY <3>2, <4>1 DEF Answers
      <4>. QED
        BY <4>2
    <3>3. CASE pc = "reply5"
      <4>1. m.type = "connect" /\ kind = "SOCKS5"
        BY <1>1, <2>1, <2>10, <3>3 DEF Reply, Stage, Replies5
      <4>2. a \in Socks5Answers
        BY <4>1, RequestAnswers
      <4>3. a.odd \subseteq {"unknownType"}
        BY <4>2, Shape5
      <4>4. "gssapi" \in causes' <=> "gssapi" \in causes
        BY <1>5, <4>3
      <4>. QED
        BY <1>2, <4>4, AnswersKept
    <3>. QED
      BY <2>11, <3>1, <3>2, <3>3
  <2>13. pc # "peek" => Replied(0)'
    BY <2>2, <2>8, <2>9, <2>12 DEF Replied
  <2>14. pc = "peek" => InRows'
    <3>1. SUFFICES ASSUME pc = "peek"
                   PROVE  InRows'
      OBVIOUS
    <3>2. m.type = "connect" /\ kind = "HTTP" /\ first
      BY <1>1, <1>4, <2>1, <2>10, <3>1 DEF Reply, Stage, RowStages, InRows
    <3>3. a \in HttpAnswers
      BY <3>2, RequestAnswers
    <3>4. Len(a.units) \in 3..8
      BY <3>3, ShapeHttp
    <3>5. got' = <<>> /\ Len(got') - 1 = -1 /\ 1..-1 = {} /\ first' = first /\ pc' = "peek"
      BY <1>1, <2>1, <3>1 DEF Silent
    <3>6. RowAt(a, 0)'
      <4>1. \A n \in 3..8 : 0 < n
        OBVIOUS
      <4>2. 0 < Len(a.units)
        BY <3>4, <4>1
      <4>. QED
        BY <3>2, <3>5, <4>2 DEF RowAt
    <3>7. 0 \in 0..Len(Total(m, a)')
      BY <2>4, <2>7
    <3>. QED
      BY <2>2, <2>8, <2>9, <3>3, <3>6, <3>7 DEF InRows
  <2>15. Stage'
    <3>1. pc' = pc /\ open' = open
      BY <1>1
    <3>. QED
      BY <1>1, <1>2, <2>11, <3>1 DEF Stage, Before, RowStages, Replies5
  <2>16. Reply'
    <3>1. pc' = pc /\ want' = want
      BY <1>1
    <3>. QED
      BY <1>1, <2>1, <2>2, <2>10, <2>11, <2>13, <2>14, <3>1 DEF Reply, RowStages
  <2>17. Done' /\ Failed'
    BY <1>1, <1>12 DEF Done, Failed
  <2>. QED
    BY <1>8, <2>15, <2>16, <2>17 DEF IInv
<1>. QED
  BY <1>9, <1>10, <1>11, <1>12


\* The invariant holds at the call.
LEMMA InitIInv ==
  ASSUME Init
  PROVE  IInv
<1>1. <<>> \in Seq(Units) /\ <<>> \in Seq(Messages)
  OBVIOUS
<1>2. TypeOK
  <2>1. got \in Seq(Units) /\ coming \in Seq(Units) /\ wire \in Seq(Units) /\ asked \in Seq(Messages)
    BY <1>1 DEF Init
  <2>2. answered = 0 /\ asked = <<>> /\ Len(asked) = 0
    BY DEF Init
  <2>3. answered \in 0..Len(asked)
    BY <2>2
  <2>4. want \in 0..257 /\ peeked \in Nat
    BY DEF Init
  <2>5. granted \in Messages \cup {None}
    BY DEF Init
  <2>6. causes \subseteq {"local", "refused", "http11", "lfOnly", "version1", "gssapi", "unknownType", "raced"}
    BY DEF Init
  <2>7. /\ kind \in Kinds /\ host \in Hosts /\ port \in Ports /\ data \in Greetings /\ fd \in Fds
        /\ open \in BOOLEAN /\ first \in BOOLEAN /\ down \in BOOLEAN
    BY DEF Init
  <2>8. pc = "args"
    BY DEF Init
  <2>. QED
    BY <2>1, <2>3, <2>4, <2>5, <2>6, <2>7, <2>8 DEF TypeOK
<1>3. Stage
  BY DEF Init, Stage, Before, RowStages, Replies5, Silent
<1>4. Reply /\ Done /\ Failed
  BY DEF Init, Reply, Done, Failed, RowStages
<1>. QED
  BY <1>2, <1>3, <1>4 DEF IInv

\* Every step keeps it.
LEMMA NextIInv ==
  ASSUME IInv, [Next]_vars
  PROVE  IInv'
<1>1. ASSUME Handshake
      PROVE  IInv'
  <2>1. CASE CheckArgs
    BY <2>1, CheckArgsStep
  <2>2. CASE Connect
    BY <2>2, ConnectStep
  <2>3. CASE AskHttp
    BY <2>3, AskHttpStep
  <2>4. CASE AskSocks4
    BY <2>4, AskSocks4Step
  <2>5. CASE Hello
    BY <2>5, HelloStep
  <2>6. CASE Authenticate
    BY <2>6, AuthenticateStep
  <2>7. CASE AskSocks5
    BY <2>7, AskSocks5Step
  <2>8. CASE ReadSome
    BY <2>8, ReadSomeStep
  <2>9. CASE ReadShort
    BY <2>9, ReadShortStep
  <2>10. CASE Reply4
    BY <2>10, Reply4Step
  <2>11. CASE Method
    BY <2>11, MethodStep
  <2>12. CASE AuthReply
    BY <2>12, AuthReplyStep
  <2>13. CASE Reply5
    BY <2>13, Reply5Step
  <2>14. CASE Tail5
    BY <2>14, Tail5Step
  <2>15. CASE Peek
    BY <2>15, PeekStep
  <2>16. CASE PeekAtEnd
    BY <2>16, PeekAtEndStep
  <2>17. CASE TakeRow
    BY <2>17, TakeRowStep
  <2>18. CASE TakePart
    BY <2>18, TakePartStep
  <2>19. CASE Row
    BY <2>19, RowStep
  <2>. QED
    BY <1>1, <2>1, <2>2, <2>3, <2>4, <2>5, <2>6, <2>7, <2>8, <2>9, <2>10, <2>11, <2>12,
       <2>13, <2>14, <2>15, <2>16, <2>17, <2>18, <2>19 DEF Handshake
<1>2. CASE LocalError
  BY <1>2, LocalErrorStep
<1>3. CASE NoAddress
  BY <1>3, NoAddressStep
<1>4. CASE ProxyAnswers
  BY <1>4, ProxyAnswersStep
<1>5. CASE ProxyCloses
  BY <1>5, ProxyClosesStep
<1>6. CASE Arrives
  BY <1>6, ArrivesStep
<1>7. CASE UNCHANGED vars
  <2>1. UNCHANGED <<kind, host, port, data, fd, pc, open, want, got, first, peeked, asked, wire,
                    answered, coming, down, granted, causes>>
    BY <1>7 DEF vars, inputs, proxyVars
  <2>2. TypeOK /\ Stage /\ Reply /\ Done /\ Failed /\ data \in Seq(Units)
    BY Types DEF IInv
  <2>3. Unread' = Unread /\ Last' = Last /\ Wanted' = Wanted
    BY <2>1 DEF Unread, Last, Wanted, Target
  <2>4. TypeOK'
    BY <2>1, <2>2 DEF TypeOK
  <2>5. Stage'
    BY <2>1, <2>2 DEF Stage, Silent, Clean
  <2>6. /\ Waiting => Waiting'
        /\ Replied(0) => Replied(0)'
        /\ Passed => Passed'
    BY <2>1, <2>2, <2>3, MovesKeepDue, DialogueKept DEF inputs, Silent
  <2>7. InRows => InRows'
    <3>1. \A a \in HttpAnswers : \A k \in Nat : RowAt(a, k) => RowAt(a, k)'
      BY <2>1 DEF RowAt, InOrder, AtEnd
    <3>. QED
      BY <2>1, <2>2, <2>3, <3>1, MovesKeepDue, RowsKept DEF inputs
  <2>8. Reply'
    BY <2>1, <2>2, <2>3, <2>6, <2>7 DEF Reply
  <2>9. Due(data, 0) => Due(data, 0)'
    BY <2>1, <2>3 DEF Due
  <2>10. Done'
    BY <2>1, <2>2, <2>3, <2>9 DEF Done
  <2>11. Failed'
    BY <2>1, <2>2 DEF Failed, FailsForReason
  <2>. QED
    BY <2>4, <2>5, <2>8, <2>10, <2>11 DEF IInv
<1>. QED
  BY <1>1, <1>2, <1>3, <1>4, <1>5, <1>6, <1>7 DEF Next

\* The place in the dialogue with the proxy is known throughout a call.
THEOREM DialogueInductive == Spec => []IInv
<1>1. Init => IInv
  BY InitIInv
<1>2. IInv /\ [Next]_vars => IInv'
  BY NextIInv
<1>. QED
  BY <1>1, <1>2, PTL DEF Spec

\* The variables keep their types, whatever the proxy sends and in whatever
\* pieces: the rest of a SOCKS5 reply is at most 257 bytes long, and an answer
\* is to a message that was sent.
THEOREM TypeCorrect == Spec => []TypeOK
<1>1. IInv => TypeOK
  BY DEF IInv
<1>. QED
  BY <1>1, DialogueInductive, PTL

\* A descriptor is returned only for a connection that the proxy granted, to
\* the host and port given, with the bytes of the port swapped for HTTP.
THEOREM ConnectedMeansGrantedAlways == Spec => []ConnectedMeansGranted
<1>1. IInv => ConnectedMeansGranted
  <2>1. SUFFICES ASSUME IInv, pc = "ok"
                 PROVE  open /\ (kind # "direct" =>
                                   granted = Target(IF kind = "HTTP" THEN Swapped(port) ELSE port))
    BY DEF ConnectedMeansGranted
  <2>2. Stage /\ Done
    BY <2>1 DEF IInv
  <2>3. open
    BY <2>1, <2>2 DEF Stage
  <2>4. kind # "direct" => granted = Wanted
    BY <2>1, <2>2 DEF Done
  <2>5. Wanted = Target(IF kind = "HTTP" THEN Swapped(port) ELSE port)
    BY DEF Wanted
  <2>. QED
    BY <2>3, <2>4, <2>5
<1>. QED
  BY <1>1, DialogueInductive, PTL

\* What the caller of a successful call reads is the target's stream from its
\* first unit on, unless the end of the rows was lost or the type of an address
\* was not known.
THEOREM StreamWholeAlways == Spec => []StreamWhole
<1>1. IInv => StreamWhole
  <2>1. SUFFICES ASSUME IInv, pc = "ok", kind # "direct",
                        causes \cap {"lfOnly", "raced", "unknownType"} = {}
                 PROVE  LET rest == wire \o coming IN
                        /\ Len(rest) <= Len(data) /\ rest = SubSeq(data, 1, Len(rest))
                        /\ ~down => rest = data
    BY DEF StreamWhole
  <2>2. PICK r : r = wire \o coming
    OBVIOUS
  <2>3. Sequences /\ data \in Seq(Units) /\ got = <<>> /\ Due(data, 0)
    BY <2>1, Types DEF IInv, Done
  <2>4. Unread = r
    <3>1. Unread = (<<>> \o wire) \o coming
      BY <2>3 DEF Unread
    <3>2. <<>> \o wire = wire
      BY <2>3 DEF Sequences
    <3>. QED
      BY <2>2, <3>1, <3>2
  <2>5. r \in Seq(Units) /\ Len(r) \in Nat /\ Len(data) \in Nat
    BY <2>2, <2>3, UnreadParts
  <2>6. Len(r) <= Len(data) /\ \A i \in 1..Len(r) : r[i] = data[i]
    <3>1. Len(r) <= Len(data) - 0 /\ \A i \in 1..Len(r) : r[i] = data[0 + i]
      BY <2>3, <2>4 DEF Due
    <3>. QED
      BY <2>5, <3>1
  <2>7. r = SubSeq(data, 1, Len(r))
    <3>1. PICK q : q = SubSeq(data, 1, Len(r))
      OBVIOUS
    <3>2. \A i \in 1..Len(r) : data[i] \in Units
      BY <2>3, <2>5, <2>6
    <3>3. q \in Seq(Units) /\ Len(q) = Len(r) /\ \A i \in 1..Len(r) : q[i] = data[i]
      BY <2>3, <2>5, <2>6, <3>1, <3>2, SubSeqProperties
    <3>4. r = q
      BY <2>5, <2>6, <3>3, SeqEqual
    <3>. QED
      BY <3>1, <3>4
  <2>8. ~down => r = data
    <3>1. ~down => Len(r) = Len(data)
      BY <2>3, <2>4, <2>5 DEF Due
    <3>. QED
      BY <2>3, <2>5, <2>6, <3>1, SeqEqual
  <2>. QED
    BY <2>2, <2>6, <2>7, <2>8
<1>. QED
  BY <1>1, DialogueInductive, PTL

\* A call that fails has closed its descriptor, unless it has number 0 and is
\* connected to a proxy, and had a reason to fail.
THEOREM FailsForReasonAlways == Spec => []FailsForReason
<1>1. IInv => FailsForReason
  BY DEF IInv, Failed, FailsForReason
<1>. QED
  BY <1>1, DialogueInductive, PTL

\* A message is sent only once the one before it was answered, and the request
\* only when no answer was a refusal or the version 1 one.
THEOREM AuthorisedFirstAlways == Spec => AuthorisedFirst
<1>. DEFINE First == asked' # asked =>
                       /\ answered = Len(asked)
                       /\ asked'[Len(asked')].type = "connect" => causes \cap {"refused", "version1"} = {}
<1>1. IInv /\ [Next]_vars => [First]_vars
  <2>1. SUFFICES ASSUME IInv, Next, asked' # asked
                 PROVE  answered = Len(asked) /\ causes \cap {"refused", "version1"} = {}
    OBVIOUS
  <2>2. AskHttp \/ AskSocks4 \/ Hello \/ Authenticate \/ AskSocks5
    BY <2>1 DEF Next, Handshake, CheckArgs, Connect, ReadSome, ReadShort, Reply4, Method, AuthReply,
                Reply5, Tail5, Peek, PeekAtEnd, TakeRow, TakePart, Row, LocalError, NoAddress,
                ProxyAnswers, ProxyCloses, Arrives, Judge
  <2>3. pc \in {"ask", "auth", "ask5"}
    BY <2>2 DEF AskHttp, AskSocks4, Hello, Authenticate, AskSocks5
  <2>4. Stage
    BY <2>1 DEF IInv
  <2>5. CASE pc = "ask"
    <3>1. asked = <<>> /\ answered = 0 /\ causes = {}
      BY <2>4, <2>5 DEF Stage, Before
    <3>. QED
      BY <3>1
  <2>6. CASE pc \in {"auth", "ask5"}
    BY <2>4, <2>6 DEF Stage, Clean
  <2>. QED
    BY <2>3, <2>5, <2>6
<1>2. AuthorisedFirst <=> [][First]_vars
  BY DEF AuthorisedFirst
<1>. QED
  BY <1>1, <1>2, DialogueInductive, PTL DEF Spec
=============================================================================
