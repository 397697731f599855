--------------------------- MODULE SocketBufProofs ---------------------------
(* Lemmas about the operators of SocketBuf, for sequences of any elements.   *)
EXTENDS SocketBuf, SequenceTheorems, FiniteSetTheorems, TLAPS

\* A set of natural numbers that is not empty has a least element.
LEMMA LeastOf ==
  ASSUME NEW T, T \subseteq Nat, T # {}
  PROVE  Min(T) \in T /\ \A x \in T : Min(T) <= x
<1>. DEFINE F == {0..x : x \in T}
<1>1. F \subseteq FiniteSubsetsOf(Nat) /\ F # {}
  <2>1. ASSUME NEW x \in T
        PROVE  0..x \in FiniteSubsetsOf(Nat)
    <3>1. x \in Int /\ 0 \in Int /\ 0..x \subseteq Nat
      OBVIOUS
    <3>2. IsFiniteSet(0..x)
      BY <3>1, FS_Interval
    <3>. QED
      BY <3>1, <3>2 DEF FiniteSubsetsOf
  <2>. QED
    BY <2>1
<1>2. PICK u \in F : \A v \in F : <<v, u>> \notin StrictSubsetOrdering(Nat)
  BY <1>1, FS_StrictSubsetOrderingWellFounded, WFMin
<1>3. PICK m \in T : u = 0..m
  BY <1>2
<1>4. ASSUME NEW y \in T, y < m
      PROVE  FALSE
  <2>1. 0..y \in F /\ 0..y \subseteq Nat /\ 0..m \subseteq Nat
    BY <1>3
  <2>2. 0..y \subseteq 0..m /\ m \in 0..m /\ m \notin 0..y
    BY <1>4
  <2>3. <<0..y, u>> \in StrictSubsetOrdering(Nat)
    BY <1>3, <2>1, <2>2 DEF StrictSubsetOrdering
  <2>. QED
    BY <1>2, <2>1, <2>3
<1>5. \A y \in T : m <= y
  BY <1>4
<1>. QED
  BY <1>5 DEF Min

\* A set of numbers up to n that is not empty has a greatest element.
LEMMA GreatestOf ==
  ASSUME NEW n \in Nat, NEW T, T \subseteq 0..n, T # {}
  PROVE  Max(T) \in T /\ \A x \in T : x <= Max(T)
<1>. DEFINE D == {n - x : x \in T}
<1>1. D \subseteq Nat /\ D # {}
  <2>1. \A x \in T : x \in 0..n /\ n - x \in Nat
    OBVIOUS
  <2>. QED
    BY <2>1
<1>2. PICK x \in T : \A y \in T : n - x <= n - y
  <2>1. Min(D) \in D /\ \A d \in D : Min(D) <= d
    BY <1>1, LeastOf
  <2>. QED
    BY <2>1
<1>3. \A y \in T : x >= y
  BY <1>2
<1>. QED
  BY <1>3 DEF Max

\* A cut of a sequence is its first n elements and the rest.
LEMMA Cuts ==
  ASSUME NEW S, NEW s \in Seq(S), NEW n \in 0..Len(s)
  PROVE  /\ Prefix(s, n) \in Seq(S) /\ Suffix(s, n) \in Seq(S)
         /\ Len(Prefix(s, n)) = n /\ Len(Suffix(s, n)) = Len(s) - n
         /\ \A i \in 1..n : Prefix(s, n)[i] = s[i]
         /\ \A i \in 1..Len(s) - n : Suffix(s, n)[i] = s[n + i]
<1>1. \A i \in 1..Len(s) : s[i] \in S
  OBVIOUS
<1>2. \A i \in 1..n : s[i] \in S
  BY <1>1
<1>3. \A i \in n + 1..Len(s) : s[i] \in S
  BY <1>1
<1>4. /\ SubSeq(s, 1, n) \in Seq(S) /\ Len(SubSeq(s, 1, n)) = n
      /\ \A i \in 1..n : SubSeq(s, 1, n)[i] = s[i]
  BY <1>2, SubSeqProperties
<1>5. /\ SubSeq(s, n + 1, Len(s)) \in Seq(S) /\ Len(SubSeq(s, n + 1, Len(s))) = Len(s) - n
      /\ \A i \in 1..Len(s) - n : SubSeq(s, n + 1, Len(s))[i] = s[n + i]
  BY <1>3, SubSeqProperties
<1>. QED
  BY <1>4, <1>5 DEF Prefix, Suffix

\* The halves of a cut are the whole again.
LEMMA CutJoins ==
  ASSUME NEW S, NEW s \in Seq(S), NEW n \in 0..Len(s)
  PROVE  Prefix(s, n) \o Suffix(s, n) = s
<1>1. 1 \in 1..Len(s) + 1 /\ n \in 1 - 1..Len(s) /\ Len(s) \in n..Len(s)
  OBVIOUS
<1>2. SubSeq(s, 1, n) \o SubSeq(s, n + 1, Len(s)) = SubSeq(s, 1, Len(s))
  BY <1>1, ConcatAdjacentSubSeq
<1>. QED
  BY <1>2, SubSeqFull DEF Prefix, Suffix

\* A cut in the first of two sequences cuts their concatenation.
LEMMA CutOfJoin ==
  ASSUME NEW S, NEW s \in Seq(S), NEW t \in Seq(S), NEW n \in 0..Len(s)
  PROVE  Suffix(s, n) \o t = Suffix(s \o t, n) /\ n \in 0..Len(s \o t)
<1>. DEFINE a == Prefix(s, n)
            z == Suffix(s, n)
            u == z \o t
<1>1. /\ a \in Seq(S) /\ z \in Seq(S) /\ Len(a) = n /\ Len(z) = Len(s) - n
      /\ \A i \in 1..Len(s) - n : z[i] = s[n + i]
  BY Cuts
<1>. HIDE DEF a, z
<1>2. u \in Seq(S) /\ Len(u) = Len(s) - n + Len(t)
  BY <1>1, ConcatProperties
<1>3. /\ s \o t \in Seq(S) /\ Len(s \o t) = Len(s) + Len(t) /\ Len(s) \in Nat /\ Len(t) \in Nat
      /\ \A i \in 1..Len(s) + Len(t) : (s \o t)[i] = IF i <= Len(s) THEN s[i] ELSE t[i - Len(s)]
  BY ConcatProperties
<1>4. n \in 0..Len(s \o t)
  BY <1>3
<1>5. /\ Suffix(s \o t, n) \in Seq(S) /\ Len(Suffix(s \o t, n)) = Len(s \o t) - n
      /\ \A i \in 1..Len(s \o t) - n : Suffix(s \o t, n)[i] = (s \o t)[n + i]
  BY <1>3, <1>4, Cuts
<1>6. ASSUME NEW i \in 1..Len(s) - n + Len(t)
      PROVE  u[i] = (s \o t)[n + i]
  <2>1. u[i] = IF i <= Len(s) - n THEN z[i] ELSE t[i - (Len(s) - n)]
    BY <1>1, <1>3, ConcatProperties
  <2>2. n + i \in 1..Len(s) + Len(t)
    BY <1>3
  <2>3. CASE i <= Len(s) - n
    BY <1>1, <1>3, <2>1, <2>2, <2>3
  <2>4. CASE ~(i <= Len(s) - n)
    <3>1. n + i - Len(s) = i - (Len(s) - n) /\ ~(n + i <= Len(s))
      BY <1>3, <2>4
    <3>. QED
      BY <1>3, <2>1, <2>2, <2>4, <3>1
  <2>. QED
    BY <2>3, <2>4
<1>. HIDE DEF u
<1>7. Len(u) = Len(Suffix(s \o t, n)) /\ \A i \in 1..Len(u) : u[i] = Suffix(s \o t, n)[i]
  BY <1>2, <1>3, <1>5, <1>6, SMTT(30)
<1>8. u = Suffix(s \o t, n)
  BY <1>2, <1>5, <1>7, SeqEqual
<1>. QED
  BY <1>4, <1>8 DEF u, z

\* The row at the head of a buffer is what is in it up to the first newline.
LEMMA RowAtHead ==
  ASSUME NEW S, NEW b \in Seq(S), HasRow(b)
  PROVE  /\ Min(RowEnds(b)) \in 1..Len(b) /\ Min(RowEnds(b)) \in RowEnds(b)
         /\ \A i \in RowEnds(b) : Min(RowEnds(b)) <= i
         /\ Row(b) \in Seq(S) /\ Len(Row(b)) = Min(RowEnds(b))
         /\ \A i \in 1..Len(Row(b)) : Row(b)[i] = b[i]
<1>1. RowEnds(b) \subseteq 1..Len(b) /\ RowEnds(b) # {}
  BY DEF HasRow, RowEnds
<1>2. Min(RowEnds(b)) \in RowEnds(b) /\ \A i \in RowEnds(b) : Min(RowEnds(b)) <= i
  BY <1>1, LeastOf
<1>3. Min(RowEnds(b)) \in 0..Len(b)
  BY <1>1, <1>2
<1>. QED
  BY <1>1, <1>2, <1>3, Cuts DEF Row

\* The tail of a sequence is what is behind its first element.
LEMMA TailCuts ==
  ASSUME NEW S, NEW s \in Seq(S), s # <<>>
  PROVE  Tail(s) = Suffix(s, 1) /\ 1 \in 0..Len(s) /\ s[1] \in S
<1>1. Len(s) \in Nat /\ Len(s) > 0 /\ \A i \in 1..Len(s) : s[i] \in S
  OBVIOUS
<1>2. 1 \in 0..Len(s) /\ s[1] \in S
  BY <1>1
<1>3. /\ Suffix(s, 1) \in Seq(S) /\ Len(Suffix(s, 1)) = Len(s) - 1
      /\ \A i \in 1..Len(s) - 1 : Suffix(s, 1)[i] = s[1 + i]
  BY <1>2, Cuts
<1>4. /\ Tail(s) \in Seq(S) /\ Len(Tail(s)) = Len(s) - 1
      /\ \A i \in 1..Len(s) - 1 : Tail(s)[i] = s[i + 1]
  BY <1>1
<1>5. Len(Tail(s)) = Len(Suffix(s, 1)) /\ \A i \in 1..Len(Tail(s)) : Tail(s)[i] = Suffix(s, 1)[i]
  BY <1>1, <1>3, <1>4
<1>. QED
  BY <1>2, <1>3, <1>4, <1>5, SeqEqual

\* One sequence behind another.
LEMMA Joins ==
  ASSUME NEW S, NEW s \in Seq(S), NEW t \in Seq(S)
  PROVE  /\ s \o t \in Seq(S) /\ Len(s \o t) = Len(s) + Len(t)
         /\ Len(s) \in Nat /\ Len(t) \in Nat
         /\ \A i \in 1..Len(s) : (s \o t)[i] = s[i] /\ s[i] \in S
         /\ \A i \in 1..Len(t) : (s \o t)[Len(s) + i] = t[i] /\ t[i] \in S
<1>1. /\ s \o t \in Seq(S) /\ Len(s \o t) = Len(s) + Len(t)
      /\ Len(s) \in Nat /\ Len(t) \in Nat
      /\ \A i \in 1..Len(s) + Len(t) : (s \o t)[i] = IF i <= Len(s) THEN s[i] ELSE t[i - Len(s)]
  BY ConcatProperties
<1>2. ASSUME NEW i \in 1..Len(s)
      PROVE  (s \o t)[i] = s[i] /\ s[i] \in S
  <2>1. i \in 1..Len(s) + Len(t) /\ i <= Len(s)
    BY <1>1
  <2>. QED
    BY <1>1, <2>1
<1>3. ASSUME NEW i \in 1..Len(t)
      PROVE  (s \o t)[Len(s) + i] = t[i] /\ t[i] \in S
  <2>1. Len(s) + i \in 1..Len(s) + Len(t) /\ ~(Len(s) + i <= Len(s)) /\ Len(s) + i - Len(s) = i
    BY <1>1
  <2>. QED
    BY <1>1, <2>1
<1>. QED
  BY <1>1, <1>2, <1>3
=============================================================================
