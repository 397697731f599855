-------------------------------- MODULE Rows --------------------------------
(***************************************************************************)
(* liblst.c: readFileRow() and what it stands on, called in a loop as      *)
(* test.c does, or for one row as ptGetFileRowFormat() does, on one file   *)
(* after the other.  What was read and not yet returned is kept in a       *)
(* static variable, whichever file the next call is about.                 *)
(***************************************************************************)
EXTENDS Lst

CONSTANTS
  Files,    \* contents a file may have
  Chunk,    \* bytes read_chunk_str() reads at most
  MaxOpens, \* bound: files the caller opens
  MaxRows   \* bound: rows of a file that are remembered

VARIABLES
  file,     \* the open file's content
  off,      \* how much of it is read
  rest,     \* the static variable; empty stands for NULL too
  pc,       \* "idle": between calls; "reading": in one; "end", "failed": the
            \* call returned 0, -1
  rows,     \* history: the rows the calls for this file returned
  stale,    \* history: whether rest was not empty when the file was opened
  opens     \* files opened

vars == <<file, off, rest, pc, rows, stale, opens>>

\* Strings to search for and to put in.
Words == {<<>>, <<"a">>, <<"a", "a">>, <<"b", "a">>}
Byte == {"a", "b", "\n", "\r"}

TypeOK ==
  /\ file \in Files
  /\ off \in 0..Len(file)
  /\ rest \in Seq(Byte)
  /\ pc \in {"idle", "reading", "end", "failed"}
  /\ rows \in Seq(Seq(Byte \ {"\n", "\r"})) /\ Len(rows) <= MaxRows
  /\ stale \in BOOLEAN
  /\ opens \in 1..MaxOpens

Init ==
  /\ file \in Files
  /\ off = 0 /\ rest = <<>> /\ pc = "idle" /\ rows = <<>> /\ stale = FALSE /\ opens = 1

-----------------------------------------------------------------------------
HasRow(s) == Occurrences(s, <<"\n">>, 1) # {}
FirstRow(s) == SubSeq(s, 1, CHOOSE k \in DOMAIN s : s[k] = "\n" /\ \A j \in 1..k - 1 : s[j] # "\n")

\* Mutant of Returns: the row keeps its newline.
ReturnsRaw(row) == rows' = (IF Len(rows) < MaxRows THEN Append(rows, row) ELSE rows)

\* chopStr(*data) and the row's length: the call returned a row.
Returns(row) == rows' = (IF Len(rows) < MaxRows THEN Append(rows, ChopStr(row)) ELSE rows)

\* Mutant of CutRest: it takes the first byte of the next row too.
CutRestPast(s) ==
  /\ Returns(FirstRow(s))
  /\ rest' = SubSeq(s, Len(FirstRow(s)) + 2, Len(s))
  /\ pc' = "idle"

\* Mutant of CutRest: the row stays in rest.
CutRestKeeps(s) == Returns(FirstRow(s)) /\ rest' = s /\ pc' = "idle"

\* cut_rest(): the first row, and the rest by ptReplaceStr(), which takes out
\* every occurrence of the row, also at the end of a longer one.
CutRest(s) ==
  /\ Returns(FirstRow(s))
  /\ rest' = ReplaceStr(s, FirstRow(s), <<>>)
  /\ pc' = "idle"

\* A call finds a row in what was read before, or has to read.
CallRow ==
  /\ pc = "idle"
  /\ IF HasRow(rest) THEN CutRest(rest)
     ELSE pc' = "reading" /\ UNCHANGED <<rest, rows>>
  /\ UNCHANGED <<file, off, stale, opens>>

\* read_chunk_str(): what one read() gives, appended by ptReplaceStr().
ReadChunk ==
  /\ pc = "reading" /\ off < Len(file)
  /\ \E n \in 1..Chunk :
       /\ off + n <= Len(file)
       /\ off' = off + n
       /\ LET s == ReplaceStr(rest, <<>>, SubSeq(file, off + 1, off + n)) IN
          IF HasRow(s) THEN CutRest(s)
          ELSE rest' = s /\ UNCHANGED <<pc, rows>>
  /\ UNCHANGED <<file, stale, opens>>

\* Mutant of ReadEnd: the last row is not given without its newline.
ReadEndDrops ==
  /\ pc = "reading" /\ off = Len(file)
  /\ pc' = "end" /\ rest' = <<>> /\ UNCHANGED rows
  /\ UNCHANGED <<file, off, stale, opens>>

\* At the end a row without newline is returned, and stays in rest.
ReadEnd ==
  /\ pc = "reading" /\ off = Len(file)
  /\ IF rest # <<>> THEN Returns(rest) /\ pc' = "idle" ELSE pc' = "end" /\ UNCHANGED rows
  /\ UNCHANGED <<file, off, rest, stale, opens>>

\* read() fails: rest is freed.
ReadFails ==
  /\ pc = "reading"
  /\ rest' = <<>> /\ pc' = "failed"
  /\ UNCHANGED <<file, off, rows, stale, opens>>

\* The caller has all rows it wants, and is then asked for another file.
OpenFile ==
  /\ pc # "reading" /\ rows # <<>> /\ opens < MaxOpens
  /\ opens' = opens + 1
  /\ file' \in Files
  /\ off' = 0 /\ pc' = "idle" /\ rows' = <<>>
  /\ stale' = (rest # <<>>)
  /\ UNCHANGED rest

Next == CallRow \/ ReadChunk \/ ReadEnd \/ ReadFails \/ OpenFile

Spec == Init /\ [][Next]_vars

\* The loop of test.c calls again after every row.
FairSpec == Spec /\ WF_vars(CallRow \/ ReadChunk \/ ReadEnd)

-----------------------------------------------------------------------------
(* Properties.                                                             *)

\* Each file's rows with their newlines, and what is behind the last one.
RowsOf(f) ==
  LET from[n \in 1..Len(f) + 1] ==
        LET s == SubSeq(f, n, Len(f)) IN
        IF s = <<>> THEN <<>>
        ELSE IF HasRow(s) THEN <<FirstRow(s)>> \o from[n + Len(FirstRow(s))]
        ELSE <<s>>
  IN from[1]

Terminated(f) == f = <<>> \/ f[Len(f)] = "\n"

EndsWith(s, t) == Len(t) <= Len(s) /\ SubSeq(s, Len(s) - Len(t) + 1, Len(s)) = t

\* No row is also the end of a later one, as a blank or a repeated row is.
Distinct(f) == \A i, j \in DOMAIN RowsOf(f) : i < j => ~EndsWith(RowsOf(f)[j], RowsOf(f)[i])

Chopped(f) == [i \in DOMAIN RowsOf(f) |-> ChopStr(RowsOf(f)[i])]

\* However a file is cut into reads, the calls return its rows in their order,
\* each once and whole, when no row of it is the end of a later one and the file
\* before was not left with rows unread.  A last row without newline is returned
\* again and again, the others are not.
RowsInOrder ==
  (Distinct(file) /\ ~stale) =>
    LET all == Chopped(file) IN
    /\ Terminated(file) => Len(rows) <= Len(all)
    /\ \A i \in DOMAIN rows : rows[i] = all[Min({i, Len(all)})]

\* The call that returns 0 has left no row unreturned of a file in which no row
\* is the end of a later one.
AllRows ==
  (Distinct(file) /\ pc = "end") => Len(rows) >= Min({Len(RowsOf(file)), MaxRows})

\* The loop of test.c over the first file ends when the file has such rows and
\* its last newline.  With a blank row it need not: taking out a blank row takes
\* the newlines of the rows behind it too, and the last has none then.
EndsIfTerminated ==
  [](Distinct(file) /\ Terminated(file) => <>(pc \in {"end", "failed"} \/ opens = MaxOpens))

\* "while(0 < readFileRow(&buf, fd))" (test.c) ends for every file.
LoopEnds == <>(pc \in {"end", "failed"} \/ opens > 1)

\* ptReplaceStr() replaces the occurrences that overlap none replaced before
\* them, and leaves the rest as it is.
ReplacesAll ==
  \A p \in Words \ {<<>>}, r \in Words :
    LET at == Occurrences(file, p, 1)
        taken == CHOOSE T \in SUBSET at :
                   \A k \in at : k \in T <=> \A j \in T : ~(j < k /\ k < j + Len(p))
        Put(i) == IF i \in taken THEN r
                  ELSE IF \E j \in taken : j < i /\ i < j + Len(p) THEN <<>> ELSE <<file[i]>>
    IN ReplaceStr(file, p, r) = FlattenSeq([i \in DOMAIN file |-> Put(i)])
=============================================================================
