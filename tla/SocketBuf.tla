------------------------------ MODULE SocketBuf ------------------------------
(***************************************************************************)
(* The socket buffer of the client (socket.c): rows and blocks cut from    *)
(* what read() or SSL_read() has brought so far, as operators on soc->buf. *)
(*                                                                         *)
(* Bytes come in units of kind k.  The kinds in Newline are whole rows, up *)
(* to and including their newline; "body", "zero" (the single byte '0')    *)
(* and "junk" (what a freed block holds) are bytes without newline.  "size"*)
(* is the row that gives the length n of a chunk, "crlf" the end of one,   *)
(* "cut" a row whose beginning is gone.                                    *)
(***************************************************************************)
EXTENDS Naturals, Sequences, FiniteSetsExt

Unit(k, r, n) == [k |-> k, r |-> r, n |-> n]
Newline == {"pid", "line", "status", "clen", "te", "blank", "size", "crlf", "cut"}
Kinds   == Newline \cup {"body", "zero", "junk"}

Prefix(s, n) == SubSeq(s, 1, n)
Suffix(s, n) == SubSeq(s, n + 1, Len(s))
Smaller(m, n) == IF m < n THEN m ELSE n

\* GetRowAndCut(): the row at the head of a buffer.
RowEnds(b) == {i \in DOMAIN b : b[i].k \in Newline}
HasRow(b)  == RowEnds(b) # {}
Row(b)     == Prefix(b, Min(RowEnds(b)))

\* The unit at i is a row by itself.
IsRow(b, i) == i \in RowEnds(b) /\ (i = 1 \/ i - 1 \in RowEnds(b))

\* chopStr() leaves nothing of the row u.
BlankRow(u)   == u.k \in {"blank", "crlf"}
BlankFirst(b) == HasRow(b) /\ IsRow(b, 1) /\ BlankRow(b[1])

\* IncreaseSoc(): one read of at most most units; what is buffered then, and
\* what is still to come.
Increased(b, wire, most) ==
  {<<b \o Prefix(wire, n), Suffix(wire, n)>> : n \in 1..Smaller(most, Len(wire))}

\* strtol(row, NULL, 16): a row that is no size may give any number.
StrToL(row, limit) ==
  LET u == row[Len(row)] IN
  IF u.k = "size" /\ \A i \in 1..Len(row) - 1 : row[i].k = "zero"
  THEN {u.n} ELSE 0..limit

\* GetBufFromSocket() of size units hands over the whole buffer and empties
\* it: the units behind are lost, which matters if they are more than the end
\* of the chunk.
Block(b, size) == Prefix(b, size)
Surplus(b, size) == \E i \in size + 1..Len(b) : b[i].k # "crlf"

=============================================================================
