----------------------------- MODULE MCLocalHost -----------------------------
(* Answers of a local server for TLC. *)
EXTENDS LocalHost

U(k, n) == Unit(k, None, n)
Bytes(m, n) == [i \in 1..n - m + 1 |-> U("body", m + i - 1)]
Header(rows) == <<U("status", 0)>> \o rows \o <<U("line", 0), U("blank", 0)>>
AChunk(m, n) == <<U("size", n - m + 1)>> \o Bytes(m, n) \o <<U("crlf", 0)>>

Plain(n) == [header |-> Header(<<U("clen", n)>>), rest |-> Bytes(1, n), body |-> Bytes(1, n)]
\* The answer to a HEAD request: the length of a body that does not follow.
HeadOnly(n) == [header |-> Header(<<U("clen", n)>>), rest |-> <<>>, body |-> <<>>]
UntilClose(n) == [header |-> Header(<<>>), rest |-> Bytes(1, n), body |-> Bytes(1, n)]
\* A body of l units in two chunks, the first of m units.
Chunked(m, l) ==
  [header |-> Header(<<U("te", 0)>>),
   rest   |-> AChunk(1, m) \o AChunk(m + 1, l) \o <<U("size", 0), U("crlf", 0)>>,
   body   |-> Bytes(1, l)]
\* "100 Continue", and the answer behind it.
Interim(a) == [header |-> <<U("status", 1), U("blank", 0)>>,
               rest |-> a.header \o a.rest, body |-> a.body]

AllAnswers == {Plain(0), Plain(3), HeadOnly(2), UntilClose(2), Chunked(1, 3), Chunked(2, 4),
               Interim(Plain(1))}
ChunkedAnswers == {Chunked(1, 3), Chunked(2, 4)}
=============================================================================
