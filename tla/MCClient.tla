------------------------------ MODULE MCClient ------------------------------
(* Small instances of Client for TLC. *)
EXTENDS Client, TLC

\* No body, a body in two blocks, and one of the single byte '0'.
AllBodies == {<<>>, <<"body", "body">>, <<"zero">>}
PlainBodies == {<<>>, <<"body", "body">>}

\* Nothing compares or orders pids.
Symmetry == Permutations(Reqs)

\* State constraints.  Behind what the parser cannot find its way, one fault or
\* ping is followed to the end, and a second is not added.
OneFaultBehind == Clean \/ faults + pings < 2

\* A cause settles EveryRequestServed for every request, now and later.
NoCause == causes = {}
=============================================================================
