-------------------------------- MODULE MCCgi --------------------------------
(* Small instances of Cgi for TLC. *)
EXTENDS Cgi, TLC

\* Processes of one kind, and their pids, are interchangeable: nothing
\* compares or orders them.
Symmetry == Permutations(Reqs) \cup Permutations(Conns) \cup Permutations(Pids)

\* State constraint.  Where the client has lost its place one fault is followed to
\* the end, and the second is not added.
OneFaultAstray == due # Stray \/ deaths + leaves < 2
=============================================================================
