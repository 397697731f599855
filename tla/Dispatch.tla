------------------------------ MODULE Dispatch ------------------------------
(***************************************************************************)
(* main() of the CGI program: what it becomes for a request.  Host name    *)
(* and URI are sequences of symbols: "." and "/", the numbers in Digits,   *)
(* one symbol each, and any other text.                                    *)
(***************************************************************************)
EXTENDS Lst

CONSTANT Digits

\* atol(): the number a text begins with, or 0.
AtoL(s) == IF s = <<>> \/ Head(s) \notin Digits THEN "0" ELSE Head(s)

\* The ASSERT each role begins with: no id is 0.
Checked(name, id, pid) ==
  IF id = "0" \/ pid = "0" THEN [name |-> "exit", id |-> "0", pid |-> "0"]
  ELSE [name |-> name, id |-> id, pid |-> pid]

\* main(): a name of two parts is the service's own, one of three or more
\* begins with the id of a client.
Role(host, uri) ==
  LET lstArgs == SplitStr(".", host)
      path == Tail(uri)
      slash == Occurrences(path, <<"/">>, 1)
      t == CHOOSE k \in slash : \A j \in slash : k <= j IN
  IF Len(lstArgs) < 2 THEN Checked("exit", "0", "0")
  ELSE IF Len(lstArgs) > 2 THEN Checked("Pier", AtoL(lstArgs[1]), "none")
  ELSE IF slash = {} THEN Checked("Connect", AtoL(path), "none")
  ELSE Checked("Respond", AtoL(SubSeq(path, 1, t - 1)), AtoL(SubSeq(path, t + 1, Len(path))))
=============================================================================
