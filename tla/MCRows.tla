------------------------------- MODULE MCRows -------------------------------
(* Small files for Rows.                                                   *)
EXTENDS Rows, TLC

Strings(n) == UNION {[1..k -> {"a", "b", "\n"}] : k \in 0..n}

\* Every file of up to three bytes, and three rows that are distinct, repeated,
\* one the end of the other, blank, and with a carriage return.
ShortFiles == Strings(3)
LongFiles == {<<"a", "\n", "b", "\n", "a", "a", "\n">>, <<"b", "\n", "a", "b", "\n", "a", "\n">>,
              <<"a", "\r", "\n", "b", "\r", "\n">>}
AllFiles == ShortFiles \cup LongFiles
=============================================================================
