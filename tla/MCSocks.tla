------------------------------ MODULE MCSocks ------------------------------
(* A small instance of Socks for TLC.                                      *)
EXTENDS Socks

\* The target is silent, or greets with a row, an empty row and more: enough
\* for a reader of rows that has lost its place to wait for ever, or to stop
\* inside the greeting.
SilentOrNot == {<<>>, <<Text, NL, CR, NL, Text>>}
=============================================================================
