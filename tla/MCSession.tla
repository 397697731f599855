----------------------------- MODULE MCSession -----------------------------
(* A small instance of Session for TLC.                                    *)
EXTENDS Session

\* A number, a text, and a number with another one behind a slash.
SomeIds == {<<"7">>, <<"x">>, <<"7", "/", "8">>}
=============================================================================
