--------------------------------- MODULE Lst ---------------------------------
(***************************************************************************)
(* The functions of liblst.c that cut and join strings, as operators: a    *)
(* string is a sequence of symbols, a list (char** up to NULL) a sequence  *)
(* of strings.  The C code copies and reallocates; a failing malloc() is   *)
(* left out.                                                               *)
(***************************************************************************)
EXTENDS Integers, Sequences, FiniteSetsExt, SequencesExt

\* strstr(): where p occurs in s, from position n on.
OccursAt(s, p, k) == k + Len(p) - 1 <= Len(s) /\ SubSeq(s, k, k + Len(p) - 1) = p
Occurrences(s, p, n) == {k \in n..Len(s) : OccursAt(s, p, k)}

\* Mutant of ReplaceStr: only the first occurrence is replaced.
ReplaceFirst(s, search, replace) ==
  LET at == Occurrences(s, search, 1) IN
  IF search = <<>> THEN s \o replace
  ELSE IF at = {} THEN s
  ELSE SubSeq(s, 1, Min(at) - 1) \o replace \o SubSeq(s, Min(at) + Len(search), Len(s))

\* ptReplaceStr(): every occurrence, from the left; an empty search appends.
ReplaceStr(s, search, replace) ==
  LET from[n \in 1..Len(s) + 1] ==
        LET at == Occurrences(s, search, n) IN
        IF at = {} THEN SubSeq(s, n, Len(s))
        ELSE SubSeq(s, n, Min(at) - 1) \o replace \o from[Min(at) + Len(search)]
  IN IF search = <<>> THEN s \o replace ELSE from[1]

\* chopStr(): not only at the end.
ChopStr(s) == ReplaceStr(ReplaceStr(s, <<"\n">>, <<>>), <<"\r">>, <<>>)

\* lstSplitStr(): b is the element under way, pushed at a splitter or the end
\* unless there is none.
SplitStr(splitter, s) ==
  LET Push(a) == IF a.b = <<>> THEN a.lst ELSE Append(a.lst, a.b)
      Step(a, c) == IF c = splitter THEN [lst |-> Push(a), b |-> <<>>]
                    ELSE [a EXCEPT !.b = Append(@, c)]
  IN Push(FoldLeft(Step, [lst |-> <<>>, b |-> <<>>], s))
=============================================================================
