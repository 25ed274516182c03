---------------------------------- MODULE Lists ----------------------------------
(***************************************************************************)
(* What the compiler's loops do with its vectors of nodes: go through one, *)
(* keep some of its elements, sort it.  These are recursive functions,     *)
(* which can be proved about; the folds of the community modules, SelectSeq*)
(* and SortSeq cannot.                                                     *)
(***************************************************************************)
EXTENDS Integers, SequencesExt

Members(s) == {s[i] : i \in DOMAIN s}

(***************************************************************************)
(* What a loop over 1 to n makes of base.                                  *)
(***************************************************************************)
Through(n, base, Step(_, _)) ==
  LET after[i \in 0 .. n] == IF i = 0 THEN base ELSE Step(after[i - 1], i)
  IN  after[n]

(***************************************************************************)
(* The elements of s at the indices in I, in their order.                  *)
(***************************************************************************)
Kept(s, I) ==
  Through(Len(s), <<>>, LAMBDA t, i : IF i \in I THEN Append(t, s[i]) ELSE t)

(***************************************************************************)
(* s sorted by the pairs of before: each element is put behind the last    *)
(* one it is not to be before.                                             *)
(***************************************************************************)
InsertBy(t, e, before) ==
  InsertAt(t, 1 + Max({0} \cup {i \in DOMAIN t : <<e, t[i]>> \notin before}), e)

SortedBy(s, before) == Through(Len(s), <<>>, LAMBDA t, i : InsertBy(t, s[i], before))
===============================================================================
