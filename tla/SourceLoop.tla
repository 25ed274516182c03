------------------------------ MODULE SourceLoop ------------------------------
(***************************************************************************)
(* What a loop of a region of interest means before MACVETH touches it:    *)
(*                                                                         *)
(*     for (dim = lo; dim < hi; dim += step) body(dim)                     *)
(*                                                                         *)
(* The meaning is the sequence of values of dim the body runs with.  It is *)
(* the abstract specification the emitted code has to implement, whatever  *)
(* unrolling the pragma asks for.                                          *)
(***************************************************************************)
EXTENDS Integers, Sequences

CONSTANT Loops  \* the source loops a behaviour starts from

VARIABLES
  src,    \* the loop, chosen once
  next,   \* the value the body runs with next
  trace   \* the values the body has run with, in order

sourceVars == <<src, next, trace>>

(***************************************************************************)
(* The first value past the loop: the bound as written, plus one when the  *)
(* comparison is <=.                                                       *)
(***************************************************************************)
Hi(s) == s.bound + (IF s.le THEN 1 ELSE 0)

SourceInit ==
  /\ src \in Loops
  /\ next = src.lo
  /\ trace = <<>>

Iterate ==
  /\ next < Hi(src)
  /\ trace' = Append(trace, next)
  /\ next' = next + src.step
  /\ UNCHANGED src

SourceSpec == SourceInit /\ [][Iterate]_sourceVars /\ WF_sourceVars(Iterate)
===============================================================================
