------------------------------- MODULE Symbolic -------------------------------
(***************************************************************************)
(* The values the code of a scop computes, without computing any: a value  *)
(* is the value a location holds before the scop, or an operation applied  *)
(* to values.  Two pieces of code do the same when they leave the same     *)
(* symbolic value in every location, whatever the operations are.          *)
(*                                                                         *)
(* A three-address code (class TAC) is a record                            *)
(*   a, b, c   the locations of  a = b op c;  c is None for a function of  *)
(*             one argument, and b is a again when op is an assignment     *)
(*   op        the operation                                               *)
(*   id        TacID, which the unrolled copies of a TAC share             *)
(*   unroll    TUnroll, the offset of the copy, -1 outside of any loop     *)
(***************************************************************************)
EXTENDS Integers, Sequences

Leaf(x) == [leaf |-> x]
Node(op, args) == [op |-> op, args |-> args]

Assign == "="

(***************************************************************************)
(* Stands for the operand a function of one argument does not have.        *)
(***************************************************************************)
None == [name |-> "", at |-> <<>>]

IsAssignment(t) == t.op = Assign

Operands(t) == IF t.c = None THEN <<t.b>> ELSE <<t.b, t.c>>

(***************************************************************************)
(* What t computes where env holds the values of the locations.            *)
(***************************************************************************)
Result(t, env) ==
  IF IsAssignment(t) THEN env[t.c]
  ELSE Node(t.op, [i \in DOMAIN Operands(t) |-> env[Operands(t)[i]]])

Exec(env, t) == [env EXCEPT ![t.a] = Result(t, env)]
===============================================================================
