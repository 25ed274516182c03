----------------------------- MODULE StraightLine -----------------------------
(***************************************************************************)
(* What a list of three-address codes means: they are executed one after   *)
(* the other.  A temporary is dead once it has been assigned to a          *)
(* location, and what it held is of no more interest.                      *)
(***************************************************************************)
EXTENDS Symbolic

CONSTANTS
  Names,  \* the locations: variables, array elements, literals, temporaries
  Temps,  \* the temporaries among them
  Codes   \* the lists of TACs a behaviour starts from

VARIABLES
  code,  \* the list, chosen once
  at,    \* the TAC to be executed next
  env    \* the value of each location

lineVars == <<code, at, env>>

LineInit ==
  /\ code \in Codes
  /\ at = 1
  /\ env = [x \in Names |-> Leaf(x)]

Dead(t, x) == IsAssignment(t) /\ x = t.c /\ x \in Temps

Execute ==
  /\ at <= Len(code)
  /\ env' = [x \in Names |-> IF Dead(code[at], x) THEN Leaf(x)
                             ELSE Exec(env, code[at])[x]]
  /\ at' = at + 1
  /\ UNCHANGED code

LineSpec == LineInit /\ [][Execute]_lineVars
===============================================================================
