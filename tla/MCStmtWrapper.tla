----------------------------- MODULE MCStmtWrapper -----------------------------
(***************************************************************************)
(* StmtWrapper on nests of at most two loops over one or two statements.   *)
(***************************************************************************)
EXTENDS StmtWrapper

Scalar(x) == [name |-> x, at |-> <<>>]
Element(x, at) == [name |-> x, at |-> at]

(***************************************************************************)
(* S; x[i] and its neighbours; A[i][j], which both loops of a nest move.   *)
(***************************************************************************)
S == Scalar("S")
X(c) == Element("x", "i" :> c)
A == Element("A", ("i" :> 0) @@ ("j" :> 0))

Bin(op, e, f) == Node(op, <<e, f>>)

(***************************************************************************)
(* One operand, one operation, operations nested on the left, on the       *)
(* right and on both sides, and a function of two arguments.               *)
(***************************************************************************)
Expressions(P) ==
  LET L(p) == Leaf(p)
  IN  {L(p) : p \in P}
      \cup {Bin(op, L(p), L(q)) : op \in {"+", "*"}, p \in P, q \in P}
      \cup {Bin("+", Bin("*", L(p), L(q)), L(r)) : p \in P, q \in P, r \in P}
      \cup {Bin("-", L(p), Node("max", <<L(q), L(p)>>)) : p \in P, q \in P}
      \cup {Bin("+", Bin("*", L(p), L(q)), Bin("*", L(q), L(p))) :
              p \in P, q \in P}

Stmts(P) == [lhs : P, op : {"=", "+=", "-="}, rhs : Expressions(P)]

Loop(d, step, reach) == [dim |-> d, step |-> step, reach |-> reach]

NoLoop    == <<>>
OneLoop   == <<Loop("i", 1, 3)>>
BigStep   == <<Loop("i", 2, 5)>>
TwoLoops  == <<Loop("j", 1, 2), Loop("i", 1, 2)>>

(***************************************************************************)
(* One statement of any of the shapes under any of the loops.              *)
(***************************************************************************)
Singles ==
  {[stmts |-> <<s>>, loops |-> l, scalar |-> b] :
     s \in Stmts({S, X(0), A}), l \in {NoLoop, TwoLoops}, b \in BOOLEAN}
  \cup
  {[stmts |-> <<s>>, loops |-> l, scalar |-> b] :
     s \in Stmts({S, X(0), X(1)}), l \in {OneLoop, BigStep}, b \in BOOLEAN}

(***************************************************************************)
(* Two short statements in one loop, over every choice of their operands,  *)
(* neighbouring elements included.                                         *)
(***************************************************************************)
Short(P) ==
  {[lhs |-> p, op |-> "=", rhs |-> Bin("+", Leaf(q), Leaf(r))] :
     p \in P, q \in P, r \in P}

Pairs ==
  {[stmts |-> <<s, t>>, loops |-> OneLoop, scalar |-> b] :
     s \in Short({S, X(0), X(1)}), t \in Short({S, X(0), X(1)}), b \in BOOLEAN}

MCNests == Singles \cup Pairs

MCPairs == {n \in Pairs : ~n.scalar}
===============================================================================
