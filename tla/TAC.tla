---------------------------------- MODULE TAC ----------------------------------
(***************************************************************************)
(* Three-address code: a statement of a scop is broken into operations on  *)
(* two operands (stmtToTAC), the operations are copied once for each       *)
(* iteration a loop is unrolled by (unrollTacList), and statements can be  *)
(* put together again from them (renderTacAsStmt), which is how a scalar   *)
(* scop, or a statement that could not be vectorized, is written.          *)
(*                                                                         *)
(* An operand is a variable, a literal or an array element                 *)
(*   [name, at]   at gives the offset of each loop dimension its           *)
(*                subscripts depend on: x[i + 1] is x at i |-> 1           *)
(* or a temporary, numbered from the register counter RegVal               *)
(*   [temp, at]   at gives the offsets of the copy it belongs to.          *)
(* Two operands are the same location when they are written the same, as   *)
(* they are for the code, which compares names.                            *)
(*                                                                         *)
(* An expression is an operand (Leaf) or an operation on one or two        *)
(* expressions; a statement is [lhs, op, rhs] with op one of = += -=.      *)
(* Casts, and parentheses around an operation, have been looked through.   *)
(***************************************************************************)
EXTENDS Symbolic, SequencesExt

Temp(n) == [temp |-> n, at |-> <<>>]

IsTemp(o) == "temp" \in DOMAIN o

Terminal(e) == "leaf" \in DOMAIN e

(***************************************************************************)
(* S += e is taken as S = S + (e), S -= e as S = S - (e).                  *)
(***************************************************************************)
Rhs(s) ==
  CASE s.op = "="  -> s.rhs
    [] s.op = "+=" -> Node("+", <<Leaf(s.lhs), s.rhs>>)
    [] s.op = "-=" -> Node("-", <<Leaf(s.lhs), s.rhs>>)

(***************************************************************************)
(* stmtToTACRecursive below the assignment: the TACs of an expression, the *)
(* operand its value is in, and the next number of a temporary.  A         *)
(* temporary gets its number before those of its operands; a TAC is pushed *)
(* after theirs.                                                           *)
(***************************************************************************)
RECURSIVE Compute(_, _)

\* Mutant: the second operand's temporaries start from the first's again.
RECURSIVE ComputeReusing(_, _)
ComputeReusing(e, reg) ==
  IF Terminal(e) THEN [tacs |-> <<>>, operand |-> e.leaf, reg |-> reg]
  ELSE LET b == ComputeReusing(e.args[1], reg + 1)
           c == IF Len(e.args) = 1
                THEN [tacs |-> <<>>, operand |-> None, reg |-> b.reg]
                ELSE ComputeReusing(e.args[2], reg + 1)
           t == [a |-> Temp(reg), b |-> b.operand, c |-> c.operand, op |-> e.op]
       IN  [tacs    |-> Append(b.tacs \o c.tacs, t),
            operand |-> Temp(reg),
            reg     |-> c.reg]

Compute(e, reg) ==
  IF Terminal(e) THEN [tacs |-> <<>>, operand |-> e.leaf, reg |-> reg]
  ELSE LET b == Compute(e.args[1], reg + 1)
           c == IF Len(e.args) = 1
                THEN [tacs |-> <<>>, operand |-> None, reg |-> b.reg]
                ELSE Compute(e.args[2], b.reg)
           t == [a |-> Temp(reg), b |-> b.operand, c |-> c.operand, op |-> e.op]
       IN  [tacs    |-> Append(b.tacs \o c.tacs, t),
            operand |-> Temp(reg),
            reg     |-> c.reg]

(***************************************************************************)
(* stmtToTAC: the list ends in the assignment  lhs = lhs "=" value.        *)
(***************************************************************************)
\* Mutant: the assignment that ends the list takes no number.
StmtToTACOneShort(s, reg, id) ==
  LET value == Compute(Rhs(s), reg)
      last  == [a |-> s.lhs, b |-> s.lhs, c |-> value.operand, op |-> Assign]
      tacs  == Append(value.tacs, last)
  IN  [tacs |-> [i \in DOMAIN tacs |->
                   [a |-> tacs[i].a, b |-> tacs[i].b, c |-> tacs[i].c,
                    op |-> tacs[i].op, id |-> id + i - 1, unroll |-> -1]],
       reg  |-> value.reg,
       id   |-> id + Len(tacs) - 1]

StmtToTAC(s, reg, id) ==
  LET value == Compute(Rhs(s), reg)
      last  == [a |-> s.lhs, b |-> s.lhs, c |-> value.operand, op |-> Assign]
      tacs  == Append(value.tacs, last)
  IN  [tacs |-> [i \in DOMAIN tacs |->
                   [a |-> tacs[i].a, b |-> tacs[i].b, c |-> tacs[i].c,
                    op |-> tacs[i].op, id |-> id + i - 1, unroll |-> -1]],
       reg  |-> value.reg,
       id   |-> id + Len(tacs)]

(***************************************************************************)
(* unrollExpr: a temporary is renamed for the copy, the subscripts that    *)
(* depend on the dimension move by the offset.  (The literals of a fully   *)
(* unrolled loop name the same elements: it starts at zero, see LoopPlan.) *)
(***************************************************************************)
\* Mutant: the copies of a TAC share their temporaries.
UnrollExprKeepingTemps(o, dim, offset) ==
  IF ~IsTemp(o) /\ dim \in DOMAIN o.at THEN [o EXCEPT !.at[dim] = @ + offset]
  ELSE o

UnrollExpr(o, dim, offset) ==
  IF IsTemp(o) THEN [o EXCEPT !.at = (dim :> offset) @@ @]
  ELSE IF dim \in DOMAIN o.at THEN [o EXCEPT !.at[dim] = @ + offset]
  ELSE o

UnrollTac(t, dim, offset) ==
  [t EXCEPT !.a = UnrollExpr(@, dim, offset), !.b = UnrollExpr(@, dim, offset),
            !.c = UnrollExpr(@, dim, offset), !.unroll = offset]

(***************************************************************************)
(* unrollTacList: a loop is [dim, step, reach], the reach being what       *)
(* StmtWrapper::unroll works out from LoopInfo (LoopPlan!Copies).          *)
(***************************************************************************)
\* Mutant: the offsets count iterations, not values of the loop variable.
UnrollTacListByOne(tl, loop) ==
  FlattenSeq([s \in 1 .. loop.reach \div loop.step |->
    [i \in DOMAIN tl |-> UnrollTac(tl[i], loop.dim, s - 1)]])

UnrollTacList(tl, loop) ==
  FlattenSeq([s \in 1 .. loop.reach \div loop.step |->
    [i \in DOMAIN tl |-> UnrollTac(tl[i], loop.dim, (s - 1) * loop.step)]])

(***************************************************************************)
(* renderTacAsStmt: one statement for each assignment, its temporary       *)
(* replaced by the operation that computes it, and so on down.             *)
(***************************************************************************)
Assignments(tl) == SelectSeq(tl, IsAssignment)

RECURSIVE ReplaceTmpTac(_, _)

\* Mutant: the operands of a replaced temporary are not replaced in turn.
ReplaceTmpTacOnce(tl, o) ==
  IF \E i \in DOMAIN tl : tl[i].a = o /\ IsTemp(o)
  THEN LET t == tl[Max({i \in DOMAIN tl : tl[i].a = o})]
       IN  Node(t.op, <<Leaf(t.b), Leaf(t.c)>>)
  ELSE Leaf(o)

ReplaceTmpTac(tl, o) ==
  IF \E i \in DOMAIN tl : tl[i].a = o /\ IsTemp(o)
  THEN LET t == tl[Max({i \in DOMAIN tl : tl[i].a = o})]
       IN  Node(t.op, <<ReplaceTmpTac(tl, t.b), ReplaceTmpTac(tl, t.c)>>)
  ELSE Leaf(o)

RenderTacAsStmt(tl) ==
  [i \in DOMAIN Assignments(tl) |->
     LET t == Assignments(tl)[i]
     IN  [lhs |-> t.a, op |-> "=", rhs |-> ReplaceTmpTac(tl, t.c)]]
===============================================================================
