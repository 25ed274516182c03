------------------------------ MODULE StmtWrapper ------------------------------
(***************************************************************************)
(* The statements of one loop nest of a scop on their way to the code      *)
(* generators.  The constructor of StmtWrapper breaks each statement into  *)
(* TACs as it meets it; performUnrolling then takes the statements one by  *)
(* one and unrolls each for all the loops around it, the innermost first   *)
(* (unrollLoopList).  A scop marked scalar is written back statement by    *)
(* statement (renderTACInPlace); otherwise computeCostModel splices the    *)
(* lists into the one the CDAG is built from.                              *)
(*                                                                         *)
(* RegVal and TacUUID are static counters of class TAC: they run on from   *)
(* statement to statement.                                                 *)
(***************************************************************************)
EXTENDS TAC

CONSTANT Nests  \* the nests: [stmts, loops, scalar], loops innermost first

ASSUME NestsAssumption ==
  \A n \in Nests :
    /\ n.stmts # <<>> /\ n.scalar \in BOOLEAN
    /\ \A i \in DOMAIN n.loops :
         n.loops[i].step \in Nat \ {0} /\ n.loops[i].reach \in Nat

VARIABLES
  nest,     \* the nest, chosen once
  RegVal,   \* the number of the next temporary
  TacUUID,  \* the number of the next TAC
  lists,    \* the TAC list of each statement parsed so far
  stmt,     \* the statement being unrolled
  loop,     \* the loop it is to be unrolled for next
  pc,
  text,     \* the statements written back
  TL        \* the list handed to the CDAG

vars == <<nest, RegVal, TacUUID, lists, stmt, loop, pc, text, TL>>

Init ==
  /\ nest \in Nests
  /\ RegVal = 0 /\ TacUUID = 0
  /\ lists = <<>> /\ stmt = 1 /\ loop = 1
  /\ pc = "parse"
  /\ text = <<>> /\ TL = <<>>

ParseStmt ==
  /\ pc = "parse" /\ Len(lists) < Len(nest.stmts)
  /\ LET r == StmtToTAC(nest.stmts[Len(lists) + 1], RegVal, TacUUID)
     IN  lists' = Append(lists, r.tacs) /\ RegVal' = r.reg /\ TacUUID' = r.id
  /\ UNCHANGED <<nest, stmt, loop, pc, text, TL>>

EndParse ==
  /\ pc = "parse" /\ Len(lists) = Len(nest.stmts)
  /\ pc' = "unroll"
  /\ UNCHANGED <<nest, RegVal, TacUUID, lists, stmt, loop, text, TL>>

Unroll ==
  /\ pc = "unroll" /\ stmt <= Len(lists) /\ loop <= Len(nest.loops)
  /\ lists' = [lists EXCEPT ![stmt] = UnrollTacList(@, nest.loops[loop])]
  /\ loop' = loop + 1
  /\ UNCHANGED <<nest, RegVal, TacUUID, stmt, pc, text, TL>>

NextStmt ==
  /\ pc = "unroll" /\ stmt <= Len(lists) /\ loop > Len(nest.loops)
  /\ stmt' = stmt + 1 /\ loop' = 1
  /\ UNCHANGED <<nest, RegVal, TacUUID, lists, pc, text, TL>>

RenderTACInPlace ==
  /\ pc = "unroll" /\ stmt > Len(lists) /\ nest.scalar
  /\ text' = FlattenSeq([i \in DOMAIN lists |-> RenderTacAsStmt(lists[i])])
  /\ pc' = "done"
  /\ UNCHANGED <<nest, RegVal, TacUUID, lists, stmt, loop, TL>>

ComputeCostModel ==
  /\ pc = "unroll" /\ stmt > Len(lists) /\ ~nest.scalar
  /\ TL' = FlattenSeq(lists)
  /\ pc' = "done"
  /\ UNCHANGED <<nest, RegVal, TacUUID, lists, stmt, loop, text>>

Finished ==
  /\ pc = "done"
  /\ UNCHANGED vars

Next ==
  \/ ParseStmt \/ EndParse \/ Unroll \/ NextStmt \/ RenderTACInPlace
  \/ ComputeCostModel \/ Finished

Spec == Init /\ [][Next]_vars

-------------------------------------------------------------------------------
(***************************************************************************)
(* The copies of a statement in the order the source's loops run them: all *)
(* combinations of offsets, those of the innermost loop changing fastest.  *)
(***************************************************************************)
Offsets(l) == {(s - 1) * l.step : s \in 1 .. l.reach \div l.step}

Shift(o, k) ==
  [o EXCEPT !.at = [d \in DOMAIN @ |->
                      @[d] + (IF d \in DOMAIN k THEN k[d] ELSE 0)]]

RECURSIVE ShiftExpr(_, _)
ShiftExpr(e, k) ==
  IF Terminal(e) THEN Leaf(Shift(e.leaf, k))
  ELSE Node(e.op, [i \in DOMAIN e.args |-> ShiftExpr(e.args[i], k)])

StmtAt(s, k) ==
  [lhs |-> Shift(s.lhs, k), op |-> "=", rhs |-> ShiftExpr(Rhs(s), k)]

LoopOf(d) == CHOOSE i \in DOMAIN nest.loops : nest.loops[i].dim = d

Dims == {nest.loops[i].dim : i \in DOMAIN nest.loops}

Iterations ==
  {k \in [Dims -> UNION {Offsets(nest.loops[i]) : i \in DOMAIN nest.loops}] :
     \A d \in Dims : k[d] \in Offsets(nest.loops[LoopOf(d)])}

Earlier(k, m) ==
  \E i \in DOMAIN nest.loops :
    /\ k[nest.loops[i].dim] < m[nest.loops[i].dim]
    /\ \A j \in i + 1 .. Len(nest.loops) :
         k[nest.loops[j].dim] = m[nest.loops[j].dim]

IterationOrder == SetToSortSeq(Iterations, Earlier)

(***************************************************************************)
(* The copies statement by statement, as the lists hold them, and          *)
(* iteration by iteration, as the source runs them.                        *)
(***************************************************************************)
CopiesByStmt ==
  FlattenSeq([n \in DOMAIN nest.stmts |->
    [i \in DOMAIN IterationOrder |-> StmtAt(nest.stmts[n], IterationOrder[i])]])

CopiesByIteration ==
  FlattenSeq([i \in DOMAIN IterationOrder |->
    [n \in DOMAIN nest.stmts |-> StmtAt(nest.stmts[n], IterationOrder[i])]])

(***************************************************************************)
(* What a sequence of statements leaves in each location it assigns.       *)
(***************************************************************************)
RECURSIVE Value(_, _)
Value(e, env) ==
  IF Terminal(e) THEN IF e.leaf \in DOMAIN env THEN env[e.leaf] ELSE e
  ELSE Node(e.op, [i \in DOMAIN e.args |-> Value(e.args[i], env)])

Run(stmts) ==
  FoldLeft(LAMBDA env, s : (s.lhs :> Value(s.rhs, env)) @@ env, <<>>, stmts)

(***************************************************************************)
(* What a list of TACs leaves in each location that is not a temporary.    *)
(***************************************************************************)
OperandsOf(tl) == UNION {{tl[i].a, tl[i].b, tl[i].c} : i \in DOMAIN tl}

RunTacs(tl) ==
  LET env == FoldLeft(Exec, [o \in OperandsOf(tl) |-> Leaf(o)], tl)
  IN  [o \in {tl[i].a : i \in {j \in DOMAIN tl : IsAssignment(tl[j])}} |-> env[o]]

(***************************************************************************)
(* What the CDAG takes for granted of the list it is built from: a         *)
(* temporary gets one value and is used once, later, and an assignment of  *)
(* an operation's result stands right after the operation, with a          *)
(* temporary as the "connector" between the two.                           *)
(***************************************************************************)
TempsOnce(tl) ==
  \A i \in DOMAIN tl : IsTemp(tl[i].a) =>
    /\ \A j \in DOMAIN tl : tl[j].a = tl[i].a => j = i
    /\ Cardinality({<<j, x>> \in (DOMAIN tl) \X {"b", "c"} :
                      tl[j][x] = tl[i].a /\ j > i}) = 1
    /\ \A j \in 1 .. i : tl[i].a \notin {tl[j].b, tl[j].c}

Connected(tl) ==
  \A i \in DOMAIN tl : IsAssignment(tl[i]) =>
    /\ ~IsTemp(tl[i].a)
    /\ IsTemp(tl[i].c) => i > 1 /\ tl[i - 1].a = tl[i].c

-------------------------------------------------------------------------------
\* The counters count: every TAC of the statements parsed so far has its
\* number, every temporary one below RegVal.
TypeOK ==
  /\ nest \in Nests
  /\ pc \in {"parse", "unroll", "done"}
  /\ RegVal \in Nat /\ TacUUID \in Nat
  /\ stmt \in 1 .. Len(nest.stmts) + 1 /\ loop \in 1 .. Len(nest.loops) + 1
  /\ \A n \in DOMAIN lists : \A i \in DOMAIN lists[n] :
       /\ lists[n][i].id \in 0 .. TacUUID - 1
       /\ IsTemp(lists[n][i].a) => lists[n][i].a.temp \in 0 .. RegVal - 1
  /\ text # <<>> => nest.scalar

\* What the CDAG assumes of its list holds of the list it gets: over all the
\* statements and their copies no two TACs share a temporary, and the
\* operation an assignment takes its value from is right before it.
TacsConnected == TempsOnce(TL) /\ Connected(TL)

\* The list computes what the copies of the statements compute when those of
\* the first statement run before those of the second, and so on: breaking
\* into TACs, renaming and copying lose and mix up nothing.
TacsMeanCopies == TL # <<>> => RunTacs(TL) = Run(CopiesByStmt)

\* A scalar scop is written back as the copies of its statements, in order.
RenderedIsSource == pc = "done" /\ nest.scalar => text = CopiesByStmt

(***************************************************************************)
(* A statement depends on a later statement of the nest when it reads or   *)
(* writes in a later iteration what that one writes, or writes what that   *)
(* one reads, in an earlier iteration.                                     *)
(***************************************************************************)
RECURSIVE Reads(_)
Reads(e) ==
  IF Terminal(e) THEN {e.leaf} ELSE UNION {Reads(e.args[i]) : i \in DOMAIN e.args}

DependsBackwards ==
  \E m, n \in DOMAIN nest.stmts, k, l \in Iterations :
    /\ m < n /\ Earlier(k, l)
    /\ LET late  == StmtAt(nest.stmts[m], l)
           early == StmtAt(nest.stmts[n], k)
       IN  \/ early.lhs \in Reads(late.rhs) \cup {late.lhs}
           \/ late.lhs \in Reads(early.rhs)

\* Unless a statement depends on a later one of an earlier iteration, the list
\* computes what the loop nest computes, though it runs statement by
\* statement what the source runs iteration by iteration.
TacsMeanNest ==
  TL # <<>> /\ ~DependsBackwards => RunTacs(TL) = Run(CopiesByIteration)

\* What the tests compare, "the output of the scalar and SIMD code"
\* (tests/README.md): the list computes what the loop nest computes.
ListMeansNest == TL # <<>> => RunTacs(TL) = Run(CopiesByIteration)
===============================================================================
