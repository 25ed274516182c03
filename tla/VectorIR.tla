-------------------------------- MODULE VectorIR --------------------------------
(***************************************************************************)
(* The vector operations made of the groups of nodes, the code generated   *)
(* for them and where it goes in the text: from the packing on (module     *)
(* Packing) to the memory the rewritten scop leaves.                       *)
(*                                                                         *)
(* VectorOP finds out whether the operations of a group are independent    *)
(* (MAP), a chain (REDUCE) or neither (SEQ), and makes operands of the     *)
(* inputs and of the results, which share the tables of VectorIR.  Module  *)
(* Moves has the instructions of a MAP.  A REDUCE is executed by what      *)
(* module Peephole shows of it, each lane of its register being            *)
(* accumulated into the location of its operation; a SEQ is the statement. *)
(*                                                                         *)
(* The scop is a list of statements, or a loop that is unrolled completely *)
(* around it; there are no recipes and no AVX-512.                         *)
(***************************************************************************)
EXTENDS Packing, Moves

CONSTANTS
  Cell(_),  \* the location a name stands for
  Double    \* whether the operands are doubles

VARIABLES
  tables,   \* of class VectorIR
  vops,     \* the vector operations, in the end sorted by Order
  text,     \* the instructions where the rewriter puts them
  step,     \* the instruction to be run next, 0 before the text is there
  env       \* registers and memory while it runs

vecVars == <<tables, vops, text, step, env>>
allVars == <<vars, packVars, vecVars>>

(***************************************************************************)
(* MapRegToVReg (reg), the registers in MapLoads, MapStores, LiveIn,       *)
(* SlotsUsed (which MapRegSize repeats) and VID.                           *)
(***************************************************************************)
NoTables ==
  [reg |-> Empty, loads |-> {}, stored |-> Empty, liveIn |-> Empty,
   slots |-> Empty, vid |-> 0]

VecInit ==
  /\ PackInit
  /\ tables = NoTables /\ vops = <<>> /\ text = <<>> /\ step = 0
  /\ env = Untouched

-------------------------------------------------------------------------------
(***************************************************************************)
(* What a VOperand asks of a node.                                         *)
(***************************************************************************)
OpUnit(n) ==
  [name |-> nodes[n].out, id |-> nodes[n].id, fs |-> nodes[n].fs,
   op |-> nodes[n].op, store |-> nodes[n].store, leaf |-> FALSE]

Unit(in) ==
  IF IsLeaf(in)
  THEN [name |-> in.name, id |-> in.id, fs |-> 0, op |-> "", store |-> FALSE, leaf |-> TRUE]
  ELSE OpUnit(in.node)

UnitNames(u) == {u[i].name : i \in DOMAIN u}

NeedsMemLoad(u) == u.leaf /\ Cell(u.name).row # Literal

(***************************************************************************)
(* The order of an operand: not before what it reads was stored.           *)
(***************************************************************************)
\* Mutant: what was stored before is not looked up.
OrderOfInputs(t, u, res, least) == Deepest({least} \cup {u[i].id : i \in DOMAIN u})

OrderOf(t, u, res, least) ==
  Deepest({least} \cup {u[i].id : i \in DOMAIN u}
          \cup {t.stored[x] + (IF res THEN 0 ELSE 1) : x \in UnitNames(u) \cap DOMAIN t.stored})

(***************************************************************************)
(* What the tables say of units u, all of which are in registers: where    *)
(* they are, whether out of their lanes, whether in part of one register,  *)
(* and the order from which on the registers hold their values.            *)
(***************************************************************************)
InRegisters(t, u) == UnitNames(u) \subseteq DOMAIN t.reg

Registers(t, u) == {t.reg[x].reg : x \in UnitNames(u)}

Misplaced(t, u) == \E i \in DOMAIN u : t.reg[u[i].name].lane # i - 1

\* Mutant: an operand does not wait for the registers that hold it.
AtOnce(t, u, begin) == begin

LiveFrom(t, u, begin) == Deepest({begin} \cup {t.liveIn[x] : x \in Registers(t, u)})

PartOfRegister(t, u, store, width) ==
  LET slots == t.slots[t.reg[u[1].name].reg]
  IN  IF Cardinality(Registers(t, u)) # 1 THEN TRUE
      ELSE IF Misplaced(t, u) THEN slots # width
      ELSE (~store /\ slots # Len(u)) \/ (Len(u) > 2 /\ Len(u) # width)

(***************************************************************************)
(* Of names that are the same the last lane counts.                        *)
(***************************************************************************)
\* Mutant: the lanes are counted from one.
PlacesFromOne(u, name) ==
  [x \in UnitNames(u) |-> [reg |-> name, lane |-> Deepest({i \in DOMAIN u : u[i].name = x})]]

Places(u, name) ==
  [x \in UnitNames(u) |-> [reg |-> name, lane |-> Deepest({i \in DOMAIN u : u[i].name = x}) - 1]]

(***************************************************************************)
(* The constructor of VOperand: the operand and the tables after it.       *)
(***************************************************************************)
VOperand(t, u, res, least) ==
  LET begin   == OrderOf(t, u, res, least)
      store    == res /\ u[1].store
      stored   == IF store THEN [x \in UnitNames(u) |-> begin] @@ t.stored ELSE t.stored
      assigned == InRegisters(t, u)
      one      == assigned => Cardinality(Registers(t, u)) = 1
      pack     == assigned /\ Misplaced(t, u)
      width    == VectorSize(Len(u), Double)
      partial  == IF assigned THEN PartOfRegister(t, u, store, width) ELSE width # Len(u)
      when     == IF assigned THEN LiveFrom(t, u, begin) ELSE begin
      fresh    == ~(assigned /\ ~pack /\ (~partial \/ one))
      name     == IF fresh THEN "__vop" \o ToString(t.vid) ELSE t.reg[u[1].name].reg
      written  == \E x \in UnitNames(u) \cap DOMAIN stored : stored[x] > 0
      mem      == written \/ \E i \in DOMAIN u : NeedsMemLoad(u[i])
      cells    == [i \in DOMAIN u |-> Cell(u[i].name)]
      located  == store \/ written \/ \A i \in DOMAIN u : u[i].leaf \/ u[i].store
      same     == IF mem \/ store THEN located /\ AreInSameVector(cells) ELSE one
      idx      == IF (mem \/ store) /\ same THEN GetMemIdx(cells) ELSE <<>>
  IN  [v |-> [name |-> name, refs |-> cells, len |-> Len(u), size |-> width, idx |-> idx,
              same |-> same, contiguous |-> CountsUp(idx), equal |-> AllEqual(cells),
              partial |-> partial, low |-> Len(u) = 2 /\ width = 4, high |-> FALSE,
              mem |-> mem, load |-> name \notin t.loads /\ ~store, store |-> store,
              pack |-> pack, double |-> Double, ops |-> [i \in DOMAIN u |-> u[i].op],
              order |-> when],
       tables |->
         [reg    |-> IF assigned \/ store \/ ~res THEN t.reg ELSE Places(u, name) @@ t.reg,
          loads  |-> IF store THEN t.loads ELSE t.loads \cup {name},
          stored |-> stored,
          liveIn |-> IF assigned THEN t.liveIn ELSE (name :> when) @@ t.liveIn,
          slots  |-> (name :> Len(u)) @@ t.slots,
          vid    |-> IF fresh THEN t.vid + 1 ELSE t.vid]]

-------------------------------------------------------------------------------
(***************************************************************************)
(* getVectorOpType, of the operations u and their operands.                *)
(***************************************************************************)
InOrder(m, n) == m.fs < n.fs \/ (m.fs > n.fs /\ m.id < n.id)

OpsAreSequential(u) == \A i \in 2 .. Len(u) : InOrder(u[i - 1], u[i])

AreThereReductions(u) ==
  Len(u) > 1 /\ \A i \in 2 .. Len(u) : i % 2 = 0 => InOrder(u[i - 1], u[i])

RawDependencies(u, load) == \E i \in 2 .. Len(u) : u[i - 1].name = load[i].name

IsAtomic(u, load) == \A i \in DOMAIN u : u[i].fs > load[i].fs

GetVectorOpType(u, loads) ==
  LET seq    == OpsAreSequential(u)
      pairs  == Len(loads) = 2 /\ AreThereReductions(u)
      raw    == \E i \in DOMAIN loads : RawDependencies(u, loads[i])
      atomic == \A i \in DOMAIN loads : IsAtomic(u, loads[i])
  IN  IF (seq \/ pairs) /\ raw /\ atomic THEN "REDUCE"
      ELSE IF (~seq \/ pairs) /\ ~raw /\ atomic THEN "MAP"
      ELSE "SEQ"

(***************************************************************************)
(* The constructor of VectorOP.  An assignment has one operand; a          *)
(* reduction keeps the second one, the first being the accumulator.        *)
(***************************************************************************)
Units(g) == [i \in DOMAIN g |-> OpUnit(g[i])]

LoadsOf(g, k) == [i \in DOMAIN g |-> Unit(nodes[g[i]].ins[k])]

Loads(g) ==
  IF nodes[g[1]].op = Assign THEN <<LoadsOf(g, 2)>> ELSE <<LoadsOf(g, 1), LoadsOf(g, 2)>>

WithOperand(r, u) ==
  LET o == VOperand(r.tables, u, FALSE, -1)
  IN  [args |-> Append(r.args, o.v), tables |-> o.tables]

VectorOP(t, g) ==
  LET u      == Units(g)
      type   == GetVectorOpType(u, Loads(g))
      end    == Deepest({u[i].id : i \in DOMAIN u})
      loaded == FoldLeft(WithOperand, [args |-> <<>>, tables |-> t],
                         IF type = "REDUCE" THEN <<LoadsOf(g, 2)>> ELSE Loads(g))
      least  == Deepest({end} \cup {loaded.args[i].order : i \in DOMAIN loaded.args})
      res    == VOperand(loaded.tables, u, TRUE, least)
      seq    == [type |-> type, group |-> g, fn |-> nodes[g[1]].op, order |-> end,
                 offset |-> Deepest({nodes[g[i]].unroll : i \in DOMAIN g}), args |-> <<>>]
  IN  IF type = "SEQ" THEN [vop |-> seq, tables |-> t]
      ELSE [vop |-> [seq EXCEPT !.order = res.v.order, !.args = loaded.args] @@ [r |-> res.v],
            tables |-> res.tables]

(***************************************************************************)
(* Of a node with one input greedyOpsConsumer reads a second one, behind   *)
(* the end of a vector: the model says nothing of what follows.            *)
(***************************************************************************)
Building == place = "packed" /\ step = 0 /\ Len(vops) < Len(groups)

ReadsPastInputs(g) == \E i \in DOMAIN g : Len(nodes[g[i]].ins) = 1

BuildVectorOP ==
  /\ Building
  /\ LET g == groups[Len(vops) + 1]
         v == VectorOP(tables, g)
     IN  /\ ~ReadsPastInputs(g)
         /\ vops' = Append(vops, v.vop)
         /\ tables' = v.tables
  /\ UNCHANGED <<vars, packVars, text, step, env>>

ReadSecondInput ==
  /\ Building
  /\ ReadsPastInputs(groups[Len(vops) + 1])
  /\ place' = "undefined"
  /\ UNCHANGED <<vars, opts, detection, windows, groups, vecVars>>

-------------------------------------------------------------------------------
(***************************************************************************)
(* The code of a vector operation, with the Order and the Offset that say  *)
(* where each instruction goes.                                            *)
(***************************************************************************)
At(insts, id, offset) ==
  [i \in DOMAIN insts |-> [inst |-> insts[i], order |-> id, offset |-> offset]]

Arranged(v) ==
  FlattenSeq([i \in DOMAIN v.args |-> At(GetSIMDVOperand(v.args[i], FALSE),
                                         v.args[i].order, v.offset)])

Vreduce(v) ==
  <<[Inst("reduce", v.args[1].name, v.r.size, LanesAt(v.r.refs)) EXCEPT !.fn = v.fn]>>

GetSIMDfromVectorOP(v) ==
  CASE v.type = "MAP" ->
         Arranged(v) \o At(Operation(v.fn, v.args, v.r, [avx512 |-> FALSE]), v.order, v.offset)
    [] v.type = "REDUCE" -> Arranged(v) \o At(Vreduce(v), v.order, v.offset)
    [] v.type = "SEQ" -> At(<<Inst("seq", "", 0, Empty)>>, v.order, v.offset)

(***************************************************************************)
(* An instruction goes to the statement that has a TAC with its Order, a   *)
(* reduction behind the loop around it; behind the last TAC it goes to the *)
(* end.  Where several go, they keep their order.                          *)
(***************************************************************************)
LastIds == {code[i].id : i \in {k \in DOMAIN code : IsAssignment(code[k])}}

StatementAt(id) == 1 + Cardinality({k \in LastIds : k < id})

InLoop == \E i \in DOMAIN code : code[i].unroll # -1

PlaceOf(s) ==
  LET n == Cardinality(LastIds)
  IN  IF StatementAt(s.order) > n THEN n + 2
      ELSE IF s.inst.kind = "reduce" /\ InLoop THEN n + 1
      ELSE StatementAt(s.order)

Sorted(s, Key(_), n) ==
  FlattenSeq([k \in 1 .. n |-> SelectSeq(s, LAMBDA x : Key(x) = k)])

SortAndRender ==
  /\ place = "packed" /\ step = 0 /\ Len(vops) = Len(groups)
  /\ LET last   == Deepest({1} \cup {vops[i].order + 1 : i \in DOMAIN vops})
         sorted == Sorted(vops, LAMBDA v : v.order + 1, last)
         simd   == FlattenSeq([i \in DOMAIN sorted |-> GetSIMDfromVectorOP(sorted[i])])
     IN  /\ vops' = sorted
         /\ text' = Sorted(simd, PlaceOf, Cardinality(LastIds) + 2)
  /\ step' = 1
  /\ UNCHANGED <<vars, packVars, tables, env>>

-------------------------------------------------------------------------------
(***************************************************************************)
(* Running the text.  renderTACInPlace writes the copies with the Offset   *)
(* (all of them if it is -1) of the statement that ends with the Order.    *)
(***************************************************************************)
RunTac(mem, t) ==
  LET val == [i \in DOMAIN Operands(t) |-> Read(mem, Cell(Operands(t)[i]))]
  IN  (Cell(t.a) :> (IF IsAssignment(t) THEN val[2] ELSE OnLane(t.op, val))) @@ mem

RenderTACInPlace(id, offset) ==
  SelectSeq(code, LAMBDA t : /\ id \in LastIds
                             /\ StatementAt(t.id) = StatementAt(id)
                             /\ offset \in {-1, t.unroll})

Accumulate(e, m) ==
  FoldLeft(LAMBDA mem, k : (m.cells[k] :> Apply(m.fn, Read(mem, m.cells[k]), LaneOf(e.regs, m.reg, k)))
                           @@ mem,
           e.mem, [k \in 1 .. Lanes(m.cells) |-> k - 1])

RunInst(e, s) ==
  CASE s.inst.kind = "seq" ->
         [e EXCEPT !.mem = FoldLeft(RunTac, @, RenderTACInPlace(s.order, s.offset))]
    [] s.inst.kind = "reduce" -> [e EXCEPT !.mem = Accumulate(e, s.inst)]
    [] OTHER -> Move(e, s.inst)

Run ==
  /\ step \in DOMAIN text
  /\ env' = RunInst(env, text[step])
  /\ step' = step + 1
  /\ UNCHANGED <<vars, packVars, tables, vops, text>>

VecNext ==
  \/ CompilerStep /\ UNCHANGED vecVars
  \/ BuildVectorOP \/ ReadSecondInput \/ SortAndRender \/ Run

VecSpec == VecInit /\ [][VecNext]_allVars

-------------------------------------------------------------------------------
(***************************************************************************)
(* The operations the vector code is right for.  An operand is in one      *)
(* register in its lanes, or where one instruction loads it from.          *)
(***************************************************************************)
InRegister(v) == ~v.load /\ ~v.pack /\ v.same

InMemory(v) ==
  v.load /\ Loadable(v) /\ (v.contiguous \/ v.equal \/ Members(v.ops) \subseteq {"", "+"})

(***************************************************************************)
(* No operation of a MAP reads the result of another one; those of a       *)
(* REDUCE read the results of others as accumulators only.                 *)
(***************************************************************************)
Independent(v) == \A n \in Members(v.group) : NodesRead(n) \cap Members(v.group) = {}

Accumulates(v) ==
  \A n \in Members(v.group) :
    /\ Register(nodes, nodes[n].ins[1]) = nodes[n].out
    /\ nodes[n].ins[2].node \notin Members(v.group)

(***************************************************************************)
(* The statements a SEQ is for are one: the copy that is written.          *)
(***************************************************************************)
OneStatement(v) ==
  \A n \in Members(v.group) :
    nodes[n].id \in LastIds => nodes[n].id = v.order /\ nodes[n].unroll = v.offset

(***************************************************************************)
(* What a REDUCE accumulates into is read by nothing else, except its last *)
(* value where the reduction is not put behind a loop.                     *)
(***************************************************************************)
LastInto(x, n) == \A m \in DOMAIN nodes : nodes[m].out = x => m <= n

Private(v) ==
  \A n \in DOMAIN nodes : \A i \in DOMAIN nodes[n].ins :
    LET in == nodes[n].ins[i]
        x  == Register(nodes, in)
    IN  x \in {nodes[m].out : m \in Members(v.group)} =>
          \/ nodes[n].out = x
          \/ ~InLoop /\ ~IsLeaf(in) /\ LastInto(x, in.node)

(***************************************************************************)
(* The operations of a MAP are moved to the last of their statements: past *)
(* nothing that they depend on or that depends on them.                    *)
(***************************************************************************)
Between(n, g) ==
  LET S == {StatementAt(nodes[m].id) : m \in Members(g)}
  IN  \E first, last \in S : first # last /\ StatementAt(nodes[n].id) \in first .. last

NamesRead(n) == {Register(nodes, nodes[n].ins[i]) : i \in DOMAIN nodes[n].ins}

Conflict(m, n) ==
  \/ nodes[m].out \in NamesRead(n) \cup {nodes[n].out}
  \/ nodes[n].out \in NamesRead(m)

Movable(v) ==
  \A n \in DOMAIN nodes \ Members(v.group) : Between(n, v.group) =>
    \A m \in Members(v.group) : ~Conflict(m, n)

SupportedOp(v) ==
  CASE v.type = "MAP" ->
         /\ \A i \in DOMAIN v.args : InRegister(v.args[i]) \/ InMemory(v.args[i])
         /\ v.r.store => Storable(v.r, FALSE)
         /\ v.fn \notin Sequential \cup {"%"}
         /\ Independent(v) /\ Movable(v)
    [] v.type = "REDUCE" ->
         /\ InRegister(v.args[1]) \/ InMemory(v.args[1])
         /\ Accumulates(v) /\ Private(v) /\ Movable(v)
    [] v.type = "SEQ" -> OneStatement(v)

SupportedScop ==
  /\ Members(Emitted) = DOMAIN nodes
  /\ \A i \in DOMAIN vops : SupportedOp(vops[i])

-------------------------------------------------------------------------------
Written == {Cell(x) : x \in {code[i].a : i \in DOMAIN code} \ Temps}

MemoryOf(mem) == [c \in Written \cap DOMAIN mem |-> mem[c]]

AsCode == FoldLeft(RunTac, Empty, code)

Ran == step > Len(text)

Of(type) == {i \in DOMAIN vops : vops[i].type = type}

UsedBy(m) ==
  CASE m.kind \in {"op", "low", "high"} -> Members(m.from)
    [] m.kind \in {"store", "reduce"} -> {m.reg}
    [] OTHER -> {}

Writes(m) == m.kind \notin {"store", "reduce", "seq"}

\* The tables name lanes of registers that have been given out, a register has no
\* more lanes than a vector, and no operation comes before its group.
VecTypeOK ==
  /\ \A x \in DOMAIN tables.reg :
       /\ tables.reg[x].reg \in tables.loads \cap DOMAIN tables.slots
       /\ tables.reg[x].lane \in 0 .. tables.slots[tables.reg[x].reg] - 1
  /\ \A x \in DOMAIN tables.slots : tables.slots[x] \in 1 .. Slots
  /\ DOMAIN tables.liveIn \subseteq DOMAIN tables.slots /\ tables.vid \in Nat
  /\ \A x \in DOMAIN vops : vops[x].type \in {"MAP", "REDUCE", "SEQ"} /\ vops[x].order \in Nat
  /\ step \in 0 .. Len(text) + 1
  /\ \A x \in DOMAIN env.regs : Lanes(env.regs[x]) \in {2, 4, 8}

\* What the vector code leaves in the locations the scop writes is what the
\* statements leave, of any mix of maps, reductions and sequential operations:
\* each operand is loaded behind the store it depends on, found in the register
\* and the lanes an earlier operation left it in, and moved to the last of the
\* statements it is for, reductions behind the loop.
VectorCodeMeansSource ==
  step > 0 /\ Ran /\ SupportedScop => MemoryOf(env.mem) = MemoryOf(AsCode)

\* Wherever the instructions are put - each at a place of its own, found from the
\* order of an operand or of an operation - a register is written before it is
\* used.
DefinedBeforeUsed ==
  (\A i \in DOMAIN vops : \A k \in DOMAIN vops[i].args :
     InRegister(vops[i].args[k]) \/ InMemory(vops[i].args[k])) =>
    \A i \in DOMAIN text : \A r \in UsedBy(text[i].inst) :
      \E j \in 1 .. i - 1 : text[j].inst.reg = r /\ Writes(text[j].inst)

\* "No dependencies between operations, so it can be used a unique vector
\* operation" (VectorIR.h:51-52) of a MAP.
MapsAreIndependent == \A i \in Of("MAP") : Independent(vops[i])
===============================================================================
