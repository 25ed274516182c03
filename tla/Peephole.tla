-------------------------------- MODULE Peephole --------------------------------
(***************************************************************************)
(* The instructions of the scops of a function, from the vector operations *)
(* to the code: vreduce puts off the reductions and adds the ones of one   *)
(* variable up in accumulators, and peepholeOptimizations then groups the  *)
(* reductions, fuses them, and fuses products with sums.  The code of each *)
(* scop is executed, lane by lane, before the next scop is read; the       *)
(* tables of vreduce are those of the function, and are not cleared.       *)
(*                                                                         *)
(* An item of a scop is a vector operation: a record                       *)
(*   kind  "op", "store", "scatter", "redux" or "use"                      *)
(*   op, to, a, b  as in a TAC         size  its lanes                     *)
(*   uop  for "redux", as in a reduction                                   *)
(* where a "use" is a statement left as it was, which reads variable a.  A *)
(* "scatter" stores register a, too, but with instructions that are no     *)
(* VSTORE: assignments of its lanes (VOPT), or a VSCATTER.                 *)
(***************************************************************************)
EXTENDS SequencesExt, TLC

CONSTANT Programs  \* [fuse, fma : options, double : the type, regs : name -> lanes,
                   \*  scops : Seq(Seq(item))]

VARIABLES
  prog,     \* the function, chosen once
  scop,     \* the scop that is compiled or run
  phase,    \* "emit", "group", "fuse", "fma", "run", "done"
  at,       \* the item or the instruction that comes next
  code,     \* IL, the instructions of the scop
  accm,     \* AccmToReg
  accmOf,   \* MapReduxVarToAccm
  reduxOf,  \* MapReduxVOp: the lanes of the last reduction into a variable
  env       \* regs, vars and what the stores and uses have seen, out

(***************************************************************************)
(* A function has operands of one type.                                    *)
(***************************************************************************)
INSTANCE Reductions WITH Double <- prog.double

compiler == <<accm, accmOf, reduxOf>>
peepVars == <<prog, scop, phase, at, code, compiler, env>>

Variables(p) ==
  UNION {LET s == p.scops[k] IN UNION {ToSet(s[i].uop) : i \in DOMAIN s} : k \in DOMAIN p.scops}
  \cup UNION {LET s == p.scops[k] IN {s[i].a : i \in {j \in DOMAIN s : s[j].kind = "use"}}
              : k \in DOMAIN p.scops}

Unknown(x, place) == Input([name |-> x, at |-> place])

Memory(p) ==
  [regs |-> [r \in DOMAIN p.regs |-> [i \in 0 .. p.regs[r] - 1 |-> Unknown(r, <<i>>)]],
   vars |-> [v \in Variables(p) |-> Unknown(v, <<>>)],
   out |-> <<>>]

-------------------------------------------------------------------------------
(***************************************************************************)
(* Executing an instruction.  One that does not compile, for the types of  *)
(* its operands or their number, sets its result to junk.                  *)
(***************************************************************************)
Wider(fn) == fn \in {"low", "high"}

WellTyped(inst, regs) ==
  /\ Len(inst.args) = CASE inst.fn \in {"fmadd", "fmsub"} -> 3
                        [] inst.fn \in {"low", "high", "up", "permute"} -> 1
                        [] OTHER -> 2
  /\ \A k \in DOMAIN inst.args :
       /\ inst.args[k] \in DOMAIN regs
       /\ Lanes(regs[inst.args[k]]) = CASE Wider(inst.fn) -> 2 * inst.w
                                        [] inst.fn = "up" -> inst.w \div 2
                                        [] OTHER -> inst.w

Operators == {"+", "-", "*", "/", "max", "std::max"}

Result(inst, regs) ==
  LET a == regs[inst.args[1]]
      b == regs[inst.args[2]]
      c == regs[inst.args[3]]
  IN  CASE inst.fn \in Operators -> Arith(inst.fn, a, b)
        [] inst.fn = "fmadd" -> Arith("+", Arith("*", a, b), c)
        [] inst.fn = "fmsub" -> Arith("-", Arith("*", a, b), c)
        [] inst.fn = "low" -> LowHalf(a)
        [] inst.fn = "high" -> HighHalf(a)
        [] inst.fn = "up" -> CastUp(a)
        [] inst.fn = "movehl" -> MoveHighToLow(a, b)
        [] inst.fn = "shuffle" -> Shuffle(a, b, inst.imm, prog.double)
        [] inst.fn = "permute" -> Shuffle(a, a, inst.imm, prog.double)
        [] inst.fn = "hadd" -> Horizontal("+", a, b, prog.double)
        [] inst.fn = "hsub" -> Horizontal("-", a, b, prog.double)
        [] inst.fn = "blend" -> Blend(a, b, inst.imm)
        [] inst.fn = "permute2f128" -> HighThenLow(a, b)
        [] OTHER -> UndefinedReg(inst.w)

Lane(regs, r, i) == IF r \in DOMAIN regs /\ i \in DOMAIN regs[r] THEN regs[r][i] ELSE Junk

Set(f, x, y) == (x :> y) @@ f

(***************************************************************************)
(* A reduction that is not expanded yet stands for what it is to compute.  *)
(***************************************************************************)
ReduceLanes(vars, uop, op, reg, regs) ==
  FoldLeft(LAMBDA vs, i : [vs EXCEPT ![uop[i]] = Apply(op, @, Lane(regs, reg, i - 1))],
           vars, [i \in DOMAIN uop |-> i])

Exec(e, inst) ==
  CASE inst.fn = "acc" ->
         IF inst.to = Beyond THEN [e EXCEPT !.vars = [v \in DOMAIN @ |-> Junk]]
         ELSE [e EXCEPT !.vars[inst.to] =
                 IF inst.redux.op \notin Operators THEN Junk
                 ELSE Apply(inst.redux.op, @, Lane(e.regs, inst.args[1], inst.imm))]
    [] inst.fn = "use" -> [e EXCEPT !.out = Append(@, e.vars[inst.to])]
    [] inst.fn \in {"store", "scatter"} ->
         [e EXCEPT !.out = Append(@, IF inst.to \in DOMAIN e.regs THEN e.regs[inst.to]
                                     ELSE UndefinedReg(inst.w))]
    [] inst.fn = "VREDUX" ->
         [e EXCEPT !.vars = ReduceLanes(@, inst.redux.uop, inst.redux.op,
                                        inst.redux.accm, e.regs)]
    [] OTHER ->
         [e EXCEPT !.regs = Set(@, inst.to, IF WellTyped(inst, e.regs)
                                            THEN Result(inst, e.regs)
                                            ELSE UndefinedReg(inst.w))]

Meaning(c, e) == FoldLeft(Exec, e, c)

-------------------------------------------------------------------------------
(***************************************************************************)
(* vadd, vsub, vmul, vdiv and vfunc; the stores; addNonSIMDInst.           *)
(***************************************************************************)
SIMDType(op) == CASE op = "+" -> "VADD" [] op = "-" -> "VSUB" [] op = "*" -> "VMUL"
                  [] op = "/" -> "VDIV" [] OTHER -> "VFUNC"

Operation(op, to, args, size) == [Inst(op, to, args, 0, size) EXCEPT !.st = SIMDType(op)]

Emitted(it) ==
  CASE it.kind = "op" -> Operation(it.op, it.to, <<it.a, it.b>>, it.size)
    [] it.kind = "store" -> [Inst("store", it.a, <<it.a>>, 0, it.size) EXCEPT !.st = "VSTORE"]
    [] it.kind = "scatter" ->
         [Inst("scatter", it.a, <<it.a>>, 0, it.size) EXCEPT !.st = "VSCATTER"]
    [] it.kind = "use" -> [Inst("use", it.a, <<>>, 0, 0) EXCEPT !.st = "VSEQ"]

Item == prog.scops[scop][at]

Emit ==
  /\ phase = "emit" /\ at <= Len(prog.scops[scop])
  /\ Item.kind # "redux"
  /\ code' = Append(code, Emitted(Item))
  /\ at' = at + 1
  /\ UNCHANGED <<prog, scop, phase, compiler, env>>

(***************************************************************************)
(* vreduce.  A variable that was reduced into before has a register; the   *)
(* new one is added to it in an accumulator (computeAccmReduction), cast   *)
(* up when they differ in size, and the result is as wide as the old one.  *)
(***************************************************************************)
IsUniqueRedux(uop) == NReductions(uop) = 1

CastOf(r) == "cast of " \o r

\* Mutant: the accumulator starts from the new register alone.
AccmWithoutPrevious(it, reg, prev, old) ==
  <<Operation(it.op, reg, <<it.a, it.a>>, old.size)>>

ComputeAccmReduction(it, reg, prev, old) ==
  LET cast == old.size # it.size
  IN  (IF cast THEN <<Inst("up", CastOf(it.a), <<it.a>>, 0, old.size)>> ELSE <<>>)
      \o <<Operation(it.op, reg, <<IF cast THEN CastOf(it.a) ELSE it.a, prev>>, old.size)>>

Vreduce ==
  /\ phase = "emit" /\ at <= Len(prog.scops[scop])
  /\ Item.kind = "redux"
  /\ LET it     == Item
         unique == IsUniqueRedux(it.uop)
         v      == IF unique THEN it.uop[1] ELSE "MultiValue"
         known  == unique /\ v \in DOMAIN accmOf
         m      == IF known THEN NextAccm(accm, it.a) ELSE accm
         reg    == IF known THEN AccmReg(m, it.a) ELSE it.a
         new    == [size |-> it.size, len |-> Len(it.uop)]
         old    == IF known THEN reduxOf[v] ELSE new
         len    == IF old.size = it.size THEN new.len ELSE old.len
         d      == [name |-> it.a, accm |-> reg, to |-> v, op |-> it.op,
                    size |-> old.size, ord |-> at, loc |-> at,
                    uop |-> IF unique THEN [i \in 1 .. len |-> v] ELSE it.uop]
     IN  /\ code' = code \o (IF known THEN ComputeAccmReduction(it, reg, accmOf[v], old)
                             ELSE <<>>)
                         \o <<[Inst("VREDUX", v, <<reg>>, 0, old.size)
                                EXCEPT !.st = "VREDUC", !.redux = d]>>
         /\ accm' = m
         /\ accmOf' = IF unique THEN Set(accmOf, v, reg) ELSE accmOf
         /\ reduxOf' = IF unique THEN Set(reduxOf, v, new) ELSE reduxOf
  /\ at' = at + 1
  /\ UNCHANGED <<prog, scop, phase, env>>

EndOfEmission ==
  /\ phase = "emit" /\ at > Len(prog.scops[scop])
  /\ phase' = "group"
  /\ UNCHANGED <<prog, scop, at, code, compiler, env>>

-------------------------------------------------------------------------------
(***************************************************************************)
(* The reductions of c that satisfy a test; code in the place of some of   *)
(* its instructions; expanding a list of reductions, of which the tables   *)
(* go from one to the next.                                                *)
(***************************************************************************)
ReductionsOf(c) == {i \in DOMAIN c : c[i].st = "VREDUC"}

Replaced(c, by) ==
  FlattenSeq([i \in DOMAIN c |-> IF i \in DOMAIN by THEN by[i] ELSE <<c[i]>>])

Drops(S) == [i \in S |-> <<>>]

ReduxAt(c, places) == [k \in DOMAIN places |-> c[places[k]].redux]

\* chunks are sequences of places, each expanded where its last place is.
Expanded(c, chunks, m) ==
  FoldLeft(LAMBDA acc, chunk :
             LET f == FuseReductionsList(ReduxAt(c, chunk), acc.accm)
             IN  [by |-> Drops({chunk[k] : k \in 1 .. Len(chunk) - 1})
                         @@ (Last(chunk) :> f.code) @@ acc.by,
                  accm |-> f.accm],
           [by |-> <<>>, accm |-> m], chunks)

Ascending(S) == SetToSortSeq(S, LAMBDA i, j : i < j)

(***************************************************************************)
(* groupReductions: of the reductions into one variable the last is kept,  *)
(* the others being part of its accumulator; those into several are        *)
(* expanded.                                                               *)
(***************************************************************************)
Superseded(c) ==
  {i \in ReductionsOf(c) :
     /\ IsUniqueRedux(c[i].redux.uop)
     /\ \E j \in ReductionsOf(c) :
          j > i /\ IsUniqueRedux(c[j].redux.uop) /\ c[j].to = c[i].to}

GroupReductions ==
  /\ phase = "group"
  /\ LET multi == {i \in ReductionsOf(code) : ~IsUniqueRedux(code[i].redux.uop)}
         x     == Expanded(code, [k \in DOMAIN Ascending(multi) |-> <<Ascending(multi)[k]>>], accm)
     IN  /\ code' = Replaced(code, Drops(Superseded(code)) @@ x.by)
         /\ accm' = x.accm
  /\ phase' = "fuse"
  /\ UNCHANGED <<prog, scop, at, accmOf, reduxOf, env>>

(***************************************************************************)
(* mergeReductions: by size, in chunks of half as many as there are lanes; *)
(* an odd one out is expanded by itself.                                   *)
(***************************************************************************)
\* Mutant: the odd one out is left out.
ChunksEven(places, max) ==
  [k \in 1 .. (Len(places) + max - 1) \div max |->
     LET last == IF k * max < Len(places) THEN k * max ELSE Len(places)
         c    == SubSeq(places, 1 + (k - 1) * max, last)
     IN  IF Len(c) > 2 THEN SubSeq(c, 1, 2 * (Len(c) \div 2)) ELSE c]

Chunks(places, max) ==
  LET chunk(k) == SubSeq(places, 1 + (k - 1) * max,
                         IF k * max < Len(places) THEN k * max ELSE Len(places))
      cut(c)   == IF Len(c) % 2 = 0 \/ Len(c) = 1 THEN <<c>>
                  ELSE <<SubSeq(c, 1, Len(c) - 1), <<Last(c)>>>>
  IN  FlattenSeq([k \in 1 .. (Len(places) + max - 1) \div max |-> cut(chunk(k))])

FuseReductions ==
  /\ phase = "fuse"
  /\ LET R      == ReductionsOf(code)
         sizes  == Ascending({code[i].redux.size : i \in R})
         of(s)  == Ascending({i \in R : code[i].redux.size = s})
         max(s) == IF prog.fuse THEN s \div 2 ELSE 1
         x      == Expanded(code, FlattenSeq([k \in DOMAIN sizes |->
                                    Chunks(of(sizes[k]), max(sizes[k]))]), accm)
     IN  code' = Replaced(code, x.by) /\ accm' = x.accm
  /\ phase' = IF prog.fma THEN "fma" ELSE "run"
  /\ at' = 1
  /\ UNCHANGED <<prog, scop, accmOf, reduxOf, env>>

-------------------------------------------------------------------------------
(***************************************************************************)
(* genMultAccOp: the operands of the product, then what else is added.     *)
(***************************************************************************)
\* Mutant: what is added comes first.
AddendFirst(mul, acc) ==
  [Inst("fmadd", acc.to, SelectSeq(acc.args, LAMBDA x : x # mul.to) \o mul.args, 0, mul.w)
   EXCEPT !.ord = acc.ord]

GenMultAccOp(mul, acc) ==
  [Inst(IF acc.st = "VADD" THEN "fmadd" ELSE "fmsub", acc.to,
        mul.args \o SelectSeq(acc.args, LAMBDA x : x # mul.to), 0, mul.w)
   EXCEPT !.ord = acc.ord]

(***************************************************************************)
(* fuseAddSubMult.  cand are the products, by place, that may be fused; a  *)
(* contiguous store of one takes it away.  At a sum the first operand is   *)
(* looked for among the candidates of its width; those that are skipped by *)
(* now are then dropped, and the second operand is looked for among the    *)
(* others.  What matches there stays a candidate until the next sum.  (The *)
(* liveness test never takes one away: a temporary's LiveOut is the Order  *)
(* of its definition.)                                                     *)
(***************************************************************************)
\* Mutant: a store does not take the product away.
ScanThroughStores(c, s, i) ==
  LET inst  == c[i]
      same  == {p \in s.cand : c[p].w = inst.w}
      first == {p \in same : c[p].to = inst.args[1]}
  IN  IF inst.st = "VMUL" THEN [s EXCEPT !.cand = @ \cup {i}]
      ELSE IF inst.st # "VADD" \/ first = {} THEN s
      ELSE [s EXCEPT !.skip = @ \cup first, !.fused = Set(@, i, Min(first))]

FuseWith(c, s, i) ==
  LET same     == {p \in s.cand : c[p].w = c[i].w}
      reads(k) == {p \in same : c[p].to = c[i].args[k]}
      first    == IF reads(1) = {} THEN {} ELSE {Min(reads(1))}
      skip     == s.skip \cup first
      found    == IF first # {} THEN first ELSE reads(2) \ skip
  IN  [cand  |-> s.cand \ (same \cap skip),
       skip  |-> skip \cup found,
       fused |-> IF found = {} THEN s.fused ELSE Set(s.fused, i, Max(found))]

ScanForProducts(c, s, i) ==
  LET inst == c[i]
  IN  CASE inst.st = "VMUL" -> [s EXCEPT !.cand = @ \cup {i}]
        [] inst.st = "VSTORE" ->
             [s EXCEPT !.cand = @ \ {p \in s.cand : c[p].w = inst.w /\ c[p].to = inst.to}]
        [] inst.st \in {"VADD", "VSUB"} -> FuseWith(c, s, i)
        [] OTHER -> s

FuseAddSubMult ==
  /\ phase = "fma"
  /\ LET s == FoldLeft(LAMBDA acc, i : ScanForProducts(code, acc, i),
                       [cand |-> {}, skip |-> {}, fused |-> <<>>],
                       [i \in DOMAIN code |-> i])
     IN  code' = Replaced(code, Drops(s.skip)
                   @@ [i \in DOMAIN s.fused |-> <<GenMultAccOp(code[s.fused[i]], code[i])>>])
  /\ phase' = "run"
  /\ UNCHANGED <<prog, scop, at, compiler, env>>

-------------------------------------------------------------------------------
Run ==
  /\ phase = "run" /\ at <= Len(code)
  /\ env' = Exec(env, code[at])
  /\ at' = at + 1
  /\ UNCHANGED <<prog, scop, phase, code, compiler>>

NextScop ==
  /\ phase = "run" /\ at > Len(code)
  /\ IF scop < Len(prog.scops)
     THEN scop' = scop + 1 /\ phase' = "emit" /\ at' = 1 /\ code' = <<>>
     ELSE phase' = "done" /\ UNCHANGED <<scop, at, code>>
  /\ UNCHANGED <<prog, compiler, env>>

PeepInit ==
  /\ prog \in Programs
  /\ scop = 1 /\ phase = "emit" /\ at = 1 /\ code = <<>>
  /\ accm = <<>> /\ accmOf = <<>> /\ reduxOf = <<>>
  /\ env = Memory(prog)

PeepNext ==
  \/ Emit \/ Vreduce \/ EndOfEmission
  \/ GroupReductions \/ FuseReductions \/ FuseAddSubMult
  \/ Run \/ NextScop

PeepSpec == PeepInit /\ [][PeepNext]_peepVars
-------------------------------------------------------------------------------
(***************************************************************************)
(* What the source means: the operations one after the other.              *)
(***************************************************************************)
SourceStep(e, it) ==
  CASE it.kind = "op" ->
         [e EXCEPT !.regs = Set(@, it.to, Arith(it.op, e.regs[it.a], e.regs[it.b]))]
    [] it.kind = "redux" -> [e EXCEPT !.vars = ReduceLanes(@, it.uop, it.op, it.a, e.regs)]
    [] OTHER -> Exec(e, Emitted(it))

Source(p, k) ==
  FoldLeft(LAMBDA e, items : FoldLeft(SourceStep, e, items),
           Memory(p), SubSeq(p.scops, 1, k))

-------------------------------------------------------------------------------
(***************************************************************************)
(* The programs whose reductions the back end gets right; every conjunct   *)
(* names one it does not.                                                  *)
(***************************************************************************)
Redux(p, k) == {i \in DOMAIN p.scops[k] : p.scops[k][i].kind = "redux"}

\* A difference or a quotient is reduced with its own operation, and runs
\* of equal length are always added.
Additive(p) ==
  \A k \in DOMAIN p.scops : \A i \in Redux(p, k) :
    LET it == p.scops[k][i]
    IN  it.op = "+" \/ (it.op \in {"*", "max", "std::max"} /\ IsUniqueRedux(it.uop))

\* Runs of two, four or eight lanes, except three runs of two.  The fusion
\* of two registers takes all of their lanes.
EvenRuns(p) ==
  \A k \in DOMAIN p.scops : \A i \in Redux(p, k) :
    LET uop == p.scops[k][i].uop
    IN  /\ \A v \in ToSet(uop) : Cardinality(LanesOf(uop, v)) \in {2, 4, 8}
        /\ GetSymmetry(uop) => Len(uop) # 6
        /\ IsUniqueRedux(uop) /\ p.fuse /\ p.scops[k][i].size > 4
             => Len(uop) = p.scops[k][i].size

\* Of two registers of four lanes that are fused, the result is left in
\* lo128 and read from the first.
NoFusedHalves(p) ==
  p.fuse => \A k \in DOMAIN p.scops : \A i, j \in Redux(p, k) :
    LET a == p.scops[k][i]
        b == p.scops[k][j]
    IN  a.size = 4 /\ b.size = 4 /\ IsUniqueRedux(a.uop) /\ IsUniqueRedux(b.uop)
          => a.uop[1] = b.uop[1]

\* A cast leaves the upper half undefined, and of registers in use to
\* different lengths the last one's is taken; reductions are fused by size.
OneSizeAndOperation(p) ==
  \A k \in DOMAIN p.scops : \A i, j \in Redux(p, k) :
    LET a == p.scops[k][i]
        b == p.scops[k][j]
    IN  /\ IsUniqueRedux(a.uop) /\ IsUniqueRedux(b.uop) /\ a.uop[1] = b.uop[1]
             => Len(a.uop) = Len(b.uop)
        /\ a.size = b.size => a.op = b.op

\* Reducing a register overwrites it, and the accumulator of a variable is
\* kept from scop to scop.
Once(p) ==
  \A k, h \in DOMAIN p.scops : \A i \in Redux(p, k) : \A j \in DOMAIN p.scops[h] :
    LET a == p.scops[k][i]
        b == p.scops[h][j]
        after == h > k \/ (h = k /\ j > i)
    IN  after => /\ a.a # b.b /\ (b.kind # "use" => a.a # b.a)
                 /\ h > k => ToSet(a.uop) \cap ToSet(b.uop) = {}

\* A reduction is put off until the last of its variable or of its fusion.
UsedAfterwards(p) ==
  \A k \in DOMAIN p.scops : \A i \in Redux(p, k) : \A j \in DOMAIN p.scops[k] :
    LET a == p.scops[k][i]
        b == p.scops[k][j]
    IN  b.kind = "use" /\ j > i /\ b.a \in ToSet(a.uop)
          => \A h \in Redux(p, k) : h < j

\* A product subtracted becomes a product something is subtracted from.
NoSubtractedProduct(p) ==
  p.fma => \A k \in DOMAIN p.scops : \A i, j \in DOMAIN p.scops[k] :
    LET a == p.scops[k][i]
        b == p.scops[k][j]
    IN  a.kind = "op" /\ a.op = "*" /\ b.kind = "op"
          => /\ b.op = "-" => b.b # a.to
             /\ b.op = "+" => ~(b.a = a.to /\ b.b = a.to)

\* A product that is fused is dropped, whatever else reads it: another sum, a
\* product, a scatter, a reduction, a store behind the sum.  A store before the
\* sum keeps it; and one found as a second operand may be fused once more with
\* the sum that comes next, if it is the first operand there.
Reads(it, r) == it.kind # "use" /\ (it.a = r \/ (it.kind = "op" /\ it.b = r))

IsSum(items, j) ==
  \/ items[j].kind = "op" /\ items[j].op \in {"+", "-"}
  \/ /\ items[j].kind = "redux" /\ items[j].op = "+" /\ IsUniqueRedux(items[j].uop)
     /\ \E i \in 1 .. j - 1 : items[i].kind = "redux" /\ items[i].uop[1] = items[j].uop[1]

FusedOnceMore(items, r, readers) ==
  \E j, h \in readers :
    /\ readers = {j, h} /\ j < h
    /\ \A k \in j .. h : IsSum(items, k) <=> k \in {j, h}
    /\ items[j].kind = "op" /\ items[j].b = r /\ items[j].op = "+"
    /\ ~\E k \in 1 .. j : items[k].op = "*" /\ items[k].to = items[j].a
    /\ items[h].kind = "op" /\ items[h].a = r

FusedHasNoOtherReader(p) ==
  p.fma => \A k \in DOMAIN p.scops : \A i \in DOMAIN p.scops[k] :
    LET items   == p.scops[k]
        readers == {h \in i + 1 .. Len(items) : Reads(items[h], items[i].to)}
        sums    == {h \in readers : IsSum(items, h)}
    IN  items[i].kind = "op" /\ items[i].op = "*" /\ sums # {}
          => \/ \E h \in readers : items[h].kind = "store" /\ h < Min(sums)
             \/ Cardinality(readers) = 1
             \/ FusedOnceMore(items, items[i].to, readers)

\* A function with a prefix is misspelled in the second result of a fusion.
NoPrefixFused(p) ==
  p.fuse => \A k \in DOMAIN p.scops : \A i, j \in Redux(p, k) :
    LET a == p.scops[k][i]
        b == p.scops[k][j]
    IN  a.op = "std::max" /\ a.size = b.size /\ IsUniqueRedux(a.uop) /\ IsUniqueRedux(b.uop)
          => a.uop[1] = b.uop[1]

Supported(p) ==
  /\ Additive(p) /\ EvenRuns(p) /\ NoFusedHalves(p) /\ OneSizeAndOperation(p)
  /\ Once(p) /\ UsedAfterwards(p) /\ NoSubtractedProduct(p)
  /\ FusedHasNoOtherReader(p) /\ NoPrefixFused(p)

PeepTypeOK ==
  /\ scop \in DOMAIN prog.scops
  /\ phase \in {"emit", "group", "fuse", "fma", "run", "done"}
  /\ at \in 1 .. 1 + Len(prog.scops[scop]) + Len(code)
  /\ phase = "run" => ReductionsOf(code) = {}
  /\ \A i \in DOMAIN code : code[i].w \in {0, 2, 4, 8}
  /\ DOMAIN accmOf = DOMAIN reduxOf
  /\ DOMAIN accmOf \subseteq Variables(prog)

(***************************************************************************)
(* When a scop has run, every variable has the value the source gives it:  *)
(* each lane is added once, to the variable it belongs to.                 *)
(***************************************************************************)
ReductionsMeanSource ==
  phase \in {"emit", "done"} =>
    env.vars = Source(prog, IF phase = "done" THEN scop ELSE scop - 1).vars

(***************************************************************************)
(* A store and a statement left scalar see the values they see in the      *)
(* source, though reductions are put off and products are moved.           *)
(***************************************************************************)
UsesSeeSource == IsPrefix(env.out, Source(prog, scop).out)

(***************************************************************************)
(* No instruction to be run reads a register that neither the scop's       *)
(* instructions before it nor the loads set: a product that was dropped    *)
(* is read by nothing that is left, neither by another sum nor by a store  *)
(* of any kind, and the sum it was fused with still stands behind its      *)
(* operands.                                                               *)
(***************************************************************************)
ReadsDefined ==
  phase = "run" =>
    \A i \in DOMAIN code : \A k \in DOMAIN code[i].args :
      \/ code[i].args[k] \in DOMAIN env.regs
      \/ \E j \in 1 .. i - 1 : code[j].to = code[i].args[k]

(***************************************************************************)
(* Expanding the reductions and fusing products with sums do not change    *)
(* what the instructions of the scop do to memory.                         *)
(***************************************************************************)
PassesKeepMeaning ==
  [][(phase \in {"fuse", "fma"}) =>
       /\ Meaning(code', env).vars = Meaning(code, env).vars
       /\ Meaning(code', env).out = Meaning(code, env).out]_peepVars
===============================================================================
