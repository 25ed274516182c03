--------------------------------- MODULE Moves ---------------------------------
(***************************************************************************)
(* How the operands of a vector operation get into registers and its       *)
(* result into memory: the loads, gathers, broadcasts and stores that      *)
(* SIMDBackEnd and AVX2BackEnd choose for the locations an operand names,  *)
(* executed lane by lane.                                                  *)
(*                                                                         *)
(* A cell is a location: element i of a row of array b, or a scalar or a   *)
(* literal b.  An operand (VOperand) is a record                           *)
(*   name   its register             refs   the cells of its lanes         *)
(*   len    VectorLength             size   the lanes of the register      *)
(*   idx    what refs are from refs[1], when they are elements of one base *)
(*   same, contiguous, equal, partial, low, high, mem, load, store, pack   *)
(*          SameVector, .., EqualVal, IsPartial, .., RequiresRegisterPacking*)
(*   double its type                 ops    what getValue gives for a lane:*)
(*          the operation of a node of the graph, "" for a leaf            *)
(* An instruction says which cell each lane of register reg is loaded from *)
(* or stored to, or the operation that is applied to the registers from.   *)
(***************************************************************************)
EXTENDS Lanes, Lists

\* f, and g where f has no value.
Over(f, g) ==
  [x \in DOMAIN f \cup DOMAIN g |-> IF x \in DOMAIN f THEN f[x] ELSE g[x]]

Only(x, e) == [y \in {x} |-> e]

(***************************************************************************)
(* Lanes of 128 bits.                                                      *)
(***************************************************************************)
Narrow(double) == IF double THEN 2 ELSE 4

Scalar == -1
Literal == -2

Element(b, row, i) == [b |-> b, row |-> row, i |-> i]
ScalarCell(b) == Element(b, Scalar, 0)
LiteralCell(b) == Element(b, Literal, 0)

IsElement(c) == c.row \notin {Scalar, Literal}

Beside(c, k) == [c EXCEPT !.i = @ + k]

-------------------------------------------------------------------------------
(***************************************************************************)
(* What the constructor of VOperand finds out about the cells.  Elements   *)
(* are told apart by the name of the array and the last index, whatever    *)
(* the other indices are.                                                  *)
(***************************************************************************)
AreInSameVector(refs) ==
  \A i \in DOMAIN refs : IsElement(refs[i]) /\ refs[i].b = refs[1].b

GetMemIdx(refs) == [i \in DOMAIN refs |-> refs[i].i - refs[1].i]

AllEqual(refs) == \A i \in DOMAIN refs : refs[i] = refs[1]

CountsUp(idx) == \A i \in DOMAIN idx \ {1} : idx[i] = idx[i - 1] + 1

\* Mutant: the width is not rounded up to one there are registers of.
VectorSizeExact(len, double) == len

VectorSize(len, double) ==
  IF len <= Narrow(double) THEN Narrow(double) ELSE 2 * Narrow(double)

(***************************************************************************)
(* An operand none of which is in a register yet.                          *)
(***************************************************************************)
MemoryOperand(name, refs, res, double) ==
  LET len  == Len(refs)
      size == VectorSize(len, double)
      mem  == ~res /\ \E i \in DOMAIN refs : refs[i].row # Literal
      same == (mem \/ res) => AreInSameVector(refs)
      idx  == IF (mem \/ res) /\ same THEN GetMemIdx(refs) ELSE <<>>
  IN  [name |-> name, refs |-> refs, len |-> len, size |-> size,
       idx |-> idx, same |-> same, contiguous |-> CountsUp(idx),
       equal |-> AllEqual(refs), partial |-> size # len,
       low |-> len = 2 /\ size = 4, high |-> FALSE,
       mem |-> mem, load |-> ~res, store |-> res, pack |-> FALSE, double |-> double,
       ops |-> [i \in DOMAIN refs |-> ""]]

-------------------------------------------------------------------------------
(***************************************************************************)
(* Instructions.  A lane that is not loaded is 0, or what it was.          *)
(***************************************************************************)
Inst(kind, reg, w, cells) ==
  [kind |-> kind, reg |-> reg, w |-> w, cells |-> cells, fn |-> "", from |-> <<>>]

Row(c, n) == [k \in 0 .. n - 1 |-> Beside(c, k)]

LanesAt(refs) == [k \in 0 .. Len(refs) - 1 |-> refs[k + 1]]

Invalid(reg, w) == <<Inst("invalid", reg, w, Empty)>>

(***************************************************************************)
(* vload.  With two floats the rest of the register stays what it was; of  *)
(* doubles the two halves are loaded, from the first and the third, which  *)
(* has no masked form, and two doubles have no third.                      *)
(***************************************************************************)
\* Mutant: one more lane is let through the mask.
MaskOneMore(v) == [k \in 0 .. v.len |-> Beside(v.refs[1], k)]

Masked(v) == Row(v.refs[1], v.len)

Vload(v) ==
  IF v.double
  THEN IF v.len = 4
       THEN <<Inst("load", v.name, 4, Over(Row(v.refs[1], 2),
                                           [k \in 2 .. 3 |-> Beside(v.refs[3], k - 2)]))>>
       ELSE Invalid(v.name, v.size)
  ELSE IF v.partial /\ v.len = 2
  THEN <<Inst("keep", v.name, v.size, Row(v.refs[1], 2))>>
  ELSE <<Inst("load", v.name, v.size,
              IF v.partial THEN Masked(v) ELSE Row(v.refs[1], v.size))>>

Replicate(c, n) == [k \in 0 .. n - 1 |-> c]

\* There is no broadcast of a double to 128 bits.
Vbcast(v) ==
  IF v.double /\ v.size = 2 THEN Invalid(v.name, 2)
  ELSE <<Inst("load", v.name, v.size, Replicate(v.refs[1], v.size))>>

(***************************************************************************)
(* vgather: from the element with the least index on, so that no index is  *)
(* negative.  The first index is 0, and none is above it if the least is   *)
(* 0.  The address is that of what getValue names.                         *)
(***************************************************************************)
Least(idx) == CHOOSE i \in DOMAIN idx :
                /\ \A j \in DOMAIN idx : idx[i] <= idx[j]
                /\ \A j \in 1 .. i - 1 : idx[i] # idx[j]

\* Mutant: the indices stay relative to the first element.
FromFirst(idx) == [k \in 0 .. Len(idx) - 1 |-> idx[k + 1]]

FromLeast(idx) ==
  LET least == idx[Least(idx)]
  IN  [k \in 0 .. Len(idx) - 1 |-> IF least < 0 THEN idx[k + 1] - least ELSE idx[k + 1]]

Vgather(v) ==
  LET base == v.refs[Least(v.idx)]
      at   == FromLeast(v.idx)
  IN  IF v.ops[Least(v.idx)] \notin {"", "+"} THEN Invalid(v.name, v.size)
      ELSE <<Inst("load", v.name, v.size, [k \in DOMAIN at |-> Beside(base, at[k])])>>

(***************************************************************************)
(* vpack: by the recipe for the pattern, if the table has one, which loads *)
(* each cell, or by a gather.                                              *)
(***************************************************************************)
Vpack(v, recipe) ==
  IF recipe THEN <<Inst("recipe", v.name, v.size, LanesAt(v.refs))>> ELSE Vgather(v)

(***************************************************************************)
(* vset.  The arguments of set go from the last lane to the first.  What   *)
(* getValue gives is replaced by the location for sums and products.       *)
(***************************************************************************)
Vset(v) ==
  IF v.equal THEN <<Inst("load", v.name, v.size, Replicate(v.refs[1], v.size))>>
  ELSE IF \E i \in DOMAIN v.ops : v.ops[i] \notin {"", "+", "*"}
  THEN Invalid(v.name, v.size)
  ELSE <<Inst("load", v.name, v.size,
              [k \in v.size - v.len .. v.size - 1 |-> v.refs[v.size - k]])>>

(***************************************************************************)
(* getSIMDVOperand.  Nothing is emitted for an operand that is in its      *)
(* register, nor for one that would have to be put together from           *)
(* registers.                                                              *)
(***************************************************************************)
GetSIMDVOperand(v, recipe) ==
  IF ~v.load /\ ~v.pack /\ ~v.partial THEN <<>>
  ELSE IF v.pack \/ (~v.mem /\ v.partial /\ v.same) THEN <<>>
  ELSE IF ~v.equal /\ v.mem /\ v.contiguous THEN Vload(v)
  ELSE IF ~v.equal /\ v.mem /\ v.same THEN Vpack(v, recipe)
  ELSE IF v.equal /\ v.mem /\ v.contiguous THEN Vbcast(v)
  ELSE Vset(v)

-------------------------------------------------------------------------------
(***************************************************************************)
(* vstore.  Equal locations get the first lane; of two floats the low or   *)
(* the high half is stored, which two doubles of four do not have.         *)
(***************************************************************************)
Half(v) == IF v.low THEN {0, 1} ELSE {2, 3}

\* Mutant: the high half is stored from the low lanes.
StoreLowHalf(v) ==
  <<Inst("store", v.name, v.size, [k \in {0, 1} |-> Beside(v.refs[1], k)])>>

StoreHalf(v) ==
  <<Inst("store", v.name, v.size,
         [k \in Half(v) |-> Beside(v.refs[1], IF v.low THEN k ELSE k - 2)])>>

Vstore(v) ==
  LET halves == v.low \/ v.high
  IN  IF v.partial /\ ~halves
      THEN IF v.equal THEN Invalid(v.name, v.size)
           ELSE <<Inst("store", v.name, v.size, Masked(v))>>
      ELSE IF v.equal
      THEN IF v.len = 2 /\ halves THEN Invalid(v.name, v.size)
           ELSE <<Inst("store", v.name, v.size, Only(0, v.refs[1]))>>
      ELSE IF v.len = 2 /\ halves
      THEN IF v.double THEN Invalid(v.name, v.size) ELSE StoreHalf(v)
      ELSE <<Inst("store", v.name, v.size, Row(v.refs[1], v.size))>>

(***************************************************************************)
(* singleElementScatter, and the same from one lane on; vscatterAVX512,    *)
(* which takes floats that fill their register.                            *)
(***************************************************************************)
StoreElements(v, first, last) ==
  [k \in 1 .. last - first + 1 |->
     Inst("store", v.name, v.size, Only(first + k - 1, v.refs[first + k]))]

SingleElementScatter(v) == StoreElements(v, 0, v.len - 1)

VscatterAVX512(v) ==
  IF v.double \/ v.partial THEN Invalid(v.name, v.size)
  ELSE LET base == v.refs[Least(v.idx)]
           at   == FromLeast(v.idx)
       IN  <<Inst("store", v.name, v.size, [k \in 0 .. v.size - 1 |-> Beside(base, at[k])])>>

(***************************************************************************)
(* getContiguityRanges, from and to places.  The last range is counted     *)
(* from the end of the register.                                           *)
(***************************************************************************)
GetContiguityRanges(v) ==
  LET breaks  == {i \in 1 .. v.len - 1 : v.idx[i] + 1 # v.idx[i + 1]}
      from(b) == Max({0} \cup {i \in breaks : i < b})
  IN  {<<from(b), b - 1>> : b \in breaks}
      \cup {<<v.size - (v.len - from(v.len)), v.size - 1>>}

(***************************************************************************)
(* getSubVOperand.  (It copies cells behind the end, which are not used.)  *)
(***************************************************************************)
SubOperand(v, name, len, size, offset) ==
  LET last == IF offset + size < Len(v.refs) THEN offset + size ELSE Len(v.refs)
  IN  [v EXCEPT !.name = name, !.len = len, !.size = size, !.partial = len # size,
                !.low = offset % 4 = 0, !.high = offset % 4 # 0,
                !.refs = SubSeq(@, offset + 1, last),
                !.idx = SubSeq(@, offset + 1, last)]

(***************************************************************************)
(* vscatter4elements: halves that are contiguous are stored as such.       *)
(***************************************************************************)
Halves(v) ==
  LET half   == IF v.len > 4 THEN 4 ELSE 2
      ranges == GetContiguityRanges(v)
  IN  [full   |-> <<0, v.len - 1>> \in ranges,
       first  |-> <<0, half - 1>> \in ranges,
       second |-> <<half, 2 * half - 1>> \in ranges /\ v.len = 4]

SomeHalf(v) == Halves(v).full \/ Halves(v).first \/ Halves(v).second

Vscatter4Elements(v) ==
  LET h      == Halves(v)
      sub(o) == Vstore(SubOperand(v, v.name, 2, 4, o))
  IN  IF h.full THEN Vstore(v)
      ELSE (IF h.first THEN sub(0) ELSE <<>>)
           \o (IF h.second THEN sub(2) ELSE <<>>)
           \o (IF ~h.first /\ h.second THEN StoreElements(v, 0, 1) ELSE <<>>)
           \o (IF h.first /\ ~h.second THEN StoreElements(v, 2, v.len - 1) ELSE <<>>)

(***************************************************************************)
(* vscatter.  The lower half of a wide result is a cast where it is stored *)
(* from; here it is a register written before.                             *)
(***************************************************************************)
Extract(v, name, kind) == <<[Inst(kind, name, 4, Empty) EXCEPT !.from = <<v.name>>]>>

OneByOne(v, avx512) == IF avx512 THEN VscatterAVX512(v) ELSE SingleElementScatter(v)

ScatterWide(v, avx512) ==
  LET low    == SubOperand(v, "_mm256_castps256_ps128", 4, 4, 0)
      high   == SubOperand(v, "__tmp_extract_128", v.len - 4, 4, 4)
      first  == SomeHalf(low)
      second == SomeHalf(high)
      code   == (IF first THEN Extract(v, low.name, "low") ELSE <<>>)
                \o Vscatter4Elements(low)
                \o Extract(v, high.name, "high") \o Vscatter4Elements(high)
  IN  IF ~first /\ ~second THEN OneByOne(v, avx512)
      ELSE IF ~second
      THEN code \o (IF avx512 THEN VscatterAVX512(high) ELSE StoreElements(v, 4, v.len - 1))
      ELSE IF ~first
      THEN code \o (IF avx512 THEN Extract(v, low.name, "low") \o VscatterAVX512(low)
                    ELSE StoreElements(v, 0, 3))
      ELSE code

Vscatter(v, avx512) ==
  IF v.len < 4 THEN SingleElementScatter(v)
  ELSE IF Cardinality(GetContiguityRanges(v)) = v.len THEN OneByOne(v, avx512)
  ELSE IF v.size > 4 THEN ScatterWide(v, avx512)
  ELSE IF SomeHalf(v) THEN Vscatter4Elements(v)
  ELSE OneByOne(v, avx512)

StoreResult(v, avx512) == IF v.contiguous THEN Vstore(v) ELSE Vscatter(v, avx512)

-------------------------------------------------------------------------------
(***************************************************************************)
(* mapOperation: the operands, the operation, the result.  An operator     *)
(* that is not arithmetic is left to the statement it stands in (vseq); no *)
(* intrinsic is called mod.  opts says whether the table has a recipe for  *)
(* the patterns, and whether AVX-512 may be used.                          *)
(***************************************************************************)
Sequential == {"=", "<<", ">>", "&", "|", "^"}

Operate(fn, args, r) ==
  IF fn \in Sequential THEN <<Inst("seq", r.name, r.size, Empty)>>
  ELSE IF fn = "%" THEN Invalid(r.name, r.size)
  ELSE <<[Inst("op", r.name, r.size, Empty) EXCEPT
            !.fn = fn, !.from = [i \in DOMAIN args |-> args[i].name]]>>

Operation(fn, args, r, opts) ==
  Operate(fn, args, r) \o (IF r.store THEN StoreResult(r, opts.avx512) ELSE <<>>)

MapOperation(fn, args, r, opts) ==
  Through(Len(args), <<>>, LAMBDA code, i : code \o GetSIMDVOperand(args[i], opts.recipe))
  \o Operation(fn, args, r, opts)

-------------------------------------------------------------------------------
(***************************************************************************)
(* The operands and results the instructions are right for.  An operand is *)
(* one row of one array, or one location or literal over and over; literals*)
(* fill their register.  Doubles come four at a time, contiguous or, as    *)
(* operands, at four places of a row.                                      *)
(***************************************************************************)
SameRow(refs) == \A i \in DOMAIN refs : IsElement(refs[i]) /\ refs[i].row = refs[1].row
                                        /\ refs[i].b = refs[1].b

Fills(v) == v.len = v.size

Loadable(v) ==
  \/ v.refs[1].row = Literal /\ v.equal /\ Fills(v)
  \/ v.mem /\ v.equal /\ (v.double => v.size = 4)
  \/ v.mem /\ ~v.equal /\ SameRow(v.refs) /\ (v.double /\ v.contiguous => v.len = 4)

Distinct(refs) == \A i, j \in DOMAIN refs : refs[i] = refs[j] => i = j

(***************************************************************************)
(* A scatter of AVX-512 takes floats that fill the register, and all of    *)
(* them: its offsets are not those of half a register.                     *)
(***************************************************************************)
Singles(v) == Cardinality(GetContiguityRanges(v)) = v.len

HalfScattered(v) == v.size > 4 /\ (SomeHalf(SubOperand(v, v.name, 4, 4, 0))
                                   # SomeHalf(SubOperand(v, v.name, v.len - 4, 4, 4)))

Scatterable(v, avx512) ==
  avx512 /\ ~v.contiguous /\ v.len >= 4 => Fills(v) /\ ~v.double /\ ~HalfScattered(v)

Storable(v, avx512) ==
  /\ SameRow(v.refs) /\ Distinct(v.refs)
  /\ v.double => \/ v.contiguous /\ v.len = 4
                 \/ ~v.contiguous /\ ~SomeHalf(v)
  /\ Scatterable(v, avx512)

-------------------------------------------------------------------------------
(***************************************************************************)
(* Executing an instruction on registers and memory.  Memory holds the     *)
(* cells that were written; touched are the ones that were read or         *)
(* written.                                                                *)
(***************************************************************************)
Read(mem, c) == IF c \in DOMAIN mem THEN mem[c] ELSE Input(c)

LaneOf(regs, r, k) == IF r \in DOMAIN regs /\ k \in DOMAIN regs[r] THEN regs[r][k] ELSE Junk

Rest(m, e, k) ==
  CASE m.kind = "load" -> Zero
    [] m.kind = "keep" -> LaneOf(e.regs, m.reg, k)
    [] OTHER -> Junk

OnLane(fn, args) ==
  IF Len(args) = 1 THEN Function(fn, args[1]) ELSE Apply(fn, args[1], args[2])

Loaded(m, e) ==
  [k \in 0 .. m.w - 1 |->
     CASE m.kind = "low" -> LaneOf(e.regs, m.from[1], k)
       [] m.kind = "high" -> LaneOf(e.regs, m.from[1], k + 4)
       [] m.kind = "op" ->
            OnLane(m.fn, [i \in DOMAIN m.from |-> LaneOf(e.regs, m.from[i], k)])
       [] OTHER -> IF k \in DOMAIN m.cells THEN Read(e.mem, m.cells[k]) ELSE Rest(m, e, k)]

Touched(m) == {m.cells[k] : k \in DOMAIN m.cells}

Stored(m, e) ==
  [c \in Touched(m) |->
     LaneOf(e.regs, m.reg, CHOOSE k \in DOMAIN m.cells : m.cells[k] = c)]

Move(e, m) ==
  IF m.kind = "store"
  THEN [e EXCEPT !.mem = Over(Stored(m, e), @), !.touched = @ \cup Touched(m)]
  ELSE [e EXCEPT !.regs = Over(Only(m.reg, Loaded(m, e)), @), !.touched = @ \cup Touched(m)]

Untouched == [regs |-> Empty, mem |-> Empty, touched |-> {}]
===============================================================================
