------------------------------- MODULE MapsProofs -------------------------------
(***************************************************************************)
(* That the code chosen for a vector operation of type MAP does what the   *)
(* statements it stands for do, for every set of operations: proofs of the *)
(* invariants of module Maps.                                              *)
(*                                                                         *)
(* First what the choices generate (CodeIs): whatever load GetSIMDVOperand *)
(* chooses, cell i goes to lane i (OperandLoads); the stores pieced        *)
(* together by StoreResult, of the whole register or of its halves, cover  *)
(* the result's cells and no other, each from its own lane (ResultStored). *)
(* Then what executing such code does (EnvHolds, carried from one          *)
(* instruction to the next by LoadStep, OperateStep, ExtractStep and       *)
(* StoreStep), and the invariant MapTypeInv /\ MapDataInv that follows.    *)
(***************************************************************************)
EXTENDS Maps, ListProofs, TLAPS

-------------------------------------------------------------------------------
(***************************************************************************)
(* Cells, and the operands made of them.                                   *)
(***************************************************************************)
\* A neighbour is the cell of the same row at its index.
LEMMA BesideIs ==
  ASSUME NEW c \in Cells, NEW k \in Int
  PROVE  /\ Beside(c, k) \in Cells
         /\ \A d \in Cells : d.b = c.b /\ d.row = c.row /\ d.i = c.i + k => d = Beside(c, k)
BY DEF Cells, Beside

\* A tuple of cells is a sequence of that length.
LEMMA CellsOfTuple ==
  ASSUME NEW n \in Nat, NEW refs \in [1 .. n -> Cells]
  PROVE  refs \in Seq(Cells) /\ Len(refs) = n /\ DOMAIN refs = 1 .. n
<1>1. refs = [i \in 1 .. n |-> refs[i]] /\ \A i \in 1 .. n : refs[i] \in Cells
  OBVIOUS
<1>2. refs \in Seq(Cells)
  BY <1>1
<1>3. QED
  BY <1>2, LenProperties

(***************************************************************************)
(* The fields of an operand: its cells and its register, and what the      *)
(* constructor found out about them.                                       *)
(***************************************************************************)
RegisterOf(v, name, refs, n, double) ==
  /\ v.name = name /\ v.refs = refs /\ v.len = n /\ (v.double <=> double)
  /\ v.size = VectorSize(n, double) /\ (v.partial <=> v.size # n)
  /\ (v.low <=> n = 2 /\ v.size = 4) /\ ~v.high
  /\ v.ops = [i \in DOMAIN refs |-> ""]

FoundOut(v, refs, res) ==
  /\ v.mem <=> ~res /\ \E i \in DOMAIN refs : refs[i].row # Literal
  /\ (v.load <=> ~res) /\ (v.store <=> res) /\ ~v.pack
  /\ v.same <=> (v.mem \/ res => AreInSameVector(refs))
  /\ v.idx = IF (v.mem \/ res) /\ v.same THEN GetMemIdx(refs) ELSE <<>>
  /\ (v.contiguous <=> CountsUp(v.idx)) /\ (v.equal <=> AllEqual(refs))

\* An operand has these fields.
LEMMA OperandIs ==
  ASSUME NEW n \in Nat, NEW refs \in [1 .. n -> Cells], NEW double, NEW name, NEW res \in BOOLEAN
  PROVE  LET v == MemoryOperand(name, refs, res, double)
         IN  RegisterOf(v, name, refs, n, double) /\ FoundOut(v, refs, res)
<1> DEFINE v == MemoryOperand(name, refs, res, double)
<1>1. Len(refs) = n
  BY CellsOfTuple
<1>2. RegisterOf(v, name, refs, n, double)
  BY <1>1 DEF MemoryOperand, RegisterOf
<1>3. FoundOut(v, refs, res)
  BY DEF MemoryOperand, FoundOut
<1>4. QED
  BY <1>2, <1>3

\* A register has as many lanes.
Fits(n, double) == double \in BOOLEAN /\ n \in 2 .. 2 * Narrow(double)

\* The registers there are.
LEMMA SizeIs ==
  ASSUME NEW double, NEW n \in Nat, Fits(n, double)
  PROVE  /\ n \in Nat /\ n >= 2 /\ n <= 8 /\ (double => n <= 4)
         /\ VectorSize(n, double) \in {2, 4, 8} /\ n <= VectorSize(n, double)
         /\ VectorSize(n, double) \in Nat
BY DEF Fits, VectorSize, Narrow

\* There is a first place of the least index.
LEMMA LeastIs ==
  ASSUME NEW n \in Nat, n >= 1, NEW f, DOMAIN f = 1 .. n, \A i \in 1 .. n : f[i] \in Int
  PROVE  Least(f) \in 1 .. n /\ \A j \in 1 .. n : f[Least(f)] <= f[j]
<1> DEFINE K == {k \in 0 .. n : k = 0 \/ \E i \in 1 .. k : \A j \in 1 .. k : f[i] <= f[j]}
           M == {i \in 1 .. n : \A j \in 1 .. n : f[i] <= f[j]}
<1>1. ASSUME NEW k \in Nat, k < n, k \in K
      PROVE  k + 1 \in K
  <2>1. CASE k = 0
    BY <1>1, <2>1
  <2>2. CASE k # 0
    <3>1. PICK i \in 1 .. k : \A j \in 1 .. k : f[i] <= f[j]
      BY <1>1, <2>2
    <3>2. \A j \in 1 .. k + 1 : j \in 1 .. k \/ j = k + 1
      BY <1>1
    <3>3. f[i] \in Int /\ f[k + 1] \in Int /\ \A j \in 1 .. k : f[j] \in Int
      BY <1>1
    <3>4. CASE f[i] <= f[k + 1]
      <4>1. \A j \in 1 .. k + 1 : f[i] <= f[j]
        BY <3>1, <3>2, <3>4
      <4>2. i \in 1 .. k + 1 /\ k + 1 \in 0 .. n
        BY <1>1
      <4>3. QED
        BY <4>1, <4>2
    <3>5. CASE ~(f[i] <= f[k + 1])
      <4>1. \A j \in 1 .. k : f[k + 1] <= f[j]
        BY <3>1, <3>3, <3>5
      <4>2. \A j \in 1 .. k + 1 : f[k + 1] <= f[j]
        BY <3>2, <3>3, <4>1
      <4>3. k + 1 \in 1 .. k + 1 /\ k + 1 \in 0 .. n
        BY <1>1
      <4>4. QED
        BY <4>2, <4>3
    <3>6. QED
      BY <3>4, <3>5
  <2>3. QED
    BY <2>1, <2>2
<1>2. n \in K
  <2>1. 0 \in K
    OBVIOUS
  <2> HIDE DEF K
  <2>2. 0 .. n \subseteq K
    BY <1>1, <2>1, InductionUpTo
  <2>3. QED
    BY <2>2
<1>3. M \subseteq Nat /\ M # {}
  BY <1>2
<1>4. PICK i \in M : \A j \in M : i <= j
  <2> HIDE DEF M
  <2>1. QED
    BY <1>3, LeastElement
<1>5. \A j \in 1 .. i - 1 : f[i] # f[j]
  <2>1. SUFFICES ASSUME NEW j \in 1 .. i - 1, f[i] = f[j]
                 PROVE  FALSE
    OBVIOUS
  <2>2. j \in M /\ j < i
    BY <1>4, <2>1
  <2>3. QED
    BY <1>4, <2>2
<1>6. \E k \in DOMAIN f : /\ \A j \in DOMAIN f : f[k] <= f[j]
                          /\ \A j \in 1 .. k - 1 : f[k] # f[j]
  BY <1>4, <1>5
<1>7. QED
  BY <1>6 DEF Least

\* A gather from the least index on reads the cells of one row, in their lanes.
LEMMA GatherIs ==
  ASSUME NEW n \in Nat, n >= 1, NEW refs \in [1 .. n -> Cells], SameRow(refs),
         NEW idx, idx = GetMemIdx(refs)
  PROVE  /\ Least(idx) \in 1 .. n
         /\ DOMAIN FromLeast(idx) = 0 .. n - 1
         /\ \A k \in 0 .. n - 1 : Beside(refs[Least(idx)], FromLeast(idx)[k]) = refs[k + 1]
<1>1. /\ \A i \in 1 .. n : refs[i] \in Cells /\ refs[i].i \in Int
      /\ \A i \in 1 .. n : refs[i].row = refs[1].row /\ refs[i].b = refs[1].b
  BY DEF SameRow, Cells
<1>2. /\ idx = [i \in 1 .. n |-> refs[i].i - refs[1].i] /\ \A i \in 1 .. n : idx[i] \in Int
      /\ DOMAIN idx = 1 .. n /\ idx[1] = 0
  BY <1>1 DEF GetMemIdx
<1>3. Len(idx) = n
  <2>1. idx \in Seq(Int)
    BY <1>2
  <2>2. QED
    BY <1>2, <2>1, LenProperties
<1> HIDE DEF GetMemIdx
<1>4. PICK l \in 1 .. n : l = Least(idx) /\ \A j \in 1 .. n : idx[l] <= idx[j]
  BY <1>2, LeastIs
<1>5. /\ DOMAIN FromLeast(idx) = 0 .. n - 1
      /\ \A k \in 0 .. n - 1 :
           FromLeast(idx)[k] = IF idx[l] < 0 THEN idx[k + 1] - idx[l] ELSE idx[k + 1]
  BY <1>3, <1>4 DEF FromLeast
<1>6. idx[l] <= 0
  BY <1>2, <1>4
<1>7. ASSUME NEW k \in 0 .. n - 1
      PROVE  Beside(refs[l], FromLeast(idx)[k]) = refs[k + 1]
  <2>1. k + 1 \in 1 .. n
    OBVIOUS
  <2>2. refs[k + 1].i \in Int /\ refs[l].i \in Int /\ refs[1].i \in Int
    BY <1>1, <2>1
  <2>3. idx[k + 1] = refs[k + 1].i - refs[1].i /\ idx[l] = refs[l].i - refs[1].i
    BY <1>2, <2>1
  <2>4. FromLeast(idx)[k] = refs[k + 1].i - refs[l].i
    <3>1. CASE idx[l] < 0
      BY <1>5, <2>2, <2>3, <3>1
    <3>2. CASE ~(idx[l] < 0)
      BY <1>5, <1>6, <2>2, <2>3, <3>2
    <3>3. QED
      BY <3>1, <3>2
  <2>5. PICK o \in Int : o = FromLeast(idx)[k] /\ refs[k + 1].i = refs[l].i + o
    BY <2>2, <2>4
  <2>6. PICK c \in Cells, d \in Cells :
          c = refs[l] /\ d = refs[k + 1] /\ d.b = c.b /\ d.row = c.row
    BY <1>1, <2>1
  <2>7. d = Beside(c, o)
    BY <2>5, <2>6, BesideIs
  <2>8. QED
    BY <2>5, <2>6, <2>7
<1>8. QED
  BY <1>4, <1>5, <1>7

\* Indices that count up name the neighbours of the first cell.
LEMMA RowIs ==
  ASSUME NEW n \in Nat, n >= 1, NEW refs \in [1 .. n -> Cells], SameRow(refs),
         CountsUp(GetMemIdx(refs))
  PROVE  \A k \in 0 .. n - 1 : Beside(refs[1], k) = refs[k + 1]
<1> DEFINE idx == GetMemIdx(refs)
<1>1. /\ \A i \in 1 .. n : refs[i] \in Cells /\ refs[i].i \in Int
      /\ \A i \in 1 .. n : refs[i].row = refs[1].row /\ refs[i].b = refs[1].b
  BY DEF SameRow, Cells
<1>2. /\ \A i \in 1 .. n : idx[i] = refs[i].i - refs[1].i
      /\ DOMAIN idx = 1 .. n
  BY <1>1 DEF GetMemIdx
<1> HIDE DEF idx
<1>3. \A i \in 1 .. n : i # 1 => idx[i] = idx[i - 1] + 1
  BY <1>2 DEF CountsUp, idx
<1> DEFINE K == {k \in 0 .. n - 1 : refs[k + 1].i = refs[1].i + k}
<1>4. 0 .. n - 1 \subseteq K
  <2>1. 0 \in K
    BY <1>1
  <2>2. ASSUME NEW k \in Nat, k < n - 1, k \in K
        PROVE  k + 1 \in K
    <3>1. k + 1 \in 1 .. n /\ (k + 1) + 1 \in 1 .. n /\ (k + 1) + 1 # 1 /\ ((k + 1) + 1) - 1 = k + 1
      BY <2>2
    <3>2. idx[(k + 1) + 1] = idx[k + 1] + 1
      BY <1>3, <3>1
    <3>3. refs[(k + 1) + 1].i = refs[1].i + (k + 1)
      BY <1>1, <1>2, <2>2, <3>1, <3>2
    <3>4. QED
      BY <2>2, <3>3
  <2> HIDE DEF K
  <2>3. QED
    BY <2>1, <2>2, InductionUpTo
<1>5. ASSUME NEW k \in 0 .. n - 1
      PROVE  Beside(refs[1], k) = refs[k + 1]
  <2>1. refs[k + 1].i = refs[1].i + k /\ k + 1 \in 1 .. n
    BY <1>4
  <2>2. QED
    BY <1>1, <2>1, BesideIs
<1>6. QED
  BY <1>5

-------------------------------------------------------------------------------
(***************************************************************************)
(* Loads: lane i of the register is loaded from cell i, and no other cell  *)
(* is read.                                                                *)
(***************************************************************************)
LoadsLanes(m, name, refs) ==
  /\ m.kind \in {"load", "keep", "recipe"} /\ m.reg = name /\ m.w \in {2, 4, 8}
  /\ \A i \in DOMAIN refs :
       i - 1 \in DOMAIN m.cells /\ i - 1 \in 0 .. m.w - 1 /\ m.cells[i - 1] = refs[i]
  /\ \A k \in DOMAIN m.cells : \E i \in DOMAIN refs : m.cells[k] = refs[i]

\* An instruction with the cells in their lanes.
LEMMA LoadsLanesIf ==
  ASSUME NEW n \in Nat, NEW refs, DOMAIN refs = 1 .. n, NEW w \in {2, 4, 8}, n <= w,
         NEW cells, NEW name, NEW kind \in {"load", "keep", "recipe"},
         \A k \in 0 .. n - 1 : k \in DOMAIN cells /\ cells[k] = refs[k + 1],
         \A k \in DOMAIN cells : \E i \in 1 .. n : cells[k] = refs[i]
  PROVE  LoadsLanes(Inst(kind, name, w, cells), name, refs)
<1> DEFINE m == Inst(kind, name, w, cells)
<1>1. m.kind = kind /\ m.reg = name /\ m.w = w /\ m.cells = cells
  BY DEF Inst
<1> HIDE DEF m
<1>2. ASSUME NEW i \in 1 .. n
      PROVE  i - 1 \in DOMAIN cells /\ i - 1 \in 0 .. w - 1 /\ cells[i - 1] = refs[i]
  <2>1. i - 1 \in 0 .. n - 1 /\ (i - 1) + 1 = i /\ i - 1 \in 0 .. w - 1
    <3>1. w \in Nat
      OBVIOUS
    <3>2. i \in Nat /\ 1 <= i /\ i <= n
      OBVIOUS
    <3>3. QED
      BY <3>1, <3>2
  <2>2. cells[i - 1] = refs[(i - 1) + 1] /\ i - 1 \in DOMAIN cells
    BY <2>1
  <2>3. QED
    BY <2>1, <2>2
<1>3. LoadsLanes(m, name, refs)
  BY <1>1, <1>2 DEF LoadsLanes
<1>4. QED
  BY <1>3 DEF m

\* An operand of equal cells, by a broadcast or a set.
LEMMA ReplicateLoads ==
  ASSUME NEW n \in Nat, n >= 1, NEW refs, DOMAIN refs = 1 .. n, AllEqual(refs),
         NEW w \in {2, 4, 8}, n <= w, NEW name
  PROVE  LoadsLanes(Inst("load", name, w, Replicate(refs[1], w)), name, refs)
<1> DEFINE cells == Replicate(refs[1], w)
<1>1. DOMAIN cells = 0 .. w - 1 /\ \A k \in 0 .. w - 1 : cells[k] = refs[1]
  BY DEF Replicate
<1> HIDE DEF cells
<1>2. \A k \in 0 .. n - 1 : k \in DOMAIN cells /\ cells[k] = refs[k + 1]
  <2>1. SUFFICES ASSUME NEW k \in 0 .. n - 1
                 PROVE  k \in DOMAIN cells /\ cells[k] = refs[k + 1]
    OBVIOUS
  <2>2. k \in 0 .. w - 1 /\ k + 1 \in 1 .. n
    OBVIOUS
  <2>3. QED
    BY <1>1, <2>2 DEF AllEqual
<1>3. \A k \in DOMAIN cells : \E i \in 1 .. n : cells[k] = refs[i]
  BY <1>1
<1>4. "load" \in {"load", "keep", "recipe"}
  OBVIOUS
<1>5. QED
  BY <1>2, <1>3, <1>4, LoadsLanesIf DEF cells

\* v is an operand of w lanes at these cells.
PlacesOf(v, refs, w) ==
  /\ v.refs = refs /\ v.idx = GetMemIdx(refs) /\ v.size = w
  /\ v.ops = [i \in DOMAIN refs |-> ""]

\* An operand at places of one row, by the recipe for the pattern or a gather.
LEMMA PackLoads ==
  ASSUME NEW n \in Nat, n >= 1, NEW refs \in [1 .. n -> Cells], SameRow(refs),
         NEW w \in {2, 4, 8}, n <= w, NEW v, PlacesOf(v, refs, w), NEW recipe \in BOOLEAN
  PROVE  \E m : Vpack(v, recipe) = <<m>> /\ LoadsLanes(m, v.name, refs)
<1>1. Len(refs) = n /\ DOMAIN refs = 1 .. n /\ \A k \in 0 .. n - 1 : k + 1 \in 1 .. n
  <2>1. \A k \in 0 .. n - 1 : k + 1 \in 1 .. n
    OBVIOUS
  <2>2. QED
    BY <2>1, CellsOfTuple
<1>2. CASE recipe
  <2> DEFINE cells == LanesAt(refs)
  <2>1. DOMAIN cells = 0 .. n - 1 /\ \A k \in 0 .. n - 1 : cells[k] = refs[k + 1]
    BY <1>1 DEF LanesAt
  <2> HIDE DEF cells
  <2>2. \A k \in DOMAIN cells : \E i \in 1 .. n : cells[k] = refs[i]
    BY <1>1, <2>1
  <2>3. "recipe" \in {"load", "keep", "recipe"}
    OBVIOUS
  <2>4. LoadsLanes(Inst("recipe", v.name, w, cells), v.name, refs)
    BY <1>1, <2>1, <2>2, <2>3, LoadsLanesIf
  <2>5. QED
    BY <1>2, <2>4 DEF Vpack, PlacesOf, cells
<1>3. CASE ~recipe
  <2> DEFINE offs == FromLeast(v.idx)
             base == v.refs[Least(v.idx)]
             cells == [k \in DOMAIN offs |-> Beside(base, offs[k])]
  <2>1. /\ Least(v.idx) \in 1 .. n /\ DOMAIN offs = 0 .. n - 1
        /\ \A k \in 0 .. n - 1 : Beside(base, offs[k]) = refs[k + 1]
    <3>1. PICK idx : idx = GetMemIdx(refs)
      OBVIOUS
    <3>2. /\ Least(idx) \in 1 .. n /\ DOMAIN FromLeast(idx) = 0 .. n - 1
          /\ \A k \in 0 .. n - 1 : Beside(refs[Least(idx)], FromLeast(idx)[k]) = refs[k + 1]
      <4>1. n \in Nat /\ n >= 1 /\ refs \in [1 .. n -> Cells] /\ SameRow(refs)
        OBVIOUS
      <4>2. QED
        BY <3>1, <4>1, GatherIs
    <3>3. QED
      BY <3>1, <3>2 DEF PlacesOf
  <2> HIDE DEF offs, base
  <2>2. DOMAIN cells = 0 .. n - 1 /\ \A k \in 0 .. n - 1 : cells[k] = refs[k + 1]
    BY <2>1
  <2>3. Vpack(v, recipe) = <<Inst("load", v.name, w, cells)>>
    <3>1. v.ops[Least(v.idx)] = ""
      BY <1>1, <2>1 DEF PlacesOf
    <3>2. v.size = w
      BY DEF PlacesOf
    <3>3. QED
      BY <1>3, <3>1, <3>2 DEF Vpack, Vgather, offs, base
  <2> HIDE DEF cells
  <2>4. \A k \in DOMAIN cells : \E i \in 1 .. n : cells[k] = refs[i]
    BY <1>1, <2>2
  <2>5. "load" \in {"load", "keep", "recipe"}
    OBVIOUS
  <2>6. LoadsLanes(Inst("load", v.name, w, cells), v.name, refs)
    BY <1>1, <2>2, <2>4, <2>5, LoadsLanesIf
  <2>7. QED
    BY <2>3, <2>6
<1>4. QED
  BY <1>2, <1>3

\* Neighbours, by a load.
LEMMA RowLoads ==
  ASSUME NEW double, NEW n \in Nat, Fits(n, double),
         NEW refs \in [1 .. n -> Cells], SameRow(refs), CountsUp(GetMemIdx(refs)),
         NEW v, NEW name, RegisterOf(v, name, refs, n, double), double => n = 4
  PROVE  \E m : Vload(v) = <<m>> /\ LoadsLanes(m, name, refs)
<1>1. /\ n >= 2 /\ n \in Nat /\ DOMAIN refs = 1 .. n
      /\ v.name = name /\ v.refs = refs /\ v.len = n /\ (v.double <=> double)
      /\ (v.partial <=> v.size # n)
  BY SizeIs DEF RegisterOf
<1>2. \A k \in 0 .. n - 1 : Beside(refs[1], k) = refs[k + 1]
  BY <1>1, RowIs
<1>3. PICK w \in {2, 4, 8} : v.size = w /\ n <= w
  <2>1. VectorSize(n, double) \in {2, 4, 8} /\ n <= VectorSize(n, double)
    BY SizeIs
  <2>2. QED
    BY <2>1 DEF RegisterOf
<1>4. \A o : /\ DOMAIN Row(refs[1], o) = 0 .. o - 1
             /\ \A k \in 0 .. o - 1 : Row(refs[1], o)[k] = Beside(refs[1], k)
  BY DEF Row
<1>5. \A k \in 0 .. n - 1 : k + 1 \in 1 .. n
  BY <1>1
<1>6. CASE double
  <2> DEFINE cells == Over(Row(refs[1], 2), [k \in 2 .. 3 |-> Beside(refs[3], k - 2)])
  <2>1. n = 4
    BY <1>6
  <2>2. Beside(refs[3], 0) = refs[3] /\ Beside(refs[3], 1) = refs[4]
    <3>1. PICK c \in Cells, d \in Cells, e \in Cells : c = refs[1] /\ d = refs[3] /\ e = refs[4]
      BY <2>1
    <3>2. Beside(c, 2) = refs[2 + 1] /\ Beside(c, 3) = refs[3 + 1]
      BY <1>2, <2>1, <3>1
    <3>3. d = Beside(c, 2) /\ e = Beside(c, 3)
      BY <3>1, <3>2
    <3>4. c.i \in Int /\ d.b = c.b /\ d.row = c.row /\ d.i = c.i + 2
      BY <3>1, <3>3 DEF Beside, Cells
    <3>5. e.b = c.b /\ e.row = c.row /\ e.i = c.i + 3
      BY <3>1, <3>3 DEF Beside, Cells
    <3>6. d = Beside(d, 0) /\ e = Beside(d, 1)
      <4>1. d.i = d.i + 0 /\ e.i = d.i + 1
        BY <3>4, <3>5
      <4>2. 0 \in Int /\ 1 \in Int /\ d \in Cells /\ e \in Cells
        OBVIOUS
      <4>3. d = Beside(d, 0)
        BY <4>1, <4>2, BesideIs
      <4>4. e = Beside(d, 1)
        <5>1. e.b = d.b /\ e.row = d.row /\ e.i = d.i + 1
          BY <3>4, <3>5, <4>1
        <5>2. QED
          BY <4>2, <5>1, BesideIs
      <4>5. QED
        BY <4>3, <4>4
    <3>7. QED
      BY <3>1, <3>6
  <2>3. DOMAIN cells = 0 .. 3
    BY <1>4 DEF Over
  <2>4. /\ cells[0] = Beside(refs[1], 0) /\ cells[1] = Beside(refs[1], 1)
        /\ cells[2] = Beside(refs[3], 0) /\ cells[3] = Beside(refs[3], 1)
    BY <1>4 DEF Over
  <2> HIDE DEF cells
  <2>5. cells[0] = refs[1] /\ cells[1] = refs[2] /\ cells[2] = refs[3] /\ cells[3] = refs[4]
    <3>1. Beside(refs[1], 0) = refs[0 + 1] /\ Beside(refs[1], 1) = refs[1 + 1]
      BY <1>2, <2>1
    <3>2. 0 + 1 = 1 /\ 1 + 1 = 2
      OBVIOUS
    <3>3. QED
      BY <2>2, <2>4, <3>1, <3>2
  <2>6. \A k \in 0 .. n - 1 : k \in DOMAIN cells /\ cells[k] = refs[k + 1]
    <3>1. SUFFICES ASSUME NEW k \in 0 .. 3
                   PROVE  k \in DOMAIN cells /\ cells[k] = refs[k + 1]
      BY <2>1
    <3>2. \/ (k = 0 /\ k + 1 = 1) \/ (k = 1 /\ k + 1 = 2)
          \/ (k = 2 /\ k + 1 = 3) \/ (k = 3 /\ k + 1 = 4)
      OBVIOUS
    <3>3. QED
      BY <2>3, <2>5, <3>2
  <2>7. \A k \in DOMAIN cells : \E i \in 1 .. n : cells[k] = refs[i]
    BY <1>5, <2>1, <2>3, <2>6
  <2>8. "load" \in {"load", "keep", "recipe"} /\ 4 \in {2, 4, 8} /\ n <= 4
    BY <2>1
  <2>9. LoadsLanes(Inst("load", name, 4, cells), name, refs)
    BY <1>1, <2>6, <2>7, <2>8, LoadsLanesIf
  <2>10. Vload(v) = <<Inst("load", name, 4, cells)>>
    BY <1>1, <1>6, <2>1 DEF Vload, cells
  <2>11. QED
    BY <2>9, <2>10
<1>7. CASE ~double
  <2> DEFINE kind == IF v.partial /\ n = 2 THEN "keep" ELSE "load"
             cells == Row(refs[1], n)
  <2>1. Vload(v) = <<Inst(kind, name, w, cells)>>
    <3>1. CASE v.partial /\ n = 2
      BY <1>1, <1>3, <1>7, <3>1 DEF Vload
    <3>2. CASE v.partial /\ n # 2
      BY <1>1, <1>3, <1>7, <3>2 DEF Vload, Masked
    <3>3. CASE ~v.partial
      <4>1. w = n
        BY <1>1, <1>3, <3>3
      <4>2. QED
        BY <1>1, <1>3, <1>7, <3>3, <4>1 DEF Vload
    <3>4. QED
      BY <3>1, <3>2, <3>3
  <2>2. kind \in {"load", "keep", "recipe"}
    OBVIOUS
  <2>3. DOMAIN cells = 0 .. n - 1 /\ \A k \in 0 .. n - 1 : cells[k] = refs[k + 1]
    BY <1>2, <1>4
  <2> HIDE DEF cells, kind
  <2>4. \A k \in DOMAIN cells : \E i \in 1 .. n : cells[k] = refs[i]
    BY <1>5, <2>3
  <2>5. LoadsLanes(Inst(kind, name, w, cells), name, refs)
    <3>1. DOMAIN refs = 1 .. n
      BY <1>1
    <3>2. n <= w /\ w \in {2, 4, 8}
      BY <1>3
    <3>3. QED
      BY <2>2, <2>3, <2>4, <3>1, <3>2, LoadsLanesIf
  <2>6. QED
    BY <2>1, <2>5
<1>8. QED
  BY <1>6, <1>7

\* An operand that can be loaded is, by one instruction.
LEMMA OperandLoads ==
  ASSUME NEW double, NEW n \in Nat, Fits(n, double),
         NEW refs \in [1 .. n -> Cells], NEW name, NEW recipe \in BOOLEAN,
         NEW v, RegisterOf(v, name, refs, n, double), FoundOut(v, refs, FALSE), Loadable(v)
  PROVE  \E m : GetSIMDVOperand(v, recipe) = <<m>> /\ LoadsLanes(m, name, refs)
<1>1. /\ n \in Nat /\ n >= 2 /\ n <= VectorSize(n, double) /\ VectorSize(n, double) \in {2, 4, 8}
      /\ DOMAIN refs = 1 .. n
  BY SizeIs
<1>2. RegisterOf(v, name, refs, n, double) /\ FoundOut(v, refs, FALSE)
  OBVIOUS
<1>3. PICK w \in {2, 4, 8} : v.size = w /\ n <= w /\ (v.partial <=> w # n)
  BY <1>1, <1>2 DEF RegisterOf
<1>4. 1 \in 1 .. n /\ 2 \in 1 .. n
  BY <1>1
<1>5. CASE v.equal
  <2> DEFINE m == Inst("load", name, w, Replicate(refs[1], w))
  <2>1. AllEqual(refs) /\ LoadsLanes(m, name, refs)
    <3>1. AllEqual(refs)
      BY <1>2, <1>5 DEF FoundOut
    <3>2. n >= 1
      BY <1>1
    <3>3. QED
      BY <1>1, <1>3, <3>1, <3>2, ReplicateLoads
  <2>2. v.refs = refs /\ v.name = name /\ v.size = w /\ (v.double <=> double)
    BY <1>2, <1>3 DEF RegisterOf
  <2>3. Vset(v) = <<m>>
    BY <1>5, <2>2 DEF Vset
  <2>4. v.load /\ ~v.pack
    BY <1>2 DEF FoundOut
  <2>5. CASE v.mem
    <3>1. refs[1].row # Literal
      BY <1>1, <1>2, <1>4, <2>1, <2>5 DEF AllEqual, FoundOut
    <3>2. v.double => w = 4
      BY <1>5, <2>2, <2>5, <3>1 DEF Loadable
    <3>3. ~(v.double /\ v.size = 2)
      <4>1. v.size = w
        BY <2>2
      <4>2. ASSUME v.double, v.size = 2
            PROVE  FALSE
        <5>1. w = 4
          BY <3>2, <4>2
        <5>2. w = 2
          BY <4>1, <4>2
        <5>3. QED
          BY <5>1, <5>2
      <4>3. QED
        BY <4>2
    <3>5. Vbcast(v) = <<m>>
      BY <2>2, <3>3 DEF Vbcast
    <3>4. QED
      BY <1>5, <2>1, <2>3, <2>4, <2>5, <3>5 DEF GetSIMDVOperand
  <2>6. CASE ~v.mem
    <3>1. v.len = w
      BY <1>5, <2>2, <2>6 DEF Loadable, Fills
    <3>2. ~v.partial
      BY <1>2, <1>3, <3>1 DEF RegisterOf
    <3>3. QED
      BY <1>5, <2>1, <2>3, <2>4, <2>6, <3>2 DEF GetSIMDVOperand
  <2>7. QED
    BY <2>5, <2>6
<1>6. CASE ~v.equal
  <2>1. v.mem /\ SameRow(refs) /\ (v.double /\ v.contiguous => n = 4)
    BY <1>2, <1>6 DEF Loadable, FoundOut, RegisterOf
  <2>2. v.same /\ v.idx = GetMemIdx(refs)
    <3>1. AreInSameVector(refs)
      BY <2>1 DEF AreInSameVector, SameRow
    <3>2. QED
      BY <1>2, <2>1, <3>1 DEF FoundOut
  <2>8. v.load /\ ~v.pack /\ (v.contiguous <=> CountsUp(v.idx)) /\ (v.double <=> double)
    BY <1>2 DEF FoundOut, RegisterOf
  <2>3. CASE v.contiguous
    <3>1. GetSIMDVOperand(v, recipe) = Vload(v)
      BY <1>6, <2>1, <2>8, <2>3 DEF GetSIMDVOperand
    <3>2. CountsUp(GetMemIdx(refs)) /\ (double => n = 4)
      BY <2>1, <2>2, <2>3, <2>8
    <3>3. \E m : Vload(v) = <<m>> /\ LoadsLanes(m, name, refs)
      <4>1. RegisterOf(v, name, refs, n, double)
        BY <1>2
      <4>2. SameRow(refs)
        BY <2>1
      <4>3. QED
        BY <3>2, <4>1, <4>2, RowLoads
    <3>4. QED
      BY <3>1, <3>3
  <2>4. CASE ~v.contiguous
    <3>1. GetSIMDVOperand(v, recipe) = Vpack(v, recipe)
      BY <1>6, <2>1, <2>2, <2>4, <2>8 DEF GetSIMDVOperand
    <3>2. PlacesOf(v, refs, w) /\ v.name = name
      BY <1>2, <1>3, <2>2 DEF PlacesOf, RegisterOf
    <3>3. n >= 1
      BY <1>1
    <3>4. \E m : Vpack(v, recipe) = <<m>> /\ LoadsLanes(m, v.name, refs)
      BY <1>1, <1>3, <2>1, <3>2, <3>3, PackLoads
    <3>5. QED
      BY <3>1, <3>2, <3>4
  <2>5. QED
    BY <2>3, <2>4
<1>7. QED
  BY <1>5, <1>6

-------------------------------------------------------------------------------
(***************************************************************************)
(* The ranges of a result, and its parts.                                  *)
(***************************************************************************)
\* Where a range that ends before place b starts.
LEMMA StartIs ==
  ASSUME NEW breaks, breaks \subseteq Nat, NEW b \in Nat
  PROVE  LET from == Max({0} \cup {i \in breaks : i < b})
         IN  /\ from \in Nat /\ (from = 0 \/ (from \in breaks /\ from < b))
             /\ \A i \in breaks : i < b => i <= from
<1> DEFINE L == {0} \cup {i \in breaks : i < b}
<1>2. \A y \in L : y \in Nat /\ (y = 0 \/ (y \in breaks /\ y < b))
  OBVIOUS
<1>3. 0 \in L /\ \A i \in breaks : i < b => i \in L
  OBVIOUS
<1> HIDE DEF L
<1>1. L \subseteq Int /\ L # {} /\ \A y \in L : y <= b
  BY <1>2, <1>3
<1>4. \E x \in L : \A y \in L : y <= x
  <2>1. PICK c \in Int : c = b
    OBVIOUS
  <2>2. \A y \in L : y <= c
    BY <1>1, <2>1
  <2>3. L \subseteq Int /\ L # {}
    BY <1>1
  <2>4. QED
    BY <2>2, <2>3, GreatestElement
<1>5. \E x \in L : \A y \in L : x >= y
  BY <1>1, <1>4
<1>6. Max(L) \in L /\ \A y \in L : Max(L) >= y
  BY <1>5 DEF Max
<1>7. \A i \in breaks : i < b => i <= Max(L)
  BY <1>1, <1>3, <1>6
<1>8. Max(L) \in Nat /\ (Max(L) = 0 \/ (Max(L) \in breaks /\ Max(L) < b))
  BY <1>2, <1>6
<1>9. QED
  BY <1>7, <1>8 DEF L

\* The whole of four places, or a half of them, that is one range counts up.
LEMMA HalvesMean ==
  ASSUME NEW v, NEW n \in 1 .. 4, v.len = n, v.size = 4,
         \A i \in 1 .. n : v.idx[i] \in Int
  PROVE  /\ Halves(v).full => n = 4 /\ \A i \in 1 .. 3 : v.idx[i] + 1 = v.idx[i + 1]
         /\ Halves(v).first => n >= 2 /\ v.idx[1] + 1 = v.idx[2]
         /\ Halves(v).second => n = 4 /\ v.idx[3] + 1 = v.idx[4]
<1> DEFINE breaks == {i \in 1 .. n - 1 : v.idx[i] + 1 # v.idx[i + 1]}
           from(b) == Max({0} \cup {i \in breaks : i < b})
<1>1. breaks \subseteq Nat /\ \A b \in breaks : b >= 1 /\ b <= n - 1
  OBVIOUS
<1>2. \A b \in Nat : /\ from(b) \in Nat /\ (from(b) = 0 \/ (from(b) \in breaks /\ from(b) < b))
                     /\ \A i \in breaks : i < b => i <= from(b)
  <2> HIDE DEF breaks
  <2>1. QED
    BY <1>1, StartIs
<1>3. \A x, y : <<x, y>> \in GetContiguityRanges(v) =>
         \/ \E b \in breaks : x = from(b) /\ y = b - 1
         \/ x = 4 - (n - from(n)) /\ y = 3
  <2>1. GetContiguityRanges(v)
          = {<<from(b), b - 1>> : b \in breaks} \cup {<<4 - (n - from(n)), 4 - 1>>}
    BY DEF GetContiguityRanges
  <2> HIDE DEF breaks, from
  <2>2. QED
    BY <2>1
<1>4. \A i \in 1 .. n - 1 : i \notin breaks => v.idx[i] + 1 = v.idx[i + 1]
  OBVIOUS
<1> HIDE DEF breaks, from
<1>14. \A y : <<0, y>> \in GetContiguityRanges(v) =>
         \/ \E b \in breaks : 0 = from(b) /\ y = b - 1
         \/ 0 = 4 - (n - from(n)) /\ y = 3
  BY <1>3
<1>15. \A y : <<2, y>> \in GetContiguityRanges(v) =>
         \/ \E b \in breaks : 2 = from(b) /\ y = b - 1
         \/ 2 = 4 - (n - from(n)) /\ y = 3
  BY <1>3
<1>5. n \in Nat /\ n - 1 \in Int /\ from(n) \in Nat
  BY <1>2
<1>6. ASSUME <<0, n - 1>> \in GetContiguityRanges(v)
      PROVE  n = 4 /\ \A i \in 1 .. 3 : i \notin breaks
  <2>1. \A b \in breaks : b - 1 # n - 1
    BY <1>1, <1>5
  <2>2. 0 = 4 - (n - from(n)) /\ n - 1 = 3
    BY <1>14, <1>6, <2>1
  <2>3. n = 4 /\ from(4) = 0
    BY <1>5, <2>2
  <2>4. \A i \in breaks : i < 4 => i <= 0
    BY <1>2, <2>3
  <2>5. QED
    BY <1>1, <2>3, <2>4
<1>7. ASSUME <<0, 1>> \in GetContiguityRanges(v)
      PROVE  n >= 2 /\ 1 \notin breaks /\ 1 \in 1 .. n - 1
  <2>1. PICK b \in breaks : 0 = from(b) /\ 1 = b - 1
    <3>1. \/ \E b \in breaks : 0 = from(b) /\ 1 = b - 1
          \/ 0 = 4 - (n - from(n)) /\ 1 = 3
      BY <1>14, <1>7
    <3>2. QED
      BY <3>1
  <2>2. b = 2 /\ 2 \in breaks
    BY <1>1, <2>1
  <2>3. \A i \in breaks : i < 2 => i <= 0
    BY <1>2, <2>1, <2>2
  <2>4. QED
    BY <1>1, <2>2, <2>3
<1>8. ASSUME <<2, 3>> \in GetContiguityRanges(v), n = 4
      PROVE  3 \notin breaks
  <2>1. \A b \in breaks : b - 1 # 3
    BY <1>1, <1>8
  <2>2. from(4) = 2
    <3>1. 2 = 4 - (4 - from(4))
      BY <1>15, <1>8, <2>1
    <3>2. QED
      BY <1>5, <1>8, <3>1
  <2>3. \A i \in breaks : i < 4 => i <= 2
    BY <1>2, <2>2
  <2>4. QED
    BY <2>3
<1>9. /\ Halves(v).full <=> <<0, n - 1>> \in GetContiguityRanges(v)
      /\ Halves(v).first <=> <<0, 1>> \in GetContiguityRanges(v)
      /\ Halves(v).second <=> <<2, 3>> \in GetContiguityRanges(v) /\ n = 4
  <2>1. v.len = n /\ ~(n > 4) /\ 2 - 1 = 1 /\ 2 * 2 - 1 = 3
    OBVIOUS
  <2>2. ~(v.len > 4)
    BY <2>1
  <2>3. Halves(v).full <=> <<0, v.len - 1>> \in GetContiguityRanges(v)
    BY <2>2 DEF Halves
  <2>4. Halves(v).first <=> <<0, 2 - 1>> \in GetContiguityRanges(v)
    BY <2>2 DEF Halves
  <2>5. Halves(v).second <=> <<2, 2 * 2 - 1>> \in GetContiguityRanges(v) /\ v.len = 4
    BY <2>2 DEF Halves
  <2>6. QED
    BY <2>1, <2>3, <2>4, <2>5
<1>10. ASSUME Halves(v).full
       PROVE  n = 4 /\ \A i \in 1 .. 3 : v.idx[i] + 1 = v.idx[i + 1]
  <2>1. n = 4 /\ \A i \in 1 .. 3 : i \notin breaks
    BY <1>6, <1>9, <1>10
  <2>2. QED
    BY <1>4, <2>1
<1>11. ASSUME Halves(v).first
       PROVE  n >= 2 /\ v.idx[1] + 1 = v.idx[2]
  BY <1>4, <1>7, <1>9, <1>11
<1>12. ASSUME Halves(v).second
       PROVE  n = 4 /\ v.idx[3] + 1 = v.idx[4]
  <2>1. n = 4 /\ 3 \notin breaks
    BY <1>8, <1>9, <1>12
  <2>2. QED
    BY <1>4, <2>1
<1>13. QED
  BY <1>10, <1>11, <1>12

OperandFields == {"name", "refs", "len", "size", "idx", "same", "contiguous", "equal", "partial",
                  "low", "high", "mem", "load", "store", "pack", "double", "ops"}

\* u is the part of v that holds its len lanes behind the first o.
IsPart(u, v, name, len, size, o, last) ==
  /\ DOMAIN u = OperandFields
  /\ u.name = name /\ u.len = len /\ u.size = size /\ (u.partial <=> len # size)
  /\ (u.low <=> o % 4 = 0) /\ (u.high <=> o % 4 # 0)
  /\ u.double = v.double /\ u.equal = v.equal
  /\ u.refs = SubSeq(v.refs, o + 1, last) /\ u.idx = SubSeq(v.idx, o + 1, last)

\* A part of an operand has these fields.
LEMMA PartIs ==
  ASSUME NEW v, DOMAIN v = OperandFields, NEW name, NEW len, NEW size, NEW o \in Nat,
         NEW last, last = IF o + size < Len(v.refs) THEN o + size ELSE Len(v.refs)
  PROVE  IsPart(SubOperand(v, name, len, size, o), v, name, len, size, o, last)
BY DEF SubOperand, OperandFields, IsPart

-------------------------------------------------------------------------------
(***************************************************************************)
(* Stores from the n lanes of a register, which are to go to the cells     *)
(* behind the first o of refs; those of the lanes in I are stored.         *)
(***************************************************************************)
Puts(m, reg, refs, o, n) ==
  /\ m.kind = "store" /\ m.reg = reg /\ m.w \in {2, 4, 8}
  /\ \A k \in DOMAIN m.cells : k \in 0 .. n - 1 /\ m.cells[k] = refs[o + k + 1]

\* Every instruction of ss is such a store, and together they store the lanes in I.
PutsAll(ss, reg, refs, o, n, I) ==
  /\ ss \in Seq(Members(ss))
  /\ \A m \in Members(ss) : Puts(m, reg, refs, o, n)
  /\ \A k \in I : \E m \in Members(ss) : k \in DOMAIN m.cells

\* Code without stores, and with one.
LEMMA PutsFew ==
  ASSUME NEW reg, NEW refs, NEW o, NEW n
  PROVE  /\ PutsAll(<<>>, reg, refs, o, n, {})
         /\ \A m : Puts(m, reg, refs, o, n) => PutsAll(<<m>>, reg, refs, o, n, DOMAIN m.cells)
<1>1. Members(<<>>) = {} /\ <<>> \in Seq(Members(<<>>))
  BY FewMembers
<1>2. \A m : Members(<<m>>) = {m} /\ <<m>> \in Seq({m})
  <2>1. \A m : m \in {m}
    OBVIOUS
  <2>2. QED
    BY <2>1, FewMembers
<1>3. PutsAll(<<>>, reg, refs, o, n, {})
  BY <1>1 DEF PutsAll
<1>4. ASSUME NEW m, Puts(m, reg, refs, o, n)
      PROVE  PutsAll(<<m>>, reg, refs, o, n, DOMAIN m.cells)
  <2>1. Members(<<m>>) = {m} /\ <<m>> \in Seq({m})
    BY <1>2
  <2>2. QED
    BY <1>4, <2>1 DEF PutsAll
<1>5. QED
  BY <1>3, <1>4

\* Two pieces of code, one after the other.
LEMMA JoinedMembers ==
  ASSUME NEW s, NEW t, s \in Seq(Members(s)), t \in Seq(Members(t))
  PROVE  /\ s \o t \in Seq(Members(s \o t)) /\ Members(s \o t) = Members(s) \cup Members(t)
         /\ Len(s) \in Nat /\ Len(t) \in Nat /\ Len(s \o t) = Len(s) + Len(t)
         /\ DOMAIN s = 1 .. Len(s) /\ DOMAIN t = 1 .. Len(t)
         /\ \A i \in 1 .. Len(s) : (s \o t)[i] = s[i]
         /\ \A i \in 1 .. Len(t) : (s \o t)[Len(s) + i] = t[i]
<1> DEFINE S == Members(s) \cup Members(t)
<1>1. s \in Seq(S) /\ t \in Seq(S)
  <2>1. Members(s) \subseteq S /\ Members(t) \subseteq S
    OBVIOUS
  <2> HIDE DEF S
  <2>2. QED
    BY <2>1, SeqOfMembers
<1>2. s \o t \in Seq(S) /\ Members(s \o t) = S
  BY <1>1, ConcatMembers
<1> HIDE DEF S
<1>3. /\ Len(s) \in Nat /\ Len(t) \in Nat /\ Len(s \o t) = Len(s) + Len(t)
      /\ DOMAIN s = 1 .. Len(s) /\ DOMAIN t = 1 .. Len(t)
      /\ \A i \in 1 .. Len(s) + Len(t) : (s \o t)[i] =
                     IF i <= Len(s) THEN s[i] ELSE t[i - Len(s)]
  BY <1>1, LenProperties, ConcatProperties
<1>4. \A i \in 1 .. Len(s) : (s \o t)[i] = s[i]
  BY <1>3
<1>5. ASSUME NEW i \in 1 .. Len(t)
      PROVE  (s \o t)[Len(s) + i] = t[i]
  <2>1. Len(s) + i \in 1 .. Len(s) + Len(t) /\ ~(Len(s) + i <= Len(s)) /\ (Len(s) + i) - Len(s) = i
    BY <1>3
  <2>2. QED
    BY <1>3, <2>1
<1>6. s \o t \in Seq(Members(s \o t)) /\ Members(s \o t) = Members(s) \cup Members(t)
  BY <1>2 DEF S
<1>7. QED
  BY <1>3, <1>4, <1>5, <1>6

\* Stores before and after stores put the lanes of both.
LEMMA PutsConcat ==
  ASSUME NEW reg, NEW refs, NEW o, NEW n, NEW s, NEW I, PutsAll(s, reg, refs, o, n, I),
         NEW t, NEW J, PutsAll(t, reg, refs, o, n, J)
  PROVE  PutsAll(s \o t, reg, refs, o, n, I \cup J)
<1>1. s \in Seq(Members(s)) /\ t \in Seq(Members(t))
  BY DEF PutsAll
<1>2. s \o t \in Seq(Members(s \o t)) /\ Members(s \o t) = Members(s) \cup Members(t)
  BY <1>1, JoinedMembers
<1>3. QED
  BY <1>2 DEF PutsAll

\* Stores of single elements.
LEMMA ElementsPut ==
  ASSUME NEW v, NEW reg, v.name = reg, v.size \in {2, 4, 8}, NEW refs, NEW o \in Nat,
         NEW n \in Nat, NEW first \in Nat, NEW last \in Int, first <= last + 1, last <= n - 1,
         \A i \in first .. last : v.refs[i + 1] = refs[o + i + 1]
  PROVE  PutsAll(StoreElements(v, first, last), reg, refs, o, n, first .. last)
<1> DEFINE N == last - first + 1
           e(k) == Inst("store", v.name, v.size, Only(first + k - 1, v.refs[first + k]))
           ss == [k \in 1 .. N |-> e(k)]
<1>1. N \in Nat /\ StoreElements(v, first, last) = ss
  BY DEF StoreElements
<1>2. ASSUME NEW k \in 1 .. N
      PROVE  Puts(e(k), reg, refs, o, n) /\ DOMAIN e(k).cells = {first + k - 1}
  <2>1. first + k - 1 \in first .. last /\ (first + k - 1) + 1 = first + k
    OBVIOUS
  <2>2. v.refs[first + k] = refs[o + (first + k - 1) + 1] /\ first + k - 1 \in 0 .. n - 1
    BY <2>1
  <2>3. /\ e(k).kind = "store" /\ e(k).reg = reg /\ e(k).w = v.size
        /\ e(k).cells = Only(first + k - 1, v.refs[first + k])
    BY DEF Inst
  <2> HIDE DEF e
  <2>4. /\ DOMAIN e(k).cells = {first + k - 1}
        /\ e(k).cells[first + k - 1] = refs[o + (first + k - 1) + 1]
    BY <2>2, <2>3 DEF Only
  <2>5. QED
    BY <2>2, <2>3, <2>4 DEF Puts
<1> HIDE DEF e
<1>3. ss \in Seq(Members(ss)) /\ Members(ss) = {e(k) : k \in 1 .. N}
  <2>1. DOMAIN ss = 1 .. N /\ \A k \in 1 .. N : ss[k] = e(k)
    OBVIOUS
  <2>2. Members(ss) = {e(k) : k \in 1 .. N}
    BY <2>1 DEF Members
  <2>3. \A k \in 1 .. N : e(k) \in Members(ss)
    BY <2>2
  <2> DEFINE S == Members(ss)
  <2>4. \A k \in 1 .. N : e(k) \in S
    BY <2>3
  <2> HIDE DEF S, N
  <2>5. [k \in 1 .. N |-> e(k)] \in Seq(S)
    BY <1>1, <2>4
  <2>6. QED
    BY <2>2, <2>5 DEF S
<1>4. \A i \in first .. last : \E m \in Members(ss) : i \in DOMAIN m.cells
  <2>1. SUFFICES ASSUME NEW i \in first .. last
                 PROVE  \E m \in Members(ss) : i \in DOMAIN m.cells
    OBVIOUS
  <2>2. PICK k \in 1 .. N : k = i - first + 1 /\ i = first + k - 1
    OBVIOUS
  <2> HIDE DEF N, ss
  <2>3. e(k) \in Members(ss) /\ i \in DOMAIN e(k).cells
    BY <1>2, <1>3, <2>2
  <2>4. QED
    BY <2>3
<1>5. \A m \in Members(ss) : Puts(m, reg, refs, o, n)
  <2> HIDE DEF ss, N
  <2>1. QED
    BY <1>2, <1>3
<1> HIDE DEF ss, N
<1>6. PutsAll(ss, reg, refs, o, n, first .. last)
  BY <1>3, <1>4, <1>5 DEF PutsAll
<1>7. QED
  BY <1>1, <1>6

(***************************************************************************)
(* u is a result of n floats, or a part of one, in register reg, whose     *)
(* cells are those behind the first o of refs.                             *)
(***************************************************************************)
Shows(u, reg, refs, o, n) ==
  /\ DOMAIN u = OperandFields /\ u.name = reg /\ u.len = n
  /\ ~u.double /\ ~u.equal /\ (u.partial <=> n # u.size)
  /\ u.refs \in [1 .. n -> Cells] /\ u.idx \in [1 .. n -> Int]
  /\ \A i \in 1 .. n : u.refs[i] = refs[o + i] /\ u.idx[i] = refs[o + i].i - refs[1].i

\* Two places whose indices differ by d are d cells from each other.
LEMMA PlaceIs ==
  ASSUME NEW N \in Nat, NEW refs \in [1 .. N -> Cells], SameRow(refs),
         NEW o \in Nat, NEW n \in Nat, n >= 1, o + n <= N, NEW u, NEW reg, Shows(u, reg, refs, o, n),
         NEW i \in 1 .. n, NEW j \in 1 .. n, NEW d \in Int, u.idx[j] = u.idx[i] + d
  PROVE  Beside(u.refs[i], d) = refs[o + j]
<1>1. o + i \in 1 .. N /\ o + j \in 1 .. N /\ 1 \in 1 .. N
  OBVIOUS
<1>2. PICK c \in Cells, e \in Cells, f \in Cells :
        c = refs[o + i] /\ e = refs[o + j] /\ f = refs[1]
  BY <1>1
<1>3. u.refs[i] = c /\ u.idx[i] = c.i - f.i /\ u.idx[j] = e.i - f.i
  BY <1>2 DEF Shows
<1>4. c.i \in Int /\ e.i \in Int /\ f.i \in Int
  BY DEF Cells
<1>5. e.i = c.i + d
  <2>1. e.i - f.i = (c.i - f.i) + d
    BY <1>3
  <2>2. PICK x \in Int, y \in Int, z \in Int : x = e.i /\ y = c.i /\ z = f.i
    BY <1>4
  <2>3. x - z = (y - z) + d
    BY <2>1, <2>2
  <2>4. x = y + d
    BY <2>3
  <2>5. QED
    BY <2>2, <2>4
<1>6. e.b = c.b /\ e.row = c.row
  BY <1>1, <1>2, CellsOfTuple DEF SameRow
<1>7. e = Beside(c, d)
  BY <1>5, <1>6, BesideIs
<1>8. QED
  BY <1>2, <1>3, <1>7

\* Half of four places that is contiguous is stored as such.
LEMMA HalfPuts ==
  ASSUME NEW N \in Nat, NEW refs \in [1 .. N -> Cells], SameRow(refs),
         NEW o \in Nat, NEW n \in Nat, o + n <= N, n <= 4,
         NEW u, NEW reg, Shows(u, reg, refs, o, n),
         NEW h \in {0, 2}, h + 2 <= n, u.idx[h + 1] + 1 = u.idx[h + 2]
  PROVE  PutsAll(Vstore(SubOperand(u, u.name, 2, 4, h)), reg, refs, o, n, {h, h + 1})
<1>1. n >= 1 /\ h \in Nat /\ h + 1 \in 1 .. n /\ h + 2 \in 1 .. n
  OBVIOUS
<1>2. Len(u.refs) = n
  BY CellsOfTuple DEF Shows
<1>13. PICK s : s = SubOperand(u, u.name, 2, 4, h)
  OBVIOUS
<1>3. /\ s.name = reg /\ s.len = 2 /\ s.size = 4 /\ s.partial
      /\ (s.low <=> h % 4 = 0) /\ (s.high <=> h % 4 # 0)
      /\ ~s.double /\ ~s.equal /\ s.refs[1] = u.refs[h + 1]
  <2> DEFINE last == IF h + 4 < Len(u.refs) THEN h + 4 ELSE Len(u.refs)
  <2>1. DOMAIN u = OperandFields /\ u.name = reg /\ ~u.double /\ ~u.equal
    BY DEF Shows
  <2>2. /\ s.name = reg /\ s.len = 2 /\ s.size = 4 /\ (s.partial <=> 2 # 4)
        /\ (s.low <=> h % 4 = 0) /\ (s.high <=> h % 4 # 0)
        /\ s.double = u.double /\ s.equal = u.equal
        /\ s.refs = SubSeq(u.refs, h + 1, last)
    <3> HIDE DEF last
    <3>1. IsPart(s, u, u.name, 2, 4, h, last)
      BY <1>1, <1>13, <2>1, PartIs DEF last
    <3>2. QED
      BY <2>1, <3>1 DEF IsPart
  <2>3. last = n
    BY <1>1, <1>2
  <2>4. u.refs \in [1 .. n -> Cells]
    BY DEF Shows
  <2> HIDE DEF last
  <2>5. SubSeq(u.refs, h + 1, n)[1] = u.refs[h + 1]
    <3>1. \A i \in h + 1 .. n : u.refs[i] \in Cells
      BY <1>1, <2>4
    <3>2. 1 \in 1 .. n - (h + 1) + 1 /\ (h + 1) + 1 - 1 = h + 1 /\ h + 1 \in Int /\ n \in Int
      BY <1>1
    <3>3. \A i \in 1 .. n - (h + 1) + 1 : SubSeq(u.refs, h + 1, n)[i] = u.refs[(h + 1) + i - 1]
      BY <3>1, <3>2, SubSeqProperties
    <3>4. QED
      BY <3>2, <3>3
  <2>6. s.refs[1] = u.refs[h + 1]
    BY <2>2, <2>3, <2>5
  <2>7. ~s.double /\ ~s.equal /\ s.partial
    BY <2>1, <2>2
  <2>8. QED
    BY <2>2, <2>6, <2>7
<1>4. s.low \/ s.high
  BY <1>3
<1>5. Vstore(s) = StoreHalf(s)
  BY <1>3, <1>4 DEF Vstore
<1> DEFINE cells == [k \in Half(s) |-> Beside(s.refs[1], IF s.low THEN k ELSE k - 2)]
           m == Inst("store", s.name, s.size, cells)
<1>6. Vstore(s) = <<m>>
  BY <1>5 DEF StoreHalf
<1>7. /\ m.kind = "store" /\ m.reg = reg /\ m.w = 4 /\ m.cells = cells
  BY <1>3 DEF Inst
<1>8. /\ Beside(u.refs[h + 1], 0) = refs[o + (h + 1)]
      /\ Beside(u.refs[h + 1], 1) = refs[o + (h + 2)]
  <2>1. u.idx[h + 1] \in Int /\ u.idx[h + 2] \in Int
    BY <1>1 DEF Shows
  <2>2. u.idx[h + 1] = u.idx[h + 1] + 0 /\ u.idx[h + 2] = u.idx[h + 1] + 1
    BY <2>1
  <2>3. 0 \in Int /\ 1 \in Int
    OBVIOUS
  <2>4. PICK i \in 1 .. n, j \in 1 .. n : i = h + 1 /\ j = h + 2
    BY <1>1
  <2>5. u.idx[i] = u.idx[i] + 0 /\ u.idx[j] = u.idx[i] + 1
    BY <2>2, <2>4
  <2>6. Beside(u.refs[i], 0) = refs[o + i]
    <3>1. PICK c \in Cells : c = u.refs[i] /\ c = refs[o + i]
      BY DEF Shows
    <3>2. c.i \in Int /\ c.i = c.i + 0
      BY DEF Cells
    <3>3. c = Beside(c, 0)
      BY <2>3, <3>2, BesideIs
    <3>4. QED
      BY <3>1, <3>3
  <2>7. Beside(u.refs[i], 1) = refs[o + j]
    BY <1>1, <2>3, <2>5, PlaceIs
  <2>8. QED
    BY <2>4, <2>6, <2>7
<1>9. /\ DOMAIN cells = {h, h + 1}
      /\ cells[h] = refs[o + h + 1] /\ cells[h + 1] = refs[o + (h + 1) + 1]
  <2>1. CASE h = 0
    <3>1. s.low /\ Half(s) = {0, 1}
      BY <1>3, <2>1 DEF Half
    <3>2. DOMAIN cells = {0, 1} /\ cells[0] = Beside(s.refs[1], 0) /\ cells[1] = Beside(s.refs[1], 1)
      BY <3>1
    <3>3. o + (h + 1) = o + h + 1 /\ o + (h + 2) = o + (h + 1) + 1 /\ h + 1 = 1
      BY <2>1
    <3> HIDE DEF cells
    <3>4. QED
      BY <1>3, <1>8, <2>1, <3>2, <3>3
  <2>2. CASE h = 2
    <3>1. ~s.low
      BY <1>3, <2>2
    <3>2. Half(s) = {2, 3}
      BY <3>1 DEF Half
    <3>3. /\ DOMAIN cells = {2, 3} /\ cells[2] = Beside(s.refs[1], 2 - 2)
          /\ cells[3] = Beside(s.refs[1], 3 - 2)
      BY <3>1, <3>2
    <3>4. /\ o + (h + 1) = o + h + 1 /\ o + (h + 2) = o + (h + 1) + 1
          /\ h + 1 = 3 /\ 2 - 2 = 0 /\ 3 - 2 = 1
      BY <2>2
    <3> HIDE DEF cells
    <3>5. QED
      BY <1>3, <1>8, <2>2, <3>3, <3>4
  <2>3. QED
    BY <2>1, <2>2
<1> HIDE DEF m, cells
<1>10. Puts(m, reg, refs, o, n) /\ DOMAIN m.cells = {h, h + 1}
  <2>1. h \in 0 .. n - 1 /\ h + 1 \in 0 .. n - 1
    BY <1>1
  <2>2. QED
    BY <1>7, <1>9, <2>1 DEF Puts
<1>11. PutsAll(<<m>>, reg, refs, o, n, DOMAIN m.cells)
  BY <1>10, PutsFew
<1>12. QED
  BY <1>6, <1>10, <1>11, <1>13

\* Four places are stored as a whole or by halves, a half and two elements, or not
\* at all.
LEMMA FourPut ==
  ASSUME NEW N \in Nat, NEW refs \in [1 .. N -> Cells], SameRow(refs),
         NEW o \in Nat, NEW n \in Nat, n >= 1, o + n <= N, n <= 4,
         NEW u, NEW reg, Shows(u, reg, refs, o, n), u.size = 4
  PROVE  /\ SomeHalf(u) => PutsAll(Vscatter4Elements(u), reg, refs, o, n, 0 .. n - 1)
         /\ ~SomeHalf(u) => Vscatter4Elements(u) = <<>>
<1> DEFINE h == Halves(u)
           sub(p) == Vstore(SubOperand(u, u.name, 2, 4, p))
           low == IF h.first THEN sub(0) ELSE <<>>
           high == IF h.second THEN sub(2) ELSE <<>>
           begin == IF ~h.first /\ h.second THEN StoreElements(u, 0, 1) ELSE <<>>
           rest == IF h.first /\ ~h.second THEN StoreElements(u, 2, u.len - 1) ELSE <<>>
<1>1. /\ u.name = reg /\ u.len = n /\ ~u.double /\ ~u.equal /\ (u.partial <=> n # 4)
      /\ \A i \in 1 .. n : u.refs[i] = refs[o + i] /\ u.idx[i] \in Int
  BY DEF Shows
<1>2. Vscatter4Elements(u) = IF h.full THEN Vstore(u) ELSE low \o high \o begin \o rest
  BY DEF Vscatter4Elements
<1>3. /\ h.full => n = 4 /\ \A i \in 1 .. 3 : u.idx[i] + 1 = u.idx[i + 1]
      /\ h.first => n >= 2 /\ u.idx[1] + 1 = u.idx[2]
      /\ h.second => n = 4 /\ u.idx[3] + 1 = u.idx[4]
  <2>1. n \in 1 .. 4 /\ u.len = n /\ u.size = 4 /\ \A i \in 1 .. n : u.idx[i] \in Int
    BY <1>1
  <2>2. QED
    BY <2>1, HalvesMean
<1>4. SomeHalf(u) <=> h.full \/ h.first \/ h.second
  BY DEF SomeHalf
<1>5. ASSUME NEW p \in {0, 2}, p + 2 <= n, u.idx[p + 1] + 1 = u.idx[p + 2]
      PROVE  PutsAll(sub(p), reg, refs, o, n, {p, p + 1})
  BY <1>5, HalfPuts
<1>6. ASSUME NEW first \in Nat, NEW last \in Int, first <= last + 1, last <= n - 1
      PROVE  PutsAll(StoreElements(u, first, last), reg, refs, o, n, first .. last)
  <2>1. ASSUME NEW i \in first .. last
        PROVE  u.refs[i + 1] = refs[o + i + 1]
    <3>1. i + 1 \in 1 .. n /\ o + i + 1 = o + (i + 1)
      BY <1>6
    <3>2. QED
      BY <1>1, <3>1
  <2>2. u.size \in {2, 4, 8} /\ u.name = reg
    BY <1>1
  <2>3. QED
    BY <1>6, <2>1, <2>2, ElementsPut
<1>7. ASSUME h.full
      PROVE  PutsAll(Vscatter4Elements(u), reg, refs, o, n, 0 .. n - 1)
  <2>1. n = 4 /\ \A i \in 1 .. 3 : u.idx[i] + 1 = u.idx[i + 1]
    BY <1>3, <1>7
  <2>2. ~u.partial /\ ~(u.len = 2)
    BY <1>1, <2>1
  <2> DEFINE m == Inst("store", u.name, u.size, Row(u.refs[1], u.size))
  <2>3. Vstore(u) = <<m>>
    BY <1>1, <2>2 DEF Vstore
  <2>4. m.kind = "store" /\ m.reg = reg /\ m.w = 4 /\ m.cells = Row(u.refs[1], 4)
    BY <1>1 DEF Inst
  <2>5. DOMAIN Row(u.refs[1], 4) = 0 .. 3 /\ \A k \in 0 .. 3 : Row(u.refs[1], 4)[k] = Beside(u.refs[1], k)
    BY DEF Row
  <2> HIDE DEF m
  <2>6. ASSUME NEW k \in 0 .. 3
        PROVE  Beside(u.refs[1], k) = refs[o + k + 1]
    <3>1. PICK a \in Int, b \in Int, c \in Int, d \in Int :
            a = u.idx[1] /\ b = u.idx[2] /\ c = u.idx[3] /\ d = u.idx[4]
      <4>1. 1 \in 1 .. n /\ 2 \in 1 .. n /\ 3 \in 1 .. n /\ 4 \in 1 .. n
        BY <2>1
      <4>2. u.idx[1] \in Int /\ u.idx[2] \in Int /\ u.idx[3] \in Int /\ u.idx[4] \in Int
        BY <1>1, <4>1
      <4>3. QED
        BY <4>2
    <3>2. a + 1 = b /\ b + 1 = c /\ c + 1 = d
      <4>1. u.idx[1] + 1 = u.idx[1 + 1] /\ u.idx[2] + 1 = u.idx[2 + 1] /\ u.idx[3] + 1 = u.idx[3 + 1]
        BY <2>1
      <4>2. 1 + 1 = 2 /\ 2 + 1 = 3 /\ 3 + 1 = 4
        OBVIOUS
      <4>3. QED
        BY <3>1, <4>1, <4>2
    <3>3. PICK i \in 1 .. n, j \in 1 .. n : i = 1 /\ j = k + 1 /\ o + j = o + k + 1
      BY <2>1
    <3>4. u.idx[j] = u.idx[i] + k
      <4>1. \/ (j = 1 /\ k = 0) \/ (j = 2 /\ k = 1) \/ (j = 3 /\ k = 2) \/ (j = 4 /\ k = 3)
        BY <3>3
      <4>2. u.idx[i] = a
        BY <3>1, <3>3
      <4>3. b = a + 1 /\ c = a + 2 /\ d = a + 3
        BY <3>2
      <4>4. u.idx[j] = a + k
        <5>1. CASE j = 1 /\ k = 0
          BY <3>1, <5>1
        <5>2. CASE j = 2 /\ k = 1
          BY <3>1, <4>3, <5>2
        <5>3. CASE j = 3 /\ k = 2
          BY <3>1, <4>3, <5>3
        <5>4. CASE j = 4 /\ k = 3
          BY <3>1, <4>3, <5>4
        <5>5. QED
          BY <4>1, <5>1, <5>2, <5>3, <5>4
      <4>5. QED
        BY <4>2, <4>4
    <3>5. k \in Int
      OBVIOUS
    <3>6. Beside(u.refs[i], k) = refs[o + j]
      BY <3>4, <3>5, PlaceIs
    <3>7. QED
      BY <3>3, <3>6
  <2>7. Puts(m, reg, refs, o, n) /\ DOMAIN m.cells = 0 .. n - 1
    <3>1. n - 1 = 3
      BY <2>1
    <3>2. QED
      BY <2>4, <2>5, <2>6, <3>1 DEF Puts
  <2>8. PutsAll(<<m>>, reg, refs, o, n, 0 .. n - 1)
    BY <2>7, PutsFew
  <2>9. QED
    BY <1>2, <1>7, <2>3, <2>8
<1> HIDE DEF h
<1>8. PutsAll(low, reg, refs, o, n, IF h.first THEN {0, 1} ELSE {})
  <2>1. CASE h.first
    <3>1. 0 \in {0, 2} /\ 0 + 2 <= n /\ u.idx[0 + 1] + 1 = u.idx[0 + 2] /\ 0 + 1 = 1
      BY <1>3, <2>1
    <3>2. PutsAll(sub(0), reg, refs, o, n, {0, 0 + 1})
      BY <1>5, <3>1
    <3> HIDE DEF sub
    <3>3. QED
      BY <2>1, <3>1, <3>2
  <2>2. CASE ~h.first
    BY <2>2, PutsFew
  <2>3. QED
    BY <2>1, <2>2
<1>9. PutsAll(high, reg, refs, o, n, IF h.second THEN {2, 3} ELSE {})
  <2>1. CASE h.second
    <3>1. 2 \in {0, 2} /\ 2 + 2 <= n /\ u.idx[2 + 1] + 1 = u.idx[2 + 2] /\ 2 + 1 = 3
      BY <1>3, <2>1
    <3>2. PutsAll(sub(2), reg, refs, o, n, {2, 2 + 1})
      BY <1>5, <3>1
    <3> HIDE DEF sub
    <3>3. QED
      BY <2>1, <3>1, <3>2
  <2>2. CASE ~h.second
    BY <2>2, PutsFew
  <2>3. QED
    BY <2>1, <2>2
<1>10. PutsAll(begin, reg, refs, o, n, IF ~h.first /\ h.second THEN 0 .. 1 ELSE {})
  <2>1. CASE ~h.first /\ h.second
    <3>1. 0 \in Nat /\ 1 \in Int /\ 0 <= 1 + 1 /\ 1 <= n - 1
      BY <1>3, <2>1
    <3>2. PutsAll(StoreElements(u, 0, 1), reg, refs, o, n, 0 .. 1)
      BY <1>6, <3>1
    <3>3. QED
      BY <2>1, <3>2
  <2>2. CASE ~(~h.first /\ h.second)
    BY <2>2, PutsFew
  <2>3. QED
    BY <2>1, <2>2
<1>11. PutsAll(rest, reg, refs, o, n, IF h.first /\ ~h.second THEN 2 .. n - 1 ELSE {})
  <2>1. CASE h.first /\ ~h.second
    <3>1. 2 \in Nat /\ n - 1 \in Int /\ 2 <= (n - 1) + 1 /\ n - 1 <= n - 1
      BY <1>3, <2>1
    <3>2. PutsAll(StoreElements(u, 2, n - 1), reg, refs, o, n, 2 .. n - 1)
      BY <1>6, <3>1
    <3>3. QED
      BY <1>1, <2>1, <3>2
  <2>2. CASE ~(h.first /\ ~h.second)
    BY <2>2, PutsFew
  <2>3. QED
    BY <2>1, <2>2
<1> DEFINE A == IF h.first THEN {0, 1} ELSE {}
           B == IF h.second THEN {2, 3} ELSE {}
           C == IF ~h.first /\ h.second THEN 0 .. 1 ELSE {}
           D == IF h.first /\ ~h.second THEN 2 .. n - 1 ELSE {}
<1>12. h.first \/ h.second => 0 .. n - 1 \subseteq ((A \cup B) \cup C) \cup D
  <2>1. CASE h.first /\ h.second
    BY <1>3, <2>1
  <2>2. CASE h.first /\ ~h.second
    BY <2>2
  <2>3. CASE ~h.first /\ h.second
    BY <1>3, <2>3
  <2>4. QED
    BY <2>1, <2>2, <2>3
<1>13. ~h.first /\ ~h.second => low = <<>> /\ high = <<>> /\ begin = <<>> /\ rest = <<>>
  OBVIOUS
<1> HIDE DEF low, high, begin, rest, A, B, C, D
<1>14. PutsAll(low \o high \o begin \o rest, reg, refs, o, n, ((A \cup B) \cup C) \cup D)
  <2>1. PutsAll(low \o high, reg, refs, o, n, A \cup B)
    BY <1>8, <1>9, PutsConcat DEF A, B
  <2>2. PutsAll((low \o high) \o begin, reg, refs, o, n, (A \cup B) \cup C)
    BY <1>10, <2>1, PutsConcat DEF C
  <2>3. QED
    BY <1>11, <2>2, PutsConcat DEF D
<1>15. ASSUME SomeHalf(u), ~h.full
       PROVE  PutsAll(Vscatter4Elements(u), reg, refs, o, n, 0 .. n - 1)
  <2>1. 0 .. n - 1 \subseteq ((A \cup B) \cup C) \cup D
    BY <1>4, <1>12, <1>15 DEF h
  <2>2. Vscatter4Elements(u) = low \o high \o begin \o rest
    BY <1>2, <1>15
  <2>3. QED
    BY <1>14, <2>1, <2>2 DEF PutsAll
<1>16. ASSUME ~SomeHalf(u)
       PROVE  Vscatter4Elements(u) = <<>>
  <2>1. ~h.full /\ ~h.first /\ ~h.second
    BY <1>4, <1>16
  <2>2. Vscatter4Elements(u) = <<>> \o <<>> \o <<>> \o <<>>
    BY <1>2, <1>13, <2>1
  <2>3. <<>> \in Seq({}) /\ <<>> \o <<>> = <<>>
    BY EmptySeq, ConcatEmptySeq
  <2>4. QED
    BY <2>2, <2>3
<1>17. QED
  BY <1>7, <1>15, <1>16 DEF h

-------------------------------------------------------------------------------
(***************************************************************************)
(* The code that stores a result of n places: from its register, or from   *)
(* one of its halves, which were extracted before.                         *)
(***************************************************************************)
Low == "_mm256_castps256_ps128"
High == "__tmp_extract_128"

\* m copies a half of the result to the register of that half.
Extracts(m) ==
  /\ m.w = 4 /\ m.cells = Empty /\ m.from = <<"res">>
  /\ \/ m.kind = "low" /\ m.reg = Low
     \/ m.kind = "high" /\ m.reg = High

StoresPart(m, refs, n) ==
  \/ Puts(m, "res", refs, 0, n)
  \/ Puts(m, Low, refs, 0, 4) /\ n > 4
  \/ Puts(m, High, refs, 4, n - 4)

StoreCode(ss, refs, n, I) ==
  /\ ss \in Seq(Members(ss))
  /\ \A m \in Members(ss) : StoresPart(m, refs, n) \/ Extracts(m)
  /\ \A q \in DOMAIN ss : ss[q].kind = "store" /\ ss[q].reg # "res" =>
       \E p \in 1 .. q - 1 : Extracts(ss[p]) /\ ss[p].reg = ss[q].reg
  /\ \A i \in I : \E m \in Members(ss) : m.kind = "store" /\ refs[i] \in Touched(m)

\* One piece of such code after the other.
LEMMA StoreCodeConcat ==
  ASSUME NEW refs, NEW n, NEW s, NEW I, StoreCode(s, refs, n, I),
         NEW t, NEW J, StoreCode(t, refs, n, J)
  PROVE  StoreCode(s \o t, refs, n, I \cup J)
<1> DEFINE u == s \o t
<1>1. s \in Seq(Members(s)) /\ t \in Seq(Members(t))
  BY DEF StoreCode
<1>2. /\ u \in Seq(Members(u)) /\ Members(u) = Members(s) \cup Members(t)
      /\ Len(s) \in Nat /\ Len(t) \in Nat /\ Len(u) = Len(s) + Len(t)
      /\ DOMAIN s = 1 .. Len(s) /\ DOMAIN t = 1 .. Len(t)
      /\ \A i \in 1 .. Len(s) : u[i] = s[i]
      /\ \A i \in 1 .. Len(t) : u[Len(s) + i] = t[i]
  BY <1>1, JoinedMembers
<1> HIDE DEF u
<1>3. DOMAIN u = 1 .. Len(s) + Len(t)
  BY <1>2, LenProperties
<1>4. ASSUME NEW q \in DOMAIN u, u[q].kind = "store", u[q].reg # "res"
      PROVE  \E p \in 1 .. q - 1 : Extracts(u[p]) /\ u[p].reg = u[q].reg
  <2>1. CASE q \in 1 .. Len(s)
    <3>1. u[q] = s[q] /\ q \in DOMAIN s
      BY <1>2, <2>1
    <3>2. PICK p \in 1 .. q - 1 : Extracts(s[p]) /\ s[p].reg = s[q].reg
      BY <1>4, <3>1 DEF StoreCode
    <3>3. p \in 1 .. Len(s)
      BY <1>2, <2>1
    <3>4. u[p] = s[p]
      BY <1>2, <3>3
    <3>5. QED
      BY <3>1, <3>2, <3>4
  <2>2. CASE q \notin 1 .. Len(s)
    <3>1. PICK i \in 1 .. Len(t) : i = q - Len(s) /\ q = Len(s) + i
      BY <1>2, <1>3, <2>2
    <3>2. u[q] = t[i] /\ i \in DOMAIN t
      BY <1>2, <3>1
    <3>3. PICK p \in 1 .. i - 1 : Extracts(t[p]) /\ t[p].reg = t[i].reg
      BY <1>4, <3>2 DEF StoreCode
    <3>4. p \in 1 .. Len(t) /\ Len(s) + p \in 1 .. q - 1
      BY <1>2, <3>1
    <3>5. u[Len(s) + p] = t[p]
      BY <1>2, <3>4
    <3>6. QED
      BY <3>2, <3>3, <3>4, <3>5
  <2>3. QED
    BY <2>1, <2>2
<1>5. \A m \in Members(u) : StoresPart(m, refs, n) \/ Extracts(m)
  BY <1>2 DEF StoreCode
<1>6. \A i \in I \cup J : \E m \in Members(u) : m.kind = "store" /\ refs[i] \in Touched(m)
  BY <1>2 DEF StoreCode
<1>7. StoreCode(u, refs, n, I \cup J)
  BY <1>2, <1>4, <1>5, <1>6 DEF StoreCode
<1>8. QED
  BY <1>7 DEF u

\* Stores that put lanes store their cells.
LEMMA PutsStore ==
  ASSUME NEW refs, NEW o, NEW n, NEW reg, NEW ss, NEW I, PutsAll(ss, reg, refs, o, n, I)
  PROVE  \A k \in I : \E m \in Members(ss) : m.kind = "store" /\ refs[o + k + 1] \in Touched(m)
BY DEF PutsAll, Puts, Touched

\* Stores from the register of the result.
LEMMA DirectCode ==
  ASSUME NEW refs, NEW n \in Nat, NEW ss, NEW a \in Int, NEW b \in Int,
         PutsAll(ss, "res", refs, 0, n, a .. b)
  PROVE  StoreCode(ss, refs, n, a + 1 .. b + 1)
<1>1. ss \in Seq(Members(ss)) /\ \A m \in Members(ss) : Puts(m, "res", refs, 0, n)
  BY DEF PutsAll
<1>2. \A m \in Members(ss) : StoresPart(m, refs, n)
  BY <1>1 DEF StoresPart
<1>3. \A q \in DOMAIN ss : ss[q].reg = "res"
  BY <1>1 DEF Members, Puts
<1>4. ASSUME NEW i \in a + 1 .. b + 1
      PROVE  \E m \in Members(ss) : m.kind = "store" /\ refs[i] \in Touched(m)
  <2>1. PICK k \in a .. b : k = i - 1 /\ 0 + k + 1 = i
    OBVIOUS
  <2>2. \E m \in Members(ss) : m.kind = "store" /\ refs[0 + k + 1] \in Touched(m)
    BY PutsStore
  <2>3. QED
    BY <2>1, <2>2
<1>5. QED
  BY <1>1, <1>2, <1>3, <1>4 DEF StoreCode

\* An extract and stores from the half it extracts.
LEMMA HalfCode ==
  ASSUME NEW refs, NEW n \in Nat, NEW x, Extracts(x), NEW o \in Nat, NEW w \in Int,
         \/ x.reg = Low /\ o = 0 /\ w = 4 /\ n > 4
         \/ x.reg = High /\ o = 4 /\ w = n - 4,
         NEW ss, NEW I, I \subseteq Int, PutsAll(ss, x.reg, refs, o, w, I)
  PROVE  StoreCode(<<x>> \o ss, refs, n, {o + k + 1 : k \in I})
<1> DEFINE u == <<x>> \o ss
<1>1. ss \in Seq(Members(ss)) /\ \A m \in Members(ss) : Puts(m, x.reg, refs, o, w)
  BY DEF PutsAll
<1>2. <<x>> \in Seq(Members(<<x>>)) /\ Members(<<x>>) = {x} /\ Len(<<x>>) = 1 /\ <<x>>[1] = x
  <2>1. x \in {x}
    OBVIOUS
  <2>2. QED
    BY <2>1, FewMembers
<1>3. /\ u \in Seq(Members(u)) /\ Members(u) = Members(<<x>>) \cup Members(ss)
      /\ Len(ss) \in Nat /\ Len(u) = 1 + Len(ss) /\ DOMAIN ss = 1 .. Len(ss)
      /\ u[1] = x
      /\ \A i \in 1 .. Len(ss) : u[1 + i] = ss[i]
  <2>1. PICK s : s = <<x>>
    OBVIOUS
  <2>2. s \in Seq(Members(s)) /\ Len(s) = 1 /\ s[1] = x
    BY <1>2, <2>1
  <2>3. /\ s \o ss \in Seq(Members(s \o ss)) /\ Members(s \o ss) = Members(s) \cup Members(ss)
        /\ Len(ss) \in Nat /\ Len(s \o ss) = Len(s) + Len(ss) /\ DOMAIN ss = 1 .. Len(ss)
        /\ \A i \in 1 .. Len(s) : (s \o ss)[i] = s[i]
        /\ \A i \in 1 .. Len(ss) : (s \o ss)[Len(s) + i] = ss[i]
    <3>1. s \in Seq(Members(s)) /\ ss \in Seq(Members(ss))
      BY <1>1, <2>2
    <3>2. QED
      BY ONLY <3>1, JoinedMembers
  <2>4. PICK t : t = s \o ss
    OBVIOUS
  <2>5. /\ t \in Seq(Members(t)) /\ Members(t) = Members(s) \cup Members(ss)
        /\ Len(ss) \in Nat /\ Len(t) = 1 + Len(ss) /\ DOMAIN ss = 1 .. Len(ss)
        /\ t[1] = x
        /\ \A i \in 1 .. Len(ss) : t[1 + i] = ss[i]
    BY <2>2, <2>3, <2>4
  <2>6. t = <<x>> \o ss
    BY <2>1, <2>4
  <2>7. QED
    BY <2>1, <2>5, <2>6
<1> HIDE DEF u
<1>4. \A m \in Members(u) : StoresPart(m, refs, n) \/ Extracts(m)
  <2>1. \A m \in Members(ss) : StoresPart(m, refs, n)
    BY <1>1 DEF StoresPart
  <2>2. QED
    BY <1>2, <1>3, <2>1
<1>5. ASSUME NEW q \in DOMAIN u, u[q].kind = "store"
      PROVE  \E p \in 1 .. q - 1 : Extracts(u[p]) /\ u[p].reg = u[q].reg
  <2>1. DOMAIN u = 1 .. 1 + Len(ss)
    BY <1>3, LenProperties
  <2>2. q # 1
    BY <1>3, <1>5 DEF Extracts
  <2>3. PICK i \in 1 .. Len(ss) : q = 1 + i
    <3>1. q - 1 \in 1 .. Len(ss) /\ q = 1 + (q - 1)
      BY <1>3, <2>1, <2>2
    <3>2. QED
      BY <3>1
  <2>4. u[q] = ss[i] /\ ss[i] \in Members(ss)
    BY <1>3, <2>3 DEF Members
  <2>5. u[q].reg = x.reg
    BY <1>1, <2>4 DEF Puts
  <2>6. 1 \in 1 .. q - 1
    BY <1>3, <2>3
  <2>7. QED
    BY <1>3, <2>5, <2>6
<1>6. ASSUME NEW i \in {o + k + 1 : k \in I}
      PROVE  \E m \in Members(u) : m.kind = "store" /\ refs[i] \in Touched(m)
  <2>1. PICK k \in I : i = o + k + 1
    OBVIOUS
  <2>2. \E m \in Members(ss) : m.kind = "store" /\ refs[o + k + 1] \in Touched(m)
    BY PutsStore
  <2>3. QED
    BY <1>3, <2>1, <2>2
<1>7. StoreCode(u, refs, n, {o + k + 1 : k \in I})
  BY <1>3, <1>4, <1>5, <1>6 DEF StoreCode
<1>8. QED
  BY <1>7 DEF u

\* No code.
LEMMA NoStoreCode ==
  ASSUME NEW refs, NEW n
  PROVE  StoreCode(<<>>, refs, n, {})
<1>1. Members(<<>>) = {} /\ <<>> \in Seq(Members(<<>>)) /\ DOMAIN <<>> = {}
  BY FewMembers, LenProperties
<1>2. QED
  BY <1>1 DEF StoreCode

-------------------------------------------------------------------------------
(***************************************************************************)
(* The result of an operation: different cells of one row.                 *)
(***************************************************************************)
ResultOf(v, r, n, double) ==
  /\ Fits(n, double) /\ r \in [1 .. n -> Cells] /\ SameRow(r) /\ Distinct(r)
  /\ RegisterOf(v, "res", r, n, double) /\ FoundOut(v, r, TRUE)
  /\ DOMAIN v = OperandFields

\* What is known of it.
Result(v, r, n) ==
  /\ n >= 2 /\ n <= 8 /\ DOMAIN r = 1 .. n /\ Len(r) = n
  /\ r \in [1 .. n -> Cells] /\ SameRow(r) /\ Distinct(r) /\ DOMAIN v = OperandFields
  /\ v.name = "res" /\ v.refs = r /\ v.len = n /\ (v.double => n <= 4)
  /\ v.size \in {2, 4, 8} /\ n <= v.size /\ (v.partial <=> v.size # n)
  /\ (v.size > 4 => n > 4 /\ ~v.double)
  /\ (v.low \/ v.high <=> n = 2 /\ v.size = 4) /\ (v.low <=> n = 2 /\ v.size = 4)
  /\ ~v.equal /\ v.idx = GetMemIdx(r) /\ (v.contiguous <=> CountsUp(GetMemIdx(r)))

\* A result that can be stored is one register, whose cells are different.
LEMMA ResultIs ==
  ASSUME NEW double, NEW n \in Nat, NEW r, NEW v, ResultOf(v, r, n, double)
  PROVE  Result(v, r, n)
<1>1. /\ n >= 2 /\ n <= 8 /\ (double => n <= 4)
      /\ VectorSize(n, double) \in {2, 4, 8} /\ n <= VectorSize(n, double)
  BY SizeIs DEF ResultOf
<1>2. DOMAIN r = 1 .. n /\ Len(r) = n
  BY CellsOfTuple DEF ResultOf
<1>3. /\ v.name = "res" /\ v.refs = r /\ v.len = n /\ (v.partial <=> v.size # n)
      /\ (v.low \/ v.high <=> n = 2 /\ v.size = 4) /\ (v.low <=> n = 2 /\ v.size = 4)
      /\ v.size = VectorSize(n, double)
  BY DEF ResultOf, RegisterOf
<1>4. v.double <=> double
  BY DEF ResultOf, RegisterOf
<1>5. AreInSameVector(r)
  BY DEF ResultOf, SameRow, AreInSameVector
<1>6. v.idx = GetMemIdx(r) /\ (v.contiguous <=> CountsUp(v.idx))
  <2>1. v.same
    BY <1>5 DEF ResultOf, FoundOut
  <2>2. QED
    BY <2>1 DEF ResultOf, FoundOut
<1>7. ~v.equal
  <2>1. ~AllEqual(r)
    <3>1. 1 \in DOMAIN r /\ 2 \in DOMAIN r
      BY <1>1, <1>2
    <3>2. QED
      BY <3>1 DEF ResultOf, Distinct, AllEqual
  <2>2. QED
    BY <2>1 DEF ResultOf, FoundOut
<1>8. v.size \in {2, 4, 8} /\ n <= v.size
  BY <1>1, <1>3
<1>9. v.double => n <= 4
  BY <1>1, <1>4
<1>10. r \in [1 .. n -> Cells] /\ SameRow(r) /\ Distinct(r) /\ DOMAIN v = OperandFields
  BY DEF ResultOf
<1>11. v.size > 4 => n > 4 /\ ~v.double
  <2>1. Fits(n, double)
    BY DEF ResultOf
  <2>2. VectorSize(n, double) > 4 => n > 4 /\ ~double
    BY <2>1 DEF Fits, VectorSize, Narrow
  <2>3. QED
    BY <1>3, <1>4, <2>2
<1>12. QED
  BY <1>1, <1>2, <1>3, <1>6, <1>7, <1>8, <1>9, <1>10, <1>11 DEF Result

\* A store of the first lanes to the cells.
LEMMA FirstLanesPut ==
  ASSUME NEW n \in Nat, NEW r, NEW v, v.name = "res", v.size \in {2, 4, 8},
         NEW cells, DOMAIN cells = 0 .. n - 1, \A k \in 0 .. n - 1 : cells[k] = r[k + 1]
  PROVE  PutsAll(<<Inst("store", v.name, v.size, cells)>>, "res", r, 0, n, 0 .. n - 1)
<1>1. PICK m : m = Inst("store", v.name, v.size, cells)
  OBVIOUS
<1>2. m.kind = "store" /\ m.reg = "res" /\ m.w \in {2, 4, 8} /\ m.cells = cells
  BY <1>1 DEF Inst
<1>3. \A k \in 0 .. n - 1 : cells[k] = r[0 + k + 1]
  OBVIOUS
<1>4. Puts(m, "res", r, 0, n)
  BY <1>2, <1>3 DEF Puts
<1>5. PutsAll(<<m>>, "res", r, 0, n, DOMAIN m.cells)
  BY <1>4, PutsFew
<1>6. QED
  BY <1>1, <1>2, <1>5

\* Neighbours are stored at once.
LEMMA RowPuts ==
  ASSUME NEW n \in Nat, NEW r, NEW v, Result(v, r, n),
         v.contiguous, v.double => n = 4
  PROVE  PutsAll(Vstore(v), "res", r, 0, n, 0 .. n - 1)
<1>1. /\ n >= 2 /\ v.name = "res" /\ v.refs = r /\ v.len = n /\ (v.double => n = 4)
      /\ v.size \in {2, 4, 8} /\ n <= v.size /\ (v.partial <=> v.size # n)
      /\ (v.low \/ v.high <=> n = 2 /\ v.size = 4) /\ (v.low <=> n = 2 /\ v.size = 4)
      /\ ~v.equal /\ CountsUp(GetMemIdx(r))
  BY DEF Result
<1>2. n \in Nat /\ n >= 1 /\ r \in [1 .. n -> Cells] /\ SameRow(r) /\ CountsUp(GetMemIdx(r))
  BY <1>1 DEF Result
<1>3. \A k \in 0 .. n - 1 : Beside(r[1], k) = r[k + 1]
  BY ONLY <1>2, RowIs
<1> DEFINE cells == Row(r[1], n)
           half == [k \in {0, 1} |-> Beside(r[1], k)]
<1>4. DOMAIN cells = 0 .. n - 1 /\ \A k \in 0 .. n - 1 : cells[k] = r[k + 1]
  BY <1>3 DEF Row
<1>5. Vstore(v) = <<Inst("store", v.name, v.size, cells)>>
  <2>1. CASE v.partial /\ ~(v.low \/ v.high)
    BY <1>1, <2>1 DEF Vstore, Masked
  <2>2. CASE v.low \/ v.high
    <3>1. n = 2 /\ v.low /\ ~v.double
      BY <1>1, <2>2
    <3>2. Vstore(v) = StoreHalf(v)
      BY <1>1, <2>2, <3>1 DEF Vstore
    <3>3. [k \in Half(v) |-> Beside(v.refs[1], IF v.low THEN k ELSE k - 2)] = cells
      <4>1. Half(v) = 0 .. 2 - 1
        BY <3>1 DEF Half
      <4>2. QED
        BY <1>1, <3>1, <4>1 DEF Row
    <3>4. QED
      BY <3>2, <3>3 DEF StoreHalf
  <2>3. CASE ~v.partial /\ ~(v.low \/ v.high)
    <3>1. v.size = n
      BY <1>1, <2>3
    <3>2. QED
      BY <1>1, <2>3, <3>1 DEF Vstore
  <2>4. QED
    BY <2>1, <2>2, <2>3
<1>6. v.name = "res" /\ v.size \in {2, 4, 8}
  BY <1>1
<1> HIDE DEF cells
<1>7. PutsAll(<<Inst("store", v.name, v.size, cells)>>, "res", r, 0, n, 0 .. n - 1)
  BY <1>4, <1>6, FirstLanesPut
<1>8. QED
  BY <1>5, <1>7

\* Lanes are stored one by one.
LEMMA SinglesPut ==
  ASSUME NEW n \in Nat, NEW r, NEW v, Result(v, r, n),
         NEW a \in Nat, NEW b \in Nat, a <= b + 1, b <= n - 1
  PROVE  PutsAll(StoreElements(v, a, b), "res", r, 0, n, a .. b)
<1>1. v.name = "res" /\ v.refs = r /\ v.size \in {2, 4, 8}
  BY DEF Result
<1>2. \A i \in a .. b : v.refs[i + 1] = r[0 + i + 1]
  BY <1>1
<1>3. 0 \in Nat /\ b \in Int
  OBVIOUS
<1>4. QED
  BY <1>1, <1>2, <1>3, ElementsPut

\* A scatter of AVX-512 stores the lanes of a full register.
LEMMA ScatterPuts ==
  ASSUME NEW n \in Nat, NEW r, NEW v, Result(v, r, n),
         ~v.double, Fills(v)
  PROVE  PutsAll(VscatterAVX512(v), "res", r, 0, n, 0 .. n - 1)
<1>1. /\ n >= 2 /\ v.name = "res" /\ v.refs = r /\ v.len = n
      /\ v.size \in {2, 4, 8} /\ (v.partial <=> v.size # n) /\ v.idx = GetMemIdx(r)
  BY DEF Result
<1>2. v.size = n /\ ~v.partial
  BY <1>1 DEF Fills
<1>3. r \in [1 .. n -> Cells] /\ SameRow(r)
  BY DEF Result
<1>4. PICK idx : idx = v.idx
  OBVIOUS
<1> DEFINE cells == [k \in 0 .. v.size - 1 |-> Beside(r[Least(idx)], FromLeast(idx)[k])]
<1>5. VscatterAVX512(v) = <<Inst("store", v.name, v.size, cells)>>
  BY <1>1, <1>2, <1>4 DEF VscatterAVX512
<1>6. \A k \in 0 .. n - 1 : Beside(r[Least(idx)], FromLeast(idx)[k]) = r[k + 1]
  <2>1. idx = GetMemIdx(r) /\ n >= 1
    BY <1>1, <1>4
  <2>2. QED
    BY <1>3, <2>1, GatherIs
<1>7. DOMAIN cells = 0 .. n - 1 /\ \A k \in 0 .. n - 1 : cells[k] = r[k + 1]
  BY <1>2, <1>6
<1> HIDE DEF cells
<1>8. QED
  BY <1>1, <1>5, <1>7, FirstLanesPut

\* Without halves a result is stored at once or one by one.
LEMMA OneByOnePuts ==
  ASSUME NEW n \in Nat, NEW r, NEW v, Result(v, r, n), NEW avx512,
         avx512 => Fills(v) /\ ~v.double
  PROVE  PutsAll(OneByOne(v, avx512), "res", r, 0, n, 0 .. n - 1)
<1>1. n >= 2 /\ v.len = n
  BY DEF Result
<1>2. PutsAll(SingleElementScatter(v), "res", r, 0, n, 0 .. n - 1)
  <2>1. PICK b \in Nat : b = n - 1 /\ 0 <= b + 1 /\ b <= n - 1
    BY <1>1
  <2>2. PutsAll(StoreElements(v, 0, b), "res", r, 0, n, 0 .. b)
    BY <2>1, SinglesPut
  <2>3. SingleElementScatter(v) = StoreElements(v, 0, b)
    BY <1>1, <2>1 DEF SingleElementScatter
  <2>4. QED
    BY <2>1, <2>2, <2>3
<1>3. CASE avx512
  BY <1>3, ScatterPuts DEF OneByOne
<1>4. CASE ~avx512
  BY <1>2, <1>4 DEF OneByOne
<1>5. QED
  BY <1>3, <1>4

\* The cells of a result of floats are known from its first on.
LEMMA WholeShows ==
  ASSUME NEW n \in Nat, NEW r, NEW v, Result(v, r, n), ~v.double
  PROVE  Shows(v, "res", r, 0, n)
<1>1. /\ n >= 2 /\ r \in [1 .. n -> Cells] /\ DOMAIN v = OperandFields /\ v.name = "res"
      /\ v.refs = r /\ v.len = n /\ (v.partial <=> v.size # n) /\ ~v.equal /\ v.idx = GetMemIdx(r)
  BY DEF Result
<1>2. \A i \in 1 .. n : r[i] \in Cells /\ r[i].i \in Int
  BY <1>1 DEF Cells
<1>3. 1 \in 1 .. n /\ \A i \in 1 .. n : 0 + i = i
  BY <1>1
<1>4. v.idx = [i \in 1 .. n |-> r[i].i - r[1].i]
  BY <1>1 DEF GetMemIdx
<1>5. \A i \in 1 .. n : r[i].i - r[1].i \in Int
  BY <1>2, <1>3
<1>6. v.idx \in [1 .. n -> Int] /\ \A i \in 1 .. n : v.idx[i] = r[0 + i].i - r[1].i
  BY <1>3, <1>4, <1>5
<1>7. \A i \in 1 .. n : v.refs[i] = r[0 + i]
  BY <1>1, <1>3
<1>8. QED
  BY <1>1, <1>6, <1>7 DEF Shows

\* The places of a function that is cut.
LEMMA CutIs ==
  ASSUME NEW n \in Nat, NEW S, NEW f \in [1 .. n -> S], NEW o \in Nat, NEW w \in Nat, o + w <= n
  PROVE  /\ SubSeq(f, o + 1, o + w) \in [1 .. w -> S]
         /\ \A i \in 1 .. w : SubSeq(f, o + 1, o + w)[i] = f[o + i]
<1>1. PICK a \in Int, b \in Int : a = o + 1 /\ b = o + w /\ a <= b + 1 /\ a \in Nat
  OBVIOUS
<1>2. \A i \in a .. b : f[i] \in S
  BY <1>1
<1>3. PICK g : g = SubSeq(f, a, b)
  OBVIOUS
<1>4. g \in Seq(S) /\ Len(g) = (IF a <= b THEN b - a + 1 ELSE 0) /\ \A i \in 1 .. b - a + 1 : g[i] = f[a + i - 1]
  BY <1>2, <1>3, SubSeqProperties
<1>5. Len(g) = w /\ b - a + 1 = w /\ \A i \in 1 .. w : a + i - 1 = o + i
  BY <1>1, <1>4
<1>6. g \in [1 .. w -> S] /\ \A i \in 1 .. w : g[i] = f[o + i]
  <2>1. g \in [1 .. Len(g) -> S]
    BY <1>4, LenProperties
  <2>2. \A i \in 1 .. b - a + 1 : g[i] = f[a + i - 1]
    BY <1>4
  <2>3. QED
    BY <1>5, <2>1, <2>2
<1>7. QED
  BY <1>1, <1>3, <1>6

\* Half of a wide result is a result of at most four floats.
LEMMA PartShows ==
  ASSUME NEW n \in Nat, NEW r, NEW v, Result(v, r, n), ~v.double,
         NEW o \in {0, 4}, NEW w \in Nat, w >= 1, o + w = (IF o + 4 < n THEN o + 4 ELSE n), NEW name
  PROVE  LET u == SubOperand(v, name, w, 4, o)
         IN  Shows(u, name, r, o, w) /\ u.size = 4 /\ u.len = w /\ u.name = name
<1>1. Shows(v, "res", r, 0, n) /\ v.refs \in [1 .. n -> Cells] /\ DOMAIN v = OperandFields
  BY WholeShows DEF Shows
<1>2. /\ ~v.double /\ ~v.equal /\ v.idx \in [1 .. n -> Int]
      /\ \A i \in 1 .. n : v.refs[i] = r[0 + i] /\ v.idx[i] = r[0 + i].i - r[1].i
  BY <1>1 DEF Shows
<1>3. Len(v.refs) = n
  BY <1>1, CellsOfTuple
<1> DEFINE last == IF o + 4 < Len(v.refs) THEN o + 4 ELSE Len(v.refs)
<1>4. last = o + w
  BY <1>3
<1> HIDE DEF last
<1>5. PICK u : u = SubOperand(v, name, w, 4, o)
  OBVIOUS
<1>6. IsPart(u, v, name, w, 4, o, o + w)
  <2>1. o \in Nat
    OBVIOUS
  <2>2. IsPart(u, v, name, w, 4, o, last)
    BY <1>1, <1>5, <2>1, PartIs DEF last
  <2>3. QED
    BY <1>4, <2>2
<1>7. /\ DOMAIN u = OperandFields /\ u.name = name /\ u.len = w /\ u.size = 4 /\ (u.partial <=> w # 4)
      /\ u.refs = SubSeq(v.refs, o + 1, o + w) /\ u.idx = SubSeq(v.idx, o + 1, o + w)
  BY <1>6 DEF IsPart
<1>8. ~u.double /\ ~u.equal
  BY <1>2, <1>6 DEF IsPart
<1>9. o \in Nat /\ o + w <= n
  BY <1>3
<1>10. u.refs \in [1 .. w -> Cells] /\ \A i \in 1 .. w : u.refs[i] = v.refs[o + i]
  <2>1. PICK f \in [1 .. n -> Cells] : f = v.refs
    BY <1>1
  <2>2. o \in Nat /\ w \in Nat /\ o + w <= n
    BY <1>9
  <2>3. /\ SubSeq(f, o + 1, o + w) \in [1 .. w -> Cells]
        /\ \A i \in 1 .. w : SubSeq(f, o + 1, o + w)[i] = f[o + i]
    BY <2>2, CutIs
  <2>4. QED
    BY <1>7, <2>1, <2>3
<1>11. u.idx \in [1 .. w -> Int] /\ \A i \in 1 .. w : u.idx[i] = v.idx[o + i]
  <2>1. PICK f \in [1 .. n -> Int] : f = v.idx
    BY <1>2
  <2>2. o \in Nat /\ w \in Nat /\ o + w <= n
    BY <1>9
  <2>3. /\ SubSeq(f, o + 1, o + w) \in [1 .. w -> Int]
        /\ \A i \in 1 .. w : SubSeq(f, o + 1, o + w)[i] = f[o + i]
    BY <2>2, CutIs
  <2>4. QED
    BY <1>7, <2>1, <2>3
<1>12. \A i \in 1 .. w : o + i \in 1 .. n /\ 0 + (o + i) = o + i
  BY <1>9
<1>13. \A i \in 1 .. w : u.refs[i] = r[o + i] /\ u.idx[i] = r[o + i].i - r[1].i
  BY <1>2, <1>10, <1>11, <1>12
<1>14. Shows(u, name, r, o, w)
  BY <1>7, <1>8, <1>10, <1>11, <1>13 DEF Shows
<1>15. QED
  BY <1>5, <1>7, <1>14

\* Whether halves are contiguous does not depend on the register's name.
LEMMA SameHalves ==
  ASSUME NEW v, DOMAIN v = OperandFields, NEW a, NEW b, NEW len, NEW o \in Nat
  PROVE  SomeHalf(SubOperand(v, a, len, 4, o)) <=> SomeHalf(SubOperand(v, b, len, 4, o))
<1> DEFINE last == IF o + 4 < Len(v.refs) THEN o + 4 ELSE Len(v.refs)
<1>1. PICK s, t : s = SubOperand(v, a, len, 4, o) /\ t = SubOperand(v, b, len, 4, o)
  OBVIOUS
<1>2. IsPart(s, v, a, len, 4, o, last) /\ IsPart(t, v, b, len, 4, o, last)
  BY <1>1, PartIs
<1>3. s.len = t.len /\ s.size = t.size /\ s.idx = t.idx
  BY <1>2 DEF IsPart
<1>4. GetContiguityRanges(s) = GetContiguityRanges(t)
  BY <1>3 DEF GetContiguityRanges
<1>5. Halves(s) = Halves(t)
  BY <1>3, <1>4 DEF Halves
<1>6. SomeHalf(s) <=> SomeHalf(t)
  BY <1>5 DEF SomeHalf
<1>7. QED
  BY <1>1, <1>6

\* A register is extracted.
LEMMA ExtractIs ==
  ASSUME NEW v, v.name = "res", NEW name, NEW kind
  PROVE  \E x : /\ Extract(v, name, kind) = <<x>> /\ x.w = 4 /\ x.cells = Empty
                /\ x.from = <<"res">> /\ x.kind = kind /\ x.reg = name
<1>1. PICK x : x = [Inst(kind, name, 4, Empty) EXCEPT !.from = <<v.name>>]
  OBVIOUS
<1>2. /\ x.w = 4 /\ x.cells = Empty /\ x.from = <<"res">> /\ x.kind = kind /\ x.reg = name
  BY <1>1 DEF Inst
<1>3. Extract(v, name, kind) = <<x>>
  BY <1>1 DEF Extract
<1>4. QED
  BY <1>2, <1>3

\* The low half of a wide result, which is extracted if it has contiguous halves.
LEMMA LowCode ==
  ASSUME NEW n \in Nat, NEW r, NEW v, Result(v, r, n), ~v.double, n > 4, NEW low,
         low = SubOperand(v, Low, 4, 4, 0)
  PROVE  /\ SomeHalf(low) =>
              StoreCode(Extract(v, low.name, "low") \o Vscatter4Elements(low), r, n, 1 .. 4)
         /\ ~SomeHalf(low) => StoreCode(<<>> \o Vscatter4Elements(low), r, n, {})
<1>1. Shows(low, Low, r, 0, 4) /\ low.size = 4 /\ low.name = Low
  <2>1. 0 \in {0, 4} /\ 4 \in Nat /\ 4 >= 1 /\ 0 + 4 = (IF 0 + 4 < n THEN 0 + 4 ELSE n)
    OBVIOUS
  <2>2. PICK o \in {0, 4}, w \in Nat : o = 0 /\ w = 4 /\ w >= 1 /\ o + w = (IF o + 4 < n THEN o + 4 ELSE n)
    BY <2>1
  <2>3. PICK name : name = Low
    OBVIOUS
  <2>4. PICK u : u = SubOperand(v, name, w, 4, o)
    OBVIOUS
  <2>5. Shows(u, name, r, o, w) /\ u.size = 4 /\ u.name = name
    BY <2>2, <2>4, PartShows
  <2>6. QED
    BY <2>2, <2>3, <2>4, <2>5
<1>2. /\ SomeHalf(low) => PutsAll(Vscatter4Elements(low), Low, r, 0, 4, 0 .. 4 - 1)
      /\ ~SomeHalf(low) => Vscatter4Elements(low) = <<>>
  <2>1. n \in Nat /\ r \in [1 .. n -> Cells] /\ SameRow(r)
    BY DEF Result
  <2>2. 0 \in Nat /\ 4 \in Nat /\ 4 >= 1 /\ 0 + 4 <= n /\ 4 <= 4
    OBVIOUS
  <2>3. QED
    BY <1>1, <2>1, <2>2, FourPut
<1>3. CASE SomeHalf(low)
  <2>1. PICK x : /\ Extract(v, low.name, "low") = <<x>> /\ x.w = 4 /\ x.cells = Empty
                 /\ x.from = <<"res">> /\ x.kind = "low" /\ x.reg = low.name
    <3>1. v.name = "res"
      BY DEF Result
    <3>2. QED
      BY <3>1, ExtractIs
  <2>2. Extracts(x) /\ x.reg = Low
    BY <1>1, <2>1 DEF Extracts
  <2>3. PICK ss : ss = Vscatter4Elements(low)
    OBVIOUS
  <2>4. PICK I : I = 0 .. 4 - 1
    OBVIOUS
  <2>5. PutsAll(ss, x.reg, r, 0, 4, I) /\ I \subseteq Int
    BY <1>2, <1>3, <2>2, <2>3, <2>4
  <2>6. PICK o \in Nat, w \in Int : o = 0 /\ w = 4 /\ n > 4
    OBVIOUS
  <2>7. StoreCode(<<x>> \o ss, r, n, {o + k + 1 : k \in I})
    <3>1. /\ n \in Nat /\ Extracts(x) /\ I \subseteq Int
          /\ \/ x.reg = Low /\ o = 0 /\ w = 4 /\ n > 4
             \/ x.reg = High /\ o = 4 /\ w = n - 4
      BY <2>2, <2>5, <2>6
    <3>2. PutsAll(ss, x.reg, r, o, w, I)
      BY <2>5, <2>6
    <3>3. QED
      BY ONLY <3>1, <3>2, HalfCode
  <2>8. {o + k + 1 : k \in I} = 1 .. 4
    <3>1. \A i \in 1 .. 4 : i - 1 \in I /\ i = o + (i - 1) + 1
      BY <2>4, <2>6
    <3>2. \A k \in I : o + k + 1 \in 1 .. 4
      BY <2>4, <2>6
    <3>3. QED
      BY <3>1, <3>2
  <2>9. QED
    BY <1>3, <2>1, <2>3, <2>7, <2>8
<1>4. CASE ~SomeHalf(low)
  <2>1. <<>> \o Vscatter4Elements(low) = <<>>
    BY <1>2, <1>4
  <2>2. QED
    BY <1>4, <2>1, NoStoreCode
<1>5. QED
  BY <1>3, <1>4

\* The high half of a wide result, which is extracted always.
LEMMA HighCode ==
  ASSUME NEW n \in Nat, NEW r, NEW v, Result(v, r, n), ~v.double, n > 4, NEW high,
         high = SubOperand(v, High, v.len - 4, 4, 4)
  PROVE  /\ SomeHalf(high) =>
              StoreCode(Extract(v, high.name, "high") \o Vscatter4Elements(high), r, n, 5 .. n)
         /\ ~SomeHalf(high) =>
              StoreCode(Extract(v, high.name, "high") \o Vscatter4Elements(high), r, n, {})
         /\ \E x : Extract(v, high.name, "high") = <<x>>
         /\ Vscatter4Elements(high) \in Seq(Members(Vscatter4Elements(high)))
<1>1. PICK o \in {0, 4}, w \in Nat :
        /\ o = 4 /\ w = n - 4 /\ w >= 1 /\ w <= 4
        /\ o + w = (IF o + 4 < n THEN o + 4 ELSE n)
  <2>1. n <= 8
    BY DEF Result
  <2>2. n - 4 \in Nat /\ n - 4 >= 1 /\ n - 4 <= 4 /\ 4 + (n - 4) = (IF 4 + 4 < n THEN 4 + 4 ELSE n)
    BY <2>1
  <2>3. QED
    BY <2>2
<1>2. Shows(high, High, r, o, w) /\ high.size = 4 /\ high.name = High
  <2>1. PICK name : name = High
    OBVIOUS
  <2>2. PICK u : u = SubOperand(v, name, w, 4, o)
    OBVIOUS
  <2>3. Shows(u, name, r, o, w) /\ u.size = 4 /\ u.name = name
    BY <1>1, <2>2, PartShows
  <2>4. v.len - 4 = w
    BY <1>1 DEF Result
  <2>5. u = high
    BY <1>1, <2>1, <2>2, <2>4
  <2>6. QED
    BY <2>1, <2>3, <2>5
<1>3. /\ SomeHalf(high) => PutsAll(Vscatter4Elements(high), High, r, o, w, 0 .. w - 1)
      /\ ~SomeHalf(high) => Vscatter4Elements(high) = <<>>
  <2>1. n \in Nat /\ r \in [1 .. n -> Cells] /\ SameRow(r)
    BY DEF Result
  <2>2. o \in Nat /\ o + w <= n
    BY <1>1
  <2>3. QED
    BY <1>1, <1>2, <2>1, <2>2, FourPut
<1>4. PICK x : /\ Extract(v, high.name, "high") = <<x>> /\ x.w = 4 /\ x.cells = Empty
               /\ x.from = <<"res">> /\ x.kind = "high" /\ x.reg = high.name
  <2>1. v.name = "res"
    BY DEF Result
  <2>2. QED
    BY <2>1, ExtractIs
<1>5. Extracts(x) /\ x.reg = High
  BY <1>2, <1>4 DEF Extracts
<1>6. PICK ss : ss = Vscatter4Elements(high)
  OBVIOUS
<1>7. PICK I : I = IF SomeHalf(high) THEN 0 .. w - 1 ELSE {}
  OBVIOUS
<1>8. PutsAll(ss, x.reg, r, o, w, I) /\ I \subseteq Int
  <2>1. CASE SomeHalf(high)
    BY <1>3, <1>5, <1>6, <1>7, <2>1
  <2>2. CASE ~SomeHalf(high)
    <3>1. ss = <<>> /\ I = {}
      BY <1>3, <1>6, <1>7, <2>2
    <3>2. PutsAll(<<>>, x.reg, r, o, w, {})
      BY PutsFew
    <3>3. QED
      BY <3>1, <3>2
  <2>3. QED
    BY <2>1, <2>2
<1>9. StoreCode(<<x>> \o ss, r, n, {o + k + 1 : k \in I})
  <2>1. o \in Nat /\ w \in Int
    OBVIOUS
  <2>2. \/ x.reg = Low /\ o = 0 /\ w = 4 /\ n > 4
        \/ x.reg = High /\ o = 4 /\ w = n - 4
    BY <1>1, <1>5
  <2>3. Extracts(x) /\ PutsAll(ss, x.reg, r, o, w, I) /\ I \subseteq Int
    BY <1>5, <1>8
  <2>4. QED
    BY ONLY n \in Nat, <2>1, <2>2, <2>3, HalfCode
<1>10. SomeHalf(high) => StoreCode(<<x>> \o ss, r, n, 5 .. n)
  <2>1. SUFFICES ASSUME SomeHalf(high)
                 PROVE  {o + k + 1 : k \in I} = 5 .. n
    BY <1>9
  <2>2. \A i \in 5 .. n : i - 5 \in I /\ i = o + (i - 5) + 1
    BY <1>1, <1>7, <2>1
  <2>3. \A k \in I : o + k + 1 \in 5 .. n
    BY <1>1, <1>7, <2>1
  <2>4. QED
    BY <2>2, <2>3
<1>11. ~SomeHalf(high) => StoreCode(<<x>> \o ss, r, n, {})
  <2>1. SUFFICES ASSUME ~SomeHalf(high)
                 PROVE  {o + k + 1 : k \in I} = {}
    BY <1>9
  <2>2. QED
    BY <1>7, <2>1
<1>12. ss \in Seq(Members(ss))
  BY <1>8 DEF PutsAll
<1>13. QED
  BY <1>4, <1>6, <1>10, <1>11, <1>12

\* Code is put together in any order.
LEMMA CodeAssociative ==
  ASSUME NEW s, NEW t, NEW u,
         s \in Seq(Members(s)), t \in Seq(Members(t)), u \in Seq(Members(u))
  PROVE  (s \o t) \o u = s \o (t \o u)
<1> DEFINE S == Members(s) \cup Members(t) \cup Members(u)
<1>1. Members(s) \subseteq S /\ Members(t) \subseteq S /\ Members(u) \subseteq S
  OBVIOUS
<1> HIDE DEF S
<1>2. s \in Seq(S) /\ t \in Seq(S) /\ u \in Seq(S)
  BY <1>1, SeqOfMembers
<1>3. QED
  BY <1>2, ConcatAssociative

\* The code of a wide result stores all lanes.
LEMMA WideCode ==
  ASSUME NEW n \in Nat, NEW r, NEW v, Result(v, r, n), ~v.double, n > 4, v.size > 4,
         NEW avx512 \in BOOLEAN, avx512 => Fills(v) /\ ~HalfScattered(v)
  PROVE  StoreCode(ScatterWide(v, avx512), r, n, 1 .. n)
<1>1. PICK low, high : /\ low = SubOperand(v, Low, 4, 4, 0)
                       /\ high = SubOperand(v, High, v.len - 4, 4, 4)
  OBVIOUS
<1>2. v.len = n /\ DOMAIN v = OperandFields
  BY DEF Result
<1>3. low.name = Low /\ high.name = High
  <2>1. 0 \in Nat /\ 4 \in Nat
    OBVIOUS
  <2>2. \E last : IsPart(low, v, Low, 4, 4, 0, last)
    BY <1>1, <1>2, <2>1, PartIs
  <2>3. \E last : IsPart(high, v, High, v.len - 4, 4, 4, last)
    BY <1>1, <1>2, <2>1, PartIs
  <2>4. QED
    BY <2>2, <2>3 DEF IsPart
<1>4. PICK begin : begin = (IF SomeHalf(low) THEN Extract(v, low.name, "low") ELSE <<>>)
                           \o Vscatter4Elements(low)
  OBVIOUS
<1>5. PICK x, ss, end : /\ x = Extract(v, high.name, "high") /\ ss = Vscatter4Elements(high)
                        /\ end = x \o ss
  OBVIOUS
<1>6. StoreCode(begin, r, n, IF SomeHalf(low) THEN 1 .. 4 ELSE {})
  <2>1. /\ SomeHalf(low) =>
             StoreCode(Extract(v, low.name, "low") \o Vscatter4Elements(low), r, n, 1 .. 4)
        /\ ~SomeHalf(low) => StoreCode(<<>> \o Vscatter4Elements(low), r, n, {})
    BY <1>1, LowCode
  <2>2. CASE SomeHalf(low)
    BY <1>4, <2>1, <2>2
  <2>3. CASE ~SomeHalf(low)
    BY <1>4, <2>1, <2>3
  <2>4. QED
    BY <2>2, <2>3
<1>7. /\ StoreCode(end, r, n, IF SomeHalf(high) THEN 5 .. n ELSE {})
      /\ x \in Seq(Members(x)) /\ ss \in Seq(Members(ss))
  <2>1. /\ SomeHalf(high) =>
             StoreCode(Extract(v, high.name, "high") \o Vscatter4Elements(high), r, n, 5 .. n)
        /\ ~SomeHalf(high) =>
             StoreCode(Extract(v, high.name, "high") \o Vscatter4Elements(high), r, n, {})
        /\ \E y : Extract(v, high.name, "high") = <<y>>
        /\ Vscatter4Elements(high) \in Seq(Members(Vscatter4Elements(high)))
    BY <1>1, HighCode
  <2>2. x \in Seq(Members(x))
    <3>1. PICK y : x = <<y>>
      BY <1>5, <2>1
    <3>2. y \in {y}
      OBVIOUS
    <3>3. <<y>> \in Seq({y}) /\ Members(<<y>>) = {y}
      BY <3>2, FewMembers
    <3>4. QED
      BY <3>1, <3>3
  <2>3. ss \in Seq(Members(ss))
    BY <1>5, <2>1
  <2>4. CASE SomeHalf(high)
    BY <1>5, <2>1, <2>2, <2>3, <2>4
  <2>5. CASE ~SomeHalf(high)
    BY <1>5, <2>1, <2>2, <2>3, <2>5
  <2>6. QED
    BY <2>4, <2>5
<1>8. PICK all : all = begin \o end
  OBVIOUS
<1>9. StoreCode(all, r, n, (IF SomeHalf(low) THEN 1 .. 4 ELSE {})
                            \cup (IF SomeHalf(high) THEN 5 .. n ELSE {}))
  BY <1>6, <1>7, <1>8, StoreCodeConcat
<1>10. begin \in Seq(Members(begin))
  BY <1>6 DEF StoreCode
<1>11. (begin \o x) \o ss = all
  <2>1. /\ begin \in Seq(Members(begin)) /\ x \in Seq(Members(x)) /\ ss \in Seq(Members(ss))
    BY <1>7, <1>10
  <2>2. (begin \o x) \o ss = begin \o (x \o ss)
    BY ONLY <2>1, CodeAssociative
  <2>3. QED
    BY <1>5, <1>8, <2>2
<1>12. ScatterWide(v, avx512) =
         IF ~SomeHalf(low) /\ ~SomeHalf(high) THEN OneByOne(v, avx512)
         ELSE IF ~SomeHalf(high)
         THEN all \o (IF avx512 THEN VscatterAVX512(high) ELSE StoreElements(v, 4, v.len - 1))
         ELSE IF ~SomeHalf(low)
         THEN all \o (IF avx512 THEN Extract(v, low.name, "low") \o VscatterAVX512(low)
                       ELSE StoreElements(v, 0, 3))
         ELSE all
  BY <1>1, <1>4, <1>5, <1>11 DEF ScatterWide, Low, High
<1>13. avx512 => (SomeHalf(low) <=> SomeHalf(high))
  <2>1. 0 \in Nat /\ 4 \in Nat
    OBVIOUS
  <2>2. SomeHalf(SubOperand(v, v.name, 4, 4, 0)) <=> SomeHalf(low)
    BY <1>1, <1>2, <2>1, SameHalves
  <2>3. SomeHalf(SubOperand(v, v.name, v.len - 4, 4, 4)) <=> SomeHalf(high)
    BY <1>1, <1>2, <2>1, SameHalves
  <2>4. SomeHalf(low) \in BOOLEAN /\ SomeHalf(high) \in BOOLEAN
    BY DEF SomeHalf
  <2>5. SomeHalf(SubOperand(v, v.name, 4, 4, 0)) \in BOOLEAN
        /\ SomeHalf(SubOperand(v, v.name, v.len - 4, 4, 4)) \in BOOLEAN
    BY DEF SomeHalf
  <2>6. QED
    BY <2>2, <2>3, <2>4, <2>5 DEF HalfScattered
<1>14. CASE ~SomeHalf(low) /\ ~SomeHalf(high)
  <2>1. PutsAll(OneByOne(v, avx512), "res", r, 0, n, 0 .. n - 1)
    BY OneByOnePuts
  <2>2. PICK b \in Int : b = n - 1 /\ b + 1 = n
    OBVIOUS
  <2>3. StoreCode(OneByOne(v, avx512), r, n, 0 + 1 .. b + 1)
    BY <2>1, <2>2, DirectCode
  <2>4. QED
    BY <1>12, <1>14, <2>2, <2>3
<1>15. CASE SomeHalf(low) /\ ~SomeHalf(high)
  <2>1. PICK a \in Nat, b \in Nat : a = 4 /\ b = n - 1 /\ a <= b + 1 /\ b <= n - 1 /\ a + 1 = 5 /\ b + 1 = n
    OBVIOUS
  <2>2. PutsAll(StoreElements(v, a, b), "res", r, 0, n, a .. b)
    BY <2>1, SinglesPut
  <2>3. StoreCode(StoreElements(v, a, b), r, n, a + 1 .. b + 1)
    BY <2>2, DirectCode
  <2>4. StoreCode(all, r, n, (1 .. 4) \cup {})
    BY <1>9, <1>15
  <2>5. StoreCode(all \o StoreElements(v, a, b), r, n, ((1 .. 4) \cup {}) \cup (5 .. n))
    BY <2>1, <2>3, <2>4, StoreCodeConcat
  <2>6. ((1 .. 4) \cup {}) \cup (5 .. n) = 1 .. n
    OBVIOUS
  <2>7. ScatterWide(v, avx512) = all \o StoreElements(v, a, b)
    BY <1>2, <1>12, <1>13, <1>15, <2>1
  <2>8. QED
    BY <2>5, <2>6, <2>7
<1>16. CASE ~SomeHalf(low) /\ SomeHalf(high)
  <2>1. PICK a \in Nat, b \in Nat : a = 0 /\ b = 3 /\ a <= b + 1 /\ b <= n - 1 /\ a + 1 = 1 /\ b + 1 = 4
    OBVIOUS
  <2>2. PutsAll(StoreElements(v, a, b), "res", r, 0, n, a .. b)
    BY <2>1, SinglesPut
  <2>3. StoreCode(StoreElements(v, a, b), r, n, a + 1 .. b + 1)
    BY <2>2, DirectCode
  <2>4. StoreCode(all, r, n, {} \cup (5 .. n))
    BY <1>9, <1>16
  <2>5. StoreCode(all \o StoreElements(v, a, b), r, n, ({} \cup (5 .. n)) \cup (1 .. 4))
    BY <2>1, <2>3, <2>4, StoreCodeConcat
  <2>6. ({} \cup (5 .. n)) \cup (1 .. 4) = 1 .. n
    OBVIOUS
  <2>7. ScatterWide(v, avx512) = all \o StoreElements(v, a, b)
    BY <1>2, <1>12, <1>13, <1>16, <2>1
  <2>8. QED
    BY <2>5, <2>6, <2>7
<1>17. CASE SomeHalf(low) /\ SomeHalf(high)
  <2>1. StoreCode(all, r, n, (1 .. 4) \cup (5 .. n))
    BY <1>9, <1>17
  <2>2. (1 .. 4) \cup (5 .. n) = 1 .. n
    OBVIOUS
  <2>3. QED
    BY <1>12, <1>17, <2>1, <2>2
<1>18. QED
  BY <1>14, <1>15, <1>16, <1>17

\* A result that can be stored is: every lane goes to its cell.
LEMMA ResultStored ==
  ASSUME NEW n \in Nat, NEW r, NEW v, Result(v, r, n), NEW avx512 \in BOOLEAN, Storable(v, avx512)
  PROVE  StoreCode(StoreResult(v, avx512), r, n, 1 .. n)
<1>1. /\ n >= 2 /\ n <= 8 /\ v.len = n /\ (v.double => n <= 4) /\ n <= v.size /\ v.size \in {2, 4, 8}
      /\ r \in [1 .. n -> Cells] /\ SameRow(r)
  BY DEF Result
<1>2. /\ v.double => (v.contiguous /\ n = 4) \/ (~v.contiguous /\ ~SomeHalf(v))
      /\ avx512 /\ ~v.contiguous /\ n >= 4 => Fills(v) /\ ~v.double /\ ~HalfScattered(v)
  BY <1>1 DEF Storable, Scatterable
<1>3. ASSUME NEW ss, PutsAll(ss, "res", r, 0, n, 0 .. n - 1)
      PROVE  StoreCode(ss, r, n, 1 .. n)
  <2>1. PICK a \in Int, b \in Int : a = 0 /\ b = n - 1 /\ a + 1 = 1 /\ b + 1 = n
    OBVIOUS
  <2>2. StoreCode(ss, r, n, a + 1 .. b + 1)
    BY <1>3, <2>1, DirectCode
  <2>3. QED
    BY <2>1, <2>2
<1>4. CASE v.contiguous
  <2>1. v.double => n = 4
    BY <1>2, <1>4
  <2>2. PutsAll(Vstore(v), "res", r, 0, n, 0 .. n - 1)
    BY <1>4, <2>1, RowPuts
  <2>3. QED
    BY <1>3, <1>4, <2>2 DEF StoreResult
<1>5. CASE ~v.contiguous
  <2>1. StoreResult(v, avx512) = Vscatter(v, avx512)
    BY <1>5 DEF StoreResult
  <2>2. CASE n < 4
    <3>1. PutsAll(SingleElementScatter(v), "res", r, 0, n, 0 .. n - 1)
      BY OneByOnePuts DEF OneByOne
    <3>2. Vscatter(v, avx512) = SingleElementScatter(v)
      BY <1>1, <2>2 DEF Vscatter
    <3>3. QED
      BY <1>3, <2>1, <3>1, <3>2
  <2>3. ASSUME n >= 4, Vscatter(v, avx512) = OneByOne(v, avx512)
        PROVE  StoreCode(StoreResult(v, avx512), r, n, 1 .. n)
    <3>1. avx512 => Fills(v) /\ ~v.double
      BY <1>2, <1>5, <2>3
    <3>2. PutsAll(OneByOne(v, avx512), "res", r, 0, n, 0 .. n - 1)
      BY <3>1, OneByOnePuts
    <3>3. QED
      BY <1>3, <2>1, <2>3, <3>2
  <2>4. CASE n >= 4 /\ v.size > 4
    <3>1. CASE Singles(v)
      BY <1>1, <2>3, <2>4, <3>1 DEF Vscatter, Singles
    <3>2. CASE ~Singles(v)
      <4>1. Vscatter(v, avx512) = ScatterWide(v, avx512)
        BY <1>1, <2>4, <3>2 DEF Vscatter, Singles
      <4>2. n > 4 /\ ~v.double
        BY <2>4 DEF Result
      <4>3. avx512 => Fills(v) /\ ~HalfScattered(v)
        BY <1>2, <1>5, <2>4
      <4>4. StoreCode(ScatterWide(v, avx512), r, n, 1 .. n)
        BY <2>4, <4>2, <4>3, WideCode
      <4>5. QED
        BY <2>1, <4>1, <4>4
    <3>3. QED
      BY <3>1, <3>2
  <2>5. CASE n >= 4 /\ ~(v.size > 4)
    <3>1. n = 4 /\ v.size = 4
      BY <1>1, <2>5
    <3>2. CASE ~Singles(v) /\ SomeHalf(v)
      <4>1. Vscatter(v, avx512) = Vscatter4Elements(v)
        BY <1>1, <3>1, <3>2 DEF Vscatter, Singles
      <4>2. ~v.double
        BY <1>2, <1>5, <3>2
      <4>3. Shows(v, "res", r, 0, n)
        BY <4>2, WholeShows
      <4>4. 0 \in Nat /\ n >= 1 /\ 0 + n <= n /\ n <= 4
        BY <3>1
      <4>5. PutsAll(Vscatter4Elements(v), "res", r, 0, n, 0 .. n - 1)
        BY <1>1, <3>1, <3>2, <4>3, <4>4, FourPut
      <4>6. QED
        BY <1>3, <2>1, <4>1, <4>5
    <3>3. CASE Singles(v) \/ ~SomeHalf(v)
      <4>1. Vscatter(v, avx512) = OneByOne(v, avx512)
        BY <1>1, <3>1, <3>3 DEF Vscatter, Singles
      <4>2. QED
        BY <2>3, <2>5, <4>1
    <3>4. QED
      BY <3>2, <3>3
  <2>6. QED
    BY <1>1, <2>2, <2>4, <2>5
<1>6. QED
  BY <1>4, <1>5

-------------------------------------------------------------------------------
(***************************************************************************)
(* Whatever the operands, there are registers of the width of every        *)
(* instruction.                                                            *)
(***************************************************************************)
Widths == {2, 4, 8}

Wide(ss) == ss \in Seq(Members(ss)) /\ \A m \in Members(ss) : m.w \in Widths

\* No code, and one instruction.
LEMMA WideFew ==
  /\ Wide(<<>>)
  /\ \A m : m.w \in Widths => Wide(<<m>>)
  /\ \A kind, reg, cells : \A w \in Widths : Wide(<<Inst(kind, reg, w, cells)>>)
  /\ \A reg : \A w \in Widths : Wide(Invalid(reg, w))
<1>1. Wide(<<>>)
  <2>1. Members(<<>>) = {} /\ <<>> \in Seq(Members(<<>>))
    BY FewMembers
  <2>2. QED
    BY <2>1 DEF Wide
<1>2. ASSUME NEW m, m.w \in Widths
      PROVE  Wide(<<m>>)
  <2>1. m \in {m}
    OBVIOUS
  <2>2. Members(<<m>>) = {m} /\ <<m>> \in Seq({m})
    BY <2>1, FewMembers
  <2>3. QED
    BY <1>2, <2>2 DEF Wide
<1>3. ASSUME NEW kind, NEW reg, NEW cells, NEW w \in Widths
      PROVE  Wide(<<Inst(kind, reg, w, cells)>>)
  <2>1. PICK m : m = Inst(kind, reg, w, cells)
    OBVIOUS
  <2>2. m.w = w
    BY <2>1 DEF Inst
  <2>3. QED
    BY <1>2, <2>1, <2>2
<1>4. \A reg : \A w \in Widths : Wide(Invalid(reg, w))
  BY <1>3 DEF Invalid
<1>5. QED
  BY <1>1, <1>2, <1>3, <1>4

\* One piece of code after the other.
LEMMA WideConcat ==
  ASSUME NEW s, NEW t, Wide(s), Wide(t)
  PROVE  Wide(s \o t)
<1>1. s \in Seq(Members(s)) /\ t \in Seq(Members(t))
  BY DEF Wide
<1>2. s \o t \in Seq(Members(s \o t)) /\ Members(s \o t) = Members(s) \cup Members(t)
  BY <1>1, JoinedMembers
<1>3. QED
  BY <1>2 DEF Wide

\* What loads an operand.
LEMMA LoadWide ==
  ASSUME NEW v, v.size \in Widths, NEW recipe
  PROVE  Wide(GetSIMDVOperand(v, recipe))
<1>1. 4 \in Widths /\ 2 \in Widths
  BY DEF Widths
<1>2. PICK w \in Widths : w = v.size
  OBVIOUS
<1>3. Wide(Vload(v))
  BY <1>1, <1>2, WideFew DEF Vload
<1>4. Wide(Vbcast(v))
  BY <1>1, <1>2, WideFew DEF Vbcast
<1>5. Wide(Vpack(v, recipe))
  BY <1>2, WideFew DEF Vpack, Vgather
<1>6. Wide(Vset(v))
  BY <1>2, WideFew DEF Vset
<1>7. Wide(<<>>)
  BY WideFew
<1>8. QED
  BY <1>3, <1>4, <1>5, <1>6, <1>7 DEF GetSIMDVOperand

\* A store of neighbours.
LEMMA RowWide ==
  ASSUME NEW v, v.size \in Widths
  PROVE  Wide(Vstore(v))
<1>1. PICK w \in Widths : w = v.size
  OBVIOUS
<1>2. QED
  BY <1>1, WideFew DEF Vstore, StoreHalf

\* Stores of elements, of which there may be none.
LEMMA ElementsWide ==
  ASSUME NEW v, v.size \in Widths, NEW a \in Int, NEW b \in Int
  PROVE  Wide(StoreElements(v, a, b))
<1> DEFINE e(k) == Inst("store", v.name, v.size, Only(a + k - 1, v.refs[a + k]))
<1>1. StoreElements(v, a, b) = [k \in 1 .. b - a + 1 |-> e(k)]
  BY DEF StoreElements
<1>2. \A k : e(k).w \in Widths
  BY DEF Inst
<1> HIDE DEF e
<1>3. PICK N \in Nat : 1 .. b - a + 1 = 1 .. N
  <2>1. CASE b - a + 1 >= 0
    <3>1. b - a + 1 \in Nat
      BY <2>1
    <3>2. QED
      BY <3>1
  <2>2. CASE ~(b - a + 1 >= 0)
    <3>1. 1 .. b - a + 1 = 1 .. 0
      BY <2>2
    <3>2. QED
      BY <3>1
  <2>3. QED
    BY <2>1, <2>2
<1>4. PICK ss : ss = [k \in 1 .. N |-> e(k)]
  OBVIOUS
<1>5. Members(ss) = {e(k) : k \in 1 .. N}
  BY <1>4 DEF Members
<1>6. \A k \in 1 .. N : e(k) \in Members(ss)
  BY <1>5
<1>7. ss \in Seq(Members(ss))
  <2>1. PICK S : S = Members(ss)
    OBVIOUS
  <2>2. [k \in 1 .. N |-> e(k)] \in Seq(S)
    BY <1>6, <2>1
  <2>3. QED
    BY <1>4, <2>1, <2>2
<1>8. \A m \in Members(ss) : m.w \in Widths
  BY <1>2, <1>5
<1>9. Wide(ss)
  BY <1>7, <1>8 DEF Wide
<1>10. QED
  BY <1>1, <1>3, <1>4, <1>9

\* A part is an operand of its width.
LEMMA PartWide ==
  ASSUME NEW v, DOMAIN v = OperandFields, NEW name, NEW len, NEW size, NEW o \in Nat
  PROVE  LET u == SubOperand(v, name, len, size, o)
         IN  u.size = size /\ u.len = len /\ u.name = name /\ DOMAIN u = OperandFields
<1> DEFINE last == IF o + size < Len(v.refs) THEN o + size ELSE Len(v.refs)
<1>1. PICK u : u = SubOperand(v, name, len, size, o)
  OBVIOUS
<1>2. IsPart(u, v, name, len, size, o, last)
  BY <1>1, PartIs
<1>3. QED
  BY <1>1, <1>2 DEF IsPart

\* Stores of halves.
LEMMA FourWide ==
  ASSUME NEW u, DOMAIN u = OperandFields, u.size \in Widths, u.len \in Int
  PROVE  Wide(Vscatter4Elements(u))
<1> DEFINE h == Halves(u)
           sub(o) == Vstore(SubOperand(u, u.name, 2, 4, o))
           low == IF h.first THEN sub(0) ELSE <<>>
           high == IF h.second THEN sub(2) ELSE <<>>
           begin == IF ~h.first /\ h.second THEN StoreElements(u, 0, 1) ELSE <<>>
           rest == IF h.first /\ ~h.second THEN StoreElements(u, 2, u.len - 1) ELSE <<>>
<1>1. Vscatter4Elements(u) = IF h.full THEN Vstore(u) ELSE low \o high \o begin \o rest
  BY DEF Vscatter4Elements
<1>2. Wide(<<>>)
  BY WideFew
<1>3. Wide(sub(0)) /\ Wide(sub(2))
  <2>1. PICK s, t : s = SubOperand(u, u.name, 2, 4, 0) /\ t = SubOperand(u, u.name, 2, 4, 2)
    OBVIOUS
  <2>2. 0 \in Nat /\ 2 \in Nat
    OBVIOUS
  <2>3. s.size = 4 /\ t.size = 4
    BY <2>1, <2>2, PartWide
  <2>4. Wide(Vstore(s)) /\ Wide(Vstore(t))
    BY <2>3, RowWide DEF Widths
  <2>5. QED
    BY <2>1, <2>4
<1>4. Wide(StoreElements(u, 0, 1)) /\ Wide(StoreElements(u, 2, u.len - 1))
  <2>1. 0 \in Int /\ 1 \in Int /\ 2 \in Int /\ u.len - 1 \in Int
    OBVIOUS
  <2>2. QED
    BY <2>1, ElementsWide
<1>5. Wide(low) /\ Wide(high) /\ Wide(begin) /\ Wide(rest)
  <2> HIDE DEF sub, h
  <2>1. QED
    BY <1>2, <1>3, <1>4
<1> HIDE DEF low, high, begin, rest
<1>6. Wide(low \o high \o begin \o rest)
  <2>1. Wide(low \o high)
    BY <1>5, WideConcat
  <2>2. Wide((low \o high) \o begin)
    BY <1>5, <2>1, WideConcat
  <2>3. QED
    BY <1>5, <2>2, WideConcat
<1>7. Wide(Vstore(u))
  BY RowWide
<1>8. QED
  BY <1>1, <1>6, <1>7

\* Stores of a result.
LEMMA StoreWide ==
  ASSUME NEW v, DOMAIN v = OperandFields, v.size \in Widths, v.len \in Int, NEW avx512
  PROVE  Wide(StoreResult(v, avx512))
<1>1. \A a, b \in Int : Wide(StoreElements(v, a, b))
  BY ElementsWide
<1>2. v.len - 1 \in Int /\ 0 \in Int /\ 4 \in Int /\ 3 \in Int /\ v.len - 4 \in Int
  OBVIOUS
<1>3. Wide(SingleElementScatter(v))
  BY <1>1, <1>2 DEF SingleElementScatter
<1>4. \A u : u.size \in Widths => Wide(VscatterAVX512(u))
  <2>1. SUFFICES ASSUME NEW u, u.size \in Widths
                 PROVE  Wide(VscatterAVX512(u))
    OBVIOUS
  <2>2. PICK w \in Widths : w = u.size
    BY <2>1
  <2>3. QED
    BY <2>2, WideFew DEF VscatterAVX512
<1>5. Wide(OneByOne(v, avx512))
  BY <1>3, <1>4 DEF OneByOne
<1>6. Wide(Vstore(v)) /\ Wide(Vscatter4Elements(v))
  BY RowWide, FourWide
<1>7. Wide(ScatterWide(v, avx512))
  <2>1. PICK low, high : /\ low = SubOperand(v, "_mm256_castps256_ps128", 4, 4, 0)
                         /\ high = SubOperand(v, "__tmp_extract_128", v.len - 4, 4, 4)
    OBVIOUS
  <2>2. /\ low.size = 4 /\ low.len = 4 /\ DOMAIN low = OperandFields
        /\ high.size = 4 /\ high.len = v.len - 4 /\ DOMAIN high = OperandFields
    <3>1. 0 \in Nat /\ 4 \in Nat
      OBVIOUS
    <3>2. QED
      BY <2>1, <3>1, PartWide
  <2>3. 4 \in Widths
    BY DEF Widths
  <2>4. Wide(Vscatter4Elements(low)) /\ Wide(Vscatter4Elements(high))
    BY <1>2, <2>2, <2>3, FourWide
  <2>5. Wide(VscatterAVX512(low)) /\ Wide(VscatterAVX512(high))
    BY <1>4, <2>2, <2>3
  <2>6. \A name, kind : Wide(Extract(v, name, kind))
    <3>1. SUFFICES ASSUME NEW name, NEW kind
                   PROVE  Wide(Extract(v, name, kind))
      OBVIOUS
    <3>2. PICK x : x = [Inst(kind, name, 4, Empty) EXCEPT !.from = <<v.name>>]
      OBVIOUS
    <3>3. x.w = 4
      BY <3>2 DEF Inst
    <3>4. Wide(<<x>>)
      BY <2>3, <3>3, WideFew
    <3>5. QED
      BY <3>2, <3>4 DEF Extract
  <2>7. Wide(<<>>)
    BY WideFew
  <2>8. PICK e1, e2, v1, v2 : /\ e1 = Extract(v, low.name, "low") /\ e2 = Extract(v, high.name, "high")
                              /\ v1 = Vscatter4Elements(low) /\ v2 = Vscatter4Elements(high)
    OBVIOUS
  <2>9. PICK all : all = (IF SomeHalf(low) THEN e1 ELSE <<>>) \o v1 \o e2 \o v2
    OBVIOUS
  <2>10. Wide(all)
    <3>1. PICK e0 : e0 = (IF SomeHalf(low) THEN e1 ELSE <<>>)
      OBVIOUS
    <3>2. Wide(e0) /\ Wide(v1) /\ Wide(e2) /\ Wide(v2)
      BY <2>4, <2>6, <2>7, <2>8, <3>1
    <3>3. Wide(e0 \o v1)
      BY <3>2, WideConcat
    <3>4. Wide((e0 \o v1) \o e2)
      BY <3>2, <3>3, WideConcat
    <3>5. Wide(((e0 \o v1) \o e2) \o v2)
      BY <3>2, <3>4, WideConcat
    <3>6. QED
      BY <2>9, <3>1, <3>5
  <2>11. ScatterWide(v, avx512) =
           IF ~SomeHalf(low) /\ ~SomeHalf(high) THEN OneByOne(v, avx512)
           ELSE IF ~SomeHalf(high)
           THEN all \o (IF avx512 THEN VscatterAVX512(high) ELSE StoreElements(v, 4, v.len - 1))
           ELSE IF ~SomeHalf(low)
           THEN all \o (IF avx512 THEN e1 \o VscatterAVX512(low) ELSE StoreElements(v, 0, 3))
           ELSE all
    BY <2>1, <2>8, <2>9 DEF ScatterWide
  <2>12. Wide(all \o VscatterAVX512(high)) /\ Wide(all \o StoreElements(v, 4, v.len - 1))
    BY <1>1, <1>2, <2>5, <2>10, WideConcat
  <2>13. Wide(all \o (e1 \o VscatterAVX512(low))) /\ Wide(all \o StoreElements(v, 0, 3))
    <3>1. Wide(e1 \o VscatterAVX512(low))
      BY <2>5, <2>6, <2>8, WideConcat
    <3>2. QED
      BY <1>1, <1>2, <2>10, <3>1, WideConcat
  <2>14. QED
    BY <1>5, <2>10, <2>11, <2>12, <2>13
<1>8. QED
  BY <1>3, <1>5, <1>6, <1>7 DEF StoreResult, Vscatter

-------------------------------------------------------------------------------
(***************************************************************************)
(* The code of an operation: the loads of its operands, the operation, the *)
(* stores of its result.                                                   *)
(***************************************************************************)
Load(args, recipe, i) == GetSIMDVOperand(args[i], recipe)

Loads(args, recipe) ==
  IF Len(args) = 1 THEN <<>> \o Load(args, recipe, 1)
  ELSE (<<>> \o Load(args, recipe, 1)) \o Load(args, recipe, 2)

\* The operands are gone through one after the other.
LEMMA MapOperationIs ==
  ASSUME NEW fn, NEW args, Len(args) \in 1 .. 2, NEW r, NEW o
  PROVE  MapOperation(fn, args, r, o) = Loads(args, o.recipe) \o Operation(fn, args, r, o)
<1> DEFINE n == Len(args)
           b == <<>>
           G(i) == GetSIMDVOperand(args[i], o.recipe)
           Step(s, i) == s \o G(i)
           From(g, i) == IF i = 0 THEN b ELSE Step(g[i - 1], i)
           g == CHOOSE h : h = [i \in 0 .. n |-> From(h, i)]
<1>1. MapOperation(fn, args, r, o) = g[n] \o Operation(fn, args, r, o)
  BY DEF MapOperation, Through
<1>2. Loads(args, o.recipe) = IF n = 1 THEN Step(b, 1) ELSE Step(Step(b, 1), 2)
  BY DEF Loads, Load
<1>3. n \in 1 .. 2
  OBVIOUS
<1> HIDE DEF n, b, Step
<1>4. \E h : h = [i \in 0 .. n |-> From(h, i)]
  <2> DEFINE f == [i \in 0 .. n |-> IF i = 0 THEN b ELSE IF i = 1 THEN Step(b, 1)
                                    ELSE Step(Step(b, 1), 2)]
  <2>1. f[0] = b /\ f[1] = Step(b, 1) /\ (n = 2 => f[2] = Step(Step(b, 1), 2))
    BY <1>3
  <2>2. f = [i \in 0 .. n |-> f[i]]
    OBVIOUS
  <2> HIDE DEF f
  <2>3. \A i \in 0 .. n : i = 0 \/ (i = 1 /\ i - 1 = 0) \/ (i = 2 /\ i - 1 = 1 /\ n = 2)
    BY <1>3
  <2>4. \A i \in 0 .. n : f[i] = From(f, i)
    BY <2>1, <2>3
  <2> HIDE DEF From
  <2>5. [i \in 0 .. n |-> f[i]] = [i \in 0 .. n |-> From(f, i)]
    BY <2>4
  <2>6. f = [i \in 0 .. n |-> From(f, i)]
    BY <2>2, <2>5
  <2>7. QED
    BY <2>6
<1>5. g = [i \in 0 .. n |-> From(g, i)]
  <2> HIDE DEF From
  <2>1. QED
    BY <1>4
<1> HIDE DEF g
<1>6. \A i \in 0 .. n : g[i] = From(g, i)
  <2> HIDE DEF From
  <2>1. QED
    BY <1>5
<1>7. 0 \in 0 .. n /\ 1 \in 0 .. n /\ 1 - 1 = 0 /\ 2 - 1 = 1 /\ 1 # 0 /\ 2 # 0
  BY <1>3
<1>8. g[0] = b
  BY <1>6, <1>7
<1>9. g[1] = Step(b, 1)
  BY <1>6, <1>7, <1>8
<1>10. CASE n = 1
  BY <1>1, <1>2, <1>9, <1>10
<1>11. CASE n = 2
  <2>1. 2 \in 0 .. n
    BY <1>11
  <2>2. g[2] = Step(Step(b, 1), 2)
    BY <1>6, <1>7, <1>9, <2>1
  <2>3. QED
    BY <1>1, <1>2, <1>11, <2>2
<1>12. QED
  BY <1>3, <1>10, <1>11

\* m applies fn to the registers of the a operands.
Operates(m, fn, a, n) ==
  /\ m.kind = "op" /\ m.reg = "res" /\ m.w \in Widths /\ n <= m.w /\ m.cells = Empty
  /\ m.fn = fn /\ m.from = [k \in 1 .. a |-> Name(k)]

(***************************************************************************)
(* The code of an operation on a operands, whose result are the n cells r. *)
(***************************************************************************)
CodeIs(ss, fn, args, r, a, n) ==
  /\ ss \in Seq(Members(ss)) /\ Len(ss) >= a + 1
  /\ \A k \in 1 .. a : LoadsLanes(ss[k], Name(k), args[k])
  /\ Operates(ss[a + 1], fn, a, n)
  /\ \A q \in a + 2 .. Len(ss) : StoresPart(ss[q], r, n) \/ Extracts(ss[q])
  /\ \A q \in a + 2 .. Len(ss) : ss[q].kind = "store" /\ ss[q].reg # "res" =>
       \E p \in a + 2 .. q - 1 : Extracts(ss[p]) /\ ss[p].reg = ss[q].reg
  /\ \A i \in 1 .. n : \E q \in a + 2 .. Len(ss) :
       ss[q].kind = "store" /\ r[i] \in Touched(ss[q])

\* u is s followed by t.
IsJoin(u, s, t) ==
  /\ u \in Seq(Members(u)) /\ Members(u) = Members(s) \cup Members(t)
  /\ Len(s) \in Nat /\ Len(t) \in Nat /\ Len(u) = Len(s) + Len(t)
  /\ \A i \in 1 .. Len(s) : u[i] = s[i]
  /\ \A i \in 1 .. Len(t) : u[Len(s) + i] = t[i]

\* Two pieces of code by name.
LEMMA Joined ==
  ASSUME NEW s, NEW t, s \in Seq(Members(s)), t \in Seq(Members(t))
  PROVE  IsJoin(s \o t, s, t)
BY JoinedMembers DEF IsJoin

\* Loads, the operation and stores are such code.
LEMMA CodePutTogether ==
  ASSUME NEW a \in Nat, NEW n \in Nat, NEW fn, NEW args, NEW r,
         NEW l, l \in Seq(Members(l)), Len(l) = a,
         \A k \in 1 .. a : LoadsLanes(l[k], Name(k), args[k]),
         NEW x, Operates(x, fn, a, n), NEW s, StoreCode(s, r, n, 1 .. n)
  PROVE  CodeIs(l \o (<<x>> \o s), fn, args, r, a, n)
<1>1. s \in Seq(Members(s))
  BY DEF StoreCode
<1>2. PICK o : o = <<x>>
  OBVIOUS
<1>3. o \in Seq(Members(o)) /\ Len(o) = 1 /\ o[1] = x
  <2>1. x \in {x}
    OBVIOUS
  <2>2. <<x>> \in Seq({x}) /\ Members(<<x>>) = {x} /\ Len(<<x>>) = 1 /\ <<x>>[1] = x
    BY <2>1, FewMembers
  <2>3. QED
    BY <1>2, <2>2
<1>4. PICK t : t = o \o s
  OBVIOUS
<1>5. /\ t \in Seq(Members(t)) /\ Len(s) \in Nat /\ Len(t) = 1 + Len(s)
      /\ t[1] = x /\ \A i \in 1 .. Len(s) : t[1 + i] = s[i]
  <2>1. /\ t \in Seq(Members(t)) /\ Len(s) \in Nat /\ Len(t) = Len(o) + Len(s)
        /\ \A i \in 1 .. Len(o) : t[i] = o[i]
        /\ \A i \in 1 .. Len(s) : t[Len(o) + i] = s[i]
    <3>1. o \in Seq(Members(o)) /\ s \in Seq(Members(s))
      BY <1>1, <1>3
    <3>2. IsJoin(o \o s, o, s)
      BY <3>1, Joined
    <3>3. QED
      BY <1>4, <3>2 DEF IsJoin
  <2>2. QED
    BY <1>3, <2>1
<1>6. PICK c : c = l \o t
  OBVIOUS
<1>7. /\ c \in Seq(Members(c)) /\ Len(c) = a + Len(t)
      /\ \A i \in 1 .. a : c[i] = l[i]
      /\ \A i \in 1 .. Len(t) : c[a + i] = t[i]
  <2>1. /\ c \in Seq(Members(c)) /\ Len(c) = Len(l) + Len(t)
        /\ \A i \in 1 .. Len(l) : c[i] = l[i]
        /\ \A i \in 1 .. Len(t) : c[Len(l) + i] = t[i]
    <3>1. l \in Seq(Members(l)) /\ t \in Seq(Members(t))
      BY <1>5
    <3>2. IsJoin(l \o t, l, t)
      BY <3>1, Joined
    <3>3. QED
      BY <1>6, <3>2 DEF IsJoin
  <2>2. QED
    BY <2>1
<1>8. Len(c) = a + 1 + Len(s) /\ c[a + 1] = x
  <2>1. 1 \in 1 .. Len(t)
    BY <1>5
  <2>2. c[a + 1] = x
    BY <1>5, <1>7, <2>1
  <2>3. QED
    BY <1>5, <1>7, <2>2
<1>9. ASSUME NEW i \in 1 .. Len(s)
      PROVE  c[a + 1 + i] = s[i] /\ a + 1 + i \in a + 2 .. Len(c)
  <2>1. 1 + i \in 1 .. Len(t) /\ a + (1 + i) = a + 1 + i
    BY <1>5
  <2>2. c[a + (1 + i)] = t[1 + i] /\ t[1 + i] = s[i]
    BY <1>5, <1>7, <2>1
  <2>3. a + 1 + i \in a + 2 .. Len(c)
    BY <1>5, <1>8
  <2>4. QED
    BY <2>1, <2>2, <2>3
<1>10. ASSUME NEW q \in a + 2 .. Len(c)
       PROVE  \E i \in 1 .. Len(s) : q = a + 1 + i
  <2>1. q - a - 1 \in 1 .. Len(s) /\ q = a + 1 + (q - a - 1)
    BY <1>5, <1>8
  <2>2. QED
    BY <2>1
<1>11. DOMAIN s = 1 .. Len(s)
  BY <1>1, SeqOfMembers
<1>12. ASSUME NEW q \in a + 2 .. Len(c)
       PROVE  /\ StoresPart(c[q], r, n) \/ Extracts(c[q])
              /\ c[q].kind = "store" /\ c[q].reg # "res" =>
                   \E p \in a + 2 .. q - 1 : Extracts(c[p]) /\ c[p].reg = c[q].reg
  <2>1. PICK i \in 1 .. Len(s) : q = a + 1 + i
    BY <1>10
  <2>2. c[q] = s[i] /\ s[i] \in Members(s) /\ i \in DOMAIN s
    BY <1>9, <1>11, <2>1 DEF Members
  <2>3. StoresPart(s[i], r, n) \/ Extracts(s[i])
    BY <2>2 DEF StoreCode
  <2>4. ASSUME s[i].kind = "store", s[i].reg # "res"
        PROVE  \E p \in a + 2 .. q - 1 : Extracts(c[p]) /\ c[p].reg = c[q].reg
    <3>1. PICK j \in 1 .. i - 1 : Extracts(s[j]) /\ s[j].reg = s[i].reg
      BY <2>2, <2>4 DEF StoreCode
    <3>2. j \in 1 .. Len(s) /\ a + 1 + j \in a + 2 .. q - 1
      BY <1>5, <2>1
    <3>3. c[a + 1 + j] = s[j]
      BY <1>9, <3>2
    <3>4. QED
      BY <2>2, <3>1, <3>2, <3>3
  <2>5. QED
    BY <2>2, <2>3, <2>4
<1>13. ASSUME NEW i \in 1 .. n
       PROVE  \E q \in a + 2 .. Len(c) : c[q].kind = "store" /\ r[i] \in Touched(c[q])
  <2>1. PICK m \in Members(s) : m.kind = "store" /\ r[i] \in Touched(m)
    BY DEF StoreCode
  <2>2. PICK j \in 1 .. Len(s) : m = s[j]
    BY <1>11 DEF Members
  <2>3. c[a + 1 + j] = m /\ a + 1 + j \in a + 2 .. Len(c)
    BY <1>9, <2>2
  <2>4. QED
    BY <2>1, <2>3
<1>14. c \in Seq(Members(c)) /\ Len(c) >= a + 1
  BY <1>5, <1>7, <1>8
<1>15. \A k \in 1 .. a : LoadsLanes(c[k], Name(k), args[k])
  BY <1>7
<1>16. Operates(c[a + 1], fn, a, n)
  BY <1>8
<1>17. CodeIs(c, fn, args, r, a, n)
  BY <1>12, <1>13, <1>14, <1>15, <1>16 DEF CodeIs
<1>18. QED
  BY <1>2, <1>4, <1>6, <1>17

-------------------------------------------------------------------------------
(***************************************************************************)
(* The operations, and their operands.                                     *)
(***************************************************************************)
ShapeIs(a, n) ==
  /\ vop.args \in [1 .. a -> [1 .. n -> Cells]] /\ vop.r \in [1 .. n -> Cells]
  /\ Fits(n, vop.double)

\* An operation has one or two operands, of as many cells as its result.
LEMMA OperationHasShape ==
  ASSUME vop \in Operations
  PROVE  \E a \in 1 .. 2, n \in 2 .. 8 : ShapeIs(a, n)
<1>1. IsOperation(vop)
  BY OperationsAssumption
<1>2. PICK n \in 2 .. 2 * Narrow(vop.double), a \in 1 .. 2 :
        vop.args \in [1 .. a -> [1 .. n -> Cells]] /\ vop.r \in [1 .. n -> Cells]
  BY <1>1 DEF IsOperation
<1>3. n \in 2 .. 8
  BY DEF Narrow
<1>4. Fits(n, vop.double)
  BY <1>1 DEF Fits, IsOperation
<1>5. ShapeIs(a, n)
  BY <1>2, <1>4 DEF ShapeIs
<1>6. QED
  BY <1>3, <1>5

\* Its operands and its result.
LEMMA OperandsAre ==
  ASSUME NEW a \in 1 .. 2, NEW n \in 2 .. 8, ShapeIs(a, n)
  PROVE  /\ DOMAIN Args = 1 .. a /\ Len(Args) = a
         /\ DOMAIN vop.args = 1 .. a /\ DOMAIN vop.r = 1 .. n /\ Len(vop.r) = n
         /\ \A i \in 1 .. a : /\ RegisterOf(Args[i], Name(i), vop.args[i], n, vop.double)
                              /\ FoundOut(Args[i], vop.args[i], FALSE)
                              /\ Args[i].name = Name(i) /\ Args[i].size \in Widths
         /\ RegisterOf(ResultOperand, "res", vop.r, n, vop.double)
         /\ FoundOut(ResultOperand, vop.r, TRUE) /\ DOMAIN ResultOperand = OperandFields
         /\ ResultOperand.size \in Widths /\ ResultOperand.len = n /\ n <= ResultOperand.size
         /\ ResultOperand.name = "res" /\ ResultOperand.store
<1> DEFINE A(i) == MemoryOperand(Name(i), vop.args[i], FALSE, vop.double)
<1>1. /\ vop.args \in [1 .. a -> [1 .. n -> Cells]] /\ vop.r \in [1 .. n -> Cells]
      /\ Fits(n, vop.double) /\ n \in Nat /\ a \in Nat
  BY DEF ShapeIs
<1>2. DOMAIN vop.args = 1 .. a /\ DOMAIN vop.r = 1 .. n /\ Len(vop.r) = n
  BY <1>1, CellsOfTuple
<1>3. Args = [i \in 1 .. a |-> A(i)]
  BY <1>2 DEF Args
<1>4. DOMAIN Args = 1 .. a /\ Len(Args) = a /\ \A i \in 1 .. a : Args[i] = A(i)
  <2> HIDE DEF A
  <2> DEFINE S == {A(i) : i \in 1 .. a}
  <2>1. \A i \in 1 .. a : A(i) \in S
    OBVIOUS
  <2> HIDE DEF S
  <2>2. PICK f : f = [i \in 1 .. a |-> A(i)]
    OBVIOUS
  <2>3. f \in Seq(S)
    BY <1>1, <2>1, <2>2
  <2>4. DOMAIN f = 1 .. a /\ Len(f) = a
    BY <1>1, <2>2, <2>3, LenProperties
  <2>5. QED
    BY <1>3, <2>2, <2>4
<1>5. ASSUME NEW i \in 1 .. a
      PROVE  /\ RegisterOf(A(i), Name(i), vop.args[i], n, vop.double)
             /\ FoundOut(A(i), vop.args[i], FALSE)
  <2>1. vop.args[i] \in [1 .. n -> Cells] /\ FALSE \in BOOLEAN
    BY <1>1
  <2>2. QED
    BY <1>1, <2>1, OperandIs
<1>6. RegisterOf(ResultOperand, "res", vop.r, n, vop.double) /\ FoundOut(ResultOperand, vop.r, TRUE)
  <2>1. TRUE \in BOOLEAN
    OBVIOUS
  <2>2. QED
    BY <1>1, <2>1, OperandIs DEF ResultOperand
<1>7. DOMAIN ResultOperand = OperandFields
  BY DEF ResultOperand, MemoryOperand, OperandFields
<1>8. VectorSize(n, vop.double) \in Widths /\ n <= VectorSize(n, vop.double)
  BY <1>1, SizeIs DEF Widths
<1> HIDE DEF A
<1>9. \A i \in 1 .. a : A(i).name = Name(i) /\ A(i).size \in Widths
  BY <1>5, <1>8 DEF RegisterOf
<1>10. /\ ResultOperand.size \in Widths /\ ResultOperand.len = n /\ n <= ResultOperand.size
       /\ ResultOperand.name = "res"
  BY <1>6, <1>8 DEF RegisterOf
<1>11. ResultOperand.store
  BY <1>6 DEF FoundOut
<1>12. QED
  BY <1>2, <1>4, <1>5, <1>6, <1>7, <1>9, <1>10, <1>11

MapCode == MapOperation(vop.fn, Args, ResultOperand, opts)

\* The code of any operation is wide.
LEMMA CodeWide ==
  ASSUME NEW a \in 1 .. 2, NEW n \in 2 .. 8, ShapeIs(a, n)
  PROVE  Wide(MapCode)
<1> DEFINE args == Args
           r == ResultOperand
<1>1. Len(args) = a /\ \A i \in 1 .. a : args[i].size \in Widths
  BY OperandsAre
<1>2. DOMAIN r = OperandFields /\ r.size \in Widths /\ r.len \in Int
  <2>1. DOMAIN r = OperandFields /\ r.size \in Widths /\ r.len = n
    BY OperandsAre
  <2>2. QED
    BY <2>1
<1> HIDE DEF args, r
<1>3. \A i \in 1 .. a : Wide(Load(args, opts.recipe, i))
  BY <1>1, LoadWide DEF Load
<1>4. Wide(Loads(args, opts.recipe))
  <2>1. PICK l1 : l1 = Load(args, opts.recipe, 1) /\ Wide(l1)
    <3>1. 1 \in 1 .. a
      OBVIOUS
    <3>2. QED
      BY <1>3, <3>1
  <2>2. Wide(<<>>)
    BY WideFew
  <2>3. Wide(<<>> \o l1)
    BY <2>1, <2>2, WideConcat
  <2>4. CASE a = 1
    BY <1>1, <2>1, <2>3, <2>4 DEF Loads
  <2>5. CASE a = 2
    <3>1. PICK l2 : l2 = Load(args, opts.recipe, 2) /\ Wide(l2)
      <4>1. 2 \in 1 .. a
        BY <2>5
      <4>2. QED
        BY <1>3, <4>1
    <3>2. Wide((<<>> \o l1) \o l2)
      BY <2>3, <3>1, WideConcat
    <3>3. QED
      BY <1>1, <2>1, <2>5, <3>1, <3>2 DEF Loads
  <2>6. QED
    BY <2>4, <2>5
<1>5. Wide(Operate(vop.fn, args, r))
  <2>1. PICK w \in Widths : w = r.size
    BY <1>2
  <2>2. CASE vop.fn \in Sequential
    BY <2>1, <2>2, WideFew DEF Operate
  <2>3. CASE vop.fn \notin Sequential /\ vop.fn = "%"
    BY <2>1, <2>3, WideFew DEF Operate
  <2>4. CASE vop.fn \notin Sequential /\ vop.fn # "%"
    <3>1. PICK m : m = [Inst("op", r.name, r.size, Empty) EXCEPT
                          !.fn = vop.fn, !.from = [i \in DOMAIN args |-> args[i].name]]
      OBVIOUS
    <3>2. m.w = w
      BY <2>1, <3>1 DEF Inst
    <3>3. Wide(<<m>>)
      BY <3>2, WideFew
    <3>4. QED
      BY <2>4, <3>1, <3>3 DEF Operate
  <2>5. QED
    BY <2>2, <2>3, <2>4
<1>6. Wide(StoreResult(r, opts.avx512)) /\ Wide(<<>>)
  BY <1>2, StoreWide, WideFew
<1>7. Wide(Operation(vop.fn, args, r, opts))
  <2>1. PICK s : s = IF r.store THEN StoreResult(r, opts.avx512) ELSE <<>>
    OBVIOUS
  <2>2. Wide(s)
    BY <1>6, <2>1
  <2>3. Wide(Operate(vop.fn, args, r) \o s)
    BY <1>5, <2>2, WideConcat
  <2>4. QED
    BY <2>1, <2>3 DEF Operation
<1>8. Wide(Loads(args, opts.recipe) \o Operation(vop.fn, args, r, opts))
  BY <1>4, <1>7, WideConcat
<1>9. MapOperation(vop.fn, args, r, opts)
        = Loads(args, opts.recipe) \o Operation(vop.fn, args, r, opts)
  BY <1>1, MapOperationIs
<1>10. QED
  BY <1>8, <1>9 DEF MapCode, args, r

\* The code of an operation that is supported loads its operands, computes its result
\* and stores it.
LEMMA CodeOfSupported ==
  ASSUME NEW a \in 1 .. 2, NEW n \in 2 .. 8, ShapeIs(a, n), opts \in Options, Supported
  PROVE  CodeIs(MapCode, vop.fn, vop.args, vop.r, a, n)
<1>1. /\ DOMAIN Args = 1 .. a /\ Len(Args) = a /\ DOMAIN vop.args = 1 .. a
      /\ \A i \in 1 .. a : /\ RegisterOf(Args[i], Name(i), vop.args[i], n, vop.double)
                           /\ FoundOut(Args[i], vop.args[i], FALSE)
                           /\ Args[i].name = Name(i)
  BY OperandsAre
<1>2. opts.recipe \in BOOLEAN /\ opts.avx512 \in BOOLEAN
  BY DEF Options
<1>3. /\ vop.args \in [1 .. a -> [1 .. n -> Cells]] /\ vop.r \in [1 .. n -> Cells]
      /\ Fits(n, vop.double) /\ n \in Nat /\ a \in Nat
  BY DEF ShapeIs
<1>4. ASSUME NEW i \in 1 .. a
      PROVE  \E m : Load(Args, opts.recipe, i) = <<m>> /\ LoadsLanes(m, Name(i), vop.args[i])
  <2>1. PICK v : v = Args[i]
    OBVIOUS
  <2>2. Loadable(v)
    BY <1>1, <2>1 DEF Supported
  <2>3. PICK refs \in [1 .. n -> Cells] : refs = vop.args[i]
    BY <1>3
  <2>4. PICK name, double : name = Name(i) /\ double = vop.double
    OBVIOUS
  <2>5. PICK recipe \in BOOLEAN : recipe = opts.recipe
    BY <1>2
  <2>6. RegisterOf(v, name, refs, n, double) /\ FoundOut(v, refs, FALSE) /\ Fits(n, double)
    BY <1>1, <1>3, <2>1, <2>3, <2>4
  <2>7. \E m : GetSIMDVOperand(v, recipe) = <<m>> /\ LoadsLanes(m, name, refs)
    <3>1. n \in Nat /\ refs \in [1 .. n -> Cells] /\ recipe \in BOOLEAN
      BY <1>3
    <3>2. QED
      BY ONLY <2>2, <2>6, <3>1, OperandLoads, ZenonT(60)
  <2>8. QED
    BY <2>1, <2>3, <2>4, <2>5, <2>7 DEF Load
<1>5. PICK l : l = Loads(Args, opts.recipe)
  OBVIOUS
<1>6. /\ l \in Seq(Members(l)) /\ Len(l) = a
      /\ \A k \in 1 .. a : LoadsLanes(l[k], Name(k), vop.args[k])
  <2>1. PICK m : Load(Args, opts.recipe, 1) = <<m>> /\ LoadsLanes(m, Name(1), vop.args[1])
    <3>1. 1 \in 1 .. a
      OBVIOUS
    <3>2. QED
      BY <1>4, <3>1
  <2>2. PICK s : s = <<m>>
    OBVIOUS
  <2>3. s \in Seq(Members(s)) /\ Len(s) = 1 /\ s[1] = m /\ <<>> \o s = s
    <3>1. m \in {m}
      OBVIOUS
    <3>2. <<m>> \in Seq({m}) /\ Members(<<m>>) = {m} /\ Len(<<m>>) = 1 /\ <<m>>[1] = m
      BY <3>1, FewMembers
    <3>3. <<>> \o <<m>> = <<m>>
      OBVIOUS
    <3>4. QED
      BY <2>2, <3>2, <3>3
  <2>4. CASE a = 1
    <3>1. l = s
      BY <1>1, <1>5, <2>1, <2>2, <2>3, <2>4 DEF Loads
    <3>2. QED
      BY <2>1, <2>3, <2>4, <3>1
  <2>5. CASE a = 2
    <3>1. PICK m2 : Load(Args, opts.recipe, 2) = <<m2>> /\ LoadsLanes(m2, Name(2), vop.args[2])
      <4>1. 2 \in 1 .. a
        BY <2>5
      <4>2. QED
        BY <1>4, <4>1
    <3>2. l = <<m>> \o <<m2>>
      BY <1>1, <1>5, <2>1, <2>2, <2>3, <2>5, <3>1 DEF Loads
    <3>3. PICK t : t = <<m2>>
      OBVIOUS
    <3>4. t \in Seq(Members(t)) /\ Len(t) = 1 /\ t[1] = m2
      <4>1. m2 \in {m2}
        OBVIOUS
      <4>2. <<m2>> \in Seq({m2}) /\ Members(<<m2>>) = {m2} /\ Len(<<m2>>) = 1 /\ <<m2>>[1] = m2
        BY <4>1, FewMembers
      <4>3. QED
        BY <3>3, <4>2
    <3>5. l \in Seq(Members(l)) /\ Len(l) = 2 /\ l[1] = m /\ l[2] = m2
      <4>1. IsJoin(s \o t, s, t)
        BY <2>3, <3>4, Joined
      <4>2. IsJoin(l, s, t)
        BY <2>2, <3>2, <3>3, <4>1
      <4>3. 1 \in 1 .. Len(s) /\ 1 \in 1 .. Len(t) /\ Len(s) + 1 = 2
        BY <2>3, <3>4
      <4>4. QED
        BY <2>3, <3>4, <4>2, <4>3 DEF IsJoin
    <3>6. \A k \in 1 .. a : k = 1 \/ k = 2
      BY <2>5
    <3>7. QED
      BY <2>1, <2>5, <3>1, <3>5, <3>6
  <2>6. QED
    BY <2>4, <2>5
<1>7. PICK r : r = ResultOperand
  OBVIOUS
<1>8. /\ DOMAIN r = OperandFields /\ r.size \in Widths /\ n <= r.size /\ r.name = "res" /\ r.store
      /\ RegisterOf(r, "res", vop.r, n, vop.double) /\ FoundOut(r, vop.r, TRUE)
  BY <1>7, OperandsAre
<1>9. PICK s : s = StoreResult(r, opts.avx512)
  OBVIOUS
<1>10. StoreCode(s, vop.r, n, 1 .. n)
  <2>1. Storable(r, opts.avx512)
    BY <1>7 DEF Supported
  <2>2. r.refs = vop.r
    BY <1>8 DEF RegisterOf
  <2>3. SameRow(vop.r) /\ Distinct(vop.r)
    BY <2>1, <2>2 DEF Storable
  <2>4. PICK double, refs : double = vop.double /\ refs = vop.r
    OBVIOUS
  <2>5. PICK avx512 \in BOOLEAN : avx512 = opts.avx512
    BY <1>2
  <2>6. ResultOf(r, refs, n, double)
    BY <1>3, <1>8, <2>3, <2>4 DEF ResultOf
  <2>7. Result(r, refs, n)
    BY <1>3, <2>6, ResultIs
  <2>8. StoreCode(StoreResult(r, avx512), refs, n, 1 .. n)
    BY <1>3, <2>1, <2>5, <2>7, ResultStored
  <2>9. QED
    BY <1>9, <2>4, <2>5, <2>8
<1>11. PICK x : x = [Inst("op", r.name, r.size, Empty) EXCEPT
                       !.fn = vop.fn, !.from = [i \in DOMAIN Args |-> Args[i].name]]
  OBVIOUS
<1>12. Operates(x, vop.fn, a, n)
  <2>1. /\ x.kind = "op" /\ x.reg = r.name /\ x.w = r.size /\ x.cells = Empty
        /\ x.fn = vop.fn /\ x.from = [i \in DOMAIN Args |-> Args[i].name]
    BY <1>11 DEF Inst
  <2>2. [i \in DOMAIN Args |-> Args[i].name] = [k \in 1 .. a |-> Name(k)]
    BY <1>1
  <2>3. QED
    BY <1>8, <2>1, <2>2 DEF Operates
<1>13. Operate(vop.fn, Args, r) = <<x>>
  BY <1>11 DEF Operate, Supported
<1>14. MapCode = l \o (<<x>> \o s)
  <2>1. Len(Args) \in 1 .. 2
    BY <1>1
  <2>2. MapOperation(vop.fn, Args, r, opts) = Loads(Args, opts.recipe) \o Operation(vop.fn, Args, r, opts)
    BY <2>1, MapOperationIs
  <2>3. Operation(vop.fn, Args, r, opts) = <<x>> \o s
    BY <1>8, <1>9, <1>13 DEF Operation
  <2>4. QED
    BY <1>5, <1>7, <2>2, <2>3 DEF MapCode
<1>15. CodeIs(l \o (<<x>> \o s), vop.fn, vop.args, vop.r, a, n)
  BY <1>3, <1>6, <1>10, <1>12, CodePutTogether
<1>16. QED
  BY <1>14, <1>15

-------------------------------------------------------------------------------
(***************************************************************************)
(* Executing the code.                                                     *)
(***************************************************************************)
\* Registers, memory and the cells touched, and nothing else.
IsEnv(e) == e = [regs |-> e.regs, mem |-> e.mem, touched |-> e.touched]

\* What an instruction changes.
LEMMA MoveIs ==
  ASSUME NEW e, IsEnv(e), NEW m
  PROVE  LET d == Move(e, m)
         IN  /\ IsEnv(d) /\ d.touched = e.touched \cup Touched(m)
             /\ m.kind = "store" => d.regs = e.regs /\ d.mem = Over(Stored(m, e), e.mem)
             /\ m.kind # "store" =>
                  d.mem = e.mem /\ d.regs = Over(Only(m.reg, Loaded(m, e)), e.regs)
<1>1. PICK x, y, z : e = [regs |-> x, mem |-> y, touched |-> z]
  BY DEF IsEnv
<1>2. e.regs = x /\ e.mem = y /\ e.touched = z
  BY <1>1
<1>3. CASE m.kind = "store"
  <2>1. PICK s, t : s = Stored(m, e) /\ t = Touched(m)
    OBVIOUS
  <2>2. Move(e, m) = [e EXCEPT !.mem = Over(s, @), !.touched = @ \cup t]
    BY <1>3, <2>1 DEF Move
  <2>3. Move(e, m) = [regs |-> x, mem |-> Over(s, y), touched |-> z \cup t]
    BY <1>1, <2>2
  <2>4. QED
    BY <1>2, <1>3, <2>1, <2>3 DEF IsEnv
<1>4. CASE m.kind # "store"
  <2>1. PICK s, t : s = Only(m.reg, Loaded(m, e)) /\ t = Touched(m)
    OBVIOUS
  <2>2. Move(e, m) = [e EXCEPT !.regs = Over(s, @), !.touched = @ \cup t]
    BY <1>4, <2>1 DEF Move
  <2>3. Move(e, m) = [regs |-> Over(s, x), mem |-> y, touched |-> z \cup t]
    BY <1>1, <2>2
  <2>4. QED
    BY <1>2, <1>4, <2>1, <2>3 DEF IsEnv
<1>5. QED
  BY <1>3, <1>4

\* A lane after a register was written.
LEMMA LaneAfter ==
  ASSUME NEW regs, NEW x, NEW l, NEW y, NEW k
  PROVE  /\ y # x => LaneOf(Over(Only(x, l), regs), y, k) = LaneOf(regs, y, k)
         /\ k \in DOMAIN l => LaneOf(Over(Only(x, l), regs), x, k) = l[k]
<1>1. /\ DOMAIN Only(x, l) = {x} /\ Only(x, l)[x] = l
  BY DEF Only
<1> DEFINE f == Over(Only(x, l), regs)
<1>2. /\ DOMAIN f = {x} \cup DOMAIN regs
      /\ \A z \in {x} \cup DOMAIN regs : f[z] = IF z \in {x} THEN l ELSE regs[z]
  BY <1>1 DEF Over
<1> HIDE DEF f
<1>3. /\ y # x => LaneOf(f, y, k) = LaneOf(regs, y, k)
      /\ k \in DOMAIN l => LaneOf(f, x, k) = l[k]
  BY <1>2 DEF LaneOf
<1>4. QED
  BY <1>3 DEF f

(***************************************************************************)
(* What statement i computes from what was there before.                   *)
(***************************************************************************)
ValueOf(fn, args, i) == OnLane(fn, [k \in DOMAIN args |-> Input(args[k][i])])

\* An extracted half holds the results of its lanes.
HalfHolds(regs, reg, fn, args, n) ==
  /\ reg = Low => \A k \in 0 .. 3 : k + 1 <= n => LaneOf(regs, Low, k) = ValueOf(fn, args, k + 1)
  /\ reg = High => \A k \in 0 .. 3 : k + 5 <= n => LaneOf(regs, High, k) = ValueOf(fn, args, k + 5)

\* The cells the statements name.
Named(args, r) == CellsOf(r) \cup UNION {CellsOf(args[k]) : k \in DOMAIN args}

(***************************************************************************)
(* Registers and memory before instruction pc: the operands that were      *)
(* loaded, the result once it is computed, the halves extracted from it,   *)
(* and the cells stored so far.                                            *)
(***************************************************************************)
OperandsHold(e, pc, args, a, n) ==
  \A k \in 1 .. a : k < pc =>
    \A i \in 1 .. n : LaneOf(e.regs, Name(k), i - 1) = Input(args[k][i])

ResultHolds(e, pc, fn, args, a, n) ==
  pc > a + 1 => \A i \in 1 .. n : LaneOf(e.regs, "res", i - 1) = ValueOf(fn, args, i)

HalvesHold(e, pc, ss, fn, args, a, n) ==
  \A p \in a + 2 .. Len(ss) : p < pc /\ Extracts(ss[p]) => HalfHolds(e.regs, ss[p].reg, fn, args, n)

MemoryHolds(e, pc, ss, fn, args, r, a, n) ==
  /\ pc <= a + 2 => e.mem = Empty
  /\ e.mem = [c \in DOMAIN e.mem |-> e.mem[c]]
  /\ \A c \in DOMAIN e.mem : \E i \in 1 .. n : c = r[i] /\ e.mem[c] = ValueOf(fn, args, i)
  /\ \A p \in a + 2 .. Len(ss) : p < pc /\ ss[p].kind = "store" => Touched(ss[p]) \subseteq DOMAIN e.mem

EnvHolds(e, pc, ss, fn, args, r, a, n) ==
  /\ OperandsHold(e, pc, args, a, n)
  /\ ResultHolds(e, pc, fn, args, a, n)
  /\ HalvesHold(e, pc, ss, fn, args, a, n)
  /\ MemoryHolds(e, pc, ss, fn, args, r, a, n)
  /\ e.touched \subseteq Named(args, r)

CellsAre(args, r, a, n) ==
  /\ args \in [1 .. a -> [1 .. n -> Cells]] /\ r \in [1 .. n -> Cells]

\* The registers of the operands, of the result and of its halves are different.
LEMMA RegistersDiffer ==
  ASSUME NEW j \in 1 .. 2, NEW k \in 1 .. 2
  PROVE  /\ j # k => Name(j) # Name(k)
         /\ Name(k) # "res" /\ Name(k) # Low /\ Name(k) # High
         /\ Low # High /\ Low # "res" /\ High # "res"
<1>1. Name(1) = "opA" /\ Name(2) = "opB"
  BY DEF Name
<1>2. (j = 1 \/ j = 2) /\ (k = 1 \/ k = 2)
  OBVIOUS
<1>3. QED
  BY <1>1, <1>2 DEF Low, High

\* An operand is loaded.
LEMMA LoadStep ==
  ASSUME NEW a \in 1 .. 2, NEW n \in 2 .. 8, NEW args, NEW r, CellsAre(args, r, a, n), NEW fn,
         NEW ss, CodeIs(ss, fn, args, r, a, n), NEW e, IsEnv(e), NEW pc \in 1 .. a,
         EnvHolds(e, pc, ss, fn, args, r, a, n)
  PROVE  EnvHolds(Move(e, ss[pc]), pc + 1, ss, fn, args, r, a, n)
<1>1. PICK m, d : m = ss[pc] /\ d = Move(e, m)
  OBVIOUS
<1>2. LoadsLanes(m, Name(pc), args[pc])
  BY <1>1 DEF CodeIs
<1>3. m.kind \in {"load", "keep", "recipe"} /\ m.reg = Name(pc) /\ m.w \in {2, 4, 8}
  BY <1>2 DEF LoadsLanes
<1>4. /\ d.touched = e.touched \cup Touched(m) /\ d.mem = e.mem
      /\ d.regs = Over(Only(m.reg, Loaded(m, e)), e.regs)
  <2>1. m.kind # "store"
    BY <1>3
  <2>2. QED
    BY <1>1, <2>1, MoveIs
<1>5. pc \in Nat /\ pc <= a /\ pc <= a + 2 /\ pc + 1 <= a + 2 /\ ~(pc + 1 > a + 1)
  OBVIOUS
<1>6. e.mem = Empty
  BY <1>5 DEF EnvHolds, MemoryHolds
<1>7. DOMAIN args[pc] = 1 .. n /\ DOMAIN args = 1 .. a
  BY DEF CellsAre
<1>8. \A k \in 0 .. m.w - 1 : k \in DOMAIN m.cells => Loaded(m, e)[k] = Input(m.cells[k])
  <2>1. SUFFICES ASSUME NEW k \in 0 .. m.w - 1, k \in DOMAIN m.cells
                 PROVE  Loaded(m, e)[k] = Input(m.cells[k])
    OBVIOUS
  <2>2. m.kind # "low" /\ m.kind # "high" /\ m.kind # "op"
    BY <1>3
  <2>3. Loaded(m, e)[k] = Read(e.mem, m.cells[k])
    BY <2>1, <2>2 DEF Loaded
  <2>4. DOMAIN Empty = {}
    BY DEF Empty
  <2>5. QED
    BY <1>6, <2>3, <2>4 DEF Read
<1>9. DOMAIN Loaded(m, e) = 0 .. m.w - 1
  BY DEF Loaded
<1>10. OperandsHold(d, pc + 1, args, a, n)
  <2>1. SUFFICES ASSUME NEW k \in 1 .. a, k < pc + 1, NEW i \in 1 .. n
                 PROVE  LaneOf(d.regs, Name(k), i - 1) = Input(args[k][i])
    BY DEF OperandsHold
  <2>2. CASE k = pc
    <3>1. i - 1 \in DOMAIN m.cells /\ i - 1 \in 0 .. m.w - 1 /\ m.cells[i - 1] = args[pc][i]
      BY <1>2, <1>7 DEF LoadsLanes
    <3>2. Loaded(m, e)[i - 1] = Input(args[pc][i])
      BY <1>8, <3>1
    <3>3. LaneOf(d.regs, m.reg, i - 1) = Loaded(m, e)[i - 1]
      <4>1. PICK l, x : l = Loaded(m, e) /\ x = i - 1
        OBVIOUS
      <4>2. x \in DOMAIN l
        BY <1>9, <3>1, <4>1
      <4>3. LaneOf(Over(Only(m.reg, l), e.regs), m.reg, x) = l[x]
        BY <4>2, LaneAfter
      <4>4. QED
        BY <1>4, <4>1, <4>3
    <3>4. QED
      BY <1>3, <2>2, <3>2, <3>3
  <2>3. CASE k # pc
    <3>1. k < pc /\ k \in 1 .. 2 /\ pc \in 1 .. 2
      BY <2>1, <2>3
    <3>2. LaneOf(e.regs, Name(k), i - 1) = Input(args[k][i])
      BY <3>1 DEF EnvHolds, OperandsHold
    <3>3. Name(k) # m.reg
      BY <1>3, <2>3, <3>1, RegistersDiffer
    <3>4. LaneOf(d.regs, Name(k), i - 1) = LaneOf(e.regs, Name(k), i - 1)
      BY <1>4, <3>3, LaneAfter
    <3>5. QED
      BY <3>2, <3>4
  <2>4. QED
    BY <2>2, <2>3
<1>11. ResultHolds(d, pc + 1, fn, args, a, n)
  BY <1>5 DEF ResultHolds
<1>12. \A p \in a + 2 .. Len(ss) : ~(p < pc + 1)
  BY <1>5
<1>13. HalvesHold(d, pc + 1, ss, fn, args, a, n)
  BY <1>12 DEF HalvesHold
<1>14. MemoryHolds(d, pc + 1, ss, fn, args, r, a, n)
  BY <1>4, <1>6, <1>12 DEF EnvHolds, MemoryHolds
<1>15. d.touched \subseteq Named(args, r)
  <2>1. \A k \in DOMAIN m.cells : \E i \in DOMAIN args[pc] : m.cells[k] = args[pc][i]
    BY <1>2 DEF LoadsLanes
  <2>2. Touched(m) \subseteq CellsOf(args[pc])
    BY <2>1 DEF Touched, CellsOf, ToSet
  <2>3. pc \in DOMAIN args
    BY <1>7
  <2>4. QED
    BY <1>4, <2>2, <2>3 DEF EnvHolds, Named
<1>16. EnvHolds(d, pc + 1, ss, fn, args, r, a, n)
  BY <1>10, <1>11, <1>13, <1>14, <1>15 DEF EnvHolds
<1>17. QED
  BY <1>1, <1>16

\* The operation is executed.
LEMMA OperateStep ==
  ASSUME NEW a \in 1 .. 2, NEW n \in 2 .. 8, NEW args, NEW r, CellsAre(args, r, a, n), NEW fn,
         NEW ss, CodeIs(ss, fn, args, r, a, n), NEW e, IsEnv(e), NEW pc, pc = a + 1,
         EnvHolds(e, pc, ss, fn, args, r, a, n)
  PROVE  EnvHolds(Move(e, ss[pc]), pc + 1, ss, fn, args, r, a, n)
<1>1. PICK m, d : m = ss[pc] /\ d = Move(e, m)
  OBVIOUS
<1>2. Operates(m, fn, a, n)
  BY <1>1 DEF CodeIs
<1>3. /\ m.kind = "op" /\ m.reg = "res" /\ m.w \in {2, 4, 8} /\ n <= m.w /\ m.cells = Empty
      /\ m.fn = fn /\ m.from = [k \in 1 .. a |-> Name(k)]
  BY <1>2 DEF Operates, Widths
<1>4. /\ d.touched = e.touched \cup Touched(m) /\ d.mem = e.mem
      /\ d.regs = Over(Only(m.reg, Loaded(m, e)), e.regs)
  <2>1. m.kind # "store"
    BY <1>3
  <2>2. QED
    BY <1>1, <2>1, MoveIs
<1>5. pc \in Nat /\ pc <= a + 2 /\ pc + 1 <= a + 2 /\ pc + 1 > a + 1 /\ \A k \in 1 .. a : k < pc
  OBVIOUS
<1>6. e.mem = Empty
  BY <1>5 DEF EnvHolds, MemoryHolds
<1>7. DOMAIN args = 1 .. a
  BY DEF CellsAre
<1>8. \A k \in 1 .. a : \A i \in 1 .. n : LaneOf(e.regs, Name(k), i - 1) = Input(args[k][i])
  BY <1>5 DEF EnvHolds, OperandsHold
<1>9. ASSUME NEW i \in 1 .. n
      PROVE  i - 1 \in DOMAIN Loaded(m, e) /\ Loaded(m, e)[i - 1] = ValueOf(fn, args, i)
  <2>1. PICK x : x = i - 1
    OBVIOUS
  <2>2. x \in 0 .. m.w - 1
    BY <1>3, <2>1
  <2>3. m.kind # "low" /\ m.kind # "high"
    BY <1>3
  <2>4. Loaded(m, e)[x] = OnLane(m.fn, [k \in DOMAIN m.from |-> LaneOf(e.regs, m.from[k], x)])
    BY <1>3, <2>2, <2>3 DEF Loaded
  <2>5. [k \in DOMAIN m.from |-> LaneOf(e.regs, m.from[k], x)]
          = [k \in DOMAIN args |-> Input(args[k][i])]
    <3>1. DOMAIN m.from = 1 .. a /\ \A k \in 1 .. a : m.from[k] = Name(k)
      BY <1>3
    <3>2. \A k \in 1 .. a : LaneOf(e.regs, m.from[k], x) = Input(args[k][i])
      BY <1>8, <2>1, <3>1
    <3>3. QED
      BY <1>7, <3>1, <3>2
  <2>6. DOMAIN Loaded(m, e) = 0 .. m.w - 1
    BY DEF Loaded
  <2>7. Loaded(m, e)[x] = ValueOf(fn, args, i)
    BY <1>3, <2>4, <2>5 DEF ValueOf
  <2>8. QED
    BY <2>1, <2>2, <2>6, <2>7
<1>10. ASSUME NEW i \in 1 .. n
       PROVE  LaneOf(d.regs, "res", i - 1) = ValueOf(fn, args, i)
  <2>1. PICK l, x : l = Loaded(m, e) /\ x = i - 1
    OBVIOUS
  <2>2. x \in DOMAIN l /\ l[x] = ValueOf(fn, args, i)
    BY <1>9, <2>1
  <2>3. LaneOf(Over(Only(m.reg, l), e.regs), m.reg, x) = l[x]
    BY <2>2, LaneAfter
  <2>4. QED
    BY <1>3, <1>4, <2>1, <2>2, <2>3
<1>11. ResultHolds(d, pc + 1, fn, args, a, n)
  BY <1>10 DEF ResultHolds
<1>12. OperandsHold(d, pc + 1, args, a, n)
  <2>1. SUFFICES ASSUME NEW k \in 1 .. a, NEW i \in 1 .. n
                 PROVE  LaneOf(d.regs, Name(k), i - 1) = Input(args[k][i])
    BY DEF OperandsHold
  <2>2. k \in 1 .. 2
    OBVIOUS
  <2>3. Name(k) # m.reg
    BY <1>3, <2>2, RegistersDiffer
  <2>4. LaneOf(d.regs, Name(k), i - 1) = LaneOf(e.regs, Name(k), i - 1)
    BY <1>4, <2>3, LaneAfter
  <2>5. QED
    BY <1>8, <2>4
<1>13. \A p \in a + 2 .. Len(ss) : ~(p < pc + 1)
  BY <1>5
<1>14. HalvesHold(d, pc + 1, ss, fn, args, a, n)
  BY <1>13 DEF HalvesHold
<1>15. MemoryHolds(d, pc + 1, ss, fn, args, r, a, n)
  BY <1>4, <1>6, <1>13 DEF EnvHolds, MemoryHolds
<1>16. d.touched \subseteq Named(args, r)
  <2>1. Touched(m) = {}
    BY <1>3 DEF Touched, Empty
  <2>2. QED
    BY <1>4, <2>1 DEF EnvHolds
<1>17. EnvHolds(d, pc + 1, ss, fn, args, r, a, n)
  BY <1>11, <1>12, <1>14, <1>15, <1>16 DEF EnvHolds
<1>18. QED
  BY <1>1, <1>17

\* A half of the result is extracted.
LEMMA ExtractStep ==
  ASSUME NEW a \in 1 .. 2, NEW n \in 2 .. 8, NEW args, NEW r, CellsAre(args, r, a, n), NEW fn,
         NEW ss, CodeIs(ss, fn, args, r, a, n), NEW e, IsEnv(e), NEW pc \in a + 2 .. Len(ss),
         Extracts(ss[pc]), EnvHolds(e, pc, ss, fn, args, r, a, n)
  PROVE  EnvHolds(Move(e, ss[pc]), pc + 1, ss, fn, args, r, a, n)
<1>1. PICK m, d : m = ss[pc] /\ d = Move(e, m)
  OBVIOUS
<1>2. /\ m.w = 4 /\ m.cells = Empty /\ m.from = <<"res">>
      /\ (m.kind = "low" /\ m.reg = Low) \/ (m.kind = "high" /\ m.reg = High)
  BY <1>1 DEF Extracts
<1>3. m.from[1] = "res" /\ m.kind # "store"
  BY <1>2
<1>4. /\ d.touched = e.touched \cup Touched(m) /\ d.mem = e.mem
      /\ d.regs = Over(Only(m.reg, Loaded(m, e)), e.regs)
  BY <1>1, <1>3, MoveIs
<1>5. pc \in Int /\ pc > a + 1 /\ pc + 1 > a + 1 /\ ~(pc + 1 <= a + 2) /\ \A k \in 1 .. a : k < pc
  OBVIOUS
<1>6. \A i \in 1 .. n : LaneOf(e.regs, "res", i - 1) = ValueOf(fn, args, i)
  BY <1>5 DEF EnvHolds, ResultHolds
<1>7. DOMAIN Loaded(m, e) = 0 .. 3
  BY <1>2 DEF Loaded
<1>8. HalfHolds(d.regs, m.reg, fn, args, n)
  <2>1. ASSUME NEW k \in 0 .. 3
        PROVE  LaneOf(d.regs, m.reg, k) = Loaded(m, e)[k]
    <3>1. PICK l : l = Loaded(m, e)
      OBVIOUS
    <3>2. LaneOf(Over(Only(m.reg, l), e.regs), m.reg, k) = l[k]
      BY <1>7, <3>1, LaneAfter
    <3>3. QED
      BY <1>4, <3>1, <3>2
  <2>2. ASSUME m.reg = Low, NEW k \in 0 .. 3, k + 1 <= n
        PROVE  LaneOf(d.regs, Low, k) = ValueOf(fn, args, k + 1)
    <3>1. m.kind = "low"
      BY <1>2, <2>2 DEF Low, High
    <3>2. Loaded(m, e)[k] = LaneOf(e.regs, m.from[1], k)
      BY <1>2, <3>1 DEF Loaded
    <3>3. k + 1 \in 1 .. n /\ (k + 1) - 1 = k
      BY <2>2
    <3>4. LaneOf(e.regs, "res", k) = ValueOf(fn, args, k + 1)
      BY <1>6, <3>3
    <3>5. QED
      BY <1>3, <2>1, <2>2, <3>2, <3>4
  <2>3. ASSUME m.reg = High, NEW k \in 0 .. 3, k + 5 <= n
        PROVE  LaneOf(d.regs, High, k) = ValueOf(fn, args, k + 5)
    <3>1. m.kind = "high"
      BY <1>2, <2>3 DEF Low, High
    <3>2. Loaded(m, e)[k] = LaneOf(e.regs, m.from[1], k + 4)
      BY <1>2, <3>1 DEF Loaded
    <3>3. k + 5 \in 1 .. n /\ (k + 5) - 1 = k + 4
      BY <2>3
    <3>4. LaneOf(e.regs, "res", k + 4) = ValueOf(fn, args, k + 5)
      BY <1>6, <3>3
    <3>5. QED
      BY <1>3, <2>1, <2>3, <3>2, <3>4
  <2>4. QED
    BY <2>2, <2>3 DEF HalfHolds
<1>9. OperandsHold(d, pc + 1, args, a, n)
  <2>1. SUFFICES ASSUME NEW k \in 1 .. a, NEW i \in 1 .. n
                 PROVE  LaneOf(d.regs, Name(k), i - 1) = Input(args[k][i])
    BY DEF OperandsHold
  <2>2. k \in 1 .. 2 /\ k < pc
    BY <1>5
  <2>3. Name(k) # m.reg
    BY <1>2, <2>2, RegistersDiffer
  <2>4. LaneOf(d.regs, Name(k), i - 1) = LaneOf(e.regs, Name(k), i - 1)
    BY <1>4, <2>3, LaneAfter
  <2>5. QED
    BY <2>2, <2>4 DEF EnvHolds, OperandsHold
<1>10. ResultHolds(d, pc + 1, fn, args, a, n)
  <2>1. SUFFICES ASSUME NEW i \in 1 .. n
                 PROVE  LaneOf(d.regs, "res", i - 1) = ValueOf(fn, args, i)
    BY DEF ResultHolds
  <2>2. m.reg # "res"
    BY <1>2 DEF Low, High
  <2>3. LaneOf(d.regs, "res", i - 1) = LaneOf(e.regs, "res", i - 1)
    BY <1>4, <2>2, LaneAfter
  <2>4. QED
    BY <1>6, <2>3
<1>11. HalvesHold(d, pc + 1, ss, fn, args, a, n)
  <2>1. SUFFICES ASSUME NEW p \in a + 2 .. Len(ss), p < pc + 1, Extracts(ss[p])
                 PROVE  HalfHolds(d.regs, ss[p].reg, fn, args, n)
    BY DEF HalvesHold
  <2>2. CASE ss[p].reg = m.reg
    BY <1>8, <2>2
  <2>3. CASE ss[p].reg # m.reg
    <3>1. p < pc
      BY <1>1, <1>5, <2>1, <2>3
    <3>2. HalfHolds(e.regs, ss[p].reg, fn, args, n)
      BY <2>1, <3>1 DEF EnvHolds, HalvesHold
    <3>3. \A k : LaneOf(d.regs, ss[p].reg, k) = LaneOf(e.regs, ss[p].reg, k)
      BY <1>4, <2>3, LaneAfter
    <3>4. QED
      BY <3>2, <3>3 DEF HalfHolds
  <2>4. QED
    BY <2>2, <2>3
<1>12. MemoryHolds(d, pc + 1, ss, fn, args, r, a, n)
  <2>1. ASSUME NEW p \in a + 2 .. Len(ss), p < pc + 1, ss[p].kind = "store"
        PROVE  Touched(ss[p]) \subseteq DOMAIN d.mem
    <3>1. p # pc
      BY <1>1, <1>3, <2>1
    <3>2. p < pc
      BY <1>5, <2>1, <3>1
    <3>3. QED
      BY <1>4, <2>1, <3>2 DEF EnvHolds, MemoryHolds
  <2>2. QED
    BY <1>4, <1>5, <2>1 DEF EnvHolds, MemoryHolds
<1>13. d.touched \subseteq Named(args, r)
  <2>1. Touched(m) = {}
    BY <1>2 DEF Touched, Empty
  <2>2. QED
    BY <1>4, <2>1 DEF EnvHolds
<1>14. EnvHolds(d, pc + 1, ss, fn, args, r, a, n)
  BY <1>9, <1>10, <1>11, <1>12, <1>13 DEF EnvHolds
<1>15. QED
  BY <1>1, <1>14

\* Lanes of the result are stored.
LEMMA StoreStep ==
  ASSUME NEW a \in 1 .. 2, NEW n \in 2 .. 8, NEW args, NEW r, CellsAre(args, r, a, n), NEW fn,
         NEW ss, CodeIs(ss, fn, args, r, a, n), NEW e, IsEnv(e), NEW pc \in a + 2 .. Len(ss),
         StoresPart(ss[pc], r, n), EnvHolds(e, pc, ss, fn, args, r, a, n)
  PROVE  EnvHolds(Move(e, ss[pc]), pc + 1, ss, fn, args, r, a, n)
<1>1. PICK m, d : m = ss[pc] /\ d = Move(e, m)
  OBVIOUS
<1>2. \/ Puts(m, "res", r, 0, n)
      \/ Puts(m, Low, r, 0, 4) /\ n > 4
      \/ Puts(m, High, r, 4, n - 4)
  BY <1>1 DEF StoresPart
<1>3. m.kind = "store"
  BY <1>2 DEF Puts
<1>4. d.touched = e.touched \cup Touched(m) /\ d.regs = e.regs /\ d.mem = Over(Stored(m, e), e.mem)
  BY <1>1, <1>3, MoveIs
<1>5. pc \in Int /\ pc > a + 1 /\ pc + 1 > a + 1 /\ ~(pc + 1 <= a + 2) /\ \A k \in 1 .. a : k < pc
  OBVIOUS
<1>6. DOMAIN r = 1 .. n
  BY DEF CellsAre
<1>7. ASSUME NEW k \in DOMAIN m.cells
      PROVE  \E i \in 1 .. n : m.cells[k] = r[i] /\ LaneOf(e.regs, m.reg, k) = ValueOf(fn, args, i)
  <2>1. CASE Puts(m, "res", r, 0, n)
    <3>1. k \in 0 .. n - 1 /\ m.cells[k] = r[0 + k + 1] /\ m.reg = "res"
      BY <2>1 DEF Puts
    <3>2. PICK i \in 1 .. n : i = 0 + k + 1 /\ i - 1 = k
      BY <3>1
    <3>3. LaneOf(e.regs, "res", i - 1) = ValueOf(fn, args, i)
      BY <1>5 DEF EnvHolds, ResultHolds
    <3>4. QED
      BY <3>1, <3>2, <3>3
  <2>2. ASSUME m.reg \in {Low, High}
        PROVE  HalfHolds(e.regs, m.reg, fn, args, n)
    <3>1. m.reg # "res"
      BY <2>2 DEF Low, High
    <3>2. PICK p \in a + 2 .. pc - 1 : Extracts(ss[p]) /\ ss[p].reg = m.reg
      BY <1>1, <1>3, <3>1 DEF CodeIs
    <3>3. p \in a + 2 .. Len(ss) /\ p < pc
      BY <1>5
    <3>4. QED
      BY <3>2, <3>3 DEF EnvHolds, HalvesHold
  <2>3. CASE Puts(m, Low, r, 0, 4) /\ n > 4
    <3>1. k \in 0 .. 3 /\ m.cells[k] = r[0 + k + 1] /\ m.reg = Low
      BY <2>3 DEF Puts
    <3>2. PICK i \in 1 .. n : i = 0 + k + 1 /\ i = k + 1 /\ k + 1 <= n
      BY <2>3, <3>1
    <3>3. LaneOf(e.regs, Low, k) = ValueOf(fn, args, k + 1)
      BY <2>2, <3>1, <3>2 DEF HalfHolds
    <3>4. QED
      BY <3>1, <3>2, <3>3
  <2>4. CASE Puts(m, High, r, 4, n - 4)
    <3>1. k \in 0 .. (n - 4) - 1 /\ m.cells[k] = r[4 + k + 1] /\ m.reg = High
      BY <2>4 DEF Puts
    <3>2. PICK i \in 1 .. n : i = 4 + k + 1 /\ i = k + 5 /\ k + 5 <= n /\ k \in 0 .. 3
      BY <3>1
    <3>3. LaneOf(e.regs, High, k) = ValueOf(fn, args, k + 5)
      BY <2>2, <3>1, <3>2 DEF HalfHolds
    <3>4. QED
      BY <3>1, <3>2, <3>3
  <2>5. QED
    BY <1>2, <2>1, <2>3, <2>4
<1>8. PICK s : s = Stored(m, e)
  OBVIOUS
<1>9. /\ DOMAIN s = Touched(m)
      /\ \A c \in Touched(m) : \E k \in DOMAIN m.cells :
           m.cells[k] = c /\ s[c] = LaneOf(e.regs, m.reg, k)
  <2>1. \A c \in Touched(m) : \E k \in DOMAIN m.cells : m.cells[k] = c
    BY DEF Touched
  <2>2. ASSUME NEW c \in Touched(m)
        PROVE  \E k \in DOMAIN m.cells : m.cells[k] = c /\ s[c] = LaneOf(e.regs, m.reg, k)
    <3>1. PICK k : k = CHOOSE j \in DOMAIN m.cells : m.cells[j] = c
      OBVIOUS
    <3>2. k \in DOMAIN m.cells /\ m.cells[k] = c
      BY <2>1, <3>1
    <3>3. s[c] = LaneOf(e.regs, m.reg, k)
      BY <1>8, <3>1 DEF Stored
    <3>4. QED
      BY <3>2, <3>3
  <2>3. DOMAIN s = Touched(m)
    BY <1>8 DEF Stored
  <2>4. QED
    BY <2>2, <2>3
<1>10. \A c \in Touched(m) : \E i \in 1 .. n : c = r[i] /\ s[c] = ValueOf(fn, args, i)
  <2>1. SUFFICES ASSUME NEW c \in Touched(m)
                 PROVE  \E i \in 1 .. n : c = r[i] /\ s[c] = ValueOf(fn, args, i)
    OBVIOUS
  <2>2. PICK k \in DOMAIN m.cells : m.cells[k] = c /\ s[c] = LaneOf(e.regs, m.reg, k)
    BY <1>9
  <2>3. PICK i \in 1 .. n : m.cells[k] = r[i] /\ LaneOf(e.regs, m.reg, k) = ValueOf(fn, args, i)
    BY <1>7
  <2>4. QED
    BY <2>2, <2>3
<1>11. OperandsHold(d, pc + 1, args, a, n)
  BY <1>4, <1>5 DEF EnvHolds, OperandsHold
<1>12. ResultHolds(d, pc + 1, fn, args, a, n)
  BY <1>4, <1>5 DEF EnvHolds, ResultHolds
<1>13. HalvesHold(d, pc + 1, ss, fn, args, a, n)
  <2>1. SUFFICES ASSUME NEW p \in a + 2 .. Len(ss), p < pc + 1, Extracts(ss[p])
                 PROVE  HalfHolds(d.regs, ss[p].reg, fn, args, n)
    BY DEF HalvesHold
  <2>2. ss[p].kind # "store"
    BY <2>1 DEF Extracts
  <2>3. p # pc
    BY <1>1, <1>3, <2>2
  <2>4. p < pc
    BY <1>5, <2>1, <2>3
  <2>5. QED
    BY <1>4, <2>1, <2>4 DEF EnvHolds, HalvesHold
<1>14. MemoryHolds(d, pc + 1, ss, fn, args, r, a, n)
  <2>1. /\ DOMAIN d.mem = Touched(m) \cup DOMAIN e.mem
        /\ d.mem = [c \in DOMAIN d.mem |-> d.mem[c]]
        /\ \A c \in DOMAIN d.mem : d.mem[c] = IF c \in Touched(m) THEN s[c] ELSE e.mem[c]
    BY <1>4, <1>8, <1>9 DEF Over
  <2>2. \A c \in DOMAIN e.mem : \E i \in 1 .. n : c = r[i] /\ e.mem[c] = ValueOf(fn, args, i)
    BY DEF EnvHolds, MemoryHolds
  <2>3. \A c \in DOMAIN d.mem : \E i \in 1 .. n : c = r[i] /\ d.mem[c] = ValueOf(fn, args, i)
    BY <1>10, <2>1, <2>2
  <2>4. ASSUME NEW p \in a + 2 .. Len(ss), p < pc + 1, ss[p].kind = "store"
        PROVE  Touched(ss[p]) \subseteq DOMAIN d.mem
    <3>1. CASE p = pc
      BY <1>1, <2>1, <3>1
    <3>2. CASE p # pc
      <4>1. p < pc
        BY <1>5, <2>4, <3>2
      <4>2. Touched(ss[p]) \subseteq DOMAIN e.mem
        BY <2>4, <4>1 DEF EnvHolds, MemoryHolds
      <4>3. QED
        BY <2>1, <4>2
    <3>3. QED
      BY <3>1, <3>2
  <2>5. QED
    BY <1>5, <2>1, <2>3, <2>4 DEF MemoryHolds
<1>15. d.touched \subseteq Named(args, r)
  <2>1. \A c \in Touched(m) : c \in CellsOf(r)
    BY <1>6, <1>10 DEF CellsOf, ToSet
  <2>2. QED
    BY <1>4, <2>1 DEF EnvHolds, Named
<1>16. EnvHolds(d, pc + 1, ss, fn, args, r, a, n)
  BY <1>11, <1>12, <1>13, <1>14, <1>15 DEF EnvHolds
<1>17. QED
  BY <1>1, <1>16

(***************************************************************************)
(* Memory after the first m of the statements.                             *)
(***************************************************************************)
AfterSome(fn, args, r, n, m) ==
  [c \in {r[j] : j \in 1 .. m} |-> ValueOf(fn, args, CHOOSE j \in 1 .. n : r[j] = c)]

\* No statement reads what one before it stores.
ReadsNoResult(args, r, n) ==
  \A k \in DOMAIN args : \A i, j \in 1 .. n : i < j => args[k][j] # r[i]

\* Memory after one more statement, which reads what was there at first.
LEMMA OneMoreStatement ==
  ASSUME NEW n \in Nat, NEW r, DOMAIN r = 1 .. n, Distinct(r), NEW fn, NEW args,
         ReadsNoResult(args, r, n), NEW m \in 1 .. n
  PROVE  LET mem == AfterSome(fn, args, r, n, m - 1)
         IN  Over(Only(r[m], OnLane(fn, [k \in DOMAIN args |-> Read(mem, args[k][m])])), mem)
               = AfterSome(fn, args, r, n, m)
<1>1. PICK mem : mem = AfterSome(fn, args, r, n, m - 1)
  OBVIOUS
<1>2. DOMAIN mem = {r[j] : j \in 1 .. m - 1}
  BY <1>1 DEF AfterSome
<1>3. \A k \in DOMAIN args : Read(mem, args[k][m]) = Input(args[k][m])
  <2>1. SUFFICES ASSUME NEW k \in DOMAIN args
                 PROVE  args[k][m] \notin DOMAIN mem
    BY DEF Read
  <2>2. \A j \in 1 .. m - 1 : args[k][m] # r[j]
    <3>1. \A j \in 1 .. m - 1 : j \in 1 .. n /\ j < m
      OBVIOUS
    <3>2. QED
      BY <3>1 DEF ReadsNoResult
  <2>3. QED
    BY <1>2, <2>2
<1>4. OnLane(fn, [k \in DOMAIN args |-> Read(mem, args[k][m])]) = ValueOf(fn, args, m)
  <2>1. [k \in DOMAIN args |-> Read(mem, args[k][m])] = [k \in DOMAIN args |-> Input(args[k][m])]
    BY <1>3
  <2>2. QED
    BY <2>1 DEF ValueOf
<1>5. \A i \in 1 .. n : (CHOOSE j \in 1 .. n : r[j] = r[i]) = i
  BY DEF Distinct
<1>6. PICK f : f = Over(Only(r[m], ValueOf(fn, args, m)), mem)
  OBVIOUS
<1>7. /\ f = [c \in {r[m]} \cup DOMAIN mem |-> f[c]]
      /\ \A c \in {r[m]} \cup DOMAIN mem :
           f[c] = IF c \in {r[m]} THEN ValueOf(fn, args, m) ELSE mem[c]
  <2>1. PICK x, y : x = r[m] /\ y = ValueOf(fn, args, m)
    OBVIOUS
  <2>2. DOMAIN Only(x, y) = {x} /\ Only(x, y)[x] = y
    BY DEF Only
  <2>3. f = Over(Only(x, y), mem)
    BY <1>6, <2>1
  <2>4. /\ f = [c \in {x} \cup DOMAIN mem |-> f[c]]
        /\ \A c \in {x} \cup DOMAIN mem : f[c] = IF c \in {x} THEN y ELSE mem[c]
    BY <2>2, <2>3 DEF Over
  <2>5. QED
    BY <2>1, <2>4
<1>8. {r[m]} \cup DOMAIN mem = {r[j] : j \in 1 .. m}
  <2>1. \A j \in 1 .. m : j = m \/ j \in 1 .. m - 1
    OBVIOUS
  <2>2. m \in 1 .. m /\ \A j \in 1 .. m - 1 : j \in 1 .. m
    OBVIOUS
  <2>3. QED
    BY <1>2, <2>1, <2>2
<1>9. PICK g : g = AfterSome(fn, args, r, n, m)
  OBVIOUS
<1>10. /\ g = [c \in {r[j] : j \in 1 .. m} |-> g[c]]
       /\ \A c \in {r[j] : j \in 1 .. m} : g[c] = ValueOf(fn, args, CHOOSE j \in 1 .. n : r[j] = c)
  BY <1>9 DEF AfterSome
<1>11. ASSUME NEW c \in {r[j] : j \in 1 .. m}
       PROVE  f[c] = g[c]
  <2>1. CASE c = r[m]
    <3>1. f[c] = ValueOf(fn, args, m)
      BY <1>7, <2>1
    <3>2. g[c] = ValueOf(fn, args, m)
      BY <1>5, <1>10, <2>1
    <3>3. QED
      BY <3>1, <3>2
  <2>2. CASE c # r[m]
    <3>1. c \in DOMAIN mem /\ f[c] = mem[c]
      BY <1>7, <1>8, <2>2
    <3>2. mem[c] = ValueOf(fn, args, CHOOSE j \in 1 .. n : r[j] = c)
      BY <1>1, <1>2, <3>1 DEF AfterSome
    <3>3. QED
      BY <1>10, <3>1, <3>2
  <2>3. QED
    BY <2>1, <2>2
<1>12. f = g
  <2>1. PICK D : D = {r[j] : j \in 1 .. m}
    OBVIOUS
  <2>2. f = [c \in D |-> f[c]] /\ g = [c \in D |-> g[c]] /\ \A c \in D : f[c] = g[c]
    <3>1. f = [c \in D |-> f[c]]
      BY <1>7, <1>8, <2>1
    <3>2. g = [c \in D |-> g[c]]
      BY <1>10, <2>1
    <3>3. \A c \in D : f[c] = g[c]
      BY <1>11, <2>1
    <3>4. QED
      BY <3>1, <3>2, <3>3
  <2>3. [c \in D |-> f[c]] = [c \in D |-> g[c]]
    BY <2>2
  <2>4. QED
    BY <2>2, <2>3
<1>13. QED
  BY <1>1, <1>4, <1>6, <1>9, <1>12

\* Memory after all of them.
LEMMA StatementsAre ==
  ASSUME NEW a \in 1 .. 2, NEW n \in 2 .. 8, ShapeIs(a, n), Distinct(vop.r), Parallel
  PROVE  AsStatements = AfterSome(vop.fn, vop.args, vop.r, n, n)
<1>1. DOMAIN vop.r = 1 .. n /\ Len(vop.r) = n
  BY OperandsAre
<1>2. PICK r, args, fn : r = vop.r /\ args = vop.args /\ fn = vop.fn
  OBVIOUS
<1>3. DOMAIN r = 1 .. n /\ Distinct(r) /\ ReadsNoResult(args, r, n) /\ n \in Nat
  BY <1>1, <1>2 DEF Parallel, ReadsNoResult
<1> DEFINE G(m) == AfterSome(fn, args, r, n, m)
           Step(mem, i) ==
             Over(Only(r[i], OnLane(fn, [k \in DOMAIN args |-> Read(mem, args[k][i])])), mem)
           From(h, i) == IF i = 0 THEN Empty ELSE Step(h[i - 1], i)
           g == CHOOSE h : h = [i \in 0 .. n |-> From(h, i)]
<1>4. AsStatements = g[n]
  BY <1>1, <1>2 DEF AsStatements, Through
<1>5. \A m \in 1 .. n : Step(G(m - 1), m) = G(m)
  BY <1>3, OneMoreStatement
<1>6. G(0) = Empty
  <2>1. {r[j] : j \in 1 .. 0} = {}
    OBVIOUS
  <2>2. QED
    BY <2>1 DEF AfterSome, Empty
<1> HIDE DEF G, Step
<1>7. \E h : h = [i \in 0 .. n |-> From(h, i)]
  <2> DEFINE f == [i \in 0 .. n |-> G(i)]
  <2>1. \A i \in 0 .. n : f[i] = G(i)
    OBVIOUS
  <2>2. f = [i \in 0 .. n |-> f[i]]
    OBVIOUS
  <2> HIDE DEF f
  <2>3. \A i \in 0 .. n : i = 0 \/ (i # 0 /\ i \in 1 .. n /\ i - 1 \in 0 .. n)
    BY <1>3
  <2>4. \A i \in 0 .. n : f[i] = From(f, i)
    BY <1>5, <1>6, <2>1, <2>3
  <2> HIDE DEF From
  <2>5. [i \in 0 .. n |-> f[i]] = [i \in 0 .. n |-> From(f, i)]
    BY <2>4
  <2>6. f = [i \in 0 .. n |-> From(f, i)]
    BY <2>2, <2>5
  <2>7. QED
    BY <2>6
<1>8. g = [i \in 0 .. n |-> From(g, i)]
  <2> HIDE DEF From
  <2>1. QED
    BY <1>7
<1> HIDE DEF g
<1>9. \A i \in 0 .. n : g[i] = From(g, i)
  <2> HIDE DEF From
  <2>1. QED
    BY <1>8
<1> DEFINE K == {i \in 0 .. n : g[i] = G(i)}
<1>10. 0 \in K
  BY <1>3, <1>6, <1>9
<1>11. ASSUME NEW i \in Nat, i < n, i \in K
       PROVE  i + 1 \in K
  <2>1. i + 1 \in 0 .. n /\ i + 1 \in 1 .. n /\ (i + 1) - 1 = i /\ i + 1 # 0
    BY <1>3, <1>11
  <2>2. g[i + 1] = Step(g[i], i + 1)
    BY <1>9, <2>1
  <2>3. g[i] = G(i)
    BY <1>11
  <2>4. Step(G(i), i + 1) = G(i + 1)
    BY <1>5, <2>1
  <2>5. QED
    BY <2>1, <2>2, <2>3, <2>4
<1> HIDE DEF K
<1>12. 0 .. n \subseteq K
  BY <1>3, <1>10, <1>11, InductionUpTo
<1>13. g[n] = G(n)
  <2>1. n \in 0 .. n
    BY <1>3
  <2>2. QED
    BY <1>12, <2>1 DEF K
<1>14. QED
  BY <1>2, <1>4, <1>13 DEF G

\* A register is as wide as the lanes it has.
LEMMA LanesAre ==
  ASSUME NEW f, NEW w \in Widths, DOMAIN f = 0 .. w - 1
  PROVE  Lanes(f) = w
<1>1. PICK x \in Nat : x = w /\ x >= 2
  BY DEF Widths
<1>2. DOMAIN f # {} /\ x - 1 \in DOMAIN f /\ (x - 1) + 1 \notin DOMAIN f
  BY <1>1
<1>3. \A i \in DOMAIN f : i + 1 \notin DOMAIN f => i = x - 1
  BY <1>1
<1>4. (CHOOSE i \in DOMAIN f : i + 1 \notin DOMAIN f) = x - 1
  BY <1>2, <1>3
<1>5. Lanes(f) = 1 + (x - 1)
  BY <1>2, <1>4 DEF Lanes
<1>6. 1 + (x - 1) = x
  OBVIOUS
<1>7. QED
  BY <1>1, <1>5, <1>6

-------------------------------------------------------------------------------
(***************************************************************************)
(* The invariant: code is what mapOperation generates, and registers and   *)
(* memory are what the instructions before at have made of them.           *)
(***************************************************************************)
Generated ==
  \/ at = 0 /\ code = <<>> /\ env = Untouched
  \/ at \in 1 .. Len(code) + 1 /\ code = MapCode

RegistersWide ==
  \A r \in DOMAIN env.regs : \E w \in Widths : DOMAIN env.regs[r] = 0 .. w - 1

MapTypeInv ==
  /\ vop \in Operations /\ opts \in Options
  /\ IsEnv(env) /\ Generated /\ RegistersWide
  /\ DOMAIN env.mem \subseteq env.touched

MapDataInv ==
  at >= 1 /\ Supported =>
    \A a \in 1 .. 2, n \in 2 .. 8 :
      ShapeIs(a, n) => EnvHolds(env, at, code, vop.fn, vop.args, vop.r, a, n)

\* Untouched registers and memory hold nothing.
LEMMA UntouchedHolds ==
  ASSUME NEW a \in 1 .. 2, NEW n, NEW ss, NEW fn, NEW args, NEW r
  PROVE  /\ IsEnv(Untouched) /\ Untouched.regs = Empty /\ Untouched.mem = Empty
         /\ Untouched.touched = {} /\ DOMAIN Empty = {}
         /\ EnvHolds(Untouched, 1, ss, fn, args, r, a, n)
<1>1. /\ IsEnv(Untouched) /\ Untouched.regs = Empty /\ Untouched.mem = Empty
      /\ Untouched.touched = {}
  BY DEF IsEnv, Untouched
<1>2. DOMAIN Empty = {} /\ Empty = [c \in DOMAIN Empty |-> Empty[c]]
  BY DEF Empty
<1>3. /\ \A k \in 1 .. a : ~(k < 1)
      /\ ~(1 > a + 1)
      /\ \A p \in a + 2 .. Len(ss) : ~(p < 1)
  OBVIOUS
<1>4. OperandsHold(Untouched, 1, args, a, n) /\ ResultHolds(Untouched, 1, fn, args, a, n)
      /\ HalvesHold(Untouched, 1, ss, fn, args, a, n)
  BY <1>3 DEF OperandsHold, ResultHolds, HalvesHold
<1>5. MemoryHolds(Untouched, 1, ss, fn, args, r, a, n)
  BY <1>1, <1>2, <1>3 DEF MemoryHolds
<1>6. QED
  BY <1>1, <1>2, <1>4, <1>5 DEF EnvHolds

\* What code, Supported and the shape are made of is chosen once.
LEMMA ChosenOnce ==
  ASSUME UNCHANGED <<vop, opts>>
  PROVE  /\ MapCode' = MapCode /\ (Supported' => Supported)
         /\ \A a, n : ShapeIs(a, n)' => ShapeIs(a, n)
<1>1. vop' = vop /\ opts' = opts
  OBVIOUS
<1>2. Args' = Args /\ ResultOperand' = ResultOperand
  BY <1>1 DEF Args, ResultOperand
<1>3. MapCode' = MapCode
  BY <1>1, <1>2 DEF MapCode
<1>4. Supported' => Supported
  BY <1>1, <1>2 DEF Supported, Parallel
<1>5. \A a, n : ShapeIs(a, n)' => ShapeIs(a, n)
  BY <1>1 DEF ShapeIs
<1>6. QED
  BY <1>3, <1>4, <1>5

\* At first nothing was generated.
LEMMA MapInitInv == MapInit => MapTypeInv /\ MapDataInv
<1>1. SUFFICES ASSUME MapInit
               PROVE  MapTypeInv /\ MapDataInv
  OBVIOUS
<1>2. 1 \in 1 .. 2
  OBVIOUS
<1>3. /\ IsEnv(Untouched) /\ Untouched.regs = Empty /\ Untouched.mem = Empty /\ DOMAIN Empty = {}
  BY <1>2, UntouchedHolds
<1>4. vop \in Operations /\ opts \in Options /\ code = <<>> /\ at = 0 /\ env = Untouched
  BY <1>1 DEF MapInit
<1>5. MapTypeInv
  BY <1>3, <1>4 DEF MapTypeInv, Generated, RegistersWide
<1>6. MapDataInv
  BY <1>4 DEF MapDataInv
<1>7. QED
  BY <1>5, <1>6

\* Code is generated for registers and memory that nothing was done to.
LEMMA MapGenerates ==
  ASSUME MapTypeInv, MapDataInv, GetSIMDfromVectorOP
  PROVE  MapTypeInv' /\ MapDataInv'
<1>1. /\ at = 0 /\ code' = MapCode /\ at' = 1
      /\ UNCHANGED <<vop, opts>> /\ env' = env /\ vop' = vop /\ opts' = opts
  BY DEF GetSIMDfromVectorOP, MapCode
<1>2. env = Untouched
  BY <1>1 DEF MapTypeInv, Generated
<1>3. MapCode' = MapCode
  BY <1>1, ChosenOnce
<1>4. Wide(MapCode)
  <2>1. PICK a \in 1 .. 2, n \in 2 .. 8 : ShapeIs(a, n)
    BY OperationHasShape DEF MapTypeInv
  <2>2. QED
    BY <2>1, CodeWide
<1>5. Len(MapCode) \in Nat
  BY <1>4, SeqOfMembers DEF Wide
<1>6. MapTypeInv'
  <2>1. PICK ss : ss = MapCode
    OBVIOUS
  <2>2. at' \in 1 .. Len(code') + 1 /\ code' = MapCode'
    <3>1. 1 \in 1 .. Len(ss) + 1
      BY <1>5, <2>1
    <3>2. QED
      BY <1>1, <1>3, <2>1, <3>1
  <2>3. Generated'
    BY <2>2 DEF Generated
  <2>4. RegistersWide' /\ IsEnv(env)' /\ (DOMAIN env.mem \subseteq env.touched)'
    BY <1>1 DEF MapTypeInv, RegistersWide
  <2>5. vop' \in Operations /\ opts' \in Options
    BY <1>1 DEF MapTypeInv
  <2>6. QED
    BY <2>3, <2>4, <2>5 DEF MapTypeInv
<1>7. MapDataInv'
  <2>1. \A a \in 1 .. 2, n \in 2 .. 8 :
          EnvHolds(Untouched, 1, code', vop'.fn, vop'.args, vop'.r, a, n)
    BY UntouchedHolds
  <2>2. \A a \in 1 .. 2, n \in 2 .. 8 :
          EnvHolds(env', at', code', vop'.fn, vop'.args, vop'.r, a, n)
    BY <1>1, <1>2, <2>1
  <2>3. QED
    BY <2>2 DEF MapDataInv
<1>8. QED
  BY <1>6, <1>7

\* The next instruction is one of the code's, between its first and its last.
LEMMA NextInstruction ==
  ASSUME MapTypeInv, Execute
  PROVE  /\ code = MapCode /\ at \in 1 .. Len(code) /\ Len(code) \in Nat
         /\ code[at].w \in Widths /\ \E a \in 1 .. 2, n \in 2 .. 8 : ShapeIs(a, n)
<1>1. at \in DOMAIN code
  BY DEF Execute
<1>2. PICK a \in 1 .. 2, n \in 2 .. 8 : ShapeIs(a, n)
  BY OperationHasShape DEF MapTypeInv
<1>3. code = MapCode
  <2>1. code # <<>>
    <3>1. DOMAIN <<>> = {}
      OBVIOUS
    <3>2. QED
      BY <1>1, <3>1
  <2>2. QED
    BY <2>1 DEF MapTypeInv, Generated
<1>4. Wide(code)
  BY <1>2, <1>3, CodeWide
<1>5. DOMAIN code = 1 .. Len(code) /\ Len(code) \in Nat
  BY <1>4, SeqOfMembers DEF Wide
<1>6. code[at] \in Members(code)
  BY <1>1 DEF Members
<1>7. QED
  BY <1>1, <1>2, <1>3, <1>4, <1>5, <1>6 DEF Wide

\* An instruction writes a register of its width, or memory.
LEMMA MapExecutesType ==
  ASSUME MapTypeInv, Execute
  PROVE  MapTypeInv'
<1>1. /\ env' = Move(env, code[at]) /\ at' = at + 1
      /\ UNCHANGED <<vop, opts>> /\ code' = code /\ vop' = vop /\ opts' = opts
  BY DEF Execute
<1>2. /\ code = MapCode /\ at \in 1 .. Len(code) /\ Len(code) \in Nat /\ code[at].w \in Widths
  BY NextInstruction
<1>3. MapCode' = MapCode
  BY <1>1, ChosenOnce
<1>4. PICK m, e, d : m = code[at] /\ e = env /\ d = Move(e, m)
  OBVIOUS
<1>5. env' = d /\ m.w \in Widths /\ IsEnv(e)
  BY <1>1, <1>2, <1>4 DEF MapTypeInv
<1>6. /\ IsEnv(d) /\ d.touched = e.touched \cup Touched(m)
      /\ m.kind = "store" => d.regs = e.regs /\ d.mem = Over(Stored(m, e), e.mem)
      /\ m.kind # "store" =>
           d.mem = e.mem /\ d.regs = Over(Only(m.reg, Loaded(m, e)), e.regs)
  BY <1>4, <1>5, MoveIs
<1>7. /\ \A r \in DOMAIN e.regs : \E w \in Widths : DOMAIN e.regs[r] = 0 .. w - 1
      /\ DOMAIN e.mem \subseteq e.touched
  BY <1>4 DEF MapTypeInv, RegistersWide
<1>8. \A r \in DOMAIN d.regs : \E w \in Widths : DOMAIN d.regs[r] = 0 .. w - 1
  <2>1. CASE m.kind = "store"
    BY <1>6, <1>7, <2>1
  <2>2. CASE m.kind # "store"
    <3>1. PICK x, l : x = m.reg /\ l = Loaded(m, e)
      OBVIOUS
    <3>2. DOMAIN l = 0 .. m.w - 1
      BY <3>1 DEF Loaded
    <3>3. DOMAIN Only(x, l) = {x} /\ Only(x, l)[x] = l
      BY DEF Only
    <3>4. d.regs = Over(Only(x, l), e.regs)
      BY <1>6, <2>2, <3>1
    <3>5. /\ DOMAIN d.regs = {x} \cup DOMAIN e.regs
          /\ \A z \in {x} \cup DOMAIN e.regs : d.regs[z] = IF z \in {x} THEN l ELSE e.regs[z]
      BY <3>3, <3>4 DEF Over
    <3>6. QED
      BY <1>5, <1>7, <3>2, <3>5
  <2>3. QED
    BY <2>1, <2>2
<1>9. DOMAIN d.mem \subseteq d.touched
  <2>1. CASE m.kind = "store"
    <3>1. PICK s : s = Stored(m, e)
      OBVIOUS
    <3>2. DOMAIN s = Touched(m)
      BY <3>1 DEF Stored
    <3>3. DOMAIN d.mem = DOMAIN s \cup DOMAIN e.mem
      BY <1>6, <2>1, <3>1 DEF Over
    <3>4. QED
      BY <1>6, <1>7, <3>2, <3>3
  <2>2. CASE m.kind # "store"
    BY <1>6, <1>7, <2>2
  <2>3. QED
    BY <2>1, <2>2
<1>10. Generated'
  <2>1. at' \in 1 .. Len(code') + 1
    <3>1. PICK x \in Nat : x = Len(code)
      BY <1>2
    <3>2. at + 1 \in 1 .. x + 1
      BY <1>2, <3>1
    <3>3. QED
      BY <1>1, <3>1, <3>2
  <2>2. code' = MapCode'
    BY <1>1, <1>2, <1>3
  <2>3. QED
    BY <2>1, <2>2 DEF Generated
<1>11. RegistersWide' /\ IsEnv(env)' /\ (DOMAIN env.mem \subseteq env.touched)'
  <2>1. RegistersWide'
    BY <1>5, <1>8 DEF RegistersWide
  <2>2. IsEnv(env')
    BY <1>5, <1>6
  <2>3. QED
    BY <1>5, <1>9, <2>1, <2>2
<1>12. vop' \in Operations /\ opts' \in Options
  BY <1>1 DEF MapTypeInv
<1>13. QED
  BY <1>10, <1>11, <1>12 DEF MapTypeInv

\* The instructions of an operation that is supported do what the statements mean.
LEMMA MapExecutesData ==
  ASSUME MapTypeInv, MapDataInv, Execute
  PROVE  MapDataInv'
<1>1. /\ env' = Move(env, code[at]) /\ at' = at + 1
      /\ UNCHANGED <<vop, opts>> /\ code' = code /\ vop' = vop /\ opts' = opts
  BY DEF Execute
<1>2. code = MapCode /\ at \in 1 .. Len(code) /\ Len(code) \in Nat
  BY NextInstruction
<1>3. SUFFICES ASSUME Supported', NEW a \in 1 .. 2, NEW n \in 2 .. 8, ShapeIs(a, n)'
               PROVE  EnvHolds(env', at', code', vop'.fn, vop'.args, vop'.r, a, n)
  BY DEF MapDataInv
<1>4. Supported /\ ShapeIs(a, n)
  BY <1>1, <1>3, ChosenOnce
<1>5. PICK ss, fn, args, r, e : ss = code /\ fn = vop.fn /\ args = vop.args /\ r = vop.r /\ e = env
  OBVIOUS
<1>6. PICK pc \in 1 .. Len(ss) : pc = at
  BY <1>2, <1>5
<1>7. EnvHolds(e, pc, ss, fn, args, r, a, n)
  <2>1. at >= 1
    BY <1>2
  <2>2. QED
    BY <1>4, <1>5, <1>6, <2>1 DEF MapDataInv
<1>8. CodeIs(ss, fn, args, r, a, n)
  <2>1. opts \in Options
    BY DEF MapTypeInv
  <2>2. CodeIs(MapCode, vop.fn, vop.args, vop.r, a, n)
    BY <1>4, <2>1, CodeOfSupported
  <2>3. QED
    BY <1>2, <1>5, <2>2
<1>9. IsEnv(e) /\ CellsAre(args, r, a, n)
  BY <1>4, <1>5 DEF MapTypeInv, ShapeIs, CellsAre
<1>10. Len(ss) \in Nat
  BY <1>2, <1>5
<1>11. CASE pc <= a
  <2>1. pc \in 1 .. a
    BY <1>10, <1>11
  <2>2. EnvHolds(Move(e, ss[pc]), pc + 1, ss, fn, args, r, a, n)
    BY <1>7, <1>8, <1>9, <2>1, LoadStep
  <2>3. QED
    BY <1>1, <1>5, <1>6, <2>2
<1>12. CASE pc = a + 1
  <2>1. EnvHolds(Move(e, ss[pc]), pc + 1, ss, fn, args, r, a, n)
    BY <1>7, <1>8, <1>9, <1>12, OperateStep
  <2>2. QED
    BY <1>1, <1>5, <1>6, <2>1
<1>13. CASE pc > a + 1
  <2>1. pc \in a + 2 .. Len(ss)
    BY <1>10, <1>13
  <2>2. StoresPart(ss[pc], r, n) \/ Extracts(ss[pc])
    BY <1>8, <2>1 DEF CodeIs
  <2>3. CASE StoresPart(ss[pc], r, n)
    <3>1. EnvHolds(Move(e, ss[pc]), pc + 1, ss, fn, args, r, a, n)
      BY <1>7, <1>8, <1>9, <2>1, <2>3, StoreStep
    <3>2. QED
      BY <1>1, <1>5, <1>6, <3>1
  <2>4. CASE Extracts(ss[pc])
    <3>1. EnvHolds(Move(e, ss[pc]), pc + 1, ss, fn, args, r, a, n)
      BY <1>7, <1>8, <1>9, <2>1, <2>4, ExtractStep
    <3>2. QED
      BY <1>1, <1>5, <1>6, <3>1
  <2>5. QED
    BY <2>2, <2>3, <2>4
<1>14. QED
  <2>1. pc <= a \/ pc = a + 1 \/ pc > a + 1
    BY <1>10
  <2>2. QED
    BY <1>11, <1>12, <1>13, <2>1

\* Nothing changes when nothing is done.
LEMMA MapStutters ==
  ASSUME MapTypeInv, MapDataInv, UNCHANGED mapVars
  PROVE  MapTypeInv' /\ MapDataInv'
<1>1. /\ vop' = vop /\ opts' = opts /\ code' = code /\ at' = at /\ env' = env
      /\ UNCHANGED <<vop, opts>>
  BY DEF mapVars
<1>2. MapCode' = MapCode
  BY <1>1, ChosenOnce
<1>3. MapTypeInv'
  BY <1>1, <1>2 DEF MapTypeInv, Generated, RegistersWide
<1>4. MapDataInv'
  <2>1. SUFFICES ASSUME (at >= 1)', Supported', NEW a \in 1 .. 2, NEW n \in 2 .. 8, ShapeIs(a, n)'
                 PROVE  EnvHolds(env', at', code', vop'.fn, vop'.args, vop'.r, a, n)
    BY DEF MapDataInv
  <2>2. at >= 1 /\ Supported /\ ShapeIs(a, n)
    BY <1>1, <2>1, ChosenOnce
  <2>3. EnvHolds(env, at, code, vop.fn, vop.args, vop.r, a, n)
    BY <2>2 DEF MapDataInv
  <2>4. QED
    BY <1>1, <2>3
<1>5. QED
  BY <1>3, <1>4

\* Whatever operation is mapped, its code, its registers and memory are what the
\* instructions before at have made of them.
THEOREM MapInvariant == MapSpec => [](MapTypeInv /\ MapDataInv)
<1>1. MapInit => MapTypeInv /\ MapDataInv
  BY MapInitInv
<1>2. MapTypeInv /\ MapDataInv /\ [MapNext]_mapVars => (MapTypeInv /\ MapDataInv)'
  <2>1. SUFFICES ASSUME MapTypeInv, MapDataInv, [MapNext]_mapVars
                 PROVE  MapTypeInv' /\ MapDataInv'
    OBVIOUS
  <2>2. CASE GetSIMDfromVectorOP
    BY <2>1, <2>2, MapGenerates
  <2>3. CASE Execute
    BY <2>1, <2>3, MapExecutesType, MapExecutesData
  <2>4. CASE UNCHANGED mapVars
    BY <2>1, <2>4, MapStutters
  <2>5. QED
    BY <2>1, <2>2, <2>3, <2>4 DEF MapNext
<1>3. QED
  BY <1>1, <1>2, PTL DEF MapSpec

\* A register has the lanes of the instruction that wrote it, and memory holds
\* nothing at a cell that no instruction touched.
LEMMA TypesFromInvariant == MapTypeInv => MapTypeOK
<1>1. SUFFICES ASSUME MapTypeInv
               PROVE  MapTypeOK
  OBVIOUS
<1>2. at \in 0 .. Len(code) + 1
  <2>1. CASE at = 0 /\ code = <<>>
    <3>1. Len(<<>>) = 0
      OBVIOUS
    <3>2. PICK ss : ss = code
      OBVIOUS
    <3>3. Len(ss) = 0 /\ 0 \in 0 .. Len(ss) + 1
      BY <2>1, <3>1, <3>2
    <3>4. QED
      BY <2>1, <3>2, <3>3
  <2>2. CASE at \in 1 .. Len(code) + 1 /\ code = MapCode
    <3>1. PICK a \in 1 .. 2, n \in 2 .. 8 : ShapeIs(a, n)
      BY <1>1, OperationHasShape DEF MapTypeInv
    <3>2. Wide(code)
      BY <2>2, <3>1, CodeWide
    <3>3. PICK x \in Nat : x = Len(code)
      BY <3>2, SeqOfMembers DEF Wide
    <3>4. QED
      BY <2>2, <3>3
  <2>3. QED
    BY <1>1, <2>1, <2>2 DEF MapTypeInv, Generated
<1>3. \A r \in DOMAIN env.regs : Lanes(env.regs[r]) \in {2, 4, 8}
  <2>1. SUFFICES ASSUME NEW r \in DOMAIN env.regs
                 PROVE  Lanes(env.regs[r]) \in {2, 4, 8}
    OBVIOUS
  <2>2. PICK w \in Widths : DOMAIN env.regs[r] = 0 .. w - 1
    BY <1>1 DEF MapTypeInv, RegistersWide
  <2>3. Lanes(env.regs[r]) = w
    BY <2>2, LanesAre
  <2>4. QED
    BY <2>3 DEF Widths
<1>4. QED
  BY <1>1, <1>2, <1>3 DEF MapTypeInv, MapTypeOK

\* Code that was run holds what the operation's shape says, and has its form.
LEMMA RanCode ==
  ASSUME MapTypeInv, MapDataInv, at > 1, Ran, Supported
  PROVE  \E a \in 1 .. 2, n \in 2 .. 8 :
           /\ ShapeIs(a, n)
           /\ EnvHolds(env, at, code, vop.fn, vop.args, vop.r, a, n)
           /\ CodeIs(code, vop.fn, vop.args, vop.r, a, n)
           /\ at \in Nat /\ Len(code) \in Nat /\ at = Len(code) + 1
<1>1. PICK a \in 1 .. 2, n \in 2 .. 8 : ShapeIs(a, n)
  BY OperationHasShape DEF MapTypeInv
<1>2. at \in 1 .. Len(code) + 1 /\ code = MapCode
  <2>1. at # 0
    OBVIOUS
  <2>2. QED
    BY <2>1 DEF MapTypeInv, Generated
<1>3. at >= 1
  BY <1>2
<1>4. EnvHolds(env, at, code, vop.fn, vop.args, vop.r, a, n)
  BY <1>1, <1>3 DEF MapDataInv
<1>5. CodeIs(code, vop.fn, vop.args, vop.r, a, n)
  <2>1. opts \in Options
    BY DEF MapTypeInv
  <2>2. CodeIs(MapCode, vop.fn, vop.args, vop.r, a, n)
    BY <1>1, <2>1, CodeOfSupported
  <2>3. QED
    BY <1>2, <2>2
<1>6. Wide(code)
  BY <1>1, <1>2, CodeWide
<1>7. PICK x \in Nat : x = Len(code)
  BY <1>6, SeqOfMembers DEF Wide
<1>8. PICK p : p = at
  OBVIOUS
<1>9. p \in 1 .. x + 1 /\ p > x
  BY <1>2, <1>7, <1>8 DEF Ran
<1>10. p \in Nat /\ p = x + 1
  BY <1>9
<1>11. at \in Nat /\ Len(code) \in Nat /\ at = Len(code) + 1
  BY <1>7, <1>8, <1>10
<1>12. QED
  BY <1>1, <1>4, <1>5, <1>11

\* Every operand was loaded before the last instruction.
LEMMA OperandsFromInvariant == MapTypeInv /\ MapDataInv => OperandsInTheirLanes
<1>1. SUFFICES ASSUME MapTypeInv, MapDataInv, at > 1, Ran, Supported
               PROVE  \A k \in DOMAIN vop.args : \A i \in DOMAIN vop.args[k] :
                        LaneOf(env.regs, Name(k), i - 1) = Input(vop.args[k][i])
  BY DEF OperandsInTheirLanes
<1>2. PICK a \in 1 .. 2, n \in 2 .. 8 :
        /\ ShapeIs(a, n)
        /\ EnvHolds(env, at, code, vop.fn, vop.args, vop.r, a, n)
        /\ CodeIs(code, vop.fn, vop.args, vop.r, a, n)
        /\ at \in Nat /\ Len(code) \in Nat /\ at = Len(code) + 1
  BY <1>1, RanCode
<1>3. DOMAIN vop.args = 1 .. a /\ \A k \in 1 .. a : DOMAIN vop.args[k] = 1 .. n
  BY <1>2 DEF ShapeIs
<1>4. PICK p, l \in Nat : p = at /\ l = Len(code)
  BY <1>2
<1>5. l >= a + 1
  BY <1>2, <1>4 DEF CodeIs
<1>6. p = l + 1
  BY <1>2, <1>4
<1>7. \A k \in 1 .. a : k < p
  BY <1>5, <1>6
<1>8. OperandsHold(env, p, vop.args, a, n)
  BY <1>2, <1>4 DEF EnvHolds
<1>9. QED
  BY <1>3, <1>7, <1>8 DEF OperandsHold

\* Every result was stored, each the value of its statement, and nothing else was.
LEMMA StoredFromInvariant == MapTypeInv /\ MapDataInv => StoresMeanStatements
<1>1. SUFFICES ASSUME MapTypeInv, MapDataInv, at > 1, Ran, Supported
               PROVE  env.mem = AsStatements
  BY DEF StoresMeanStatements
<1>2. PICK a \in 1 .. 2, n \in 2 .. 8 :
        /\ ShapeIs(a, n)
        /\ EnvHolds(env, at, code, vop.fn, vop.args, vop.r, a, n)
        /\ CodeIs(code, vop.fn, vop.args, vop.r, a, n)
        /\ at \in Nat /\ Len(code) \in Nat /\ at = Len(code) + 1
  BY <1>1, RanCode
<1>3. Distinct(vop.r) /\ Parallel
  <2>1. ResultOperand.refs = vop.r
    BY <1>2, OperandsAre DEF RegisterOf
  <2>2. Storable(ResultOperand, opts.avx512) /\ Parallel
    BY <1>1 DEF Supported
  <2>3. QED
    BY <2>1, <2>2 DEF Storable
<1>4. PICK mem, ss, fn, args, r :
        mem = env.mem /\ ss = code /\ fn = vop.fn /\ args = vop.args /\ r = vop.r
  OBVIOUS
<1>5. PICK p, l \in Nat : p = at /\ l = Len(ss)
  BY <1>2, <1>4
<1>6. MemoryHolds(env, p, ss, fn, args, r, a, n) /\ CodeIs(ss, fn, args, r, a, n)
  BY <1>2, <1>4, <1>5 DEF EnvHolds
<1>7. DOMAIN r = 1 .. n /\ Distinct(r)
  BY <1>2, <1>3, <1>4, OperandsAre
<1>8. /\ mem = [c \in DOMAIN mem |-> mem[c]]
      /\ \A c \in DOMAIN mem : \E i \in 1 .. n : c = r[i] /\ mem[c] = ValueOf(fn, args, i)
      /\ \A q \in a + 2 .. l : q < p /\ ss[q].kind = "store" => Touched(ss[q]) \subseteq DOMAIN mem
  BY <1>4, <1>5, <1>6 DEF MemoryHolds
<1>9. \A i \in 1 .. n : r[i] \in DOMAIN mem
  <2>1. SUFFICES ASSUME NEW i \in 1 .. n
                 PROVE  r[i] \in DOMAIN mem
    OBVIOUS
  <2>2. PICK q \in a + 2 .. l : ss[q].kind = "store" /\ r[i] \in Touched(ss[q])
    BY <1>5, <1>6 DEF CodeIs
  <2>3. p = l + 1
    BY <1>2, <1>4, <1>5
  <2>4. q < p
    BY <2>2, <2>3
  <2>5. QED
    BY <1>8, <2>2, <2>4
<1>10. DOMAIN mem = {r[j] : j \in 1 .. n}
  BY <1>8, <1>9
<1>11. PICK g : g = AfterSome(fn, args, r, n, n)
  OBVIOUS
<1>12. /\ g = [c \in {r[j] : j \in 1 .. n} |-> g[c]]
       /\ \A c \in {r[j] : j \in 1 .. n} : g[c] = ValueOf(fn, args, CHOOSE j \in 1 .. n : r[j] = c)
  BY <1>11 DEF AfterSome
<1>13. ASSUME NEW c \in {r[j] : j \in 1 .. n}
       PROVE  mem[c] = g[c]
  <2>1. PICK i \in 1 .. n : c = r[i] /\ mem[c] = ValueOf(fn, args, i)
    BY <1>8, <1>10
  <2>2. (CHOOSE j \in 1 .. n : r[j] = c) = i
    BY <1>7, <2>1 DEF Distinct
  <2>3. QED
    BY <1>12, <2>1, <2>2
<1>14. mem = g
  <2>1. PICK D : D = {r[j] : j \in 1 .. n}
    OBVIOUS
  <2>2. mem = [c \in D |-> mem[c]]
    BY <1>8, <1>10, <2>1
  <2>3. g = [c \in D |-> g[c]]
    BY <1>12, <2>1
  <2>4. \A c \in D : mem[c] = g[c]
    BY <1>13, <2>1
  <2>5. [c \in D |-> mem[c]] = [c \in D |-> g[c]]
    BY <2>4
  <2>6. QED
    BY <2>2, <2>3, <2>5
<1>15. AsStatements = AfterSome(vop.fn, vop.args, vop.r, n, n)
  BY <1>2, <1>3, StatementsAre
<1>16. QED
  BY <1>4, <1>11, <1>14, <1>15

\* The cells an instruction touches are ones the statements name.
LEMMA CellsFromInvariant == MapTypeInv /\ MapDataInv => OnlyNamedCells
<1>1. SUFFICES ASSUME MapTypeInv, MapDataInv, Supported
               PROVE  env.touched \subseteq Named(vop.args, vop.r)
  BY DEF OnlyNamedCells, Named
<1>2. CASE at = 0 /\ env = Untouched
  <2>1. env.touched = {}
    BY <1>2 DEF Untouched
  <2>2. QED
    BY <2>1
<1>3. CASE at \in 1 .. Len(code) + 1
  <2>1. PICK a \in 1 .. 2, n \in 2 .. 8 : ShapeIs(a, n)
    BY <1>1, OperationHasShape DEF MapTypeInv
  <2>2. at >= 1
    BY <1>3
  <2>3. EnvHolds(env, at, code, vop.fn, vop.args, vop.r, a, n)
    BY <1>1, <2>1, <2>2 DEF MapDataInv
  <2>4. QED
    BY <2>3 DEF EnvHolds
<1>4. QED
  BY <1>1, <1>2, <1>3 DEF MapTypeInv, Generated

-------------------------------------------------------------------------------
(***************************************************************************)
(* The invariants of the run, for every set of operations.                 *)
(***************************************************************************)
\* Registers have the widths there are, and memory holds only cells that an
\* instruction of the generated code stored.
THEOREM MapTypes == MapSpec => []MapTypeOK
BY MapInvariant, TypesFromInvariant, PTL

\* The load that is chosen for an operand, whichever it is, puts location i into
\* lane i.
THEOREM OperandsInLanes == MapSpec => []OperandsInTheirLanes
BY MapInvariant, OperandsFromInvariant, PTL

\* The stores that are pieced together leave the memory the statements leave.
THEOREM StoresMean == MapSpec => []StoresMeanStatements
BY MapInvariant, StoredFromInvariant, PTL

\* No access is to a cell the statements do not name.
THEOREM NamedCells == MapSpec => []OnlyNamedCells
BY MapInvariant, CellsFromInvariant, PTL
===============================================================================
