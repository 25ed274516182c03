------------------------------ MODULE Reductions ------------------------------
(***************************************************************************)
(* The instructions AVX2BackEnd emits for reductions: the lanes of a       *)
(* register added up into the variables they belong to, for one register   *)
(* at a time or for several at once.                                       *)
(*                                                                         *)
(* An instruction is a record                                              *)
(*   st     its SIMDType             fn    the intrinsic, or an operation  *)
(*   to     the register or, for "acc" and "use", the variable it sets     *)
(*   args   the registers it reads   imm   its immediate operand           *)
(*   w      its width in lanes       ord   its order among the TACs        *)
(*   redux  for VREDUC, the reduction it stands for                        *)
(*                                                                         *)
(* A reduction, the result VOperand of a vector operation, is a record     *)
(*   name   the register whose lanes are reduced     size   its lanes      *)
(*   accm   the register they have been added to     op, ord               *)
(*   uop    per lane that is used, the variable it is reduced into         *)
(*   loc    the Order of the operand, which may be below ord               *)
(***************************************************************************)
EXTENDS Lanes, SequencesExt

CONSTANT Double   \* the operands are doubles, not floats

W128 == IF Double THEN 2 ELSE 4

NoRedux == [name |-> ""]

Inst(fn, to, args, imm, w) ==
  [st |-> "VOPT", fn |-> fn, to |-> to, args |-> args, imm |-> imm, w |-> w,
   ord |-> 0, redux |-> NoRedux]

\* v = v op reg[i], written as text.
Accumulate(v, op, reg, i) == [Inst("acc", v, <<reg>>, i, 0) EXCEPT !.redux = [op |-> op]]

(***************************************************************************)
(* What a function is called where the k-th result is written: its prefix  *)
(* is put before OP anew in every turn of the loop.                        *)
(***************************************************************************)
Prefixed(op, k) == IF op = "std::max" /\ k > 1 THEN "std::std::max" ELSE op

Stamped(code, ord) == [i \in DOMAIN code |-> [code[i] EXCEPT !.ord = ord]]

(***************************************************************************)
(* getNextAccmRegister and getAccmReg: m numbers the names that have an    *)
(* accumulator.                                                            *)
(***************************************************************************)
NextAccm(m, x) == IF x \in DOMAIN m THEN m ELSE m @@ (x :> Cardinality(DOMAIN m))

AccmReg(m, x) == IF x \in DOMAIN m THEN "accm" \o ToString(m[x]) ELSE x

(***************************************************************************)
(* getReductionsMapFromVector and getSymmetry: each variable has a run of  *)
(* lanes, all of the same length.                                          *)
(***************************************************************************)
LanesOf(uop, v) == {i \in DOMAIN uop : uop[i] = v}

NReductions(uop) == Cardinality(ToSet(uop))

GetSymmetry(uop) ==
  \/ NReductions(uop) = 1
  \/ \A v \in ToSet(uop) :
       /\ \A i, j \in LanesOf(uop, v) : i .. j \subseteq LanesOf(uop, v)
       /\ Cardinality(LanesOf(uop, v)) * NReductions(uop) = Len(uop)

-------------------------------------------------------------------------------
(***************************************************************************)
(* One register.  With four lanes or fewer the accumulator is overwritten. *)
(***************************************************************************)
ReduceOneRegister(r, n, op) ==
  LET lo == IF n > 4 THEN "lo128" ELSE r
  IN  (IF n > 4
       THEN <<Inst("low", "lo128", <<r>>, 0, 4),
              Inst("high", "hi128", <<r>>, 1, 4),
              Inst(op, "lo128", <<"lo128", "hi128">>, 0, 4)>>
       ELSE <<>>)
      \o (IF n > 2
          THEN <<Inst("movehl", "hi128", <<lo, lo>>, 0, 4),
                 Inst(op, lo, <<lo, "hi128">>, 0, 4)>>
          ELSE <<>>)
      \o <<Inst("shuffle", "hi128", <<lo, lo>>, 1, 4),
           Inst(op, "lo128", <<lo, "hi128">>, 0, 4)>>

(***************************************************************************)
(* Runs of equal length: two additions for up to three runs, one for more; *)
(* additions whatever the operation.  0b00001110 is 14, 0b00110001 is 49.  *)
(***************************************************************************)
ReduceSymmetric(r, uop) ==
  IF Len(uop) > 4 /\ NReductions(uop) < 4
  THEN <<Inst("permute", "tmp0", <<r>>, 14, 8),
         Inst("+", "tmp1", <<r, "tmp0">>, 0, 8),
         Inst("shuffle", "tmp2", <<"tmp1", "tmp1">>, 1, 8),
         Inst("+", "lo256", <<"tmp1", "tmp2">>, 0, 8)>>
  ELSE IF Len(uop) > 4
  THEN <<Inst("permute", "tmp0", <<r>>, 49, 8),
         Inst("+", "lo256", <<r, "tmp0">>, 0, 8)>>
  ELSE IF Len(uop) > 2
  THEN <<Inst("permute", "tmp0_128", <<r>>, 49, 4),
         Inst("+", "lo128", <<r, "tmp0_128">>, 0, 4)>>
  ELSE <<>>

LaneByLane(r, uop, op) ==
  [i \in DOMAIN uop |-> Accumulate(uop[i], op, r, i - 1)]

\* A place behind the end of StoreValues or UOP: the text found there.
Beyond == "?"

(***************************************************************************)
(* A half of a register, of which the lanes uop are used; stores holds the *)
(* variables of the half and of what follows it.                           *)
(***************************************************************************)
ReduceHalf(r, uop, stores, op) ==
  IF NReductions(uop) > 1 /\ ~GetSymmetry(uop)
  THEN LaneByLane(r, uop, op)
  ELSE LET one == NReductions(uop) = 1
       IN  (IF one THEN ReduceOneRegister(r, Len(uop), op) ELSE ReduceSymmetric(r, uop))
           \o [k \in 1 .. IF one THEN 1 ELSE 2 |->
                 LET i == 2 * k - 1
                 IN  Accumulate(IF i \in DOMAIN stores THEN stores[i] ELSE Beyond,
                                op, "lo128", i - 1)]

(***************************************************************************)
(* Runs of different lengths, or none: half by half, or lane by lane.  The *)
(* halves have accumulators of their own, numbered in m.                   *)
(***************************************************************************)
ReduceMultiple(r, uop, op, m) ==
  LET first  == NextAccm(m, "low half of " \o r)
      extr   == NextAccm(first, "__tmp_extract_128")
      second == NextAccm(extr, AccmReg(extr, "__tmp_extract_128"))
      lo     == AccmReg(second, "low half of " \o r)
      hi     == AccmReg(second, AccmReg(extr, "__tmp_extract_128"))
      tail   == SubSeq(uop, 5, Len(uop))
  IN  IF Len(uop) > 4
      THEN [code |-> <<Inst("low", lo, <<r>>, 0, 4)>>
                     \o ReduceHalf(lo, SubSeq(uop, 1, 4), uop, op)
                     \o <<Inst("high", hi, <<r>>, 1, 4)>>
                     \o ReduceHalf(hi, tail, tail, op),
            accm |-> second]
      ELSE [code |-> LaneByLane(r, uop, op), accm |-> m]

(***************************************************************************)
(* horizontalSingleVectorReduction.                                        *)
(***************************************************************************)
StoreRuns(d, lo) ==
  LET n      == Len(d.uop)
      stride == IF n < 4 THEN 1 ELSE 1 + ((n - 1) \div NReductions(d.uop))
      places == {i \in 1 .. (IF n < 4 THEN 1 ELSE n) : (i - 1) % stride = 0}
  IN  [k \in 1 .. Cardinality(places) |->
         Accumulate(d.uop[1 + (k - 1) * stride], Prefixed(d.op, k), lo, (k - 1) * stride)]

SingleReduction(d, m) ==
  LET r    == AccmReg(m, d.name)
      sym  == GetSymmetry(d.uop)
      one  == NReductions(d.uop) = 1
      multi == ReduceMultiple(r, d.uop, d.op, m)
      lo   == IF ~one /\ Len(d.uop) > 4 THEN "lo256" ELSE "lo128"
      code == IF one THEN ReduceOneRegister(r, Len(d.uop), d.op)
              ELSE IF sym THEN ReduceSymmetric(r, d.uop)
              ELSE multi.code
      runs == IF sym /\ NReductions(d.uop) <= 4 THEN StoreRuns(d, lo) ELSE <<>>
  IN  [code |-> Stamped(IF Double THEN <<Inst("invalid", Beyond, <<>>, 0, 0)>>
                        ELSE code \o runs, d.ord),
       accm |-> IF one \/ sym THEN m ELSE multi.accm]

-------------------------------------------------------------------------------
(***************************************************************************)
(* Two or four reductions at once, by horizontal additions.  Of four lanes *)
(* the result is left in lo128 and read from the first accumulator.        *)
(***************************************************************************)
LatestLoc(ds) == CHOOSE x \in {ds[i].loc : i \in DOMAIN ds} :
                   \A i \in DOMAIN ds : ds[i].loc <= x

FirstPlaces(vars) == SelectSeq([i \in DOMAIN vars |-> i],
                               LAMBDA i : \A j \in 1 .. i - 1 : vars[j] # vars[i])

\* Mutant: the halves of the result are not added up.
HalvesKept(a, op) == <<Inst("low", "lo128", <<a>>, 0, W128)>>

AddHalves(a, op) ==
  <<Inst("low", "lo128", <<a>>, 0, W128),
    Inst("high", "hi128", <<a>>, 1, W128),
    Inst(op, "lo128", <<"lo128", "hi128">>, 0, W128)>>

HorizontalFusion(ds) ==
  LET op      == ds[1].op
      h       == IF op = "+" THEN "hadd" ELSE "hsub"
      n       == ds[1].size
      acc(k)  == ds[k].accm
      pair(k) == Inst(h, acc(k), <<acc(k), acc(k + 1)>>, 0, n)
      wide    == n > 4
      lo      == IF Len(ds) = 2 /\ ~wide THEN acc(1) ELSE "lo128"
      pairs   == [k \in 1 .. Len(ds) \div 2 |-> pair(2 * k - 1)]
      rest    == IF Len(ds) = 2
                 THEN (IF wide THEN AddHalves(acc(1), op) ELSE <<>>)
                      \o <<Inst("shuffle", "hi128", <<lo, lo>>, 49, W128),
                           Inst(op, "lo128", <<lo, "hi128">>, 0, W128)>>
                 ELSE <<Inst(h, acc(1), <<acc(1), acc(3)>>, 0, n)>>
                      \o AddHalves(acc(1), op)
      vars    == [k \in DOMAIN ds |-> ds[k].to]
      places  == FirstPlaces(vars)
      sums    == [k \in DOMAIN places |->
                    Accumulate(vars[places[k]], op, lo,
                               (k - 1) * (IF Len(ds) = 2 THEN 2 ELSE 1))]
  IN  Stamped(pairs \o rest \o sums, LatestLoc(ds))

(***************************************************************************)
(* The same for any other operation, by shuffles.  The immediates are 0x44 *)
(* and 0xee for floats, 0x00 and 0xff for doubles, 0b10001000 and          *)
(* 0b11011101 in 128 bits; the blend takes the upper half of its second    *)
(* operand.  There is no permute2f128 of 128 bits.                         *)
(***************************************************************************)
BlendMask == IF Double THEN 12 ELSE 240

GeneralFusion(ds) ==
  LET op     == ds[1].op
      n      == ds[1].size
      acc(k) == ds[k].accm
      odd    == n = W128
      m0     == IF odd THEN 136 ELSE IF Double THEN 0 ELSE 68
      m1     == IF odd THEN 221 ELSE IF Double THEN 255 ELSE 238
      shuffled(k) == <<Inst("shuffle", "lo", <<acc(k), acc(k + 1)>>, m0, n),
                       Inst("shuffle", "hi", <<acc(k), acc(k + 1)>>, m1, n),
                       Inst(op, acc(k), <<"lo", "hi">>, 0, n)>>
      other  == IF Len(ds) > 2 THEN acc(3) ELSE acc(2)
      merged == <<Inst(IF odd THEN "invalid" ELSE "blend", "lo",
                       <<acc(1), other>>, BlendMask, n),
                  Inst(IF odd THEN "invalid" ELSE "permute2f128", "hi",
                       <<acc(1), other>>, 33, n),
                  Inst(op, acc(1), <<"lo", "hi">>, 0, n)>>
      narrow == <<Inst("low", "lo", <<acc(1)>>, 0, 4),
                  Inst("high", "hi", <<acc(1)>>, 1, 4),
                  Inst("shuffle", "even", <<"lo", "hi">>, 136, 4),
                  Inst("shuffle", "odd", <<"lo", "hi">>, 221, 4),
                  Inst(op, "aux", <<"even", "odd">>, 0, 4)>>
  IN  Stamped(FlattenSeq([k \in 1 .. Len(ds) \div 2 |-> shuffled(2 * k - 1)])
              \o merged \o (IF n > 4 THEN narrow ELSE <<>>)
              \o [k \in DOMAIN ds |->
                    Accumulate(ds[k].to, Prefixed(op, k),
                               IF n > 4 THEN "aux" ELSE acc(1), k - 1)],
              ds[Len(ds)].loc)

(***************************************************************************)
(* fuseReductionsList.  The operation is that of the last one; the fusions *)
(* then take that of the first.  (The marks on accumulators that are dirty *)
(* are never used.)                                                        *)
(***************************************************************************)
FuseReductionsList(ds, m) ==
  IF Len(ds) = 1 THEN SingleReduction(ds[1], m)
  ELSE [code |-> IF Last(ds).op \in {"+", "-"} THEN HorizontalFusion(ds)
                 ELSE GeneralFusion(ds),
        accm |-> m]
===============================================================================
