--------------------------------- MODULE Lanes ---------------------------------
(***************************************************************************)
(* What the AVX2 intrinsics the back end emits do to the lanes of vector   *)
(* registers.  The intrinsics are not part of the repository; this is what *)
(* the generated code relies on.                                           *)
(*                                                                         *)
(* A value is symbolic: that of an input, or an operation on values.  Sums *)
(* are kept as bags of their terms and products as bags of their factors,  *)
(* negative counts standing for subtraction and division, so that two      *)
(* values are equal when they are the same up to the order of evaluation,  *)
(* which the back end changes on purpose.  A register is a function from   *)
(* 0 .. n - 1 to values.                                                   *)
(***************************************************************************)
EXTENDS Integers, Sequences, TLC

Empty == [x \in {} |-> 0]

Input(x) == [op |-> "", n |-> x :> 1]
Zero == [op |-> "+", n |-> Empty]

(***************************************************************************)
(* What a lane holds that nothing defines: the upper half of a register    *)
(* after a cast, a lane of code that does not compile.                     *)
(***************************************************************************)
Junk == Input([name |-> "undefined", at |-> Empty])

Group(op) == CASE op = "-" -> "+" [] op = "/" -> "*" [] OTHER -> op

Terms(u, g) == IF u.op = g THEN u.n ELSE u :> 1

Count(n, x) == IF x \in DOMAIN n THEN n[x] ELSE 0

Apply(op, u, v) ==
  LET g    == Group(op)
      a    == Terms(u, g)
      b    == Terms(v, g)
      sign == IF op = g THEN 1 ELSE -1
      sum  == [x \in DOMAIN a \cup DOMAIN b |-> Count(a, x) + sign * Count(b, x)]
      n    == [x \in {y \in DOMAIN sum : sum[y] # 0} |-> sum[x]]
  IN  IF g = "*" /\ u = Zero THEN Zero
      ELSE IF op = "*" /\ v = Zero THEN Zero
      ELSE IF \E x \in DOMAIN n : DOMAIN n = {x} /\ n[x] = 1
      THEN CHOOSE x \in DOMAIN n : TRUE
      ELSE [op |-> g, n |-> n]

Function(f, u) == [op |-> f, n |-> u :> 1]

-------------------------------------------------------------------------------
UndefinedReg(n) == [i \in 0 .. n - 1 |-> Junk]

Lanes(r) == IF DOMAIN r = {} THEN 0 ELSE 1 + (CHOOSE i \in DOMAIN r : i + 1 \notin DOMAIN r)

Arith(op, a, b) == [i \in DOMAIN a |-> Apply(op, a[i], b[i])]

(***************************************************************************)
(* Casts and extracts between 256 and 128 bits.                            *)
(***************************************************************************)
LowHalf(r) == [i \in 0 .. Lanes(r) \div 2 - 1 |-> r[i]]
HighHalf(r) == [i \in 0 .. Lanes(r) \div 2 - 1 |-> r[i + Lanes(r) \div 2]]
CastUp(r) == [i \in 0 .. 2 * Lanes(r) - 1 |-> IF i \in DOMAIN r THEN r[i] ELSE Junk]

(***************************************************************************)
(* shuffle and permute, in every 128-bit half: of floats with two bits of  *)
(* the immediate per lane, of doubles with one.                            *)
(***************************************************************************)
Bits(imm, i, base) == (imm \div base ^ i) % base

ShuffleFloat(a, b, imm) ==
  [i \in DOMAIN a |->
     LET from == IF i % 4 < 2 THEN a ELSE b
     IN  from[4 * (i \div 4) + Bits(imm, i % 4, 4)]]

ShuffleDouble(a, b, imm) ==
  [i \in DOMAIN a |->
     LET from == IF i % 2 = 0 THEN a ELSE b
     IN  from[2 * (i \div 2) + Bits(imm, i, 2)]]

Shuffle(a, b, imm, double) ==
  IF double THEN ShuffleDouble(a, b, imm) ELSE ShuffleFloat(a, b, imm)

MoveHighToLow(a, b) == [i \in 0 .. 3 |-> IF i < 2 THEN b[i + 2] ELSE a[i]]

(***************************************************************************)
(* hadd and hsub: neighbours, in every half, first of a and then of b.     *)
(***************************************************************************)
Horizontal(op, a, b, double) ==
  LET k == IF double THEN 2 ELSE 4
  IN  [i \in DOMAIN a |->
         LET from == IF 2 * (i % k) < k THEN a ELSE b
             j    == k * (i \div k) + ((2 * (i % k)) % k)
         IN  Apply(op, from[j], from[j + 1])]

Blend(a, b, imm) == [i \in DOMAIN a |-> IF Bits(imm, i, 2) = 1 THEN b[i] ELSE a[i]]

(***************************************************************************)
(* permute2f128 with 0x21: the high half of a, then the low half of b.     *)
(***************************************************************************)
HighThenLow(a, b) ==
  LET h == Lanes(a) \div 2
  IN  [i \in DOMAIN a |-> IF i < h THEN a[i + h] ELSE b[i - h]]
===============================================================================
