------------------------------- MODULE LoopPlan -------------------------------
(***************************************************************************)
(* What MACVETH decides about one loop of a scop: StmtWrapper::getLoop     *)
(* reads the header, unrollAndJam or unrollByDim chooses the unroll factor *)
(* the pragma asks for, unroll makes the copies of the body and            *)
(* MVRewriter::rewriteLoops chooses the header and the epilog that are     *)
(* written.  All of it is a function of the loop and of the pragma, so the *)
(* module has no variables.                                                *)
(*                                                                         *)
(* A source loop is a record                                               *)
(*   lo, bound  what the header's two expressions are worth at run time    *)
(*   loKnown, hiKnown   whether getIntFromExpr evaluates them              *)
(*   le         the comparison is <= (any other is taken as <)             *)
(*   step       the increment                                              *)
(*   listed     the pragma names this dimension                            *)
(*   full       ... with "full" instead of a factor                        *)
(*   factor     ... with this factor                                       *)
(*   others     the pragma names some other dimension                      *)
(***************************************************************************)
EXTENDS Integers

SourceLoops ==
  [lo : Int, bound : Int, loKnown : BOOLEAN, hiKnown : BOOLEAN, le : BOOLEAN,
   step : Nat \ {0}, listed : BOOLEAN, full : BOOLEAN, factor : Nat \ {0},
   others : BOOLEAN]

(***************************************************************************)
(* LoopInfo, and the copies of a statement that unroll makes of it.        *)
(***************************************************************************)
LoopInfos ==
  [initVal : Int, upperBound : Int, step : Nat \ {0}, unrollFactor : Int,
   stepUnrolled : Int, fullyUnrolled : BOOLEAN]

Bodies == [count : Nat, literal : BOOLEAN]

(***************************************************************************)
(* PA.UnrollAndJam, PA.Unroll alone, and neither of them.                  *)
(***************************************************************************)
PragmaModes == {"unrollandjam", "unroll", "nounroll"}

(***************************************************************************)
(* The code writes -1 for "not known at compile time", a value a bound may *)
(* really have.                                                            *)
(***************************************************************************)
Unknown == -1

(***************************************************************************)
(* UBFallback: the unroll factor of a loop the pragma does not name.       *)
(***************************************************************************)
UBFallback == 4

(***************************************************************************)
(* The remainder of C++, whose sign is the dividend's.                     *)
(***************************************************************************)
CRem(a, b) == IF a >= 0 THEN a % b ELSE -((-a) % b)

UpperExcl(s) == s.bound + (IF s.le THEN 1 ELSE 0)

InitVal(s) == IF s.loKnown THEN s.lo ELSE Unknown

UpperBound(s) ==
  IF s.hiKnown /\ s.bound # Unknown THEN UpperExcl(s) ELSE Unknown

KnownBounds(L) == L.upperBound # Unknown /\ L.initVal # Unknown

(***************************************************************************)
(* getLoop: StepUnrolled is the whole trip rounded down to a multiple of   *)
(* the fallback factor when the bound is known.                            *)
(***************************************************************************)
\* Mutant: rounded down to a multiple of twice the factor, none for 4 to 7.
GetLoopRoundingToEight(s) ==
  LET first == IF InitVal(s) = Unknown THEN 0 ELSE InitVal(s)
      range == UpperBound(s) - first
  IN  [initVal       |-> InitVal(s),
       upperBound    |-> UpperBound(s),
       step          |-> s.step,
       unrollFactor  |-> UBFallback,
       stepUnrolled  |-> IF UpperBound(s) = Unknown
                         THEN UBFallback
                         ELSE range - CRem(range, 2 * UBFallback),
       fullyUnrolled |-> FALSE]

GetLoop(s) ==
  LET first == IF InitVal(s) = Unknown THEN 0 ELSE InitVal(s)
      range == UpperBound(s) - first
  IN  [initVal       |-> InitVal(s),
       upperBound    |-> UpperBound(s),
       step          |-> s.step,
       unrollFactor  |-> UBFallback,
       stepUnrolled  |-> IF UpperBound(s) = Unknown
                         THEN UBFallback
                         ELSE range - CRem(range, UBFallback),
       fullyUnrolled |-> FALSE]

(***************************************************************************)
(* "full" on a loop whose bounds are not known abandons the function       *)
(* (MVAssertSkip jumps to GotoStartScop).                                  *)
(***************************************************************************)
MustSkip(s, mode, L) ==
  mode # "nounroll" /\ s.listed /\ s.full /\ ~KnownBounds(L)

\* Mutant: the stride is the factor alone, right only when the step is 1.
ListedIgnoringStep(s, L) ==
  LET factor == IF s.full THEN L.upperBound ELSE s.factor
  IN  [L EXCEPT !.unrollFactor = factor, !.stepUnrolled = factor]

Listed(s, L) ==
  LET factor == IF s.full THEN L.upperBound ELSE s.factor
  IN  [L EXCEPT !.unrollFactor = factor, !.stepUnrolled = L.step * factor]

(***************************************************************************)
(* unrollAndJam keeps getLoop's stride for a loop the pragma does not      *)
(* name.                                                                   *)
(***************************************************************************)
UnrollAndJam(s, L) ==
  IF ~s.listed THEN L
  ELSE [Listed(s, L) EXCEPT !.fullyUnrolled = s.full]

(***************************************************************************)
(* unrollByDim gives a factor of one to the loops the pragma does not name *)
(* when it names some other, and takes a listed loop whose stride reaches  *)
(* the bound as fully unrolled.                                            *)
(***************************************************************************)
UnrollByDim(s, L) ==
  LET U == Listed(s, L)
      whole == KnownBounds(U) /\ U.stepUnrolled >= U.upperBound
  IN  IF s.listed
      THEN [U EXCEPT !.stepUnrolled = IF whole THEN U.unrollFactor ELSE @,
                     !.fullyUnrolled = s.full \/ whole]
      ELSE IF s.others
      THEN [L EXCEPT !.unrollFactor = 1, !.stepUnrolled = L.step]
      ELSE L

Unrolled(s, mode, L) ==
  CASE mode = "unrollandjam" -> UnrollAndJam(s, L)
    [] mode = "unroll"       -> UnrollByDim(s, L)
    [] mode = "nounroll"     -> L

(***************************************************************************)
(* StmtWrapper::unroll and TAC::unrollTacList: how many copies of the body *)
(* there are, copy k (from 0) standing for dim + k * step, or for the      *)
(* literal k * step when the copies are taken to cover the whole loop.     *)
(***************************************************************************)
Copies(L) ==
  LET wanted  == IF L.upperBound # Unknown /\ L.fullyUnrolled
                 THEN L.upperBound - L.initVal ELSE L.stepUnrolled
      clipped == IF wanted > L.upperBound THEN L.upperBound ELSE wanted
      reach   == IF clipped = Unknown THEN L.stepUnrolled ELSE clipped
  IN  [count   |-> IF reach < 0 THEN 0 ELSE reach \div L.step,
       literal |-> reach = L.upperBound]

OneCopy == [count |-> 1, literal |-> FALSE]

(***************************************************************************)
(* The list of loops unroll is called for holds every loop around the      *)
(* statement under unroll-and-jam, the listed ones under unroll.           *)
(***************************************************************************)
Body(s, mode, L) ==
  IF mode = "unrollandjam" \/ (mode = "unroll" /\ s.listed)
  THEN Copies(L) ELSE OneCopy

(***************************************************************************)
(* rewriteLoops appends the epilog unless the loop is fully unrolled or    *)
(* its stride is its upper bound.                                          *)
(***************************************************************************)
\* Mutant: the epilog is dropped when the copies of the body divide the bound.
EpilogUnlessDivides(L) ==
  ~L.fullyUnrolled /\ L.upperBound % L.unrollFactor # 0

EpilogEmitted(L) == ~L.fullyUnrolled /\ L.upperBound # L.stepUnrolled

(***************************************************************************)
(* The loops the emitted code is right for, in the terms of the source.    *)
(* Each conjunct names a case the code gets wrong otherwise:               *)
(*   - nounroll, and unroll with no dimension at all, keep getLoop's stride*)
(*     over a single copy of the body;                                     *)
(*   - a fully unrolled loop loses its header, so that its copies have to  *)
(*     be numbered from zero and the step has to divide the bound;         *)
(*   - a stride equal to the bound drops the epilog, which only a loop     *)
(*     that starts at zero (or is empty) can do without;                   *)
(*   - a loop the pragma does not name is unrolled by a multiple of four   *)
(*     iterations, whatever its step, and by none when it has fewer.       *)
(***************************************************************************)
Supported(s, mode) ==
  LET h      == UpperExcl(s)
      known  == s.loKnown /\ s.hiKnown
      trip   == h - (IF s.loKnown THEN s.lo ELSE 0)
      stride == IF s.listed THEN s.step * s.factor
                ELSE IF mode = "unroll" THEN s.step
                ELSE IF s.hiKnown THEN trip - (trip % UBFallback)
                ELSE UBFallback
      whole  == s.listed /\ known /\ (s.full \/ (mode = "unroll" /\ stride >= h))
  IN  /\ 0 <= s.lo /\ s.lo <= h
      /\ mode = "unrollandjam" \/ (mode = "unroll" /\ (s.listed \/ s.others))
      /\ whole => s.lo = 0 /\ h % s.step = 0
      /\ ~whole /\ ~(s.listed /\ s.full) =>
           /\ stride > 0 /\ stride % s.step = 0
           /\ s.hiKnown /\ stride = h => s.lo = 0 \/ s.lo = h
===============================================================================
