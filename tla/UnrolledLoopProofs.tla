-------------------------- MODULE UnrolledLoopProofs --------------------------
(***************************************************************************)
(* For every set of Supported loops, whatever their bounds, steps and      *)
(* factors: the type invariant, the inductive invariant and the theorem    *)
(* that each step of the emitted code is a step of the source loop.        *)
(*                                                                         *)
(* The argument has two halves.  The plan lemmas say what the compiler     *)
(* decides about a Supported loop, and are arithmetic on records.  The     *)
(* invariant says where the run is among the source's iterations at each   *)
(* place of the emitted code, and uses of the plan no more than PlanOK.    *)
(***************************************************************************)
EXTENDS UnrolledLoop, TLAPS

Plan(s, m) == Unrolled(s, m, GetLoop(s))

Made(s, m) == Body(s, m, Plan(s, m))

(***************************************************************************)
(* What the run needs of the compiler's decisions.                         *)
(***************************************************************************)
PlanOK(s, P, B) ==
  /\ P.fullyUnrolled =>
       s.lo = 0 /\ B.literal /\ B.count * s.step = UpperExcl(s)
  /\ ~P.fullyUnrolled =>
       /\ P.stepUnrolled > 0
       /\ s.lo + P.stepUnrolled <= UpperExcl(s) =>
            /\ B.count * s.step = P.stepUnrolled
            /\ B.literal => s.lo = 0 /\ P.stepUnrolled = UpperExcl(s)
       /\ ~EpilogEmitted(P) =>
            P.stepUnrolled = UpperExcl(s) /\ (s.lo = 0 \/ s.lo = UpperExcl(s))

-------------------------------------------------------------------------------
\* A stride that is a multiple of the step is that many whole steps.
LEMMA WholeSteps ==
  ASSUME NEW a \in Nat, NEW b \in Nat \ {0}, a % b = 0
  PROVE  (a \div b) \in Nat /\ (a \div b) * b = a
OBVIOUS

\* One step more, and room for one step more.
LEMMA OneMoreStep ==
  ASSUME NEW n \in Nat, NEW st \in Nat \ {0}
  PROVE  n * st \in Nat /\ (n + 1) * st = n * st + st
OBVIOUS

\* Below a multiple of the step there is room for one more step.
LEMMA RoomForOneStep ==
  ASSUME NEW n \in Nat, NEW c \in Nat, NEW st \in Nat \ {0}, n < c
  PROVE  n * st + st <= c * st
<1>1. PICK d \in Nat : c = (n + 1) + d
  <2>1. c - (n + 1) \in Nat
    OBVIOUS
  <2>2. QED
    BY <2>1
<1>2. c * st = (n + 1) * st + d * st
  BY <1>1
<1>3. d * st \in Nat
  OBVIOUS
<1>4. QED
  BY <1>2, <1>3, OneMoreStep

\* What getLoop reads of a header.
LEMMA GetLoopType ==
  ASSUME NEW s \in SourceLoops
  PROVE  /\ UpperExcl(s) \in Int /\ InitVal(s) \in Int /\ UpperBound(s) \in Int
         /\ GetLoop(s) \in LoopInfos
         /\ GetLoop(s).step = s.step
         /\ GetLoop(s).upperBound = UpperBound(s)
         /\ GetLoop(s).initVal = InitVal(s)
         /\ ~GetLoop(s).fullyUnrolled
<1>1. UpperExcl(s) \in Int
  BY DEF SourceLoops, UpperExcl
<1>2. InitVal(s) \in Int /\ UpperBound(s) \in Int
  BY <1>1 DEF SourceLoops, InitVal, UpperBound, Unknown
<1>3. \A r \in Int : CRem(r, UBFallback) \in Int
  BY DEF CRem, UBFallback
<1>4. QED
  BY <1>1, <1>2, <1>3 DEF GetLoop, LoopInfos, SourceLoops, UBFallback, Unknown

\* What the unroll options leave of it.
LEMMA PlanType ==
  ASSUME NEW s \in SourceLoops, NEW m \in PragmaModes
  PROVE  /\ Plan(s, m) \in LoopInfos
         /\ Plan(s, m).step = s.step
         /\ Plan(s, m).upperBound = UpperBound(s)
         /\ Plan(s, m).initVal = InitVal(s)
<1> DEFINE G == GetLoop(s)
<1>1. /\ G \in LoopInfos /\ G.step = s.step /\ G.upperBound = UpperBound(s)
      /\ G.initVal = InitVal(s)
  BY GetLoopType
<1>2. s.step \in Nat \ {0} /\ s.factor \in Nat \ {0} /\ s.full \in BOOLEAN
  BY DEF SourceLoops
<1> HIDE DEF G
<1>3. /\ Listed(s, G) \in LoopInfos
      /\ Listed(s, G).step = s.step
      /\ Listed(s, G).upperBound = UpperBound(s)
      /\ Listed(s, G).initVal = InitVal(s)
  <2> DEFINE f == IF s.full THEN G.upperBound ELSE s.factor
             st == G.step * f
  <2>1. f \in Int /\ st \in Int
    BY <1>1, <1>2 DEF LoopInfos
  <2>2. Listed(s, G) = [G EXCEPT !.unrollFactor = f, !.stepUnrolled = st]
    BY DEF Listed
  <2> HIDE DEF f, st
  <2>3. QED
    BY <1>1, <2>1, <2>2 DEF LoopInfos
<1>4. /\ UnrollAndJam(s, G) \in LoopInfos
      /\ UnrollAndJam(s, G).step = s.step
      /\ UnrollAndJam(s, G).upperBound = UpperBound(s)
      /\ UnrollAndJam(s, G).initVal = InitVal(s)
  BY <1>1, <1>2, <1>3 DEF UnrollAndJam, LoopInfos
<1>5. /\ UnrollByDim(s, G) \in LoopInfos
      /\ UnrollByDim(s, G).step = s.step
      /\ UnrollByDim(s, G).upperBound = UpperBound(s)
      /\ UnrollByDim(s, G).initVal = InitVal(s)
  <2> DEFINE U     == Listed(s, G)
             whole == KnownBounds(U) /\ U.stepUnrolled >= U.upperBound
             su    == IF whole THEN U.unrollFactor ELSE U.stepUnrolled
             fu    == s.full \/ whole
  <2>1. su \in Int /\ fu \in BOOLEAN
    BY <1>2, <1>3 DEF LoopInfos
  <2>2. s.listed => UnrollByDim(s, G)
                      = [U EXCEPT !.stepUnrolled = su, !.fullyUnrolled = fu]
    BY DEF UnrollByDim
  <2> HIDE DEF U, su, fu, whole
  <2>3. CASE s.listed
    <3>1. U \in LoopInfos /\ U.step = s.step /\ U.upperBound = UpperBound(s)
          /\ U.initVal = InitVal(s)
      BY <1>3 DEF U
    <3>2. QED
      BY <2>1, <2>2, <2>3, <3>1 DEF LoopInfos
  <2>4. CASE ~s.listed /\ s.others
    <3> DEFINE f  == 1
               st == G.step
    <3>1. UnrollByDim(s, G) = [G EXCEPT !.unrollFactor = f, !.stepUnrolled = st]
      BY <2>4 DEF UnrollByDim
    <3>2. f \in Int /\ st \in Int
      BY <1>1, <1>2
    <3> HIDE DEF f, st
    <3>3. QED
      BY <1>1, <3>1, <3>2 DEF LoopInfos
  <2>5. CASE ~s.listed /\ ~s.others
    BY <1>1, <2>5 DEF UnrollByDim
  <2>6. QED
    BY <2>3, <2>4, <2>5 DEF SourceLoops
<1>6. QED
  BY <1>1, <1>4, <1>5 DEF Plan, Unrolled, PragmaModes, G

\* The number of copies is a natural number.
LEMMA MadeType ==
  ASSUME NEW s \in SourceLoops, NEW m \in PragmaModes
  PROVE  Made(s, m) \in Bodies
<1>1. \A P \in LoopInfos : Copies(P) \in Bodies
  BY DEF Copies, LoopInfos, Bodies, Unknown
<1>2. QED
  BY <1>1, PlanType DEF Made, Body, OneCopy, Bodies

-------------------------------------------------------------------------------
\* A loop left with a header: the copies of one trip add up to its stride.
LEMMA PartlyUnrolledOK ==
  ASSUME NEW s \in SourceLoops, NEW P \in LoopInfos,
         0 <= s.lo, P.step = s.step, P.upperBound = UpperBound(s),
         ~P.fullyUnrolled, P.stepUnrolled > 0,
         s.lo + P.stepUnrolled <= UpperExcl(s) => P.stepUnrolled % s.step = 0,
         s.hiKnown /\ P.stepUnrolled = UpperExcl(s)
           => s.lo = 0 \/ s.lo = UpperExcl(s)
  PROVE  PlanOK(s, P, Copies(P))
<1> DEFINE h == UpperExcl(s)
           su == P.stepUnrolled
           B == Copies(P)
<1>1. h \in Int /\ su \in Nat \ {0} /\ s.step \in Nat \ {0} /\ s.lo \in Int
  BY GetLoopType DEF SourceLoops, LoopInfos
<1>2. UpperBound(s) \in {h, -1}
  BY DEF UpperBound, UpperExcl, Unknown
<1>3. UpperBound(s) = su => s.hiKnown /\ su = h
  BY <1>1, <1>2 DEF UpperBound, Unknown
<1>4. ASSUME s.lo + su <= h
      PROVE  B.count = su \div s.step /\ B.literal = (su = UpperBound(s))
  <2>1. CASE UpperBound(s) = h /\ h # -1
    BY <1>1, <1>4, <2>1 DEF Copies, Unknown
  <2>2. CASE UpperBound(s) = -1
    BY <1>1, <1>4, <2>2 DEF Copies, Unknown
  <2>3. QED
    BY <1>2, <2>1, <2>2
<1>5. ASSUME s.lo + su <= h
      PROVE  /\ B.count * s.step = su
             /\ B.literal => s.lo = 0 /\ su = h
  <2>1. su % s.step = 0
    BY <1>5
  <2>2. (su \div s.step) * s.step = su
    BY <1>1, <2>1, WholeSteps
  <2>3. B.count * s.step = su
    BY <1>4, <1>5, <2>2
  <2>4. B.literal => s.hiKnown /\ su = h
    BY <1>3, <1>4, <1>5
  <2>5. B.literal => s.lo = 0
    BY <1>1, <1>5, <2>4
  <2> HIDE DEF B, su, h
  <2>6. QED
    BY <2>3, <2>4, <2>5
<1>6. ~EpilogEmitted(P) => su = h /\ (s.lo = 0 \/ s.lo = h)
  BY <1>3 DEF EpilogEmitted
<1> HIDE DEF B
<1>7. PlanOK(s, P, B)
  BY <1>1, <1>5, <1>6 DEF PlanOK
<1>8. QED
  BY <1>7 DEF B

\* A loop left without a header: its copies are all of its iterations.
LEMMA FullyUnrolledOK ==
  ASSUME NEW s \in SourceLoops, NEW P \in LoopInfos,
         P.step = s.step, P.upperBound = UpperExcl(s), P.upperBound # Unknown,
         P.initVal = 0, s.lo = 0, s.lo <= UpperExcl(s), P.fullyUnrolled,
         UpperExcl(s) % s.step = 0
  PROVE  PlanOK(s, P, Copies(P))
<1> DEFINE h == UpperExcl(s)
<1>1. h \in Nat /\ s.step \in Nat \ {0}
  BY GetLoopType DEF SourceLoops
<1>2. Copies(P).count = h \div s.step /\ Copies(P).literal
  <2>1. P.upperBound = h /\ P.upperBound - P.initVal = h /\ P.step = s.step
    BY <1>1
  <2>2. Copies(P) = [count |-> IF h < 0 THEN 0 ELSE h \div s.step,
                     literal |-> TRUE]
    BY <1>1, <2>1 DEF Copies, Unknown
  <2>3. QED
    BY <1>1, <2>2
<1>3. (h \div s.step) * s.step = h
  BY <1>1, WholeSteps
<1>4. QED
  BY <1>2, <1>3 DEF PlanOK

\* A bound is unknown to the compiler when it is not evaluated, or when it is
\* the sentinel itself, which leaves a Supported loop without iterations.
LEMMA KnownBound ==
  ASSUME NEW s \in SourceLoops, NEW m \in PragmaModes, Supported(s, m)
  PROVE  /\ s.lo \in Nat /\ UpperExcl(s) \in Nat /\ s.lo <= UpperExcl(s)
         /\ InitVal(s) = IF s.loKnown THEN s.lo ELSE -1
         /\ s.hiKnown /\ UpperBound(s) = -1 => s.lo = 0 /\ UpperExcl(s) = 0
         /\ UpperBound(s) # -1 => s.hiKnown /\ UpperBound(s) = UpperExcl(s)
         /\ ~s.hiKnown => UpperBound(s) = -1
<1>1. s.lo \in Int /\ s.bound \in Int /\ s.le \in BOOLEAN /\ UpperExcl(s) \in Int
  BY GetLoopType DEF SourceLoops
<1>2. 0 <= s.lo /\ s.lo <= UpperExcl(s)
  BY DEF Supported
<1>3. QED
  BY <1>1, <1>2 DEF UpperBound, UpperExcl, InitVal, Unknown

\* The loop the pragma does not name, under unroll-and-jam: the whole trip
\* rounded down to a multiple of the fallback factor.
LEMMA UnlistedJamOK ==
  ASSUME NEW s \in SourceLoops, Supported(s, "unrollandjam"), ~s.listed
  PROVE  PlanOK(s, Plan(s, "unrollandjam"), Made(s, "unrollandjam"))
<1> DEFINE G == GetLoop(s)
           h == UpperExcl(s)
           trip == h - (IF s.loKnown THEN s.lo ELSE 0)
           stride == IF s.hiKnown THEN trip - (trip % 4) ELSE 4
<1>0. "unrollandjam" \in PragmaModes
  BY DEF PragmaModes
<1>1. Plan(s, "unrollandjam") = G /\ Made(s, "unrollandjam") = Copies(G)
  BY DEF Plan, Made, Unrolled, Body, UnrollAndJam
<1>2. /\ s.lo \in Nat /\ h \in Nat /\ s.lo <= h
      /\ InitVal(s) = IF s.loKnown THEN s.lo ELSE -1
      /\ s.hiKnown /\ UpperBound(s) = -1 => s.lo = 0 /\ h = 0
      /\ UpperBound(s) # -1 => s.hiKnown /\ UpperBound(s) = h
      /\ ~s.hiKnown => UpperBound(s) = -1
  BY <1>0, KnownBound
<1>3. /\ stride > 0 /\ stride % s.step = 0
      /\ s.hiKnown /\ stride = h => s.lo = 0 \/ s.lo = h
  BY DEF Supported, UBFallback
<1>4. trip \in Nat
  BY <1>2
<1>5. UpperBound(s) = -1 => ~s.hiKnown
  BY <1>2, <1>3, <1>4
<1>6. G.stepUnrolled = stride
  <2>1. CASE s.hiKnown
    <3>1. h # -1 /\ UpperBound(s) = h
      BY <1>2, <1>5, <2>1
    <3>2. h - (IF InitVal(s) = -1 THEN 0 ELSE InitVal(s)) = trip
      BY <1>2
    <3> HIDE DEF h, trip
    <3>3. QED
      BY <1>4, <2>1, <3>1, <3>2 DEF GetLoop, CRem, UBFallback, Unknown
  <2>2. CASE ~s.hiKnown
    BY <1>2, <2>2 DEF GetLoop, UBFallback, Unknown
  <2>3. QED
    BY <2>1, <2>2
<1>7. /\ G \in LoopInfos /\ G.step = s.step /\ G.upperBound = UpperBound(s)
      /\ ~G.fullyUnrolled
  BY GetLoopType
<1> HIDE DEF G, h, stride
<1>8. PlanOK(s, G, Copies(G))
  BY <1>2, <1>3, <1>6, <1>7, PartlyUnrolledOK DEF h
<1>9. QED
  BY <1>1, <1>8 DEF G

\* The loop the pragma does not name, under unroll: one copy, source stride.
LEMMA UnlistedDimOK ==
  ASSUME NEW s \in SourceLoops, Supported(s, "unroll"), ~s.listed
  PROVE  PlanOK(s, Plan(s, "unroll"), Made(s, "unroll"))
<1> DEFINE P == Plan(s, "unroll")
           h == UpperExcl(s)
<1>0. "unroll" \in PragmaModes
  BY DEF PragmaModes
<1>1. s.others
  BY DEF Supported
<1>2. P = [GetLoop(s) EXCEPT !.unrollFactor = 1, !.stepUnrolled = GetLoop(s).step]
  BY <1>1 DEF Plan, Unrolled, UnrollByDim
<1>3. P.stepUnrolled = s.step /\ ~P.fullyUnrolled /\ P.upperBound = UpperBound(s)
  BY <1>2, GetLoopType DEF LoopInfos
<1>4. Made(s, "unroll") = OneCopy
  BY DEF Made, Body
<1>5. s.step \in Nat \ {0}
  BY DEF SourceLoops
<1>6. ~EpilogEmitted(P) => s.step = h /\ (s.lo = 0 \/ s.lo = h)
  <2>1. SUFFICES ASSUME UpperBound(s) = s.step
                 PROVE  s.step = h /\ (s.lo = 0 \/ s.lo = h)
    BY <1>3 DEF EpilogEmitted
  <2>2. s.hiKnown /\ s.step = h
    BY <1>0, <1>5, <2>1, KnownBound
  <2>3. QED
    BY <1>5, <2>2 DEF Supported
<1> HIDE DEF P, h
<1>7. PlanOK(s, P, OneCopy)
  BY <1>3, <1>5, <1>6 DEF PlanOK, OneCopy, h
<1>8. QED
  BY <1>4, <1>7 DEF P

\* The loop the pragma names.  Either the code unrolls all of it, and then
\* Supported makes it start at zero with whole steps, or its stride is the
\* step times the factor.
LEMMA ListedOK ==
  ASSUME NEW s \in SourceLoops, NEW m \in PragmaModes, Supported(s, m), s.listed,
         ~MustSkip(s, m, GetLoop(s))
  PROVE  PlanOK(s, Plan(s, m), Made(s, m))
<1> DEFINE P == Plan(s, m)
           U == Listed(s, GetLoop(s))
           h == UpperExcl(s)
           whole == KnownBounds(U) /\ U.stepUnrolled >= U.upperBound
<1>1. m \in {"unrollandjam", "unroll"} /\ Made(s, m) = Copies(P)
  BY DEF Supported, Made, Body, PragmaModes
<1>2. /\ P \in LoopInfos /\ P.step = s.step /\ P.upperBound = UpperBound(s)
      /\ P.initVal = InitVal(s)
  BY PlanType
<1>3. /\ s.lo \in Nat /\ h \in Nat /\ s.lo <= h
      /\ InitVal(s) = IF s.loKnown THEN s.lo ELSE -1
      /\ s.hiKnown /\ UpperBound(s) = -1 => s.lo = 0 /\ h = 0
      /\ UpperBound(s) # -1 => s.hiKnown /\ UpperBound(s) = h
      /\ ~s.hiKnown => UpperBound(s) = -1
  BY KnownBound
<1>4. s.step \in Nat \ {0} /\ s.factor \in Nat \ {0} /\ s.full \in BOOLEAN
      /\ s.step * s.factor \in Nat \ {0}
  BY DEF SourceLoops
<1>5. /\ U.upperBound = UpperBound(s) /\ U.initVal = InitVal(s)
      /\ ~s.full => U.stepUnrolled = s.step * s.factor
      /\ ~U.fullyUnrolled
  BY GetLoopType DEF Listed, LoopInfos
<1>6. m = "unroll" =>
        P = [U EXCEPT !.stepUnrolled = IF whole THEN U.unrollFactor ELSE @,
                      !.fullyUnrolled = s.full \/ whole]
  BY DEF Plan, Unrolled, UnrollByDim
<1>7. m = "unrollandjam" => P = [U EXCEPT !.fullyUnrolled = s.full]
  BY DEF Plan, Unrolled, UnrollAndJam
<1>8. U \in [initVal : Int, upperBound : Int, step : Nat \ {0},
             unrollFactor : Int, stepUnrolled : Int, fullyUnrolled : BOOLEAN]
  <2> DEFINE G == GetLoop(s)
             f  == IF s.full THEN G.upperBound ELSE s.factor
             st == G.step * f
  <2>1. G \in LoopInfos
    BY GetLoopType
  <2>2. f \in Int /\ st \in Int
    BY <1>4, <2>1 DEF LoopInfos
  <2>3. U = [G EXCEPT !.unrollFactor = f, !.stepUnrolled = st]
    BY DEF Listed
  <2> HIDE DEF U, G, f, st
  <2>4. QED
    BY <2>1, <2>2, <2>3 DEF LoopInfos
<1> DEFINE fully == s.full \/ (m = "unroll" /\ whole)
<1>9. P.fullyUnrolled = fully /\ (~fully => P.stepUnrolled = U.stepUnrolled)
  <2> HIDE DEF U, P, whole
  <2>1. whole \in BOOLEAN
    BY DEF whole, KnownBounds
  <2>2. CASE m = "unroll"
    BY <1>4, <1>6, <1>8, <2>1, <2>2
  <2>3. CASE m = "unrollandjam"
    BY <1>4, <1>7, <1>8, <2>3
  <2>4. QED
    BY <1>1, <2>2, <2>3
<1> HIDE DEF U, P, h
<1>10. CASE fully
  <2>1. UpperBound(s) # -1 /\ InitVal(s) # -1
    <3>1. CASE s.full
      BY <1>1, <3>1, GetLoopType DEF MustSkip, KnownBounds, Unknown
    <3>2. CASE ~s.full
      BY <1>5, <1>10, <3>2 DEF KnownBounds, Unknown
    <3>3. QED
      BY <3>1, <3>2
  <2>2. s.loKnown /\ s.hiKnown /\ UpperBound(s) = h
    BY <1>3, <2>1
  <2>3. s.full \/ (m = "unroll" /\ s.step * s.factor >= h)
    BY <1>5, <1>10, <2>2
  <2>4. s.lo = 0 /\ h % s.step = 0
    BY <2>2, <2>3 DEF Supported, h
  <2>5. InitVal(s) = 0
    BY <1>3, <2>2, <2>4
  <2>6. PlanOK(s, P, Copies(P))
    BY <1>2, <1>3, <1>9, <1>10, <2>1, <2>2, <2>4, <2>5, FullyUnrolledOK
       DEF h, Unknown
  <2>7. QED
    BY <1>1, <2>6 DEF P
<1>11. CASE ~fully
  <2> DEFINE su == s.step * s.factor
  <2>1. P.stepUnrolled = su /\ ~P.fullyUnrolled
    BY <1>5, <1>9, <1>11
  <2>2. ASSUME s.loKnown, s.hiKnown, m = "unroll", su >= h
        PROVE  h = 0
    <3>1. InitVal(s) # -1
      BY <1>3, <2>2
    <3>2. UpperBound(s) # -1 => FALSE
      BY <1>3, <1>5, <1>11, <2>2, <3>1 DEF KnownBounds, Unknown
    <3>3. QED
      BY <1>3, <2>2, <3>2
  <2> HIDE DEF su
  <2>3. su \in Nat \ {0}
    BY <1>4 DEF su
  <2>4. \/ h = 0
        \/ su % s.step = 0 /\ (s.hiKnown /\ su = h => s.lo = 0 \/ s.lo = h)
    BY <1>1, <1>11, <2>2 DEF Supported, h, su
  <2>5. s.lo + su <= h => su % s.step = 0
    BY <1>3, <2>3, <2>4
  <2>6. s.hiKnown /\ su = h => s.lo = 0 \/ s.lo = h
    BY <1>3, <2>3, <2>4
  <2>7. PlanOK(s, P, Copies(P))
    BY <1>2, <1>3, <2>1, <2>3, <2>5, <2>6, PartlyUnrolledOK DEF h
  <2>8. QED
    BY <1>1, <2>7 DEF P
<1>12. QED
  BY <1>10, <1>11

\* What the compiler plans for a supported loop it does not skip is right.
LEMMA PlanIsOK ==
  ASSUME NEW s \in SourceLoops, NEW m \in PragmaModes, Supported(s, m),
         ~MustSkip(s, m, GetLoop(s))
  PROVE  PlanOK(s, Plan(s, m), Made(s, m))
<1>1. m \in {"unrollandjam", "unroll"}
  BY DEF Supported
<1>2. QED
  BY <1>1, ListedOK, UnlistedJamOK, UnlistedDimOK

-------------------------------------------------------------------------------
(***************************************************************************)
(* The inductive invariant: what the plan is known to be at each phase and *)
(* where the run is among the source's iterations.  At the test of the     *)
(* emitted header dim is still lo or at least one stride past it, which is *)
(* what lets a loop that starts at zero do without its epilog.             *)
(***************************************************************************)
PlanInv ==
  /\ L.step = src.step
  /\ pc \in {"unroll", "original"} => L = GetLoop(src)
  /\ pc \in {"rewrite", "straight", "enter", "test", "copies"}
       => PlanOK(src, L, body)
  /\ pc = "straight" => L.fullyUnrolled
  /\ pc \in {"enter", "test", "copies"} => ~L.fullyUnrolled

PlaceInv ==
  /\ pc \in {"unroll", "rewrite", "original", "enter"} => trace = <<>> /\ k = 0
  /\ pc = "straight" => k = Len(trace)
  /\ pc \in {"test", "copies"} =>
       dim = src.lo \/ dim >= src.lo + L.stepUnrolled
  /\ pc \in {"test", "epilog"} => dim = NextIndex
  /\ pc = "copies" => NextIndex = dim + k * src.step /\ TripFits

IInv ==
  TypeOK /\ PlanInv /\ PlaceInv /\ IterationsInOrder /\ NothingLost /\ ExitValue

AllSupported == \A c \in Cases : Supported(c[1], c[2])

\* The case at hand, as the lemmas on the plan want it.
LEMMA CaseAtHand ==
  ASSUME AllSupported, TypeOK
  PROVE  /\ src \in SourceLoops /\ mode \in PragmaModes /\ Supported(src, mode)
         /\ src.lo \in Nat /\ hi \in Nat /\ src.lo <= hi /\ src.step \in Nat \ {0}
<1>1. src \in SourceLoops /\ mode \in PragmaModes /\ Supported(src, mode)
  BY CasesAssumption DEF TypeOK, AllSupported
<1>2. QED
  BY <1>1, KnownBound DEF hi, SourceLoops

\* Running the body with the source's next value keeps to the source's order.
LEMMA AppendNext ==
  ASSUME src \in SourceLoops, trace \in Seq(Int), IterationsInOrder,
         NextIndex < hi, trace' = Append(trace, NextIndex), src' = src
  PROVE  /\ IterationsInOrder' /\ trace' \in Seq(Int)
         /\ Len(trace') = Len(trace) + 1
         /\ NextIndex' = NextIndex + src.step
<1>1. src.lo \in Int /\ src.step \in Nat \ {0} /\ hi \in Int /\ hi' = hi
  BY GetLoopType DEF SourceLoops, hi
<1>2. NextIndex \in Int
  BY <1>1 DEF NextIndex
<1>3. trace' \in Seq(Int) /\ Len(trace') = Len(trace) + 1 /\ Len(trace) \in Nat
  BY <1>2
<1>4. NextIndex' = NextIndex + src.step
  <2> DEFINE n == Len(trace)
             st == src.step
  <2>1. (n + 1) * st = n * st + st
    BY <1>1, <1>3, OneMoreStep
  <2>2. NextIndex' = src.lo + (n + 1) * st
    BY <1>3 DEF NextIndex
  <2>3. n * st \in Int
    BY <1>1, <1>3
  <2> HIDE DEF n, st
  <2>4. NextIndex = src.lo + n * st
    BY DEF NextIndex, n, st
  <2>5. QED
    BY <1>1, <2>1, <2>2, <2>3, <2>4 DEF st
<1>5. IterationsInOrder'
  <2>1. SUFFICES ASSUME NEW i \in 1 .. Len(trace')
                 PROVE  trace'[i] = src.lo + (i - 1) * src.step /\ trace'[i] < hi
    BY <1>1 DEF IterationsInOrder
  <2>2. CASE i = Len(trace')
    BY <1>2, <1>3, <2>2 DEF NextIndex
  <2>3. CASE i # Len(trace')
    <3>1. i \in 1 .. Len(trace) /\ trace'[i] = trace[i]
      BY <1>2, <1>3, <2>3
    <3>2. QED
      BY <3>1 DEF IterationsInOrder
  <2>4. QED
    BY <2>2, <2>3
<1>6. QED
  BY <1>3, <1>4, <1>5

\* Before the compiler has read the loop the invariant holds.
LEMMA InitInv ==
  ASSUME AllSupported, Init
  PROVE  IInv
<1>1. TypeOK
  <2>1. <<src, mode>> \in Cases
    BY CasesAssumption DEF Init
  <2>2. src \in SourceLoops
    BY <2>1, CasesAssumption
  <2>3. QED
    BY <2>1, <2>2, GetLoopType, StaleAssumption
       DEF Init, TypeOK, Phases, OneCopy, Bodies
<1>2. PlanInv
  BY <1>1, CaseAtHand, GetLoopType DEF Init, PlanInv
<1>3. PlaceInv /\ IterationsInOrder /\ NothingLost /\ ExitValue
  BY DEF Init, PlaceInv, IterationsInOrder, NothingLost, ExitValue
<1>4. QED
  BY <1>1, <1>2, <1>3 DEF IInv

\* Every step of the compiler and of the emitted code keeps the invariant.
LEMMA NextInv ==
  ASSUME AllSupported, IInv, [Next]_vars
  PROVE  IInv'
<1>1. TypeOK /\ PlanInv /\ PlaceInv /\ IterationsInOrder /\ NothingLost /\ ExitValue
  BY DEF IInv
<1>2. /\ src \in SourceLoops /\ mode \in PragmaModes /\ Supported(src, mode)
      /\ src.lo \in Nat /\ hi \in Nat /\ src.lo <= hi /\ src.step \in Nat \ {0}
  BY <1>1, CaseAtHand
<1>3. /\ L \in LoopInfos /\ body \in Bodies /\ dim \in Int /\ k \in 0 .. body.count
      /\ trace \in Seq(Int) /\ L.stepUnrolled \in Int /\ body.count \in Nat
      /\ <<src, mode>> \in Cases /\ NextIndex \in Int
  BY <1>1, <1>2 DEF TypeOK, LoopInfos, Bodies, NextIndex
<1>4. ASSUME src' = src
      PROVE  hi' = hi /\ (trace' = trace => NextIndex' = NextIndex)
  BY <1>4 DEF hi, NextIndex
<1>5. ASSUME src' = src, trace' = trace, IterationsInOrder
      PROVE  IterationsInOrder'
  BY <1>4, <1>5 DEF IterationsInOrder
<1>6. ASSUME PerformUnrolling
      PROVE  IInv'
  <2>1. L' = Plan(src, mode) /\ body' = Made(src, mode)
    BY <1>1, <1>6 DEF PerformUnrolling, PlanInv, Plan, Made
  <2>2. PlanOK(src, L', body')
    BY <1>1, <1>2, <1>6, <2>1, PlanIsOK DEF PerformUnrolling, PlanInv
  <2>3. L' \in LoopInfos /\ L'.step = src.step /\ body' \in Bodies
    BY <1>2, <2>1, PlanType, MadeType
  <2>4. TypeOK'
    BY <1>1, <1>3, <1>6, <2>3
       DEF PerformUnrolling, PlaceInv, TypeOK, Phases, Bodies
  <2>5. PlanInv'
    BY <1>6, <2>2, <2>3 DEF PerformUnrolling, PlanInv
  <2>6. PlaceInv' /\ NothingLost' /\ ExitValue'
    BY <1>1, <1>6 DEF PerformUnrolling, PlaceInv, NothingLost, ExitValue
  <2>7. QED
    BY <1>1, <1>5, <1>6, <2>4, <2>5, <2>6 DEF IInv, PerformUnrolling
<1>7. ASSUME Skip
      PROVE  IInv'
  <2>1. TypeOK'
    BY <1>1, <1>3, <1>7 DEF Skip, TypeOK, Phases
  <2>2. PlanInv' /\ PlaceInv' /\ NothingLost' /\ ExitValue'
    BY <1>1, <1>7 DEF Skip, PlanInv, PlaceInv, NothingLost, ExitValue
  <2>3. QED
    BY <1>1, <1>5, <1>7, <2>1, <2>2 DEF IInv, Skip
<1>8. ASSUME RewriteLoops
      PROVE  IInv'
  <2>1. TypeOK'
    BY <1>1, <1>3, <1>8 DEF RewriteLoops, TypeOK, Phases
  <2>2. PlanInv'
    BY <1>1, <1>8 DEF RewriteLoops, PlanInv
  <2>3. PlaceInv' /\ NothingLost' /\ ExitValue'
    BY <1>1, <1>8 DEF RewriteLoops, PlaceInv, NothingLost, ExitValue
  <2>4. QED
    BY <1>1, <1>5, <1>8, <2>1, <2>2, <2>3 DEF IInv, RewriteLoops
<1>9. ASSUME EnterOriginal
      PROVE  IInv'
  <2>1. TypeOK'
    BY <1>1, <1>2, <1>3, <1>9 DEF EnterOriginal, TypeOK, Phases
  <2>2. PlanInv'
    BY <1>1, <1>9 DEF EnterOriginal, PlanInv
  <2>3. NextIndex' = src.lo
    BY <1>1, <1>2, <1>9 DEF EnterOriginal, PlaceInv, NextIndex
  <2>4. PlaceInv' /\ NothingLost' /\ ExitValue'
    BY <1>1, <1>9, <2>3 DEF EnterOriginal, PlaceInv, NothingLost, ExitValue
  <2>5. QED
    BY <1>1, <1>5, <1>9, <2>1, <2>2, <2>4 DEF IInv, EnterOriginal
<1>10. ASSUME Enter
       PROVE  IInv'
  <2>1. TypeOK'
    BY <1>1, <1>2, <1>3, <1>10 DEF Enter, TypeOK, Phases
  <2>2. PlanInv'
    BY <1>1, <1>10 DEF Enter, PlanInv
  <2>3. NextIndex' = src.lo
    BY <1>1, <1>2, <1>10 DEF Enter, PlaceInv, NextIndex
  <2>4. PlaceInv' /\ NothingLost' /\ ExitValue'
    BY <1>1, <1>10, <2>3 DEF Enter, PlaceInv, NothingLost, ExitValue
  <2>5. QED
    BY <1>1, <1>5, <1>10, <2>1, <2>2, <2>4 DEF IInv, Enter
<1>11. ASSUME Test
       PROVE  IInv'
  <2>1. TypeOK'
    BY <1>1, <1>3, <1>11 DEF Test, TypeOK, Phases, Bodies
  <2>2. PlanInv'
    BY <1>1, <1>11 DEF Test, PlanInv
  <2>3. TripFits' = TripFits /\ NextIndex' = NextIndex /\ hi' = hi
    BY <1>4, <1>11 DEF Test, TripFits
  <2>4. dim = NextIndex /\ (dim = src.lo \/ dim >= src.lo + L.stepUnrolled)
    BY <1>1, <1>11 DEF Test, PlaceInv
  <2>5. k' = 0 /\ k' * src.step = 0 /\ dim' = dim /\ L' = L /\ src' = src
    BY <1>2, <1>11 DEF Test
  <2>6. PlaceInv'
    BY <1>1, <1>3, <1>11, <2>3, <2>4, <2>5 DEF Test, PlaceInv
  <2>7. ~TripFits /\ ~EpilogEmitted(L) => dim >= hi
    BY <1>1, <1>2, <1>3, <1>11, <2>4 DEF Test, PlanInv, PlanOK, TripFits, hi
  <2>8. NothingLost' /\ ExitValue'
    BY <1>11, <2>3, <2>4, <2>7 DEF Test, NothingLost, ExitValue
  <2>9. QED
    BY <1>1, <1>5, <1>11, <2>1, <2>2, <2>6, <2>8 DEF IInv, Test
<1>12. ASSUME Copy
       PROVE  IInv'
  <2>1. k \in Nat /\ k < body.count /\ L.step = src.step
    BY <1>1, <1>3, <1>12 DEF Copy, PlanInv
  <2>2. k * src.step \in Nat /\ k * src.step + src.step <= body.count * src.step
        /\ (k + 1) * src.step = k * src.step + src.step
    BY <1>2, <1>3, <2>1, OneMoreStep, RoomForOneStep
  <2>3. CASE pc = "copies"
    <3>1. /\ dim >= src.lo /\ dim + L.stepUnrolled <= hi
          /\ NextIndex = dim + k * src.step
      <4>1. L.stepUnrolled > 0
        BY <1>1, <2>3 DEF PlanInv, PlanOK
      <4>2. QED
        BY <1>1, <1>2, <1>3, <2>3, <4>1 DEF PlaceInv, TripFits
    <3>2. src.lo + L.stepUnrolled <= UpperExcl(src)
      BY <1>2, <1>3, <3>1 DEF hi
    <3>3. /\ body.count * src.step = L.stepUnrolled
          /\ body.literal => src.lo = 0 /\ L.stepUnrolled = UpperExcl(src)
      BY <1>1, <2>3, <3>2 DEF PlanInv, PlanOK
    <3>4. body.literal => dim = 0
      BY <1>2, <1>3, <3>1, <3>3 DEF hi
    <3>5. CopyIndex(k) = NextIndex
      BY <2>1, <3>1, <3>4 DEF CopyIndex
    <3>6. NextIndex < hi
      <4> DEFINE ks == k * src.step
                 cs == body.count * src.step
      <4>1. /\ ks \in Nat /\ ks + src.step <= cs
            /\ NextIndex = dim + ks /\ cs = L.stepUnrolled
        BY <2>2, <3>1, <3>3
      <4> HIDE DEF ks, cs
      <4>2. /\ src.step \in Nat \ {0} /\ dim \in Int /\ hi \in Nat
            /\ L.stepUnrolled \in Int /\ dim + L.stepUnrolled <= hi
        BY <1>2, <1>3, <3>1
      <4>3. QED
        BY <4>1, <4>2
    <3>7. trace' = Append(trace, NextIndex) /\ src' = src
      BY <1>12, <3>5 DEF Copy
    <3>8. /\ IterationsInOrder' /\ trace' \in Seq(Int)
          /\ NextIndex' = NextIndex + src.step
      BY <1>1, <1>2, <1>3, <3>6, <3>7, AppendNext
    <3>9. TypeOK'
      BY <1>1, <1>3, <1>12, <2>1, <3>8 DEF Copy, TypeOK, Bodies
    <3>10. PlanInv'
      BY <1>1, <1>12 DEF Copy, PlanInv
    <3>11. TripFits'
      BY <1>4, <1>12, <3>1 DEF Copy, TripFits
    <3>12. NextIndex' = dim + (k + 1) * src.step
      BY SMTT(30), <1>2, <1>3, <2>2, <3>1, <3>8
    <3>13. PlaceInv' /\ NothingLost' /\ ExitValue'
      BY <1>1, <1>12, <2>3, <3>11, <3>12
         DEF Copy, PlaceInv, NothingLost, ExitValue
    <3>14. QED
      BY <3>8, <3>9, <3>10, <3>13 DEF IInv
  <2>4. CASE pc = "straight"
    <3>1. /\ src.lo = 0 /\ body.literal /\ body.count * src.step = hi
          /\ k = Len(trace)
      BY <1>1, <2>4 DEF PlanInv, PlanOK, PlaceInv, hi
    <3>2. NextIndex = k * src.step
      BY <1>2, <2>2, <3>1 DEF NextIndex
    <3>3. CopyIndex(k) = NextIndex /\ NextIndex < hi
      BY <1>2, <1>3, <2>1, <2>2, <3>1, <3>2 DEF CopyIndex
    <3>4. trace' = Append(trace, NextIndex) /\ src' = src
      BY <1>12, <3>3 DEF Copy
    <3>5. IterationsInOrder' /\ trace' \in Seq(Int) /\ Len(trace') = Len(trace) + 1
      BY <1>1, <1>2, <1>3, <3>3, <3>4, AppendNext
    <3>6. TypeOK'
      BY <1>1, <1>3, <1>12, <2>1, <3>5 DEF Copy, TypeOK, Bodies
    <3>7. PlanInv'
      BY <1>1, <1>12 DEF Copy, PlanInv
    <3>8. PlaceInv' /\ NothingLost' /\ ExitValue'
      BY <1>12, <2>4, <3>1, <3>5 DEF Copy, PlaceInv, NothingLost, ExitValue
    <3>9. QED
      BY <3>5, <3>6, <3>7, <3>8 DEF IInv
  <2>5. QED
    BY <1>12, <2>3, <2>4 DEF Copy
<1>13. ASSUME NextTrip
       PROVE  IInv'
  <2>1. /\ dim = src.lo \/ dim >= src.lo + L.stepUnrolled
        /\ dim + L.stepUnrolled <= hi /\ L.stepUnrolled > 0
        /\ NextIndex = dim + k * src.step
    BY <1>1, <1>13 DEF NextTrip, PlanInv, PlanOK, PlaceInv, TripFits
  <2>2. src.lo + L.stepUnrolled <= UpperExcl(src)
    BY <1>2, <1>3, <2>1 DEF hi
  <2>3. body.count * src.step = L.stepUnrolled
    BY <1>1, <1>13, <2>2 DEF NextTrip, PlanInv, PlanOK
  <2>4. k = body.count
    BY <1>3, <1>13 DEF NextTrip
  <2>5. dim' = NextIndex /\ NextIndex' = NextIndex
    BY <1>4, <1>13, <2>1, <2>3, <2>4 DEF NextTrip
  <2>6. TypeOK'
    BY <1>1, <1>3, <1>13 DEF NextTrip, TypeOK, Phases
  <2>7. PlanInv'
    BY <1>1, <1>13 DEF NextTrip, PlanInv
  <2>8. dim' >= src'.lo + L'.stepUnrolled
    BY <1>2, <1>3, <1>13, <2>1 DEF NextTrip
  <2>9. PlaceInv' /\ NothingLost' /\ ExitValue'
    BY <1>13, <2>5, <2>8 DEF NextTrip, PlaceInv, NothingLost, ExitValue
  <2>10. QED
    BY <1>1, <1>5, <1>13, <2>6, <2>7, <2>9 DEF IInv, NextTrip
<1>14. ASSUME EndStraight
       PROVE  IInv'
  <2>1. /\ src.lo = 0 /\ body.count * src.step = hi /\ k = Len(trace)
        /\ L.fullyUnrolled
    BY <1>1, <1>14 DEF EndStraight, PlanInv, PlanOK, PlaceInv, hi
  <2>2. k = body.count
    BY <1>3, <1>14 DEF EndStraight
  <2>3. NextIndex = hi
    BY <1>2, <2>1, <2>2 DEF NextIndex
  <2>4. TypeOK'
    BY <1>1, <1>3, <1>14 DEF EndStraight, TypeOK, Phases
  <2>5. PlanInv'
    BY <1>1, <1>14 DEF EndStraight, PlanInv
  <2>6. PlaceInv' /\ NothingLost' /\ ExitValue'
    BY <1>2, <1>4, <1>14, <2>1, <2>3
       DEF EndStraight, PlaceInv, NothingLost, ExitValue
  <2>7. QED
    BY <1>1, <1>5, <1>14, <2>4, <2>5, <2>6 DEF IInv, EndStraight
<1>15. ASSUME EpilogTrip
       PROVE  IInv'
  <2>1. dim = NextIndex /\ NextIndex < hi /\ L.step = src.step
    BY <1>1, <1>15 DEF EpilogTrip, PlaceInv, PlanInv
  <2>2. trace' = Append(trace, NextIndex) /\ src' = src
    BY <1>15, <2>1 DEF EpilogTrip
  <2>3. /\ IterationsInOrder' /\ trace' \in Seq(Int)
        /\ NextIndex' = NextIndex + src.step
    BY <1>1, <1>2, <1>3, <2>1, <2>2, AppendNext
  <2>4. dim' = NextIndex'
    BY <1>15, <2>1, <2>3 DEF EpilogTrip
  <2>5. TypeOK'
    BY <1>1, <1>2, <1>3, <1>15, <2>1, <2>3 DEF EpilogTrip, TypeOK
  <2>6. PlanInv'
    BY <1>1, <1>15 DEF EpilogTrip, PlanInv
  <2>7. PlaceInv' /\ NothingLost' /\ ExitValue'
    BY <1>15, <2>4 DEF EpilogTrip, PlaceInv, NothingLost, ExitValue
  <2>8. QED
    BY <2>3, <2>5, <2>6, <2>7 DEF IInv
<1>16. ASSUME EndEpilog
       PROVE  IInv'
  <2>1. dim = NextIndex /\ dim >= hi
    BY <1>1, <1>16 DEF EndEpilog, PlaceInv
  <2>2. TypeOK'
    BY <1>1, <1>3, <1>16 DEF EndEpilog, TypeOK, Phases
  <2>3. PlanInv'
    BY <1>1, <1>16 DEF EndEpilog, PlanInv
  <2>4. PlaceInv' /\ NothingLost' /\ ExitValue'
    BY <1>4, <1>16, <2>1 DEF EndEpilog, PlaceInv, NothingLost, ExitValue
  <2>5. QED
    BY <1>1, <1>5, <1>16, <2>2, <2>3, <2>4 DEF IInv, EndEpilog
<1>17. ASSUME UNCHANGED vars
       PROVE  IInv'
  BY <1>1, <1>17
     DEF vars, IInv, TypeOK, PlanInv, PlaceInv, IterationsInOrder, NothingLost,
         ExitValue, NextIndex, TripFits, hi
<1>18. QED
  BY <1>6, <1>7, <1>8, <1>9, <1>10, <1>11, <1>12, <1>13, <1>14, <1>15, <1>16,
     <1>17 DEF Next, Step, Finished

-------------------------------------------------------------------------------
\* Every variable keeps its type (in the shape of UnrolledLoop's TypeOK, where
\* k never passes the copies unrollTacList made).
THEOREM TypeCorrect ==
  ASSUME AllSupported
  PROVE  Spec => []TypeOK
<1>1. Init => IInv
  BY InitInv
<1>2. IInv /\ [Next]_vars => IInv'
  BY NextInv
<1>3. IInv => TypeOK
  BY DEF IInv
<1>4. QED
  BY <1>1, <1>2, <1>3, PTL DEF Spec

\* For every Supported loop, whatever its bounds, step and factor, the code
\* rewriteLoops emits runs the source's iterations in order, each at most once.
THEOREM RunsInOrder ==
  ASSUME AllSupported
  PROVE  Spec => []IterationsInOrder
<1>1. Init => IInv
  BY InitInv
<1>2. IInv /\ [Next]_vars => IInv'
  BY NextInv
<1>3. IInv => IterationsInOrder
  BY DEF IInv
<1>4. QED
  BY <1>1, <1>2, <1>3, PTL DEF Spec

\* ... and when it ends it has run all of them, with or without an epilog.
THEOREM RunsAll ==
  ASSUME AllSupported
  PROVE  Spec => []NothingLost
<1>1. Init => IInv
  BY InitInv
<1>2. IInv /\ [Next]_vars => IInv'
  BY NextInv
<1>3. IInv => NothingLost
  BY DEF IInv
<1>4. QED
  BY <1>1, <1>2, <1>3, PTL DEF Spec

\* The loop variable leaves the emitted loop with the source's last value,
\* unless rewriteLoops removed the loop.
THEOREM LeavesSameValue ==
  ASSUME AllSupported
  PROVE  Spec => []ExitValue
<1>1. Init => IInv
  BY InitInv
<1>2. IInv /\ [Next]_vars => IInv'
  BY NextInv
<1>3. IInv => ExitValue
  BY DEF IInv
<1>4. QED
  BY <1>1, <1>2, <1>3, PTL DEF Spec

\* Every step that runs the body, a copy of it or the epilog's, is the source
\* loop's next iteration, and every other step is a stutter of the source loop.
LEMMA StepRefines ==
  ASSUME AllSupported, IInv, IInv', [Next]_vars
  PROVE  [Source!Iterate]_(Source!sourceVars)
<1>1. TypeOK /\ IterationsInOrder' /\ trace' \in Seq(Int)
  BY DEF IInv, TypeOK
<1>2. /\ src \in SourceLoops /\ src.lo \in Nat /\ hi \in Nat
      /\ src.step \in Nat \ {0}
  BY <1>1, CaseAtHand
<1>3. trace \in Seq(Int) /\ Len(trace) \in Nat
  BY <1>1 DEF TypeOK
<1>4. CASE trace' = trace /\ src' = src
  BY <1>4 DEF Source!sourceVars, NextIndex
<1>5. ASSUME NEW v \in Int, trace' = Append(trace, v), src' = src
      PROVE  Source!Iterate
  <2>1. /\ Len(trace') = Len(trace) + 1 /\ trace'[Len(trace) + 1] = v
    BY <1>3, <1>5
  <2>2. hi' = hi
    BY <1>5 DEF hi
  <2>3. v = src.lo + Len(trace) * src.step /\ v < hi
    <3> DEFINE n == Len(trace) + 1
    <3>1. n \in 1 .. Len(trace') /\ n - 1 = Len(trace)
      BY <1>3, <2>1
    <3>2. trace'[n] = src.lo + (n - 1) * src.step /\ trace'[n] < hi
      BY <1>1, <1>5, <2>2, <3>1 DEF IterationsInOrder
    <3>3. QED
      BY <2>1, <3>1, <3>2
  <2>4. v = NextIndex
    BY <2>3 DEF NextIndex
  <2>5. NextIndex' = NextIndex + src.step
    <3>1. NextIndex' = src.lo + (Len(trace) + 1) * src.step
      BY <1>5, <2>1 DEF NextIndex
    <3>2. (Len(trace) + 1) * src.step = Len(trace) * src.step + src.step
          /\ Len(trace) * src.step \in Nat
      BY <1>2, <1>3, OneMoreStep
    <3> DEFINE n == Len(trace) * src.step
    <3>3. NextIndex' = src.lo + (n + src.step) /\ NextIndex = src.lo + n /\ n \in Nat
      BY <3>1, <3>2 DEF NextIndex
    <3> HIDE DEF n
    <3>4. QED
      BY <1>2, <3>3
  <2>6. QED
    BY <1>5, <2>3, <2>4, <2>5 DEF Source!Iterate, Source!Hi, hi, UpperExcl
<1>6. CASE Copy
  <2>1. CopyIndex(k) \in Int
    BY <1>1 DEF CopyIndex, TypeOK, LoopInfos, Bodies
  <2>2. QED
    BY <1>5, <1>6, <2>1 DEF Copy
<1>7. CASE EpilogTrip
  BY <1>1, <1>5, <1>7 DEF EpilogTrip, TypeOK
<1>8. CASE ~Copy /\ ~EpilogTrip
  BY <1>4, <1>8
     DEF Next, Step, Finished, vars, PerformUnrolling, Skip, RewriteLoops,
         EnterOriginal, Enter, Test, NextTrip, EndStraight, EndEpilog
<1>9. QED
  BY <1>6, <1>7, <1>8

\* The emitted loop implements the source loop (its safety part): it starts
\* where the source loop starts and every step of it is one of the source's.
THEOREM EmittedLoopImplementsSource ==
  ASSUME AllSupported
  PROVE  Spec => Source!SourceInit /\ [][Source!Iterate]_(Source!sourceVars)
<1>1. Init => IInv
  BY InitInv
<1>2. IInv /\ [Next]_vars => IInv'
  BY NextInv
<1>3. IInv /\ IInv' /\ [Next]_vars => [Source!Iterate]_(Source!sourceVars)
  BY StepRefines
<1>4. Init => Source!SourceInit
  <2>1. SUFFICES ASSUME Init
                 PROVE  Source!SourceInit
    OBVIOUS
  <2>2. src \in SourceLoops
    BY <1>1, <2>1, CaseAtHand DEF IInv
  <2>3. trace = <<>> /\ NextIndex = src.lo
    BY <2>1, <2>2 DEF Init, NextIndex, SourceLoops
  <2>4. QED
    BY <2>2, <2>3 DEF Source!SourceInit
<1>5. QED
  BY <1>1, <1>2, <1>3, <1>4, PTL DEF Spec
===============================================================================
