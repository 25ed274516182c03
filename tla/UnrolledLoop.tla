----------------------------- MODULE UnrolledLoop -----------------------------
(***************************************************************************)
(* One loop of a scop from its pragma to the run of the code MACVETH       *)
(* writes for it.  The first steps are the compiler's (getLoop,            *)
(* performUnrolling, rewriteLoops), the rest execute the emitted code:     *)
(*                                                                         *)
(*     for (dim = lo; (dim + SU) <= hi; dim += SU) {                       *)
(*       body(dim + 0); body(dim + step); ...                              *)
(*     }                                                                   *)
(*     for (dim = dim; dim < hi; dim += step) body(dim);     // epilog     *)
(*                                                                         *)
(* or the copies of the body alone when the loop is fully unrolled.  Init  *)
(* and hi are worth the same when the emitted header runs as when the      *)
(* source's would: "loop variable has not been altered" (getEpilogs).      *)
(* What body(n) has of n are the subscripts of its array elements: an      *)
(* operand that is dim itself is not replaced by a number when the loop is *)
(* fully unrolled, so that such a body is outside of the model.            *)
(***************************************************************************)
EXTENDS LoopPlan, Sequences

CONSTANTS
  Cases,  \* the source loops to compile, each with the option of its pragma
  Stale   \* values dim may hold before the region, when declared outside it

ASSUME CasesAssumption == Cases \subseteq SourceLoops \X PragmaModes
ASSUME StaleAssumption == Stale \subseteq Int

VARIABLES
  src,    \* the source loop
  mode,   \* the option of its pragma
  pc,     \* the compiler's phase, then the place in the emitted code
  L,      \* LoopInfo
  body,   \* the copies of the body
  dim,    \* the loop variable at run time
  k,      \* the copy of the body that runs next
  trace   \* the values of dim the source body has run with

vars == <<src, mode, pc, L, body, dim, k, trace>>

Phases == {"unroll", "rewrite", "original", "straight", "enter", "test",
           "copies", "epilog", "done"}

hi == UpperExcl(src)

Init ==
  /\ \E c \in Cases : src = c[1] /\ mode = c[2]
  /\ pc = "unroll"
  /\ L = GetLoop(src)
  /\ body = OneCopy
  /\ dim \in Stale
  /\ k = 0
  /\ trace = <<>>

(***************************************************************************)
(* The compiler.                                                           *)
(***************************************************************************)
PerformUnrolling ==
  /\ pc = "unroll"
  /\ ~MustSkip(src, mode, L)
  /\ L' = Unrolled(src, mode, L)
  /\ body' = Body(src, mode, L')
  /\ pc' = "rewrite"
  /\ UNCHANGED <<src, mode, dim, k, trace>>

Skip ==
  /\ pc = "unroll"
  /\ MustSkip(src, mode, L)
  /\ pc' = "original"
  /\ UNCHANGED <<src, mode, L, body, dim, k, trace>>

RewriteLoops ==
  /\ pc = "rewrite"
  /\ pc' = IF L.fullyUnrolled THEN "straight" ELSE "enter"
  /\ UNCHANGED <<src, mode, L, body, dim, k, trace>>

(***************************************************************************)
(* The emitted code.  A skipped region keeps its source loop, which is run *)
(* like an epilog that starts at lo.                                       *)
(***************************************************************************)
EnterOriginal ==
  /\ pc = "original"
  /\ dim' = src.lo
  /\ pc' = "epilog"
  /\ UNCHANGED <<src, mode, L, body, k, trace>>

Enter ==
  /\ pc = "enter"
  /\ dim' = src.lo
  /\ pc' = "test"
  /\ UNCHANGED <<src, mode, L, body, k, trace>>

\* Mutant: the main loop may start a trip that ends past the bound.
TripFitsOffByOne == dim + L.stepUnrolled <= hi + 1

TripFits == dim + L.stepUnrolled <= hi

Test ==
  /\ pc = "test"
  /\ pc' = IF TripFits THEN "copies"
           ELSE IF EpilogEmitted(L) THEN "epilog" ELSE "done"
  /\ k' = 0
  /\ UNCHANGED <<src, mode, L, body, dim, trace>>

CopyIndex(n) == (IF body.literal THEN 0 ELSE dim) + n * L.step

\* Mutant: one copy too many on each trip.
CopyOneMore ==
  /\ pc \in {"copies", "straight"}
  /\ k <= body.count
  /\ trace' = Append(trace, CopyIndex(k))
  /\ k' = k + 1
  /\ UNCHANGED <<src, mode, pc, L, body, dim>>

Copy ==
  /\ pc \in {"copies", "straight"}
  /\ k < body.count
  /\ trace' = Append(trace, CopyIndex(k))
  /\ k' = k + 1
  /\ UNCHANGED <<src, mode, pc, L, body, dim>>

\* Mutant: the increment of the emitted header is the source's.
NextTripBySourceStep ==
  /\ pc = "copies"
  /\ k >= body.count
  /\ dim' = dim + L.step
  /\ pc' = "test"
  /\ UNCHANGED <<src, mode, L, body, k, trace>>

NextTrip ==
  /\ pc = "copies"
  /\ k >= body.count
  /\ dim' = dim + L.stepUnrolled
  /\ pc' = "test"
  /\ UNCHANGED <<src, mode, L, body, k, trace>>

EndStraight ==
  /\ pc = "straight"
  /\ k >= body.count
  /\ pc' = "done"
  /\ UNCHANGED <<src, mode, L, body, dim, k, trace>>

EpilogTrip ==
  /\ pc = "epilog"
  /\ dim < hi
  /\ trace' = Append(trace, dim)
  /\ dim' = dim + L.step
  /\ UNCHANGED <<src, mode, pc, L, body, k>>

EndEpilog ==
  /\ pc = "epilog"
  /\ dim >= hi
  /\ pc' = "done"
  /\ UNCHANGED <<src, mode, L, body, dim, k, trace>>

Finished ==
  /\ pc = "done"
  /\ UNCHANGED vars

Step ==
  \/ PerformUnrolling \/ Skip \/ RewriteLoops
  \/ EnterOriginal \/ Enter \/ Test \/ Copy \/ NextTrip \/ EndStraight
  \/ EpilogTrip \/ EndEpilog

Next == Step \/ Finished

(***************************************************************************)
(* The compiler and the compiled program are sequential programs that run: *)
(* as long as a step is possible one is taken.                             *)
(***************************************************************************)
Spec == Init /\ [][Next]_vars
FairSpec == Spec /\ WF_vars(Step)

-------------------------------------------------------------------------------
\* Every variable has its type, and the run never goes past the last copy of
\* the body that unrollTacList made.
TypeOK ==
  /\ <<src, mode>> \in Cases
  /\ pc \in Phases
  /\ L \in LoopInfos
  /\ body \in Bodies
  /\ dim \in Int
  /\ k \in 0 .. body.count
  /\ trace \in Seq(Int)

(***************************************************************************)
(* The value the source loop would run its body with next.                 *)
(***************************************************************************)
NextIndex == src.lo + Len(trace) * src.step

\* At every point of the run the emitted code (main loop, copies and epilog
\* together) has executed a prefix of the source's iterations, in the
\* source's order, each once and none beyond the bound.
IterationsInOrder ==
  \A n \in 1 .. Len(trace) :
    /\ trace[n] = src.lo + (n - 1) * src.step
    /\ trace[n] < hi

\* When the emitted code ends no iteration of the source is left: the epilog
\* takes up exactly where the last whole trip of the main loop stopped, and a
\* loop that rewriteLoops gives no epilog needs none.
NothingLost == pc = "done" => NextIndex >= hi

\* A loop variable declared outside the loop leaves the emitted loop with the
\* value it has after the source's, unless the loop was fully unrolled.
ExitValue == pc = "done" /\ ~L.fullyUnrolled => dim = NextIndex

Source == INSTANCE SourceLoop WITH Loops <- SourceLoops, next <- NextIndex

\* The emitted loop implements the source loop: every step of it runs the
\* source's next iteration or none, and as long as the source has an iteration
\* left the emitted code goes on to run it.
ImplementsSourceLoop == Source!SourceSpec

\* The emitted loop ends (a stride of zero would spin for ever in a header
\* whose increment is zero).
Terminates == <>(pc = "done")

-------------------------------------------------------------------------------
\* What the README says of nounroll, "the same behavior as unrolling with
\* factor 1": no iteration of a loop in such a scop is left when it ends.
NoUnrollIsFactorOne == mode = "nounroll" /\ pc = "done" => NextIndex >= hi
===============================================================================
