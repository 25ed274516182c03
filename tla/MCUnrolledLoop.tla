---------------------------- MODULE MCUnrolledLoop ----------------------------
(***************************************************************************)
(* UnrolledLoop on the loops with small bounds, steps and factors that are *)
(* Supported under the option of the pragma.                                *)
(***************************************************************************)
EXTENDS UnrolledLoop

MCStale == {0, 7}

(***************************************************************************)
(* Bounds: a loop starts at 0..2 and ends at most at 9, twice the fallback *)
(* factor of 4 plus one; the steps divide it, equal it or do neither.      *)
(***************************************************************************)
SmallLoops ==
  {s \in [lo : 0..2, bound : 0..9, loKnown : BOOLEAN, hiKnown : BOOLEAN,
          le : BOOLEAN, step : 1..3, listed : BOOLEAN, full : BOOLEAN,
          factor : 1..4, others : {TRUE}] :
     /\ ~s.listed => ~s.full /\ s.factor = 1
     /\ s.full => s.factor = 1
     /\ s.le => s.bound \in {3, 7}}

MCCases == {c \in SmallLoops \X PragmaModes : Supported(c[1], c[2])}

(***************************************************************************)
(* Loops outside Supported, each counted from lo to bound by 1, both known *)
(* at compile time.                                                        *)
(***************************************************************************)
PlainLoops ==
  {s \in SmallLoops : s.step = 1 /\ ~s.le /\ s.loKnown /\ s.hiKnown
                      /\ s.lo <= s.bound}

\* Loops of scops whose pragma says nounroll.  Four iterations at least: with
\* fewer the emitted stride is zero.
MCNoUnrollCases ==
  {s \in PlainLoops : ~s.listed /\ s.bound - s.lo >= 4} \X {"nounroll"}
===============================================================================
