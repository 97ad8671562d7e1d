----------------------------- MODULE MCStreamer -----------------------------
(* The penalty maps of the small instances: the Huber band, a bound band (decay 0)    *)
(* and a one-sided bound as instrument data.                                          *)
EXTENDS Streamer, TLC

Band(decay) == [n |-> 2, s |-> (0 :> 0) @@ (1 :> decay) @@ (2 :> 0)]

Bound == [n |-> 1, s |-> (0 :> 0) @@ (1 :> Zero)]

HuberMaps == {Band(-1)}
DataMaps == {Band(-1), Band(Zero), Bound}

\* No guard reads the scales of the matrices, and after a lost anchor they compound
\* without bound: the failure runs identify states that differ in them only.
ControlView ==
    <<pc, status, map, band, at, nPinned, truncated, anchorWeak, fullRank,
      steps, refreshes, rescales, frozen, hist, driftRefreshed, finalDone, anchorOf>>

\* Every tick starts its counters and flags afresh and reads the step count against its
\* cap only: the walk run identifies states that differ in nothing else.
WalkView ==
    <<pc, map, band, at, nPinned, jRef, jCur, op, rankVars,
      IF pc = "idle" THEN <<>>
      ELSE <<steps < MaxSteps, refreshes, rescales, frozen, hist, driftRefreshed, finalDone,
             fullRank>> >>
=============================================================================
