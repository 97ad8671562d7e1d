------------------------------ MODULE LiveCurve ------------------------------
(***************************************************************************)
(* What a bundle session promises its caller, whatever mixture of cold     *)
(* solves, streamed ticks, requotes, band edits and fixings it is driven   *)
(* by: the curve changes only in a call that answers with a curve, and the *)
(* curve answered with was solved to every input as the call left it.      *)
(***************************************************************************)
CONSTANTS Inputs,   \* everything a solve depends on: quotes, bands, resolved observations
          NoCurve   \* no solve has been reported yet

VARIABLES inputs,   \* the inputs the session holds
          curve,    \* the inputs the reported curve was solved to, and whether the solve converged
          answered  \* the last call returned a curve

liveVars == <<inputs, curve, answered>>

Curves == {NoCurve} \cup [of : Inputs, converged : BOOLEAN]

LiveInit == inputs \in Inputs /\ curve = NoCurve /\ answered = FALSE

\* A call that only moves inputs, reads, or is refused.
Requote == inputs' \in Inputs /\ answered' = FALSE /\ UNCHANGED curve

\* A call that solves, to the inputs it may itself have brought.
Solve ==
    /\ inputs' \in Inputs
    /\ answered' = TRUE
    /\ \E ok \in BOOLEAN : curve' = [of |-> inputs', converged |-> ok]

LiveNext == Requote \/ Solve

LiveSpec == LiveInit /\ [][LiveNext]_liveVars
=============================================================================
