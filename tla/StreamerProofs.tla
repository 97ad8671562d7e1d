--------------------------- MODULE StreamerProofs ---------------------------
(***************************************************************************)
(* What the streaming calibrator guarantees for every number of rows, every *)
(* penalty map and every value of its caps: the budgets of a tick, the rank *)
(* of a committed operator, the count of the pins, the chain of re-scales   *)
(* and the slopes a step is solved with, and what the anchor was taken at.  *)
(***************************************************************************)
EXTENDS Streamer, FiniteSetTheorems, TLAPS

----------------------------------------------------------------------------
(* The budgets of a tick.                                                  *)

CountersOK == steps \in Nat /\ refreshes \in Nat /\ rescales \in Nat /\ frozen \in Nat

\* Before the corrector step the tick still owes its own step to the cap; the cap on
\* re-scales is read at the top of the loop only, the caps on refreshes and steps at its
\* bottom, which a walk, a release and a re-anchor leave early.
BudgetsInv ==
    /\ CountersOK
    /\ pc \in {"idle", "walk", "solve", "settled", "unsettled", "stalled"}
    /\ rescales <= MaxRescales + IF pc \in {"idle", "walk"} THEN 1 ELSE 0
    /\ refreshes <= MaxRefresh + Flag(fullRank)
    /\ steps <= MaxSteps + rescales + Flag(fullRank) + Flag(finalDone)
    /\ pc \in {"walk", "solve"} =>
          steps < MaxSteps + rescales + Flag(fullRank) + Flag(finalDone)

\* The first state, and the budgets as the run checks them.
LEMMA BudgetsInit == Init => BudgetsInv
  BY StreamerAssumption DEF StreamerAssumption, Init, BudgetsInv, CountersOK, Flag

LEMMA BudgetsImply == BudgetsInv => Budgets
  BY StreamerAssumption DEF StreamerAssumption, BudgetsInv, CountersOK, Budgets, Flag

\* Every step keeps the tick within its budgets.
LEMMA BudgetsStep == BudgetsInv /\ [Next]_vars => BudgetsInv'
<1> SUFFICES ASSUME BudgetsInv, [Next]_vars
             PROVE  BudgetsInv'
  OBVIOUS
<1> USE StreamerAssumption DEF StreamerAssumption, BudgetsInv, CountersOK, Flag
<1>1. CASE BeginTick
  <2>1. pc' = "walk" /\ steps' = 0 /\ refreshes' = 0 /\ rescales' = 0 /\ frozen' = 0
    BY <1>1 DEF BeginTick
  <2>2. QED
    BY <2>1
<1>2. CASE BeginDriftedTick
  BY <1>2 DEF BeginDriftedTick
<1>3. CASE DriftRefreshFails
  BY <1>3 DEF DriftRefreshFails
<1>4. CASE SetBands
  BY <1>4 DEF SetBands, tickVars
<1>5. CASE Resync
  BY <1>5 DEF Resync, tickVars
<1>6. CASE EvaluateFails
  <2>1. pc' = "idle" /\ UNCHANGED tickVars
    BY <1>6 DEF EvaluateFails, Fail
  <2>2. QED
    BY <2>1 DEF tickVars
<1>7. CASE Evaluate
  <2>1. /\ pc = "walk" /\ rescales < MaxRescales /\ pc' = "solve"
        /\ UNCHANGED <<steps, refreshes, finalDone, fullRank>>
    BY <1>7 DEF Evaluate
  <2>2. PICK moved : /\ rescales' = IF moved = {} THEN rescales ELSE rescales + 1
                     /\ frozen' = IF moved = {} THEN frozen ELSE 0
    BY <1>7, Zenon DEF Evaluate
  <2>3. QED
    BY <2>1, <2>2
<1>8. CASE BreakpointStep
  BY <1>8 DEF BreakpointStep
<1>9. CASE FullStep
  BY <1>9 DEF FullStep
<1>10. CASE StepNonFinite
  <2>1. /\ pc = "solve" /\ pc' = "idle" /\ steps' = steps + 1
        /\ UNCHANGED <<refreshes, rescales, frozen, finalDone, fullRank>>
    BY <1>10 DEF StepNonFinite, Fail
  <2>2. QED
    BY <2>1
<1>11. CASE ReleasePins
  <2>1. /\ pc = "settled" /\ pc' = "walk" /\ rescales' = rescales + 1 /\ frozen' = 0
        /\ UNCHANGED <<steps, refreshes, finalDone, fullRank>>
    BY <1>11 DEF ReleasePins
  <2>2. QED
    BY <2>1
<1>12. CASE CommitReanchor
  <2>1. /\ pc = "settled" /\ pc' \in {"idle", "walk"} /\ ~fullRank
        /\ fullRank' = TRUE /\ finalDone' = TRUE
        /\ \/ refreshes' = refreshes + 1 /\ frozen' = 0
           \/ UNCHANGED <<refreshes, frozen>>
        /\ UNCHANGED <<steps, rescales>>
    BY <1>12 DEF CommitReanchor, Fail
  <2>2. QED
    BY <2>1
<1>13. CASE FinalRefresh
  <2>1. /\ pc = "settled" /\ pc' \in {"idle", "walk"} /\ ~finalDone /\ finalDone' = TRUE
        /\ refreshes < MaxRefresh
        /\ \/ refreshes' = refreshes + 1 /\ frozen' = 0
           \/ UNCHANGED <<refreshes, frozen>>
        /\ UNCHANGED <<steps, rescales, fullRank>>
    BY <1>13 DEF FinalRefresh, NeedsFinalRefresh, Fail
  <2>2. QED
    BY <2>1
<1>14. CASE Commit
  BY <1>14 DEF Commit, tickVars
<1>15. CASE StepCapHit
  <2>1. pc' = "idle" /\ UNCHANGED tickVars /\ pc \in {"unsettled", "stalled"}
    BY <1>15 DEF StepCapHit, Unsettled, Fail
  <2>2. QED
    BY <2>1 DEF tickVars
<1>16. CASE RefreshCapHit
  <2>1. pc' = "idle" /\ UNCHANGED tickVars /\ pc \in {"unsettled", "stalled"}
    BY <1>16 DEF RefreshCapHit, Stale, Unsettled, Fail
  <2>2. QED
    BY <2>1 DEF tickVars
<1>17. CASE StallRefresh
  <2>1. /\ pc \in {"unsettled", "stalled"} /\ steps < MaxSteps /\ refreshes < MaxRefresh
        /\ pc' \in {"idle", "walk"}
        /\ \/ refreshes' = refreshes + 1 /\ frozen' = 0
           \/ UNCHANGED <<refreshes, frozen>>
        /\ UNCHANGED <<steps, rescales, finalDone, fullRank>>
    BY <1>17 DEF StallRefresh, Stale, Unsettled, Fail
  <2>2. QED
    BY <2>1
<1>18. CASE KeepIterating
  BY <1>18 DEF KeepIterating, Unsettled
<1>19. CASE UNCHANGED vars
  BY <1>19 DEF vars
<1>20. QED
  BY <1>1, <1>2, <1>3, <1>4, <1>5, <1>6, <1>7, <1>8, <1>9, <1>10, <1>11, <1>12, <1>13,
     <1>14, <1>15, <1>16, <1>17, <1>18, <1>19 DEF Next, Step

\* No tick re-scales, refreshes or steps past its budgets (streaming.hpp 475-625), whatever
\* the caps, the rows and the order of walks, releases, re-anchors and failures.
THEOREM BudgetsHold == Spec => []Budgets
<1>1. BudgetsInv /\ [Next]_vars => BudgetsInv'
  BY BudgetsStep
<1>2. QED
  BY <1>1, BudgetsInit, BudgetsImply, PTL DEF Spec

----------------------------------------------------------------------------
(* The rank of the operator a tick commits on.                             *)

\* full_rank_ is set before the commit re-anchor, so from there to the end of the tick
\* every factorisation is an anchor's and leaves nothing truncated.
RankInv ==
    /\ pc # "idle" /\ fullRank => ~truncated
    /\ pc = "idle" /\ status = "Converged" => ~truncated

LEMMA RankInit == Init => RankInv
  BY Zenon DEF Init, RankInv

LEMMA RankStep == RankInv /\ [Next]_vars => RankInv'
<1> SUFFICES ASSUME RankInv, [Next]_vars
             PROVE  RankInv'
  OBVIOUS
<1> USE DEF RankInv
<1>1. CASE BeginTick
  <2>1. pc' = "walk" /\ fullRank' = FALSE
    BY <1>1 DEF BeginTick
  <2>2. QED
    BY <2>1
<1>2. CASE BeginDriftedTick
  <2>1. pc' = "walk" /\ fullRank' = FALSE
    BY <1>2 DEF BeginDriftedTick
  <2>2. QED
    BY <2>1
<1>3. CASE DriftRefreshFails
  BY <1>3 DEF DriftRefreshFails
<1>4. CASE SetBands
  BY <1>4, Zenon DEF SetBands, rankVars
<1>5. CASE Resync
  <2>1. pc = "idle" /\ pc' = "idle" /\ status' = status
    BY <1>5 DEF Resync
  <2>2. ~truncated' \/ truncated' = truncated
    BY <1>5, Zenon DEF Resync, SetAnchor, Factor, rankVars
  <2>3. QED
    BY <2>1, <2>2
<1>6. CASE EvaluateFails
  BY <1>6 DEF EvaluateFails, Fail
<1>7. CASE Evaluate
  <2>1. pc = "walk" /\ pc' = "solve" /\ fullRank' = fullRank
    BY <1>7, Zenon DEF Evaluate
  <2>2. truncated' = truncated \/ (fullRank => ~truncated')
    BY <1>7, Zenon DEF Evaluate, Rescale, Factor
  <2>3. QED
    BY <2>1, <2>2
<1>8. CASE BreakpointStep
  <2>1. pc = "solve" /\ pc' = "walk" /\ fullRank' = fullRank
    BY <1>8, Zenon DEF BreakpointStep
  <2>2. PICK k, into : SwitchRow(k, into)
    BY <1>8, Zenon DEF BreakpointStep
  <2>3. truncated' = truncated \/ (fullRank => ~truncated')
    BY <2>2, Zenon DEF SwitchRow, Rescale, Factor
  <2>4. QED
    BY <2>1, <2>3
<1>9. CASE FullStep
  <2>1. pc = "solve" /\ fullRank' = fullRank /\ truncated' = truncated /\ pc' # "idle"
    BY <1>9 DEF FullStep, rankVars
  <2>2. QED
    BY <2>1, Zenon
<1>10. CASE StepNonFinite
  BY <1>10 DEF StepNonFinite, Fail
<1>11. CASE ReleasePins
  <2>1. pc = "settled" /\ pc' = "walk" /\ fullRank' = fullRank
    BY <1>11, Zenon DEF ReleasePins
  <2>2. truncated' = truncated \/ (fullRank => ~truncated')
    BY <1>11, Zenon DEF ReleasePins, Rescale, Factor
  <2>3. QED
    BY <2>1, <2>2
<1>12. CASE CommitReanchor
  <2>1. \/ pc' = "walk" /\ ~truncated'
        \/ pc' = "idle" /\ status' = "NonFinite"
    BY <1>12, Zenon DEF CommitReanchor, Fail, SetAnchor, Factor
  <2>2. QED
    BY <2>1
<1>13. CASE FinalRefresh
  <2>1. \/ pc' = "walk" /\ fullRank' = fullRank /\ (fullRank => ~truncated')
        \/ pc' = "idle" /\ status' = "NonFinite"
    BY <1>13, Zenon DEF FinalRefresh, Fail, SetAnchor, Factor
  <2>2. QED
    BY <2>1
<1>14. CASE Commit
  <2>1. pc = "settled" /\ ~(truncated /\ ~fullRank) /\ pc' = "idle" /\ truncated' = truncated
    BY <1>14, Zenon DEF Commit
  <2>2. QED
    BY <2>1
<1>15. CASE StepCapHit
  BY <1>15 DEF StepCapHit, Fail
<1>16. CASE RefreshCapHit
  BY <1>16 DEF RefreshCapHit, Fail
<1>17. CASE StallRefresh
  <2>1. \/ pc' = "walk" /\ fullRank' = fullRank /\ (fullRank => ~truncated')
        \/ pc' = "idle" /\ status' = "NonFinite"
    BY <1>17, Zenon DEF StallRefresh, Fail, SetAnchor, Factor
  <2>2. QED
    BY <2>1
<1>18. CASE KeepIterating
  <2>1. /\ pc # "idle" /\ pc' = "walk"
        /\ fullRank' = fullRank /\ truncated' = truncated
    BY <1>18 DEF KeepIterating, Unsettled, rankVars
  <2>2. QED
    BY <2>1, Zenon
<1>19. CASE UNCHANGED vars
  BY <1>19, Zenon DEF vars
<1>20. QED
  BY <1>1, <1>2, <1>3, <1>4, <1>5, <1>6, <1>7, <1>8, <1>9, <1>10, <1>11, <1>12, <1>13,
     <1>14, <1>15, <1>16, <1>17, <1>18, <1>19 DEF Next, Step

\* A tick that commits does so on an operator at the shared rank threshold
\* (streaming.hpp 585-599): no fixed point of a truncated operator is accepted.
THEOREM CommitsAtFullRank == Spec => []CommittedAtFullRank
<1>1. RankInv => CommittedAtFullRank
  BY DEF RankInv, CommittedAtFullRank
<1>2. RankInv /\ [Next]_vars => RankInv'
  BY RankStep
<1>3. QED
  BY <1>1, <1>2, RankInit, PTL DEF Spec
----------------------------------------------------------------------------
(* The walk's records and the pin count.                                   *)

PinnedRows == {k \in Rows : band[k].pin >= 0}

\* Every piece on record exists, a pin is a breakpoint between two pieces of an active row,
\* an active row has a reference slope to be re-scaled from, and n_pinned_ counts the pins.
RowsInv ==
    /\ map \in MapsOfRows
    /\ band \in [Rows -> BandRow]
    /\ \A k \in Rows : /\ band[k].piece \in Pieces(k)
                       /\ band[k].pin >= 0 => band[k].pin + 1 \in Pieces(k) /\ band[k].active
                       /\ band[k].active => band[k].slopeRef # Zero
    /\ nPinned = Cardinality(PinnedRows)

LEMMA RowsFinite == IsFiniteSet(Rows)
  BY StreamerAssumption, FS_Interval DEF StreamerAssumption, Rows

LEMMA PinnedFinite == IsFiniteSet(PinnedRows)
  BY RowsFinite, FS_Subset DEF PinnedRows

\* The maps of the rows: a slope for every piece.
LEMMA SlopesTyped ==
  ASSUME NEW m \in MapsOfRows, NEW k \in Rows
  PROVE  /\ m[k] \in Maps /\ m[k].n \in 1..kMaxBreaks
         /\ \A i \in 0..m[k].n : m[k].s[i] \in Slopes
  BY MapsAssumption DEF MapsAssumption, MapsOfRows

LEMMA AnchoredTyped ==
  ASSUME NEW k \in Rows, NEW i \in Nat, NEW s \in Slopes
  PROVE  /\ AnchoredBand(k, i, s) \in BandRow
         /\ AnchoredBand(k, i, s).piece = i /\ AnchoredBand(k, i, s).pin = -1
         /\ AnchoredBand(k, i, s).active => AnchoredBand(k, i, s).slopeRef # Zero
  BY StreamerAssumption DEF StreamerAssumption, AnchoredBand, BandRow, Slopes

\* What an anchor does to the records.
RowsAnchored ==
    \E p \in SidesOf(map') :
        /\ band' = [k \in Rows |-> AnchoredBand(k, p[k], map'[k].s[p[k]])]
        /\ nPinned' = 0

LEMMA RowsAnchoredInv ==
  ASSUME map' \in MapsOfRows, RowsAnchored
  PROVE  RowsInv'
<1>1. PICK p \in SidesOf(map') :
          /\ band' = [k \in Rows |-> AnchoredBand(k, p[k], map'[k].s[p[k]])]
          /\ nPinned' = 0
  BY DEF RowsAnchored
<1>2. ASSUME NEW k \in Rows
      PROVE  /\ p[k] \in 0..map'[k].n /\ p[k] \in Nat /\ map'[k].s[p[k]] \in Slopes
  BY <1>1, SlopesTyped DEF SidesOf
<1>3. ASSUME NEW k \in Rows
      PROVE  /\ band'[k] \in BandRow /\ band'[k].piece = p[k] /\ band'[k].pin = -1
             /\ band'[k].active => band'[k].slopeRef # Zero
  BY <1>1, <1>2, AnchoredTyped
<1>4. band' \in [Rows -> BandRow]
  BY <1>1, <1>3
<1>5. PinnedRows' = {}
  BY <1>3 DEF PinnedRows
<1>6. nPinned' = Cardinality(PinnedRows')
  BY <1>1, <1>5, FS_EmptySet
<1>7. \A k \in Rows : /\ band'[k].piece \in Pieces(k)' /\ ~(band'[k].pin >= 0)
                      /\ band'[k].active => band'[k].slopeRef # Zero
  BY <1>2, <1>3 DEF Pieces
<1>8. QED
  BY <1>4, <1>6, <1>7 DEF RowsInv

LEMMA RowsInit == Init => RowsInv
<1> SUFFICES ASSUME Init
             PROVE  RowsInv
  OBVIOUS
<1>1. PICK p \in Sides : band = [k \in Rows |-> AnchoredBand(k, p[k], S(k, p[k]))]
  BY DEF Init
<1>2. map \in MapsOfRows /\ nPinned = 0
  BY DEF Init
<1>3. ASSUME NEW k \in Rows
      PROVE  /\ p[k] \in Pieces(k) /\ band[k] \in BandRow
             /\ band[k].piece = p[k] /\ band[k].pin = -1
             /\ band[k].active => band[k].slopeRef # Zero
  <2>1. p[k] \in Nat /\ p[k] \in Pieces(k) /\ S(k, p[k]) \in Slopes
    BY <1>2, SlopesTyped DEF Sides, SidesOf, Pieces, S
  <2>2. QED
    BY <1>1, <2>1, AnchoredTyped
<1>4. PinnedRows = {}
  BY <1>3 DEF PinnedRows
<1>5. nPinned = Cardinality(PinnedRows)
  BY <1>2, <1>4, FS_EmptySet
<1>6. band \in [Rows -> BandRow]
  BY <1>1, <1>3
<1>7. QED
  BY <1>2, <1>3, <1>5, <1>6 DEF RowsInv
\* Most steps leave the records alone or anchor them anew.
RowsKept == UNCHANGED <<map, band, nPinned>>
RowsReAnchored == map' \in MapsOfRows /\ RowsAnchored

LEMMA RowsKeptInv == RowsInv /\ RowsKept => RowsInv'
  BY DEF RowsInv, RowsKept, PinnedRows, Pieces

\* A step that changes neither map, pin nor count, and moves rows between pieces that exist.
LEMMA RowsMovedInv ==
  ASSUME RowsInv, map' = map, nPinned' = nPinned, band' \in [Rows -> BandRow],
         \A k \in Rows :
            /\ band'[k].pin = band[k].pin /\ band'[k].piece \in Pieces(k)
            /\ band'[k].active = band[k].active /\ band'[k].slopeRef = band[k].slopeRef
  PROVE  RowsInv'
<1>1. PinnedRows' = PinnedRows
  BY DEF PinnedRows
<1>2. QED
  BY <1>1 DEF RowsInv, Pieces

LEMMA BeginTickRows == RowsInv /\ BeginTick => RowsInv'
<1> SUFFICES ASSUME RowsInv, BeginTick
             PROVE  RowsInv'
  OBVIOUS
<1>1. /\ band' = [k \in Rows |-> [band[k] EXCEPT !.flips = 0, !.releases = 0]]
      /\ map' = map /\ nPinned' = nPinned
  BY DEF BeginTick
<1>2. ASSUME NEW k \in Rows
      PROVE  /\ band'[k] \in BandRow
             /\ band'[k].pin = band[k].pin /\ band'[k].piece \in Pieces(k)
             /\ band'[k].active = band[k].active /\ band'[k].slopeRef = band[k].slopeRef
  BY <1>1 DEF RowsInv, BandRow
<1>3. band' \in [Rows -> BandRow]
  BY <1>1, <1>2
<1>4. QED
  BY <1>1, <1>2, <1>3, RowsMovedInv

LEMMA EvaluateRows == RowsInv /\ Evaluate => RowsInv'
<1> SUFFICES ASSUME RowsInv, Evaluate
             PROVE  RowsInv'
  OBVIOUS
<1>1. PICK q \in Readings :
         band' = [k \in Rows |->
                    IF Reconciled(k, q)
                    THEN [band[k] EXCEPT !.piece = q[k].piece, !.onedge = FALSE,
                                         !.slopeCur = S(k, q[k].piece)]
                    ELSE band[k]]
  BY Zenon DEF Evaluate
<1>2. map' = map /\ nPinned' = nPinned
  BY Zenon DEF Evaluate
<1>3. ASSUME NEW k \in Rows
      PROVE  /\ band'[k] \in BandRow
             /\ band'[k].pin = band[k].pin /\ band'[k].piece \in Pieces(k)
             /\ band'[k].active = band[k].active /\ band'[k].slopeRef = band[k].slopeRef
  <2>1. q[k].piece \in Pieces(k) /\ q[k].piece \in Nat /\ S(k, q[k].piece) \in Slopes
    BY SlopesTyped DEF Readings, Pieces, S, RowsInv
  <2>2. band[k] \in BandRow /\ band[k].piece \in Pieces(k)
    BY DEF RowsInv
  <2>3. CASE Reconciled(k, q)
    <3>1. band'[k] = [band[k] EXCEPT !.piece = q[k].piece, !.onedge = FALSE,
                                     !.slopeCur = S(k, q[k].piece)]
      BY <1>1, <2>3
    <3>2. QED
      BY <2>1, <2>2, <3>1 DEF BandRow
  <2>4. CASE ~Reconciled(k, q)
    BY <1>1, <2>2, <2>4
  <2>5. QED
    BY <2>3, <2>4
<1>4. band' \in [Rows -> BandRow]
  BY <1>1, <1>3
<1>5. QED
  BY <1>2, <1>3, <1>4, RowsMovedInv

\* switch_row() counts a row up exactly when it becomes pinned.
LEMMA BreakpointRows == RowsInv /\ BreakpointStep => RowsInv'
<1> SUFFICES ASSUME RowsInv, BreakpointStep
             PROVE  RowsInv'
  OBVIOUS
<1>1. map' = map
  BY Zenon DEF BreakpointStep
<1>2a. PICK k \in Rows : \E into \in {band[k].piece - 1, band[k].piece + 1} \cap Pieces(k) :
          band[k].active /\ band[k].pin < 0 /\ SwitchRow(k, into)
  BY Zenon DEF BreakpointStep
<1>2. PICK into \in {band[k].piece - 1, band[k].piece + 1} \cap Pieces(k) :
         band[k].active /\ band[k].pin < 0 /\ SwitchRow(k, into)
  BY <1>2a
<1>3. /\ band' = [band EXCEPT ![k] = Switched(k, into)]
      /\ nPinned' = nPinned + (IF Pins(k) THEN 1 ELSE 0)
  BY <1>2, Zenon DEF SwitchRow
<1>4. /\ band[k] \in BandRow /\ band[k].piece \in Pieces(k) /\ map[k].n \in Nat
      /\ into \in Nat /\ into \in Pieces(k) /\ S(k, into) \in Slopes
  BY SlopesTyped DEF RowsInv, Pieces, S
<1>5. PinScale \in Slopes
  BY StreamerAssumption DEF StreamerAssumption, Slopes
<1>6. /\ Edge(k, into) \in Nat /\ Edge(k, into) \in Int
      /\ Edge(k, into) >= 0 /\ Edge(k, into) + 1 \in Pieces(k)
  BY <1>2, <1>4 DEF Edge, Pieces, BandRow
<1>7. /\ band'[k] \in BandRow /\ band'[k].piece \in Pieces(k)
      /\ band'[k].pin = IF Pins(k) THEN Edge(k, into) ELSE band[k].pin
      /\ band'[k].active = band[k].active /\ band'[k].slopeRef = band[k].slopeRef
  <2>1. band'[k] = Switched(k, into)
    BY <1>3 DEF RowsInv
  <2>2. band[k].flips + 1 \in Nat
    BY <1>4 DEF BandRow
  <2>3. CASE Pins(k)
    BY <1>4, <1>5, <1>6, <2>1, <2>2, <2>3 DEF Switched, BandRow
  <2>4. CASE ~Pins(k)
    BY <1>4, <2>1, <2>2, <2>4 DEF Switched, BandRow
  <2>5. QED
    BY <2>3, <2>4
<1>8. \A j \in Rows \ {k} : band'[j] = band[j]
  BY <1>3 DEF RowsInv
<1>9. band' \in [Rows -> BandRow]
  BY <1>3, <1>7, <1>8 DEF RowsInv
<1>10. nPinned' = Cardinality(PinnedRows')
  <2>1. k \notin PinnedRows
    BY <1>2, <1>4 DEF PinnedRows, BandRow
  <2>2. CASE Pins(k)
    <3>1. PinnedRows' = PinnedRows \cup {k}
      BY <1>6, <1>7, <1>8, <2>2 DEF PinnedRows
    <3>2. QED
      BY <1>3, <2>1, <2>2, <3>1, FS_AddElement, PinnedFinite DEF RowsInv
  <2>3. CASE ~Pins(k)
    <3>1. PinnedRows' = PinnedRows
      BY <1>7, <1>8, <2>3 DEF PinnedRows
    <3>2. nPinned \in Nat
      BY PinnedFinite, FS_CardinalityType DEF RowsInv
    <3>3. QED
      BY <1>3, <2>3, <3>1, <3>2 DEF RowsInv
  <2>4. QED
    BY <2>2, <2>3
<1>11. \A j \in Rows : /\ band'[j].piece \in Pieces(j)
                       /\ band'[j].pin >= 0 => band'[j].pin + 1 \in Pieces(j) /\ band'[j].active
                       /\ band'[j].active => band'[j].slopeRef # Zero
  BY <1>2, <1>4, <1>6, <1>7, <1>8 DEF RowsInv, BandRow
<1>12. QED
  BY <1>1, <1>9, <1>10, <1>11 DEF RowsInv, Pieces
\* verify_pins() counts down exactly the rows it releases.
LEMMA ReleaseRows == RowsInv /\ ReleasePins => RowsInv'
<1> SUFFICES ASSUME RowsInv, ReleasePins
             PROVE  RowsInv'
  OBVIOUS
<1>1. map' = map
  BY Zenon DEF ReleasePins
<1>2. PICK released \in (SUBSET {k \in Rows : band[k].pin >= 0 /\ band[k].releases = 0}) \ {{}} :
         \E above \in [released -> {0, 1}] :
            /\ band' = [k \in Rows |->
                          IF k \in released THEN Released(k, band[k].pin + above[k]) ELSE band[k]]
            /\ nPinned' = nPinned - Cardinality(released)
  BY Zenon DEF ReleasePins
<1>3. PICK above \in [released -> {0, 1}] :
         band' = [k \in Rows |->
                    IF k \in released THEN Released(k, band[k].pin + above[k]) ELSE band[k]]
  BY <1>2
<1>4. nPinned' = nPinned - Cardinality(released)
  BY <1>2
<1>5. released \subseteq PinnedRows
  BY <1>2 DEF PinnedRows
<1>6. ASSUME NEW k \in released
      PROVE  /\ k \in Rows /\ band'[k] \in BandRow /\ band'[k].pin = -1
             /\ band'[k].piece \in Pieces(k)
             /\ band'[k].active = band[k].active /\ band'[k].slopeRef = band[k].slopeRef
  <2>0. k \in Rows /\ band[k].pin >= 0
    BY <1>5 DEF PinnedRows
  <2>1. /\ k \in Rows /\ band[k] \in BandRow /\ band[k].pin >= 0
        /\ band[k].pin + 1 \in Pieces(k) /\ above[k] \in {0, 1} /\ map[k].n \in Nat
    <3>1. above[k] \in {0, 1}
      BY <1>3, <1>6
    <3>2. map[k].n \in Nat
      BY <2>0, SlopesTyped DEF RowsInv
    <3>3. QED
      BY <2>0, <3>1, <3>2 DEF RowsInv
  <2>2. band[k].pin + above[k] \in Pieces(k) /\ band[k].pin + above[k] \in Nat
    BY <2>1 DEF Pieces, BandRow
  <2>3. S(k, band[k].pin + above[k]) \in Slopes
    BY <2>1, <2>2, SlopesTyped DEF RowsInv, Pieces, S
  <2>4. band'[k] = [band[k] EXCEPT !.pin = -1, !.releases = @ + 1,
                                   !.piece = band[k].pin + above[k],
                                   !.slopeCur = S(k, band[k].pin + above[k])]
    BY <1>3, <1>6, <2>1 DEF Released
  <2>5. band[k].releases + 1 \in Nat /\ -1 \in Int
    BY <2>1 DEF BandRow
  <2>6. QED
    BY <2>1, <2>2, <2>3, <2>4, <2>5 DEF BandRow
<1>7. \A k \in Rows \ released : band'[k] = band[k]
  BY <1>3
<1>8. band' \in [Rows -> BandRow]
  BY <1>3, <1>6, <1>7 DEF RowsInv
<1>9. nPinned' = Cardinality(PinnedRows')
  <2>1. PinnedRows' = PinnedRows \ released
    BY <1>5, <1>6, <1>7 DEF PinnedRows
  <2>2. PinnedRows \cap released = released
    BY <1>5
  <2>3. Cardinality(PinnedRows \ released) = Cardinality(PinnedRows) - Cardinality(released)
    BY <2>2, FS_Difference, PinnedFinite
  <2>4. QED
    BY <1>4, <2>1, <2>3 DEF RowsInv
<1>10. \A j \in Rows : /\ band'[j].piece \in Pieces(j)
                       /\ band'[j].pin >= 0 => band'[j].pin + 1 \in Pieces(j) /\ band'[j].active
                       /\ band'[j].active => band'[j].slopeRef # Zero
  BY <1>6, <1>7 DEF RowsInv
<1>11. QED
  BY <1>1, <1>8, <1>9, <1>10 DEF RowsInv, Pieces

\* set_bands() counts down exactly the moved rows that were pinned, and the piece a moved
\* row was on exists in its new map: a four-number band always has the same three.
LEMMA SetBandsRows == RowsInv /\ SetBands => RowsInv'
<1> SUFFICES ASSUME RowsInv, SetBands
             PROVE  RowsInv'
  OBVIOUS
<1>1. PICK moved \in SUBSET (Rows \ GeneralRows) \ {{}} : \E new \in [moved -> BandMaps] :
         /\ map' = [k \in Rows |-> IF k \in moved THEN new[k] ELSE map[k]]
         /\ band' = [k \in Rows |->
                       IF k \in moved THEN [band[k] EXCEPT !.pin = -1, !.onedge = FALSE]
                                      ELSE band[k]]
         /\ nPinned' = nPinned - Cardinality({k \in moved : band[k].pin >= 0})
  BY Zenon DEF SetBands
<1>2. PICK new \in [moved -> BandMaps] :
         map' = [k \in Rows |-> IF k \in moved THEN new[k] ELSE map[k]]
  BY <1>1
<1>3. moved \subseteq Rows \ GeneralRows
  BY <1>1
<1>4. ASSUME NEW k \in moved
      PROVE  /\ k \in Rows /\ map'[k] \in BandMaps /\ map'[k].n = map[k].n
             /\ band'[k] \in BandRow /\ band'[k].pin = -1 /\ band'[k].piece = band[k].piece
             /\ band'[k].active = band[k].active /\ band'[k].slopeRef = band[k].slopeRef
  <2>1. k \in Rows /\ map'[k] = new[k] /\ new[k] \in BandMaps /\ map[k] \in BandMaps
    BY <1>2, <1>3 DEF RowsInv, MapsOfRows
  <2>2. band[k] \in BandRow /\ band'[k] = [band[k] EXCEPT !.pin = -1, !.onedge = FALSE]
    BY <1>1, <2>1 DEF RowsInv
  <2>3. -1 \in Int
    OBVIOUS
  <2>4. /\ band'[k] \in BandRow /\ band'[k].pin = -1 /\ band'[k].piece = band[k].piece
        /\ band'[k].active = band[k].active /\ band'[k].slopeRef = band[k].slopeRef
    BY <2>2, <2>3 DEF BandRow
  <2>5. QED
    BY <2>1, <2>4 DEF BandMaps
<1>5. \A k \in Rows \ moved : band'[k] = band[k] /\ map'[k] = map[k]
  BY <1>1, <1>2
<1>6. band' \in [Rows -> BandRow]
  BY <1>1, <1>4, <1>5 DEF RowsInv
<1>7. map' \in MapsOfRows
  <2>1. \A k \in Rows : map'[k] \in Maps
    BY <1>4, <1>5 DEF RowsInv, MapsOfRows, BandMaps
  <2>2. map' \in [Rows -> Maps]
    BY <1>2, <2>1
  <2>3. QED
    BY <1>4, <1>5, <2>2 DEF RowsInv, MapsOfRows
<1>8. nPinned' = Cardinality(PinnedRows')
  <2>1. PinnedRows' = PinnedRows \ {k \in moved : band[k].pin >= 0}
    BY <1>3, <1>4, <1>5 DEF PinnedRows
  <2>2. PinnedRows \cap {k \in moved : band[k].pin >= 0} = {k \in moved : band[k].pin >= 0}
    BY <1>3 DEF PinnedRows
  <2>3. Cardinality(PinnedRows \ {k \in moved : band[k].pin >= 0})
          = Cardinality(PinnedRows) - Cardinality({k \in moved : band[k].pin >= 0})
    BY <2>2, FS_Difference, PinnedFinite
  <2>4. QED
    BY <1>1, <2>1, <2>3 DEF RowsInv
<1>9. \A j \in Rows : /\ band'[j].piece \in 0..map'[j].n
                      /\ band'[j].pin >= 0 => band'[j].pin + 1 \in 0..map'[j].n /\ band'[j].active
                      /\ band'[j].active => band'[j].slopeRef # Zero
  BY <1>4, <1>5 DEF RowsInv, Pieces
<1>10. QED
  BY <1>6, <1>7, <1>8, <1>9 DEF RowsInv, Pieces

\* The bands re-read by a resync whose Jacobian is lost.
RowsFresh == band' = [k \in Rows |-> FreshBand] /\ nPinned' = 0

LEMMA FreshRows == RowsInv /\ map' \in MapsOfRows /\ RowsFresh => RowsInv'
<1> SUFFICES ASSUME map' \in MapsOfRows, RowsFresh
             PROVE  RowsInv'
  OBVIOUS
<1>1. \A k \in Rows : /\ band'[k] \in BandRow /\ band'[k].piece = 0 /\ band'[k].pin = -1
                      /\ map'[k].n \in Nat /\ band'[k].slopeRef # Zero
  BY SlopesTyped, StreamerAssumption
     DEF StreamerAssumption, RowsFresh, FreshBand, BandRow, Slopes
<1>2. PinnedRows' = {}
  BY <1>1 DEF PinnedRows
<1>3. nPinned' = Cardinality(PinnedRows')
  BY <1>2, FS_EmptySet DEF RowsFresh
<1>4. band' \in [Rows -> BandRow]
  BY <1>1 DEF RowsFresh
<1>5. QED
  BY <1>1, <1>3, <1>4 DEF RowsInv, Pieces

LEMMA RowsStep == RowsInv /\ [Next]_vars => RowsInv'
<1> SUFFICES ASSUME RowsInv, [Next]_vars
             PROVE  RowsInv'
  OBVIOUS
<1> USE DEF RowsKept, RowsReAnchored, RowsAnchored
<1>0. map \in MapsOfRows
  BY DEF RowsInv
<1>1. CASE BeginTick
  BY <1>1, BeginTickRows
<1>2. CASE BeginDriftedTick
  <2>1. RowsReAnchored
    BY <1>0, <1>2 DEF BeginDriftedTick, SetAnchor, Sides
  <2>2. QED
    BY <2>1, RowsAnchoredInv
<1>3. CASE DriftRefreshFails
  BY <1>3, RowsKeptInv DEF DriftRefreshFails, AnchorLost
<1>4. CASE SetBands
  BY <1>4, SetBandsRows
<1>5. CASE Resync
  <2>1. map' \in MapsOfRows /\ (RowsAnchored \/ RowsFresh)
    BY <1>5 DEF Resync, SetAnchor, RowsFresh
  <2>2. QED
    BY <2>1, RowsAnchoredInv, FreshRows
<1>6. CASE EvaluateFails
  <2>1. RowsKept \/ RowsReAnchored
    BY <1>0, <1>6 DEF EvaluateFails, Fail, SetAnchor, AnchorLost, anchorVars, Sides
  <2>2. QED
    BY <2>1, RowsKeptInv, RowsAnchoredInv
<1>7. CASE Evaluate
  BY <1>7, EvaluateRows
<1>8. CASE BreakpointStep
  BY <1>8, BreakpointRows
<1>9. CASE FullStep
  BY <1>9, RowsKeptInv DEF FullStep, walkVars
<1>10. CASE StepNonFinite
  <2>1. RowsKept \/ RowsReAnchored
    BY <1>0, <1>10 DEF StepNonFinite, Fail, SetAnchor, AnchorLost, anchorVars, Sides
  <2>2. QED
    BY <2>1, RowsKeptInv, RowsAnchoredInv
<1>11. CASE ReleasePins
  BY <1>11, ReleaseRows
<1>12. CASE CommitReanchor
  <2>1. RowsKept \/ RowsReAnchored
    BY <1>0, <1>12 DEF CommitReanchor, Fail, SetAnchor, AnchorLost, anchorVars, Sides
  <2>2. QED
    BY <2>1, RowsKeptInv, RowsAnchoredInv
<1>13. CASE FinalRefresh
  <2>1. RowsKept \/ RowsReAnchored
    BY <1>0, <1>13 DEF FinalRefresh, Fail, SetAnchor, AnchorLost, anchorVars, Sides
  <2>2. QED
    BY <2>1, RowsKeptInv, RowsAnchoredInv
<1>14. CASE Commit
  BY <1>14, RowsKeptInv DEF Commit, walkVars
<1>15. CASE StepCapHit
  <2>1. RowsKept \/ RowsReAnchored
    BY <1>0, <1>15 DEF StepCapHit, Fail, SetAnchor, AnchorLost, anchorVars, Sides
  <2>2. QED
    BY <2>1, RowsKeptInv, RowsAnchoredInv
<1>16. CASE RefreshCapHit
  <2>1. RowsKept \/ RowsReAnchored
    BY <1>0, <1>16 DEF RefreshCapHit, Fail, SetAnchor, AnchorLost, anchorVars, Sides
  <2>2. QED
    BY <2>1, RowsKeptInv, RowsAnchoredInv
<1>17. CASE StallRefresh
  <2>1. RowsKept \/ RowsReAnchored
    BY <1>0, <1>17 DEF StallRefresh, Fail, SetAnchor, AnchorLost, anchorVars, Sides
  <2>2. QED
    BY <2>1, RowsKeptInv, RowsAnchoredInv
<1>18. CASE KeepIterating
  BY <1>18, RowsKeptInv DEF KeepIterating, walkVars
<1>19. CASE UNCHANGED vars
  BY <1>19, RowsKeptInv DEF vars
<1>20. QED
  BY <1>1, <1>2, <1>3, <1>4, <1>5, <1>6, <1>7, <1>8, <1>9, <1>10, <1>11, <1>12, <1>13,
     <1>14, <1>15, <1>16, <1>17, <1>18, <1>19 DEF Next, Step

\* n_pinned_ is the number of pinned rows at every point of every history of ticks,
\* releases, requotes, re-anchors and failures.
THEOREM PinCountHolds == Spec => []PinCountExact
<1>1. RowsInv => PinCountExact
  BY DEF RowsInv, PinCountExact, PinnedRows
<1>2. RowsInv /\ [Next]_vars => RowsInv'
  BY RowsStep
<1>3. QED
  BY <1>1, <1>2, RowsInit, PTL DEF Spec
----------------------------------------------------------------------------
(* Type correctness.                                                       *)

MatricesInv ==
    /\ jRef \in [Rows -> Slopes] /\ jCur \in [Rows -> Slopes] /\ op \in [Rows -> Slopes]
    /\ truncated \in BOOLEAN /\ anchorWeak \in 0..MaxWeak
    /\ anchorOf \in {"solution", "iterate"}

\* What the steps do to the matrices: keep them, anchor them, lose the anchor, or re-scale
\* rows that are active.
MatricesKept == /\ UNCHANGED <<jRef, jCur, op, truncated, anchorWeak>>
                /\ anchorOf' \in {anchorOf, "solution"}
MatricesLost == jRef' = jCur /\ UNCHANGED <<jCur, op, truncated, anchorWeak, anchorOf>>
MatricesAnchored ==
    /\ \E p \in SidesOf(map') : jCur' = [k \in Rows |-> map'[k].s[p[k]]]
    /\ jRef' = [k \in Rows |-> band'[k].slopeRef]
    /\ op' = jCur'
    /\ truncated' \in BOOLEAN /\ anchorWeak' \in 0..MaxWeak
    /\ anchorOf' \in {"solution", "iterate"}
SomeRescaled ==
    \E new : /\ DOMAIN new \subseteq {k \in Rows : band[k].active}
             /\ \A k \in DOMAIN new : new[k] \in Slopes
             /\ Rescale(new)

LEMMA RescaledTyped ==
  ASSUME NEW j \in Slopes, NEW new \in Slopes, NEW old \in Slopes, old # Zero
  PROVE  Rescaled(j, new, old) \in Slopes
  BY DEF Rescaled, Slopes

LEMMA KeptMatricesInv == MatricesInv /\ (MatricesKept \/ MatricesLost) => MatricesInv'
  BY DEF MatricesInv, MatricesKept, MatricesLost

LEMMA AnchoredMatricesInv == RowsInv' /\ MatricesAnchored => MatricesInv'
<1> SUFFICES ASSUME RowsInv', MatricesAnchored
             PROVE  MatricesInv'
  OBVIOUS
<1>1. jRef' \in [Rows -> Slopes]
  BY DEF MatricesAnchored, RowsInv, BandRow
<1>2. PICK p \in SidesOf(map') : jCur' = [k \in Rows |-> map'[k].s[p[k]]]
  BY DEF MatricesAnchored
<1>3. map' \in MapsOfRows
  BY DEF RowsInv
<1>4. \A k \in Rows : map'[k].s[p[k]] \in Slopes
  BY <1>3, SlopesTyped DEF SidesOf
<1>5. jCur' \in [Rows -> Slopes]
  BY <1>2, <1>4
<1>6. QED
  BY <1>1, <1>5 DEF MatricesAnchored, MatricesInv

LEMMA RescaledMatricesInv == RowsInv /\ MatricesInv /\ SomeRescaled => MatricesInv'
<1> SUFFICES ASSUME RowsInv, MatricesInv, SomeRescaled
             PROVE  MatricesInv'
  OBVIOUS
<1>1. PICK new : /\ DOMAIN new \subseteq {k \in Rows : band[k].active}
                 /\ \A k \in DOMAIN new : new[k] \in Slopes
                 /\ Rescale(new)
  BY DEF SomeRescaled
<1>2. /\ jCur' = [k \in Rows |-> IF k \in DOMAIN new
                                 THEN Rescaled(jRef[k], new[k], band[k].slopeRef)
                                 ELSE jCur[k]]
      /\ \E refactored \in SUBSET DOMAIN new :
            /\ \A k \in DOMAIN new : MustFactor(k, new[k]) => k \in refactored
            /\ op' = OperatorAfter(new, refactored)
      /\ jRef' = jRef /\ anchorOf' = anchorOf
  BY <1>1, Zenon DEF Rescale
<1>3. truncated' \in BOOLEAN /\ anchorWeak' \in 0..MaxWeak
  <2>1. \/ truncated' = truncated /\ anchorWeak' = anchorWeak
        \/ \E weak \in 0..MaxWeak : Factor(weak, fullRank)
    BY <1>1, Zenon DEF Rescale
  <2>2. QED
    BY <2>1, Zenon DEF Factor, MatricesInv
<1>4. \A k \in Rows : /\ jRef[k] \in Slopes /\ jCur[k] \in Slopes /\ op[k] \in Slopes
                      /\ band[k].slopeRef \in Slopes /\ band[k].slopeCur \in Slopes
  BY DEF MatricesInv, RowsInv, BandRow
<1>5. \A k \in Rows : IF k \in DOMAIN new
                      THEN Rescaled(jRef[k], new[k], band[k].slopeRef) \in Slopes
                      ELSE jCur[k] \in Slopes
  BY <1>1, <1>4, RescaledTyped DEF RowsInv
<1>6. jCur' \in [Rows -> Slopes]
  BY <1>2, <1>5
<1>7. op' \in [Rows -> Slopes]
  <2>1. PICK refactored \in SUBSET DOMAIN new :
            /\ \A k \in DOMAIN new : MustFactor(k, new[k]) => k \in refactored
            /\ op' = OperatorAfter(new, refactored)
    BY <1>2
  <2> DEFINE rankOne == {k \in DOMAIN new \ refactored : \A f \in refactored : f < k}
             base == IF refactored = {} THEN op ELSE jCur
             after(k) == IF k \in rankOne THEN Rescaled(base[k], new[k], band[k].slopeCur)
                         ELSE IF refactored = {} THEN op[k] ELSE jCur'[k]
  <2>2. op' = [k \in Rows |-> after(k)]
    BY <2>1, Zenon DEF OperatorAfter
  <2>3. ASSUME NEW k \in Rows
        PROVE  after(k) \in Slopes
    <3>1. jCur'[k] \in Slopes /\ base[k] \in Slopes
      BY <1>4, <1>6
    <3>2. CASE k \in rankOne
      <4>1. k \in DOMAIN new /\ band[k].slopeCur # Zero
        BY <2>1, <3>2 DEF MustFactor
      <4>2. QED
        BY <1>1, <1>4, <3>1, <3>2, <4>1, RescaledTyped
    <3>3. CASE k \notin rankOne
      BY <1>4, <3>1, <3>3
    <3>4. QED
      BY <3>2, <3>3
  <2>4. QED
    BY <2>2, <2>3
<1>8. QED
  BY <1>2, <1>3, <1>6, <1>7 DEF MatricesInv
LEMMA EvaluateRescales == RowsInv /\ Evaluate => SomeRescaled
<1> SUFFICES ASSUME RowsInv, Evaluate
             PROVE  SomeRescaled
  OBVIOUS
<1>1. PICK q \in Readings :
         Rescale([k \in {j \in Rows : Reconciled(j, q) /\ S(j, q[j].piece) # band[j].slopeCur}
                    |-> S(k, q[k].piece)])
  BY Zenon DEF Evaluate
<1>2. \A k \in Rows : S(k, q[k].piece) \in Slopes /\ (Reconciled(k, q) => band[k].active)
  BY SlopesTyped DEF Readings, Pieces, S, RowsInv, Reconciled
<1> DEFINE moved == {j \in Rows : Reconciled(j, q) /\ S(j, q[j].piece) # band[j].slopeCur}
           new == [k \in moved |-> S(k, q[k].piece)]
<1>3. /\ DOMAIN new \subseteq {k \in Rows : band[k].active}
      /\ \A k \in DOMAIN new : new[k] \in Slopes
  BY <1>2
<1>4. Rescale(new)
  BY <1>1
<1>5. QED
  BY <1>3, <1>4, Zenon DEF SomeRescaled, Rescale

LEMMA BreakpointRescales == RowsInv /\ BreakpointStep => SomeRescaled
<1> SUFFICES ASSUME RowsInv, BreakpointStep
             PROVE  SomeRescaled
  OBVIOUS
<1>1. PICK k \in Rows : \E into \in {band[k].piece - 1, band[k].piece + 1} \cap Pieces(k) :
         band[k].active /\ SwitchRow(k, into)
  BY Zenon DEF BreakpointStep
<1>2. PICK into \in {band[k].piece - 1, band[k].piece + 1} \cap Pieces(k) :
         band[k].active /\ SwitchRow(k, into)
  BY <1>1
<1>3. Switched(k, into).slopeCur \in Slopes
  <2>1. S(k, into) \in Slopes /\ PinScale \in Slopes /\ band[k] \in BandRow
    BY SlopesTyped, StreamerAssumption DEF StreamerAssumption, Slopes, RowsInv, Pieces, S
  <2>2. QED
    BY <2>1 DEF Switched, BandRow
<1> DEFINE new == [j \in {k} |-> Switched(k, into).slopeCur]
<1>4. /\ DOMAIN new \subseteq {j \in Rows : band[j].active}
      /\ \A j \in DOMAIN new : new[j] \in Slopes
  BY <1>2, <1>3
<1>5. Rescale(new)
  BY <1>2, Zenon DEF SwitchRow
<1>6. QED
  BY <1>4, <1>5, Zenon DEF SomeRescaled, Rescale

LEMMA ReleaseRescales == RowsInv /\ ReleasePins => SomeRescaled
<1> SUFFICES ASSUME RowsInv, ReleasePins
             PROVE  SomeRescaled
  OBVIOUS
<1>1. PICK released \in (SUBSET {k \in Rows : band[k].pin >= 0 /\ band[k].releases = 0}) \ {{}} :
         \E above \in [released -> {0, 1}] :
            Rescale([k \in released |-> S(k, band[k].pin + above[k])])
  BY Zenon DEF ReleasePins
<1>2. PICK above \in [released -> {0, 1}] :
         Rescale([k \in released |-> S(k, band[k].pin + above[k])])
  BY <1>1
<1> DEFINE new == [k \in released |-> S(k, band[k].pin + above[k])]
<1>3. ASSUME NEW k \in released
      PROVE  k \in Rows /\ band[k].active /\ new[k] \in Slopes
  <2>1. k \in Rows /\ band[k].pin >= 0
    BY <1>1
  <2>2. above[k] \in {0, 1} /\ map[k].n \in Nat /\ band[k] \in BandRow
    BY <1>2, <1>3, <2>1, SlopesTyped DEF RowsInv
  <2>3. band[k].pin + 1 \in Pieces(k) /\ band[k].active
    BY <2>1 DEF RowsInv
  <2>4. band[k].pin + above[k] \in Pieces(k)
    BY <2>1, <2>2, <2>3 DEF Pieces, BandRow
  <2>5. S(k, band[k].pin + above[k]) \in Slopes
    BY <2>1, <2>4, SlopesTyped DEF RowsInv, Pieces, S
  <2>6. QED
    BY <1>3, <2>1, <2>3, <2>5
<1>4. /\ DOMAIN new \subseteq {k \in Rows : band[k].active}
      /\ \A k \in DOMAIN new : new[k] \in Slopes
  BY <1>3
<1>5. Rescale(new)
  BY <1>2
<1>6. QED
  BY <1>4, <1>5, Zenon DEF SomeRescaled, Rescale

LEMMA MatricesStep == RowsInv /\ RowsInv' /\ MatricesInv /\ [Next]_vars => MatricesInv'
<1> SUFFICES ASSUME RowsInv, RowsInv', MatricesInv, [Next]_vars
             PROVE  MatricesInv'
  OBVIOUS
<1> USE DEF MatricesKept, MatricesLost
<1>0. SUFFICES MatricesKept \/ MatricesLost \/ MatricesAnchored \/ SomeRescaled
  BY KeptMatricesInv, AnchoredMatricesInv, RescaledMatricesInv
<1>1. CASE BeginTick
  BY <1>1, Zenon DEF BeginTick, rankVars
<1>2. CASE BeginDriftedTick
  BY <1>2, Zenon DEF BeginDriftedTick, SetAnchor, Factor, Sides, MatricesAnchored, MatricesInv
<1>3. CASE DriftRefreshFails
  BY <1>3, Zenon DEF DriftRefreshFails, AnchorLost
<1>4. CASE SetBands
  BY <1>4, Zenon DEF SetBands, rankVars
<1>5. CASE Resync
  BY <1>5, Zenon DEF Resync, SetAnchor, Factor, rankVars, MatricesAnchored, MatricesInv
<1>6. CASE EvaluateFails
  BY <1>6, Zenon DEF EvaluateFails, Fail, SetAnchor, Factor, AnchorLost, anchorVars, Sides,
                     MatricesAnchored, MatricesInv
<1>7. CASE Evaluate
  BY <1>7, EvaluateRescales
<1>8. CASE BreakpointStep
  BY <1>8, BreakpointRescales
<1>9. CASE FullStep
  BY <1>9, Zenon DEF FullStep, walkVars, rankVars
<1>10. CASE StepNonFinite
  BY <1>10, Zenon DEF StepNonFinite, Fail, SetAnchor, Factor, AnchorLost, anchorVars, Sides,
                      MatricesAnchored, MatricesInv
<1>11. CASE ReleasePins
  BY <1>11, ReleaseRescales
<1>12. CASE CommitReanchor
  <2>1. \/ map' = map /\ \E p \in Sides : SetAnchor(p, map, TRUE, "iterate")
        \/ Fail("NonFinite", TRUE, TRUE)
    BY <1>12, Zenon DEF CommitReanchor
  <2>2. CASE map' = map /\ \E p \in Sides : SetAnchor(p, map, TRUE, "iterate")
    BY <2>2, Zenon DEF SetAnchor, Factor, Sides, MatricesAnchored, MatricesInv
  <2>3. CASE Fail("NonFinite", TRUE, TRUE)
    BY <2>3, Zenon DEF Fail, SetAnchor, Factor, AnchorLost, anchorVars, Sides,
                       MatricesAnchored, MatricesInv
  <2>4. QED
    BY <2>1, <2>2, <2>3
<1>13. CASE FinalRefresh
  <2>1. \/ map' = map /\ \E p \in Sides : SetAnchor(p, map, fullRank, "iterate")
        \/ Fail("NonFinite", TRUE, fullRank)
    BY <1>13, Zenon DEF FinalRefresh
  <2>2. CASE map' = map /\ \E p \in Sides : SetAnchor(p, map, fullRank, "iterate")
    BY <2>2, Zenon DEF SetAnchor, Factor, Sides, MatricesAnchored, MatricesInv
  <2>3. CASE Fail("NonFinite", TRUE, fullRank)
    BY <2>3, Zenon DEF Fail, SetAnchor, Factor, AnchorLost, anchorVars, Sides,
                       MatricesAnchored, MatricesInv
  <2>4. QED
    BY <2>1, <2>2, <2>3
<1>14. CASE Commit
  BY <1>14 DEF Commit, walkVars
<1>15. CASE StepCapHit
  BY <1>15, Zenon DEF StepCapHit, Fail, SetAnchor, Factor, AnchorLost, anchorVars, Sides,
                      MatricesAnchored, MatricesInv
<1>16. CASE RefreshCapHit
  BY <1>16, Zenon DEF RefreshCapHit, Fail, SetAnchor, Factor, AnchorLost, anchorVars, Sides,
                      MatricesAnchored, MatricesInv
<1>17. CASE StallRefresh
  <2>1. \/ map' = map /\ \E p \in Sides : SetAnchor(p, map, fullRank, "iterate")
        \/ Fail("NonFinite", TRUE, fullRank)
    BY <1>17, Zenon DEF StallRefresh
  <2>2. CASE map' = map /\ \E p \in Sides : SetAnchor(p, map, fullRank, "iterate")
    BY <2>2, Zenon DEF SetAnchor, Factor, Sides, MatricesAnchored, MatricesInv
  <2>3. CASE Fail("NonFinite", TRUE, fullRank)
    BY <2>3, Zenon DEF Fail, SetAnchor, Factor, AnchorLost, anchorVars, Sides,
                       MatricesAnchored, MatricesInv
  <2>4. QED
    BY <2>1, <2>2, <2>3
<1>18. CASE KeepIterating
  BY <1>18, Zenon DEF KeepIterating, walkVars, rankVars
<1>19. CASE UNCHANGED vars
  BY <1>19, Zenon DEF vars
<1>20. QED
  BY <1>1, <1>2, <1>3, <1>4, <1>5, <1>6, <1>7, <1>8, <1>9, <1>10, <1>11, <1>12, <1>13,
     <1>14, <1>15, <1>16, <1>17, <1>18, <1>19 DEF Next, Step
\* The rest of the state.
ControlInv ==
    /\ pc \in {"idle", "walk", "solve", "settled", "unsettled", "stalled"}
    /\ status \in Statuses
    /\ at \in [Rows -> Nat]
    /\ fullRank \in BOOLEAN /\ hist \in BOOLEAN
    /\ driftRefreshed \in BOOLEAN /\ finalDone \in BOOLEAN

LEMMA NoSidesTyped == NoSides \in [Rows -> Nat]
  BY DEF NoSides

LEMMA ControlStep == ControlInv /\ [Next]_vars => ControlInv'
<1> SUFFICES ASSUME ControlInv, [Next]_vars
             PROVE  ControlInv'
  OBVIOUS
<1> USE NoSidesTyped DEF ControlInv, Statuses
<1>1. CASE BeginTick
  BY <1>1, Zenon DEF BeginTick
<1>2. CASE BeginDriftedTick
  BY <1>2, Zenon DEF BeginDriftedTick
<1>3. CASE DriftRefreshFails
  BY <1>3, Zenon DEF DriftRefreshFails
<1>4. CASE SetBands
  BY <1>4, Zenon DEF SetBands, tickVars
<1>5. CASE Resync
  BY <1>5, Zenon DEF Resync, tickVars
<1>6. CASE EvaluateFails
  BY <1>6, Zenon DEF EvaluateFails, Fail, tickVars
<1>7. CASE Evaluate
  <2>1. PICK q \in Readings : at' = [k \in Rows |-> q[k].piece]
    BY <1>7, Zenon DEF Evaluate
  <2>2. at' \in [Rows -> Nat]
    BY <2>1 DEF Readings
  <2>3. hist' \in BOOLEAN
    BY <1>7, Zenon DEF Evaluate
  <2>4. QED
    BY <1>7, <2>2, <2>3, Zenon DEF Evaluate
<1>8. CASE BreakpointStep
  BY <1>8, Zenon DEF BreakpointStep
<1>9. CASE FullStep
  <2>1. pc' \in {"settled", "unsettled", "stalled"}
    BY <1>9 DEF FullStep
  <2>2. QED
    BY <1>9, <2>1, Zenon DEF FullStep
<1>10. CASE StepNonFinite
  BY <1>10, Zenon DEF StepNonFinite, Fail
<1>11. CASE ReleasePins
  BY <1>11, Zenon DEF ReleasePins
<1>12. CASE CommitReanchor
  BY <1>12, Zenon DEF CommitReanchor, Fail
<1>13. CASE FinalRefresh
  BY <1>13, Zenon DEF FinalRefresh, Fail
<1>14. CASE Commit
  BY <1>14, Zenon DEF Commit, tickVars
<1>15. CASE StepCapHit
  BY <1>15, Zenon DEF StepCapHit, Fail, tickVars
<1>16. CASE RefreshCapHit
  BY <1>16, Zenon DEF RefreshCapHit, Fail, tickVars
<1>17. CASE StallRefresh
  BY <1>17, Zenon DEF StallRefresh, Fail
<1>18. CASE KeepIterating
  BY <1>18, Zenon DEF KeepIterating
<1>19. CASE UNCHANGED vars
  BY <1>19, Zenon DEF vars
<1>20. QED
  BY <1>1, <1>2, <1>3, <1>4, <1>5, <1>6, <1>7, <1>8, <1>9, <1>10, <1>11, <1>12, <1>13,
     <1>14, <1>15, <1>16, <1>17, <1>18, <1>19 DEF Next, Step

LEMMA ControlInit == Init => ControlInv
  BY NoSidesTyped, Zenon DEF Init, ControlInv, Statuses

LEMMA MatricesInit == Init => MatricesInv
<1> SUFFICES ASSUME Init
             PROVE  MatricesInv
  OBVIOUS
<1>1. RowsInv
  BY RowsInit
<1>2. PICK p \in Sides : jCur = [k \in Rows |-> S(k, p[k])]
  BY Zenon DEF Init
<1>3. jRef = [k \in Rows |-> band[k].slopeRef] /\ op = jCur
  BY Zenon DEF Init
<1>4. \A k \in Rows : S(k, p[k]) \in Slopes
  BY <1>1, SlopesTyped DEF RowsInv, Sides, SidesOf, S
<1>5. jRef \in [Rows -> Slopes]
  BY <1>1, <1>3 DEF RowsInv, BandRow
<1>6. jCur \in [Rows -> Slopes]
  BY <1>2, <1>4
<1>7. truncated \in BOOLEAN /\ anchorWeak \in 0..MaxWeak /\ anchorOf = "solution"
  BY Zenon DEF Init
<1>8. QED
  BY <1>3, <1>5, <1>6, <1>7, Zenon DEF MatricesInv

\* Every variable keeps its type: above all n_pinned_ never goes below zero, every piece on
\* record is one of the row's map, and no row is re-scaled from a zero reference slope.
THEOREM TypeCorrect == Spec => []TypeOK
<1> DEFINE Inv == BudgetsInv /\ RowsInv /\ MatricesInv /\ ControlInv
<1>1. Init => Inv
  BY BudgetsInit, RowsInit, MatricesInit, ControlInit
<1>2. Inv /\ [Next]_vars => Inv'
  BY BudgetsStep, RowsStep, MatricesStep, ControlStep
<1>3. Inv => TypeOK
  <2>1. RowsInv => nPinned \in Nat
    BY PinnedFinite, FS_CardinalityType DEF RowsInv
  <2>2. QED
    BY <2>1, Zenon DEF BudgetsInv, CountersOK, RowsInv, MatricesInv, ControlInv, TypeOK
<1>4. QED
  BY <1>1, <1>2, <1>3, PTL DEF Spec
----------------------------------------------------------------------------
(* The walk cannot cycle on one kink.                                      *)

\* What RePinIsFinal says of one step.
KeepsReleasedPins ==
    \A k \in Rows :
        pc # "idle" /\ band[k].releases >= 1 /\ band[k].pin >= 0 /\ band'[k].pin < 0
            => pc' = "idle" \/ refreshes' > refreshes

LEMMA ReleasedPinsStep ==
  RowsInv /\ CountersOK /\ [Next]_vars => KeepsReleasedPins
<1> SUFFICES ASSUME RowsInv, CountersOK, [Next]_vars, NEW k \in Rows, pc # "idle",
                    band[k].releases >= 1, band[k].pin >= 0, band'[k].pin < 0,
                    pc' # "idle"
             PROVE  refreshes' > refreshes
  BY DEF KeepsReleasedPins
<1>0. band[k] \in BandRow /\ band' # band
  BY DEF RowsInv, BandRow
<1>1. ~BeginTick /\ ~BeginDriftedTick /\ ~DriftRefreshFails /\ ~SetBands /\ ~Resync
  BY DEF BeginTick, BeginDriftedTick, DriftRefreshFails, SetBands, Resync
<1>2. ~EvaluateFails /\ ~StepNonFinite /\ ~StepCapHit /\ ~RefreshCapHit /\ ~Commit
  BY DEF EvaluateFails, StepNonFinite, StepCapHit, RefreshCapHit, Commit, Fail
<1>3. ~FullStep /\ ~KeepIterating /\ ~UNCHANGED vars
  BY <1>0 DEF FullStep, KeepIterating, walkVars, vars
<1>4. CASE Evaluate
  <2>1. PICK q \in Readings :
         band' = [j \in Rows |->
                    IF Reconciled(j, q)
                    THEN [band[j] EXCEPT !.piece = q[j].piece, !.onedge = FALSE,
                                         !.slopeCur = S(j, q[j].piece)]
                    ELSE band[j]]
    BY <1>4, Zenon DEF Evaluate
  <2>2. ~Reconciled(k, q)
    BY <1>0 DEF Reconciled, BandRow
  <2>3. band'[k] = band[k]
    BY <2>1, <2>2
  <2>4. QED
    BY <1>0, <2>3 DEF BandRow
<1>5. CASE BreakpointStep
  <2>1. PICK j \in Rows : \E into : band[j].pin < 0 /\ SwitchRow(j, into)
    BY <1>5, Zenon DEF BreakpointStep
  <2>2. PICK into : band[j].pin < 0 /\ band' = [band EXCEPT ![j] = Switched(j, into)]
    BY <2>1, Zenon DEF SwitchRow
  <2>3. band'[k] = band[k]
    BY <1>0, <2>2 DEF RowsInv, BandRow
  <2>4. QED
    BY <1>0, <2>3 DEF BandRow
<1>6. CASE ReleasePins
  <2>1. PICK released \in (SUBSET {j \in Rows : band[j].pin >= 0 /\ band[j].releases = 0}) \ {{}} :
          \E above \in [released -> {0, 1}] :
             band' = [j \in Rows |-> IF j \in released THEN Released(j, band[j].pin + above[j])
                                                       ELSE band[j]]
    BY <1>6, Zenon DEF ReleasePins
  <2>2. k \notin released
    BY <1>0, <2>1 DEF BandRow
  <2>3. band'[k] = band[k]
    BY <2>1, <2>2
  <2>4. QED
    BY <1>0, <2>3 DEF BandRow
<1>7. CASE CommitReanchor
  <2>1. pc' = "idle" \/ refreshes' = refreshes + 1
    BY <1>7, Zenon DEF CommitReanchor, Fail
  <2>2. QED
    BY <2>1 DEF CountersOK
<1>8. CASE FinalRefresh
  <2>1. pc' = "idle" \/ refreshes' = refreshes + 1
    BY <1>8, Zenon DEF FinalRefresh, Fail
  <2>2. QED
    BY <2>1 DEF CountersOK
<1>9. CASE StallRefresh
  <2>1. pc' = "idle" \/ refreshes' = refreshes + 1
    BY <1>9, Zenon DEF StallRefresh, Fail
  <2>2. QED
    BY <2>1 DEF CountersOK
<1>10. QED
  BY <1>1, <1>2, <1>3, <1>4, <1>5, <1>6, <1>7, <1>8, <1>9 DEF Next, Step

\* verify_pins() (streaming.hpp 772, 796) releases a row once: a row pinned again after its
\* release keeps its pin to the end of the tick or the next anchor.
THEOREM RePinsAreFinal == Spec => RePinIsFinal
<1> DEFINE Inv == BudgetsInv /\ RowsInv
<1>1. Init => Inv
  BY BudgetsInit, RowsInit
<1>2. Inv /\ [Next]_vars => Inv'
  BY BudgetsStep, RowsStep
<1>3. Inv /\ [Next]_vars => [KeepsReleasedPins]_vars
  BY ReleasedPinsStep DEF BudgetsInv
<1>4. [KeepsReleasedPins]_vars <=>
         [\A k \in Rows :
             pc # "idle" /\ band[k].releases >= 1 /\ band[k].pin >= 0 /\ band'[k].pin < 0
                => pc' = "idle" \/ refreshes' > refreshes]_vars
  BY DEF KeepsReleasedPins
<1>5. QED
  BY <1>1, <1>2, <1>3, <1>4, PTL DEF Spec, RePinIsFinal
----------------------------------------------------------------------------
(* The chain of re-scales.                                                 *)

\* No Jacobian is lost: the one failure that leaves J_ref_ a copy of the installed rows
\* without the records following (set_anchor(), streaming.hpp 838-842).
NoLostJacobian == ~JacobianMayFail /\ ~RestoreMayFail

\* The operator, the installed row and the record agree on every row, and J_ref_ is still
\* the row at the reference slope every re-scale starts from.
ScalesInv ==
    \A k \in Rows :
        /\ op[k] = jCur[k]
        /\ band[k].active => jCur[k] = band[k].slopeCur /\ jRef[k] = band[k].slopeRef

\* A re-scale of active rows that the records follow.
FollowedBy(new) ==
    /\ DOMAIN new \subseteq {k \in Rows : band[k].active}
    /\ \A k \in DOMAIN new : new[k] \in Slopes
    /\ Rescale(new)
    /\ \A k \in Rows :
          /\ band'[k].active = band[k].active /\ band'[k].slopeRef = band[k].slopeRef
          /\ band'[k].slopeCur = IF k \in DOMAIN new THEN new[k] ELSE band[k].slopeCur

ScalesFollowed == \E new : FollowedBy(new)

\* A step that leaves the matrices and the slopes on record alone.
ScalesKept ==
    /\ UNCHANGED <<jRef, jCur, op>>
    /\ \A k \in Rows : /\ band'[k].active = band[k].active
                       /\ band'[k].slopeRef = band[k].slopeRef
                       /\ band'[k].slopeCur = band[k].slopeCur

\* A step that takes a new anchor.
ScalesAnchored ==
    \E p \in SidesOf(map') :
        /\ band' = [k \in Rows |-> AnchoredBand(k, p[k], map'[k].s[p[k]])]
        /\ jRef' = [k \in Rows |-> band'[k].slopeRef]
        /\ jCur' = [k \in Rows |-> map'[k].s[p[k]]]
        /\ op' = jCur'

LEMMA ScalesInit == Init => ScalesInv
<1> SUFFICES ASSUME Init
             PROVE  ScalesInv
  OBVIOUS
<1>1. PICK p \in Sides : /\ band = [k \in Rows |-> AnchoredBand(k, p[k], S(k, p[k]))]
                         /\ jCur = [k \in Rows |-> S(k, p[k])]
  BY Zenon DEF Init
<1>2. jRef = [k \in Rows |-> band[k].slopeRef] /\ op = jCur
  BY Zenon DEF Init
<1>3. QED
  BY <1>1, <1>2 DEF ScalesInv, AnchoredBand

LEMMA KeptScalesInv == ScalesInv /\ ScalesKept => ScalesInv'
  BY DEF ScalesInv, ScalesKept

LEMMA AnchoredScalesInv == ScalesAnchored => ScalesInv'
<1> SUFFICES ASSUME ScalesAnchored
             PROVE  ScalesInv'
  OBVIOUS
<1>1. PICK p \in SidesOf(map') :
        /\ band' = [k \in Rows |-> AnchoredBand(k, p[k], map'[k].s[p[k]])]
        /\ jRef' = [k \in Rows |-> band'[k].slopeRef]
        /\ jCur' = [k \in Rows |-> map'[k].s[p[k]]]
        /\ op' = jCur'
  BY DEF ScalesAnchored
<1>2. QED
  BY <1>1 DEF ScalesInv, AnchoredBand

\* Taking a row from the slope it is at to a new one gives the row at the new slope.
LEMMA RescaledFromItself ==
  ASSUME NEW s \in Slopes, NEW new \in Slopes, s # Zero
  PROVE  Rescaled(s, new, s) = new
  BY DEF Rescaled, Slopes

\* Whatever rows a fallback factorisation covers, the operator lands on the new rows: a
\* rank-one update starts from a row the operator agrees with, at a slope that is not zero.
LEMMA FollowedScalesInv == RowsInv /\ ScalesInv /\ ScalesFollowed => ScalesInv'
<1> SUFFICES ASSUME RowsInv, ScalesInv, NEW new, FollowedBy(new)
             PROVE  ScalesInv'
  BY DEF ScalesFollowed
<1>1. /\ \A k \in DOMAIN new : k \in Rows /\ band[k].active /\ new[k] \in Slopes
      /\ \A k \in Rows :
            /\ band'[k].active = band[k].active /\ band'[k].slopeRef = band[k].slopeRef
            /\ band'[k].slopeCur = IF k \in DOMAIN new THEN new[k] ELSE band[k].slopeCur
  BY DEF FollowedBy
<1>2. /\ jCur' = [k \in Rows |-> IF k \in DOMAIN new
                                 THEN Rescaled(jRef[k], new[k], band[k].slopeRef)
                                 ELSE jCur[k]]
      /\ \E refactored \in SUBSET DOMAIN new :
            /\ \A k \in DOMAIN new : MustFactor(k, new[k]) => k \in refactored
            /\ op' = OperatorAfter(new, refactored)
      /\ jRef' = jRef
  BY Zenon DEF FollowedBy, Rescale
<1>3. PICK refactored \in SUBSET DOMAIN new :
            /\ \A k \in DOMAIN new : MustFactor(k, new[k]) => k \in refactored
            /\ op' = OperatorAfter(new, refactored)
  BY <1>2
<1>4. ASSUME NEW k \in Rows
      PROVE  jCur'[k] = IF k \in DOMAIN new THEN new[k] ELSE jCur[k]
  <2>1. CASE k \in DOMAIN new
    <3>1. jRef[k] = band[k].slopeRef /\ band[k].slopeRef \in Slopes /\ band[k].slopeRef # Zero
      BY <1>1, <2>1 DEF ScalesInv, RowsInv, BandRow
    <3>2. Rescaled(jRef[k], new[k], band[k].slopeRef) = new[k]
      BY <1>1, <2>1, <3>1, RescaledFromItself
    <3>3. QED
      BY <1>2, <2>1, <3>2
  <2>2. CASE k \notin DOMAIN new
    BY <1>2, <2>2
  <2>3. QED
    BY <2>1, <2>2
<1>5. ASSUME NEW k \in Rows
      PROVE  op'[k] = jCur'[k]
  <2> DEFINE rankOne == {j \in DOMAIN new \ refactored : \A f \in refactored : f < j}
             base == IF refactored = {} THEN op ELSE jCur
  <2>1. op' = [j \in Rows |->
                 IF j \in rankOne THEN Rescaled(base[j], new[j], band[j].slopeCur)
                 ELSE IF refactored = {} THEN op[j] ELSE jCur'[j]]
    BY <1>3, Zenon DEF OperatorAfter
  <2>2. CASE k \in rankOne
    <3>1. k \in DOMAIN new /\ band[k].slopeCur # Zero
      BY <1>3, <2>2 DEF MustFactor
    <3>2. base[k] = band[k].slopeCur /\ band[k].slopeCur \in Slopes
      BY <1>1, <3>1 DEF ScalesInv, RowsInv, BandRow
    <3>3. Rescaled(base[k], new[k], band[k].slopeCur) = new[k]
      BY <1>1, <3>1, <3>2, RescaledFromItself
    <3>4. QED
      BY <1>4, <2>1, <2>2, <3>1, <3>3
  <2>3. CASE k \notin rankOne /\ refactored = {}
    <3>1. k \notin DOMAIN new
      BY <2>3
    <3>2. QED
      BY <1>4, <2>1, <2>3, <3>1 DEF ScalesInv
  <2>4. CASE k \notin rankOne /\ refactored # {}
    BY <2>1, <2>4
  <2>5. QED
    BY <2>2, <2>3, <2>4
<1>6. QED
  BY <1>1, <1>2, <1>4, <1>5 DEF ScalesInv

\* track_bands() re-scales the rows whose slope moved, and records it.
LEMMA EvaluateFollows == RowsInv /\ Evaluate => ScalesFollowed
<1> SUFFICES ASSUME RowsInv, Evaluate
             PROVE  ScalesFollowed
  OBVIOUS
<1>1. PICK q \in Readings :
         LET moved == {j \in Rows : Reconciled(j, q) /\ S(j, q[j].piece) # band[j].slopeCur}
         IN  /\ band' = [k \in Rows |->
                            IF Reconciled(k, q)
                            THEN [band[k] EXCEPT !.piece = q[k].piece, !.onedge = FALSE,
                                                 !.slopeCur = S(k, q[k].piece)]
                            ELSE band[k]]
             /\ Rescale([k \in moved |-> S(k, q[k].piece)])
  BY Zenon DEF Evaluate
<1> DEFINE moved == {j \in Rows : Reconciled(j, q) /\ S(j, q[j].piece) # band[j].slopeCur}
           new == [k \in moved |-> S(k, q[k].piece)]
<1>2. /\ band' = [k \in Rows |->
                     IF Reconciled(k, q)
                     THEN [band[k] EXCEPT !.piece = q[k].piece, !.onedge = FALSE,
                                          !.slopeCur = S(k, q[k].piece)]
                     ELSE band[k]]
      /\ Rescale(new)
  BY <1>1
<1>3. \A k \in Rows : S(k, q[k].piece) \in Slopes /\ (Reconciled(k, q) => band[k].active)
  BY SlopesTyped DEF Readings, Pieces, S, RowsInv, Reconciled
<1>4. /\ DOMAIN new \subseteq {k \in Rows : band[k].active}
      /\ \A k \in DOMAIN new : new[k] \in Slopes
  BY <1>3
<1>5. ASSUME NEW k \in Rows
      PROVE  /\ band'[k].active = band[k].active /\ band'[k].slopeRef = band[k].slopeRef
             /\ band'[k].slopeCur = IF k \in DOMAIN new THEN new[k] ELSE band[k].slopeCur
  <2>1. band[k] \in BandRow
    BY DEF RowsInv
  <2>2. CASE Reconciled(k, q)
    <3>1. band'[k] = [band[k] EXCEPT !.piece = q[k].piece, !.onedge = FALSE,
                                     !.slopeCur = S(k, q[k].piece)]
      BY <1>2, <2>2
    <3>2. /\ band'[k].active = band[k].active /\ band'[k].slopeRef = band[k].slopeRef
          /\ band'[k].slopeCur = S(k, q[k].piece)
      BY <2>1, <3>1 DEF BandRow
    <3>3. QED
      BY <2>2, <3>2
  <2>3. CASE ~Reconciled(k, q)
    BY <1>2, <2>3
  <2>4. QED
    BY <2>2, <2>3
<1>6. FollowedBy(new)
  BY <1>2, <1>4, <1>5, Zenon DEF FollowedBy
<1>7. QED
  BY <1>6, Zenon DEF ScalesFollowed

\* switch_row() re-scales its row to the slope it records: the piece entered, or the pin.
LEMMA BreakpointFollows == RowsInv /\ BreakpointStep => ScalesFollowed
<1> SUFFICES ASSUME RowsInv, BreakpointStep
             PROVE  ScalesFollowed
  OBVIOUS
<1>1. PICK k \in Rows : \E into \in {band[k].piece - 1, band[k].piece + 1} \cap Pieces(k) :
         band[k].active /\ SwitchRow(k, into)
  BY Zenon DEF BreakpointStep
<1>2. PICK into \in {band[k].piece - 1, band[k].piece + 1} \cap Pieces(k) :
         band[k].active /\ SwitchRow(k, into)
  BY <1>1
<1>3. /\ band[k] \in BandRow /\ S(k, into) \in Slopes /\ PinScale \in Slopes
      /\ band \in [Rows -> BandRow]
  BY SlopesTyped, StreamerAssumption DEF StreamerAssumption, Slopes, RowsInv, Pieces, S
<1>4. /\ Switched(k, into).slopeCur \in Slopes
      /\ Switched(k, into).active = band[k].active
      /\ Switched(k, into).slopeRef = band[k].slopeRef
  BY <1>3 DEF Switched, BandRow
<1> DEFINE new == [j \in {k} |-> Switched(k, into).slopeCur]
<1>5. band' = [band EXCEPT ![k] = Switched(k, into)] /\ Rescale(new)
  BY <1>2, Zenon DEF SwitchRow
<1>6. /\ DOMAIN new \subseteq {j \in Rows : band[j].active}
      /\ \A j \in DOMAIN new : new[j] \in Slopes
  BY <1>2, <1>4
<1>7. \A j \in Rows :
         /\ band'[j].active = band[j].active /\ band'[j].slopeRef = band[j].slopeRef
         /\ band'[j].slopeCur = IF j \in DOMAIN new THEN new[j] ELSE band[j].slopeCur
  BY <1>3, <1>4, <1>5
<1>8. FollowedBy(new)
  BY <1>5, <1>6, <1>7, Zenon DEF FollowedBy
<1>9. QED
  BY <1>8, Zenon DEF ScalesFollowed

\* verify_pins() re-scales every released row to the slope of the piece it is let go onto.
LEMMA ReleaseFollows == RowsInv /\ ReleasePins => ScalesFollowed
<1> SUFFICES ASSUME RowsInv, ReleasePins
             PROVE  ScalesFollowed
  OBVIOUS
<1>1. PICK released \in (SUBSET {k \in Rows : band[k].pin >= 0 /\ band[k].releases = 0}) \ {{}} :
         \E above \in [released -> {0, 1}] :
            /\ band' = [k \in Rows |->
                          IF k \in released THEN Released(k, band[k].pin + above[k]) ELSE band[k]]
            /\ Rescale([k \in released |-> S(k, band[k].pin + above[k])])
  BY Zenon DEF ReleasePins
<1>2. PICK above \in [released -> {0, 1}] :
            /\ band' = [k \in Rows |->
                          IF k \in released THEN Released(k, band[k].pin + above[k]) ELSE band[k]]
            /\ Rescale([k \in released |-> S(k, band[k].pin + above[k])])
  BY <1>1
<1> DEFINE new == [k \in released |-> S(k, band[k].pin + above[k])]
<1>3. ASSUME NEW k \in released
      PROVE  k \in Rows /\ band[k].active /\ new[k] \in Slopes
  <2>1. k \in Rows /\ band[k].pin >= 0
    BY <1>1
  <2>2. above[k] \in {0, 1} /\ map[k].n \in Nat /\ band[k] \in BandRow
    BY <1>2, <1>3, <2>1, SlopesTyped DEF RowsInv
  <2>3. band[k].pin + 1 \in Pieces(k) /\ band[k].active
    BY <2>1 DEF RowsInv
  <2>4. band[k].pin + above[k] \in Pieces(k)
    BY <2>1, <2>2, <2>3 DEF Pieces, BandRow
  <2>5. S(k, band[k].pin + above[k]) \in Slopes
    BY <2>1, <2>4, SlopesTyped DEF RowsInv, Pieces, S
  <2>6. QED
    BY <1>3, <2>1, <2>3, <2>5
<1>4. /\ DOMAIN new \subseteq {k \in Rows : band[k].active}
      /\ \A k \in DOMAIN new : new[k] \in Slopes
  BY <1>3
<1>5. ASSUME NEW k \in Rows
      PROVE  /\ band'[k].active = band[k].active /\ band'[k].slopeRef = band[k].slopeRef
             /\ band'[k].slopeCur = IF k \in DOMAIN new THEN new[k] ELSE band[k].slopeCur
  <2>1. band[k] \in BandRow
    BY DEF RowsInv
  <2>2. CASE k \in released
    <3>1. band'[k] = Released(k, band[k].pin + above[k])
      BY <1>2, <2>2
    <3>2. /\ band'[k].active = band[k].active /\ band'[k].slopeRef = band[k].slopeRef
          /\ band'[k].slopeCur = S(k, band[k].pin + above[k])
      BY <2>1, <3>1 DEF Released, BandRow
    <3>3. QED
      BY <2>2, <3>2
  <2>3. CASE k \notin released
    BY <1>2, <2>3
  <2>4. QED
    BY <2>2, <2>3
<1>6. FollowedBy(new)
  BY <1>2, <1>4, <1>5, Zenon DEF FollowedBy
<1>7. QED
  BY <1>6, Zenon DEF ScalesFollowed

\* Without a lost Jacobian a failed tick leaves the anchor alone or takes it at the last
\* committed solution.
LEMMA FailScales ==
  ASSUME NoLostJacobian, NEW why, NEW full, Fail(why, FALSE, full)
  PROVE  map' = map /\ (ScalesAnchored \/ ScalesKept)
<1>1. map' = map
  BY DEF Fail
<1>2. \/ \E p \in Sides : SetAnchor(p, map, full, "solution")
      \/ UNCHANGED anchorVars
  BY Zenon DEF Fail, NoLostJacobian
<1>3. CASE \E p \in Sides : SetAnchor(p, map, full, "solution")
  BY <1>1, <1>3, Zenon DEF SetAnchor, Sides, ScalesAnchored
<1>4. CASE UNCHANGED anchorVars
  BY <1>1, <1>4 DEF anchorVars, ScalesKept
<1>5. QED
  BY <1>1, <1>2, <1>3, <1>4

LEMMA ScalesSteps ==
  NoLostJacobian /\ RowsInv /\ [Next]_vars => ScalesKept \/ ScalesAnchored \/ ScalesFollowed
<1> SUFFICES ASSUME NoLostJacobian, RowsInv, [Next]_vars
             PROVE  ScalesKept \/ ScalesAnchored \/ ScalesFollowed
  OBVIOUS
<1>0. ~JacobianMayFail /\ ~RestoreMayFail
  BY DEF NoLostJacobian
<1>1. CASE BeginTick
  <2>1. /\ band' = [k \in Rows |-> [band[k] EXCEPT !.flips = 0, !.releases = 0]]
        /\ UNCHANGED <<jRef, jCur, op>>
    BY <1>1 DEF BeginTick
  <2>2. QED
    BY <2>1 DEF ScalesKept, RowsInv, BandRow
<1>2. CASE BeginDriftedTick
  BY <1>2, Zenon DEF BeginDriftedTick, SetAnchor, Sides, ScalesAnchored
<1>3. CASE DriftRefreshFails
  BY <1>0, <1>3 DEF DriftRefreshFails
<1>4. CASE SetBands
  <2>1. PICK moved : band' = [k \in Rows |->
                        IF k \in moved THEN [band[k] EXCEPT !.pin = -1, !.onedge = FALSE]
                                       ELSE band[k]]
    BY <1>4, Zenon DEF SetBands
  <2>2. UNCHANGED <<jRef, jCur, op>>
    BY <1>4, Zenon DEF SetBands
  <2>3. QED
    BY <2>1, <2>2 DEF ScalesKept, RowsInv, BandRow
<1>5. CASE Resync
  BY <1>0, <1>5, Zenon DEF Resync, SetAnchor, ScalesAnchored
<1>6. CASE EvaluateFails
  <2>1. \E why : Fail(why, FALSE, fullRank)
    BY <1>6, Zenon DEF EvaluateFails
  <2>2. QED
    BY <2>1, FailScales
<1>7. CASE Evaluate
  BY <1>7, EvaluateFollows
<1>8. CASE BreakpointStep
  BY <1>8, BreakpointFollows
<1>9. CASE FullStep
  BY <1>9 DEF FullStep, walkVars, ScalesKept
<1>10. CASE StepNonFinite
  BY <1>10, FailScales DEF StepNonFinite
<1>11. CASE ReleasePins
  BY <1>11, ReleaseFollows
<1>12. CASE CommitReanchor
  BY <1>0, <1>12, Zenon DEF CommitReanchor, SetAnchor, Sides, ScalesAnchored
<1>13. CASE FinalRefresh
  BY <1>0, <1>13, Zenon DEF FinalRefresh, SetAnchor, Sides, ScalesAnchored
<1>14. CASE Commit
  BY <1>14 DEF Commit, walkVars, ScalesKept
<1>15. CASE StepCapHit
  BY <1>15, FailScales DEF StepCapHit
<1>16. CASE RefreshCapHit
  BY <1>16, FailScales DEF RefreshCapHit
<1>17. CASE StallRefresh
  BY <1>0, <1>17, Zenon DEF StallRefresh, SetAnchor, Sides, ScalesAnchored
<1>18. CASE KeepIterating
  BY <1>18 DEF KeepIterating, walkVars, ScalesKept
<1>19. CASE UNCHANGED vars
  BY <1>19 DEF vars, ScalesKept
<1>20. QED
  BY <1>1, <1>2, <1>3, <1>4, <1>5, <1>6, <1>7, <1>8, <1>9, <1>10, <1>11, <1>12, <1>13,
     <1>14, <1>15, <1>16, <1>17, <1>18, <1>19 DEF Next, Step

LEMMA ScalesStep == NoLostJacobian /\ RowsInv /\ ScalesInv /\ [Next]_vars => ScalesInv'
  BY ScalesSteps, KeptScalesInv, AnchoredScalesInv, FollowedScalesInv

\* The operator never drifts from the installed rows nor the rows from the slopes on record
\* (rescale_row() and rank_one_update(), streaming.hpp 907-925): whatever the mixture of
\* rank-one updates and fallback factorisations, of walks, pins, releases, requotes and
\* re-anchors, so long as no Jacobian is lost.
THEOREM OperatorHolds ==
  ASSUME NoLostJacobian
  PROVE  Spec => []OperatorMatchesRows
<1> DEFINE Inv == RowsInv /\ ScalesInv
<1>1. Init => Inv
  BY RowsInit, ScalesInit
<1>2. Inv /\ [Next]_vars => Inv'
  BY RowsStep, ScalesStep
<1>3. Inv => OperatorMatchesRows
  BY DEF ScalesInv, OperatorMatchesRows
<1>4. QED
  BY <1>1, <1>2, <1>3, PTL DEF Spec

----------------------------------------------------------------------------
(* The frozen system a step is solved with.                                *)

\* The slopes of a row's map: a slope for every piece, none as steep as a pin.
LEMMA SlopesNotPins ==
  ASSUME NEW m \in MapsOfRows, NEW k \in Rows, NEW i \in 0..m[k].n
  PROVE  m[k].s[i] # PinScale
  BY MapsAssumption DEF MapsAssumption, MapsOfRows

Free(k) == band[k].active /\ band[k].pin < 0 /\ ~band[k].onedge

\* A step is solved right after track_bands(): the record of every free row is the slope of
\* the piece its model value was read on.
PieceInv ==
    pc = "solve" =>
        \A k \in Rows : Free(k) => at[k] \in Pieces(k) /\ band[k].slopeCur = S(k, at[k])

LEMMA EvaluatePiece == RowsInv /\ Evaluate => PieceInv'
<1> SUFFICES ASSUME RowsInv, Evaluate, NEW k \in Rows, Free(k)'
             PROVE  (at[k] \in Pieces(k) /\ band[k].slopeCur = S(k, at[k]))'
  BY DEF PieceInv
<1>1. PICK q \in Readings :
         /\ band' = [j \in Rows |->
                       IF Reconciled(j, q)
                       THEN [band[j] EXCEPT !.piece = q[j].piece, !.onedge = FALSE,
                                            !.slopeCur = S(j, q[j].piece)]
                       ELSE band[j]]
         /\ at' = [j \in Rows |-> q[j].piece]
  BY Zenon DEF Evaluate
<1>2. map' = map
  BY Zenon DEF Evaluate
<1>3. q[k].piece \in Pieces(k) /\ band[k] \in BandRow /\ at'[k] = q[k].piece
  BY <1>1 DEF Readings, RowsInv
<1>4. Reconciled(k, q)
  <2>1. SUFFICES ASSUME ~Reconciled(k, q)
                 PROVE  FALSE
    OBVIOUS
  <2>2. band'[k] = band[k]
    BY <1>1, <2>1
  <2>3. QED
    BY <2>1, <2>2 DEF Free, Reconciled
<1>5. band'[k] = [band[k] EXCEPT !.piece = q[k].piece, !.onedge = FALSE,
                                 !.slopeCur = S(k, q[k].piece)]
  BY <1>1, <1>4
<1>6. band'[k].slopeCur = S(k, q[k].piece)
  BY <1>3, <1>5 DEF BandRow
<1>7. QED
  BY <1>2, <1>3, <1>6 DEF Pieces, S

LEMMA PieceStep == RowsInv /\ PieceInv /\ [Next]_vars => PieceInv'
<1> SUFFICES ASSUME RowsInv, PieceInv, [Next]_vars
             PROVE  PieceInv'
  OBVIOUS
<1>1. CASE Evaluate
  BY <1>1, EvaluatePiece
<1>2. CASE UNCHANGED vars
  BY <1>2 DEF vars, PieceInv, Free, Pieces, S
<1>3. CASE FullStep
  <2>1. pc' \in {"settled", "unsettled", "stalled"}
    BY <1>3 DEF FullStep
  <2>2. QED
    BY <2>1 DEF PieceInv
<1>4. CASE Next /\ ~Evaluate /\ ~FullStep
  <2>1. pc' # "solve"
    BY <1>4, Zenon DEF Next, Step, BeginTick, BeginDriftedTick, DriftRefreshFails, SetBands,
          Resync, EvaluateFails, BreakpointStep, StepNonFinite, ReleasePins, CommitReanchor,
          FinalRefresh, Commit, StepCapHit, RefreshCapHit, StallRefresh, KeepIterating, Fail
  <2>2. QED
    BY <2>1 DEF PieceInv
<1>5. QED
  BY <1>1, <1>2, <1>3, <1>4

\* Every free row that is not sitting on a breakpoint enters the frozen system with the slope
\* of the piece its model value is really on (track_bands(), streaming.hpp 732-754), so long
\* as no Jacobian is lost.
THEOREM TruePieceUsed ==
  ASSUME NoLostJacobian
  PROVE  Spec => []StepUsesTruePiece
<1> DEFINE Inv == RowsInv /\ ScalesInv /\ PieceInv
<1>1. Init => Inv
  BY RowsInit, ScalesInit DEF Init, PieceInv
<1>2. Inv /\ [Next]_vars => Inv'
  BY RowsStep, ScalesStep, PieceStep
<1>3. Inv => StepUsesTruePiece
  BY DEF ScalesInv, PieceInv, Free, StepUsesTruePiece
<1>4. QED
  BY <1>1, <1>2, <1>3, PTL DEF Spec

\* A pinned row is on record at the pin weight, a row that left its breakpoint is not.
PinInv ==
    \A k \in Rows : band[k].active =>
        /\ band[k].pin >= 0 => band[k].slopeCur = PinScale
        /\ band[k].pin < 0 /\ band[k].onedge => band[k].slopeCur # PinScale

\* A row that is neither pinned nor on an edge.
Loose(b) == b.pin = -1 /\ ~b.onedge

\* A step that re-anchors every row, or gives it back as it was but for its counters.
PinsKept ==
    \A k \in Rows : \/ Loose(band'[k])
                    \/ /\ band'[k].active = band[k].active /\ band'[k].pin = band[k].pin
                       /\ band'[k].onedge = band[k].onedge
                       /\ band'[k].slopeCur = band[k].slopeCur

LEMMA PinsKeptInv == PinInv /\ PinsKept => PinInv'
<1> SUFFICES ASSUME PinInv, PinsKept, NEW k \in Rows, band'[k].active
             PROVE  /\ band'[k].pin >= 0 => band'[k].slopeCur = PinScale
                    /\ band'[k].pin < 0 /\ band'[k].onedge => band'[k].slopeCur # PinScale
  BY DEF PinInv
<1>1. CASE Loose(band'[k])
  BY <1>1 DEF Loose
<1>2. CASE ~Loose(band'[k])
  BY <1>2 DEF PinsKept, PinInv
<1>3. QED
  BY <1>1, <1>2

LEMMA BreakpointPins == RowsInv /\ PinInv /\ BreakpointStep => PinInv'
<1> SUFFICES ASSUME RowsInv, PinInv, BreakpointStep
             PROVE  PinInv'
  OBVIOUS
<1>1. PICK k \in Rows : \E into \in {band[k].piece - 1, band[k].piece + 1} \cap Pieces(k) :
         band[k].pin < 0 /\ SwitchRow(k, into)
  BY Zenon DEF BreakpointStep
<1>2. PICK into \in {band[k].piece - 1, band[k].piece + 1} \cap Pieces(k) :
         band[k].pin < 0 /\ SwitchRow(k, into)
  BY <1>1
<1>3. /\ band[k] \in BandRow /\ band \in [Rows -> BandRow]
      /\ S(k, into) # PinScale /\ band[k].piece \in Nat /\ into \in Nat
  BY <1>2, SlopesNotPins, SlopesTyped DEF RowsInv, Pieces, S, BandRow
<1>4. band' = [band EXCEPT ![k] = Switched(k, into)]
  BY <1>2, Zenon DEF SwitchRow
<1>5. CASE Pins(k)
  <2>1. Edge(k, into) >= 0 /\ Edge(k, into) \in Nat
    BY <1>3 DEF Edge
  <2>2. Switched(k, into).pin = Edge(k, into) /\ Switched(k, into).slopeCur = PinScale
    BY <1>3, <1>5 DEF Switched, BandRow
  <2>3. QED
    BY <1>3, <1>4, <2>1, <2>2 DEF PinInv
<1>6. CASE ~Pins(k)
  <2>1. Switched(k, into).pin = band[k].pin /\ Switched(k, into).slopeCur = S(k, into)
    BY <1>3, <1>6 DEF Switched, BandRow
  <2>2. QED
    BY <1>2, <1>3, <1>4, <2>1 DEF PinInv, BandRow
<1>7. QED
  BY <1>5, <1>6

LEMMA ReleasedPins == RowsInv /\ PinInv /\ ReleasePins => PinInv'
<1> SUFFICES ASSUME RowsInv, PinInv, ReleasePins
             PROVE  PinInv'
  OBVIOUS
<1>1. PICK released \in (SUBSET {k \in Rows : band[k].pin >= 0 /\ band[k].releases = 0}) \ {{}} :
         \E above \in [released -> {0, 1}] :
            band' = [k \in Rows |->
                       IF k \in released THEN Released(k, band[k].pin + above[k]) ELSE band[k]]
  BY Zenon DEF ReleasePins
<1>2. PICK above \in [released -> {0, 1}] :
            band' = [k \in Rows |->
                       IF k \in released THEN Released(k, band[k].pin + above[k]) ELSE band[k]]
  BY <1>1
<1>3. ASSUME NEW k \in released
      PROVE  band'[k].pin = -1 /\ band'[k].slopeCur # PinScale
  <2>1. k \in Rows /\ band[k].pin >= 0
    BY <1>1
  <2>2. /\ above[k] \in {0, 1} /\ map[k].n \in Nat /\ band[k] \in BandRow
        /\ band[k].pin + 1 \in Pieces(k)
    BY <1>2, <1>3, <2>1, SlopesTyped DEF RowsInv
  <2>3. band[k].pin + above[k] \in Pieces(k)
    BY <2>1, <2>2 DEF Pieces, BandRow
  <2>4. S(k, band[k].pin + above[k]) # PinScale
    BY <2>1, <2>3, SlopesNotPins DEF RowsInv, Pieces, S
  <2>5. band'[k] = Released(k, band[k].pin + above[k])
    BY <1>2, <2>1, <1>3
  <2>6. band'[k].pin = -1 /\ band'[k].slopeCur = S(k, band[k].pin + above[k])
    BY <2>2, <2>5 DEF Released, BandRow
  <2>7. QED
    BY <2>4, <2>6
<1>4. \A k \in Rows \ released : band'[k] = band[k]
  BY <1>2
<1>5. QED
  BY <1>3, <1>4 DEF PinInv

LEMMA AnchoredLoose ==
  ASSUME RowsAnchored
  PROVE  PinsKept
  BY DEF RowsAnchored, AnchoredBand, PinsKept, Loose

LEMMA FailPins ==
  ASSUME NEW why, NEW badJ, NEW full, Fail(why, badJ, full)
  PROVE  PinsKept
<1>1. band' = band \/ RowsAnchored
  BY DEF Fail, SetAnchor, AnchorLost, anchorVars, Sides, RowsAnchored
<1>2. QED
  BY <1>1, AnchoredLoose DEF PinsKept

LEMMA EvaluatePins == RowsInv /\ PinInv /\ Evaluate => PinInv'
<1> SUFFICES ASSUME RowsInv, PinInv, Evaluate
             PROVE  PinInv'
  OBVIOUS
<1>1. PICK q \in Readings :
         band' = [j \in Rows |->
                    IF Reconciled(j, q)
                    THEN [band[j] EXCEPT !.piece = q[j].piece, !.onedge = FALSE,
                                         !.slopeCur = S(j, q[j].piece)]
                    ELSE band[j]]
  BY Zenon DEF Evaluate
<1>2. ASSUME NEW k \in Rows, Reconciled(k, q)
      PROVE  band'[k].pin < 0 /\ ~(band'[k].pin >= 0) /\ ~band'[k].onedge
  <2>1. band[k] \in BandRow /\ band[k].pin < 0
    BY <1>2 DEF RowsInv, Reconciled
  <2>2. band'[k] = [band[k] EXCEPT !.piece = q[k].piece, !.onedge = FALSE,
                                   !.slopeCur = S(k, q[k].piece)]
    BY <1>1, <1>2
  <2>3. QED
    BY <2>1, <2>2 DEF BandRow
<1>3. \A k \in Rows : ~Reconciled(k, q) => band'[k] = band[k]
  BY <1>1
<1>4. QED
  BY <1>2, <1>3 DEF PinInv

LEMMA PinStep == RowsInv /\ PinInv /\ [Next]_vars => PinInv'
<1> SUFFICES ASSUME RowsInv, PinInv, [Next]_vars
             PROVE  PinInv'
  OBVIOUS
<1>1. CASE BreakpointStep
  BY <1>1, BreakpointPins
<1>2. CASE ReleasePins
  BY <1>2, ReleasedPins
<1>3. CASE Evaluate
  BY <1>3, EvaluatePins
<1>4. CASE BeginTick
  <2>1. band' = [k \in Rows |-> [band[k] EXCEPT !.flips = 0, !.releases = 0]]
    BY <1>4 DEF BeginTick
  <2>2. PinsKept
    BY <2>1 DEF PinsKept, RowsInv, BandRow
  <2>3. QED
    BY <2>2, PinsKeptInv
<1>5. CASE SetBands
  <2>1. PICK moved : band' = [k \in Rows |->
                        IF k \in moved THEN [band[k] EXCEPT !.pin = -1, !.onedge = FALSE]
                                       ELSE band[k]]
    BY <1>5, Zenon DEF SetBands
  <2>2. PinsKept
    BY <2>1 DEF PinsKept, Loose, RowsInv, BandRow
  <2>3. QED
    BY <2>2, PinsKeptInv
<1>6. CASE Resync
  <2>1. RowsAnchored \/ band' = [k \in Rows |-> FreshBand]
    BY <1>6 DEF Resync, SetAnchor, RowsAnchored
  <2>2. PinsKept
    BY <2>1, AnchoredLoose DEF FreshBand, PinsKept, Loose
  <2>3. QED
    BY <2>2, PinsKeptInv
<1>7. CASE EvaluateFails \/ StepNonFinite \/ StepCapHit \/ RefreshCapHit
  <2>1. \E why, badJ, full : Fail(why, badJ, full)
    BY <1>7, Zenon DEF EvaluateFails, StepNonFinite, StepCapHit, RefreshCapHit
  <2>2. QED
    BY <2>1, FailPins, PinsKeptInv
<1>8. CASE BeginDriftedTick \/ CommitReanchor \/ FinalRefresh \/ StallRefresh
  <2>1. \/ map' = map /\ \E p \in Sides : \E full, what : SetAnchor(p, map, full, what)
        \/ \E why, badJ, full : Fail(why, badJ, full)
    BY <1>8, Zenon DEF BeginDriftedTick, CommitReanchor, FinalRefresh, StallRefresh
  <2>2. CASE map' = map /\ \E p \in Sides : \E full, what : SetAnchor(p, map, full, what)
    <3>1. RowsAnchored
      BY <2>2 DEF SetAnchor, Sides, RowsAnchored
    <3>2. QED
      BY <3>1, AnchoredLoose, PinsKeptInv
  <2>3. QED
    BY <2>1, <2>2, FailPins, PinsKeptInv
<1>9. CASE DriftRefreshFails \/ FullStep \/ Commit \/ KeepIterating \/ UNCHANGED vars
  <2>1. band' = band
    BY <1>9 DEF DriftRefreshFails, FullStep, Commit, KeepIterating, AnchorLost, walkVars, vars
  <2>2. QED
    BY <2>1, PinsKeptInv DEF PinsKept
<1>10. QED
  BY <1>1, <1>2, <1>3, <1>4, <1>5, <1>6, <1>7, <1>8, <1>9 DEF Next, Step

\* When a step is solved a row is installed at the pin weight exactly when it is pinned
\* (switch_row() and verify_pins(), streaming.hpp 705-726, 756-807): a released or requoted
\* pin never stays in the system at kPinWeight.
THEOREM PinsAreInstalled ==
  ASSUME NoLostJacobian
  PROVE  Spec => []PinnedAtPinWeight
<1> DEFINE Inv == RowsInv /\ ScalesInv /\ PieceInv /\ PinInv
<1>1. Init => Inv
  <2>1. Init => PieceInv
    BY DEF Init, PieceInv
  <2>2. Init => PinInv
    BY DEF Init, PinInv, AnchoredBand
  <2>3. QED
    BY <2>1, <2>2, RowsInit, ScalesInit
<1>2. Inv /\ [Next]_vars => Inv'
  BY RowsStep, ScalesStep, PieceStep, PinStep
<1>3. Inv => PinnedAtPinWeight
  <2> SUFFICES ASSUME Inv, pc = "solve", NEW k \in Rows, band[k].active
               PROVE  band[k].pin >= 0 <=> jCur[k] = PinScale
    BY DEF PinnedAtPinWeight
  <2>1. band[k] \in BandRow /\ jCur[k] = band[k].slopeCur
    BY DEF RowsInv, ScalesInv
  <2>2. CASE Free(k)
    <3>1. band[k].slopeCur # PinScale
      BY <2>2, SlopesNotPins DEF PieceInv, RowsInv, Pieces, S
    <3>2. QED
      BY <2>1, <2>2, <3>1 DEF Free, BandRow
  <2>3. CASE ~Free(k)
    BY <2>1, <2>3 DEF Free, PinInv, BandRow
  <2>4. QED
    BY <2>2, <2>3
<1>4. QED
  BY <1>1, <1>2, <1>3, PTL DEF Spec

----------------------------------------------------------------------------
(* What the anchor was taken at.                                           *)

\* The Jacobian at the last committed solution is finite: the one fail() restores from and
\* resync() starts from (streaming.hpp 634-640, 224-235).
SolutionHasJacobian == ~RestoreMayFail

\* An anchor taken at an iterate is the work of a tick that is still running and has
\* counted it as a refresh.
AnchorInv ==
    /\ CountersOK
    /\ anchorOf \in {"solution", "iterate"}
    /\ anchorOf = "iterate" => pc # "idle" /\ refreshes > 0

LEMMA FailAnchor ==
  ASSUME SolutionHasJacobian, AnchorInv, NEW why, NEW badJ, NEW full, Fail(why, badJ, full)
  PROVE  anchorOf' = "solution"
<1>1. \/ \E p \in Sides : SetAnchor(p, map, full, "solution")
      \/ refreshes = 0 /\ anchorOf' = anchorOf
  BY Zenon DEF Fail, AnchorLost, anchorVars, SolutionHasJacobian
<1>2. QED
  BY <1>1 DEF SetAnchor, AnchorInv, CountersOK

LEMMA AnchorStep ==
  SolutionHasJacobian /\ BudgetsInv /\ BudgetsInv' /\ AnchorInv /\ [Next]_vars => AnchorInv'
<1> SUFFICES ASSUME SolutionHasJacobian, BudgetsInv, BudgetsInv', AnchorInv, [Next]_vars
             PROVE  AnchorInv'
  OBVIOUS
<1>0. CountersOK /\ CountersOK'
  BY DEF BudgetsInv
<1>1. SUFFICES \/ anchorOf' = "solution"
               \/ /\ anchorOf' \in {"solution", "iterate"}
                  /\ anchorOf' = "iterate" => pc' # "idle" /\ refreshes' > 0
  BY <1>0 DEF AnchorInv
<1>2. CASE EvaluateFails \/ StepNonFinite \/ StepCapHit \/ RefreshCapHit
  <2>1. \E why, badJ, full : Fail(why, badJ, full)
    BY <1>2, Zenon DEF EvaluateFails, StepNonFinite, StepCapHit, RefreshCapHit
  <2>2. QED
    BY <2>1, FailAnchor
<1>3. CASE CommitReanchor \/ FinalRefresh \/ StallRefresh
  <2>1. \/ \E why, badJ, full : Fail(why, badJ, full)
        \/ pc' = "walk" /\ refreshes' = refreshes + 1 /\ anchorOf' = "iterate"
    BY <1>3, Zenon DEF CommitReanchor, FinalRefresh, StallRefresh, SetAnchor
  <2>2. QED
    BY <1>0, <2>1, FailAnchor DEF CountersOK
<1>4. CASE BeginDriftedTick
  BY <1>4 DEF BeginDriftedTick, SetAnchor
<1>5. CASE BeginTick \/ DriftRefreshFails \/ SetBands
  <2>1. pc = "idle" /\ anchorOf' = anchorOf
    BY <1>5, Zenon DEF BeginTick, DriftRefreshFails, SetBands, AnchorLost, rankVars
  <2>2. QED
    BY <2>1 DEF AnchorInv
<1>6. CASE Resync
  BY <1>6, Zenon DEF Resync, SetAnchor, SolutionHasJacobian
<1>7. CASE Evaluate \/ BreakpointStep \/ ReleasePins \/ FullStep \/ KeepIterating
  <2>1. anchorOf' = anchorOf /\ refreshes' = refreshes
    BY <1>7, Zenon DEF Evaluate, BreakpointStep, SwitchRow, ReleasePins, FullStep,
                       KeepIterating, Rescale, rankVars
  <2>2. pc' \in {"walk", "solve", "settled", "unsettled", "stalled"}
    BY <1>7 DEF Evaluate, BreakpointStep, ReleasePins, FullStep, KeepIterating
  <2>3. QED
    BY <2>1, <2>2 DEF AnchorInv
<1>8. CASE Commit
  BY <1>8 DEF Commit
<1>9. CASE UNCHANGED vars
  BY <1>9 DEF vars, AnchorInv
<1>10. QED
  BY <1>2, <1>3, <1>4, <1>5, <1>6, <1>7, <1>8, <1>9 DEF Next, Step

\* Between ticks the anchor is never one taken at the iterate of a tick that failed (fail(),
\* streaming.hpp 628-642), even when Jacobians at iterates are lost.
THEOREM AnchorsAreSolutions ==
  ASSUME SolutionHasJacobian
  PROVE  Spec => []AnchorAtSolution
<1> DEFINE Inv == BudgetsInv /\ AnchorInv
<1>1. Init => Inv
  BY BudgetsInit DEF Init, AnchorInv, CountersOK
<1>2. Inv /\ [Next]_vars => Inv'
  BY BudgetsStep, AnchorStep
<1>3. Inv => AnchorAtSolution
  BY DEF AnchorInv, AnchorAtSolution
<1>4. QED
  BY <1>1, <1>2, <1>3, PTL DEF Spec
=============================================================================
