------------------------------ MODULE Streamer ------------------------------
(***************************************************************************)
(* The streaming calibrator (calibration/streaming.hpp): one tick moves    *)
(* the last converged curve state to a new market by frozen-Newton steps,  *)
(* while an active-set walk keeps every banded row's frozen Jacobian row   *)
(* at the slope of the penalty-map piece its model value is on.            *)
(*                                                                         *)
(* The control flow is the code's.  The numbers are not: where the code    *)
(* branches on a residual, a step length, a KKT multiplier or a rank, the  *)
(* outcome is chosen nondeterministically.  A slope is its base-2 exponent *)
(* (slope 1 is 0, a decay is negative, kPinWeight is PinScale), so scaling *)
(* a Jacobian row by new/old is integer addition; Zero is the zero slope   *)
(* of a dead zone and absorbs every product.                               *)
(***************************************************************************)
EXTENDS Integers, FiniteSets

CONSTANTS
    NumBands,          \* |bands_|: the tracked rows, numbered in row order
    Maps,              \* the penalty maps a row may carry: [n |-> breakpoints, s |-> slopes]
    GeneralRows,       \* rows whose map is instrument data (BandRow::general)
    DeadRowsKept,      \* rows whose engine keeps the unscaled quote row (RowEngine::dead_rows)
    Zero,              \* the slope of a dead zone
    PinScale,          \* the exponent standing for kPinWeight
    DriftRefresh,      \* drift_refresh_: the accuracy refresh applies to this problem
    MaxSteps, MaxFrozen, MaxRefresh,   \* Options::max_steps, max_frozen, max_refresh
    MaxRescales,       \* max_rescales(): 8 + 4 per tracked row
    MaxWeak,           \* bound on the weak directions a factorisation can report
    JacobianMayFail,   \* a Jacobian at a tick's iterate may be non-finite
    RestoreMayFail     \* so may the one at the last committed solution

Rows == 1..NumBands

Slopes == Int \cup {Zero}

ASSUME StreamerAssumption ==
    /\ NumBands \in Nat
    /\ Zero \notin Int
    /\ PinScale \in Nat \ {0}
    /\ GeneralRows \subseteq Rows
    /\ DeadRowsKept \subseteq Rows
    /\ DriftRefresh \in BOOLEAN
    /\ JacobianMayFail \in BOOLEAN
    /\ RestoreMayFail \in BOOLEAN
    /\ MaxSteps \in Nat \ {0}
    /\ MaxFrozen \in Nat \ {0}
    /\ MaxRefresh \in Nat \ {0}
    /\ MaxRescales \in Nat \ {0}
    /\ MaxWeak \in Nat

kMaxBreaks == 3

\* PenaltyMap: 1 to kMaxBreaks breakpoints, n + 1 slopes, one of them live (BandRow::trackable),
\* none as steep as a pin.
ASSUME MapsAssumption ==
    \A m \in Maps :
        /\ m.n \in 1..kMaxBreaks
        /\ m.s \in [0..m.n -> Slopes]
        /\ \E i \in 0..m.n : m.s[i] # Zero
        /\ \A i \in 0..m.n : m.s[i] # PinScale

VARIABLES
    pc,          \* where the tick is; "idle" between ticks
    status,      \* StreamTick::status of the last tick that ended
    map,         \* BandRow::map of each row
    band,        \* the rest of each BandRow
    at,          \* the piece each model value was on at the last eval()
    nPinned,     \* n_pinned_
    jRef, jCur,  \* the scale of each row in J_ref_ and J_cur_ against its quote row
    op,          \* the scale of each row in the factorised operator op_
    truncated, anchorWeak, fullRank,       \* the two-threshold operator's memory
    steps, refreshes, rescales, frozen,    \* t.newton_steps, t.refreshes, t.rescales, frozen
    hist,        \* dx_prev > 0: a full step was taken under the current operator
    driftRefreshed, finalDone,             \* update_exact's locals
    anchorOf     \* "solution" or "iterate": what the anchor's Jacobian was taken at

walkVars   == <<map, band, nPinned, jRef, jCur, op>>
rankVars   == <<truncated, anchorWeak, anchorOf>>
anchorVars == <<band, nPinned, jRef, jCur, op, truncated, anchorWeak, anchorOf>>
tickVars   == <<steps, refreshes, rescales, frozen, hist, driftRefreshed, finalDone, fullRank>>
vars == <<pc, status, map, band, at, nPinned, jRef, jCur, op, truncated, anchorWeak, fullRank,
          steps, refreshes, rescales, frozen, hist, driftRefreshed, finalDone, anchorOf>>

Statuses == {"Converged", "StepCap", "RefreshCap", "RescaleCap", "NonFinite", "Diverged"}

BandRow == [active : BOOLEAN, piece : Nat, pin : Int, flips : Nat, releases : Nat,
            onedge : BOOLEAN, slopeRef : Slopes, slopeCur : Slopes]

Pieces(k) == 0..map[k].n
S(k, i)   == map[k].s[i]

\* Where every tracked row's model value may be: its piece, and whether it is within
\* kink_tol of a breakpoint.
Readings == {q \in [Rows -> [piece : 0..kMaxBreaks, near : BOOLEAN]] :
                \A k \in Rows : q[k].piece \in Pieces(k)}
SidesOf(m) == {p \in [Rows -> 0..kMaxBreaks] : \A k \in Rows : p[k] \in 0..m[k].n}
Sides == SidesOf(map)

\* A row whose map is not data carries a four-number band: slope 1 outside it (PenaltyMap::band).
BandMaps == {m \in Maps : m.n = 2 /\ m.s[0] = 0 /\ m.s[2] = 0}
MapsOfRows == {m \in [Rows -> Maps] : \A k \in Rows \ GeneralRows : m[k] \in BandMaps}

NoSides == [k \in Rows |-> 0]

----------------------------------------------------------------------------
(* The anchor: the frozen Jacobian, the walk's records and the operator.   *)

\* A row anchored on piece i, at slope s.
AnchoredBand(k, i, s) ==
    [active   |-> s # Zero \/ k \in DeadRowsKept,
     piece    |-> i, pin |-> -1, flips |-> 0, releases |-> 0, onedge |-> FALSE,
     slopeRef |-> IF s = Zero /\ k \in DeadRowsKept THEN 0 ELSE s,
     slopeCur |-> s]

\* factor(): an anchor factorisation records the weak directions, one met while
\* walking drops those the anchor did not have.
Factor(weak, isAnchor) ==
    /\ truncated' = (~isAnchor /\ weak > anchorWeak)
    /\ anchorWeak' = IF isAnchor THEN weak ELSE anchorWeak

\* set_anchor() with a finite Jacobian, the model values being on the pieces p.
\* A kept dead row's reference row is its quote row; its installed row is zero.
SetAnchor(p, m, isAnchor, what) ==
    /\ band' = [k \in Rows |-> AnchoredBand(k, p[k], m[k].s[p[k]])]
    /\ jRef' = [k \in Rows |-> band'[k].slopeRef]
    /\ jCur' = [k \in Rows |-> m[k].s[p[k]]]
    /\ op' = jCur'
    /\ nPinned' = 0
    /\ \E weak \in 0..MaxWeak : Factor(weak, isAnchor)
    /\ anchorOf' = what

\* set_anchor() with a non-finite Jacobian: J_ref_ falls back to J_cur_.
AnchorLost ==
    /\ jRef' = jCur
    /\ UNCHANGED <<band, nPinned, jCur, op, truncated, anchorWeak, anchorOf>>

\* A Jacobian row of scale j taken from slope old to slope new.
Rescaled(j, new, old) == IF j = Zero \/ new = Zero THEN Zero ELSE j + new - old

\* rescale_row(): no finite ratio from a zero slope, and a ratio of one, both refactor.
MustFactor(k, new) == band[k].slopeCur = Zero \/ new = band[k].slopeCur

\* Mutant: the rank-one update takes its ratio from the anchor's slope.
OperatorAfterFromRef(new, refactored) ==
    [k \in Rows |->
        IF k \in DOMAIN new \ refactored THEN Rescaled(op[k], new[k], band[k].slopeRef)
        ELSE IF refactored = {} THEN op[k] ELSE jCur'[k]]

\* The operator after the rows of new are re-scaled in row order: those of refactored
\* by a full factorisation of J_cur_, the others by a rank-one update.
OperatorAfter(new, refactored) ==
    LET rankOne == {k \in DOMAIN new \ refactored : \A f \in refactored : f < k}
        base == IF refactored = {} THEN op ELSE jCur
    IN  [k \in Rows |->
            IF k \in rankOne THEN Rescaled(base[k], new[k], band[k].slopeCur)
            ELSE IF refactored = {} THEN op[k] ELSE jCur'[k]]

\* rescale_row() for every row of the function new (row -> new slope).
Rescale(new) ==
    /\ jCur' = [k \in Rows |->
                  IF k \in DOMAIN new THEN Rescaled(jRef[k], new[k], band[k].slopeRef)
                                      ELSE jCur[k]]
    /\ \E refactored \in SUBSET DOMAIN new :
          /\ \A k \in DOMAIN new : MustFactor(k, new[k]) => k \in refactored
          /\ op' = OperatorAfter(new, refactored)
          /\ IF refactored = {} THEN UNCHANGED <<truncated, anchorWeak>>
                                ELSE \E weak \in 0..MaxWeak : Factor(weak, fullRank)
    /\ UNCHANGED <<jRef, anchorOf>>

----------------------------------------------------------------------------
Init ==
    /\ pc = "idle" /\ status = "Converged"
    /\ map \in MapsOfRows
    /\ \E p \in Sides :
          /\ band = [k \in Rows |-> AnchoredBand(k, p[k], S(k, p[k]))]
          /\ jCur = [k \in Rows |-> S(k, p[k])]
    /\ jRef = [k \in Rows |-> band[k].slopeRef]
    /\ op = jCur
    /\ nPinned = 0
    /\ at = NoSides
    /\ anchorWeak \in 0..MaxWeak
    /\ truncated = FALSE /\ fullRank = FALSE
    /\ steps = 0 /\ refreshes = 0 /\ rescales = 0 /\ frozen = 0
    /\ hist = FALSE /\ driftRefreshed = FALSE /\ finalDone = FALSE
    /\ anchorOf = "solution"

\* Mutant: only a band re-scale makes a failed tick restore its anchor.
FailIgnoringRefreshes(why, badJ, full) ==
    /\ pc' = "idle"
    /\ status' = why
    /\ IF rescales > 0
       THEN \E p \in Sides : SetAnchor(p, map, full, "solution")
       ELSE UNCHANGED anchorVars
    /\ at' = NoSides
    /\ UNCHANGED map

\* fail(): the verdict, and the anchor rebuilt at the last committed solution when the
\* tick moved it.  badJ: set_anchor() has just met a non-finite Jacobian.  The restoring
\* factorisation still counts as one met while walking.
Fail(why, badJ, full) ==
    /\ pc' = "idle"
    /\ status' = why
    /\ \/ /\ refreshes > 0 \/ rescales > 0
          /\ \/ \E p \in Sides : SetAnchor(p, map, full, "solution")
             \/ RestoreMayFail /\ AnchorLost
       \/ /\ refreshes = 0 /\ rescales = 0
          /\ IF badJ THEN AnchorLost ELSE UNCHANGED anchorVars
    /\ at' = NoSides
    /\ UNCHANGED map

\* update(): a tick without the accuracy refresh.  The walk memory starts fresh; the
\* pins of the last tick stay.
BeginTick ==
    /\ pc = "idle"
    /\ pc' = "walk"
    /\ band' = [k \in Rows |-> [band[k] EXCEPT !.flips = 0, !.releases = 0]]
    /\ steps' = 0 /\ refreshes' = 0 /\ rescales' = 0 /\ frozen' = 0
    /\ hist' = FALSE /\ driftRefreshed' = FALSE /\ finalDone' = FALSE /\ fullRank' = FALSE
    /\ UNCHANGED <<status, map, at, nPinned, jRef, jCur, op, rankVars>>

\* update(): the market drifted past refresh_drift, so the tick starts with a new
\* anchor -- taken before in_walk_ is set, hence an anchor factorisation.
BeginDriftedTick ==
    /\ pc = "idle" /\ DriftRefresh
    /\ pc' = "walk"
    /\ \E p \in Sides : SetAnchor(p, map, TRUE, "iterate")
    /\ steps' = 0 /\ refreshes' = 1 /\ rescales' = 0 /\ frozen' = 0
    /\ hist' = FALSE /\ driftRefreshed' = TRUE /\ finalDone' = FALSE /\ fullRank' = FALSE
    /\ UNCHANGED <<status, map, at>>

\* The accuracy refresh itself meets a non-finite Jacobian: the tick has moved nothing
\* yet, so fail() restores nothing.
DriftRefreshFails ==
    /\ pc = "idle" /\ DriftRefresh /\ JacobianMayFail
    /\ status' = "NonFinite"
    /\ AnchorLost
    /\ steps' = 0 /\ refreshes' = 0 /\ rescales' = 0 /\ frozen' = 0
    /\ hist' = FALSE /\ driftRefreshed' = FALSE /\ finalDone' = FALSE
    /\ UNCHANGED <<pc, map, at, fullRank>>

\* The evaluation meets a non-finite or diverged residual, or the re-scale budget is spent.
EvaluateFails ==
    /\ pc = "walk"
    /\ \/ Fail("NonFinite", FALSE, fullRank)
       \/ Fail("Diverged", FALSE, fullRank)
       \/ rescales >= MaxRescales /\ Fail("RescaleCap", FALSE, fullRank)
    /\ UNCHANGED tickVars

\* track_bands() looks at the free rows that are not sitting on a breakpoint.
Reconciled(k, q) ==
    band[k].active /\ band[k].pin < 0 /\ ~(band[k].onedge /\ q[k].near)

\* eval(), apply_pins() and track_bands(): the installed slope of every free row follows
\* the piece its model value is actually on.
Evaluate ==
    /\ pc = "walk" /\ rescales < MaxRescales
    /\ \E q \in Readings :
          LET moved == {k \in Rows : Reconciled(k, q) /\ S(k, q[k].piece) # band[k].slopeCur}
          IN  /\ band' = [k \in Rows |->
                            IF Reconciled(k, q)
                            THEN [band[k] EXCEPT !.piece = q[k].piece, !.onedge = FALSE,
                                                 !.slopeCur = S(k, q[k].piece)]
                            ELSE band[k]]
              /\ Rescale([k \in moved |-> S(k, q[k].piece)])
              /\ rescales' = IF moved = {} THEN rescales ELSE rescales + 1
              /\ frozen' = IF moved = {} THEN frozen ELSE 0
              /\ hist' = (hist /\ moved = {})
              /\ at' = [k \in Rows |-> q[k].piece]
    /\ pc' = "solve"
    /\ UNCHANGED <<status, map, nPinned, steps, refreshes, driftRefreshed, finalDone, fullRank>>

----------------------------------------------------------------------------
(* The corrector step.                                                     *)

\* switch_row(): the first hit of a tick enters the piece into, the second pins the row
\* on the breakpoint between.
Pins(k) == band[k].flips + 1 >= 2
Edge(k, into) == IF into < band[k].piece THEN into ELSE band[k].piece
Switched(k, into) ==
    IF Pins(k)
    THEN [band[k] EXCEPT !.flips = @ + 1, !.onedge = TRUE, !.slopeCur = PinScale,
                         !.pin = Edge(k, into)]
    ELSE [band[k] EXCEPT !.flips = @ + 1, !.onedge = TRUE, !.slopeCur = S(k, into),
                         !.piece = into]

SwitchRow(k, into) ==
    /\ band' = [band EXCEPT ![k] = Switched(k, into)]
    /\ nPinned' = nPinned + (IF Pins(k) THEN 1 ELSE 0)
    /\ Rescale([j \in {k} |-> Switched(k, into).slopeCur])

\* breakpoint(): the step stops on the first breakpoint a free row would cross.
BreakpointStep ==
    /\ pc = "solve"
    /\ \E k \in Rows : \E into \in {band[k].piece - 1, band[k].piece + 1} \cap Pieces(k) :
          /\ band[k].active /\ band[k].pin < 0 /\ ~band[k].onedge
          /\ SwitchRow(k, into)
    /\ steps' = steps + 1
    /\ rescales' = rescales + 1
    /\ frozen' = 0 /\ hist' = FALSE
    /\ pc' = "walk"
    /\ at' = NoSides
    /\ UNCHANGED <<status, map, refreshes, driftRefreshed, finalDone, fullRank>>

\* A full step.  Its length says the iteration has settled (below step_tol, or predicted
\* to be), not yet, or -- with a previous step under the same operator -- too slowly.
FullStep ==
    /\ pc = "solve"
    /\ pc' \in {"settled", "unsettled"} \cup (IF hist THEN {"stalled"} ELSE {})
    /\ steps' = steps + 1
    /\ hist' = TRUE
    /\ at' = NoSides
    /\ UNCHANGED <<status, walkVars, rankVars, refreshes, rescales, frozen,
                   driftRefreshed, finalDone, fullRank>>

\* The state after the step is non-finite.
StepNonFinite ==
    /\ pc = "solve"
    /\ Fail("NonFinite", FALSE, fullRank)
    /\ steps' = steps + 1
    /\ UNCHANGED <<refreshes, rescales, frozen, hist, driftRefreshed, finalDone, fullRank>>

----------------------------------------------------------------------------
(* A settled iteration: release pins, re-anchor, or commit.                *)

\* Mutant: the release budget of a row is not read.
ReleaseAnyPin ==
    /\ pc = "settled"
    /\ \E k \in Rows : \E above \in {0, 1} :
          /\ band[k].pin >= 0
          /\ band' = [band EXCEPT ![k].pin = -1, ![k].releases = @ + 1,
                                  ![k].piece = band[k].pin + above,
                                  ![k].slopeCur = S(k, band[k].pin + above)]
          /\ nPinned' = nPinned - 1
          /\ Rescale([j \in {k} |-> S(k, band[k].pin + above)])
    /\ rescales' = rescales + 1
    /\ frozen' = 0 /\ hist' = FALSE
    /\ pc' = "walk"
    /\ UNCHANGED <<status, map, at, steps, refreshes, driftRefreshed, finalDone, fullRank>>

\* A pinned row let go onto piece i.
Released(k, i) ==
    [band[k] EXCEPT !.pin = -1, !.releases = @ + 1, !.piece = i, !.slopeCur = S(k, i)]

\* verify_pins(): pinned rows whose multiplier left the interval of the two adjacent
\* slopes are released onto one of the two pieces, once per row.
ReleasePins ==
    /\ pc = "settled"
    /\ \E released \in (SUBSET {k \in Rows : band[k].pin >= 0 /\ band[k].releases = 0}) \ {{}} :
       \E above \in [released -> {0, 1}] :
          /\ band' = [k \in Rows |-> IF k \in released THEN Released(k, band[k].pin + above[k])
                                                      ELSE band[k]]
          /\ nPinned' = nPinned - Cardinality(released)
          /\ Rescale([k \in released |-> S(k, band[k].pin + above[k])])
    /\ rescales' = rescales + 1
    /\ frozen' = 0 /\ hist' = FALSE
    /\ pc' = "walk"
    /\ UNCHANGED <<status, map, at, steps, refreshes, driftRefreshed, finalDone, fullRank>>

\* Mutant: full_rank_ is set after the re-anchor instead of before it.
CommitReanchorLate ==
    /\ pc = "settled" /\ truncated /\ ~fullRank
    /\ fullRank' = TRUE /\ finalDone' = TRUE
    /\ \E p \in Sides : SetAnchor(p, map, FALSE, "iterate")
    /\ pc' = "walk"
    /\ refreshes' = refreshes + 1
    /\ frozen' = 0 /\ hist' = FALSE
    /\ UNCHANGED <<status, map, at, steps, rescales, driftRefreshed>>

\* A fixed point of a truncated operator is not committed: re-anchor here at the shared
\* threshold, which is also the tick's final refresh.
CommitReanchor ==
    /\ pc = "settled" /\ truncated /\ ~fullRank
    /\ fullRank' = TRUE /\ finalDone' = TRUE
    /\ \/ /\ \E p \in Sides : SetAnchor(p, map, TRUE, "iterate")
          /\ pc' = "walk"
          /\ refreshes' = refreshes + 1
          /\ frozen' = 0 /\ hist' = FALSE
          /\ UNCHANGED <<status, map, at>>
       \/ /\ JacobianMayFail
          /\ Fail("NonFinite", TRUE, TRUE)
          /\ UNCHANGED <<refreshes, frozen, hist>>
    /\ UNCHANGED <<steps, rescales, driftRefreshed>>

NeedsFinalRefresh == driftRefreshed /\ ~finalDone /\ refreshes < MaxRefresh

\* A drift refresh anchored at the previous solution: anchor once more at this one.
FinalRefresh ==
    /\ pc = "settled" /\ ~(truncated /\ ~fullRank) /\ NeedsFinalRefresh
    /\ finalDone' = TRUE
    /\ \/ /\ \E p \in Sides : SetAnchor(p, map, fullRank, "iterate")
          /\ pc' = "walk"
          /\ refreshes' = refreshes + 1
          /\ frozen' = 0 /\ hist' = FALSE
          /\ UNCHANGED <<status, map, at>>
       \/ /\ JacobianMayFail
          /\ Fail("NonFinite", TRUE, fullRank)
          /\ UNCHANGED <<refreshes, frozen, hist>>
    /\ UNCHANGED <<steps, rescales, driftRefreshed, fullRank>>

Commit ==
    /\ pc = "settled" /\ ~(truncated /\ ~fullRank) /\ ~NeedsFinalRefresh
    /\ pc' = "idle"
    /\ status' = "Converged"
    /\ anchorOf' = "solution"
    /\ UNCHANGED <<walkVars, truncated, anchorWeak, at, tickVars>>

----------------------------------------------------------------------------
(* An iteration that has not settled.                                      *)

Unsettled == pc \in {"unsettled", "stalled"}

StepCapHit ==
    /\ Unsettled /\ steps >= MaxSteps
    /\ Fail("StepCap", FALSE, fullRank)
    /\ UNCHANGED tickVars

Stale == Unsettled /\ steps < MaxSteps /\ (frozen + 1 >= MaxFrozen \/ pc = "stalled")

\* Mutant: the refresh cap is read one refresh late.
RefreshCapHitLate ==
    /\ Stale /\ refreshes > MaxRefresh
    /\ Fail("RefreshCap", FALSE, fullRank)
    /\ UNCHANGED tickVars

RefreshCapHit ==
    /\ Stale /\ refreshes >= MaxRefresh
    /\ Fail("RefreshCap", FALSE, fullRank)
    /\ UNCHANGED tickVars

StallRefresh ==
    /\ Stale /\ refreshes < MaxRefresh
    /\ \/ /\ \E p \in Sides : SetAnchor(p, map, fullRank, "iterate")
          /\ pc' = "walk"
          /\ refreshes' = refreshes + 1
          /\ frozen' = 0 /\ hist' = FALSE
          /\ UNCHANGED <<status, map, at>>
       \/ /\ JacobianMayFail
          /\ Fail("NonFinite", TRUE, fullRank)
          /\ UNCHANGED <<refreshes, frozen, hist>>
    /\ UNCHANGED <<steps, rescales, driftRefreshed, finalDone, fullRank>>

KeepIterating ==
    /\ Unsettled /\ steps < MaxSteps /\ ~Stale
    /\ frozen' = frozen + 1
    /\ pc' = "walk"
    /\ UNCHANGED <<status, at, walkVars, rankVars, steps, refreshes, rescales, hist,
                   driftRefreshed, finalDone, fullRank>>

----------------------------------------------------------------------------
(* Between ticks: the caller moves bands or re-anchors.                    *)

\* Mutant: a moved band takes the new slope on record without re-scaling the row.
SlopeTaken(k, m) == [band[k] EXCEPT !.pin = -1, !.onedge = FALSE, !.slopeCur = m.s[band[k].piece]]
SetBandsSlopeTaken ==
    /\ pc = "idle"
    /\ \E moved \in SUBSET (Rows \ GeneralRows) \ {{}} : \E new \in [moved -> BandMaps] :
          /\ map' = [k \in Rows |-> IF k \in moved THEN new[k] ELSE map[k]]
          /\ band' = [k \in Rows |-> IF k \in moved THEN SlopeTaken(k, new[k]) ELSE band[k]]
          /\ nPinned' = nPinned - Cardinality({k \in moved : band[k].pin >= 0})
    /\ UNCHANGED <<pc, status, at, jRef, jCur, op, rankVars, tickVars>>

\* set_bands(): the tracked rows of a four-number requote, in place.  A moved band
\* releases its pin and leaves its slope to the next tick's track_bands().
SetBands ==
    /\ pc = "idle"
    /\ \E moved \in SUBSET (Rows \ GeneralRows) \ {{}} : \E new \in [moved -> BandMaps] :
          /\ map' = [k \in Rows |-> IF k \in moved THEN new[k] ELSE map[k]]
          /\ band' = [k \in Rows |->
                        IF k \in moved THEN [band[k] EXCEPT !.pin = -1, !.onedge = FALSE]
                                       ELSE band[k]]
          /\ nPinned' = nPinned - Cardinality({k \in moved : band[k].pin >= 0})
    /\ UNCHANGED <<pc, status, at, jRef, jCur, op, rankVars, tickVars>>

\* A row as collect_bands() leaves it, before any anchor.
FreshBand == [active |-> TRUE, piece |-> 0, pin |-> -1, flips |-> 0, releases |-> 0,
              onedge |-> FALSE, slopeRef |-> 0, slopeCur |-> 0]

\* resync(): bands re-read, anchor re-taken at the caller's solution.
Resync ==
    /\ pc = "idle"
    /\ map' \in MapsOfRows
    /\ \/ \E p \in SidesOf(map') : SetAnchor(p, map', TRUE, "solution")
       \/ /\ RestoreMayFail
          /\ band' = [k \in Rows |-> FreshBand]
          /\ nPinned' = 0
          /\ jRef' = jCur
          /\ UNCHANGED <<jCur, op, rankVars>>
    /\ UNCHANGED <<pc, status, at, tickVars>>

Step ==
    \/ EvaluateFails \/ Evaluate
    \/ BreakpointStep \/ FullStep \/ StepNonFinite
    \/ ReleasePins \/ CommitReanchor \/ FinalRefresh \/ Commit
    \/ StepCapHit \/ RefreshCapHit \/ StallRefresh \/ KeepIterating

Next ==
    \/ BeginTick \/ BeginDriftedTick \/ DriftRefreshFails
    \/ SetBands \/ Resync
    \/ Step

\* The tick is one synchronous call: once begun its loop keeps running.
Spec == Init /\ [][Next]_vars /\ WF_vars(Step)

----------------------------------------------------------------------------
(* Properties.                                                             *)

TypeOK ==
    /\ pc \in {"idle", "walk", "solve", "settled", "unsettled", "stalled"}
    /\ status \in Statuses
    /\ map \in MapsOfRows
    /\ band \in [Rows -> BandRow]
    /\ at \in [Rows -> Nat]
    /\ nPinned \in Nat
    /\ jRef \in [Rows -> Slopes] /\ jCur \in [Rows -> Slopes] /\ op \in [Rows -> Slopes]
    /\ truncated \in BOOLEAN /\ fullRank \in BOOLEAN /\ anchorWeak \in 0..MaxWeak
    /\ steps \in Nat /\ refreshes \in Nat /\ rescales \in Nat /\ frozen \in Nat
    /\ hist \in BOOLEAN /\ driftRefreshed \in BOOLEAN /\ finalDone \in BOOLEAN
    /\ anchorOf \in {"solution", "iterate"}

Flag(b) == IF b THEN 1 ELSE 0

\* n_pinned_, which gates apply_pins(), verify_pins() and the walk threshold, is the
\* number of pinned rows, whatever mixture of pins, releases, requotes and re-anchors led
\* here (streaming.hpp 364-367, 676, 716-717, 796-797, 819).
PinCountExact == nPinned = Cardinality({k \in Rows : band[k].pin >= 0})

\* The frozen system a step is solved with carries, for every free row that is not
\* sitting on a breakpoint, the slope of the piece its model value is really on -- across
\* requotes that moved the band, releases, dead-zone anchors and refreshes.
StepUsesTruePiece ==
    pc = "solve" =>
        \A k \in Rows : band[k].active /\ band[k].pin < 0 /\ ~band[k].onedge
                            => jCur[k] = S(k, at[k])

\* A pinned row is installed at the pin weight, and only a pinned row is when a step is
\* taken (rescale_row keeps slope_cur and J_cur_ in step).
PinnedAtPinWeight ==
    pc = "solve" =>
        \A k \in Rows : band[k].active => (band[k].pin >= 0 <=> jCur[k] = PinScale)

\* The operator is that of the recorded rows: the chain of rank-one updates and fallback
\* factorisations never drifts from J_cur_, nor J_cur_ from the slope on record.
OperatorMatchesRows ==
    \A k \in Rows : op[k] = jCur[k] /\ (band[k].active => jCur[k] = band[k].slopeCur)

\* The per-tick budgets, as the loop really enforces them: one track_bands() re-scale may
\* be followed by one more before the cap is read, the commit re-anchor is outside the
\* refresh cap, and a step cut short by a breakpoint, a release or a re-anchor is
\* outside the step cap.
Budgets ==
    /\ rescales <= MaxRescales + 1
    /\ refreshes <= MaxRefresh + Flag(fullRank)
    /\ steps <= MaxSteps + rescales + Flag(fullRank) + Flag(finalDone)

\* A tick that committed left an operator at the shared rank threshold: no direction of
\* the committed solution was left out of the fixed point it was accepted as.
CommittedAtFullRank == pc = "idle" /\ status = "Converged" => ~truncated

\* Between ticks the anchor is never one taken at the iterate of a tick that failed.
AnchorAtSolution == pc = "idle" => anchorOf = "solution"

\* A row released by the KKT check and pinned again stays pinned until the tick ends or
\* the anchor is re-taken: the walk cannot cycle on one kink.
RePinIsFinal ==
    [][\A k \in Rows :
          pc # "idle" /\ band[k].releases >= 1 /\ band[k].pin >= 0 /\ band'[k].pin < 0
             => pc' = "idle" \/ refreshes' > refreshes]_vars

\* Every tick ends: the walk, the refreshes and the step count cannot feed one another
\* for ever.
TickEnds == pc # "idle" ~> pc = "idle"

----------------------------------------------------------------------------
(* What the comments say and the code does not do (see the README).        *)

\* "hard cap on corrector steps per tick (then: converged = false, not committed)".
StepCapIsHard == pc = "idle" /\ status = "Converged" => steps <= MaxSteps

\* set_anchor(): "keep the previous anchor usable (J_cur_ is its re-scaled copy)" when the
\* Jacobian is non-finite -- every row would still be at the slope on record for it.
LostAnchorUsable == \A k \in Rows : band[k].active => jRef[k] = band[k].slopeRef
=============================================================================
