# A TLA+ model of SwapEngine

SwapEngine is a header-only C++20 library that calibrates interest-rate curves to market quotes,
keeps them calibrated as quotes stream in, and prices, risks and scenarios books on them. Most of
it is floating-point arithmetic, which the repository's own tests compare with QuantLib. What
those tests hardly reach is the *control* around the arithmetic: an active-set walk that must
terminate and may not lose a pin, caches that must be dropped exactly when an input they read
has changed, documents and stamps that must mean the same bundle, date rules at month ends and
closures, and the one piece of state that threads share. That is what is modelled here.

Paths below are relative to `src/`. `ST` is `include/swaps/calibration/streaming.hpp`.

## 1. The system

| Component | State it keeps | Operations | What is hard |
|---|---|---|---|
| **Streaming calibrator** (`calibration/streaming.hpp`) | committed `(x, q)`, anchor Jacobian `J_ref_`, its re-scaled copy `J_cur_`, operator `op_`, one `BandRow` per tracked row (piece, pin, flips, releases, slopes), `n_pinned_`, rank memory | `update` (a tick), `set_bands`, `resync` | a loop with no bound of its own and seven ways round it; five counters; failures after half the work |
| **Penalty map** (`calibration/problem.hpp`) | none (data of an instrument) | residual, slope, piece, inverse, two-edge form | exact ties on a break, zero slopes, decay 0 and 1 |
| **Bundle session** (`api/bundle_api.*`, `pricing/fixings.hpp`) | problem (quotes, bands, observations), fixings, evaluation date, lazily compiled `engine_`, `stream_` on that engine, bound book and its compiled twin, `x_`, `result_`, flags `bands_changed_`, `stream_armed_` | calibrate, resolve, recalibrate, rebind, `set_*`, start_streaming, stream_update (2 forms), bind_portfolio, reprice_bound, queries | caches derived from other caches; calls that throw half way; a tick that falls over to LM |
| **Bundle document and stamp** (`api/codec.cpp`, `calibration/structure_fingerprint.hpp`, `bundle_problem.hpp`) | a bundle; its stamp, computed once | write, read, `structure_equal`, `structural_stamp` | three hand-written walks over the same fields that have to agree |
| **Specification compiler** (`api/compile.cpp`) | ordered curves, resolved windows, turn places | `compile_spec` | indices fixed in one pass and read in another; documents in any order |
| **Conventions registry** (`conventions_db.hpp`) | overlay vectors under `mu_`, atomics `overlay_n_`, `gen_` | `apply`, lookups | lock-free fast path, batch atomicity |
| **Calendar** (`build/calendar.hpp`) | static `year_closed` cache, its mutex and generation | `is_business_day`, roll, adjust, advance | two mutexes, generation read outside both, a reference kept after unlock; substitutes that chain |
| **Builders** (`build/`) | none | dates, schedules, day counts, observation windows, seasoned legs | month ends, stubs, closures, windows that open and close off the grid |
| **LM solver, normal operator** (`calibration/lm.hpp`, `normal_op.hpp`) | `x`, `J`, radius, damping bracket, decomposition | solve, re-solve with anchor rows | rejected trials that take no step, NaN norms, which run a status belongs to |
| **Compiled engine** (`calibration/compiled_bundle.hpp`, `pricing/compiled_book.hpp`) | weights in three copies, spans, branch patterns, tangents and corrections, two memos; row maps with a dirty flag, dead rows | residuals, Jacobian, directional, `set_quote(s)` | deltas on some paths, rebuilds on others; in-place edits against rebuilds |
| **Router, AAD block** (`hybrid_residual.hpp`, `aad_block.hpp`) | engines, owners, markets; recorded discount play-list, tables, cursors | build, quotes, passes | a refused build retried over filled state; answers by position |
| **Curves** (`curve/`) | coefficients | build, forward, integral, tangents | branches decided by signs with zero on the boundary |
| **Pricing kernels, vol** (`pricing/`, `vol/`) | none | evaluate | numerics |
| **Portfolio, derived analytics, XVA** (`portfolio/`, `derive/`, `xva/`, `calibration/pnl_explain.hpp`) | per call | scenarios, VaR, exposure, P&L explain | ordering of bumps and restores |
| **API: options, C ABI** (`api/`) | handles, thread-local last error | JSON in and out | lifetime of handles |

How they interact: a caller drives one `BundleSession` from one thread. The session lends its one
engine to LM, to the streamer (by pointer) and to the queries; a quote edit is *pushed* to the
engine, a fixing or date change *drops* it together with the streamer and the twin; a band edit
is pushed to the streamer in place when the tracked set stays the same and otherwise flagged. The
streamer calls back into the engine for residuals and Jacobians; the engine is a router over a
compiled engine, whose discounts come from the compiled curve set, and AAD blocks over templated
kernels. Bundles reach a session from the builders, from the compiler or off the wire, and a
rebind lands a second bundle on an open session when the two have one structure. Everything that
builds instruments asks the calendar, which asks the registry; those two are process-wide and are
the only state several sessions' threads share.

`PROJECT.json` lists the components with their status and every hazard with the source line
where it bites and the properties that cover it.

## 2. The modules

| Module | Models | Composition |
|---|---|---|
| `Streamer` | one streamer: a tick as a sequence of loop iterations, each branch of the loop an action, `SetBands` and `Resync` between ticks | |
| `PenaltyMap` | the pure map over integers | |
| `AnchorSide` | the two routes by which a row's side at an anchor is found (from the model value, from the Jacobian pass's residual), under requotes | EXTENDS `PenaltyMap` |
| `LiveCurve` | abstract specification of a session: a curve changes only in a call that answers with one, and is solved to the inputs as the call left them | |
| `Session` | the session's methods, one action each | INSTANCE `LiveCurve` (refinement) |
| `Bundles` | bundles as values: documents, the structural walk, the stamp | |
| `Rebind` | a client's bundle edited, requoted, sent and rebound while the session's copy resolves | EXTENDS `Bundles` |
| `Compile` | `compile_spec` pass by pass | |
| `Registry` | `apply()` in its four visible steps, `is_business_day()` lock by lock, any number of threads | |
| `Dates`, `HolidayRules`, `CalendarRows` | civil dates, holiday rules and rolls, all 25 baked calendars | each EXTENDS the one before, the rows alone |
| `Schedules`, `Accruals`, `Legs` | schedule generation boundary by boundary; day counts and fixing windows; booked legs | EXTEND `HolidayRules`; `Legs` both |
| `Lm` | the driver with its damping search and its anchored re-solve | |
| `CurveSet` | how the weights of the compiled curves follow the state | |
| `RowMaps`, `AadBlock`, `Router` | the list of row maps, the discount play-list, and the router over both | `Router` EXTENDS both |
| `Scalars`, `Regions`, `MonotoneCubics`, `MonotoneConvexes`, `BSplines`, `Curves` | rationals with gradients, nine interpolation schemes, the modular curve | a chain of EXTENDS |
| `RowProofs` | theorems about a row's map and about the router | EXTENDS `AnchorSide` and `Router` |
| `CallProofs` | theorems about what runs to its end in one call, the compiler and the driver | EXTENDS `Compile` and `Lm` |
| other `*Proofs` | theorems about the module named | EXTENDS it |
| `MC*` | instances for TLC | EXTENDS each |

### Streamer
`pc` is the place in `update_exact`'s loop: `idle`, then `walk` (top of the loop), `solve` (side
tracking done, a step is to be taken), then `settled`, `unsettled` or `stalled` by what the step
length says. One action is one stretch of the loop between two of these places: the engine calls
between them return to the same thread, and nothing else runs. `BeginTick` and `BeginDriftedTick`
are the entry of `update` (without and with the drift refresh); `Evaluate` is one `eval` +
`track_bands`, `BreakpointStep` a step cut at a kink, `FullStep` an uncut one, `ReleasePins` a
`verify_pins` that released something, `CommitReanchor`, `FinalRefresh`, `StallRefresh` the three
refreshes, `KeepIterating` the way back to the top, and `Commit`, `StepCapHit`, `RefreshCapHit`,
`EvaluateFails`, `StepNonFinite`, `DriftRefreshFails` the exits; every failing exit goes through
`Fail`, which re-takes the anchor at the committed solution when the tick had refreshed or
re-scaled.

What is abstracted: where the code branches on a number (which piece a model value is on, whether
it is within the kink tolerance, how long the step is, which way a multiplier points, how many weak
directions a factorisation has, whether a Jacobian is finite) the model chooses. The *slopes* are
kept, because re-scaling is where the walk can go wrong: a slope is its base-2 exponent, so that
`J_cur.row = J_ref.row * new/ref` is integer addition, with `Zero` absorbing. `jRef`, `jCur`, `op`
are the scale of each row in the three places it is kept.

### AnchorSide and PenaltyMap
The map is exact arithmetic over integers: breakpoints, the slope of each piece, residual, slope,
piece and inverse as the code computes them, ties included. `AnchorSide` keeps what the streamer
records for one row, the piece of its target `tp` taken once, and the band and target that move
under it (`set_bands` in place, a new anchor, a new target). Which route an anchor takes is decided for all
rows at once: whether the other rows' maps are strict is a choice at each anchor.

### Session
Inputs are the record `[q, bands, obs]`. `engine` holds the inputs it prices, `stream` the bands
it read last and the state it is at, `twin` the resolution its book was compiled under. `obs`
keeps an observation's realized days and remaining sub-periods, so that the throw out of
`resolve_into` half way through the rewrite is a step of the model. Ticks converge or fail;
LM reports converged or not; both are choices. `StreamQuotes` is the four-number tick, with its
throw.

### Bundles and Rebind
A bundle is its curves, rows and coupons with the fields that the three walks treat differently
from one another kept apart and those they treat alike merged. `BundleTo` leaves out what the
writer leaves out, `BundleFrom` assigns what is present over the struct's defaults. `StructureEqual`
is the walk, `StructuralStamp` the sequence of values that is hashed. `Rebind` has a client (`Edit`,
`Requote`, `Send`, `MakeStamped`) and an open session that resolves on `SetFixings` and
`SetEvaluationDate` and takes quotes (`RebindQuotes`) or bundles, by the walk (`RebindBundle`) or by
the stamp (`RebindStamped`). Two of its edits are of what neither walk compares, the fixing days inside a
schedule and the penalty map of a row: such a bundle is taken. `Read` is a bundle with those parts replaced
by the session's, which is what a rebind makes of it, and `RebindPricesTheBundle` says that it makes nothing
less of it.

### Compile
`OrderCurves`, then a step per curve for `ResolveCurve` and `LayOutCurve`, a step per instrument
for `BuildRow`, and `Finish` with the smoothing stamp. Windows live in `resolved` under
`<<curve id, instrument key>>` and a turn's place in `turnOf`, as the code's maps do, so that a
later pass reads what an earlier one wrote and may find another instrument's entry there. The chain of
meetings is sorted by rolled date and keyed the same way (`ChainedStarts`). Its first link is the token
`"0d"`, which resolves to the spot date and not to the value date (`build/schedule.hpp:59`): the days from
value date to spot lie in no meeting, and a first meeting that ends on or before spot is refused, though it
is in the future.

### Registry
`apply` is: take `mu_`, check, append the rows (`CommitRows`), store the count, bump the
generation, unlock. A query loads `overlay_n_`, scans under the shared lock, goes by weekend,
joint or weekday row, reads the generation, probes the cache shared, upgrades to the exclusive
lock, computes the year's holidays (itself asking the registry), files it, and reads the bit
through the reference. The reference carries whether the storage is still the cache's.

### Dates to Legs
A date is its serial number; `Civil` and `Ymd` are the code's two conversions. `HolidayRules` gives
a calendar's holidays of a year from its rules, with substitutes placed on free days, then `Open`,
the open days of every calendar, and the rolls. `Schedules` makes a schedule one boundary per step
through either of the code's two loops; `Legs` reads fixing windows, accruals and booked coupons
off a finished one.

### Lm
The unknown is one coordinate on a grid and the problem a table of residual norms over it, some not
numbers; a step's length and direction are chosen, what the code compares is compared. Actions are
the stretches between two such choices: `RefuseSeed`, `FirstSolve`, `Pass` (a Jacobian),
`GaussNewtonFits`, `OpenSearch`, `NextTrial`, `SettleSearch` (`Lmpar::run`), `Trial` (a step and its
stop tests), `Solved` (with the anchored re-solve of a rank-deficient end), `Report`.

### CurveSet, RowMaps, AadBlock, Router
`CurveSet` keeps the weights `W` with their transpose, blocks and spans, the branch pattern each
tracked curve was last synced at, the tangent and correction states and the two memos; its actions
are the three evaluations. `RowMaps` is the list with positions and the dirty flag; `AadBlock` the
recording, tables and cursor. `Router` partitions a problem's rows (the tier, then the horizons
after a refusal), forwards quotes under local numbers and gathers passes.

### Scalars to Curves
Rationals in lowest terms with forward-mode gradients stand for doubles and duals, so that what the
code calls exact is exact and an `if (x == 0)` is the code's. Each scheme is a module of operators
that mirrors `build()`, `value`, `slope`, `integral` and, for value-dependent schemes, the
hand-written tangents and the branch pattern; `Curves` chains regions through the handoff.

## 3. What the runs check

| Run | Bounds | Shows |
|---|---|---|
| `StreamerWalk` | 2 tracked rows (one a band whose zero-slope row is dropped, one instrument data whose row the engine keeps), decays 1/2 and 0 and a one-sided bound, 3 re-scales, 1 refresh | `StepUsesTruePiece`, `OperatorMatchesRows`, `AnchorAtSolution`: the slopes installed and the operator are those of the pieces the rows are on, at every step, and no anchor of a failed iterate is left between ticks |
| `StreamerFaults` | 1 row, the Huber band, 4 steps, 4 re-scales, 2 refreshes, every Jacobian may be non-finite, weak directions | `CommittedAtFullRank`, `RePinIsFinal`, `TickEnds`: commit at full rank, re-pins final, every tick ends |
| `AnchorSide` | every band over 4 values with decay 0 or 1/2, every data map of up to 3 breaks with slopes 0..2 half-units | `InvertUndoesResidual`, `BandAnchoredTruly`: the residual names the piece and leads back to the value; both routes anchor a band at the slope of its Jacobian row |
| `SessionInputs` | 2 markets, 3 band settings, 2 dates, 1 scheduled observation, 1 book | `EngineIsLive`, `StreamerIsCurrent`, `ImplementsLiveCurve`: engine, streamer and report follow the live inputs |
| `Rebind` | 3 built bundles and 1 sparse document, 11 kinds of edit that the walks see and 2 that they do not, 2 quotes, 2 dates | `StampIsTwin`, `RebindPricesTheBundle`, `OwnDocumentIsTaken`: the stamp answers as the walk does, what is taken is priced as given but for the two edits no walk sees, a session's own document comes back |
| `Compile` | families of documents, one per pass: chains of spreads in every order, cycles and dangling bases; three meetings in several listings (unquoted, rolled together, on or before spot, two under one id) over five layouts; quoted and unquoted turns; every row kind with what it names missing; 15 days | `CurvesAreStacked`, `MeetingsTile`, `RowsReadTheirQuotes` |
| `Registry` | 2 threads, 2 calendars that may join, 4 batches (add, override, drop, replace), 2 applied | `QuietQueryIsExact`, `SnapshotIsConsistent`, `QueryEnds` (deadlock checked) |
| `Schedules` | all 25 baked calendars over 2021-2025, every stub, roll-day and month-end rule, five starts next to long closures and month ends | `BoundsIncrease`, `ScheduleIsTheGrid`, `HolidaysStayApart`, `AccrualsAddUp`, `FixingsEarnTheWindow`, `BookedLegOwesTheRest` |
| `Lm` | 42 problems on four points (a root, a minimum that is none, flat, undefined beyond the seed), one or two rows for two knots, 4 evaluations, 3 damping trials | `NeverWorse`, `StatusIsOfTheResult`, `BracketHoldsRoot`, `SolveEnds` |
| `CurveSet` | six sets of two curves (spreads on piecewise-linear, opaque and tangent bases), four knot values | `DiscountsAreExact`, `JacobianIsTheSlope`, `DirectionIsCurrent` after any order of evaluations |
| `Router` | six bundles of two rows over three curves, three bands, two targets, two states | `AnsweredByLiveBands`, `DeadRowsServed` |
| `Curves` | some 30 curves of one to three regions on values that reach every clamp, shape, limiter pattern and refusal | `ClosedFormsAgree`, `PiecesJoin`, `TangentIsTheGradient`, `CellPricesTheCurve`, `SchemesKeepTheirShape` |

Why the bounds are enough. *Streamer*: rows interact only through `n_pinned_`, the counters and
the operator; two rows are enough for one to be released while another stays pinned, with a
band's two breakpoints on one and a one-sided bound as instrument data on the other. The caps are
set so that each can be reached before the others. The failure run uses one row, because faults
concern the anchor as a whole. `VIEW`s merge states that differ only in values no guard reads: the
matrix scales in the failure run (its properties do not mention them) and exhausted step counts in
the walk run. *Session*: two values of each input are what is needed for a cached part to be of an
older one; one scheduled observation with two dates has every half-resolved state. *Rebind*: an
edit of each field the three walks mention, on coupons under way, spot, shifted and reset. *Registry*: one slow
and one fast thread, two generations and two calendars give every relative age of a cache entry;
the run says nothing of three threads at once, the theorem does. *CurveSet* and *Router*: two
curves or rows are what one update can miss while it serves the other; knot values on both sides
of 0 and on it give every branch pattern. *Lm*: four points hold a step that is rejected, accepted,
too short and undefined in either direction. *Schedules* and *Curves* are functions of their data,
and the data is chosen by the branches of the code.

Fairness. `Streamer`: `WF_vars(Step)`, because a tick is one synchronous loop on the caller's
thread; callers are never obliged to start a tick. `Lm`: `WF_vars(Next)`, one synchronous call.
`Registry`: `WF` on each thread's own steps and on `Apply`: a thread inside a call runs on, and the
platform's mutexes let a waiter that stays enabled in eventually; nobody has to make a call. The
other modules have no liveness: their methods return.

Deadlock is checked except where a run really ends: `Lm` after its report, `Compile` when done or
refused, `Curves` after its one query, `Rebind` where fixings, dates and edits are used up. The
`Registry` run relies on it: the calendar's mutex is held while the registry's is waited for, never
the other way round.

Each property of a run is paired with a mutated definition (`...Uncapped`, `...Blind`, `...Late`
and so on, next to the definition they change) under which TLC finds it violated.

## 4. What is proved

Every theorem holds for every value of the constants that satisfies the module's assumptions, and
those that state a property are of `Spec`; TLC evaluates the assumptions on the run's instance, and the inductive invariants
were checked there before they were proved. Each proof module opens with what its argument is.

### StreamerProofs
For any number of rows, any maps and any caps (`StreamerAssumption`, `MapsAssumption`):

| Theorem | Says | Inductive invariant |
|---|---|---|
| `BudgetsHold` | no tick exceeds its re-scale, refresh and step budgets by more than the code's own slack | `BudgetsInv`: the counters are typed, a re-scale budget *not yet read* (`walk`, `idle`) may be one over, the refresh count is over only after the commit re-anchor, every step above `max_steps` is charged to a re-scale or one of two refreshes, and before the step (`walk`, `solve`) one is still owed |
| `CommitsAtFullRank` | a committed tick's operator is of full rank | `RankInv`: inside a tick, from the commit re-anchor on (`fullRank`), no factorisation leaves anything truncated |
| `PinCountHolds` | `n_pinned_` is the number of pinned rows | `RowsInv`: rows typed, pins are breakpoints of the row's map and only on active rows, the count exact |
| `TypeCorrect` | `TypeOK` | the three above with `MatricesInv` (scales typed through every re-scale, lost anchor and update) and `ControlInv` |
| `RePinsAreFinal` | a row released once and pinned again keeps its pin within the tick, unless an anchor is re-taken | from `BudgetsInv` and `RowsInv`: only `ReleasePins` clears a pin inside a tick, and it requires `releases = 0` |
| `OperatorHolds` | operator, installed rows and slopes on record agree on every row | `ScalesInv`: each of `jRef`, `jCur`, `op` is the slope recorded for it, through every mixture of updates, factorisations, pins and re-anchors |
| `TruePieceUsed` | a free row off its breakpoints enters the frozen system at the slope of its piece | `PieceInv` with `ScalesInv`: when a step is solved, piece, pin and slope are of one band |
| `PinsAreInstalled` | a row is installed at the pin weight exactly when it is pinned | `PinInv` |
| `AnchorsAreSolutions` | no anchor of a failed tick's iterate survives the tick | `AnchorInv`: the anchor in use is the committed one or the tick has a restore owed |

`OperatorHolds`, `TruePieceUsed` and `PinsAreInstalled` are under `NoLostJacobian` (no Jacobian is
non-finite: section 6 has what happens when one is), `AnchorsAreSolutions` under the weaker
`SolutionHasJacobian`: iterates may lose theirs, the committed solution may not.

`PinCountExact` is not inductive by itself: that a release removes a pin which was counted, and
that an inactive row has none, has to be known of the state before. The argument about a
pass over several rows is made once (`RowsMovedInv`, `SomeRescaled`) and cited by the
actions that make one.

### RowProofs
`ResidualLeadsBack`: for a map of any number of breaks, ascending places and any slopes, the residual
read on a piece of positive slope names that piece and `invert()` gives the value back. The residual is a
sum over the pieces between target and value, so this is an induction over runs of integers, made in the
form of sets of naturals. `AnchorTyped`, `ResidualsLeadBack` (`InvertUndoesResidual`) and
`BandsAnchorTruly` (`BandAnchoredTruly`) follow along every history with `RowInv` and `BandInv` (what is
on record is a piece of the row's map as it is now, and the target's piece of a band is its inside). The
last is under `DecaysBelowUnit`: with decay 1 it is false, section 6.

For any curves and bases, knots, bundles and partition width (`CurveAssumption`, `RouterAssumption`: rows read
knots and curves there are, and a banded row's target lies in its band, as `validate_quote` has it):

| Theorem | Says | By |
|---|---|---|
| `RowsAnsweredByLiveBands` | `AnsweredByLiveBands` | `RouterInv` |
| `DeadRowsAreServed` | `DeadRowsServed` | `RouterInv` |

`RouterInv` says of a built router that every row is listed by one engine, once, and owned by it
(`Owned`, `EnginesFit`), that each engine agrees with its rows' live quotes (`Agrees`), that a compiled engine's list
is, unless flagged, the maps of those quotes at their places (`ListFits`), and that a block's tables are
over the curves of its rows (`IsBlock`), *wherever their cursors stand*. Nothing is said of
what a table holds between passes: a residual pass refreshes it first. Four arguments meet in it.

* *The tables* (`ResidualPassIs`). After a refresh every slot holds the discount at the state: a linear
  curve's slopes times its closure's state are its integral, since knots it does not read have
  slope zero, and a sum does not depend on its order (`FoldFunction` has no inductive theorem here, so
  totals are taken through one chosen order, by least counterexample). A discount is then the same from the cursor, by search or from
  the curve, so quotes do not depend on the order in which they are asked.
* *The partition* (`EnginesAre`). First fit puts each row into one group; the groups, the compiled rows and the order each is
  listed in give every row one engine, for the tier and for the horizons.
* *The list* (`WithQuoteIs`, `RebuiltIs`). A requote from a band to a band edits the one entry of its
  row; any other change of band flags the list, and a flagged list is rebuilt before it is read. A map of data or a logarithm
  has nothing to follow.
* *The map* (`ByMapIs`). The two-edge form of a band and the walk over its pieces answer alike for a target in
  the band, on an edge too; the flat rows of the list are then the flat rows of the
  engine (`WithDeadIs`), and under `Owned` they are renumbered as what they are.

### SessionProofs
For any markets, band settings, dates, observations, schedules and books (`SessionAssumption`):

| Theorem | Says | Inductive invariant |
|---|---|---|
| `EngineStaysLive` | an engine that is there prices the live quotes, bands and observations | `SolveInv`: engine live or gone, streamer on an engine and on the live bands or flagged, curve and report one |
| `StreamerStaysCurrent` | a streamer has its engine, is armed, and walks by the live bands or is flagged | `SolveInv` |
| `ReportStaysCurve` | `result().x` is `x()` after every call, one that threw included | `SolveInv` |
| `ResolutionStaysCurrent` | with nothing reported missing, every observation is split by date and fixings as they stand | `ResolutionInv`: `nUnresolved_` counts the observations with a missing day, and the others are split in full |
| `TwinStaysCurrent` | where the bundle has observations, the twin is of the date and fixings as they stand | `TwinInv`, with `ResolutionInv`: a change of either that keeps the twin is one with nothing scheduled |
| `SessionTyped` | `TypeOK` | `SessionInv`, the three together |
| `SessionImplementsLiveCurve` | `Session` implements `LiveCurve` | `SessionInv` |

Most methods end in one of the same three inner calls, so the argument is made about those
(`TickStep`, `WarmSolveStep`, `StreamToStep`) and cited for each method. `SolveStep` then says of every
step that it keeps `SolveInv` and either *answers*, with a report of the inputs it leaves, or
*abstains* and leaves the report alone; both the invariant and the refinement follow from it.
`ReportIsCurve` could not be proved by itself: that a tick answers for the live inputs needs the
engine live and the streamer's bands current before the call, and `EngineIsLive` in turn needs
`obs` to change only where the engine goes.

### RebindProofs
`StampIsTheWalk`: two bundles have equal stamps exactly when the structural walk finds them equal,
whatever their curves, rows and coupons, with any tail of smoothing rows left out. From it and
`RebindInv` (resolution and quotes change nothing the stamp reads, so an open problem keeps the
stamp it was opened with) comes `StampStaysTwin`. The other two compare what is *priced*: a coupon
is alike another when it resolves to the same flows on any date; a document, a requote and a
resolution each give rows alike to those they start from (`KinInv`, `PricedInv`), whence
`RebindsPriceTheBundle` and `OwnDocumentComesBack`. Their hypotheses are those under which the code
does it: `WrittenInFull` (no field is set that the writer leaves out and the walk compares; section 6).
Edits are not restricted: a bundle that is taken stamps as the session's (`TakenStamps`), so that, with the
inside of its schedules and its penalty maps read from the session, every row of it is alike the session's
own (`ReadScheduleIs` to `ReadIsKin`); and what is landed of it, targets and bands, is the same with them or
without (`ReadLandsAlike`).

### RegistryProofs
For any finite set of calendars and any threads, indices and batches (`RegistryAssumption`):
`LockedSnapshotIsConsistent` (outside an `apply()` the overlay's size is that of its rows) and
`SourcesKeepIndices` (every fixing source has its index), from `OverlayInv`, which adds what holds
*inside* an `apply()`: between the appends and the store the size lags by exactly what the store will set, and
the batch about to be committed knows the indices it names even when it clears the overlay first.

`QuietQueriesAreExact` is `QuietQueryIsExact`: a query that no `apply()` overlapped, and that read no
bitmap dropped under it, answers by the rows of the moment. `RegistryInv` is `OverlayInv` with
`ShapeInv` (each thread's stack of joint calendars and its place in the locks), `QuietInv` (a query still
quiet began under the rows there are now), `CacheInv` (a bitmap filed under the current generation was
computed from current rows, while no apply is between its appends and its generation), `FillInv` (so is one being computed) and `AnswerInv` (what a quiet query
has collected so far is part of the verdict). The verdict of a joint calendar is defined by recursion
through rows that may name one another; that one exists is proved from a maximal partial
solution, circular calendars included.

### SchedulesProofs
For any calendar and request that `RowsAssumption`, `RequestsAssumption` and `LegsAssumption` admit: rules that
name a day of every year; in a year, one holiday at most on a weekend day and, within a closure after it, as
many weekdays as there are holidays about a closure around it (`LeavesRoom`, which the run evaluates on every
baked row; the code's search has no bound and would go on); no closure of half a
month (the code's rolls have no bound; the longest baked closure is 12 days), a step that moves, a roll
day of 0 (none) to 31, and a calendar known from a closure before the start to the first boundary and
the last payment past the maturity, and around the windows looked at.

| Theorem | Says | By |
|---|---|---|
| `CivilIsTheDate` | the year, month and day read off a date are a day of the calendar whose date it is | the era split into centuries, leap cycles and years (`Splits`) |
| `AdjustMonotone` | adjustment keeps dates in order under every convention | the open day on either side, and that three days within a closure which start and end in one month are of that month (`MonthBetween`): so a modified convention cannot turn one date forward and a later one back past it |
| `PeriodsArePositive` | `BoundsIncrease` | `ScheduleInv` |
| `SchedulesAreGrids` | `ScheduleIsTheGrid` | `ScheduleInv` with `AdjustMonotone` |
| `YearFracAdds` | two spans that follow on accrue what the whole does, under every count of `DayByDay` | each count is the difference of what accrues up to either date |
| `PeriodsAccrueTheSpan` | `AccrualsAddUp` | `ScheduleInv` with `YearFracAdds`: the running total telescopes |
| `FixingsAreEarned` | `FixingsEarnTheWindow` | the open days of the window in order (`Lists`, `Covers`) and what each earns (`Earns`) |
| `LegsOweTheRest` | `BookedLegOwesTheRest` | `ScheduleInv` with `MovesInOrder` (payment dates are in the order of the periods) and `Earns` |
| `EachHolidayHasItsDay` | `HolidaysStayApart` | the placing of one holiday after another (`TakenBy`): what is taken before a weekend holiday is less than the weekdays in its reach, by counting (`RoomIsLeft`), so `observe` finds a free one (`FoundFor`), and no two dates share a place |

`ScheduleInv` says of each place what the loop has made: the default one the adjusted steps 1 to `k - 1`,
all before the end (`SteppedTo`); the listing loop the regular dates in order, none missed (`Listed`,
`Ruled`), complete when it stops; the roll, the boundaries of all that is no longer listed (`Rolling`).
It needs that months, steps and regular dates are in order and far enough apart, which is arithmetic, and
that every step before the last lands on dates the calendar knows, an induction over the steps
made by least counterexample (`Least`). The attempt corrected the two properties: dates further apart
than *one* closure can still be adjusted onto each other, one forward and one back, so a step has to be
longer than two; and from a start that is not itself open, a step of a few days can be moved back past
the start, so the grid needs a long step or a start that stays (`StartStays`).

The recursive functions of the accruals and the legs (`Accrued`, `Among`, `AdvanceBd`) are `CHOOSE`n:
that one exists is shown by adding a place at a time (`SetInduction`, `FilterExists`, `OnExists`), or by
naming it (`Telescopes`). What `Among` picks is in order and complete (`Picks`), so the open days of a window are listed without a gap
(`ListGaps`), and between two of them every day is shut (`Shut`): each fixing runs to the next, whatever
weekends and holidays lie between, and a row moved two open days back is again one open day (`RowBack`).
Of a leg, what is due is picked from the periods the same way; since later periods are paid no
earlier, it is the tail of the schedule (`DueFollows`), as long as the periods not yet paid are many
(`DueCount`, by a bijection). This attempt too corrected a property: a step of a few days can be
adjusted onto its predecessor and leave an empty period, so `BookedLegOwesTheRest` speaks of long steps.

### CurveSetProofs
For any curve sets whose bases come before them, and any knots (`CurveSetAssumption`):

| Theorem | Says | Inductive invariant |
|---|---|---|
| `JacobiansAreSlopes` | `JacobianIsTheSlope` | `EngInv` |
| `DirectionsAreCurrent` | `DirectionIsCurrent` | `EngInv` |
| `DiscountsExact` | `DiscountsAreExact`, under `OneTangent` (no curve set has two tangent curves) | `EngInv` with `Exact` |

`EngInv` is that the engine is `Sound` (block, transpose and span hold the weights; the weights no
state moves are what they are; a tangent curve's row and the memo of `W.dir` speak of what is installed)
and `Synced` (if it says so, each tracked curve's weights are those of its recorded pattern).
`Exact` says that corrections and discounts are those of the states they are marked with. An update by rank,
a reset, a full re-take and a tangent re-take are each a delta on one curve's rows, so what a delta
spares (`DeltaElsewhere`) is shown once. The evaluations fold these over sets of curves by `CHOOSE`n
functions; that what is chosen exists, and what a fold of steps keeps, is shown by least
counterexamples. `OneTangent` is needed: section 6, item 11.

### CallProofs
For every specification whose curves are a list (`SpecsAssumption`), `BundleIsStacked`
(`CurvesAreStacked`). `Line` is the walk of `visit()` cut off after as many steps as there are documents:
one that goes on that long meets a document twice, by the pigeonhole principle, so a line that does not
turn back and names no base there is none of ends at a document without a base (`LineIs`). Taking such
lines in from their ends keeps the order without repetition and every document after its base
(`WithIs`, `BroughtIs`, `CurveOrderIs`), whatever the document's own order. `CompileInv` carries
that through the passes (`Placed`), with what each pass has made so far (`Counts`) and that what is in
the bundle fits the order (`BundleFits`: a base's place, a row's roles and the one discount curve of
its currency). The recursive functions are `CHOOSE`n: that what is chosen exists is shown once (`Made`).

For every specification whose instruments have keys of their own (`Composed`) and every calendar that
reaches its meetings' dates (`DocumentsAssumption`): `RowsReadTheirOwn` (`RowsReadTheirQuotes`) and
`MeetingsAreChained` (`MeetingsTile`). `Told` is the invariant of both, and says across the passes what each
left for the next: the windows resolved so far are those of their instruments (`Windows`; laying a curve
out overwrites only its turns' entries), a turn's place is entered and is where its window lies
(`Pinned`), and the rows built are exactly the quotes passed, in their order (`RowsOf`, `RowsSorted`,
`RowsTell`). A meeting's start is the greatest end among those `Before` it, or spot, and a business day rolls to
itself, so of two meetings the later opens no earlier than the other closes (`MeetingWindowIs`,
`MeetingsApart`), and one whose window is empty rolls to the day of another or ends on or before spot
(`MeetingRefusal`).
`Composed` is needed: of two instruments of one curve with one id, `resolved` keeps the later's window and
both rows read it. `compile_spec` does not check for it.

For every problem and limit: `TypeCorrect`; `ReturnsNoWorse` (`NeverWorse`), `StatusBelongs`
(`StatusIsOfTheResult`), `SearchHoldsRoot` (`BracketHoldsRoot`) and `StaysInBudget`, from one
invariant that relates the point in hand, the best so far and the two solves.

### Only model-checked
* Liveness (`TickEnds`, `QueryEnds`, `SolveEnds`): fairness and `ENABLED` are outside the prover's reach.
* `Curves`: its numbers are evaluated, rational by rational, not reasoned about.
* `RowsAssumption` of rows other than the baked ones, and of years outside the horizon of the run: that the
  dates of a year's holidays leave room is arithmetic of each year.
* `DiscountsAreExact` of two tangent curves: it is false of them.

## 5. Where the model stops

* No floating point: that a step *reduces* the residual, that frozen Newton converges, or that
  a price is right, is out of reach; convergence is an input of the model.
* `Streamer` leaves out the background-refresh hooks, telemetry and traces, and `max_rescales()`'s
  value (8 + 4 per row) is a constant.
* `Session` treats the tracked set as all bands or none, and the one-off pricing verbs as queries.
  `has_band_` (which only chooses a report label) and the telemetry ring are left out. A
  `bind_portfolio` that throws on a missing fixing leaves the new book with the old twin
  (`api/bundle_api.cpp:420-421`); it is in the model, but `TwinIsCurrent` speaks of the twin's own
  book. LM never throws in the model's fallback.
* `Registry` has three of the row kinds; `validate()` is assumed to have passed; joint calendars
  nest to the number of calendars; a query that an `apply()` overlaps may mix old and new rows
  (the lookups of one query are separate critical sections) and is only required to end. One date
  is asked of it; the holiday rules are in `HolidayRules`.
* `Bundles` idealises the stamp's hash as injective (`-0.0` and `0.0` stamp differently in the code) and
  leaves out the components of a portfolio row and the accrual and weight of a fixing day. `Rebind` requires every scheduled coupon to carry
  its accrual period: one written by hand without is refused after its first resolution
  (`tests/structural_stamp_test.cpp:138`).
* `Compile`: one calendar, the Following convention, one spot date. Of two instruments with an id both rows
  read the later's window, as in the code; the run has two meetings so, and the two properties that speak
  of windows exclude them (`Composed`).
* `Accruals`: an observation is its windows. Weights, and with them the index's calendar beside the lag's, are
  left out; the moment path's refusal of a day count with no constant basis is exact where the code allows 1e-10.
* `Schedules`: the run's horizon is 2021-2025 and no closure is longer than 12 days. A calendar whose mask
  makes every day a weekend passes `validate()` (`conventions_db.hpp:286`), and `roll()`
  (`build/calendar.hpp:219`) would not return on it.
* `Lm`: the finite-difference path and a Jacobian that is not finite are left out; stop codes 6 and 7
  are not reached; that a Newton step on the secular equation lands at or below its root is
  assumed of the arithmetic.
* `CurveSet` instances have at most one tangent curve (section 6); the batched grids, which refuse
  tangent sets, are not in it.
* `Router`: targets lie in their bands, as the session validates; the first attempt on the tier
  throws before any list is filled; whole-vector `set_market`, the fused directional passes and
  `set_mtm_fx_spot` are left out. In `AadBlock` the order in which a kernel's operands ask for
  discounts is unspecified in C++, so each pass may ask in the recorded order or the reverse; the
  times asked do not depend on the state.
* `Curves`: the tension spline, the second integral and the hazard, inflation and parametric curves are
  left out; Simpson's rule stands for the B-spline's Gauss points (both exact on a cubic).
* Not modelled at all: derived analytics, trades and credit support, volatility, the options and
  conventions readers, the C ABI.

Hazards of this code that no property covers, besides those `PROJECT.json` notes: the lazily formed
`G` (`calibration/normal_op.hpp:127`), raw pointers into the registry's rows (`conventions_db.hpp:416`),
the reference kept into the year cache after unlock (`build/calendar.hpp:190`), and a bound
book's repricing under a rebind (`api/bundle_api.cpp:576`).

## 6. Where code and comments disagree

Found while modelling; the property that states what does hold is named where there is one.

Streaming:
1. `ST:145` calls `max_steps` a "hard cap on corrector steps per tick". The test (`ST:613`) is
   reached only by iterations that neither hit a kink, release a pin, re-anchor nor converge, so a
   tick can commit beyond it. `Budgets` states what does hold.
2. When the Jacobian at a new anchor is not finite, `J_ref_ = J_cur_` (`ST:840`) but each `slope_ref`
   stays that of the lost anchor, so the next re-scale applies the ratio twice. Hence
   `NoLostJacobian`.
3. "A band's target piece is the band" (`ST:363`) is false for decay 1 with the target on an edge,
   and the stale piece is read at later anchors. Hence `DecaysBelowUnit`.
4. The refresh cap is exceeded by the commit re-anchor; a mid-tick anchor resets the release budget
   of every row; the comment of `set_bands` (`ST:337`) says that a decay crossing 0 changes the tracked
   set and the code (349) says otherwise.

Session:
5. A fixing set after `bind_portfolio` reaches the bound book only if the *bundle* has scheduled
   observations (`api/bundle_api.cpp:104`); the comment at 424 promises it always. `TwinIsCurrent`
   says where it does.
6. `resolve_into` (`pricing/fixings.hpp:101-103`) clears the sub-periods before it throws; the
   realized part and `resolved` stay those of the pass before, and the instrument is priced on the
   mixture, which `api/bundle_api.cpp:97` calls un-priceable.
7. The four-number tick, "refused whole: nothing changes" (626), lands its bands and then throws when
   streaming has not been started, leaving targets outside their bands.
8. `warm_solve` asks for `stream_ ? stream_step_tol_ : 0.0` inside `if (!stream_)`, so the
   caller's step tolerance is lost.

Registry and calendar:
9. Two callers that share no session do share the calendar cache. A thread that read an older
   generation clears it (`build/calendar.hpp:193`) while another holds a reference into it (190).
   `include/swaps/api/capi.h:18` says "Thread-safe: no shared mutable state".
10. A failed `apply()` leaves interned strings behind.

Compiled engine:
11. With two tangent curves, the correction of the one that did not move is marked current with the
    one that did (`pricing/compiled_book.hpp:282-293`, tested at 298), so discounts are those of an
    older state; 294 and 519 claim otherwise. `DiscountsAreExact` holds with at most one.
12. A templated rate quote does not refuse an unresolved scheduled observation, though
    `pricing/cashflows.hpp:103-106` says the kernels do; a fully fixed moment observation is a
    constant to the kernel and refused by the compiled batch; `set_mtm_fx_spot` rescales every
    mark-to-market leg of a portfolio row.

Bundles and rebinds:
13. A row's penalty map is neither compared nor stamped nor copied by a rebind
    (`api/bundle_api.cpp:212`, `structure_fingerprint.hpp:85-101,190-217`), and a rebind can put a band
    on a row that has one, which validation would refuse (`calibration/problem.hpp:620-622`). Of a schedule
    the walk and the stamp see the length, the first day's date and start and the last day's date and end
    (`structure_fingerprint.hpp:49-52`), though lines 3-4 count "observation schedules" as structure: a
    bundle whose inner fixing days, or any day's accrual or weight, are others is taken and those are
    dropped without a word.
14. Some fields are left off the wire and yet compared: an index without a schedule, a sigma without
    Tension, a negative lambda or reset FX. `fixing_tenor` and the currency codes are neither
    compared nor stamped.
15. `same_structure(s.problem())` is false of a session with smoothing rows, though
    `tests/api_state_test.cpp:252` asserts it, on an unsmoothed one.

Compiler, builders, curves:
16. `compile_spec`'s classic layout skips the strict-increase check that other layouts get
    (`api/compile.cpp:308-314`); a ParSpread without a bench on the root curve is quoted against itself,
    and refused when it names that bench (591); duplicate curve ids drop a curve silently; the fast path
    drops the Flat region's weight.
17. The default schedule path has no `a > bounds.back()` guard as the explicit one has: a weekly step
    over a long closure gives periods of no length. Its positive-span guard tests the *unadjusted*
    maturity (`build/schedule.hpp:138`). 30U/360 is not additive over a split period. A year's closed
    days lose substitutes that spill to the year before.
18. `curve/regions.hpp` says of MonotoneConvex that "f is continuous across knots and
    breakpoints" and (814-818) that it jumps only with `g0 == 0`; it also jumps at an interval's start
    when `g1 == 0` and `g0 /= 0`. MonotoneCubic's "no segment overshoots" (481) is false at local
    extrema. `PiecesJoin` and `SchemesKeepTheirShape` state what holds.

## 7. Plan

Done: every component of section 1 that carries control has a module, and most of the safety
properties of the stateful ones a proof.

Next, in this order:

1. Priced rows: the compiled row formulas against the templated kernels over exact duals, with
   cashflows, portfolio rows and float batches.
2. `PnlExplain` and the scenario bump-and-restore order; the handles of the C ABI.
