------------------------------- MODULE Session -------------------------------
(***************************************************************************)
(* BundleSession (api/bundle_api.hpp, bundle_api.cpp): one problem, one    *)
(* lazily compiled engine that every consumer borrows, a streamer on it, a *)
(* bound book compiled beside it, and fixings that rewrite the problem's   *)
(* observations in place.                                                  *)
(*                                                                         *)
(* Every method is one action: the session is driven by one caller.  The   *)
(* numbers are abstracted to what the session hands from one part to       *)
(* another: a market vector is a value of Markets, a set of bands is the   *)
(* set of markets inside them (Markets itself when no row is banded), and  *)
(* a curve is the record of the inputs it was solved to.  A tick of the    *)
(* streamer converges or not, as in Streamer; the LM solve behind it       *)
(* reports converged or not, as in lm.hpp.                                 *)
(***************************************************************************)
EXTENDS Integers, FiniteSets

CONSTANTS
    Markets,      \* the market vectors
    Bands,        \* the band settings, each the set of markets inside every band
    Dates,        \* fixing and evaluation dates, in order
    Seasoned,     \* dates before curve time 0 (FixingDay::t_start < 0)
    Rates,        \* fixing values
    NoFixing,     \* no entry in the fixing table
    Obs,          \* the schedule-carrying observations of the problem
    Schedule,     \* their fixing dates
    Books,        \* the books a caller may bind
    BookSchedule, \* the fixing dates of a book's seasoned coupons
    None          \* a null pointer

\* The tables of fixings, what a schedule resolves to, and what each cached part records.
Fixings    == [Dates -> Rates \cup {NoFixing}]
Resolution == [realized : SUBSET (Dates \X Rates), subs : SUBSET Dates, resolved : BOOLEAN]
InputSet   == [q : Markets, bands : Bands, obs : [Obs -> Resolution]]
Streams    == [bands : Bands, at : InputSet \cup {None}]
Reports    == [x : InputSet, converged : BOOLEAN]
Twins      == [book : Books, res : Resolution]

ASSUME SessionAssumption ==
    /\ Bands \subseteq SUBSET Markets
    /\ Markets \in Bands
    /\ Dates \subseteq Int
    /\ Seasoned \subseteq Dates
    /\ NoFixing \notin Rates
    /\ IsFiniteSet(Obs)
    /\ Schedule \in [Obs -> SUBSET Dates]
    /\ BookSchedule \in [Books -> SUBSET Dates]
    /\ None \notin Books \cup InputSet \cup Streams \cup Reports \cup Twins

VARIABLES
    q, bands,      \* prob_.instruments: the targets and the bands
    obs,           \* prob_'s schedule-carrying observations
    evalDate, fixings, nUnresolved,
    engine,        \* engine_: the inputs it was compiled from and re-quoted to
    stream,        \* stream_: the bands it re-read last and the state it is at
    armed,         \* stream_armed_
    bandsChanged,  \* bands_changed_
    x, result,     \* x_ and result_
    book, twin,    \* bound_book_; cbook_ with resolved_book_
    ret            \* what the last call returned: "curve", "none" or "threw"

probVars   == <<q, bands, obs>>
fixVars    == <<evalDate, fixings, nUnresolved>>
streamVars == <<stream, armed, bandsChanged>>
solveVars  == <<x, result>>
bookVars   == <<book, twin>>
vars == <<q, bands, obs, evalDate, fixings, nUnresolved, engine, stream, armed, bandsChanged,
          x, result, book, twin, ret>>

\* The inputs the session holds.
Inputs == [q |-> q, bands |-> bands, obs |-> obs]

----------------------------------------------------------------------------
(* Fixings (pricing/fixings.hpp).                                          *)

IsPast(d, date, table) ==
    d \in Seasoned \/ d < date \/ (d = date /\ table[d] # NoFixing)

MissingDays(sched, date, table) ==
    {d \in sched : IsPast(d, date, table) /\ table[d] = NoFixing}

\* resolve_into() that runs to its end.
Split(sched, date, table) ==
    LET past == {d \in sched : IsPast(d, date, table)}
    IN  [realized |-> {<<d, table[d]>> : d \in past}, subs |-> sched \ past, resolved |-> TRUE]

\* resolve_into(): the forecast sub-periods are rebuilt day by day, so a missing fixing
\* leaves those before it and keeps the realized part and the flag of the last success.
ResolveInto(o, sched, date, table) ==
    LET missing == MissingDays(sched, date, table)
    IN  IF missing = {} THEN Split(sched, date, table)
        ELSE [o EXCEPT !.subs = {d \in sched : /\ ~IsPast(d, date, table)
                                               /\ \A m \in missing : d < m}]

Unresolved == [realized |-> {}, subs |-> {}, resolved |-> FALSE]

\* invalidate_engine(): the engine and everything that borrows from it.
InvalidateEngine ==
    /\ engine' = None
    /\ stream' = None
    /\ twin' = None

\* resolve_fixings().
ResolveFixings ==
    /\ obs' = [o \in Obs |-> ResolveInto(obs[o], Schedule[o], evalDate', fixings')]
    /\ nUnresolved' = Cardinality({o \in Obs : MissingDays(Schedule[o], evalDate', fixings') # {}})
    /\ IF Obs # {} THEN InvalidateEngine ELSE UNCHANGED <<engine, stream, twin>>

----------------------------------------------------------------------------
(* The engine and the streamer.                                            *)

\* Compiling refuses an unresolved observation and a target outside its band.
Compiles(in) == (\A o \in Obs : in.obs[o].resolved) /\ in.q \in in.bands

\* set_market / set_quote / set_quotes on the engine, when there is one.
Requoted(e, in) == IF e = None THEN None ELSE [e EXCEPT !.q = in.q, !.bands = in.bands]

\* ensure_engine(), where it does not throw.
Ensured(e, in) == IF e = None THEN in ELSE e

\* A streamer anchored (constructed or resynced) on the bands bb at the curve c.
Anchored(bb, c) == [bands |-> bb, at |-> c]

\* A converged tick solves the engine's problem at the market it is handed -- provided
\* the active-set table it walks by is the engine's.
Streamed(e, s, qq) ==
    IF s.bands = e.bands THEN [e EXCEPT !.q = qq] ELSE None

\* calibrate(): the LM solve on the engine e.
LmSolve(e) ==
    /\ x' = e
    /\ \E ok \in BOOLEAN : result' = [x |-> e, converged |-> ok]

\* update() and what both entry points do with its verdict: a converged tick is stamped
\* on the report, any other falls back to an LM solve and a resync at its solution.  A
\* market outside the streamer's bands is refused before the tick.
Tick(e, s, in) ==
    /\ engine' = e
    /\ \/ /\ in.q \in s.bands
          /\ \/ /\ x' = Streamed(e, s, in.q)
                /\ result' = [x |-> x', converged |-> TRUE]
                /\ stream' = [s EXCEPT !.at = x']
             \/ /\ LmSolve(e)
                /\ stream' = Anchored(in.bands, x')
          /\ ret' = "curve"
       \/ /\ in.q \notin s.bands
          /\ stream' = s
          /\ ret' = "threw"
          /\ UNCHANGED solveVars

\* A call that throws with these values of what it had already written.
Throws(e, s, changed) ==
    /\ engine' = e /\ stream' = s /\ bandsChanged' = changed
    /\ ret' = "threw"
    /\ UNCHANGED solveVars

\* Mutant: a band edit since the last anchor is not re-read before the tick.
WarmSolveBlind(in, changed) ==
    LET e == Ensured(Requoted(engine, in), in)
    IN  /\ q' = in.q /\ bands' = in.bands
        /\ engine # None \/ Compiles(in)
        /\ Tick(e, IF stream = None THEN Anchored(in.bands, x) ELSE stream, in)
        /\ armed' = TRUE
        /\ bandsChanged' = FALSE

\* warm_solve() once the caller has landed the inputs in: one tick, on a streamer that is
\* started, or re-anchored after a band edit, first.
WarmSolve(in, changed) ==
    LET e == Requoted(engine, in)
        anew == stream = None \/ changed
    IN  /\ q' = in.q /\ bands' = in.bands
        /\ \/ /\ stream = None /\ e = None /\ ~Compiles(in)
              /\ Throws(e, stream, changed)
              /\ UNCHANGED armed
           \/ /\ stream # None \/ e # None \/ Compiles(in)
              /\ Tick(Ensured(e, in), IF anew THEN Anchored(in.bands, x) ELSE stream, in)
              /\ armed' = TRUE
              /\ bandsChanged' = FALSE

\* stream_update() to qq, the bands being bb, the engine e and the streamer s.  A dropped
\* streamer is rebuilt before the target is looked at; the quotes are committed, on the
\* problem and on the engine, before the tick.
StreamTo(qq, bb, e, s, changed) ==
    LET held  == [q |-> q, bands |-> bb, obs |-> obs]
        in    == [held EXCEPT !.q = qq]
        built == Ensured(e, held)
        table == IF s = None THEN Anchored(bb, x) ELSE s
        stale == s # None /\ changed
    IN  /\ bands' = bb
        /\ \/ /\ s = None /\ (~armed \/ (e = None /\ ~Compiles(held)))
              /\ Throws(e, s, changed)
              /\ UNCHANGED q
           \/ /\ s # None \/ (armed /\ (e # None \/ Compiles(held)))
              /\ \/ /\ qq \notin bb
                    /\ Throws(built, table, stale)
                    /\ UNCHANGED q
                 \/ /\ qq \in bb
                    /\ q' = qq
                    /\ Tick(Requoted(built, in), IF stale THEN Anchored(bb, x) ELSE table, in)
                    /\ bandsChanged' = FALSE
        /\ UNCHANGED armed

----------------------------------------------------------------------------
Init ==
    /\ bands \in Bands /\ q \in bands
    /\ evalDate = 0
    /\ fixings = [d \in Dates |-> NoFixing]
    /\ obs = [o \in Obs |-> ResolveInto(Unresolved, Schedule[o], evalDate, fixings)]
    /\ nUnresolved = Cardinality({o \in Obs : MissingDays(Schedule[o], evalDate, fixings) # {}})
    /\ engine = None /\ stream = None /\ armed = FALSE /\ bandsChanged = FALSE
    /\ x = None /\ result = None
    /\ book = None /\ twin = None
    /\ ret = "none"

\* Up-front validation: lengths, non-finite numbers, a target outside its band, a rebind
\* of another structure, a reprice with no book.
Refuse ==
    /\ ret' = "threw"
    /\ UNCHANGED <<probVars, fixVars, engine, streamVars, solveVars, bookVars>>

\* calibrate(): a cold LM solve.  The streamer stays where it was.
Calibrate ==
    /\ \/ /\ engine # None \/ Compiles(Inputs)
          /\ engine' = Ensured(engine, Inputs)
          /\ LmSolve(engine')
          /\ ret' = "curve"
       \/ /\ engine = None /\ ~Compiles(Inputs)
          /\ ret' = "threw"
          /\ UNCHANGED <<engine, solveVars>>
    /\ UNCHANGED <<probVars, fixVars, streamVars, bookVars>>

\* set_market(): every target, no solve.
SetMarket(qq) ==
    /\ qq \in bands
    /\ q' = qq
    /\ engine' = Requoted(engine, [Inputs EXCEPT !.q = qq])
    /\ ret' = "none"
    /\ UNCHANGED <<bands, obs, fixVars, streamVars, solveVars, bookVars>>

\* Mutant: the band stays on the problem and never reaches the engine.
SetBandOnProblem(bb) ==
    /\ bb # bands /\ q \in bb
    /\ bands' = bb
    /\ bandsChanged' = TRUE
    /\ ret' = "none"
    /\ UNCHANGED <<q, obs, fixVars, engine, stream, armed, solveVars, bookVars>>

\* set_band(): no solve; the streamer re-reads its table before the next tick.
SetBand(bb) ==
    /\ q \in bb
    /\ bands' = bb
    /\ engine' = Requoted(engine, [Inputs EXCEPT !.bands = bb])
    /\ bandsChanged' = TRUE
    /\ ret' = "none"
    /\ UNCHANGED <<q, obs, fixVars, stream, armed, solveVars, bookVars>>

Resolve ==
    /\ WarmSolve(Inputs, bandsChanged)
    /\ UNCHANGED <<obs, fixVars, bookVars>>

\* recalibrate(): set_market and resolve.
Recalibrate(qq) ==
    /\ qq \in bands
    /\ WarmSolve([Inputs EXCEPT !.q = qq], bandsChanged)
    /\ UNCHANGED <<obs, fixVars, bookVars>>

\* rebind(), both overloads: the full quote side of a bundle of the same structure.
Rebind(qq, bb) ==
    /\ qq \in bb
    /\ WarmSolve([Inputs EXCEPT !.q = qq, !.bands = bb], bandsChanged \/ bb # bands)
    /\ UNCHANGED <<obs, fixVars, bookVars>>

\* start_streaming(): anchored at the current curve and market.
StartStreaming ==
    /\ \/ /\ engine # None \/ Compiles(Inputs)
          /\ engine' = Ensured(engine, Inputs)
          /\ stream' = Anchored(bands, x)
          /\ armed' = TRUE /\ bandsChanged' = FALSE
          /\ ret' = "none"
       \/ /\ engine = None /\ ~Compiles(Inputs)
          /\ ret' = "threw"
          /\ UNCHANGED <<engine, streamVars>>
    /\ UNCHANGED <<probVars, fixVars, solveVars, bookVars>>

\* stream_update(market).
StreamUpdate(qq) ==
    /\ StreamTo(qq, bands, engine, stream, bandsChanged)
    /\ UNCHANGED <<obs, fixVars, bookVars>>

\* StreamingCalibrator::set_bands() refuses a change of which rows are banded.
InPlace(s, bb) == (s.bands = Markets) = (bb = Markets)

\* Mutant: a requote the streamer cannot take in place is not flagged.
StreamQuotesUnflagged(qq, bb) ==
    /\ qq \in bb
    /\ StreamTo(qq, bb, Requoted(engine, [Inputs EXCEPT !.bands = bb]), stream, bandsChanged)
    /\ UNCHANGED <<obs, fixVars, bookVars>>

\* stream_update(target, lower, upper, decay): validated whole, then the bands land on the
\* problem, the engine and -- in place, where they can -- the streamer, and the tick runs.
StreamQuotes(qq, bb) ==
    /\ qq \in bb
    /\ LET moved   == bb # bands
           inPlace == moved /\ stream # None /\ InPlace(stream, bb)
       IN  StreamTo(qq, bb,
                    Requoted(engine, [Inputs EXCEPT !.bands = bb]),
                    IF inPlace THEN [stream EXCEPT !.bands = bb] ELSE stream,
                    bandsChanged \/ (moved /\ stream # None /\ ~inPlace))
    /\ UNCHANGED <<obs, fixVars, bookVars>>

SetEvaluationDate(date) ==
    /\ evalDate' = date
    /\ UNCHANGED fixings
    /\ ResolveFixings
    /\ ret' = "none"
    /\ UNCHANGED <<q, bands, armed, bandsChanged, solveVars, book>>

\* set_fixings(): upserts.
SetFixings(d, rate) ==
    /\ fixings' = [fixings EXCEPT ![d] = rate]
    /\ UNCHANGED evalDate
    /\ ResolveFixings
    /\ ret' = "none"
    /\ UNCHANGED <<q, bands, armed, bandsChanged, solveVars, book>>

\* A const query (jacobian, risk_operator) compiles the engine if it must.
Query ==
    /\ engine = None /\ Compiles(Inputs)
    /\ engine' = Inputs
    /\ ret' = "none"
    /\ UNCHANGED <<probVars, fixVars, streamVars, solveVars, bookVars>>

\* rebuild_cbook(): the book resolved against the fixings of the moment; a missing one throws.
RebuildTwin(b) ==
    \/ /\ MissingDays(BookSchedule[b], evalDate, fixings) = {}
       /\ twin' = [book |-> b, res |-> Split(BookSchedule[b], evalDate, fixings)]
       /\ ret' = "none"
    \/ /\ MissingDays(BookSchedule[b], evalDate, fixings) # {}
       /\ ret' = "threw"
       /\ UNCHANGED twin

\* bind_portfolio().
BindPortfolio(b) ==
    /\ book' = b
    /\ RebuildTwin(b)
    /\ UNCHANGED <<probVars, fixVars, engine, streamVars, solveVars>>

\* reprice_bound(): a dropped twin is rebuilt first.
RepriceBound ==
    /\ book # None
    /\ \/ twin = None /\ RebuildTwin(book)
       \/ twin # None /\ ret' = "none" /\ UNCHANGED twin
    /\ UNCHANGED <<probVars, fixVars, engine, streamVars, solveVars, book>>

Next ==
    \/ Refuse \/ Calibrate \/ Resolve \/ StartStreaming \/ Query \/ RepriceBound
    \/ \E qq \in Markets : SetMarket(qq) \/ Recalibrate(qq) \/ StreamUpdate(qq)
    \/ \E bb \in Bands : SetBand(bb)
    \/ \E qq \in Markets, bb \in Bands : Rebind(qq, bb) \/ StreamQuotes(qq, bb)
    \/ \E date \in Dates : SetEvaluationDate(date)
    \/ \E d \in Dates, rate \in Rates : SetFixings(d, rate)
    \/ \E b \in Books : BindPortfolio(b)

Spec == Init /\ [][Next]_vars

----------------------------------------------------------------------------
(* Properties.                                                             *)

TypeOK ==
    /\ Inputs \in InputSet
    /\ evalDate \in Dates \cup {0} /\ fixings \in Fixings /\ nUnresolved \in 0..Cardinality(Obs)
    /\ engine \in InputSet \cup {None}
    /\ stream \in Streams \cup {None}
    /\ armed \in BOOLEAN /\ bandsChanged \in BOOLEAN
    /\ x \in InputSet \cup {None}
    /\ result \in Reports \cup {None}
    /\ book \in Books \cup {None}
    /\ twin \in Twins \cup {None}
    /\ ret \in {"curve", "none", "threw"}

\* The engine every consumer borrows prices the session's own inputs: no requote, band
\* edit, refused call or fixing leaves it on others.
EngineIsLive == engine # None => engine = Inputs

\* A streamer never outlives the engine it borrows, and its active-set table is that of
\* the live bands unless the session knows that it must re-read them.
StreamerIsCurrent ==
    stream # None => /\ engine # None /\ armed
                     /\ bandsChanged \/ stream.bands = bands

\* "result().x == x() after every entry point".
ReportIsCurve == IF result = None THEN x = None ELSE result.x = x

\* A session that reports nothing unresolved has every observation split at the current
\* evaluation date by the current fixings.
ResolutionIsCurrent ==
    nUnresolved = 0 => \A o \in Obs : obs[o] = Split(Schedule[o], evalDate, fixings)

\* The bound book's compiled twin is of the current fixings and date (a bundle that
\* carries schedules of its own: every fixing drops the twin with the engine).
TwinIsCurrent ==
    Obs # {} /\ twin # None => twin.res = Split(BookSchedule[twin.book], evalDate, fixings)

\* What the session promises its caller: the abstract specification.
Live == INSTANCE LiveCurve WITH
    Inputs   <- InputSet,
    NoCurve  <- None,
    inputs   <- Inputs,
    curve    <- IF result = None THEN None ELSE [of |-> result.x, converged |-> result.converged],
    answered <- ret = "curve"

ImplementsLiveCurve == Live!LiveSpec

----------------------------------------------------------------------------
(* What the comments say and the code does not do.                         *)

\* "a fixing that arrives after bind_portfolio reaches the seasoned coupons on the next
\* reprice" -- for every bundle.
TwinIsAlwaysCurrent ==
    twin # None => twin.res = Split(BookSchedule[twin.book], evalDate, fixings)

\* "the target must lie INSIDE it ... Such a quote is REFUSED before any solve", by a verb
\* that is "refused whole: nothing changes".
TargetsInBands == q \in bands
=============================================================================
