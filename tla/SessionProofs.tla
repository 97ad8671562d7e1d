--------------------------- MODULE SessionProofs ---------------------------
(***************************************************************************)
(* Theorems about Session, for any markets, bands, dates, observations and *)
(* books: what the session holds and caches is typed, every cached part is *)
(* that of the inputs it was built from, and the session implements        *)
(* LiveCurve.                                                              *)
(***************************************************************************)
EXTENDS Session, FiniteSetTheorems, TLAPS

----------------------------------------------------------------------------
(* The observations and their resolution.                                  *)

Missing(o) == MissingDays(Schedule[o], evalDate, fixings)

\* resolve_fixings() is the only writer of the observations, so that each is always the
\* outcome of the last resolution: whole where nothing was missing, and counted where not.
ResolutionInv ==
    /\ evalDate \in Dates \cup {0}
    /\ fixings \in Fixings
    /\ obs \in [Obs -> Resolution]
    /\ nUnresolved = Cardinality({o \in Obs : Missing(o) # {}})
    /\ \A o \in Obs : Missing(o) = {} => obs[o] = Split(Schedule[o], evalDate, fixings)

\* resolve_into() that finds every past fixing writes realized days with their rates and
\* keeps the rest of the schedule.
LEMMA SplitTyped ==
  ASSUME NEW sched \in SUBSET Dates, NEW date, NEW table \in Fixings,
         MissingDays(sched, date, table) = {}
  PROVE  Split(sched, date, table) \in Resolution
<1> DEFINE past == {d \in sched : IsPast(d, date, table)}
<1>1. \A d \in past : d \in Dates /\ table[d] \in Rates
  BY DEF MissingDays, Fixings
<1>2. {<<d, table[d]>> : d \in past} \in SUBSET (Dates \X Rates)
  BY <1>1
<1>3. sched \ past \in SUBSET Dates
  OBVIOUS
<1>4. QED
  BY <1>2, <1>3 DEF Split, Resolution

\* One that throws half way leaves the realized part of the last success.
LEMMA ResolveIntoTyped ==
  ASSUME NEW o \in Resolution, NEW sched \in SUBSET Dates, NEW date, NEW table \in Fixings
  PROVE  ResolveInto(o, sched, date, table) \in Resolution
<1>1. CASE MissingDays(sched, date, table) = {}
  BY <1>1, SplitTyped DEF ResolveInto
<1>2. CASE MissingDays(sched, date, table) # {}
  <2> DEFINE kept == {d \in sched : /\ ~IsPast(d, date, table)
                                    /\ \A m \in MissingDays(sched, date, table) : d < m}
  <2>1. kept \in SUBSET Dates
    OBVIOUS
  <2>2. ResolveInto(o, sched, date, table) = [o EXCEPT !.subs = kept]
    BY <1>2 DEF ResolveInto
  <2>3. QED
    BY <2>1, <2>2 DEF Resolution
<1>3. QED
  BY <1>1, <1>2

LEMMA SchedulesTyped == \A o \in Obs : Schedule[o] \in SUBSET Dates
  BY SessionAssumption DEF SessionAssumption

LEMMA UnresolvedTyped == Unresolved \in Resolution
  BY DEF Unresolved, Resolution

LEMMA ResolutionInit == Init => ResolutionInv
<1> SUFFICES ASSUME Init PROVE ResolutionInv
  OBVIOUS
<1>1. evalDate \in Dates \cup {0} /\ fixings \in Fixings
  BY DEF Init, Fixings
<1>2. obs = [o \in Obs |-> ResolveInto(Unresolved, Schedule[o], evalDate, fixings)]
  BY DEF Init
<1>3. obs \in [Obs -> Resolution]
  BY <1>1, <1>2, SchedulesTyped, UnresolvedTyped, ResolveIntoTyped
<1>4. nUnresolved = Cardinality({o \in Obs : Missing(o) # {}})
  BY DEF Init, Missing
<1>5. \A o \in Obs : Missing(o) = {} => obs[o] = Split(Schedule[o], evalDate, fixings)
  BY <1>2 DEF Missing, ResolveInto
<1>6. QED
  BY <1>1, <1>3, <1>4, <1>5 DEF ResolutionInv

\* set_evaluation_date() and set_fixings() resolve every observation anew.
LEMMA ResolvedAnew ==
  ResolutionInv /\ ResolveFixings /\ evalDate' \in Dates \cup {0} /\ fixings' \in Fixings
     => ResolutionInv'
<1> SUFFICES ASSUME ResolutionInv, ResolveFixings,
                    evalDate' \in Dates \cup {0}, fixings' \in Fixings
             PROVE  ResolutionInv'
  OBVIOUS
<1>1. obs' = [o \in Obs |-> ResolveInto(obs[o], Schedule[o], evalDate', fixings')]
  BY DEF ResolveFixings
<1>2. obs' \in [Obs -> Resolution]
  <2>1. \A o \in Obs : ResolveInto(obs[o], Schedule[o], evalDate', fixings') \in Resolution
    BY SchedulesTyped, ResolveIntoTyped DEF ResolutionInv
  <2>2. QED
    BY <1>1, <2>1
<1>3. nUnresolved' = Cardinality({o \in Obs : MissingDays(Schedule[o], evalDate', fixings') # {}})
  BY DEF ResolveFixings
<1>4. \A o \in Obs : MissingDays(Schedule[o], evalDate', fixings') = {}
                        => obs'[o] = Split(Schedule[o], evalDate', fixings')
  BY <1>1 DEF ResolveInto
<1>5. QED
  BY <1>2, <1>3, <1>4 DEF ResolutionInv, Missing

----------------------------------------------------------------------------
(* The engine, the streamer and the report.                                *)

\* The engine is of the live inputs or not there; the streamer is on it, and on the live
\* bands or flagged; the curve is that of the report.
SolveInv ==
    /\ q \in Markets /\ bands \in Bands
    /\ engine # None => engine = Inputs
    /\ stream \in Streams \cup {None}
    /\ stream # None => /\ engine # None /\ armed
                        /\ bandsChanged \/ stream.bands = bands
    /\ armed \in BOOLEAN /\ bandsChanged \in BOOLEAN
    /\ x \in InputSet \cup {None}
    /\ result \in Reports \cup {None}
    /\ IF result = None THEN x = None ELSE result.x = x

\* The call answered with a curve, and it is that of the inputs the call left.
Answers ==
    ret' = "curve" /\ result' \in Reports /\ result'.x = Inputs'

\* The call answered with none, and left the report alone.
Abstains == ret' \in {"none", "threw"} /\ UNCHANGED result

Kept == SolveInv' /\ Inputs' \in InputSet /\ (Answers \/ Abstains)

LEMMA NoneIsNoRecord ==
  /\ \A e \in InputSet : e # None
  /\ \A s \in Streams : s # None
  /\ \A r \in Reports : r # None
  /\ \A t \in Twins : t # None
  BY SessionAssumption DEF SessionAssumption

\* Re-quoting the engine, and the inputs, at a market and a band setting.
LEMMA RequotedAt ==
  ASSUME NEW qq, NEW bb, engine # None, engine = Inputs
  PROVE  Requoted(engine, [q |-> qq, bands |-> bb, obs |-> obs]) = [q |-> qq, bands |-> bb, obs |-> obs]
  BY DEF Requoted, Inputs

LEMMA InputsMoved ==
  ASSUME NEW qq, NEW bb
  PROVE  /\ [Inputs EXCEPT !.q = qq] = [q |-> qq, bands |-> bands, obs |-> obs]
         /\ [Inputs EXCEPT !.bands = bb] = [q |-> q, bands |-> bb, obs |-> obs]
         /\ [Inputs EXCEPT !.q = qq, !.bands = bb] = [q |-> qq, bands |-> bb, obs |-> obs]
<1>1. PICK once : once = [Inputs EXCEPT !.q = qq]
  OBVIOUS
<1>2. once = [q |-> qq, bands |-> bands, obs |-> obs]
  BY <1>1 DEF Inputs
<1>3. [once EXCEPT !.bands = bb] = [q |-> qq, bands |-> bb, obs |-> obs]
  BY <1>2
<1>4. [Inputs EXCEPT !.q = qq, !.bands = bb] = [once EXCEPT !.bands = bb]
  BY <1>1, Zenon
<1>5. [Inputs EXCEPT !.bands = bb] = [q |-> q, bands |-> bb, obs |-> obs]
  BY DEF Inputs
<1>6. QED
  BY <1>1, <1>2, <1>3, <1>4, <1>5, Zenon

\* A tick on the live engine and a streamer on its bands: converged, it streams to the
\* inputs; failed, LM solves them; refused, it leaves a streamer on the live bands.
LEMMA TickStep ==
  ASSUME SolveInv, NEW in \in InputSet, NEW s \in Streams, s.bands = in.bands,
         Tick(in, s, in), Inputs' = in, armed' = TRUE, bandsChanged' = FALSE
  PROVE  Kept
<1>1. engine' = in
  BY DEF Tick
<1>2. q' = in.q /\ bands' = in.bands /\ in.q \in Markets /\ in.bands \in Bands
  BY DEF Inputs, InputSet
<1>3. CASE x' = Streamed(in, s, in.q) /\ result' = [x |-> x', converged |-> TRUE]
           /\ stream' = [s EXCEPT !.at = x'] /\ ret' = "curve"
  <2>1. x' = in
    BY <1>3 DEF Streamed, InputSet
  <2>2. stream' \in Streams /\ stream'.bands = in.bands
    BY <1>3, <2>1 DEF Streams
  <2>3. result' \in Reports /\ result'.x = in
    BY <1>3, <2>1 DEF Reports
  <2>4. QED
    BY <1>1, <1>2, <1>3, <2>1, <2>2, <2>3, NoneIsNoRecord DEF Kept, SolveInv, Answers
<1>4. CASE LmSolve(in) /\ stream' = Anchored(in.bands, x') /\ ret' = "curve"
  <2>1. x' = in /\ result' \in Reports /\ result'.x = in
    BY <1>4 DEF LmSolve, Reports
  <2>2. stream' \in Streams /\ stream'.bands = in.bands
    BY <1>2, <1>4, <2>1 DEF Anchored, Streams
  <2>3. QED
    BY <1>1, <1>2, <1>4, <2>1, <2>2, NoneIsNoRecord DEF Kept, SolveInv, Answers
<1>5. CASE stream' = s /\ ret' = "threw" /\ UNCHANGED solveVars
  <2>1. x' = x /\ result' = result
    BY <1>5 DEF solveVars
  <2>2. QED
    BY <1>1, <1>2, <1>5, <2>1, NoneIsNoRecord DEF Kept, SolveInv, Abstains
<1>6. QED
  BY <1>3, <1>4, <1>5, Zenon DEF Tick

\* warm_solve() at the inputs qq, bb: every entry point that lands quotes or bands and then
\* solves.  What it needs of them is that a move of the bands was flagged.
LEMMA WarmSolveStep ==
  ASSUME ResolutionInv, SolveInv, NEW qq \in Markets, NEW bb \in Bands, NEW changed \in BOOLEAN,
         changed \/ (~bandsChanged /\ bb = bands),
         WarmSolve([q |-> qq, bands |-> bb, obs |-> obs], changed), UNCHANGED obs
  PROVE  Kept
<1> DEFINE in    == [q |-> qq, bands |-> bb, obs |-> obs]
           e     == Requoted(engine, in)
           table == IF stream = None \/ changed THEN Anchored(bb, x) ELSE stream
<1>1. in \in InputSet /\ in # None
  BY NoneIsNoRecord DEF ResolutionInv, InputSet
<1>2. (e = None <=> engine = None) /\ (e # None => e = in) /\ Ensured(e, in) = in
  <2>1. CASE engine = None
    BY <1>1, <2>1 DEF Requoted, Ensured
  <2>2. CASE engine # None
    BY <1>1, <2>2, RequotedAt DEF SolveInv, Ensured
  <2>3. QED
    BY <2>1, <2>2
<1>3. q' = qq /\ bands' = bb /\ Inputs' = in
  BY DEF WarmSolve, Inputs
<1>4. table \in Streams /\ table.bands = bb
  BY DEF SolveInv, Anchored, Streams
<1>5. CASE stream = None /\ e = None /\ ~Compiles(in) /\ Throws(e, stream, changed) /\ UNCHANGED armed
  <2>1. engine' = None /\ stream' = None /\ bandsChanged' = changed
    BY <1>5 DEF Throws
  <2>2. x' = x /\ result' = result /\ armed' = armed /\ ret' = "threw"
    BY <1>5 DEF Throws, solveVars
  <2>3. QED
    BY <1>1, <1>3, <2>1, <2>2 DEF Kept, SolveInv, Abstains
<1>6. CASE Tick(in, table, in) /\ armed' = TRUE /\ bandsChanged' = FALSE
  <2>1. PICK live, on : live = in /\ on = table
    OBVIOUS
  <2>2. Tick(live, on, live)
    BY <1>6, <2>1 DEF Tick
  <2>3. QED
    BY <1>1, <1>3, <1>4, <1>6, <2>1, <2>2, TickStep
<1>7. QED
  <2>1. \/ /\ stream = None /\ e = None /\ ~Compiles(in)
           /\ Throws(e, stream, changed) /\ UNCHANGED armed
        \/ Tick(Ensured(e, in), table, in) /\ armed' = TRUE /\ bandsChanged' = FALSE
    BY Zenon DEF WarmSolve
  <2>2. CASE Tick(Ensured(e, in), table, in) /\ armed' = TRUE /\ bandsChanged' = FALSE
    <3>1. Tick(in, table, in)
      BY <1>2, <2>2 DEF Tick
    <3>2. QED
      BY <1>6, <2>2, <3>1
  <2>3. QED
    BY <1>5, <2>1, <2>2

\* stream_update() to qq on the bands bb, once the engine is on them and the streamer is
\* too, or is flagged.
LEMMA StreamToStep ==
  ASSUME ResolutionInv, SolveInv, NEW qq \in Markets, NEW bb \in Bands, NEW changed \in BOOLEAN,
         NEW e, NEW s \in Streams \cup {None},
         e = IF engine = None THEN None ELSE [q |-> q, bands |-> bb, obs |-> obs],
         s # None => e # None /\ armed /\ (changed \/ s.bands = bb),
         StreamTo(qq, bb, e, s, changed), UNCHANGED obs
  PROVE  Kept
<1> DEFINE held  == [q |-> q, bands |-> bb, obs |-> obs]
           in    == [q |-> qq, bands |-> bb, obs |-> obs]
           built == Ensured(e, held)
           table == IF s = None THEN Anchored(bb, x) ELSE s
           stale == s # None /\ changed
           on    == IF stale THEN Anchored(bb, x) ELSE table
<1>1. held \in InputSet /\ in \in InputSet /\ held # None
  BY NoneIsNoRecord DEF ResolutionInv, SolveInv, InputSet
<1>2. built = held /\ Requoted(built, in) = in /\ [held EXCEPT !.q = qq] = in
  <2>1. built = held
    BY <1>1 DEF Ensured
  <2>2. Requoted(held, in) = in
    BY <1>1 DEF Requoted
  <2>3. [held EXCEPT !.q = qq] = in
    OBVIOUS
  <2> HIDE DEF built, held, in
  <2>4. QED
    BY <2>1, <2>2, <2>3
<1>3. Anchored(bb, x) \in Streams /\ Anchored(bb, x).bands = bb
  BY DEF SolveInv, Anchored, Streams
<1>4. bands' = bb /\ armed' = armed
  BY DEF StreamTo
<1>5. table \in Streams /\ table # None /\ (stale \/ table.bands = bb)
  BY <1>3, NoneIsNoRecord
<1>6. CASE /\ s = None /\ (~armed \/ (e = None /\ ~Compiles(held)))
           /\ Throws(e, s, changed)
           /\ UNCHANGED q
  <2>1. engine' = e /\ stream' = None /\ bandsChanged' = changed /\ ret' = "threw"
    BY <1>6 DEF Throws
  <2>2. x' = x /\ result' = result
    BY <1>6 DEF Throws, solveVars
  <2>3. Inputs' = held
    BY <1>4, <1>6 DEF Inputs
  <2>4. engine' # None => engine' = Inputs'
    BY <2>1, <2>3
  <2>5. QED
    BY <1>1, <1>4, <1>6, <2>1, <2>2, <2>3, <2>4 DEF Kept, SolveInv, Abstains
<1>7. CASE armed /\ Throws(built, table, stale) /\ UNCHANGED q
  <2>1. engine' = held /\ stream' = table /\ bandsChanged' = stale /\ ret' = "threw"
    BY <1>2, <1>7 DEF Throws
  <2>2. x' = x /\ result' = result
    BY <1>7 DEF Throws, solveVars
  <2>3. Inputs' = held
    BY <1>4, <1>7 DEF Inputs
  <2>4. stale \in BOOLEAN
    OBVIOUS
  <2> HIDE DEF table, stale, held
  <2>5. QED
    BY <1>1, <1>4, <1>5, <1>7, <2>1, <2>2, <2>3, <2>4 DEF Kept, SolveInv, Abstains
<1>8. CASE armed /\ q' = qq /\ Tick(Requoted(built, in), on, in) /\ bandsChanged' = FALSE
  <2>1. PICK live, tracked : live = in /\ tracked = on
    OBVIOUS
  <2>2. Tick(live, tracked, live)
    BY <1>2, <1>8, <2>1 DEF Tick
  <2>3. on \in Streams /\ on.bands = bb
    BY <1>3, <1>5
  <2>4. Inputs' = in
    BY <1>4, <1>8 DEF Inputs
  <2>5. armed' = TRUE
    BY <1>4, <1>8 DEF SolveInv
  <2>6. QED
    BY <1>1, <1>8, <2>1, <2>2, <2>3, <2>4, <2>5, TickStep
<1>9. QED
  <2>1. \/ /\ s = None /\ (~armed \/ (e = None /\ ~Compiles(held)))
           /\ Throws(e, s, changed)
           /\ UNCHANGED q
        \/ armed /\ Throws(built, table, stale) /\ UNCHANGED q
        \/ armed /\ q' = qq /\ Tick(Requoted(built, [held EXCEPT !.q = qq]), on, [held EXCEPT !.q = qq])
           /\ bandsChanged' = FALSE
    BY Zenon DEF StreamTo
  <2>2. CASE armed /\ q' = qq /\ bandsChanged' = FALSE
             /\ Tick(Requoted(built, [held EXCEPT !.q = qq]), on, [held EXCEPT !.q = qq])
    <3>1. Tick(Requoted(built, in), on, in)
      BY <1>2, <2>2 DEF Tick
    <3>2. QED
      BY <1>8, <2>2, <3>1
  <2>3. QED
    BY <1>6, <1>7, <2>1, <2>2

\* A call that leaves the report, the curve and the streamer alone, and the engine on the
\* inputs it leaves.
LEMMA QuietStep ==
  ASSUME SolveInv, Inputs' \in InputSet, engine' # None => engine' = Inputs',
         stream' = stream, stream # None => engine' # None,
         armed' = armed, bandsChanged' \in BOOLEAN,
         bandsChanged' \/ (~bandsChanged /\ bands' = bands),
         x' = x, result' = result, ret' \in {"none", "threw"}
  PROVE  Kept
<1>1. q' \in Markets /\ bands' \in Bands
  BY DEF Inputs, InputSet
<1>2. stream' # None => engine' # None /\ armed' /\ (bandsChanged' \/ stream'.bands = bands')
  BY DEF SolveInv
<1>3. QED
  BY <1>1, <1>2 DEF Kept, SolveInv, Abstains

LEMMA InputsTyped == ResolutionInv /\ SolveInv => Inputs \in InputSet
  BY DEF ResolutionInv, SolveInv, Inputs, InputSet

\* A change of fixings or date: where the bundle has observations, the engine and the
\* streamer go; where it has none, nothing they read has changed.
LEMMA RefixedStep ==
  ASSUME ResolutionInv, SolveInv, ResolutionInv', ResolveFixings, ret' = "none",
         UNCHANGED <<q, bands, armed, bandsChanged, solveVars>>
  PROVE  Kept
<1>1. q' = q /\ bands' = bands /\ armed' = armed /\ bandsChanged' = bandsChanged
  OBVIOUS
<1>2. x' = x /\ result' = result
  BY DEF solveVars
<1>3. Inputs' \in InputSet
  BY <1>1 DEF ResolutionInv, SolveInv, Inputs, InputSet
<1>4. CASE Obs # {}
  <2>1. engine' = None /\ stream' = None
    BY <1>4 DEF ResolveFixings, InvalidateEngine
  <2>2. QED
    BY <1>1, <1>2, <1>3, <2>1 DEF Kept, SolveInv, Abstains
<1>5. CASE Obs = {}
  <2>1. engine' = engine /\ stream' = stream
    BY <1>5 DEF ResolveFixings
  <2>2. obs' = obs
    BY <1>5 DEF ResolutionInv
  <2>3. Inputs' = Inputs
    BY <1>1, <2>2 DEF Inputs
  <2>4. QED
    BY <1>1, <1>2, <1>3, <2>1, <2>3, QuietStep DEF SolveInv
<1>6. QED
  BY <1>4, <1>5

\* Every action, by the family it belongs to.
LEMMA SolveStep ==
  ResolutionInv /\ ResolutionInv' /\ SolveInv /\ Next => Kept
<1> SUFFICES ASSUME ResolutionInv, ResolutionInv', SolveInv, Next
             PROVE  Kept
  OBVIOUS
<1>0. Inputs \in InputSet /\ Inputs # None
  BY InputsTyped, NoneIsNoRecord
<1>1. ASSUME Refuse PROVE Kept
  <2>1. UNCHANGED <<q, bands, obs, engine, stream, armed, bandsChanged, x, result>> /\ ret' = "threw"
    BY <1>1 DEF Refuse, probVars, streamVars, solveVars
  <2>2. Inputs' = Inputs
    BY <2>1 DEF Inputs
  <2>3. QED
    BY <1>0, <2>1, <2>2, QuietStep DEF SolveInv
<1>2. ASSUME Calibrate PROVE Kept
  <2>1. UNCHANGED <<q, bands, obs, stream, armed, bandsChanged>>
    BY <1>2 DEF Calibrate, probVars, streamVars
  <2>2. Inputs' = Inputs
    BY <2>1 DEF Inputs
  <2>3. CASE engine' = Ensured(engine, Inputs) /\ LmSolve(engine') /\ ret' = "curve"
    <3>1. engine' = Inputs
      BY <2>3 DEF Ensured, SolveInv
    <3>2. x' = Inputs /\ result' \in Reports /\ result'.x = Inputs
      BY <1>0, <2>3, <3>1 DEF LmSolve, Reports
    <3>3. QED
      BY <1>0, <2>1, <2>2, <2>3, <3>1, <3>2, NoneIsNoRecord DEF Kept, SolveInv, Answers
  <2>4. CASE ret' = "threw" /\ UNCHANGED <<engine, solveVars>>
    <3>1. x' = x /\ result' = result /\ engine' = engine
      BY <2>4 DEF solveVars
    <3>2. QED
      BY <1>0, <2>1, <2>2, <2>4, <3>1, QuietStep DEF SolveInv
  <2>5. QED
    BY <1>2, <2>3, <2>4, Zenon DEF Calibrate
<1>3. ASSUME Resolve PROVE Kept
  <2>2. WarmSolve([q |-> q, bands |-> bands, obs |-> obs], bandsChanged) /\ UNCHANGED obs
    BY <1>3, Zenon DEF Resolve, Inputs
  <2>3. PICK qq, bb, flag : qq = q /\ bb = bands /\ flag = bandsChanged
    OBVIOUS
  <2>4. WarmSolve([q |-> qq, bands |-> bb, obs |-> obs], flag)
    BY <2>2, <2>3 DEF WarmSolve, Tick, Throws
  <2>5. QED
    BY <2>2, <2>3, <2>4, WarmSolveStep DEF SolveInv
<1>4. ASSUME NEW qq \in Markets, Recalibrate(qq) PROVE Kept
  <2>1. WarmSolve([Inputs EXCEPT !.q = qq], bandsChanged) /\ UNCHANGED obs
    BY <1>4, Zenon DEF Recalibrate
  <2>2. PICK bb, flag : bb = bands /\ flag = bandsChanged
    OBVIOUS
  <2>3. [Inputs EXCEPT !.q = qq] = [q |-> qq, bands |-> bb, obs |-> obs]
    BY <2>2, InputsMoved
  <2>4. WarmSolve([q |-> qq, bands |-> bb, obs |-> obs], flag)
    BY <2>1, <2>2, <2>3 DEF WarmSolve, Tick, Throws
  <2>5. QED
    BY <2>1, <2>2, <2>4, WarmSolveStep DEF SolveInv
<1>5. ASSUME NEW qq \in Markets, NEW bb \in Bands, Rebind(qq, bb) PROVE Kept
  <2>1. /\ WarmSolve([Inputs EXCEPT !.q = qq, !.bands = bb], bandsChanged \/ bb # bands)
        /\ UNCHANGED obs
    BY <1>5, Zenon DEF Rebind
  <2>2. PICK flag : flag = (bandsChanged \/ bb # bands)
    OBVIOUS
  <2>3. [Inputs EXCEPT !.q = qq, !.bands = bb] = [q |-> qq, bands |-> bb, obs |-> obs]
    BY InputsMoved
  <2>4. WarmSolve([q |-> qq, bands |-> bb, obs |-> obs], flag)
    BY <2>1, <2>2, <2>3 DEF WarmSolve, Tick, Throws
  <2>5. QED
    BY <2>1, <2>2, <2>4, WarmSolveStep DEF SolveInv
<1>6. ASSUME NEW qq \in Markets, SetMarket(qq) PROVE Kept
  <2>1. /\ UNCHANGED <<bands, obs, stream, armed, bandsChanged, x, result>>
        /\ q' = qq /\ ret' = "none" /\ engine' = Requoted(engine, [Inputs EXCEPT !.q = qq])
    BY <1>6 DEF SetMarket, streamVars, solveVars
  <2>2. Inputs' = [q |-> qq, bands |-> bands, obs |-> obs]
    BY <2>1 DEF Inputs
  <2>3. Inputs' \in InputSet
    BY <2>2 DEF ResolutionInv, SolveInv, InputSet
  <2>4. engine # None => engine' = Inputs'
    <3>1. [Inputs EXCEPT !.q = qq] = [q |-> qq, bands |-> bands, obs |-> obs]
      BY InputsMoved
    <3>2. engine # None => engine' = Requoted(engine, [q |-> qq, bands |-> bands, obs |-> obs])
      BY <2>1, <3>1
    <3>3. QED
      BY <2>2, <3>2, RequotedAt DEF SolveInv
  <2>5. engine = None => engine' = None
    BY <2>1 DEF Requoted
  <2>6. QED
    BY <2>1, <2>3, <2>4, <2>5, NoneIsNoRecord, QuietStep DEF SolveInv
<1>7. ASSUME NEW bb \in Bands, SetBand(bb) PROVE Kept
  <2>1. /\ UNCHANGED <<q, obs, stream, armed, x, result>>
        /\ bands' = bb /\ bandsChanged' = TRUE /\ ret' = "none"
        /\ engine' = Requoted(engine, [Inputs EXCEPT !.bands = bb])
    BY <1>7 DEF SetBand, solveVars
  <2>2. Inputs' = [q |-> q, bands |-> bb, obs |-> obs]
    BY <2>1 DEF Inputs
  <2>3. Inputs' \in InputSet
    BY <2>2 DEF ResolutionInv, SolveInv, InputSet
  <2>4. engine # None => engine' = Inputs'
    <3>1. [Inputs EXCEPT !.bands = bb] = [q |-> q, bands |-> bb, obs |-> obs]
      BY InputsMoved
    <3>2. engine # None => engine' = Requoted(engine, [q |-> q, bands |-> bb, obs |-> obs])
      BY <2>1, <3>1
    <3>3. QED
      BY <2>2, <3>2, RequotedAt DEF SolveInv
  <2>5. engine = None => engine' = None
    BY <2>1 DEF Requoted
  <2>6. QED
    BY <2>1, <2>3, <2>4, <2>5, NoneIsNoRecord, QuietStep DEF SolveInv
<1>8. ASSUME StartStreaming PROVE Kept
  <2>1. UNCHANGED <<q, bands, obs, x, result>>
    BY <1>8 DEF StartStreaming, probVars, solveVars
  <2>2. Inputs' = Inputs
    BY <2>1 DEF Inputs
  <2>3. CASE /\ engine' = Ensured(engine, Inputs) /\ stream' = Anchored(bands, x)
             /\ armed' = TRUE /\ bandsChanged' = FALSE /\ ret' = "none"
    <3>1. engine' = Inputs
      BY <2>3 DEF Ensured, SolveInv
    <3>2. stream' \in Streams /\ stream'.bands = bands
      BY <2>3 DEF Anchored, Streams, SolveInv
    <3>3. QED
      BY <1>0, <2>1, <2>2, <2>3, <3>1, <3>2 DEF Kept, SolveInv, Abstains
  <2>4. CASE ret' = "threw" /\ UNCHANGED <<engine, streamVars>>
    <3>1. UNCHANGED <<engine, stream, armed, bandsChanged>>
      BY <2>4 DEF streamVars
    <3>2. QED
      BY <1>0, <2>1, <2>2, <2>4, <3>1, QuietStep DEF SolveInv
  <2>5. QED
    BY <1>8, <2>3, <2>4, Zenon DEF StartStreaming
<1>9. ASSUME NEW qq \in Markets, StreamUpdate(qq) PROVE Kept
  <2>1. StreamTo(qq, bands, engine, stream, bandsChanged) /\ UNCHANGED obs
    BY <1>9, Zenon DEF StreamUpdate
  <2>2. PICK bb, e, s, flag : bb = bands /\ e = engine /\ s = stream /\ flag = bandsChanged
    OBVIOUS
  <2>3. StreamTo(qq, bb, e, s, flag)
    BY <2>1, <2>2 DEF StreamTo, Tick, Throws
  <2>4. e = IF engine = None THEN None ELSE [q |-> q, bands |-> bb, obs |-> obs]
    BY <2>2 DEF SolveInv, Inputs
  <2>5. s # None => e # None /\ armed /\ (flag \/ s.bands = bb)
    BY <2>2 DEF SolveInv
  <2>6. QED
    BY <2>1, <2>2, <2>3, <2>4, <2>5, StreamToStep DEF SolveInv
<1>10. ASSUME NEW qq \in Markets, NEW bb \in Bands, StreamQuotes(qq, bb) PROVE Kept
  <2> DEFINE moved   == bb # bands
             inPlace == moved /\ stream # None /\ InPlace(stream, bb)
             table   == IF inPlace THEN [stream EXCEPT !.bands = bb] ELSE stream
             flagged == bandsChanged \/ (moved /\ stream # None /\ ~inPlace)
             quoted  == Requoted(engine, [Inputs EXCEPT !.bands = bb])
  <2>1. StreamTo(qq, bb, quoted, table, flagged) /\ UNCHANGED obs
    BY <1>10, Zenon DEF StreamQuotes
  <2>2. PICK e, s, flag : e = quoted /\ s = table /\ flag = flagged
    OBVIOUS
  <2>3. StreamTo(qq, bb, e, s, flag)
    <3> HIDE DEF quoted, table, flagged
    <3>1. QED
      BY <2>1, <2>2 DEF StreamTo, Tick, Throws
  <2>4. e = IF engine = None THEN None ELSE [q |-> q, bands |-> bb, obs |-> obs]
    <3>1. [Inputs EXCEPT !.bands = bb] = [q |-> q, bands |-> bb, obs |-> obs]
      BY InputsMoved
    <3>2. CASE engine = None
      BY <2>2, <3>2 DEF Requoted
    <3>3. CASE engine # None
      BY <2>2, <3>1, <3>3, RequotedAt DEF SolveInv
    <3>4. QED
      BY <3>2, <3>3
  <2>5. s \in Streams \cup {None} /\ (s # None => stream # None)
    BY <2>2 DEF SolveInv, Streams
  <2>6. s # None => flag \/ s.bands = bb
    BY <2>2 DEF SolveInv, Streams
  <2>7. s # None => e # None /\ armed
    <3>1. stream # None => e = [q |-> q, bands |-> bb, obs |-> obs] /\ armed
      BY <2>4 DEF SolveInv
    <3>2. [q |-> q, bands |-> bb, obs |-> obs] # None
      BY NoneIsNoRecord DEF ResolutionInv, SolveInv, InputSet
    <3>3. QED
      BY <2>5, <3>1, <3>2
  <2>8. flag \in BOOLEAN
    BY <2>2 DEF SolveInv
  <2>9. QED
    BY <2>1, <2>3, <2>4, <2>5, <2>6, <2>7, <2>8, StreamToStep
<1>11. ASSUME NEW date \in Dates, SetEvaluationDate(date) PROVE Kept
  BY <1>11, RefixedStep DEF SetEvaluationDate
<1>12. ASSUME NEW d \in Dates, NEW rate \in Rates, SetFixings(d, rate) PROVE Kept
  BY <1>12, RefixedStep DEF SetFixings
<1>13. ASSUME Query PROVE Kept
  <2>1. /\ UNCHANGED <<q, bands, obs, stream, armed, bandsChanged, x, result>>
        /\ ret' = "none" /\ engine' = Inputs
    BY <1>13 DEF Query, probVars, streamVars, solveVars
  <2>2. Inputs' = Inputs
    BY <2>1 DEF Inputs
  <2>3. QED
    BY <1>0, <2>1, <2>2, QuietStep DEF SolveInv
<1>14. ASSUME RepriceBound \/ \E b \in Books : BindPortfolio(b) PROVE Kept
  <2>1. /\ UNCHANGED <<q, bands, obs, engine, stream, armed, bandsChanged, x, result>>
        /\ ret' \in {"none", "threw"}
    BY <1>14 DEF RepriceBound, BindPortfolio, RebuildTwin, probVars, streamVars, solveVars
  <2>2. Inputs' = Inputs
    BY <2>1 DEF Inputs
  <2>3. QED
    BY <1>0, <2>1, <2>2, QuietStep DEF SolveInv
<1>15. QED
  BY <1>1, <1>2, <1>3, <1>4, <1>5, <1>6, <1>7, <1>8, <1>9, <1>10, <1>11, <1>12, <1>13, <1>14,
     Zenon DEF Next

----------------------------------------------------------------------------
(* The steps of the whole session.                                         *)

LEMMA ResolutionStep == ResolutionInv /\ [Next]_vars => ResolutionInv'
<1> SUFFICES ASSUME ResolutionInv, [Next]_vars PROVE ResolutionInv'
  OBVIOUS
<1>1. CASE UNCHANGED <<obs, fixVars>>
  BY <1>1 DEF ResolutionInv, fixVars, Missing
<1>2. ASSUME NEW date \in Dates, SetEvaluationDate(date) PROVE ResolutionInv'
  <2>1. ResolveFixings /\ evalDate' = date /\ fixings' = fixings
    BY <1>2, Zenon DEF SetEvaluationDate
  <2>2. QED
    BY <2>1, ResolvedAnew DEF ResolutionInv
<1>3. ASSUME NEW d \in Dates, NEW rate \in Rates, SetFixings(d, rate) PROVE ResolutionInv'
  <2>1. ResolveFixings /\ evalDate' = evalDate /\ fixings' = [fixings EXCEPT ![d] = rate]
    BY <1>3, Zenon DEF SetFixings
  <2>2. fixings' \in Fixings
    BY <2>1 DEF ResolutionInv, Fixings
  <2>3. QED
    BY <2>1, <2>2, ResolvedAnew DEF ResolutionInv
<1>4. CASE Refuse \/ Calibrate \/ StartStreaming \/ Query \/ RepriceBound
           \/ (\E b \in Books : BindPortfolio(b))
  <2>1. UNCHANGED <<probVars, fixVars>>
    BY <1>4 DEF Refuse, Calibrate, StartStreaming, Query, RepriceBound, BindPortfolio
  <2>2. QED
    BY <1>1, <2>1 DEF probVars
<1>5. CASE \/ Resolve
           \/ \E qq \in Markets : SetMarket(qq) \/ Recalibrate(qq) \/ StreamUpdate(qq)
           \/ \E bb \in Bands : SetBand(bb)
           \/ \E qq \in Markets, bb \in Bands : Rebind(qq, bb) \/ StreamQuotes(qq, bb)
  <2>1. UNCHANGED <<obs, fixVars>>
    BY <1>5 DEF Resolve, SetMarket, Recalibrate, StreamUpdate, SetBand, Rebind, StreamQuotes
  <2>2. QED
    BY <1>1, <2>1
<1>6. CASE UNCHANGED vars
  BY <1>1, <1>6 DEF vars, fixVars
<1>7. QED
  BY <1>2, <1>3, <1>4, <1>5, <1>6, Zenon DEF Next

LEMMA SolveInit == Init => SolveInv
<1> SUFFICES ASSUME Init PROVE SolveInv
  OBVIOUS
<1>1. q \in Markets /\ bands \in Bands
  BY SessionAssumption DEF SessionAssumption, Init
<1>2. QED
  BY <1>1 DEF SolveInv, Init

LEMMA SolveStepOrStutter ==
  ResolutionInv /\ ResolutionInv' /\ SolveInv /\ [Next]_vars => SolveInv'
<1> SUFFICES ASSUME ResolutionInv, ResolutionInv', SolveInv, [Next]_vars PROVE SolveInv'
  OBVIOUS
<1>1. CASE Next
  BY <1>1, SolveStep DEF Kept
<1>2. CASE UNCHANGED vars
  BY <1>2 DEF vars, SolveInv, Inputs
<1>3. QED
  BY <1>1, <1>2

\* A bundle with observations drops the twin with its engine; the twin of one without is
\* left to the fixings it was built from.
TwinInv ==
    /\ book \in Books \cup {None}
    /\ twin \in Twins \cup {None}
    /\ ret \in {"curve", "none", "threw"}
    /\ TwinIsCurrent

LEMMA BooksTyped == \A b \in Books : BookSchedule[b] \in SUBSET Dates
  BY SessionAssumption DEF SessionAssumption

LEMMA TwinBuilt ==
  ASSUME ResolutionInv, TwinInv, NEW b \in Books, RebuildTwin(b), UNCHANGED fixVars
  PROVE  /\ twin' \in Twins \cup {None}
         /\ TwinIsCurrent'
         /\ ret' \in {"curve", "none", "threw"}
<1> DEFINE res == Split(BookSchedule[b], evalDate, fixings)
<1>1. evalDate' = evalDate /\ fixings' = fixings
  BY DEF fixVars
<1>2. CASE MissingDays(BookSchedule[b], evalDate, fixings) = {}
           /\ twin' = [book |-> b, res |-> res] /\ ret' = "none"
  <2>1. res \in Resolution
    BY <1>2, BooksTyped, SplitTyped DEF ResolutionInv
  <2>2. QED
    BY <1>1, <1>2, <2>1 DEF Twins, TwinIsCurrent
<1>3. CASE ret' = "threw" /\ UNCHANGED twin
  BY <1>1, <1>3 DEF TwinInv, TwinIsCurrent
<1>4. QED
  BY <1>2, <1>3, Zenon DEF RebuildTwin

LEMMA TwinInit == Init => TwinInv
  BY DEF Init, TwinInv, TwinIsCurrent

LEMMA TwinStep ==
  ResolutionInv /\ ResolutionInv' /\ SolveInv /\ TwinInv /\ [Next]_vars => TwinInv'
<1> SUFFICES ASSUME ResolutionInv, ResolutionInv', SolveInv, TwinInv, [Next]_vars
             PROVE  TwinInv'
  OBVIOUS
<1>0. ret' \in {"curve", "none", "threw"}
  <2>1. CASE Next
    BY <2>1, SolveStep DEF Kept, Answers, Abstains
  <2>2. CASE UNCHANGED vars
    BY <2>2 DEF vars, TwinInv
  <2>3. QED
    BY <2>1, <2>2
<1>1. CASE UNCHANGED <<evalDate, fixings, book, twin>>
  BY <1>0, <1>1 DEF TwinInv, TwinIsCurrent
<1>2. CASE \/ \E date \in Dates : SetEvaluationDate(date)
           \/ \E d \in Dates, rate \in Rates : SetFixings(d, rate)
  <2>1. book' = book /\ ResolveFixings
    BY <1>2, Zenon DEF SetEvaluationDate, SetFixings
  <2>2. CASE Obs # {}
    BY <1>0, <2>1, <2>2 DEF ResolveFixings, InvalidateEngine, TwinInv, TwinIsCurrent
  <2>3. CASE Obs = {}
    BY <1>0, <2>1, <2>3 DEF ResolveFixings, TwinInv, TwinIsCurrent
  <2>4. QED
    BY <2>2, <2>3
<1>3. ASSUME NEW b \in Books, BindPortfolio(b) PROVE TwinInv'
  <2>1. RebuildTwin(b) /\ book' = b /\ UNCHANGED fixVars
    BY <1>3, Zenon DEF BindPortfolio
  <2>2. QED
    BY <1>0, <2>1, TwinBuilt DEF TwinInv
<1>4. CASE RepriceBound
  <2>1. book \in Books /\ book' = book /\ UNCHANGED fixVars
    BY <1>4 DEF RepriceBound, TwinInv
  <2>2. CASE twin' = twin
    BY <1>1, <2>1, <2>2 DEF fixVars
  <2>3. CASE RebuildTwin(book)
    BY <1>0, <2>1, <2>3, TwinBuilt DEF TwinInv
  <2>4. QED
    BY <1>4, <2>2, <2>3, Zenon DEF RepriceBound
<1>5. CASE Refuse \/ Calibrate \/ StartStreaming \/ Query
  BY <1>1, <1>5 DEF Refuse, Calibrate, StartStreaming, Query, fixVars, bookVars
<1>6. CASE \/ Resolve
           \/ \E qq \in Markets : SetMarket(qq) \/ Recalibrate(qq) \/ StreamUpdate(qq)
           \/ \E bb \in Bands : SetBand(bb)
           \/ \E qq \in Markets, bb \in Bands : Rebind(qq, bb) \/ StreamQuotes(qq, bb)
  <2>1. UNCHANGED <<fixVars, bookVars>>
    BY <1>6 DEF Resolve, SetMarket, Recalibrate, StreamUpdate, SetBand, Rebind, StreamQuotes
  <2>2. QED
    BY <1>1, <2>1 DEF fixVars, bookVars
<1>7. CASE UNCHANGED vars
  BY <1>1, <1>7 DEF vars
<1>8. QED
  BY <1>2, <1>3, <1>4, <1>5, <1>6, <1>7, Zenon DEF Next

SessionInv == ResolutionInv /\ SolveInv /\ TwinInv

LEMMA SessionInit == Init => SessionInv
  BY ResolutionInit, SolveInit, TwinInit DEF SessionInv

LEMMA SessionStep == SessionInv /\ [Next]_vars => SessionInv'
  BY ResolutionStep, SolveStepOrStutter, TwinStep DEF SessionInv

LEMMA SessionInvariant == Spec => []SessionInv
  BY SessionInit, SessionStep, PTL DEF Spec

----------------------------------------------------------------------------
(* The theorems.                                                           *)

\* BundleSession's members stay of their types, and the count of unresolved observations
\* within the observations there are.
THEOREM SessionTyped == Spec => []TypeOK
<1>1. SessionInv => TypeOK
  <2> SUFFICES ASSUME SessionInv PROVE TypeOK
    OBVIOUS
  <2>1. Inputs \in InputSet
    BY InputsTyped DEF SessionInv
  <2>2. nUnresolved \in 0..Cardinality(Obs)
    <3> DEFINE missing == {o \in Obs : Missing(o) # {}}
    <3>1. IsFiniteSet(Obs) /\ missing \in SUBSET Obs
      BY SessionAssumption DEF SessionAssumption
    <3>2. IsFiniteSet(missing) /\ Cardinality(missing) <= Cardinality(Obs)
      BY <3>1, FS_Subset
    <3>3. Cardinality(missing) \in Nat /\ Cardinality(Obs) \in Nat
      BY <3>1, <3>2, FS_CardinalityType
    <3>4. QED
      BY <3>2, <3>3 DEF SessionInv, ResolutionInv
  <2>3. engine \in InputSet \cup {None}
    BY <2>1 DEF SessionInv, SolveInv
  <2>4. QED
    BY <2>1, <2>2, <2>3 DEF TypeOK, SessionInv, ResolutionInv, SolveInv, TwinInv
<1>2. QED
  BY <1>1, SessionInvariant, PTL

\* ensure_engine() never hands out an engine of other inputs than the session's.
THEOREM EngineStaysLive == Spec => []EngineIsLive
<1>1. SessionInv => EngineIsLive
  BY DEF SessionInv, SolveInv, EngineIsLive
<1>2. QED
  BY <1>1, SessionInvariant, PTL

\* The streamer never outlives its engine, nor walks by bands that moved unnoticed.
THEOREM StreamerStaysCurrent == Spec => []StreamerIsCurrent
<1>1. SessionInv => StreamerIsCurrent
  BY DEF SessionInv, SolveInv, StreamerIsCurrent
<1>2. QED
  BY <1>1, SessionInvariant, PTL

\* result().x and x() are the same curve after every call, one that threw included.
THEOREM ReportStaysCurve == Spec => []ReportIsCurve
<1>1. SessionInv => ReportIsCurve
  BY DEF SessionInv, SolveInv, ReportIsCurve
<1>2. QED
  BY <1>1, SessionInvariant, PTL

\* With nothing reported missing, every observation is split by the fixings of the moment.
THEOREM ResolutionStaysCurrent == Spec => []ResolutionIsCurrent
<1>1. SessionInv => ResolutionIsCurrent
  <2> SUFFICES ASSUME SessionInv, nUnresolved = 0
               PROVE  \A o \in Obs : obs[o] = Split(Schedule[o], evalDate, fixings)
    BY DEF ResolutionIsCurrent
  <2> DEFINE missing == {o \in Obs : Missing(o) # {}}
  <2>1. IsFiniteSet(Obs) /\ missing \in SUBSET Obs
    BY SessionAssumption DEF SessionAssumption
  <2>2. IsFiniteSet(missing)
    BY <2>1, FS_Subset
  <2>3. Cardinality(missing) = 0
    BY DEF SessionInv, ResolutionInv
  <2>4. missing = {}
    BY <2>2, <2>3, FS_EmptySet
  <2>5. QED
    BY <2>4 DEF SessionInv, ResolutionInv
<1>2. QED
  BY <1>1, SessionInvariant, PTL

\* The bound book's twin is of the fixings of the moment, where the bundle has observations.
THEOREM TwinStaysCurrent == Spec => []TwinIsCurrent
<1>1. SessionInv => TwinIsCurrent
  BY DEF SessionInv, TwinInv
<1>2. QED
  BY <1>1, SessionInvariant, PTL

\* BundleSession implements LiveCurve: whichever method is called, a call that answers with
\* a curve leaves one solved to the inputs it leaves, and any other leaves the curve alone.
THEOREM SessionImplementsLiveCurve == Spec => ImplementsLiveCurve
<1>1. Init => Live!LiveInit
  <2> SUFFICES ASSUME Init PROVE Live!LiveInit
    OBVIOUS
  <2>1. Inputs \in InputSet
    BY SessionInit, InputsTyped DEF SessionInv
  <2>2. QED
    BY <2>1 DEF Init, Live!LiveInit
<1>2. SessionInv /\ SessionInv' /\ [Next]_vars => [Live!LiveNext]_(Live!liveVars)
  <2> SUFFICES ASSUME SessionInv, SessionInv', [Next]_vars
               PROVE  [Live!LiveNext]_(Live!liveVars)
    OBVIOUS
  <2>1. CASE UNCHANGED vars
    BY <2>1 DEF vars, Inputs, Live!liveVars
  <2>2. CASE Next
    <3>1. Inputs' \in InputSet /\ (Answers \/ Abstains)
      BY <2>2, SolveStep DEF SessionInv, Kept
    <3>2. CASE Answers
      <4>1. result' # None /\ result'.converged \in BOOLEAN /\ result'.x = Inputs' /\ ret' = "curve"
        BY <3>2, NoneIsNoRecord DEF Answers, Reports
      <4>2. Live!Solve
        BY <3>1, <4>1 DEF Live!Solve
      <4>3. QED
        BY <4>2 DEF Live!LiveNext
    <3>3. CASE Abstains
      <4>1. result' = result /\ ret' # "curve"
        BY <3>3 DEF Abstains
      <4>2. Live!Requote
        BY <3>1, <4>1 DEF Live!Requote
      <4>3. QED
        BY <4>2 DEF Live!LiveNext
    <3>4. QED
      BY <3>1, <3>2, <3>3
  <2>3. QED
    BY <2>1, <2>2
<1>3. QED
  BY <1>1, <1>2, SessionInvariant, PTL DEF Spec, ImplementsLiveCurve, Live!LiveSpec
=============================================================================
