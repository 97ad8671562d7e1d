------------------------------ MODULE Registry ------------------------------
(***************************************************************************)
(* The conventions registry (conventions_db.hpp) and the holiday cache     *)
(* behind it (build/calendar.hpp), the only state the threads of a process *)
(* share: an overlay of runtime rows under a shared mutex, an overlay size *)
(* and a generation read without it, and per-(calendar, year) bitmaps kept *)
(* under a mutex of their own and keyed by the generation.                 *)
(*                                                                         *)
(* Threads ask is_business_day() while others apply() batches.  One date   *)
(* is asked about, so a calendar row is what it says of that date: it is a *)
(* weekend of the row (open if a working-day rule names it), a joint       *)
(* calendar, or a weekday (open unless a rule closes it).  Rows of the     *)
(* other families are only looked up, so of them the model keeps the two   *)
(* that refer to one another: indices and fixing sources.                  *)
(***************************************************************************)
EXTENDS Integers, Sequences, FiniteSets, FiniteSetsExt

CONSTANTS
    Threads,       \* threads that ask about business days
    Cals,          \* calendar ids
    Baked,         \* the baked calendars: a row, or Unknown
    Indices,       \* index ids
    BakedIndices,  \* the baked indices
    Batches,       \* the batches callers apply, each of which passes validate()
    MaxApplies,    \* bound on the number of applied batches
    Unknown        \* no row, and no cached entry

None == "none"
Rows == [kind : {"weekend", "joint", "weekday"}, legs : Seq(Cals), open : BOOLEAN]
OverlayRows == [id : Cals, row : Rows]

ASSUME RegistryAssumption ==
    /\ Baked \in [Cals -> Rows \cup {Unknown}]
    /\ BakedIndices \subseteq Indices
    /\ Batches \subseteq [clear : BOOLEAN, cals : Seq(OverlayRows),
                          indices : Seq(Indices), sources : Seq(Indices)]
    /\ MaxApplies \in Nat
    /\ Unknown \notin Rows
    /\ IsFiniteSet(Cals) /\ None \notin Threads

VARIABLES
    cals, indices, sources,  \* calendars_ (with its rules and joins), indices_, fixing_sources_
    n, gen,                  \* overlay_n_, gen_
    apply,                   \* the apply() that holds mu_, and how far it is
    cache, cacheGen,         \* year_closed()'s cache and gen
    filler,                  \* the thread that holds year_closed()'s mu exclusively
    r                        \* each thread's query

overlayVars == <<cals, indices, sources>>
cacheVars   == <<cache, cacheGen, filler>>
vars == <<cals, indices, sources, n, gen, apply, cache, cacheGen, filler, r>>

Empty   == [c \in Cals |-> Unknown]
NoBatch == [clear |-> FALSE, cals |-> <<>>, indices |-> <<>>, sources |-> <<>>]
NoView  == [row |-> Unknown, from |-> "baked"]
NoQuery == [pc |-> "idle", cal |-> None, view |-> NoView, frames |-> <<>>, inner |-> <<>>,
            key |-> None, g |-> 0, bit |-> TRUE, ref |-> [bit |-> TRUE, held |-> TRUE],
            asked |-> None, ans |-> None, quiet |-> FALSE, stray |-> FALSE]

\* The most recent overlay row of an id, else the baked one.
Overlaid(c) == {k \in DOMAIN cals : cals[k].id = c}
Current(c)  == IF Overlaid(c) = {} THEN Baked[c] ELSE cals[Max(Overlaid(c))].row

Says(open) == IF open THEN "open" ELSE "closed"

----------------------------------------------------------------------------
(* apply().  A batch is validated, interned and reserved before it is      *)
(* committed: one that is refused changes nothing, so it is no step here.  *)

\* index_known_after().
IndexKnownAfter(b, i) ==
    \/ i \in BakedIndices
    \/ \E k \in DOMAIN b.indices : b.indices[k] = i
    \/ ~b.clear /\ \E k \in DOMAIN indices : indices[k] = i

\* The exclusive lock, and the check made under it.
LockAndCheck(b) ==
    /\ apply.pc = "idle" /\ gen < MaxApplies
    /\ \A k \in DOMAIN b.sources : IndexKnownAfter(b, b.sources[k])
    /\ apply' = [pc |-> "commit", batch |-> b]
    /\ r' = [t \in Threads |-> IF r[t].pc = "idle" THEN NoQuery ELSE [r[t] EXCEPT !.quiet = FALSE]]
    /\ UNCHANGED <<overlayVars, n, gen, cacheVars>>

\* A view of overlay storage that the commit clears away.
Dropped(v) == IF v.from = "overlay" THEN [v EXCEPT !.from = "dropped"] ELSE v
DropViews(s) ==
    [s EXCEPT !.view = Dropped(@),
              !.frames = [k \in DOMAIN @ |-> Dropped(@[k])],
              !.inner  = [k \in DOMAIN @ |-> Dropped(@[k])]]

\* clear_rows() and the appends.  Appending moves the rows' rule and join vectors and
\* leaves their elements where views point.
CommitRows ==
    LET b == apply.batch
        kept(old) == IF b.clear THEN <<>> ELSE old
    IN  /\ apply.pc = "commit"
        /\ cals' = kept(cals) \o b.cals
        /\ indices' = kept(indices) \o b.indices
        /\ sources' = kept(sources) \o b.sources
        /\ r' = IF b.clear THEN [t \in Threads |-> DropViews(r[t])] ELSE r
        /\ apply' = [apply EXCEPT !.pc = "count"]
        /\ UNCHANGED <<n, gen, cacheVars>>

RowCount(b) == Len(b.cals) + Len(b.indices) + Len(b.sources)

\* Mutant: a batch that clears keeps the old count.
StoreCountAdding ==
    /\ apply.pc = "count"
    /\ n' = n + RowCount(apply.batch)
    /\ apply' = [apply EXCEPT !.pc = "bump"]
    /\ UNCHANGED <<overlayVars, gen, cacheVars, r>>

StoreCount ==
    /\ apply.pc = "count"
    /\ n' = (IF apply.batch.clear THEN 0 ELSE n) + RowCount(apply.batch)
    /\ apply' = [apply EXCEPT !.pc = "bump"]
    /\ UNCHANGED <<overlayVars, gen, cacheVars, r>>

BumpGeneration ==
    /\ apply.pc = "bump"
    /\ gen' = gen + 1
    /\ apply' = [apply EXCEPT !.pc = "return"]
    /\ UNCHANGED <<overlayVars, n, cacheVars, r>>

Unlock ==
    /\ apply.pc = "return"
    /\ apply' = [pc |-> "idle", batch |-> NoBatch]
    /\ UNCHANGED <<overlayVars, n, gen, cacheVars, r>>

----------------------------------------------------------------------------
(* is_business_day().                                                      *)

Finished(s, v) ==
    IF s.quiet THEN [NoQuery EXCEPT !.asked = s.asked, !.ans = v, !.quiet = TRUE, !.stray = s.stray]
               ELSE NoQuery

Resumed(s) ==
    [NoQuery EXCEPT !.pc = "leg", !.frames = s.frames,
                    !.asked = s.asked, !.quiet = s.quiet, !.stray = s.stray]

\* A verdict on the calendar at hand: on the query's own, or on a leg, where the first
\* closed one settles the joint calendar.
Settle(s, v) == IF v # "open" \/ s.frames = <<>> THEN Finished(s, v) ELSE Resumed(s)

Query(t, c) ==
    /\ r[t].pc = "idle"
    /\ r' = [r EXCEPT ![t] = [NoQuery EXCEPT !.pc = "lookup", !.cal = c, !.asked = c,
                                             !.quiet = apply.pc = "idle"]]
    /\ UNCHANGED <<overlayVars, n, gen, apply, cacheVars>>

\* calendar(): an overlay of size zero is not locked.
LoadCount(t) ==
    /\ r[t].pc = "lookup"
    /\ r' = [r EXCEPT ![t] =
               IF n = 0
               THEN [@ EXCEPT !.view = [row |-> Baked[r[t].cal], from |-> "baked"], !.pc = "row"]
               ELSE [@ EXCEPT !.pc = "scan"]]
    /\ UNCHANGED <<overlayVars, n, gen, apply, cacheVars>>

\* The shared lock, the scan, and a view that outlives the lock.
ScanOverlay(t) ==
    LET c == r[t].cal
    IN  /\ r[t].pc = "scan" /\ apply.pc = "idle"
        /\ r' = [r EXCEPT ![t].view = [row  |-> Current(c),
                                       from |-> IF Overlaid(c) = {} THEN "baked" ELSE "overlay"],
                          ![t].pc = "row"]
        /\ UNCHANGED <<overlayVars, n, gen, apply, cacheVars>>

\* Mutant: the exception leaves the cache's mutex locked.
ThrowHolding(t) ==
    /\ r' = [r EXCEPT ![t] = Finished(@, "threw")]
    /\ UNCHANGED <<overlayVars, n, gen, apply, cacheVars>>

\* require_calendar() on an id nobody knows.  Whoever holds year_closed()'s lock lets go.
Throw(t) ==
    /\ r' = [r EXCEPT ![t] = Finished(@, "threw")]
    /\ filler' = IF filler = t THEN None ELSE filler
    /\ UNCHANGED <<overlayVars, n, gen, apply, cache, cacheGen>>

UnknownCalendar(t) ==
    /\ r[t].pc = "row" /\ r[t].view.row = Unknown
    /\ Throw(t)

\* What a read of a view's rules may give: what they say, or anything once dropped.
Reads(view, says) == IF view.from = "dropped" THEN BOOLEAN ELSE {says}
Stray(s) == [s EXCEPT !.stray = @ \/ s.view.from = "dropped"]

\* A weekend: open only as a working day, which the rules say.
WeekendRow(t) ==
    /\ r[t].pc = "row" /\ filler # t
    /\ r[t].view.row # Unknown /\ r[t].view.row.kind = "weekend"
    /\ \E open \in Reads(r[t].view, r[t].view.row.open) :
           r' = [r EXCEPT ![t] = Settle(Stray(@), Says(open))]
    /\ UNCHANGED <<overlayVars, n, gen, apply, cacheVars>>

\* A joint calendar, here and in holidays_serial(): its legs, in order.
JointRow(t) ==
    LET q     == r[t]
        frame == [row |-> q.view.row, from |-> q.view.from, j |-> 0]
    IN  /\ q.pc = "row"
        /\ q.view.row # Unknown /\ q.view.row.kind = "joint"
        /\ r' = [r EXCEPT ![t] =
                   IF filler = t THEN [q EXCEPT !.inner = Append(q.inner, frame), !.pc = "leg"]
                                 ELSE [q EXCEPT !.frames = Append(q.frames, frame), !.pc = "leg"]]
        /\ UNCHANGED <<overlayVars, n, gen, apply, cacheVars>>

\* The next leg of the innermost joint calendar: read from its joins, which may be gone.
NextLeg(t) ==
    LET q     == r[t]
        calls == IF filler = t THEN q.inner ELSE q.frames
        f     == calls[Len(calls)]
        moved == [calls EXCEPT ![Len(calls)].j = f.j + 1]
        legs  == IF f.from = "dropped" THEN Cals ELSE {f.row.legs[f.j + 1]}
        call(c) == [q EXCEPT !.cal = c, !.pc = "lookup", !.stray = q.stray \/ f.from = "dropped"]
    IN  /\ q.pc = "leg" /\ f.j < Len(f.row.legs)
        /\ \E c \in legs :
               r' = [r EXCEPT ![t] = IF filler = t THEN [call(c) EXCEPT !.inner = moved]
                                                   ELSE [call(c) EXCEPT !.frames = moved]]
        /\ UNCHANGED <<overlayVars, n, gen, apply, cacheVars>>

\* A dropped join entry need not be a string at all.
BrokenLeg(t) ==
    LET calls == IF filler = t THEN r[t].inner ELSE r[t].frames
        f     == calls[Len(calls)]
    IN  /\ r[t].pc = "leg" /\ f.j < Len(f.row.legs) /\ f.from = "dropped"
        /\ r' = [r EXCEPT ![t] = Finished([@ EXCEPT !.stray = TRUE], "threw")]
        /\ filler' = IF filler = t THEN None ELSE filler
        /\ UNCHANGED <<overlayVars, n, gen, apply, cache, cacheGen>>

\* Every leg was open.
LegsDone(t) ==
    LET q == r[t]
        f == q.frames[Len(q.frames)]
    IN  /\ q.pc = "leg" /\ filler # t
        /\ f.j = Len(f.row.legs)
        /\ r' = [r EXCEPT ![t] =
                   Settle([q EXCEPT !.frames = SubSeq(q.frames, 1, Len(q.frames) - 1)], "open")]
        /\ UNCHANGED <<overlayVars, n, gen, apply, cacheVars>>

----------------------------------------------------------------------------
(* year_closed().                                                          *)

\* A weekday asks the bitmap, for the generation of the moment.
WeekdayRow(t) ==
    /\ r[t].pc = "row" /\ filler # t
    /\ r[t].view.row # Unknown /\ r[t].view.row.kind = "weekday"
    /\ r' = [r EXCEPT ![t].pc = "probe", ![t].key = r[t].cal, ![t].g = gen]
    /\ UNCHANGED <<overlayVars, n, gen, apply, cacheVars>>

Found(s) == [s EXCEPT !.ref = [bit |-> cache[s.key], held |-> TRUE], !.pc = "read"]

\* The shared lock: a hit, unless the cache is of another generation.
Probe(t) ==
    /\ r[t].pc = "probe" /\ filler = None
    /\ r' = [r EXCEPT ![t] = IF cacheGen = @.g /\ cache[@.key] # Unknown
                             THEN Found(@) ELSE [@ EXCEPT !.pc = "acquire"]]
    /\ UNCHANGED <<overlayVars, n, gen, apply, cacheVars>>

\* Mutant: an entry found under the exclusive lock is served whatever its generation.
AcquireUnchecked(t) ==
    /\ r[t].pc = "acquire" /\ filler = None
    /\ IF cache[r[t].key] # Unknown
       THEN /\ r' = [r EXCEPT ![t] = Found(@)]
            /\ UNCHANGED cacheVars
       ELSE /\ cacheGen' = r[t].g
            /\ filler' = t
            /\ r' = [r EXCEPT ![t].pc = "lookup", ![t].cal = r[t].key]
            /\ UNCHANGED cache
    /\ UNCHANGED <<overlayVars, n, gen, apply>>

\* The exclusive lock: entries of another generation are dropped, under whoever still
\* refers to them, and the year is built unless another thread has just built it.
Acquire(t) ==
    LET other == cacheGen # r[t].g
        dropRefs(s) == IF other THEN [s EXCEPT !.ref.held = FALSE] ELSE s
    IN  /\ r[t].pc = "acquire" /\ filler = None
        /\ cacheGen' = r[t].g
        /\ IF ~other /\ cache[r[t].key] # Unknown
           THEN /\ r' = [r EXCEPT ![t] = Found(@)]
                /\ UNCHANGED <<cache, filler>>
           ELSE /\ cache' = IF other THEN Empty ELSE cache
                /\ filler' = t
                /\ r' = [u \in Threads |->
                           IF u = t THEN [r[u] EXCEPT !.pc = "lookup", !.cal = r[u].key, !.bit = TRUE]
                                    ELSE dropRefs(r[u])]
        /\ UNCHANGED <<overlayVars, n, gen, apply>>

\* holidays_serial() of a row that is not joint.  A date on the row's weekend is in no
\* holiday set: the bitmap says nothing of it.
HolidaysOf(t) ==
    LET q == r[t]
        v == q.view
    IN  /\ q.pc = "row" /\ filler = t
        /\ v.row # Unknown /\ v.row.kind # "joint"
        /\ \E open \in Reads(v, v.row.kind = "weekend" \/ v.row.open) :
               r' = [r EXCEPT ![t] = [Stray(q) EXCEPT !.bit = q.bit /\ open,
                                                      !.pc = IF q.inner = <<>> THEN "insert" ELSE "leg"]]
        /\ UNCHANGED <<overlayVars, n, gen, apply, cacheVars>>

\* The union over a joint calendar's legs is complete.
UnionDone(t) ==
    LET q == r[t]
        f == q.inner[Len(q.inner)]
    IN  /\ q.pc = "leg" /\ filler = t
        /\ f.j = Len(f.row.legs)
        /\ r' = [r EXCEPT ![t] = [q EXCEPT !.inner = SubSeq(q.inner, 1, Len(q.inner) - 1),
                                           !.pc = IF Len(q.inner) = 1 THEN "insert" ELSE "leg"]]
        /\ UNCHANGED <<overlayVars, n, gen, apply, cacheVars>>

\* The entry is stored, the lock released, and a reference into the cache returned.
Insert(t) ==
    /\ r[t].pc = "insert"
    /\ cache' = [cache EXCEPT ![r[t].key] = r[t].bit]
    /\ filler' = None
    /\ r' = [r EXCEPT ![t].ref = [bit |-> r[t].bit, held |-> TRUE], ![t].pc = "read"]
    /\ UNCHANGED <<overlayVars, n, gen, apply, cacheGen>>

\* The bit is read through the reference, with no lock held.
ReadBit(t) ==
    LET q == r[t]
    IN  /\ q.pc = "read"
        /\ \E open \in IF q.ref.held THEN {q.ref.bit} ELSE BOOLEAN :
               r' = [r EXCEPT ![t] = Settle([q EXCEPT !.stray = q.stray \/ ~q.ref.held], Says(open))]
        /\ UNCHANGED <<overlayVars, n, gen, apply, cacheVars>>

----------------------------------------------------------------------------
Init ==
    /\ cals = <<>> /\ indices = <<>> /\ sources = <<>>
    /\ n = 0 /\ gen = 0
    /\ apply = [pc |-> "idle", batch |-> NoBatch]
    /\ cache = Empty /\ cacheGen = 0 /\ filler = None
    /\ r = [t \in Threads |-> NoQuery]

Apply == CommitRows \/ StoreCount \/ BumpGeneration \/ Unlock

Step(t) ==
    \/ LoadCount(t) \/ ScanOverlay(t) \/ UnknownCalendar(t) \/ WeekendRow(t) \/ JointRow(t)
    \/ NextLeg(t) \/ BrokenLeg(t) \/ LegsDone(t) \/ WeekdayRow(t) \/ Probe(t) \/ Acquire(t)
    \/ HolidaysOf(t) \/ UnionDone(t) \/ Insert(t) \/ ReadBit(t)

Next ==
    \/ \E b \in Batches : LockAndCheck(b)
    \/ Apply
    \/ \E t \in Threads : (\E c \in Cals : Query(t, c)) \/ Step(t)

\* A thread that is inside a call runs on; nobody is obliged to make one.
Fairness == WF_vars(Apply) /\ \A t \in Threads : WF_vars(Step(t))

Spec == Init /\ [][Next]_vars /\ Fairness

----------------------------------------------------------------------------
(* Properties.                                                             *)

\* What is_business_day() should say of every calendar, were the registry asked all at once:
\* any answers that agree with the rows of the moment, a joint calendar's with its legs'.
Agree(v) ==
    \A c \in Cals :
        LET row  == Current(c)
            stop == {j \in DOMAIN row.legs : v[row.legs[j]] # "open"}
        IN  v[c] = IF row = Unknown THEN "threw"
                   ELSE IF row.kind # "joint" THEN Says(row.open)
                   ELSE IF stop = {} THEN "open" ELSE v[row.legs[Min(stop)]]
Verdicts == {v \in [Cals -> {"open", "closed", "threw"}] : Agree(v)}

TypeOK ==
    /\ cals \in Seq(OverlayRows) /\ indices \in Seq(Indices) /\ sources \in Seq(Indices)
    /\ n \in Nat /\ gen \in 0..MaxApplies
    /\ apply.pc \in {"idle", "commit", "count", "bump", "return"}
    /\ apply.batch \in Batches \cup {NoBatch}
    /\ cache \in [Cals -> BOOLEAN \cup {Unknown}] /\ cacheGen \in 0..gen
    /\ filler \in Threads \cup {None}
    /\ \A t \in Threads :
           /\ r[t].pc \in {"idle", "lookup", "scan", "row", "leg", "probe", "acquire", "insert", "read"}
           /\ r[t].ans \in {"open", "closed", "threw", None}
           /\ r[t].g \in 0..gen

\* A query that no apply() overlapped, and that read no dropped storage, answers exactly
\* by the rows of the moment: no bitmap of older rows, of half a batch, or of dropped
\* rules is ever left behind for it, whatever slower threads did to the cache meanwhile.
QuietQueryIsExact ==
    \A t \in Threads :
        r[t].pc = "idle" /\ r[t].quiet /\ ~r[t].stray =>
            Verdicts # {} /\ \A v \in Verdicts : r[t].ans = v[r[t].asked]

\* "one snapshot": whoever holds the lock shared reads a size that counts the rows there,
\* and the lock-free test for an empty overlay is then exact.
SnapshotIsConsistent ==
    apply.pc = "idle" => n = Len(cals) + Len(indices) + Len(sources)

\* No fixing source is left naming an index that nobody defines, through any sequence of
\* additions and clears.
SourcesHaveIndices ==
    \A k \in DOMAIN sources :
        \/ sources[k] \in BakedIndices
        \/ \E i \in DOMAIN indices : indices[i] = sources[k]

\* Holding one mutex and waiting for the other never closes a circle: every query ends.
QueryEnds == \A t \in Threads : r[t].pc # "idle" ~> r[t].pc = "idle"

\* "Thread-safe: no shared mutable state": a query that no apply() overlaps reads only
\* storage that is still there.
QuietReadsAreHeld == \A t \in Threads : r[t].quiet => ~r[t].stray
=============================================================================
