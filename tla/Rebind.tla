------------------------------- MODULE Rebind --------------------------------
(***************************************************************************)
(* A client that keeps a bundle, edits it, requotes it and sends it over   *)
(* the wire, and the session it rebinds the bundle to (BundleSession::     *)
(* rebind, both overloads), while fixings and the evaluation date rewrite  *)
(* the session's copy.  Session models what a rebind does to the engine;   *)
(* here it is which bundles are taken, and what is taken from them.        *)
(***************************************************************************)
EXTENDS Bundles, FiniteSets, SequencesExt

CONSTANTS
    Builds,      \* bundles as the builders make them
    Documents,   \* bundles written by hand, as documents
    Edits,       \* names of structural edits of a client
    Quotes,      \* [market, band] a client may quote
    Dates        \* evaluation dates

VARIABLES
    opened,    \* the bundle the session was opened with
    problem,   \* prob_: the bundle, resolved, with the smoothing rows at the end
    nSmoothing,
    stamp,     \* stamp_
    date,      \* eval_date_
    fixed,     \* the dates whose fixings are known
    bundle,    \* the client's bundle
    carried,   \* the stamp it carries (StampedBundle), or Unset
    verdict    \* how the last rebind ended

session == <<opened, problem, nSmoothing, stamp, date, fixed>>
client == <<bundle, carried>>
vars == <<session, client, verdict>>

------------------------------------------------------------------------------
(* Resolution of the scheduled observations (pricing/fixings.hpp).            *)

IsPast(day, when, known) == day.from < 0 \/ day.date < when \/ (day.date = when /\ day.date \in known)

\* The first past day with no fixing; 0 if there is none.
FirstMissing(o, when, known) ==
    LET missing == {i \in 1..Len(o.schedule) :
                        IsPast(o.schedule[i], when, known) /\ o.schedule[i].date \notin known}
    IN  IF missing = {} THEN 0 ELSE CHOOSE i \in missing : \A j \in missing : i <= j

\* A missing fixing is met half way: the sub-periods are then those gathered before it.
ResolveInto(o, when, known) ==
    LET m == FirstMissing(o, when, known)
        read == IF m = 0 THEN o.schedule ELSE SubSeq(o.schedule, 1, m - 1)
        future == SelectSeq(read, LAMBDA day : ~IsPast(day, when, known))
        subs == Each(LAMBDA day : <<day.from, day.to>>, future)
    IN  IF o.schedule = << >> THEN o
        ELSE IF m # 0 THEN [o EXCEPT !.subs = subs]
        ELSE [o EXCEPT !.subs = subs, !.realized = Len(read) - Len(future), !.resolved = TRUE]

ResolveCoupon(c, when, known) == [c EXCEPT !.obs = ResolveInto(@, when, known)]
ResolveRow(r, when, known) == [r EXCEPT !.coupons = Each(LAMBDA c : ResolveCoupon(c, when, known), @)]

Resolve(p, when, known) ==
    [p EXCEPT !.rows = Each(LAMBDA r : ResolveRow(r, when, known), @),
              !.constraints = Each(LAMBDA r : ResolveRow(r, when, known), @)]

------------------------------------------------------------------------------
(* Opening a session.                                                         *)

\* One row for each interior knot of a smoothed region, unless a step level meets it.
SmoothingRowsOf(p, c) ==
    LET knots == FlattenSeq(Each(LAMBDA m : Each(LAMBDA k : m, m.knots), p.curves[c].regions))
        bent == SelectSeq([i \in 1..Len(knots) |-> i],
                          LAMBDA i : /\ 1 < i /\ i < Len(knots)
                                     /\ knots[i].scheme # "Flat" /\ knots[i + 1].scheme # "Flat"
                                     /\ knots[i].lambda > 0)
    IN  Each(LAMBDA i : [NewRow EXCEPT !.kind = "StateLinear", !.state = <<c, i>>], bent)

SmoothingRows(p) == FlattenSeq([c \in 1..Len(p.curves) |-> SmoothingRowsOf(p, c)])

\* prob_ of a session opened with p.
Opened(p, when, known) ==
    [Resolve(p, when, known) EXCEPT !.constraints = @ \o SmoothingRows(p)]

Sources == Builds \cup {BundleFrom(d) : d \in Documents}

Init ==
    /\ opened \in Sources
    /\ date = 0
    /\ fixed = {}
    /\ problem = Opened(opened, date, fixed)
    /\ nSmoothing = Len(SmoothingRows(opened))
    /\ stamp = StructuralStamp(opened)
    /\ bundle = opened
    /\ carried = Unset
    /\ verdict = "none"

------------------------------------------------------------------------------
(* The session between rebinds.                                               *)

\* The dates any observation of the session needs.
Needed == {day.date : day \in UNION {UNION {ToSet(r.coupons[j].obs.schedule) : j \in DOMAIN r.coupons} :
                                            r \in ToSet(problem.rows \o problem.constraints)}}

SetEvaluationDate ==
    \E d \in Dates :
        /\ d > date
        /\ date' = d
        /\ problem' = Resolve(problem, d, fixed)
        /\ verdict' = "none"
        /\ UNCHANGED <<opened, nSmoothing, stamp, fixed, client>>

SetFixings ==
    \E d \in Needed \ fixed :
        /\ fixed' = fixed \cup {d}
        /\ problem' = Resolve(problem, date, fixed')
        /\ verdict' = "none"
        /\ UNCHANGED <<opened, nSmoothing, stamp, date, client>>

------------------------------------------------------------------------------
(* The client.                                                                *)

OnFirstCoupon(p, Change(_)) == [p EXCEPT !.rows[1].coupons[1] = Change(@)]

\* The fixing dates between the ends of a schedule, a day later.
InteriorMoved(s) == [i \in 1..Len(s) |-> IF i \in {1, Len(s)} THEN s[i] ELSE [s[i] EXCEPT !.date = @ + 1]]

\* The edits of a client, each of the first place it applies to.  Neither walk sees the last two.
Edited(p, edit) ==
    CASE edit = "knot" -> [p EXCEPT !.curves[1].regions[1].knots[1] = @ + 1]
      [] edit = "scheme" -> [p EXCEPT !.curves[1].regions[1].scheme = IF @ = "Linear" THEN "Hermite" ELSE "Linear"]
      [] edit = "lambda" -> [p EXCEPT !.curves[1].regions[1].lambda = IF @ > 0 THEN -1 ELSE 1]
      [] edit = "turn" -> [p EXCEPT !.curves[1].turns = Append(@, <<1, 2>>)]
      [] edit = "terms" -> [p EXCEPT !.rows[1].terms = @ + 1]
      [] edit = "pay" -> OnFirstCoupon(p, LAMBDA c : [c EXCEPT !.pay = @ + 1])
      [] edit = "accrual" -> OnFirstCoupon(p, LAMBDA c : [c EXCEPT !.accrual = <<EffStart(c) - 1, EffEnd(c)>>])
      [] edit = "resetFx" -> OnFirstCoupon(p, LAMBDA c : [c EXCEPT !.resetFx = IF @ < 0 THEN 1 ELSE -1])
      [] edit = "fixing" -> OnFirstCoupon(p, LAMBDA c :
            IF c.obs.schedule = << >> THEN [c EXCEPT !.obs.realized = @ + 1]
            ELSE [c EXCEPT !.obs.schedule[Len(c.obs.schedule)].date = @ + 1])
      [] edit = "drop" -> [p EXCEPT !.rows = Tail(@)]
      [] edit = "constrain" -> [p EXCEPT !.constraints = Append(@, [NewRow EXCEPT !.kind = "StateLinear", !.state = <<1, 1>>])]
      [] edit = "interior" -> [p EXCEPT !.rows[1].coupons =
            Each(LAMBDA c : [c EXCEPT !.obs.schedule = InteriorMoved(@)], @)]
      [] edit = "penalty" -> [p EXCEPT !.rows[1].penalty = "hinge", !.rows[1].band = <<0, 0>>]

ASSUME RebindAssumption ==
    \A p \in Sources :
        /\ IsBundle(p) /\ AllCarry(p.rows) /\ AllCarry(p.constraints)
        /\ IsRows(SmoothingRows(p)) /\ \A r \in ToSet(SmoothingRows(p)) : r.coupons = << >>
        /\ \A edit \in Edits : /\ IsBundle(Edited(p, edit))
                               /\ AllCarry(Edited(p, edit).rows) /\ AllCarry(Edited(p, edit).constraints)

\* A stamped bundle is not edited: what is edited is a bundle with no stamp.
Edit ==
    /\ bundle = opened
    /\ \E edit \in Edits : bundle' = Edited(bundle, edit)
    /\ carried' = Unset
    /\ UNCHANGED <<session, verdict>>

\* It is requoted under the stamp it has.
Requote ==
    /\ \E part \in {"rows", "constraints"}, quote \in Quotes :
         \E i \in DOMAIN bundle[part] :
            bundle' = [bundle EXCEPT ![part][i].market = quote.market, ![part][i].band = quote.band]
    /\ UNCHANGED <<session, carried, verdict>>

\* Over the wire and back.
Send ==
    /\ bundle' = BundleFrom(BundleTo(bundle))
    /\ carried' = Unset
    /\ UNCHANGED <<session, verdict>>

MakeStamped ==
    /\ carried' = StructuralStamp(bundle)
    /\ UNCHANGED <<session, bundle, verdict>>

------------------------------------------------------------------------------
(* Rebinding.                                                                 *)

ValidQuote(r) == r.band[1] = r.band[2] \/ (r.band[1] <= r.market /\ r.market <= r.band[2])
ValidQuotes(p) == \A r \in ToSet(p.rows \o p.constraints) : ValidQuote(r)

SameStructure(p) == StructureEqual(problem, p, nSmoothing)
SameStamp(have) == have # Unset /\ have = stamp

Requoted(row, src) == [row EXCEPT !.market = src.market, !.band = src.band]

\* The targets and bands of every row of the client's; the session's own rows stay.
Rebound(p) ==
    [problem EXCEPT !.rows = [i \in DOMAIN @ |-> Requoted(@[i], p.rows[i])],
                    !.constraints = [i \in DOMAIN @ |-> IF i <= Len(p.constraints) THEN Requoted(@[i], p.constraints[i])
                                                                                   ELSE @[i]]]

\* Every quote is looked at before any is landed.
RebindQuotes(p) ==
    /\ verdict' = IF ValidQuotes(p) THEN "taken" ELSE "invalid quote"
    /\ problem' = IF ValidQuotes(p) THEN Rebound(p) ELSE problem

RebindBundle ==
    /\ IF /\ Len(bundle.rows) = Len(problem.rows)
          /\ Len(bundle.constraints) = Len(problem.constraints) - nSmoothing
          /\ SameStructure(bundle)
       THEN RebindQuotes(bundle)
       ELSE verdict' = "other structure" /\ UNCHANGED problem
    /\ UNCHANGED <<opened, nSmoothing, stamp, date, fixed, client>>

RebindStamped ==
    /\ carried # Unset
    /\ IF SameStamp(carried)
       THEN RebindQuotes(bundle)
       ELSE verdict' = "other structure" /\ UNCHANGED problem
    /\ UNCHANGED <<opened, nSmoothing, stamp, date, fixed, client>>

Next ==
    \/ SetEvaluationDate \/ SetFixings
    \/ Edit \/ Requote \/ Send \/ MakeStamped
    \/ RebindBundle \/ RebindStamped

Spec == Init /\ [][Next]_vars

------------------------------------------------------------------------------
(* What a problem prices: the curves it solves for, and each row's flows and shape.           *)
CurveMeans(c) ==
    [regions |-> Each(LAMBDA m : <<m.scheme, m.knots, IF m.scheme = "Tension" THEN m.sigma ELSE 0>>, c.regions),
     turns |-> c.turns, base |-> c.base]

\* A coupon whose day is missing is not to be priced.
CouponMeans(c) ==
    IF FirstMissing(c.obs, date, fixed) # 0 THEN <<>>
    ELSE <<c.pay, EffStart(c), EffEnd(c), c.resetFx, c.fxFixing, c.obs.subs, c.obs.realized, c.obs.terms>>

RowMeans(r) ==
    [kind |-> r.kind, terms |-> r.terms, spotTime |-> r.spotTime, state |-> r.state,
     coupons |-> Each(CouponMeans, r.coupons), market |-> r.market,
     shape |-> IF r.penalty # NoMap THEN <<r.penalty>> ELSE r.band]

Means(p) ==
    [curves |-> Each(CurveMeans, p.curves), rows |-> Each(RowMeans, p.rows),
     constraints |-> Each(RowMeans, p.constraints)]

\* What neither walk compares, and the session has its own of: of a schedule, all but the first
\* day's date and start and the last day's date and end; of a row, its penalty map.  (Nor do they
\* compare a day's accrual and weight, which are not modelled.)
ReadSchedule(s, own) ==
    [i \in 1..Len(s) |-> [date |-> IF i \in {1, Len(s)} THEN s[i].date ELSE own[i].date,
                          from |-> IF i = 1 THEN s[i].from ELSE own[i].from,
                          to |-> IF i = Len(s) THEN s[i].to ELSE own[i].to]]
ReadCoupon(c, own) == [c EXCEPT !.obs.schedule = ReadSchedule(@, own.obs.schedule)]
ReadRow(r, own) ==
    [r EXCEPT !.penalty = own.penalty,
              !.coupons = [j \in 1..Len(@) |-> ReadCoupon(@[j], own.coupons[j])]]
ReadRows(rows, own) == [i \in 1..Len(rows) |-> ReadRow(rows[i], own[i])]

\* A bundle as a rebind reads it.
Read(p) == [p EXCEPT !.rows = ReadRows(@, problem.rows), !.constraints = ReadRows(@, problem.constraints)]

(* A bundle that a rebind takes is one the session then prices as a session opened with it    *)
(* would, the days inside its schedules and its penalty maps apart: those may differ from the *)
(* session's, are dropped without a word, and nothing else that is priced is (bundle_api.cpp, *)
(* rebind_quotes; structure_fingerprint.hpp, obs_equal and instrument_equal; the test         *)
(* "ScalarBandUpdateMatchesRebindAndAFreshSession").                                          *)
RebindPricesTheBundle ==
    SameStructure(bundle) \/ SameStamp(carried) => Means(Rebound(bundle)) = Means(Opened(Read(bundle), date, fixed))

(* The stamp taken when the session was opened, before anything was resolved and before the   *)
(* smoothing rows were added, answers for the resolved problem as it stands now exactly as    *)
(* the walk over every coupon does, and a stamp that is carried is that of its bundle.        *)
StampIsTwin ==
    /\ SameStructure(bundle) <=> SameStamp(StructuralStamp(bundle))
    /\ carried # Unset => carried = StructuralStamp(bundle)

(* The bundle a session was opened with is taken back whenever it is sent, requoted or not,   *)
(* however it went over the wire and whatever the session resolved in the meantime; and the   *)
(* session opened with what arrived prices what was sent.                                     *)
OwnDocumentIsTaken ==
    LET arrived == BundleFrom(BundleTo(opened))
    IN  /\ \A p \in {opened, arrived} : SameStructure(p) /\ SameStamp(StructuralStamp(p))
        /\ Means(Opened(arrived, date, fixed)) = Means(Opened(opened, date, fixed))
=============================================================================
