------------------------------ MODULE Schedules ------------------------------
(***************************************************************************)
(* Accrual schedules (build/schedule.hpp, swap_periods_between): from a    *)
(* start to a maturity, the boundaries between periods, generated one at a *)
(* time.  A request is [cal, spot, mat, step, bdc, rule] and a rule        *)
(* [side, length, eom, eomAuto, dom, termBdc].  The default rule steps     *)
(* forward from the start and adjusts as it goes; any other first lists    *)
(* the unadjusted interior dates, merges a long stub, and then adjusts.    *)
(***************************************************************************)
EXTENDS HolidayRules

CONSTANT Requests

BusinessDayConventions == {"Unadjusted", "Following", "Preceding", "ModifiedFollowing", "ModifiedPreceding"}

\* The days from which a convention finds an open day in reach, either way.
Served(cal, s) == /\ \E x \in s..s + kMaxClosure : x \in cal
                  /\ \E x \in s - kMaxClosure..s : x \in cal

\* No closure lasts half a month, a step moves, a request starts within the horizon, and its calendar
\* is known as far as its first boundary past the maturity.
ASSUME RequestsAssumption ==
    /\ kMaxClosure \in 0..13
    /\ \A r \in Requests :
        /\ r.spot \in Horizon /\ r.spot \in Int /\ r.mat \in Int /\ r.step.months \in Nat /\ r.step.days \in Nat
        /\ r.step.days = 0 => r.step.months > 0
        /\ r.bdc \in BusinessDayConventions /\ r.rule.termBdc \in BusinessDayConventions \cup {""}
        /\ r.rule.side \in {"Back", "Front"} /\ r.rule.dom \in 0..31
        /\ \A s \in r.spot..r.mat + 2 * kMaxClosure + 31 * r.step.months + r.step.days : Served(r.cal, s)

VARIABLES
    req,       \* the request
    bounds,    \* the boundaries so far
    interior,  \* unadjusted interior dates not yet adjusted
    k,         \* the next regular step
    onGrid,    \* the far end is itself a regular date
    pc         \* "begin", "default", "grid", "merge", "roll", "done", "refused"

vars == <<req, bounds, interior, k, onGrid, pc>>

\* A date token on a product's conventions: a contract date is never adjusted, and a tenor is
\* counted from spot.
Resolve(token, vd, c, bdc, lag) ==
    CASE token.kind = "spot" -> SpotDate(vd, c, lag)
      [] token.kind = "on" -> AdvanceBd(c, vd, 1)
      [] token.kind = "tn" -> AdvanceBd(c, vd, 2)
      [] token.kind = "iso" -> Adjust(c, token.date, bdc)
      [] token.kind = "imm" -> ThirdWednesday(token.y, token.m)
      [] token.kind = "tenor" -> Adjust(c, PlusStep(SpotDate(vd, c, lag), token.step, 1), bdc)

DefaultRule ==
    [side |-> "Back", length |-> "Short", eom |-> FALSE, eomAuto |-> FALSE, dom |-> 0, termBdc |-> ""]

\* The schedule ends on the maturity as the termination convention moves it.
End(r) == Adjust(r.cal, r.mat, IF r.rule.termBdc = "" THEN r.bdc ELSE r.rule.termBdc)

Anchor(r) == IF r.rule.side = "Back" THEN r.spot ELSE r.mat
AtMonthEnd(r) == r.rule.eom \/ (r.rule.eomAuto /\ IsMonthEnd(Anchor(r)))

\* The n-th regular date from the anchor, away from it, before adjustment.
Regular(r, n) ==
    LET base == PlusMonths(Anchor(r), IF r.rule.side = "Back" THEN n * r.step.months ELSE -n * r.step.months)
        dom == IF r.rule.dom > 0 THEN r.rule.dom ELSE Civil(Anchor(r)).d
    IN  RollInMonth(Civil(base).y, Civil(base).m, dom, AtMonthEnd(r))

Init ==
    /\ req \in Requests
    /\ bounds = <<req.spot>> /\ interior = << >> /\ k = 1 /\ onGrid = FALSE /\ pc = "begin"

Begin ==
    /\ pc = "begin"
    /\ pc' = CASE req.mat <= req.spot -> "refused"
               [] req.mat > req.spot /\ req.rule = DefaultRule -> "default"
               [] req.mat > req.spot /\ req.rule # DefaultRule ->
                    IF req.step.days > 0 THEN "refused" ELSE "grid"
    /\ UNCHANGED <<req, bounds, interior, k, onGrid>>

StepDefault ==
    /\ pc = "default"
    /\ LET d == Adjust(req.cal, PlusStep(req.spot, req.step, k), req.bdc)
       IN  IF d >= End(req)
           THEN bounds' = Append(bounds, End(req)) /\ pc' = "done" /\ k' = k
           ELSE bounds' = Append(bounds, d) /\ pc' = pc /\ k' = k + 1
    /\ UNCHANGED <<req, interior, onGrid>>

\* One regular date, forward from the start or backward from the maturity.
StepGrid ==
    /\ pc = "grid"
    /\ LET d == Regular(req, k)
           back == req.rule.side = "Back"
           far == IF back THEN req.mat ELSE req.spot
       IN  IF IF back THEN d >= far ELSE d <= far
           THEN pc' = "merge" /\ onGrid' = (d = far) /\ UNCHANGED <<interior, k>>
           ELSE /\ interior' = IF back THEN (IF d > req.spot THEN Append(interior, d) ELSE interior)
                               ELSE (IF d < req.mat THEN <<d>> \o interior ELSE interior)
                /\ k' = k + 1 /\ UNCHANGED <<pc, onGrid>>
    /\ UNCHANGED <<req, bounds>>

\* Mutant: a long stub merges two regular periods when there is no stub.
MergeStubAlways ==
    /\ pc = "merge" /\ pc' = "roll"
    /\ interior' = IF req.rule.length = "Long" /\ interior # << >>
                   THEN IF req.rule.side = "Back" THEN Front(interior) ELSE Tail(interior)
                   ELSE interior
    /\ UNCHANGED <<req, bounds, k, onGrid>>

\* A long stub absorbs the regular date next to it, if there is a stub.
MergeStub ==
    /\ pc = "merge" /\ pc' = "roll"
    /\ interior' = IF req.rule.length = "Long" /\ interior # << >> /\ ~onGrid
                   THEN IF req.rule.side = "Back" THEN Front(interior) ELSE Tail(interior)
                   ELSE interior
    /\ UNCHANGED <<req, bounds, k, onGrid>>

\* Mutant: an adjusted date is kept wherever it lands.
RollBoundaryAnywhere ==
    /\ pc = "roll" /\ interior # << >> /\ interior' = Tail(interior)
    /\ bounds' = Append(bounds, Adjust(req.cal, Head(interior), req.bdc))
    /\ UNCHANGED <<req, k, onGrid, pc>>

\* An interior date is adjusted; one that lands on the end or on its predecessor is no boundary.
RollBoundary ==
    /\ pc = "roll" /\ interior # << >> /\ interior' = Tail(interior)
    /\ LET a == Adjust(req.cal, Head(interior), req.bdc)
       IN  bounds' = IF a < End(req) /\ a > Last(bounds) THEN Append(bounds, a) ELSE bounds
    /\ UNCHANGED <<req, k, onGrid, pc>>

Close ==
    /\ pc = "roll" /\ interior = << >> /\ pc' = "done"
    /\ bounds' = Append(bounds, End(req))
    /\ UNCHANGED <<req, interior, k, onGrid>>

Ended == pc \in {"done", "refused"} /\ UNCHANGED vars

Next == Begin \/ StepDefault \/ StepGrid \/ MergeStub \/ RollBoundary \/ Close \/ Ended
Spec == Init /\ [][Next]_vars

Periods == [i \in 1..Len(bounds) - 1 |-> <<bounds[i], bounds[i + 1]>>]

------------------------------------------------------------------------------
TypeOK ==
    /\ {req.spot, req.mat} \subseteq Horizon /\ k \in Nat \ {0} /\ onGrid \in BOOLEAN
    /\ \A i \in DOMAIN bounds : bounds[i] \in Horizon
    /\ \A i \in DOMAIN interior : interior[i] \in req.spot + 1..req.mat - 1
    /\ pc \in {"begin", "default", "grid", "merge", "roll", "done", "refused"}

\* The dates of two steps cannot be moved past each other.
LongStep(r) == r.step.months > 0 \/ r.step.days > 2 * kMaxClosure

(* Periods have a positive length: a boundary is after the one before it, and before the end, *)
(* whenever the regular step is longer than any two closures.                                 *)
BoundsIncrease ==
    (End(req) > req.spot /\ LongStep(req)) =>
        /\ \A i \in 1..Len(bounds) - 1 : bounds[i] < bounds[i + 1]
        /\ (pc \in {"default", "roll"} => Last(bounds) < End(req))

\* Dates and calendars do not depend on the rule or the step: of the requests that differ only in
\* those, one is looked at.
Looked == pc = "begin" /\ req.rule = DefaultRule /\ req.step.months = 1

\* The first n regular dates of a request, named at once instead of one after another; the ones
\* between its ends; and those a long stub leaves, which absorbs the one next to it.
GridDates(r, n) == {IF r.step.days > 0 THEN PlusStep(r.spot, r.step, j) ELSE Regular(r, j) : j \in 1..n}
Inside(r, n) == {d \in GridDates(r, n) : r.spot < d /\ d < r.mat}
HasStub(r, n) == r.rule.length = "Long" /\ (IF r.rule.side = "Back" THEN r.mat ELSE r.spot) \notin GridDates(r, n)
Kept(r, n) ==
    {d \in Inside(r, n) : HasStub(r, n) => \E e \in Inside(r, n) : IF r.rule.side = "Back" THEN e > d ELSE e < d}

\* The boundaries adjustment makes of dates: what it moves onto an end or past it is none.
Boundaries(r, dates) ==
    {a \in {Adjust(r.cal, d, r.bdc) : d \in dates} : r.spot < a /\ a < End(r)}

\* The start is a day adjustment leaves in its place: short steps are not moved back past it.
StartStays(r) == Adjust(r.cal, r.spot, r.bdc) = r.spot

(* The finished schedule is the regular grid between its two ends, whichever of the two loops *)
(* made it: adjusted, without what adjustment moved onto an end, and without the one date a   *)
(* long stub absorbs.                                                                         *)
ScheduleIsTheGrid ==
    (pc = "done" /\ (LongStep(req) \/ StartStays(req))) =>
        {bounds[i] : i \in DOMAIN bounds} = {req.spot, End(req)} \cup Boundaries(req, Kept(req, k))

ChainedPolicies == {"weekend_to_next_weekday", "sun_to_next_weekday"}
KeptApart(row, dated, observed) ==
    /\ (\A i \in DOMAIN dated : OnWeekend(row, dated[i].s) => Policy(row, dated[i].rule) \in ChainedPolicies)
         => Cardinality(observed) = Cardinality({dated[i].s : i \in DOMAIN dated})
    /\ row.sandwich => Between(row, Sandwiched(row, observed)) \subseteq Sandwiched(row, observed)

(* No holiday is lost when it is moved to the next free weekday: as many days are closed as  *)
(* holidays were dated.  And the sandwich rule leaves no open weekday between two holidays.   *)
HolidaysStayApart ==
    Looked =>
    \A c \in {c \in Calendars : Row[c].joins = << >>} :
        KeptApart(Row[c], Dated(Row[c], Civil(req.spot).y), Observed(Row[c], Civil(req.spot).y))

==============================================================================
