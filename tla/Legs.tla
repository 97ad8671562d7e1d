-------------------------------- MODULE Legs --------------------------------
(***************************************************************************)
(* The coupons of a booked leg (build/instruments.hpp, float_leg_from and  *)
(* fixed_coupons_from) on the schedule that Schedules has made: what is    *)
(* settled is dropped, what is accruing carries a schedule of fixings, and *)
(* the rest is forecast.                                                   *)
(***************************************************************************)
EXTENDS Schedules, Accruals

CONSTANTS
    Conventions,  \* [payLag, overnight, fixingLag, dc]
    Windows       \* the lengths of overnight window looked at, in days

\* Calendars are known as far as a leg's first fixing, its last payment and a window's fixings reach.
ASSUME LegsAssumption ==
    /\ Windows \subseteq Nat \ {0}
    /\ \A cv \in Conventions : cv.payLag \in Nat
    /\ \A r \in Requests, n \in Windows :
        \A s \in r.mat - 4 * (kMaxClosure + 1)..r.mat + n : Served(r.cal, s)
    /\ \A r \in Requests, cv \in Conventions :
        \A s \in r.spot - kMaxClosure..r.mat + (cv.payLag + 1) * (kMaxClosure + 1) : Served(r.cal, s)

PayDate(cv, e) == AdvanceBd(req.cal, e, cv.payLag)

\* The periods whose coupons are paid after a date.
Due(cv, vd) == Among(Periods, {p \in Range(Periods) : PayDate(cv, p[2]) > vd})

\* Mutant: a coupon is settled when its accrual has ended.
FloatLegFromEnd(cv, vd) ==
    LET due == Among(Periods, {p \in Range(Periods) : p[2] > vd})
    IN  [i \in DOMAIN due |->
            [start |-> due[i][1], end |-> due[i][2], pay |-> PayDate(cv, due[i][2]),
             rows |-> IF due[i][1] >= vd THEN << >>
                      ELSE FixingRows(due[i][1], due[i][2], req.cal)]]

\* The floating coupons still owed at the value date, with the fixings an accruing one needs:
\* one a day for an overnight index, one before the start for a term index.
FloatLegFrom(cv, vd) ==
    LET due == Due(cv, vd)
        term(s, e) == <<[from |-> AdvanceBd(req.cal, s, -cv.fixingLag), to |-> e, accStart |-> s, accEnd |-> e]>>
    IN  [i \in DOMAIN due |->
            [start |-> due[i][1], end |-> due[i][2], pay |-> PayDate(cv, due[i][2]),
             rows |-> IF due[i][1] >= vd THEN << >>
                      ELSE IF cv.overnight THEN FixingRows(due[i][1], due[i][2], req.cal)
                      ELSE term(due[i][1], due[i][2])]]

\* The fixed coupons still owed: an accruing one is owed in full.
FixedCouponsFrom(cv, vd) ==
    LET due == Due(cv, vd)
    IN  [i \in DOMAIN due |->
            [pay |-> PayDate(cv, due[i][2]), tau |-> YearFrac(cv.dc, due[i][1], due[i][2], req.cal)]]

------------------------------------------------------------------------------
Proper == pc = "done" /\ End(req) > req.spot

DayByDay == {"ACT/360", "ACT/ACT", "30E/360", "BUS/252"}

\* What the first periods of the schedule accrue.
Accrued(dc) ==
    LET sum[n \in 0..Len(Periods)] ==
            IF n = 0 THEN 0 ELSE sum[n-1] + YearFrac(dc, Periods[n][1], Periods[n][2], req.cal)
    IN  sum

(* The accruals of a schedule add up to that of its whole span, under every day count whose   *)
(* rule for a day does not depend on the other end of the period (30U/360's does).            *)
AccrualsAddUp ==
    Proper =>
        \A dc \in DayByDay : Accrued(dc)[Len(Periods)] = YearFrac(dc, req.spot, End(req), req.cal)

(* The fixings of an overnight window earn each of its days once, on open days that follow    *)
(* one another, wherever the window opens and closes; a value date inside it splits it in     *)
(* two; the moment path, told to end on an open day, takes whole fixings only; and looking    *)
(* back day by day moves the window by as much as shifting it whole, while locking out uses   *)
(* no fixing of the last days.                                                                *)
FixingsEarnTheWindow ==
    Looked =>
    \A start \in req.mat - 1..req.mat, n \in Windows :
        LET end == start + n
            rows == FixingRows(start, end, req.cal)
            back == RfrObservation(start, end, req.cal, "Lookback", 2)
            shift == RfrObservation(start, end, req.cal, "Shift", 2)[1]
            locked == RfrObservation(start, end, req.cal, "Lockout", 2)
        IN  /\ Tile(rows, start, end)
            /\ \A i \in DOMAIN rows :
                 /\ rows[i].from <= rows[i].accStart /\ rows[i].accEnd <= rows[i].to
                 /\ BusinessDays(rows[i].from, rows[i].to, req.cal) = <<rows[i].from>>
            /\ \A vd \in start..end - 1 :
                 LET o == Observation(vd, start, end, req.cal)
                 IN  Tile(o.rows, start + o.realized, end)
            /\ \A dc \in DayByDay :
                 LET o == MomentObservation(start, start, end, dc, req.cal)
                 IN  (~o.refused /\ IsBusinessDay(req.cal, end)) =>
                       \A i \in DOMAIN o.rows : o.rows[i].from = o.rows[i].accStart /\ o.rows[i].to = o.rows[i].accEnd
            /\ IsBusinessDay(req.cal, start) => shift.from = back[1].from
            /\ IsBusinessDay(req.cal, end) => shift.to = Last(back).to
            /\ \A i \in DOMAIN back : BusinessDays(back[i].from, back[i].to, req.cal) = <<back[i].from>>
            /\ \A i \in DOMAIN locked : i > Len(locked) - 2 => locked[i].from <= rows[Later(1, Len(rows) - 1)].from
            /\ Tile(back, start, end) /\ Tile(locked, start, end)

(* A booked leg owes, from the value date on, every day of its schedule once: the coupons     *)
(* kept follow on from one another up to the end, none of those dropped is unpaid, an         *)
(* accruing coupon names the fixings of every day it accrues, and both legs keep the same     *)
(* coupons.  A short step can leave a period empty, which none accrues, so steps are long.    *)
BookedLegOwesTheRest ==
    (Proper /\ LongStep(req)) =>
    \A cv \in Conventions, vd \in {bounds[1], bounds[2] - 1, bounds[2], bounds[2] + 1} :
        LET leg == FloatLegFrom(cv, vd)
            kept == {i \in 1..Len(Periods) : PayDate(cv, Periods[i][2]) > vd}
        IN  /\ \A i \in 1..Len(Periods) : i \in kept \/ PayDate(cv, Periods[i][2]) <= vd
            /\ Len(leg) = Cardinality(kept) /\ Len(FixedCouponsFrom(cv, vd)) = Len(leg)
            /\ End(req) > vd => leg # << >> /\ Last(leg).end = End(req) /\ leg[1].start <= Later(vd, req.spot)
            /\ \A i \in 1..Len(leg) - 1 : leg[i].end = leg[i + 1].start /\ leg[i].pay <= leg[i + 1].pay
            /\ \A i \in DOMAIN leg : leg[i].start < vd => Tile(leg[i].rows, leg[i].start, leg[i].end)
=============================================================================
