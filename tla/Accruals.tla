------------------------------ MODULE Accruals ------------------------------
(***************************************************************************)
(* Day counts (build/day_count.hpp) and overnight fixing windows           *)
(* (build/observations.hpp).  A year fraction is an integer over the       *)
(* day count's own denominator.                                            *)
(***************************************************************************)
EXTENDS HolidayRules

Earlier(a, b) == IF a < b THEN a ELSE b
Later(a, b) == IF a < b THEN b ELSE a

\* Days of 30-day months, from the two days of month a 30/360 rule leaves.
ThirtyDays(s, t, ds, dt) ==
    (Civil(t).y - Civil(s).y) * 360 + (Civil(t).m - Civil(s).m) * 30 + dt - ds
ThirtyE(s, t) == ThirtyDays(s, t, Earlier(Civil(s).d, 30), Earlier(Civil(t).d, 30))
ThirtyUs(s, t) ==
    LET ds == Earlier(Civil(s).d, 30)
    IN  ThirtyDays(s, t, ds, IF ds = 30 THEN Earlier(Civil(t).d, 30) ELSE Civil(t).d)

kWholeYear == 365 * 366
DayWeight(y) == kWholeYear \div (IF IsLeap(y) THEN 366 ELSE 365)

\* Mutant: the days after the last new year are weighted by the first year's length.
ActActIsdaOneLength(s, t) ==
    LET ys == Civil(s).y  yt == Civil(t).y
    IN  IF ys = yt THEN (t - s) * DayWeight(ys)
        ELSE (Jan1(ys + 1) - s + t - Jan1(yt)) * DayWeight(ys) + (yt - ys - 1) * kWholeYear

\* ACT/ACT (ISDA), s <= t: each part of the span over the length of its own year.
ActActIsda(s, t) ==
    LET ys == Civil(s).y  yt == Civil(t).y
    IN  IF ys = yt THEN (t - s) * DayWeight(ys)
        ELSE (Jan1(ys + 1) - s) * DayWeight(ys) + (t - Jan1(yt)) * DayWeight(yt) + (yt - ys - 1) * kWholeYear

\* How many days of [s, t) are open; a reversed span negates.
BusinessDaysBetween(c, s, t) ==
    IF t < s THEN -Cardinality({d \in t..s - 1 : IsBusinessDay(c, d)})
    ELSE Cardinality({d \in s..t - 1 : IsBusinessDay(c, d)})

YearFrac(dc, s, t, c) ==
    CASE dc \in {"ACT/360", "ACT/365F"} -> t - s
      [] dc = "ACT/ACT" -> IF t < s THEN -ActActIsda(t, s) ELSE ActActIsda(s, t)
      [] dc = "30E/360" -> ThirtyE(s, t)
      [] dc = "30U/360" -> ThirtyUs(s, t)
      [] dc = "BUS/252" -> BusinessDaysBetween(c, s, t)

------------------------------------------------------------------------------
\* What of a sequence is in a set, in order.
Among(seq, S) ==
    LET upTo[i \in 0..Len(seq)] ==
            IF i = 0 THEN << >> ELSE IF seq[i] \in S THEN Append(upTo[i-1], seq[i]) ELSE upTo[i-1]
    IN  upTo[Len(seq)]

\* The open days of [s, t), in order.
BusinessDays(s, t, c) == Among([i \in 1..t - s |-> s + i - 1], {d \in s..t - 1 : IsBusinessDay(c, d)})

\* Mutant: only the open days inside the window have a fixing.
DailyPeriodsInside(start, end, c) ==
    LET fixes == BusinessDays(start, end, c)
        period(fs) == [fixStart |-> fs, fixEnd |-> RollForward(c, fs + 1), accStart |-> Later(fs, start),
                       accEnd |-> Earlier(RollForward(c, fs + 1), end)]
    IN  IF start < end THEN [i \in DOMAIN fixes |-> period(fixes[i])] ELSE << >>

\* The fixings that cover [start, end): the first is that of the open day on or before the start,
\* each runs to the next open day, and the window clips what is accrued, never the fixing.
DailyPeriods(start, end, c) ==
    LET fixes == (IF IsBusinessDay(c, start) THEN << >> ELSE <<RollBack(c, start)>>) \o BusinessDays(start, end, c)
        period(fs) == [fixStart |-> fs, fixEnd |-> RollForward(c, fs + 1), accStart |-> Later(fs, start),
                       accEnd |-> Earlier(RollForward(c, fs + 1), end)]
    IN  IF start < end THEN [i \in DOMAIN fixes |-> period(fixes[i])] ELSE << >>

\* A daily observation row: the fixing, its window, the accrual earned and what is observed instead.
FixingRows(start, end, c) ==
    LET per == DailyPeriods(start, end, c)
    IN  [i \in DOMAIN per |->
            [from |-> per[i].fixStart, to |-> per[i].fixEnd, accStart |-> per[i].accStart, accEnd |-> per[i].accEnd]]

\* An averaged observation's forecast rows start at the value date; what lies before is realized.
Observation(vd, start, end, c) ==
    [realized |-> IF start < vd THEN vd - start ELSE 0, rows |-> FixingRows(Later(start, vd), end, c)]

\* The day count gives every fixing the same multiple of its days.
ConstantBasis(dc, rows, c) ==
    \A i \in DOMAIN rows :
        YearFrac(dc, rows[i].from, rows[i].to, c) * (rows[1].to - rows[1].from)
            = YearFrac(dc, rows[1].from, rows[1].to, c) * (rows[i].to - rows[i].from)

\* The moment path takes whole fixings only, and refuses a window that opens inside one and a
\* day count that is no constant multiple of curve time.
MomentObservation(vd, start, end, dc, c) ==
    IF start < vd \/ ~IsBusinessDay(c, start) \/ ~ConstantBasis(dc, FixingRows(start, end, c), c)
    THEN [refused |-> TRUE]
    ELSE [refused |-> FALSE, rows |-> FixingRows(start, end, c)]

\* As AdvanceBd, but no days is no move at all.
AdvanceObsBd(c, s, n) == IF n = 0 THEN s ELSE AdvanceBd(c, s, n)

\* An RFR coupon's windows under an observation convention: the whole window moved back, each day's
\* moved back, or the last days held at the fixing they are locked to.  c is the convention's own
\* calendar (lag.cal); the index's enters the year fractions alone, which are not kept here.
RfrObservation(start, end, c, style, days) ==
    LET per == FixingRows(start, end, c)
        lock == IF Len(per) > days THEN Len(per) - days + 1 ELSE 1
        back(s) == AdvanceObsBd(c, s, -days)
    IN  CASE style = "None" \/ days <= 0 ->
                <<[from |-> start, to |-> end, accStart |-> start, accEnd |-> end]>>
          [] style = "Shift" -> <<[from |-> back(start), to |-> back(end), accStart |-> start, accEnd |-> end]>>
          [] style = "Lookback" -> [i \in DOMAIN per |-> [per[i] EXCEPT !.from = back(@), !.to = back(@)]]
          [] style = "Lockout" -> [i \in DOMAIN per |->
                IF i >= lock THEN [per[i] EXCEPT !.from = per[lock].from, !.to = per[lock].to] ELSE per[i]]

------------------------------------------------------------------------------
\* Rows whose accruals follow on from one another, from start to end.
Tile(rows, start, end) ==
    /\ rows # << >> /\ rows[1].accStart = start /\ Last(rows).accEnd = end
    /\ \A i \in 1..Len(rows) - 1 : rows[i].accEnd = rows[i + 1].accStart
    /\ \A i \in DOMAIN rows : rows[i].accStart < rows[i].accEnd
=============================================================================
