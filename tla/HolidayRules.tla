---------------------------- MODULE HolidayRules ----------------------------
(***************************************************************************)
(* Business-day calendars (build/calendar.hpp): the holidays a calendar's  *)
(* rules give a year, which days are open, and the ways a date is moved to *)
(* an open one.  A calendar row is                                         *)
(*   [weekend, joins, rules, observance, sandwich]                         *)
(* and a rule [kind, month, day, weekday, n, days, from, to, observance,   *)
(* exceptFirstFriday], 0 and "" standing for a field that is not given.    *)
(***************************************************************************)
EXTENDS Dates, Sequences, SequencesExt

CONSTANTS
    Row,         \* calendar id -> its row
    kMaxClosure  \* the longest run of closed days of any calendar

Calendars == DOMAIN Row
OnWeekend(row, s) == Weekday(s) \in row.weekend

\* Mutant: a substitute is the next weekday, another holiday's or not.
ObserveUnlessTaken(policy, s, row, taken) ==
    LET next == {x \in s..s + kMaxClosure : ~OnWeekend(row, x)}
    IN  IF policy = "weekend_to_next_weekday" THEN CHOOSE x \in next : \A z \in next : x <= z ELSE s

\* The day on which a holiday that falls on a weekend is observed, given the days taken so far.
Observe(policy, s, row, taken) ==
    LET w == Weekday(s)
        chained == \/ policy = "weekend_to_next_weekday" /\ w \in {5, 6}
                   \/ policy = "sun_to_next_weekday" /\ w = 6
        next == {x \in s..s + kMaxClosure : ~OnWeekend(row, x) /\ x \notin taken}
    IN  CASE policy = "sat_to_fri_sun_to_mon" /\ w = 5 -> s - 1
          [] policy \in {"sat_to_fri_sun_to_mon", "sun_to_mon"} /\ w = 6 -> s + 1
          [] chained -> CHOOSE x \in next : \A z \in next : x <= z
          [] OTHER -> s

\* Japan's equinoxes, from the day of a base year in units of a 1/1000000 day.
Equinox(y, m, base) ==
    Ymd(y, m, (base + 242194 * (y - 2000) - 1000000 * ((y - 2000) \div 4)) \div 1000000)

RuleDate(r, y) ==
    CASE r.kind \in {"fixed", "working_day"} -> Ymd(y, r.month, r.day)
      [] r.kind = "nth_weekday" -> NthWeekday(y, r.month, r.weekday, r.n)
      [] r.kind = "last_weekday" -> LastWeekday(y, r.month, r.weekday)
      [] r.kind = "easter_offset" -> Easter(y) + r.days
      [] r.kind = "weekday_before" ->
            LET d == Ymd(y, r.month, r.day) - 1 IN d - ((Weekday(d) - r.weekday) % 7)
      [] r.kind = "vernal_equinox" -> Equinox(y, 3, 20691150)
      [] r.kind = "autumnal_equinox" -> Equinox(y, 9, 23090000)

InForce(r, y) == (r.from = 0 \/ y >= r.from) /\ (r.to = 0 \/ y <= r.to)

\* The rules that give a calendar a holiday in a year.
Holding(row, y) ==
    {i \in DOMAIN row.rules :
        /\ row.rules[i].kind # "working_day" /\ InForce(row.rules[i], y)
        /\ ~(row.rules[i].exceptFirstFriday /\ Civil(RuleDate(row.rules[i], y)).d <= 7)}

\* A calendar's holidays of a year, each with its rule, in date order.
Dated(row, y) ==
    LET held == {<<RuleDate(row.rules[i], y), i>> : i \in Holding(row, y)}
        upTo(h) == {g \in held : g[1] < h[1] \/ (g[1] = h[1] /\ g[2] <= h[2])}
        nth(n) == CHOOSE h \in held : Cardinality(upTo(h)) = n
        holiday(h) == [s |-> h[1], rule |-> row.rules[h[2]]]
    IN  [n \in 1..Cardinality(held) |-> holiday(nth(n))]

Policy(row, rule) == IF rule.observance = "" THEN row.observance ELSE rule.observance

\* Weekday holidays are placed first; weekend ones then look for a day that is free.
PlaceNext(row, taken, h) ==
    IF OnWeekend(row, h.s) THEN taken \cup {Observe(Policy(row, h.rule), h.s, row, taken)} ELSE taken
Place(row, dated) ==
    LET taken[i \in 0..Len(dated)] ==
            IF i = 0 THEN {s \in {dated[j].s : j \in DOMAIN dated} : ~OnWeekend(row, s)}
            ELSE PlaceNext(row, taken[i-1], dated[i])
    IN  taken[Len(dated)]
Observed(row, y) == Place(row, Dated(row, y))

\* A rule names a day of every year.
DatesEveryYear(r) ==
    /\ {r.day, r.weekday, r.n, r.days} \subseteq Int
    /\ \/ r.kind \in {"fixed", "working_day", "nth_weekday", "last_weekday", "weekday_before"} /\ r.month \in 1..12
       \/ r.kind \in {"easter_offset", "vernal_equinox", "autumnal_equinox"}

\* A weekend day has one holiday at most, and within a closure after it as many weekdays as there are
\* holidays about a closure around it: all that a search for a free weekday can meet.
LeavesRoom(row, dated) ==
    \A i \in DOMAIN dated : OnWeekend(row, dated[i].s) =>
        LET s == dated[i].s
        IN  /\ \A j \in DOMAIN dated : dated[j].s = s => j = i
            /\ Cardinality({j \in DOMAIN dated : dated[j].s \in s - kMaxClosure - 1..s + kMaxClosure + 1})
                 <= Cardinality({x \in s..s + kMaxClosure : ~OnWeekend(row, x)})

\* What the registry's rows satisfy, of the calendars with rules of their own.
ASSUME RowsAssumption ==
    /\ kMaxClosure \in Nat
    /\ \A c \in {c \in Calendars : Row[c].joins = << >>} :
        /\ \E n \in 0..Len(Row[c].rules) : DOMAIN Row[c].rules = 1..n
        /\ \A i \in DOMAIN Row[c].rules : DatesEveryYear(Row[c].rules[i])
        /\ \A y \in Years : LeavesRoom(Row[c], Dated(Row[c], y))

\* The weekdays with a holiday on either side.
Between(row, hs) == {s + 1 : s \in {s \in hs : ~OnWeekend(row, s + 1) /\ s + 2 \in hs}}
Sandwiched(row, hs) == IF row.sandwich THEN hs \cup Between(row, hs) ELSE hs

\* A calendar's holidays of a year; a joint calendar's are those of its legs.
HolidaysSerial(c, y) ==
    LET of[b \in Calendars] ==
            IF Row[b].joins = << >> THEN Sandwiched(Row[b], Observed(Row[b], y))
            ELSE UNION {of[Row[b].joins[j]] : j \in DOMAIN Row[b].joins}
    IN  of[c]

\* The closed weekdays of each rule-based calendar: a year keeps its own days only.
YearClosed ==
    [c \in {c \in Calendars : Row[c].joins = << >>} |->
        UNION {{s \in HolidaysSerial(c, y) : Jan1(y) <= s /\ s < Jan1(y + 1)} : y \in Years}]

\* A weekend date that is worked.
IsWorkingWeekendDay(row, s) ==
    \E i \in DOMAIN row.rules :
        /\ row.rules[i].kind = "working_day" /\ InForce(row.rules[i], Civil(s).y)
        /\ Ymd(Civil(s).y, row.rules[i].month, row.rules[i].day) = s

\* The open days of every calendar; a joint one is open when every leg is.
Open ==
    LET worked(row) == {s \in Horizon : OnWeekend(row, s) /\ IsWorkingWeekendDay(row, s)}
        weekdays(row) == {s \in Horizon : ~OnWeekend(row, s)}
        open[c \in Calendars] ==
            worked(Row[c]) \cup
            IF Row[c].joins = << >> THEN weekdays(Row[c]) \ YearClosed[c]
            ELSE weekdays(Row[c]) \ UNION {Horizon \ open[b] : b \in Range(Row[c].joins)}
    IN  [c \in Calendars |-> open[c]]

\* A calendar, resolved: the view the builders are handed, known by its open days.
View(c) == Open[c]

IsBusinessDay(cal, s) == s \in cal

\* The nearest open day, from s itself, forward or back.
RollForward(cal, s) == CHOOSE x \in s..s + kMaxClosure : IsBusinessDay(cal, x) /\ \A z \in s..x-1 : ~IsBusinessDay(cal, z)
RollBack(cal, s) == CHOOSE x \in s - kMaxClosure..s : IsBusinessDay(cal, x) /\ \A z \in x+1..s : ~IsBusinessDay(cal, z)

SameMonth(s, t) == Civil(s).m = Civil(t).m

\* A date is moved to an open day under a business-day convention.
Adjust(cal, s, bdc) ==
    LET fwd == RollForward(cal, s)  back == RollBack(cal, s)
    IN  CASE bdc = "Unadjusted" -> s
          [] bdc = "Following" -> fwd
          [] bdc = "Preceding" -> back
          [] bdc = "ModifiedFollowing" -> IF SameMonth(fwd, s) THEN fwd ELSE back
          [] bdc = "ModifiedPreceding" -> IF SameMonth(back, s) THEN back ELSE fwd

\* n open days on (or back), the start not counted; none is a roll forward.
AdvanceBd(cal, s, n) ==
    LET on[k \in 0..n] == IF k = 0 THEN s ELSE RollForward(cal, on[k-1] + 1)
        back[k \in 0..-n] == IF k = 0 THEN s ELSE RollBack(cal, back[k-1] - 1)
    IN  IF n = 0 THEN RollForward(cal, s) ELSE IF n > 0 THEN on[n] ELSE back[-n]

\* Spot is counted from the value date as it is, open or not.
SpotDate(vd, cal, lag) == AdvanceBd(cal, vd, lag)
=============================================================================
