------------------------------- MODULE Dates -------------------------------
(***************************************************************************)
(* Calendar dates (build/date.hpp).  A date is its serial, the number of   *)
(* days since 1970-01-01.  Months are 1..12, weekdays 0 (Monday) .. 6.     *)
(***************************************************************************)
EXTENDS Integers, Sequences

CONSTANTS FirstYear, LastYear     \* the horizon
ASSUME YearsAssumption == FirstYear \in 1970..2400 /\ LastYear \in FirstYear..2400

Years == FirstYear..LastYear

IsLeap(y) == (y % 4 = 0 /\ y % 100 # 0) \/ y % 400 = 0

MonthLength(y, m) ==
    CASE m = 2 -> IF IsLeap(y) THEN 29 ELSE 28
      [] m \in {4, 6, 9, 11} -> 30
      [] OTHER -> 31

\* The serial of a year's first of January, and the days of it before a month's first.
Jan1(y) == 365 * (y - 1970) + ((y - 1969) \div 4) - ((y - 1901) \div 100) + ((y - 1601) \div 400)
DaysBefore(y, m) ==
    <<0, 31, 59, 90, 120, 151, 181, 212, 243, 273, 304, 334>>[m] + (IF m > 2 /\ IsLeap(y) THEN 1 ELSE 0)

Ymd(y, m, d) == Jan1(y) + DaysBefore(y, m) + d - 1

\* A day of month past the month's end is the month's last.
YmdClamped(y, m, d) == Ymd(y, m, IF d < MonthLength(y, m) THEN d ELSE MonthLength(y, m))

Horizon == Jan1(FirstYear)..Jan1(LastYear + 1) - 1

\* A serial's year, month and day: years are counted from 1 March, so that a leap day is the last.
FromMarch(y, mp, doy) ==
    [y |-> IF mp < 10 THEN y ELSE y + 1, m |-> IF mp < 10 THEN mp + 3 ELSE mp - 9,
     d |-> doy - ((153 * mp + 2) \div 5) + 1]
InMarchYear(y, doy) == FromMarch(y, (5 * doy + 2) \div 153, doy)
YearOfEra(doe) == (doe - (doe \div 1460) + (doe \div 36524) - (doe \div 146096)) \div 365
InEra(era, yoe, doe) == InMarchYear(400 * era + yoe, doe - (365 * yoe + (yoe \div 4) - (yoe \div 100)))
OfEra(era, doe) == InEra(era, YearOfEra(doe), doe)
Civil(s) == OfEra((s + 719468) \div 146097, (s + 719468) % 146097)

Weekday(s) == (s + 3) % 7

InMonth(total, d) == YmdClamped(total \div 12, (total % 12) + 1, d)
PlusMonths(s, n) == LET c == Civil(s) IN InMonth(12 * c.y + c.m - 1 + n, c.d)

\* A step is [months, days]; k of them, the months first.
PlusStep(s, step, k) == PlusMonths(s, step.months * k) + step.days * k

NthWeekday(y, m, w, n) ==
    Ymd(y, m, 1) + ((w - Weekday(Ymd(y, m, 1))) % 7) + (n - 1) * 7

EndOfMonth(y, m) == Ymd(y, m, MonthLength(y, m))

LastWeekday(y, m, w) == EndOfMonth(y, m) - ((Weekday(EndOfMonth(y, m)) - w) % 7)

IsMonthEnd(s) == Civil(s).d = MonthLength(Civil(s).y, Civil(s).m)

\* Where a regular boundary falls in a month: its end, or the roll day clamped to it.
RollInMonth(y, m, dom, eom) == IF eom THEN EndOfMonth(y, m) ELSE YmdClamped(y, m, dom)

ThirdWednesday(y, m) == Ymd(y, m, 1 + ((2 - Weekday(Ymd(y, m, 1))) % 7) + 14)

Easter(y) ==
    LET a == y % 19  b == y \div 100  c == y % 100
        f == (b + 8) \div 25
        g == (b - f + 1) \div 3
        h == (19*a + b - (b \div 4) - g + 15) % 30
        l == (32 + 2*(b % 4) + 2*(c \div 4) - h - (c % 4)) % 7
        p == h + l - 7*((a + 11*h + 22*l) \div 451) + 114
    IN  Ymd(y, p \div 31, (p % 31) + 1)
=============================================================================
