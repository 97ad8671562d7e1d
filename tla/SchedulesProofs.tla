--------------------------- MODULE SchedulesProofs ---------------------------
(***************************************************************************)
(* Proofs about accrual schedules and the legs booked on them, for every   *)
(* calendar and request that RowsAssumption, RequestsAssumption and        *)
(* LegsAssumption admit: periods have a positive length, a finished        *)
(* schedule is the regular grid between its ends, its periods accrue what  *)
(* its span does, the fixings of an overnight window earn its days once, a *)
(* booked leg owes what is left of its schedule, and the holidays of a     *)
(* year keep apart.  They rest on the arithmetic of the calendar (a serial *)
(* and its year, month and day), on adjustment keeping dates in order, on  *)
(* the open days of a span listed in order, and on ScheduleInv, which says *)
(* what each loop has made so far and is proved inductive.                 *)
(***************************************************************************)
EXTENDS Legs, FiniteSetTheorems, WellFoundedInduction, TLAPS

------------------------------------------------------------------------------
(* The calendar: a serial is the date ymd_() reads off it. *)

EraDay(doe) == doe \in Nat /\ doe <= 146096
SerialOf(era, doe) == 146097 * era + doe - 719468
Centuries == 0..3
Leaps == 0..24
Singles == 0..3
YearDays == 0..365
EraYears == 0..399
MarchDay(y, doy) == Jan1(y + 1) - 306 + doy

\* A day of an era, as centuries, leap cycles, years and days.
Split(doe, c, q, j, d) ==
    /\ c \in 0..3 /\ q \in 0..24 /\ j \in 0..3 /\ d \in 0..365
    /\ doe = 36524 * c + 1461 * q + 365 * j + d
    /\ d = 365 => j = 3 /\ (q # 24 \/ c = 3)

\* Every day of an era is a day of one of its years.
LEMMA Splits == ASSUME NEW doe, EraDay(doe)
             PROVE  \E c \in Centuries, q \in Leaps, j \in Singles, d \in YearDays : Split(doe, c, q, j, d)
  <1> doe \in Nat /\ doe <= 146096
    BY SMT DEF EraDay
  <1>1. \E c \in 0..3 : doe >= 36524 * c /\ doe - 36524 * c <= 36524 /\ (doe - 36524 * c = 36524 => c = 3)
    <2>1. CASE doe < 36524 BY SMT, <2>1
    <2>2. CASE 36524 <= doe /\ doe < 73048 BY SMT, <2>2
    <2>3. CASE 73048 <= doe /\ doe < 109572 BY SMT, <2>3
    <2>4. CASE 109572 <= doe BY SMT, <2>4
    <2> QED BY SMT, <2>1, <2>2, <2>3, <2>4
  <1>2. PICK c \in 0..3 : doe >= 36524 * c /\ doe - 36524 * c <= 36524 /\ (doe - 36524 * c = 36524 => c = 3)
    BY SMT, <1>1
  <1>3. PICK r \in Nat : doe = 36524 * c + r /\ r <= 36524 /\ (r = 36524 => c = 3)
    BY SMT, <1>2
  <1>4. PICK q \in 0..24 : r >= 1461 * q /\ r - 1461 * q <= 1460
    <2>1. r \div 1461 \in 0..24 /\ r >= 1461 * (r \div 1461) /\ r - 1461 * (r \div 1461) <= 1460
      BY SMT, <1>3
    <2> QED BY SMT, <2>1
  <1>5. PICK s \in Nat : r = 1461 * q + s /\ s <= 1460
    BY SMT, <1>4
  <1>6. (q = 24 /\ s = 1460) => c = 3
    BY SMT, <1>5, <1>3
  <1>7. \E j \in 0..3 : s >= 365 * j /\ s - 365 * j <= 365 /\ (s - 365 * j = 365 => j = 3)
    <2>1. CASE s < 365 BY SMT, <2>1
    <2>2. CASE 365 <= s /\ s < 730 BY SMT, <2>2
    <2>3. CASE 730 <= s /\ s < 1095 BY SMT, <2>3
    <2>4. CASE 1095 <= s BY SMT, <2>4, <1>5
    <2> QED BY SMT, <2>1, <2>2, <2>3, <2>4
  <1>8. PICK j \in 0..3 : s >= 365 * j /\ s - 365 * j <= 365 /\ (s - 365 * j = 365 => j = 3)
    BY SMT, <1>7
  <1>9. PICK d \in 0..365 : s = 365 * j + d /\ (d = 365 => j = 3)
    BY SMT, <1>8
  <1>10. Split(doe, c, q, j, d)
    BY SMT, <1>3, <1>5, <1>6, <1>9 DEF Split
  <1>11. c \in Centuries /\ q \in Leaps /\ j \in Singles /\ d \in YearDays
    BY SMT DEF Centuries, Leaps, Singles, YearDays
  <1> QED BY SMT, <1>10, <1>11

\* What the year-of-era formula reads off such a day.
LEMMA YearOfSplit ==
    ASSUME NEW doe, EraDay(doe), NEW c, NEW q, NEW j, NEW d, Split(doe, c, q, j, d)
    PROVE  YearOfEra(doe) = 100 * c + 4 * q + j
  <1> doe \in Nat /\ doe <= 146096
    BY SMT DEF EraDay
  <1> /\ c \in 0..3 /\ q \in 0..24 /\ j \in 0..3 /\ d \in 0..365
      /\ doe = 36524 * c + 1461 * q + 365 * j + d
      /\ d = 365 => j = 3 /\ (q # 24 \/ c = 3)
    BY SMT DEF Split
  <1>1. (doe \div 36524) - (doe \div 146096) = c
    <2>1. CASE doe = 146096 BY SMT, <2>1
    <2>2. CASE doe < 146096
      <3>1. doe \div 146096 = 0 BY SMT, <2>2
      <3>2. doe - 36524 * c >= 0 /\ doe - 36524 * c < 36524
        BY SMT, <2>2
      <3> QED BY SMT, <3>1, <3>2
    <2> QED BY SMT, <2>1, <2>2
  <1>2. PICK n \in Nat : n = 24 * c + q + 365 * j + d /\ n < 2920
    BY SMT
  <1>3. PICK e \in 0..1 : e = n \div 1460
    BY SMT, <1>2
  <1>4. doe = 1460 * (25 * c + q) + n
    BY SMT, <1>2
  <1>5. doe \div 1460 = 25 * c + q + e
    BY SMT, <1>3, <1>4
  <1>6. (d = 365 => e = 1) /\ (d = 0 => e = 0)
    BY SMT, <1>2, <1>3
  <1>7. doe - (doe \div 1460) + (doe \div 36524) - (doe \div 146096) = 365 * (100 * c + 4 * q + j) + (d - e)
    BY SMT, <1>1, <1>5
  <1>8. d - e \in 0..364
    BY SMT, <1>6
  <1>9. (365 * (100 * c + 4 * q + j) + (d - e)) \div 365 = 100 * c + 4 * q + j
    BY SMT, <1>8
  <1> QED BY SMT, <1>7, <1>9 DEF YearOfEra

DaysOfYears(y) == 365 * y + (y \div 4) - (y \div 100)
YearIn(c, q, j) == 100 * c + 4 * q + j

\* Where that year starts, in days since the era began.
LEMMA StartOfSplit ==
    ASSUME NEW c \in Centuries, NEW q \in Leaps, NEW j \in Singles
    PROVE  DaysOfYears(YearIn(c, q, j)) = 36524 * c + 1461 * q + 365 * j
  <1> c \in 0..3 /\ q \in 0..24 /\ j \in 0..3
    BY SMT DEF Centuries, Leaps, Singles
  <1>1. (100 * c + 4 * q + j) \div 4 = 25 * c + q BY SMT
  <1>2. (100 * c + 4 * q + j) \div 100 = c BY SMT
  <1> QED BY SMT, <1>1, <1>2 DEF DaysOfYears, YearIn

JanIs(era, y) == Jan1(400 * era + y + 1) = 146097 * era + DaysOfYears(y) + Jan1(1)

LEMMA JanOfEra == ASSUME NEW era \in Int, NEW y \in EraYears PROVE JanIs(era, y)
  BY SMT DEF Jan1, JanIs, DaysOfYears, EraYears

LEMMA JanOne == Jan1(1) = -719162
  BY SMT DEF Jan1

LEMMA JanTyped == ASSUME NEW y \in Int PROVE Jan1(y) \in Int
  BY SMT DEF Jan1

\* A year is as long as its leap rule says.
LEMMA JanStep == ASSUME NEW y \in Int PROVE Jan1(y + 1) = Jan1(y) + (IF IsLeap(y) THEN 366 ELSE 365)
  BY SMT DEF Jan1, IsLeap

\* A year, month and day are the date of a serial.
IsDate(c, s) ==
    /\ c.y \in Int /\ c.m \in 1..12 /\ c.d \in 1..MonthLength(c.y, c.m)
    /\ Ymd(c.y, c.m, c.d) = s

\* The day of a year that begins in March.
LEMMA FromMarchIsDay ==
    ASSUME NEW y \in Int, NEW doy \in YearDays, doy = 365 => IsLeap(y + 1)
    PROVE  IsDate(InMarchYear(y, doy), MarchDay(y, doy))
  <1> DEFINE mp == (5 * doy + 2) \div 153
             f == (153 * mp + 2) \div 5
  <1> doy \in 0..365 /\ MarchDay(y, doy) = Jan1(y + 1) - 306 + doy
    BY SMT DEF YearDays, MarchDay
  <1>1. mp \in 0..11 /\ doy >= f /\ doy < ((153 * mp + 155) \div 5)
    BY SMT
  <1>2. InMarchYear(y, doy) = FromMarch(y, mp, doy)
    BY SMT DEF InMarchYear
  <1> HIDE DEF mp
  <1>3. Jan1(y + 1) = Jan1(y) + (IF IsLeap(y) THEN 366 ELSE 365) /\ Jan1(y) \in Int
    BY SMT, JanStep, JanTyped
  <1>4. CASE mp < 10
    <2>1. FromMarch(y, mp, doy) = [y |-> y, m |-> mp + 3, d |-> doy - f + 1]
      BY SMT, <1>4, <1>1 DEF FromMarch
    <2>2. doy - f + 1 \in 1..MonthLength(y, mp + 3)
      <3>1. MonthLength(y, mp + 3) = IF mp \in {1, 3, 6, 8} THEN 30 ELSE 31
        BY SMT, <1>1, <1>4 DEF MonthLength
      <3>2. ((153 * mp + 155) \div 5) - f = IF mp \in {1, 3, 6, 8} THEN 30 ELSE 31
        BY SMT, <1>1, <1>4
      <3> QED BY SMT, <3>1, <3>2, <1>1, <1>4
    <2>3. DaysBefore(y, mp + 3) = f + 59 + (IF IsLeap(y) THEN 1 ELSE 0)
      BY SMT, <1>1, <1>4 DEF DaysBefore
    <2>4. Ymd(y, mp + 3, doy - f + 1) = Jan1(y + 1) - 306 + doy
      BY SMT, <2>3, <1>3, <1>1 DEF Ymd
    <2> QED BY SMT, <2>1, <2>2, <2>4, <1>1, <1>2, <1>4 DEF IsDate
  <1>5. CASE mp >= 10
    <2>1. FromMarch(y, mp, doy) = [y |-> y + 1, m |-> mp - 9, d |-> doy - f + 1]
      BY SMT, <1>5, <1>1 DEF FromMarch
    <2>2. doy - f + 1 \in 1..MonthLength(y + 1, mp - 9)
      BY SMT, <1>1, <1>5 DEF MonthLength
    <2>3. DaysBefore(y + 1, mp - 9) = f - 306
      BY SMT, <1>1, <1>5 DEF DaysBefore
    <2>4. Ymd(y + 1, mp - 9, doy - f + 1) = Jan1(y + 1) - 306 + doy
      BY SMT, <2>3, <1>3, <1>1 DEF Ymd
    <2> QED BY SMT, <2>1, <2>2, <2>4, <1>1, <1>2, <1>5 DEF IsDate
  <1> QED BY SMT, <1>4, <1>5, <1>1

\* What Civil makes of such a day.
LEMMA CivilOfSplit ==
    ASSUME NEW era \in Int, NEW doe, EraDay(doe),
           NEW c \in Centuries, NEW q \in Leaps, NEW j \in Singles, NEW d \in YearDays, Split(doe, c, q, j, d)
    PROVE  IsDate(OfEra(era, doe), SerialOf(era, doe))
  <1>0. /\ doe \in Nat /\ c \in 0..3 /\ q \in 0..24 /\ j \in 0..3 /\ d \in 0..365
        /\ doe = 36524 * c + 1461 * q + 365 * j + d
        /\ d = 365 => j = 3 /\ (q # 24 \/ c = 3)
    BY SMT DEF Split, EraDay, Centuries, Leaps, Singles, YearDays
  <1>1. PICK y \in EraYears : y = YearIn(c, q, j)
    BY SMT, <1>0 DEF EraYears, YearIn
  <1>2. YearOfEra(doe) = y
    BY SMT, YearOfSplit, <1>0, <1>1 DEF YearIn
  <1>3. DaysOfYears(y) = doe - d
    BY SMT, StartOfSplit, <1>0, <1>1
  <1>4. PICK yy \in Int : yy = 400 * era + y
    BY SMT DEF EraYears
  <1>5. InEra(era, y, doe) = InMarchYear(yy, d)
    <2>1. doe - DaysOfYears(y) = d
      BY SMT, <1>0, <1>3
    <2> QED BY Zenon, <2>1, <1>4 DEF InEra, DaysOfYears
  <1>6. OfEra(era, doe) = InMarchYear(yy, d)
    <2>1. OfEra(era, doe) = InEra(era, YearOfEra(doe), doe)
      BY Zenon DEF OfEra
    <2> QED BY Zenon, <1>2, <1>5, <2>1
  <1>7. d = 365 => IsLeap(yy + 1)
    BY SMT, <1>0, <1>1, <1>4 DEF IsLeap, YearIn
  <1>8. MarchDay(yy, d) = SerialOf(era, doe)
    <2>1. JanIs(era, y)
      BY SMT, JanOfEra
    <2> QED BY SMT, <2>1, <1>0, <1>3, <1>4, JanOne DEF JanIs, MarchDay, SerialOf, EraYears
  <1>9. IsDate(InMarchYear(yy, d), MarchDay(yy, d))
    BY SMT, FromMarchIsDay, <1>7
  <1> QED BY Zenon, <1>6, <1>8, <1>9

(* ymd_() undoes ymd(): the year, month and day read off a date, by eras, centuries and leap  *)
(* years, are a day of the calendar, and the date of that day is the date, for every integer. *)
THEOREM CivilIsTheDate == ASSUME NEW s \in Int PROVE IsDate(Civil(s), s)
  <1>1. PICK era \in Int : era = (s + 719468) \div 146097
    BY SMT
  <1>2. PICK doe \in Nat : doe = (s + 719468) % 146097
    BY SMT
  <1>3. EraDay(doe) /\ s = SerialOf(era, doe)
    BY SMT, <1>1, <1>2 DEF EraDay, SerialOf
  <1>4. Civil(s) = OfEra(era, doe)
    BY SMT, <1>1, <1>2 DEF Civil
  <1>5. PICK c \in Centuries, q \in Leaps, j \in Singles, d \in YearDays : Split(doe, c, q, j, d)
    BY SMT, <1>3, Splits
  <1>6. IsDate(OfEra(era, doe), SerialOf(era, doe))
    BY SMT, <1>3, <1>5, CivilOfSplit
  <1> QED BY SMT, <1>3, <1>4, <1>6

------------------------------------------------------------------------------
(* Months: in order, and a day's date in each. *)

\* A month and its first day; a month is counted from year 0.
MonthStart(t) == Ymd(t \div 12, (t % 12) + 1, 1)
LengthOf(t) == MonthLength(t \div 12, (t % 12) + 1)
MonthOf(c) == 12 * c.y + c.m - 1

LEMMA LengthRange == ASSUME NEW t \in Int PROVE LengthOf(t) \in 28..31
  BY SMT DEF LengthOf, MonthLength

\* Years are laid out in order.
LEMMA JanIncreases == ASSUME NEW y \in Int, NEW z \in Int, y <= z PROVE Jan1(y) <= Jan1(z)
  <1>1. PICK a \in Int, b \in Int : a = (y - 1969) \div 4 /\ b = (z - 1969) \div 4
    BY SMT
  <1>2. a <= b /\ (y - 1901) \div 100 = (a + 17) \div 25 /\ (z - 1901) \div 100 = (b + 17) \div 25
    BY SMT, <1>1
  <1>3. a - ((a + 17) \div 25) <= b - ((b + 17) \div 25)
    BY SMT, <1>2
  <1>4. (y - 1601) \div 400 <= (z - 1601) \div 400
    BY SMT
  <1> QED BY SMT, <1>1, <1>2, <1>3, <1>4 DEF Jan1

LEMMA DaysTyped == ASSUME NEW y \in Int, NEW m \in 1..12 PROVE DaysBefore(y, m) \in Nat
  BY SMT DEF DaysBefore

LEMMA LengthTyped == ASSUME NEW y \in Int, NEW m \in 1..12 PROVE MonthLength(y, m) \in 28..31
  BY SMT DEF MonthLength

LEMMA MonthsOfYear ==
    ASSUME NEW y \in Int, NEW m \in 1..12
    PROVE  DaysBefore(y, m) + MonthLength(y, m) = IF m = 12 THEN (IF IsLeap(y) THEN 366 ELSE 365) ELSE DaysBefore(y, m + 1)
  BY SMT DEF DaysBefore, MonthLength

LEMMA MonthTyped == ASSUME NEW t \in Int PROVE MonthStart(t) \in Int
  <1>1. t \div 12 \in Int /\ (t % 12) + 1 \in 1..12
    BY SMT
  <1>2. DaysBefore(t \div 12, (t % 12) + 1) \in Int /\ Jan1(t \div 12) \in Int
    <2>1. DaysBefore(t \div 12, (t % 12) + 1) \in Nat
      BY Zenon, <1>1, DaysTyped
    <2> QED BY SMT, <2>1, <1>1, JanTyped
  <1> QED BY SMT, <1>1, <1>2 DEF MonthStart, Ymd

\* A month ends where the next one starts.
LEMMA MonthStep == ASSUME NEW t \in Int PROVE MonthStart(t + 1) = MonthStart(t) + LengthOf(t)
  <1>1. PICK y \in Int, m \in 1..12 : y = t \div 12 /\ m = (t % 12) + 1
    BY SMT
  <1>2. /\ DaysBefore(y, m) \in Int /\ Jan1(y) \in Int /\ MonthLength(y, m) \in Int
        /\ DaysBefore(y, m) + MonthLength(y, m) = IF m = 12 THEN (IF IsLeap(y) THEN 366 ELSE 365) ELSE DaysBefore(y, m + 1)
    <2>1. DaysBefore(y, m) \in Int /\ Jan1(y) \in Int /\ MonthLength(y, m) \in Int
      <3>1. DaysBefore(y, m) \in Nat BY Zenon, DaysTyped
      <3>2. MonthLength(y, m) \in 28..31 BY Zenon, LengthTyped
      <3> QED BY SMT, <3>1, <3>2, JanTyped
    <2> QED BY Zenon, <2>1, MonthsOfYear
  <1>3. MonthStart(t) = Jan1(y) + DaysBefore(y, m) /\ LengthOf(t) = MonthLength(y, m)
    BY SMT, <1>1, <1>2 DEF MonthStart, LengthOf, Ymd
  <1>4. CASE m = 12
    <2>1. (t + 1) \div 12 = y + 1 /\ ((t + 1) % 12) + 1 = 1
      BY SMT, <1>1, <1>4
    <2>3. DaysBefore(y + 1, 1) = 0
      BY SMT DEF DaysBefore
    <2>2. MonthStart(t + 1) = Jan1(y + 1) + DaysBefore(y + 1, 1)
      BY SMT, <2>1, <2>3, JanTyped DEF MonthStart, Ymd
    <2> QED BY SMT, <1>2, <1>3, <1>4, <2>2, <2>3, JanStep
  <1>5. CASE m # 12
    <2>1. (t + 1) \div 12 = y /\ ((t + 1) % 12) + 1 = m + 1
      BY SMT, <1>1, <1>5
    <2>2. MonthStart(t + 1) = Jan1(y) + DaysBefore(y, m + 1)
      <3>1. DaysBefore(y, m + 1) \in Int
        <4>1. m + 1 \in 1..12 BY SMT, <1>5
        <4>2. DaysBefore(y, m + 1) \in Nat BY Zenon, <4>1, DaysTyped
        <4> QED BY SMT, <4>2
      <3> QED BY SMT, <2>1, <3>1, <1>2 DEF MonthStart, Ymd
    <2> QED BY SMT, <1>2, <1>3, <1>5, <2>2
  <1> QED BY SMT, <1>4, <1>5

\* Months are laid out in order.
LEMMA MonthsIncrease == ASSUME NEW t \in Int, NEW u \in Int, t <= u PROVE MonthStart(t) <= MonthStart(u)
  <1>1. PICK y \in Int, m \in 1..12 : y = t \div 12 /\ m = (t % 12) + 1 /\ t = 12 * y + m - 1
    BY SMT
  <1>2. PICK z \in Int, n \in 1..12 : z = u \div 12 /\ n = (u % 12) + 1 /\ u = 12 * z + n - 1
    BY SMT
  <1>4. DaysBefore(y, m) \in 0..335 /\ DaysBefore(z, n) \in 0..335 /\ Jan1(y) \in Int /\ Jan1(z) \in Int
    <2>1. DaysBefore(y, m) \in 0..335 BY SMT DEF DaysBefore
    <2>2. DaysBefore(z, n) \in 0..335 BY SMT DEF DaysBefore
    <2> QED BY SMT, <2>1, <2>2, JanTyped
  <1>3. MonthStart(t) = Jan1(y) + DaysBefore(y, m) /\ MonthStart(u) = Jan1(z) + DaysBefore(z, n)
    BY SMT, <1>1, <1>2, <1>4 DEF MonthStart, Ymd
  <1>5. PICK a \in Nat, b \in Nat, j \in Int, w \in Int :
            a = DaysBefore(y, m) /\ b = DaysBefore(z, n) /\ j = Jan1(y) /\ w = Jan1(z)
    BY Zenon, DaysTyped, JanTyped
  <1>6. MonthStart(t) = j + a /\ MonthStart(u) = w + b
    BY Zenon, <1>3, <1>5
  <1>7. CASE y = z
    <2>1. m <= n BY SMT, <1>1, <1>2, <1>7
    <2>2. DaysBefore(y, m) <= DaysBefore(y, n)
      BY SMT, <2>1 DEF DaysBefore
    <2>3. j = w /\ a <= b
      BY Zenon, <2>2, <1>5, <1>7
    <2> QED BY SMT, <2>3, <1>6
  <1>8. CASE y < z
    <2>1. j + 365 <= w
      <3>1. y + 1 \in Int /\ y + 1 <= z /\ Jan1(y + 1) \in Int
        BY SMT, <1>8, JanTyped
      <3>2. Jan1(y + 1) <= Jan1(z)
        BY SMT, <3>1, JanIncreases
      <3>3. Jan1(y + 1) = Jan1(y) + (IF IsLeap(y) THEN 366 ELSE 365)
        BY SMT, JanStep
      <3> QED BY SMT, <3>1, <3>2, <3>3, <1>5
    <2>2. a <= 335 BY SMT, <1>4, <1>5
    <2> QED BY SMT, <2>1, <2>2, <1>6
  <1>9. y <= z BY SMT, <1>1, <1>2
  <1> QED BY SMT, <1>7, <1>8, <1>9

\* A date is a day of the month it names.
LEMMA DateInMonth ==
    ASSUME NEW c, NEW s, IsDate(c, s)
    PROVE  /\ MonthOf(c) \in Int /\ s \in Int /\ c.d \in 1..31
           /\ s = MonthStart(MonthOf(c)) + c.d - 1 /\ c.d <= LengthOf(MonthOf(c))
           /\ c.y = MonthOf(c) \div 12 /\ c.m = (MonthOf(c) % 12) + 1
  <1>1. PICK y \in Int, m \in 1..12, d \in 1..31 : y = c.y /\ m = c.m /\ d = c.d /\ d <= MonthLength(y, m) /\ s = Ymd(y, m, d)
    BY SMT DEF IsDate, MonthLength
  <1>2. PICK t \in Int : t = MonthOf(c) /\ t \div 12 = y /\ (t % 12) + 1 = m
    BY SMT, <1>1 DEF MonthOf
  <1>3. s = MonthStart(t) + d - 1 /\ s \in Int
    <2>1. DaysBefore(y, m) \in Int /\ Jan1(y) \in Int
      <3>1. DaysBefore(y, m) \in Nat BY Zenon, DaysTyped
      <3> QED BY SMT, <3>1, JanTyped
    <2> QED BY SMT, <1>1, <1>2, <2>1 DEF MonthStart, Ymd
  <1> QED BY SMT, <1>1, <1>2, <1>3 DEF LengthOf

\* A serial is one date only.
LEMMA OneMonth ==
    ASSUME NEW t \in Int, NEW u \in Int, NEW d \in 1..31, NEW e \in 1..31, d <= LengthOf(t), e <= LengthOf(u),
           MonthStart(t) + d <= MonthStart(u) + e
    PROVE  t <= u
  <1>1. CASE u < t
    <2>1. MonthStart(u + 1) <= MonthStart(t) /\ MonthStart(u + 1) = MonthStart(u) + LengthOf(u)
      BY SMT, <1>1, MonthsIncrease, MonthStep
    <2> QED BY SMT, <2>1, MonthTyped, LengthRange
  <1> QED BY SMT, <1>1

\* The day of a month, clamped to it.
InTheMonth(t, d) == MonthStart(t) + (IF d < LengthOf(t) THEN d ELSE LengthOf(t)) - 1

LEMMA InTheMonthTyped == ASSUME NEW t \in Int, NEW d \in 1..31 PROVE InTheMonth(t, d) \in Int
  BY SMT, MonthTyped, LengthRange DEF InTheMonth

LEMMA InMonthIs == ASSUME NEW t \in Int, NEW d \in 1..31 PROVE InMonth(t, d) = InTheMonth(t, d)
  <1>1. PICK y \in Int, m \in 1..12 : y = t \div 12 /\ m = (t % 12) + 1
    BY SMT
  <1>2. MonthLength(y, m) \in 28..31 /\ DaysBefore(y, m) \in Int /\ Jan1(y) \in Int
    <2>1. DaysBefore(y, m) \in Nat BY Zenon, DaysTyped
    <2>2. MonthLength(y, m) \in 28..31 BY Zenon, LengthTyped
    <2> QED BY SMT, <2>1, <2>2, JanTyped
  <1>3. InMonth(t, d) = YmdClamped(y, m, d)
    BY SMT, <1>1 DEF InMonth
  <1>4. InTheMonth(t, d) = Ymd(y, m, 1) + (IF d < MonthLength(y, m) THEN d ELSE MonthLength(y, m)) - 1
    BY SMT, <1>1 DEF InTheMonth, MonthStart, LengthOf
  <1> QED BY SMT, <1>2, <1>3, <1>4 DEF YmdClamped, Ymd

\* A serial within a month has that month and that day.
LEMMA CivilOfMonth ==
    ASSUME NEW t \in Int, NEW d \in 1..31
    PROVE  /\ MonthOf(Civil(InTheMonth(t, d))) = t
           /\ Civil(InTheMonth(t, d)).d = IF d < LengthOf(t) THEN d ELSE LengthOf(t)
           /\ Civil(InTheMonth(t, d)).m = (t % 12) + 1 /\ Civil(InTheMonth(t, d)).y = t \div 12
  <1>1. PICK s \in Int : s = InTheMonth(t, d)
    BY Zenon, InTheMonthTyped
  <1>2. PICK e \in 1..31 : e = (IF d < LengthOf(t) THEN d ELSE LengthOf(t)) /\ e <= LengthOf(t)
    BY SMT, LengthRange
  <1>3. s = MonthStart(t) + e - 1
    BY SMT, <1>1, <1>2 DEF InTheMonth
  <1>4. IsDate(Civil(s), s)
    BY SMT, CivilIsTheDate
  <1>5. PICK u \in Int, f \in 1..31 : u = MonthOf(Civil(s)) /\ f = Civil(s).d /\ s = MonthStart(u) + f - 1 /\ f <= LengthOf(u)
                                      /\ Civil(s).y = u \div 12 /\ Civil(s).m = (u % 12) + 1
    BY SMT, <1>4, DateInMonth
  <1>6. MonthStart(t) + e = MonthStart(u) + f
    BY SMT, <1>3, <1>5, MonthTyped
  <1>7. t <= u /\ u <= t
    <2>1. MonthStart(t) + e <= MonthStart(u) + f /\ MonthStart(u) + f <= MonthStart(t) + e
      BY SMT, <1>6, MonthTyped
    <2>2. t <= u
      BY Zenon, <1>2, <1>5, <2>1, OneMonth
    <2>3. u <= t
      BY Zenon, <1>2, <1>5, <2>1, OneMonth
    <2> QED BY Zenon, <2>2, <2>3
  <1>8. t = u /\ e = f
    BY SMT, <1>6, <1>7, MonthTyped
  <1> QED BY SMT, <1>1, <1>2, <1>5, <1>8

\* Equal days of two months are at least four weeks apart.
LEMMA MonthsApart ==
    ASSUME NEW t \in Int, NEW u \in Int, NEW d \in 1..31, t < u
    PROVE  InTheMonth(t, d) + 28 <= InTheMonth(u, d)
  <1>1. MonthStart(t + 1) = MonthStart(t) + LengthOf(t) /\ MonthStart(t + 2) = MonthStart(t + 1) + LengthOf(t + 1)
    BY SMT, MonthStep
  <1>2. {MonthStart(t), MonthStart(t + 1), MonthStart(t + 2), MonthStart(u)} \subseteq Int
    BY SMT, MonthTyped
  <1>3. LengthOf(t) \in 28..31 /\ LengthOf(t + 1) \in 28..31 /\ LengthOf(u) \in 28..31
    BY SMT, LengthRange
  <1>4. CASE u = t + 1
    BY SMT, <1>1, <1>2, <1>3, <1>4 DEF InTheMonth
  <1>5. CASE u > t + 1
    <2>1. MonthStart(t + 2) <= MonthStart(u)
      BY SMT, <1>5, MonthsIncrease
    <2> QED BY SMT, <2>1, <1>1, <1>2, <1>3 DEF InTheMonth
  <1> QED BY SMT, <1>4, <1>5

\* A serial is a day of the month Civil says it is of.
LEMMA OwnMonth ==
    ASSUME NEW s \in Int
    PROVE  \E t \in Int, d \in 1..31 : t = MonthOf(Civil(s)) /\ d = Civil(s).d /\ InTheMonth(t, d) = s
  <1>1. IsDate(Civil(s), s)
    BY SMT, CivilIsTheDate
  <1>2. PICK t \in Int, d \in 1..31 : t = MonthOf(Civil(s)) /\ d = Civil(s).d /\ d <= LengthOf(t) /\ s = MonthStart(t) + d - 1
    BY SMT, <1>1, DateInMonth
  <1>3. InTheMonth(t, d) = s
    BY SMT, <1>2, LengthRange, MonthTyped DEF InTheMonth
  <1> QED BY SMT, <1>2, <1>3

\* Months on, a date is clamped to the month it lands in.
LEMMA MonthsOn ==
    ASSUME NEW s \in Int, NEW n \in Int, NEW t \in Int, NEW d \in 1..31, t = MonthOf(Civil(s)), d = Civil(s).d
    PROVE  PlusMonths(s, n) = InTheMonth(t + n, d)
  <1>1. PlusMonths(s, n) = InMonth(t + n, d)
    BY SMT DEF PlusMonths, MonthOf
  <1> QED BY SMT, <1>1, InMonthIs

LEMMA MonthsOnTyped == ASSUME NEW s \in Int, NEW n \in Int PROVE PlusMonths(s, n) \in Int
  <1>1. PICK t \in Int, d \in 1..31 : t = MonthOf(Civil(s)) /\ d = Civil(s).d
    BY SMT, OwnMonth
  <1>2. PlusMonths(s, n) = InTheMonth(t + n, d)
    BY SMT, <1>1, MonthsOn
  <1>3. t + n \in Int BY SMT
  <1>4. InTheMonth(t + n, d) \in Int BY Zenon, <1>3, InTheMonthTyped
  <1> QED BY Zenon, <1>2, <1>4

\* A month or more on is four weeks or more on.
LEMMA PlusMonthsApart ==
    ASSUME NEW s \in Int, NEW n \in Int, NEW w \in Int, n < w
    PROVE  PlusMonths(s, n) + 28 <= PlusMonths(s, w)
  <1>1. PICK t \in Int, d \in 1..31 : t = MonthOf(Civil(s)) /\ d = Civil(s).d
    BY SMT, OwnMonth
  <1>2. PlusMonths(s, n) = InTheMonth(t + n, d) /\ PlusMonths(s, w) = InTheMonth(t + w, d)
    BY SMT, <1>1, MonthsOn
  <1> QED BY SMT, <1>2, MonthsApart

\* No months on, a date stays.
LEMMA NoMonths == ASSUME NEW s \in Int PROVE PlusMonths(s, 0) = s
  <1>1. PICK t \in Int, d \in 1..31 : t = MonthOf(Civil(s)) /\ d = Civil(s).d /\ InTheMonth(t, d) = s
    BY SMT, OwnMonth
  <1>2. PlusMonths(s, 0) = InTheMonth(t + 0, d)
    BY SMT, <1>1, MonthsOn
  <1> QED BY SMT, <1>1, <1>2

------------------------------------------------------------------------------
(* Open days and the conventions that move a date to one. *)

\* A nonempty set of naturals has a least member: what the inductions below descend to.
LEMMA Least == ASSUME NEW T \in SUBSET Nat, T # {} PROVE \E x \in T : \A y \in T : x <= y
  <1> DEFINE R == {ss \in Nat \X Nat : ss[1] < ss[2]}
  <1>1. IsWellFoundedOn(R, Nat)
    BY NatLessThanWellFounded DEF OpToRel
  <1> HIDE DEF R
  <1>2. PICK x \in T : \A y \in T : ~ (<<y, x>> \in R)
    BY <1>1, WFMin, Zenon
  <1>3. \A y \in T : ~(y < x)
    BY <1>2 DEF R
  <1> QED BY <1>3

LEMMA Closures == kMaxClosure \in 0..13
  BY RequestsAssumption

\* The open days on either side of a day.
OpenAfter(cal, s, f) == f \in s..s + kMaxClosure /\ f \in cal /\ \A z \in s..f - 1 : z \notin cal
OpenBefore(cal, s, b) == b \in s - kMaxClosure..s /\ b \in cal /\ \A z \in b + 1..s : z \notin cal

\* A roll forward finds the first open day.
LEMMA Forward == ASSUME NEW cal, NEW s \in Int, Served(cal, s) PROVE OpenAfter(cal, s, RollForward(cal, s))
  <1> DEFINE T == {n \in Nat : n <= kMaxClosure /\ s + n \in cal}
  <1>1. T \in SUBSET Nat /\ T # {}
    <2>1. PICK x \in s..s + kMaxClosure : x \in cal
      BY DEF Served
    <2>2. x - s \in Nat /\ x - s <= kMaxClosure /\ s + (x - s) = x
      BY Closures
    <2> QED BY <2>1, <2>2
  <1>2. PICK n \in T : \A m \in T : n <= m
    BY <1>1, Least
  <1>3. s + n \in s..s + kMaxClosure /\ s + n \in cal /\ \A z \in s..s + n - 1 : z \notin cal
    <2>1. n \in Nat /\ n <= kMaxClosure /\ s + n \in cal
      BY <1>2
    <2>2. ASSUME NEW z \in s..s + n - 1, z \in cal PROVE FALSE
      <3>1. z - s \in Nat /\ z - s < n /\ z - s <= kMaxClosure /\ s + (z - s) = z
        BY <2>1, Closures
      <3>2. z - s \in T
        BY <3>1, <2>2
      <3> QED BY <3>1, <3>2, <1>2, <2>1
    <2> QED BY <2>1, <2>2, Closures
  <1> QED BY <1>3 DEF RollForward, OpenAfter, IsBusinessDay

\* A roll back finds the last open day.
LEMMA Backward == ASSUME NEW cal, NEW s \in Int, Served(cal, s) PROVE OpenBefore(cal, s, RollBack(cal, s))
  <1> DEFINE T == {n \in Nat : n <= kMaxClosure /\ s - n \in cal}
  <1>1. T \in SUBSET Nat /\ T # {}
    <2>1. PICK x \in s - kMaxClosure..s : x \in cal
      BY DEF Served
    <2>2. s - x \in Nat /\ s - x <= kMaxClosure /\ s - (s - x) = x
      BY Closures
    <2> QED BY <2>1, <2>2
  <1>2. PICK n \in T : \A m \in T : n <= m
    BY <1>1, Least
  <1>3. s - n \in s - kMaxClosure..s /\ s - n \in cal /\ \A z \in s - n + 1..s : z \notin cal
    <2>1. n \in Nat /\ n <= kMaxClosure /\ s - n \in cal
      BY <1>2
    <2>2. ASSUME NEW z \in s - n + 1..s, z \in cal PROVE FALSE
      <3>1. s - z \in Nat /\ s - z < n /\ s - z <= kMaxClosure /\ s - (s - z) = z
        BY <2>1, Closures
      <3>2. s - z \in T
        BY <3>1, <2>2
      <3> QED BY <3>1, <3>2, <1>2, <2>1
    <2> QED BY <2>1, <2>2, Closures
  <1> QED BY <1>3 DEF RollBack, OpenBefore, IsBusinessDay

\* What a convention makes of a day between two open days.
Moved(s, f, b, bdc) ==
    CASE bdc = "Unadjusted" -> s
      [] bdc = "Following" -> f
      [] bdc = "Preceding" -> b
      [] bdc = "ModifiedFollowing" -> IF SameMonth(f, s) THEN f ELSE b
      [] bdc = "ModifiedPreceding" -> IF SameMonth(b, s) THEN b ELSE f

\* Adjustment chooses between the open days on either side.
LEMMA AdjustIs ==
    ASSUME NEW cal, NEW s \in Int, Served(cal, s), NEW bdc \in BusinessDayConventions
    PROVE  \E f \in Int, b \in Int : OpenAfter(cal, s, f) /\ OpenBefore(cal, s, b) /\ Adjust(cal, s, bdc) = Moved(s, f, b, bdc)
  <1>1. OpenAfter(cal, s, RollForward(cal, s)) /\ OpenBefore(cal, s, RollBack(cal, s))
    BY Forward, Backward
  <1>2. RollForward(cal, s) \in Int /\ RollBack(cal, s) \in Int
    BY <1>1, Closures DEF OpenAfter, OpenBefore
  <1>3. Adjust(cal, s, bdc) = Moved(s, RollForward(cal, s), RollBack(cal, s), bdc)
    BY Zenon DEF Adjust, Moved
  <1> QED BY Zenon, <1>1, <1>2, <1>3

\* Adjustment moves a day by no more than one closure.
LEMMA AdjustNear ==
    ASSUME NEW cal, NEW s \in Int, Served(cal, s), NEW bdc \in BusinessDayConventions
    PROVE  Adjust(cal, s, bdc) \in s - kMaxClosure..s + kMaxClosure
  <1>1. PICK f \in Int, b \in Int : OpenAfter(cal, s, f) /\ OpenBefore(cal, s, b) /\ Adjust(cal, s, bdc) = Moved(s, f, b, bdc)
    BY AdjustIs
  <1>2. f \in s..s + kMaxClosure /\ b \in s - kMaxClosure..s
    BY <1>1 DEF OpenAfter, OpenBefore
  <1>3. Moved(s, f, b, bdc) \in {s, f, b}
    BY DEF Moved, BusinessDayConventions
  <1> QED BY <1>1, <1>2, <1>3, Closures

\* Days further apart than two closures stay in order.
LEMMA AdjustApart ==
    ASSUME NEW cal, NEW s \in Int, NEW t \in Int, Served(cal, s), Served(cal, t), NEW bdc \in BusinessDayConventions,
           s + 2 * kMaxClosure < t
    PROVE  Adjust(cal, s, bdc) < Adjust(cal, t, bdc)
  <1>1. Adjust(cal, s, bdc) \in s - kMaxClosure..s + kMaxClosure
    BY AdjustNear
  <1>2. Adjust(cal, t, bdc) \in t - kMaxClosure..t + kMaxClosure
    BY AdjustNear
  <1> QED BY <1>1, <1>2, Closures

\* Days of one month number that are less than four weeks apart are days of one month.
LEMMA MonthBetween ==
    ASSUME NEW s \in Int, NEW t \in Int, NEW u \in Int, s <= t, t <= u, u - s <= 27, SameMonth(s, u)
    PROVE  SameMonth(s, t)
  <1>1. PICK a \in Int, d \in 1..31 : a = MonthOf(Civil(s)) /\ s = MonthStart(a) + d - 1 /\ d <= LengthOf(a) /\ Civil(s).m = (a % 12) + 1
    <2>1. IsDate(Civil(s), s)
      BY Zenon, CivilIsTheDate
    <2> QED BY SMT, <2>1, DateInMonth
  <1>2. PICK b \in Int, e \in 1..31 : b = MonthOf(Civil(t)) /\ t = MonthStart(b) + e - 1 /\ e <= LengthOf(b) /\ Civil(t).m = (b % 12) + 1
    <2>1. IsDate(Civil(t), t)
      BY Zenon, CivilIsTheDate
    <2> QED BY SMT, <2>1, DateInMonth
  <1>3. PICK c \in Int, f \in 1..31 : c = MonthOf(Civil(u)) /\ u = MonthStart(c) + f - 1 /\ f <= LengthOf(c) /\ Civil(u).m = (c % 12) + 1
    <2>1. IsDate(Civil(u), u)
      BY Zenon, CivilIsTheDate
    <2> QED BY SMT, <2>1, DateInMonth
  <1>4. MonthStart(a) + d <= MonthStart(b) + e /\ MonthStart(b) + e <= MonthStart(c) + f
    BY SMT, <1>1, <1>2, <1>3, MonthTyped
  <1>5. a <= b
    BY Zenon, <1>1, <1>2, <1>4, OneMonth
  <1>6. b <= c
    BY Zenon, <1>2, <1>3, <1>4, OneMonth
  <1>7. a % 12 = c % 12
    BY SMT, <1>1, <1>3 DEF SameMonth
  <1>8. CASE a < c
    <2>1. a + 2 <= c
      BY SMT, <1>7, <1>8
    <2>2. MonthStart(a + 2) <= MonthStart(c)
      BY SMT, <2>1, MonthsIncrease
    <2>3. MonthStart(a + 1) = MonthStart(a) + LengthOf(a)
      BY SMT, MonthStep
    <2>4. MonthStart(a + 2) = MonthStart(a + 1) + LengthOf(a + 1)
      <3>1. a + 1 \in Int /\ a + 1 + 1 = a + 2
        BY SMT
      <3>2. MonthStart(a + 1 + 1) = MonthStart(a + 1) + LengthOf(a + 1)
        BY Zenon, <3>1, MonthStep
      <3> QED BY SMT, <3>1, <3>2
    <2>5. LengthOf(a) \in 28..31 /\ LengthOf(a + 1) \in 28..31
      BY SMT, LengthRange
    <2> QED BY SMT, <2>2, <2>3, <2>4, <2>5, <1>1, <1>3, MonthTyped
  <1>9. CASE a = c
    BY SMT, <1>1, <1>2, <1>5, <1>6, <1>9 DEF SameMonth
  <1> QED BY SMT, <1>5, <1>6, <1>8, <1>9

(* adjust() keeps dates in order: under any convention, on any calendar without a closure of  *)
(* half a month, the modified ones included, which may turn back at a month's end.            *)
THEOREM AdjustMonotone ==
    ASSUME NEW cal, NEW s \in Int, NEW t \in Int, Served(cal, s), Served(cal, t), NEW bdc \in BusinessDayConventions, s <= t
    PROVE  Adjust(cal, s, bdc) <= Adjust(cal, t, bdc)
  <1>1. PICK f \in Int, b \in Int : OpenAfter(cal, s, f) /\ OpenBefore(cal, s, b) /\ Adjust(cal, s, bdc) = Moved(s, f, b, bdc)
    BY AdjustIs
  <1>2. PICK g \in Int, c \in Int : OpenAfter(cal, t, g) /\ OpenBefore(cal, t, c) /\ Adjust(cal, t, bdc) = Moved(t, g, c, bdc)
    BY AdjustIs
  <1>3. /\ f \in s..s + kMaxClosure /\ f \in cal /\ \A z \in s..f - 1 : z \notin cal
        /\ b \in s - kMaxClosure..s /\ b \in cal /\ \A z \in b + 1..s : z \notin cal
    BY <1>1 DEF OpenAfter, OpenBefore
  <1>4. /\ g \in t..t + kMaxClosure /\ g \in cal /\ \A z \in t..g - 1 : z \notin cal
        /\ c \in t - kMaxClosure..t /\ c \in cal /\ \A z \in c + 1..t : z \notin cal
    BY <1>2 DEF OpenAfter, OpenBefore
  <1>5. CASE c < s
    <2>1. f = g
      <3>1. ~(f < g)
        BY <1>3, <1>4, <1>5, Closures
      <3>2. ~(g < f)
        BY <1>3, <1>4, Closures
      <3> QED BY <3>1, <3>2
    <2>2. b = c
      <3>1. ~(b < c)
        BY <1>3, <1>4, <1>5, Closures
      <3>2. ~(c < b)
        BY <1>3, <1>4, Closures
      <3> QED BY <3>1, <3>2
    <2>3. f - b <= 27 /\ b <= s /\ t <= f
      BY <2>1, <2>2, <1>3, <1>4, Closures
    <2>4. SameMonth(f, s) => SameMonth(f, t)
      <3>1. SameMonth(s, f) => SameMonth(s, t)
        BY SMT, <2>3, MonthBetween, <1>3, Closures
      <3> QED BY Zenon, <3>1 DEF SameMonth
    <2>5. SameMonth(b, t) => SameMonth(b, s)
      BY SMT, <2>3, MonthBetween
    <2> QED BY <1>1, <1>2, <2>1, <2>2, <2>3, <2>4, <2>5 DEF Moved, BusinessDayConventions
  <1>6. CASE s <= c
    <2>1. f <= c /\ b <= s /\ c <= t /\ t <= g /\ s <= f
      <3>1. ~(c < f)
        BY <1>3, <1>4, <1>6, Closures
      <3> QED BY <3>1, <1>3, <1>4, Closures
    <2>2. Moved(s, f, b, bdc) \in {s, f, b} /\ Moved(t, g, c, bdc) \in {t, g, c} /\ (bdc = "Unadjusted" => Moved(s, f, b, bdc) = s /\ Moved(t, g, c, bdc) = t)
      BY DEF Moved, BusinessDayConventions
    <2> QED BY <1>1, <1>2, <2>1, <2>2
  <1> QED BY <1>4, <1>5, <1>6, Closures

------------------------------------------------------------------------------
(* Steps of months and days, and regular dates. *)

\* The next month's day is at most a month on.
LEMMA NextMonthNear ==
    ASSUME NEW t \in Int, NEW d \in 1..31
    PROVE  InTheMonth(t + 1, d) <= InTheMonth(t, d) + 31
  <1>1. MonthStart(t + 1) = MonthStart(t) + LengthOf(t)
    BY SMT, MonthStep
  <1>2. LengthOf(t) \in 28..31 /\ LengthOf(t + 1) \in 28..31 /\ MonthStart(t) \in Int
    BY SMT, LengthRange, MonthTyped
  <1> QED BY SMT, <1>1, <1>2 DEF InTheMonth

\* Consecutive months are within 31 days of each other.
LEMMA MonthsNear ==
    ASSUME NEW t \in Int, NEW d \in 1..31, NEW n \in Nat
    PROVE  InTheMonth(t + n, d) <= InTheMonth(t, d) + 31 * n
  <1> DEFINE T == {m \in Nat : ~ (InTheMonth(t + m, d) <= InTheMonth(t, d) + 31 * m)}
  <1>1. SUFFICES ASSUME T # {} PROVE FALSE
    BY Zenon
  <1>2. PICK m \in T : \A x \in T : m <= x
    BY <1>1, Least, Zenon
  <1>3. InTheMonth(t, d) \in Int
    BY Zenon, InTheMonthTyped
  <1>4. m # 0
    BY SMT, <1>2, <1>3
  <1>5. PICK l \in Nat : m = l + 1
    BY SMT, <1>4
  <1>6. InTheMonth(t + l, d) <= InTheMonth(t, d) + 31 * l
    BY SMT, <1>2, <1>5
  <1>7. t + l \in Int /\ t + l + 1 \in Int /\ t + m = t + l + 1
    BY SMT, <1>5
  <1>8. InTheMonth(t + l + 1, d) <= InTheMonth(t + l, d) + 31
    BY Zenon, <1>7, NextMonthNear
  <1>9. InTheMonth(t + l, d) \in Int /\ InTheMonth(t + l + 1, d) \in Int
    BY Zenon, <1>7, InTheMonthTyped
  <1>10. InTheMonth(t + m, d) <= InTheMonth(t, d) + 31 * m
    BY SMT, <1>3, <1>5, <1>6, <1>7, <1>8, <1>9
  <1> QED BY SMT, <1>10, <1>2

\* A step of months is no longer than 31 days a month.
LEMMA PlusMonthsNear ==
    ASSUME NEW s \in Int, NEW n \in Int, NEW m \in Nat
    PROVE  PlusMonths(s, n + m) <= PlusMonths(s, n) + 31 * m
  <1>1. PICK t \in Int, d \in 1..31 : t = MonthOf(Civil(s)) /\ d = Civil(s).d
    BY SMT, OwnMonth
  <1>2. PlusMonths(s, n) = InTheMonth(t + n, d)
    BY SMT, <1>1, MonthsOn
  <1>3. PlusMonths(s, n + m) = InTheMonth(t + n + m, d)
    BY SMT, <1>1, MonthsOn
  <1>4. PICK u \in Int : u = t + n
    BY SMT
  <1>5. InTheMonth(u + m, d) <= InTheMonth(u, d) + 31 * m
    BY Zenon, MonthsNear
  <1> QED BY SMT, <1>2, <1>3, <1>4, <1>5

\* Products of a step count keep its order, and its distance.
LEMMA ProductsInOrder == ASSUME NEW m \in Nat, NEW i \in Nat, NEW j \in Nat, i < j
                  PROVE  m * j \in Nat /\ m * i \in Nat /\ m * (i + 1) = m * i + m /\ m * i + m <= m * j
  <1>1. PICK e \in Nat : j = i + 1 + e
    BY SMT
  <1>2. m * j = m * i + m + m * e /\ m * e \in Nat /\ m * i \in Nat
    BY SMT, <1>1
  <1> QED BY SMT, <1>2

LEMMA StepTyped ==
    ASSUME NEW s \in Int, NEW step, step.months \in Nat, step.days \in Nat, NEW w \in Nat
    PROVE  PlusStep(s, step, w) \in Int
  <1>1. PICK n \in Int, e \in Int : n = step.months * w /\ e = step.days * w
    BY SMT
  <1>2. PlusMonths(s, n) \in Int
    BY Zenon, MonthsOnTyped, <1>1
  <1> QED BY SMT, <1>1, <1>2 DEF PlusStep

LEMMA StepZero ==
    ASSUME NEW s \in Int, NEW step, step.months \in Nat, step.days \in Nat
    PROVE  PlusStep(s, step, 0) = s
  <1>1. step.months * 0 = 0 /\ step.days * 0 = 0
    BY SMT
  <1> QED BY SMT, <1>1, NoMonths DEF PlusStep

\* Later steps are later by the days of the step, and by four weeks if it has months.
LEMMA StepsApart ==
    ASSUME NEW s \in Int, NEW step, step.months \in Nat, step.days \in Nat, NEW i \in Nat, NEW w \in Nat, i < w
    PROVE  /\ PlusStep(s, step, i) + step.days <= PlusStep(s, step, w)
           /\ step.months > 0 => PlusStep(s, step, i) + 28 <= PlusStep(s, step, w)
  <1>1. PICK m \in Nat, d \in Nat : m = step.months /\ d = step.days
    BY SMT
  <1>2. PICK mi \in Nat, mk \in Nat : mi = m * i /\ mk = m * w /\ mi + m <= mk
    BY SMT, ProductsInOrder
  <1>3. PICK di \in Nat, dk \in Nat : di = d * i /\ dk = d * w /\ di + d <= dk
    BY SMT, ProductsInOrder
  <1>4. PlusMonths(s, mi) \in Int /\ PlusMonths(s, mk) \in Int
    <2>1. mi \in Int /\ mk \in Int BY SMT
    <2> QED BY Zenon, <2>1, MonthsOnTyped
  <1>5. PlusStep(s, step, i) = PlusMonths(s, mi) + di /\ PlusStep(s, step, w) = PlusMonths(s, mk) + dk
    BY Zenon, <1>1, <1>2, <1>3 DEF PlusStep
  <1>6. mi < mk => PlusMonths(s, mi) + 28 <= PlusMonths(s, mk)
    BY SMT, PlusMonthsApart
  <1>7. mi <= mk => PlusMonths(s, mi) <= PlusMonths(s, mk)
    BY SMT, <1>6, <1>4
  <1>8. PlusMonths(s, mi) + di + d <= PlusMonths(s, mk) + dk
    BY SMT, <1>2, <1>3, <1>4, <1>7
  <1>9. m > 0 => PlusMonths(s, mi) + di + 28 <= PlusMonths(s, mk) + dk
    BY SMT, <1>2, <1>3, <1>4, <1>6
  <1> QED BY Zenon, <1>1, <1>5, <1>8, <1>9

\* The next step is no further than the step is long.
LEMMA StepsNear ==
    ASSUME NEW s \in Int, NEW step, step.months \in Nat, step.days \in Nat, NEW w \in Nat
    PROVE  PlusStep(s, step, w + 1) <= PlusStep(s, step, w) + 31 * step.months + step.days
  <1>1. PICK m \in Nat, d \in Nat : m = step.months /\ d = step.days
    BY SMT
  <1>2. PICK n \in Nat, e \in Nat : n = m * w /\ e = d * w /\ m * (w + 1) = n + m /\ d * (w + 1) = e + d
    BY SMT
  <1>3. PlusMonths(s, n + m) <= PlusMonths(s, n) + 31 * m
    BY SMT, PlusMonthsNear
  <1>4. PlusMonths(s, n) \in Int /\ PlusMonths(s, n + m) \in Int
    <2>1. n \in Int /\ n + m \in Int BY SMT
    <2> QED BY Zenon, <2>1, MonthsOnTyped
  <1>5. PlusStep(s, step, w) = PlusMonths(s, n) + e /\ PlusStep(s, step, w + 1) = PlusMonths(s, n + m) + (e + d)
    BY Zenon, <1>1, <1>2 DEF PlusStep
  <1> QED BY SMT, <1>1, <1>3, <1>4, <1>5

\* A regular date is the same day of a month, clamped to it; a month's end is its 31st.
RegularDay(r) == IF AtMonthEnd(r) THEN 31 ELSE IF r.rule.dom > 0 THEN r.rule.dom ELSE Civil(Anchor(r)).d
RegularMonth(r, n) == MonthOf(Civil(Anchor(r))) + (IF r.rule.side = "Back" THEN n * r.step.months ELSE -n * r.step.months)

\* A rolled date is a day of its month.
LEMMA RollInMonthIs ==
    ASSUME NEW t \in Int, NEW d \in 1..31, NEW eom
    PROVE  RollInMonth(t \div 12, (t % 12) + 1, d, eom) = InTheMonth(t, IF eom THEN 31 ELSE d)
  <1>1. PICK y \in Int, m \in 1..12 : y = t \div 12 /\ m = (t % 12) + 1
    BY SMT
  <1>2. MonthLength(y, m) \in 28..31 /\ DaysBefore(y, m) \in Int /\ Jan1(y) \in Int
    <2>1. DaysBefore(y, m) \in Nat BY Zenon, DaysTyped
    <2>2. MonthLength(y, m) \in 28..31 BY Zenon, LengthTyped
    <2> QED BY SMT, <2>1, <2>2, JanTyped
  <1>3. CASE eom
    <2>1. RollInMonth(y, m, d, eom) = Jan1(y) + DaysBefore(y, m) + MonthLength(y, m) - 1
      BY SMT, <1>3 DEF RollInMonth, EndOfMonth, Ymd
    <2>2. InTheMonth(t, 31) = Jan1(y) + DaysBefore(y, m) + 1 - 1 + MonthLength(y, m) - 1
      BY SMT, <1>1, <1>2 DEF InTheMonth, MonthStart, LengthOf, Ymd
    <2>3. RollInMonth(y, m, d, eom) = InTheMonth(t, 31)
      BY SMT, <2>1, <2>2, <1>2
    <2> QED BY Zenon, <2>3, <1>1, <1>3
  <1>4. CASE ~eom
    <2>1. RollInMonth(y, m, d, eom) = InMonth(t, d)
      BY SMT, <1>4, <1>1 DEF RollInMonth, InMonth
    <2> QED BY SMT, <2>1, <1>1, <1>4, InMonthIs
  <1> QED BY <1>3, <1>4

------------------------------------------------------------------------------
(* Requests. *)

\* A request, field by field.
LEMMA RequestTyped ==
    ASSUME NEW r \in Requests
    PROVE  /\ r.spot \in Int /\ r.mat \in Int /\ r.step.months \in Nat /\ r.step.days \in Nat
           /\ r.step.days = 0 => r.step.months > 0
           /\ r.bdc \in BusinessDayConventions /\ r.rule.side \in {"Back", "Front"} /\ r.rule.dom \in 0..31
           /\ (IF r.rule.termBdc = "" THEN r.bdc ELSE r.rule.termBdc) \in BusinessDayConventions
  BY RequestsAssumption

LEMMA WhereServed ==
    ASSUME NEW r \in Requests, NEW s \in Int, r.spot <= s, s <= r.mat + 2 * kMaxClosure + 31 * r.step.months + r.step.days
    PROVE  Served(r.cal, s)
  <1>0. PICK a \in Int, b \in Int, m \in Nat, d \in Nat : a = r.spot /\ b = r.mat /\ m = r.step.months /\ d = r.step.days
    BY Zenon, RequestTyped
  <1>1. s \in r.spot..r.mat + 2 * kMaxClosure + 31 * r.step.months + r.step.days
    <2>1. a <= s /\ s <= b + 2 * kMaxClosure + 31 * m + d
      BY Zenon, <1>0
    <2>2. s \in a..b + 2 * kMaxClosure + 31 * m + d
      BY SMT, <2>1, Closures
    <2> QED BY Zenon, <2>2, <1>0
  <1> QED BY Zenon, <1>1, RequestsAssumption

\* Between the ends of a request, the calendar is known.
LEMMA Inner ==
    ASSUME NEW r \in Requests, NEW s \in Int, r.spot <= s, s <= r.mat
    PROVE  Served(r.cal, s) /\ Adjust(r.cal, s, r.bdc) \in s - kMaxClosure..s + kMaxClosure
  <1>1. Served(r.cal, s)
    <2>1. PICK a \in Int, b \in Int, m \in Nat, d \in Nat : a = r.spot /\ b = r.mat /\ m = r.step.months /\ d = r.step.days
      BY Zenon, RequestTyped
    <2>2. s <= b + 2 * kMaxClosure + 31 * m + d
      <3>1. s <= b BY Zenon, <2>1
      <3> QED BY SMT, <3>1, Closures
    <2> QED BY Zenon, <2>1, <2>2, WhereServed
  <1> QED BY Zenon, <1>1, RequestTyped, AdjustNear

\* The end is within a closure of the maturity.
LEMMA EndNear ==
    ASSUME NEW r \in Requests, r.spot < r.mat
    PROVE  End(r) \in r.mat - kMaxClosure..r.mat + kMaxClosure
  <1>1. r.mat \in Int /\ Served(r.cal, r.mat)
    <2>1. PICK a \in Int, b \in Int : a = r.spot /\ b = r.mat /\ a < b
      BY Zenon, RequestTyped
    <2>2. a <= b /\ b <= b
      BY SMT, <2>1
    <2> QED BY Zenon, <2>1, <2>2, Inner
  <1> QED BY Zenon, <1>1, RequestTyped, AdjustNear DEF End

\* The n-th boundary of the default rule.
StepDate(r, n) == PlusStep(r.spot, r.step, n)
Stepped(r, n) == Adjust(r.cal, StepDate(r, n), r.bdc)

LEMMA StepDates ==
    ASSUME NEW r \in Requests, NEW n \in Nat
    PROVE  /\ StepDate(r, n) \in Int
           /\ StepDate(r, 0) = r.spot
           /\ StepDate(r, n + 1) <= StepDate(r, n) + 31 * r.step.months + r.step.days
  BY Zenon, RequestTyped, StepTyped, StepZero, StepsNear DEF StepDate

\* Steps of the default loop are in order, and long ones stay so under adjustment.
LEMMA StepDatesApart ==
    ASSUME NEW r \in Requests, NEW i \in Nat, NEW n \in Nat, i < n
    PROVE  /\ StepDate(r, i) < StepDate(r, n)
           /\ LongStep(r) => StepDate(r, i) + 2 * kMaxClosure < StepDate(r, n)
  <1>1. PICK s \in Int, t \in Int : s = StepDate(r, i) /\ t = StepDate(r, n)
    BY Zenon, StepDates
  <1>2. s + r.step.days <= t /\ (r.step.months > 0 => s + 28 <= t)
    BY Zenon, <1>1, RequestTyped, StepsApart DEF StepDate
  <1>3. PICK m \in Nat, d \in Nat : m = r.step.months /\ d = r.step.days /\ (d = 0 => m > 0)
    BY Zenon, RequestTyped
  <1>4. s + d <= t /\ (m > 0 => s + 28 <= t)
    BY Zenon, <1>2, <1>3
  <1>5. s < t /\ (m > 0 \/ d > 2 * kMaxClosure => s + 2 * kMaxClosure < t)
    BY SMT, <1>3, <1>4, Closures
  <1> QED BY Zenon, <1>1, <1>3, <1>5 DEF LongStep

\* The calendar knows the next step from any that is not past the end.
LEMMA NextStepServed ==
    ASSUME NEW r \in Requests, NEW n \in Nat, StepDate(r, n) <= r.mat + 2 * kMaxClosure
    PROVE  /\ Served(r.cal, StepDate(r, n + 1))
           /\ Stepped(r, n + 1) \in StepDate(r, n + 1) - kMaxClosure..StepDate(r, n + 1) + kMaxClosure
  <1>1. PICK s \in Int : s = StepDate(r, n + 1)
    BY StepDates
  <1>2. s <= r.mat + 2 * kMaxClosure + 31 * r.step.months + r.step.days
    <2>1. StepDate(r, n) \in Int /\ s <= StepDate(r, n) + 31 * r.step.months + r.step.days
      BY Zenon, <1>1, StepDates
    <2>2. PICK a \in Int, b \in Int, m \in Nat, d \in Nat : a = r.spot /\ b = r.mat /\ m = r.step.months /\ d = r.step.days
      BY Zenon, RequestTyped
    <2>3. PICK t \in Int : t = StepDate(r, n)
      BY Zenon, <2>1
    <2>4. s <= t + 31 * m + d /\ t <= b + 2 * kMaxClosure
      BY Zenon, <2>1, <2>2, <2>3
    <2>5. s <= b + 2 * kMaxClosure + 31 * m + d
      BY SMT, <2>4, Closures
    <2> QED BY Zenon, <2>2, <2>5
  <1>3. r.spot <= s
    <2>1. 0 \in Nat /\ n + 1 \in Nat /\ 0 < n + 1 BY SMT
    <2>2. PICK a \in Int : a = r.spot
      BY Zenon, RequestTyped
    <2>3. a < s
      BY Zenon, <2>1, <2>2, <1>1, StepDatesApart, StepDates
    <2>4. a <= s
      BY SMT, <2>3
    <2> QED BY Zenon, <2>2, <2>4
  <1>4. Served(r.cal, s)
    BY Zenon, <1>2, <1>3, WhereServed
  <1>5. Adjust(r.cal, s, r.bdc) \in s - kMaxClosure..s + kMaxClosure
    BY Zenon, <1>4, AdjustNear, RequestTyped
  <1> QED BY Zenon, <1>1, <1>4, <1>5 DEF Stepped

\* The n-th regular date is in the month n steps from the anchor's.
LEMMA RegularIs ==
    ASSUME NEW r \in Requests, NEW n \in Nat
    PROVE  /\ RegularDay(r) \in 1..31 /\ RegularMonth(r, n) \in Int
           /\ Regular(r, n) = InTheMonth(RegularMonth(r, n), RegularDay(r))
  <1>1. PICK s \in Int : s = Anchor(r)
    BY RequestTyped DEF Anchor
  <1>2. PICK t \in Int, d \in 1..31 : t = MonthOf(Civil(s)) /\ d = Civil(s).d
    BY SMT, OwnMonth
  <1>3. PICK j \in Int : j = IF r.rule.side = "Back" THEN n * r.step.months ELSE -n * r.step.months
    <2>1. PICK m \in Nat : m = r.step.months
      BY Zenon, RequestTyped
    <2>2. n * m \in Int /\ -n * m \in Int
      BY SMT
    <2> QED BY Zenon, <2>1, <2>2
  <1>4. PICK dom \in 1..31 : dom = IF r.rule.dom > 0 THEN r.rule.dom ELSE Civil(Anchor(r)).d
    <2>1. PICK v \in 0..31 : v = r.rule.dom
      BY Zenon, RequestTyped
    <2>2. (IF v > 0 THEN v ELSE d) \in 1..31
      BY SMT
    <2> QED BY Zenon, <2>1, <2>2, <1>1, <1>2
  <1>5. PICK u \in Int : u = t + j
    BY SMT
  <1>6. PlusMonths(s, j) = InTheMonth(u, d)
    BY SMT, <1>2, <1>5, MonthsOn
  <1>7. Civil(PlusMonths(s, j)).m = (u % 12) + 1 /\ Civil(PlusMonths(s, j)).y = u \div 12
    BY Zenon, <1>6, CivilOfMonth
  <1>8. Regular(r, n) = RollInMonth(u \div 12, (u % 12) + 1, dom, AtMonthEnd(r))
    BY Zenon, <1>1, <1>3, <1>4, <1>7 DEF Regular
  <1>9. Regular(r, n) = InTheMonth(u, IF AtMonthEnd(r) THEN 31 ELSE dom)
    BY Zenon, <1>8, RollInMonthIs
  <1>10. RegularDay(r) = (IF AtMonthEnd(r) THEN 31 ELSE dom) /\ RegularMonth(r, n) = u
    BY SMT, <1>1, <1>2, <1>3, <1>4, <1>5 DEF RegularDay, RegularMonth
  <1>11. (IF AtMonthEnd(r) THEN 31 ELSE dom) \in 1..31
    BY SMT
  <1> QED BY Zenon, <1>9, <1>10, <1>11

\* Regular dates are in order, at least 28 days apart.
LEMMA RegularApart ==
    ASSUME NEW r \in Requests, r.step.days = 0, NEW i \in Nat, NEW n \in Nat, i < n
    PROVE  /\ Regular(r, i) \in Int /\ Regular(r, n) \in Int
           /\ r.rule.side = "Back" => Regular(r, i) + 28 <= Regular(r, n)
           /\ r.rule.side = "Front" => Regular(r, n) + 28 <= Regular(r, i)
  <1>1. PICK d \in 1..31, a \in Int, b \in Int : /\ d = RegularDay(r) /\ a = RegularMonth(r, i) /\ b = RegularMonth(r, n)
                                                /\ Regular(r, i) = InTheMonth(a, d) /\ Regular(r, n) = InTheMonth(b, d)
    BY Zenon, RegularIs
  <1>2. PICK m \in Nat, mi \in Nat, mn \in Nat : m = r.step.months /\ mi = m * i /\ mn = m * n /\ mi < mn
    <2>1. PICK m \in Nat : m = r.step.months /\ m > 0
      BY RequestTyped
    <2> QED BY SMT, <2>1, ProductsInOrder
  <1>3. i * r.step.months = mi /\ n * r.step.months = mn /\ -i * r.step.months = -mi /\ -n * r.step.months = -mn
    BY SMT, <1>2
  <1>4. PICK t \in Int : t = MonthOf(Civil(Anchor(r)))
    <2>1. PICK s \in Int : s = Anchor(r)
      BY RequestTyped DEF Anchor
    <2> QED BY SMT, <2>1, OwnMonth
  <1>5. InTheMonth(a, d) \in Int /\ InTheMonth(b, d) \in Int
    BY Zenon, InTheMonthTyped
  <1>6. CASE r.rule.side = "Back"
    <2>1. a = t + mi /\ b = t + mn
      BY SMT, <1>1, <1>3, <1>4, <1>6 DEF RegularMonth
    <2>2. a < b
      BY SMT, <2>1, <1>2
    <2>3. InTheMonth(a, d) + 28 <= InTheMonth(b, d)
      BY Zenon, <2>2, MonthsApart
    <2> QED BY Zenon, <2>3, <1>1, <1>5, <1>6
  <1>7. CASE r.rule.side = "Front"
    <2>1. a = t - mi /\ b = t - mn
      BY SMT, <1>1, <1>3, <1>4, <1>7 DEF RegularMonth
    <2>2. b < a
      BY SMT, <2>1, <1>2
    <2>3. InTheMonth(b, d) + 28 <= InTheMonth(a, d)
      BY Zenon, <2>2, MonthsApart
    <2> QED BY Zenon, <2>3, <1>1, <1>5, <1>7
  <1> QED BY Zenon, <1>6, <1>7, RequestTyped

------------------------------------------------------------------------------
(* The regular dates between the ends of a request. *)

LEMMA TheDefault ==
    /\ DefaultRule.side = "Back" /\ DefaultRule.length = "Short" /\ ~DefaultRule.eom /\ ~DefaultRule.eomAuto
    /\ DefaultRule.dom = 0 /\ DefaultRule.termBdc = ""
  BY DEF DefaultRule

\* The default rule's regular dates are its steps, and it has no stub to absorb.
LEMMA RegularSteps ==
    ASSUME NEW r \in Requests, r.rule = DefaultRule, r.step.days = 0, NEW n \in Nat
    PROVE  Regular(r, n) = StepDate(r, n)
  <1>1. r.rule.side = "Back" /\ r.rule.dom = 0 /\ ~AtMonthEnd(r) /\ Anchor(r) = r.spot
    BY TheDefault DEF AtMonthEnd, Anchor
  <1>2. PICK s \in Int, m \in Nat : s = r.spot /\ m = r.step.months
    BY Zenon, RequestTyped
  <1>3. PICK t \in Int, d \in 1..31 : t = MonthOf(Civil(s)) /\ d = Civil(s).d
    BY SMT, OwnMonth
  <1>4. PICK u \in Int, j \in Int : u = t + j /\ j = m * n /\ j = n * m
    BY SMT
  <1>5. RegularDay(r) = d /\ RegularMonth(r, n) = u
    <2>1. ~ (0 > 0)
      BY SMT
    <2> QED BY Zenon, <2>1, <1>1, <1>2, <1>3, <1>4 DEF RegularDay, RegularMonth
  <1>6. Regular(r, n) = InTheMonth(u, d)
    BY Zenon, <1>5, RegularIs
  <1>7. PlusMonths(s, j) = InTheMonth(u, d)
    BY SMT, <1>3, <1>4, MonthsOn
  <1>8. InTheMonth(u, d) + 0 * n = InTheMonth(u, d)
    <2>1. InTheMonth(u, d) \in Int BY Zenon, InTheMonthTyped
    <2> QED BY SMT, <2>1
  <1>9. StepDate(r, n) = PlusMonths(s, j) + 0 * n
    BY Zenon, <1>2, <1>4 DEF StepDate, PlusStep
  <1> QED BY Zenon, <1>6, <1>7, <1>8, <1>9

\* By default the regular dates are the steps, and none is absorbed.
LEMMA DefaultGrid ==
    ASSUME NEW r \in Requests, r.rule = DefaultRule, NEW n \in Nat
    PROVE  Kept(r, n) = {d \in {StepDate(r, j) : j \in 1..n} : r.spot < d /\ d < r.mat}
  <1>1. \A j \in 1..n : (IF r.step.days > 0 THEN PlusStep(r.spot, r.step, j) ELSE Regular(r, j)) = StepDate(r, j)
    <2> TAKE j \in 1..n
    <2>1. j \in Nat BY SMT
    <2>2. PICK d \in Nat : d = r.step.days
      BY Zenon, RequestTyped
    <2>3. CASE d > 0
      BY Zenon, <2>2, <2>3 DEF StepDate
    <2>4. CASE ~ (d > 0)
      <3>1. d = 0 BY SMT, <2>4
      <3> QED BY Zenon, <3>1, <2>1, <2>2, <2>4, RegularSteps
    <2> QED BY Zenon, <2>3, <2>4
  <1>2. GridDates(r, n) = {StepDate(r, j) : j \in 1..n}
    BY Zenon, <1>1 DEF GridDates
  <1>3. ~HasStub(r, n)
    BY TheDefault DEF HasStub
  <1> QED BY Zenon, <1>2, <1>3 DEF Kept, Inside

\* Going away from the anchor.
Outward(r, d, e) == IF r.rule.side = "Back" THEN d < e ELSE e < d
\* A date at the far end or past it.
Beyond(r, d) == IF r.rule.side = "Back" THEN d >= r.mat ELSE d <= r.spot
AtFar(r, d) == d = (IF r.rule.side = "Back" THEN r.mat ELSE r.spot)

\* The regular dates that are boundaries of a request, n being the first beyond its far end.
Ruled(r, n) ==
    /\ r.step.days = 0 /\ n \in Nat \ {0}
    /\ \A i \in 1..n - 1 : r.spot < Regular(r, i) /\ Regular(r, i) < r.mat
Complete(r, n) == Ruled(r, n) /\ Beyond(r, Regular(r, n))
StubTaken(r, n) == r.rule.length = "Long" /\ ~AtFar(r, Regular(r, n))
LastKept(r, n) == IF StubTaken(r, n) /\ n > 1 THEN n - 2 ELSE n - 1

LEMMA RegularTyped == ASSUME NEW r \in Requests, NEW n \in Nat PROVE Regular(r, n) \in Int
  <1>1. PICK t \in Int, d \in 1..31 : Regular(r, n) = InTheMonth(t, d)
    BY Zenon, RegularIs
  <1> QED BY Zenon, <1>1, InTheMonthTyped

\* Regular dates move away from the anchor.
LEMMA RegularOutward ==
    ASSUME NEW r \in Requests, r.step.days = 0, NEW i \in Nat, NEW n \in Nat, i < n
    PROVE  Outward(r, Regular(r, i), Regular(r, n)) /\ ~Outward(r, Regular(r, n), Regular(r, i))
  <1>1. PICK d \in Int, e \in Int : d = Regular(r, i) /\ e = Regular(r, n)
    BY Zenon, RegularTyped
  <1>2. CASE r.rule.side = "Back"
    <2>1. d + 28 <= e
      BY Zenon, <1>1, <1>2, RegularApart
    <2>2. d < e /\ ~(e < d)
      BY SMT, <2>1
    <2> QED BY Zenon, <1>1, <1>2, <2>2 DEF Outward
  <1>3. CASE r.rule.side = "Front"
    <2>1. e + 28 <= d
      BY Zenon, <1>1, <1>3, RegularApart
    <2>2. e < d /\ ~(d < e)
      BY SMT, <2>1
    <2>3. r.rule.side # "Back" BY <1>3
    <2> QED BY Zenon, <1>1, <2>2, <2>3 DEF Outward
  <1> QED BY Zenon, <1>2, <1>3, RequestTyped

\* When the loop stops, the dates it has listed are all those between the ends.
LEMMA CompleteGrid ==
    ASSUME NEW r \in Requests, NEW n, Complete(r, n)
    PROVE  /\ Inside(r, n) = {Regular(r, j) : j \in 1..n - 1}
           /\ HasStub(r, n) <=> StubTaken(r, n)
  <1>0. n \in Nat \ {0} /\ r.step.days = 0
    BY Zenon DEF Complete, Ruled
  <1>1. GridDates(r, n) = {Regular(r, j) : j \in 1..n}
    <2>1. ~ (0 > 0) BY SMT
    <2>2. \A j \in 1..n : (IF r.step.days > 0 THEN PlusStep(r.spot, r.step, j) ELSE Regular(r, j)) = Regular(r, j)
      BY Zenon, <1>0, <2>1
    <2> QED BY Zenon, <2>2 DEF GridDates
  <1>2. \A j \in 1..n : j \in Nat /\ Regular(r, j) \in Int
    <2> TAKE j \in 1..n
    <2>1. j \in Nat BY SMT, <1>0
    <2> QED BY Zenon, <2>1, RegularTyped
  <1>3. PICK a \in Int, b \in Int : a = r.spot /\ b = r.mat
    BY Zenon, RequestTyped
  <1>4. \A j \in 1..n - 1 : j \in 1..n /\ a < Regular(r, j) /\ Regular(r, j) < b
    <2> TAKE j \in 1..n - 1
    <2>1. j \in 1..n BY SMT, <1>0
    <2> QED BY Zenon, <2>1, <1>3 DEF Complete, Ruled
  <1>5. ~ (a < Regular(r, n) /\ Regular(r, n) < b)
    <2>1. n \in 1..n BY SMT, <1>0
    <2>2. Regular(r, n) \in Int BY Zenon, <2>1, <1>2
    <2>3. Regular(r, n) >= b \/ Regular(r, n) <= a
      BY Zenon, <1>3 DEF Complete, Beyond
    <2> QED BY SMT, <2>2, <2>3
  <1>6. \A j \in 1..n : j \in 1..n - 1 \/ j = n
    BY SMT, <1>0
  <1>7. Inside(r, n) = {Regular(r, j) : j \in 1..n - 1}
    <2>1. ASSUME NEW d \in Inside(r, n) PROVE d \in {Regular(r, j) : j \in 1..n - 1}
      <3>1. PICK j \in 1..n : d = Regular(r, j)
        BY Zenon, <1>1 DEF Inside
      <3>2. a < d /\ d < b
        BY Zenon, <1>3 DEF Inside
      <3> QED BY Zenon, <3>1, <3>2, <1>5, <1>6
    <2>2. ASSUME NEW j \in 1..n - 1 PROVE Regular(r, j) \in Inside(r, n)
      BY Zenon, <1>1, <1>3, <1>4 DEF Inside
    <2> QED BY Zenon, <2>1, <2>2
  <1>8. (IF r.rule.side = "Back" THEN r.mat ELSE r.spot) \in GridDates(r, n) <=> AtFar(r, Regular(r, n))
    <2>1. \A j \in 1..n - 1 : Regular(r, j) # a /\ Regular(r, j) # b
      <3> TAKE j \in 1..n - 1
      <3>1. Regular(r, j) \in Int /\ a < Regular(r, j) /\ Regular(r, j) < b
        BY Zenon, <1>2, <1>4
      <3> QED BY SMT, <3>1
    <2>2. n \in 1..n BY SMT, <1>0
    <2> QED BY Zenon, <2>1, <2>2, <1>1, <1>3, <1>6 DEF AtFar
  <1>9. HasStub(r, n) <=> StubTaken(r, n)
    BY Zenon, <1>8 DEF HasStub, StubTaken
  <1> QED BY Zenon, <1>7, <1>9

\* A long stub absorbs the last regular date, which is the one next to it.
LEMMA KeptIs ==
    ASSUME NEW r \in Requests, NEW n, Complete(r, n)
    PROVE  Kept(r, n) = {Regular(r, j) : j \in 1..LastKept(r, n)}
  <1>0. n \in Nat \ {0} /\ r.step.days = 0
    BY Zenon DEF Complete, Ruled
  <1>1. Inside(r, n) = {Regular(r, j) : j \in 1..n - 1} /\ (HasStub(r, n) <=> StubTaken(r, n))
    BY Zenon, CompleteGrid
  <1>2. Kept(r, n) = {d \in Inside(r, n) : StubTaken(r, n) => \E e \in Inside(r, n) : Outward(r, d, e)}
    <2>1. \A d, e : (IF r.rule.side = "Back" THEN e > d ELSE e < d) <=> Outward(r, d, e)
      BY DEF Outward
    <2> QED BY Zenon, <1>1, <2>1 DEF Kept
  <1>3. CASE ~StubTaken(r, n)
    <2>1. LastKept(r, n) = n - 1
      BY Zenon, <1>3 DEF LastKept
    <2> QED BY Zenon, <2>1, <1>1, <1>2, <1>3
  <1>4. CASE StubTaken(r, n) /\ n = 1
    <2>1. ~(1 > 1) /\ 1..1 - 1 = {} BY SMT
    <2>2. LastKept(r, n) = n - 1
      BY Zenon, <2>1, <1>4 DEF LastKept
    <2>3. Inside(r, n) = {} /\ {Regular(r, j) : j \in 1..LastKept(r, n)} = {}
      BY Zenon, <1>1, <1>4, <2>1, <2>2
    <2> QED BY Zenon, <2>3, <1>2
  <1>5. CASE StubTaken(r, n) /\ n > 1
    <2>1. LastKept(r, n) = n - 2
      BY Zenon, <1>5 DEF LastKept
    <2>2. n - 1 \in 1..n - 1 /\ n - 1 \in Nat
      BY SMT, <1>0, <1>5
    <2>3. \A j \in 1..n - 2 : j \in 1..n - 1 /\ j \in Nat /\ j < n - 1
      BY SMT, <1>0
    <2>4. \A j \in 1..n - 1 : j \in Nat /\ (j \in 1..n - 2 \/ j = n - 1)
      BY SMT, <1>0
    <2>5. \A j \in 1..n - 2 : Outward(r, Regular(r, j), Regular(r, n - 1))
      BY Zenon, <2>2, <2>3, <1>0, RegularOutward
    <2>6. \A j \in 1..n - 1 : ~Outward(r, Regular(r, n - 1), Regular(r, j))
      <3> TAKE j \in 1..n - 1
      <3>1. CASE j \in 1..n - 2
        BY Zenon, <3>1, <2>2, <2>3, <1>0, RegularOutward
      <3>2. CASE j = n - 1
        <4>1. Regular(r, n - 1) \in Int BY Zenon, <2>2, RegularTyped
        <4> QED BY SMT, <3>2, <4>1 DEF Outward
      <3> QED BY Zenon, <3>1, <3>2, <2>4
    <2>7. ASSUME NEW d \in Kept(r, n) PROVE d \in {Regular(r, j) : j \in 1..n - 2}
      <3>1. PICK j \in 1..n - 1 : d = Regular(r, j)
        BY Zenon, <1>1, <1>2
      <3>2. PICK i \in 1..n - 1 : Outward(r, d, Regular(r, i))
        BY Zenon, <1>1, <1>2, <1>5
      <3> QED BY Zenon, <3>1, <3>2, <2>4, <2>6
    <2>8. ASSUME NEW j \in 1..n - 2 PROVE Regular(r, j) \in Kept(r, n)
      BY Zenon, <1>1, <1>2, <2>2, <2>3, <2>5
    <2> QED BY Zenon, <2>1, <2>7, <2>8
  <1>6. n = 1 \/ n > 1
    BY SMT, <1>0
  <1> QED BY Zenon, <1>3, <1>4, <1>5, <1>6

------------------------------------------------------------------------------
(* Listing the regular dates, merging a long stub, and adjusting what is left. *)

LEMMA MonthsOrdered ==
    ASSUME NEW t \in Int, NEW u \in Int, NEW d \in 1..31, NEW e \in 1..31, t < u
    PROVE  InTheMonth(t, d) < InTheMonth(u, e)
  <1>1. MonthStart(t) + LengthOf(t) <= MonthStart(u)
    <2>1. t + 1 \in Int /\ t + 1 <= u BY SMT
    <2> QED BY Zenon, <2>1, MonthsIncrease, MonthStep
  <1>2. MonthStart(t) \in Int /\ MonthStart(u) \in Int /\ LengthOf(t) \in 28..31 /\ LengthOf(u) \in 28..31
    BY Zenon, MonthTyped, LengthRange
  <1> QED BY SMT, <1>1, <1>2 DEF InTheMonth

\* A regular date is on its side of the anchor.
LEMMA PastAnchor ==
    ASSUME NEW r \in Requests, r.step.days = 0, NEW n \in Nat \ {0}
    PROVE  IF r.rule.side = "Back" THEN r.spot < Regular(r, n) ELSE Regular(r, n) < r.mat
  <1>1. PICK s \in Int : s = Anchor(r)
    BY RequestTyped DEF Anchor
  <1>2. PICK t \in Int, d \in 1..31 : t = MonthOf(Civil(s)) /\ InTheMonth(t, d) = s
    BY SMT, OwnMonth
  <1>3. PICK u \in Int, e \in 1..31 : u = RegularMonth(r, n) /\ Regular(r, n) = InTheMonth(u, e)
    <2>1. n \in Nat BY SMT
    <2> QED BY Zenon, <2>1, RegularIs
  <1>4. PICK m \in Nat : m = r.step.months /\ m > 0
    BY Zenon, RequestTyped
  <1>5. n * m > 0 /\ -n * m < 0 /\ n * m \in Int /\ -n * m \in Int
    <2>1. 0 \in Nat /\ n \in Nat /\ 0 < n BY SMT
    <2>2. m * 0 + m <= m * n
      BY Zenon, <2>1, ProductsInOrder
    <2>3. n * m = m * n /\ n * m \in Int /\ -n * m = -(n * m)
      BY SMT
    <2> QED BY SMT, <2>2, <2>3, <1>4
  <1>6. CASE r.rule.side = "Back"
    <2>1. u = t + n * m
      BY Zenon, <1>1, <1>2, <1>3, <1>4, <1>6 DEF RegularMonth
    <2>2. t < u BY SMT, <2>1, <1>5
    <2>3. InTheMonth(t, d) < InTheMonth(u, e)
      BY Zenon, <2>2, MonthsOrdered
    <2> QED BY Zenon, <2>3, <1>1, <1>2, <1>3, <1>6 DEF Anchor
  <1>7. CASE r.rule.side # "Back"
    <2>1. u = t + (-n * m)
      BY Zenon, <1>1, <1>2, <1>3, <1>4, <1>7 DEF RegularMonth
    <2>2. u < t BY SMT, <2>1, <1>5
    <2>3. InTheMonth(u, e) < InTheMonth(t, d)
      BY Zenon, <2>2, MonthsOrdered
    <2> QED BY Zenon, <2>3, <1>1, <1>2, <1>3, <1>7 DEF Anchor
  <1> QED BY Zenon, <1>6, <1>7

\* The first l regular dates in date order.
ListedAt(r, l, i) == IF r.rule.side = "Back" THEN Regular(r, i) ELSE Regular(r, l + 1 - i)
Listed(r, l, seq) == seq \in Seq(Int) /\ Len(seq) = l /\ \A i \in 1..l : seq[i] = ListedAt(r, l, i)

\* One regular date more is listed at its end of the list.
LEMMA ListMore ==
    ASSUME NEW r \in Requests, NEW n \in Nat \ {0}, NEW seq, Listed(r, n - 1, seq)
    PROVE  Listed(r, n, IF r.rule.side = "Back" THEN Append(seq, Regular(r, n)) ELSE <<Regular(r, n)>> \o seq)
  <1>1. PICK d \in Int : d = Regular(r, n)
    BY SMT, RegularTyped
  <1>2. seq \in Seq(Int) /\ Len(seq) = n - 1 /\ \A i \in 1..n - 1 : seq[i] = ListedAt(r, n - 1, i)
    BY Zenon DEF Listed
  <1>3. CASE r.rule.side = "Back"
    <2>1. Append(seq, d) \in Seq(Int) /\ Len(Append(seq, d)) = n
      BY <1>2
    <2>2. \A i \in 1..n : Append(seq, d)[i] = IF i = n THEN d ELSE seq[i]
      BY <1>2
    <2>3. \A i \in 1..n : i = n \/ i \in 1..n - 1
      BY SMT
    <2>4. \A i \in 1..n : Append(seq, d)[i] = Regular(r, i)
      BY Zenon, <1>1, <1>2, <1>3, <2>2, <2>3 DEF ListedAt
    <2> QED BY Zenon, <1>1, <1>3, <2>1, <2>4 DEF Listed, ListedAt
  <1>4. CASE r.rule.side # "Back"
    <2>1. <<d>> \o seq \in Seq(Int) /\ Len(<<d>> \o seq) = n
      BY <1>2
    <2>2. \A i \in 1..n : (<<d>> \o seq)[i] = IF i = 1 THEN d ELSE seq[i - 1]
      BY <1>2
    <2>3. \A i \in 1..n : /\ i = 1 => n + 1 - i = n
                        /\ i # 1 => i - 1 \in 1..n - 1 /\ n - 1 + 1 - (i - 1) = n + 1 - i
      BY SMT
    <2>4. \A i \in 1..n : (<<d>> \o seq)[i] = Regular(r, n + 1 - i)
      <3> TAKE i \in 1..n
      <3>1. CASE i = 1
        <4>1. (<<d>> \o seq)[i] = d
          BY Zenon, <3>1, <2>2
        <4>2. n + 1 - i = n
          BY SMT, <3>1
        <4> QED BY Zenon, <4>1, <4>2, <1>1
      <3>2. CASE i # 1
        <4>1. (<<d>> \o seq)[i] = seq[i - 1]
          BY Zenon, <3>2, <2>2
        <4>2. seq[i - 1] = ListedAt(r, n - 1, i - 1)
          BY Zenon, <3>2, <2>3, <1>2
        <4>3. ListedAt(r, n - 1, i - 1) = Regular(r, n - 1 + 1 - (i - 1))
          BY Zenon, <1>4 DEF ListedAt
        <4> QED BY Zenon, <4>1, <4>2, <4>3, <3>2, <2>3
      <3> QED BY Zenon, <3>1, <3>2
    <2> QED BY Zenon, <1>1, <1>4, <2>1, <2>4 DEF Listed, ListedAt
  <1> QED BY Zenon, <1>3, <1>4

Merged(r, seq, grid) ==
    IF r.rule.length = "Long" /\ seq # << >> /\ ~grid THEN IF r.rule.side = "Back" THEN Front(seq) ELSE Tail(seq) ELSE seq

\* Merging a long stub leaves the dates a long stub leaves.
LEMMA ListLess ==
    ASSUME NEW r \in Requests, NEW n \in Nat \ {0}, NEW seq, Listed(r, n - 1, seq), NEW grid, grid <=> AtFar(r, Regular(r, n))
    PROVE  Listed(r, LastKept(r, n), Merged(r, seq, grid))
  <1>2. seq \in Seq(Int) /\ Len(seq) = n - 1 /\ \A i \in 1..n - 1 : seq[i] = ListedAt(r, n - 1, i)
    BY Zenon DEF Listed
  <1>3. seq # << >> <=> n > 1
    BY <1>2
  <1>4. CASE ~(StubTaken(r, n) /\ n > 1)
    <2>1. Merged(r, seq, grid) = seq /\ LastKept(r, n) = n - 1
      BY Zenon, <1>3, <1>4 DEF Merged, LastKept, StubTaken
    <2> QED BY Zenon, <2>1
  <1>5. CASE StubTaken(r, n) /\ n > 1 /\ r.rule.side = "Back"
    <2>1. Merged(r, seq, grid) = SubSeq(seq, 1, n - 2) /\ LastKept(r, n) = n - 2
      <3>1. n - 1 - 1 = n - 2 BY SMT
      <3> QED BY Zenon, <1>2, <1>3, <1>5, <3>1 DEF Merged, LastKept, StubTaken, Front
    <2>2. SubSeq(seq, 1, n - 2) \in Seq(Int) /\ Len(SubSeq(seq, 1, n - 2)) = n - 2
      BY <1>2, <1>5
    <2>3. \A i \in 1..n - 2 : SubSeq(seq, 1, n - 2)[i] = seq[i] /\ i \in 1..n - 1
      BY <1>2, <1>5
    <2>4. \A i \in 1..n - 2 : SubSeq(seq, 1, n - 2)[i] = ListedAt(r, n - 2, i)
      BY Zenon, <1>2, <1>5, <2>3 DEF ListedAt
    <2> QED BY Zenon, <2>1, <2>2, <2>4 DEF Listed
  <1>6. CASE StubTaken(r, n) /\ n > 1 /\ r.rule.side # "Back"
    <2>1. Merged(r, seq, grid) = Tail(seq) /\ LastKept(r, n) = n - 2
      BY Zenon, <1>3, <1>6 DEF Merged, LastKept, StubTaken
    <2>2. Tail(seq) \in Seq(Int) /\ Len(Tail(seq)) = n - 2
      BY <1>2, <1>3, <1>6
    <2>3. \A i \in 1..n - 2 : Tail(seq)[i] = seq[i + 1] /\ i + 1 \in 1..n - 1 /\ n - 1 + 1 - (i + 1) = n - 2 + 1 - i
      BY <1>2, <1>3, <1>6
    <2>4. \A i \in 1..n - 2 : Tail(seq)[i] = ListedAt(r, n - 2, i)
      BY Zenon, <1>2, <1>6, <2>3 DEF ListedAt
    <2> QED BY Zenon, <2>1, <2>2, <2>4 DEF Listed
  <1> QED BY Zenon, <1>4, <1>5, <1>6

\* The boundaries made so far, with the dates still to be adjusted.
Rolled(r, n, seq) == Boundaries(r, {d \in Kept(r, n) : \A i \in DOMAIN seq : seq[i] # d})
Rolling(r, n, seq, bs) ==
    /\ seq \in Seq(Int) /\ bs \in Seq(Int) /\ bs # << >>
    /\ \A i \in DOMAIN seq : seq[i] \in Kept(r, n)
    /\ \A i, j \in DOMAIN seq : i < j => seq[i] < seq[j]
    /\ \A d \in Kept(r, n) : (\E i \in DOMAIN seq : seq[i] = d) \/ (\A i \in DOMAIN seq : d < seq[i])
    /\ {bs[i] : i \in DOMAIN bs} = {r.spot} \cup Rolled(r, n, seq)
    /\ \A i \in 1..Len(bs) - 1 : bs[i] < bs[i + 1]

\* Before the first adjustment, everything kept is still listed.
LEMMA RollBegins ==
    ASSUME NEW r \in Requests, NEW n, Complete(r, n), NEW seq, Listed(r, LastKept(r, n), seq)
    PROVE  Rolling(r, n, seq, <<r.spot>>)
  <1>0. n \in Nat \ {0} /\ r.step.days = 0
    BY Zenon DEF Complete, Ruled
  <1>1. PICK l \in Int : l = LastKept(r, n)
    BY SMT, <1>0 DEF LastKept
  <1>2. seq \in Seq(Int) /\ DOMAIN seq = 1..l /\ \A i \in 1..l : seq[i] = ListedAt(r, l, i)
    BY <1>1 DEF Listed
  <1>3. Kept(r, n) = {Regular(r, j) : j \in 1..l}
    BY Zenon, <1>1, KeptIs
  <1>4. \A i \in 1..l : l + 1 - i \in 1..l /\ l + 1 - (l + 1 - i) = i /\ i \in Nat
    BY SMT
  <1>5. \A i \in 1..l : seq[i] \in Kept(r, n)
    BY Zenon, <1>2, <1>3, <1>4 DEF ListedAt
  <1>6. \A d \in Kept(r, n) : \E i \in 1..l : seq[i] = d
    <2> TAKE d \in Kept(r, n)
    <2>1. PICK j \in 1..l : d = Regular(r, j)
      BY Zenon, <1>3
    <2>2. seq[j] = d \/ seq[l + 1 - j] = d
      BY Zenon, <2>1, <1>2, <1>4 DEF ListedAt
    <2> QED BY Zenon, <2>2, <1>4
  <1>7. ASSUME NEW i \in 1..l, NEW j \in 1..l, i < j PROVE seq[i] < seq[j]
    <2>1. i \in Nat /\ j \in Nat /\ l + 1 - i \in Nat /\ l + 1 - j \in Nat /\ l + 1 - j < l + 1 - i
      BY SMT, <1>7
    <2>2. CASE r.rule.side = "Back"
      <3>1. Outward(r, Regular(r, i), Regular(r, j))
        BY Zenon, <2>1, <1>0, <1>7, RegularOutward
      <3> QED BY Zenon, <3>1, <2>2, <1>2 DEF Outward, ListedAt
    <2>3. CASE r.rule.side # "Back"
      <3>1. PICK a \in Nat, b \in Nat : a = l + 1 - j /\ b = l + 1 - i /\ a < b
        BY Zenon, <2>1
      <3>2. Outward(r, Regular(r, a), Regular(r, b))
        <4>1. a < b BY Zenon, <3>1
        <4> QED BY Zenon, <4>1, <1>0, RegularOutward
      <3>3. seq[i] = Regular(r, b) /\ seq[j] = Regular(r, a)
        BY Zenon, <3>1, <2>3, <1>2 DEF ListedAt
      <3> QED BY Zenon, <3>2, <3>3, <2>3 DEF Outward
    <2> QED BY Zenon, <2>2, <2>3
  <1>8. Rolled(r, n, seq) = {}
    <2>1. {d \in Kept(r, n) : \A i \in DOMAIN seq : seq[i] # d} = {}
      BY Zenon, <1>2, <1>6
    <2> QED BY Zenon, <2>1 DEF Rolled, Boundaries
  <1>9. PICK s \in Int : s = r.spot
    BY Zenon, RequestTyped
  <1>10. /\ <<s>> \in Seq(Int) /\ <<s>> # << >> /\ DOMAIN <<s>> = {1} /\ <<s>>[1] = s /\ \A i \in 1..Len(<<s>>) - 1 : FALSE
    BY SMT
  <1>11. {<<s>>[i] : i \in DOMAIN <<s>>} = {s}
    BY Zenon, <1>10
  <1>12. {<<s>>[i] : i \in DOMAIN <<s>>} = {r.spot} \cup Rolled(r, n, seq)
    BY Zenon, <1>8, <1>9, <1>11
  <1>13. \A i, j \in DOMAIN seq : i < j => seq[i] < seq[j]
    BY Zenon, <1>2, <1>7
  <1>14. Rolling(r, n, seq, <<s>>)
    BY Zenon, <1>2, <1>5, <1>6, <1>10, <1>12, <1>13 DEF Rolling
  <1> QED BY Zenon, <1>9, <1>14

------------------------------------------------------------------------------
(* Adjusting one date more. *)

\* Kept dates are within the request and weeks apart.
LEMMA KeptWithin ==
    ASSUME NEW r \in Requests, NEW n, Complete(r, n), NEW d \in Kept(r, n)
    PROVE  d \in Int /\ r.spot < d /\ d < r.mat
  <1>1. d \in Inside(r, n) /\ Inside(r, n) = {Regular(r, j) : j \in 1..n - 1}
    BY Zenon, CompleteGrid DEF Kept
  <1>2. PICK j \in 1..n - 1 : d = Regular(r, j)
    BY Zenon, <1>1
  <1>3. j \in Nat
    BY SMT DEF Complete, Ruled
  <1> QED BY Zenon, <1>1, <1>2, <1>3, RegularTyped DEF Inside

\* So are the dates kept.
LEMMA KeptWeeksApart ==
    ASSUME NEW r \in Requests, NEW n, Complete(r, n), NEW d \in Kept(r, n), NEW e \in Kept(r, n), d < e
    PROVE  d + 28 <= e
  <1>0. r.step.days = 0 /\ n \in Nat \ {0}
    BY Zenon DEF Complete, Ruled
  <1>1. Kept(r, n) \subseteq {Regular(r, j) : j \in 1..n - 1}
    BY Zenon, CompleteGrid DEF Kept
  <1>2. PICK i \in 1..n - 1, j \in 1..n - 1 : d = Regular(r, i) /\ e = Regular(r, j)
    BY Zenon, <1>1
  <1>3. PICK a \in Int, b \in Int : a = d /\ b = e /\ a < b
    BY Zenon, KeptWithin
  <1>4. i \in Nat /\ j \in Nat
    BY SMT, <1>0
  <1>5. i < j => a + 28 <= b \/ b + 28 <= a
    BY Zenon, <1>0, <1>2, <1>3, <1>4, RegularApart, RequestTyped
  <1>6. j < i => a + 28 <= b \/ b + 28 <= a
    BY Zenon, <1>0, <1>2, <1>3, <1>4, RegularApart, RequestTyped
  <1>7. i # j
    BY SMT, <1>2, <1>3
  <1>8. i < j \/ j < i
    BY SMT, <1>7
  <1>9. a + 28 <= b
    BY SMT, <1>3, <1>5, <1>6, <1>8
  <1> QED BY Zenon, <1>3, <1>9

LEMMA KeptMoved ==
    ASSUME NEW r \in Requests, NEW n, Complete(r, n), NEW d \in Kept(r, n), NEW e \in Kept(r, n), d < e
    PROVE  /\ Adjust(r.cal, d, r.bdc) \in Int /\ Adjust(r.cal, e, r.bdc) \in Int
           /\ Adjust(r.cal, d, r.bdc) < Adjust(r.cal, e, r.bdc)
  <1>1. PICK s \in Int, t \in Int, a \in Int, b \in Int :
            /\ s = d /\ t = e /\ a = r.spot /\ b = r.mat /\ a < s /\ s < b /\ a < t /\ t < b /\ s + 28 <= t
    BY Zenon, KeptWithin, KeptWeeksApart, RequestTyped
  <1>2. a <= s /\ s <= b /\ a <= t /\ t <= b /\ s + 2 * kMaxClosure < t
    BY SMT, <1>1, Closures
  <1>3. /\ Served(r.cal, s) /\ Adjust(r.cal, s, r.bdc) \in s - kMaxClosure..s + kMaxClosure
        /\ Served(r.cal, t) /\ Adjust(r.cal, t, r.bdc) \in t - kMaxClosure..t + kMaxClosure
    BY Zenon, <1>1, <1>2, Inner
  <1>4. Adjust(r.cal, s, r.bdc) < Adjust(r.cal, t, r.bdc)
    BY Zenon, <1>2, <1>3, AdjustApart, RequestTyped
  <1>5. Adjust(r.cal, s, r.bdc) \in Int /\ Adjust(r.cal, t, r.bdc) \in Int
    BY SMT, <1>3, Closures
  <1> QED BY Zenon, <1>1, <1>4, <1>5

LEMMA KeptTyped ==
    ASSUME NEW r \in Requests, NEW n, Complete(r, n), NEW d \in Kept(r, n)
    PROVE  Adjust(r.cal, d, r.bdc) \in Int
  <1>1. PICK s \in Int, a \in Int, b \in Int : s = d /\ a = r.spot /\ b = r.mat /\ a < s /\ s < b
    BY Zenon, KeptWithin, RequestTyped
  <1>2. a <= s /\ s <= b
    BY SMT, <1>1
  <1>3. Adjust(r.cal, s, r.bdc) \in s - kMaxClosure..s + kMaxClosure
    BY Zenon, <1>1, <1>2, Inner
  <1>4. Adjust(r.cal, s, r.bdc) \in Int
    BY SMT, <1>3, Closures
  <1> QED BY Zenon, <1>1, <1>4

Placed(r, bs, a) == IF a < End(r) /\ a > Last(bs) THEN Append(bs, a) ELSE bs

\* Adjusting the first date left keeps what Rolling says.
LEMMA RollOne ==
    ASSUME NEW r \in Requests, r.spot < r.mat, NEW n, Complete(r, n), NEW seq, NEW bs, Rolling(r, n, seq, bs), seq # << >>
    PROVE  Rolling(r, n, Tail(seq), Placed(r, bs, Adjust(r.cal, Head(seq), r.bdc)))
  <1>1. /\ seq \in Seq(Int) /\ bs \in Seq(Int) /\ bs # << >>
        /\ \A i \in DOMAIN seq : seq[i] \in Kept(r, n)
        /\ \A i, j \in DOMAIN seq : i < j => seq[i] < seq[j]
        /\ \A d \in Kept(r, n) : (\E i \in DOMAIN seq : seq[i] = d) \/ (\A i \in DOMAIN seq : d < seq[i])
        /\ {bs[i] : i \in DOMAIN bs} = {r.spot} \cup Rolled(r, n, seq)
        /\ \A i \in 1..Len(bs) - 1 : bs[i] < bs[i + 1]
    BY Zenon DEF Rolling
  <1>2. PICK h \in Int, ts \in Seq(Int) : h = Head(seq) /\ ts = Tail(seq)
    <2>1. seq \in Seq(Int) /\ seq # << >>
      BY Zenon, <1>1
    <2>2. Head(seq) \in Int /\ Tail(seq) \in Seq(Int)
      BY SMT, <2>1
    <2> QED BY Zenon, <2>2
  <1>3. /\ 1 \in DOMAIN seq /\ seq[1] = h
        /\ \A i \in DOMAIN ts : i + 1 \in DOMAIN seq /\ ts[i] = seq[i + 1] /\ 1 < i + 1
        /\ \A i \in DOMAIN seq : i # 1 => i - 1 \in DOMAIN ts /\ ts[i - 1] = seq[i]
    <2>1. seq \in Seq(Int) /\ seq # << >>
      BY Zenon, <1>1
    <2> QED BY SMT, <2>1, <1>2
  <1>4. h \in Kept(r, n) /\ \A i \in DOMAIN ts : ts[i] \in Kept(r, n) /\ h < ts[i]
    BY Zenon, <1>1, <1>3
  <1>5. \A i, j \in DOMAIN ts : i < j => ts[i] < ts[j]
    <2> TAKE i, j \in DOMAIN ts
    <2>1. i < j => i + 1 < j + 1
      BY SMT, <1>2
    <2> QED BY Zenon, <2>1, <1>1, <1>3
  <1>6. \A d \in Kept(r, n) : (\E i \in DOMAIN ts : ts[i] = d) \/ (\A i \in DOMAIN ts : d < ts[i])
    <2> TAKE d \in Kept(r, n)
    <2>1. CASE \A i \in DOMAIN seq : d < seq[i]
      BY Zenon, <2>1, <1>3
    <2>2. CASE \E i \in DOMAIN seq : seq[i] = d
      <3>1. PICK i \in DOMAIN seq : seq[i] = d
        BY Zenon, <2>2
      <3>2. CASE i = 1
        BY Zenon, <3>1, <3>2, <1>3, <1>4
      <3>3. CASE i # 1
        BY Zenon, <3>1, <3>3, <1>3
      <3> QED BY Zenon, <3>2, <3>3
    <2> QED BY Zenon, <2>1, <2>2, <1>1
  <1>7. PICK a \in Int : a = Adjust(r.cal, h, r.bdc)
    BY Zenon, <1>4, KeptTyped
  <1>8. {d \in Kept(r, n) : \A i \in DOMAIN ts : ts[i] # d} = {h} \cup {d \in Kept(r, n) : \A i \in DOMAIN seq : seq[i] # d}
    <2>1. \A i \in DOMAIN ts : ts[i] # h
      <3> TAKE i \in DOMAIN ts
      <3>1. ts[i] \in Int /\ h < ts[i]
        BY Zenon, <1>4, KeptWithin
      <3> QED BY SMT, <3>1
    <2>2. ASSUME NEW d \in Kept(r, n), \A i \in DOMAIN ts : ts[i] # d, d # h PROVE \A i \in DOMAIN seq : seq[i] # d
      BY Zenon, <2>2, <1>3
    <2>3. ASSUME NEW d \in Kept(r, n), \A i \in DOMAIN seq : seq[i] # d PROVE \A i \in DOMAIN ts : ts[i] # d
      BY Zenon, <2>3, <1>3
    <2> QED BY Zenon, <2>1, <2>2, <2>3, <1>4
  <1>9. Rolled(r, n, ts) = Rolled(r, n, seq) \cup (IF r.spot < a /\ a < End(r) THEN {a} ELSE {})
    <2> DEFINE D == {d \in Kept(r, n) : \A i \in DOMAIN seq : seq[i] # d}
    <2>1. Rolled(r, n, seq) = Boundaries(r, D) /\ Rolled(r, n, ts) = Boundaries(r, {h} \cup D)
      BY Zenon, <1>8 DEF Rolled
    <2> HIDE DEF D
    <2>2. \A x : x \in Boundaries(r, {h} \cup D) <=> x \in Boundaries(r, D) \/ (x = a /\ r.spot < a /\ a < End(r))
      BY Zenon, <1>7 DEF Boundaries
    <2> QED BY Zenon, <2>1, <2>2
  <1>10. PICK e \in Int, s \in Int : e = End(r) /\ s = r.spot
    <2>1. PICK b \in Int : b = r.mat BY Zenon, RequestTyped
    <2>2. End(r) \in b - kMaxClosure..b + kMaxClosure
      BY Zenon, <2>1, EndNear
    <2>3. End(r) \in Int
      BY SMT, <2>2, Closures
    <2> QED BY Zenon, <2>3, RequestTyped
  <1>11. PICK l \in Int : l = Last(bs) /\ l = bs[Len(bs)] /\ Len(bs) \in DOMAIN bs /\ Len(bs) \in Nat
    <2>1. bs[Len(bs)] \in Int /\ Len(bs) \in DOMAIN bs /\ Len(bs) \in Nat
      BY SMT, <1>1
    <2>2. Last(bs) = bs[Len(bs)]
      BY Zenon DEF Last
    <2> QED BY Zenon, <2>1, <2>2
  <1>12. l \in {r.spot} \cup Rolled(r, n, seq)
    BY Zenon, <1>1, <1>11
  <1>13. l = s \/ (s < l /\ \E d \in Kept(r, n) : d < h /\ l = Adjust(r.cal, d, r.bdc))
    <2>1. CASE l \in Rolled(r, n, seq)
      <3>1. PICK d \in Kept(r, n) : (\A i \in DOMAIN seq : seq[i] # d) /\ l = Adjust(r.cal, d, r.bdc) /\ r.spot < l
        BY Zenon, <2>1 DEF Rolled, Boundaries
      <3>2. d < h
        BY Zenon, <3>1, <1>1, <1>3
      <3> QED BY Zenon, <3>1, <3>2, <1>10
    <2> QED BY Zenon, <2>1, <1>12, <1>10
  <1>14. l = s \/ (s < l /\ l < a)
    <2>1. ASSUME NEW d \in Kept(r, n), d < h PROVE Adjust(r.cal, d, r.bdc) < a
      BY Zenon, <2>1, <1>4, <1>7, KeptMoved
    <2> QED BY Zenon, <2>1, <1>13
  <1>15. a < e /\ a > l <=> s < a /\ a < e
    BY SMT, <1>14
  <1>16. CASE a < e /\ a > l
    <2>1. Placed(r, bs, a) = Append(bs, a)
      BY Zenon, <1>16, <1>10, <1>11 DEF Placed
    <2>2. /\ Append(bs, a) \in Seq(Int) /\ Append(bs, a) # << >> /\ Len(Append(bs, a)) = Len(bs) + 1
          /\ DOMAIN Append(bs, a) = DOMAIN bs \cup {Len(bs) + 1} /\ Append(bs, a)[Len(bs) + 1] = a
          /\ \A i \in DOMAIN bs : Append(bs, a)[i] = bs[i]
      <3>1. bs \in Seq(Int)
        BY Zenon, <1>1
      <3>2. /\ DOMAIN bs = 1..Len(bs) /\ Len(bs) \in Nat /\ DOMAIN Append(bs, a) = 1..Len(bs) + 1
            /\ Append(bs, a) \in Seq(Int) /\ Append(bs, a) # << >> /\ Len(Append(bs, a)) = Len(bs) + 1
            /\ Append(bs, a)[Len(bs) + 1] = a
        BY SMT, <3>1
      <3>3. \A i \in 1..Len(bs) : Append(bs, a)[i] = bs[i]
        BY SMT, <3>1
      <3>4. 1..Len(bs) + 1 = 1..Len(bs) \cup {Len(bs) + 1}
        BY SMT, <3>2
      <3> QED BY Zenon, <3>2, <3>3, <3>4
    <2>3. {Append(bs, a)[i] : i \in DOMAIN Append(bs, a)} = {bs[i] : i \in DOMAIN bs} \cup {a}
      BY Zenon, <2>2
    <2>4. Rolled(r, n, ts) = Rolled(r, n, seq) \cup {a}
      BY Zenon, <1>9, <1>10, <1>15, <1>16
    <2>5. \A i \in 1..Len(Append(bs, a)) - 1 : Append(bs, a)[i] < Append(bs, a)[i + 1]
      BY SMT, <1>1, <1>11, <1>16
    <2>6. {Append(bs, a)[i] : i \in DOMAIN Append(bs, a)} = {r.spot} \cup Rolled(r, n, ts)
      BY Zenon, <2>3, <2>4, <1>1
    <2>7. Rolling(r, n, ts, Append(bs, a))
      BY Zenon, <2>2, <2>5, <2>6, <1>4, <1>5, <1>6, <1>2 DEF Rolling
    <2> QED BY Zenon, <2>1, <2>7, <1>2, <1>7
  <1>17. CASE ~(a < e /\ a > l)
    <2>1. Placed(r, bs, a) = bs
      BY Zenon, <1>17, <1>10, <1>11 DEF Placed
    <2>2. Rolled(r, n, ts) = Rolled(r, n, seq)
      BY Zenon, <1>9, <1>10, <1>15, <1>17
    <2> QED BY Zenon, <2>1, <2>2, <1>1, <1>2, <1>4, <1>5, <1>6, <1>7 DEF Rolling
  <1> QED BY Zenon, <1>16, <1>17

------------------------------------------------------------------------------
(* The inductive invariant, and the default loop. *)

\* The boundaries the default loop has made, the n-th step being the next.
SteppedTo(r, n, bs) ==
    /\ bs \in Seq(Int) /\ Len(bs) = n /\ bs[1] = r.spot
    /\ \A i \in 1..n - 1 : bs[i + 1] = Stepped(r, i) /\ Stepped(r, i) < End(r)
ByDefault == req.spot < req.mat /\ req.rule = DefaultRule
ByRule == req.spot < req.mat /\ req.rule # DefaultRule

Started == pc \in {"begin", "refused"} => bounds = <<req.spot>> /\ interior = << >> /\ k = 1
Stepping == pc = "default" => ByDefault /\ SteppedTo(req, k, bounds)
Gridding == pc \in {"grid", "merge"} => ByRule /\ bounds = <<req.spot>> /\ Ruled(req, k) /\ Listed(req, k - 1, interior)
Merging == pc = "merge" => Complete(req, k) /\ (onGrid <=> AtFar(req, Regular(req, k)))
Rolls == pc = "roll" => ByRule /\ Complete(req, k) /\ Rolling(req, k, interior, bounds)
DefaultDone ==
    pc = "done" /\ req.rule = DefaultRule =>
        req.spot < req.mat /\ Stepped(req, k) >= End(req) /\ \E bs \in Seq(Int) : SteppedTo(req, k, bs) /\ bounds = Append(bs, End(req))
RuledDone ==
    pc = "done" /\ req.rule # DefaultRule =>
        ByRule /\ Complete(req, k) /\ \E bs \in Seq(Int) : Rolling(req, k, << >>, bs) /\ bounds = Append(bs, End(req))
ScheduleInv ==
    /\ req \in Requests /\ k \in Nat \ {0} /\ pc \in {"begin", "default", "grid", "merge", "roll", "done", "refused"}
    /\ Started /\ Stepping /\ Gridding /\ Merging /\ Rolls /\ DefaultDone /\ RuledDone

LEMMA EndTyped == ASSUME NEW r \in Requests, r.spot < r.mat PROVE End(r) \in Int
  <1>1. PICK b \in Int : b = r.mat BY Zenon, RequestTyped
  <1>2. End(r) \in b - kMaxClosure..b + kMaxClosure
    BY Zenon, <1>1, EndNear
  <1> QED BY SMT, <1>2, Closures

\* Up to the step that reaches the end, the steps are dates the calendar knows.
LEMMA SteppedServed ==
    ASSUME NEW r \in Requests, r.spot < r.mat, NEW n \in Nat \ {0}, NEW bs, SteppedTo(r, n, bs)
    PROVE  \A j \in 1..n : Served(r.cal, StepDate(r, j)) /\ Stepped(r, j) \in Int /\ StepDate(r, j) \in Int
                           /\ Stepped(r, j) \in StepDate(r, j) - kMaxClosure..StepDate(r, j) + kMaxClosure
  <1> DEFINE T == {j \in Nat : j \in 1..n /\ ~Served(r.cal, StepDate(r, j))}
  <1>0. PICK a \in Int, b \in Int, e \in Int : a = r.spot /\ b = r.mat /\ e = End(r) /\ a < b
    BY Zenon, RequestTyped, EndTyped
  <1>1. e \in b - kMaxClosure..b + kMaxClosure
    BY Zenon, <1>0, EndNear
  <1>2. ASSUME NEW j \in 1..n, Served(r.cal, StepDate(r, j)) PROVE Stepped(r, j) \in StepDate(r, j) - kMaxClosure..StepDate(r, j) + kMaxClosure
    <2>1. j \in Nat /\ StepDate(r, j) \in Int
      <3>1. j \in Nat BY SMT
      <3> QED BY Zenon, <3>1, StepDates
    <2> QED BY Zenon, <2>1, <1>2, AdjustNear, RequestTyped DEF Stepped
  <1>3. T = {}
    <2>1. SUFFICES ASSUME T # {} PROVE FALSE
      BY Zenon
    <2>2. PICK j \in T : \A x \in T : j <= x
      <3>1. T \in SUBSET Nat BY Zenon
      <3> QED BY Zenon, <2>1, <3>1, Least
    <2>3. PICK i \in Nat : j = i + 1 /\ i < n
      BY SMT, <2>2
    <2>4. PICK d \in Int : d = StepDate(r, i)
      BY Zenon, StepDates
    <2>5. d <= b + 2 * kMaxClosure
      <3>1. CASE i = 0
        <4>1. d = a
          BY Zenon, <3>1, <2>4, <1>0, StepDates
        <4> QED BY SMT, <4>1, <1>0, Closures
      <3>2. CASE i # 0
        <4>1. i \in 1..n - 1 /\ i \in 1..n /\ ~(j <= i)
          BY SMT, <3>2, <2>3
        <4>2. Served(r.cal, d)
          BY Zenon, <4>1, <2>2, <2>4
        <4>3. Stepped(r, i) \in d - kMaxClosure..d + kMaxClosure
          BY Zenon, <4>1, <4>2, <2>4, <1>2
        <4>4. Stepped(r, i) < e
          BY Zenon, <4>1, <1>0 DEF SteppedTo
        <4> QED BY SMT, <4>3, <4>4, <1>1, Closures
      <3> QED BY Zenon, <3>1, <3>2
    <2>6. Served(r.cal, StepDate(r, i + 1))
      BY Zenon, <2>4, <2>5, <1>0, NextStepServed
    <2> QED BY Zenon, <2>6, <2>2, <2>3
  <1>4. ASSUME NEW j \in 1..n PROVE Served(r.cal, StepDate(r, j)) /\ Stepped(r, j) \in Int /\ StepDate(r, j) \in Int
                           /\ Stepped(r, j) \in StepDate(r, j) - kMaxClosure..StepDate(r, j) + kMaxClosure
    <2>1. j \in Nat
      BY SMT
    <2>2. StepDate(r, j) \in Int
      BY Zenon, <2>1, StepDates
    <2>3. Served(r.cal, StepDate(r, j))
      BY Zenon, <2>1, <1>3
    <2>4. Stepped(r, j) \in StepDate(r, j) - kMaxClosure..StepDate(r, j) + kMaxClosure
      BY Zenon, <2>3, <1>2
    <2>5. Stepped(r, j) \in Int
      BY SMT, <2>4, <2>2, Closures
    <2> QED BY Zenon, <2>2, <2>3, <2>4, <2>5
  <1> QED BY Zenon, <1>4

\* A boundary of the default loop is after the one before it.
LEMMA SteppedIncrease ==
    ASSUME NEW r \in Requests, r.spot < r.mat, LongStep(r), NEW n \in Nat \ {0}, NEW bs, SteppedTo(r, n, bs)
    PROVE  /\ \A i \in 1..n - 1 : bs[i] < bs[i + 1]
           /\ \A i \in 1..n : r.spot < Stepped(r, i)
  <1>1. \A j \in 1..n : Served(r.cal, StepDate(r, j)) /\ Stepped(r, j) \in Int /\ StepDate(r, j) \in Int
                        /\ Stepped(r, j) \in StepDate(r, j) - kMaxClosure..StepDate(r, j) + kMaxClosure
    BY Zenon, SteppedServed
  <1>2. bs[1] = r.spot /\ \A i \in 1..n - 1 : bs[i + 1] = Stepped(r, i)
    BY Zenon DEF SteppedTo
  <1>3. ASSUME NEW i \in 1..n PROVE r.spot < Stepped(r, i)
    <2>1. PICK a \in Int, d \in Int, m \in Int : a = r.spot /\ d = StepDate(r, i) /\ m = Stepped(r, i)
      BY Zenon, <1>1, RequestTyped
    <2>2. a + 2 * kMaxClosure < d
      <3>1. 0 \in Nat /\ i \in Nat /\ 0 < i BY SMT
      <3>2. StepDate(r, 0) + 2 * kMaxClosure < StepDate(r, i)
        BY Zenon, <3>1, StepDatesApart
      <3>3. StepDate(r, 0) = a
        BY Zenon, <3>1, <2>1, StepDates
      <3> QED BY Zenon, <3>2, <3>3, <2>1
    <2>3. m \in d - kMaxClosure..d + kMaxClosure
      BY Zenon, <2>1, <1>1
    <2>4. a < m
      BY SMT, <2>2, <2>3, Closures
    <2> QED BY Zenon, <2>1, <2>4
  <1>4. ASSUME NEW i \in 1..n - 1 PROVE bs[i] < bs[i + 1]
    <2>0. i \in 1..n BY SMT
    <2>1. CASE i = 1
      BY Zenon, <2>0, <2>1, <1>2, <1>3
    <2>2. CASE i # 1
      <3>1. PICK h \in Nat : i = h + 1 /\ h \in 1..n - 1 /\ h \in 1..n /\ h < i /\ i \in Nat
        BY SMT, <2>2
      <3>2. PICK c \in Int, d \in Int : c = StepDate(r, h) /\ d = StepDate(r, i)
        BY Zenon, <3>1, <2>0, <1>1
      <3>3. c + 2 * kMaxClosure < d
        BY Zenon, <3>1, <3>2, StepDatesApart
      <3>4. Adjust(r.cal, c, r.bdc) < Adjust(r.cal, d, r.bdc)
        BY Zenon, <3>1, <3>2, <3>3, <2>0, <1>1, AdjustApart, RequestTyped
      <3>5. bs[i] = Adjust(r.cal, c, r.bdc) /\ bs[i + 1] = Adjust(r.cal, d, r.bdc)
        BY Zenon, <3>1, <3>2, <1>2 DEF Stepped
      <3> QED BY Zenon, <3>4, <3>5
    <2> QED BY Zenon, <2>1, <2>2
  <1> QED BY Zenon, <1>3, <1>4

\* One step below the end makes one boundary more.
LEMMA StepMore ==
    ASSUME NEW r \in Requests, NEW n \in Nat \ {0}, NEW bs, SteppedTo(r, n, bs), NEW d \in Int, d = Stepped(r, n), d < End(r)
    PROVE  SteppedTo(r, n + 1, Append(bs, d))
  <1>1. bs \in Seq(Int) /\ Len(bs) = n /\ bs[1] = r.spot /\ \A i \in 1..n - 1 : bs[i + 1] = Stepped(r, i) /\ Stepped(r, i) < End(r)
    BY Zenon DEF SteppedTo
  <1>2. PICK ds \in Seq(Int) : ds = Append(bs, d) /\ Len(ds) = n + 1 /\ ds[1] = bs[1] /\ ds[n + 1] = d
                               /\ \A i \in 1..n - 1 : ds[i + 1] = bs[i + 1]
    <2>1. bs \in Seq(Int) /\ Len(bs) = n BY Zenon, <1>1
    <2>2. /\ Append(bs, d) \in Seq(Int) /\ Len(Append(bs, d)) = n + 1 /\ Append(bs, d)[1] = bs[1] /\ Append(bs, d)[n + 1] = d
          /\ \A i \in 1..n - 1 : Append(bs, d)[i + 1] = bs[i + 1]
      BY SMT, <2>1
    <2> QED BY Zenon, <2>2
  <1>3. ASSUME NEW i \in 1..(n + 1) - 1 PROVE ds[i + 1] = Stepped(r, i) /\ Stepped(r, i) < End(r)
    <2>1. i = n \/ i \in 1..n - 1
      BY SMT
    <2> QED BY Zenon, <2>1, <1>1, <1>2
  <1>4. SteppedTo(r, n + 1, ds)
    BY Zenon, <1>1, <1>2, <1>3 DEF SteppedTo
  <1> QED BY Zenon, <1>2, <1>4

------------------------------------------------------------------------------
(* The invariant is inductive. *)

LEMMA ScheduleInit == Init => ScheduleInv
  BY DEF Init, ScheduleInv, Started, Stepping, Gridding, Merging, Rolls, DefaultDone, RuledDone

\* Every step keeps the invariant, one case per action.
LEMMA ScheduleNext == ScheduleInv /\ [Next]_vars => ScheduleInv'
  <1> SUFFICES ASSUME ScheduleInv, [Next]_vars PROVE ScheduleInv'
    OBVIOUS
  <1>0. req \in Requests /\ k \in Nat \ {0} /\ k \in Nat
    BY Zenon DEF ScheduleInv
  <1>1. PICK a \in Int, b \in Int : a = req.spot /\ b = req.mat
    BY Zenon, <1>0, RequestTyped
  <1>2. CASE Begin
    <2>1. bounds = <<req.spot>> /\ interior = << >> /\ k = 1 /\ req' = req /\ bounds' = bounds /\ interior' = interior /\ k' = k
      BY <1>2 DEF Begin, ScheduleInv, Started
    <2>2. \/ pc' = "refused"
          \/ pc' = "default" /\ req.mat > req.spot /\ req.rule = DefaultRule
          \/ pc' = "grid" /\ req.mat > req.spot /\ req.rule # DefaultRule /\ ~(req.step.days > 0)
      <3>1. b <= a \/ b > a
        BY SMT
      <3>2. ~(b <= a /\ b > a)
        BY SMT
      <3>3. CASE b <= a
        <4>1. pc' = "refused"
          BY Zenon, <3>2, <3>3, <1>1, <1>2 DEF Begin
        <4> QED BY Zenon, <4>1
      <3>4. CASE b > a /\ req.rule = DefaultRule
        <4>1. pc' = "default"
          BY Zenon, <3>2, <3>4, <1>1, <1>2 DEF Begin
        <4> QED BY Zenon, <4>1, <3>4, <1>1
      <3>5. CASE b > a /\ req.rule # DefaultRule
        <4>1. pc' = IF req.step.days > 0 THEN "refused" ELSE "grid"
          BY Zenon, <3>2, <3>5, <1>1, <1>2 DEF Begin
        <4> QED BY Zenon, <4>1, <3>5, <1>1
      <3> QED BY Zenon, <3>1, <3>3, <3>4, <3>5
    <2>3. SteppedTo(req, 1, <<req.spot>>) /\ Listed(req, 0, << >>)
      <3>1. <<a>> \in Seq(Int) /\ Len(<<a>>) = 1 /\ <<a>>[1] = a /\ \A i \in 1..1 - 1 : FALSE
        BY SMT
      <3>2. << >> \in Seq(Int) /\ Len(<< >>) = 0 /\ \A i \in 1..0 : FALSE
        BY SMT
      <3> QED BY Zenon, <3>1, <3>2, <1>1 DEF SteppedTo, Listed
    <2>4. ~(req.step.days > 0) => Ruled(req, 1)
      <3>1. PICK d \in Nat : d = req.step.days BY Zenon, <1>0, RequestTyped
      <3>2. ~(d > 0) => d = 0 BY SMT
      <3>3. 1 \in Nat \ {0} /\ \A i \in 1..1 - 1 : FALSE BY SMT
      <3> QED BY Zenon, <3>1, <3>2, <3>3 DEF Ruled
    <2>5. req.mat > req.spot => req.spot < req.mat
      BY SMT, <1>1
    <2>6. 1 - 1 = 0
      BY SMT
    <2> QED BY Zenon, <2>1, <2>2, <2>3, <2>4, <2>5, <2>6, <1>0
         DEF ScheduleInv, Started, Stepping, Gridding, Merging, Rolls, DefaultDone, RuledDone, ByDefault, ByRule
  <1>3. CASE StepDefault
    <2>1. pc = "default" /\ req' = req /\ interior' = interior /\ ByDefault /\ SteppedTo(req, k, bounds)
      BY <1>3 DEF StepDefault, ScheduleInv, Stepping
    <2>2. req.spot < req.mat
      BY Zenon, <2>1 DEF ByDefault
    <2>3. PICK d \in Int, e \in Int : d = Stepped(req, k) /\ e = End(req)
      <3>1. k \in 1..k
        BY SMT, <1>0
      <3> QED BY Zenon, <3>1, <2>1, <2>2, <1>0, SteppedServed, EndTyped
    <2>4. IF d >= e THEN bounds' = Append(bounds, e) /\ pc' = "done" /\ k' = k
                    ELSE bounds' = Append(bounds, d) /\ pc' = pc /\ k' = k + 1
      BY Zenon, <1>3, <2>3 DEF StepDefault, Stepped, StepDate
    <2>5. CASE d >= e
      <3>1. bounds \in Seq(Int)
        BY Zenon, <2>1 DEF SteppedTo
      <3> QED BY Zenon, <3>1, <2>1, <2>2, <2>3, <2>4, <2>5, <1>0
           DEF ScheduleInv, Started, Stepping, Gridding, Merging, Rolls, DefaultDone, RuledDone, ByDefault
    <2>6. CASE ~(d >= e)
      <3>1. d < e
        BY SMT, <2>6
      <3>2. SteppedTo(req, k + 1, Append(bounds, d))
        BY Zenon, <3>1, <2>1, <2>3, <1>0, StepMore
      <3>3. k + 1 \in Nat \ {0}
        BY SMT, <1>0
      <3> QED BY Zenon, <3>2, <3>3, <2>1, <2>4, <2>6, <1>0
           DEF ScheduleInv, Started, Stepping, Gridding, Merging, Rolls, DefaultDone, RuledDone, ByDefault
    <2> QED BY Zenon, <2>5, <2>6
  <1>4. CASE StepGrid
    <2>1. /\ pc = "grid" /\ req' = req /\ bounds' = bounds /\ ByRule /\ bounds = <<req.spot>>
          /\ Ruled(req, k) /\ Listed(req, k - 1, interior) /\ req.step.days = 0
      BY Zenon, <1>4 DEF StepGrid, ScheduleInv, Gridding, Ruled
    <2>2. PICK d \in Int : d = Regular(req, k)
      BY Zenon, <1>0, RegularTyped
    <2>3. IF Beyond(req, d)
          THEN pc' = "merge" /\ (onGrid' <=> AtFar(req, d)) /\ interior' = interior /\ k' = k
          ELSE /\ interior' = IF req.rule.side = "Back" THEN (IF d > req.spot THEN Append(interior, d) ELSE interior)
                              ELSE (IF d < req.mat THEN <<d>> \o interior ELSE interior)
               /\ k' = k + 1 /\ pc' = pc
      <3>1. CASE req.rule.side = "Back"
        BY Zenon, <1>4, <2>2, <3>1 DEF StepGrid, Beyond, AtFar
      <3>2. CASE req.rule.side # "Back"
        BY Zenon, <1>4, <2>2, <3>2 DEF StepGrid, Beyond, AtFar
      <3> QED BY Zenon, <3>1, <3>2
    <2>4. CASE Beyond(req, d)
      <3>1. Complete(req, k)
        BY Zenon, <2>1, <2>2, <2>4 DEF Complete
      <3> QED BY Zenon, <3>1, <2>1, <2>2, <2>3, <2>4, <1>0
           DEF ScheduleInv, Started, Stepping, Gridding, Merging, Rolls, DefaultDone, RuledDone, ByRule
    <2>5. CASE ~Beyond(req, d)
      <3>1. a < d /\ d < b
        <4>1. CASE req.rule.side = "Back"
          <5>1. a < d /\ ~(d >= b)
            BY Zenon, <4>1, <2>1, <2>2, <2>5, <1>0, <1>1, PastAnchor DEF Beyond
          <5> QED BY SMT, <5>1
        <4>2. CASE req.rule.side # "Back"
          <5>1. d < b /\ ~(d <= a)
            BY Zenon, <4>2, <2>1, <2>2, <2>5, <1>0, <1>1, PastAnchor DEF Beyond
          <5> QED BY SMT, <5>1
        <4> QED BY Zenon, <4>1, <4>2
      <3>2. d > a
        BY SMT, <3>1
      <3>3. interior' = IF req.rule.side = "Back" THEN Append(interior, d) ELSE <<d>> \o interior
        BY Zenon, <2>3, <2>5, <3>1, <3>2, <1>1
      <3>4. Listed(req, k, interior')
        BY Zenon, <3>3, <2>1, <2>2, <1>0, ListMore
      <3>5. k + 1 \in Nat \ {0} /\ (k + 1) - 1 = k
        BY SMT, <1>0
      <3>6. Ruled(req, k + 1)
        <4>1. ASSUME NEW i \in 1..k PROVE req.spot < Regular(req, i) /\ Regular(req, i) < req.mat
          <5>1. i = k \/ i \in 1..k - 1
            BY SMT, <1>0
          <5> QED BY Zenon, <5>1, <3>1, <2>1, <2>2, <1>1 DEF Ruled
        <4> QED BY Zenon, <4>1, <3>5, <2>1 DEF Ruled
      <3> QED BY Zenon, <3>4, <3>5, <3>6, <2>1, <2>3, <2>5, <1>0
           DEF ScheduleInv, Started, Stepping, Gridding, Merging, Rolls, DefaultDone, RuledDone, ByRule
    <2> QED BY Zenon, <2>4, <2>5
  <1>5. CASE MergeStub
    <2>1. /\ pc = "merge" /\ pc' = "roll" /\ req' = req /\ bounds' = bounds /\ k' = k /\ ByRule /\ bounds = <<req.spot>>
          /\ Listed(req, k - 1, interior) /\ Complete(req, k) /\ (onGrid <=> AtFar(req, Regular(req, k)))
      BY Zenon, <1>5 DEF MergeStub, ScheduleInv, Gridding, Merging
    <2>2. interior' = Merged(req, interior, onGrid)
      BY Zenon, <1>5 DEF MergeStub, Merged
    <2>3. Listed(req, LastKept(req, k), interior')
      BY Zenon, <2>1, <2>2, <1>0, ListLess
    <2>4. Rolling(req, k, interior', bounds)
      BY Zenon, <2>1, <2>3, <1>0, RollBegins
    <2> QED BY Zenon, <2>1, <2>4, <1>0
         DEF ScheduleInv, Started, Stepping, Gridding, Merging, Rolls, DefaultDone, RuledDone, ByRule
  <1>6. CASE RollBoundary
    <2>1. /\ pc = "roll" /\ pc' = pc /\ req' = req /\ k' = k /\ interior # << >> /\ interior' = Tail(interior)
          /\ ByRule /\ Complete(req, k) /\ Rolling(req, k, interior, bounds)
      BY Zenon, <1>6 DEF RollBoundary, ScheduleInv, Rolls
    <2>2. bounds' = Placed(req, bounds, Adjust(req.cal, Head(interior), req.bdc))
      BY Zenon, <1>6 DEF RollBoundary, Placed
    <2>3. Rolling(req, k, interior', bounds')
      BY Zenon, <2>1, <2>2, <1>0, RollOne DEF ByRule
    <2> QED BY Zenon, <2>1, <2>3, <1>0
         DEF ScheduleInv, Started, Stepping, Gridding, Merging, Rolls, DefaultDone, RuledDone, ByRule
  <1>7. CASE Close
    <2>1. /\ pc = "roll" /\ pc' = "done" /\ req' = req /\ k' = k /\ interior' = interior /\ interior = << >>
          /\ bounds' = Append(bounds, End(req)) /\ ByRule /\ Complete(req, k) /\ Rolling(req, k, << >>, bounds)
      BY Zenon, <1>7 DEF Close, ScheduleInv, Rolls
    <2>2. bounds \in Seq(Int)
      BY Zenon, <2>1 DEF Rolling
    <2> QED BY Zenon, <2>1, <2>2, <1>0
         DEF ScheduleInv, Started, Stepping, Gridding, Merging, Rolls, DefaultDone, RuledDone, ByRule
  <1>8. CASE Ended \/ UNCHANGED vars
    <2>1. req' = req /\ bounds' = bounds /\ interior' = interior /\ k' = k /\ onGrid' = onGrid /\ pc' = pc
      BY <1>8 DEF Ended, vars
    <2> QED BY Zenon, <2>1 DEF ScheduleInv, Started, Stepping, Gridding, Merging, Rolls, DefaultDone, RuledDone, ByDefault, ByRule
  <1> QED BY Zenon, <1>2, <1>3, <1>4, <1>5, <1>6, <1>7, <1>8 DEF Next

LEMMA ScheduleInvariant == Spec => []ScheduleInv
  BY PTL, ScheduleInit, ScheduleNext DEF Spec

------------------------------------------------------------------------------
(* What the invariant gives. *)

\* The default loop's last boundary is before the end.
LEMMA LastStepped ==
    ASSUME NEW r \in Requests, r.spot < End(r), NEW n \in Nat \ {0}, NEW bs, SteppedTo(r, n, bs)
    PROVE  bs \in Seq(Int) /\ Len(bs) = n /\ Last(bs) = bs[n] /\ Last(bs) < End(r)
  <1>1. bs \in Seq(Int) /\ Len(bs) = n /\ bs[1] = r.spot /\ \A i \in 1..n - 1 : bs[i + 1] < End(r)
    BY Zenon DEF SteppedTo
  <1>2. Last(bs) = bs[n]
    BY Zenon, <1>1 DEF Last
  <1>3. CASE n = 1
    BY Zenon, <1>1, <1>2, <1>3
  <1>4. CASE n # 1
    <2>1. PICK i \in 1..n - 1 : n = i + 1
      BY SMT, <1>4
    <2> QED BY Zenon, <2>1, <1>1, <1>2
  <1> QED BY Zenon, <1>1, <1>2, <1>3, <1>4

\* So is the last one of the roll.
LEMMA LastRolled ==
    ASSUME NEW r \in Requests, r.spot < End(r), NEW n, NEW seq, NEW bs, Rolling(r, n, seq, bs)
    PROVE  bs \in Seq(Int) /\ Len(bs) \in Nat \ {0} /\ Last(bs) = bs[Len(bs)] /\ Last(bs) < End(r)
  <1>1. bs \in Seq(Int) /\ bs # << >> /\ {bs[i] : i \in DOMAIN bs} = {r.spot} \cup Rolled(r, n, seq)
    BY Zenon DEF Rolling
  <1>2. Len(bs) \in Nat \ {0} /\ Len(bs) \in DOMAIN bs
    <2>1. bs \in Seq(Int) /\ bs # << >>
      BY Zenon, <1>1
    <2> QED BY SMT, <2>1
  <1>3. Last(bs) = bs[Len(bs)]
    BY Zenon DEF Last
  <1>4. Last(bs) \in {r.spot} \cup Rolled(r, n, seq)
    BY Zenon, <1>1, <1>2, <1>3
  <1> QED BY Zenon, <1>1, <1>2, <1>3, <1>4 DEF Rolled, Boundaries

\* Closing boundaries that increase to below the end.
LEMMA Closed ==
    ASSUME NEW bs \in Seq(Int), Len(bs) \in Nat \ {0}, NEW e \in Int, bs[Len(bs)] < e, \A i \in 1..Len(bs) - 1 : bs[i] < bs[i + 1]
    PROVE  \A i \in 1..Len(Append(bs, e)) - 1 : Append(bs, e)[i] < Append(bs, e)[i + 1]
  BY SMT

\* Closing adds the end and nothing else.
LEMMA ClosedSet ==
    ASSUME NEW bs \in Seq(Int), NEW e \in Int
    PROVE  {Append(bs, e)[i] : i \in DOMAIN Append(bs, e)} = {bs[i] : i \in DOMAIN bs} \cup {e}
  <1>1. /\ DOMAIN bs = 1..Len(bs) /\ Len(bs) \in Nat /\ DOMAIN Append(bs, e) = 1..Len(bs) + 1
        /\ Append(bs, e)[Len(bs) + 1] = e
    BY SMT
  <1>2. \A i \in 1..Len(bs) : Append(bs, e)[i] = bs[i]
    BY SMT
  <1>3. 1..Len(bs) + 1 = 1..Len(bs) \cup {Len(bs) + 1}
    BY SMT, <1>1
  <1> QED BY Zenon, <1>1, <1>2, <1>3

\* In any state the invariant allows, boundaries increase.
LEMMA Increasing == ScheduleInv => BoundsIncrease
  <1> SUFFICES ASSUME ScheduleInv, End(req) > req.spot, LongStep(req)
               PROVE  /\ \A i \in 1..Len(bounds) - 1 : bounds[i] < bounds[i + 1]
                      /\ pc \in {"default", "roll"} => Last(bounds) < End(req)
    BY Zenon DEF BoundsIncrease
  <1>0. req \in Requests /\ k \in Nat \ {0} /\ pc \in {"begin", "default", "grid", "merge", "roll", "done", "refused"}
    BY Zenon DEF ScheduleInv
  <1>2. CASE pc \in {"begin", "refused", "grid", "merge"}
    <2>1. bounds = <<req.spot>> /\ pc \notin {"default", "roll"}
      BY <1>2 DEF ScheduleInv, Started, Gridding
    <2>2. \A i \in 1..Len(<<req.spot>>) - 1 : FALSE
      BY SMT
    <2> QED BY Zenon, <2>1, <2>2
  <1>3. CASE pc \in {"default", "roll"} \/ pc = "done"
    <2>1. req.spot < req.mat
      BY <1>3 DEF ScheduleInv, Stepping, Rolls, DefaultDone, RuledDone, ByDefault, ByRule
    <2>2. PICK a \in Int, e \in Int : a = req.spot /\ e = End(req)
      BY Zenon, <2>1, <1>0, RequestTyped, EndTyped
    <2>3. a < e
      <3>1. e > a BY Zenon, <2>2
      <3> QED BY SMT, <3>1
    <2>4. CASE pc = "default"
      <3>1. SteppedTo(req, k, bounds)
        BY Zenon, <2>4 DEF ScheduleInv, Stepping
      <3>2. bounds \in Seq(Int) /\ Len(bounds) = k /\ Last(bounds) < End(req)
        BY Zenon, <3>1, <2>2, <2>3, <1>0, LastStepped
      <3> QED BY Zenon, <3>1, <3>2, <2>1, <1>0, SteppedIncrease
    <2>5. CASE pc = "roll"
      <3>1. Rolling(req, k, interior, bounds)
        BY Zenon, <2>5 DEF ScheduleInv, Rolls
      <3>2. Last(bounds) < End(req)
        BY Zenon, <3>1, <2>2, <2>3, <1>0, LastRolled
      <3> QED BY Zenon, <3>1, <3>2 DEF Rolling
    <2>6. CASE pc = "done"
      <3>1. PICK bs \in Seq(Int) : /\ bounds = Append(bs, e) /\ Len(bs) \in Nat \ {0} /\ bs[Len(bs)] < e
                                   /\ \A i \in 1..Len(bs) - 1 : bs[i] < bs[i + 1]
        <4>1. CASE req.rule = DefaultRule
          <5>1. PICK bs \in Seq(Int) : SteppedTo(req, k, bs) /\ bounds = Append(bs, End(req))
            BY Zenon, <2>6, <4>1 DEF ScheduleInv, DefaultDone
          <5>2. Len(bs) = k /\ Last(bs) = bs[k] /\ Last(bs) < End(req)
            BY Zenon, <5>1, <2>2, <2>3, <1>0, LastStepped
          <5>3. \A i \in 1..k - 1 : bs[i] < bs[i + 1]
            BY Zenon, <5>1, <2>1, <1>0, SteppedIncrease
          <5> QED BY Zenon, <5>1, <5>2, <5>3, <2>2, <1>0
        <4>2. CASE req.rule # DefaultRule
          <5>1. PICK bs \in Seq(Int) : Rolling(req, k, << >>, bs) /\ bounds = Append(bs, End(req))
            BY Zenon, <2>6, <4>2 DEF ScheduleInv, RuledDone
          <5>2. Len(bs) \in Nat \ {0} /\ Last(bs) = bs[Len(bs)] /\ Last(bs) < End(req)
            BY Zenon, <5>1, <2>2, <2>3, <1>0, LastRolled
          <5>3. \A i \in 1..Len(bs) - 1 : bs[i] < bs[i + 1]
            BY Zenon, <5>1 DEF Rolling
          <5> QED BY Zenon, <5>1, <5>2, <5>3, <2>2
        <4> QED BY Zenon, <4>1, <4>2
      <3>2. \A i \in 1..Len(Append(bs, e)) - 1 : Append(bs, e)[i] < Append(bs, e)[i + 1]
        BY Zenon, <3>1, Closed
      <3>3. pc \notin {"default", "roll"}
        BY <2>6
      <3> QED BY Zenon, <3>1, <3>2, <3>3
    <2> QED BY Zenon, <1>3, <2>4, <2>5, <2>6
  <1> QED BY <1>0, <1>2, <1>3

\* From a start that adjustment leaves in its place, no step is moved before the start.
LEMMA SteppedFromStart ==
    ASSUME NEW r \in Requests, r.spot < r.mat, StartStays(r), NEW n \in Nat \ {0}, NEW bs, SteppedTo(r, n, bs)
    PROVE  \A i \in 1..n : r.spot < Stepped(r, i) \/ r.spot = Stepped(r, i)
  <1> TAKE i \in 1..n
  <1>1. PICK a \in Int, b \in Int, s \in Int, m \in Int : a = r.spot /\ b = r.mat /\ s = StepDate(r, i) /\ m = Stepped(r, i)
    BY Zenon, SteppedServed, RequestTyped
  <1>2. a <= a /\ a <= b
    <2>1. a < b BY Zenon, <1>1
    <2> QED BY SMT, <2>1
  <1>3. a <= s
    <2>1. 0 \in Nat /\ i \in Nat /\ 0 < i BY SMT
    <2>2. a < s
      BY Zenon, <2>1, <1>1, StepDatesApart, StepDates
    <2> QED BY SMT, <2>2
  <1>4. Served(r.cal, a) /\ Served(r.cal, s)
    BY Zenon, <1>1, <1>2, Inner, SteppedServed
  <1>5. Adjust(r.cal, a, r.bdc) <= Adjust(r.cal, s, r.bdc)
    BY Zenon, <1>3, <1>4, AdjustMonotone, RequestTyped
  <1>6. a <= m
    BY Zenon, <1>5, <1>1 DEF StartStays, Stepped
  <1>7. a < m \/ a = m
    BY SMT, <1>6
  <1> QED BY Zenon, <1>1, <1>7

\* The default loop makes the boundaries of the regular grid, whatever is refused past the end.
LEMMA DefaultMakesTheGrid ==
    ASSUME NEW r \in Requests, r.spot < r.mat, LongStep(r) \/ StartStays(r), r.rule = DefaultRule,
           NEW n \in Nat \ {0}, NEW bs, SteppedTo(r, n, bs), Stepped(r, n) >= End(r)
    PROVE  {bs[i] : i \in DOMAIN bs} = {r.spot} \cup Boundaries(r, Kept(r, n))
  <1>1. PICK a \in Int, b \in Int, e \in Int : a = r.spot /\ b = r.mat /\ e = End(r) /\ a < b
    BY Zenon, RequestTyped, EndTyped
  <1>2. /\ bs \in Seq(Int) /\ DOMAIN bs = 1..n /\ bs[1] = a
        /\ \A i \in 1..n - 1 : bs[i + 1] = Stepped(r, i) /\ Stepped(r, i) < e
    BY <1>1 DEF SteppedTo
  <1>3. \A i \in 1..n : i \in Nat /\ (a < Stepped(r, i) \/ a = Stepped(r, i)) /\ Stepped(r, i) \in Int /\ StepDate(r, i) \in Int
    <2> TAKE i \in 1..n
    <2>1. i \in Nat BY SMT
    <2>2. a < Stepped(r, i) \/ a = Stepped(r, i)
      <3>1. CASE LongStep(r)
        BY Zenon, <3>1, <1>1, SteppedIncrease
      <3>2. CASE StartStays(r)
        BY Zenon, <3>2, <1>1, SteppedFromStart
      <3> QED BY Zenon, <3>1, <3>2
    <2>3. Stepped(r, i) \in Int
      BY Zenon, SteppedServed
    <2> QED BY Zenon, <2>1, <2>2, <2>3, <1>1, StepDates
  <1>4. \A i \in 1..n : i \in 1..n - 1 \/ i = n
    BY SMT
  <1>5. \A i \in 1..n - 1 : i + 1 \in 1..n /\ i \in 1..n /\ i + 1 # 1
    BY SMT
  <1>6. \A i \in 1..n : i = 1 \/ \E j \in 1..n - 1 : i = j + 1
    <2> TAKE i \in 1..n
    <2>1. i # 1 => i - 1 \in 1..n - 1 /\ i = (i - 1) + 1
      BY SMT
    <2> QED BY Zenon, <2>1
  <1>7. {bs[i] : i \in DOMAIN bs} = {a} \cup {Stepped(r, i) : i \in 1..n - 1}
    <2>0. 1 \in 1..n BY SMT
    <2>1. ASSUME NEW i \in 1..n PROVE bs[i] \in {a} \cup {Stepped(r, j) : j \in 1..n - 1}
      BY Zenon, <1>2, <1>6
    <2>2. ASSUME NEW j \in 1..n - 1 PROVE Stepped(r, j) \in {bs[i] : i \in 1..n}
      BY Zenon, <1>2, <1>5
    <2> QED BY Zenon, <2>0, <2>1, <2>2, <1>2
  <1>8. Kept(r, n) = {d \in {StepDate(r, j) : j \in 1..n} : r.spot < d /\ d < r.mat}
    <2>1. n \in Nat BY SMT
    <2> QED BY Zenon, <2>1, DefaultGrid
  <1>9. \A i \in 1..n - 1 : a < StepDate(r, i) /\ StepDate(r, i) < b
    <2> TAKE i \in 1..n - 1
    <2>1. PICK s \in Int, m \in Int : s = StepDate(r, i) /\ m = Stepped(r, i) /\ i \in 1..n /\ i \in Nat /\ m < e
      BY Zenon, <1>2, <1>3, <1>5
    <2>2. a < s
      <3>1. 0 \in Nat /\ 0 < i BY SMT, <2>1
      <3> QED BY Zenon, <3>1, <2>1, <1>1, StepDatesApart, StepDates
    <2>3. s < b
      <3>1. SUFFICES ASSUME b <= s PROVE FALSE
        BY SMT
      <3>2. e = Adjust(r.cal, b, r.bdc)
        BY Zenon, <1>1, TheDefault DEF End
      <3>3. Served(r.cal, b)
        <4>1. a <= b /\ b <= b BY SMT, <1>1
        <4> QED BY Zenon, <4>1, <1>1, Inner
      <3>4. Served(r.cal, s)
        BY Zenon, <2>1, SteppedServed
      <3>5. Adjust(r.cal, b, r.bdc) <= Adjust(r.cal, s, r.bdc)
        BY Zenon, <3>1, <3>3, <3>4, AdjustMonotone, RequestTyped
      <3>6. e <= m
        BY Zenon, <3>2, <3>5, <2>1 DEF Stepped
      <3> QED BY SMT, <3>6, <2>1
    <2> QED BY Zenon, <2>1, <2>2, <2>3
  <1>10. {a} \cup Boundaries(r, Kept(r, n)) = {a} \cup {Stepped(r, i) : i \in 1..n - 1}
    <2>1. ASSUME NEW i \in 1..n - 1 PROVE Stepped(r, i) \in {a} \cup Boundaries(r, Kept(r, n))
      <3>1. StepDate(r, i) \in Kept(r, n)
        BY Zenon, <1>1, <1>5, <1>8, <1>9
      <3> QED BY Zenon, <3>1, <1>1, <1>2, <1>3, <1>5 DEF Boundaries, Stepped
    <2>2. ASSUME NEW x \in Boundaries(r, Kept(r, n)) PROVE x \in {Stepped(r, i) : i \in 1..n - 1}
      <3>1. PICK i \in 1..n : x = Stepped(r, i) /\ x < e
        BY Zenon, <1>1, <1>8 DEF Boundaries, Stepped
      <3>2. i # n
        <4>1. Stepped(r, n) >= e /\ n \in 1..n
          BY SMT, <1>1
        <4>2. Stepped(r, n) \in Int
          BY Zenon, <4>1, <1>3
        <4>3. ~(Stepped(r, n) < e)
          BY SMT, <4>1, <4>2
        <4> QED BY Zenon, <4>3, <3>1
      <3> QED BY Zenon, <3>1, <3>2, <1>4
    <2> QED BY Zenon, <2>1, <2>2
  <1> QED BY Zenon, <1>1, <1>7, <1>10

\* In any finished state the invariant allows, the boundaries are the grid.
LEMMA OnTheGrid == ScheduleInv => ScheduleIsTheGrid
  <1> SUFFICES ASSUME ScheduleInv, pc = "done", LongStep(req) \/ StartStays(req)
               PROVE  {bounds[i] : i \in DOMAIN bounds} = {req.spot, End(req)} \cup Boundaries(req, Kept(req, k))
    BY Zenon DEF ScheduleIsTheGrid
  <1>0. req \in Requests /\ k \in Nat \ {0}
    BY Zenon DEF ScheduleInv
  <1>1. req.spot < req.mat
    BY DEF ScheduleInv, DefaultDone, RuledDone, ByRule
  <1>2. PICK bs \in Seq(Int) : bounds = Append(bs, End(req)) /\ {bs[i] : i \in DOMAIN bs} = {req.spot} \cup Boundaries(req, Kept(req, k))
    <2>1. CASE req.rule = DefaultRule
      <3>1. Stepped(req, k) >= End(req) /\ \E bs \in Seq(Int) : SteppedTo(req, k, bs) /\ bounds = Append(bs, End(req))
        BY Zenon, <2>1 DEF ScheduleInv, DefaultDone
      <3> QED BY Zenon, <3>1, <2>1, <1>0, <1>1, DefaultMakesTheGrid
    <2>2. CASE req.rule # DefaultRule
      <3>1. PICK bs \in Seq(Int) : Rolling(req, k, << >>, bs) /\ bounds = Append(bs, End(req))
        BY Zenon, <2>2 DEF ScheduleInv, RuledDone
      <3>2. {d \in Kept(req, k) : \A i \in DOMAIN << >> : << >>[i] # d} = Kept(req, k)
        <4>1. DOMAIN << >> = {} BY SMT
        <4> QED BY Zenon, <4>1
      <3> QED BY Zenon, <3>1, <3>2 DEF Rolling, Rolled
    <2> QED BY Zenon, <2>1, <2>2
  <1>3. {bounds[i] : i \in DOMAIN bounds} = {bs[i] : i \in DOMAIN bs} \cup {End(req)}
    <2>1. PICK e \in Int : e = End(req)
      BY Zenon, <1>0, <1>1, EndTyped
    <2>2. {Append(bs, e)[i] : i \in DOMAIN Append(bs, e)} = {bs[i] : i \in DOMAIN bs} \cup {e}
      BY Zenon, ClosedSet
    <2>3. bounds = Append(bs, e)
      BY Zenon, <1>2, <2>1
    <2> QED BY Zenon, <2>1, <2>2, <2>3
  <1> QED BY Zenon, <1>2, <1>3

(* Every period a schedule makes has a positive length, at every step of either loop: on any  *)
(* calendar, for any convention, stub, roll day and end-of-month rule, a boundary is after    *)
(* the one before it and before the end, if a step is longer than two closures.               *)
THEOREM PeriodsArePositive == Spec => []BoundsIncrease
  BY PTL, ScheduleInvariant, Increasing

(* A finished schedule is the regular grid between its ends, from both loops: no regular date *)
(* is missed, doubled or invented by stepping, by merging a long stub, by adjustment or by    *)
(* the filter that drops what adjustment moved onto an end.                                   *)
THEOREM SchedulesAreGrids == Spec => []ScheduleIsTheGrid
  BY PTL, ScheduleInvariant, OnTheGrid

------------------------------------------------------------------------------
(* Accruals: every day count that looks at days one by one is a difference of what accrues   *)
(* to each end, so the accruals of periods that follow on telescope.                         *)

\* What accrues up to a date, counted from a fixed origin: in days of its year's weight and whole
\* years, or in 30-day months.
ActActTo(s) == (s - Jan1(Civil(s).y)) * DayWeight(Civil(s).y) + Civil(s).y * kWholeYear
ThirtyTo(s) == Civil(s).y * 360 + Civil(s).m * 30 + Earlier(Civil(s).d, 30)

LEMMA YearWeight ==
    ASSUME NEW y \in Int
    PROVE  DayWeight(y) = IF IsLeap(y) THEN 365 ELSE 366
  <1>1. (365 * 366) \div 366 = 365 /\ (365 * 366) \div 365 = 366
    BY SMT
  <1> QED BY SMT, <1>1 DEF DayWeight, kWholeYear

\* A date read by its year: the fields the day counts use.
LEMMA CivilTyped ==
    ASSUME NEW s \in Int
    PROVE  Civil(s).y \in Int /\ Civil(s).m \in Int /\ Civil(s).d \in Int
  <1>1. IsDate(Civil(s), s)
    BY Zenon, CivilIsTheDate
  <1>2. PICK y \in Int, m \in 1..12 : y = Civil(s).y /\ m = Civil(s).m /\ Civil(s).d \in 1..MonthLength(y, m)
    BY Zenon, <1>1 DEF IsDate
  <1>3. MonthLength(y, m) \in 28..31
    BY Zenon, LengthTyped
  <1>4. PICK d : d = Civil(s).d
    BY Zenon
  <1>5. m \in Int /\ d \in Int
    <2>1. d \in 1..MonthLength(y, m)
      BY Zenon, <1>2, <1>4
    <2> QED BY SMT, <2>1, <1>3
  <1> QED BY Zenon, <1>2, <1>4, <1>5

\* ACT/ACT is a difference of what accrues to each end, in either order: a year's days, each at
\* its weight, make one whole year.
LEMMA ActActDifference ==
    ASSUME NEW s \in Int, NEW t \in Int
    PROVE  ActActTo(s) \in Int /\ ActActIsda(s, t) = ActActTo(t) - ActActTo(s)
  <1>1. PICK y \in Int, z \in Int : y = Civil(s).y /\ z = Civil(t).y
    BY Zenon, CivilTyped
  <1>2. PICK a \in Int, b \in Int, next \in Int : a = Jan1(y) /\ b = Jan1(z) /\ next = Jan1(y + 1)
    <2>1. y + 1 \in Int BY SMT
    <2> QED BY Zenon, <2>1, JanTyped
  <1>3. next = a + (IF IsLeap(y) THEN 366 ELSE 365)
    BY Zenon, <1>2, JanStep
  <1>4. PICK v, w : v = DayWeight(y) /\ w = DayWeight(z)
    BY Zenon
  <1>5. v = (IF IsLeap(y) THEN 365 ELSE 366) /\ w = (IF IsLeap(z) THEN 365 ELSE 366)
    BY Zenon, <1>4, YearWeight
  <1>6. v \in 365..366 /\ w \in 365..366 /\ (y = z => v = w /\ a = b)
    <2>1. y = z => v = w /\ a = b
      BY Zenon, <1>2, <1>4
    <2> QED BY SMT, <2>1, <1>5
  <1>7. PICK whole \in Int : whole = kWholeYear /\ (next - a) * v = whole
    <2>1. kWholeYear \in Int /\ (next - a) * v = kWholeYear
      BY SMT, <1>3, <1>5 DEF kWholeYear
    <2> QED BY Zenon, <2>1
  <1>8. ActActTo(s) = (s - a) * v + y * whole /\ ActActTo(t) = (t - b) * w + z * whole
    BY Zenon, <1>1, <1>2, <1>4, <1>7 DEF ActActTo
  <1>9. ActActIsda(s, t) = IF y = z THEN (t - s) * v
                           ELSE (next - s) * v + (t - b) * w + (z - y - 1) * whole
    BY Zenon, <1>1, <1>2, <1>4, <1>7 DEF ActActIsda
  <1>10. (s - a) * v + y * whole \in Int
    BY SMT, <1>6
  <1>11. CASE y = z
    <2>1. (t - s) * v = ((t - a) * v + y * whole) - ((s - a) * v + y * whole)
      BY SMT, <1>6
    <2> QED BY Zenon, <2>1, <1>6, <1>8, <1>9, <1>10, <1>11
  <1>12. CASE y # z
    <2>1. (next - s) * v + (t - b) * w + (z - y - 1) * whole
              = ((t - b) * w + z * whole) - ((s - a) * v + y * whole)
      <3>1. PICK p \in Int, q \in Int, m \in Int, n \in Int :
               p = (s - a) * v /\ q = (t - b) * w /\ m = y * whole /\ n = z * whole
        BY SMT, <1>6
      <3>2. (next - s) * v = whole - p
        <4>1. (next - s) * v = (next - a) * v - (s - a) * v
          BY SMT, <1>6
        <4> QED BY Zenon, <4>1, <3>1, <1>7
      <3>3. (z - y - 1) * whole = n - m - whole
        <4>1. (z - y - 1) * whole = z * whole - y * whole - whole
          BY SMT
        <4> QED BY Zenon, <4>1, <3>1
      <3>4. (whole - p) + q + (n - m - whole) = (q + n) - (p + m)
        BY SMT
      <3> QED BY Zenon, <3>1, <3>2, <3>3, <3>4
    <2> QED BY Zenon, <2>1, <1>8, <1>9, <1>10, <1>12
  <1> QED BY Zenon, <1>11, <1>12

LEMMA ThirtyDifference ==
    ASSUME NEW s \in Int, NEW t \in Int
    PROVE  ThirtyTo(s) \in Int /\ ThirtyE(s, t) = ThirtyTo(t) - ThirtyTo(s)
  <1>1. PICK y \in Int, m \in Int, d \in Int : y = Civil(s).y /\ m = Civil(s).m /\ d = Earlier(Civil(s).d, 30)
    <2>1. Earlier(Civil(s).d, 30) \in Int
      BY CivilTyped DEF Earlier
    <2> QED BY Zenon, <2>1, CivilTyped
  <1>2. PICK z \in Int, n \in Int, e \in Int : z = Civil(t).y /\ n = Civil(t).m /\ e = Earlier(Civil(t).d, 30)
    <2>1. Earlier(Civil(t).d, 30) \in Int
      BY CivilTyped DEF Earlier
    <2> QED BY Zenon, <2>1, CivilTyped
  <1>3. ThirtyE(s, t) = (z - y) * 360 + (n - m) * 30 + e - d
    BY Zenon, <1>1, <1>2 DEF ThirtyE, ThirtyDays
  <1>4. ThirtyTo(s) = y * 360 + m * 30 + d /\ ThirtyTo(t) = z * 360 + n * 30 + e
    BY Zenon, <1>1, <1>2 DEF ThirtyTo
  <1> QED BY SMT, <1>3, <1>4

OpenDays(c, s, t) == {d \in s..t - 1 : IsBusinessDay(c, d)}

\* The open days of two spans that follow on are those of the whole.
LEMMA OpenDaysAdd ==
    ASSUME NEW c, NEW s \in Int, NEW t \in Int, NEW u \in Int, s <= t, t <= u
    PROVE  /\ Cardinality(OpenDays(c, s, t)) \in Int
           /\ Cardinality(OpenDays(c, s, t)) + Cardinality(OpenDays(c, t, u)) = Cardinality(OpenDays(c, s, u))
  <1>1. IsFiniteSet(OpenDays(c, s, t)) /\ IsFiniteSet(OpenDays(c, t, u))
    <2>1. ASSUME NEW a \in Int, NEW b \in Int PROVE IsFiniteSet(OpenDays(c, a, b))
      <3>1. b - 1 \in Int BY SMT
      <3>2. IsFiniteSet(a..b - 1)
        BY Zenon, <3>1, FS_Interval
      <3>3. OpenDays(c, a, b) \in SUBSET (a..b - 1)
        BY Zenon DEF OpenDays
      <3> QED BY Zenon, <3>2, <3>3, FS_Subset
    <2> QED BY Zenon, <2>1
  <1>2. \A d : (d \in s..t - 1 \/ d \in t..u - 1) <=> d \in s..u - 1
    BY SMT
  <1>3. \A d : ~(d \in s..t - 1 /\ d \in t..u - 1)
    BY SMT
  <1>4. OpenDays(c, s, t) \cup OpenDays(c, t, u) = OpenDays(c, s, u)
    BY Zenon, <1>2 DEF OpenDays
  <1>5. OpenDays(c, s, t) \cap OpenDays(c, t, u) = {}
    BY Zenon, <1>3 DEF OpenDays
  <1>6. Cardinality(OpenDays(c, s, u)) = Cardinality(OpenDays(c, s, t)) + Cardinality(OpenDays(c, t, u)) - 0
    <2>1. PICK A, B : A = OpenDays(c, s, t) /\ B = OpenDays(c, t, u)
      BY Zenon
    <2>2. IsFiniteSet(A) /\ IsFiniteSet(B) /\ A \cup B = OpenDays(c, s, u) /\ A \cap B = {}
      BY Zenon, <1>1, <1>4, <1>5, <2>1
    <2>3. Cardinality(A \cup B) = Cardinality(A) + Cardinality(B) - Cardinality(A \cap B)
      BY Zenon, <2>2, FS_Union
    <2>4. Cardinality(A \cap B) = 0
      BY Zenon, <2>2, FS_EmptySet
    <2> QED BY Zenon, <2>1, <2>2, <2>3, <2>4
  <1>7. PICK m \in Nat, n \in Nat : m = Cardinality(OpenDays(c, s, t)) /\ n = Cardinality(OpenDays(c, t, u))
    BY Zenon, <1>1, FS_CardinalityType
  <1>8. m \in Int /\ m + n - 0 = m + n
    BY SMT
  <1> QED BY Zenon, <1>6, <1>7, <1>8

\* So do those of any three dates, a span backward counting against.
LEMMA BusinessDaysAdd ==
    ASSUME NEW c, NEW s \in Int, NEW t \in Int, NEW u \in Int
    PROVE  /\ BusinessDaysBetween(c, s, t) \in Int
           /\ BusinessDaysBetween(c, s, t) + BusinessDaysBetween(c, t, u) = BusinessDaysBetween(c, s, u)
  <1> DEFINE n(a, b) == Cardinality(OpenDays(c, a, b))
  <1>1. \A a \in Int, b \in Int : a <= b => n(a, b) \in Int
    <2> TAKE a \in Int, b \in Int
    <2>1. b <= b BY SMT
    <2> QED BY Zenon, <2>1, OpenDaysAdd
  <1>2. \A a \in Int, b \in Int, e \in Int : a <= b /\ b <= e => n(a, b) + n(b, e) = n(a, e)
    <2> TAKE a \in Int, b \in Int, e \in Int
    <2>1. ASSUME a <= b, b <= e
          PROVE  Cardinality(OpenDays(c, a, b)) + Cardinality(OpenDays(c, b, e)) = Cardinality(OpenDays(c, a, e))
      BY SMT, <2>1, OpenDaysAdd
    <2> QED BY Zenon, <2>1
  <1>3. \A a \in Int, b \in Int : BusinessDaysBetween(c, a, b) = IF b < a THEN -n(b, a) ELSE n(a, b)
    BY Zenon DEF BusinessDaysBetween, OpenDays
  <1> HIDE DEF n
  <1> DEFINE f(a, b) == BusinessDaysBetween(c, a, b)
  <1>4. \A a \in Int, b \in Int : f(a, b) = IF b < a THEN -n(b, a) ELSE n(a, b)
    BY Zenon, <1>3
  <1> HIDE DEF f
  <1>5. f(s, t) \in Int
    BY SMT, <1>1, <1>4
  <1>6. f(s, t) + f(t, u) = f(s, u)
    <2>1. CASE s <= t /\ t <= u
      <3>1. n(s, t) \in Int /\ n(t, u) \in Int /\ n(s, t) + n(t, u) = n(s, u)
        BY SMT, <1>1, <1>2, <2>1
      <3>2. f(s, t) = n(s, t) /\ f(t, u) = n(t, u) /\ f(s, u) = n(s, u)
        BY SMT, <1>4, <2>1
      <3> QED BY SMT, <3>1, <3>2
    <2>2. CASE s <= u /\ u < t
      <3>1. n(s, u) \in Int /\ n(u, t) \in Int /\ n(s, u) + n(u, t) = n(s, t)
        BY SMT, <1>1, <1>2, <2>2
      <3>2. f(s, t) = n(s, t) /\ f(t, u) = -n(u, t) /\ f(s, u) = n(s, u)
        BY SMT, <1>4, <2>2
      <3> QED BY SMT, <3>1, <3>2
    <2>3. CASE t < s /\ s <= u
      <3>1. n(t, s) \in Int /\ n(s, u) \in Int /\ n(t, s) + n(s, u) = n(t, u)
        BY SMT, <1>1, <1>2, <2>3
      <3>2. f(s, t) = -n(t, s) /\ f(t, u) = n(t, u) /\ f(s, u) = n(s, u)
        BY SMT, <1>4, <2>3
      <3> QED BY SMT, <3>1, <3>2
    <2>4. CASE t <= u /\ u < s
      <3>1. n(t, u) \in Int /\ n(u, s) \in Int /\ n(t, u) + n(u, s) = n(t, s)
        BY SMT, <1>1, <1>2, <2>4
      <3>2. f(s, t) = -n(t, s) /\ f(t, u) = n(t, u) /\ f(s, u) = -n(u, s)
        BY SMT, <1>4, <2>4
      <3> QED BY SMT, <3>1, <3>2
    <2>5. CASE u < s /\ s <= t
      <3>1. n(u, s) \in Int /\ n(s, t) \in Int /\ n(u, s) + n(s, t) = n(u, t)
        BY SMT, <1>1, <1>2, <2>5
      <3>2. f(s, t) = n(s, t) /\ f(t, u) = -n(u, t) /\ f(s, u) = -n(u, s)
        BY SMT, <1>4, <2>5
      <3> QED BY SMT, <3>1, <3>2
    <2>6. CASE u < t /\ t < s
      <3>1. n(u, t) \in Int /\ n(t, s) \in Int /\ n(u, t) + n(t, s) = n(u, s)
        BY SMT, <1>1, <1>2, <2>6
      <3>2. f(s, t) = -n(t, s) /\ f(t, u) = -n(u, t) /\ f(s, u) = -n(u, s)
        BY SMT, <1>4, <2>6
      <3> QED BY SMT, <3>1, <3>2
    <2> QED BY SMT, <2>1, <2>2, <2>3, <2>4, <2>5, <2>6
  <1> QED BY Zenon, <1>5, <1>6 DEF f

(* What accrues over two spans that follow on is what accrues over the whole, wherever they are  *)
(* cut and in whichever order, under every day count that looks at days one by one.           *)
THEOREM YearFracAdds ==
    ASSUME NEW dc \in DayByDay, NEW c, NEW s \in Int, NEW t \in Int, NEW u \in Int
    PROVE  /\ YearFrac(dc, s, t, c) \in Int
           /\ YearFrac(dc, s, t, c) + YearFrac(dc, t, u, c) = YearFrac(dc, s, u, c)
  <1>1. CASE dc = "ACT/360"
    <2>1. \A a, b : YearFrac(dc, a, b, c) = b - a
      BY <1>1 DEF YearFrac
    <2>2. t - s \in Int /\ (t - s) + (u - t) = u - s
      BY SMT
    <2> QED BY Zenon, <2>1, <2>2
  <1>2. CASE dc = "ACT/ACT"
    <2>1. \A a, b : YearFrac(dc, a, b, c) = IF b < a THEN -ActActIsda(b, a) ELSE ActActIsda(a, b)
      BY <1>2 DEF YearFrac
    <2>2. \A a \in Int, b \in Int : YearFrac(dc, a, b, c) = ActActTo(b) - ActActTo(a)
      <3> TAKE a \in Int, b \in Int
      <3>1. PICK x \in Int, y \in Int : x = ActActTo(a) /\ y = ActActTo(b)
        BY Zenon, ActActDifference
      <3>2. ActActIsda(a, b) = y - x /\ ActActIsda(b, a) = x - y
        BY Zenon, <3>1, ActActDifference
      <3>3. -(x - y) = y - x
        BY SMT
      <3> QED BY Zenon, <2>1, <3>1, <3>2, <3>3
    <2>3. PICK x \in Int, y \in Int, z \in Int : x = ActActTo(s) /\ y = ActActTo(t) /\ z = ActActTo(u)
      BY Zenon, ActActDifference
    <2>4. y - x \in Int /\ (y - x) + (z - y) = z - x
      BY SMT
    <2> QED BY Zenon, <2>2, <2>3, <2>4
  <1>3. CASE dc = "30E/360"
    <2>1. \A a, b : YearFrac(dc, a, b, c) = ThirtyE(a, b)
      BY <1>3 DEF YearFrac
    <2>2. \A a \in Int, b \in Int : YearFrac(dc, a, b, c) = ThirtyTo(b) - ThirtyTo(a)
      BY Zenon, <2>1, ThirtyDifference
    <2>3. PICK x \in Int, y \in Int, z \in Int : x = ThirtyTo(s) /\ y = ThirtyTo(t) /\ z = ThirtyTo(u)
      BY Zenon, ThirtyDifference
    <2>4. y - x \in Int /\ (y - x) + (z - y) = z - x
      BY SMT
    <2> QED BY Zenon, <2>2, <2>3, <2>4
  <1>4. CASE dc = "BUS/252"
    <2>1. \A a, b : YearFrac(dc, a, b, c) = BusinessDaysBetween(c, a, b)
      BY <1>4 DEF YearFrac
    <2>2. /\ BusinessDaysBetween(c, s, t) \in Int
          /\ BusinessDaysBetween(c, s, t) + BusinessDaysBetween(c, t, u) = BusinessDaysBetween(c, s, u)
      BY Zenon, BusinessDaysAdd
    <2> QED BY Zenon, <2>1, <2>2
  <1> QED BY Zenon, <1>1, <1>2, <1>3, <1>4 DEF DayByDay

\* A finished schedule starts at the start and ends at the end.
LEMMA Finished ==
    ASSUME ScheduleInv, pc = "done"
    PROVE  bounds \in Seq(Int) /\ Len(bounds) \in Nat \ {0, 1} /\ bounds[1] = req.spot /\ bounds[Len(bounds)] = End(req)
  <1>0. req \in Requests /\ k \in Nat \ {0} /\ req.spot < req.mat
    BY DEF ScheduleInv, DefaultDone, RuledDone, ByRule
  <1>1. PICK e \in Int : e = End(req)
    BY Zenon, <1>0, EndTyped
  <1>2. PICK bs \in Seq(Int) : Len(bs) \in Nat \ {0} /\ bs[1] = req.spot /\ bounds = Append(bs, e)
    <2>1. CASE req.rule = DefaultRule
      <3>1. PICK bs \in Seq(Int) : SteppedTo(req, k, bs) /\ bounds = Append(bs, e)
        BY Zenon, <2>1, <1>1 DEF ScheduleInv, DefaultDone
      <3> QED BY Zenon, <3>1, <1>0 DEF SteppedTo
    <2>2. CASE req.rule # DefaultRule
      <3>1. PICK bs \in Seq(Int) : Rolling(req, k, << >>, bs) /\ bounds = Append(bs, e)
        BY Zenon, <2>2, <1>1 DEF ScheduleInv, RuledDone
      <3>2. PICK a \in Int : a = req.spot
        BY Zenon, <1>0, RequestTyped
      <3>3. bs # << >> /\ {bs[i] : i \in DOMAIN bs} = {a} \cup Rolled(req, k, << >>) /\ \A i \in 1..Len(bs) - 1 : bs[i] < bs[i + 1]
        BY Zenon, <3>1, <3>2 DEF Rolling
      <3>4. \A x \in Rolled(req, k, << >>) : a < x
        BY Zenon, <3>2 DEF Rolled, Boundaries
      <3>5. DOMAIN bs = 1..Len(bs) /\ Len(bs) \in Nat \ {0}
        BY <3>3
      <3>6. \A i \in 1..Len(bs) : bs[i] \in Int /\ (bs[i] = a \/ a < bs[i])
        <4> TAKE i \in 1..Len(bs)
        <4>1. bs[i] \in {a} \cup Rolled(req, k, << >>)
          BY Zenon, <3>3, <3>5
        <4>2. bs[i] \in Int
          BY <3>5
        <4> QED BY Zenon, <4>1, <4>2, <3>4
      <3> DEFINE T == {i \in Nat : i \in 1..Len(bs) /\ bs[i] = a}
      <3>7. PICK i \in T : \A j \in T : i <= j
        <4>1. PICK i \in 1..Len(bs) : bs[i] = a
          BY Zenon, <3>3, <3>5
        <4>2. i \in Nat BY SMT, <3>5
        <4>3. T \in SUBSET Nat /\ T # {}
          BY Zenon, <4>1, <4>2
        <4> HIDE DEF T
        <4> QED BY Zenon, <4>3, Least
      <3>8. i = 1
        <4>1. SUFFICES ASSUME i # 1 PROVE FALSE
          BY Zenon
        <4>2. PICK j \in Nat : i = j + 1 /\ j \in 1..Len(bs) - 1 /\ j \in 1..Len(bs)
          BY SMT, <4>1, <3>5
        <4>3. bs[j] < a
          BY Zenon, <4>2, <3>3
        <4>4. bs[j] \in Int /\ (bs[j] = a \/ a < bs[j])
          BY Zenon, <4>2, <3>6
        <4> QED BY SMT, <4>3, <4>4
      <3> QED BY Zenon, <3>1, <3>2, <3>5, <3>7, <3>8
    <2> QED BY Zenon, <2>1, <2>2
  <1>3. /\ Append(bs, e) \in Seq(Int) /\ Len(Append(bs, e)) = Len(bs) + 1
        /\ Append(bs, e)[1] = bs[1] /\ Append(bs, e)[Len(bs) + 1] = e
    BY <1>2
  <1>4. Len(bs) + 1 \in Nat \ {0, 1}
    BY SMT, <1>2
  <1> QED BY Zenon, <1>1, <1>2, <1>3, <1>4

\* The running total of a schedule's accruals.
Totals(dc, f) ==
    f = [n \in 0..Len(Periods) |-> IF n = 0 THEN 0 ELSE f[n - 1] + YearFrac(dc, Periods[n][1], Periods[n][2], req.cal)]

\* After each period, what has accrued is the accrual from the start to its end.
LEMMA Telescopes ==
    ASSUME NEW dc \in DayByDay, ScheduleInv, pc = "done"
    PROVE  Accrued(dc)[Len(Periods)] = YearFrac(dc, req.spot, End(req), req.cal)
  <1>1. bounds \in Seq(Int) /\ Len(bounds) \in Nat \ {0, 1} /\ bounds[1] = req.spot /\ bounds[Len(bounds)] = End(req)
    BY Zenon, Finished
  <1>2. PICK l \in Nat : Len(bounds) = l + 1 /\ Len(bounds) - 1 = l
    BY SMT, <1>1
  <1>3. /\ Len(Periods) = l
        /\ \A n \in 1..l : Periods[n][1] = bounds[n] /\ Periods[n][2] = bounds[n + 1]
    BY <1>2 DEF Periods
  <1>4. \A n \in 1..l + 1 : bounds[n] \in Int
    BY <1>1, <1>2
  <1> DEFINE y(s, t) == YearFrac(dc, s, t, req.cal)
             x(n) == y(req.spot, bounds[n + 1])
             g == [n \in 0..l |-> x(n)]
  <1>5. \A n \in 0..l : x(n) = IF n = 0 THEN 0 ELSE x(n - 1) + YearFrac(dc, Periods[n][1], Periods[n][2], req.cal)
    <2> TAKE n \in 0..l
    <2>1. PICK a \in Int : a = req.spot /\ a = bounds[1]
      <3>1. 1 \in 1..l + 1 BY SMT
      <3> QED BY Zenon, <3>1, <1>1, <1>4
    <2>2. CASE n = 0
      <3>1. n + 1 = 1 BY SMT, <2>2
      <3>2. x(n) = y(a, a)
        BY Zenon, <3>1, <2>1
      <3>3. y(a, a) \in Int /\ y(a, a) + y(a, a) = y(a, a)
        BY Zenon, YearFracAdds
      <3>4. y(a, a) = 0
        <4>1. \A w \in Int : w + w = w => w = 0
          BY SMT
        <4> QED BY Zenon, <4>1, <3>3
      <3> QED BY Zenon, <3>2, <3>4, <2>2
    <2>3. CASE n # 0
      <3>1. n \in 1..l /\ n \in 1..l + 1 /\ n + 1 \in 1..l + 1 /\ (n - 1) + 1 = n
        BY SMT, <2>3
      <3>2. bounds[n] \in Int /\ bounds[n + 1] \in Int
        BY Zenon, <3>1, <1>4
      <3>3. y(a, bounds[n]) + y(bounds[n], bounds[n + 1]) = y(a, bounds[n + 1])
        BY Zenon, <3>2, YearFracAdds
      <3>4. x(n - 1) = y(a, bounds[n])
        BY Zenon, <3>1, <2>1
      <3> QED BY Zenon, <3>1, <3>3, <3>4, <2>1, <2>3, <1>3
    <2> QED BY Zenon, <2>2, <2>3
  <1>6. Totals(dc, g)
    <2> HIDE DEF x
    <2>1. \A n \in 0..l : n # 0 => n - 1 \in 0..l
      BY SMT
    <2>2. \A n \in 0..l : g[n] = IF n = 0 THEN 0 ELSE g[n - 1] + YearFrac(dc, Periods[n][1], Periods[n][2], req.cal)
      BY Zenon, <1>5, <2>1
    <2>3. g = [n \in 0..l |-> IF n = 0 THEN 0 ELSE g[n - 1] + YearFrac(dc, Periods[n][1], Periods[n][2], req.cal)]
      BY Zenon, <2>2
    <2> QED BY Zenon, <2>3, <1>3 DEF Totals
  <1>7. Accrued(dc) = CHOOSE f : Totals(dc, f)
    BY DEF Accrued, Totals
  <1>8. PICK f : f = Accrued(dc) /\ Totals(dc, f)
    <2> HIDE DEF g
    <2> QED BY Zenon, <1>6, <1>7
  <1>9. \A n \in 0..l : f[n] = IF n = 0 THEN 0 ELSE f[n - 1] + YearFrac(dc, Periods[n][1], Periods[n][2], req.cal)
    <2>1. f = [n \in 0..l |-> IF n = 0 THEN 0 ELSE f[n - 1] + YearFrac(dc, Periods[n][1], Periods[n][2], req.cal)]
      BY Zenon, <1>8, <1>3 DEF Totals
    <2> QED BY Zenon, <2>1
  <1> HIDE DEF x, g
  <1> DEFINE T == {n \in Nat : n \in 0..l /\ f[n] # x(n)}
  <1>10. T = {}
    <2>1. SUFFICES ASSUME T # {} PROVE FALSE
      BY Zenon
    <2>2. PICK n \in T : \A m \in T : n <= m
      <3>1. T \in SUBSET Nat BY Zenon
      <3> HIDE DEF T
      <3> QED BY Zenon, <2>1, <3>1, Least
    <2>3. n \in Nat /\ n \in 0..l /\ f[n] # x(n)
      BY Zenon, <2>2
    <2>4. n # 0
      BY Zenon, <2>3, <1>5, <1>9
    <2>5. n - 1 \in Nat /\ n - 1 \in 0..l /\ ~(n <= n - 1)
      BY SMT, <2>3, <2>4
    <2>6. f[n - 1] = x(n - 1)
      BY Zenon, <2>2, <2>5
    <2> QED BY Zenon, <2>3, <2>4, <2>6, <1>5, <1>9
  <1>11. l \in 0..l
    BY SMT
  <1>12. f[l] = x(l)
    BY Zenon, <1>10, <1>11
  <1>13. x(l) = YearFrac(dc, req.spot, End(req), req.cal)
    BY Zenon, <1>1, <1>2 DEF x
  <1> QED BY Zenon, <1>3, <1>8, <1>12, <1>13

(* The periods of a finished schedule accrue, between them, exactly what its span accrues: no *)
(* day is accrued twice or lost at a boundary, under any day count that looks at days one by  *)
(* one, on any calendar and for any rule, short steps that are moved back included.           *)
THEOREM PeriodsAccrueTheSpan == Spec => []AccrualsAddUp
  <1>1. ScheduleInv => AccrualsAddUp
    BY Zenon, Telescopes DEF AccrualsAddUp, Proper
  <1> QED BY PTL, <1>1, ScheduleInvariant


------------------------------------------------------------------------------
(* Functions made one place after another. *)

LEMMA SetInduction ==
    ASSUME NEW P, 0 \in P, \A n \in Nat : n \in P => n + 1 \in P
    PROVE  Nat \subseteq P
  <1> DEFINE T == {n \in Nat : n \notin P}
  <1>1. T = {}
    <2>1. SUFFICES ASSUME T # {} PROVE FALSE
      BY Zenon
    <2>2. PICK n \in T : \A m \in T : n <= m
      <3>1. T \in SUBSET Nat BY Zenon
      <3> HIDE DEF T
      <3> QED BY Zenon, <2>1, <3>1, Least
    <2>3. n \in Nat /\ n \notin P /\ n # 0
      BY Zenon, <2>2
    <2>4. n - 1 \in Nat /\ ~(n <= n - 1) /\ (n - 1) + 1 = n
      BY SMT, <2>3
    <2>5. n - 1 \in P
      BY Zenon, <2>2, <2>4
    <2> QED BY Zenon, <2>3, <2>4, <2>5
  <1> QED BY Zenon, <1>1

\* The filter of a sequence, place by place.
IsFilter(f, n, seq, S) ==
    f = [i \in 0..n |-> IF i = 0 THEN << >> ELSE IF seq[i] \in S THEN Append(f[i-1], seq[i]) ELSE f[i-1]]

LEMMA FilterExists == ASSUME NEW n \in Nat, NEW seq, NEW S PROVE \E f : IsFilter(f, n, seq, S)
  <1> DEFINE op(i, q) == IF seq[i] \in S THEN Append(q, seq[i]) ELSE q
             P == {w \in Nat : \E f : IsFilter(f, w, seq, S)}
  <1>0. \A f, w : IsFilter(f, w, seq, S) <=> f = [i \in 0..w |-> IF i = 0 THEN << >> ELSE op(i, f[i-1])]
    BY Zenon DEF IsFilter
  <1> HIDE DEF op
  <1>1. 0 \in P
    <2> DEFINE h == [i \in 0..0 |-> << >>]
    <2>1. \A i \in 0..0 : i = 0 BY SMT
    <2>2. h = [i \in 0..0 |-> IF i = 0 THEN << >> ELSE op(i, h[i-1])] BY Zenon, <2>1
    <2>3. 0 \in Nat BY SMT
    <2> HIDE DEF h
    <2> QED BY Zenon, <1>0, <2>2, <2>3
  <1>2. ASSUME NEW w \in Nat, w \in P PROVE w + 1 \in P
    <2>1. PICK h : h = [i \in 0..w |-> IF i = 0 THEN << >> ELSE op(i, h[i-1])]
      <3>1. PICK h : IsFilter(h, w, seq, S)
        BY Zenon, <1>2
      <3> QED BY Zenon, <3>1 DEF IsFilter, op
    <2> DEFINE g == [i \in 0..w+1 |-> IF i = 0 THEN << >> ELSE op(i, h[i-1])]
    <2>2. ASSUME NEW i \in 0..w+1, i # 0 PROVE g[i-1] = h[i-1]
      <3>1. i - 1 \in 0..w /\ i - 1 \in 0..w+1 BY SMT, <2>2
      <3>2. g[i-1] = IF i - 1 = 0 THEN << >> ELSE op(i - 1, h[(i-1)-1]) BY Zenon, <3>1
      <3>3. h[i-1] = IF i - 1 = 0 THEN << >> ELSE op(i - 1, h[(i-1)-1]) BY Zenon, <2>1, <3>1
      <3> QED BY Zenon, <3>2, <3>3
    <2>3. g = [i \in 0..w+1 |-> IF i = 0 THEN << >> ELSE op(i, g[i-1])] BY Zenon, <2>2
    <2>4. w + 1 \in Nat BY SMT
    <2> HIDE DEF g
    <2> QED BY Zenon, <1>0, <2>3, <2>4
  <1>3. n \in P
    <2> HIDE DEF P
    <2> QED BY Zenon, <1>1, <1>2, SetInduction
  <1> QED BY Zenon, <1>3

\* A date moved on by open days, one after another; and back.
IsOn(f, n, s, c) == f = [i \in 0..n |-> IF i = 0 THEN s ELSE RollForward(c, f[i-1] + 1)]
IsBack(f, n, s, c) == f = [i \in 0..n |-> IF i = 0 THEN s ELSE RollBack(c, f[i-1] - 1)]

LEMMA OnExists == ASSUME NEW n \in Nat, NEW s, NEW c PROVE \E f : IsOn(f, n, s, c)
  <1> DEFINE op(x) == RollForward(c, x + 1)
             P == {w \in Nat : \E f : IsOn(f, w, s, c)}
  <1>0. \A f, w : IsOn(f, w, s, c) <=> f = [i \in 0..w |-> IF i = 0 THEN s ELSE op(f[i-1])]
    BY Zenon DEF IsOn
  <1> HIDE DEF op
  <1>1. 0 \in P
    <2> DEFINE h == [i \in 0..0 |-> s]
    <2>1. \A i \in 0..0 : i = 0 BY SMT
    <2>2. h = [i \in 0..0 |-> IF i = 0 THEN s ELSE op(h[i-1])] BY Zenon, <2>1
    <2>3. 0 \in Nat BY SMT
    <2> HIDE DEF h
    <2> QED BY Zenon, <1>0, <2>2, <2>3
  <1>2. ASSUME NEW w \in Nat, w \in P PROVE w + 1 \in P
    <2>1. PICK h : h = [i \in 0..w |-> IF i = 0 THEN s ELSE op(h[i-1])]
      <3>1. PICK h : IsOn(h, w, s, c)
        BY Zenon, <1>2
      <3> QED BY Zenon, <3>1 DEF IsOn, op
    <2> DEFINE g == [i \in 0..w+1 |-> IF i = 0 THEN s ELSE op(h[i-1])]
    <2>2. ASSUME NEW i \in 0..w+1, i # 0 PROVE g[i-1] = h[i-1]
      <3>1. i - 1 \in 0..w /\ i - 1 \in 0..w+1 BY SMT, <2>2
      <3>2. g[i-1] = IF i - 1 = 0 THEN s ELSE op(h[(i-1)-1]) BY Zenon, <3>1
      <3>3. h[i-1] = IF i - 1 = 0 THEN s ELSE op(h[(i-1)-1]) BY Zenon, <2>1, <3>1
      <3> QED BY Zenon, <3>2, <3>3
    <2>3. g = [i \in 0..w+1 |-> IF i = 0 THEN s ELSE op(g[i-1])] BY Zenon, <2>2
    <2>4. w + 1 \in Nat BY SMT
    <2> HIDE DEF g
    <2> QED BY Zenon, <1>0, <2>3, <2>4
  <1>3. n \in P
    <2> HIDE DEF P
    <2> QED BY Zenon, <1>1, <1>2, SetInduction
  <1> QED BY Zenon, <1>3

\* Two open days back.
LEMMA TwoBack ==
    ASSUME NEW c, NEW s
    PROVE  AdvanceBd(c, s, -2) = RollBack(c, RollBack(c, s - 1) - 1)
  <1> DEFINE a == RollBack(c, s - 1)
             b == RollBack(c, a - 1)
             g == [i \in 0..2 |-> IF i = 0 THEN s ELSE IF i = 1 THEN a ELSE b]
  <1>1. \A i \in 0..2 : i = 0 \/ i = 1 \/ i = 2
    BY SMT
  <1>2. 0 \in 0..2 /\ 1 \in 0..2 /\ 2 \in 0..2 /\ 1 - 1 = 0 /\ 2 - 1 = 1 /\ 1 # 0 /\ 2 # 0 /\ 2 # 1
    BY SMT
  <1>3. IsBack(g, 2, s, c)
    <2>1. g[0] = s /\ g[1] = a /\ g[2] = b
      BY Zenon, <1>2
    <2>2. \A i \in 0..2 : g[i] = IF i = 0 THEN s ELSE RollBack(c, g[i-1] - 1)
      BY Zenon, <1>1, <1>2, <2>1
    <2>3. g = [i \in 0..2 |-> IF i = 0 THEN s ELSE RollBack(c, g[i-1] - 1)]
      BY Zenon, <2>2
    <2> HIDE DEF g
    <2> QED BY Zenon, <2>3 DEF IsBack
  <1>4. PICK f : f = (CHOOSE h : IsBack(h, 2, s, c)) /\ IsBack(f, 2, s, c)
    <2> HIDE DEF g
    <2> QED BY Zenon, <1>3
  <1>5. AdvanceBd(c, s, -2) = f[2]
    <2>1. PICK n \in Int : n = -2 /\ -n = 2 /\ n # 0 /\ ~(n > 0)
      <3>1. -2 \in Int
        BY SMT
      <3>2. \A n \in Int : n = -2 => n + 2 = 0 /\ n # 0 /\ ~(n > 0)
        BY SMT
      <3>3. \A n \in Int : n + 2 = 0 => -n = 2
        <4> TAKE n \in Int
        <4>1. -n = 0 - n
          BY SMT
        <4>2. n + 2 = 0 => 0 - n = 2
          BY SMT
        <4> QED BY Zenon, <4>1, <4>2
      <3> QED BY Zenon, <3>1, <3>2, <3>3
    <2>2. AdvanceBd(c, s, n) = (CHOOSE h : IsBack(h, 2, s, c))[2]
      BY Zenon, <2>1 DEF AdvanceBd, IsBack
    <2> QED BY Zenon, <1>4, <2>1, <2>2
  <1>6. \A i \in 0..2 : f[i] = IF i = 0 THEN s ELSE RollBack(c, f[i-1] - 1)
    <2>1. f = [i \in 0..2 |-> IF i = 0 THEN s ELSE RollBack(c, f[i-1] - 1)]
      BY Zenon, <1>4 DEF IsBack
    <2> QED BY Zenon, <2>1
  <1>7. f[0] = s /\ f[1] = a /\ f[2] = b
    BY Zenon, <1>2, <1>6
  <1> QED BY Zenon, <1>5, <1>7

------------------------------------------------------------------------------
(* What is picked from a sequence. *)

\* q picks, in order, the members of S among the first n of seq: h says where each comes from.
Picks(q, h, seq, S, n) ==
    /\ \A i \in 1..Len(q) : h[i] \in 1..n /\ q[i] = seq[h[i]] /\ seq[h[i]] \in S
    /\ \A i \in 1..Len(q), j \in 1..Len(q) : i < j => h[i] < h[j]
    /\ \A m \in 1..n : seq[m] \in S => \E i \in 1..Len(q) : h[i] = m

LEMMA PicksNext ==
    ASSUME NEW V, NEW seq, NEW S, NEW n \in Nat, seq[n + 1] \in V, NEW q \in Seq(V), NEW h, Picks(q, h, seq, S, n)
    PROVE  \E g : Picks(IF seq[n + 1] \in S THEN Append(q, seq[n + 1]) ELSE q, g, seq, S, n + 1)
  <1>0. PICK l \in Nat : l = Len(q)
    BY SMT
  <1>1. /\ \A i \in 1..l : h[i] \in 1..n /\ q[i] = seq[h[i]] /\ seq[h[i]] \in S
        /\ \A i \in 1..l, j \in 1..l : i < j => h[i] < h[j]
        /\ \A m \in 1..n : seq[m] \in S => \E i \in 1..l : h[i] = m
    BY Zenon, <1>0 DEF Picks
  <1>2. \A m \in 1..n + 1 : m \in 1..n \/ m = n + 1
    BY SMT
  <1>3. \A m \in 1..n : m \in 1..n + 1
    BY SMT
  <1>4. CASE seq[n + 1] \notin S
    <2>1. \A m \in 1..n + 1 : seq[m] \in S => \E i \in 1..l : h[i] = m
      BY Zenon, <1>1, <1>2, <1>4
    <2>2. Picks(q, h, seq, S, n + 1)
      BY Zenon, <1>0, <1>1, <1>3, <2>1 DEF Picks
    <2> QED BY Zenon, <1>4, <2>2
  <1>5. CASE seq[n + 1] \in S
    <2> DEFINE g == [i \in 1..l + 1 |-> IF i = l + 1 THEN n + 1 ELSE h[i]]
    <2>1. PICK p : p = Append(q, seq[n + 1]) /\ Len(p) = l + 1 /\ p[l + 1] = seq[n + 1] /\ \A i \in 1..l : p[i] = q[i]
      <3>1. PICK x \in V : x = seq[n + 1]
        BY Zenon
      <3>2. Len(Append(q, x)) = l + 1 /\ Append(q, x)[l + 1] = x /\ \A i \in 1..l : Append(q, x)[i] = q[i]
        BY SMT, <1>0
      <3> QED BY Zenon, <3>1, <3>2
    <2>2. \A i \in 1..l + 1 : i = l + 1 \/ (i \in 1..l /\ i # l + 1)
      BY SMT
    <2>3. \A i \in 1..l : i \in 1..l + 1 /\ i # l + 1
      BY SMT
    <2>4. l + 1 \in 1..l + 1 /\ n + 1 \in 1..n + 1
      BY SMT
    <2>5. g[l + 1] = n + 1 /\ \A i \in 1..l : g[i] = h[i]
      BY Zenon, <2>3, <2>4
    <2> HIDE DEF g
    <2>6. \A i \in 1..l + 1 : g[i] \in 1..n + 1 /\ p[i] = seq[g[i]] /\ seq[g[i]] \in S
      BY Zenon, <1>1, <1>3, <1>5, <2>1, <2>2, <2>4, <2>5
    <2>7. ASSUME NEW i \in 1..l + 1, NEW j \in 1..l + 1, i < j PROVE g[i] < g[j]
      <3>1. i \in 1..l
        BY SMT, <2>7
      <3>2. CASE j = l + 1
        <4>1. g[i] \in 1..n /\ g[j] = n + 1
          BY Zenon, <1>1, <2>5, <3>1, <3>2
        <4> QED BY SMT, <4>1
      <3>3. CASE j \in 1..l
        BY Zenon, <1>1, <2>5, <3>1, <3>3, <2>7
      <3> QED BY Zenon, <2>2, <3>2, <3>3
    <2>8. ASSUME NEW m \in 1..n + 1, seq[m] \in S PROVE \E i \in 1..l + 1 : g[i] = m
      <3>1. CASE m = n + 1
        BY Zenon, <2>4, <2>5, <3>1
      <3>2. CASE m \in 1..n
        BY Zenon, <1>1, <2>3, <2>5, <2>8, <3>2
      <3> QED BY Zenon, <1>2, <3>1, <3>2
    <2>9. Picks(p, g, seq, S, n + 1)
      BY Zenon, <2>1, <2>6, <2>7, <2>8 DEF Picks
    <2> QED BY Zenon, <1>5, <2>1, <2>9
  <1> QED BY Zenon, <1>4, <1>5

\* The filter picks.
LEMMA AmongPicks ==
    ASSUME NEW V, NEW seq \in Seq(V), NEW S
    PROVE  Among(seq, S) \in Seq(V) /\ \E h : Picks(Among(seq, S), h, seq, S, Len(seq))
  <1>0. PICK l \in Nat : l = Len(seq)
    BY SMT
  <1>1. \A i \in 1..l : seq[i] \in V
    BY <1>0
  <1>2. PICK f : f = (CHOOSE g : IsFilter(g, l, seq, S)) /\ IsFilter(f, l, seq, S)
    BY Zenon, FilterExists
  <1>3. Among(seq, S) = f[l]
    <2>1. Among(seq, S) = (CHOOSE g : IsFilter(g, l, seq, S))[l]
      BY Zenon, <1>0 DEF Among, IsFilter
    <2> QED BY Zenon, <1>2, <2>1
  <1>4. \A i \in 0..l : f[i] = IF i = 0 THEN << >> ELSE IF seq[i] \in S THEN Append(f[i-1], seq[i]) ELSE f[i-1]
    <2>1. f = [i \in 0..l |-> IF i = 0 THEN << >> ELSE IF seq[i] \in S THEN Append(f[i-1], seq[i]) ELSE f[i-1]]
      BY Zenon, <1>2 DEF IsFilter
    <2> QED BY Zenon, <2>1
  <1> DEFINE Good(n) == f[n] \in Seq(V) /\ \E h : Picks(f[n], h, seq, S, n)
             P == {n \in Nat : n \in 0..l => Good(n)}
  <1>5. 0 \in P
    <2>1. 0 \in 0..l /\ 0 \in Nat
      BY SMT
    <2>2. f[0] = << >>
      BY Zenon, <1>4, <2>1
    <2>3. << >> \in Seq(V) /\ Len(<< >>) = 0
      BY SMT
    <2>4. Picks(<< >>, << >>, seq, S, 0)
      <3>1. 1..0 = {}
        BY SMT
      <3> QED BY Zenon, <2>3, <3>1 DEF Picks
    <2> QED BY Zenon, <2>1, <2>2, <2>3, <2>4
  <1>6. ASSUME NEW n \in Nat, n \in P PROVE n + 1 \in P
    <2>1. SUFFICES ASSUME n + 1 \in 0..l PROVE Good(n + 1)
      <3>1. n + 1 \in Nat BY SMT
      <3> QED BY Zenon, <3>1
    <2>2. n \in 0..l /\ n + 1 \in 1..l /\ n + 1 # 0 /\ (n + 1) - 1 = n
      BY SMT, <2>1
    <2>3. f[n] \in Seq(V) /\ \E h : Picks(f[n], h, seq, S, n)
      BY Zenon, <1>6, <2>2
    <2>4. f[n + 1] = IF seq[n + 1] \in S THEN Append(f[n], seq[n + 1]) ELSE f[n]
      BY Zenon, <1>4, <2>1, <2>2
    <2>5. seq[n + 1] \in V
      BY Zenon, <1>1, <2>2
    <2>6. f[n + 1] \in Seq(V)
      <3>1. Append(f[n], seq[n + 1]) \in Seq(V)
        BY <2>3, <2>5
      <3> QED BY Zenon, <2>3, <2>4, <3>1
    <2>7. \E g : Picks(f[n + 1], g, seq, S, n + 1)
      <3>1. PICK q \in Seq(V) : q = f[n] /\ \E h : Picks(q, h, seq, S, n)
        BY Zenon, <2>3
      <3>2. \E g : Picks(IF seq[n + 1] \in S THEN Append(q, seq[n + 1]) ELSE q, g, seq, S, n + 1)
        <4>1. PICK h : Picks(q, h, seq, S, n)
          BY Zenon, <3>1
        <4> QED BY Zenon, <2>5, <4>1, PicksNext
      <3> QED BY Zenon, <2>4, <3>1, <3>2
    <2> QED BY Zenon, <2>6, <2>7
  <1>7. l \in P
    <2> HIDE DEF P
    <2> QED BY Zenon, <1>5, <1>6, SetInduction
  <1>8. l \in 0..l
    BY SMT
  <1> QED BY Zenon, <1>0, <1>3, <1>7, <1>8
------------------------------------------------------------------------------
(* Open days in order, and overnight fixings. *)

\* q lists the open days of [s, t).
Lists(q, c, s, t) ==
    /\ q \in Seq(Int)
    /\ \A i \in 1..Len(q) : q[i] \in s..t - 1 /\ q[i] \in c
    /\ \A i \in 1..Len(q), j \in 1..Len(q) : i < j => q[i] < q[j]
    /\ \A d \in s..t - 1 : d \in c => \E i \in 1..Len(q) : q[i] = d

LEMMA BusinessDaysList ==
    ASSUME NEW c, NEW s \in Int, NEW t \in Int, s <= t
    PROVE  Lists(BusinessDays(s, t, c), c, s, t)
  <1> DEFINE seq == [i \in 1..t - s |-> s + i - 1]
             S == {d \in s..t - 1 : IsBusinessDay(c, d)}
  <1>1. PICK n \in Nat : n = t - s
    BY SMT
  <1>2. \A i \in 1..n : s + i - 1 \in Int
    BY SMT
  <1>3. seq \in Seq(Int) /\ Len(seq) = n /\ \A i \in 1..n : seq[i] = s + i - 1
    BY <1>1, <1>2
  <1>4. BusinessDays(s, t, c) = Among(seq, S)
    BY Zenon DEF BusinessDays
  <1>5. \A d : d \in S <=> d \in s..t - 1 /\ d \in c
    BY Zenon DEF IsBusinessDay
  <1> HIDE DEF seq, S
  <1>6. PICK q, h : q = Among(seq, S) /\ q \in Seq(Int) /\ Picks(q, h, seq, S, n)
    BY Zenon, <1>3, AmongPicks
  <1>7. /\ \A i \in 1..Len(q) : h[i] \in 1..n /\ q[i] = seq[h[i]] /\ seq[h[i]] \in S
        /\ \A i \in 1..Len(q), j \in 1..Len(q) : i < j => h[i] < h[j]
        /\ \A m \in 1..n : seq[m] \in S => \E i \in 1..Len(q) : h[i] = m
    BY Zenon, <1>6 DEF Picks
  <1>8. \A i \in 1..Len(q) : q[i] \in s..t - 1 /\ q[i] \in c /\ h[i] \in 1..n /\ q[i] = s + h[i] - 1
    BY Zenon, <1>3, <1>5, <1>7
  <1>9. ASSUME NEW i \in 1..Len(q), NEW j \in 1..Len(q), i < j PROVE q[i] < q[j]
    <2>1. h[i] < h[j] /\ h[i] \in 1..n /\ h[j] \in 1..n /\ q[i] = s + h[i] - 1 /\ q[j] = s + h[j] - 1
      BY Zenon, <1>7, <1>8, <1>9
    <2> QED BY SMT, <2>1
  <1>10. ASSUME NEW d \in s..t - 1, d \in c PROVE \E i \in 1..Len(q) : q[i] = d
    <2>1. PICK m \in 1..n : d = s + m - 1
      <3>1. d - s + 1 \in 1..n /\ d = s + (d - s + 1) - 1
        BY SMT, <1>1
      <3> QED BY Zenon, <3>1
    <2>2. seq[m] = d /\ d \in S
      BY Zenon, <1>3, <1>5, <1>10, <2>1
    <2>3. PICK i \in 1..Len(q) : h[i] = m
      BY Zenon, <1>7, <2>2
    <2> QED BY Zenon, <1>7, <2>2, <2>3
  <1> QED BY Zenon, <1>4, <1>6, <1>8, <1>9, <1>10 DEF Lists

\* No day of [s, t) is open.
Shut(c, s, t) == \A z \in s..t - 1 : z \notin c

\* The first open day on or after a day.
LEMMA RollsTo ==
    ASSUME NEW c, NEW s \in Int, Served(c, s)
    PROVE  /\ RollForward(c, s) \in Int /\ RollForward(c, s) \in c /\ s <= RollForward(c, s)
           /\ RollForward(c, s) <= s + kMaxClosure /\ Shut(c, s, RollForward(c, s))
           /\ \A g \in Int : s <= g /\ g \in c => RollForward(c, s) <= g
           /\ \A g \in Int : s <= g /\ g \in c /\ Shut(c, s, g) => RollForward(c, s) = g
  <1>1. OpenAfter(c, s, RollForward(c, s))
    BY Zenon, Forward
  <1>2. PICK f : f = RollForward(c, s)
    BY Zenon
  <1>3. f \in s..s + kMaxClosure /\ f \in c /\ \A z \in s..f - 1 : z \notin c
    BY Zenon, <1>1, <1>2 DEF OpenAfter
  <1>4. f \in Int /\ s <= f /\ f <= s + kMaxClosure
    BY SMT, <1>3, Closures
  <1>5. ASSUME NEW g \in Int, s <= g, g \in c PROVE f <= g
    <2>1. ~(g \in s..f - 1)
      BY Zenon, <1>3, <1>5
    <2> QED BY SMT, <2>1, <1>4, <1>5
  <1>6. ASSUME NEW g \in Int, s <= g, g \in c, Shut(c, s, g) PROVE f = g
    <2>1. ~(f \in s..g - 1)
      BY Zenon, <1>3, <1>6 DEF Shut
    <2>2. f <= g
      BY Zenon, <1>5, <1>6
    <2> QED BY SMT, <2>1, <2>2, <1>4
  <1> QED BY Zenon, <1>2, <1>3, <1>4, <1>5, <1>6 DEF Shut

\* The last open day on or before a day.
LEMMA RollsBackTo ==
    ASSUME NEW c, NEW s \in Int, Served(c, s)
    PROVE  /\ RollBack(c, s) \in Int /\ RollBack(c, s) \in c /\ RollBack(c, s) <= s
           /\ s - kMaxClosure <= RollBack(c, s) /\ Shut(c, RollBack(c, s) + 1, s + 1)
           /\ \A g \in Int : g <= s /\ g \in c /\ Shut(c, g + 1, s + 1) => RollBack(c, s) = g
  <1>1. OpenBefore(c, s, RollBack(c, s))
    BY Zenon, Backward
  <1>2. PICK b : b = RollBack(c, s)
    BY Zenon
  <1>3. b \in s - kMaxClosure..s /\ b \in c /\ \A z \in b + 1..s : z \notin c
    BY Zenon, <1>1, <1>2 DEF OpenBefore
  <1>4. b \in Int /\ b <= s /\ s - kMaxClosure <= b /\ (s + 1) - 1 = s
    BY SMT, <1>3, Closures
  <1>5. Shut(c, b + 1, s + 1)
    BY Zenon, <1>3, <1>4 DEF Shut
  <1>6. ASSUME NEW g \in Int, g <= s, g \in c, Shut(c, g + 1, s + 1) PROVE b = g
    <2>1. ~(b \in g + 1..s)
      BY Zenon, <1>3, <1>4, <1>6 DEF Shut
    <2>2. ~(g \in b + 1..s)
      BY Zenon, <1>3, <1>6
    <2> QED BY SMT, <2>1, <2>2, <1>4, <1>6
  <1> QED BY Zenon, <1>2, <1>3, <1>4, <1>5, <1>6

\* fx is the open days whose fixings cover [start, end): the last on or before the start, and those after.
Covers(fx, c, start, end) ==
    /\ fx \in Seq(Int) /\ Len(fx) \in Nat \ {0}
    /\ \A i \in 1..Len(fx) : fx[i] \in Int /\ fx[i] \in c /\ fx[i] < end /\ start - kMaxClosure <= fx[i]
    /\ fx[1] <= start /\ (start \in c => fx[1] = start) /\ \A i \in 1..Len(fx) : i # 1 => start < fx[i]
    /\ \A i \in 1..Len(fx) - 1 : fx[i] < fx[i + 1] /\ Shut(c, fx[i] + 1, fx[i + 1])
    /\ Shut(c, fx[Len(fx)] + 1, end)

\* Between two days a list has next to each other, and after its last, none is open.
LEMMA ListGaps ==
    ASSUME NEW c, NEW s \in Int, NEW t \in Int, NEW q, Lists(q, c, s, t), Len(q) # 0
    PROVE  /\ \A i \in 1..Len(q) - 1 : q[i] < q[i + 1] /\ Shut(c, q[i] + 1, q[i + 1])
           /\ Shut(c, s, q[1]) /\ Shut(c, q[Len(q)] + 1, t)
  <1>0. /\ q \in Seq(Int)
        /\ \A i \in 1..Len(q) : q[i] \in s..t - 1 /\ q[i] \in c
        /\ \A i \in 1..Len(q), j \in 1..Len(q) : i < j => q[i] < q[j]
        /\ \A d \in s..t - 1 : d \in c => \E i \in 1..Len(q) : q[i] = d
    BY Zenon DEF Lists
  <1>1. PICK l \in Nat : l = Len(q) /\ l # 0
    BY SMT, <1>0
  <1>2. \A i \in 1..l : q[i] \in Int /\ s <= q[i] /\ q[i] <= t - 1
    BY SMT, <1>0, <1>1
  <1>3. ASSUME NEW i \in 1..l - 1 PROVE q[i] < q[i + 1] /\ Shut(c, q[i] + 1, q[i + 1])
    <2>1. i \in 1..l /\ i + 1 \in 1..l /\ i < i + 1
      BY SMT
    <2>2. q[i] < q[i + 1]
      BY Zenon, <2>1, <1>0, <1>1
    <2>3. ASSUME NEW z \in q[i] + 1..q[i + 1] - 1, z \in c PROVE FALSE
      <3>1. z \in Int /\ q[i] < z /\ z < q[i + 1] /\ z \in s..t - 1
        BY SMT, <2>1, <1>2, <2>3
      <3>2. PICK j \in 1..l : q[j] = z
        BY Zenon, <3>1, <2>3, <1>0, <1>1
      <3>3. ~(j < i) /\ ~(i + 1 < j) /\ j # i /\ j # i + 1
        <4>1. j < i => q[j] < q[i]
          BY Zenon, <2>1, <1>0, <1>1
        <4>2. i + 1 < j => q[i + 1] < q[j]
          BY Zenon, <2>1, <1>0, <1>1
        <4> QED BY SMT, <4>1, <4>2, <3>1, <3>2, <2>1, <1>2
      <3> QED BY SMT, <3>3
    <2> QED BY Zenon, <2>2, <2>3 DEF Shut
  <1>4. 1 \in 1..l /\ l \in 1..l
    BY SMT, <1>1
  <1>5. ASSUME NEW z \in s..q[1] - 1, z \in c PROVE FALSE
    <2>1. z \in Int /\ z < q[1] /\ z \in s..t - 1
      BY SMT, <1>2, <1>4
    <2>2. PICK j \in 1..l : q[j] = z
      BY Zenon, <2>1, <1>5, <1>0, <1>1
    <2>3. 1 < j => q[1] < q[j]
      BY Zenon, <1>0, <1>1, <1>4
    <2> QED BY SMT, <2>1, <2>2, <2>3, <1>2, <1>4
  <1>6. ASSUME NEW z \in q[l] + 1..t - 1, z \in c PROVE FALSE
    <2>1. z \in Int /\ q[l] < z /\ z \in s..t - 1
      BY SMT, <1>2, <1>4
    <2>2. PICK j \in 1..l : q[j] = z
      BY Zenon, <2>1, <1>6, <1>0, <1>1
    <2>3. j < l => q[j] < q[l]
      BY Zenon, <1>0, <1>1, <1>4
    <2> QED BY SMT, <2>1, <2>2, <2>3, <1>2, <1>4
  <1> QED BY Zenon, <1>1, <1>3, <1>5, <1>6 DEF Shut

\* From an open day to the next there is one open day.
LEMMA OneDay ==
    ASSUME NEW c, NEW a \in Int, NEW b \in Int, a \in c, a < b, Shut(c, a + 1, b)
    PROVE  BusinessDays(a, b, c) = <<a>>
  <1>1. PICK q : q = BusinessDays(a, b, c) /\ Lists(q, c, a, b)
    <2>1. a <= b BY SMT
    <2> QED BY Zenon, <2>1, BusinessDaysList
  <1>2. /\ q \in Seq(Int)
        /\ \A i \in 1..Len(q) : q[i] \in a..b - 1 /\ q[i] \in c
        /\ \A i \in 1..Len(q), j \in 1..Len(q) : i < j => q[i] < q[j]
        /\ \A d \in a..b - 1 : d \in c => \E i \in 1..Len(q) : q[i] = d
    BY Zenon, <1>1 DEF Lists
  <1>3. \A i \in 1..Len(q) : q[i] = a
    <2> TAKE i \in 1..Len(q)
    <2>1. q[i] \in a..b - 1 /\ q[i] \in c
      BY Zenon, <1>2
    <2>2. ~(q[i] \in a + 1..b - 1)
      BY Zenon, <2>1 DEF Shut
    <2> QED BY SMT, <2>1, <2>2
  <1>4. PICK i \in 1..Len(q) : q[i] = a
    <2>1. a \in a..b - 1 BY SMT
    <2> QED BY Zenon, <2>1, <1>2
  <1>5. PICK l \in Nat : l = Len(q)
    BY SMT, <1>2
  <1>6. Len(q) = 1
    <2>1. SUFFICES ASSUME Len(q) # 1 PROVE FALSE
      BY Zenon
    <2>2. 1 \in 1..Len(q) /\ 2 \in 1..Len(q) /\ 1 < 2
      <3>1. i \in 1..l /\ l # 1
        BY Zenon, <2>1, <1>5
      <3>2. 1 \in 1..l /\ 2 \in 1..l /\ 1 < 2
        BY SMT, <3>1
      <3> QED BY Zenon, <3>2, <1>5
    <2>3. q[1] < q[2] /\ q[1] = a /\ q[2] = a
      BY Zenon, <2>2, <1>2, <1>3
    <2> QED BY SMT, <2>3
  <1>7. q = <<a>>
    <2>1. 1 \in 1..Len(q)
      BY SMT, <1>6
    <2>2. q[1] = a
      BY Zenon, <2>1, <1>3
    <2> QED BY SMT, <2>2, <1>2, <1>6
  <1> QED BY Zenon, <1>1, <1>7

\* Adding the day before to a list keeps it one.
FixDays(start, end, c) ==
    (IF IsBusinessDay(c, start) THEN << >> ELSE <<RollBack(c, start)>>) \o BusinessDays(start, end, c)

LEMMA FixDaysCover ==
    ASSUME NEW c, NEW start \in Int, NEW end \in Int, start < end, Served(c, start)
    PROVE  Covers(FixDays(start, end, c), c, start, end)
  <1>1. PICK q : q = BusinessDays(start, end, c) /\ Lists(q, c, start, end)
    <2>1. start <= end BY SMT
    <2> QED BY Zenon, <2>1, BusinessDaysList
  <1>2. /\ q \in Seq(Int)
        /\ \A i \in 1..Len(q) : q[i] \in start..end - 1 /\ q[i] \in c
        /\ \A i \in 1..Len(q), j \in 1..Len(q) : i < j => q[i] < q[j]
        /\ \A d \in start..end - 1 : d \in c => \E i \in 1..Len(q) : q[i] = d
    BY Zenon, <1>1 DEF Lists
  <1>3. PICK l \in Nat : l = Len(q)
    BY SMT, <1>2
  <1>4. \A i \in 1..l : q[i] \in Int /\ start <= q[i] /\ q[i] < end /\ start - kMaxClosure <= q[i] /\ q[i] \in c
    BY SMT, <1>2, <1>3, Closures
  <1>5. CASE start \in c
    <2>1. FixDays(start, end, c) = q
      <3>1. << >> \o q = q
        BY SMT, <1>2
      <3> QED BY Zenon, <3>1, <1>1, <1>5 DEF FixDays, IsBusinessDay
    <2>2. l # 0
      <3>1. start \in start..end - 1
        BY SMT
      <3>2. PICK i \in 1..l : q[i] = start
        BY Zenon, <3>1, <1>2, <1>3, <1>5
      <3> QED BY SMT, <3>2
    <2>3. 1 \in 1..l
      BY SMT, <2>2
    <2>4. q[1] = start
      <3>1. ~(start \in start..q[1] - 1)
        <4>1. Shut(c, start, q[1])
          BY Zenon, <2>2, <1>1, <1>3, ListGaps
        <4> QED BY Zenon, <4>1, <1>5 DEF Shut
      <3> QED BY SMT, <3>1, <2>3, <1>4
    <2>5. ASSUME NEW i \in 1..l, i # 1 PROVE start < q[i]
      <3>1. 1 < i
        BY SMT, <2>5
      <3>2. q[1] < q[i]
        BY Zenon, <3>1, <2>3, <1>2, <1>3
      <3> QED BY Zenon, <3>2, <2>4
    <2>6. /\ \A i \in 1..Len(q) - 1 : q[i] < q[i + 1] /\ Shut(c, q[i] + 1, q[i + 1])
          /\ Shut(c, q[Len(q)] + 1, end)
      BY Zenon, <2>2, <1>1, <1>3, ListGaps
    <2>7. q[1] <= start /\ l \in Nat \ {0}
      BY SMT, <2>4, <2>2
    <2> QED BY Zenon, <2>1, <2>4, <2>5, <2>6, <2>7, <1>2, <1>3, <1>4 DEF Covers
  <1>6. CASE start \notin c
    <2>1. PICK b \in Int : /\ b = RollBack(c, start) /\ b \in c /\ b <= start /\ start - kMaxClosure <= b
                           /\ Shut(c, b + 1, start + 1)
      <3>1. PICK b : b = RollBack(c, start)
        BY Zenon
      <3>2. b \in Int /\ b \in c /\ b <= start /\ start - kMaxClosure <= b /\ Shut(c, b + 1, start + 1)
        BY Zenon, <3>1, RollsBackTo
      <3> QED BY Zenon, <3>1, <3>2
    <2>2. b < start
      <3>1. b # start BY Zenon, <2>1, <1>6
      <3> QED BY SMT, <3>1, <2>1
    <2>3. PICK fx : fx = <<b>> \o q
      BY Zenon
    <2>4. /\ fx \in Seq(Int) /\ Len(fx) = l + 1 /\ fx[1] = b
          /\ \A i \in 1..l : fx[i + 1] = q[i]
      BY SMT, <2>3, <1>2, <1>3
    <2>5. FixDays(start, end, c) = fx
      BY Zenon, <2>1, <2>3, <1>1, <1>6 DEF FixDays, IsBusinessDay
    <2>6. \A i \in 1..l + 1 : i = 1 \/ \E j \in 1..l : i = j + 1
      <3> TAKE i \in 1..l + 1
      <3>1. i # 1 => i - 1 \in 1..l /\ i = (i - 1) + 1
        BY SMT
      <3> QED BY Zenon, <3>1
    <2>7. ASSUME NEW i \in 1..l + 1 PROVE fx[i] \in Int /\ fx[i] \in c /\ fx[i] < end /\ start - kMaxClosure <= fx[i]
      <3>1. b < end
        BY SMT, <2>2
      <3> QED BY Zenon, <3>1, <2>1, <2>4, <2>6, <1>4
    <2>8. ASSUME NEW i \in 1..l + 1, i # 1 PROVE start < fx[i]
      <3>1. PICK j \in 1..l : fx[i] = q[j]
        BY Zenon, <2>4, <2>6, <2>8
      <3>2. q[j] \in Int /\ start <= q[j] /\ q[j] # start
        BY Zenon, <1>4, <1>6
      <3>3. start < q[j]
        BY SMT, <3>2
      <3> QED BY Zenon, <3>1, <3>3
    <2>9. \A z : z \in b + 1..start => z \notin c
      <3>1. (start + 1) - 1 = start BY SMT
      <3> QED BY Zenon, <3>1, <2>1 DEF Shut
    <2>10. CASE l = 0
      <3>1. ASSUME NEW z \in b + 1..end - 1, z \in c PROVE FALSE
        <4>1. z \in b + 1..start \/ z \in start..end - 1
          BY SMT, <2>1
        <4>2. ~(z \in start..end - 1)
          <5>1. 1..l = {}
            BY SMT, <2>10
          <5> QED BY Zenon, <5>1, <3>1, <1>2, <1>3
        <4> QED BY Zenon, <4>1, <4>2, <3>1, <2>9
      <3>2. Len(fx) = 1 /\ l + 1 = 1 /\ Len(fx) \in Nat \ {0} /\ 1..Len(fx) - 1 = {}
        BY SMT, <2>4, <2>10
      <3>3. Shut(c, fx[Len(fx)] + 1, end)
        BY Zenon, <3>1, <3>2, <2>4 DEF Shut
      <3> QED BY Zenon, <3>2, <3>3, <2>1, <2>4, <2>5, <2>7, <2>8, <1>6 DEF Covers
    <2>11. CASE l # 0
      <3>1. 1 \in 1..l /\ l \in 1..l /\ l + 1 \in Nat \ {0} /\ (l + 1) - 1 = l
        BY SMT, <2>11
      <3>2. /\ \A i \in 1..l - 1 : q[i] < q[i + 1] /\ Shut(c, q[i] + 1, q[i + 1])
            /\ Shut(c, start, q[1]) /\ Shut(c, q[l] + 1, end)
        BY Zenon, <2>11, <1>1, <1>3, ListGaps
      <3>3. b < q[1] /\ Shut(c, b + 1, q[1])
        <4>1. b < q[1]
          BY SMT, <3>1, <2>2, <1>4
        <4>2. ASSUME NEW z \in b + 1..q[1] - 1, z \in c PROVE FALSE
          <5>1. z \in b + 1..start \/ z \in start..q[1] - 1
            BY SMT, <2>1, <3>1, <1>4
          <5> QED BY Zenon, <5>1, <4>2, <3>2, <2>9 DEF Shut
        <4> QED BY Zenon, <4>1, <4>2 DEF Shut
      <3>4. ASSUME NEW i \in 1..l PROVE fx[i] < fx[i + 1] /\ Shut(c, fx[i] + 1, fx[i + 1])
        <4>1. CASE i = 1
          <5>1. fx[i] = b /\ fx[i + 1] = q[1]
            BY Zenon, <4>1, <3>1, <2>4
          <5> QED BY Zenon, <5>1, <3>3
        <4>2. CASE i # 1
          <5>1. PICK j \in 1..l - 1 : i = j + 1 /\ j \in 1..l
            <6>1. i - 1 \in 1..l - 1 /\ i = (i - 1) + 1 /\ i - 1 \in 1..l
              BY SMT, <4>2
            <6> QED BY Zenon, <6>1
          <5>2. fx[i] = q[j] /\ fx[i + 1] = q[j + 1]
            BY Zenon, <5>1, <2>4
          <5> QED BY Zenon, <5>1, <5>2, <3>2
        <4> QED BY Zenon, <4>1, <4>2
      <3>5. Shut(c, fx[l + 1] + 1, end)
        BY Zenon, <3>1, <3>2, <2>4
      <3> QED BY Zenon, <3>1, <3>4, <3>5, <2>1, <2>4, <2>5, <2>7, <2>8, <1>6 DEF Covers
    <2> QED BY Zenon, <2>10, <2>11
  <1> QED BY Zenon, <1>5, <1>6

\* What one fixing earns of a window.
RowAt(c, start, end, f) ==
    [from |-> f, to |-> RollForward(c, f + 1), accStart |-> Later(f, start), accEnd |-> Earlier(RollForward(c, f + 1), end)]

LEMMA RowsAre ==
    ASSUME NEW c, NEW start \in Int, NEW end \in Int, start < end
    PROVE  FixingRows(start, end, c) = [i \in DOMAIN FixDays(start, end, c) |-> RowAt(c, start, end, FixDays(start, end, c)[i])]
  <1> DEFINE fx == FixDays(start, end, c)
             per == DailyPeriods(start, end, c)
             period(f) == [fixStart |-> f, fixEnd |-> RollForward(c, f + 1), accStart |-> Later(f, start),
                           accEnd |-> Earlier(RollForward(c, f + 1), end)]
  <1>1. per = [i \in DOMAIN fx |-> period(fx[i])]
    BY Zenon DEF DailyPeriods, FixDays
  <1>2. FixingRows(start, end, c) =
            [i \in DOMAIN per |->
                [from |-> per[i].fixStart, to |-> per[i].fixEnd, accStart |-> per[i].accStart, accEnd |-> per[i].accEnd]]
    BY Zenon DEF FixingRows
  <1> HIDE DEF fx, per
  <1>3. DOMAIN per = DOMAIN fx
    BY Zenon, <1>1
  <1>4. \A i \in DOMAIN fx : [from |-> per[i].fixStart, to |-> per[i].fixEnd, accStart |-> per[i].accStart,
                              accEnd |-> per[i].accEnd] = RowAt(c, start, end, fx[i])
    <2> TAKE i \in DOMAIN fx
    <2>0. PICK f, g, a, e : /\ f = fx[i] /\ g = RollForward(c, fx[i] + 1) /\ a = Later(fx[i], start)
                            /\ e = Earlier(RollForward(c, fx[i] + 1), end)
      BY Zenon
    <2>1. PICK p : p = per[i] /\ p = [fixStart |-> f, fixEnd |-> g, accStart |-> a, accEnd |-> e]
      BY Zenon, <1>1, <2>0
    <2>2. p.fixStart = f /\ p.fixEnd = g /\ p.accStart = a /\ p.accEnd = e
      BY ONLY <2>1
    <2> QED BY Zenon, <2>0, <2>1, <2>2 DEF RowAt
  <1>5. [i \in DOMAIN per |->
                [from |-> per[i].fixStart, to |-> per[i].fixEnd, accStart |-> per[i].accStart, accEnd |-> per[i].accEnd]]
          = [i \in DOMAIN fx |-> RowAt(c, start, end, fx[i])]
    BY Zenon, <1>3, <1>4
  <1> QED BY Zenon, <1>2, <1>5 DEF fx

\* A fixing's row earns one open day's stretch of the window, and the rows follow on.
Earning(r, c, start, end) ==
    /\ r \in [from : Int, to : Int, accStart : Int, accEnd : Int]
    /\ r.from \in c /\ r.to \in c /\ r.from < r.to /\ Shut(c, r.from + 1, r.to)
    /\ r.from <= r.accStart /\ r.accEnd <= r.to /\ r.accStart < r.accEnd
    /\ start - kMaxClosure <= r.from /\ r.from < end /\ r.to <= r.from + 1 + kMaxClosure
Whole(r) == r.from = r.accStart /\ r.to = r.accEnd
Earns(rows, c, start, end) ==
    /\ Len(rows) \in Nat \ {0} /\ DOMAIN rows = 1..Len(rows) /\ rows # << >>
    /\ \A i \in 1..Len(rows) : Earning(rows[i], c, start, end)
    /\ \A i \in 1..Len(rows) - 1 : rows[i].to = rows[i + 1].from /\ rows[i].accEnd = rows[i + 1].accStart
    /\ rows[1].accStart = start /\ rows[Len(rows)].accEnd = end
    /\ start \in c => rows[1].from = start
    /\ end \in c => rows[Len(rows)].to = end
    /\ start \in c /\ end \in c => \A i \in 1..Len(rows) : Whole(rows[i])

LEMMA RowsEarn ==
    ASSUME NEW c, NEW start \in Int, NEW end \in Int, start < end,
           \A s \in start - kMaxClosure..end : Served(c, s)
    PROVE  Earns(FixingRows(start, end, c), c, start, end)
  <1>1. PICK fx : fx = FixDays(start, end, c) /\ Covers(fx, c, start, end)
    <2>1. start \in start - kMaxClosure..end
      BY SMT, Closures
    <2> QED BY Zenon, <2>1, FixDaysCover
  <1>2. /\ fx \in Seq(Int) /\ Len(fx) \in Nat \ {0}
        /\ \A i \in 1..Len(fx) : fx[i] \in Int /\ fx[i] \in c /\ fx[i] < end /\ start - kMaxClosure <= fx[i]
        /\ fx[1] <= start /\ (start \in c => fx[1] = start) /\ \A i \in 1..Len(fx) : i # 1 => start < fx[i]
        /\ \A i \in 1..Len(fx) - 1 : fx[i] < fx[i + 1] /\ Shut(c, fx[i] + 1, fx[i + 1])
        /\ Shut(c, fx[Len(fx)] + 1, end)
    BY Zenon, <1>1 DEF Covers
  <1>3. PICK n \in Nat \ {0} : n = Len(fx)
    BY Zenon, <1>2
  <1>4. DOMAIN fx = 1..n
    BY SMT, <1>2, <1>3
  <1>5. PICK rows : /\ rows = FixingRows(start, end, c)
                    /\ rows = [i \in 1..n |-> RowAt(c, start, end, fx[i])]
    <2>1. FixingRows(start, end, c) = [i \in DOMAIN FixDays(start, end, c) |-> RowAt(c, start, end, FixDays(start, end, c)[i])]
      BY Zenon, RowsAre
    <2>2. FixingRows(start, end, c) = [i \in 1..n |-> RowAt(c, start, end, fx[i])]
      BY Zenon, <2>1, <1>1, <1>4
    <2> QED BY Zenon, <2>2
  <1>6. Len(rows) = n /\ DOMAIN rows = 1..n /\ rows # << >>
    BY SMT, <1>5
  <1> DEFINE to(i) == RollForward(c, fx[i] + 1)
  <1>7. \A i \in 1..n : /\ rows[i].from = fx[i] /\ rows[i].to = to(i) /\ rows[i].accStart = Later(fx[i], start)
                        /\ rows[i].accEnd = Earlier(to(i), end)
    <2> TAKE i \in 1..n
    <2>1. PICK p : p = rows[i] /\ p = RowAt(c, start, end, fx[i])
      BY Zenon, <1>5
    <2>2. p = [from |-> fx[i], to |-> to(i), accStart |-> Later(fx[i], start), accEnd |-> Earlier(to(i), end)]
      BY Zenon, <2>1 DEF RowAt
    <2>3. p.from = fx[i] /\ p.to = to(i) /\ p.accStart = Later(fx[i], start) /\ p.accEnd = Earlier(to(i), end)
      BY ONLY Zenon, <2>2
    <2> QED BY Zenon, <2>1, <2>3
  <1>8. \A i \in 1..n : fx[i] + 1 \in Int /\ Served(c, fx[i] + 1)
    <2> TAKE i \in 1..n
    <2>1. fx[i] \in Int /\ fx[i] < end /\ start - kMaxClosure <= fx[i]
      BY Zenon, <1>2, <1>3
    <2>2. fx[i] + 1 \in Int /\ fx[i] + 1 \in start - kMaxClosure..end
      BY SMT, <2>1, Closures
    <2> QED BY Zenon, <2>2
  <1>9. \A i \in 1..n : /\ to(i) \in Int /\ to(i) \in c /\ fx[i] + 1 <= to(i) /\ Shut(c, fx[i] + 1, to(i))
                        /\ to(i) <= fx[i] + 1 + kMaxClosure
                        /\ \A g \in Int : fx[i] + 1 <= g /\ g \in c /\ Shut(c, fx[i] + 1, g) => to(i) = g
    BY Zenon, <1>8, RollsTo
  <1> HIDE DEF to
  <1>10. \A i \in 1..n - 1 : to(i) = fx[i + 1] /\ i \in 1..n /\ i + 1 \in 1..n /\ i + 1 # 1
    <2> TAKE i \in 1..n - 1
    <2>1. i \in 1..n /\ i + 1 \in 1..n /\ i + 1 # 1
      BY SMT
    <2>2. fx[i] \in Int /\ fx[i + 1] \in Int /\ fx[i + 1] \in c /\ fx[i] < fx[i + 1] /\ Shut(c, fx[i] + 1, fx[i + 1])
      BY Zenon, <2>1, <1>2, <1>3
    <2>3. fx[i] + 1 <= fx[i + 1]
      BY SMT, <2>2
    <2> QED BY Zenon, <2>1, <2>2, <2>3, <1>9
  <1>11. n \in 1..n /\ 1 \in 1..n
    BY SMT
  <1>12. end <= to(n)
    <2>1. ~(to(n) \in fx[n] + 1..end - 1)
      BY Zenon, <1>2, <1>3, <1>9, <1>11 DEF Shut
    <2>2. to(n) \in Int /\ fx[n] + 1 <= to(n) /\ fx[n] \in Int
      BY Zenon, <1>2, <1>3, <1>9, <1>11
    <2> QED BY SMT, <2>1, <2>2
  <1>13. \A i \in 1..n : start < to(i)
    <2> TAKE i \in 1..n
    <2>1. CASE i = n
      <3>1. to(n) \in Int
        BY Zenon, <1>9, <1>11
      <3>2. start < to(n)
        BY SMT, <3>1, <1>12
      <3> QED BY Zenon, <2>1, <3>2
    <2>2. CASE i # n
      <3>1. i \in 1..n - 1
        BY SMT, <2>2
      <3> QED BY Zenon, <3>1, <1>2, <1>3, <1>10
    <2> QED BY Zenon, <2>1, <2>2
  <1>14. ASSUME NEW i \in 1..n PROVE Earning(rows[i], c, start, end)
    <2>1. PICK f \in Int, g \in Int : f = fx[i] /\ g = to(i)
      BY Zenon, <1>2, <1>3, <1>9
    <2>2. /\ f \in c /\ f < end /\ start - kMaxClosure <= f /\ f + 1 <= g /\ g \in c /\ start < g /\ Shut(c, f + 1, g)
          /\ g <= f + 1 + kMaxClosure
      BY Zenon, <2>1, <1>2, <1>3, <1>9, <1>13
    <2>3. /\ Later(f, start) \in Int /\ Earlier(g, end) \in Int /\ f < g /\ f <= Later(f, start) /\ Earlier(g, end) <= g
          /\ Later(f, start) < Earlier(g, end)
      BY SMT, <2>2 DEF Later, Earlier
    <2>4. rows[i].from = f /\ rows[i].to = g /\ rows[i].accStart = Later(f, start) /\ rows[i].accEnd = Earlier(g, end)
      BY Zenon, <2>1, <1>7
    <2>5. rows[i] \in [from : Int, to : Int, accStart : Int, accEnd : Int]
      <3>1. PICK a \in Int, e \in Int : a = Later(f, start) /\ e = Earlier(g, end)
        BY Zenon, <2>3
      <3>2. rows[i] = [from |-> f, to |-> g, accStart |-> a, accEnd |-> e]
        <4>1. rows[i] = RowAt(c, start, end, fx[i])
          BY Zenon, <1>5
        <4> QED BY Zenon, <4>1, <3>1, <2>1 DEF RowAt, to
      <3> QED BY SMT, <3>2
    <2> QED BY Zenon, <2>2, <2>3, <2>4, <2>5 DEF Earning
  <1>15. \A i \in 1..n : i # 1 => rows[i].accStart = fx[i]
    <2> TAKE i \in 1..n
    <2>1. SUFFICES ASSUME i # 1 PROVE rows[i].accStart = fx[i]
      BY Zenon
    <2>2. fx[i] \in Int /\ start < fx[i]
      BY Zenon, <2>1, <1>2, <1>3
    <2>3. Later(fx[i], start) = fx[i]
      BY SMT, <2>2 DEF Later
    <2> QED BY Zenon, <2>3, <1>7
  <1>16. \A i \in 1..n - 1 : rows[i].accEnd = to(i)
    <2> TAKE i \in 1..n - 1
    <2>1. to(i) = fx[i + 1] /\ fx[i + 1] \in Int /\ fx[i + 1] < end
      BY Zenon, <1>2, <1>3, <1>10
    <2>2. Earlier(fx[i + 1], end) = fx[i + 1]
      BY SMT, <2>1 DEF Earlier
    <2> QED BY Zenon, <2>1, <2>2, <1>7, <1>10
  <1>17. ASSUME NEW i \in 1..n - 1 PROVE rows[i].to = rows[i + 1].from /\ rows[i].accEnd = rows[i + 1].accStart
    BY Zenon, <1>7, <1>10, <1>15, <1>16
  <1>18. rows[1].accStart = start /\ rows[n].accEnd = end
    <2>1. PICK f \in Int, g \in Int : f = fx[1] /\ g = to(n) /\ f <= start /\ end <= g
      BY Zenon, <1>2, <1>3, <1>9, <1>11, <1>12
    <2>2. Later(f, start) = start /\ Earlier(g, end) = end
      BY SMT, <2>1 DEF Later, Earlier
    <2> QED BY Zenon, <2>1, <2>2, <1>7, <1>11
  <1>19. start \in c => rows[1].from = start
    BY Zenon, <1>2, <1>7, <1>11
  <1>20. end \in c => rows[n].to = end
    <2>1. SUFFICES ASSUME end \in c PROVE rows[n].to = end
      BY Zenon
    <2>2. fx[n] \in Int /\ fx[n] < end /\ Shut(c, fx[n] + 1, end)
      BY Zenon, <1>2, <1>3, <1>11
    <2>3. fx[n] + 1 <= end
      BY SMT, <2>2
    <2> QED BY Zenon, <2>1, <2>2, <2>3, <1>7, <1>9, <1>11
  <1>21. ASSUME start \in c, end \in c, NEW i \in 1..n PROVE Whole(rows[i])
    <2>1. rows[i].from = rows[i].accStart
      <3>1. CASE i = 1
        BY Zenon, <3>1, <1>18, <1>19, <1>21
      <3>2. CASE i # 1
        BY Zenon, <3>2, <1>7, <1>15
      <3> QED BY Zenon, <3>1, <3>2
    <2>2. rows[i].to = rows[i].accEnd
      <3>1. CASE i = n
        BY Zenon, <3>1, <1>18, <1>20, <1>21
      <3>2. CASE i # n
        <4>1. i \in 1..n - 1
          BY SMT, <3>2
        <4> QED BY Zenon, <4>1, <1>7, <1>16
      <3> QED BY Zenon, <3>1, <3>2
    <2> QED BY Zenon, <2>1, <2>2 DEF Whole
  <1>22. Earns(rows, c, start, end)
    BY Zenon, <1>6, <1>14, <1>17, <1>18, <1>19, <1>20, <1>21 DEF Earns
  <1> QED BY Zenon, <1>5, <1>22

\* Rows that earn a window tile it.
LEMMA EarnedTiles ==
    ASSUME NEW c, NEW start, NEW end, NEW rows, Earns(rows, c, start, end)
    PROVE  Tile(rows, start, end)
  <1>1. /\ Len(rows) \in Nat \ {0} /\ DOMAIN rows = 1..Len(rows) /\ rows # << >>
        /\ \A i \in 1..Len(rows) : Earning(rows[i], c, start, end)
        /\ \A i \in 1..Len(rows) - 1 : rows[i].accEnd = rows[i + 1].accStart
        /\ rows[1].accStart = start /\ rows[Len(rows)].accEnd = end
    BY Zenon DEF Earns
  <1>2. Last(rows) = rows[Len(rows)]
    BY Zenon DEF Last
  <1> QED BY Zenon, <1>1, <1>2 DEF Tile, Earning

------------------------------------------------------------------------------
(* Observation conventions. *)

\* The calendar is known two open days before a window and to its end.
Known(c, start, end) == \A s \in start - 2 * kMaxClosure - 2..end : Served(c, s)

\* The open day before a day, and the one before that.
Prev(c, s) == RollBack(c, s - 1)
Prev2(c, s) == Prev(c, Prev(c, s))

LEMMA PrevIs ==
    ASSUME NEW c, NEW s \in Int, Served(c, s - 1)
    PROVE  /\ Prev(c, s) \in Int /\ Prev(c, s) \in c /\ Prev(c, s) < s /\ s - 1 - kMaxClosure <= Prev(c, s)
           /\ Shut(c, Prev(c, s) + 1, s)
           /\ \A g \in Int : g < s /\ g \in c /\ Shut(c, g + 1, s) => Prev(c, s) = g
  <1>1. PICK t \in Int : t = s - 1 /\ t + 1 = s
    BY SMT
  <1>2. PICK b : b = RollBack(c, t) /\ b = Prev(c, s)
    BY Zenon, <1>1 DEF Prev
  <1>3. /\ b \in Int /\ b \in c /\ b <= t /\ t - kMaxClosure <= b /\ Shut(c, b + 1, t + 1)
        /\ \A g \in Int : g <= t /\ g \in c /\ Shut(c, g + 1, t + 1) => b = g
    <2>1. Served(c, t)
      BY Zenon, <1>1
    <2>2. /\ RollBack(c, t) \in Int /\ RollBack(c, t) \in c /\ RollBack(c, t) <= t
          /\ t - kMaxClosure <= RollBack(c, t) /\ Shut(c, RollBack(c, t) + 1, t + 1)
          /\ \A g \in Int : g <= t /\ g \in c /\ Shut(c, g + 1, t + 1) => RollBack(c, t) = g
      BY Zenon, <2>1, RollsBackTo
    <2> QED BY Zenon, <2>2, <1>2
  <1>4. b < s
    BY SMT, <1>1, <1>3
  <1>5. \A g \in Int : g < s => g <= t
    BY SMT, <1>1
  <1> QED BY Zenon, <1>1, <1>2, <1>3, <1>4, <1>5

LEMMA TwoDaysBack == ASSUME NEW c, NEW s PROVE AdvanceObsBd(c, s, -2) = Prev2(c, s)
  <1>1. -2 # 0
    BY SMT
  <1>2. AdvanceObsBd(c, s, -2) = AdvanceBd(c, s, -2)
    BY Zenon, <1>1 DEF AdvanceObsBd
  <1> QED BY Zenon, <1>2, TwoBack DEF Prev2, Prev

\* A fixing looked up two days before its own is one open day's too.
LEMMA RowBack ==
    ASSUME NEW c, NEW start \in Int, NEW end \in Int, start < end, Known(c, start, end),
           NEW r, Earning(r, c, start, end)
    PROVE  BusinessDays(Prev2(c, r.from), Prev2(c, r.to), c) = <<Prev2(c, r.from)>>
  <1>1. PICK a \in Int, b \in Int : a = r.from /\ b = r.to
    <2>1. r \in [from : Int, to : Int, accStart : Int, accEnd : Int]
      BY Zenon DEF Earning
    <2>2. r.from \in Int /\ r.to \in Int
      BY SMT, <2>1
    <2> QED BY Zenon, <2>2
  <1>2. /\ a \in c /\ b \in c /\ a < b /\ Shut(c, a + 1, b) /\ start - kMaxClosure <= a /\ a < end
        /\ b <= a + 1 + kMaxClosure
    BY Zenon, <1>1 DEF Earning
  <1>3. \A s \in Int : start - 2 * kMaxClosure - 2 <= s /\ s <= end => Served(c, s)
    <2>1. \A s \in Int : start - 2 * kMaxClosure - 2 <= s /\ s <= end => s \in start - 2 * kMaxClosure - 2..end
      BY SMT, Closures
    <2> QED BY Zenon, <2>1 DEF Known
  <1>4. Served(c, b - 1)
    <2>1. a \in b - 1 - kMaxClosure..b - 1
      BY SMT, <1>2, Closures
    <2>2. a \in b - 1..b - 1 + kMaxClosure \/ b \in b - 1..b - 1 + kMaxClosure
      BY SMT, <1>2, Closures
    <2> QED BY Zenon, <2>1, <2>2, <1>2 DEF Served
  <1>5. Prev(c, b) = a
    BY Zenon, <1>2, <1>4, PrevIs
  <1>6. PICK p \in Int : p = Prev(c, a) /\ p \in c /\ p < a /\ a - 1 - kMaxClosure <= p
    <2>1. a - 1 \in Int /\ start - 2 * kMaxClosure - 2 <= a - 1 /\ a - 1 <= end
      BY SMT, <1>2, Closures
    <2>2. Served(c, a - 1)
      BY Zenon, <2>1, <1>3
    <2> QED BY Zenon, <2>2, PrevIs
  <1>7. PICK q \in Int : q = Prev(c, p) /\ q \in c /\ q < p /\ Shut(c, q + 1, p)
    <2>1. p - 1 \in Int /\ start - 2 * kMaxClosure - 2 <= p - 1 /\ p - 1 <= end
      BY SMT, <1>2, <1>6, Closures
    <2>2. Served(c, p - 1)
      BY Zenon, <2>1, <1>3
    <2> QED BY Zenon, <2>2, PrevIs
  <1>8. Prev2(c, b) = p /\ Prev2(c, a) = q
    BY Zenon, <1>5, <1>6, <1>7 DEF Prev2
  <1>9. BusinessDays(q, p, c) = <<q>>
    BY Zenon, <1>7, OneDay
  <1> QED BY Zenon, <1>1, <1>8, <1>9

LEMMA LengthIs ==
    ASSUME NEW n \in Nat \ {0}, NEW s, DOMAIN s = 1..n, s = [i \in 1..n |-> s[i]]
    PROVE  Len(s) = n /\ s # << >>
  BY SMT

\* The same accruals, whatever is observed for them.
SameAccruals(other, rows) ==
    /\ Len(other) = Len(rows) /\ DOMAIN other = 1..Len(rows) /\ other # << >>
    /\ \A i \in 1..Len(rows) : other[i].accStart = rows[i].accStart /\ other[i].accEnd = rows[i].accEnd

LEMMA SameTiles ==
    ASSUME NEW c, NEW start, NEW end, NEW rows, Earns(rows, c, start, end), NEW other, SameAccruals(other, rows)
    PROVE  Tile(other, start, end)
  <1>1. PICK n \in Nat \ {0} : n = Len(rows)
    BY Zenon DEF Earns
  <1>2. /\ \A i \in 1..n : rows[i].accStart < rows[i].accEnd
        /\ \A i \in 1..n - 1 : rows[i].accEnd = rows[i + 1].accStart
        /\ rows[1].accStart = start /\ rows[n].accEnd = end
    BY Zenon, <1>1 DEF Earns, Earning
  <1>3. /\ Len(other) = n /\ DOMAIN other = 1..n /\ other # << >>
        /\ \A i \in 1..n : other[i].accStart = rows[i].accStart /\ other[i].accEnd = rows[i].accEnd
    BY Zenon, <1>1 DEF SameAccruals
  <1>4. 1 \in 1..n /\ n \in 1..n /\ \A i \in 1..n - 1 : i \in 1..n /\ i + 1 \in 1..n
    BY SMT
  <1>5. Last(other) = other[n]
    BY Zenon, <1>3 DEF Last
  <1>6. other[1].accStart = start /\ Last(other).accEnd = end
    BY Zenon, <1>2, <1>3, <1>4, <1>5
  <1>7. \A i \in 1..n - 1 : other[i].accEnd = other[i + 1].accStart
    BY Zenon, <1>2, <1>3, <1>4
  <1>8. \A i \in 1..n : other[i].accStart < other[i].accEnd
    BY Zenon, <1>2, <1>3
  <1> QED BY Zenon, <1>3, <1>6, <1>7, <1>8 DEF Tile

\* What each observation convention makes of a window's rows.
LEMMA LookbackIs ==
    ASSUME NEW c, NEW start, NEW end, NEW rows, rows = FixingRows(start, end, c), Earns(rows, c, start, end),
           NEW back, back = RfrObservation(start, end, c, "Lookback", 2)
    PROVE  /\ SameAccruals(back, rows)
           /\ \A i \in 1..Len(rows) : back[i].from = Prev2(c, rows[i].from) /\ back[i].to = Prev2(c, rows[i].to)
  <1>1. PICK n \in Nat \ {0} : n = Len(rows) /\ DOMAIN rows = 1..n /\ \A i \in 1..n : Earning(rows[i], c, start, end)
    BY Zenon DEF Earns
  <1>2. back = [i \in 1..n |-> [rows[i] EXCEPT !.from = AdvanceObsBd(c, @, -2), !.to = AdvanceObsBd(c, @, -2)]]
    <2>1. "Lookback" # "None" /\ "Lookback" # "Shift" /\ ~(2 <= 0)
      BY SMT
    <2>2. RfrObservation(start, end, c, "Lookback", 2) =
             [i \in DOMAIN rows |-> [rows[i] EXCEPT !.from = AdvanceObsBd(c, @, -2), !.to = AdvanceObsBd(c, @, -2)]]
      BY <2>1 DEF RfrObservation
    <2> QED BY Zenon, <2>2, <1>1
  <1>3. Len(back) = n /\ DOMAIN back = 1..n /\ back # << >>
    <2>1. DOMAIN back = 1..n /\ back = [i \in 1..n |-> back[i]]
      BY Zenon, <1>2
    <2> QED BY Zenon, <2>1, LengthIs
  <1>4. ASSUME NEW i \in 1..n
        PROVE  /\ back[i].from = Prev2(c, rows[i].from) /\ back[i].to = Prev2(c, rows[i].to)
               /\ back[i].accStart = rows[i].accStart /\ back[i].accEnd = rows[i].accEnd
    <2>1. PICK r \in [from : Int, to : Int, accStart : Int, accEnd : Int] : r = rows[i]
      BY Zenon, <1>1 DEF Earning
    <2>2. PICK x, y : x = AdvanceObsBd(c, r.from, -2) /\ y = AdvanceObsBd(c, r.to, -2)
      BY Zenon
    <2>3. back[i] = [r EXCEPT !.from = x, !.to = y]
      BY <1>2, <2>1, <2>2
    <2>4. PICK e : e = [r EXCEPT !.from = x, !.to = y]
      BY Zenon
    <2>5. e.from = x /\ e.to = y /\ e.accStart = r.accStart /\ e.accEnd = r.accEnd
      BY SMT, <2>4
    <2>6. x = Prev2(c, r.from) /\ y = Prev2(c, r.to)
      BY Zenon, <2>2, TwoDaysBack
    <2> QED BY Zenon, <2>1, <2>3, <2>4, <2>5, <2>6
  <1>5. \A i \in 1..n : /\ back[i].from = Prev2(c, rows[i].from) /\ back[i].to = Prev2(c, rows[i].to)
                        /\ back[i].accStart = rows[i].accStart /\ back[i].accEnd = rows[i].accEnd
    BY Zenon, <1>4
  <1>6. SameAccruals(back, rows)
    BY Zenon, <1>1, <1>3, <1>5 DEF SameAccruals
  <1>7. \A i \in 1..Len(rows) : back[i].from = Prev2(c, rows[i].from) /\ back[i].to = Prev2(c, rows[i].to)
    BY Zenon, <1>1, <1>5
  <1> QED BY Zenon, <1>6, <1>7

LEMMA LockoutIs ==
    ASSUME NEW c, NEW start, NEW end, NEW rows, rows = FixingRows(start, end, c), Earns(rows, c, start, end),
           NEW locked, locked = RfrObservation(start, end, c, "Lockout", 2)
    PROVE  /\ SameAccruals(locked, rows)
           /\ \A i \in DOMAIN locked : i > Len(locked) - 2 => locked[i].from = rows[Later(1, Len(rows) - 1)].from
  <1>1. PICK n \in Nat \ {0} : n = Len(rows) /\ DOMAIN rows = 1..n /\ \A i \in 1..n : Earning(rows[i], c, start, end)
    BY Zenon DEF Earns
  <1>2. PICK l \in 1..n : l = (IF Len(rows) > 2 THEN Len(rows) - 2 + 1 ELSE 1) /\ l = Later(1, n - 1)
                          /\ \A i \in 1..n : i > n - 2 => i >= l
    BY SMT, <1>1 DEF Later
  <1>3. PICK f, t : f = rows[l].from /\ t = rows[l].to
    BY Zenon
  <1>4. locked = [i \in 1..n |-> IF i >= l THEN [rows[i] EXCEPT !.from = f, !.to = t] ELSE rows[i]]
    <2>1. "Lockout" # "None" /\ "Lockout" # "Shift" /\ "Lockout" # "Lookback" /\ ~(2 <= 0)
      BY SMT
    <2>2. RfrObservation(start, end, c, "Lockout", 2) =
             [i \in DOMAIN rows |-> IF i >= l THEN [rows[i] EXCEPT !.from = rows[l].from, !.to = rows[l].to] ELSE rows[i]]
      BY <2>1, <1>2 DEF RfrObservation
    <2> QED BY Zenon, <2>2, <1>1, <1>3
  <1>5. Len(locked) = n /\ DOMAIN locked = 1..n /\ locked # << >>
    <2>1. DOMAIN locked = 1..n /\ locked = [i \in 1..n |-> locked[i]]
      BY Zenon, <1>4
    <2> QED BY Zenon, <2>1, LengthIs
  <1>6. ASSUME NEW i \in 1..n
        PROVE  /\ locked[i].accStart = rows[i].accStart /\ locked[i].accEnd = rows[i].accEnd
               /\ i >= l => locked[i].from = f
    <2>1. PICK r \in [from : Int, to : Int, accStart : Int, accEnd : Int] : r = rows[i]
      BY Zenon, <1>1 DEF Earning
    <2>2. PICK e : e = [r EXCEPT !.from = f, !.to = t]
      BY Zenon
    <2>3. e.from = f /\ e.accStart = r.accStart /\ e.accEnd = r.accEnd
      BY SMT, <2>2
    <2>4. locked[i] = IF i >= l THEN e ELSE r
      BY Zenon, <1>4, <2>1, <2>2
    <2> QED BY Zenon, <2>1, <2>3, <2>4
  <1>7. SameAccruals(locked, rows)
    BY Zenon, <1>1, <1>5, <1>6 DEF SameAccruals
  <1>8. \A i \in DOMAIN locked : i > Len(locked) - 2 => locked[i].from = rows[Later(1, Len(rows) - 1)].from
    <2>1. ASSUME NEW i \in 1..n, i > n - 2 PROVE locked[i].from = rows[l].from
      BY Zenon, <1>2, <1>3, <1>6, <2>1
    <2>2. Len(locked) = n /\ DOMAIN locked = 1..n /\ Later(1, Len(rows) - 1) = l
      BY Zenon, <1>1, <1>2, <1>5
    <2> QED BY Zenon, <2>1, <2>2
  <1> QED BY Zenon, <1>7, <1>8

LEMMA ShiftIs ==
    ASSUME NEW c, NEW start, NEW end
    PROVE  /\ RfrObservation(start, end, c, "Shift", 2)[1].from = Prev2(c, start)
           /\ RfrObservation(start, end, c, "Shift", 2)[1].to = Prev2(c, end)
  <1>1. "Shift" # "None" /\ ~(2 <= 0)
    BY SMT
  <1>2. PICK x, y : x = AdvanceObsBd(c, start, -2) /\ y = AdvanceObsBd(c, end, -2)
    BY Zenon
  <1>3. RfrObservation(start, end, c, "Shift", 2) = <<[from |-> x, to |-> y, accStart |-> start, accEnd |-> end]>>
    BY <1>1, <1>2 DEF RfrObservation
  <1>4. PICK s : s = RfrObservation(start, end, c, "Shift", 2) /\ s[1].from = x /\ s[1].to = y
    <2>1. PICK e : e = [from |-> x, to |-> y, accStart |-> start, accEnd |-> end]
      BY Zenon
    <2>2. e.from = x /\ e.to = y
      BY SMT, <2>1
    <2>3. <<e>>[1] = e
      BY SMT
    <2> QED BY Zenon, <1>3, <2>1, <2>2, <2>3
  <1> QED BY Zenon, <1>2, <1>4, TwoDaysBack
------------------------------------------------------------------------------
(* What a window earns. *)

\* Rows that earn: the first's and the last's, and what their days are.
LEMMA EarnedDays ==
    ASSUME NEW c, NEW start, NEW end, NEW rows, Earns(rows, c, start, end)
    PROVE  /\ 1 \in 1..Len(rows) /\ Len(rows) \in 1..Len(rows) /\ DOMAIN rows = 1..Len(rows)
           /\ start \in c => rows[1].from = start
           /\ end \in c => rows[Len(rows)].to = end
           /\ \A i \in 1..Len(rows) : /\ Earning(rows[i], c, start, end)
                                      /\ rows[i].from <= rows[i].accStart /\ rows[i].accEnd <= rows[i].to
                                      /\ BusinessDays(rows[i].from, rows[i].to, c) = <<rows[i].from>>
           /\ start \in c /\ end \in c => \A i \in 1..Len(rows) : Whole(rows[i])
  <1>1. /\ Len(rows) \in Nat \ {0} /\ DOMAIN rows = 1..Len(rows)
        /\ \A i \in 1..Len(rows) : Earning(rows[i], c, start, end)
        /\ start \in c => rows[1].from = start
        /\ end \in c => rows[Len(rows)].to = end
        /\ start \in c /\ end \in c => \A i \in 1..Len(rows) : Whole(rows[i])
    BY Zenon DEF Earns
  <1>2. 1 \in 1..Len(rows) /\ Len(rows) \in 1..Len(rows)
    BY SMT, <1>1
  <1>3. ASSUME NEW i \in 1..Len(rows)
        PROVE  /\ rows[i].from <= rows[i].accStart /\ rows[i].accEnd <= rows[i].to
               /\ BusinessDays(rows[i].from, rows[i].to, c) = <<rows[i].from>>
    <2>1. PICK r \in [from : Int, to : Int, accStart : Int, accEnd : Int] : r = rows[i] /\ Earning(r, c, start, end)
      BY Zenon, <1>1 DEF Earning
    <2>2. r.from \in Int /\ r.to \in Int
      BY SMT, <2>1
    <2>3. /\ r.from \in c /\ r.from < r.to /\ Shut(c, r.from + 1, r.to)
          /\ r.from <= r.accStart /\ r.accEnd <= r.to
      BY Zenon, <2>1 DEF Earning
    <2>4. BusinessDays(r.from, r.to, c) = <<r.from>>
      BY Zenon, <2>2, <2>3, OneDay
    <2> QED BY Zenon, <2>1, <2>3, <2>4
  <1> QED BY Zenon, <1>1, <1>2, <1>3

\* A value date inside the window splits it in two.
LEMMA SplitAt ==
    ASSUME NEW c, NEW start \in Int, NEW end \in Int, Known(c, start, end), NEW vd \in start..end - 1
    PROVE  Tile(Observation(vd, start, end, c).rows, start + Observation(vd, start, end, c).realized, end)
  <1>1. vd \in Int /\ vd < end /\ Later(start, vd) = vd /\ start + (IF start < vd THEN vd - start ELSE 0) = vd
    BY SMT DEF Later
  <1>2. PICK d, rows : d = (IF start < vd THEN vd - start ELSE 0) /\ rows = FixingRows(vd, end, c)
    BY Zenon
  <1>3. PICK o : o = Observation(vd, start, end, c) /\ o.rows = rows /\ o.realized = d
    <2>1. Observation(vd, start, end, c) = [realized |-> d, rows |-> rows]
      BY Zenon, <1>1, <1>2 DEF Observation
    <2>2. PICK o : o = [realized |-> d, rows |-> rows]
      BY Zenon
    <2>3. o.rows = rows /\ o.realized = d
      BY SMT, <2>2
    <2> QED BY Zenon, <2>1, <2>2, <2>3
  <1>4. \A s \in vd - kMaxClosure..end : Served(c, s)
    <2>1. \A s \in vd - kMaxClosure..end : s \in start - 2 * kMaxClosure - 2..end
      BY SMT, Closures
    <2> QED BY Zenon, <2>1 DEF Known
  <1>5. Tile(rows, vd, end)
    BY Zenon, <1>1, <1>2, <1>4, RowsEarn, EarnedTiles
  <1> QED BY Zenon, <1>1, <1>2, <1>3, <1>5

\* The moment path takes whole fixings.
LEMMA MomentIs ==
    ASSUME NEW c, NEW start \in Int, NEW end \in Int, NEW rows, rows = FixingRows(start, end, c), Earns(rows, c, start, end),
           NEW dc, NEW o, o = MomentObservation(start, start, end, dc, c), ~o.refused, IsBusinessDay(c, end)
    PROVE  \A i \in DOMAIN o.rows : o.rows[i].from = o.rows[i].accStart /\ o.rows[i].to = o.rows[i].accEnd
  <1>1. PICK p, q : p = [refused |-> TRUE] /\ q = [refused |-> FALSE, rows |-> rows]
    BY Zenon
  <1>2. p.refused /\ q.rows = rows
    BY SMT, <1>1
  <1>3. o = IF start < start \/ start \notin c \/ ~ConstantBasis(dc, rows, c) THEN p ELSE q
    BY Zenon, <1>1 DEF MomentObservation, IsBusinessDay
  <1>4. start \in c /\ o.rows = rows
    <2>1. ~(start < start)
      BY SMT
    <2> QED BY Zenon, <2>1, <1>2, <1>3
  <1>5. \A i \in 1..Len(rows) : Whole(rows[i])
    BY Zenon, <1>4, EarnedDays DEF IsBusinessDay
  <1>6. DOMAIN rows = 1..Len(rows)
    BY Zenon, EarnedDays
  <1> QED BY Zenon, <1>4, <1>5, <1>6 DEF Whole

\* All that is said of a window from start to end.
Earned(c, start, end) ==
    LET rows == FixingRows(start, end, c)
        back == RfrObservation(start, end, c, "Lookback", 2)
        shift == RfrObservation(start, end, c, "Shift", 2)[1]
        locked == RfrObservation(start, end, c, "Lockout", 2)
    IN  /\ Tile(rows, start, end)
        /\ \A i \in DOMAIN rows :
             /\ rows[i].from <= rows[i].accStart /\ rows[i].accEnd <= rows[i].to
             /\ BusinessDays(rows[i].from, rows[i].to, c) = <<rows[i].from>>
        /\ \A vd \in start..end - 1 :
             LET o == Observation(vd, start, end, c)
             IN  Tile(o.rows, start + o.realized, end)
        /\ \A dc \in DayByDay :
             LET o == MomentObservation(start, start, end, dc, c)
             IN  (~o.refused /\ IsBusinessDay(c, end)) =>
                   \A i \in DOMAIN o.rows : o.rows[i].from = o.rows[i].accStart /\ o.rows[i].to = o.rows[i].accEnd
        /\ IsBusinessDay(c, start) => shift.from = back[1].from
        /\ IsBusinessDay(c, end) => shift.to = Last(back).to
        /\ \A i \in DOMAIN back : BusinessDays(back[i].from, back[i].to, c) = <<back[i].from>>
        /\ \A i \in DOMAIN locked : i > Len(locked) - 2 => locked[i].from <= rows[Later(1, Len(rows) - 1)].from
        /\ Tile(back, start, end) /\ Tile(locked, start, end)

LEMMA WindowIsEarned ==
    ASSUME NEW c, NEW start \in Int, NEW end \in Int, start < end, Known(c, start, end)
    PROVE  Earned(c, start, end)
  <1>1. PICK rows : rows = FixingRows(start, end, c) /\ Earns(rows, c, start, end)
    <2>1. \A s \in start - kMaxClosure..end : s \in start - 2 * kMaxClosure - 2..end
      BY SMT, Closures
    <2>2. \A s \in start - kMaxClosure..end : Served(c, s)
      BY Zenon, <2>1 DEF Known
    <2> QED BY Zenon, <2>2, RowsEarn
  <1>2. PICK back, shift, locked : /\ back = RfrObservation(start, end, c, "Lookback", 2)
                                   /\ shift = RfrObservation(start, end, c, "Shift", 2)[1]
                                   /\ locked = RfrObservation(start, end, c, "Lockout", 2)
    BY Zenon
  <1>3. /\ 1 \in 1..Len(rows) /\ Len(rows) \in 1..Len(rows) /\ DOMAIN rows = 1..Len(rows)
        /\ start \in c => rows[1].from = start
        /\ end \in c => rows[Len(rows)].to = end
        /\ \A i \in 1..Len(rows) : /\ Earning(rows[i], c, start, end)
                                   /\ rows[i].from <= rows[i].accStart /\ rows[i].accEnd <= rows[i].to
                                   /\ BusinessDays(rows[i].from, rows[i].to, c) = <<rows[i].from>>
    BY SMT, <1>1, EarnedDays
  <1>4. /\ SameAccruals(back, rows)
        /\ \A i \in 1..Len(rows) : back[i].from = Prev2(c, rows[i].from) /\ back[i].to = Prev2(c, rows[i].to)
    BY SMT, <1>1, <1>2, LookbackIs
  <1>5. /\ SameAccruals(locked, rows)
        /\ \A i \in DOMAIN locked : i > Len(locked) - 2 => locked[i].from = rows[Later(1, Len(rows) - 1)].from
    BY SMT, <1>1, <1>2, LockoutIs
  <1>6. shift.from = Prev2(c, start) /\ shift.to = Prev2(c, end)
    <2>1. shift = RfrObservation(start, end, c, "Shift", 2)[1]
      BY Zenon, <1>2
    <2> QED BY Zenon, <2>1, ShiftIs
  <1>7. Tile(rows, start, end) /\ Tile(back, start, end) /\ Tile(locked, start, end)
    BY Zenon, <1>1, <1>4, <1>5, EarnedTiles, SameTiles
  <1>8. \A vd \in start..end - 1 : Tile(Observation(vd, start, end, c).rows, start + Observation(vd, start, end, c).realized, end)
    BY Zenon, SplitAt
  <1>9. \A dc \in DayByDay :
            LET o == MomentObservation(start, start, end, dc, c)
            IN  (~o.refused /\ IsBusinessDay(c, end)) =>
                  \A i \in DOMAIN o.rows : o.rows[i].from = o.rows[i].accStart /\ o.rows[i].to = o.rows[i].accEnd
    <2>1. ASSUME NEW dc \in DayByDay, NEW o, o = MomentObservation(start, start, end, dc, c),
                 ~o.refused, IsBusinessDay(c, end)
          PROVE  \A i \in DOMAIN o.rows : o.rows[i].from = o.rows[i].accStart /\ o.rows[i].to = o.rows[i].accEnd
      BY SMT, <1>1, <2>1, MomentIs
    <2> QED BY Zenon, <2>1
  <1>10. Len(back) = Len(rows) /\ DOMAIN back = 1..Len(rows) /\ Last(back) = back[Len(rows)]
    BY Zenon, <1>4 DEF SameAccruals, Last
  <1>11. IsBusinessDay(c, start) => shift.from = back[1].from
    BY Zenon, <1>3, <1>4, <1>6 DEF IsBusinessDay
  <1>12. IsBusinessDay(c, end) => shift.to = Last(back).to
    BY Zenon, <1>3, <1>4, <1>6, <1>10 DEF IsBusinessDay
  <1>13. \A i \in DOMAIN back : BusinessDays(back[i].from, back[i].to, c) = <<back[i].from>>
    BY SMT, <1>3, <1>4, <1>10, RowBack
  <1>14. ASSUME NEW i \in DOMAIN locked, i > Len(locked) - 2
         PROVE  locked[i].from <= rows[Later(1, Len(rows) - 1)].from
    <2>1. PICK x : x = rows[Later(1, Len(rows) - 1)].from
      BY Zenon
    <2>2. x \in Int
      <3>1. PICK n \in Nat \ {0} : n = Len(rows)
        BY Zenon, <1>1 DEF Earns
      <3>2. Later(1, n - 1) \in 1..n
        BY SMT DEF Later
      <3>3. PICK r : r = rows[Later(1, n - 1)] /\ r \in [from : Int, to : Int, accStart : Int, accEnd : Int]
        BY Zenon, <1>3, <3>1, <3>2 DEF Earning
      <3>4. r.from \in Int
        BY SMT, <3>3
      <3> QED BY Zenon, <2>1, <3>1, <3>3, <3>4
    <2>3. x <= x
      BY SMT, <2>2
    <2> QED BY Zenon, <2>1, <2>3, <1>5, <1>14
  <1> QED BY Zenon, <1>1, <1>2, <1>3, <1>7, <1>8, <1>9, <1>11, <1>12, <1>13, <1>14 DEF Earned

LEMMA WindowKnown ==
    ASSUME NEW r \in Requests, NEW start \in r.mat - 1..r.mat, NEW n \in Windows
    PROVE  start \in Int /\ start + n \in Int /\ start < start + n /\ Known(r.cal, start, start + n)
  <1>1. PICK m \in Int, l \in Nat \ {0} : m = r.mat /\ l = n
    BY Zenon, RequestTyped, LegsAssumption
  <1>2. start \in m - 1..m
    BY Zenon, <1>1
  <1>3. start \in Int /\ start + l \in Int /\ start < start + l
        /\ \A s \in start - 2 * kMaxClosure - 2..start + l : s \in m - 4 * (kMaxClosure + 1)..m + l
    BY SMT, <1>2, Closures
  <1>4. \A s \in m - 4 * (kMaxClosure + 1)..m + l : Served(r.cal, s)
    BY Zenon, <1>1, LegsAssumption
  <1> QED BY Zenon, <1>1, <1>3, <1>4 DEF Known

(* The fixings of an overnight window earn each of its days once, under every observation     *)
(* convention, and on every calendar whose closures are bounded (build/observations.hpp).     *)
THEOREM FixingsAreEarned == Spec => []FixingsEarnTheWindow
  <1>1. ScheduleInv => FixingsEarnTheWindow
    <2>1. ASSUME ScheduleInv, NEW start \in req.mat - 1..req.mat, NEW n \in Windows
          PROVE  Earned(req.cal, start, start + n)
      <3>1. req \in Requests
        BY Zenon, <2>1 DEF ScheduleInv
      <3> QED BY Zenon, <3>1, WindowKnown, WindowIsEarned
    <2> QED BY Zenon, <2>1 DEF FixingsEarnTheWindow, Earned
  <1> QED BY PTL, <1>1, ScheduleInvariant

------------------------------------------------------------------------------
(* Payment dates. *)

LEMMA ForwardInOrder ==
    ASSUME NEW c, NEW a \in Int, NEW b \in Int, a <= b, Served(c, a), Served(c, b)
    PROVE  RollForward(c, a) <= RollForward(c, b)
  <1>1. PICK f \in Int, g \in Int : f = RollForward(c, a) /\ g = RollForward(c, b)
    BY Zenon, RollsTo
  <1>2. b <= g /\ g \in c
    BY Zenon, <1>1, RollsTo
  <1>3. a <= g
    BY SMT, <1>2
  <1> QED BY Zenon, <1>1, <1>2, <1>3, RollsTo

\* The calendar is known as far as a number of open days after a date can be.
Reaches(c, s, n) == \A x \in s..s + n * (kMaxClosure + 1) : Served(c, x)

\* A date moved on by open days, step by step.
LEMMA OnStep ==
    ASSUME NEW c, NEW s \in Int, NEW n \in Nat, Reaches(c, s, n), NEW f, IsOn(f, n, s, c)
    PROVE  /\ f[0] = s
           /\ \A i \in Nat : i < n /\ f[i] \in Int /\ s <= f[i] /\ f[i] <= s + i * (kMaxClosure + 1) =>
                /\ f[i + 1] = RollForward(c, f[i] + 1) /\ Served(c, f[i] + 1)
                /\ f[i + 1] \in Int /\ s <= f[i + 1] /\ f[i + 1] <= s + (i + 1) * (kMaxClosure + 1)
  <1>1. \A i \in 0..n : f[i] = IF i = 0 THEN s ELSE RollForward(c, f[i-1] + 1)
    <2>1. f = [i \in 0..n |-> IF i = 0 THEN s ELSE RollForward(c, f[i-1] + 1)]
      BY Zenon DEF IsOn
    <2> QED BY Zenon, <2>1
  <1>2. f[0] = s
    <2>1. 0 \in 0..n
      BY SMT
    <2> QED BY Zenon, <2>1, <1>1
  <1>3. ASSUME NEW i \in Nat, i < n, f[i] \in Int, s <= f[i], f[i] <= s + i * (kMaxClosure + 1)
        PROVE  /\ f[i + 1] = RollForward(c, f[i] + 1) /\ Served(c, f[i] + 1)
               /\ f[i + 1] \in Int /\ s <= f[i + 1] /\ f[i + 1] <= s + (i + 1) * (kMaxClosure + 1)
    <2>1. PICK w \in Nat : w = kMaxClosure + 1 /\ w >= 1
      BY SMT, Closures
    <2>2. w * n \in Nat /\ w * i \in Nat /\ w * (i + 1) = w * i + w /\ w * i + w <= w * n
      BY SMT, <1>3, ProductsInOrder
    <2>3. n * w = w * n /\ i * w = w * i /\ (i + 1) * w = w * (i + 1)
      BY SMT
    <2>4. PICK x \in Int : x = f[i] + 1 /\ s <= x /\ x <= s + w * i + 1
      <3>1. f[i] <= s + w * i
        BY Zenon, <1>3, <2>1, <2>3
      <3> QED BY SMT, <3>1, <1>3, <2>2
    <2>5. Served(c, x)
      <3>1. x \in s..s + w * n
        BY SMT, <2>1, <2>2, <2>4
      <3> QED BY Zenon, <3>1, <2>1, <2>3 DEF Reaches
    <2>6. i + 1 \in 0..n /\ i + 1 # 0 /\ (i + 1) - 1 = i
      BY SMT, <1>3
    <2>7. f[i + 1] = RollForward(c, x)
      BY Zenon, <2>4, <2>6, <1>1
    <2>8. PICK y \in Int : y = f[i + 1] /\ x <= y /\ y <= x + kMaxClosure
      BY Zenon, <2>5, <2>7, RollsTo
    <2>9. s <= y /\ y <= s + w * (i + 1)
      BY SMT, <2>1, <2>2, <2>4, <2>8, Closures
    <2> QED BY Zenon, <2>1, <2>3, <2>4, <2>5, <2>7, <2>8, <2>9
  <1> QED BY Zenon, <1>2, <1>3

LEMMA OnInOrder ==
    ASSUME NEW c, NEW a \in Int, NEW b \in Int, a <= b, NEW n \in Nat, Reaches(c, a, n), Reaches(c, b, n),
           NEW f, IsOn(f, n, a, c), NEW g, IsOn(g, n, b, c)
    PROVE  f[n] \in Int /\ g[n] \in Int /\ a <= f[n] /\ f[n] <= g[n]
  <1> DEFINE Good(i) == /\ f[i] \in Int /\ a <= f[i] /\ f[i] <= a + i * (kMaxClosure + 1)
                        /\ g[i] \in Int /\ b <= g[i] /\ g[i] <= b + i * (kMaxClosure + 1)
                        /\ f[i] <= g[i]
             P == {i \in Nat : i <= n => Good(i)}
  <1>1. 0 \in P
    <2>1. f[0] = a /\ g[0] = b
      BY SMT, OnStep
    <2>2. a <= a /\ b <= b /\ 0 \in Nat /\ a <= a + 0 * (kMaxClosure + 1) /\ b <= b + 0 * (kMaxClosure + 1)
      BY SMT, Closures
    <2> QED BY Zenon, <2>1, <2>2
  <1>2. ASSUME NEW i \in Nat, i \in P PROVE i + 1 \in P
    <2>1. SUFFICES ASSUME i + 1 <= n PROVE Good(i + 1)
      <3>1. i + 1 \in Nat BY SMT
      <3> QED BY Zenon, <3>1
    <2>2. i < n /\ i <= n
      BY SMT, <2>1
    <2>3. Good(i)
      BY Zenon, <1>2, <2>2
    <2>4. /\ f[i + 1] = RollForward(c, f[i] + 1) /\ Served(c, f[i] + 1)
          /\ f[i + 1] \in Int /\ a <= f[i + 1] /\ f[i + 1] <= a + (i + 1) * (kMaxClosure + 1)
      BY Zenon, <2>2, <2>3, OnStep
    <2>5. /\ g[i + 1] = RollForward(c, g[i] + 1) /\ Served(c, g[i] + 1)
          /\ g[i + 1] \in Int /\ b <= g[i + 1] /\ g[i + 1] <= b + (i + 1) * (kMaxClosure + 1)
      BY Zenon, <2>2, <2>3, OnStep
    <2>6. f[i] + 1 \in Int /\ g[i] + 1 \in Int /\ f[i] + 1 <= g[i] + 1
      BY SMT, <2>3
    <2>7. f[i + 1] <= g[i + 1]
      BY Zenon, <2>4, <2>5, <2>6, ForwardInOrder
    <2> QED BY Zenon, <2>4, <2>5, <2>7
  <1>3. n \in P
    <2> HIDE DEF P
    <2> QED BY Zenon, <1>1, <1>2, SetInduction
  <1>4. n <= n
    BY SMT
  <1> QED BY Zenon, <1>3, <1>4

\* Moving on by open days keeps dates in order, and moves none back.
LEMMA MovesInOrder ==
    ASSUME NEW c, NEW a \in Int, NEW b \in Int, a <= b, NEW n \in Nat, Reaches(c, a, n), Reaches(c, b, n)
    PROVE  /\ AdvanceBd(c, a, n) \in Int /\ AdvanceBd(c, b, n) \in Int
           /\ a <= AdvanceBd(c, a, n) /\ AdvanceBd(c, a, n) <= AdvanceBd(c, b, n)
  <1>1. CASE n = 0
    <2>1. a \in a..a + n * (kMaxClosure + 1) /\ b \in b..b + n * (kMaxClosure + 1)
      BY SMT, <1>1, Closures
    <2>2. Served(c, a) /\ Served(c, b)
      BY Zenon, <2>1 DEF Reaches
    <2>3. AdvanceBd(c, a, n) = RollForward(c, a) /\ AdvanceBd(c, b, n) = RollForward(c, b)
      BY Zenon, <1>1 DEF AdvanceBd
    <2>4. RollForward(c, a) \in Int /\ RollForward(c, b) \in Int /\ a <= RollForward(c, a)
      BY Zenon, <2>2, RollsTo
    <2> QED BY Zenon, <2>2, <2>3, <2>4, ForwardInOrder
  <1>2. CASE n # 0
    <2>1. n > 0
      BY SMT, <1>2
    <2>2. PICK f : f = (CHOOSE h : IsOn(h, n, a, c)) /\ IsOn(f, n, a, c)
      BY Zenon, OnExists
    <2>3. PICK g : g = (CHOOSE h : IsOn(h, n, b, c)) /\ IsOn(g, n, b, c)
      BY Zenon, OnExists
    <2>4. \A s : AdvanceBd(c, s, n) = (CHOOSE h : IsOn(h, n, s, c))[n]
      BY Zenon, <1>2, <2>1 DEF AdvanceBd, IsOn
    <2>5. AdvanceBd(c, a, n) = f[n] /\ AdvanceBd(c, b, n) = g[n]
      BY Zenon, <2>2, <2>3, <2>4
    <2>6. f[n] \in Int /\ g[n] \in Int /\ a <= f[n] /\ f[n] <= g[n]
      BY Zenon, <2>2, <2>3, OnInOrder
    <2> QED BY Zenon, <2>5, <2>6
  <1> QED BY Zenon, <1>1, <1>2

------------------------------------------------------------------------------
(* Booked legs. *)

LEMMA Climbs ==
    ASSUME NEW n \in Nat, NEW f, \A i \in 1..n : f[i] \in Int, \A i \in 1..n - 1 : f[i] < f[i + 1]
    PROVE  \A i \in 1..n, j \in 1..n : i < j => f[i] < f[j]
  <1> DEFINE P == {j \in Nat : j \in 1..n => \A i \in 1..n : i < j => f[i] < f[j]}
  <1>1. 0 \in P
    <2>1. 0 \in Nat /\ 0 \notin 1..n
      BY SMT
    <2> QED BY Zenon, <2>1
  <1>2. ASSUME NEW w \in Nat, w \in P PROVE w + 1 \in P
    <2>1. w + 1 \in Nat
      BY SMT
    <2>2. ASSUME w + 1 \in 1..n, NEW i \in 1..n, i < w + 1 PROVE f[i] < f[w + 1]
      <3>1. w \in 1..n /\ w \in 1..n - 1 /\ (i = w \/ i < w)
        BY SMT, <2>2
      <3>2. f[w] < f[w + 1] /\ f[w] \in Int /\ f[w + 1] \in Int /\ f[i] \in Int
        BY Zenon, <3>1, <2>2
      <3>3. i < w => f[i] < f[w]
        BY Zenon, <3>1, <1>2
      <3>4. CASE i = w
        BY Zenon, <3>2, <3>4
      <3>5. CASE i < w
        BY SMT, <3>2, <3>3, <3>5
      <3> QED BY Zenon, <3>1, <3>4, <3>5
    <2> QED BY Zenon, <2>1, <2>2
  <1>3. Nat \subseteq P
    <2> HIDE DEF P
    <2> QED BY Zenon, <1>1, <1>2, SetInduction
  <1>4. \A j \in 1..n : j \in Nat
    BY SMT
  <1> QED BY Zenon, <1>3, <1>4

\* What a leg is made from: l periods, and when each is paid.
Paid(cv, i) == PayDate(cv, bounds[i + 1])
PlanIs(cv, l) ==
    /\ l \in Nat \ {0} /\ Len(Periods) = l /\ Periods \in Seq(Range(Periods))
    /\ \A i \in 1..l : /\ Periods[i] \in Range(Periods) /\ Periods[i][1] = bounds[i] /\ Periods[i][2] = bounds[i + 1]
                       /\ bounds[i] \in Int /\ bounds[i + 1] \in Int /\ bounds[i] < bounds[i + 1]
                       /\ req.spot <= bounds[i] /\ bounds[i + 1] <= req.mat + kMaxClosure
                       /\ Paid(cv, i) \in Int /\ bounds[i + 1] <= Paid(cv, i)
    /\ \A i \in 1..l, j \in 1..l : i < j => Paid(cv, i) <= Paid(cv, j)
    /\ req.spot \in Int /\ bounds[1] = req.spot /\ bounds[l + 1] = End(req)

LEMMA PayReaches ==
    ASSUME NEW r \in Requests, NEW cv \in Conventions, NEW e \in Int, r.spot <= e, e <= r.mat + kMaxClosure
    PROVE  cv.payLag \in Nat /\ Reaches(r.cal, e, cv.payLag)
  <1>1. PICK n \in Nat, a \in Int, m \in Int : n = cv.payLag /\ a = r.spot /\ m = r.mat
    BY Zenon, LegsAssumption, RequestTyped
  <1>2. PICK w \in Nat : w = kMaxClosure + 1
    BY SMT, Closures
  <1>3. n * w \in Nat /\ (n + 1) * w = n * w + w
    BY SMT
  <1>4. \A x \in e..e + n * w : x \in a - kMaxClosure..m + (n + 1) * w
    <2>1. a <= e /\ e <= m + kMaxClosure
      BY Zenon, <1>1
    <2>2. PICK p \in Nat : p = n * w /\ (n + 1) * w = p + w
      BY Zenon, <1>3
    <2>3. \A x \in e..e + p : x \in a - kMaxClosure..m + (p + w)
      BY SMT, <2>1, <1>2, Closures
    <2> QED BY Zenon, <2>2, <2>3
  <1>5. \A x \in a - kMaxClosure..m + (n + 1) * w : Served(r.cal, x)
    BY Zenon, <1>1, <1>2, LegsAssumption
  <1> QED BY Zenon, <1>1, <1>2, <1>4, <1>5 DEF Reaches

LEMMA PlanOf ==
    ASSUME ScheduleInv, Proper, LongStep(req), NEW cv \in Conventions
    PROVE  \E l : PlanIs(cv, l)
  <1>0. pc = "done" /\ End(req) > req.spot /\ req \in Requests /\ req.spot < req.mat
    BY DEF Proper, ScheduleInv, DefaultDone, RuledDone, ByRule
  <1>1. bounds \in Seq(Int) /\ Len(bounds) \in Nat \ {0, 1} /\ bounds[1] = req.spot /\ bounds[Len(bounds)] = End(req)
    BY Zenon, Finished, <1>0
  <1>2. PICK l \in Nat \ {0} : Len(bounds) = l + 1 /\ Len(bounds) - 1 = l
    <2>1. \A n \in Nat \ {0, 1} : n - 1 \in Nat \ {0} /\ n = (n - 1) + 1
      BY SMT
    <2> QED BY Zenon, <2>1, <1>1
  <1>3. /\ Len(Periods) = l /\ DOMAIN Periods = 1..l
        /\ \A i \in 1..l : Periods[i][1] = bounds[i] /\ Periods[i][2] = bounds[i + 1]
    BY <1>2 DEF Periods
  <1>4. Periods \in Seq(Range(Periods)) /\ \A i \in 1..l : Periods[i] \in Range(Periods)
    <2>1. \A i \in 1..l : Periods[i] \in Range(Periods)
      BY Zenon, <1>3 DEF Range
    <2>2. Periods = [i \in 1..l |-> Periods[i]]
      BY Zenon, <1>2 DEF Periods
    <2>3. PICK p, R : p = Periods /\ R = Range(Periods)
      BY Zenon
    <2>4. p \in Seq(R)
      <3>1. p = [i \in 1..l |-> p[i]] /\ \A i \in 1..l : p[i] \in R
        BY Zenon, <2>1, <2>2, <2>3
      <3>2. [i \in 1..l |-> p[i]] \in Seq(R)
        BY SMT, <3>1
      <3> QED BY Zenon, <3>1, <3>2
    <2> QED BY Zenon, <2>1, <2>3, <2>4
  <1>5. \A i \in 1..l + 1 : bounds[i] \in Int
    BY <1>1, <1>2
  <1>6. \A i \in 1..l : bounds[i] < bounds[i + 1]
    BY Zenon, <1>0, <1>2, Increasing DEF BoundsIncrease
  <1>7. \A i \in 1..l + 1, j \in 1..l + 1 : i < j => bounds[i] < bounds[j]
    <2>1. l + 1 \in Nat /\ (l + 1) - 1 = l
      BY SMT
    <2> QED BY Zenon, <2>1, <1>5, <1>6, Climbs
  <1>8. PICK a \in Int, e \in Int, m \in Int : a = req.spot /\ e = End(req) /\ m = req.mat /\ e <= m + kMaxClosure
    <2>1. PICK m \in Int : m = req.mat
      BY Zenon, <1>0, RequestTyped
    <2>2. End(req) \in m - kMaxClosure..m + kMaxClosure
      BY Zenon, <1>0, <2>1, EndNear
    <2>3. End(req) \in Int /\ End(req) <= m + kMaxClosure
      BY SMT, <2>2, Closures
    <2> QED BY Zenon, <2>1, <2>3, <1>0, RequestTyped
  <1>9. \A i \in 1..l + 1 : a <= bounds[i] /\ bounds[i] <= m + kMaxClosure
    <2> TAKE i \in 1..l + 1
    <2>1. 1 \in 1..l + 1 /\ l + 1 \in 1..l + 1 /\ (i = 1 \/ 1 < i) /\ (i = l + 1 \/ i < l + 1)
      BY SMT
    <2>2. bounds[1] = a /\ bounds[l + 1] = e /\ bounds[i] \in Int
      BY Zenon, <1>1, <1>2, <1>5, <1>8
    <2>3. i = 1 \/ bounds[1] < bounds[i]
      BY Zenon, <2>1, <1>7
    <2>4. i = l + 1 \/ bounds[i] < bounds[l + 1]
      BY Zenon, <2>1, <1>7
    <2>5. PICK x \in Int : x = bounds[i] /\ (x = a \/ a < x) /\ (x = e \/ x < e)
      BY Zenon, <2>2, <2>3, <2>4
    <2>6. a <= x /\ x <= m + kMaxClosure
      BY SMT, <2>5, <1>8, Closures
    <2> QED BY Zenon, <2>5, <2>6
  <1>10. \A i \in 1..l : i \in 1..l + 1 /\ i + 1 \in 1..l + 1
    BY SMT
  <1>11. \A i \in 1..l + 1 : cv.payLag \in Nat /\ Reaches(req.cal, bounds[i], cv.payLag)
    BY Zenon, <1>0, <1>5, <1>8, <1>9, PayReaches
  <1>12. ASSUME NEW i \in 1..l, NEW j \in 1..l, i < j \/ i = j
         PROVE  Paid(cv, i) \in Int /\ bounds[i + 1] <= Paid(cv, i) /\ Paid(cv, i) <= Paid(cv, j)
    <2>1. i + 1 \in 1..l + 1 /\ j + 1 \in 1..l + 1 /\ (i + 1 < j + 1 \/ i + 1 = j + 1)
      BY SMT, <1>12
    <2>2. PICK x \in Int, y \in Int : x = bounds[i + 1] /\ y = bounds[j + 1]
      BY Zenon, <2>1, <1>5
    <2>3. x < y \/ x = y
      BY Zenon, <2>1, <2>2, <1>7
    <2>4. x <= y
      BY SMT, <2>3
    <2>5. cv.payLag \in Nat /\ Reaches(req.cal, x, cv.payLag) /\ Reaches(req.cal, y, cv.payLag)
      BY Zenon, <2>1, <2>2, <1>11
    <2> QED BY Zenon, <2>2, <2>4, <2>5, MovesInOrder DEF Paid, PayDate
  <1>13. \A i \in 1..l : /\ Periods[i] \in Range(Periods) /\ Periods[i][1] = bounds[i] /\ Periods[i][2] = bounds[i + 1]
                         /\ bounds[i] \in Int /\ bounds[i + 1] \in Int /\ bounds[i] < bounds[i + 1]
                         /\ req.spot <= bounds[i] /\ bounds[i + 1] <= req.mat + kMaxClosure
                         /\ Paid(cv, i) \in Int /\ bounds[i + 1] <= Paid(cv, i)
    BY Zenon, <1>3, <1>4, <1>5, <1>6, <1>8, <1>9, <1>10, <1>12
  <1>14. \A i \in 1..l, j \in 1..l : i < j => Paid(cv, i) <= Paid(cv, j)
    BY Zenon, <1>12
  <1>15. PlanIs(cv, l)
    BY Zenon, <1>1, <1>2, <1>3, <1>4, <1>8, <1>13, <1>14 DEF PlanIs
  <1> QED BY Zenon, <1>15

\* q is the periods paid after a date, and h says which they are.
DueAre(cv, vd, l, q, h) ==
    /\ Len(q) \in Nat /\ DOMAIN q = 1..Len(q)
    /\ \A i \in 1..Len(q) : h[i] \in 1..l /\ q[i][1] = bounds[h[i]] /\ q[i][2] = bounds[h[i] + 1] /\ Paid(cv, h[i]) > vd
    /\ \A i \in 1..Len(q), j \in 1..Len(q) : i < j => h[i] < h[j]
    /\ \A m \in 1..l : Paid(cv, m) > vd => \E i \in 1..Len(q) : h[i] = m

LEMMA DuePicked ==
    ASSUME NEW cv, NEW vd, NEW l, PlanIs(cv, l)
    PROVE  \E h : DueAre(cv, vd, l, Due(cv, vd), h)
  <1> DEFINE S == {p \in Range(Periods) : PayDate(cv, p[2]) > vd}
  <1>1. /\ Len(Periods) = l /\ Periods \in Seq(Range(Periods))
        /\ \A i \in 1..l : Periods[i] \in Range(Periods) /\ Periods[i][1] = bounds[i] /\ Periods[i][2] = bounds[i + 1]
    BY Zenon DEF PlanIs
  <1>2. \A i \in 1..l : Periods[i] \in S <=> Paid(cv, i) > vd
    BY Zenon, <1>1 DEF Paid
  <1>3. Due(cv, vd) = Among(Periods, S)
    BY Zenon DEF Due
  <1> HIDE DEF S
  <1>4. PICK q : q = Among(Periods, S) /\ q \in Seq(Range(Periods)) /\ \E h : Picks(q, h, Periods, S, l)
    BY Zenon, <1>1, AmongPicks
  <1>5. PICK h : Picks(q, h, Periods, S, l)
    BY Zenon, <1>4
  <1>6. /\ \A i \in 1..Len(q) : h[i] \in 1..l /\ q[i] = Periods[h[i]] /\ Periods[h[i]] \in S
        /\ \A i \in 1..Len(q), j \in 1..Len(q) : i < j => h[i] < h[j]
        /\ \A m \in 1..l : Periods[m] \in S => \E i \in 1..Len(q) : h[i] = m
    BY Zenon, <1>5 DEF Picks
  <1>7. Len(q) \in Nat /\ DOMAIN q = 1..Len(q)
    <2>1. PICK R : R = Range(Periods) /\ q \in Seq(R)
      BY Zenon, <1>4
    <2> QED BY SMT, <2>1
  <1>8. DueAre(cv, vd, l, q, h)
    BY Zenon, <1>1, <1>2, <1>6, <1>7 DEF DueAre
  <1> QED BY Zenon, <1>3, <1>4, <1>8

\* What is due follows on, period by period, up to the last one.
LEMMA DueFollows ==
    ASSUME NEW cv, NEW vd \in Int, NEW l, PlanIs(cv, l), NEW q, NEW h, DueAre(cv, vd, l, q, h)
    PROVE  /\ \A i \in 1..Len(q) - 1 : h[i + 1] = h[i] + 1
           /\ End(req) > vd => Len(q) # 0 /\ h[Len(q)] = l
           /\ Len(q) # 0 => bounds[h[1]] <= Later(vd, req.spot)
  <1>1. /\ l \in Nat \ {0}
        /\ \A i \in 1..l : /\ bounds[i] \in Int /\ bounds[i + 1] \in Int /\ Paid(cv, i) \in Int /\ bounds[i + 1] <= Paid(cv, i)
        /\ \A i \in 1..l, j \in 1..l : i < j => Paid(cv, i) <= Paid(cv, j)
        /\ req.spot \in Int /\ bounds[1] = req.spot /\ bounds[l + 1] = End(req)
    BY Zenon DEF PlanIs
  <1>2. PICK d \in Nat : d = Len(q)
    BY Zenon DEF DueAre
  <1>3. /\ \A i \in 1..d : h[i] \in 1..l /\ Paid(cv, h[i]) > vd
        /\ \A i \in 1..d, j \in 1..d : i < j => h[i] < h[j]
        /\ \A m \in 1..l : Paid(cv, m) > vd => \E i \in 1..d : h[i] = m
    BY Zenon, <1>2 DEF DueAre
  <1>4. \A m \in 1..l, n \in 1..l : m < n /\ Paid(cv, m) > vd => Paid(cv, n) > vd
    <2> TAKE m \in 1..l, n \in 1..l
    <2>1. SUFFICES ASSUME m < n, Paid(cv, m) > vd PROVE Paid(cv, n) > vd
      BY Zenon
    <2>2. PICK x \in Int, y \in Int : x = Paid(cv, m) /\ y = Paid(cv, n) /\ x <= y
      BY Zenon, <2>1, <1>1
    <2>3. x > vd
      BY Zenon, <2>1, <2>2
    <2>4. y > vd
      BY SMT, <2>2, <2>3
    <2> QED BY Zenon, <2>2, <2>4
  <1>5. ASSUME NEW i \in 1..d - 1 PROVE h[i + 1] = h[i] + 1
    <2>1. i \in 1..d /\ i + 1 \in 1..d /\ i < i + 1
      BY SMT
    <2>2. PICK m \in 1..l, n \in 1..l : m = h[i] /\ n = h[i + 1] /\ m < n
      BY Zenon, <2>1, <1>3
    <2>3. m + 1 \in 1..l /\ m < m + 1 /\ m \in Int /\ n \in Int
      BY SMT, <2>2, <1>1
    <2>4. PICK j \in 1..d : h[j] = m + 1
      <3>1. Paid(cv, m + 1) > vd
        BY Zenon, <2>1, <2>2, <2>3, <1>3, <1>4
      <3> QED BY Zenon, <3>1, <2>3, <1>3
    <2>5. (j < i => h[j] < m) /\ (i + 1 < j => n < h[j]) /\ (j = i => h[j] = m) /\ (j = i + 1 => h[j] = n)
      BY Zenon, <2>1, <2>2, <1>3
    <2>6. j < i \/ i + 1 < j \/ j = i \/ j = i + 1
      BY SMT
    <2>7. n = m + 1
      BY SMT, <2>2, <2>3, <2>4, <2>5, <2>6
    <2> QED BY Zenon, <2>2, <2>7
  <1>6. ASSUME End(req) > vd PROVE d # 0 /\ h[d] = l
    <2>1. l \in 1..l /\ l \in Int
      BY SMT, <1>1
    <2>2. Paid(cv, l) > vd
      <3>1. PICK e \in Int, x \in Int : e = End(req) /\ x = Paid(cv, l) /\ e <= x
        BY Zenon, <2>1, <1>1
      <3>2. e > vd
        BY Zenon, <3>1, <1>6
      <3>3. x > vd
        BY SMT, <3>1, <3>2
      <3> QED BY Zenon, <3>1, <3>3
    <2>3. PICK j \in 1..d : h[j] = l
      BY Zenon, <2>1, <2>2, <1>3
    <2>4. d # 0 /\ d \in 1..d /\ (j = d \/ j < d)
      BY SMT, <2>3
    <2>5. h[d] \in 1..l /\ (j < d => l < h[d])
      BY Zenon, <2>3, <2>4, <1>3
    <2>6. j = d
      BY SMT, <2>4, <2>5, <1>1
    <2> QED BY Zenon, <2>3, <2>4, <2>6
  <1>7. ASSUME d # 0 PROVE bounds[h[1]] <= Later(vd, req.spot)
    <2>1. 1 \in 1..d
      BY SMT, <1>7
    <2>2. PICK m \in 1..l, a \in Int, x \in Int : m = h[1] /\ a = req.spot /\ x = bounds[m]
      BY Zenon, <2>1, <1>1, <1>3
    <2>3. CASE m = 1
      <3>1. x = a
        BY Zenon, <2>2, <2>3, <1>1
      <3>2. x <= Later(vd, a)
        BY SMT, <3>1 DEF Later
      <3> QED BY Zenon, <3>2, <2>2
    <2>4. CASE m # 1
      <3>1. m - 1 \in 1..l /\ (m - 1) + 1 = m /\ m - 1 < m
        BY SMT, <2>4, <1>1
      <3>2. ~(Paid(cv, m - 1) > vd)
        <4>1. SUFFICES ASSUME Paid(cv, m - 1) > vd PROVE FALSE
          BY Zenon
        <4>2. PICK j \in 1..d : h[j] = m - 1
          BY Zenon, <4>1, <3>1, <1>3
        <4>3. j = 1 \/ 1 < j
          BY SMT
        <4>4. j = 1 => m - 1 = m
          BY Zenon, <4>2, <2>2
        <4>5. 1 < j => m < m - 1
          BY Zenon, <4>2, <2>1, <2>2, <1>3
        <4> QED BY SMT, <4>3, <4>4, <4>5
      <3>3. PICK y \in Int : y = Paid(cv, m - 1) /\ x <= y /\ ~(y > vd)
        BY Zenon, <3>1, <3>2, <2>2, <1>1
      <3>4. x <= Later(vd, a)
        BY SMT, <3>3 DEF Later
      <3> QED BY Zenon, <3>4, <2>2
    <2> QED BY Zenon, <2>3, <2>4
  <1> QED BY Zenon, <1>2, <1>5, <1>6, <1>7

\* As many are due as there are periods paid after the date.
LEMMA DueCount ==
    ASSUME NEW cv, NEW vd \in Int, NEW l, PlanIs(cv, l), NEW q, NEW h, DueAre(cv, vd, l, q, h)
    PROVE  Cardinality({i \in 1..l : Paid(cv, i) > vd}) = Len(q)
  <1> DEFINE kept == {i \in 1..l : Paid(cv, i) > vd}
  <1>1. PICK d \in Nat : d = Len(q)
    BY Zenon DEF DueAre
  <1>2. /\ \A i \in 1..d : h[i] \in 1..l /\ Paid(cv, h[i]) > vd
        /\ \A i \in 1..d, j \in 1..d : i < j => h[i] < h[j]
        /\ \A m \in 1..l : Paid(cv, m) > vd => \E i \in 1..d : h[i] = m
    BY Zenon, <1>1 DEF DueAre
  <1> DEFINE g == [i \in 1..d |-> h[i]]
  <1>3. \A i \in 1..d : g[i] = h[i]
    BY Zenon
  <1>4. g \in [1..d -> kept]
    BY Zenon, <1>2
  <1>5. ASSUME NEW i \in 1..d, NEW j \in 1..d, g[i] = g[j] PROVE i = j
    <2>1. i < j \/ j < i \/ i = j
      BY SMT
    <2>2. h[i] \in 1..l /\ h[j] \in 1..l /\ (i < j => h[i] < h[j]) /\ (j < i => h[j] < h[i]) /\ h[i] = h[j]
      BY Zenon, <1>2, <1>3, <1>5
    <2>3. \A x \in 1..l : ~(x < x)
      BY SMT
    <2> QED BY Zenon, <2>1, <2>2, <2>3
  <1>6. \A m \in kept : \E i \in 1..d : g[i] = m
    BY Zenon, <1>2, <1>3
  <1> HIDE DEF g, kept
  <1>7. g \in Bijection(1..d, kept)
    <2>1. DOMAIN g = 1..d
      BY Zenon, <1>4
    <2>2. IsInjective(g)
      BY Zenon, <2>1, <1>5 DEF IsInjective
    <2> QED BY Zenon, <2>2, <1>4, <1>6 DEF Bijection, Injection, Surjection
  <1>8. Cardinality(kept) = d
    BY Zenon, <1>7, FS_CountingElements DEF ExistsBijection
  <1> QED BY Zenon, <1>1, <1>8 DEF kept

\* A coupon of a leg stands for one period that is due.
CouponOf(cv, vd, i, p) ==
    /\ p.start = bounds[i] /\ p.end = bounds[i + 1] /\ p.pay = Paid(cv, i)
    /\ p.rows = IF bounds[i] >= vd THEN << >>
                ELSE IF cv.overnight THEN FixingRows(bounds[i], bounds[i + 1], req.cal)
                ELSE <<[from |-> AdvanceBd(req.cal, bounds[i], -cv.fixingLag), to |-> bounds[i + 1],
                        accStart |-> bounds[i], accEnd |-> bounds[i + 1]]>>

LEMMA FloatLegIs ==
    ASSUME NEW cv, NEW vd, NEW l, NEW q, NEW h, q = Due(cv, vd), DueAre(cv, vd, l, q, h),
           NEW leg, leg = FloatLegFrom(cv, vd)
    PROVE  /\ Len(leg) = Len(q) /\ DOMAIN leg = 1..Len(q)
           /\ \A i \in 1..Len(q) : CouponOf(cv, vd, h[i], leg[i])
  <1>1. PICK d \in Nat : d = Len(q) /\ DOMAIN q = 1..d
    BY Zenon DEF DueAre
  <1> DEFINE Rows(s, e) == IF s >= vd THEN << >>
                           ELSE IF cv.overnight THEN FixingRows(s, e, req.cal)
                           ELSE <<[from |-> AdvanceBd(req.cal, s, -cv.fixingLag), to |-> e, accStart |-> s, accEnd |-> e]>>
             C(s, e) == [start |-> s, end |-> e, pay |-> PayDate(cv, e), rows |-> Rows(s, e)]
  <1>2. leg = [i \in 1..d |-> C(q[i][1], q[i][2])]
    BY Zenon, <1>1 DEF FloatLegFrom
  <1>3. Len(leg) = d /\ DOMAIN leg = 1..d
    <2> HIDE DEF C
    <2> QED BY SMT, <1>2
  <1>4. ASSUME NEW i \in 1..d PROVE CouponOf(cv, vd, h[i], leg[i])
    <2>0. i \in 1..Len(q)
      BY Zenon, <1>1
    <2>1. PICK m, s, e : m = h[i] /\ s = q[i][1] /\ e = q[i][2] /\ s = bounds[m] /\ e = bounds[m + 1]
      <3>1. q[i][1] = bounds[h[i]] /\ q[i][2] = bounds[h[i] + 1]
        BY Zenon, <2>0 DEF DueAre
      <3> QED BY Zenon, <3>1
    <2>2. PICK y, w : y = PayDate(cv, e) /\ w = Rows(s, e)
      BY Zenon
    <2>3. leg[i] = [start |-> s, end |-> e, pay |-> y, rows |-> w]
      <3>1. leg[i] = C(s, e)
        <4> HIDE DEF C
        <4> QED BY Zenon, <1>2, <2>1
      <3>2. C(s, e) = [start |-> s, end |-> e, pay |-> y, rows |-> w]
        <4> HIDE DEF Rows
        <4> QED BY Zenon, <2>2
      <3> QED BY Zenon, <3>1, <3>2
    <2>4. PICK p : p = [start |-> s, end |-> e, pay |-> y, rows |-> w]
      BY Zenon
    <2>5. p.start = s /\ p.end = e /\ p.pay = y /\ p.rows = w
      BY ONLY SMT, <2>4
    <2> QED BY Zenon, <2>1, <2>2, <2>3, <2>4, <2>5 DEF CouponOf, Paid
  <1> QED BY Zenon, <1>1, <1>3, <1>4

LEMMA FixedLegIs ==
    ASSUME NEW cv, NEW vd, NEW l, NEW h, DueAre(cv, vd, l, Due(cv, vd), h)
    PROVE  Len(FixedCouponsFrom(cv, vd)) = Len(Due(cv, vd))
  <1>0. PICK q : q = Due(cv, vd)
    BY Zenon
  <1>1. PICK d \in Nat : d = Len(q) /\ DOMAIN q = 1..d
    BY Zenon, <1>0 DEF DueAre
  <1> DEFINE C(s, e) == [pay |-> PayDate(cv, e), tau |-> YearFrac(cv.dc, s, e, req.cal)]
  <1>2. FixedCouponsFrom(cv, vd) = [i \in 1..d |-> C(q[i][1], q[i][2])]
    BY Zenon, <1>0, <1>1 DEF FixedCouponsFrom
  <1> HIDE DEF C
  <1>3. Len([i \in 1..d |-> C(q[i][1], q[i][2])]) = d
    BY SMT
  <1> QED BY Zenon, <1>0, <1>1, <1>2, <1>3

\* One row tiles its own window.
LEMMA OneRowTiles ==
    ASSUME NEW s \in Int, NEW e \in Int, s < e, NEW x
    PROVE  Tile(<<[from |-> x, to |-> e, accStart |-> s, accEnd |-> e]>>, s, e)
  <1>0. PICK r : r = [from |-> x, to |-> e, accStart |-> s, accEnd |-> e]
    BY Zenon
  <1>1. r.accStart = s /\ r.accEnd = e
    BY SMT, <1>0
  <1>2. <<r>> # << >> /\ <<r>>[1] = r /\ Len(<<r>>) = 1 /\ DOMAIN <<r>> = {1} /\ 1..1 - 1 = {}
    BY SMT
  <1>3. Last(<<r>>) = r
    BY Zenon, <1>2 DEF Last
  <1>4. Tile(<<r>>, s, e)
    BY Zenon, <1>1, <1>2, <1>3 DEF Tile
  <1> QED BY Zenon, <1>0, <1>4

\* An accruing coupon names the fixings of its whole period.
LEMMA CouponTiles ==
    ASSUME ScheduleInv, NEW cv \in Conventions, NEW vd \in Int, NEW l, PlanIs(cv, l), NEW i \in 1..l,
           NEW p, CouponOf(cv, vd, i, p), p.start < vd
    PROVE  Tile(p.rows, p.start, p.end)
  <1>1. PICK s \in Int, e \in Int : /\ s = bounds[i] /\ e = bounds[i + 1] /\ s < e /\ s < vd /\ p.start = s /\ p.end = e
                                    /\ req.spot <= s /\ e <= req.mat + kMaxClosure
    BY Zenon DEF PlanIs, CouponOf
  <1>2. ~(s >= vd)
    BY SMT, <1>1
  <1>3. CASE cv.overnight
    <2>1. p.rows = FixingRows(s, e, req.cal)
      BY Zenon, <1>1, <1>2, <1>3 DEF CouponOf
    <2>2. \A x \in s - kMaxClosure..e : Served(req.cal, x)
      <3>1. req \in Requests
        BY Zenon DEF ScheduleInv
      <3>2. PICK a \in Int, m \in Int, n \in Nat : a = req.spot /\ m = req.mat /\ n = cv.payLag
        BY Zenon, <3>1, RequestTyped, LegsAssumption
      <3>3. PICK w \in Nat : w = kMaxClosure + 1
        BY SMT, Closures
      <3>4. PICK z \in Nat : (n + 1) * w = z + w
        <4>1. n * w \in Nat /\ (n + 1) * w = n * w + w
          BY SMT
        <4> QED BY Zenon, <4>1
      <3>5. a <= s /\ e <= m + kMaxClosure
        BY Zenon, <3>2, <1>1
      <3>6. \A x \in s - kMaxClosure..e : x \in a - kMaxClosure..m + (z + w)
        BY SMT, <3>3, <3>5, Closures
      <3>7. \A x \in a - kMaxClosure..m + (n + 1) * w : Served(req.cal, x)
        BY Zenon, <3>1, <3>2, <3>3, LegsAssumption
      <3> QED BY Zenon, <3>4, <3>6, <3>7
    <2> QED BY Zenon, <1>1, <2>1, <2>2, RowsEarn, EarnedTiles
  <1>4. CASE ~cv.overnight
    <2>1. PICK x : x = AdvanceBd(req.cal, bounds[i], -cv.fixingLag)
      BY Zenon
    <2>2. p.rows = <<[from |-> x, to |-> e, accStart |-> s, accEnd |-> e]>>
      BY Zenon, <1>1, <1>2, <1>4, <2>1 DEF CouponOf
    <2> QED BY Zenon, <1>1, <2>2, OneRowTiles
  <1> QED BY Zenon, <1>3, <1>4

LEMMA LegOwes ==
    ASSUME ScheduleInv, NEW cv \in Conventions, NEW vd \in Int, NEW l, PlanIs(cv, l), NEW leg, leg = FloatLegFrom(cv, vd)
    PROVE  /\ \A i \in 1..l : Paid(cv, i) > vd \/ Paid(cv, i) <= vd
           /\ Len(leg) = Cardinality({i \in 1..l : Paid(cv, i) > vd}) /\ Len(FixedCouponsFrom(cv, vd)) = Len(leg)
           /\ End(req) > vd => leg # << >> /\ Last(leg).end = End(req) /\ leg[1].start <= Later(vd, req.spot)
           /\ \A i \in 1..Len(leg) - 1 : leg[i].end = leg[i + 1].start /\ leg[i].pay <= leg[i + 1].pay
           /\ \A i \in DOMAIN leg : leg[i].start < vd => Tile(leg[i].rows, leg[i].start, leg[i].end)
  <1>0. PICK q : q = Due(cv, vd)
    BY Zenon
  <1>1. PICK h : DueAre(cv, vd, l, q, h)
    BY Zenon, <1>0, DuePicked
  <1>2. PICK d \in Nat : d = Len(q)
    BY Zenon, <1>1 DEF DueAre
  <1>3. Len(leg) = d /\ DOMAIN leg = 1..d /\ \A i \in 1..d : CouponOf(cv, vd, h[i], leg[i])
    <2>1. Len(leg) = Len(q) /\ DOMAIN leg = 1..Len(q) /\ \A i \in 1..Len(q) : CouponOf(cv, vd, h[i], leg[i])
      BY SMT, <1>0, <1>1, FloatLegIs
    <2> QED BY Zenon, <2>1, <1>2
  <1>4. \A i \in 1..d : /\ h[i] \in 1..l /\ leg[i].start = bounds[h[i]] /\ leg[i].end = bounds[h[i] + 1]
                        /\ leg[i].pay = Paid(cv, h[i])
    BY Zenon, <1>1, <1>2, <1>3 DEF DueAre, CouponOf
  <1>5. /\ l \in Nat \ {0} /\ \A i \in 1..l : Paid(cv, i) \in Int
        /\ \A i \in 1..l, j \in 1..l : i < j => Paid(cv, i) <= Paid(cv, j)
        /\ bounds[l + 1] = End(req)
    BY Zenon DEF PlanIs
  <1>6. /\ \A i \in 1..d - 1 : h[i + 1] = h[i] + 1
        /\ End(req) > vd => d # 0 /\ h[d] = l
        /\ d # 0 => bounds[h[1]] <= Later(vd, req.spot)
    <2>1. /\ \A i \in 1..Len(q) - 1 : h[i + 1] = h[i] + 1
          /\ End(req) > vd => Len(q) # 0 /\ h[Len(q)] = l
          /\ Len(q) # 0 => bounds[h[1]] <= Later(vd, req.spot)
      BY SMT, <1>1, DueFollows
    <2> QED BY Zenon, <2>1, <1>2
  <1>7. \A i \in 1..l : Paid(cv, i) > vd \/ Paid(cv, i) <= vd
    <2>1. \A x \in Int : x > vd \/ x <= vd
      BY SMT
    <2> QED BY Zenon, <2>1, <1>5
  <1>8. Cardinality({i \in 1..l : Paid(cv, i) > vd}) = d /\ Len(FixedCouponsFrom(cv, vd)) = d
    BY Zenon, <1>0, <1>1, <1>2, DueCount, FixedLegIs
  <1>9. ASSUME End(req) > vd PROVE leg # << >> /\ Last(leg).end = End(req) /\ leg[1].start <= Later(vd, req.spot)
    <2>1. d # 0 /\ h[d] = l
      BY Zenon, <1>6, <1>9
    <2>2. 1 \in 1..d /\ d \in 1..d
      BY SMT, <2>1
    <2>3. leg # << >>
      <3>1. Len(<< >>) = 0
        BY SMT
      <3> QED BY Zenon, <3>1, <2>1, <1>3
    <2>4. Last(leg) = leg[d]
      BY Zenon, <1>3 DEF Last
    <2> QED BY Zenon, <2>1, <2>2, <2>3, <2>4, <1>4, <1>5, <1>6
  <1>10. ASSUME NEW i \in 1..d - 1 PROVE leg[i].end = leg[i + 1].start /\ leg[i].pay <= leg[i + 1].pay
    <2>1. i \in 1..d /\ i + 1 \in 1..d
      BY SMT
    <2>2. PICK m \in 1..l, n \in 1..l : m = h[i] /\ n = h[i + 1] /\ n = m + 1
      BY Zenon, <2>1, <1>4, <1>6
    <2>3. m < n
      BY SMT, <2>2
    <2>4. leg[i].end = bounds[n] /\ leg[i].pay = Paid(cv, m)
      BY Zenon, <2>1, <2>2, <1>4
    <2>5. leg[i + 1].start = bounds[n] /\ leg[i + 1].pay = Paid(cv, n)
      BY Zenon, <2>1, <2>2, <1>4
    <2> QED BY Zenon, <2>2, <2>3, <2>4, <2>5, <1>5
  <1>11. ASSUME NEW i \in 1..d, leg[i].start < vd PROVE Tile(leg[i].rows, leg[i].start, leg[i].end)
    <2>1. PICK p : p = leg[i] /\ CouponOf(cv, vd, h[i], p) /\ h[i] \in 1..l
      BY Zenon, <1>3, <1>4
    <2> QED BY Zenon, <2>1, <1>11, CouponTiles
  <1> QED BY Zenon, <1>3, <1>7, <1>8, <1>9, <1>10, <1>11

(* A booked leg owes every day that is left of its schedule once, whatever the value date     *)
(* and the payment lag, and its accruing coupon names the fixings of all of its days          *)
(* (build/instruments.hpp, float_leg_from).                                                   *)
THEOREM LegsOweTheRest == Spec => []BookedLegOwesTheRest
  <1>1. ScheduleInv => BookedLegOwesTheRest
    <2>1. SUFFICES ASSUME ScheduleInv, Proper, LongStep(req), NEW cv \in Conventions,
                          NEW vd \in {bounds[1], bounds[2] - 1, bounds[2], bounds[2] + 1}, NEW leg, leg = FloatLegFrom(cv, vd)
                   PROVE  LET kept == {i \in 1..Len(Periods) : PayDate(cv, Periods[i][2]) > vd}
                          IN  /\ \A i \in 1..Len(Periods) : i \in kept \/ PayDate(cv, Periods[i][2]) <= vd
                              /\ Len(leg) = Cardinality(kept) /\ Len(FixedCouponsFrom(cv, vd)) = Len(leg)
                              /\ End(req) > vd => leg # << >> /\ Last(leg).end = End(req) /\ leg[1].start <= Later(vd, req.spot)
                              /\ \A i \in 1..Len(leg) - 1 : leg[i].end = leg[i + 1].start /\ leg[i].pay <= leg[i + 1].pay
                              /\ \A i \in DOMAIN leg : leg[i].start < vd => Tile(leg[i].rows, leg[i].start, leg[i].end)
      BY Zenon DEF BookedLegOwesTheRest
    <2>2. PICK l : PlanIs(cv, l)
      BY Zenon, <2>1, PlanOf
    <2>3. l \in Nat \ {0} /\ Len(Periods) = l /\ \A i \in 1..l : Periods[i][2] = bounds[i + 1] /\ bounds[i] \in Int /\ bounds[i + 1] \in Int
      BY Zenon, <2>2 DEF PlanIs
    <2>4. vd \in Int
      <3>1. 1 \in 1..l /\ 1 + 1 = 2
        BY SMT, <2>3
      <3>2. PICK a \in Int, b \in Int : a = bounds[1] /\ b = bounds[2]
        BY Zenon, <3>1, <2>3
      <3>3. vd \in {a, b - 1, b, b + 1}
        BY Zenon, <3>2
      <3> QED BY SMT, <3>3
    <2>5. \A i \in 1..l : PayDate(cv, Periods[i][2]) = Paid(cv, i)
      BY Zenon, <2>3 DEF Paid
    <2> DEFINE kept == {i \in 1..l : Paid(cv, i) > vd}
    <2>6. {i \in 1..Len(Periods) : PayDate(cv, Periods[i][2]) > vd} = kept
      BY Zenon, <2>3, <2>5
    <2>7. /\ \A i \in 1..l : Paid(cv, i) > vd \/ Paid(cv, i) <= vd
          /\ Len(leg) = Cardinality(kept) /\ Len(FixedCouponsFrom(cv, vd)) = Len(leg)
          /\ End(req) > vd => leg # << >> /\ Last(leg).end = End(req) /\ leg[1].start <= Later(vd, req.spot)
          /\ \A i \in 1..Len(leg) - 1 : leg[i].end = leg[i + 1].start /\ leg[i].pay <= leg[i + 1].pay
          /\ \A i \in DOMAIN leg : leg[i].start < vd => Tile(leg[i].rows, leg[i].start, leg[i].end)
      BY SMT, <2>1, <2>2, <2>4, LegOwes
    <2>8. \A i \in 1..Len(Periods) : i \in kept \/ PayDate(cv, Periods[i][2]) <= vd
      BY Zenon, <2>3, <2>5, <2>7
    <2> HIDE DEF kept
    <2> QED BY Zenon, <2>6, <2>7, <2>8
  <1> QED BY PTL, <1>1, ScheduleInvariant

------------------------------------------------------------------------------
(* The holidays of a year: each on a day of its own. *)

LEMMA YmdTyped == ASSUME NEW y \in Int, NEW m \in 1..12, NEW d \in Int PROVE Ymd(y, m, d) \in Int
  <1>1. Jan1(y) \in Int /\ DaysBefore(y, m) \in Nat
    BY Zenon, JanTyped, DaysTyped
  <1> QED BY SMT, <1>1 DEF Ymd

\* Easter is in March or April.
LEMMA EasterTyped == ASSUME NEW y \in Int PROVE Easter(y) \in Int
  <1> DEFINE a == y % 19
             b == y \div 100
             c == y % 100
             f == (b + 8) \div 25
             g == (b - f + 1) \div 3
             h == (19*a + b - (b \div 4) - g + 15) % 30
             l == (32 + 2*(b % 4) + 2*(c \div 4) - h - (c % 4)) % 7
             e == (a + 11*h + 22*l) \div 451
             p == h + l - 7*e + 114
  <1>1. Easter(y) = Ymd(y, p \div 31, (p % 31) + 1)
    BY DEF Easter
  <1>2. a \in 0..18 /\ b \in Int /\ c \in Int
    BY SMT
  <1> HIDE DEF a, b, c
  <1>3. f \in Int
    BY SMT, <1>2
  <1> HIDE DEF f
  <1>4. g \in Int
    BY SMT, <1>2, <1>3
  <1> HIDE DEF g
  <1>5. h \in 0..29
    BY SMT, <1>2, <1>4
  <1> HIDE DEF h
  <1>6. l \in 0..6
    BY SMT, <1>2, <1>5
  <1> HIDE DEF l
  <1>7. e \in 0..1
    BY SMT, <1>2, <1>5, <1>6
  <1> HIDE DEF e
  <1>8. p \in 107..149
    BY SMT, <1>5, <1>6, <1>7
  <1> HIDE DEF p
  <1>9. p \div 31 \in 1..12 /\ (p % 31) + 1 \in Int
    BY SMT, <1>8
  <1> QED BY Zenon, <1>1, <1>9, YmdTyped

\* A rule's day of a year is a day.
LEMMA RuleDateTyped == ASSUME NEW y \in Int, NEW r, DatesEveryYear(r) PROVE RuleDate(r, y) \in Int
  <1>1. PICK day \in Int, weekday \in Int, n \in Int, days \in Int :
            day = r.day /\ weekday = r.weekday /\ n = r.n /\ days = r.days
    BY Zenon DEF DatesEveryYear
  <1>2. CASE r.kind \in {"fixed", "working_day"} /\ r.month \in 1..12
    <2>1. RuleDate(r, y) = Ymd(y, r.month, day)
      BY SMT, <1>1, <1>2 DEF RuleDate
    <2> QED BY Zenon, <1>2, <2>1, YmdTyped
  <1>3. CASE r.kind = "nth_weekday" /\ r.month \in 1..12
    <2>1. PICK s \in Int : s = Ymd(y, r.month, 1)
      <3>1. 1 \in Int BY SMT
      <3> QED BY Zenon, <1>3, <3>1, YmdTyped
    <2>2. RuleDate(r, y) = s + ((weekday - Weekday(s)) % 7) + (n - 1) * 7
      <3>1. RuleDate(r, y) = NthWeekday(y, r.month, weekday, n)
        BY SMT, <1>1, <1>3 DEF RuleDate
      <3> QED BY Zenon, <2>1, <3>1 DEF NthWeekday
    <2>3. Weekday(s) \in Int
      BY SMT DEF Weekday
    <2> QED BY SMT, <2>2, <2>3
  <1>4. CASE r.kind = "last_weekday" /\ r.month \in 1..12
    <2>1. PICK s \in Int : s = EndOfMonth(y, r.month)
      <3>1. MonthLength(y, r.month) \in Int
        BY SMT, <1>4, LengthTyped
      <3> QED BY Zenon, <1>4, <3>1, YmdTyped DEF EndOfMonth
    <2>2. RuleDate(r, y) = s - ((Weekday(s) - weekday) % 7)
      <3>1. RuleDate(r, y) = LastWeekday(y, r.month, weekday)
        BY SMT, <1>1, <1>4 DEF RuleDate
      <3> QED BY Zenon, <2>1, <3>1 DEF LastWeekday
    <2>3. Weekday(s) \in Int
      BY SMT DEF Weekday
    <2> QED BY SMT, <2>2, <2>3
  <1>5. CASE r.kind = "weekday_before" /\ r.month \in 1..12
    <2>1. PICK s \in Int : s = Ymd(y, r.month, day)
      BY Zenon, <1>5, YmdTyped
    <2>2. RuleDate(r, y) = (s - 1) - ((Weekday(s - 1) - weekday) % 7)
      BY SMT, <1>1, <1>5, <2>1 DEF RuleDate
    <2>3. Weekday(s - 1) \in Int
      BY SMT DEF Weekday
    <2> QED BY SMT, <2>2, <2>3
  <1>6. CASE r.kind = "easter_offset"
    <2>1. RuleDate(r, y) = Easter(y) + days
      BY SMT, <1>1, <1>6 DEF RuleDate
    <2> QED BY SMT, <2>1, EasterTyped
  <1>7. \A base \in Int, m \in 1..12 : Equinox(y, m, base) \in Int
    <2>1. TAKE base \in Int, m \in 1..12
    <2>2. PICK d \in Int : d = (base + 242194 * (y - 2000) - 1000000 * ((y - 2000) \div 4)) \div 1000000
      BY SMT
    <2>3. Equinox(y, m, base) = Ymd(y, m, d)
      BY SMT, <2>2 DEF Equinox
    <2> QED BY Zenon, <2>3, YmdTyped
  <1>8. CASE r.kind \in {"vernal_equinox", "autumnal_equinox"}
    BY SMT, <1>7, <1>8 DEF RuleDate
  <1> QED BY Zenon, <1>2, <1>3, <1>4, <1>5, <1>6, <1>8 DEF DatesEveryYear

\* The rank of a pair: how many are not after it.
UpTo(held, h) == {g \in held : g[1] < h[1] \/ (g[1] = h[1] /\ g[2] <= h[2])}

\* Pairs in order: there is one of every rank.
LEMMA RankIs ==
    ASSUME NEW held, IsFiniteSet(held), \A h \in held : h[1] \in Int /\ h[2] \in Int,
           \A g, h \in held : g[1] = h[1] /\ g[2] = h[2] => g = h,
           NEW n \in 1..Cardinality(held)
    PROVE  \E h \in held : Cardinality(UpTo(held, h)) = n
  <1> DEFINE rank == [h \in held |-> Cardinality(UpTo(held, h))]
  <1>1. PICK l \in Nat : l = Cardinality(held)
    BY Zenon, FS_CardinalityType
  <1>2. ASSUME NEW h \in held
        PROVE  /\ UpTo(held, h) \in SUBSET held /\ IsFiniteSet(UpTo(held, h)) /\ h \in UpTo(held, h)
               /\ rank[h] = Cardinality(UpTo(held, h)) /\ rank[h] \in 1..l
    <2>1. UpTo(held, h) \in SUBSET held
      BY Zenon DEF UpTo
    <2>2. IsFiniteSet(UpTo(held, h)) /\ Cardinality(UpTo(held, h)) <= Cardinality(held)
      BY Zenon, <2>1, FS_Subset
    <2>3. h \in UpTo(held, h)
      <3>1. h[2] <= h[2] BY SMT
      <3> QED BY Zenon, <3>1 DEF UpTo
    <2>4. PICK c \in Nat : c = Cardinality(UpTo(held, h))
      BY Zenon, <2>2, FS_CardinalityType
    <2>5. c # 0
      <3>1. UpTo(held, h) # {} BY Zenon, <2>3
      <3> QED BY Zenon, <2>2, <2>4, <3>1, FS_EmptySet
    <2>6. c <= l
      BY Zenon, <1>1, <2>2, <2>4
    <2>7. c \in 1..l
      BY SMT, <2>5, <2>6
    <2> QED BY Zenon, <2>1, <2>2, <2>3, <2>4, <2>7
  <1> HIDE DEF rank
  <1>3. ASSUME NEW g \in held, NEW h \in held, h \notin UpTo(held, g)
        PROVE  rank[g] # rank[h]
    <2>1. PICK a \in Int, b \in Int, c \in Int, d \in Int : a = g[1] /\ b = g[2] /\ c = h[1] /\ d = h[2]
      BY Zenon
    <2>2. ~(c < a \/ (c = a /\ d <= b))
      BY Zenon, <1>3, <2>1 DEF UpTo
    <2>3. ASSUME NEW x \in UpTo(held, g) PROVE x \in UpTo(held, h)
      <3>1. x \in held /\ (x[1] < a \/ (x[1] = a /\ x[2] <= b))
        BY Zenon, <2>1, <2>3 DEF UpTo
      <3>2. PICK u \in Int, v \in Int : u = x[1] /\ v = x[2]
        BY Zenon, <3>1
      <3>3. u < c \/ (u = c /\ v <= d)
        BY SMT, <2>2, <3>1, <3>2
      <3> QED BY Zenon, <2>1, <3>1, <3>2, <3>3 DEF UpTo
    <2>4. PICK A, B : A = UpTo(held, g) /\ B = UpTo(held, h)
      BY Zenon
    <2>5. A \in SUBSET B /\ IsFiniteSet(B) /\ A # B
      BY Zenon, <1>2, <1>3, <2>3, <2>4
    <2>6. Cardinality(A) # Cardinality(B)
      BY Zenon, <2>5, FS_Subset
    <2> QED BY Zenon, <1>2, <2>4, <2>6
  <1>4. ASSUME NEW g \in held, NEW h \in held, g # h PROVE rank[g] # rank[h]
    <2>1. h \notin UpTo(held, g) \/ g \notin UpTo(held, h)
      <3>1. PICK a \in Int, b \in Int, c \in Int, d \in Int : a = g[1] /\ b = g[2] /\ c = h[1] /\ d = h[2]
        BY Zenon
      <3>2. ~(a = c /\ b = d)
        BY Zenon, <1>4, <3>1
      <3>3. ~(c < a \/ (c = a /\ d <= b)) \/ ~(a < c \/ (a = c /\ b <= d))
        BY SMT, <3>2
      <3> QED BY Zenon, <3>1, <3>3 DEF UpTo
    <2> QED BY Zenon, <1>3, <2>1
  <1>5. rank \in Injection(held, 1..l)
    <2>1. rank \in [held -> 1..l]
      BY Zenon, <1>2 DEF rank
    <2> QED BY Zenon, <1>4, <2>1 DEF Injection, IsInjective
  <1>6. IsFiniteSet(1..l) /\ Cardinality(1..l) = l
    BY SMT, FS_Interval
  <1>7. rank \in Surjection(held, 1..l)
    BY Zenon, <1>1, <1>5, <1>6, FS_Injection
  <1>8. n \in 1..l
    BY Zenon, <1>1
  <1>9. PICK h \in held : rank[h] = n
    BY Zenon, <1>7, <1>8 DEF Surjection
  <1> QED BY Zenon, <1>2, <1>9

\* A list of m dated holidays.
DatedList(dated, m) == m \in Nat /\ DOMAIN dated = 1..m /\ Len(dated) = m /\ \A i \in 1..m : dated[i].s \in Int

\* The holidays of a year are a list.
LEMMA DatedIs ==
    ASSUME NEW row, NEW y \in Int, NEW n \in Nat, DOMAIN row.rules = 1..n,
           \A i \in 1..n : DatesEveryYear(row.rules[i])
    PROVE  \E m : DatedList(Dated(row, y), m)
  <1> DEFINE held == {<<RuleDate(row.rules[i], y), i>> : i \in Holding(row, y)}
             nth(w) == CHOOSE h \in held : Cardinality(UpTo(held, h)) = w
             l == Cardinality(held)
             d == [w \in 1..l |-> [s |-> nth(w)[1], rule |-> row.rules[nth(w)[2]]]]
  <1>1. Dated(row, y) = d
    BY Zenon DEF Dated, UpTo
  <1>2. \A i \in Holding(row, y) : i \in 1..n /\ RuleDate(row.rules[i], y) \in Int
    BY Zenon, RuleDateTyped DEF Holding
  <1>3. IsFiniteSet(held)
    <2>1. IsFiniteSet(Holding(row, y))
      <3>1. IsFiniteSet(1..n)
        BY SMT, FS_Interval
      <3>2. Holding(row, y) \in SUBSET (1..n)
        BY Zenon, <1>2
      <3> QED BY Zenon, <3>1, <3>2, FS_Subset
    <2> DEFINE f == [i \in Holding(row, y) |-> <<RuleDate(row.rules[i], y), i>>]
    <2>2. f \in Surjection(Holding(row, y), held)
      BY Zenon DEF Surjection
    <2> HIDE DEF f, held
    <2> QED BY Zenon, <2>1, <2>2, FS_Surjection
  <1>4. \A h \in held : h[1] \in Int /\ h[2] \in Int
    <2>1. TAKE h \in held
    <2>2. PICK i \in Holding(row, y) : h = <<RuleDate(row.rules[i], y), i>>
      BY Zenon
    <2>3. h[1] = RuleDate(row.rules[i], y) /\ h[2] = i /\ i \in Int
      BY SMT, <1>2, <2>2
    <2> QED BY Zenon, <1>2, <2>3
  <1>5. \A g, h \in held : g[1] = h[1] /\ g[2] = h[2] => g = h
    BY SMT
  <1>6. l \in Nat
    BY Zenon, <1>3, FS_CardinalityType
  <1> HIDE DEF held
  <1>7. \A w \in 1..l : nth(w) \in held
    BY Zenon, <1>3, <1>4, <1>5, RankIs
  <1> HIDE DEF nth
  <1>8. \A w \in 1..l : d[w].s = nth(w)[1]
    BY SMT
  <1>9. \A w \in 1..l : d[w].s \in Int
    BY Zenon, <1>4, <1>7, <1>8
  <1>10. DOMAIN d = 1..l /\ Len(d) = l
    <2> HIDE DEF l
    <2> QED BY SMT, <1>6
  <1> HIDE DEF d, l
  <1> QED BY Zenon, <1>1, <1>6, <1>9, <1>10 DEF DatedList

\* The days of a year's holidays, and those that are open days of the week.
Days(dated) == {dated[i].s : i \in DOMAIN dated}
IsPlacing(f, m, row, dated) ==
    f = [i \in 0..m |-> IF i = 0 THEN {s \in Days(dated) : ~OnWeekend(row, s)} ELSE PlaceNext(row, f[i-1], dated[i])]

LEMMA PlacingExists == ASSUME NEW n \in Nat, NEW row, NEW dated PROVE \E f : IsPlacing(f, n, row, dated)
  <1> DEFINE op(i, q) == PlaceNext(row, q, dated[i])
             first == {s \in Days(dated) : ~OnWeekend(row, s)}
             P == {w \in Nat : \E f : IsPlacing(f, w, row, dated)}
  <1>0. \A f, w : IsPlacing(f, w, row, dated) <=> f = [i \in 0..w |-> IF i = 0 THEN first ELSE op(i, f[i-1])]
    BY Zenon DEF IsPlacing
  <1> HIDE DEF op, first
  <1>1. 0 \in P
    <2> DEFINE h == [i \in 0..0 |-> first]
    <2>1. \A i \in 0..0 : i = 0 BY SMT
    <2>2. h = [i \in 0..0 |-> IF i = 0 THEN first ELSE op(i, h[i-1])] BY Zenon, <2>1
    <2>3. 0 \in Nat BY SMT
    <2> HIDE DEF h
    <2> QED BY Zenon, <1>0, <2>2, <2>3
  <1>2. ASSUME NEW w \in Nat, w \in P PROVE w + 1 \in P
    <2>1. PICK h : h = [i \in 0..w |-> IF i = 0 THEN first ELSE op(i, h[i-1])]
      <3>1. PICK h : IsPlacing(h, w, row, dated)
        BY Zenon, <1>2
      <3> QED BY Zenon, <3>1 DEF IsPlacing, op, first
    <2> DEFINE g == [i \in 0..w+1 |-> IF i = 0 THEN first ELSE op(i, h[i-1])]
    <2>2. ASSUME NEW i \in 0..w+1, i # 0 PROVE g[i-1] = h[i-1]
      <3>1. i - 1 \in 0..w /\ i - 1 \in 0..w+1 BY SMT, <2>2
      <3>2. g[i-1] = IF i - 1 = 0 THEN first ELSE op(i - 1, h[(i-1)-1]) BY Zenon, <3>1
      <3>3. h[i-1] = IF i - 1 = 0 THEN first ELSE op(i - 1, h[(i-1)-1]) BY Zenon, <2>1, <3>1
      <3> QED BY Zenon, <3>2, <3>3
    <2>3. g = [i \in 0..w+1 |-> IF i = 0 THEN first ELSE op(i, g[i-1])] BY Zenon, <2>2
    <2>4. w + 1 \in Nat BY SMT
    <2> HIDE DEF g
    <2> QED BY Zenon, <1>0, <2>3, <2>4
  <1>3. n \in P
    <2> HIDE DEF P
    <2> QED BY Zenon, <1>1, <1>2, SetInduction
  <1> QED BY Zenon, <1>3

\* As many free days as there are holidays near: one of them is not taken.
LEMMA RoomIsLeft ==
    ASSUME NEW J, IsFiniteSet(J), NEW i \in J, NEW Free, Cardinality(J) <= Cardinality(Free), IsFiniteSet(Free),
           NEW Taken, NEW P, \A x \in Free \cap Taken : \E j \in J \ {i} : P[j] = x
    PROVE  \E x \in Free : x \notin Taken
  <1> SUFFICES ASSUME \A x \in Free : x \in Taken PROVE FALSE
    BY Zenon
  <1> DEFINE g == [x \in Free |-> CHOOSE j \in J \ {i} : P[j] = x]
  <1>1. \A x \in Free : g[x] \in J \ {i} /\ P[g[x]] = x
    BY Zenon
  <1>2. g \in Injection(Free, J \ {i})
    <2>1. g \in [Free -> J \ {i}]
      <3> HIDE DEF g
      <3> QED BY Zenon, <1>1 DEF g
    <2>2. \A x, y \in Free : g[x] = g[y] => x = y
      <3> HIDE DEF g
      <3> QED BY Zenon, <1>1
    <2> HIDE DEF g
    <2> QED BY Zenon, <2>1, <2>2 DEF Injection, IsInjective
  <1> HIDE DEF g
  <1>3. IsFiniteSet(J \ {i}) /\ Cardinality(J \ {i}) = Cardinality(J) - 1
    BY Zenon, FS_RemoveElement
  <1>4. Cardinality(Free) <= Cardinality(J \ {i})
    BY Zenon, <1>2, <1>3, FS_Injection
  <1>5. PICK a \in Nat, b \in Nat : a = Cardinality(Free) /\ b = Cardinality(J)
    BY Zenon, FS_CardinalityType
  <1>6. a <= b - 1 /\ b <= a
    BY Zenon, <1>3, <1>4, <1>5
  <1> QED BY SMT, <1>6

\* The place of a holiday h on a weekend: about a closure from it at most, and under a chained policy
\* the next free weekday or, on a day the policy leaves alone, that day.
Near(h, x) == x \in h.s - 1..h.s + kMaxClosure + 1
FoundFor(row, taken, h, x) ==
    /\ Near(h, x)
    /\ Policy(row, h.rule) \in ChainedPolicies => x = h.s \/ (~OnWeekend(row, x) /\ x \notin taken)

LEMMA ObserveFinds ==
    ASSUME NEW row, NEW h, h.s \in Int, kMaxClosure \in Nat, NEW taken,
           \E x \in h.s..h.s + kMaxClosure : ~OnWeekend(row, x) /\ x \notin taken
    PROVE  FoundFor(row, taken, h, Observe(Policy(row, h.rule), h.s, row, taken))
  <1>0. PICK s \in Int : s = h.s
    BY Zenon
  <1>1. PICK policy : s = h.s /\ policy = Policy(row, h.rule)
    BY Zenon, <1>0
  <1>2. policy \in ChainedPolicies => policy # "sat_to_fri_sun_to_mon" /\ policy # "sun_to_mon"
    BY SMT DEF ChainedPolicies
  <1> DEFINE next == {x \in s..s + kMaxClosure : ~OnWeekend(row, x) /\ x \notin taken}
             x0 == CHOOSE x \in next : \A z \in next : x <= z
  <1>3. \E x \in next : \A z \in next : x <= z
    <2> DEFINE T == {n \in Nat : s + n \in next}
    <2>1. PICK x \in next : TRUE
      BY Zenon, <1>1
    <2>2. \A z \in next : z \in Int /\ z - s \in Nat /\ s + (z - s) = z
      <3>1. \A z \in s..s + kMaxClosure : z \in Int /\ z - s \in Nat /\ s + (z - s) = z
        BY SMT
      <3> QED BY Zenon, <3>1
    <2> HIDE DEF next
    <2>3. T \in SUBSET Nat /\ \A z \in next : z - s \in T
      BY Zenon, <2>2
    <2>4. PICK n \in T : \A z \in T : n <= z
      <3>1. T # {} BY Zenon, <2>1, <2>3
      <3> HIDE DEF T
      <3> QED BY Zenon, <2>3, <3>1, Least
    <2>5. s + n \in next /\ n \in Nat
      BY Zenon, <2>4
    <2>6. ASSUME NEW z \in next PROVE s + n <= z
      <3>1. PICK d \in Nat : d = z - s /\ n <= d /\ s + d = z
        BY Zenon, <2>2, <2>3, <2>4
      <3> QED BY SMT, <2>5, <3>1
    <2> QED BY Zenon, <2>5, <2>6
  <1>4. x0 \in next
    <2> HIDE DEF next
    <2> QED BY Zenon, <1>3
  <1>5. PICK x : x = Observe(policy, s, row, taken)
    BY Zenon
  <1>6. x = x0 \/ x = s \/ (policy \notin ChainedPolicies /\ (x = s - 1 \/ x = s + 1))
    <2>1. CASE policy \in ChainedPolicies
      <3>1. policy # "sat_to_fri_sun_to_mon" /\ policy # "sun_to_mon"
        BY Zenon, <1>2, <2>1
      <3> QED BY Zenon, <1>5, <3>1 DEF Observe
    <2>2. CASE policy \notin ChainedPolicies
      <3>1. policy # "weekend_to_next_weekday" /\ policy # "sun_to_next_weekday"
        BY Zenon, <2>2 DEF ChainedPolicies
      <3>2. Observe(policy, s, row, taken) \in {s - 1, s + 1, s}
        BY SMT, <3>1 DEF Observe
      <3> QED BY Zenon, <1>5, <2>2, <3>2
    <2> QED BY Zenon, <2>1, <2>2
  <1> HIDE DEF x0
  <1>7. x0 \in s..s + kMaxClosure /\ ~OnWeekend(row, x0) /\ x0 \notin taken
    BY Zenon, <1>4
  <1>8. x \in s - 1..s + kMaxClosure + 1
    BY SMT, <1>6, <1>7
  <1> QED BY Zenon, <1>1, <1>5, <1>6, <1>7, <1>8 DEF FoundFor, Near

\* The places of the first n holidays: a weekday's own day, a weekend's the one found for it.
OpenDay(row, dated) == {s \in Days(dated) : ~OnWeekend(row, s)}
Weekends(row, dated, n) == {j \in 1..n : OnWeekend(row, dated[j].s)}
TakenBy(P, n, row, dated) == OpenDay(row, dated) \cup {P[j] : j \in Weekends(row, dated, n)}

\* One holiday's place is off the days taken before it.
LEMMA FoundOne ==
    ASSUME NEW row, NEW dated, NEW m, DatedList(dated, m), kMaxClosure \in Nat, LeavesRoom(row, dated), NEW P, NEW i \in 1..m,
           OnWeekend(row, dated[i].s), NEW taken, taken = TakenBy(P, i - 1, row, dated),
           \A j \in Weekends(row, dated, i - 1) : FoundFor(row, TakenBy(P, j - 1, row, dated), dated[j], P[j])
    PROVE  FoundFor(row, taken, dated[i], Observe(Policy(row, dated[i].rule), dated[i].s, row, taken))
  <1>1. m \in Nat /\ DOMAIN dated = 1..m /\ \A j \in 1..m : dated[j].s \in Int
    BY Zenon DEF DatedList
  <1>2. PICK s \in Int : s = dated[i].s
    BY Zenon, <1>1
  <1> DEFINE J == {j \in 1..m : dated[j].s \in s - kMaxClosure - 1..s + kMaxClosure + 1}
             Free == {x \in s..s + kMaxClosure : ~OnWeekend(row, x)}
             Q == [j \in 1..m |-> IF OnWeekend(row, dated[j].s) THEN P[j] ELSE dated[j].s]
  <1>3. Cardinality(J) <= Cardinality(Free)
    BY Zenon, <1>1, <1>2 DEF LeavesRoom
  <1>4. IsFiniteSet(J)
    <2>1. IsFiniteSet(1..m) BY SMT, <1>1, FS_Interval
    <2> QED BY Zenon, <2>1, FS_Subset
  <1>5. IsFiniteSet(Free)
    <2>1. IsFiniteSet(s..s + kMaxClosure) BY SMT, FS_Interval
    <2> QED BY Zenon, <2>1, FS_Subset
  <1>6. i \in J
    BY SMT, <1>2
  <1>7. ASSUME NEW x \in Free \cap taken PROVE \E j \in J \ {i} : Q[j] = x
    <2>1. x \in s..s + kMaxClosure /\ ~OnWeekend(row, x) /\ x \in TakenBy(P, i - 1, row, dated)
      BY Zenon
    <2>2. CASE x \in OpenDay(row, dated)
      <3>1. PICK j \in 1..m : x = dated[j].s
        BY Zenon, <1>1, <2>2 DEF OpenDay, Days
      <3>2. j # i
        BY Zenon, <2>1, <3>1
      <3>3. dated[j].s \in s - kMaxClosure - 1..s + kMaxClosure + 1
        BY SMT, <2>1, <3>1
      <3>4. Q[j] = x
        BY Zenon, <2>1, <3>1
      <3> QED BY Zenon, <3>2, <3>3, <3>4
    <2>3. CASE x \notin OpenDay(row, dated)
      <3>1. PICK j \in Weekends(row, dated, i - 1) : x = P[j]
        BY Zenon, <2>1, <2>3 DEF TakenBy
      <3>2. j \in 1..i - 1 /\ OnWeekend(row, dated[j].s)
        BY Zenon DEF Weekends
      <3>3. j \in 1..m /\ j # i
        BY SMT, <1>1, <3>2
      <3>4. PICK a \in Int : a = dated[j].s
        BY Zenon, <1>1, <3>3
      <3>5. x \in a - 1..a + kMaxClosure + 1
        BY Zenon, <3>1, <3>4 DEF FoundFor, Near
      <3>6. a \in s - kMaxClosure - 1..s + kMaxClosure + 1
        BY SMT, <2>1, <3>5
      <3>7. Q[j] = x
        BY Zenon, <3>1, <3>2, <3>3
      <3> QED BY Zenon, <3>3, <3>4, <3>6, <3>7
    <2> QED BY Zenon, <2>2, <2>3
  <1> HIDE DEF J, Q
  <1>8. PICK x \in Free : x \notin taken
    <2> HIDE DEF Free
    <2>1. \A x \in Free \cap taken : \E j \in J \ {i} : Q[j] = x
      BY Zenon, <1>7
    <2> QED BY <1>3, <1>4, <1>5, <1>6, <2>1, RoomIsLeft
  <1>9. \E z \in dated[i].s..dated[i].s + kMaxClosure : ~OnWeekend(row, z) /\ z \notin taken
    BY Zenon, <1>2, <1>8
  <1>10. PICK h : h = dated[i]
    BY Zenon
  <1> QED BY Zenon, <1>2, <1>9, <1>10, ObserveFinds

\* Every holiday's place is found off the days taken before it.
LEMMA PlacingIs ==
    ASSUME NEW row, NEW dated, NEW m, DatedList(dated, m), kMaxClosure \in Nat, LeavesRoom(row, dated)
    PROVE  \E P : /\ Place(row, dated) = TakenBy(P, m, row, dated)
                  /\ \A j \in Weekends(row, dated, m) : FoundFor(row, TakenBy(P, j - 1, row, dated), dated[j], P[j])
  <1>1. m \in Nat /\ DOMAIN dated = 1..m /\ Len(dated) = m
    BY Zenon DEF DatedList
  <1>2. PICK f : f = (CHOOSE g : IsPlacing(g, m, row, dated)) /\ IsPlacing(f, m, row, dated)
    BY Zenon, <1>1, PlacingExists
  <1>3. Place(row, dated) = f[m]
    <2>1. Place(row, dated) = (CHOOSE g : IsPlacing(g, m, row, dated))[m]
      BY Zenon, <1>1 DEF Place, IsPlacing, Days
    <2> QED BY Zenon, <1>2, <2>1
  <1>4. \A i \in 0..m : f[i] = IF i = 0 THEN OpenDay(row, dated) ELSE PlaceNext(row, f[i-1], dated[i])
    <2>1. f = [i \in 0..m |-> IF i = 0 THEN OpenDay(row, dated) ELSE PlaceNext(row, f[i-1], dated[i])]
      BY Zenon, <1>2 DEF IsPlacing, OpenDay
    <2> QED BY Zenon, <2>1
  <1> DEFINE P == [i \in 1..m |-> Observe(Policy(row, dated[i].rule), dated[i].s, row, f[i-1])]
  <1>5. \A i \in 1..m : P[i] = Observe(Policy(row, dated[i].rule), dated[i].s, row, f[i-1])
    BY Zenon
  <1> HIDE DEF P
  <1> DEFINE Found(j) == FoundFor(row, TakenBy(P, j - 1, row, dated), dated[j], P[j])
             Good(n) == f[n] = TakenBy(P, n, row, dated) /\ \A j \in Weekends(row, dated, n) : Found(j)
             I == {n \in Nat : n \in 0..m => Good(n)}
  <1>6. 0 \in I
    <2>1. 0 \in 0..m /\ 0 \in Nat /\ 1..0 = {}
      BY SMT, <1>1
    <2>2. Weekends(row, dated, 0) = {}
      BY Zenon, <2>1 DEF Weekends
    <2>3. f[0] = OpenDay(row, dated)
      BY Zenon, <1>4, <2>1
    <2>4. TakenBy(P, 0, row, dated) = OpenDay(row, dated)
      BY Zenon, <2>2 DEF TakenBy
    <2> QED BY Zenon, <2>1, <2>2, <2>3, <2>4
  <1>7. ASSUME NEW n \in Nat, n \in I PROVE n + 1 \in I
    <2>1. SUFFICES ASSUME n + 1 \in 0..m PROVE Good(n + 1)
      <3>1. n + 1 \in Nat BY SMT
      <3> QED BY Zenon, <3>1
    <2>2. PICK i \in 1..m : i = n + 1 /\ i \in 0..m /\ i # 0 /\ i - 1 = n /\ n \in 0..m
      BY SMT, <1>1, <2>1
    <2>3. Good(n)
      BY Zenon, <1>7, <2>2
    <2>4. f[i] = PlaceNext(row, f[n], dated[i])
      BY Zenon, <1>4, <2>2
    <2>5. \A j : j \in 1..i <=> j \in 1..n \/ j = i
      BY SMT, <2>2
    <2>6. CASE ~OnWeekend(row, dated[i].s)
      <3>1. Weekends(row, dated, i) = Weekends(row, dated, n)
        BY Zenon, <2>5, <2>6 DEF Weekends
      <3>2. TakenBy(P, i, row, dated) = TakenBy(P, n, row, dated)
        BY Zenon, <3>1 DEF TakenBy
      <3>3. f[i] = f[n]
        BY Zenon, <2>4, <2>6 DEF PlaceNext
      <3> QED BY Zenon, <2>2, <2>3, <3>1, <3>2, <3>3
    <2>7. CASE OnWeekend(row, dated[i].s)
      <3>1. Weekends(row, dated, i) = Weekends(row, dated, n) \cup {i}
        BY Zenon, <2>5, <2>7 DEF Weekends
      <3>2. TakenBy(P, i, row, dated) = TakenBy(P, n, row, dated) \cup {P[i]}
        BY Zenon, <3>1 DEF TakenBy
      <3>3. f[i] = f[n] \cup {P[i]}
        BY Zenon, <1>5, <2>2, <2>4, <2>7 DEF PlaceNext
      <3>4. f[i] = TakenBy(P, i, row, dated)
        BY Zenon, <2>3, <3>2, <3>3
      <3>5. Found(i)
        <4>1. PICK taken : taken = f[n] /\ taken = TakenBy(P, i - 1, row, dated)
          BY Zenon, <2>2, <2>3
        <4>2. P[i] = Observe(Policy(row, dated[i].rule), dated[i].s, row, taken)
          BY Zenon, <1>5, <2>2, <4>1
        <4>3. \A j \in Weekends(row, dated, i - 1) : FoundFor(row, TakenBy(P, j - 1, row, dated), dated[j], P[j])
          BY Zenon, <2>2, <2>3
        <4>4. FoundFor(row, taken, dated[i], Observe(Policy(row, dated[i].rule), dated[i].s, row, taken))
          BY Zenon, <2>7, <4>1, <4>3, FoundOne
        <4> QED BY Zenon, <4>1, <4>2, <4>4
      <3> QED BY Zenon, <2>2, <2>3, <3>1, <3>4, <3>5
    <2> QED BY Zenon, <2>6, <2>7
  <1>8. m \in I
    <2> HIDE DEF I
    <2> QED BY Zenon, <1>1, <1>6, <1>7, SetInduction
  <1>9. m \in 0..m
    BY SMT, <1>1
  <1>10. Good(m)
    BY Zenon, <1>1, <1>8, <1>9
  <1> QED BY Zenon, <1>3, <1>10

\* As many days as holidays.
LEMMA AsManyDays ==
    ASSUME NEW row, NEW dated, NEW m, DatedList(dated, m), kMaxClosure \in Nat, LeavesRoom(row, dated),
           \A i \in 1..m : OnWeekend(row, dated[i].s) => Policy(row, dated[i].rule) \in ChainedPolicies
    PROVE  Cardinality(Place(row, dated)) = Cardinality(Days(dated))
  <1>1. m \in Nat /\ DOMAIN dated = 1..m
    BY Zenon DEF DatedList
  <1>2. PICK P : /\ Place(row, dated) = TakenBy(P, m, row, dated)
                 /\ \A j \in Weekends(row, dated, m) : FoundFor(row, TakenBy(P, j - 1, row, dated), dated[j], P[j])
    BY Zenon, PlacingIs
  <1> DEFINE q == [i \in 1..m |-> IF OnWeekend(row, dated[i].s) THEN P[i] ELSE dated[i].s]
  <1>3. \A i \in 1..m : q[i] = IF OnWeekend(row, dated[i].s) THEN P[i] ELSE dated[i].s
    BY Zenon
  <1> HIDE DEF q
  <1>4. ASSUME NEW i \in 1..m, OnWeekend(row, dated[i].s)
        PROVE  \/ q[i] = dated[i].s
               \/ ~OnWeekend(row, q[i]) /\ q[i] \notin TakenBy(P, i - 1, row, dated)
    <2>1. i \in Weekends(row, dated, m)
      BY Zenon, <1>4 DEF Weekends
    <2>2. FoundFor(row, TakenBy(P, i - 1, row, dated), dated[i], P[i])
      BY Zenon, <1>2, <2>1
    <2> QED BY Zenon, <1>3, <1>4, <2>2 DEF FoundFor
  <1>5. ASSUME NEW i \in 1..m, NEW j \in 1..m, OnWeekend(row, dated[i].s), ~OnWeekend(row, dated[j].s)
        PROVE  q[i] # q[j]
    <2>1. q[j] = dated[j].s
      BY Zenon, <1>3, <1>5
    <2>2. q[j] \in TakenBy(P, i - 1, row, dated)
      BY Zenon, <1>1, <1>5, <2>1 DEF TakenBy, OpenDay, Days
    <2> QED BY Zenon, <1>4, <1>5, <2>1, <2>2
  <1>6. ASSUME NEW i \in 1..m, NEW j \in 1..m, OnWeekend(row, dated[i].s), OnWeekend(row, dated[j].s),
               dated[i].s # dated[j].s, j < i
        PROVE  q[i] # q[j]
    <2>1. j \in 1..i - 1
      BY SMT, <1>1, <1>6
    <2>2. j \in Weekends(row, dated, i - 1)
      BY Zenon, <1>6, <2>1 DEF Weekends
    <2>3. q[j] \in TakenBy(P, i - 1, row, dated)
      BY Zenon, <1>3, <1>6, <2>2 DEF TakenBy
    <2> QED BY Zenon, <1>4, <1>6, <2>3
  <1>7. ASSUME NEW i \in 1..m, NEW j \in 1..m, dated[i].s # dated[j].s PROVE q[i] # q[j]
    <2>1. i # j
      BY Zenon, <1>7
    <2>2. i < j \/ j < i
      BY SMT, <1>1, <2>1
    <2> QED BY Zenon, <1>3, <1>5, <1>6, <1>7, <2>2
  <1>8. ASSUME NEW i \in 1..m, NEW j \in 1..m, dated[i].s = dated[j].s PROVE q[i] = q[j]
    <2>1. CASE OnWeekend(row, dated[i].s)
      BY Zenon, <1>1, <1>8, <2>1 DEF LeavesRoom
    <2> QED BY Zenon, <1>3, <1>8, <2>1
  <1> DEFINE D == Days(dated)
             b == [s \in D |-> q[CHOOSE i \in 1..m : dated[i].s = s]]
  <1>9. ASSUME NEW i \in 1..m PROVE dated[i].s \in D /\ b[dated[i].s] = q[i]
    <2>1. dated[i].s \in D
      BY Zenon, <1>1 DEF Days
    <2> DEFINE c == CHOOSE h \in 1..m : dated[h].s = dated[i].s
    <2>2. c \in 1..m /\ dated[c].s = dated[i].s
      BY Zenon
    <2>3. b[dated[i].s] = q[c]
      BY Zenon, <2>1
    <2> HIDE DEF c
    <2> QED BY Zenon, <1>8, <2>1, <2>2, <2>3
  <1>10. \A s \in D : \E i \in 1..m : dated[i].s = s
    BY Zenon, <1>1 DEF Days
  <1> HIDE DEF b, D
  <1>11. b = [s \in D |-> b[s]]
    BY DEF b
  <1>12. \A x : x \in Place(row, dated) <=> \E i \in 1..m : x = q[i]
    BY Zenon, <1>1, <1>2, <1>3 DEF TakenBy, OpenDay, Days, Weekends
  <1>13. IsFiniteSet(D)
    <2>1. IsFiniteSet(1..m)
      BY SMT, <1>1, FS_Interval
    <2> DEFINE g == [i \in 1..m |-> dated[i].s]
    <2>2. g \in Surjection(1..m, D)
      BY Zenon, <1>9, <1>10 DEF Surjection
    <2> HIDE DEF g
    <2> QED BY Zenon, <2>1, <2>2, FS_Surjection
  <1>14. b \in [D -> Place(row, dated)]
    <2>1. \A s \in D : b[s] \in Place(row, dated)
      <3>1. TAKE s \in D
      <3>2. PICK i \in 1..m : dated[i].s = s
        BY Zenon, <1>10
      <3>3. b[s] = q[i]
        BY Zenon, <1>9, <3>2
      <3> QED BY Zenon, <1>12, <3>3
    <2> QED BY Zenon, <1>11, <2>1
  <1>15. b \in Surjection(D, Place(row, dated))
    <2>1. \A x \in Place(row, dated) : \E s \in D : b[s] = x
      <3>1. TAKE x \in Place(row, dated)
      <3>2. PICK i \in 1..m : x = q[i]
        BY Zenon, <1>12
      <3> QED BY Zenon, <1>9, <3>2
    <2> QED BY Zenon, <1>14, <2>1 DEF Surjection
  <1>16. b \in Injection(D, Place(row, dated))
    <2>1. \A s, t \in D : b[s] = b[t] => s = t
      <3>1. TAKE s \in D, t \in D
      <3>2. PICK i \in 1..m, j \in 1..m : s = dated[i].s /\ t = dated[j].s
        BY Zenon, <1>10
      <3> QED BY Zenon, <1>7, <1>9, <3>2
    <2> QED BY Zenon, <1>14, <2>1 DEF Injection, IsInjective
  <1>17. Cardinality(Place(row, dated)) = Cardinality(D)
    BY Zenon, <1>13, <1>15, <1>16, FS_Surjection
  <1> QED BY Zenon, <1>17 DEF D

\* Places are days.
LEMMA PlacesTyped ==
    ASSUME NEW row, NEW dated, NEW m, DatedList(dated, m), kMaxClosure \in Nat, LeavesRoom(row, dated)
    PROVE  Place(row, dated) \subseteq Int
  <1>1. m \in Nat /\ DOMAIN dated = 1..m /\ \A i \in 1..m : dated[i].s \in Int
    BY Zenon DEF DatedList
  <1>2. PICK P : /\ Place(row, dated) = TakenBy(P, m, row, dated)
                 /\ \A j \in Weekends(row, dated, m) : FoundFor(row, TakenBy(P, j - 1, row, dated), dated[j], P[j])
    BY Zenon, PlacingIs
  <1>3. \A a \in Int : \A x \in a - 1..a + kMaxClosure + 1 : x \in Int
    BY SMT
  <1>4. \A j \in Weekends(row, dated, m) : P[j] \in Int
    BY Zenon, <1>1, <1>2, <1>3 DEF FoundFor, Near, Weekends
  <1> QED BY Zenon, <1>1, <1>2, <1>4 DEF TakenBy, OpenDay, Days

\* The sandwich rule leaves no weekday between two holidays, its own included.
LEMMA NothingBetween ==
    ASSUME NEW row, NEW hs, hs \subseteq Int, row.sandwich
    PROVE  Between(row, Sandwiched(row, hs)) \subseteq Sandwiched(row, hs)
  <1> DEFINE all == hs \cup Between(row, hs)
  <1>1. Sandwiched(row, hs) = all
    BY Zenon DEF Sandwiched
  <1>2. ASSUME NEW x \in Between(row, all) PROVE x \in all
    <2>1. PICK s \in all : x = s + 1 /\ ~OnWeekend(row, s + 1) /\ s + 2 \in all
      BY Zenon, <1>2 DEF Between
    <2>2. \A z \in Between(row, hs) : \E r \in hs : z = r + 1 /\ r + 2 \in hs
      BY Zenon DEF Between
    <2>3. CASE s \in Between(row, hs)
      <3>1. PICK r \in hs : s = r + 1 /\ r + 2 \in hs
        BY Zenon, <2>2, <2>3
      <3>2. s + 1 = r + 2
        BY SMT, <3>1
      <3> QED BY Zenon, <2>1, <3>1, <3>2
    <2>4. CASE s \in hs /\ s + 2 \in Between(row, hs)
      <3>1. PICK r \in hs : s + 2 = r + 1
        BY Zenon, <2>2, <2>4
      <3>2. s + 1 = r
        BY SMT, <2>4, <3>1
      <3> QED BY Zenon, <2>1, <3>1, <3>2
    <2>5. CASE s \in hs /\ s + 2 \in hs
      BY Zenon, <2>1, <2>5 DEF Between
    <2> QED BY Zenon, <2>1, <2>3, <2>4, <2>5
  <1> HIDE DEF all
  <1> QED BY Zenon, <1>1, <1>2

\* A day of the horizon is in one of its years.
LEMMA YearKnown == ASSUME NEW s \in Horizon PROVE Civil(s).y \in Years
  <1>0. FirstYear \in Int /\ LastYear \in Int
    BY SMT, YearsAssumption
  <1>1. PICK a \in Int, z \in Int : a = Jan1(FirstYear) /\ z = Jan1(LastYear + 1)
    BY SMT, <1>0, JanTyped
  <1>2. s \in Int /\ a <= s /\ s < z
    BY SMT, <1>1 DEF Horizon
  <1>3. PICK c : c = Civil(s) /\ IsDate(c, s)
    BY Zenon, <1>2, CivilIsTheDate
  <1>4. PICK y \in Int, b \in Int, e \in Int : y = c.y /\ b = Jan1(y) /\ e = Jan1(y + 1) /\ b <= s /\ s < e
    <2>1. PICK y \in Int, m \in 1..12, d \in Int : y = c.y /\ m = c.m /\ d \in 1..MonthLength(y, m) /\ Ymd(y, m, d) = s
      <3>1. c.y \in Int /\ c.m \in 1..12 /\ c.d \in 1..MonthLength(c.y, c.m) /\ Ymd(c.y, c.m, c.d) = s
        BY Zenon, <1>3 DEF IsDate
      <3>2. c.d \in Int
        BY SMT, <3>1, LengthTyped
      <3> QED BY Zenon, <3>1, <3>2
    <2>2. PICK l \in Int : l = (IF IsLeap(y) THEN 366 ELSE 365)
      BY SMT
    <2>3. PICK w \in Nat, n \in Nat : w = DaysBefore(y, m) /\ n = MonthLength(y, m) /\ w + n <= l
      BY SMT, <2>2 DEF DaysBefore, MonthLength
    <2>4. PICK b \in Int : b = Jan1(y)
      BY Zenon, JanTyped
    <2>5. y + 1 \in Int /\ Jan1(y + 1) = b + l
      BY SMT, <2>2, <2>4, JanStep
    <2>6. b + w + d - 1 = s
      BY SMT, <2>1, <2>3, <2>4 DEF Ymd
    <2>7. b <= s /\ s < b + l
      BY SMT, <1>2, <2>1, <2>3, <2>6
    <2> QED BY Zenon, <2>1, <2>4, <2>5, <2>7, JanTyped
  <1>5. FirstYear <= y
    <2>1. y + 1 <= FirstYear => e <= a
      BY SMT, <1>0, <1>1, <1>4, JanIncreases
    <2> QED BY SMT, <1>0, <1>2, <1>4, <2>1
  <1>6. y <= LastYear
    <2>1. LastYear + 1 <= y => z <= b
      BY SMT, <1>0, <1>1, <1>4, JanIncreases
    <2> QED BY SMT, <1>0, <1>2, <1>4, <2>1
  <1> QED BY SMT, <1>0, <1>3, <1>4, <1>5, <1>6 DEF Years

(* Every calendar row that dates its holidays and leaves room among them keeps them apart in *)
(* every year: as many days are closed as holidays were dated, and no open weekday is left   *)
(* between two of them.                                                                       *)
THEOREM EachHolidayHasItsDay == Spec => []HolidaysStayApart
  <1>1. ASSUME req \in Requests PROVE HolidaysStayApart
    <2>1. PICK y : y = Civil(req.spot).y /\ y \in Years
      <3>1. req.spot \in Horizon
        BY Zenon, <1>1, RequestsAssumption
      <3> QED BY Zenon, <3>1, YearKnown
    <2>2. y \in Int /\ kMaxClosure \in Nat
      BY SMT, <2>1, YearsAssumption, Closures DEF Years
    <2>3. ASSUME NEW c \in Calendars, Row[c].joins = << >>
          PROVE  KeptApart(Row[c], Dated(Row[c], y), Observed(Row[c], y))
      <3>1. PICK row, dated : row = Row[c] /\ dated = Dated(row, y)
        BY Zenon
      <3>2. /\ \E n \in 0..Len(row.rules) : DOMAIN row.rules = 1..n
            /\ \A i \in DOMAIN row.rules : DatesEveryYear(row.rules[i])
            /\ LeavesRoom(row, dated)
        BY Zenon, <2>1, <2>3, <3>1, RowsAssumption
      <3>3. PICK n \in Nat : DOMAIN row.rules = 1..n
        BY SMT, <3>2
      <3>4. PICK m : DatedList(dated, m)
        BY Zenon, <2>2, <3>1, <3>2, <3>3, DatedIs
      <3>5. Observed(row, y) = Place(row, dated)
        BY Zenon, <3>1 DEF Observed
      <3>6. ASSUME \A i \in DOMAIN dated : OnWeekend(row, dated[i].s) => Policy(row, dated[i].rule) \in ChainedPolicies
            PROVE  Cardinality(Place(row, dated)) = Cardinality({dated[i].s : i \in DOMAIN dated})
        <4>1. DOMAIN dated = 1..m
          BY Zenon, <3>4 DEF DatedList
        <4>2. Cardinality(Place(row, dated)) = Cardinality(Days(dated))
          BY Zenon, <2>2, <3>2, <3>4, <3>6, <4>1, AsManyDays
        <4> QED BY Zenon, <4>2 DEF Days
      <3>7. row.sandwich => Between(row, Sandwiched(row, Place(row, dated))) \subseteq Sandwiched(row, Place(row, dated))
        BY Zenon, <2>2, <3>2, <3>4, PlacesTyped, NothingBetween
      <3>8. KeptApart(row, dated, Place(row, dated))
        BY Zenon, <3>6, <3>7 DEF KeptApart
      <3> QED BY Zenon, <3>1, <3>5, <3>8
    <2> QED BY Zenon, <2>1, <2>3 DEF HolidaysStayApart
  <1>2. ScheduleInv => HolidaysStayApart
    BY Zenon, <1>1 DEF ScheduleInv
  <1> QED BY <1>2, ScheduleInvariant, PTL

=============================================================================
