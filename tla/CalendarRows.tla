---------------------------- MODULE CalendarRows ----------------------------
(***************************************************************************)
(* The baked calendars of the conventions registry (conventions_data.hpp), *)
(* in the form HolidayRules reads: rules that hold every year, the days a  *)
(* year's table lists (as 100 * month + day), and the legs of joint ones.  *)
(***************************************************************************)
EXTENDS Integers, Sequences

Blank == [kind |-> "", month |-> 0, day |-> 0, weekday |-> -1, n |-> 0, days |-> 0,
          from |-> 0, to |-> 0, observance |-> "", exceptFirstFriday |-> FALSE]

By(policy, r) == [r EXCEPT !.observance = policy]
From(y, r) == [r EXCEPT !.from = y]
InYear(y, r) == [r EXCEPT !.from = y, !.to = y]
ExceptFirstFriday(r) == [r EXCEPT !.exceptFirstFriday = TRUE]

Fixed(m, d) == [Blank EXCEPT !.kind = "fixed", !.month = m, !.day = d]
NthDay(m, w, n) ==
    [Blank EXCEPT !.kind = "nth_weekday", !.month = m, !.weekday = w, !.n = n, !.observance = "none"]
LastDay(m, w) == [Blank EXCEPT !.kind = "last_weekday", !.month = m, !.weekday = w, !.observance = "none"]
WeekdayBefore(m, d, w) ==
    [Blank EXCEPT !.kind = "weekday_before", !.month = m, !.day = d, !.weekday = w, !.observance = "none"]
EasterDay(days) == [Blank EXCEPT !.kind = "easter_offset", !.days = days]
Equinoctial(kind) == [Blank EXCEPT !.kind = kind]

\* The days a year's table lists: closed as they stand, closed by the calendar's policy, worked.
Listed(y, days, kind) ==
    [i \in DOMAIN days |-> InYear(y, [Fixed(days[i] \div 100, days[i] % 100) EXCEPT !.kind = kind])]
Marked(y, days) == Listed(y, days, "fixed")
On(y, days) == [i \in DOMAIN days |-> By("none", Marked(y, days)[i])]
Worked(y, days) == Listed(y, days, "working_day")

SatSun == {5, 6}
Base(observance, sandwich, rules) ==
    [weekend |-> SatSun, joins |-> << >>, rules |-> rules, observance |-> observance, sandwich |-> sandwich]

\* A joint calendar has legs and no rules of its own.
Joint(legs) == [Base("", FALSE, << >>) EXCEPT !.joins = legs]

ARS ==
    Base("none", FALSE,
         <<Fixed(1, 1), EasterDay(-48), EasterDay(-47), Fixed(3, 24), Fixed(4, 2), EasterDay(-2), Fixed(5, 1),
           Fixed(5, 25), Fixed(6, 17), Fixed(6, 20), Fixed(7, 9), NthDay(8, 0, 3), Fixed(10, 12), Fixed(11, 20),
           Fixed(12, 8), Fixed(12, 25)>>)

AUD ==
    Base("weekend_to_next_weekday", FALSE,
         <<Fixed(1, 1), Fixed(1, 26), EasterDay(-2), EasterDay(1), By("none", Fixed(4, 25)), NthDay(6, 0, 2),
           NthDay(8, 0, 1), NthDay(10, 0, 1), Fixed(12, 25), Fixed(12, 26)>>)

BRL ==
    Base("none", FALSE,
         <<Fixed(1, 1), EasterDay(-48), EasterDay(-47), EasterDay(-2), Fixed(4, 21), Fixed(5, 1), EasterDay(60),
           Fixed(9, 7), Fixed(10, 12), Fixed(11, 2), Fixed(11, 15), From(2024, Fixed(11, 20)), Fixed(12, 25)>>)

CAD ==
    Base("weekend_to_next_weekday", FALSE,
         <<Fixed(1, 1), NthDay(2, 0, 3), EasterDay(-2), WeekdayBefore(5, 25, 0), Fixed(7, 1), NthDay(8, 0, 1),
           NthDay(9, 0, 1), From(2021, Fixed(9, 30)), NthDay(10, 0, 2), Fixed(11, 11), Fixed(12, 25),
           Fixed(12, 26)>>)

CHF ==
    Base("none", FALSE,
         <<Fixed(1, 1), Fixed(1, 2), EasterDay(-2), EasterDay(1), Fixed(5, 1), EasterDay(39), EasterDay(50),
           Fixed(8, 1), Fixed(12, 25), Fixed(12, 26)>>)

CNY ==
    Base("none", FALSE,
         <<Fixed(1, 1), Fixed(5, 1), Fixed(10, 1), Fixed(10, 2), Fixed(10, 3)>>
         \o On(2024, <<101, 212, 213, 214, 215, 216, 404, 405, 501, 502, 503, 610, 916, 917, 1001, 1002, 1003, 1004, 1007>>)
         \o Worked(2024, <<204, 218, 407, 428, 511, 914, 929, 1012>>)
         \o On(2025, <<129, 130, 131, 404, 531, 1006>>)
         \o On(2026, <<217, 218, 219, 405, 619, 925>>)
         \o On(2027, <<206, 207, 208, 405, 609, 915>>)
         \o On(2028, <<126, 127, 128, 404, 528, 1003>>)
         \o On(2029, <<213, 214, 215, 404, 616, 922>>)
         \o On(2030, <<203, 204, 205, 405, 605, 912>>)
         \o On(2031, <<123, 124, 125, 405, 624, 1001>>)
         \o On(2032, <<211, 212, 213, 404, 612, 919>>)
         \o On(2033, <<131, 201, 202, 404, 601, 908>>)
         \o On(2034, <<219, 220, 221, 405, 620, 927>>)
         \o On(2035, <<208, 209, 210, 405, 610, 916>>))

EUR ==
    Base("none", FALSE,
         <<Fixed(1, 1), EasterDay(-2), EasterDay(1), Fixed(5, 1), Fixed(12, 25), Fixed(12, 26)>>)

EURUSD == Joint(<<"USD", "EUR">>)

GBP ==
    Base("weekend_to_next_weekday", FALSE,
         <<Fixed(1, 1), EasterDay(-2), EasterDay(1), NthDay(5, 0, 1), LastDay(5, 0), LastDay(8, 0),
           Fixed(12, 25), Fixed(12, 26)>>)

GBPUSD == Joint(<<"USD", "GBP">>)

IDR ==
    Base("none", FALSE,
         <<Fixed(1, 1), EasterDay(-2), Fixed(5, 1), Fixed(6, 1), Fixed(8, 17), Fixed(12, 25)>>
         \o On(2024, <<101, 329, 509, 1225>>)
         \o On(2025, <<101, 418, 529, 1225>>)
         \o On(2026, <<320, 321, 527>>)
         \o On(2027, <<309, 310, 516>>)
         \o On(2028, <<226, 227, 505>>)
         \o On(2029, <<214, 215, 424>>)
         \o On(2030, <<204, 205, 413>>)
         \o On(2031, <<124, 125, 402>>)
         \o On(2032, <<114, 115, 322>>)
         \o On(2033, <<102, 103, 1223, 1224, 311>>)
         \o On(2034, <<1212, 1213, 301>>)
         \o On(2035, <<1201, 1202, 218>>))

INR ==
    Base("none", FALSE,
         <<Fixed(1, 26), EasterDay(-2), Fixed(4, 14), Fixed(8, 15), Fixed(10, 2), Fixed(12, 25)>>
         \o On(2024, <<122, 126, 219, 308, 325, 329, 401, 409, 411, 417, 501, 520, 523, 617, 717, 815, 916, 1002, 1101,
             1115, 1225>>)
         \o On(2025, <<219, 226, 314, 331, 410, 414, 418, 501, 512, 815, 905, 1002, 1022, 1105, 1225>>))

JPY ==
    Base("sun_to_next_weekday", TRUE,
         <<By("sun_to_mon", Fixed(1, 1)), By("none", Fixed(1, 2)), By("none", Fixed(1, 3)), NthDay(1, 0, 2),
           Fixed(2, 11), From(2020, Fixed(2, 23)), Fixed(4, 29), Fixed(5, 3), Fixed(5, 4), Fixed(5, 5),
           NthDay(7, 0, 3), Fixed(8, 11), NthDay(9, 0, 3), NthDay(10, 0, 2), Fixed(11, 3), Fixed(11, 23),
           By("none", Fixed(12, 31)), Equinoctial("vernal_equinox"), Equinoctial("autumnal_equinox")>>)

KRWListed ==
    On(2024, <<101, 209, 212, 301, 410, 501, 506, 515, 606, 815, 916, 917, 918, 1003, 1009, 1225>>)
    \o On(2025, <<101, 128, 129, 130, 303, 501, 505, 506, 606, 815, 1003, 1006, 1007, 1008, 1009, 1225>>)
    \o On(2026, <<101, 216, 217, 218, 302, 501, 505, 525, 817, 924, 925, 1005, 1009, 1225>>)
    \o On(2027, <<101, 208, 209, 301, 505, 513, 816, 914, 915, 916, 1004, 1011, 1227>>)
    \o On(2028, <<126, 127, 128, 301, 501, 502, 505, 606, 815, 1002, 1003, 1004, 1005, 1009, 1225>>)
    \o On(2029, <<101, 212, 213, 214, 301, 501, 507, 521, 606, 815, 921, 924, 1003, 1009, 1225>>)
    \o On(2030, <<101, 204, 205, 301, 501, 506, 509, 606, 815, 911, 912, 913, 1003, 1009, 1225>>)
    \o On(2031, <<101, 122, 123, 124, 303, 501, 505, 528, 606, 815, 930, 1001, 1002, 1003, 1009, 1225>>)
    \o On(2032, <<101, 210, 211, 212, 301, 505, 517, 816, 920, 921, 1004, 1011, 1227>>)
    \o On(2033, <<131, 201, 202, 301, 505, 506, 606, 815, 907, 908, 909, 1003, 1010, 1226>>)
    \o On(2034, <<220, 221, 301, 501, 505, 525, 606, 815, 926, 927, 928, 1003, 1009, 1225>>)
    \o On(2035, <<101, 207, 208, 209, 301, 501, 507, 515, 606, 815, 917, 918, 1003, 1009, 1225>>)

KRW == Base("none", FALSE, <<Fixed(1, 1), Fixed(3, 1), Fixed(5, 5), Fixed(6, 6), Fixed(8, 15), Fixed(10, 3), Fixed(10, 9),
         Fixed(12, 25)>> \o KRWListed)

MXN ==
    Base("none", FALSE,
         <<Fixed(1, 1), NthDay(2, 0, 1), NthDay(3, 0, 3), EasterDay(-3), EasterDay(-2), Fixed(5, 1),
           Fixed(9, 16), NthDay(11, 0, 3), Fixed(12, 25)>>
         \o Marked(2024, <<1001>>)
         \o Marked(2030, <<1001>>)
         \o Marked(2036, <<1001>>)
         \o <<Fixed(11, 2), Fixed(12, 12)>>)

NONE == Base("none", FALSE, << >>)

RUB ==
    Base("none", FALSE,
         <<Fixed(1, 1), Fixed(1, 2), Fixed(1, 3), Fixed(1, 4), Fixed(1, 5), Fixed(1, 6), Fixed(1, 7),
           Fixed(1, 8), Fixed(2, 23), Fixed(3, 8), Fixed(5, 1), Fixed(5, 9), Fixed(6, 12), Fixed(11, 4)>>)

SAR ==
    [Base("none", FALSE,
         <<Fixed(9, 23)>>
         \o On(2024, <<409, 410, 411, 414, 923>>)
         \o On(2025, <<330, 331, 401, 402, 403, 923>>)
         \o On(2026, <<319, 322, 323, 324, 923>>)
         \o On(2027, <<308, 309, 310, 311, 923>>)
         \o On(2028, <<227, 228, 229, 301>>)
         \o On(2029, <<213, 214, 215, 218, 923>>)
         \o On(2030, <<204, 205, 206, 207, 413, 414, 415, 416>>)
         \o On(2031, <<124, 125, 126, 127, 402, 403, 404, 405>>)
         \o On(2032, <<114, 115, 116, 117, 322, 323, 324, 325>>)
         \o On(2033, <<102, 103, 104, 105, 1223, 1224, 1225, 1226, 311, 312, 313, 314>>)
         \o On(2034, <<1212, 1213, 1214, 1215, 301, 302, 303, 304>>)
         \o On(2035, <<1201, 1202, 1203, 1204, 218, 219, 220, 221>>))
        EXCEPT !.weekend = {4, 5}]

TRY ==
    Base("none", FALSE,
         <<Fixed(1, 1), Fixed(4, 23), Fixed(5, 1), Fixed(5, 19), From(2017, Fixed(7, 15)), Fixed(8, 30),
           Fixed(10, 29)>>
         \o On(2024, <<101, 410, 411, 412, 423, 501, 617, 618, 619, 715, 830, 1029>>)
         \o On(2025, <<101, 331, 401, 402, 423, 501, 519, 606, 609, 715, 1029>>)
         \o On(2026, <<101, 320, 423, 501, 519, 526, 527, 528, 529, 715, 1029>>)
         \o On(2027, <<101, 310, 311, 312, 423, 517, 518, 519, 715, 830, 1029>>)
         \o On(2028, <<228, 229, 501, 504, 505, 519, 830>>)
         \o On(2029, <<101, 215, 216, 423, 424, 425, 426, 501, 830, 1029>>)
         \o On(2030, <<101, 205, 206, 207, 415, 416, 423, 501, 715, 830, 1029>>)
         \o On(2031, <<101, 127, 402, 403, 404, 423, 501, 519, 715, 1029>>)
         \o On(2032, <<101, 114, 115, 116, 322, 323, 324, 423, 519, 715, 830, 1029>>)
         \o On(2033, <<103, 104, 105, 311, 314, 519, 715, 830, 1223>>)
         \o On(2034, <<228, 301, 302, 303, 501, 519, 830, 1212, 1213, 1214>>)
         \o On(2035, <<1201, 1202, 1203, 218, 219, 220, 221>>))

USD ==
    Base("sat_to_fri_sun_to_mon", FALSE,
         <<Fixed(1, 1), NthDay(1, 0, 3), NthDay(2, 0, 3), By("none", ExceptFirstFriday(EasterDay(-2))),
           LastDay(5, 0), From(2022, Fixed(6, 19)), Fixed(7, 4), NthDay(9, 0, 1), NthDay(10, 0, 2),
           By("sun_to_mon", Fixed(11, 11)), NthDay(11, 3, 4), Fixed(12, 25)>>)

USDandFED == Joint(<<"USD", "USDFED">>)

USDFED ==
    Base("sun_to_mon", FALSE,
         <<Fixed(1, 1), NthDay(1, 0, 3), NthDay(2, 0, 3), LastDay(5, 0), From(2021, Fixed(6, 19)), Fixed(7, 4),
           NthDay(9, 0, 1), NthDay(10, 0, 2), Fixed(11, 11), NthDay(11, 3, 4), Fixed(12, 25)>>)

USDSOFR ==
    Base("sat_to_fri_sun_to_mon", FALSE,
         <<Fixed(1, 1), NthDay(1, 0, 3), NthDay(2, 0, 3), By("none", EasterDay(-2)), LastDay(5, 0),
           From(2022, Fixed(6, 19)), Fixed(7, 4), NthDay(9, 0, 1), NthDay(10, 0, 2),
           By("sun_to_mon", Fixed(11, 11)), NthDay(11, 3, 4), Fixed(12, 25)>>)

USDJPY == Joint(<<"USD", "JPY">>)

ZAR ==
    Base("sun_to_mon", FALSE,
         <<Fixed(1, 1), Fixed(3, 21), EasterDay(-2), By("none", EasterDay(1)), Fixed(4, 27), Fixed(5, 1),
           Fixed(6, 16), Fixed(8, 9), Fixed(9, 24), Fixed(12, 16), Fixed(12, 25), Fixed(12, 26)>>
         \o Marked(2024, <<529>>))

kCalendars ==
    [ARS |-> ARS, AUD |-> AUD, BRL |-> BRL, CAD |-> CAD, CHF |-> CHF, CNY |-> CNY, EUR |-> EUR,
     EURUSD |-> EURUSD, GBP |-> GBP, GBPUSD |-> GBPUSD, IDR |-> IDR, INR |-> INR, JPY |-> JPY, KRW |-> KRW,
     MXN |-> MXN, NONE |-> NONE, RUB |-> RUB, SAR |-> SAR, TRY |-> TRY, USD |-> USD, USDandFED |-> USDandFED,
     USDFED |-> USDFED, USDSOFR |-> USDSOFR, USDJPY |-> USDJPY, ZAR |-> ZAR]
=============================================================================
