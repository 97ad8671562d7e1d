---------------------------- MODULE MCSchedules ----------------------------
(* Schedules around month ends, year ends and long closures, on calendars of every kind. *)
EXTENDS Legs, CalendarRows

Spots == {Ymd(2021, 12, 24), Ymd(2022, 1, 29), Ymd(2022, 4, 28), Ymd(2022, 8, 31), Ymd(2023, 12, 14)}
Spans(s) == {PlusMonths(s, 2), PlusMonths(s, 6), EndOfMonth(Civil(PlusMonths(s, 5)).y, Civil(PlusMonths(s, 5)).m),
             PlusMonths(s, 4) + 11, s + 2, s}

Rules ==
    {DefaultRule, [DefaultRule EXCEPT !.termBdc = "Following"]}
    \cup {[DefaultRule EXCEPT !.side = "Back", !.length = "Long"]}
    \cup [side : {"Back"}, length : {"Short", "Long"}, eom : {TRUE}, eomAuto : {FALSE}, dom : {0}, termBdc : {""}]
    \cup [side : {"Front"}, length : {"Short", "Long"}, eom : {FALSE}, eomAuto : {FALSE, TRUE}, dom : {0, 30}, termBdc : {""}]

Months(m) == [months |-> m, days |-> 0]
Days(d) == [months |-> 0, days |-> d]

MCConventions ==
    {[payLag |-> 2, overnight |-> TRUE, fixingLag |-> 0, dc |-> "ACT/360"],
     [payLag |-> 0, overnight |-> FALSE, fixingLag |-> 2, dc |-> "30E/360"]}

Tokens == {[kind |-> "tenor", step |-> Months(6)], [kind |-> "tenor", step |-> Days(40)],
           [kind |-> "iso", date |-> Ymd(2022, 6, 4)], [kind |-> "imm", y |-> 2022, m |-> 6]}

Ends == UNION {{[spot |-> s, mat |-> m] : m \in Spans(s)} : s \in Spots}
TokenEnds(c) ==
    {[spot |-> Resolve([kind |-> t], Ymd(2021, 12, 25), c, "Following", 2),
      mat |-> Resolve(u, Ymd(2021, 12, 25), c, "Following", 2)] : t \in {"spot", "on", "tn"}, u \in Tokens}

Asked(cals, ends, steps, bdcs, rules) ==
    {[cal |-> c, spot |-> e.spot, mat |-> e.mat, step |-> st, bdc |-> b, rule |-> r] :
        c \in cals, e \in ends, st \in steps, b \in bdcs, r \in rules}

\* The requests, of the calendars' views, each resolved once.
RequestsOf(view) ==
    Asked({view["GBPUSD"], view["JPY"]}, Ends, {Months(1), Months(3), Days(28)},
          {"ModifiedFollowing", "Preceding"}, Rules)
    \cup Asked({view["GBPUSD"]}, TokenEnds(view["GBPUSD"]), {Months(1)}, {"Following"}, {DefaultRule})
    \cup Asked({view["CNY"]}, {[spot |-> s, mat |-> s + 91] : s \in {Ymd(2024, 8, 30), Ymd(2024, 9, 3)}},
               {Months(1), Days(28)}, {"Unadjusted", "ModifiedPreceding", "Following"}, {DefaultRule})
    \cup Asked(Range(view), {[spot |-> s, mat |-> PlusMonths(s, 6)] : s \in Spots}, {Months(1)},
               {"ModifiedFollowing"}, {DefaultRule})
MCRequests == UNION {RequestsOf(view) : view \in {[c \in Calendars |-> View(c)]}}
=============================================================================
