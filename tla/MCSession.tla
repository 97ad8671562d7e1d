----------------------------- MODULE MCSession -----------------------------
(* One scheduled observation and two books over two dates, two markets and three band *)
(* settings: none, one that holds the first market and one that holds the second.     *)
EXTENDS Session, TLC

CONSTANTS m1, m2, futures, spot, seasoned

TwoMarkets == {m1, m2}
TwoBands   == {{m1, m2}, {m1}, {m2}}
BothDates  == {1, 2}
FutureSchedule == (futures :> {1, 2})
NoSchedule     == <<>>
SeasonedBook   == (spot :> {}) @@ (seasoned :> {1})
SeasonedOnly   == (seasoned :> {1})

\* No action reads what the last call returned.
SessionView == <<probVars, fixVars, engine, streamVars, solveVars, bookVars>>
=============================================================================
