------------------------------ MODULE MCCompile ------------------------------
(* Specifications for Compile: families of documents, one per pass of it.      *)
EXTENDS Compile

MCBusiness == {0, 1, 2, 3, 4, 7, 8, 9, 10, 11, 14, 15}

Ins(type, kind, end) ==
    [id |-> Absent, type |-> type, kind |-> kind, start |-> Absent, end |-> end, adds |-> TRUE, quote |-> TRUE,
     region |-> Absent, side |-> Absent, bench |-> Absent, den |-> Absent, comps |-> << >>, knots |-> << >>]
Curve(id, insts) ==
    [id |-> id, kind |-> "outright", base |-> Absent, ccy |-> "USD", regions |-> << >>, insts |-> insts]
Over(id, base, insts) == [Curve(id, insts) EXCEPT !.kind = "spread", !.base = base]
Region(id, policy) == [id |-> id, policy |-> policy, lam |-> Absent]

ParSwap == Ins("swap", "ParRate", 14)
Basis(bench) == [Ins("basis", "ParSpread", 14) EXCEPT !.bench = bench]
Meeting(end) == [Ins("meeting", "Rate", end) EXCEPT !.side = "front"]
Turn(end, quoted) == [Ins("turn", "TurnJump", end) EXCEPT !.adds = FALSE, !.quote = quoted]
Future == [Ins("fut", "Rate", 12) EXCEPT !.start = 5, !.region = "back"]
Hung(end) == [Ins("portfolio", "ParRate", Absent) EXCEPT !.comps = <<9, end>>,
                 !.knots = <<[t |-> 6, region |-> Absent, side |-> IF end = 11 THEN Absent ELSE "back"]>>]

\* The three curves of a chain in every order of the document, and chains that are none.
Chained(base) == {<<Curve("a", <<ParSwap>>), Over("b", base, <<Basis(Absent)>>), Over("c", "b", <<Basis(bench)>>)>> :
                      bench \in {Absent, "a", "c", "z"}}
Stacks == {<<s[p[1]], s[p[2]], s[p[3]]>> : s \in UNION {Chained(base) : base \in {"a", "c", "z", Absent}},
                                           p \in {<<1, 2, 3>>, <<3, 1, 2>>, <<2, 3, 1>>, <<3, 2, 1>>}}
             \cup {<<Over("a", Absent, <<ParSwap>>)>>}

\* Meetings as listed, one of them maybe only a knot, under each layout.
Layouts == {<< >>,
            <<Region("front", "Flat"), Region("back", "Hermite")>>,
            <<[Region("front", "Flat") EXCEPT !.lam = 1], Region("back", "Hermite")>>,
            <<Region("front", "Flat"), [Region("back", "Tension") EXCEPT !.lam = 1]>>,
            <<Region("back", "Cubic")>>}
Listed(ends, quoted) == [j \in DOMAIN ends |-> [Meeting(ends[j]) EXCEPT !.quote = quoted[j]]]
Meetings == {<<[Curve("a", Listed(ends, q) \o <<last>>) EXCEPT !.regions = regions]>> :
                 ends \in {<<3, 8, 10>>, <<10, 3, 8>>, <<5, 7, 2>>, <<11, 15, 6>>, <<1, 8, 3>>},
                 q \in {<<TRUE, TRUE, TRUE>>, <<TRUE, FALSE, TRUE>>},
                 last \in {ParSwap, Future, Hung(11), Hung(1)}, regions \in Layouts}

\* Turns, the second of them maybe a knot too; and two meetings under one id.
Turned == {<<Curve("a", <<Turn(4, q[1]), ParSwap, [Turn(6, q[2]) EXCEPT !.adds = adds], Turn(10, q[3])>>)>> :
               q \in [1..3 -> BOOLEAN], adds \in BOOLEAN}
Shared == {<<Curve("a", <<[Meeting(e[1]) EXCEPT !.id = "m"], Meeting(e[2]), [Meeting(e[3]) EXCEPT !.id = "m"]>>)>> :
               e \in {<<3, 8, 10>>, <<10, 3, 8>>, <<8, 10, 3>>}}

\* One row of each kind on the foreign curve of a pair, with what it names and without.
Rows == {[Ins("any", kind, end) EXCEPT !.den = den, !.id = "x"] :
             kind \in {"Rate", "ZeroCouponRate", "FxForward", "XccyMtmBasis", "TurnJump"},
             end \in {0, 1, 9, Absent, Bad}, den \in {Absent, "a", "f"}}
Pairs == {<<Curve("a", <<ParSwap>>), [f EXCEPT !.ccy = "EUR"]>> :
             f \in {Curve("f", <<row, ParSwap>>) : row \in Rows} \cup {Over("f", "a", <<row>>) : row \in Rows}}

MCSpecs == [curves : Stacks \cup Meetings \cup Turned \cup Shared \cup Pairs, smoothness : {"off", "light"}]
=============================================================================
