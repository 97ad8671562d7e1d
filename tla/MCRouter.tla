------------------------------- MODULE MCRouter -------------------------------
(* Bundles for Router: all compiled; mixed, on the tier, off it and refused    *)
(* by it; all on the AAD blocks.                                              *)
EXTENDS Router

None == [lo |-> 0, up |-> 0, dc |-> 1]
Narrow == [lo |-> 0, up |-> 1, dc |-> 1]
Dead == [lo |-> 0, up |-> 2, dc |-> 0]

MCBands == {None, Narrow, Dead}

OneSided == [n |-> 1, b |-> [j \in {0} |-> 1], s |-> [i \in 0..1 |-> IF i = 0 THEN 0 ELSE 2]]

R(kind, data, band, off, deep, queries, states) ==
    [kind |-> kind, data |-> data, m |-> 0, band |-> band, off |-> off, deep |-> deep,
     queries |-> queries, states |-> states]
Near == <<<<1, 1>>>>
Row(band) == R("quote", PlainMap, band, FALSE, FALSE, Near, {})
Deep(band) == R("quote", PlainMap, band, FALSE, TRUE, <<<<2, 2>>, <<2, 1>>>>, {})
Off(band, queries) == R("quote", PlainMap, band, TRUE, FALSE, queries, {})
Raw(band, queries, states) == R("quote", PlainMap, band, TRUE, FALSE, queries, states)
Log == R("log", PlainMap, None, FALSE, FALSE, Near, {})
Data == R("data", OneSided, None, FALSE, FALSE, Near, {})

P(rows, trackable, refused) == [rows |-> rows, trackable |-> trackable, refused |-> refused]

MCProblems == {P(<<Row(Narrow), Row(None)>>, TRUE, FALSE),
               P(<<Off(Narrow, Near), Row(None)>>, TRUE, FALSE),
               P(<<Log, Deep(None)>>, TRUE, FALSE),
               P(<<Deep(Narrow), Data>>, TRUE, TRUE),
               P(<<Raw(None, <<<<1, 1>>, <<2, 2>>, <<2, 1>>>>, {<<2, 1>>}), Off(Narrow, <<<<3, 2>>, <<3, 1>>>>)>>, TRUE, FALSE),
               P(<<Off(None, <<<<3, 1>>, <<1, 1>>, <<2, 1>>, <<3, 2>>>>), Off(None, <<<<2, 2>>>>)>>, FALSE, FALSE)}

\* Curve 1 has one knot; curve 2, value-dependent, two; curve 3, a spread on it, one.
MCKnots == {<<1, 1>>, <<2, 1>>, <<2, 2>>, <<3, 1>>}
MCBase == <<0, 0, 2>>
MCLinear == {1, 3}

\* Two states, as the knots' values in order.
At(a, b, c, d) == [k \in MCKnots |-> IF k = <<1, 1>> THEN a ELSE IF k = <<2, 1>> THEN b ELSE IF k = <<2, 2>> THEN c ELSE d]
MCPoints == {At(-1, 1, 2, -2), At(1, 0, 1, 0)}
=============================================================================
