------------------------------- MODULE MCCurves -------------------------------
(***************************************************************************)
(* Curves on small layouts.                                                *)
(***************************************************************************)
EXTENDS Curves

In(scheme, knots) == [scheme |-> scheme, knots |-> knots]
On(ms, xs) == [modules |-> ms, states |-> xs]

DataSpecs == {
    \* Every scheme leads once and follows once, the linear ones over each other.
    On(<<In("Hermite", <<1, 3, 4, 6>>)>>, {<<1, 2, 4, 3>>, <<3, 3, 3, 3>>}),
    On(<<In("Flat", <<1, 2>>), In("Hermite", <<3, 5, 6>>), In("Linear", <<7, 9>>)>>,
       {<<1, 2, 4, 3, -1, 2, 2>>}),
    On(<<In("Linear", <<1, 3>>), In("NaturalCubic", <<4, 6, 7, 8>>), In("Flat", <<9>>)>>,
       {<<1, 2, 4, 3, -1, 5, 2>>, <<2, 2, 1, 3, 3, -2, 4>>}),
    On(<<In("NaturalCubic", <<1, 2, 4>>), In("BSpline", <<5, 6, 8>>)>>, {<<1, 2, 4, 3, -1, 5>>}),
    On(<<In("BSpline", <<2, 4, 5, 7, 10>>)>>, {<<1, 2, 4, 3, -1>>, <<3, 1, 0, 0, 2>>}),
    On(<<In("Flat", <<2>>), In("NaturalCubic", <<3>>)>>, {<<3, 1>>}),

    \* MonotoneCubic: tangents kept, zeroed and clamped to each candidate, and every way back.
    On(<<In("MonotoneCubic", <<1, 2, 3, 5, 6>>)>>,
       {<<0, -1, -1, 0, 0>>, <<3, 4, -2, -1, 0>>, <<-1, -2, 4, 3, 1>>, <<0, 2, 2, 1, -2>>,
        <<-1, 0, -1, 1, 6>>, <<4, -1, 5, 0, -1>>, <<1, 2, 2, 3, 9>>}),
    On(<<In("Linear", <<1, 2>>), In("MonotoneCubic", <<3, 5, 6, 7>>)>>,
       {<<1, 2, 4, 3, -1, 2>>, <<1, 1, 2, 9, 10, 19>>, <<2, 3, 2, 6, 1, 7>>, <<0, 1, 3, 7, 15, 31>>}),

    \* MonotoneConvex: the four shapes, each clamp, a breakpoint at an end, values across zero.
    On(<<In("MonotoneConvex", <<1, 3, 4, 6>>)>>,
       {<<2, 3, 5, 4>>, <<1, 8, 1, 8>>, <<-2, -3, -1, -9>>, <<2, -1, 3, -2>>, <<3, 3, 3, 3>>,
        <<9, 1, 8, 1>>, <<-9, -1, -8, -1>>, <<1, 2, 6, 20>>}),
    On(<<In("Linear", <<1, 2>>), In("MonotoneConvex", <<3, 5, 6>>), In("Hermite", <<8>>)>>,
       {<<1, 2, 4, 3, -1, 2>>, <<1, 5, 4, 9, 1, 0>>, <<4, 1, 2, 3, 9, 1>>}),
    On(<<In("MonotoneConvex", <<2>>), In("MonotoneConvex", <<3, 4>>)>>, {<<2, 3, 1>>, <<2, 0, 1>>}),

    \* Two value-dependent regions have neither row.
    On(<<In("MonotoneConvex", <<1, 2>>), In("MonotoneCubic", <<3, 4>>)>>, {<<2, 3, 1, 4>>}),

    \* Refused: no knot, a knot at the start or out of order, a region that starts before the one
    \* before it ends, and, once built, too few values for the scheme.
    On(<<In("Flat", <<0, 1>>)>>, {<<1, 1>>}),
    On(<<In("Linear", <<2, 2>>)>>, {<<1, 1>>}),
    On(<<In("Flat", <<2>>), In("Linear", <<2, 3>>)>>, {<<1, 1, 1>>}),
    On(<<In("NaturalCubic", <<2>>)>>, {<<1>>}),
    On(<<In("Flat", <<1>>), In("BSpline", <<2, 3>>)>>, {<<1, 2, 3>>})}
=============================================================================
