-------------------------------- MODULE Curves --------------------------------
(***************************************************************************)
(* ModularCurve (curve/curve_module.hpp): a forward curve is a list of     *)
(* regions, each knots and a scheme, stitched left to right: set_forwards  *)
(* builds every region on the boundary its predecessor hands it.  The      *)
(* curve answers the forward, its two derivatives, its integral and the    *)
(* breakpoints of its pieces, and two rows of weights: the tangent of its  *)
(* integral in closed form, and, for a curve with one piecewise-linear     *)
(* region, the row of the branch cell it is in, which the compiled engine  *)
(* (pricing/compiled_book.hpp) takes again from the pattern alone.         *)
(*                                                                         *)
(* The curve is built twice, over doubles and over duals: the compiled     *)
(* engine and the AAD engine are the same templates.  Tension, whose       *)
(* region is hyperbolic, is left out.                                      *)
(***************************************************************************)
EXTENDS MonotoneCubics, MonotoneConvexes, BSplines, FiniteSets

CONSTANT Specs  \* [modules, states]: a list of [scheme, knots] and the values to build it on

VARIABLES modules, states,  \* the curve asked for, and the values it may be given
          phase,            \* "none", "made", "building", "built", "taken", "asked" or "refused"
          x,                \* buf_: the values of the last set_forwards
          built,            \* its regions so far, over doubles and over duals
          twins,            \* LinearTangentTwin of every linear region, once taken
          cells,            \* PwlTracker and PwlCurve, of the piecewise-linear region
          answers           \* what a client that asked the built curve everything was told

vars == <<modules, states, phase, x, built, twins, cells, answers>>

Scalar == {"double", "dual"}

-----------------------------------------------------------------------------
(* The schemes behind their one face. *)

scheme_is_linear == {"Flat", "Linear", "NaturalCubic", "Hermite", "BSpline"}
scheme_is_piecewise_linear == scheme_is_linear \cup {"MonotoneCubic"}
scheme_has_tangent == scheme_is_linear \cup {"MonotoneConvex"}
CubicSchemes == {"NaturalCubic", "Hermite", "MonotoneCubic"}

Refuses(scheme, knots, in) ==
    CASE scheme = "BSpline" -> TooFewControls(knots)
      [] scheme \in CubicSchemes \cup {"Linear"} -> TooFewNodes(knots, in)
      [] OTHER -> FALSE

\* MonotoneCubic: over takes the place of the filtered tangents when it is given.
MonotoneFiltered(nodes, y, h, S, raw, filtered, over, in) ==
    MonotoneOver(nodes, y, h, S, raw, filtered,
                 IF over = <<>> THEN Listed([i \in DOMAIN raw |-> filtered[i].m]) ELSE over, in)
MonotoneSplined(nodes, y, h, S, raw, over, in) ==
    MonotoneFiltered(nodes, y, h, S, raw, HymanFilter(h, S, raw), over, in)
CubicOver(scheme, nodes, y, h, S, over, in) ==
    CASE scheme = "NaturalCubic" -> NaturalOver(nodes, y, h, S, in)
      [] scheme = "Hermite" -> HermiteOver(nodes, y, h, S, in)
      [] scheme = "MonotoneCubic" -> MonotoneSplined(nodes, y, h, S, SplineTangents(h, S), over, in)
CubicSpaced(scheme, nodes, y, h, over, in) == CubicOver(scheme, nodes, y, h, Secants(y, h), over, in)
CubicPlaced(scheme, nodes, y, over, in) == CubicSpaced(scheme, nodes, y, Lengths(nodes), over, in)

Built(scheme, knots, xs, over, in) ==
    CASE scheme = "Flat" -> Flat(knots, xs, in)
      [] scheme = "Linear" -> Linear(knots, xs, in)
      [] scheme = "BSpline" -> BSpline(knots, xs, in)
      [] scheme = "MonotoneConvex" -> MonotoneConvex(knots, xs, in)
      [] OTHER -> CubicPlaced(scheme, Nodes(knots, in), Values(xs, in), over, in)

Out(r) == CASE r.scheme = "Flat" -> FlatOut(r)
            [] r.scheme = "Linear" -> LinearOut(r)
            [] r.scheme = "BSpline" -> SplineOut(r)
            [] r.scheme = "MonotoneConvex" -> ConvexOut(r)
            [] OTHER -> SegmentsOut(r)

\* Between a linear or cubic region's nodes; outside them it is flat.
Inside(r, t) == r.nodes[1] \prec t /\ t \prec Last(r.nodes)
Since(r, t) == t \ominus r.nodes[AtOrBefore(r.nodes, t)]
PieceAt(r, t) == r.pieces[AtOrBefore(r.nodes, t)]

RegionForward(r, t) ==
    CASE r.scheme = "Flat" -> FlatAt(r, t)
      [] r.scheme = "BSpline" -> SplineForward(r, t)
      [] r.scheme = "MonotoneConvex" -> ConvexForward(r, t)
      [] t \preceq r.nodes[1] -> r.y[1]
      [] Last(r.nodes) \preceq t -> Last(r.y)
      [] r.scheme = "Linear" -> LinearAt(r, t, AtOrBefore(r.nodes, t))
      [] OTHER -> Cubic(PieceAt(r, t), Since(r, t))

RegionIntegral(r, t) ==
    CASE r.scheme = "Flat" -> FlatIntegral(r, t)
      [] r.scheme = "BSpline" -> SplineIntegral(r, t)
      [] r.scheme = "MonotoneConvex" -> ConvexIntegral(r, t)
      [] t \preceq r.nodes[1] -> r.upTo[1] \ominus (r.y[1] \otimes (r.nodes[1] \ominus t))
      [] Last(r.nodes) \preceq t -> Last(r.upTo) \oplus (Last(r.y) \otimes (t \ominus Last(r.nodes)))
      [] r.scheme = "Linear" -> LinearArea(r, Since(r, t), AtOrBefore(r.nodes, t))
      [] OTHER -> r.upTo[AtOrBefore(r.nodes, t)] \oplus CubicArea(PieceAt(r, t), Since(r, t))

RegionSlope(r, t) ==
    CASE r.scheme = "Flat" \/ ~ Inside(r, t) -> Num(0)
      [] r.scheme = "BSpline" -> SplineSlope(r, t)
      [] r.scheme = "MonotoneConvex" -> ConvexSlope(r, t, IntervalAt(r, t))
      [] r.scheme = "Linear" -> Chord(r, AtOrBefore(r.nodes, t))
      [] OTHER -> CubicSlope(PieceAt(r, t), Since(r, t))

RegionCurvature(r, t) ==
    CASE r.scheme \in {"Flat", "Linear"} \/ ~ Inside(r, t) -> Num(0)
      [] r.scheme = "BSpline" -> SplineCurvature(r, t)
      [] r.scheme = "MonotoneConvex" -> ConvexCurvature(r, t, IntervalAt(r, t))
      [] OTHER -> CubicCurvature(PieceAt(r, t), Since(r, t))

RegionPieces(r) == IF r.scheme = "MonotoneConvex" THEN ConvexBreaks(r)
                   ELSE {r.nodes[i] : i \in DOMAIN r.nodes}

-----------------------------------------------------------------------------
(* The layout, and where its values lie. *)

Knots(m) == Listed([i \in DOMAIN m.knots |-> Num(m.knots[i])])
NValues(ms, k) == Len(ms[k].knots)
RECURSIVE Offset(_, _)
Offset(ms, k) == IF k = 1 THEN 0 ELSE Offset(ms, k-1) + NValues(ms, k-1)
n_knots == Offset(modules, Len(modules) + 1)
Slice(xs, ms, k) == SubSeq(xs, Offset(ms, k) + 1, Offset(ms, k) + NValues(ms, k))

\* check_region_joins, before any region is made; then each region's own check.
check_region_joins(ms) ==
    /\ \E k \in DOMAIN ms : ms[k].knots # <<>>
    /\ \A k \in DOMAIN ms : ms[k].knots # <<>> =>
           /\ ms[k].knots[1] > 0
           /\ k > 1 /\ ms[k-1].knots # <<>> => ms[k].knots[1] > ms[k-1].knots[Len(ms[k-1].knots)]
Constructs(ms) == \A k \in DOMAIN ms : RequireIncreasingKnots(Knots(ms[k]))

ValueDependent == {k \in DOMAIN modules : modules[k].scheme \notin scheme_is_linear}
has_tangent == \A k \in DOMAIN modules : modules[k].scheme \in scheme_has_tangent
\* A curve the tracker takes: one value-dependent region, and that one piecewise linear.
IsTracked == \E k \in DOMAIN modules : ValueDependent = {k} /\ modules[k].scheme = "MonotoneCubic"
TheRegion == CHOOSE k \in DOMAIN modules : ValueDependent = {k}

\* set_forwards: the regions on values xs, each built on the boundary before it.
BoundaryAfter(rs) == IF rs = <<>> THEN Origin ELSE Out(Last(rs))
BuiltNext(rs, xs, over) ==
    Built(modules[Len(rs) + 1].scheme, Knots(modules[Len(rs) + 1]), Slice(xs, modules, Len(rs) + 1),
          over, BoundaryAfter(rs))
RECURSIVE BuiltFrom(_, _, _)
BuiltFrom(rs, xs, over) == IF Len(rs) = Len(modules) THEN rs
                           ELSE BuiltFrom(Append(rs, BuiltNext(rs, xs, over)), xs, over)

AsValues(q) == Listed([i \in DOMAIN q |-> Num(q[i])])
AsSeeds(q, width) == Listed([i \in DOMAIN q |-> Seeded(<<q[i], 1>>, i, width)])

-----------------------------------------------------------------------------
(* What the curve answers. *)

\* The first region that reaches t, else the last.
t_end(k) == Num(modules[k].knots[Len(modules[k].knots)])
Locate(t) == CHOOSE k \in DOMAIN modules :
    /\ k = Len(modules) \/ t \preceq t_end(k)
    /\ \A j \in 1..k-1 : t_end(j) \prec t

forward(rs, t) == RegionForward(rs[Locate(t)], t)
forward_d1(rs, t) == RegionSlope(rs[Locate(t)], t)
forward_d2(rs, t) == RegionCurvature(rs[Locate(t)], t)
integral(rs, t) == IF IsPositive(t) THEN RegionIntegral(rs[Locate(t)], t) ELSE Num(0)
pieces(rs) == UNION {RegionPieces(rs[k]) : k \in DOMAIN rs}

\* A region's gradient over its own values and, last, its incoming forward: the closed
\* form of the region, or what one dual pass over a linear region alone left.
Gradient(s, n) == Listed([j \in 1..n |-> Constant(Slope(s, j))])
RegionRow(k, t) == IF modules[k].scheme = "MonotoneConvex" THEN ConvexRow(built.double[k], t)
                   ELSE Gradient(RegionIntegral(twins[k], t), NValues(modules, k) + 1)
OutRow(k) == IF modules[k].scheme = "MonotoneConvex" THEN ForwardRow(built.double[k], Len(built.double[k].nodes))
             ELSE Gradient(Out(twins[k]).value, NValues(modules, k) + 1)

\* Chained: the region's own part in its columns, its incoming forward's share of row.
Chained(row, k, own) ==
    Listed([j \in 1..n_knots |->
        IF j \in Offset(modules, k) + 1 .. Offset(modules, k) + NValues(modules, k)
        THEN (Last(own) \otimes row[j]) \oplus own[j - Offset(modules, k)]
        ELSE Last(own) \otimes row[j]])
AddRows(p, q) == Listed([j \in DOMAIN p |-> p[j] \oplus q[j]])
\* A region t lies beyond hands on its integral and its forward at its own end.
Reached(k, t) == IF k = Locate(t) THEN t ELSE t_end(k)
RECURSIVE TangentOver(_, _, _, _), TangentPast(_, _, _, _)
TangentPast(k, t, dinv, dI) ==
    IF k = Locate(t) THEN dI ELSE TangentOver(k + 1, t, Chained(dinv, k, OutRow(k)), dI)
TangentOver(k, t, dinv, dI) ==
    TangentPast(k, t, dinv, AddRows(dI, Chained(dinv, k, RegionRow(k, Reached(k, t)))))
integral_tangent(t) == TangentOver(1, t, ZeroRow(n_knots), ZeroRow(n_knots))

-----------------------------------------------------------------------------
(* The piecewise-linear tracker: the pattern is read off z = G x, and the   *)
(* weights of a time are L + B M with a row of M per node.                  *)

Rows(ss, w) == Listed([i \in DOMAIN ss |-> Gradient(ss[i], w)])
Dot(p, q) == Last(Running(Num(0), Listed([j \in DOMAIN p |-> p[j] \otimes q[j]])))
Combined(coeffs, rows, w) ==
    Listed([j \in 1..w |-> Last(Running(Num(0), Listed([i \in DOMAIN coeffs |-> coeffs[i] \otimes rows[i][j]])))])

\* G, and a curve whose tangents are freed from the filter as duals of their own: both are
\* taken on a flat curve, once.
FlatState == [i \in 1..n_knots |-> 3]
FreedTangents(N) == Listed([j \in 1..N |-> Seeded(<<0, 1>>, n_knots + j, n_knots + N)])
FlatCurves(N) ==
    [freed \in BOOLEAN |-> BuiltFrom(<<>>, AsSeeds(FlatState, n_knots + (IF freed THEN N ELSE 0)),
                                     IF freed THEN FreedTangents(N) ELSE <<>>)]
Prepared(flat, N) == [N |-> N, G |-> Rows(flat[FALSE][TheRegion].prefilter, n_knots), freed |-> flat[TRUE]]
pwl_prepare(N) == Prepared(FlatCurves(N), N)

\* The pattern for inputs z: the recorder on doubles, with the node spacing of the last build.
PatternOf(h, S, m) == Listed([i \in DOMAIN m |-> HymanFilter(h, S, m)[i].pattern])
pattern_from_prefilter(z) ==
    PatternOf(built.double[TheRegion].h, SubSeq(z, 1, cells.N - 1), SubSeq(z, cells.N, Len(z)))

FormulaRow(formula, inputs) ==
    Combined([i \in DOMAIN inputs |-> IF i \in DOMAIN formula THEN formula[i] ELSE Num(0)], inputs, n_knots)
formula_rows(pattern) ==
    Listed([j \in 1..cells.N |->
        FormulaRow(TangentFormula(pattern[j], j, built.double[TheRegion].h, cells.N), cells.G)])
\* L_t + B_t M, from the gradient of the integral over the values and the freed tangents.
WeightRow(row, M) == AddRows(SubSeq(row, 1, n_knots), Combined(SubSeq(row, n_knots + 1, Len(row)), M, n_knots))
PwlRow(t, M) == WeightRow(Gradient(integral(cells.freed, t), n_knots + cells.N), M)

-----------------------------------------------------------------------------
(* The curve's life. *)

NothingBuilt == [sc \in Scalar |-> <<>>]
NoAnswers == [spans |-> <<>>, rows |-> <<>>]

Init == /\ modules = <<>> /\ states = {} /\ phase = "none" /\ x = <<>>
        /\ built = NothingBuilt /\ twins = <<>> /\ cells = <<>> /\ answers = NoAnswers

make_modular_curve(c) ==
    /\ phase = "none"
    /\ modules' = c.modules /\ states' = c.states
    /\ phase' = IF check_region_joins(c.modules) /\ Constructs(c.modules) THEN "made" ELSE "refused"
    /\ UNCHANGED <<x, built, twins, cells, answers>>

set_forwards(xs) ==
    /\ phase \in {"made", "asked"} /\ xs # x
    /\ x' = xs /\ phase' = "building" /\ built' = NothingBuilt /\ answers' = NoAnswers
    /\ UNCHANGED <<modules, states, twins, cells>>

\* One region: refused, or built on the boundary its predecessor hands over.
xs_of(sc) == IF sc = "double" THEN AsValues(x) ELSE AsSeeds(x, n_knots)
Coming == Len(built.double) + 1
build ==
    /\ phase = "building"
    /\ IF Refuses(modules[Coming].scheme, Knots(modules[Coming]), BoundaryAfter(built.double))
       THEN phase' = "refused" /\ UNCHANGED built
       ELSE /\ built' = [sc \in Scalar |-> Append(built[sc], BuiltNext(built[sc], xs_of(sc), <<>>))]
            /\ phase' = IF Coming = Len(modules) THEN "built" ELSE "building"
    /\ UNCHANGED <<modules, states, x, twins, cells, answers>>

\* LinearTangentTwin::ensure: the region alone, on values of its own, seeded on them and on
\* the incoming forward; the time and the kind of its join are the region's.
TwinValue(j) == 30 + 2 * (j - 1)
TwinJoin(in, n) == [in EXCEPT !.value = Seeded(<<30, 1>>, n + 1, n + 1), !.slope = Num(0), !.integral = Num(0)]
Twin(k, n) ==
    Built(modules[k].scheme, Knots(modules[k]), AsSeeds([j \in 1..n |-> TwinValue(j)], n + 1), <<>>,
          TwinJoin(BoundaryAfter(SubSeq(built.double, 1, k-1)), n))
Twins == Listed([k \in DOMAIN modules |->
    IF k \in ValueDependent THEN <<>> ELSE Twin(k, NValues(modules, k))])

\* The first request for a row of weights takes the structure that every later one reads.
take ==
    /\ phase = "built" /\ phase' = "taken"
    /\ twins' = IF has_tangent /\ twins = <<>> THEN Twins ELSE twins
    /\ cells' = IF IsTracked /\ cells = <<>> THEN pwl_prepare(Len(built.double[TheRegion].nodes)) ELSE cells
    /\ UNCHANGED <<modules, states, x, built, answers>>

\* The pieces of the curve: from its start, between its breakpoints, and past its end.  Seven
\* points of a piece fix a cubic.
End == t_end(Len(modules))
Adjacent(B) == {p \in B \X B : p[1] \prec p[2] /\ ~ \E c \in B : p[1] \prec c /\ c \prec p[2]}
Pieces == Adjacent(pieces(built.double) \cup {Num(0), End \oplus Num(2)})
Eighth(p, k) == p[1] \oplus ((p[2] \ominus p[1]) \otimes Constant(<<k, 8>>))
Sampled(ts) == [f |-> Listed([k \in DOMAIN ts |-> forward(built.double, ts[k])]),
                d1 |-> Listed([k \in DOMAIN ts |-> forward_d1(built.double, ts[k])]),
                d2 |-> Listed([k \in DOMAIN ts |-> forward_d2(built.double, ts[k])])]
QueryTimes(spans) == {Num(0)} \cup UNION {{p[2], Eighth(p, 4)} : p \in spans}
Cell == IF IsTracked THEN formula_rows(built.double[TheRegion].pattern) ELSE <<>>
RowsAt(t, M) == [integral |-> [sc \in Scalar |-> integral(built[sc], t)],
                 tangent |-> IF has_tangent THEN integral_tangent(t) ELSE <<>>,
                 cell |-> IF IsTracked THEN PwlRow(t, M) ELSE <<>>]
Answered(spans, M) ==
    [spans |-> [p \in spans |-> Sampled(Listed([k \in 1..7 |-> Eighth(p, k)]))],
     rows |-> [t \in QueryTimes(spans) |-> RowsAt(t, M)]]
ask ==
    /\ phase = "taken" /\ phase' = "asked"
    /\ answers' = Answered(Pieces, Cell)
    /\ UNCHANGED <<modules, states, x, built, twins, cells>>

Next == \/ \E c \in Specs : make_modular_curve(c)
        \/ \E xs \in states : set_forwards(xs)
        \/ build
        \/ take
        \/ ask

Spec == Init /\ [][Next]_vars

-----------------------------------------------------------------------------
(* Properties, of an asked curve. *)

Asked == phase = "asked"
Extent(p) == p[2] \ominus p[1]
IntegralAt(t) == answers.rows[t].integral["double"]

\* Milne's open rule: the area of a cubic over w from its values at w's three quarters.
Milne(w, a, b, c) == (w \otimes ((Num(2) \otimes (a \oplus c)) \ominus b)) \oslash Num(3)
Area(p, q) == Milne(Extent(p), q[2], q[4], q[6])
MiddleArea(p, q) == Milne(Extent(p) \oslash Num(2), q[3], q[4], q[5])

\* The closed forms of one curve are those of one function: what the integral grows by over a
\* piece is the area under the forward there, and what the forward and its slope grow by the
\* area under their derivatives -- through every area a region accumulates and hands on, the
\* partial ones and the flat ends (regions.hpp: integral, forward, forward_d1, forward_d2).
ClosedFormsAgree == Asked => \A p \in DOMAIN answers.spans :
    LET s == answers.spans[p]
    IN  /\ IntegralAt(p[2]) \ominus IntegralAt(p[1]) = Area(p, s.f)
        /\ s.f[6] \ominus s.f[2] = MiddleArea(p, s.d1)
        /\ s.d1[6] \ominus s.d1[2] = MiddleArea(p, s.d2)

\* The value a cubic tends to at the end, and at the start, of the piece it was sampled on.
AtEnd(q) == (Num(4) \otimes (q[7] \oplus q[5])) \ominus (Num(6) \otimes q[6]) \ominus q[4]
AtStart(q) == (Num(4) \otimes (q[1] \oplus q[3])) \ominus (Num(6) \otimes q[2]) \ominus q[4]

\* How often a region's forward may be differentiated across its own knots; at the join with
\* the region before it only the forward is carried over, and a flat region carries nothing.
Smoothness(r, t) ==
    CASE r.scheme = "Flat" -> -1
      [] r.scheme \in {"Linear", "MonotoneConvex"} \/ t = r.nodes[1] -> 0
      [] r.scheme \in {"Hermite", "MonotoneCubic"} -> 1
      [] OTHER -> 2

\* A monotone convex shape whose breakpoint falls on an end of its interval leaves that end
\* by a jump: one of its two distances is zero and the other is not.
JumpsAt(r, t) == r.scheme = "MonotoneConvex" /\ \E i \in DOMAIN r.intervals :
    \/ IsZero(r.intervals[i].g0) /\ ~ IsZero(r.intervals[i].g1) /\ t = r.nodes[i+1]
    \/ IsZero(r.intervals[i].g1) /\ ~ IsZero(r.intervals[i].g0) /\ t = r.nodes[i]

\* Across a breakpoint the forward is as smooth as the scheme promises: continuous at a join
\* and in every scheme but Flat, once differentiable through tangents, twice through moments
\* and splines (regions.hpp, the region comments).
Meet(left, right, k) == /\ k >= 0 => AtEnd(left.f) = AtStart(right.f)
                        /\ k >= 1 => AtEnd(left.d1) = AtStart(right.d1)
                        /\ k >= 2 => AtEnd(left.d2) = AtStart(right.d2)
Neighbours == {pq \in (DOMAIN answers.spans) \X (DOMAIN answers.spans) :
    /\ pq[1][2] = pq[2][1] /\ pq[2][2] \preceq End
    /\ \A p \in {pq[1], pq[2]} : ~ JumpsAt(built.double[Locate(p[2])], pq[2][1])}
PiecesJoin == Asked => \A pq \in Neighbours :
    Meet(answers.spans[pq[1]], answers.spans[pq[2]],
         Smoothness(built.double[Locate(pq[2][2])], pq[2][1]))

\* The closed-form row of the integral's tangent is the gradient the same curve over duals
\* carries: what the compiled engine takes for the AAD engine's derivative, over region
\* after region (ModularCurve::integral_tangent against T = Dual).
TangentIsTheGradient == Asked /\ has_tangent => \A t \in DOMAIN answers.rows :
    answers.rows[t].tangent = Gradient(answers.rows[t].integral["dual"], n_knots)

\* At a node whose tangent is exactly zero the filter's product has a gradient of its own.
AwayFromZero == \A i \in 1..cells.N : ~ IsZero(built.double[TheRegion].prefilter[cells.N - 1 + i])

\* The weights the compiled engine re-takes from the branch pattern alone, with the linear
\* structure of a flat curve built once, price the curve as it stands and carry its
\* gradient; and the pattern it reads off the values is the one a build records
\* (compiled_book.hpp: pwl_set against MonotoneCubic::build).
CellPricesTheCurve == Asked /\ IsTracked =>
    /\ pattern_from_prefilter(Listed([i \in DOMAIN cells.G |-> Dot(cells.G[i], AsValues(x))]))
           = built.double[TheRegion].pattern
    /\ \A t \in DOMAIN answers.rows :
           /\ Dot(answers.rows[t].cell, AsValues(x)) = IntegralAt(t)
           /\ AwayFromZero =>
                  answers.rows[t].cell = Gradient(answers.rows[t].integral["dual"], n_knots)

OneWay(q) == \/ \A i \in 1..Len(q)-1 : q[i] \preceq q[i+1]
             \/ \A i \in 1..Len(q)-1 : q[i+1] \preceq q[i]
\* The ends of segment i and the nodes on either side of it.
Around(y, i) == SubSeq(y, IF i = 1 THEN 1 ELSE i - 1, IF i + 2 > Len(y) THEN Len(y) ELSE i + 2)
Hull(s, q) == \E i, j \in DOMAIN q : q[i] \preceq s /\ s \preceq q[j]
OneSign(q) == (\A i \in DOMAIN q : ~ IsNegative(q[i])) \/ (\A i \in DOMAIN q : ~ IsPositive(q[i]))

\* What each shape-preserving scheme is chosen for: a B-spline stays in the hull of its
\* control points, a filtered cubic runs one way between two nodes where their secant and
\* its neighbours do, a monotone convex forward keeps the sign of values of one sign.
KeepsShape(r, p, f) ==
    CASE r.scheme = "BSpline" -> \A k \in 1..7 : Hull(f[k], r.cp)
      [] r.scheme = "MonotoneCubic" ->
             \A i \in DOMAIN r.pieces :
                 p = <<r.nodes[i], r.nodes[i+1]>> /\ OneWay(Around(r.y, i)) => OneWay(<<r.y[i]>> \o f \o <<r.y[i+1]>>)
      [] r.scheme = "MonotoneConvex" ->
             OneSign(Listed([i \in DOMAIN r.intervals |-> r.intervals[i].fd]) \o <<r.f[1]>>) =>
                 \A k \in 1..7 : OneSign(<<f[k], r.f[1]>> \o Listed([i \in DOMAIN r.intervals |-> r.intervals[i].fd]))
      [] OTHER -> TRUE
SchemesKeepTheirShape == Asked => \A p \in DOMAIN answers.spans :
    KeepsShape(built.double[Locate(p[2])], p, answers.spans[p].f)
=============================================================================
