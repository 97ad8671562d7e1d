--------------------------- MODULE MonotoneConvexes ---------------------------
(***************************************************************************)
(* MonotoneConvex (curve/regions.hpp): Hagan and West's interpolation.     *)
(* The free values are the discrete forwards fd of the intervals; inside   *)
(* an interval the forward is fd plus a g of one of four shapes, whose     *)
(* breakpoint eta is a ratio of the values.  The region is smooth and not  *)
(* linear, and carries the gradient of its integral in closed form.        *)
(*                                                                         *)
(* Node i is where interval i starts: f[i] and f[i+1] are the forwards at  *)
(* the two ends of interval i, g0 and g1 their distances from fd[i].       *)
(***************************************************************************)
EXTENDS Regions

Half == Constant(<<1, 2>>)
Square(s) == s \otimes s
Cube(s) == s \otimes s \otimes s

\* The node forwards before amelioration: weighted means inside, the far-end rule last.
Mean(tau, fd, i) ==
    (((tau[i] \ominus tau[i-1]) \otimes fd[i]) \oplus ((tau[i+1] \ominus tau[i]) \otimes fd[i-1]))
        \oslash (tau[i+1] \ominus tau[i-1])
FarEnd(before, fd) == fd \ominus (Half \otimes (before \ominus fd))
RawForward(tau, f0, fd, i) ==
    CASE i = 1 -> f0
      [] i = Len(tau) -> FarEnd(IF i = 2 THEN f0 ELSE Mean(tau, fd, i-1), fd[i-1])
      [] OTHER -> Mean(tau, fd, i)

\* Amelioration: between zero and twice the smaller neighbour, where both are of one sign;
\* the branch taken is kept beside the value.
Within(f, lo, hi, atLo, atHi) == CASE f \prec lo -> [f |-> lo, clamp |-> atLo]
                                   [] hi \prec f -> [f |-> hi, clamp |-> atHi]
                                   [] OTHER -> [f |-> f, clamp |-> "none"]
Twice(a, b) == IF b \prec a THEN "twiceRight" ELSE "twiceLeft"
\* Mutant: only positive forwards are guarded, as in the paper.
AmelioratedPositive(f, a, b) ==
    IF ~ IsNegative(a) /\ ~ IsNegative(b)
    THEN Within(f, a \otimes Num(0), Num(2) \otimes Least(a, b), "zero", Twice(a, b))
    ELSE [f |-> f, clamp |-> "none"]
Ameliorated(f, a, b) ==
    CASE ~ IsNegative(a) /\ ~ IsNegative(b) ->
             Within(f, a \otimes Num(0), Num(2) \otimes Least(a, b), "zero", Twice(a, b))
      [] ~ IsPositive(a) /\ ~ IsPositive(b) ->
             Within(f, Num(2) \otimes Greatest(a, b), a \otimes Num(0), Twice(b, a), "zero")
      [] OTHER -> [f |-> f, clamp |-> "none"]

NodeForward(tau, f0, fd, i) ==
    IF i = 1 THEN [f |-> f0, clamp |-> "none"]
    ELSE Ameliorated(RawForward(tau, f0, fd, i), fd[i-1], fd[IF i = Len(tau) THEN i-1 ELSE i])

\* The paper's regions, and 0 where the interval is flat.
Between(s, p, q) == p \preceq s /\ s \preceq q
Shape(g0, g1) ==
    CASE IsZero(g0) /\ IsZero(g1) -> 0
      [] \/ IsPositive(g0) /\ Between(g1, Num(-2) \otimes g0, Constant(<<-1, 2>>) \otimes g0)
         \/ IsNegative(g0) /\ Between(g1, Constant(<<-1, 2>>) \otimes g0, Num(-2) \otimes g0) -> 1
      [] \/ IsNegative(g0) /\ Num(-2) \otimes g0 \prec g1
         \/ IsPositive(g0) /\ g1 \prec Num(-2) \otimes g0 -> 2
      [] \/ IsPositive(g0) /\ IsNegative(g1) /\ Constant(<<-1, 2>>) \otimes g0 \prec g1
         \/ IsNegative(g0) /\ IsPositive(g1) /\ g1 \prec Constant(<<-1, 2>>) \otimes g0 -> 3
      [] OTHER -> 4

Breakpoint(shape, g0, g1) ==
    CASE shape = 2 -> (g1 \oplus (Num(2) \otimes g0)) \oslash (g1 \ominus g0)
      [] shape = 3 -> (Num(3) \otimes g1) \oslash (g1 \ominus g0)
      [] shape = 4 -> g1 \oslash (g0 \oplus g1)
      [] OTHER -> g0 \otimes Num(0)
Floor(shape, g0, g1) == IF shape = 4 THEN (Num(-1) \otimes g0 \otimes g1) \oslash (g0 \oplus g1)
                                     ELSE g0 \otimes Num(0)

Shaped(h, fd, g0, g1, shape) ==
    [h |-> h, fd |-> fd, g0 |-> g0, g1 |-> g1, shape |-> shape,
     eta |-> Breakpoint(shape, g0, g1), A |-> Floor(shape, g0, g1)]
Interval(h, fd, g0, g1) == Shaped(h, fd, g0, g1, Shape(g0, g1))

ConvexFrom(lead, tau, f, clamps, fd, I0) ==
    [scheme |-> "MonotoneConvex", lead |-> lead, nodes |-> tau, f |-> f, clamps |-> clamps,
     intervals |-> Listed([i \in DOMAIN fd |->
         Interval(tau[i+1] \ominus tau[i], fd[i], f[i] \ominus fd[i], f[i+1] \ominus fd[i])]),
     upTo |-> Running(I0, Listed([i \in DOMAIN fd |-> fd[i] \otimes (tau[i+1] \ominus tau[i])]))]
ConvexThrough(lead, tau, forwards, fd, I0) ==
    ConvexFrom(lead, tau, Listed([i \in DOMAIN tau |-> forwards[i].f]),
               Listed([i \in DOMAIN tau |-> forwards[i].clamp]), fd, I0)
ConvexOver(lead, tau, f0, fd, I0) ==
    ConvexThrough(lead, tau, Listed([i \in DOMAIN tau |-> NodeForward(tau, f0, fd, i)]), fd, I0)

\* A leading region's first value is its flat short end.
MonotoneConvex(knots, x, in) ==
    IF in.has_predecessor
    THEN ConvexOver(FALSE, <<in.time>> \o knots, in.value, x, in.integral)
    ELSE ConvexOver(TRUE, knots, x[1], Tail(x), x[1] \otimes knots[1])

-----------------------------------------------------------------------------
(* The shapes at x in [0, 1]: g, its derivatives and its integral. *)

\* Where x lies in a shape: before its breakpoint, after it, or on a shape with none.
Side(v, x) == CASE v.shape \in {0, 1} -> "whole"
                [] v.shape = 2 -> IF x \preceq v.eta THEN "before" ELSE "after"
                [] OTHER -> IF x \prec v.eta THEN "before"
                            ELSE IF v.shape = 3 \/ v.eta \prec Num(1) THEN "after" ELSE "past"

\* Every shape is a level and a square of the distance from the breakpoint over its side.
Toward(v, x) == (v.eta \ominus x) \oslash v.eta
Away(v, x) == (x \ominus v.eta) \oslash (Num(1) \ominus v.eta)
Rise(level, to, r) == level \oplus ((to \ominus level) \otimes Square(r))

g(v, x) ==
    CASE v.shape = 0 -> v.g0 \otimes Num(0)
      [] v.shape = 1 ->
             (v.g0 \otimes (Num(1) \ominus (Num(4) \otimes x) \oplus (Num(3) \otimes Square(x))))
                 \oplus (v.g1 \otimes ((Num(3) \otimes Square(x)) \ominus (Num(2) \otimes x)))
      [] v.shape = 2 -> IF Side(v, x) = "before" THEN v.g0 ELSE Rise(v.g0, v.g1, Away(v, x))
      [] v.shape = 3 -> IF Side(v, x) = "before" THEN Rise(v.g1, v.g0, Toward(v, x)) ELSE v.g1
      [] v.shape = 4 /\ Side(v, x) = "before" -> Rise(v.A, v.g0, Toward(v, x))
      [] v.shape = 4 /\ Side(v, x) = "after" -> Rise(v.A, v.g1, Away(v, x))
      [] OTHER -> v.A

\* d g / d x and its derivative, the slope of the square falling or rising.
Falling(level, from, v, x) ==
    (Num(-2) \otimes (from \ominus level) \otimes (v.eta \ominus x)) \oslash Square(v.eta)
Rising(level, to, v, x) ==
    (Num(2) \otimes (to \ominus level) \otimes (x \ominus v.eta)) \oslash Square(Num(1) \ominus v.eta)
dg(v, x) ==
    CASE v.shape = 1 -> (v.g0 \otimes ((Num(6) \otimes x) \ominus Num(4)))
                            \oplus (v.g1 \otimes ((Num(6) \otimes x) \ominus Num(2)))
      [] v.shape = 2 /\ Side(v, x) = "after" -> Rising(v.g0, v.g1, v, x)
      [] v.shape = 3 /\ Side(v, x) = "before" -> Falling(v.g1, v.g0, v, x)
      [] v.shape = 4 /\ Side(v, x) = "before" -> Falling(v.A, v.g0, v, x)
      [] v.shape = 4 /\ Side(v, x) = "after" -> Rising(v.A, v.g1, v, x)
      [] OTHER -> v.g0 \otimes Num(0)
Bend(level, to, side) == (Num(2) \otimes (to \ominus level)) \oslash Square(side)
d2g(v, x) ==
    CASE v.shape = 1 -> Num(6) \otimes (v.g0 \oplus v.g1)
      [] v.shape = 2 /\ Side(v, x) = "after" -> Bend(v.g0, v.g1, Num(1) \ominus v.eta)
      [] v.shape = 3 /\ Side(v, x) = "before" -> Bend(v.g1, v.g0, v.eta)
      [] v.shape = 4 /\ Side(v, x) = "before" -> Bend(v.A, v.g0, v.eta)
      [] v.shape = 4 /\ Side(v, x) = "after" -> Bend(v.A, v.g1, Num(1) \ominus v.eta)
      [] OTHER -> v.g0 \otimes Num(0)

\* G, the integral of g from 0: the area under the falling square up to x, the whole of it,
\* and the area under the rising one.
FallArea(v, x) == (Cube(v.eta) \ominus Cube(v.eta \ominus x)) \oslash (Num(3) \otimes Square(v.eta))
RiseArea(v, x) == Cube(x \ominus v.eta) \oslash (Num(3) \otimes Square(Num(1) \ominus v.eta))
\* Mutant: the fall is taken to its full height.
WholeFallUnscaled(v, from, level) == (from \ominus level) \otimes v.eta
WholeFall(v, from, level) == ((from \ominus level) \otimes v.eta) \oslash Num(3)
G(v, x) ==
    CASE v.shape = 0 -> v.g0 \otimes Num(0)
      [] v.shape = 1 ->
             (v.g0 \otimes (x \ominus (Num(2) \otimes Square(x)) \oplus Cube(x)))
                 \oplus (v.g1 \otimes (Cube(x) \ominus Square(x)))
      [] v.shape = 2 ->
             IF Side(v, x) = "before" THEN v.g0 \otimes x
             ELSE (v.g0 \otimes x) \oplus ((v.g1 \ominus v.g0) \otimes RiseArea(v, x))
      [] v.shape = 3 ->
             IF Side(v, x) = "before" THEN (v.g1 \otimes x) \oplus ((v.g0 \ominus v.g1) \otimes FallArea(v, x))
             ELSE (v.g1 \otimes x) \oplus WholeFall(v, v.g0, v.g1)
      [] Side(v, x) = "before" -> (v.A \otimes x) \oplus ((v.g0 \ominus v.A) \otimes FallArea(v, x))
      [] Side(v, x) = "after" ->
             (v.A \otimes x) \oplus (IF IsPositive(v.eta) THEN WholeFall(v, v.g0, v.A) ELSE v.g0 \otimes Num(0))
                 \oplus ((v.g1 \ominus v.A) \otimes RiseArea(v, x))
      [] OTHER -> (v.A \otimes x) \oplus WholeFall(v, v.g0, v.A)

-----------------------------------------------------------------------------
(* The tangent: the gradient of the integral and of the outgoing forward   *)
(* over the region's own values and, last, the incoming forward, by the    *)
(* branches the values took.  A row is a sequence of constants.            *)

Value(s) == Constant(s.v)
Primal(v) == [v EXCEPT !.fd = Value(@), !.g0 = Value(@), !.g1 = Value(@), !.eta = Value(@), !.A = Value(@)]

Width(r) == Len(r.nodes) + (IF r.lead THEN 0 ELSE -1) + 1
OwnOf(r, i) == IF r.lead THEN i + 1 ELSE i
ZeroRow(n) == Listed([j \in 1..n |-> Num(0)])
UnitRow(n, k) == Listed([j \in 1..n |-> IF j = k THEN Num(1) ELSE Num(0)])
Axpy(row, a, other) == Listed([j \in DOMAIN row |-> row[j] \oplus (a \otimes other[j])])

\* tangent_prepare: the gradients of the node forwards.
StartRow(r) == UnitRow(Width(r), IF r.lead THEN 1 ELSE Width(r))
MeanRow(r, tau, i) ==
    Axpy(Axpy(ZeroRow(Width(r)),
              (tau[i] \ominus tau[i-1]) \oslash (tau[i+1] \ominus tau[i-1]), UnitRow(Width(r), OwnOf(r, i))),
         (tau[i+1] \ominus tau[i]) \oslash (tau[i+1] \ominus tau[i-1]), UnitRow(Width(r), OwnOf(r, i-1)))
UnclampedRow(r, i) ==
    CASE i = 1 -> StartRow(r)
      [] i = Len(r.nodes) ->
             Axpy(Axpy(ZeroRow(Width(r)), Constant(<<-1, 2>>),
                       IF i = 2 THEN StartRow(r) ELSE MeanRow(r, r.nodes, i-1)),
                  Constant(<<3, 2>>), UnitRow(Width(r), OwnOf(r, i-1)))
      [] OTHER -> MeanRow(r, r.nodes, i)
ForwardRow(r, i) ==
    CASE r.clamps[i] = "none" -> UnclampedRow(r, i)
      [] r.clamps[i] = "zero" -> ZeroRow(Width(r))
      [] r.clamps[i] = "twiceLeft" -> Axpy(ZeroRow(Width(r)), Num(2), UnitRow(Width(r), OwnOf(r, i-1)))
      [] r.clamps[i] = "twiceRight" -> Axpy(ZeroRow(Width(r)), Num(2), UnitRow(Width(r), OwnOf(r, i)))

\* The partials of a shape by its g0 (k = 1) and g1 (k = 2), eta and A differentiated through.
\* Mutant: the breakpoint of the fourth shape is held where it is.
EtaSlopeHeld(v, k) ==
    IF v.shape = 4 THEN Num(0)
    ELSE (IF k = 1 THEN Num(3) \otimes v.g1 ELSE Num(-3) \otimes v.g0) \oslash Square(v.g1 \ominus v.g0)
EtaSlope(v, k) ==
    IF v.shape = 4 THEN (IF k = 1 THEN Num(-1) \otimes v.g1 ELSE v.g0) \oslash Square(v.g0 \oplus v.g1)
    ELSE (IF k = 1 THEN Num(3) \otimes v.g1 ELSE Num(-3) \otimes v.g0) \oslash Square(v.g1 \ominus v.g0)
FloorSlope(v, k) == (Num(-1) \otimes Square(IF k = 1 THEN v.g1 ELSE v.g0)) \oslash Square(v.g0 \oplus v.g1)

CubeSlope(d, side) == ((Num(2) \otimes Cube(d)) \oslash (Num(3) \otimes Cube(side)))
                          \ominus (Square(d) \oslash Square(side))
FallByEta(v, x) == Constant(<<1, 3>>) \oplus CubeSlope(v.eta \ominus x, v.eta)
RiseByEta(v, x) == CubeSlope(x \ominus v.eta, Num(1) \ominus v.eta)

\* A square between two levels: how the share of the far level and the breakpoint move it.
Moved(share, byEta, from, to, v, k) == share \oplus ((to \ominus from) \otimes byEta \otimes EtaSlope(v, k))
Is(k, j) == IF k = j THEN Num(1) ELSE Num(0)
FloorShare(v, k, j, area) == (Is(k, j) \ominus FloorSlope(v, k)) \otimes area
ShapeTangent(v, x, k) ==
    CASE v.shape = 0 -> Num(0)
      [] v.shape = 1 -> IF k = 1 THEN x \ominus (Num(2) \otimes Square(x)) \oplus Cube(x)
                        ELSE Cube(x) \ominus Square(x)
      [] v.shape = 2 /\ Side(v, x) = "before" -> Is(k, 1) \otimes x
      [] v.shape = 2 ->
             Moved(IF k = 1 THEN x \ominus RiseArea(v, x) ELSE RiseArea(v, x), RiseByEta(v, x), v.g0, v.g1, v, k)
      [] v.shape = 3 /\ Side(v, x) = "before" ->
             Moved(IF k = 1 THEN FallArea(v, x) ELSE x \ominus FallArea(v, x), FallByEta(v, x), v.g1, v.g0, v, k)
      [] v.shape = 3 ->
             Moved(IF k = 1 THEN v.eta \oslash Num(3) ELSE x \ominus (v.eta \oslash Num(3)),
                   Constant(<<1, 3>>), v.g1, v.g0, v, k)
      [] Side(v, x) = "before" ->
             (FloorSlope(v, k) \otimes x)
                 \oplus Moved(FloorShare(v, k, 1, FallArea(v, x)), FallByEta(v, x), v.A, v.g0, v, k)
      [] OTHER ->
             (FloorSlope(v, k) \otimes x)
                 \oplus (IF IsPositive(v.eta)
                         THEN Moved(FloorShare(v, k, 1, v.eta \oslash Num(3)), Constant(<<1, 3>>), v.A, v.g0, v, k)
                         ELSE Num(0))
                 \oplus (IF v.eta \prec Num(1)
                         THEN Moved(FloorShare(v, k, 2, RiseArea(v, x)), RiseByEta(v, x), v.A, v.g1, v, k)
                         ELSE Num(0))

\* The row of the integral at node i: the leading flat end and the whole intervals before it.
NodeRow(r, i) ==
    Listed([j \in 1..Width(r) |->
        CASE r.lead /\ j = 1 -> r.nodes[1]
          [] \E l \in 1..i-1 : OwnOf(r, l) = j ->
                 r.intervals[CHOOSE l \in 1..i-1 : OwnOf(r, l) = j].h
          [] OTHER -> Num(0)])

InsideRow(r, i, x, h, d0, d1) ==
    Axpy(Axpy(Axpy(NodeRow(r, i), h \otimes (x \ominus d0 \ominus d1), UnitRow(Width(r), OwnOf(r, i))),
              h \otimes d0, ForwardRow(r, i)),
         h \otimes d1, ForwardRow(r, i+1))
IntervalRow(r, i, v, x) == InsideRow(r, i, x, v.h, ShapeTangent(v, x, 1), ShapeTangent(v, x, 2))

IntervalAt(r, t) == AtOrAfter(r.nodes, t) - 1
Position(r, t, i) == (t \ominus r.nodes[i]) \oslash r.intervals[i].h
ConvexRow(r, t) ==
    CASE Len(r.nodes) = 1 -> <<t, Num(0)>>
      [] t \preceq r.nodes[1] /\ r.lead -> Axpy(ZeroRow(Width(r)), t, StartRow(r))
      [] t \preceq r.nodes[1] -> Axpy(ZeroRow(Width(r)), t \ominus r.nodes[1], StartRow(r))
      [] Last(r.nodes) \preceq t ->
             Axpy(NodeRow(r, Len(r.nodes)), t \ominus Last(r.nodes), ForwardRow(r, Len(r.nodes)))
      [] OTHER -> IntervalRow(r, IntervalAt(r, t), Primal(r.intervals[IntervalAt(r, t)]),
                              Position(r, t, IntervalAt(r, t)))

-----------------------------------------------------------------------------
(* The region's answers. *)

ConvexAt(r, t, i) == IF t = r.nodes[i+1] THEN r.f[i+1]
                     ELSE r.intervals[i].fd \oplus g(r.intervals[i], Position(r, t, i))
ConvexSlope(r, t, i) == dg(r.intervals[i], Position(r, t, i)) \oslash r.intervals[i].h
ConvexCurvature(r, t, i) == d2g(r.intervals[i], Position(r, t, i)) \oslash Square(r.intervals[i].h)
ConvexArea(r, i, x) ==
    r.upTo[i] \oplus (r.intervals[i].h \otimes ((r.intervals[i].fd \otimes x) \oplus G(r.intervals[i], x)))

ConvexForward(r, t) == CASE t \preceq r.nodes[1] -> r.f[1]
                         [] Last(r.nodes) \preceq t -> Last(r.f)
                         [] OTHER -> ConvexAt(r, t, IntervalAt(r, t))
ConvexIntegral(r, t) ==
    CASE t \preceq r.nodes[1] -> r.upTo[1] \ominus (r.f[1] \otimes (r.nodes[1] \ominus t))
      [] Last(r.nodes) \preceq t -> Last(r.upTo) \oplus (Last(r.f) \otimes (t \ominus Last(r.nodes)))
      [] OTHER -> ConvexArea(r, IntervalAt(r, t), Position(r, t, IntervalAt(r, t)))

\* The knots, and a breakpoint that falls inside its interval.
ConvexBreaks(r) ==
    {Last(r.nodes)} \cup UNION {{r.nodes[i]} \cup
        (IF r.intervals[i].shape >= 2 /\ IsPositive(r.intervals[i].eta) /\ r.intervals[i].eta \prec Num(1)
         THEN {r.nodes[i] \oplus (Value(r.intervals[i].eta) \otimes r.intervals[i].h)} ELSE {}) :
            i \in DOMAIN r.intervals}

ConvexOut(r) ==
    [time |-> Last(r.nodes), value |-> Last(r.f),
     slope |-> IF r.intervals = <<>> THEN r.f[1] \otimes Num(0)
               ELSE dg(Last(r.intervals), Num(1)) \oslash Last(r.intervals).h,
     integral |-> Last(r.upTo), has_predecessor |-> TRUE]
=============================================================================
