------------------------------- MODULE BSplines -------------------------------
(***************************************************************************)
(* BSpline (curve/regions.hpp): a clamped cubic B-spline whose free values *)
(* are control points, over the knot averages of its sites.  The first     *)
(* control point is the join's forward, or a leading region's own first    *)
(* one.                                                                    *)
(*                                                                         *)
(* The code integrates each piece by the two-point Gauss rule, exact on a  *)
(* cubic; its nodes are irrational, and Simpson's rule, exact on a cubic   *)
(* as well, stands for it.                                                 *)
(***************************************************************************)
EXTENDS Regions

\* A cubic needs three free control points.
TooFewControls(knots) == Len(knots) < 3

\* The clamped knot vector: four times each end, between them the means of three sites.
KnotVector(t0, te, inner) == <<t0, t0, t0, t0>> \o inner \o <<te, te, te, te>>
InnerKnots(sites) ==
    Listed([j \in 1..Len(sites)-4 |-> (sites[j+1] \oplus sites[j+2] \oplus sites[j+3]) \oslash Num(3)])

\* de Boor's algorithm at degree p: the span, then affine steps between control points.
Span(c, tau, p, t) ==
    IF tau[Len(c) + 1] \preceq t THEN Len(c)
    ELSE CHOOSE k \in p+1..Len(c) : tau[k] \preceq t /\ t \prec tau[k+1]
Affine(lo, hi, t, left, right) ==
    IF lo \prec hi THEN left \oplus (((t \ominus lo) \oslash (hi \ominus lo)) \otimes (right \ominus left))
                   ELSE left
RECURSIVE Level(_, _, _, _, _, _, _)
Level(c, tau, p, t, k, r, j) ==
    IF r = 0 THEN c[k - p + j]
    ELSE Affine(tau[k - p + j], tau[k + 1 + j - r], t,
                Level(c, tau, p, t, k, r-1, j-1), Level(c, tau, p, t, k, r-1, j))
DeBoor(c, tau, p, t) == Level(c, tau, p, t, Span(c, tau, p, t), p, p)

\* The control points of the derivative, on the knot vector without its first knot.
DerivControls(c, tau, p) ==
    Listed([i \in 1..Len(c)-1 |->
        IF tau[i+1] \prec tau[i+p+1]
        THEN (Num(p) \otimes (c[i+1] \ominus c[i])) \oslash (tau[i+p+1] \ominus tau[i+1])
        ELSE c[i] \otimes Num(0)])

\* The area of one piece's cubic over [a, b].
Third(f0, f1, f2, a, b) == ((f0 \oplus (Num(4) \otimes f1) \oplus f2) \otimes (b \ominus a)) \oslash Num(6)
PieceArea(cp, tau, a, b) ==
    Third(DeBoor(cp, tau, 3, a), DeBoor(cp, tau, 3, (a \oplus b) \oslash Num(2)),
          DeBoor(cp, tau, 3, b), a, b)

Spline(breaks, tau, cp, base) ==
    [scheme |-> "BSpline", nodes |-> breaks, tau |-> tau, cp |-> cp,
     upTo |-> Running(base, Listed([k \in 1..Len(breaks)-1 |->
                  PieceArea(cp, tau, breaks[k], breaks[k+1])]))]
SplineOver(sites, inner, cp, base) ==
    Spline(<<sites[1]>> \o inner \o <<Last(sites)>>, KnotVector(sites[1], Last(sites), inner), cp, base)
SplineThrough(sites, cp, base) == SplineOver(sites, InnerKnots(sites), cp, base)

\* A leading region is flat up to its first knot, where its domain starts.
BSpline(knots, x, in) ==
    IF in.has_predecessor THEN SplineThrough(<<in.time>> \o knots, <<in.value>> \o x, in.integral)
    ELSE SplineThrough(<<knots[1]>> \o knots, <<x[1]>> \o x,
                       in.integral \oplus (x[1] \otimes (knots[1] \ominus in.time)))

-----------------------------------------------------------------------------
(* The region's answers. *)

SplineEnd(r) == DeBoor(r.cp, r.tau, 3, Last(r.nodes))
SplineForward(r, t) == CASE t \preceq r.nodes[1] -> r.cp[1]
                         [] Last(r.nodes) \preceq t -> SplineEnd(r)
                         [] OTHER -> DeBoor(r.cp, r.tau, 3, t)
SplineSlope(r, t) == DeBoor(DerivControls(r.cp, r.tau, 3), Tail(r.tau), 2, t)
SplineCurvature(r, t) ==
    DeBoor(DerivControls(DerivControls(r.cp, r.tau, 3), Tail(r.tau), 2), Tail(Tail(r.tau)), 1, t)

SplinePartial(r, t, k) == r.upTo[k] \oplus PieceArea(r.cp, r.tau, r.nodes[k], t)
SplineIntegral(r, t) ==
    CASE t \preceq r.nodes[1] -> r.upTo[1] \ominus (r.cp[1] \otimes (r.nodes[1] \ominus t))
      [] Last(r.nodes) \preceq t -> Last(r.upTo) \oplus (SplineEnd(r) \otimes (t \ominus Last(r.nodes)))
      [] OTHER -> SplinePartial(r, t, AtOrBefore(r.nodes, t))

SplineOut(r) == [time |-> Last(r.nodes), value |-> SplineEnd(r), slope |-> Num(0),
                 integral |-> Last(r.upTo), has_predecessor |-> TRUE]
=============================================================================
