-------------------------------- MODULE Regions --------------------------------
(***************************************************************************)
(* The region policies of a curve that are linear in their values          *)
(* (curve/regions.hpp): Flat, Linear, and the cubics of one segment store, *)
(* NaturalCubic and Hermite.  What a policy's build() leaves in its        *)
(* members is a record here; nodes are counted from 1.                     *)
(***************************************************************************)
EXTENDS Scalars

\* The handoff from a region to the next.
Origin == [time |-> Num(0), value |-> Num(0), slope |-> Num(0), integral |-> Num(0),
           has_predecessor |-> FALSE]

\* A policy refuses at construction knots that are not strictly increasing.
RequireIncreasingKnots(knots) ==
    knots # <<>> /\ \A i \in 1..Len(knots)-1 : knots[i] \prec knots[i+1]

Last(s) == s[Len(s)]

\* base, base + s[1], base + s[1] + s[2], ...
RECURSIVE Running(_, _)
Running(base, s) == IF s = <<>> THEN <<base>>
                    ELSE <<base>> \o Running(base \oplus Head(s), Tail(s))

\* upper_bound less one: the last node at or before t.  lower_bound: the first at or after t.
AtOrBefore(nodes, t) == CHOOSE i \in DOMAIN nodes :
    nodes[i] \preceq t /\ (i = Len(nodes) \/ t \prec nodes[i+1])
AtOrAfter(nodes, t) == CHOOSE i \in DOMAIN nodes :
    t \preceq nodes[i] /\ (i = 1 \/ nodes[i-1] \prec t)

-----------------------------------------------------------------------------
(* Flat: constant on each interval that ends at a knot. *)

Flat(knots, x, in) ==
    [scheme |-> "Flat", start |-> in.time, nodes |-> knots, f |-> x,
     upTo |-> Running(in.integral, Listed([k \in DOMAIN x |->
                  x[k] \otimes (knots[k] \ominus (IF k = 1 THEN in.time ELSE knots[k-1]))]))]

FlatAt(r, t) == CASE t \preceq r.start -> r.f[1]
                  [] Last(r.nodes) \prec t -> Last(r.f)
                  [] OTHER -> r.f[AtOrAfter(r.nodes, t)]

FlatPartial(r, t, k) ==
    r.upTo[k] \oplus (r.f[k] \otimes (t \ominus (IF k = 1 THEN r.start ELSE r.nodes[k-1])))

FlatIntegral(r, t) ==
    CASE t \preceq r.start -> r.upTo[1]
      [] Last(r.nodes) \preceq t -> Last(r.upTo) \oplus (Last(r.f) \otimes (t \ominus Last(r.nodes)))
      [] OTHER -> FlatPartial(r, t, AtOrAfter(r.nodes, t))

FlatOut(r) == [time |-> Last(r.nodes), value |-> Last(r.f), slope |-> Num(0),
               integral |-> Last(r.upTo), has_predecessor |-> TRUE]

-----------------------------------------------------------------------------
(* Nodes: a leading region's are its own knots; a following region's first  *)
(* node is the join, pinned to the forward it is handed.                    *)

TooFewNodes(knots, in) == Len(knots) = 1 /\ ~ in.has_predecessor

Nodes(knots, in) == IF in.has_predecessor THEN <<in.time>> \o knots ELSE knots
Values(x, in) == IF in.has_predecessor THEN <<in.value>> \o x ELSE x

\* A leading region keeps its first value back to the curve's start.
BeforeNodes(t1, y1, in) == IF in.has_predecessor THEN in.integral
                           ELSE in.integral \oplus (y1 \otimes (t1 \ominus in.time))

Lengths(nodes) == Listed([i \in 1..Len(nodes)-1 |-> nodes[i+1] \ominus nodes[i]])
Secants(y, h) == Listed([i \in DOMAIN h |-> (y[i+1] \ominus y[i]) \oslash h[i]])

-----------------------------------------------------------------------------
(* Linear. *)

LinearOver(nodes, y, in) ==
    [scheme |-> "Linear", nodes |-> nodes, y |-> y,
     upTo |-> Running(BeforeNodes(nodes[1], y[1], in), Listed([i \in 1..Len(nodes)-1 |->
                  ((y[i] \oplus y[i+1]) \otimes (nodes[i+1] \ominus nodes[i])) \oslash Num(2)]))]
Linear(knots, x, in) == LinearOver(Nodes(knots, in), Values(x, in), in)

Chord(r, i) == (r.y[i+1] \ominus r.y[i]) \oslash (r.nodes[i+1] \ominus r.nodes[i])

LinearAt(r, t, i) == r.y[i] \oplus (Chord(r, i) \otimes (t \ominus r.nodes[i]))
LinearArea(r, u, i) ==
    r.upTo[i] \oplus (u \otimes (r.y[i] \oplus ((Chord(r, i) \otimes u) \oslash Num(2))))

LinearOut(r) == [time |-> Last(r.nodes), value |-> Last(r.y), slope |-> Chord(r, Len(r.y) - 1),
                 integral |-> Last(r.upTo), has_predecessor |-> TRUE]

-----------------------------------------------------------------------------
(* Cubic segments a + b u + c u^2 + d u^3, u the time since the node. *)

FromTangent(y, h, sec, m0, m1) ==
    [a |-> y, b |-> m0,
     c |-> ((Num(3) \otimes sec) \ominus ((Num(2) \otimes m0) \oplus m1)) \oslash h,
     d |-> ((m0 \oplus m1) \ominus (Num(2) \otimes sec)) \oslash (h \otimes h)]

FromMoment(y, h, sec, M0, M1) ==
    [a |-> y, b |-> sec \ominus ((h \otimes ((Num(2) \otimes M0) \oplus M1)) \oslash Num(6)),
     c |-> M0 \oslash Num(2), d |-> (M1 \ominus M0) \oslash (Num(6) \otimes h)]

Cubic(p, u) == p.a \oplus (u \otimes (p.b \oplus (u \otimes (p.c \oplus (u \otimes p.d)))))
CubicArea(p, u) ==
    u \otimes (p.a \oplus (u \otimes ((p.b \oslash Num(2))
                 \oplus (u \otimes ((p.c \oslash Num(3)) \oplus (u \otimes (p.d \oslash Num(4))))))))
CubicSlope(p, u) == p.b \oplus (u \otimes ((Num(2) \otimes p.c) \oplus (Num(3) \otimes u \otimes p.d)))
CubicCurvature(p, u) == (Num(2) \otimes p.c) \oplus (Num(6) \otimes u \otimes p.d)

\* accumulate(): the integral at every node.
Segments(scheme, nodes, y, h, pieces, in) ==
    [scheme |-> scheme, nodes |-> nodes, y |-> y, pieces |-> pieces,
     upTo |-> Running(BeforeNodes(nodes[1], y[1], in),
                      Listed([i \in DOMAIN h |-> CubicArea(pieces[i], h[i])]))]

EndSlope(r) == CubicSlope(Last(r.pieces), Last(r.nodes) \ominus r.nodes[Len(r.nodes) - 1])
SegmentsOut(r) == [time |-> Last(r.nodes), value |-> Last(r.y), slope |-> EndSlope(r),
                   integral |-> Last(r.upTo), has_predecessor |-> TRUE]

FromTangents(scheme, nodes, y, h, sec, m, in) ==
    Segments(scheme, nodes, y, h,
             Listed([i \in DOMAIN h |-> FromTangent(y[i], h[i], sec[i], m[i], m[i+1])]), in)

\* thomas_solve: elimination down the rows, then substitution back up.
RECURSIVE Eliminated(_, _), BackSubstituted(_, _)
Eliminate(row, above) ==
    LET w == row.lo \oslash above.di
    IN  [row EXCEPT !.di = @ \ominus (w \otimes above.up), !.rhs = @ \ominus (w \otimes above.rhs)]
Eliminated(done, rows) ==
    IF rows = <<>> THEN done
    ELSE Eliminated(Append(done, Eliminate(Head(rows), Last(done))), Tail(rows))
BackSubstituted(rows, found) ==
    IF rows = <<>> THEN found
    ELSE BackSubstituted(SubSeq(rows, 1, Len(rows) - 1),
             <<(IF found = <<>> THEN Last(rows).rhs
                ELSE Last(rows).rhs \ominus (Last(rows).up \otimes Head(found))) \oslash Last(rows).di>>
             \o found)
ThomasSolve(rows) ==
    IF rows = <<>> THEN <<>> ELSE BackSubstituted(Eliminated(<<Head(rows)>>, Tail(rows)), <<>>)

\* NaturalCubic: second derivatives, zero at both ends.
\* Mutant: the row of a node forgets the interval after it.
MomentRowOneSided(h, sec, i) ==
    [lo |-> h[i], di |-> Num(4) \otimes h[i], up |-> h[i],
     rhs |-> Num(6) \otimes (sec[i+1] \ominus sec[i])]
MomentRow(h, sec, i) ==
    [lo |-> h[i], di |-> Num(2) \otimes (h[i] \oplus h[i+1]), up |-> h[i+1],
     rhs |-> Num(6) \otimes (sec[i+1] \ominus sec[i])]
Moments(h, sec, zero) ==
    <<zero>> \o ThomasSolve(Listed([i \in 1..Len(h)-1 |-> MomentRow(h, sec, i)])) \o <<zero>>
FromMoments(nodes, y, h, sec, M, in) ==
    Segments("NaturalCubic", nodes, y, h,
             Listed([i \in DOMAIN h |-> FromMoment(y[i], h[i], sec[i], M[i], M[i+1])]), in)
NaturalOver(nodes, y, h, sec, in) ==
    FromMoments(nodes, y, h, sec, Moments(h, sec, y[1] \otimes Num(0)), in)

\* Hermite: parabolic tangents, one-sided at the ends.
BesselTangent(h, sec, j) ==
    CASE Len(h) = 1 -> sec[1]
      [] j = 1 -> ((((Num(2) \otimes h[1]) \oplus h[2]) \otimes sec[1]) \ominus (h[1] \otimes sec[2]))
                      \oslash (h[1] \oplus h[2])
      [] j = Len(h) + 1 ->
             ((((Num(2) \otimes h[j-1]) \oplus h[j-2]) \otimes sec[j-1]) \ominus (h[j-1] \otimes sec[j-2]))
                 \oslash (h[j-1] \oplus h[j-2])
      [] OTHER -> ((h[j] \otimes sec[j-1]) \oplus (h[j-1] \otimes sec[j])) \oslash (h[j-1] \oplus h[j])
HermiteOver(nodes, y, h, sec, in) ==
    FromTangents("Hermite", nodes, y, h, sec,
                 Listed([j \in DOMAIN nodes |-> BesselTangent(h, sec, j)]), in)
=============================================================================
