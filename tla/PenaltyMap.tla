------------------------------ MODULE PenaltyMap ------------------------------
(***************************************************************************)
(* PenaltyMap (calibration/problem.hpp): a row's residual as a continuous, *)
(* piecewise-linear function of its model value, zero at the target.       *)
(*                                                                         *)
(* A map is [n |-> breakpoints, b |-> their places, s |-> the slope of     *)
(* each of the n + 1 pieces].  Values are integers, and so are slopes: a   *)
(* unit of slope stands for the decay, so residuals are in that unit too.  *)
(***************************************************************************)
EXTENDS Integers, FiniteSets

CONSTANT Unit   \* the slope outside a band
ASSUME UnitAssumption == Unit \in Nat \ {0}

\* PenaltyMap::band().
Band(lower, upper, decay) ==
    [n |-> 2,
     b |-> [j \in 0..1 |-> IF j = 0 THEN lower ELSE upper],
     s |-> [i \in 0..2 |-> IF i = 1 THEN decay ELSE Unit]]

\* The piece the target m lies in; a breakpoint equal to m joins the smaller slope.
TargetPiece(f, m) ==
    LET below == Cardinality({j \in 0..f.n-1 : f.b[j] < m})
    IN  IF below < f.n /\ f.b[below] = m /\ f.s[below + 1] < f.s[below]
        THEN below + 1 ELSE below

\* The piece of the value q, walked from the target's piece: equality on a breakpoint
\* resolves toward the target.
PieceOf(f, q, tp) ==
    tp - Cardinality({j \in 0..tp-1 : q < f.b[j]})
       + Cardinality({j \in tp..f.n-1 : q > f.b[j]})

\* The residual at each breakpoint, accumulated outwards from the target in piece tp.
AtBreak(f, m, tp) ==
    LET r[j \in 0..f.n-1] ==
            IF j >= tp
            THEN IF j = tp THEN (f.b[tp] - m) * f.s[tp]
                 ELSE r[j-1] + (f.b[j] - f.b[j-1]) * f.s[j]
            ELSE IF j = tp - 1 THEN (f.b[tp-1] - m) * f.s[tp]
                 ELSE r[j+1] + (f.b[j] - f.b[j+1]) * f.s[j+1]
    IN  r

\* The piece of a residual: upwards while it exceeds the next breakpoint's, else downwards.
PieceFromResidual(f, r, m, tp) ==
    LET at == AtBreak(f, m, tp)
        above == Cardinality({j \in tp..f.n-1 : r > at[j]})
    IN  IF above > 0 THEN tp + above
        ELSE tp - Cardinality({j \in 0..tp-1 : r < at[j]})

\* The breakpoint of piece i on the target's side.
NearBreak(i, tp) == IF i > tp THEN i - 1 ELSE i

Residual(f, q, m) ==
    LET tp == TargetPiece(f, m)
        i  == PieceOf(f, q, tp)
        j  == NearBreak(i, tp)
    IN  IF i = tp THEN (q - m) * f.s[i]
        ELSE AtBreak(f, m, tp)[j] + (q - f.b[j]) * f.s[i]

SlopeAt(f, q, m) == f.s[PieceOf(f, q, TargetPiece(f, m))]

\* Mutant: the slope of the target's own piece is forgotten.
InvertUnscaled(f, i, r, m, tp) ==
    LET j == NearBreak(i, tp)
    IN  IF i = tp THEN m + r
        ELSE f.b[j] + (r - AtBreak(f, m, tp)[j]) \div f.s[i]

\* The value on piece i, of positive slope, whose residual is r.
Invert(f, i, r, m, tp) ==
    LET j == NearBreak(i, tp)
    IN  IF i = tp THEN m + r \div f.s[i]
        ELSE f.b[j] + (r - AtBreak(f, m, tp)[j]) \div f.s[i]

\* The two-edge view of a band: three comparisons in place of the walk.
IsTwoEdge(f, m) == f.n = 2 /\ f.b[0] <= m /\ m <= f.b[1]

TwoEdge(f, q, m) ==
    LET lo == f.b[0]
        hi == f.b[1]
    IN  IF q > hi THEN [r |-> (hi - m) * f.s[1] + f.s[2] * (q - hi), slope |-> f.s[2]]
        ELSE IF q < lo THEN [r |-> (lo - m) * f.s[1] + f.s[0] * (q - lo), slope |-> f.s[0]]
        ELSE [r |-> f.s[1] * (q - m), slope |-> f.s[1]]

Strict(f) == \A i \in 0..f.n : f.s[i] > 0
=============================================================================
