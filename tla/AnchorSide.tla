------------------------------ MODULE AnchorSide ------------------------------
(***************************************************************************)
(* The piece the streamer anchors a tracked row on (streaming.hpp          *)
(* collect_bands, set_bands, set_anchor): a record taken once for the      *)
(* row's target piece, tp, used at every later anchor, while targets and   *)
(* bands move under it.  The penalty map is exact arithmetic, in           *)
(* PenaltyMap; the Jacobian is not modelled, only the slope its row        *)
(* carries and the slope the streamer records for it.                      *)
(***************************************************************************)
EXTENDS PenaltyMap

CONSTANTS Values,    \* model values, targets and breakpoints
          Decays,    \* slopes a band may have inside
          DataMaps   \* maps a row may carry as instrument data

kMaxBreaks == 3

ASSUME AnchorAssumption ==
    /\ Values \subseteq Int
    /\ Decays \subseteq 0..Unit
    /\ \A f \in DataMaps : /\ f.n \in 1..kMaxBreaks
                           /\ f.b \in [0..f.n-1 -> Values]
                           /\ \A j \in 1..f.n-1 : f.b[j-1] < f.b[j]
                           /\ f.s \in [0..f.n -> Nat]
                           /\ \E i \in 0..f.n : f.s[i] > 0

VARIABLES map,      \* BandRow::map
          general,  \* BandRow::general
          m,        \* the row's target at the tick
          q,        \* the row's model value
          tp,       \* BandRow::tp
          piece,    \* BandRow::piece and slope_ref at the last anchor, and the slope of
          slopeRef, \* the Jacobian row the engine returned there
          slopeJ

sideVars == <<map, general, m, q, tp, piece, slopeRef, slopeJ>>

\* validate_quote(): a band contains its target.
SideQuotes == {z \in Values \X Values \X Values \X Decays : z[1] < z[2] /\ z[1] <= z[3] /\ z[3] <= z[2]}

\* set_anchor()'s side of the row, one decision for all the rows: from the residual of the
\* Jacobian pass when every map is strict, the other rows' too, from the model value otherwise.
AnchorPiece(f, value, target, t, othersStrict) ==
    IF Strict(f) /\ othersStrict THEN PieceFromResidual(f, Residual(f, value, target), target, t)
                                 ELSE PieceOf(f, value, t)

\* The anchor is taken at the model value of the moment, whatever the other rows carry by then.
SetAnchor ==
    /\ \E othersStrict \in BOOLEAN : piece' = AnchorPiece(map', q', m', tp', othersStrict)
    /\ slopeRef' = map'.s[piece']
    /\ slopeJ' = SlopeAt(map', q', m')

SideInit ==
    /\ \/ general = TRUE /\ map \in DataMaps /\ m \in Values
       \/ \E z \in SideQuotes : general = FALSE /\ map = Band(z[1], z[2], z[4]) /\ m = z[3]
    /\ q \in Values
    /\ tp = TargetPiece(map, m)
    /\ \E othersStrict \in BOOLEAN : piece = AnchorPiece(map, q, m, tp, othersStrict)
    /\ slopeRef = map.s[piece]
    /\ slopeJ = SlopeAt(map, q, m)

\* A tick to a new target; the model value follows it somewhere.
Retarget ==
    /\ m' \in Values /\ q' \in Values
    /\ ~general => map.b[0] <= m' /\ m' <= map.b[1]
    /\ UNCHANGED <<map, general, tp, piece, slopeRef, slopeJ>>

\* Mutant: an in-place requote takes the target's piece to be the one below the band.
SetBandsBelow ==
    /\ ~general
    /\ \E z \in SideQuotes : map' = Band(z[1], z[2], z[4]) /\ m' = z[3]
    /\ tp' = 0
    /\ UNCHANGED <<general, q, piece, slopeRef, slopeJ>>

\* set_bands(): a four-number requote in place.
SetBands ==
    /\ ~general
    /\ \E z \in SideQuotes : map' = Band(z[1], z[2], z[4]) /\ m' = z[3]
    /\ UNCHANGED <<general, q, tp, piece, slopeRef, slopeJ>>

\* A refresh inside a tick.
Refresh ==
    /\ UNCHANGED <<map, general, m, q, tp>>
    /\ SetAnchor

\* resync(): the rows collected afresh, then an anchor.
Resync ==
    /\ tp' = TargetPiece(map, m)
    /\ UNCHANGED <<map, general, m, q>>
    /\ SetAnchor

SideNext == Retarget \/ SetBands \/ Refresh \/ Resync

SideSpec == SideInit /\ [][SideNext]_sideVars

----------------------------------------------------------------------------
(* Properties.                                                             *)

\* Every tracked row's records are values of its own map.
TypeOK ==
    /\ general \in BOOLEAN /\ m \in Values /\ q \in Values
    /\ tp \in 0..map.n /\ piece \in 0..map.n
    /\ slopeRef \in Nat /\ slopeJ \in Nat

\* A band's anchor records the slope its Jacobian row really carries, whatever requotes
\* were taken in place since its target's piece was read (streaming.hpp 361, 852).
BandAnchoredTruly == ~general => slopeRef = slopeJ

\* A residual leads back to where it was read: a strict map finds the piece of the model
\* value from it, on a breakpoint and at a decay of zero or one too, and invert() on a piece
\* of positive slope finds the value (streaming.hpp S2; PenaltyMap::invert).
InvertUndoesResidual ==
    LET t == TargetPiece(map, m)
        i == PieceOf(map, q, t)
        r == Residual(map, q, m)
    IN  /\ Strict(map) => PieceFromResidual(map, r, m, t) = i
        /\ map.s[i] > 0 => Invert(map, i, r, m, t) = q
=============================================================================
