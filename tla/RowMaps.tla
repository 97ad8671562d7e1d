-------------------------------- MODULE RowMaps --------------------------------
(***************************************************************************)
(* The compiled engine's row maps (calibration/compiled_bundle.hpp         *)
(* CompiledBundleResidual): the list of residual maps it keeps beside the  *)
(* rows' bands, edited in place or rebuilt on the next read, and the rows  *)
(* a Jacobian pass found on a flat piece.                                  *)
(*                                                                         *)
(* An engine is a record over its local rows 1..n: kind, data, market,     *)
(* band, the list maps with pos and dirty, and dead, deadJ.  A band is     *)
(* [lo, up, dc]; one with up <= lo is none.  Residuals are in units of a   *)
(* slope of Unit.                                                          *)
(***************************************************************************)
EXTENDS PenaltyMap, Sequences

IsBand(b) == b.up > b.lo

\* A row's band as a map, and the map of a row without any.
BandMap(b) == Band(b.lo, b.up, b.dc)
PlainMap == [n |-> 0, b |-> <<>>, s |-> [i \in {0} |-> Unit]]
IsPlain(f) == f.n = 0 /\ f.s[0] = Unit

\* Instrument::penalty(): a row's map as data comes before its band.
Penalty(kind, data, b) == IF kind = "data" THEN data
                          ELSE IF IsBand(b) THEN BandMap(b) ELSE PlainMap

\* instrument_residual_of_quote() and its derivative: a log row's map is its logarithm,
\* here the identity.
ByInstrument(kind, data, b, v, m) ==
    LET f == Penalty(kind, data, b)
    IN  IF kind = "log" THEN [r |-> Unit * (v - m), slope |-> Unit]
        ELSE [r |-> Residual(f, v, m), slope |-> SlopeAt(f, v, m)]

Locals(e) == DOMAIN e.market

\* The rows row_maps() lists: log rows, rows whose map is data and not plain, and banded rows.
Mapped(e, j) == \/ e.kind[j] = "log"
                \/ e.kind[j] = "data" /\ ~IsPlain(e.data[j])
                \/ e.kind[j] = "quote" /\ IsBand(e.band[j])

RowMap(e, j) == [row |-> j,
                 shape |-> IF e.kind[j] = "log" THEN "log" ELSE IF e.kind[j] = "data" THEN "general" ELSE "edges",
                 f |-> Penalty(e.kind[j], e.data[j], e.band[j])]

PosOf(e) == [j \in Locals(e) |->
                IF Mapped(e, j) THEN Cardinality({i \in Locals(e) : i <= j /\ Mapped(e, i)}) ELSE 0]

\* row_maps().
Rebuilt(e) ==
    IF ~e.dirty THEN e
    ELSE LET pos == PosOf(e)
         IN  [e EXCEPT !.maps = [k \in {pos[j] : j \in {i \in Locals(e) : Mapped(e, i)}} |->
                                    RowMap(e, CHOOSE j \in Locals(e) : Mapped(e, j) /\ pos[j] = k)],
                       !.pos = pos,
                       !.dirty = FALSE]

\* set_quote().
WithQuote(e, j, m, b) ==
    LET f == [e EXCEPT !.market[j] = m, !.band[j] = b]
    IN  IF e.kind[j] = "log" THEN [e EXCEPT !.market[j] = m]
        ELSE IF b = e.band[j] \/ e.kind[j] = "data" THEN f
        ELSE IF IsBand(e.band[j]) /\ IsBand(b) /\ ~e.dirty /\ e.pos[j] > 0
             THEN [f EXCEPT !.maps[e.pos[j]].f = BandMap(b)]
             ELSE [f EXCEPT !.dirty = TRUE]

\* set_market().
WithMarket(e, j, m) == [e EXCEPT !.market[j] = m]

\* row_residual_d().
ByMap(map, v, m) ==
    IF map.shape = "log" THEN [r |-> Unit * (v - m), slope |-> Unit]
    ELSE IF map.shape = "edges" THEN TwoEdge(map.f, v, m)
    ELSE [r |-> Residual(map.f, v, m), slope |-> SlopeAt(map.f, v, m)]

MapsOn(e, j) == {k \in DOMAIN e.maps : e.maps[k].row = j}

\* residuals_from(), and the slope jacobian_core() scales a row by: every row is plain
\* until a listed map overwrites it.
Evaluate(e, v, q) ==
    [j \in Locals(e) |->
        IF MapsOn(e, j) = {} THEN [r |-> Unit * (v[j] - q[j]), slope |-> Unit]
        ELSE ByMap(e.maps[CHOOSE k \in MapsOn(e, j) : TRUE], v[j], q[j])]

\* The rows registered with a flat piece: what dead_J_ is first sized for.
DeadCapacity(e) ==
    Cardinality({j \in Locals(e) :
        LET f == Penalty(e.kind[j], e.data[j], e.band[j]) IN \E i \in 0..f.n : f.s[i] = 0})

\* jacobian_core()'s dead rows, in the list's order, and their unscaled quote rows.  A
\* quote row is named by the row and the state it was taken at.
WithDead(e, v, q, x) ==
    LET flat == {k \in DOMAIN e.maps : ByMap(e.maps[k], v[e.maps[k].row], q[e.maps[k].row]).slope = 0}
        nth(k) == Cardinality({i \in flat : i <= k})
        dead == [k \in 1..Cardinality(flat) |-> e.maps[CHOOSE i \in flat : nth(i) = k].row]
    IN  [e EXCEPT !.dead = dead,
                  !.deadJ = [k \in 1..(IF Len(dead) > Len(@) THEN Len(dead) ELSE Len(@)) |->
                                IF k <= Len(dead) THEN <<dead[k], x>> ELSE @[k]]]
=============================================================================
