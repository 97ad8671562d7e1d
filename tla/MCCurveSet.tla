------------------------------ MODULE MCCurveSet ------------------------------
(* Curve sets for CurveSet: every kind alone and as the base of another, at   *)
(* most one of them a tangent curve.                                          *)
EXTENDS CurveSet

Curve(kind, base) == [kind |-> kind, base |-> base]

MCCurveSets == {<<Curve("cell", 0), Curve("tangent", 1)>>,
                <<Curve("tangent", 0), Curve("cell", 1)>>,
                <<Curve("opaque", 0), Curve("tangent", 1)>>,
                <<Curve("linear", 0), Curve("tangent", 0)>>,
                <<Curve("cell", 0), Curve("opaque", 1)>>,
                <<Curve("cell", 0), Curve("cell", 1)>>}

MCKnots == -1..2
=============================================================================
