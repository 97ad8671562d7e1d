------------------------------- MODULE Bundles -------------------------------
(***************************************************************************)
(* Bundles as values: their JSON document (api/codec.cpp) and the two      *)
(* walks that say whether two bundles have one structure, structure_equal  *)
(* and its hash twin structural_stamp (structure_fingerprint.hpp).         *)
(*                                                                         *)
(* A document is a record of the keys that are emitted; a reader assigns   *)
(* what is present over the defaults of the struct.  Numbers that all      *)
(* three treat alike are one field (terms, pay); the stamp stands for the  *)
(* sequence of values that is hashed.  The components of a Portfolio row,  *)
(* which recurse into the same functions, are left out.                    *)
(***************************************************************************)
EXTENDS Integers, Sequences, Functions

Unset == << >>
NoMap == "plain"

NewObs == [subs |-> << >>, realized |-> 0, terms |-> 0, index |-> "", schedule |-> << >>, resolved |-> FALSE]
NewCoupon == [obs |-> NewObs, pay |-> 0, accrual |-> Unset, resetFx |-> -1, fxFixing |-> Unset]
NewRow == [kind |-> "ParRate", terms |-> 0, coupons |-> << >>, spotTime |-> 0, state |-> << >>,
           market |-> 0, band |-> <<0, 0>>, penalty |-> NoMap]
NewRegion == [scheme |-> "Hermite", knots |-> << >>, sigma |-> 0, lambda |-> -1]
NewCurve == [base |-> -1, regions |-> << >>, turns |-> << >>, tenor |-> 0]
NewBundle == [curves |-> << >>, rows |-> << >>, constraints |-> << >>]

------------------------------------------------------------------------------
(* Writing a document.                                                        *)

Without(r, keys) == Restrict(r, DOMAIN r \ keys)
OmitIf(test, keys) == IF test THEN keys ELSE {}
Each(Op(_), seq) == [i \in 1..Len(seq) |-> Op(seq[i])]

ObsTo(o) == Without(o, {"resolved"} \cup OmitIf(o.schedule = << >>, {"index", "schedule"}))

\* An accrual period that is the observation window says nothing new.
SameAsWindow(c) == c.obs.subs # << >> /\ c.accrual = <<c.obs.subs[1][1], c.obs.subs[Len(c.obs.subs)][2]>>

\* Mutant: the accrual period is left out whenever there is a window.
CouponToShort(c) ==
    [Without(c, OmitIf(c.accrual = Unset \/ c.obs.subs # << >>, {"accrual"})
                \cup OmitIf(c.resetFx < 0, {"resetFx"}) \cup OmitIf(c.fxFixing = Unset, {"fxFixing"}))
       EXCEPT !.obs = ObsTo(@)]

CouponTo(c) ==
    [Without(c, OmitIf(c.accrual = Unset \/ SameAsWindow(c), {"accrual"})
                \cup OmitIf(c.resetFx < 0, {"resetFx"}) \cup OmitIf(c.fxFixing = Unset, {"fxFixing"}))
       EXCEPT !.obs = ObsTo(@)]

RowTo(r) ==
    [Without(r, OmitIf(r.spotTime = 0, {"spotTime"}) \cup OmitIf(r.state = << >>, {"state"})
                \cup OmitIf(r.penalty = NoMap, {"penalty"}))
       EXCEPT !.coupons = Each(CouponTo, @)]

RegionTo(m) == Without(m, OmitIf(m.scheme # "Tension", {"sigma"}) \cup OmitIf(m.lambda < 0, {"lambda"}))

CurveTo(c) ==
    [Without(c, OmitIf(c.turns = << >>, {"turns"}) \cup OmitIf(c.tenor = 0, {"tenor"}))
       EXCEPT !.regions = Each(RegionTo, @)]

BundleTo(p) ==
    [k \in DOMAIN p \ OmitIf(p.constraints = << >>, {"constraints"}) |->
        IF k = "curves" THEN Each(CurveTo, p[k]) ELSE Each(RowTo, p[k])]

------------------------------------------------------------------------------
(* Reading one.                                                               *)

Has(d, key) == key \in DOMAIN d
Into(d, default) == [k \in DOMAIN default |-> IF Has(d, k) THEN d[k] ELSE default[k]]
EachIn(d, key, Op(_)) == IF Has(d, key) THEN Each(Op, d[key]) ELSE << >>

ObsFrom(d) == Into(d, NewObs)
CouponFrom(d) == [Into(d, NewCoupon) EXCEPT !.obs = IF Has(d, "obs") THEN ObsFrom(d.obs) ELSE NewObs]
RowFrom(d) == [Into(d, NewRow) EXCEPT !.coupons = EachIn(d, "coupons", CouponFrom)]
RegionFrom(d) == Into(d, NewRegion)

\* The layout of old documents: policy steps in front, a Hermite back end.
FlatHermite(meeting, back) ==
    LET region(scheme, knots) ==
            IF knots = << >> THEN << >> ELSE << [NewRegion EXCEPT !.scheme = scheme, !.knots = knots] >>
    IN  region("Flat", meeting) \o region("Hermite", back)

CurveFrom(d) ==
    LET legacy == FlatHermite(IF Has(d, "meeting") THEN d.meeting ELSE << >>, IF Has(d, "back") THEN d.back ELSE << >>)
        regions == EachIn(d, "regions", RegionFrom)
    IN  [Into(d, NewCurve) EXCEPT !.regions = IF regions = << >> THEN legacy ELSE regions]

BundleFrom(d) ==
    [curves |-> EachIn(d, "curves", CurveFrom), rows |-> EachIn(d, "rows", RowFrom),
     constraints |-> EachIn(d, "constraints", RowFrom)]

------------------------------------------------------------------------------
(* One structure: everything but the quotes.                                  *)

\* The dates a coupon's notional is exchanged on: its accrual period, or its window.
EffStart(c) == IF c.accrual # Unset THEN c.accrual[1] ELSE IF c.obs.subs = << >> THEN -1 ELSE c.obs.subs[1][1]
EffEnd(c) ==
    IF c.accrual # Unset THEN c.accrual[2] ELSE IF c.obs.subs = << >> THEN -1 ELSE c.obs.subs[Len(c.obs.subs)][2]

\* A schedule is compared by its ends, and in place of what it was resolved to.
Ends(s) == <<s[1].date, s[1].from, s[Len(s)].date, s[Len(s)].to>>

ObsEqual(a, b) ==
    /\ Len(a.schedule) = Len(b.schedule)
    /\ a.index = b.index
    /\ a.terms = b.terms
    /\ IF a.schedule # << >> THEN Ends(a.schedule) = Ends(b.schedule)
                             ELSE a.subs = b.subs /\ a.realized = b.realized

\* Mutant: the walk passes over the FX rate a coupon resets at.
CouponEqualAtAnyFx(a, b) ==
    /\ a.pay = b.pay
    /\ (a.accrual # Unset \/ b.accrual # Unset \/ a.obs.schedule # << >>) =>
           EffStart(a) = EffStart(b) /\ EffEnd(a) = EffEnd(b)
    /\ a.fxFixing = b.fxFixing
    /\ ObsEqual(a.obs, b.obs)

CouponEqual(a, b) ==
    /\ a.pay = b.pay
    /\ (a.accrual # Unset \/ b.accrual # Unset \/ a.obs.schedule # << >>) =>
           EffStart(a) = EffStart(b) /\ EffEnd(a) = EffEnd(b)
    /\ a.resetFx = b.resetFx
    /\ a.fxFixing = b.fxFixing
    /\ ObsEqual(a.obs, b.obs)

AllEqual(Eq(_, _), a, b) == Len(a) = Len(b) /\ \A i \in 1..Len(a) : Eq(a[i], b[i])

RowEqual(a, b) ==
    /\ a.kind = b.kind /\ a.terms = b.terms /\ a.spotTime = b.spotTime /\ a.state = b.state
    /\ AllEqual(CouponEqual, a.coupons, b.coupons)

CurveEqual(a, b) == a.base = b.base /\ a.regions = b.regions /\ a.turns = b.turns

\* The last `tail` constraints of a are the session's own.
StructureEqual(a, b, tail) ==
    /\ AllEqual(CurveEqual, a.curves, b.curves)
    /\ AllEqual(RowEqual, a.rows, b.rows)
    /\ AllEqual(RowEqual, SubSeq(a.constraints, 1, Len(a.constraints) - tail), b.constraints)

\* What is left of a problem without its last constraints.
OwnPart(p, tail) == [p EXCEPT !.constraints = SubSeq(@, 1, Len(@) - tail)]

------------------------------------------------------------------------------
(* The stamp.                                                                 *)

StampObs(o) ==
    [size |-> Len(o.schedule), index |-> o.index, terms |-> o.terms,
     reads |-> IF o.schedule # << >> THEN Ends(o.schedule) ELSE <<o.subs, o.realized>>]

\* Mutant: the window is stamped as the exchange dates even where a period is carried.
StampCouponByWindow(c) ==
    LET bare == [c EXCEPT !.accrual = Unset]
    IN  [pay |-> c.pay, start |-> EffStart(bare), end |-> EffEnd(bare), resetFx |-> c.resetFx,
         fxFixing |-> c.fxFixing, obs |-> StampObs(c.obs)]

StampCoupon(c) ==
    [pay |-> c.pay, start |-> EffStart(c), end |-> EffEnd(c), resetFx |-> c.resetFx,
     fxFixing |-> c.fxFixing, obs |-> StampObs(c.obs)]

StampRow(r) ==
    [kind |-> r.kind, terms |-> r.terms, spotTime |-> r.spotTime, state |-> r.state,
     coupons |-> Each(StampCoupon, r.coupons)]

StampCurve(c) == [base |-> c.base, regions |-> c.regions, turns |-> c.turns]

StructuralStamp(p) ==
    [curves |-> Each(StampCurve, p.curves), rows |-> Each(StampRow, p.rows),
     constraints |-> Each(StampRow, p.constraints)]

------------------------------------------------------------------------------
(* The shape of a bundle, as far as the walks read it: its lists are lists and its records    *)
(* have their fields.  The values that are only compared may be anything.                     *)
IsList(s) == s = [i \in 1..Len(s) |-> s[i]] /\ Len(s) \in Nat
IsObs(o) ==
    /\ o = [subs |-> o.subs, realized |-> o.realized, terms |-> o.terms, index |-> o.index,
            schedule |-> o.schedule, resolved |-> o.resolved]
    /\ o.schedule \in Seq([date : Int, from : Int, to : Int])
IsCoupon(c) ==
    /\ c = [obs |-> c.obs, pay |-> c.pay, accrual |-> c.accrual, resetFx |-> c.resetFx, fxFixing |-> c.fxFixing]
    /\ IsObs(c.obs)
IsRow(r) ==
    /\ r = [kind |-> r.kind, terms |-> r.terms, coupons |-> r.coupons, spotTime |-> r.spotTime, state |-> r.state,
            market |-> r.market, band |-> r.band, penalty |-> r.penalty]
    /\ IsList(r.coupons) /\ \A i \in 1..Len(r.coupons) : IsCoupon(r.coupons[i])
IsRows(s) == IsList(s) /\ \A i \in 1..Len(s) : IsRow(s[i])
IsBundle(p) ==
    /\ p = [curves |-> p.curves, rows |-> p.rows, constraints |-> p.constraints]
    /\ IsList(p.curves) /\ IsRows(p.rows) /\ IsRows(p.constraints)

\* The builders give a coupon that resolves its own accrual period.
Carries(c) == c.obs.schedule # << >> => c.accrual # Unset
AllCarry(rows) == \A i \in 1..Len(rows) : \A j \in 1..Len(rows[i].coupons) : Carries(rows[i].coupons[j])
=============================================================================
