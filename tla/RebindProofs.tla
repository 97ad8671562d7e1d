---------------------------- MODULE RebindProofs -----------------------------
(***************************************************************************)
(* What Rebind says of sessions and their stamps, for any bundles, edits,  *)
(* quotes and dates.                                                       *)
(*                                                                         *)
(* Resolution and quotes change nothing the stamp reads, so the problem of *)
(* an open session keeps the stamp it was opened with (RebindInv).  The    *)
(* other two results compare what is priced: a coupon is Alike another if  *)
(* it resolves to the same flows on any date, and a document, a requote    *)
(* and a resolution each give rows alike to those they start from.         *)
(***************************************************************************)
EXTENDS Rebind, SequenceTheorems, TLAPS

------------------------------------------------------------------------------
(* The two structural walks of a bundle. *)

LEMMA SameLength ==
    ASSUME NEW s, NEW t, Len(s) \in Nat, Len(t) \in Nat, 1..Len(s) = 1..Len(t)
    PROVE  Len(s) = Len(t)
  OBVIOUS

LEMMA LenOfList == ASSUME NEW s, IsList(s) PROVE Len(s) \in Nat
  BY Zenon DEF IsList

LEMMA ObsTwin ==
    ASSUME NEW a, NEW b, IsObs(a), IsObs(b)
    PROVE  ObsEqual(a, b) <=> StampObs(a) = StampObs(b)
<1>1. /\ Len(a.schedule) \in Nat /\ Len(b.schedule) \in Nat
      /\ a.schedule = << >> <=> Len(a.schedule) = 0
      /\ b.schedule = << >> <=> Len(b.schedule) = 0
  BY DEF IsObs
<1>2. CASE Len(a.schedule) = Len(b.schedule) /\ a.schedule # << >>
  BY <1>1, <1>2 DEF ObsEqual, StampObs
<1>3. CASE Len(a.schedule) = Len(b.schedule) /\ a.schedule = << >>
  BY <1>1, <1>3 DEF ObsEqual, StampObs
<1>4. CASE Len(a.schedule) # Len(b.schedule)
  BY <1>1, <1>4 DEF ObsEqual, StampObs
<1> QED
  BY <1>2, <1>3, <1>4

\* Where the walk leaves the exchange dates out, they are those of the windows it compares.
LEMMA CouponTwin ==
    ASSUME NEW a, NEW b, IsCoupon(a), IsCoupon(b)
    PROVE  CouponEqual(a, b) <=> StampCoupon(a) = StampCoupon(b)
<1>1. ObsEqual(a.obs, b.obs) <=> StampObs(a.obs) = StampObs(b.obs)
  BY ObsTwin DEF IsCoupon
<1>2. ASSUME CouponEqual(a, b), a.accrual = Unset, b.accrual = Unset, a.obs.schedule = << >>
      PROVE  EffStart(a) = EffStart(b) /\ EffEnd(a) = EffEnd(b)
  <2>1. a.obs.subs = b.obs.subs
    BY <1>2 DEF CouponEqual, ObsEqual
  <2> QED
    BY <1>2, <2>1 DEF EffStart, EffEnd
<1>3. CouponEqual(a, b) => EffStart(a) = EffStart(b) /\ EffEnd(a) = EffEnd(b)
  BY <1>2 DEF CouponEqual
<1> QED
  BY <1>1, <1>3 DEF CouponEqual, StampCoupon

LEMMA CouponsTwin ==
    ASSUME NEW s, NEW t, IsList(s), IsList(t),
           \A i \in 1..Len(s) : IsCoupon(s[i]), \A i \in 1..Len(t) : IsCoupon(t[i])
    PROVE  AllEqual(CouponEqual, s, t) <=> Each(StampCoupon, s) = Each(StampCoupon, t)
<1>1. ASSUME AllEqual(CouponEqual, s, t) PROVE Each(StampCoupon, s) = Each(StampCoupon, t)
  <2>1. Len(s) = Len(t)
    BY <1>1 DEF AllEqual
  <2>2. \A i \in 1..Len(s) : StampCoupon(s[i]) = StampCoupon(t[i])
    BY <1>1, <2>1, CouponTwin DEF AllEqual, IsList
  <2> QED
    BY <2>1, <2>2 DEF Each
<1>2. ASSUME Each(StampCoupon, s) = Each(StampCoupon, t) PROVE AllEqual(CouponEqual, s, t)
  <2>1. 1..Len(s) = 1..Len(t)
    BY <1>2 DEF Each
  <2>2. Len(s) = Len(t)
    BY <2>1, LenOfList, SameLength
  <2>3. \A i \in 1..Len(s) : StampCoupon(s[i]) = StampCoupon(t[i])
    BY <1>2, <2>1 DEF Each
  <2>4. \A i \in 1..Len(s) : CouponEqual(s[i], t[i])
    BY <2>2, <2>3, CouponTwin
  <2> QED
    BY <2>2, <2>4 DEF AllEqual
<1> QED
  BY <1>1, <1>2

LEMMA RowTwin ==
    ASSUME NEW a, NEW b, IsRow(a), IsRow(b)
    PROVE  RowEqual(a, b) <=> StampRow(a) = StampRow(b)
<1>1. AllEqual(CouponEqual, a.coupons, b.coupons) <=> Each(StampCoupon, a.coupons) = Each(StampCoupon, b.coupons)
  BY CouponsTwin DEF IsRow
<1> QED
  BY <1>1 DEF RowEqual, StampRow

LEMMA RowsTwin ==
    ASSUME NEW s, NEW t, IsRows(s), IsRows(t)
    PROVE  AllEqual(RowEqual, s, t) <=> Each(StampRow, s) = Each(StampRow, t)
<1>1. ASSUME AllEqual(RowEqual, s, t) PROVE Each(StampRow, s) = Each(StampRow, t)
  <2>1. Len(s) = Len(t)
    BY <1>1 DEF AllEqual
  <2>2. \A i \in 1..Len(s) : StampRow(s[i]) = StampRow(t[i])
    BY <1>1, <2>1, RowTwin DEF AllEqual, IsRows
  <2> QED
    BY <2>1, <2>2 DEF Each
<1>2. ASSUME Each(StampRow, s) = Each(StampRow, t) PROVE AllEqual(RowEqual, s, t)
  <2>1. 1..Len(s) = 1..Len(t)
    BY <1>2 DEF Each
  <2>2. Len(s) = Len(t)
    BY <2>1, LenOfList, SameLength DEF IsRows
  <2>3. \A i \in 1..Len(s) : StampRow(s[i]) = StampRow(t[i])
    BY <1>2, <2>1 DEF Each
  <2>4. \A i \in 1..Len(s) : RowEqual(s[i], t[i])
    BY <2>2, <2>3, RowTwin DEF IsRows
  <2> QED
    BY <2>2, <2>4 DEF AllEqual
<1> QED
  BY <1>1, <1>2

LEMMA CurvesTwin ==
    ASSUME NEW s, NEW t, IsList(s), IsList(t)
    PROVE  AllEqual(CurveEqual, s, t) <=> Each(StampCurve, s) = Each(StampCurve, t)
<1>1. ASSUME AllEqual(CurveEqual, s, t) PROVE Each(StampCurve, s) = Each(StampCurve, t)
  <2>1. \A i \in 1..Len(s) : StampCurve(s[i]) = StampCurve(t[i])
    BY <1>1 DEF AllEqual, CurveEqual, StampCurve
  <2> QED
    BY <1>1, <2>1 DEF Each, AllEqual
<1>2. ASSUME Each(StampCurve, s) = Each(StampCurve, t) PROVE AllEqual(CurveEqual, s, t)
  <2>1. 1..Len(s) = 1..Len(t)
    BY <1>2 DEF Each
  <2>2. Len(s) = Len(t)
    BY <2>1, LenOfList, SameLength
  <2>3. \A i \in 1..Len(s) : StampCurve(s[i]) = StampCurve(t[i])
    BY <1>2, <2>1 DEF Each
  <2> QED
    BY <2>2, <2>3 DEF AllEqual, CurveEqual, StampCurve
<1> QED
  BY <1>1, <1>2

(* The stamp is the twin of the walk: two bundles have one structure exactly when they stamp  *)
(* alike (structure_fingerprint.hpp, "HASH TWIN"), the session's own tail of constraints left *)
(* out of both.                                                                               *)
THEOREM StampIsTheWalk ==
    ASSUME NEW a, NEW b, NEW tail \in Nat,
           a = [curves |-> a.curves, rows |-> a.rows, constraints |-> a.constraints],
           IsBundle(OwnPart(a, tail)), IsBundle(b)
    PROVE  StructureEqual(a, b, tail) <=> StructuralStamp(OwnPart(a, tail)) = StructuralStamp(b)
<1> DEFINE own == OwnPart(a, tail)
<1>1. /\ own.curves = a.curves /\ own.rows = a.rows
      /\ own.constraints = SubSeq(a.constraints, 1, Len(a.constraints) - tail)
  BY DEF OwnPart
<1>2. AllEqual(CurveEqual, own.curves, b.curves) <=> Each(StampCurve, own.curves) = Each(StampCurve, b.curves)
  BY CurvesTwin DEF IsBundle
<1>3. AllEqual(RowEqual, own.rows, b.rows) <=> Each(StampRow, own.rows) = Each(StampRow, b.rows)
  BY RowsTwin DEF IsBundle
<1>4. AllEqual(RowEqual, own.constraints, b.constraints) <=> Each(StampRow, own.constraints) = Each(StampRow, b.constraints)
  BY RowsTwin DEF IsBundle
<1> HIDE DEF own
<1>5. StructureEqual(a, b, tail) <=>
        /\ AllEqual(CurveEqual, own.curves, b.curves)
        /\ AllEqual(RowEqual, own.rows, b.rows)
        /\ AllEqual(RowEqual, own.constraints, b.constraints)
  BY <1>1 DEF StructureEqual
<1>6. StructuralStamp(own) = StructuralStamp(b) <=>
        /\ Each(StampCurve, own.curves) = Each(StampCurve, b.curves)
        /\ Each(StampRow, own.rows) = Each(StampRow, b.rows)
        /\ Each(StampRow, own.constraints) = Each(StampRow, b.constraints)
  BY DEF StructuralStamp
<1>7. StructureEqual(a, b, tail) <=> StructuralStamp(own) = StructuralStamp(b)
  BY <1>2, <1>3, <1>4, <1>5, <1>6
<1> QED
  BY <1>7 DEF own

------------------------------------------------------------------------------
(* Sessions and their stamps. *)

\* The lists of the walks are sequences.
LEMMA ListIsSeq ==
    ASSUME NEW s, IsList(s)
    PROVE  s \in Seq({s[i] : i \in 1..Len(s)})
<1>1. Len(s) \in Nat /\ s = [i \in 1..Len(s) |-> s[i]]
  BY Zenon DEF IsList
<1> DEFINE n == Len(s)
<1> HIDE DEF n
<1>2. n \in Nat /\ s = [i \in 1..n |-> s[i]]
  BY <1>1 DEF n
<1>3. s \in [1..n -> {s[i] : i \in 1..n}]
  BY <1>2
<1>4. s \in Seq({s[i] : i \in 1..n})
  BY <1>2, <1>3, SeqDef
<1>5. QED
  BY <1>4 DEF n

LEMMA FunctionIsList ==
    ASSUME NEW n \in Nat, NEW s, s = [i \in 1..n |-> s[i]]
    PROVE  Len(s) = n /\ IsList(s)
<1>1. s \in [1..n -> {s[i] : i \in 1..n}]
  OBVIOUS
<1>2. s \in Seq({s[i] : i \in 1..n})
  BY <1>1, SeqDef
<1>3. Len(s) = n
  BY <1>1, <1>2, LenProperties
<1>4. QED
  BY <1>3 DEF IsList

LEMMA PrefixOfList ==
    ASSUME NEW s, IsList(s), NEW n \in 0..Len(s)
    PROVE  /\ Len(SubSeq(s, 1, n)) = n /\ IsList(SubSeq(s, 1, n))
           /\ \A i \in 1..n : SubSeq(s, 1, n)[i] = s[i]
<1>1. s \in Seq({s[i] : i \in 1..Len(s)}) /\ Len(s) \in Nat
  BY ListIsSeq, LenOfList
<1> DEFINE p == SubSeq(s, 1, n)
<1>2. /\ Len(p) = n
      /\ p \in Seq({s[i] : i \in 1..Len(s)})
      /\ \A i \in 1..n : p[i] = s[i]
  BY <1>1, SubSeqProperties
<1> HIDE DEF p
<1>3. p = [i \in 1..n |-> p[i]]
  BY <1>1, <1>2
<1>4. IsList(p)
  BY <1>1, <1>2, <1>3, FunctionIsList
<1>5. QED
  BY <1>2, <1>4 DEF p

LEMMA JoinedLists ==
    ASSUME NEW s, IsList(s), NEW t, IsList(t)
    PROVE  /\ Len(s \o t) = Len(s) + Len(t) /\ IsList(s \o t)
           /\ \A i \in 1..Len(s) : (s \o t)[i] = s[i]
           /\ \A i \in 1..Len(t) : (s \o t)[Len(s) + i] = t[i]
<1>1. /\ s \in Seq({s[i] : i \in 1..Len(s)}) /\ Len(s) \in Nat
      /\ t \in Seq({t[i] : i \in 1..Len(t)}) /\ Len(t) \in Nat
  BY ListIsSeq, LenOfList
<1> DEFINE S == {s[i] : i \in 1..Len(s)} \cup {t[i] : i \in 1..Len(t)}
<1> HIDE DEF S
<1>2. s \in Seq(S) /\ t \in Seq(S)
  BY <1>1 DEF S
<1>3. /\ s \o t \in Seq(S) /\ Len(s \o t) = Len(s) + Len(t)
      /\ \A i \in 1..Len(s) + Len(t) : (s \o t)[i] = IF i <= Len(s) THEN s[i] ELSE t[i - Len(s)]
  BY <1>2, ConcatProperties
<1>4. s \o t = [i \in 1..Len(s \o t) |-> (s \o t)[i]]
  <2> DEFINE r == s \o t
  <2>1. r \in Seq(S)
    BY <1>3
  <2> HIDE DEF r
  <2>2. r = [i \in 1..Len(r) |-> r[i]]
    BY <2>1, LenProperties
  <2>3. QED
    BY <2>2 DEF r
<1>5. QED
  BY <1>1, <1>3, <1>4 DEF IsList

----------------------------------------------------------------------------
(* Resolution is not structure.                                            *)

LEMMA ObsResolved ==
    ASSUME NEW o, IsObs(o), NEW when, NEW known
    PROVE  /\ IsObs(ResolveInto(o, when, known))
           /\ ResolveInto(o, when, known).schedule = o.schedule
           /\ o.schedule # << >> => StampObs(ResolveInto(o, when, known)) = StampObs(o)
           /\ o.schedule = << >> => ResolveInto(o, when, known) = o
<1> DEFINE r == ResolveInto(o, when, known)
<1>1. o.schedule = << >> => r = o
  BY DEF ResolveInto
<1>2. r.schedule = o.schedule /\ r.index = o.index /\ r.terms = o.terms
  BY DEF ResolveInto, IsObs
<1>3. r = [subs |-> r.subs, realized |-> r.realized, terms |-> r.terms, index |-> r.index,
           schedule |-> r.schedule, resolved |-> r.resolved]
  BY DEF ResolveInto, IsObs
<1>4. QED
  BY <1>1, <1>2, <1>3 DEF IsObs, StampObs

LEMMA CouponResolved ==
    ASSUME NEW c, IsCoupon(c), Carries(c), NEW when, NEW known
    PROVE  /\ IsCoupon(ResolveCoupon(c, when, known)) /\ Carries(ResolveCoupon(c, when, known))
           /\ StampCoupon(ResolveCoupon(c, when, known)) = StampCoupon(c)
<1> DEFINE o == ResolveInto(c.obs, when, known)
           r == ResolveCoupon(c, when, known)
<1>1. r = [obs |-> o, pay |-> c.pay, accrual |-> c.accrual, resetFx |-> c.resetFx, fxFixing |-> c.fxFixing]
  BY DEF ResolveCoupon, IsCoupon
<1>2. /\ IsObs(o) /\ o.schedule = c.obs.schedule
      /\ c.obs.schedule # << >> => StampObs(o) = StampObs(c.obs)
      /\ c.obs.schedule = << >> => o = c.obs
  BY ObsResolved DEF IsCoupon
<1> HIDE DEF o, r
<1>3. CASE c.obs.schedule = << >>
  <2>1. r = c
    BY <1>1, <1>2, <1>3 DEF IsCoupon
  <2>2. QED
    BY <2>1 DEF r
<1>4. CASE c.obs.schedule # << >>
  <2>1. c.accrual # Unset
    BY <1>4 DEF Carries
  <2>2. EffStart(r) = EffStart(c) /\ EffEnd(r) = EffEnd(c)
    BY <1>1, <2>1 DEF EffStart, EffEnd
  <2>3. IsCoupon(r) /\ Carries(r)
    BY <1>1, <1>2, <2>1 DEF IsCoupon, Carries
  <2>4. StampCoupon(r) = StampCoupon(c)
    BY <1>1, <1>2, <1>4, <2>2 DEF StampCoupon
  <2>5. QED
    BY <2>3, <2>4 DEF r
<1>5. QED
  BY <1>3, <1>4

RowCarries(r) == \A j \in 1..Len(r.coupons) : Carries(r.coupons[j])

LEMMA RowResolved ==
    ASSUME NEW r, IsRow(r), RowCarries(r), NEW when, NEW known
    PROVE  /\ IsRow(ResolveRow(r, when, known)) /\ RowCarries(ResolveRow(r, when, known))
           /\ StampRow(ResolveRow(r, when, known)) = StampRow(r)
<1> DEFINE cs == [j \in 1..Len(r.coupons) |-> ResolveCoupon(r.coupons[j], when, known)]
           d == ResolveRow(r, when, known)
<1>1. d = [kind |-> r.kind, terms |-> r.terms, coupons |-> cs, spotTime |-> r.spotTime, state |-> r.state,
           market |-> r.market, band |-> r.band, penalty |-> r.penalty]
  <2>1. r = [kind |-> r.kind, terms |-> r.terms, coupons |-> r.coupons, spotTime |-> r.spotTime, state |-> r.state,
             market |-> r.market, band |-> r.band, penalty |-> r.penalty]
    BY DEF IsRow
  <2>2. d = [r EXCEPT !.coupons = cs]
    BY DEF ResolveRow, Each
  <2> HIDE DEF d, cs
  <2>3. QED
    BY <2>1, <2>2
<1>2. Len(r.coupons) \in Nat /\ (\A j \in 1..Len(r.coupons) : IsCoupon(r.coupons[j]))
  BY LenOfList DEF IsRow
<1>3. \A j \in 1..Len(r.coupons) : /\ IsCoupon(cs[j]) /\ Carries(cs[j])
                                   /\ StampCoupon(cs[j]) = StampCoupon(r.coupons[j])
  BY <1>2, CouponResolved DEF RowCarries
<1>4. Len(cs) = Len(r.coupons) /\ IsList(cs)
  <2>1. cs = [j \in 1..Len(r.coupons) |-> cs[j]]
    OBVIOUS
  <2> HIDE DEF cs
  <2>2. QED
    BY <1>2, <2>1, FunctionIsList
<1> HIDE DEF cs, d
<1>5. IsRow(d) /\ RowCarries(d)
  BY <1>1, <1>3, <1>4 DEF IsRow, RowCarries
<1>6. Each(StampCoupon, d.coupons) = Each(StampCoupon, r.coupons)
  BY <1>1, <1>3, <1>4 DEF Each
<1>7. StampRow(d) = StampRow(r)
  BY <1>1, <1>6 DEF StampRow
<1>8. QED
  BY <1>5, <1>7 DEF d

\* Rows of which each is like its twin in the list before.
SameRows(s, t) ==
    /\ IsRows(s) /\ AllCarry(s)
    /\ Len(s) = Len(t)
    /\ \A i \in 1..Len(s) : StampRow(s[i]) = StampRow(t[i])

ResolvedRows(s, when, known) == [i \in 1..Len(s) |-> ResolveRow(s[i], when, known)]

LEMMA RowsResolved ==
    ASSUME NEW s, IsRows(s), AllCarry(s), NEW when, NEW known
    PROVE  SameRows(ResolvedRows(s, when, known), s)
<1> DEFINE d == ResolvedRows(s, when, known)
<1>1. Len(s) \in Nat /\ (\A i \in 1..Len(s) : IsRow(s[i]) /\ RowCarries(s[i]))
  BY LenOfList DEF IsRows, AllCarry, RowCarries
<1>2. \A i \in 1..Len(s) : IsRow(d[i]) /\ RowCarries(d[i]) /\ StampRow(d[i]) = StampRow(s[i])
  BY <1>1, RowResolved DEF ResolvedRows
<1>4. Len(d) = Len(s) /\ IsList(d)
  <2>1. d = [i \in 1..Len(s) |-> d[i]]
    BY DEF ResolvedRows
  <2> HIDE DEF d
  <2>2. QED
    BY <1>1, <2>1, FunctionIsList
<1> HIDE DEF d
<1>5. SameRows(d, s)
  BY <1>2, <1>4 DEF SameRows, IsRows, AllCarry, RowCarries
<1>6. QED
  BY <1>5 DEF d

LEMMA SameRowsStamp ==
    ASSUME NEW s, NEW t, SameRows(s, t), IsRows(t), NEW n \in 0..Len(s)
    PROVE  /\ Each(StampRow, s) = Each(StampRow, t)
           /\ IsRows(SubSeq(s, 1, n))
           /\ Each(StampRow, SubSeq(s, 1, n)) = Each(StampRow, SubSeq(t, 1, n))
<1>1. /\ IsList(s) /\ IsList(t) /\ Len(s) = Len(t) /\ Len(s) \in Nat
      /\ \A i \in 1..Len(s) : IsRow(s[i]) /\ StampRow(s[i]) = StampRow(t[i])
  BY LenOfList DEF SameRows, IsRows
<1> DEFINE p == SubSeq(s, 1, n)
           u == SubSeq(t, 1, n)
<1>2. /\ Len(p) = n /\ IsList(p) /\ (\A i \in 1..n : p[i] = s[i])
      /\ Len(u) = n /\ IsList(u) /\ (\A i \in 1..n : u[i] = t[i])
  BY <1>1, PrefixOfList
<1> HIDE DEF p, u
<1>3. \A i \in 1..n : i \in 1..Len(s)
  BY <1>1
<1>4. Each(StampRow, s) = Each(StampRow, t)
  BY <1>1 DEF Each
<1>5. IsRows(p)
  BY <1>1, <1>2, <1>3 DEF IsRows
<1>6. Each(StampRow, p) = Each(StampRow, u)
  BY <1>1, <1>2, <1>3 DEF Each
<1>7. QED
  BY <1>4, <1>5, <1>6 DEF p, u

----------------------------------------------------------------------------
(* The session's problem, whatever was resolved and landed in it.          *)

LEMMA WithConstraints ==
    ASSUME NEW a, NEW b, NEW c, NEW p, p = [curves |-> a, rows |-> b, constraints |-> c], NEW y
    PROVE  [p EXCEPT !.constraints = y] = [curves |-> a, rows |-> b, constraints |-> y]
  OBVIOUS

LEMMA PartsOfOwn ==
    ASSUME NEW p, p = [curves |-> p.curves, rows |-> p.rows, constraints |-> p.constraints], NEW k
    PROVE  OwnPart(p, k) = [curves |-> p.curves, rows |-> p.rows,
                            constraints |-> SubSeq(p.constraints, 1, Len(p.constraints) - k)]
<1>1. OwnPart(p, k) = [p EXCEPT !.constraints = SubSeq(p.constraints, 1, Len(p.constraints) - k)]
  BY DEF OwnPart
<1>2. QED
  BY <1>1, WithConstraints, Zenon

\* The same structure but for the session's own tail.
LEMMA SameProblem ==
    ASSUME NEW p, IsBundle(p), NEW d, d = [curves |-> p.curves, rows |-> d.rows, constraints |-> d.constraints],
           SameRows(d.rows, p.rows), SameRows(d.constraints, p.constraints), NEW k \in 0..Len(p.constraints)
    PROVE  /\ IsBundle(d) /\ IsBundle(OwnPart(d, k))
           /\ StructuralStamp(OwnPart(d, k)) = StructuralStamp(OwnPart(p, k))
<1>1. /\ p = [curves |-> p.curves, rows |-> p.rows, constraints |-> p.constraints]
      /\ IsList(p.curves) /\ IsRows(p.rows) /\ IsRows(p.constraints)
  BY DEF IsBundle
<1>2. IsRows(d.rows) /\ IsRows(d.constraints) /\ Len(d.constraints) = Len(p.constraints) /\ d.curves = p.curves
  BY DEF SameRows
<1>3. Len(p.constraints) \in Nat /\ Len(p.constraints) - k \in 0..Len(d.constraints) /\ 0 \in 0..Len(d.rows)
  BY <1>1, <1>2, LenOfList DEF IsRows
<1> DEFINE n == Len(p.constraints) - k
<1>4. /\ Each(StampRow, d.rows) = Each(StampRow, p.rows)
      /\ IsRows(SubSeq(d.constraints, 1, n))
      /\ Each(StampRow, SubSeq(d.constraints, 1, n)) = Each(StampRow, SubSeq(p.constraints, 1, n))
  BY <1>1, <1>3, SameRowsStamp
<1>5. d = [curves |-> d.curves, rows |-> d.rows, constraints |-> d.constraints]
  BY <1>2
<1>6. /\ OwnPart(d, k) = [curves |-> d.curves, rows |-> d.rows, constraints |-> SubSeq(d.constraints, 1, n)]
      /\ OwnPart(p, k) = [curves |-> p.curves, rows |-> p.rows, constraints |-> SubSeq(p.constraints, 1, n)]
  BY <1>1, <1>2, <1>5, PartsOfOwn
<1> HIDE DEF n
<1>7. IsBundle(d) /\ IsBundle(OwnPart(d, k))
  BY <1>1, <1>2, <1>4, <1>5, <1>6 DEF IsBundle
<1>8. StructuralStamp(OwnPart(d, k)) = StructuralStamp(OwnPart(p, k))
  BY <1>2, <1>4, <1>6 DEF StructuralStamp
<1>9. QED
  BY <1>7, <1>8

LEMMA WithBoth ==
    ASSUME NEW a, NEW b, NEW c, NEW p, p = [curves |-> a, rows |-> b, constraints |-> c], NEW x, NEW y
    PROVE  [p EXCEPT !.rows = x, !.constraints = y] = [curves |-> a, rows |-> x, constraints |-> y]
<1>1. PICK d : d = [p EXCEPT !.rows = x]
  OBVIOUS
<1>2. d = [curves |-> a, rows |-> x, constraints |-> c]
  BY <1>1
<1>3. [d EXCEPT !.constraints = y] = [curves |-> a, rows |-> x, constraints |-> y]
  BY <1>2
<1>4. [p EXCEPT !.rows = x, !.constraints = y] = [d EXCEPT !.constraints = y]
  BY <1>1, Zenon
<1>5. QED
  BY <1>3, <1>4, Zenon

LEMMA ResolvedParts ==
    ASSUME NEW a, NEW b, NEW c, NEW p, p = [curves |-> a, rows |-> b, constraints |-> c], NEW when, NEW known
    PROVE  Resolve(p, when, known)
             = [curves |-> a, rows |-> ResolvedRows(b, when, known), constraints |-> ResolvedRows(c, when, known)]
<1>1. p.rows = b /\ p.constraints = c
  OBVIOUS
<1>2. Resolve(p, when, known) = [p EXCEPT !.rows = ResolvedRows(p.rows, when, known),
                                          !.constraints = ResolvedRows(p.constraints, when, known)]
  BY Zenon DEF Resolve, Each, ResolvedRows
<1>3. Resolve(p, when, known)
        = [curves |-> a, rows |-> ResolvedRows(p.rows, when, known),
           constraints |-> ResolvedRows(p.constraints, when, known)]
  BY <1>2, WithBoth, Zenon
<1>4. QED
  BY <1>1, <1>3, Zenon

LEMMA ResolveKeeps ==
    ASSUME NEW p, IsBundle(p), AllCarry(p.rows), AllCarry(p.constraints),
           NEW k \in 0..Len(p.constraints), NEW when, NEW known, NEW d, d = Resolve(p, when, known)
    PROVE  /\ IsBundle(d) /\ IsBundle(OwnPart(d, k)) /\ AllCarry(d.rows) /\ AllCarry(d.constraints)
           /\ Len(d.constraints) = Len(p.constraints)
           /\ StructuralStamp(OwnPart(d, k)) = StructuralStamp(OwnPart(p, k))
<1>1. /\ p = [curves |-> p.curves, rows |-> p.rows, constraints |-> p.constraints]
      /\ IsRows(p.rows) /\ IsRows(p.constraints)
  BY DEF IsBundle
<1>2. d = [curves |-> p.curves, rows |-> ResolvedRows(p.rows, when, known),
           constraints |-> ResolvedRows(p.constraints, when, known)]
  BY <1>1, ResolvedParts
<1>3. SameRows(d.rows, p.rows) /\ SameRows(d.constraints, p.constraints)
  BY <1>1, <1>2, RowsResolved
<1>4. d = [curves |-> p.curves, rows |-> d.rows, constraints |-> d.constraints]
  BY <1>2
<1>5. AllCarry(d.rows) /\ AllCarry(d.constraints) /\ Len(d.constraints) = Len(p.constraints)
  BY <1>3 DEF SameRows
<1>6. QED
  BY <1>3, <1>4, <1>5, SameProblem

----------------------------------------------------------------------------
(* Neither are quotes.                                                     *)

\* A row and the same with another target and band.
WithQuote(r, mk, bd) ==
    [kind |-> r.kind, terms |-> r.terms, coupons |-> r.coupons, spotTime |-> r.spotTime, state |-> r.state,
     market |-> mk, band |-> bd, penalty |-> r.penalty]

LEMMA QuoteOnRow ==
    ASSUME NEW r, IsRow(r), NEW mk, NEW bd
    PROVE  /\ [r EXCEPT !.market = mk, !.band = bd] = WithQuote(r, mk, bd)
           /\ IsRow(WithQuote(r, mk, bd)) /\ (RowCarries(r) => RowCarries(WithQuote(r, mk, bd)))
           /\ StampRow(WithQuote(r, mk, bd)) = StampRow(r)
<1>1. PICK a, b, c, d, e, f, g, h :
        r = [kind |-> a, terms |-> b, coupons |-> c, spotTime |-> d, state |-> e, market |-> f, band |-> g, penalty |-> h]
  BY Zenon DEF IsRow
<1>2. WithQuote(r, mk, bd)
        = [kind |-> a, terms |-> b, coupons |-> c, spotTime |-> d, state |-> e, market |-> mk, band |-> bd, penalty |-> h]
  BY <1>1 DEF WithQuote
<1>3. [r EXCEPT !.market = mk, !.band = bd] = WithQuote(r, mk, bd)
  <2>1. PICK s : s = [r EXCEPT !.market = mk]
    OBVIOUS
  <2>2. s = [kind |-> a, terms |-> b, coupons |-> c, spotTime |-> d, state |-> e, market |-> mk, band |-> g, penalty |-> h]
    BY <1>1, <2>1
  <2>3. [s EXCEPT !.band = bd] = WithQuote(r, mk, bd)
    BY <1>2, <2>2
  <2>4. [r EXCEPT !.market = mk, !.band = bd] = [s EXCEPT !.band = bd]
    BY <2>1, Zenon
  <2>5. QED
    BY <2>3, <2>4, Zenon
<1>4. IsList(c) /\ \A i \in 1..Len(c) : IsCoupon(c[i])
  BY <1>1 DEF IsRow
<1>5. IsRow(WithQuote(r, mk, bd)) /\ (RowCarries(r) => RowCarries(WithQuote(r, mk, bd)))
  BY <1>1, <1>2, <1>4 DEF IsRow, RowCarries
<1>6. StampRow(WithQuote(r, mk, bd)) = StampRow(r)
  BY <1>1, <1>2 DEF StampRow
<1>7. QED
  BY <1>3, <1>5, <1>6

\* A list of rows and the same requoted here and there.
Requotes(d, s) ==
    /\ d = [i \in 1..Len(s) |-> d[i]]
    /\ \A i \in 1..Len(s) : d[i] = s[i] \/ \E mk, bd : d[i] = WithQuote(s[i], mk, bd)

LEMMA RequotedRows ==
    ASSUME NEW s, IsRows(s), NEW d, Requotes(d, s)
    PROVE  /\ IsRows(d) /\ Len(d) = Len(s) /\ (AllCarry(s) => AllCarry(d))
           /\ \A i \in 1..Len(s) : StampRow(d[i]) = StampRow(s[i])
<1>1. Len(s) \in Nat /\ (\A i \in 1..Len(s) : IsRow(s[i]))
  BY LenOfList DEF IsRows
<1>2. Len(d) = Len(s) /\ IsList(d)
  BY <1>1, FunctionIsList DEF Requotes
<1>3. \A i \in 1..Len(s) : /\ IsRow(d[i]) /\ (RowCarries(s[i]) => RowCarries(d[i]))
                           /\ StampRow(d[i]) = StampRow(s[i])
  <2> SUFFICES ASSUME NEW i \in 1..Len(s)
               PROVE  /\ IsRow(d[i]) /\ (RowCarries(s[i]) => RowCarries(d[i]))
                      /\ StampRow(d[i]) = StampRow(s[i])
    OBVIOUS
  <2>1. CASE d[i] = s[i]
    BY <1>1, <2>1
  <2>2. CASE \E mk, bd : d[i] = WithQuote(s[i], mk, bd)
    <3>1. PICK mk, bd : d[i] = WithQuote(s[i], mk, bd)
      BY <2>2
    <3>2. IsRow(s[i])
      BY <1>1
    <3>3. /\ IsRow(WithQuote(s[i], mk, bd)) /\ (RowCarries(s[i]) => RowCarries(WithQuote(s[i], mk, bd)))
          /\ StampRow(WithQuote(s[i], mk, bd)) = StampRow(s[i])
      BY <3>2, QuoteOnRow
    <3>4. QED
      BY <3>1, <3>3
  <2>3. QED
    BY <2>1, <2>2 DEF Requotes
<1>4. QED
  BY <1>2, <1>3 DEF IsRows, AllCarry, RowCarries

LEMMA ReboundParts ==
    ASSUME IsBundle(problem), NEW p
    PROVE  /\ Rebound(p) = [curves |-> problem.curves, rows |-> Rebound(p).rows, constraints |-> Rebound(p).constraints]
           /\ Requotes(Rebound(p).rows, problem.rows)
           /\ Requotes(Rebound(p).constraints, problem.constraints)
           /\ \A i \in 1..Len(problem.rows) :
                  Rebound(p).rows[i] = WithQuote(problem.rows[i], p.rows[i].market, p.rows[i].band)
           /\ \A i \in 1..Len(problem.constraints) :
                  Rebound(p).constraints[i] =
                      IF i <= Len(p.constraints)
                      THEN WithQuote(problem.constraints[i], p.constraints[i].market, p.constraints[i].band)
                      ELSE problem.constraints[i]
<1>1. PICK a, b, c : problem = [curves |-> a, rows |-> b, constraints |-> c]
  BY Zenon DEF IsBundle
<1>2. IsRows(b) /\ IsRows(c)
  BY <1>1 DEF IsBundle
<1>3. DOMAIN b = 1..Len(b) /\ DOMAIN c = 1..Len(c)
  <2>1. b = [i \in 1..Len(b) |-> b[i]] /\ c = [i \in 1..Len(c) |-> c[i]]
    BY <1>2, Zenon DEF IsRows, IsList
  <2>2. QED
    BY <2>1, Zenon
<1> DEFINE x == [i \in 1..Len(b) |-> Requoted(b[i], p.rows[i])]
           y == [i \in 1..Len(c) |-> IF i <= Len(p.constraints) THEN Requoted(c[i], p.constraints[i]) ELSE c[i]]
<1>4. Rebound(p) = [problem EXCEPT !.rows = x, !.constraints = y]
  <2>1. Rebound(p) = [problem EXCEPT !.rows = [i \in DOMAIN problem.rows |-> Requoted(problem.rows[i], p.rows[i])],
            !.constraints = [i \in DOMAIN problem.constraints |->
                IF i <= Len(p.constraints) THEN Requoted(problem.constraints[i], p.constraints[i]) ELSE problem.constraints[i]]]
    BY Zenon DEF Rebound
  <2>2. problem.rows = b /\ problem.constraints = c
    BY <1>1
  <2>3. QED
    BY <1>3, <2>1, <2>2, Zenon
<1>5. \A i \in 1..Len(b) : x[i] = WithQuote(b[i], p.rows[i].market, p.rows[i].band)
  BY <1>2, QuoteOnRow DEF IsRows, Requoted
<1>6. \A i \in 1..Len(c) :
         y[i] = IF i <= Len(p.constraints) THEN WithQuote(c[i], p.constraints[i].market, p.constraints[i].band) ELSE c[i]
  BY <1>2, QuoteOnRow DEF IsRows, Requoted
<1>7. x = [i \in 1..Len(b) |-> x[i]] /\ y = [i \in 1..Len(c) |-> y[i]]
  OBVIOUS
<1> HIDE DEF x, y
<1>8. Rebound(p) = [curves |-> a, rows |-> x, constraints |-> y]
  BY <1>1, <1>4, WithBoth, Zenon
<1>9. Requotes(x, b) /\ Requotes(y, c)
  BY <1>5, <1>6, <1>7 DEF Requotes
<1>10. /\ problem.curves = a /\ problem.rows = b /\ problem.constraints = c
       /\ Rebound(p).rows = x /\ Rebound(p).constraints = y
  BY <1>1, <1>8
<1>11. QED
  BY <1>5, <1>6, <1>8, <1>9, <1>10, Zenon

LEMMA ReboundKeeps ==
    ASSUME IsBundle(problem), AllCarry(problem.rows), AllCarry(problem.constraints),
           NEW k \in 0..Len(problem.constraints), NEW p, NEW d, d = Rebound(p)
    PROVE  /\ IsBundle(d) /\ IsBundle(OwnPart(d, k)) /\ AllCarry(d.rows) /\ AllCarry(d.constraints)
           /\ Len(d.constraints) = Len(problem.constraints)
           /\ StructuralStamp(OwnPart(d, k)) = StructuralStamp(OwnPart(problem, k))
<1>1. IsRows(problem.rows) /\ IsRows(problem.constraints)
  BY DEF IsBundle
<1>2. /\ d = [curves |-> problem.curves, rows |-> d.rows, constraints |-> d.constraints]
      /\ Requotes(d.rows, problem.rows) /\ Requotes(d.constraints, problem.constraints)
  BY ReboundParts
<1>3. SameRows(d.rows, problem.rows) /\ SameRows(d.constraints, problem.constraints)
  BY <1>1, <1>2, RequotedRows DEF SameRows
<1>4. QED
  BY <1>2, <1>3, SameProblem DEF SameRows

\* The client's own requote.
RequotedAt(p, part, i, mk, bd) == [p EXCEPT ![part][i].market = mk, ![part][i].band = bd]

LEMMA RequoteKeeps ==
    ASSUME NEW p, IsBundle(p), NEW part \in {"rows", "constraints"}, NEW i \in DOMAIN p[part],
           NEW mk, NEW bd, NEW d, d = RequotedAt(p, part, i, mk, bd)
    PROVE  /\ d.curves = p.curves /\ Requotes(d.rows, p.rows) /\ Requotes(d.constraints, p.constraints)
           /\ IsBundle(d) /\ StructuralStamp(d) = StructuralStamp(p)
<1>1. PICK a, b, c : p = [curves |-> a, rows |-> b, constraints |-> c]
  BY Zenon DEF IsBundle
<1>2. IsRows(b) /\ IsRows(c) /\ IsList(a)
  BY <1>1 DEF IsBundle
<1>3. /\ b = [j \in 1..Len(b) |-> b[j]] /\ c = [j \in 1..Len(c) |-> c[j]]
      /\ Len(b) \in Nat /\ Len(c) \in Nat
  BY <1>2, Zenon DEF IsRows, IsList
<1>4. PICK x, y : /\ d = [curves |-> a, rows |-> x, constraints |-> y]
                  /\ Requotes(x, b) /\ Requotes(y, c)
  <2>1. ASSUME NEW s, s = [j \in 1..Len(s) |-> s[j]], IsRows(s), i \in DOMAIN s
        PROVE  Requotes([s EXCEPT ![i] = [s[i] EXCEPT !.market = mk, !.band = bd]], s)
    <3> DEFINE r == [s[i] EXCEPT !.market = mk, !.band = bd]
    <3>1. i \in 1..Len(s)
      BY <2>1, Zenon
    <3>2. r = WithQuote(s[i], mk, bd)
      BY <2>1, <3>1, QuoteOnRow DEF IsRows
    <3> HIDE DEF r
    <3>3. PICK u : u = [s EXCEPT ![i] = r]
      OBVIOUS
    <3>4. u = [j \in 1..Len(s) |-> IF j = i THEN r ELSE s[j]]
      BY <2>1, <3>1, <3>3
    <3>5. Requotes(u, s)
      BY <2>1, <3>1, <3>2, <3>4 DEF Requotes
    <3>6. QED
      BY <3>3, <3>5 DEF r
  <2>0. Requotes(b, b) /\ Requotes(c, c)
    BY <1>3, Zenon DEF Requotes
  <2>2. CASE part = "rows"
    <3>1. i \in DOMAIN b
      BY <1>1, <2>2
    <3>2. d = [curves |-> a, rows |-> [b EXCEPT ![i] = [b[i] EXCEPT !.market = mk, !.band = bd]], constraints |-> c]
      BY <1>1, <1>3, <2>2, <3>1 DEF RequotedAt
    <3>3. Requotes([b EXCEPT ![i] = [b[i] EXCEPT !.market = mk, !.band = bd]], b)
      BY <1>2, <1>3, <2>1, <3>1
    <3>4. QED
      BY <2>0, <3>2, <3>3, Zenon
  <2>3. CASE part = "constraints"
    <3>1. i \in DOMAIN c
      BY <1>1, <2>3
    <3>2. d = [curves |-> a, rows |-> b, constraints |-> [c EXCEPT ![i] = [c[i] EXCEPT !.market = mk, !.band = bd]]]
      BY <1>1, <1>3, <2>3, <3>1 DEF RequotedAt
    <3>3. Requotes([c EXCEPT ![i] = [c[i] EXCEPT !.market = mk, !.band = bd]], c)
      BY <1>2, <1>3, <2>1, <3>1
    <3>4. QED
      BY <2>0, <3>2, <3>3, Zenon
  <2>4. QED
    BY <2>2, <2>3
<1>5. /\ IsRows(x) /\ Len(x) = Len(b) /\ (\A j \in 1..Len(b) : StampRow(x[j]) = StampRow(b[j]))
      /\ IsRows(y) /\ Len(y) = Len(c) /\ (\A j \in 1..Len(c) : StampRow(y[j]) = StampRow(c[j]))
  BY <1>2, <1>4, RequotedRows
<1>6. IsBundle(d)
  <2>1. d.curves = a /\ d.rows = x /\ d.constraints = y
    BY <1>4
  <2>2. d = [curves |-> d.curves, rows |-> d.rows, constraints |-> d.constraints]
    BY <1>4, <2>1
  <2>3. QED
    BY <1>2, <1>5, <2>1, <2>2, Zenon DEF IsBundle
<1>7. Each(StampRow, x) = Each(StampRow, b) /\ Each(StampRow, y) = Each(StampRow, c)
  BY <1>5 DEF Each
<1>8. StructuralStamp(d) = StructuralStamp(p)
  BY <1>1, <1>4, <1>7 DEF StructuralStamp
<1>9. QED
  BY <1>1, <1>4, <1>6, <1>8

----------------------------------------------------------------------------
(* Over the wire and back.                                                 *)

\* What is left out of a document is read as its default.
LEMMA ReadBack ==
    ASSUME NEW r, NEW gone, NEW default, NEW d, d = Into(Without(r, gone), default)
    PROVE  /\ DOMAIN d = DOMAIN default
           /\ d = [k \in DOMAIN default |-> d[k]]
           /\ \A k \in DOMAIN default : d[k] = IF k \in DOMAIN r \ gone THEN r[k] ELSE default[k]
<1>1. Without(r, gone) = [k \in DOMAIN r \ gone |-> r[k]]
  BY DEF Without, Restrict
<1>2. d = [k \in DOMAIN default |-> IF k \in DOMAIN r \ gone THEN r[k] ELSE default[k]]
  BY <1>1 DEF Into, Has
<1>3. QED
  BY <1>2

SentObs(o) ==
    [subs |-> o.subs, realized |-> o.realized, terms |-> o.terms,
     index |-> IF o.schedule = << >> THEN "" ELSE o.index, schedule |-> o.schedule, resolved |-> FALSE]

LEMMA ObsSent ==
    ASSUME NEW o, IsObs(o)
    PROVE  ObsFrom(ObsTo(o)) = SentObs(o) /\ IsObs(SentObs(o))
<1>1. o = [subs |-> o.subs, realized |-> o.realized, terms |-> o.terms, index |-> o.index,
           schedule |-> o.schedule, resolved |-> o.resolved]
  BY DEF IsObs
<1>2. DOMAIN o = {"subs", "realized", "terms", "index", "schedule", "resolved"}
  BY <1>1, Zenon
<1>3. DOMAIN NewObs = {"subs", "realized", "terms", "index", "schedule", "resolved"}
  BY DEF NewObs
<1> DEFINE gone == {"resolved"} \cup OmitIf(o.schedule = << >>, {"index", "schedule"})
           d == ObsFrom(ObsTo(o))
<1>4. /\ d = [k \in DOMAIN NewObs |-> d[k]]
      /\ \A k \in DOMAIN NewObs : d[k] = IF k \in DOMAIN o \ gone THEN o[k] ELSE NewObs[k]
  BY ReadBack DEF ObsFrom, ObsTo
<1> HIDE DEF d
<1>5. /\ d.subs = o.subs /\ d.realized = o.realized /\ d.terms = o.terms
      /\ d.index = IF o.schedule = << >> THEN "" ELSE o.index
      /\ d.schedule = o.schedule /\ d.resolved = FALSE
  BY <1>2, <1>3, <1>4 DEF OmitIf, NewObs
<1>6. d = SentObs(o)
  BY <1>3, <1>4, <1>5 DEF SentObs
<1>7. IsObs(SentObs(o))
  BY <1>1 DEF SentObs, IsObs
<1>8. QED
  BY <1>6, <1>7 DEF d

SentCoupon(c) ==
    [obs |-> SentObs(c.obs), pay |-> c.pay, accrual |-> IF SameAsWindow(c) THEN Unset ELSE c.accrual,
     resetFx |-> IF c.resetFx < 0 THEN -1 ELSE c.resetFx, fxFixing |-> c.fxFixing]

LEMMA CouponSent ==
    ASSUME NEW c, IsCoupon(c)
    PROVE  CouponFrom(CouponTo(c)) = SentCoupon(c) /\ IsCoupon(SentCoupon(c))
<1> DEFINE names == {"obs", "pay", "accrual", "resetFx", "fxFixing"}
           gone == OmitIf(c.accrual = Unset \/ SameAsWindow(c), {"accrual"})
                     \cup OmitIf(c.resetFx < 0, {"resetFx"}) \cup OmitIf(c.fxFixing = Unset, {"fxFixing"})
           w == Without(c, gone)
           t == CouponTo(c)
           b == Into(t, NewCoupon)
           d == CouponFrom(t)
<1>1. /\ c = [obs |-> c.obs, pay |-> c.pay, accrual |-> c.accrual, resetFx |-> c.resetFx, fxFixing |-> c.fxFixing]
      /\ IsObs(c.obs)
  BY DEF IsCoupon
<1>2. DOMAIN c = names /\ DOMAIN NewCoupon = names
  <2>1. DOMAIN c = names
    BY <1>1, Zenon
  <2>2. DOMAIN NewCoupon = names
    BY DEF NewCoupon
  <2>3. QED
    BY <2>1, <2>2
<1>3. w = [k \in names \ gone |-> c[k]] /\ "obs" \in names \ gone
  BY <1>2 DEF Without, Restrict, OmitIf
<1>4. t = [w EXCEPT !.obs = ObsTo(w.obs)]
  BY DEF CouponTo
<1> HIDE DEF w, t
<1>5. t = [k \in names \ gone |-> IF k = "obs" THEN ObsTo(c.obs) ELSE c[k]]
  BY <1>3, <1>4
<1>6. b = [k \in names |-> IF k \in names \ gone THEN t[k] ELSE NewCoupon[k]]
  BY <1>2, <1>5 DEF Into, Has
<1>7. d = [b EXCEPT !.obs = ObsFrom(ObsTo(c.obs))]
  BY <1>3, <1>5 DEF CouponFrom, Has
<1> HIDE DEF d, b
<1>8. d = [k \in names |-> IF k = "obs" THEN SentObs(c.obs) ELSE IF k \in names \ gone THEN c[k] ELSE NewCoupon[k]]
  <2>1. ObsFrom(ObsTo(c.obs)) = SentObs(c.obs)
    BY <1>1, ObsSent
  <2>2. b = [k \in names |-> IF k \in names \ gone THEN IF k = "obs" THEN ObsTo(c.obs) ELSE c[k] ELSE NewCoupon[k]]
    BY <1>5, <1>6
  <2> HIDE DEF gone
  <2>3. QED
    BY <1>7, <2>1, <2>2
<1>9. /\ d.obs = SentObs(c.obs) /\ d.pay = c.pay
      /\ d.accrual = IF SameAsWindow(c) THEN Unset ELSE c.accrual
      /\ d.resetFx = IF c.resetFx < 0 THEN -1 ELSE c.resetFx
      /\ d.fxFixing = c.fxFixing
  BY <1>8 DEF OmitIf, NewCoupon
<1>10. d = SentCoupon(c)
  BY <1>8, <1>9 DEF SentCoupon
<1>11. IsCoupon(SentCoupon(c))
  BY <1>1, ObsSent DEF SentCoupon, IsCoupon
<1>12. QED
  BY <1>10, <1>11 DEF d, t

SentCoupons(s) == [j \in 1..Len(s) |-> SentCoupon(s[j])]

SentRow(r) ==
    [kind |-> r.kind, terms |-> r.terms, coupons |-> SentCoupons(r.coupons), spotTime |-> r.spotTime,
     state |-> r.state, market |-> r.market, band |-> r.band, penalty |-> r.penalty]

LEMMA RowSent ==
    ASSUME NEW r, IsRow(r)
    PROVE  RowFrom(RowTo(r)) = SentRow(r) /\ IsRow(SentRow(r))
<1> DEFINE names == {"kind", "terms", "coupons", "spotTime", "state", "market", "band", "penalty"}
           gone == OmitIf(r.spotTime = 0, {"spotTime"}) \cup OmitIf(r.state = << >>, {"state"})
                     \cup OmitIf(r.penalty = NoMap, {"penalty"})
           w == Without(r, gone)
           t == RowTo(r)
           b == Into(t, NewRow)
           d == RowFrom(t)
           sent == SentCoupons(r.coupons)
<1>1. /\ r = [kind |-> r.kind, terms |-> r.terms, coupons |-> r.coupons, spotTime |-> r.spotTime, state |-> r.state,
              market |-> r.market, band |-> r.band, penalty |-> r.penalty]
      /\ IsList(r.coupons) /\ Len(r.coupons) \in Nat /\ \A j \in 1..Len(r.coupons) : IsCoupon(r.coupons[j])
  BY LenOfList DEF IsRow
<1>2. DOMAIN r = names /\ DOMAIN NewRow = names
  <2>1. DOMAIN r = names
    BY <1>1, Zenon
  <2>2. DOMAIN NewRow = names
    BY DEF NewRow
  <2>3. QED
    BY <2>1, <2>2
<1>3. w = [k \in names \ gone |-> r[k]] /\ "coupons" \in names \ gone
  BY <1>2 DEF Without, Restrict, OmitIf
<1> DEFINE doc == [j \in 1..Len(r.coupons) |-> CouponTo(r.coupons[j])]
<1>4. t = [w EXCEPT !.coupons = Each(CouponTo, w.coupons)]
  BY DEF RowTo
<1> HIDE DEF w, t
<1>5. t = [k \in names \ gone |-> IF k = "coupons" THEN doc ELSE r[k]]
  BY <1>3, <1>4 DEF Each
<1>6. b = [k \in names |-> IF k \in names \ gone THEN t[k] ELSE NewRow[k]]
  BY <1>2, <1>5 DEF Into, Has
<1>7. Len(doc) = Len(r.coupons)
  <2>1. doc = [j \in 1..Len(r.coupons) |-> doc[j]]
    OBVIOUS
  <2> HIDE DEF doc
  <2>2. QED
    BY <1>1, <2>1, FunctionIsList
<1>8. d = [b EXCEPT !.coupons = sent]
  <2>1. t.coupons = doc /\ Has(t, "coupons")
    BY <1>3, <1>5 DEF Has
  <2>2. [j \in 1..Len(doc) |-> CouponFrom(doc[j])] = sent
    BY <1>1, <1>7, CouponSent DEF SentCoupons
  <2>3. EachIn(t, "coupons", CouponFrom) = [j \in 1..Len(doc) |-> CouponFrom(doc[j])]
    <3> HIDE DEF doc
    <3>1. QED
      BY <2>1 DEF EachIn, Each
  <2>4. d = [b EXCEPT !.coupons = EachIn(t, "coupons", CouponFrom)]
    BY DEF RowFrom
  <2> HIDE DEF d, b, sent, doc
  <2>5. QED
    BY <2>2, <2>3, <2>4
<1> HIDE DEF d, b, sent
<1>9. d = [k \in names |-> IF k = "coupons" THEN sent ELSE IF k \in names \ gone THEN r[k] ELSE NewRow[k]]
  <2>1. b = [k \in names |-> IF k \in names \ gone THEN IF k = "coupons" THEN doc ELSE r[k] ELSE NewRow[k]]
    BY <1>5, <1>6
  <2> HIDE DEF gone
  <2>2. QED
    BY <1>8, <2>1
<1>10. /\ d.kind = r.kind /\ d.terms = r.terms /\ d.coupons = sent /\ d.spotTime = r.spotTime
       /\ d.state = r.state /\ d.market = r.market /\ d.band = r.band /\ d.penalty = r.penalty
  BY <1>9 DEF OmitIf, NewRow
<1>11. d = SentRow(r)
  BY <1>9, <1>10 DEF SentRow, sent
<1>12. IsRow(SentRow(r))
  <2>1. \A j \in 1..Len(r.coupons) : IsCoupon(sent[j])
    BY <1>1, CouponSent DEF sent, SentCoupons
  <2>2. Len(sent) = Len(r.coupons) /\ IsList(sent)
    <3>1. sent = [j \in 1..Len(r.coupons) |-> sent[j]]
      BY DEF sent, SentCoupons
    <3>2. QED
      BY <1>1, <3>1, FunctionIsList
  <2>3. SentRow(r) = [kind |-> r.kind, terms |-> r.terms, coupons |-> sent, spotTime |-> r.spotTime,
                      state |-> r.state, market |-> r.market, band |-> r.band, penalty |-> r.penalty]
    BY DEF SentRow, sent
  <2>4. QED
    BY <2>1, <2>2, <2>3 DEF IsRow
<1>13. QED
  BY <1>11, <1>12 DEF d, t

SentRows(s) == [i \in 1..Len(s) |-> SentRow(s[i])]

LEMMA RowsSent ==
    ASSUME NEW s, IsRows(s)
    PROVE  /\ Each(RowFrom, Each(RowTo, s)) = SentRows(s)
           /\ IsRows(SentRows(s)) /\ Len(SentRows(s)) = Len(s)
<1>1. Len(s) \in Nat /\ (\A i \in 1..Len(s) : IsRow(s[i]))
  BY LenOfList DEF IsRows
<1> DEFINE doc == [i \in 1..Len(s) |-> RowTo(s[i])]
           sent == SentRows(s)
<1>2. Len(doc) = Len(s)
  <2>1. doc = [i \in 1..Len(s) |-> doc[i]]
    OBVIOUS
  <2> HIDE DEF doc
  <2>2. QED
    BY <1>1, <2>1, FunctionIsList
<1>3. [i \in 1..Len(doc) |-> RowFrom(doc[i])] = sent
  BY <1>1, <1>2, RowSent DEF SentRows
<1>4. Each(RowTo, s) = doc
  BY DEF Each
<1>5. Len(sent) = Len(s) /\ IsList(sent)
  <2>1. sent = [i \in 1..Len(s) |-> sent[i]]
    BY DEF SentRows
  <2> HIDE DEF sent
  <2>2. QED
    BY <1>1, <2>1, FunctionIsList
<1>6. \A i \in 1..Len(s) : IsRow(sent[i])
  BY <1>1, RowSent DEF SentRows
<1>7. Each(RowFrom, doc) = [i \in 1..Len(doc) |-> RowFrom(doc[i])]
  BY DEF Each
<1> HIDE DEF doc, sent
<1>8. IsRows(sent)
  BY <1>5, <1>6 DEF IsRows
<1>9. QED
  BY <1>3, <1>4, <1>5, <1>7, <1>8 DEF sent

SentCurves(s) == [i \in 1..Len(s) |-> CurveFrom(CurveTo(s[i]))]

LEMMA CurvesSent ==
    ASSUME NEW s, IsList(s)
    PROVE  Each(CurveFrom, Each(CurveTo, s)) = SentCurves(s) /\ IsList(SentCurves(s)) /\ Len(SentCurves(s)) = Len(s)
<1>1. Len(s) \in Nat
  BY LenOfList
<1> DEFINE doc == [i \in 1..Len(s) |-> CurveTo(s[i])]
           sent == SentCurves(s)
<1>2. Len(doc) = Len(s)
  <2>1. doc = [i \in 1..Len(s) |-> doc[i]]
    OBVIOUS
  <2> HIDE DEF doc
  <2>2. QED
    BY <1>1, <2>1, FunctionIsList
<1>3. [i \in 1..Len(doc) |-> CurveFrom(doc[i])] = sent
  BY <1>1, <1>2 DEF SentCurves
<1>4. Each(CurveTo, s) = doc
  BY DEF Each
<1>5. Len(sent) = Len(s) /\ IsList(sent)
  <2>1. sent = [i \in 1..Len(s) |-> sent[i]]
    BY DEF SentCurves
  <2> HIDE DEF sent
  <2>2. QED
    BY <1>1, <2>1, FunctionIsList
<1>6. Each(CurveFrom, doc) = [i \in 1..Len(doc) |-> CurveFrom(doc[i])]
  BY DEF Each
<1> HIDE DEF doc, sent
<1>7. QED
  BY <1>3, <1>4, <1>5, <1>6 DEF sent

Sent(p) == [curves |-> SentCurves(p.curves), rows |-> SentRows(p.rows), constraints |-> SentRows(p.constraints)]

\* A bundle that went over the wire is a bundle, row for row and coupon for coupon.
LEMMA BundleSent ==
    ASSUME NEW p, IsBundle(p)
    PROVE  BundleFrom(BundleTo(p)) = Sent(p) /\ IsBundle(Sent(p))
<1>1. PICK a, b, c : p = [curves |-> a, rows |-> b, constraints |-> c]
  BY Zenon DEF IsBundle
<1>2. IsList(a) /\ IsRows(b) /\ IsRows(c) /\ IsList(c)
  BY <1>1 DEF IsBundle, IsRows
<1> DEFINE t == BundleTo(p)
           gone == IF c = << >> THEN {"constraints"} ELSE {}
<1>3. DOMAIN p = {"curves", "rows", "constraints"}
  BY <1>1
<1>4. t = [k \in {"curves", "rows", "constraints"} \ gone |->
              IF k = "curves" THEN Each(CurveTo, p[k]) ELSE Each(RowTo, p[k])]
  BY <1>1, <1>3 DEF BundleTo, OmitIf
<1> HIDE DEF t
<1>5. /\ DOMAIN t = {"curves", "rows", "constraints"} \ gone
      /\ t["curves"] = Each(CurveTo, a) /\ t["rows"] = Each(RowTo, b)
      /\ c # << >> => t["constraints"] = Each(RowTo, c)
  BY <1>1, <1>4
<1>6. BundleFrom(t) = [curves |-> EachIn(t, "curves", CurveFrom), rows |-> EachIn(t, "rows", RowFrom),
                       constraints |-> EachIn(t, "constraints", RowFrom)]
  BY DEF BundleFrom
<1>7. EachIn(t, "curves", CurveFrom) = SentCurves(a)
  <2>1. EachIn(t, "curves", CurveFrom) = Each(CurveFrom, t["curves"])
    BY <1>5 DEF EachIn, Has
  <2>2. QED
    BY <1>2, <1>5, <2>1, CurvesSent
<1>8. EachIn(t, "rows", RowFrom) = SentRows(b)
  <2>1. EachIn(t, "rows", RowFrom) = Each(RowFrom, t["rows"])
    BY <1>5 DEF EachIn, Has
  <2>2. QED
    BY <1>2, <1>5, <2>1, RowsSent
<1>9. EachIn(t, "constraints", RowFrom) = SentRows(c)
  <2>1. CASE c = << >>
    <3>1. EachIn(t, "constraints", RowFrom) = << >>
      BY <1>5, <2>1 DEF EachIn, Has
    <3>2. Len(c) = 0 /\ SentRows(c) = [i \in 1..Len(c) |-> SentRow(c[i])]
      BY <2>1 DEF SentRows
    <3>3. SentRows(c) = << >>
      BY <3>2
    <3>4. QED
      BY <3>1, <3>3
  <2>2. CASE c # << >>
    <3>1. EachIn(t, "constraints", RowFrom) = Each(RowFrom, t["constraints"])
      BY <1>5, <2>2 DEF EachIn, Has
    <3>2. QED
      BY <1>2, <1>5, <2>2, <3>1, RowsSent
  <2>3. QED
    BY <2>1, <2>2
<1>10. Sent(p) = [curves |-> SentCurves(a), rows |-> SentRows(b), constraints |-> SentRows(c)]
  BY <1>1 DEF Sent
<1>11. IsList(SentCurves(a)) /\ IsRows(SentRows(b)) /\ IsRows(SentRows(c))
  BY <1>2, CurvesSent, RowsSent
<1>12. IsBundle(Sent(p))
  BY <1>10, <1>11 DEF IsBundle
<1>13. QED
  BY <1>6, <1>7, <1>8, <1>9, <1>10, <1>12 DEF t

----------------------------------------------------------------------------
(* The stamp of an open session.                                           *)

LEMMA OpenedParts ==
    ASSUME NEW p, IsBundle(p), NEW when, NEW known
    PROVE  Opened(p, when, known)
             = [curves |-> p.curves, rows |-> ResolvedRows(p.rows, when, known),
                constraints |-> ResolvedRows(p.constraints, when, known) \o SmoothingRows(p)]
<1>1. PICK a, b, c : p = [curves |-> a, rows |-> b, constraints |-> c]
  BY Zenon DEF IsBundle
<1> DEFINE x == ResolvedRows(b, when, known)
           y == ResolvedRows(c, when, known)
           z == SmoothingRows(p)
<1>2. Resolve(p, when, known) = [curves |-> a, rows |-> x, constraints |-> y]
  BY <1>1, ResolvedParts
<1>3. PICK d : d = Resolve(p, when, known)
  OBVIOUS
<1>4. Opened(p, when, known) = [d EXCEPT !.constraints = d.constraints \o z]
  BY <1>3, Zenon DEF Opened
<1> HIDE DEF x, y, z
<1>5. d = [curves |-> a, rows |-> x, constraints |-> y]
  BY <1>2, <1>3
<1>6. [d EXCEPT !.constraints = d.constraints \o z] = [curves |-> a, rows |-> x, constraints |-> y \o z]
  <2>1. d.constraints \o z = y \o z
    BY <1>5
  <2> DEFINE w == d.constraints \o z
  <2> HIDE DEF w
  <2>2. [d EXCEPT !.constraints = w] = [curves |-> a, rows |-> x, constraints |-> w]
    BY <1>5
  <2>3. QED
    BY <2>1, <2>2 DEF w
<1>7. QED
  BY <1>1, <1>4, <1>6 DEF x, y, z

LEMMA NoCouponsInSmoothing ==
    ASSUME NEW p \in Sources, NEW z, z = SmoothingRows(p)
    PROVE  IsRows(z) /\ AllCarry(z) /\ \A i \in 1..Len(z) : z[i].coupons = << >>
<1>1. IsRows(z) /\ \A r \in ToSet(z) : r.coupons = << >>
  BY RebindAssumption
<1>2. z = [i \in 1..Len(z) |-> z[i]]
  BY <1>1, Zenon DEF IsRows, IsList
<1>3. \A i \in 1..Len(z) : z[i] \in ToSet(z)
  BY <1>2 DEF ToSet
<1>4. \A i \in 1..Len(z) : z[i].coupons = << >>
  BY <1>1, <1>3, Zenon
<1>5. AllCarry(z)
  BY <1>4 DEF AllCarry
<1>6. QED
  BY <1>1, <1>4, <1>5

LEMMA OpenedKeeps ==
    ASSUME NEW p \in Sources, NEW when, NEW known, NEW d, d = Opened(p, when, known), NEW k, k = Len(SmoothingRows(p))
    PROVE  /\ IsBundle(d) /\ IsBundle(OwnPart(d, k)) /\ AllCarry(d.rows) /\ AllCarry(d.constraints)
           /\ k \in 0..Len(d.constraints) /\ k \in Nat
           /\ StructuralStamp(OwnPart(d, k)) = StructuralStamp(p)
<1> DEFINE z == SmoothingRows(p)
<1>1. /\ IsBundle(p) /\ AllCarry(p.rows) /\ AllCarry(p.constraints) /\ IsRows(z) /\ AllCarry(z)
  BY RebindAssumption, NoCouponsInSmoothing
<1>2. PICK a, b, c : p = [curves |-> a, rows |-> b, constraints |-> c]
  BY <1>1, Zenon DEF IsBundle
<1>3. IsList(a) /\ IsRows(b) /\ IsRows(c) /\ AllCarry(b) /\ AllCarry(c)
  BY <1>1, <1>2 DEF IsBundle
<1> DEFINE x == ResolvedRows(b, when, known)
           y == ResolvedRows(c, when, known)
<1>4. SameRows(x, b) /\ SameRows(y, c)
  BY <1>3, RowsResolved
<1>5. d = [curves |-> a, rows |-> x, constraints |-> y \o z]
  <2>1. d = [curves |-> p.curves, rows |-> ResolvedRows(p.rows, when, known),
             constraints |-> ResolvedRows(p.constraints, when, known) \o SmoothingRows(p)]
    BY <1>1, OpenedParts
  <2>2. p.curves = a /\ p.rows = b /\ p.constraints = c
    BY <1>2
  <2>3. QED
    BY <2>1, <2>2
<1> HIDE DEF x, y, z
<1>6. /\ IsRows(y) /\ IsList(y) /\ IsList(z) /\ Len(y) \in Nat /\ Len(z) \in Nat /\ k = Len(z)
      /\ AllCarry(x) /\ AllCarry(y) /\ IsRows(x)
  BY <1>1, <1>4, LenOfList DEF SameRows, IsRows, z
<1> DEFINE w == y \o z
<1>7. /\ Len(w) = Len(y) + Len(z) /\ IsList(w)
      /\ \A i \in 1..Len(y) : w[i] = y[i]
      /\ \A i \in 1..Len(z) : w[Len(y) + i] = z[i]
  BY <1>6, JoinedLists
<1> HIDE DEF w
<1>8. \A i \in 1..Len(w) : (i \in 1..Len(y)) \/ (i - Len(y) \in 1..Len(z) /\ w[i] = z[i - Len(y)])
  BY <1>6, <1>7
<1>9. IsRows(w) /\ AllCarry(w)
  <2> SUFFICES ASSUME NEW i \in 1..Len(w)
               PROVE  IsRow(w[i]) /\ RowCarries(w[i])
    BY <1>7 DEF IsRows, AllCarry, RowCarries
  <2>1. CASE i \in 1..Len(y)
    BY <1>6, <1>7, <2>1 DEF IsRows, AllCarry, RowCarries
  <2>2. CASE i - Len(y) \in 1..Len(z) /\ w[i] = z[i - Len(y)]
    BY <1>1, <2>2 DEF IsRows, AllCarry, RowCarries
  <2>3. QED
    BY <1>8, <2>1, <2>2
<1>10. SubSeq(w, 1, Len(w) - k) = y
  <2>1. Len(w) - k = Len(y) /\ Len(y) \in 0..Len(w)
    BY <1>6, <1>7
  <2> DEFINE u == SubSeq(w, 1, Len(y))
  <2>2. Len(u) = Len(y) /\ IsList(u) /\ \A i \in 1..Len(y) : u[i] = w[i]
    BY <1>7, <2>1, PrefixOfList
  <2> HIDE DEF u
  <2>3. u = [i \in 1..Len(u) |-> u[i]] /\ y = [i \in 1..Len(y) |-> y[i]]
    BY <1>6, <2>2, Zenon DEF IsList
  <2>4. u = y
    BY <1>7, <2>2, <2>3
  <2>5. QED
    BY <2>1, <2>4 DEF u
<1>11. IsBundle(d) /\ AllCarry(d.rows) /\ AllCarry(d.constraints) /\ k \in 0..Len(d.constraints)
  <2>1. d.curves = a /\ d.rows = x /\ d.constraints = w
    BY <1>5 DEF w
  <2>2. d = [curves |-> d.curves, rows |-> d.rows, constraints |-> d.constraints]
    BY <1>5, <2>1 DEF w
  <2>3. IsBundle(d)
    BY <1>3, <1>6, <1>9, <2>1, <2>2, Zenon DEF IsBundle
  <2>4. QED
    BY <1>6, <1>7, <1>9, <2>1, <2>3
<1>12. OwnPart(d, k) = [curves |-> a, rows |-> x, constraints |-> y]
  <2>1. d = [curves |-> d.curves, rows |-> d.rows, constraints |-> d.constraints]
    BY <1>5
  <2>2. OwnPart(d, k) = [curves |-> d.curves, rows |-> d.rows,
                         constraints |-> SubSeq(d.constraints, 1, Len(d.constraints) - k)]
    BY <2>1, PartsOfOwn
  <2>3. QED
    BY <1>5, <1>10, <2>2 DEF w
<1>13. IsBundle(OwnPart(d, k))
  BY <1>3, <1>6, <1>12 DEF IsBundle
<1>14. StructuralStamp(OwnPart(d, k)) = StructuralStamp(p)
  <2>1. 0 \in 0..Len(x) /\ 0 \in 0..Len(y)
    BY <1>6, LenOfList DEF IsRows
  <2>2. Each(StampRow, x) = Each(StampRow, b) /\ Each(StampRow, y) = Each(StampRow, c)
    BY <1>3, <1>4, <2>1, SameRowsStamp
  <2>3. QED
    BY <1>2, <1>12, <2>2 DEF StructuralStamp
<1>15. QED
  BY <1>6, <1>11, <1>13, <1>14

\* The session's copy is a bundle with its own rows at the end, and what is left without
\* those stamps as the bundle it was opened with; the client's is a bundle, and a stamp it
\* carries is its own.
RebindInv ==
    /\ opened \in Sources
    /\ stamp = StructuralStamp(opened)
    /\ nSmoothing = Len(SmoothingRows(opened))
    /\ IsBundle(problem) /\ AllCarry(problem.rows) /\ AllCarry(problem.constraints)
    /\ nSmoothing \in Nat /\ nSmoothing <= Len(problem.constraints)
    /\ IsBundle(OwnPart(problem, nSmoothing))
    /\ StructuralStamp(OwnPart(problem, nSmoothing)) = stamp
    /\ IsBundle(bundle)
    /\ carried # Unset => carried = StructuralStamp(bundle)

LEMMA RebindInit == Init => RebindInv
<1> SUFFICES ASSUME Init PROVE RebindInv
  OBVIOUS
<1>1. /\ opened \in Sources /\ problem = Opened(opened, date, fixed) /\ nSmoothing = Len(SmoothingRows(opened))
      /\ stamp = StructuralStamp(opened) /\ bundle = opened /\ carried = Unset
  BY DEF Init
<1>2. IsBundle(opened)
  BY <1>1, RebindAssumption
<1>3. /\ IsBundle(problem) /\ IsBundle(OwnPart(problem, nSmoothing))
      /\ AllCarry(problem.rows) /\ AllCarry(problem.constraints)
      /\ nSmoothing \in 0..Len(problem.constraints) /\ nSmoothing \in Nat
      /\ StructuralStamp(OwnPart(problem, nSmoothing)) = StructuralStamp(opened)
  BY <1>1, OpenedKeeps
<1>4. nSmoothing <= Len(problem.constraints)
  BY <1>3
<1>5. QED
  BY <1>1, <1>2, <1>3, <1>4 DEF RebindInv

\* What keeps the session's side.
LEMMA SessionKeeps ==
    ASSUME RebindInv, UNCHANGED <<opened, nSmoothing, stamp>>, UNCHANGED client,
           \/ problem' = problem
           \/ \E when, known : problem' = Resolve(problem, when, known)
           \/ \E p : problem' = Rebound(p)
    PROVE  RebindInv'
<1> USE DEF client
<1>1. /\ IsBundle(problem) /\ AllCarry(problem.rows) /\ AllCarry(problem.constraints)
      /\ nSmoothing \in 0..Len(problem.constraints) /\ nSmoothing \in Nat
      /\ IsBundle(OwnPart(problem, nSmoothing))
  <2>1. Len(problem.constraints) \in Nat
    BY LenOfList DEF RebindInv, IsBundle, IsRows
  <2>2. QED
    BY <2>1 DEF RebindInv
<1>2. /\ IsBundle(problem') /\ IsBundle(OwnPart(problem', nSmoothing))
      /\ AllCarry(problem'.rows) /\ AllCarry(problem'.constraints)
      /\ Len(problem'.constraints) = Len(problem.constraints)
      /\ StructuralStamp(OwnPart(problem', nSmoothing)) = StructuralStamp(OwnPart(problem, nSmoothing))
  <2>1. CASE problem' = problem
    BY <1>1, <2>1
  <2>2. CASE \E when, known : problem' = Resolve(problem, when, known)
    BY <1>1, <2>2, ResolveKeeps
  <2>3. CASE \E p : problem' = Rebound(p)
    BY <1>1, <2>3, ReboundKeeps
  <2>4. QED
    BY <2>1, <2>2, <2>3
<1>3. QED
  BY <1>2 DEF RebindInv

LEMMA RebindStep == RebindInv /\ [Next]_vars => RebindInv'
<1> SUFFICES ASSUME RebindInv, [Next]_vars PROVE RebindInv'
  OBVIOUS
<1>1. CASE SetEvaluationDate \/ SetFixings
  BY <1>1, SessionKeeps DEF SetEvaluationDate, SetFixings
<1>2. CASE RebindBundle \/ RebindStamped
  <2>1. UNCHANGED <<opened, nSmoothing, stamp>> /\ UNCHANGED client
    BY <1>2 DEF RebindBundle, RebindStamped
  <2>2. problem' = problem \/ problem' = Rebound(bundle)
    BY <1>2 DEF RebindBundle, RebindStamped, RebindQuotes
  <2>3. QED
    BY <2>1, <2>2, SessionKeeps
<1>3. ASSUME UNCHANGED session, IsBundle(bundle'), carried' # Unset => carried' = StructuralStamp(bundle')
      PROVE  RebindInv'
  BY <1>3 DEF session, RebindInv
<1>4. CASE Edit
  <2>1. PICK edit \in Edits : bundle' = Edited(opened, edit)
    BY <1>4 DEF Edit
  <2>2. IsBundle(bundle')
    BY <2>1, RebindAssumption DEF RebindInv
  <2>3. QED
    BY <1>3, <1>4, <2>2 DEF Edit
<1>5. CASE Requote
  <2>0. PICK part \in {"rows", "constraints"}, quote \in Quotes : \E i \in DOMAIN bundle[part] :
            bundle' = [bundle EXCEPT ![part][i].market = quote.market, ![part][i].band = quote.band]
    BY <1>5, Zenon DEF Requote
  <2>1. PICK i \in DOMAIN bundle[part] : bundle' = RequotedAt(bundle, part, i, quote.market, quote.band)
    BY <2>0, Zenon DEF RequotedAt
  <2>2. IsBundle(bundle)
    BY DEF RebindInv
  <2>3. IsBundle(bundle') /\ StructuralStamp(bundle') = StructuralStamp(bundle)
    BY <2>1, <2>2, RequoteKeeps
  <2>4. QED
    BY <1>3, <1>5, <2>3 DEF Requote, RebindInv
<1>6. CASE Send
  <2>1. IsBundle(bundle')
    BY <1>6, BundleSent DEF Send, RebindInv
  <2>2. QED
    BY <1>3, <1>6, <2>1 DEF Send
<1>7. CASE MakeStamped
  BY <1>3, <1>7 DEF MakeStamped, RebindInv
<1>8. CASE UNCHANGED vars
  BY <1>3, <1>8 DEF vars, client, RebindInv
<1>9. QED
  BY <1>1, <1>2, <1>4, <1>5, <1>6, <1>7, <1>8 DEF Next

\* A stamp is never the absence of one.
LEMMA StampIsSet == ASSUME NEW p PROVE StructuralStamp(p) # Unset
<1>1. DOMAIN StructuralStamp(p) = {"curves", "rows", "constraints"} /\ DOMAIN Unset = {}
  BY DEF StructuralStamp, Unset
<1>2. QED
  BY <1>1

\* Whatever was resolved, requoted, edited, sent and landed since the session was opened, its
\* stamp answers as the walk does (bundle_api.cpp rebind(), structure_fingerprint.hpp).
THEOREM StampStaysTwin == Spec => []StampIsTwin
<1>1. RebindInv => StampIsTwin
  <2> SUFFICES ASSUME RebindInv
               PROVE  SameStructure(bundle) <=> SameStamp(StructuralStamp(bundle))
    BY DEF RebindInv, StampIsTwin
  <2>1. problem = [curves |-> problem.curves, rows |-> problem.rows, constraints |-> problem.constraints]
    BY DEF RebindInv, IsBundle
  <2>2. StructureEqual(problem, bundle, nSmoothing)
          <=> StructuralStamp(OwnPart(problem, nSmoothing)) = StructuralStamp(bundle)
    BY <2>1, StampIsTheWalk DEF RebindInv
  <2>3. QED
    BY <2>2, StampIsSet DEF RebindInv, SameStructure, SameStamp
<1>2. QED
  BY <1>1, RebindInit, RebindStep, PTL DEF Spec

----------------------------------------------------------------------------
(* What a document leaves out is what a builder leaves at its default.     *)

\* No index without a schedule, one way to have no reset, and a schedule's accrual period
\* not that of a window it was resolved to.
CouponCanonical(c) ==
    /\ c.obs.schedule = << >> => c.obs.index = ""
    /\ c.resetFx < 0 => c.resetFx = -1
    /\ c.obs.schedule # << >> => ~SameAsWindow(c)

RowCanonical(r) == \A j \in 1..Len(r.coupons) : CouponCanonical(r.coupons[j])
RowsCanonical(s) == \A i \in 1..Len(s) : RowCanonical(s[i])

\* No tension without its scheme, one way to have no smoothing.
RegionCanonical(m) ==
    /\ m = [scheme |-> m.scheme, knots |-> m.knots, sigma |-> m.sigma, lambda |-> m.lambda]
    /\ m.scheme # "Tension" => m.sigma = 0
    /\ m.lambda < 0 => m.lambda = -1

CurveCanonical(c) ==
    /\ c = [base |-> c.base, regions |-> c.regions, turns |-> c.turns, tenor |-> c.tenor]
    /\ IsList(c.regions) /\ \A i \in 1..Len(c.regions) : RegionCanonical(c.regions[i])

BundleCanonical(p) ==
    /\ \A i \in 1..Len(p.curves) : CurveCanonical(p.curves[i])
    /\ RowsCanonical(p.rows) /\ RowsCanonical(p.constraints)

LEMMA RegionSent ==
    ASSUME NEW m, RegionCanonical(m)
    PROVE  RegionFrom(RegionTo(m)) = m
<1>1. /\ m = [scheme |-> m.scheme, knots |-> m.knots, sigma |-> m.sigma, lambda |-> m.lambda]
      /\ m.scheme # "Tension" => m.sigma = 0
      /\ m.lambda < 0 => m.lambda = -1
  BY DEF RegionCanonical
<1> DEFINE names == {"scheme", "knots", "sigma", "lambda"}
           gone == OmitIf(m.scheme # "Tension", {"sigma"}) \cup OmitIf(m.lambda < 0, {"lambda"})
           d == RegionFrom(RegionTo(m))
<1>2. DOMAIN m = names /\ DOMAIN NewRegion = names
  <2>1. DOMAIN m = names
    BY <1>1, Zenon
  <2>2. DOMAIN NewRegion = names
    BY DEF NewRegion
  <2>3. QED
    BY <2>1, <2>2
<1>3. /\ d = [k \in DOMAIN NewRegion |-> d[k]]
      /\ \A k \in DOMAIN NewRegion : d[k] = IF k \in DOMAIN m \ gone THEN m[k] ELSE NewRegion[k]
  BY ReadBack DEF RegionFrom, RegionTo
<1> HIDE DEF d
<1>4. d.scheme = m.scheme /\ d.knots = m.knots /\ d.sigma = m.sigma /\ d.lambda = m.lambda
  BY <1>1, <1>2, <1>3 DEF OmitIf, NewRegion
<1>5. d = [scheme |-> m.scheme, knots |-> m.knots, sigma |-> m.sigma, lambda |-> m.lambda]
  BY <1>2, <1>3, <1>4
<1>6. QED
  BY <1>1, <1>5, Zenon DEF d

LEMMA CurveSent ==
    ASSUME NEW c, CurveCanonical(c)
    PROVE  CurveFrom(CurveTo(c)) = c
<1> DEFINE names == {"base", "regions", "turns", "tenor"}
           gone == OmitIf(c.turns = << >>, {"turns"}) \cup OmitIf(c.tenor = 0, {"tenor"})
           w == Without(c, gone)
           t == CurveTo(c)
           b == Into(t, NewCurve)
           d == CurveFrom(t)
<1>1. /\ c = [base |-> c.base, regions |-> c.regions, turns |-> c.turns, tenor |-> c.tenor]
      /\ IsList(c.regions) /\ Len(c.regions) \in Nat /\ \A i \in 1..Len(c.regions) : RegionCanonical(c.regions[i])
  BY LenOfList DEF CurveCanonical
<1>2. DOMAIN c = names /\ DOMAIN NewCurve = names
  <2>1. DOMAIN c = names
    BY <1>1, Zenon
  <2>2. DOMAIN NewCurve = names
    BY DEF NewCurve
  <2>3. QED
    BY <2>1, <2>2
<1>3. w = [k \in names \ gone |-> c[k]] /\ "regions" \in names \ gone
  BY <1>2 DEF Without, Restrict, OmitIf
<1> DEFINE doc == [i \in 1..Len(c.regions) |-> RegionTo(c.regions[i])]
<1>4. t = [w EXCEPT !.regions = Each(RegionTo, w.regions)]
  BY DEF CurveTo
<1> HIDE DEF w, t
<1>5. t = [k \in names \ gone |-> IF k = "regions" THEN doc ELSE c[k]]
  BY <1>3, <1>4 DEF Each
<1>6. b = [k \in names |-> IF k \in names \ gone THEN t[k] ELSE NewCurve[k]]
  BY <1>2, <1>5 DEF Into, Has
<1>7. Len(doc) = Len(c.regions)
  <2>1. doc = [i \in 1..Len(c.regions) |-> doc[i]]
    OBVIOUS
  <2> HIDE DEF doc
  <2>2. QED
    BY <1>1, <2>1, FunctionIsList
<1>8. EachIn(t, "regions", RegionFrom) = c.regions
  <2>1. t.regions = doc /\ Has(t, "regions")
    BY <1>3, <1>5 DEF Has
  <2>2. EachIn(t, "regions", RegionFrom) = [i \in 1..Len(doc) |-> RegionFrom(doc[i])]
    <3> HIDE DEF doc
    <3>1. QED
      BY <2>1 DEF EachIn, Each
  <2>3. [i \in 1..Len(doc) |-> RegionFrom(doc[i])] = [i \in 1..Len(c.regions) |-> c.regions[i]]
    BY <1>1, <1>7, RegionSent
  <2>4. c.regions = [i \in 1..Len(c.regions) |-> c.regions[i]]
    BY <1>1, Zenon DEF IsList
  <2>5. QED
    BY <2>2, <2>3, <2>4, Zenon
<1>9. FlatHermite(IF Has(t, "meeting") THEN t.meeting ELSE << >>, IF Has(t, "back") THEN t.back ELSE << >>) = << >>
  <2>1. ~Has(t, "meeting") /\ ~Has(t, "back")
    BY <1>5 DEF Has
  <2>2. FlatHermite(<< >>, << >>) = << >>
    BY DEF FlatHermite
  <2>3. QED
    BY <2>1, <2>2
<1>10. d = [b EXCEPT !.regions = c.regions]
  <2>1. d = [b EXCEPT !.regions = IF EachIn(t, "regions", RegionFrom) = << >>
                                  THEN FlatHermite(IF Has(t, "meeting") THEN t.meeting ELSE << >>,
                                                   IF Has(t, "back") THEN t.back ELSE << >>)
                                  ELSE EachIn(t, "regions", RegionFrom)]
    BY DEF CurveFrom
  <2>2. (IF EachIn(t, "regions", RegionFrom) = << >>
         THEN FlatHermite(IF Has(t, "meeting") THEN t.meeting ELSE << >>,
                          IF Has(t, "back") THEN t.back ELSE << >>)
         ELSE EachIn(t, "regions", RegionFrom)) = c.regions
    BY <1>8, <1>9
  <2> HIDE DEF b, d
  <2>3. QED
    BY <2>1, <2>2, Zenon
<1> HIDE DEF d, b
<1>11. /\ d = [k \in names |-> d[k]]
       /\ d.base = c.base /\ d.regions = c.regions /\ d.turns = c.turns /\ d.tenor = c.tenor
  <2>1. b = [k \in names |-> IF k \in names \ gone THEN IF k = "regions" THEN doc ELSE c[k] ELSE NewCurve[k]]
    BY <1>5, <1>6
  <2>2. d = [k \in names |-> IF k = "regions" THEN c.regions ELSE IF k \in names \ gone THEN c[k] ELSE NewCurve[k]]
    <3> HIDE DEF gone
    <3>1. QED
      BY <1>10, <2>1
  <2>3. QED
    BY <2>2 DEF OmitIf, NewCurve
<1>12. d = [base |-> c.base, regions |-> c.regions, turns |-> c.turns, tenor |-> c.tenor]
  BY <1>11
<1>13. QED
  BY <1>1, <1>12, Zenon DEF d, t

\* A coupon and another that resolves to the same flows, whenever it is resolved.
Alike(c, o) ==
    /\ c.pay = o.pay /\ EffStart(c) = EffStart(o) /\ EffEnd(c) = EffEnd(o)
    /\ c.resetFx = o.resetFx /\ c.fxFixing = o.fxFixing
    /\ c.obs.schedule = o.obs.schedule /\ c.obs.terms = o.obs.terms
    /\ IF c.obs.schedule = << >> THEN c.obs.subs = o.obs.subs /\ c.obs.realized = o.obs.realized
                                 ELSE c.accrual # Unset /\ o.accrual # Unset

LEMMA CouponKin ==
    ASSUME NEW c, IsCoupon(c), CouponCanonical(c)
    PROVE  /\ StampCoupon(SentCoupon(c)) = StampCoupon(c) /\ CouponCanonical(SentCoupon(c))
           /\ Carries(c) => Alike(SentCoupon(c), c) /\ Carries(SentCoupon(c))
<1> DEFINE d == SentCoupon(c)
<1>1. /\ d.obs = SentObs(c.obs) /\ d.pay = c.pay
      /\ d.accrual = (IF SameAsWindow(c) THEN Unset ELSE c.accrual)
      /\ d.resetFx = (IF c.resetFx < 0 THEN -1 ELSE c.resetFx) /\ d.fxFixing = c.fxFixing
  BY DEF SentCoupon
<1>2. /\ d.obs.subs = c.obs.subs /\ d.obs.realized = c.obs.realized /\ d.obs.terms = c.obs.terms
      /\ d.obs.schedule = c.obs.schedule
      /\ d.obs.index = (IF c.obs.schedule = << >> THEN "" ELSE c.obs.index)
  <2>1. \A o : /\ SentObs(o).subs = o.subs /\ SentObs(o).realized = o.realized /\ SentObs(o).terms = o.terms
              /\ SentObs(o).schedule = o.schedule
              /\ SentObs(o).index = (IF o.schedule = << >> THEN "" ELSE o.index)
    BY DEF SentObs
  <2> HIDE DEF d
  <2>2. QED
    BY <1>1, <2>1, Zenon
<1> HIDE DEF d
<1>3. d.resetFx = c.resetFx /\ d.obs.index = c.obs.index
  BY <1>1, <1>2 DEF CouponCanonical
<1>4. EffStart(d) = EffStart(c) /\ EffEnd(d) = EffEnd(c)
  <2>1. CASE SameAsWindow(c)
    <3>1. /\ c.obs.subs # << >> /\ d.accrual = Unset
          /\ c.accrual = <<c.obs.subs[1][1], c.obs.subs[Len(c.obs.subs)][2]>>
      BY <1>1, <2>1 DEF SameAsWindow
    <3>2. c.accrual # Unset /\ c.accrual[1] = c.obs.subs[1][1] /\ c.accrual[2] = c.obs.subs[Len(c.obs.subs)][2]
      BY <3>1 DEF Unset
    <3>3. QED
      BY <1>2, <3>1, <3>2 DEF EffStart, EffEnd
  <2>2. CASE ~SameAsWindow(c)
    BY <1>1, <1>2, <2>2 DEF EffStart, EffEnd
  <2>3. QED
    BY <2>1, <2>2
<1>5. Carries(c) => (c.obs.schedule # << >> => d.accrual # Unset /\ c.accrual # Unset)
  BY <1>1 DEF CouponCanonical, Carries
<1>6. Carries(c) => Alike(d, c)
  BY <1>1, <1>2, <1>3, <1>4, <1>5 DEF Alike
<1>7. StampObs(d.obs) = StampObs(c.obs)
  BY <1>2, <1>3 DEF StampObs
<1>8. StampCoupon(d) = StampCoupon(c)
  BY <1>1, <1>3, <1>4, <1>7 DEF StampCoupon
<1>9. Carries(c) => Carries(d)
  BY <1>2, <1>5 DEF Carries
<1>10. CouponCanonical(d)
  <2>1. c.obs.schedule # << >> => ~SameAsWindow(d)
    BY <1>1, <1>2 DEF CouponCanonical, SameAsWindow
  <2>2. QED
    BY <1>2, <1>3, <2>1 DEF CouponCanonical
<1>11. QED
  BY <1>6, <1>8, <1>9, <1>10 DEF d

\* CouponMeans, and those it is built into, at any date and fixings.
MeansAt(c, when, known) ==
    IF FirstMissing(c.obs, when, known) # 0 THEN <<>>
    ELSE <<c.pay, EffStart(c), EffEnd(c), c.resetFx, c.fxFixing, c.obs.subs, c.obs.realized, c.obs.terms>>

\* The missing day is one of the schedule.
MissingIn(s, when, known) ==
    LET missing == {i \in 1..Len(s) : IsPast(s[i], when, known) /\ s[i].date \notin known}
    IN  IF missing = {} THEN 0 ELSE CHOOSE i \in missing : \A j \in missing : i <= j

LEMMA MissingOfSchedule == ASSUME NEW o, NEW when, NEW known PROVE FirstMissing(o, when, known) = MissingIn(o.schedule, when, known)
  BY DEF FirstMissing, MissingIn

LEMMA AlikeResolves ==
    ASSUME NEW c, NEW o, IsCoupon(c), IsCoupon(o), Alike(c, o), NEW when, NEW known
    PROVE  /\ Alike(ResolveCoupon(c, when, known), o)
           /\ MeansAt(ResolveCoupon(c, when, known), when, known) = MeansAt(ResolveCoupon(o, when, known), when, known)
<1> DEFINE d == ResolveCoupon(c, when, known)
           e == ResolveCoupon(o, when, known)
           u == ResolveInto(c.obs, when, known)
           v == ResolveInto(o.obs, when, known)
<1>1. /\ d = [obs |-> u, pay |-> c.pay, accrual |-> c.accrual, resetFx |-> c.resetFx, fxFixing |-> c.fxFixing]
      /\ e = [obs |-> v, pay |-> o.pay, accrual |-> o.accrual, resetFx |-> o.resetFx, fxFixing |-> o.fxFixing]
  BY DEF ResolveCoupon, IsCoupon
<1>2. /\ IsObs(c.obs) /\ IsObs(o.obs) /\ c.obs.schedule = o.obs.schedule
      /\ u.schedule = c.obs.schedule /\ v.schedule = o.obs.schedule
  BY ObsResolved DEF IsCoupon, Alike
<1>3. /\ u.terms = c.obs.terms /\ v.terms = o.obs.terms
      /\ c.obs.schedule = << >> => u = c.obs /\ v = o.obs
  BY <1>2 DEF ResolveInto, IsObs
<1>4. /\ FirstMissing(u, when, known) = FirstMissing(c.obs, when, known)
      /\ FirstMissing(v, when, known) = FirstMissing(c.obs, when, known)
      /\ FirstMissing(o.obs, when, known) = FirstMissing(c.obs, when, known)
  BY <1>2, MissingOfSchedule
<1>5. c.obs.schedule # << >> /\ FirstMissing(c.obs, when, known) = 0
        => u.subs = v.subs /\ u.realized = v.realized
  <2> SUFFICES ASSUME c.obs.schedule # << >>, FirstMissing(c.obs, when, known) = 0
               PROVE  u.subs = v.subs /\ u.realized = v.realized
    OBVIOUS
  <2> DEFINE read == c.obs.schedule
             future == SelectSeq(read, LAMBDA day : ~IsPast(day, when, known))
             subs == Each(LAMBDA day : <<day.from, day.to>>, future)
  <2>1. u = [c.obs EXCEPT !.subs = subs, !.realized = Len(read) - Len(future), !.resolved = TRUE]
    BY <1>4, Zenon DEF ResolveInto
  <2>2. v = [o.obs EXCEPT !.subs = subs, !.realized = Len(read) - Len(future), !.resolved = TRUE]
    BY <1>2, <1>4, Zenon DEF ResolveInto
  <2> DEFINE done == Len(read) - Len(future)
  <2> HIDE DEF subs, done
  <2>3. /\ u = [c.obs EXCEPT !.subs = subs, !.realized = done, !.resolved = TRUE]
        /\ v = [o.obs EXCEPT !.subs = subs, !.realized = done, !.resolved = TRUE]
    BY <2>1, <2>2, Zenon DEF done
  <2> HIDE DEF u, v
  <2>4. QED
    BY <1>2, <2>3 DEF IsObs
<1> HIDE DEF u, v, d, e
<1>6. EffStart(d) = EffStart(c) /\ EffEnd(d) = EffEnd(c) /\ EffStart(e) = EffStart(o) /\ EffEnd(e) = EffEnd(o)
  BY <1>1, <1>3 DEF Alike, EffStart, EffEnd
<1>7. Alike(d, o)
  BY <1>1, <1>2, <1>3, <1>6 DEF Alike
<1>8. MeansAt(d, when, known) = MeansAt(e, when, known)
  <2>1. d.obs = u /\ e.obs = v
    BY <1>1
  <2>2. CASE FirstMissing(c.obs, when, known) # 0
    BY <1>4, <2>1, <2>2 DEF MeansAt
  <2>3. CASE FirstMissing(c.obs, when, known) = 0
    <3>1. u.subs = v.subs /\ u.realized = v.realized /\ u.terms = v.terms
      BY <1>3, <1>5, <2>3 DEF Alike
    <3>2. d.pay = e.pay /\ d.resetFx = e.resetFx /\ d.fxFixing = e.fxFixing
      BY <1>1 DEF Alike
    <3>3. EffStart(d) = EffStart(e) /\ EffEnd(d) = EffEnd(e)
      BY <1>6 DEF Alike
    <3>4. QED
      BY <1>4, <2>1, <2>3, <3>1, <3>2, <3>3 DEF MeansAt
  <2>4. QED
    BY <2>2, <2>3
<1>9. QED
  BY <1>7, <1>8 DEF d, e

\* Rows and the rows they are sent, requoted or resolved from.
RowAlike(r, o) ==
    /\ r.kind = o.kind /\ r.terms = o.terms /\ r.spotTime = o.spotTime /\ r.state = o.state /\ r.penalty = o.penalty
    /\ Len(r.coupons) = Len(o.coupons)
    /\ \A j \in 1..Len(o.coupons) : Alike(r.coupons[j], o.coupons[j])
RowsAlike(s, t) == Len(s) = Len(t) /\ \A i \in 1..Len(t) : RowAlike(s[i], t[i])

LEMMA AlikeSelf ==
    ASSUME NEW s, IsRows(s), AllCarry(s)
    PROVE  RowsAlike(s, s)
<1>1. ASSUME NEW c, IsCoupon(c), Carries(c) PROVE Alike(c, c)
  BY <1>1 DEF Alike, Carries
<1>2. QED
  BY <1>1 DEF RowsAlike, RowAlike, IsRows, IsRow, AllCarry

LEMMA AlikeTrans ==
    ASSUME NEW s, NEW t, NEW u, RowsAlike(s, t), RowsAlike(t, u)
    PROVE  RowsAlike(s, u)
<1>1. ASSUME NEW a, NEW b, NEW c, Alike(a, b), Alike(b, c) PROVE Alike(a, c)
  BY <1>1 DEF Alike
<1>2. QED
  BY <1>1 DEF RowsAlike, RowAlike

LEMMA AlikeBack ==
    ASSUME NEW s, NEW t, RowsAlike(s, t)
    PROVE  RowsAlike(t, s)
<1>1. ASSUME NEW a, NEW b, Alike(a, b) PROVE Alike(b, a)
  BY <1>1 DEF Alike
<1>2. QED
  BY <1>1 DEF RowsAlike, RowAlike

\* A list of rows over the wire.
LEMMA RowsKin ==
    ASSUME NEW s, IsRows(s), RowsCanonical(s)
    PROVE  /\ Each(StampRow, SentRows(s)) = Each(StampRow, s) /\ RowsCanonical(SentRows(s))
           /\ AllCarry(s) => RowsAlike(SentRows(s), s) /\ AllCarry(SentRows(s))
<1> DEFINE d == SentRows(s)
<1>1. Len(s) \in Nat /\ Len(d) = Len(s) /\ IsRows(d) /\ \A i \in 1..Len(s) : d[i] = SentRow(s[i])
  BY RowsSent, LenOfList DEF SentRows, IsRows
<1>2. ASSUME NEW i \in 1..Len(s)
      PROVE  /\ StampRow(d[i]) = StampRow(s[i]) /\ RowCanonical(d[i])
             /\ RowCarries(s[i]) => RowAlike(d[i], s[i]) /\ RowCarries(d[i])
  <2> DEFINE r == s[i]
             e == SentCoupons(r.coupons)
  <2>1. /\ Len(r.coupons) \in Nat /\ \A j \in 1..Len(r.coupons) : IsCoupon(r.coupons[j]) /\ CouponCanonical(r.coupons[j])
    BY <1>1, <1>2, LenOfList DEF IsRows, IsRow, RowsCanonical, RowCanonical
  <2>2. Len(e) = Len(r.coupons)
    <3>1. e = [j \in 1..Len(r.coupons) |-> e[j]]
      BY DEF SentCoupons
    <3> HIDE DEF e
    <3>2. QED
      BY <2>1, <3>1, FunctionIsList
  <2>3. \A j \in 1..Len(r.coupons) : e[j] = SentCoupon(r.coupons[j])
    BY DEF SentCoupons
  <2>4. d[i] = [kind |-> r.kind, terms |-> r.terms, coupons |-> e, spotTime |-> r.spotTime,
                state |-> r.state, market |-> r.market, band |-> r.band, penalty |-> r.penalty]
    BY <1>1, <1>2 DEF SentRow
  <2> HIDE DEF d, e
  <2>5. \A j \in 1..Len(r.coupons) :
           /\ StampCoupon(e[j]) = StampCoupon(r.coupons[j]) /\ CouponCanonical(e[j])
           /\ Carries(r.coupons[j]) => Alike(e[j], r.coupons[j]) /\ Carries(e[j])
    BY <2>1, <2>3, CouponKin
  <2>6. Each(StampCoupon, e) = Each(StampCoupon, r.coupons)
    BY <2>2, <2>5 DEF Each
  <2>7. StampRow(d[i]) = StampRow(s[i])
    BY <2>4, <2>6 DEF StampRow
  <2>8. RowCanonical(d[i])
    BY <2>2, <2>4, <2>5 DEF RowCanonical
  <2>9. RowCarries(s[i]) => RowAlike(d[i], s[i]) /\ RowCarries(d[i])
    BY <2>2, <2>4, <2>5 DEF RowAlike, RowCarries
  <2>10. QED
    BY <2>7, <2>8, <2>9
<1> HIDE DEF d
<1>3. Each(StampRow, d) = Each(StampRow, s)
  BY <1>1, <1>2 DEF Each
<1>4. RowsCanonical(d)
  BY <1>1, <1>2 DEF RowsCanonical
<1>5. AllCarry(s) => RowsAlike(d, s) /\ AllCarry(d)
  BY <1>1, <1>2 DEF RowsAlike, AllCarry, RowCarries
<1>6. QED
  BY <1>3, <1>4, <1>5 DEF d

\* Curves that differ in their tenor at most.
CurvesAlike(s, t) ==
    /\ Len(s) = Len(t)
    /\ \A i \in 1..Len(t) : s[i].base = t[i].base /\ s[i].regions = t[i].regions /\ s[i].turns = t[i].turns

KinBundle(p, q) ==
    /\ CurvesAlike(p.curves, q.curves)
    /\ RowsAlike(p.rows, q.rows) /\ RowsAlike(p.constraints, q.constraints)
    /\ AllCarry(p.rows) /\ AllCarry(p.constraints)

LEMMA BundleKin ==
    ASSUME NEW p, IsBundle(p), BundleCanonical(p)
    PROVE  /\ StructuralStamp(Sent(p)) = StructuralStamp(p) /\ BundleCanonical(Sent(p))
           /\ Sent(p).curves = p.curves
           /\ AllCarry(p.rows) /\ AllCarry(p.constraints) => KinBundle(Sent(p), p)
<1>1. PICK a, b, c : p = [curves |-> a, rows |-> b, constraints |-> c]
  BY Zenon DEF IsBundle
<1>2. IsList(a) /\ IsRows(b) /\ IsRows(c) /\ RowsCanonical(b) /\ RowsCanonical(c)
  BY <1>1 DEF IsBundle, BundleCanonical
<1>3. \A i \in 1..Len(a) : CurveCanonical(a[i])
  BY <1>1 DEF BundleCanonical
<1>4. SentCurves(a) = a
  <2>1. SentCurves(a) = [i \in 1..Len(a) |-> a[i]]
    BY <1>3, CurveSent DEF SentCurves
  <2>2. a = [i \in 1..Len(a) |-> a[i]]
    BY <1>2, Zenon DEF IsList
  <2>3. QED
    BY <2>1, <2>2, Zenon
<1>5. Sent(p) = [curves |-> a, rows |-> SentRows(b), constraints |-> SentRows(c)]
  BY <1>1, <1>4 DEF Sent
<1>6. /\ Each(StampRow, SentRows(b)) = Each(StampRow, b) /\ RowsCanonical(SentRows(b))
      /\ Each(StampRow, SentRows(c)) = Each(StampRow, c) /\ RowsCanonical(SentRows(c))
      /\ AllCarry(b) => RowsAlike(SentRows(b), b) /\ AllCarry(SentRows(b))
      /\ AllCarry(c) => RowsAlike(SentRows(c), c) /\ AllCarry(SentRows(c))
  BY <1>2, RowsKin
<1>7. StructuralStamp(Sent(p)) = StructuralStamp(p)
  BY <1>1, <1>5, <1>6 DEF StructuralStamp
<1>8. BundleCanonical(Sent(p))
  BY <1>3, <1>5, <1>6 DEF BundleCanonical
<1>9. AllCarry(b) /\ AllCarry(c) => KinBundle(Sent(p), p)
  BY <1>1, <1>5, <1>6 DEF KinBundle, CurvesAlike
<1>10. QED
  BY <1>1, <1>5, <1>7, <1>8, <1>9

----------------------------------------------------------------------------
(* What is landed on a session is what it prices.                          *)

LEMMA QuotesAlike ==
    ASSUME NEW s, IsRows(s), NEW d, Requotes(d, s)
    PROVE  /\ RowsCanonical(s) => RowsCanonical(d)
           /\ AllCarry(s) => RowsAlike(d, s)
<1>1. Len(d) = Len(s) /\ Len(s) \in Nat
  BY RequotedRows, LenOfList DEF IsRows
<1>2. ASSUME NEW i \in 1..Len(s)
      PROVE  /\ d[i].kind = s[i].kind /\ d[i].terms = s[i].terms /\ d[i].spotTime = s[i].spotTime
             /\ d[i].state = s[i].state /\ d[i].penalty = s[i].penalty /\ d[i].coupons = s[i].coupons
  <2>1. d[i] = s[i] \/ \E mk, bd : d[i] = WithQuote(s[i], mk, bd)
    BY <1>2 DEF Requotes
  <2>2. CASE \E mk, bd : d[i] = WithQuote(s[i], mk, bd)
    <3>1. PICK mk, bd : d[i] = WithQuote(s[i], mk, bd)
      BY <2>2
    <3>2. QED
      BY <3>1 DEF WithQuote
  <2>3. QED
    BY <2>1, <2>2
<1>3. RowsCanonical(s) => RowsCanonical(d)
  BY <1>1, <1>2 DEF RowsCanonical, RowCanonical
<1>4. ASSUME AllCarry(s) PROVE RowsAlike(d, s)
  <2>1. RowsAlike(s, s)
    BY <1>4, AlikeSelf
  <2>2. QED
    BY <1>1, <1>2, <2>1 DEF RowsAlike, RowAlike
<1>5. QED
  BY <1>3, <1>4

LEMMA QuotedCoupons ==
    ASSUME NEW s, NEW d, Requotes(d, s)
    PROVE  \A i \in 1..Len(s) : d[i].coupons = s[i].coupons
<1>1. ASSUME NEW i \in 1..Len(s) PROVE d[i].coupons = s[i].coupons
  <2>1. CASE \E mk, bd : d[i] = WithQuote(s[i], mk, bd)
    <3>1. PICK mk, bd : d[i] = WithQuote(s[i], mk, bd)
      BY <2>1
    <3>2. QED
      BY <3>1 DEF WithQuote
  <2>2. QED
    BY <2>1 DEF Requotes
<1>2. QED
  BY <1>1

\* The rows of s price, coupon by coupon, as those of t once resolved.
RowsPriceAs(s, t, when, known) ==
    \A i \in 1..Len(t) : \A j \in 1..Len(t[i].coupons) :
        MeansAt(s[i].coupons[j], when, known) = MeansAt(ResolveCoupon(t[i].coupons[j], when, known), when, known)

\* Resolving any rows alike to t at one date prices them as t resolved then.
LEMMA AlikeRowsResolve ==
    ASSUME NEW s, NEW t, IsRows(s), IsRows(t), RowsAlike(s, t), NEW when, NEW known
    PROVE  /\ RowsAlike(ResolvedRows(s, when, known), t)
           /\ RowsPriceAs(ResolvedRows(s, when, known), t, when, known)
<1> DEFINE d == ResolvedRows(s, when, known)
<1>1. Len(s) = Len(t) /\ Len(s) \in Nat
  BY LenOfList DEF RowsAlike, IsRows
<1>2. Len(d) = Len(s) /\ \A i \in 1..Len(s) : d[i] = ResolveRow(s[i], when, known)
  <2>1. d = [i \in 1..Len(s) |-> d[i]] /\ \A i \in 1..Len(s) : d[i] = ResolveRow(s[i], when, known)
    BY DEF ResolvedRows
  <2> HIDE DEF d
  <2>2. QED
    BY <1>1, <2>1, FunctionIsList
<1> HIDE DEF d
<1>3. ASSUME NEW i \in 1..Len(t)
      PROVE  /\ RowAlike(d[i], t[i])
             /\ \A j \in 1..Len(t[i].coupons) :
                    MeansAt(d[i].coupons[j], when, known) = MeansAt(ResolveCoupon(t[i].coupons[j], when, known), when, known)
  <2>1. PICK r : r = s[i]
    OBVIOUS
  <2>2. PICK o : o = t[i]
    OBVIOUS
  <2>3. IsRow(r) /\ IsRow(o) /\ RowAlike(r, o) /\ d[i] = ResolveRow(r, when, known)
    BY <1>1, <1>2, <1>3, <2>1, <2>2 DEF IsRows, RowsAlike
  <2> DEFINE e == [j \in 1..Len(r.coupons) |-> ResolveCoupon(r.coupons[j], when, known)]
  <2>4. /\ Len(r.coupons) = Len(o.coupons) /\ Len(o.coupons) \in Nat
        /\ \A j \in 1..Len(o.coupons) : IsCoupon(r.coupons[j]) /\ IsCoupon(o.coupons[j]) /\ Alike(r.coupons[j], o.coupons[j])
    BY <2>3, LenOfList DEF IsRow, RowAlike
  <2>5. Len(e) = Len(o.coupons)
    <3>1. e = [j \in 1..Len(o.coupons) |-> e[j]]
      BY <2>4
    <3> HIDE DEF e
    <3>2. QED
      BY <2>4, <3>1, FunctionIsList
  <2>6. /\ d[i].kind = r.kind /\ d[i].terms = r.terms /\ d[i].coupons = e /\ d[i].spotTime = r.spotTime
        /\ d[i].state = r.state /\ d[i].penalty = r.penalty
    <3>1. r = [kind |-> r.kind, terms |-> r.terms, coupons |-> r.coupons, spotTime |-> r.spotTime, state |-> r.state,
               market |-> r.market, band |-> r.band, penalty |-> r.penalty]
      BY <2>3 DEF IsRow
    <3>2. d[i] = [r EXCEPT !.coupons = e]
      BY <2>3 DEF ResolveRow, Each
    <3> HIDE DEF e
    <3>3. QED
      BY <3>1, <3>2
  <2>7. \A j \in 1..Len(o.coupons) :
           /\ Alike(e[j], o.coupons[j])
           /\ MeansAt(e[j], when, known) = MeansAt(ResolveCoupon(o.coupons[j], when, known), when, known)
    BY <2>4, AlikeResolves
  <2> HIDE DEF e
  <2>8. QED
    BY <2>2, <2>3, <2>5, <2>6, <2>7 DEF RowAlike
<1>4. QED
  BY <1>1, <1>2, <1>3 DEF RowsAlike, RowsPriceAs, d

LEMMA ResolvedRowParts ==
    ASSUME NEW s, IsRows(s), NEW when, NEW known
    PROVE  /\ Len(ResolvedRows(s, when, known)) = Len(s)
           /\ \A i \in 1..Len(s) : /\ ResolvedRows(s, when, known)[i].market = s[i].market
                                   /\ ResolvedRows(s, when, known)[i].band = s[i].band
<1> DEFINE d == ResolvedRows(s, when, known)
<1>1. Len(s) \in Nat /\ \A i \in 1..Len(s) : IsRow(s[i]) /\ d[i] = ResolveRow(s[i], when, known)
  BY LenOfList DEF ResolvedRows, IsRows
<1>2. d = [i \in 1..Len(s) |-> d[i]]
  BY DEF ResolvedRows
<1> HIDE DEF d
<1>3. Len(d) = Len(s)
  BY <1>1, <1>2, FunctionIsList
<1>4. ASSUME NEW r, IsRow(r)
      PROVE  ResolveRow(r, when, known).market = r.market /\ ResolveRow(r, when, known).band = r.band
  <2> DEFINE cs == Each(LAMBDA c : ResolveCoupon(c, when, known), r.coupons)
  <2>1. r = [kind |-> r.kind, terms |-> r.terms, coupons |-> r.coupons, spotTime |-> r.spotTime, state |-> r.state,
             market |-> r.market, band |-> r.band, penalty |-> r.penalty]
    BY <1>4 DEF IsRow
  <2>2. ResolveRow(r, when, known) = [r EXCEPT !.coupons = cs]
    BY Zenon DEF ResolveRow
  <2> HIDE DEF cs
  <2>3. PICK d1 : d1 = [r EXCEPT !.coupons = cs]
    OBVIOUS
  <2>4. d1.market = r.market /\ d1.band = r.band
    BY <2>1, <2>3
  <2>5. QED
    BY <2>2, <2>3, <2>4
<1>5. QED
  BY <1>1, <1>3, <1>4 DEF d

\* The rows the session adds are those of its curves.
SmoothingOfRegions(regions, c) ==
    LET knots == FlattenSeq(Each(LAMBDA m : Each(LAMBDA k : m, m.knots), regions))
        bent == SelectSeq([i \in 1..Len(knots) |-> i],
                          LAMBDA i : /\ 1 < i /\ i < Len(knots)
                                     /\ knots[i].scheme # "Flat" /\ knots[i + 1].scheme # "Flat"
                                     /\ knots[i].lambda > 0)
    IN  Each(LAMBDA i : [NewRow EXCEPT !.kind = "StateLinear", !.state = <<c, i>>], bent)
SmoothingOf(curves) == FlattenSeq([c \in 1..Len(curves) |-> SmoothingOfRegions(curves[c].regions, c)])

LEMMA SmoothingIsOfCurves == ASSUME NEW p PROVE SmoothingRows(p) = SmoothingOf(p.curves)
<1>1. \A c : SmoothingRowsOf(p, c) = SmoothingOfRegions(p.curves[c].regions, c)
  BY Zenon DEF SmoothingRowsOf, SmoothingOfRegions
<1>2. [c \in 1..Len(p.curves) |-> SmoothingRowsOf(p, c)] = [c \in 1..Len(p.curves) |-> SmoothingOfRegions(p.curves[c].regions, c)]
  BY <1>1, Zenon
<1>3. QED
  BY <1>2, Zenon DEF SmoothingRows, SmoothingOf

LEMMA MeansOfCoupon == ASSUME NEW c PROVE CouponMeans(c) = MeansAt(c, date, fixed)
  BY DEF CouponMeans, MeansAt

LEMMA SameRowMeans ==
    ASSUME NEW r, NEW o, r.kind = o.kind, r.terms = o.terms, r.spotTime = o.spotTime, r.state = o.state,
           r.penalty = o.penalty, r.market = o.market, r.band = o.band, Len(r.coupons) = Len(o.coupons),
           \A j \in 1..Len(o.coupons) : MeansAt(r.coupons[j], date, fixed) = MeansAt(o.coupons[j], date, fixed)
    PROVE  RowMeans(r) = RowMeans(o)
<1>1. [j \in 1..Len(r.coupons) |-> CouponMeans(r.coupons[j])] = [j \in 1..Len(o.coupons) |-> CouponMeans(o.coupons[j])]
  BY MeansOfCoupon
<1>2. Each(CouponMeans, r.coupons) = Each(CouponMeans, o.coupons)
  BY <1>1, Zenon DEF Each
<1>3. QED
  BY <1>2 DEF RowMeans

LEMMA SameRowsMeans ==
    ASSUME NEW s, NEW t, Len(s) = Len(t), \A i \in 1..Len(t) : RowMeans(s[i]) = RowMeans(t[i])
    PROVE  Each(RowMeans, s) = Each(RowMeans, t)
  BY DEF Each

----------------------------------------------------------------------------
(* The two rebind properties, for bundles that their documents write in    *)
(* full.                                                                   *)

WrittenInFull == \A p \in Sources : BundleCanonical(p) /\ \A edit \in Edits : BundleCanonical(Edited(p, edit))

\* The client's bundle is written in full, and its coupons that resolve have their accrual periods.
KinInv == BundleCanonical(bundle) /\ AllCarry(bundle.rows) /\ AllCarry(bundle.constraints)

\* What the session's constraints resolve and what it adds to them.
OwnRowsOf(p) == p.constraints \o SmoothingRows(p)
OwnRows == OwnRowsOf(opened)

\* The session's copy has the curves it was opened with, its rows price as those it was opened
\* with do today, and the rows it added are as it added them.
PricedInv ==
    /\ problem.curves = opened.curves
    /\ RowsAlike(problem.rows, opened.rows) /\ RowsPriceAs(problem.rows, opened.rows, date, fixed)
    /\ RowsAlike(problem.constraints, OwnRows) /\ RowsPriceAs(problem.constraints, OwnRows, date, fixed)
    /\ \A i \in 1..Len(OwnRows) : i > Len(opened.constraints) =>
           problem.constraints[i].market = OwnRows[i].market /\ problem.constraints[i].band = OwnRows[i].band

LEMMA OpenedIsSource ==
    ASSUME opened \in Sources
    PROVE  /\ IsBundle(opened) /\ IsRows(opened.rows) /\ IsRows(opened.constraints)
           /\ AllCarry(opened.rows) /\ AllCarry(opened.constraints)
           /\ KinBundle(opened, opened)
<1>1. IsBundle(opened) /\ AllCarry(opened.rows) /\ AllCarry(opened.constraints)
  BY RebindAssumption
<1>2. IsRows(opened.rows) /\ IsRows(opened.constraints)
  BY <1>1 DEF IsBundle
<1>3. QED
  BY <1>1, <1>2, AlikeSelf DEF KinBundle, CurvesAlike

LEMMA KinStep ==
    ASSUME WrittenInFull, RebindInv, KinInv, [Next]_vars
    PROVE  KinInv'
<1>1. /\ opened \in Sources /\ IsBundle(bundle) /\ stamp = StructuralStamp(opened)
      /\ IsRows(bundle.rows) /\ IsRows(bundle.constraints)
  BY DEF RebindInv, IsBundle
<1>2. UNCHANGED <<opened, stamp>>
  BY DEF Next, SetEvaluationDate, SetFixings, Edit, Requote, Send, MakeStamped, RebindBundle, RebindStamped, session, vars
<1>3. ASSUME UNCHANGED bundle PROVE KinInv'
  BY <1>2, <1>3 DEF KinInv
<1>4. CASE SetEvaluationDate \/ SetFixings \/ MakeStamped \/ RebindBundle \/ RebindStamped \/ UNCHANGED vars
  BY <1>3, <1>4 DEF SetEvaluationDate, SetFixings, MakeStamped, RebindBundle, RebindStamped, client, vars
<1>5. CASE Edit
  <2>1. PICK edit \in Edits : bundle' = Edited(opened, edit)
    BY <1>5 DEF Edit
  <2>2. BundleCanonical(bundle') /\ AllCarry(bundle'.rows) /\ AllCarry(bundle'.constraints)
    BY <1>1, <2>1, RebindAssumption DEF WrittenInFull
  <2>3. QED
    BY <2>2 DEF KinInv
<1>6. CASE Requote
  <2>0. PICK part \in {"rows", "constraints"}, quote \in Quotes : \E i \in DOMAIN bundle[part] :
            bundle' = [bundle EXCEPT ![part][i].market = quote.market, ![part][i].band = quote.band]
    BY <1>6, Zenon DEF Requote
  <2>1. PICK i \in DOMAIN bundle[part] : bundle' = RequotedAt(bundle, part, i, quote.market, quote.band)
    BY <2>0, Zenon DEF RequotedAt
  <2>2. /\ bundle'.curves = bundle.curves /\ Requotes(bundle'.rows, bundle.rows)
        /\ Requotes(bundle'.constraints, bundle.constraints)
        /\ StructuralStamp(bundle') = StructuralStamp(bundle)
    BY <1>1, <2>1, RequoteKeeps
  <2>3. RowsCanonical(bundle.rows) /\ RowsCanonical(bundle.constraints)
    BY DEF KinInv, BundleCanonical
  <2>4. BundleCanonical(bundle')
    BY <1>1, <2>2, <2>3, QuotesAlike DEF KinInv, BundleCanonical
  <2>5. AllCarry(bundle'.rows) /\ AllCarry(bundle'.constraints)
    BY <1>1, <2>2, RequotedRows DEF KinInv
  <2>6. QED
    BY <2>4, <2>5 DEF KinInv
<1>7. CASE Send
  <2>1. bundle' = Sent(bundle)
    BY <1>1, <1>7, BundleSent DEF Send
  <2>2. /\ StructuralStamp(bundle') = StructuralStamp(bundle) /\ BundleCanonical(bundle')
        /\ bundle'.curves = bundle.curves
        /\ AllCarry(bundle.rows) /\ AllCarry(bundle.constraints) => KinBundle(bundle', bundle)
    BY <1>1, <2>1, BundleKin DEF KinInv
  <2>3. QED
    BY <2>2 DEF KinInv, KinBundle
<1>8. QED
  BY <1>4, <1>5, <1>6, <1>7 DEF Next

LEMMA OwnRowsParts ==
    ASSUME opened \in Sources
    PROVE  /\ IsRows(OwnRows) /\ AllCarry(OwnRows)
           /\ Len(opened.constraints) \in Nat /\ Len(SmoothingRows(opened)) \in Nat
           /\ Len(OwnRows) = Len(opened.constraints) + Len(SmoothingRows(opened))
           /\ \A i \in 1..Len(OwnRows) :
                IF i <= Len(opened.constraints) THEN OwnRows[i] = opened.constraints[i]
                ELSE /\ i - Len(opened.constraints) \in 1..Len(SmoothingRows(opened))
                     /\ OwnRows[i] = SmoothingRows(opened)[i - Len(opened.constraints)]
                     /\ OwnRows[i].coupons = << >>
<1> DEFINE y == opened.constraints
           z == SmoothingRows(opened)
           w == y \o z
<1>1. IsRows(y) /\ AllCarry(y) /\ IsList(y) /\ Len(y) \in Nat
  BY OpenedIsSource, LenOfList DEF IsRows
<1>2. IsRows(z) /\ AllCarry(z) /\ IsList(z) /\ Len(z) \in Nat /\ \A i \in 1..Len(z) : z[i].coupons = << >>
  BY NoCouponsInSmoothing, LenOfList DEF IsRows
<1>3. /\ Len(w) = Len(y) + Len(z) /\ IsList(w)
      /\ \A i \in 1..Len(y) : w[i] = y[i]
      /\ \A i \in 1..Len(z) : w[Len(y) + i] = z[i]
  BY <1>1, <1>2, JoinedLists
<1> HIDE DEF w, y, z
<1>4. \A i \in 1..Len(w) : IF i <= Len(y) THEN i \in 1..Len(y) /\ w[i] = y[i]
                           ELSE i - Len(y) \in 1..Len(z) /\ w[i] = z[i - Len(y)]
  BY <1>1, <1>2, <1>3
<1>5. \A i \in 1..Len(w) : IsRow(w[i]) /\ \A j \in 1..Len(w[i].coupons) : Carries(w[i].coupons[j])
  BY <1>1, <1>2, <1>4 DEF IsRows, AllCarry
<1>6. IsRows(w) /\ AllCarry(w)
  BY <1>3, <1>5 DEF IsRows, AllCarry
<1>7. QED
  BY <1>1, <1>2, <1>3, <1>4, <1>6 DEF OwnRows, OwnRowsOf, w, y, z

LEMMA PricedInit == Init => PricedInv
<1> SUFFICES ASSUME Init PROVE PricedInv
  OBVIOUS
<1>1. opened \in Sources /\ problem = Opened(opened, date, fixed)
  BY DEF Init
<1>2. /\ IsBundle(opened) /\ IsRows(opened.rows) /\ IsRows(opened.constraints)
      /\ RowsAlike(opened.rows, opened.rows) /\ RowsAlike(opened.constraints, opened.constraints)
  BY <1>1, OpenedIsSource DEF KinBundle
<1> DEFINE y == ResolvedRows(opened.constraints, date, fixed)
           z == SmoothingRows(opened)
           w == y \o z
<1>3. problem = [curves |-> opened.curves, rows |-> ResolvedRows(opened.rows, date, fixed), constraints |-> w]
  BY <1>1, <1>2, OpenedParts
<1>4. /\ RowsAlike(ResolvedRows(opened.rows, date, fixed), opened.rows)
      /\ RowsPriceAs(ResolvedRows(opened.rows, date, fixed), opened.rows, date, fixed)
      /\ RowsAlike(y, opened.constraints) /\ RowsPriceAs(y, opened.constraints, date, fixed)
  BY <1>2, AlikeRowsResolve
<1>5. IsList(y) /\ IsList(z) /\ Len(y) = Len(opened.constraints) /\ Len(y) \in Nat /\ Len(z) \in Nat
  <2>1. AllCarry(opened.constraints)
    BY <1>1, OpenedIsSource
  <2>2. IsRows(y) /\ IsRows(z)
    BY <1>1, <1>2, <2>1, RowsResolved, NoCouponsInSmoothing DEF SameRows
  <2>3. QED
    BY <1>4, <2>2, LenOfList DEF IsRows, RowsAlike
<1> HIDE DEF y, z, w
<1>6. /\ Len(w) = Len(y) + Len(z)
      /\ \A i \in 1..Len(y) : w[i] = y[i]
      /\ \A i \in 1..Len(z) : w[Len(y) + i] = z[i]
  <2>1. w = y \o z
    BY DEF w
  <2>2. /\ Len(y \o z) = Len(y) + Len(z) /\ IsList(y \o z)
        /\ \A i \in 1..Len(y) : (y \o z)[i] = y[i]
        /\ \A i \in 1..Len(z) : (y \o z)[Len(y) + i] = z[i]
    <3>1. IsList(y) /\ IsList(z)
      BY <1>5
    <3>2. QED
      BY <3>1, JoinedLists
  <2>3. QED
    BY <2>1, <2>2, Zenon
<1>7. /\ Len(OwnRows) = Len(w) /\ IsRows(OwnRows) /\ AllCarry(OwnRows)
      /\ \A i \in 1..Len(OwnRows) :
            IF i <= Len(y) THEN OwnRows[i] = opened.constraints[i]
            ELSE i - Len(y) \in 1..Len(z) /\ OwnRows[i] = z[i - Len(y)] /\ OwnRows[i].coupons = << >>
  BY <1>1, <1>5, <1>6, OwnRowsParts DEF z
<1>8. RowsAlike(OwnRows, OwnRows)
  BY <1>7, AlikeSelf
<1> HIDE DEF w
<1>9. \A i \in 1..Len(OwnRows) :
         IF i <= Len(y) THEN i \in 1..Len(y) /\ w[i] = y[i] /\ OwnRows[i] = opened.constraints[i]
                        ELSE w[i] = OwnRows[i] /\ OwnRows[i].coupons = << >>
  <2> SUFFICES ASSUME NEW i \in 1..Len(OwnRows)
               PROVE IF i <= Len(y) THEN i \in 1..Len(y) /\ w[i] = y[i] /\ OwnRows[i] = opened.constraints[i]
                        ELSE w[i] = OwnRows[i] /\ OwnRows[i].coupons = << >>
    OBVIOUS
  <2>1. CASE i <= Len(y)
    BY <1>5, <1>6, <1>7, <2>1
  <2>2. CASE ~(i <= Len(y))
    <3>1. i - Len(y) \in 1..Len(z) /\ i = Len(y) + (i - Len(y))
      BY <1>5, <1>7, <2>2
    <3>2. w[i] = z[i - Len(y)]
      BY <1>6, <3>1
    <3>3. QED
      BY <1>7, <2>2, <3>2
  <2>3. QED
    BY <2>1, <2>2
<1>10. RowsAlike(w, OwnRows)
  BY <1>4, <1>5, <1>7, <1>8, <1>9 DEF RowsAlike
<1>11. RowsPriceAs(w, OwnRows, date, fixed)
  <2> SUFFICES ASSUME NEW i \in 1..Len(OwnRows), NEW j \in 1..Len(OwnRows[i].coupons)
               PROVE  MeansAt(w[i].coupons[j], date, fixed)
                        = MeansAt(ResolveCoupon(OwnRows[i].coupons[j], date, fixed), date, fixed)
    BY DEF RowsPriceAs
  <2>1. i <= Len(y)
    BY <1>9
  <2>2. QED
    BY <1>4, <1>5, <1>9, <2>1 DEF RowsPriceAs
<1>12. \A i \in 1..Len(OwnRows) : i > Len(opened.constraints) => w[i] = OwnRows[i]
  BY <1>5, <1>9
<1>13. problem.curves = opened.curves /\ problem.constraints = w /\ problem.rows = ResolvedRows(opened.rows, date, fixed)
  BY <1>3 DEF w
<1>14. QED
  BY <1>4, <1>10, <1>11, <1>12, <1>13 DEF PricedInv

\* A schedule with the ends of another, read with the days between them its own, is that other.
LEMMA ReadScheduleIs ==
    ASSUME NEW s \in Seq([date : Int, from : Int, to : Int]), NEW own \in Seq([date : Int, from : Int, to : Int]),
           Len(s) = Len(own), s # << >> => Ends(s) = Ends(own)
    PROVE  ReadSchedule(s, own) = own
<1> DEFINE n == Len(own)
           d == ReadSchedule(s, own)
<1>1. n \in Nat /\ own = [i \in 1..n |-> own[i]]
  OBVIOUS
<1>2. d = [i \in 1..n |-> d[i]]
  BY DEF ReadSchedule
<1>3. ASSUME NEW i \in 1..n PROVE d[i] = own[i]
  <2>1. s # << >> /\ 1 \in 1..n /\ n \in 1..n
    BY <1>1
  <2>2. s[1].date = own[1].date /\ s[1].from = own[1].from /\ s[n].date = own[n].date /\ s[n].to = own[n].to
    BY <2>1 DEF Ends
  <2>3. d[i] = [date |-> own[i].date, from |-> own[i].from, to |-> own[i].to]
    BY <2>2 DEF ReadSchedule
  <2>4. own[i] \in [date : Int, from : Int, to : Int]
    <3>1. PICK D : D = [date : Int, from : Int, to : Int]
      OBVIOUS
    <3>2. own \in Seq(D) /\ i \in 1..Len(own)
      BY <3>1
    <3>3. own[i] \in D
      BY <3>2
    <3>4. QED
      BY <3>1, <3>3
  <2>5. QED
    BY <2>3, <2>4
<1> HIDE DEF n, d
<1>4. QED
  BY <1>1, <1>2, <1>3, Zenon DEF d

\* A coupon that stamps as another, read with the inside of a schedule alike, is alike it.
LEMMA ReadCouponIs ==
    ASSUME NEW c, NEW own, NEW o, IsCoupon(c), IsCoupon(own), IsCoupon(o), Alike(own, o),
           StampCoupon(c) = StampCoupon(o), Carries(c), Carries(o), NEW d, d = ReadCoupon(c, own)
    PROVE  IsCoupon(d) /\ Carries(d) /\ Alike(d, o)
<1>1. /\ c.pay = o.pay /\ EffStart(c) = EffStart(o) /\ EffEnd(c) = EffEnd(o)
      /\ c.resetFx = o.resetFx /\ c.fxFixing = o.fxFixing /\ StampObs(c.obs) = StampObs(o.obs)
  BY DEF StampCoupon
<1>2. ObsEqual(c.obs, o.obs)
  BY <1>1, ObsTwin DEF IsCoupon
<1>3. PICK t : t = o.obs.schedule
  OBVIOUS
<1>4. own.obs.schedule = t /\ t \in Seq([date : Int, from : Int, to : Int])
      /\ c.obs.schedule \in Seq([date : Int, from : Int, to : Int])
  BY <1>3 DEF Alike, IsCoupon, IsObs
<1>5. ReadSchedule(c.obs.schedule, own.obs.schedule) = t
  <2>1. Len(c.obs.schedule) = Len(t) /\ (c.obs.schedule # << >> => Ends(c.obs.schedule) = Ends(t))
    BY <1>2, <1>3 DEF ObsEqual
  <2>2. QED
    BY <1>4, <2>1, ReadScheduleIs
<1>6. d = [c EXCEPT !.obs = [@ EXCEPT !.schedule = t]]
  BY <1>5 DEF ReadCoupon
<1>7. PICK u : u = [c.obs EXCEPT !.schedule = t]
  OBVIOUS
<1>8. /\ u.subs = c.obs.subs /\ u.realized = c.obs.realized /\ u.terms = c.obs.terms /\ u.schedule = t
      /\ IsObs(u)
  <2>1. c.obs = [subs |-> c.obs.subs, realized |-> c.obs.realized, terms |-> c.obs.terms, index |-> c.obs.index,
                 schedule |-> c.obs.schedule, resolved |-> c.obs.resolved]
    BY DEF IsCoupon, IsObs
  <2>2. u = [subs |-> c.obs.subs, realized |-> c.obs.realized, terms |-> c.obs.terms, index |-> c.obs.index,
             schedule |-> t, resolved |-> c.obs.resolved]
    BY <1>7, <2>1
  <2>3. QED
    BY <1>4, <2>2 DEF IsObs
<1>9. d = [obs |-> u, pay |-> c.pay, accrual |-> c.accrual, resetFx |-> c.resetFx, fxFixing |-> c.fxFixing]
  <2>1. c = [obs |-> c.obs, pay |-> c.pay, accrual |-> c.accrual, resetFx |-> c.resetFx, fxFixing |-> c.fxFixing]
    BY DEF IsCoupon
  <2>2. d = [c EXCEPT !.obs = u]
    BY <1>6, <1>7
  <2>3. QED
    BY <2>1, <2>2
<1>10. /\ d.obs = u /\ d.pay = c.pay /\ d.accrual = c.accrual /\ d.resetFx = c.resetFx /\ d.fxFixing = c.fxFixing
       /\ IsCoupon(d)
  BY <1>8, <1>9 DEF IsCoupon
<1>11. EffStart(d) = EffStart(c) /\ EffEnd(d) = EffEnd(c)
  BY <1>8, <1>10 DEF EffStart, EffEnd
<1>12. /\ c.obs.terms = o.obs.terms
       /\ c.obs.schedule = << >> <=> t = << >>
       /\ t = << >> => c.obs.subs = o.obs.subs /\ c.obs.realized = o.obs.realized
  BY <1>2, <1>3, <1>4 DEF ObsEqual
<1>13. t # << >> => d.accrual # Unset /\ o.accrual # Unset
  BY <1>3, <1>10, <1>12 DEF Carries
<1>14. QED
  BY <1>1, <1>3, <1>8, <1>10, <1>11, <1>12, <1>13 DEF Alike, Carries

LEMMA ReadRowIs ==
    ASSUME NEW r, NEW own, NEW o, IsRow(r), IsRow(own), IsRow(o), RowAlike(own, o),
           StampRow(r) = StampRow(o), RowCarries(r), RowCarries(o), NEW d, d = ReadRow(r, own)
    PROVE  IsRow(d) /\ RowCarries(d) /\ RowAlike(d, o) /\ d.market = r.market /\ d.band = r.band
<1> DEFINE e == [j \in 1..Len(r.coupons) |-> ReadCoupon(r.coupons[j], own.coupons[j])]
<1>1. /\ r.kind = o.kind /\ r.terms = o.terms /\ r.spotTime = o.spotTime /\ r.state = o.state
      /\ Each(StampCoupon, r.coupons) = Each(StampCoupon, o.coupons)
  BY DEF StampRow
<1>2. /\ Len(r.coupons) \in Nat /\ Len(o.coupons) \in Nat /\ Len(own.coupons) = Len(o.coupons)
      /\ \A j \in 1..Len(r.coupons) : IsCoupon(r.coupons[j]) /\ Carries(r.coupons[j])
      /\ \A j \in 1..Len(o.coupons) : /\ IsCoupon(o.coupons[j]) /\ Carries(o.coupons[j])
                                      /\ IsCoupon(own.coupons[j]) /\ Alike(own.coupons[j], o.coupons[j])
  BY LenOfList DEF IsRow, RowCarries, RowAlike
<1>3. /\ Len(r.coupons) = Len(o.coupons)
      /\ \A j \in 1..Len(o.coupons) : StampCoupon(r.coupons[j]) = StampCoupon(o.coupons[j])
  <2>1. 1..Len(r.coupons) = 1..Len(o.coupons)
    BY <1>1 DEF Each
  <2>2. Len(r.coupons) = Len(o.coupons)
    BY <1>2, <2>1, SameLength
  <2>3. QED
    BY <1>1, <2>2 DEF Each
<1>4. \A j \in 1..Len(o.coupons) : IsCoupon(e[j]) /\ Carries(e[j]) /\ Alike(e[j], o.coupons[j])
  <2> SUFFICES ASSUME NEW j \in 1..Len(o.coupons) PROVE IsCoupon(e[j]) /\ Carries(e[j]) /\ Alike(e[j], o.coupons[j])
    OBVIOUS
  <2>1. e[j] = ReadCoupon(r.coupons[j], own.coupons[j])
    BY <1>3
  <2> HIDE DEF e
  <2>2. QED
    BY <1>2, <1>3, <2>1, ReadCouponIs
<1>5. e = [j \in 1..Len(r.coupons) |-> e[j]]
  OBVIOUS
<1>6. d = [r EXCEPT !.penalty = own.penalty, !.coupons = e]
  BY Zenon DEF ReadRow
<1> HIDE DEF e
<1>7. Len(e) = Len(o.coupons) /\ IsList(e)
  BY <1>2, <1>3, <1>5, FunctionIsList DEF IsList
<1>8. d = [kind |-> r.kind, terms |-> r.terms, coupons |-> e, spotTime |-> r.spotTime, state |-> r.state,
           market |-> r.market, band |-> r.band, penalty |-> own.penalty]
  <2>1. r = [kind |-> r.kind, terms |-> r.terms, coupons |-> r.coupons, spotTime |-> r.spotTime, state |-> r.state,
             market |-> r.market, band |-> r.band, penalty |-> r.penalty]
    BY DEF IsRow
  <2>2. QED
    BY <1>6, <2>1
<1>9. /\ d.kind = r.kind /\ d.terms = r.terms /\ d.coupons = e /\ d.spotTime = r.spotTime /\ d.state = r.state
      /\ d.market = r.market /\ d.band = r.band /\ d.penalty = own.penalty
      /\ d = [kind |-> d.kind, terms |-> d.terms, coupons |-> d.coupons, spotTime |-> d.spotTime, state |-> d.state,
              market |-> d.market, band |-> d.band, penalty |-> d.penalty]
  BY <1>8
<1>10. QED
  BY <1>1, <1>4, <1>7, <1>9 DEF IsRow, RowCarries, RowAlike

\* Rows that stamp alike.
StampTwins(s, t) == Each(StampRow, s) = Each(StampRow, t)

LEMMA ReadRowsAre ==
    ASSUME NEW s, NEW own, NEW t, IsRows(s), IsRows(t), AllCarry(s), AllCarry(t),
           \A i \in 1..Len(t) : IsRow(own[i]) /\ RowAlike(own[i], t[i]),
           StampTwins(s, t), NEW d, d = ReadRows(s, own)
    PROVE  /\ IsRows(d) /\ AllCarry(d) /\ RowsAlike(d, t) /\ Len(d) = Len(s) /\ Len(s) = Len(t)
           /\ \A i \in 1..Len(s) : d[i].market = s[i].market /\ d[i].band = s[i].band
<1>1. Len(s) \in Nat /\ Len(t) \in Nat
  BY LenOfList DEF IsRows
<1>2. Len(s) = Len(t) /\ \A i \in 1..Len(t) : StampRow(s[i]) = StampRow(t[i])
  <2>1. 1..Len(s) = 1..Len(t)
    BY DEF StampTwins, Each
  <2>2. Len(s) = Len(t)
    BY <1>1, <2>1, SameLength
  <2>3. QED
    BY <2>2 DEF StampTwins, Each
<1>3. d = [i \in 1..Len(s) |-> d[i]] /\ \A i \in 1..Len(s) : d[i] = ReadRow(s[i], own[i])
  BY DEF ReadRows
<1>4. Len(d) = Len(s) /\ IsList(d)
  BY <1>1, <1>3, FunctionIsList DEF IsList
<1>5. ASSUME NEW i \in 1..Len(t)
      PROVE  /\ IsRow(d[i]) /\ RowCarries(d[i]) /\ RowAlike(d[i], t[i])
             /\ d[i].market = s[i].market /\ d[i].band = s[i].band
  <2>1. IsRow(s[i]) /\ IsRow(t[i]) /\ RowCarries(s[i]) /\ RowCarries(t[i])
    BY <1>2 DEF IsRows, AllCarry, RowCarries
  <2>2. QED
    BY <1>2, <1>3, <2>1, ReadRowIs
<1>6. QED
  BY <1>2, <1>4, <1>5 DEF IsRows, AllCarry, RowCarries, RowsAlike

LEMMA ProblemRows ==
    ASSUME RebindInv
    PROVE  /\ IsRows(problem.rows) /\ IsRows(problem.constraints) /\ IsBundle(problem)
           /\ AllCarry(problem.rows) /\ AllCarry(problem.constraints)
           /\ IsRows(opened.rows) /\ IsRows(OwnRows) /\ AllCarry(OwnRows)
           /\ problem = [curves |-> problem.curves, rows |-> problem.rows, constraints |-> problem.constraints]
  BY OpenedIsSource, OwnRowsParts DEF RebindInv, IsBundle

\* A bundle that is taken stamps as the session's.
LEMMA TakenStamps ==
    ASSUME RebindInv, SameStructure(bundle) \/ SameStamp(carried)
    PROVE  StructuralStamp(bundle) = StructuralStamp(opened)
<1>1. CASE SameStamp(carried)
  BY <1>1 DEF SameStamp, RebindInv
<1>2. CASE SameStructure(bundle)
  <2>1. problem = [curves |-> problem.curves, rows |-> problem.rows, constraints |-> problem.constraints]
    BY DEF RebindInv, IsBundle
  <2>2. StructureEqual(problem, bundle, nSmoothing)
          <=> StructuralStamp(OwnPart(problem, nSmoothing)) = StructuralStamp(bundle)
    BY <2>1, StampIsTheWalk DEF RebindInv
  <2>3. QED
    BY <1>2, <2>2 DEF RebindInv, SameStructure
<1>3. QED
  BY <1>1, <1>2

\* A bundle that is taken is, as it is read, the session's own but for its quotes.
LEMMA ReadIsKin ==
    ASSUME RebindInv, KinInv, PricedInv, SameStructure(bundle) \/ SameStamp(carried), NEW b, b = Read(bundle)
    PROVE  /\ IsBundle(b) /\ KinBundle(b, opened)
           /\ Len(b.rows) = Len(bundle.rows) /\ Len(b.constraints) = Len(bundle.constraints)
           /\ \A i \in 1..Len(bundle.rows) : b.rows[i].market = bundle.rows[i].market /\ b.rows[i].band = bundle.rows[i].band
           /\ \A i \in 1..Len(bundle.constraints) : /\ b.constraints[i].market = bundle.constraints[i].market
                                                    /\ b.constraints[i].band = bundle.constraints[i].band
<1>1. PICK x, y, z : bundle = [curves |-> x, rows |-> y, constraints |-> z]
  BY Zenon DEF RebindInv, IsBundle
<1>2. IsList(x) /\ IsRows(y) /\ IsRows(z) /\ AllCarry(y) /\ AllCarry(z)
  BY <1>1 DEF RebindInv, KinInv, IsBundle
<1>3. PICK a, o, q : a = opened.curves /\ o = opened.rows /\ q = opened.constraints
  OBVIOUS
<1>4. opened \in Sources /\ IsList(a) /\ IsRows(o) /\ IsRows(q) /\ AllCarry(o) /\ AllCarry(q)
  BY <1>3, OpenedIsSource DEF RebindInv, IsBundle
<1>5. /\ Each(StampCurve, x) = Each(StampCurve, a)
      /\ StampTwins(y, o) /\ StampTwins(z, q)
  BY <1>1, <1>3, TakenStamps DEF StructuralStamp, StampTwins
<1>6. CurvesAlike(x, a)
  BY <1>2, <1>4, <1>5, CurvesTwin DEF AllEqual, CurveEqual, CurvesAlike
<1>7. PICK d, e : d = ReadRows(y, problem.rows) /\ e = ReadRows(z, problem.constraints)
  OBVIOUS
<1>8. b = [curves |-> x, rows |-> d, constraints |-> e]
  BY <1>1, <1>7 DEF Read
<1>9. /\ IsRows(d) /\ AllCarry(d) /\ RowsAlike(d, o) /\ Len(d) = Len(y)
      /\ \A i \in 1..Len(y) : d[i].market = y[i].market /\ d[i].band = y[i].band
  <2>1. \A i \in 1..Len(o) : IsRow(problem.rows[i]) /\ RowAlike(problem.rows[i], o[i])
    BY <1>3, ProblemRows DEF PricedInv, RowsAlike, IsRows
  <2>2. QED
    BY <1>2, <1>4, <1>5, <1>7, <2>1, ReadRowsAre
<1>10. /\ IsRows(e) /\ AllCarry(e) /\ RowsAlike(e, q) /\ Len(e) = Len(z)
       /\ \A i \in 1..Len(z) : e[i].market = z[i].market /\ e[i].band = z[i].band
  <2>1. \A i \in 1..Len(q) : IsRow(problem.constraints[i]) /\ RowAlike(problem.constraints[i], q[i])
    <3> SUFFICES ASSUME NEW i \in 1..Len(q) PROVE IsRow(problem.constraints[i]) /\ RowAlike(problem.constraints[i], q[i])
      OBVIOUS
    <3>1. i \in 1..Len(OwnRows) /\ OwnRows[i] = q[i]
      BY <1>3, <1>4, OwnRowsParts
    <3>2. QED
      BY <3>1, ProblemRows DEF PricedInv, RowsAlike, IsRows
  <2>2. QED
    <3>1. PICK w : w = problem.constraints
      OBVIOUS
    <3>2. /\ IsRows(z) /\ IsRows(q) /\ AllCarry(z) /\ AllCarry(q) /\ StampTwins(z, q)
          /\ \A i \in 1..Len(q) : IsRow(w[i]) /\ RowAlike(w[i], q[i])
          /\ e = ReadRows(z, w)
      BY <1>2, <1>4, <1>5, <1>7, <2>1, <3>1
    <3>3. QED
      BY <3>2, ReadRowsAre
<1>11. /\ bundle.rows = y /\ bundle.constraints = z /\ b.curves = x /\ b.rows = d /\ b.constraints = e
       /\ b = [curves |-> b.curves, rows |-> b.rows, constraints |-> b.constraints]
  BY <1>1, <1>8
<1>12. IsBundle(b)
  BY <1>2, <1>9, <1>10, <1>11 DEF IsBundle
<1>13. KinBundle(b, opened)
  BY <1>3, <1>6, <1>9, <1>10, <1>11 DEF KinBundle
<1>14. QED
  BY <1>9, <1>10, <1>11, <1>12, <1>13

\* What is landed of a bundle is what is landed of it as it is read.
LEMMA ReadLandsAlike ==
    ASSUME RebindInv, KinInv, PricedInv, SameStructure(bundle) \/ SameStamp(carried), NEW b, b = Read(bundle)
    PROVE  Rebound(bundle) = Rebound(b)
<1>1. /\ Len(b.rows) = Len(bundle.rows) /\ Len(b.constraints) = Len(bundle.constraints)
      /\ \A i \in 1..Len(bundle.rows) : b.rows[i].market = bundle.rows[i].market /\ b.rows[i].band = bundle.rows[i].band
      /\ \A i \in 1..Len(bundle.constraints) : /\ b.constraints[i].market = bundle.constraints[i].market
                                               /\ b.constraints[i].band = bundle.constraints[i].band
      /\ KinBundle(b, opened)
  BY ReadIsKin
<1>2. Len(problem.rows) = Len(bundle.rows) /\ Len(bundle.constraints) \in Nat
  BY <1>1, LenOfList DEF PricedInv, KinBundle, RowsAlike, RebindInv, IsBundle, IsRows
<1>3. PICK u, v : u = Rebound(bundle) /\ v = Rebound(b)
  OBVIOUS
<1>4. /\ u = [curves |-> problem.curves, rows |-> u.rows, constraints |-> u.constraints]
      /\ Requotes(u.rows, problem.rows) /\ Requotes(u.constraints, problem.constraints)
      /\ \A i \in 1..Len(problem.rows) : u.rows[i] = WithQuote(problem.rows[i], bundle.rows[i].market, bundle.rows[i].band)
      /\ \A i \in 1..Len(problem.constraints) :
            u.constraints[i] = IF i <= Len(bundle.constraints)
                               THEN WithQuote(problem.constraints[i], bundle.constraints[i].market, bundle.constraints[i].band)
                               ELSE problem.constraints[i]
  BY <1>3, ProblemRows, ReboundParts
<1>5. /\ v = [curves |-> problem.curves, rows |-> v.rows, constraints |-> v.constraints]
      /\ Requotes(v.rows, problem.rows) /\ Requotes(v.constraints, problem.constraints)
      /\ \A i \in 1..Len(problem.rows) : v.rows[i] = WithQuote(problem.rows[i], b.rows[i].market, b.rows[i].band)
      /\ \A i \in 1..Len(problem.constraints) :
            v.constraints[i] = IF i <= Len(b.constraints)
                               THEN WithQuote(problem.constraints[i], b.constraints[i].market, b.constraints[i].band)
                               ELSE problem.constraints[i]
  BY <1>3, ProblemRows, ReboundParts
<1>6. \A i \in 1..Len(problem.rows) : u.rows[i] = v.rows[i]
  BY <1>1, <1>2, <1>4, <1>5
<1>7. \A i \in 1..Len(problem.constraints) : u.constraints[i] = v.constraints[i]
  <2> SUFFICES ASSUME NEW i \in 1..Len(problem.constraints) PROVE u.constraints[i] = v.constraints[i]
    OBVIOUS
  <2>1. CASE i <= Len(bundle.constraints)
    <3>1. i \in 1..Len(bundle.constraints)
      BY <1>2, <2>1
    <3>2. QED
      BY <1>1, <1>4, <1>5, <2>1, <3>1
  <2>2. CASE ~(i <= Len(bundle.constraints))
    BY <1>1, <1>4, <1>5, <2>2
  <2>3. QED
    BY <2>1, <2>2
<1>8. u.rows = v.rows /\ u.constraints = v.constraints
  BY <1>4, <1>5, <1>6, <1>7 DEF Requotes
<1>9. QED
  BY <1>3, <1>4, <1>5, <1>8, Zenon

LEMMA PricedStep ==
    ASSUME RebindInv, KinInv, PricedInv, [Next]_vars
    PROVE  PricedInv'
<1>1. opened' = opened
  BY DEF Next, SetEvaluationDate, SetFixings, Edit, Requote, Send, MakeStamped, RebindBundle, RebindStamped, session, vars
<1>2. OwnRows' = OwnRows
  BY <1>1, Zenon DEF OwnRows
<1>3. ASSUME UNCHANGED <<problem, date, fixed>> PROVE PricedInv'
  BY <1>1, <1>2, <1>3 DEF PricedInv, RowsPriceAs
<1>4. CASE Edit \/ Requote \/ Send \/ MakeStamped \/ UNCHANGED vars
  BY <1>3, <1>4 DEF Edit, Requote, Send, MakeStamped, session, vars
<1>5. CASE SetEvaluationDate \/ SetFixings
  <2>1. problem' = Resolve(problem, date', fixed')
    BY <1>5 DEF SetEvaluationDate, SetFixings
  <2>2. problem' = [curves |-> problem.curves, rows |-> ResolvedRows(problem.rows, date', fixed'),
                    constraints |-> ResolvedRows(problem.constraints, date', fixed')]
    BY <2>1, ProblemRows, ResolvedParts
  <2>3. /\ problem'.curves = problem.curves
        /\ problem'.rows = ResolvedRows(problem.rows, date', fixed')
        /\ problem'.constraints = ResolvedRows(problem.constraints, date', fixed')
    BY <2>2
  <2>4. /\ RowsAlike(problem'.rows, opened.rows) /\ RowsPriceAs(problem'.rows, opened.rows, date', fixed')
        /\ RowsAlike(problem'.constraints, OwnRows) /\ RowsPriceAs(problem'.constraints, OwnRows, date', fixed')
    BY <2>3, ProblemRows, AlikeRowsResolve DEF PricedInv
  <2>5. \A i \in 1..Len(OwnRows) : /\ problem'.constraints[i].market = problem.constraints[i].market
                                   /\ problem'.constraints[i].band = problem.constraints[i].band
    <3>1. Len(problem.constraints) = Len(OwnRows)
      BY DEF PricedInv, RowsAlike
    <3>2. QED
      BY <2>3, <3>1, ProblemRows, ResolvedRowParts
  <2>6. QED
    BY <1>1, <1>2, <2>3, <2>4, <2>5 DEF PricedInv
<1>6. CASE RebindBundle \/ RebindStamped
  <2>0. UNCHANGED <<date, fixed>> /\ (problem' = problem \/ problem' = Rebound(bundle))
    BY <1>6 DEF RebindBundle, RebindStamped, RebindQuotes
  <2>1. CASE problem' = problem
    BY <1>3, <2>0, <2>1
  <2>2. CASE problem' = Rebound(bundle) /\ problem' # problem
    <3>1. SameStructure(bundle) \/ SameStamp(carried)
      BY <1>6, <2>2 DEF RebindBundle, RebindStamped
    <3>2. Len(bundle.constraints) = Len(opened.constraints)
      BY <3>1, ReadIsKin DEF KinBundle, RowsAlike
    <3>3. /\ problem'.curves = problem.curves
          /\ Requotes(problem'.rows, problem.rows) /\ Requotes(problem'.constraints, problem.constraints)
          /\ \A i \in 1..Len(problem.constraints) : i > Len(bundle.constraints) =>
                 problem'.constraints[i] = problem.constraints[i]
      <4>1. /\ Rebound(bundle) = [curves |-> problem.curves, rows |-> Rebound(bundle).rows,
                                 constraints |-> Rebound(bundle).constraints]
            /\ Requotes(Rebound(bundle).rows, problem.rows)
            /\ Requotes(Rebound(bundle).constraints, problem.constraints)
            /\ \A i \in 1..Len(problem.constraints) :
                  Rebound(bundle).constraints[i] =
                      IF i <= Len(bundle.constraints)
                      THEN WithQuote(problem.constraints[i], bundle.constraints[i].market, bundle.constraints[i].band)
                      ELSE problem.constraints[i]
        BY ProblemRows, ReboundParts
      <4>2. Len(bundle.constraints) \in Nat
        BY LenOfList DEF RebindInv, IsBundle, IsRows
      <4>3. Rebound(bundle).curves = problem.curves
        BY <4>1
      <4>4. QED
        BY <2>2, <4>1, <4>2, <4>3
    <3>4. /\ RowsAlike(problem'.rows, opened.rows) /\ RowsAlike(problem'.constraints, OwnRows)
      <4>1. RowsAlike(problem'.rows, problem.rows) /\ RowsAlike(problem'.constraints, problem.constraints)
        BY <3>3, ProblemRows, QuotesAlike
      <4>2. QED
        BY <4>1, AlikeTrans DEF PricedInv
    <3>5. /\ \A i \in 1..Len(problem.rows) : problem'.rows[i].coupons = problem.rows[i].coupons
          /\ \A i \in 1..Len(problem.constraints) : problem'.constraints[i].coupons = problem.constraints[i].coupons
      BY <3>3, ProblemRows, QuotedCoupons
    <3>6. /\ RowsPriceAs(problem'.rows, opened.rows, date, fixed)
          /\ RowsPriceAs(problem'.constraints, OwnRows, date, fixed)
      BY <3>5 DEF PricedInv, RowsAlike, RowsPriceAs
    <3>7. \A i \in 1..Len(OwnRows) : i > Len(opened.constraints) =>
             problem'.constraints[i].market = OwnRows[i].market /\ problem'.constraints[i].band = OwnRows[i].band
      BY <3>2, <3>3 DEF PricedInv, RowsAlike
    <3>8. problem'.curves = opened.curves
      BY <3>3 DEF PricedInv
    <3>9. QED
      BY <1>1, <1>2, <2>0, <3>4, <3>6, <3>7, <3>8 DEF PricedInv
  <2>3. QED
    BY <2>0, <2>1, <2>2
<1>7. QED
  BY <1>4, <1>5, <1>6 DEF Next

\* Alike curves are smoothed alike and mean the same.
LEMMA AlikeCurves ==
    ASSUME NEW s, NEW t, CurvesAlike(s, t)
    PROVE  SmoothingOf(s) = SmoothingOf(t) /\ Each(CurveMeans, s) = Each(CurveMeans, t)
<1>1. Len(s) = Len(t) /\ \A i \in 1..Len(t) : s[i].base = t[i].base /\ s[i].regions = t[i].regions /\ s[i].turns = t[i].turns
  BY DEF CurvesAlike
<1>2. \A i \in 1..Len(t) : SmoothingOfRegions(s[i].regions, i) = SmoothingOfRegions(t[i].regions, i)
  BY <1>1, Zenon
<1>3. [i \in 1..Len(s) |-> SmoothingOfRegions(s[i].regions, i)] = [i \in 1..Len(t) |-> SmoothingOfRegions(t[i].regions, i)]
  BY <1>1, <1>2
<1>4. SmoothingOf(s) = SmoothingOf(t)
  BY <1>3, Zenon DEF SmoothingOf
<1>5. \A i \in 1..Len(t) : CurveMeans(s[i]) = CurveMeans(t[i])
  BY <1>1, Zenon DEF CurveMeans
<1>6. [i \in 1..Len(s) |-> CurveMeans(s[i])] = [i \in 1..Len(t) |-> CurveMeans(t[i])]
  BY <1>1, <1>5
<1>7. QED
  BY <1>4, <1>6, Zenon DEF Each

\* What a rebind of a bundle of its own structure leaves in the session is what a session opened
\* with the bundle would price.
LEMMA RebindPrices ==
    ASSUME RebindInv, PricedInv, NEW b, IsBundle(b), KinBundle(b, opened)
    PROVE  Means(Rebound(b)) = Means(Opened(b, date, fixed))
<1> DEFINE x == Rebound(b)
           z == SmoothingRows(opened)
           w == ResolvedRows(b.constraints, date, fixed) \o z
           v == ResolvedRows(b.rows, date, fixed)
           u == ResolvedRows(b.constraints, date, fixed)
           n == Len(opened.constraints)
<1>1. KinBundle(b, opened)
  OBVIOUS
<1>2. /\ opened \in Sources /\ IsBundle(b) /\ IsRows(b.rows) /\ IsRows(b.constraints)
      /\ Len(b.constraints) \in Nat
  BY LenOfList DEF RebindInv, IsBundle, IsRows
<1>3. /\ x.curves = problem.curves
      /\ \A i \in 1..Len(problem.rows) : x.rows[i] = WithQuote(problem.rows[i], b.rows[i].market, b.rows[i].band)
      /\ \A i \in 1..Len(problem.constraints) :
             x.constraints[i] = IF i <= Len(b.constraints)
                                THEN WithQuote(problem.constraints[i], b.constraints[i].market, b.constraints[i].band)
                                ELSE problem.constraints[i]
      /\ Len(x.rows) = Len(problem.rows) /\ Len(x.constraints) = Len(problem.constraints)
  <2>1. /\ x = [curves |-> problem.curves, rows |-> x.rows, constraints |-> x.constraints]
        /\ Requotes(x.rows, problem.rows) /\ Requotes(x.constraints, problem.constraints)
        /\ \A i \in 1..Len(problem.rows) : x.rows[i] = WithQuote(problem.rows[i], b.rows[i].market, b.rows[i].band)
        /\ \A i \in 1..Len(problem.constraints) :
              x.constraints[i] = IF i <= Len(b.constraints)
                                 THEN WithQuote(problem.constraints[i], b.constraints[i].market, b.constraints[i].band)
                                 ELSE problem.constraints[i]
    BY ProblemRows, ReboundParts
  <2> HIDE DEF x
  <2>2. x.curves = problem.curves
    BY <2>1
  <2>3. Len(x.rows) = Len(problem.rows) /\ Len(x.constraints) = Len(problem.constraints)
    BY <2>1, ProblemRows, RequotedRows
  <2>4. QED
    BY <2>1, <2>2, <2>3
<1>4. Opened(b, date, fixed) = [curves |-> b.curves, rows |-> v, constraints |-> w]
  <2>1. SmoothingRows(b) = z
    <3>1. SmoothingOf(b.curves) = SmoothingOf(opened.curves)
      BY <1>1, AlikeCurves DEF KinBundle
    <3>2. QED
      BY <3>1, SmoothingIsOfCurves, Zenon
  <2>2. QED
    BY <1>2, <2>1, OpenedParts
<1>5. /\ Len(v) = Len(b.rows) /\ Len(u) = Len(b.constraints)
      /\ \A i \in 1..Len(b.rows) : v[i].market = b.rows[i].market /\ v[i].band = b.rows[i].band
      /\ \A i \in 1..Len(b.constraints) : /\ u[i].market = b.constraints[i].market
                                               /\ u[i].band = b.constraints[i].band
  BY <1>2, ResolvedRowParts
<1>6. /\ RowsAlike(v, opened.rows) /\ RowsPriceAs(v, opened.rows, date, fixed)
      /\ RowsAlike(u, opened.constraints) /\ RowsPriceAs(u, opened.constraints, date, fixed)
  <2>1. IsRows(opened.rows) /\ IsRows(opened.constraints)
    BY <1>2, OpenedIsSource
  <2>2. QED
    BY <1>1, <1>2, <2>1, AlikeRowsResolve DEF KinBundle
<1>7. /\ RowsAlike(problem.rows, opened.rows) /\ RowsPriceAs(problem.rows, opened.rows, date, fixed)
      /\ RowsAlike(problem.constraints, OwnRows) /\ RowsPriceAs(problem.constraints, OwnRows, date, fixed)
      /\ problem.curves = opened.curves /\ Each(CurveMeans, b.curves) = Each(CurveMeans, opened.curves)
      /\ Len(b.rows) = Len(opened.rows) /\ Len(b.constraints) = n
      /\ \A i \in 1..Len(OwnRows) : i > n => /\ problem.constraints[i].market = OwnRows[i].market
                                             /\ problem.constraints[i].band = OwnRows[i].band
  BY <1>1, AlikeCurves DEF PricedInv, KinBundle, RowsAlike
<1>8. /\ n \in Nat /\ Len(z) \in Nat /\ Len(OwnRows) = n + Len(z)
      /\ \A i \in 1..Len(OwnRows) :
            IF i <= n THEN OwnRows[i] = opened.constraints[i]
            ELSE i - n \in 1..Len(z) /\ OwnRows[i] = z[i - n] /\ OwnRows[i].coupons = << >>
  BY <1>2, OwnRowsParts
<1>9. /\ Len(w) = n + Len(z)
      /\ \A i \in 1..n : w[i] = u[i]
      /\ \A i \in 1..Len(z) : w[n + i] = z[i]
  <2>1. IsList(u) /\ IsList(z)
    <3>1. IsRows(z) /\ AllCarry(b.constraints)
      BY <1>1, <1>2, NoCouponsInSmoothing DEF KinBundle
    <3>2. IsRows(u)
      BY <1>2, <3>1, RowsResolved DEF SameRows
    <3>3. QED
      BY <3>1, <3>2 DEF IsRows
  <2>2. w = u \o z /\ Len(u) = n
    BY <1>5, <1>7
  <2> HIDE DEF w, u, z, n
  <2>3. /\ Len(u \o z) = Len(u) + Len(z) /\ IsList(u \o z)
        /\ \A i \in 1..Len(u) : (u \o z)[i] = u[i]
        /\ \A i \in 1..Len(z) : (u \o z)[Len(u) + i] = z[i]
    BY <2>1, JoinedLists
  <2>4. QED
    BY <2>2, <2>3
<1> HIDE DEF x, z, w, v, u, n
<1>10. ASSUME NEW r, NEW mk, NEW bd, NEW o, NEW q, RowAlike(r, q), RowAlike(o, q), o.market = mk, o.band = bd,
              \A j \in 1..Len(q.coupons) : MeansAt(r.coupons[j], date, fixed) = MeansAt(o.coupons[j], date, fixed)
       PROVE  RowMeans(WithQuote(r, mk, bd)) = RowMeans(o)
  <2>1. PICK d : d = WithQuote(r, mk, bd)
    OBVIOUS
  <2>2. /\ d.kind = r.kind /\ d.terms = r.terms /\ d.spotTime = r.spotTime /\ d.state = r.state
        /\ d.penalty = r.penalty /\ d.coupons = r.coupons /\ d.market = mk /\ d.band = bd
    BY <2>1 DEF WithQuote
  <2>3. RowMeans(d) = RowMeans(o)
    BY <1>10, <2>2, SameRowMeans DEF RowAlike
  <2>4. QED
    BY <2>1, <2>3
<1>11. Each(RowMeans, x.rows) = Each(RowMeans, v)
  <2>1. Len(x.rows) = Len(v) /\ Len(v) = Len(opened.rows) /\ Len(problem.rows) = Len(v)
    BY <1>3, <1>5, <1>7 DEF RowsAlike
  <2>2. ASSUME NEW i \in 1..Len(v) PROVE RowMeans(x.rows[i]) = RowMeans(v[i])
    <3>1. /\ RowAlike(problem.rows[i], opened.rows[i]) /\ RowAlike(v[i], opened.rows[i])
          /\ \A j \in 1..Len(opened.rows[i].coupons) :
                MeansAt(problem.rows[i].coupons[j], date, fixed) = MeansAt(v[i].coupons[j], date, fixed)
      BY <1>6, <1>7, <2>1 DEF RowsAlike, RowsPriceAs
    <3>2. /\ v[i].market = b.rows[i].market /\ v[i].band = b.rows[i].band
          /\ x.rows[i] = WithQuote(problem.rows[i], b.rows[i].market, b.rows[i].band)
      BY <1>3, <1>5, <2>1
    <3>3. QED
      BY <1>10, <3>1, <3>2
  <2>3. QED
    BY <2>1, <2>2, SameRowsMeans
<1>12. Each(RowMeans, x.constraints) = Each(RowMeans, w)
  <2>1. Len(x.constraints) = Len(w) /\ Len(w) = Len(OwnRows) /\ Len(problem.constraints) = Len(w)
    BY <1>3, <1>7, <1>8, <1>9 DEF RowsAlike
  <2>2. ASSUME NEW i \in 1..Len(w), i <= n PROVE RowMeans(x.constraints[i]) = RowMeans(w[i])
    <3>0. i \in 1..n /\ i \in 1..Len(OwnRows) /\ i \in 1..Len(b.constraints)
      BY <1>7, <1>8, <1>9, <2>1, <2>2
    <3>1. w[i] = u[i] /\ OwnRows[i] = opened.constraints[i]
      BY <1>8, <1>9, <2>2, <3>0
    <3>2. RowAlike(problem.constraints[i], opened.constraints[i]) /\ RowAlike(w[i], opened.constraints[i])
      BY <1>6, <1>7, <3>0, <3>1 DEF RowsAlike, n
    <3>3. \A j \in 1..Len(opened.constraints[i].coupons) :
             MeansAt(problem.constraints[i].coupons[j], date, fixed) = MeansAt(w[i].coupons[j], date, fixed)
      <4> SUFFICES ASSUME NEW j \in 1..Len(opened.constraints[i].coupons)
                   PROVE  MeansAt(problem.constraints[i].coupons[j], date, fixed) = MeansAt(w[i].coupons[j], date, fixed)
        OBVIOUS
      <4>1. MeansAt(problem.constraints[i].coupons[j], date, fixed)
              = MeansAt(ResolveCoupon(opened.constraints[i].coupons[j], date, fixed), date, fixed)
        <5>1. j \in 1..Len(OwnRows[i].coupons)
          BY <3>1
        <5>2. QED
          BY <1>7, <3>0, <3>1, <5>1 DEF RowsPriceAs
      <4>2. MeansAt(w[i].coupons[j], date, fixed)
              = MeansAt(ResolveCoupon(opened.constraints[i].coupons[j], date, fixed), date, fixed)
        BY <1>6, <3>0, <3>1 DEF RowsPriceAs, n
      <4>3. QED
        BY <4>1, <4>2
    <3>4. /\ w[i].market = b.constraints[i].market /\ w[i].band = b.constraints[i].band
      BY <1>5, <3>0, <3>1
    <3>5. x.constraints[i] = WithQuote(problem.constraints[i], b.constraints[i].market, b.constraints[i].band)
      BY <1>3, <1>7, <2>1, <2>2
    <3>6. QED
      BY <1>10, <3>2, <3>3, <3>4, <3>5
  <2>3. ASSUME NEW i \in 1..Len(w), ~(i <= n) PROVE RowMeans(x.constraints[i]) = RowMeans(w[i])
    <3>1. /\ i \in 1..Len(OwnRows) /\ i - n \in 1..Len(z) /\ i = n + (i - n) /\ i > n
      BY <1>8, <2>1, <2>3
    <3>2. w[i] = OwnRows[i] /\ OwnRows[i].coupons = << >>
      BY <1>8, <1>9, <2>3, <3>1
    <3>3. x.constraints[i] = problem.constraints[i]
      BY <1>3, <1>7, <2>1, <2>3
    <3>4. /\ RowAlike(problem.constraints[i], OwnRows[i])
          /\ problem.constraints[i].market = OwnRows[i].market /\ problem.constraints[i].band = OwnRows[i].band
      BY <1>7, <3>1 DEF RowsAlike
    <3>5. Len(OwnRows[i].coupons) = 0
      BY <3>2
    <3>6. RowMeans(problem.constraints[i]) = RowMeans(OwnRows[i])
      BY <3>4, <3>5, SameRowMeans DEF RowAlike
    <3>7. QED
      BY <3>2, <3>3, <3>6
  <2>4. QED
    BY <2>1, <2>2, <2>3, SameRowsMeans
<1>13. PICK y : y = Opened(b, date, fixed)
  OBVIOUS
<1>14. y.curves = b.curves /\ y.rows = v /\ y.constraints = w
  BY <1>4, <1>13
<1>15. Means(x) = Means(y)
  BY <1>3, <1>7, <1>11, <1>12, <1>14 DEF Means
<1>16. QED
  BY <1>13, <1>15 DEF x

\* A bundle that a rebind takes, however it was edited, is priced as a session opened with it
\* would price it but for the days inside its schedules and its penalty maps, which are the
\* session's (bundle_api.cpp rebind_quotes), if documents write their bundles in full.
THEOREM RebindsPriceTheBundle ==
    ASSUME WrittenInFull
    PROVE  Spec => []RebindPricesTheBundle
<1>1. Init => KinInv
  BY OpenedIsSource DEF Init, KinInv, WrittenInFull
<1>2. Init => RebindInv /\ KinInv /\ PricedInv
  BY <1>1, RebindInit, PricedInit
<1>3. RebindInv /\ KinInv /\ PricedInv /\ [Next]_vars => (RebindInv /\ KinInv /\ PricedInv)'
  BY RebindStep, KinStep, PricedStep
<1>4. RebindInv /\ KinInv /\ PricedInv => RebindPricesTheBundle
  <2> SUFFICES ASSUME RebindInv, KinInv, PricedInv, SameStructure(bundle) \/ SameStamp(carried)
               PROVE  Means(Rebound(bundle)) = Means(Opened(Read(bundle), date, fixed))
    BY DEF RebindPricesTheBundle
  <2>1. PICK b : b = Read(bundle)
    OBVIOUS
  <2>2. IsBundle(b) /\ KinBundle(b, opened) /\ Rebound(bundle) = Rebound(b)
    BY <2>1, ReadIsKin, ReadLandsAlike
  <2>3. Means(Rebound(b)) = Means(Opened(b, date, fixed))
    BY <2>2, RebindPrices
  <2>4. QED
    BY <2>1, <2>2, <2>3
<1>5. QED
  BY <1>2, <1>3, <1>4, PTL DEF Spec

\* The same rows over the wire price the same once resolved.
LEMMA SentRowsPrice ==
    ASSUME NEW s, IsRows(s), RowsCanonical(s), AllCarry(s),
           NEW d, d = ResolvedRows(SentRows(s), date, fixed), NEW e, e = ResolvedRows(s, date, fixed)
    PROVE  /\ IsRows(d) /\ IsRows(e) /\ Len(d) = Len(s) /\ Len(e) = Len(s)
           /\ \A i \in 1..Len(s) : RowMeans(d[i]) = RowMeans(e[i])
<1>1. /\ IsRows(SentRows(s)) /\ Len(SentRows(s)) = Len(s)
      /\ RowsAlike(SentRows(s), s) /\ AllCarry(SentRows(s)) /\ RowsAlike(s, s)
  BY RowsSent, RowsKin, AlikeSelf
<1>2. IsRows(d) /\ IsRows(e)
  BY <1>1, RowsResolved DEF SameRows
<1>3. /\ RowsAlike(d, s) /\ RowsPriceAs(d, s, date, fixed)
      /\ RowsAlike(e, s) /\ RowsPriceAs(e, s, date, fixed)
  BY <1>1, AlikeRowsResolve
<1>4. \A i \in 1..Len(s) : d[i].market = s[i].market /\ d[i].band = s[i].band
  <2>1. \A i \in 1..Len(s) : SentRows(s)[i].market = s[i].market /\ SentRows(s)[i].band = s[i].band
    BY DEF SentRows, SentRow
  <2>2. QED
    BY <1>1, <2>1, ResolvedRowParts
<1>5. \A i \in 1..Len(s) : e[i].market = s[i].market /\ e[i].band = s[i].band
  BY <1>1, ResolvedRowParts
<1>6. ASSUME NEW i \in 1..Len(s) PROVE RowMeans(d[i]) = RowMeans(e[i])
  <2>1. /\ RowAlike(d[i], s[i]) /\ RowAlike(e[i], s[i])
        /\ \A j \in 1..Len(s[i].coupons) : MeansAt(d[i].coupons[j], date, fixed) = MeansAt(e[i].coupons[j], date, fixed)
    BY <1>3 DEF RowsAlike, RowsPriceAs
  <2>2. d[i].market = e[i].market /\ d[i].band = e[i].band
    BY <1>4, <1>5
  <2>3. QED
    BY <2>1, <2>2, SameRowMeans DEF RowAlike
<1>7. QED
  BY <1>2, <1>3, <1>6 DEF RowsAlike

LEMMA ArrivedPrices ==
    ASSUME WrittenInFull, opened \in Sources
    PROVE  /\ IsBundle(Sent(opened)) /\ BundleFrom(BundleTo(opened)) = Sent(opened)
           /\ StructuralStamp(Sent(opened)) = StructuralStamp(opened)
           /\ Means(Opened(Sent(opened), date, fixed)) = Means(Opened(opened, date, fixed))
<1>1. /\ IsBundle(opened) /\ IsRows(opened.rows) /\ IsRows(opened.constraints)
      /\ AllCarry(opened.rows) /\ AllCarry(opened.constraints)
      /\ BundleCanonical(opened) /\ RowsCanonical(opened.rows) /\ RowsCanonical(opened.constraints)
  BY OpenedIsSource DEF WrittenInFull, BundleCanonical
<1>2. /\ BundleFrom(BundleTo(opened)) = Sent(opened) /\ IsBundle(Sent(opened))
      /\ StructuralStamp(Sent(opened)) = StructuralStamp(opened) /\ Sent(opened).curves = opened.curves
  BY <1>1, BundleSent, BundleKin
<1> DEFINE z == SmoothingRows(opened)
           d == ResolvedRows(SentRows(opened.rows), date, fixed)
           e == ResolvedRows(opened.rows, date, fixed)
           u == ResolvedRows(SentRows(opened.constraints), date, fixed)
           v == ResolvedRows(opened.constraints, date, fixed)
<1>3. Opened(Sent(opened), date, fixed) = [curves |-> opened.curves, rows |-> d, constraints |-> u \o z]
  <2>1. SmoothingRows(Sent(opened)) = z
    BY <1>2, SmoothingIsOfCurves, Zenon
  <2>2. Sent(opened).rows = SentRows(opened.rows) /\ Sent(opened).constraints = SentRows(opened.constraints)
    BY DEF Sent
  <2>3. QED
    BY <1>2, <2>1, <2>2, OpenedParts
<1>4. Opened(opened, date, fixed) = [curves |-> opened.curves, rows |-> e, constraints |-> v \o z]
  BY <1>1, OpenedParts
<1>5. /\ Len(d) = Len(e) /\ \A i \in 1..Len(e) : RowMeans(d[i]) = RowMeans(e[i])
      /\ IsRows(u) /\ IsRows(v) /\ Len(u) = Len(v) /\ \A i \in 1..Len(v) : RowMeans(u[i]) = RowMeans(v[i])
  BY <1>1, SentRowsPrice
<1>6. IsRows(z)
  BY NoCouponsInSmoothing
<1> HIDE DEF z, d, e, u, v
<1>7. Each(RowMeans, d) = Each(RowMeans, e)
  BY <1>5, SameRowsMeans
<1>8. Each(RowMeans, u \o z) = Each(RowMeans, v \o z)
  <2>1. IsList(u) /\ IsList(v) /\ IsList(z) /\ Len(v) \in Nat /\ Len(z) \in Nat
    BY <1>5, <1>6, LenOfList DEF IsRows
  <2>2. PICK a : a = u \o z
    OBVIOUS
  <2>3. PICK b : b = v \o z
    OBVIOUS
  <2>4. /\ Len(u \o z) = Len(u) + Len(z) /\ IsList(u \o z)
        /\ \A i \in 1..Len(u) : (u \o z)[i] = u[i]
        /\ \A i \in 1..Len(z) : (u \o z)[Len(u) + i] = z[i]
    <3>1. IsList(u) /\ IsList(z)
      BY <2>1
    <3>2. QED
      BY <3>1, JoinedLists
  <2>5. /\ Len(v \o z) = Len(v) + Len(z) /\ IsList(v \o z)
        /\ \A i \in 1..Len(v) : (v \o z)[i] = v[i]
        /\ \A i \in 1..Len(z) : (v \o z)[Len(v) + i] = z[i]
    <3>1. IsList(v) /\ IsList(z)
      BY <2>1
    <3>2. QED
      BY <3>1, JoinedLists
  <2>6. /\ Len(a) = Len(v) + Len(z) /\ Len(b) = Len(v) + Len(z)
        /\ \A i \in 1..Len(v) : a[i] = u[i] /\ b[i] = v[i]
        /\ \A i \in 1..Len(z) : a[Len(v) + i] = z[i] /\ b[Len(v) + i] = z[i]
    BY <1>5, <2>2, <2>3, <2>4, <2>5
  <2>7. ASSUME NEW i \in 1..Len(b) PROVE RowMeans(a[i]) = RowMeans(b[i])
    <3>1. CASE i \in 1..Len(v)
      BY <1>5, <2>6, <3>1
    <3>2. CASE i \notin 1..Len(v)
      <4>1. i - Len(v) \in 1..Len(z) /\ i = Len(v) + (i - Len(v))
        BY <2>1, <2>6, <3>2
      <4>2. a[i] = b[i]
        BY <2>6, <4>1
      <4>3. QED
        BY <4>2
    <3>3. QED
      BY <3>1, <3>2
  <2>8. QED
    BY <2>2, <2>3, <2>6, <2>7, SameRowsMeans
<1>9. PICK x : x = Opened(Sent(opened), date, fixed)
  OBVIOUS
<1>10. PICK y : y = Opened(opened, date, fixed)
  OBVIOUS
<1>11. /\ x.curves = opened.curves /\ x.rows = d /\ x.constraints = u \o z
       /\ y.curves = opened.curves /\ y.rows = e /\ y.constraints = v \o z
  BY <1>3, <1>4, <1>9, <1>10
<1>12. Means(x) = Means(y)
  BY <1>7, <1>8, <1>11 DEF Means
<1>13. QED
  BY <1>2, <1>9, <1>10, <1>12

\* A session takes its own bundle back, as it was and as its document reads it, whatever was
\* resolved and landed since, and one opened with the document prices the same
\* (api/codec.cpp to_json and from_json, bundle_api.cpp rebind).
THEOREM OwnDocumentComesBack ==
    ASSUME WrittenInFull
    PROVE  Spec => []OwnDocumentIsTaken
<1>1. ASSUME RebindInv PROVE OwnDocumentIsTaken
  <2>1. /\ opened \in Sources /\ stamp = StructuralStamp(opened) /\ IsBundle(OwnPart(problem, nSmoothing))
        /\ StructuralStamp(OwnPart(problem, nSmoothing)) = stamp
        /\ problem = [curves |-> problem.curves, rows |-> problem.rows, constraints |-> problem.constraints]
        /\ nSmoothing \in Nat
    BY <1>1 DEF RebindInv, IsBundle
  <2>2. ASSUME NEW p, IsBundle(p), StructuralStamp(p) = StructuralStamp(opened)
        PROVE  SameStructure(p) /\ SameStamp(StructuralStamp(p))
    <3>1. StructureEqual(problem, p, nSmoothing)
            <=> StructuralStamp(OwnPart(problem, nSmoothing)) = StructuralStamp(p)
      <4>1. IsBundle(OwnPart(problem, nSmoothing)) /\ IsBundle(p) /\ nSmoothing \in Nat
        BY <2>1, <2>2
      <4>2. problem = [curves |-> problem.curves, rows |-> problem.rows, constraints |-> problem.constraints]
        BY <2>1
      <4>3. QED
        BY <4>1, <4>2, StampIsTheWalk
    <3>2. QED
      BY <2>1, <2>2, <3>1, StampIsSet DEF SameStructure, SameStamp
  <2>3. IsBundle(opened)
    BY <2>1, OpenedIsSource
  <2>4. /\ IsBundle(Sent(opened)) /\ BundleFrom(BundleTo(opened)) = Sent(opened)
        /\ StructuralStamp(Sent(opened)) = StructuralStamp(opened)
        /\ Means(Opened(Sent(opened), date, fixed)) = Means(Opened(opened, date, fixed))
    BY <2>1, ArrivedPrices
  <2>5. \A p \in {opened, Sent(opened)} : SameStructure(p) /\ SameStamp(StructuralStamp(p))
    BY <2>2, <2>3, <2>4
  <2>6. QED
    BY <2>4, <2>5 DEF OwnDocumentIsTaken
<1>2. QED
  BY <1>1, RebindInit, RebindStep, PTL DEF Spec
==============================================================================
