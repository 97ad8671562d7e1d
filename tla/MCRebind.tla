------------------------------- MODULE MCRebind ------------------------------
(* Bundles for Rebind: one curve and a row or two, built or written by hand.   *)
EXTENDS Rebind

Day(d) == [date |-> d, from |-> d - 2, to |-> d - 1]

\* A coupon under way, a spot one, one with a shifted window and one whose FX has fixed.
Seasoned == [NewCoupon EXCEPT !.obs.schedule = <<Day(1), Day(2), Day(3)>>, !.obs.index = "ON", !.pay = 3, !.accrual = <<-1, 2>>]
Spot == [NewCoupon EXCEPT !.obs.subs = <<<<0, 2>>>>, !.pay = 3, !.accrual = <<0, 2>>]
Shifted == [Spot EXCEPT !.obs.subs = <<<<0, 1>>, <<1, 2>>>>, !.accrual = <<1, 3>>]
Reset == [Spot EXCEPT !.resetFx = 1, !.fxFixing = <<-1>>]

Row(cs) == [NewRow EXCEPT !.coupons = cs, !.market = 1]
Region(scheme, lambda) == [NewRegion EXCEPT !.scheme = scheme, !.knots = <<1, 2, 3>>, !.lambda = lambda, !.sigma = IF scheme = "Tension" THEN 2 ELSE 0]
Curve(regions) == [NewCurve EXCEPT !.regions = regions]
Bundle(regions, rows, constraints) == [curves |-> <<Curve(regions)>>, rows |-> rows, constraints |-> constraints]

Step == [NewRegion EXCEPT !.scheme = "Flat", !.knots = <<0>>]

MCBuilds == {Bundle(<<Region("Hermite", -1)>>, <<Row(<<Seasoned, Spot>>)>>, << >>),
             Bundle(<<Step, Region("Tension", 1)>>, <<Row(<<Shifted>>)>>, <<Row(<<Seasoned>>)>>),
             Bundle(<<Region("Hermite", 1), Step>>, <<[Row(<<Reset, Seasoned>>) EXCEPT !.spotTime = 1]>>, << >>)}

\* A sparse document of the old layout.
MCDocuments == {[curves |-> <<[meeting |-> <<1>>, back |-> <<2, 3>>]>>,
                 rows |-> <<[coupons |-> <<[obs |-> [subs |-> <<<<0, 2>>>>], pay |-> 3]>>]>>]}

MCQuotes == {[market |-> 2, band |-> <<1, 3>>], [market |-> 2, band |-> <<0, 1>>]}
=============================================================================
