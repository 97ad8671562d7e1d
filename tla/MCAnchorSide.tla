---------------------------- MODULE MCAnchorSide ----------------------------
(* Every band and every data map of up to kMaxBreaks breakpoints over a few values. *)
EXTENDS AnchorSide

Places(n) == {b \in [0..n-1 -> Values] : \A j \in 1..n-1 : b[j-1] < b[j]}

MapsOf(n, slopes) ==
    {[n |-> n, b |-> b, s |-> s] : b \in Places(n), s \in {s \in [0..n -> slopes] : \E i \in 0..n : s[i] > 0}}

AllDataMaps == UNION {MapsOf(n, {0, 1, 2}) : n \in 1..kMaxBreaks}
=============================================================================
