-------------------------------- MODULE Scalars --------------------------------
(***************************************************************************)
(* The numbers curves are built from (ad/dual.hpp): exact rationals in     *)
(* place of doubles, and the forward-mode dual every curve template is     *)
(* instantiated with, a value and a gradient.  A dual that no seed reached *)
(* has the empty gradient, as Eigen's AutoDiffScalar has: it is a double,  *)
(* and the double instantiation is the templates over such numbers.        *)
(*                                                                         *)
(* A rational is <<n, d>> in lowest terms, d > 0.                          *)
(***************************************************************************)
EXTENDS Integers, Sequences

LOCAL Gcd[a \in Nat, b \in Nat] == IF b = 0 THEN a ELSE Gcd[b, a % b]
LOCAL Magnitude(n) == IF n < 0 THEN -n ELSE n

\* n/d in lowest terms, g the greatest common divisor of both, and d > 0.
LOCAL Lowest(n, d, g) == <<n \div g, d \div g>>
Ratio(n, d) == IF d > 0 THEN Lowest(n, d, Gcd[Magnitude(n), d])
                        ELSE Lowest(-n, -d, Gcd[Magnitude(n), -d])

LOCAL SumOver(p, q, l) == Ratio(p[1] * (l \div p[2]) + q[1] * (l \div q[2]), l)
RatSum(p, q) == IF p[2] = q[2] THEN Ratio(p[1] + q[1], p[2])
                ELSE SumOver(p, q, p[2] * (q[2] \div Gcd[p[2], q[2]]))

\* The factors are cleared across the fraction first: the product is then in lowest terms.
LOCAL Cleared(p, q, g, h) == <<(p[1] \div g) * (q[1] \div h), (p[2] \div h) * (q[2] \div g)>>
RatTimes(p, q) == IF p[1] = 0 \/ q[1] = 0 THEN <<0, 1>>
                  ELSE Cleared(p, q, Gcd[Magnitude(p[1]), q[2]], Gcd[Magnitude(q[1]), p[2]])
RatOver(p, q) == RatTimes(p, IF q[1] > 0 THEN <<q[2], q[1]>> ELSE <<-q[2], -q[1]>>)
RatNegated(p) == <<-p[1], p[2]>>

-----------------------------------------------------------------------------
(* Duals. *)

\* The sequence of a function's values on 1..n.
Listed(f) == <<>> \o f

NoGradient == <<>>
IsConstant(s) == s.d = NoGradient

Constant(q) == [v |-> q, d |-> NoGradient]
Num(n) == Constant(<<n, 1>>)

\* p times f plus q times g: what every operation does to the gradients.
Blend(p, f, q, g) ==
    IF f = NoGradient /\ g = NoGradient THEN NoGradient
    ELSE IF g = NoGradient THEN Listed([k \in DOMAIN f |-> RatTimes(p, f[k])])
    ELSE IF f = NoGradient THEN Listed([k \in DOMAIN g |-> RatTimes(q, g[k])])
    ELSE Listed([k \in DOMAIN f |-> RatSum(RatTimes(p, f[k]), RatTimes(q, g[k]))])

\* A value seeded with the k-th of n unit derivatives.
Seeded(q, k, n) == [v |-> q, d |-> Listed([j \in 1..n |-> IF j = k THEN <<1, 1>> ELSE <<0, 1>>])]

\* What d s / d x_k is: zero where no seed reached s.
Slope(s, k) == IF IsConstant(s) THEN <<0, 1>> ELSE s.d[k]

Plus(a, b) == [v |-> RatSum(a.v, b.v), d |-> Blend(<<1, 1>>, a.d, <<1, 1>>, b.d)]
Minus(a, b) == [v |-> RatSum(a.v, RatNegated(b.v)), d |-> Blend(<<1, 1>>, a.d, <<-1, 1>>, b.d)]
Times(a, b) == [v |-> RatTimes(a.v, b.v), d |-> Blend(b.v, a.d, a.v, b.d)]
LOCAL Quotient(q, a, b) == [v |-> q, d |-> Blend(RatOver(<<1, 1>>, b.v), a.d,
                                                RatNegated(RatOver(q, b.v)), b.d)]
Over(a, b) == Quotient(RatOver(a.v, b.v), a, b)

\* Comparisons read the value and pick a branch; the branch's gradient rides along.
LOCAL Parted(p, q, g) == p[1] * (q[2] \div g) < q[1] * (p[2] \div g)
RatLess(p, q) == IF p[1] \div p[2] = q[1] \div q[2]
                 THEN Parted(<<p[1] % p[2], p[2]>>, <<q[1] % q[2], q[2]>>, Gcd[p[2], q[2]])
                 ELSE p[1] \div p[2] < q[1] \div q[2]
Less(a, b) == RatLess(a.v, b.v)
IsPositive(s) == s.v[1] > 0
IsNegative(s) == s.v[1] < 0
IsZero(s) == s.v[1] = 0
Least(a, b) == IF Less(b, a) THEN b ELSE a
Greatest(a, b) == IF Less(a, b) THEN b ELSE a
Unsigned(s) == IF IsNegative(s) THEN Times(Num(-1), s) ELSE s

a \oplus b == Plus(a, b)
a \ominus b == Minus(a, b)
a \otimes b == Times(a, b)
a \oslash b == Over(a, b)
a \prec b == Less(a, b)
a \preceq b == ~ Less(b, a)
=============================================================================
