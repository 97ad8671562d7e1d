------------------------------ MODULE CallProofs ------------------------------
(***************************************************************************)
(* The two parts of the engine that run to their end inside one call: the  *)
(* compiler of a specification and the driver of a calibration.  The first *)
(* part proves, for every specification, that the bundle stacks its curves *)
(* on their bases, that its rows are the quotes and read what is theirs,   *)
(* and that its meetings tile the time.  The second proves that the driver *)
(* keeps its promises for every problem, limit and grid: a calibration     *)
(* returns a point no worse than its seed, with the status of the solve    *)
(* that made it; the damping search never loses its root; and no solve     *)
(* evaluates past its limit.                                               *)
(***************************************************************************)
EXTENDS Compile, Lm, FiniteSetTheorems, WellFoundedInduction, TLAPS


----------------------------------------------------------------------------
(* Least and greatest, and functions defined one place at a time.           *)

LEMMA SetInduction ==
  ASSUME NEW P, 0 \in P, \A n \in Nat : n \in P => n + 1 \in P
  PROVE  Nat \subseteq P
<1> DEFINE T == Nat \ P
<1> SUFFICES ASSUME T # {}
             PROVE  FALSE
  OBVIOUS
<1>1. PICK n \in T : \A y \in T : ~ (<<y, n>> \in OpToRel(<, Nat))
  BY WFMin, NatLessThanWellFounded, Zenon
<1>2. n # 0 /\ n - 1 \in Nat
  OBVIOUS
<1>3. n - 1 \in T
  BY <1>2
<1>4. <<n-1, n>> \in OpToRel(<, Nat)
  BY <1>2 DEF OpToRel
<1>5. QED
  BY <1>1, <1>3, <1>4

\* A set of places has a least one.
LEMMA MinIn ==
  ASSUME NEW S \in SUBSET Nat, S # {}
  PROVE  Min(S) \in S /\ \A y \in S : Min(S) <= y
<1>1. PICK n \in S : \A y \in S : ~ (<<y, n>> \in OpToRel(<, Nat))
  BY WFMin, NatLessThanWellFounded, Zenon
<1>2. ASSUME NEW y \in S PROVE n <= y
  <2>1. n \in Nat /\ y \in Nat OBVIOUS
  <2>2. ~(y < n) BY <1>1, <2>1 DEF OpToRel
  <2> QED BY <2>1, <2>2
<1>3. \E e \in S : \A y \in S : e <= y
  BY <1>2
<1> QED BY Zenon, <1>3 DEF Min

\* A bounded set of places has a last one.
LEMMA MaxIn ==
  ASSUME NEW n \in Nat, NEW S \in SUBSET (1..n), S # {}
  PROVE  Max(S) \in S /\ \A y \in S : Max(S) >= y
<1> DEFINE T == {k \in Nat : n - k \in S}
<1>1. PICK s : s \in S
  OBVIOUS
<1>2. s \in 1..n
  BY <1>1
<1>3. n - s \in Nat /\ n - (n - s) = s
  BY <1>2
<1>4. n - s \in T
  BY <1>1, <1>3
<1>5. PICK k \in T : \A y \in T : ~ (<<y, k>> \in OpToRel(<, Nat))
  BY WFMin, NatLessThanWellFounded, <1>4, Zenon
<1>6. ASSUME NEW y \in S PROVE n - k >= y
  <2>1. y \in 1..n OBVIOUS
  <2>2. n - y \in Nat /\ n - (n - y) = y BY <2>1
  <2>3. n - y \in T BY <2>2
  <2>4. k \in Nat OBVIOUS
  <2>5. ~(n - y < k) BY <1>5, <2>2, <2>3, <2>4 DEF OpToRel
  <2> QED BY <2>1, <2>4, <2>5
<1>7. n - k \in S
  OBVIOUS
<1>8. \E e \in S : \A y \in S : e >= y
  <2> HIDE DEF T
  <2> QED BY Zenon, <1>6, <1>7
<1> QED BY Zenon, <1>8 DEF Max

\* A function's value at each place may be made from the one before it.
IsMade(f, n, s, op) == f = [k \in 0..n |-> IF k = 0 THEN s ELSE op[<<k, f[k-1]>>]]

LEMMA Made ==
  ASSUME NEW n \in Nat, NEW s, NEW op
  PROVE  \E f : IsMade(f, n, s, op)
<1> DEFINE P == {k \in Nat : \E f : IsMade(f, k, s, op)}
<1>1. 0 \in P
  <2> DEFINE h == [i \in 0..0 |-> s]
  <2>1. \A i \in 0..0 : i = 0 BY SMT
  <2>2. h = [i \in 0..0 |-> IF i = 0 THEN s ELSE op[<<i, h[i-1]>>]] BY Zenon, <2>1
  <2>3. 0 \in Nat OBVIOUS
  <2> HIDE DEF h
  <2> QED BY Zenon, <2>2, <2>3 DEF IsMade
<1>2. ASSUME NEW k \in Nat, k \in P PROVE k + 1 \in P
  <2>1. PICK h : h = [i \in 0..k |-> IF i = 0 THEN s ELSE op[<<i, h[i-1]>>]]
    BY Zenon, <1>2 DEF IsMade
  <2> DEFINE g == [i \in 0..k+1 |-> IF i = 0 THEN s ELSE op[<<i, h[i-1]>>]]
  <2>2. ASSUME NEW i \in 0..k+1, i # 0 PROVE g[i-1] = h[i-1]
    <3>1. i - 1 \in 0..k /\ i - 1 \in 0..k+1 BY SMT, <2>2
    <3>2. g[i-1] = IF i - 1 = 0 THEN s ELSE op[<<i - 1, h[(i-1)-1]>>] BY Zenon, <3>1
    <3>3. h[i-1] = IF i - 1 = 0 THEN s ELSE op[<<i - 1, h[(i-1)-1]>>] BY Zenon, <2>1, <3>1
    <3> QED BY Zenon, <3>2, <3>3
  <2>3. g = [i \in 0..k+1 |-> IF i = 0 THEN s ELSE op[<<i, g[i-1]>>]] BY Zenon, <2>2
  <2>4. k + 1 \in Nat OBVIOUS
  <2> HIDE DEF g
  <2> QED BY Zenon, <2>3, <2>4 DEF IsMade
<1>3. n \in P
  <2> HIDE DEF P
  <2> QED BY <1>1, <1>2, SetInduction
<1> QED BY Zenon, <1>3

\* What a function made in a set V is, at each place.
LEMMA MadeIn ==
  ASSUME NEW n \in Nat, NEW V, NEW s \in V, NEW op \in [(1..n) \X V -> V], NEW f, IsMade(f, n, s, op)
  PROVE  f[0] = s /\ \A k \in 0..n : f[k] \in V
<1>0. f = [k \in 0..n |-> IF k = 0 THEN s ELSE op[<<k, f[k-1]>>]]
  BY Zenon DEF IsMade
<1>1. f[0] = s
  <2>1. 0 \in 0..n OBVIOUS
  <2> QED BY Zenon, <1>0, <2>1
<1> DEFINE P == {k \in Nat : k \in 0..n => f[k] \in V}
<1>2. 0 \in P
  BY Zenon, <1>1, 0 \in Nat
<1>3. ASSUME NEW k \in Nat, k \in P PROVE k + 1 \in P
  <2>1. SUFFICES ASSUME k + 1 \in 0..n PROVE f[k+1] \in V
    BY k + 1 \in Nat
  <2>2. k \in 0..n /\ k + 1 \in 1..n /\ k + 1 # 0 /\ (k + 1) - 1 = k
    BY SMT, <2>1
  <2>3. f[k+1] = op[<<k+1, f[k]>>]
    BY Zenon, <1>0, <2>1, <2>2
  <2>4. f[k] \in V
    BY Zenon, <1>3, <2>2
  <2> QED BY Zenon, <2>2, <2>3, <2>4
<1>4. Nat \subseteq P
  <2> HIDE DEF P
  <2> QED BY Zenon, <1>2, <1>3, SetInduction
<1>5. ASSUME NEW k \in 0..n PROVE f[k] \in V
  <2>1. k \in Nat OBVIOUS
  <2> QED BY Zenon, <1>4, <2>1
<1> QED BY Zenon, <1>1, <1>5
----------------------------------------------------------------------------
(* The order of the curves.                                                 *)

N == Len(Docs)

LEMMA DocsTyped ==
  ASSUME spec \in Specs
  PROVE  Docs \in Seq(ToSet(Docs)) /\ N \in Nat /\ DOMAIN Docs = 1..N
<1>1. Docs \in Seq(ToSet(Docs))
  BY Zenon, SpecsAssumption DEF SpecsAssumption, Docs
<1> QED BY <1>1 DEF N

\* The document an id names has it, and an id of a document names one.
LEMMA NamedIs ==
  ASSUME spec \in Specs, NEW id
  PROVE  /\ Named(id) \in 0..N
         /\ Named(id) # 0 => Named(id) \in 1..N /\ Docs[Named(id)].id = id
         /\ \A p \in 1..N : Docs[p].id = id => Named(id) # 0
<1> DEFINE S == {p \in 1..N : Docs[p].id = id}
<1>1. N \in Nat /\ DOMAIN Docs = 1..N
  BY Zenon, DocsTyped
<1>2. Named(id) = IF S = {} THEN 0 ELSE Max(S)
  BY Zenon, <1>1 DEF Named
<1>3. CASE S = {}
  <2>1. 0 \in 0..N BY <1>1
  <2> QED BY Zenon, <1>2, <1>3, <2>1
<1>4. CASE S # {}
  <2>1. S \in SUBSET (1..N) OBVIOUS
  <2>2. Max(S) \in S
    <3> HIDE DEF S
    <3> QED BY Zenon, <1>1, <1>4, <2>1, MaxIn
  <2>3. Max(S) \in 1..N /\ Docs[Max(S)].id = id
    BY Zenon, <2>2
  <2>4. \A k \in 1..N : k # 0 /\ k \in 0..N BY <1>1
  <2> QED BY Zenon, <1>2, <1>4, <2>3, <2>4
<1> QED BY Zenon, <1>3, <1>4

\* A document that an id names is the one its own id names.
Canonical(q) == q \in 1..N /\ Named(Docs[q].id) = q

LEMMA NamedIsCanonical ==
  ASSUME spec \in Specs, NEW id, Named(id) # 0
  PROVE  Canonical(Named(id))
BY Zenon, NamedIs DEF Canonical

Below(q) == Named(Docs[q].base)
GoesOn(q) == HasBase(Docs[q]) /\ Below(q) # 0

\* A line from p: each document after the first is the base of the one before it.
IsLine(l, p) ==
  /\ l \in Seq(1..N) /\ Len(l) \in Nat /\ Len(l) >= 1 /\ l[1] = p
  /\ \A k \in 1..Len(l) : Canonical(l[k])
  /\ \A k \in 1..Len(l) - 1 : GoesOn(l[k]) /\ l[k+1] = Below(l[k])

Lines(p) == {l \in Seq(1..N) : IsLine(l, p)}
Up(l) == IF GoesOn(l[Len(l)]) THEN Append(l, Below(l[Len(l)])) ELSE l

LEMMA UpIs ==
  ASSUME spec \in Specs, NEW p, NEW l \in Lines(p)
  PROVE  /\ Up(l) \in Lines(p)
         /\ GoesOn(l[Len(l)]) => Len(Up(l)) = Len(l) + 1
         /\ ~GoesOn(l[Len(l)]) => Up(l) = l
<1>0. l \in Seq(1..N) /\ Len(l) \in Nat /\ Len(l) >= 1 /\ IsLine(l, p)
  BY Zenon DEF Lines, IsLine
<1>1. CASE ~GoesOn(l[Len(l)])
  BY Zenon, <1>1 DEF Up
<1>2. CASE GoesOn(l[Len(l)])
  <2> DEFINE b == Below(l[Len(l)])
             u == Append(l, b)
  <2>1. Up(l) = u BY Zenon, <1>2 DEF Up
  <2>2. Canonical(b) /\ b \in 1..N
    <3>1. b # 0 BY Zenon, <1>2 DEF GoesOn
    <3>2. Canonical(Named(Docs[l[Len(l)]].base)) BY Zenon, <3>1, NamedIsCanonical DEF Below
    <3> QED BY Zenon, <3>2 DEF Canonical, Below
  <2>3. b = Below(l[Len(l)]) OBVIOUS
  <2> HIDE DEF b
  <2>4. u \in Seq(1..N) /\ Len(u) = Len(l) + 1 /\ u[Len(l) + 1] = b /\ \A k \in 1..Len(l) : u[k] = l[k]
    BY <1>0, <2>2
  <2> HIDE DEF u
  <2>5. u[1] = p
    <3>1. 1 \in 1..Len(l) BY <1>0
    <3> QED BY Zenon, <2>4, <3>1, <1>0 DEF IsLine
  <2>6. ASSUME NEW k \in 1..Len(u) PROVE Canonical(u[k])
    <3>1. k \in 1..Len(l) \/ k = Len(l) + 1 BY <1>0, <2>4
    <3> QED BY Zenon, <3>1, <2>2, <2>4, <1>0 DEF IsLine
  <2>7. ASSUME NEW k \in 1..Len(u) - 1 PROVE GoesOn(u[k]) /\ u[k+1] = Below(u[k])
    <3>1. CASE k \in 1..Len(l) - 1
      <4>1. k \in 1..Len(l) /\ k + 1 \in 1..Len(l) BY <1>0, <3>1
      <4> QED BY Zenon, <2>4, <3>1, <4>1, <1>0 DEF IsLine
    <3>2. CASE k = Len(l)
      <4>1. k \in 1..Len(l) /\ k + 1 = Len(l) + 1 BY <1>0, <3>2
      <4> QED BY Zenon, <2>4, <3>2, <4>1, <1>2, <2>3
    <3>3. k \in 1..Len(l) - 1 \/ k = Len(l) BY <1>0, <2>4
    <3> QED BY Zenon, <3>1, <3>2, <3>3
  <2>8. Len(u) \in Nat /\ Len(u) >= 1 BY <1>0, <2>4
  <2>9. IsLine(u, p) BY Zenon, <2>4, <2>5, <2>6, <2>7, <2>8 DEF IsLine
  <2> QED BY Zenon, <1>2, <2>1, <2>4, <2>9 DEF Lines
<1> QED BY Zenon, <1>1, <1>2

\* A line that never turns back ends at a document without a base, or at one whose base is none.
LEMMA LineIs ==
  ASSUME spec \in Specs, NEW p, Canonical(p)
  PROVE  /\ Line(p) \in Lines(p)
         /\ ~Cyclic(Line(p)) => ~GoesOn(Line(p)[Len(Line(p))])
<1>0. N \in Nat /\ p \in 1..N
  BY Zenon, DocsTyped DEF Canonical
<1> DEFINE s == <<p>>
           V == Lines(p)
           op == [z \in (1..N) \X V |-> Up(z[2])]
           up == CHOOSE up : up = [n \in 0..N |-> IF n = 0 THEN s ELSE Up(up[n-1])]
<1>1. Line(p) = up[N]
  BY DEF Line, N, Up, GoesOn, Below, Last
<1>2. s \in V
  <2>1. s \in Seq(1..N) /\ Len(s) = 1 /\ s[1] = p BY <1>0
  <2>2. Len(s) \in Nat /\ Len(s) >= 1 /\ \A k \in 1..Len(s) - 1 : FALSE BY <2>1
  <2>3. \A k \in 1..Len(s) : k = 1 BY <2>1
  <2> HIDE DEF s
  <2> QED BY Zenon, <2>1, <2>2, <2>3 DEF Lines, IsLine
<1>3. \A z \in (1..N) \X V : Up(z[2]) \in V
  <2>1. \A z \in (1..N) \X V : z[2] \in V OBVIOUS
  <2> HIDE DEF V
  <2>2. \A l \in V : Up(l) \in V BY Zenon, UpIs DEF V
  <2> QED BY Zenon, <2>1, <2>2
<1>4. op \in [(1..N) \X V -> V]
  <2> HIDE DEF V
  <2> QED BY Zenon, <1>3
<1>5. PICK f : IsMade(f, N, s, op)
  <2> HIDE DEF s, op
  <2> QED BY Zenon, Made, <1>0
<1>6. f[0] = s /\ \A k \in 0..N : f[k] \in V
  <2> HIDE DEF s, op, V
  <2> QED BY Zenon, MadeIn, <1>0, <1>2, <1>4, <1>5
<1>7. \A k \in 1..N : k - 1 \in 0..N /\ k # 0 /\ k \in 0..N
  BY <1>0
<1>8. f = [n \in 0..N |-> IF n = 0 THEN s ELSE Up(f[n-1])]
  <2>1. f = [n \in 0..N |-> IF n = 0 THEN s ELSE op[<<n, f[n-1]>>]] BY Zenon, <1>5 DEF IsMade
  <2>2. ASSUME NEW n \in 0..N, n # 0 PROVE op[<<n, f[n-1]>>] = Up(f[n-1])
    <3>1. n \in 1..N /\ n - 1 \in 0..N BY <1>0, <2>2
    <3>2. f[n-1] \in V BY Zenon, <3>1, <1>6
    <3>3. <<n, f[n-1]>> \in (1..N) \X V BY <3>1, <3>2
    <3>4. <<n, f[n-1]>>[2] = f[n-1] OBVIOUS
    <3> HIDE DEF V
    <3> QED BY Zenon, <3>3, <3>4
  <2> HIDE DEF op, s
  <2> QED BY Zenon, <2>1, <2>2
<1>9. up = [n \in 0..N |-> IF n = 0 THEN s ELSE Up(up[n-1])]
  <2> HIDE DEF s
  <2> QED BY Zenon, <1>8
<1> HIDE DEF up
<1>10. up[0] = s /\ \A k \in 1..N : up[k] = Up(up[k-1])
  <2>1. 0 \in 0..N BY <1>0
  <2> HIDE DEF s
  <2> QED BY Zenon, <1>7, <1>9, <2>1
<1> DEFINE P == {k \in Nat : k \in 0..N =>
                    /\ up[k] \in V
                    /\ GoesOn(up[k][Len(up[k])]) => Len(up[k]) = k + 1}
<1>11. 0 \in P
  <2>1. Len(s) = 0 + 1 OBVIOUS
  <2> HIDE DEF s, V
  <2> QED BY Zenon, <1>2, <1>10, <2>1, 0 \in Nat
<1>12. ASSUME NEW k \in Nat, k \in P PROVE k + 1 \in P
  <2>1. SUFFICES ASSUME k + 1 \in 0..N
        PROVE  up[k+1] \in V /\ (GoesOn(up[k+1][Len(up[k+1])]) => Len(up[k+1]) = (k + 1) + 1)
    BY k + 1 \in Nat
  <2>2. k \in 0..N /\ k + 1 \in 1..N /\ (k + 1) - 1 = k BY <1>0, <2>1
  <2>3. PICK l : l = up[k] BY Zenon
  <2>4. PICK u : u = up[k+1] BY Zenon
  <2>5. l \in V /\ (GoesOn(l[Len(l)]) => Len(l) = k + 1) BY Zenon, <1>12, <2>2, <2>3
  <2>6. u = Up(l) BY Zenon, <1>10, <2>2, <2>3, <2>4
  <2>7. u \in V /\ (GoesOn(l[Len(l)]) => Len(u) = Len(l) + 1) /\ (~GoesOn(l[Len(l)]) => u = l)
    BY Zenon, <2>5, <2>6, UpIs
  <2>8. GoesOn(u[Len(u)]) => Len(u) = (k + 1) + 1
    <3>1. CASE GoesOn(l[Len(l)]) BY <2>5, <2>7, <3>1
    <3>2. CASE ~GoesOn(l[Len(l)]) BY Zenon, <2>7, <3>2
    <3> QED BY Zenon, <3>1, <3>2
  <2> HIDE DEF V
  <2> QED BY Zenon, <2>4, <2>7, <2>8
<1>13. N \in P
  <2> HIDE DEF P
  <2> QED BY <1>0, <1>11, <1>12, SetInduction
<1>14. PICK l : l = up[N]
  BY Zenon
<1>15. l \in V /\ (GoesOn(l[Len(l)]) => Len(l) = N + 1)
  <2>1. N \in 0..N BY <1>0
  <2> HIDE DEF V
  <2> QED BY Zenon, <1>13, <1>14, <2>1
<1>16. ASSUME ~Cyclic(l), GoesOn(l[Len(l)]) PROVE FALSE
  <2>1. l \in Seq(1..N) /\ Len(l) = N + 1 BY Zenon, <1>15, <1>16 DEF Lines
  <2>2. l \in [1..N+1 -> 1..N] /\ DOMAIN l = 1..N+1 BY <2>1, <1>0
  <2>3. IsFiniteSet(1..N+1) /\ Cardinality(1..N+1) = N + 1 /\ IsFiniteSet(1..N) /\ Cardinality(1..N) = N
    BY FS_Interval, <1>0
  <2>4. Cardinality(1..N) < Cardinality(1..N+1) BY <1>0, <2>3
  <2>5. \E h, k \in 1..N+1 : h # k /\ l[h] = l[k] BY Zenon, FS_PigeonHole, <2>2, <2>3, <2>4
  <2> QED BY Zenon, <1>16, <2>2, <2>5 DEF Cyclic, IsInjective
<1> QED BY Zenon, <1>1, <1>14, <1>15, <1>16

\* An order so far: no document twice, each after its base.
IsOrder(l) ==
  /\ l \in Seq(1..N) /\ Len(l) \in Nat /\ DOMAIN l = 1..Len(l) /\ ToSet(l) = {l[i] : i \in 1..Len(l)}
  /\ \A i, k \in 1..Len(l) : l[i] = l[k] => i = k
  /\ \A i \in 1..Len(l) : Canonical(l[i])
  /\ \A i \in 1..Len(l) : HasBase(Docs[l[i]]) => \E k \in 1..i-1 : l[k] = Below(l[i])

AllOrders == {l \in Seq(1..N) : IsOrder(l)}
With(s, q) == IF q \in ToSet(s) THEN s ELSE Append(s, q)
Grounded(s, q) == Canonical(q) /\ (HasBase(Docs[q]) => Below(q) \in ToSet(s))

\* A document whose base is in, added if it is not in.
LEMMA WithIs ==
  ASSUME spec \in Specs, NEW s, IsOrder(s), NEW q, Grounded(s, q)
  PROVE  IsOrder(With(s, q)) /\ ToSet(With(s, q)) = ToSet(s) \cup {q}
<1>1. CASE q \in ToSet(s)
  <2>1. With(s, q) = s BY Zenon, <1>1 DEF With
  <2> QED BY Zenon, <1>1, <2>1
<1>2. CASE q \notin ToSet(s)
  <2>0. s \in Seq(1..N) /\ Len(s) \in Nat /\ q \in 1..N /\ ToSet(s) = {s[i] : i \in 1..Len(s)}
    BY Zenon DEF IsOrder, Grounded, Canonical
  <2> DEFINE n == Len(s)
             u == Append(s, q)
  <2>1. With(s, q) = u BY Zenon, <1>2 DEF With
  <2>2. u \in Seq(1..N) /\ Len(u) = n + 1 /\ u[n+1] = q /\ (\A i \in 1..n : u[i] = s[i]) /\ DOMAIN u = 1..n+1
    BY <2>0
  <2>3. (\A i \in 1..n+1 : i \in 1..n \/ i = n + 1) /\ (\A i \in 1..n : i \in 1..n+1) /\ n + 1 \in 1..n+1 /\ n + 1 \in Nat
    BY <2>0
  <2>10. n + 1 - 1 = n
    BY <2>0
  <2>11. n \in Nat
    BY <2>0
  <2> HIDE DEF u, n
  <2>4. ToSet(u) = {u[i] : i \in 1..n+1}
    BY Zenon, <2>2 DEF ToSet
  <2>5. ToSet(u) = ToSet(s) \cup {q}
    <3>1. ToSet(s) = {s[i] : i \in 1..n} BY Zenon, <2>0 DEF n
    <3>2. ASSUME NEW e \in ToSet(u) PROVE e \in ToSet(s) \cup {q} BY Zenon, <2>2, <2>3, <2>4, <3>1
    <3>3. ASSUME NEW e \in ToSet(s) PROVE e \in ToSet(u)
      <4>1. PICK i \in 1..n : e = s[i] BY Zenon, <3>1
      <4> QED BY Zenon, <2>2, <2>3, <2>4, <4>1
    <3>4. q \in ToSet(u) BY Zenon, <2>2, <2>3, <2>4
    <3> QED BY Zenon, <3>2, <3>3, <3>4
  <2>6. ASSUME NEW i \in 1..n+1, NEW k \in 1..n+1, u[i] = u[k] PROVE i = k
    <3>1. ASSUME NEW h \in 1..n PROVE s[h] # q BY Zenon, <1>2, <2>0 DEF n
    <3>2. CASE i \in 1..n /\ k \in 1..n
      BY Zenon, <2>2, <2>6, <3>2 DEF IsOrder, n
    <3> QED BY Zenon, <2>2, <2>3, <2>6, <3>1, <3>2
  <2>7. ASSUME NEW i \in 1..n+1 PROVE Canonical(u[i])
    <3>1. CASE i \in 1..n BY Zenon, <2>2, <3>1 DEF IsOrder, n
    <3>2. CASE i = n + 1 BY Zenon, <2>2, <3>2 DEF Grounded
    <3> QED BY Zenon, <2>3, <3>1, <3>2
  <2>8. ASSUME NEW i \in 1..n+1, HasBase(Docs[u[i]]) PROVE \E k \in 1..i-1 : u[k] = Below(u[i])
    <3>1. CASE i \in 1..n
      <4>1. u[i] = s[i] BY Zenon, <2>2, <3>1
      <4>2. \E k \in 1..i-1 : s[k] = Below(s[i]) BY Zenon, <2>8, <3>1, <4>1 DEF IsOrder, n
      <4>3. PICK k \in 1..i-1 : s[k] = Below(s[i]) BY Zenon, <4>2
      <4>4. k \in 1..n BY <2>0, <3>1 DEF n
      <4> QED BY Zenon, <2>2, <4>1, <4>3, <4>4
    <3>2. CASE i = n + 1
      <4>1. u[i] = q BY Zenon, <2>2, <3>2
      <4>2. Below(q) \in ToSet(s) BY Zenon, <2>8, <4>1 DEF Grounded
      <4>3. PICK k \in 1..n : s[k] = Below(q) BY Zenon, <2>0, <4>2 DEF n
      <4>4. i - 1 = n BY <2>11, <3>2
      <4>5. k \in 1..i-1 BY Zenon, <4>3, <4>4
      <4> QED BY Zenon, <2>2, <4>1, <4>3, <4>5
    <3> QED BY Zenon, <2>3, <3>1, <3>2
  <2>9. IsOrder(u)
    BY Zenon, <2>2, <2>3, <2>4, <2>6, <2>7, <2>8 DEF IsOrder
  <2> QED BY Zenon, <2>1, <2>5, <2>9
<1> QED BY Zenon, <1>1, <1>2

\* A line that ends at a document without a base leaves an order with all its documents in.
LEMMA BroughtIs ==
  ASSUME spec \in Specs, NEW l, IsOrder(l), NEW p, NEW line \in Lines(p), ~HasBase(Docs[line[Len(line)]])
  PROVE  IsOrder(Brought(l, line)) /\ ToSet(l) \cup {p} \subseteq ToSet(Brought(l, line))
<1>0. Len(line) \in Nat /\ Len(line) >= 1 /\ line[1] = p
  BY Zenon DEF Lines, IsLine
<1> DEFINE n == Len(line)
           op == [z \in (1..n) \X Seq(1..N) |-> With(z[2], line[n - z[1] + 1])]
           from == CHOOSE from : from = [k \in 0..n |-> IF k = 0 THEN l ELSE With(from[k-1], line[n - k + 1])]
<1>1. Brought(l, line) = from[n]
  BY DEF Brought, With
<1>2. l \in Seq(1..N)
  BY Zenon DEF IsOrder
<1>3. ASSUME NEW k \in 1..n, NEW s \in Seq(1..N) PROVE With(s, line[n-k+1]) \in Seq(1..N)
  <2>1. n - k + 1 \in 1..n BY <1>0
  <2>2. line[n-k+1] \in 1..N BY Zenon, <2>1 DEF Lines, IsLine, Canonical
  <2>3. PICK q : q = line[n-k+1] BY Zenon
  <2>4. Append(s, q) \in Seq(1..N) BY <2>2, <2>3
  <2> QED BY Zenon, <2>3, <2>4 DEF With
<1>4. op \in [(1..n) \X Seq(1..N) -> Seq(1..N)]
  <2>1. ASSUME NEW z \in (1..n) \X Seq(1..N) PROVE With(z[2], line[n - z[1] + 1]) \in Seq(1..N)
    <3>1. z[1] \in 1..n /\ z[2] \in Seq(1..N) OBVIOUS
    <3> HIDE DEF n
    <3> QED BY Zenon, <1>3, <3>1
  <2> HIDE DEF n
  <2> QED BY Zenon, <2>1
<1>5. PICK f : IsMade(f, n, l, op)
  <2> HIDE DEF op
  <2> QED BY Zenon, Made, <1>0
<1>6. f[0] = l /\ \A k \in 0..n : f[k] \in Seq(1..N)
  <2> HIDE DEF op
  <2> QED BY Zenon, MadeIn, <1>0, <1>2, <1>4, <1>5
<1>7. \A k \in 1..n : k - 1 \in 0..n /\ k # 0 /\ k \in 0..n
  BY <1>0
<1>8. f = [k \in 0..n |-> IF k = 0 THEN l ELSE With(f[k-1], line[n - k + 1])]
  <2>1. f = [k \in 0..n |-> IF k = 0 THEN l ELSE op[<<k, f[k-1]>>]] BY Zenon, <1>5 DEF IsMade
  <2>2. ASSUME NEW k \in 0..n, k # 0 PROVE op[<<k, f[k-1]>>] = With(f[k-1], line[n - k + 1])
    <3>1. k \in 1..n /\ k - 1 \in 0..n BY <1>0, <2>2
    <3>2. f[k-1] \in Seq(1..N) BY Zenon, <3>1, <1>6
    <3>3. <<k, f[k-1]>> \in (1..n) \X Seq(1..N) BY <3>1, <3>2
    <3>4. <<k, f[k-1]>>[1] = k /\ <<k, f[k-1]>>[2] = f[k-1] OBVIOUS
    <3> HIDE DEF n
    <3> QED BY Zenon, <3>3, <3>4
  <2> HIDE DEF op, n
  <2> QED BY Zenon, <2>1, <2>2
<1>9. from = [k \in 0..n |-> IF k = 0 THEN l ELSE With(from[k-1], line[n - k + 1])]
  <2> HIDE DEF n
  <2> QED BY Zenon, <1>8
<1> HIDE DEF from
<1>10. from[0] = l /\ \A k \in 1..n : from[k] = With(from[k-1], line[n - k + 1])
  <2>1. 0 \in 0..n BY <1>0
  <2> HIDE DEF n
  <2> QED BY Zenon, <1>7, <1>9, <2>1
<1> DEFINE P == {k \in Nat : k \in 0..n =>
                    /\ IsOrder(from[k]) /\ ToSet(l) \subseteq ToSet(from[k])
                    /\ k # 0 => line[n - k + 1] \in ToSet(from[k])}
<1>11. 0 \in P
  <2> HIDE DEF n
  <2> QED BY Zenon, <1>10, 0 \in Nat
<1>12. ASSUME NEW k \in Nat, k \in P PROVE k + 1 \in P
  <2>1. SUFFICES ASSUME k + 1 \in 0..n
        PROVE  /\ IsOrder(from[k+1]) /\ ToSet(l) \subseteq ToSet(from[k+1])
               /\ line[n - (k + 1) + 1] \in ToSet(from[k+1])
    BY k + 1 \in Nat
  <2>2. k \in 0..n /\ k + 1 \in 1..n /\ (k + 1) - 1 = k /\ n - (k + 1) + 1 \in 1..n BY <1>0, <2>1
  <2>3. PICK s : s = from[k] BY Zenon
  <2>4. PICK j : j = n - (k + 1) + 1 BY Zenon
  <2>5. PICK q : q = line[j] BY Zenon
  <2>6. IsOrder(s) /\ ToSet(l) \subseteq ToSet(s) /\ (k # 0 => line[n - k + 1] \in ToSet(s))
    BY Zenon, <1>12, <2>2, <2>3
  <2>7. from[k+1] = With(s, q) BY Zenon, <1>10, <2>2, <2>3, <2>4, <2>5
  <2>8. Canonical(q) BY Zenon, <2>2, <2>4, <2>5 DEF Lines, IsLine
  <2>9. HasBase(Docs[q]) => Below(q) \in ToSet(s)
    <3>1. CASE k = 0
      <4>1. j = n BY <1>0, <2>4, <3>1
      <4>2. ~HasBase(Docs[q]) BY Zenon, <2>5, <4>1
      <4> QED BY Zenon, <4>2
    <3>2. CASE k # 0
      <4>1. j \in 1..n - 1 /\ j + 1 = n - k + 1 BY <1>0, <2>2, <2>4, <3>2
      <4>2. line[j+1] = Below(line[j]) BY Zenon, <4>1 DEF Lines, IsLine
      <4> QED BY Zenon, <2>5, <2>6, <3>2, <4>1, <4>2
    <3> QED BY Zenon, <3>1, <3>2
  <2>10. Grounded(s, q) BY Zenon, <2>8, <2>9 DEF Grounded
  <2>11. IsOrder(With(s, q)) /\ ToSet(With(s, q)) = ToSet(s) \cup {q} BY Zenon, <2>6, <2>10, WithIs
  <2> QED BY Zenon, <2>4, <2>5, <2>6, <2>7, <2>11
<1>13. n \in P
  <2> HIDE DEF P
  <2> QED BY <1>0, <1>11, <1>12, SetInduction
<1>14. n \in 0..n /\ n # 0 /\ n - n + 1 = 1
  BY <1>0
<1>15. IsOrder(from[n]) /\ ToSet(l) \subseteq ToSet(from[n]) /\ p \in ToSet(from[n])
  <2> HIDE DEF n
  <2> QED BY Zenon, <1>0, <1>13, <1>14
<1> QED BY Zenon, <1>1, <1>15

\* No document is on a line that turns back, or that ends at a base there is none of.
Sound == \A p \in DOMAIN Docs : ~Cyclic(Line(Named(Docs[p].id))) /\ ~Dangling(Line(Named(Docs[p].id)))

\* Every document's id is in the order, after its base.
LEMMA CurveOrderIs ==
  ASSUME spec \in Specs, Sound
  PROVE  IsOrder(CurveOrder) /\ \A p \in 1..N : Named(Docs[p].id) \in ToSet(CurveOrder)
<1>0. N \in Nat /\ DOMAIN Docs = 1..N
  BY Zenon, DocsTyped
<1> DEFINE s == << >>
           Add(l, p) == Brought(l, Line(Named(Docs[p].id)))
           V == AllOrders
           op == [z \in (1..N) \X V |-> Add(z[2], z[1])]
           upTo == CHOOSE upTo : upTo = [p \in 0..N |-> IF p = 0 THEN s ELSE Add(upTo[p-1], p)]
<1>1. CurveOrder = upTo[N]
  BY DEF CurveOrder, N
<1>2. s \in V
  <2>1. s \in Seq(1..N) /\ Len(s) = 0 /\ DOMAIN s = 1..Len(s) BY SMT
  <2>2. \A i \in 1..0 : FALSE BY SMT
  <2>3. ToSet(s) = {s[i] : i \in 1..Len(s)} BY Zenon, <2>1 DEF ToSet
  <2>4. 0 \in Nat OBVIOUS
  <2> HIDE DEF s
  <2> QED BY Zenon, <2>1, <2>2, <2>3, <2>4 DEF AllOrders, IsOrder
<1>3. ASSUME NEW p \in 1..N, NEW l \in V
      PROVE  Add(l, p) \in V /\ ToSet(l) \cup {Named(Docs[p].id)} \subseteq ToSet(Add(l, p))
  <2>1. PICK q : q = Named(Docs[p].id) BY Zenon
  <2>2. PICK line : line = Line(q) BY Zenon
  <2>3. q # 0 BY Zenon, <2>1, NamedIs
  <2>4. Canonical(q) BY Zenon, <2>1, <2>3, NamedIsCanonical
  <2>5. ~Cyclic(line) /\ ~Dangling(line) BY Zenon, <1>0, <2>1, <2>2 DEF Sound
  <2>6. line \in Lines(q) /\ ~GoesOn(line[Len(line)]) BY Zenon, <2>2, <2>4, <2>5, LineIs
  <2>7. Len(line) \in DOMAIN line
    <3>1. line \in Seq(1..N) /\ Len(line) >= 1 /\ Len(line) \in Nat BY Zenon, <2>6 DEF Lines, IsLine
    <3> QED BY <3>1
  <2>8. ~HasBase(Docs[line[Len(line)]]) BY Zenon, <2>5, <2>6, <2>7 DEF Dangling, GoesOn, Below
  <2>9. IsOrder(l) BY Zenon DEF AllOrders
  <2>10. IsOrder(Brought(l, line)) /\ ToSet(l) \cup {q} \subseteq ToSet(Brought(l, line))
    BY Zenon, <2>6, <2>8, <2>9, BroughtIs
  <2>11. Brought(l, line) \in AllOrders BY Zenon, <2>10 DEF AllOrders, IsOrder
  <2> QED BY Zenon, <2>1, <2>2, <2>10, <2>11
<1>4. op \in [(1..N) \X V -> V]
  <2>1. ASSUME NEW z \in (1..N) \X V PROVE Add(z[2], z[1]) \in V
    <3>1. z[1] \in 1..N /\ z[2] \in V OBVIOUS
    <3> HIDE DEF Add, V
    <3> QED BY Zenon, <1>3, <3>1
  <2> HIDE DEF Add, V
  <2> QED BY Zenon, <2>1
<1>5. PICK f : IsMade(f, N, s, op)
  <2> HIDE DEF op, s
  <2> QED BY Zenon, Made, <1>0
<1>6. f[0] = s /\ \A k \in 0..N : f[k] \in V
  <2> HIDE DEF op, s, V
  <2> QED BY Zenon, MadeIn, <1>0, <1>2, <1>4, <1>5
<1>7. \A k \in 1..N : k - 1 \in 0..N /\ k # 0 /\ k \in 0..N
  BY <1>0
<1>8. f = [p \in 0..N |-> IF p = 0 THEN s ELSE Add(f[p-1], p)]
  <2>1. f = [k \in 0..N |-> IF k = 0 THEN s ELSE op[<<k, f[k-1]>>]] BY Zenon, <1>5 DEF IsMade
  <2>2. ASSUME NEW k \in 0..N, k # 0 PROVE op[<<k, f[k-1]>>] = Add(f[k-1], k)
    <3>1. k \in 1..N /\ k - 1 \in 0..N BY <1>0, <2>2
    <3>2. f[k-1] \in V BY Zenon, <3>1, <1>6
    <3>3. <<k, f[k-1]>> \in (1..N) \X V BY <3>1, <3>2
    <3>4. <<k, f[k-1]>>[1] = k /\ <<k, f[k-1]>>[2] = f[k-1] OBVIOUS
    <3> HIDE DEF Add, V
    <3> QED BY Zenon, <3>3, <3>4
  <2> HIDE DEF op, s, Add
  <2> QED BY Zenon, <2>1, <2>2
<1>9. upTo = [p \in 0..N |-> IF p = 0 THEN s ELSE Add(upTo[p-1], p)]
  <2> HIDE DEF s, Add
  <2> QED BY Zenon, <1>8
<1> HIDE DEF upTo
<1>10. upTo[0] = s /\ \A p \in 1..N : upTo[p] = Add(upTo[p-1], p)
  <2>1. 0 \in 0..N BY <1>0
  <2> HIDE DEF s, Add
  <2> QED BY Zenon, <1>7, <1>9, <2>1
<1> DEFINE P == {k \in Nat : k \in 0..N =>
                    upTo[k] \in V /\ \A p \in 1..k : Named(Docs[p].id) \in ToSet(upTo[k])}
<1>11. 0 \in P
  <2>1. \A p \in 1..0 : FALSE BY SMT
  <2> HIDE DEF s, V
  <2> QED BY Zenon, <1>2, <1>10, <2>1, 0 \in Nat
<1>12. ASSUME NEW k \in Nat, k \in P PROVE k + 1 \in P
  <2>1. SUFFICES ASSUME k + 1 \in 0..N
        PROVE  upTo[k+1] \in V /\ \A p \in 1..k+1 : Named(Docs[p].id) \in ToSet(upTo[k+1])
    BY k + 1 \in Nat
  <2>2. k \in 0..N /\ k + 1 \in 1..N /\ (k + 1) - 1 = k /\ \A p \in 1..k+1 : p \in 1..k \/ p = k + 1
    BY <1>0, <2>1
  <2>3. upTo[k] \in V /\ \A p \in 1..k : Named(Docs[p].id) \in ToSet(upTo[k])
    BY Zenon, <1>12, <2>2
  <2>4. upTo[k+1] = Add(upTo[k], k+1) BY Zenon, <1>10, <2>2
  <2>5. upTo[k+1] \in V /\ ToSet(upTo[k]) \cup {Named(Docs[k+1].id)} \subseteq ToSet(upTo[k+1])
    <3> HIDE DEF Add, V
    <3> QED BY Zenon, <1>3, <2>2, <2>3, <2>4
  <2> HIDE DEF V
  <2> QED BY Zenon, <2>2, <2>3, <2>5
<1>13. N \in P
  <2> HIDE DEF P
  <2> QED BY <1>0, <1>11, <1>12, SetInduction
<1>14. N \in 0..N
  BY <1>0
<1> QED BY Zenon, <1>1, <1>13, <1>14 DEF AllOrders
----------------------------------------------------------------------------
(* The invariant.                                                           *)

IsSeq(s) == s \in Seq(ToSet(s))

LEMMA SeqIs ==
  ASSUME NEW s, IsSeq(s)
  PROVE  Len(s) \in Nat /\ DOMAIN s = 1..Len(s)
<1> DEFINE S == ToSet(s)
<1>1. s \in Seq(S) BY Zenon DEF IsSeq
<1> HIDE DEF S
<1> QED BY <1>1

LEMMA IsSeqOf ==
  ASSUME NEW S, NEW s \in Seq(S)
  PROVE  IsSeq(s)
<1>1. Len(s) \in Nat /\ DOMAIN s = 1..Len(s) /\ s \in [1..Len(s) -> S]
  OBVIOUS
<1>2. \A i \in 1..Len(s) : s[i] \in ToSet(s)
  BY Zenon, <1>1 DEF ToSet
<1>3. s = [i \in 1..Len(s) |-> s[i]]
  BY Zenon, <1>1
<1>4. s \in [1..Len(s) -> ToSet(s)]
  BY Zenon, <1>2, <1>3
<1> DEFINE T == ToSet(s)
<1>5. s \in [1..Len(s) -> T] BY Zenon, <1>4
<1> HIDE DEF T
<1>6. s \in Seq(T) BY <1>1, <1>5
<1> QED BY <1>6 DEF T, IsSeq

LEMMA AppendIs ==
  ASSUME NEW s, IsSeq(s), NEW e
  PROVE  /\ IsSeq(Append(s, e)) /\ Len(Append(s, e)) = Len(s) + 1
         /\ Append(s, e)[Len(s) + 1] = e /\ \A i \in 1..Len(s) : Append(s, e)[i] = s[i]
<1> DEFINE S == ToSet(s) \cup {e}
           T == ToSet(s)
<1>1. s \in Seq(T) BY Zenon DEF IsSeq
<1>2. s \in Seq(S)
  <2>1. T \subseteq S OBVIOUS
  <2> HIDE DEF S, T
  <2> QED BY <1>1, <2>1
<1>3. e \in S OBVIOUS
<1> HIDE DEF S, T
<1>4. Append(s, e) \in Seq(S) /\ Len(Append(s, e)) = Len(s) + 1
      /\ Append(s, e)[Len(s) + 1] = e /\ \A i \in 1..Len(s) : Append(s, e)[i] = s[i]
  BY <1>2, <1>3
<1>5. IsSeq(Append(s, e))
  <2>1. PICK a : a = Append(s, e) BY Zenon
  <2>2. a \in Seq(S) BY Zenon, <1>4, <2>1
  <2>3. IsSeq(a) BY ONLY <2>2, IsSeqOf
  <2> QED BY Zenon, <2>1, <2>3
<1> QED BY Zenon, <1>4, <1>5

(* The curves in their order: every one once, after its base.               *)
Placed(d, o) ==
  /\ IsSeq(o) /\ Len(o) >= 1
  /\ \A i \in DOMAIN o : o[i] \in DOMAIN d
  /\ \A i, k \in DOMAIN o : o[i] = o[k] => i = k
  /\ {d[o[i]].id : i \in DOMAIN o} = {d[p].id : p \in DOMAIN d}
  /\ \A i, k \in DOMAIN o : d[o[i]].id = d[o[k]].id => i = k
  /\ \A i \in DOMAIN o : HasBase(d[o[i]]) => \E k \in 1..i-1 : d[o[k]].id = d[o[i]].base

(* A curve of the bundle names its base's place.                            *)
CurveFits(d, o, i, c) ==
  \E b, g, t : /\ c = [base |-> b, regions |-> g, turns |-> t]
               /\ HasBase(d[o[i]]) => b \in 1..i-1 /\ d[o[b]].id = d[o[i]].base

(* The first outright curve of a curve's currency, or else of any.          *)
DiscountOf(d, o, i) ==
  LET own == FirstOf({h \in DOMAIN o : d[o[h]].kind # "spread" /\ d[o[h]].ccy = d[o[i]].ccy})
  IN  IF own # 0 THEN own ELSE FirstOf({h \in DOMAIN o : d[o[h]].kind # "spread"})

(* A row's roles.                                                           *)
RowFits(d, o, r) ==
  \E i \in DOMAIN o : \E j :
    /\ r.of = <<o[i], j>> /\ r.curve = i
    /\ r.bench \in 0..Len(o) /\ r.den \in 0..Len(o) /\ r.disc \in 0..Len(o)
    /\ r.den # i /\ (d[o[i]].insts[j].bench # Absent => r.bench # i)
    /\ r.disc \notin {0, i} => d[o[r.disc]].kind # "spread"
    /\ r.disc # 0 /\ r.kind # "XccyMtmBasis" => r.disc = DiscountOf(d, o, i)

(* What is in the bundle fits the order.                                    *)
BundleFits(d, o, cs, rs) ==
  /\ IsSeq(cs) /\ \A i \in DOMAIN cs : CurveFits(d, o, i, cs[i])
  /\ IsSeq(rs) /\ \A k \in DOMAIN rs : RowFits(d, o, rs[k])

(* How many curves and rows each pass has made, on curve i of the order.    *)
Counts(pass, i, o, curveCount, rowCount) ==
  /\ pass \in {"order", "resolve"} => curveCount = 0
  /\ pass = "topology" => curveCount = i - 1
  /\ pass \in {"rows", "stamp", "done"} => curveCount = Len(o)
  /\ pass \in {"order", "resolve", "topology"} => rowCount = 0
  /\ pass = "order" => i = 1
  /\ pass \in {"resolve", "topology", "rows"} => i \in DOMAIN o

CompileInv ==
  /\ spec \in Specs
  /\ phase \notin {"order", "refused"} => Placed(Docs, order)
  /\ BundleFits(Docs, order, curves, rows)
  /\ Counts(phase, at[1], order, Len(curves), Len(rows))

\* The place of an id is the one curve's that has it.
LEMMA IndexIs ==
  ASSUME Placed(Docs, order), NEW id
  PROVE  /\ Index(id) \in 0..Len(order)
         /\ \A k \in DOMAIN order : Doc(k).id = id => Index(id) = k
<1>0. Len(order) \in Nat /\ DOMAIN order = 1..Len(order)
  BY Zenon, SeqIs DEF Placed
<1> DEFINE S == {i \in DOMAIN order : Doc(i).id = id}
<1>1. Index(id) = IF S = {} THEN 0 ELSE Max(S)
  BY Zenon DEF Index
<1>2. S \in SUBSET (1..Len(order)) BY Zenon, <1>0
<1>3. S # {} => Max(S) \in S
  <2> HIDE DEF S
  <2> QED BY Zenon, <1>0, <1>2, MaxIn
<1>4. \A i, k \in S : i = k
  BY Zenon DEF Placed, Doc
<1>5. 0 \in 0..Len(order) /\ \A k \in 1..Len(order) : k \in 0..Len(order)
  BY <1>0
<1>6. ASSUME NEW k \in DOMAIN order, Doc(k).id = id PROVE Index(id) = k
  <2>1. k \in S BY Zenon, <1>6
  <2> HIDE DEF S
  <2> QED BY Zenon, <1>1, <1>3, <1>4, <2>1
<1>7. Index(id) \in 0..Len(order)
  <2> HIDE DEF S
  <2> QED BY Zenon, <1>1, <1>2, <1>3, <1>5
<1> QED BY Zenon, <1>6, <1>7

LEMMA FirstOfIs ==
  ASSUME NEW n \in Nat, NEW S \in SUBSET (1..n)
  PROVE  FirstOf(S) \in 0..n /\ (FirstOf(S) # 0 => FirstOf(S) \in S)
<1>1. S # {} => Min(S) \in S
  <2>1. S \in SUBSET Nat OBVIOUS
  <2> QED BY Zenon, <2>1, MinIn
<1>2. 0 \in 0..n /\ \A k \in 1..n : k \in 0..n
  OBVIOUS
<1> QED BY Zenon, <1>1, <1>2 DEF FirstOf

LEMMA DiscountIs ==
  ASSUME Placed(Docs, order), NEW i
  PROVE  /\ Discount(i) = DiscountOf(Docs, order, i)
         /\ Discount(i) \in 0..Len(order)
         /\ Discount(i) # 0 => Doc(Discount(i)).kind # "spread"
<1>0. Len(order) \in Nat /\ DOMAIN order = 1..Len(order)
  BY Zenon, SeqIs DEF Placed
<1> DEFINE S == {h \in DOMAIN order : Docs[order[h]].kind # "spread" /\ Docs[order[h]].ccy = Docs[order[i]].ccy}
           T == {h \in DOMAIN order : Docs[order[h]].kind # "spread"}
<1>1. Discount(i) = IF FirstOf(S) # 0 THEN FirstOf(S) ELSE FirstOf(T)
  BY DEF Discount, Outright, Doc
<1>2. DiscountOf(Docs, order, i) = IF FirstOf(S) # 0 THEN FirstOf(S) ELSE FirstOf(T)
  BY DEF DiscountOf
<1>3. S \in SUBSET (1..Len(order)) /\ T \in SUBSET (1..Len(order)) BY Zenon, <1>0
<1>4. \A h : h \in S \/ h \in T => Doc(h).kind # "spread" BY Zenon DEF Doc
<1>5. FirstOf(S) \in 0..Len(order) /\ (FirstOf(S) # 0 => FirstOf(S) \in S)
  <2> HIDE DEF S
  <2> QED BY Zenon, <1>0, <1>3, FirstOfIs
<1>6. FirstOf(T) \in 0..Len(order) /\ (FirstOf(T) # 0 => FirstOf(T) \in T)
  <2> HIDE DEF T
  <2> QED BY Zenon, <1>0, <1>3, FirstOfIs
<1> HIDE DEF S, T
<1>7. CASE FirstOf(S) # 0
  <2>1. Discount(i) = FirstOf(S) /\ DiscountOf(Docs, order, i) = FirstOf(S) BY Zenon, <1>1, <1>2, <1>7
  <2> QED BY Zenon, <2>1, <1>4, <1>5, <1>7
<1>8. CASE FirstOf(S) = 0
  <2>1. Discount(i) = FirstOf(T) /\ DiscountOf(Docs, order, i) = FirstOf(T) BY Zenon, <1>1, <1>2, <1>8
  <2> QED BY Zenon, <2>1, <1>4, <1>6
<1> QED BY Zenon, <1>7, <1>8

\* A row that is not refused has its roles.
LEMMA RowIs ==
  ASSUME Placed(Docs, order), NEW i \in DOMAIN order, NEW j, NEW w, ~RowRefused(i, Doc(i).insts[j], w)
  PROVE  RowFits(Docs, order, Row(i, j))
<1>0. Len(order) \in Nat /\ DOMAIN order = 1..Len(order)
  BY Zenon, SeqIs DEF Placed
<1> DEFINE ins == Doc(i).insts[j]
           kind == IF ins.type = "portfolio" THEN "Portfolio" ELSE ins.kind
           bench == IF kind \in NeedsBench THEN Bench(i, ins) ELSE 0
           den == IF kind \in NeedsDen THEN Index(ins.den) ELSE 0
           disc == IF kind \in {"ParRate", "ZeroCouponRate", "ParSpread", "Portfolio"} THEN Discount(i)
                   ELSE IF kind = "XccyMtmBasis" THEN i ELSE 0
<1>1. PICK r : r = Row(i, j)
  BY Zenon
<1>2. /\ r.of = <<order[i], j>> /\ r.kind = kind /\ r.curve = i
      /\ r.bench = bench /\ r.den = den /\ r.disc = disc
  <2> HIDE DEF bench, den, disc, kind
  <2>1. PICK w1, t1 : r = [of |-> <<order[i], j>>, kind |-> kind, curve |-> i, window |-> w1,
                           bench |-> bench, den |-> den, disc |-> disc, turn |-> t1]
    BY <1>1 DEF Row, bench, den, disc, kind, Doc
  <2> QED BY <2>1
<1>3. i \in 0..Len(order) /\ 0 \in 0..Len(order) /\ i # 0
  BY <1>0
<1>4. \A id : Index(id) \in 0..Len(order)
  BY Zenon, IndexIs
<1>5. /\ Discount(i) = DiscountOf(Docs, order, i) /\ Discount(i) \in 0..Len(order)
      /\ Discount(i) # 0 => Docs[order[Discount(i)]].kind # "spread"
  BY Zenon, DiscountIs DEF Doc
<1>6. Bench(i, ins) \in 0..Len(order)
  BY Zenon, <1>4, <1>5 DEF Bench, SpreadBase
<1>7. r.bench \in 0..Len(order) /\ r.den \in 0..Len(order) /\ r.disc \in 0..Len(order)
  BY Zenon, <1>2, <1>3, <1>4, <1>5, <1>6
<1>8. "Portfolio" \notin NeedsBench /\ "Portfolio" \notin NeedsDen
  BY SMT DEF NeedsBench, NeedsDen
<1>9. kind \in NeedsBench \/ kind \in NeedsDen => ins.type # "portfolio" /\ kind = ins.kind
  BY Zenon, <1>8
<1>10. kind \in NeedsDen => Index(ins.den) # i
  <2>1. SUFFICES ASSUME kind \in NeedsDen PROVE Index(ins.den) \notin {0, i} BY Zenon
  <2> QED BY Zenon, <1>9, <2>1 DEF RowRefused
<1>11. kind \in NeedsBench /\ ins.bench # Absent => Bench(i, ins) # i
  <2>1. SUFFICES ASSUME kind \in NeedsBench, ins.bench # Absent PROVE Bench(i, ins) \notin {0, i} BY Zenon
  <2> QED BY Zenon, <1>9, <2>1 DEF RowRefused
<1>12. r.den # i /\ (Docs[order[i]].insts[j].bench # Absent => r.bench # i)
  BY Zenon, <1>2, <1>3, <1>10, <1>11 DEF Doc
<1>13. r.disc \notin {0, i} => Docs[order[r.disc]].kind # "spread"
  BY Zenon, <1>2, <1>3, <1>5
<1>14. r.disc # 0 /\ r.kind # "XccyMtmBasis" => r.disc = DiscountOf(Docs, order, i)
  BY Zenon, <1>2, <1>5
<1> HIDE DEF ins, kind, bench, den, disc
<1>15. RowFits(Docs, order, r)
  BY Zenon, <1>2, <1>7, <1>12, <1>13, <1>14 DEF RowFits
<1> QED BY Zenon, <1>1, <1>15

\* A curve laid out in its turn names its base's place.
LEMMA CurveIs ==
  ASSUME Placed(Docs, order), NEW i \in DOMAIN order, NEW g, NEW t
  PROVE  CurveFits(Docs, order, i, [base |-> IF HasBase(Doc(i)) THEN Index(Doc(i).base) ELSE 0, regions |-> g, turns |-> t])
<1>0. Len(order) \in Nat /\ DOMAIN order = 1..Len(order)
  BY Zenon, SeqIs DEF Placed
<1>1. PICK b : b = IF HasBase(Doc(i)) THEN Index(Doc(i).base) ELSE 0
  BY Zenon
<1>2. ASSUME HasBase(Doc(i)) PROVE b \in 1..i-1 /\ Docs[order[b]].id = Docs[order[i]].base
  <2>1. PICK k \in 1..i-1 : Doc(k).id = Doc(i).base BY Zenon, <1>2 DEF Placed, Doc
  <2>2. k \in DOMAIN order BY <1>0
  <2>3. Index(Doc(i).base) = k BY Zenon, <2>1, <2>2, IndexIs
  <2> QED BY Zenon, <1>1, <1>2, <2>1, <2>3 DEF Doc
<1>3. PICK c : c = [base |-> b, regions |-> g, turns |-> t]
  BY Zenon
<1>4. CurveFits(Docs, order, i, c)
  BY Zenon, <1>2, <1>3 DEF CurveFits, Doc
<1> QED BY Zenon, <1>1, <1>3, <1>4

\* The walk places the curves.
LEMMA WalkPlaces ==
  ASSUME spec \in Specs, Sound, DOMAIN Docs # {}
  PROVE  Placed(Docs, CurveOrder)
<1>0. N \in Nat /\ DOMAIN Docs = 1..N
  BY Zenon, DocsTyped
<1>1. PICK o : o = CurveOrder
  BY Zenon
<1>2. IsOrder(o) /\ \A p \in 1..N : Named(Docs[p].id) \in ToSet(o)
  BY Zenon, <1>1, CurveOrderIs
<1>3. o \in Seq(1..N) /\ Len(o) \in Nat /\ DOMAIN o = 1..Len(o) /\ ToSet(o) = {o[i] : i \in 1..Len(o)}
  BY Zenon, <1>2 DEF IsOrder
<1>4. IsSeq(o)
  BY ONLY <1>3, IsSeqOf
<1>5. \A i \in 1..Len(o) : o[i] \in 1..N /\ Named(Docs[o[i]].id) = o[i]
  BY Zenon, <1>2 DEF IsOrder, Canonical
<1>6. \A p \in 1..N : \E i \in 1..Len(o) : o[i] = Named(Docs[p].id) /\ Docs[o[i]].id = Docs[p].id
  <2>1. TAKE p \in 1..N
  <2>2. PICK i \in 1..Len(o) : o[i] = Named(Docs[p].id) BY Zenon, <1>2, <1>3
  <2>3. Named(Docs[p].id) # 0 BY Zenon, NamedIs
  <2>4. Docs[Named(Docs[p].id)].id = Docs[p].id BY Zenon, <2>3, NamedIs
  <2> QED BY Zenon, <2>2, <2>4
<1>7. Len(o) >= 1
  <2>1. PICK i \in 1..Len(o) : TRUE BY Zenon, <1>0, <1>6
  <2> QED BY <1>3, <2>1
<1>8. \A i, k \in DOMAIN o : Docs[o[i]].id = Docs[o[k]].id => i = k
  <2>1. ASSUME NEW i \in 1..Len(o), NEW k \in 1..Len(o), Docs[o[i]].id = Docs[o[k]].id PROVE i = k
    <3>1. o[i] = o[k] BY Zenon, <1>5, <2>1
    <3> QED BY Zenon, <1>2, <3>1 DEF IsOrder
  <2> QED BY Zenon, <1>3, <2>1
<1>9. \A i \in DOMAIN o : HasBase(Docs[o[i]]) => \E k \in 1..i-1 : Docs[o[k]].id = Docs[o[i]].base
  <2>1. ASSUME NEW i \in 1..Len(o), HasBase(Docs[o[i]]) PROVE \E k \in 1..i-1 : Docs[o[k]].id = Docs[o[i]].base
    <3>1. PICK k \in 1..i-1 : o[k] = Below(o[i]) BY Zenon, <1>2, <2>1 DEF IsOrder
    <3>2. k \in 1..Len(o) /\ 0 \notin 1..N BY <1>3
    <3>3. o[k] # 0 BY Zenon, <1>5, <3>2
    <3>4. Docs[Named(Docs[o[i]].base)].id = Docs[o[i]].base BY Zenon, <3>1, <3>3, NamedIs DEF Below
    <3> QED BY Zenon, <3>1, <3>4 DEF Below
  <2> QED BY Zenon, <1>3, <2>1
<1>10. {Docs[o[i]].id : i \in DOMAIN o} = {Docs[p].id : p \in DOMAIN Docs}
  <2>1. ASSUME NEW i \in DOMAIN o PROVE Docs[o[i]].id \in {Docs[p].id : p \in DOMAIN Docs} BY Zenon, <1>0, <1>3, <1>5
  <2>2. ASSUME NEW p \in DOMAIN Docs PROVE Docs[p].id \in {Docs[o[i]].id : i \in DOMAIN o}
    <3>1. PICK i \in 1..Len(o) : Docs[o[i]].id = Docs[p].id BY Zenon, <1>0, <1>6
    <3> QED BY Zenon, <1>3, <3>1
  <2> QED BY Zenon, <2>1, <2>2
<1>11. \A i, k \in DOMAIN o : o[i] = o[k] => i = k
  BY Zenon, <1>2, <1>3 DEF IsOrder
<1>12. \A i \in DOMAIN o : o[i] \in DOMAIN Docs
  BY Zenon, <1>0, <1>3, <1>5
<1>13. Placed(Docs, o)
  BY Zenon, <1>4, <1>7, <1>8, <1>9, <1>10, <1>11, <1>12 DEF Placed
<1> QED BY Zenon, <1>1, <1>13
----------------------------------------------------------------------------
(* The steps.                                                               *)

LEMMA EmptyFits ==
  ASSUME NEW d, NEW o, NEW cs, NEW rs, IsSeq(cs), IsSeq(rs), Len(cs) = 0, Len(rs) = 0
  PROVE  BundleFits(d, o, cs, rs)
<1>1. DOMAIN cs = 1..0 /\ DOMAIN rs = 1..0
  BY Zenon, SeqIs
<1>2. \A i \in 1..0 : FALSE
  BY SMT
<1> QED BY Zenon, <1>1, <1>2 DEF BundleFits

LEMMA CompileInitInv == CompileInit => CompileInv
<1> SUFFICES ASSUME CompileInit PROVE CompileInv
  OBVIOUS
<1>1. spec \in Specs /\ phase = "order" /\ at = <<1, 1>> /\ curves = << >> /\ rows = << >>
  BY Zenon DEF CompileInit
<1>2. IsSeq(<< >>)
  <2> DEFINE T == ToSet(<< >>)
  <2>1. << >> \in Seq(T) OBVIOUS
  <2> QED BY Zenon, <2>1 DEF IsSeq
<1>3. Len(<< >>) = 0 /\ at[1] = 1
  BY <1>1
<1>4. BundleFits(Docs, order, curves, rows)
  BY Zenon, <1>1, <1>2, <1>3, EmptyFits
<1>5. Counts(phase, at[1], order, Len(curves), Len(rows))
  BY Zenon, <1>1, <1>3 DEF Counts
<1> QED BY Zenon, <1>1, <1>4, <1>5 DEF CompileInv

LEMMA RefuseKeeps ==
  ASSUME CompileInv, Refuse
  PROVE  CompileInv'
<1>1. phase' = "refused" /\ spec' = spec /\ order' = order /\ curves' = curves /\ rows' = rows /\ at' = at
  BY Zenon DEF Refuse
<1>2. Docs' = Docs BY Zenon, <1>1 DEF Docs
<1>3. Counts(phase', at'[1], order', Len(curves'), Len(rows')) BY Zenon, <1>1 DEF Counts
<1> QED BY Zenon, <1>1, <1>2, <1>3 DEF CompileInv

LEMMA OrderKeeps ==
  ASSUME CompileInv, OrderCurves
  PROVE  CompileInv'
<1>0. phase = "order"
  BY Zenon DEF OrderCurves
<1>1. CASE Refuse
  BY Zenon, <1>1, RefuseKeeps
<1>2. CASE ~Refuse
  <2>1. /\ ~ \E p \in DOMAIN Docs : Cyclic(Line(Named(Docs[p].id))) \/ Dangling(Line(Named(Docs[p].id)))
        /\ ~ \A p \in DOMAIN Docs : Docs[p].kind = "spread"
        /\ order' = CurveOrder /\ phase' = "resolve" /\ spec' = spec /\ at' = at /\ curves' = curves /\ rows' = rows
    BY Zenon, <1>2 DEF OrderCurves
  <2>2. Sound BY Zenon, <2>1 DEF Sound
  <2>3. spec \in Specs /\ Docs' = Docs BY Zenon, <2>1 DEF CompileInv, Docs
  <2>4. Placed(Docs, CurveOrder) BY Zenon, <2>1, <2>2, <2>3, WalkPlaces
  <2>5. PICK o : o = order' BY Zenon
  <2>6. Placed(Docs, o) BY Zenon, <2>1, <2>4, <2>5
  <2>7. Len(curves) = 0 /\ Len(rows) = 0 /\ at[1] = 1 /\ IsSeq(curves) /\ IsSeq(rows)
    BY Zenon, <1>0 DEF CompileInv, Counts, BundleFits
  <2>8. BundleFits(Docs, o, curves, rows) BY Zenon, <2>7, EmptyFits
  <2>9. 1 \in DOMAIN o
    <3>1. Len(o) \in Nat /\ Len(o) >= 1 /\ DOMAIN o = 1..Len(o) BY Zenon, <2>6, SeqIs DEF Placed
    <3> QED BY <3>1
  <2>10. Counts("resolve", at[1], o, Len(curves), Len(rows)) BY Zenon, <2>7, <2>9 DEF Counts
  <2> QED BY Zenon, <2>1, <2>3, <2>5, <2>6, <2>8, <2>10 DEF CompileInv
<1> QED BY Zenon, <1>1, <1>2

\* The next curve, or the next pass on the first.
Advanced(pass, next, i, o, nextPass, j) ==
  \/ nextPass = pass /\ j = i + 1 /\ j \in DOMAIN o
  \/ nextPass = next /\ j = 1 /\ i = Len(o) /\ j \in DOMAIN o

LEMMA AdvanceIs ==
  ASSUME CompileInv, NEW next, Advance(next), phase \in {"resolve", "topology", "rows"}
  PROVE  /\ Placed(Docs, order) /\ at[1] \in DOMAIN order /\ Len(order) \in Nat
         /\ Advanced(phase, next, at[1], order, phase', at'[1])
<1>1. Placed(Docs, order) /\ at[1] \in DOMAIN order
  BY Zenon DEF CompileInv, Counts
<1>2. Len(order) \in Nat /\ Len(order) >= 1 /\ DOMAIN order = 1..Len(order)
  BY Zenon, <1>1, SeqIs DEF Placed
<1>3. PICK i : i = at[1]
  BY Zenon
<1>4. PICK n : n = Len(order)
  BY Zenon
<1>5. n \in Nat /\ i \in 1..n /\ DOMAIN order = 1..n
  BY Zenon, <1>1, <1>2, <1>3, <1>4
<1>6. CASE i < n
  <2>1. at' = <<i + 1, 1>> /\ phase' = phase BY Zenon, <1>3, <1>4, <1>6 DEF Advance
  <2>2. at'[1] = i + 1 /\ i + 1 \in 1..n BY <1>5, <1>6, <2>1
  <2> QED BY Zenon, <1>1, <1>2, <1>3, <1>5, <2>1, <2>2 DEF Advanced
<1>7. CASE ~(i < n)
  <2>1. at' = <<1, 1>> /\ phase' = next BY Zenon, <1>3, <1>4, <1>7 DEF Advance
  <2>2. at'[1] = 1 /\ i = n /\ 1 \in 1..n BY <1>5, <1>7, <2>1
  <2> QED BY Zenon, <1>1, <1>2, <1>3, <1>4, <1>5, <2>1, <2>2 DEF Advanced
<1> QED BY Zenon, <1>6, <1>7

LEMMA ResolveKeeps ==
  ASSUME CompileInv, ResolveCurve
  PROVE  CompileInv'
<1>0. phase = "resolve"
  BY Zenon DEF ResolveCurve
<1>1. CASE Refuse
  BY Zenon, <1>1, RefuseKeeps
<1>2. CASE ~Refuse
  <2>1. Advance("topology") /\ spec' = spec /\ order' = order /\ curves' = curves /\ rows' = rows
    BY Zenon, <1>2 DEF ResolveCurve
  <2>2. PICK i : i = at[1] BY Zenon
  <2>3. PICK j : j = at'[1] BY Zenon
  <2>4. Placed(Docs, order) /\ Advanced("resolve", "topology", i, order, phase', j)
    BY Zenon, <1>0, <2>1, <2>2, <2>3, AdvanceIs
  <2>5. Docs' = Docs /\ spec \in Specs /\ BundleFits(Docs, order, curves, rows) /\ Len(curves) = 0 /\ Len(rows) = 0
    BY Zenon, <1>0, <2>1 DEF CompileInv, Counts, Docs
  <2>6. 1 - 1 = 0 OBVIOUS
  <2>7. Counts(phase', j, order, Len(curves), Len(rows))
    BY Zenon, <2>4, <2>5, <2>6 DEF Advanced, Counts
  <2>8. phase' \notin {"order", "refused"} BY Zenon, <2>4 DEF Advanced
  <2> QED BY Zenon, <2>1, <2>3, <2>4, <2>5, <2>7, <2>8 DEF CompileInv
<1> QED BY Zenon, <1>1, <1>2

LEMMA LayOutKeeps ==
  ASSUME CompileInv, LayOutCurve
  PROVE  CompileInv'
<1>0. phase = "topology"
  BY Zenon DEF LayOutCurve
<1>1. CASE Refuse
  BY Zenon, <1>1, RefuseKeeps
<1>2. CASE ~Refuse
  <2>1. /\ Advance("rows") /\ spec' = spec /\ order' = order /\ rows' = rows
        /\ \E g, t : curves' = Append(curves, [base |-> IF HasBase(Doc(at[1])) THEN Index(Doc(at[1]).base) ELSE 0,
                                               regions |-> g, turns |-> t])
    BY Zenon, <1>2 DEF LayOutCurve
  <2>2. PICK i : i = at[1] BY Zenon
  <2>3. PICK j : j = at'[1] BY Zenon
  <2>4. Placed(Docs, order) /\ i \in DOMAIN order /\ Len(order) \in Nat /\ Advanced("topology", "rows", i, order, phase', j)
    BY Zenon, <1>0, <2>1, <2>2, <2>3, AdvanceIs
  <2>5. PICK cs : cs = curves' BY Zenon
  <2>6. \E c : cs = Append(curves, c) /\ CurveFits(Docs, order, i, c)
    <3>1. PICK g, t : cs = Append(curves, [base |-> IF HasBase(Doc(i)) THEN Index(Doc(i).base) ELSE 0, regions |-> g, turns |-> t])
      BY Zenon, <2>1, <2>2, <2>5
    <3>2. CurveFits(Docs, order, i, [base |-> IF HasBase(Doc(i)) THEN Index(Doc(i).base) ELSE 0, regions |-> g, turns |-> t])
      BY Zenon, <2>4, CurveIs
    <3> QED BY Zenon, <3>1, <3>2
  <2>7. PICK c : cs = Append(curves, c) /\ CurveFits(Docs, order, i, c) BY Zenon, <2>6
  <2>8. Docs' = Docs /\ spec \in Specs /\ BundleFits(Docs, order, curves, rows) /\ Len(curves) = i - 1 /\ Len(rows) = 0
    BY Zenon, <1>0, <2>1, <2>2 DEF CompileInv, Counts, Docs
  <2>9. IsSeq(curves) /\ IsSeq(rows) BY Zenon, <2>8 DEF BundleFits
  <2>10. PICK m : m = Len(curves) BY Zenon
  <2>11. m \in Nat /\ DOMAIN curves = 1..m BY Zenon, <2>9, <2>10, SeqIs
  <2>12. IsSeq(cs) /\ Len(cs) = m + 1 /\ cs[m+1] = c /\ \A h \in 1..m : cs[h] = curves[h]
    BY ZenonT(60), <2>7, <2>9, <2>10, AppendIs
  <2>13. m + 1 = i
    <3>1. m = i - 1 BY Zenon, <2>8, <2>10
    <3>2. i \in Nat
      <4>1. DOMAIN order = 1..Len(order) BY Zenon, <2>4, SeqIs DEF Placed
      <4> QED BY <2>4, <4>1
    <3> QED BY <3>1, <3>2
  <2>14. DOMAIN cs = 1..m+1 BY Zenon, <2>12, SeqIs
  <2>15. \A h \in 1..m+1 : h \in 1..m \/ h = m + 1 BY <2>11
  <2>16. \A h \in DOMAIN cs : CurveFits(Docs, order, h, cs[h])
    BY Zenon, <2>7, <2>8, <2>11, <2>12, <2>13, <2>14, <2>15 DEF BundleFits
  <2>17. BundleFits(Docs, order, cs, rows) BY Zenon, <2>8, <2>12, <2>16 DEF BundleFits
  <2>18. i = (i + 1) - 1
    BY <2>11, <2>13
  <2>19. Counts(phase', j, order, i, 0)
    BY Zenon, <2>4, <2>18 DEF Advanced, Counts
  <2>20. phase' \notin {"order", "refused"} BY Zenon, <2>4 DEF Advanced
  <2> QED BY Zenon, <2>1, <2>3, <2>4, <2>5, <2>8, <2>12, <2>13, <2>17, <2>19, <2>20 DEF CompileInv
<1> QED BY Zenon, <1>1, <1>2

LEMMA RowKeeps ==
  ASSUME CompileInv, BuildRow
  PROVE  CompileInv'
<1>0. phase = "rows"
  BY Zenon DEF BuildRow
<1>1. CASE Refuse
  BY Zenon, <1>1, RefuseKeeps
<1>2. CASE ~Refuse
  <2>1. PICK i : i = at[1] BY Zenon
  <2>2. PICK j : j = at[2] BY Zenon
  <2>3. /\ ~(IsRow(Doc(i).insts[j]) /\ RowRefused(i, Doc(i).insts[j], resolved[<<Doc(i).id, Key(Doc(i), j)>>]))
        /\ rows' = IF IsRow(Doc(i).insts[j]) THEN Append(rows, Row(i, j)) ELSE rows
        /\ at' = <<i, j + 1>> /\ spec' = spec /\ phase' = phase /\ order' = order /\ curves' = curves
    BY Zenon, <1>2, <2>1, <2>2 DEF BuildRow
  <2>4. Placed(Docs, order) /\ i \in DOMAIN order /\ Docs' = Docs /\ spec \in Specs
        /\ BundleFits(Docs, order, curves, rows) /\ Len(curves) = Len(order)
    BY Zenon, <1>0, <2>1, <2>3 DEF CompileInv, Counts, Docs
  <2>5. at'[1] = i BY <2>3
  <2>6. PICK rs : rs = rows' BY Zenon
  <2>7. BundleFits(Docs, order, curves, rs)
    <3>1. CASE ~IsRow(Doc(i).insts[j]) BY Zenon, <2>3, <2>4, <2>6, <3>1
    <3>2. CASE IsRow(Doc(i).insts[j])
      <4>1. PICK w : w = resolved[<<Doc(i).id, Key(Doc(i), j)>>] BY Zenon
      <4>2. ~RowRefused(i, Doc(i).insts[j], w) BY Zenon, <2>3, <3>2, <4>1
      <4>3. PICK r : r = Row(i, j) BY Zenon
      <4>4. RowFits(Docs, order, r) BY Zenon, <2>4, <4>2, <4>3, RowIs
      <4>5. rs = Append(rows, r) BY Zenon, <2>3, <2>6, <3>2, <4>3
      <4>6. IsSeq(rows) BY Zenon, <2>4 DEF BundleFits
      <4>7. PICK m : m = Len(rows) BY Zenon
      <4>8. m \in Nat /\ DOMAIN rows = 1..m BY Zenon, <4>6, <4>7, SeqIs
      <4>9. IsSeq(rs) /\ Len(rs) = m + 1 /\ rs[m+1] = r /\ \A h \in 1..m : rs[h] = rows[h]
        BY ZenonT(60), <4>5, <4>6, <4>7, AppendIs
      <4>10. DOMAIN rs = 1..m+1 BY Zenon, <4>9, SeqIs
      <4>11. \A h \in 1..m+1 : h \in 1..m \/ h = m + 1 BY <4>8
      <4>12. \A k \in DOMAIN rs : RowFits(Docs, order, rs[k])
        BY Zenon, <2>4, <4>4, <4>8, <4>9, <4>10, <4>11 DEF BundleFits
      <4> QED BY Zenon, <2>4, <4>9, <4>12 DEF BundleFits
    <3> QED BY Zenon, <3>1, <3>2
  <2>8. Counts(phase', i, order, Len(curves), Len(rs)) BY Zenon, <1>0, <2>3, <2>4 DEF Counts
  <2> QED BY Zenon, <2>3, <2>4, <2>5, <2>6, <2>7, <2>8 DEF CompileInv
<1> QED BY Zenon, <1>1, <1>2

LEMMA CloseKeeps ==
  ASSUME CompileInv, CloseCurve
  PROVE  CompileInv'
<1>0. phase = "rows" /\ Advance("stamp") /\ spec' = spec /\ order' = order /\ curves' = curves /\ rows' = rows
  BY Zenon DEF CloseCurve
<1>1. PICK i : i = at[1] BY Zenon
<1>2. PICK j : j = at'[1] BY Zenon
<1>3. Placed(Docs, order) /\ Advanced("rows", "stamp", i, order, phase', j)
  BY Zenon, <1>0, <1>1, <1>2, AdvanceIs
<1>4. Docs' = Docs /\ spec \in Specs /\ BundleFits(Docs, order, curves, rows) /\ Len(curves) = Len(order)
  BY Zenon, <1>0 DEF CompileInv, Counts, Docs
<1>5. Counts(phase', j, order, Len(curves), Len(rows)) /\ phase' \notin {"order", "refused"}
  BY Zenon, <1>3, <1>4 DEF Advanced, Counts
<1> QED BY Zenon, <1>0, <1>2, <1>3, <1>4, <1>5 DEF CompileInv

LEMMA StampedIs ==
  ASSUME NEW d, NEW o, NEW i, NEW c, NEW on, CurveFits(d, o, i, c)
  PROVE  CurveFits(d, o, i, Stamped(c, on))
<1>1. PICK b, g, t : /\ c = [base |-> b, regions |-> g, turns |-> t]
                     /\ HasBase(d[o[i]]) => b \in 1..i-1 /\ d[o[b]].id = d[o[i]].base
  BY Zenon DEF CurveFits
<1>2. \E h : Stamped(c, on) = [c EXCEPT !.regions = h]
  <2>1. c = [c EXCEPT !.regions = g]
    BY SMT, <1>1
  <2> QED BY Zenon, <2>1 DEF Stamped
<1>3. PICK h : Stamped(c, on) = [c EXCEPT !.regions = h]
  BY Zenon, <1>2
<1>4. [c EXCEPT !.regions = h] = [base |-> b, regions |-> h, turns |-> t]
  BY SMT, <1>1
<1> QED BY Zenon, <1>1, <1>3, <1>4 DEF CurveFits

LEMMA FinishKeeps ==
  ASSUME CompileInv, Finish
  PROVE  CompileInv'
<1>0. phase = "stamp"
  BY Zenon DEF Finish
<1>1. CASE Refuse
  BY Zenon, <1>1, RefuseKeeps
<1>2. CASE ~Refuse
  <2>1. /\ \E on : curves' = [i \in DOMAIN curves |-> Stamped(curves[i], on)]
        /\ phase' = "done" /\ spec' = spec /\ order' = order /\ at' = at /\ rows' = rows
    BY Zenon, <1>2 DEF Finish
  <2>2. PICK on : curves' = [i \in DOMAIN curves |-> Stamped(curves[i], on)] BY Zenon, <2>1
  <2>3. PICK cs : cs = curves' BY Zenon
  <2>4. Placed(Docs, order) /\ Docs' = Docs /\ spec \in Specs
        /\ BundleFits(Docs, order, curves, rows) /\ Len(curves) = Len(order)
    BY Zenon, <1>0, <2>1 DEF CompileInv, Counts, Docs
  <2>5. PICK m : m = Len(curves) BY Zenon
  <2>6. m \in Nat /\ DOMAIN curves = 1..m BY Zenon, <2>4, <2>5, SeqIs DEF BundleFits
  <2>7. cs = [i \in 1..m |-> Stamped(curves[i], on)] BY Zenon, <2>2, <2>3, <2>6
  <2>8. IsSeq(cs) /\ Len(cs) = m /\ DOMAIN cs = 1..m
    <3> DEFINE S == {Stamped(curves[i], on) : i \in 1..m}
    <3>1. cs \in [1..m -> S] BY Zenon, <2>7
    <3> HIDE DEF S
    <3>2. cs \in Seq(S) /\ Len(cs) = m BY <2>6, <3>1
    <3>3. IsSeq(cs) BY ONLY <3>2, IsSeqOf
    <3> QED BY Zenon, <3>1, <3>2, <3>3
  <2>9. \A i \in 1..m : CurveFits(Docs, order, i, cs[i])
    <3>1. TAKE i \in 1..m
    <3>2. CurveFits(Docs, order, i, curves[i]) BY Zenon, <2>4, <2>6 DEF BundleFits
    <3>3. PICK c : c = curves[i] BY Zenon
    <3>4. CurveFits(Docs, order, i, Stamped(c, on)) BY Zenon, <3>2, <3>3, StampedIs
    <3> QED BY Zenon, <2>7, <3>3, <3>4
  <2>10. BundleFits(Docs, order, cs, rows) BY Zenon, <2>4, <2>8, <2>9 DEF BundleFits
  <2>11. Counts("done", at[1], order, Len(cs), Len(rows)) BY Zenon, <2>4, <2>5, <2>8 DEF Counts
  <2> QED BY Zenon, <2>1, <2>3, <2>4, <2>10, <2>11 DEF CompileInv
<1> QED BY Zenon, <1>1, <1>2

LEMMA CompileStep == CompileInv /\ [CompileNext]_compileVars => CompileInv'
<1> SUFFICES ASSUME CompileInv, [CompileNext]_compileVars PROVE CompileInv'
  OBVIOUS
<1>1. CASE OrderCurves BY Zenon, <1>1, OrderKeeps
<1>2. CASE ResolveCurve BY Zenon, <1>2, ResolveKeeps
<1>3. CASE LayOutCurve BY Zenon, <1>3, LayOutKeeps
<1>4. CASE BuildRow BY Zenon, <1>4, RowKeeps
<1>5. CASE CloseCurve BY Zenon, <1>5, CloseKeeps
<1>6. CASE Finish BY Zenon, <1>6, FinishKeeps
<1>7. CASE UNCHANGED compileVars
  <2>1. spec' = spec /\ phase' = phase /\ order' = order /\ at' = at /\ curves' = curves /\ rows' = rows
    BY Zenon, <1>7 DEF compileVars
  <2>2. Docs' = Docs BY Zenon, <2>1 DEF Docs
  <2> QED BY Zenon, <2>1, <2>2 DEF CompileInv
<1> QED BY Zenon, <1>1, <1>2, <1>3, <1>4, <1>5, <1>6, <1>7 DEF CompileNext

LEMMA DoneIsStacked == CompileInv => CurvesAreStacked
<1> SUFFICES ASSUME CompileInv, phase = "done" PROVE CurvesAreStacked
  BY Zenon DEF CurvesAreStacked
<1>1. Placed(Docs, order) /\ BundleFits(Docs, order, curves, rows) /\ Len(curves) = Len(order)
  BY Zenon DEF CompileInv, Counts
<1>2. DOMAIN order = 1..Len(order) /\ DOMAIN curves = 1..Len(order) /\ Len(order) \in Nat
  BY Zenon, <1>1, SeqIs DEF Placed, BundleFits
<1>3. {Doc(i).id : i \in DOMAIN order} = {Docs[p].id : p \in DOMAIN Docs} /\ IsInjective(order)
  BY Zenon, <1>1 DEF Placed, Doc, IsInjective
<1>4. ASSUME NEW i \in DOMAIN curves, HasBase(Doc(i))
      PROVE  curves[i].base \in 1..i-1 /\ Doc(curves[i].base).id = Doc(i).base
  <2>1. CurveFits(Docs, order, i, curves[i]) BY Zenon, <1>1 DEF BundleFits
  <2>2. PICK b, g, t : /\ curves[i] = [base |-> b, regions |-> g, turns |-> t]
                       /\ HasBase(Docs[order[i]]) => b \in 1..i-1 /\ Docs[order[b]].id = Docs[order[i]].base
    BY Zenon, <2>1 DEF CurveFits
  <2>3. curves[i].base = b BY SMT, <2>2
  <2> QED BY Zenon, <1>4, <2>2, <2>3 DEF Doc
<1>5. ASSUME NEW k \in DOMAIN rows
      PROVE  /\ Roles(rows[k]) \subseteq DOMAIN curves
             /\ rows[k].den # rows[k].curve
             /\ Docs[rows[k].of[1]].insts[rows[k].of[2]].bench # Absent => rows[k].bench # rows[k].curve
             /\ rows[k].disc \notin {0, rows[k].curve} => Outright(rows[k].disc)
             /\ rows[k].curve \in DOMAIN order
             /\ rows[k].disc # 0 /\ rows[k].kind # "XccyMtmBasis" => rows[k].disc = DiscountOf(Docs, order, rows[k].curve)
  <2>1. PICK r : r = rows[k] BY Zenon
  <2>2. RowFits(Docs, order, r) BY Zenon, <1>1, <2>1 DEF BundleFits
  <2>3. PICK i \in DOMAIN order, j \in {r.of[2]} :
          /\ r.of[1] = order[i] /\ r.curve = i
          /\ r.bench \in 0..Len(order) /\ r.den \in 0..Len(order) /\ r.disc \in 0..Len(order)
          /\ r.den # i /\ (Docs[order[i]].insts[j].bench # Absent => r.bench # i)
          /\ r.disc \notin {0, i} => Docs[order[r.disc]].kind # "spread"
          /\ r.disc # 0 /\ r.kind # "XccyMtmBasis" => r.disc = DiscountOf(Docs, order, i)
    <3>1. PICK i \in DOMAIN order : \E j :
            /\ r.of = <<order[i], j>> /\ r.curve = i
            /\ r.bench \in 0..Len(order) /\ r.den \in 0..Len(order) /\ r.disc \in 0..Len(order)
            /\ r.den # i /\ (Docs[order[i]].insts[j].bench # Absent => r.bench # i)
            /\ r.disc \notin {0, i} => Docs[order[r.disc]].kind # "spread"
            /\ r.disc # 0 /\ r.kind # "XccyMtmBasis" => r.disc = DiscountOf(Docs, order, i)
      BY Zenon, <2>2 DEF RowFits
    <3>2. PICK j :
            /\ r.of = <<order[i], j>> /\ r.curve = i
            /\ r.bench \in 0..Len(order) /\ r.den \in 0..Len(order) /\ r.disc \in 0..Len(order)
            /\ r.den # i /\ (Docs[order[i]].insts[j].bench # Absent => r.bench # i)
            /\ r.disc \notin {0, i} => Docs[order[r.disc]].kind # "spread"
            /\ r.disc # 0 /\ r.kind # "XccyMtmBasis" => r.disc = DiscountOf(Docs, order, i)
      BY Zenon, <3>1
    <3>3. r.of[1] = order[i] /\ r.of[2] = j BY SMT, <3>2
    <3> QED BY Zenon, <3>2, <3>3
  <2>4. \A h \in 0..Len(order) : h # 0 => h \in 1..Len(order) BY <1>2
  <2>5. Roles(r) \subseteq DOMAIN curves
    BY Zenon, <1>2, <2>3, <2>4 DEF Roles
  <2> QED BY Zenon, <2>1, <2>3, <2>5 DEF Outright, Doc
<1>6. ASSUME NEW k \in DOMAIN rows, NEW h \in DOMAIN rows,
             rows[k].disc # 0, rows[h].disc # 0, "XccyMtmBasis" \notin {rows[k].kind, rows[h].kind},
             Doc(rows[k].curve).ccy = Doc(rows[h].curve).ccy
      PROVE  rows[k].disc = rows[h].disc
  <2>1. rows[k].disc = DiscountOf(Docs, order, rows[k].curve) /\ rows[h].disc = DiscountOf(Docs, order, rows[h].curve)
    BY Zenon, <1>5, <1>6
  <2>2. PICK i, j : i = rows[k].curve /\ j = rows[h].curve BY Zenon
  <2>3. Docs[order[i]].ccy = Docs[order[j]].ccy BY Zenon, <1>6, <2>2 DEF Doc
  <2>4. DiscountOf(Docs, order, i) = DiscountOf(Docs, order, j) BY SMT, <2>3 DEF DiscountOf
  <2> QED BY Zenon, <2>1, <2>2, <2>4
<1> QED BY Zenon, <1>1, <1>3, <1>4, <1>5, <1>6 DEF CurvesAreStacked

\* A finished bundle holds every curve of the specification once, after its base, and its
\* rows' roles are curves of it: api/compile.cpp:353 order_curves, 571 the rows.
THEOREM BundleIsStacked == CompileSpec => []CurvesAreStacked
<1>1. CompileInit => CompileInv BY CompileInitInv
<1>2. CompileInv /\ [CompileNext]_compileVars => CompileInv' BY CompileStep
<1> QED BY <1>1, <1>2, DoneIsStacked, PTL DEF CompileSpec

----------------------------------------------------------------------------
(* The windows and the turns.                                               *)

LEMMA EnteredIs ==
  ASSUME NEW f, NEW g
  PROVE  /\ \A xx \in DOMAIN f : xx \in DOMAIN Entered(f, g) /\ Entered(f, g)[xx] = f[xx]
         /\ \A xx \in DOMAIN g : xx \in DOMAIN Entered(f, g) /\ (xx \notin DOMAIN f => Entered(f, g)[xx] = g[xx])
<1>1. PICK h : h = Entered(f, g) BY Zenon
<1>2. h = [xx \in DOMAIN f \cup DOMAIN g |-> IF xx \in DOMAIN f THEN f[xx] ELSE g[xx]] BY Zenon, <1>1 DEF Entered
<1>3. DOMAIN h = DOMAIN f \cup DOMAIN g BY Zenon, <1>2
<1> QED BY Zenon, <1>1, <1>2, <1>3

\* No two of a document's instruments have one key.
Apart(doc) == \A j, k \in DOMAIN doc.insts : Key(doc, j) = Key(doc, k) => j = k

\* What is keyed for one instrument is found under its key, and nothing under another's.
LEMMA KeyedIs ==
  ASSUME NEW doc, IsSeq(doc.insts), Apart(doc), NEW value, DOMAIN value \subseteq DOMAIN doc.insts
  PROVE  /\ \A j \in DOMAIN value : <<doc.id, Key(doc, j)>> \in DOMAIN Keyed(doc, value)
                                    /\ Keyed(doc, value)[<<doc.id, Key(doc, j)>>] = value[j]
         /\ \A j \in DOMAIN doc.insts \ DOMAIN value : <<doc.id, Key(doc, j)>> \notin DOMAIN Keyed(doc, value)
         /\ \A id, key : id # doc.id => <<id, key>> \notin DOMAIN Keyed(doc, value)
<1> DEFINE Keys == {<<doc.id, Key(doc, j)>> : j \in DOMAIN value}
           With2(key) == {j \in DOMAIN value : Key(doc, j) = key}
<1>1. PICK f : f = Keyed(doc, value) BY Zenon
<1>2. f = [key \in Keys |-> value[Max(With2(key[2]))]] BY Zenon, <1>1 DEF Keyed
<1>3. DOMAIN f = Keys BY Zenon, <1>2
<1>4. \A a, b, c, e : <<a, b>> = <<c, e>> => a = c /\ b = e
  OBVIOUS
<1>5. \A a, b : <<a, b>>[2] = b
  OBVIOUS
<1>6. Len(doc.insts) \in Nat /\ DOMAIN doc.insts = 1..Len(doc.insts)
  BY Zenon, SeqIs
<1>7. ASSUME NEW j \in DOMAIN value PROVE <<doc.id, Key(doc, j)>> \in DOMAIN f /\ f[<<doc.id, Key(doc, j)>>] = value[j]
  <2>1. PICK key : key = <<doc.id, Key(doc, j)>> BY Zenon
  <2>2. key \in Keys BY Zenon, <2>1
  <2>3. key[2] = Key(doc, j) BY <2>1
  <2>4. PICK S : S = With2(Key(doc, j)) BY Zenon
  <2>5. j \in S /\ S \in SUBSET (1..Len(doc.insts)) BY Zenon, <1>6, <2>4
  <2>6. \A k \in S : k = j BY Zenon, <2>4 DEF Apart
  <2>7. Max(S) \in S BY Zenon, <1>6, <2>5, MaxIn
  <2>8. Max(S) = j BY Zenon, <2>6, <2>7
  <2>9. f[key] = value[Max(S)] BY Zenon, <1>2, <2>2, <2>3, <2>4
  <2> QED BY Zenon, <1>3, <2>1, <2>2, <2>8, <2>9
<1>8. ASSUME NEW j \in DOMAIN doc.insts \ DOMAIN value PROVE <<doc.id, Key(doc, j)>> \notin DOMAIN f
  <2>1. SUFFICES ASSUME <<doc.id, Key(doc, j)>> \in Keys PROVE FALSE BY Zenon, <1>3
  <2>2. PICK k \in DOMAIN value : <<doc.id, Key(doc, j)>> = <<doc.id, Key(doc, k)>> BY Zenon, <2>1
  <2>3. Key(doc, j) = Key(doc, k) BY Zenon, <1>4, <2>2
  <2> QED BY Zenon, <2>3 DEF Apart
<1>9. ASSUME NEW id, NEW key, id # doc.id PROVE <<id, key>> \notin DOMAIN f
  <2>1. SUFFICES ASSUME <<id, key>> \in Keys PROVE FALSE BY Zenon, <1>3
  <2>2. PICK k \in DOMAIN value : <<id, key>> = <<doc.id, Key(doc, k)>> BY Zenon, <2>1
  <2> QED BY Zenon, <1>4, <1>9, <2>2
<1> QED BY Zenon, <1>1, <1>7, <1>8, <1>9

\* The first business day on or after a date.
LEMMA FollowingIs ==
  ASSUME NEW d \in Int, \E b \in Business : b >= d
  PROVE  /\ Following(d) \in Business /\ Following(d) \in Int /\ Following(d) >= d
         /\ \A c \in Business : c >= d => Following(d) <= c
<1>0. Business \subseteq Int
  BY Zenon, DocumentsAssumption DEF DocumentsAssumption
<1> DEFINE S == {k \in Nat : d + k \in Business}
<1>1. PICK b \in Business : b >= d
  OBVIOUS
<1>2. b - d \in S
  BY <1>0, <1>1
<1>3. S \in SUBSET Nat /\ S # {}
  BY <1>2
<1>4. Min(S) \in S /\ \A k \in S : Min(S) <= k
  <2> HIDE DEF S
  <2> QED BY Zenon, <1>3, MinIn
<1>5. PICK m : m = Min(S) BY Zenon
<1>6. m \in Nat /\ d + m \in Business /\ \A k \in S : m <= k
  <2>1. m \in S /\ \A k \in S : m <= k BY Zenon, <1>4, <1>5
  <2> QED BY Zenon, <2>1
<1>7. \A c \in Business : c >= d => d + m <= c
  <2>1. TAKE c \in Business
  <2>2. HAVE c >= d
  <2>3. c - d \in Nat /\ d + (c - d) = c BY <1>0, <2>2
  <2>4. c - d \in S BY Zenon, <2>3
  <2>5. m <= c - d BY Zenon, <1>6, <2>4
  <2> QED BY <1>0, <1>6, <2>5
<1>8. d + m >= d
  BY <1>6
<1>9. \E e \in Business : e >= d /\ \A c \in Business : c >= d => e <= c
  BY Zenon, <1>6, <1>7, <1>8
<1> QED BY Zenon, <1>0, <1>9 DEF Following

\* A business day is the first on or after itself.
LEMMA FollowingStays ==
  ASSUME NEW b \in Business
  PROVE  b \in Int /\ Following(b) = b
<1>1. b \in Int
  BY Zenon, DocumentsAssumption DEF DocumentsAssumption
<1>2. b >= b
  BY <1>1
<1>3. Following(b) \in Int /\ Following(b) >= b /\ Following(b) <= b
  BY Zenon, <1>1, <1>2, FollowingIs
<1> QED BY <1>1, <1>3

\* The greatest of a set of integers that is bounded.
LEMMA MaxBelow ==
  ASSUME NEW S \in SUBSET Int, S # {}, NEW u \in Int, \A xx \in S : xx <= u
  PROVE  Max(S) \in S /\ \A xx \in S : Max(S) >= xx
<1> DEFINE T == {k \in Nat : u - k \in S}
<1>1. \A xx \in S : u - xx \in Nat /\ u - (u - xx) = xx
  OBVIOUS
<1>2. T \in SUBSET Nat /\ T # {}
  BY Zenon, <1>1
<1>3. PICK m \in T : \A k \in T : m <= k
  <2> HIDE DEF T
  <2> QED BY Zenon, <1>2, MinIn
<1>4. m \in Nat /\ u - m \in S
  BY Zenon
<1>5. \A xx \in S : u - m >= xx
  <2>1. TAKE xx \in S
  <2>2. u - xx \in T BY Zenon, <1>1
  <2>3. m <= u - xx /\ xx \in Int BY Zenon, <1>3, <2>2
  <2> HIDE DEF T
  <2> QED BY <1>4, <2>3
<1>6. \E e \in S : \A y \in S : e >= y
  BY Zenon, <1>4, <1>5
<1> QED BY Zenon, <1>6 DEF Max

\* A document the calendar serves.
Served(doc) ==
  /\ IsSeq(doc.insts)
  /\ \A j \in Quoted(doc) : doc.insts[j].end \in Int /\ \E b \in Business : b >= doc.insts[j].end

LEMMA DocIsServed ==
  ASSUME spec \in Specs, NEW p \in DOMAIN Docs
  PROVE  Served(Docs[p])
<1>1. PICK insts : insts = Docs[p].insts BY Zenon
<1>2. /\ insts \in Seq(ToSet(insts))
      /\ \A j \in DOMAIN insts : insts[j].type = "meeting" /\ insts[j].end \notin {Absent, Bad} =>
             insts[j].end \in Int /\ \E b \in Business : b >= insts[j].end
  BY Zenon, <1>1, DocumentsAssumption DEF DocumentsAssumption, Docs
<1> QED BY Zenon, <1>1, <1>2 DEF Served, IsSeq, Quoted

LEMMA EndIs ==
  ASSUME NEW doc, Served(doc), NEW j \in Quoted(doc)
  PROVE  EndOf(doc, j) \in Business /\ EndOf(doc, j) \in Int /\ j \in DOMAIN doc.insts /\ j \in Int
<1>1. Following(doc.insts[j].end) \in Business /\ Following(doc.insts[j].end) \in Int
  BY Zenon, FollowingIs DEF Served
<1>2. j \in DOMAIN doc.insts BY Zenon DEF Quoted
<1>3. Len(doc.insts) \in Nat /\ DOMAIN doc.insts = 1..Len(doc.insts) BY Zenon, SeqIs DEF Served
<1>4. j \in Int BY <1>2, <1>3
<1> QED BY Zenon, <1>1, <1>2, <1>4 DEF EndOf

WindowOf(doc, j) == Window(doc, j, ChainedStarts(doc))

\* A meeting with an id of its own starts at spot, or at the last end before it.
LEMMA StartIs ==
  ASSUME NEW doc, Apart(doc), NEW j \in Quoted(doc), NEW starts, starts = ChainedStarts(doc)
  PROVE  /\ Key(doc, j) \in DOMAIN starts
         /\ starts[Key(doc, j)] = IF Before(doc, j) = {} THEN Spot ELSE Max({EndOf(doc, i) : i \in Before(doc, j)})
<1> DEFINE start(k) == IF Before(doc, k) = {} THEN Spot ELSE Max({EndOf(doc, i) : i \in Before(doc, k)})
           last(S) == CHOOSE k \in S : S \ {k} \subseteq Before(doc, k)
<1>1. starts = [key \in QuotedKeys(doc) |-> start(last(QuotedUnder(doc, key)))]
  BY Zenon DEF ChainedStarts
<1>2. QuotedUnder(doc, Key(doc, j)) = {j}
  BY Zenon DEF QuotedUnder, Quoted, Apart
<1>3. last({j}) = j
  OBVIOUS
<1>4. Key(doc, j) \in QuotedKeys(doc)
  BY Zenon DEF QuotedKeys
<1>5. PICK key, m : key = Key(doc, j) /\ m = last(QuotedUnder(doc, key)) BY Zenon
<1>6. m = j
  <2> HIDE DEF last
  <2> QED BY Zenon, <1>2, <1>3, <1>5
<1>7. key \in DOMAIN starts /\ starts[key] = start(m)
  <2> HIDE DEF start, last
  <2> QED BY Zenon, <1>1, <1>4, <1>5
<1> QED BY Zenon, <1>5, <1>6, <1>7

\* A meeting's window: to its end, from spot or from the last end before it.
LEMMA MeetingWindowIs ==
  ASSUME NEW doc, Served(doc), Apart(doc), NEW j \in Quoted(doc), doc.insts[j].kind = "Rate"
  PROVE  /\ WindowOf(doc, j).start \in Int /\ WindowOf(doc, j).end = EndOf(doc, j)
         /\ Before(doc, j) = {} => WindowOf(doc, j).start = Spot
         /\ Before(doc, j) # {} => \E i \in Before(doc, j) : WindowOf(doc, j).start = EndOf(doc, i)
         /\ \A i \in Before(doc, j) : EndOf(doc, i) <= WindowOf(doc, j).start
<1> DEFINE S == {EndOf(doc, i) : i \in Before(doc, j)}
<1>1. PICK starts : starts = ChainedStarts(doc) BY Zenon
<1>2. PICK s : s = IF Before(doc, j) = {} THEN Spot ELSE Max(S) BY Zenon
<1>3. Key(doc, j) \in DOMAIN starts /\ starts[Key(doc, j)] = s
  BY Zenon, <1>1, <1>2, StartIs
<1>4. Before(doc, j) \subseteq Quoted(doc)
  BY Zenon DEF Before
<1>5. \A i \in Quoted(doc) : EndOf(doc, i) \in Business /\ EndOf(doc, i) \in Int
  BY Zenon, EndIs
<1>6. Before(doc, j) # {} => s \in S /\ \A xx \in S : s >= xx
  <2>1. SUFFICES ASSUME Before(doc, j) # {} PROVE Max(S) \in S /\ \A xx \in S : Max(S) >= xx BY Zenon, <1>2
  <2>2. S \in SUBSET Int /\ S # {} BY Zenon, <1>4, <1>5, <2>1
  <2>3. EndOf(doc, j) \in Int BY Zenon, <1>5
  <2>4. \A xx \in S : xx <= EndOf(doc, j)
    <3>1. TAKE xx \in S
    <3>2. PICK i \in Before(doc, j) : xx = EndOf(doc, i) BY Zenon
    <3>3. EndOf(doc, i) \in Int /\ (EndOf(doc, i) < EndOf(doc, j) \/ EndOf(doc, i) = EndOf(doc, j))
      BY Zenon, <1>4, <1>5 DEF Before
    <3>4. PICK a, b : a = EndOf(doc, i) /\ b = EndOf(doc, j) BY Zenon
    <3>5. a <= b BY <2>3, <3>3, <3>4
    <3> QED BY Zenon, <3>2, <3>4, <3>5
  <2> HIDE DEF S
  <2> QED BY Zenon, <2>2, <2>3, <2>4, MaxBelow
<1>7. s \in Int /\ Following(s) \in Int /\ Following(s) = s
  <2>1. CASE Before(doc, j) = {}
    <3>1. s = Spot BY Zenon, <1>2, <2>1
    <3>2. s \in Business BY Zenon, <3>1, SpotAssumption DEF SpotAssumption
    <3> QED BY Zenon, <3>2, FollowingStays
  <2>2. CASE Before(doc, j) # {}
    <3>1. s \in Business BY Zenon, <1>4, <1>5, <1>6, <2>2
    <3> QED BY Zenon, <3>1, FollowingStays
  <2> QED BY Zenon, <2>1, <2>2
<1>8. s # Absent
  BY Zenon, <1>7, DocumentsAssumption DEF DocumentsAssumption
<1>9. doc.insts[j].type # "fut" /\ doc.insts[j].end # Absent
  BY Zenon DEF Quoted
<1>10. PICK w : w = WindowOf(doc, j) BY Zenon
<1>11. w = [start |-> Following(s), end |-> EndOf(doc, j)]
  <2>1. WindowOf(doc, j) = Window(doc, j, starts) BY Zenon, <1>1 DEF WindowOf
  <2> QED BY Zenon, <1>3, <1>8, <1>9, <1>10, <2>1 DEF Window, Resolve, EndOf
<1>12. w.start = Following(s) /\ w.end = EndOf(doc, j)
  BY <1>11
<1>13. Before(doc, j) = {} => w.start = Spot
  BY Zenon, <1>2, <1>7, <1>12
<1>14. Before(doc, j) # {} => \E i \in Before(doc, j) : w.start = EndOf(doc, i)
  BY Zenon, <1>6, <1>7, <1>12
<1>15. ASSUME NEW i \in Before(doc, j) PROVE EndOf(doc, i) <= w.start
  <2>1. s >= EndOf(doc, i) /\ Following(s) = s BY Zenon, <1>6, <1>7, <1>15
  <2>2. PICK e : e = EndOf(doc, i) BY Zenon
  <2>3. e \in Int /\ s >= e BY Zenon, <1>4, <1>5, <1>15, <2>1, <2>2
  <2>4. e <= s BY <1>7, <2>3
  <2> QED BY Zenon, <1>12, <2>1, <2>2, <2>4
<1> QED BY Zenon, <1>7, <1>10, <1>12, <1>13, <1>14, <1>15

\* A turn is found at its place.
LEMMA PlaceIs ==
  ASSUME NEW doc, IsSeq(doc.insts), NEW j \in Turns(doc)
  PROVE  /\ TurnPlaces(doc)[j] \in 1..Cardinality(Turns(doc))
         /\ Nth(Turns(doc), TurnPlaces(doc)[j]) = j
<1> DEFINE S == Turns(doc)
           UpTo(k) == {i \in S : i <= k}
<1>0. Len(doc.insts) \in Nat /\ DOMAIN doc.insts = 1..Len(doc.insts)
  BY Zenon, SeqIs
<1>1. S \in SUBSET (1..Len(doc.insts)) /\ j \in S
  BY Zenon, <1>0 DEF Turns
<1>2. TurnPlaces(doc)[j] = Cardinality(UpTo(j))
  BY Zenon DEF TurnPlaces
<1>3. IsFiniteSet(1..Len(doc.insts))
  BY FS_Interval, <1>0
<1>4. IsFiniteSet(S) /\ Cardinality(S) \in Nat
  BY Zenon, <1>1, <1>3, FS_Subset, FS_CardinalityType
<1>13. \A i \in S : i \in Int
  BY <1>0, <1>1
<1> HIDE DEF S
<1>5. \A k : UpTo(k) \in SUBSET S /\ IsFiniteSet(UpTo(k)) /\ Cardinality(UpTo(k)) \in Nat /\ Cardinality(UpTo(k)) <= Cardinality(S)
  <2>1. TAKE k
  <2>2. UpTo(k) \in SUBSET S OBVIOUS
  <2> HIDE DEF UpTo
  <2> QED BY Zenon, <1>4, <2>2, FS_Subset, FS_CardinalityType
<1>6. Cardinality(UpTo(j)) # 0
  <2>1. j \in UpTo(j) BY <1>1
  <2> HIDE DEF UpTo
  <2> QED BY Zenon, <1>5, <2>1, FS_EmptySet
<1>7. ASSUME NEW k \in S, NEW h \in S, k < h, Cardinality(UpTo(k)) = Cardinality(UpTo(h)) PROVE FALSE
  <2>1. UpTo(k) \subseteq UpTo(h) /\ h \in UpTo(h) /\ h \notin UpTo(k)
    <3>1. \A i \in S : i <= k => i <= h BY <1>7, <1>13
    <3>2. h <= h /\ ~(h <= k) BY <1>7, <1>13
    <3> QED BY Zenon, <3>1, <3>2
  <2> HIDE DEF UpTo
  <2> QED BY Zenon, <1>5, <1>7, <2>1, FS_Subset
<1>8. \A k \in S : Cardinality(UpTo(k)) = Cardinality(UpTo(j)) => k = j
  <2>1. TAKE k \in S
  <2>2. k < j \/ k = j \/ j < k BY <1>1
  <2> HIDE DEF UpTo
  <2> QED BY Zenon, <1>1, <1>7, <2>2
<1>9. Nth(S, Cardinality(UpTo(j))) = j
  BY Zenon, <1>1, <1>8 DEF Nth
<1>10. PICK c : c = Cardinality(UpTo(j)) BY Zenon
<1>11. PICK m : m = Cardinality(S) BY Zenon
<1>12. c \in 1..m
  <2>1. c \in Nat /\ m \in Nat /\ c # 0 /\ c <= m BY Zenon, <1>4, <1>5, <1>6, <1>10, <1>11
  <2> QED BY <2>1
<1> QED BY Zenon, <1>2, <1>9, <1>10, <1>11, <1>12 DEF S
----------------------------------------------------------------------------
(* What the passes have entered, and what the rows tell.                    *)

\* The curves whose windows are resolved, those laid out, and the instruments passed.
Known(pass, p, o) ==
  {i \in DOMAIN o : pass \in {"topology", "rows", "stamp", "done"} \/ (pass = "resolve" /\ i < p)}
LaidOut(pass, p, o) ==
  {i \in DOMAIN o : pass \in {"rows", "stamp", "done"} \/ (pass = "topology" /\ i < p)}
PassedBy(pass, p, q, i, j) ==
  pass \in {"stamp", "done"} \/ (pass = "rows" /\ (i < p \/ (i = p /\ j < q)))

\* An instrument's window is resolved; a turn's place is entered and is that of its window.
Windows(d, o, known, held) ==
  \A i \in known : \A j \in DOMAIN d[o[i]].insts \ Turns(d[o[i]]) :
    LET key == <<d[o[i]].id, Key(d[o[i]], j)>>
    IN  key \in DOMAIN held /\ held[key] = WindowOf(d[o[i]], j)
Pinned(d, o, laid, places, cs) ==
  \A i \in laid : \A j \in Turns(d[o[i]]) :
    LET key == <<d[o[i]].id, Key(d[o[i]], j)>>
    IN  /\ key \in DOMAIN places /\ places[key] = TurnPlaces(d[o[i]])[j]
        /\ cs[i].turns[TurnPlaces(d[o[i]])[j]] = TurnWindow(d[o[i]].insts[j])

\* A row is of an instrument that makes one, with its kind, its window and its turn.
KindOf(ins) == IF ins.type = "portfolio" THEN "Portfolio" ELSE ins.kind
RowIsOf(d, o, r, i, j) ==
  /\ i \in DOMAIN o /\ j \in DOMAIN d[o[i]].insts /\ IsRow(d[o[i]].insts[j])
  /\ r.curve = i /\ r.of = <<o[i], j>> /\ r.kind = KindOf(d[o[i]].insts[j])
  /\ j \notin Turns(d[o[i]]) => r.window = WindowOf(d[o[i]], j)
  /\ r.kind = "TurnJump" => j \in Turns(d[o[i]]) /\ r.turn = TurnPlaces(d[o[i]])[j]
RowTells(d, o, r) == \E i, j : RowIsOf(d, o, r, i, j)
RowsTell(d, o, rs) == \A k \in DOMAIN rs : RowTells(d, o, rs[k])
RowsSorted(rs) ==
  \A h, k \in DOMAIN rs :
    h < k => rs[h].curve < rs[k].curve \/ (rs[h].curve = rs[k].curve /\ rs[h].of[2] < rs[k].of[2])
RowsOf(d, o, rs, pass, p, q) ==
  /\ \A i \in DOMAIN o : \A j \in DOMAIN d[o[i]].insts :
        IsRow(d[o[i]].insts[j]) /\ PassedBy(pass, p, q, i, j) =>
            \E k \in DOMAIN rs : rs[k].curve = i /\ rs[k].of = <<o[i], j>>
  /\ pass # "refused" => \A k \in DOMAIN rs : PassedBy(pass, p, q, rs[k].curve, rs[k].of[2])

\* A meeting is refused for a date that is not after spot, or that another rolls to.
RefusedWell(doc, j) ==
  j \in Quoted(doc) /\ doc.insts[j].kind = "Rate" =>
    EndOf(doc, j) <= Spot \/ \E i \in Quoted(doc) \ {j} : EndOf(doc, i) = EndOf(doc, j)

Told ==
  /\ Windows(Docs, order, Known(phase, at[1], order), resolved)
  /\ Pinned(Docs, order, LaidOut(phase, at[1], order), turnOf, curves)
  /\ RowsTell(Docs, order, rows) /\ RowsSorted(rows)
  /\ RowsOf(Docs, order, rows, phase, at[1], at[2])
  /\ phase \in {"rows", "stamp"} => at[1] \in DOMAIN order /\ at[2] \in Nat /\ at[2] >= 1
  /\ phase = "order" => order = << >>
  /\ phase = "refused" /\ order # << >> /\ Len(curves) = Len(order) => RefusedWell(Doc(at[1]), at[2])

\* What is so of a curve's document.
LEMMA DocIs ==
  ASSUME spec \in Specs, Composed, Placed(Docs, order), NEW i \in DOMAIN order
  PROVE  /\ order[i] \in DOMAIN Docs /\ Served(Doc(i)) /\ Apart(Doc(i)) /\ IsSeq(Doc(i).insts)
         /\ \A k \in DOMAIN order : Doc(k).id = Doc(i).id => k = i
<1>1. order[i] \in DOMAIN Docs /\ \A k \in DOMAIN order : Doc(k).id = Doc(i).id => k = i
  BY Zenon DEF Placed, Doc
<1>2. Served(Doc(i)) /\ Apart(Doc(i))
  BY Zenon, <1>1, DocIsServed DEF Composed, Apart, Doc
<1> QED BY Zenon, <1>1, <1>2 DEF Served

\* The fields of a row.
LEMMA RowHas ==
  ASSUME NEW i, NEW j, NEW ins, ins = Doc(i).insts[j], NEW key, key = <<Doc(i).id, Key(Doc(i), j)>>
  PROVE  /\ Row(i, j).of = <<order[i], j>> /\ Row(i, j).kind = KindOf(ins) /\ Row(i, j).curve = i
         /\ Row(i, j).window = resolved[key] /\ (KindOf(ins) = "TurnJump" => Row(i, j).turn = turnOf[key])
<1>1. \E b, n, c : Row(i, j) = [of |-> <<order[i], j>>, kind |-> KindOf(ins), curve |-> i, window |-> resolved[key],
                                bench |-> b, den |-> n, disc |-> c,
                                turn |-> IF KindOf(ins) = "TurnJump" THEN turnOf[key] ELSE 0]
  BY Zenon DEF Row, KindOf
<1>2. PICK r : r = Row(i, j) BY Zenon
<1>3. PICK k, w, t, p : /\ k = KindOf(ins) /\ w = resolved[key] /\ p = <<order[i], j>>
                        /\ t = IF KindOf(ins) = "TurnJump" THEN turnOf[key] ELSE 0
  BY Zenon
<1>4. PICK b, n, c : r = [of |-> p, kind |-> k, curve |-> i, window |-> w, bench |-> b, den |-> n, disc |-> c, turn |-> t]
  BY Zenon, <1>1, <1>2, <1>3
<1>5. r.of = p /\ r.kind = k /\ r.curve = i /\ r.window = w /\ r.turn = t
  BY <1>4
<1> QED BY Zenon, <1>2, <1>3, <1>5

LEMMA RowTellsIs ==
  ASSUME NEW i \in DOMAIN order, NEW j \in DOMAIN Doc(i).insts, IsRow(Doc(i).insts[j]),
         Windows(Docs, order, DOMAIN order, resolved), Pinned(Docs, order, DOMAIN order, turnOf, curves),
         NEW w, ~RowRefused(i, Doc(i).insts[j], w)
  PROVE  RowIsOf(Docs, order, Row(i, j), i, j)
<1>0. PICK doc, ins, key : doc = Doc(i) /\ ins = doc.insts[j] /\ key = <<doc.id, Key(doc, j)>> BY Zenon
<1>1. PICK r : r = Row(i, j) BY Zenon
<1>2. /\ r.of = <<order[i], j>> /\ r.kind = KindOf(ins) /\ r.curve = i
      /\ r.window = resolved[key] /\ (KindOf(ins) = "TurnJump" => r.turn = turnOf[key])
  <2>1. ins = Doc(i).insts[j] /\ key = <<Doc(i).id, Key(Doc(i), j)>> BY Zenon, <1>0
  <2>2. /\ Row(i, j).of = <<order[i], j>> /\ Row(i, j).kind = KindOf(ins) /\ Row(i, j).curve = i
        /\ Row(i, j).window = resolved[key] /\ (KindOf(ins) = "TurnJump" => Row(i, j).turn = turnOf[key])
    BY SMTT(30), <2>1, RowHas
  <2> QED BY Zenon, <1>1, <2>2
<1>3. j \notin Turns(doc) => r.window = WindowOf(doc, j)
  BY Zenon, <1>0, <1>2 DEF Windows, Doc
<1>4. KindOf(ins) = "TurnJump" => j \in Turns(doc)
  <2>1. SUFFICES ASSUME KindOf(ins) = "TurnJump" PROVE ins.type = "turn" BY Zenon, <1>0 DEF Turns
  <2>2. ins.type # "portfolio" BY <2>1 DEF KindOf
  <2>3. ins.kind = "TurnJump" BY Zenon, <2>1, <2>2 DEF KindOf
  <2> QED BY Zenon, <1>0, <2>2, <2>3 DEF RowRefused
<1>5. KindOf(ins) = "TurnJump" => r.turn = TurnPlaces(doc)[j]
  BY Zenon, <1>0, <1>2, <1>4 DEF Pinned, Doc
<1> QED BY Zenon, <1>0, <1>1, <1>2, <1>3, <1>4, <1>5 DEF RowIsOf, Doc

\* A row's instrument, by its place.
LEMMA RowTold ==
  ASSUME NEW d, NEW o, NEW r, RowTells(d, o, r)
  PROVE  r.of[1] = o[r.curve] /\ RowIsOf(d, o, r, r.curve, r.of[2])
<1>1. PICK i, j : RowIsOf(d, o, r, i, j)
  BY Zenon DEF RowTells
<1>2. r.curve = i /\ r.of = <<o[i], j>>
  BY Zenon, <1>1 DEF RowIsOf
<1>3. r.of[1] = o[i] /\ r.of[2] = j
  BY SMT, <1>2
<1> QED BY Zenon, <1>1, <1>2, <1>3

LEMMA InitTold == CompileInit => Told
<1> SUFFICES ASSUME CompileInit PROVE Told
  OBVIOUS
<1>1. phase = "order" /\ order = << >> /\ rows = << >>
  BY Zenon DEF CompileInit
<1>2. DOMAIN rows = {}
  BY SMT, <1>1
<1>3. Known(phase, at[1], order) = {} /\ LaidOut(phase, at[1], order) = {}
  BY Zenon, <1>1 DEF Known, LaidOut
<1>4. \A i, j : ~PassedBy(phase, at[1], at[2], i, j)
  BY Zenon, <1>1 DEF PassedBy
<1> QED BY Zenon, <1>1, <1>2, <1>3, <1>4 DEF Told, Windows, Pinned, RowsTell, RowsSorted, RowsOf

\* A refusal leaves what is told, and tells why when it is a row's.
LEMMA RefuseTold ==
  ASSUME Told, Refuse, order # << >> /\ Len(curves) = Len(order) => RefusedWell(Doc(at[1]), at[2])
  PROVE  Told'
<1>1. phase' = "refused" /\ spec' = spec /\ order' = order /\ curves' = curves /\ rows' = rows /\ at' = at
      /\ resolved' = resolved /\ turnOf' = turnOf
  BY Zenon DEF Refuse
<1>2. Docs' = Docs /\ Doc(at[1])' = Doc(at[1]) BY Zenon, <1>1 DEF Docs, Doc
<1>3. Known("refused", at[1], order) = {} /\ LaidOut("refused", at[1], order) = {}
  BY Zenon DEF Known, LaidOut
<1>4. \A i, j : ~PassedBy("refused", at[1], at[2], i, j)
  BY Zenon DEF PassedBy
<1>5. Windows(Docs, order, {}, resolved) /\ Pinned(Docs, order, {}, turnOf, curves)
  BY Zenon DEF Windows, Pinned
<1>6. RowsOf(Docs, order, rows, "refused", at[1], at[2])
  BY Zenon, <1>4 DEF RowsOf
<1>7. RowsTell(Docs, order, rows) /\ RowsSorted(rows)
  BY Zenon DEF Told
<1>8. RefusedWell(Doc(at[1])', at[2]') <=> RefusedWell(Doc(at[1]), at[2])
  BY Zenon, <1>1, <1>2
<1> QED BY Zenon, <1>1, <1>2, <1>3, <1>5, <1>6, <1>7, <1>8 DEF Told

LEMMA OrderTold ==
  ASSUME CompileInv, Told, OrderCurves
  PROVE  Told'
<1>0. phase = "order" /\ order = << >>
  BY Zenon DEF OrderCurves, Told
<1>1. CASE Refuse
  BY Zenon, <1>0, <1>1, RefuseTold
<1>2. CASE ~Refuse
  <2>1. /\ phase' = "resolve" /\ spec' = spec /\ at' = at /\ curves' = curves /\ rows' = rows
        /\ resolved' = resolved /\ turnOf' = turnOf
    BY Zenon, <1>2 DEF OrderCurves
  <2>2. CompileInv' BY Zenon, OrderKeeps
  <2>3. PICK o, d : o = order' /\ d = Docs' BY Zenon
  <2>4. Placed(d, o) /\ Len(rows) = 0 /\ at[1] = 1 /\ IsSeq(rows)
    BY Zenon, <1>0, <2>1, <2>2, <2>3 DEF CompileInv, Counts, BundleFits
  <2>5. Len(o) \in Nat /\ DOMAIN o = 1..Len(o) /\ DOMAIN rows = 1..Len(rows) BY Zenon, <2>4, SeqIs DEF Placed
  <2>6. \A i \in DOMAIN o : ~(i < 1) BY <2>5
  <2>7. Known("resolve", at[1], o) = {} BY Zenon, <2>4, <2>6 DEF Known
  <2>8. LaidOut("resolve", at[1], o) = {} BY Zenon DEF LaidOut
  <2>9. \A i, j : ~PassedBy("resolve", at[1], at[2], i, j) BY Zenon DEF PassedBy
  <2>10. DOMAIN rows = {} BY <2>4, <2>5
  <2>11. /\ Windows(d, o, {}, resolved) /\ Pinned(d, o, {}, turnOf, curves)
         /\ RowsTell(d, o, rows) /\ RowsSorted(rows) /\ RowsOf(d, o, rows, "resolve", at[1], at[2])
    BY Zenon, <2>9, <2>10 DEF Windows, Pinned, RowsTell, RowsSorted, RowsOf
  <2> QED BY Zenon, <2>1, <2>3, <2>7, <2>8, <2>11 DEF Told
<1> QED BY Zenon, <1>1, <1>2

\* Reached by pass p at curve n are those reached before, and the curve i that was in hand.
Reaches(pass, next, i, o, p, n) ==
  /\ \A h \in DOMAIN o : p # pass \/ h < n <=> h < i \/ h = i
  /\ p = next => n = 1
  /\ p \in {pass, next} /\ n \in DOMAIN o

\* A pass over the curves: what is done below the curve in hand is done up to it.
LEMMA PassIs ==
  ASSUME NEW o, IsSeq(o), NEW i \in DOMAIN o, NEW next, NEW pass, next # pass, NEW p, NEW n,
         Advanced(pass, next, i, o, p, n)
  PROVE  Reaches(pass, next, i, o, p, n)
<1>0. Len(o) \in Nat /\ DOMAIN o = 1..Len(o) BY Zenon, SeqIs
<1>3. PICK m : m = Len(o) BY Zenon
<1>4. m \in Nat /\ i \in 1..m /\ DOMAIN o = 1..m BY Zenon, <1>0, <1>3
<1>1. CASE p = pass /\ n = i + 1 /\ n \in DOMAIN o
  <2>1. \A h \in 1..m : h < i + 1 <=> h < i \/ h = i BY <1>4
  <2> QED BY Zenon, <1>1, <1>4, <2>1 DEF Reaches
<1>2. CASE p = next /\ n = 1 /\ i = Len(o) /\ n \in DOMAIN o
  <2>1. i = m BY Zenon, <1>2, <1>3
  <2>2. \A h \in 1..m : h < i \/ h = i BY <1>4, <2>1
  <2> QED BY Zenon, <1>2, <1>4, <2>2 DEF Reaches
<1> QED BY Zenon, <1>1, <1>2 DEF Advanced

\* Nothing entered for one curve changes another's, and each instrument keeps its own entry.
LEMMA ResolveTold ==
  ASSUME CompileInv, Composed, Told, ResolveCurve
  PROVE  Told'
<1>0. phase = "resolve" /\ Placed(Docs, order) /\ Len(curves) = 0 /\ Len(rows) = 0 /\ at[1] \in DOMAIN order
      /\ spec \in Specs /\ IsSeq(rows)
  BY Zenon DEF ResolveCurve, CompileInv, Counts, BundleFits
<1>a. Len(order) \in Nat /\ Len(order) >= 1 /\ IsSeq(order) BY Zenon, <1>0, SeqIs DEF Placed
<1>1. CASE Refuse
  <2>1. Len(curves) # Len(order) BY <1>0, <1>a
  <2> QED BY Zenon, <1>1, <2>1, RefuseTold
<1>2. CASE ~Refuse
  <2>1. PICK i, doc, v, f : /\ i = at[1] /\ doc = Doc(i) /\ f = Keyed(doc, v)
                            /\ v = [j \in DOMAIN doc.insts |-> Window(doc, j, ChainedStarts(doc))]
    BY Zenon
  <2>2. /\ resolved' = Entered(f, resolved) /\ Advance("topology")
        /\ spec' = spec /\ order' = order /\ curves' = curves /\ rows' = rows /\ turnOf' = turnOf
    BY Zenon, <1>2, <2>1 DEF ResolveCurve
  <2>3. PICK p, n, m, held : p = phase' /\ n = at'[1] /\ m = at'[2] /\ held = resolved' BY Zenon
  <2>4. i \in DOMAIN order /\ Advanced("resolve", "topology", i, order, p, n)
    BY Zenon, <1>0, <2>1, <2>2, <2>3, AdvanceIs
  <2>5. /\ \A h \in DOMAIN order : p # "resolve" \/ h < n <=> h < i \/ h = i
        /\ p = "topology" => n = 1
        /\ p \in {"resolve", "topology"}
    <3>1. "topology" # "resolve" OBVIOUS
    <3>2. Reaches("resolve", "topology", i, order, p, n) BY Zenon, <1>a, <2>4, <3>1, PassIs
    <3> QED BY Zenon, <3>2 DEF Reaches
  <2>7. \A h \in Known(p, n, order) : h \in DOMAIN order /\ (h # i => h \in Known("resolve", i, order))
    BY Zenon, <2>5 DEF Known
  <2>8. DOMAIN v = DOMAIN doc.insts /\ \A j \in DOMAIN doc.insts : v[j] = WindowOf(doc, j)
    BY Zenon, <2>1 DEF WindowOf
  <2>9. IsSeq(doc.insts) /\ Apart(doc) /\ \A h \in DOMAIN order : Doc(h).id = doc.id => h = i
    BY Zenon, <1>0, <2>1, <2>4, DocIs
  <2>10. \A j \in DOMAIN doc.insts : <<doc.id, Key(doc, j)>> \in DOMAIN f /\ f[<<doc.id, Key(doc, j)>>] = WindowOf(doc, j)
    <3>1. DOMAIN v \subseteq DOMAIN doc.insts BY Zenon, <2>8
    <3>2. \A j \in DOMAIN v : <<doc.id, Key(doc, j)>> \in DOMAIN Keyed(doc, v)
                              /\ Keyed(doc, v)[<<doc.id, Key(doc, j)>>] = v[j]
      BY Zenon, <2>9, <3>1, KeyedIs
    <3>3. \A j \in DOMAIN v : <<doc.id, Key(doc, j)>> \in DOMAIN f /\ f[<<doc.id, Key(doc, j)>>] = v[j]
      BY SMTT(30), <2>1, <3>2
    <3> QED BY Zenon, <2>8, <3>3
  <2>11. \A id, key : id # doc.id => <<id, key>> \notin DOMAIN f
    <3>1. DOMAIN v \subseteq DOMAIN doc.insts BY Zenon, <2>8
    <3>2. \A id, key : id # doc.id => <<id, key>> \notin DOMAIN Keyed(doc, v)
      BY Zenon, <2>9, <3>1, KeyedIs
    <3> QED BY Zenon, <2>1, <3>2
  <2>22. /\ \A xx \in DOMAIN f : xx \in DOMAIN held /\ held[xx] = f[xx]
         /\ \A xx \in DOMAIN resolved : xx \in DOMAIN held /\ (xx \notin DOMAIN f => held[xx] = resolved[xx])
    <3>1. held = Entered(f, resolved) BY Zenon, <2>2, <2>3
    <3> QED BY SMTT(30), <3>1, EnteredIs
  <2>12. Windows(Docs, order, Known("resolve", i, order), resolved) BY Zenon, <1>0, <2>1 DEF Told
  <2>13. ASSUME NEW h \in Known(p, n, order), NEW j \in DOMAIN Docs[order[h]].insts \ Turns(Docs[order[h]])
         PROVE  LET key == <<Docs[order[h]].id, Key(Docs[order[h]], j)>>
                IN  key \in DOMAIN held /\ held[key] = WindowOf(Docs[order[h]], j)
    <3>1. PICK e, key : e = Docs[order[h]] /\ key = <<e.id, Key(e, j)>> BY Zenon
    <3>2. key \in DOMAIN held /\ held[key] = WindowOf(e, j)
      <4>1. CASE h = i
        <5>1. e = doc BY Zenon, <2>1, <3>1, <4>1 DEF Doc
        <5>2. key \in DOMAIN f /\ f[key] = WindowOf(e, j) BY Zenon, <2>10, <2>13, <3>1, <5>1
        <5> QED BY Zenon, <2>22, <5>2
      <4>2. CASE h # i
        <5>1. h \in Known("resolve", i, order) /\ h \in DOMAIN order BY Zenon, <2>7, <2>13, <4>2
        <5>2. e.id # doc.id BY Zenon, <2>9, <3>1, <4>2, <5>1 DEF Doc
        <5>3. key \in DOMAIN resolved /\ resolved[key] = WindowOf(e, j) BY Zenon, <2>12, <2>13, <3>1, <5>1 DEF Windows
        <5>4. key \notin DOMAIN f BY Zenon, <2>11, <3>1, <5>2
        <5> QED BY Zenon, <2>22, <5>3, <5>4
      <4> QED BY Zenon, <4>1, <4>2
    <3> QED BY Zenon, <3>1, <3>2
  <2>14. Windows(Docs, order, Known(p, n, order), held) BY Zenon, <2>13 DEF Windows
  <2>15. LaidOut(p, n, order) = {}
    <3>1. Len(order) \in Nat /\ DOMAIN order = 1..Len(order) BY Zenon, <1>a, SeqIs
    <3>2. \A h \in DOMAIN order : ~(h < 1) BY <3>1
    <3> QED BY Zenon, <2>5, <3>2 DEF LaidOut
  <2>16. Pinned(Docs, order, LaidOut(p, n, order), turnOf, curves) BY Zenon, <2>15 DEF Pinned
  <2>17. \A h, j : ~PassedBy(p, n, m, h, j) BY Zenon, <2>5 DEF PassedBy
  <2>18. DOMAIN rows = {}
    <3>1. DOMAIN rows = 1..0 BY Zenon, <1>0, SeqIs
    <3> QED BY SMT, <3>1
  <2>19. RowsTell(Docs, order, rows) /\ RowsSorted(rows) /\ RowsOf(Docs, order, rows, p, n, m)
    BY Zenon, <2>17, <2>18 DEF RowsTell, RowsSorted, RowsOf
  <2>20. Docs' = Docs BY Zenon, <2>2 DEF Docs
  <2>21. p \notin {"rows", "stamp", "order", "refused"} BY Zenon, <2>5
  <2> QED BY Zenon, <2>2, <2>3, <2>14, <2>16, <2>19, <2>20, <2>21 DEF Told
<1> QED BY Zenon, <1>1, <1>2

LEMMA AdvanceFirst ==
  ASSUME NEW next, Advance(next)
  PROVE  at'[2] = 1
<1>1. at' = <<at[1] + 1, 1>> \/ at' = <<1, 1>>
  BY Zenon DEF Advance
<1> QED BY <1>1

\* A curve as it is laid out, turns last.
LEMMA LaidOutCurve ==
  ASSUME NEW b, NEW g, NEW t
  PROVE  [base |-> b, regions |-> g, turns |-> t].turns = t
OBVIOUS

LEMMA LayOutTold ==
  ASSUME CompileInv, Composed, Told, LayOutCurve
  PROVE  Told'
<1>0. phase = "topology" /\ Placed(Docs, order) /\ Len(curves) = at[1] - 1 /\ Len(rows) = 0 /\ at[1] \in DOMAIN order
      /\ spec \in Specs /\ IsSeq(rows) /\ IsSeq(curves)
  BY Zenon DEF LayOutCurve, CompileInv, Counts, BundleFits
<1>a. Len(order) \in Nat /\ Len(order) >= 1 /\ IsSeq(order) /\ DOMAIN order = 1..Len(order) BY Zenon, <1>0, SeqIs DEF Placed
<1>1. CASE Refuse
  <2>1. PICK n, m : n = Len(order) /\ m = at[1] BY Zenon
  <2>2. n \in Nat /\ m \in 1..n /\ Len(curves) = m - 1 BY Zenon, <1>0, <1>a, <2>1
  <2>3. m - 1 # n BY <2>2
  <2> QED BY Zenon, <1>1, <2>1, <2>2, <2>3, RefuseTold
<1>2. CASE ~Refuse
  <2> DEFINE d0 == Doc(at[1])
             w0 == [j \in Turns(d0) |-> TurnWindow(d0.insts[j])]
             t0 == [k \in 1..Cardinality(Turns(d0)) |-> w0[Nth(Turns(d0), k)]]
  <2>0. /\ resolved' = Entered(Keyed(d0, w0), resolved) /\ turnOf' = Entered(Keyed(d0, TurnPlaces(d0)), turnOf)
        /\ Advance("rows") /\ spec' = spec /\ order' = order /\ rows' = rows
        /\ \E b, mods : curves' = Append(curves, [base |-> b, regions |-> mods, turns |-> t0])
    BY Zenon, <1>2 DEF LayOutCurve
  <2>1. PICK i, doc, windows : i = at[1] /\ doc = d0 /\ windows = w0
    BY Zenon
  <2>2. PICK f, g, c, ts : /\ f = Keyed(d0, w0) /\ g = Keyed(d0, TurnPlaces(d0)) /\ c = Cardinality(Turns(d0)) /\ ts = t0
    BY Zenon
  <2>3. /\ doc = Doc(i) /\ windows = [j \in Turns(doc) |-> TurnWindow(doc.insts[j])]
        /\ f = Keyed(doc, windows) /\ g = Keyed(doc, TurnPlaces(doc)) /\ c = Cardinality(Turns(doc))
        /\ ts = [k \in 1..c |-> windows[Nth(Turns(doc), k)]]
    BY <2>1, <2>2
  <2>4. /\ resolved' = Entered(f, resolved) /\ turnOf' = Entered(g, turnOf) /\ Advance("rows")
        /\ spec' = spec /\ order' = order /\ rows' = rows
        /\ \E b, mods : curves' = Append(curves, [base |-> b, regions |-> mods, turns |-> ts])
    <3> HIDE DEF d0, w0, t0
    <3> QED BY Zenon, <2>0, <2>1, <2>2
  <2> HIDE DEF d0, w0, t0
  <2>5. PICK p, n, m, held, places, cs : /\ p = phase' /\ n = at'[1] /\ m = at'[2] /\ held = resolved'
                                        /\ places = turnOf' /\ cs = curves'
    BY Zenon
  <2>6. i \in DOMAIN order /\ Advanced("topology", "rows", i, order, p, n) /\ m = 1
    BY Zenon, <1>0, <2>1, <2>4, <2>5, AdvanceIs, AdvanceFirst
  <2>7. /\ \A h \in DOMAIN order : p # "topology" \/ h < n <=> h < i \/ h = i
        /\ p = "rows" => n = 1
        /\ p \in {"topology", "rows"} /\ n \in DOMAIN order
    <3>1. "rows" # "topology" OBVIOUS
    <3>2. Reaches("topology", "rows", i, order, p, n) BY Zenon, <1>a, <2>6, <3>1, PassIs
    <3> QED BY Zenon, <3>2 DEF Reaches
  <2>8. \A h \in LaidOut(p, n, order) : h \in DOMAIN order /\ (h # i => h < i /\ h \in LaidOut("topology", i, order))
    BY Zenon, <2>7 DEF LaidOut
  <2>9. Served(doc) /\ IsSeq(doc.insts) /\ Apart(doc) /\ \A h \in DOMAIN order : Doc(h).id = doc.id => h = i
    BY Zenon, <1>0, <2>3, <2>6, DocIs
  <2>10. DOMAIN windows = Turns(doc) /\ DOMAIN TurnPlaces(doc) = Turns(doc) /\ Turns(doc) \subseteq DOMAIN doc.insts
         /\ \A j \in Turns(doc) : windows[j] = TurnWindow(doc.insts[j])
    BY Zenon, <2>3 DEF TurnPlaces, Turns
  <2>11. /\ \A j \in DOMAIN doc.insts \ Turns(doc) : <<doc.id, Key(doc, j)>> \notin DOMAIN f
         /\ \A id, key : id # doc.id => <<id, key>> \notin DOMAIN f
    <3>1. DOMAIN windows \subseteq DOMAIN doc.insts BY Zenon, <2>10
    <3>2. /\ \A j \in DOMAIN doc.insts \ DOMAIN windows : <<doc.id, Key(doc, j)>> \notin DOMAIN Keyed(doc, windows)
          /\ \A id, key : id # doc.id => <<id, key>> \notin DOMAIN Keyed(doc, windows)
      BY Zenon, <2>9, <3>1, KeyedIs
    <3> QED BY SMTT(30), <2>3, <2>10, <3>2
  <2>12. /\ \A j \in Turns(doc) : <<doc.id, Key(doc, j)>> \in DOMAIN g /\ g[<<doc.id, Key(doc, j)>>] = TurnPlaces(doc)[j]
         /\ \A id, key : id # doc.id => <<id, key>> \notin DOMAIN g
    <3>1. PICK v : v = TurnPlaces(doc) BY Zenon
    <3>2. DOMAIN v \subseteq DOMAIN doc.insts BY Zenon, <2>10, <3>1
    <3>3. /\ \A j \in DOMAIN v : <<doc.id, Key(doc, j)>> \in DOMAIN Keyed(doc, v)
                                 /\ Keyed(doc, v)[<<doc.id, Key(doc, j)>>] = v[j]
          /\ \A id, key : id # doc.id => <<id, key>> \notin DOMAIN Keyed(doc, v)
      BY Zenon, <2>9, <3>2, KeyedIs
    <3>4. g = Keyed(doc, v) /\ DOMAIN v = Turns(doc) BY Zenon, <2>3, <2>10, <3>1
    <3>5. /\ \A j \in Turns(doc) : <<doc.id, Key(doc, j)>> \in DOMAIN g /\ g[<<doc.id, Key(doc, j)>>] = v[j]
          /\ \A id, key : id # doc.id => <<id, key>> \notin DOMAIN g
      BY SMTT(30), <3>3, <3>4
    <3> QED BY Zenon, <3>1, <3>5
  <2>13. /\ \A xx \in DOMAIN f : xx \in DOMAIN held /\ held[xx] = f[xx]
         /\ \A xx \in DOMAIN resolved : xx \in DOMAIN held /\ (xx \notin DOMAIN f => held[xx] = resolved[xx])
    <3>1. held = Entered(f, resolved) BY Zenon, <2>4, <2>5
    <3> QED BY SMTT(30), <3>1, EnteredIs
  <2>14. /\ \A xx \in DOMAIN g : xx \in DOMAIN places /\ places[xx] = g[xx]
         /\ \A xx \in DOMAIN turnOf : xx \in DOMAIN places /\ (xx \notin DOMAIN g => places[xx] = turnOf[xx])
    <3>1. places = Entered(g, turnOf) BY Zenon, <2>4, <2>5
    <3> QED BY SMTT(30), <3>1, EnteredIs
  <2>15. cs[i].turns = ts /\ \A h \in DOMAIN order : h < i => cs[h] = curves[h]
    <3>1. PICK b, mods : cs = Append(curves, [base |-> b, regions |-> mods, turns |-> ts]) BY Zenon, <2>4, <2>5
    <3>2. PICK e : e = [base |-> b, regions |-> mods, turns |-> ts] BY Zenon
    <3>3. e.turns = ts BY Zenon, <3>2, LaidOutCurve
    <3>4. PICK k : k = Len(curves) BY Zenon
    <3>5. k \in Nat /\ i \in 1..Len(order) /\ k = i - 1 BY Zenon, <1>0, <1>a, <2>1, <2>6, <3>4, SeqIs
    <3>6. k + 1 = i /\ \A h \in 1..Len(order) : h < i => h \in 1..k BY <1>a, <3>5
    <3>7. cs[k+1] = e /\ \A h \in 1..k : cs[h] = curves[h]
      <4>1. Append(curves, e)[Len(curves) + 1] = e /\ \A h \in 1..Len(curves) : Append(curves, e)[h] = curves[h]
        BY ZenonT(60), <1>0, AppendIs
      <4> QED BY Zenon, <3>1, <3>2, <3>4, <4>1
    <3> QED BY Zenon, <1>a, <3>3, <3>6, <3>7
  <2>16. Windows(Docs, order, DOMAIN order, resolved) /\ Pinned(Docs, order, LaidOut("topology", i, order), turnOf, curves)
    <3>1. Known("topology", i, order) = DOMAIN order BY Zenon DEF Known
    <3> QED BY Zenon, <1>0, <2>1, <3>1 DEF Told
  <2>17. Windows(Docs, order, Known(p, n, order), held)
    <3>1. ASSUME NEW h \in Known(p, n, order), NEW j \in DOMAIN Docs[order[h]].insts \ Turns(Docs[order[h]])
          PROVE  LET key == <<Docs[order[h]].id, Key(Docs[order[h]], j)>>
                 IN  key \in DOMAIN held /\ held[key] = WindowOf(Docs[order[h]], j)
      <4>1. PICK e, key : e = Docs[order[h]] /\ key = <<e.id, Key(e, j)>> BY Zenon
      <4>2. h \in DOMAIN order BY Zenon, <3>1 DEF Known
      <4>3. key \in DOMAIN resolved /\ resolved[key] = WindowOf(e, j) BY Zenon, <2>16, <3>1, <4>1, <4>2 DEF Windows
      <4>4. key \notin DOMAIN f
        <5>1. CASE h = i
          <6>1. e = doc BY Zenon, <2>3, <4>1, <5>1 DEF Doc
          <6> QED BY Zenon, <2>11, <3>1, <4>1, <6>1
        <5>2. CASE h # i
          <6>1. e.id # doc.id BY Zenon, <2>9, <4>1, <4>2, <5>2 DEF Doc
          <6> QED BY Zenon, <2>11, <4>1, <6>1
        <5> QED BY Zenon, <5>1, <5>2
      <4>5. key \in DOMAIN held /\ held[key] = WindowOf(e, j) BY Zenon, <2>13, <4>3, <4>4
      <4> QED BY Zenon, <4>1, <4>5
    <3> QED BY Zenon, <3>1 DEF Windows
  <2>18. Pinned(Docs, order, LaidOut(p, n, order), places, cs)
    <3>1. ASSUME NEW h \in LaidOut(p, n, order), NEW j \in Turns(Docs[order[h]])
          PROVE  LET key == <<Docs[order[h]].id, Key(Docs[order[h]], j)>>
                 IN  /\ key \in DOMAIN places /\ places[key] = TurnPlaces(Docs[order[h]])[j]
                     /\ cs[h].turns[TurnPlaces(Docs[order[h]])[j]] = TurnWindow(Docs[order[h]].insts[j])
      <4>1. PICK e, key, place : e = Docs[order[h]] /\ key = <<e.id, Key(e, j)>> /\ place = TurnPlaces(e)[j] BY Zenon
      <4>2. key \in DOMAIN places /\ places[key] = place /\ cs[h].turns[place] = TurnWindow(e.insts[j])
        <5>1. CASE h = i
          <6>1. e = doc /\ j \in Turns(doc) BY Zenon, <2>3, <3>1, <4>1, <5>1 DEF Doc
          <6>2. key \in DOMAIN g /\ g[key] = place BY Zenon, <2>12, <4>1, <6>1
          <6>3. place \in 1..c /\ Nth(Turns(doc), place) = j BY Zenon, <2>3, <2>9, <4>1, <6>1, PlaceIs
          <6>4. ts[place] = windows[j] BY Zenon, <2>3, <6>3
          <6>5. ts[place] = TurnWindow(e.insts[j]) BY Zenon, <2>10, <6>1, <6>4
          <6> QED BY Zenon, <2>14, <2>15, <5>1, <6>2, <6>5
        <5>2. CASE h # i
          <6>1. h \in DOMAIN order /\ h < i /\ h \in LaidOut("topology", i, order) BY Zenon, <2>8, <3>1, <5>2
          <6>2. e.id # doc.id BY Zenon, <2>9, <4>1, <5>2, <6>1 DEF Doc
          <6>3. key \in DOMAIN turnOf /\ turnOf[key] = place /\ curves[h].turns[place] = TurnWindow(e.insts[j])
            BY Zenon, <2>16, <3>1, <4>1, <6>1 DEF Pinned
          <6>4. key \notin DOMAIN g BY Zenon, <2>12, <4>1, <6>2
          <6> QED BY Zenon, <2>14, <2>15, <6>1, <6>3, <6>4
        <5> QED BY Zenon, <5>1, <5>2
      <4> QED BY Zenon, <4>1, <4>2
    <3> QED BY Zenon, <3>1 DEF Pinned
  <2>19. DOMAIN rows = {}
    <3>1. DOMAIN rows = 1..0 BY Zenon, <1>0, SeqIs
    <3> QED BY SMT, <3>1
  <2>20. \A h, j : PassedBy(p, n, m, h, j) => p = "rows" /\ (h < 1 \/ (h = 1 /\ j < 1))
    BY Zenon, <2>6, <2>7 DEF PassedBy
  <2>21. \A h \in DOMAIN order : \A j \in DOMAIN Docs[order[h]].insts : ~PassedBy(p, n, m, h, j)
    <3>1. TAKE h \in DOMAIN order
    <3>2. TAKE j \in DOMAIN Docs[order[h]].insts
    <3>3. PICK insts : insts = Docs[order[h]].insts BY Zenon
    <3>4. IsSeq(insts) /\ j \in DOMAIN insts BY Zenon, <1>0, <3>2, <3>3, DocIs DEF Doc
    <3>5. Len(insts) \in Nat /\ DOMAIN insts = 1..Len(insts) BY Zenon, <3>4, SeqIs
    <3>6. ~(j < 1) BY <3>4, <3>5
    <3>7. ~(h < 1) BY <1>a
    <3> QED BY Zenon, <2>20, <3>6, <3>7
  <2>22. RowsTell(Docs, order, rows) /\ RowsSorted(rows) /\ RowsOf(Docs, order, rows, p, n, m)
    BY Zenon, <2>19, <2>21 DEF RowsTell, RowsSorted, RowsOf
  <2>23. Docs' = Docs BY Zenon, <2>4 DEF Docs
  <2>24. p \notin {"order", "refused"} /\ m \in Nat /\ m >= 1 BY <2>6, <2>7
  <2> QED BY Zenon, <2>4, <2>5, <2>7, <2>17, <2>18, <2>22, <2>23, <2>24 DEF Told
<1> QED BY Zenon, <1>1, <1>2

\* What a meeting's row is refused for.
LEMMA MeetingRefusal ==
  ASSUME NEW doc, Served(doc), Apart(doc), NEW i, NEW j, doc = Doc(i), RowRefused(i, doc.insts[j], WindowOf(doc, j))
  PROVE  RefusedWell(doc, j)
<1> SUFFICES ASSUME j \in Quoted(doc), doc.insts[j].kind = "Rate", ~(EndOf(doc, j) <= Spot)
             PROVE  \E k \in Quoted(doc) \ {j} : EndOf(doc, k) = EndOf(doc, j)
  BY Zenon DEF RefusedWell
<1>1. PICK w, ins : w = WindowOf(doc, j) /\ ins = doc.insts[j] BY Zenon
<1>2. ins.type = "meeting" /\ ins.kind = "Rate" BY Zenon, <1>1 DEF Quoted
<1>3. RowRefused(i, ins, w) BY Zenon, <1>1
<1>4. "Rate" \notin Swap /\ "Rate" \notin NeedsBench /\ "Rate" \notin NeedsDen
  BY SMT DEF Swap, NeedsBench, NeedsDen
<1>5. w.end <= w.start
  <2>1. ins.type # "portfolio" /\ ins.kind # "TurnJump" BY <1>2
  <2> QED BY Zenon, <1>2, <1>3, <1>4, <2>1 DEF RowRefused
<1>6. /\ w.end = EndOf(doc, j) /\ w.start \in Int
      /\ Before(doc, j) = {} => w.start = Spot
      /\ Before(doc, j) # {} => \E k \in Before(doc, j) : w.start = EndOf(doc, k)
  BY Zenon, <1>1, MeetingWindowIs
<1>7. Before(doc, j) # {}
  BY Zenon, <1>5, <1>6
<1>8. PICK k \in Before(doc, j) : w.start = EndOf(doc, k)
  BY Zenon, <1>6, <1>7
<1>9. PICK a, b : a = EndOf(doc, k) /\ b = EndOf(doc, j) BY Zenon
<1>10. k \in Quoted(doc) /\ (a < b \/ (a = b /\ k < j))
  BY Zenon, <1>8, <1>9 DEF Before
<1>11. a \in Int /\ b \in Int /\ k \in Int /\ j \in Int
  BY Zenon, <1>9, <1>10, EndIs
<1>12. b <= a
  BY Zenon, <1>5, <1>6, <1>8, <1>9
<1>13. a = b /\ k # j
  BY <1>10, <1>11, <1>12
<1> QED BY Zenon, <1>9, <1>10, <1>13

LEMMA BuildTold ==
  ASSUME CompileInv, Composed, Told, BuildRow
  PROVE  Told'
<1>0. phase = "rows" /\ Placed(Docs, order) /\ at[1] \in DOMAIN order /\ spec \in Specs /\ IsSeq(rows)
  BY Zenon DEF BuildRow, CompileInv, Counts, BundleFits
<1>1. PICK i, j, doc, ins, key : /\ i = at[1] /\ j = at[2] /\ doc = Doc(i) /\ ins = doc.insts[j]
                                 /\ key = <<doc.id, Key(doc, j)>>
  BY Zenon
<1>2. /\ Served(doc) /\ Apart(doc) /\ IsSeq(doc.insts) /\ i \in DOMAIN order
  BY Zenon, <1>0, <1>1, DocIs
<1>3. /\ Windows(Docs, order, DOMAIN order, resolved) /\ Pinned(Docs, order, DOMAIN order, turnOf, curves)
      /\ RowsTell(Docs, order, rows) /\ RowsSorted(rows) /\ RowsOf(Docs, order, rows, "rows", i, j)
      /\ j \in Nat /\ j >= 1
  <2>1. Known("rows", i, order) = DOMAIN order /\ LaidOut("rows", i, order) = DOMAIN order
    BY Zenon DEF Known, LaidOut
  <2> QED BY Zenon, <1>0, <1>1, <2>1 DEF Told
<1>4. j \in DOMAIN doc.insts
  <2>1. j <= Len(doc.insts) BY Zenon, <1>1 DEF BuildRow
  <2>2. PICK n : n = Len(doc.insts) BY Zenon
  <2>3. n \in Nat /\ DOMAIN doc.insts = 1..n /\ j <= n BY Zenon, <1>2, <2>1, <2>2, SeqIs
  <2> QED BY <1>3, <2>3
<1>5. CASE Refuse
  <2>1. IsRow(ins) /\ RowRefused(i, ins, resolved[key])
    <3>1. SUFFICES ASSUME ~(IsRow(ins) /\ RowRefused(i, ins, resolved[key])) PROVE FALSE OBVIOUS
    <3>2. phase' = phase BY Zenon, <1>1, <3>1 DEF BuildRow
    <3>3. phase' = "refused" BY Zenon, <1>5 DEF Refuse
    <3> QED BY <1>0, <3>2, <3>3
  <2>2. RefusedWell(doc, j)
    <3>1. CASE j \in Quoted(doc)
      <4>1. j \notin Turns(doc)
        <5>1. ins.type = "meeting" BY Zenon, <1>1, <3>1 DEF Quoted
        <5>2. ins.type # "turn" BY <5>1
        <5> QED BY Zenon, <1>1, <5>2 DEF Turns
      <4>2. resolved[key] = WindowOf(doc, j) BY Zenon, <1>1, <1>2, <1>3, <1>4, <4>1 DEF Windows, Doc
      <4>3. RowRefused(i, doc.insts[j], WindowOf(doc, j)) BY Zenon, <1>1, <2>1, <4>2
      <4> QED BY Zenon, <1>1, <1>2, <4>3, MeetingRefusal
    <3>2. CASE j \notin Quoted(doc) BY Zenon, <3>2 DEF RefusedWell
    <3> QED BY Zenon, <3>1, <3>2
  <2> QED BY Zenon, <1>1, <1>5, <2>2, RefuseTold
<1>6. CASE ~Refuse
  <2>1. /\ ~(IsRow(ins) /\ RowRefused(i, ins, resolved[key]))
        /\ rows' = IF IsRow(ins) THEN Append(rows, Row(i, j)) ELSE rows
        /\ at' = <<i, j + 1>> /\ spec' = spec /\ phase' = phase /\ order' = order /\ curves' = curves
        /\ resolved' = resolved /\ turnOf' = turnOf
    BY Zenon, <1>1, <1>6 DEF BuildRow
  <2>2. at'[1] = i /\ at'[2] = j + 1 BY <2>1
  <2>3. PICK rs, len, q : rs = rows' /\ len = Len(rows) /\ q = j + 1 BY Zenon
  <2>4. len \in Nat /\ DOMAIN rows = 1..len BY Zenon, <1>0, <2>3, SeqIs
  <2>5. ASSUME NEW h \in DOMAIN order, NEW m \in DOMAIN Docs[order[h]].insts
        PROVE  PassedBy("rows", i, q, h, m) <=> PassedBy("rows", i, j, h, m) \/ (h = i /\ m = j)
    <3>1. m \in Int
      <4>1. PICK insts : insts = Docs[order[h]].insts BY Zenon
      <4>2. IsSeq(insts) /\ m \in DOMAIN insts BY Zenon, <1>0, <2>5, <4>1, DocIs DEF Doc
      <4>3. Len(insts) \in Nat /\ DOMAIN insts = 1..Len(insts) BY Zenon, <4>2, SeqIs
      <4> QED BY <4>2, <4>3
    <3>2. m < q <=> m < j \/ m = j BY <1>3, <2>3, <3>1
    <3>3. h = i => ~(h < i)
      <4>1. Len(order) \in Nat /\ DOMAIN order = 1..Len(order) BY Zenon, <1>0, SeqIs DEF Placed
      <4> QED BY <1>2, <4>1
    <3> QED BY Zenon, <3>2, <3>3 DEF PassedBy
  <2>6. ~PassedBy("rows", i, j, i, j)
    <3>1. Len(order) \in Nat /\ DOMAIN order = 1..Len(order) BY Zenon, <1>0, SeqIs DEF Placed
    <3>2. ~(i < i) /\ ~(j < j) BY <1>2, <1>3, <3>1
    <3> QED BY Zenon, <3>2 DEF PassedBy
  <2>7. \A k \in DOMAIN rows : /\ rows[k].curve \in DOMAIN order
                               /\ rows[k].of[2] \in DOMAIN Docs[order[rows[k].curve]].insts
                               /\ PassedBy("rows", i, j, rows[k].curve, rows[k].of[2])
    <3>1. TAKE k \in DOMAIN rows
    <3>2. PICK r : r = rows[k] BY Zenon
    <3>3. RowTells(Docs, order, r) BY Zenon, <1>3, <3>2 DEF RowsTell
    <3>4. RowIsOf(Docs, order, r, r.curve, r.of[2]) BY Zenon, <3>3, RowTold
    <3>5. "rows" # "refused" OBVIOUS
    <3>6. PassedBy("rows", i, j, r.curve, r.of[2]) BY Zenon, <1>3, <3>2, <3>5 DEF RowsOf
    <3> QED BY Zenon, <3>2, <3>4, <3>6 DEF RowIsOf
  <2>8. RowsTell(Docs, order, rs) /\ RowsSorted(rs) /\ RowsOf(Docs, order, rs, "rows", i, q)
    <3>1. CASE ~IsRow(ins)
      <4>1. rs = rows BY Zenon, <2>1, <2>3, <3>1
      <4>2. \A h \in DOMAIN order : \A m \in DOMAIN Docs[order[h]].insts :
              IsRow(Docs[order[h]].insts[m]) /\ PassedBy("rows", i, q, h, m) => PassedBy("rows", i, j, h, m)
        BY Zenon, <1>1, <2>5, <3>1 DEF Doc
      <4>3. \A k \in DOMAIN rows : PassedBy("rows", i, q, rows[k].curve, rows[k].of[2])
        BY Zenon, <2>5, <2>7
      <4>4. \A h \in DOMAIN order : \A m \in DOMAIN Docs[order[h]].insts :
              IsRow(Docs[order[h]].insts[m]) /\ PassedBy("rows", i, q, h, m) =>
                \E k \in DOMAIN rows : rows[k].curve = h /\ rows[k].of = <<order[h], m>>
        BY Zenon, <1>3, <4>2 DEF RowsOf
      <4> QED BY Zenon, <1>3, <4>1, <4>3, <4>4 DEF RowsOf
    <3>2. CASE IsRow(ins)
      <4>1. PICK r : r = Row(i, j) BY Zenon
      <4>2. RowIsOf(Docs, order, r, i, j)
        <5>1. ~RowRefused(i, Doc(i).insts[j], resolved[key]) BY Zenon, <1>1, <2>1, <3>2
        <5> QED BY Zenon, <1>1, <1>2, <1>3, <1>4, <3>2, <4>1, <5>1, RowTellsIs
      <4>3. r.curve = i /\ r.of = <<order[i], j>> /\ RowTells(Docs, order, r) BY Zenon, <4>2 DEF RowIsOf, RowTells
      <4>4. r.of[2] = j BY SMT, <4>3
      <4>5. rs = Append(rows, r) BY Zenon, <2>1, <2>3, <3>2, <4>1
      <4>6. IsSeq(rs) /\ Len(rs) = len + 1 /\ rs[len+1] = r /\ \A h \in 1..len : rs[h] = rows[h]
        <5>1. IsSeq(rows) /\ len = Len(rows) BY Zenon, <1>0, <2>3
        <5> QED BY ZenonT(60), <4>5, <5>1, AppendIs
      <4>7. DOMAIN rs = 1..len+1 BY Zenon, <4>6, SeqIs
      <4>8. (\A h \in 1..len+1 : h \in 1..len \/ h = len + 1) /\ (\A h \in 1..len : h \in 1..len+1) /\ len + 1 \in 1..len+1
        BY <2>4
      <4>9. RowsTell(Docs, order, rs)
        BY Zenon, <1>3, <2>4, <4>3, <4>6, <4>7, <4>8 DEF RowsTell
      <4>10. \A k \in DOMAIN rows : rows[k].curve < i \/ (rows[k].curve = i /\ rows[k].of[2] < j)
        BY Zenon, <2>7 DEF PassedBy
      <4>11. RowsSorted(rs)
        <5>1. ASSUME NEW h \in DOMAIN rs, NEW k \in DOMAIN rs, h < k
              PROVE  rs[h].curve < rs[k].curve \/ (rs[h].curve = rs[k].curve /\ rs[h].of[2] < rs[k].of[2])
          <6>1. CASE k \in 1..len
            <7>1. h \in 1..len BY <2>4, <4>7, <5>1, <6>1
            <7>2. rs[h] = rows[h] /\ rs[k] = rows[k] BY Zenon, <4>6, <6>1, <7>1
            <7>3. rows[h].curve < rows[k].curve \/ (rows[h].curve = rows[k].curve /\ rows[h].of[2] < rows[k].of[2])
              BY Zenon, <1>3, <2>4, <5>1, <6>1, <7>1 DEF RowsSorted
            <7> QED BY Zenon, <7>2, <7>3
          <6>2. CASE k = len + 1
            <7>1. h \in 1..len BY <2>4, <4>7, <5>1, <6>2
            <7>2. rs[h] = rows[h] /\ rs[k] = r BY Zenon, <4>6, <6>2, <7>1
            <7>3. rows[h].curve < i \/ (rows[h].curve = i /\ rows[h].of[2] < j) BY Zenon, <2>4, <4>10, <7>1
            <7> QED BY Zenon, <4>3, <4>4, <7>2, <7>3
          <6> QED BY Zenon, <4>7, <4>8, <6>1, <6>2
        <5> QED BY Zenon, <5>1 DEF RowsSorted
      <4>12. ASSUME NEW h \in DOMAIN order, NEW m \in DOMAIN Docs[order[h]].insts,
                    IsRow(Docs[order[h]].insts[m]), PassedBy("rows", i, q, h, m)
             PROVE  \E k \in DOMAIN rs : rs[k].curve = h /\ rs[k].of = <<order[h], m>>
        <5>1. CASE PassedBy("rows", i, j, h, m)
          <6>1. PICK k \in DOMAIN rows : rows[k].curve = h /\ rows[k].of = <<order[h], m>>
            BY Zenon, <1>3, <4>12, <5>1 DEF RowsOf
          <6>2. k \in DOMAIN rs /\ rs[k] = rows[k] BY Zenon, <2>4, <4>6, <4>7, <4>8
          <6> QED BY Zenon, <6>1, <6>2
        <5>2. CASE h = i /\ m = j
          <6>1. len + 1 \in DOMAIN rs /\ rs[len+1] = r BY Zenon, <4>6, <4>7, <4>8
          <6> QED BY Zenon, <4>3, <5>2, <6>1
        <5> QED BY Zenon, <2>5, <4>12, <5>1, <5>2
      <4>13. ASSUME NEW k \in DOMAIN rs
             PROVE  PassedBy("rows", i, q, rs[k].curve, rs[k].of[2])
        <5>1. CASE k \in 1..len
          <6>1. rs[k] = rows[k] /\ k \in DOMAIN rows BY Zenon, <2>4, <4>6, <5>1
          <6> QED BY Zenon, <2>5, <2>7, <6>1
        <5>2. CASE k = len + 1
          <6>1. rs[k] = r BY Zenon, <4>6, <5>2
          <6>2. PassedBy("rows", i, q, i, j) BY Zenon, <1>1, <1>2, <1>4, <2>5 DEF Doc
          <6> QED BY Zenon, <4>3, <4>4, <6>1, <6>2
        <5> QED BY Zenon, <4>7, <4>8, <5>1, <5>2
      <4>14. RowsOf(Docs, order, rs, "rows", i, q) BY Zenon, <4>12, <4>13 DEF RowsOf
      <4> QED BY Zenon, <4>9, <4>11, <4>14
    <3> QED BY Zenon, <3>1, <3>2
  <2>9. Docs' = Docs BY Zenon, <2>1 DEF Docs
  <2>10. Known("rows", i, order) = DOMAIN order /\ LaidOut("rows", i, order) = DOMAIN order
    BY Zenon DEF Known, LaidOut
  <2>11. q \in Nat /\ q >= 1 BY <1>3, <2>3
  <2>12. phase' = "rows" /\ at'[1] = i /\ at'[2] = q BY Zenon, <1>0, <2>1, <2>2, <2>3
  <2>13. "rows" \notin {"order", "refused"} OBVIOUS
  <2> QED BY Zenon, <1>2, <1>3, <2>1, <2>3, <2>8, <2>9, <2>10, <2>11, <2>12, <2>13 DEF Told
<1> QED BY Zenon, <1>5, <1>6

LEMMA CloseTold ==
  ASSUME CompileInv, Composed, Told, CloseCurve
  PROVE  Told'
<1>0. phase = "rows" /\ Placed(Docs, order) /\ at[1] \in DOMAIN order /\ spec \in Specs
  BY Zenon DEF CloseCurve, CompileInv, Counts
<1>a. IsSeq(order) BY Zenon, <1>0 DEF Placed
<1>1. /\ Advance("stamp") /\ spec' = spec /\ order' = order /\ curves' = curves /\ rows' = rows
      /\ resolved' = resolved /\ turnOf' = turnOf
  BY Zenon DEF CloseCurve
<1>2. PICK i, j, p, n, m : i = at[1] /\ j = at[2] /\ p = phase' /\ n = at'[1] /\ m = at'[2] BY Zenon
<1>3. i \in DOMAIN order /\ Advanced("rows", "stamp", i, order, p, n) /\ m = 1
  BY Zenon, <1>0, <1>1, <1>2, AdvanceIs, AdvanceFirst
<1>4. /\ \A h \in DOMAIN order : p # "rows" \/ h < n <=> h < i \/ h = i
      /\ p \in {"rows", "stamp"} /\ n \in DOMAIN order
  <2>1. "stamp" # "rows" OBVIOUS
  <2>2. Reaches("rows", "stamp", i, order, p, n) BY Zenon, <1>a, <1>3, <2>1, PassIs
  <2> QED BY Zenon, <2>2 DEF Reaches
<1>5. Known("rows", i, order) = DOMAIN order /\ LaidOut("rows", i, order) = DOMAIN order
      /\ Known(p, n, order) = DOMAIN order /\ LaidOut(p, n, order) = DOMAIN order
  BY Zenon, <1>4 DEF Known, LaidOut
<1>6. /\ Windows(Docs, order, DOMAIN order, resolved) /\ Pinned(Docs, order, DOMAIN order, turnOf, curves)
      /\ RowsTell(Docs, order, rows) /\ RowsSorted(rows) /\ RowsOf(Docs, order, rows, "rows", i, j)
      /\ j \in Nat /\ j >= 1
  BY Zenon, <1>0, <1>2, <1>5 DEF Told
<1>7. j > Len(Doc(i).insts)
  BY Zenon, <1>2 DEF CloseCurve
<1>8. ASSUME NEW h \in DOMAIN order, NEW k \in DOMAIN Docs[order[h]].insts
      PROVE  PassedBy("rows", i, j, h, k) <=> PassedBy(p, n, m, h, k)
  <2>1. PICK insts : insts = Docs[order[h]].insts BY Zenon
  <2>2. IsSeq(insts) /\ k \in DOMAIN insts BY Zenon, <1>0, <1>8, <2>1, DocIs DEF Doc
  <2>3. PICK len : len = Len(insts) BY Zenon
  <2>4. len \in Nat /\ k \in 1..len BY Zenon, <2>2, <2>3, SeqIs
  <2>5. h = i => k < j
    <3>1. SUFFICES ASSUME h = i PROVE k < j OBVIOUS
    <3>2. j > len BY Zenon, <1>7, <2>1, <2>3, <3>1 DEF Doc
    <3> QED BY <1>6, <2>4, <3>2
  <2>6. ~(k < m) BY <1>3, <2>4
  <2>7. PassedBy("rows", i, j, h, k) <=> h < i \/ h = i
    BY Zenon, <2>5 DEF PassedBy
  <2>8. PassedBy(p, n, m, h, k) <=> p # "rows" \/ h < n
    BY Zenon, <1>4, <2>6 DEF PassedBy
  <2> QED BY Zenon, <1>4, <2>7, <2>8
<1>9. \A k \in DOMAIN rows : /\ rows[k].curve \in DOMAIN order
                             /\ rows[k].of[2] \in DOMAIN Docs[order[rows[k].curve]].insts
                             /\ PassedBy("rows", i, j, rows[k].curve, rows[k].of[2])
  <2>1. TAKE k \in DOMAIN rows
  <2>2. PICK r : r = rows[k] BY Zenon
  <2>3. RowTells(Docs, order, r) BY Zenon, <1>6, <2>2 DEF RowsTell
  <2>4. RowIsOf(Docs, order, r, r.curve, r.of[2]) BY Zenon, <2>3, RowTold
  <2>5. "rows" # "refused" OBVIOUS
  <2>6. PassedBy("rows", i, j, r.curve, r.of[2]) BY Zenon, <1>6, <2>2, <2>5 DEF RowsOf
  <2> QED BY Zenon, <2>2, <2>4, <2>6 DEF RowIsOf
<1>10. RowsOf(Docs, order, rows, p, n, m)
  <2>1. \A k \in DOMAIN rows : PassedBy(p, n, m, rows[k].curve, rows[k].of[2]) BY Zenon, <1>8, <1>9
  <2>2. ASSUME NEW h \in DOMAIN order, NEW k \in DOMAIN Docs[order[h]].insts,
               IsRow(Docs[order[h]].insts[k]), PassedBy(p, n, m, h, k)
        PROVE  \E l \in DOMAIN rows : rows[l].curve = h /\ rows[l].of = <<order[h], k>>
    BY Zenon, <1>6, <1>8, <2>2 DEF RowsOf
  <2> QED BY Zenon, <2>1, <2>2 DEF RowsOf
<1>11. Docs' = Docs BY Zenon, <1>1 DEF Docs
<1>12. p \notin {"order", "refused"} /\ m \in Nat /\ m >= 1 BY <1>3, <1>4
<1> QED BY Zenon, <1>1, <1>2, <1>4, <1>5, <1>6, <1>10, <1>11, <1>12 DEF Told

\* Stamping a curve leaves its turns.
LEMMA StampKeepsTurns ==
  ASSUME NEW d, NEW o, NEW i, NEW c, NEW on, CurveFits(d, o, i, c)
  PROVE  Stamped(c, on).turns = c.turns
<1>1. PICK b, g, t : c = [base |-> b, regions |-> g, turns |-> t]
  BY Zenon DEF CurveFits
<1>2. \E h : Stamped(c, on) = [c EXCEPT !.regions = h]
  <2>1. c = [c EXCEPT !.regions = g]
    BY SMT, <1>1
  <2> QED BY Zenon, <2>1 DEF Stamped
<1>3. PICK s, h : s = Stamped(c, on) /\ s = [c EXCEPT !.regions = h]
  BY Zenon, <1>2
<1>4. s.turns = t /\ c.turns = t
  BY SMT, <1>1, <1>3
<1> QED BY Zenon, <1>3, <1>4

LEMMA FinishTold ==
  ASSUME CompileInv, Composed, Told, Finish
  PROVE  Told'
<1>0. phase = "stamp" /\ Placed(Docs, order) /\ Len(curves) = Len(order) /\ BundleFits(Docs, order, curves, rows)
  BY Zenon DEF Finish, CompileInv, Counts
<1>a. IsSeq(curves) /\ IsSeq(order) BY Zenon, <1>0 DEF Placed, BundleFits
<1>b. DOMAIN curves = DOMAIN order
  <2>1. DOMAIN curves = 1..Len(curves) /\ DOMAIN order = 1..Len(order) BY Zenon, <1>a, SeqIs
  <2> QED BY Zenon, <1>0, <2>1
<1>1. PICK i, j : i = at[1] /\ j = at[2] BY Zenon
<1>2. Known("stamp", i, order) = DOMAIN order /\ LaidOut("stamp", i, order) = DOMAIN order
      /\ Known("done", i, order) = DOMAIN order /\ LaidOut("done", i, order) = DOMAIN order
  BY Zenon DEF Known, LaidOut
<1>3. /\ Windows(Docs, order, DOMAIN order, resolved) /\ Pinned(Docs, order, DOMAIN order, turnOf, curves)
      /\ RowsTell(Docs, order, rows) /\ RowsSorted(rows) /\ RowsOf(Docs, order, rows, "stamp", i, j)
      /\ i \in DOMAIN order
  BY Zenon, <1>0, <1>1, <1>2 DEF Told
<1>4. \A h, k : PassedBy("stamp", i, j, h, k) /\ PassedBy("done", i, j, h, k)
  BY Zenon DEF PassedBy
<1>5. CASE Refuse
  <2>1. rows = << >>
    <3>1. SUFFICES ASSUME rows # << >> PROVE FALSE OBVIOUS
    <3>2. phase' = "done" BY Zenon, <3>1 DEF Finish
    <3>3. phase' = "refused" BY Zenon, <1>5 DEF Refuse
    <3> QED BY <3>2, <3>3
  <2>2. DOMAIN rows = {} BY SMT, <2>1
  <2>3. j \notin Quoted(Doc(i))
    <3>1. SUFFICES ASSUME j \in Quoted(Doc(i)) PROVE FALSE OBVIOUS
    <3>2. j \in DOMAIN Docs[order[i]].insts /\ IsRow(Docs[order[i]].insts[j]) BY Zenon, <3>1 DEF Quoted, IsRow, Doc
    <3>3. \E k \in DOMAIN rows : rows[k].curve = i BY Zenon, <1>3, <1>4, <3>2 DEF RowsOf
    <3> QED BY Zenon, <2>2, <3>3
  <2>4. RefusedWell(Doc(i), j) BY Zenon, <2>3 DEF RefusedWell
  <2> QED BY Zenon, <1>1, <1>5, <2>4, RefuseTold
<1>6. CASE ~Refuse
  <2>1. /\ \E on : curves' = [h \in DOMAIN curves |-> Stamped(curves[h], on)]
        /\ phase' = "done" /\ spec' = spec /\ order' = order /\ at' = at /\ rows' = rows
        /\ resolved' = resolved /\ turnOf' = turnOf
    BY Zenon, <1>6 DEF Finish
  <2>2. PICK on, cs : cs = curves' /\ curves' = [h \in DOMAIN curves |-> Stamped(curves[h], on)] BY Zenon, <2>1
  <2>3. \A h \in DOMAIN order : cs[h].turns = curves[h].turns
    <3>1. TAKE h \in DOMAIN order
    <3>2. CurveFits(Docs, order, h, curves[h]) BY Zenon, <1>0, <1>b DEF BundleFits
    <3>3. PICK c : c = curves[h] BY Zenon
    <3>4. Stamped(c, on).turns = c.turns
      <4>1. CurveFits(Docs, order, h, c) BY Zenon, <3>2, <3>3
      <4> QED BY SMTT(30), <4>1, StampKeepsTurns
    <3>5. cs[h] = Stamped(c, on) BY Zenon, <1>b, <2>2, <3>3
    <3> QED BY Zenon, <3>3, <3>4, <3>5
  <2>4. Pinned(Docs, order, DOMAIN order, turnOf, cs)
    <3>1. ASSUME NEW h \in DOMAIN order, NEW k \in Turns(Docs[order[h]])
          PROVE  LET key == <<Docs[order[h]].id, Key(Docs[order[h]], k)>>
                 IN  /\ key \in DOMAIN turnOf /\ turnOf[key] = TurnPlaces(Docs[order[h]])[k]
                     /\ cs[h].turns[TurnPlaces(Docs[order[h]])[k]] = TurnWindow(Docs[order[h]].insts[k])
      <4>1. PICK e, key, place : e = Docs[order[h]] /\ key = <<e.id, Key(e, k)>> /\ place = TurnPlaces(e)[k] BY Zenon
      <4>2. key \in DOMAIN turnOf /\ turnOf[key] = place /\ curves[h].turns[place] = TurnWindow(e.insts[k])
        BY Zenon, <1>3, <3>1, <4>1 DEF Pinned
      <4>3. cs[h].turns[place] = TurnWindow(e.insts[k]) BY Zenon, <2>3, <4>2
      <4> QED BY Zenon, <4>1, <4>2, <4>3
    <3> QED BY Zenon, <3>1 DEF Pinned
  <2>5. RowsOf(Docs, order, rows, "done", i, j) BY Zenon, <1>3, <1>4 DEF RowsOf
  <2>6. Docs' = Docs BY Zenon, <2>1 DEF Docs
  <2>7. "done" \notin {"rows", "stamp", "order", "refused"} OBVIOUS
  <2> QED BY Zenon, <1>1, <1>2, <1>3, <2>1, <2>2, <2>4, <2>5, <2>6, <2>7 DEF Told
<1> QED BY Zenon, <1>5, <1>6

\* Every instrument of a composed specification keeps the window it was resolved to.
ToldInv == CompileInv /\ (Composed => Told)

LEMMA ToldStep == ToldInv /\ [CompileNext]_compileVars => ToldInv'
<1> SUFFICES ASSUME ToldInv, [CompileNext]_compileVars PROVE ToldInv'
  OBVIOUS
<1>1. CompileInv' BY Zenon, CompileStep DEF ToldInv
<1>2. CompileInv /\ (Composed => Told) BY Zenon DEF ToldInv
<1>3. spec' = spec
  BY Zenon DEF CompileNext, OrderCurves, ResolveCurve, LayOutCurve, BuildRow, CloseCurve, Finish, Refuse, compileVars
<1>4. Composed' => Composed
  <2>1. Docs' = Docs BY Zenon, <1>3 DEF Docs
  <2> QED BY Zenon, <2>1 DEF Composed
<1>5. SUFFICES ASSUME Composed, Told PROVE Told'
  BY Zenon, <1>1, <1>2, <1>4 DEF ToldInv
<1>6. CASE OrderCurves BY Zenon, <1>2, <1>5, <1>6, OrderTold
<1>7. CASE ResolveCurve BY Zenon, <1>2, <1>5, <1>7, ResolveTold
<1>8. CASE LayOutCurve BY Zenon, <1>2, <1>5, <1>8, LayOutTold
<1>9. CASE BuildRow BY Zenon, <1>2, <1>5, <1>9, BuildTold
<1>10. CASE CloseCurve BY Zenon, <1>2, <1>5, <1>10, CloseTold
<1>11. CASE Finish BY Zenon, <1>2, <1>5, <1>11, FinishTold
<1>12. CASE UNCHANGED compileVars
  <2>1. /\ spec' = spec /\ phase' = phase /\ order' = order /\ at' = at /\ curves' = curves /\ rows' = rows
        /\ resolved' = resolved /\ turnOf' = turnOf
    BY Zenon, <1>12 DEF compileVars
  <2>2. Docs' = Docs /\ Doc(at[1])' = Doc(at[1]) BY Zenon, <2>1 DEF Docs, Doc
  <2>3. RefusedWell(Doc(at[1])', at[2]') <=> RefusedWell(Doc(at[1]), at[2]) BY Zenon, <2>1, <2>2
  <2> QED BY Zenon, <1>5, <2>1, <2>2, <2>3 DEF Told
<1> QED BY Zenon, <1>6, <1>7, <1>8, <1>9, <1>10, <1>11, <1>12 DEF CompileNext

\* What is so when the bundle is done, or a row has been refused.
LEMMA DoneTold ==
  ASSUME ToldInv, Composed, phase = "done"
  PROVE  /\ Placed(Docs, order) /\ spec \in Specs
         /\ Pinned(Docs, order, DOMAIN order, turnOf, curves)
         /\ RowsTell(Docs, order, rows) /\ RowsSorted(rows) /\ IsSeq(rows)
         /\ \A i \in DOMAIN order : \A j \in DOMAIN Docs[order[i]].insts :
               IsRow(Docs[order[i]].insts[j]) => \E k \in DOMAIN rows : rows[k].curve = i /\ rows[k].of = <<order[i], j>>
<1>1. CompileInv /\ Told BY Zenon DEF ToldInv
<1>2. Placed(Docs, order) /\ spec \in Specs /\ IsSeq(rows) BY Zenon, <1>1 DEF CompileInv, BundleFits
<1>3. LaidOut("done", at[1], order) = DOMAIN order BY Zenon DEF LaidOut
<1>4. \A i, j : PassedBy("done", at[1], at[2], i, j) BY Zenon DEF PassedBy
<1>5. RowsOf(Docs, order, rows, "done", at[1], at[2]) BY Zenon, <1>1 DEF Told
<1>6. \A i \in DOMAIN order : \A j \in DOMAIN Docs[order[i]].insts :
        IsRow(Docs[order[i]].insts[j]) => \E k \in DOMAIN rows : rows[k].curve = i /\ rows[k].of = <<order[i], j>>
  BY Zenon, <1>4, <1>5 DEF RowsOf
<1> QED BY Zenon, <1>1, <1>2, <1>3, <1>6 DEF Told

\* An instrument's window ends where its own date rolls to.
LEMMA WindowEnds ==
  ASSUME NEW doc, NEW j, doc.insts[j].end # Absent
  PROVE  WindowOf(doc, j).end = Resolve(doc.insts[j].end, doc.insts[j].type # "fut")
<1>1. PICK s, e : /\ e = Resolve(doc.insts[j].end, doc.insts[j].type # "fut")
                  /\ WindowOf(doc, j) = [start |-> s, end |-> e]
  BY Zenon DEF WindowOf, Window
<1>2. PICK w : w = WindowOf(doc, j) BY Zenon
<1>3. w = [start |-> s, end |-> e] BY Zenon, <1>1, <1>2
<1>4. w.end = e BY <1>3
<1> QED BY Zenon, <1>1, <1>2, <1>4

LEMMA MeetingEnds ==
  ASSUME NEW doc, NEW j \in Quoted(doc)
  PROVE  WindowOf(doc, j).end = EndOf(doc, j) /\ j \notin Turns(doc)
<1>1. doc.insts[j].end # Absent /\ doc.insts[j].type = "meeting" BY Zenon DEF Quoted
<1>2. doc.insts[j].type # "fut" /\ doc.insts[j].type # "turn" BY <1>1
<1>3. WindowOf(doc, j).end = Resolve(doc.insts[j].end, doc.insts[j].type # "fut") BY Zenon, <1>1, WindowEnds
<1> QED BY Zenon, <1>2, <1>3 DEF Resolve, EndOf, Turns

LEMMA DoneReadsQuotes == ToldInv => RowsReadTheirQuotes
<1> SUFFICES ASSUME ToldInv, phase = "done", Composed PROVE RowsReadTheirQuotes
  BY Zenon DEF RowsReadTheirQuotes
<1>1. /\ Pinned(Docs, order, DOMAIN order, turnOf, curves) /\ RowsTell(Docs, order, rows) /\ RowsSorted(rows)
      /\ \A i \in DOMAIN order : \A j \in DOMAIN Docs[order[i]].insts :
            IsRow(Docs[order[i]].insts[j]) => \E k \in DOMAIN rows : rows[k].curve = i /\ rows[k].of = <<order[i], j>>
  BY Zenon, DoneTold
<1>2. ASSUME NEW k \in DOMAIN rows
      PROVE  LET r == rows[k]
                 ins == Docs[r.of[1]].insts[r.of[2]]
             IN  /\ r.of[1] = order[r.curve] /\ IsRow(ins)
                 /\ IF r.kind = "TurnJump" THEN curves[r.curve].turns[r.turn] = TurnWindow(ins)
                    ELSE r.kind # "Portfolio" /\ ins.type # "turn" /\ ins.end # Absent =>
                             r.window.end = Resolve(ins.end, ins.type # "fut")
  <2>1. PICK r, i, j : r = rows[k] /\ i = r.curve /\ j = r.of[2] BY Zenon
  <2>2. RowTells(Docs, order, r) BY Zenon, <1>1, <2>1 DEF RowsTell
  <2>3. r.of[1] = order[i] /\ RowIsOf(Docs, order, r, i, j)
    <3>1. r.of[1] = order[r.curve] /\ RowIsOf(Docs, order, r, r.curve, r.of[2]) BY Zenon, <2>2, RowTold
    <3> QED BY Zenon, <2>1, <3>1
  <2>4. PICK doc, ins : doc = Docs[order[i]] /\ ins = doc.insts[j] BY Zenon
  <2>5. /\ i \in DOMAIN order /\ j \in DOMAIN doc.insts /\ IsRow(ins)
        /\ j \notin Turns(doc) => r.window = WindowOf(doc, j)
        /\ r.kind = "TurnJump" => j \in Turns(doc) /\ r.turn = TurnPlaces(doc)[j]
    BY Zenon, <2>3, <2>4 DEF RowIsOf
  <2>6. r.kind = "TurnJump" => curves[i].turns[r.turn] = TurnWindow(ins)
    BY Zenon, <1>1, <2>4, <2>5 DEF Pinned
  <2>7. ins.type # "turn" /\ ins.end # Absent => r.window.end = Resolve(ins.end, ins.type # "fut")
    <3>1. SUFFICES ASSUME ins.type # "turn", ins.end # Absent PROVE r.window.end = Resolve(ins.end, ins.type # "fut")
      OBVIOUS
    <3>2. r.window = WindowOf(doc, j) BY Zenon, <2>4, <2>5, <3>1 DEF Turns
    <3>3. WindowOf(doc, j).end = Resolve(ins.end, ins.type # "fut") BY Zenon, <2>4, <3>1, WindowEnds
    <3> QED BY Zenon, <3>2, <3>3
  <2> QED BY Zenon, <2>1, <2>3, <2>4, <2>5, <2>6, <2>7
<1> QED BY Zenon, <1>1, <1>2 DEF RowsReadTheirQuotes, RowsSorted, Doc

\* A finished bundle's rows are the quotes of its specification, one each and in their order, and
\* each reads its own instrument's window or turn: api/compile.cpp:440 the windows, 464 the turns, 571 the rows.
THEOREM RowsReadTheirOwn == CompileSpec => []RowsReadTheirQuotes
<1>1. CompileInit => ToldInv BY CompileInitInv, InitTold DEF ToldInv
<1>2. ToldInv /\ [CompileNext]_compileVars => ToldInv' BY ToldStep
<1> QED BY <1>1, <1>2, DoneReadsQuotes, PTL DEF CompileSpec

\* Of two meetings one is over when the other opens.
LEMMA MeetingsApart ==
  ASSUME NEW doc, Served(doc), Apart(doc), NEW j \in Quoted(doc), NEW k \in Quoted(doc), j # k,
         doc.insts[j].kind = "Rate", doc.insts[k].kind = "Rate"
  PROVE  \/ WindowOf(doc, j).end <= WindowOf(doc, k).start
         \/ WindowOf(doc, k).end <= WindowOf(doc, j).start
<1>1. PICK a, b : a = EndOf(doc, j) /\ b = EndOf(doc, k) BY Zenon
<1>2. a \in Int /\ b \in Int /\ j \in Int /\ k \in Int BY Zenon, <1>1, EndIs
<1>3. \/ a < b \/ (a = b /\ j < k)
      \/ b < a \/ (b = a /\ k < j)
  BY <1>2
<1>4. j \in Before(doc, k) \/ k \in Before(doc, j)
  BY Zenon, <1>1, <1>3 DEF Before
<1>5. WindowOf(doc, j).end = a /\ WindowOf(doc, k).end = b BY Zenon, <1>1, MeetingEnds
<1>6. (j \in Before(doc, k) => a <= WindowOf(doc, k).start) /\ (k \in Before(doc, j) => b <= WindowOf(doc, j).start)
  BY Zenon, <1>1, MeetingWindowIs
<1> QED BY Zenon, <1>4, <1>5, <1>6

LEMMA DoneTiles == ToldInv => MeetingsTile
<1> SUFFICES ASSUME ToldInv, Composed PROVE MeetingsTile
  BY Zenon DEF MeetingsTile
<1> DEFINE Listed(i) == {k \in DOMAIN rows : rows[k].curve = i /\ rows[k].of[2] \in Quoted(Doc(i))}
           Meetings(i) == {k \in Listed(i) : rows[k].kind = "Rate"}
<1>1. ASSUME phase = "done", NEW i \in DOMAIN order, NEW k \in Meetings(i)
      PROVE  /\ \/ rows[k].window.start = Spot
                \/ \E h \in Listed(i) : rows[h].window.end = rows[k].window.start
             /\ \A h \in Meetings(i) \ {k} : \/ rows[h].window.end <= rows[k].window.start
                                             \/ rows[k].window.end <= rows[h].window.start
  <2>1. /\ Placed(Docs, order) /\ spec \in Specs /\ RowsTell(Docs, order, rows) /\ RowsSorted(rows) /\ IsSeq(rows)
        /\ \A j \in DOMAIN Docs[order[i]].insts :
              IsRow(Docs[order[i]].insts[j]) => \E h \in DOMAIN rows : rows[h].curve = i /\ rows[h].of = <<order[i], j>>
    BY Zenon, <1>1, DoneTold
  <2>2. PICK doc : doc = Doc(i) BY Zenon
  <2>3. Served(doc) /\ Apart(doc) BY Zenon, <2>1, <2>2, DocIs
  <2>4. ASSUME NEW h \in Listed(i)
        PROVE  /\ rows[h].of[2] \in Quoted(doc) /\ h \in DOMAIN rows /\ rows[h].curve = i
               /\ rows[h].window = WindowOf(doc, rows[h].of[2])
               /\ rows[h].kind = KindOf(doc.insts[rows[h].of[2]])
    <3>1. PICK r, j : r = rows[h] /\ j = r.of[2] BY Zenon
    <3>2. h \in DOMAIN rows /\ r.curve = i /\ j \in Quoted(doc) BY Zenon, <2>2, <2>4, <3>1
    <3>3. RowTells(Docs, order, r) BY Zenon, <2>1, <3>1, <3>2 DEF RowsTell
    <3>4. RowIsOf(Docs, order, r, i, j) BY Zenon, <3>1, <3>2, <3>3, RowTold
    <3>5. j \notin Turns(doc) BY Zenon, <3>2, MeetingEnds
    <3>6. r.window = WindowOf(doc, j) /\ r.kind = KindOf(doc.insts[j]) BY Zenon, <2>2, <3>4, <3>5 DEF RowIsOf, Doc
    <3> QED BY Zenon, <3>1, <3>2, <3>6
  <2>5. ASSUME NEW h \in Meetings(i) PROVE h \in Listed(i) /\ doc.insts[rows[h].of[2]].kind = "Rate"
    <3>1. h \in Listed(i) /\ rows[h].kind = "Rate" BY Zenon, <2>5
    <3>2. PICK ins : ins = doc.insts[rows[h].of[2]] BY Zenon
    <3>3. KindOf(ins) = "Rate" BY Zenon, <2>4, <3>1, <3>2
    <3>4. ins.kind = "Rate" BY SMT, <3>3 DEF KindOf
    <3> QED BY Zenon, <3>1, <3>2, <3>4
  <2> HIDE DEF Listed, Meetings
  <2>6. PICK r, j : r = rows[k] /\ j = r.of[2] BY Zenon
  <2>7. j \in Quoted(doc) /\ doc.insts[j].kind = "Rate" /\ r.window = WindowOf(doc, j)
    BY Zenon, <1>1, <2>4, <2>5, <2>6
  <2>8. r.window.start = Spot \/ \E h \in Listed(i) : rows[h].window.end = r.window.start
    <3>1. CASE Before(doc, j) = {} BY Zenon, <2>3, <2>7, <3>1, MeetingWindowIs
    <3>2. CASE Before(doc, j) # {}
      <4>1. PICK m \in Before(doc, j) : WindowOf(doc, j).start = EndOf(doc, m)
        BY Zenon, <2>3, <2>7, <3>2, MeetingWindowIs
      <4>2. m \in Quoted(doc) /\ m \in DOMAIN doc.insts /\ IsRow(doc.insts[m]) BY Zenon DEF Before, Quoted, IsRow
      <4>3. PICK h \in DOMAIN rows : rows[h].curve = i /\ rows[h].of = <<order[i], m>>
        BY Zenon, <2>1, <2>2, <4>2 DEF Doc
      <4>4. rows[h].of[2] = m BY SMT, <4>3
      <4>5. h \in Listed(i) BY Zenon, <2>2, <4>2, <4>3, <4>4 DEF Listed
      <4>6. rows[h].window.end = EndOf(doc, m) BY Zenon, <2>4, <4>2, <4>4, <4>5, MeetingEnds
      <4> QED BY Zenon, <2>7, <4>1, <4>5, <4>6
    <3> QED BY Zenon, <3>1, <3>2
  <2>9. ASSUME NEW h \in Meetings(i), h # k
        PROVE  rows[h].window.end <= r.window.start \/ r.window.end <= rows[h].window.start
    <3>1. PICK s, m : s = rows[h] /\ m = s.of[2] BY Zenon
    <3>2. m \in Quoted(doc) /\ doc.insts[m].kind = "Rate" /\ s.window = WindowOf(doc, m)
      BY Zenon, <2>4, <2>5, <2>9, <3>1
    <3>3. h \in DOMAIN rows /\ k \in DOMAIN rows /\ s.curve = i /\ r.curve = i
      BY Zenon, <1>1, <2>4, <2>5, <2>6, <2>9, <3>1
    <3>4. h \in Int /\ k \in Int
      <4>1. Len(rows) \in Nat /\ DOMAIN rows = 1..Len(rows) BY Zenon, <2>1, SeqIs
      <4> QED BY <3>3, <4>1
    <3>5. i \in Int /\ m \in Int /\ j \in Int
      <4>1. Len(order) \in Nat /\ DOMAIN order = 1..Len(order) BY Zenon, <2>1, SeqIs DEF Placed
      <4>2. m \in Int /\ j \in Int BY Zenon, <2>3, <2>7, <3>2, EndIs
      <4>3. i \in Int BY <1>1, <4>1
      <4> QED BY Zenon, <4>2, <4>3
    <3>6. h < k \/ k < h BY <2>9, <3>4
    <3>7. m < j \/ j < m \/ i < i
      BY Zenon, <2>1, <2>6, <3>1, <3>3, <3>6 DEF RowsSorted
    <3>8. m # j BY <3>5, <3>7
    <3>9. \/ WindowOf(doc, m).end <= WindowOf(doc, j).start
          \/ WindowOf(doc, j).end <= WindowOf(doc, m).start
      BY Zenon, <2>3, <2>7, <3>2, <3>8, MeetingsApart
    <3> QED BY Zenon, <2>7, <3>1, <3>2, <3>9
  <2> QED BY Zenon, <2>6, <2>8, <2>9
<1>2. (phase = "refused" /\ order # << >> /\ Len(curves) = Len(order)) => RefusedWell(Doc(at[1]), at[2])
  BY Zenon DEF ToldInv, Told
<1>3. phase = "done" => \A i \in DOMAIN order : \A k \in Meetings(i) :
             /\ \/ rows[k].window.start = Spot
                \/ \E h \in Listed(i) : rows[h].window.end = rows[k].window.start
             /\ \A h \in Meetings(i) \ {k} : \/ rows[h].window.end <= rows[k].window.start
                                             \/ rows[k].window.end <= rows[h].window.start
  <2> HIDE DEF Listed, Meetings
  <2> QED BY Zenon, <1>1
<1> QED BY Zenon, <1>2, <1>3 DEF MeetingsTile, RefusedWell

\* A curve's quoted meetings tile the time from the spot date, and a meeting is refused only for a
\* date that is not after spot or that another rolls to: api/compile.cpp:198 chained_meeting_starts.
THEOREM MeetingsAreChained == CompileSpec => []MeetingsTile
<1>1. CompileInit => ToldInv BY CompileInitInv, InitTold DEF ToldInv
<1>2. ToldInv /\ [CompileNext]_compileVars => ToldInv' BY ToldStep
<1> QED BY <1>1, <1>2, DoneTiles, PTL DEF CompileSpec

----------------------------------------------------------------------------
(* The driver of a calibration.                                            *)


Running == {"pass", "region", "search", "trial"}
Begun == Running \cup {"solved", "report", "done"}
Ended == {"report", "done"}

(* The current point's norm is over the rows of this solve, is a number,   *)
(* and is no larger than the seed's.                                       *)
Descends ==
  pc \in Begun =>
    /\ problem.norm[problem.seed] # NaN
    /\ problem.norm[x] # NaN
    /\ fnorm = Norm(problem, anchored, x)
    /\ fnorm <= Norm(problem, anchored, problem.seed)

(* A solve that goes on has an evaluation left for its next trial.         *)
Affords ==
  /\ pc \in Running => nfev = 1 \/ nfev < MaxFev
  /\ nfev <= Greatest(MaxFev, 2)
  /\ pc \in Begun => iters < nfev

(* The result says which solves there have been.                           *)
Accounts ==
  /\ iters = 0 => x = problem.seed
  /\ pc = "seed" => ~anchored /\ res.deficiency = 0 /\ res.iterations = 0
  /\ pc \in Begun => anchored = (res.deficiency > 0)
  /\ pc \in Running \cup {"solved"} => (~anchored => res.iterations = 0)
  /\ pc = "solved" => info \in 0 .. 8 /\ (info = 0 => ~anchored /\ problem.rows < NKnots)
  /\ pc \in Ended => res.info \in 1 .. 8 /\ jacobianAt = x /\ iters <= res.iterations
  /\ pc = "done" => res.rms = problem.norm[x] /\ res.converged = (res.info # 5)

Inv == TypeOK /\ Descends /\ Affords /\ Accounts /\ BracketHoldsRoot

(* What the assumption says of a problem.                                  *)
LEMMA ProblemType ==
  ASSUME NEW p \in Problems
  PROVE  /\ p.seed \in Coordinates /\ p.rows \in Nat
         /\ \A y \in Coordinates : y \in Int /\ p.norm[y] \in Nat \cup {-1}
  BY LmAssumption DEF LmAssumption, NaN

(* A norm is a whole number of levels and a pull, or not a number.         *)
LEMMA NormType ==
  ASSUME NEW p \in Problems, NEW a \in BOOLEAN, NEW y \in Coordinates
  PROVE  /\ Norm(p, a, y) \in Int
         /\ Norm(p, a, y) # NaN <=> p.norm[y] # NaN
         /\ p.norm[y] # NaN => Norm(p, a, y) >= 0
<1> DEFINE pull == IF a THEN Abs(y - p.seed) ELSE 0
<1>1. pull \in Nat  BY ProblemType DEF Abs
<1>2. p.norm[y] \in Nat \cup {-1} /\ Spread \in Nat  BY ProblemType, LmAssumption DEF LmAssumption
<1>3. p.norm[y] # -1 => Spread * p.norm[y] \in Nat  BY <1>2
<1>4. Norm(p, a, y) = IF p.norm[y] = -1 THEN -1 ELSE Spread * p.norm[y] + pull  BY DEF Norm, NaN
<1> HIDE DEF pull
<1> QED  BY <1>1, <1>2, <1>3, <1>4 DEF NaN

LEMMA LevelsApart ==
  ASSUME NEW u \in Nat, NEW v \in Nat, NEW s \in Nat, v + 1 <= u
  PROVE  s * v + s <= s * u
<1> DEFINE k == u - (v + 1)
<1>1. k \in Nat /\ u = v + 1 + k  OBVIOUS
<1> HIDE DEF k
<1>2. s * k \in Nat  BY <1>1
<1>3. s * u = s * v + s + s * k  BY <1>1
<1> QED  BY <1>2, <1>3

(* Fewer levels, or as many and no farther from the seed: a point whose    *)
(* norm is at most the seed's has at most its residual, and is the seed    *)
(* itself when the anchored norm has nothing but the pull to gain.         *)
LEMMA NoWorseThanSeed ==
  ASSUME NEW p \in Problems, NEW a \in BOOLEAN, NEW y \in Coordinates,
         p.norm[y] # NaN, p.norm[p.seed] # NaN, Norm(p, a, y) <= Norm(p, a, p.seed)
  PROVE  /\ 0 <= p.norm[y] /\ p.norm[y] <= p.norm[p.seed]
         /\ a /\ p.norm[y] = p.norm[p.seed] => y = p.seed
<1>1. p.seed \in Coordinates /\ p.seed \in Int /\ y \in Int /\ p.norm[y] \in Nat /\ p.norm[p.seed] \in Nat
  BY ProblemType DEF NaN
<1>2. Spread \in Nat \ {0}  BY LmAssumption DEF LmAssumption
<1> DEFINE pull == IF a THEN Abs(y - p.seed) ELSE 0
<1>3. pull \in Nat /\ (a /\ pull = 0 => y = p.seed)  BY <1>1 DEF Abs
<1>4. Norm(p, a, y) = Spread * p.norm[y] + pull  BY DEF Norm
<1>5. Norm(p, a, p.seed) = Spread * p.norm[p.seed]  BY <1>1, <1>2 DEF Norm, Abs
<1> HIDE DEF pull
<1>6. Spread * p.norm[y] + pull <= Spread * p.norm[p.seed]  BY <1>4, <1>5
<1>7. p.norm[y] <= p.norm[p.seed]
  <2>2. SUFFICES ASSUME p.norm[p.seed] + 1 <= p.norm[y] PROVE FALSE  BY <1>1
  <2>3. Spread * p.norm[p.seed] + Spread <= Spread * p.norm[y]  BY <1>1, <1>2, <2>2, LevelsApart
  <2> QED  BY <1>1, <1>2, <1>3, <1>6, <2>3
<1>8. p.norm[y] = p.norm[p.seed] => pull = 0  BY <1>1, <1>2, <1>3, <1>6
<1> QED  BY <1>1, <1>3, <1>7, <1>8

LEMMA InitInv == Init => Inv
  <1> SUFFICES ASSUME Init PROVE Inv  OBVIOUS
  <1>1. problem.seed \in Coordinates  BY ProblemType DEF Init
  <1>2. MaxPar \in Nat /\ MaxFev \in Nat \ {0} /\ NKnots \in Nat  BY LmAssumption DEF LmAssumption
  <1>3. TypeOK
    <2>1. res \in Results
      BY <1>2 DEF Init, NaN, Results
    <2>2. search \in Searches
      BY <1>2 DEF Init, Idle, Searches
    <2>3. fnorm \in Int /\ delta \in Nat /\ par \in 0 .. MaxPar /\ gnorm \in 0 .. 2 /\ pnorm \in Nat
      BY <1>2 DEF Init
    <2>4. nfev \in Nat /\ iters \in Nat /\ info \in -2 .. 8  BY DEF Init
    <2>5. x \in Coordinates /\ jacobianAt \in Coordinates /\ problem \in Problems  BY <1>1 DEF Init
    <2> QED  BY <2>1, <2>2, <2>3, <2>4, <2>5 DEF Init, TypeOK
  <1> QED  BY <1>2, <1>3 DEF Init, Inv, Descends, Affords, Accounts, BracketHoldsRoot, Running, Begun, Ended, Greatest

Facts == /\ MaxPar \in Nat \ {0} /\ MaxFev \in Nat \ {0} /\ MaxTrials \in Nat \ {0}
         /\ NKnots \in Nat \ {0} /\ Factor \in Nat \ {0}

LEMMA ConstantFacts == Facts
  BY LmAssumption DEF LmAssumption, Facts

(* Every length a step can have is a natural number.                       *)
LEMMA LengthType == TypeOK => Lengths \subseteq Nat
<1> SUFFICES ASSUME TypeOK, NEW y \in Coordinates PROVE Abs(y - x) \in Nat  BY DEF Lengths
<1> QED  BY LmAssumption DEF LmAssumption, TypeOK, Abs

(* A call of lm_normal_equations starts a solve with its own counts at the *)
(* seed, or refuses one short of rows.                                     *)
LEMMA StartInv ==
  ASSUME TypeOK, NEW a \in BOOLEAN, StartSolve(a), problem.norm[problem.seed] # NaN,
         UNCHANGED <<problem, search, pnorm>>, jacobianAt' \in Coordinates, gnorm' \in 0 .. 2,
         res' \in Results,
         a = (res'.deficiency > 0), ~a => res'.iterations = 0
  PROVE  Inv'
<1>1. problem \in Problems /\ problem.seed \in Coordinates /\ problem.rows \in Nat  BY ProblemType DEF TypeOK
<1>2. Norm(problem, a, problem.seed) \in Int  BY <1>1, NormType
<1>3. pc' \in {"solved", "pass"} /\ (info' = info \/ info' = 0)
  BY DEF StartSolve
<1>4. TypeOK'  BY <1>1, <1>2, <1>3, ConstantFacts DEF StartSolve, TypeOK, Facts
<1>5. Descends'  BY <1>2 DEF StartSolve, Descends
<1>6. Affords'  BY <1>3, ConstantFacts DEF StartSolve, Affords, Facts, Greatest
<1>7. Accounts'
  <2>1. pc' = "solved" => info' = 0 /\ Rows(a) < NKnots  BY DEF StartSolve
  <2>2. Rows(a) < NKnots => ~a /\ problem.rows < NKnots  BY <1>1, ConstantFacts DEF Rows, Facts
  <2> QED  BY <1>1, <1>3, <2>1, <2>2 DEF StartSolve, Accounts, Ended, Running
<1>8. BracketHoldsRoot'  BY <1>3 DEF BracketHoldsRoot
<1> QED  BY <1>4, <1>5, <1>6, <1>7, <1>8 DEF Inv

(* A trial of the damping search keeps the root between its ends.          *)
LEMMA NarrowKeepsRoot ==
  ASSUME TypeOK, BracketHoldsRoot, NextTrial
  PROVE  /\ search' \in Searches
         /\ BracketHoldsRoot'
<1>1. PICK newton \in 0 .. search.root :
        /\ search.par < search.root => newton >= search.par
        /\ search' = Narrow(search, newton)
  BY DEF NextTrial
<1>2. /\ search \in Searches
      /\ search.parl \in 0 .. MaxPar /\ search.paru \in 0 .. MaxPar /\ search.par \in 0 .. MaxPar
      /\ search.root \in 0 .. MaxPar /\ search.it \in Nat /\ Facts
  BY ConstantFacts DEF TypeOK, Searches
<1>3. /\ search.parl <= search.root /\ search.root <= search.paru
      /\ search.parl <= search.par /\ search.par <= search.paru /\ 0 < search.par /\ search.it < MaxTrials
  BY DEF BracketHoldsRoot, NextTrial
<1>4. newton \in Nat /\ newton <= search.root  BY <1>2
<1> DEFINE parl == IF search.par < search.root THEN Greatest(search.parl, search.par) ELSE search.parl
           paru == IF search.par < search.root THEN search.paru ELSE Least(search.paru, search.par)
           next == Greatest(1, Greatest(parl, newton))
<1>5. parl \in 0 .. MaxPar /\ paru \in 0 .. MaxPar /\ parl <= search.root /\ search.root <= paru
  BY <1>2, <1>3 DEF Greatest, Least, Facts
<1>6. 1 <= paru
  <2>1. CASE search.par < search.root  BY <1>2, <1>3, <2>1
  <2>2. CASE ~(search.par < search.root)  BY <1>2, <1>3, <2>2 DEF Least
  <2> QED  BY <2>1, <2>2
<1> HIDE DEF parl, paru
<1>7. next \in 0 .. MaxPar /\ 0 < next /\ parl <= next /\ next <= paru
  BY <1>2, <1>4, <1>5, <1>6 DEF Greatest, Facts
<1> HIDE DEF next
<1>8. search' = [search EXCEPT !.parl = parl, !.paru = paru, !.it = search.it + 1,
                               !.under = search.par > search.root, !.par = next]
  BY <1>1 DEF Narrow, parl, paru, next
<1>9. /\ search'.parl = parl /\ search'.paru = paru /\ search'.par = next
      /\ search'.root = search.root /\ search'.it = search.it + 1
  BY <1>2, <1>8 DEF Searches
<1>10. search' \in Searches
  <2>1. (search.par > search.root) \in BOOLEAN /\ search.it + 1 \in Nat  BY <1>2
  <2> QED  BY <1>2, <1>5, <1>7, <1>8, <2>1 DEF Searches
<1> QED  BY <1>2, <1>3, <1>5, <1>7, <1>9, <1>10 DEF BracketHoldsRoot, Facts

(* Each step keeps the invariant.                                          *)
LEMMA StepInv == Inv /\ [Next]_vars => Inv'
<1> SUFFICES ASSUME Inv, [Next]_vars PROVE Inv'  OBVIOUS
<1>0. TypeOK /\ Descends /\ Affords /\ Accounts /\ BracketHoldsRoot /\ Facts  BY ConstantFacts DEF Inv
<1>1. /\ problem \in Problems /\ problem.seed \in Coordinates /\ problem.rows \in Nat
      /\ \A y \in Coordinates : y \in Int /\ problem.norm[y] \in Nat \cup {NaN}
  BY <1>0, ProblemType DEF TypeOK, NaN
<1>2. Lengths \subseteq Nat  BY <1>0, LengthType
<1>3. res \in Results
  BY <1>0 DEF TypeOK
<1>4. CASE RefuseSeed
  BY <1>0, <1>4 DEF RefuseSeed, Inv, TypeOK, Descends, Affords, Accounts, BracketHoldsRoot, Running, Begun, Ended
<1>5. CASE FirstSolve
  
  <2>1. StartSolve(FALSE) /\ pc = "seed" /\ UNCHANGED <<problem, search, pnorm, jacobianAt, gnorm, res>>
    BY <1>5 DEF FirstSolve
  <2>2. problem.norm[problem.seed] # NaN  BY <1>5 DEF FirstSolve
  <2>3. res.deficiency = 0 /\ res.iterations = 0  BY <1>0, <2>1 DEF Accounts
  <2>4. jacobianAt' \in Coordinates /\ gnorm' \in 0 .. 2  BY <1>0, <2>1 DEF TypeOK
  <2>5. FALSE = (res'.deficiency > 0) /\ res'.iterations = 0 /\ res' \in Results  BY <1>3, <2>1, <2>3
  <2> QED  BY <1>0, <2>1, <2>2, <2>4, <2>5, StartInv
<1>6. CASE Pass
  <2>1. delta' \in Nat
    BY <1>0, <1>1, <1>6 DEF Pass, TypeOK, Abs, Facts
  <2> QED
    BY <1>0, <1>6, <2>1 DEF Pass, Inv, TypeOK, Descends, Affords, Accounts, BracketHoldsRoot, Running, Begun, Ended
<1>7. CASE GaussNewtonFits
  <2>1. pnorm' \in Nat  BY <1>2, <1>7 DEF GaussNewtonFits, Fitting
  <2> QED
    BY <1>0, <1>7, <2>1 DEF GaussNewtonFits, Inv, TypeOK, Descends, Affords, Accounts, BracketHoldsRoot, Running, Begun, Ended, Facts
<1>8. CASE OpenSearch
  <2>1. PICK parl \in 0 .. MaxPar, root \in 0 .. MaxPar, paru \in 1 .. MaxPar :
          /\ parl <= root /\ root <= paru
          /\ search' = [parl |-> parl, paru |-> paru, root |-> root,
                        par |-> IF Least(Greatest(par, parl), paru) = 0 THEN paru ELSE Least(Greatest(par, parl), paru),
                        it |-> 1, under |-> FALSE]
    BY <1>8 DEF OpenSearch
  <2> DEFINE start == IF Least(Greatest(par, parl), paru) = 0 THEN paru ELSE Least(Greatest(par, parl), paru)
  <2>2. start \in Nat /\ 0 < start /\ parl <= start /\ start <= paru
    BY <1>0, <2>1 DEF TypeOK, Facts, Least, Greatest
  <2> HIDE DEF start
  <2>3. search' = [parl |-> parl, paru |-> paru, root |-> root, par |-> start, it |-> 1, under |-> FALSE]
    BY <2>1 DEF start
  <2>4. search' \in Searches /\ BracketHoldsRoot'
    BY <1>0, <2>1, <2>2, <2>3 DEF BracketHoldsRoot, Facts, Searches
  <2> QED
    BY <1>0, <1>8, <2>4 DEF OpenSearch, Inv, TypeOK, Descends, Affords, Accounts, Running, Begun, Ended
<1>9. CASE SettleSearch
  <2>1. pnorm' \in Nat  BY <1>2, <1>9 DEF SettleSearch, Fitting, AtRadius, Longer
  <2> QED
    BY <1>0, <1>9, <2>1 DEF SettleSearch, Inv, TypeOK, Descends, Affords, Accounts, BracketHoldsRoot, Running, Begun, Ended, Idle, Searches, Facts
<1>10. CASE NextTrial
  <2>1. /\ search' \in Searches
        /\ BracketHoldsRoot'
    BY <1>0, <1>10, NarrowKeepsRoot
  <2> QED
    BY <1>0, <1>10, <2>1 DEF NextTrial, Inv, TypeOK, Descends, Affords, Accounts, Running, Begun, Ended
<1>11. CASE Trial
  <2> DEFINE r0 == IF iters = 0 THEN Least(delta, pnorm) ELSE delta
             Takes(xnew, f1, ratio, settled) ==
               /\ ratio \in Ratios(f1)
               /\ delta' \in Radii(r0, f1, ratio)
               /\ par' \in Damping(ratio)
               /\ nfev' = nfev + 1
               /\ IF Accepted(ratio, f1) THEN x' = xnew /\ fnorm' = f1 /\ iters' = iters + 1
                  ELSE UNCHANGED <<x, fnorm, iters>>
               /\ info' = StopCode(settled, delta', x', nfev')
               /\ pc' = IF info' # 0 THEN "solved" ELSE IF Accepted(ratio, f1) THEN "pass" ELSE "region"
  <2>0. \E xnew \in Coordinates : \E ratio \in Ratios(Norm(problem, anchored, xnew)) :
          \E settled \in MaySettle(Norm(problem, anchored, xnew), ratio) :
            Takes(xnew, Norm(problem, anchored, xnew), ratio, settled)
    BY <1>11 DEF Trial
  <2>1. PICK xnew \in Coordinates : \E ratio \in Ratios(Norm(problem, anchored, xnew)) :
          \E settled \in MaySettle(Norm(problem, anchored, xnew), ratio) :
            Takes(xnew, Norm(problem, anchored, xnew), ratio, settled)
    BY <2>0
  <2> DEFINE f1 == Norm(problem, anchored, xnew)
  <2>1a. PICK ratio \in Ratios(f1) : \E settled \in MaySettle(f1, ratio) : Takes(xnew, f1, ratio, settled)
    BY <2>1
  <2>1b. PICK settled \in MaySettle(f1, ratio) : Takes(xnew, f1, ratio, settled)
    BY <2>1a
  <2>2. /\ ratio \in Ratios(f1)
        /\ delta' \in Radii(r0, f1, ratio)
        /\ par' \in Damping(ratio)
        /\ nfev' = nfev + 1
        /\ IF Accepted(ratio, f1) THEN x' = xnew /\ fnorm' = f1 /\ iters' = iters + 1
           ELSE UNCHANGED <<x, fnorm, iters>>
        /\ info' = StopCode(settled, delta', x', nfev')
        /\ pc' = IF info' # 0 THEN "solved" ELSE IF Accepted(ratio, f1) THEN "pass" ELSE "region"
    BY <2>1b
  <2>3. /\ f1 \in Int /\ (f1 # NaN <=> problem.norm[xnew] # NaN) /\ (problem.norm[xnew] # NaN => f1 >= 0)
    BY <1>0, <1>1, <2>1, NormType DEF TypeOK
  <2>4. r0 \in Nat  BY <1>0 DEF TypeOK, Least
  <2> HIDE DEF f1, r0, Takes
  <2>5. Accepted(ratio, f1) => f1 # NaN /\ f1 < fnorm
    BY <2>2 DEF Ratios, Reduces, Accepted
  <2>6. delta' \in Nat  BY <1>0, <2>2, <2>3, <2>4, <2>5 DEF Radii, Least, TypeOK
  <2>7. par' \in 0 .. MaxPar  BY <1>0, <2>2, <2>5 DEF Damping, Least, TypeOK, Facts
  <2>8. info' \in 0 .. 8 /\ (info' = 0 => nfev' < MaxFev)
    BY <1>0, <2>2, <2>6 DEF StopCode, TypeOK, Facts
  <2>9. x' \in Coordinates /\ fnorm' \in Int /\ iters' \in Nat  BY <1>0, <2>1, <2>2, <2>3 DEF TypeOK
  <2>10. pc = "trial" /\ pc' \in {"solved", "pass", "region"} /\ (pc' = "solved" <=> info' # 0)  BY <1>11, <2>2 DEF Trial
  <2>11. UNCHANGED <<problem, anchored, jacobianAt, gnorm, search, res>> /\ pnorm' = 0  BY <1>11 DEF Trial
  <2>12. TypeOK'
    BY <1>0, <2>2, <2>6, <2>7, <2>8, <2>9, <2>10, <2>11 DEF TypeOK
  <2>13. Descends'
    <3>1. CASE Accepted(ratio, f1)
      BY <1>0, <1>1, <2>2, <2>3, <2>5, <2>10, <2>11, <3>1, NormType DEF Descends, Begun, Running, f1, TypeOK
    <3>2. CASE ~Accepted(ratio, f1)
      BY <1>0, <2>2, <2>10, <2>11, <3>2 DEF Descends, Begun, Running
    <3> QED  BY <3>1, <3>2
  <2>14. Affords'
    BY <1>0, <2>2, <2>8, <2>10 DEF Affords, Running, Begun, TypeOK, Greatest, Facts
  <2>15. Accounts'
    BY <1>0, <2>2, <2>8, <2>10, <2>11 DEF Accounts, Running, Begun, Ended, TypeOK
  <2>16. BracketHoldsRoot'  BY <2>10 DEF BracketHoldsRoot
  <2> QED  BY <2>12, <2>13, <2>14, <2>15, <2>16 DEF Inv
<1>12. CASE Solved
  <2>1. PICK d \in Deficiencies :
          /\ res' = Adopt(res, d)
          /\ IF d > 0 THEN StartSolve(TRUE)
             ELSE pc' = "report" /\ UNCHANGED <<anchored, x, fnorm, nfev, iters, delta, par, info>>
    BY <1>12 DEF Solved
  <2>2. /\ d \in 0 .. NKnots /\ (anchored => d = 0) /\ (~anchored => d >= NKnots - problem.rows)
    BY <1>0, <1>1, <2>1 DEF Deficiencies, Facts
  <2>3. pc = "solved" /\ jacobianAt' = x /\ gnorm' = 0 /\ UNCHANGED <<problem, search, pnorm>>  BY <1>12 DEF Solved
  <2>4. info \in 0 .. 8 /\ iters \in Nat /\ x \in Coordinates /\ anchored \in BOOLEAN  BY <1>0, <2>3 DEF Accounts, TypeOK
  <2>5. /\ res' \in Results /\ res'.info = info /\ res'.iterations = res.iterations + iters
        /\ res'.deficiency = IF anchored THEN res.deficiency ELSE d
    <3> DEFINE deficiency == IF anchored THEN res.deficiency ELSE d
    <3>1. deficiency \in 0 .. NKnots /\ res.iterations + iters \in Nat /\ info \in -2 .. 8
      BY <1>3, <2>2, <2>4 DEF Results
    <3>2. res' = [res EXCEPT !.info = info, !.iterations = res.iterations + iters, !.deficiency = deficiency]
      BY <2>1 DEF Adopt
    <3> HIDE DEF deficiency
    <3>3. /\ res' \in Results /\ res'.info = info /\ res'.iterations = res.iterations + iters
          /\ res'.deficiency = deficiency
      BY <1>3, <3>1, <3>2 DEF Results
    <3> QED  BY <3>3 DEF deficiency
  <2>6. CASE d > 0
    <3>0. StartSolve(TRUE)  BY <2>1, <2>6
    <3>a. d # 0  BY <2>2, <2>6
    <3>b. ~anchored  BY <2>2, <3>a, Zenon
    <3>1. StartSolve(TRUE) /\ ~anchored  BY <3>0, <3>b
    <3>2. TRUE = (res'.deficiency > 0) /\ problem.norm[problem.seed] # NaN
      BY <1>0, <2>2, <2>3, <2>5, <2>6, <3>1 DEF Descends, Begun
    <3>3. jacobianAt' \in Coordinates /\ gnorm' \in 0 .. 2  BY <2>3, <2>4
    <3> QED  BY <1>0, <2>3, <2>5, <3>1, <3>2, <3>3, StartInv
  <2>7. CASE d = 0
    <3>1. pc' = "report" /\ UNCHANGED <<anchored, x, fnorm, nfev, iters, delta, par, info>>  BY <2>1, <2>7
    <3>2. TypeOK'  BY <1>0, <2>3, <2>4, <2>5, <3>1 DEF TypeOK
    <3>3. Descends' /\ Affords' /\ BracketHoldsRoot'
      BY <1>0, <2>3, <3>1 DEF Descends, Affords, BracketHoldsRoot, Begun, Running, Norm
    <3>4. info # 0
      BY <1>0, <1>1, <2>2, <2>3, <2>4, <2>7 DEF Accounts, Facts
    <3>5. Accounts'
      <4>0. anchored = (res.deficiency > 0)  BY <1>0, <2>3 DEF Accounts, Begun
      <4>1. anchored = (res'.deficiency > 0)
        <5>1. CASE anchored
          <6>1. res'.deficiency = res.deficiency  BY <2>5, <5>1
          <6> QED  BY <4>0, <6>1
        <5>2. CASE ~anchored
          <6>1. res'.deficiency = 0  BY <2>5, <2>7, <5>2
          <6>2. ~(res'.deficiency > 0)  BY <6>1
          <6> QED  BY <5>2, <6>2, <2>4
        <5> QED  BY <5>1, <5>2
      <4>2. iters <= res'.iterations /\ res'.info \in 1 .. 8  BY <1>3, <2>4, <2>5, <3>4 DEF Results
      <4> QED  BY <1>0, <2>3, <3>1, <4>1, <4>2 DEF Accounts, Begun, Running, Ended
    <3> QED  BY <3>2, <3>3, <3>5 DEF Inv
  <2> QED  BY <2>2, <2>6, <2>7
<1>13. CASE Report
  <2>1. /\ pc = "report" /\ pc' = "done"
        /\ UNCHANGED <<problem, anchored, x, fnorm, jacobianAt, delta, par, gnorm, search, pnorm, nfev, iters, info>>
    BY <1>13 DEF Report
  <2>2. problem.norm[x] # NaN /\ problem.norm[x] \in Int  BY <1>0, <1>1, <2>1 DEF Descends, Begun, TypeOK, NaN
  <2>3. res' = [res EXCEPT !.rms = problem.norm[x], !.converged = res.info \in (1 .. 8) \ {5} /\ problem.norm[x] # NaN]
    BY <1>13 DEF Report
  <2>4. /\ res'.rms = problem.norm[x] /\ res'.converged = (res.info \in (1 .. 8) \ {5} /\ problem.norm[x] # NaN)
        /\ res'.info = res.info /\ res'.iterations = res.iterations /\ res'.deficiency = res.deficiency
    BY <1>3, <2>3 DEF Results
  <2>5. res' \in Results  BY <1>3, <2>2, <2>3 DEF Results
  <2>6. res.info \in 1 .. 8 /\ jacobianAt = x /\ iters <= res.iterations  BY <1>0, <2>1 DEF Accounts, Ended
  <2>7. TypeOK'  BY <1>0, <2>1, <2>5 DEF TypeOK
  <2>8. Descends' /\ Affords' /\ BracketHoldsRoot'
    BY <1>0, <2>1 DEF Descends, Affords, BracketHoldsRoot, Begun, Running, Norm
  <2>9. Accounts'
    BY <1>0, <2>1, <2>2, <2>4, <2>6 DEF Accounts, Begun, Running, Ended
  <2> QED  BY <2>7, <2>8, <2>9 DEF Inv
<1>14. CASE UNCHANGED vars
  BY <1>0, <1>14 DEF vars, Inv, TypeOK, Descends, Affords, Accounts, BracketHoldsRoot, Running, Begun, Ended, Norm
<1> QED  BY <1>4, <1>5, <1>6, <1>7, <1>8, <1>9, <1>10, <1>11, <1>12, <1>13, <1>14 DEF Next

----------------------------------------------------------------------------
LEMMA Invariant == Spec => []Inv
<1>1. Init => Inv  BY InitInv
<1>2. Inv /\ [Next]_vars => Inv'  BY StepInv
<1> QED  BY <1>1, <1>2, PTL DEF Spec

(* Every variable keeps its type.                                          *)
THEOREM TypeCorrect == Spec => []TypeOK
<1>1. Inv => TypeOK  BY DEF Inv
<1> QED  BY <1>1, Invariant, PTL

(* No calibration returns a point that fits worse than its seed, and a     *)
(* re-solve with nothing to gain returns the seed (calibrate_with).        *)
THEOREM ReturnsNoWorse == Spec => []NeverWorse
<1>1. Inv => NeverWorse
  <2> SUFFICES ASSUME Inv, pc = "done" PROVE
        /\ 0 <= problem.norm[x] /\ problem.norm[x] <= problem.norm[problem.seed]
        /\ anchored /\ problem.norm[x] = problem.norm[problem.seed] => x = problem.seed
    BY DEF NeverWorse
  <2>1. /\ problem \in Problems /\ anchored \in BOOLEAN /\ x \in Coordinates
        /\ problem.norm[x] # NaN /\ problem.norm[problem.seed] # NaN
        /\ Norm(problem, anchored, x) <= Norm(problem, anchored, problem.seed)
    BY DEF Inv, TypeOK, Descends, Begun
  <2> QED  BY <2>1, NoWorseThanSeed
<1> QED  BY <1>1, Invariant, PTL

(* The status, the counts and the statistics reported are those of the     *)
(* solve and the point returned (calibrate_with, finish_status).           *)
THEOREM StatusBelongs == Spec => []StatusIsOfTheResult
<1>1. Inv => StatusIsOfTheResult
  BY DEF Inv, TypeOK, Results, Accounts, StatusIsOfTheResult, Begun, Ended
<1> QED  BY <1>1, Invariant, PTL

(* The damping search never loses the parameter it looks for (Lmpar::run). *)
THEOREM SearchHoldsRoot == Spec => []BracketHoldsRoot
<1>1. Inv => BracketHoldsRoot  BY DEF Inv
<1> QED  BY <1>1, Invariant, PTL

(* No solve evaluates the residual past its limit (lm_normal_equations).   *)
THEOREM StaysInBudget == Spec => []EvaluationBudget
<1>1. Inv => EvaluationBudget
  <2> SUFFICES ASSUME Inv PROVE EvaluationBudget  OBVIOUS
  <2>1. pc # "seed" /\ pc # "refused" => pc \in Begun  BY DEF Inv, TypeOK, Begun, Running
  <2> QED  BY <2>1 DEF Inv, Affords, EvaluationBudget
<1> QED  BY <1>1, Invariant, PTL
=============================================================================
