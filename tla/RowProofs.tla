------------------------------ MODULE RowProofs ------------------------------
(***************************************************************************)
(* A row's residual, from the map of its quote to the answer the router    *)
(* serves.  The first part is the penalty map for every number of          *)
(* breakpoints, every ascending places and every slopes, and what the      *)
(* streamer's anchor records of it.  The second is the router: the blocks  *)
(* and their tables, the partition, the compiled engine's list, and that   *)
(* every evaluation answers every row by the quote its callers set last.   *)
(*                                                                         *)
(* Induction is used in the form of sets of naturals that hold 0 and are   *)
(* closed under successor; that form follows from the well-foundedness of  *)
(* the naturals.                                                           *)
(***************************************************************************)
EXTENDS AnchorSide, Router, FiniteSetTheorems, WellFoundedInduction, TLAPS

----------------------------------------------------------------------------
(* Induction and runs of integers.                                         *)

LEMMA SetInduction ==
  ASSUME NEW P, 0 \in P, \A n \in Nat : n \in P => n + 1 \in P
  PROVE  Nat \subseteq P
<1> DEFINE T == Nat \ P
<1> SUFFICES ASSUME T # {}
             PROVE  FALSE
  OBVIOUS
<1>1. PICK n \in T : \A y \in T : ~ (<<y, n>> \in OpToRel(<, Nat))
  BY WFMin, NatLessThanWellFounded, Zenon
<1>2. n # 0 /\ n - 1 \in Nat
  OBVIOUS
<1>3. n - 1 \in T
  BY <1>2
<1>4. <<n-1, n>> \in OpToRel(<, Nat)
  BY <1>2 DEF OpToRel
<1>5. QED
  BY <1>1, <1>3, <1>4

\* A sum of differences, accumulated one term at a time from a.
LEMMA RunningSum ==
  ASSUME NEW a \in Int, NEW d \in [Nat -> Int], NEW n \in Nat
  PROVE  \E g \in [0..n -> Int] : g[0] = a /\ \A k \in 0..n-1 : g[k+1] = g[k] + d[k]
<1> DEFINE P == {i \in Nat : \E g \in [0..i -> Int] :
                               g[0] = a /\ \A k \in 0..i-1 : g[k+1] = g[k] + d[k]}
<1>1. 0 \in P
  <2> DEFINE g == [k \in 0..0 |-> a]
  <2>1. g \in [0..0 -> Int] /\ g[0] = a
    OBVIOUS
  <2>2. \A k \in 0..0-1 : g[k+1] = g[k] + d[k]
    OBVIOUS
  <2>3. QED
    BY <2>1, <2>2
<1>2. ASSUME NEW i \in Nat, i \in P
      PROVE  i + 1 \in P
  <2>1. PICK g \in [0..i -> Int] : g[0] = a /\ \A k \in 0..i-1 : g[k+1] = g[k] + d[k]
    BY <1>2
  <2> DEFINE h == [k \in 0..i+1 |-> IF k = i + 1 THEN g[i] + d[i] ELSE g[k]]
  <2>2. h \in [0..i+1 -> Int]
    <3>1. g[i] \in Int /\ d[i] \in Int
      OBVIOUS
    <3>2. g[i] + d[i] \in Int
      BY <3>1
    <3>3. QED
      BY <3>2
  <2>3. h[0] = a
    BY <2>1
  <2>4. ASSUME NEW k \in 0..(i+1)-1
        PROVE  h[k+1] = h[k] + d[k]
    BY <2>1
  <2>5. \E e \in [0..i+1 -> Int] : e[0] = a /\ \A k \in 0..(i+1)-1 : e[k+1] = e[k] + d[k]
    <3> HIDE DEF h
    <3>1. QED
      BY <2>2, <2>3, <2>4
  <2>6. i + 1 \in Nat
    OBVIOUS
  <2>7. QED
    BY <2>5, <2>6
<1>3. n \in P
  <2> HIDE DEF P
  <2>1. QED
    BY <1>1, <1>2, SetInduction
<1>4. QED
  BY <1>3

\* A set of integers with a least bound a that is closed downwards is a run from a.
LEMMA RunUp ==
  ASSUME NEW a \in Int, NEW z \in Int, NEW A \in SUBSET (a..z),
         \A j \in A : \A i \in a..j : i \in A
  PROVE  /\ Cardinality(A) \in Nat
         /\ A = a..a + Cardinality(A) - 1
         /\ Cardinality(A) > 0 => a + Cardinality(A) - 1 <= z
<1> DEFINE T == {c \in Nat : a + c \notin A}
<1>1. IsFiniteSet(A)
  BY FS_Interval, FS_Subset
<1>2. T # {}
  <2>1. CASE a > z
    <3>1. 0 \in T
      BY <2>1
    <3>2. QED
      BY <3>1
  <2>2. CASE a <= z
    <3>1. z - a + 1 \in Nat /\ a + (z - a + 1) = z + 1 /\ z - (z - a + 1) = a - 1
      BY <2>2
    <3>2. z + 1 \notin A /\ a - 1 \notin A
      OBVIOUS
    <3>3. z - a + 1 \in T
      BY <3>1, <3>2
    <3>4. QED
      BY <3>3
  <2>3. QED
    BY <2>1, <2>2
<1>3. PICK c \in T : \A y \in T : ~ (<<y, c>> \in OpToRel(<, Nat))
  BY <1>2, WFMin, NatLessThanWellFounded, Zenon
<1>4. \A y \in 0..c-1 : a + y \in A
  <2>1. SUFFICES ASSUME NEW y \in 0..c-1, y \in T
                 PROVE  FALSE
    OBVIOUS
  <2>2. <<y, c>> \in OpToRel(<, Nat)
    BY <2>1 DEF OpToRel
  <2>3. QED
    BY <1>3, <2>1, <2>2
<1>5. a..a + c - 1 \subseteq A
  <2>1. SUFFICES ASSUME NEW i \in a..a + c - 1
                 PROVE  i \in A
    OBVIOUS
  <2>2. i - a \in 0..c-1 /\ i = a + (i - a)
    OBVIOUS
  <2>3. QED
    BY <1>4, <2>2
<1>6. A \subseteq a..a + c - 1
  <2>1. SUFFICES ASSUME NEW j \in A, j > a + c - 1
                 PROVE  FALSE
    OBVIOUS
  <2>2. a + c \in a..j
    BY <2>1
  <2>3. QED
    BY <1>3, <2>2
<1>7. A = a..a + c - 1 /\ c \in Nat
  BY <1>5, <1>6
<1>8. Cardinality(A) = c
  BY <1>7, FS_Interval
<1>9. c > 0 => a + c - 1 <= z
  <2>1. c > 0 => a + c - 1 \in A
    BY <1>7
  <2>2. QED
    BY <2>1
<1>10. QED
  BY <1>7, <1>8, <1>9

\* One that is closed upwards is a run to z.
LEMMA RunDown ==
  ASSUME NEW a \in Int, NEW z \in Int, NEW A \in SUBSET (a..z),
         \A j \in A : \A i \in j..z : i \in A
  PROVE  /\ Cardinality(A) \in Nat
         /\ A = z - Cardinality(A) + 1..z
         /\ Cardinality(A) > 0 => z - Cardinality(A) + 1 >= a
<1> DEFINE T == {c \in Nat : z - c \notin A}
<1>1. T # {}
  <2>1. CASE a > z
    <3>1. 0 \in T
      BY <2>1
    <3>2. QED
      BY <3>1
  <2>2. CASE a <= z
    <3>1. z - a + 1 \in Nat /\ a + (z - a + 1) = z + 1 /\ z - (z - a + 1) = a - 1
      BY <2>2
    <3>2. z + 1 \notin A /\ a - 1 \notin A
      OBVIOUS
    <3>3. z - a + 1 \in T
      BY <3>1, <3>2
    <3>4. QED
      BY <3>3
  <2>3. QED
    BY <2>1, <2>2
<1>2. PICK c \in T : \A y \in T : ~ (<<y, c>> \in OpToRel(<, Nat))
  BY <1>1, WFMin, NatLessThanWellFounded, Zenon
<1>3. \A y \in 0..c-1 : z - y \in A
  <2>1. SUFFICES ASSUME NEW y \in 0..c-1, y \in T
                 PROVE  FALSE
    OBVIOUS
  <2>2. <<y, c>> \in OpToRel(<, Nat)
    BY <2>1 DEF OpToRel
  <2>3. QED
    BY <1>2, <2>1, <2>2
<1>4. z - c + 1..z \subseteq A
  <2>1. SUFFICES ASSUME NEW i \in z - c + 1..z
                 PROVE  i \in A
    OBVIOUS
  <2>2. z - i \in 0..c-1 /\ i = z - (z - i)
    OBVIOUS
  <2>3. QED
    BY <1>3, <2>2
<1>5. A \subseteq z - c + 1..z
  <2>1. SUFFICES ASSUME NEW j \in A, j < z - c + 1
                 PROVE  FALSE
    OBVIOUS
  <2>2. z - c \in j..z
    BY <2>1
  <2>3. QED
    BY <1>2, <2>2
<1>6. A = z - c + 1..z /\ c \in Nat
  BY <1>4, <1>5
<1>7. Cardinality(A) = c
  BY <1>6, FS_Interval
<1>8. c > 0 => z - c + 1 >= a
  <2>1. c > 0 => z - c + 1 \in A
    BY <1>6
  <2>2. QED
    BY <2>1
<1>9. QED
  BY <1>6, <1>7, <1>8

----------------------------------------------------------------------------
(* The map.                                                                *)

LEMMA ProductsOrdered ==
  ASSUME NEW a \in Int, NEW b \in Int, NEW s \in Nat
  PROVE  /\ a <= b => a * s <= b * s
         /\ s > 0 /\ a < b => a * s < b * s
         /\ a * s \in Int
  BY SMT

LEMMA QuotientOfProduct ==
  ASSUME NEW a \in Int, NEW s \in Nat, s > 0
  PROVE  (a * s) \div s = a
  BY SMT

\* A map: ascending breakpoints, a slope for every piece.
IsMap(f) ==
    /\ f.n \in Nat
    /\ f.b \in [0..f.n-1 -> Int]
    /\ f.s \in [0..f.n -> Nat]
    /\ \A j \in 1..f.n-1 : f.b[j-1] < f.b[j]

LEMMA PlacesAscend ==
  ASSUME NEW f, IsMap(f), NEW i \in 0..f.n-1, NEW j \in 0..f.n-1, i < j
  PROVE  f.b[i] < f.b[j]
<1> USE DEF IsMap
<1> DEFINE P == {d \in Nat : i + d + 1 <= f.n - 1 => f.b[i] < f.b[i + d + 1]}
<1>1. 0 \in P
  <2>1. i + 1 <= f.n - 1 => f.b[(i+1)-1] < f.b[i+1]
    OBVIOUS
  <2>2. (i + 1) - 1 = i /\ i + 0 + 1 = i + 1
    OBVIOUS
  <2>3. QED
    BY <2>1, <2>2
<1>2. ASSUME NEW d \in Nat, d \in P
      PROVE  d + 1 \in P
  <2>1. SUFFICES ASSUME i + (d + 1) + 1 <= f.n - 1
                 PROVE  f.b[i] < f.b[i + (d + 1) + 1]
    OBVIOUS
  <2>2. f.b[i] < f.b[i + d + 1]
    BY <1>2, <2>1
  <2>3. f.b[(i + d + 2) - 1] < f.b[i + d + 2]
    BY SMTT(20), <2>1
  <2>4. (i + d + 2) - 1 = i + d + 1 /\ i + (d + 1) + 1 = i + d + 2
    OBVIOUS
  <2>5. f.b[i] \in Int /\ f.b[i + d + 1] \in Int /\ f.b[i + d + 2] \in Int
    <3>1. i + d + 1 \in 0..f.n-1 /\ i + d + 2 \in 0..f.n-1
      BY SMTT(20), <2>1
    <3>2. QED
      BY <3>1
  <2>6. QED
    BY SMTT(20), <2>2, <2>3, <2>4, <2>5
<1>3. j - i - 1 \in P
  <2> HIDE DEF P
  <2>1. j - i - 1 \in Nat
    OBVIOUS
  <2>2. QED
    BY <1>1, <1>2, <2>1, SetInduction
<1>4. i + (j - i - 1) + 1 = j
  OBVIOUS
<1>5. QED
  BY <1>3, <1>4

\* The recurrence at_break() walks, as a fact about the function: such a function exists.
WalksFrom(f, m0, t, r) ==
    \A j \in 0..f.n-1 :
        r[j] = IF j >= t
               THEN IF j = t THEN (f.b[t] - m0) * f.s[t]
                    ELSE r[j-1] + (f.b[j] - f.b[j-1]) * f.s[j]
               ELSE IF j = t - 1 THEN (f.b[t-1] - m0) * f.s[t]
                    ELSE r[j+1] + (f.b[j] - f.b[j+1]) * f.s[j+1]

\* A function that does so is one to the integers, whichever it is.
LEMMA WalkIsInteger ==
  ASSUME NEW f, IsMap(f), NEW m0 \in Int, NEW t \in 0..f.n, NEW r, WalksFrom(f, m0, t, r)
  PROVE  \A j \in 0..f.n-1 : r[j] \in Int
<1>0. f.n \in Nat /\ f.b \in [0..f.n-1 -> Int] /\ f.s \in [0..f.n -> Nat] /\ t \in Nat /\ t <= f.n
  BY DEF IsMap
<1> DEFINE Up   == {k \in Nat : t + k <= f.n - 1 => r[t + k] \in Int}
           Down == {k \in Nat : t - 1 - k >= 0 => r[t - 1 - k] \in Int}
<1>1. 0 \in Up
  <2> SUFFICES ASSUME t <= f.n - 1 PROVE r[t] \in Int
    BY <1>0
  <2>1. r[t] = (f.b[t] - m0) * f.s[t]
    BY <1>0 DEF WalksFrom
  <2>2. t \in 0..f.n-1 /\ t \in 0..f.n
    BY <1>0
  <2>3. f.b[t] \in Int /\ f.s[t] \in Nat
    BY <1>0, <2>2
  <2>4. QED
    BY <2>1, <2>3
<1>2. ASSUME NEW k \in Nat, k \in Up PROVE k + 1 \in Up
  <2> SUFFICES ASSUME t + (k + 1) <= f.n - 1 PROVE r[t + (k + 1)] \in Int
    OBVIOUS
  <2>1. PICK j : j = t + (k + 1)
    OBVIOUS
  <2>2. /\ j \in 0..f.n-1 /\ j - 1 \in 0..f.n-1 /\ j \in 0..f.n /\ j > t
        /\ j - 1 = t + k /\ t + k <= f.n - 1
    BY SMTT(20), <1>0, <2>1
  <2>3. r[j-1] \in Int
    BY <1>2, <2>2
  <2>4. r[j] = r[j-1] + (f.b[j] - f.b[j-1]) * f.s[j]
    BY <1>0, <2>2 DEF WalksFrom
  <2>5. f.b[j] \in Int /\ f.b[j-1] \in Int /\ f.s[j] \in Nat
    BY <1>0, <2>2
  <2>6. r[j] \in Int
    BY <2>3, <2>4, <2>5
  <2>7. QED
    BY <2>1, <2>6
<1>3. 0 \in Down
  <2> SUFFICES ASSUME t - 1 >= 0 PROVE r[t - 1] \in Int
    BY <1>0
  <2>1. r[t-1] = (f.b[t-1] - m0) * f.s[t]
    BY <1>0 DEF WalksFrom
  <2>2. t - 1 \in 0..f.n-1 /\ t \in 0..f.n
    BY <1>0
  <2>3. f.b[t-1] \in Int /\ f.s[t] \in Nat
    BY <1>0, <2>2
  <2>4. QED
    BY <2>1, <2>3
<1>4. ASSUME NEW k \in Nat, k \in Down PROVE k + 1 \in Down
  <2> SUFFICES ASSUME t - 1 - (k + 1) >= 0 PROVE r[t - 1 - (k + 1)] \in Int
    OBVIOUS
  <2>1. PICK j : j = t - 1 - (k + 1)
    OBVIOUS
  <2>2. /\ j \in 0..f.n-1 /\ j + 1 \in 0..f.n-1 /\ j + 1 \in 0..f.n /\ j < t - 1
        /\ j + 1 = t - 1 - k /\ t - 1 - k >= 0
    BY <1>0, <2>1
  <2>3. r[j+1] \in Int
    BY <1>4, <2>2
  <2>4. r[j] = r[j+1] + (f.b[j] - f.b[j+1]) * f.s[j+1]
    BY <1>0, <2>2 DEF WalksFrom
  <2>5. f.b[j] \in Int /\ f.b[j+1] \in Int /\ f.s[j+1] \in Nat
    BY <1>0, <2>2
  <2>6. r[j] \in Int
    BY <2>3, <2>4, <2>5
  <2>7. QED
    BY <2>1, <2>6
<1>5. Nat \subseteq Up /\ Nat \subseteq Down
  <2> HIDE DEF Up, Down
  <2>1. Nat \subseteq Up
    BY <1>1, <1>2, SetInduction
  <2>2. Nat \subseteq Down
    BY <1>3, <1>4, SetInduction
  <2>3. QED
    BY <2>1, <2>2
<1>6. ASSUME NEW j \in 0..f.n-1 PROVE r[j] \in Int
  <2>1. CASE j >= t
    <3>1. PICK k \in Nat : j = t + k
      <4>1. j - t \in Nat /\ j = t + (j - t)
        BY <1>0, <2>1
      <4>2. QED
        BY <4>1
    <3>2. k \in Up /\ t + k <= f.n - 1
      BY <1>0, <1>5, <3>1
    <3>3. r[t + k] \in Int
      BY <3>2
    <3>4. QED
      BY <3>1, <3>3
  <2>2. CASE j < t
    <3>1. PICK k \in Nat : j = t - 1 - k
      <4>1. t - 1 - j \in Nat /\ j = t - 1 - (t - 1 - j)
        BY <1>0, <2>2
      <4>2. QED
        BY <4>1
    <3>2. k \in Down /\ t - 1 - k >= 0
      BY <1>0, <1>5, <3>1
    <3>3. r[t - 1 - k] \in Int
      BY <3>2
    <3>4. QED
      BY <3>1, <3>3
  <2>3. QED
    BY <1>0, <2>1, <2>2
<1>7. QED
  BY <1>6

LEMMA AtBreakWalks ==
  ASSUME NEW f, IsMap(f), NEW m0 \in Int, NEW t \in 0..f.n
  PROVE  /\ AtBreak(f, m0, t) \in [0..f.n-1 -> Int]
         /\ WalksFrom(f, m0, t, AtBreak(f, m0, t))
<1> DEFINE up   == [k \in Nat |-> IF t + k + 1 <= f.n - 1
                                  THEN (f.b[t + k + 1] - f.b[t + k]) * f.s[t + k + 1] ELSE 0]
           down == [k \in Nat |-> IF t - k - 2 >= 0
                                  THEN (f.b[t - k - 2] - f.b[t - k - 1]) * f.s[t - k - 1] ELSE 0]
           a == IF t <= f.n - 1 THEN (f.b[t] - m0) * f.s[t] ELSE 0
           c == IF t >= 1 THEN (f.b[t-1] - m0) * f.s[t] ELSE 0
<1>0. f.n \in Nat /\ f.b \in [0..f.n-1 -> Int] /\ f.s \in [0..f.n -> Nat]
  BY DEF IsMap
<1>1. up \in [Nat -> Int] /\ down \in [Nat -> Int] /\ a \in Int /\ c \in Int
  <2>1. ASSUME NEW k \in Nat, t + k + 1 <= f.n - 1
        PROVE  (f.b[t + k + 1] - f.b[t + k]) * f.s[t + k + 1] \in Int
    <3>1. t + k + 1 \in 0..f.n-1 /\ t + k \in 0..f.n-1 /\ t + k + 1 \in 0..f.n
      BY <1>0, <2>1
    <3>2. f.b[t + k + 1] \in Int /\ f.b[t + k] \in Int /\ f.s[t + k + 1] \in Nat
      BY <1>0, <3>1
    <3>3. QED
      BY <3>2
  <2>2. ASSUME NEW k \in Nat, t - k - 2 >= 0
        PROVE  (f.b[t - k - 2] - f.b[t - k - 1]) * f.s[t - k - 1] \in Int
    <3>1. t - k - 2 \in 0..f.n-1 /\ t - k - 1 \in 0..f.n-1 /\ t - k - 1 \in 0..f.n
      BY <1>0, <2>2
    <3>2. f.b[t - k - 2] \in Int /\ f.b[t - k - 1] \in Int /\ f.s[t - k - 1] \in Nat
      BY <1>0, <3>1
    <3>3. QED
      BY <3>2
  <2>3. t <= f.n - 1 => (f.b[t] - m0) * f.s[t] \in Int
    <3>1. t <= f.n - 1 => f.b[t] \in Int /\ f.s[t] \in Nat
      BY <1>0
    <3>2. QED
      BY <3>1
  <2>4. t >= 1 => (f.b[t-1] - m0) * f.s[t] \in Int
    <3>1. t >= 1 => f.b[t-1] \in Int /\ f.s[t] \in Nat
      BY SMTT(20), <1>0
    <3>2. QED
      BY <3>1
  <2>5. QED
    BY <2>1, <2>2, <2>3, <2>4
<1>2. PICK g \in [0..f.n -> Int] : g[0] = a /\ \A k \in 0..f.n-1 : g[k+1] = g[k] + up[k]
  <2> HIDE DEF up, a
  <2>1. QED
    BY ZenonT(60), <1>0, <1>1, RunningSum
<1>3. PICK h \in [0..f.n -> Int] : h[0] = c /\ \A k \in 0..f.n-1 : h[k+1] = h[k] + down[k]
  <2> HIDE DEF down, c
  <2>1. QED
    BY ZenonT(60), <1>0, <1>1, RunningSum
<1> DEFINE w == [j \in 0..f.n-1 |-> IF j >= t THEN g[j - t] ELSE h[t - 1 - j]]
<1>4. w \in [0..f.n-1 -> Int]
  <2> HIDE DEF up, down, a, c
  <2>1. ASSUME NEW j \in 0..f.n-1, j >= t PROVE g[j - t] \in Int
    <3>1. j - t \in 0..f.n
      BY <1>0, <2>1
    <3>2. QED
      BY <3>1
  <2>2. ASSUME NEW j \in 0..f.n-1, ~(j >= t) PROVE h[t - 1 - j] \in Int
    <3>1. t - 1 - j \in 0..f.n
      BY <1>0, <2>2
    <3>2. QED
      BY <3>1
  <2>3. QED
    BY <2>1, <2>2
<1>5. ASSUME NEW j \in 0..f.n-1
      PROVE  w[j] = IF j >= t
                    THEN IF j = t THEN (f.b[t] - m0) * f.s[t]
                         ELSE w[j-1] + (f.b[j] - f.b[j-1]) * f.s[j]
                    ELSE IF j = t - 1 THEN (f.b[t-1] - m0) * f.s[t]
                         ELSE w[j+1] + (f.b[j] - f.b[j+1]) * f.s[j+1]
  <2>1. CASE j = t
    <3>1. w[j] = g[0]
      BY <1>0, <2>1
    <3>2. t <= f.n - 1
      BY <1>0, <2>1
    <3>3. QED
      BY <1>2, <2>1, <3>1, <3>2
  <2>2. CASE j > t
    <3>1. j - 1 - t \in 0..f.n-1 /\ (j - 1 - t) + 1 = j - t /\ t + (j - 1 - t) + 1 = j
          /\ t + (j - 1 - t) = j - 1
      BY <1>0, <2>2
    <3>2. g[j - t] = g[j - 1 - t] + up[j - 1 - t]
      BY <1>2, <3>1
    <3>3. up[j - 1 - t] = (f.b[j] - f.b[j-1]) * f.s[j]
      <4>1. j - 1 - t \in Nat /\ j <= f.n - 1
        BY <1>0, <3>1
      <4>2. QED
        BY <3>1, <4>1
    <3>4. w[j] = g[j - t] /\ w[j-1] = g[j - 1 - t]
      BY <1>0, <2>2
    <3>5. QED
      BY <2>2, <3>2, <3>3, <3>4
  <2>3. CASE j = t - 1
    <3>1. w[j] = h[0] /\ ~(j >= t) /\ t - 1 >= 0
      BY <1>0, <2>3
    <3>2. QED
      BY <1>0, <1>3, <2>3, <3>1
  <2>4. CASE j < t - 1
    <3>1. t - 2 - j \in 0..f.n-1 /\ (t - 2 - j) + 1 = t - 1 - j
          /\ t - (t - 2 - j) - 2 = j /\ t - (t - 2 - j) - 1 = j + 1 /\ t - 2 - j \in Nat
      BY <1>0, <2>4
    <3>2. h[t - 1 - j] = h[t - 2 - j] + down[t - 2 - j]
      BY <1>3, <3>1
    <3>3. down[t - 2 - j] = (f.b[j] - f.b[j+1]) * f.s[j+1]
      <4>1. t - 2 - j \in Nat /\ j >= 0
        BY <1>0, <3>1
      <4>2. QED
        BY <3>1, <4>1
    <3>4. w[j] = h[t - 1 - j] /\ w[j+1] = h[t - 2 - j]
      <4>1. ~(j >= t) /\ j + 1 \in 0..f.n-1 /\ ~(j + 1 >= t) /\ t - 1 - (j + 1) = t - 2 - j
        BY <1>0, <2>4
      <4>2. w[j] = h[t - 1 - j]
        BY <4>1
      <4>3. w[j+1] = h[t - 1 - (j + 1)]
        BY <4>1
      <4>4. QED
        BY <4>1, <4>2, <4>3
    <3>5. QED
      BY <2>4, <3>2, <3>3, <3>4
  <2>5. QED
    BY <2>1, <2>2, <2>3, <2>4
<1> HIDE DEF w, up, down, a, c
<1> DEFINE body(r, j) ==
            IF j >= t
            THEN IF j = t THEN (f.b[t] - m0) * f.s[t]
                 ELSE r[j-1] + (f.b[j] - f.b[j-1]) * f.s[j]
            ELSE IF j = t - 1 THEN (f.b[t-1] - m0) * f.s[t]
                 ELSE r[j+1] + (f.b[j] - f.b[j+1]) * f.s[j+1]
<1>6. w = [j \in 0..f.n-1 |-> body(w, j)]
  BY <1>4, <1>5
<1>7. AtBreak(f, m0, t) = CHOOSE r : r = [j \in 0..f.n-1 |-> body(r, j)]
  BY DEF AtBreak
<1>8. AtBreak(f, m0, t) = [j \in 0..f.n-1 |-> body(AtBreak(f, m0, t), j)]
  BY <1>6, <1>7
<1>9. WalksFrom(f, m0, t, AtBreak(f, m0, t))
  BY <1>8 DEF WalksFrom
<1>10. AtBreak(f, m0, t) \in [0..f.n-1 -> Int]
  <2>1. \A j \in 0..f.n-1 : AtBreak(f, m0, t)[j] \in Int
    BY <1>9, WalkIsInteger
  <2>2. PICK r : r = AtBreak(f, m0, t)
    OBVIOUS
  <2>3. r = [j \in 0..f.n-1 |-> body(r, j)]
    BY <1>8, <2>2
  <2> HIDE DEF body
  <2>4. QED
    BY <2>1, <2>2, <2>3
<1>11. QED
  BY <1>9, <1>10

\* The target lies in its piece, edges included.
LEMMA TargetInPiece ==
  ASSUME NEW f, IsMap(f), NEW m0 \in Int
  PROVE  /\ TargetPiece(f, m0) \in 0..f.n
         /\ \A j \in 0..f.n-1 : IF j < TargetPiece(f, m0) THEN f.b[j] <= m0 ELSE m0 <= f.b[j]
<1> DEFINE below == {j \in 0..f.n-1 : f.b[j] < m0}
           c == Cardinality(below)
<1>1. f.n \in Nat /\ f.b \in [0..f.n-1 -> Int] /\ f.s \in [0..f.n -> Nat]
  BY DEF IsMap
<1>2. \A j \in below : \A i \in 0..j : i \in below
  <2>1. SUFFICES ASSUME NEW j \in below, NEW i \in 0..j, i # j
                 PROVE  i \in below
    OBVIOUS
  <2>2. i \in 0..f.n-1 /\ j \in 0..f.n-1 /\ i < j
    BY <1>1, <2>1
  <2>3. f.b[i] < f.b[j]
    BY <2>2, PlacesAscend
  <2>4. f.b[i] \in Int /\ f.b[j] \in Int
    BY <1>1, <2>2
  <2>5. QED
    BY <2>1, <2>2, <2>3, <2>4
<1>3. c \in Nat /\ below = 0..0 + c - 1 /\ (c > 0 => 0 + c - 1 <= f.n - 1)
  <2>1. below \in SUBSET (0..f.n-1) /\ 0 \in Int /\ f.n - 1 \in Int
    BY <1>1
  <2> HIDE DEF below
  <2>2. QED
    BY <1>2, <2>1, RunUp
<1>4. c \in 0..f.n
  BY <1>1, <1>3
<1>5. ASSUME NEW j \in 0..f.n-1
      PROVE  (f.b[j] < m0 <=> j < c) /\ f.b[j] \in Int
  <2>1. f.b[j] < m0 <=> j \in 0..0 + c - 1
    BY <1>3
  <2>2. j \in 0..0 + c - 1 <=> j < c
    BY <1>1, <1>4
  <2>3. QED
    BY <1>1, <2>1, <2>2
<1>6. TargetPiece(f, m0) = IF c < f.n /\ f.b[c] = m0 /\ f.s[c + 1] < f.s[c] THEN c + 1 ELSE c
  BY DEF TargetPiece
<1> HIDE DEF below, c
<1>7. CASE c < f.n /\ f.b[c] = m0 /\ TargetPiece(f, m0) = c + 1
  <2>1. c \in 0..f.n-1
    BY <1>1, <1>4, <1>7
  <2>2. ASSUME NEW j \in 0..f.n-1
        PROVE  IF j < c + 1 THEN f.b[j] <= m0 ELSE m0 <= f.b[j]
    BY <1>4, <1>5, <1>7
  <2>3. QED
    BY <1>1, <1>4, <1>7, <2>2
<1>8. CASE TargetPiece(f, m0) = c
  BY <1>4, <1>5, <1>8
<1>9. QED
  BY <1>6, <1>7, <1>8

\* The map read from a target piece t that holds the target m0.
TargetIn(f, m0, t) ==
    /\ t \in 0..f.n
    /\ \A j \in 0..f.n-1 : IF j < t THEN f.b[j] <= m0 ELSE m0 <= f.b[j]

\* A value passes breakpoints on one side of the target piece only.
Above(f, v, t) == Cardinality({j \in t..f.n-1 : v > f.b[j]})
Below(f, v, t) == Cardinality({j \in 0..t-1 : v < f.b[j]})
OneSided(f, v, t) ==
    /\ Above(f, v, t) \in Nat /\ Below(f, v, t) \in Nat
    /\ Above(f, v, t) = 0 \/ Below(f, v, t) = 0

\* The piece of a value: exactly the breakpoints between the target and the value are passed.
LEMMA PiecePassesBreaks ==
  ASSUME NEW f, IsMap(f), NEW m0 \in Int, NEW v \in Int, NEW t, TargetIn(f, m0, t)
  PROVE  /\ PieceOf(f, v, t) \in 0..f.n
         /\ \A j \in t..f.n-1 : v > f.b[j] <=> j < PieceOf(f, v, t)
         /\ \A j \in 0..t-1 : v < f.b[j] <=> j >= PieceOf(f, v, t)
         /\ OneSided(f, v, t)
<1> DEFINE up == {j \in t..f.n-1 : v > f.b[j]}
           down == {j \in 0..t-1 : v < f.b[j]}
           u == Cardinality(up)
           d == Cardinality(down)
<1>1. /\ f.n \in Nat /\ f.b \in [0..f.n-1 -> Int] /\ t \in 0..f.n
      /\ \A j \in 0..f.n-1 : IF j < t THEN f.b[j] <= m0 ELSE m0 <= f.b[j]
  BY DEF IsMap, TargetIn
<1>2. ASSUME NEW j \in t..f.n-1
      PROVE  j \in 0..f.n-1 /\ f.b[j] \in Int /\ m0 <= f.b[j]
  <2>1. j \in 0..f.n-1 /\ ~(j < t)
    BY <1>1
  <2>2. QED
    BY <1>1, <2>1
<1>3. ASSUME NEW j \in 0..t-1
      PROVE  j \in 0..f.n-1 /\ f.b[j] \in Int /\ f.b[j] <= m0
  <2>1. j \in 0..f.n-1 /\ j < t
    BY <1>1
  <2>2. QED
    BY <1>1, <2>1
<1>4. \A j \in up : \A i \in t..j : i \in up
  <2>1. SUFFICES ASSUME NEW j \in up, NEW i \in t..j, i # j
                 PROVE  i \in up
    OBVIOUS
  <2>2. i \in t..f.n-1 /\ j \in t..f.n-1 /\ i < j
    BY <1>1, <2>1
  <2>3. f.b[i] < f.b[j]
    BY <1>2, <2>2, PlacesAscend
  <2>4. QED
    BY <1>2, <2>2, <2>3
<1>5. \A j \in down : \A i \in j..t-1 : i \in down
  <2>1. SUFFICES ASSUME NEW j \in down, NEW i \in j..t-1, i # j
                 PROVE  i \in down
    OBVIOUS
  <2>2. i \in 0..t-1 /\ j \in 0..t-1 /\ j < i
    BY <1>1, <2>1
  <2>3. f.b[j] < f.b[i]
    BY <1>3, <2>2, PlacesAscend
  <2>4. QED
    BY <1>3, <2>2, <2>3
<1>6. u \in Nat /\ up = t..t + u - 1 /\ (u > 0 => t + u - 1 <= f.n - 1)
  <2>1. up \in SUBSET (t..f.n-1) /\ t \in Int /\ f.n - 1 \in Int
    BY <1>1
  <2> HIDE DEF up
  <2>2. QED
    BY <1>4, <2>1, RunUp
<1>7. d \in Nat /\ down = t - d..t-1 /\ (d > 0 => t - d >= 0)
  <2>1. down \in SUBSET (0..t-1) /\ 0 \in Int /\ t - 1 \in Int
    BY <1>1
  <2>2. d \in Nat /\ down = (t-1) - d + 1..t-1 /\ (d > 0 => (t-1) - d + 1 >= 0)
    <3> HIDE DEF down
    <3>1. QED
      BY <1>5, <2>1, RunDown
  <2>3. (t-1) - d + 1 = t - d
    BY <1>1, <2>2
  <2>4. QED
    BY <2>2, <2>3
<1>8. u = 0 \/ d = 0
  <2>1. SUFFICES ASSUME u > 0, d > 0
                 PROVE  FALSE
    BY <1>6, <1>7
  <2>2. t \in up /\ t-1 \in down
    <3>1. t \in t..t + u - 1 /\ t-1 \in t - d..t-1
      BY <1>1, <1>6, <1>7, <2>1
    <3>2. QED
      BY <1>6, <1>7, <3>1
  <2>3. v > f.b[t] /\ v < f.b[t-1] /\ t \in t..f.n-1 /\ t-1 \in 0..t-1
    BY <2>2
  <2>4. QED
    BY <1>2, <1>3, <2>3
<1>9. PieceOf(f, v, t) = t - d + u
  BY DEF PieceOf
<1>10. \A j \in t..f.n-1 : v > f.b[j] <=> j \in t..t + u - 1
  BY <1>6
<1>11. \A j \in 0..t-1 : v < f.b[j] <=> j \in t - d..t-1
  BY <1>7
<1>11a. OneSided(f, v, t)
  BY <1>6, <1>7, <1>8 DEF OneSided, Above, Below
<1> HIDE DEF up, down, u, d
<1>12. PieceOf(f, v, t) \in 0..f.n
  BY <1>1, <1>6, <1>7, <1>8, <1>9
<1>13. ASSUME NEW j \in t..f.n-1
       PROVE  v > f.b[j] <=> j < PieceOf(f, v, t)
  BY <1>1, <1>6, <1>7, <1>8, <1>9, <1>10
<1>14. ASSUME NEW j \in 0..t-1
       PROVE  v < f.b[j] <=> j >= PieceOf(f, v, t)
  BY <1>1, <1>6, <1>7, <1>8, <1>9, <1>11
<1>15. QED
  BY <1>11a, <1>12, <1>13, <1>14

\* The residuals at the breakpoints ascend through zero at the target.
LEMMA BreakResidualsAscend ==
  ASSUME NEW f, IsMap(f), NEW m0 \in Int, NEW t, TargetIn(f, m0, t)
  PROVE  /\ \A j \in t..f.n-1 : AtBreak(f, m0, t)[j] >= 0
         /\ \A j \in 0..t-1 : AtBreak(f, m0, t)[j] <= 0
         /\ \A i, j \in t..f.n-1 : i <= j => AtBreak(f, m0, t)[i] <= AtBreak(f, m0, t)[j]
         /\ \A i, j \in 0..t-1 : i <= j => AtBreak(f, m0, t)[i] <= AtBreak(f, m0, t)[j]
<1> DEFINE at == AtBreak(f, m0, t)
<1>1. /\ f.n \in Nat /\ f.b \in [0..f.n-1 -> Int] /\ f.s \in [0..f.n -> Nat] /\ t \in 0..f.n
      /\ \A j \in 0..f.n-1 : IF j < t THEN f.b[j] <= m0 ELSE m0 <= f.b[j]
  BY DEF IsMap, TargetIn
<1>2. at \in [0..f.n-1 -> Int] /\ WalksFrom(f, m0, t, at)
  BY <1>1, AtBreakWalks
<1> HIDE DEF at
<1>3. ASSUME NEW j \in 0..f.n-1, j > t
      PROVE  at[j-1] <= at[j]
  <2>1. j - 1 \in 0..f.n-1 /\ j \in 0..f.n /\ j - 1 < j
    BY <1>1, <1>3
  <2>2. at[j] = at[j-1] + (f.b[j] - f.b[j-1]) * f.s[j]
    BY <1>1, <1>2, <1>3 DEF WalksFrom
  <2>3. f.b[j-1] < f.b[j] /\ f.b[j] \in Int /\ f.b[j-1] \in Int /\ f.s[j] \in Nat
    BY <1>1, <2>1, PlacesAscend
  <2>4. (f.b[j] - f.b[j-1]) * f.s[j] >= 0 /\ (f.b[j] - f.b[j-1]) * f.s[j] \in Int
    <3>1. f.b[j] - f.b[j-1] \in Int /\ 0 <= f.b[j] - f.b[j-1] /\ 0 * f.s[j] = 0
      BY <2>3
    <3>2. QED
      BY <2>3, <3>1, ProductsOrdered
  <2>5. at[j] \in Int /\ at[j-1] \in Int
    BY <1>2, <2>1
  <2>6. QED
    BY <2>2, <2>4, <2>5
<1>4. ASSUME NEW j \in 0..f.n-1, j < t - 1
      PROVE  at[j] <= at[j+1]
  <2>1. j + 1 \in 0..f.n-1 /\ j + 1 \in 0..f.n /\ j < j + 1
    BY <1>1, <1>4
  <2>2. at[j] = at[j+1] + (f.b[j] - f.b[j+1]) * f.s[j+1]
    <3>1. ~(j >= t) /\ j # t - 1
      BY <1>1, <1>4
    <3>2. QED
      BY <1>2, <3>1 DEF WalksFrom
  <2>3. f.b[j] < f.b[j+1] /\ f.b[j] \in Int /\ f.b[j+1] \in Int /\ f.s[j+1] \in Nat
    BY <1>1, <2>1, PlacesAscend
  <2>4. (f.b[j] - f.b[j+1]) * f.s[j+1] <= 0 /\ (f.b[j] - f.b[j+1]) * f.s[j+1] \in Int
    <3>1. f.b[j] - f.b[j+1] \in Int /\ f.b[j] - f.b[j+1] <= 0 /\ 0 * f.s[j+1] = 0
      BY <2>3
    <3>2. QED
      BY <2>3, <3>1, ProductsOrdered
  <2>5. at[j] \in Int /\ at[j+1] \in Int
    BY <1>2, <2>1
  <2>6. QED
    BY <2>2, <2>4, <2>5
<1>5. t <= f.n - 1 => at[t] >= 0
  <2>1. SUFFICES ASSUME t <= f.n - 1
                 PROVE  at[t] >= 0
    OBVIOUS
  <2>2. t \in 0..f.n-1 /\ at[t] = (f.b[t] - m0) * f.s[t]
    BY <1>1, <1>2, <2>1 DEF WalksFrom
  <2>3. f.b[t] - m0 \in Int /\ 0 <= f.b[t] - m0 /\ f.s[t] \in Nat /\ 0 * f.s[t] = 0
    <3>1. ~(t < t) /\ t \in 0..f.n
      BY <1>1
    <3>2. m0 <= f.b[t] /\ f.b[t] \in Int /\ f.s[t] \in Nat
      BY <1>1, <2>2, <3>1
    <3>3. QED
      BY <3>2
  <2>4. QED
    BY <2>2, <2>3, ProductsOrdered
<1>6. t >= 1 => at[t-1] <= 0
  <2>1. SUFFICES ASSUME t >= 1
                 PROVE  at[t-1] <= 0
    OBVIOUS
  <2>2. t - 1 \in 0..f.n-1 /\ ~(t - 1 >= t)
    BY <1>1, <2>1
  <2>3. at[t-1] = (f.b[t-1] - m0) * f.s[t]
    BY <1>2, <2>2 DEF WalksFrom
  <2>4. f.b[t-1] - m0 \in Int /\ f.b[t-1] - m0 <= 0 /\ f.s[t] \in Nat /\ 0 * f.s[t] = 0
    <3>1. t - 1 < t /\ t \in 0..f.n
      BY <1>1
    <3>2. f.b[t-1] <= m0 /\ f.b[t-1] \in Int /\ f.s[t] \in Nat
      BY <1>1, <2>2, <3>1
    <3>3. QED
      BY <3>2
  <2>5. QED
    BY <2>3, <2>4, ProductsOrdered
<1> DEFINE U == {d \in Nat : t + d <= f.n - 1 =>
                     /\ at[t + d] >= 0
                     /\ \A i \in t..t + d : at[i] <= at[t + d]}
           D == {d \in Nat : t - 1 - d >= 0 =>
                     /\ at[t - 1 - d] <= 0
                     /\ \A i \in t - 1 - d..t - 1 : at[t - 1 - d] <= at[i]}
<1>7. Nat \subseteq U
  <2>1. 0 \in U
    <3>1. t + 0 = t /\ t..t = {t}
      BY <1>1
    <3>2. t <= f.n - 1 => at[t] <= at[t]
      <4>1. t <= f.n - 1 => at[t] \in Int
        BY <1>1, <1>2
      <4>2. QED
        BY <4>1
    <3>3. t + 0 <= f.n - 1 =>
             /\ at[t + 0] >= 0
             /\ \A i \in t..t + 0 : at[i] <= at[t + 0]
      <4>1. SUFFICES ASSUME t + 0 <= f.n - 1, NEW i \in t..t + 0
                     PROVE  at[t + 0] >= 0 /\ at[i] <= at[t + 0]
        BY <1>5, <3>1
      <4>2. i = t /\ t <= f.n - 1
        BY <1>1, <4>1
      <4>3. QED
        BY <1>5, <3>1, <3>2, <4>2
    <3>4. QED
      BY <3>3
  <2>2. ASSUME NEW d \in Nat, d \in U
        PROVE  d + 1 \in U
    <3>1. SUFFICES ASSUME t + (d + 1) <= f.n - 1
                   PROVE  /\ at[t + (d + 1)] >= 0
                          /\ \A i \in t..t + (d + 1) : at[i] <= at[t + (d + 1)]
      OBVIOUS
    <3>2. at[t + d] >= 0 /\ \A i \in t..t + d : at[i] <= at[t + d]
      BY <1>1, <2>2, <3>1
    <3>3. /\ t + (d + 1) \in 0..f.n-1 /\ t + (d + 1) > t /\ (t + (d + 1)) - 1 = t + d
          /\ t + d \in 0..f.n-1
      BY <1>1, <3>1
    <3>4. at[t + d] <= at[t + (d + 1)]
      BY <1>3, <3>3
    <3>5. at[t + d] \in Int /\ at[t + (d + 1)] \in Int
      BY <1>2, <3>3
    <3>6. ASSUME NEW i \in t..t + (d + 1)
          PROVE  at[i] <= at[t + (d + 1)]
      <4>1. CASE i = t + (d + 1)
        BY <3>5, <4>1
      <4>2. CASE i # t + (d + 1)
        <5>1. i \in t..t + d /\ i \in 0..f.n-1
          BY <1>1, <3>3, <4>2
        <5>2. at[i] <= at[t + d] /\ at[i] \in Int
          BY <1>2, <3>2, <5>1
        <5>3. QED
          BY <3>4, <3>5, <5>2
      <4>3. QED
        BY <4>1, <4>2
    <3>7. QED
      BY <3>2, <3>4, <3>5, <3>6
  <2> HIDE DEF U
  <2>3. QED
    BY <2>1, <2>2, SetInduction
<1>8. Nat \subseteq D
  <2>1. 0 \in D
    <3>1. t - 1 - 0 = t - 1 /\ t - 1..t - 1 = {t - 1}
      BY <1>1
    <3>2. t - 1 >= 0 => at[t - 1] <= at[t - 1]
      <4>1. t - 1 >= 0 => t - 1 \in 0..f.n-1
        BY <1>1
      <4>2. t - 1 >= 0 => at[t - 1] \in Int
        BY <1>2, <4>1
      <4>3. QED
        BY <4>2
    <3>3. t - 1 >= 0 => at[t - 1] <= 0
      BY <1>1, <1>6
    <3>4. QED
      BY <3>1, <3>2, <3>3
  <2>2. ASSUME NEW d \in Nat, d \in D
        PROVE  d + 1 \in D
    <3>1. SUFFICES ASSUME t - 1 - (d + 1) >= 0
                   PROVE  /\ at[t - 1 - (d + 1)] <= 0
                          /\ \A i \in t - 1 - (d + 1)..t - 1 : at[t - 1 - (d + 1)] <= at[i]
      OBVIOUS
    <3>2. at[t - 1 - d] <= 0 /\ \A i \in t - 1 - d..t - 1 : at[t - 1 - d] <= at[i]
      BY <1>1, <2>2, <3>1
    <3>3. /\ t - 1 - (d + 1) \in 0..f.n-1 /\ t - 1 - (d + 1) < t - 1
          /\ (t - 1 - (d + 1)) + 1 = t - 1 - d /\ t - 1 - d \in 0..f.n-1
      BY <1>1, <3>1
    <3>4. at[t - 1 - (d + 1)] <= at[t - 1 - d]
      BY <1>4, <3>3
    <3>5. at[t - 1 - d] \in Int /\ at[t - 1 - (d + 1)] \in Int
      BY <1>2, <3>3
    <3>6. ASSUME NEW i \in t - 1 - (d + 1)..t - 1
          PROVE  at[t - 1 - (d + 1)] <= at[i]
      <4>1. CASE i = t - 1 - (d + 1)
        BY <3>5, <4>1
      <4>2. CASE i # t - 1 - (d + 1)
        <5>1. i \in t - 1 - d..t - 1 /\ i \in 0..f.n-1
          BY <1>1, <3>3, <4>2
        <5>2. at[t - 1 - d] <= at[i] /\ at[i] \in Int
          BY <1>2, <3>2, <5>1
        <5>3. QED
          BY <3>4, <3>5, <5>2
      <4>3. QED
        BY <4>1, <4>2
    <3>7. QED
      BY <3>2, <3>4, <3>5, <3>6
  <2> HIDE DEF D
  <2>3. QED
    BY <2>1, <2>2, SetInduction
<1>9. ASSUME NEW j \in t..f.n-1
      PROVE  at[j] >= 0 /\ \A i \in t..j : at[i] <= at[j]
  <2>1. j - t \in Nat /\ t + (j - t) = j /\ j <= f.n - 1
    BY <1>1
  <2>2. j - t \in U
    BY <1>7, <2>1
  <2>3. QED
    BY <2>1, <2>2
<1>10. ASSUME NEW j \in 0..t-1
       PROVE  at[j] <= 0 /\ \A i \in j..t-1 : at[j] <= at[i]
  <2>1. t - 1 - j \in Nat /\ t - 1 - (t - 1 - j) = j /\ j >= 0
    BY <1>1
  <2>2. t - 1 - j \in D
    BY <1>8, <2>1
  <2>3. QED
    BY <2>1, <2>2
<1>11. \A i, j \in t..f.n-1 : i <= j => at[i] <= at[j]
  BY <1>9
<1>12. \A i, j \in 0..t-1 : i <= j => at[i] <= at[j]
  BY <1>10
<1>13. QED
  BY <1>9, <1>10, <1>11, <1>12 DEF at

\* A residual exceeds that of a breakpoint above the target exactly when the value exceeds the
\* breakpoint, and falls short of one below exactly when the value does: all that a piece on
\* the way must not be is the dead end the value is on.
LEMMA ResidualPassesBreaks ==
  ASSUME NEW f, IsMap(f), NEW m0 \in Int, NEW v \in Int, NEW t, t = TargetPiece(f, m0),
         NEW i, i = PieceOf(f, v, t), i = t \/ f.s[i] > 0,
         NEW r, r = Residual(f, v, m0)
  PROVE  /\ r \in Int
         /\ \A j \in t..f.n-1 : r > AtBreak(f, m0, t)[j] <=> v > f.b[j]
         /\ \A j \in 0..t-1 : r < AtBreak(f, m0, t)[j] <=> v < f.b[j]
<1> DEFINE at == AtBreak(f, m0, t)
<1>0. TargetIn(f, m0, t)
  BY TargetInPiece DEF TargetIn
<1>1. /\ f.n \in Nat /\ f.b \in [0..f.n-1 -> Int] /\ f.s \in [0..f.n -> Nat] /\ t \in 0..f.n
  BY <1>0 DEF IsMap, TargetIn
<1>2. at \in [0..f.n-1 -> Int] /\ WalksFrom(f, m0, t, at)
  BY <1>1, AtBreakWalks
<1>3. /\ \A j \in t..f.n-1 : at[j] >= 0
      /\ \A j \in 0..t-1 : at[j] <= 0
      /\ \A k, j \in t..f.n-1 : k <= j => at[k] <= at[j]
      /\ \A k, j \in 0..t-1 : k <= j => at[k] <= at[j]
  BY <1>0, BreakResidualsAscend
<1>4. /\ i \in 0..f.n
      /\ \A j \in t..f.n-1 : v > f.b[j] <=> j < i
      /\ \A j \in 0..t-1 : v < f.b[j] <=> j >= i
  BY <1>0, PiecePassesBreaks
<1>5. r = IF i = t THEN (v - m0) * f.s[i]
          ELSE at[NearBreak(i, t)] + (v - f.b[NearBreak(i, t)]) * f.s[i]
  BY DEF Residual
<1>6. f.s[i] \in Nat
  BY <1>1, <1>4
<1> HIDE DEF at
<1>7. ASSUME NEW j \in 0..f.n-1
      PROVE  f.b[j] \in Int /\ at[j] \in Int
  BY <1>1, <1>2
<1>8. CASE i = t
  <2>1. r = (v - m0) * f.s[t] /\ v - m0 \in Int /\ r \in Int /\ f.s[t] \in Nat
    BY <1>5, <1>6, <1>8, ProductsOrdered
  <2>2. ASSUME NEW j \in t..f.n-1
        PROVE  r <= at[j] /\ ~(v > f.b[j])
    <3>1. t \in t..f.n-1 /\ t \in 0..f.n-1 /\ j \in 0..f.n-1 /\ t <= j
      BY <1>1
    <3>2. at[t] = (f.b[t] - m0) * f.s[t]
      BY <1>1, <1>2, <3>1 DEF WalksFrom
    <3>3. v <= f.b[t] /\ f.b[t] \in Int
      BY <1>4, <1>7, <1>8, <3>1
    <3>4. r <= at[t]
      <4>1. f.b[t] - m0 \in Int /\ v - m0 <= f.b[t] - m0
        BY <3>3
      <4>2. QED
        BY <2>1, <3>2, <4>1, ProductsOrdered
    <3>5. at[t] <= at[j] /\ at[t] \in Int /\ at[j] \in Int
      BY <1>3, <1>7, <3>1
    <3>6. ~(v > f.b[j])
      BY <1>1, <1>4, <1>8
    <3>7. QED
      BY <2>1, <3>4, <3>5, <3>6
  <2>3. ASSUME NEW j \in 0..t-1
        PROVE  r >= at[j] /\ ~(v < f.b[j])
    <3>1. /\ t - 1 \in 0..t-1 /\ t - 1 \in 0..f.n-1 /\ j \in 0..f.n-1 /\ j <= t - 1
          /\ ~(t - 1 >= t)
      BY <1>1
    <3>2. at[t-1] = (f.b[t-1] - m0) * f.s[t]
      BY <1>2, <3>1 DEF WalksFrom
    <3>3. f.b[t-1] <= v /\ f.b[t-1] \in Int
      <4>1. ~(v < f.b[t-1])
        BY <1>4, <1>8, <3>1
      <4>2. QED
        BY <1>7, <3>1, <4>1
    <3>4. at[t-1] <= r
      <4>1. f.b[t-1] - m0 \in Int /\ f.b[t-1] - m0 <= v - m0
        BY <3>3
      <4>2. QED
        BY <2>1, <3>2, <4>1, ProductsOrdered
    <3>5. at[j] <= at[t-1] /\ at[t-1] \in Int /\ at[j] \in Int
      BY <1>3, <1>7, <3>1
    <3>6. ~(v < f.b[j])
      BY <1>1, <1>4, <1>8
    <3>7. QED
      BY <2>1, <3>4, <3>5, <3>6
  <2>4. ASSUME NEW j \in t..f.n-1
        PROVE  ~(r > at[j])
    <3>1. j \in 0..f.n-1
      BY <1>1
    <3>2. QED
      BY <1>7, <2>1, <2>2, <3>1
  <2>5. ASSUME NEW j \in 0..t-1
        PROVE  ~(r < at[j])
    <3>1. j \in 0..f.n-1
      BY <1>1
    <3>2. QED
      BY <1>7, <2>1, <2>3, <3>1
  <2>6. QED
    BY <2>1, <2>2, <2>3, <2>4, <2>5 DEF at
<1>9. CASE i > t
  <2>1. /\ i - 1 \in t..f.n-1 /\ i - 1 \in 0..f.n-1 /\ NearBreak(i, t) = i - 1 /\ i # t
        /\ f.s[i] > 0
    BY <1>1, <1>4, <1>9 DEF NearBreak
  <2>2. /\ r = at[i-1] + (v - f.b[i-1]) * f.s[i]
        /\ f.b[i-1] \in Int /\ at[i-1] \in Int /\ at[i-1] >= 0
    BY <1>3, <1>5, <1>7, <2>1
  <2>3. v > f.b[i-1]
    BY SMTT(20), <1>1, <1>4, <2>1
  <2>4. (v - f.b[i-1]) * f.s[i] > 0 /\ (v - f.b[i-1]) * f.s[i] \in Int
    <3>1. v - f.b[i-1] \in Int /\ 0 < v - f.b[i-1] /\ 0 * f.s[i] = 0
      BY <1>6, <2>2, <2>3
    <3>2. QED
      BY <1>6, <2>1, <3>1, ProductsOrdered
  <2>5. r > at[i-1] /\ r \in Int
    BY <2>2, <2>4
  <2>6. ASSUME NEW j \in t..f.n-1, j < i
        PROVE  r > at[j]
    <3>1. j \in 0..f.n-1 /\ j <= i - 1
      BY <1>1, <1>4, <2>6
    <3>2. at[j] <= at[i-1] /\ at[j] \in Int
      BY <1>3, <1>7, <2>1, <3>1
    <3>3. QED
      BY <2>2, <2>5, <3>2
  <2>7. ASSUME NEW j \in t..f.n-1, j >= i
        PROVE  ~(r > at[j])
    <3>1. /\ i \in t..f.n-1 /\ i \in 0..f.n-1 /\ j \in 0..f.n-1 /\ i <= j /\ i >= t
      BY <1>1, <1>4, <1>9, <2>7
    <3>2. at[i] = at[i-1] + (f.b[i] - f.b[i-1]) * f.s[i]
      BY <1>2, <2>1, <3>1 DEF WalksFrom
    <3>3. v <= f.b[i] /\ f.b[i] \in Int /\ at[i] \in Int
      BY <1>4, <1>7, <3>1
    <3>4. (v - f.b[i-1]) * f.s[i] <= (f.b[i] - f.b[i-1]) * f.s[i]
      <4>1. /\ v - f.b[i-1] \in Int /\ f.b[i] - f.b[i-1] \in Int
            /\ v - f.b[i-1] <= f.b[i] - f.b[i-1]
        BY <2>2, <3>3
      <4>2. QED
        BY <1>6, <4>1, ProductsOrdered
    <3>5. (f.b[i] - f.b[i-1]) * f.s[i] \in Int
      <4>1. f.b[i] - f.b[i-1] \in Int
        BY <2>2, <3>3
      <4>2. QED
        BY <1>6, <4>1, ProductsOrdered
    <3>6. r <= at[i]
      BY <2>2, <2>4, <3>2, <3>4, <3>5
    <3>7. at[i] <= at[j] /\ at[j] \in Int
      BY <1>3, <1>7, <3>1
    <3>8. QED
      BY <2>5, <3>3, <3>6, <3>7
  <2>8. ASSUME NEW j \in 0..t-1
        PROVE  ~(r < at[j]) /\ ~(v < f.b[j])
    <3>1. at[j] <= 0 /\ j \in 0..f.n-1 /\ ~(j >= i)
      BY <1>1, <1>3, <1>4, <1>9
    <3>2. at[j] \in Int /\ ~(v < f.b[j])
      BY <1>4, <1>7, <3>1
    <3>3. QED
      BY <2>2, <2>5, <3>1, <3>2
  <2>9. ASSUME NEW j \in t..f.n-1
        PROVE  r > at[j] <=> v > f.b[j]
    <3>1. j \in Int /\ i \in Int
      BY <1>1, <1>4
    <3>2. QED
      BY <1>4, <2>6, <2>7, <3>1
  <2>10. QED
    BY <2>5, <2>8, <2>9 DEF at
<1>10. CASE i < t
  <2>1. i \in 0..t-1 /\ i \in 0..f.n-1 /\ NearBreak(i, t) = i /\ i # t /\ f.s[i] > 0
    BY <1>1, <1>4, <1>10 DEF NearBreak
  <2>2. /\ r = at[i] + (v - f.b[i]) * f.s[i]
        /\ f.b[i] \in Int /\ at[i] \in Int /\ at[i] <= 0
    BY <1>3, <1>5, <1>7, <2>1
  <2>3. v < f.b[i]
    BY <1>1, <1>4, <2>1
  <2>4. (v - f.b[i]) * f.s[i] < 0 /\ (v - f.b[i]) * f.s[i] \in Int
    <3>1. v - f.b[i] \in Int /\ v - f.b[i] < 0 /\ 0 * f.s[i] = 0
      BY <1>6, <2>2, <2>3
    <3>2. QED
      BY <1>6, <2>1, <3>1, ProductsOrdered
  <2>5. r < at[i] /\ r \in Int
    BY <2>2, <2>4
  <2>6. ASSUME NEW j \in 0..t-1, j >= i
        PROVE  r < at[j]
    <3>1. j \in 0..f.n-1 /\ i <= j
      BY <1>1, <1>4, <2>6
    <3>2. at[i] <= at[j] /\ at[j] \in Int
      BY <1>3, <1>7, <2>1, <3>1
    <3>3. QED
      BY <2>2, <2>5, <3>2
  <2>7. ASSUME NEW j \in 0..t-1, j < i
        PROVE  ~(r < at[j])
    <3>1. /\ i - 1 \in 0..t-1 /\ i - 1 \in 0..f.n-1 /\ j \in 0..f.n-1 /\ j <= i - 1
          /\ ~(i - 1 >= t) /\ i - 1 # t - 1 /\ (i - 1) + 1 = i /\ ~(i - 1 >= i)
      <4>1. i \in Int /\ t \in Int /\ f.n \in Int /\ t <= f.n /\ j >= 0 /\ j \in Int
        BY <1>1, <1>4
      <4>2. QED
        BY <1>10, <2>7, <4>1
    <3>2. at[i-1] = at[i] + (f.b[i-1] - f.b[i]) * f.s[i]
      BY <1>2, <3>1 DEF WalksFrom
    <3>3. f.b[i-1] <= v /\ f.b[i-1] \in Int /\ at[i-1] \in Int
      <4>1. ~(v < f.b[i-1])
        BY <1>4, <3>1
      <4>2. QED
        BY <1>7, <3>1, <4>1
    <3>4. (f.b[i-1] - f.b[i]) * f.s[i] <= (v - f.b[i]) * f.s[i]
      <4>1. /\ v - f.b[i] \in Int /\ f.b[i-1] - f.b[i] \in Int
            /\ f.b[i-1] - f.b[i] <= v - f.b[i]
        BY <2>2, <3>3
      <4>2. QED
        BY <1>6, <4>1, ProductsOrdered
    <3>5. (f.b[i-1] - f.b[i]) * f.s[i] \in Int
      <4>1. f.b[i-1] - f.b[i] \in Int
        BY <2>2, <3>3
      <4>2. QED
        BY <1>6, <4>1, ProductsOrdered
    <3>6. at[i-1] <= r
      BY <2>2, <2>4, <3>2, <3>4, <3>5
    <3>7. at[j] <= at[i-1] /\ at[j] \in Int
      BY <1>3, <1>7, <3>1
    <3>8. QED
      BY <2>5, <3>3, <3>6, <3>7
  <2>8. ASSUME NEW j \in t..f.n-1
        PROVE  ~(r > at[j]) /\ ~(v > f.b[j])
    <3>1. at[j] >= 0 /\ j \in 0..f.n-1 /\ ~(j < i)
      BY <1>1, <1>3, <1>4, <1>10
    <3>2. at[j] \in Int /\ ~(v > f.b[j])
      BY <1>4, <1>7, <3>1
    <3>3. QED
      BY <2>2, <2>5, <3>1, <3>2
  <2>9. ASSUME NEW j \in 0..t-1
        PROVE  r < at[j] <=> v < f.b[j]
    <3>1. j \in Int /\ i \in Int
      BY <1>1, <1>4
    <3>2. QED
      BY <1>4, <2>6, <2>7, <3>1
  <2>10. QED
    BY <2>5, <2>8, <2>9 DEF at
<1>11. QED
  BY <1>1, <1>4, <1>8, <1>9, <1>10

\* piece_from_residual() and invert() undo residual() (problem.hpp 217-293) on every map and
\* for every target and value, breakpoints included: on any piece that is not a dead end the
\* residual alone tells the piece and the value.
THEOREM ResidualLeadsBack ==
  ASSUME NEW f, IsMap(f), NEW m0 \in Int, NEW v \in Int,
         NEW t, t = TargetPiece(f, m0), NEW i, i = PieceOf(f, v, t), f.s[i] > 0
  PROVE  /\ PieceFromResidual(f, Residual(f, v, m0), m0, t) = i
         /\ Invert(f, i, Residual(f, v, m0), m0, t) = v
<1> DEFINE at == AtBreak(f, m0, t)
           r == Residual(f, v, m0)
<1>0. TargetIn(f, m0, t)
  BY TargetInPiece DEF TargetIn
<1>1. /\ r \in Int
      /\ \A j \in t..f.n-1 : r > at[j] <=> v > f.b[j]
      /\ \A j \in 0..t-1 : r < at[j] <=> v < f.b[j]
  <2> HIDE DEF at, r
  <2>1. r = Residual(f, v, m0) /\ at = AtBreak(f, m0, t)
    BY DEF r, at
  <2>2. QED
    BY <2>1, ResidualPassesBreaks
<1>2. PieceFromResidual(f, r, m0, t) = i
  <2> DEFINE u == Cardinality({j \in t..f.n-1 : v > f.b[j]})
             d == Cardinality({j \in 0..t-1 : v < f.b[j]})
  <2>1. /\ {j \in t..f.n-1 : r > at[j]} = {j \in t..f.n-1 : v > f.b[j]}
        /\ {j \in 0..t-1 : r < at[j]} = {j \in 0..t-1 : v < f.b[j]}
    BY <1>1
  <2>2. PieceFromResidual(f, r, m0, t)
          = IF Cardinality({j \in t..f.n-1 : r > at[j]}) > 0
            THEN t + Cardinality({j \in t..f.n-1 : r > at[j]})
            ELSE t - Cardinality({j \in 0..t-1 : r < at[j]})
    BY DEF PieceFromResidual
  <2>3. PieceFromResidual(f, r, m0, t) = IF u > 0 THEN t + u ELSE t - d
    BY <2>1, <2>2
  <2>4. i = t - d + u
    BY DEF PieceOf
  <2>5. u \in Nat /\ d \in Nat /\ (u = 0 \/ d = 0) /\ t \in Int
    <3>1. t \in 0..f.n
      BY <1>0 DEF TargetIn
    <3>2. t \in Int
      BY <3>1
    <3>3. OneSided(f, v, t)
      BY <1>0, PiecePassesBreaks
    <3>4. QED
      BY <3>2, <3>3 DEF OneSided, Above, Below
  <2> HIDE DEF u, d
  <2>6. QED
    BY <2>3, <2>4, <2>5
<1>3. Invert(f, i, r, m0, t) = v
  <2>1. /\ f.n \in Nat /\ f.b \in [0..f.n-1 -> Int] /\ f.s \in [0..f.n -> Nat] /\ t \in 0..f.n
    BY <1>0 DEF IsMap, TargetIn
  <2>2. i \in 0..f.n
    BY <1>0, PiecePassesBreaks
  <2>3. f.s[i] \in Nat
    BY <2>1, <2>2
  <2>4. r = IF i = t THEN (v - m0) * f.s[i]
            ELSE at[NearBreak(i, t)] + (v - f.b[NearBreak(i, t)]) * f.s[i]
    BY DEF Residual
  <2>5. Invert(f, i, r, m0, t) = IF i = t THEN m0 + r \div f.s[i]
                                 ELSE f.b[NearBreak(i, t)] + (r - at[NearBreak(i, t)]) \div f.s[i]
    BY DEF Invert
  <2>6. at \in [0..f.n-1 -> Int]
    BY <2>1, AtBreakWalks
  <2> HIDE DEF at, r
  <2>7. CASE i = t
    <3>1. v - m0 \in Int
      OBVIOUS
    <3>2. ((v - m0) * f.s[i]) \div f.s[i] = v - m0
      BY <2>3, <3>1, QuotientOfProduct
    <3>3. QED
      BY <2>4, <2>5, <2>7, <3>2
  <2>8. CASE i # t
    <3> DEFINE j == NearBreak(i, t)
    <3>1. j \in 0..f.n-1
      BY <2>1, <2>2, <2>8 DEF NearBreak
    <3>2. f.b[j] \in Int /\ at[j] \in Int
      BY <2>1, <2>6, <3>1
    <3> HIDE DEF j
    <3>3. v - f.b[j] \in Int /\ (v - f.b[j]) * f.s[i] \in Int
      <4>1. v - f.b[j] \in Int
        BY <3>2
      <4>2. QED
        BY <2>3, <4>1, ProductsOrdered
    <3>4. ((v - f.b[j]) * f.s[i]) \div f.s[i] = v - f.b[j]
      BY <2>3, <3>3, QuotientOfProduct
    <3>5. r = at[j] + (v - f.b[j]) * f.s[i] /\ Invert(f, i, r, m0, t) = f.b[j] + (r - at[j]) \div f.s[i]
      BY <2>4, <2>5, <2>8 DEF j
    <3>6. r - at[j] = (v - f.b[j]) * f.s[i]
      BY <3>2, <3>3, <3>5
    <3>7. QED
      BY <3>2, <3>4, <3>5, <3>6
  <2>9. QED
    BY <2>7, <2>8
<1>4. QED
  BY <1>2, <1>3

\* Whatever piece the walk starts from, it ends on one of the map's.
LEMMA PiecesInRange ==
  ASSUME NEW f, IsMap(f), NEW m0, NEW v, NEW t \in 0..f.n
  PROVE  PieceOf(f, v, t) \in 0..f.n /\ PieceFromResidual(f, v, m0, t) \in 0..f.n
<1>1. f.n \in Nat
  BY DEF IsMap
<1>2. ASSUME NEW A \in SUBSET (t..f.n-1)
      PROVE  Cardinality(A) \in 0..f.n - t
  <2>1. IsFiniteSet(t..f.n-1) /\ Cardinality(t..f.n-1) = f.n - t
    <3>1. t \in Int /\ f.n-1 \in Int
      BY <1>1
    <3>2. /\ IsFiniteSet(t..f.n-1)
          /\ Cardinality(t..f.n-1) = IF t > f.n-1 THEN 0 ELSE (f.n-1) - t + 1
      BY <3>1, FS_Interval
    <3>3. QED
      BY <1>1, <3>2
  <2>2. Cardinality(A) <= Cardinality(t..f.n-1) /\ Cardinality(A) \in Nat
    BY <2>1, FS_Subset, FS_CardinalityType
  <2>3. QED
    BY <1>1, <2>1, <2>2
<1>3. ASSUME NEW A \in SUBSET (0..t-1)
      PROVE  Cardinality(A) \in 0..t
  <2>1. IsFiniteSet(0..t-1) /\ Cardinality(0..t-1) = t
    <3>1. 0 \in Int /\ t-1 \in Int
      BY <1>1
    <3>2. /\ IsFiniteSet(0..t-1)
          /\ Cardinality(0..t-1) = IF 0 > t-1 THEN 0 ELSE (t-1) - 0 + 1
      BY <3>1, FS_Interval
    <3>3. QED
      BY <1>1, <3>2
  <2>2. Cardinality(A) <= Cardinality(0..t-1) /\ Cardinality(A) \in Nat
    BY <2>1, FS_Subset, FS_CardinalityType
  <2>3. QED
    BY <1>1, <2>1, <2>2
<1>4. PieceOf(f, v, t) \in 0..f.n
  <2> DEFINE u == Cardinality({j \in t..f.n-1 : v > f.b[j]})
             d == Cardinality({j \in 0..t-1 : v < f.b[j]})
  <2>1. u \in 0..f.n - t /\ d \in 0..t
    BY <1>2, <1>3
  <2>2. PieceOf(f, v, t) = t - d + u
    BY DEF PieceOf
  <2> HIDE DEF u, d
  <2>3. QED
    BY <1>1, <2>1, <2>2
<1>5. PieceFromResidual(f, v, m0, t) \in 0..f.n
  <2> DEFINE u == Cardinality({j \in t..f.n-1 : v > AtBreak(f, m0, t)[j]})
             d == Cardinality({j \in 0..t-1 : v < AtBreak(f, m0, t)[j]})
  <2>1. u \in 0..f.n - t /\ d \in 0..t
    BY <1>2, <1>3
  <2>2. PieceFromResidual(f, v, m0, t) = IF u > 0 THEN t + u ELSE t - d
    BY DEF PieceFromResidual
  <2> HIDE DEF u, d
  <2>3. QED
    BY <1>1, <2>1, <2>2
<1>6. QED
  BY <1>4, <1>5

----------------------------------------------------------------------------
(* The streamer's record of a row.                                         *)

LEMMA ValuesAreIntegers == Values \subseteq Int /\ Unit \in Nat /\ Decays \subseteq Nat
  BY AnchorAssumption, UnitAssumption DEF AnchorAssumption, UnitAssumption

LEMMA DataMapsAreMaps == \A f \in DataMaps : IsMap(f)
<1> SUFFICES ASSUME NEW f \in DataMaps
             PROVE  IsMap(f)
  OBVIOUS
<1>1. /\ f.n \in 1..kMaxBreaks /\ f.b \in [0..f.n-1 -> Values]
      /\ f.s \in [0..f.n -> Nat] /\ (\A j \in 1..f.n-1 : f.b[j-1] < f.b[j])
  BY AnchorAssumption
<1>2. f.n \in Nat
  BY <1>1 DEF kMaxBreaks
<1>3. f.b \in [0..f.n-1 -> Int]
  BY <1>1, ValuesAreIntegers
<1>4. QED
  BY <1>1, <1>2, <1>3 DEF IsMap

LEMMA BandsAreMaps ==
  ASSUME NEW z \in SideQuotes
  PROVE  /\ IsMap(Band(z[1], z[2], z[4])) /\ Band(z[1], z[2], z[4]).n = 2 /\ z[3] \in Values
<1>1. z[1] \in Int /\ z[2] \in Int /\ z[3] \in Values /\ z[4] \in Nat /\ z[1] < z[2] /\ Unit \in Nat
  BY ValuesAreIntegers DEF SideQuotes
<1> DEFINE f == Band(z[1], z[2], z[4])
<1>2. /\ f.n = 2 /\ f.b = [j \in 0..1 |-> IF j = 0 THEN z[1] ELSE z[2]]
      /\ f.s = [i \in 0..2 |-> IF i = 1 THEN z[4] ELSE Unit]
  BY DEF Band
<1> HIDE DEF f
<1>3. f.n - 1 = 1 /\ f.n \in Nat
  BY <1>2
<1>4. f.b \in [0..f.n-1 -> Int] /\ f.s \in [0..f.n -> Nat]
  BY <1>1, <1>2, <1>3
<1>5. \A j \in 1..f.n-1 : f.b[j-1] < f.b[j]
  <2>1. f.b[0] = z[1] /\ f.b[1] = z[2]
    BY <1>2
  <2>2. \A j \in 1..f.n-1 : j = 1 /\ j - 1 = 0
    BY <1>3
  <2>3. QED
    BY <1>1, <2>1, <2>2
<1>6. QED
  BY <1>1, <1>2, <1>3, <1>4, <1>5 DEF IsMap, f

\* The row has a map, its records are of that map, and a row that can be requoted in place
\* carries a band.
RowInv ==
    /\ general \in BOOLEAN /\ m \in Values /\ q \in Values
    /\ IsMap(map) /\ (~general => map.n = 2)
    /\ tp \in 0..map.n /\ piece \in 0..map.n
    /\ slopeRef \in Nat /\ slopeJ \in Nat

LEMMA AnchorInRange ==
  ASSUME NEW f, IsMap(f), NEW v \in Values, NEW m0 \in Values, NEW t \in 0..f.n, NEW strict
  PROVE  /\ AnchorPiece(f, v, m0, t, strict) \in 0..f.n
         /\ f.s[AnchorPiece(f, v, m0, t, strict)] \in Nat
         /\ SlopeAt(f, v, m0) \in Nat
<1>1. v \in Int /\ m0 \in Int /\ f.s \in [0..f.n -> Nat]
  BY ValuesAreIntegers DEF IsMap
<1>2. AnchorPiece(f, v, m0, t, strict) \in 0..f.n
  BY PiecesInRange DEF AnchorPiece
<1>3. PieceOf(f, v, TargetPiece(f, m0)) \in 0..f.n
  BY <1>1, TargetInPiece, PiecesInRange
<1>4. QED
  BY <1>1, <1>2, <1>3 DEF SlopeAt

LEMMA RowInit == SideInit => RowInv
<1> SUFFICES ASSUME SideInit
             PROVE  RowInv
  OBVIOUS
<1>1. /\ general \in BOOLEAN /\ m \in Values /\ q \in Values
      /\ IsMap(map) /\ (~general => map.n = 2)
  BY DataMapsAreMaps, BandsAreMaps DEF SideInit
<1>2. tp \in 0..map.n
  BY <1>1, TargetInPiece, ValuesAreIntegers DEF SideInit
<1>3. PICK strict \in BOOLEAN : piece = AnchorPiece(map, q, m, tp, strict) /\ slopeRef = map.s[piece] /\ slopeJ = SlopeAt(map, q, m)
  BY DEF SideInit
<1>4. QED
  BY <1>1, <1>2, <1>3, AnchorInRange DEF RowInv

LEMMA RowStep == RowInv /\ [SideNext]_sideVars => RowInv'
<1> SUFFICES ASSUME RowInv, [SideNext]_sideVars
             PROVE  RowInv'
  OBVIOUS
<1>1. CASE Retarget
  BY <1>1 DEF Retarget, RowInv
<1>2. CASE SetBands
  <2>1. PICK z \in SideQuotes : map' = Band(z[1], z[2], z[4]) /\ m' = z[3]
    BY <1>2 DEF SetBands
  <2>2. IsMap(map') /\ map'.n = 2 /\ m' \in Values
    BY <2>1, BandsAreMaps
  <2>3. ~general /\ UNCHANGED <<general, q, tp, piece, slopeRef, slopeJ>>
    BY <1>2 DEF SetBands
  <2>4. QED
    BY <2>2, <2>3 DEF RowInv
<1>3. ASSUME UNCHANGED <<map, general, m, q>>, tp' \in 0..map.n, SetAnchor
      PROVE  RowInv'
  <2>1. PICK strict \in BOOLEAN : piece' = AnchorPiece(map, q, m, tp', strict) /\ slopeRef' = map.s[piece'] /\ slopeJ' = SlopeAt(map, q, m)
    BY <1>3 DEF SetAnchor
  <2>2. IsMap(map) /\ q \in Values /\ m \in Values
    BY DEF RowInv
  <2>3. piece' \in 0..map.n /\ slopeRef' \in Nat /\ slopeJ' \in Nat
    BY <1>3, <2>1, <2>2, AnchorInRange
  <2>4. QED
    BY <1>3, <2>3 DEF RowInv
<1>4. CASE Refresh
  BY <1>3, <1>4 DEF Refresh, RowInv
<1>5. CASE Resync
  <2>1. tp' \in 0..map.n
    BY <1>5, TargetInPiece, ValuesAreIntegers DEF Resync, RowInv
  <2>2. QED
    BY <1>3, <1>5, <2>1 DEF Resync
<1>6. CASE UNCHANGED sideVars
  BY <1>6 DEF sideVars, RowInv
<1>7. QED
  BY <1>1, <1>2, <1>4, <1>5, <1>6 DEF SideNext

\* Every record of a tracked row is a value of its own map, whatever its target's piece was
\* when the record was made.
THEOREM AnchorTyped == SideSpec => []TypeOK
<1>1. RowInv => TypeOK
  BY DEF RowInv, TypeOK
<1>2. RowInv /\ [SideNext]_sideVars => RowInv'
  BY RowStep
<1>3. QED
  BY <1>1, <1>2, RowInit, PTL DEF SideSpec

\* At every point of every history of targets, requotes and anchors the residual of a row
\* leads back to the piece and the value it was read at.
THEOREM ResidualsLeadBack == SideSpec => []InvertUndoesResidual
<1>1. RowInv => InvertUndoesResidual
  <2> SUFFICES ASSUME RowInv
               PROVE  InvertUndoesResidual
    OBVIOUS
  <2> DEFINE t == TargetPiece(map, m)
             i == PieceOf(map, q, t)
             r == Residual(map, q, m)
  <2>1. IsMap(map) /\ m \in Int /\ q \in Int
    BY ValuesAreIntegers DEF RowInv
  <2>2. t \in 0..map.n /\ i \in 0..map.n
    BY <2>1, TargetInPiece, PiecesInRange
  <2>3. map.s[i] > 0 => PieceFromResidual(map, r, m, t) = i /\ Invert(map, i, r, m, t) = q
    BY <2>1, ResidualLeadsBack
  <2>4. Strict(map) => map.s[i] > 0
    BY <2>2 DEF Strict
  <2>5. QED
    BY <2>3, <2>4 DEF InvertUndoesResidual
<1>2. RowInv /\ [SideNext]_sideVars => RowInv'
  BY RowStep
<1>3. QED
  BY <1>1, <1>2, RowInit, PTL DEF SideSpec

----------------------------------------------------------------------------
(* The slope recorded for a band.                                          *)

\* No band is as steep inside as outside: of a band at its edge the target's piece is then
\* the inside, so a requote in place cannot move it (set_bands(), streaming.hpp 361).
DecaysBelowUnit == \A d \in Decays : d < Unit

\* A row carrying a band holds its target, keeps the target's piece on record, and its
\* recorded slope is that of its Jacobian row.
BandInv ==
    ~general =>
        /\ map.n = 2 /\ map.s[0] = Unit /\ map.s[2] = Unit /\ map.s[1] < Unit
        /\ map.b[0] <= m /\ m <= map.b[1]
        /\ tp = 1 /\ slopeRef = slopeJ

LEMMA InsideIsTheTarget ==
  ASSUME NEW f, IsMap(f), NEW m0 \in Int, f.n = 2,
         f.s[0] = Unit, f.s[2] = Unit, f.s[1] < Unit, f.b[0] <= m0, m0 <= f.b[1]
  PROVE  TargetPiece(f, m0) = 1
<1> DEFINE below == {j \in 0..f.n-1 : f.b[j] < m0}
<1>1. /\ f.b[0] \in Int /\ f.b[1] \in Int /\ f.s[1] \in Nat /\ Unit \in Nat /\ f.b[0] < f.b[1]
      /\ 0..f.n-1 = {0, 1}
  <2>1. f.n - 1 = 1 /\ 0 \in 0..1 /\ 1 \in 0..1 /\ 1 \in 0..2 /\ 0..1 = {0, 1}
    OBVIOUS
  <2>2. f.b \in [0..1 -> Int] /\ f.s \in [0..2 -> Nat] /\ (\A j \in 1..1 : f.b[j-1] < f.b[j])
    BY <2>1 DEF IsMap
  <2>3. f.b[1-1] < f.b[1] /\ 1 - 1 = 0
    BY <2>2
  <2>4. QED
    BY <2>1, <2>2, <2>3, ValuesAreIntegers
<1>2. TargetPiece(f, m0) = IF Cardinality(below) < f.n /\ f.b[Cardinality(below)] = m0
                              /\ f.s[Cardinality(below) + 1] < f.s[Cardinality(below)]
                           THEN Cardinality(below) + 1 ELSE Cardinality(below)
  BY DEF TargetPiece
<1>3. CASE f.b[0] < m0
  <2>1. below = {0}
    BY <1>1, <1>3
  <2>2. Cardinality(below) = 1
    BY <2>1, FS_Singleton
  <2>3. ~(f.s[1 + 1] < f.s[1])
    BY <1>1
  <2>4. QED
    BY <1>2, <2>2, <2>3
<1>4. CASE f.b[0] = m0
  <2>1. below = {}
    BY <1>1, <1>4
  <2>2. Cardinality(below) = 0
    BY <2>1, FS_EmptySet
  <2>3. f.s[0 + 1] < f.s[0] /\ 0 < f.n
    OBVIOUS
  <2>4. QED
    BY <1>2, <1>4, <2>2, <2>3
<1>5. QED
  BY <1>1, <1>3, <1>4

LEMMA BandQuoted ==
  ASSUME DecaysBelowUnit, NEW z \in SideQuotes, NEW f, f = Band(z[1], z[2], z[4])
  PROVE  /\ f.n = 2 /\ f.s[0] = Unit /\ f.s[2] = Unit /\ f.s[1] < Unit
         /\ f.b[0] <= z[3] /\ z[3] <= f.b[1]
<1>1. z[4] \in Decays /\ z[1] <= z[3] /\ z[3] <= z[2]
  BY DEF SideQuotes
<1>2. /\ f.n = 2 /\ f.b = [j \in 0..1 |-> IF j = 0 THEN z[1] ELSE z[2]]
      /\ f.s = [i \in 0..2 |-> IF i = 1 THEN z[4] ELSE Unit]
  BY DEF Band
<1>3. QED
  BY <1>1, <1>2 DEF DecaysBelowUnit

\* Anchored from the target's own piece, a row records the slope its Jacobian row carries.
LEMMA AnchoredFromTarget ==
  ASSUME NEW f, IsMap(f), NEW v \in Int, NEW m0 \in Int, NEW strict \in BOOLEAN
  PROVE  f.s[AnchorPiece(f, v, m0, TargetPiece(f, m0), strict)] = SlopeAt(f, v, m0)
<1> DEFINE t == TargetPiece(f, m0)
           i == PieceOf(f, v, t)
<1>1. t \in 0..f.n /\ i \in 0..f.n
  BY TargetInPiece, PiecesInRange
<1>2. Strict(f) => PieceFromResidual(f, Residual(f, v, m0), m0, t) = i
  <2>1. SUFFICES ASSUME Strict(f)
                 PROVE  PieceFromResidual(f, Residual(f, v, m0), m0, t) = i
    OBVIOUS
  <2>2. f.s[i] > 0
    BY <1>1, <2>1 DEF Strict
  <2>3. QED
    BY <2>2, ResidualLeadsBack
<1>3. AnchorPiece(f, v, m0, t, strict) = i
  BY <1>2 DEF AnchorPiece
<1>4. QED
  BY <1>3 DEF SlopeAt

LEMMA BandStep ==
  DecaysBelowUnit /\ RowInv /\ BandInv /\ [SideNext]_sideVars => BandInv'
<1> SUFFICES ASSUME DecaysBelowUnit, RowInv, BandInv, [SideNext]_sideVars, ~general'
             PROVE  BandInv'
  BY DEF BandInv
<1>1. CASE Retarget
  BY <1>1 DEF Retarget, BandInv
<1>2. CASE SetBands
  <2>1. PICK z \in SideQuotes : map' = Band(z[1], z[2], z[4]) /\ m' = z[3]
    BY <1>2 DEF SetBands
  <2>2. /\ map'.n = 2 /\ map'.s[0] = Unit /\ map'.s[2] = Unit /\ map'.s[1] < Unit
        /\ map'.b[0] <= m' /\ m' <= map'.b[1]
    BY <2>1, BandQuoted
  <2>3. UNCHANGED <<general, q, tp, piece, slopeRef, slopeJ>>
    BY <1>2 DEF SetBands
  <2>4. QED
    BY <2>2, <2>3 DEF BandInv
<1>3. CASE Refresh \/ Resync
  <2>1. UNCHANGED <<map, general, m, q>> /\ SetAnchor
    BY <1>3 DEF Refresh, Resync
  <2>2. /\ IsMap(map) /\ m \in Int /\ q \in Int
        /\ map.n = 2 /\ map.s[0] = Unit /\ map.s[2] = Unit /\ map.s[1] < Unit
        /\ map.b[0] <= m /\ m <= map.b[1] /\ tp = 1
    BY <2>1, ValuesAreIntegers DEF BandInv, RowInv
  <2>3. TargetPiece(map, m) = 1
    BY <2>2, InsideIsTheTarget
  <2>4. tp' = TargetPiece(map, m)
    BY <1>3, <2>2, <2>3 DEF Refresh, Resync
  <2>5. PICK strict \in BOOLEAN : slopeRef' = map.s[AnchorPiece(map, q, m, TargetPiece(map, m), strict)] /\ slopeJ' = SlopeAt(map, q, m)
    BY <2>1, <2>4 DEF SetAnchor
  <2>6. slopeRef' = slopeJ'
    BY <2>2, <2>5, AnchoredFromTarget
  <2>7. QED
    BY <2>1, <2>2, <2>3, <2>4, <2>6 DEF BandInv
<1>4. CASE UNCHANGED sideVars
  BY <1>4 DEF sideVars, BandInv
<1>5. QED
  BY <1>1, <1>2, <1>3, <1>4 DEF SideNext

\* A band's anchor records the slope its Jacobian row carries (set_anchor(), streaming.hpp
\* 845-875), through every history of targets, requotes in place and refreshes, when no band
\* is as steep inside as outside.
THEOREM BandsAnchorTruly ==
  ASSUME DecaysBelowUnit
  PROVE  SideSpec => []BandAnchoredTruly
<1> DEFINE Inv == RowInv /\ BandInv
<1>1. SideInit => Inv
  <2> SUFFICES ASSUME SideInit, ~general
               PROVE  BandInv
    BY RowInit DEF BandInv
  <2>1. RowInv
    BY RowInit
  <2>2. PICK z \in SideQuotes : map = Band(z[1], z[2], z[4]) /\ m = z[3]
    BY DEF SideInit
  <2>3. /\ map.n = 2 /\ map.s[0] = Unit /\ map.s[2] = Unit /\ map.s[1] < Unit
        /\ map.b[0] <= m /\ m <= map.b[1]
    BY <2>2, BandQuoted
  <2>4. IsMap(map) /\ m \in Int /\ q \in Int
    BY <2>1, ValuesAreIntegers DEF RowInv
  <2>5. TargetPiece(map, m) = 1
    BY <2>3, <2>4, InsideIsTheTarget
  <2>6. PICK strict \in BOOLEAN : /\ tp = TargetPiece(map, m) /\ slopeJ = SlopeAt(map, q, m)
                                  /\ slopeRef = map.s[AnchorPiece(map, q, m, tp, strict)]
    BY DEF SideInit
  <2>7. slopeRef = slopeJ
    BY <2>4, <2>6, AnchoredFromTarget
  <2>8. QED
    BY <2>3, <2>5, <2>6, <2>7 DEF BandInv
<1>2. Inv /\ [SideNext]_sideVars => Inv'
  BY RowStep, BandStep
<1>3. Inv => BandAnchoredTruly
  BY DEF BandInv, BandAnchoredTruly
<1>4. QED
  BY <1>1, <1>2, <1>3, PTL DEF SideSpec

----------------------------------------------------------------------------
(* Counting and listing. *)

\* A nonempty set of naturals has a least member.
LEMMA Least == ASSUME NEW T \in SUBSET Nat, T # {} PROVE \E u \in T : \A v \in T : u <= v
  <1>1. PICK u \in T : \A v \in T : ~ (<<v, u>> \in OpToRel(<, Nat))
    BY NatLessThanWellFounded, WFMin, Zenon
  <1>2. \A v \in T : ~(v < u)
    BY <1>1 DEF OpToRel
  <1> QED BY <1>2

\* A set that holds 0 and, with each number below n, the next holds all up to n.
LEMMA UptoInduction ==
    ASSUME NEW n \in Nat, NEW P, 0 \in P, \A i \in 1..n : i - 1 \in P => i \in P
    PROVE  0..n \subseteq P
  <1> DEFINE T == {i \in Nat : i \in 0..n /\ i \notin P}
  <1>1. SUFFICES ASSUME T # {} PROVE FALSE
    <2>1. ASSUME NEW i \in 0..n PROVE i \in Nat OBVIOUS
    <2> QED BY <2>1
  <1>2. PICK i \in T : \A v \in T : i <= v
    <2>1. T \in SUBSET Nat OBVIOUS
    <2> HIDE DEF T
    <2> QED BY Zenon, <1>1, <2>1, Least
  <1>3. i # 0 /\ i \in 1..n /\ i - 1 \in Nat /\ i - 1 \in 0..n /\ ~(i <= i - 1)
    BY SMT
  <1>4. i - 1 \in P
    BY <1>2, <1>3
  <1> QED BY <1>3, <1>4

\* A family of subsets closed under adding a member has the whole finite set.
LEMMA SubsetInduction ==
    ASSUME NEW S, IsFiniteSet(S), NEW T, {} \in T,
           \A D \in SUBSET S : (D # {} /\ \A c \in D : D \ {c} \in T) => D \in T
    PROVE  S \in T
  <1> DEFINE Bad == {n \in Nat : \E D \in SUBSET S : D \notin T /\ Cardinality(D) = n}
  <1>1. \A D \in SUBSET S : IsFiniteSet(D) /\ Cardinality(D) \in Nat
    BY FS_Subset, FS_CardinalityType
  <1>2. SUFFICES ASSUME S \notin T PROVE FALSE
    OBVIOUS
  <1>3. Bad # {}
    BY <1>1, <1>2
  <1>4. PICK n \in Bad : \A v \in Bad : n <= v
    <2>1. Bad \in SUBSET Nat OBVIOUS
    <2> HIDE DEF Bad
    <2> QED BY Zenon, <1>3, <2>1, Least
  <1>5. PICK D \in SUBSET S : D \notin T /\ Cardinality(D) = n
    OBVIOUS
  <1>6. PICK c \in D : D \ {c} \notin T
    BY <1>5
  <1>7. Cardinality(D \ {c}) = n - 1 /\ n - 1 \in Nat
    <2>1. IsFiniteSet(D) /\ D # {}
      BY <1>1, <1>5
    <2>2. Cardinality(D \ {c}) = Cardinality(D) - 1
      BY <2>1, FS_RemoveElement
    <2>3. Cardinality(D \ {c}) \in Nat
      BY <1>1
    <2> QED BY <1>5, <2>2, <2>3
  <1>8. n - 1 \in Bad
    BY <1>6, <1>7
  <1>9. n <= n - 1
    BY <1>8, <1>4
  <1> QED BY <1>9, <1>4

\* The place of a member of a finite set of integers, and that the places count it through.
Rank(S, r) == Cardinality({i \in S : i <= r})

LEMMA Ranked ==
    ASSUME NEW S \in SUBSET Int, IsFiniteSet(S)
    PROVE  /\ Cardinality(S) \in Nat
           /\ \A r \in S : Rank(S, r) \in 1..Cardinality(S)
           /\ \A r, s \in S : Rank(S, r) = Rank(S, s) => r = s
           /\ \A k \in 1..Cardinality(S) : \E r \in S : Rank(S, r) = k
  <1>1. Cardinality(S) \in Nat
    BY FS_CardinalityType
  <1>2. ASSUME NEW r \in S PROVE Rank(S, r) \in 1..Cardinality(S)
    <2> DEFINE A == {i \in S : i <= r}
    <2>1. A \in SUBSET S /\ r \in A
      OBVIOUS
    <2> HIDE DEF A
    <2>2. IsFiniteSet(A) /\ Cardinality(A) <= Cardinality(S)
      BY <2>1, FS_Subset
    <2>3. Cardinality(A) \in Nat /\ Cardinality(A) # 0
      BY <2>1, <2>2, FS_CardinalityType, FS_EmptySet
    <2>4. Cardinality(A) \in 1..Cardinality(S)
      BY SMT, <1>1, <2>2, <2>3
    <2> QED BY <2>4 DEF Rank, A
  <1>3. ASSUME NEW r \in S, NEW s \in S, r < s PROVE Rank(S, r) # Rank(S, s)
    <2> DEFINE A == {i \in S : i <= r}
               C == {i \in S : i <= s}
    <2>0. \A i \in S : i \in Int
      OBVIOUS
    <2>1. A \in SUBSET C /\ C \in SUBSET S /\ s \in C /\ s \notin A
      <3>1. ASSUME NEW i \in A PROVE i \in S /\ i <= s
        BY <1>3, <2>0
      <3>2. s \notin A /\ s \in C
        BY <1>3, <2>0
      <3> QED BY <3>1, <3>2
    <2> HIDE DEF A, C
    <2>2. IsFiniteSet(C)
      BY <2>1, FS_Subset
    <2>3. Cardinality(A) # Cardinality(C)
      BY <2>1, <2>2, FS_Subset
    <2> QED BY <2>3 DEF Rank, A, C
  <1>4. ASSUME NEW r \in S, NEW s \in S, Rank(S, r) = Rank(S, s) PROVE r = s
    <2>1. r \in Int /\ s \in Int
      OBVIOUS
    <2>2. ~(r < s) /\ ~(s < r)
      BY Zenon, <1>3, <1>4
    <2> QED BY <2>1, <2>2
  <1> DEFINE f == [r \in S |-> Rank(S, r)]
  <1>5. f \in Injection(S, 1..Cardinality(S))
    BY Zenon, <1>2, <1>4 DEF Injection, IsInjective
  <1>6. f \in Surjection(S, 1..Cardinality(S))
    <2> HIDE DEF f
    <2>1. IsFiniteSet(1..Cardinality(S)) /\ Cardinality(1..Cardinality(S)) = Cardinality(S)
      <3>1. 1 \in Int /\ Cardinality(S) \in Int
        BY <1>1
      <3>2. /\ IsFiniteSet(1..Cardinality(S))
            /\ Cardinality(1..Cardinality(S)) = IF 1 > Cardinality(S) THEN 0 ELSE Cardinality(S) - 1 + 1
        BY <3>1, FS_Interval
      <3> QED BY <1>1, <3>2
    <2> QED BY <1>5, <2>1, FS_Injection
  <1>7. ASSUME NEW k \in 1..Cardinality(S) PROVE \E r \in S : Rank(S, r) = k
    BY Zenon, <1>6 DEF Surjection
  <1> QED BY Zenon, <1>1, <1>2, <1>4, <1>7

\* A listing of a set by place: a sequence of its members, each there once.
Lists(S, l) ==
    /\ Cardinality(S) \in Nat
    /\ DOMAIN l = 1..Cardinality(S)
    /\ \A k \in DOMAIN l : l[k] \in S
    /\ \A i, k \in DOMAIN l : l[i] = l[k] => i = k
    /\ \A r \in S : \E k \in DOMAIN l : l[k] = r

LEMMA Listed ==
    ASSUME NEW S \in SUBSET Int, IsFiniteSet(S), NEW l,
           l = [k \in 1..Cardinality(S) |-> CHOOSE r \in S : Rank(S, r) = k]
    PROVE  Lists(S, l)
  <1>1. /\ Cardinality(S) \in Nat
        /\ \A r \in S : Rank(S, r) \in 1..Cardinality(S)
        /\ \A r, s \in S : Rank(S, r) = Rank(S, s) => r = s
        /\ \A k \in 1..Cardinality(S) : \E r \in S : Rank(S, r) = k
    BY Zenon, Ranked
  <1>2. ASSUME NEW k \in 1..Cardinality(S) PROVE l[k] \in S /\ Rank(S, l[k]) = k
    <2>1. l[k] = CHOOSE r \in S : Rank(S, r) = k
      BY Zenon
    <2> QED BY Zenon, <1>1, <2>1
  <1>3. DOMAIN l = 1..Cardinality(S)
    BY Zenon
  <1>4. ASSUME NEW i \in DOMAIN l, NEW k \in DOMAIN l, l[i] = l[k] PROVE i = k
    BY Zenon, <1>2, <1>3, <1>4
  <1>5. ASSUME NEW r \in S PROVE \E k \in DOMAIN l : l[k] = r
    <2>1. Rank(S, r) \in 1..Cardinality(S)
      BY Zenon, <1>1
    <2>2. l[Rank(S, r)] \in S /\ Rank(S, l[Rank(S, r)]) = Rank(S, r)
      BY Zenon, <2>1, <1>2
    <2> QED BY Zenon, <2>1, <2>2, <1>1, <1>3
  <1> QED BY Zenon, <1>1, <1>2, <1>3, <1>4, <1>5 DEF Lists

----------------------------------------------------------------------------
(* Totals: the order a sum is taken in does not matter, nor do its zeros. *)

First(D) == CHOOSE c \in D : TRUE
IsSum(it, S, f) == it = [D \in SUBSET S |-> IF D = {} THEN 0 ELSE f[First(D)] + it[D \ {First(D)}]]

LEMMA SumExists ==
    ASSUME NEW S, IsFiniteSet(S), NEW f \in [S -> Int]
    PROVE  \E it \in [SUBSET S -> Int] : IsSum(it, S, f)
  <1> DEFINE Upto0(it, n) == \A D \in SUBSET S : Cardinality(D) <= n =>
                                it[D] = IF D = {} THEN 0 ELSE f[First(D)] + it[D \ {First(D)}]
             P == {n \in Nat : \E it \in [SUBSET S -> Int] : Upto0(it, n)}
  <1>1. \A D \in SUBSET S : IsFiniteSet(D) /\ Cardinality(D) \in Nat /\ Cardinality(D) <= Cardinality(S)
    BY FS_Subset, FS_CardinalityType
  <1>2. \A D \in SUBSET S : D # {} => First(D) \in D
    BY DEF First
  <1>3. 0 \in P
    <2> DEFINE it == [D \in SUBSET S |-> 0]
    <2>1. it \in [SUBSET S -> Int]
      OBVIOUS
    <2>2. ASSUME NEW D \in SUBSET S, Cardinality(D) <= 0 PROVE D = {}
      <3>1. IsFiniteSet(D) /\ Cardinality(D) = 0
        BY <1>1, <2>2
      <3> QED BY <3>1, FS_EmptySet
    <2>3. Upto0(it, 0)
      BY Zenon, <2>2
    <2>4. 0 \in Nat
      OBVIOUS
    <2> QED BY Zenon, <2>1, <2>3, <2>4
  <1>4. ASSUME NEW n \in Nat, n \in P PROVE n + 1 \in P
    <2>1. PICK it \in [SUBSET S -> Int] : Upto0(it, n)
      BY Zenon, <1>4
    <2> DEFINE h == [D \in SUBSET S |-> IF D = {} THEN 0 ELSE f[First(D)] + it[D \ {First(D)}]]
    <2>2. h \in [SUBSET S -> Int]
      <3>1. ASSUME NEW D \in SUBSET S, D # {} PROVE f[First(D)] + it[D \ {First(D)}] \in Int
        <4>1. First(D) \in S /\ D \ {First(D)} \in SUBSET S
          BY Zenon, <1>2, <3>1
        <4>2. f[First(D)] \in Int /\ it[D \ {First(D)}] \in Int
          BY Zenon, <4>1
        <4> QED BY SMT, <4>2
      <3>2. 0 \in Int
        OBVIOUS
      <3> QED BY Zenon, <3>1, <3>2
    <2>3. Upto0(h, n + 1)
      <3> SUFFICES ASSUME NEW D \in SUBSET S, Cardinality(D) <= n + 1, D # {}
                   PROVE  h[D] = f[First(D)] + h[D \ {First(D)}]
        BY Zenon
      <3>1. D \ {First(D)} \in SUBSET S /\ First(D) \in D /\ IsFiniteSet(D)
        BY Zenon, <1>1, <1>2
      <3>2. Cardinality(D \ {First(D)}) = Cardinality(D) - 1 /\ Cardinality(D) \in Nat
        BY <1>1, <3>1, FS_RemoveElement
      <3>3. Cardinality(D \ {First(D)}) <= n
        BY SMT, <3>2
      <3>4. it[D \ {First(D)}] = h[D \ {First(D)}]
        BY Zenon, <3>1, <3>3, <2>1
      <3> QED BY Zenon, <3>4
    <2>4. n + 1 \in Nat
      OBVIOUS
    <2> HIDE DEF h
    <2> QED BY Zenon, <2>2, <2>3, <2>4
  <1>5. Nat \subseteq P
    <2> HIDE DEF P
    <2> QED BY <1>3, <1>4, SetInduction
  <1>6. PICK it \in [SUBSET S -> Int] : Upto0(it, Cardinality(S))
    <2>1. Cardinality(S) \in Nat
      BY FS_CardinalityType
    <2> QED BY Zenon, <2>1, <1>5
  <1>7. IsSum(it, S, f)
    BY Zenon, <1>1, <1>6 DEF IsSum
  <1> QED BY Zenon, <1>7

\* A sum of integers is one, whatever was chosen.
LEMMA SumTyped ==
    ASSUME NEW S, IsFiniteSet(S), NEW f \in [S -> Int], NEW it, IsSum(it, S, f)
    PROVE  it \in [SUBSET S -> Int]
  <1> DEFINE T == {D \in SUBSET S : it[D] \in Int}
  <1>1. \A D \in SUBSET S : it[D] = IF D = {} THEN 0 ELSE f[First(D)] + it[D \ {First(D)}]
    BY Zenon DEF IsSum
  <1>2. {} \in T
    <2>1. it[{}] = 0 BY Zenon, <1>1
    <2>2. 0 \in Int OBVIOUS
    <2> QED BY Zenon, <2>1, <2>2
  <1>3. ASSUME NEW D \in SUBSET S, D # {}, \A c \in D : D \ {c} \in T PROVE D \in T
    <2>1. First(D) \in D BY Zenon, <1>3 DEF First
    <2>2. it[D] = f[First(D)] + it[D \ {First(D)}] BY Zenon, <1>1, <1>3
    <2>3. f[First(D)] \in Int /\ it[D \ {First(D)}] \in Int BY Zenon, <1>3, <2>1
    <2>4. it[D] \in Int BY SMT, <2>2, <2>3
    <2> QED BY Zenon, <2>4
  <1>4. ASSUME NEW D \in SUBSET S PROVE it[D] \in Int
    <2> DEFINE U == {E \in SUBSET D : E \in T}
    <2>1. IsFiniteSet(D) BY FS_Subset
    <2>2. {} \in U BY Zenon, <1>2
    <2>3. ASSUME NEW E \in SUBSET D, E # {}, \A c \in E : E \ {c} \in U PROVE E \in U
      <3>1. E \in SUBSET S /\ \A c \in E : E \ {c} \in T BY Zenon, <2>3
      <3>2. E \in T BY Zenon, <3>1, <2>3, <1>3
      <3> QED BY Zenon, <3>2
    <2> HIDE DEF U
    <2>4. D \in U BY ONLY <2>1, <2>2, <2>3, SubsetInduction, Zenon
    <2> QED BY Zenon, <2>4 DEF U
  <1>5. it = [D \in SUBSET S |-> it[D]]
    BY Zenon DEF IsSum
  <1> QED BY Zenon, <1>4, <1>5

\* A sum may begin with any of its terms.
FromAny(it, S, f) == \A R \in SUBSET S : \A c \in R : it[R] = f[c] + it[R \ {c}]

LEMMA SumFromAny ==
    ASSUME NEW S, IsFiniteSet(S), NEW f \in [S -> Int], NEW it, IsSum(it, S, f)
    PROVE  FromAny(it, S, f)
  <1> DEFINE T == {D \in SUBSET S : \A c \in D : it[D] = f[c] + it[D \ {c}]}
  <1>0. it \in [SUBSET S -> Int]
    BY SumTyped
  <1>1. \A D \in SUBSET S : it[D] = IF D = {} THEN 0 ELSE f[First(D)] + it[D \ {First(D)}]
    BY Zenon DEF IsSum
  <1>2. {} \in T
    BY Zenon
  <1>3. ASSUME NEW D \in SUBSET S, D # {}, \A c \in D : D \ {c} \in T PROVE D \in T
    <2> DEFINE a == First(D)
    <2>1. a \in D BY Zenon, <1>3 DEF First
    <2>2. it[D] = f[a] + it[D \ {a}] BY Zenon, <1>1, <1>3
    <2> HIDE DEF a
    <2>3. ASSUME NEW c \in D, c # a PROVE it[D] = f[c] + it[D \ {c}]
      <3>1. c \in D \ {a} /\ a \in D \ {c} BY Zenon, <2>1, <2>3
      <3>2. D \ {a} \in T /\ D \ {c} \in T BY Zenon, <1>3, <2>1
      <3>3. it[D \ {a}] = f[c] + it[(D \ {a}) \ {c}] BY Zenon, <3>1, <3>2
      <3>4. it[D \ {c}] = f[a] + it[(D \ {c}) \ {a}] BY Zenon, <3>1, <3>2
      <3>5. (D \ {a}) \ {c} = (D \ {c}) \ {a} BY Zenon
      <3>6. f[a] \in Int /\ f[c] \in Int BY Zenon, <2>1
      <3>7. it[(D \ {a}) \ {c}] \in Int BY Zenon, <1>0
      <3>8. PICK u \in Int, v \in Int, w \in Int : u = f[a] /\ v = f[c] /\ w = it[(D \ {a}) \ {c}]
        BY Zenon, <3>6, <3>7
      <3>9. u + (v + w) = v + (u + w) BY SMT
      <3>10. it[D] = u + (v + w) /\ f[c] + it[D \ {c}] = v + (u + w)
        BY Zenon, <2>2, <3>3, <3>4, <3>5, <3>8
      <3> QED BY Zenon, <3>9, <3>10
    <2>4. \A c \in D : it[D] = f[c] + it[D \ {c}]
      BY Zenon, <2>2, <2>3
    <2> QED BY Zenon, <2>4
  <1>4. ASSUME NEW R \in SUBSET S PROVE R \in T
    <2> DEFINE U == {E \in SUBSET R : E \in T}
    <2>1. IsFiniteSet(R) BY FS_Subset
    <2>2. {} \in U BY Zenon, <1>2
    <2>3. ASSUME NEW E \in SUBSET R, E # {}, \A c \in E : E \ {c} \in U PROVE E \in U
      <3>1. E \in SUBSET S /\ \A c \in E : E \ {c} \in T BY Zenon, <2>3
      <3>2. E \in T BY ONLY <3>1, <2>3, <1>3, Zenon
      <3> QED BY Zenon, <3>2
    <2> HIDE DEF U
    <2>4. R \in U BY ONLY <2>1, <2>2, <2>3, SubsetInduction, Zenon
    <2> QED BY Zenon, <2>4 DEF U
  <1> QED BY Zenon, <1>4 DEF FromAny

LEMMA TotalIs ==
    ASSUME NEW S, IsFiniteSet(S), NEW f \in [S -> Int]
    PROVE  \E it \in [SUBSET S -> Int] : IsSum(it, S, f) /\ Total(f) = it[S]
  <1> DEFINE it == CHOOSE it : IsSum(it, S, f)
  <1>1. IsSum(it, S, f)
    BY Zenon, SumExists
  <1>2. DOMAIN f = S
    BY Zenon
  <1>3. Total(f) = it[S]
    BY Zenon, <1>2 DEF Total, FoldFunction, FoldFunctionOnSet, MapThenFoldSet, IsSum, First
  <1> HIDE DEF it
  <1> QED BY Zenon, <1>1, <1>3, SumTyped

LEMMA TotalTyped == ASSUME NEW S, IsFiniteSet(S), NEW f \in [S -> Int] PROVE Total(f) \in Int
  <1>1. PICK it \in [SUBSET S -> Int] : Total(f) = it[S]
    BY ONLY IsFiniteSet(S), f \in [S -> Int], TotalIs, Zenon
  <1> QED BY Zenon, <1>1

\* Terms that are zero may be left out.
Restricts(g, f, R, S) == g = [k \in R |-> f[k]] /\ \A k \in S \ R : f[k] = 0

LEMMA TotalOver ==
    ASSUME NEW S, IsFiniteSet(S), NEW f \in [S -> Int], NEW R \in SUBSET S,
           NEW g, Restricts(g, f, R, S)
    PROVE  Total(f) = Total(g)
  <1>0. g = [k \in R |-> f[k]] /\ \A k \in S \ R : f[k] = 0
    BY Zenon DEF Restricts
  <1>1. IsFiniteSet(R) /\ g \in [R -> Int]
    BY <1>0, FS_Subset
  <1>2. PICK it \in [SUBSET S -> Int] : IsSum(it, S, f) /\ Total(f) = it[S]
    BY Zenon, TotalIs
  <1>3. PICK jt \in [SUBSET R -> Int] : IsSum(jt, R, g) /\ Total(g) = jt[R]
    BY Zenon, <1>1, TotalIs
  <1> DEFINE T == {D \in SUBSET S : it[D] = jt[D \cap R]}
  <1>4. {} \in T
    <2>1. it[{}] = 0 BY Zenon, <1>2 DEF IsSum
    <2>2. jt[{}] = 0 BY Zenon, <1>3 DEF IsSum
    <2> QED BY Zenon, <2>1, <2>2
  <1>5. ASSUME NEW D \in SUBSET S, D # {}, \A c \in D : D \ {c} \in T PROVE D \in T
    <2> DEFINE a == First(D)
    <2>1. a \in D BY Zenon, <1>5 DEF First
    <2>2. it[D] = f[a] + it[D \ {a}] BY Zenon, <1>2, <1>5 DEF IsSum
    <2> HIDE DEF a
    <2>3. it[D \ {a}] = jt[(D \ {a}) \cap R] BY Zenon, <1>5, <2>1
    <2>4. CASE a \in R
      <3> DEFINE E == D \cap R
      <3>1. a \in E /\ E \in SUBSET R /\ (D \ {a}) \cap R = E \ {a} BY Zenon, <2>1, <2>4
      <3> HIDE DEF E
      <3>2. jt[E] = g[a] + jt[E \ {a}]
        <4>0. IsFiniteSet(R) /\ g \in [R -> Int] /\ IsSum(jt, R, g)
          BY Zenon, <1>1, <1>3
        <4>1. FromAny(jt, R, g)
          BY ONLY <4>0, SumFromAny, Zenon
        <4> QED BY Zenon, <3>1, <4>1 DEF FromAny
      <3>3. g[a] = f[a] BY Zenon, <2>4, <1>0
      <3>4. it[D] = jt[E] BY Zenon, <2>2, <2>3, <3>1, <3>2, <3>3
      <3> QED BY Zenon, <3>4 DEF E
    <2>5. CASE a \notin R
      <3>1. f[a] = 0 /\ (D \ {a}) \cap R = D \cap R BY Zenon, <2>1, <2>5, <1>0
      <3>2. it[D \ {a}] \in Int BY Zenon
      <3>3. it[D] = it[D \ {a}] BY SMT, <2>2, <3>1, <3>2
      <3> QED BY Zenon, <2>3, <3>1, <3>3
    <2> QED BY Zenon, <2>4, <2>5
  <1>6. S \in T
    <2> HIDE DEF T
    <2> QED BY ONLY IsFiniteSet(S), <1>4, <1>5, SubsetInduction, Zenon
  <1>7. S \cap R = R
    BY Zenon
  <1> QED BY Zenon, <1>2, <1>3, <1>6, <1>7

----------------------------------------------------------------------------
(* A curve's ancestry. *)

Curves == DOMAIN Base

LEMMA BaseTyped ==
    /\ \E n \in Nat : Curves = 1..n
    /\ \A c \in Curves : /\ c \in Nat /\ Base[c] \in Nat /\ Base[c] < c
                         /\ Base[c] # 0 => Base[c] \in Curves
  <1>1. PICK n \in Nat : n = Len(Base) /\ Curves = 1..n
    BY RouterAssumption DEF Curves
  <1>2. ASSUME NEW c \in Curves
        PROVE  c \in Nat /\ Base[c] \in Nat /\ Base[c] < c /\ (Base[c] # 0 => Base[c] \in Curves)
    <2>1. Base[c] \in 0..c-1 /\ c \in 1..n
      BY Zenon, <1>1, <1>2, CurveAssumption DEF Curves
    <2>2. PICK b \in Int : b = Base[c]
      BY SMT, <2>1
    <2>3. b \in Nat /\ b < c /\ c \in Nat /\ (b # 0 => b \in 1..n)
      BY SMT, <2>1, <2>2
    <2> QED BY Zenon, <1>1, <2>2, <2>3
  <1> QED BY Zenon, <1>1, <1>2

IsChain(f) == f = [d \in Curves |-> {d} \cup (IF Base[d] = 0 THEN {} ELSE f[Base[d]])]

\* There is one: of the sets closed under taking the base, the least around a curve.
LEMMA ChainExists == \E f : IsChain(f)
  <1> DEFINE Full(S) == \A c \in S : Base[c] # 0 => Base[c] \in S
             h == [c \in Curves |-> {a \in Curves : \A S \in SUBSET Curves : Full(S) /\ c \in S => a \in S}]
  <1>1. ASSUME NEW c \in Curves PROVE h[c] = {c} \cup (IF Base[c] = 0 THEN {} ELSE h[Base[c]])
    <2>1. c \in h[c]
      BY Zenon
    <2>2. CASE Base[c] = 0
      <3>1. Full({c}) /\ {c} \in SUBSET Curves
        BY Zenon, <2>2
      <3>2. h[c] \subseteq {c}
        BY Zenon, <3>1
      <3> QED BY Zenon, <2>1, <2>2, <3>2
    <2>3. CASE Base[c] # 0
      <3>1. PICK b \in Curves : b = Base[c]
        BY Zenon, <2>3, BaseTyped
      <3>2. h[b] \subseteq h[c]
        BY Zenon, <2>3, <3>1
      <3>3. b \in h[b] /\ h[b] \in SUBSET Curves
        BY Zenon
      <3>4. Full({c} \cup h[b]) /\ {c} \cup h[b] \in SUBSET Curves
        <4>1. ASSUME NEW e \in h[b], Base[e] # 0 PROVE Base[e] \in h[b]
          <5>1. Base[e] \in Curves
            BY Zenon, <4>1, <3>3, BaseTyped
          <5> QED BY Zenon, <4>1, <5>1
        <4> QED BY Zenon, <4>1, <3>1, <3>3
      <3>5. h[c] \subseteq {c} \cup h[b]
        BY Zenon, <3>4
      <3>6. h[c] = {c} \cup h[b]
        <4> HIDE DEF h
        <4> QED BY Zenon, <2>1, <3>2, <3>5
      <3> QED BY Zenon, <2>3, <3>1, <3>6
    <2> QED BY Zenon, <2>2, <2>3
  <1>2. IsChain(h)
    BY Zenon, <1>1 DEF IsChain
  <1> QED BY Zenon, <1>2

LEMMA AncestryStep ==
    \A c \in Curves : Ancestry(c) = {c} \cup (IF Base[c] = 0 THEN {} ELSE Ancestry(Base[c]))
  <1> DEFINE f == CHOOSE chain : IsChain(chain)
  <1>1. IsChain(f)
    BY Zenon, ChainExists
  <1>2. \A d : Ancestry(d) = f[d]
    BY Zenon DEF Ancestry, IsChain, Curves
  <1>3. \A c \in Curves : f[c] = {c} \cup (IF Base[c] = 0 THEN {} ELSE f[Base[c]])
    BY Zenon, <1>1 DEF IsChain
  <1> HIDE DEF f
  <1> QED BY Zenon, <1>2, <1>3

\* A curve's ancestry is of curves, its own first, and holds theirs.
LEMMA AncestryIs ==
    \A c \in Curves : /\ c \in Ancestry(c) /\ Ancestry(c) \subseteq Curves
                      /\ \A d \in Ancestry(c) : Ancestry(d) \subseteq Ancestry(c)
  <1> DEFINE Good(c) == /\ c \in Ancestry(c) /\ Ancestry(c) \subseteq Curves
                        /\ \A d \in Ancestry(c) : Ancestry(d) \subseteq Ancestry(c)
             Bad == {c \in Nat : c \in Curves /\ ~Good(c)}
  <1>1. SUFFICES ASSUME Bad # {} PROVE FALSE
    <2>1. \A c \in Curves : c \in Nat BY Zenon, BaseTyped
    <2>2. SUFFICES ASSUME NEW c \in Curves PROVE Good(c) BY Zenon
    <2>3. CASE Bad = {}
      <3> HIDE DEF Good
      <3> QED BY Zenon, <2>1, <2>3
    <2>4. CASE Bad # {}
      <3> HIDE DEF Bad, Good
      <3> QED BY Zenon, <2>4
    <2> QED BY Zenon, <2>3, <2>4
  <1>2. PICK c \in Bad : \A v \in Bad : c <= v
    <2>1. Bad \in SUBSET Nat OBVIOUS
    <2> HIDE DEF Bad
    <2> QED BY Zenon, <1>1, <2>1, Least
  <1>3. Ancestry(c) = {c} \cup (IF Base[c] = 0 THEN {} ELSE Ancestry(Base[c]))
    BY Zenon, AncestryStep
  <1>4. CASE Base[c] = 0
    BY Zenon, <1>3, <1>4
  <1>5. CASE Base[c] # 0
    <2>1. PICK b \in Nat : b = Base[c] /\ b < c /\ b \in Curves
      BY Zenon, <1>5, BaseTyped
    <2>2. ~(c <= b) /\ c \in Nat
      BY SMT, <2>1
    <2>3. b \notin Bad
      BY Zenon, <2>2, <1>2
    <2>4. Good(b)
      <3> HIDE DEF Good
      <3> QED BY Zenon, <2>1, <2>3
    <2>5. Ancestry(c) = {c} \cup Ancestry(b)
      BY Zenon, <1>3, <1>5, <2>1
    <2>6. Good(c)
      BY Zenon, <2>4, <2>5
    <2> HIDE DEF Good
    <2> QED BY Zenon, <2>6
  <1> QED BY Zenon, <1>4, <1>5

\* The closure of a set of curves holds it and, with every curve, its ancestry.
LEMMA ClosureIs ==
    ASSUME NEW cs \in SUBSET Curves
    PROVE  /\ cs \subseteq Closure(cs) /\ Closure(cs) \subseteq Curves
           /\ \A c \in Closure(cs) : Ancestry(c) \subseteq Closure(cs)
  <1>1. \A d : d \in Closure(cs) <=> \E c \in cs : d \in Ancestry(c)
    BY Zenon DEF Closure
  <1> QED BY Zenon, <1>1, AncestryIs

----------------------------------------------------------------------------
(* Discounts and quotes are integers, and read only the knots they are made of. *)

IsState(x, S) == \A k \in S : x[k] \in Int
SameOn(x, y, S) == \A k \in S : x[k] = y[k]

LEMMA KnotsTyped ==
    /\ IsFiniteSet(Knots)
    /\ \A k \in Knots : k[1] \in Curves /\ k[2] \in Int
    /\ \A S \in SUBSET Knots : IsFiniteSet(S)
  <1>1. IsFiniteSet(Knots) /\ Knots \subseteq Curves \X Int
    BY Zenon, RouterAssumption DEF Curves
  <1> QED BY Zenon, <1>1, FS_Subset

LEMMA UptoIs == \A c, t : Upto(c, t) \in SUBSET KnotsOf(Ancestry(c)) /\ Upto(c, t) \in SUBSET Knots /\ IsFiniteSet(Upto(c, t))
  <1>1. \A c, t : Upto(c, t) \in SUBSET KnotsOf(Ancestry(c)) /\ Upto(c, t) \in SUBSET Knots
    BY Zenon DEF Upto, KnotsOf
  <1> QED BY Zenon, <1>1, KnotsTyped

Pieces(c, t, x) == [k \in Upto(c, t) |-> IF k[1] \in Linear THEN x[k] ELSE x[k] * x[k]]

LEMMA IntegralTyped ==
    ASSUME NEW c, NEW t, NEW x, IsState(x, Upto(c, t)) PROVE Integral(c, t, x) \in Int
  <1>1. ASSUME NEW k \in Upto(c, t) PROVE (IF k[1] \in Linear THEN x[k] ELSE x[k] * x[k]) \in Int
    <2>1. PICK u \in Int : u = x[k]
      BY Zenon DEF IsState
    <2>2. u * u \in Int
      BY SMT
    <2> QED BY Zenon, <2>1, <2>2
  <1>2. Pieces(c, t, x) \in [Upto(c, t) -> Int]
    BY Zenon, <1>1 DEF Pieces
  <1>3. IsFiniteSet(Upto(c, t))
    BY Zenon, UptoIs
  <1>4. Total(Pieces(c, t, x)) \in Int
    BY ONLY <1>2, <1>3, TotalTyped, Zenon
  <1> QED BY Zenon, <1>4 DEF Integral, Pieces

LEMMA IntegralSame ==
    ASSUME NEW c, NEW t, NEW x, NEW y, SameOn(x, y, Upto(c, t))
    PROVE  Integral(c, t, x) = Integral(c, t, y)
  <1>1. Pieces(c, t, x) = Pieces(c, t, y)
    BY Zenon DEF Pieces, SameOn
  <1> QED BY Zenon, <1>1 DEF Integral, Pieces

\* On linear curves a discount is its derivatives times the state, over any knots that
\* include its own.
LEMMA IntegralAffine ==
    ASSUME NEW c, NEW t, Affine(c), NEW S \in SUBSET Knots, Upto(c, t) \subseteq S,
           NEW x, IsState(x, S), NEW f, f = [k \in S |-> Slope(c, t, k) * x[k]]
    PROVE  Total(f) = Integral(c, t, x)
  <1> DEFINE R == Upto(c, t)
  <1>1. \A k \in R : k[1] \in Linear
    BY Zenon, UptoIs DEF Affine, KnotsOf
  <1>2. ASSUME NEW k \in S PROVE f[k] \in Int /\ (k \in R => f[k] = x[k]) /\ (k \notin R => f[k] = 0)
    <2>1. PICK u \in Int : u = x[k]
      BY Zenon DEF IsState
    <2>2. f[k] = Slope(c, t, k) * u
      BY Zenon, <2>1
    <2>3. k \in R => Slope(c, t, k) = 1
      BY Zenon, <1>1 DEF Slope
    <2>4. k \notin R => Slope(c, t, k) = 0
      BY Zenon DEF Slope
    <2>5. 1 * u = u /\ 0 * u = 0 /\ 0 \in Int
      BY SMT
    <2> QED BY Zenon, <2>1, <2>2, <2>3, <2>4, <2>5
  <1>3. Pieces(c, t, x) = [k \in R |-> f[k]]
    BY Zenon, <1>1, <1>2 DEF Pieces
  <1>4. f \in [S -> Int]
    BY Zenon, <1>2
  <1>5. IsFiniteSet(S) /\ R \in SUBSET S /\ \A k \in S \ R : f[k] = 0
    BY Zenon, KnotsTyped, <1>2
  <1> HIDE DEF R
  <1>6. Restricts(Pieces(c, t, x), f, R, S)
    BY Zenon, <1>3, <1>5 DEF Restricts
  <1>7. Total(f) = Total(Pieces(c, t, x))
    BY ONLY <1>4, <1>5, <1>6, TotalOver, Zenon
  <1> QED BY Zenon, <1>7 DEF Integral, Pieces

IsRow(ins) == ins.queries \in Seq(Curves \X Int) /\ ins.states \in SUBSET Knots

LEMMA QueriesTyped ==
    ASSUME NEW ins, IsRow(ins)
    PROVE  /\ Len(ins.queries) \in Nat /\ DOMAIN ins.queries = 1..Len(ins.queries)
           /\ \A i \in DOMAIN ins.queries : ins.queries[i][1] \in Curves /\ ins.queries[i][2] \in Int
           /\ IsFiniteSet(DOMAIN ins.queries)
  <1>1. PICK s \in Seq(Curves \X Int) : s = ins.queries
    BY Zenon DEF IsRow
  <1>2. Len(s) \in Nat /\ DOMAIN s = 1..Len(s) /\ \A i \in 1..Len(s) : s[i] \in Curves \X Int
    BY SMT
  <1>3. IsFiniteSet(1..Len(s))
    BY <1>2, FS_Interval
  <1> QED BY Zenon, <1>1, <1>2, <1>3

LEMMA QuoteTyped ==
    ASSUME NEW ins, IsRow(ins), NEW d, \A i \in DOMAIN ins.queries : d[i] \in Int,
           NEW x, IsState(x, ins.states)
    PROVE  Quote(ins, d, x) \in Int
  <1> DEFINE f == [i \in DOMAIN ins.queries |-> i * d[i]]
             g == [k \in ins.states |-> x[k]]
  <1>1. f \in [DOMAIN ins.queries -> Int]
    <2>1. ASSUME NEW i \in DOMAIN ins.queries PROVE i * d[i] \in Int
      <3>1. i \in 1..Len(ins.queries) BY Zenon, QueriesTyped
      <3>2. i \in Int /\ d[i] \in Int BY SMT, <3>1
      <3> QED BY SMT, <3>2
    <2> QED BY Zenon, <2>1
  <1>2. g \in [ins.states -> Int]
    BY Zenon DEF IsState
  <1>3. IsFiniteSet(DOMAIN ins.queries) /\ IsFiniteSet(ins.states)
    BY Zenon, QueriesTyped, KnotsTyped DEF IsRow
  <1>4. Quote(ins, d, x) = Total(f) + Total(g)
    BY Zenon DEF Quote
  <1> HIDE DEF f, g
  <1>5. Total(f) \in Int
    BY ONLY <1>1, <1>3, TotalTyped, Zenon
  <1>6. Total(g) \in Int
    BY ONLY <1>2, <1>3, TotalTyped, Zenon
  <1> QED BY SMT, <1>4, <1>5, <1>6

\* Two pricings agree that agree on the discounts and on the knots read raw.
LEMMA QuoteSame ==
    ASSUME NEW ins, NEW d, NEW e, SameOn(d, e, DOMAIN ins.queries), NEW x, NEW y, SameOn(x, y, ins.states)
    PROVE  Quote(ins, d, x) = Quote(ins, e, y)
  <1>1. [i \in DOMAIN ins.queries |-> i * d[i]] = [i \in DOMAIN ins.queries |-> i * e[i]]
    BY Zenon DEF SameOn
  <1>2. [k \in ins.states |-> x[k]] = [k \in ins.states |-> y[k]]
    BY Zenon DEF SameOn
  <1> QED BY Zenon, <1>1, <1>2 DEF Quote

LEMMA ModelQuoteTyped ==
    ASSUME NEW ins, IsRow(ins), NEW x, IsState(x, Knots)
    PROVE  ModelQuote(ins, x) \in Int
  <1> DEFINE d == [i \in DOMAIN ins.queries |-> Integral(ins.queries[i][1], ins.queries[i][2], x)]
  <1>1. ASSUME NEW i \in DOMAIN ins.queries PROVE d[i] \in Int
    <2>1. IsState(x, Upto(ins.queries[i][1], ins.queries[i][2]))
      BY Zenon, UptoIs DEF IsState
    <2> QED BY Zenon, <2>1, IntegralTyped
  <1>2. IsState(x, ins.states)
    BY Zenon DEF IsRow, IsState
  <1> HIDE DEF d
  <1>3. Quote(ins, d, x) \in Int
    BY ONLY <1>1, <1>2, IsRow(ins), QuoteTyped, Zenon
  <1> QED BY Zenon, <1>3 DEF ModelQuote, d

----------------------------------------------------------------------------
(* An AAD block: its tables are over its own curves, and after a refresh   *)
(* they hold the discounts at the state.                                   *)

IsTable(d, c, S) ==
    /\ d \in [times : {d.times}, linear : {d.linear}, M : {d.M}, df : {d.df},
              seqT : {d.seqT}, seqSlot : {d.seqSlot}, cursor : Nat]
    /\ d.linear = Affine(c)
    /\ \A i \in DOMAIN d.times : d.M[i] = [k \in S |-> Slope(c, d.times[i], k)]
    /\ Len(d.seqT) \in Nat /\ DOMAIN d.seqT = 1..Len(d.seqT)
    /\ \A k \in DOMAIN d.seqT : d.seqSlot[k] \in DOMAIN d.times /\ d.times[d.seqSlot[k]] = d.seqT[k]

Reads(ins, closed) ==
    /\ IsRow(ins)
    /\ \A i \in DOMAIN ins.queries : ins.queries[i][1] \in closed
    /\ ins.states \subseteq KnotsOf(closed)

IsBlock(b, sub) ==
    /\ b \in [sub : {sub}, closed : SUBSET Curves, touched : SUBSET Knots, curves : {b.curves}, cached : {b.cached}]
    /\ b.touched = KnotsOf(b.closed)
    /\ \A c \in b.closed : Ancestry(c) \subseteq b.closed
    /\ b.cached = [c \in DOMAIN b.cached |-> b.cached[c]]
    /\ DOMAIN b.cached \subseteq b.closed
    /\ \A c \in DOMAIN b.cached : IsTable(b.cached[c], c, b.touched)
    /\ \A j \in DOMAIN sub : Reads(sub[j], b.closed)

\* The block's curves and tables are those of x.
Tables(b, x) == \A c \in DOMAIN b.cached : LET d == b.cached[c] IN \A i \in DOMAIN d.times : d.df[i] = Integral(c, d.times[i], x)
Fresh(b, x) == SameOn(b.curves, x, b.touched) /\ Tables(b, x)

LEMMA TouchesOwn ==
    ASSUME NEW b, NEW sub, IsBlock(b, sub), NEW c \in b.closed, NEW t
    PROVE  Upto(c, t) \subseteq b.touched
  <1>1. Ancestry(c) \subseteq b.closed /\ b.touched = KnotsOf(b.closed)
    BY Zenon DEF IsBlock
  <1>2. KnotsOf(Ancestry(c)) \subseteq KnotsOf(b.closed)
    BY Zenon, <1>1 DEF KnotsOf
  <1> QED BY Zenon, <1>1, <1>2, UptoIs

LEMMA UpdatedIs ==
    ASSUME NEW b, NEW sub, IsBlock(b, sub), NEW x
    PROVE  /\ IsBlock(Updated(b, x), sub) /\ SameOn(Updated(b, x).curves, x, b.touched)
           /\ Updated(b, x).closed = b.closed /\ Updated(b, x).touched = b.touched /\ Updated(b, x).cached = b.cached
  <1> DEFINE y == [k \in b.touched |-> x[k]]
  <1>1. Updated(b, x) = [b EXCEPT !.curves = y]
    BY Zenon DEF Updated
  <1>2. SameOn(y, x, b.touched)
    BY Zenon DEF SameOn
  <1> HIDE DEF y
  <1>3. b \in [sub : {sub}, closed : SUBSET Curves, touched : SUBSET Knots, curves : {b.curves}, cached : {b.cached}]
    BY Zenon DEF IsBlock
  <1>4. PICK u : u = Updated(b, x)
    BY Zenon
  <1>5. u \in [sub : {sub}, closed : SUBSET Curves, touched : SUBSET Knots, curves : {u.curves}, cached : {u.cached}]
    BY Zenon, <1>1, <1>3, <1>4
  <1>6. u.curves = y /\ u.closed = b.closed /\ u.touched = b.touched /\ u.cached = b.cached
    BY Zenon, <1>1, <1>3, <1>4
  <1>7. IsBlock(u, sub)
    BY Zenon, <1>5, <1>6 DEF IsBlock
  <1> QED BY Zenon, <1>2, <1>4, <1>6, <1>7

TableAt(d, c, b, x) ==
    [i \in DOMAIN d.times |->
        IF d.linear THEN Total([k \in b.touched |-> d.M[i][k] * Updated(b, x).curves[k]])
        ELSE Integral(c, d.times[i], Updated(b, x).curves)]

\* refresh_curves(): the tables are those of the state it is given.
LEMMA RefreshedIs ==
    ASSUME NEW b, NEW sub, IsBlock(b, sub), NEW x, IsState(x, Knots)
    PROVE  IsBlock(Refreshed(b, x), sub) /\ Fresh(Refreshed(b, x), x) /\ Refreshed(b, x).closed = b.closed
  <1> DEFINE at == Updated(b, x)
             h == [c \in DOMAIN b.cached |-> [b.cached[c] EXCEPT !.df = TableAt(b.cached[c], c, b, x), !.cursor = 0]]
  <1>1. Refreshed(b, x) = [at EXCEPT !.cached = h]
    BY Zenon DEF Refreshed, TableAt
  <1>2. /\ IsBlock(at, sub) /\ SameOn(at.curves, x, b.touched)
        /\ at.closed = b.closed /\ at.touched = b.touched /\ at.cached = b.cached
    BY Zenon, UpdatedIs
  <1> HIDE DEF at
  <1>3. ASSUME NEW c \in DOMAIN b.cached, NEW i \in DOMAIN b.cached[c].times
        PROVE  TableAt(b.cached[c], c, b, x)[i] = Integral(c, b.cached[c].times[i], x)
    <2> DEFINE d == b.cached[c]
               t == d.times[i]
    <2>1. IsTable(d, c, b.touched) /\ c \in b.closed /\ b.touched \in SUBSET Knots
      BY Zenon DEF IsBlock
    <2>2. Upto(c, t) \subseteq b.touched
      BY Zenon, <2>1, TouchesOwn
    <2>3. TableAt(d, c, b, x)[i] = IF d.linear THEN Total([k \in b.touched |-> d.M[i][k] * at.curves[k]])
                                    ELSE Integral(c, t, at.curves)
      BY Zenon DEF TableAt, at
    <2>4. CASE d.linear
      <3> DEFINE f == [k \in b.touched |-> d.M[i][k] * at.curves[k]]
      <3>1. f = [k \in b.touched |-> Slope(c, t, k) * x[k]]
        <4>1. d.M[i] = [k \in b.touched |-> Slope(c, t, k)]
          BY Zenon, <2>1 DEF IsTable
        <4>2. \A k \in b.touched : at.curves[k] = x[k]
          BY Zenon, <1>2 DEF SameOn
        <4> HIDE DEF t, d
        <4> QED BY Zenon, <4>1, <4>2
      <3>2. Affine(c)
        BY Zenon, <2>1, <2>4 DEF IsTable
      <3>3. IsState(x, b.touched)
        BY Zenon, <2>1 DEF IsState
      <3>4. TableAt(d, c, b, x)[i] = Total(f)
        BY Zenon, <2>3, <2>4
      <3> HIDE DEF f, t, d
      <3>5. Total(f) = Integral(c, t, x)
        BY ONLY <2>1, <2>2, <3>1, <3>2, <3>3, IntegralAffine, ZenonT(60)
      <3> QED BY Zenon, <3>4, <3>5 DEF t, d
    <2>5. CASE ~d.linear
      <3>1. SameOn(at.curves, x, Upto(c, t))
        BY Zenon, <1>2, <2>2 DEF SameOn
      <3>2. Integral(c, t, at.curves) = Integral(c, t, x)
        BY Zenon, <3>1, IntegralSame
      <3> QED BY Zenon, <2>3, <2>5, <3>2
    <2> QED BY Zenon, <2>4, <2>5
  <1>4. ASSUME NEW c \in DOMAIN b.cached
        PROVE  /\ IsTable(h[c], c, b.touched)
               /\ h[c].times = b.cached[c].times /\ h[c].df = TableAt(b.cached[c], c, b, x)
    <2>1. PICK d : d = b.cached[c]
      BY Zenon
    <2>2. IsTable(d, c, b.touched)
      BY Zenon, <2>1 DEF IsBlock
    <2>3. PICK e : e = [d EXCEPT !.df = TableAt(d, c, b, x), !.cursor = 0]
      BY Zenon
    <2>4. h[c] = e
      BY Zenon, <2>1, <2>3
    <2>5. d \in [times : {d.times}, linear : {d.linear}, M : {d.M}, df : {d.df},
                 seqT : {d.seqT}, seqSlot : {d.seqSlot}, cursor : Nat]
      BY Zenon, <2>2 DEF IsTable
    <2>6. /\ e.times = d.times /\ e.linear = d.linear /\ e.M = d.M /\ e.seqT = d.seqT /\ e.seqSlot = d.seqSlot
          /\ e.df = TableAt(d, c, b, x) /\ e.cursor = 0
      BY Zenon, <2>3, <2>5
    <2>7. 0 \in Nat
      OBVIOUS
    <2>8. e \in [times : {e.times}, linear : {e.linear}, M : {e.M}, df : {e.df},
                 seqT : {e.seqT}, seqSlot : {e.seqSlot}, cursor : Nat]
      BY Zenon, <2>3, <2>5, <2>7
    <2>9. IsTable(e, c, b.touched)
      BY Zenon, <2>2, <2>6, <2>8 DEF IsTable
    <2> QED BY Zenon, <2>1, <2>4, <2>6, <2>9
  <1>5. DOMAIN h = DOMAIN b.cached /\ h = [c \in DOMAIN h |-> h[c]]
    BY Zenon
  <1> HIDE DEF h
  <1>6. PICK u : u = [at EXCEPT !.cached = h]
    BY Zenon
  <1>7. at \in [sub : {sub}, closed : SUBSET Curves, touched : SUBSET Knots, curves : {at.curves}, cached : {at.cached}]
    BY Zenon, <1>2 DEF IsBlock
  <1>8. u.curves = at.curves /\ u.closed = b.closed /\ u.touched = b.touched /\ u.cached = h
    BY Zenon, <1>2, <1>6, <1>7
  <1>9. u \in [sub : {sub}, closed : SUBSET Curves, touched : SUBSET Knots, curves : {u.curves}, cached : {u.cached}]
    BY Zenon, <1>6, <1>7
  <1>10. IsBlock(u, sub)
    <2>1. /\ b.touched = KnotsOf(b.closed) /\ \A c \in b.closed : Ancestry(c) \subseteq b.closed
          /\ DOMAIN b.cached \subseteq b.closed /\ \A j \in DOMAIN sub : Reads(sub[j], b.closed)
      BY Zenon DEF IsBlock
    <2>2. \A c \in DOMAIN u.cached : IsTable(u.cached[c], c, u.touched)
      BY Zenon, <1>4, <1>5, <1>8
    <2> QED BY Zenon, <1>5, <1>8, <1>9, <2>1, <2>2 DEF IsBlock
  <1>11. Fresh(u, x)
    <2>1. SameOn(u.curves, x, u.touched)
      BY Zenon, <1>2, <1>8
    <2>2. ASSUME NEW c \in DOMAIN u.cached, NEW i \in DOMAIN u.cached[c].times
          PROVE  u.cached[c].df[i] = Integral(c, u.cached[c].times[i], x)
      <3>1. c \in DOMAIN b.cached
        BY Zenon, <1>5, <1>8
      <3>2. i \in DOMAIN b.cached[c].times /\ u.cached[c].times = b.cached[c].times
            /\ u.cached[c].df = TableAt(b.cached[c], c, b, x)
        BY Zenon, <3>1, <1>4, <1>8
      <3> QED BY Zenon, <3>1, <3>2, <1>3
    <2> QED BY Zenon, <2>1, <2>2 DEF Fresh, Tables
  <1> QED BY Zenon, <1>1, <1>6, <1>8, <1>10, <1>11

\* CachedDisc::discount(): by the cursor, by search or from the curve, the curve's discount.
LEMMA DiscountIs ==
    ASSUME NEW b, NEW sub, IsBlock(b, sub), NEW x, Fresh(b, x), NEW c \in b.closed, NEW t
    PROVE  Discount(b, c, t) = Integral(c, t, x)
  <1>1. Integral(c, t, b.curves) = Integral(c, t, x)
    <2>1. SameOn(b.curves, x, Upto(c, t))
      BY Zenon, TouchesOwn DEF Fresh, SameOn
    <2> QED BY Zenon, <2>1, IntegralSame
  <1>2. CASE c \notin DOMAIN b.cached
    BY Zenon, <1>1, <1>2 DEF Discount
  <1>3. CASE c \in DOMAIN b.cached
    <2>1. PICK d : d = b.cached[c]
      BY Zenon
    <2>2. IsTable(d, c, b.touched) /\ \A i \in DOMAIN d.times : d.df[i] = Integral(c, d.times[i], x)
      BY Zenon, <1>3, <2>1 DEF IsBlock, Fresh, Tables
    <2>3. Discount(b, c, t) = IF Expected(d, t) THEN d.df[d.seqSlot[d.cursor + 1]]
                              ELSE IF t \in {d.times[i] : i \in DOMAIN d.times} THEN d.df[SlotOf(d.times, t)]
                              ELSE Integral(c, t, b.curves)
      BY Zenon, <1>3, <2>1 DEF Discount
    <2>4. CASE Expected(d, t)
      <3>1. PICK k \in Nat : k = d.cursor
        BY Zenon, <2>2 DEF IsTable
      <3>2. PICK n \in Nat : n = Len(d.seqT) /\ DOMAIN d.seqT = 1..n
        BY Zenon, <2>2 DEF IsTable
      <3>3. k < n /\ d.seqT[k + 1] = t
        BY Zenon, <2>4, <3>1, <3>2 DEF Expected
      <3>4. k + 1 \in 1..n
        BY SMT, <3>3
      <3>5. PICK s \in DOMAIN d.times : s = d.seqSlot[k + 1] /\ d.times[s] = t
        BY Zenon, <2>2, <3>2, <3>3, <3>4 DEF IsTable
      <3> QED BY Zenon, <2>2, <2>3, <2>4, <3>1, <3>5
    <2>5. CASE ~Expected(d, t) /\ t \in {d.times[i] : i \in DOMAIN d.times}
      <3>1. SlotOf(d.times, t) \in DOMAIN d.times /\ d.times[SlotOf(d.times, t)] = t
        BY Zenon, <2>5 DEF SlotOf
      <3> QED BY Zenon, <2>2, <2>3, <2>5, <3>1
    <2>6. CASE ~Expected(d, t) /\ t \notin {d.times[i] : i \in DOMAIN d.times}
      BY Zenon, <1>1, <2>3, <2>6
    <2> QED BY Zenon, <2>4, <2>5, <2>6
  <1> QED BY Zenon, <1>2, <1>3

\* The cursor moves, and nothing else.
AskedWell(b, w, sub, x) == IsBlock(w, sub) /\ Fresh(w, x) /\ w.closed = b.closed

LEMMA AskedIs ==
    ASSUME NEW b, NEW sub, IsBlock(b, sub), NEW x, Fresh(b, x), NEW c, NEW t
    PROVE  AskedWell(b, Asked(b, c, t), sub, x)
  <1>1. CASE ~(c \in DOMAIN b.cached /\ Expected(b.cached[c], t))
    BY Zenon, <1>1 DEF Asked, AskedWell
  <1>2. CASE c \in DOMAIN b.cached /\ Expected(b.cached[c], t)
    <2>1. PICK d : d = b.cached[c]
      BY Zenon
    <2>2. IsTable(d, c, b.touched)
      BY Zenon, <1>2, <2>1 DEF IsBlock
    <2>3. d \in [times : {d.times}, linear : {d.linear}, M : {d.M}, df : {d.df},
                 seqT : {d.seqT}, seqSlot : {d.seqSlot}, cursor : Nat]
      BY Zenon, <2>2 DEF IsTable
    <2>4. PICK e : e = [d EXCEPT !.cursor = d.cursor + 1]
      BY Zenon
    <2>5. d.cursor + 1 \in Nat
      <3>1. PICK k \in Nat : k = d.cursor BY Zenon, <2>3
      <3>2. k + 1 \in Nat BY SMT
      <3> QED BY Zenon, <3>1, <3>2
    <2>6. /\ e.times = d.times /\ e.linear = d.linear /\ e.M = d.M /\ e.seqT = d.seqT /\ e.seqSlot = d.seqSlot
          /\ e.df = d.df
      BY Zenon, <2>3, <2>4
    <2>7. e \in [times : {e.times}, linear : {e.linear}, M : {e.M}, df : {e.df},
                 seqT : {e.seqT}, seqSlot : {e.seqSlot}, cursor : Nat]
      BY Zenon, <2>3, <2>4, <2>5
    <2>8. IsTable(e, c, b.touched)
      BY ZenonT(60), <2>2, <2>6, <2>7 DEF IsTable
    <2>9. PICK h : h = [b.cached EXCEPT ![c] = e]
      BY Zenon
    <2>10. PICK u : u = [b EXCEPT !.cached = h]
      BY Zenon
    <2>11. b \in [sub : {sub}, closed : SUBSET Curves, touched : SUBSET Knots, curves : {b.curves}, cached : {b.cached}]
           /\ b.cached = [f \in DOMAIN b.cached |-> b.cached[f]]
      BY Zenon DEF IsBlock
    <2>12. Asked(b, c, t) = u
      BY Zenon, <1>2, <2>1, <2>4, <2>9, <2>10 DEF Asked
    <2>13. u.curves = b.curves /\ u.closed = b.closed /\ u.touched = b.touched /\ u.cached = h
      BY Zenon, <2>10, <2>11
    <2>14. u \in [sub : {sub}, closed : SUBSET Curves, touched : SUBSET Knots, curves : {u.curves}, cached : {u.cached}]
      BY Zenon, <2>10, <2>11
    <2>15. /\ DOMAIN h = DOMAIN b.cached /\ h = [f \in DOMAIN h |-> h[f]]
           /\ h[c] = e /\ \A f \in DOMAIN b.cached : f # c => h[f] = b.cached[f]
      BY Zenon, <1>2, <2>9, <2>11
    <2>16. IsBlock(u, sub)
      <3>1. \A f \in DOMAIN u.cached : IsTable(u.cached[f], f, u.touched)
        BY Zenon, <2>8, <2>13, <2>15 DEF IsBlock
      <3> QED BY Zenon, <2>13, <2>14, <2>15, <3>1 DEF IsBlock
    <2>17. Fresh(u, x)
      <3>1. \A f \in DOMAIN u.cached : u.cached[f].times = b.cached[f].times /\ u.cached[f].df = b.cached[f].df
        BY Zenon, <2>1, <2>6, <2>13, <2>15
      <3>2. ASSUME NEW f \in DOMAIN u.cached, NEW i \in DOMAIN u.cached[f].times
            PROVE  u.cached[f].df[i] = Integral(f, u.cached[f].times[i], x)
        <4>1. f \in DOMAIN b.cached /\ i \in DOMAIN b.cached[f].times
          BY Zenon, <2>13, <2>15, <3>1
        <4>2. b.cached[f].df[i] = Integral(f, b.cached[f].times[i], x)
          BY Zenon, <4>1 DEF Fresh, Tables
        <4> QED BY Zenon, <3>1, <4>2
      <3>3. Tables(u, x)
        BY Zenon, <3>2 DEF Tables
      <3> QED BY Zenon, <2>13, <3>3 DEF Fresh
    <2> QED BY Zenon, <2>12, <2>13, <2>16, <2>17 DEF AskedWell
  <1> QED BY Zenon, <1>1, <1>2

----------------------------------------------------------------------------
(* A row priced through the tables, in either order, and a pass over the   *)
(* rows.                                                                   *)

AskStart(b, ins) == [block |-> b, discount |-> [k \in 1..Len(ins.queries) |-> 0]]
AskStep(ins, order, i, v) ==
    [block |-> Asked(v.block, ins.queries[Place(Len(ins.queries), i, order)][1],
                              ins.queries[Place(Len(ins.queries), i, order)][2]),
     discount |-> [v.discount EXCEPT ![Place(Len(ins.queries), i, order)] =
                      Discount(v.block, ins.queries[Place(Len(ins.queries), i, order)][1],
                                        ins.queries[Place(Len(ins.queries), i, order)][2])]]
IsAsking(h, b, ins, order, k) ==
    h = [i \in 0..k |-> IF i = 0 THEN AskStart(b, ins) ELSE AskStep(ins, order, i, h[i-1])]

LEMMA AskingExists ==
    ASSUME NEW b, NEW ins, NEW order, NEW n \in Nat PROVE \E h : IsAsking(h, b, ins, order, n)
  <1> DEFINE P == {k \in Nat : \E h : IsAsking(h, b, ins, order, k)}
             s == AskStart(b, ins)
             op(i, v) == AskStep(ins, order, i, v)
  <1> HIDE DEF s, op
  <1>0. \A h, k : IsAsking(h, b, ins, order, k) <=> h = [i \in 0..k |-> IF i = 0 THEN s ELSE op(i, h[i-1])]
    BY Zenon DEF IsAsking, s, op
  <1>1. 0 \in P
    <2> DEFINE h == [i \in 0..0 |-> s]
    <2>1. \A i \in 0..0 : i = 0 BY SMT
    <2>2. h = [i \in 0..0 |-> IF i = 0 THEN s ELSE op(i, h[i-1])] BY Zenon, <2>1
    <2>3. 0 \in Nat OBVIOUS
    <2> HIDE DEF h
    <2> QED BY Zenon, <1>0, <2>2, <2>3
  <1>2. ASSUME NEW k \in Nat, k \in P PROVE k + 1 \in P
    <2>1. PICK h : h = [i \in 0..k |-> IF i = 0 THEN s ELSE op(i, h[i-1])]
      <3>1. PICK h : IsAsking(h, b, ins, order, k) BY Zenon, <1>2
      <3>2. h = [i \in 0..k |-> IF i = 0 THEN s ELSE op(i, h[i-1])] BY Zenon, <1>0, <3>1
      <3> QED BY Zenon, <3>2
    <2> DEFINE g == [i \in 0..k+1 |-> IF i = 0 THEN s ELSE op(i, h[i-1])]
    <2>2. ASSUME NEW i \in 0..k+1, i # 0 PROVE g[i-1] = h[i-1]
      <3>1. i - 1 \in 0..k /\ i - 1 \in 0..k+1 BY SMT, <2>2
      <3>2. g[i-1] = IF i - 1 = 0 THEN s ELSE op(i - 1, h[(i-1)-1]) BY Zenon, <3>1
      <3>3. h[i-1] = IF i - 1 = 0 THEN s ELSE op(i - 1, h[(i-1)-1]) BY Zenon, <2>1, <3>1
      <3> QED BY Zenon, <3>2, <3>3
    <2>3. g = [i \in 0..k+1 |-> IF i = 0 THEN s ELSE op(i, g[i-1])] BY Zenon, <2>2
    <2>4. k + 1 \in Nat OBVIOUS
    <2> HIDE DEF g
    <2> QED BY Zenon, <1>0, <2>3, <2>4
  <1>3. n \in P
    <2> HIDE DEF P
    <2> QED BY <1>1, <1>2, SetInduction
  <1> QED BY Zenon, <1>3

\* Every place comes up, whichever the order.
LEMMA PlaceIs ==
    ASSUME NEW n \in Nat, NEW i \in 1..n, NEW order \in Orders
    PROVE  Place(n, i, order) \in 1..n /\ Place(n, Place(n, i, order), order) = i
  <1>1. n + 1 - i \in 1..n /\ n + 1 - (n + 1 - i) = i
    BY SMT
  <1> QED BY Zenon, <1>1 DEF Place, Orders

Asks2(ins, x) == [p \in DOMAIN ins.queries |-> Integral(ins.queries[p][1], ins.queries[p][2], x)]
PricedAt(v, sub, closed, ins, x) ==
    /\ IsBlock(v.block, sub) /\ Fresh(v.block, x) /\ v.block.closed = closed
    /\ SameOn(v.discount, Asks2(ins, x), DOMAIN ins.queries)

LEMMA PricedIs ==
    ASSUME NEW b, NEW sub, IsBlock(b, sub), NEW x, Fresh(b, x), NEW ins, Reads(ins, b.closed), NEW order \in Orders
    PROVE  PricedAt(Priced(b, ins, order), sub, b.closed, ins, x)
  <1>0. PICK n \in Nat : n = Len(ins.queries) /\ DOMAIN ins.queries = 1..n
    BY Zenon, QueriesTyped DEF Reads
  <1> DEFINE ask == CHOOSE h : IsAsking(h, b, ins, order, n)
  <1>1. Priced(b, ins, order) = ask[n]
    BY Zenon, <1>0 DEF Priced, IsAsking, AskStart, AskStep
  <1>2. IsAsking(ask, b, ins, order, n)
    BY Zenon, AskingExists
  <1> HIDE DEF ask
  <1> DEFINE Good(v, i) ==
                /\ IsBlock(v.block, sub) /\ Fresh(v.block, x) /\ v.block.closed = b.closed
                /\ v.discount = [p \in 1..n |-> v.discount[p]]
                /\ \A h \in 1..n : h <= i =>
                      v.discount[Place(n, h, order)] = Asks2(ins, x)[Place(n, h, order)]
             P == {i \in 0..n : Good(ask[i], i)}
  <1>3. 0 \in P
    <2>1. 0 \in 0..n /\ \A h \in 1..n : ~(h <= 0) BY SMT
    <2>2. ask[0] = AskStart(b, ins) BY Zenon, <1>2, <2>1 DEF IsAsking
    <2>3. ask[0].block = b /\ ask[0].discount = [k \in 1..n |-> 0]
      <3>0. AskStart(b, ins).block = b /\ AskStart(b, ins).discount = [k \in 1..Len(ins.queries) |-> 0]
        BY Zenon DEF AskStart
      <3>1. ask[0].block = b /\ ask[0].discount = [k \in 1..Len(ins.queries) |-> 0] BY ONLY <2>2, <3>0, Zenon
      <3>2. Len(ins.queries) = n BY Zenon, <1>0
      <3> QED BY ONLY <3>1, <3>2
    <2>4. Good(ask[0], 0) BY Zenon, <2>1, <2>3
    <2> HIDE DEF Good
    <2> QED BY Zenon, <2>1, <2>4
  <1>4. ASSUME NEW i \in 1..n, i - 1 \in P PROVE i \in P
    <2>1. i \in 0..n /\ i - 1 \in 0..n /\ i # 0 BY SMT
    <2>2. PICK v : v = ask[i-1] BY Zenon
    <2>3. Good(v, i - 1) BY Zenon, <1>4, <2>2
    <2>4. PICK p \in 1..n : p = Place(n, i, order) BY Zenon, PlaceIs
    <2> DEFINE c == ins.queries[p][1]
               t == ins.queries[p][2]
               w == ask[i]
    <2>5. w = AskStep(ins, order, i, v) BY Zenon, <1>2, <2>1, <2>2 DEF IsAsking
    <2>6. w.block = Asked(v.block, c, t) /\ w.discount = [v.discount EXCEPT ![p] = Discount(v.block, c, t)]
      <3>1. Place(Len(ins.queries), i, order) = p BY Zenon, <1>0, <2>4
      <3> HIDE DEF w
      <3> QED BY ONLY <3>1, <2>5, Zenon DEF AskStep, c, t
    <2>7. c \in b.closed BY Zenon, <1>0, <2>4 DEF Reads
    <2>8. Asks2(ins, x)[p] = Integral(c, t, x) BY Zenon, <1>0 DEF Asks2
    <2> HIDE DEF c, t, w
    <2>9. Discount(v.block, c, t) = Integral(c, t, x)
      <3>1. IsBlock(v.block, sub) /\ Fresh(v.block, x) /\ c \in v.block.closed BY Zenon, <2>3, <2>7
      <3> QED BY ONLY <3>1, DiscountIs, Zenon
    <2>10. IsBlock(w.block, sub) /\ Fresh(w.block, x) /\ w.block.closed = b.closed
      <3>1. IsBlock(v.block, sub) /\ Fresh(v.block, x) /\ v.block.closed = b.closed BY Zenon, <2>3
      <3>2. AskedWell(v.block, Asked(v.block, c, t), sub, x)
        BY ONLY <3>1, AskedIs, Zenon
      <3> QED BY Zenon, <2>6, <3>1, <3>2 DEF AskedWell
    <2>11. w.discount = [k \in 1..n |-> IF k = p THEN Integral(c, t, x) ELSE v.discount[k]]
      BY Zenon, <2>3, <2>6, <2>9
    <2>12. ASSUME NEW h \in 1..n, h <= i
           PROVE  w.discount[Place(n, h, order)] = Asks2(ins, x)[Place(n, h, order)]
      <3>1. Place(n, h, order) \in 1..n BY Zenon, PlaceIs
      <3>2. CASE h = i
        BY Zenon, <2>4, <2>8, <2>11, <3>1, <3>2
      <3>3. CASE h # i
        <4>1. h <= i - 1 BY SMT, <2>12, <3>3
        <4>2. Place(n, h, order) # p
          <5>1. Place(n, Place(n, h, order), order) = h /\ Place(n, Place(n, i, order), order) = i BY Zenon, PlaceIs
          <5> QED BY Zenon, <5>1, <2>4, <3>3
        <4> QED BY Zenon, <2>3, <2>11, <3>1, <4>1, <4>2
      <3> QED BY Zenon, <3>2, <3>3
    <2>13. w.discount = [k \in 1..n |-> w.discount[k]] BY Zenon, <2>11
    <2>14. Good(w, i) BY Zenon, <2>10, <2>12, <2>13
    <2> HIDE DEF Good
    <2> QED BY Zenon, <2>1, <2>14 DEF w
  <1>5. n \in P
    <2> HIDE DEF P
    <2>1. 0..n \subseteq P BY ONLY n \in Nat, <1>3, <1>4, UptoInduction, Zenon
    <2>2. n \in 0..n OBVIOUS
    <2> QED BY Zenon, <2>1, <2>2
  <1>6. PICK v : v = ask[n]
    BY Zenon
  <1>7. Good(v, n)
    BY Zenon, <1>5, <1>6
  <1>8. ASSUME NEW p \in 1..n PROVE v.discount[p] = Asks2(ins, x)[p]
    <2>1. Place(n, p, order) \in 1..n /\ Place(n, Place(n, p, order), order) = p BY Zenon, PlaceIs
    <2>2. Place(n, p, order) <= n BY SMT, <2>1
    <2> QED BY Zenon, <1>7, <2>1, <2>2
  <1> QED BY Zenon, <1>0, <1>1, <1>6, <1>7, <1>8 DEF PricedAt, SameOn

IsList(s) == Len(s) \in Nat /\ DOMAIN s = 1..Len(s)

LEMMA ListOf == ASSUME NEW n \in Nat, NEW s, s = [i \in 1..n |-> s[i]] PROVE IsList(s) /\ Len(s) = n
  <1>1. DOMAIN s = 1..n OBVIOUS
  <1>2. Len(s) = n BY <1>1
  <1> QED BY <1>1, <1>2 DEF IsList

LEMMA ListTyped ==
    ASSUME NEW s, IsList(s), NEW V, \A i \in DOMAIN s : s[i] \in V, s = [i \in DOMAIN s |-> s[i]]
    PROVE  s \in Seq(V)
  BY DEF IsList

PassStart(b, x) == [block |-> Refreshed(b, x), quote |-> << >>]
PassStep(b, order, j, v) ==
    [block |-> Priced(v.block, b.sub[j], order).block,
     quote |-> Append(v.quote, Quote(b.sub[j], Priced(v.block, b.sub[j], order).discount,
                                     Priced(v.block, b.sub[j], order).block.curves))]
IsPass(h, b, x, order, k) ==
    h = [j \in 0..k |-> IF j = 0 THEN PassStart(b, x) ELSE PassStep(b, order, j, h[j-1])]

LEMMA PassExists ==
    ASSUME NEW b, NEW x, NEW order, NEW n \in Nat PROVE \E h : IsPass(h, b, x, order, n)
  <1> DEFINE P == {k \in Nat : \E h : IsPass(h, b, x, order, k)}
             s == PassStart(b, x)
             op(i, v) == PassStep(b, order, i, v)
  <1> HIDE DEF s, op
  <1>0. \A h, k : IsPass(h, b, x, order, k) <=> h = [i \in 0..k |-> IF i = 0 THEN s ELSE op(i, h[i-1])]
    BY Zenon DEF IsPass, s, op
  <1>1. 0 \in P
    <2> DEFINE h == [i \in 0..0 |-> s]
    <2>1. \A i \in 0..0 : i = 0 BY SMT
    <2>2. h = [i \in 0..0 |-> IF i = 0 THEN s ELSE op(i, h[i-1])] BY Zenon, <2>1
    <2>3. 0 \in Nat OBVIOUS
    <2> HIDE DEF h
    <2> QED BY Zenon, <1>0, <2>2, <2>3
  <1>2. ASSUME NEW k \in Nat, k \in P PROVE k + 1 \in P
    <2>1. PICK h : h = [i \in 0..k |-> IF i = 0 THEN s ELSE op(i, h[i-1])]
      <3>1. PICK h : IsPass(h, b, x, order, k) BY Zenon, <1>2
      <3>2. h = [i \in 0..k |-> IF i = 0 THEN s ELSE op(i, h[i-1])] BY Zenon, <1>0, <3>1
      <3> QED BY Zenon, <3>2
    <2> DEFINE g == [i \in 0..k+1 |-> IF i = 0 THEN s ELSE op(i, h[i-1])]
    <2>2. ASSUME NEW i \in 0..k+1, i # 0 PROVE g[i-1] = h[i-1]
      <3>1. i - 1 \in 0..k /\ i - 1 \in 0..k+1 BY SMT, <2>2
      <3>2. g[i-1] = IF i - 1 = 0 THEN s ELSE op(i - 1, h[(i-1)-1]) BY Zenon, <3>1
      <3>3. h[i-1] = IF i - 1 = 0 THEN s ELSE op(i - 1, h[(i-1)-1]) BY Zenon, <2>1, <3>1
      <3> QED BY Zenon, <3>2, <3>3
    <2>3. g = [i \in 0..k+1 |-> IF i = 0 THEN s ELSE op(i, g[i-1])] BY Zenon, <2>2
    <2>4. k + 1 \in Nat OBVIOUS
    <2> HIDE DEF g
    <2> QED BY Zenon, <1>0, <2>3, <2>4
  <1>3. n \in P
    <2> HIDE DEF P
    <2> QED BY <1>1, <1>2, SetInduction
  <1> QED BY Zenon, <1>3

\* A quote over discounts taken right is the model quote.
LEMMA QuoteOfPriced ==
    ASSUME NEW v, NEW sub, NEW closed, NEW ins, NEW x, PricedAt(v, sub, closed, ins, x), Reads(ins, closed)
    PROVE  Quote(ins, v.discount, v.block.curves) = ModelQuote(ins, x)
  <1>1. SameOn(v.discount, Asks2(ins, x), DOMAIN ins.queries)
    BY Zenon DEF PricedAt
  <1>2. SameOn(v.block.curves, x, ins.states)
    <2>1. v.block.touched = KnotsOf(closed) /\ SameOn(v.block.curves, x, v.block.touched)
      BY Zenon DEF PricedAt, IsBlock, Fresh
    <2> QED BY Zenon, <2>1 DEF Reads, SameOn
  <1>3. Quote(ins, v.discount, v.block.curves) = Quote(ins, Asks2(ins, x), x)
    BY ONLY <1>1, <1>2, QuoteSame
  <1> QED BY Zenon, <1>3 DEF ModelQuote, Asks2

Answered(v, sub, closed, x, k) ==
    /\ IsBlock(v.block, sub) /\ v.block.closed = closed
    /\ v.quote = [h \in 1..k |-> ModelQuote(sub[h], x)]

LEMMA AppendIs ==
    ASSUME NEW k \in Nat, NEW f, f = [h \in 1..k |-> f[h]], \A h \in 1..k : f[h] \in Int, NEW u \in Int
    PROVE  Append(f, u) = [h \in 1..k+1 |-> IF h = k + 1 THEN u ELSE f[h]]
  <1>1. f \in Seq(Int) /\ Len(f) = k
    OBVIOUS
  <1>2. /\ Append(f, u) \in Seq(Int) /\ Len(Append(f, u)) = k + 1
        /\ \A h \in 1..k+1 : Append(f, u)[h] = IF h = k + 1 THEN u ELSE f[h]
    BY <1>1
  <1>3. Append(f, u) = [h \in 1..k+1 |-> Append(f, u)[h]]
    BY <1>2
  <1> QED BY <1>2, <1>3

\* residuals_vs_into(): every row's quote is the model quote at the state of the pass.
LEMMA ResidualPassIs ==
    ASSUME NEW b, NEW sub, IsList(sub), IsBlock(b, sub), NEW x, IsState(x, Knots), NEW order \in Orders
    PROVE  Answered(ResidualPass(b, x, order), sub, b.closed, x, Len(sub))
  <1>0. PICK n \in Nat : n = Len(sub) /\ DOMAIN sub = 1..n /\ b.sub = sub
    BY Zenon DEF IsList, IsBlock
  <1> DEFINE row == CHOOSE h : IsPass(h, b, x, order, n)
  <1>1. ResidualPass(b, x, order) = row[n]
    <2>1. Len(b.sub) = n BY Zenon, <1>0
    <2> QED BY Zenon, <2>1 DEF ResidualPass, IsPass, PassStart, PassStep
  <1>2. IsPass(row, b, x, order, n)
    BY Zenon, PassExists
  <1> HIDE DEF row
  <1> DEFINE Good(v, i) == Answered(v, sub, b.closed, x, i) /\ Fresh(v.block, x)
             P == {i \in 0..n : Good(row[i], i)}
  <1>3. 0 \in P
    <2>1. 0 \in 0..n BY SMT
    <2>2. row[0] = PassStart(b, x) BY Zenon, <1>2, <2>1 DEF IsPass
    <2>3. row[0].block = Refreshed(b, x) /\ row[0].quote = << >>
      <3>1. PassStart(b, x).block = Refreshed(b, x) /\ PassStart(b, x).quote = << >> BY Zenon DEF PassStart
      <3> QED BY ONLY <2>2, <3>1, Zenon
    <2>4. << >> = [h \in 1..0 |-> ModelQuote(sub[h], x)]
      OBVIOUS
    <2>5. Good(row[0], 0)
      <3>1. IsBlock(Refreshed(b, x), sub) /\ Fresh(Refreshed(b, x), x) /\ Refreshed(b, x).closed = b.closed
        BY Zenon, RefreshedIs
      <3> QED BY ONLY <2>3, <2>4, <3>1, Zenon DEF Answered
    <2> HIDE DEF Good
    <2> QED BY Zenon, <2>1, <2>5
  <1>4. ASSUME NEW j \in 1..n, j - 1 \in P PROVE j \in P
    <2>1. j \in 0..n /\ j - 1 \in 0..n /\ j # 0 /\ j - 1 \in Nat /\ (j - 1) + 1 = j BY SMT
    <2>2. PICK v : v = row[j-1] BY Zenon
    <2>3. Good(v, j - 1) BY Zenon, <1>4, <2>2
    <2>4. PICK ins : ins = sub[j] BY Zenon
    <2>5. Reads(ins, b.closed) BY Zenon, <1>0, <2>4 DEF IsBlock
    <2>6. PICK p : p = Priced(v.block, ins, order) BY Zenon
    <2>7. PricedAt(p, sub, b.closed, ins, x)
      <3>1. IsBlock(v.block, sub) /\ Fresh(v.block, x) /\ v.block.closed = b.closed BY Zenon, <2>3 DEF Answered
      <3>2. Reads(ins, v.block.closed) BY Zenon, <2>5, <3>1
      <3>3. PricedAt(Priced(v.block, ins, order), sub, v.block.closed, ins, x)
        BY ONLY <3>1, <3>2, order \in Orders, PricedIs, Zenon
      <3> QED BY Zenon, <3>1, <3>3, <2>6
    <2>8. row[j] = PassStep(b, order, j, v) BY Zenon, <1>2, <2>1, <2>2 DEF IsPass
    <2>9. row[j].block = p.block /\ row[j].quote = Append(v.quote, Quote(ins, p.discount, p.block.curves))
      <3>1. b.sub[j] = ins BY Zenon, <1>0, <2>4
      <3>2. /\ PassStep(b, order, j, v).block = p.block
            /\ PassStep(b, order, j, v).quote = Append(v.quote, Quote(ins, p.discount, p.block.curves))
        BY ONLY <2>6, <3>1, Zenon DEF PassStep
      <3> QED BY ONLY <2>8, <3>2, Zenon
    <2>10. Quote(ins, p.discount, p.block.curves) = ModelQuote(ins, x)
      BY ONLY <2>5, <2>7, QuoteOfPriced
    <2>11. v.quote = [h \in 1..j-1 |-> ModelQuote(sub[h], x)]
      BY Zenon, <2>3 DEF Answered
    <2>12. \A h \in 1..n : ModelQuote(sub[h], x) \in Int
      <3>1. \A h \in 1..n : IsRow(sub[h]) BY Zenon, <1>0 DEF IsBlock, Reads
      <3> QED BY Zenon, <3>1, ModelQuoteTyped
    <2>13. row[j].quote = [h \in 1..j |-> ModelQuote(sub[h], x)]
      <3>1. \A h \in 1..j-1 : h \in 1..n BY SMT
      <3>2. v.quote = [h \in 1..j-1 |-> v.quote[h]] /\ \A h \in 1..j-1 : v.quote[h] \in Int
        BY Zenon, <2>11, <2>12, <3>1
      <3>3. PICK u \in Int : u = ModelQuote(sub[j], x) BY Zenon, <2>12
      <3>4. Append(v.quote, u) = [h \in 1..(j-1)+1 |-> IF h = (j-1) + 1 THEN u ELSE v.quote[h]]
        BY ONLY <2>1, <3>2, u \in Int, AppendIs
      <3>5. Append(v.quote, u) = [h \in 1..j |-> IF h = j THEN u ELSE v.quote[h]]
        BY Zenon, <2>1, <3>4
      <3>6. \A h \in 1..j : h # j => h \in 1..j-1 BY SMT
      <3>7. \A h \in 1..j : (IF h = j THEN u ELSE v.quote[h]) = ModelQuote(sub[h], x)
        BY Zenon, <2>11, <3>3, <3>6
      <3> QED BY Zenon, <2>4, <2>9, <2>10, <3>3, <3>5, <3>7
    <2>14. Good(row[j], j)
      BY Zenon, <2>7, <2>9, <2>13 DEF Answered, PricedAt
    <2> HIDE DEF Good
    <2> QED BY Zenon, <2>1, <2>14
  <1>5. n \in P
    <2> HIDE DEF P
    <2>1. 0..n \subseteq P BY ONLY n \in Nat, <1>3, <1>4, UptoInduction, Zenon
    <2>2. n \in 0..n OBVIOUS
    <2> QED BY Zenon, <2>1, <2>2
  <1> QED BY Zenon, <1>0, <1>1, <1>5

\* model_rates_into(): the quotes over the curves themselves.
LEMMA RatesPassIs ==
    ASSUME NEW b, NEW sub, IsList(sub), IsBlock(b, sub), NEW x
    PROVE  Answered(RatesPass(b, x), sub, b.closed, x, Len(sub))
  <1>0. PICK n \in Nat : n = Len(sub) /\ DOMAIN sub = 1..n /\ b.sub = sub
    BY Zenon DEF IsList, IsBlock
  <1> DEFINE u == Updated(b, x)
  <1>1. IsBlock(u, sub) /\ SameOn(u.curves, x, b.touched) /\ u.closed = b.closed
    BY Zenon, UpdatedIs
  <1>2. RatesPass(b, x).block = u /\ RatesPass(b, x).quote = [j \in 1..n |-> ModelQuote(sub[j], u.curves)]
    <2>1. /\ RatesPass(b, x).block = u
          /\ RatesPass(b, x).quote = [j \in DOMAIN b.sub |-> ModelQuote(b.sub[j], u.curves)]
      BY Zenon DEF RatesPass
    <2> HIDE DEF u
    <2> QED BY Zenon, <1>0, <2>1
  <1> HIDE DEF u
  <1>3. ASSUME NEW j \in 1..n PROVE ModelQuote(sub[j], u.curves) = ModelQuote(sub[j], x)
    <2>1. PICK ins : ins = sub[j] BY Zenon
    <2>2. Reads(ins, b.closed) /\ b.touched = KnotsOf(b.closed) BY Zenon, <1>0, <2>1 DEF IsBlock
    <2>3. SameOn(u.curves, x, ins.states) BY Zenon, <1>1, <2>2 DEF Reads, SameOn
    <2>4. ASSUME NEW i \in DOMAIN ins.queries PROVE Asks2(ins, u.curves)[i] = Asks2(ins, x)[i]
      <3>1. PICK c, t : c \in b.closed /\ c = ins.queries[i][1] /\ t = ins.queries[i][2] BY Zenon, <2>2 DEF Reads
      <3>2. SameOn(u.curves, x, Upto(c, t)) BY Zenon, <1>1, <3>1, TouchesOwn DEF SameOn
      <3>3. Integral(c, t, u.curves) = Integral(c, t, x) BY Zenon, <3>2, IntegralSame
      <3> QED BY Zenon, <3>1, <3>3 DEF Asks2
    <2>5. SameOn(Asks2(ins, u.curves), Asks2(ins, x), DOMAIN ins.queries) BY Zenon, <2>4 DEF SameOn
    <2>6. Quote(ins, Asks2(ins, u.curves), u.curves) = Quote(ins, Asks2(ins, x), x)
      BY ONLY <2>3, <2>5, QuoteSame
    <2> QED BY Zenon, <2>1, <2>6 DEF ModelQuote, Asks2
  <1> QED BY Zenon, <1>0, <1>1, <1>2, <1>3 DEF Answered

----------------------------------------------------------------------------
(* The block as it is built. *)

AsksStep(ins, c, i, v) == IF ins.queries[i][1] = c THEN Append(v, ins.queries[i][2]) ELSE v
IsAsks(h, ins, c, k) == h = [i \in 0..k |-> IF i = 0 THEN << >> ELSE AsksStep(ins, c, i, h[i-1])]

LEMMA AsksExists ==
    ASSUME NEW ins, NEW c, NEW n \in Nat PROVE \E h : IsAsks(h, ins, c, n)
  <1> DEFINE P == {k \in Nat : \E h : IsAsks(h, ins, c, k)}
             s == << >>
             op(i, v) == AsksStep(ins, c, i, v)
  <1> HIDE DEF s, op
  <1>0. \A h, k : IsAsks(h, ins, c, k) <=> h = [i \in 0..k |-> IF i = 0 THEN s ELSE op(i, h[i-1])]
    BY Zenon DEF IsAsks, s, op
  <1>1. 0 \in P
    <2> DEFINE h == [i \in 0..0 |-> s]
    <2>1. \A i \in 0..0 : i = 0 BY SMT
    <2>2. h = [i \in 0..0 |-> IF i = 0 THEN s ELSE op(i, h[i-1])] BY Zenon, <2>1
    <2>3. 0 \in Nat OBVIOUS
    <2> HIDE DEF h
    <2> QED BY Zenon, <1>0, <2>2, <2>3
  <1>2. ASSUME NEW k \in Nat, k \in P PROVE k + 1 \in P
    <2>1. PICK h : h = [i \in 0..k |-> IF i = 0 THEN s ELSE op(i, h[i-1])]
      <3>1. PICK h : IsAsks(h, ins, c, k) BY Zenon, <1>2
      <3>2. h = [i \in 0..k |-> IF i = 0 THEN s ELSE op(i, h[i-1])] BY Zenon, <1>0, <3>1
      <3> QED BY Zenon, <3>2
    <2> DEFINE g == [i \in 0..k+1 |-> IF i = 0 THEN s ELSE op(i, h[i-1])]
    <2>2. ASSUME NEW i \in 0..k+1, i # 0 PROVE g[i-1] = h[i-1]
      <3>1. i - 1 \in 0..k /\ i - 1 \in 0..k+1 BY SMT, <2>2
      <3>2. g[i-1] = IF i - 1 = 0 THEN s ELSE op(i - 1, h[(i-1)-1]) BY Zenon, <3>1
      <3>3. h[i-1] = IF i - 1 = 0 THEN s ELSE op(i - 1, h[(i-1)-1]) BY Zenon, <2>1, <3>1
      <3> QED BY Zenon, <3>2, <3>3
    <2>3. g = [i \in 0..k+1 |-> IF i = 0 THEN s ELSE op(i, g[i-1])] BY Zenon, <2>2
    <2>4. k + 1 \in Nat OBVIOUS
    <2> HIDE DEF g
    <2> QED BY Zenon, <1>0, <2>3, <2>4
  <1>3. n \in P
    <2> HIDE DEF P
    <2> QED BY <1>1, <1>2, SetInduction
  <1> QED BY Zenon, <1>3

LEMMA AsksTyped == ASSUME NEW ins, IsRow(ins), NEW c PROVE Asks(ins, c) \in Seq(Int)
  <1>0. PICK n \in Nat : n = Len(ins.queries) /\ DOMAIN ins.queries = 1..n
                          /\ \A i \in 1..n : ins.queries[i][2] \in Int
    BY Zenon, QueriesTyped
  <1> DEFINE f == CHOOSE h : IsAsks(h, ins, c, n)
             P == {i \in 0..n : f[i] \in Seq(Int)}
  <1>1. Asks(ins, c) = f[n]
    BY Zenon, <1>0 DEF Asks, IsAsks, AsksStep
  <1>2. IsAsks(f, ins, c, n)
    BY Zenon, AsksExists
  <1> HIDE DEF f
  <1>3. 0 \in P
    <2>1. 0 \in 0..n BY SMT
    <2>2. f[0] = << >> BY Zenon, <1>2, <2>1 DEF IsAsks
    <2>3. << >> \in Seq(Int) OBVIOUS
    <2> QED BY Zenon, <2>1, <2>2, <2>3
  <1>4. ASSUME NEW i \in 1..n, i - 1 \in P PROVE i \in P
    <2>1. i \in 0..n /\ i # 0 BY SMT
    <2>2. f[i] = AsksStep(ins, c, i, f[i-1]) BY Zenon, <1>2, <2>1 DEF IsAsks
    <2>3. PICK s \in Seq(Int), t \in Int : s = f[i-1] /\ t = ins.queries[i][2] BY Zenon, <1>0, <1>4
    <2>4. Append(s, t) \in Seq(Int) BY SMT
    <2> QED BY Zenon, <2>1, <2>2, <2>3, <2>4 DEF AsksStep
  <1>5. n \in P
    <2> HIDE DEF P
    <2>1. 0..n \subseteq P BY ONLY n \in Nat, <1>3, <1>4, UptoInduction, Zenon
    <2>2. n \in 0..n OBVIOUS
    <2> QED BY Zenon, <2>1, <2>2
  <1> QED BY Zenon, <1>1, <1>5

RecordStep(sub, c, j, v) == v \o Asks(sub[j], c)
IsRecord(h, sub, c, k) == h = [i \in 0..k |-> IF i = 0 THEN << >> ELSE RecordStep(sub, c, i, h[i-1])]

LEMMA RecordExists ==
    ASSUME NEW sub, NEW c, NEW n \in Nat PROVE \E h : IsRecord(h, sub, c, n)
  <1> DEFINE P == {k \in Nat : \E h : IsRecord(h, sub, c, k)}
             s == << >>
             op(i, v) == RecordStep(sub, c, i, v)
  <1> HIDE DEF s, op
  <1>0. \A h, k : IsRecord(h, sub, c, k) <=> h = [i \in 0..k |-> IF i = 0 THEN s ELSE op(i, h[i-1])]
    BY Zenon DEF IsRecord, s, op
  <1>1. 0 \in P
    <2> DEFINE h == [i \in 0..0 |-> s]
    <2>1. \A i \in 0..0 : i = 0 BY SMT
    <2>2. h = [i \in 0..0 |-> IF i = 0 THEN s ELSE op(i, h[i-1])] BY Zenon, <2>1
    <2>3. 0 \in Nat OBVIOUS
    <2> HIDE DEF h
    <2> QED BY Zenon, <1>0, <2>2, <2>3
  <1>2. ASSUME NEW k \in Nat, k \in P PROVE k + 1 \in P
    <2>1. PICK h : h = [i \in 0..k |-> IF i = 0 THEN s ELSE op(i, h[i-1])]
      <3>1. PICK h : IsRecord(h, sub, c, k) BY Zenon, <1>2
      <3>2. h = [i \in 0..k |-> IF i = 0 THEN s ELSE op(i, h[i-1])] BY Zenon, <1>0, <3>1
      <3> QED BY Zenon, <3>2
    <2> DEFINE g == [i \in 0..k+1 |-> IF i = 0 THEN s ELSE op(i, h[i-1])]
    <2>2. ASSUME NEW i \in 0..k+1, i # 0 PROVE g[i-1] = h[i-1]
      <3>1. i - 1 \in 0..k /\ i - 1 \in 0..k+1 BY SMT, <2>2
      <3>2. g[i-1] = IF i - 1 = 0 THEN s ELSE op(i - 1, h[(i-1)-1]) BY Zenon, <3>1
      <3>3. h[i-1] = IF i - 1 = 0 THEN s ELSE op(i - 1, h[(i-1)-1]) BY Zenon, <2>1, <3>1
      <3> QED BY Zenon, <3>2, <3>3
    <2>3. g = [i \in 0..k+1 |-> IF i = 0 THEN s ELSE op(i, g[i-1])] BY Zenon, <2>2
    <2>4. k + 1 \in Nat OBVIOUS
    <2> HIDE DEF g
    <2> QED BY Zenon, <1>0, <2>3, <2>4
  <1>3. n \in P
    <2> HIDE DEF P
    <2> QED BY <1>1, <1>2, SetInduction
  <1> QED BY Zenon, <1>3

LEMMA RecordedTyped ==
    ASSUME NEW sub, IsList(sub), \A j \in DOMAIN sub : IsRow(sub[j]), NEW c
    PROVE  Recorded(sub, c) \in Seq(Int)
  <1>0. PICK n \in Nat : n = Len(sub) /\ DOMAIN sub = 1..n
    BY Zenon DEF IsList
  <1> DEFINE f == CHOOSE h : IsRecord(h, sub, c, n)
             P == {i \in 0..n : f[i] \in Seq(Int)}
  <1>1. Recorded(sub, c) = f[n]
    BY Zenon, <1>0 DEF Recorded, IsRecord, RecordStep
  <1>2. IsRecord(f, sub, c, n)
    BY Zenon, RecordExists
  <1> HIDE DEF f
  <1>3. 0 \in P
    <2>1. 0 \in 0..n BY SMT
    <2>2. f[0] = << >> BY Zenon, <1>2, <2>1 DEF IsRecord
    <2>3. << >> \in Seq(Int) OBVIOUS
    <2> QED BY Zenon, <2>1, <2>2, <2>3
  <1>4. ASSUME NEW i \in 1..n, i - 1 \in P PROVE i \in P
    <2>1. i \in 0..n /\ i # 0 BY SMT
    <2>2. f[i] = RecordStep(sub, c, i, f[i-1]) BY Zenon, <1>2, <2>1 DEF IsRecord
    <2>3. Asks(sub[i], c) \in Seq(Int)
      <3>1. IsRow(sub[i]) BY Zenon, <1>0
      <3> QED BY Zenon, <3>1, AsksTyped
    <2>4. PICK s \in Seq(Int), t \in Seq(Int) : s = f[i-1] /\ t = Asks(sub[i], c) BY Zenon, <1>4, <2>3
    <2>5. s \o t \in Seq(Int) BY SMT
    <2> QED BY Zenon, <2>1, <2>2, <2>4, <2>5 DEF RecordStep
  <1>5. n \in P
    <2> HIDE DEF P
    <2>1. 0..n \subseteq P BY ONLY n \in Nat, <1>3, <1>4, UptoInduction, Zenon
    <2>2. n \in 0..n OBVIOUS
    <2> QED BY Zenon, <2>1, <2>2
  <1> QED BY Zenon, <1>1, <1>5

LEMMA TabulatedIs ==
    ASSUME NEW asked \in Seq(Int), NEW c, NEW S PROVE IsTable(Tabulated(asked, c, S), c, S)
  <1> DEFINE A == {asked[k] : k \in DOMAIN asked}
             times == Ascending(A)
             d == Tabulated(asked, c, S)
  <1>1. Len(asked) \in Nat /\ DOMAIN asked = 1..Len(asked) /\ \A k \in DOMAIN asked : asked[k] \in Int
    BY SMT
  <1>2. IsFiniteSet(A) /\ A \in SUBSET Int
    <2> DEFINE f == [k \in DOMAIN asked |-> asked[k]]
    <2>1. f \in Surjection(DOMAIN asked, A) BY Zenon DEF Surjection
    <2>2. IsFiniteSet(DOMAIN asked)
      <3>1. 1 \in Int /\ Len(asked) \in Int BY <1>1
      <3> QED BY <1>1, <3>1, FS_Interval
    <2> HIDE DEF f
    <2>3. IsFiniteSet(A) BY <2>1, <2>2, FS_Surjection
    <2> QED BY Zenon, <1>1, <2>3
  <1>3. Lists(A, times)
    <2>1. times = [i \in 1..Cardinality(A) |-> CHOOSE t \in A : Rank(A, t) = i]
      BY Zenon DEF Ascending, Rank
    <2> HIDE DEF A, times
    <2> QED BY ONLY <1>2, <2>1, Listed, Zenon
  <1> HIDE DEF times
  <1>4. /\ d.times = times /\ d.linear = Affine(c) /\ d.seqT = asked /\ d.cursor = 0
        /\ d.M = [i \in DOMAIN times |-> [k \in S |-> Slope(c, times[i], k)]]
        /\ d.seqSlot = [k \in DOMAIN asked |-> SlotOf(times, asked[k])]
    BY Zenon DEF Tabulated, times
  <1>5. d \in [times : {d.times}, linear : {d.linear}, M : {d.M}, df : {d.df},
               seqT : {d.seqT}, seqSlot : {d.seqSlot}, cursor : Nat]
    <2>1. 0 \in Nat OBVIOUS
    <2> QED BY Zenon, <2>1 DEF Tabulated
  <1> HIDE DEF d
  <1>6. ASSUME NEW k \in DOMAIN asked PROVE d.seqSlot[k] \in DOMAIN d.times /\ d.times[d.seqSlot[k]] = asked[k]
    <2>1. \E i \in DOMAIN times : times[i] = asked[k]
      BY Zenon, <1>3 DEF Lists
    <2>2. SlotOf(times, asked[k]) \in DOMAIN times /\ times[SlotOf(times, asked[k])] = asked[k]
      BY Zenon, <2>1 DEF SlotOf
    <2> QED BY Zenon, <1>4, <2>2
  <1>7. \A i \in DOMAIN d.times : d.M[i] = [k \in S |-> Slope(c, d.times[i], k)]
    BY ZenonT(60), <1>4
  <1>8. IsTable(d, c, S)
    BY Zenon, <1>1, <1>4, <1>5, <1>6, <1>7 DEF IsTable
  <1> QED BY Zenon, <1>8 DEF d

\* init(): a block over rows is one for them.
LEMMA BlockOverIs ==
    ASSUME NEW sub, IsList(sub), \A j \in DOMAIN sub : IsRow(sub[j]) PROVE IsBlock(BlockOver(sub), sub)
  <1> DEFINE all == UNION {CurvesRead(sub[j]) : j \in DOMAIN sub}
             closed == Closure(all)
             touched == KnotsOf(closed)
             queried == {c \in closed : Recorded(sub, c) # << >>}
             b == BlockOver(sub)
  <1>1. ASSUME NEW j \in DOMAIN sub
        PROVE  /\ CurvesRead(sub[j]) \in SUBSET Curves
               /\ \A i \in DOMAIN sub[j].queries : sub[j].queries[i][1] \in CurvesRead(sub[j])
               /\ \A k \in sub[j].states : k[1] \in CurvesRead(sub[j]) /\ k \in Knots
    <2>1. PICK ins : ins = sub[j] BY Zenon
    <2>2. IsRow(ins) BY Zenon, <2>1
    <2> DEFINE cs == {ins.queries[i][1] : i \in DOMAIN ins.queries} \cup {k[1] : k \in ins.states}
    <2>3. cs \in SUBSET Curves BY Zenon, <2>2, QueriesTyped, KnotsTyped DEF IsRow
    <2>4. CurvesRead(ins) = Closure(cs) BY Zenon DEF CurvesRead
    <2>5. /\ \A i \in DOMAIN ins.queries : ins.queries[i][1] \in cs
          /\ \A k \in ins.states : k[1] \in cs /\ k \in Knots
      BY Zenon, <2>2 DEF IsRow
    <2> HIDE DEF cs
    <2>6. cs \subseteq Closure(cs) /\ Closure(cs) \subseteq Curves BY Zenon, <2>3, ClosureIs
    <2> QED BY Zenon, <2>1, <2>4, <2>5, <2>6
  <1>2. all \in SUBSET Curves /\ \A j \in DOMAIN sub : CurvesRead(sub[j]) \subseteq all
    BY Zenon, <1>1
  <1>3. /\ b.closed = closed /\ b.touched = touched
        /\ b.cached = [c \in queried |-> Tabulated(Recorded(sub, c), c, touched)]
        /\ b = [sub |-> sub, closed |-> closed, touched |-> touched, curves |-> b.curves, cached |-> b.cached]
    BY Zenon DEF BlockOver
  <1> HIDE DEF all, b
  <1>4. all \subseteq closed /\ closed \subseteq Curves /\ \A c \in closed : Ancestry(c) \subseteq closed
    BY Zenon, <1>2, ClosureIs
  <1>5. queried \subseteq closed
    BY Zenon
  <1>6. touched \in SUBSET Knots
    BY Zenon DEF KnotsOf
  <1>7. ASSUME NEW c \in queried PROVE IsTable(Tabulated(Recorded(sub, c), c, touched), c, touched)
    <2>1. Recorded(sub, c) \in Seq(Int)
      BY Zenon, RecordedTyped
    <2> HIDE DEF touched
    <2> QED BY Zenon, <2>1, TabulatedIs
  <1>8. ASSUME NEW j \in DOMAIN sub PROVE Reads(sub[j], closed)
    <2> HIDE DEF closed
    <2> QED BY Zenon, <1>1, <1>2, <1>4 DEF Reads, KnotsOf
  <1> HIDE DEF closed, touched, queried
  <1>9. b.cached = [c \in DOMAIN b.cached |-> b.cached[c]] /\ DOMAIN b.cached = queried
    BY Zenon, <1>3
  <1>10. b.touched = KnotsOf(b.closed)
    BY Zenon, <1>3 DEF touched
  <1>11. b \in [sub : {sub}, closed : SUBSET Curves, touched : SUBSET Knots, curves : {b.curves}, cached : {b.cached}]
    <2>1. closed \in SUBSET Curves BY Zenon, <1>4
    <2>2. PICK u, v : u = b.curves /\ v = b.cached BY Zenon
    <2>3. b = [sub |-> sub, closed |-> closed, touched |-> touched, curves |-> u, cached |-> v] BY ONLY <1>3, <2>2, Zenon
    <2>4. b \in [sub : {sub}, closed : SUBSET Curves, touched : SUBSET Knots, curves : {u}, cached : {v}]
      BY ONLY <1>6, <2>1, <2>3, Zenon
    <2> QED BY ONLY <2>2, <2>4, Zenon
  <1>12. \A c \in DOMAIN b.cached : IsTable(b.cached[c], c, b.touched)
    BY Zenon, <1>3, <1>7, <1>9
  <1>13. IsBlock(b, sub)
    BY Zenon, <1>3, <1>4, <1>5, <1>8, <1>9, <1>10, <1>11, <1>12 DEF IsBlock
  <1> QED BY Zenon, <1>13 DEF b

----------------------------------------------------------------------------
(* The partition: every row is listed by one engine, once. *)

\* The lists R[1], ..., R[n] share out the members of T.
Parts(R, T) ==
    /\ \A g \in DOMAIN R : R[g] \in Seq(T)
    /\ \A r \in T : \E g \in DOMAIN R : \E j \in DOMAIN R[g] : R[g][j] = r
    /\ \A g, h \in DOMAIN R : \A j \in DOMAIN R[g] : \A l \in DOMAIN R[h] : R[g][j] = R[h][l] => g = h /\ j = l

LEMMA SeqTyped ==
    ASSUME NEW T, NEW s \in Seq(T)
    PROVE  /\ Len(s) \in Nat /\ DOMAIN s = 1..Len(s) /\ \A j \in DOMAIN s : s[j] \in T
  BY SMT

LEMMA SeqGrown ==
    ASSUME NEW T, NEW s \in Seq(T), NEW r
    PROVE  /\ s \in Seq(T \cup {r}) /\ Append(s, r) \in Seq(T \cup {r})
           /\ DOMAIN Append(s, r) = 1..Len(s) + 1
           /\ \A j \in 1..Len(s) : Append(s, r)[j] = s[j]
           /\ Append(s, r)[Len(s) + 1] = r
  BY SMT

\* Every entry of the new lists is an old entry at its place, but one, which is r.
Entries(R, S, T, r) ==
    /\ \A g \in DOMAIN S : S[g] \in Seq(T \cup {r})
    /\ \A g \in DOMAIN R : g \in DOMAIN S /\ \A j \in DOMAIN R[g] : j \in DOMAIN S[g] /\ S[g][j] = R[g][j]
    /\ \E g \in DOMAIN S : \E j \in DOMAIN S[g] :
          /\ S[g][j] = r
          /\ \A h \in DOMAIN S : \A l \in DOMAIN S[h] :
                <<h, l>> = <<g, j>> \/ (h \in DOMAIN R /\ l \in DOMAIN R[h])

LEMMA PartsGrown ==
    ASSUME NEW R, NEW T, Parts(R, T), NEW r, r \notin T, NEW S, Entries(R, S, T, r)
    PROVE  Parts(S, T \cup {r})
  <1>0. PICK g0 \in DOMAIN S : \E j \in DOMAIN S[g0] :
            /\ S[g0][j] = r
            /\ \A h \in DOMAIN S : \A l \in DOMAIN S[h] :
                  <<h, l>> = <<g0, j>> \/ (h \in DOMAIN R /\ l \in DOMAIN R[h])
    BY Zenon DEF Entries
  <1>1. PICK j0 \in DOMAIN S[g0] :
            /\ S[g0][j0] = r
            /\ \A h \in DOMAIN S : \A l \in DOMAIN S[h] :
                  <<h, l>> = <<g0, j0>> \/ (h \in DOMAIN R /\ l \in DOMAIN R[h])
    BY Zenon, <1>0
  <1>2. ASSUME NEW g \in DOMAIN R, NEW j \in DOMAIN R[g]
        PROVE  g \in DOMAIN S /\ j \in DOMAIN S[g] /\ S[g][j] = R[g][j] /\ R[g][j] \in T
    <2>1. R[g] \in Seq(T) BY Zenon DEF Parts
    <2>2. R[g][j] \in T BY ONLY <2>1, j \in DOMAIN R[g], SeqTyped, Zenon
    <2> QED BY Zenon, <2>2 DEF Entries
  <1>3. ASSUME NEW h \in DOMAIN S, NEW l \in DOMAIN S[h]
        PROVE  \/ h = g0 /\ l = j0 /\ S[h][l] = r
               \/ h \in DOMAIN R /\ l \in DOMAIN R[h] /\ S[h][l] = R[h][l] /\ S[h][l] # r
    <2>1. CASE <<h, l>> = <<g0, j0>>
      <3>1. h = g0 /\ l = j0 BY <2>1
      <3> QED BY Zenon, <1>1, <3>1
    <2>2. CASE h \in DOMAIN R /\ l \in DOMAIN R[h]
      <3>1. S[h][l] = R[h][l] /\ R[h][l] \in T BY Zenon, <1>2, <2>2
      <3> QED BY Zenon, <2>2, <3>1
    <2> QED BY Zenon, <1>1, <2>1, <2>2
  <1>4. ASSUME NEW x \in T \cup {r} PROVE \E g \in DOMAIN S : \E j \in DOMAIN S[g] : S[g][j] = x
    <2>1. CASE x = r BY Zenon, <1>1, <2>1
    <2>2. CASE x \in T
      <3>1. PICK g \in DOMAIN R : \E j \in DOMAIN R[g] : R[g][j] = x BY Zenon, <2>2 DEF Parts
      <3> QED BY Zenon, <1>2, <3>1
    <2> QED BY Zenon, <2>1, <2>2
  <1>5. ASSUME NEW g \in DOMAIN S, NEW h \in DOMAIN S, NEW j \in DOMAIN S[g], NEW l \in DOMAIN S[h], S[g][j] = S[h][l]
        PROVE  g = h /\ j = l
    <2>1. CASE S[g][j] = r
      <3>1. g = g0 /\ j = j0 BY Zenon, <1>3, <2>1
      <3>2. S[h][l] = r BY Zenon, <1>5, <2>1
      <3>3. h = g0 /\ l = j0 BY Zenon, <1>3, <3>2
      <3> QED BY Zenon, <3>1, <3>3
    <2>2. CASE S[g][j] # r
      <3>1. /\ g \in DOMAIN R /\ j \in DOMAIN R[g] /\ S[g][j] = R[g][j]
            /\ h \in DOMAIN R /\ l \in DOMAIN R[h] /\ S[h][l] = R[h][l]
        BY Zenon, <1>3, <1>5, <2>2
      <3>2. R[g][j] = R[h][l] BY Zenon, <1>5, <3>1
      <3>3. \A f, e \in DOMAIN R : \A y \in DOMAIN R[f] : \A z \in DOMAIN R[e] : R[f][y] = R[e][z] => f = e /\ y = z
        BY Zenon DEF Parts
      <3> QED BY ONLY <3>1, <3>2, <3>3, ZenonT(60)
    <2> QED BY Zenon, <2>1, <2>2
  <1> QED BY Zenon, <1>4, <1>5 DEF Parts, Entries

GroupsFit(nc, k, gs) == {i \in DOMAIN gs : Fits(gs[i], CurvesRead(problem.rows[nc[k]]))}
FirstFit(fit) == CHOOSE i \in fit : \A h \in fit : i <= h
GroupStep(nc, k, gs) ==
    IF GroupsFit(nc, k, gs) = {}
    THEN Append(gs, [curves |-> CurvesRead(problem.rows[nc[k]]), rows |-> <<nc[k]>>])
    ELSE [gs EXCEPT ![FirstFit(GroupsFit(nc, k, gs))] =
             [curves |-> @.curves \cup CurvesRead(problem.rows[nc[k]]), rows |-> Append(@.rows, nc[k])]]
IsGroups(h, nc, k) == h = [i \in 0..k |-> IF i = 0 THEN << >> ELSE GroupStep(nc, i, h[i-1])]

LEMMA GroupsExist ==
    ASSUME NEW nc, NEW n \in Nat PROVE \E h : IsGroups(h, nc, n)
  <1> DEFINE P == {k \in Nat : \E h : IsGroups(h, nc, k)}
             s == << >>
             op(i, v) == GroupStep(nc, i, v)
  <1> HIDE DEF s, op
  <1>0. \A h, k : IsGroups(h, nc, k) <=> h = [i \in 0..k |-> IF i = 0 THEN s ELSE op(i, h[i-1])]
    BY Zenon DEF IsGroups, s, op
  <1>1. 0 \in P
    <2> DEFINE h == [i \in 0..0 |-> s]
    <2>1. \A i \in 0..0 : i = 0 BY SMT
    <2>2. h = [i \in 0..0 |-> IF i = 0 THEN s ELSE op(i, h[i-1])] BY Zenon, <2>1
    <2>3. 0 \in Nat OBVIOUS
    <2> HIDE DEF h
    <2> QED BY Zenon, <1>0, <2>2, <2>3
  <1>2. ASSUME NEW k \in Nat, k \in P PROVE k + 1 \in P
    <2>1. PICK h : h = [i \in 0..k |-> IF i = 0 THEN s ELSE op(i, h[i-1])]
      <3>1. PICK h : IsGroups(h, nc, k) BY Zenon, <1>2
      <3>2. h = [i \in 0..k |-> IF i = 0 THEN s ELSE op(i, h[i-1])] BY Zenon, <1>0, <3>1
      <3> QED BY Zenon, <3>2
    <2> DEFINE g == [i \in 0..k+1 |-> IF i = 0 THEN s ELSE op(i, h[i-1])]
    <2>2. ASSUME NEW i \in 0..k+1, i # 0 PROVE g[i-1] = h[i-1]
      <3>1. i - 1 \in 0..k /\ i - 1 \in 0..k+1 BY SMT, <2>2
      <3>2. g[i-1] = IF i - 1 = 0 THEN s ELSE op(i - 1, h[(i-1)-1]) BY Zenon, <3>1
      <3>3. h[i-1] = IF i - 1 = 0 THEN s ELSE op(i - 1, h[(i-1)-1]) BY Zenon, <2>1, <3>1
      <3> QED BY Zenon, <3>2, <3>3
    <2>3. g = [i \in 0..k+1 |-> IF i = 0 THEN s ELSE op(i, g[i-1])] BY Zenon, <2>2
    <2>4. k + 1 \in Nat OBVIOUS
    <2> HIDE DEF g
    <2> QED BY Zenon, <1>0, <2>3, <2>4
  <1>3. n \in P
    <2> HIDE DEF P
    <2> QED BY <1>1, <1>2, SetInduction
  <1> QED BY Zenon, <1>3

RowsIn(gs) == [g \in DOMAIN gs |-> gs[g].rows]
Grouped(gs, T) == gs \in Seq([curves : SUBSET Curves, rows : Seq(T)]) /\ Parts(RowsIn(gs), T)

\* A group more, or a row more in a group.
LEMMA GroupAdded ==
    ASSUME NEW gs, NEW T, Grouped(gs, T), NEW r, r \notin T, NEW cs \in SUBSET Curves
    PROVE  Grouped(Append(gs, [curves |-> cs, rows |-> <<r>>]), T \cup {r})
  <1> DEFINE V == [curves : SUBSET Curves, rows : Seq(T)]
             W == [curves : SUBSET Curves, rows : Seq(T \cup {r})]
             a == [curves |-> cs, rows |-> <<r>>]
             hs == Append(gs, a)
             U == T \cup {r}
  <1>1. gs \in Seq(V)
    BY Zenon DEF Grouped
  <1>2. ASSUME NEW s \in Seq(T) PROVE s \in Seq(U)
    <2>1. s \in Seq(T \cup {r}) BY ONLY s \in Seq(T), SeqGrown, Zenon
    <2> QED BY Zenon, <2>1
  <1>3. V \subseteq W
    <2> HIDE DEF U
    <2>1. W = [curves : SUBSET Curves, rows : Seq(U)] BY Zenon DEF U
    <2> HIDE DEF W
    <2> QED BY Zenon, <1>2, <2>1
  <1>4. <<r>> \in Seq(U) /\ Len(<<r>>) = 1 /\ <<r>>[1] = r /\ DOMAIN <<r>> = {1}
    <2>1. <<r>> \in Seq(U) BY SMT
    <2>2. 1..1 = {1} BY SMT
    <2> QED BY <2>1, <2>2
  <1>5. a \in W /\ a.rows = <<r>>
    BY Zenon, <1>4
  <1>6. PICK n \in Nat : n = Len(gs) /\ DOMAIN gs = 1..n
    BY ONLY <1>1, SeqTyped
  <1>7. gs \in Seq(W)
    <2> HIDE DEF V, W
    <2> QED BY ONLY <1>1, <1>3
  <1>8. hs \in Seq(W) /\ DOMAIN hs = 1..n+1 /\ hs[n+1] = a /\ \A g \in 1..n : hs[g] = gs[g]
    <2> HIDE DEF W, a
    <2> QED BY ONLY <1>5, <1>6, <1>7 DEF hs
  <1>9. \A g \in 1..n : g \in 1..n+1 /\ g # n+1
    BY SMT
  <1>10. \A g \in 1..n+1 : g = n+1 \/ g \in 1..n
    BY SMT
  <1>10a. n+1 \in 1..n+1
    BY SMT
  <1> DEFINE R == RowsIn(gs)
             S == RowsIn(hs)
  <1>11. /\ DOMAIN R = 1..n /\ DOMAIN S = 1..n+1
         /\ S[n+1] = <<r>> /\ \A g \in 1..n : S[g] = R[g]
    <2> HIDE DEF a, hs
    <2>1. DOMAIN R = 1..n /\ DOMAIN S = 1..n+1 BY Zenon, <1>6, <1>8 DEF RowsIn
    <2>2. S[n+1] = hs[n+1].rows BY Zenon, <1>8, <1>10a DEF RowsIn
    <2>3. \A g \in 1..n : S[g] = hs[g].rows /\ R[g] = gs[g].rows BY Zenon, <1>6, <1>8, <1>9 DEF RowsIn
    <2> QED BY Zenon, <1>5, <1>8, <2>1, <2>2, <2>3
  <1>12. Parts(R, T)
    BY Zenon DEF Grouped
  <1> HIDE DEF R, S, a, hs, V, W
  <1>13. Entries(R, S, T, r)
    <2>1. ASSUME NEW g \in DOMAIN S PROVE S[g] \in Seq(U)
      <3>1. CASE g = n+1 BY Zenon, <1>4, <1>11, <3>1
      <3>2. CASE g \in 1..n
        <4>1. R[g] \in Seq(T) BY Zenon, <1>11, <1>12, <3>2 DEF Parts
        <4> QED BY Zenon, <1>2, <1>11, <3>2, <4>1
      <3> QED BY Zenon, <1>10, <1>11, <3>1, <3>2
    <2>2. \A g \in DOMAIN R : g \in DOMAIN S /\ \A j \in DOMAIN R[g] : j \in DOMAIN S[g] /\ S[g][j] = R[g][j]
      BY Zenon, <1>9, <1>11
    <2>3. n+1 \in DOMAIN S /\ 1 \in DOMAIN S[n+1] /\ S[n+1][1] = r
      BY Zenon, <1>4, <1>10a, <1>11
    <2>4. ASSUME NEW h \in DOMAIN S, NEW l \in DOMAIN S[h]
          PROVE  <<h, l>> = <<n+1, 1>> \/ (h \in DOMAIN R /\ l \in DOMAIN R[h])
      <3>1. CASE h = n+1
        <4>1. l = 1 BY Zenon, <1>4, <1>11, <3>1
        <4> QED BY Zenon, <3>1, <4>1
      <3>2. CASE h \in 1..n BY Zenon, <1>11, <3>2
      <3> QED BY Zenon, <1>10, <1>11, <3>1, <3>2
    <2> QED BY Zenon, <2>1, <2>2, <2>3, <2>4 DEF Entries
  <1>14. Parts(S, U)
    BY ONLY <1>12, <1>13, r \notin T, PartsGrown
  <1> QED BY Zenon, <1>8, <1>14 DEF Grouped, W, S, hs, a

Joined(gs, i, cs, r) == [gs EXCEPT ![i] = [curves |-> @.curves \cup cs, rows |-> Append(@.rows, r)]]
LEMMA GroupJoined ==
    ASSUME NEW gs, NEW T, Grouped(gs, T), NEW r, r \notin T, NEW cs \in SUBSET Curves, NEW i \in DOMAIN gs
    PROVE  Grouped(Joined(gs, i, cs, r), T \cup {r})
  <1> DEFINE V == [curves : SUBSET Curves, rows : Seq(T)]
             W == [curves : SUBSET Curves, rows : Seq(T \cup {r})]
             a == [curves |-> gs[i].curves \cup cs, rows |-> Append(gs[i].rows, r)]
             hs == [gs EXCEPT ![i] = a]
             U == T \cup {r}
  <1>1. gs \in Seq(V)
    BY Zenon DEF Grouped
  <1>2. ASSUME NEW s \in Seq(T) PROVE s \in Seq(U)
    <2>1. s \in Seq(T \cup {r}) BY ONLY s \in Seq(T), SeqGrown, Zenon
    <2> QED BY Zenon, <2>1
  <1>3. V \subseteq W
    <2> HIDE DEF U
    <2>1. W = [curves : SUBSET Curves, rows : Seq(U)] BY Zenon DEF U
    <2> HIDE DEF W
    <2> QED BY Zenon, <1>2, <2>1
  <1>6. PICK n \in Nat : n = Len(gs) /\ DOMAIN gs = 1..n /\ \A g \in 1..n : gs[g] \in V
    BY ONLY <1>1, SeqTyped, Zenon
  <1>4. PICK s \in Seq(T) : s = gs[i].rows
    BY Zenon, <1>6
  <1>4a. PICK k \in Nat : k = Len(s) /\ DOMAIN s = 1..k
    BY ONLY s \in Seq(T), SeqTyped
  <1>5. PICK u \in Seq(U) : u = Append(s, r) /\ DOMAIN u = 1..k+1 /\ u[k+1] = r /\ \A j \in 1..k : u[j] = s[j]
    <2>1. Append(s, r) \in Seq(T \cup {r}) /\ DOMAIN Append(s, r) = 1..Len(s) + 1
          /\ (\A j \in 1..Len(s) : Append(s, r)[j] = s[j]) /\ Append(s, r)[Len(s) + 1] = r
      BY ONLY s \in Seq(T), SeqGrown
    <2> QED BY Zenon, <1>4a, <2>1
  <1>7. a \in W /\ a.rows = u
    <2>1. gs[i].curves \in SUBSET Curves BY Zenon, <1>6
    <2>2. gs[i].curves \cup cs \in SUBSET Curves BY Zenon, <2>1
    <2>3. a = [curves |-> gs[i].curves \cup cs, rows |-> u] BY Zenon, <1>4, <1>5
    <2> HIDE DEF a
    <2> QED BY Zenon, <2>2, <2>3
  <1>8. hs \in Seq(W) /\ DOMAIN hs = 1..n /\ hs[i] = a /\ \A g \in 1..n : g # i => hs[g] = gs[g]
    <2> HIDE DEF W, a
    <2>1. gs \in Seq(W)
      <3> HIDE DEF V
      <3> QED BY ONLY <1>1, <1>3
    <2>2. hs \in Seq(W) /\ DOMAIN hs = DOMAIN gs
      BY ONLY <2>1, <1>7, i \in DOMAIN gs
    <2>3. hs[i] = a /\ \A g \in 1..n : g # i => hs[g] = gs[g]
      BY Zenon, <1>6
    <2> QED BY Zenon, <1>6, <2>2, <2>3
  <1> DEFINE R == RowsIn(gs)
             S == RowsIn(hs)
  <1>11. /\ DOMAIN R = 1..n /\ DOMAIN S = 1..n
         /\ S[i] = u /\ R[i] = s /\ \A g \in 1..n : g # i => S[g] = R[g]
    <2> HIDE DEF a, hs
    <2>1. DOMAIN R = 1..n /\ DOMAIN S = 1..n BY Zenon, <1>6, <1>8 DEF RowsIn
    <2>2. \A g \in 1..n : S[g] = hs[g].rows /\ R[g] = gs[g].rows BY Zenon, <1>6, <1>8 DEF RowsIn
    <2> QED BY ZenonT(60), <1>4, <1>6, <1>7, <1>8, <2>1, <2>2
  <1>12. Parts(R, T)
    BY Zenon DEF Grouped
  <1>12a. i \in 1..n
    BY Zenon, <1>6
  <1>12b. (\A j \in 1..k : j \in 1..k+1) /\ (\A j \in 1..k+1 : j = k+1 \/ j \in 1..k) /\ k+1 \in 1..k+1
    BY SMT
  <1> HIDE DEF R, S, a, hs, V, W
  <1>13. Entries(R, S, T, r)
    <2>1. ASSUME NEW g \in DOMAIN S PROVE S[g] \in Seq(U)
      <3>1. CASE g = i BY Zenon, <1>11, <3>1
      <3>2. CASE g # i
        <4>1. R[g] \in Seq(T) BY Zenon, <1>11, <1>12 DEF Parts
        <4> QED BY Zenon, <1>2, <1>11, <3>2, <4>1
      <3> QED BY Zenon, <3>1, <3>2
    <2>2. ASSUME NEW g \in DOMAIN R, NEW j \in DOMAIN R[g] PROVE g \in DOMAIN S /\ j \in DOMAIN S[g] /\ S[g][j] = R[g][j]
      <3>1. CASE g = i BY Zenon, <1>4a, <1>5, <1>11, <1>12b, <3>1
      <3>2. CASE g # i BY Zenon, <1>11, <3>2
      <3> QED BY Zenon, <3>1, <3>2
    <2>2a. \A g \in DOMAIN R : g \in DOMAIN S
      BY Zenon, <1>11
    <2>3. i \in DOMAIN S /\ k+1 \in DOMAIN S[i] /\ S[i][k+1] = r
      BY Zenon, <1>5, <1>11, <1>12a, <1>12b
    <2>4. ASSUME NEW h \in DOMAIN S, NEW l \in DOMAIN S[h]
          PROVE  <<h, l>> = <<i, k+1>> \/ (h \in DOMAIN R /\ l \in DOMAIN R[h])
      <3>1. CASE h = i
        <4>1. l = k+1 \/ l \in 1..k BY Zenon, <1>5, <1>11, <1>12b, <3>1
        <4> QED BY Zenon, <1>4a, <1>11, <1>12a, <3>1, <4>1
      <3>2. CASE h # i BY Zenon, <1>11, <3>2
      <3> QED BY Zenon, <3>1, <3>2
    <2> QED BY Zenon, <2>1, <2>2, <2>2a, <2>3, <2>4 DEF Entries
  <1>14. Parts(S, U)
    BY ONLY <1>12, <1>13, r \notin T, PartsGrown
  <1> QED BY Zenon, <1>8, <1>14 DEF Grouped, Joined, W, S, hs, a

LEMMA RowsTyped ==
    ASSUME problem \in Problems
    PROVE  /\ IsFiniteSet(Rows) /\ Rows \in SUBSET Int
           /\ \A r \in Rows : IsRow(problem.rows[r]) /\ problem.rows[r].m \in Int
                              /\ problem.rows[r].kind \in {"quote", "data", "log"}
  <1>1. PICK n \in Nat : n = Len(problem.rows) /\ Rows = 1..n
    BY Zenon, RouterAssumption DEF Rows
  <1>2. IsFiniteSet(1..n) /\ 1..n \in SUBSET Int
    BY FS_Interval
  <1>3. ASSUME NEW r \in Rows
        PROVE  /\ IsRow(problem.rows[r]) /\ problem.rows[r].m \in Int
               /\ problem.rows[r].kind \in {"quote", "data", "log"}
    <2>1. /\ problem.rows[r].queries \in Seq((DOMAIN Base) \X Int) /\ problem.rows[r].states \subseteq Knots
          /\ problem.rows[r].m \in Int /\ problem.rows[r].kind \in {"quote", "data", "log"}
      BY Zenon, RouterAssumption DEF Rows
    <2> QED BY Zenon, <2>1 DEF IsRow, Curves
  <1> QED BY Zenon, <1>1, <1>2, <1>3

LEMMA CurvesReadTyped == ASSUME NEW ins, IsRow(ins) PROVE CurvesRead(ins) \in SUBSET Curves
  <1> DEFINE cs == {ins.queries[i][1] : i \in DOMAIN ins.queries} \cup {k[1] : k \in ins.states}
  <1>1. cs \in SUBSET Curves BY Zenon, QueriesTyped, KnotsTyped DEF IsRow
  <1>2. CurvesRead(ins) = Closure(cs) BY Zenon DEF CurvesRead
  <1> HIDE DEF cs
  <1>3. Closure(cs) \subseteq Curves BY Zenon, <1>1, ClosureIs
  <1> QED BY Zenon, <1>2, <1>3

\* First fit shares out the rows.
LEMMA GroupsAre ==
    ASSUME problem \in Problems, NEW S \in SUBSET Rows, NEW nc, Lists(S, nc)
    PROVE  Grouped(Groups(nc), S)
  <1>0. PICK n \in Nat : n = Cardinality(S) /\ DOMAIN nc = 1..n
    BY Zenon DEF Lists
  <1>0a. Len(nc) = n
    BY <1>0
  <1> DEFINE f == CHOOSE h : IsGroups(h, nc, n)
             T(k) == {nc[h] : h \in 1..k}
             P == {k \in 0..n : Grouped(f[k], T(k))}
  <1>1. Groups(nc) = f[n]
    BY Zenon, <1>0a DEF Groups, IsGroups, GroupStep, GroupsFit, FirstFit
  <1>2. IsGroups(f, nc, n)
    BY Zenon, GroupsExist
  <1> HIDE DEF f
  <1>3. 0 \in P
    <2>1. 0 \in 0..n /\ 1..0 = {} BY SMT
    <2>2. f[0] = << >> BY Zenon, <1>2, <2>1 DEF IsGroups
    <2>3. T(0) = {} BY Zenon, <2>1
    <2>4. << >> \in Seq([curves : SUBSET Curves, rows : Seq({})]) /\ DOMAIN << >> = {} BY SMT
    <2>5. Grouped(<< >>, {}) BY Zenon, <2>4 DEF Grouped, Parts, RowsIn
    <2> QED BY Zenon, <2>1, <2>2, <2>3, <2>5
  <1>4. ASSUME NEW k \in 1..n, k - 1 \in P PROVE k \in P
    <2>1. k \in 0..n /\ k # 0 /\ k \in 1..k BY SMT
    <2>2. PICK gs : gs = f[k-1] BY Zenon
    <2>3. Grouped(gs, T(k-1)) BY Zenon, <1>4, <2>2
    <2>4. f[k] = GroupStep(nc, k, gs) BY Zenon, <1>2, <2>1, <2>2 DEF IsGroups
    <2>5. PICK r : r = nc[k] BY Zenon
    <2>6. r \in Rows BY Zenon, <1>0, <2>5 DEF Lists
    <2>7. T(k) = T(k-1) \cup {r}
      <3>1. \A h \in 1..k : h = k \/ h \in 1..k-1 BY SMT
      <3>2. \A h \in 1..k-1 : h \in 1..k BY SMT
      <3> QED BY Zenon, <2>1, <2>5, <3>1, <3>2
    <2>8. r \notin T(k-1)
      <3>1. \A h \in 1..k-1 : h \in 1..n /\ h # k BY SMT
      <3> QED BY Zenon, <1>0, <2>5, <3>1 DEF Lists
    <2> HIDE DEF T
    <2>9. PICK cs : cs = CurvesRead(problem.rows[r]) BY Zenon
    <2>10. cs \in SUBSET Curves
      <3>1. IsRow(problem.rows[r]) BY Zenon, <2>6, RowsTyped
      <3> QED BY Zenon, <2>9, <3>1, CurvesReadTyped
    <2>11. Grouped(f[k], T(k-1) \cup {r})
      <3>1. CASE GroupsFit(nc, k, gs) = {}
        <4>1. f[k] = Append(gs, [curves |-> cs, rows |-> <<r>>]) BY Zenon, <2>4, <2>5, <2>9, <3>1 DEF GroupStep
        <4> QED BY ONLY <4>1, <2>3, <2>8, <2>10, GroupAdded
      <3>2. CASE GroupsFit(nc, k, gs) # {}
        <4> DEFINE i == FirstFit(GroupsFit(nc, k, gs))
        <4>1. i \in DOMAIN gs
          <5>1. DOMAIN gs \in SUBSET Nat
            <6>1. gs \in Seq([curves : SUBSET Curves, rows : Seq(T(k-1))]) BY Zenon, <2>3 DEF Grouped
            <6>2. Len(gs) \in Nat /\ DOMAIN gs = 1..Len(gs) BY ONLY <6>1, SeqTyped
            <6> QED BY <6>2
          <5>2. PICK A : A = GroupsFit(nc, k, gs) BY Zenon
          <5>3. A \in SUBSET Nat /\ A # {} /\ A \subseteq DOMAIN gs BY Zenon, <3>2, <5>1, <5>2 DEF GroupsFit
          <5>4. \E j \in A : \A h \in A : j <= h BY Zenon, <5>3, Least
          <5>5. FirstFit(A) \in A BY Zenon, <5>4 DEF FirstFit
          <5> QED BY Zenon, <5>2, <5>3, <5>5
        <4>2. f[k] = Joined(gs, i, cs, r)
          BY Zenon, <2>4, <2>5, <2>9, <3>2 DEF GroupStep, Joined
        <4> HIDE DEF i
        <4>3. Grouped(Joined(gs, i, cs, r), T(k-1) \cup {r}) BY ONLY <4>1, <2>3, <2>8, <2>10, GroupJoined
        <4> QED BY Zenon, <4>2, <4>3
      <3> QED BY Zenon, <3>1, <3>2
    <2> QED BY Zenon, <2>1, <2>7, <2>11
  <1>5. n \in P
    <2> HIDE DEF P
    <2>1. 0..n \subseteq P BY ONLY n \in Nat, <1>3, <1>4, UptoInduction, Zenon
    <2>2. n \in 0..n OBVIOUS
    <2> QED BY Zenon, <2>1, <2>2
  <1>6. T(n) = S
    <2>0. \A h \in 1..n : nc[h] \in S BY Zenon, <1>0 DEF Lists
    <2>1. ASSUME NEW r \in T(n) PROVE r \in S
      <3>1. PICK h \in 1..n : r = nc[h] BY Zenon
      <3> QED BY Zenon, <2>0, <3>1
    <2>2. \A r \in S : \E h \in 1..n : nc[h] = r BY Zenon, <1>0 DEF Lists
    <2>3. \A r \in S : r \in T(n) BY Zenon, <2>2
    <2> HIDE DEF T
    <2> QED BY Zenon, <2>1, <2>3
  <1> QED BY Zenon, <1>1, <1>5, <1>6

LEMMA InOrderIs ==
    ASSUME problem \in Problems, NEW S \in SUBSET Rows PROVE Lists(S, InOrder(S)) /\ IsFiniteSet(S)
  <1>1. S \in SUBSET Int /\ IsFiniteSet(S)
    BY RowsTyped, FS_Subset
  <1>2. InOrder(S) = [k \in 1..Cardinality(S) |-> CHOOSE r \in S : Rank(S, r) = k]
    BY Zenon DEF InOrder, Rank
  <1>3. Lists(S, InOrder(S))
    BY ONLY <1>1, <1>2, Listed
  <1> QED BY Zenon, <1>1, <1>3

LEMMA Headed ==
    ASSUME NEW V, NEW s \in Seq(V), NEW a \in V
    PROVE  /\ << >> \o s = s
           /\ <<a>> \o s \in Seq(V) /\ DOMAIN (<<a>> \o s) = 1..Len(s)+1
           /\ (<<a>> \o s)[1] = a /\ \A k \in 1..Len(s) : (<<a>> \o s)[k+1] = s[k]
  BY SMT

\* A list before the groups that share out the rest.
LEMMA PartsHeaded ==
    ASSUME NEW R, NEW T, Parts(R, T), NEW n \in Nat, DOMAIN R = 1..n,
           NEW C, NEW l, Lists(C, l), l \in Seq(C), C \cap T = {},
           NEW S, DOMAIN S = 1..n+1, S[1] = l, \A k \in 1..n : S[k+1] = R[k]
    PROVE  Parts(S, C \cup T)
  <1>0. /\ \A k \in 1..n : k+1 \in 1..n+1 /\ k+1 # 1
        /\ 1 \in 1..n+1 /\ \A g \in 1..n+1 : g = 1 \/ (g-1 \in 1..n /\ (g-1)+1 = g)
    BY SMT
  <1>1. \A U, V : U \subseteq V => Seq(U) \subseteq Seq(V)
    OBVIOUS
  <1>2. ASSUME NEW g \in 1..n+1 PROVE \/ g = 1 /\ S[g] = l
                                      \/ \E k \in 1..n : g = k+1 /\ S[g] = R[k]
    BY Zenon, <1>0
  <1>3. ASSUME NEW g \in DOMAIN S PROVE S[g] \in Seq(C \cup T)
    <2>1. C \subseteq C \cup T /\ T \subseteq C \cup T BY Zenon
    <2>2. Seq(C) \subseteq Seq(C \cup T) /\ Seq(T) \subseteq Seq(C \cup T) BY Zenon, <1>1, <2>1
    <2>3. \A k \in 1..n : R[k] \in Seq(T) BY Zenon DEF Parts
    <2> QED BY Zenon, <1>2, <2>2, <2>3
  <1>4. ASSUME NEW r \in C \cup T PROVE \E g \in DOMAIN S : \E j \in DOMAIN S[g] : S[g][j] = r
    <2>1. CASE r \in C
      <3>1. \E j \in DOMAIN l : l[j] = r BY Zenon, <2>1 DEF Lists
      <3>2. \E j \in DOMAIN S[1] : S[1][j] = r BY Zenon, <3>1
      <3>3. 1 \in DOMAIN S BY Zenon, <1>0
      <3> QED BY Zenon, <3>2, <3>3
    <2>2. CASE r \in T
      <3>1. PICK k \in 1..n : \E j \in DOMAIN R[k] : R[k][j] = r BY Zenon, <2>2 DEF Parts
      <3>2. k+1 \in DOMAIN S /\ S[k+1] = R[k] BY Zenon, <1>0
      <3>3. \E j \in DOMAIN S[k+1] : S[k+1][j] = r BY Zenon, <3>1, <3>2
      <3> QED BY Zenon, <3>2, <3>3
    <2> QED BY Zenon, <2>1, <2>2
  <1>5. ASSUME NEW g \in DOMAIN S, NEW j \in DOMAIN S[g]
        PROVE  \/ g = 1 /\ j \in DOMAIN l /\ S[g][j] = l[j] /\ S[g][j] \in C
               \/ \E k \in 1..n : g = k+1 /\ j \in DOMAIN R[k] /\ S[g][j] = R[k][j] /\ S[g][j] \in T
    <2>1. CASE g = 1 /\ S[g] = l BY Zenon, <2>1 DEF Lists
    <2>2. ASSUME NEW k \in 1..n, g = k+1, S[g] = R[k]
          PROVE  j \in DOMAIN R[k] /\ S[g][j] = R[k][j] /\ S[g][j] \in T
      <3>1. R[k] \in Seq(T) /\ j \in DOMAIN R[k] BY Zenon, <2>2 DEF Parts
      <3>2. R[k][j] \in T BY ONLY <3>1, SeqTyped
      <3> QED BY Zenon, <2>2, <3>1, <3>2
    <2> QED BY Zenon, <1>2, <2>1, <2>2
  <1>6. ASSUME NEW g \in DOMAIN S, NEW h \in DOMAIN S, NEW j \in DOMAIN S[g], NEW i \in DOMAIN S[h], S[g][j] = S[h][i]
        PROVE  g = h /\ j = i
    <2>1. CASE S[g][j] \in C
      <3>1. g = 1 /\ j \in DOMAIN l /\ S[g][j] = l[j] BY Zenon, <1>5, <2>1
      <3>2. S[h][i] \in C BY Zenon, <1>6, <2>1
      <3>3. h = 1 /\ i \in DOMAIN l /\ S[h][i] = l[i] BY Zenon, <1>5, <3>2
      <3> QED BY Zenon, <1>6, <3>1, <3>3 DEF Lists
    <2>2. CASE S[g][j] \notin C
      <3>0. \E k \in 1..n : g = k+1 /\ j \in DOMAIN R[k] /\ S[g][j] = R[k][j]
        <4>1. ~(g = 1 /\ j \in DOMAIN l /\ S[g][j] = l[j] /\ S[g][j] \in C) BY Zenon, <2>2
        <4>2. \E k \in 1..n : g = k+1 /\ j \in DOMAIN R[k] /\ S[g][j] = R[k][j] /\ S[g][j] \in T BY Zenon, <1>5, <4>1
        <4> QED BY Zenon, <4>2
      <3>1. PICK k \in 1..n : g = k+1 /\ j \in DOMAIN R[k] /\ S[g][j] = R[k][j] BY Zenon, <3>0
      <3>2. S[h][i] \notin C BY Zenon, <1>6, <2>2
      <3>2a. \E y \in 1..n : h = y+1 /\ i \in DOMAIN R[y] /\ S[h][i] = R[y][i]
        <4>1. ~(h = 1 /\ i \in DOMAIN l /\ S[h][i] = l[i] /\ S[h][i] \in C) BY Zenon, <3>2
        <4>2. \E y \in 1..n : h = y+1 /\ i \in DOMAIN R[y] /\ S[h][i] = R[y][i] /\ S[h][i] \in T BY Zenon, <1>5, <4>1
        <4> QED BY Zenon, <4>2
      <3>3. PICK e \in 1..n : h = e+1 /\ i \in DOMAIN R[e] /\ S[h][i] = R[e][i] BY Zenon, <3>2a
      <3>4. R[k][j] = R[e][i] BY Zenon, <1>6, <3>1, <3>3
      <3>5. \A f, d \in DOMAIN R : \A y \in DOMAIN R[f] : \A z \in DOMAIN R[d] : R[f][y] = R[d][z] => f = d /\ y = z
        BY Zenon DEF Parts
      <3>6. k = e /\ j = i
        <4>1. k \in DOMAIN R /\ e \in DOMAIN R BY Zenon
        <4>2. \A y \in DOMAIN R[k] : \A z \in DOMAIN R[e] : R[k][y] = R[e][z] => k = e /\ y = z BY Zenon, <3>5, <4>1
        <4> QED BY Zenon, <3>1, <3>3, <3>4, <4>2
      <3> QED BY Zenon, <3>1, <3>3, <3>6
    <2> QED BY Zenon, <2>1, <2>2
  <1> QED BY Zenon, <1>3, <1>4, <1>6 DEF Parts

----------------------------------------------------------------------------
(* The engines of the list. *)

IsCompiledRecord(e) ==
    e \in [of : {"compiled"}, rows : {e.rows}, kind : {e.kind}, data : {e.data}, market : {e.market}, band : {e.band},
           maps : {e.maps}, pos : {e.pos}, dirty : BOOLEAN, dead : {e.dead}, deadJ : {e.deadJ}]
IsBlockRecord(e) ==
    e \in [of : {"aad"}, rows : {e.rows}, block : {e.block}, kind : {e.kind}, data : {e.data},
           market : {e.market}, band : {e.band}, dead : {<< >>}]

\* What an engine keeps of its rows, the quotes being lv; a log row's band is never read.
Agrees(e, lv) ==
    /\ e.rows \in Seq(Rows)
    /\ \A i, j \in DOMAIN e.rows : e.rows[i] = e.rows[j] => i = j
    /\ DOMAIN e.market = DOMAIN e.rows /\ DOMAIN e.band = DOMAIN e.rows
    /\ \A j \in DOMAIN e.rows : /\ e.kind[j] = problem.rows[e.rows[j]].kind
                                /\ e.data[j] = problem.rows[e.rows[j]].data
                                /\ e.kind[j] # "log" => e.band[j] = lv[e.rows[j]].band

\* The list of maps, when it is not to be rebuilt: the map of every mapped row, at its place.
ListFits(e) ==
    /\ e.pos = PosOf(e)
    /\ DOMAIN e.maps = {e.pos[j] : j \in {i \in Locals(e) : Mapped(e, i)}}
    /\ \A j \in Locals(e) : Mapped(e, j) => e.maps[e.pos[j]] = RowMap(e, j)

IsCompiled(e, lv) ==
    /\ IsCompiledRecord(e)
    /\ Agrees(e, lv)
    /\ ~e.dirty => ListFits(e)
    /\ \E n \in Nat : DOMAIN e.deadJ = 1..n

RowsOf(rs) == [j \in DOMAIN rs |-> problem.rows[rs[j]]]
IsBlockEngine(e, lv) ==
    /\ IsBlockRecord(e)
    /\ Agrees(e, lv)
    /\ IsBlock(e.block, RowsOf(e.rows))

IsEngine(e, lv) == IsCompiled(e, lv) \/ IsBlockEngine(e, lv)

EnginesFit(es, lv) ==
    /\ \E n \in Nat : DOMAIN es = 1..n
    /\ Parts(RowsIn(es), Rows)
    /\ \A k \in DOMAIN es : IsEngine(es[k], lv) /\ (es[k].of = "compiled" => k = 1)

AsQuoted(lv) == \A r \in Rows : lv[r].band = problem.rows[r].band

\* Each row is there once.
Once(rs) == rs \in Seq(Rows) /\ \A i, j \in DOMAIN rs : rs[i] = rs[j] => i = j

LEMMA RowsOfIs ==
    ASSUME problem \in Problems, NEW rs \in Seq(Rows)
    PROVE  IsList(RowsOf(rs)) /\ Len(RowsOf(rs)) = Len(rs) /\ \A j \in DOMAIN rs : rs[j] \in Rows /\ IsRow(RowsOf(rs)[j])
  <1>1. PICK n \in Nat : n = Len(rs) /\ DOMAIN rs = 1..n /\ \A j \in DOMAIN rs : rs[j] \in Rows
    BY ONLY rs \in Seq(Rows), SeqTyped
  <1> DEFINE s == RowsOf(rs)
  <1>2. s = [j \in 1..n |-> s[j]]
    BY Zenon, <1>1 DEF RowsOf
  <1>3. \A j \in DOMAIN rs : s[j] = problem.rows[rs[j]]
    BY Zenon DEF RowsOf
  <1> HIDE DEF s
  <1>4. IsList(s) /\ Len(s) = n
    BY ONLY n \in Nat, <1>2, ListOf
  <1>5. \A j \in DOMAIN rs : IsRow(s[j])
    BY Zenon, <1>1, <1>3, RowsTyped
  <1> QED BY Zenon, <1>1, <1>4, <1>5 DEF s

LEMMA CompiledIs ==
    ASSUME problem \in Problems, NEW lv, AsQuoted(lv), NEW rs, Once(rs)
    PROVE  IsCompiled(Compiled(rs), lv) /\ Compiled(rs).rows = rs /\ Compiled(rs).of = "compiled"
  <1> DEFINE e == [of |-> "compiled", rows |-> rs,
                   kind |-> [j \in DOMAIN rs |-> problem.rows[rs[j]].kind],
                   data |-> [j \in DOMAIN rs |-> problem.rows[rs[j]].data],
                   market |-> [j \in DOMAIN rs |-> problem.rows[rs[j]].m],
                   band |-> [j \in DOMAIN rs |-> problem.rows[rs[j]].band],
                   maps |-> <<>>, pos |-> [j \in DOMAIN rs |-> 0], dirty |-> TRUE,
                   dead |-> <<>>, deadJ |-> <<>>]
  <1>1. PICK n \in Nat : n = Len(rs) /\ DOMAIN rs = 1..n /\ \A j \in DOMAIN rs : rs[j] \in Rows
    <2>1. rs \in Seq(Rows) BY Zenon DEF Once
    <2> QED BY ONLY <2>1, SeqTyped
  <1>2. DeadCapacity(e) \in Nat
    <2> DEFINE A == {j \in Locals(e) : LET f == Penalty(e.kind[j], e.data[j], e.band[j]) IN \E i \in 0..f.n : f.s[i] = 0}
    <2>1. A \in SUBSET (1..n) BY Zenon, <1>1 DEF Locals
    <2>2. DeadCapacity(e) = Cardinality(A) BY Zenon DEF DeadCapacity
    <2> HIDE DEF A
    <2>3. IsFiniteSet(1..n) BY FS_Interval
    <2>4. IsFiniteSet(A) BY ONLY <2>1, <2>3, FS_Subset
    <2>5. Cardinality(A) \in Nat BY ONLY <2>4, FS_CardinalityType
    <2> QED BY Zenon, <2>2, <2>5
  <1> DEFINE d == [k \in 1..DeadCapacity(e) |-> <<>>]
             c == [e EXCEPT !.deadJ = d]
  <1>3. Compiled(rs) = c
    BY Zenon DEF Compiled
  <1>4. DOMAIN d = 1..DeadCapacity(e)
    BY Zenon
  <1> HIDE DEF d
  <1>5. /\ IsCompiledRecord(c) /\ c.rows = rs /\ c.dirty = TRUE /\ c.deadJ = d /\ c.of = "compiled"
        /\ c.kind = [j \in DOMAIN rs |-> problem.rows[rs[j]].kind]
        /\ c.data = [j \in DOMAIN rs |-> problem.rows[rs[j]].data]
        /\ c.market = [j \in DOMAIN rs |-> problem.rows[rs[j]].m]
        /\ c.band = [j \in DOMAIN rs |-> problem.rows[rs[j]].band]
    BY Zenon DEF IsCompiledRecord
  <1> HIDE DEF c
  <1>6. Agrees(c, lv)
    <2>1. c.rows \in Seq(Rows) /\ \A i, j \in DOMAIN c.rows : c.rows[i] = c.rows[j] => i = j BY Zenon, <1>5 DEF Once
    <2>2. DOMAIN c.market = DOMAIN c.rows /\ DOMAIN c.band = DOMAIN c.rows BY Zenon, <1>5
    <2>3. ASSUME NEW j \in DOMAIN c.rows
          PROVE  /\ c.kind[j] = problem.rows[c.rows[j]].kind
                 /\ c.data[j] = problem.rows[c.rows[j]].data
                 /\ c.band[j] = lv[c.rows[j]].band
      <3>1. j \in DOMAIN rs /\ rs[j] \in Rows BY Zenon, <1>1, <1>5
      <3>2. lv[rs[j]].band = problem.rows[rs[j]].band BY Zenon, <3>1 DEF AsQuoted
      <3>3. c.rows[j] = rs[j] BY Zenon, <1>5
      <3>4. c.kind[j] = problem.rows[rs[j]].kind
        <4>1. c.kind = [i \in DOMAIN rs |-> problem.rows[rs[i]].kind] BY ONLY <1>5, Zenon
        <4> QED BY ONLY <4>1, <3>1, Zenon
      <3>5. c.data[j] = problem.rows[rs[j]].data
        <4>1. c.data = [i \in DOMAIN rs |-> problem.rows[rs[i]].data] BY ONLY <1>5, Zenon
        <4> QED BY ONLY <4>1, <3>1, Zenon
      <3>6. c.band[j] = problem.rows[rs[j]].band BY Zenon, <1>5, <3>1
      <3> QED BY Zenon, <3>2, <3>3, <3>4, <3>5, <3>6
    <2> QED BY Zenon, <2>1, <2>2, <2>3 DEF Agrees
  <1>7. IsCompiled(c, lv)
    BY Zenon, <1>2, <1>4, <1>5, <1>6 DEF IsCompiled
  <1> QED BY Zenon, <1>3, <1>5, <1>7

LEMMA BlockEngineIs ==
    ASSUME problem \in Problems, NEW lv, AsQuoted(lv), NEW rs, Once(rs)
    PROVE  IsBlockEngine(Block(rs), lv) /\ Block(rs).rows = rs /\ Block(rs).of = "aad"
  <1>1. rs \in Seq(Rows) /\ \A j \in DOMAIN rs : rs[j] \in Rows
    <2>1. rs \in Seq(Rows) BY Zenon DEF Once
    <2> QED BY Zenon, <2>1, SeqTyped
  <1> DEFINE sub == RowsOf(rs)
             e == Block(rs)
  <1>2. IsBlock(BlockOver(sub), sub)
    <2>1. IsList(sub) /\ \A j \in DOMAIN rs : IsRow(sub[j]) BY ONLY problem \in Problems, <1>1, RowsOfIs, Zenon
    <2>2. \A j \in DOMAIN sub : IsRow(sub[j]) BY Zenon, <2>1 DEF RowsOf
    <2> HIDE DEF sub
    <2> QED BY ONLY <2>1, <2>2, BlockOverIs
  <1>3. /\ IsBlockRecord(e) /\ e.rows = rs /\ e.of = "aad"
        /\ e.block = BlockOver(sub)
        /\ e.kind = [j \in DOMAIN rs |-> problem.rows[rs[j]].kind]
        /\ e.data = [j \in DOMAIN rs |-> problem.rows[rs[j]].data]
        /\ e.market = [j \in DOMAIN rs |-> problem.rows[rs[j]].m]
        /\ e.band = [j \in DOMAIN rs |-> problem.rows[rs[j]].band]
    BY Zenon DEF Block, IsBlockRecord, RowsOf
  <1> HIDE DEF e
  <1>4. Agrees(e, lv)
    <2>1. e.rows \in Seq(Rows) /\ \A i, j \in DOMAIN e.rows : e.rows[i] = e.rows[j] => i = j BY Zenon, <1>3 DEF Once
    <2>2. DOMAIN e.market = DOMAIN e.rows /\ DOMAIN e.band = DOMAIN e.rows BY Zenon, <1>3
    <2>3. ASSUME NEW j \in DOMAIN e.rows
          PROVE  /\ e.kind[j] = problem.rows[e.rows[j]].kind
                 /\ e.data[j] = problem.rows[e.rows[j]].data
                 /\ e.band[j] = lv[e.rows[j]].band
      <3>1. j \in DOMAIN rs /\ rs[j] \in Rows BY Zenon, <1>1, <1>3
      <3>2. lv[rs[j]].band = problem.rows[rs[j]].band BY Zenon, <3>1 DEF AsQuoted
      <3> QED BY Zenon, <3>1, <3>2, <1>3
    <2> QED BY Zenon, <2>1, <2>2, <2>3 DEF Agrees
  <1>5. IsBlock(e.block, RowsOf(e.rows))
    BY Zenon, <1>2, <1>3
  <1> QED BY Zenon, <1>3, <1>4, <1>5 DEF IsBlockEngine, e

\* What Parts says of one list.
LEMMA PartOnce ==
    ASSUME NEW R, NEW T, T \subseteq Rows, Parts(R, T), NEW g \in DOMAIN R
    PROVE  Once(R[g])
  <1>1. R[g] \in Seq(T)
    BY Zenon DEF Parts
  <1>2. R[g] \in Seq(Rows)
    BY ONLY <1>1, T \subseteq Rows
  <1>3. \A i, j \in DOMAIN R[g] : R[g][i] = R[g][j] => i = j
    BY Zenon DEF Parts
  <1> QED BY Zenon, <1>2, <1>3 DEF Once

Blocks(gs) == [k \in DOMAIN gs |-> Block(gs[k].rows)]

LEMMA BlocksAre ==
    ASSUME problem \in Problems, NEW lv, AsQuoted(lv), NEW S \in SUBSET Rows, NEW gs, Grouped(gs, S),
           NEW n \in Nat, DOMAIN gs = 1..n
    PROVE  /\ DOMAIN Blocks(gs) = 1..n /\ Blocks(gs) = [k \in 1..n |-> Blocks(gs)[k]]
           /\ Parts(RowsIn(gs), S) /\ DOMAIN RowsIn(gs) = 1..n
           /\ \A k \in 1..n : /\ IsEngine(Blocks(gs)[k], lv)
                              /\ Blocks(gs)[k].rows = RowsIn(gs)[k]
                              /\ Blocks(gs)[k].of = "aad"
  <1>1. DOMAIN Blocks(gs) = 1..n /\ Blocks(gs) = [k \in 1..n |-> Blocks(gs)[k]] /\ DOMAIN RowsIn(gs) = 1..n
    BY Zenon DEF Blocks, RowsIn
  <1>2. Parts(RowsIn(gs), S)
    BY Zenon DEF Grouped
  <1>3. ASSUME NEW k \in 1..n
        PROVE  IsEngine(Blocks(gs)[k], lv) /\ Blocks(gs)[k].rows = RowsIn(gs)[k] /\ Blocks(gs)[k].of = "aad"
    <2>1. PICK rs : rs = RowsIn(gs)[k] BY Zenon
    <2>2. Blocks(gs)[k] = Block(rs) BY Zenon, <2>1 DEF Blocks, RowsIn
    <2>3. Once(rs)
      <3>1. Once(RowsIn(gs)[k]) BY ONLY <1>1, <1>2, k \in 1..n, S \in SUBSET Rows, PartOnce
      <3> QED BY Zenon, <2>1, <3>1
    <2>4. IsBlockEngine(Block(rs), lv) /\ Block(rs).rows = rs /\ Block(rs).of = "aad"
      BY ONLY problem \in Problems, AsQuoted(lv), <2>3, BlockEngineIs
    <2> QED BY Zenon, <2>1, <2>2, <2>4 DEF IsEngine
  <1> QED BY Zenon, <1>1, <1>2, <1>3

LEMMA ListConcat ==
    ASSUME NEW n \in Nat, NEW s, s = [i \in 1..n |-> s[i]], NEW a
    PROVE  /\ << >> \o s = s
           /\ DOMAIN (<<a>> \o s) = 1..n+1
           /\ (<<a>> \o s)[1] = a /\ \A k \in 1..n : (<<a>> \o s)[k+1] = s[k]
  <1> DEFINE V == {s[i] : i \in 1..n} \cup {a}
  <1>1. IsList(s) /\ Len(s) = n
    BY ONLY n \in Nat, s = [i \in 1..n |-> s[i]], ListOf
  <1>2. DOMAIN s = 1..n
    BY Zenon, <1>1 DEF IsList
  <1>3. a \in V /\ \A i \in DOMAIN s : s[i] \in V
    BY Zenon, <1>2
  <1>4. s = [i \in DOMAIN s |-> s[i]]
    BY Zenon, <1>2
  <1> HIDE DEF V
  <1>5. s \in Seq(V)
    BY ONLY <1>1, <1>3, <1>4, ListTyped
  <1>6. /\ << >> \o s = s /\ DOMAIN (<<a>> \o s) = 1..Len(s)+1
        /\ (<<a>> \o s)[1] = a /\ \A k \in 1..Len(s) : (<<a>> \o s)[k+1] = s[k]
    BY ONLY <1>3, <1>5, Headed
  <1> QED BY Zenon, <1>1, <1>6

\* The compiled engine, if any, before the blocks: every row listed once.
LEMMA EnginesAre ==
    ASSUME problem \in Problems, NEW lv, AsQuoted(lv), NEW uh \in BOOLEAN
    PROVE  EnginesFit(Engines(uh), lv)
  <1> DEFINE S == {r \in Rows : OffCache(r, uh)}
             C == {r \in Rows : ~OffCache(r, uh)}
             nc == InOrder(S)
             cached == InOrder(C)
             gs == Groups(nc)
             es == Engines(uh)
  <1>1. Lists(S, nc) /\ Lists(C, cached)
    <2>1. S \in SUBSET Rows /\ C \in SUBSET Rows BY Zenon
    <2> HIDE DEF S, C
    <2> QED BY ONLY problem \in Problems, <2>1, InOrderIs
  <1>2. S \in SUBSET Rows /\ C \in SUBSET Rows /\ C \cap S = {} /\ C \cup S = Rows
    BY Zenon
  <1>3. es = (IF ~uh \/ cached # <<>> THEN <<Compiled(cached)>> ELSE <<>>) \o Blocks(gs)
    BY Zenon DEF Engines, Blocks
  <1> HIDE DEF S, C, es
  <1>4. Grouped(gs, S)
    <2> HIDE DEF nc
    <2> QED BY ONLY problem \in Problems, <1>1, <1>2, GroupsAre
  <1> HIDE DEF nc, cached, gs
  <1>5. PICK n \in Nat : DOMAIN gs = 1..n
    <2>1. gs \in Seq([curves : SUBSET Curves, rows : Seq(S)]) BY Zenon, <1>4 DEF Grouped
    <2> QED BY ONLY <2>1, SeqTyped
  <1> DEFINE bs == Blocks(gs)
             R == RowsIn(gs)
  <1>6. /\ bs = [k \in 1..n |-> bs[k]] /\ DOMAIN bs = 1..n
        /\ Parts(R, S) /\ DOMAIN R = 1..n
        /\ \A k \in 1..n : IsEngine(bs[k], lv) /\ bs[k].rows = R[k] /\ bs[k].of = "aad"
    BY ONLY problem \in Problems, AsQuoted(lv), <1>2, <1>4, n \in Nat, <1>5, BlocksAre
  <1> HIDE DEF bs, R
  <1>7. CASE ~uh \/ cached # << >>
    <2> DEFINE a == Compiled(cached)
    <2>0. PICK p \in Nat : DOMAIN cached = 1..p
      BY Zenon, <1>1 DEF Lists
    <2>1. Once(cached) /\ cached \in Seq(C)
      <3>1. \A k \in 1..p : cached[k] \in C BY Zenon, <1>1, <2>0 DEF Lists
      <3>2. cached = [k \in 1..p |-> cached[k]]
        <4> DEFINE w(k) == CHOOSE r \in C : Cardinality({i \in C : i <= r}) = k
        <4>1. cached = [k \in 1..Cardinality(C) |-> w(k)] BY Zenon DEF InOrder, cached
        <4> HIDE DEF w
        <4>2. 1..Cardinality(C) = 1..p BY Zenon, <2>0, <4>1
        <4>3. \A k \in 1..p : cached[k] = w(k) BY Zenon, <4>1, <4>2
        <4>4. cached = [k \in 1..p |-> w(k)] BY Zenon, <4>1, <4>2
        <4> QED BY Zenon, <4>3, <4>4
      <3>3. IsList(cached) /\ Len(cached) = p BY ONLY p \in Nat, <3>2, ListOf
      <3>4. cached \in Seq(C) BY ONLY <2>0, <3>1, <3>2, <3>3, ListTyped
      <3>5. cached \in Seq(Rows) BY ONLY <3>4, <1>2
      <3>6. \A i, j \in DOMAIN cached : cached[i] = cached[j] => i = j BY Zenon, <1>1 DEF Lists
      <3> QED BY Zenon, <3>4, <3>5, <3>6 DEF Once
    <2>2. IsCompiled(a, lv) /\ a.rows = cached /\ a.of = "compiled"
      BY ONLY problem \in Problems, AsQuoted(lv), <2>1, CompiledIs
    <2>3. es = <<a>> \o bs
      BY Zenon, <1>3, <1>7 DEF bs
    <2> HIDE DEF a
    <2>4. DOMAIN es = 1..n+1 /\ es[1] = a /\ \A k \in 1..n : es[k+1] = bs[k]
      <3>1. /\ DOMAIN (<<a>> \o bs) = 1..n+1 /\ (<<a>> \o bs)[1] = a /\ \A k \in 1..n : (<<a>> \o bs)[k+1] = bs[k]
        BY ONLY n \in Nat, <1>6, ListConcat
      <3> QED BY ONLY <2>3, <3>1, Zenon
    <2>5. /\ \A k \in 1..n : k+1 \in 1..n+1 /\ k+1 # 1
          /\ 1 \in 1..n+1 /\ \A g \in 1..n+1 : g = 1 \/ (g-1 \in 1..n /\ (g-1)+1 = g)
      BY SMT
    <2> DEFINE T == RowsIn(es)
    <2>6. DOMAIN T = 1..n+1 /\ T[1] = cached /\ \A k \in 1..n : T[k+1] = R[k]
      <3>1. DOMAIN T = 1..n+1 /\ T[1] = cached BY Zenon, <2>2, <2>4, <2>5 DEF RowsIn
      <3>2. ASSUME NEW k \in 1..n PROVE T[k+1] = R[k]
        <4>1. k+1 \in DOMAIN es BY Zenon, <2>4, <2>5
        <4>2. T[k+1] = es[k+1].rows BY Zenon, <4>1 DEF RowsIn
        <4> QED BY Zenon, <1>6, <2>4, <4>2
      <3> QED BY Zenon, <3>1, <3>2
    <2> HIDE DEF T
    <2>7. Parts(T, C \cup S)
      BY ONLY n \in Nat, <1>1, <1>2, <1>6, <2>1, <2>6, PartsHeaded
    <2>8. ASSUME NEW k \in DOMAIN es PROVE IsEngine(es[k], lv) /\ (es[k].of = "compiled" => k = 1)
      <3>1. CASE k = 1 BY Zenon, <2>2, <2>4, <3>1 DEF IsEngine
      <3>2. CASE k # 1
        <4>1. PICK g \in 1..n : k = g+1 BY Zenon, <2>4, <2>5, <3>2
        <4>2. es[k] = bs[g] BY Zenon, <2>4, <4>1
        <4> QED BY Zenon, <1>6, <4>2
      <3> QED BY Zenon, <3>1, <3>2
    <2>9. Parts(RowsIn(es), Rows) BY Zenon, <1>2, <2>7 DEF T
    <2>10. n + 1 \in Nat OBVIOUS
    <2> QED BY Zenon, <2>4, <2>8, <2>9, <2>10 DEF EnginesFit, es
  <1>8. CASE uh /\ cached = << >>
    <2>1. es = bs
      <3>1. << >> \o bs = bs BY ONLY n \in Nat, <1>6, ListConcat
      <3>2. es = << >> \o bs BY Zenon, <1>3, <1>8 DEF bs
      <3> QED BY Zenon, <3>1, <3>2
    <2>2. C = {}
      <3>1. DOMAIN cached = {} BY <1>8
      <3> QED BY Zenon, <1>1, <3>1 DEF Lists
    <2>3. S = Rows
      BY Zenon, <1>2, <2>2
    <2>4. RowsIn(es) = R
      <3>1. R = [k \in 1..n |-> R[k]] BY Zenon, <1>5 DEF R, RowsIn
      <3> QED BY Zenon, <1>6, <2>1, <3>1 DEF RowsIn
    <2>5. Parts(RowsIn(es), Rows) BY Zenon, <1>6, <2>3, <2>4
    <2>6. DOMAIN es = 1..n /\ \A k \in DOMAIN es : IsEngine(es[k], lv) /\ es[k].of = "aad" BY Zenon, <1>6, <2>1
    <2>7. "aad" # "compiled" OBVIOUS
    <2>8. \A k \in DOMAIN es : IsEngine(es[k], lv) /\ (es[k].of = "compiled" => k = 1) BY Zenon, <2>6, <2>7
    <2> QED BY Zenon, <2>5, <2>6, <2>8 DEF EnginesFit, es
  <1> QED BY Zenon, <1>7, <1>8

\* The owner of a row is the engine that lists it.
LEMMA OwnersAre ==
    ASSUME NEW es, NEW lv, EnginesFit(es, lv), NEW r \in Rows
    PROVE  /\ Owners(es)[r] \in DOMAIN es
           /\ \E j \in DOMAIN es[Owners(es)[r]].rows : es[Owners(es)[r]].rows[j] = r
  <1> DEFINE Has(k) == \E j \in DOMAIN es[k].rows : es[k].rows[j] = r
  <1>1. PICK n \in Nat : DOMAIN es = 1..n
    BY Zenon DEF EnginesFit
  <1>2. PICK R : R = RowsIn(es)
    BY Zenon
  <1>3. DOMAIN R = DOMAIN es /\ \A k \in DOMAIN es : R[k] = es[k].rows
    BY Zenon, <1>2 DEF RowsIn
  <1>4. Parts(R, Rows)
    BY Zenon, <1>2 DEF EnginesFit
  <1>5. PICK k \in DOMAIN es : Has(k)
    <2>1. \E g \in DOMAIN R : \E j \in DOMAIN R[g] : R[g][j] = r BY Zenon, <1>4 DEF Parts
    <2> QED BY Zenon, <1>3, <2>1
  <1>6. ASSUME NEW h \in DOMAIN es, Has(h) PROVE h = k
    <2>1. PICK j \in DOMAIN R[h] : R[h][j] = r BY Zenon, <1>3, <1>6
    <2>2. PICK i \in DOMAIN R[k] : R[k][i] = r BY Zenon, <1>3, <1>5
    <2>3. h \in DOMAIN R /\ k \in DOMAIN R BY Zenon, <1>3
    <2>4. \A g, f \in DOMAIN R : \A y \in DOMAIN R[g] : \A z \in DOMAIN R[f] : R[g][y] = R[f][z] => g = f /\ y = z
      BY Zenon, <1>4 DEF Parts
    <2>5. R[h][j] = R[k][i] BY Zenon, <2>1, <2>2
    <2>6. \A y \in DOMAIN R[h] : \A z \in DOMAIN R[k] : R[h][y] = R[k][z] => h = k BY Zenon, <2>3, <2>4
    <2> QED BY Zenon, <2>5, <2>6
  <1>7. k <= k
    BY <1>1
  <1>8. Owners(es)[r] = CHOOSE g \in DOMAIN es : Has(g) /\ \A h \in DOMAIN es : Has(h) => h <= g
    BY Zenon DEF Owners
  <1> HIDE DEF Has
  <1>9. Has(k) /\ \A h \in DOMAIN es : Has(h) => h <= k
    BY Zenon, <1>5, <1>6, <1>7
  <1>10. Owners(es)[r] \in DOMAIN es /\ Has(Owners(es)[r])
    BY Zenon, <1>8, <1>9
  <1> QED BY Zenon, <1>10 DEF Has

----------------------------------------------------------------------------
(* The compiled engine's list under its operations. *)

MappedRows(e) == {i \in Locals(e) : Mapped(e, i)}

LEMMA LocalsAre ==
    ASSUME NEW e, NEW lv, Agrees(e, lv)
    PROVE  /\ \E n \in Nat : Locals(e) = 1..n /\ DOMAIN e.rows = 1..n
           /\ Locals(e) \in SUBSET Int /\ IsFiniteSet(Locals(e))
           /\ \A j \in Locals(e) : e.rows[j] \in Rows
  <1>1. e.rows \in Seq(Rows) /\ Locals(e) = DOMAIN e.rows
    BY Zenon DEF Agrees, Locals
  <1>2. PICK n \in Nat : DOMAIN e.rows = 1..n /\ \A j \in DOMAIN e.rows : e.rows[j] \in Rows
    <2>1. PICK s \in Seq(Rows) : s = e.rows BY Zenon, <1>1
    <2>2. Len(s) \in Nat /\ DOMAIN s = 1..Len(s) /\ \A j \in DOMAIN s : s[j] \in Rows BY ONLY <2>1, SeqTyped
    <2> QED BY Zenon, <2>1, <2>2
  <1>3. 1..n \in SUBSET Int /\ IsFiniteSet(1..n)
    BY FS_Interval
  <1> QED BY Zenon, <1>1, <1>2, <1>3

LEMMA PosIs ==
    ASSUME NEW e, NEW lv, Agrees(e, lv)
    PROVE  /\ MappedRows(e) \in SUBSET Int /\ IsFiniteSet(MappedRows(e)) /\ Cardinality(MappedRows(e)) \in Nat
           /\ \A j \in MappedRows(e) : PosOf(e)[j] = Rank(MappedRows(e), j)
           /\ \A i, j \in MappedRows(e) : PosOf(e)[i] = PosOf(e)[j] => i = j
           /\ {PosOf(e)[j] : j \in MappedRows(e)} = 1..Cardinality(MappedRows(e))
  <1> DEFINE M == MappedRows(e)
  <1>1. M \in SUBSET Int /\ IsFiniteSet(M) /\ M \subseteq Locals(e)
    <2>1. M \subseteq Locals(e) BY Zenon DEF MappedRows
    <2>2. Locals(e) \in SUBSET Int /\ IsFiniteSet(Locals(e)) BY Zenon, LocalsAre
    <2> HIDE DEF M
    <2>3. IsFiniteSet(M) BY ONLY <2>1, <2>2, FS_Subset
    <2> QED BY Zenon, <2>1, <2>2, <2>3
  <1>2. ASSUME NEW j \in M PROVE PosOf(e)[j] = Rank(M, j)
    <2>1. j \in Locals(e) /\ Mapped(e, j) BY Zenon DEF MappedRows
    <2>2. {i \in Locals(e) : i <= j /\ Mapped(e, i)} = {i \in M : i <= j} BY Zenon DEF MappedRows
    <2>3. PosOf(e)[j] = Cardinality({i \in Locals(e) : i <= j /\ Mapped(e, i)}) BY Zenon, <2>1 DEF PosOf
    <2> QED BY Zenon, <2>2, <2>3 DEF Rank
  <1> HIDE DEF M
  <1>3. /\ Cardinality(M) \in Nat
        /\ \A r \in M : Rank(M, r) \in 1..Cardinality(M)
        /\ \A r, s \in M : Rank(M, r) = Rank(M, s) => r = s
        /\ \A k \in 1..Cardinality(M) : \E r \in M : Rank(M, r) = k
    BY ONLY <1>1, Ranked
  <1>4. \A i, j \in M : PosOf(e)[i] = PosOf(e)[j] => i = j
    BY Zenon, <1>2, <1>3
  <1>5. {PosOf(e)[j] : j \in M} = 1..Cardinality(M)
    <2>1. \A j \in M : PosOf(e)[j] \in 1..Cardinality(M) BY Zenon, <1>2, <1>3
    <2>2. \A k \in 1..Cardinality(M) : \E j \in M : PosOf(e)[j] = k BY Zenon, <1>2, <1>3
    <2> QED BY Zenon, <2>1, <2>2
  <1> QED BY Zenon, <1>1, <1>2, <1>3, <1>4, <1>5 DEF M

\* A list fits as long as the rows it maps, and their maps, are the same.
SameMaps(e, g) ==
    /\ Locals(g) = Locals(e) /\ g.pos = e.pos
    /\ \A i \in Locals(e) : Mapped(g, i) <=> Mapped(e, i)

LEMMA SamePos ==
    ASSUME NEW e, NEW g, SameMaps(e, g)
    PROVE  PosOf(g) = PosOf(e) /\ {i \in Locals(g) : Mapped(g, i)} = {i \in Locals(e) : Mapped(e, i)}
  <1>1. ASSUME NEW j PROVE {i \in Locals(g) : i <= j /\ Mapped(g, i)} = {i \in Locals(e) : i <= j /\ Mapped(e, i)}
    BY Zenon DEF SameMaps
  <1>2. ASSUME NEW j \in Locals(e)
        PROVE  (IF Mapped(g, j) THEN Cardinality({i \in Locals(g) : i <= j /\ Mapped(g, i)}) ELSE 0)
                  = (IF Mapped(e, j) THEN Cardinality({i \in Locals(e) : i <= j /\ Mapped(e, i)}) ELSE 0)
    BY Zenon, <1>1 DEF SameMaps
  <1>3. Locals(g) = Locals(e)
    BY Zenon DEF SameMaps
  <1>4. PosOf(g) = PosOf(e)
    BY Zenon, <1>2, <1>3 DEF PosOf
  <1>5. {i \in Locals(g) : Mapped(g, i)} = {i \in Locals(e) : Mapped(e, i)}
    BY Zenon, <1>3 DEF SameMaps
  <1> QED BY Zenon, <1>4, <1>5

LEMMA ListKept ==
    ASSUME NEW e, ListFits(e), NEW g, SameMaps(e, g), g.maps = e.maps,
           \A i \in Locals(e) : Mapped(e, i) => RowMap(g, i) = RowMap(e, i)
    PROVE  ListFits(g)
  <1>1. PosOf(g) = PosOf(e) /\ {i \in Locals(g) : Mapped(g, i)} = {i \in Locals(e) : Mapped(e, i)}
    BY Zenon, SamePos
  <1>2. g.pos = e.pos /\ Locals(g) = Locals(e) /\ \A i \in Locals(e) : Mapped(g, i) <=> Mapped(e, i)
    BY Zenon DEF SameMaps
  <1>3. g.pos = PosOf(g)
    BY Zenon, <1>1, <1>2 DEF ListFits
  <1>4. DOMAIN g.maps = {g.pos[j] : j \in {i \in Locals(g) : Mapped(g, i)}}
    <2>1. DOMAIN e.maps = {e.pos[j] : j \in {i \in Locals(e) : Mapped(e, i)}} BY Zenon DEF ListFits
    <2>2. {g.pos[j] : j \in {i \in Locals(g) : Mapped(g, i)}} = {e.pos[j] : j \in {i \in Locals(e) : Mapped(e, i)}}
      BY Zenon, <1>1, <1>2
    <2> QED BY Zenon, <2>1, <2>2
  <1>5. \A j \in Locals(g) : Mapped(g, j) => g.maps[g.pos[j]] = RowMap(g, j)
    <2>1. \A j \in Locals(e) : Mapped(e, j) => e.maps[e.pos[j]] = RowMap(e, j) BY Zenon DEF ListFits
    <2> QED BY Zenon, <1>2, <2>1
  <1> QED BY Zenon, <1>3, <1>4, <1>5 DEF ListFits

\* A row's map replaced in place.
LEMMA ListEdited ==
    ASSUME NEW e, NEW lv, Agrees(e, lv), ListFits(e), NEW g, SameMaps(e, g), NEW j \in Locals(e), Mapped(e, j),
           NEW f, g.maps = [e.maps EXCEPT ![e.pos[j]].f = f],
           RowMap(g, j) = [RowMap(e, j) EXCEPT !.f = f],
           \A i \in Locals(e) : i # j => RowMap(g, i) = RowMap(e, i)
    PROVE  ListFits(g)
  <1>1. PosOf(g) = PosOf(e) /\ {i \in Locals(g) : Mapped(g, i)} = {i \in Locals(e) : Mapped(e, i)}
    BY Zenon, SamePos
  <1>2. g.pos = e.pos /\ Locals(g) = Locals(e) /\ \A i \in Locals(e) : Mapped(g, i) <=> Mapped(e, i)
    BY Zenon DEF SameMaps
  <1>3. g.pos = PosOf(g)
    BY Zenon, <1>1, <1>2 DEF ListFits
  <1>3a. DOMAIN e.maps = {e.pos[i] : i \in {h \in Locals(e) : Mapped(e, h)}}
    BY Zenon DEF ListFits
  <1>4. DOMAIN g.maps = {g.pos[i] : i \in {h \in Locals(g) : Mapped(g, h)}}
    <2>1. {g.pos[i] : i \in {h \in Locals(g) : Mapped(g, h)}} = {e.pos[i] : i \in {h \in Locals(e) : Mapped(e, h)}}
      BY ZenonT(60), <1>1, <1>2
    <2>2. DOMAIN g.maps = DOMAIN e.maps BY Zenon
    <2> QED BY Zenon, <1>3a, <2>1, <2>2
  <1>5. ASSUME NEW i \in Locals(e), Mapped(e, i) PROVE g.maps[e.pos[i]] = RowMap(g, i)
    <2>1. e.maps[e.pos[i]] = RowMap(e, i) BY Zenon, <1>5 DEF ListFits
    <2>2. e.pos[i] \in DOMAIN e.maps BY Zenon, <1>3a, <1>5
    <2>3. CASE i = j BY Zenon, <2>1, <2>2, <2>3
    <2>4. CASE i # j
      <3>1. e.pos[i] # e.pos[j]
        <4>1. i \in MappedRows(e) /\ j \in MappedRows(e) BY Zenon, <1>5 DEF MappedRows
        <4>2. e.pos = PosOf(e) BY Zenon DEF ListFits
        <4> QED BY Zenon, <2>4, <4>1, <4>2, PosIs
      <3>2. g.maps[e.pos[i]] = e.maps[e.pos[i]] BY Zenon, <2>2, <3>1
      <3> QED BY Zenon, <2>1, <2>4, <3>2
    <2> QED BY Zenon, <2>3, <2>4
  <1>6. \A i \in Locals(g) : Mapped(g, i) => g.maps[g.pos[i]] = RowMap(g, i)
    BY Zenon, <1>2, <1>5
  <1> QED BY Zenon, <1>3, <1>4, <1>6 DEF ListFits

\* row_maps(): the list is there, and nothing else moves.
LEMMA RebuiltIs ==
    ASSUME NEW e, NEW lv, IsCompiled(e, lv)
    PROVE  /\ IsCompiled(Rebuilt(e), lv) /\ ListFits(Rebuilt(e))
           /\ Rebuilt(e).rows = e.rows /\ Rebuilt(e).of = "compiled"
  <1>0. IsCompiledRecord(e) /\ Agrees(e, lv) /\ (~e.dirty => ListFits(e)) /\ \E n \in Nat : DOMAIN e.deadJ = 1..n
    BY Zenon DEF IsCompiled
  <1>1. e.of = "compiled"
    BY Zenon, <1>0 DEF IsCompiledRecord
  <1>2. CASE ~e.dirty
    <2>1. Rebuilt(e) = e BY Zenon, <1>2 DEF Rebuilt
    <2> QED BY Zenon, <1>0, <1>1, <1>2, <2>1
  <1>3. CASE e.dirty
    <2> DEFINE pos == PosOf(e)
               maps == [k \in {pos[j] : j \in {i \in Locals(e) : Mapped(e, i)}} |->
                           RowMap(e, CHOOSE j \in Locals(e) : Mapped(e, j) /\ pos[j] = k)]
               g == [e EXCEPT !.maps = maps, !.pos = pos, !.dirty = FALSE]
    <2>1. Rebuilt(e) = g BY Zenon, <1>3 DEF Rebuilt
    <2>2. DOMAIN maps = {pos[j] : j \in {i \in Locals(e) : Mapped(e, i)}} BY Zenon
    <2>3. ASSUME NEW j \in Locals(e), Mapped(e, j) PROVE maps[pos[j]] = RowMap(e, j)
      <3>1. pos[j] \in {pos[i] : i \in {i \in Locals(e) : Mapped(e, i)}} BY Zenon, <2>3
      <3>2. maps[pos[j]] = RowMap(e, CHOOSE i \in Locals(e) : Mapped(e, i) /\ pos[i] = pos[j]) BY Zenon, <3>1
      <3>3. \A i, h \in MappedRows(e) : pos[i] = pos[h] => i = h BY Zenon, <1>0, PosIs
      <3> HIDE DEF pos
      <3>4. (CHOOSE i \in Locals(e) : Mapped(e, i) /\ pos[i] = pos[j]) = j BY Zenon, <2>3, <3>3 DEF MappedRows
      <3> HIDE DEF maps
      <3> QED BY Zenon, <3>2, <3>4
    <2> HIDE DEF pos, maps
    <2>4. /\ IsCompiledRecord(g) /\ g.rows = e.rows /\ g.of = "compiled" /\ g.kind = e.kind /\ g.data = e.data
          /\ g.market = e.market /\ g.band = e.band /\ g.maps = maps /\ g.pos = pos /\ g.dirty = FALSE /\ g.deadJ = e.deadJ
      BY Zenon, <1>0 DEF IsCompiledRecord
    <2> HIDE DEF g
    <2>5. Agrees(g, lv)
      BY Zenon, <1>0, <2>4 DEF Agrees
    <2>6. /\ Locals(g) = Locals(e)
          /\ \A i : (Mapped(g, i) <=> Mapped(e, i)) /\ RowMap(g, i) = RowMap(e, i)
      BY Zenon, <2>4 DEF Locals, Mapped, RowMap
    <2>7. PosOf(g) = PosOf(e) /\ {i \in Locals(g) : Mapped(g, i)} = {i \in Locals(e) : Mapped(e, i)}
      BY Zenon, <2>6 DEF PosOf
    <2>8. ListFits(g)
      <3>1. g.pos = PosOf(g) BY Zenon, <2>4, <2>7 DEF pos
      <3>2. DOMAIN g.maps = {g.pos[j] : j \in {i \in Locals(g) : Mapped(g, i)}} BY Zenon, <2>2, <2>4, <2>7
      <3>3. \A j \in Locals(g) : Mapped(g, j) => g.maps[g.pos[j]] = RowMap(g, j) BY Zenon, <2>3, <2>4, <2>6
      <3> QED BY Zenon, <3>1, <3>2, <3>3 DEF ListFits
    <2> QED BY Zenon, <1>0, <2>1, <2>4, <2>5, <2>8 DEF IsCompiled, g
  <1> QED BY Zenon, <1>2, <1>3

----------------------------------------------------------------------------
(* Quotes: the owner of the row takes it, and no other engine has it. *)

\* The quotes lw are lv but for the row r, whose band is b.
Rebanded(lv, lw, r, b) == lw[r].band = b /\ \A i \in Rows : i # r => lw[i].band = lv[i].band

LEMMA OthersAgree ==
    ASSUME NEW e, NEW lv, NEW lw, NEW r, NEW b, Rebanded(lv, lw, r, b), IsEngine(e, lv),
           \A j \in DOMAIN e.rows : e.rows[j] # r
    PROVE  IsEngine(e, lw)
  <1>1. Agrees(e, lv)
    BY Zenon DEF IsEngine, IsCompiled, IsBlockEngine
  <1>2. \A j \in DOMAIN e.rows : e.rows[j] \in Rows
    <2>1. PICK s \in Seq(Rows) : s = e.rows BY Zenon, <1>1 DEF Agrees
    <2>2. \A j \in DOMAIN s : s[j] \in Rows BY ONLY <2>1, SeqTyped
    <2> QED BY Zenon, <2>1, <2>2
  <1>3. \A j \in DOMAIN e.rows : lw[e.rows[j]].band = lv[e.rows[j]].band
    BY Zenon, <1>2 DEF Rebanded
  <1>4. Agrees(e, lw)
    BY Zenon, <1>1, <1>3 DEF Agrees
  <1> QED BY Zenon, <1>4 DEF IsEngine, IsCompiled, IsBlockEngine

LEMMA AgreesSame ==
    ASSUME NEW f, NEW lv, Agrees(f, lv), NEW g,
           g.rows = f.rows /\ g.kind = f.kind /\ g.data = f.data /\ g.market = f.market /\ g.band = f.band
    PROVE  Agrees(g, lv)
  BY Zenon DEF Agrees

\* What a new target and a new band make of the fields that agree with the quotes.
RequotedFrom(e, g, j, b) ==
    /\ g.rows = e.rows /\ g.kind = e.kind /\ g.data = e.data
    /\ DOMAIN g.market = DOMAIN e.market
    /\ \/ g.band = [e.band EXCEPT ![j] = b]
       \/ g.band = e.band /\ (e.kind[j] = "log" \/ e.band[j] = b)

LEMMA AgreesAfter ==
    ASSUME NEW e, NEW lv, NEW lw, Agrees(e, lv), NEW j \in DOMAIN e.rows, NEW b, Rebanded(lv, lw, e.rows[j], b),
           NEW g, RequotedFrom(e, g, j, b)
    PROVE  Agrees(g, lw)
  <1>0. /\ g.rows = e.rows /\ g.kind = e.kind /\ g.data = e.data
        /\ DOMAIN g.market = DOMAIN e.market
        /\ g.band = [e.band EXCEPT ![j] = b] \/ (g.band = e.band /\ (e.kind[j] = "log" \/ e.band[j] = b))
    BY Zenon DEF RequotedFrom
  <1>1. PICK s \in Seq(Rows) : s = e.rows
    BY Zenon DEF Agrees
  <1>2. \A i \in DOMAIN s : s[i] \in Rows
    BY ONLY <1>1, SeqTyped
  <1>3. DOMAIN e.band = DOMAIN e.rows /\ DOMAIN e.market = DOMAIN e.rows
    BY Zenon DEF Agrees
  <1>4. ASSUME NEW i \in DOMAIN e.rows
        PROVE  e.kind[i] # "log" => g.band[i] = lw[e.rows[i]].band
    <2>1. CASE i = j BY Zenon, <1>0, <1>3, <2>1 DEF Rebanded
    <2>2. CASE i # j
      <3>1. e.rows[i] \in Rows /\ e.rows[i] # e.rows[j] BY Zenon, <1>1, <1>2, <2>2 DEF Agrees
      <3>2. lw[e.rows[i]].band = lv[e.rows[i]].band BY Zenon, <3>1 DEF Rebanded
      <3>3. g.band[i] = e.band[i] BY Zenon, <1>0, <1>3, <2>2
      <3>4. e.kind[i] # "log" => e.band[i] = lv[e.rows[i]].band BY Zenon DEF Agrees
      <3> QED BY Zenon, <3>2, <3>3, <3>4
    <2> QED BY Zenon, <2>1, <2>2
  <1>5. DOMAIN g.band = DOMAIN e.band
    BY Zenon, <1>0
  <1> QED BY Zenon, <1>0, <1>3, <1>4, <1>5 DEF Agrees

\* set_quote(): the list keeps up in place, or is given up.
LEMMA WithQuoteIs ==
    ASSUME problem \in Problems, NEW e, NEW lv, NEW lw, IsCompiled(e, lv), NEW j \in DOMAIN e.rows, NEW m0, NEW b,
           Rebanded(lv, lw, e.rows[j], b)
    PROVE  /\ IsCompiled(WithQuote(e, j, m0, b), lw)
           /\ WithQuote(e, j, m0, b).rows = e.rows /\ WithQuote(e, j, m0, b).of = "compiled"
  <1> DEFINE f == [e EXCEPT !.market[j] = m0, !.band[j] = b]
             w == WithQuote(e, j, m0, b)
  <1>0. IsCompiledRecord(e) /\ Agrees(e, lv) /\ (~e.dirty => ListFits(e)) /\ \E n \in Nat : DOMAIN e.deadJ = 1..n
    BY Zenon DEF IsCompiled
  <1>1. j \in Locals(e) /\ DOMAIN e.band = Locals(e)
    BY Zenon, <1>0 DEF Agrees, Locals
  <1>2. /\ IsCompiledRecord(f) /\ f.of = "compiled" /\ f.rows = e.rows /\ f.kind = e.kind /\ f.data = e.data
        /\ f.market = [e.market EXCEPT ![j] = m0] /\ f.band = [e.band EXCEPT ![j] = b]
        /\ f.maps = e.maps /\ f.pos = e.pos /\ f.dirty = e.dirty /\ f.deadJ = e.deadJ
    BY Zenon, <1>0 DEF IsCompiledRecord
  <1> HIDE DEF f
  <1>3. Locals(f) = Locals(e)
    BY Zenon, <1>2 DEF Locals
  <1>4. Agrees(f, lw)
    <2>1. /\ f.rows = e.rows /\ f.kind = e.kind /\ f.data = e.data
          /\ DOMAIN f.market = DOMAIN e.market /\ f.band = [e.band EXCEPT ![j] = b]
      BY Zenon, <1>2
    <2>2. RequotedFrom(e, f, j, b) BY Zenon, <2>1 DEF RequotedFrom
    <2> QED BY Zenon, <1>0, <2>2, AgreesAfter
  <1>5. \A i \in Locals(e) : i # j => f.band[i] = e.band[i]
    BY Zenon, <1>1, <1>2
  <1>6. f.band[j] = b
    BY Zenon, <1>1, <1>2
  <1>7. ASSUME NEW i \in Locals(e), f.band[i] = e.band[i] \/ e.kind[i] = "data"
        PROVE  (Mapped(f, i) <=> Mapped(e, i)) /\ RowMap(f, i) = RowMap(e, i)
    <2>1. f.kind[i] = e.kind[i] /\ f.data[i] = e.data[i] BY Zenon, <1>2
    <2>2. Mapped(f, i) <=> Mapped(e, i) BY Zenon, <1>7, <2>1 DEF Mapped
    <2>3. Penalty(f.kind[i], f.data[i], f.band[i]) = Penalty(e.kind[i], e.data[i], e.band[i])
      BY Zenon, <1>7, <2>1 DEF Penalty
    <2> QED BY Zenon, <2>1, <2>2, <2>3 DEF RowMap
  <1>8. CASE e.kind[j] = "log"
    <2> DEFINE g == [e EXCEPT !.market[j] = m0]
    <2>1. w = g BY Zenon, <1>8 DEF WithQuote
    <2>2. /\ IsCompiledRecord(g) /\ g.of = "compiled" /\ g.rows = e.rows /\ g.kind = e.kind /\ g.data = e.data
          /\ g.market = [e.market EXCEPT ![j] = m0] /\ g.band = e.band
          /\ g.maps = e.maps /\ g.pos = e.pos /\ g.dirty = e.dirty /\ g.deadJ = e.deadJ
      BY Zenon, <1>0 DEF IsCompiledRecord
    <2> HIDE DEF g
    <2>3. Agrees(g, lw)
      <3>1. RequotedFrom(e, g, j, b) BY Zenon, <1>8, <2>2 DEF RequotedFrom
      <3> QED BY Zenon, <1>0, <3>1, AgreesAfter
    <2>4. Locals(g) = Locals(e) /\ \A i : (Mapped(g, i) <=> Mapped(e, i)) /\ RowMap(g, i) = RowMap(e, i)
      BY Zenon, <2>2 DEF Locals, Mapped, RowMap
    <2>5. ~g.dirty => ListFits(g)
      <3>1. SameMaps(e, g) BY Zenon, <2>2, <2>4 DEF SameMaps
      <3> QED BY Zenon, <1>0, <2>2, <2>4, <3>1, ListKept
    <2>6. IsCompiled(g, lw) BY Zenon, <1>0, <2>2, <2>3, <2>5 DEF IsCompiled
    <2> QED BY Zenon, <2>1, <2>2, <2>6
  <1>9. CASE e.kind[j] # "log" /\ (b = e.band[j] \/ e.kind[j] = "data")
    <2>1. w = f BY Zenon, <1>9 DEF WithQuote, f
    <2>2. \A i \in Locals(e) : f.band[i] = e.band[i] \/ e.kind[i] = "data" BY Zenon, <1>5, <1>6, <1>9
    <2>3. \A i \in Locals(e) : (Mapped(f, i) <=> Mapped(e, i)) /\ RowMap(f, i) = RowMap(e, i) BY Zenon, <1>7, <2>2
    <2>4. SameMaps(e, f) BY Zenon, <1>2, <1>3, <2>3 DEF SameMaps
    <2>5. ~f.dirty => ListFits(f)
      BY Zenon, <1>0, <1>2, <2>3, <2>4, ListKept
    <2>6. IsCompiled(f, lw) BY Zenon, <1>0, <1>2, <1>4, <2>5 DEF IsCompiled
    <2> QED BY Zenon, <1>2, <2>1, <2>6
  <1>10. CASE /\ e.kind[j] # "log" /\ ~(b = e.band[j] \/ e.kind[j] = "data")
              /\ IsBand(e.band[j]) /\ IsBand(b) /\ ~e.dirty /\ e.pos[j] > 0
    <2> DEFINE g == [f EXCEPT !.maps[e.pos[j]].f = BandMap(b)]
    <2>1. w = g BY Zenon, <1>10 DEF WithQuote, f
    <2>2. /\ IsCompiledRecord(g) /\ g.of = "compiled" /\ g.rows = e.rows /\ g.kind = e.kind /\ g.data = e.data
          /\ g.market = f.market /\ g.band = f.band
          /\ g.maps = [e.maps EXCEPT ![e.pos[j]].f = BandMap(b)] /\ g.pos = e.pos /\ g.dirty = e.dirty /\ g.deadJ = e.deadJ
      BY Zenon, <1>2 DEF IsCompiledRecord
    <2> HIDE DEF g
    <2>3. Agrees(g, lw)
      <3>1. g.rows = f.rows /\ g.kind = f.kind /\ g.data = f.data /\ g.market = f.market /\ g.band = f.band
        BY Zenon, <1>2, <2>2
      <3> QED BY ONLY <1>4, <3>1, AgreesSame, Zenon
    <2>4. e.kind[j] = "quote"
      <3>1. e.rows[j] \in Rows BY Zenon, <1>0, <1>1, LocalsAre
      <3>2. problem.rows[e.rows[j]].kind \in {"quote", "data", "log"} BY Zenon, <3>1, RowsTyped
      <3>3. e.kind[j] = problem.rows[e.rows[j]].kind BY Zenon, <1>0 DEF Agrees
      <3> QED BY Zenon, <1>10, <3>2, <3>3
    <2>5. Locals(g) = Locals(e) /\ \A i : (Mapped(g, i) <=> Mapped(f, i)) /\ RowMap(g, i) = RowMap(f, i)
      BY ZenonT(60), <1>2, <1>3, <2>2 DEF Locals, Mapped, RowMap
    <2>6. \A i \in Locals(e) : i # j => (Mapped(g, i) <=> Mapped(e, i)) /\ RowMap(g, i) = RowMap(e, i)
      BY Zenon, <1>5, <1>7, <2>5
    <2>7. Mapped(g, j) /\ Mapped(e, j) BY Zenon, <1>2, <1>6, <1>10, <2>4, <2>5 DEF Mapped
    <2>8. RowMap(g, j) = [RowMap(e, j) EXCEPT !.f = BandMap(b)]
      <3>1. RowMap(e, j) = [row |-> j, shape |-> "edges", f |-> BandMap(e.band[j])]
        BY Zenon, <1>10, <2>4 DEF RowMap, Penalty
      <3>2. RowMap(f, j) = [row |-> j, shape |-> "edges", f |-> BandMap(b)]
        BY Zenon, <1>2, <1>6, <1>10, <2>4 DEF RowMap, Penalty
      <3>3. [RowMap(e, j) EXCEPT !.f = BandMap(b)] = [row |-> j, shape |-> "edges", f |-> BandMap(b)]
        <4>1. [[row |-> j, shape |-> "edges", f |-> BandMap(e.band[j])] EXCEPT !.f = BandMap(b)]
                 = [row |-> j, shape |-> "edges", f |-> BandMap(b)]
          BY ONLY SMT
        <4> QED BY ONLY <3>1, <4>1, Zenon
      <3> QED BY Zenon, <2>5, <3>2, <3>3
    <2>9. SameMaps(e, g)
      <3>1. \A i \in Locals(e) : Mapped(g, i) <=> Mapped(e, i) BY Zenon, <2>6, <2>7
      <3> QED BY Zenon, <2>2, <2>5, <3>1 DEF SameMaps
    <2>10. ListFits(g)
      <3>1. \A i \in Locals(e) : i # j => RowMap(g, i) = RowMap(e, i) BY Zenon, <2>6
      <3>2. ListFits(e) BY Zenon, <1>0, <1>10
      <3>3. g.maps = [e.maps EXCEPT ![e.pos[j]].f = BandMap(b)] BY Zenon, <2>2
      <3> QED BY ONLY <1>0, <1>1, <2>7, <2>8, <2>9, <3>1, <3>2, <3>3, ListEdited, ZenonT(60)
    <2> QED BY Zenon, <1>0, <1>2, <2>1, <2>2, <2>3, <2>10 DEF IsCompiled
  <1>11. CASE /\ e.kind[j] # "log" /\ ~(b = e.band[j] \/ e.kind[j] = "data")
              /\ ~(IsBand(e.band[j]) /\ IsBand(b) /\ ~e.dirty /\ e.pos[j] > 0)
    <2> DEFINE g == [f EXCEPT !.dirty = TRUE]
    <2>1. w = g BY Zenon, <1>11 DEF WithQuote, f
    <2>2. /\ IsCompiledRecord(g) /\ g.of = "compiled" /\ g.rows = e.rows /\ g.kind = e.kind /\ g.data = e.data
          /\ g.market = f.market /\ g.band = f.band /\ g.dirty = TRUE /\ g.deadJ = e.deadJ
      BY Zenon, <1>2 DEF IsCompiledRecord
    <2> HIDE DEF g
    <2>3. Agrees(g, lw)
      <3>1. g.rows = f.rows /\ g.kind = f.kind /\ g.data = f.data /\ g.market = f.market /\ g.band = f.band
        BY Zenon, <1>2, <2>2
      <3> QED BY ONLY <1>4, <3>1, AgreesSame, Zenon
    <2> QED BY Zenon, <1>0, <2>1, <2>2, <2>3 DEF IsCompiled
  <1> QED BY Zenon, <1>8, <1>9, <1>10, <1>11

LEMMA EnginesSame ==
    ASSUME NEW es, NEW lv, EnginesFit(es, lv), NEW fs, NEW lw, DOMAIN fs = DOMAIN es,
           \A k \in DOMAIN es : fs[k].rows = es[k].rows /\ fs[k].of = es[k].of /\ IsEngine(fs[k], lw)
    PROVE  EnginesFit(fs, lw)
  <1>1. RowsIn(fs) = RowsIn(es)
    BY Zenon DEF RowsIn
  <1>2. Parts(RowsIn(fs), Rows)
    BY Zenon, <1>1 DEF EnginesFit
  <1>3. \A k \in DOMAIN fs : IsEngine(fs[k], lw) /\ (fs[k].of = "compiled" => k = 1)
    BY Zenon DEF EnginesFit
  <1> QED BY Zenon, <1>2, <1>3 DEF EnginesFit

\* Only one engine lists a row, and lists it once.
LEMMA ListedOnce ==
    ASSUME NEW es, NEW lv, EnginesFit(es, lv), NEW k \in DOMAIN es, NEW j \in DOMAIN es[k].rows,
           NEW h \in DOMAIN es, NEW i \in DOMAIN es[h].rows, es[h].rows[i] = es[k].rows[j]
    PROVE  h = k /\ i = j
  <1>1. PICK R : R = RowsIn(es)
    BY Zenon
  <1>2. DOMAIN R = DOMAIN es /\ \A g \in DOMAIN es : R[g] = es[g].rows
    BY Zenon, <1>1 DEF RowsIn
  <1>3. Parts(R, Rows)
    BY Zenon, <1>1 DEF EnginesFit
  <1>4. \A g, f \in DOMAIN R : \A y \in DOMAIN R[g] : \A z \in DOMAIN R[f] : R[g][y] = R[f][z] => g = f /\ y = z
    BY Zenon, <1>3 DEF Parts
  <1>5. \A y \in DOMAIN R[h] : \A z \in DOMAIN R[k] : R[h][y] = R[k][z] => h = k /\ y = z
    BY Zenon, <1>2, <1>4
  <1>6. j \in DOMAIN R[k] /\ i \in DOMAIN R[h] /\ R[h][i] = R[k][j]
    BY Zenon, <1>2
  <1> QED BY Zenon, <1>5, <1>6

LEMMA LocalRowIs ==
    ASSUME NEW e, \A i, j \in DOMAIN e.rows : e.rows[i] = e.rows[j] => i = j,
           NEW r, NEW j \in DOMAIN e.rows, e.rows[j] = r
    PROVE  LocalRow(e, r) = j
  BY Zenon DEF LocalRow

TakenFrom(f, e, lw) == IsEngine(f, lw) /\ f.rows = e.rows /\ f.of = e.of

\* RowEngine::set_quote of the owner.
LEMMA RequotedIs ==
    ASSUME problem \in Problems, NEW e, NEW lv, NEW lw, IsEngine(e, lv), NEW r, \E j \in DOMAIN e.rows : e.rows[j] = r,
           NEW m0, NEW b, Rebanded(lv, lw, r, b), NEW f, f = Requoted(e, r, m0, b)
    PROVE  TakenFrom(f, e, lw)
  <1>0. PICK j \in DOMAIN e.rows : e.rows[j] = r
    OBVIOUS
  <1>1. Agrees(e, lv)
    BY Zenon DEF IsEngine, IsCompiled, IsBlockEngine
  <1>2. LocalRow(e, r) = j
    <2>1. \A i, h \in DOMAIN e.rows : e.rows[i] = e.rows[h] => i = h BY Zenon, <1>1 DEF Agrees
    <2> QED BY ONLY <2>1, <1>0, LocalRowIs, Zenon
  <1>3. CASE IsCompiled(e, lv)
    <2>1. e.of = "compiled" BY Zenon, <1>3 DEF IsCompiled, IsCompiledRecord
    <2>2. Requoted(e, r, m0, b) = WithQuote(e, j, m0, b) BY Zenon, <1>2, <2>1 DEF Requoted
    <2>3. Rebanded(lv, lw, e.rows[j], b) BY Zenon, <1>0
    <2>4. /\ IsCompiled(WithQuote(e, j, m0, b), lw)
          /\ WithQuote(e, j, m0, b).rows = e.rows /\ WithQuote(e, j, m0, b).of = "compiled"
      BY ONLY problem \in Problems, <1>3, j \in DOMAIN e.rows, <2>3, WithQuoteIs
    <2> QED BY Zenon, <2>1, <2>2, <2>4 DEF IsEngine, TakenFrom
  <1>4. CASE IsBlockEngine(e, lv)
    <2> DEFINE g == [e EXCEPT !.market[j] = m0, !.band[j] = b]
    <2>1. e.of = "aad" /\ IsBlockRecord(e) BY Zenon, <1>4 DEF IsBlockEngine, IsBlockRecord
    <2>2. Requoted(e, r, m0, b) = g
      <3>1. e.of # "compiled" BY Zenon, <2>1
      <3> QED BY Zenon, <1>2, <3>1 DEF Requoted
    <2>3. /\ IsBlockRecord(g) /\ g.of = "aad" /\ g.rows = e.rows /\ g.kind = e.kind /\ g.data = e.data
          /\ DOMAIN g.market = DOMAIN e.market /\ g.band = [e.band EXCEPT ![j] = b] /\ g.block = e.block
      BY Zenon, <2>1 DEF IsBlockRecord
    <2> HIDE DEF g
    <2>4. RequotedFrom(e, g, j, b) BY Zenon, <2>3 DEF RequotedFrom
    <2>5. Rebanded(lv, lw, e.rows[j], b) BY Zenon, <1>0
    <2>6. Agrees(g, lw) BY Zenon, <1>1, <2>4, <2>5, AgreesAfter
    <2>7. IsBlock(g.block, RowsOf(g.rows)) BY Zenon, <1>4, <2>3 DEF IsBlockEngine
    <2>8. f = g BY Zenon, <2>2
    <2> QED BY Zenon, <2>1, <2>3, <2>6, <2>7, <2>8 DEF IsEngine, IsBlockEngine, TakenFrom
  <1> QED BY Zenon, <1>3, <1>4 DEF IsEngine

\* The bands are those kept, whatever the targets.
LEMMA RetargetedIs ==
    ASSUME NEW e, NEW lv, NEW lw, IsEngine(e, lv), NEW r, NEW j \in DOMAIN e.rows, e.rows[j] = r,
           NEW m0, Rebanded(lv, lw, r, lv[r].band)
    PROVE  /\ IsEngine(Retargeted(e, r, m0), lw)
           /\ Retargeted(e, r, m0).rows = e.rows /\ Retargeted(e, r, m0).of = e.of
  <1> DEFINE b == lv[r].band
             g == [e EXCEPT !.market[j] = m0]
  <1>1. Agrees(e, lv)
    BY Zenon DEF IsEngine, IsCompiled, IsBlockEngine
  <1>2. LocalRow(e, r) = j
    <2>1. \A i, h \in DOMAIN e.rows : e.rows[i] = e.rows[h] => i = h BY Zenon, <1>1 DEF Agrees
    <2> QED BY ONLY <2>1, j \in DOMAIN e.rows, e.rows[j] = r, LocalRowIs, Zenon
  <1>3. Retargeted(e, r, m0) = g
    BY Zenon, <1>2 DEF Retargeted, WithMarket
  <1>4. e.kind[j] = "log" \/ e.band[j] = b
    BY Zenon, <1>1 DEF Agrees
  <1>5. Rebanded(lv, lw, e.rows[j], b)
    BY Zenon
  <1> HIDE DEF b
  <1>6. CASE IsCompiled(e, lv)
    <2>0. IsCompiledRecord(e) /\ (~e.dirty => ListFits(e)) /\ (\E n \in Nat : DOMAIN e.deadJ = 1..n) /\ e.of = "compiled"
      BY Zenon, <1>6 DEF IsCompiled, IsCompiledRecord
    <2>1. /\ IsCompiledRecord(g) /\ g.of = "compiled" /\ g.rows = e.rows /\ g.kind = e.kind /\ g.data = e.data
          /\ DOMAIN g.market = DOMAIN e.market /\ g.band = e.band
          /\ g.maps = e.maps /\ g.pos = e.pos /\ g.dirty = e.dirty /\ g.deadJ = e.deadJ
      BY Zenon, <2>0 DEF IsCompiledRecord
    <2> HIDE DEF g
    <2>2. RequotedFrom(e, g, j, b) BY Zenon, <1>4, <2>1 DEF RequotedFrom
    <2>3. Agrees(g, lw) BY Zenon, <1>1, <1>5, <2>2, AgreesAfter
    <2>4. Locals(g) = Locals(e) /\ \A i : (Mapped(g, i) <=> Mapped(e, i)) /\ RowMap(g, i) = RowMap(e, i)
      BY Zenon, <2>1 DEF Locals, Mapped, RowMap
    <2>5. ~g.dirty => ListFits(g)
      <3>1. SameMaps(e, g) BY Zenon, <2>1, <2>4 DEF SameMaps
      <3> QED BY Zenon, <2>0, <2>1, <2>4, <3>1, ListKept
    <2> QED BY Zenon, <1>3, <2>0, <2>1, <2>3, <2>5 DEF IsEngine, IsCompiled, g
  <1>7. CASE IsBlockEngine(e, lv)
    <2>1. e.of = "aad" /\ IsBlockRecord(e) BY Zenon, <1>7 DEF IsBlockEngine, IsBlockRecord
    <2>3. /\ IsBlockRecord(g) /\ g.of = "aad" /\ g.rows = e.rows /\ g.kind = e.kind /\ g.data = e.data
          /\ DOMAIN g.market = DOMAIN e.market /\ g.band = e.band /\ g.block = e.block
      BY Zenon, <2>1 DEF IsBlockRecord
    <2> HIDE DEF g
    <2>4. RequotedFrom(e, g, j, b) BY Zenon, <1>4, <2>3 DEF RequotedFrom
    <2>6. Agrees(g, lw) BY Zenon, <1>1, <1>5, <2>4, AgreesAfter
    <2>7. IsBlock(g.block, RowsOf(g.rows)) BY Zenon, <1>7, <2>3 DEF IsBlockEngine
    <2> QED BY Zenon, <1>3, <2>1, <2>3, <2>6, <2>7 DEF IsEngine, IsBlockEngine, g
  <1> QED BY Zenon, <1>6, <1>7 DEF IsEngine

\* The list of engines after the owner of a row took its quote.
LEMMA OwnerTakes ==
    ASSUME NEW es, NEW lv, NEW lw, EnginesFit(es, lv), NEW k \in DOMAIN es, NEW j \in DOMAIN es[k].rows,
           NEW b, Rebanded(lv, lw, es[k].rows[j], b),
           NEW g, IsEngine(g, lw), g.rows = es[k].rows, g.of = es[k].of
    PROVE  EnginesFit([es EXCEPT ![k] = g], lw)
  <1> DEFINE fs == [es EXCEPT ![k] = g]
  <1>1. DOMAIN fs = DOMAIN es
    BY Zenon
  <1>2. ASSUME NEW h \in DOMAIN es
        PROVE  fs[h].rows = es[h].rows /\ fs[h].of = es[h].of /\ IsEngine(fs[h], lw)
    <2>1. CASE h = k BY Zenon, <2>1
    <2>2. CASE h # k
      <3>1. fs[h] = es[h] BY Zenon, <2>2
      <3>2. IsEngine(es[h], lv) BY Zenon DEF EnginesFit
      <3>3. ASSUME NEW i \in DOMAIN es[h].rows, es[h].rows[i] = es[k].rows[j] PROVE FALSE
        <4>1. h = k BY ONLY EnginesFit(es, lv), k \in DOMAIN es, j \in DOMAIN es[k].rows, h \in DOMAIN es, <3>3, ListedOnce, Zenon
        <4> QED BY Zenon, <2>2, <4>1
      <3>4. \A i \in DOMAIN es[h].rows : es[h].rows[i] # es[k].rows[j] BY Zenon, <3>3
      <3>5. IsEngine(es[h], lw)
        BY ONLY Rebanded(lv, lw, es[k].rows[j], b), <3>2, <3>4, OthersAgree, Zenon
      <3> QED BY Zenon, <3>1, <3>5
    <2> QED BY Zenon, <2>1, <2>2
  <1> HIDE DEF fs
  <1>3. EnginesFit(fs, lw)
    BY ONLY EnginesFit(es, lv), <1>1, <1>2, EnginesSame, Zenon
  <1> QED BY Zenon, <1>3 DEF fs

----------------------------------------------------------------------------
(* What a row's map answers, in whichever form the list keeps it. *)

IsQuoteBand(b) == b \in [lo : Int, up : Int, dc : 0..Unit]

LEMMA NoPieces ==
    ASSUME NEW f, f.n = 0, NEW v, NEW t0
    PROVE  TargetPiece(f, t0) = 0 /\ PieceOf(f, v, 0) = 0
  <1>0. f.n - 1 = -1 /\ 0 - 1 = -1 /\ ~(0 < f.n) /\ 0..-1 = {}
    BY SMT
  <1>1. Cardinality({}) = 0
    BY FS_EmptySet
  <1>2. {j \in 0..f.n-1 : f.b[j] < t0} = {}
    BY Zenon, <1>0
  <1>3. TargetPiece(f, t0) = 0
    <2>1. Cardinality({j \in 0..f.n-1 : f.b[j] < t0}) = 0 BY Zenon, <1>1, <1>2
    <2> QED BY Zenon, <1>0, <2>1 DEF TargetPiece
  <1>4. {j \in 0..0-1 : v < f.b[j]} = {} /\ {j \in 0..f.n-1 : v > f.b[j]} = {}
    BY Zenon, <1>0
  <1>5. PieceOf(f, v, 0) = 0 - 0 + 0
    BY Zenon, <1>1, <1>4 DEF PieceOf
  <1> QED BY <1>3, <1>5

LEMMA PlainResidual ==
    ASSUME NEW f, f.n = 0, f.s[0] = Unit, NEW v \in Int, NEW t0 \in Int
    PROVE  Residual(f, v, t0) = Unit * (v - t0) /\ SlopeAt(f, v, t0) = Unit
  <1>1. TargetPiece(f, t0) = 0 /\ PieceOf(f, v, 0) = 0
    BY ONLY f.n = 0, NoPieces
  <1>2. Residual(f, v, t0) = (v - t0) * f.s[0]
    BY Zenon, <1>1 DEF Residual
  <1>3. (v - t0) * Unit = Unit * (v - t0)
    BY SMT, UnitAssumption
  <1> QED BY Zenon, <1>1, <1>2, <1>3 DEF SlopeAt

LEMMA BandFields ==
    ASSUME NEW b, IsQuoteBand(b), NEW f, f = BandMap(b)
    PROVE  /\ f.n = 2 /\ f.b[0] = b.lo /\ f.b[1] = b.up
           /\ f.s[0] = Unit /\ f.s[1] = b.dc /\ f.s[2] = Unit
           /\ f.b[0] \in Int /\ f.b[1] \in Int /\ f.s[1] \in 0..Unit /\ Unit \in Nat
           /\ f.b[0] < f.b[1] => IsMap(f)
  <1>1. PICK lo \in Int, up \in Int, dc \in 0..Unit : lo = b.lo /\ up = b.up /\ dc = b.dc
    BY Zenon DEF IsQuoteBand
  <1>2. /\ f.n = 2 /\ f.b = [j \in 0..1 |-> IF j = 0 THEN lo ELSE up]
        /\ f.s = [i \in 0..2 |-> IF i = 1 THEN dc ELSE Unit]
    BY Zenon, <1>1 DEF BandMap, Band
  <1>3. Unit \in Nat /\ dc \in Nat
    BY UnitAssumption
  <1>4. 0 \in 0..1 /\ 1 \in 0..1 /\ 0 \in 0..2 /\ 1 \in 0..2 /\ 2 \in 0..2 /\ 1 # 0 /\ 0 # 1 /\ 2 # 1 /\ 2 - 1 = 1
    BY SMT
  <1>5. f.b[0] = lo /\ f.b[1] = up /\ f.s[0] = Unit /\ f.s[1] = dc /\ f.s[2] = Unit
    BY Zenon, <1>2, <1>4
  <1>6. ASSUME f.b[0] < f.b[1] PROVE IsMap(f)
    <2>1. f.n \in Nat /\ f.n - 1 = 1 BY <1>2
    <2>2. f.b \in [0..1 -> Int]
      <3>1. [j \in 0..1 |-> IF j = 0 THEN lo ELSE up] \in [0..1 -> Int] BY SMT
      <3> QED BY Zenon, <1>2, <3>1
    <2>3. f.s \in [0..2 -> Nat] BY Zenon, <1>2, <1>3
    <2>4. \A j \in 1..1 : j = 1 /\ j - 1 = 0 BY SMT
    <2>5. \A j \in 1..f.n-1 : f.b[j-1] < f.b[j] BY Zenon, <1>6, <2>1, <2>4
    <2> QED BY Zenon, <1>2, <2>1, <2>2, <2>3, <2>5 DEF IsMap
  <1> QED BY Zenon, <1>1, <1>2, <1>3, <1>5, <1>6

\* The residual of a map of two breakpoints, from either piece a target inside can be in.
LEMMA WalkOfTwo ==
    ASSUME NEW f, IsMap(f), f.n = 2, NEW v \in Int, NEW t0 \in Int,
           NEW t \in {0, 1}, t = TargetPiece(f, t0)
    PROVE  /\ PieceOf(f, v, t) \in 0..2 /\ SlopeAt(f, v, t0) = f.s[PieceOf(f, v, t)]
           /\ t = 0 => Residual(f, v, t0) =
                 IF PieceOf(f, v, t) = 0 THEN (v - t0) * f.s[0]
                 ELSE IF PieceOf(f, v, t) = 1 THEN (f.b[0] - t0) * f.s[0] + (v - f.b[0]) * f.s[1]
                 ELSE (f.b[0] - t0) * f.s[0] + (f.b[1] - f.b[0]) * f.s[1] + (v - f.b[1]) * f.s[2]
           /\ t = 1 => Residual(f, v, t0) =
                 IF PieceOf(f, v, t) = 1 THEN (v - t0) * f.s[1]
                 ELSE IF PieceOf(f, v, t) = 0 THEN (f.b[0] - t0) * f.s[1] + (v - f.b[0]) * f.s[0]
                 ELSE (f.b[1] - t0) * f.s[1] + (v - f.b[1]) * f.s[2]
  <1>0. t \in 0..f.n /\ 2 - 1 = 1 /\ 0 \in 0..1 /\ 1 \in 0..1 /\ 1 - 1 = 0
    BY SMT
  <1>1. PieceOf(f, v, t) \in 0..2
    BY Zenon, <1>0, PiecesInRange
  <1>2. SlopeAt(f, v, t0) = f.s[PieceOf(f, v, t)]
    BY Zenon DEF SlopeAt
  <1> DEFINE A == AtBreak(f, t0, t)
             i == PieceOf(f, v, t)
  <1>3. Residual(f, v, t0) = IF i = t THEN (v - t0) * f.s[i]
                             ELSE A[NearBreak(i, t)] + (v - f.b[NearBreak(i, t)]) * f.s[i]
    BY Zenon DEF Residual
  <1>4. WalksFrom(f, t0, t, A)
    BY Zenon, <1>0, AtBreakWalks
  <1> HIDE DEF A, i
  <1>4a. \A j \in 0..f.n-1 :
            A[j] = IF j >= t THEN IF j = t THEN (f.b[t] - t0) * f.s[t] ELSE A[j-1] + (f.b[j] - f.b[j-1]) * f.s[j]
                   ELSE IF j = t - 1 THEN (f.b[t-1] - t0) * f.s[t] ELSE A[j+1] + (f.b[j] - f.b[j+1]) * f.s[j+1]
    BY Zenon, <1>4 DEF WalksFrom
  <1>5. i = 0 \/ i = 1 \/ i = 2
    BY <1>1 DEF i
  <1>6. ASSUME t = 0
        PROVE  /\ A[0] = (f.b[0] - t0) * f.s[0] /\ A[1] = A[0] + (f.b[1] - f.b[0]) * f.s[1]
               /\ NearBreak(1, t) = 0 /\ NearBreak(2, t) = 1
    <2>1. 0 >= 0 /\ 1 >= 0 /\ 1 # 0 /\ 1 > 0 /\ 2 > 0 BY SMT
    <2>2. A[0] = (f.b[0] - t0) * f.s[0] BY Zenon, <1>0, <1>4a, <1>6, <2>1
    <2>3. A[1] = A[0] + (f.b[1] - f.b[0]) * f.s[1] BY Zenon, <1>0, <1>4a, <1>6, <2>1
    <2>4. NearBreak(1, t) = 0 /\ NearBreak(2, t) = 1 BY Zenon, <1>0, <1>6, <2>1 DEF NearBreak
    <2> QED BY Zenon, <2>2, <2>3, <2>4
  <1>7. ASSUME t = 1
        PROVE  /\ A[0] = (f.b[0] - t0) * f.s[1] /\ A[1] = (f.b[1] - t0) * f.s[1]
               /\ NearBreak(0, t) = 0 /\ NearBreak(2, t) = 1
    <2>1. ~(0 >= 1) /\ 1 >= 1 /\ ~(0 > 1) /\ 2 > 1 BY SMT
    <2>2. A[1] = (f.b[1] - t0) * f.s[1] BY Zenon, <1>0, <1>4a, <1>7, <2>1
    <2>3. A[0] = (f.b[0] - t0) * f.s[1] BY Zenon, <1>0, <1>4a, <1>7, <2>1
    <2>4. NearBreak(0, t) = 0 /\ NearBreak(2, t) = 1 BY Zenon, <1>0, <1>7, <2>1 DEF NearBreak
    <2> QED BY Zenon, <2>2, <2>3, <2>4
  <1>8. 0 # 1 /\ 0 # 2 /\ 1 # 2 /\ 1 # 0 /\ 2 # 0 /\ 2 # 1
    BY SMT
  <1>9. ASSUME t = 0
        PROVE  Residual(f, v, t0) =
                 IF i = 0 THEN (v - t0) * f.s[0]
                 ELSE IF i = 1 THEN (f.b[0] - t0) * f.s[0] + (v - f.b[0]) * f.s[1]
                 ELSE (f.b[0] - t0) * f.s[0] + (f.b[1] - f.b[0]) * f.s[1] + (v - f.b[1]) * f.s[2]
    BY Zenon, <1>3, <1>5, <1>6, <1>8, <1>9
  <1>10. ASSUME t = 1
        PROVE  Residual(f, v, t0) =
                 IF i = 1 THEN (v - t0) * f.s[1]
                 ELSE IF i = 0 THEN (f.b[0] - t0) * f.s[1] + (v - f.b[0]) * f.s[0]
                 ELSE (f.b[1] - t0) * f.s[1] + (v - f.b[1]) * f.s[2]
    BY Zenon, <1>3, <1>5, <1>7, <1>8, <1>10
  <1> QED BY Zenon, <1>1, <1>2, <1>9, <1>10 DEF i

\* A target inside a band is in the piece below it or in the band's own.
LEMMA TargetOfBand ==
    ASSUME NEW f, IsMap(f), f.n = 2, NEW t0 \in Int, f.b[0] \in Int, f.b[1] \in Int, f.b[0] <= t0, t0 <= f.b[1],
           f.s[0] = Unit, f.s[2] = Unit, f.s[1] \in 0..Unit
    PROVE  TargetPiece(f, t0) = 1 \/ (f.s[1] = Unit /\ TargetPiece(f, t0) \in {0, 1})
  <1>0. Unit \in Nat /\ f.s[1] \in Int
    BY UnitAssumption
  <1>1. CASE f.s[1] < Unit
    BY Zenon, <1>1, InsideIsTheTarget
  <1>2. CASE ~(f.s[1] < Unit)
    <2>1. f.s[1] = Unit BY SMT, <1>0, <1>2
    <2> DEFINE A == {j \in 0..f.n-1 : f.b[j] < t0}
    <2>2. A \in SUBSET {0}
      <3>1. \A j \in 0..f.n-1 : j = 0 \/ j = 1 BY SMT
      <3>2. ~(f.b[1] < t0) BY SMT
      <3> QED BY Zenon, <3>1, <3>2
    <2>3. Cardinality(A) = 0 \/ Cardinality(A) = 1
      <3>1. A = {} \/ A = {0} BY Zenon, <2>2
      <3>2. Cardinality({}) = 0 /\ Cardinality({0}) = 1 BY FS_EmptySet, FS_Singleton
      <3> QED BY Zenon, <3>1, <3>2
    <2>4. TargetPiece(f, t0) = LET below == Cardinality(A) IN
              IF below < f.n /\ f.b[below] = t0 /\ f.s[below + 1] < f.s[below] THEN below + 1 ELSE below
      BY Zenon DEF TargetPiece
    <2> HIDE DEF A
    <2>5. ~(f.s[0 + 1] < f.s[0]) /\ ~(f.s[1 + 1] < f.s[1])
      <3>1. 0 + 1 = 1 /\ 1 + 1 = 2 /\ ~(Unit < Unit) BY SMT, <1>0
      <3> QED BY Zenon, <2>1, <3>1
    <2>6. TargetPiece(f, t0) = Cardinality(A) BY Zenon, <2>3, <2>4, <2>5
    <2> QED BY Zenon, <2>1, <2>3, <2>6
  <1> QED BY Zenon, <1>1, <1>2

\* The two-edge view of a band is its map.
LEMMA EdgesAreTheMap ==
    ASSUME NEW b, IsQuoteBand(b), IsBand(b), NEW v \in Int, NEW t0 \in Int, b.lo <= t0, t0 <= b.up
    PROVE  TwoEdge(BandMap(b), v, t0) = [r |-> Residual(BandMap(b), v, t0), slope |-> SlopeAt(BandMap(b), v, t0)]
  <1>1. PICK f : f = BandMap(b)
    BY Zenon
  <1>2. /\ f.n = 2 /\ f.b[0] = b.lo /\ f.b[1] = b.up
        /\ f.s[0] = Unit /\ f.s[1] = b.dc /\ f.s[2] = Unit
        /\ f.b[0] \in Int /\ f.b[1] \in Int /\ f.s[1] \in 0..Unit /\ Unit \in Nat
        /\ f.b[0] < f.b[1] => IsMap(f)
    BY ONLY <1>1, IsQuoteBand(b), BandFields, Zenon
  <1>3. PICK lo \in Int, hi \in Int, dc \in 0..Unit : lo = f.b[0] /\ hi = f.b[1] /\ dc = f.s[1]
    BY Zenon, <1>2
  <1>4. lo < hi /\ lo <= t0 /\ t0 <= hi
    <2>1. b.up > b.lo BY Zenon DEF IsBand
    <2>2. hi > lo BY Zenon, <1>2, <1>3, <2>1
    <2>3. lo < hi BY SMT, <2>2
    <2> QED BY Zenon, <1>2, <1>3, <2>3
  <1>5. IsMap(f) BY Zenon, <1>2, <1>3, <1>4
  <1>6. PICK t : t = TargetPiece(f, t0)
    BY Zenon
  <1>7. t = 1 \/ (dc = Unit /\ t \in {0, 1})
    <2>1. /\ f.n = 2 /\ f.b[0] \in Int /\ f.b[1] \in Int /\ f.b[0] <= t0 /\ t0 <= f.b[1]
          /\ f.s[0] = Unit /\ f.s[2] = Unit /\ f.s[1] \in 0..Unit
      BY Zenon, <1>2, <1>3, <1>4
    <2>2. TargetPiece(f, t0) = 1 \/ (f.s[1] = Unit /\ TargetPiece(f, t0) \in {0, 1})
      BY ONLY <1>5, <2>1, t0 \in Int, TargetOfBand
    <2> QED BY Zenon, <1>3, <1>6, <2>2
  <1>8. t \in {0, 1}
    BY Zenon, <1>7
  <1>9. PICK i : i = PieceOf(f, v, t)
    BY Zenon
  <1>10. /\ i \in 0..2 /\ SlopeAt(f, v, t0) = f.s[i]
         /\ t = 0 => Residual(f, v, t0) =
               IF i = 0 THEN (v - t0) * f.s[0]
               ELSE IF i = 1 THEN (f.b[0] - t0) * f.s[0] + (v - f.b[0]) * f.s[1]
               ELSE (f.b[0] - t0) * f.s[0] + (f.b[1] - f.b[0]) * f.s[1] + (v - f.b[1]) * f.s[2]
         /\ t = 1 => Residual(f, v, t0) =
               IF i = 1 THEN (v - t0) * f.s[1]
               ELSE IF i = 0 THEN (f.b[0] - t0) * f.s[1] + (v - f.b[0]) * f.s[0]
               ELSE (f.b[1] - t0) * f.s[1] + (v - f.b[1]) * f.s[2]
    <2>1. f.n = 2 BY Zenon, <1>2
    <2> QED BY ONLY <1>5, <1>6, <1>8, <1>9, <2>1, v \in Int, t0 \in Int, WalkOfTwo, ZenonT(60)
  <1>11. PICK R : R = Residual(f, v, t0)
    BY Zenon
  <1>12. TwoEdge(f, v, t0) =
            IF v > hi THEN [r |-> (hi - t0) * dc + Unit * (v - hi), slope |-> Unit]
            ELSE IF v < lo THEN [r |-> (lo - t0) * dc + Unit * (v - lo), slope |-> Unit]
            ELSE [r |-> dc * (v - t0), slope |-> dc]
    BY Zenon, <1>2, <1>3 DEF TwoEdge
  <1>13. CASE t = 1
    <2>0. TargetIn(f, t0, t)
      <3>1. \A j \in 0..f.n-1 : j = 0 \/ j = 1 BY SMT, <1>2
      <3>2. 0 < 1 /\ ~(1 < 1) BY SMT
      <3>3. t \in 0..f.n BY SMT, <1>2, <1>13
      <3> QED BY Zenon, <1>3, <1>4, <1>13, <3>1, <3>2, <3>3 DEF TargetIn
    <2>1. /\ \A j \in 1..1 : v > f.b[j] <=> j < i
          /\ \A j \in 0..0 : v < f.b[j] <=> j >= i
      <3>1. /\ \A j \in t..f.n-1 : v > f.b[j] <=> j < PieceOf(f, v, t)
            /\ \A j \in 0..t-1 : v < f.b[j] <=> j >= PieceOf(f, v, t)
        BY Zenon, <1>5, <2>0, PiecePassesBreaks
      <3>2. t..f.n-1 = 1..1 /\ 0..t-1 = 0..0 BY SMT, <1>2, <1>13
      <3> QED BY Zenon, <1>9, <3>1, <3>2
    <2>2. (v > hi <=> i = 2) /\ (v < lo <=> i = 0)
      <3>1. 1 \in 1..1 /\ 0 \in 0..0 BY SMT
      <3>2. (v > hi <=> 1 < i) /\ (v < lo <=> 0 >= i) BY Zenon, <1>3, <2>1, <3>1
      <3> QED BY SMT, <1>10, <3>2
    <2>3. R = IF i = 1 THEN (v - t0) * dc
              ELSE IF i = 0 THEN (lo - t0) * dc + (v - lo) * Unit
              ELSE (hi - t0) * dc + (v - hi) * Unit
      BY Zenon, <1>2, <1>3, <1>10, <1>11, <1>13
    <2>4. /\ (v - t0) * dc = dc * (v - t0)
          /\ (v - lo) * Unit = Unit * (v - lo) /\ (v - hi) * Unit = Unit * (v - hi)
      BY SMT, <1>2
    <2>5. ~(2 = 1) /\ ~(2 = 0) /\ ~(0 = 1) /\ (i = 0 \/ i = 1 \/ i = 2) BY SMT, <1>10
    <2>6. ~(hi < lo) /\ (v > hi => ~(v < lo)) BY SMT, <1>4
    <2>7. CASE i = 2 BY Zenon, <1>1, <1>2, <1>10, <1>11, <1>12, <2>2, <2>3, <2>4, <2>5, <2>7
    <2>8. CASE i = 0 BY Zenon, <1>1, <1>2, <1>10, <1>11, <1>12, <2>2, <2>3, <2>4, <2>5, <2>6, <2>8
    <2>9. CASE i = 1 BY Zenon, <1>1, <1>2, <1>3, <1>10, <1>11, <1>12, <2>2, <2>3, <2>4, <2>5, <2>9
    <2> QED BY Zenon, <2>5, <2>7, <2>8, <2>9
  <1>14. CASE dc = Unit
    <2>1. R = Unit * (v - t0)
      <3>1. R = IF i = t THEN (v - t0) * Unit
                ELSE IF t = 0 THEN (IF i = 1 THEN (lo - t0) * Unit + (v - lo) * Unit
                                    ELSE (lo - t0) * Unit + (hi - lo) * Unit + (v - hi) * Unit)
                ELSE IF i = 0 THEN (lo - t0) * Unit + (v - lo) * Unit
                ELSE (hi - t0) * Unit + (v - hi) * Unit
        <4>1. CASE t = 0
          <5>1. R = IF i = 0 THEN (v - t0) * Unit
               ELSE IF i = 1 THEN (lo - t0) * Unit + (v - lo) * Unit
               ELSE (lo - t0) * Unit + (hi - lo) * Unit + (v - hi) * Unit
            BY Zenon, <1>2, <1>3, <1>10, <1>11, <1>14, <4>1
          <5> QED BY Zenon, <4>1, <5>1
        <4>2. CASE t = 1
          <5>1. R = IF i = 1 THEN (v - t0) * Unit
               ELSE IF i = 0 THEN (lo - t0) * Unit + (v - lo) * Unit
               ELSE (hi - t0) * Unit + (v - hi) * Unit
            BY Zenon, <1>2, <1>3, <1>10, <1>11, <1>14, <4>2
          <5>2. 1 # 0 BY SMT
          <5> QED BY Zenon, <4>2, <5>1, <5>2
        <4> QED BY Zenon, <1>8, <4>1, <4>2
      <3>2. /\ (v - t0) * Unit = Unit * (v - t0)
            /\ (lo - t0) * Unit + (v - lo) * Unit = Unit * (v - t0)
            /\ (lo - t0) * Unit + (hi - lo) * Unit + (v - hi) * Unit = Unit * (v - t0)
            /\ (hi - t0) * Unit + (v - hi) * Unit = Unit * (v - t0)
        BY SMT, <1>2
      <3> QED BY Zenon, <3>1, <3>2
    <2>2. SlopeAt(f, v, t0) = Unit
      <3>1. i = 0 \/ i = 1 \/ i = 2 BY SMT, <1>10
      <3> QED BY Zenon, <1>2, <1>3, <1>10, <1>14, <3>1
    <2>3. /\ (hi - t0) * Unit + Unit * (v - hi) = Unit * (v - t0)
          /\ (lo - t0) * Unit + Unit * (v - lo) = Unit * (v - t0)
      BY SMT, <1>2
    <2>4. TwoEdge(f, v, t0) = [r |-> Unit * (v - t0), slope |-> Unit]
      BY Zenon, <1>12, <1>14, <2>3
    <2> QED BY Zenon, <1>1, <1>11, <2>1, <2>2, <2>4
  <1> QED BY Zenon, <1>7, <1>13, <1>14

\* The target of a banded row is in its band.
Answerable(kind, b, t0) == kind = "quote" /\ IsBand(b) => IsQuoteBand(b) /\ b.lo <= t0 /\ t0 <= b.up
Kinds == {"quote", "data", "log"}

LEMMA ByMapIs ==
    ASSUME NEW e, NEW j, e.kind[j] \in Kinds, Mapped(e, j), NEW v \in Int, NEW t0 \in Int,
           Answerable(e.kind[j], e.band[j], t0)
    PROVE  ByMap(RowMap(e, j), v, t0) = ByInstrument(e.kind[j], e.data[j], e.band[j], v, t0)
  <1>0. "log" # "data" /\ "log" # "quote" /\ "data" # "quote" /\ "log" # "general" /\ "log" # "edges" /\ "general" # "edges"
    OBVIOUS
  <1>1. /\ RowMap(e, j).shape = IF e.kind[j] = "log" THEN "log" ELSE IF e.kind[j] = "data" THEN "general" ELSE "edges"
        /\ RowMap(e, j).f = Penalty(e.kind[j], e.data[j], e.band[j])
    BY Zenon DEF RowMap
  <1>2. CASE e.kind[j] = "log"
    <2>1. ByMap(RowMap(e, j), v, t0) = [r |-> Unit * (v - t0), slope |-> Unit] BY Zenon, <1>1, <1>2 DEF ByMap
    <2>2. ByInstrument(e.kind[j], e.data[j], e.band[j], v, t0) = [r |-> Unit * (v - t0), slope |-> Unit]
      BY Zenon, <1>2 DEF ByInstrument
    <2> QED BY Zenon, <2>1, <2>2
  <1>3. CASE e.kind[j] = "data"
    <2>1. PICK f : f = Penalty(e.kind[j], e.data[j], e.band[j]) BY Zenon
    <2>2. ByMap(RowMap(e, j), v, t0) = [r |-> Residual(f, v, t0), slope |-> SlopeAt(f, v, t0)]
      BY Zenon, <1>0, <1>1, <1>3, <2>1 DEF ByMap
    <2>3. ByInstrument(e.kind[j], e.data[j], e.band[j], v, t0) = [r |-> Residual(f, v, t0), slope |-> SlopeAt(f, v, t0)]
      BY Zenon, <1>0, <1>3, <2>1 DEF ByInstrument
    <2> QED BY Zenon, <2>2, <2>3
  <1>4. CASE e.kind[j] = "quote"
    <2>1. PICK b : b = e.band[j] BY Zenon
    <2>2. IsBand(b) BY Zenon, <1>0, <1>4, <2>1 DEF Mapped
    <2>3. IsQuoteBand(b) /\ b.lo <= t0 /\ t0 <= b.up BY Zenon, <1>4, <2>1, <2>2 DEF Answerable
    <2>4. Penalty(e.kind[j], e.data[j], e.band[j]) = BandMap(b) BY Zenon, <1>0, <1>4, <2>1, <2>2 DEF Penalty
    <2>5. ByMap(RowMap(e, j), v, t0) = TwoEdge(BandMap(b), v, t0) BY Zenon, <1>0, <1>1, <1>4, <2>4 DEF ByMap
    <2>6. ByInstrument(e.kind[j], e.data[j], e.band[j], v, t0)
             = [r |-> Residual(BandMap(b), v, t0), slope |-> SlopeAt(BandMap(b), v, t0)]
      BY Zenon, <1>0, <1>4, <2>4 DEF ByInstrument
    <2>7. TwoEdge(BandMap(b), v, t0) = [r |-> Residual(BandMap(b), v, t0), slope |-> SlopeAt(BandMap(b), v, t0)]
      BY ONLY <2>2, <2>3, v \in Int, t0 \in Int, EdgesAreTheMap
    <2> QED BY Zenon, <2>5, <2>6, <2>7
  <1> QED BY Zenon, <1>2, <1>3, <1>4 DEF Kinds

LEMMA PlainByInstrument ==
    ASSUME NEW e, NEW j, e.kind[j] \in Kinds, ~Mapped(e, j), NEW v \in Int, NEW t0 \in Int
    PROVE  ByInstrument(e.kind[j], e.data[j], e.band[j], v, t0) = [r |-> Unit * (v - t0), slope |-> Unit]
  <1>0. "log" # "data" /\ "log" # "quote" /\ "data" # "quote"
    OBVIOUS
  <1>1. e.kind[j] # "log"
    BY Zenon DEF Mapped
  <1>2. PICK f : f = Penalty(e.kind[j], e.data[j], e.band[j])
    BY Zenon
  <1>3. f.n = 0 /\ f.s[0] = Unit
    <2>1. CASE e.kind[j] = "data"
      <3>1. f = e.data[j] BY Zenon, <1>2, <2>1 DEF Penalty
      <3>2. IsPlain(e.data[j]) BY Zenon, <2>1 DEF Mapped
      <3> QED BY Zenon, <3>1, <3>2 DEF IsPlain
    <2>2. CASE e.kind[j] = "quote"
      <3>1. ~IsBand(e.band[j]) BY Zenon, <2>2 DEF Mapped
      <3>2. f = PlainMap BY Zenon, <1>0, <1>2, <2>2, <3>1 DEF Penalty
      <3>3. PlainMap.n = 0 /\ PlainMap.s[0] = Unit BY Zenon DEF PlainMap
      <3> QED BY Zenon, <3>2, <3>3
    <2> QED BY Zenon, <1>1, <2>1, <2>2 DEF Kinds
  <1>4. Residual(f, v, t0) = Unit * (v - t0) /\ SlopeAt(f, v, t0) = Unit
    BY ONLY <1>3, v \in Int, t0 \in Int, PlainResidual
  <1> QED BY Zenon, <1>1, <1>2, <1>4 DEF ByInstrument

LEMMA KindsAre ==
    ASSUME problem \in Problems, NEW e, NEW lv, Agrees(e, lv), NEW j \in Locals(e)
    PROVE  e.kind[j] \in Kinds
  <1>1. e.rows[j] \in Rows
    BY Zenon, LocalsAre
  <1>2. e.kind[j] = problem.rows[e.rows[j]].kind
    BY Zenon DEF Agrees, Locals
  <1> QED BY Zenon, <1>1, <1>2, RowsTyped DEF Kinds

\* The maps of a list that fits: one for every mapped row.
LEMMA MapsOnIs ==
    ASSUME NEW e, NEW lv, Agrees(e, lv), ListFits(e), NEW j \in Locals(e)
    PROVE  /\ Mapped(e, j) => MapsOn(e, j) = {e.pos[j]} /\ e.maps[e.pos[j]] = RowMap(e, j)
           /\ ~Mapped(e, j) => MapsOn(e, j) = {}
  <1>1. DOMAIN e.maps = {e.pos[i] : i \in {h \in Locals(e) : Mapped(e, h)}}
    BY Zenon DEF ListFits
  <1>2. ASSUME NEW i \in Locals(e), Mapped(e, i) PROVE e.maps[e.pos[i]] = RowMap(e, i) /\ e.maps[e.pos[i]].row = i
    <2>1. e.maps[e.pos[i]] = RowMap(e, i) BY Zenon, <1>2 DEF ListFits
    <2>2. RowMap(e, i).row = i BY Zenon DEF RowMap
    <2> QED BY Zenon, <2>1, <2>2
  <1>3. ASSUME NEW k \in MapsOn(e, j) PROVE Mapped(e, j) /\ k = e.pos[j]
    <2>1. k \in DOMAIN e.maps /\ e.maps[k].row = j BY Zenon DEF MapsOn
    <2>2. PICK i \in Locals(e) : Mapped(e, i) /\ k = e.pos[i] BY Zenon, <1>1, <2>1
    <2>3. i = j BY Zenon, <1>2, <2>1, <2>2
    <2> QED BY Zenon, <2>2, <2>3
  <1>4. ASSUME Mapped(e, j) PROVE e.pos[j] \in MapsOn(e, j)
    <2>1. e.pos[j] \in DOMAIN e.maps BY Zenon, <1>1, <1>4
    <2>2. e.maps[e.pos[j]].row = j BY Zenon, <1>2, <1>4
    <2> QED BY Zenon, <2>1, <2>2 DEF MapsOn
  <1> QED BY Zenon, <1>2, <1>3, <1>4

\* residuals_from(), and jacobian_core()'s slopes, of the compiled engine's rows.
LEMMA EvaluateIs ==
    ASSUME problem \in Problems, NEW e, NEW lv, Agrees(e, lv), ListFits(e), NEW v, NEW q0, NEW j \in Locals(e),
           v[j] \in Int, q0[j] \in Int, Answerable(e.kind[j], e.band[j], q0[j])
    PROVE  Evaluate(e, v, q0)[j] = ByInstrument(e.kind[j], e.data[j], e.band[j], v[j], q0[j])
  <1>1. e.kind[j] \in Kinds
    BY Zenon, KindsAre
  <1>2. Evaluate(e, v, q0)[j] = IF MapsOn(e, j) = {} THEN [r |-> Unit * (v[j] - q0[j]), slope |-> Unit]
                                ELSE ByMap(e.maps[CHOOSE k \in MapsOn(e, j) : TRUE], v[j], q0[j])
    BY Zenon DEF Evaluate
  <1>3. PICK a \in Int, t0 \in Int : a = v[j] /\ t0 = q0[j]
    BY Zenon
  <1>4. CASE Mapped(e, j)
    <2>1. MapsOn(e, j) = {e.pos[j]} /\ e.maps[e.pos[j]] = RowMap(e, j) BY Zenon, <1>4, MapsOnIs
    <2>2. (CHOOSE k \in {e.pos[j]} : TRUE) = e.pos[j] BY Zenon
    <2>3. {e.pos[j]} # {} BY Zenon
    <2>4. Evaluate(e, v, q0)[j] = ByMap(RowMap(e, j), a, t0) BY Zenon, <1>2, <1>3, <2>1, <2>2, <2>3
    <2>5. Answerable(e.kind[j], e.band[j], t0) BY Zenon, <1>3
    <2>6. ByMap(RowMap(e, j), a, t0) = ByInstrument(e.kind[j], e.data[j], e.band[j], a, t0)
      BY ONLY <1>1, <1>4, <2>5, a \in Int, t0 \in Int, ByMapIs, Zenon
    <2> QED BY Zenon, <1>3, <2>4, <2>6
  <1>5. CASE ~Mapped(e, j)
    <2>1. MapsOn(e, j) = {} BY Zenon, <1>5, MapsOnIs
    <2>2. ByInstrument(e.kind[j], e.data[j], e.band[j], a, t0) = [r |-> Unit * (a - t0), slope |-> Unit]
      BY ONLY <1>1, <1>5, a \in Int, t0 \in Int, PlainByInstrument, ZenonT(60)
    <2> QED BY Zenon, <1>2, <1>3, <2>1, <2>2
  <1> QED BY Zenon, <1>4, <1>5

----------------------------------------------------------------------------
(* The dead rows of a Jacobian pass. *)

Answers(e, v, q0) == \A j \in Locals(e) : v[j] \in Int /\ q0[j] \in Int /\ Answerable(e.kind[j], e.band[j], q0[j])
FlatRows(e, v, q0) == {j \in Locals(e) : ByInstrument(e.kind[j], e.data[j], e.band[j], v[j], q0[j]).slope = 0}
FlatMaps(e, v, q0) == {k \in DOMAIN e.maps : ByMap(e.maps[k], v[e.maps[k].row], q0[e.maps[k].row]).slope = 0}

LEMMA FlatMapsAre ==
    ASSUME problem \in Problems, NEW e, NEW lv, Agrees(e, lv), ListFits(e), NEW v, NEW q0, Answers(e, v, q0)
    PROVE  /\ FlatMaps(e, v, q0) \in SUBSET Int /\ IsFiniteSet(FlatMaps(e, v, q0))
           /\ {e.maps[k].row : k \in FlatMaps(e, v, q0)} = FlatRows(e, v, q0)
  <1> DEFINE M == MappedRows(e)
             F == FlatMaps(e, v, q0)
  <1>1. e.pos = PosOf(e) /\ DOMAIN e.maps = {e.pos[i] : i \in M}
    BY Zenon DEF ListFits, MappedRows
  <1>2. DOMAIN e.maps = 1..Cardinality(M) /\ Cardinality(M) \in Nat
    BY ZenonT(60), <1>1, PosIs
  <1>3. F \in SUBSET Int /\ IsFiniteSet(F)
    <2>1. 1..Cardinality(M) \in SUBSET Int /\ IsFiniteSet(1..Cardinality(M)) BY <1>2, FS_Interval
    <2>2. F \subseteq 1..Cardinality(M) BY Zenon, <1>2 DEF FlatMaps
    <2> HIDE DEF F, M
    <2>3. IsFiniteSet(F) BY ONLY <2>1, <2>2, FS_Subset
    <2> QED BY Zenon, <2>1, <2>2, <2>3
  <1>4. ASSUME NEW j \in Locals(e), Mapped(e, j)
        PROVE  /\ e.pos[j] \in DOMAIN e.maps /\ e.maps[e.pos[j]].row = j
               /\ ByMap(e.maps[e.pos[j]], v[j], q0[j]) = ByInstrument(e.kind[j], e.data[j], e.band[j], v[j], q0[j])
    <2>1. e.pos[j] \in DOMAIN e.maps BY Zenon, <1>1, <1>4 DEF MappedRows
    <2>2. e.maps[e.pos[j]] = RowMap(e, j) BY Zenon, <1>4, MapsOnIs
    <2>3. RowMap(e, j).row = j BY Zenon DEF RowMap
    <2>4. e.kind[j] \in Kinds BY Zenon, KindsAre
    <2>5. v[j] \in Int /\ q0[j] \in Int /\ Answerable(e.kind[j], e.band[j], q0[j]) BY Zenon DEF Answers
    <2>6. ByMap(RowMap(e, j), v[j], q0[j]) = ByInstrument(e.kind[j], e.data[j], e.band[j], v[j], q0[j])
      BY ONLY <1>4, <2>4, <2>5, ByMapIs, Zenon
    <2> QED BY Zenon, <2>1, <2>2, <2>3, <2>6
  <1>5. ASSUME NEW j \in Locals(e), ~Mapped(e, j)
        PROVE  ByInstrument(e.kind[j], e.data[j], e.band[j], v[j], q0[j]).slope # 0
    <2>1. e.kind[j] \in Kinds BY Zenon, KindsAre
    <2>2. v[j] \in Int /\ q0[j] \in Int BY Zenon DEF Answers
    <2>3. ByInstrument(e.kind[j], e.data[j], e.band[j], v[j], q0[j]) = [r |-> Unit * (v[j] - q0[j]), slope |-> Unit]
      BY ONLY <1>5, <2>1, <2>2, PlainByInstrument, ZenonT(60)
    <2>4. Unit # 0 BY UnitAssumption
    <2>5. [r |-> Unit * (v[j] - q0[j]), slope |-> Unit].slope = Unit BY Zenon
    <2> QED BY ONLY <2>3, <2>4, <2>5, Zenon
  <1>6. ASSUME NEW k \in F PROVE e.maps[k].row \in FlatRows(e, v, q0)
    <2>1. k \in DOMAIN e.maps /\ ByMap(e.maps[k], v[e.maps[k].row], q0[e.maps[k].row]).slope = 0 BY Zenon DEF FlatMaps
    <2>2. PICK j \in Locals(e) : Mapped(e, j) /\ k = e.pos[j] BY Zenon, <1>1, <2>1 DEF MappedRows
    <2>3. PICK f : f = e.maps[k] BY Zenon
    <2>4. /\ f.row = j
          /\ ByMap(f, v[j], q0[j]) = ByInstrument(e.kind[j], e.data[j], e.band[j], v[j], q0[j])
      BY Zenon, <1>4, <2>2, <2>3
    <2>5. ByMap(f, v[j], q0[j]).slope = 0 BY Zenon, <2>1, <2>3, <2>4
    <2>6. ByInstrument(e.kind[j], e.data[j], e.band[j], v[j], q0[j]).slope = 0 BY ONLY <2>4, <2>5, Zenon
    <2>7. j \in FlatRows(e, v, q0) BY Zenon, <2>2, <2>6 DEF FlatRows
    <2> QED BY Zenon, <2>3, <2>4, <2>7
  <1>7. ASSUME NEW j \in FlatRows(e, v, q0) PROVE \E k \in F : e.maps[k].row = j
    <2>1. j \in Locals(e) /\ ByInstrument(e.kind[j], e.data[j], e.band[j], v[j], q0[j]).slope = 0 BY Zenon DEF FlatRows
    <2>2. Mapped(e, j) BY Zenon, <1>5, <2>1
    <2>3. e.pos[j] \in F BY Zenon, <1>4, <2>1, <2>2 DEF FlatMaps
    <2> QED BY Zenon, <1>4, <2>1, <2>2, <2>3
  <1> QED BY Zenon, <1>3, <1>6, <1>7

LEMMA WithDeadIs ==
    ASSUME problem \in Problems, NEW e, NEW lv, IsCompiled(e, lv), ListFits(e), NEW v, NEW q0, Answers(e, v, q0), NEW x,
           NEW g, g = WithDead(e, v, q0, x)
    PROVE  /\ IsCompiled(g, lv) /\ g.rows = e.rows /\ g.of = "compiled"
           /\ {g.dead[k] : k \in DOMAIN g.dead} = FlatRows(e, v, q0)
           /\ \A k \in DOMAIN g.dead : g.dead[k] \in Locals(e) /\ g.deadJ[k] = <<g.dead[k], x>>
  <1> DEFINE F == FlatMaps(e, v, q0)
             l == [k \in 1..Cardinality(F) |-> CHOOSE i \in F : Rank(F, i) = k]
             d == [k \in 1..Cardinality(F) |-> e.maps[l[k]].row]
  <1>0. IsCompiledRecord(e) /\ Agrees(e, lv)
    BY Zenon DEF IsCompiled
  <1>1. F \in SUBSET Int /\ IsFiniteSet(F) /\ {e.maps[k].row : k \in F} = FlatRows(e, v, q0)
    BY Zenon, <1>0, FlatMapsAre
  <1>2. Lists(F, l)
    <2> HIDE DEF F
    <2> QED BY ONLY <1>1, Listed
  <1>3. PICK n \in Nat : n = Cardinality(F)
    BY Zenon, <1>2 DEF Lists
  <1> DEFINE dead == [k \in 1..Cardinality(F) |-> e.maps[CHOOSE i \in F : Rank(F, i) = k].row]
             wide == 1..(IF Len(dead) > Len(e.deadJ) THEN Len(dead) ELSE Len(e.deadJ))
             dj == [k \in wide |-> IF k <= Len(dead) THEN <<dead[k], x>> ELSE e.deadJ[k]]
  <1>4. g = [e EXCEPT !.dead = dead, !.deadJ = dj]
    <2>1. WithDead(e, v, q0, x) = [e EXCEPT !.dead = dead, !.deadJ = dj] BY Zenon DEF WithDead, FlatMaps, Rank
    <2> QED BY Zenon, <2>1
  <1>5. dead = d
    <2> DEFINE w(k) == CHOOSE i \in F : Rank(F, i) = k
    <2> HIDE DEF w
    <2>1. \A k \in 1..Cardinality(F) : l[k] = w(k) BY Zenon DEF w
    <2>2. dead = [k \in 1..Cardinality(F) |-> e.maps[w(k)].row] BY Zenon DEF w
    <2> HIDE DEF l, F, dead
    <2> QED BY Zenon, <2>1, <2>2
  <1> HIDE DEF F, l
  <1>6. DOMAIN d = 1..n /\ (\A k \in 1..n : d[k] = e.maps[l[k]].row) /\ d = [k \in 1..n |-> d[k]]
    BY Zenon, <1>3
  <1>7. {d[k] : k \in 1..n} = FlatRows(e, v, q0)
    <2>1. DOMAIN l = 1..n /\ (\A k \in 1..n : l[k] \in F) /\ \A r \in F : \E k \in 1..n : l[k] = r
      BY Zenon, <1>2, <1>3 DEF Lists
    <2>2. ASSUME NEW k \in 1..n PROVE d[k] \in FlatRows(e, v, q0) BY Zenon, <1>1, <1>6, <2>1
    <2>3. ASSUME NEW j \in FlatRows(e, v, q0) PROVE \E k \in 1..n : d[k] = j
      <3>1. PICK i \in F : j = e.maps[i].row BY Zenon, <1>1
      <3>2. PICK k \in 1..n : l[k] = i BY Zenon, <2>1
      <3> QED BY Zenon, <1>6, <3>1, <3>2
    <2> QED BY Zenon, <2>2, <2>3
  <1> HIDE DEF d, dead
  <1>8. Len(dead) = n
    <2>1. IsList(d) /\ Len(d) = n BY ONLY n \in Nat, <1>6, ListOf
    <2> QED BY Zenon, <1>5, <2>1
  <1>9. PICK w \in Nat : DOMAIN e.deadJ = 1..w
    BY Zenon DEF IsCompiled
  <1>10. Len(e.deadJ) = w
    <2>1. PICK s : s = e.deadJ BY Zenon
    <2>2. DOMAIN s = 1..w BY Zenon, <1>9, <2>1
    <2>3. Len(s) = w BY <2>2
    <2> QED BY Zenon, <2>1, <2>3
  <1>11. \E z \in Nat : wide = 1..z /\ n <= z
    <2>1. wide = 1..(IF n > w THEN n ELSE w) BY Zenon, <1>8, <1>10
    <2>2. (IF n > w THEN n ELSE w) \in Nat /\ n <= (IF n > w THEN n ELSE w) BY SMT
    <2> QED BY Zenon, <2>1, <2>2
  <1>12. PICK z \in Nat : wide = 1..z /\ n <= z
    BY Zenon, <1>11
  <1> HIDE DEF wide
  <1>13. DOMAIN dj = 1..z /\ \A k \in 1..n : dj[k] = <<dead[k], x>>
    <2>1. \A k \in 1..n : k \in 1..z /\ k <= n BY SMT, <1>12
    <2> QED BY Zenon, <1>8, <1>12, <2>1
  <1> HIDE DEF dj
  <1>14. /\ IsCompiledRecord(g) /\ g.rows = e.rows /\ g.of = "compiled" /\ g.kind = e.kind /\ g.data = e.data
         /\ g.market = e.market /\ g.band = e.band /\ g.maps = e.maps /\ g.pos = e.pos /\ g.dirty = e.dirty
         /\ g.dead = dead /\ g.deadJ = dj
    BY Zenon, <1>0, <1>4 DEF IsCompiledRecord
  <1>15. Agrees(g, lv)
    BY Zenon, <1>0, <1>14, AgreesSame
  <1>16. ~g.dirty => ListFits(g)
    <2>1. Locals(g) = Locals(e) /\ \A i : (Mapped(g, i) <=> Mapped(e, i)) /\ RowMap(g, i) = RowMap(e, i)
      BY Zenon, <1>14 DEF Locals, Mapped, RowMap
    <2>2. SameMaps(e, g) BY Zenon, <1>14, <2>1 DEF SameMaps
    <2> QED BY Zenon, <1>14, <2>1, <2>2, ListKept
  <1>17. IsCompiled(g, lv)
    <2>1. \E y \in Nat : DOMAIN g.deadJ = 1..y BY Zenon, <1>13, <1>14
    <2> QED BY Zenon, <1>14, <1>15, <1>16, <2>1 DEF IsCompiled
  <1>18. g.dead = d
    BY Zenon, <1>5, <1>14
  <1>19. DOMAIN g.dead = 1..n /\ {g.dead[k] : k \in DOMAIN g.dead} = FlatRows(e, v, q0)
    BY Zenon, <1>6, <1>7, <1>18
  <1>20. ASSUME NEW k \in DOMAIN g.dead PROVE g.dead[k] \in Locals(e) /\ g.deadJ[k] = <<g.dead[k], x>>
    <2>1. g.dead[k] \in Locals(e) BY Zenon, <1>19 DEF FlatRows
    <2>2. g.deadJ[k] = <<g.dead[k], x>> BY Zenon, <1>13, <1>14, <1>19
    <2> QED BY Zenon, <2>1, <2>2
  <1> QED BY Zenon, <1>14, <1>17, <1>19, <1>20

----------------------------------------------------------------------------
(* A pass over the engines, and the answer gathered from it. *)

PassFits(p, e, lv, x) ==
    /\ IsEngine(p.engine, lv) /\ p.engine.rows = e.rows /\ p.engine.of = e.of
    /\ \A j \in DOMAIN e.rows : p.quote[j] = ModelQuote(problem.rows[e.rows[j]], x)
ListsFit(p) == p.engine.of = "compiled" => ListFits(p.engine)

LEMMA GatheredQuotes ==
    ASSUME problem \in Problems, NEW e, NEW lv, Agrees(e, lv), NEW x
    PROVE  \A j \in DOMAIN e.rows : Gather(e, Quotes(x))[j] = ModelQuote(problem.rows[e.rows[j]], x)
  <1>1. ASSUME NEW j \in DOMAIN e.rows PROVE e.rows[j] \in Rows
    BY Zenon, LocalsAre DEF Agrees, Locals
  <1>2. \A r \in Rows : Quotes(x)[r] = ModelQuote(problem.rows[r], x)
    BY Zenon DEF Quotes
  <1>3. \A j \in DOMAIN e.rows : Gather(e, Quotes(x))[j] = Quotes(x)[e.rows[j]]
    BY Zenon DEF Gather
  <1> QED BY Zenon, <1>1, <1>2, <1>3

LEMMA OfBlockIs ==
    ASSUME problem \in Problems, NEW e, NEW lv, IsBlockEngine(e, lv), NEW x,
           NEW p, NEW c, Answered(p, RowsOf(e.rows), c, x, Len(RowsOf(e.rows)))
    PROVE  PassFits(OfBlock(e, p), e, lv, x) /\ OfBlock(e, p).engine.of = "aad"
  <1>0. IsBlockRecord(e) /\ Agrees(e, lv) /\ e.of = "aad"
    BY Zenon DEF IsBlockEngine, IsBlockRecord
  <1> DEFINE g == [e EXCEPT !.block = p.block]
  <1>1. OfBlock(e, p).engine = g /\ OfBlock(e, p).quote = p.quote
    BY Zenon DEF OfBlock
  <1>2. /\ IsBlockRecord(g) /\ g.of = "aad" /\ g.rows = e.rows /\ g.kind = e.kind /\ g.data = e.data
        /\ g.market = e.market /\ g.band = e.band /\ g.block = p.block
    BY Zenon, <1>0 DEF IsBlockRecord
  <1> HIDE DEF g
  <1>3. Agrees(g, lv)
    BY Zenon, <1>0, <1>2, AgreesSame
  <1>4. IsBlock(g.block, RowsOf(g.rows))
    BY Zenon, <1>2 DEF Answered
  <1>5. IsEngine(g, lv)
    BY Zenon, <1>2, <1>3, <1>4 DEF IsEngine, IsBlockEngine
  <1>6. PICK s \in Seq(Rows) : s = e.rows
    BY Zenon, <1>0 DEF Agrees
  <1>7. Len(RowsOf(s)) = Len(s) /\ DOMAIN s = 1..Len(s)
    <2>1. Len(RowsOf(s)) = Len(s) BY Zenon, RowsOfIs
    <2>2. DOMAIN s = 1..Len(s) BY ONLY s \in Seq(Rows), SeqTyped
    <2> QED BY Zenon, <2>1, <2>2
  <1>8. ASSUME NEW j \in DOMAIN e.rows PROVE p.quote[j] = ModelQuote(problem.rows[e.rows[j]], x)
    <2>1. p.quote = [h \in 1..Len(RowsOf(s)) |-> ModelQuote(RowsOf(s)[h], x)] BY Zenon, <1>6 DEF Answered
    <2>2. j \in 1..Len(RowsOf(s)) BY Zenon, <1>6, <1>7
    <2>3. RowsOf(s)[j] = problem.rows[s[j]] BY Zenon, <1>6 DEF RowsOf
    <2> QED BY Zenon, <1>6, <2>1, <2>2, <2>3
  <1> QED BY Zenon, <1>0, <1>1, <1>2, <1>5, <1>8 DEF PassFits

\* Every engine's pass leaves it an engine of the same rows, and prices them at the state.
LEMMA PassedIs ==
    ASSUME problem \in Problems, NEW e, NEW lv, IsEngine(e, lv), NEW x, IsState(x, Knots),
           NEW pass, NEW order \in Orders
    PROVE  PassFits(Passed(e, x, pass, order), e, lv, x) /\ ListsFit(Passed(e, x, pass, order))
  <1>0. Agrees(e, lv)
    BY Zenon DEF IsEngine, IsCompiled, IsBlockEngine
  <1>1. \A j \in DOMAIN e.rows : Gather(e, Quotes(x))[j] = ModelQuote(problem.rows[e.rows[j]], x)
    BY Zenon, <1>0, GatheredQuotes
  <1>2. CASE IsCompiled(e, lv)
    <2>1. e.of = "compiled" BY Zenon, <1>2 DEF IsCompiled, IsCompiledRecord
    <2>2. Passed(e, x, pass, order) = [engine |-> Rebuilt(e), quote |-> Gather(e, Quotes(x))] BY Zenon, <2>1 DEF Passed
    <2>3. /\ IsCompiled(Rebuilt(e), lv) /\ ListFits(Rebuilt(e))
          /\ Rebuilt(e).rows = e.rows /\ Rebuilt(e).of = "compiled"
      BY Zenon, <1>2, RebuiltIs
    <2>4. Passed(e, x, pass, order).engine = Rebuilt(e) /\ Passed(e, x, pass, order).quote = Gather(e, Quotes(x))
      <3>1. PICK g : g = Rebuilt(e) BY Zenon
      <3>2. PICK w : w = Gather(e, Quotes(x)) BY Zenon
      <3>3. PICK p : p = Passed(e, x, pass, order) BY Zenon
      <3>4. p = [engine |-> g, quote |-> w] BY ONLY <2>2, <3>1, <3>2, <3>3, Zenon
      <3>5. p.engine = g /\ p.quote = w BY ONLY <3>4
      <3> QED BY ONLY <3>1, <3>2, <3>3, <3>5, Zenon
    <2> QED BY Zenon, <1>1, <2>1, <2>3, <2>4 DEF PassFits, ListsFit, IsEngine
  <1>3. CASE IsBlockEngine(e, lv)
    <2>1. e.of = "aad" /\ e.of # "compiled" BY Zenon, <1>3 DEF IsBlockEngine, IsBlockRecord
    <2>2. CASE pass = "residuals"
      <3>1. PICK p : p = ResidualPass(e.block, x, order) BY Zenon
      <3>2. Passed(e, x, pass, order) = OfBlock(e, p) BY Zenon, <2>1, <2>2, <3>1 DEF Passed
      <3>3. PICK sub : sub = RowsOf(e.rows) BY Zenon
      <3>4. IsBlock(e.block, sub) BY Zenon, <1>3, <3>3 DEF IsBlockEngine
      <3>5. IsList(sub)
        <4>1. e.rows \in Seq(Rows) BY Zenon, <1>0 DEF Agrees
        <4> QED BY Zenon, <3>3, <4>1, RowsOfIs
      <3>6. Answered(p, sub, e.block.closed, x, Len(sub))
        BY ONLY <3>1, <3>4, <3>5, IsState(x, Knots), order \in Orders, ResidualPassIs, Zenon
      <3>7. PassFits(OfBlock(e, p), e, lv, x) /\ OfBlock(e, p).engine.of = "aad"
        BY Zenon, <1>3, <3>3, <3>6, OfBlockIs
      <3>8. "aad" # "compiled" OBVIOUS
      <3> QED BY Zenon, <3>2, <3>7, <3>8 DEF ListsFit
    <2>3. CASE pass # "residuals"
      <3>1. Passed(e, x, pass, order).engine = e /\ Passed(e, x, pass, order).quote = Gather(e, Quotes(x))
        BY Zenon, <2>1, <2>3 DEF Passed
      <3> QED BY Zenon, <1>1, <2>1, <3>1 DEF PassFits, ListsFit
    <2> QED BY Zenon, <2>2, <2>3
  <1> QED BY Zenon, <1>2, <1>3 DEF IsEngine

RatesPassed(e, x) ==
    IF e.of = "compiled" THEN [engine |-> e, quote |-> Gather(e, Quotes(x))] ELSE OfBlock(e, RatesPass(e.block, x))

LEMMA RatesPassedIs ==
    ASSUME problem \in Problems, NEW e, NEW lv, IsEngine(e, lv), NEW x
    PROVE  PassFits(RatesPassed(e, x), e, lv, x)
  <1>0. Agrees(e, lv)
    BY Zenon DEF IsEngine, IsCompiled, IsBlockEngine
  <1>1. \A j \in DOMAIN e.rows : Gather(e, Quotes(x))[j] = ModelQuote(problem.rows[e.rows[j]], x)
    BY Zenon, <1>0, GatheredQuotes
  <1>2. CASE IsCompiled(e, lv)
    <2>1. e.of = "compiled" BY Zenon, <1>2 DEF IsCompiled, IsCompiledRecord
    <2>2. RatesPassed(e, x).engine = e /\ RatesPassed(e, x).quote = Gather(e, Quotes(x)) BY Zenon, <2>1 DEF RatesPassed
    <2> QED BY Zenon, <1>1, <2>2 DEF PassFits
  <1>3. CASE IsBlockEngine(e, lv)
    <2>1. e.of = "aad" /\ e.of # "compiled" BY Zenon, <1>3 DEF IsBlockEngine, IsBlockRecord
    <2>2. PICK p : p = RatesPass(e.block, x) BY Zenon
    <2>3. RatesPassed(e, x) = OfBlock(e, p) BY Zenon, <2>1, <2>2 DEF RatesPassed
    <2>4. PICK sub : sub = RowsOf(e.rows) BY Zenon
    <2>5. IsBlock(e.block, sub) BY Zenon, <1>3, <2>4 DEF IsBlockEngine
    <2>6. IsList(sub)
      <3>1. e.rows \in Seq(Rows) BY Zenon, <1>0 DEF Agrees
      <3> QED BY Zenon, <2>4, <3>1, RowsOfIs
    <2>7. Answered(p, sub, e.block.closed, x, Len(sub))
      BY ONLY <2>2, <2>5, <2>6, RatesPassIs, Zenon
    <2>8. PassFits(OfBlock(e, p), e, lv, x)
      BY Zenon, <1>3, <2>4, <2>7, OfBlockIs
    <2> QED BY Zenon, <2>3, <2>8
  <1> QED BY Zenon, <1>2, <1>3 DEF IsEngine

\* What a row is to answer at x against the market q0, its quote being that of lv.
Due(r, lv, x, q0) ==
    ByInstrument(problem.rows[r].kind, problem.rows[r].data, lv[r].band, ModelQuote(problem.rows[r], x), q0[r])

Quotable(lv, q0) == \A r \in Rows : q0[r] \in Int /\ IsQuoteBand(lv[r].band) /\ Valid(r, q0[r], lv[r].band)

LEMMA DueIs ==
    ASSUME problem \in Problems, NEW e, NEW lv, Agrees(e, lv), NEW x, IsState(x, Knots), NEW q0, Quotable(lv, q0),
           NEW v, NEW j \in DOMAIN e.rows, v[j] = ModelQuote(problem.rows[e.rows[j]], x)
    PROVE  /\ ByInstrument(e.kind[j], e.data[j], e.band[j], v[j], q0[e.rows[j]]) = Due(e.rows[j], lv, x, q0)
           /\ v[j] \in Int /\ q0[e.rows[j]] \in Int /\ Answerable(e.kind[j], e.band[j], q0[e.rows[j]])
  <1>1. PICK r \in Rows : r = e.rows[j]
    <2>1. e.rows[j] \in Rows BY Zenon, LocalsAre DEF Agrees, Locals
    <2> QED BY Zenon, <2>1
  <1>2. /\ e.kind[j] = problem.rows[r].kind /\ e.data[j] = problem.rows[r].data
        /\ e.kind[j] # "log" => e.band[j] = lv[r].band
    BY Zenon, <1>1 DEF Agrees
  <1>3. v[j] \in Int
    <2>1. IsRow(problem.rows[r]) BY Zenon, RowsTyped
    <2>2. ModelQuote(problem.rows[r], x) \in Int BY Zenon, <2>1, ModelQuoteTyped
    <2> QED BY Zenon, <1>1, <2>2
  <1>4. ByInstrument(e.kind[j], e.data[j], e.band[j], v[j], q0[r]) = Due(r, lv, x, q0)
    <2>1. ByInstrument(e.kind[j], e.data[j], e.band[j], v[j], q0[r])
             = ByInstrument(e.kind[j], e.data[j], lv[r].band, v[j], q0[r])
      <3>1. CASE e.kind[j] = "log" BY Zenon, <3>1 DEF ByInstrument
      <3>2. CASE e.kind[j] # "log" BY Zenon, <1>2, <3>2
      <3> QED BY Zenon, <3>1, <3>2
    <2>2. Due(r, lv, x, q0) = ByInstrument(problem.rows[r].kind, problem.rows[r].data, lv[r].band, ModelQuote(problem.rows[r], x), q0[r])
      BY Zenon DEF Due
    <2>3. v[j] = ModelQuote(problem.rows[r], x) BY Zenon, <1>1
    <2> QED BY Zenon, <1>2, <2>1, <2>2, <2>3
  <1>5. q0[r] \in Int /\ IsQuoteBand(lv[r].band) /\ Valid(r, q0[r], lv[r].band)
    BY Zenon DEF Quotable
  <1>6. Answerable(e.kind[j], e.band[j], q0[r])
    <2>1. "quote" # "log" OBVIOUS
    <2> QED BY Zenon, <1>2, <1>5, <2>1 DEF Answerable, Valid
  <1> QED BY Zenon, <1>1, <1>3, <1>4, <1>5, <1>6

\* An engine's rows answer what is due.
LEMMA EvaluatedIs ==
    ASSUME problem \in Problems, NEW p, NEW e, NEW lv, NEW x, PassFits(p, e, lv, x), ListsFit(p),
           IsState(x, Knots), NEW q0, Quotable(lv, q0), NEW j \in DOMAIN e.rows
    PROVE  Evaluated(p, q0)[j] = Due(e.rows[j], lv, x, q0)
  <1>0. PICK g : g = p.engine
    BY Zenon
  <1>1. IsEngine(g, lv) /\ g.rows = e.rows /\ p.quote[j] = ModelQuote(problem.rows[e.rows[j]], x)
    BY Zenon, <1>0 DEF PassFits
  <1>2. Agrees(g, lv)
    BY Zenon, <1>1 DEF IsEngine, IsCompiled, IsBlockEngine
  <1>3. PICK v : v = p.quote
    BY Zenon
  <1>4. j \in DOMAIN g.rows /\ v[j] = ModelQuote(problem.rows[g.rows[j]], x)
    BY Zenon, <1>1, <1>3
  <1>5. /\ ByInstrument(g.kind[j], g.data[j], g.band[j], v[j], q0[g.rows[j]]) = Due(g.rows[j], lv, x, q0)
        /\ v[j] \in Int /\ q0[g.rows[j]] \in Int /\ Answerable(g.kind[j], g.band[j], q0[g.rows[j]])
    BY ONLY problem \in Problems, <1>2, <1>4, IsState(x, Knots), Quotable(lv, q0), DueIs, Zenon
  <1>6. CASE g.of = "compiled"
    <2>1. Evaluated(p, q0) = Evaluate(g, v, Gather(g, q0)) BY Zenon, <1>0, <1>3, <1>6 DEF Evaluated
    <2>2. ListFits(g) BY Zenon, <1>0, <1>6 DEF ListsFit
    <2>3. j \in Locals(g) BY Zenon, <1>2, <1>4 DEF Agrees, Locals
    <2>4. PICK t : t = Gather(g, q0) BY Zenon
    <2>5. t[j] = q0[g.rows[j]] BY Zenon, <1>4, <2>4 DEF Gather
    <2>6. v[j] \in Int /\ t[j] \in Int /\ Answerable(g.kind[j], g.band[j], t[j]) BY Zenon, <1>5, <2>5
    <2>7. Evaluate(g, v, t)[j] = ByInstrument(g.kind[j], g.data[j], g.band[j], v[j], t[j])
      BY ONLY problem \in Problems, <1>2, <2>2, <2>3, <2>6, EvaluateIs, ZenonT(60)
    <2> QED BY Zenon, <1>1, <1>5, <2>1, <2>4, <2>5, <2>7
  <1>7. CASE g.of # "compiled"
    <2>1. Evaluated(p, q0) = [i \in DOMAIN g.rows |-> ByInstrument(g.kind[i], g.data[i], g.band[i], v[i], q0[g.rows[i]])]
      BY Zenon, <1>0, <1>3, <1>7 DEF Evaluated
    <2>2. Evaluated(p, q0)[j] = ByInstrument(g.kind[j], g.data[j], g.band[j], v[j], q0[g.rows[j]]) BY Zenon, <1>4, <2>1
    <2> QED BY Zenon, <1>1, <1>5, <2>2
  <1> QED BY Zenon, <1>6, <1>7

\* A list of passes over the engines.
PassesFit(ps, es, lv, x) == DOMAIN ps = DOMAIN es /\ \A k \in DOMAIN es : PassFits(ps[k], es[k], lv, x)

FoundAt(ps, r, k, j) ==
    /\ \E h \in DOMAIN ps : \E i \in DOMAIN ps[h].engine.rows : ps[h].engine.rows[i] = r
    /\ (CHOOSE h \in DOMAIN ps : \E i \in DOMAIN ps[h].engine.rows : ps[h].engine.rows[i] = r) = k
    /\ LocalRow(ps[k].engine, r) = j

LEMMA FoundIs ==
    ASSUME NEW es, NEW lv, EnginesFit(es, lv), NEW ps, NEW lw, NEW x, PassesFit(ps, es, lw, x),
           NEW k \in DOMAIN es, NEW j \in DOMAIN es[k].rows
    PROVE  FoundAt(ps, es[k].rows[j], k, j)
  <1>1. PICK r : r = es[k].rows[j]
    BY Zenon
  <1>2. \A h \in DOMAIN es : ps[h].engine.rows = es[h].rows
    BY Zenon DEF PassesFit, PassFits
  <1>3. DOMAIN ps = DOMAIN es
    BY Zenon DEF PassesFit
  <1>4. \A h \in DOMAIN es : \A i \in DOMAIN es[h].rows : es[h].rows[i] = es[k].rows[j] => h = k /\ i = j
    BY ONLY EnginesFit(es, lv), k \in DOMAIN es, j \in DOMAIN es[k].rows, ListedOnce, Zenon
  <1> DEFINE Has(h) == \E i \in DOMAIN ps[h].engine.rows : ps[h].engine.rows[i] = r
  <1>5. Has(k) /\ \A h \in DOMAIN ps : Has(h) => h = k
    <2>1. Has(k) BY Zenon, <1>1, <1>2
    <2>2. ASSUME NEW h \in DOMAIN ps, Has(h) PROVE h = k BY Zenon, <1>1, <1>2, <1>3, <1>4, <2>2
    <2> QED BY Zenon, <2>1, <2>2
  <1>6. (CHOOSE h \in DOMAIN ps : Has(h)) = k
    <2> HIDE DEF Has
    <2>1. k \in DOMAIN ps BY Zenon, <1>3
    <2> QED BY Zenon, <1>5, <2>1
  <1>7. LocalRow(ps[k].engine, r) = j
    <2>1. PICK e : e = ps[k].engine BY Zenon
    <2>2. j \in DOMAIN e.rows /\ e.rows[j] = r BY Zenon, <1>1, <1>2, <2>1
    <2>3. \A i \in DOMAIN e.rows : e.rows[i] = r => i = j BY Zenon, <1>1, <1>2, <1>4, <2>1
    <2>4. LocalRow(e, r) = j BY Zenon, <2>2, <2>3 DEF LocalRow
    <2> QED BY Zenon, <2>1, <2>4
  <1> QED BY Zenon, <1>1, <1>3, <1>5, <1>6, <1>7 DEF FoundAt

LEMMA RowIsListed ==
    ASSUME NEW es, NEW lv, EnginesFit(es, lv), NEW r \in Rows
    PROVE  \E k \in DOMAIN es : \E j \in DOMAIN es[k].rows : es[k].rows[j] = r
  <1>1. PICK R : R = RowsIn(es)
    BY Zenon
  <1>2. \E g \in DOMAIN R : \E j \in DOMAIN R[g] : R[g][j] = r
    BY Zenon, <1>1 DEF EnginesFit, Parts
  <1> QED BY Zenon, <1>1, <1>2 DEF RowsIn

RowScattered(ps, r, lv, x) ==
    /\ Scattered(ps, LAMBDA p : p.quote)[r] = ModelQuote(problem.rows[r], x)
    /\ \A q0 : (/\ Quotable(lv, q0) /\ IsState(x, Knots) /\ \A k \in DOMAIN ps : ListsFit(ps[k]))
                  => Scattered(ps, LAMBDA p : Evaluated(p, q0))[r] = Due(r, lv, x, q0)

\* Every row's answer is its quote at the state and what is due of it.
LEMMA AnswersScattered ==
    ASSUME problem \in Problems, NEW es, NEW lv, EnginesFit(es, lv), NEW x, NEW ps, PassesFit(ps, es, lv, x),
           NEW r \in Rows
    PROVE  RowScattered(ps, r, lv, x)
  <1>1. PICK k \in DOMAIN es : \E j \in DOMAIN es[k].rows : es[k].rows[j] = r
    BY Zenon, RowIsListed
  <1>2. PICK j \in DOMAIN es[k].rows : es[k].rows[j] = r
    BY Zenon, <1>1
  <1>3. FoundAt(ps, r, k, j)
    BY Zenon, <1>2, FoundIs
  <1>4. PassFits(ps[k], es[k], lv, x) /\ k \in DOMAIN ps
    BY Zenon DEF PassesFit
  <1>5. Scattered(ps, LAMBDA p : p.quote)[r] = ps[k].quote[j]
    BY Zenon, <1>3 DEF Scattered, FoundAt
  <1>6. ps[k].quote[j] = ModelQuote(problem.rows[r], x)
    BY Zenon, <1>2, <1>4 DEF PassFits
  <1>7. ASSUME NEW q0, Quotable(lv, q0), IsState(x, Knots), \A h \in DOMAIN ps : ListsFit(ps[h])
        PROVE  Scattered(ps, LAMBDA p : Evaluated(p, q0))[r] = Due(r, lv, x, q0)
    <2>1. Scattered(ps, LAMBDA p : Evaluated(p, q0))[r] = Evaluated(ps[k], q0)[j]
      BY Zenon, <1>3 DEF Scattered, FoundAt
    <2>2. ListsFit(ps[k]) BY Zenon, <1>4, <1>7
    <2>3. PICK p : p = ps[k] BY Zenon
    <2>4. PICK e : e = es[k] BY Zenon
    <2>5. PassFits(p, e, lv, x) /\ ListsFit(p) /\ j \in DOMAIN e.rows /\ e.rows[j] = r BY Zenon, <1>2, <1>4, <2>2, <2>3, <2>4
    <2>6. Evaluated(p, q0)[j] = Due(e.rows[j], lv, x, q0)
      <3>1. PassFits(p, e, lv, x) BY Zenon, <2>5
      <3>2. ListsFit(p) BY Zenon, <2>5
      <3>3. j \in DOMAIN e.rows BY Zenon, <2>5
      <3>4. Quotable(lv, q0) BY Zenon, <1>7
      <3>5. IsState(x, Knots) BY Zenon, <1>7
      <3> QED BY ONLY problem \in Problems, <3>1, <3>2, <3>3, <3>4, <3>5, EvaluatedIs
    <2> QED BY Zenon, <2>1, <2>3, <2>5, <2>6
  <1> QED BY Zenon, <1>5, <1>6, <1>7 DEF RowScattered

-----------------------------------------------------------------------------
(* The router's steps. *)

Passing(x, pass, order) == [k \in DOMAIN engines |-> Passed(engines[k], x, pass, order)]

\* What an answer says of every row.
Askable(of, lv, x, q0, ps) ==
    of # "rates" => Quotable(lv, q0) /\ IsState(x, Knots) /\ \A k \in DOMAIN ps : ListsFit(ps[k])

Answering(an, of, x, q0, served, lv) ==
    /\ an.of = of /\ an.x = x /\ an.q = q0 /\ an.dead = served.dead /\ an.deadJ = served.deadJ
    /\ \A r \in Rows : /\ an.quote[r] = ModelQuote(problem.rows[r], x)
                       /\ of # "rates" => an.rows[r] = Due(r, lv, x, q0)

LEMMA AnswerIs ==
    ASSUME problem \in Problems, NEW es, NEW lv, EnginesFit(es, lv), NEW x, NEW ps, PassesFit(ps, es, lv, x),
           NEW of, NEW q0, Askable(of, lv, x, q0, ps), NEW served, NEW an, an = Answer(of, x, q0, ps, served)
    PROVE  Answering(an, of, x, q0, served, lv)
  <1>1. PICK qs : qs = Scattered(ps, LAMBDA p : p.quote)
    BY Zenon
  <1>2. PICK rs : rs = IF of = "rates" THEN << >> ELSE Scattered(ps, LAMBDA p : Evaluated(p, q0))
    BY Zenon
  <1>3. PICK d : d = served.dead
    BY Zenon
  <1>4. PICK dj : dj = served.deadJ
    BY Zenon
  <1>5. an = [of |-> of, x |-> x, q |-> q0, dead |-> d, deadJ |-> dj, quote |-> qs, rows |-> rs]
    BY ONLY an = Answer(of, x, q0, ps, served), <1>1, <1>2, <1>3, <1>4, Zenon DEF Answer
  <1>6. an.of = of /\ an.x = x /\ an.q = q0 /\ an.dead = d /\ an.deadJ = dj /\ an.quote = qs /\ an.rows = rs
    BY ONLY <1>5
  <1>7. ASSUME NEW r \in Rows
        PROVE  qs[r] = ModelQuote(problem.rows[r], x) /\ (of # "rates" => rs[r] = Due(r, lv, x, q0))
    <2>1. /\ Scattered(ps, LAMBDA p : p.quote)[r] = ModelQuote(problem.rows[r], x)
          /\ \A t0 : (/\ Quotable(lv, t0) /\ IsState(x, Knots) /\ \A k \in DOMAIN ps : ListsFit(ps[k]))
                         => Scattered(ps, LAMBDA p : Evaluated(p, t0))[r] = Due(r, lv, x, t0)
      <3>1. RowScattered(ps, r, lv, x)
        BY ONLY problem \in Problems, EnginesFit(es, lv), PassesFit(ps, es, lv, x), r \in Rows, AnswersScattered, Zenon
      <3> QED BY Zenon, <3>1 DEF RowScattered
    <2>2. ASSUME of # "rates" PROVE rs[r] = Due(r, lv, x, q0)
      <3>1. Scattered(ps, LAMBDA p : Evaluated(p, q0))[r] = Due(r, lv, x, q0)
        BY Zenon, <2>1, <2>2 DEF Askable
      <3>2. rs = Scattered(ps, LAMBDA p : Evaluated(p, q0)) BY Zenon, <1>2, <2>2
      <3> QED BY Zenon, <3>1, <3>2
    <2>3. qs[r] = ModelQuote(problem.rows[r], x) BY Zenon, <1>1, <2>1
    <2> QED BY Zenon, <2>2, <2>3
  <1> QED BY Zenon, <1>3, <1>4, <1>6, <1>7 DEF Answering

\* An engine after a Jacobian pass: its dead rows are those due a flat slope.
DeadFits(g, lv, x, q0) ==
    /\ \A j \in DOMAIN g.rows : g.of = "compiled" /\ Due(g.rows[j], lv, x, q0).slope = 0
                                   => \E k \in DOMAIN g.dead : g.dead[k] = j
    /\ \A k \in DOMAIN g.dead : /\ g.of = "compiled" /\ g.dead[k] \in DOMAIN g.rows
                                /\ Due(g.rows[g.dead[k]], lv, x, q0).slope = 0
                                /\ g.deadJ[k] = <<g.dead[k], x>>

SweptFits(g, e, lv, x, q0) == IsEngine(g, lv) /\ g.rows = e.rows /\ g.of = e.of /\ DeadFits(g, lv, x, q0)

AllDue(e, lv, x, q0, v, t) ==
    /\ Answers(e, v, t)
    /\ \A j \in DOMAIN e.rows :
          ByInstrument(e.kind[j], e.data[j], e.band[j], v[j], t[j]) = Due(e.rows[j], lv, x, q0)

LEMMA AnswersDue ==
    ASSUME problem \in Problems, NEW e, NEW lv, Agrees(e, lv), NEW x, IsState(x, Knots), NEW q0, Quotable(lv, q0),
           NEW v, \A j \in DOMAIN e.rows : v[j] = ModelQuote(problem.rows[e.rows[j]], x),
           NEW t, \A j \in DOMAIN e.rows : t[j] = q0[e.rows[j]]
    PROVE  AllDue(e, lv, x, q0, v, t)
  <1>1. ASSUME NEW j \in DOMAIN e.rows
        PROVE  /\ ByInstrument(e.kind[j], e.data[j], e.band[j], v[j], q0[e.rows[j]]) = Due(e.rows[j], lv, x, q0)
               /\ v[j] \in Int /\ q0[e.rows[j]] \in Int /\ Answerable(e.kind[j], e.band[j], q0[e.rows[j]])
    <2>1. v[j] = ModelQuote(problem.rows[e.rows[j]], x) BY Zenon
    <2> QED BY ONLY problem \in Problems, Agrees(e, lv), <1>1, <2>1, IsState(x, Knots), Quotable(lv, q0), DueIs
  <1>2. Locals(e) = DOMAIN e.rows
    BY Zenon DEF Agrees, Locals
  <1>3. Answers(e, v, t)
    BY Zenon, <1>1, <1>2 DEF Answers
  <1> QED BY Zenon, <1>1, <1>3 DEF AllDue

LEMMA SweptIs ==
    ASSUME problem \in Problems, NEW p, NEW e, NEW lv, NEW x, PassFits(p, e, lv, x), ListsFit(p),
           IsState(x, Knots), NEW q0, Quotable(lv, q0), NEW g, g = Swept(p, q0, x)
    PROVE  SweptFits(g, e, lv, x, q0)
  <1>1. PICK f : f = p.engine
    BY Zenon
  <1>2. IsEngine(f, lv) /\ f.rows = e.rows /\ f.of = e.of
    BY Zenon, <1>1 DEF PassFits
  <1>3. CASE IsCompiled(f, lv)
    <2>1. f.of = "compiled" BY Zenon, <1>3 DEF IsCompiled, IsCompiledRecord
    <2>2. ListFits(f) BY Zenon, <1>1, <2>1 DEF ListsFit
    <2>3. PICK v : v = p.quote BY Zenon
    <2>4. PICK t : t = Gather(f, q0) BY Zenon
    <2>5. g = WithDead(f, v, t, x) BY Zenon, <1>1, <2>1, <2>3, <2>4 DEF Swept
    <2>6. Agrees(f, lv) BY Zenon, <1>3 DEF IsCompiled
    <2>7. \A j \in DOMAIN f.rows : v[j] = ModelQuote(problem.rows[f.rows[j]], x) BY Zenon, <1>1, <1>2, <2>3 DEF PassFits
    <2>8. \A j \in DOMAIN f.rows : t[j] = q0[f.rows[j]] BY Zenon, <2>4 DEF Gather
    <2>9. /\ Answers(f, v, t)
          /\ \A j \in DOMAIN f.rows :
                ByInstrument(f.kind[j], f.data[j], f.band[j], v[j], t[j]) = Due(f.rows[j], lv, x, q0)
      <3>1. AllDue(f, lv, x, q0, v, t)
        BY ONLY problem \in Problems, <2>6, <2>7, <2>8, IsState(x, Knots), Quotable(lv, q0), AnswersDue, Zenon
      <3> QED BY Zenon, <3>1 DEF AllDue
    <2>10. Answers(f, v, t) BY Zenon, <2>9
    <2>11. /\ IsCompiled(g, lv) /\ g.rows = f.rows /\ g.of = "compiled"
           /\ {g.dead[k] : k \in DOMAIN g.dead} = FlatRows(f, v, t)
           /\ \A k \in DOMAIN g.dead : g.dead[k] \in Locals(f) /\ g.deadJ[k] = <<g.dead[k], x>>
      BY ONLY problem \in Problems, <1>3, <2>2, <2>10, <2>5, WithDeadIs
    <2>12. Locals(f) = DOMAIN f.rows BY Zenon, <2>6 DEF Agrees, Locals
    <2>13. \A j : j \in FlatRows(f, v, t) <=> j \in DOMAIN f.rows /\ Due(f.rows[j], lv, x, q0).slope = 0
      BY Zenon, <2>9, <2>12 DEF FlatRows
    <2>14. \A j : j \in FlatRows(f, v, t) <=> \E k \in DOMAIN g.dead : g.dead[k] = j BY Zenon, <2>11
    <2>15. DeadFits(g, lv, x, q0)
      <3>1. \A j \in DOMAIN g.rows : Due(g.rows[j], lv, x, q0).slope = 0 => \E k \in DOMAIN g.dead : g.dead[k] = j
        BY Zenon, <2>11, <2>13, <2>14
      <3>2. ASSUME NEW k \in DOMAIN g.dead
            PROVE  /\ g.dead[k] \in DOMAIN g.rows /\ Due(g.rows[g.dead[k]], lv, x, q0).slope = 0
                   /\ g.deadJ[k] = <<g.dead[k], x>>
        <4>1. g.dead[k] \in FlatRows(f, v, t) BY Zenon, <2>14
        <4>2. g.rows = f.rows /\ g.deadJ[k] = <<g.dead[k], x>> BY Zenon, <2>11
        <4> QED BY Zenon, <2>13, <4>1, <4>2
      <3>3. g.of = "compiled" BY Zenon, <2>11
      <3> QED BY Zenon, <3>1, <3>2, <3>3 DEF DeadFits
    <2> QED BY Zenon, <1>2, <2>1, <2>11, <2>15 DEF SweptFits, IsEngine
  <1>4. CASE IsBlockEngine(f, lv)
    <2>1. f.of = "aad" /\ f.dead = << >> BY Zenon, <1>4 DEF IsBlockEngine, IsBlockRecord
    <2>2. "aad" # "compiled" OBVIOUS
    <2>3. g = f BY Zenon, <1>1, <2>1, <2>2 DEF Swept
    <2>4. DOMAIN g.dead = {}
      <3>1. DOMAIN << >> = {} OBVIOUS
      <3> QED BY Zenon, <2>1, <2>3, <3>1
    <2>5. DeadFits(g, lv, x, q0) BY Zenon, <2>1, <2>2, <2>3, <2>4 DEF DeadFits
    <2> QED BY Zenon, <1>2, <2>3, <2>5 DEF SweptFits
  <1> QED BY Zenon, <1>2, <1>3, <1>4 DEF IsEngine

\* The owner of every row lists it.
Owned(es, ow) == \A r \in Rows : ow[r] \in DOMAIN es /\ \E j \in DOMAIN es[ow[r]].rows : es[ow[r]].rows[j] = r

DeadServed(es, ow, an) ==
    an.of = "jacobian" =>
        /\ {an.dead[k] : k \in DOMAIN an.dead} = {r \in Rows : es[ow[r]].of = "compiled" /\ an.rows[r].slope = 0}
        /\ \A k \in DOMAIN an.dead : an.deadJ[k] = <<an.dead[k], an.x>>

ServedFits(served, es, ow, lv, x, q0) ==
    /\ \A r : r \in {served.dead[k] : k \in DOMAIN served.dead}
                 <=> r \in Rows /\ es[ow[r]].of = "compiled" /\ Due(r, lv, x, q0).slope = 0
    /\ \A k \in DOMAIN served.dead : served.deadJ[k] = <<served.dead[k], x>>

\* The one engine with dead rows is the compiled one, which comes first, and its list is served.
LEMMA ServedDeadIs ==
    ASSUME NEW es, NEW lv, EnginesFit(es, lv), NEW ow, Owned(es, ow), NEW x, NEW q0,
           \A k \in DOMAIN es : DeadFits(es[k], lv, x, q0)
    PROVE  ServedFits(ServedDead(es), es, ow, lv, x, q0)
  <1> DEFINE lists == {k \in DOMAIN es : es[k].dead # << >>}
  <1>0. DOMAIN << >> = {}
    OBVIOUS
  <1>1. ASSUME NEW k \in DOMAIN es, NEW h \in DOMAIN es[k].dead
        PROVE  es[k].of = "compiled" /\ k = 1
    BY Zenon, <1>1 DEF DeadFits, EnginesFit
  <1>2. \A k \in DOMAIN es : es[k].of = "compiled" => k = 1
    BY Zenon DEF EnginesFit
  <1>3. CASE lists = {}
    <2>1. PICK sv : sv = ServedDead(es) BY Zenon
    <2>2. sv = NoDead BY Zenon, <1>3, <2>1 DEF ServedDead
    <2>3. sv.dead = << >> BY ONLY <2>2 DEF NoDead
    <2>4. ASSUME NEW r \in Rows, es[ow[r]].of = "compiled", Due(r, lv, x, q0).slope = 0 PROVE FALSE
      <3>1. PICK k \in DOMAIN es : k = ow[r] BY Zenon DEF Owned
      <3>2. PICK j \in DOMAIN es[k].rows : es[k].rows[j] = r BY Zenon, <3>1 DEF Owned
      <3>3. \E h \in DOMAIN es[k].dead : es[k].dead[h] = j BY Zenon, <2>4, <3>1, <3>2 DEF DeadFits
      <3>4. es[k].dead = << >> BY Zenon, <1>3
      <3> QED BY Zenon, <1>0, <3>3, <3>4
    <2> QED BY Zenon, <1>0, <2>1, <2>3, <2>4 DEF ServedFits
  <1>4. CASE lists # {}
    <2>1. PICK k \in lists : k = CHOOSE h \in lists : TRUE BY Zenon, <1>4
    <2>2. PICK e : e = es[k] BY Zenon
    <2>3. PICK sv : sv = ServedDead(es) BY Zenon
    <2>4. sv = Served(e) BY Zenon, <1>4, <2>1, <2>2, <2>3 DEF ServedDead
    <2>5. PICK d : d = GlobalDead(e) BY Zenon
    <2>6. PICK dj : dj = [h \in DOMAIN e.dead |-> <<e.rows[e.deadJ[h][1]], e.deadJ[h][2]>>] BY Zenon
    <2>7. sv = [dead |-> d, deadJ |-> dj] BY ONLY <2>4, <2>5, <2>6, Zenon DEF Served
    <2>8. sv.dead = d /\ sv.deadJ = dj BY ONLY <2>7
    <2>9. DOMAIN d = DOMAIN e.dead /\ \A h \in DOMAIN e.dead : d[h] = e.rows[e.dead[h]]
      BY Zenon, <2>5 DEF GlobalDead
    <2>10. k \in DOMAIN es /\ DeadFits(e, lv, x, q0) BY Zenon, <2>1, <2>2
    <2>11. ASSUME NEW h \in DOMAIN e.dead
           PROVE  /\ d[h] \in Rows /\ es[ow[d[h]]].of = "compiled" /\ Due(d[h], lv, x, q0).slope = 0
                  /\ dj[h] = <<d[h], x>>
      <3>1. /\ e.of = "compiled" /\ e.dead[h] \in DOMAIN e.rows
            /\ Due(e.rows[e.dead[h]], lv, x, q0).slope = 0 /\ e.deadJ[h] = <<e.dead[h], x>>
        BY Zenon, <2>10 DEF DeadFits
      <3>2. PICK r : r = d[h] BY Zenon
      <3>3. r = e.rows[e.dead[h]] BY Zenon, <2>9, <3>2
      <3>4. r \in Rows
        <4>1. e.rows \in Seq(Rows)
          BY Zenon, <2>2, <2>10 DEF EnginesFit, IsEngine, IsCompiled, IsBlockEngine, Agrees
        <4> QED BY ONLY <3>1, <3>3, <4>1, SeqTyped, Zenon
      <3>5. PICK o \in DOMAIN es : o = ow[r] BY Zenon, <3>4 DEF Owned
      <3>6. PICK i \in DOMAIN es[o].rows : es[o].rows[i] = r BY Zenon, <3>4, <3>5 DEF Owned
      <3>7. o = k
        <4>1. PICK j \in DOMAIN es[k].rows : j = e.dead[h] BY Zenon, <2>2, <3>1
        <4>2. es[o].rows[i] = es[k].rows[j] BY Zenon, <2>2, <3>3, <3>6, <4>1
        <4> QED BY ONLY EnginesFit(es, lv), <2>10, <3>5, <3>6, <4>1, <4>2, ListedOnce, Zenon
      <3>8. dj[h] = <<r, x>>
        <4>1. PICK z : z = e.deadJ[h] BY Zenon
        <4>2. PICK a : a = e.dead[h] BY Zenon
        <4>3. z = <<a, x>> BY Zenon, <3>1, <4>1, <4>2
        <4>4. z[1] = a /\ z[2] = x BY ONLY <4>3
        <4>5. dj[h] = <<e.rows[z[1]], z[2]>> BY Zenon, <2>6, <4>1
        <4> QED BY Zenon, <3>3, <4>2, <4>4, <4>5
      <3> QED BY Zenon, <2>2, <3>1, <3>2, <3>3, <3>4, <3>5, <3>7, <3>8
    <2>12. ASSUME NEW r \in Rows, es[ow[r]].of = "compiled", Due(r, lv, x, q0).slope = 0
           PROVE  \E h \in DOMAIN d : d[h] = r
      <3>1. PICK o \in DOMAIN es : o = ow[r] BY Zenon DEF Owned
      <3>2. o = 1 BY Zenon, <1>2, <2>12, <3>1
      <3>3. PICK j \in DOMAIN es[o].rows : es[o].rows[j] = r BY Zenon, <3>1 DEF Owned
      <3>4. PICK h \in DOMAIN es[o].dead : es[o].dead[h] = j BY Zenon, <2>12, <3>1, <3>3 DEF DeadFits
      <3>5. k = 1
        <4>1. e.of = "compiled"
          <5>1. CASE IsCompiled(e, lv) BY Zenon, <5>1 DEF IsCompiled, IsCompiledRecord
          <5>2. CASE IsBlockEngine(e, lv)
            <6>1. e.dead = << >> BY Zenon, <5>2 DEF IsBlockEngine, IsBlockRecord
            <6> QED BY Zenon, <2>1, <2>2, <6>1
          <5> QED BY Zenon, <2>2, <2>10, <5>1, <5>2 DEF EnginesFit, IsEngine
        <4> QED BY Zenon, <1>2, <2>2, <2>10, <4>1
      <3> QED BY Zenon, <2>2, <2>9, <3>2, <3>3, <3>4, <3>5
    <2>13. \A r : r \in {d[h] : h \in DOMAIN d} <=> r \in Rows /\ es[ow[r]].of = "compiled" /\ Due(r, lv, x, q0).slope = 0
      <3>1. ASSUME NEW r, r \in {d[h] : h \in DOMAIN d} PROVE r \in Rows /\ es[ow[r]].of = "compiled" /\ Due(r, lv, x, q0).slope = 0
        <4>1. PICK h \in DOMAIN e.dead : r = d[h] BY Zenon, <2>9, <3>1
        <4> QED BY Zenon, <2>11, <4>1
      <3>2. ASSUME NEW r \in Rows, es[ow[r]].of = "compiled", Due(r, lv, x, q0).slope = 0 PROVE r \in {d[h] : h \in DOMAIN d}
        <4>1. PICK h \in DOMAIN d : d[h] = r BY Zenon, <2>12, <3>2
        <4> QED BY Zenon, <4>1
      <3> QED BY Zenon, <3>1, <3>2
    <2> QED BY ZenonT(60), <2>3, <2>8, <2>9, <2>11, <2>13 DEF ServedFits
  <1> QED BY Zenon, <1>3, <1>4


-----------------------------------------------------------------------------
(* The invariant. *)

\* Every row's quote, and what a row answers by it.
IsLive(lv) == lv \in [Rows -> [m : Int, band : [lo : Int, up : Int, dc : 0..Unit]]]

RowsAnswered(lv, an) ==
    \A r \in Rows :
        /\ an.of # "none" => an.quote[r] = ModelQuote(problem.rows[r], an.x)
        /\ an.of \in {"residuals", "jacobian"} => an.rows[r] = Due(r, lv, an.x, an.q)

Settled(es, ow, mk, lv, an) ==
    /\ EnginesFit(es, lv) /\ Owned(es, ow)
    /\ mk \in [Rows -> Int]
    /\ RowsAnswered(lv, an) /\ DeadServed(es, ow, an)

\* Before it is built a router has answered nothing and every quote is its problem's; once
\* built its engines fit the live quotes and its last answer is what they are due.
RouterInv ==
    /\ problem \in Problems
    /\ phase \in {"tier", "horizons", "ready"}
    /\ IsLive(live)
    /\ phase # "ready" => AsQuoted(live) /\ answer.of = "none"
    /\ phase = "ready" => Settled(engines, owner, market, live, answer)

\* A router keeps its problem, so what is said of engines and answers is said of them later.
LEMMA EnginesFitKept ==
    ASSUME problem' = problem, NEW es, NEW lv, EnginesFit(es, lv)
    PROVE  EnginesFit(es, lv)'
  <1>1. Rows' = Rows
    BY Zenon DEF Rows
  <1>2. \A rs : RowsOf(rs)' = RowsOf(rs)
    BY Zenon DEF RowsOf
  <1>3. ASSUME NEW e, Agrees(e, lv) PROVE Agrees(e, lv)'
    BY Zenon, <1>1, <1>3 DEF Agrees
  <1>4. ASSUME NEW e, IsEngine(e, lv) PROVE IsEngine(e, lv)'
    BY Zenon, <1>2, <1>3, <1>4 DEF IsEngine, IsCompiled, IsBlockEngine
  <1> QED BY Zenon, <1>1, <1>4 DEF EnginesFit

LEMMA SettledKept ==
    ASSUME problem' = problem, NEW es, NEW ow, NEW mk, NEW lv, NEW an, Settled(es, ow, mk, lv, an)
    PROVE  Settled(es, ow, mk, lv, an)'
  <1>1. Rows' = Rows
    BY Zenon DEF Rows
  <1>2. EnginesFit(es, lv)'
    BY Zenon, EnginesFitKept DEF Settled
  <1>3. Owned(es, ow)' /\ DeadServed(es, ow, an)'
    BY Zenon, <1>1 DEF Settled, Owned, DeadServed
  <1>4. \A r, x, q0 : Due(r, lv, x, q0)' = Due(r, lv, x, q0)
    BY Zenon DEF Due
  <1>5. RowsAnswered(lv, an)'
    <2>1. \A r \in Rows : an.of # "none" => an.quote[r] = ModelQuote(problem.rows[r], an.x)
      BY Zenon DEF Settled, RowsAnswered
    <2>2. \A r \in Rows : an.of \in {"residuals", "jacobian"} => an.rows[r] = Due(r, lv, an.x, an.q)
      BY Zenon DEF Settled, RowsAnswered
    <2>3. \A r \in Rows : an.of \in {"residuals", "jacobian"} => an.rows[r] = Due(r, lv, an.x, an.q)'
      BY Zenon, <1>4, <2>2
    <2> QED BY Zenon, <1>1, <2>1, <2>3 DEF RowsAnswered
  <1> QED BY Zenon, <1>1, <1>2, <1>3, <1>5 DEF Settled

\* Once built, a router's step is judged by the state it leaves.
LEMMA ReadyKept ==
    ASSUME problem' = problem, problem \in Problems, phase' = "ready",
           NEW es, es = engines', NEW ow, ow = owner', NEW mk, mk = market', NEW lv, lv = live',
           NEW an, an = answer', IsLive(lv), Settled(es, ow, mk, lv, an)
    PROVE  RouterInv'
  <1>1. IsLive(lv)'
    BY Zenon DEF IsLive, Rows
  <1>2. Settled(es, ow, mk, lv, an)'
    BY Zenon, SettledKept
  <1> QED BY Zenon, <1>1, <1>2 DEF RouterInv

LEMMA Unanswered ==
    ASSUME NEW an, an.of = "none", NEW es, NEW ow, NEW lv
    PROVE  RowsAnswered(lv, an) /\ DeadServed(es, ow, an)
  <1>1. "none" # "residuals" /\ "none" # "jacobian"
    OBVIOUS
  <1> QED BY Zenon, <1>1 DEF RowsAnswered, DeadServed

LEMMA QuotedTyped ==
    ASSUME problem \in Problems
    PROVE  /\ [r \in Rows |-> Quoted(r)] \in [Rows -> [m : Int, band : [lo : Int, up : Int, dc : 0..Unit]]]
           /\ AsQuoted([r \in Rows |-> Quoted(r)])
  <1>1. ASSUME NEW r \in Rows
        PROVE  Quoted(r) \in [m : Int, band : [lo : Int, up : Int, dc : 0..Unit]] /\ Quoted(r).band = problem.rows[r].band
    <2>1. PICK a \in Int : a = problem.rows[r].m BY Zenon, RouterAssumption DEF Rows
    <2>2. PICK b \in [lo : Int, up : Int, dc : 0..Unit] : b = problem.rows[r].band BY Zenon, RouterAssumption DEF Rows
    <2>3. Quoted(r) = [m |-> a, band |-> b] BY Zenon, <2>1, <2>2 DEF Quoted
    <2>4. PICK f : f = Quoted(r) BY Zenon
    <2>5. PICK B : B = [lo : Int, up : Int, dc : 0..Unit] BY Zenon
    <2>6. f = [m |-> a, band |-> b] /\ b \in B /\ a \in Int BY Zenon, <2>1, <2>2, <2>3, <2>4, <2>5
    <2>7. f \in [m : Int, band : B] /\ f.band = b BY ONLY <2>6
    <2> QED BY Zenon, <2>2, <2>4, <2>5, <2>7
  <1> QED BY Zenon, <1>1 DEF AsQuoted

LEMMA RouterInit == Init => RouterInv
  <1> SUFFICES ASSUME Init PROVE RouterInv
    OBVIOUS
  <1>1. problem \in Problems /\ live = [r \in Rows |-> Quoted(r)] /\ answer = NoAnswer
    BY Zenon DEF Init
  <1>2. phase \in {"tier", "horizons"}
    <2>1. phase = "tier" \/ phase = "horizons" BY Zenon DEF Init
    <2> QED BY Zenon, <2>1
  <1>3. phase # "ready" /\ phase \in {"tier", "horizons", "ready"}
    BY ONLY <1>2
  <1>4. answer.of = "none"
    BY ONLY <1>1 DEF NoAnswer
  <1>5. IsLive(live) /\ AsQuoted(live)
    BY Zenon, <1>1, QuotedTyped DEF IsLive
  <1> QED BY Zenon, <1>1, <1>3, <1>4, <1>5 DEF RouterInv

LEMMA BuiltIs ==
    ASSUME RouterInv, phase # "ready", NEW uh \in BOOLEAN, Built(uh), UNCHANGED <<problem, live, answer>>
    PROVE  RouterInv'
  <1>1. problem \in Problems /\ IsLive(live) /\ AsQuoted(live) /\ answer.of = "none"
    BY Zenon DEF RouterInv
  <1>2. problem' = problem /\ live' = live /\ answer' = answer
    BY Zenon
  <1>3. PICK es : es = engines'
    BY Zenon
  <1>4. PICK ow : ow = owner'
    BY Zenon
  <1>5. PICK mk : mk = market'
    BY Zenon
  <1>6. PICK lv : lv = live
    BY Zenon
  <1>7. PICK an : an = answer
    BY Zenon
  <1>8. es = Engines(uh) /\ ow = Owners(es) /\ mk = [r \in Rows |-> problem.rows[r].m] /\ phase' = "ready"
    BY Zenon, <1>3, <1>4, <1>5 DEF Built
  <1>9. EnginesFit(es, lv)
    <2>1. AsQuoted(lv) BY Zenon, <1>1, <1>6
    <2>2. EnginesFit(Engines(uh), lv) BY Zenon, <1>1, <2>1, EnginesAre
    <2> QED BY Zenon, <1>8, <2>2
  <1>10. Owned(es, ow)
    <2>1. ASSUME NEW r \in Rows
          PROVE  /\ Owners(es)[r] \in DOMAIN es
                 /\ \E j \in DOMAIN es[Owners(es)[r]].rows : es[Owners(es)[r]].rows[j] = r
      BY Zenon, <1>9, OwnersAre
    <2> QED BY Zenon, <1>8, <2>1 DEF Owned
  <1>11. mk \in [Rows -> Int]
    <2>1. \A r \in Rows : problem.rows[r].m \in Int BY Zenon, <1>1, RowsTyped
    <2> QED BY Zenon, <1>8, <2>1
  <1>12. RowsAnswered(lv, an) /\ DeadServed(es, ow, an)
    <2>1. an.of = "none" BY Zenon, <1>1, <1>7
    <2> QED BY Zenon, <2>1, Unanswered
  <1>13. Settled(es, ow, mk, lv, an)
    BY Zenon, <1>9, <1>10, <1>11, <1>12 DEF Settled
  <1>14. IsLive(lv)
    BY Zenon, <1>1, <1>6
  <1>15. lv = live' /\ an = answer' /\ problem' = problem /\ phase' = "ready"
    BY Zenon, <1>2, <1>6, <1>7, <1>8
  <1> QED BY ONLY <1>1, <1>15, <1>3, <1>4, <1>5, <1>13, <1>14, ReadyKept, Zenon

LEMMA TierStep == RouterInv /\ BuildOnTier => RouterInv'
  <1> SUFFICES ASSUME RouterInv, BuildOnTier PROVE RouterInv'
    OBVIOUS
  <1>1. phase = "tier" /\ UNCHANGED <<problem, live, answer>>
    BY Zenon DEF BuildOnTier
  <1>2. phase # "ready"
    BY ONLY <1>1
  <1>3. CASE Built(FALSE)
    BY Zenon, <1>1, <1>2, <1>3, BuiltIs
  <1>4. CASE phase' = "horizons"
    <2>1. /\ problem \in Problems /\ IsLive(live) /\ AsQuoted(live) /\ answer.of = "none"
          /\ problem' = problem /\ live' = live /\ answer' = answer
      BY Zenon, <1>1, <1>2 DEF RouterInv
    <2>2. IsLive(live)' /\ AsQuoted(live)'
      BY Zenon, <2>1 DEF IsLive, AsQuoted, Rows
    <2>3. phase' # "ready" /\ phase' \in {"tier", "horizons", "ready"}
      BY ONLY <1>4
    <2> QED BY Zenon, <2>1, <2>2, <2>3 DEF RouterInv
  <1> QED BY Zenon, <1>3, <1>4 DEF BuildOnTier

LEMMA HorizonsStep == RouterInv /\ BuildOnHorizons => RouterInv'
  <1> SUFFICES ASSUME RouterInv, BuildOnHorizons PROVE RouterInv'
    OBVIOUS
  <1>1. phase = "horizons" /\ Built(Mixed) /\ UNCHANGED <<problem, live, answer>>
    BY Zenon DEF BuildOnHorizons
  <1>2. phase # "ready"
    BY ONLY <1>1
  <1>3. Mixed \in BOOLEAN
    BY Zenon DEF Mixed
  <1> QED BY Zenon, <1>1, <1>2, <1>3, BuiltIs

\* What a built router's steps start from.
LEMMA ReadyIs ==
    ASSUME RouterInv, phase = "ready"
    PROVE  /\ problem \in Problems /\ IsLive(live)
           /\ EnginesFit(engines, live) /\ Owned(engines, owner) /\ market \in [Rows -> Int]
  BY Zenon DEF RouterInv, Settled

\* A requote leaves the owner an engine of the new quote and every other engine as it was.
LEMMA RequoteIs ==
    ASSUME problem \in Problems, NEW es, NEW lv, EnginesFit(es, lv), NEW ow, Owned(es, ow), NEW r \in Rows,
           NEW lw, NEW b, Rebanded(lv, lw, r, b),
           NEW g, g.rows = es[ow[r]].rows, g.of = es[ow[r]].of, IsEngine(g, lw)
    PROVE  EnginesFit([es EXCEPT ![ow[r]] = g], lw) /\ Owned([es EXCEPT ![ow[r]] = g], ow)
  <1>1. PICK k \in DOMAIN es : k = ow[r]
    BY Zenon DEF Owned
  <1>2. PICK j \in DOMAIN es[k].rows : es[k].rows[j] = r
    BY Zenon, <1>1 DEF Owned
  <1>3. PICK fs : fs = [es EXCEPT ![k] = g]
    BY Zenon
  <1>4. EnginesFit(fs, lw)
    <2>1. Rebanded(lv, lw, es[k].rows[j], b) BY Zenon, <1>2
    <2>2. g.rows = es[k].rows /\ g.of = es[k].of BY Zenon, <1>1
    <2>3. EnginesFit([es EXCEPT ![k] = g], lw)
      BY ONLY EnginesFit(es, lv), k \in DOMAIN es, j \in DOMAIN es[k].rows, <2>1, <2>2, IsEngine(g, lw), OwnerTakes, Zenon
    <2> QED BY Zenon, <1>3, <2>3
  <1>5. DOMAIN fs = DOMAIN es /\ \A h \in DOMAIN es : fs[h].rows = es[h].rows
    <2>1. DOMAIN fs = DOMAIN es /\ fs[k] = g /\ \A h \in DOMAIN es : h # k => fs[h] = es[h] BY ONLY <1>1, <1>3, Zenon
    <2> QED BY Zenon, <1>1, <2>1
  <1>6. Owned(fs, ow)
    BY Zenon, <1>5 DEF Owned
  <1> QED BY Zenon, <1>1, <1>3, <1>4, <1>6

LEMMA SettledAfresh ==
    ASSUME RouterInv, phase = "ready", phase' = phase, problem' = problem, owner' = owner, answer' = NoAnswer,
           NEW es, es = engines', NEW lv, lv = live', NEW mk, mk = market',
           EnginesFit(es, lv), Owned(es, owner), IsLive(lv), mk \in [Rows -> Int]
    PROVE  RouterInv'
  <1>1. PICK an : an = answer'
    BY Zenon
  <1>2. an.of = "none"
    <2>1. an = NoAnswer BY Zenon, <1>1
    <2> QED BY ONLY <2>1 DEF NoAnswer
  <1>3. PICK ow : ow = owner
    BY Zenon
  <1>4. RowsAnswered(lv, an) /\ DeadServed(es, ow, an)
    BY Zenon, <1>2, Unanswered
  <1>5. Settled(es, ow, mk, lv, an)
    BY Zenon, <1>3, <1>4 DEF Settled
  <1>6. problem \in Problems /\ phase' = "ready" /\ ow = owner'
    BY Zenon, <1>3 DEF RouterInv
  <1> QED BY ONLY <1>1, <1>5, <1>6, problem' = problem, es = engines', lv = live', mk = market', IsLive(lv), ReadyKept, Zenon

LEMMA TargetsAreIntegers == Targets \subseteq Int /\ Bands \subseteq [lo : Int, up : Int, dc : 0..Unit]
  <1>1. Targets \subseteq Targets \cup LiveTargets
    BY Zenon
  <1> QED BY Zenon, <1>1, RouterAssumption

LEMMA SetQuoteStep ==
    ASSUME RouterInv, NEW r \in Rows, NEW m0 \in Targets, NEW b \in Bands, SetQuote(r, m0, b)
    PROVE  RouterInv'
  <1>1. /\ phase = "ready" /\ phase' = phase /\ problem' = problem /\ owner' = owner /\ answer' = NoAnswer
        /\ market' = [market EXCEPT ![r] = m0]
        /\ engines' = [engines EXCEPT ![owner[r]] = Requoted(@, r, m0, b)]
        /\ live' = [live EXCEPT ![r] = [m |-> m0, band |-> b]]
    BY Zenon DEF SetQuote
  <1>2. /\ problem \in Problems /\ IsLive(live)
        /\ EnginesFit(engines, live) /\ Owned(engines, owner) /\ market \in [Rows -> Int]
    BY Zenon, <1>1, ReadyIs
  <1>3. PICK es : es = engines'
    BY Zenon
  <1>4. PICK lv : lv = live'
    BY Zenon
  <1>5. PICK mk : mk = market'
    BY Zenon
  <1>6. m0 \in Int /\ b \in [lo : Int, up : Int, dc : 0..Unit]
    BY Zenon, TargetsAreIntegers
  <1>7. DOMAIN live = Rows
    BY Zenon, <1>2 DEF IsLive
  <1>8. PICK z : z = [m |-> m0, band |-> b]
    BY Zenon
  <1>9. z.band = b /\ z \in [m : Int, band : [lo : Int, up : Int, dc : 0..Unit]]
    <2>1. PICK B : B = [lo : Int, up : Int, dc : 0..Unit] BY Zenon
    <2>2. b \in B /\ m0 \in Int BY Zenon, <1>6, <2>1
    <2>3. z.band = b /\ z \in [m : Int, band : B] BY ONLY <1>8, <2>2
    <2> QED BY Zenon, <2>1, <2>3
  <1>10. lv[r] = z /\ \A i \in Rows : i # r => lv[i] = live[i]
    BY ONLY <1>1, <1>4, <1>7, <1>8, r \in Rows, Zenon
  <1>11. IsLive(lv)
    BY Zenon, <1>1, <1>2, <1>4, <1>8, <1>9 DEF IsLive
  <1>12. Rebanded(live, lv, r, b)
    BY Zenon, <1>9, <1>10 DEF Rebanded
  <1>13. PICK k \in DOMAIN engines : k = owner[r]
    BY Zenon, <1>2 DEF Owned
  <1>14. PICK j \in DOMAIN engines[k].rows : engines[k].rows[j] = r
    BY Zenon, <1>2, <1>13 DEF Owned
  <1>15. PICK e : e = engines[k]
    BY Zenon
  <1>16. PICK g : g = Requoted(e, r, m0, b)
    BY Zenon
  <1>17. IsEngine(e, live)
    BY Zenon, <1>2, <1>15 DEF EnginesFit
  <1>18. IsEngine(g, lv) /\ g.rows = e.rows /\ g.of = e.of
    <2>1. j \in DOMAIN e.rows /\ e.rows[j] = r BY Zenon, <1>14, <1>15
    <2>2. PICK le : le = live BY Zenon
    <2>3. problem \in Problems /\ IsEngine(e, le) /\ Rebanded(le, lv, r, b) BY Zenon, <1>2, <1>12, <1>17, <2>2
    <2>4. \E i \in DOMAIN e.rows : e.rows[i] = r BY Zenon, <2>1
    <2>5. TakenFrom(g, e, lv) BY ONLY <2>3, <2>4, <1>16, RequotedIs, Zenon
    <2> QED BY Zenon, <2>5 DEF TakenFrom
  <1>19. es = [engines EXCEPT ![owner[r]] = g]
    BY Zenon, <1>1, <1>3, <1>13, <1>15, <1>16
  <1>20. EnginesFit(es, lv) /\ Owned(es, owner)
    <2>1. g.rows = engines[owner[r]].rows /\ g.of = engines[owner[r]].of /\ IsEngine(g, lv) BY Zenon, <1>13, <1>15, <1>18
    <2>2. EnginesFit([engines EXCEPT ![owner[r]] = g], lv) /\ Owned([engines EXCEPT ![owner[r]] = g], owner)
      BY ONLY <1>2, <1>12, <2>1, r \in Rows, RequoteIs
    <2> QED BY Zenon, <1>19, <2>2
  <1>21. mk \in [Rows -> Int]
    BY Zenon, <1>1, <1>2, <1>5, <1>6
  <1> QED BY ONLY RouterInv, <1>1, <1>3, <1>4, <1>5, <1>11, <1>20, <1>21, SettledAfresh, Zenon

LEMMA SetMarketStep ==
    ASSUME RouterInv, NEW r \in Rows, NEW m0 \in Targets, SetMarket(r, m0)
    PROVE  RouterInv'
  <1>1. /\ phase = "ready" /\ phase' = phase /\ problem' = problem /\ owner' = owner /\ answer' = NoAnswer
        /\ market' = [market EXCEPT ![r] = m0]
        /\ engines' = [engines EXCEPT ![owner[r]] = Retargeted(@, r, m0)]
        /\ live' = [live EXCEPT ![r].m = m0]
    BY Zenon DEF SetMarket
  <1>2. /\ problem \in Problems /\ IsLive(live)
        /\ EnginesFit(engines, live) /\ Owned(engines, owner) /\ market \in [Rows -> Int]
    BY Zenon, <1>1, ReadyIs
  <1>3. PICK es : es = engines'
    BY Zenon
  <1>4. PICK lv : lv = live'
    BY Zenon
  <1>5. PICK mk : mk = market'
    BY Zenon
  <1>6. m0 \in Int
    BY Zenon, TargetsAreIntegers
  <1>7. DOMAIN live = Rows /\ live[r] \in [m : Int, band : [lo : Int, up : Int, dc : 0..Unit]]
    BY Zenon, <1>2 DEF IsLive
  <1>8. PICK z : z = [live[r] EXCEPT !.m = m0]
    BY Zenon
  <1>9. z.band = live[r].band /\ z \in [m : Int, band : [lo : Int, up : Int, dc : 0..Unit]]
    <2>1. PICK B : B = [lo : Int, up : Int, dc : 0..Unit] BY Zenon
    <2>2. PICK y : y = live[r] BY Zenon
    <2>3. y \in [m : Int, band : B] /\ m0 \in Int /\ z = [y EXCEPT !.m = m0] BY Zenon, <1>6, <1>7, <1>8, <2>1, <2>2
    <2>4. z.band = y.band /\ z \in [m : Int, band : B] BY ONLY <2>3
    <2> QED BY Zenon, <2>1, <2>2, <2>4
  <1>10. lv = [live EXCEPT ![r] = z]
    BY Zenon, <1>1, <1>4, <1>8
  <1>11. lv[r] = z /\ \A i \in Rows : i # r => lv[i] = live[i]
    BY ONLY <1>7, <1>10, r \in Rows, Zenon
  <1>12. IsLive(lv)
    BY Zenon, <1>2, <1>9, <1>10 DEF IsLive
  <1>13. PICK b : b = live[r].band
    BY Zenon
  <1>14. Rebanded(live, lv, r, live[r].band)
    BY Zenon, <1>9, <1>11 DEF Rebanded
  <1>15. PICK k \in DOMAIN engines : k = owner[r]
    BY Zenon, <1>2 DEF Owned
  <1>16. PICK j \in DOMAIN engines[k].rows : engines[k].rows[j] = r
    BY Zenon, <1>2, <1>15 DEF Owned
  <1>17. PICK e : e = engines[k]
    BY Zenon
  <1>18. PICK g : g = Retargeted(e, r, m0)
    BY Zenon
  <1>19. IsEngine(e, live)
    BY Zenon, <1>2, <1>17 DEF EnginesFit
  <1>20. IsEngine(g, lv) /\ g.rows = e.rows /\ g.of = e.of
    <2>1. j \in DOMAIN e.rows /\ e.rows[j] = r BY Zenon, <1>16, <1>17
    <2>2. /\ IsEngine(Retargeted(e, r, m0), lv)
          /\ Retargeted(e, r, m0).rows = e.rows /\ Retargeted(e, r, m0).of = e.of
      BY ONLY <1>19, <2>1, <1>14, RetargetedIs
    <2> QED BY Zenon, <1>18, <2>2
  <1>21. es = [engines EXCEPT ![owner[r]] = g]
    BY Zenon, <1>1, <1>3, <1>15, <1>17, <1>18
  <1>22. EnginesFit(es, lv) /\ Owned(es, owner)
    <2>1. g.rows = engines[owner[r]].rows /\ g.of = engines[owner[r]].of /\ IsEngine(g, lv) BY Zenon, <1>15, <1>17, <1>20
    <2>2. Rebanded(live, lv, r, b) BY Zenon, <1>13, <1>14
    <2>3. EnginesFit([engines EXCEPT ![owner[r]] = g], lv) /\ Owned([engines EXCEPT ![owner[r]] = g], owner)
      BY ONLY <1>2, <2>2, <2>1, r \in Rows, RequoteIs
    <2> QED BY Zenon, <1>21, <2>3
  <1>23. mk \in [Rows -> Int]
    BY Zenon, <1>1, <1>2, <1>5, <1>6
  <1> QED BY ONLY RouterInv, <1>1, <1>3, <1>4, <1>5, <1>12, <1>22, <1>23, SettledAfresh, Zenon

\* A pass over the engines fits them, and leaves them engines of the same quotes.
LEMMA PassingFits ==
    ASSUME problem \in Problems, NEW es, NEW lv, EnginesFit(es, lv), NEW x, IsState(x, Knots), NEW pass,
           NEW order \in Orders, NEW ps, ps = [k \in DOMAIN es |-> Passed(es[k], x, pass, order)]
    PROVE  PassesFit(ps, es, lv, x) /\ \A k \in DOMAIN ps : ListsFit(ps[k])
  <1>1. ASSUME NEW k \in DOMAIN es PROVE PassFits(ps[k], es[k], lv, x) /\ ListsFit(ps[k])
    <2>1. PICK e : e = es[k] BY Zenon
    <2>2. IsEngine(e, lv) BY Zenon, <2>1 DEF EnginesFit
    <2>3. PassFits(Passed(e, x, pass, order), e, lv, x) /\ ListsFit(Passed(e, x, pass, order))
      BY ONLY problem \in Problems, <2>2, IsState(x, Knots), order \in Orders, PassedIs
    <2>4. ps[k] = Passed(e, x, pass, order) BY Zenon, <2>1
    <2> QED BY Zenon, <2>1, <2>3, <2>4
  <1>2. DOMAIN ps = DOMAIN es
    BY Zenon
  <1> QED BY Zenon, <1>1, <1>2 DEF PassesFit

LEMMA PassedEnginesFit ==
    ASSUME NEW es, NEW lv, EnginesFit(es, lv), NEW x, NEW ps, PassesFit(ps, es, lv, x),
           NEW fs, fs = [k \in DOMAIN es |-> ps[k].engine], NEW ow, Owned(es, ow)
    PROVE  EnginesFit(fs, lv) /\ Owned(fs, ow)
  <1>1. DOMAIN fs = DOMAIN es
    BY Zenon
  <1>2. \A k \in DOMAIN es : fs[k].rows = es[k].rows /\ fs[k].of = es[k].of /\ IsEngine(fs[k], lv)
    BY Zenon DEF PassesFit, PassFits
  <1>3. EnginesFit(fs, lv)
    BY ONLY EnginesFit(es, lv), <1>1, <1>2, EnginesSame
  <1>4. Owned(fs, ow)
    BY ZenonT(60), <1>1, <1>2 DEF Owned
  <1> QED BY Zenon, <1>3, <1>4

LEMMA PointsAreStates == \A x \in Points : IsState(x, Knots)
  <1>1. \A x \in Points : x \in [Knots -> Int]
    BY Zenon, RouterAssumption
  <1> QED BY Zenon, <1>1 DEF IsState

\* A feed's targets can be asked against the live quotes.
LEMMA FeedsAreQuotable ==
    ASSUME RouterInv, phase = "ready", NEW q0 \in Feeds
    PROVE  Quotable(live, q0)
  <1>1. market \in [Rows -> Int] /\ IsLive(live)
    BY Zenon, ReadyIs
  <1>2. q0 = market \/ \E m0 \in LiveTargets : q0 = [r \in Rows |-> m0]
    BY Zenon DEF Feeds
  <1>3. \A m0 \in LiveTargets : m0 \in Int
    BY Zenon, RouterAssumption
  <1>4. ASSUME NEW r \in Rows PROVE q0[r] \in Int
    BY Zenon, <1>1, <1>2, <1>3
  <1>5. ASSUME NEW r \in Rows PROVE Valid(r, q0[r], live[r].band)
    BY Zenon DEF Feeds
  <1>6. ASSUME NEW r \in Rows PROVE IsQuoteBand(live[r].band)
    <2>1. live[r] \in [m : Int, band : [lo : Int, up : Int, dc : 0..Unit]] BY Zenon, <1>1 DEF IsLive
    <2>2. PICK z : z = live[r] BY Zenon
    <2>3. PICK B : B = [lo : Int, up : Int, dc : 0..Unit] BY Zenon
    <2>4. z \in [m : Int, band : B] BY Zenon, <2>1, <2>2, <2>3
    <2>5. z.band \in B BY ONLY <2>4
    <2> QED BY Zenon, <2>2, <2>3, <2>5 DEF IsQuoteBand
  <1> QED BY Zenon, <1>4, <1>5, <1>6 DEF Quotable

\* An evaluation's step is judged by its answer.
LEMMA EvaluationStep ==
    ASSUME RouterInv, phase = "ready", UNCHANGED <<problem, phase, owner, market, live>>,
           NEW es, es = engines', NEW an, an = answer', EnginesFit(es, live), Owned(es, owner),
           RowsAnswered(live, an), DeadServed(es, owner, an)
    PROVE  RouterInv'
  <1>1. /\ problem \in Problems /\ IsLive(live) /\ market \in [Rows -> Int]
        /\ problem' = problem /\ phase' = "ready" /\ owner' = owner /\ market' = market /\ live' = live
    <2>1. problem \in Problems /\ IsLive(live) /\ market \in [Rows -> Int] BY Zenon, ReadyIs
    <2> QED BY Zenon, <2>1
  <1>2. PICK ow : ow = owner
    BY Zenon
  <1>3. PICK mk : mk = market
    BY Zenon
  <1>4. PICK lv : lv = live
    BY Zenon
  <1>5. Settled(es, ow, mk, lv, an)
    BY Zenon, <1>1, <1>2, <1>3, <1>4 DEF Settled
  <1>6. IsLive(lv) /\ ow = owner' /\ mk = market' /\ lv = live'
    BY Zenon, <1>1, <1>2, <1>3, <1>4
  <1> QED BY ONLY <1>1, <1>5, <1>6, es = engines', an = answer', ReadyKept, Zenon

LEMMA AnsweredRows ==
    ASSUME NEW an, NEW of, NEW x, NEW q0, NEW served, NEW lv, Answering(an, of, x, q0, served, lv),
           of \in {"rates", "residuals", "jacobian"}
    PROVE  RowsAnswered(lv, an)
  <1>1. "rates" # "residuals" /\ "rates" # "jacobian"
    OBVIOUS
  <1> QED BY Zenon, <1>1 DEF Answering, RowsAnswered

LEMMA ResidualsStep ==
    ASSUME RouterInv, NEW x \in Points, NEW q0 \in Feeds, NEW order \in Orders, Residuals(x, q0, order)
    PROVE  RouterInv'
  <1>1. PICK ps : ps = [k \in DOMAIN engines |-> Passed(engines[k], x, "residuals", order)]
    BY Zenon
  <1>2. PICK es : es = engines'
    BY Zenon
  <1>3. PICK an : an = answer'
    BY Zenon
  <1>4. /\ phase = "ready" /\ UNCHANGED <<problem, phase, owner, market, live>>
        /\ es = [k \in DOMAIN engines |-> ps[k].engine]
        /\ an = Answer("residuals", x, q0, ps, NoDead)
    BY Zenon, <1>1, <1>2, <1>3 DEF Residuals
  <1>5. problem \in Problems /\ EnginesFit(engines, live) /\ Owned(engines, owner)
    BY Zenon, <1>4, ReadyIs
  <1>6. IsState(x, Knots) /\ Quotable(live, q0)
    BY Zenon, <1>4, PointsAreStates, FeedsAreQuotable
  <1>7. PassesFit(ps, engines, live, x) /\ \A k \in DOMAIN ps : ListsFit(ps[k])
    BY ONLY <1>1, <1>5, <1>6, order \in Orders, PassingFits
  <1>8. PassesFit(ps, engines, live, x) /\ Askable("residuals", live, x, q0, ps)
    BY Zenon, <1>6, <1>7 DEF Askable
  <1>9. EnginesFit(es, live) /\ Owned(es, owner)
    BY ONLY <1>4, <1>5, <1>8, PassedEnginesFit
  <1>10. Answering(an, "residuals", x, q0, NoDead, live)
    BY ONLY <1>4, <1>5, <1>8, AnswerIs
  <1>11. RowsAnswered(live, an)
    <2>1. PICK of : of = "residuals" BY Zenon
    <2>2. of \in {"rates", "residuals", "jacobian"} /\ Answering(an, of, x, q0, NoDead, live) BY Zenon, <1>10, <2>1
    <2> QED BY ONLY <2>2, AnsweredRows
  <1>12. DeadServed(es, owner, an)
    <2>1. an.of = "residuals" BY Zenon, <1>10 DEF Answering
    <2>2. an.of # "jacobian" BY ONLY <2>1
    <2> QED BY Zenon, <2>2 DEF DeadServed
  <1> QED BY ONLY RouterInv, <1>2, <1>3, <1>4, <1>9, <1>11, <1>12, EvaluationStep, Zenon

LEMMA ModelRatesStep ==
    ASSUME RouterInv, NEW x \in Points, ModelRates(x)
    PROVE  RouterInv'
  <1>1. PICK ps : ps = [k \in DOMAIN engines |-> RatesPassed(engines[k], x)]
    BY Zenon
  <1>2. PICK es : es = engines'
    BY Zenon
  <1>3. PICK an : an = answer'
    BY Zenon
  <1>4. /\ phase = "ready" /\ UNCHANGED <<problem, phase, owner, market, live>>
        /\ es = [k \in DOMAIN engines |-> ps[k].engine]
        /\ an = Answer("rates", x, market, ps, NoDead)
    BY Zenon, <1>1, <1>2, <1>3 DEF ModelRates, RatesPassed
  <1>5. problem \in Problems /\ EnginesFit(engines, live) /\ Owned(engines, owner)
    BY Zenon, <1>4, ReadyIs
  <1>6. PassesFit(ps, engines, live, x)
    <2>1. ASSUME NEW k \in DOMAIN engines PROVE PassFits(ps[k], engines[k], live, x)
      <3>1. PICK e : e = engines[k] BY Zenon
      <3>2. PICK lv : lv = live BY Zenon
      <3>3. IsEngine(e, lv) BY Zenon, <1>5, <3>1, <3>2 DEF EnginesFit
      <3>4. PassFits(RatesPassed(e, x), e, lv, x)
        BY ONLY <1>5, <3>3, RatesPassedIs
      <3>5. ps[k] = RatesPassed(e, x) BY Zenon, <1>1, <3>1
      <3> QED BY Zenon, <3>1, <3>2, <3>4, <3>5
    <2>2. DOMAIN ps = DOMAIN engines BY Zenon, <1>1
    <2> QED BY Zenon, <2>1, <2>2 DEF PassesFit
  <1>7. PICK q0 : q0 = market
    BY Zenon
  <1>8. PassesFit(ps, engines, live, x) /\ Askable("rates", live, x, q0, ps) /\ an = Answer("rates", x, q0, ps, NoDead)
    BY Zenon, <1>4, <1>6, <1>7 DEF Askable
  <1>9. EnginesFit(es, live) /\ Owned(es, owner)
    BY ONLY <1>4, <1>5, <1>8, PassedEnginesFit
  <1>10. Answering(an, "rates", x, q0, NoDead, live)
    BY ONLY <1>5, <1>8, AnswerIs
  <1>11. RowsAnswered(live, an)
    <2>1. PICK of : of = "rates" BY Zenon
    <2>2. of \in {"rates", "residuals", "jacobian"} /\ Answering(an, of, x, q0, NoDead, live) BY Zenon, <1>10, <2>1
    <2> QED BY ONLY <2>2, AnsweredRows
  <1>12. DeadServed(es, owner, an)
    <2>1. an.of = "rates" BY Zenon, <1>10 DEF Answering
    <2>2. an.of # "jacobian" BY ONLY <2>1
    <2> QED BY Zenon, <2>2 DEF DeadServed
  <1> QED BY ONLY RouterInv, <1>2, <1>3, <1>4, <1>9, <1>11, <1>12, EvaluationStep, Zenon

LEMMA JacobianStep ==
    ASSUME RouterInv, NEW x \in Points, NEW q0 \in Feeds, Jacobian(x, q0)
    PROVE  RouterInv'
  <1>1. PICK ps : ps = [k \in DOMAIN engines |-> Passed(engines[k], x, "jacobian", "recorded")]
    BY Zenon
  <1>2. PICK es : es = engines'
    BY Zenon
  <1>3. PICK an : an = answer'
    BY Zenon
  <1>4. /\ phase = "ready" /\ UNCHANGED <<problem, phase, owner, market, live>>
        /\ es = [k \in DOMAIN engines |-> Swept(ps[k], q0, x)]
        /\ an = Answer("jacobian", x, q0, ps, ServedDead(es))
    BY Zenon, <1>1, <1>2, <1>3 DEF Jacobian
  <1>5. problem \in Problems /\ EnginesFit(engines, live) /\ Owned(engines, owner)
    BY Zenon, <1>4, ReadyIs
  <1>6. IsState(x, Knots) /\ Quotable(live, q0)
    BY Zenon, <1>4, PointsAreStates, FeedsAreQuotable
  <1>7. PassesFit(ps, engines, live, x) /\ \A k \in DOMAIN ps : ListsFit(ps[k])
    <2>1. "recorded" \in Orders BY Zenon DEF Orders
    <2> QED BY ONLY <1>1, <1>5, <1>6, <2>1, PassingFits
  <1>8. PassesFit(ps, engines, live, x) /\ Askable("jacobian", live, x, q0, ps)
    BY Zenon, <1>6, <1>7 DEF Askable
  <1>9. ASSUME NEW k \in DOMAIN engines PROVE SweptFits(es[k], engines[k], live, x, q0)
    <2>1. PICK p : p = ps[k] BY Zenon
    <2>2. PICK e : e = engines[k] BY Zenon
    <2>3. PICK g : g = Swept(p, q0, x) BY Zenon
    <2>4. PassFits(p, e, live, x) /\ ListsFit(p) BY Zenon, <1>7, <2>1, <2>2 DEF PassesFit
    <2>5. SweptFits(g, e, live, x, q0)
      BY ONLY <1>5, <1>6, <2>3, <2>4, SweptIs
    <2>6. es[k] = g BY Zenon, <1>4, <2>1, <2>3
    <2> QED BY Zenon, <2>2, <2>5, <2>6
  <1>10. DOMAIN es = DOMAIN engines
    BY Zenon, <1>4
  <1>11. EnginesFit(es, live)
    <2>1. \A k \in DOMAIN engines : es[k].rows = engines[k].rows /\ es[k].of = engines[k].of /\ IsEngine(es[k], live)
      BY Zenon, <1>9 DEF SweptFits
    <2> QED BY ONLY <1>5, <1>10, <2>1, EnginesSame
  <1>12. Owned(es, owner)
    BY Zenon, <1>5, <1>9, <1>10 DEF Owned, SweptFits
  <1>13. PICK served : served = ServedDead(es)
    BY Zenon
  <1>14. ServedFits(served, es, owner, live, x, q0)
    <2>1. \A k \in DOMAIN es : DeadFits(es[k], live, x, q0) BY Zenon, <1>9, <1>10 DEF SweptFits
    <2>2. ServedFits(ServedDead(es), es, owner, live, x, q0) BY ONLY <1>11, <1>12, <2>1, ServedDeadIs
    <2> QED BY Zenon, <1>13, <2>2
  <1>15. an = Answer("jacobian", x, q0, ps, served)
    BY Zenon, <1>4, <1>13
  <1>16. Answering(an, "jacobian", x, q0, served, live)
    BY ONLY <1>5, <1>8, <1>15, AnswerIs
  <1>17. RowsAnswered(live, an)
    <2>1. PICK of : of = "jacobian" BY Zenon
    <2>2. of \in {"rates", "residuals", "jacobian"} /\ Answering(an, of, x, q0, served, live) BY Zenon, <1>16, <2>1
    <2> QED BY ONLY <2>2, AnsweredRows
  <1>18. DeadServed(es, owner, an)
    <2>1. "jacobian" # "rates" OBVIOUS
    <2>2. \A r \in Rows : an.rows[r] = Due(r, live, x, q0) BY Zenon, <1>16, <2>1 DEF Answering
    <2>3. an.dead = served.dead /\ an.deadJ = served.deadJ /\ an.x = x BY Zenon, <1>16 DEF Answering
    <2>4. \A r : r \in {an.dead[k] : k \in DOMAIN an.dead} <=> r \in Rows /\ es[owner[r]].of = "compiled" /\ an.rows[r].slope = 0
      <3>1. \A r : r \in {served.dead[k] : k \in DOMAIN served.dead}
                      <=> r \in Rows /\ es[owner[r]].of = "compiled" /\ Due(r, live, x, q0).slope = 0
        BY Zenon, <1>14 DEF ServedFits
      <3>2. {an.dead[k] : k \in DOMAIN an.dead} = {served.dead[k] : k \in DOMAIN served.dead} BY Zenon, <2>3
      <3>3. \A r \in Rows : (an.rows[r].slope = 0) <=> (Due(r, live, x, q0).slope = 0) BY Zenon, <2>2
      <3> QED BY Zenon, <3>1, <3>2, <3>3
    <2>5. {an.dead[k] : k \in DOMAIN an.dead} = {r \in Rows : es[owner[r]].of = "compiled" /\ an.rows[r].slope = 0}
      BY Zenon, <2>4
    <2>6. \A k \in DOMAIN an.dead : an.deadJ[k] = <<an.dead[k], an.x>>
      BY Zenon, <1>14, <2>3 DEF ServedFits
    <2> QED BY Zenon, <2>5, <2>6 DEF DeadServed
  <1> QED BY ONLY RouterInv, <1>2, <1>3, <1>4, <1>11, <1>12, <1>17, <1>18, EvaluationStep, Zenon

\* Every step of the router keeps its invariant.
LEMMA RouterStep == RouterInv /\ [Next]_vars => RouterInv'
  <1> SUFFICES ASSUME RouterInv, [Next]_vars PROVE RouterInv'
    OBVIOUS
  <1>1. CASE BuildOnTier
    BY Zenon, <1>1, TierStep
  <1>2. CASE BuildOnHorizons
    BY Zenon, <1>2, HorizonsStep
  <1>3. ASSUME NEW r \in Rows, NEW m0 \in Targets, NEW b \in Bands, SetQuote(r, m0, b) PROVE RouterInv'
    BY Zenon, <1>3, SetQuoteStep
  <1>4. ASSUME NEW r \in Rows, NEW m0 \in Targets, SetMarket(r, m0) PROVE RouterInv'
    BY Zenon, <1>4, SetMarketStep
  <1>5. ASSUME NEW x \in Points, NEW q0 \in Feeds, NEW order \in Orders, Residuals(x, q0, order) PROVE RouterInv'
    BY Zenon, <1>5, ResidualsStep
  <1>6. ASSUME NEW x \in Points, NEW q0 \in Feeds, Jacobian(x, q0) PROVE RouterInv'
    BY Zenon, <1>6, JacobianStep
  <1>7. ASSUME NEW x \in Points, ModelRates(x) PROVE RouterInv'
    BY Zenon, <1>7, ModelRatesStep
  <1>8. CASE UNCHANGED vars
    <2>1. /\ problem' = problem /\ phase' = phase /\ engines' = engines /\ owner' = owner /\ market' = market
          /\ live' = live /\ answer' = answer
      BY Zenon, <1>8 DEF vars
    <2>2. CASE phase = "ready"
      <3>1. Settled(engines, owner, market, live, answer) /\ IsLive(live) /\ problem \in Problems
        BY Zenon, <2>2 DEF RouterInv
      <3>2. PICK es : es = engines BY Zenon
      <3>3. PICK ow : ow = owner BY Zenon
      <3>4. PICK mk : mk = market BY Zenon
      <3>5. PICK lv : lv = live BY Zenon
      <3>6. PICK an : an = answer BY Zenon
      <3>7. Settled(es, ow, mk, lv, an) /\ IsLive(lv) BY Zenon, <3>1, <3>2, <3>3, <3>4, <3>5, <3>6
      <3>8. /\ es = engines' /\ ow = owner' /\ mk = market' /\ lv = live' /\ an = answer' /\ phase' = "ready"
            /\ problem' = problem
        BY Zenon, <2>1, <2>2, <3>2, <3>3, <3>4, <3>5, <3>6
      <3> QED BY ONLY <3>1, <3>7, <3>8, ReadyKept, Zenon
    <2>3. CASE phase # "ready"
      <3>1. problem \in Problems /\ IsLive(live) /\ AsQuoted(live) /\ answer.of = "none" /\ phase \in {"tier", "horizons", "ready"}
        BY Zenon, <2>3 DEF RouterInv
      <3>2. IsLive(live)' /\ AsQuoted(live)' BY Zenon, <2>1, <3>1 DEF IsLive, AsQuoted, Rows
      <3> QED BY Zenon, <2>1, <2>3, <3>1, <3>2 DEF RouterInv
    <2> QED BY Zenon, <2>2, <2>3
  <1> QED BY Zenon, <1>1, <1>2, <1>3, <1>4, <1>5, <1>6, <1>7, <1>8 DEF Next

LEMMA RouterAlways == Spec => []RouterInv
  <1> QED BY RouterInit, RouterStep, PTL DEF Spec

LEMMA InvariantAnswers ==
    ASSUME RouterInv
    PROVE  RowsAnswered(live, answer) /\ DeadServed(engines, owner, answer)
  <1>1. CASE phase = "ready"
    BY Zenon, <1>1 DEF RouterInv, Settled
  <1>2. CASE phase # "ready"
    <2>1. PICK an : an = answer BY Zenon
    <2>2. an.of = "none" BY Zenon, <1>2, <2>1 DEF RouterInv
    <2>3. RowsAnswered(live, an) /\ DeadServed(engines, owner, an) BY Zenon, <2>2, Unanswered
    <2> QED BY Zenon, <2>1, <2>3
  <1> QED BY Zenon, <1>1, <1>2

\* Whatever the bundle and its partition, every evaluation answers each row by its quote at the
\* state it was given and by the map of the band the row carries now, through tables and
\* play-lists whose cursor is in any place, a list of maps edited in place or rebuilt, or the
\* kernel.
THEOREM RowsAnsweredByLiveBands == Spec => []AnsweredByLiveBands
  <1>1. RouterInv => AnsweredByLiveBands
    <2> SUFFICES ASSUME RouterInv PROVE AnsweredByLiveBands
      OBVIOUS
    <2>1. RowsAnswered(live, answer) BY Zenon, InvariantAnswers
    <2> QED BY Zenon, <2>1 DEF RowsAnswered, AnsweredByLiveBands, Due, Rows
  <1> QED BY <1>1, RouterAlways, PTL

\* After a Jacobian the dead rows served are the cached rows whose map is flat at the state of
\* the pass, under their global numbers and with the quote row of that state.
THEOREM DeadRowsAreServed == Spec => []DeadRowsServed
  <1>1. RouterInv => DeadRowsServed
    BY Zenon, InvariantAnswers DEF DeadServed, DeadRowsServed
  <1> QED BY <1>1, RouterAlways, PTL
=============================================================================
