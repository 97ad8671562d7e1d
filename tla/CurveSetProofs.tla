---------------------------- MODULE CurveSetProofs ----------------------------
(***************************************************************************)
(* What CurveSet says of its answers, for any curve sets, any knot values  *)
(* and evaluations in any order.                                           *)
(*                                                                         *)
(* An engine is Sound when its copies of the weights agree, the weights no *)
(* state moves are what they are, and each tangent curve and the memo of   *)
(* W.dir speak of the weights installed; it is Synced when every tracked   *)
(* curve's weights are those of its recorded pattern (EngInv is both).  It *)
(* is Exact when corrections and discounts are those of the states they    *)
(* are marked with.  Each step of the engine keeps EngInv; Exact only      *)
(* where no bundle has two tangent curves (OneTangent).                    *)
(*                                                                         *)
(* The steps fold over sets of curves, and the folds are CHOOSEn           *)
(* functions: the first section shows that what is chosen exists, by       *)
(* least counterexamples.                                                  *)
(***************************************************************************)
EXTENDS CurveSet, FiniteSetTheorems, WellFoundedInduction, TLAPS

------------------------------------------------------------------------------
(* Induction, in the form of least counterexamples. *)

\* A nonempty set of naturals has a least member.
LEMMA Least == ASSUME NEW T \in SUBSET Nat, T # {} PROVE \E u \in T : \A v \in T : u <= v
  <1> DEFINE R == {ss \in Nat \X Nat : ss[1] < ss[2]}
  <1>1. IsWellFoundedOn(R, Nat)
    BY NatLessThanWellFounded DEF OpToRel
  <1> HIDE DEF R
  <1>2. PICK u \in T : \A v \in T : ~ (<<v, u>> \in R)
    BY <1>1, WFMin, Zenon
  <1>3. \A v \in T : ~(v < u)
    BY <1>2 DEF R
  <1> QED BY <1>3

\* A family of subsets that is closed under adding a member has the whole set.
LEMMA SubsetInduction ==
    ASSUME NEW S, IsFiniteSet(S), NEW T, {} \in T,
           \A D \in SUBSET S : (D # {} /\ \A c \in D : D \ {c} \in T) => D \in T
    PROVE  S \in T
  <1> DEFINE Bad == {n \in Nat : \E D \in SUBSET S : D \notin T /\ Cardinality(D) = n}
  <1>1. \A D \in SUBSET S : IsFiniteSet(D) /\ Cardinality(D) \in Nat
    BY FS_Subset, FS_CardinalityType
  <1>2. SUFFICES ASSUME S \notin T PROVE FALSE
    OBVIOUS
  <1>3. Bad # {}
    BY <1>1, <1>2
  <1>4. PICK n \in Bad : \A v \in Bad : n <= v
    <2>1. Bad \in SUBSET Nat OBVIOUS
    <2> HIDE DEF Bad
    <2> QED BY Zenon, <1>3, <2>1, Least
  <1>5. PICK D \in SUBSET S : D \notin T /\ Cardinality(D) = n
    OBVIOUS
  <1>6. PICK c \in D : D \ {c} \notin T
    BY <1>5
  <1>7. Cardinality(D \ {c}) = n - 1 /\ n - 1 \in Nat
    <2>1. IsFiniteSet(D) /\ D # {}
      BY <1>1, <1>5
    <2>2. Cardinality(D \ {c}) = Cardinality(D) - 1
      BY <2>1, FS_RemoveElement
    <2>3. Cardinality(D \ {c}) \in Nat
      BY <1>1
    <2> QED BY <1>5, <2>2, <2>3
  <1>8. n - 1 \in Bad
    BY <1>6, <1>7
  <1>9. n <= n - 1
    BY <1>8, <1>4
  <1> QED BY <1>9, <1>4

------------------------------------------------------------------------------
(* Folding a step over a finite set of curves: what FoldSet iterates exists. *)

Next1(D) == CHOOSE c \in D : TRUE
Iterates(f, cs, s, F) ==
    \A D \in SUBSET cs : f[D] = IF D = {} THEN s ELSE F[<<Next1(D), f[D \ {Next1(D)}]>>]

LEMMA IteratesExist ==
    ASSUME NEW cs, IsFiniteSet(cs), NEW V, NEW s \in V, NEW F \in [cs \X V -> V]
    PROVE  \E f \in [SUBSET cs -> V] : Iterates(f, cs, s, F)
  <1> DEFINE Upto(f, n) == \A D \in SUBSET cs : Cardinality(D) <= n =>
                            f[D] = IF D = {} THEN s ELSE F[<<Next1(D), f[D \ {Next1(D)}]>>]
             Bad == {n \in Nat : ~ \E f \in [SUBSET cs -> V] : Upto(f, n)}
  <1>1. \A D \in SUBSET cs : IsFiniteSet(D) /\ Cardinality(D) \in Nat
    BY FS_Subset, FS_CardinalityType
  <1>2. \A D \in SUBSET cs : D # {} => Next1(D) \in D
    BY DEF Next1
  <1>3. Bad = {}
    <2>1. SUFFICES ASSUME Bad # {} PROVE FALSE
      OBVIOUS
    <2>2. PICK n \in Bad : \A v \in Bad : n <= v
      <3>1. Bad \in SUBSET Nat OBVIOUS
      <3> HIDE DEF Bad
      <3> QED BY Zenon, <2>1, <3>1, Least
    <2>3. n \in Nat /\ \A f \in [SUBSET cs -> V] : ~Upto(f, n)
      OBVIOUS
    <2>4. PICK f \in [SUBSET cs -> V] : n > 0 => Upto(f, n - 1)
      <3>1. CASE n = 0
        <4>1. [D \in SUBSET cs |-> s] \in [SUBSET cs -> V] OBVIOUS
        <4>2. ~(n > 0) BY SMT, <3>1
        <4> QED BY Zenon, <4>1, <4>2
      <3>2. CASE n # 0
        <4>1. n - 1 \in Nat /\ ~(n <= n - 1) BY <2>3, <3>2
        <4>2. n - 1 \notin Bad BY <4>1, <2>2
        <4> QED BY <4>1, <4>2
      <3> QED BY <3>1, <3>2
    <2> DEFINE h == [D \in SUBSET cs |-> IF D = {} THEN s ELSE F[<<Next1(D), f[D \ {Next1(D)}]>>]]
    <2>5. h \in [SUBSET cs -> V]
      <3>1. ASSUME NEW D \in SUBSET cs, D # {} PROVE F[<<Next1(D), f[D \ {Next1(D)}]>>] \in V
        <4>1. Next1(D) \in cs /\ D \ {Next1(D)} \in SUBSET cs BY Zenon, <1>2, <3>1
        <4>2. f[D \ {Next1(D)}] \in V BY Zenon, <4>1
        <4>3. <<Next1(D), f[D \ {Next1(D)}]>> \in cs \X V BY Zenon, <4>1, <4>2
        <4> QED BY Zenon, <4>3
      <3> QED BY Zenon, <3>1
    <2>6. Upto(h, n)
      <3> SUFFICES ASSUME NEW D \in SUBSET cs, Cardinality(D) <= n
                   PROVE  h[D] = IF D = {} THEN s ELSE F[<<Next1(D), h[D \ {Next1(D)}]>>]
        BY Zenon
      <3>1. CASE D = {}
        BY Zenon, <3>1
      <3>2. CASE D # {}
        <4>1. D \ {Next1(D)} \in SUBSET cs /\ Cardinality(D \ {Next1(D)}) = Cardinality(D) - 1 /\ Cardinality(D) \in Nat
              /\ Cardinality(D \ {Next1(D)}) \in Nat
          BY <1>1, <1>2, <3>2, FS_RemoveElement
        <4>2. n > 0 /\ Cardinality(D \ {Next1(D)}) <= n - 1
          BY SMT, <4>1, <2>3
        <4>3. f[D \ {Next1(D)}] = h[D \ {Next1(D)}]
          BY Zenon, <4>1, <4>2, <2>4
        <4> QED BY Zenon, <3>2, <4>3
      <3> QED BY Zenon, <3>1, <3>2
    <2> QED BY Zenon, <2>3, <2>5, <2>6
  <1>4. Cardinality(cs) \in Nat /\ \A D \in SUBSET cs : Cardinality(D) <= Cardinality(cs)
    BY FS_Subset, FS_CardinalityType
  <1>5. PICK f \in [SUBSET cs -> V] : Upto(f, Cardinality(cs))
    BY Zenon, <1>3, <1>4
  <1>6. Iterates(f, cs, s, F)
    BY Zenon, <1>4, <1>5 DEF Iterates
  <1> QED BY Zenon, <1>6

------------------------------------------------------------------------------
(* The curves of a bundle. *)

LEMMA SeqElement == ASSUME NEW S, NEW q \in Seq(S), NEW i \in 1..Len(q) PROVE q[i] \in S
  BY SMT

LEMMA CurvesTyped ==
    ASSUME curves \in CurveSets
    PROVE  /\ \E n \in Nat : Ids = 1..n
           /\ IsFiniteSet(Ids)
           /\ \A c \in Ids : /\ curves[c].kind \in {"linear", "cell", "opaque", "tangent"}
                             /\ curves[c].base \in Nat /\ curves[c].base < c
                             /\ curves[c].base # 0 => curves[c].base \in Ids
  <1>1. curves \in Seq([kind : {"linear", "cell", "opaque", "tangent"}, base : Nat])
    BY CurveSetAssumption
  <1>2. PICK n \in Nat : n = Len(curves) /\ DOMAIN curves = 1..n
    BY SMT, <1>1
  <1>3. Ids = 1..n
    BY <1>2 DEF Ids
  <1>4. IsFiniteSet(1..n)
    BY FS_Interval
  <1>5. ASSUME NEW c \in Ids
        PROVE  /\ curves[c].kind \in {"linear", "cell", "opaque", "tangent"}
               /\ curves[c].base \in Nat /\ curves[c].base < c
               /\ curves[c].base # 0 => curves[c].base \in Ids
    <2>1. curves[c] \in [kind : {"linear", "cell", "opaque", "tangent"}, base : Nat]
      <3>1. c \in 1..Len(curves) BY <1>2, <1>3
      <3> QED BY Zenon, <1>1, <3>1, SeqElement
    <2>2. curves[c].base < c
      BY Zenon, CurveSetAssumption DEF Ids
    <2>3. PICK b \in Nat : b = curves[c].base /\ curves[c].kind \in {"linear", "cell", "opaque", "tangent"}
      BY Zenon, <2>1
    <2>4. b < c /\ c \in 1..n
      BY Zenon, <1>3, <2>2, <2>3
    <2>5. b # 0 => b \in 1..n
      BY SMT, <2>4
    <2> QED BY Zenon, <1>3, <2>3, <2>4, <2>5
  <1> QED BY Zenon, <1>3, <1>4, <1>5

\* The chain of bases below every curve, as one function.
IsChain(f) == f = [c \in Ids |-> IF curves[c].base = 0 THEN {c} ELSE {c} \cup f[curves[c].base]]

\* There is one: of the sets closed under taking the base, the least around a curve.
LEMMA ChainExists == ASSUME curves \in CurveSets PROVE \E f : IsChain(f)
  <1> DEFINE Closed(S) == \A c \in S : curves[c].base # 0 => curves[c].base \in S
             h == [c \in Ids |-> {a \in Ids : \A S \in SUBSET Ids : Closed(S) /\ c \in S => a \in S}]
  <1>1. ASSUME NEW c \in Ids PROVE h[c] = IF curves[c].base = 0 THEN {c} ELSE {c} \cup h[curves[c].base]
    <2>1. c \in h[c]
      BY Zenon
    <2>2. CASE curves[c].base = 0
      <3>1. Closed({c}) /\ {c} \in SUBSET Ids
        BY Zenon, <2>2
      <3>2. h[c] \subseteq {c}
        BY Zenon, <3>1
      <3> QED BY Zenon, <2>1, <2>2, <3>2
    <2>3. CASE curves[c].base # 0
      <3>1. PICK b \in Ids : b = curves[c].base
        BY Zenon, <2>3, CurvesTyped
      <3>2. h[b] \subseteq h[c]
        BY Zenon, <2>3, <3>1
      <3>3. b \in h[b] /\ h[b] \in SUBSET Ids
        BY Zenon
      <3>4. Closed({c} \cup h[b]) /\ {c} \cup h[b] \in SUBSET Ids
        <4>1. ASSUME NEW e \in h[b], curves[e].base # 0 PROVE curves[e].base \in h[b]
          <5>1. curves[e].base \in Ids
            BY Zenon, <4>1, <3>3, CurvesTyped
          <5> QED BY Zenon, <4>1, <5>1
        <4> QED BY Zenon, <4>1, <3>1, <3>3
      <3>5. h[c] \subseteq {c} \cup h[b]
        BY Zenon, <3>4
      <3>6. h[c] = {c} \cup h[b]
        <4> HIDE DEF h
        <4> QED BY Zenon, <2>1, <3>2, <3>5
      <3> QED BY Zenon, <2>3, <3>1, <3>6
    <2> QED BY Zenon, <2>2, <2>3
  <1>2. IsChain(h)
    BY Zenon, <1>1 DEF IsChain
  <1> QED BY Zenon, <1>2

LEMMA AncestryIsChain ==
    ASSUME curves \in CurveSets
    PROVE  \E f : IsChain(f) /\ \A d : Ancestry(d) = f[d]
  <1> DEFINE f == CHOOSE chain : IsChain(chain)
  <1>1. IsChain(f)
    BY Zenon, ChainExists
  <1>2. \A d : Ancestry(d) = f[d]
    BY DEF Ancestry, IsChain
  <1> QED BY Zenon, <1>1, <1>2

\* A curve's ancestry is of curves, its own first.
LEMMA AncestryTyped ==
    ASSUME curves \in CurveSets, NEW d \in Ids
    PROVE  d \in Ancestry(d) /\ Ancestry(d) \subseteq Ids
  <1>1. PICK f : IsChain(f) /\ \A e : Ancestry(e) = f[e]
    BY Zenon, AncestryIsChain
  <1>2. \A c \in Ids : f[c] = IF curves[c].base = 0 THEN {c} ELSE {c} \cup f[curves[c].base]
    BY Zenon, <1>1 DEF IsChain
  <1>3. PICK n \in Nat : Ids = 1..n
    BY Zenon, CurvesTyped
  <1> DEFINE Bad == {c \in Nat : c \in Ids /\ ~(f[c] \subseteq Ids)}
  <1>4. Bad = {}
    <2>1. SUFFICES ASSUME Bad # {} PROVE FALSE
      OBVIOUS
    <2>2. PICK c \in Bad : \A v \in Bad : c <= v
      <3>1. Bad \in SUBSET Nat OBVIOUS
      <3> HIDE DEF Bad
      <3> QED BY Zenon, <2>1, <3>1, Least
    <2>3. CASE curves[c].base = 0
      BY Zenon, <2>3, <1>2
    <2>4. CASE curves[c].base # 0
      <3>1. PICK b \in Nat : b = curves[c].base /\ b < c /\ b \in Ids
        BY Zenon, <2>4, CurvesTyped
      <3>2. ~(c <= b) /\ c \in Nat
        BY SMT, <3>1
      <3>3. b \notin Bad
        BY Zenon, <3>2, <2>2
      <3>4. f[b] \subseteq Ids
        BY Zenon, <3>1, <3>3
      <3> QED BY Zenon, <3>1, <3>4, <2>4, <1>2
    <2> QED BY Zenon, <2>3, <2>4
  <1>5. d \in Nat
    BY SMT, <1>3
  <1> QED BY Zenon, <1>1, <1>2, <1>4, <1>5

------------------------------------------------------------------------------
(* What a curve weighs. *)

Patterns == SUBSET Nodes
Times == {1, 2}

LEMMA FormulaTyped == ASSUME NEW j \in Nodes, NEW kept PROVE Formula(j, kept) \in Int
  <1>1. CASE kept
    BY SMT, <1>1 DEF Formula, Nodes
  <1>2. CASE ~kept
    BY SMT, <1>2 DEF Formula
  <1> QED BY Zenon, <1>1, <1>2

\* A pattern's weight, written out; before the region it is the linear part alone.
LEMMA PatternWeightIs ==
    ASSUME NEW p, NEW t \in Times
    PROVE  /\ PatternWeight(p, t) = L(t) + (B(t, 1) * Formula(1, 1 \in p) + B(t, 2) * Formula(2, 2 \in p))
           /\ PatternWeight(p, t) \in Int
           /\ PatternWeight(p, 1) = 1
  <1>1. \A u \in Times : PatternWeight(p, u) = L(u) + (B(u, 1) * Formula(1, 1 \in p) + B(u, 2) * Formula(2, 2 \in p))
    BY Zenon DEF PatternWeight, OverNodes
  <1>2. PICK m \in Int, n \in Int : m = Formula(1, 1 \in p) /\ n = Formula(2, 2 \in p)
    BY Zenon, FormulaTyped DEF Nodes
  <1>3. L(t) + (B(t, 1) * m + B(t, 2) * n) \in Int /\ L(1) + (B(1, 1) * m + B(1, 2) * n) = 1
    BY SMT DEF L, B, Times
  <1>4. 1 \in Times BY Zenon DEF Times
  <1> QED BY Zenon, <1>1, <1>2, <1>3, <1>4

LEMMA PatternTyped ==
    ASSUME NEW v \in Int
    PROVE  Pattern(v) \in Patterns /\ (Pattern(v) = {} <=> v = 0)
  BY SMT DEF Pattern, Patterns, Nodes

LEMMA AadWeightIs ==
    ASSUME NEW v \in Int, NEW t \in Times
    PROVE  /\ AadWeight(v, t) \in Int
           /\ AadWeight(v, 1) = 1
           /\ v # 0 => AadWeight(v, t) = PatternWeight(Pattern(v), t)
  <1>1. 1 \in Times BY Zenon DEF Times
  <1> QED BY Zenon, <1>1, PatternWeightIs DEF AadWeight

LEMMA TangentTyped == ASSUME NEW v \in Int, NEW t \in Times PROVE Tangent(v, t) \in Int
  BY SMT DEF Tangent, Times

\* A curve is linear, tracked or a tangent, and no two of these.
LEMMA Kinds ==
    ASSUME curves \in CurveSets, NEW a \in Ids
    PROVE  /\ curves[a].kind = "linear" \/ a \in Tracked \/ a \in Tangents
           /\ a \in Tracked => a \notin Tangents /\ curves[a].kind # "linear"
           /\ a \in Tangents => curves[a].kind # "linear"
  BY Zenon, CurvesTyped DEF Tracked, Tangents

LEMMA WeightAtIs ==
    ASSUME curves \in CurveSets, NEW a \in Ids, NEW v \in Int, NEW t \in Times
    PROVE  /\ WeightAt(a, v, t) \in Int
           /\ curves[a].kind = "linear" => WeightAt(a, v, t) = t
           /\ a \in Tracked => WeightAt(a, v, t) = AadWeight(v, t)
           /\ a \in Tangents => WeightAt(a, v, t) = Tangent(v, t)
  <1>1. CASE curves[a].kind = "linear"
    <2>1. WeightAt(a, v, t) = t BY Zenon, <1>1 DEF WeightAt
    <2>2. t \in Int BY SMT DEF Times
    <2> QED BY Zenon, <1>1, <2>1, <2>2, Kinds
  <1>2. CASE a \in Tracked
    <2>1. WeightAt(a, v, t) = AadWeight(v, t) BY Zenon, <1>2, Kinds DEF WeightAt, Tracked, Tangents
    <2> QED BY Zenon, <1>2, <2>1, AadWeightIs, Kinds
  <1>3. CASE a \in Tangents
    <2>1. WeightAt(a, v, t) = Tangent(v, t) BY Zenon, <1>3, Kinds DEF WeightAt, Tracked, Tangents
    <2> QED BY Zenon, <1>3, <2>1, TangentTyped, Kinds
  <1> QED BY Zenon, <1>1, <1>2, <1>3, Kinds

LEMMA IntegralIs ==
    ASSUME curves \in CurveSets, NEW a \in Ids, NEW v \in Int, NEW t \in Times
    PROVE  /\ Integral(a, v, t) \in Int
           /\ curves[a].kind = "linear" => Integral(a, v, t) = t * v
           /\ a \in Tracked => Integral(a, v, t) = PatternWeight(Pattern(v), t) * v
  <1>1. CASE curves[a].kind = "linear"
    <2>1. Integral(a, v, t) = t * v BY Zenon, <1>1 DEF Integral
    <2>2. t * v \in Int BY SMT DEF Times
    <2> QED BY Zenon, <1>1, <2>1, <2>2, Kinds
  <1>2. CASE a \in Tracked
    <2>1. Integral(a, v, t) = PatternWeight(Pattern(v), t) * v BY Zenon, <1>2, Kinds DEF Integral, Tracked, Tangents
    <2>2. PICK w \in Int : w = PatternWeight(Pattern(v), t) BY Zenon, PatternWeightIs
    <2>3. w * v \in Int BY SMT
    <2> QED BY Zenon, <1>2, <2>1, <2>2, <2>3, Kinds
  <1>3. CASE a \in Tangents
    <2>1. Integral(a, v, t) = IF t = 1 THEN v ELSE v * v BY Zenon, <1>3, Kinds DEF Integral, Tracked, Tangents
    <2>2. v * v \in Int BY SMT
    <2> QED BY Zenon, <1>3, <2>1, <2>2, Kinds
  <1> QED BY Zenon, <1>1, <1>2, <1>3, Kinds

LEMMA PointTyped == ASSUME NEW g \in Points PROVE g[1] \in Ids /\ g[2] \in Times
  BY Zenon DEF Points, Times

LEMMA StateTyped == ASSUME NEW x \in States, NEW a \in Ids PROVE x[a] \in Knots /\ x[a] \in Int
  BY Zenon, CurveSetAssumption DEF States
------------------------------------------------------------------------------
(* The engine's data. *)

Weights == [Points -> [Ids -> Int]]
Memos == {<<>>} \cup {<<x>> : x \in States}
KnotMemos == {<<>>} \cup {<<v>> : v \in Knots}
DirMemos == {<<>>} \cup {<<d>> : d \in Directions}

Engines(df, wdir) ==
    [W : Weights, blk : Weights, Wt : Weights, span : [Points -> SUBSET Ids],
     cached : [Tracked -> {NoPattern} \cup Patterns], M : [Tracked -> [Nodes -> Int]], synced : BOOLEAN,
     xc : [Tangents -> KnotMemos], corr : Weights, corrX : Memos,
     df : {df}, dfX : Memos, dfStale : BOOLEAN,
     dir : DirMemos, wdir : {wdir}, wdirStale : BOOLEAN]

\* The transpose and the blocks are copies of the weights, and a point's span covers them.
CopiesOf(w, blk, wt, span) ==
    \A g \in Points : \A a \in Ids :
        /\ blk[g][a] = w[g][a]
        /\ wt[g][a] = w[g][a]
        /\ w[g][a] # 0 => a \in span[g]
Copies(s) == CopiesOf(s.W, s.blk, s.Wt, s.span)

\* The weights no state moves: off a point's ancestry, of a linear curve, before a region.
ShapeOf(w) ==
    \A g \in Points : \A a \in Ids :
        /\ a \notin Ancestry(g[1]) => w[g][a] = 0
        /\ a \in Ancestry(g[1]) /\ curves[a].kind = "linear" => w[g][a] = g[2]
        /\ a \in Ancestry(g[1]) /\ a \in Tracked /\ g[2] = 1 => w[g][a] = 1
Shaped(s) == ShapeOf(s.W)

\* A tangent curve's weights are the tangent at the knot they were taken at.
Tang(s) ==
    \A c \in Tangents : \A v \in Knots :
        s.xc[c] = <<v>> => \A g \in Points : c \in Ancestry(g[1]) => s.W[g][c] = Tangent(v, g[2])

Along(w, d) == [g \in Points |-> Total([a \in Ids |-> w[g][a] * d[a]])]
Wdir(s) == \A d \in Directions : ~s.wdirStale /\ s.dir = <<d>> => s.wdir = Along(s.W, d)

Sound(s) == s \in Engines(s.df, s.wdir) /\ Copies(s) /\ Shaped(s) /\ Tang(s) /\ Wdir(s)

\* A correction is the one at the state it was taken at, to the weights installed.
CorrOf(s, x, c) ==
    \A g \in Points : c \in Ancestry(g[1]) => s.corr[g][c] = Integral(c, x[c], g[2]) - s.W[g][c] * x[c]
Corr(s) == \A x \in States : s.corrX = <<x>> => \A c \in Tangents : CorrOf(s, x, c)
Memo(s) == \A x \in States : s.dfX = <<x>> => s.df = [g \in Points |-> LogDiscount(g, x)]

\* A tracked curve's weights are those of its recorded pattern; a flat opaque curve's need
\* not be.
OnRows(s, c, p) == \A g \in Points : c \in Ancestry(g[1]) => s.W[g][c] = PatternWeight(p, g[2])
FormulasOf(p) == [j \in Nodes |-> Formula(j, j \in p)]
TrackOf(s, c) ==
    /\ s.cached[c] \in Patterns
    /\ curves[c].kind = "cell" => s.M[c] = FormulasOf(s.cached[c]) /\ OnRows(s, c, s.cached[c])
    /\ curves[c].kind = "opaque" => s.cached[c] = {} \/ OnRows(s, c, s.cached[c])

LEMMA DeltaRowsIs ==
    ASSUME curves \in CurveSets, NEW c \in Tracked \cup Tangents, NEW g \in Points
    PROVE  /\ c \in Ids
           /\ c \in Tracked => (g \in DeltaRows(c) <=> c \in Ancestry(g[1]) /\ g[2] = 2)
           /\ c \in Tangents => (g \in DeltaRows(c) <=> c \in Ancestry(g[1]))
           /\ g \in DeltaRows(c) => curves[c].kind # "linear"
  <1>1. c \in Ids BY Zenon DEF Tracked, Tangents
  <1>2. c \in Tracked => c \notin Tangents BY Zenon, <1>1, Kinds
  <1>3. curves[c].kind # "linear" BY Zenon, <1>1, Kinds
  <1> QED BY Zenon, <1>1, <1>2, <1>3 DEF DeltaRows

MovedEntries(w, c, D) ==
    \A g \in Points : \A a \in Ids :
        Moved(w, c, D)[g][a] = IF g \in DeltaRows(c) /\ a = c THEN w[g][c] + D[g] ELSE w[g][a]

LEMMA MovedIs ==
    ASSUME curves \in CurveSets, NEW c \in Tracked \cup Tangents, NEW D \in [DeltaRows(c) -> Int], NEW w \in Weights
    PROVE  Moved(w, c, D) \in Weights /\ MovedEntries(w, c, D)
  <1>1. c \in Ids BY Zenon DEF Tracked, Tangents
  <1>2. ASSUME NEW g \in Points
        PROVE  /\ w[g] \in [Ids -> Int]
               /\ g \in DeltaRows(c) => D[g] \in Int /\ [w[g] EXCEPT ![c] = @ + D[g]] \in [Ids -> Int]
    <2>1. w[g] \in [Ids -> Int] BY Zenon DEF Weights
    <2>2. ASSUME g \in DeltaRows(c) PROVE D[g] \in Int /\ [w[g] EXCEPT ![c] = @ + D[g]] \in [Ids -> Int]
      <3>1. PICK u \in Int, d \in Int : u = w[g][c] /\ d = D[g] BY Zenon, <2>1, <2>2, <1>1
      <3>2. u + d \in Int BY SMT
      <3> QED BY Zenon, <3>1, <3>2, <2>1
    <2> QED BY Zenon, <2>1, <2>2
  <1>3. Moved(w, c, D) \in Weights
    BY Zenon, <1>2 DEF Moved, Weights
  <1>4. ASSUME NEW g \in Points, NEW a \in Ids
        PROVE Moved(w, c, D)[g][a] = IF g \in DeltaRows(c) /\ a = c THEN w[g][c] + D[g] ELSE w[g][a]
    BY Zenon, <1>1, <1>2 DEF Moved
  <1> QED BY Zenon, <1>3, <1>4 DEF MovedEntries

\* A delta, field by field.
DeltaFields(s, c, D, t) ==
    /\ t \in Engines(s.df, s.wdir)
    /\ t.W = Moved(s.W, c, D) /\ t.blk = Moved(s.blk, c, D) /\ t.Wt = Moved(s.Wt, c, D)
    /\ t.span = [g \in Points |-> IF g \in DeltaRows(c) THEN s.span[g] \cup {c} ELSE s.span[g]]
    /\ t.cached = s.cached /\ t.M = s.M /\ t.synced = s.synced /\ t.xc = s.xc /\ t.corr = s.corr
    /\ t.corrX = s.corrX /\ t.df = s.df /\ t.dfX = s.dfX /\ t.dir = s.dir /\ t.wdir = s.wdir
    /\ t.wdirStale = TRUE

LEMMA DeltaIs ==
    ASSUME curves \in CurveSets, NEW c \in Tracked \cup Tangents, NEW D \in [DeltaRows(c) -> Int],
           NEW s, s \in Engines(s.df, s.wdir), NEW t, t = ApplyDelta(s, c, D)
    PROVE  DeltaFields(s, c, D, t)
  <1>1. s.W \in Weights /\ s.blk \in Weights /\ s.Wt \in Weights /\ s.span \in [Points -> SUBSET Ids]
    BY Zenon DEF Engines
  <1>2. PICK w \in Weights, b \in Weights, v \in Weights :
            w = Moved(s.W, c, D) /\ b = Moved(s.blk, c, D) /\ v = Moved(s.Wt, c, D)
    <2>1. \A u \in Weights : Moved(u, c, D) \in Weights
      BY Zenon, MovedIs
    <2> QED BY ONLY <1>1, <2>1, Zenon
  <1>3. PICK n \in [Points -> SUBSET Ids] :
            n = [g \in Points |-> IF g \in DeltaRows(c) THEN s.span[g] \cup {c} ELSE s.span[g]]
    <2>1. c \in Ids BY Zenon DEF Tracked, Tangents
    <2> QED BY Zenon, <1>1, <2>1
  <1>4. t = [s EXCEPT !.W = w, !.blk = b, !.Wt = v, !.span = n, !.dfStale = TRUE, !.wdirStale = TRUE]
    BY Zenon, <1>2, <1>3 DEF ApplyDelta
  <1>5. t \in Engines(s.df, s.wdir)
    BY ZenonT(60), <1>4 DEF Engines
  <1>6. /\ t.W = w /\ t.blk = b /\ t.Wt = v /\ t.span = n
        /\ t.cached = s.cached /\ t.M = s.M /\ t.synced = s.synced /\ t.xc = s.xc /\ t.corr = s.corr
    BY ZenonT(60), <1>4 DEF Engines
  <1>7. /\ t.corrX = s.corrX /\ t.df = s.df /\ t.dfX = s.dfX /\ t.dir = s.dir /\ t.wdir = s.wdir
        /\ t.wdirStale = TRUE
    BY Zenon, <1>4 DEF Engines
  <1> QED BY Zenon, <1>2, <1>3, <1>5, <1>6, <1>7 DEF DeltaFields

\* A delta keeps the copies, the shape and, by marking it stale, W.dir.
LEMMA DeltaKeeps ==
    ASSUME curves \in CurveSets, NEW c \in Tracked \cup Tangents, NEW D \in [DeltaRows(c) -> Int],
           NEW s, s \in Engines(s.df, s.wdir), NEW t, t = ApplyDelta(s, c, D), Copies(s), Shaped(s)
    PROVE  Copies(t) /\ Shaped(t) /\ Wdir(t)
  <1>1. s.W \in Weights /\ s.blk \in Weights /\ s.Wt \in Weights
    BY Zenon DEF Engines
  <1>2. /\ t.W = Moved(s.W, c, D) /\ t.blk = Moved(s.blk, c, D) /\ t.Wt = Moved(s.Wt, c, D)
        /\ t.span = [g \in Points |-> IF g \in DeltaRows(c) THEN s.span[g] \cup {c} ELSE s.span[g]]
        /\ t.wdirStale = TRUE
    <2>1. DeltaFields(s, c, D, t) BY Zenon, DeltaIs
    <2> QED BY Zenon, <2>1 DEF DeltaFields
  <1>6. ASSUME NEW g \in Points, NEW a \in Ids
        PROVE  /\ t.W[g][a] = IF g \in DeltaRows(c) /\ a = c THEN s.W[g][c] + D[g] ELSE s.W[g][a]
               /\ t.blk[g][a] = IF g \in DeltaRows(c) /\ a = c THEN s.blk[g][c] + D[g] ELSE s.blk[g][a]
               /\ t.Wt[g][a] = IF g \in DeltaRows(c) /\ a = c THEN s.Wt[g][c] + D[g] ELSE s.Wt[g][a]
    <2>1. \A w \in Weights : \A h \in Points : \A e \in Ids :
              Moved(w, c, D)[h][e] = IF h \in DeltaRows(c) /\ e = c THEN w[h][c] + D[h] ELSE w[h][e]
      <3>1. \A w \in Weights : MovedEntries(w, c, D)
        BY Zenon, MovedIs
      <3> QED BY ONLY <3>1, Zenon DEF MovedEntries
    <2>2. PICK w \in Weights, b \in Weights, v \in Weights : w = s.W /\ b = s.blk /\ v = s.Wt
      BY Zenon, <1>1
    <2>3. CASE g \in DeltaRows(c) /\ a = c
      <3>1. /\ Moved(w, c, D)[g][a] = w[g][c] + D[g] /\ Moved(b, c, D)[g][a] = b[g][c] + D[g]
            /\ Moved(v, c, D)[g][a] = v[g][c] + D[g]
        BY Zenon, <2>1, <2>3
      <3> QED BY Zenon, <1>2, <2>2, <2>3, <3>1
    <2>4. CASE ~(g \in DeltaRows(c) /\ a = c)
      <3>1. Moved(w, c, D)[g][a] = w[g][a] /\ Moved(b, c, D)[g][a] = b[g][a] /\ Moved(v, c, D)[g][a] = v[g][a]
        BY ZenonT(60), <2>1, <2>4
      <3> QED BY Zenon, <1>2, <2>2, <2>4, <3>1
    <2> QED BY Zenon, <2>3, <2>4
  <1>3. ASSUME NEW g \in Points, NEW a \in Ids
        PROVE  /\ t.blk[g][a] = t.W[g][a] /\ t.Wt[g][a] = t.W[g][a]
               /\ t.W[g][a] # 0 => a \in t.span[g]
    <2>1. s.blk[g][a] = s.W[g][a] /\ s.Wt[g][a] = s.W[g][a] /\ (s.W[g][a] # 0 => a \in s.span[g])
      BY Zenon DEF Copies, CopiesOf
    <2>2. t.span[g] = IF g \in DeltaRows(c) THEN s.span[g] \cup {c} ELSE s.span[g]
      BY Zenon, <1>2
    <2>3. CASE g \in DeltaRows(c) /\ a = c
      <3>1. t.blk[g][a] = s.blk[g][c] + D[g] /\ t.Wt[g][a] = s.Wt[g][c] + D[g] /\ t.W[g][a] = s.W[g][c] + D[g]
        BY Zenon, <1>6, <2>3
      <3>2. a \in t.span[g]
        BY Zenon, <2>2, <2>3
      <3> QED BY Zenon, <2>1, <2>3, <3>1, <3>2
    <2>4. CASE ~(g \in DeltaRows(c) /\ a = c)
      <3>1. t.W[g][a] = s.W[g][a] /\ t.blk[g][a] = s.blk[g][a] /\ t.Wt[g][a] = s.Wt[g][a]
        BY Zenon, <1>6, <2>4
      <3>2. s.span[g] \subseteq t.span[g]
        BY Zenon, <2>2
      <3> QED BY Zenon, <3>1, <3>2, <2>1
    <2> QED BY Zenon, <2>3, <2>4
  <1>4. ASSUME NEW g \in Points, NEW a \in Ids
        PROVE  /\ a \notin Ancestry(g[1]) => t.W[g][a] = 0
               /\ a \in Ancestry(g[1]) /\ curves[a].kind = "linear" => t.W[g][a] = g[2]
               /\ a \in Ancestry(g[1]) /\ a \in Tracked /\ g[2] = 1 => t.W[g][a] = 1
    <2>1. CASE g \in DeltaRows(c) /\ a = c
      <3>1. a \in Ancestry(g[1]) /\ curves[a].kind # "linear"
        BY Zenon, <2>1, DeltaRowsIs
      <3>2. a \in Tracked => g[2] = 2
        BY Zenon, <2>1, DeltaRowsIs
      <3>3. 1 # 2 BY SMT
      <3> QED BY Zenon, <3>1, <3>2, <3>3
    <2>2. CASE ~(g \in DeltaRows(c) /\ a = c)
      <3>1. t.W[g][a] = s.W[g][a]
        BY Zenon, <1>6, <2>2
      <3> QED BY Zenon, <3>1 DEF Shaped, ShapeOf
    <2> QED BY Zenon, <2>1, <2>2
  <1>5. Wdir(t)
    BY Zenon, <1>2 DEF Wdir
  <1> QED BY Zenon, <1>3, <1>4, <1>5 DEF Copies, Shaped, CopiesOf, ShapeOf

SameElsewhere(s, t, c) == \A g \in Points : \A a \in Ids \ {c} : t.W[g][a] = s.W[g][a]

\* A delta on one curve leaves the others' weights, and what is said of them.
Spares(s, t, c, D) ==
    /\ SameElsewhere(s, t, c)
    /\ \A g \in DeltaRows(c) : t.W[g][c] = s.W[g][c] + D[g]
    /\ \A e \in Tracked \ {c} : \A p : OnRows(s, e, p) => OnRows(t, e, p)
    /\ \A e \in Tracked \ {c} : TrackOf(s, e) => TrackOf(t, e)
    /\ \A e \in Tangents \ {c} : \A x \in States : CorrOf(s, x, e) => CorrOf(t, x, e)

LEMMA DeltaElsewhere ==
    ASSUME curves \in CurveSets, NEW c \in Tracked \cup Tangents, NEW D \in [DeltaRows(c) -> Int],
           NEW s, s \in Engines(s.df, s.wdir), NEW t, t = ApplyDelta(s, c, D)
    PROVE  Spares(s, t, c, D)
  <1>1. s.W \in Weights
    BY Zenon DEF Engines
  <1>2. t.W = Moved(s.W, c, D) /\ t.cached = s.cached /\ t.M = s.M /\ t.corr = s.corr
    <2>1. DeltaFields(s, c, D, t) BY Zenon, DeltaIs
    <2> QED BY Zenon, <2>1 DEF DeltaFields
  <1>8. \A g \in Points : \A a \in Ids :
            Moved(s.W, c, D)[g][a] = IF g \in DeltaRows(c) /\ a = c THEN s.W[g][c] + D[g] ELSE s.W[g][a]
    <2>1. MovedEntries(s.W, c, D)
      BY Zenon, <1>1, MovedIs
    <2> QED BY ONLY <2>1, Zenon DEF MovedEntries
  <1>3. \A g \in Points : \A a \in Ids \ {c} : t.W[g][a] = s.W[g][a]
    BY Zenon, <1>8, <1>2
  <1>4. \A g \in DeltaRows(c) : t.W[g][c] = s.W[g][c] + D[g]
    <2>1. c \in Ids BY Zenon DEF Tracked, Tangents
    <2>2. \A g \in DeltaRows(c) : g \in Points BY Zenon DEF DeltaRows
    <2> QED BY Zenon, <2>1, <2>2, <1>8, <1>2
  <1>5. \A e \in Tracked \ {c} : \A p : OnRows(s, e, p) => OnRows(t, e, p)
    <2>1. \A e \in Tracked \ {c} : e \in Ids \ {c} BY Zenon DEF Tracked
    <2> QED BY Zenon, <2>1, <1>3 DEF OnRows
  <1>6. \A e \in Tracked \ {c} : TrackOf(s, e) => TrackOf(t, e)
    BY Zenon, <1>2, <1>5 DEF TrackOf
  <1>7. \A e \in Tangents \ {c} : \A x \in States : CorrOf(s, x, e) => CorrOf(t, x, e)
    <2>1. \A e \in Tangents \ {c} : e \in Ids \ {c} BY Zenon DEF Tangents
    <2> QED BY Zenon, <2>1, <1>2, <1>3 DEF CorrOf
  <1> QED BY Zenon, <1>3, <1>4, <1>5, <1>6, <1>7 DEF SameElsewhere, Spares

\* A delta on a tracked curve.
LEMMA TrackedDelta ==
    ASSUME curves \in CurveSets, NEW c \in Tracked, NEW D \in [DeltaRows(c) -> Int],
           NEW s, Sound(s), NEW t, t = ApplyDelta(s, c, D)
    PROVE  Sound(t) /\ (Corr(s) => Corr(t)) /\ (Memo(s) => Memo(t))
  <1>1. s \in Engines(s.df, s.wdir) /\ Copies(s) /\ Shaped(s) /\ Tang(s)
    BY Zenon DEF Sound
  <1>8. /\ t \in Engines(s.df, s.wdir) /\ t.df = s.df /\ t.wdir = s.wdir
        /\ t.xc = s.xc /\ t.corrX = s.corrX /\ t.dfX = s.dfX
    <2>1. DeltaFields(s, c, D, t) BY Zenon, <1>1, DeltaIs
    <2> QED BY Zenon, <2>1 DEF DeltaFields
  <1>2. /\ t \in Engines(t.df, t.wdir)
        /\ t.xc = s.xc /\ t.corrX = s.corrX /\ t.dfX = s.dfX /\ t.df = s.df
    BY Zenon, <1>8
  <1>3. Copies(t) /\ Shaped(t) /\ Wdir(t)
    BY Zenon, <1>1, DeltaKeeps
  <1>4. \A e \in Tangents : e \in Tangents \ {c} /\ e \in Ids \ {c}
    <2>1. c \in Ids BY Zenon DEF Tracked
    <2>2. c \notin Tangents BY Zenon, <2>1, Kinds
    <2> QED BY Zenon, <2>2 DEF Tangents
  <1>9. \A e \in Tangents : \A g \in Points : t.W[g][e] = s.W[g][e]
    <2>1. SameElsewhere(s, t, c)
      BY Zenon, <1>1, DeltaElsewhere DEF Spares
    <2> QED BY Zenon, <1>4, <2>1 DEF SameElsewhere
  <1>5. Tang(t)
    BY Zenon, <1>1, <1>2, <1>9 DEF Tang
  <1>6. Corr(s) => Corr(t)
    <2>1. Spares(s, t, c, D) BY Zenon, <1>1, DeltaElsewhere
    <2>2. \A e \in Tangents : \A x \in States : CorrOf(s, x, e) => CorrOf(t, x, e)
      BY Zenon, <1>4, <2>1 DEF Spares
    <2> QED BY Zenon, <1>2, <2>2 DEF Corr
  <1>7. Memo(s) => Memo(t)
    BY Zenon, <1>2 DEF Memo
  <1> QED BY Zenon, <1>2, <1>3, <1>5, <1>6, <1>7 DEF Sound

\* Two engines that agree on what these speak of.
Agree(s, t) ==
    /\ t.W = s.W /\ t.blk = s.blk /\ t.Wt = s.Wt /\ t.span = s.span /\ t.xc = s.xc /\ t.corr = s.corr
    /\ t.corrX = s.corrX /\ t.df = s.df /\ t.dfX = s.dfX /\ t.dir = s.dir /\ t.wdir = s.wdir
    /\ t.wdirStale = s.wdirStale

LEMMA AgreeKeeps ==
    ASSUME NEW s, Sound(s), NEW t, Agree(s, t), t \in Engines(s.df, s.wdir)
    PROVE  Sound(t) /\ (Corr(s) => Corr(t)) /\ (Memo(s) => Memo(t))
  <1>1. t \in Engines(t.df, t.wdir)
    BY Zenon DEF Agree
  <1>2. Copies(t) /\ Shaped(t)
    <2>1. Copies(s) /\ Shaped(s) BY Zenon DEF Sound
    <2>5. t.W = s.W /\ t.blk = s.blk /\ t.Wt = s.Wt /\ t.span = s.span BY Zenon DEF Agree
    <2>2. Copies(t) BY ONLY <2>1, <2>5, Zenon DEF Copies
    <2>4. t.W = s.W BY Zenon DEF Agree
    <2>3. Shaped(t) BY ONLY <2>1, <2>4, Zenon DEF Shaped
    <2> QED BY Zenon, <2>2, <2>3
  <1>3. Tang(t)
    BY Zenon DEF Agree, Sound, Tang
  <1>4. Wdir(t)
    BY Zenon DEF Agree, Sound, Wdir
  <1>5. Corr(s) => Corr(t)
    BY Zenon DEF Agree, Corr, CorrOf
  <1>6. Memo(s) => Memo(t)
    BY Zenon DEF Agree, Memo
  <1> QED BY Zenon, <1>1, <1>2, <1>3, <1>4, <1>5, <1>6 DEF Sound

RankTerm(p, q, m, h) ==
    (IF 1 \in p <=> 1 \in q THEN 0 ELSE B(h, 1) * (Formula(1, 1 \in p) - m[1]))
    + (IF 2 \in p <=> 2 \in q THEN 0 ELSE B(h, 2) * (Formula(2, 2 \in p) - m[2]))

\* What a rank-k update adds takes the weight of one pattern to that of the other.
LEMMA RankDelta ==
    ASSUME NEW p \in Patterns, NEW q \in Patterns, NEW m, m = FormulasOf(q), NEW h, h = 2
    PROVE  RankTerm(p, q, m, h) \in Int /\ PatternWeight(q, h) + RankTerm(p, q, m, h) = PatternWeight(p, h)
  <1>1. PICK a \in Int, b \in Int, e \in Int, f \in Int :
            a = Formula(1, 1 \in p) /\ b = Formula(2, 2 \in p) /\ e = Formula(1, 1 \in q) /\ f = Formula(2, 2 \in q)
    <2>1. 1 \in Nodes /\ 2 \in Nodes BY Zenon DEF Nodes
    <2> QED BY Zenon, <2>1, FormulaTyped
  <1>2. m[1] = e /\ m[2] = f
    BY Zenon, <1>1 DEF FormulasOf, Nodes
  <1>3. B(h, 1) = 1 /\ B(h, 2) = 2 /\ L(h) = 2
    BY SMT DEF L, B
  <1>4. (IF 1 \in p <=> 1 \in q THEN 0 ELSE B(h, 1) * (Formula(1, 1 \in p) - m[1])) = a - e
    <2>1. CASE 1 \in p <=> 1 \in q
      <3>1. a = e BY Zenon, <1>1, <2>1 DEF Formula
      <3>2. a - e = 0 BY SMT, <3>1
      <3> QED BY Zenon, <2>1, <3>2
    <2>2. CASE ~(1 \in p <=> 1 \in q)
      <3>1. 1 * (a - e) = a - e BY SMT
      <3> QED BY Zenon, <1>1, <1>2, <1>3, <2>2, <3>1
    <2> QED BY Zenon, <2>1, <2>2
  <1>5. (IF 2 \in p <=> 2 \in q THEN 0 ELSE B(h, 2) * (Formula(2, 2 \in p) - m[2])) = 2 * (b - f)
    <2>1. CASE 2 \in p <=> 2 \in q
      <3>1. b = f BY Zenon, <1>1, <2>1 DEF Formula
      <3>2. 2 * (b - f) = 0 BY SMT, <3>1
      <3> QED BY Zenon, <2>1, <3>2
    <2>2. CASE ~(2 \in p <=> 2 \in q)
      BY Zenon, <1>1, <1>2, <1>3, <2>2
    <2> QED BY Zenon, <2>1, <2>2
  <1>6. RankTerm(p, q, m, h) = (a - e) + 2 * (b - f)
    BY Zenon, <1>4, <1>5 DEF RankTerm
  <1>7. h \in Times BY Zenon DEF Times
  <1>8. PatternWeight(p, h) = 2 + (1 * a + 2 * b)
    BY Zenon, <1>1, <1>3, <1>7, PatternWeightIs
  <1>9. PatternWeight(q, h) = 2 + (1 * e + 2 * f)
    BY Zenon, <1>1, <1>3, <1>7, PatternWeightIs
  <1> QED BY SMT, <1>6, <1>8, <1>9

\* A rank-k update of a cell that tracks its pattern.
Ranked(s, t, c, p) ==
    /\ Sound(t) /\ (Corr(s) => Corr(t)) /\ (Memo(s) => Memo(t))
    /\ TrackOf(t, c) /\ t.cached[c] = p
    /\ \A e \in Tracked \ {c} : (TrackOf(s, e) => TrackOf(t, e)) /\ t.cached[e] = s.cached[e]
    /\ t.xc = s.xc /\ t.synced = s.synced /\ t.df = s.df /\ t.wdir = s.wdir

LEMMA RankUpdateIs ==
    ASSUME curves \in CurveSets, NEW c \in Tracked, curves[c].kind = "cell",
           NEW s, Sound(s), TrackOf(s, c), NEW p \in Patterns, NEW t, t = RankUpdate(s, c, p)
    PROVE  Ranked(s, t, c, p)
  <1> DEFINE q == s.cached[c]
             m == s.M[c]
             D == [g \in DeltaRows(c) |->
                     OverNodes(LAMBDA j : IF j \in p <=> j \in q THEN 0 ELSE B(g[2], j) * (Formula(j, j \in p) - m[j]))]
             u == ApplyDelta(s, c, D)
  <1>1. q \in Patterns /\ m = FormulasOf(q) /\ OnRows(s, c, q)
    BY Zenon DEF TrackOf
  <1>2. \A g \in DeltaRows(c) : g \in Points /\ c \in Ancestry(g[1]) /\ g[2] = 2
    <2>1. \A g \in DeltaRows(c) : g \in Points BY Zenon DEF DeltaRows
    <2> QED BY Zenon, <2>1, DeltaRowsIs
  <1>3. \A g \in DeltaRows(c) : D[g] \in Int /\ PatternWeight(q, 2) + D[g] = PatternWeight(p, 2)
    <2> SUFFICES ASSUME NEW g \in DeltaRows(c)
                 PROVE  D[g] \in Int /\ PatternWeight(q, 2) + D[g] = PatternWeight(p, 2)
      BY Zenon
    <2>1. D[g] = RankTerm(p, q, m, g[2])
      BY Zenon DEF OverNodes, RankTerm
    <2> HIDE DEF D, q, m
    <2>3. q \in Patterns /\ m = FormulasOf(q) /\ g[2] = 2
      BY Zenon, <1>1, <1>2
    <2>4. RankTerm(p, q, m, g[2]) \in Int /\ PatternWeight(q, g[2]) + RankTerm(p, q, m, g[2]) = PatternWeight(p, g[2])
      BY ONLY <2>3, p \in Patterns, RankDelta, Zenon
    <2>2. D[g] \in Int /\ PatternWeight(q, g[2]) + D[g] = PatternWeight(p, g[2])
      BY Zenon, <2>1, <2>4
    <2> QED BY Zenon, <1>2, <2>2
  <1>4. D \in [DeltaRows(c) -> Int]
    BY Zenon, <1>3
  <1>5. t = [u EXCEPT !.M[c] = FormulasOf(p), !.cached[c] = p]
    BY Zenon DEF RankUpdate, FormulasOf
  <1> HIDE DEF D
  <1>6. DeltaFields(s, c, D, u) /\ Sound(u) /\ (Corr(s) => Corr(u)) /\ (Memo(s) => Memo(u))
    <2>1. s \in Engines(s.df, s.wdir) BY Zenon DEF Sound
    <2> HIDE DEF u
    <2>2. u = ApplyDelta(s, c, D) BY Zenon DEF u
    <2> QED BY Zenon, <1>4, <2>1, <2>2, DeltaIs, TrackedDelta
  <1>7. /\ \A g \in DeltaRows(c) : u.W[g][c] = s.W[g][c] + D[g]
        /\ \A e \in Tracked \ {c} : TrackOf(s, e) => TrackOf(u, e)
    <2>1. s \in Engines(s.df, s.wdir) BY Zenon DEF Sound
    <2> HIDE DEF u
    <2>2. u = ApplyDelta(s, c, D) BY Zenon DEF u
    <2>3. Spares(s, u, c, D) BY Zenon, <1>4, <2>1, <2>2, DeltaElsewhere
    <2> QED BY Zenon, <2>3 DEF Spares
  <1> HIDE DEF u, q, m
  <1>8. /\ u \in Engines(s.df, s.wdir) /\ u.cached = s.cached /\ u.M = s.M
        /\ u.synced = s.synced /\ u.xc = s.xc /\ u.df = s.df /\ u.wdir = s.wdir
    BY Zenon, <1>6 DEF DeltaFields
  <1>9. /\ t \in Engines(s.df, s.wdir) /\ Agree(u, t) /\ t.synced = u.synced
        /\ t.cached = [u.cached EXCEPT ![c] = p] /\ t.M = [u.M EXCEPT ![c] = FormulasOf(p)]
    <2>1. FormulasOf(p) \in [Nodes -> Int]
      BY Zenon, FormulaTyped DEF FormulasOf
    <2>2. u.M \in [Tracked -> [Nodes -> Int]] /\ u.cached \in [Tracked -> {NoPattern} \cup Patterns]
      BY Zenon, <1>8 DEF Engines
    <2>3. PICK w \in [Tracked -> [Nodes -> Int]] : w = [u.M EXCEPT ![c] = FormulasOf(p)]
      BY Zenon, <2>1, <2>2
    <2>4. PICK k \in [Tracked -> {NoPattern} \cup Patterns] : k = [u.cached EXCEPT ![c] = p]
      BY Zenon, <2>2
    <2>5. t = [u EXCEPT !.M = w, !.cached = k]
      BY Zenon, <1>5, <1>8, <2>3, <2>4 DEF Engines
    <2>6. t \in Engines(s.df, s.wdir)
      BY ZenonT(60), <1>8, <2>5 DEF Engines
    <2>7. Agree(u, t) /\ t.synced = u.synced /\ t.cached = k /\ t.M = w
      BY Zenon, <1>8, <2>5 DEF Engines, Agree
    <2> QED BY Zenon, <2>3, <2>4, <2>6, <2>7
  <1>10. Sound(t) /\ (Corr(s) => Corr(t)) /\ (Memo(s) => Memo(t))
    <2>1. t \in Engines(u.df, u.wdir) BY Zenon, <1>8, <1>9
    <2> QED BY Zenon, <1>6, <1>9, <2>1, AgreeKeeps
  <1>11. u.cached \in [Tracked -> {NoPattern} \cup Patterns] /\ u.M \in [Tracked -> [Nodes -> Int]] /\ u.W = t.W
    BY Zenon, <1>8, <1>9 DEF Engines, Agree
  <1>12. t.cached[c] = p /\ t.M[c] = FormulasOf(p) /\ \A e \in Tracked \ {c} : t.cached[e] = s.cached[e] /\ t.M[e] = s.M[e]
    BY ZenonT(60), <1>8, <1>9, <1>11
  <1>13. OnRows(t, c, p)
    <2> SUFFICES ASSUME NEW g \in Points, c \in Ancestry(g[1]) PROVE t.W[g][c] = PatternWeight(p, g[2])
      BY Zenon DEF OnRows
    <2>1. CASE g[2] = 2
      <3>1. g \in DeltaRows(c) BY Zenon, <2>1, DeltaRowsIs
      <3>2. s.W[g][c] = PatternWeight(q, 2) BY Zenon, <1>1, <2>1 DEF OnRows
      <3>3. t.W[g][c] = PatternWeight(q, 2) + D[g] BY Zenon, <3>1, <3>2, <1>7, <1>11
      <3> QED BY Zenon, <3>1, <3>3, <1>3, <2>1
    <2>2. CASE g[2] = 1
      <3>1. c \in Ids BY Zenon DEF Tracked
      <3>2. t.W[g][c] = 1 BY Zenon, <3>1, <2>2, <1>10 DEF Sound, Shaped, ShapeOf
      <3>3. PatternWeight(p, 1) = 1
        <4>1. 1 \in Times BY Zenon DEF Times
        <4> QED BY Zenon, <4>1, PatternWeightIs
      <3> QED BY Zenon, <3>2, <3>3, <2>2
    <2> QED BY Zenon, <2>1, <2>2, PointTyped DEF Times
  <1>14. TrackOf(t, c)
    BY Zenon, <1>12, <1>13 DEF TrackOf
  <1>15. \A e \in Tracked \ {c} : TrackOf(s, e) => TrackOf(t, e)
    <2> SUFFICES ASSUME NEW e \in Tracked \ {c}, TrackOf(s, e) PROVE TrackOf(t, e)
      BY Zenon
    <2>1. TrackOf(u, e) /\ u.cached[e] = t.cached[e] /\ u.M[e] = t.M[e]
      BY Zenon, <1>7, <1>8, <1>12
    <2> QED BY Zenon, <2>1, <1>11 DEF TrackOf, OnRows
  <1>16. t.xc = s.xc /\ t.synced = s.synced /\ t.df = s.df /\ t.wdir = s.wdir
    BY Zenon, <1>8, <1>9 DEF Agree
  <1> QED BY Zenon, <1>10, <1>12, <1>14, <1>15, <1>16 DEF Ranked

LEMMA PlaceTerm ==
    ASSUME NEW p, NEW h \in Times, NEW w \in Int
    PROVE  L(h) + ((B(h, 1) * Formula(1, 1 \in p) + B(h, 2) * Formula(2, 2 \in p)) - w) = PatternWeight(p, h) - w
  <1>1. PICK a \in Int, b \in Int : a = Formula(1, 1 \in p) /\ b = Formula(2, 2 \in p)
    BY Zenon, FormulaTyped DEF Nodes
  <1>2. L(h) + ((B(h, 1) * a + B(h, 2) * b) - w) = (L(h) + (B(h, 1) * a + B(h, 2) * b)) - w
    BY SMT DEF L, B, Times
  <1> QED BY Zenon, <1>1, <1>2, PatternWeightIs

\* A cell's weights set to those of a pattern.
Placed(s, t, c, p) ==
    /\ Sound(t) /\ (Corr(s) => Corr(t)) /\ (Memo(s) => Memo(t))
    /\ OnRows(t, c, p) /\ t.M[c] = FormulasOf(p)
    /\ \A e \in Tracked \ {c} : t.M[e] = s.M[e] /\ \A q : OnRows(s, e, q) => OnRows(t, e, q)
    /\ t.cached = s.cached /\ t.xc = s.xc /\ t.synced = s.synced /\ t.df = s.df /\ t.wdir = s.wdir

LEMMA PwlSetIs ==
    ASSUME curves \in CurveSets, NEW c \in Tracked, NEW s, Sound(s), NEW p \in Patterns, NEW t, t = PwlSet(s, c, p)
    PROVE  Placed(s, t, c, p)
  <1> DEFINE m == [j \in Nodes |-> Formula(j, j \in p)]
             D == [g \in DeltaRows(c) |-> L(g[2]) + OverNodes(LAMBDA j : B(g[2], j) * m[j]) - s.W[g][c]]
             u == ApplyDelta(s, c, D)
  <1>0. s \in Engines(s.df, s.wdir) /\ c \in Ids
    BY Zenon DEF Sound, Tracked
  <1>1. s.W \in Weights
    BY Zenon, <1>0 DEF Engines
  <1>2. \A g \in DeltaRows(c) : g \in Points /\ c \in Ancestry(g[1]) /\ g[2] = 2
    <2>1. \A g \in DeltaRows(c) : g \in Points BY Zenon DEF DeltaRows
    <2> QED BY Zenon, <2>1, DeltaRowsIs
  <1>3. \A g \in DeltaRows(c) : s.W[g][c] \in Int /\ D[g] \in Int /\ s.W[g][c] + D[g] = PatternWeight(p, g[2])
    <2> SUFFICES ASSUME NEW g \in DeltaRows(c)
                 PROVE  s.W[g][c] \in Int /\ D[g] \in Int /\ s.W[g][c] + D[g] = PatternWeight(p, g[2])
      BY Zenon
    <2>1. D[g] = L(g[2]) + ((B(g[2], 1) * m[1] + B(g[2], 2) * m[2]) - s.W[g][c])
      BY Zenon DEF OverNodes
    <2>2. m[1] = Formula(1, 1 \in p) /\ m[2] = Formula(2, 2 \in p)
      BY Zenon DEF Nodes
    <2>3. g \in Points /\ g[2] \in Times
      BY Zenon, <1>2, PointTyped
    <2>6. s.W[g][c] \in Int
      BY Zenon, <1>0, <1>1, <2>3 DEF Weights
    <2>4. /\ L(g[2]) + ((B(g[2], 1) * Formula(1, 1 \in p) + B(g[2], 2) * Formula(2, 2 \in p)) - s.W[g][c])
             = PatternWeight(p, g[2]) - s.W[g][c]
          /\ PatternWeight(p, g[2]) \in Int
      BY ONLY <2>3, <2>6, PlaceTerm, PatternWeightIs, Zenon
    <2> HIDE DEF D, m
    <2>5. D[g] = PatternWeight(p, g[2]) - s.W[g][c]
      BY Zenon, <2>1, <2>2, <2>4
    <2>7. PICK w \in Int, v \in Int : w = s.W[g][c] /\ v = PatternWeight(p, g[2])
      BY Zenon, <2>4, <2>6
    <2>8. v - w \in Int /\ w + (v - w) = v
      BY SMT
    <2> QED BY Zenon, <2>5, <2>7, <2>8
  <1>4. D \in [DeltaRows(c) -> Int]
    BY Zenon, <1>3
  <1>5. t = [u EXCEPT !.M[c] = FormulasOf(p)]
    BY Zenon DEF PwlSet, FormulasOf
  <1> HIDE DEF D, m
  <1>6. DeltaFields(s, c, D, u) /\ Sound(u) /\ (Corr(s) => Corr(u)) /\ (Memo(s) => Memo(u)) /\ Spares(s, u, c, D)
    <2> HIDE DEF u
    <2>2. u = ApplyDelta(s, c, D) BY Zenon DEF u
    <2>3. Spares(s, u, c, D) BY Zenon, <1>4, <1>0, <2>2, DeltaElsewhere
    <2> QED BY Zenon, <1>4, <1>0, <2>2, <2>3, DeltaIs, TrackedDelta
  <1> HIDE DEF u
  <1>7. /\ \A g \in DeltaRows(c) : u.W[g][c] = s.W[g][c] + D[g]
        /\ \A e \in Tracked \ {c} : \A q : OnRows(s, e, q) => OnRows(u, e, q)
    BY Zenon, <1>6 DEF Spares
  <1>8. /\ u \in Engines(s.df, s.wdir) /\ u.cached = s.cached /\ u.M = s.M
        /\ u.synced = s.synced /\ u.xc = s.xc /\ u.df = s.df /\ u.wdir = s.wdir
    BY Zenon, <1>6 DEF DeltaFields
  <1>9. /\ t \in Engines(s.df, s.wdir) /\ Agree(u, t) /\ t.synced = u.synced
        /\ t.cached = u.cached /\ t.M = [u.M EXCEPT ![c] = FormulasOf(p)]
    <2>1. FormulasOf(p) \in [Nodes -> Int]
      BY Zenon, FormulaTyped DEF FormulasOf
    <2>2. u.M \in [Tracked -> [Nodes -> Int]]
      BY Zenon, <1>8 DEF Engines
    <2>3. PICK w \in [Tracked -> [Nodes -> Int]] : w = [u.M EXCEPT ![c] = FormulasOf(p)]
      BY Zenon, <2>1, <2>2
    <2>5. t = [u EXCEPT !.M = w]
      BY Zenon, <1>5, <1>8, <2>3 DEF Engines
    <2>6. t \in Engines(s.df, s.wdir)
      BY Zenon, <1>8, <2>5 DEF Engines
    <2>7. Agree(u, t) /\ t.synced = u.synced /\ t.cached = u.cached /\ t.M = w
      BY Zenon, <1>8, <2>5 DEF Engines, Agree
    <2> QED BY Zenon, <2>3, <2>6, <2>7
  <1>10. Sound(t) /\ (Corr(s) => Corr(t)) /\ (Memo(s) => Memo(t))
    <2>1. t \in Engines(u.df, u.wdir) BY Zenon, <1>8, <1>9
    <2> QED BY Zenon, <1>6, <1>9, <2>1, AgreeKeeps
  <1>11. u.M \in [Tracked -> [Nodes -> Int]] /\ u.W = t.W
    BY Zenon, <1>8, <1>9 DEF Engines, Agree
  <1>12. t.M[c] = FormulasOf(p) /\ \A e \in Tracked \ {c} : t.M[e] = s.M[e]
    BY Zenon, <1>8, <1>9, <1>11
  <1>13. OnRows(t, c, p)
    <2> SUFFICES ASSUME NEW g \in Points, c \in Ancestry(g[1]) PROVE t.W[g][c] = PatternWeight(p, g[2])
      BY Zenon DEF OnRows
    <2>1. CASE g[2] = 2
      <3>1. g \in DeltaRows(c) BY Zenon, <2>1, DeltaRowsIs
      <3> QED BY Zenon, <3>1, <1>3, <1>7, <1>11
    <2>2. CASE g[2] = 1
      <3>2. t.W[g][c] = 1 BY Zenon, <1>0, <2>2, <1>10 DEF Sound, Shaped, ShapeOf
      <3>3. PatternWeight(p, 1) = 1
        <4>1. 1 \in Times BY Zenon DEF Times
        <4> QED BY Zenon, <4>1, PatternWeightIs
      <3> QED BY Zenon, <3>2, <3>3, <2>2
    <2> QED BY Zenon, <2>1, <2>2, PointTyped DEF Times
  <1>15. \A e \in Tracked \ {c} : \A q : OnRows(s, e, q) => OnRows(t, e, q)
    <2> SUFFICES ASSUME NEW e \in Tracked \ {c}, NEW q, OnRows(s, e, q) PROVE OnRows(t, e, q)
      BY Zenon
    <2>1. OnRows(u, e, q)
      BY Zenon, <1>7
    <2> QED BY ONLY <2>1, <1>11, Zenon DEF OnRows
  <1>16. t.cached = s.cached /\ t.xc = s.xc /\ t.synced = s.synced /\ t.df = s.df /\ t.wdir = s.wdir
    BY Zenon, <1>8, <1>9 DEF Agree
  <1> QED BY Zenon, <1>10, <1>12, <1>13, <1>15, <1>16 DEF Placed

------------------------------------------------------------------------------
(* The tangent curves. *)

\* The correction of one curve, to the weights installed.
Correct(u, c, x) ==
    [u EXCEPT !.corr = [g \in Points |->
        IF g \in DeltaRows(c) THEN [@[g] EXCEPT ![c] = Integral(c, x[c], g[2]) - u.W[g][c] * x[c]] ELSE @[g]]]

\* Two engines alike but for their corrections.
ButCorr(s, t) ==
    /\ t.W = s.W /\ t.blk = s.blk /\ t.Wt = s.Wt /\ t.span = s.span /\ t.cached = s.cached /\ t.M = s.M
    /\ t.synced = s.synced /\ t.xc = s.xc /\ t.corrX = s.corrX /\ t.df = s.df /\ t.dfX = s.dfX
    /\ t.dir = s.dir /\ t.wdir = s.wdir /\ t.wdirStale = s.wdirStale

Corrected(u, t, c, x) ==
    /\ t \in Engines(u.df, u.wdir) /\ ButCorr(u, t) /\ CorrOf(t, x, c)
    /\ \A e \in Tangents \ {c} : \A y \in States : CorrOf(u, y, e) => CorrOf(t, y, e)

LEMMA CorrectIs ==
    ASSUME curves \in CurveSets, NEW c \in Tangents, NEW x \in States,
           NEW u, u \in Engines(u.df, u.wdir), NEW t, t = Correct(u, c, x)
    PROVE  Corrected(u, t, c, x)
  <1>0. c \in Ids /\ u.W \in Weights /\ u.corr \in Weights /\ x[c] \in Int
    BY Zenon, StateTyped DEF Tangents, Engines
  <1> DEFINE v(g) == Integral(c, x[c], g[2]) - u.W[g][c] * x[c]
  <1>1. \A g \in Points : v(g) \in Int
    <2> SUFFICES ASSUME NEW g \in Points PROVE v(g) \in Int
      BY Zenon
    <2>1. g[2] \in Times BY Zenon, PointTyped
    <2>2. Integral(c, x[c], g[2]) \in Int BY ONLY <1>0, <2>1, curves \in CurveSets, IntegralIs, Zenon
    <2>3. u.W[g][c] \in Int BY Zenon, <1>0 DEF Weights
    <2>4. PICK a \in Int, b \in Int, e \in Int : a = Integral(c, x[c], g[2]) /\ b = u.W[g][c] /\ e = x[c]
      BY Zenon, <2>2, <2>3, <1>0
    <2>5. a - b * e \in Int BY SMT
    <2> QED BY Zenon, <2>4, <2>5
  <1>2. PICK k : k = [g \in Points |-> IF g \in DeltaRows(c) THEN [u.corr[g] EXCEPT ![c] = v(g)] ELSE u.corr[g]]
    BY Zenon
  <1>3. t = [u EXCEPT !.corr = k]
    BY Zenon, <1>2 DEF Correct
  <1> HIDE DEF v
  <1>4. \A g \in Points : u.corr[g] \in [Ids -> Int]
    BY Zenon, <1>0 DEF Weights
  <1>5. k \in Weights
    BY Zenon, <1>0, <1>1, <1>2, <1>4 DEF Weights
  <1>6. t \in Engines(u.df, u.wdir)
    BY Zenon, <1>3, <1>5 DEF Engines
  <1>7. ButCorr(u, t) /\ t.corr = k
    BY Zenon, <1>3 DEF Engines, ButCorr
  <1>8. t.W = u.W BY Zenon, <1>7 DEF ButCorr
  <1>9. CorrOf(t, x, c)
    <2> SUFFICES ASSUME NEW g \in Points, c \in Ancestry(g[1]) PROVE t.corr[g][c] = v(g)
      BY Zenon, <1>8 DEF CorrOf, v
    <2>1. g \in DeltaRows(c) BY Zenon, DeltaRowsIs
    <2> QED BY Zenon, <2>1, <1>0, <1>2, <1>4, <1>7
  <1>10. ASSUME NEW e \in Tangents \ {c}, NEW y \in States, CorrOf(u, y, e) PROVE CorrOf(t, y, e)
    <2>1. e \in Ids BY Zenon DEF Tangents
    <2>2. \A g \in Points : t.corr[g][e] = u.corr[g][e]
      <3> SUFFICES ASSUME NEW g \in Points PROVE k[g][e] = u.corr[g][e]
        BY Zenon, <1>7
      <3>1. CASE g \in DeltaRows(c)
        <4>1. k[g] = [u.corr[g] EXCEPT ![c] = v(g)] BY Zenon, <3>1, <1>2
        <4> QED BY Zenon, <4>1, <2>1, <1>4
      <3>2. CASE g \notin DeltaRows(c)
        BY Zenon, <3>2, <1>2
      <3> QED BY Zenon, <3>1, <3>2
    <2> QED BY ONLY CorrOf(u, y, e), <2>2, <1>8, Zenon DEF CorrOf
  <1> QED BY Zenon, <1>6, <1>7, <1>9, <1>10 DEF Corrected

\* Without a delta, the take is the correction.
LEMMA TakeWithout ==
    ASSUME curves \in CurveSets, NEW c \in Tangents, NEW x \in States,
           NEW s, s \in Engines(s.df, s.wdir), NEW t, t = TangentTake(s, c, x, FALSE)
    PROVE  Corrected(s, t, c, x)
  <1>1. t = Correct(s, c, x)
    BY Zenon DEF TangentTake, Correct
  <1> QED BY Zenon, <1>1, CorrectIs

\* With one, the weights are first moved to the tangent at the state.
Taken(s, t, c, x) ==
    /\ Sound(t) /\ CorrOf(t, x, c)
    /\ \A e \in Tangents \ {c} : \A y \in States : CorrOf(s, y, e) => CorrOf(t, y, e)
    /\ \A e \in Tracked : TrackOf(s, e) => TrackOf(t, e)
    /\ t.xc = [s.xc EXCEPT ![c] = <<x[c]>>]
    /\ t.cached = s.cached /\ t.synced = s.synced /\ t.df = s.df /\ t.dfX = s.dfX /\ t.wdir = s.wdir

LEMMA TakeWith ==
    ASSUME curves \in CurveSets, NEW c \in Tangents, NEW x \in States,
           NEW s, Sound(s), NEW t, t = TangentTake(s, c, x, TRUE)
    PROVE  Taken(s, t, c, x)
  <1> DEFINE D == [g \in DeltaRows(c) |-> Tangent(x[c], g[2]) - s.W[g][c]]
             w == ApplyDelta(s, c, D)
             u == [w EXCEPT !.xc[c] = <<x[c]>>]
  <1>0. s \in Engines(s.df, s.wdir) /\ c \in Ids /\ x[c] \in Knots /\ x[c] \in Int /\ Copies(s) /\ Shaped(s)
    BY Zenon, StateTyped DEF Sound, Tangents
  <1>1. s.W \in Weights
    BY Zenon, <1>0 DEF Engines
  <1>2. \A g \in DeltaRows(c) : g \in Points
    BY Zenon DEF DeltaRows
  <1>3. \A g \in DeltaRows(c) : D[g] \in Int /\ s.W[g][c] + D[g] = Tangent(x[c], g[2])
    <2> SUFFICES ASSUME NEW g \in DeltaRows(c)
                 PROVE  D[g] \in Int /\ s.W[g][c] + D[g] = Tangent(x[c], g[2])
      BY Zenon
    <2>1. D[g] = Tangent(x[c], g[2]) - s.W[g][c] BY Zenon
    <2>2. g[2] \in Times BY Zenon, <1>2, PointTyped
    <2>3. Tangent(x[c], g[2]) \in Int BY ONLY <1>0, <2>2, TangentTyped, Zenon
    <2>4. s.W[g][c] \in Int BY Zenon, <1>0, <1>1, <1>2 DEF Weights
    <2>5. PICK a \in Int, b \in Int : a = Tangent(x[c], g[2]) /\ b = s.W[g][c] BY Zenon, <2>3, <2>4
    <2>6. a - b \in Int /\ b + (a - b) = a BY SMT
    <2> HIDE DEF D
    <2> QED BY Zenon, <2>1, <2>5, <2>6
  <1>4. D \in [DeltaRows(c) -> Int]
    BY Zenon, <1>3
  <1>5. t = Correct(u, c, x)
    <2>1. t = Correct(IF TRUE THEN u ELSE s, c, x)
      BY Zenon DEF TangentTake, Correct
    <2>2. u = IF TRUE THEN u ELSE s
      BY Zenon
    <2> QED BY Zenon, <2>1, <2>2
  <1> HIDE DEF D
  <1>6. DeltaFields(s, c, D, w) /\ Copies(w) /\ Shaped(w) /\ Wdir(w) /\ Spares(s, w, c, D)
    <2> HIDE DEF w
    <2>1. w = ApplyDelta(s, c, D) BY Zenon DEF w
    <2>2. Spares(s, w, c, D) BY Zenon, <1>4, <1>0, <2>1, DeltaElsewhere
    <2>3. Copies(w) /\ Shaped(w) /\ Wdir(w) BY Zenon, <1>4, <1>0, <2>1, DeltaKeeps
    <2> QED BY Zenon, <1>4, <1>0, <2>1, <2>2, <2>3, DeltaIs
  <1> HIDE DEF w
  <1>7. /\ w \in Engines(s.df, s.wdir) /\ w.cached = s.cached /\ w.M = s.M /\ w.synced = s.synced /\ w.xc = s.xc
        /\ w.df = s.df /\ w.dfX = s.dfX /\ w.wdir = s.wdir /\ w.corr = s.corr
    BY Zenon, <1>6 DEF DeltaFields
  <1>8. /\ u \in Engines(s.df, s.wdir) /\ u.xc = [s.xc EXCEPT ![c] = <<x[c]>>]
        /\ u.W = w.W /\ u.blk = w.blk /\ u.Wt = w.Wt /\ u.span = w.span /\ u.cached = w.cached /\ u.M = w.M
        /\ u.synced = w.synced /\ u.df = w.df /\ u.dfX = w.dfX /\ u.dir = w.dir /\ u.wdir = w.wdir
        /\ u.wdirStale = w.wdirStale /\ u.corr = w.corr
    <2>1. <<x[c]>> \in KnotMemos BY Zenon, <1>0 DEF KnotMemos
    <2>2. w.xc \in [Tangents -> KnotMemos] BY Zenon, <1>7 DEF Engines
    <2>3. PICK k \in [Tangents -> KnotMemos] : k = [w.xc EXCEPT ![c] = <<x[c]>>] BY Zenon, <2>1, <2>2
    <2>4. u = [w EXCEPT !.xc = k] BY Zenon, <1>7, <2>3 DEF Engines
    <2>5. u \in Engines(s.df, s.wdir) BY Zenon, <2>4, <1>7 DEF Engines
    <2>6. /\ u.xc = k
          /\ u.W = w.W /\ u.blk = w.blk /\ u.Wt = w.Wt /\ u.span = w.span /\ u.cached = w.cached /\ u.M = w.M
          /\ u.synced = w.synced /\ u.df = w.df /\ u.dfX = w.dfX /\ u.dir = w.dir /\ u.wdir = w.wdir
          /\ u.wdirStale = w.wdirStale /\ u.corr = w.corr
      BY Zenon, <2>4, <1>7 DEF Engines
    <2> QED BY Zenon, <2>3, <2>5, <2>6, <1>7
  <1> HIDE DEF u
  <1>9. Copies(u) /\ Shaped(u) /\ Wdir(u)
    <2>0. Copies(w) /\ Shaped(w) BY Zenon, <1>6
    <2>4. u.W = w.W /\ u.blk = w.blk /\ u.Wt = w.Wt /\ u.span = w.span BY Zenon, <1>8
    <2>1. Copies(u) BY ONLY <2>0, <2>4, Zenon DEF Copies
    <2>2. Shaped(u) BY ONLY <2>0, <2>4, Zenon DEF Shaped
    <2>3. Wdir(u) BY Zenon, <1>6, <1>8 DEF Wdir
    <2> QED BY Zenon, <2>1, <2>2, <2>3
  <1>10. Corrected(u, t, c, x) /\ t.W = w.W /\ t.xc = u.xc
    <2>1. u \in Engines(u.df, u.wdir) BY Zenon, <1>7, <1>8
    <2>2. Corrected(u, t, c, x) BY Zenon, <1>5, <2>1, CorrectIs
    <2> QED BY Zenon, <2>2, <1>8 DEF Corrected, ButCorr
  <1>11. Copies(t) /\ Shaped(t) /\ Wdir(t)
    <2>4. t.W = u.W /\ t.blk = u.blk /\ t.Wt = u.Wt /\ t.span = u.span BY Zenon, <1>10 DEF Corrected, ButCorr
    <2>1. Copies(t) BY ONLY <1>9, <2>4, Zenon DEF Copies
    <2>2. Shaped(t) BY ONLY <1>9, <2>4, Zenon DEF Shaped
    <2>3. Wdir(t) BY Zenon, <1>9, <1>10 DEF Wdir, Corrected, ButCorr
    <2> QED BY Zenon, <2>1, <2>2, <2>3
  <1>12. Tang(t)
    <2> SUFFICES ASSUME NEW e \in Tangents, NEW v \in Knots, t.xc[e] = <<v>>, NEW g \in Points, e \in Ancestry(g[1])
                 PROVE  t.W[g][e] = Tangent(v, g[2])
      BY Zenon DEF Tang
    <2>1. s.xc \in [Tangents -> KnotMemos] BY Zenon, <1>0 DEF Engines
    <2>2. CASE e = c
      <3>1. <<v>> = <<x[c]>> BY Zenon, <2>1, <2>2, <1>8, <1>10
      <3>2. v = x[c] BY Zenon, <3>1
      <3>3. g \in DeltaRows(c) BY Zenon, <2>2, DeltaRowsIs
      <3>4. t.W[g][c] = s.W[g][c] + D[g] BY Zenon, <3>3, <1>6, <1>10 DEF Spares
      <3> QED BY Zenon, <3>2, <3>3, <3>4, <1>3, <2>2
    <2>3. CASE e # c
      <3>1. s.xc[e] = <<v>> BY Zenon, <2>1, <2>3, <1>8, <1>10
      <3>2. e \in Ids BY Zenon DEF Tangents
      <3>3. t.W[g][e] = s.W[g][e] BY Zenon, <3>2, <2>3, <1>6, <1>10 DEF Spares, SameElsewhere
      <3>4. Tang(s) BY Zenon DEF Sound
      <3> QED BY Zenon, <3>1, <3>3, <3>4 DEF Tang
    <2> QED BY Zenon, <2>2, <2>3
  <1>13. \A e \in Tangents \ {c} : \A y \in States : CorrOf(s, y, e) => CorrOf(t, y, e)
    <2> SUFFICES ASSUME NEW e \in Tangents \ {c}, NEW y \in States, CorrOf(s, y, e) PROVE CorrOf(t, y, e)
      BY Zenon
    <2>1. CorrOf(w, y, e) BY Zenon, <1>6 DEF Spares
    <2>2. CorrOf(u, y, e) BY ONLY <2>1, <1>8, Zenon DEF CorrOf
    <2> QED BY Zenon, <2>2, <1>10 DEF Corrected
  <1>14. \A e \in Tracked : TrackOf(s, e) => TrackOf(t, e)
    <2> SUFFICES ASSUME NEW e \in Tracked, TrackOf(s, e) PROVE TrackOf(t, e)
      BY Zenon
    <2>1. e \in Tracked \ {c}
      <3>1. e \in Ids BY Zenon DEF Tracked
      <3>2. e \notin Tangents BY Zenon, <3>1, Kinds
      <3> QED BY Zenon, <3>2
    <2>2. TrackOf(w, e) BY Zenon, <2>1, <1>6 DEF Spares
    <2>3. t.W = w.W /\ t.cached = w.cached /\ t.M = w.M BY Zenon, <1>8, <1>10 DEF Corrected, ButCorr
    <2> QED BY ONLY <2>2, <2>3, Zenon DEF TrackOf, OnRows
  <1>15. /\ t \in Engines(t.df, t.wdir) /\ t.cached = s.cached /\ t.synced = s.synced /\ t.df = s.df /\ t.dfX = s.dfX
         /\ t.wdir = s.wdir /\ CorrOf(t, x, c)
    BY Zenon, <1>7, <1>8, <1>10 DEF Corrected, ButCorr
  <1> QED BY Zenon, <1>8, <1>10, <1>11, <1>12, <1>13, <1>14, <1>15 DEF Taken, Sound

------------------------------------------------------------------------------
(* The same steps, folded over the curves that moved. *)

LEMMA KindsFinite ==
    ASSUME curves \in CurveSets, NEW cs, cs \subseteq Tracked \/ cs \subseteq Tangents
    PROVE  IsFiniteSet(cs)
  <1>1. IsFiniteSet(Ids) BY Zenon, CurvesTyped
  <1>2. cs \subseteq Ids BY Zenon DEF Tracked, Tangents
  <1> QED BY Zenon, <1>1, <1>2, FS_Subset

Iteration(f, cs, V, s, F) ==
    /\ f = [D \in SUBSET cs |-> IF D = {} THEN s ELSE F[<<Next1(D), f[D \ {Next1(D)}]>>]]
    /\ \A D \in SUBSET cs : D # {} => <<Next1(D), f[D \ {Next1(D)}]>> \in cs \X V

\* A function an iteration exists for, with its values written out.
LEMMA Iterated ==
    ASSUME NEW cs, IsFiniteSet(cs), NEW V, NEW s \in V, NEW F \in [cs \X V -> V]
    PROVE  \E f \in [SUBSET cs -> V] : Iteration(f, cs, V, s, F)
  <1>1. PICK f \in [SUBSET cs -> V] : Iterates(f, cs, s, F)
    BY Zenon, IteratesExist
  <1>2. f = [D \in SUBSET cs |-> IF D = {} THEN s ELSE F[<<Next1(D), f[D \ {Next1(D)}]>>]]
    BY Zenon, <1>1 DEF Iterates
  <1>3. ASSUME NEW D \in SUBSET cs, D # {} PROVE <<Next1(D), f[D \ {Next1(D)}]>> \in cs \X V
    <2>1. Next1(D) \in cs BY Zenon, <1>3 DEF Next1
    <2>2. f[D \ {Next1(D)}] \in V BY Zenon
    <2> QED BY Zenon, <2>1, <2>2
  <1> QED BY Zenon, <1>2, <1>3 DEF Iteration

TakenWithout(s, t, cs, x) ==
    t \in Engines(s.df, s.wdir) /\ ButCorr(s, t) /\ \A e \in cs : CorrOf(t, x, e)

LEMMA TakesWithout ==
    ASSUME curves \in CurveSets, NEW cs \in SUBSET Tangents, NEW x \in States,
           NEW s, s \in Engines(s.df, s.wdir), NEW t, t = TangentTakes(s, cs, x, FALSE)
    PROVE  TakenWithout(s, t, cs, x)
  <1> DEFINE V == Engines(s.df, s.wdir)
             op(c, v) == TangentTake(v, c, x, FALSE)
             F == [q \in cs \X V |-> op(q[1], q[2])]
             Eq(h) == h = [D \in SUBSET cs |-> IF D = {} THEN s ELSE op(Next1(D), h[D \ {Next1(D)}])]
  <1>1. ASSUME NEW c \in cs, NEW v \in V PROVE op(c, v) \in V /\ Corrected(v, op(c, v), c, x)
    <2>1. v.df = s.df /\ v.wdir = s.wdir
      BY Zenon DEF Engines
    <2>2. c \in Tangents /\ v \in Engines(v.df, v.wdir)
      BY Zenon, <2>1
    <2>3. Corrected(v, op(c, v), c, x)
      BY Zenon, <2>2, TakeWithout
    <2> QED BY Zenon, <2>1, <2>3 DEF Corrected
  <1>2. F \in [cs \X V -> V]
    BY Zenon, <1>1
  <1>3. \E h : Eq(h)
    <2>1. IsFiniteSet(cs) BY Zenon, KindsFinite
    <2> HIDE DEF F, V
    <2>2. s \in V BY Zenon DEF V
    <2>3. PICK f \in [SUBSET cs -> V] : Iteration(f, cs, V, s, F)
      BY ONLY <1>2, <2>1, <2>2, Iterated, Zenon
    <2>4. \A q \in cs \X V : F[q] = op(q[1], q[2])
      BY Zenon DEF F
    <2>5. \A D \in SUBSET cs : D # {} => F[<<Next1(D), f[D \ {Next1(D)}]>>] = op(Next1(D), f[D \ {Next1(D)}])
      BY Zenon, <2>3, <2>4 DEF Iteration
    <2>6. Eq(f)
      BY Zenon, <2>3, <2>5 DEF Iteration
    <2> QED BY Zenon, <2>6
  <1> DEFINE h == CHOOSE iter : Eq(iter)
  <1>4. t = h[cs]
    BY Zenon DEF TangentTakes, FoldSet, MapThenFoldSet, Next1
  <1>5. Eq(h)
    BY Zenon, <1>3
  <1> HIDE DEF h, V, op
  <1> DEFINE T == {D \in SUBSET cs : h[D] \in V /\ TakenWithout(s, h[D], D, x)}
  <1>6. {} \in T
    <2>1. h[{}] = s BY Zenon, <1>5
    <2>2. s \in V BY Zenon DEF V
    <2> QED BY Zenon, <2>1, <2>2 DEF TakenWithout, ButCorr
  <1>7. ASSUME NEW D \in SUBSET cs, D # {}, \A c \in D : D \ {c} \in T PROVE D \in T
    <2>1. PICK c \in D : c = Next1(D) BY Zenon, <1>7 DEF Next1
    <2>2. PICK v \in V : v = h[D \ {c}] /\ TakenWithout(s, v, D \ {c}, x) BY Zenon, <1>7
    <2>3. h[D] = op(c, v) BY Zenon, <1>5, <1>7, <2>1, <2>2
    <2>4. h[D] \in V /\ Corrected(v, h[D], c, x)
      <3>1. c \in cs BY Zenon
      <3> QED BY ONLY <3>1, v \in V, <2>3, <1>1, Zenon
    <2>5. ButCorr(s, h[D])
      BY Zenon, <2>2, <2>4 DEF Corrected, ButCorr, TakenWithout
    <2>6. ASSUME NEW e \in D PROVE CorrOf(h[D], x, e)
      <3>1. CASE e = c BY Zenon, <3>1, <2>4 DEF Corrected
      <3>2. CASE e # c
        <4>1. CorrOf(v, x, e) BY Zenon, <3>2, <2>2 DEF TakenWithout
        <4>2. e \in Tangents \ {c} BY Zenon, <3>2
        <4> QED BY Zenon, <4>1, <4>2, <2>4 DEF Corrected
      <3> QED BY Zenon, <3>1, <3>2
    <2> QED BY Zenon, <2>4, <2>5, <2>6 DEF TakenWithout, V
  <1>8. cs \in T
    <2>1. IsFiniteSet(cs) BY Zenon, KindsFinite
    <2> HIDE DEF T
    <2>2. T = T BY Zenon
    <2> QED BY ONLY <2>1, <1>6, <1>7, SubsetInduction, Zenon
  <1> QED BY Zenon, <1>4, <1>8

\* Takes with a delta.
TakenAll(s, t, cs, x) ==
    /\ Sound(t) /\ \A e \in cs : CorrOf(t, x, e)
    /\ \A e \in Tangents : t.xc[e] = IF e \in cs THEN <<x[e]>> ELSE s.xc[e]
    /\ \A e \in Tracked : TrackOf(s, e) => TrackOf(t, e)
    /\ t.cached = s.cached /\ t.synced = s.synced /\ t.df = s.df /\ t.dfX = s.dfX /\ t.wdir = s.wdir

LEMMA TakesWith ==
    ASSUME curves \in CurveSets, NEW cs \in SUBSET Tangents, NEW x \in States,
           NEW s, Sound(s), NEW t, t = TangentTakes(s, cs, x, TRUE)
    PROVE  TakenAll(s, t, cs, x)
  <1> DEFINE V == {v \in Engines(s.df, s.wdir) : Sound(v)}
             op(c, v) == TangentTake(v, c, x, TRUE)
             F == [q \in cs \X V |-> op(q[1], q[2])]
             Eq(h) == h = [D \in SUBSET cs |-> IF D = {} THEN s ELSE op(Next1(D), h[D \ {Next1(D)}])]
  <1>0. s \in V
    BY Zenon DEF Sound
  <1>1. ASSUME NEW c \in cs, NEW v \in V PROVE op(c, v) \in V /\ Taken(v, op(c, v), c, x)
    <2>1. v.df = s.df /\ v.wdir = s.wdir /\ Sound(v)
      BY Zenon DEF Engines
    <2>2. c \in Tangents
      BY Zenon
    <2> HIDE DEF V
    <2>3. Taken(v, op(c, v), c, x)
      BY Zenon, <2>1, <2>2, TakeWith
    <2>4. op(c, v) \in Engines(s.df, s.wdir) /\ Sound(op(c, v))
      BY Zenon, <2>1, <2>3 DEF Taken, Sound
    <2> QED BY Zenon, <2>3, <2>4 DEF V
  <1>2. F \in [cs \X V -> V]
    BY Zenon, <1>1
  <1>3. \E h : Eq(h)
    <2>1. IsFiniteSet(cs) BY Zenon, KindsFinite
    <2> HIDE DEF F, V
    <2>3. PICK f \in [SUBSET cs -> V] : Iteration(f, cs, V, s, F)
      BY ONLY <1>0, <1>2, <2>1, Iterated, Zenon
    <2>4. \A q \in cs \X V : F[q] = op(q[1], q[2])
      BY Zenon DEF F
    <2>5. \A D \in SUBSET cs : D # {} => F[<<Next1(D), f[D \ {Next1(D)}]>>] = op(Next1(D), f[D \ {Next1(D)}])
      BY Zenon, <2>3, <2>4 DEF Iteration
    <2>6. Eq(f)
      BY Zenon, <2>3, <2>5 DEF Iteration
    <2> QED BY Zenon, <2>6
  <1> DEFINE h == CHOOSE iter : Eq(iter)
  <1>4. t = h[cs]
    BY Zenon DEF TangentTakes, FoldSet, MapThenFoldSet, Next1
  <1>5. Eq(h)
    BY Zenon, <1>3
  <1> HIDE DEF h, V, op
  <1> DEFINE T == {D \in SUBSET cs : h[D] \in V /\ TakenAll(s, h[D], D, x)}
  <1>6. {} \in T
    <2>1. h[{}] = s BY Zenon, <1>5
    <2>2. TakenAll(s, s, {}, x) BY Zenon, <1>0 DEF TakenAll
    <2> QED BY Zenon, <2>1, <2>2, <1>0
  <1>7. ASSUME NEW D \in SUBSET cs, D # {}, \A c \in D : D \ {c} \in T PROVE D \in T
    <2>1. PICK c \in D : c = Next1(D) BY Zenon, <1>7 DEF Next1
    <2>2. PICK v \in V : v = h[D \ {c}] /\ TakenAll(s, v, D \ {c}, x) BY Zenon, <1>7
    <2>3. h[D] = op(c, v) BY Zenon, <1>5, <1>7, <2>1, <2>2
    <2>4. h[D] \in V /\ Taken(v, h[D], c, x)
      <3>1. c \in cs BY Zenon
      <3> QED BY ONLY <3>1, v \in V, <2>3, <1>1, Zenon
    <2> DEFINE w == h[D]
    <2> HIDE DEF w
    <2>5. /\ Sound(v) /\ \A e \in D \ {c} : CorrOf(v, x, e)
          /\ \A e \in Tangents : v.xc[e] = IF e \in D \ {c} THEN <<x[e]>> ELSE s.xc[e]
          /\ \A e \in Tracked : TrackOf(s, e) => TrackOf(v, e)
          /\ v.cached = s.cached /\ v.synced = s.synced /\ v.df = s.df /\ v.dfX = s.dfX /\ v.wdir = s.wdir
      BY Zenon, <2>2 DEF TakenAll
    <2>6. /\ Sound(w) /\ CorrOf(w, x, c)
          /\ \A e \in Tangents \ {c} : \A y \in States : CorrOf(v, y, e) => CorrOf(w, y, e)
          /\ \A e \in Tracked : TrackOf(v, e) => TrackOf(w, e)
          /\ w.xc = [v.xc EXCEPT ![c] = <<x[c]>>]
          /\ w.cached = v.cached /\ w.synced = v.synced /\ w.df = v.df /\ w.dfX = v.dfX /\ w.wdir = v.wdir
      BY Zenon, <2>4 DEF Taken, w
    <2>7. \A e \in D : CorrOf(w, x, e)
      BY Zenon, <2>5, <2>6
    <2>8. \A e \in Tangents : w.xc[e] = IF e \in D THEN <<x[e]>> ELSE s.xc[e]
      <3> SUFFICES ASSUME NEW e \in Tangents PROVE w.xc[e] = IF e \in D THEN <<x[e]>> ELSE s.xc[e]
        BY Zenon
      <3>1. v.xc \in [Tangents -> KnotMemos] BY Zenon, <2>5 DEF Sound, Engines
      <3>2. CASE e = c BY Zenon, <3>1, <3>2, <2>6
      <3>3. CASE e # c
        <4>1. w.xc[e] = v.xc[e] BY Zenon, <3>1, <3>3, <2>6
        <4> QED BY Zenon, <4>1, <3>3, <2>5
      <3> QED BY Zenon, <3>2, <3>3
    <2>9. \A e \in Tracked : TrackOf(s, e) => TrackOf(w, e)
      BY Zenon, <2>5, <2>6
    <2>90. TakenAll(s, w, D, x)
      BY Zenon, <2>5, <2>6, <2>7, <2>8, <2>9 DEF TakenAll
    <2>99. TakenAll(s, h[D], D, x)
      BY Zenon, <2>90 DEF w
    <2> QED BY Zenon, <2>4, <2>99
  <1>8. cs \in T
    <2>1. IsFiniteSet(cs) BY Zenon, KindsFinite
    <2> HIDE DEF T
    <2> QED BY ONLY <2>1, <1>6, <1>7, SubsetInduction, Zenon
  <1> QED BY Zenon, <1>4, <1>8

\* The rank-k updates of cells that track their patterns.
RankUpdates(s, cs, x) == FoldSet(LAMBDA c, v : RankUpdate(v, c, Pattern(x[c])), s, cs)
RankedAll(s, t, cs, x) ==
    /\ Sound(t) /\ (Corr(s) => Corr(t)) /\ (Memo(s) => Memo(t))
    /\ \A e \in Tracked : TrackOf(t, e) /\ t.cached[e] = IF e \in cs THEN Pattern(x[e]) ELSE s.cached[e]
    /\ t.xc = s.xc /\ t.synced = s.synced /\ t.df = s.df /\ t.wdir = s.wdir

LEMMA RankUpdatesAre ==
    ASSUME curves \in CurveSets, NEW cs \in SUBSET Tracked, NEW x \in States,
           NEW s, \A c \in cs : curves[c].kind = "cell", Sound(s), \A e \in Tracked : TrackOf(s, e),
           NEW t, t = RankUpdates(s, cs, x)
    PROVE  RankedAll(s, t, cs, x)
  <1> DEFINE V == {v \in Engines(s.df, s.wdir) : Sound(v) /\ \A e \in Tracked : TrackOf(v, e)}
             op(c, v) == RankUpdate(v, c, Pattern(x[c]))
             F == [q \in cs \X V |-> op(q[1], q[2])]
             Eq(h) == h = [D \in SUBSET cs |-> IF D = {} THEN s ELSE op(Next1(D), h[D \ {Next1(D)}])]
  <1>0. s \in V
    BY Zenon DEF Sound
  <1>1. ASSUME NEW c \in cs, NEW v \in V PROVE op(c, v) \in V /\ Ranked(v, op(c, v), c, Pattern(x[c]))
    <2>1. v.df = s.df /\ v.wdir = s.wdir /\ Sound(v) /\ \A e \in Tracked : TrackOf(v, e)
      BY Zenon DEF Engines
    <2>2. c \in Tracked /\ TrackOf(v, c) /\ curves[c].kind = "cell"
      BY Zenon, <2>1
    <2> HIDE DEF V
    <2>5. Pattern(x[c]) \in Patterns
      <3>1. c \in Ids BY Zenon, <2>2 DEF Tracked
      <3>2. x[c] \in Int BY Zenon, <3>1, StateTyped
      <3> QED BY Zenon, <3>2, PatternTyped
    <2>3. Ranked(v, op(c, v), c, Pattern(x[c]))
      BY ONLY curves \in CurveSets, <2>1, <2>2, <2>5, RankUpdateIs, Zenon
    <2>4. op(c, v) \in Engines(s.df, s.wdir) /\ Sound(op(c, v)) /\ \A e \in Tracked : TrackOf(op(c, v), e)
      BY Zenon, <2>1, <2>3 DEF Ranked, Sound
    <2> QED BY Zenon, <2>3, <2>4 DEF V
  <1>2. F \in [cs \X V -> V]
    BY Zenon, <1>1
  <1>3. \E h : Eq(h)
    <2>1. IsFiniteSet(cs) BY Zenon, KindsFinite
    <2> HIDE DEF F, V
    <2>3. PICK f \in [SUBSET cs -> V] : Iteration(f, cs, V, s, F)
      BY ONLY <1>0, <1>2, <2>1, Iterated, Zenon
    <2>4. \A q \in cs \X V : F[q] = op(q[1], q[2])
      BY Zenon DEF F
    <2>5. \A D \in SUBSET cs : D # {} => F[<<Next1(D), f[D \ {Next1(D)}]>>] = op(Next1(D), f[D \ {Next1(D)}])
      BY Zenon, <2>3, <2>4 DEF Iteration
    <2>6. Eq(f)
      BY Zenon, <2>3, <2>5 DEF Iteration
    <2> QED BY Zenon, <2>6
  <1> DEFINE h == CHOOSE iter : Eq(iter)
  <1>4. t = h[cs]
    BY Zenon DEF RankUpdates, FoldSet, MapThenFoldSet, Next1
  <1>5. Eq(h)
    BY Zenon, <1>3
  <1> HIDE DEF h, V, op
  <1> DEFINE T == {D \in SUBSET cs : h[D] \in V /\ RankedAll(s, h[D], D, x)}
  <1>6. {} \in T
    <2>1. h[{}] = s BY Zenon, <1>5
    <2>2. RankedAll(s, s, {}, x) BY Zenon, <1>0 DEF RankedAll
    <2> QED BY Zenon, <2>1, <2>2, <1>0
  <1>7. ASSUME NEW D \in SUBSET cs, D # {}, \A c \in D : D \ {c} \in T PROVE D \in T
    <2>1. PICK c \in D : c = Next1(D) BY Zenon, <1>7 DEF Next1
    <2>2. PICK v \in V : v = h[D \ {c}] /\ RankedAll(s, v, D \ {c}, x) BY Zenon, <1>7
    <2>3. h[D] = op(c, v) BY Zenon, <1>5, <1>7, <2>1, <2>2
    <2>4. h[D] \in V /\ Ranked(v, h[D], c, Pattern(x[c]))
      <3>1. c \in cs BY Zenon
      <3> QED BY ONLY <3>1, v \in V, <2>3, <1>1, Zenon
    <2> DEFINE w == h[D]
    <2> HIDE DEF w
    <2>5. /\ Sound(v) /\ (Corr(s) => Corr(v)) /\ (Memo(s) => Memo(v))
          /\ \A e \in Tracked : TrackOf(v, e) /\ v.cached[e] = IF e \in D \ {c} THEN Pattern(x[e]) ELSE s.cached[e]
          /\ v.xc = s.xc /\ v.synced = s.synced /\ v.df = s.df /\ v.wdir = s.wdir
      BY Zenon, <2>2 DEF RankedAll
    <2>6. /\ Sound(w) /\ (Corr(v) => Corr(w)) /\ (Memo(v) => Memo(w))
          /\ TrackOf(w, c) /\ w.cached[c] = Pattern(x[c])
          /\ \A e \in Tracked \ {c} : (TrackOf(v, e) => TrackOf(w, e)) /\ w.cached[e] = v.cached[e]
          /\ w.xc = v.xc /\ w.synced = v.synced /\ w.df = v.df /\ w.wdir = v.wdir
      BY Zenon, <2>4 DEF Ranked, w
    <2>7. \A e \in Tracked : TrackOf(w, e) /\ w.cached[e] = IF e \in D THEN Pattern(x[e]) ELSE s.cached[e]
      <3> SUFFICES ASSUME NEW e \in Tracked
                   PROVE  TrackOf(w, e) /\ w.cached[e] = IF e \in D THEN Pattern(x[e]) ELSE s.cached[e]
        BY Zenon
      <3>1. CASE e = c BY Zenon, <3>1, <2>6
      <3>2. CASE e # c
        <4>1. TrackOf(w, e) /\ w.cached[e] = v.cached[e] BY Zenon, <3>2, <2>5, <2>6
        <4>2. v.cached[e] = IF e \in D THEN Pattern(x[e]) ELSE s.cached[e] BY Zenon, <3>2, <2>5
        <4> QED BY Zenon, <4>1, <4>2
      <3> QED BY Zenon, <3>1, <3>2
    <2>90. RankedAll(s, w, D, x)
      BY Zenon, <2>5, <2>6, <2>7 DEF RankedAll
    <2>99. RankedAll(s, h[D], D, x)
      BY Zenon, <2>90 DEF w
    <2> QED BY Zenon, <2>4, <2>99
  <1>8. cs \in T
    <2>1. IsFiniteSet(cs) BY Zenon, KindsFinite
    <2> HIDE DEF T
    <2> QED BY ONLY <2>1, <1>6, <1>7, SubsetInduction, Zenon
  <1> QED BY Zenon, <1>4, <1>8

\* Cells set to the patterns at a state.
PwlSets(s, cs, p) == FoldSet(LAMBDA c, v : PwlSet(v, c, p[c]), s, cs)
PlacedAll(s, t, cs, x) ==
    /\ Sound(t) /\ (Corr(s) => Corr(t)) /\ (Memo(s) => Memo(t))
    /\ \A e \in cs : OnRows(t, e, Pattern(x[e])) /\ t.M[e] = FormulasOf(Pattern(x[e]))
    /\ \A e \in Tracked \ cs : \A q : OnRows(s, e, q) => OnRows(t, e, q)
    /\ t.cached = s.cached /\ t.xc = s.xc /\ t.synced = s.synced /\ t.df = s.df /\ t.wdir = s.wdir

LEMMA PwlSetsAre ==
    ASSUME curves \in CurveSets, NEW cs \in SUBSET Tracked, NEW x \in States,
           NEW s, Sound(s), NEW t, NEW p,
           p = [c \in Tracked |-> Pattern(x[c])], t = PwlSets(s, cs, p)
    PROVE  PlacedAll(s, t, cs, x)
  <1> DEFINE V == {v \in Engines(s.df, s.wdir) : Sound(v)}
             op(c, v) == PwlSet(v, c, p[c])
             F == [q \in cs \X V |-> op(q[1], q[2])]
             Eq(h) == h = [D \in SUBSET cs |-> IF D = {} THEN s ELSE op(Next1(D), h[D \ {Next1(D)}])]
  <1>0. s \in V
    BY Zenon DEF Sound
  <1>1. ASSUME NEW c \in cs, NEW v \in V PROVE op(c, v) \in V /\ Placed(v, op(c, v), c, Pattern(x[c]))
    <2>1. v.df = s.df /\ v.wdir = s.wdir /\ Sound(v)
      BY Zenon DEF Engines
    <2>2. c \in Tracked /\ p[c] = Pattern(x[c])
      BY Zenon
    <2> HIDE DEF V
    <2>5. p[c] \in Patterns
      <3>1. c \in Ids BY Zenon, <2>2 DEF Tracked
      <3>2. x[c] \in Int BY Zenon, <3>1, StateTyped
      <3> QED BY Zenon, <2>2, <3>2, PatternTyped
    <2>3. Placed(v, op(c, v), c, p[c])
      BY ONLY curves \in CurveSets, <2>1, <2>2, <2>5, PwlSetIs, Zenon
    <2>4. op(c, v) \in Engines(s.df, s.wdir) /\ Sound(op(c, v))
      BY Zenon, <2>1, <2>3 DEF Placed, Sound
    <2> QED BY Zenon, <2>2, <2>3, <2>4 DEF V
  <1>2. F \in [cs \X V -> V]
    BY Zenon, <1>1
  <1>3. \E h : Eq(h)
    <2>1. IsFiniteSet(cs) BY Zenon, KindsFinite
    <2> HIDE DEF F, V
    <2>3. PICK f \in [SUBSET cs -> V] : Iteration(f, cs, V, s, F)
      BY ONLY <1>0, <1>2, <2>1, Iterated, Zenon
    <2>4. \A q \in cs \X V : F[q] = op(q[1], q[2])
      BY Zenon DEF F
    <2>5. \A D \in SUBSET cs : D # {} => F[<<Next1(D), f[D \ {Next1(D)}]>>] = op(Next1(D), f[D \ {Next1(D)}])
      BY Zenon, <2>3, <2>4 DEF Iteration
    <2>6. Eq(f)
      BY Zenon, <2>3, <2>5 DEF Iteration
    <2> QED BY Zenon, <2>6
  <1> DEFINE h == CHOOSE iter : Eq(iter)
  <1>4. t = h[cs]
    BY Zenon DEF PwlSets, FoldSet, MapThenFoldSet, Next1
  <1>5. Eq(h)
    BY Zenon, <1>3
  <1> HIDE DEF h, V, op
  <1> DEFINE T == {D \in SUBSET cs : h[D] \in V /\ PlacedAll(s, h[D], D, x)}
  <1>6. {} \in T
    <2>1. h[{}] = s BY Zenon, <1>5
    <2>2. PlacedAll(s, s, {}, x) BY Zenon, <1>0 DEF PlacedAll
    <2> QED BY Zenon, <2>1, <2>2, <1>0
  <1>7. ASSUME NEW D \in SUBSET cs, D # {}, \A c \in D : D \ {c} \in T PROVE D \in T
    <2>1. PICK c \in D : c = Next1(D) BY Zenon, <1>7 DEF Next1
    <2>2. PICK v \in V : v = h[D \ {c}] /\ PlacedAll(s, v, D \ {c}, x) BY Zenon, <1>7
    <2>3. h[D] = op(c, v) BY Zenon, <1>5, <1>7, <2>1, <2>2
    <2>4. h[D] \in V /\ Placed(v, h[D], c, Pattern(x[c]))
      <3>1. c \in cs BY Zenon
      <3> QED BY ONLY <3>1, v \in V, <2>3, <1>1, Zenon
    <2> DEFINE w == h[D]
    <2> HIDE DEF w
    <2>5. /\ Sound(v) /\ (Corr(s) => Corr(v)) /\ (Memo(s) => Memo(v))
          /\ \A e \in D \ {c} : OnRows(v, e, Pattern(x[e])) /\ v.M[e] = FormulasOf(Pattern(x[e]))
          /\ \A e \in Tracked \ (D \ {c}) : \A q : OnRows(s, e, q) => OnRows(v, e, q)
          /\ v.cached = s.cached /\ v.xc = s.xc /\ v.synced = s.synced /\ v.df = s.df /\ v.wdir = s.wdir
      BY Zenon, <2>2 DEF PlacedAll
    <2>6. /\ Sound(w) /\ (Corr(v) => Corr(w)) /\ (Memo(v) => Memo(w))
          /\ OnRows(w, c, Pattern(x[c])) /\ w.M[c] = FormulasOf(Pattern(x[c]))
          /\ \A e \in Tracked \ {c} : w.M[e] = v.M[e] /\ \A q : OnRows(v, e, q) => OnRows(w, e, q)
          /\ w.cached = v.cached /\ w.xc = v.xc /\ w.synced = v.synced /\ w.df = v.df /\ w.wdir = v.wdir
      BY Zenon, <2>4 DEF Placed, w
    <2>7. \A e \in D : OnRows(w, e, Pattern(x[e])) /\ w.M[e] = FormulasOf(Pattern(x[e]))
      <3> SUFFICES ASSUME NEW e \in D PROVE OnRows(w, e, Pattern(x[e])) /\ w.M[e] = FormulasOf(Pattern(x[e]))
        BY Zenon
      <3>1. CASE e = c BY Zenon, <3>1, <2>6
      <3>2. CASE e # c
        <4>1. e \in D \ {c} /\ e \in Tracked \ {c} BY Zenon, <3>2
        <4> QED BY Zenon, <4>1, <2>5, <2>6
      <3> QED BY Zenon, <3>1, <3>2
    <2>8. \A e \in Tracked \ D : \A q : OnRows(s, e, q) => OnRows(w, e, q)
      <3> SUFFICES ASSUME NEW e \in Tracked \ D, NEW q, OnRows(s, e, q) PROVE OnRows(w, e, q)
        BY Zenon
      <3>1. e \in Tracked \ (D \ {c}) /\ e \in Tracked \ {c} BY Zenon
      <3>2. OnRows(v, e, q) BY Zenon, <3>1, <2>5
      <3> QED BY Zenon, <3>1, <3>2, <2>6
    <2>90. PlacedAll(s, w, D, x)
      BY Zenon, <2>5, <2>6, <2>7, <2>8 DEF PlacedAll
    <2>99. PlacedAll(s, h[D], D, x)
      BY Zenon, <2>90 DEF w
    <2> QED BY Zenon, <2>4, <2>99
  <1>8. cs \in T
    <2>1. IsFiniteSet(cs) BY Zenon, KindsFinite
    <2> HIDE DEF T
    <2> QED BY ONLY <2>1, <1>6, <1>7, SubsetInduction, Zenon
  <1> QED BY Zenon, <1>4, <1>8

------------------------------------------------------------------------------
(* The synchronisations. *)

Synced(s) == s.synced => \A c \in Tracked : TrackOf(s, c)
EngInv(s) == Sound(s) /\ Synced(s)
Exact(s) == Corr(s) /\ Memo(s)
AtTangents(s, x) == \A c \in Tangents : s.xc[c] = <<x[c]>>

LEMMA ButCorrKeeps ==
    ASSUME NEW s, NEW t, ButCorr(s, t), t \in Engines(s.df, s.wdir)
    PROVE  /\ Sound(s) => Sound(t)
           /\ Synced(s) => Synced(t)
           /\ Memo(s) => Memo(t)
           /\ \A x : AtTangents(s, x) => AtTangents(t, x)
  <1>0. t.W = s.W /\ t.blk = s.blk /\ t.Wt = s.Wt /\ t.span = s.span /\ t.df = s.df /\ t.wdir = s.wdir
    BY Zenon DEF ButCorr
  <1>1. ASSUME Sound(s) PROVE Sound(t)
    <2>0. Copies(s) /\ Shaped(s) /\ Tang(s) /\ Wdir(s) BY Zenon, <1>1 DEF Sound
    <2>1. Copies(t) BY ONLY <2>0, <1>0, Zenon DEF Copies
    <2>2. Shaped(t) BY ONLY <2>0, <1>0, Zenon DEF Shaped
    <2>3. Tang(t) BY ONLY <2>0, ButCorr(s, t), Zenon DEF Tang, ButCorr
    <2>4. Wdir(t) BY ONLY <2>0, ButCorr(s, t), Zenon DEF Wdir, ButCorr
    <2>5. t \in Engines(t.df, t.wdir) BY Zenon, <1>0
    <2> QED BY Zenon, <2>1, <2>2, <2>3, <2>4, <2>5 DEF Sound
  <1>2. ASSUME Synced(s) PROVE Synced(t)
    <2> SUFFICES ASSUME t.synced, NEW c \in Tracked PROVE TrackOf(t, c)
      BY Zenon DEF Synced
    <2>1. s.synced BY Zenon DEF ButCorr
    <2>2. TrackOf(s, c) BY Zenon, <2>1, <1>2 DEF Synced
    <2>3. t.W = s.W /\ t.cached = s.cached /\ t.M = s.M BY Zenon DEF ButCorr
    <2> QED BY ONLY <2>2, <2>3, Zenon DEF TrackOf, OnRows
  <1>3. Memo(s) => Memo(t)
    BY Zenon DEF Memo, ButCorr
  <1>4. \A x : AtTangents(s, x) => AtTangents(t, x)
    BY Zenon DEF AtTangents, ButCorr
  <1> QED BY Zenon, <1>1, <1>2, <1>3, <1>4

\* The state of the corrections, set.
LEMMA CorrXIs ==
    ASSUME NEW s, s \in Engines(s.df, s.wdir), NEW x \in States, NEW t, t = [s EXCEPT !.corrX = <<x>>]
    PROVE  /\ t \in Engines(s.df, s.wdir)
           /\ t.df = s.df /\ t.wdir = s.wdir /\ t.W = s.W /\ t.cached = s.cached /\ t.synced = s.synced /\ t.xc = s.xc
           /\ Sound(s) => Sound(t)
           /\ Synced(s) => Synced(t)
           /\ Memo(s) => Memo(t)
           /\ (\A c \in Tangents : CorrOf(s, x, c)) => Corr(t) /\ \A c \in Tangents : CorrOf(t, x, c)
  <1>1. <<x>> \in Memos BY Zenon DEF Memos
  <1>2. t \in Engines(s.df, s.wdir) BY Zenon, <1>1 DEF Engines
  <1>3. /\ t.W = s.W /\ t.blk = s.blk /\ t.Wt = s.Wt /\ t.span = s.span /\ t.cached = s.cached /\ t.M = s.M
        /\ t.synced = s.synced /\ t.xc = s.xc /\ t.df = s.df /\ t.dfX = s.dfX
        /\ t.dir = s.dir /\ t.wdir = s.wdir /\ t.wdirStale = s.wdirStale /\ t.corr = s.corr /\ t.corrX = <<x>>
    BY Zenon DEF Engines
  <1>4. ASSUME Sound(s) PROVE Sound(t)
    <2>0. Copies(s) /\ Shaped(s) /\ Tang(s) /\ Wdir(s) BY Zenon, <1>4 DEF Sound
    <2>6. t.W = s.W /\ t.blk = s.blk /\ t.Wt = s.Wt /\ t.span = s.span /\ t.xc = s.xc BY Zenon, <1>3
    <2>1. Copies(t) BY ONLY <2>0, <2>6, Zenon DEF Copies
    <2>2. Shaped(t) BY ONLY <2>0, <2>6, Zenon DEF Shaped
    <2>3. Tang(t) BY ONLY <2>0, <2>6, Zenon DEF Tang
    <2>4. Wdir(t) BY ONLY <2>0, <1>3, Zenon DEF Wdir
    <2>5. t \in Engines(t.df, t.wdir) BY Zenon, <1>2, <1>3
    <2> QED BY Zenon, <2>1, <2>2, <2>3, <2>4, <2>5 DEF Sound
  <1>5. ASSUME Synced(s) PROVE Synced(t)
    <2> SUFFICES ASSUME t.synced, NEW c \in Tracked PROVE TrackOf(t, c)
      BY Zenon DEF Synced
    <2>1. s.synced BY Zenon, <1>3
    <2>2. TrackOf(s, c) BY Zenon, <2>1, <1>5 DEF Synced
    <2>3. t.W = s.W /\ t.cached = s.cached /\ t.M = s.M BY Zenon, <1>3
    <2> QED BY ONLY <2>2, <2>3, Zenon DEF TrackOf, OnRows
  <1>6. Memo(s) => Memo(t)
    BY Zenon, <1>3 DEF Memo
  <1>7. ASSUME \A c \in Tangents : CorrOf(s, x, c) PROVE Corr(t) /\ \A c \in Tangents : CorrOf(t, x, c)
    <2>3. t.W = s.W /\ t.corr = s.corr BY Zenon, <1>3
    <2>1. \A c \in Tangents : CorrOf(t, x, c) BY ONLY <1>7, <2>3, Zenon DEF CorrOf
    <2>2. ASSUME NEW y \in States, t.corrX = <<y>> PROVE \A c \in Tangents : CorrOf(t, y, c)
      <3>1. <<x>> = <<y>> BY Zenon, <2>2, <1>3
      <3>2. x = y BY Zenon, <3>1
      <3> QED BY Zenon, <3>2, <2>1
    <2> QED BY Zenon, <2>1, <2>2 DEF Corr
  <1> QED BY Zenon, <1>2, <1>3, <1>4, <1>5, <1>6, <1>7

Ensured(s, t, x) ==
    /\ EngInv(t) /\ t.W = s.W /\ t.cached = s.cached /\ t.synced = s.synced /\ t.xc = s.xc
    /\ Memo(s) => Memo(t)
    /\ Corr(s) => Corr(t) /\ \A c \in Tangents : CorrOf(t, x, c)

LEMMA EnsureCorrIs ==
    ASSUME curves \in CurveSets, NEW x \in States, NEW s, EngInv(s), NEW t, t = EnsureCorr(s, x)
    PROVE  Ensured(s, t, x)
  <1>0. s \in Engines(s.df, s.wdir) /\ Sound(s) /\ Synced(s)
    BY Zenon DEF EngInv, Sound
  <1>1. CASE Tangents = {}
    BY Zenon, <1>0, <1>1 DEF EnsureCorr, Ensured
  <1>2. CASE s.corrX = <<x>>
    <2>1. t = s BY Zenon, <1>2 DEF EnsureCorr
    <2>2. Corr(s) => \A c \in Tangents : CorrOf(s, x, c) BY Zenon, <1>2 DEF Corr
    <2> QED BY Zenon, <2>1, <2>2 DEF Ensured
  <1>3. CASE Tangents # {} /\ s.corrX # <<x>>
    <2>1. PICK u : u = TangentTakes(s, Tangents, x, FALSE) BY Zenon
    <2>2. t = [u EXCEPT !.corrX = <<x>>] BY Zenon, <1>3, <2>1 DEF EnsureCorr
    <2>3. TakenWithout(s, u, Tangents, x)
      <3>1. Tangents \in SUBSET Tangents BY Zenon
      <3> QED BY ONLY <3>1, <1>0, <2>1, curves \in CurveSets, x \in States, TakesWithout, Zenon
    <2>4. u \in Engines(s.df, s.wdir) /\ ButCorr(s, u) /\ \A c \in Tangents : CorrOf(u, x, c)
      BY Zenon, <2>3 DEF TakenWithout
    <2>5. Sound(u) /\ Synced(u) /\ (Memo(s) => Memo(u))
      BY ONLY <2>4, <1>0, ButCorrKeeps, Zenon
    <2>6. u \in Engines(u.df, u.wdir) BY Zenon, <2>5 DEF Sound
    <2>7. /\ t.W = u.W /\ t.cached = u.cached /\ t.synced = u.synced /\ t.xc = u.xc
          /\ Sound(t) /\ Synced(t) /\ (Memo(u) => Memo(t))
          /\ Corr(t) /\ \A c \in Tangents : CorrOf(t, x, c)
      BY ONLY <2>2, <2>4, <2>5, <2>6, x \in States, CorrXIs, ZenonT(60)
    <2> QED BY Zenon, <2>4, <2>5, <2>7 DEF Ensured, EngInv, ButCorr
  <1> QED BY Zenon, <1>1, <1>2, <1>3

\* No bundle has two tangent curves.
OneTangent ==
    \A cs \in CurveSets : \A c, d \in DOMAIN cs : cs[c].kind = "tangent" /\ cs[d].kind = "tangent" => c = d

Resynced(s, t, x) ==
    /\ EngInv(t) /\ AtTangents(t, x)
    /\ OneTangent /\ Exact(s) => Exact(t)

LEMMA TangentSyncIs ==
    ASSUME curves \in CurveSets, NEW x \in States, NEW s, EngInv(s), NEW t, t = TangentSync(s, x)
    PROVE  Resynced(s, t, x)
  <1> DEFINE moved == {c \in Tangents : s.xc[c] # <<x[c]>>}
  <1>0. Sound(s) /\ Synced(s)
    BY Zenon DEF EngInv
  <1>1. CASE moved = {}
    <2>1. t = s BY Zenon, <1>1 DEF TangentSync
    <2>2. AtTangents(s, x) BY Zenon, <1>1 DEF AtTangents
    <2> QED BY Zenon, <2>1, <2>2 DEF Resynced
  <1>2. CASE moved # {}
    <2>1. PICK u : u = TangentTakes(s, moved, x, TRUE) BY Zenon
    <2>2. t = [u EXCEPT !.corrX = <<x>>] BY Zenon, <1>2, <2>1 DEF TangentSync
    <2>3. moved \in SUBSET Tangents BY Zenon
    <2> HIDE DEF moved
    <2>4. TakenAll(s, u, moved, x)
      BY ONLY <2>1, <2>3, <1>0, curves \in CurveSets, x \in States, TakesWith, Zenon
    <2>5. /\ Sound(u) /\ \A e \in moved : CorrOf(u, x, e)
          /\ \A e \in Tangents : u.xc[e] = IF e \in moved THEN <<x[e]>> ELSE s.xc[e]
          /\ \A e \in Tracked : TrackOf(s, e) => TrackOf(u, e)
          /\ u.synced = s.synced /\ u.df = s.df /\ u.dfX = s.dfX
      BY Zenon, <2>4 DEF TakenAll
    <2>6. u \in Engines(u.df, u.wdir) BY Zenon, <2>5 DEF Sound
    <2>7. Synced(u) BY Zenon, <2>5, <1>0 DEF Synced
    <2>8. Memo(s) => Memo(u) BY Zenon, <2>5 DEF Memo
    <2>9. AtTangents(u, x)
      BY Zenon, <2>5 DEF AtTangents, moved
    <2>10. /\ t.xc = u.xc /\ Sound(t) /\ Synced(t) /\ (Memo(u) => Memo(t))
           /\ (\A c \in Tangents : CorrOf(u, x, c)) => Corr(t)
      BY ONLY <2>2, <2>5, <2>6, <2>7, x \in States, CorrXIs, ZenonT(60)
    <2>11. AtTangents(t, x) BY Zenon, <2>9, <2>10 DEF AtTangents
    <2>12. ASSUME OneTangent PROVE Corr(t)
      <3>1. \A c, d \in Tangents : c = d
        BY Zenon, <2>12 DEF OneTangent, Tangents, Ids
      <3>2. moved = Tangents
        BY Zenon, <3>1, <2>3, <1>2 DEF moved
      <3> QED BY Zenon, <3>2, <2>5, <2>10
    <2> QED BY Zenon, <2>8, <2>10, <2>11, <2>12 DEF Resynced, EngInv, Exact
  <1> QED BY Zenon, <1>1, <1>2

\* A full re-take: every weight is the one at the state.
FreshAt(t, x) ==
    \A g \in Points : \A a \in Ids : t.W[g][a] = IF a \in Ancestry(g[1]) THEN WeightAt(a, x[a], g[2]) ELSE 0

Finalized(s, t, v) ==
    /\ t \in Engines(s.df, s.wdir) /\ Copies(t) /\ Shaped(t) /\ FreshAt(t, v)
    /\ t.cached = s.cached /\ t.M = s.M /\ t.synced = s.synced /\ t.xc = s.xc /\ t.corr = s.corr
    /\ t.corrX = s.corrX /\ t.df = s.df /\ t.dfX = s.dfX /\ t.dir = s.dir /\ t.wdir = s.wdir
    /\ t.wdirStale = s.wdirStale

LEMMA FinalizeIs ==
    ASSUME curves \in CurveSets, NEW v \in [Ids -> Int], NEW s, s \in Engines(s.df, s.wdir),
           NEW t, t = BuildWt(Finalize(s, v))
    PROVE  Finalized(s, t, v)
  <1> DEFINE w == [g \in Points |-> [a \in Ids |-> IF a \in Ancestry(g[1]) THEN WeightAt(a, v[a], g[2]) ELSE 0]]
             n == [g \in Points |-> {a \in Ids : w[g][a] # 0}]
             f == [s EXCEPT !.W = w, !.blk = w]
  <1>1. \A g \in Points : \A a \in Ids : w[g][a] = IF a \in Ancestry(g[1]) THEN WeightAt(a, v[a], g[2]) ELSE 0
    BY Zenon
  <1>2. w \in Weights
    <2>1. ASSUME NEW g \in Points, NEW a \in Ids PROVE WeightAt(a, v[a], g[2]) \in Int
      <3>1. v[a] \in Int /\ g[2] \in Times BY Zenon, PointTyped
      <3> QED BY ONLY <3>1, a \in Ids, curves \in CurveSets, WeightAtIs, Zenon
    <2>2. 0 \in Int BY SMT
    <2> QED BY Zenon, <2>1, <2>2 DEF Weights
  <1>3. n \in [Points -> SUBSET Ids]
    BY Zenon
  <1>4. f = Finalize(s, v)
    BY Zenon DEF Finalize
  <1> HIDE DEF w
  <1>5. f \in Engines(s.df, s.wdir)
    BY Zenon, <1>2 DEF Engines
  <1>6. /\ f.W = w /\ f.blk = w
        /\ f.cached = s.cached /\ f.M = s.M /\ f.synced = s.synced /\ f.xc = s.xc /\ f.corr = s.corr
        /\ f.corrX = s.corrX /\ f.df = s.df /\ f.dfX = s.dfX /\ f.dir = s.dir /\ f.wdir = s.wdir
        /\ f.wdirStale = s.wdirStale
    BY Zenon DEF Engines
  <1> HIDE DEF f
  <1>7. t = [f EXCEPT !.Wt = w, !.span = n]
    BY ZenonT(60), <1>4, <1>6 DEF BuildWt
  <1> HIDE DEF n
  <1>8. t \in Engines(s.df, s.wdir)
    BY Zenon, <1>2, <1>3, <1>5, <1>7 DEF Engines
  <1>9. /\ t.W = f.W /\ t.blk = f.blk /\ t.Wt = w /\ t.span = n
        /\ t.cached = f.cached /\ t.M = f.M /\ t.synced = f.synced /\ t.xc = f.xc /\ t.corr = f.corr
        /\ t.corrX = f.corrX /\ t.df = f.df /\ t.dfX = f.dfX /\ t.dir = f.dir /\ t.wdir = f.wdir
        /\ t.wdirStale = f.wdirStale
    BY Zenon, <1>5, <1>7 DEF Engines
  <1>10. t.W = w /\ t.blk = w /\ t.Wt = w /\ \A g \in Points : \A a \in Ids : w[g][a] # 0 => a \in t.span[g]
    BY Zenon, <1>6, <1>9 DEF n
  <1>11. Copies(t)
    BY ONLY <1>10, Zenon DEF Copies, CopiesOf
  <1>12. Shaped(t)
    <2> SUFFICES ASSUME NEW g \in Points, NEW a \in Ids
                 PROVE  /\ a \notin Ancestry(g[1]) => t.W[g][a] = 0
                        /\ a \in Ancestry(g[1]) /\ curves[a].kind = "linear" => t.W[g][a] = g[2]
                        /\ a \in Ancestry(g[1]) /\ a \in Tracked /\ g[2] = 1 => t.W[g][a] = 1
      BY Zenon DEF Shaped, ShapeOf
    <2>1. v[a] \in Int /\ g[2] \in Times BY Zenon, PointTyped
    <2>2. /\ curves[a].kind = "linear" => WeightAt(a, v[a], g[2]) = g[2]
          /\ a \in Tracked => WeightAt(a, v[a], g[2]) = AadWeight(v[a], g[2])
      BY ONLY <2>1, a \in Ids, curves \in CurveSets, WeightAtIs, Zenon
    <2>3. AadWeight(v[a], 1) = 1
      BY ONLY <2>1, AadWeightIs, Zenon
    <2>4. t.W[g][a] = IF a \in Ancestry(g[1]) THEN WeightAt(a, v[a], g[2]) ELSE 0
      BY Zenon, <1>1, <1>10
    <2> QED BY ONLY <2>2, <2>3, <2>4, Zenon
  <1>13. FreshAt(t, v)
    BY Zenon, <1>1, <1>10 DEF FreshAt
  <1> QED BY Zenon, <1>6, <1>8, <1>9, <1>11, <1>12, <1>13 DEF Finalized

Retaken(s, t, x) ==
    /\ Sound(t) /\ Corr(t) /\ AtTangents(t, x) /\ (Memo(s) => Memo(t))
    /\ FreshAt(t, x)

LEMMA FullRetakeIs ==
    ASSUME curves \in CurveSets, NEW x \in States, NEW s, Sound(s), NEW t, t = FullRetake(s, x)
    PROVE  Retaken(s, t, x)
  <1> DEFINE b == BuildWt(Finalize(s, x))
             w == [b EXCEPT !.dfStale = TRUE, !.wdirStale = TRUE]
             u == TangentTakes(w, Tangents, x, FALSE)
             k == [c \in Tangents |-> <<x[c]>>]
  <1>0. s \in Engines(s.df, s.wdir) /\ x \in [Ids -> Int]
    <2>1. \A a \in Ids : x[a] \in Int BY Zenon, StateTyped
    <2>2. x \in [Ids -> Knots] BY Zenon DEF States
    <2> QED BY Zenon, <2>1, <2>2 DEF Sound
  <1>1. t = [u EXCEPT !.xc = k, !.corrX = <<x>>]
    BY Zenon DEF FullRetake
  <1>2. /\ b \in Engines(s.df, s.wdir) /\ Copies(b) /\ Shaped(b) /\ FreshAt(b, x)
        /\ b.df = s.df /\ b.dfX = s.dfX /\ b.wdir = s.wdir
    <2> HIDE DEF b
    <2>1. b = BuildWt(Finalize(s, x)) BY Zenon DEF b
    <2>2. Finalized(s, b, x) BY ONLY <1>0, <2>1, curves \in CurveSets, FinalizeIs, Zenon
    <2> QED BY Zenon, <2>2 DEF Finalized
  <1> HIDE DEF b
  <1>3. w \in Engines(s.df, s.wdir)
    BY Zenon, <1>2 DEF Engines
  <1>4. /\ w.W = b.W /\ w.blk = b.blk /\ w.Wt = b.Wt /\ w.span = b.span
        /\ w.df = b.df /\ w.dfX = b.dfX /\ w.wdir = b.wdir /\ w.wdirStale = TRUE
    BY Zenon, <1>2 DEF Engines
  <1> HIDE DEF w
  <1>5. TakenWithout(w, u, Tangents, x)
    <2>1. u = TangentTakes(w, Tangents, x, FALSE) BY Zenon
    <2>2. Tangents \in SUBSET Tangents /\ w \in Engines(w.df, w.wdir) BY Zenon, <1>2, <1>3, <1>4
    <2> QED BY ONLY <2>1, <2>2, curves \in CurveSets, x \in States, TakesWithout, Zenon
  <1> HIDE DEF u
  <1>6. u \in Engines(s.df, s.wdir) /\ ButCorr(w, u) /\ \A e \in Tangents : CorrOf(u, x, e)
    BY Zenon, <1>2, <1>4, <1>5 DEF TakenWithout
  <1>7. k \in [Tangents -> KnotMemos] /\ <<x>> \in Memos
    <2>1. \A c \in Tangents : x[c] \in Knots BY Zenon, StateTyped DEF Tangents
    <2> QED BY Zenon, <2>1 DEF KnotMemos, Memos
  <1>8. t \in Engines(s.df, s.wdir)
    BY Zenon, <1>1, <1>6, <1>7 DEF Engines
  <1>9. /\ t.W = u.W /\ t.blk = u.blk /\ t.Wt = u.Wt /\ t.span = u.span /\ t.corr = u.corr
        /\ t.df = u.df /\ t.dfX = u.dfX /\ t.wdir = u.wdir
        /\ t.wdirStale = u.wdirStale /\ t.xc = k /\ t.corrX = <<x>>
    BY Zenon, <1>1, <1>6, <1>7 DEF Engines
  <1>10. /\ t.W = b.W /\ t.blk = b.blk /\ t.Wt = b.Wt /\ t.span = b.span
         /\ t.df = s.df /\ t.dfX = s.dfX /\ t.wdir = s.wdir /\ t.wdirStale = TRUE
    BY ZenonT(60), <1>2, <1>4, <1>6, <1>9 DEF ButCorr
  <1>11. Copies(t) /\ Shaped(t) /\ FreshAt(t, x)
    <2>0. t.W = b.W /\ t.blk = b.blk /\ t.Wt = b.Wt /\ t.span = b.span BY Zenon, <1>10
    <2>1. Copies(t) BY ONLY <1>2, <2>0, Zenon DEF Copies
    <2>2. Shaped(t) BY ONLY <1>2, <2>0, Zenon DEF Shaped
    <2>3. FreshAt(t, x) BY ONLY <1>2, <2>0, Zenon DEF FreshAt
    <2> QED BY Zenon, <2>1, <2>2, <2>3
  <1>12. AtTangents(t, x)
    BY Zenon, <1>9 DEF AtTangents
  <1>13. Tang(t)
    <2> SUFFICES ASSUME NEW c \in Tangents, NEW v \in Knots, t.xc[c] = <<v>>, NEW g \in Points, c \in Ancestry(g[1])
                 PROVE  t.W[g][c] = Tangent(v, g[2])
      BY Zenon DEF Tang
    <2>6. t.xc[c] = <<x[c]>> /\ t.xc[c] = <<v>> BY Zenon, <1>12 DEF AtTangents
    <2>7. <<v>> = <<x[c]>> BY ONLY <2>6, Zenon
    <2>1. v = x[c] BY ONLY <2>7, Zenon
    <2>2. c \in Ids BY Zenon DEF Tangents
    <2>3. t.W[g][c] = WeightAt(c, x[c], g[2]) BY Zenon, <2>2, <1>11 DEF FreshAt
    <2>4. x[c] \in Int /\ g[2] \in Times BY Zenon, <1>0, <2>2, PointTyped
    <2>5. WeightAt(c, x[c], g[2]) = Tangent(x[c], g[2])
      BY ONLY <2>2, <2>4, c \in Tangents, curves \in CurveSets, WeightAtIs, Zenon
    <2> QED BY Zenon, <2>1, <2>3, <2>5
  <1>14. Corr(t)
    <2>1. \A e \in Tangents : CorrOf(t, x, e)
      <3>1. t.W = u.W /\ t.corr = u.corr BY Zenon, <1>9
      <3> QED BY ONLY <1>6, <3>1, Zenon DEF CorrOf
    <2>2. ASSUME NEW y \in States, t.corrX = <<y>> PROVE \A c \in Tangents : CorrOf(t, y, c)
      <3>2. t.corrX = <<x>> BY Zenon, <1>9
      <3>3. <<x>> = <<y>> BY ONLY <2>2, <3>2, Zenon
      <3>1. x = y BY ONLY <3>3, Zenon
      <3> QED BY Zenon, <3>1, <2>1
    <2> QED BY Zenon, <2>2 DEF Corr
  <1>15. Memo(s) => Memo(t)
    BY Zenon, <1>10 DEF Memo
  <1>16. Wdir(t)
    BY Zenon, <1>10 DEF Wdir
  <1>17. t \in Engines(t.df, t.wdir)
    BY Zenon, <1>8, <1>10
  <1> QED BY Zenon, <1>11, <1>12, <1>13, <1>14, <1>15, <1>16, <1>17 DEF Retaken, Sound

\* A reset leaves every tracked curve with the pattern at the state.
PatternsAt(t, x) == t.synced /\ \A c \in Tracked : t.cached[c] = Pattern(x[c])
Settled(s, t, x) ==
    /\ EngInv(t) /\ PatternsAt(t, x)
    /\ AtTangents(s, x) => AtTangents(t, x)
    /\ Corr(s) => Corr(t)
    /\ Memo(s) => Memo(t)

LEMMA ResetIs ==
    ASSUME curves \in CurveSets, NEW x \in States, NEW s, Sound(s), NEW t, t = Reset(s, x)
    PROVE  Settled(s, t, x)
  <1> DEFINE opaque == {c \in Tracked : curves[c].kind = "opaque"}
             w == IF opaque # {} THEN FullRetake(s, x) ELSE s
             p == [c \in Tracked |-> Pattern(x[c])]
             cells == Tracked \ opaque
             u == FoldSet(LAMBDA c, v : PwlSet(v, c, p[c]), w, cells)
  <1>1. t = [u EXCEPT !.cached = p, !.synced = TRUE]
    BY Zenon DEF Reset
  <1>2. /\ Sound(w) /\ (Corr(s) => Corr(w)) /\ (Memo(s) => Memo(w)) /\ (AtTangents(s, x) => AtTangents(w, x))
        /\ opaque # {} => FreshAt(w, x)
    <2>1. CASE opaque # {}
      <3>1. w = FullRetake(s, x) BY Zenon, <2>1
      <3> HIDE DEF w
      <3>2. Retaken(s, w, x) BY Zenon, <3>1, FullRetakeIs
      <3> QED BY Zenon, <3>2 DEF Retaken
    <2>2. CASE opaque = {}
      <3>1. w = s BY Zenon, <2>2
      <3> QED BY Zenon, <3>1, <2>2
    <2> QED BY Zenon, <2>1, <2>2
  <1> HIDE DEF w
  <1>3. PlacedAll(w, u, cells, x)
    <2>1. cells \in SUBSET Tracked BY Zenon
    <2>2. p = [c \in Tracked |-> Pattern(x[c])] BY Zenon
    <2> HIDE DEF p, cells
    <2>3. u = PwlSets(w, cells, p) BY Zenon DEF PwlSets
    <2> HIDE DEF u
    <2>4. Sound(w) BY Zenon, <1>2
    <2> QED BY ONLY <2>1, <2>2, <2>3, <2>4, curves \in CurveSets, x \in States, PwlSetsAre, Zenon
  <1> HIDE DEF u
  <1>4. /\ Sound(u) /\ (Corr(w) => Corr(u)) /\ (Memo(w) => Memo(u))
        /\ \A e \in cells : OnRows(u, e, Pattern(x[e])) /\ u.M[e] = FormulasOf(Pattern(x[e]))
        /\ \A e \in opaque : \A q : OnRows(w, e, q) => OnRows(u, e, q)
        /\ u.xc = w.xc
    BY Zenon, <1>3 DEF PlacedAll
  <1>5. \A c \in Tracked : c \in Ids /\ x[c] \in Int /\ Pattern(x[c]) \in Patterns /\ (Pattern(x[c]) = {} <=> x[c] = 0)
    <2>1. \A c \in Tracked : c \in Ids BY Zenon DEF Tracked
    <2>2. \A c \in Tracked : x[c] \in Int BY Zenon, <2>1, StateTyped
    <2> QED BY Zenon, <2>1, <2>2, PatternTyped
  <1>6. t \in Engines(u.df, u.wdir) /\ Agree(u, t) /\ t.cached = p /\ t.synced = TRUE /\ t.M = u.M
    <2>0. u \in Engines(u.df, u.wdir) BY Zenon, <1>4 DEF Sound
    <2>1. p \in [Tracked -> {NoPattern} \cup Patterns] BY Zenon, <1>5
    <2> HIDE DEF p
    <2>2. t \in Engines(u.df, u.wdir) BY Zenon, <1>1, <2>0, <2>1 DEF Engines
    <2>3. Agree(u, t) /\ t.cached = p /\ t.synced = TRUE /\ t.M = u.M BY Zenon, <1>1, <2>0 DEF Engines, Agree
    <2> QED BY Zenon, <2>2, <2>3
  <1>7. Sound(t) /\ (Corr(u) => Corr(t)) /\ (Memo(u) => Memo(t))
    BY Zenon, <1>4, <1>6, AgreeKeeps
  <1>8. PatternsAt(t, x)
    BY Zenon, <1>6 DEF PatternsAt
  <1>9. AtTangents(s, x) => AtTangents(t, x)
    <2>1. t.xc = w.xc BY Zenon, <1>4, <1>6 DEF Agree
    <2> QED BY Zenon, <1>2, <2>1 DEF AtTangents
  <1>10. t.W = u.W BY Zenon, <1>6 DEF Agree
  <1>11. ASSUME NEW c \in Tracked PROVE TrackOf(t, c)
    <2>1. t.cached[c] = Pattern(x[c]) BY Zenon, <1>8 DEF PatternsAt
    <2>2. CASE c \in cells
      <3>1. OnRows(t, c, Pattern(x[c])) /\ t.M[c] = FormulasOf(Pattern(x[c]))
        BY ZenonT(60), <2>2, <1>4, <1>6, <1>10 DEF OnRows
      <3>2. curves[c].kind = "cell" BY Zenon, <2>2 DEF Tracked
      <3>3. curves[c].kind # "opaque" BY Zenon, <3>2
      <3> QED BY Zenon, <2>1, <3>1, <3>2, <3>3, <1>5 DEF TrackOf
    <2>3. CASE c \in opaque
      <3>1. curves[c].kind # "cell" BY Zenon, <2>3
      <3>2. CASE Pattern(x[c]) = {}
        BY Zenon, <2>1, <3>1, <3>2, <1>5 DEF TrackOf
      <3>3. CASE Pattern(x[c]) # {}
        <4>1. x[c] # 0 BY Zenon, <3>3, <1>5
        <4>2. OnRows(w, c, Pattern(x[c]))
          <5> SUFFICES ASSUME NEW g \in Points, c \in Ancestry(g[1]) PROVE w.W[g][c] = PatternWeight(Pattern(x[c]), g[2])
            BY Zenon DEF OnRows
          <5>1. FreshAt(w, x) BY Zenon, <2>3, <1>2
          <5>2. w.W[g][c] = WeightAt(c, x[c], g[2]) BY Zenon, <5>1, <1>5 DEF FreshAt
          <5>3. c \in Ids /\ x[c] \in Int /\ g[2] \in Times BY Zenon, <1>5, PointTyped
          <5>4. WeightAt(c, x[c], g[2]) = AadWeight(x[c], g[2])
            BY ONLY <5>3, c \in Tracked, curves \in CurveSets, WeightAtIs, Zenon
          <5>5. AadWeight(x[c], g[2]) = PatternWeight(Pattern(x[c]), g[2]) BY ONLY <4>1, <5>3, AadWeightIs, Zenon
          <5> QED BY Zenon, <5>2, <5>4, <5>5
        <4>3. OnRows(t, c, Pattern(x[c])) BY Zenon, <4>2, <2>3, <1>4, <1>10 DEF OnRows
        <4> QED BY Zenon, <2>1, <3>1, <4>3, <1>5 DEF TrackOf
      <3> QED BY Zenon, <3>2, <3>3
    <2> QED BY Zenon, <2>2, <2>3
  <1> QED BY Zenon, <1>2, <1>4, <1>7, <1>8, <1>9, <1>11 DEF Settled, EngInv, Synced

LEMMA PwlSyncIs ==
    ASSUME curves \in CurveSets, NEW x \in States, NEW s, EngInv(s), NEW t, t = PwlSync(s, x)
    PROVE  Settled(s, t, x)
  <1> DEFINE u == EnsureCorr(s, x)
             dirty == {c \in Tracked : s.cached[c] # Pattern(x[c])}
  <1>1. Ensured(s, u, x)
    <2> HIDE DEF u
    <2>1. u = EnsureCorr(s, x) BY Zenon DEF u
    <2> QED BY Zenon, <2>1, EnsureCorrIs
  <1>2. \/ s.synced /\ dirty = {} /\ t = u
        \/ s.synced /\ (\A c \in dirty : curves[c].kind = "cell") /\ t = RankUpdates(u, dirty, x)
        \/ t = Reset(u, x)
    BY Zenon DEF PwlSync, RankUpdates
  <1> HIDE DEF u
  <1>3. /\ Sound(u) /\ Synced(u) /\ u.cached = s.cached /\ u.synced = s.synced
        /\ AtTangents(s, x) => AtTangents(u, x)
        /\ Memo(s) => Memo(u)
        /\ Corr(s) => Corr(u)
    <2>1. /\ EngInv(u) /\ u.cached = s.cached /\ u.synced = s.synced /\ u.xc = s.xc
          /\ Memo(s) => Memo(u)
          /\ Corr(s) => Corr(u)
      BY Zenon, <1>1 DEF Ensured
    <2> QED BY Zenon, <2>1 DEF EngInv, AtTangents
  <1>4. CASE s.synced /\ dirty = {} /\ t = u
    <2>1. PatternsAt(t, x) BY Zenon, <1>3, <1>4 DEF PatternsAt
    <2> QED BY Zenon, <1>3, <1>4, <2>1 DEF Settled, EngInv
  <1>5. CASE s.synced /\ (\A c \in dirty : curves[c].kind = "cell") /\ t = RankUpdates(u, dirty, x)
    <2>1. \A e \in Tracked : TrackOf(u, e) BY Zenon, <1>3, <1>5 DEF Synced
    <2>2. dirty \in SUBSET Tracked BY Zenon
    <2>3. \A c \in Tracked : c \notin dirty => s.cached[c] = Pattern(x[c]) BY Zenon
    <2> HIDE DEF dirty
    <2>4. RankedAll(u, t, dirty, x)
      BY ONLY <1>3, <1>5, <2>1, <2>2, curves \in CurveSets, x \in States, RankUpdatesAre, Zenon
    <2>5. /\ Sound(t) /\ (Corr(u) => Corr(t)) /\ (Memo(u) => Memo(t))
          /\ \A e \in Tracked : TrackOf(t, e) /\ t.cached[e] = IF e \in dirty THEN Pattern(x[e]) ELSE u.cached[e]
          /\ t.xc = u.xc /\ t.synced = u.synced
      BY Zenon, <2>4 DEF RankedAll
    <2>6. \A e \in Tracked : t.cached[e] = Pattern(x[e])
      <3> SUFFICES ASSUME NEW e \in Tracked PROVE t.cached[e] = Pattern(x[e])
        BY Zenon
      <3>1. CASE e \in dirty BY Zenon, <3>1, <2>5
      <3>2. CASE e \notin dirty BY Zenon, <3>2, <2>3, <2>5, <1>3
      <3> QED BY Zenon, <3>1, <3>2
    <2>7. PatternsAt(t, x) BY Zenon, <1>3, <1>5, <2>5, <2>6 DEF PatternsAt
    <2>8. AtTangents(u, x) => AtTangents(t, x) BY Zenon, <2>5 DEF AtTangents
    <2> QED BY Zenon, <1>3, <2>5, <2>7, <2>8 DEF Settled, EngInv, Synced
  <1>6. CASE t = Reset(u, x)
    <2>1. Settled(u, t, x) BY Zenon, <1>3, <1>6, ResetIs
    <2> QED BY Zenon, <1>3, <2>1 DEF Settled
  <1> QED BY Zenon, <1>2, <1>4, <1>5, <1>6

\* The discount exponents, from weights and corrections at the state.
LEMMA DiscountsAre ==
    ASSUME curves \in CurveSets, NEW x \in States, NEW s, Sound(s), Synced(s), PatternsAt(s, x),
           \A c \in Tangents : CorrOf(s, x, c)
    PROVE  Discounts(s, x) = [g \in Points |-> LogDiscount(g, x)]
  <1>1. ASSUME NEW g \in Points, NEW a \in Ancestry(g[1])
        PROVE  s.blk[g][a] * x[a] + (IF a \in Tangents THEN s.corr[g][a] ELSE 0) = Integral(a, x[a], g[2])
    <2>1. a \in Ids /\ g[2] \in Times
      <3>1. g[1] \in Ids /\ g[2] \in Times BY Zenon, PointTyped
      <3> QED BY Zenon, <3>1, AncestryTyped
    <2>2. x[a] \in Int BY Zenon, <2>1, StateTyped
    <2>3. s.blk[g][a] = s.W[g][a] BY Zenon, <2>1 DEF Sound, Copies, CopiesOf
    <2>4. s.W \in Weights /\ s.corr \in Weights BY Zenon DEF Sound, Engines
    <2>5. s.W[g][a] \in Int /\ s.corr[g][a] \in Int BY Zenon, <2>1, <2>4 DEF Weights
    <2>6. /\ Integral(a, x[a], g[2]) \in Int
          /\ curves[a].kind = "linear" => Integral(a, x[a], g[2]) = g[2] * x[a]
          /\ a \in Tracked => Integral(a, x[a], g[2]) = PatternWeight(Pattern(x[a]), g[2]) * x[a]
      BY ONLY <2>1, <2>2, curves \in CurveSets, IntegralIs, Zenon
    <2>7. PICK w \in Int, k \in Int, v \in Int, i \in Int, h \in Int :
              w = s.W[g][a] /\ k = s.corr[g][a] /\ v = x[a] /\ i = Integral(a, x[a], g[2]) /\ h = g[2]
      <3>1. g[2] \in Int BY SMT, <2>1 DEF Times
      <3> QED BY Zenon, <2>2, <2>5, <2>6, <3>1
    <2>8. CASE a \in Tangents
      <3>1. k = i - w * v BY Zenon, <2>7, <2>8 DEF CorrOf
      <3>2. w * v + k = i BY SMT, <3>1
      <3> QED BY Zenon, <2>3, <2>7, <2>8, <3>2
    <2>9. CASE curves[a].kind = "linear"
      <3>1. Shaped(s) BY Zenon DEF Sound
      <3>2. w = h BY Zenon, <3>1, <2>1, <2>7, <2>9 DEF Shaped, ShapeOf
      <3>3. a \notin Tangents BY Zenon, <2>1, <2>9, Kinds
      <3>4. i = h * v BY Zenon, <2>6, <2>7, <2>9
      <3>5. w * v + 0 = i BY SMT, <3>2, <3>4
      <3> QED BY Zenon, <2>3, <2>7, <3>3, <3>5
    <2>10. CASE a \in Tracked
      <3>1. a \notin Tangents BY Zenon, <2>1, <2>10, Kinds
      <3>2. TrackOf(s, a) /\ s.cached[a] = Pattern(x[a]) BY Zenon, <2>10 DEF Synced, PatternsAt
      <3>3. w * v + 0 = i
        <4>1. CASE v = 0
          <5>1. PICK u \in Int : u = PatternWeight(Pattern(x[a]), g[2]) BY Zenon, <2>1, PatternWeightIs
          <5>2. i = u * v BY Zenon, <5>1, <2>6, <2>7, <2>10
          <5> QED BY SMT, <4>1, <5>2
        <4>2. CASE v # 0
          <5>1. Pattern(x[a]) # {} BY Zenon, <4>2, <2>2, <2>7, PatternTyped
          <5>2. OnRows(s, a, Pattern(x[a])) BY Zenon, <5>1, <3>2, <2>10 DEF TrackOf, Tracked
          <5>3. w = PatternWeight(Pattern(x[a]), g[2]) BY Zenon, <5>2, <2>7 DEF OnRows
          <5>4. i = w * v BY Zenon, <5>3, <2>6, <2>7, <2>10
          <5> QED BY SMT, <5>4
        <4> QED BY Zenon, <4>1, <4>2
      <3> QED BY Zenon, <2>3, <2>7, <3>1, <3>3
    <2> QED BY Zenon, <2>1, <2>8, <2>9, <2>10, Kinds
  <1>2. \A g \in Points : [a \in Ancestry(g[1]) |-> s.blk[g][a] * x[a] + (IF a \in Tangents THEN s.corr[g][a] ELSE 0)]
                            = [a \in Ancestry(g[1]) |-> Integral(a, x[a], g[2])]
    BY Zenon, <1>1
  <1>3. \A g \in Points : Total([a \in Ancestry(g[1]) |-> s.blk[g][a] * x[a] + (IF a \in Tangents THEN s.corr[g][a] ELSE 0)])
                            = LogDiscount(g, x)
    BY Zenon, <1>2 DEF LogDiscount
  <1> QED BY Zenon, <1>3 DEF Discounts

------------------------------------------------------------------------------
(* The curves never change. *)

LEMMA SameKinds ==
    ASSUME curves' = curves
    PROVE  Ids' = Ids /\ Points' = Points /\ Tracked' = Tracked /\ Tangents' = Tangents /\ States' = States
           /\ Directions' = Directions
  <1>1. Ids' = Ids BY Zenon DEF Ids
  <1>2. Tracked' = Tracked BY Zenon, <1>1 DEF Tracked
  <1>3. Tangents' = Tangents BY Zenon, <1>1 DEF Tangents
  <1> QED BY Zenon, <1>1, <1>2, <1>3 DEF Points, States, Directions

LEMMA SameAncestry == ASSUME curves' = curves, NEW d PROVE Ancestry(d)' = Ancestry(d)
  BY Zenon DEF Ancestry, Ids

LEMMA SameIntegral == ASSUME curves' = curves, NEW c, NEW v, NEW t PROVE Integral(c, v, t)' = Integral(c, v, t)
  BY Zenon DEF Integral

LEMMA SameWeightAt == ASSUME curves' = curves, NEW c, NEW v, NEW t PROVE WeightAt(c, v, t)' = WeightAt(c, v, t)
  BY Zenon DEF WeightAt

LEMMA SameLogDiscount == ASSUME curves' = curves, NEW g, NEW x PROVE LogDiscount(g, x)' = LogDiscount(g, x)
  <1>1. \A a : Integral(a, x[a], g[2])' = Integral(a, x[a], g[2])
    BY Zenon, SameIntegral
  <1>2. Ancestry(g[1])' = Ancestry(g[1])
    BY Zenon, SameAncestry
  <1>3. [a \in Ancestry(g[1])' |-> Integral(a, x[a], g[2])'] = [a \in Ancestry(g[1]) |-> Integral(a, x[a], g[2])]
    BY Zenon, <1>1, <1>2
  <1> QED BY Zenon, <1>3 DEF LogDiscount

LEMMA SameAlong == ASSUME curves' = curves, NEW w, NEW d PROVE Along(w, d)' = Along(w, d)
  BY Zenon, SameKinds DEF Along

LEMMA SameTrack == ASSUME curves' = curves, NEW e, e = eng', NEW c, TrackOf(e, c) PROVE TrackOf(eng, c)'
  <1>1. e.cached[c] \in Patterns BY Zenon DEF TrackOf
  <1>2. \A p : OnRows(e, c, p) => OnRows(eng, c, p)'
    <2> SUFFICES ASSUME NEW p, OnRows(e, c, p) PROVE OnRows(eng, c, p)'
      BY Zenon
    <2>1. \A g \in Points : c \in Ancestry(g[1]) => e.W[g][c] = PatternWeight(p, g[2])
      BY Zenon DEF OnRows
    <2> QED BY Zenon, <2>1, SameKinds, SameAncestry DEF OnRows
  <1> QED BY Zenon, <1>1, <1>2 DEF TrackOf

LEMMA SameCorrOf == ASSUME curves' = curves, NEW e, e = eng', NEW x, NEW c, CorrOf(e, x, c) PROVE CorrOf(eng, x, c)'
  <1>1. \A g : g \in Points' => g \in Points BY Zenon, SameKinds
  <1>2. \A g : Integral(c, x[c], g[2])' = Integral(c, x[c], g[2]) /\ Ancestry(g[1])' = Ancestry(g[1])
    BY Zenon, SameIntegral, SameAncestry
  <1> SUFFICES ASSUME NEW g, g \in Points', c \in Ancestry(g[1])'
               PROVE  e.corr[g][c] = Integral(c, x[c], g[2])' - e.W[g][c] * x[c]
    BY Zenon DEF CorrOf
  <1>3. g \in Points /\ c \in Ancestry(g[1]) BY Zenon, <1>1, <1>2
  <1>4. e.corr[g][c] = Integral(c, x[c], g[2]) - e.W[g][c] * x[c] BY Zenon, <1>3 DEF CorrOf
  <1> QED BY Zenon, <1>2, <1>4

LEMMA SameSound == ASSUME curves' = curves, NEW e, e = eng', Sound(e) PROVE Sound(eng)'
  <1>1. (eng \in Engines(eng.df, eng.wdir))'
    BY Zenon, SameKinds DEF Sound, Engines, Weights, Memos, KnotMemos, DirMemos
  <1>2. Copies(eng)'
    BY ZenonT(60), SameKinds DEF Sound, Copies, CopiesOf
  <1>3. Shaped(eng)'
    BY ZenonT(60), SameKinds, SameAncestry DEF Sound, Shaped, ShapeOf
  <1>4. Tang(eng)'
    BY ZenonT(60), SameKinds, SameAncestry DEF Sound, Tang
  <1>5. Wdir(eng)'
    <2>1. Wdir(e) BY Zenon DEF Sound
    <2>2. \A w, d : Along(w, d)' = Along(w, d) BY Zenon, SameAlong
    <2> SUFFICES ASSUME NEW d \in Directions, ~e.wdirStale, e.dir = <<d>> PROVE e.wdir = Along(e.W, d)'
      BY Zenon, SameKinds DEF Wdir
    <2>3. e.wdir = Along(e.W, d) BY Zenon, <2>1 DEF Wdir
    <2> QED BY Zenon, <2>2, <2>3
  <1> QED BY Zenon, <1>1, <1>2, <1>3, <1>4, <1>5 DEF Sound

LEMMA SameEngInv == ASSUME curves' = curves, NEW e, e = eng', EngInv(e) PROVE EngInv(eng)'
  <1>1. Sound(eng)' BY Zenon, SameSound DEF EngInv
  <1>2. Synced(eng)' BY Zenon, SameKinds, SameTrack DEF EngInv, Synced
  <1> QED BY Zenon, <1>1, <1>2 DEF EngInv

LEMMA SameExact == ASSUME curves' = curves, NEW e, e = eng', Exact(e) PROVE Exact(eng)'
  <1>1. Corr(eng)' BY Zenon, SameKinds, SameCorrOf DEF Exact, Corr
  <1>2. Memo(eng)' 
    <2>1. \A g, x : LogDiscount(g, x)' = LogDiscount(g, x) BY Zenon, SameLogDiscount
    <2>2. Points' = Points /\ States' = States BY Zenon, SameKinds
    <2> SUFFICES ASSUME NEW x \in States, e.dfX = <<x>> PROVE e.df = [g \in Points' |-> LogDiscount(g, x)']
      BY Zenon, <2>2 DEF Memo
    <2>3. e.df = [g \in Points |-> LogDiscount(g, x)] BY Zenon DEF Exact, Memo
    <2>4. [g \in Points |-> LogDiscount(g, x)] = [g \in Points' |-> LogDiscount(g, x)']
      BY Zenon, <2>1, <2>2
    <2> QED BY Zenon, <2>3, <2>4
  <1> QED BY Zenon, <1>1, <1>2 DEF Exact

------------------------------------------------------------------------------
(* The evaluations. *)

Dated(s, t, x) ==
    /\ EngInv(t) /\ PatternsAt(t, x)
    /\ AtTangents(s, x) => AtTangents(t, x)
    /\ Exact(s) => Exact(t) /\ t.df = [g \in Points |-> LogDiscount(g, x)]

LEMMA DfAtIs ==
    ASSUME curves \in CurveSets, NEW x \in States, NEW s, EngInv(s), NEW t, t = DfAt(s, x)
    PROVE  Dated(s, t, x)
  <1> DEFINE u == PwlSync(s, x)
             v == EnsureCorr(u, x)
             df == Discounts(v, x)
  <1>1. Settled(s, u, x)
    <2> HIDE DEF u
    <2>1. u = PwlSync(s, x) BY Zenon DEF u
    <2> QED BY Zenon, <2>1, PwlSyncIs
  <1>2. \/ u.dfX = <<x>> /\ t = u
        \/ t = [v EXCEPT !.dfStale = FALSE, !.df = df, !.dfX = <<x>>]
    BY Zenon DEF DfAt
  <1> HIDE DEF u
  <1>3. /\ EngInv(u) /\ PatternsAt(u, x)
        /\ AtTangents(s, x) => AtTangents(u, x)
        /\ Corr(s) => Corr(u)
        /\ Memo(s) => Memo(u)
    BY Zenon, <1>1 DEF Settled
  <1>4. CASE u.dfX = <<x>> /\ t = u
    <2>1. Memo(u) => u.df = [g \in Points |-> LogDiscount(g, x)]
      BY Zenon, <1>4 DEF Memo
    <2> QED BY Zenon, <1>3, <1>4, <2>1 DEF Dated, Exact
  <1>5. CASE t = [v EXCEPT !.dfStale = FALSE, !.df = df, !.dfX = <<x>>]
    <2>1. Ensured(u, v, x)
      <3> HIDE DEF v
      <3>1. v = EnsureCorr(u, x) BY Zenon DEF v
      <3> QED BY Zenon, <3>1, <1>3, EnsureCorrIs
    <2> HIDE DEF v, df
    <2>2. /\ EngInv(v) /\ v.cached = u.cached /\ v.synced = u.synced /\ v.xc = u.xc
          /\ Corr(u) => Corr(v) /\ \A c \in Tangents : CorrOf(v, x, c)
      BY Zenon, <2>1 DEF Ensured
    <2>3. Sound(v) /\ Synced(v) /\ v \in Engines(v.df, v.wdir) BY Zenon, <2>2 DEF EngInv, Sound
    <2>4. PatternsAt(v, x) BY Zenon, <2>2, <1>3 DEF PatternsAt
    <2>5. <<x>> \in Memos BY Zenon DEF Memos
    <2>6. t \in Engines(df, v.wdir) BY Zenon, <1>5, <2>3, <2>5 DEF Engines
    <2>7. /\ t.W = v.W /\ t.blk = v.blk /\ t.Wt = v.Wt /\ t.span = v.span /\ t.cached = v.cached /\ t.M = v.M
          /\ t.synced = v.synced /\ t.xc = v.xc /\ t.corr = v.corr /\ t.corrX = v.corrX
          /\ t.dir = v.dir /\ t.wdir = v.wdir /\ t.wdirStale = v.wdirStale /\ t.df = df /\ t.dfX = <<x>>
      BY Zenon, <1>5, <2>3 DEF Engines
    <2>8. Sound(t)
      <3>0. Copies(v) /\ Shaped(v) /\ Tang(v) /\ Wdir(v) BY Zenon, <2>3 DEF Sound
      <3>6. t.W = v.W /\ t.blk = v.blk /\ t.Wt = v.Wt /\ t.span = v.span /\ t.xc = v.xc BY Zenon, <2>7
      <3>1. Copies(t) BY ONLY <3>0, <3>6, Zenon DEF Copies
      <3>2. Shaped(t) BY ONLY <3>0, <3>6, Zenon DEF Shaped
      <3>3. Tang(t) BY ONLY <3>0, <3>6, Zenon DEF Tang
      <3>4. Wdir(t) BY ONLY <3>0, <2>7, Zenon DEF Wdir
      <3>5. t \in Engines(t.df, t.wdir) BY Zenon, <2>6, <2>7
      <3> QED BY Zenon, <3>1, <3>2, <3>3, <3>4, <3>5 DEF Sound
    <2>9. Synced(t)
      <3> SUFFICES ASSUME t.synced, NEW c \in Tracked PROVE TrackOf(t, c)
        BY Zenon DEF Synced
      <3>1. v.synced BY Zenon, <2>7
      <3>2. TrackOf(v, c) BY Zenon, <3>1, <2>3 DEF Synced
      <3>3. t.W = v.W /\ t.cached = v.cached /\ t.M = v.M BY Zenon, <2>7
      <3> QED BY ONLY <3>2, <3>3, Zenon DEF TrackOf, OnRows
    <2>10. PatternsAt(t, x) BY Zenon, <2>4, <2>7 DEF PatternsAt
    <2>11. AtTangents(s, x) => AtTangents(t, x) BY Zenon, <1>3, <2>2, <2>7 DEF AtTangents
    <2>12. ASSUME Exact(s) PROVE Exact(t) /\ t.df = [g \in Points |-> LogDiscount(g, x)]
      <3>1. Corr(v) /\ \A c \in Tangents : CorrOf(v, x, c) BY Zenon, <1>3, <2>2, <2>12 DEF Exact
      <3>2. df = [g \in Points |-> LogDiscount(g, x)] BY Zenon, <3>1, <2>3, <2>4, DiscountsAre DEF df
      <3>3. Corr(t)
        <4>1. t.W = v.W /\ t.corr = v.corr /\ t.corrX = v.corrX BY Zenon, <2>7
        <4> QED BY ONLY <3>1, <4>1, Zenon DEF Corr, CorrOf
      <3>4. ASSUME NEW y \in States, t.dfX = <<y>> PROVE t.df = [g \in Points |-> LogDiscount(g, y)]
        <4>1. t.dfX = <<x>> BY Zenon, <2>7
        <4>2. <<x>> = <<y>> BY ONLY <3>4, <4>1, Zenon
        <4>3. x = y BY ONLY <4>2, Zenon
        <4> QED BY Zenon, <4>3, <3>2, <2>7
      <3> QED BY Zenon, <2>7, <3>2, <3>3, <3>4 DEF Exact, Memo
    <2> QED BY Zenon, <2>8, <2>9, <2>10, <2>11, <2>12 DEF Dated, EngInv
  <1> QED BY Zenon, <1>2, <1>4, <1>5

Directed(s, t, d) ==
    /\ EngInv(t) /\ (Exact(s) => Exact(t)) /\ t.df = s.df
    /\ t.wdir = Along(t.W, d)
    /\ \A x \in States : (PatternsAt(s, x) => PatternsAt(t, x)) /\ (AtTangents(s, x) => AtTangents(t, x))

LEMMA DirectionMemoIs ==
    ASSUME NEW d \in Directions, NEW s, EngInv(s), NEW t, t = DirectionMemo(s, d)
    PROVE  Directed(s, t, d)
  <1> DEFINE k == [g \in Points |-> Total([a \in Ids |-> s.W[g][a] * d[a]])]
  <1>1. \/ ~s.wdirStale /\ s.dir = <<d>> /\ t = s
        \/ t = [s EXCEPT !.wdir = k, !.dir = <<d>>, !.wdirStale = FALSE]
    BY Zenon DEF DirectionMemo
  <1>2. k = Along(s.W, d) BY Zenon DEF Along
  <1> HIDE DEF k
  <1>3. Sound(s) /\ Synced(s) /\ s \in Engines(s.df, s.wdir) BY Zenon DEF EngInv, Sound
  <1>4. CASE ~s.wdirStale /\ s.dir = <<d>> /\ t = s
    <2>1. Wdir(s) BY Zenon, <1>3 DEF Sound
    <2>2. s.wdir = Along(s.W, d) BY Zenon, <1>4, <2>1 DEF Wdir
    <2> QED BY Zenon, <1>4, <2>2 DEF Directed
  <1>5. CASE t = [s EXCEPT !.wdir = k, !.dir = <<d>>, !.wdirStale = FALSE]
    <2>1. <<d>> \in DirMemos BY Zenon DEF DirMemos
    <2>2. t \in Engines(s.df, k) BY ZenonT(60), <1>3, <1>5, <2>1 DEF Engines
    <2>3. /\ t.W = s.W /\ t.blk = s.blk /\ t.Wt = s.Wt /\ t.span = s.span /\ t.cached = s.cached /\ t.M = s.M
          /\ t.synced = s.synced /\ t.xc = s.xc /\ t.corr = s.corr /\ t.corrX = s.corrX /\ t.df = s.df /\ t.dfX = s.dfX
          /\ t.dir = <<d>> /\ t.wdir = k
      BY Zenon, <1>3, <1>5 DEF Engines
    <2>4. Sound(t)
      <3>0. Copies(s) /\ Shaped(s) /\ Tang(s) BY Zenon, <1>3 DEF Sound
      <3>6. t.W = s.W /\ t.blk = s.blk /\ t.Wt = s.Wt /\ t.span = s.span /\ t.xc = s.xc BY Zenon, <2>3
      <3>1. Copies(t) BY ONLY <3>0, <3>6, Zenon DEF Copies
      <3>2. Shaped(t) BY ONLY <3>0, <3>6, Zenon DEF Shaped
      <3>3. Tang(t) BY ONLY <3>0, <3>6, Zenon DEF Tang
      <3>4. Wdir(t)
        <4> SUFFICES ASSUME NEW e \in Directions, t.dir = <<e>> PROVE t.wdir = Along(t.W, e)
          BY Zenon DEF Wdir
        <4>1. t.dir = <<d>> /\ t.dir = <<e>> BY Zenon, <2>3
        <4>2. <<d>> = <<e>> BY ONLY <4>1, Zenon
        <4>3. d = e BY ONLY <4>2, Zenon
        <4> QED BY Zenon, <4>3, <2>3, <1>2
      <3>5. t \in Engines(t.df, t.wdir) BY Zenon, <2>2, <2>3
      <3> QED BY Zenon, <3>1, <3>2, <3>3, <3>4, <3>5 DEF Sound
    <2>5. Synced(t)
      <3> SUFFICES ASSUME t.synced, NEW c \in Tracked PROVE TrackOf(t, c)
        BY Zenon DEF Synced
      <3>1. s.synced BY Zenon, <2>3
      <3>2. TrackOf(s, c) BY Zenon, <3>1, <1>3 DEF Synced
      <3>3. t.W = s.W /\ t.cached = s.cached /\ t.M = s.M BY Zenon, <2>3
      <3> QED BY ONLY <3>2, <3>3, Zenon DEF TrackOf, OnRows
    <2>6. Corr(s) => Corr(t)
      <3>1. t.W = s.W /\ t.corr = s.corr /\ t.corrX = s.corrX BY Zenon, <2>3
      <3> QED BY ONLY <3>1, Zenon DEF Corr, CorrOf
    <2>7. Memo(s) => Memo(t)
      <3>1. t.df = s.df /\ t.dfX = s.dfX BY Zenon, <2>3
      <3> QED BY ONLY <3>1, Zenon DEF Memo
    <2>8. \A x \in States : (PatternsAt(s, x) => PatternsAt(t, x)) /\ (AtTangents(s, x) => AtTangents(t, x))
      <3>1. t.cached = s.cached /\ t.synced = s.synced /\ t.xc = s.xc BY Zenon, <2>3
      <3> QED BY ONLY <3>1, Zenon DEF PatternsAt, AtTangents
    <2>9. t.wdir = Along(t.W, d) BY Zenon, <1>2, <2>3
    <2> QED BY Zenon, <2>3, <2>4, <2>5, <2>6, <2>7, <2>8, <2>9 DEF Directed, EngInv, Exact
  <1> QED BY Zenon, <1>1, <1>4, <1>5

\* Synchronised at a state, the weights are the slopes there.
LEMMA SlopesAre ==
    ASSUME curves \in CurveSets, NEW x \in States, NEW s, EngInv(s), PatternsAt(s, x), AtTangents(s, x),
           NEW g \in Points, NEW a \in Ids
    PROVE  /\ s.W[g][a] \in Int /\ Slope(g, a, x) \in Int
           /\ Smooth(a, x) => s.W[g][a] = Slope(g, a, x)
  <1>0. x[a] \in Int /\ x[a] \in Knots /\ g[2] \in Times BY Zenon, StateTyped, PointTyped
  <1>1. s.W \in Weights /\ Shaped(s) /\ Tang(s) /\ Synced(s) BY Zenon DEF EngInv, Sound, Engines
  <1>2. s.W[g][a] \in Int BY Zenon, <1>1 DEF Weights
  <1>3. /\ WeightAt(a, x[a], g[2]) \in Int
        /\ curves[a].kind = "linear" => WeightAt(a, x[a], g[2]) = g[2]
        /\ a \in Tangents => WeightAt(a, x[a], g[2]) = Tangent(x[a], g[2])
    BY ONLY <1>0, a \in Ids, curves \in CurveSets, WeightAtIs, Zenon
  <1>4. PatternWeight(Pattern(x[a]), g[2]) \in Int BY Zenon, <1>0, PatternWeightIs
  <1>5. Slope(g, a, x) \in Int
    <2>1. 0 \in Int BY SMT
    <2> QED BY Zenon, <1>3, <1>4, <2>1 DEF Slope
  <1>6. ASSUME Smooth(a, x) PROVE s.W[g][a] = Slope(g, a, x)
    <2>1. CASE a \notin Ancestry(g[1])
      BY Zenon, <2>1, <1>1 DEF Slope, Shaped, ShapeOf
    <2>2. CASE a \in Ancestry(g[1]) /\ a \in Tracked
      <3>1. Slope(g, a, x) = PatternWeight(Pattern(x[a]), g[2]) BY Zenon, <2>2 DEF Slope
      <3>2. TrackOf(s, a) /\ s.cached[a] = Pattern(x[a]) BY Zenon, <2>2, <1>1 DEF Synced, PatternsAt
      <3>3. x[a] # 0 BY Zenon, <1>6, <2>2 DEF Smooth
      <3>4. Pattern(x[a]) # {} BY Zenon, <3>3, <1>0, PatternTyped
      <3>5. OnRows(s, a, Pattern(x[a])) BY Zenon, <2>2, <3>2, <3>4 DEF TrackOf, Tracked
      <3> QED BY Zenon, <2>2, <3>1, <3>5 DEF OnRows
    <2>3. CASE a \in Ancestry(g[1]) /\ a \in Tangents
      <3>1. a \notin Tracked BY Zenon, <2>3, Kinds
      <3>2. Slope(g, a, x) = Tangent(x[a], g[2]) BY Zenon, <2>3, <3>1, <1>3 DEF Slope
      <3>3. s.W[g][a] = Tangent(x[a], g[2]) BY Zenon, <2>3, <1>0, <1>1 DEF Tang, AtTangents
      <3> QED BY Zenon, <3>2, <3>3
    <2>4. CASE a \in Ancestry(g[1]) /\ curves[a].kind = "linear"
      <3>1. a \notin Tracked BY Zenon, <2>4, Kinds
      <3>2. Slope(g, a, x) = g[2] BY Zenon, <2>4, <3>1, <1>3 DEF Slope
      <3> QED BY Zenon, <3>2, <2>4, <1>1 DEF Shaped, ShapeOf
    <2> QED BY Zenon, <2>1, <2>2, <2>3, <2>4, Kinds
  <1> QED BY Zenon, <1>2, <1>5, <1>6

------------------------------------------------------------------------------
(* The invariants of the specification. *)

CurveInv == curves \in CurveSets /\ EngInv(eng) /\ (OneTangent => Exact(eng))

DiscountsOf(r) == r.of # "none" => \A g \in Points : r.df[g] = LogDiscount(g, r.x)
JacobianOf(r) ==
    r.of = "jacobian" => \A g \in Points : \A a \in Ids : Smooth(a, r.x) => r.J[g][a] = Slope(g, a, r.x)
DirectionOf(r) ==
    r.of = "directional" =>
        \A g \in Points :
            (\A a \in Ids : r.dir[a] # 0 => Smooth(a, r.x)) =>
                r.wdir[g] = Total([a \in Ids |-> Slope(g, a, r.x) * r.dir[a]])

LEMMA NewEngineIs ==
    ASSUME curves \in CurveSets
    PROVE  EngInv(NewEngine) /\ Exact(NewEngine)
  <1> DEFINE s == [W |-> Zero, blk |-> Zero, Wt |-> Zero, span |-> [g \in Points |-> {}],
                   cached |-> [c \in Tracked |-> NoPattern], M |-> [c \in Tracked |-> [j \in Nodes |-> 0]], synced |-> FALSE,
                   xc |-> [c \in Tangents |-> <<>>], corr |-> Zero, corrX |-> <<>>,
                   df |-> [g \in Points |-> 0], dfX |-> <<>>, dfStale |-> FALSE,
                   dir |-> <<>>, wdir |-> [g \in Points |-> 0], wdirStale |-> TRUE]
             v == [c \in Ids |-> DefaultKnot]
             t == BuildWt(Finalize(s, v))
  <1>1. NewEngine = t BY Zenon DEF NewEngine
  <1>2. s \in Engines([g \in Points |-> 0], [g \in Points |-> 0])
    <2>1. 0 \in Int BY SMT
    <2>2. Zero \in Weights BY Zenon, <2>1 DEF Zero, Weights
    <2>3. [g \in Points |-> {}] \in [Points -> SUBSET Ids] BY Zenon
    <2>4. [c \in Tracked |-> NoPattern] \in [Tracked -> {NoPattern} \cup Patterns] BY Zenon
    <2>5. [c \in Tracked |-> [j \in Nodes |-> 0]] \in [Tracked -> [Nodes -> Int]] BY Zenon, <2>1
    <2>6. [c \in Tangents |-> <<>>] \in [Tangents -> KnotMemos] BY Zenon DEF KnotMemos
    <2>7. <<>> \in Memos /\ <<>> \in DirMemos BY Zenon DEF Memos, DirMemos
    <2> QED BY Zenon, <2>2, <2>3, <2>4, <2>5, <2>6, <2>7 DEF Engines
  <1>3. s.df = [g \in Points |-> 0] /\ s.wdir = [g \in Points |-> 0] /\ s.synced = FALSE /\ s.wdirStale = TRUE
        /\ s.xc = [c \in Tangents |-> <<>>] /\ s.corrX = <<>> /\ s.dfX = <<>>
    BY Zenon
  <1>4. v \in [Ids -> Int] BY Zenon, CurveSetAssumption
  <1> HIDE DEF s, v
  <1>5. Finalized(s, t, v)
    <2>1. s \in Engines(s.df, s.wdir) BY Zenon, <1>2, <1>3
    <2>2. t = BuildWt(Finalize(s, v)) BY Zenon
    <2> HIDE DEF t
    <2> QED BY ONLY <2>1, <2>2, <1>4, curves \in CurveSets, FinalizeIs, Zenon
  <1> HIDE DEF t
  <1>6. /\ t \in Engines(s.df, s.wdir) /\ Copies(t) /\ Shaped(t)
        /\ t.synced = FALSE /\ t.xc = [c \in Tangents |-> <<>>]
        /\ t.corrX = <<>> /\ t.df = s.df /\ t.dfX = <<>> /\ t.wdir = s.wdir
        /\ t.wdirStale = TRUE
    BY Zenon, <1>3, <1>5 DEF Finalized
  <1>7. \A v1 : <<>> # <<v1>>
    BY SMT
  <1>8. Tang(t) BY Zenon, <1>6, <1>7 DEF Tang
  <1>9. Wdir(t) BY Zenon, <1>6 DEF Wdir
  <1>10. Synced(t) BY Zenon, <1>6 DEF Synced
  <1>11. Corr(t) /\ Memo(t) BY Zenon, <1>6, <1>7 DEF Corr, Memo
  <1>12. t \in Engines(t.df, t.wdir) BY Zenon, <1>6
  <1> QED BY Zenon, <1>1, <1>6, <1>8, <1>9, <1>10, <1>11, <1>12 DEF EngInv, Sound, Exact

\* What each evaluation leaves and answers.
LEMMA ResidualsAnswer ==
    ASSUME CurveInv, NEW x \in States, Residuals(x), NEW e, e = eng', NEW r, r = answer'
    PROVE  EngInv(e) /\ (OneTangent => Exact(e) /\ DiscountsOf(r)) /\ JacobianOf(r) /\ DirectionOf(r)
  <1>1. e = DfAt(eng, x) /\ r = [of |-> "residuals", x |-> x, df |-> e.df]
    BY Zenon DEF Residuals
  <1>2. Dated(eng, e, x)
    BY Zenon, <1>1, DfAtIs DEF CurveInv
  <1>3. EngInv(e) /\ (Exact(eng) => Exact(e) /\ e.df = [g \in Points |-> LogDiscount(g, x)])
    BY Zenon, <1>2 DEF Dated
  <1>4. r.of = "residuals" /\ r.x = x /\ r.df = e.df /\ "residuals" # "jacobian" /\ "residuals" # "directional"
    <2>1. "residuals" # "jacobian" /\ "residuals" # "directional" BY SMT
    <2> QED BY ONLY <1>1, <2>1, SMT
  <1>5. OneTangent => Exact(e) /\ DiscountsOf(r)
    BY Zenon, <1>3, <1>4 DEF CurveInv, DiscountsOf
  <1>6. JacobianOf(r) /\ DirectionOf(r)
    BY Zenon, <1>4 DEF JacobianOf, DirectionOf
  <1> QED BY Zenon, <1>3, <1>5, <1>6

LEMMA JacobianAnswer ==
    ASSUME CurveInv, NEW x \in States, Jacobian(x), NEW e, e = eng', NEW r, r = answer'
    PROVE  EngInv(e) /\ (OneTangent => Exact(e) /\ DiscountsOf(r)) /\ JacobianOf(r) /\ DirectionOf(r)
  <1> DEFINE u == TangentSync(eng, x)
             j == [g \in Points |-> [a \in Ids |-> IF a \in e.span[g] THEN e.Wt[g][a] ELSE 0]]
  <1>1. e = DfAt(u, x) /\ r = [of |-> "jacobian", x |-> x, df |-> e.df, J |-> j]
    BY Zenon DEF Jacobian
  <1>2. Resynced(eng, u, x)
    <2> HIDE DEF u
    <2>1. u = TangentSync(eng, x) BY Zenon DEF u
    <2> QED BY Zenon, <2>1, TangentSyncIs DEF CurveInv
  <1> HIDE DEF u, j
  <1>3. EngInv(u) /\ AtTangents(u, x) /\ (OneTangent => Exact(u))
    BY Zenon, <1>2 DEF Resynced, CurveInv
  <1>4. curves \in CurveSets BY Zenon DEF CurveInv
  <1>5. Dated(u, e, x)
    BY Zenon, <1>1, <1>3, <1>4, DfAtIs
  <1>6. EngInv(e) /\ PatternsAt(e, x) /\ AtTangents(e, x) /\ (Exact(u) => Exact(e) /\ e.df = [g \in Points |-> LogDiscount(g, x)])
    BY Zenon, <1>3, <1>5 DEF Dated
  <1>7. r.of = "jacobian" /\ r.x = x /\ r.df = e.df /\ r.J = j /\ "jacobian" # "directional"
    <2>1. "jacobian" # "directional" BY SMT
    <2> QED BY ONLY <1>1, <2>1, SMT
  <1>8. OneTangent => Exact(e) /\ DiscountsOf(r)
    BY Zenon, <1>3, <1>6, <1>7 DEF DiscountsOf
  <1>9. DirectionOf(r)
    BY Zenon, <1>7 DEF DirectionOf
  <1>10. ASSUME NEW g \in Points, NEW a \in Ids, Smooth(a, x) PROVE j[g][a] = Slope(g, a, x)
    <2>1. e.W[g][a] = Slope(g, a, x)
      BY ONLY <1>4, <1>6, <1>10, x \in States, SlopesAre, Zenon
    <2>2. Copies(e) BY Zenon, <1>6 DEF EngInv, Sound
    <2>3. e.Wt[g][a] = e.W[g][a] /\ (e.W[g][a] # 0 => a \in e.span[g]) BY Zenon, <2>2 DEF Copies, CopiesOf
    <2>4. j[g][a] = IF a \in e.span[g] THEN e.Wt[g][a] ELSE 0 BY Zenon DEF j
    <2> QED BY Zenon, <2>1, <2>3, <2>4
  <1>11. JacobianOf(r)
    BY Zenon, <1>7, <1>10 DEF JacobianOf
  <1> QED BY Zenon, <1>6, <1>8, <1>9, <1>11

LEMMA DirectionalAnswer ==
    ASSUME CurveInv, NEW x \in States, NEW d \in Directions, Directional(x, d), NEW e, e = eng', NEW r, r = answer'
    PROVE  EngInv(e) /\ (OneTangent => Exact(e) /\ DiscountsOf(r)) /\ JacobianOf(r) /\ DirectionOf(r)
  <1> DEFINE u == TangentSync(eng, x)
             v == DfAt(u, x)
  <1>1. e = DirectionMemo(v, d) /\ r = [of |-> "directional", x |-> x, df |-> e.df, dir |-> d, wdir |-> e.wdir]
    BY Zenon DEF Directional
  <1>2. Resynced(eng, u, x)
    <2> HIDE DEF u
    <2>1. u = TangentSync(eng, x) BY Zenon DEF u
    <2> QED BY Zenon, <2>1, TangentSyncIs DEF CurveInv
  <1> HIDE DEF u
  <1>3. EngInv(u) /\ AtTangents(u, x) /\ (OneTangent => Exact(u))
    BY Zenon, <1>2 DEF Resynced, CurveInv
  <1>4. curves \in CurveSets BY Zenon DEF CurveInv
  <1>5. Dated(u, v, x)
    <2> HIDE DEF v
    <2>1. v = DfAt(u, x) BY Zenon DEF v
    <2> QED BY Zenon, <2>1, <1>3, <1>4, DfAtIs
  <1> HIDE DEF v
  <1>6. EngInv(v) /\ PatternsAt(v, x) /\ AtTangents(v, x) /\ (Exact(u) => Exact(v) /\ v.df = [g \in Points |-> LogDiscount(g, x)])
    BY Zenon, <1>3, <1>5 DEF Dated
  <1>7. Directed(v, e, d)
    BY Zenon, <1>1, <1>6, DirectionMemoIs
  <1>8. EngInv(e) /\ (Exact(v) => Exact(e)) /\ e.df = v.df /\ e.wdir = Along(e.W, d) /\ PatternsAt(e, x) /\ AtTangents(e, x)
    BY Zenon, <1>6, <1>7 DEF Directed
  <1>9. r.of = "directional" /\ r.x = x /\ r.df = e.df /\ r.dir = d /\ r.wdir = e.wdir /\ "directional" # "jacobian"
    <2>1. "directional" # "jacobian" BY SMT
    <2> QED BY ONLY <1>1, <2>1, SMT
  <1>10. OneTangent => Exact(e) /\ DiscountsOf(r)
    <2> SUFFICES ASSUME OneTangent PROVE Exact(e) /\ DiscountsOf(r)
      BY Zenon
    <2>1. Exact(e) /\ r.df = [g \in Points |-> LogDiscount(g, x)] BY Zenon, <1>3, <1>6, <1>8, <1>9
    <2> QED BY Zenon, <2>1, <1>9 DEF DiscountsOf
  <1>11. JacobianOf(r)
    BY Zenon, <1>9 DEF JacobianOf
  <1>12. ASSUME NEW g \in Points, \A a \in Ids : d[a] # 0 => Smooth(a, x)
         PROVE  e.wdir[g] = Total([a \in Ids |-> Slope(g, a, x) * d[a]])
    <2>1. ASSUME NEW a \in Ids PROVE e.W[g][a] * d[a] = Slope(g, a, x) * d[a]
      <3>1. e.W[g][a] \in Int /\ Slope(g, a, x) \in Int /\ (Smooth(a, x) => e.W[g][a] = Slope(g, a, x))
        BY ONLY <1>4, <1>8, g \in Points, a \in Ids, x \in States, SlopesAre, Zenon
      <3>2. CASE d[a] = 0
        <4>1. PICK w \in Int, m \in Int : w = e.W[g][a] /\ m = Slope(g, a, x) BY Zenon, <3>1
        <4>2. w * 0 = m * 0 BY SMT
        <4> QED BY Zenon, <3>2, <4>1, <4>2
      <3>3. CASE d[a] # 0
        BY Zenon, <3>1, <3>3, <1>12
      <3> QED BY Zenon, <3>2, <3>3
    <2>2. [a \in Ids |-> e.W[g][a] * d[a]] = [a \in Ids |-> Slope(g, a, x) * d[a]]
      BY Zenon, <2>1
    <2>3. e.wdir[g] = Total([a \in Ids |-> e.W[g][a] * d[a]])
      BY Zenon, <1>8 DEF Along
    <2> QED BY Zenon, <2>2, <2>3
  <1>13. DirectionOf(r)
    BY Zenon, <1>9, <1>12 DEF DirectionOf
  <1> QED BY Zenon, <1>8, <1>10, <1>11, <1>13

LEMMA SameSlope ==
    ASSUME curves' = curves, NEW g, NEW a, NEW x
    PROVE  Slope(g, a, x)' = Slope(g, a, x) /\ (Smooth(a, x)' <=> Smooth(a, x))
  <1>1. Tracked' = Tracked BY Zenon, SameKinds
  <1>2. Ancestry(g[1])' = Ancestry(g[1]) BY Zenon, SameAncestry
  <1>3. WeightAt(a, x[a], g[2])' = WeightAt(a, x[a], g[2]) BY Zenon, SameWeightAt
  <1> QED BY Zenon, <1>1, <1>2, <1>3 DEF Slope, Smooth

LEMMA SameJacobian ==
    ASSUME curves' = curves, NEW r, r = answer', JacobianOf(r) PROVE JacobianIsTheSlope'
  <1>1. Points' = Points /\ Ids' = Ids BY Zenon, SameKinds
  <1> SUFFICES ASSUME r.of = "jacobian", NEW g \in Points, NEW a \in Ids, Smooth(a, r.x)'
               PROVE  r.J[g][a] = Slope(g, a, r.x)'
    BY Zenon, <1>1 DEF JacobianIsTheSlope
  <1>2. Smooth(a, r.x) /\ Slope(g, a, r.x)' = Slope(g, a, r.x) BY Zenon, SameSlope
  <1> QED BY Zenon, <1>2 DEF JacobianOf

LEMMA SameDirection ==
    ASSUME curves' = curves, NEW r, r = answer', DirectionOf(r) PROVE DirectionIsCurrent'
  <1>1. Points' = Points /\ Ids' = Ids BY Zenon, SameKinds
  <1> SUFFICES ASSUME r.of = "directional", NEW g \in Points, \A a \in Ids : r.dir[a] # 0 => Smooth(a, r.x)'
               PROVE  r.wdir[g] = Total([a \in Ids |-> Slope(g, a, r.x)' * r.dir[a]])
    BY Zenon, <1>1 DEF DirectionIsCurrent
  <1>2. \A a \in Ids : (Smooth(a, r.x)' <=> Smooth(a, r.x)) /\ Slope(g, a, r.x)' = Slope(g, a, r.x) BY Zenon, SameSlope
  <1>3. r.wdir[g] = Total([a \in Ids |-> Slope(g, a, r.x) * r.dir[a]]) BY Zenon, <1>2 DEF DirectionOf
  <1>4. [a \in Ids |-> Slope(g, a, r.x)' * r.dir[a]] = [a \in Ids |-> Slope(g, a, r.x) * r.dir[a]] BY Zenon, <1>2
  <1> QED BY Zenon, <1>3, <1>4

LEMMA SameDiscounts ==
    ASSUME curves' = curves, NEW r, r = answer', DiscountsOf(r) PROVE DiscountsAreExact'
  <1>1. Points' = Points BY Zenon, SameKinds
  <1> SUFFICES ASSUME r.of # "none", NEW g \in Points PROVE r.df[g] = LogDiscount(g, r.x)'
    BY Zenon, <1>1 DEF DiscountsAreExact
  <1>2. LogDiscount(g, r.x)' = LogDiscount(g, r.x) BY Zenon, SameLogDiscount
  <1> QED BY Zenon, <1>2 DEF DiscountsOf

\* The inductive invariant, and what each answer promises.
AnswersInv ==
    CurveInv /\ JacobianIsTheSlope /\ DirectionIsCurrent /\ (OneTangent => DiscountsAreExact)

LEMMA AnswersInit == Init => AnswersInv
  <1> SUFFICES ASSUME Init PROVE AnswersInv
    OBVIOUS
  <1>1. curves \in CurveSets /\ eng = NewEngine /\ answer.of = "none"
    BY Zenon DEF Init, NoAnswer
  <1>2. CurveInv
    BY Zenon, <1>1, NewEngineIs DEF CurveInv
  <1>3. "none" # "jacobian" /\ "none" # "directional" BY SMT
  <1> QED BY Zenon, <1>1, <1>2, <1>3 DEF AnswersInv, JacobianIsTheSlope, DirectionIsCurrent, DiscountsAreExact

LEMMA AnswersStep == AnswersInv /\ [Next]_vars => AnswersInv'
  <1> SUFFICES ASSUME AnswersInv, [Next]_vars PROVE AnswersInv'
    OBVIOUS
  <1>0. CurveInv /\ curves \in CurveSets /\ EngInv(eng) /\ (OneTangent => Exact(eng))
    BY Zenon DEF AnswersInv, CurveInv
  <1>1. PICK e : e = eng' OBVIOUS
  <1>2. PICK r : r = answer' OBVIOUS
  <1>3. curves' = curves
    BY Zenon DEF Next, Residuals, Jacobian, Directional, vars
  <1>4. EngInv(e) /\ (OneTangent => Exact(e) /\ DiscountsOf(r)) /\ JacobianOf(r) /\ DirectionOf(r)
    <2>1. CASE Next
      <3>1. CASE \E x \in States : Residuals(x)
        BY Zenon, <1>0, <1>1, <1>2, <3>1, ResidualsAnswer
      <3>2. CASE \E x \in States : Jacobian(x)
        BY Zenon, <1>0, <1>1, <1>2, <3>2, JacobianAnswer
      <3>3. CASE \E x \in States : \E d \in Directions : Directional(x, d)
        BY Zenon, <1>0, <1>1, <1>2, <3>3, DirectionalAnswer
      <3> QED BY Zenon, <2>1, <3>1, <3>2, <3>3 DEF Next
    <2>2. CASE UNCHANGED vars
      <3>1. e = eng /\ r = answer BY Zenon, <1>1, <1>2, <2>2 DEF vars
      <3>2. JacobianIsTheSlope /\ DirectionIsCurrent /\ (OneTangent => DiscountsAreExact) BY Zenon DEF AnswersInv
      <3>3. JacobianOf(r) /\ DirectionOf(r) /\ (OneTangent => DiscountsOf(r))
        BY Zenon, <3>1, <3>2 DEF JacobianIsTheSlope, DirectionIsCurrent, DiscountsAreExact, JacobianOf, DirectionOf, DiscountsOf
      <3> QED BY Zenon, <1>0, <3>1, <3>3
    <2> QED BY Zenon, <2>1, <2>2
  <1>5. curves' \in CurveSets BY Zenon, <1>0, <1>3
  <1>6. EngInv(eng)' BY Zenon, <1>1, <1>3, <1>4, SameEngInv
  <1>7. OneTangent => Exact(eng)' BY Zenon, <1>1, <1>3, <1>4, SameExact
  <1>8. JacobianIsTheSlope' BY Zenon, <1>2, <1>3, <1>4, SameJacobian
  <1>9. DirectionIsCurrent' BY Zenon, <1>2, <1>3, <1>4, SameDirection
  <1>10. OneTangent => DiscountsAreExact' BY Zenon, <1>2, <1>3, <1>4, SameDiscounts
  <1> QED BY Zenon, <1>5, <1>6, <1>7, <1>8, <1>9, <1>10 DEF AnswersInv, CurveInv

LEMMA AnswersAlways == Spec => []AnswersInv
  BY AnswersInit, AnswersStep, PTL DEF Spec

\* Whatever was evaluated before, and whichever weights were re-taken, updated by rank or
\* left, the weights a Jacobian is read off are the slopes at the state it was asked at
\* (jacobian_core's reads of the transpose and the spans).
THEOREM JacobiansAreSlopes == Spec => []JacobianIsTheSlope
  <1>1. AnswersInv => JacobianIsTheSlope BY DEF AnswersInv
  <1> QED BY <1>1, AnswersAlways, PTL

\* A directional derivative is along the direction asked for, at the state asked for: the
\* memo of W.dir is never of weights since moved (directional_vs_into's wdir_stale_).
THEOREM DirectionsAreCurrent == Spec => []DirectionIsCurrent
  <1>1. AnswersInv => DirectionIsCurrent BY DEF AnswersInv
  <1> QED BY <1>1, AnswersAlways, PTL

\* With at most one tangent curve in a bundle, every discount is the curves' own at the
\* state asked for. With two it is not: tangent_sync_W() retakes the correction of the
\* curves that moved and marks all of them taken.
THEOREM DiscountsExact == OneTangent => (Spec => []DiscountsAreExact)
  <1>1. AnswersInv => (OneTangent => DiscountsAreExact) BY DEF AnswersInv
  <1>2. SUFFICES ASSUME OneTangent PROVE Spec => []DiscountsAreExact
    OBVIOUS
  <1>3. AnswersInv => DiscountsAreExact BY <1>1, <1>2
  <1> QED BY <1>3, AnswersAlways, PTL
==============================================================================
