------------------------------- MODULE CurveSet -------------------------------
(***************************************************************************)
(* The discount layer of the compiled engine: CompiledCurveSet             *)
(* (pricing/compiled_book.hpp), which keeps the weights W of every         *)
(* registered point in step with the state x, and the copies and memos     *)
(* CompiledBundleResidual (calibration/compiled_bundle.hpp) derives from   *)
(* it: the transpose with its spans, the discounts, W.dir.                 *)
(*                                                                         *)
(* A curve is [kind, base]; it has one knot, and two registered times: 1,  *)
(* before its value-dependent region, and 2, inside.  Kinds: "linear";     *)
(* "cell", piecewise linear with one value-dependent region, whose         *)
(* weights follow its branch pattern by rank-k updates; "opaque",          *)
(* piecewise linear with several, whose weights are taken again whole;     *)
(* "tangent", smooth, weights the tangent at a state and a correction to   *)
(* the exact integral.  What a piece weighs is a small integer, and a      *)
(* discount is its exponent.                                               *)
(***************************************************************************)
EXTENDS Integers, Sequences, Functions, FiniteSetsExt

CONSTANTS CurveSets,   \* the curve sets a bundle may have
          Knots,       \* the values a curve's knot may have
          DefaultKnot  \* the knot the weights are first taken at

ASSUME CurveSetAssumption ==
    /\ CurveSets \subseteq Seq([kind : {"linear", "cell", "opaque", "tangent"}, base : Nat])
    /\ \A cs \in CurveSets : \A c \in DOMAIN cs : cs[c].base < c
    /\ Knots \subseteq Int
    /\ DefaultKnot \in Int

VARIABLES curves,  \* CompiledCurveSet::specs_
          eng,     \* the curve set's and the engine's derived data
          answer   \* what the last evaluation returned, and where

vars == <<curves, eng, answer>>

Ids == DOMAIN curves
Tracked == {c \in Ids : curves[c].kind \in {"cell", "opaque"}}
Tangents == {c \in Ids : curves[c].kind = "tangent"}
Points == Ids \X {1, 2}
States == [Ids -> Knots]

\* A curve and its base chain.
Ancestry(d) ==
    LET chain[c \in Ids] == IF curves[c].base = 0 THEN {c} ELSE {c} \cup chain[curves[c].base]
    IN  chain[d]

Total(f) == FoldFunction(LAMBDA u, v : u + v, 0, f)

-----------------------------------------------------------------------------
(* What a curve weighs. *)

\* The branch pattern at a knot value: which of the region's two nodes keep their tangent.
Pattern(v) == (IF v > 0 THEN {1} ELSE {}) \cup (IF v < 0 THEN {2} ELSE {})
\* node_formula: a node's tangent as a multiple of the knot, by its pattern.
Formula(j, kept) == IF kept THEN <<1, -1>>[j] ELSE 0
Nodes == {1, 2}
NoPattern == {0}
OverNodes(f(_)) == f(1) + f(2)

\* PwlCurve's L and B at a time: B is 0 before the region.
L(t) == t
B(t, j) == IF t = 1 THEN 0 ELSE j

PatternWeight(p, t) == L(t) + OverNodes(LAMBDA j : B(t, j) * Formula(j, j \in p))

\* The weight an automatic differentiation takes: at a flat state no node's value differs
\* from its unfiltered one, and the filter is not differentiated.
AadWeight(v, t) == IF v = 0 THEN PatternWeight(Nodes, t) ELSE PatternWeight(Pattern(v), t)

Tangent(v, t) == IF t = 1 THEN 1 ELSE 2 * v

WeightAt(c, v, t) == CASE curves[c].kind = "linear" -> t
                       [] curves[c].kind = "tangent" -> Tangent(v, t)
                       [] OTHER -> AadWeight(v, t)

Integral(c, v, t) == CASE curves[c].kind = "linear" -> t * v
                       [] curves[c].kind = "tangent" -> IF t = 1 THEN v ELSE v * v
                       [] OTHER -> PatternWeight(Pattern(v), t) * v

\* The exponent of the discount of a point.
LogDiscount(g, x) == Total([a \in Ancestry(g[1]) |-> Integral(a, x[a], g[2])])

-----------------------------------------------------------------------------
(* The curve set's steps, as functions of its data. *)

\* finalize(): the weights of every point, taken at v, and their blocks.
Finalize(s, v) ==
    LET w == [g \in Points |-> [a \in Ids |-> IF a \in Ancestry(g[1]) THEN WeightAt(a, v[a], g[2]) ELSE 0]]
    IN  [s EXCEPT !.W = w, !.blk = w]

\* build_wt(): the transpose, and the columns each point touches.
BuildWt(s) ==
    [s EXCEPT !.Wt = s.W, !.span = [g \in Points |-> {a \in Ids : s.W[g][a] # 0}]]

\* The points a curve's delta moves: those it is in the ancestry of and, for a piecewise-
\* linear curve, past its region's start.
DeltaRows(c) == {g \in Points : /\ c \in Ancestry(g[1])
                                /\ c \in Tangents \/ g[2] = 2}

Moved(w, c, D) == [g \in Points |-> IF g \in DeltaRows(c) THEN [w[g] EXCEPT ![c] = @ + D[g]] ELSE w[g]]

\* apply_delta and the engine's mirror_delta.
ApplyDelta(s, c, D) ==
    [s EXCEPT !.W = Moved(s.W, c, D), !.blk = Moved(s.blk, c, D), !.Wt = Moved(s.Wt, c, D),
              !.span = [g \in Points |-> IF g \in DeltaRows(c) THEN s.span[g] \cup {c} ELSE s.span[g]],
              !.dfStale = TRUE, !.wdirStale = TRUE]

\* Mutant: the correction is taken with the tangent only.
TangentTakeWhole(s, c, x, delta) ==
    LET D == [g \in DeltaRows(c) |-> Tangent(x[c], g[2]) - s.W[g][c]]
        t == [ApplyDelta(s, c, D) EXCEPT !.xc[c] = <<x[c]>>]
    IN  IF ~delta THEN s
        ELSE [t EXCEPT !.corr = [g \in Points |->
                 IF g \in DeltaRows(c)
                 THEN [@[g] EXCEPT ![c] = Integral(c, x[c], g[2]) - t.W[g][c] * x[c]] ELSE @[g]]]

\* tangent_take(): the tangent at x if asked for, and always the correction to whatever
\* weights are installed.
TangentTake(s, c, x, delta) ==
    LET D == [g \in DeltaRows(c) |-> Tangent(x[c], g[2]) - s.W[g][c]]
        t == IF delta THEN [ApplyDelta(s, c, D) EXCEPT !.xc[c] = <<x[c]>>] ELSE s
    IN  [t EXCEPT !.corr = [g \in Points |->
             IF g \in DeltaRows(c)
             THEN [@[g] EXCEPT ![c] = Integral(c, x[c], g[2]) - t.W[g][c] * x[c]] ELSE @[g]]]

TangentTakes(s, cs, x, delta) == FoldSet(LAMBDA c, t : TangentTake(t, c, x, delta), s, cs)

EnsureCorr(s, x) ==
    IF Tangents = {} \/ s.corrX = <<x>> THEN s
    ELSE [TangentTakes(s, Tangents, x, FALSE) EXCEPT !.corrX = <<x>>]

\* Mutant: the tangents are taken once and kept.
TangentSyncOnce(s, x) ==
    LET moved == {c \in Tangents : s.xc[c] = <<>>}
    IN  IF moved = {} THEN s ELSE [TangentTakes(s, moved, x, TRUE) EXCEPT !.corrX = <<x>>]

\* sync_W() and tangent_sync_W().
TangentSync(s, x) ==
    LET moved == {c \in Tangents : s.xc[c] # <<x[c]>>}
    IN  IF moved = {} THEN s ELSE [TangentTakes(s, moved, x, TRUE) EXCEPT !.corrX = <<x>>]

\* A tracker's rank-k update: the nodes whose formula changed.
RankUpdate(s, c, p) ==
    LET q == s.cached[c]
        D == [g \in DeltaRows(c) |->
                 OverNodes(LAMBDA j : IF j \in p <=> j \in q THEN 0 ELSE B(g[2], j) * (Formula(j, j \in p) - s.M[c][j]))]
    IN  [ApplyDelta(s, c, D) EXCEPT !.M[c] = [j \in Nodes |-> Formula(j, j \in p)], !.cached[c] = p]

\* pwl_set(): the weights of the recorded pattern, whatever was installed.
PwlSet(s, c, p) ==
    LET M == [j \in Nodes |-> Formula(j, j \in p)]
        D == [g \in DeltaRows(c) |->
                 L(g[2]) + OverNodes(LAMBDA j : B(g[2], j) * M[j]) - s.W[g][c]]
    IN  [ApplyDelta(s, c, D) EXCEPT !.M[c] = M]

\* rebuild_W(): the engine's part of a full re-take, and the tangent curves' after it.
FullRetake(s, x) ==
    LET w == [BuildWt(Finalize(s, x)) EXCEPT !.dfStale = TRUE, !.wdirStale = TRUE]
    IN  [TangentTakes(w, Tangents, x, FALSE) EXCEPT !.xc = [c \in Tangents |-> <<x[c]>>], !.corrX = <<x>>]

\* The reset of pwl_sync(): by automatic differentiation where a curve needs it, and every
\* analytic curve set to its pattern after.
Reset(s, x) ==
    LET opaque == {c \in Tracked : curves[c].kind = "opaque"}
        w == IF opaque # {} THEN FullRetake(s, x) ELSE s
        p == [c \in Tracked |-> Pattern(x[c])]
    IN  [FoldSet(LAMBDA c, t : PwlSet(t, c, p[c]), w, Tracked \ opaque)
         EXCEPT !.cached = p, !.synced = TRUE]

\* sync() and pwl_sync(): nothing where no pattern moved; rank-k updates where every moved
\* curve has them; else, and the first time, a reset.
PwlSync(s, x) ==
    LET c0 == EnsureCorr(s, x)
        dirty == {c \in Tracked : s.cached[c] # Pattern(x[c])}
    IN  IF s.synced /\ dirty = {} THEN c0
        ELSE IF s.synced /\ \A c \in dirty : curves[c].kind = "cell"
             THEN FoldSet(LAMBDA c, t : RankUpdate(t, c, Pattern(x[c])), c0, dirty)
             ELSE Reset(c0, x)

\* df_into(): each curve's blocks, and the corrections at x.
Discounts(s, x) ==
    [g \in Points |-> Total([a \in Ancestry(g[1]) |->
                                 s.blk[g][a] * x[a] + IF a \in Tangents THEN s.corr[g][a] ELSE 0])]

\* df_at(): memoised on x, unless the weights moved under it.
DfAt(s, x) ==
    LET t == PwlSync(s, x)
    IN  IF t.dfStale \/ t.dfX # <<x>>
        THEN LET u == EnsureCorr(t, x) IN [u EXCEPT !.dfStale = FALSE, !.df = Discounts(u, x), !.dfX = <<x>>]
        ELSE t

\* Mutant: W.dir is kept for as long as the direction is.
DirectionMemoOfDir(s, d) ==
    IF s.dir = <<d>> THEN s
    ELSE [s EXCEPT !.wdir = [g \in Points |-> Total([a \in Ids |-> s.W[g][a] * d[a]])],
                   !.dir = <<d>>, !.wdirStale = FALSE]

\* directional_vs_into()'s W.dir.
DirectionMemo(s, d) ==
    IF ~s.wdirStale /\ s.dir = <<d>> THEN s
    ELSE [s EXCEPT !.wdir = [g \in Points |-> Total([a \in Ids |-> s.W[g][a] * d[a]])],
                   !.dir = <<d>>, !.wdirStale = FALSE]

-----------------------------------------------------------------------------

Zero == [g \in Points |-> [a \in Ids |-> 0]]

\* The engine as constructed: weights at the default knots, nothing synced, the
\* piecewise-linear tier on.
NewEngine ==
    LET s == [W |-> Zero, blk |-> Zero, Wt |-> Zero, span |-> [g \in Points |-> {}],
              cached |-> [c \in Tracked |-> NoPattern], M |-> [c \in Tracked |-> [j \in Nodes |-> 0]], synced |-> FALSE,
              xc |-> [c \in Tangents |-> <<>>], corr |-> Zero, corrX |-> <<>>,
              df |-> [g \in Points |-> 0], dfX |-> <<>>, dfStale |-> FALSE,
              dir |-> <<>>, wdir |-> [g \in Points |-> 0], wdirStale |-> TRUE]
    IN  BuildWt(Finalize(s, [c \in Ids |-> DefaultKnot]))

NoAnswer == [of |-> "none"]

Init == /\ curves \in CurveSets
        /\ eng = NewEngine
        /\ answer = NoAnswer

\* model_rates() and residuals_vs(): the discounts at x.
Residuals(x) ==
    /\ eng' = DfAt(eng, x)
    /\ answer' = [of |-> "residuals", x |-> x, df |-> eng'.df]
    /\ UNCHANGED curves

\* jacobian_core(): the weights the support-blocked product reads, point by point.
Jacobian(x) ==
    /\ eng' = DfAt(TangentSync(eng, x), x)
    /\ answer' = [of |-> "jacobian", x |-> x, df |-> eng'.df,
                  J |-> [g \in Points |-> [a \in Ids |-> IF a \in eng'.span[g] THEN eng'.Wt[g][a] ELSE 0]]]
    /\ UNCHANGED curves

\* directional_vs_into().
Directional(x, d) ==
    /\ eng' = DirectionMemo(DfAt(TangentSync(eng, x), x), d)
    /\ answer' = [of |-> "directional", x |-> x, df |-> eng'.df, dir |-> d, wdir |-> eng'.wdir]
    /\ UNCHANGED curves

\* A direction moves one curve's knot.
Directions == {[c \in Ids |-> IF c = d THEN 1 ELSE 0] : d \in Ids}

Next == \E x \in States : \/ Residuals(x)
                          \/ Jacobian(x)
                          \/ \E d \in Directions : Directional(x, d)

Spec == Init /\ [][Next]_vars

-----------------------------------------------------------------------------

\* Whatever was evaluated before, in whatever order, the discounts an evaluation answers
\* with are the curves' own at the state it was asked at.
DiscountsAreExact ==
    answer.of # "none" => \A g \in Points : answer.df[g] = LogDiscount(g, answer.x)

\* The derivative of a point's exponent, where the curve has one: not at a knot of 0 on a
\* piecewise-linear curve.
Smooth(a, x) == a \in Tracked => x[a] # 0
Slope(g, a, x) == IF a \notin Ancestry(g[1]) THEN 0
                  ELSE IF a \in Tracked THEN PatternWeight(Pattern(x[a]), g[2])
                  ELSE WeightAt(a, x[a], g[2])

\* A Jacobian is read off weights of the state it was asked at, through a transpose and
\* spans that were only ever edited.
JacobianIsTheSlope ==
    answer.of = "jacobian" =>
        \A g \in Points : \A a \in Ids : Smooth(a, answer.x) => answer.J[g][a] = Slope(g, a, answer.x)

\* A directional derivative is along the direction asked for, at the state asked for.
DirectionIsCurrent ==
    answer.of = "directional" =>
        \A g \in Points :
            (\A a \in Ids : answer.dir[a] # 0 => Smooth(a, answer.x)) =>
                answer.wdir[g] = Total([a \in Ids |-> Slope(g, a, answer.x) * answer.dir[a]])

=============================================================================
