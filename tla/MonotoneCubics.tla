---------------------------- MODULE MonotoneCubics ----------------------------
(***************************************************************************)
(* MonotoneCubic (curve/regions.hpp): the natural spline of Regions with   *)
(* its node tangents put through Hyman's filter.  The filter is            *)
(* piecewise linear in the values: every node ends as zero, as its own     *)
(* tangent, or as a candidate's size with the tangent's sign, and its      *)
(* pattern names which.  tangent_formula turns a pattern back into the     *)
(* row over the filter's inputs that the compiled engine re-takes its      *)
(* weights from.                                                           *)
(*                                                                         *)
(* A pattern is [kind, candidate, negative]: kind 0, 1, 2 or 3, and for a  *)
(* clamped node the candidate and whether it is negative.  The inputs of   *)
(* the filter are the secants S, the raw tangents m and the lengths h.     *)
(***************************************************************************)
EXTENDS Regions, TLC

\* First derivatives of the natural spline: the tridiagonal in tangent form.
TangentRow(h, S, i) ==
    CASE i = 1 -> [lo |-> Num(0), di |-> Num(2), up |-> Num(1), rhs |-> Num(3) \otimes S[1]]
      [] i = Len(h) + 1 -> [lo |-> Num(1), di |-> Num(2), up |-> Num(0),
                            rhs |-> Num(3) \otimes S[i-1]]
      [] OTHER -> [lo |-> h[i], di |-> Num(2) \otimes (h[i] \oplus h[i-1]), up |-> h[i-1],
                   rhs |-> Num(3) \otimes ((h[i] \otimes S[i-1]) \oplus (h[i-1] \otimes S[i]))]
SplineTangents(h, S) == ThomasSolve(Listed([i \in 1..Len(h)+1 |-> TangentRow(h, S, i)]))

-----------------------------------------------------------------------------
(* The filter. *)

\* The candidates, by name; those that average do so with the lengths.
Candidate(h, S, i, name) ==
    CASE name = "S0" -> S[i-1]
      [] name = "S1" -> S[i]
      [] name \in {"pm3", "pm15"} ->
             ((S[i-1] \otimes h[i]) \oplus (S[i] \otimes h[i-1])) \oslash (h[i-1] \oplus h[i])
      [] name = "pd" -> ((S[i-1] \otimes ((Num(2) \otimes h[i-1]) \oplus h[i-2]))
                             \ominus (S[i-2] \otimes h[i-1])) \oslash (h[i-2] \oplus h[i-1])
      [] name = "pu" -> ((S[i] \otimes ((Num(2) \otimes h[i]) \oplus h[i+1]))
                             \ominus (S[i+1] \otimes h[i])) \oslash (h[i] \oplus h[i+1])
      [] name = "end" -> IF i = 1 THEN S[1] ELSE Last(S)

\* A size and the candidate it came from.
Sized(name, c) == [size |-> Unsigned(c), name |-> name, negative |-> IsNegative(c)]
Smaller(a, b) == IF b.size \prec a.size THEN b ELSE a
Larger(a, b) == IF a.size \prec b.size THEN b ELSE a
Widened(factor, a) == [a EXCEPT !.size = factor \otimes @]

SameSign(a, b) == IsPositive(a \otimes b)

\* Where the secants keep bending one way the bound is widened to the extrapolated tangent's.
WidensDown(h, S, i, pm) ==
    /\ i > 2
    /\ SameSign(S[i-1] \ominus S[i-2], S[i] \ominus S[i-1])
    /\ SameSign(pm, Candidate(h, S, i, "pd"))
    /\ SameSign(pm, S[i-1] \ominus S[i-2])
WidensUp(h, S, i, pm) ==
    /\ i < Len(S)
    /\ SameSign(S[i] \ominus S[i-1], S[i+1] \ominus S[i])
    /\ SameSign(pm, Candidate(h, S, i, "pu"))
    /\ SameSign(Num(-1) \otimes pm, S[i] \ominus S[i-1])

WidenedTo(h, S, i, pm, name) ==
    Widened(Constant(<<3, 2>>), Smaller(Sized("pm15", pm), Sized(name, Candidate(h, S, i, name))))
NarrowBound(S, i, pm) ==
    Widened(Num(3), Smaller(Smaller(Sized("S0", S[i-1]), Sized("S1", S[i])), Sized("pm3", pm)))
LowerWidened(h, S, i, pm) ==
    IF WidensDown(h, S, i, pm) THEN Larger(NarrowBound(S, i, pm), WidenedTo(h, S, i, pm, "pd"))
                               ELSE NarrowBound(S, i, pm)
InteriorBound(h, S, i, pm) ==
    IF WidensUp(h, S, i, pm) THEN Larger(LowerWidened(h, S, i, pm), WidenedTo(h, S, i, pm, "pu"))
                             ELSE LowerWidened(h, S, i, pm)

IsEnd(S, i) == i \in {1, Len(S) + 1}
Bound(h, S, i) == IF IsEnd(S, i) THEN Sized("end", Num(3) \otimes Candidate(h, S, i, "end"))
                  ELSE InteriorBound(h, S, i, Candidate(h, S, i, "pm3"))
Gate(h, S, mi, i) == SameSign(mi, Candidate(h, S, i, IF IsEnd(S, i) THEN "end" ELSE "pm3"))

Kept == [kind |-> 1, name |-> "none", negative |-> FALSE]
Zeroed == [kind |-> 0, name |-> "none", negative |-> FALSE]
Clamped(mi, M) == [kind |-> IF IsNegative(mi) THEN 3 ELSE 2, name |-> M.name,
                   negative |-> M.negative]

\* One node: its filtered tangent and its pattern.  A tangent whose value the filter did
\* not change is left as it is, its gradient too.
Corrected(mi, to) == IF to.v = mi.v THEN mi ELSE to
Filtered(mi, M, gate) ==
    CASE ~ gate -> [m |-> Corrected(mi, mi \otimes Num(0)), pattern |-> Zeroed]
      [] gate /\ M.size \prec Unsigned(mi) ->
             [m |-> Corrected(mi, (mi \oslash Unsigned(mi)) \otimes M.size), pattern |-> Clamped(mi, M)]
      [] OTHER -> [m |-> mi, pattern |-> Kept]

HymanFilter(h, S, m) ==
    Listed([i \in DOMAIN m |-> Filtered(m[i], Bound(h, S, i), Gate(h, S, m[i], i))])

-----------------------------------------------------------------------------
(* The region. *)

\* pattern_ and pre_ stay with the region beside its segments; m is what the segments are
\* built on: the filter's tangents, or those that override them.
MonotoneOver(nodes, y, h, S, raw, filtered, m, in) ==
    FromTangents("MonotoneCubic", nodes, y, h, S, m, in)
        @@ [h |-> h, prefilter |-> S \o raw,
            pattern |-> Listed([i \in DOMAIN raw |-> filtered[i].pattern])]

\* tangent_formula: the row over [S, m] that a node's pattern stands for.
\* Mutant: the sign of the candidate is dropped.
SignOfTangent(pattern) == IF pattern.kind = 3 THEN -1 ELSE 1
Sign(pattern) == (IF pattern.kind = 3 THEN -1 ELSE 1) * (IF pattern.negative THEN -1 ELSE 1)
CandidateRow(h, N, i, name) ==
    CASE name = "S0" -> (i-1 :> Num(3))
      [] name = "S1" -> (i :> Num(3))
      [] name = "pm3" -> (i-1 :> ((Num(3) \otimes h[i]) \oslash (h[i-1] \oplus h[i])))
                             @@ (i :> ((Num(3) \otimes h[i-1]) \oslash (h[i-1] \oplus h[i])))
      [] name = "pm15" -> (i-1 :> ((Constant(<<3, 2>>) \otimes h[i]) \oslash (h[i-1] \oplus h[i])))
                             @@ (i :> ((Constant(<<3, 2>>) \otimes h[i-1]) \oslash (h[i-1] \oplus h[i])))
      [] name = "pd" ->
             (i-1 :> ((Constant(<<3, 2>>) \otimes ((Num(2) \otimes h[i-1]) \oplus h[i-2]))
                          \oslash (h[i-2] \oplus h[i-1])))
                 @@ (i-2 :> ((Constant(<<-3, 2>>) \otimes h[i-1]) \oslash (h[i-2] \oplus h[i-1])))
      [] name = "pu" ->
             (i :> ((Constant(<<3, 2>>) \otimes ((Num(2) \otimes h[i]) \oplus h[i+1]))
                        \oslash (h[i] \oplus h[i+1])))
                 @@ (i+1 :> ((Constant(<<-3, 2>>) \otimes h[i]) \oslash (h[i] \oplus h[i+1])))
      [] name = "end" -> ((IF i = 1 THEN 1 ELSE N-1) :> Num(3))
TangentFormula(pattern, i, h, N) ==
    CASE pattern.kind = 0 -> <<>>
      [] pattern.kind = 1 -> (N-1+i :> Num(1))
      [] OTHER -> [k \in DOMAIN CandidateRow(h, N, i, pattern.name) |->
                      Num(Sign(pattern)) \otimes CandidateRow(h, N, i, pattern.name)[k]]
=============================================================================
