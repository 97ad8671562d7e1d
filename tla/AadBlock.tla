------------------------------- MODULE AadBlock -------------------------------
(***************************************************************************)
(* AadBlock (calibration/aad_block.hpp): the rows that no compiled formula *)
(* prices, priced by the templated kernel over curves whose discounts are  *)
(* tabulated once per residual pass and handed out by a cursor that        *)
(* replays the order the kernel asked in when the block was built.         *)
(*                                                                         *)
(* A knot is <<curve, period>>; a curve's integral to t adds up its own    *)
(* knots' pieces up to t and its bases'.  On a value-dependent curve a     *)
(* piece is its knot's square.  A discount is its exponent.  An instrument *)
(* has queries, the discounts its kernel asks for, <<curve, time>> in      *)
(* order, and states, the knots it reads raw; its quote weighs them by     *)
(* their place.                                                            *)
(***************************************************************************)
EXTENDS Integers, Sequences, FiniteSets, Functions

CONSTANTS Knots,   \* every curve's knots
          Base,    \* a spread curve's base, 0 for an outright one
          Linear   \* the curves whose integral is linear in the state

ASSUME CurveAssumption == \A c \in DOMAIN Base : Base[c] \in 0..c-1

\* A curve and its bases; the set closed under it (AadBlock::init, and closure()).
Ancestry(c) ==
    LET up[d \in DOMAIN Base] == {d} \cup (IF Base[d] = 0 THEN {} ELSE up[Base[d]])
    IN  up[c]
Closure(cs) == UNION {Ancestry(c) : c \in cs}

KnotsOf(cs) == {k \in Knots : k[1] \in cs}
Upto(c, t) == {k \in KnotsOf(Ancestry(c)) : k[2] <= t}

Total(f) == FoldFunction(LAMBDA u, v : u + v, 0, f)

\* CurveHandle::integral, and its derivatives at the zero state.
Integral(c, t, x) == Total([k \in Upto(c, t) |-> IF k[1] \in Linear THEN x[k] ELSE x[k] * x[k]])
Slope(c, t, k) == IF k \in Upto(c, t) /\ k[1] \in Linear THEN 1 ELSE 0

\* collect_curves().
CurvesRead(ins) ==
    Closure({ins.queries[i][1] : i \in DOMAIN ins.queries} \cup {k[1] : k \in ins.states})

\* instrument_model_quote() over given discounts, one per query.
Quote(ins, discount, x) ==
    Total([i \in DOMAIN ins.queries |-> i * discount[i]]) + Total([k \in ins.states |-> x[k]])

\* The same over the curves themselves.
ModelQuote(ins, x) == Quote(ins, [i \in DOMAIN ins.queries |-> Integral(ins.queries[i][1], ins.queries[i][2], x)], x)

-----------------------------------------------------------------------------
(* build_df_cache(). *)

\* The times a curve is asked for in one pass over the block, in order: the recording.
Asks(ins, c) ==
    LET upTo[i \in 0..Len(ins.queries)] ==
            IF i = 0 THEN << >>
            ELSE IF ins.queries[i][1] = c THEN Append(upTo[i-1], ins.queries[i][2]) ELSE upTo[i-1]
    IN  upTo[Len(ins.queries)]
Recorded(instruments, c) ==
    LET upTo[j \in 0..Len(instruments)] == IF j = 0 THEN << >> ELSE upTo[j-1] \o Asks(instruments[j], c)
    IN  upTo[Len(instruments)]

Ascending(S) == [i \in 1..Cardinality(S) |-> CHOOSE t \in S : Cardinality({u \in S : u <= t}) = i]
SlotOf(times, t) == CHOOSE i \in DOMAIN times : times[i] = t

\* linear[c].
Affine(c) == Ancestry(c) \subseteq Linear

Tabulated(asked, c, touched) ==
    LET times == Ascending({asked[k] : k \in DOMAIN asked})
    IN  [times |-> times,
         linear |-> Affine(c),
         M |-> [i \in DOMAIN times |-> [k \in touched |-> Slope(c, times[i], k)]],
         df |-> [i \in DOMAIN times |-> 0],
         seqT |-> asked,
         seqSlot |-> [k \in DOMAIN asked |-> SlotOf(times, asked[k])],
         cursor |-> 0]

\* init(): the closure, the knots touched, and a table for every curve of it that is asked.
BlockOver(instruments) ==
    LET closed == Closure(UNION {CurvesRead(instruments[j]) : j \in DOMAIN instruments})
        touched == KnotsOf(closed)
        queried == {c \in closed : Recorded(instruments, c) # << >>}
    IN  [sub |-> instruments,
         closed |-> closed,
         touched |-> touched,
         curves |-> [k \in touched |-> 0],
         cached |-> [c \in queried |-> Tabulated(Recorded(instruments, c), c, touched)]]

-----------------------------------------------------------------------------
(* Passes. *)

\* dcurves_.update_only(): the closure's curves at x.
Updated(b, x) == [b EXCEPT !.curves = [k \in b.touched |-> x[k]]]

\* refresh_curves().
Refreshed(b, x) ==
    LET at == Updated(b, x)
        table(d, c) ==
            [i \in DOMAIN d.times |->
                IF d.linear THEN Total([k \in b.touched |-> d.M[i][k] * at.curves[k]])
                ELSE Integral(c, d.times[i], at.curves)]
    IN  [at EXCEPT !.cached = [c \in DOMAIN b.cached |-> [b.cached[c] EXCEPT !.df = table(b.cached[c], c), !.cursor = 0]]]

Expected(d, t) == d.cursor < Len(d.seqT) /\ d.seqT[d.cursor + 1] = t

\* Mutant: the next discount of the play-list is handed out whatever time was asked.
DiscountByCursor(b, c, t) ==
    IF c \notin DOMAIN b.cached THEN Integral(c, t, b.curves)
    ELSE LET d == b.cached[c]
         IN  IF d.cursor < Len(d.seqT) THEN d.df[d.seqSlot[d.cursor + 1]]
             ELSE IF t \in {d.times[i] : i \in DOMAIN d.times} THEN d.df[SlotOf(d.times, t)]
             ELSE Integral(c, t, b.curves)

\* CachedDisc::discount: by the cursor, by search, or from the curve.
Discount(b, c, t) ==
    IF c \notin DOMAIN b.cached THEN Integral(c, t, b.curves)
    ELSE LET d == b.cached[c]
         IN  IF Expected(d, t) THEN d.df[d.seqSlot[d.cursor + 1]]
             ELSE IF t \in {d.times[i] : i \in DOMAIN d.times} THEN d.df[SlotOf(d.times, t)]
             ELSE Integral(c, t, b.curves)

Asked(b, c, t) ==
    IF c \in DOMAIN b.cached /\ Expected(b.cached[c], t) THEN [b EXCEPT !.cached[c].cursor = @ + 1] ELSE b

\* A kernel's discounts are operands of one expression: it may ask for them in the order of
\* the recording or in another, here the reverse.
Orders == {"recorded", "reversed"}
Place(n, i, order) == IF order = "recorded" THEN i ELSE n + 1 - i

\* One row priced through the tables: its discounts and the block after it.
Priced(b, ins, order) ==
    LET n == Len(ins.queries)
        asking(s, p, q) == [block |-> Asked(s.block, q[1], q[2]),
                            discount |-> [s.discount EXCEPT ![p] = Discount(s.block, q[1], q[2])]]
        ask[i \in 0..n] ==
            IF i = 0 THEN [block |-> b, discount |-> [k \in 1..n |-> 0]]
            ELSE asking(ask[i-1], Place(n, i, order), ins.queries[Place(n, i, order)])
    IN  ask[n]

\* residuals_vs_into(): the tables refreshed, then every row's quote.
ResidualPass(b, x, order) ==
    LET pricing(quotes, ins, p) ==
            [block |-> p.block, quote |-> Append(quotes, Quote(ins, p.discount, p.block.curves))]
        row[j \in 0..Len(b.sub)] ==
            IF j = 0 THEN [block |-> Refreshed(b, x), quote |-> << >>]
            ELSE pricing(row[j-1].quote, b.sub[j], Priced(row[j-1].block, b.sub[j], order))
    IN  row[Len(b.sub)]

\* model_rates_into(): over the curves themselves.
RatesPass(b, x) ==
    [block |-> Updated(b, x), quote |-> [j \in DOMAIN b.sub |-> ModelQuote(b.sub[j], Updated(b, x).curves)]]
=============================================================================
