-------------------------------- MODULE Router --------------------------------
(***************************************************************************)
(* HybridBundleResidual (calibration/hybrid_residual.hpp): the residual    *)
(* engine of a bundle as a list of row engines, a compiled one             *)
(* (CompiledRows over RowMaps) and AAD blocks (AadBlock), each row claimed *)
(* by one of them.                                                         *)
(*                                                                         *)
(* A problem's row is [kind, data, m, band, off, deep, queries, states]:   *)
(* off the cache by shape; deep when it reads past its curves' linear      *)
(* horizon; the discounts and knots its quote is made of.  A compiled      *)
(* row's quote is taken as exact (CurveSet has its discounts); what an     *)
(* evaluation answers is exact arithmetic.                                 *)
(***************************************************************************)
EXTENDS RowMaps, AadBlock

CONSTANTS Problems,    \* [rows, trackable, refused]: the bundles, and what the tier makes of them
          kPooledMaxW, \* the widest closure the pooled dual takes
          Points,      \* the states evaluated at
          Bands,       \* the bands a requote may carry
          Targets,     \* and its targets
          LiveTargets  \* the levels of a live feed

ASSUME RouterAssumption ==
    /\ Base \in Seq(Nat)
    /\ IsFiniteSet(Knots) /\ Knots \subseteq (DOMAIN Base) \X Int
    /\ \A x \in Points : x \in [Knots -> Int]
    /\ Targets \cup LiveTargets \subseteq Int
    /\ Bands \subseteq [lo : Int, up : Int, dc : 0..Unit]
    /\ \A p \in Problems :
          /\ Len(p.rows) \in Nat /\ DOMAIN p.rows = 1..Len(p.rows)
          /\ \A r \in DOMAIN p.rows :
                /\ p.rows[r].kind \in {"quote", "data", "log"}
                /\ p.rows[r].m \in Int
                /\ p.rows[r].band \in [lo : Int, up : Int, dc : 0..Unit]
                /\ IsBand(p.rows[r].band) => p.rows[r].band.lo <= p.rows[r].m /\ p.rows[r].m <= p.rows[r].band.up
                /\ p.rows[r].queries \in Seq((DOMAIN Base) \X Int)
                /\ p.rows[r].states \subseteq Knots

VARIABLES problem,
          phase,    \* "tier": the tier is tried; "horizons": the partition after it; "ready"
          engines,  \* engines_: a compiled engine first, if any, then the AAD blocks
          owner,    \* owner_
          market,   \* market_
          live,     \* every row's quote as its callers set it
          answer    \* the last evaluation

vars == <<problem, phase, engines, owner, market, live, answer>>

Rows == DOMAIN problem.rows
Mixed == \E r \in Rows : problem.rows[r].deep
Width(cs) == Cardinality(KnotsOf(cs))

Quoted(r) == [m |-> problem.rows[r].m, band |-> problem.rows[r].band]

-----------------------------------------------------------------------------
(* build(): the partition. *)

OffCache(r, useHorizons) == problem.rows[r].off \/ (useHorizons /\ problem.rows[r].deep)

InOrder(S) == [k \in 1..Cardinality(S) |->
                  CHOOSE r \in S : Cardinality({i \in S : i <= r}) = k]

\* CompiledBundleResidual's constructor over the rows rs.
Compiled(rs) ==
    LET e == [of |-> "compiled", rows |-> rs,
              kind |-> [j \in DOMAIN rs |-> problem.rows[rs[j]].kind],
              data |-> [j \in DOMAIN rs |-> problem.rows[rs[j]].data],
              market |-> [j \in DOMAIN rs |-> problem.rows[rs[j]].m],
              band |-> [j \in DOMAIN rs |-> problem.rows[rs[j]].band],
              maps |-> <<>>, pos |-> [j \in DOMAIN rs |-> 0], dirty |-> TRUE,
              dead |-> <<>>, deadJ |-> <<>>]
    IN  [e EXCEPT !.deadJ = [k \in 1..DeadCapacity(e) |-> <<>>]]

\* The AAD block over the rows rs.
Block(rs) ==
    [of |-> "aad", rows |-> rs,
     block |-> BlockOver([j \in DOMAIN rs |-> problem.rows[rs[j]]]),
     kind |-> [j \in DOMAIN rs |-> problem.rows[rs[j]].kind],
     data |-> [j \in DOMAIN rs |-> problem.rows[rs[j]].data],
     market |-> [j \in DOMAIN rs |-> problem.rows[rs[j]].m],
     band |-> [j \in DOMAIN rs |-> problem.rows[rs[j]].band],
     dead |-> <<>>]

\* A row joins a group whose union with it still fits, or to which it adds no curve.
Fits(g, cs) == Width(g.curves \cup cs) <= kPooledMaxW \/ cs \subseteq g.curves

\* First fit, in row order.
Groups(nc) ==
    LET after[k \in 0..Len(nc)] ==
            IF k = 0 THEN <<>>
            ELSE LET gs == after[k-1]
                     cs == CurvesRead(problem.rows[nc[k]])
                     fit == {i \in DOMAIN gs : Fits(gs[i], cs)}
                     i == CHOOSE i \in fit : \A h \in fit : i <= h
                 IN  IF fit = {} THEN Append(gs, [curves |-> cs, rows |-> <<nc[k]>>])
                     ELSE [gs EXCEPT ![i] = [curves |-> @.curves \cup cs, rows |-> Append(@.rows, nc[k])]]
    IN  after[Len(nc)]

Engines(useHorizons) ==
    LET nc == InOrder({r \in Rows : OffCache(r, useHorizons)})
        cached == InOrder({r \in Rows : ~OffCache(r, useHorizons)})
        gs == Groups(nc)
    IN  (IF ~useHorizons \/ cached # <<>> THEN <<Compiled(cached)>> ELSE <<>>)
            \o [k \in DOMAIN gs |-> Block(gs[k].rows)]

\* The last engine that lists a row owns it.
Owners(es) ==
    [r \in Rows |-> CHOOSE k \in DOMAIN es :
        /\ \E j \in DOMAIN es[k].rows : es[k].rows[j] = r
        /\ \A h \in DOMAIN es : (\E j \in DOMAIN es[h].rows : es[h].rows[j] = r) => h <= k]

Built(useHorizons) ==
    /\ engines' = Engines(useHorizons)
    /\ owner' = Owners(engines')
    /\ market' = [r \in Rows |-> problem.rows[r].m]
    /\ phase' = "ready"

NoAnswer == [of |-> "none"]

Init == /\ problem \in Problems
        /\ phase = IF Mixed /\ problem.trackable THEN "tier" ELSE "horizons"
        /\ engines = <<>> /\ owner = <<>> /\ market = <<>>
        /\ live = [r \in Rows |-> Quoted(r)]
        /\ answer = NoAnswer

\* The tier: refused when nothing would stay compiled, or by the compiled engine itself.
BuildOnTier ==
    /\ phase = "tier"
    /\ IF problem.refused \/ \A r \in Rows : OffCache(r, FALSE)
       THEN phase' = "horizons" /\ UNCHANGED <<engines, owner, market>>
       ELSE Built(FALSE)
    /\ UNCHANGED <<problem, live, answer>>

BuildOnHorizons ==
    /\ phase = "horizons"
    /\ Built(Mixed)
    /\ UNCHANGED <<problem, live, answer>>

-----------------------------------------------------------------------------
(* Quotes. *)

\* validate_quote() and validate_targets(), at the session: a band contains its target.
Valid(r, m, b) == IsBand(b) => b.lo <= m /\ m <= b.up

LocalRow(e, r) == CHOOSE j \in DOMAIN e.rows : e.rows[j] = r

\* RowEngine::set_quote of the owner: an AAD block keeps the four numbers.
Requoted(e, r, m, b) ==
    IF e.of = "compiled" THEN WithQuote(e, LocalRow(e, r), m, b)
    ELSE [e EXCEPT !.market[LocalRow(e, r)] = m, !.band[LocalRow(e, r)] = b]

SetQuote(r, m, b) ==
    /\ phase = "ready" /\ Valid(r, m, b)
    /\ market' = [market EXCEPT ![r] = m]
    /\ engines' = [engines EXCEPT ![owner[r]] = Requoted(@, r, m, b)]
    /\ live' = [live EXCEPT ![r] = [m |-> m, band |-> b]]
    /\ answer' = NoAnswer
    /\ UNCHANGED <<problem, phase, owner>>

Retargeted(e, r, m) == WithMarket(e, LocalRow(e, r), m)

SetMarket(r, m) ==
    /\ phase = "ready" /\ Valid(r, m, live[r].band)
    /\ market' = [market EXCEPT ![r] = m]
    /\ engines' = [engines EXCEPT ![owner[r]] = Retargeted(@, r, m)]
    /\ live' = [live EXCEPT ![r].m = m]
    /\ answer' = NoAnswer
    /\ UNCHANGED <<problem, phase, owner>>

-----------------------------------------------------------------------------
(* Evaluation. *)

Gather(e, y) == [j \in DOMAIN e.rows |-> y[e.rows[j]]]

Quotes(x) == [r \in Rows |-> ModelQuote(problem.rows[r], x)]

OfBlock(e, p) == [engine |-> [e EXCEPT !.block = p.block], quote |-> p.quote]

\* Every pass asks row_maps() for the compiled engine's list; a residual pass of a block goes
\* through its tables, a Jacobian pass over dual curves of its own.
Passed(e, x, pass, order) ==
    IF e.of = "compiled" THEN [engine |-> Rebuilt(e), quote |-> Gather(e, Quotes(x))]
    ELSE IF pass = "residuals" THEN OfBlock(e, ResidualPass(e.block, x, order))
    ELSE [engine |-> e, quote |-> Gather(e, Quotes(x))]

\* The residuals and slopes of an engine's rows, from their quotes.
Evaluated(p, q) ==
    LET e == p.engine
    IN  IF e.of = "compiled" THEN Evaluate(e, p.quote, Gather(e, q))
        ELSE [j \in DOMAIN e.rows |-> ByInstrument(e.kind[j], e.data[j], e.band[j], p.quote[j], q[e.rows[j]])]

\* Every engine scatters its rows; a row no engine lists is left as it was.
Scattered(ps, value(_)) ==
    [r \in Rows |->
        IF \E k \in DOMAIN ps : \E j \in DOMAIN ps[k].engine.rows : ps[k].engine.rows[j] = r
        THEN LET k == CHOOSE k \in DOMAIN ps : \E j \in DOMAIN ps[k].engine.rows : ps[k].engine.rows[j] = r
             IN  value(ps[k])[LocalRow(ps[k].engine, r)]
        ELSE NoAnswer]

Answer(of, x, q, ps, served) ==
    [of |-> of, x |-> x, q |-> q, dead |-> served.dead, deadJ |-> served.deadJ,
     quote |-> Scattered(ps, LAMBDA p : p.quote),
     rows |-> IF of = "rates" THEN << >> ELSE Scattered(ps, LAMBDA p : Evaluated(p, q))]

NoDead == [dead |-> << >>, deadJ |-> << >>]

\* residuals_vs(x, q, model) against a live feed, and residuals(x) at q = market_.
Residuals(x, q, order) ==
    /\ phase = "ready"
    /\ LET ps == [k \in DOMAIN engines |-> Passed(engines[k], x, "residuals", order)]
       IN  /\ engines' = [k \in DOMAIN engines |-> ps[k].engine]
           /\ answer' = Answer("residuals", x, q, ps, NoDead)
    /\ UNCHANGED <<problem, phase, owner, market, live>>

\* model_rates(): no row's map is read.
ModelRates(x) ==
    /\ phase = "ready"
    /\ LET ps == [k \in DOMAIN engines |->
                     IF engines[k].of = "compiled" THEN [engine |-> engines[k], quote |-> Gather(engines[k], Quotes(x))]
                     ELSE OfBlock(engines[k], RatesPass(engines[k].block, x))]
       IN  /\ engines' = [k \in DOMAIN engines |-> ps[k].engine]
           /\ answer' = Answer("rates", x, market, ps, NoDead)
    /\ UNCHANGED <<problem, phase, owner, market, live>>

\* Mutant: the rows of a refresh's dead list are left as the compiled engine numbers them.
GlobalDeadLocal(e) == e.dead

\* CompiledRows::dead_rows(): the engine's dead rows, as global rows.
GlobalDead(e) == [k \in DOMAIN e.dead |-> e.rows[e.dead[k]]]

\* dead_rows() and dead_row_into(k), as the streamer reads them: the engine whose stretch of
\* the concatenated list k falls in.  A block keeps none.
Served(e) == [dead |-> GlobalDead(e),
              deadJ |-> [k \in DOMAIN e.dead |-> <<e.rows[e.deadJ[k][1]], e.deadJ[k][2]>>]]
ServedDead(es) ==
    LET lists == {k \in DOMAIN es : es[k].dead # << >>}
    IN  IF lists = {} THEN NoDead ELSE Served(es[CHOOSE k \in lists : TRUE])

\* jacobian_vs_into().
Swept(p, q, x) == IF p.engine.of = "compiled" THEN WithDead(p.engine, p.quote, Gather(p.engine, q), x) ELSE p.engine
Jacobian(x, q) ==
    /\ phase = "ready"
    /\ LET ps == [k \in DOMAIN engines |-> Passed(engines[k], x, "jacobian", "recorded")]
       IN  /\ engines' = [k \in DOMAIN engines |-> Swept(ps[k], q, x)]
           /\ answer' = Answer("jacobian", x, q, ps, ServedDead(engines'))
    /\ UNCHANGED <<problem, phase, owner, market, live>>

\* The market an evaluation is given: the one kept, or a feed ahead of it.
Feeds == {q \in {market} \cup {[r \in Rows |-> m] : m \in LiveTargets} :
             phase = "ready" /\ \A r \in Rows : Valid(r, q[r], live[r].band)}

Next == \/ BuildOnTier
        \/ BuildOnHorizons
        \/ \E r \in Rows, m \in Targets : \/ \E b \in Bands : SetQuote(r, m, b)
                                          \/ SetMarket(r, m)
        \/ \E x \in Points : \/ \E q \in Feeds : \/ \E order \in Orders : Residuals(x, q, order)
                                             \/ Jacobian(x, q)
                            \/ ModelRates(x)

Spec == Init /\ [][Next]_vars

-----------------------------------------------------------------------------

\* An evaluation answers each row by its quote at the state it was given, whichever tables,
\* play-lists and passes came before, and by the map of the band it carries now against the
\* target it was given, through a list edited in place, rebuilt or not, or by the kernel.
AnsweredByLiveBands ==
    \A r \in DOMAIN problem.rows :
        LET v == ModelQuote(problem.rows[r], answer.x)
        IN  /\ answer.of # "none" => answer.quote[r] = v
            /\ answer.of \in {"residuals", "jacobian"} =>
                   answer.rows[r] = ByInstrument(problem.rows[r].kind, problem.rows[r].data, live[r].band, v, answer.q[r])

\* After a Jacobian the dead rows are the cached rows it found on a flat piece, each served
\* with its own quote row at the state of the pass.
DeadRowsServed ==
    answer.of = "jacobian" =>
        /\ {answer.dead[k] : k \in DOMAIN answer.dead} =
               {r \in Rows : engines[owner[r]].of = "compiled" /\ answer.rows[r].slope = 0}
        /\ \A k \in DOMAIN answer.dead : answer.deadJ[k] = <<answer.dead[k], answer.x>>

=============================================================================
