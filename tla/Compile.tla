-------------------------------- MODULE Compile --------------------------------
(***************************************************************************)
(* compile_spec (api/compile.cpp): a composer's specification, curves with *)
(* their generic instrument rows and regions, translated into the bundle   *)
(* the engine calibrates.  It orders the curves, resolves every date token *)
(* once, lays out each curve's knots and turns, then builds the rows.      *)
(*                                                                         *)
(* A day is its distance from the value date and its own curve time.  A    *)
(* curve document is [id, kind, base, ccy, regions, insts]; a region       *)
(* [id, policy, lam]; an instrument [id, type, kind, start, end, adds,     *)
(* quote, region, side, bench, den, comps, knots].  Conventions are one    *)
(* calendar and one spot date; a row is its quote kind, its window and the *)
(* curves in its roles, 0 for a role it has not (build/instruments.hpp).   *)
(***************************************************************************)
EXTENDS Integers, SequencesExt

CONSTANTS Specs,    \* [curves, smoothness]: the specifications compiled
          Business, \* the business days
          Spot,     \* the products' spot date
          Absent,   \* a field that is not given
          Bad       \* a token that does not resolve

ASSUME SpotAssumption == Spot \in Business
ASSUME SpecsAssumption == \A s \in Specs : s.curves \in Seq(ToSet(s.curves))
\* A document lists its instruments, and its meetings end on dates the calendar reaches.
ASSUME DocumentsAssumption ==
    /\ Business \subseteq Int /\ Absent \notin Int
    /\ \A s \in Specs : \A p \in DOMAIN s.curves :
          LET insts == s.curves[p].insts
          IN  /\ insts \in Seq(ToSet(insts))
              /\ \A j \in DOMAIN insts : insts[j].type = "meeting" /\ insts[j].end \notin {Absent, Bad} =>
                     insts[j].end \in Int /\ \E b \in Business : b >= insts[j].end

VARIABLES spec,
          phase,     \* "order", "resolve", "topology", "rows", "stamp", "done", "refused"
          order,     \* the curves' documents, bases first
          at,        \* the curve and the instrument in hand
          resolved,  \* resolved: <<curve id, instrument key>> -> its window
          turnOf,    \* turn_index_of
          curves,    \* R.bundle.curves
          rows       \* R.bundle.instruments

compileVars == <<spec, phase, order, at, resolved, turnOf, curves, rows>>

Docs == spec.curves
Doc(i) == Docs[order[i]]

-----------------------------------------------------------------------------
(* order_curves(). *)

\* by_id: of two documents with an id, the later.
Named(id) == LET S == {p \in DOMAIN Docs : Docs[p].id = id} IN IF S = {} THEN 0 ELSE Max(S)
HasBase(d) == d.kind = "spread" /\ d.base # Absent

\* A document and the bases visited below it, up to one visited twice.
Line(p) ==
    LET step(l) == IF HasBase(Docs[Last(l)]) /\ Named(Docs[Last(l)].base) # 0
                   THEN Append(l, Named(Docs[Last(l)].base)) ELSE l
        up[n \in 0..Len(Docs)] == IF n = 0 THEN <<p>> ELSE step(up[n-1])
    IN  up[Len(Docs)]

Cyclic(l) == ~IsInjective(l)
Dangling(l) == \E k \in DOMAIN l : HasBase(Docs[l[k]]) /\ Named(Docs[l[k]].base) = 0

\* The curves so far and a line's, from its last base down, that no earlier one brought in.
Brought(l, line) ==
    LET add(s, q) == IF q \in ToSet(s) THEN s ELSE Append(s, q)
        from[n \in 0..Len(line)] == IF n = 0 THEN l ELSE add(from[n-1], line[Len(line) - n + 1])
    IN  from[Len(line)]

\* Mutant: the curves are taken in the document's order.
DocumentOrder ==
    LET upTo[p \in 0..Len(Docs)] == IF p = 0 THEN << >> ELSE Brought(upTo[p-1], <<Named(Docs[p].id)>>)
    IN  upTo[Len(Docs)]

\* Each curve after the bases below it.
CurveOrder ==
    LET upTo[p \in 0..Len(Docs)] == IF p = 0 THEN << >> ELSE Brought(upTo[p-1], Line(Named(Docs[p].id)))
    IN  upTo[Len(Docs)]

Index(id) == LET S == {i \in DOMAIN order : Doc(i).id = id} IN IF S = {} THEN 0 ELSE Max(S)

-----------------------------------------------------------------------------
(* Dates. *)

Following(d) == CHOOSE b \in Business : b >= d /\ \A c \in Business : c >= d => b <= c
Preceding(d) == CHOOSE b \in Business : b <= d /\ \A c \in Business : c <= d => c <= b

Resolve(token, roll) == IF roll THEN Following(token) ELSE token

\* ins_key().
Key(doc, j) == IF doc.insts[j].id # Absent THEN <<"id", doc.insts[j].id>> ELSE <<"#", j>>

\* The quoted meetings a curve chains.
Quoted(doc) == {j \in DOMAIN doc.insts :
                   doc.insts[j].type = "meeting" /\ doc.insts[j].quote /\ doc.insts[j].end \notin {Absent, Bad}}
EndOf(doc, j) == Following(doc.insts[j].end)

\* The quoted meetings of a curve that its chain takes before one of them.
Before(doc, j) == {i \in Quoted(doc) : EndOf(doc, i) < EndOf(doc, j) \/ (EndOf(doc, i) = EndOf(doc, j) /\ i < j)}
QuotedUnder(doc, key) == {j \in Quoted(doc) : Key(doc, j) = key}
QuotedKeys(doc) == {Key(doc, j) : j \in Quoted(doc)}

\* Mutant: a meeting starts where the one listed before it ends.
StartsAsListed(doc) ==
    LET before(j) == {i \in Quoted(doc) : i < j}
        start(j) == IF before(j) = {} THEN Spot ELSE EndOf(doc, Max(before(j)))
    IN  [key \in QuotedKeys(doc) |-> start(Max(QuotedUnder(doc, key)))]

\* chained_meeting_starts(): the first from "0d", which resolves to spot, each from the end of the
\* one before it; of two under a key, the later in the chain.
ChainedStarts(doc) ==
    LET start(j) == IF Before(doc, j) = {} THEN Spot ELSE Max({EndOf(doc, i) : i \in Before(doc, j)})
        last(S) == CHOOSE j \in S : S \ {j} \subseteq Before(doc, j)
    IN  [key \in QuotedKeys(doc) |-> start(last(QuotedUnder(doc, key)))]

\* resolve_instrument(): only a Rate has a start of its own; futures' dates are not rolled.
Window(doc, j, starts) ==
    LET ins == doc.insts[j]
        roll == ins.type # "fut"
        token == IF Key(doc, j) \in DOMAIN starts THEN starts[Key(doc, j)] ELSE ins.start
    IN  [start |-> IF ins.kind # "Rate" \/ token = Absent THEN 0 ELSE Resolve(token, roll),
         end |-> IF ins.end = Absent THEN 0 ELSE Resolve(ins.end, roll)]

Unresolvable(doc) == \E j \in DOMAIN doc.insts :
                        \/ doc.insts[j].end = Bad
                        \/ doc.insts[j].kind = "Rate" /\ Key(doc, j) \notin QuotedKeys(doc) /\ doc.insts[j].start = Bad

\* A curve's windows under its instruments' keys: of two instruments with a key, the later.
Keyed(doc, value) ==
    [key \in {<<doc.id, Key(doc, j)>> : j \in DOMAIN value} |->
        value[Max({j \in DOMAIN value : Key(doc, j) = key[2]})]]

\* What is entered under its keys over what was there.
Entered(new, old) == [key \in DOMAIN new \cup DOMAIN old |-> IF key \in DOMAIN new THEN new[key] ELSE old[key]]

\* turn_window(): from the last business day on or before it to the next one.
TurnWindow(ins) == LET s == Preceding(ins.end) IN [start |-> s, end |-> Following(s + 1)]

-----------------------------------------------------------------------------
(* curve_layout(). *)

\* The knots a curve's instruments add, each with the region it asks for, at the windows known.
KnotItems(doc, known) ==
    LET item(j) == LET ins == doc.insts[j]
                   IN  IF ins.type = "portfolio"
                       THEN [k \in DOMAIN ins.knots |-> [ins.knots[k] EXCEPT !.t = Following(@), !.side = IF @ = Absent THEN "back" ELSE @]]
                       ELSE IF ~ins.adds THEN << >>
                       ELSE <<[t |-> known[<<doc.id, Key(doc, j)>>].end, region |-> ins.region, side |-> ins.side]>>
    IN  FlattenSeq([j \in DOMAIN doc.insts |-> item(j)])

SortedDistinct(S) == SetToSortSeq(S, <)

Side(item, default) == IF item.side = Absent THEN default ELSE item.side
Module(scheme, S, lam) == [scheme |-> scheme, knots |-> SortedDistinct(S), lam |-> lam]
Laid(modules) == SelectSeq(modules, LAMBDA m : m.knots # << >>)

\* flat_hermite(): without regions, by side.
Classic(items) ==
    LET on(side) == {items[k].t : k \in {h \in DOMAIN items : (Side(items[h], "back") = "front") = (side = "front")}}
    IN  Laid(<<Module("Flat", on("front"), Absent), Module("Hermite", on("back"), Absent)>>)

\* Each knot to the region it names, else to the first or the last.
RegionOf(doc, item) ==
    IF \E r \in DOMAIN doc.regions : doc.regions[r].id = item.region THEN item.region
    ELSE IF Side(item, "front") = "front" THEN doc.regions[1].id ELSE Last(doc.regions).id

Modular(doc, items) ==
    Laid([r \in DOMAIN doc.regions |->
             Module(doc.regions[r].policy,
                    {items[k].t : k \in {h \in DOMAIN items : RegionOf(doc, items[h]) = doc.regions[r].id}},
                    doc.regions[r].lam)])

\* The fast path: the classic layout again, and the front's weight not kept.
IsClassic(modules) == Len(modules) = 2 /\ modules[1].scheme = "Flat" /\ modules[2].scheme = "Hermite"

Ascending(modules) ==
    LET flat == FlattenSeq([m \in DOMAIN modules |-> modules[m].knots])
    IN  \A k \in 2..Len(flat) : flat[k] > flat[k-1]

Layout(doc, items) ==
    IF doc.regions = << >> THEN Classic(items)
    ELSE LET modules == Modular(doc, items)
         IN  IF IsClassic(modules) THEN [modules EXCEPT ![1].lam = Absent] ELSE modules

LayoutRefused(doc, items) ==
    doc.regions # << >> /\ ~IsClassic(Modular(doc, items)) /\ ~Ascending(Modular(doc, items))

-----------------------------------------------------------------------------
(* Rows. *)

Outright(i) == Doc(i).kind # "spread"
FirstOf(S) == IF S = {} THEN 0 ELSE Min(S)

\* ccy_root, with root_outright behind it.
Discount(i) ==
    LET own == FirstOf({h \in DOMAIN order : Outright(h) /\ Doc(h).ccy = Doc(i).ccy})
    IN  IF own # 0 THEN own ELSE FirstOf({h \in DOMAIN order : Outright(h)})
SpreadBase(i) == IF HasBase(Doc(i)) THEN Index(Doc(i).base) ELSE Discount(i)

\* bench_of().
Bench(i, ins) == IF ins.bench = Absent THEN SpreadBase(i) ELSE Index(ins.bench)
Swap == {"ParRate", "ZeroCouponRate", "ParSpread", "XccyMtmBasis"}
NeedsBench == {"ParSpread", "XccyMtmBasis"}
NeedsDen == {"FxForward", "XccyMtmBasis"}

RowRefused(i, ins, w) ==
    IF ins.type = "portfolio"
    THEN ins.comps = << >> \/ \E k \in DOMAIN ins.comps : Following(ins.comps[k]) <= Spot
    ELSE \/ ins.kind = "Rate" /\ w.end <= w.start
         \/ ins.kind \in Swap /\ w.end <= Spot
         \/ ins.kind \in NeedsBench /\ ins.bench # Absent /\ Bench(i, ins) \in {0, i}
         \/ ins.kind \in NeedsDen /\ (ins.den = Absent \/ Index(ins.den) \in {0, i})
         \/ ins.kind = "TurnJump" /\ ins.type # "turn"

Row(i, j) ==
    LET ins == Doc(i).insts[j]
        key == <<Doc(i).id, Key(Doc(i), j)>>
        kind == IF ins.type = "portfolio" THEN "Portfolio" ELSE ins.kind
    IN  [of |-> <<order[i], j>>, kind |-> kind, curve |-> i, window |-> resolved[key],
         bench |-> IF kind \in NeedsBench THEN Bench(i, ins) ELSE 0,
         den |-> IF kind \in NeedsDen THEN Index(ins.den) ELSE 0,
         disc |-> IF kind \in {"ParRate", "ZeroCouponRate", "ParSpread", "Portfolio"} THEN Discount(i)
                  ELSE IF kind = "XccyMtmBasis" THEN i ELSE 0,
         turn |-> IF kind = "TurnJump" THEN turnOf[key] ELSE 0]

IsRow(ins) == ins.type = "portfolio" \/ ins.quote

-----------------------------------------------------------------------------

CompileInit ==
    /\ spec \in Specs
    /\ phase = "order" /\ at = <<1, 1>>
    /\ order = << >> /\ resolved = << >> /\ turnOf = << >> /\ curves = << >> /\ rows = << >>

Refuse == phase' = "refused" /\ UNCHANGED <<spec, order, at, resolved, turnOf, curves, rows>>

OrderCurves ==
    /\ phase = "order"
    /\ IF \/ \E p \in DOMAIN Docs : Cyclic(Line(Named(Docs[p].id))) \/ Dangling(Line(Named(Docs[p].id)))
          \/ \A p \in DOMAIN Docs : Docs[p].kind = "spread"
       THEN Refuse
       ELSE /\ order' = CurveOrder
            /\ phase' = "resolve"
            /\ UNCHANGED <<spec, at, resolved, turnOf, curves, rows>>

\* The next curve of the pass, or the next pass.
Advance(next) == IF at[1] < Len(order) THEN at' = <<at[1] + 1, 1>> /\ phase' = phase
                 ELSE at' = <<1, 1>> /\ phase' = next

ResolveCurve ==
    /\ phase = "resolve"
    /\ LET doc == Doc(at[1])
           starts == ChainedStarts(doc)
       IN  IF Unresolvable(doc) THEN Refuse
           ELSE /\ resolved' = Entered(Keyed(doc, [j \in DOMAIN doc.insts |-> Window(doc, j, starts)]), resolved)
                /\ Advance("topology")
                /\ UNCHANGED <<spec, order, turnOf, curves, rows>>

Turns(doc) == {j \in DOMAIN doc.insts : doc.insts[j].type = "turn"}

\* Mutant: a turn's place is counted among the quoted ones.
PlacesOfQuoted(doc) ==
    [j \in Turns(doc) |-> Cardinality({i \in Turns(doc) : i <= j /\ doc.insts[i].quote})]

\* The place of a turn among its curve's.
TurnPlaces(doc) == [j \in Turns(doc) |-> Cardinality({i \in Turns(doc) : i <= j})]
Nth(S, k) == CHOOSE j \in S : Cardinality({i \in S : i <= j}) = k

LayOutCurve ==
    /\ phase = "topology"
    /\ LET doc == Doc(at[1])
           windows == [j \in Turns(doc) |-> TurnWindow(doc.insts[j])]
           known == Entered(Keyed(doc, windows), resolved)
           items == KnotItems(doc, known)
           modules == Layout(doc, items)
       IN  IF items = << >> \/ (\E k \in DOMAIN items : items[k].t <= 0) \/ LayoutRefused(doc, items)
           THEN Refuse
           ELSE /\ turnOf' = Entered(Keyed(doc, TurnPlaces(doc)), turnOf)
                /\ resolved' = known
                /\ curves' = Append(curves,
                                 [base |-> IF HasBase(doc) THEN Index(doc.base) ELSE 0, regions |-> modules,
                                  turns |-> [k \in 1..Cardinality(Turns(doc)) |-> windows[Nth(Turns(doc), k)]]])
                /\ Advance("rows")
                /\ UNCHANGED <<spec, order, rows>>

BuildRow ==
    /\ phase = "rows"
    /\ LET i == at[1]
           j == at[2]
           ins == Doc(i).insts[j]
       IN  /\ j <= Len(Doc(i).insts)
           /\ IF IsRow(ins) /\ RowRefused(i, ins, resolved[<<Doc(i).id, Key(Doc(i), j)>>]) THEN Refuse
              ELSE /\ rows' = IF IsRow(ins) THEN Append(rows, Row(i, j)) ELSE rows
                   /\ at' = <<i, j + 1>>
                   /\ UNCHANGED <<spec, phase, order, resolved, turnOf, curves>>

CloseCurve ==
    /\ phase = "rows" /\ at[2] > Len(Doc(at[1]).insts)
    /\ Advance("stamp")
    /\ UNCHANGED <<spec, order, resolved, turnOf, curves, rows>>

\* stamp_silent_regions(): the legacy word, onto the curves none of whose regions says.
Stamped(curve, on) ==
    IF \E m \in DOMAIN curve.regions : curve.regions[m].lam # Absent THEN curve
    ELSE [curve EXCEPT !.regions = [m \in DOMAIN @ |-> IF @[m].scheme = "Flat" THEN @[m] ELSE [@[m] EXCEPT !.lam = on]]]

Finish ==
    /\ phase = "stamp"
    /\ IF rows = << >> THEN Refuse
       ELSE /\ curves' = [i \in DOMAIN curves |-> Stamped(curves[i], IF spec.smoothness = "off" THEN 0 ELSE 1)]
            /\ phase' = "done"
            /\ UNCHANGED <<spec, order, at, resolved, turnOf, rows>>

CompileNext == OrderCurves \/ ResolveCurve \/ LayOutCurve \/ BuildRow \/ CloseCurve \/ Finish

CompileSpec == CompileInit /\ [][CompileNext]_compileVars

-----------------------------------------------------------------------------

Roles(r) == {r.curve, r.bench, r.den, r.disc} \ {0}

\* Every curve of the specification is in the bundle once, after the base it is a spread on,
\* and every row's roles are curves of the bundle: a bench or a denominator that is named is
\* another curve; rows of one currency are discounted on one curve, an outright one.
CurvesAreStacked ==
    phase = "done" =>
        /\ {Doc(i).id : i \in DOMAIN order} = {Docs[p].id : p \in DOMAIN Docs}
        /\ Len(curves) = Len(order) /\ IsInjective(order)
        /\ \A i \in DOMAIN curves :
              HasBase(Doc(i)) => curves[i].base \in 1..i-1 /\ Doc(curves[i].base).id = Doc(i).base
        /\ \A k \in DOMAIN rows :
              LET r == rows[k]
                  ins == Docs[r.of[1]].insts[r.of[2]]
              IN  /\ Roles(r) \subseteq DOMAIN curves
                  /\ r.den # r.curve /\ (ins.bench # Absent => r.bench # r.curve)
                  /\ r.disc \notin {0, r.curve} => Outright(r.disc)
                  /\ \A h \in DOMAIN rows :
                        (r.disc # 0 /\ rows[h].disc # 0 /\ "XccyMtmBasis" \notin {r.kind, rows[h].kind}
                             /\ Doc(r.curve).ccy = Doc(rows[h].curve).ccy) => r.disc = rows[h].disc

\* No two instruments of a curve carry one id: each has a window of its own.
Composed == \A p \in DOMAIN Docs : \A j, k \in DOMAIN Docs[p].insts : Key(Docs[p], j) = Key(Docs[p], k) => j = k

\* A curve's quoted meetings tile the time from the spot date to the last of them, whatever
\* order they are listed in: each opens where the one before it closes, and none is refused but
\* for a date that is not after spot or that another of them rolls to.  The days between the
\* value date and spot are in no meeting's window.
MeetingsTile ==
    Composed =>
        /\ phase = "done" =>
            \A i \in DOMAIN order :
                LET listed == {k \in DOMAIN rows : rows[k].curve = i /\ rows[k].of[2] \in Quoted(Doc(i))}
                    meetings == {k \in listed : rows[k].kind = "Rate"}
                IN  \A k \in meetings :
                        /\ \/ rows[k].window.start = Spot
                           \/ \E h \in listed : rows[h].window.end = rows[k].window.start
                        /\ \A h \in meetings \ {k} : \/ rows[h].window.end <= rows[k].window.start
                                                     \/ rows[k].window.end <= rows[h].window.start
        /\ (phase = "refused" /\ order # << >> /\ Len(curves) = Len(order)) =>
            LET doc == Doc(at[1])
            IN  (at[2] \in Quoted(doc) /\ doc.insts[at[2]].kind = "Rate") =>
                    \/ EndOf(doc, at[2]) <= Spot
                    \/ \E j \in Quoted(doc) \ {at[2]} : EndOf(doc, j) = EndOf(doc, at[2])

\* The rows are the specification's quotes, one each, in the curves' order; each reads the
\* window of its own instrument, and a turn's row pins the turn of its own date.
RowsReadTheirQuotes ==
    phase = "done" /\ Composed =>
        /\ \A i \in DOMAIN order : \A j \in DOMAIN Doc(i).insts :
              IsRow(Doc(i).insts[j]) => \E k \in DOMAIN rows : rows[k].curve = i /\ rows[k].of = <<order[i], j>>
        /\ \A h, k \in DOMAIN rows :
              h < k => \/ rows[h].curve < rows[k].curve
                       \/ rows[h].curve = rows[k].curve /\ rows[h].of[2] < rows[k].of[2]
        /\ \A k \in DOMAIN rows :
              LET r == rows[k]
                  ins == Docs[r.of[1]].insts[r.of[2]]
              IN  /\ r.of[1] = order[r.curve] /\ IsRow(ins)
                  /\ IF r.kind = "TurnJump" THEN curves[r.curve].turns[r.turn] = TurnWindow(ins)
                     ELSE r.kind # "Portfolio" /\ ins.type # "turn" /\ ins.end # Absent =>
                              r.window.end = Resolve(ins.end, ins.type # "fut")
=============================================================================
