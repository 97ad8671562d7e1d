--------------------------- MODULE RegistryProofs ---------------------------
(***************************************************************************)
(* Theorems about Registry, for any number of threads, calendars, indices  *)
(* and batches: what apply()'s four visible steps leave between them, and  *)
(* what a query answers that none of them fell into.                       *)
(***************************************************************************)
EXTENDS Registry, SequenceTheorems, FiniteSetTheorems, WellFoundedInduction, TLAPS

Total == Len(cals) + Len(indices) + Len(sources)

BatchTypes == [clear : BOOLEAN, cals : Seq(OverlayRows),
               indices : Seq(Indices), sources : Seq(Indices)]

\* An apply() is somewhere between its lock and its unlock, with the batch it commits.
ApplyInv ==
    /\ cals \in Seq(OverlayRows) /\ indices \in Seq(Indices) /\ sources \in Seq(Indices)
    /\ n \in Nat
    /\ apply \in [pc : {"idle", "commit", "count", "bump", "return"}, batch : BatchTypes]

\* The size is that of the rows, except between the appends and the store: there it is
\* that of the rows before, which the store is about to correct.
CountInv ==
    IF apply.pc = "count"
    THEN Total = (IF apply.batch.clear THEN 0 ELSE n) + RowCount(apply.batch)
    ELSE n = Total

\* Every source has its index, and the batch about to be committed knows of those it names
\* even if it clears the overlay first.
SourcesInv ==
    /\ SourcesHaveIndices
    /\ apply.pc = "commit" =>
           \A k \in DOMAIN apply.batch.sources : IndexKnownAfter(apply.batch, apply.batch.sources[k])

OverlayInv == ApplyInv /\ CountInv /\ SourcesInv

LEMMA NoBatchTyped == NoBatch \in BatchTypes
  BY DEF NoBatch, BatchTypes

LEMMA OverlayInit == Init => OverlayInv
<1> SUFFICES ASSUME Init PROVE OverlayInv
  OBVIOUS
<1>1. ApplyInv
  BY NoBatchTyped DEF Init, ApplyInv
<1>2. CountInv
  BY DEF Init, CountInv, Total
<1>3. SourcesInv
  BY DEF Init, SourcesInv, SourcesHaveIndices
<1>4. QED
  BY <1>1, <1>2, <1>3 DEF OverlayInv

\* A query takes the lock shared at most: it moves nothing of the overlay.
LEMMA QueriesOnlyRead ==
  ASSUME OverlayInv, UNCHANGED <<overlayVars, n, apply>>
  PROVE  OverlayInv'
<1> USE DEF overlayVars
<1>1. ApplyInv'
  BY DEF OverlayInv, ApplyInv
<1>2. CountInv'
  BY DEF OverlayInv, CountInv, Total
<1>3. SourcesInv'
  BY DEF OverlayInv, SourcesInv, SourcesHaveIndices, IndexKnownAfter
<1>4. QED
  BY <1>1, <1>2, <1>3 DEF OverlayInv

LEMMA LockKeeps ==
  ASSUME OverlayInv, NEW b \in Batches, LockAndCheck(b)
  PROVE  OverlayInv'
<1> USE DEF LockAndCheck, overlayVars
<1>1. b \in BatchTypes
  BY RegistryAssumption DEF RegistryAssumption, BatchTypes
<1>2. ApplyInv'
  BY <1>1 DEF OverlayInv, ApplyInv
<1>3. CountInv'
  BY DEF OverlayInv, CountInv, Total
<1>4. SourcesInv'
  BY DEF OverlayInv, SourcesInv, SourcesHaveIndices, IndexKnownAfter
<1>5. QED
  BY <1>2, <1>3, <1>4 DEF OverlayInv

\* Appending leaves the rows there are where they are, and puts the others behind.
LEMMA Appended ==
  \A S : \A old, new \in Seq(S) :
      /\ \A i \in DOMAIN old : i \in DOMAIN (old \o new) /\ (old \o new)[i] = old[i]
      /\ \A i \in DOMAIN new : /\ Len(old) + i \in DOMAIN (old \o new)
                               /\ (old \o new)[Len(old) + i] = new[i]
<1> SUFFICES ASSUME NEW S, NEW old \in Seq(S), NEW new \in Seq(S)
             PROVE  /\ \A i \in DOMAIN old : i \in DOMAIN (old \o new) /\ (old \o new)[i] = old[i]
                    /\ \A i \in DOMAIN new : /\ Len(old) + i \in DOMAIN (old \o new)
                                             /\ (old \o new)[Len(old) + i] = new[i]
  OBVIOUS
<1>1. Len(old) \in Nat /\ Len(new) \in Nat
  BY LenProperties
<1>2. DOMAIN old = 1..Len(old) /\ DOMAIN new = 1..Len(new)
  BY LenProperties
<1>3. /\ old \o new \in Seq(S) /\ Len(old \o new) = Len(old) + Len(new)
      /\ \A i \in 1..Len(old) + Len(new) :
             (old \o new)[i] = IF i <= Len(old) THEN old[i] ELSE new[i - Len(old)]
  BY ConcatProperties
<1>4. DOMAIN (old \o new) = 1..Len(old) + Len(new)
  BY <1>3, LenProperties
<1>5. QED
  BY <1>1, <1>2, <1>3, <1>4

\* What the overlay holds of a family after a commit.
Kept(old, clear) == IF clear THEN <<>> ELSE old

LEMMA CommitKeeps ==
  ASSUME OverlayInv, CommitRows
  PROVE  OverlayInv'
<1>1. PICK b \in BatchTypes :
        /\ apply.pc = "commit" /\ apply.batch = b
        /\ cals' = Kept(cals, b.clear) \o b.cals
        /\ indices' = Kept(indices, b.clear) \o b.indices
        /\ sources' = Kept(sources, b.clear) \o b.sources
        /\ apply' = [apply EXCEPT !.pc = "count"]
        /\ n' = n
  BY DEF OverlayInv, ApplyInv, CommitRows, Kept
<1>2. /\ apply \in [pc : {"idle", "commit", "count", "bump", "return"}, batch : BatchTypes]
      /\ cals \in Seq(OverlayRows) /\ indices \in Seq(Indices) /\ sources \in Seq(Indices)
      /\ n \in Nat /\ n = Total
  BY <1>1 DEF OverlayInv, ApplyInv, CountInv
<1>3. /\ Kept(cals, b.clear) \in Seq(OverlayRows) /\ b.cals \in Seq(OverlayRows)
      /\ Kept(indices, b.clear) \in Seq(Indices) /\ b.indices \in Seq(Indices)
      /\ Kept(sources, b.clear) \in Seq(Indices) /\ b.sources \in Seq(Indices)
      /\ b.clear \in BOOLEAN
  BY <1>2 DEF Kept, BatchTypes
<1>4. apply'.pc = "count" /\ apply'.batch = b
  BY <1>1, <1>2
<1>5. ApplyInv'
  BY <1>1, <1>2, <1>3, ConcatProperties DEF ApplyInv
<1>6. CountInv'
  <2>1. /\ Len(cals') = Len(Kept(cals, b.clear)) + Len(b.cals)
        /\ Len(indices') = Len(Kept(indices, b.clear)) + Len(b.indices)
        /\ Len(sources') = Len(Kept(sources, b.clear)) + Len(b.sources)
    BY <1>1, <1>3, ConcatProperties
  <2>2. Len(Kept(cals, b.clear)) + Len(Kept(indices, b.clear)) + Len(Kept(sources, b.clear))
          = IF b.clear THEN 0 ELSE n
    BY <1>2, <1>3 DEF Kept, Total
  <2>3. /\ Len(b.cals) \in Nat /\ Len(b.indices) \in Nat /\ Len(b.sources) \in Nat
        /\ Len(Kept(cals, b.clear)) \in Nat /\ Len(Kept(indices, b.clear)) \in Nat
        /\ Len(Kept(sources, b.clear)) \in Nat
    BY <1>3, LenProperties
  <2>4. RowCount(b) = Len(b.cals) + Len(b.indices) + Len(b.sources)
    BY DEF RowCount
  <2>5. Total' = (IF b.clear THEN 0 ELSE n) + RowCount(b)
    <3>1. Total' = Len(cals') + Len(indices') + Len(sources')
      BY DEF Total
    <3> DEFINE before == IF b.clear THEN 0 ELSE n
    <3> HIDE DEF before
    <3>2. Len(Kept(cals, b.clear)) + Len(Kept(indices, b.clear)) + Len(Kept(sources, b.clear)) = before
      BY <2>2 DEF before
    <3>3. Total' = before + RowCount(b)
      <4>1. PICK a1, a2, a3, b1, b2, b3 \in Nat :
              /\ a1 = Len(Kept(cals, b.clear)) /\ b1 = Len(b.cals)
              /\ a2 = Len(Kept(indices, b.clear)) /\ b2 = Len(b.indices)
              /\ a3 = Len(Kept(sources, b.clear)) /\ b3 = Len(b.sources)
        BY <2>3, Zenon
      <4>2. Total' = (a1 + b1) + (a2 + b2) + (a3 + b3)
        BY <2>1, <3>1, <4>1, Zenon
      <4>3. (a1 + b1) + (a2 + b2) + (a3 + b3) = (a1 + a2 + a3) + (b1 + b2 + b3)
        OBVIOUS
      <4>4. QED
        BY <2>4, <3>2, <4>1, <4>2, <4>3, Zenon
    <3>4. QED
      BY <3>3 DEF before
  <2>6. QED
    BY <1>1, <1>4, <2>5 DEF CountInv
<1>7. SourcesHaveIndices'
  <2> SUFFICES ASSUME NEW k \in DOMAIN sources'
               PROVE  \/ sources'[k] \in BakedIndices
                      \/ \E i \in DOMAIN indices' : indices'[i] = sources'[k]
    BY DEF SourcesHaveIndices
  <2> DEFINE oldS == Kept(sources, b.clear)
             oldI == Kept(indices, b.clear)
  <2> HIDE DEF oldS, oldI
  <2>1. /\ oldS \in Seq(Indices) /\ oldI \in Seq(Indices)
        /\ sources' = oldS \o b.sources /\ indices' = oldI \o b.indices
    BY <1>1, <1>3 DEF oldS, oldI
  <2>2. /\ \A i \in DOMAIN oldI : i \in DOMAIN indices' /\ indices'[i] = oldI[i]
        /\ \A i \in DOMAIN b.indices :
               Len(oldI) + i \in DOMAIN indices' /\ indices'[Len(oldI) + i] = b.indices[i]
    <3>1. b.indices \in Seq(Indices)
      BY <1>3
    <3>2. QED
      <4>1. /\ \A i \in DOMAIN oldI : i \in DOMAIN (oldI \o b.indices) /\ (oldI \o b.indices)[i] = oldI[i]
            /\ \A i \in DOMAIN b.indices : /\ Len(oldI) + i \in DOMAIN (oldI \o b.indices)
                                            /\ (oldI \o b.indices)[Len(oldI) + i] = b.indices[i]
        <5>1. oldI \in Seq(Indices)
          BY <2>1
        <5>2. ASSUME NEW o \in Seq(Indices), NEW w \in Seq(Indices)
              PROVE  \A i \in DOMAIN o : i \in DOMAIN (o \o w) /\ (o \o w)[i] = o[i]
          BY Appended
        <5>3. ASSUME NEW o \in Seq(Indices), NEW w \in Seq(Indices)
              PROVE  \A i \in DOMAIN w : Len(o) + i \in DOMAIN (o \o w) /\ (o \o w)[Len(o) + i] = w[i]
          BY Appended
        <5>4. \A i \in DOMAIN oldI : i \in DOMAIN (oldI \o b.indices) /\ (oldI \o b.indices)[i] = oldI[i]
          BY <5>1, <3>1, <5>2
        <5>5. \A i \in DOMAIN b.indices : /\ Len(oldI) + i \in DOMAIN (oldI \o b.indices)
                                           /\ (oldI \o b.indices)[Len(oldI) + i] = b.indices[i]
          BY <5>1, <3>1, <5>3
        <5>6. QED
          BY <5>4, <5>5
      <4>2. QED
        BY <2>1, <4>1, Zenon
  <2>3. \/ k \in DOMAIN oldS /\ sources'[k] = oldS[k]
        \/ \E j \in DOMAIN b.sources : sources'[k] = b.sources[j]
    <3>1. CASE k \in DOMAIN oldS
      BY <1>3, <2>1, <3>1
    <3>2. CASE k \notin DOMAIN oldS
      <4>1. k - Len(oldS) \in DOMAIN b.sources /\ sources'[k] = b.sources[k - Len(oldS)]
        BY <1>3, <2>1, <3>2
      <4>2. QED
        BY <4>1
    <3>3. QED
      BY <3>1, <3>2
  <2>4. CASE k \in DOMAIN oldS /\ sources'[k] = oldS[k]
    <3>1. ~b.clear /\ oldS = sources /\ oldI = indices
      BY <1>3, <2>4 DEF oldS, oldI, Kept
    <3>2. \/ sources[k] \in BakedIndices
          \/ \E i \in DOMAIN indices : indices[i] = sources[k]
      BY <2>4, <3>1 DEF OverlayInv, SourcesInv, SourcesHaveIndices
    <3>3. QED
      BY <2>2, <2>4, <3>1, <3>2
  <2>5. CASE \E j \in DOMAIN b.sources : sources'[k] = b.sources[j]
    <3>1. PICK j \in DOMAIN b.sources : sources'[k] = b.sources[j]
      BY <2>5
    <3>2. IndexKnownAfter(b, b.sources[j])
      BY <1>1 DEF OverlayInv, SourcesInv
    <3>3. CASE ~b.clear /\ \E i \in DOMAIN indices : indices[i] = b.sources[j]
      <4>1. oldI = indices
        BY <3>3 DEF oldI, Kept
      <4>2. QED
        BY <2>2, <3>1, <3>3, <4>1
    <3>4. QED
      BY <2>2, <3>1, <3>2, <3>3 DEF IndexKnownAfter
  <2>6. QED
    BY <2>3, <2>4, <2>5
<1>8. SourcesInv'
  BY <1>4, <1>7 DEF SourcesInv
<1>9. QED
  BY <1>5, <1>6, <1>8 DEF OverlayInv

LEMMA StoreKeeps ==
  ASSUME OverlayInv, StoreCount
  PROVE  OverlayInv'
<1> USE DEF StoreCount, overlayVars
<1>1. apply'.pc = "bump" /\ apply'.batch = apply.batch
  BY DEF OverlayInv, ApplyInv
<1>2. n' = Total
  BY DEF OverlayInv, CountInv
<1>3. Total \in Nat
  BY LenProperties DEF OverlayInv, ApplyInv, Total
<1>4. ApplyInv'
  BY <1>2, <1>3 DEF OverlayInv, ApplyInv
<1>5. CountInv'
  BY <1>1, <1>2 DEF CountInv, Total
<1>6. SourcesInv'
  BY <1>1 DEF OverlayInv, SourcesInv, SourcesHaveIndices
<1>7. QED
  BY <1>4, <1>5, <1>6 DEF OverlayInv

LEMMA BumpOrUnlockKeeps ==
  ASSUME OverlayInv, BumpGeneration \/ Unlock
  PROVE  OverlayInv'
<1> USE DEF BumpGeneration, Unlock, overlayVars
<1>1. apply.pc \in {"bump", "return"} /\ apply'.pc \in {"return", "idle"}
  BY DEF OverlayInv, ApplyInv
<1>2. ApplyInv'
  BY NoBatchTyped DEF OverlayInv, ApplyInv
<1>3. CountInv'
  BY <1>1 DEF OverlayInv, CountInv, Total
<1>4. SourcesInv'
  BY <1>1 DEF OverlayInv, SourcesInv, SourcesHaveIndices
<1>5. QED
  BY <1>2, <1>3, <1>4 DEF OverlayInv

LEMMA ThreadsOnlyRead ==
  ASSUME NEW t \in Threads, Step(t) \/ \E c \in Cals : Query(t, c)
  PROVE  UNCHANGED <<overlayVars, n, apply>>
BY DEF Step, Query, LoadCount, ScanOverlay, UnknownCalendar, Throw, WeekendRow, JointRow,
       NextLeg, BrokenLeg, LegsDone, WeekdayRow, Probe, Acquire, HolidaysOf, UnionDone,
       Insert, ReadBit

LEMMA OverlayStep == OverlayInv /\ [Next]_vars => OverlayInv'
<1> SUFFICES ASSUME OverlayInv, [Next]_vars PROVE OverlayInv'
  OBVIOUS
<1>1. CASE \E b \in Batches : LockAndCheck(b)
  BY <1>1, LockKeeps
<1>2. CASE Apply
  BY <1>2, CommitKeeps, StoreKeeps, BumpOrUnlockKeeps DEF Apply
<1>3. CASE \E t \in Threads : (\E c \in Cals : Query(t, c)) \/ Step(t)
  BY <1>3, ThreadsOnlyRead, QueriesOnlyRead
<1>4. CASE UNCHANGED vars
  BY <1>4, QueriesOnlyRead DEF vars, overlayVars
<1>5. QED
  BY <1>1, <1>2, <1>3, <1>4 DEF Next

LEMMA OverlayInvariant == Spec => []OverlayInv
<1>1. QED
  BY OverlayInit, OverlayStep, PTL DEF Spec

----------------------------------------------------------------------------
(* Queries: their types, and what holds of every thread.                   *)

Answers == {"open", "closed", "threw"}
Froms == {"baked", "overlay", "dropped"}
Steps == {"idle", "lookup", "scan", "row", "leg", "probe", "acquire", "insert", "read"}
Frame == [row : Rows, from : Froms, j : Nat]
Queries ==
    [pc : Steps, cal : Cals \cup {None}, view : [row : Rows \cup {Unknown}, from : Froms],
     frames : Seq(Frame), inner : Seq(Frame), key : Cals \cup {None}, g : Nat, bit : BOOLEAN,
     ref : [bit : BOOLEAN, held : BOOLEAN], asked : Cals \cup {None}, ans : Answers \cup {None},
     quiet : BOOLEAN, stray : BOOLEAN]

LEMMA NoQueryTyped == NoQuery \in Queries
  BY DEF NoQuery, NoView, Queries, Steps, Froms, Answers, Frame

LEMMA FinishedTyped ==
    ASSUME NEW s \in Queries, NEW v \in Answers
    PROVE  /\ Finished(s, v) \in Queries /\ Finished(s, v).pc = "idle" /\ Finished(s, v).inner = <<>> /\ Finished(s, v).g = 0
           /\ Finished(s, v).quiet = s.quiet
           /\ s.quiet => /\ Finished(s, v).asked = s.asked /\ Finished(s, v).ans = v
                         /\ Finished(s, v).stray = s.stray
<1>1. s.quiet \in BOOLEAN /\ s.stray \in BOOLEAN /\ s.asked \in Cals \cup {None}
  BY DEF Queries
<1>2. CASE s.quiet
  <2>1. Finished(s, v) = [NoQuery EXCEPT !.asked = s.asked, !.ans = v, !.quiet = TRUE, !.stray = s.stray]
    BY <1>2 DEF Finished
  <2>2. PICK a \in Cals \cup {None}, b \in BOOLEAN : a = s.asked /\ b = s.stray
    BY <1>1
  <2>3. PICK d : d = Finished(s, v)
    OBVIOUS
  <2>4. PICK q \in Queries : q = NoQuery
    BY NoQueryTyped
  <2>5. /\ d = [q EXCEPT !.asked = a, !.ans = v, !.quiet = TRUE, !.stray = b]
        /\ q.pc = "idle" /\ q.inner = <<>> /\ q.g = 0
    BY <2>1, <2>2, <2>3, <2>4 DEF NoQuery
  <2>6. /\ d \in Queries /\ d.pc = "idle" /\ d.inner = <<>> /\ d.g = 0 /\ d.quiet = TRUE
        /\ d.asked = a /\ d.ans = v /\ d.stray = b
    BY <2>5 DEF Queries
  <2>7. s.quiet = TRUE
    BY <1>1, <1>2
  <2>8. QED
    BY <2>2, <2>3, <2>6, <2>7
<1>3. CASE ~s.quiet
  <2>1. Finished(s, v) = NoQuery
    BY <1>3 DEF Finished
  <2>2. s.quiet = FALSE
    BY <1>1, <1>3
  <2>3. PICK q \in Queries : q = NoQuery
    BY NoQueryTyped
  <2>4. q.pc = "idle" /\ q.inner = <<>> /\ q.g = 0 /\ q.quiet = FALSE
    BY <2>3 DEF NoQuery
  <2>5. QED
    BY <1>3, <2>1, <2>2, <2>3, <2>4
<1>4. QED
  BY <1>2, <1>3

LEMMA ResumedTyped ==
    ASSUME NEW s \in Queries
    PROVE  /\ Resumed(s) \in Queries /\ Resumed(s).pc = "leg" /\ Resumed(s).inner = <<>> /\ Resumed(s).g = 0
           /\ Resumed(s).frames = s.frames
           /\ Resumed(s).asked = s.asked /\ Resumed(s).quiet = s.quiet /\ Resumed(s).stray = s.stray
  BY NoQueryTyped DEF Resumed, Queries, Answers, NoQuery, Steps

----------------------------------------------------------------------------
(* The rows of the moment, and the answers that agree with them.           *)

LEMMA LeastOf ==
  ASSUME NEW S, S \subseteq Nat, S # {}
  PROVE  Min(S) \in S /\ \A y \in S : Min(S) <= y
<1>1. PICK m \in S : \A y \in S : ~ (<<y, m>> \in OpToRel(<, Nat))
  BY WFMin, NatLessThanWellFounded, Zenon
<1>2. ASSUME NEW y \in S PROVE m <= y
  <2>1. y \in Nat /\ m \in Nat
    OBVIOUS
  <2>2. ~(y < m)
    BY <1>1, <2>1 DEF OpToRel
  <2>3. QED
    BY <2>1, <2>2
<1>3. \E x \in S : \A y \in S : x <= y
  BY <1>2
<1>4. QED
  BY <1>3 DEF Min

LEMMA GreatestOf ==
  ASSUME NEW m \in Nat, NEW S, S \subseteq 1..m, S # {}
  PROVE  Max(S) \in S
<1> DEFINE T == {m - x : x \in S}
<1>1. T \subseteq Nat /\ T # {}
  <2>1. PICK y \in S : TRUE
    OBVIOUS
  <2>2. m - y \in T
    BY <2>1
  <2>3. T \subseteq Nat
    OBVIOUS
  <2>4. QED
    BY <2>2, <2>3
<1>2. Min(T) \in T /\ \A y \in T : Min(T) <= y
  BY <1>1, LeastOf
<1> HIDE DEF T
<1>3. PICK x \in S : Min(T) = m - x
  BY <1>2 DEF T
<1>4. \A y \in S : x >= y
  <2> SUFFICES ASSUME NEW y \in S PROVE x >= y
    OBVIOUS
  <2>1. m - y \in T
    BY DEF T
  <2>2. m - x <= m - y
    BY <1>2, <1>3, <2>1
  <2>3. QED
    BY <2>2
<1>5. \E z \in S : \A y \in S : z >= y
  BY <1>4
<1>6. QED
  BY <1>5 DEF Max

LEMMA CurrentTyped ==
  ASSUME cals \in Seq(OverlayRows), NEW c \in Cals
  PROVE  Current(c) \in Rows \cup {Unknown}
<1>1. CASE Overlaid(c) = {}
  BY <1>1, RegistryAssumption DEF Current, RegistryAssumption
<1>2. CASE Overlaid(c) # {}
  <2>1. Len(cals) \in Nat /\ DOMAIN cals = 1..Len(cals)
    BY LenProperties
  <2>2. Overlaid(c) \subseteq 1..Len(cals)
    BY <2>1 DEF Overlaid
  <2>3. Max(Overlaid(c)) \in 1..Len(cals)
    BY <1>2, <2>1, <2>2, GreatestOf
  <2>4. cals[Max(Overlaid(c))] \in OverlayRows
    BY <2>1, <2>3
  <2>5. QED
    BY <1>2, <2>4 DEF Current, OverlayRows
<1>3. QED
  BY <1>1, <1>2

\* The rows of the moment.
RowsNow == [c \in Cals |-> Current(c)]

LEMMA RowsNowTyped ==
  ASSUME cals \in Seq(OverlayRows)
  PROVE  RowsNow \in [Cals -> Rows \cup {Unknown}]
  BY CurrentTyped DEF RowsNow

LEMMA RowTyped ==
  ASSUME NEW rows \in [Cals -> Rows \cup {Unknown}], NEW c \in Cals, rows[c] # Unknown
  PROVE  /\ rows[c] \in Rows /\ rows[c].kind \in {"weekend", "joint", "weekday"}
         /\ rows[c].open \in BOOLEAN /\ rows[c].legs \in Seq(Cals)
         /\ Len(rows[c].legs) \in Nat /\ DOMAIN rows[c].legs = 1..Len(rows[c].legs)
         /\ \A j \in 1..Len(rows[c].legs) : rows[c].legs[j] \in Cals
<1>1. rows[c] \in Rows
  OBVIOUS
<1>2. rows[c].legs \in Seq(Cals)
  BY <1>1 DEF Rows
<1>3. QED
  BY <1>1, <1>2, LenProperties DEF Rows

\* The answer of one calendar, given those of the others.
Answer(rows, c, v) ==
    LET row  == rows[c]
        stop == {j \in DOMAIN row.legs : v[row.legs[j]] # "open"}
    IN  IF row = Unknown THEN "threw"
        ELSE IF row.kind # "joint" THEN Says(row.open)
        ELSE IF stop = {} THEN "open" ELSE v[row.legs[Min(stop)]]

Agrees(rows, v) == \A c \in Cals : v[c] = Answer(rows, c, v)

LEMMA AnswerOfRow ==
  ASSUME NEW rows, NEW c, NEW v
  PROVE  /\ rows[c] = Unknown => Answer(rows, c, v) = "threw"
         /\ rows[c] # Unknown /\ rows[c].kind # "joint" => Answer(rows, c, v) = Says(rows[c].open)
  BY DEF Answer

\* All legs open, or the first that is not.
LEMMA AnswerOfJoint ==
  ASSUME NEW rows \in [Cals -> Rows \cup {Unknown}], NEW c \in Cals, rows[c] # Unknown, rows[c].kind = "joint", NEW v
  PROVE  /\ (\A j \in 1..Len(rows[c].legs) : v[rows[c].legs[j]] = "open") => Answer(rows, c, v) = "open"
         /\ \A j \in 1..Len(rows[c].legs) :
                /\ v[rows[c].legs[j]] # "open"
                /\ \A i \in 1..j-1 : v[rows[c].legs[i]] = "open"
                => Answer(rows, c, v) = v[rows[c].legs[j]]
<1> DEFINE legs == rows[c].legs
           stop == {j \in DOMAIN legs : v[legs[j]] # "open"}
<1>1. Answer(rows, c, v) = IF stop = {} THEN "open" ELSE v[legs[Min(stop)]]
  BY DEF Answer
<1>2. Len(legs) \in Nat /\ DOMAIN legs = 1..Len(legs)
  BY RowTyped
<1>3. ASSUME \A j \in 1..Len(legs) : v[legs[j]] = "open" PROVE Answer(rows, c, v) = "open"
  BY <1>1, <1>2, <1>3
<1>4. ASSUME NEW j \in 1..Len(legs), v[legs[j]] # "open", \A i \in 1..j-1 : v[legs[i]] = "open"
      PROVE  Answer(rows, c, v) = v[legs[j]]
  <2>1. stop \subseteq Nat /\ j \in stop
    BY <1>2, <1>4
  <2>2. Min(stop) \in stop /\ Min(stop) <= j
    BY <2>1, LeastOf
  <2>3. Min(stop) \in 1..Len(legs) /\ v[legs[Min(stop)]] # "open"
    BY <1>2, <2>2
  <2>4. Min(stop) \notin 1..j-1
    BY <1>4, <2>3
  <2>5. Min(stop) = j
    BY <1>2, <2>2, <2>3, <2>4
  <2>6. QED
    BY <1>1, <2>1, <2>5
<1>5. QED
  BY <1>3, <1>4

LEMMA AnswerOfStop ==
  ASSUME NEW rows \in [Cals -> Rows \cup {Unknown}], NEW c \in Cals, rows[c] # Unknown, rows[c].kind = "joint",
         NEW v, NEW j \in 1..Len(rows[c].legs), v[rows[c].legs[j]] # "open",
         \A i \in 1..j-1 : v[rows[c].legs[i]] = "open"
  PROVE  Answer(rows, c, v) = v[rows[c].legs[j]]
  BY AnswerOfJoint

----------------------------------------------------------------------------
(* There are such answers, whatever the rows: joint calendars that name    *)
(* one another in a circle included.                                       *)

\* The answer f gives of c rests on answers it gives of calendars in D.
Backed(rows, c, f, D) ==
    LET row == rows[c]
    IN  \/ row = Unknown /\ f[c] = "threw"
        \/ row # Unknown /\ row.kind # "joint" /\ f[c] = Says(row.open)
        \/ /\ row # Unknown /\ row.kind = "joint"
           /\ \E j \in 0..Len(row.legs) :
                  /\ \A i \in 1..j : row.legs[i] \in D /\ f[row.legs[i]] = "open"
                  /\ \/ j = Len(row.legs) /\ f[c] = "open"
                     \/ /\ j < Len(row.legs) /\ row.legs[j+1] \in D
                        /\ f[row.legs[j+1]] # "open" /\ f[c] = f[row.legs[j+1]]
Partial(rows, D, f) == f \in [Cals -> Answers] /\ \A c \in D : Backed(rows, c, f, D)

LEMMA BackedStays ==
  ASSUME NEW rows \in [Cals -> Rows \cup {Unknown}], NEW D \in SUBSET Cals, NEW E \in SUBSET Cals, D \subseteq E,
         NEW f, NEW g, NEW c \in Cals, \A x \in D \cup {c} : g[x] = f[x], Backed(rows, c, f, D)
  PROVE  Backed(rows, c, g, E)
<1>1. g[c] = f[c]
  OBVIOUS
<1>2. CASE rows[c] # Unknown /\ rows[c].kind = "joint"
  <2> DEFINE legs == rows[c].legs
  <2>1. Len(legs) \in Nat
    BY <1>2, RowTyped
  <2>2. PICK j \in 0..Len(legs) :
            /\ \A i \in 1..j : legs[i] \in D /\ f[legs[i]] = "open"
            /\ \/ j = Len(legs) /\ f[c] = "open"
               \/ j < Len(legs) /\ legs[j+1] \in D /\ f[legs[j+1]] # "open" /\ f[c] = f[legs[j+1]]
    BY <1>2 DEF Backed
  <2>3. \A i \in 1..j : legs[i] \in E /\ g[legs[i]] = "open"
    BY <2>2
  <2>4. \/ j = Len(legs) /\ g[c] = "open"
        \/ j < Len(legs) /\ legs[j+1] \in E /\ g[legs[j+1]] # "open" /\ g[c] = g[legs[j+1]]
    BY <1>1, <2>2
  <2>5. QED
    BY <1>2, <2>3, <2>4 DEF Backed
<1>3. CASE ~(rows[c] # Unknown /\ rows[c].kind = "joint")
  BY <1>1, <1>3 DEF Backed
<1>4. QED
  BY <1>2, <1>3

LEMMA BackedAnswers ==
  ASSUME NEW rows \in [Cals -> Rows \cup {Unknown}], NEW D \in SUBSET Cals, NEW v, NEW c \in Cals, Backed(rows, c, v, D)
  PROVE  v[c] = Answer(rows, c, v)
<1>1. CASE rows[c] # Unknown /\ rows[c].kind = "joint"
  <2> DEFINE legs == rows[c].legs
  <2>1. Len(legs) \in Nat
    BY <1>1, RowTyped
  <2>2. PICK j \in 0..Len(legs) :
            /\ \A i \in 1..j : legs[i] \in D /\ v[legs[i]] = "open"
            /\ \/ j = Len(legs) /\ v[c] = "open"
               \/ j < Len(legs) /\ legs[j+1] \in D /\ v[legs[j+1]] # "open" /\ v[c] = v[legs[j+1]]
    BY <1>1 DEF Backed
  <2>3. CASE j = Len(legs) /\ v[c] = "open"
    <3>1. \A i \in 1..Len(legs) : v[legs[i]] = "open"
      BY <2>2, <2>3
    <3>2. Answer(rows, c, v) = "open"
      BY <1>1, <3>1, AnswerOfJoint
    <3>3. QED
      BY <2>3, <3>2
  <2>4. CASE j < Len(legs) /\ v[legs[j+1]] # "open" /\ v[c] = v[legs[j+1]]
    <3>1. j + 1 \in 1..Len(legs)
      BY <2>1, <2>4
    <3>2. \A i \in 1..(j+1)-1 : v[legs[i]] = "open"
      BY <2>2
    <3>3. Answer(rows, c, v) = v[legs[j+1]]
      BY <1>1, <2>4, <3>1, <3>2, AnswerOfJoint
    <3>4. QED
      BY <2>4, <3>3
  <2>5. QED
    BY <2>2, <2>3, <2>4
<1>2. CASE ~(rows[c] # Unknown /\ rows[c].kind = "joint")
  BY <1>2, AnswerOfRow DEF Backed
<1>3. QED
  BY <1>1, <1>2

LEMMA Extended ==
  ASSUME NEW rows \in [Cals -> Rows \cup {Unknown}], NEW D \in SUBSET Cals, NEW f, Partial(rows, D, f),
         NEW c \in Cals \ D, NEW a \in Answers, NEW g, g = [f EXCEPT ![c] = a], Backed(rows, c, g, D)
  PROVE  Partial(rows, D \cup {c}, g)
<1>1. f \in [Cals -> Answers]
  BY DEF Partial
<1>2. g \in [Cals -> Answers] /\ \A x \in D : g[x] = f[x]
  BY <1>1
<1>3. ASSUME NEW x \in D PROVE Backed(rows, x, g, D \cup {c})
  <2>1. Backed(rows, x, f, D) /\ x \in Cals
    BY DEF Partial
  <2>2. \A y \in D \cup {x} : g[y] = f[y]
    BY <1>2
  <2>3. D \cup {c} \in SUBSET Cals /\ D \subseteq D \cup {c}
    OBVIOUS
  <2>4. QED
    BY <2>1, <2>2, <2>3, BackedStays
<1>4. Backed(rows, c, g, D \cup {c})
  <2>1. D \cup {c} \in SUBSET Cals /\ D \subseteq D \cup {c}
    OBVIOUS
  <2>2. \A y \in D \cup {c} : g[y] = g[y]
    OBVIOUS
  <2>3. QED
    BY <2>1, <2>2, BackedStays
<1>5. QED
  BY <1>2, <1>3, <1>4 DEF Partial

LEMMA AgreeingExist ==
  ASSUME NEW rows \in [Cals -> Rows \cup {Unknown}]
  PROVE  \E v \in [Cals -> Answers] : Agrees(rows, v)
<1> DEFINE Open == {U \in SUBSET Cals : \E f : Partial(rows, Cals \ U, f)}
<1>1. Cals \in Open
  <2> DEFINE f == [c \in Cals |-> "threw"]
  <2>1. f \in [Cals -> Answers]
    BY DEF Answers
  <2>2. Cals \ Cals = {}
    OBVIOUS
  <2>3. Partial(rows, Cals \ Cals, f)
    BY <2>1, <2>2 DEF Partial
  <2>4. QED
    BY <2>3
<1>2. PICK U \in Open : \A W \in Open : ~(W \subseteq U /\ W # U)
  <2>1. IsFiniteSet(Cals)
    BY RegistryAssumption DEF RegistryAssumption
  <2>2. Open \subseteq FiniteSubsetsOf(Cals)
    <3>1. ASSUME NEW U \in SUBSET Cals PROVE IsFiniteSet(U)
      BY <2>1, FS_Subset
    <3>2. QED
      BY <3>1 DEF FiniteSubsetsOf
  <2>3. IsWellFoundedOn(StrictSubsetOrdering(Cals), FiniteSubsetsOf(Cals))
    BY FS_StrictSubsetOrderingWellFounded
  <2> HIDE DEF Open
  <2>4. PICK U \in Open : \A W \in Open : ~(<<W, U>> \in StrictSubsetOrdering(Cals))
    BY <1>1, <2>2, <2>3, WFMin, Zenon
  <2>5. \A W \in Open : ~(W \subseteq U /\ W # U)
    BY <2>4 DEF Open, StrictSubsetOrdering
  <2>6. QED
    BY <2>5
<1> DEFINE D == Cals \ U
<1>3. D \in SUBSET Cals /\ U \in SUBSET Cals
  OBVIOUS
<1>4. PICK f : Partial(rows, D, f)
  OBVIOUS
<1>5. f \in [Cals -> Answers]
  BY <1>4 DEF Partial
<1>6. ASSUME NEW c \in U, NEW a \in Answers PROVE ~Backed(rows, c, [f EXCEPT ![c] = a], D)
  <2> SUFFICES ASSUME Backed(rows, c, [f EXCEPT ![c] = a], D) PROVE FALSE
    OBVIOUS
  <2>1. c \in Cals \ D
    BY <1>3
  <2>2. Partial(rows, D \cup {c}, [f EXCEPT ![c] = a])
    <3> HIDE DEF D
    <3>1. PICK g : g = [f EXCEPT ![c] = a]
      OBVIOUS
    <3>2. Backed(rows, c, g, D)
      BY <3>1
    <3>3. Partial(rows, D \cup {c}, g)
      BY <1>3, <1>4, <2>1, <3>1, <3>2, Extended
    <3>4. QED
      BY <3>1, <3>3
  <2>3. D \cup {c} = Cals \ (U \ {c})
    BY <1>3
  <2>4. U \ {c} \in Open
    BY <1>3, <2>2, <2>3
  <2>5. QED
    BY <1>2, <2>4
<1> HIDE DEF D, Open
<1> DEFINE v == [c \in Cals |-> IF c \in D THEN f[c] ELSE "threw"]
<1>7. v \in [Cals -> Answers] /\ \A c \in D : v[c] = f[c]
  BY <1>3, <1>5 DEF Answers
<1>8. \A c \in Cals : c \notin D => v[c] = "threw"
  OBVIOUS
<1> HIDE DEF v
<1>9. ASSUME NEW c \in D PROVE v[c] = Answer(rows, c, v)
  <2>1. Backed(rows, c, f, D) /\ c \in Cals
    BY <1>3, <1>4 DEF Partial
  <2>2. \A x \in D \cup {c} : v[x] = f[x]
    BY <1>7
  <2>3. Backed(rows, c, v, D)
    BY <1>3, <2>1, <2>2, BackedStays
  <2>4. QED
    BY <1>3, <2>1, <2>3, BackedAnswers
<1>10. ASSUME NEW c \in Cals, c \notin D PROVE v[c] = Answer(rows, c, v)
  <2>1. c \in U
    BY <1>10 DEF D
  <2>2. \A a \in Answers : [f EXCEPT ![c] = a][c] = a /\ \A x \in D : [f EXCEPT ![c] = a][x] = f[x]
    BY <1>3, <1>5, <1>10
  <2>3. CASE rows[c] = Unknown
    BY <1>8, <1>10, <2>3, AnswerOfRow
  <2>4. CASE rows[c] # Unknown /\ rows[c].kind # "joint"
    <3>1. Says(rows[c].open) \in Answers
      BY DEF Says, Answers
    <3>2. Backed(rows, c, [f EXCEPT ![c] = Says(rows[c].open)], D)
      BY <2>2, <2>4, <3>1 DEF Backed
    <3>3. QED
      BY <1>6, <2>1, <3>1, <3>2
  <2>5. CASE rows[c] # Unknown /\ rows[c].kind = "joint"
    <3> DEFINE legs == rows[c].legs
               held(i) == legs[i] \in D /\ f[legs[i]] = "open"
               stop == {i \in 1..Len(legs) : ~held(i)}
    <3>1. Len(legs) \in Nat /\ \A i \in 1..Len(legs) : legs[i] \in Cals
      BY <2>5, RowTyped
    <3>2. stop # {}
      <4> SUFFICES ASSUME stop = {} PROVE FALSE
        OBVIOUS
      <4>1. \A i \in 1..Len(legs) : held(i)
        OBVIOUS
      <4>2. PICK g : g = [f EXCEPT ![c] = "open"]
        OBVIOUS
      <4>3. g[c] = "open" /\ \A x \in D : g[x] = f[x]
        BY <2>2, <4>2 DEF Answers
      <4>4. \A i \in 1..Len(legs) : legs[i] \in D /\ g[legs[i]] = "open"
        BY <4>1, <4>3
      <4>5. Backed(rows, c, g, D)
        BY <2>5, <3>1, <4>3, <4>4 DEF Backed
      <4>6. QED
        BY <1>6, <2>1, <4>2, <4>5 DEF Answers
    <3>3. Min(stop) \in stop /\ \A i \in stop : Min(stop) <= i
      <4>1. stop \subseteq Nat
        OBVIOUS
      <4>2. QED
        BY <3>2, <4>1, LeastOf
    <3> HIDE DEF stop
    <3>4. PICK m \in stop : \A i \in stop : m <= i
      BY <3>3
    <3>5. m \in 1..Len(legs) /\ ~held(m) /\ \A i \in 1..m-1 : held(i)
      BY <3>1, <3>4 DEF stop
    <3>6. legs[m] \notin D
      <4> SUFFICES ASSUME legs[m] \in D PROVE FALSE
        OBVIOUS
      <4>1. f[legs[m]] # "open" /\ f[legs[m]] \in Answers
        BY <1>3, <1>5, <3>5
      <4>2. PICK a \in Answers : a = f[legs[m]]
        BY <4>1
      <4>3. PICK g : g = [f EXCEPT ![c] = a]
        OBVIOUS
      <4>4. g[c] = a /\ \A x \in D : g[x] = f[x]
        BY <2>2, <4>3
      <4>5. PICK j \in 0..Len(legs) : j = m - 1
        BY <3>1, <3>5
      <4>6. \A i \in 1..j : legs[i] \in D /\ g[legs[i]] = "open"
        BY <3>5, <4>4, <4>5
      <4>7. j < Len(legs) /\ legs[j+1] \in D /\ g[legs[j+1]] # "open" /\ g[c] = g[legs[j+1]]
        BY <3>1, <3>5, <4>1, <4>2, <4>4, <4>5
      <4>8. Backed(rows, c, g, D)
        BY <2>5, <4>6, <4>7 DEF Backed
      <4>9. QED
        BY <1>6, <2>1, <4>3, <4>8
    <3>7. v[legs[m]] = "threw"
      BY <1>8, <3>1, <3>5, <3>6
    <3>8. \A i \in 1..m-1 : v[legs[i]] = "open"
      BY <1>7, <3>5
    <3>9. Answer(rows, c, v) = v[legs[m]]
      BY <2>5, <3>5, <3>7, <3>8, AnswerOfJoint
    <3>10. QED
      BY <1>8, <1>10, <3>7, <3>9
  <2>6. QED
    BY <2>3, <2>4, <2>5
<1>11. Agrees(rows, v)
  BY <1>9, <1>10 DEF Agrees
<1>12. QED
  BY <1>7, <1>11

LEMMA AgreeIsAgrees == \A v : Agree(v) <=> Agrees(RowsNow, v)
<1> SUFFICES ASSUME NEW v PROVE Agree(v) <=> Agrees(RowsNow, v)
  OBVIOUS
<1>1. ASSUME NEW c \in Cals PROVE RowsNow[c] = Current(c)
  BY DEF RowsNow
<1> DEFINE says(row) ==
            LET stop == {j \in DOMAIN row.legs : v[row.legs[j]] # "open"}
            IN  IF row = Unknown THEN "threw"
                ELSE IF row.kind # "joint" THEN Says(row.open)
                ELSE IF stop = {} THEN "open" ELSE v[row.legs[Min(stop)]]
<1>2. Agree(v) <=> \A c \in Cals : v[c] = says(Current(c))
  BY DEF Agree
<1>3. Agrees(RowsNow, v) <=> \A c \in Cals : v[c] = says(RowsNow[c])
  BY DEF Agrees, Answer
<1> HIDE DEF says
<1>4. QED
  BY <1>1, <1>2, <1>3

----------------------------------------------------------------------------
(* A query's way down through joint calendars, from the one it was asked.  *)

At(a, fs, k) == IF k = 1 THEN a ELSE fs[k-1].row.legs[fs[k-1].j]

\* The answer of a leg that is not open is that of the calendar asked about.
Carries(v, a, c) == v[c] # "open" => v[a] = v[c]

Entered(rows, a, fs, v, k) ==
    LET c == At(a, fs, k)
    IN  /\ c \in Cals /\ rows[c] # Unknown /\ rows[c].kind = "joint"
        /\ fs[k].row = rows[c] /\ fs[k].from # "dropped"
        /\ fs[k].j <= Len(rows[c].legs)
        /\ \A i \in 1..fs[k].j-1 : v[rows[c].legs[i]] = "open"
        /\ Carries(v, a, c)
        /\ k < Len(fs) => fs[k].j >= 1
Walk(rows, a, fs, v) == a \in Cals /\ \A k \in 1..Len(fs) : Entered(rows, a, fs, v, k)

\* Every leg so far was open ...
LegsOpen(fs, v) ==
    fs # <<>> /\ (fs[Len(fs)].j >= 1 => v[fs[Len(fs)].row.legs[fs[Len(fs)].j]] = "open")
\* ... or one is being asked.
Asking(a, fs, v, c) ==
    /\ c \in Cals /\ c = At(a, fs, Len(fs) + 1)
    /\ fs # <<>> => fs[Len(fs)].j >= 1
    /\ Carries(v, a, c)

\* The answer rests on that of the calendar being asked, which is w.
Rests(a, fs, v, w) == \E c \in Cals : Asking(a, fs, v, c) /\ v[c] = w

LEMMA FramesTyped ==
  ASSUME NEW fs \in Seq(Frame)
  PROVE  /\ Len(fs) \in Nat /\ DOMAIN fs = 1..Len(fs)
         /\ \A k \in 1..Len(fs) : fs[k] \in Frame /\ fs[k].j \in Nat
         /\ fs # <<>> <=> Len(fs) >= 1
<1>1. Len(fs) \in Nat /\ DOMAIN fs = 1..Len(fs) /\ fs \in [1..Len(fs) -> Frame]
  BY LenProperties
<1>2. ASSUME NEW k \in 1..Len(fs) PROVE fs[k] \in Frame /\ fs[k].j \in Nat
  <2>1. fs[k] \in Frame
    BY <1>1
  <2>2. QED
    BY <2>1 DEF Frame
<1>3. fs # <<>> <=> Len(fs) >= 1
  BY <1>1, EmptySeq
<1>4. QED
  BY <1>1, <1>2, <1>3

LEMMA EnteredStays ==
  ASSUME NEW rows, NEW a, NEW fs, NEW gs, NEW v, NEW k \in Nat, k >= 1, Entered(rows, a, fs, v, k),
         k > 1 => gs[k-1] = fs[k-1], gs[k] = fs[k], k < Len(gs) => fs[k].j >= 1
  PROVE  Entered(rows, a, gs, v, k)
<1>1. At(a, gs, k) = At(a, fs, k)
  BY DEF At
<1>2. QED
  BY <1>1 DEF Entered

LEMMA AskingStays ==
  ASSUME NEW a, NEW fs \in Seq(Frame), NEW v, NEW c \in Cals, Asking(a, fs, v, c), v[c] = "open", fs # <<>>
  PROVE  LegsOpen(fs, v)
<1>1. Len(fs) \in Nat /\ Len(fs) >= 1
  BY FramesTyped
<1>2. c = fs[Len(fs)].row.legs[fs[Len(fs)].j]
  BY <1>1 DEF Asking, At
<1>3. QED
  BY <1>2 DEF LegsOpen

\* Into a joint calendar.
LEMMA WalkIn ==
  ASSUME NEW rows \in [Cals -> Rows \cup {Unknown}],
         NEW a, NEW fs \in Seq(Frame), NEW v, NEW c \in Cals, Walk(rows, a, fs, v), Asking(a, fs, v, c),
         NEW f \in Frame, f.row = rows[c], f.from # "dropped", f.j = 0,
         rows[c] # Unknown, rows[c].kind = "joint",
         NEW gs, gs = Append(fs, f)
  PROVE  /\ gs \in Seq(Frame) /\ Walk(rows, a, gs, v) /\ LegsOpen(gs, v)
<1>1. /\ Len(fs) \in Nat /\ DOMAIN fs = 1..Len(fs)
      /\ \A k \in 1..Len(fs) : fs[k] \in Frame /\ fs[k].j \in Nat
      /\ fs # <<>> <=> Len(fs) >= 1
  BY FramesTyped
<1>2. /\ gs \in Seq(Frame) /\ Len(gs) = Len(fs) + 1
      /\ \A k \in 1..Len(fs) : gs[k] = fs[k]
      /\ gs[Len(fs) + 1] = f
  BY AppendProperties
<1>3. ASSUME NEW k \in 1..Len(fs) PROVE Entered(rows, a, gs, v, k)
  <2>1. Entered(rows, a, fs, v, k)
    BY DEF Walk
  <2>2. k < Len(gs) => fs[k].j >= 1
    <3>1. k < Len(fs) => fs[k].j >= 1
      BY <2>1 DEF Entered
    <3>2. k = Len(fs) => fs[k].j >= 1
      BY <1>1 DEF Asking
    <3>3. k < Len(fs) \/ k = Len(fs)
      <4>1. PICK L \in Nat : L = Len(fs)
        BY <1>1
      <4>2. k \in 1..L
        BY <4>1
      <4>3. QED
        BY <4>1, <4>2
    <3>4. QED
      BY <3>1, <3>2, <3>3
  <2>3. k \in Nat /\ k >= 1 /\ gs[k] = fs[k] /\ (k > 1 => gs[k-1] = fs[k-1])
    BY <1>1, <1>2
  <2>4. QED
    BY <2>1, <2>2, <2>3, EnteredStays
<1>4. Entered(rows, a, gs, v, Len(fs) + 1)
  <2>1. At(a, gs, Len(fs) + 1) = c
    <3>1. PICK L \in Nat : L = Len(fs)
      BY <1>1
    <3>2. L # 0 => gs[L] = fs[L]
      BY <1>2, <3>1
    <3>3. QED
      BY <3>1, <3>2 DEF At, Asking
  <2>2. Len(rows[c].legs) \in Nat
    BY RowTyped
  <2>3. QED
    BY <1>1, <1>2, <2>1, <2>2 DEF Entered, Asking
<1>5. Walk(rows, a, gs, v)
  BY <1>1, <1>2, <1>3, <1>4 DEF Walk
<1>6. LegsOpen(gs, v)
  <2>1. gs # <<>>
    BY <1>1, <1>2, FramesTyped
  <2>2. gs[Len(gs)].j = 0
    BY <1>1, <1>2
  <2>3. QED
    BY <2>1, <2>2 DEF LegsOpen
<1>7. QED
  BY <1>2, <1>5, <1>6

\* What is known of the innermost joint calendar.
LEMMA Innermost ==
  ASSUME NEW rows \in [Cals -> Rows \cup {Unknown}],
         NEW a, NEW fs \in Seq(Frame), NEW v, Walk(rows, a, fs, v), LegsOpen(fs, v),
         NEW c, c = At(a, fs, Len(fs)), NEW f, f = fs[Len(fs)]
  PROVE  /\ Len(fs) \in Nat /\ Len(fs) >= 1 /\ f \in Frame /\ f.j \in Nat /\ f.from # "dropped"
         /\ c \in Cals /\ rows[c] # Unknown /\ rows[c].kind = "joint" /\ f.row = rows[c]
         /\ Len(rows[c].legs) \in Nat /\ f.j <= Len(rows[c].legs)
         /\ \A i \in 1..f.j : v[rows[c].legs[i]] = "open"
         /\ Carries(v, a, c)
<1>1. Len(fs) \in Nat /\ Len(fs) >= 1 /\ f \in Frame /\ f.j \in Nat
  BY FramesTyped DEF LegsOpen
<1>2. Entered(rows, a, fs, v, Len(fs))
  BY <1>1 DEF Walk
<1>3. /\ c \in Cals /\ rows[c] # Unknown /\ rows[c].kind = "joint" /\ f.row = rows[c]
      /\ f.from # "dropped" /\ f.j <= Len(rows[c].legs) /\ Carries(v, a, c)
      /\ \A i \in 1..f.j-1 : v[rows[c].legs[i]] = "open"
  BY <1>2 DEF Entered
<1>4. Len(rows[c].legs) \in Nat
  BY <1>3, RowTyped
<1>5. f.j >= 1 => v[rows[c].legs[f.j]] = "open"
  BY <1>3 DEF LegsOpen
<1>6. QED
  BY <1>1, <1>3, <1>4, <1>5

\* On to the next leg.
LEMMA WalkOn ==
  ASSUME NEW rows \in [Cals -> Rows \cup {Unknown}],
         NEW a, NEW fs \in Seq(Frame), NEW v, Agrees(rows, v), Walk(rows, a, fs, v), LegsOpen(fs, v),
         NEW f, f = fs[Len(fs)], f.j < Len(f.row.legs),
         NEW gs, gs = [fs EXCEPT ![Len(fs)].j = fs[Len(fs)].j + 1]
  PROVE  /\ gs \in Seq(Frame) /\ Walk(rows, a, gs, v) /\ Asking(a, gs, v, f.row.legs[f.j + 1])
<1>1. PICK c : c = At(a, fs, Len(fs))
  OBVIOUS
<1>2. /\ Len(fs) \in Nat /\ Len(fs) >= 1 /\ f \in Frame /\ f.j \in Nat /\ f.from # "dropped"
      /\ c \in Cals /\ rows[c] # Unknown /\ rows[c].kind = "joint" /\ f.row = rows[c]
      /\ Len(rows[c].legs) \in Nat /\ f.j <= Len(rows[c].legs)
      /\ \A i \in 1..f.j : v[rows[c].legs[i]] = "open"
      /\ Carries(v, a, c)
  BY <1>1, Innermost
<1>3. PICK L \in Nat : L = Len(fs) /\ L >= 1
  BY <1>2
<1>4. DOMAIN fs = 1..L /\ \A k \in 1..L : fs[k] \in Frame
  BY <1>3, FramesTyped
<1>5. PICK g : g = [f EXCEPT !.j = @ + 1]
  OBVIOUS
<1>6. g \in Frame /\ g.row = f.row /\ g.from = f.from /\ g.j = f.j + 1
  <2>1. f \in Frame /\ f.j + 1 \in Nat
    BY <1>2
  <2>2. g = [f EXCEPT !.j = f.j + 1]
    BY <1>5
  <2>3. QED
    BY <2>1, <2>2 DEF Frame
<1>7. gs = [fs EXCEPT ![L] = g]
  BY <1>3, <1>5
<1>8. gs \in Seq(Frame) /\ Len(gs) = L /\ gs[L] = g /\ \A k \in 1..L-1 : gs[k] = fs[k]
  <2>1. gs \in [1..L -> Frame]
    BY <1>4, <1>6, <1>7
  <2>2. gs \in Seq(Frame) /\ Len(gs) = L
    BY <2>1, <1>3, SeqDef, LenProperties
  <2>3. QED
    BY <1>3, <1>4, <1>7, <2>2
<1>9. At(a, gs, L) = c
  <2>1. L # 1 => gs[L-1] = fs[L-1]
    BY <1>3, <1>8
  <2>2. QED
    BY <1>1, <1>3, <2>1 DEF At
<1>10. ASSUME NEW k \in 1..L-1 PROVE Entered(rows, a, gs, v, k)
  <2>1. Entered(rows, a, fs, v, k)
    BY <1>3 DEF Walk
  <2>2. fs[k].j >= 1
    BY <1>3, <2>1 DEF Entered
  <2>3. k \in Nat /\ k >= 1 /\ gs[k] = fs[k] /\ (k > 1 => gs[k-1] = fs[k-1])
    BY <1>3, <1>8
  <2>4. QED
    BY <2>1, <2>2, <2>3, EnteredStays
<1>11. Entered(rows, a, gs, v, L)
  <2>1. \A i \in 1..g.j-1 : v[rows[c].legs[i]] = "open"
    BY <1>2, <1>6
  <2>2. g.j <= Len(rows[c].legs) /\ g.row = rows[c] /\ g.from # "dropped"
    BY <1>2, <1>6
  <2>3. gs[L] = g /\ ~(L < Len(gs))
    BY <1>3, <1>8
  <2>4. QED
    BY <1>2, <1>9, <2>1, <2>2, <2>3 DEF Entered
<1>12. Walk(rows, a, gs, v)
  <2>1. a \in Cals
    BY DEF Walk
  <2>2. Len(gs) = L /\ \A k \in 1..L : k \in 1..L-1 \/ k = L
    BY <1>3, <1>8
  <2>3. QED
    BY <1>10, <1>11, <2>1, <2>2 DEF Walk
<1>13. Asking(a, gs, v, f.row.legs[f.j + 1])
  <2>1. PICK d : d = rows[c].legs[f.j + 1]
    OBVIOUS
  <2>2. f.j + 1 \in 1..Len(rows[c].legs)
    BY <1>2
  <2>3. d \in Cals
    BY <1>2, <2>1, <2>2, RowTyped
  <2>4. v[d] # "open" => v[c] = v[d]
    <3> SUFFICES ASSUME v[d] # "open" PROVE v[c] = v[d]
      OBVIOUS
    <3>1. \A i \in 1..(f.j + 1)-1 : v[rows[c].legs[i]] = "open"
      BY <1>2
    <3>2. Answer(rows, c, v) = v[d]
      <4>1. PICK j \in 1..Len(rows[c].legs) : j = f.j + 1
        BY <2>2
      <4>2. v[rows[c].legs[j]] # "open" /\ \A i \in 1..j-1 : v[rows[c].legs[i]] = "open"
        BY <2>1, <3>1, <4>1
      <4>3. c \in Cals /\ rows[c] # Unknown /\ rows[c].kind = "joint"
        BY <1>2
      <4>4. Answer(rows, c, v) = v[rows[c].legs[j]]
        BY <4>2, <4>3, AnswerOfStop, Zenon
      <4>5. QED
        BY <2>1, <4>1, <4>4
    <3>3. v[c] = Answer(rows, c, v)
      BY <1>2 DEF Agrees
    <3>4. QED
      BY <3>2, <3>3
  <2>5. Carries(v, a, d)
    BY <1>2, <2>4 DEF Carries
  <2>6. d = At(a, gs, L + 1)
    BY <1>2, <1>3, <1>6, <1>8, <2>1 DEF At
  <2>7. gs[L].j >= 1
    BY <1>2, <1>6, <1>8
  <2>8. QED
    BY <1>2, <1>8, <2>1, <2>3, <2>5, <2>6, <2>7 DEF Asking
<1>14. QED
  BY <1>8, <1>12, <1>13

\* And back out of it, with every leg open.
LEMMA WalkOut ==
  ASSUME NEW rows \in [Cals -> Rows \cup {Unknown}],
         NEW a, NEW fs \in Seq(Frame), NEW v, Agrees(rows, v), Walk(rows, a, fs, v), LegsOpen(fs, v),
         NEW f, f = fs[Len(fs)], f.j = Len(f.row.legs),
         NEW gs, gs = SubSeq(fs, 1, Len(fs) - 1)
  PROVE  /\ gs \in Seq(Frame) /\ Walk(rows, a, gs, v)
         /\ Rests(a, gs, v, "open")
<1>1. PICK c : c = At(a, fs, Len(fs))
  OBVIOUS
<1>2. /\ Len(fs) \in Nat /\ Len(fs) >= 1 /\ f \in Frame /\ f.j \in Nat /\ f.from # "dropped"
      /\ c \in Cals /\ rows[c] # Unknown /\ rows[c].kind = "joint" /\ f.row = rows[c]
      /\ Len(rows[c].legs) \in Nat /\ f.j <= Len(rows[c].legs)
      /\ \A i \in 1..f.j : v[rows[c].legs[i]] = "open"
      /\ Carries(v, a, c)
  BY <1>1, Innermost
<1>3. PICK L \in Nat : L = Len(fs) /\ L >= 1
  BY <1>2
<1>4. DOMAIN fs = 1..L /\ \A k \in 1..L : fs[k] \in Frame
  BY <1>3, FramesTyped
<1>5. gs \in Seq(Frame) /\ Len(gs) = L - 1 /\ \A k \in 1..L-1 : gs[k] = fs[k]
  BY <1>3, <1>4, SubSeqProperties
<1>6. ASSUME NEW k \in 1..L-1 PROVE Entered(rows, a, gs, v, k) /\ fs[k].j >= 1
  <2>1. Entered(rows, a, fs, v, k)
    BY <1>3 DEF Walk
  <2>2. fs[k].j >= 1
    BY <1>3, <2>1 DEF Entered
  <2>3. k \in Nat /\ k >= 1 /\ gs[k] = fs[k] /\ (k > 1 => gs[k-1] = fs[k-1])
    BY <1>3, <1>5
  <2>4. QED
    BY <2>1, <2>2, <2>3, EnteredStays
<1>7. Walk(rows, a, gs, v)
  BY <1>3, <1>5, <1>6 DEF Walk
<1>8. v[c] = "open"
  <2>1. \A i \in 1..Len(rows[c].legs) : v[rows[c].legs[i]] = "open"
    BY <1>2
  <2>2. Answer(rows, c, v) = "open"
    BY <1>2, <2>1, AnswerOfJoint
  <2>3. QED
    BY <1>2, <2>2 DEF Agrees
<1>9. Asking(a, gs, v, c)
  <2>1. c = At(a, gs, L)
    <3>1. L # 1 => gs[L-1] = fs[L-1]
      BY <1>3, <1>5
    <3>2. QED
      BY <1>1, <1>3, <3>1 DEF At
  <2>2. gs # <<>> => gs[L-1].j >= 1
    <3>1. gs # <<>> => L - 1 \in 1..L-1
      BY <1>3, <1>5, FramesTyped
    <3>2. QED
      BY <1>5, <1>6, <3>1
  <2>3. Len(gs) + 1 = L
    BY <1>3, <1>5
  <2>4. QED
    BY <1>2, <1>5, <2>1, <2>2, <2>3 DEF Asking
<1>10. QED
  BY <1>2, <1>5, <1>7, <1>8, <1>9 DEF Rests

----------------------------------------------------------------------------
(* The invariant.                                                          *)

IsWeekday(rows, k) == rows[k] # Unknown /\ rows[k].kind = "weekday"

\* A query that is at a leg has a joint calendar to be in; only the thread that fills the
\* cache goes through joint calendars for it, under the generation of its key.
Shaped(g, cg, own, s) ==
    /\ s.g <= g
    /\ s.pc = "leg" => IF own THEN s.inner # <<>> ELSE s.frames # <<>>
    /\ ~own => s.inner = <<>>
    /\ own => /\ s.g = cg /\ s.key \in Cals
              /\ s.pc \in {"lookup", "scan", "row", "leg", "insert"}
    /\ s.pc = "insert" => own /\ s.inner = <<>>
    /\ s.pc \in {"lookup", "scan", "row"} => s.cal \in Cals
    /\ s.pc \in {"probe", "acquire", "read"} => s.key \in Cals

\* The bitmaps of the rows' own generation say what the rows say.
CacheTrue(rows, c) ==
    \A k \in Cals : c[k] # Unknown /\ IsWeekday(rows, k) => c[k] = rows[k].open

\* A thread that fills the cache for a weekday looks up that calendar and no other.
Filling(rows, s) ==
    IsWeekday(rows, s.key) =>
        /\ s.inner = <<>> /\ s.pc # "leg"
        /\ s.pc \in {"lookup", "scan", "row"} => s.cal = s.key /\ s.bit = TRUE
        /\ s.pc = "row" => s.view.row = rows[s.key] /\ s.view.from # "dropped"
        /\ s.pc = "insert" => s.bit = rows[s.key].open

\* A query that the rows have not changed under is on its way to v's answer.
AtCache(own, s) == own \/ s.pc \in {"probe", "acquire", "read"}
Faithful(rows, g, own, s, v) ==
    /\ s.asked \in Cals
    /\ s.pc = "idle" => s.ans = v[s.asked]
    /\ s.pc # "idle" => Walk(rows, s.asked, s.frames, v)
    /\ s.pc = "leg" /\ ~own => LegsOpen(s.frames, v)
    /\ s.pc \in {"lookup", "scan", "row"} /\ ~own => Asking(s.asked, s.frames, v, s.cal)
    /\ s.pc = "row" /\ ~own => s.view.row = rows[s.cal] /\ s.view.from # "dropped"
    /\ AtCache(own, s) => /\ Asking(s.asked, s.frames, v, s.key)
                          /\ IsWeekday(rows, s.key) /\ s.g = g
    /\ s.pc = "read" /\ s.ref.held => s.ref.bit = rows[s.key].open

Settled == apply.pc \notin {"count", "bump"}

ShapeInv ==
    /\ gen \in Nat /\ cacheGen \in 0..gen
    /\ cache \in [Cals -> BOOLEAN \cup {Unknown}] /\ filler \in Threads \cup {None}
    /\ r \in [Threads -> Queries]
    /\ \A t \in Threads : Shaped(gen, cacheGen, filler = t, r[t])
QuietInv == apply.pc # "idle" => \A t \in Threads : ~r[t].quiet
CacheInv == Settled /\ cacheGen = gen => CacheTrue(RowsNow, cache)
FillInv  == \A t \in Threads : Settled /\ filler = t /\ r[t].g = gen => Filling(RowsNow, r[t])
AnswerInv ==
    \A t \in Threads : r[t].quiet /\ ~r[t].stray =>
        \A v \in [Cals -> Answers] :
            Agrees(RowsNow, v) => Faithful(RowsNow, gen, filler = t, r[t], v)
QueryInv == ShapeInv /\ QuietInv /\ CacheInv /\ FillInv /\ AnswerInv
RegistryInv == OverlayInv /\ QueryInv

----------------------------------------------------------------------------
(* A step of one thread.                                                   *)

\* Another thread's query: at most its reference into the cache is lost.
SameBut(a, b) ==
    /\ b.pc = a.pc /\ b.cal = a.cal /\ b.view = a.view /\ b.frames = a.frames /\ b.inner = a.inner
    /\ b.key = a.key /\ b.g = a.g /\ b.bit = a.bit /\ b.asked = a.asked /\ b.ans = a.ans
    /\ b.quiet = a.quiet /\ b.stray = a.stray
    /\ b.ref.held => b.ref = a.ref

LEMMA SameShaped ==
  ASSUME NEW a, NEW b, SameBut(a, b), NEW g, NEW cg, NEW own, Shaped(g, cg, own, a)
  PROVE  Shaped(g, cg, own, b)
  BY DEF SameBut, Shaped

LEMMA SameFilling ==
  ASSUME NEW a, NEW b, SameBut(a, b), NEW rows, Filling(rows, a)
  PROVE  Filling(rows, b)
  BY DEF SameBut, Filling

LEMMA SameFaithful ==
  ASSUME NEW a, NEW b, SameBut(a, b), NEW rows, NEW g, NEW own, NEW v, Faithful(rows, g, own, a, v)
  PROVE  Faithful(rows, g, own, b, v)
<1>1. /\ b.pc = a.pc /\ b.cal = a.cal /\ b.view = a.view /\ b.frames = a.frames
      /\ b.key = a.key /\ b.g = a.g /\ b.asked = a.asked /\ b.ans = a.ans
      /\ b.ref.held => b.ref = a.ref
  BY DEF SameBut
<1>2. AtCache(own, b) = AtCache(own, a)
  BY <1>1 DEF AtCache
<1>3. QED
  BY <1>1, <1>2 DEF Faithful

\* What a thread may leave of the cache and of its own query.
Left(t, s) ==
    /\ s \in Queries /\ Shaped(gen, cacheGen', filler' = t, s)
    /\ s.quiet => apply.pc = "idle"
    /\ Settled /\ filler' = t /\ s.g = gen => Filling(RowsNow, s)
    /\ s.quiet /\ ~s.stray =>
           \A v \in [Cals -> Answers] :
               Agrees(RowsNow, v) => Faithful(RowsNow, gen, filler' = t, s, v)
LeftCache(t) ==
    /\ filler' \in Threads \cup {None} /\ \A u \in Threads \ {t} : (filler' = u) = (filler = u)
    /\ cache' \in [Cals -> BOOLEAN \cup {Unknown}] /\ cacheGen' \in 0..gen
    /\ \A u \in Threads \ {t} : filler = u => cacheGen' = cacheGen
    /\ Settled /\ cacheGen' = gen => CacheTrue(RowsNow, cache')

LEMMA ThreadMoves ==
  ASSUME RegistryInv, NEW t \in Threads, UNCHANGED <<overlayVars, n, gen, apply>>,
         NEW s, Left(t, s), LeftCache(t),
         r' \in [Threads -> Queries], r'[t] = s, \A u \in Threads \ {t} : SameBut(r[u], r'[u])
  PROVE  RegistryInv'
<1>1. OverlayInv'
  BY QueriesOnlyRead DEF RegistryInv
<1>2. RowsNow' = RowsNow /\ Settled' = Settled /\ gen' = gen
  BY DEF RowsNow, Current, Overlaid, Settled, overlayVars
<1>3. ASSUME NEW u \in Threads, u # t
      PROVE  /\ (filler' = u) = (filler = u) /\ SameBut(r[u], r'[u]) /\ (filler = u => cacheGen' = cacheGen)
             /\ Shaped(gen, cacheGen, filler = u, r[u])
  <2>1. u \in Threads \ {t}
    BY <1>3
  <2>2. (filler' = u) = (filler = u)
    BY <2>1, Zenon DEF LeftCache
  <2>3. filler = u => cacheGen' = cacheGen
    BY <2>1, Zenon DEF LeftCache
  <2>4. Shaped(gen, cacheGen, filler = u, r[u])
    BY DEF RegistryInv, QueryInv, ShapeInv
  <2>5. QED
    BY <2>1, <2>2, <2>3, <2>4
<1>4. ShapeInv'
  <2>1. ASSUME NEW u \in Threads PROVE Shaped(gen, cacheGen', filler' = u, r'[u])
    <3>1. CASE u = t
      BY <3>1 DEF Left
    <3>2. CASE u # t
      <4>1. Shaped(gen, cacheGen, filler = u, r'[u])
        BY <1>3, <3>2, SameShaped
      <4>2. CASE filler = u
        BY <1>3, <3>2, <4>1, <4>2
      <4>3. CASE filler # u
        BY <1>3, <3>2, <4>1, <4>3 DEF Shaped
      <4>4. QED
        BY <4>2, <4>3
    <3>3. QED
      BY <3>1, <3>2
  <2>2. gen \in Nat
    BY DEF RegistryInv, QueryInv, ShapeInv
  <2>3. QED
    BY <1>2, <2>1, <2>2 DEF ShapeInv, LeftCache
<1>5. QuietInv'
  <2>1. ASSUME NEW u \in Threads, apply.pc # "idle" PROVE ~r'[u].quiet
    <3>1. CASE u = t
      BY <2>1, <3>1 DEF Left
    <3>2. CASE u # t
      BY <1>3, <2>1, <3>2 DEF RegistryInv, QueryInv, QuietInv, SameBut
    <3>3. QED
      BY <3>1, <3>2
  <2>2. QED
    BY <2>1 DEF QuietInv
<1>6. CacheInv'
  BY <1>2 DEF CacheInv, LeftCache
<1>7. FillInv'
  <2>1. ASSUME NEW u \in Threads, Settled, filler' = u, r'[u].g = gen PROVE Filling(RowsNow, r'[u])
    <3>1. CASE u = t
      BY <2>1, <3>1 DEF Left
    <3>2. CASE u # t
      <4>1. filler = u /\ r[u].g = gen
        BY <1>3, <2>1, <3>2 DEF SameBut
      <4>2. Filling(RowsNow, r[u])
        BY <2>1, <4>1 DEF RegistryInv, QueryInv, FillInv
      <4>3. QED
        BY <1>3, <3>2, <4>2, SameFilling
    <3>3. QED
      BY <3>1, <3>2
  <2>2. QED
    BY <1>2, <2>1 DEF FillInv
<1>8. AnswerInv'
  <2>1. ASSUME NEW u \in Threads, r'[u].quiet, ~r'[u].stray, NEW v \in [Cals -> Answers], Agrees(RowsNow, v)
        PROVE  Faithful(RowsNow, gen, filler' = u, r'[u], v)
    <3>1. CASE u = t
      BY <2>1, <3>1 DEF Left
    <3>2. CASE u # t
      <4>1. r[u].quiet /\ ~r[u].stray
        BY <1>3, <2>1, <3>2 DEF SameBut
      <4>2. Faithful(RowsNow, gen, filler = u, r[u], v)
        BY <2>1, <4>1 DEF RegistryInv, QueryInv, AnswerInv
      <4>3. Faithful(RowsNow, gen, filler = u, r'[u], v)
        BY <1>3, <3>2, <4>2, SameFaithful
      <4>4. (filler' = u) = (filler = u)
        BY <1>3, <3>2
      <4>5. QED
        BY <4>3, <4>4
    <3>3. QED
      BY <3>1, <3>2
  <2>2. QED
    BY <1>2, <2>1 DEF AnswerInv
<1>9. QED
  BY <1>1, <1>4, <1>5, <1>6, <1>7, <1>8 DEF RegistryInv, QueryInv

\* Most steps touch nothing but the thread's own query.
LEMMA LocalMoves ==
  ASSUME RegistryInv, NEW t \in Threads, UNCHANGED <<overlayVars, n, gen, apply, cacheVars>>,
         NEW s, Left(t, s), r' = [r EXCEPT ![t] = s]
  PROVE  RegistryInv'
<1>1. r \in [Threads -> Queries] /\ s \in Queries
  BY DEF RegistryInv, QueryInv, ShapeInv, Left
<1>2. r' \in [Threads -> Queries] /\ r'[t] = s /\ \A u \in Threads \ {t} : r'[u] = r[u]
  BY <1>1
<1>3. \A u \in Threads \ {t} : SameBut(r[u], r'[u])
  BY <1>2 DEF SameBut
<1>4. LeftCache(t)
  BY DEF LeftCache, cacheVars, RegistryInv, QueryInv, ShapeInv, CacheInv
<1>5. UNCHANGED <<overlayVars, n, gen, apply>>
  OBVIOUS
<1>6. QED
  BY <1>2, <1>3, <1>4, <1>5, ThreadMoves

----------------------------------------------------------------------------
(* How a query ends, or goes on to the next leg.                           *)

\* The answers of a query on its way through joint calendars rest on one calendar's.
Resting(rows, s, v, w) ==
    /\ Walk(rows, s.asked, s.frames, v)
    /\ Rests(s.asked, s.frames, v, w)

LEMMA FinishedFaithful ==
  ASSUME NEW rows, NEW g, NEW s \in Queries, NEW w \in Answers, NEW v, s.quiet,
         s.asked \in Cals, v[s.asked] = w, NEW e, e = Finished(s, w)
  PROVE  Faithful(rows, g, FALSE, e, v)
<1>1. e.pc = "idle" /\ e.asked = s.asked /\ e.ans = w
  BY FinishedTyped
<1>2. QED
  BY <1>1 DEF Faithful, AtCache

LEMMA FinishedShaped ==
  ASSUME NEW g \in Nat, NEW cg, NEW s \in Queries, NEW w \in Answers, NEW e, e = Finished(s, w)
  PROVE  e \in Queries /\ Shaped(g, cg, FALSE, e)
<1>1. e \in Queries /\ e.pc = "idle" /\ e.inner = <<>> /\ e.g = 0
  BY FinishedTyped
<1>2. QED
  BY <1>1 DEF Shaped

LEMMA ResumedFaithful ==
  ASSUME NEW rows, NEW g, NEW s \in Queries, NEW v,
         Walk(rows, s.asked, s.frames, v), LegsOpen(s.frames, v), NEW e, e = Resumed(s)
  PROVE  Faithful(rows, g, FALSE, e, v)
<1>1. e.pc = "leg" /\ e.asked = s.asked /\ e.frames = s.frames
  BY ResumedTyped
<1>2. s.asked \in Cals
  BY DEF Walk
<1>3. QED
  BY <1>1, <1>2 DEF Faithful, AtCache

LEMMA ResumedShaped ==
  ASSUME NEW g \in Nat, NEW cg, NEW s \in Queries, s.frames # <<>>, NEW e, e = Resumed(s)
  PROVE  e \in Queries /\ Shaped(g, cg, FALSE, e)
<1>1. e \in Queries /\ e.pc = "leg" /\ e.inner = <<>> /\ e.g = 0 /\ e.frames = s.frames
  BY ResumedTyped
<1>2. QED
  BY <1>1 DEF Shaped

LEMMA Settling ==
  ASSUME NEW rows, NEW g \in Nat, NEW cg, NEW s \in Queries, NEW w \in Answers, NEW e, e = Settle(s, w)
  PROVE  /\ e \in Queries /\ Shaped(g, cg, FALSE, e) /\ e.quiet = s.quiet /\ (e.quiet => e.stray = s.stray)
         /\ s.quiet => \A v : Resting(rows, s, v, w) => Faithful(rows, g, FALSE, e, v)
<1>1. CASE w # "open" \/ s.frames = <<>>
  <2>1. e = Finished(s, w)
    BY <1>1 DEF Settle
  <2>2. e \in Queries /\ Shaped(g, cg, FALSE, e)
    BY <2>1, FinishedShaped
  <2>3. e.quiet = s.quiet /\ (s.quiet => e.stray = s.stray)
    BY <2>1, FinishedTyped
  <2>4. ASSUME s.quiet, NEW v, Resting(rows, s, v, w) PROVE Faithful(rows, g, FALSE, e, v)
    <3>1. PICK c \in Cals : Asking(s.asked, s.frames, v, c) /\ v[c] = w
      BY <2>4 DEF Resting, Rests
    <3>2. s.asked \in Cals
      BY <2>4 DEF Resting, Walk
    <3>3. v[s.asked] = w
      <4>1. CASE w # "open"
        BY <3>1, <4>1 DEF Asking, Carries
      <4>2. CASE s.frames = <<>>
        <5>1. c = s.asked
          BY <3>1, <4>2, FramesTyped DEF Asking, At, Queries
        <5>2. QED
          BY <3>1, <5>1
      <4>3. QED
        BY <1>1, <4>1, <4>2
    <3>4. QED
      BY <2>1, <2>4, <3>2, <3>3, FinishedFaithful
  <2>5. QED
    BY <2>2, <2>3, <2>4
<1>2. CASE w = "open" /\ s.frames # <<>>
  <2>1. e = Resumed(s)
    BY <1>2 DEF Settle
  <2>2. e \in Queries /\ Shaped(g, cg, FALSE, e)
    BY <1>2, <2>1, ResumedShaped
  <2>3. e.quiet = s.quiet /\ e.stray = s.stray
    BY <2>1, ResumedTyped
  <2>4. ASSUME NEW v, Resting(rows, s, v, w) PROVE Faithful(rows, g, FALSE, e, v)
    <3>1. PICK c \in Cals : Asking(s.asked, s.frames, v, c) /\ v[c] = "open"
      BY <1>2, <2>4 DEF Resting, Rests
    <3>2. s.frames \in Seq(Frame)
      BY DEF Queries
    <3>3. LegsOpen(s.frames, v)
      BY <1>2, <3>1, <3>2, AskingStays
    <3>4. Walk(rows, s.asked, s.frames, v)
      BY <2>4 DEF Resting
    <3>5. QED
      BY <2>1, <3>3, <3>4, ResumedFaithful
  <2>5. QED
    BY <2>2, <2>3, <2>4
<1>3. QED
  BY <1>1, <1>2

----------------------------------------------------------------------------
(* The steps.                                                              *)

\* What the invariant says of one thread, and of what all share.
LEMMA Stands ==
  ASSUME RegistryInv, NEW t \in Threads
  PROVE  /\ r[t] \in Queries /\ Shaped(gen, cacheGen, filler = t, r[t])
         /\ r[t].quiet => apply.pc = "idle"
         /\ Settled /\ filler = t /\ r[t].g = gen => Filling(RowsNow, r[t])
         /\ r[t].quiet /\ ~r[t].stray =>
                \A v \in [Cals -> Answers] :
                    Agrees(RowsNow, v) => Faithful(RowsNow, gen, filler = t, r[t], v)
<1>1. r[t] \in Queries /\ Shaped(gen, cacheGen, filler = t, r[t])
  BY DEF RegistryInv, QueryInv, ShapeInv
<1>2. r[t].quiet => apply.pc = "idle"
  BY DEF RegistryInv, QueryInv, QuietInv
<1>3. Settled /\ filler = t /\ r[t].g = gen => Filling(RowsNow, r[t])
  BY DEF RegistryInv, QueryInv, FillInv
<1>4. r[t].quiet /\ ~r[t].stray =>
          \A v \in [Cals -> Answers] :
              Agrees(RowsNow, v) => Faithful(RowsNow, gen, filler = t, r[t], v)
  BY DEF RegistryInv, QueryInv, AnswerInv
<1>5. QED
  BY <1>1, <1>2, <1>3, <1>4

LEMMA Grounds ==
  ASSUME RegistryInv
  PROVE  /\ gen \in Nat /\ cacheGen \in 0..gen /\ r \in [Threads -> Queries]
         /\ filler \in Threads \cup {None} /\ cache \in [Cals -> BOOLEAN \cup {Unknown}]
         /\ cals \in Seq(OverlayRows) /\ RowsNow \in [Cals -> Rows \cup {Unknown}]
         /\ \A c \in Cals : RowsNow[c] = Current(c)
         /\ (Settled /\ n = 0) => \A c \in Cals : RowsNow[c] = Baked[c]
<1>1. cals \in Seq(OverlayRows) /\ indices \in Seq(Indices) /\ sources \in Seq(Indices)
  BY DEF RegistryInv, OverlayInv, ApplyInv
<1>2. \A c \in Cals : RowsNow[c] = Current(c)
  BY DEF RowsNow
<1>3. ASSUME Settled, n = 0 PROVE \A c \in Cals : RowsNow[c] = Baked[c]
  <2>1. Total = 0
    BY <1>3 DEF RegistryInv, OverlayInv, CountInv, Settled
  <2>2. Len(cals) \in Nat /\ Len(indices) \in Nat /\ Len(sources) \in Nat
    BY <1>1, LenProperties
  <2>3. Len(cals) = 0
    BY <2>1, <2>2 DEF Total
  <2>4. \A c \in Cals : Overlaid(c) = {}
    <3>1. DOMAIN cals = 1..0
      BY <1>1, <2>3, LenProperties
    <3>2. QED
      BY <3>1 DEF Overlaid
  <2>5. QED
    BY <1>2, <2>4 DEF Current
<1>4. QED
  BY <1>1, <1>2, <1>3, RowsNowTyped DEF RegistryInv, QueryInv, ShapeInv

LEMMA FreshWalk ==
  ASSUME NEW rows, NEW c \in Cals, NEW v
  PROVE  Walk(rows, c, <<>>, v) /\ Asking(c, <<>>, v, c)
<1>1. Len(<<>>) = 0
  BY EmptySeq
<1>2. Walk(rows, c, <<>>, v)
  BY <1>1 DEF Walk
<1>3. Asking(c, <<>>, v, c)
  BY <1>1 DEF Asking, At, Carries
<1>4. QED
  BY <1>2, <1>3

LEMMA QueryKeeps ==
  ASSUME RegistryInv, NEW t \in Threads, NEW c \in Cals, Query(t, c)
  PROVE  RegistryInv'
<1>1. PICK q \in Queries : q = NoQuery
  BY NoQueryTyped
<1>2. q.g = 0 /\ q.inner = <<>> /\ q.frames = <<>>
  BY <1>1 DEF NoQuery
<1>3. PICK b \in BOOLEAN : b = (apply.pc = "idle")
  OBVIOUS
<1>4. PICK s : s = [q EXCEPT !.pc = "lookup", !.cal = c, !.asked = c, !.quiet = b]
  OBVIOUS
<1>5. /\ s \in Queries /\ s.pc = "lookup" /\ s.cal = c /\ s.asked = c /\ s.quiet = b
      /\ s.frames = <<>> /\ s.inner = <<>> /\ s.g = 0
  BY <1>2, <1>4 DEF Queries, Steps
<1>6. r' = [r EXCEPT ![t] = s] /\ UNCHANGED <<overlayVars, n, gen, apply, cacheVars>>
  BY <1>1, <1>3, <1>4 DEF Query
<1>7. r[t].pc = "idle" /\ Shaped(gen, cacheGen, filler = t, r[t]) /\ gen \in Nat
  BY Stands, Grounds DEF Query
<1>8. filler # t /\ filler' # t /\ cacheGen' = cacheGen
  BY <1>6, <1>7 DEF Shaped, cacheVars
<1>9. Shaped(gen, cacheGen, FALSE, s)
  BY <1>5, <1>7 DEF Shaped
<1>10. ASSUME NEW v PROVE Faithful(RowsNow, gen, FALSE, s, v)
  BY <1>5, FreshWalk DEF Faithful, AtCache
<1>11. Left(t, s)
  <2>1. s.quiet => apply.pc = "idle"
    BY <1>3, <1>5
  <2>2. (filler' = t) = FALSE
    BY <1>8
  <2>3. QED
    BY <1>5, <1>8, <1>9, <1>10, <2>1, <2>2 DEF Left
<1>12. QED
  BY <1>6, <1>11, LocalMoves

\* A view of the row of the moment.
Views == [row : Rows \cup {Unknown}, from : Froms]

LEMMA Looks ==
  ASSUME RegistryInv, NEW t \in Threads, r[t].pc \in {"lookup", "scan"},
         UNCHANGED <<overlayVars, n, gen, apply, cacheVars>>,
         NEW w \in Views, Settled => w.row = RowsNow[r[t].cal] /\ w.from # "dropped",
         NEW s, s = [r[t] EXCEPT !.view = w, !.pc = "row"], r' = [r EXCEPT ![t] = s]
  PROVE  RegistryInv'
<1>1. PICK q \in Queries : q = r[t]
  BY Stands
<1>2. /\ s \in Queries /\ s.pc = "row" /\ s.view = w
      /\ s.cal = q.cal /\ s.frames = q.frames /\ s.inner = q.inner /\ s.key = q.key /\ s.g = q.g
      /\ s.bit = q.bit /\ s.ref = q.ref /\ s.asked = q.asked /\ s.quiet = q.quiet /\ s.stray = q.stray
  <2>1. s = [q EXCEPT !.view = w, !.pc = "row"] /\ w \in [row : Rows \cup {Unknown}, from : Froms]
    BY <1>1 DEF Views
  <2>2. "row" \in Steps
    BY DEF Steps
  <2>3. QED
    BY <2>1, <2>2 DEF Queries
<1>3. Shaped(gen, cacheGen, filler = t, q)
  BY <1>1, Stands
<1>4. filler' = filler /\ cacheGen' = cacheGen
  BY DEF cacheVars
<1>5. Shaped(gen, cacheGen, filler = t, s)
  BY <1>1, <1>2, <1>3 DEF Shaped
<1>6. s.quiet => apply.pc = "idle"
  BY <1>1, <1>2, Stands
<1>7. ASSUME Settled, filler = t, s.g = gen PROVE Filling(RowsNow, s)
  <2>1. Filling(RowsNow, q)
    BY <1>1, <1>2, <1>7, Stands
  <2>2. QED
    BY <1>1, <1>2, <1>7, <2>1 DEF Filling
<1>8. ASSUME s.quiet, ~s.stray, NEW v \in [Cals -> Answers], Agrees(RowsNow, v)
      PROVE  Faithful(RowsNow, gen, filler = t, s, v)
  <2>1. Faithful(RowsNow, gen, filler = t, q, v)
    BY <1>1, <1>2, <1>8, Stands
  <2>2. Settled
    BY <1>6, <1>8 DEF Settled
  <2>3. AtCache(filler = t, s) = AtCache(filler = t, q)
    BY <1>1, <1>2 DEF AtCache
  <2>4. QED
    BY <1>1, <1>2, <2>1, <2>2, <2>3 DEF Faithful
<1>9. Left(t, s)
  BY <1>2, <1>4, <1>5, <1>6, <1>7, <1>8 DEF Left
<1>10. QED
  BY <1>9, LocalMoves

LEMMA LoadCountKeeps ==
  ASSUME RegistryInv, NEW t \in Threads, LoadCount(t)
  PROVE  RegistryInv'
<1>1. r[t].pc = "lookup" /\ UNCHANGED <<overlayVars, n, gen, apply, cacheVars>>
  BY DEF LoadCount
<1>2. PICK q \in Queries : q = r[t]
  BY Stands
<1>3. Shaped(gen, cacheGen, filler = t, q)
  BY <1>2, Stands
<1>4. q.cal \in Cals
  BY <1>1, <1>2, <1>3 DEF Shaped
<1>5. CASE n = 0
  <2>1. PICK w : w = [row |-> Baked[q.cal], from |-> "baked"]
    OBVIOUS
  <2>2. w \in Views
    BY <1>4, <2>1, RegistryAssumption DEF RegistryAssumption, Views, Froms
  <2>3. Settled => w.row = RowsNow[q.cal] /\ w.from # "dropped"
    BY <1>4, <1>5, <2>1, Grounds
  <2>4. PICK s : s = [r[t] EXCEPT !.view = w, !.pc = "row"]
    OBVIOUS
  <2>5. r' = [r EXCEPT ![t] = s]
    BY <1>2, <1>5, <2>1, <2>4 DEF LoadCount
  <2>6. QED
    BY <1>1, <1>2, <2>2, <2>3, <2>4, <2>5, Looks
<1>6. CASE n # 0
  <2>1. PICK s : s = [q EXCEPT !.pc = "scan"]
    OBVIOUS
  <2>2. r' = [r EXCEPT ![t] = s]
    BY <1>2, <1>6, <2>1 DEF LoadCount
  <2>3. /\ s \in Queries /\ s.pc = "scan" /\ s.view = q.view
        /\ s.cal = q.cal /\ s.frames = q.frames /\ s.inner = q.inner /\ s.key = q.key /\ s.g = q.g
        /\ s.bit = q.bit /\ s.ref = q.ref /\ s.asked = q.asked /\ s.quiet = q.quiet /\ s.stray = q.stray
    BY <2>1 DEF Queries, Steps
  <2>4. filler' = filler /\ cacheGen' = cacheGen
    BY <1>1 DEF cacheVars
  <2>5. Shaped(gen, cacheGen, filler = t, s)
    BY <1>1, <1>2, <1>3, <2>3 DEF Shaped
  <2>6. s.quiet => apply.pc = "idle"
    BY <1>2, <2>3, Stands
  <2>7. ASSUME Settled, filler = t, s.g = gen PROVE Filling(RowsNow, s)
    <3>1. Filling(RowsNow, q)
      BY <1>2, <2>3, <2>7, Stands
    <3>2. QED
      BY <1>1, <1>2, <2>3, <3>1 DEF Filling
  <2>8. ASSUME s.quiet, ~s.stray, NEW v \in [Cals -> Answers], Agrees(RowsNow, v)
        PROVE  Faithful(RowsNow, gen, filler = t, s, v)
    <3>1. Faithful(RowsNow, gen, filler = t, q, v)
      BY <1>2, <2>3, <2>8, Stands
    <3>2. AtCache(filler = t, s) = AtCache(filler = t, q)
      BY <1>1, <1>2, <2>3 DEF AtCache
    <3>3. QED
      BY <1>1, <1>2, <2>3, <3>1, <3>2 DEF Faithful
  <2>9. Left(t, s)
    BY <2>3, <2>4, <2>5, <2>6, <2>7, <2>8 DEF Left
  <2>10. QED
    BY <1>1, <2>2, <2>9, LocalMoves
<1>7. QED
  BY <1>5, <1>6

LEMMA ScanOverlayKeeps ==
  ASSUME RegistryInv, NEW t \in Threads, ScanOverlay(t)
  PROVE  RegistryInv'
<1>1. r[t].pc = "scan" /\ UNCHANGED <<overlayVars, n, gen, apply, cacheVars>>
  BY DEF ScanOverlay
<1>2. PICK q \in Queries : q = r[t]
  BY Stands
<1>3. Shaped(gen, cacheGen, filler = t, q)
  BY <1>2, Stands
<1>4. q.cal \in Cals
  BY <1>1, <1>2, <1>3 DEF Shaped
<1>5. PICK w : w = [row |-> Current(q.cal), from |-> IF Overlaid(q.cal) = {} THEN "baked" ELSE "overlay"]
  OBVIOUS
<1>6. w.row = RowsNow[q.cal] /\ w.from # "dropped" /\ w.from \in Froms
  BY <1>4, <1>5, Grounds DEF Froms
<1>7. w \in Views
  <2>1. Current(q.cal) \in Rows \cup {Unknown}
    BY <1>4, Grounds, CurrentTyped
  <2>2. QED
    BY <1>5, <2>1 DEF Views, Froms
<1>8. PICK s : s = [r[t] EXCEPT !.view = w, !.pc = "row"]
  OBVIOUS
<1>9. r' = [r EXCEPT ![t].view = w, ![t].pc = "row"]
  BY <1>2, <1>5, Zenon DEF ScanOverlay
<1>10. r' = [r EXCEPT ![t] = s]
  <2>1. r \in [Threads -> Queries]
    BY Grounds
  <2>2. QED
    BY <1>8, <1>9, <2>1
<1>11. QED
  BY <1>1, <1>2, <1>6, <1>7, <1>8, <1>10, Looks

LEMMA NobodyIsNone == None \notin Threads
  BY RegistryAssumption DEF RegistryAssumption

\* An exception unwinds the query, and with it the cache's lock.
LEMMA Throws ==
  ASSUME RegistryInv, NEW t \in Threads, UNCHANGED <<overlayVars, n, gen, apply, cache, cacheGen>>,
         filler' = IF filler = t THEN None ELSE filler,
         NEW x \in Queries, r' = [r EXCEPT ![t] = Finished(x, "threw")],
         x.quiet => apply.pc = "idle",
         x.quiet /\ ~x.stray =>
             \A v \in [Cals -> Answers] : Agrees(RowsNow, v) => x.asked \in Cals /\ v[x.asked] = "threw"
  PROVE  RegistryInv'
<1>1. PICK s : s = Finished(x, "threw")
  OBVIOUS
<1>2. "threw" \in Answers
  BY DEF Answers
<1>3. gen \in Nat /\ r \in [Threads -> Queries] /\ filler \in Threads \cup {None}
      /\ cacheGen \in 0..gen /\ cache \in [Cals -> BOOLEAN \cup {Unknown}]
  BY Grounds
<1>4. s \in Queries /\ Shaped(gen, cacheGen, FALSE, s)
  BY <1>1, <1>2, <1>3, FinishedShaped
<1>5. s.quiet = x.quiet /\ (x.quiet => s.stray = x.stray)
  BY <1>1, <1>2, FinishedTyped
<1>6. (filler' = t) = FALSE
  BY NobodyIsNone
<1>7. ASSUME s.quiet, ~s.stray, NEW v \in [Cals -> Answers], Agrees(RowsNow, v)
      PROVE  Faithful(RowsNow, gen, FALSE, s, v)
  <2>1. x.asked \in Cals /\ v[x.asked] = "threw" /\ x.quiet
    BY <1>5, <1>7
  <2>2. QED
    BY <1>1, <1>2, <2>1, FinishedFaithful
<1>8. Left(t, s)
  BY <1>4, <1>5, <1>6, <1>7 DEF Left
<1>9. LeftCache(t)
  <2>1. ASSUME NEW u \in Threads \ {t} PROVE (filler' = u) = (filler = u)
    BY <2>1, NobodyIsNone
  <2>2. filler' \in Threads \cup {None}
    BY <1>3
  <2>3. Settled /\ cacheGen' = gen => CacheTrue(RowsNow, cache')
    BY DEF RegistryInv, QueryInv, CacheInv
  <2>4. QED
    BY <1>3, <2>1, <2>2, <2>3 DEF LeftCache
<1>10. r' \in [Threads -> Queries] /\ r'[t] = s /\ \A u \in Threads \ {t} : SameBut(r[u], r'[u])
  <2>1. r' = [r EXCEPT ![t] = s]
    BY <1>1
  <2>2. r' \in [Threads -> Queries] /\ r'[t] = s /\ \A u \in Threads \ {t} : r'[u] = r[u]
    BY <1>3, <1>4, <2>1
  <2>3. QED
    BY <2>2 DEF SameBut
<1>11. QED
  BY <1>8, <1>9, <1>10, ThreadMoves

LEMMA SettleMoves ==
  ASSUME RegistryInv, NEW t \in Threads, filler # t,
         UNCHANGED <<overlayVars, n, gen, apply, cacheVars>>,
         NEW x \in Queries, NEW w \in Answers, r' = [r EXCEPT ![t] = Settle(x, w)],
         x.quiet => apply.pc = "idle",
         x.quiet /\ ~x.stray =>
             \A v \in [Cals -> Answers] : Agrees(RowsNow, v) => Resting(RowsNow, x, v, w)
  PROVE  RegistryInv'
<1>1. PICK s : s = Settle(x, w)
  OBVIOUS
<1>2. gen \in Nat
  BY Grounds
<1>3. /\ s \in Queries /\ Shaped(gen, cacheGen, FALSE, s) /\ s.quiet = x.quiet /\ (s.quiet => s.stray = x.stray)
      /\ x.quiet => \A v : Resting(RowsNow, x, v, w) => Faithful(RowsNow, gen, FALSE, s, v)
  BY <1>1, <1>2, Settling
<1>4. (filler' = t) = FALSE /\ cacheGen' = cacheGen
  BY DEF cacheVars
<1>5. Left(t, s)
  BY <1>3, <1>4 DEF Left
<1>6. r' = [r EXCEPT ![t] = s]
  BY <1>1
<1>7. QED
  BY <1>5, <1>6, LocalMoves

\* What a query that is quiet and has read nothing dropped knows of the calendar at its row.
LEMMA AtRow ==
  ASSUME RegistryInv, NEW t \in Threads, r[t].pc = "row", r[t].quiet, ~r[t].stray,
         NEW v \in [Cals -> Answers], Agrees(RowsNow, v), NEW k, k = IF filler = t THEN r[t].key ELSE r[t].cal
  PROVE  /\ k \in Cals /\ r[t].view.row = RowsNow[k] /\ r[t].view.from # "dropped"
         /\ Walk(RowsNow, r[t].asked, r[t].frames, v) /\ Asking(r[t].asked, r[t].frames, v, k)
         /\ r[t].asked \in Cals
         /\ filler = t => RowsNow[k] # Unknown /\ RowsNow[k].kind = "weekday"
<1>1. PICK q \in Queries : q = r[t]
  BY Stands
<1>2. Faithful(RowsNow, gen, filler = t, q, v) /\ Settled
  BY <1>1, Stands DEF Settled
<1>3. CASE filler = t
  <2>1. IsWeekday(RowsNow, q.key) /\ q.g = gen /\ Asking(q.asked, q.frames, v, q.key)
    BY <1>2, <1>3 DEF Faithful, AtCache
  <2>2. Filling(RowsNow, q)
    BY <1>1, <1>2, <1>3, <2>1, Stands
  <2>3. q.view.row = RowsNow[q.key] /\ q.view.from # "dropped"
    BY <1>1, <2>1, <2>2 DEF Filling
  <2>4. QED
    BY <1>1, <1>2, <1>3, <2>1, <2>3 DEF Faithful, IsWeekday, Asking
<1>4. CASE filler # t
  BY <1>1, <1>2, <1>4 DEF Faithful, Asking
<1>5. QED
  BY <1>3, <1>4

LEMMA UnknownKeeps ==
  ASSUME RegistryInv, NEW t \in Threads, UnknownCalendar(t)
  PROVE  RegistryInv'
<1>1. PICK q \in Queries : q = r[t]
  BY Stands
<1>2. /\ q.pc = "row" /\ q.view.row = Unknown /\ r' = [r EXCEPT ![t] = Finished(q, "threw")]
      /\ filler' = IF filler = t THEN None ELSE filler
      /\ UNCHANGED <<overlayVars, n, gen, apply, cache, cacheGen>>
  BY <1>1 DEF UnknownCalendar, Throw
<1>3. q.quiet => apply.pc = "idle"
  BY <1>1, Stands
<1>4. ASSUME q.quiet, ~q.stray, NEW v \in [Cals -> Answers], Agrees(RowsNow, v)
      PROVE  q.asked \in Cals /\ v[q.asked] = "threw"
  <2>1. PICK k : k = IF filler = t THEN q.key ELSE q.cal
    OBVIOUS
  <2>2. /\ k \in Cals /\ q.view.row = RowsNow[k]
        /\ Asking(q.asked, q.frames, v, k) /\ q.asked \in Cals
    BY <1>1, <1>2, <1>4, <2>1, AtRow
  <2>3. v[k] = "threw"
    BY <1>2, <1>4, <2>2, AnswerOfRow DEF Agrees
  <2>4. QED
    BY <2>2, <2>3 DEF Asking, Carries
<1>5. QED
  BY <1>2, <1>3, <1>4, Throws

\* A read of a view marks the query if the view's storage is gone.
LEMMA StrayTyped ==
  ASSUME NEW q \in Queries, NEW x, x = Stray(q)
  PROVE  /\ x \in Queries /\ x.pc = q.pc /\ x.cal = q.cal /\ x.view = q.view /\ x.frames = q.frames
         /\ x.inner = q.inner /\ x.key = q.key /\ x.g = q.g /\ x.bit = q.bit /\ x.ref = q.ref
         /\ x.asked = q.asked /\ x.ans = q.ans /\ x.quiet = q.quiet
         /\ ~x.stray => ~q.stray /\ q.view.from # "dropped"
<1>1. PICK b \in BOOLEAN : b = (q.stray \/ q.view.from = "dropped")
  OBVIOUS
<1>2. x = [q EXCEPT !.stray = b]
  BY <1>1 DEF Stray
<1>3. x \in Queries /\ x.stray = b
  BY <1>2 DEF Queries
<1>4. QED
  BY <1>1, <1>2, <1>3 DEF Queries

LEMMA WeekendKeeps ==
  ASSUME RegistryInv, NEW t \in Threads, WeekendRow(t)
  PROVE  RegistryInv'
<1>1. PICK q \in Queries : q = r[t]
  BY Stands
<1>2. PICK open \in Reads(q.view, q.view.row.open) : r' = [r EXCEPT ![t] = Settle(Stray(q), Says(open))]
  BY <1>1 DEF WeekendRow
<1>3. /\ q.pc = "row" /\ filler # t /\ q.view.row # Unknown /\ q.view.row.kind = "weekend"
      /\ UNCHANGED <<overlayVars, n, gen, apply, cacheVars>>
  BY <1>1 DEF WeekendRow
<1>4. PICK x : x = Stray(q)
  OBVIOUS
<1>5. /\ x \in Queries /\ x.frames = q.frames /\ x.asked = q.asked /\ x.quiet = q.quiet
      /\ ~x.stray => ~q.stray /\ q.view.from # "dropped"
  BY <1>4, StrayTyped
<1>6. PICK w \in Answers : w = Says(open)
  BY DEF Says, Answers
<1>7. x.quiet => apply.pc = "idle"
  BY <1>1, <1>5, Stands
<1>8. ASSUME x.quiet, ~x.stray, NEW v \in [Cals -> Answers], Agrees(RowsNow, v)
      PROVE  Resting(RowsNow, x, v, w)
  <2>1. /\ q.cal \in Cals /\ q.view.row = RowsNow[q.cal] /\ q.view.from # "dropped"
        /\ Walk(RowsNow, q.asked, q.frames, v) /\ Asking(q.asked, q.frames, v, q.cal)
    BY <1>1, <1>3, <1>5, <1>8, AtRow
  <2>2. open = RowsNow[q.cal].open
    BY <1>2, <2>1 DEF Reads
  <2>3. v[q.cal] = Answer(RowsNow, q.cal, v)
    BY <1>8, <2>1 DEF Agrees
  <2>4. Answer(RowsNow, q.cal, v) = Says(RowsNow[q.cal].open)
    BY <1>3, <2>1, AnswerOfRow
  <2>5. v[q.cal] = w
    BY <1>6, <2>2, <2>3, <2>4
  <2>6. QED
    BY <1>5, <2>1, <2>5 DEF Resting, Rests
<1>9. r' = [r EXCEPT ![t] = Settle(x, w)]
  BY <1>2, <1>4, <1>6
<1>10. QED
  BY <1>3, <1>5, <1>7, <1>8, <1>9, SettleMoves

AtJoint(s) == s.pc = "leg" \/ (s.pc = "row" /\ s.view.row # Unknown /\ s.view.row.kind = "joint")

\* The thread that fills the cache for a weekday meets no joint calendar.
LEMMA FillerMeetsNoJoint ==
  ASSUME RegistryInv, NEW t \in Threads, filler = t, Settled, r[t].g = gen,
         AtJoint(r[t])
  PROVE  ~IsWeekday(RowsNow, r[t].key)
<1>1. Filling(RowsNow, r[t])
  BY Stands
<1>2. QED
  BY <1>1 DEF Filling, IsWeekday, AtJoint

LEMMA FillerIsAtCache ==
  ASSUME RegistryInv, NEW t \in Threads, filler = t, r[t].quiet, ~r[t].stray,
         NEW v \in [Cals -> Answers], Agrees(RowsNow, v)
  PROVE  Settled /\ r[t].g = gen /\ IsWeekday(RowsNow, r[t].key)
<1>1. Faithful(RowsNow, gen, filler = t, r[t], v)
  BY Stands
<1>2. apply.pc = "idle"
  BY Stands
<1>3. QED
  BY <1>1, <1>2 DEF Faithful, AtCache, Settled

\* A query that goes on with the same key, and has not become less suspect.
Follows(a, b) ==
    b.key = a.key /\ b.g = a.g /\ b.quiet = a.quiet /\ (~b.stray => ~a.stray)

\* A filling thread at a joint calendar is past saying anything of the rows of the moment.
LEMMA FillerStrays ==
  ASSUME RegistryInv, NEW t \in Threads, filler = t, UNCHANGED <<overlayVars, n, gen, apply, cacheVars>>,
         AtJoint(r[t]),
         NEW s \in Queries, r' = [r EXCEPT ![t] = s], Shaped(gen, cacheGen, TRUE, s),
         Follows(r[t], s)
  PROVE  RegistryInv'
<1>1. filler' = t /\ cacheGen' = cacheGen
  BY DEF cacheVars
<1>2. Settled /\ s.g = gen => Filling(RowsNow, s)
  BY FillerMeetsNoJoint DEF Filling, Follows
<1>3. ASSUME s.quiet, ~s.stray, NEW v \in [Cals -> Answers], Agrees(RowsNow, v) PROVE FALSE
  BY <1>3, FillerIsAtCache, FillerMeetsNoJoint DEF Follows
<1>4. s.quiet => apply.pc = "idle"
  BY Stands DEF Follows
<1>5. (filler' = t) = TRUE
  BY <1>1
<1>6. Left(t, s)
  BY <1>1, <1>2, <1>3, <1>4, <1>5 DEF Left
<1>7. QED
  BY <1>6, LocalMoves

LEMMA JointKeeps ==
  ASSUME RegistryInv, NEW t \in Threads, JointRow(t)
  PROVE  RegistryInv'
<1>1. PICK q \in Queries : q = r[t]
  BY Stands
<1>2. PICK f : f = [row |-> q.view.row, from |-> q.view.from, j |-> 0]
  OBVIOUS
<1>3. /\ q.pc = "row" /\ q.view.row # Unknown /\ q.view.row.kind = "joint"
      /\ UNCHANGED <<overlayVars, n, gen, apply, cacheVars>>
      /\ r' = [r EXCEPT ![t] = IF filler = t
                               THEN [q EXCEPT !.inner = Append(q.inner, f), !.pc = "leg"]
                               ELSE [q EXCEPT !.frames = Append(q.frames, f), !.pc = "leg"]]
  BY <1>1, <1>2 DEF JointRow
<1>4. q.view.row \in Rows /\ q.view.from \in Froms
  BY <1>3 DEF Queries
<1>5. f \in Frame /\ f.row = q.view.row /\ f.from = q.view.from /\ f.j = 0
  BY <1>2, <1>4 DEF Frame
<1>6. q.frames \in Seq(Frame) /\ q.inner \in Seq(Frame) /\ Shaped(gen, cacheGen, filler = t, q)
  BY <1>1, Stands DEF Queries
<1>7. CASE filler = t
  <2>1. PICK fs \in Seq(Frame) : fs = Append(q.inner, f) /\ fs # <<>>
    BY <1>5, <1>6, AppendProperties
  <2>2. PICK s : s = [q EXCEPT !.inner = fs, !.pc = "leg"]
    OBVIOUS
  <2>3. /\ s \in Queries /\ s.pc = "leg" /\ s.inner = fs /\ s.key = q.key /\ s.g = q.g
        /\ s.quiet = q.quiet /\ s.stray = q.stray
    BY <2>2 DEF Queries, Steps
  <2>4. Shaped(gen, cacheGen, TRUE, s)
    BY <1>6, <1>7, <2>1, <2>3 DEF Shaped
  <2>5. r' = [r EXCEPT ![t] = s]
    BY <1>3, <1>7, <2>1, <2>2
  <2>6. Follows(q, s) /\ AtJoint(q)
    BY <1>3, <2>3 DEF Follows, AtJoint
  <2>7. QED
    BY <1>1, <1>3, <1>7, <2>3, <2>4, <2>5, <2>6, FillerStrays
<1>8. CASE filler # t
  <2>1. PICK fs \in Seq(Frame) : fs = Append(q.frames, f) /\ fs # <<>>
    BY <1>5, <1>6, AppendProperties
  <2>2. PICK s : s = [q EXCEPT !.frames = fs, !.pc = "leg"]
    OBVIOUS
  <2>3. /\ s \in Queries /\ s.pc = "leg" /\ s.frames = fs /\ s.inner = q.inner /\ s.key = q.key /\ s.g = q.g
        /\ s.quiet = q.quiet /\ s.stray = q.stray /\ s.asked = q.asked
    BY <2>2 DEF Queries, Steps
  <2>4. Shaped(gen, cacheGen, FALSE, s)
    BY <1>6, <1>8, <2>1, <2>3 DEF Shaped
  <2>5. ASSUME s.quiet, ~s.stray, NEW v \in [Cals -> Answers], Agrees(RowsNow, v)
        PROVE  Faithful(RowsNow, gen, FALSE, s, v)
    <3>1. /\ q.cal \in Cals /\ q.view.row = RowsNow[q.cal] /\ q.view.from # "dropped"
          /\ Walk(RowsNow, q.asked, q.frames, v) /\ Asking(q.asked, q.frames, v, q.cal) /\ q.asked \in Cals
      BY <1>1, <1>3, <1>8, <2>3, <2>5, AtRow
    <3>2. RowsNow \in [Cals -> Rows \cup {Unknown}]
      BY Grounds
    <3>3. PICK rows \in [Cals -> Rows \cup {Unknown}] : rows = RowsNow
      BY <3>2
    <3>4. f.row = rows[q.cal] /\ f.from # "dropped" /\ rows[q.cal] # Unknown /\ rows[q.cal].kind = "joint"
      BY <1>3, <1>5, <3>1, <3>3
    <3>5. Walk(rows, q.asked, q.frames, v)
      BY <3>1, <3>3
    <3>6. Walk(rows, q.asked, fs, v) /\ LegsOpen(fs, v)
      BY <1>5, <1>6, <2>1, <3>1, <3>4, <3>5, WalkIn
    <3>7. QED
      BY <2>3, <3>1, <3>3, <3>6 DEF Faithful, AtCache
  <2>6. s.quiet => apply.pc = "idle"
    BY <1>1, <2>3, Stands
  <2>7. (filler' = t) = FALSE /\ cacheGen' = cacheGen
    BY <1>3, <1>8 DEF cacheVars
  <2>8. Left(t, s)
    BY <2>3, <2>4, <2>5, <2>6, <2>7 DEF Left
  <2>9. r' = [r EXCEPT ![t] = s]
    BY <1>3, <1>8, <2>1, <2>2
  <2>10. QED
    BY <1>3, <2>8, <2>9, LocalMoves
<1>9. QED
  BY <1>7, <1>8

LEMMA NextTyped ==
  ASSUME NEW fs \in Seq(Frame), fs # <<>>, NEW gs, gs = [fs EXCEPT ![Len(fs)].j = fs[Len(fs)].j + 1]
  PROVE  gs \in Seq(Frame) /\ gs # <<>> /\ fs[Len(fs)] \in Frame
<1>1. PICK L \in Nat : L = Len(fs) /\ L >= 1 /\ DOMAIN fs = 1..L /\ \A k \in 1..L : fs[k] \in Frame
  BY FramesTyped
<1>2. PICK f \in Frame : f = fs[L]
  BY <1>1
<1>3. f.j \in Nat
  BY DEF Frame
<1>4. PICK g : g = [f EXCEPT !.j = f.j + 1]
  OBVIOUS
<1>5. g \in Frame
  <2>1. f.j + 1 \in Nat
    BY <1>3
  <2>2. QED
    BY <1>4, <2>1 DEF Frame
<1>6. gs = [fs EXCEPT ![L] = g]
  BY <1>1, <1>2, <1>4
<1>7. gs \in [1..L -> Frame]
  BY <1>1, <1>5, <1>6
<1>8. gs \in Seq(Frame) /\ Len(gs) = L
  BY <1>7, SeqDef, LenProperties
<1>9. QED
  BY <1>1, <1>2, <1>8, EmptySeq

LEMMA NextLegKeeps ==
  ASSUME RegistryInv, NEW t \in Threads, NextLeg(t)
  PROVE  RegistryInv'
<1>1. PICK q \in Queries : q = r[t]
  BY Stands
<1>2. PICK fs \in Seq(Frame) : fs = IF filler = t THEN q.inner ELSE q.frames
  BY DEF Queries
<1>3. PICK f, gs : f = fs[Len(fs)] /\ gs = [fs EXCEPT ![Len(fs)].j = f.j + 1]
  OBVIOUS
<1>4. /\ q.pc = "leg" /\ f.j < Len(f.row.legs) /\ UNCHANGED <<overlayVars, n, gen, apply, cacheVars>>
  BY <1>1, <1>2, <1>3 DEF NextLeg
<1>5. PICK c :
        /\ c \in IF f.from = "dropped" THEN Cals ELSE {f.row.legs[f.j + 1]}
        /\ r' = [r EXCEPT ![t] =
                IF filler = t
                THEN [[q EXCEPT !.cal = c, !.pc = "lookup", !.stray = q.stray \/ f.from = "dropped"] EXCEPT !.inner = gs]
                ELSE [[q EXCEPT !.cal = c, !.pc = "lookup", !.stray = q.stray \/ f.from = "dropped"] EXCEPT !.frames = gs]]
  BY <1>1, <1>2, <1>3 DEF NextLeg
<1>6. Shaped(gen, cacheGen, filler = t, q)
  BY <1>1, Stands
<1>7. fs # <<>>
  BY <1>2, <1>4, <1>6 DEF Shaped
<1>9. gs \in Seq(Frame) /\ gs # <<>> /\ f \in Frame
  BY <1>3, <1>7, NextTyped
<1>10. c \in Cals
  <2>1. f.row \in Rows /\ f.j \in Nat
    BY <1>9 DEF Frame
  <2>2. f.row.legs \in Seq(Cals)
    BY <2>1 DEF Rows
  <2>3. f.row.legs[f.j + 1] \in Cals
    <3>1. Len(f.row.legs) \in Nat /\ f.row.legs \in [1..Len(f.row.legs) -> Cals]
      BY <2>2, LenProperties
    <3>2. f.j + 1 \in 1..Len(f.row.legs)
      BY <1>4, <2>1, <3>1
    <3>3. QED
      BY <3>1, <3>2
  <2>4. QED
    BY <1>5, <2>3
<1>11. PICK b \in BOOLEAN : b = (q.stray \/ f.from = "dropped")
  OBVIOUS
<1>12. PICK x : x = [q EXCEPT !.cal = c, !.pc = "lookup", !.stray = b]
  OBVIOUS
<1>13. /\ x \in Queries /\ x.pc = "lookup" /\ x.cal = c /\ x.stray = b /\ x.frames = q.frames /\ x.inner = q.inner
       /\ x.key = q.key /\ x.g = q.g /\ x.quiet = q.quiet /\ x.asked = q.asked
  BY <1>10, <1>12 DEF Queries, Steps
<1>14. r' = [r EXCEPT ![t] = IF filler = t THEN [x EXCEPT !.inner = gs] ELSE [x EXCEPT !.frames = gs]]
  BY <1>5, <1>11, <1>12
<1>15. CASE filler = t
  <2>1. PICK s : s = [x EXCEPT !.inner = gs]
    OBVIOUS
  <2>4. /\ s \in Queries /\ s.pc = "lookup" /\ s.cal = c /\ s.inner = gs /\ s.stray = b
        /\ s.key = q.key /\ s.g = q.g /\ s.quiet = q.quiet
    BY <1>9, <1>13, <2>1 DEF Queries
  <2>5. Shaped(gen, cacheGen, TRUE, s)
    BY <1>6, <1>10, <1>15, <2>4 DEF Shaped
  <2>6. ~s.stray => ~q.stray
    BY <1>11, <2>4 DEF Queries
  <2>7. r' = [r EXCEPT ![t] = s]
    BY <1>14, <1>15, <2>1
  <2>8. Follows(q, s) /\ AtJoint(q)
    BY <1>4, <2>4, <2>6 DEF Follows, AtJoint
  <2>9. QED
    BY <1>1, <1>4, <1>15, <2>4, <2>5, <2>7, <2>8, FillerStrays
<1>16. CASE filler # t
  <2>1. PICK s : s = [x EXCEPT !.frames = gs]
    OBVIOUS
  <2>2. fs = q.frames
    BY <1>2, <1>16
  <2>4. /\ s \in Queries /\ s.pc = "lookup" /\ s.cal = c /\ s.frames = gs /\ s.inner = q.inner /\ s.stray = b
        /\ s.key = q.key /\ s.g = q.g /\ s.quiet = q.quiet /\ s.asked = q.asked
    BY <1>9, <1>13, <2>1 DEF Queries
  <2>5. Shaped(gen, cacheGen, FALSE, s)
    BY <1>6, <1>10, <1>16, <2>4 DEF Shaped
  <2>6. ASSUME s.quiet, ~s.stray, NEW v \in [Cals -> Answers], Agrees(RowsNow, v)
        PROVE  Faithful(RowsNow, gen, FALSE, s, v)
    <3>1. q.quiet /\ ~q.stray /\ f.from # "dropped"
      BY <1>11, <2>4, <2>6
    <3>2. PICK rows \in [Cals -> Rows \cup {Unknown}] : rows = RowsNow
      BY Grounds
    <3>3. Faithful(rows, gen, FALSE, q, v)
      <4>1. (filler = t) = FALSE
        BY <1>16
      <4>2. QED
        BY <1>1, <2>6, <3>1, <3>2, <4>1, Stands
    <3>4. Walk(rows, q.asked, fs, v) /\ LegsOpen(fs, v) /\ q.asked \in Cals
      BY <1>4, <2>2, <3>3 DEF Faithful
    <3>5. Agrees(rows, v)
      BY <2>6, <3>2
    <3>6. Walk(rows, q.asked, gs, v) /\ Asking(q.asked, gs, v, f.row.legs[f.j + 1])
      BY <1>3, <1>4, <3>4, <3>5, WalkOn
    <3>7. c = f.row.legs[f.j + 1]
      BY <1>5, <3>1
    <3>8. QED
      BY <2>4, <3>2, <3>4, <3>6, <3>7 DEF Faithful, AtCache
  <2>7. s.quiet => apply.pc = "idle"
    BY <1>1, <2>4, Stands
  <2>8. (filler' = t) = FALSE /\ cacheGen' = cacheGen
    BY <1>4, <1>16 DEF cacheVars
  <2>9. Left(t, s)
    BY <2>4, <2>5, <2>6, <2>7, <2>8 DEF Left
  <2>10. r' = [r EXCEPT ![t] = s]
    BY <1>14, <1>16, <2>1
  <2>11. QED
    BY <1>4, <2>9, <2>10, LocalMoves
<1>17. QED
  BY <1>15, <1>16

LEMMA BrokenLegKeeps ==
  ASSUME RegistryInv, NEW t \in Threads, BrokenLeg(t)
  PROVE  RegistryInv'
<1>1. PICK q \in Queries : q = r[t]
  BY Stands
<1>2. PICK x : x = [q EXCEPT !.stray = TRUE]
  OBVIOUS
<1>3. x \in Queries /\ x.stray = TRUE /\ x.quiet = q.quiet
  BY <1>2 DEF Queries
<1>4. /\ r' = [r EXCEPT ![t] = Finished(x, "threw")]
      /\ filler' = IF filler = t THEN None ELSE filler
      /\ UNCHANGED <<overlayVars, n, gen, apply, cache, cacheGen>>
  BY <1>1, <1>2 DEF BrokenLeg
<1>5. x.quiet => apply.pc = "idle"
  BY <1>1, <1>3, Stands
<1>6. QED
  BY <1>3, <1>4, <1>5, Throws

LEMMA LastDropped ==
  ASSUME NEW fs \in Seq(Frame), fs # <<>>, NEW gs, gs = SubSeq(fs, 1, Len(fs) - 1)
  PROVE  gs \in Seq(Frame) /\ (gs = <<>> <=> Len(fs) = 1)
<1>1. PICK L \in Nat : L = Len(fs) /\ L >= 1 /\ DOMAIN fs = 1..L /\ \A k \in 1..L : fs[k] \in Frame
  BY FramesTyped
<1>2. gs \in Seq(Frame) /\ Len(gs) = L - 1
  BY <1>1, SubSeqProperties
<1>3. gs # <<>> <=> Len(gs) >= 1
  BY <1>2, FramesTyped
<1>4. QED
  BY <1>1, <1>2, <1>3

LEMMA LegsDoneKeeps ==
  ASSUME RegistryInv, NEW t \in Threads, LegsDone(t)
  PROVE  RegistryInv'
<1>1. PICK q \in Queries : q = r[t]
  BY Stands
<1>2. PICK fs \in Seq(Frame) : fs = q.frames
  BY DEF Queries
<1>3. PICK f, gs : f = fs[Len(fs)] /\ gs = SubSeq(fs, 1, Len(fs) - 1)
  OBVIOUS
<1>4. PICK x : x = [q EXCEPT !.frames = gs]
  OBVIOUS
<1>5. /\ q.pc = "leg" /\ filler # t /\ f.j = Len(f.row.legs)
      /\ UNCHANGED <<overlayVars, n, gen, apply, cacheVars>>
      /\ r' = [r EXCEPT ![t] = Settle(x, "open")]
  BY <1>1, <1>2, <1>3, <1>4 DEF LegsDone
<1>6. fs # <<>>
  <2>1. Shaped(gen, cacheGen, filler = t, q)
    BY <1>1, Stands
  <2>2. QED
    BY <1>2, <1>3, <1>5, <2>1 DEF Shaped
<1>7. x \in Queries /\ x.frames = gs /\ x.asked = q.asked /\ x.quiet = q.quiet /\ x.stray = q.stray
  <2>1. gs \in Seq(Frame)
    BY <1>2, <1>3, <1>6, LastDropped
  <2>2. QED
    BY <1>4, <2>1 DEF Queries
<1>8. x.quiet => apply.pc = "idle"
  BY <1>1, <1>7, Stands
<1>9. ASSUME x.quiet, ~x.stray, NEW v \in [Cals -> Answers], Agrees(RowsNow, v)
      PROVE  Resting(RowsNow, x, v, "open")
  <2>1. PICK rows \in [Cals -> Rows \cup {Unknown}] : rows = RowsNow
    BY Grounds
  <2>2. (filler = t) = FALSE
    BY <1>5
  <2>3. Faithful(rows, gen, FALSE, q, v)
    BY <1>1, <1>7, <1>9, <2>1, <2>2, Stands
  <2>4. Walk(rows, q.asked, fs, v) /\ LegsOpen(fs, v)
    BY <1>2, <1>3, <1>5, <2>3 DEF Faithful
  <2>5. Agrees(rows, v)
    BY <1>9, <2>1
  <2>6. Walk(rows, q.asked, gs, v) /\ Rests(q.asked, gs, v, "open")
    <3>1. f = fs[Len(fs)] /\ f.j = Len(f.row.legs) /\ gs = SubSeq(fs, 1, Len(fs) - 1)
      BY <1>2, <1>3, <1>5
    <3>2. QED
      BY <2>4, <2>5, <3>1, WalkOut
  <2>7. QED
    BY <1>7, <2>1, <2>6 DEF Resting
<1>10. "open" \in Answers
  BY DEF Answers
<1>11. QED
  BY <1>5, <1>7, <1>8, <1>9, <1>10, SettleMoves

LEMMA UnionDoneKeeps ==
  ASSUME RegistryInv, NEW t \in Threads, UnionDone(t)
  PROVE  RegistryInv'
<1>1. PICK q \in Queries : q = r[t]
  BY Stands
<1>2. PICK fs \in Seq(Frame) : fs = q.inner
  BY DEF Queries
<1>3. PICK gs : gs = SubSeq(fs, 1, Len(fs) - 1)
  OBVIOUS
<1>4. PICK p : p = IF Len(fs) = 1 THEN "insert" ELSE "leg"
  OBVIOUS
<1>5. PICK s : s = [q EXCEPT !.inner = gs, !.pc = p]
  OBVIOUS
<1>6. /\ q.pc = "leg" /\ filler = t /\ UNCHANGED <<overlayVars, n, gen, apply, cacheVars>>
      /\ r' = [r EXCEPT ![t] = s]
  BY <1>1, <1>2, <1>3, <1>4, <1>5 DEF UnionDone
<1>7. (filler = t) = TRUE /\ Shaped(gen, cacheGen, TRUE, q)
  <2>1. (filler = t) = TRUE
    BY <1>6
  <2>2. Shaped(gen, cacheGen, filler = t, q)
    BY <1>1, Stands
  <2>3. QED
    BY <2>1, <2>2
<1>8. fs # <<>>
  BY <1>2, <1>3, <1>6, <1>7 DEF Shaped
<1>9. gs \in Seq(Frame) /\ (gs = <<>> <=> Len(fs) = 1) /\ p \in Steps
  BY <1>2, <1>3, <1>4, <1>8, LastDropped DEF Steps
<1>10. /\ s \in Queries /\ s.pc = p /\ s.inner = gs /\ s.key = q.key /\ s.g = q.g
      /\ s.quiet = q.quiet /\ s.stray = q.stray
  BY <1>5, <1>9 DEF Queries
<1>11. Shaped(gen, cacheGen, TRUE, s)
  BY <1>4, <1>7, <1>9, <1>10 DEF Shaped
<1>12. Follows(q, s) /\ AtJoint(q)
  BY <1>6, <1>10 DEF Follows, AtJoint
<1>13. QED
  BY <1>1, <1>6, <1>10, <1>11, <1>12, FillerStrays

LEMMA WeekdayRowKeeps ==
  ASSUME RegistryInv, NEW t \in Threads, WeekdayRow(t)
  PROVE  RegistryInv'
<1>1. PICK q \in Queries : q = r[t]
  BY Stands
<1>2. PICK s : s = [q EXCEPT !.pc = "probe", !.key = q.cal, !.g = gen]
  OBVIOUS
<1>3. /\ q.pc = "row" /\ filler # t /\ q.view.row # Unknown /\ q.view.row.kind = "weekday"
      /\ UNCHANGED <<overlayVars, n, gen, apply, cacheVars>>
      /\ r' = [r EXCEPT ![t].pc = "probe", ![t].key = q.cal, ![t].g = gen]
  BY <1>1, Zenon DEF WeekdayRow
<1>4. r' = [r EXCEPT ![t] = s] /\ gen \in Nat /\ (filler = t) = FALSE
  <2>1. r \in [Threads -> Queries] /\ gen \in Nat
    BY Grounds
  <2>2. QED
    BY <1>1, <1>2, <1>3, <2>1
<1>5. Shaped(gen, cacheGen, FALSE, q)
  BY <1>1, <1>4, Stands
<1>6. q.cal \in Cals
  BY <1>3, <1>5 DEF Shaped
<1>7. /\ s \in Queries /\ s.pc = "probe" /\ s.key = q.cal /\ s.g = gen /\ s.frames = q.frames
      /\ s.inner = q.inner /\ s.asked = q.asked /\ s.quiet = q.quiet /\ s.stray = q.stray
  BY <1>2, <1>4, <1>6 DEF Queries, Steps
<1>8. Shaped(gen, cacheGen, FALSE, s)
  BY <1>4, <1>5, <1>6, <1>7 DEF Shaped
<1>9. s.quiet => apply.pc = "idle"
  BY <1>1, <1>7, Stands
<1>10. ASSUME s.quiet, ~s.stray, NEW v \in [Cals -> Answers], Agrees(RowsNow, v)
       PROVE  Faithful(RowsNow, gen, FALSE, s, v)
  <2>1. /\ q.cal \in Cals /\ q.view.row = RowsNow[q.cal]
        /\ Walk(RowsNow, q.asked, q.frames, v) /\ Asking(q.asked, q.frames, v, q.cal) /\ q.asked \in Cals
    BY <1>1, <1>3, <1>7, <1>10, AtRow
  <2>2. IsWeekday(RowsNow, q.cal)
    BY <1>3, <2>1 DEF IsWeekday
  <2>3. QED
    BY <1>7, <2>1, <2>2 DEF Faithful
<1>11. (filler' = t) = FALSE /\ cacheGen' = cacheGen
  BY <1>3 DEF cacheVars
<1>12. Left(t, s)
  BY <1>7, <1>8, <1>9, <1>10, <1>11 DEF Left
<1>13. QED
  BY <1>3, <1>4, <1>12, LocalMoves

LEMMA ReadBitKeeps ==
  ASSUME RegistryInv, NEW t \in Threads, ReadBit(t)
  PROVE  RegistryInv'
<1>1. PICK q \in Queries : q = r[t]
  BY Stands
<1>2. PICK b \in BOOLEAN : b = (q.stray \/ ~q.ref.held)
  OBVIOUS
<1>3. PICK x : x = [q EXCEPT !.stray = b]
  OBVIOUS
<1>4. x \in Queries /\ x.frames = q.frames /\ x.asked = q.asked /\ x.quiet = q.quiet /\ x.stray = b
  BY <1>3 DEF Queries
<1>5. q.pc = "read" /\ UNCHANGED <<overlayVars, n, gen, apply, cacheVars>>
  BY <1>1 DEF ReadBit
<1>6. PICK open : /\ open \in IF q.ref.held THEN {q.ref.bit} ELSE BOOLEAN
                  /\ r' = [r EXCEPT ![t] = Settle(x, Says(open))]
  BY <1>1, <1>2, <1>3 DEF ReadBit
<1>7. PICK w \in Answers : w = Says(open)
  BY DEF Says, Answers
<1>8. filler # t
  <2>1. Shaped(gen, cacheGen, filler = t, q)
    BY <1>1, Stands
  <2>2. QED
    BY <1>5, <2>1 DEF Shaped
<1>9. x.quiet => apply.pc = "idle"
  BY <1>1, <1>4, Stands
<1>10. ASSUME x.quiet, ~x.stray, NEW v \in [Cals -> Answers], Agrees(RowsNow, v)
       PROVE  Resting(RowsNow, x, v, w)
  <2>1. q.quiet /\ ~q.stray /\ q.ref.held
    BY <1>2, <1>4, <1>10
  <2>2. Faithful(RowsNow, gen, filler = t, q, v)
    BY <1>1, <1>10, <2>1, Stands
  <2>3. /\ Walk(RowsNow, q.asked, q.frames, v) /\ Asking(q.asked, q.frames, v, q.key)
        /\ IsWeekday(RowsNow, q.key) /\ q.ref.bit = RowsNow[q.key].open
    BY <1>5, <2>1, <2>2 DEF Faithful, AtCache
  <2>4. q.key \in Cals /\ open = RowsNow[q.key].open
    BY <1>6, <2>1, <2>3 DEF Asking
  <2>5. v[q.key] = Answer(RowsNow, q.key, v)
    BY <1>10, <2>4 DEF Agrees
  <2>6. Answer(RowsNow, q.key, v) = Says(RowsNow[q.key].open)
    BY <2>3, AnswerOfRow DEF IsWeekday
  <2>7. v[q.key] = w
    BY <1>7, <2>4, <2>5, <2>6
  <2>8. QED
    BY <1>4, <2>3, <2>4, <2>7 DEF Resting, Rests
<1>11. r' = [r EXCEPT ![t] = Settle(x, w)]
  BY <1>6, <1>7
<1>12. QED
  BY <1>4, <1>5, <1>8, <1>9, <1>10, <1>11, SettleMoves

LEMMA HolidaysOfKeeps ==
  ASSUME RegistryInv, NEW t \in Threads, HolidaysOf(t)
  PROVE  RegistryInv'
<1>1. PICK q \in Queries : q = r[t]
  BY Stands
<1>2. PICK x : x = Stray(q)
  OBVIOUS
<1>3. PICK p : p = IF q.inner = <<>> THEN "insert" ELSE "leg"
  OBVIOUS
<1>4. /\ q.pc = "row" /\ filler = t /\ q.view.row # Unknown /\ q.view.row.kind # "joint"
      /\ UNCHANGED <<overlayVars, n, gen, apply, cacheVars>>
  BY <1>1 DEF HolidaysOf
<1>5. PICK open \in Reads(r[t].view, r[t].view.row.kind = "weekend" \/ r[t].view.row.open) :
        r' = [r EXCEPT ![t] = [Stray(r[t]) EXCEPT !.bit = r[t].bit /\ open,
                                                  !.pc = IF r[t].inner = <<>> THEN "insert" ELSE "leg"]]
  BY Zenon DEF HolidaysOf
<1>6. PICK b \in BOOLEAN : b = (r[t].bit /\ open)
  OBVIOUS
<1>7. PICK s : s = [x EXCEPT !.bit = b, !.pc = p]
  OBVIOUS
<1>8. r' = [r EXCEPT ![t] = s]
  BY <1>1, <1>2, <1>3, <1>5, <1>6, <1>7
<1>9. /\ x \in Queries /\ x.cal = q.cal /\ x.view = q.view /\ x.frames = q.frames
      /\ x.inner = q.inner /\ x.key = q.key /\ x.g = q.g /\ x.asked = q.asked /\ x.quiet = q.quiet
      /\ ~x.stray => ~q.stray /\ q.view.from # "dropped"
  BY <1>2, StrayTyped
<1>10. /\ s \in Queries /\ s.pc = p /\ s.bit = b /\ s.frames = q.frames /\ s.inner = q.inner
       /\ s.key = q.key /\ s.g = q.g /\ s.asked = q.asked /\ s.quiet = q.quiet /\ s.stray = x.stray
  <2>1. p \in Steps
    BY <1>3 DEF Steps
  <2>2. QED
    BY <1>7, <1>9, <2>1 DEF Queries
<1>11. (filler = t) = TRUE /\ (filler' = t) = TRUE /\ cacheGen' = cacheGen
  BY <1>4 DEF cacheVars
<1>12. Shaped(gen, cacheGen, TRUE, q)
  BY <1>1, <1>11, Stands
<1>13. Shaped(gen, cacheGen, TRUE, s)
  BY <1>3, <1>10, <1>12 DEF Shaped
<1>14. s.quiet => apply.pc = "idle"
  BY <1>1, <1>10, Stands
<1>15. ASSUME Settled, s.g = gen PROVE Filling(RowsNow, s)
  <2> SUFFICES ASSUME IsWeekday(RowsNow, q.key) PROVE Filling(RowsNow, s)
    BY <1>10 DEF Filling
  <2>1. Filling(RowsNow, q)
    BY <1>1, <1>4, <1>10, <1>15, Stands
  <2>2. q.inner = <<>> /\ q.bit = TRUE /\ q.view.row = RowsNow[q.key] /\ q.view.from # "dropped"
    BY <1>4, <2>1 DEF Filling
  <2>3. open = RowsNow[q.key].open
    <3>1. PICK row \in Rows : row = RowsNow[q.key] /\ row.kind = "weekday"
      <4>1. q.key \in Cals
        BY <1>12 DEF Shaped
      <4>2. RowsNow[q.key] \in Rows
        BY <4>1, Grounds DEF IsWeekday
      <4>3. QED
        BY <4>2 DEF IsWeekday
    <3>2. open = (row.kind = "weekend" \/ row.open)
      BY <1>1, <1>5, <2>2, <3>1 DEF Reads
    <3>3. QED
      BY <3>1, <3>2 DEF Rows
  <2>4. b = open
    <3>1. RowsNow[q.key].open \in BOOLEAN
      BY <1>12, Grounds, RowTyped DEF Shaped, IsWeekday
    <3>2. QED
      BY <1>1, <1>6, <2>2, <2>3, <3>1
  <2>5. s.pc = "insert"
    BY <1>3, <1>10, <2>2
  <2>6. QED
    BY <1>10, <2>2, <2>3, <2>4, <2>5 DEF Filling
<1>16. ASSUME s.quiet, ~s.stray, NEW v \in [Cals -> Answers], Agrees(RowsNow, v)
       PROVE  Faithful(RowsNow, gen, TRUE, s, v)
  <2>1. Faithful(RowsNow, gen, TRUE, q, v)
    BY <1>1, <1>9, <1>10, <1>11, <1>16, Stands
  <2>2. AtCache(TRUE, q) /\ AtCache(TRUE, s) /\ s.pc \in {"insert", "leg"}
    BY <1>3, <1>10 DEF AtCache
  <2>3. QED
    BY <1>4, <1>10, <2>1, <2>2 DEF Faithful
<1>17. Left(t, s)
  BY <1>10, <1>11, <1>13, <1>14, <1>15, <1>16 DEF Left
<1>18. QED
  BY <1>4, <1>8, <1>17, LocalMoves

\* A reference into the cache, and what it gives to a query that the rows stand still for.
Referring(q, s, b) == s = [q EXCEPT !.ref = [bit |-> b, held |-> TRUE], !.pc = "read"]

Holding(q, s, b) ==
    /\ s.pc = "read" /\ s.frames = q.frames /\ s.inner = q.inner /\ s.key = q.key
    /\ s.g = q.g /\ s.asked = q.asked /\ s.quiet = q.quiet /\ s.stray = q.stray
    /\ s.ref.bit = b

LEMMA ReferringTyped ==
  ASSUME NEW q \in Queries, NEW b \in BOOLEAN, NEW s, Referring(q, s, b)
  PROVE  s \in Queries /\ Holding(q, s, b)
<1>1. PICK f \in [bit : BOOLEAN, held : BOOLEAN] : f = [bit |-> b, held |-> TRUE]
  OBVIOUS
<1>2. s = [q EXCEPT !.ref = f, !.pc = "read"] /\ f.bit = b /\ f.held = TRUE
  BY <1>1 DEF Referring
<1>3. QED
  BY <1>2 DEF Queries, Steps, Holding

LEMMA ReferringFaithful ==
  ASSUME NEW q \in Queries, NEW b \in BOOLEAN, NEW s, Referring(q, s, b),
         NEW rows, NEW g, NEW own, NEW v, Faithful(rows, g, own, q, v), AtCache(own, q), q.pc # "idle",
         IsWeekday(rows, q.key) => b = rows[q.key].open
  PROVE  Faithful(rows, g, FALSE, s, v)
<1>1. /\ s.pc = "read" /\ s.frames = q.frames /\ s.key = q.key /\ s.g = q.g /\ s.asked = q.asked /\ s.ref.bit = b
  BY ReferringTyped DEF Holding
<1>2. /\ q.asked \in Cals /\ Walk(rows, q.asked, q.frames, v) /\ Asking(q.asked, q.frames, v, q.key)
      /\ IsWeekday(rows, q.key) /\ q.g = g
  BY DEF Faithful
<1>3. QED
  BY <1>1, <1>2 DEF Faithful

\* A hit, under either lock: the cache is of the query's generation.
LEMMA Hits ==
  ASSUME RegistryInv, NEW t \in Threads, filler = None, r[t].pc \in {"probe", "acquire"},
         UNCHANGED <<overlayVars, n, gen, apply, cacheVars>>,
         cacheGen = r[t].g, cache[r[t].key] # Unknown,
         NEW s, Referring(r[t], s, cache[r[t].key]), r' = [r EXCEPT ![t] = s]
  PROVE  RegistryInv'
<1>1. PICK q \in Queries : q = r[t]
  BY Stands
<1>2. (filler = t) = FALSE /\ (filler' = t) = FALSE /\ cacheGen' = cacheGen
  BY NobodyIsNone DEF cacheVars
<1>3. Shaped(gen, cacheGen, FALSE, q)
  BY <1>1, <1>2, Stands
<1>4. q.key \in Cals
  BY <1>1, <1>3 DEF Shaped
<1>5. PICK b \in BOOLEAN : b = cache[q.key]
  BY <1>1, <1>4, Grounds
<1>6. Referring(q, s, b)
  BY <1>1, <1>5
<1>7. /\ s \in Queries /\ s.pc = "read" /\ s.inner = q.inner /\ s.key = q.key
      /\ s.g = q.g /\ s.quiet = q.quiet /\ s.stray = q.stray
  BY <1>6, ReferringTyped DEF Holding
<1>8. Shaped(gen, cacheGen, FALSE, s)
  BY <1>3, <1>4, <1>7 DEF Shaped
<1>9. s.quiet => apply.pc = "idle"
  BY <1>1, <1>7, Stands
<1>10. ASSUME s.quiet, ~s.stray, NEW v \in [Cals -> Answers], Agrees(RowsNow, v)
       PROVE  Faithful(RowsNow, gen, FALSE, s, v)
  <2>1. Faithful(RowsNow, gen, FALSE, q, v)
    BY <1>1, <1>2, <1>7, <1>10, Stands
  <2>2. AtCache(FALSE, q) /\ q.pc # "idle"
    BY <1>1 DEF AtCache
  <2>3. q.g = gen /\ Settled
    BY <1>9, <1>10, <2>1, <2>2 DEF Faithful, Settled
  <2>4. CacheTrue(RowsNow, cache)
    BY <1>1, <2>3 DEF RegistryInv, QueryInv, CacheInv
  <2>5. IsWeekday(RowsNow, q.key) => b = RowsNow[q.key].open
    BY <1>1, <1>4, <1>5, <2>4 DEF CacheTrue
  <2>6. QED
    BY <1>6, <2>1, <2>2, <2>5, ReferringFaithful
<1>11. Left(t, s)
  BY <1>2, <1>7, <1>8, <1>9, <1>10 DEF Left
<1>12. QED
  BY <1>11, LocalMoves

LEMMA ProbeKeeps ==
  ASSUME RegistryInv, NEW t \in Threads, Probe(t)
  PROVE  RegistryInv'
<1>1. PICK q \in Queries : q = r[t]
  BY Stands
<1>2. /\ q.pc = "probe" /\ filler = None /\ UNCHANGED <<overlayVars, n, gen, apply, cacheVars>>
      /\ r' = [r EXCEPT ![t] = IF cacheGen = q.g /\ cache[q.key] # Unknown
                               THEN Found(q) ELSE [q EXCEPT !.pc = "acquire"]]
  BY <1>1 DEF Probe
<1>3. CASE cacheGen = q.g /\ cache[q.key] # Unknown
  <2>1. PICK s : s = Found(q)
    OBVIOUS
  <2>2. Referring(q, s, cache[q.key])
    BY <2>1 DEF Referring, Found
  <2>3. r' = [r EXCEPT ![t] = s]
    BY <1>2, <1>3, <2>1
  <2>4. QED
    BY <1>1, <1>2, <1>3, <2>2, <2>3, Hits
<1>4. CASE ~(cacheGen = q.g /\ cache[q.key] # Unknown)
  <2>1. PICK s : s = [q EXCEPT !.pc = "acquire"]
    OBVIOUS
  <2>2. r' = [r EXCEPT ![t] = s]
    BY <1>2, <1>4, <2>1
  <2>3. /\ s \in Queries /\ s.pc = "acquire" /\ s.frames = q.frames /\ s.inner = q.inner
        /\ s.key = q.key /\ s.g = q.g /\ s.asked = q.asked /\ s.quiet = q.quiet /\ s.stray = q.stray
    BY <2>1 DEF Queries, Steps
  <2>4. (filler = t) = FALSE /\ (filler' = t) = FALSE /\ cacheGen' = cacheGen
    BY <1>2, NobodyIsNone DEF cacheVars
  <2>5. Shaped(gen, cacheGen, FALSE, q)
    BY <1>1, <2>4, Stands
  <2>6. Shaped(gen, cacheGen, FALSE, s)
    BY <1>2, <2>3, <2>5 DEF Shaped
  <2>7. s.quiet => apply.pc = "idle"
    BY <1>1, <2>3, Stands
  <2>8. ASSUME s.quiet, ~s.stray, NEW v \in [Cals -> Answers], Agrees(RowsNow, v)
        PROVE  Faithful(RowsNow, gen, FALSE, s, v)
    <3>1. Faithful(RowsNow, gen, FALSE, q, v)
      BY <1>1, <2>3, <2>4, <2>8, Stands
    <3>2. AtCache(FALSE, q)
      BY <1>2 DEF AtCache
    <3>3. QED
      BY <1>2, <2>3, <3>1, <3>2 DEF Faithful
  <2>9. Left(t, s)
    BY <2>3, <2>4, <2>6, <2>7, <2>8 DEF Left
  <2>10. QED
    BY <1>2, <2>2, <2>9, LocalMoves
<1>5. QED
  BY <1>3, <1>4

\* The year is built: the thread holds the lock, and others may have lost their references.
LEMMA Builds ==
  ASSUME RegistryInv, NEW t \in Threads, filler = None, r[t].pc = "acquire",
         UNCHANGED <<overlayVars, n, gen, apply>>, cacheGen' = r[t].g, filler' = t,
         cache' = IF cacheGen # r[t].g THEN Empty ELSE cache,
         NEW s, s = [r[t] EXCEPT !.pc = "lookup", !.cal = r[t].key, !.bit = TRUE],
         r' \in [Threads -> Queries], r'[t] = s, \A u \in Threads \ {t} : SameBut(r[u], r'[u])
  PROVE  RegistryInv'
<1>1. PICK q \in Queries : q = r[t]
  BY Stands
<1>2. (filler = t) = FALSE /\ (filler' = t) = TRUE
  BY NobodyIsNone
<1>3. Shaped(gen, cacheGen, FALSE, q)
  BY <1>1, <1>2, Stands
<1>4. q.key \in Cals /\ q.inner = <<>> /\ q.g <= gen
  BY <1>1, <1>3 DEF Shaped
<1>5. /\ s \in Queries /\ s.pc = "lookup" /\ s.cal = q.key /\ s.bit = TRUE /\ s.frames = q.frames /\ s.inner = q.inner
      /\ s.key = q.key /\ s.g = q.g /\ s.asked = q.asked /\ s.quiet = q.quiet /\ s.stray = q.stray
  BY <1>1, <1>4 DEF Queries, Steps
<1>6. Shaped(gen, cacheGen', TRUE, s)
  BY <1>1, <1>4, <1>5 DEF Shaped
<1>7. s.quiet => apply.pc = "idle"
  BY <1>1, <1>5, Stands
<1>8. Filling(RowsNow, s)
  BY <1>4, <1>5 DEF Filling
<1>9. ASSUME s.quiet, ~s.stray, NEW v \in [Cals -> Answers], Agrees(RowsNow, v)
      PROVE  Faithful(RowsNow, gen, TRUE, s, v)
  <2>1. Faithful(RowsNow, gen, FALSE, q, v)
    BY <1>1, <1>2, <1>5, <1>9, Stands
  <2>2. AtCache(FALSE, q) /\ q.pc = "acquire"
    BY <1>1 DEF AtCache
  <2>3. QED
    BY <1>5, <2>1, <2>2 DEF Faithful
<1>10. Left(t, s)
  BY <1>2, <1>5, <1>6, <1>7, <1>8, <1>9 DEF Left
<1>11. LeftCache(t)
  <2>1. /\ gen \in Nat /\ q.g \in Nat /\ cacheGen \in 0..gen
        /\ cache \in [Cals -> BOOLEAN \cup {Unknown}]
    BY Grounds DEF Queries
  <2>2. cacheGen' \in 0..gen
    BY <1>1, <1>4, <2>1
  <2>3. ASSUME NEW u \in Threads \ {t} PROVE (filler' = u) = (filler = u) /\ filler # u
    BY NobodyIsNone
  <2>4. cache' \in [Cals -> BOOLEAN \cup {Unknown}]
    BY <2>1 DEF Empty
  <2>5. ASSUME Settled, cacheGen' = gen PROVE CacheTrue(RowsNow, cache')
    <3>1. CASE cacheGen # r[t].g
      BY <3>1 DEF CacheTrue, Empty
    <3>2. CASE cacheGen = r[t].g
      <4>1. CacheTrue(RowsNow, cache)
        BY <2>5, <3>2 DEF RegistryInv, QueryInv, CacheInv
      <4>2. QED
        BY <3>2, <4>1
    <3>3. QED
      BY <3>1, <3>2
  <2>6. QED
    BY <2>2, <2>3, <2>4, <2>5 DEF LeftCache
<1>12. QED
  BY <1>10, <1>11, ThreadMoves

LEMMA RefDropped ==
  ASSUME NEW q \in Queries, NEW s, s = [q EXCEPT !.ref.held = FALSE]
  PROVE  s \in Queries /\ SameBut(q, s)
<1>1. q.ref \in [bit : BOOLEAN, held : BOOLEAN]
  BY DEF Queries
<1>2. PICK f \in [bit : BOOLEAN, held : BOOLEAN] : f = [q.ref EXCEPT !.held = FALSE]
  BY <1>1
<1>3. f.held = FALSE
  BY <1>1, <1>2
<1>4. s = [q EXCEPT !.ref = f]
  BY <1>2
<1>5. QED
  BY <1>3, <1>4 DEF Queries, SameBut

LEMMA AcquireKeeps ==
  ASSUME RegistryInv, NEW t \in Threads, Acquire(t)
  PROVE  RegistryInv'
<1>1. PICK q \in Queries : q = r[t]
  BY Stands
<1>2. q.pc = "acquire" /\ filler = None /\ cacheGen' = q.g /\ UNCHANGED <<overlayVars, n, gen, apply>>
  BY <1>1 DEF Acquire
<1>3. r \in [Threads -> Queries]
  BY Grounds
<1>4. CASE cacheGen = q.g /\ cache[q.key] # Unknown
  <2>1. r' = [r EXCEPT ![t] = Found(q)] /\ UNCHANGED <<cache, filler>>
    BY <1>1, <1>4 DEF Acquire
  <2>2. PICK s : s = Found(q)
    OBVIOUS
  <2>3. Referring(q, s, cache[q.key])
    BY <2>2 DEF Referring, Found
  <2>4. UNCHANGED <<overlayVars, n, gen, apply, cacheVars>> /\ r' = [r EXCEPT ![t] = s]
    BY <1>2, <1>4, <2>1, <2>2 DEF cacheVars
  <2>5. QED
    BY <1>1, <1>2, <1>4, <2>3, <2>4, Hits
<1>5. CASE ~(cacheGen = q.g /\ cache[q.key] # Unknown)
  <2>1. /\ cache' = IF cacheGen # q.g THEN Empty ELSE cache
        /\ filler' = t
        /\ r' = [u \in Threads |->
                   IF u = t THEN [r[u] EXCEPT !.pc = "lookup", !.cal = r[u].key, !.bit = TRUE]
                   ELSE IF cacheGen # q.g THEN [r[u] EXCEPT !.ref.held = FALSE] ELSE r[u]]
    BY <1>1, <1>5 DEF Acquire
  <2>2. PICK s : s = [r[t] EXCEPT !.pc = "lookup", !.cal = r[t].key, !.bit = TRUE]
    OBVIOUS
  <2>3. s \in Queries
    <3>1. q.key \in Cals \cup {None}
      BY DEF Queries
    <3>2. QED
      BY <1>1, <2>2, <3>1 DEF Queries, Steps
  <2>4. r'[t] = s
    BY <2>1, <2>2
  <2>5. ASSUME NEW u \in Threads \ {t} PROVE r'[u] \in Queries /\ SameBut(r[u], r'[u])
    <3>1. r[u] \in Queries
      BY <1>3
    <3>2. CASE cacheGen # q.g
      <4>1. r'[u] = [r[u] EXCEPT !.ref.held = FALSE]
        BY <2>1, <3>2
      <4>2. QED
        BY <3>1, <4>1, RefDropped
    <3>3. CASE cacheGen = q.g
      <4>1. r'[u] = r[u]
        BY <2>1, <3>3
      <4>2. QED
        BY <3>1, <4>1 DEF SameBut
    <3>4. QED
      BY <3>2, <3>3
  <2>6. r' \in [Threads -> Queries]
    <3>1. DOMAIN r' = Threads /\ r' = [u \in Threads |-> r'[u]]
      BY <2>1
    <3>2. \A u \in Threads : r'[u] \in Queries
      BY <2>3, <2>4, <2>5
    <3>3. QED
      BY <3>1, <3>2
  <2>7. cacheGen' = r[t].g /\ r[t].pc = "acquire" /\ cache' = IF cacheGen # r[t].g THEN Empty ELSE cache
    BY <1>1, <1>2, <2>1
  <2>8. QED
    BY <1>2, <2>1, <2>2, <2>4, <2>5, <2>6, <2>7, Builds
<1>6. QED
  BY <1>4, <1>5

LEMMA InsertKeeps ==
  ASSUME RegistryInv, NEW t \in Threads, Insert(t)
  PROVE  RegistryInv'
<1>1. PICK q \in Queries : q = r[t]
  BY Stands
<1>2. /\ q.pc = "insert" /\ cache' = [cache EXCEPT ![q.key] = q.bit] /\ filler' = None
      /\ r' = [r EXCEPT ![t].ref = [bit |-> q.bit, held |-> TRUE], ![t].pc = "read"]
      /\ UNCHANGED <<overlayVars, n, gen, apply, cacheGen>>
  BY <1>1, Zenon DEF Insert
<1>3. PICK b \in BOOLEAN : b = q.bit
  BY DEF Queries
<1>4. PICK s : Referring(q, s, b)
  BY DEF Referring
<1>5. /\ s \in Queries /\ s.pc = "read" /\ s.inner = q.inner /\ s.key = q.key
      /\ s.g = q.g /\ s.quiet = q.quiet /\ s.stray = q.stray
  BY <1>3, <1>4, ReferringTyped DEF Holding
<1>6. r' = [r EXCEPT ![t] = s]
  <2>1. r \in [Threads -> Queries]
    BY Grounds
  <2>2. s = [q EXCEPT !.ref = [bit |-> q.bit, held |-> TRUE], !.pc = "read"]
    BY <1>3, <1>4 DEF Referring
  <2>3. QED
    BY <1>1, <1>2, <2>1, <2>2
<1>7. Shaped(gen, cacheGen, filler = t, q)
  BY <1>1, Stands
<1>8. (filler = t) = TRUE /\ (filler' = t) = FALSE
  BY <1>2, <1>7, NobodyIsNone DEF Shaped
<1>9. Shaped(gen, cacheGen, TRUE, q)
  BY <1>7, <1>8
<1>10. q.key \in Cals /\ q.inner = <<>> /\ q.g = cacheGen /\ q.g <= gen
  BY <1>2, <1>9 DEF Shaped
<1>11. Shaped(gen, cacheGen', FALSE, s)
  BY <1>2, <1>5, <1>10 DEF Shaped
<1>12. ASSUME Settled, q.g = gen, IsWeekday(RowsNow, q.key) PROVE b = RowsNow[q.key].open
  <2>1. Filling(RowsNow, q)
    BY <1>1, <1>8, <1>12, Stands
  <2>2. QED
    BY <1>2, <1>3, <1>4, <1>12, <2>1 DEF Filling
<1>13. s.quiet => apply.pc = "idle"
  BY <1>1, <1>5, Stands
<1>14. ASSUME s.quiet, ~s.stray, NEW v \in [Cals -> Answers], Agrees(RowsNow, v)
       PROVE  Faithful(RowsNow, gen, FALSE, s, v)
  <2>1. Faithful(RowsNow, gen, TRUE, q, v)
    BY <1>1, <1>5, <1>8, <1>14, Stands
  <2>2. AtCache(TRUE, q) /\ q.pc # "idle"
    BY <1>2 DEF AtCache
  <2>3. q.g = gen /\ Settled
    BY <1>13, <1>14, <2>1, <2>2 DEF Faithful, Settled
  <2>4. QED
    BY <1>3, <1>4, <1>12, <2>1, <2>2, <2>3, ReferringFaithful
<1>15. Left(t, s)
  BY <1>5, <1>8, <1>11, <1>13, <1>14 DEF Left
<1>16. LeftCache(t)
  <2>1. cacheGen \in 0..gen /\ cache \in [Cals -> BOOLEAN \cup {Unknown}]
    BY Grounds
  <2>2. cache' = [cache EXCEPT ![q.key] = b]
    BY <1>2, <1>3, <1>4
  <2>3. cache' \in [Cals -> BOOLEAN \cup {Unknown}]
    BY <2>1, <2>2
  <2>4. ASSUME NEW u \in Threads \ {t} PROVE (filler' = u) = (filler = u)
    BY <1>2, <1>8, NobodyIsNone
  <2>5. ASSUME Settled, cacheGen' = gen PROVE CacheTrue(RowsNow, cache')
    <3>1. CacheTrue(RowsNow, cache) /\ q.g = gen
      BY <1>2, <1>10, <2>5 DEF RegistryInv, QueryInv, CacheInv
    <3>2. ASSUME NEW k \in Cals, cache'[k] # Unknown, IsWeekday(RowsNow, k) PROVE cache'[k] = RowsNow[k].open
      <4>1. CASE k = q.key
        BY <1>12, <2>1, <2>2, <2>5, <3>1, <3>2, <4>1
      <4>2. CASE k # q.key
        <5>1. cache'[k] = cache[k]
          BY <2>1, <2>2, <4>2
        <5>2. QED
          BY <3>1, <3>2, <5>1 DEF CacheTrue
      <4>3. QED
        BY <4>1, <4>2
    <3>3. QED
      BY <3>2 DEF CacheTrue
  <2>6. QED
    BY <1>2, <2>1, <2>3, <2>4, <2>5 DEF LeftCache
<1>17. r' \in [Threads -> Queries] /\ r'[t] = s /\ \A u \in Threads \ {t} : SameBut(r[u], r'[u])
  <2>1. r \in [Threads -> Queries]
    BY Grounds
  <2>2. r' \in [Threads -> Queries] /\ r'[t] = s /\ \A u \in Threads \ {t} : r'[u] = r[u]
    BY <1>5, <1>6, <2>1
  <2>3. QED
    BY <2>2 DEF SameBut
<1>18. UNCHANGED <<overlayVars, n, gen, apply>>
  BY <1>2
<1>19. QED
  BY <1>15, <1>16, <1>17, <1>18, ThreadMoves

----------------------------------------------------------------------------
(* apply() steps.                                                          *)

LEMMA NobodyQuiet ==
  ASSUME \A t \in Threads : ~r'[t].quiet
  PROVE  QuietInv' /\ AnswerInv'
  BY DEF QuietInv, AnswerInv

LEMMA RestingQuery ==
  ASSUME NEW g \in Nat, NEW cg, NEW own, own = FALSE
  PROVE  NoQuery \in Queries /\ Shaped(g, cg, own, NoQuery) /\ ~NoQuery.quiet
<1>1. PICK q \in Queries : q = NoQuery
  BY NoQueryTyped
<1>2. q.pc = "idle" /\ q.g = 0 /\ q.inner = <<>> /\ q.quiet = FALSE
  BY <1>1 DEF NoQuery
<1>3. Shaped(g, cg, FALSE, q)
  BY <1>2 DEF Shaped
<1>4. ~q.quiet
  BY <1>2
<1>5. QED
  BY <1>1, <1>3, <1>4

LEMMA Disquieted ==
  ASSUME NEW q \in Queries, NEW s, s = [q EXCEPT !.quiet = FALSE]
  PROVE  /\ s \in Queries /\ ~s.quiet
         /\ \A g, cg, own : Shaped(g, cg, own, q) => Shaped(g, cg, own, s)
         /\ \A rows : Filling(rows, q) => Filling(rows, s)
         /\ s.g = q.g
<1>1. /\ s \in Queries /\ s.quiet = FALSE /\ s.pc = q.pc /\ s.cal = q.cal /\ s.view = q.view
      /\ s.frames = q.frames /\ s.inner = q.inner /\ s.key = q.key /\ s.g = q.g /\ s.bit = q.bit
  BY DEF Queries
<1>2. \A g, cg, own : Shaped(g, cg, own, q) => Shaped(g, cg, own, s)
  BY <1>1 DEF Shaped
<1>3. \A rows : Filling(rows, q) => Filling(rows, s)
  BY <1>1 DEF Filling
<1>4. ~s.quiet
  BY <1>1
<1>5. QED
  BY <1>1, <1>2, <1>3, <1>4

LEMMA LockKeepsQueries ==
  ASSUME RegistryInv, NEW b \in Batches, LockAndCheck(b)
  PROVE  QueryInv'
<1>1. /\ apply.pc = "idle" /\ apply' = [pc |-> "commit", batch |-> b]
      /\ r' = [t \in Threads |-> IF r[t].pc = "idle" THEN NoQuery ELSE [r[t] EXCEPT !.quiet = FALSE]]
      /\ cals' = cals /\ gen' = gen /\ cache' = cache /\ cacheGen' = cacheGen /\ filler' = filler
  BY DEF LockAndCheck, overlayVars, cacheVars
<1>2. Settled /\ Settled' /\ RowsNow' = RowsNow
  BY <1>1 DEF Settled, RowsNow, Current, Overlaid
<1>3. ASSUME NEW t \in Threads
      PROVE  /\ r'[t] \in Queries /\ ~r'[t].quiet /\ Shaped(gen, cacheGen, filler = t, r'[t])
             /\ filler = t /\ r'[t].g = gen => Filling(RowsNow, r'[t])
  <2>1. /\ r[t] \in Queries /\ Shaped(gen, cacheGen, filler = t, r[t])
        /\ filler = t /\ r[t].g = gen => Filling(RowsNow, r[t])
    BY <1>2, Stands
  <2>2. CASE r[t].pc = "idle"
    <3>1. r'[t] = NoQuery
      BY <1>1, <2>2
    <3>2. (filler = t) = FALSE
      BY <2>1, <2>2 DEF Shaped
    <3>3. QED
      BY <3>1, <3>2, RestingQuery, Grounds
  <2>3. CASE r[t].pc # "idle"
    <3>1. r'[t] = [r[t] EXCEPT !.quiet = FALSE]
      BY <1>1, <2>3
    <3>2. QED
      BY <2>1, <3>1, Disquieted
  <2>4. QED
    BY <2>2, <2>3
<1>4. ShapeInv'
  <2>1. r' \in [Threads -> Queries]
    <3>1. r' = [t \in Threads |-> r'[t]]
      BY <1>1
    <3>2. QED
      BY <1>3, <3>1
  <2>2. QED
    BY <1>1, <1>3, <2>1, Grounds DEF ShapeInv
<1>5. CacheInv'
  <2>1. cacheGen = gen => CacheTrue(RowsNow, cache)
    BY <1>2 DEF RegistryInv, QueryInv, CacheInv
  <2>2. QED
    BY <1>1, <1>2, <2>1 DEF CacheInv
<1>6. FillInv'
  BY <1>1, <1>2, <1>3 DEF FillInv
<1>7. QED
  BY <1>3, <1>4, <1>5, <1>6, NobodyQuiet DEF QueryInv

\* Dropping views moves nothing but where they say they come from.
AllDropped(fs) == [k \in DOMAIN fs |-> Dropped(fs[k])]

LEMMA FramesDropped ==
  ASSUME NEW fs \in Seq(Frame), NEW gs, gs = AllDropped(fs)
  PROVE  gs \in Seq(Frame) /\ (gs = <<>> <=> fs = <<>>)
<1>1. PICK L \in Nat : L = Len(fs) /\ DOMAIN fs = 1..L /\ \A k \in 1..L : fs[k] \in Frame
  BY FramesTyped
<1>2. ASSUME NEW f \in Frame PROVE Dropped(f) \in Frame
  <2>1. [f EXCEPT !.from = "dropped"] \in Frame
    BY DEF Frame, Froms
  <2>2. QED
    BY <2>1 DEF Dropped
<1>3. gs \in [1..L -> Frame]
  BY <1>1, <1>2 DEF AllDropped
<1>4. gs \in Seq(Frame) /\ Len(gs) = L
  BY <1>3, SeqDef, LenProperties
<1>5. QED
  BY <1>1, <1>4, FramesTyped

LEMMA ViewsDropped ==
  ASSUME NEW q \in Queries, NEW s, s = DropViews(q)
  PROVE  /\ s \in Queries /\ s.quiet = q.quiet
         /\ \A g, cg, own : Shaped(g, cg, own, q) => Shaped(g, cg, own, s)
<1>1. PICK fs, gs : fs = AllDropped(q.frames) /\ gs = AllDropped(q.inner)
  OBVIOUS
<1>2. /\ fs \in Seq(Frame) /\ (fs = <<>> <=> q.frames = <<>>)
      /\ gs \in Seq(Frame) /\ (gs = <<>> <=> q.inner = <<>>)
  <2>1. q.frames \in Seq(Frame) /\ q.inner \in Seq(Frame)
    BY DEF Queries
  <2>2. QED
    BY <1>1, <2>1, FramesDropped
<1>3. PICK w \in Views : w = Dropped(q.view)
  <2>1. q.view \in Views
    BY DEF Queries, Views
  <2>2. ASSUME NEW u \in Views PROVE [u EXCEPT !.from = "dropped"] \in Views
    BY DEF Views, Froms
  <2>3. QED
    BY <2>1, <2>2 DEF Dropped
<1>4. s = [q EXCEPT !.view = w, !.frames = fs, !.inner = gs]
  BY <1>1, <1>3, Zenon DEF DropViews, AllDropped
<1>5. /\ s \in Queries /\ s.quiet = q.quiet /\ s.pc = q.pc /\ s.cal = q.cal
      /\ s.frames = fs /\ s.inner = gs /\ s.key = q.key /\ s.g = q.g
  BY <1>2, <1>4 DEF Queries, Views
<1>6. \A g, cg, own : Shaped(g, cg, own, q) => Shaped(g, cg, own, s)
  BY <1>2, <1>5 DEF Shaped
<1>7. QED
  BY <1>5, <1>6

\* Nobody is quiet while an apply() runs.
LEMMA Disturbed ==
  ASSUME RegistryInv, apply.pc # "idle", UNCHANGED r
  PROVE  QuietInv' /\ AnswerInv'
<1>1. \A t \in Threads : ~r'[t].quiet
  BY DEF RegistryInv, QueryInv, QuietInv
<1>2. QED
  BY <1>1, NobodyQuiet

LEMMA CommitKeepsQueries ==
  ASSUME RegistryInv, CommitRows
  PROVE  QueryInv'
<1>1. PICK b : b = apply.batch
  OBVIOUS
<1>2. /\ apply.pc = "commit" /\ apply' = [apply EXCEPT !.pc = "count"]
      /\ r' = IF b.clear THEN [t \in Threads |-> DropViews(r[t])] ELSE r
      /\ gen' = gen /\ cache' = cache /\ cacheGen' = cacheGen /\ filler' = filler
  BY <1>1 DEF CommitRows, cacheVars
<1>3. ~Settled'
  <2>1. apply'.pc = "count"
    BY <1>2 DEF RegistryInv, OverlayInv, ApplyInv
  <2>2. QED
    BY <2>1 DEF Settled
<1>4. ASSUME NEW t \in Threads
      PROVE  r'[t] \in Queries /\ ~r'[t].quiet /\ Shaped(gen, cacheGen, filler = t, r'[t])
  <2>1. r[t] \in Queries /\ Shaped(gen, cacheGen, filler = t, r[t]) /\ ~r[t].quiet
    BY <1>2, Stands
  <2>2. CASE b.clear
    <3>1. r'[t] = DropViews(r[t])
      BY <1>2, <2>2
    <3>2. QED
      BY <2>1, <3>1, ViewsDropped
  <2>3. CASE ~b.clear
    BY <1>2, <2>1, <2>3
  <2>4. QED
    BY <2>2, <2>3
<1>5. ShapeInv'
  <2>1. r' \in [Threads -> Queries]
    <3>1. r' = [t \in Threads |-> r'[t]]
      BY <1>2, Grounds
    <3>2. QED
      BY <1>4, <3>1
  <2>2. QED
    BY <1>2, <1>4, <2>1, Grounds DEF ShapeInv
<1>6. CacheInv' /\ FillInv'
  BY <1>3 DEF CacheInv, FillInv
<1>7. QED
  BY <1>4, <1>5, <1>6, NobodyQuiet DEF QueryInv

LEMMA StoreKeepsQueries ==
  ASSUME RegistryInv, StoreCount
  PROVE  QueryInv'
<1>1. apply.pc = "count" /\ apply' = [apply EXCEPT !.pc = "bump"] /\ UNCHANGED <<gen, cacheVars, r>>
  BY DEF StoreCount
<1>2. ~Settled'
  <2>1. apply'.pc = "bump"
    BY <1>1 DEF RegistryInv, OverlayInv, ApplyInv
  <2>2. QED
    BY <2>1 DEF Settled
<1>3. ShapeInv'
  BY <1>1 DEF cacheVars, RegistryInv, QueryInv, ShapeInv
<1>4. CacheInv' /\ FillInv'
  BY <1>2 DEF CacheInv, FillInv
<1>5. QED
  BY <1>1, <1>3, <1>4, Disturbed DEF QueryInv

\* No bitmap is yet of the new generation.
LEMMA BumpKeepsQueries ==
  ASSUME RegistryInv, BumpGeneration
  PROVE  QueryInv'
<1>1. apply.pc = "bump" /\ gen' = gen + 1 /\ UNCHANGED <<cacheVars, r>>
  BY DEF BumpGeneration
<1>2. cacheGen' = cacheGen /\ cache' = cache /\ filler' = filler /\ r' = r
  BY <1>1 DEF cacheVars
<1>3. gen \in Nat /\ cacheGen \in 0..gen
  BY Grounds
<1>4. ASSUME NEW t \in Threads PROVE r[t].g # gen' /\ Shaped(gen', cacheGen, filler = t, r[t])
  <2>1. Shaped(gen, cacheGen, filler = t, r[t]) /\ r[t] \in Queries
    BY Stands
  <2>2. r[t].g \in Nat /\ r[t].g <= gen
    BY <2>1 DEF Queries, Shaped
  <2>3. r[t].g <= gen' /\ r[t].g # gen'
    BY <1>1, <1>3, <2>2
  <2>4. QED
    BY <2>1, <2>3 DEF Shaped
<1>5. ShapeInv'
  <2>1. gen' \in Nat /\ cacheGen \in 0..gen'
    BY <1>1, <1>3
  <2>2. QED
    BY <1>2, <1>4, <2>1, Grounds DEF ShapeInv
<1>6. CacheInv'
  BY <1>1, <1>2, <1>3 DEF CacheInv
<1>7. FillInv'
  BY <1>2, <1>4 DEF FillInv
<1>8. QED
  BY <1>1, <1>5, <1>6, <1>7, Disturbed DEF QueryInv

LEMMA UnlockKeepsQueries ==
  ASSUME RegistryInv, Unlock
  PROVE  QueryInv'
<1>1. /\ apply.pc = "return" /\ apply' = [pc |-> "idle", batch |-> NoBatch]
      /\ UNCHANGED <<overlayVars, n, gen, cacheVars, r>>
  BY DEF Unlock
<1>2. Settled /\ Settled' /\ RowsNow' = RowsNow
  BY <1>1 DEF Settled, RowsNow, Current, Overlaid, overlayVars
<1>3. ShapeInv'
  BY <1>1 DEF cacheVars, RegistryInv, QueryInv, ShapeInv
<1>4. CacheInv' /\ FillInv'
  BY <1>1, <1>2 DEF cacheVars, RegistryInv, QueryInv, CacheInv, FillInv
<1>5. QED
  BY <1>1, <1>3, <1>4, Disturbed DEF QueryInv

LEMMA RegistryInit == Init => RegistryInv
<1> SUFFICES ASSUME Init PROVE RegistryInv
  OBVIOUS
<1>1. OverlayInv
  BY OverlayInit
<1>2. gen = 0 /\ cacheGen = 0 /\ cache = Empty /\ filler = None /\ r = [t \in Threads |-> NoQuery] /\ apply.pc = "idle"
  BY DEF Init
<1>3. ASSUME NEW t \in Threads
      PROVE  /\ (filler = t) = FALSE /\ r[t] = NoQuery /\ NoQuery \in Queries
             /\ Shaped(gen, cacheGen, filler = t, r[t]) /\ ~r[t].quiet
  <2>1. (filler = t) = FALSE /\ r[t] = NoQuery /\ gen \in Nat
    BY <1>2, NobodyIsNone
  <2>2. QED
    BY <2>1, RestingQuery
<1>4. ShapeInv
  <2>1. r \in [Threads -> Queries]
    BY <1>2, <1>3
  <2>2. cache \in [Cals -> BOOLEAN \cup {Unknown}]
    BY <1>2 DEF Empty
  <2>3. gen \in Nat /\ cacheGen \in 0..gen /\ filler \in Threads \cup {None}
    BY <1>2
  <2>4. QED
    BY <1>3, <2>1, <2>2, <2>3 DEF ShapeInv
<1>5. CacheInv
  BY <1>2 DEF CacheInv, CacheTrue, Empty
<1>6. QuietInv /\ FillInv /\ AnswerInv
  BY <1>2, <1>3 DEF QuietInv, FillInv, AnswerInv
<1>7. QED
  BY <1>1, <1>4, <1>5, <1>6 DEF RegistryInv, QueryInv

LEMMA RegistryStutters ==
  ASSUME RegistryInv, UNCHANGED vars
  PROVE  RegistryInv'
<1>1. UNCHANGED <<overlayVars, n, gen, apply, cacheVars, r>>
  BY DEF vars, overlayVars, cacheVars
<1>2. OverlayInv'
  BY <1>1, QueriesOnlyRead DEF RegistryInv
<1>3. RowsNow' = RowsNow /\ Settled' = Settled
  BY <1>1 DEF Settled, RowsNow, Current, Overlaid, overlayVars
<1>4. ShapeInv'
  BY <1>1 DEF cacheVars, RegistryInv, QueryInv, ShapeInv
<1>5. QuietInv'
  BY <1>1 DEF RegistryInv, QueryInv, QuietInv
<1>6. CacheInv' /\ FillInv'
  BY <1>1, <1>3 DEF cacheVars, RegistryInv, QueryInv, CacheInv, FillInv
<1>7. AnswerInv'
  BY <1>1, <1>3 DEF cacheVars, RegistryInv, QueryInv, AnswerInv
<1>8. QED
  BY <1>2, <1>4, <1>5, <1>6, <1>7 DEF RegistryInv, QueryInv

LEMMA ThreadKeeps ==
  ASSUME RegistryInv, NEW t \in Threads, (\E c \in Cals : Query(t, c)) \/ Step(t)
  PROVE  RegistryInv'
<1>1. CASE \E c \in Cals : Query(t, c)
  BY <1>1, QueryKeeps
<1>2. CASE LoadCount(t) \/ ScanOverlay(t) \/ UnknownCalendar(t) \/ WeekendRow(t) \/ JointRow(t)
  BY <1>2, LoadCountKeeps, ScanOverlayKeeps, UnknownKeeps, WeekendKeeps, JointKeeps
<1>3. CASE NextLeg(t) \/ BrokenLeg(t) \/ LegsDone(t) \/ WeekdayRow(t) \/ Probe(t)
  BY <1>3, NextLegKeeps, BrokenLegKeeps, LegsDoneKeeps, WeekdayRowKeeps, ProbeKeeps
<1>4. CASE Acquire(t) \/ HolidaysOf(t) \/ UnionDone(t) \/ Insert(t) \/ ReadBit(t)
  BY <1>4, AcquireKeeps, HolidaysOfKeeps, UnionDoneKeeps, InsertKeeps, ReadBitKeeps
<1>5. QED
  BY <1>1, <1>2, <1>3, <1>4 DEF Step

LEMMA RegistryStep == RegistryInv /\ [Next]_vars => RegistryInv'
<1> SUFFICES ASSUME RegistryInv, [Next]_vars PROVE RegistryInv'
  OBVIOUS
<1>1. ASSUME NEW b \in Batches, LockAndCheck(b) PROVE RegistryInv'
  BY <1>1, LockKeeps, LockKeepsQueries DEF RegistryInv
<1>2. CASE Apply
  <2>1. OverlayInv'
    BY <1>2, CommitKeeps, StoreKeeps, BumpOrUnlockKeeps DEF Apply, RegistryInv
  <2>2. QueryInv'
    BY <1>2, CommitKeepsQueries, StoreKeepsQueries, BumpKeepsQueries, UnlockKeepsQueries DEF Apply
  <2>3. QED
    BY <2>1, <2>2 DEF RegistryInv
<1>3. CASE \E t \in Threads : (\E c \in Cals : Query(t, c)) \/ Step(t)
  BY <1>3, ThreadKeeps
<1>4. CASE UNCHANGED vars
  BY <1>4, RegistryStutters
<1>5. QED
  BY <1>1, <1>2, <1>3, <1>4 DEF Next

----------------------------------------------------------------------------
(* The theorems.                                                           *)

\* Whoever holds mu_, shared or not, outside an apply() reads an overlay_n_ that counts
\* the rows: skipping the lock on a zero skips nothing.
THEOREM LockedSnapshotIsConsistent == Spec => []SnapshotIsConsistent
<1>1. OverlayInv => SnapshotIsConsistent
  BY DEF OverlayInv, CountInv, Total, SnapshotIsConsistent
<1>2. QED
  BY <1>1, OverlayInvariant, PTL

\* No sequence of batches, clears included, leaves a fixing source without its index.
THEOREM SourcesKeepIndices == Spec => []SourcesHaveIndices
<1>1. OverlayInv => SourcesHaveIndices
  BY DEF OverlayInv, SourcesInv
<1>2. QED
  BY <1>1, OverlayInvariant, PTL

\* A query that no apply() overlapped, and that read nothing a clear had dropped, gives the
\* answer of every reading of the rows of the moment, and there is such a reading: whatever
\* the other threads did to the year cache, under which generation, and wherever they were
\* when a batch was committed.
THEOREM QuietQueriesAreExact == Spec => []QuietQueryIsExact
<1>1. RegistryInv => QuietQueryIsExact
  <2> SUFFICES ASSUME RegistryInv, NEW t \in Threads, r[t].pc = "idle", r[t].quiet, ~r[t].stray
               PROVE  Verdicts # {} /\ \A v \in Verdicts : r[t].ans = v[r[t].asked]
    BY DEF QuietQueryIsExact
  <2>1. cals \in Seq(OverlayRows) /\ RowsNow \in [Cals -> Rows \cup {Unknown}]
    BY Grounds
  <2>2. \A v : Agree(v) <=> Agrees(RowsNow, v)
    BY <2>1, AgreeIsAgrees
  <2>3. Verdicts = {v \in [Cals -> Answers] : Agrees(RowsNow, v)}
    BY <2>2 DEF Verdicts, Answers
  <2>4. Verdicts # {}
    BY <2>1, <2>3, AgreeingExist
  <2>5. ASSUME NEW v \in Verdicts PROVE r[t].ans = v[r[t].asked]
    <3>1. v \in [Cals -> Answers] /\ Agrees(RowsNow, v)
      BY <2>3
    <3>2. Faithful(RowsNow, gen, filler = t, r[t], v)
      BY <3>1, Stands
    <3>3. QED
      BY <3>2 DEF Faithful
  <2>6. QED
    BY <2>4, <2>5
<1>2. Spec => []RegistryInv
  BY RegistryInit, RegistryStep, PTL DEF Spec
<1>3. QED
  BY <1>1, <1>2, PTL
=============================================================================
