-------------------------- MODULE IngestJobProofs --------------------------
(***************************************************************************)
(* Theorems about IngestJob, for any coins, settings, prices and replies:  *)
(* its executions read the listing as Listing says, so that they miss no   *)
(* steady coin, the snapshots are spaced and show the measurements of      *)
(* their time, the derived columns stay in bounds, and no slot of the RPC  *)
(* client is lost.                                                         *)
(***************************************************************************)
EXTENDS IngestJob, ListingProofs, FiniteSetTheorems

AfterSave == {"choose", "ask", "backfill", "done"}

\* The tables' rows are whole; in an execution whose snapshots are committed
\* every listed coin has one, and until the targets are chosen there are none.
Kept ==
  /\ now \in Nat
  /\ stamp \in Nat
  /\ snaps \in [Mints -> Seq(SnapshotRow)]
  /\ holders \in [Mints -> Seq(HolderRow)]
  /\ listed \subseteq Mints
  /\ epc \in {"asleep", "fetch", "save", "choose"} => target = {}
  /\ epc = "ask" =>
       /\ target \subseteq Mints
       /\ answers \in [target -> 0 .. 100 \cup {Null, Unreadable, Unsent, Sent}]
  /\ epc \in AfterSave => \A m \in listed : Len(snaps[m]) > 0

-----------------------------------------------------------------------------
(* The reading *)

\* What an execution does between its reading's steps leaves the reading alone.
LEMMA StepReads == [Next]_vars => [ListNext]_listVars
<1> SUFFICES ASSUME [Next]_vars PROVE [ListNext]_listVars
  OBVIOUS
<1>1. CASE Start
  BY <1>1, IngestJobAssumption DEF Start, ListNext
<1>2. CASE Move
  BY <1>2 DEF Move, ListNext
<1>3. CASE Read
  BY <1>3 DEF Read, ListNext, ClientSteps
<1>4. CASE Normalize
  BY <1>4 DEF Normalize, ListNext
<1>5. CASE ReadingRaises
  BY <1>5 DEF ReadingRaises, ListNext, ClientSteps
<1>6. CASE Enrich \/ Return \/ Abandon
  BY <1>6 DEF Enrich, Return, Abandon
<1>7. CASE UNCHANGED vars
  BY <1>7 DEF vars
<1> QED
  BY <1>1, <1>2, <1>3, <1>4, <1>5, <1>6, <1>7 DEF Next, Proceed, Rest

\* Seen from the listing, a sequence of executions is a sequence of readings
\* (ingest_latest_coins drives iter_coins_pages and closes its client).
THEOREM ReadsAsListing == Spec => ListSpec
  BY StepReads, PTL DEF Spec, Init, ListSpec

\* No execution that reads the listing to its end misses a coin that did not
\* move towards the front (iter_coins_pages, line 112).
THEOREM JobReadsSteadyCoins == Spec => []OnlyMoversAreMissed
  BY ReadsAsListing, SteadyCoinsAreRead, PTL

-----------------------------------------------------------------------------
(* The rows *)

LEMMA QuotientIsNat == ASSUME NEW a \in Nat, NEW b \in Nat \ {0}
                       PROVE  a \div b \in Nat
  OBVIOUS

LEMMA RatioIsNat == ASSUME NEW prev \in Nat \ {0}, NEW cap \in Nat
                    PROVE  Ratio(prev, cap) \in Nat
<1>1. CASE cap >= prev
  <2>1. 10000 * (cap - prev) \in Nat
    BY <1>1
  <2>2. (10000 * (cap - prev)) \div prev \in Nat
    BY <2>1, QuotientIsNat
  <2> QED
    BY <1>1, <2>2 DEF Ratio
<1>2. CASE cap < prev
  <2>1. 1000 * prev \in Nat /\ prev + 10 * (prev - cap) \in Nat \ {0}
    BY <1>2
  <2>2. (1000 * prev) \div (prev + 10 * (prev - cap)) \in Nat
    BY <2>1, QuotientIsNat
  <2> QED
    BY <1>2, <2>2 DEF Ratio
<1> QED
  BY <1>1, <1>2

\* Back-filling keeps the rows whole and as many (_backfill_volume_and_ratio).
LEMMA BackfilledIsWhole ==
  ASSUME NEW rows \in Seq(SnapshotRow), NEW begun
  PROVE  /\ Backfilled(rows, begun) \in Seq(SnapshotRow)
         /\ Len(Backfilled(rows, begun)) = Len(rows)
<1> DEFINE n == Len(rows)
<1>1. n \in Nat /\ DOMAIN rows = 1 .. n /\ \A i \in 1 .. n : rows[i] \in SnapshotRow
  OBVIOUS
<1>2. ASSUME NEW i \in 1 .. n, i > 1 PROVE Filled(rows, i) \in SnapshotRow
  <2>1. i - 1 \in 1 .. n
    BY <1>1, <1>2
  <2> DEFINE prev == rows[i - 1].cap
             cap == rows[i].cap
  <2>2. prev \in Nat \cup {Null} /\ cap \in Nat \cup {Null} /\ rows[i] \in SnapshotRow
    BY <1>1, <2>1 DEF SnapshotRow
  <2>3. CASE prev = Null \/ cap = Null
    BY <2>2, <2>3 DEF Filled
  <2>4. CASE prev # Null /\ cap # Null
    <3>1. prev \in Nat /\ cap \in Nat
      BY <2>2, <2>4
    <3>2. Distance(prev, cap) \in Nat
      BY <3>1 DEF Distance
    <3> DEFINE ratio == IF prev <= 0 THEN rows[i].ratio ELSE Ratio(prev, cap)
    <3>3. ratio \in Nat \cup {Null}
      <4>1. CASE prev <= 0
        BY <2>2, <4>1 DEF SnapshotRow
      <4>2. CASE ~(prev <= 0)
        <5>1. prev \in Nat \ {0}
          BY <3>1, <4>2
        <5> QED
          BY <3>1, <4>2, <5>1, RatioIsNat
      <4> QED
        BY <4>1, <4>2
    <3>4. Filled(rows, i) =
            [rows[i] EXCEPT !.volume = Distance(prev, cap), !.ratio = ratio]
      BY <2>4 DEF Filled
    <3> HIDE DEF ratio
    <3> QED
      BY <2>2, <3>2, <3>3, <3>4 DEF SnapshotRow
  <2> QED
    BY <2>3, <2>4
<1>3. Backfilled(rows, begun) \in [1 .. n -> SnapshotRow]
  BY <1>1, <1>2 DEF Backfilled, Precedes
<1> QED
  BY <1>1, <1>3, FunctionIsSequence

\* ... and changes neither the times nor the concentrations.
LEMMA OthersStay ==
  ASSUME NEW rows \in Seq(SnapshotRow), NEW i \in 1 .. Len(rows), NEW begun
  PROVE  /\ Backfilled(rows, begun)[i].at = rows[i].at
         /\ Backfilled(rows, begun)[i].top = rows[i].top
<1>1. rows[i] \in SnapshotRow
  OBVIOUS
<1>2. Filled(rows, i).at = rows[i].at /\ Filled(rows, i).top = rows[i].top
  BY <1>1 DEF Filled, SnapshotRow
<1> QED
  BY <1>2 DEF Backfilled

\* The concentration goes to the newest row (WithTop).
LEMMA TopIsWritten ==
  ASSUME NEW m \in Mints, snaps[m] \in Seq(SnapshotRow),
         NEW pct \in Nat \cup {Null}, NEW rows, rows = WithTop(m, pct)
  PROVE  /\ rows \in Seq(SnapshotRow) /\ Len(rows) = Len(snaps[m])
         /\ \A i \in 1 .. Len(snaps[m]) :
              /\ rows[i].at = snaps[m][i].at /\ rows[i].cap = snaps[m][i].cap
              /\ rows[i].volume = snaps[m][i].volume
              /\ rows[i].ratio = snaps[m][i].ratio
              /\ rows[i] = snaps[m][i] \/ (i = Len(snaps[m]) /\ rows[i].top = pct)
<1> DEFINE n == Len(snaps[m])
<1>1. /\ n \in Nat /\ DOMAIN snaps[m] = 1 .. n
      /\ \A i \in 1 .. n : snaps[m][i] \in SnapshotRow
  OBVIOUS
<1>2. ASSUME NEW i \in 1 .. n
      PROVE  /\ rows[i] \in SnapshotRow
             /\ rows[i].at = snaps[m][i].at /\ rows[i].cap = snaps[m][i].cap
             /\ rows[i].volume = snaps[m][i].volume
             /\ rows[i].ratio = snaps[m][i].ratio
             /\ rows[i] = snaps[m][i] \/ (i = n /\ rows[i].top = pct)
  <2>1. rows[i] = IF i = n THEN [snaps[m][i] EXCEPT !.top = pct] ELSE snaps[m][i]
    BY <1>1 DEF WithTop, Newest
  <2>2. snaps[m][i] \in SnapshotRow
    BY <1>1
  <2> QED
    BY <2>1, <2>2 DEF SnapshotRow
<1>3. rows \in [1 .. n -> SnapshotRow]
  BY <1>1, <1>2 DEF WithTop
<1>4. rows \in Seq(SnapshotRow) /\ Len(rows) = n
  BY <1>1, <1>3, FunctionIsSequence
<1> QED
  BY <1>2, <1>4

-----------------------------------------------------------------------------
(* The executions *)

LEMMA InitKept == Init => Kept
<1> SUFFICES ASSUME Init PROVE Kept
  OBVIOUS
<1>1. /\ snaps \in [Mints -> Seq(SnapshotRow)]
      /\ holders \in [Mints -> Seq(HolderRow)]
  BY EmptyIsSequence DEF Init, EnrichInit
<1> QED
  BY <1>1 DEF Init, EnrichInit, Kept, AfterSave

\* What Save makes of the table.
SavedWith(quote, begun) ==
  snaps' = [m \in Mints |->
    IF m \in listed /\ Due(m, now')
      THEN Backfilled(Append(snaps[m], NewRow(quote[m])), begun) ELSE snaps[m]]

\* A coin that is listed and due gets a row with the execution's stamp; no row's
\* time or concentration changes.
LEMMA SaveRows ==
  ASSUME Kept, Save, NEW m \in Mints
  PROVE  LET n == Len(snaps[m])
         IN /\ snaps'[m] \in Seq(SnapshotRow)
            /\ \/ /\ m \in listed /\ Due(m, now')
                  /\ Len(snaps'[m]) = n + 1
                  /\ snaps'[m][n + 1].at = stamp /\ snaps'[m][n + 1].top = Null
                  /\ \A i \in 1 .. n : /\ snaps'[m][i].at = snaps[m][i].at
                                       /\ snaps'[m][i].top = snaps[m][i].top
               \/ ~(m \in listed /\ Due(m, now')) /\ snaps'[m] = snaps[m]
<1>1. PICK lag \in Lags, quote \in Quotes, begun \in now .. now' :
        now' = now + lag /\ SavedWith(quote, begun)
  BY DEF Save, SavedWith
<1> DEFINE n == Len(snaps[m])
           row == NewRow(quote[m])
           rows == Append(snaps[m], row)
<1>2. snaps[m] \in Seq(SnapshotRow) /\ n \in Nat /\ stamp \in Nat
  BY DEF Kept
<1>3. CASE m \in listed /\ Due(m, now')
  <2>1. row \in SnapshotRow /\ row.at = stamp /\ row.top = Null
    BY <1>1, <1>2, EnrichmentAssumption DEF NewRow, SnapshotRow
  <2>2. snaps'[m] = Backfilled(rows, begun)
    BY <1>1, <1>3 DEF SavedWith
  <2> HIDE DEF row
  <2>3. /\ rows \in Seq(SnapshotRow) /\ Len(rows) = n + 1 /\ rows[n + 1] = row
        /\ \A i \in 1 .. n : rows[i] = snaps[m][i]
    BY <1>2, <2>1
  <2> HIDE DEF rows
  <2>4. /\ snaps'[m] \in Seq(SnapshotRow) /\ Len(snaps'[m]) = n + 1
        /\ \A i \in 1 .. n + 1 : /\ snaps'[m][i].at = rows[i].at
                                 /\ snaps'[m][i].top = rows[i].top
    BY <2>2, <2>3, BackfilledIsWhole, OthersStay
  <2>5. snaps'[m][n + 1].at = stamp /\ snaps'[m][n + 1].top = Null
    BY <1>2, <2>1, <2>3, <2>4
  <2>6. \A i \in 1 .. n : /\ snaps'[m][i].at = snaps[m][i].at
                         /\ snaps'[m][i].top = snaps[m][i].top
    BY <1>2, <2>3, <2>4
  <2> QED
    BY <1>3, <2>4, <2>5, <2>6
<1>4. CASE ~(m \in listed /\ Due(m, now'))
  BY <1>1, <1>2, <1>4 DEF SavedWith
<1> QED
  BY <1>3, <1>4

LEMMA SaveKeeps == ASSUME Kept, Save PROVE Kept'
<1>1. ASSUME NEW m \in Mints, m \in listed PROVE Len(snaps'[m]) > 0
  <2>1. Len(snaps[m]) \in Nat /\ DOMAIN snaps[m] = 1 .. Len(snaps[m])
    BY DEF Kept
  <2>2. CASE Due(m, now')
    BY <1>1, <2>1, <2>2, SaveRows
  <2>3. CASE ~Due(m, now')
    <3>1. snaps'[m] = snaps[m]
      BY <2>3, SaveRows
    <3>2. \E i \in DOMAIN snaps[m] : TRUE
      BY <2>3 DEF Due
    <3> QED
      BY <2>1, <3>1, <3>2
  <2> QED
    BY <2>2, <2>3
<1>2. snaps' \in [Mints -> Seq(SnapshotRow)]
  BY SaveRows DEF Save
<1>3. now' \in Nat
  BY EnrichmentAssumption DEF Save, Kept
<1> QED
  BY <1>1, <1>2, <1>3 DEF Kept, Save, AfterSave

\* The parser gives a percentage, since the largest account holds no more than all
\* of them, or NULL, or the mark of what it cannot read.
LEMMA ParsedIsShare ==
  ASSUME NEW reply \in Replies
  PROVE  Parsed(reply) \in 0 .. 100 \cup {Null, Unreadable}
<1>1. CASE reply \in {Failed, Unreadable}
  BY <1>1 DEF Parsed
<1>2. CASE reply \notin {Failed, Unreadable}
  <2>1. reply.total \in Nat /\ reply.largest \in 0 .. reply.total
    BY <1>2, EnrichmentAssumption
  <2>2. CASE reply.total = 0
    BY <1>2, <2>2 DEF Parsed
  <2>3. CASE reply.total # 0
    <3> DEFINE a == 100 * reply.largest
               b == reply.total
    <3>1. a \in Nat /\ b \in Nat \ {0} /\ a <= 100 * b
      BY <2>1, <2>3
    <3> HIDE DEF a, b
    <3>2. a \div b \in 0 .. 100
      BY <3>1
    <3> QED
      BY <1>2, <2>3, <3>2 DEF Parsed, a, b
  <2> QED
    BY <2>2, <2>3
<1> QED
  BY <1>1, <1>2

LEMMA LastPctIs == ASSUME Kept, NEW m \in Mints, Measured(m)
                   PROVE  LastPct(m) \in Nat \cup {Null}
<1>1. holders[m] \in Seq(HolderRow) /\ holders[m] # <<>>
  BY DEF Kept, Measured
<1>2. holders[m][Len(holders[m])] \in HolderRow
  BY <1>1
<1>3. \A row \in HolderRow : row.pct \in Nat \cup {Null}
  BY DEF HolderRow
<1> QED
  BY <1>2, <1>3 DEF LastPct

\* The last transaction leaves every row its time, price, volume and ratio, and
\* gives the newest row of a listed coin that was measured the measurement.
LEMMA BackfillRows ==
  ASSUME Kept, BackfillTop, NEW m \in Mints
  PROVE  /\ snaps'[m] \in Seq(SnapshotRow) /\ Len(snaps'[m]) = Len(snaps[m])
         /\ \A i \in 1 .. Len(snaps[m]) :
              /\ snaps'[m][i].at = snaps[m][i].at
              /\ snaps'[m][i].cap = snaps[m][i].cap
              /\ snaps'[m][i].volume = snaps[m][i].volume
              /\ snaps'[m][i].ratio = snaps[m][i].ratio
              /\ \/ snaps'[m][i] = snaps[m][i]
                 \/ /\ i = Len(snaps[m]) /\ Measured(m)
                    /\ snaps'[m][i].top = LastPct(m)
<1>1. snaps[m] \in Seq(SnapshotRow)
  BY DEF Kept
<1>2. CASE m \in listed /\ Measured(m)
  <2>1. snaps'[m] = WithTop(m, LastPct(m))
    BY <1>2 DEF BackfillTop
  <2>2. LastPct(m) \in Nat \cup {Null}
    BY <1>2, LastPctIs
  <2> DEFINE pct == LastPct(m)
  <2>3. pct = LastPct(m) /\ pct \in Nat \cup {Null}
    BY <2>2
  <2> HIDE DEF pct
  <2>4. snaps'[m] = WithTop(m, pct)
    BY <2>1, <2>3
  <2> QED
    BY <1>1, <1>2, <2>3, <2>4, TopIsWritten
<1>3. CASE ~(m \in listed /\ Measured(m))
  BY <1>1, <1>3 DEF BackfillTop
<1> QED
  BY <1>2, <1>3

LEMMA BackfillKeeps == ASSUME Kept, BackfillTop PROVE Kept'
<1>1. snaps' \in [Mints -> Seq(SnapshotRow)]
  BY BackfillRows DEF BackfillTop
<1> QED
  BY <1>1, BackfillRows DEF Kept, BackfillTop, AfterSave

LEMMA CallsKeep ==
  ASSUME Kept, NEW m \in target, Send(m) \/ Answer(m)
  PROVE  Kept'
<1>1. CASE Send(m)
  BY <1>1 DEF Kept, Send, tables, AfterSave
<1>2. CASE Answer(m)
  <2>1. PICK reply \in Replies : answers' = [answers EXCEPT ![m] = Parsed(reply)]
    BY <1>2 DEF Answer
  <2>2. answers' \in [target -> 0 .. 100 \cup {Null, Unreadable, Unsent, Sent}]
    BY <1>2, <2>1, ParsedIsShare DEF Kept, Answer
  <2> QED
    BY <1>2, <2>2 DEF Kept, Answer, tables, AfterSave
<1> QED
  BY <1>1, <1>2

LEMMA StoreKeeps == ASSUME Kept, Store PROVE Kept'
<1>1. ASSUME NEW m \in Mints PROVE holders'[m] \in Seq(HolderRow)
  <2>1. CASE m \in target
    <3>1. [at |-> stamp, pct |-> answers[m]] \in HolderRow
      BY <2>1 DEF Kept, Store, AllAnswered, HolderRow
    <3> QED
      BY <2>1, <3>1 DEF Kept, Store
  <2>2. CASE m \notin target
    BY <2>2 DEF Kept, Store
  <2> QED
    BY <2>1, <2>2
<1>2. holders' \in [Mints -> Seq(HolderRow)]
  BY <1>1 DEF Store
<1> QED
  BY <1>2 DEF Kept, Store, AfterSave

LEMMA ChooseKeeps == ASSUME Kept, SkipHolders \/ ChooseTargets PROVE Kept'
<1>1. CASE SkipHolders
  BY <1>1 DEF Kept, SkipHolders, tables, AfterSave
<1>2. CASE ChooseTargets
  <2>1. target' \subseteq listed /\ answers' = [m \in target' |-> Unsent]
    BY <1>2 DEF ChooseTargets
  <2> QED
    BY <1>2, <2>1 DEF Kept, ChooseTargets, tables, AfterSave
<1> QED
  BY <1>1, <1>2

LEMMA OverKeeps == ASSUME Kept, Over, UNCHANGED tables PROVE Kept'
  BY DEF Kept, Over, tables, AfterSave

LEMMA EnrichKeeps == ASSUME Kept, EnrichSteps PROVE Kept'
  BY SaveKeeps, ChooseKeeps, CallsKeep, StoreKeeps, BackfillKeeps, OverKeeps
  DEF EnrichSteps, ParseRaises

LEMMA StartKeeps == ASSUME Kept, Start PROVE Kept'
<1>1. PICK d \in Delays : now' = now + d
  BY DEF Start
<1>2. now' \in Nat
  BY <1>1, IngestJobAssumption DEF Kept
<1> QED
  BY <1>2 DEF Kept, Start, AfterSave

LEMMA NormalizeKeeps == ASSUME Kept, Normalize PROVE Kept'
  BY DEF Kept, Normalize, Accepted, AfterSave

LEMMA StutterKeeps == ASSUME Kept, UNCHANGED enrichVars PROVE Kept'
  BY DEF Kept, enrichVars, AfterSave

LEMMA JobNextKeeps == Kept /\ [Next]_vars => Kept'
<1> SUFFICES ASSUME Kept, [Next]_vars PROVE Kept'
  OBVIOUS
<1>1. CASE Start
  BY <1>1, StartKeeps
<1>2. CASE Move \/ Read
  BY <1>2, StutterKeeps DEF Move, Read
<1>3. CASE Normalize
  BY <1>3, NormalizeKeeps
<1>4. CASE ReadingRaises
  BY <1>4, StutterKeeps, OverKeeps DEF ReadingRaises
<1>5. CASE Enrich
  BY <1>5, EnrichKeeps DEF Enrich
<1>6. CASE Return \/ Abandon
  BY <1>6, OverKeeps DEF Return, Abandon
<1>7. CASE UNCHANGED vars
  BY <1>7, StutterKeeps DEF vars
<1> QED
  BY <1>1, <1>2, <1>3, <1>4, <1>5, <1>6, <1>7 DEF Next, Proceed, Rest

-----------------------------------------------------------------------------
(* The times of the rows *)

\* The rows of the tables were stamped before t.
Past(t) ==
  \A m \in Mints : /\ \A i \in 1 .. Len(snaps[m]) : snaps[m][i].at < t
                   /\ \A k \in 1 .. Len(holders[m]) : holders[m][k].at < t

\* An execution that has not saved finds rows of earlier executions only.
TInv ==
  /\ stamp <= now
  /\ Past(now + 1)
  /\ epc = "fetch" => Past(now)
  /\ epc = "save" => stamp = now /\ Past(now)

LEMMA RowTimes ==
  ASSUME Kept, NEW m \in Mints
  PROVE  /\ Len(snaps[m]) \in Nat /\ Len(holders[m]) \in Nat
         /\ \A i \in 1 .. Len(snaps[m]) : snaps[m][i].at \in Nat
         /\ \A k \in 1 .. Len(holders[m]) : holders[m][k].at \in Nat
<1>1. snaps[m] \in Seq(SnapshotRow) /\ holders[m] \in Seq(HolderRow)
  BY DEF Kept
<1>2. /\ \A i \in 1 .. Len(snaps[m]) : snaps[m][i] \in SnapshotRow
      /\ \A k \in 1 .. Len(holders[m]) : holders[m][k] \in HolderRow
  BY <1>1
<1> QED
  BY <1>1, <1>2 DEF SnapshotRow, HolderRow

LEMMA StartAges == ASSUME Kept, TInv, Start PROVE TInv'
<1>1. PICK d \in Delays : now' = now + d
  BY DEF Start
<1>2. d \in Nat \ {0} /\ now \in Nat /\ stamp \in Nat
  BY IngestJobAssumption DEF Kept
<1>3. Past(now)'
  <2> SUFFICES ASSUME NEW m \in Mints
               PROVE  /\ \A i \in 1 .. Len(snaps[m]) : snaps[m][i].at < now'
                      /\ \A k \in 1 .. Len(holders[m]) : holders[m][k].at < now'
    BY DEF Past, Start
  <2>1. /\ \A i \in 1 .. Len(snaps[m]) : snaps[m][i].at < now + 1
        /\ \A k \in 1 .. Len(holders[m]) : holders[m][k].at < now + 1
    BY DEF TInv, Past
  <2>2. now + 1 <= now' /\ now' \in Nat
    BY <1>1, <1>2
  <2> QED
    BY <1>2, <2>1, <2>2, RowTimes
<1>4. Past(now + 1)'
  <2> SUFFICES ASSUME NEW m \in Mints
               PROVE  /\ \A i \in 1 .. Len(snaps[m]) : snaps[m][i].at < now' + 1
                      /\ \A k \in 1 .. Len(holders[m]) : holders[m][k].at < now' + 1
    BY DEF Past, Start
  <2> QED
    BY <1>1, <1>2, RowTimes DEF TInv, Past
<1> QED
  BY <1>1, <1>2, <1>3, <1>4 DEF TInv, Start

LEMMA SaveAges == ASSUME Kept, TInv, Save PROVE TInv'
<1>1. now' >= now /\ now' \in Nat /\ now \in Nat /\ stamp = now
  BY EnrichmentAssumption DEF Save, Kept, TInv
<1>2. ASSUME NEW m \in Mints
      PROVE  /\ \A i \in 1 .. Len(snaps'[m]) : snaps'[m][i].at < now' + 1
             /\ \A k \in 1 .. Len(holders'[m]) : holders'[m][k].at < now' + 1
  <2>1. \A k \in 1 .. Len(holders[m]) : holders[m][k].at < now' + 1
    BY <1>1, RowTimes DEF TInv, Past
  <2>2. \A i \in 1 .. Len(snaps[m]) : snaps[m][i].at < now' + 1
    BY <1>1, RowTimes DEF TInv, Past
  <2> DEFINE n == Len(snaps[m])
  <2>3. CASE /\ Len(snaps'[m]) = n + 1 /\ snaps'[m][n + 1].at = stamp
             /\ \A i \in 1 .. n : snaps'[m][i].at = snaps[m][i].at
    <3>1. \A i \in 1 .. n + 1 : i \in 1 .. n \/ i = n + 1
      BY RowTimes
    <3> QED
      BY <1>1, <2>1, <2>2, <2>3, <3>1 DEF Save
  <2> QED
    BY <2>1, <2>2, <2>3, SaveRows DEF Save
<1> QED
  BY <1>1, <1>2 DEF TInv, Past, Save

LEMMA StoreAges == ASSUME Kept, TInv, Store PROVE TInv'
<1>1. now \in Nat /\ stamp \in Nat /\ stamp <= now
  BY DEF Kept, TInv
<1>2. ASSUME NEW m \in Mints, NEW k \in 1 .. Len(holders'[m])
      PROVE  holders'[m][k].at < now + 1
  <2>1. holders[m] \in Seq(HolderRow)
    BY DEF Kept
  <2>2. CASE m \in target
    <3> DEFINE row == [at |-> stamp, pct |-> answers[m]]
               n == Len(holders[m])
    <3>1. holders'[m] = Append(holders[m], row) /\ row.at = stamp
      BY <2>2 DEF Store
    <3> HIDE DEF row
    <3>2. /\ Len(holders'[m]) = n + 1 /\ holders'[m][n + 1] = row
          /\ \A j \in 1 .. n : holders'[m][j] = holders[m][j]
          /\ n \in Nat
      BY <2>1, <3>1
    <3>3. k \in 1 .. n \/ k = n + 1
      BY <3>2
    <3> QED
      BY <1>1, <3>1, <3>2, <3>3 DEF TInv, Past
  <2>3. CASE m \notin target
    BY <2>3 DEF Store, TInv, Past
  <2> QED
    BY <2>2, <2>3
<1> QED
  BY <1>2 DEF TInv, Past, Store

LEMMA TimesNext == Kept /\ TInv /\ [Next]_vars => TInv'
<1> SUFFICES ASSUME Kept, TInv, [Next]_vars PROVE TInv'
  OBVIOUS
<1>1. ASSUME UNCHANGED <<now, snaps, holders>>, stamp' <= now,
             epc' \in {"fetch", "save"} => epc' = epc /\ stamp' = stamp
      PROVE  TInv'
  BY <1>1 DEF TInv, Past
<1>2. stamp <= now /\ 0 <= now
  BY DEF TInv, Kept
<1>3. CASE Start \/ Save \/ Store
  BY <1>3, StartAges, SaveAges, StoreAges
<1>4. CASE BackfillTop
  BY <1>4, BackfillRows DEF BackfillTop, TInv, Past
<1>5. CASE Normalize
  BY <1>5 DEF Normalize, TInv, Past, Kept
<1>6. CASE \/ Move \/ Read \/ ReadingRaises \/ Return \/ Abandon \/ UNCHANGED vars
  BY <1>1, <1>2, <1>6 DEF Move, Read, ReadingRaises, Return, Abandon, Over, tables,
     vars, enrichVars
<1>7. CASE \/ SkipHolders \/ ChooseTargets \/ ParseRaises
           \/ \E m \in target : Send(m) \/ Answer(m)
  BY <1>1, <1>2, <1>7 DEF SkipHolders, ChooseTargets, ParseRaises, Send, Answer,
     Over, tables
<1> QED
  BY <1>3, <1>4, <1>5, <1>6, <1>7 DEF Next, Proceed, Rest, Enrich, EnrichSteps

LEMMA TimesInit == Init => TInv
  BY DEF Init, EnrichInit, TInv, Past

-----------------------------------------------------------------------------
(* Volume and ratio *)

\* What the back-fill makes of a row, once and for all: the values are those of
\* the row before, whatever the window was each time the row was rewritten.
Settled(rows, i) ==
  LET prev == rows[i - 1].cap
      cap == rows[i].cap
  IN IF /\ i > 1
        /\ rows[i].at - rows[i - 1].at <= Gap
        /\ prev # Null /\ cap # Null
       THEN /\ rows[i].volume = Distance(prev, cap)
            /\ rows[i].ratio = IF prev = 0 THEN Null ELSE Ratio(prev, cap)
       ELSE rows[i].volume = Null /\ rows[i].ratio = Null

VInv == \A m \in Mints : \A i \in 1 .. Len(snaps[m]) : Settled(snaps[m], i)

\* Settled looks at the prices and times of two rows and the results in one.
LEMMA SettledCarries ==
  ASSUME NEW rows, NEW other, NEW i \in Nat \ {0}, Settled(rows, i),
         other[i].at = rows[i].at, other[i].cap = rows[i].cap,
         other[i].volume = rows[i].volume, other[i].ratio = rows[i].ratio,
         i > 1 => /\ other[i - 1].at = rows[i - 1].at
                  /\ other[i - 1].cap = rows[i - 1].cap
  PROVE  Settled(other, i)
  BY DEF Settled

\* A settled row that is rewritten stays the same.
LEMMA SettledStays ==
  ASSUME NEW rows \in Seq(SnapshotRow), NEW i \in 1 .. Len(rows), NEW begun,
         Settled(rows, i), Precedes(rows, i, begun)
  PROVE  Filled(rows, i) = rows[i]
<1> DEFINE prev == rows[i - 1].cap
           cap == rows[i].cap
<1>1. /\ i > 1 /\ rows[i] \in SnapshotRow /\ rows[i - 1] \in SnapshotRow
      /\ rows[i].at - rows[i - 1].at <= Gap
  BY DEF Precedes
<1>2. CASE prev = Null \/ cap = Null
  BY <1>2 DEF Filled
<1>3. CASE prev # Null /\ cap # Null
  <2>1. prev \in Nat
    BY <1>1, <1>3 DEF SnapshotRow
  <2>2. /\ rows[i].volume = Distance(prev, cap)
        /\ rows[i].ratio = IF prev = 0 THEN Null ELSE Ratio(prev, cap)
    BY <1>1, <1>3 DEF Settled
  <2>3. rows[i].ratio = IF prev <= 0 THEN rows[i].ratio ELSE Ratio(prev, cap)
    BY <2>1, <2>2
  <2>4. Filled(rows, i) =
          [rows[i] EXCEPT !.volume = rows[i].volume, !.ratio = rows[i].ratio]
    BY <1>3, <2>2, <2>3 DEF Filled
  <2> QED
    BY <1>1, <2>4 DEF SnapshotRow
<1> QED
  BY <1>2, <1>3

\* The new row is in the window with the row before it if that is near enough,
\* since the window is longer than the gap by what the transaction may lag.
LEMMA BackfillSettles ==
  ASSUME NEW rows0 \in Seq(SnapshotRow), now \in Nat,
         NEW lag \in Lags, NEW begun \in now .. now + lag,
         \A i \in 1 .. Len(rows0) : Settled(rows0, i),
         NEW row \in SnapshotRow,
         row.at = now, row.volume = Null, row.ratio = Null
  PROVE  LET out == Backfilled(Append(rows0, row), begun)
         IN /\ \A i \in 1 .. Len(rows0) : out[i] = rows0[i]
            /\ \A i \in 1 .. Len(rows0) + 1 : Settled(out, i)
<1> DEFINE n == Len(rows0)
           rows == Append(rows0, row)
           out == Backfilled(rows, begun)
<1>1. /\ n \in Nat /\ rows \in Seq(SnapshotRow) /\ DOMAIN rows = 1 .. n + 1
      /\ Len(rows) = n + 1 /\ rows[n + 1] = row
      /\ \A i \in 1 .. n : rows[i] = rows0[i] /\ rows0[i] \in SnapshotRow
  OBVIOUS
<1> HIDE DEF rows
<1>2. \A i \in 1 .. n + 1 :
        out[i] = IF Precedes(rows, i, begun) THEN Filled(rows, i) ELSE rows[i]
  BY <1>1 DEF Backfilled
<1>3. ASSUME NEW i \in 1 .. n PROVE out[i] = rows0[i]
  <2>1. Settled(rows, i)
    <3>1. i \in Nat \ {0} /\ (i > 1 => i - 1 \in 1 .. n)
      BY <1>1
    <3> QED
      BY <1>1, <1>3, <3>1, SettledCarries
  <2>2. CASE Precedes(rows, i, begun)
    BY <1>1, <1>2, <2>1, <2>2, SettledStays
  <2>3. CASE ~Precedes(rows, i, begun)
    BY <1>1, <1>2, <2>3
  <2> QED
    BY <2>2, <2>3
<1>4. ASSUME NEW i \in 1 .. n PROVE Settled(out, i)
  <2>1. i \in Nat \ {0} /\ (i > 1 => i - 1 \in 1 .. n)
    BY <1>1
  <2> QED
    BY <1>3, <1>4, <2>1, SettledCarries
<1>5. Settled(out, n + 1)
  <2> DEFINE prev == rows[n].cap
             cap == row.cap
  <2>1. CASE n = 0
    <3>1. ~Precedes(rows, n + 1, begun)
      BY <2>1 DEF Precedes
    <3>2. out[n + 1] = row
      BY <1>1, <1>2, <3>1
    <3> QED
      BY <2>1, <3>2 DEF Settled
  <2>2. CASE n > 0
    <3>1. n \in 1 .. n /\ n + 1 \in 1 .. n + 1 /\ n + 1 > 1 /\ (n + 1) - 1 = n
      BY <1>1, <2>2
    <3>2. out[n] = rows[n] /\ rows[n] \in SnapshotRow
      BY <1>1, <1>3, <3>1
    <3>3. rows[n].at \in Nat /\ prev \in Nat \cup {Null}
      BY <3>2 DEF SnapshotRow
    <3>4. Precedes(rows, n + 1, begun) <=> row.at - rows[n].at <= Gap
      <4>1. /\ lag \in Nat /\ Gap \in Nat /\ Window \in Nat /\ Gap + lag <= Window
            /\ begun \in Nat /\ begun <= now + lag
        BY EnrichmentAssumption
      <4>2. row.at - rows[n].at <= Gap => rows[n].at >= begun - Window
        BY <3>3, <4>1
      <4> QED
        BY <1>1, <3>1, <4>2 DEF Precedes
    <3>5. CASE ~Precedes(rows, n + 1, begun)
      <4>1. out[n + 1] = row
        BY <1>1, <1>2, <3>1, <3>5
      <4>2. ~(out[n + 1].at - out[n].at <= Gap)
        BY <3>2, <3>4, <3>5, <4>1
      <4> QED
        BY <3>1, <4>1, <4>2 DEF Settled
    <3>6. CASE Precedes(rows, n + 1, begun) /\ (prev = Null \/ cap = Null)
      <4>1. out[n + 1] = row
        BY <1>1, <1>2, <3>1, <3>6 DEF Filled
      <4> QED
        BY <3>1, <3>2, <3>6, <4>1 DEF Settled
    <3>7. CASE Precedes(rows, n + 1, begun) /\ prev # Null /\ cap # Null
      <4>1. prev \in Nat
        BY <3>3, <3>7
      <4> DEFINE ratio == IF prev = 0 THEN Null ELSE Ratio(prev, cap)
      <4>2. ratio = IF prev <= 0 THEN row.ratio ELSE Ratio(prev, cap)
        BY <4>1
      <4> HIDE DEF ratio
      <4>3. out[n + 1] = [row EXCEPT !.volume = Distance(prev, cap), !.ratio = ratio]
        BY <1>1, <1>2, <3>1, <3>7, <4>2 DEF Filled
      <4>4. /\ out[n + 1].volume = Distance(prev, cap) /\ out[n + 1].ratio = ratio
            /\ out[n + 1].at = row.at /\ out[n + 1].cap = cap
        BY <4>3 DEF SnapshotRow
      <4>5. out[n + 1].at - out[n].at <= Gap
        BY <3>2, <3>4, <3>7, <4>4
      <4> QED
        BY <3>1, <3>2, <3>7, <4>4, <4>5 DEF Settled, ratio
    <3> QED
      BY <3>5, <3>6, <3>7
  <2> QED
    BY <1>1, <2>1, <2>2
<1>6. ASSUME NEW i \in 1 .. n + 1 PROVE Settled(out, i)
  <2>1. i \in 1 .. n \/ i = n + 1
    BY <1>1
  <2> QED
    BY <1>4, <1>5, <2>1
<1> QED
  BY <1>3, <1>6 DEF rows

\* Every old row of every mint, before and after a step.
OldRows == \A m \in Mints : \A i \in 1 .. Len(snaps[m]) - 1 :
             snaps'[m][i] = snaps[m][i]

LEMMA SaveSettles == ASSUME Kept, TInv, VInv, Save PROVE VInv' /\ OldRows
<1>1. PICK lag \in Lags, quote \in Quotes, begun \in now .. now' :
        now' = now + lag /\ SavedWith(quote, begun)
  BY DEF Save, SavedWith
<1>2. ASSUME NEW m \in Mints
      PROVE  /\ \A i \in 1 .. Len(snaps'[m]) : Settled(snaps'[m], i)
             /\ \A i \in 1 .. Len(snaps[m]) : snaps'[m][i] = snaps[m][i]
  <2>1. snaps[m] \in Seq(SnapshotRow) /\ stamp = now /\ now \in Nat
    BY DEF TInv, Kept, Save
  <2>2. CASE m \in listed /\ Due(m, now')
    <3> DEFINE row == NewRow(quote[m])
    <3>1. row \in SnapshotRow
      BY <1>1, <2>1, EnrichmentAssumption DEF NewRow, SnapshotRow
    <3>2. row.at = now /\ row.volume = Null /\ row.ratio = Null
      BY <2>1 DEF NewRow
    <3>3. snaps'[m] = Backfilled(Append(snaps[m], row), begun)
      BY <1>1, <2>2 DEF SavedWith
    <3>4. \A i \in 1 .. Len(snaps[m]) : Settled(snaps[m], i)
      BY DEF VInv
    <3>5. begun \in now .. now + lag
      BY <1>1
    <3> HIDE DEF row
    <3>6. Len(snaps'[m]) = Len(snaps[m]) + 1
      BY <2>2, SaveRows
    <3> QED
      BY <2>1, <3>1, <3>2, <3>3, <3>4, <3>5, <3>6, BackfillSettles
  <2>3. CASE ~(m \in listed /\ Due(m, now'))
    BY <2>3, SaveRows DEF VInv
  <2> QED
    BY <2>2, <2>3
<1>3. ASSUME NEW m \in Mints, NEW i \in 1 .. Len(snaps[m]) - 1
      PROVE  snaps'[m][i] = snaps[m][i]
  BY <1>2, RowTimes
<1> QED
  BY <1>2, <1>3 DEF VInv, OldRows

LEMMA TopSettles == ASSUME Kept, VInv, BackfillTop PROVE VInv' /\ OldRows
<1>1. ASSUME NEW m \in Mints, NEW i \in 1 .. Len(snaps'[m])
      PROVE  Settled(snaps'[m], i)
  <2>1. /\ i \in Nat \ {0} /\ i \in 1 .. Len(snaps[m])
        /\ i > 1 => i - 1 \in 1 .. Len(snaps[m])
    BY BackfillRows, RowTimes
  <2>2. Settled(snaps[m], i)
    BY <2>1 DEF VInv
  <2> QED
    BY <2>1, <2>2, BackfillRows, SettledCarries
<1>2. ASSUME NEW m \in Mints, NEW i \in 1 .. Len(snaps[m]) - 1
      PROVE  snaps'[m][i] = snaps[m][i]
  <2>1. i \in 1 .. Len(snaps[m]) /\ i # Len(snaps[m])
    BY RowTimes
  <2> QED
    BY <2>1, BackfillRows
<1> QED
  BY <1>1, <1>2 DEF VInv, OldRows

LEMMA VInit == Init => VInv
<1> SUFFICES ASSUME Init PROVE VInv
  OBVIOUS
<1>1. \A m \in Mints : Len(snaps[m]) = 0
  BY DEF Init, EnrichInit
<1> QED
  BY <1>1 DEF VInv

\* Between the back-fills nothing touches the table.
LEMMA OnlyTwoWrite == [Next]_vars => UNCHANGED snaps \/ Save \/ BackfillTop
  BY DEF Next, Start, Move, Proceed, Read, Normalize, ReadingRaises, Enrich,
     EnrichSteps, SkipHolders, ChooseTargets, Send, Answer, Store, ParseRaises, Return,
     Abandon, Rest, tables, vars, enrichVars

LEMMA VNextKeeps == Kept /\ TInv /\ VInv /\ [Next]_vars => VInv' /\ OldRows
<1> SUFFICES ASSUME Kept, TInv, VInv, [Next]_vars PROVE VInv' /\ OldRows
  OBVIOUS
<1>1. CASE UNCHANGED snaps
  BY <1>1 DEF VInv, OldRows, Settled
<1> QED
  BY <1>1, OnlyTwoWrite, SaveSettles, TopSettles

LEMMA InvariantHolds == Spec => [](Kept /\ TInv /\ VInv)
  BY InitKept, TimesInit, VInit, JobNextKeeps, TimesNext, VNextKeeps, PTL DEF Spec

\* No back-fill of any execution changes a snapshot that is not its mint's newest
\* (_backfill_volume_and_ratio, _apply_holder_concentration_to_latest_snapshots).
THEOREM HistoryIsKept == Spec => OldRowsKeep
<1>1. Kept /\ TInv /\ VInv /\ [Next]_vars => [OldRows]_snaps
  BY VNextKeeps
<1> QED
  BY <1>1, InvariantHolds, PTL DEF Spec, OldRowsKeep, OldRows

LEMMA RatioIsSided ==
  ASSUME NEW prev \in Nat \ {0}, NEW cap \in Nat
  PROVE  Ratio(prev, cap) >= 1000 <=> cap >= prev
<1>1. CASE cap >= prev
  <2>1. (10000 * (cap - prev)) \div prev \in Nat
    <3>1. 10000 * (cap - prev) \in Nat
      BY <1>1
    <3> QED
      BY <3>1, QuotientIsNat
  <2> QED
    BY <1>1, <2>1 DEF Ratio
<1>2. CASE cap < prev
  <2> DEFINE d == prev + 10 * (prev - cap)
  <2>1. d \in Nat \ {0} /\ 1000 * prev \in Nat /\ 1000 * prev < 1000 * d
    BY <1>2
  <2> HIDE DEF d
  <2>2. (1000 * prev) \div d < 1000
    BY <2>1
  <2> QED
    BY <1>2, <2>1, <2>2, QuotientIsNat DEF Ratio, d
<1> QED
  BY <1>1, <1>2

\* Every snapshot carries the distance from the one before it exactly if that is
\* near enough and both had a price, and a ratio on the right side of one
\* (_backfill_volume_and_ratio).
THEOREM VolumesHold == Spec => []VolumesAreDistances
<1>1. Kept /\ VInv => VolumesAreDistances
  <2> SUFFICES ASSUME Kept, VInv, NEW m \in Mints, NEW i \in DOMAIN snaps[m]
               PROVE  LET row == snaps[m][i]
                          prev == IF i > 1 THEN snaps[m][i - 1] ELSE row
                      IN IF /\ i > 1 /\ row.at - prev.at <= Gap
                            /\ Null \notin {row.cap, prev.cap}
                           THEN /\ row.volume = Distance(prev.cap, row.cap)
                                /\ row.ratio = Null <=> prev.cap = 0
                                /\ prev.cap > 0 =>
                                     (row.ratio >= 1000 <=> row.cap >= prev.cap)
                           ELSE row.volume = Null /\ row.ratio = Null
    BY DEF VolumesAreDistances
  <2>1. /\ snaps[m] \in Seq(SnapshotRow)
        /\ i \in 1 .. Len(snaps[m]) /\ Settled(snaps[m], i)
    BY DEF VInv, Kept
  <2>2. CASE i = 1
    BY <2>1, <2>2 DEF Settled
  <2>3. CASE i > 1
    <3> DEFINE row == snaps[m][i]
               prev == snaps[m][i - 1]
    <3>1. i - 1 \in 1 .. Len(snaps[m])
      BY <2>1, <2>3
    <3>2. row \in SnapshotRow /\ prev \in SnapshotRow
      BY <2>1, <3>1
    <3>3. CASE row.at - prev.at <= Gap /\ Null \notin {row.cap, prev.cap}
      <4>1. row.cap \in Nat /\ prev.cap \in Nat
        BY <3>2, <3>3 DEF SnapshotRow
      <4>2. /\ row.volume = Distance(prev.cap, row.cap)
            /\ row.ratio = IF prev.cap = 0 THEN Null ELSE Ratio(prev.cap, row.cap)
        BY <2>1, <2>3, <3>3 DEF Settled
      <4>3. CASE prev.cap = 0
        BY <2>3, <3>3, <4>2, <4>3
      <4>4. CASE prev.cap # 0
        <5>1. /\ Ratio(prev.cap, row.cap) \in Nat
              /\ Ratio(prev.cap, row.cap) >= 1000 <=> row.cap >= prev.cap
          <6>1. row.cap \in Nat /\ prev.cap \in Nat \ {0}
            BY <4>1, <4>4
          <6> HIDE DEF row, prev
          <6> QED
            BY <6>1, RatioIsNat, RatioIsSided
        <5>2. Null \notin Nat
          BY EnrichmentAssumption
        <5> QED
          BY <2>3, <3>3, <4>2, <4>4, <5>1, <5>2
      <4> QED
        BY <4>3, <4>4
    <3>4. CASE ~(row.at - prev.at <= Gap /\ Null \notin {row.cap, prev.cap})
      BY <2>1, <2>3, <3>4 DEF Settled
    <3> QED
      BY <3>3, <3>4
  <2> QED
    BY <2>1, <2>2, <2>3
<1> QED
  BY <1>1, InvariantHolds, PTL
-----------------------------------------------------------------------------
(* Spacing *)

\* A row is newer than those before it, and they were a staleness period old when
\* the row's execution took its threshold.
Spaced ==
  \A m \in Mints : \A i \in 1 .. Len(snaps[m]) : \A j \in 1 .. i - 1 :
    /\ snaps[m][j].at < snaps[m][i].at
    /\ \E lag \in Lags : snaps[m][j].at + Stale <= snaps[m][i].at + lag

\* Once an execution has saved, the newest row of every listed coin is its own, or
\* was not stale at its threshold, which is the present of that transaction.
Current ==
  epc \in AfterSave =>
    \A m \in listed : \/ snaps[m][Len(snaps[m])].at = stamp
                      \/ snaps[m][Len(snaps[m])].at + Stale > now

SInv == Spaced /\ Current

\* Only the first transaction of an execution adds a row.
LEMMA RowsStay ==
  ASSUME Kept, SInv,
         \A m \in Mints :
           /\ Len(snaps'[m]) = Len(snaps[m])
           /\ \A i \in 1 .. Len(snaps[m]) : snaps'[m][i].at = snaps[m][i].at,
         epc' \in AfterSave =>
           epc \in AfterSave /\ UNCHANGED <<listed, stamp, now>>
  PROVE  SInv'
<1>1. ASSUME NEW m \in Mints, NEW i \in 1 .. Len(snaps'[m]), NEW j \in 1 .. i - 1
      PROVE  /\ snaps'[m][j].at < snaps'[m][i].at
             /\ \E lag \in Lags : snaps'[m][j].at + Stale <= snaps'[m][i].at + lag
  <2>1. i \in 1 .. Len(snaps[m]) /\ j \in 1 .. Len(snaps[m])
    BY RowTimes
  <2> QED
    BY <2>1 DEF SInv, Spaced
<1>2. ASSUME epc' \in AfterSave, NEW m \in listed'
      PROVE  \/ snaps'[m][Len(snaps'[m])].at = stamp'
             \/ snaps'[m][Len(snaps'[m])].at + Stale > now'
  <2>1. m \in Mints /\ m \in listed /\ Len(snaps[m]) > 0
    BY <1>2 DEF Kept
  <2>2. Len(snaps[m]) \in 1 .. Len(snaps[m])
    BY <2>1, RowTimes
  <2> QED
    BY <1>2, <2>1, <2>2 DEF SInv, Current
<1> QED
  BY <1>1, <1>2 DEF SInv, Spaced, Current

LEMMA SaveSpaces == ASSUME Kept, TInv, SInv, Save PROVE SInv'
<1>1. PICK lag \in Lags : now' = now + lag
  BY DEF Save
<1>2. /\ lag \in Nat /\ now \in Nat /\ now' \in Nat /\ stamp = now
      /\ Stale \in Nat \ {0} /\ UNCHANGED <<listed, stamp>> /\ epc' \in AfterSave
  BY <1>1, EnrichmentAssumption DEF Save, TInv, Kept, AfterSave
<1>3. ASSUME NEW m \in Mints
      PROVE  /\ \A i \in 1 .. Len(snaps'[m]) : \A j \in 1 .. i - 1 :
                  /\ snaps'[m][j].at < snaps'[m][i].at
                  /\ \E l \in Lags : snaps'[m][j].at + Stale <= snaps'[m][i].at + l
             /\ m \in listed => \/ snaps'[m][Len(snaps'[m])].at = stamp
                                \/ snaps'[m][Len(snaps'[m])].at + Stale > now'
  <2> DEFINE n == Len(snaps[m])
  <2>1. /\ n \in Nat /\ DOMAIN snaps[m] = 1 .. n
        /\ \A i \in 1 .. n : snaps[m][i].at \in Nat /\ snaps[m][i].at < now
    BY RowTimes DEF Kept, TInv, Past, Save
  <2>2. \A i \in 1 .. n : \A j \in 1 .. i - 1 :
          /\ snaps[m][j].at < snaps[m][i].at
          /\ \E l \in Lags : snaps[m][j].at + Stale <= snaps[m][i].at + l
    BY DEF SInv, Spaced
  <2>3. CASE m \in listed /\ Due(m, now')
    <3>1. /\ Len(snaps'[m]) = n + 1 /\ snaps'[m][n + 1].at = stamp
          /\ \A i \in 1 .. n : snaps'[m][i].at = snaps[m][i].at
      BY <2>3, SaveRows
    <3>2. \A i \in 1 .. n : snaps[m][i].at + Stale <= now + lag
      BY <1>1, <2>1, <2>3 DEF Due
    <3>3. ASSUME NEW i \in 1 .. n + 1, NEW j \in 1 .. i - 1
          PROVE  /\ snaps'[m][j].at < snaps'[m][i].at
                 /\ \E l \in Lags : snaps'[m][j].at + Stale <= snaps'[m][i].at + l
      <4>1. j \in 1 .. n
        BY <2>1
      <4>2. CASE i = n + 1
        <5>1. snaps'[m][i].at = now /\ snaps'[m][j].at = snaps[m][j].at
          BY <1>2, <3>1, <4>1, <4>2
        <5> QED
          BY <2>1, <3>2, <4>1, <5>1
      <4>3. CASE i # n + 1
        <5>1. i \in 1 .. n
          BY <2>1, <4>3
        <5> QED
          BY <2>2, <3>1, <4>1, <5>1
      <4> QED
        BY <4>2, <4>3
    <3> QED
      BY <3>1, <3>3
  <2>4. CASE ~(m \in listed /\ Due(m, now'))
    <3>1. snaps'[m] = snaps[m]
      BY <2>4, SaveRows
    <3>2. ASSUME m \in listed PROVE snaps[m][n].at + Stale > now'
      <4>1. PICK i \in 1 .. n : ~(snaps[m][i].at + Stale <= now')
        BY <2>1, <2>4, <3>2 DEF Due
      <4>2. i = n \/ i \in 1 .. n - 1
        BY <2>1
      <4>3. n \in 1 .. n
        BY <2>1, <4>1
      <4>4. snaps[m][i].at <= snaps[m][n].at
        BY <2>1, <2>2, <4>2, <4>3
      <4> DEFINE a == snaps[m][i].at
                 b == snaps[m][n].at
      <4>5. a \in Nat /\ b \in Nat /\ a <= b /\ ~(a + Stale <= now')
        BY <2>1, <4>1, <4>3, <4>4
      <4> HIDE DEF a, b
      <4>6. b + Stale > now'
        BY <1>2, <4>5
      <4> QED
        BY <4>6 DEF b
    <3> QED
      BY <2>2, <3>1, <3>2
  <2> QED
    BY <2>3, <2>4
<1> QED
  BY <1>2, <1>3 DEF SInv, Spaced, Current, Kept

LEMMA SpacingNext == Kept /\ TInv /\ SInv /\ [Next]_vars => SInv'
<1> SUFFICES ASSUME Kept, TInv, SInv, [Next]_vars PROVE SInv'
  OBVIOUS
<1>1. ASSUME UNCHANGED snaps,
             epc' \in AfterSave =>
               epc \in AfterSave /\ UNCHANGED <<listed, stamp, now>>
      PROVE  SInv'
  BY <1>1, RowsStay
<1>2. CASE Save
  BY <1>2, SaveSpaces
<1>3. CASE BackfillTop
  BY <1>3, BackfillRows, RowsStay DEF BackfillTop, AfterSave
<1>4. CASE \/ Start \/ Move \/ Read \/ Normalize \/ ReadingRaises \/ Return
           \/ Abandon \/ UNCHANGED vars
  BY <1>1, <1>4 DEF Start, Move, Read, Normalize, ReadingRaises, Return, Abandon,
     Over, tables, vars, enrichVars, AfterSave
<1>5. CASE \/ SkipHolders \/ ChooseTargets \/ Store \/ ParseRaises
           \/ \E m \in target : Send(m) \/ Answer(m)
  BY <1>1, <1>5 DEF SkipHolders, ChooseTargets, Store, ParseRaises, Send,
     Answer, Over, tables, AfterSave
<1> QED
  BY <1>2, <1>3, <1>4, <1>5 DEF Next, Proceed, Rest, Enrich, EnrichSteps

LEMMA SpacingInit == Init => SInv
  BY DEF Init, EnrichInit, SInv, Spaced, Current, AfterSave

\* However an execution's threshold lags behind its stamp: the snapshots of a coin
\* are in the order of their stamps, which the back-fill relies on when it looks
\* back, each was taken when the one before it was a staleness period old at the
\* threshold, and once an execution has saved, every coin it listed has a row of
\* this execution or one that was not stale (_select_fresh_mints,
\* _insert_snapshots).
THEOREM ListedCoinsAreCurrent == Spec => [](Spaced /\ Current)
<1>1. Init => Kept /\ TInv /\ SInv
  BY InitKept, TimesInit, SpacingInit
<1>2. Kept /\ TInv /\ SInv /\ [Next]_vars => Kept' /\ TInv' /\ SInv'
  BY JobNextKeeps, TimesNext, SpacingNext
<1> QED
  BY <1>1, <1>2, PTL DEF Spec, SInv

-----------------------------------------------------------------------------
(* The measurements *)

\* The i-th snapshot of a mint shows what was its newest measurement in its time.
ShowsItsTime(m, i) ==
  \E h \in 1 .. Len(holders[m]) :
    /\ holders[m][h].pct = snaps[m][i].top
    /\ \A k \in 1 .. Len(holders[m]) : k > h => holders[m][k].at > snaps[m][i].at
    /\ i < Len(snaps[m]) => holders[m][h].at < snaps[m][i + 1].at

\* Until an execution stores its measurements, all there are are older than its
\* snapshots, and none of its snapshots shows one.
MInv ==
  /\ \A m \in Mints : \A i \in 1 .. Len(snaps[m]) :
       snaps[m][i].top # Null => ShowsItsTime(m, i)
  /\ epc \in {"choose", "ask"} =>
       \A m \in Mints :
         /\ \A k \in 1 .. Len(holders[m]) : holders[m][k].at < stamp
         /\ \A i \in 1 .. Len(snaps[m]) :
              \/ snaps[m][i].at < stamp
              \/ snaps[m][i].at = stamp /\ snaps[m][i].top = Null

LEMMA SaveShows == ASSUME Kept, TInv, MInv, Save PROVE MInv'
<1>1. stamp = now /\ UNCHANGED <<stamp, holders>> /\ now \in Nat /\ Past(stamp)
  BY DEF Save, TInv, Kept
<1>2. ASSUME NEW m \in Mints
      PROVE  /\ \A i \in 1 .. Len(snaps'[m]) :
                  snaps'[m][i].top # Null => ShowsItsTime(m, i)'
             /\ \A k \in 1 .. Len(holders'[m]) : holders'[m][k].at < stamp'
             /\ \A i \in 1 .. Len(snaps'[m]) :
                  \/ snaps'[m][i].at < stamp'
                  \/ snaps'[m][i].at = stamp' /\ snaps'[m][i].top = Null
  <2> DEFINE n == Len(snaps[m])
  <2>1. /\ n \in Nat
        /\ \A i \in 1 .. n : snaps[m][i].at < stamp
        /\ \A k \in 1 .. Len(holders[m]) : holders[m][k].at < stamp
    BY <1>1, RowTimes DEF Past
  <2>2. CASE snaps'[m] = snaps[m]
    BY <1>1, <2>1, <2>2 DEF MInv, ShowsItsTime
  <2>3. CASE /\ Len(snaps'[m]) = n + 1
             /\ snaps'[m][n + 1].at = stamp /\ snaps'[m][n + 1].top = Null
             /\ \A i \in 1 .. n : /\ snaps'[m][i].at = snaps[m][i].at
                                  /\ snaps'[m][i].top = snaps[m][i].top
    <3>1. ASSUME NEW i \in 1 .. n + 1, snaps'[m][i].top # Null
          PROVE  ShowsItsTime(m, i)'
      <4>1. i \in 1 .. n
        BY <2>1, <2>3, <3>1
      <4>2. PICK h \in 1 .. Len(holders[m]) :
              /\ holders[m][h].pct = snaps[m][i].top
              /\ \A k \in 1 .. Len(holders[m]) :
                   k > h => holders[m][k].at > snaps[m][i].at
              /\ i < n => holders[m][h].at < snaps[m][i + 1].at
        BY <2>3, <3>1, <4>1 DEF MInv, ShowsItsTime
      <4>3. holders[m][h].at < snaps'[m][i + 1].at
        <5>1. CASE i < n
          <6>1. i + 1 \in 1 .. n
            BY <2>1, <4>1, <5>1
          <6> QED
            BY <2>3, <4>2, <5>1, <6>1
        <5>2. CASE i = n
          BY <2>1, <2>3, <4>2, <5>2
        <5> QED
          BY <2>1, <4>1, <5>1, <5>2
      <4> QED
        BY <1>1, <2>3, <4>1, <4>2, <4>3 DEF ShowsItsTime
    <3>2. \A i \in 1 .. n + 1 : i \in 1 .. n \/ i = n + 1
      BY <2>1
    <3> QED
      BY <1>1, <2>1, <2>3, <3>1, <3>2
  <2> QED
    BY <2>2, <2>3, SaveRows
<1> QED
  BY <1>2 DEF MInv

LEMMA StoreShows == ASSUME Kept, MInv, Store PROVE MInv'
<1>1. UNCHANGED <<snaps, stamp>> /\ epc' = "backfill"
  BY DEF Store
<1>2. ASSUME NEW m \in Mints, NEW i \in 1 .. Len(snaps[m]), snaps[m][i].top # Null
      PROVE  ShowsItsTime(m, i)'
  <2>1. ShowsItsTime(m, i) /\ snaps[m][i].at < stamp
    BY <1>2 DEF MInv, Store
  <2>2. CASE m \in target
    <3> DEFINE row == [at |-> stamp, pct |-> answers[m]]
               n == Len(holders[m])
    <3>1. holders'[m] = Append(holders[m], row) /\ row.at = stamp
      BY <2>2 DEF Store
    <3> HIDE DEF row
    <3>2. /\ Len(holders'[m]) = n + 1 /\ holders'[m][n + 1] = row /\ n \in Nat
          /\ \A k \in 1 .. n : holders'[m][k] = holders[m][k]
      <4>1. holders[m] \in Seq(HolderRow)
        BY DEF Kept
      <4> QED
        BY <3>1, <4>1
    <3>3. PICK h \in 1 .. n :
            /\ holders[m][h].pct = snaps[m][i].top
            /\ \A k \in 1 .. n : k > h => holders[m][k].at > snaps[m][i].at
            /\ i < Len(snaps[m]) => holders[m][h].at < snaps[m][i + 1].at
      BY <2>1 DEF ShowsItsTime
    <3>4. stamp \in Nat /\ snaps[m][i].at \in Nat
      BY RowTimes DEF Kept
    <3>5. \A k \in 1 .. n + 1 : k > h => holders'[m][k].at > snaps[m][i].at
      BY <2>1, <3>1, <3>2, <3>3, <3>4
    <3>6. h \in 1 .. n + 1
      BY <3>2
    <3> QED
      BY <1>1, <3>2, <3>3, <3>5, <3>6 DEF ShowsItsTime
  <2>3. CASE m \notin target
    BY <1>1, <2>1, <2>3 DEF Store, ShowsItsTime
  <2> QED
    BY <2>2, <2>3
<1> QED
  BY <1>1, <1>2 DEF MInv

LEMMA BackfillShows == ASSUME Kept, MInv, BackfillTop PROVE MInv'
<1>1. UNCHANGED holders /\ epc' = "done"
  BY DEF BackfillTop
<1>2. ASSUME NEW m \in Mints, NEW i \in 1 .. Len(snaps'[m]), snaps'[m][i].top # Null
      PROVE  ShowsItsTime(m, i)'
  <2> DEFINE n == Len(snaps[m])
  <2>1. /\ n \in Nat /\ Len(snaps'[m]) = n /\ i \in 1 .. n
        /\ \A j \in 1 .. n : snaps'[m][j].at = snaps[m][j].at
    BY BackfillRows, RowTimes
  <2>2. CASE snaps'[m][i] = snaps[m][i]
    <3>1. ShowsItsTime(m, i)
      BY <1>2, <2>1, <2>2 DEF MInv
    <3>2. i < n => i + 1 \in 1 .. n
      BY <2>1
    <3> QED
      BY <1>1, <2>1, <2>2, <3>1, <3>2 DEF ShowsItsTime
  <2>3. CASE i = n /\ Measured(m) /\ snaps'[m][i].top = LastPct(m)
    <3> DEFINE h == Len(holders[m])
    <3>1. h \in Nat /\ h > 0
      <4>1. holders[m] \in Seq(HolderRow) /\ holders[m] # <<>>
        BY <2>3 DEF Kept, Measured
      <4> QED
        BY <4>1
    <3>2. /\ h \in 1 .. Len(holders[m]) /\ holders[m][h].pct = snaps'[m][i].top
          /\ \A k \in 1 .. Len(holders[m]) : ~(k > h)
      BY <2>3, <3>1 DEF LastPct
    <3> QED
      BY <1>1, <2>1, <2>3, <3>2 DEF ShowsItsTime
  <2> QED
    BY <2>1, <2>2, <2>3, BackfillRows
<1> QED
  BY <1>1, <1>2 DEF MInv

LEMMA ShowsNext == Kept /\ TInv /\ MInv /\ [Next]_vars => MInv'
<1> SUFFICES ASSUME Kept, TInv, MInv, [Next]_vars PROVE MInv'
  OBVIOUS
<1>1. ASSUME UNCHANGED <<snaps, holders>>,
             epc' \in {"choose", "ask"} =>
               epc \in {"choose", "ask"} /\ UNCHANGED stamp
      PROVE  MInv'
  BY <1>1 DEF MInv, ShowsItsTime
<1>2. CASE Save \/ Store \/ BackfillTop
  BY <1>2, SaveShows, StoreShows, BackfillShows
<1>3. CASE \/ Start \/ Move \/ Read \/ Normalize \/ ReadingRaises \/ Return
           \/ Abandon \/ UNCHANGED vars
  BY <1>1, <1>3 DEF Start, Move, Read, Normalize, ReadingRaises, Return, Abandon,
     Over, tables, vars, enrichVars
<1>4. CASE \/ SkipHolders \/ ChooseTargets \/ ParseRaises
           \/ \E m \in target : Send(m) \/ Answer(m)
  BY <1>1, <1>4 DEF SkipHolders, ChooseTargets, ParseRaises, Send, Answer, Over,
     tables
<1> QED
  BY <1>2, <1>3, <1>4 DEF Next, Proceed, Rest, Enrich, EnrichSteps

LEMMA ShowsInit == Init => MInv
  BY DEF Init, EnrichInit, MInv

\* Whatever failed, raised or was killed before, a snapshot shows only what was the
\* newest measurement of its coin in its time: the row of a failed call hides the
\* measurements before it, a late execution does not write into the snapshot of
\* another time, and a snapshot that has a successor is not written any more
\* (_apply_holder_concentration_to_latest_snapshots).
THEOREM MeasurementsShow == Spec => []ShownWereCurrent
<1>1. Init => Kept /\ TInv /\ MInv
  BY InitKept, TimesInit, ShowsInit
<1>2. Kept /\ TInv /\ MInv /\ [Next]_vars => Kept' /\ TInv' /\ MInv'
  BY JobNextKeeps, TimesNext, ShowsNext
<1>3. Kept /\ MInv => ShownWereCurrent
  <2> SUFFICES ASSUME Kept, MInv, NEW m \in Mints, NEW i \in DOMAIN snaps[m],
                      snaps[m][i].top # Null
               PROVE  \E h \in DOMAIN holders[m] :
                        /\ holders[m][h].pct = snaps[m][i].top
                        /\ \A k \in DOMAIN holders[m] :
                             k > h => holders[m][k].at > snaps[m][i].at
                        /\ i < Len(snaps[m]) =>
                             holders[m][h].at < snaps[m][i + 1].at
    BY DEF ShownWereCurrent
  <2>1. /\ DOMAIN snaps[m] = 1 .. Len(snaps[m])
        /\ DOMAIN holders[m] = 1 .. Len(holders[m])
    BY DEF Kept
  <2> QED
    BY <2>1 DEF MInv, ShowsItsTime
<1> QED
  BY <1>1, <1>2, <1>3, PTL DEF Spec

-----------------------------------------------------------------------------
(* Listing and prices *)

\* ... and an execution that has read the listing to its end lists every steady
\* coin that normalisation accepts (iter_coins_pages, normalize_coin).
THEOREM SteadyCoinsAreListed ==
  Spec => [][epc = "fetch" /\ epc' = "save" /\ whole =>
               (steady \cap Mints) \subseteq listed']_vars
<1>1. OnlyMoversAreMissed /\ [Next]_vars =>
        [epc = "fetch" /\ epc' = "save" /\ whole =>
           (steady \cap Mints) \subseteq listed']_vars
  <2> SUFFICES ASSUME OnlyMoversAreMissed, [Next]_vars,
                      epc = "fetch", epc' = "save", whole
               PROVE  (steady \cap Mints) \subseteq listed'
    OBVIOUS
  <2>1. Normalize
    BY DEF Next, Start, Move, Proceed, Read, ReadingRaises, Enrich, EnrichSteps,
       Save, SkipHolders, ChooseTargets, Send, Answer, Store, BackfillTop,
       ParseRaises, Over, Return, Abandon, Rest, vars, enrichVars
  <2> QED
    BY <2>1, IngestJobAssumption DEF Normalize, Accepted, OnlyMoversAreMissed
<1> QED
  BY <1>1, JobReadsSteadyCoins, PTL DEF Spec

LEMMA RatioIsClamped ==
  ASSUME NEW prev \in Nat \ {0}, NEW cap \in Nat
  PROVE  20 <= Ratio(prev, cap) /\ Ratio(prev, cap) <= 50000
<1>1. CASE cap >= prev
  <2> DEFINE up == 1000 + (10000 * (cap - prev)) \div prev
  <2>1. 10000 * (cap - prev) \in Nat
    BY <1>1
  <2>2. up \in Nat /\ up >= 1000
    <3>1. (10000 * (cap - prev)) \div prev \in Nat
      BY <2>1, QuotientIsNat
    <3> QED
      BY <3>1
  <2>3. Ratio(prev, cap) = IF up > 50000 THEN 50000 ELSE up
    BY <1>1 DEF Ratio
  <2> HIDE DEF up
  <2> QED
    BY <2>2, <2>3
<1>2. CASE ~(cap >= prev)
  <2> DEFINE down == (1000 * prev) \div (prev + 10 * (prev - cap))
  <2>1. down \in Nat
    <3>1. 1000 * prev \in Nat /\ prev + 10 * (prev - cap) \in Nat \ {0}
      BY <1>2
    <3> QED
      BY <3>1, QuotientIsNat
  <2>2. Ratio(prev, cap) \in Nat /\ ~(Ratio(prev, cap) >= 1000)
    BY <1>2, RatioIsNat, RatioIsSided
  <2>3. Ratio(prev, cap) = IF down < 20 THEN 20 ELSE down
    BY <1>2 DEF Ratio
  <2> HIDE DEF down
  <2> QED
    BY <2>1, <2>2, <2>3
<1> QED
  BY <1>1, <1>2

\* However far a price jumps or falls, and however often a row is rewritten, a
\* ratio stays between 0.02 and 50, which its column holds (LEAST and GREATEST in
\* _backfill_volume_and_ratio).
THEOREM RatiosAreClamped ==
  Spec => [](\A m \in Mints : \A i \in DOMAIN snaps[m] :
               snaps[m][i].ratio # Null =>
                 20 <= snaps[m][i].ratio /\ snaps[m][i].ratio <= 50000)
<1>1. Kept /\ VInv => \A m \in Mints : \A i \in DOMAIN snaps[m] :
                snaps[m][i].ratio # Null =>
                  20 <= snaps[m][i].ratio /\ snaps[m][i].ratio <= 50000
  <2> SUFFICES ASSUME Kept, VInv, NEW m \in Mints, NEW i \in DOMAIN snaps[m],
                      snaps[m][i].ratio # Null
               PROVE  20 <= snaps[m][i].ratio /\ snaps[m][i].ratio <= 50000
    OBVIOUS
  <2> DEFINE prev == snaps[m][i - 1].cap
             cap == snaps[m][i].cap
  <2>1. /\ snaps[m] \in Seq(SnapshotRow)
        /\ i \in 1 .. Len(snaps[m]) /\ Settled(snaps[m], i)
    BY DEF VInv, Kept
  <2>2. i > 1 /\ prev # Null /\ cap # Null /\ prev # 0
    BY <2>1 DEF Settled
  <2>3. snaps[m][i].ratio = Ratio(prev, cap)
    BY <2>1, <2>2 DEF Settled
  <2>4. i - 1 \in 1 .. Len(snaps[m])
    BY <2>1, <2>2
  <2>5. snaps[m][i - 1] \in SnapshotRow /\ snaps[m][i] \in SnapshotRow
    BY <2>1, <2>4
  <2>6. prev \in Nat \ {0} /\ cap \in Nat
    BY <2>2, <2>5 DEF SnapshotRow
  <2> HIDE DEF prev, cap
  <2>7. 20 <= Ratio(prev, cap) /\ Ratio(prev, cap) <= 50000
    BY <2>6, RatioIsClamped
  <2> QED
    BY <2>3, <2>7
<1> QED
  BY <1>1, InvariantHolds, PTL
-----------------------------------------------------------------------------
(* Types, and the slots of the RPC client *)

\* The calls that hold a slot.
Out == {m \in target : answers[m] = Sent}

\* An execution's locals.  A slot is free or has a call.
Locals ==
  /\ epc \in JobPhases
  /\ stamp \in 0 .. now
  /\ target \subseteq listed
  /\ DOMAIN answers = target
  /\ slots \in 0 .. Concurrency
  /\ epc = "ask" =>
       /\ IsFiniteSet(Out)
       /\ slots + Cardinality(Out) = Concurrency

\* The reading that an execution has open; it asks while it may ask.
Reading ==
  /\ (fpc # "idle") <=> (epc = "fetch")
  /\ pages \in 0 .. MaxPages
  /\ fpc \in {"price", "page"} => pages < MaxPages

JInv == Kept /\ Shape /\ Locals /\ Reading

LEMMA ThreeAreNotFour ==
  ASSUME NEW x, NEW y, NEW z
  PROVE  Cardinality({x, y, z}) # 4
<1>1. IsFiniteSet({x}) /\ Cardinality({x}) = 1
  BY FS_Singleton
<1>2. IsFiniteSet({x, y}) /\ Cardinality({x, y}) \in 1 .. 2
  <2>1. {x} \cup {y} = {x, y}
    OBVIOUS
  <2> QED
    BY <1>1, <2>1, FS_AddElement
<1>3. Cardinality({x, y, z}) \in 1 .. 3
  <2>1. {x, y} \cup {z} = {x, y, z}
    OBVIOUS
  <2> QED
    BY <1>2, <2>1, FS_AddElement
<1> QED
  BY <1>3

\* The marks that answers may hold beside a percentage are told apart.
LEMMA MarksDiffer == Sent \notin {Null, Unreadable, Unsent} /\ Sent \notin 0 .. 100
<1> DEFINE marks == {Null, Unreadable, Unsent, Sent}
<1>1. Cardinality(marks) = 4 /\ Sent \notin Nat
  BY EnrichmentAssumption
<1>2. ASSUME Sent \in {Null, Unreadable, Unsent} PROVE FALSE
  <2>1. marks = {Null, Unreadable, Unsent}
    BY <1>2
  <2> HIDE DEF marks
  <2> QED
    BY <1>1, <2>1, ThreeAreNotFour
<1> QED
  BY <1>1, <1>2

\* The steps of the enrichment that are no call.
LEMMA LocalsKeep ==
  ASSUME JInv, epc # "ask", epc' # "ask", epc' \in JobPhases,
         UNCHANGED <<listed, target, answers, slots>>,
         stamp' \in 0 .. now'
  PROVE  Locals'
  BY DEF JInv, Locals

LEMMA OverLocals == ASSUME JInv, Over, UNCHANGED tables PROVE Locals'
  BY EnrichmentAssumption
  DEF JInv, Kept, Locals, Over, tables, NoAnswers, JobPhases

LEMMA ChooseLocals == ASSUME JInv, ChooseTargets PROVE Locals'
<1>1. /\ target' \subseteq listed /\ answers' = [m \in target' |-> Unsent]
      /\ slots' = Concurrency /\ epc' = "ask" /\ UNCHANGED <<tables, listed, stamp>>
  BY DEF ChooseTargets
<1>2. Out' = {}
  BY <1>1, MarksDiffer DEF Out
<1>3. IsFiniteSet(Out') /\ slots' + Cardinality(Out') = Concurrency
  BY <1>1, <1>2, FS_EmptySet, EnrichmentAssumption
<1> QED
  BY <1>1, <1>3, EnrichmentAssumption DEF JInv, Locals, tables, JobPhases

\* A call takes a slot that is free and gives it back when it ends, however
\* (async with self._sem).
LEMMA CallLocals ==
  ASSUME JInv, NEW m \in target, Send(m) \/ Answer(m)
  PROVE  Locals'
<1>1. /\ epc = "ask" /\ epc' = "ask" /\ DOMAIN answers = target
      /\ UNCHANGED <<tables, listed, stamp, target>>
      /\ IsFiniteSet(Out) /\ Cardinality(Out) \in Nat
      /\ slots \in 0 .. Concurrency /\ slots + Cardinality(Out) = Concurrency
      /\ Concurrency \in Nat
  BY FS_CardinalityType, EnrichmentAssumption DEF JInv, Locals, Send, Answer
<1>2. CASE Send(m)
  <2>1. /\ answers[m] = Unsent /\ slots > 0 /\ slots' = slots - 1
        /\ answers' = [answers EXCEPT ![m] = Sent]
    BY <1>2 DEF Send
  <2>2. m \notin Out /\ Out' = Out \cup {m}
    BY <1>1, <2>1, MarksDiffer DEF Out
  <2>3. IsFiniteSet(Out') /\ Cardinality(Out') = Cardinality(Out) + 1
    BY <1>1, <2>2, FS_AddElement
  <2>4. slots' \in 0 .. Concurrency /\ slots' + Cardinality(Out') = Concurrency
    BY <1>1, <2>1, <2>3
  <2> QED
    BY <1>1, <2>1, <2>3, <2>4 DEF JInv, Locals, tables
<1>3. CASE Answer(m)
  <2>1. PICK reply \in Replies : answers' = [answers EXCEPT ![m] = Parsed(reply)]
    BY <1>3 DEF Answer
  <2>2. answers[m] = Sent /\ slots' = slots + 1
    BY <1>3 DEF Answer
  <2>3. Parsed(reply) \in 0 .. 100 \cup {Null, Unreadable} /\ Parsed(reply) # Sent
    BY ParsedIsShare, MarksDiffer
  <2>4. m \in Out /\ Out' = Out \ {m}
    BY <1>1, <2>1, <2>2, <2>3 DEF Out
  <2>5. /\ IsFiniteSet(Out') /\ Cardinality(Out') = Cardinality(Out) - 1
        /\ Cardinality(Out') \in Nat
    BY <1>1, <2>4, FS_RemoveElement, FS_CardinalityType
  <2>6. slots' \in 0 .. Concurrency /\ slots' + Cardinality(Out') = Concurrency
    BY <1>1, <2>2, <2>5
  <2> QED
    BY <1>1, <2>1, <2>3, <2>5, <2>6 DEF JInv, Locals, tables
<1> QED
  BY <1>2, <1>3

LEMMA EnrichLocals == ASSUME JInv, EnrichSteps PROVE Locals'
<1>1. CASE Save
  <2>1. now' >= now /\ now' \in Nat /\ now \in Nat
    BY <1>1, EnrichmentAssumption DEF Save, JInv, Kept
  <2>2. stamp' \in 0 .. now'
    <3>1. stamp \in 0 .. now /\ stamp' = stamp
      BY <1>1 DEF Save, JInv, Locals
    <3> QED
      BY <2>1, <3>1
  <2> QED
    BY <1>1, <2>2, LocalsKeep DEF Save, JobPhases
<1>2. CASE SkipHolders
  BY <1>2, LocalsKeep DEF SkipHolders, tables, JInv, Locals, JobPhases
<1>3. CASE BackfillTop
  BY <1>3, LocalsKeep DEF BackfillTop, JInv, Locals, JobPhases
<1>4. CASE Store
  BY <1>4 DEF Store, JInv, Locals, JobPhases
<1> QED
  BY <1>1, <1>2, <1>3, <1>4, ChooseLocals, CallLocals, OverLocals
  DEF EnrichSteps, ParseRaises

\* No step of the enrichment begins or ends a fetch.
LEMMA EnrichReads ==
  ASSUME JInv, EnrichSteps \/ Return \/ Abandon, UNCHANGED listVars
  PROVE  Reading'
<1>1. epc # "fetch" /\ epc' # "fetch"
  BY DEF EnrichSteps, Save, SkipHolders, ChooseTargets, Send, Answer, Store,
         BackfillTop, ParseRaises, Over, Return, Abandon
<1> QED
  BY <1>1 DEF JInv, Reading, listVars

LEMMA ReadingStays ==
  ASSUME JInv, Move \/ Read \/ (ReadingFails /\ UNCHANGED enrichVars)
  PROVE  Reading'
<1>1. CASE Move
  BY <1>1 DEF Move, ServerMoves, Trade, Delist, Launch, client, JInv, Reading,
              enrichVars
<1>2. CASE Page /\ UNCHANGED enrichVars
  <2>1. /\ fpc = "page" /\ fpc' \in {"fetched", "page"} /\ epc' = epc
        /\ pages' = IF BatchSize = 0 THEN pages ELSE pages + 1
        /\ pages' = MaxPages \/ BatchSize < PageSize => fpc' = "fetched"
    BY <1>2 DEF Page, enrichVars
  <2>2. pages \in 0 .. MaxPages /\ pages < MaxPages /\ MaxPages \in Nat
    BY <2>1, ListingAssumption DEF JInv, Reading
  <2>3. pages' \in 0 .. MaxPages /\ (fpc' = "page" => pages' < MaxPages)
    BY <2>1, <2>2
  <2> QED
    BY <2>1, <2>3 DEF JInv, Reading
<1>3. CASE (SolPrice \/ StopsEarly \/ ReadingFails) /\ UNCHANGED enrichVars
  BY <1>3 DEF SolPrice, StopsEarly, ReadingFails, JInv, Reading, enrichVars
<1> QED
  BY <1>1, <1>2, <1>3 DEF Read

LEMMA JobTypesKeep == Inv /\ Kept /\ JInv /\ [Next]_vars => JInv'
<1> SUFFICES ASSUME Inv, Kept, JInv, [Next]_vars PROVE JInv'
  OBVIOUS
<1>1. Kept' /\ Shape'
  BY JobNextKeeps, StepReads, NextKeeps DEF Kept, Inv
<1>2. CASE Start
  <2>1. PICK d \in Delays : now' = now + d
    BY <1>2 DEF Start
  <2>2. stamp' \in 0 .. now'
    BY <1>2, <2>1, IngestJobAssumption DEF Start, JInv, Kept, Locals
  <2>3. Locals'
    BY <1>2, <2>2, LocalsKeep DEF Start, JobPhases
  <2>4. fpc' = "price" /\ pages' = 0 /\ epc' = "fetch"
    BY <1>2 DEF Start, BeginReading
  <2>5. Reading'
    BY <2>4, ListingAssumption DEF Reading
  <2> QED
    BY <1>1, <2>3, <2>5 DEF JInv
<1>3. CASE Move \/ Read \/ (ReadingFails /\ UNCHANGED enrichVars)
  <2>1. UNCHANGED enrichVars
    BY <1>3 DEF Move, Read
  <2>2. Locals'
    BY <2>1 DEF JInv, Locals, Out, enrichVars
  <2> QED
    BY <1>1, <1>3, <2>2, ReadingStays DEF JInv
<1>4. CASE Normalize
  <2>1. target = {} /\ now \in Nat
    BY <1>4 DEF Normalize, JInv, Kept
  <2>2. Locals'
    BY <1>4, <2>1 DEF Normalize, JInv, Locals, JobPhases
  <2>3. Reading'
    BY <1>4, ListingAssumption DEF Normalize, EndReading, Reading
  <2> QED
    BY <1>1, <2>2, <2>3 DEF JInv
<1>5. CASE EndReading /\ Over /\ UNCHANGED tables
  <2>1. Reading'
    BY <1>5, ListingAssumption DEF EndReading, Over, Reading
  <2> QED
    BY <1>1, <1>5, <2>1, OverLocals DEF JInv
<1>6. CASE Enrich \/ Return \/ Abandon
  BY <1>1, <1>6, EnrichLocals, EnrichReads, OverLocals
  DEF Enrich, Return, Abandon, JInv
<1>7. CASE UNCHANGED vars
  BY <1>1, <1>7 DEF JInv, Locals, Out, Reading, vars, enrichVars, listVars
<1> QED
  BY <1>2, <1>3, <1>4, <1>5, <1>6, <1>7 DEF Next, Proceed, Rest, ReadingRaises

LEMMA JobTypesInit == Init => JInv
<1> SUFFICES ASSUME Init PROVE JInv
  OBVIOUS
<1>1. Kept /\ Shape
  BY InitKept, InitHolds DEF Init, Kept, Inv
<1>2. Locals
  BY EnrichmentAssumption DEF Init, EnrichInit, Locals, JobPhases, NoAnswers
<1>3. Reading
  BY ListingAssumption DEF Init, ListInit, EnrichInit, Reading
<1> QED
  BY <1>1, <1>2, <1>3 DEF JInv

\* Every column and local of an execution has its type: no more slots are free than
\* the semaphore has, whatever the RPC answers, a concentration is a percentage, and no more pages are asked for
\* than the setting says (_enrich_holders, SolanaRPCClient, iter_coins_pages).
THEOREM JobTypes == Spec => []TypeOK
<1>1. Init => Inv /\ Kept /\ JInv
  BY InitHolds, InitKept, JobTypesInit DEF Init
<1>2. Inv /\ Kept /\ JInv /\ [Next]_vars => Inv' /\ Kept' /\ JInv'
  BY StepReads, NextKeeps, JobNextKeeps, JobTypesKeep
<1>3. JInv => TypeOK
  BY DEF JInv, Kept, Shape, Locals, Reading, TypeOK, EnrichTypeOK
<1> QED
  BY <1>1, <1>2, <1>3, PTL DEF Spec

\* The fan-out can always go on, and never asks more at a time than it may: while
\* an answer is missing, a call is under way, or one waits and a slot is free for
\* it.  These are the guards of Store, Answer and Send: a slot that an error path
\* loses would leave the last targets waiting for ever (async with self._sem).
THEOREM FanOutIsNeverStuck ==
  Spec => [](epc = "ask" =>
               /\ Cardinality(Out) <= Concurrency
               /\ \/ AllAnswered
                  \/ \E m \in target : answers[m] = Sent
                  \/ slots > 0 /\ \E m \in target : answers[m] = Unsent)
<1>1. Init => Inv /\ Kept /\ JInv
  BY InitHolds, InitKept, JobTypesInit DEF Init
<1>2. Inv /\ Kept /\ JInv /\ [Next]_vars => Inv' /\ Kept' /\ JInv'
  BY StepReads, NextKeeps, JobNextKeeps, JobTypesKeep
<1>3. JInv => (epc = "ask" =>
                 /\ Cardinality(Out) <= Concurrency
                 /\ \/ AllAnswered
                    \/ \E m \in target : answers[m] = Sent
                    \/ slots > 0 /\ \E m \in target : answers[m] = Unsent)
  <2> SUFFICES ASSUME JInv, epc = "ask"
               PROVE  /\ Cardinality(Out) <= Concurrency
                      /\ \/ AllAnswered
                         \/ \E m \in target : answers[m] = Sent
                         \/ slots > 0 /\ \E m \in target : answers[m] = Unsent
    OBVIOUS
  <2>1. IsFiniteSet(Out) /\ slots + Cardinality(Out) = Concurrency
        /\ slots \in 0 .. Concurrency
    BY DEF JInv, Locals
  <2>2. Cardinality(Out) \in Nat
    BY <2>1, FS_CardinalityType
  <2>3. Concurrency \in Nat \ {0}
    BY EnrichmentAssumption
  <2>4. Cardinality(Out) <= Concurrency
    BY <2>1, <2>2, <2>3
  <2>5. CASE Out = {}
    <3>1. slots > 0
      BY <2>1, <2>3, <2>5, FS_EmptySet
    <3>2. AllAnswered \/ \E m \in target : answers[m] = Unsent
      BY <2>5 DEF Out, AllAnswered
    <3> QED
      BY <2>4, <3>1, <3>2
  <2>6. CASE Out # {}
    BY <2>4, <2>6 DEF Out
  <2> QED
    BY <2>5, <2>6
<1> QED
  BY <1>1, <1>2, <1>3, PTL DEF Spec

-----------------------------------------------------------------------------
(* How far an execution is from its end *)

Stage(p) == CASE p = "fetch" -> 6 [] p = "save" -> 5 [] p = "choose" -> 4
              [] p = "ask" -> 3 [] p = "backfill" -> 2 [] p = "done" -> 1
              [] OTHER -> 0
ReadStage(p) == CASE p = "price" -> 2 [] p = "page" -> 1 [] OTHER -> 0
PagesLeft == MaxPages - pages

\* A call that waits has two steps to go, a call under way one.
Waiting == {m \in target : answers[m] = Unsent}
CallsLeft == 2 * Cardinality(Waiting) + Cardinality(Out)

\* Each step of an execution ends it or a phase of it or, in the reading, a phase of
\* that or a page, and in the fan-out one of the steps that its calls have to go;
\* what the server does meanwhile changes nothing of that.
Advances ==
  \/ epc' = "asleep"
  \/ Stage(epc') < Stage(epc)
  \/ /\ epc = "fetch" /\ UNCHANGED enrichVars
     /\ \/ ReadStage(fpc') < ReadStage(fpc)
        \/ fpc' = fpc /\ PagesLeft' < PagesLeft
        \/ Move /\ UNCHANGED client
  \/ epc = "ask" /\ epc' = "ask" /\ CallsLeft' < CallsLeft
  \/ UNCHANGED vars
JobAdvances == epc # "asleep" => Advances

MeasuresAreNat == PagesLeft \in Nat /\ (epc = "ask" => CallsLeft \in Nat)

\* An execution collects, lists and asks about finitely many coins.
FInv == IsFiniteSet(raw) /\ IsFiniteSet(listed)

LEMMA BatchIsFinite ==
  ASSUME Shape
  PROVE  IsFiniteSet(Batch)
<1> DEFINE places == offset + 1 .. offset + BatchSize
<1>1. offset \in Nat /\ BatchSize \in Int
  BY ListingAssumption DEF Shape, BatchSize, Smaller
<1>2. IsFiniteSet(places)
  BY <1>1, FS_Interval
<1> HIDE DEF places
<1> DEFINE entry == [j \in places |-> feed[j]]
<1>3. entry \in Surjection(places, {feed[j] : j \in places})
  BY DEF Surjection
<1>4. IsFiniteSet({feed[j] : j \in places})
  BY <1>2, <1>3, FS_Surjection, Zenon
<1> QED
  BY <1>4 DEF Batch, places

LEMMA FiniteNext == JInv /\ FInv /\ [Next]_vars => FInv'
<1> SUFFICES ASSUME JInv, FInv, [Next]_vars PROVE FInv'
  OBVIOUS
<1>1. CASE Page /\ UNCHANGED enrichVars
  <2>1. IsFiniteSet(Batch \ Nameless)
    BY BatchIsFinite, FS_Difference DEF JInv
  <2>2. IsFiniteSet(raw')
    BY <1>1, <2>1, FS_Union DEF Page, FInv
  <2> QED
    BY <1>1, <2>2 DEF FInv, enrichVars
<1>2. CASE Normalize
  <2>1. IsFiniteSet(listed')
    BY <1>2, FS_Subset DEF Normalize, Accepted, FInv
  <2> QED
    BY <1>2, <2>1, FS_EmptySet DEF Normalize, EndReading, FInv
<1>3. CASE Start
  BY <1>3, FS_EmptySet DEF Start, BeginReading, FInv
<1>4. CASE EndReading /\ Over
  BY <1>4, FS_EmptySet DEF EndReading, Over, FInv
<1>5. CASE \/ Move \/ UNCHANGED vars
           \/ (SolPrice \/ StopsEarly \/ ReadingFails) /\ UNCHANGED enrichVars
  BY <1>5 DEF Move, ServerMoves, Trade, Launch, Delist, client, SolPrice,
     StopsEarly, ReadingFails, enrichVars, vars, listVars, FInv
<1>6. CASE (EnrichSteps \/ Return \/ Abandon) /\ UNCHANGED listVars
  <2>1. listed' = listed \/ listed' = {}
    BY <1>6 DEF EnrichSteps, Save, SkipHolders, ChooseTargets, Send, Answer, Store,
       BackfillTop, ParseRaises, Over, Return, Abandon
  <2> QED
    BY <1>6, <2>1, FS_EmptySet DEF listVars, FInv
<1> QED
  BY <1>1, <1>2, <1>3, <1>4, <1>5, <1>6
  DEF Next, Proceed, Rest, Read, ReadingRaises, Enrich, Return, Abandon

\* What a reply is parsed to is none of the marks of a call that goes on.
LEMMA AnswersEnd ==
  ASSUME NEW reply \in Replies
  PROVE  Parsed(reply) \notin {Sent, Unsent}
<1>1. Parsed(reply) \in 0 .. 100 \cup {Null, Unreadable}
  BY ParsedIsShare
<1>2. Unsent \notin {Null, Unreadable} /\ Unsent \notin 0 .. 100
  <2> DEFINE marks == {Null, Unreadable, Unsent, Sent}
  <2>1. Cardinality(marks) = 4 /\ Unsent \notin Nat
    BY EnrichmentAssumption
  <2>2. ASSUME Unsent \in {Null, Unreadable} PROVE FALSE
    <3>1. marks = {Null, Unreadable, Sent}
      BY <2>2
    <3> HIDE DEF marks
    <3> QED
      BY <2>1, <3>1, ThreeAreNotFour
  <2> QED
    BY <2>1, <2>2
<1> QED
  BY <1>1, <1>2, MarksDiffer

\* A call that is sent or answered is one step nearer to its end.
LEMMA CallsAdvance ==
  ASSUME JInv, FInv, NEW m \in target, Send(m) \/ Answer(m)
  PROVE  CallsLeft' < CallsLeft
<1>1. /\ epc = "ask" /\ DOMAIN answers = target /\ target' = target
      /\ IsFiniteSet(Out) /\ Cardinality(Out) \in Nat
  BY FS_CardinalityType DEF JInv, Locals, Send, Answer
<1>2. IsFiniteSet(Waiting) /\ Cardinality(Waiting) \in Nat
  <2>1. Waiting \subseteq listed
    BY DEF Waiting, JInv, Locals
  <2> QED
    BY <2>1, FS_Subset, FS_CardinalityType DEF FInv
<1>3. Unsent # Sent
  BY MarksDiffer
<1>4. CASE Send(m)
  <2>1. answers[m] = Unsent /\ answers' = [answers EXCEPT ![m] = Sent]
    BY <1>4 DEF Send
  <2>2. /\ m \notin Out /\ Out' = Out \cup {m}
        /\ m \in Waiting /\ Waiting' = Waiting \ {m}
    BY <1>1, <1>3, <2>1 DEF Out, Waiting
  <2>3. /\ Cardinality(Out') = Cardinality(Out) + 1
        /\ Cardinality(Waiting') = Cardinality(Waiting) - 1
    BY <1>1, <1>2, <2>2, FS_AddElement, FS_RemoveElement
  <2>4. CallsLeft' = 2 * Cardinality(Waiting') + Cardinality(Out')
    BY DEF CallsLeft
  <2> QED
    BY <1>1, <1>2, <2>3, <2>4 DEF CallsLeft
<1>5. CASE Answer(m)
  <2>1. PICK reply \in Replies : answers' = [answers EXCEPT ![m] = Parsed(reply)]
    BY <1>5 DEF Answer
  <2>2. answers[m] = Sent /\ Parsed(reply) \notin {Sent, Unsent}
    BY <1>5, AnswersEnd DEF Answer
  <2>3. /\ m \in Out /\ Out' = Out \ {m} /\ Waiting' = Waiting
    BY <1>1, <1>3, <2>1, <2>2 DEF Out, Waiting
  <2>4. Cardinality(Out') = Cardinality(Out) - 1
    BY <1>1, <2>3, FS_RemoveElement
  <2>5. CallsLeft' = 2 * Cardinality(Waiting') + Cardinality(Out')
    BY DEF CallsLeft
  <2> QED
    BY <1>1, <1>2, <2>3, <2>4, <2>5 DEF CallsLeft
<1> QED
  BY <1>4, <1>5

LEMMA JobStepAdvances == JInv /\ FInv /\ [Next]_vars => JobAdvances
<1> SUFFICES ASSUME JInv, FInv, [Next]_vars, epc # "asleep" PROVE Advances
  BY DEF JobAdvances
<1>1. ~ Start
  BY DEF Start
<1>2. CASE UNCHANGED vars
  BY <1>2 DEF Advances
<1>3. /\ (fpc # "idle") <=> (epc = "fetch")
      /\ pages \in Nat /\ MaxPages \in Nat /\ pages <= MaxPages
      /\ fpc = "page" => pages < MaxPages
  BY ListingAssumption DEF JInv, Reading
<1>4. CASE Move
  <2>1. UNCHANGED <<client, enrichVars>> /\ fpc = "page"
    BY <1>4 DEF Move, ServerMoves, Trade, Launch, Delist
  <2> QED
    BY <1>3, <1>4, <2>1 DEF Advances
<1>5. CASE Read
  <2>1. UNCHANGED enrichVars /\ epc = "fetch"
    BY <1>3, <1>5 DEF Read, SolPrice, Page, StopsEarly
  <2>2. CASE SolPrice \/ StopsEarly
    BY <2>1, <2>2 DEF SolPrice, StopsEarly, ReadStage, Advances
  <2>3. CASE Page
    <3>1. /\ fpc = "page" /\ fpc' \in {"fetched", "page"}
          /\ pages' = IF BatchSize = 0 THEN pages ELSE pages + 1
          /\ pages' = MaxPages \/ BatchSize < PageSize => fpc' = "fetched"
      BY <2>3 DEF Page
    <3>2. CASE fpc' = "fetched"
      BY <2>1, <3>1, <3>2 DEF ReadStage, Advances
    <3>3. CASE fpc' = "page"
      <4>1. BatchSize # 0
        BY <3>1, <3>3, ListingAssumption
      <4>2. PagesLeft' < PagesLeft
        BY <1>3, <3>1, <4>1 DEF PagesLeft
      <4> QED
        BY <2>1, <3>1, <3>3, <4>2 DEF Advances
    <3> QED
      BY <3>1, <3>2, <3>3
  <2> QED
    BY <1>5, <2>2, <2>3 DEF Read
<1>6. CASE ReadingFails /\ UNCHANGED enrichVars
  BY <1>3, <1>6 DEF ReadingFails, ReadStage, enrichVars, Advances
<1>7. CASE Over
  BY <1>7 DEF Over, Advances
<1>8. CASE Normalize
  BY <1>8 DEF Normalize, Stage, Advances
<1>9. CASE Save \/ SkipHolders \/ ChooseTargets \/ Store \/ BackfillTop
  BY <1>9 DEF Save, SkipHolders, ChooseTargets, Store, BackfillTop, Stage,
       Advances
<1>10. ASSUME NEW m \in target, Send(m) \/ Answer(m) PROVE Advances
  <2>1. epc = "ask" /\ epc' = "ask"
    BY <1>10 DEF Send, Answer
  <2> QED
    BY <1>10, <2>1, CallsAdvance DEF Advances
<1> QED
  BY <1>1, <1>2, <1>4, <1>5, <1>6, <1>7, <1>8, <1>9, <1>10
  DEF Next, Proceed, Rest, ReadingRaises, Enrich, EnrichSteps, ParseRaises, Return,
      Abandon

LEMMA MeasuresHold == JInv /\ FInv => MeasuresAreNat
<1> SUFFICES ASSUME JInv, FInv PROVE MeasuresAreNat
  OBVIOUS
<1>1. PagesLeft \in Nat
  BY ListingAssumption DEF JInv, Reading, PagesLeft
<1>2. ASSUME epc = "ask" PROVE CallsLeft \in Nat
  <2>1. IsFiniteSet(Waiting)
    BY FS_Subset DEF Waiting, JInv, Locals, FInv
  <2>2. Cardinality(Waiting) \in Nat /\ Cardinality(Out) \in Nat
    BY <1>2, <2>1, FS_CardinalityType DEF JInv, Locals
  <2> QED
    BY <2>2 DEF CallsLeft
<1> QED
  BY <1>1, <1>2 DEF MeasuresAreNat

\* No execution goes on for ever, although the listing may grow while it is read and
\* the calls wait for each other's slots: each of its steps lowers what is left of it,
\* in lexicographic order (the while loops of iter_coins_pages, _enrich_holders).
\* That it takes its steps is left to fairness, and with FanOutIsNeverStuck that the
\* longest wait has one to take.
THEOREM EveryStepCounts == Spec => [][JobAdvances]_vars /\ []MeasuresAreNat
<1>1. Init => Inv /\ Kept /\ JInv
  BY InitHolds, InitKept, JobTypesInit DEF Init
<1>2. Init => FInv
  BY FS_EmptySet DEF Init, ListInit, EnrichInit, FInv
<1>3. Inv /\ Kept /\ JInv /\ FInv /\ [Next]_vars => Inv' /\ Kept' /\ JInv' /\ FInv'
  BY StepReads, NextKeeps, JobNextKeeps, JobTypesKeep, FiniteNext
<1> QED
  BY <1>1, <1>2, <1>3, JobStepAdvances, MeasuresHold, PTL DEF Spec

-----------------------------------------------------------------------------
(* The promise of Ingestion, kept by the steps of this module *)

\* The part of the table that Ingestion tells of: the times of the rows.
Times(m) == [i \in 1 .. Len(snaps[m]) |-> snaps[m][i].at]

\* What SnapshotTable's one step does to them: it stamps the rows, and checks what
\* it finds at a threshold that is taken later, in the end.
IngestLate ==
  \A m \in Mints :
    Times(m)' =
      IF m \in listed /\ \A i \in DOMAIN Times(m) : Times(m)[i] + Stale <= now'
        THEN Append(Times(m), stamp) ELSE Times(m)
TimesKept == \A m \in Mints : Times(m)' = Times(m)

LEMMA AppendIs ==
  ASSUME NEW times \in Seq(Nat), NEW t \in Nat, NEW k \in Nat, Len(times) = k
  PROVE  Append(times, t) = [i \in 1 .. k + 1 |-> IF i = k + 1 THEN t ELSE times[i]]
<1> DEFINE longer == Append(times, t)
<1>1. /\ longer \in Seq(Nat) /\ Len(longer) = k + 1
      /\ longer[k + 1] = t /\ \A i \in 1 .. k : longer[i] = times[i]
  OBVIOUS
<1> HIDE DEF longer
<1>2. longer = [i \in 1 .. k + 1 |-> longer[i]]
  BY <1>1
<1>3. \A i \in 1 .. k + 1 : longer[i] = IF i = k + 1 THEN t ELSE times[i]
  BY <1>1
<1> QED
  BY <1>2, <1>3 DEF longer

LEMMA SaveIngests == ASSUME Kept, Save PROVE IngestLate
<1>1. ASSUME NEW m \in Mints
      PROVE  Times(m)' =
               IF /\ m \in listed
                  /\ \A i \in DOMAIN Times(m) : Times(m)[i] + Stale <= now'
                 THEN Append(Times(m), stamp) ELSE Times(m)
  <2> DEFINE n == Len(snaps[m])
  <2>1. /\ n \in Nat /\ DOMAIN snaps[m] = 1 .. n /\ stamp \in Nat
        /\ \A i \in 1 .. n : snaps[m][i].at \in Nat
    BY RowTimes DEF Kept
  <2>2. (\A i \in DOMAIN Times(m) : Times(m)[i] + Stale <= now') <=> Due(m, now')
    BY <2>1 DEF Times, Due
  <2>3. CASE m \in listed /\ Due(m, now')
    <3>1. /\ Len(snaps'[m]) = n + 1 /\ snaps'[m][n + 1].at = stamp
          /\ \A i \in 1 .. n : snaps'[m][i].at = snaps[m][i].at
      BY <2>3, SaveRows
    <3>2. Times(m)' = [i \in 1 .. n + 1 |-> snaps'[m][i].at]
      BY <3>1 DEF Times
    <3>3. Times(m) \in Seq(Nat) /\ Len(Times(m)) = n
      <4>1. Times(m) \in [1 .. n -> Nat]
        BY <2>1 DEF Times
      <4> QED
        BY <2>1, <4>1, FunctionIsSequence
    <3>4. Append(Times(m), stamp) = [i \in 1 .. n + 1 |-> IF i = n + 1 THEN stamp
                                                         ELSE snaps[m][i].at]
      <4>1. Append(Times(m), stamp) = [i \in 1 .. n + 1 |-> IF i = n + 1 THEN stamp
                                                           ELSE Times(m)[i]]
        BY <2>1, <3>3, AppendIs
      <4>2. \A i \in 1 .. n + 1 : i # n + 1 => Times(m)[i] = snaps[m][i].at
        BY <2>1 DEF Times
      <4> QED
        BY <4>1, <4>2, Zenon
    <3>5. \A i \in 1 .. n + 1 :
            snaps'[m][i].at = IF i = n + 1 THEN stamp ELSE snaps[m][i].at
      BY <2>1, <3>1
    <3> QED
      BY <2>2, <2>3, <3>2, <3>4, <3>5
  <2>4. CASE ~ (m \in listed /\ Due(m, now'))
    BY <2>2, <2>4, SaveRows DEF Times
  <2> QED
    BY <2>3, <2>4
<1> QED
  BY <1>1 DEF IngestLate

LEMMA BackfillKeepsTimes == ASSUME Kept, BackfillTop PROVE TimesKept
  BY BackfillRows DEF TimesKept, Times

\* To the times of the snapshots an execution does what Ingestion, where its first
\* transaction interleaves with others, and DailyReport, where it is one step, say it
\* does: one snapshot, of the time the execution noted before, for exactly those of
\* the listed coins that are stale at its threshold, and both back-fills leave the
\* times (_insert_snapshots, _backfill_volume_and_ratio,
\* _apply_holder_concentration_to_latest_snapshots).
THEOREM SavesAsIngestion == Spec => [][TimesKept \/ (Save /\ IngestLate)]_vars
<1>1. Kept /\ [Next]_vars => TimesKept \/ (Save /\ IngestLate)
  <2> SUFFICES ASSUME Kept, [Next]_vars PROVE TimesKept \/ (Save /\ IngestLate)
    OBVIOUS
  <2>1. UNCHANGED snaps => TimesKept
    BY DEF TimesKept, Times
  <2> QED
    BY <2>1, OnlyTwoWrite, SaveIngests, BackfillKeepsTimes
<1> QED
  BY <1>1, InvariantHolds, PTL DEF Spec
=============================================================================
