-------------------------- MODULE IngestionProofs --------------------------
(***************************************************************************)
(* Machine-checked proofs about Ingestion.tla: for any number of runs,     *)
(* mints, listings, budgets and any clock bound, the invariants that TLC   *)
(* checks on a small instance hold, and the transaction implements the     *)
(* one-step SnapshotTable.                                                 *)
(***************************************************************************)
EXTENDS Ingestion, FiniteSetTheorems, WellFoundedInduction, TLAPS

\* Once a run has read, its transaction has written every token of its list.
UpsertsCounted ==
  \A r \in Runs :
    /\ pos[r] <= Len(listing[r])
    /\ pc[r] \in {"insert", "commit"} => pos[r] = Len(listing[r])

\* snapshot_at is taken before the threshold, and the threshold before now.
ClocksOrdered ==
  \A r \in Runs :
    /\ pc[r] \in InTx => snapAt[r] <= now
    /\ pc[r] = "commit" => snapAt[r] <= checked[r] /\ checked[r] <= now

\* MAX(snapshot_at) exists for a mint that has rows.
NewestExists ==
  \A m \in Mints : snaps[m] # <<>> =>
    \E i \in DOMAIN snaps[m] :
      \A j \in DOMAIN snaps[m] : snaps[m][j].at <= snaps[m][i].at

IInv ==
  /\ TypeOK
  /\ UpsertsCounted
  /\ ClocksOrdered
  /\ NewestExists
  /\ LocksAreOwned
  /\ NothingReadIsOutdated
  /\ SnapshotsSpaced

-----------------------------------------------------------------------------
(* Lemmas about the table *)

\* Comparing the MAX with the threshold, as _select_fresh_mints does, is
\* comparing every row with it.
LEMMA NewestDecides ==
  ASSUME NEW rows \in Seq(SnapshotRow), NEW t \in Nat,
         Stale \in Nat,
         rows # <<>> => \E i \in DOMAIN rows :
                          \A j \in DOMAIN rows : rows[j].at <= rows[i].at
  PROVE  (\A last \in Newest(rows) : last + Stale <= t)
           <=> StaleAt(rows, t)
<1>. USE DEF StaleAt
<1>0. \A i \in DOMAIN rows : rows[i].at \in Nat
  <2>1. \A i \in DOMAIN rows : rows[i] \in SnapshotRow
    OBVIOUS
  <2>. QED
    BY <2>1 DEF SnapshotRow
<1>1. ASSUME \A last \in Newest(rows) : last + Stale <= t,
             NEW k \in DOMAIN rows
      PROVE  rows[k].at + Stale <= t
  <2>1. rows # <<>>
    BY <1>1
  <2>2. PICK i \in DOMAIN rows :
               \A j \in DOMAIN rows : rows[j].at <= rows[i].at
    BY <2>1
  <2>3. rows[i].at \in Newest(rows)
    BY <2>2 DEF Newest
  <2>. QED
    BY <1>0, <1>1, <2>2, <2>3
<1>2. ASSUME \A i \in DOMAIN rows : rows[i].at + Stale <= t,
             NEW last \in Newest(rows)
      PROVE  last + Stale <= t
  BY <1>0, <1>2 DEF Newest
<1>. QED
  BY <1>1, <1>2

\* A row appended to a mint's snapshots keeps the newest one well defined.
LEMMA AppendKeepsNewest ==
  ASSUME NEW rows \in Seq(SnapshotRow),
         NEW row \in SnapshotRow,
         rows # <<>> => \E i \in DOMAIN rows :
                          \A j \in DOMAIN rows : rows[j].at <= rows[i].at
  PROVE  \E i \in DOMAIN Append(rows, row) :
           \A j \in DOMAIN Append(rows, row) :
             Append(rows, row)[j].at <= Append(rows, row)[i].at
<1>. DEFINE n == Len(rows)
            all == Append(rows, row)
<1>1. /\ n \in Nat
      /\ DOMAIN rows = 1 .. n
      /\ DOMAIN all = 1 .. n + 1
      /\ all[n + 1] = row
      /\ \A i \in 1 .. n : all[i] = rows[i] /\ rows[i].at \in Nat
  <2>1. \A i \in DOMAIN rows : rows[i] \in SnapshotRow
    OBVIOUS
  <2>. QED
    BY <2>1 DEF SnapshotRow
<1>2. CASE rows = <<>>
  <2>1. n = 0
    BY <1>2
  <2>. HIDE DEF n, all
  <2>2. 1 \in DOMAIN all /\ \A j \in DOMAIN all : j = 1
    BY <1>1, <2>1
  <2>3. row.at \in Nat
    BY DEF SnapshotRow
  <2>4. \A j \in DOMAIN all : all[j].at <= all[1].at
    BY <1>1, <2>1, <2>2, <2>3
  <2>. QED
    BY <2>2, <2>4 DEF all
<1>3. CASE rows # <<>>
  <2>1. PICK i \in 1 .. n : \A j \in 1 .. n : rows[j].at <= rows[i].at
    BY <1>1, <1>3
  <2>2. row.at \in Nat
    BY DEF SnapshotRow
  <2>. HIDE DEF n, all
  <2>3. CASE row.at <= rows[i].at
    <3>1. \A j \in DOMAIN all : all[j].at <= all[i].at
      BY <1>1, <2>1, <2>3
    <3>2. i \in DOMAIN all
      BY <1>1, <2>1
    <3>. QED
      BY <3>1, <3>2, Zenon DEF all
  <2>4. CASE ~(row.at <= rows[i].at)
    <3>1. \A j \in 1 .. n : rows[j].at <= row.at
      BY <1>1, <2>1, <2>2, <2>4
    <3>2. \A j \in DOMAIN all : all[j].at <= all[n + 1].at
      BY <1>1, <2>2, <3>1
    <3>3. n + 1 \in DOMAIN all
      BY <1>1
    <3>. QED
      BY <3>2, <3>3, Zenon DEF all
  <2>. QED
    BY <2>3, <2>4
<1>. QED
  BY <1>2, <1>3

\* A row checked a staleness period after every earlier one keeps the spacing.
LEMMA AppendKeepsSpacing ==
  ASSUME NEW rows \in Seq(SnapshotRow),
         NEW row \in SnapshotRow,
         \A i, j \in DOMAIN rows : i < j => rows[i].at + Stale <= rows[j].checked,
         \A i \in DOMAIN rows : rows[i].at + Stale <= row.checked
  PROVE  \A i, j \in DOMAIN Append(rows, row) :
           i < j => Append(rows, row)[i].at + Stale
                    <= Append(rows, row)[j].checked
<1>. DEFINE n == Len(rows)
            all == Append(rows, row)
<1>1. /\ n \in Nat
      /\ DOMAIN rows = 1 .. n
      /\ DOMAIN all = 1 .. n + 1
      /\ all[n + 1] = row
      /\ \A i \in 1 .. n : all[i] = rows[i]
  OBVIOUS
<1>2. SUFFICES ASSUME NEW i \in 1 .. n + 1, NEW j \in 1 .. n + 1, i < j
               PROVE  all[i].at + Stale <= all[j].checked
  BY <1>1
<1>. HIDE DEF n, all
<1>3. i \in 1 .. n /\ all[i] = rows[i]
  BY <1>1, <1>2
<1>4. CASE j = n + 1
  BY <1>1, <1>3, <1>4
<1>5. CASE j \in 1 .. n
  BY <1>1, <1>2, <1>3, <1>5
<1>. QED
  BY <1>1, <1>4, <1>5

-----------------------------------------------------------------------------
(* Every action preserves the invariant *)

USE DEF InTx, Phases

\* A step that leaves a run's local state and the rows of its mints alone
\* leaves what it has read alone.
LEMMA ReadsUntouched ==
  ASSUME NEW s \in Runs,
         listing'[s] = listing[s], recent'[s] = recent[s],
         checked'[s] = checked[s], fresh'[s] = fresh[s],
         \A m \in Listed(s) : snaps'[m] = snaps[m]
  PROVE  /\ Listed(s)' = Listed(s)
         /\ ReadIsNewest(s)' <=> ReadIsNewest(s)
         /\ FreshIsStale(s)' <=> FreshIsStale(s)
<1>1. Listed(s)' = Listed(s)
  BY DEF Listed
<1>2. ReadIsNewest(s)' <=> ReadIsNewest(s)
  BY <1>1 DEF ReadIsNewest
<1>3. FreshIsStale(s)' <=> FreshIsStale(s)
  BY <1>1 DEF FreshIsStale
<1>. QED
  BY <1>1, <1>2, <1>3

LEMMA InitEstablishes ==
  Init => IInv
<1>. SUFFICES ASSUME Init PROVE IInv
  OBVIOUS
<1>. USE IngestionAssumption DEF Init
<1>1. TypeOK
  BY DEF TypeOK
<1>2. UpsertsCounted /\ ClocksOrdered /\ NewestExists
  BY DEF UpsertsCounted, ClocksOrdered, NewestExists
<1>3. LocksAreOwned
  BY DEF LocksAreOwned, Upserted
<1>4. NothingReadIsOutdated
  BY DEF NothingReadIsOutdated
<1>5. SnapshotsSpaced
  BY DEF SnapshotsSpaced
<1>. QED
  BY <1>1, <1>2, <1>3, <1>4, <1>5 DEF IInv

\* The clock: only the order of the clocks is at stake.
LEMMA TickPreserves ==
  ASSUME IInv, Tick
  PROVE  IInv'
<1>. USE DEF Tick, local
<1>0. now \in Nat /\ now' = now + 1
  BY DEF IInv, TypeOK
<1>1. TypeOK'
  BY DEF IInv, TypeOK
<1>2. ClocksOrdered'
  <2>1. snapAt \in [Runs -> Nat] /\ checked \in [Runs -> Nat]
    BY DEF IInv, TypeOK
  <2>. QED
    BY <1>0, <2>1 DEF IInv, ClocksOrdered
<1>3. UpsertsCounted' /\ NewestExists' /\ SnapshotsSpaced'
  BY DEF IInv, UpsertsCounted, NewestExists, SnapshotsSpaced
<1>4. LocksAreOwned'
  BY DEF IInv, LocksAreOwned, Upserted
<1>5. NothingReadIsOutdated'
  BY ReadsUntouched DEF IInv, NothingReadIsOutdated
<1>. QED
  BY <1>1, <1>2, <1>3, <1>4, <1>5 DEF IInv

\* A step that only moves a run between phases outside a transaction.
LEMMA OutsidePreserves ==
  ASSUME IInv, NEW r \in Runs,
         pc[r] \notin InTx, NEW p \in Phases \ InTx,
         pc' = [pc EXCEPT ![r] = p],
         attempt' = attempt \/ attempt' = [attempt EXCEPT ![r] = 1],
         UNCHANGED <<now, tokens, snaps, lock>>, UNCHANGED local
  PROVE  IInv'
<1>. USE DEF local
<1>0. pc \in [Runs -> Phases]
  BY DEF IInv, TypeOK
<1>1. TypeOK'
  <2>1. /\ attempt' \in [Runs -> Nat \ {0}]
        /\ \A s \in Runs : attempt'[s] <= Budget[s]
    <3>1. \A s \in Runs : Budget[s] \in Nat /\ 1 <= Budget[s]
      BY IngestionAssumption
    <3>2. /\ attempt \in [Runs -> Nat \ {0}]
          /\ \A s \in Runs : attempt[s] <= Budget[s]
      BY DEF IInv, TypeOK
    <3>. QED
      BY <3>1, <3>2
  <2>. QED
    BY <1>0, <2>1 DEF IInv, TypeOK
<1>2. UpsertsCounted' /\ ClocksOrdered'
  BY <1>0 DEF IInv, UpsertsCounted, ClocksOrdered
<1>3. NewestExists' /\ SnapshotsSpaced'
  BY DEF IInv, NewestExists, SnapshotsSpaced
<1>4. LocksAreOwned'
  BY <1>0 DEF IInv, LocksAreOwned, Upserted
<1>5. NothingReadIsOutdated'
  BY <1>0, ReadsUntouched DEF IInv, NothingReadIsOutdated
<1>. QED
  BY <1>1, <1>2, <1>3, <1>4, <1>5 DEF IInv

\* A new transaction holds no lock and has read nothing.
LEMMA FetchPreserves ==
  ASSUME IInv, NEW r \in Runs, Fetch(r)
  PROVE  IInv'
<1>. USE DEF Fetch
<1>0. PICK l \in Listings :
        /\ listing' = [listing EXCEPT ![r] = l]
        /\ pos' = [pos EXCEPT ![r] = 0]
        /\ snapAt' = [snapAt EXCEPT ![r] = now]
  OBVIOUS
<1>1. /\ pc \in [Runs -> Phases] /\ listing \in [Runs -> Seq(Mints)]
      /\ pos \in [Runs -> Nat] /\ snapAt \in [Runs -> Nat] /\ now \in Nat
      /\ l \in Seq(Mints) /\ Len(l) \in Nat
  BY IngestionAssumption DEF IInv, TypeOK
<1>2. TypeOK'
  BY <1>0, <1>1 DEF IInv, TypeOK
<1>3. UpsertsCounted' /\ ClocksOrdered'
  BY <1>0, <1>1 DEF IInv, UpsertsCounted, ClocksOrdered
<1>4. NewestExists' /\ SnapshotsSpaced'
  BY DEF IInv, NewestExists, SnapshotsSpaced
<1>5. LocksAreOwned'
  <2>. SUFFICES ASSUME NEW m \in Mints, NEW s \in Runs
                PROVE  (lock[m] = s <=> pc[s] \in InTx /\ m \in Upserted(s))'
    BY DEF LocksAreOwned
  <2>1. CASE s = r
    <3>1. Upserted(r)' = {}
      BY <1>0, <1>1 DEF Upserted
    <3>. QED
      BY <1>1, <2>1, <3>1 DEF IInv, LocksAreOwned
  <2>2. CASE s # r
    BY <1>0, <1>1, <2>2 DEF IInv, LocksAreOwned, Upserted
  <2>. QED
    BY <2>1, <2>2
<1>6. NothingReadIsOutdated'
  <2>. SUFFICES ASSUME NEW s \in Runs
                PROVE  /\ (pc[s] = "insert" => ReadIsNewest(s))'
                       /\ (pc[s] = "commit" => FreshIsStale(s))'
    BY DEF NothingReadIsOutdated
  <2>1. CASE s = r
    BY <1>1, <2>1
  <2>2. CASE s # r
    <3>1. listing'[s] = listing[s] /\ pc'[s] = pc[s]
      BY <1>0, <1>1, <2>2
    <3>. QED
      BY <3>1, ReadsUntouched DEF IInv, NothingReadIsOutdated
  <2>. QED
    BY <2>1, <2>2
<1>. QED
  BY <1>2, <1>3, <1>4, <1>5, <1>6 DEF IInv

\* The upsert takes a row lock nobody holds.
LEMMA UpsertPreserves ==
  ASSUME IInv, NEW r \in Runs, UpsertToken(r)
  PROVE  IInv'
<1>. DEFINE k == pos[r] + 1
            mint == listing[r][k]
<1>. USE DEF UpsertToken
<1>1. /\ pc \in [Runs -> Phases] /\ listing \in [Runs -> Seq(Mints)]
      /\ pos \in [Runs -> Nat] /\ lock \in [Mints -> Runs \cup {Free}]
      /\ listing[r] \in Seq(Mints) /\ Len(listing[r]) \in Nat
  BY DEF IInv, TypeOK
<1>2. k \in 1 .. Len(listing[r]) /\ mint \in Mints
  BY <1>1
<1>3. TypeOK'
  <2>1. lock' \in [Mints -> Runs \cup {Free}] /\ pos' \in [Runs -> Nat]
    BY <1>1, <1>2
  <2> QED
    BY <2>1 DEF IInv, TypeOK
<1>4. UpsertsCounted' /\ ClocksOrdered'
  BY <1>1, <1>2 DEF IInv, UpsertsCounted, ClocksOrdered
<1>5. NewestExists' /\ SnapshotsSpaced'
  BY DEF IInv, NewestExists, SnapshotsSpaced
<1>6. LocksAreOwned'
  <2>. SUFFICES ASSUME NEW m \in Mints, NEW s \in Runs
                PROVE  (lock[m] = s <=> pc[s] \in InTx /\ m \in Upserted(s))'
    BY DEF LocksAreOwned
  <2>0. lock[m] = s <=> pc[s] \in InTx /\ m \in Upserted(s)
    BY DEF IInv, LocksAreOwned
  <2>1. CASE s = r
    <3>1. 1 .. pos'[r] = (1 .. pos[r]) \cup {k}
      BY <1>1
    <3>2. Upserted(r)' = Upserted(r) \cup {mint}
      BY <3>1 DEF Upserted
    <3>. QED
      BY <1>1, <1>2, <2>0, <2>1, <3>2
  <2>2. CASE s # r
    <3>1. Upserted(s)' = Upserted(s)
      BY <1>1, <2>2 DEF Upserted
    <3>2. lock[mint] # s
      BY IngestionAssumption
    <3>. QED
      BY <1>1, <1>2, <2>0, <2>2, <3>1, <3>2, IngestionAssumption
  <2>. QED
    BY <2>1, <2>2
<1>7. NothingReadIsOutdated'
  BY <1>1, ReadsUntouched DEF IInv, NothingReadIsOutdated
<1>. QED
  BY <1>3, <1>4, <1>5, <1>6, <1>7 DEF IInv

\* Reading compares nothing yet: what the SELECT returns is the newest.
LEMMA SelectPreserves ==
  ASSUME IInv, NEW r \in Runs, SelectRecent(r)
  PROVE  IInv'
<1>. USE DEF SelectRecent
<1>1. /\ pc \in [Runs -> Phases] /\ listing \in [Runs -> Seq(Mints)]
      /\ snaps \in [Mints -> Seq(SnapshotRow)]
      /\ recent \in [Runs -> [Mints -> SUBSET Nat]]
  BY DEF IInv, TypeOK
<1>2. \A m \in Mints : Newest(snaps[m]) \subseteq Nat
  <2>. SUFFICES ASSUME NEW m \in Mints, NEW i \in DOMAIN snaps[m]
                PROVE  snaps[m][i].at \in Nat
    BY DEF Newest
  <2>1. snaps[m] \in Seq(SnapshotRow)
    BY <1>1
  <2>2. snaps[m][i] \in SnapshotRow
    BY <2>1
  <2>. QED
    BY <2>2 DEF SnapshotRow
<1>3. TypeOK'
  <2>. DEFINE read == [m \in Mints |->
                         IF m \in Listed(r) THEN Newest(snaps[m]) ELSE {}]
  <2>1. read \in [Mints -> SUBSET Nat]
    BY <1>2
  <2>2. recent' = [recent EXCEPT ![r] = read]
    OBVIOUS
  <2>. HIDE DEF read
  <2>3. recent' \in [Runs -> [Mints -> SUBSET Nat]]
    BY <1>1, <2>1, <2>2
  <2>4. pc' \in [Runs -> Phases]
    BY <1>1
  <2>. QED
    BY <2>3, <2>4 DEF IInv, TypeOK
<1>4. UpsertsCounted' /\ ClocksOrdered'
  BY <1>1 DEF IInv, UpsertsCounted, ClocksOrdered
<1>5. NewestExists' /\ SnapshotsSpaced'
  BY DEF IInv, NewestExists, SnapshotsSpaced
<1>6. LocksAreOwned'
  BY <1>1 DEF IInv, LocksAreOwned, Upserted
<1>7. NothingReadIsOutdated'
  <2>. SUFFICES ASSUME NEW s \in Runs
                PROVE  /\ (pc[s] = "insert" => ReadIsNewest(s))'
                       /\ (pc[s] = "commit" => FreshIsStale(s))'
    BY DEF NothingReadIsOutdated
  <2>1. CASE s = r
    <3>1. pc'[r] = "insert"
      BY <1>1
    <3>2. Listed(r)' = Listed(r) /\ Listed(r) \subseteq Mints
      BY <1>1 DEF Listed
    <3>3. \A m \in Listed(r) : recent'[r][m] = Newest(snaps[m])
      BY <1>1, <3>2
    <3>. QED
      BY <2>1, <3>1, <3>2, <3>3 DEF ReadIsNewest
  <2>2. CASE s # r
    <3>1. recent'[s] = recent[s] /\ pc'[s] = pc[s]
      BY <1>1, <2>2
    <3>. QED
      BY <3>1, ReadsUntouched DEF IInv, NothingReadIsOutdated
  <2>. QED
    BY <2>1, <2>2
<1>. QED
  BY <1>3, <1>4, <1>5, <1>6, <1>7 DEF IInv

\* The threshold turns the newest row read into a judgement about every row.
LEMMA InsertPreserves ==
  ASSUME IInv, NEW r \in Runs, InsertSnapshots(r)
  PROVE  IInv'
<1>. USE DEF InsertSnapshots
<1>1. /\ pc \in [Runs -> Phases] /\ listing \in [Runs -> Seq(Mints)]
      /\ snaps \in [Mints -> Seq(SnapshotRow)]
      /\ checked \in [Runs -> Nat] /\ fresh \in [Runs -> SUBSET Mints]
      /\ now \in Nat
  BY DEF IInv, TypeOK
<1>2. Listed(r)' = Listed(r) /\ Listed(r) \subseteq Mints
  BY <1>1 DEF Listed
<1>3. /\ checked' = [checked EXCEPT ![r] = now]
      /\ fresh'[r] = {m \in Listed(r) :
                        \A last \in recent[r][m] : last + Stale <= now}
      /\ fresh' \in [Runs -> SUBSET Mints]
      /\ checked'[r] = now
  BY <1>1, <1>2
<1>4. TypeOK'
  BY <1>1, <1>3 DEF IInv, TypeOK
<1>5. UpsertsCounted' /\ ClocksOrdered'
  BY <1>1, <1>3 DEF IInv, UpsertsCounted, ClocksOrdered
<1>6. NewestExists' /\ SnapshotsSpaced'
  BY DEF IInv, NewestExists, SnapshotsSpaced
<1>7. LocksAreOwned'
  BY <1>1 DEF IInv, LocksAreOwned, Upserted
<1>8. NothingReadIsOutdated'
  <2>. SUFFICES ASSUME NEW s \in Runs
                PROVE  /\ (pc[s] = "insert" => ReadIsNewest(s))'
                       /\ (pc[s] = "commit" => FreshIsStale(s))'
    BY DEF NothingReadIsOutdated
  <2>1. CASE s = r
    <3>1. pc'[r] = "commit"
      BY <1>1
    <3>2. ASSUME NEW m \in Listed(r)
          PROVE  (\A last \in recent[r][m] : last + Stale <= now)
                   <=> StaleAt(snaps[m], now)
      <4>1. m \in Mints /\ snaps[m] \in Seq(SnapshotRow)
        BY <1>1, <1>2
      <4>2. recent[r][m] = Newest(snaps[m])
        BY DEF IInv, NothingReadIsOutdated, ReadIsNewest
      <4>3. Stale \in Nat
        BY IngestionAssumption
      <4>4. snaps[m] # <<>> => \E i \in DOMAIN snaps[m] :
              \A j \in DOMAIN snaps[m] : snaps[m][j].at <= snaps[m][i].at
        BY <4>1 DEF IInv, NewestExists
      <4>. QED
        BY <1>1, <4>1, <4>2, <4>3, <4>4, NewestDecides
    <3>3. fresh'[r] = {m \in Listed(r) : StaleAt(snaps[m], now)}
      BY <1>3, <3>2
    <3>. QED
      BY <1>2, <1>3, <2>1, <3>1, <3>3 DEF FreshIsStale
  <2>2. CASE s # r
    <3>1. fresh'[s] = fresh[s] /\ checked'[s] = checked[s] /\ pc'[s] = pc[s]
      BY <1>1, <2>2
    <3>. QED
      BY <3>1, ReadsUntouched DEF IInv, NothingReadIsOutdated
  <2>. QED
    BY <2>1, <2>2
<1>. QED
  BY <1>4, <1>5, <1>6, <1>7, <1>8 DEF IInv

\* Any end of a transaction: r's locks are gone, and so is its local state.
EndsTx(r) ==
  /\ lock' = Released(r)
  /\ Forget(r)
  /\ \E p \in Phases \ InTx : pc' = [pc EXCEPT ![r] = p]
  /\ attempt' \in [Runs -> Nat \ {0}]
  /\ \A s \in Runs : attempt'[s] <= Budget[s]
  /\ UNCHANGED now

LEMMA EndKeepsTheRest ==
  ASSUME IInv, NEW r \in Runs, EndsTx(r)
  PROVE  /\ UpsertsCounted' /\ ClocksOrdered' /\ LocksAreOwned'
         /\ \A s \in Runs \ {r} :
              /\ pc'[s] = pc[s]
              /\ listing'[s] = listing[s] /\ recent'[s] = recent[s]
              /\ checked'[s] = checked[s] /\ fresh'[s] = fresh[s]
         /\ pc'[r] \notin InTx
         /\ (tokens' \in [Mints -> Nat \cup {Never}]
               /\ snaps' \in [Mints -> Seq(SnapshotRow)]) => TypeOK'
<1>. USE DEF EndsTx, Forget
<1>0. PICK p \in Phases \ InTx : pc' = [pc EXCEPT ![r] = p]
  OBVIOUS
<1>1. /\ pc \in [Runs -> Phases] /\ listing \in [Runs -> Seq(Mints)]
      /\ pos \in [Runs -> Nat] /\ snapAt \in [Runs -> Nat]
      /\ checked \in [Runs -> Nat] /\ fresh \in [Runs -> SUBSET Mints]
      /\ recent \in [Runs -> [Mints -> SUBSET Nat]]
      /\ lock \in [Mints -> Runs \cup {Free}] /\ now \in Nat
  BY DEF IInv, TypeOK
<1>2. UpsertsCounted' /\ ClocksOrdered'
  BY <1>0, <1>1 DEF IInv, UpsertsCounted, ClocksOrdered
<1>3. LocksAreOwned'
  <2>. SUFFICES ASSUME NEW m \in Mints, NEW s \in Runs
                PROVE  (lock[m] = s <=> pc[s] \in InTx /\ m \in Upserted(s))'
    BY DEF LocksAreOwned
  <2>0. lock[m] = s <=> pc[s] \in InTx /\ m \in Upserted(s)
    BY DEF IInv, LocksAreOwned
  <2>1. CASE s = r
    BY <1>0, <1>1, <2>1, IngestionAssumption DEF Released
  <2>2. CASE s # r
    <3>1. Upserted(s)' = Upserted(s)
      BY <1>1, <2>2 DEF Upserted
    <3>. QED
      BY <1>0, <1>1, <2>0, <2>2, <3>1, IngestionAssumption DEF Released
  <2>. QED
    BY <2>1, <2>2
<1>4. \A s \in Runs \ {r} :
        /\ pc'[s] = pc[s]
        /\ listing'[s] = listing[s] /\ recent'[s] = recent[s]
        /\ checked'[s] = checked[s] /\ fresh'[s] = fresh[s]
  BY <1>0, <1>1
<1>5. pc'[r] \notin InTx
  BY <1>0, <1>1
<1>6. ASSUME tokens' \in [Mints -> Nat \cup {Never}],
             snaps' \in [Mints -> Seq(SnapshotRow)]
      PROVE  TypeOK'
  <2>1. lock' \in [Mints -> Runs \cup {Free}] /\ pc' \in [Runs -> Phases]
    BY <1>0, <1>1 DEF Released
  <2>2. /\ listing' \in [Runs -> Seq(Mints)] /\ pos' \in [Runs -> Nat]
        /\ snapAt' \in [Runs -> Nat] /\ checked' \in [Runs -> Nat]
        /\ fresh' \in [Runs -> SUBSET Mints]
    BY <1>1
  <2>3. recent' \in [Runs -> [Mints -> SUBSET Nat]]
    <3>1. [m \in Mints |-> {}] \in [Mints -> SUBSET Nat]
      OBVIOUS
    <3>. QED
      BY <1>1, <3>1
  <2>. QED
    BY <1>1, <1>6, <2>1, <2>2, <2>3 DEF TypeOK
<1>. QED
  BY <1>2, <1>3, <1>4, <1>5, <1>6

\* A rollback leaves the committed rows alone.
LEMMA RollbackPreserves ==
  ASSUME IInv, NEW r \in Runs, EndsTx(r), UNCHANGED <<tokens, snaps>>
  PROVE  IInv'
<1>1. TypeOK' /\ UpsertsCounted' /\ ClocksOrdered' /\ LocksAreOwned'
  BY EndKeepsTheRest DEF IInv, TypeOK
<1>2. NewestExists' /\ SnapshotsSpaced'
  BY DEF IInv, NewestExists, SnapshotsSpaced
<1>3. NothingReadIsOutdated'
  BY EndKeepsTheRest, ReadsUntouched DEF IInv, NothingReadIsOutdated
<1>. QED
  BY <1>1, <1>2, <1>3 DEF IInv

LEMMA AttemptFailsPreserves ==
  ASSUME IInv, NEW r \in Runs, AttemptFails(r)
  PROVE  IInv'
<1>1. /\ attempt \in [Runs -> Nat \ {0}]
      /\ \A s \in Runs : attempt[s] <= Budget[s]
      /\ \A s \in Runs : Budget[s] \in Nat /\ 1 <= Budget[s]
      /\ pc \in [Runs -> Phases]
  BY IngestionAssumption DEF IInv, TypeOK
<1>2. /\ attempt' \in [Runs -> Nat \ {0}]
      /\ \A s \in Runs : attempt'[s] <= Budget[s]
  <2>1. CASE attempt[r] < Budget[r]
    <3>1. attempt' = [attempt EXCEPT ![r] = @ + 1]
      BY <2>1 DEF AttemptFails
    <3>. QED
      BY <1>1, <2>1, <3>1
  <2>2. CASE ~(attempt[r] < Budget[r])
    <3>1. attempt' = [attempt EXCEPT ![r] = 1]
      BY <2>2 DEF AttemptFails, Sleep
    <3>. QED
      BY <1>1, <3>1
  <2>. QED
    BY <2>1, <2>2
<1>3. \E p \in Phases \ InTx : pc' = [pc EXCEPT ![r] = p]
  BY DEF AttemptFails, Sleep
<1>4. EndsTx(r) /\ UNCHANGED <<tokens, snaps>>
  BY <1>2, <1>3 DEF EndsTx, AttemptFails
<1>. QED
  BY <1>4, RollbackPreserves

LEMMA CrashPreserves ==
  ASSUME IInv, NEW r \in Runs, Crash(r)
  PROVE  IInv'
<1>1. /\ attempt \in [Runs -> Nat \ {0}]
      /\ \A s \in Runs : attempt[s] <= Budget[s]
      /\ \A s \in Runs : Budget[s] \in Nat /\ 1 <= Budget[s]
  BY IngestionAssumption DEF IInv, TypeOK
<1>2. /\ attempt' \in [Runs -> Nat \ {0}]
      /\ \A s \in Runs : attempt'[s] <= Budget[s]
  BY <1>1 DEF Crash, Sleep
<1>3. \E p \in Phases \ InTx : pc' = [pc EXCEPT ![r] = p]
  BY DEF Crash, Sleep
<1>4. EndsTx(r) /\ UNCHANGED <<tokens, snaps>>
  BY <1>2, <1>3 DEF EndsTx, Crash
<1>. QED
  BY <1>4, RollbackPreserves

\* The lists of two open transactions that have written all their tokens share
\* no mint: the row locks make them exclusive.
LEMMA ListsAreExclusive ==
  ASSUME IInv, NEW r \in Runs, NEW s \in Runs \ {r},
         pc[r] \in {"insert", "commit"}, pc[s] \in {"insert", "commit"}
  PROVE  Listed(r) \cap Listed(s) = {}
<1>1. ASSUME NEW q \in Runs, pc[q] \in {"insert", "commit"}
      PROVE  Upserted(q) = Listed(q) /\ Listed(q) \subseteq Mints
  <2>1. listing[q] \in Seq(Mints) /\ pos[q] = Len(listing[q])
    BY <1>1 DEF IInv, TypeOK, UpsertsCounted
  <2>. QED
    BY <2>1 DEF Upserted, Listed
<1>2. \A m \in Listed(r) : lock[m] = r
  BY <1>1 DEF IInv, LocksAreOwned
<1>3. \A m \in Listed(s) : lock[m] = s
  BY <1>1 DEF IInv, LocksAreOwned
<1>. QED
  BY <1>2, <1>3

\* The commit: every row that appears is stale-checked against rows that are
\* still the committed ones, and nobody else has read them.
LEMMA CommitPreserves ==
  ASSUME IInv, NEW r \in Runs, Commit(r)
  PROVE  IInv'
<1>. DEFINE row == Row(snapAt[r], checked[r])
<1>1. /\ pc \in [Runs -> Phases] /\ snaps \in [Mints -> Seq(SnapshotRow)]
      /\ tokens \in [Mints -> Nat \cup {Never}]
      /\ listing \in [Runs -> Seq(Mints)] /\ fresh[r] \subseteq Mints
      /\ snapAt[r] \in Nat /\ checked[r] \in Nat
  BY DEF IInv, TypeOK
<1>2. row \in SnapshotRow /\ row.at = snapAt[r] /\ row.checked = checked[r]
  BY <1>1 DEF Row, SnapshotRow
<1>3. pc[r] = "commit" /\ FreshIsStale(r)
  BY DEF Commit, IInv, NothingReadIsOutdated
<1>. HIDE DEF row
<1>4. /\ snaps' = [m \in Mints |-> IF m \in fresh[r]
                                   THEN Append(snaps[m], row) ELSE snaps[m]]
      /\ tokens' = [m \in Mints |-> IF m \in Listed(r) THEN snapAt[r]
                                    ELSE tokens[m]]
  BY DEF Commit, row
<1>5. EndsTx(r)
  <2>1. /\ attempt' \in [Runs -> Nat \ {0}]
        /\ \A s \in Runs : attempt'[s] <= Budget[s]
    BY DEF IInv, TypeOK, Commit
  <2>2. pc' = [pc EXCEPT ![r] = "later"]
    BY DEF Commit
  <2>3. \E p \in Phases \ InTx : pc' = [pc EXCEPT ![r] = p]
    BY <2>2
  <2>. QED
    BY <2>1, <2>3 DEF Commit, EndsTx
<1>6. UpsertsCounted' /\ ClocksOrdered' /\ LocksAreOwned' /\ TypeOK'
  <2>1. tokens' \in [Mints -> Nat \cup {Never}]
    BY <1>1, <1>4
  <2>2. snaps' \in [Mints -> Seq(SnapshotRow)]
    <3>1. \A m \in Mints : Append(snaps[m], row) \in Seq(SnapshotRow)
      BY <1>1, <1>2
    <3>. QED
      BY <1>1, <1>4, <3>1
  <2>. QED
    BY <1>5, <2>1, <2>2, EndKeepsTheRest
<1>7. NewestExists'
  <2>. SUFFICES ASSUME NEW m \in Mints, snaps'[m] # <<>>
                PROVE  \E i \in DOMAIN snaps'[m] : \A j \in DOMAIN snaps'[m] :
                         snaps'[m][j].at <= snaps'[m][i].at
    BY DEF NewestExists
  <2>1. snaps[m] # <<>> => \E i \in DOMAIN snaps[m] :
          \A j \in DOMAIN snaps[m] : snaps[m][j].at <= snaps[m][i].at
    BY DEF IInv, NewestExists
  <2>2. CASE m \in fresh[r]
    <3>1. snaps'[m] = Append(snaps[m], row)
      BY <1>4, <2>2
    <3>. QED
      BY <1>1, <1>2, <2>1, <3>1, AppendKeepsNewest
  <2>3. CASE m \notin fresh[r]
    <3>1. snaps'[m] = snaps[m]
      BY <1>4, <2>3
    <3>. QED
      BY <2>1, <3>1
  <2>. QED
    BY <2>2, <2>3
<1>8. SnapshotsSpaced'
  <2>. SUFFICES ASSUME NEW m \in Mints
                PROVE  \A i, j \in DOMAIN snaps'[m] : i < j =>
                         snaps'[m][i].at + Stale <= snaps'[m][j].checked
    BY DEF SnapshotsSpaced
  <2>1. \A i, j \in DOMAIN snaps[m] :
          i < j => snaps[m][i].at + Stale <= snaps[m][j].checked
    BY DEF IInv, SnapshotsSpaced
  <2>2. CASE m \in fresh[r]
    <3>1. snaps'[m] = Append(snaps[m], row)
      BY <1>4, <2>2
    <3>2. \A i \in DOMAIN snaps[m] : snaps[m][i].at + Stale <= row.checked
      BY <1>2, <1>3, <2>2 DEF FreshIsStale, StaleAt
    <3>. QED
      BY <1>1, <1>2, <2>1, <3>1, <3>2, AppendKeepsSpacing
  <2>3. CASE m \notin fresh[r]
    <3>1. snaps'[m] = snaps[m]
      BY <1>4, <2>3
    <3>. QED
      BY <2>1, <3>1
  <2>. QED
    BY <2>2, <2>3
<1>9. NothingReadIsOutdated'
  <2>. SUFFICES ASSUME NEW s \in Runs
                PROVE  /\ (pc[s] = "insert" => ReadIsNewest(s))'
                       /\ (pc[s] = "commit" => FreshIsStale(s))'
    BY DEF NothingReadIsOutdated
  <2>1. CASE s = r
    BY <1>5, <2>1, EndKeepsTheRest
  <2>2. CASE s # r /\ pc[s] \in {"insert", "commit"}
    <3>1. Listed(r) \cap Listed(s) = {}
      BY <1>3, <2>2, ListsAreExclusive
    <3>2. Listed(s) \subseteq Mints /\ fresh[r] \subseteq Listed(r)
      BY <1>1, <1>3 DEF Listed, FreshIsStale
    <3>3. \A m \in Listed(s) : snaps'[m] = snaps[m]
      BY <1>4, <3>1, <3>2
    <3>. QED
      BY <1>5, <2>2, <3>3, EndKeepsTheRest, ReadsUntouched
         DEF IInv, NothingReadIsOutdated
  <2>3. CASE s # r /\ pc[s] \notin {"insert", "commit"}
    BY <1>5, <2>3, EndKeepsTheRest
  <2>. QED
    BY <2>1, <2>2, <2>3
<1>. QED
  BY <1>6, <1>7, <1>8, <1>9 DEF IInv

-----------------------------------------------------------------------------
(* The invariants of the specification *)

LEMMA NextPreserves ==
  IInv /\ [Next]_vars => IInv'
<1>. SUFFICES ASSUME IInv, [Next]_vars PROVE IInv'
  OBVIOUS
<1>1. CASE Tick
  BY <1>1, TickPreserves
<1>2. ASSUME NEW r \in Runs, Trigger(r) PROVE IInv'
  BY <1>2, OutsidePreserves DEF Trigger
<1>3. ASSUME NEW r \in Runs, Proceed(r) PROVE IInv'
  <2>1. CASE Fetch(r)
    BY <2>1, FetchPreserves
  <2>2. CASE UpsertToken(r)
    BY <2>2, UpsertPreserves
  <2>3. CASE SelectRecent(r)
    BY <2>3, SelectPreserves
  <2>4. CASE InsertSnapshots(r)
    BY <2>4, InsertPreserves
  <2>5. CASE Commit(r)
    BY <2>5, CommitPreserves
  <2>6. CASE JobReturns(r)
    BY <2>6, OutsidePreserves DEF JobReturns, Sleep
  <2>. QED
    BY <1>3, <2>1, <2>2, <2>3, <2>4, <2>5, <2>6 DEF Proceed
<1>4. ASSUME NEW r \in Runs, Error(r) PROVE IInv'
  BY <1>4, AttemptFailsPreserves DEF Error
<1>5. ASSUME NEW r \in Runs, DeadlockVictim(r) PROVE IInv'
  BY <1>5, AttemptFailsPreserves DEF DeadlockVictim
<1>6. ASSUME NEW r \in Runs, Crash(r) PROVE IInv'
  BY <1>6, CrashPreserves
<1>7. CASE UNCHANGED vars
  <2>. USE <1>7 DEF vars
  <2>1. TypeOK' /\ UpsertsCounted' /\ ClocksOrdered'
    BY DEF IInv, TypeOK, UpsertsCounted, ClocksOrdered
  <2>2. NewestExists' /\ SnapshotsSpaced'
    BY DEF IInv, NewestExists, SnapshotsSpaced
  <2>3. LocksAreOwned'
    BY DEF IInv, LocksAreOwned, Upserted
  <2>4. NothingReadIsOutdated'
    BY ReadsUntouched DEF IInv, NothingReadIsOutdated
  <2>. QED
    BY <2>1, <2>2, <2>3, <2>4 DEF IInv
<1>. QED
  BY <1>1, <1>2, <1>3, <1>4, <1>5, <1>6, <1>7 DEF Next

\* The strengthened invariant holds in every reachable state.
THEOREM Invariance == Spec => []IInv
<1>. QED
  BY InitEstablishes, NextPreserves, PTL DEF Spec

\* Every variable keeps the type the code gives it.
THEOREM TypeCorrect == Spec => []TypeOK
<1>1. IInv => TypeOK
  BY DEF IInv
<1>. QED
  BY <1>1, Invariance, PTL

\* However many runs overlap, fail or retry, a staleness period lies between the
\* time of a mint's snapshot and the threshold at which the next one was found to be
\* due (ingest_latest_coins, `_select_fresh_mints`).
THEOREM SpacingHolds == Spec => []SnapshotsSpaced
<1>1. IInv => SnapshotsSpaced
  BY DEF IInv
<1>. QED
  BY <1>1, Invariance, PTL

\* The row locks of the token upserts protect the read-check-insert sequence.
THEOREM ReadsStayCurrent == Spec => []NothingReadIsOutdated
<1>1. IInv => NothingReadIsOutdated
  BY DEF IInv
<1>. QED
  BY <1>1, Invariance, PTL

\* No end of a run, good or bad, leaves a token locked.
THEOREM LocksHaveOwners == Spec => []LocksAreOwned
<1>1. IInv => LocksAreOwned
  BY DEF IInv
<1>. QED
  BY <1>1, Invariance, PTL

-----------------------------------------------------------------------------
(* The transaction implements the one-step table *)

LEMMA CommitIsAtomicIngest ==
  ASSUME IInv, NEW r \in Runs, Commit(r)
  PROVE  Table!TableNext
<1>1. /\ listing \in [Runs -> Seq(Mints)] /\ fresh[r] \subseteq Mints
      /\ snapAt[r] \in Nat /\ checked[r] \in Nat /\ now \in Nat
  BY DEF IInv, TypeOK
<1>2. snapAt[r] \in 0 .. checked[r] /\ checked[r] \in 0 .. now
  BY <1>1 DEF IInv, ClocksOrdered, Commit
<1>3. Listed(r) \in SUBSET Mints
  BY <1>1 DEF Listed
<1>4. FreshIsStale(r)
  BY DEF IInv, NothingReadIsOutdated, Commit
<1>5. \A m \in Mints : m \in fresh[r] <=>
        m \in Listed(r) /\ Table!StaleAt(snaps[m], checked[r])
  BY <1>3, <1>4 DEF FreshIsStale, StaleAt, Table!StaleAt
<1>6. snaps' = [m \in Mints |->
        IF m \in Listed(r) /\ Table!StaleAt(snaps[m], checked[r])
          THEN Append(snaps[m], Table!Row(snapAt[r], checked[r]))
          ELSE snaps[m]]
  BY <1>5 DEF Commit, Row, Table!Row
<1>7. Table!IngestAtOnce(Listed(r), snapAt[r], checked[r])
  BY <1>1, <1>2, <1>6 DEF Table!IngestAtOnce, Commit
<1>. QED
  BY <1>2, <1>3, <1>7 DEF Table!TableNext

\* Every behaviour of the interleaved transactions is, seen from outside, one
\* in which each run ingests its listing in a single step.
THEOREM Refinement == Spec => ImplementsTable
<1>1. Init => Table!TableInit
  BY DEF Init, Table!TableInit
<1>2. IInv /\ [Next]_vars => [Table!TableNext]_(Table!tableVars)
  <2>. SUFFICES ASSUME IInv, [Next]_vars
                PROVE  Table!TableNext \/ UNCHANGED <<now, tokens, snaps>>
    BY DEF Table!tableVars
  <2>1. CASE Tick
    BY <2>1 DEF Tick, Table!TableNext, Table!ClockTick
  <2>2. ASSUME NEW r \in Runs, Commit(r) PROVE Table!TableNext
    BY <2>2, CommitIsAtomicIngest
  <2>3. ASSUME NEW r \in Runs, Trigger(r) \/ Error(r) \/ DeadlockVictim(r)
                               \/ Crash(r)
        PROVE  UNCHANGED <<now, tokens, snaps>>
    BY <2>3 DEF Trigger, Error, DeadlockVictim, AttemptFails, Crash
  <2>4. ASSUME NEW r \in Runs, Proceed(r), ~Commit(r)
        PROVE  UNCHANGED <<now, tokens, snaps>>
    BY <2>4 DEF Proceed, Fetch, UpsertToken, SelectRecent, InsertSnapshots,
                JobReturns
  <2>5. CASE UNCHANGED vars
    BY <2>5 DEF vars
  <2>. QED
    BY <2>1, <2>2, <2>3, <2>4, <2>5 DEF Next
<1>. QED
  BY <1>1, <1>2, Invariance, PTL
     DEF Spec, ImplementsTable, Table!TableSpec
-----------------------------------------------------------------------------
(* Waits *)

\* A set of numbers has a least one.
LEMMA LeastExists ==
  ASSUME NEW S \in SUBSET Nat, S # {}
  PROVE  \E n \in S : \A k \in S : n <= k
<1>1. PICK n \in S : \A k \in S : ~(<<k, n>> \in OpToRel(<, Nat))
  BY WFMin, NatLessThanWellFounded
<1>2. ASSUME NEW k \in S PROVE n <= k
  <2>1. ~(k < n)
    BY <1>1 DEF OpToRel
  <2> QED
    BY <2>1
<1> QED
  BY <1>2

\* If everyone in a finite set waits for someone in it, some of them wait for
\* each other in a cycle: the smallest set in which everyone still waits.
LEMMA CycleExists ==
  ASSUME NEW B, IsFiniteSet(B), B # {}, NEW W,
         \A s \in B : \E t \in B : <<s, t>> \in W
  PROVE  \E C \in SUBSET B :
           /\ C # {}
           /\ \A s \in C : \E t \in C : <<s, t>> \in W
           /\ \A t \in C : \E s \in C : <<s, t>> \in W
<1> DEFINE Stuck(C) == C # {} /\ \A s \in C : \E t \in C : <<s, t>> \in W
           Sizes == {Cardinality(C) : C \in {D \in SUBSET B : Stuck(D)}}
<1>1. \A C \in SUBSET B : IsFiniteSet(C) /\ Cardinality(C) \in Nat
  BY FS_Subset, FS_CardinalityType
<1>2. Sizes \in SUBSET Nat /\ Sizes # {}
  BY <1>1
<1>3. PICK n \in Sizes : \A k \in Sizes : n <= k
  <2> HIDE DEF Sizes
  <2> QED
    BY <1>2, LeastExists
<1>4. PICK C \in SUBSET B : Stuck(C) /\ Cardinality(C) = n
  BY <1>3
<1> DEFINE D == {t \in C : \E s \in C : <<s, t>> \in W}
<1>5. D \in SUBSET C /\ D \in SUBSET B /\ Stuck(D)
  BY <1>4
<1>6. Cardinality(C) <= Cardinality(D)
  BY <1>3, <1>4, <1>5
<1>7. C = D
  <2> HIDE DEF D, Stuck
  <2>1. /\ IsFiniteSet(C) /\ Cardinality(C) \in Nat /\ Cardinality(D) \in Nat
        /\ Cardinality(D) <= Cardinality(C)
    BY <1>1, <1>4, <1>5, FS_Subset
  <2>2. Cardinality(C) = Cardinality(D)
    BY <1>6, <2>1
  <2> QED
    BY <1>5, <2>1, <2>2, FS_Subset
<1>8. \A t \in D : \E s \in C : <<s, t>> \in W
  OBVIOUS
<1> HIDE DEF D
<1> QED
  BY <1>4, <1>7, <1>8

\* Who is waited for has an open transaction.
LEMMA WaitedForIsOpen ==
  ASSUME IInv, NEW r \in Runs, NEW s \in Runs, WaitsFor(r, s)
  PROVE  pc[r] \in InTx /\ pc[s] \in InTx
<1>1. listing[r] \in Seq(Mints) /\ pos[r] \in Nat
  BY DEF IInv, TypeOK
<1>2. listing[r][pos[r] + 1] \in Mints
  BY <1>1 DEF WaitsFor
<1> QED
  BY <1>2 DEF IInv, LocksAreOwned, WaitsFor, InTx

\* Whatever listings the executions upsert, and in whatever order, every chain of
\* row-lock waits ends at a transaction that can go on or in a cycle that the
\* detector breaks (_upsert_tokens, _run_job).
THEOREM WaitsAreResolved ==
  ASSUME IsFiniteSet(Runs)
  PROVE  Spec => []WaitsEnd
<1>1. IInv => WaitsEnd
  <2> SUFFICES ASSUME IInv, NEW C \in SUBSET Runs,
                      NEW q \in C, pc[q] \in InTx,
                      \A r \in C, s \in Runs : WaitsFor(r, s) => s \in C,
                      \A r \in C : ~ Unblocked(r)
               PROVE  \E r \in C : Deadlocked(r)
    BY DEF WaitsEnd
  <2> DEFINE B == {r \in C : pc[r] \in InTx}
             W == {p \in Runs \X Runs : WaitsFor(p[1], p[2])}
  <2>1. IsFiniteSet(B) /\ B # {}
    BY FS_Subset
  <2>2. \A s \in B : \E t \in B : <<s, t>> \in W
    BY WaitedForIsOpen DEF Unblocked
  <2>3. \A s, t \in Runs : <<s, t>> \in W <=> WaitsFor(s, t)
    OBVIOUS
  <2>4. B \subseteq C /\ B \subseteq Runs
    OBVIOUS
  <2> HIDE DEF B, W
  <2>5. PICK D \in SUBSET B :
          /\ D # {}
          /\ \A s \in D : \E t \in D : <<s, t>> \in W
          /\ \A t \in D : \E s \in D : <<s, t>> \in W
    BY <2>1, <2>2, CycleExists
  <2>6. D \in SUBSET Runs
    BY <2>4
  <2>7. /\ \A s \in D : \E t \in D : WaitsFor(s, t)
        /\ \A t \in D : \E s \in D : WaitsFor(s, t)
    BY <2>3, <2>5, <2>6
  <2>8. PICK r \in D : TRUE
    BY <2>5
  <2> QED
    BY <2>4, <2>6, <2>7, <2>8 DEF Deadlocked
<1> QED
  BY <1>1, Invariance, PTL

-----------------------------------------------------------------------------
(* How far an execution is from its end *)

Stage(p) == CASE p = "fetch" -> 5 [] p = "upsert" -> 4 [] p = "insert" -> 3
              [] p = "commit" -> 2 [] p = "later" -> 1 [] OTHER -> 0
AttemptsLeft(r) == Budget[r] - attempt[r]
UpsertsLeft(r) == Len(listing[r]) - pos[r]

\* Each step of an execution ends it, uses up an attempt, or, in the same attempt, a
\* phase, or, in the same phase, a token to upsert; the others' steps change none.
Advances(r) ==
  \/ pc'[r] = "asleep"
  \/ AttemptsLeft(r)' < AttemptsLeft(r)
  \/ /\ UNCHANGED attempt[r]
     /\ Stage(pc'[r]) < Stage(pc[r])
  \/ /\ UNCHANGED <<attempt[r], pc[r], listing[r]>>
     /\ UpsertsLeft(r)' < UpsertsLeft(r)
  \/ /\ UNCHANGED <<attempt[r], pc[r], listing[r], pos[r]>>
     /\ UNCHANGED <<snapAt[r], recent[r], checked[r], fresh[r]>>
JobsAdvance == \A r \in Runs : pc[r] # "asleep" => Advances(r)

\* None of the three can be lowered for ever.
MeasuresAreNat ==
  \A r \in Runs : /\ AttemptsLeft(r) \in Nat /\ UpsertsLeft(r) \in Nat
                 /\ Stage(pc[r]) \in 0 .. 5

LEMMA MeasuresHold == IInv => MeasuresAreNat
<1> SUFFICES ASSUME IInv, NEW r \in Runs
             PROVE  /\ AttemptsLeft(r) \in Nat /\ UpsertsLeft(r) \in Nat
                    /\ Stage(pc[r]) \in 0 .. 5
  BY DEF MeasuresAreNat
<1>1. /\ Budget[r] \in Nat /\ attempt[r] \in Nat /\ attempt[r] <= Budget[r]
      /\ listing[r] \in Seq(Mints) /\ pos[r] \in Nat /\ pc[r] \in Phases
      /\ pos[r] <= Len(listing[r])
  BY IngestionAssumption DEF IInv, TypeOK, UpsertsCounted
<1>2. Len(listing[r]) \in Nat
  BY <1>1
<1> QED
  BY <1>1, <1>2 DEF AttemptsLeft, UpsertsLeft, Stage, Phases

LEMMA StepAdvances == IInv /\ [Next]_vars => JobsAdvance
<1> SUFFICES ASSUME IInv, [Next]_vars, NEW r \in Runs, pc[r] # "asleep"
             PROVE  Advances(r)
  BY DEF JobsAdvance
<1> USE DEF Advances
<1>1. /\ pc \in [Runs -> Phases] /\ attempt \in [Runs -> Nat \ {0}]
      /\ listing \in [Runs -> Seq(Mints)] /\ pos \in [Runs -> Nat]
      /\ snapAt \in [Runs -> Nat] /\ recent \in [Runs -> [Mints -> SUBSET Nat]]
      /\ checked \in [Runs -> Nat] /\ fresh \in [Runs -> SUBSET Mints]
      /\ Budget[r] \in Nat /\ attempt[r] \in Nat
  BY IngestionAssumption DEF IInv, TypeOK
<1>2. CASE Tick \/ UNCHANGED vars
  BY <1>2 DEF Tick, vars, local
<1>3. ASSUME NEW s \in Runs \ {r}, Trigger(s) \/ Proceed(s) \/ AttemptFails(s) \/ Crash(s)
      PROVE  /\ UNCHANGED <<attempt[r], pc[r], listing[r], pos[r]>>
             /\ UNCHANGED <<snapAt[r], recent[r], checked[r], fresh[r]>>
  <2>1. CASE Trigger(s) \/ JobReturns(s)
    BY <1>1, <2>1 DEF Trigger, JobReturns, Sleep, local
  <2>2. CASE Fetch(s) \/ UpsertToken(s) \/ SelectRecent(s) \/ InsertSnapshots(s)
    BY <1>1, <2>2 DEF Fetch, UpsertToken, SelectRecent, InsertSnapshots
  <2>3. CASE Commit(s) \/ AttemptFails(s) \/ Crash(s)
    <3>1. Forget(s) => /\ UNCHANGED <<listing[r], pos[r]>>
                       /\ UNCHANGED <<snapAt[r], recent[r], checked[r], fresh[r]>>
      BY <1>1 DEF Forget
    <3>2. UNCHANGED <<attempt[r], pc[r]>>
      BY <1>1, <2>3 DEF Commit, AttemptFails, Crash, Sleep
    <3> QED
      BY <2>3, <3>1, <3>2 DEF Commit, AttemptFails, Crash
  <2> QED
    BY <1>3, <2>1, <2>2, <2>3 DEF Proceed
<1>4. CASE UpsertToken(r)
  <2>1. /\ UNCHANGED <<attempt[r], pc[r], listing[r]>> /\ pos'[r] = pos[r] + 1
        /\ pos[r] \in Nat
    BY <1>1, <1>4 DEF UpsertToken
  <2>2. Len(listing[r]) \in Nat
    BY <1>1
  <2>3. UpsertsLeft(r)' < UpsertsLeft(r)
    BY <2>1, <2>2 DEF UpsertsLeft
  <2> QED
    BY <2>1, <2>3
<1>5. CASE Fetch(r) \/ SelectRecent(r) \/ InsertSnapshots(r) \/ Commit(r)
  <2>1. /\ attempt' = attempt
        /\ \/ pc[r] = "fetch" /\ pc'[r] = "upsert"
           \/ pc[r] = "upsert" /\ pc'[r] = "insert"
           \/ pc[r] = "insert" /\ pc'[r] = "commit"
           \/ pc[r] = "commit" /\ pc'[r] = "later"
    BY <1>1, <1>5 DEF Fetch, SelectRecent, InsertSnapshots, Commit
  <2> QED
    BY <2>1 DEF Stage
<1>6. CASE JobReturns(r) \/ Crash(r)
  BY <1>1, <1>6 DEF JobReturns, Crash, Sleep
<1>7. CASE AttemptFails(r)
  <2>1. CASE attempt[r] < Budget[r]
    BY <1>1, <1>7, <2>1 DEF AttemptFails, AttemptsLeft
  <2>2. CASE ~ (attempt[r] < Budget[r])
    BY <1>1, <1>7, <2>2 DEF AttemptFails, Sleep
  <2> QED
    BY <2>1, <2>2
<1>8. \A s \in Runs : Error(s) \/ DeadlockVictim(s) => AttemptFails(s)
  BY DEF Error, DeadlockVictim
<1>9. ~ Trigger(r)
  BY DEF Trigger
<1> QED
  BY <1>2, <1>3, <1>4, <1>5, <1>6, <1>7, <1>8, <1>9 DEF Next, Proceed

\* No execution goes on for ever: failures, deadlocks and the attempts after them
\* included, every step of it lowers three numbers in lexicographic order, and no
\* step of the others raises them.
THEOREM EveryStepCounts == Spec => [][JobsAdvance]_vars /\ []MeasuresAreNat
  BY Invariance, MeasuresHold, StepAdvances, PTL DEF Spec
=============================================================================
