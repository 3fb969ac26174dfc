----------------------------- MODULE Ingestion -----------------------------
(***************************************************************************)
(* Concurrent executions of ingest_latest_coins (ingestion/service.py).    *)
(*                                                                         *)
(* A run fetches the listing, stamps it with one snapshot_at, and opens a  *)
(* READ COMMITTED transaction that upserts the tokens one by one in the    *)
(* listing's order, SELECTs the newest snapshot of every mint, inserts a   *)
(* snapshot for the stale ones and commits.  Each upsert keeps the row     *)
(* lock of its token until the transaction ends; that lock is the only     *)
(* thing that keeps another run out between the SELECT and the INSERT.     *)
(* Everything that follows the commit (holder enrichment, phases 1-5) is   *)
(* here one phase, "later", that ends well or makes the whole job retry.   *)
(***************************************************************************)
EXTENDS Integers, Sequences, FiniteSets

CONSTANTS
  Runs,         \* executions: the cron job, the startup catchup, a manual `run`
  Mints,        \* token addresses
  Listings,     \* what the API may list: mints without repetition, in API order
  Stale,        \* settings.snapshot_stale_seconds, in ticks
  Budget,       \* attempts each execution has: 4 under _run_job, 1 from the CLI
  MaxNow,       \* bound on the clock
  Free,         \* lock: nobody holds the row
  Never         \* tokens: the mint has no row

NoRepetition(s) == \A i, j \in DOMAIN s : s[i] = s[j] => i = j

ASSUME IngestionAssumption ==
  /\ Stale \in Nat \ {0}
  /\ Budget \in [Runs -> Nat \ {0}]
  /\ MaxNow \in Nat
  /\ Listings \subseteq Seq(Mints)
  /\ \A l \in Listings : NoRepetition(l)
  /\ Free \notin Runs
  /\ Never \notin Nat

VARIABLES
  now,          \* the clock, shared by application and database
  tokens,       \* committed tokens.last_seen_at, or Never
  snaps,        \* committed token_snapshots rows per mint, in commit order
  lock,         \* the run whose open transaction holds the token's row lock
  pc,           \* where each run is
  attempt,      \* which attempt of _run_job it is
  listing,      \* the run's mints, in the order of `normalized`
  pos,          \* how many of them its transaction has upserted
  snapAt,       \* the run's snapshot_at
  recent,       \* the newest snapshot_at its SELECT returned, per mint
  checked,      \* `threshold` of _select_fresh_mints
  fresh         \* the mints it found stale and inserted a snapshot for

vars == <<now, tokens, snaps, lock, pc, attempt, listing, pos, snapAt,
          recent, checked, fresh>>
local == <<listing, pos, snapAt, recent, checked, fresh>>

Phases == {"asleep", "fetch", "upsert", "insert", "commit", "later"}
InTx == {"upsert", "insert", "commit"}

Listed(r) == {listing[r][i] : i \in DOMAIN listing[r]}
Upserted(r) == {listing[r][i] : i \in 1 .. pos[r]}

SnapshotRow == [at : Nat, checked : Nat]
Row(at, chk) == [at |-> at, checked |-> chk]

\* No row of the mint is younger than Stale at time t.
StaleAt(rows, t) == \A i \in DOMAIN rows : rows[i].at + Stale <= t

\* MAX(snapshot_at) ... GROUP BY mint: no row, or one with the newest time.
Newest(rows) ==
  {rows[i].at : i \in {j \in DOMAIN rows :
                         \A k \in DOMAIN rows : rows[k].at <= rows[j].at}}

Init ==
  /\ now = 0
  /\ tokens = [m \in Mints |-> Never]
  /\ snaps = [m \in Mints |-> <<>>]
  /\ lock = [m \in Mints |-> Free]
  /\ pc = [r \in Runs |-> "asleep"]
  /\ attempt = [r \in Runs |-> 1]
  /\ listing = [r \in Runs |-> <<>>]
  /\ pos = [r \in Runs |-> 0]
  /\ snapAt = [r \in Runs |-> 0]
  /\ recent = [r \in Runs |-> [m \in Mints |-> {}]]
  /\ checked = [r \in Runs |-> 0]
  /\ fresh = [r \in Runs |-> {}]

Tick ==
  /\ now < MaxNow
  /\ now' = now + 1
  /\ UNCHANGED <<tokens, snaps, lock, pc, attempt>> /\ UNCHANGED local

\* What an execution forgets when it ends, by returning or by raising.
Forget(r) ==
  /\ listing' = [listing EXCEPT ![r] = <<>>]
  /\ pos' = [pos EXCEPT ![r] = 0]
  /\ snapAt' = [snapAt EXCEPT ![r] = 0]
  /\ recent' = [recent EXCEPT ![r] = [m \in Mints |-> {}]]
  /\ checked' = [checked EXCEPT ![r] = 0]
  /\ fresh' = [fresh EXCEPT ![r] = {}]

\* The job is over; its next trigger has the full retry budget.
Sleep(r) ==
  /\ pc' = [pc EXCEPT ![r] = "asleep"]
  /\ attempt' = [attempt EXCEPT ![r] = 1]

\* Slip: the connection goes back to the pool with its transaction open.
LeftLocked(r) == [m \in Mints |-> lock[m]]

\* End of transaction: every row lock of r is released.
Released(r) == [m \in Mints |-> IF lock[m] = r THEN Free ELSE lock[m]]

\* The cron tick, the startup catchup or the command line starts the job.
Trigger(r) ==
  /\ pc[r] = "asleep"
  /\ pc' = [pc EXCEPT ![r] = "fetch"]
  /\ UNCHANGED <<now, tokens, snaps, lock, attempt>> /\ UNCHANGED local

\* The pages are fetched and normalised, then stamped; the transaction opens.
Fetch(r) ==
  /\ pc[r] = "fetch"
  /\ \E l \in Listings :
       /\ listing' = [listing EXCEPT ![r] = l]
       /\ pos' = [pos EXCEPT ![r] = 0]
       /\ snapAt' = [snapAt EXCEPT ![r] = now]
  /\ pc' = [pc EXCEPT ![r] = "upsert"]
  /\ UNCHANGED <<now, tokens, snaps, lock, attempt, recent, checked, fresh>>

\* Slip: DO NOTHING instead of DO UPDATE locks only the rows it inserts.
UpsertDoNothing(r) ==
  /\ pc[r] = "upsert"
  /\ pos[r] < Len(listing[r])
  /\ LET m == listing[r][pos[r] + 1] IN
       IF tokens[m] = Never
         THEN lock[m] = Free /\ lock' = [lock EXCEPT ![m] = r]
         ELSE UNCHANGED lock
  /\ pos' = [pos EXCEPT ![r] = @ + 1]
  /\ UNCHANGED <<now, tokens, snaps, pc, attempt, listing, snapAt, recent,
                 checked, fresh>>

\* One INSERT ... ON CONFLICT (mint) DO UPDATE of the executemany.  It waits
\* while another open transaction has written the same token.
UpsertToken(r) ==
  /\ pc[r] = "upsert"
  /\ pos[r] < Len(listing[r])
  /\ lock[listing[r][pos[r] + 1]] = Free
  /\ lock' = [lock EXCEPT ![listing[r][pos[r] + 1]] = r]
  /\ pos' = [pos EXCEPT ![r] = @ + 1]
  /\ UNCHANGED <<now, tokens, snaps, pc, attempt, listing, snapAt, recent,
                 checked, fresh>>

\* The SELECT of _select_fresh_mints sees what is committed at this moment.
SelectRecent(r) ==
  /\ pc[r] = "upsert"
  /\ pos[r] = Len(listing[r])
  /\ recent' = [recent EXCEPT ![r] =
       [m \in Mints |-> IF m \in Listed(r) THEN Newest(snaps[m]) ELSE {}]]
  /\ pc' = [pc EXCEPT ![r] = "insert"]
  /\ UNCHANGED <<now, tokens, snaps, lock, attempt, listing, pos, snapAt,
                 checked, fresh>>

\* Slip: > for >=, and a whole period is no longer enough.
InsertOlder(r) ==
  /\ pc[r] = "insert"
  /\ checked' = [checked EXCEPT ![r] = now]
  /\ fresh' = [fresh EXCEPT ![r] =
       {m \in Listed(r) : \A last \in recent[r][m] : last + Stale < now}]
  /\ pc' = [pc EXCEPT ![r] = "commit"]
  /\ UNCHANGED <<now, tokens, snaps, lock, attempt, listing, pos, snapAt,
                 recent>>

\* Slip: without the ordering of MAX, any old row of the mint may be compared.
InsertAgainstOldest(r) ==
  /\ pc[r] = "insert"
  /\ checked' = [checked EXCEPT ![r] = now]
  /\ fresh' = [fresh EXCEPT ![r] =
       {m \in Listed(r) : snaps[m] = <<>> \/ snaps[m][1].at + Stale <= now}]
  /\ pc' = [pc EXCEPT ![r] = "commit"]
  /\ UNCHANGED <<now, tokens, snaps, lock, attempt, listing, pos, snapAt,
                 recent>>

\* threshold = _now(); the stale mints get a row, not yet visible to others.
InsertSnapshots(r) ==
  /\ pc[r] = "insert"
  /\ checked' = [checked EXCEPT ![r] = now]
  /\ fresh' = [fresh EXCEPT ![r] =
       {m \in Listed(r) : \A last \in recent[r][m] : last + Stale <= now}]
  /\ pc' = [pc EXCEPT ![r] = "commit"]
  /\ UNCHANGED <<now, tokens, snaps, lock, attempt, listing, pos, snapAt,
                 recent>>

Commit(r) ==
  /\ pc[r] = "commit"
  /\ tokens' = [m \in Mints |-> IF m \in Listed(r) THEN snapAt[r]
                                ELSE tokens[m]]
  /\ snaps' = [m \in Mints |-> IF m \in fresh[r]
       THEN Append(snaps[m], Row(snapAt[r], checked[r])) ELSE snaps[m]]
  /\ lock' = Released(r)
  /\ Forget(r)
  /\ pc' = [pc EXCEPT ![r] = "later"]
  /\ UNCHANGED <<now, attempt>>

\* Slip: `<` for `<=` in the budget, one attempt too many.
OneTooMany(r) ==
  /\ lock' = Released(r)
  /\ Forget(r)
  /\ IF attempt[r] <= Budget[r]
       THEN /\ pc' = [pc EXCEPT ![r] = "fetch"]
            /\ attempt' = [attempt EXCEPT ![r] = @ + 1]
       ELSE Sleep(r)
  /\ UNCHANGED <<now, tokens, snaps>>

\* Slip: the exception leaves the transaction, and its locks, to the pool.
FailsWithoutRollback(r) ==
  /\ Forget(r)
  /\ IF attempt[r] < Budget[r]
       THEN /\ pc' = [pc EXCEPT ![r] = "fetch"]
            /\ attempt' = [attempt EXCEPT ![r] = @ + 1]
       ELSE Sleep(r)
  /\ UNCHANGED <<now, tokens, snaps, lock>>

\* An exception: the open transaction rolls back, and _run_job starts the whole
\* job again while its budget lasts.
AttemptFails(r) ==
  /\ lock' = Released(r)
  /\ Forget(r)
  /\ IF attempt[r] < Budget[r]
       THEN /\ pc' = [pc EXCEPT ![r] = "fetch"]
            /\ attempt' = [attempt EXCEPT ![r] = @ + 1]
       ELSE Sleep(r)
  /\ UNCHANGED <<now, tokens, snaps>>

Error(r) == pc[r] # "asleep" /\ AttemptFails(r)

\* r's next upsert waits for a row that s has locked.
WaitsFor(r, s) ==
  /\ pc[r] = "upsert"
  /\ pos[r] < Len(listing[r])
  /\ lock[listing[r][pos[r] + 1]] = s

\* r lies on a cycle of waits: each run waits for at most one other.
Deadlocked(r) ==
  \E C \in SUBSET Runs :
    /\ r \in C
    /\ \A s \in C : \E t \in C : WaitsFor(s, t)
    /\ \A t \in C : \E s \in C : WaitsFor(s, t)

\* Postgres' deadlock detector aborts one transaction of the cycle.
DeadlockVictim(r) == Deadlocked(r) /\ AttemptFails(r)

\* The process dies: the server rolls back, and no retry follows.
Crash(r) ==
  /\ pc[r] # "asleep"
  /\ lock' = Released(r)
  /\ Forget(r)
  /\ Sleep(r)
  /\ UNCHANGED <<now, tokens, snaps>>

\* The rest of the pipeline ends well.
JobReturns(r) ==
  /\ pc[r] = "later"
  /\ Sleep(r)
  /\ UNCHANGED <<now, tokens, snaps, lock>> /\ UNCHANGED local

Proceed(r) ==
  \/ Fetch(r)
  \/ UpsertToken(r)
  \/ SelectRecent(r)
  \/ InsertSnapshots(r)
  \/ Commit(r)
  \/ JobReturns(r)

Next ==
  \/ Tick
  \/ \E r \in Runs :
       \/ Trigger(r)
       \/ Proceed(r)
       \/ Error(r)
       \/ DeadlockVictim(r)
       \/ Crash(r)

\* A run that can go on does (its thread or its event loop is scheduled), the
\* row-lock queue of Postgres is first come first served, so a row that keeps
\* becoming free is granted, and the deadlock detector runs.  Errors, crashes
\* and triggers are not owed to anyone.
Fairness ==
  \A r \in Runs :
    /\ WF_vars(Fetch(r) \/ SelectRecent(r)
               \/ InsertSnapshots(r) \/ Commit(r) \/ JobReturns(r))
    /\ SF_vars(UpsertToken(r))
    /\ WF_vars(DeadlockVictim(r))

Spec == Init /\ [][Next]_vars
FairSpec == Spec /\ Fairness

-----------------------------------------------------------------------------
(* Properties *)

\* Every variable has the values the code gives it (ingest_latest_coins and the
\* columns it writes); a run's local state is the initial one outside a
\* transaction.
TypeOK ==
  /\ now \in Nat
  /\ tokens \in [Mints -> Nat \cup {Never}]
  /\ snaps \in [Mints -> Seq(SnapshotRow)]
  /\ lock \in [Mints -> Runs \cup {Free}]
  /\ pc \in [Runs -> Phases]
  /\ attempt \in [Runs -> Nat \ {0}]
  /\ \A r \in Runs : attempt[r] <= Budget[r]
  /\ listing \in [Runs -> Seq(Mints)]
  /\ pos \in [Runs -> Nat]
  /\ snapAt \in [Runs -> Nat]
  /\ recent \in [Runs -> [Mints -> SUBSET Nat]]
  /\ checked \in [Runs -> Nat]
  /\ fresh \in [Runs -> SUBSET Mints]

\* Whatever runs overlapped, failed or were retried, a row was inserted only
\* after every row committed before it had become stale: a staleness period lies
\* between the older row's snapshot_at and the `threshold` of the run that
\* inserted the younger (`_select_fresh_mints`; README, "only insert a fresh
\* snapshot for a mint if its previous snapshot is older").  The younger row's
\* own snapshot_at is taken before its transaction begins, so two snapshot_at
\* may be closer by the time from the stamp to the threshold.
SnapshotsSpaced ==
  \A m \in Mints : \A i, j \in DOMAIN snaps[m] :
    i < j => snaps[m][i].at + Stale <= snaps[m][j].checked

\* What a run read is still true when it uses it: from the SELECT to the INSERT
\* and on to the COMMIT no other run has added a snapshot of one of its mints,
\* although the SELECT itself locks nothing.
ReadIsNewest(r) == \A m \in Listed(r) : recent[r][m] = Newest(snaps[m])
FreshIsStale(r) ==
  fresh[r] = {m \in Listed(r) : StaleAt(snaps[m], checked[r])}
NothingReadIsOutdated ==
  \A r \in Runs :
    /\ pc[r] = "insert" => ReadIsNewest(r)
    /\ pc[r] = "commit" => FreshIsStale(r)

\* A row lock belongs to an open transaction that has written the row: no
\* return, error, deadlock or crash leaves a token locked behind it.
LocksAreOwned ==
  \A m \in Mints, r \in Runs :
    lock[m] = r <=> pc[r] \in InTx /\ m \in Upserted(r)

\* No wait hangs on something that nobody resolves: follow the waits of an open
\* transaction through any set of executions that they do not leave, and one of
\* these can take its next step, or is on a cycle that the deadlock detector
\* sees (the row locks of `_upsert_tokens` go only to transactions that end).
Unblocked(r) == pc[r] \in InTx /\ \A s \in Runs : ~ WaitsFor(r, s)
WaitsEnd ==
  \A C \in SUBSET Runs :
    /\ \E r \in C : pc[r] \in InTx
    /\ \A r \in C, s \in Runs : WaitsFor(r, s) => s \in C
    => \E r \in C : Unblocked(r) \/ Deadlocked(r)

\* Seen from outside, the transaction is one atomic step that adds a snapshot
\* for exactly the stale mints of the run (`with transaction()` in
\* ingest_latest_coins, lines 60-73).
Table == INSTANCE SnapshotTable WITH Mints <- Mints, Stale <- Stale, Never <- Never,
                                     now <- now, tokens <- tokens, snaps <- snaps
ImplementsTable == Table!TableSpec

\* No transaction stays open for ever: two runs that upsert the same tokens in
\* different orders block each other, but the deadlock is broken and both go on
\* (`_upsert_tokens` follows the API's order, not a common one).
EveryTransactionEnds ==
  \A r \in Runs : pc[r] \in InTx ~> pc[r] \notin InTx
=============================================================================
