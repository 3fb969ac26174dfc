--------------------------- MODULE SnapshotTable ---------------------------
(***************************************************************************)
(* What the ingest promises about `token_snapshots`, seen from outside: a  *)
(* run adds, in one step, a snapshot for exactly those of its mints whose  *)
(* newest snapshot is stale, and marks all of its mints as seen.           *)
(* Ingestion.tla, where the run is a transaction of many statements that   *)
(* interleaves with other runs, is checked to implement this.              *)
(***************************************************************************)
EXTENDS Naturals, Sequences

CONSTANTS
  Mints,        \* token addresses
  Stale,        \* settings.snapshot_stale_seconds
  Never         \* tokens: the mint has no row

VARIABLES
  now,          \* the clock
  tokens,       \* tokens.last_seen_at of each mint, or Never
  snaps         \* the rows of token_snapshots, per mint, in commit order

tableVars == <<now, tokens, snaps>>

\* `at` is the row's snapshot_at; `checked` is the clock when the run compared
\* the previous rows with the staleness threshold.
Row(at, checked) == [at |-> at, checked |-> checked]

\* No row of the mint is younger than Stale at time t.
StaleAt(rows, t) == \A i \in DOMAIN rows : rows[i].at + Stale <= t

TableInit ==
  /\ now = 0
  /\ tokens = [m \in Mints |-> Never]
  /\ snaps = [m \in Mints |-> <<>>]

ClockTick == now' = now + 1 /\ UNCHANGED <<tokens, snaps>>

IngestAtOnce(S, at, checked) ==
  /\ at <= checked /\ checked <= now
  /\ tokens' = [m \in Mints |-> IF m \in S THEN at ELSE tokens[m]]
  /\ snaps' = [m \in Mints |->
       IF m \in S /\ StaleAt(snaps[m], checked)
         THEN Append(snaps[m], Row(at, checked)) ELSE snaps[m]]
  /\ UNCHANGED now

TableNext ==
  \/ ClockTick
  \/ \E S \in SUBSET Mints, checked \in 0 .. now :
       \E at \in 0 .. checked : IngestAtOnce(S, at, checked)

TableSpec == TableInit /\ [][TableNext]_tableVars
=============================================================================
