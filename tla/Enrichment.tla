----------------------------- MODULE Enrichment -----------------------------
(***************************************************************************)
(* What ingest_latest_coins (ingestion/service.py) does with the coins it  *)
(* has normalised, for the derived columns of token_snapshots: the         *)
(* transaction that adds snapshots and back-fills volume and ratio, the    *)
(* RPC calls of _enrich_holders (bounded by the semaphore of               *)
(* clients/solana_rpc.py), the holder rows in a second transaction and     *)
(* the back-fill of the concentration in a third.  One execution at a      *)
(* time: Ingestion.tla is about several, and takes its steps apart.        *)
(***************************************************************************)
EXTENDS Integers, Sequences, FiniteSets

CONSTANTS
  Mints,        \* token addresses
  Stale,        \* settings.snapshot_stale_seconds, in ticks
  Gap,          \* interval '36 hours' of the volume back-fill
  Window,       \* interval '72 hours'
  Lags,         \* ticks from the stamp to the threshold of _select_fresh_mints
  MaxNow,       \* bound on the clock
  TopNs,        \* settings.holder_enrichment_top_n, which a restart may change
  Concurrency,  \* settings.solana_rpc_concurrency
  Quotes,       \* market caps a listing may give: functions on Mints
  Replies,      \* what the RPC may answer for a mint
  Failed,       \* reply: transport error, error status, no JSON, an "error"
  Unreadable,   \* reply: JSON of a shape the parser raises on
  Null,         \* SQL NULL
  Unsent, Sent  \* answers: the call waits for a slot, is under way

ASSUME EnrichmentAssumption ==
  /\ Stale \in Nat \ {0} /\ Gap \in Nat /\ Window \in Nat /\ MaxNow \in Nat
  /\ 0 \in Lags /\ \A lag \in Lags : lag \in Nat /\ Gap + lag <= Window
  /\ TopNs \subseteq Nat \ {0}
  /\ Concurrency \in Nat \ {0}
  /\ Quotes \subseteq [Mints -> Nat \cup {Null}]
  /\ \A reply \in Replies \ {Failed, Unreadable} :
       /\ reply.total \in Nat
       /\ reply.largest \in 0 .. reply.total
  /\ \A odd \in {Null, Unreadable, Unsent, Sent} : odd \notin Nat
  /\ Cardinality({Null, Unreadable, Unsent, Sent}) = 4

VARIABLES
  now,          \* the clock
  snaps,        \* token_snapshots of each mint, oldest first
  holders,      \* holder_snapshots of each mint, oldest first
  epc,          \* where the execution is
  listed,       \* normalized
  stamp,        \* snapshot_at
  target,       \* the mints it asks the RPC about
  answers,      \* what gather has for each of them
  slots         \* free slots of the semaphore

tables == <<now, snaps, holders>>
local == <<epc, listed, stamp, target, answers, slots>>
enrichVars == <<now, snaps, holders, epc, listed, stamp, target, answers, slots>>

JobPhases == {"asleep", "fetch", "save", "choose", "ask", "backfill", "done"}

\* ratio is in thousandths, rounded down.
SnapshotRow == [at : Nat, cap : Nat \cup {Null}, volume : Nat \cup {Null},
                ratio : Nat \cup {Null}, top : Nat \cup {Null}]

\* top1_holder_pct, NULL in a row with an rpc_error.
HolderRow == [at : Nat, pct : 0 .. 100 \cup {Null}]

NewRow(cap) == [at |-> stamp, cap |-> cap, volume |-> Null, ratio |-> Null,
                top |-> Null]

NoAnswers == [m \in {} |-> Unsent]

EnrichInit ==
  /\ now = 0
  /\ snaps = [m \in Mints |-> <<>>]
  /\ holders = [m \in Mints |-> <<>>]
  /\ epc = "asleep"
  /\ listed = {}
  /\ stamp = 0
  /\ target = {}
  /\ answers = NoAnswers
  /\ slots = 0

-----------------------------------------------------------------------------
(* The snapshots, and _backfill_volume_and_ratio *)

\* Its newest snapshot is a staleness period old at the threshold.
Due(m, threshold) ==
  \A i \in DOMAIN snaps[m] : snaps[m][i].at + Stale <= threshold

Distance(x, y) == IF x < y THEN y - x ELSE x - y

\* LEAST(50, 1 + rise * 10) and GREATEST(0.02, 1 / (1 + fall * 10)), rise and
\* fall relative to the cap before.
Ratio(prev, cap) ==
  IF cap >= prev
    THEN LET up == 1000 + (10000 * (cap - prev)) \div prev
         IN IF up > 50000 THEN 50000 ELSE up
    ELSE LET down == (1000 * prev) \div (prev + 10 * (prev - cap))
         IN IF down < 20 THEN 20 ELSE down

\* Slip: without the bound on the gap, a missed day counts as one day's volume.
PrecedesAnyGap(rows, i, begun) == i > 1 /\ rows[i - 1].at >= begun - Window

\* The row before the i-th, if LAG sees one: in the window, which ends at the
\* transaction's NOW(), and near enough.
Precedes(rows, i, begun) ==
  /\ i > 1
  /\ rows[i - 1].at >= begun - Window
  /\ rows[i].at - rows[i - 1].at <= Gap

Filled(rows, i) ==
  LET prev == rows[i - 1].cap
      cap == rows[i].cap
  IN IF prev = Null \/ cap = Null THEN rows[i]
     ELSE [rows[i] EXCEPT
            !.volume = Distance(prev, cap),
            !.ratio = IF prev <= 0 THEN rows[i].ratio ELSE Ratio(prev, cap)]

\* Every row of the window is written again, not only the new one.
Backfilled(rows, begun) ==
  [i \in DOMAIN rows |->
     IF Precedes(rows, i, begun) THEN Filled(rows, i) ELSE rows[i]]

\* The first transaction: it begins after the stamp is taken, and takes the
\* threshold later still, when its SELECT has returned.
Save ==
  /\ epc = "save"
  /\ \E lag \in Lags : now + lag <= MaxNow /\ now' = now + lag
  /\ \E quote \in Quotes, begun \in now .. now' :
       snaps' = [m \in Mints |->
         IF m \in listed /\ Due(m, now')
           THEN Backfilled(Append(snaps[m], NewRow(quote[m])), begun)
           ELSE snaps[m]]
  /\ epc' = "choose"
  /\ UNCHANGED <<holders, listed, stamp, target, answers, slots>>

-----------------------------------------------------------------------------
(* _enrich_holders *)

\* No RPC url, or no coin: no row is written and nothing is back-filled.
SkipHolders ==
  /\ epc = "choose"
  /\ epc' = "done"
  /\ UNCHANGED tables /\ UNCHANGED <<listed, stamp, target, answers, slots>>

\* The most recently active ones: any n, or all there are.
ChooseTargets ==
  /\ epc = "choose"
  /\ listed # {}
  /\ \E T \in SUBSET listed, n \in TopNs :
       /\ Cardinality(T) = n \/ (T = listed /\ Cardinality(T) < n)
       /\ target' = T
       /\ answers' = [m \in T |-> Unsent]
  /\ slots' = Concurrency
  /\ epc' = "ask"
  /\ UNCHANGED tables /\ UNCHANGED <<listed, stamp>>

\* async with self._sem
Send(m) ==
  /\ epc = "ask"
  /\ answers[m] = Unsent
  /\ slots > 0
  /\ slots' = slots - 1
  /\ answers' = [answers EXCEPT ![m] = Sent]
  /\ UNCHANGED tables /\ UNCHANGED <<epc, listed, stamp, target>>

\* parse_largest_accounts_response: the share of the largest account in percent.
\* A reply with balances is given by the largest of them and their sum, after
\* those that are no numbers have been dropped; an error, no account and a sum of
\* zero all leave the share NULL.
Parsed(reply) ==
  IF reply = Failed THEN Null
  ELSE IF reply = Unreadable THEN Unreadable
  ELSE IF reply.total = 0 THEN Null
  ELSE (100 * reply.largest) \div reply.total

\* Slip: the slot is given back only after a good answer.
AnswerKeepsSlot(m) ==
  /\ epc = "ask"
  /\ answers[m] = Sent
  /\ \E reply \in Replies :
       /\ answers' = [answers EXCEPT ![m] = Parsed(reply)]
       /\ slots' = IF reply = Failed THEN slots ELSE slots + 1
  /\ UNCHANGED tables /\ UNCHANGED <<epc, listed, stamp, target>>

\* Slip: it is given back by the handler of the error as well.
AnswerFreesTwice(m) ==
  /\ epc = "ask"
  /\ answers[m] = Sent
  /\ \E reply \in Replies :
       /\ answers' = [answers EXCEPT ![m] = Parsed(reply)]
       /\ slots' = IF reply = Failed THEN slots + 2 ELSE slots + 1
  /\ UNCHANGED tables /\ UNCHANGED <<epc, listed, stamp, target>>

\* The call ends, after its retries and at the latest by its time-outs, with an
\* answer or an error that it turns into one.
Answer(m) ==
  /\ epc = "ask"
  /\ answers[m] = Sent
  /\ \E reply \in Replies :
       answers' = [answers EXCEPT ![m] = Parsed(reply)]
  /\ slots' = slots + 1
  /\ UNCHANGED tables /\ UNCHANGED <<epc, listed, stamp, target>>

AllAnswered == \A m \in target : answers[m] \notin {Unsent, Sent}

\* gather returns; every target gets a row, also those without a percentage.
Store ==
  /\ epc = "ask"
  /\ AllAnswered
  /\ \A m \in target : answers[m] # Unreadable
  /\ holders' = [m \in Mints |->
       IF m \in target THEN Append(holders[m], [at |-> stamp, pct |-> answers[m]])
       ELSE holders[m]]
  /\ epc' = "backfill"
  /\ UNCHANGED <<now, snaps, listed, stamp, target, answers, slots>>

\* Slip: without DISTINCT ON every snapshot of the mint is written.
AnySnapshot(rows, i) == i \in DOMAIN rows

\* latest_snap: DISTINCT ON (mint) ... ORDER BY snapshot_at DESC
Newest(rows, i) == i = Len(rows)

\* latest_h: likewise, errors included; WHERE drops those afterwards.
LastPct(m) == holders[m][Len(holders[m])].pct
Measured(m) == holders[m] # <<>> /\ LastPct(m) # Null

WithTop(m, pct) == [i \in DOMAIN snaps[m] |->
  IF Newest(snaps[m], i) THEN [snaps[m][i] EXCEPT !.top = pct]
  ELSE snaps[m][i]]

\* Slip: the rows without a percentage are dropped before the newest is taken.
BackfillTopPastErrors ==
  LET good(m) == {k \in DOMAIN holders[m] : holders[m][k].pct # Null}
      last(m) == CHOOSE k \in good(m) : \A j \in good(m) : j <= k
  IN /\ epc = "backfill"
     /\ snaps' = [m \in Mints |->
          IF m \in listed /\ good(m) # {} THEN WithTop(m, holders[m][last(m)].pct)
          ELSE snaps[m]]
     /\ epc' = "done"
     /\ UNCHANGED <<now, holders, listed, stamp, target, answers, slots>>

\* The third transaction, for every coin of the listing, asked about or not.
BackfillTop ==
  /\ epc = "backfill"
  /\ snaps' = [m \in Mints |->
       IF m \in listed /\ Measured(m) THEN WithTop(m, LastPct(m)) ELSE snaps[m]]
  /\ epc' = "done"
  /\ UNCHANGED <<now, holders, listed, stamp, target, answers, slots>>

\* The execution ends, whatever it has: it returned, raised, or was killed.
Over ==
  /\ epc' = "asleep"
  /\ listed' = {} /\ stamp' = 0 /\ target' = {}
  /\ answers' = NoAnswers /\ slots' = 0

\* A parse that raises fails the job after its snapshots have been committed.
ParseRaises ==
  /\ epc = "ask"
  /\ AllAnswered
  /\ \E m \in target : answers[m] = Unreadable
  /\ Over
  /\ UNCHANGED tables

EnrichSteps ==
  \/ Save
  \/ SkipHolders
  \/ ChooseTargets
  \/ \E m \in target : Send(m) \/ Answer(m)
  \/ Store
  \/ BackfillTop
  \/ ParseRaises

-----------------------------------------------------------------------------
(* Properties *)

\* The values of the columns and of the locals; the semaphore never has more
\* free slots than it was given (SolanaRPCClient).
EnrichTypeOK ==
  /\ now \in Nat
  /\ snaps \in [Mints -> Seq(SnapshotRow)]
  /\ holders \in [Mints -> Seq(HolderRow)]
  /\ epc \in JobPhases
  /\ listed \subseteq Mints
  /\ stamp \in 0 .. now
  /\ target \subseteq listed
  /\ DOMAIN answers = target
  /\ slots \in 0 .. Concurrency

\* A back-fill works on whole rows of the past 72 hours, again and again: in
\* the end each snapshot carries the distance from the one before it exactly if
\* that is no more than 36 hours older and both had a price, whatever days were
\* missed, and its ratio is at least one exactly if the price did not fall
\* (_backfill_volume_and_ratio).
VolumesAreDistances ==
  \A m \in Mints : \A i \in DOMAIN snaps[m] :
    LET row == snaps[m][i]
        prev == IF i > 1 THEN snaps[m][i - 1] ELSE row
    IN IF i > 1 /\ row.at - prev.at <= Gap /\ Null \notin {row.cap, prev.cap}
         THEN /\ row.volume = Distance(prev.cap, row.cap)
              /\ row.ratio = Null <=> prev.cap = 0
              /\ prev.cap > 0 => (row.ratio >= 1000 <=> row.cap >= prev.cap)
         ELSE row.volume = Null /\ row.ratio = Null

\* What a snapshot shows was measured in its time, whichever executions measured
\* it, wrote the snapshot and back-filled it, and whichever died on the way: no
\* newer row of the mint, not even that of a failed call, lay before the
\* snapshot, and the next snapshot had not been taken
\* (_apply_holder_concentration_to_latest_snapshots).
ShownWereCurrent ==
  \A m \in Mints : \A i \in DOMAIN snaps[m] :
    snaps[m][i].top # Null =>
      \E h \in DOMAIN holders[m] :
        /\ holders[m][h].pct = snaps[m][i].top
        /\ \A k \in DOMAIN holders[m] :
             k > h => holders[m][k].at > snaps[m][i].at
        /\ i < Len(snaps[m]) => holders[m][h].at < snaps[m][i + 1].at

\* History stays what it was: both back-fills write rows of earlier executions,
\* but only the newest row of a mint ever changes its content.
OldRowsKeep ==
  [][\A m \in Mints : \A i \in 1 .. Len(snaps[m]) - 1 :
       snaps'[m][i] = snaps[m][i]]_snaps
=============================================================================
