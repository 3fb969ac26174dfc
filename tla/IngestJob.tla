----------------------------- MODULE IngestJob -----------------------------
(***************************************************************************)
(* One ingest_latest_coins after another, as cron, retries and restarts    *)
(* make them: the reading of the listing (Listing) while the server moves, *)
(* normalisation, and what is stored and asked about the result            *)
(* (Enrichment).  An execution may raise or be killed between any two      *)
(* steps; the next one starts from the tables alone.                       *)
(***************************************************************************)
EXTENDS Listing, Enrichment

CONSTANTS
  Feeds,        \* listings an execution may find
  Delays,       \* ticks from one execution to the next
  MovesUntil    \* bound: the feed stands still in executions after this tick

\* Mints: the coins normalize_coin accepts; it drops those without a mint, a
\* creator or a creation time.
ASSUME IngestJobAssumption ==
  /\ Mints \subseteq Coins \ Nameless
  /\ Feeds \subseteq Seq(Coins)
  /\ Delays \subseteq Nat \ {0}
  /\ MovesUntil \in Nat

vars == <<listVars, enrichVars>>

Init == ListInit /\ EnrichInit

Accepted(collected) == collected \cap Mints

\* A trigger or a retry, some time after the last execution.
Start ==
  /\ epc = "asleep"
  /\ \E listing \in Feeds : BeginReading(listing)
  /\ \E d \in Delays : now + d <= MaxNow /\ now' = now + d
  /\ epc' = "fetch"
  /\ UNCHANGED <<snaps, holders, listed, stamp, target, answers, slots>>

\* The feed moves between two requests of the reading.
Move == now <= MovesUntil /\ ServerMoves /\ UNCHANGED enrichVars

Read == (SolPrice \/ Page \/ StopsEarly) /\ UNCHANGED enrichVars

\* The client is closed, the coins are normalised, snapshot_at is taken.
Normalize ==
  /\ epc = "fetch"
  /\ fpc = "fetched"
  /\ listed' = Accepted(raw)
  /\ stamp' = now
  /\ epc' = "save"
  /\ EndReading
  /\ UNCHANGED <<now, snaps, holders, target, answers, slots>>

ReadingRaises ==
  \/ ReadingFails /\ UNCHANGED enrichVars
  \/ epc = "fetch" /\ fpc = "failed" /\ EndReading /\ Over /\ UNCHANGED tables

Enrich == EnrichSteps /\ UNCHANGED listVars

Return ==
  /\ epc = "done"
  /\ Over
  /\ UNCHANGED tables /\ UNCHANGED listVars

\* An exception of the database, or the end of the process: the open
\* transaction rolls back.  A reading is abandoned by ReadingRaises.
Abandon ==
  /\ epc \in {"save", "choose", "ask", "backfill"}
  /\ Over
  /\ UNCHANGED tables /\ UNCHANGED listVars

\* Between executions nothing has to happen; anywhere else to stop is a deadlock.
Rest == epc = "asleep" /\ UNCHANGED vars

Proceed == Read \/ Normalize \/ ReadingRaises \/ Enrich \/ Return

Next == Start \/ Move \/ Proceed \/ Abandon \/ Rest

\* The event loop runs and every request has a time-out; nothing is owed by the
\* server's feed, and nobody has to start an execution.
Spec == Init /\ [][Next]_vars /\ WF_vars(Proceed)

-----------------------------------------------------------------------------
(* Properties *)

\* EnrichTypeOK and the reading's own: it asks for no more than MaxPages pages,
\* and only an execution that is fetching has a reading open
\* (iter_coins_pages, ingest_latest_coins).
TypeOK ==
  /\ EnrichTypeOK
  /\ feed \in Seq(Coins)
  /\ steady \subseteq Coins
  /\ fpc \in ReadingPhases
  /\ fpc # "idle" <=> epc = "fetch"
  /\ offset \in Nat
  /\ pages \in 0 .. MaxPages
  /\ raw \subseteq Coins \ Nameless
  /\ whole \in BOOLEAN

\* Every execution ends, although the listing may grow for ever and the RPC
\* calls wait for each other's slots.
JobEnds == epc # "asleep" ~> epc = "asleep"
=============================================================================
