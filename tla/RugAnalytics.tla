---------------------------- MODULE RugAnalytics ----------------------------
(***************************************************************************)
(* Phase 1 of run_daily_job (jobs/daily_scan.py): the transaction that     *)
(* scans the latest snapshots for rugs, reclassifies the tokens and        *)
(* recomputes the creators' reputation, after an ingest and before the     *)
(* rest of the job, which ends with the prune.                             *)
(*                                                                         *)
(* Executions may overlap: cron job, startup catchup and `run-job` share   *)
(* one database.  Every statement is READ COMMITTED: it sees what others   *)
(* have committed and what its own transaction has written.  An UPDATE     *)
(* computes from what it saw and then waits for the row locks, so it is    *)
(* two steps.  Ingest is one step, the one SnapshotTable promises and      *)
(* Ingestion implements; volumes, ratios and concentrations, which it adds *)
(* later, are part of the row it stores.  Signals are those of RugSignals, *)
(* labels those of Classification, scores those of Scoring.  Trade         *)
(* summaries carry nothing the properties speak of and are left out.       *)
(***************************************************************************)
EXTENDS Scoring, RugSignals, FiniteSets

CONSTANTS
  Runs,          \* executions of the job
  Mints,
  Creators,
  CreatorOf,     \* tokens.creator_wallet
  Rows,          \* what the API may say of a token (a bound: a few rows)
  Stale,         \* settings.snapshot_stale_seconds
  Window,        \* the 2 hours of the rug dedup
  Lookback,      \* the 72 hours of the analytics
  Keep,          \* snapshot_retention_days: snapshots and rug events
  Budget,        \* attempts of each execution
  MaxNow         \* bound on the clock

ASSUME RugAnalyticsAssumption ==
  /\ CreatorOf \in [Mints -> Creators]
  /\ Rows \subseteq SnapshotRow /\ Rows # {}
  /\ {Stale, Window, Lookback, Keep} \subseteq Nat \ {0}
  /\ MaxNow \in Nat
  /\ Budget \in [Runs -> Nat \ {0}]

VARIABLES
  now,           \* the clock
  snaps,         \* committed token_snapshots of each mint
  events,        \* committed rug_events
  class,         \* committed tokens.classification
  score,         \* committed tokens.score
  wallet,        \* committed creator_wallets: hard_rug_count + soft_rug_count
  pc,            \* where each execution is
  attempt,       \* its attempt under _run_job
  job,           \* its local variables and its uncommitted writes
  lone           \* executions that have been the only one since they started

tables == <<snaps, events, class, score, wallet>>
vars == <<now, tables, pc, attempt, job, lone>>

Classes == {"null"} \cup Labels
\* A function with no entries: no uncommitted rows.
Nothing == [x \in {} |-> x]

NewJob == [since |-> 0, txAt |-> 0, read |-> Nothing, signals |-> {}, pend |-> {},
           label |-> Nothing, class |-> Nothing, points |-> Nothing,
           score |-> Nothing, wallet |-> Nothing]

Phases == {"idle", "ingest", "cutoff", "scan", "judge", "record", "classify",
           "relabel", "points", "rescore", "creators", "wallets", "commit", "later"}
Unscored == -1
\* The row locks of a transaction: the tokens it has updated.
Locked(r) == DOMAIN job[r].class \cup DOMAIN job[r].score

Init ==
  /\ now = 0
  /\ snaps = [m \in Mints |-> {}]
  /\ events = {}
  /\ class = [m \in Mints |-> "null"]
  /\ score = [m \in Mints |-> Unscored]
  /\ wallet = [c \in Creators |-> 0]
  /\ pc = [r \in Runs |-> "idle"]
  /\ attempt = [r \in Runs |-> 1]
  /\ job = [r \in Runs |-> NewJob]
  /\ lone = {}

-----------------------------------------------------------------------------
(* What a statement sees *)

\* Mints with a snapshot in the last 72 hours.
Active(t) == {m \in Mints : \E s \in snaps[m] : s.at + Lookback >= t}

\* The latest snapshot's row; Ingest never puts two of a mint at one instant.
Latest(m) ==
  (CHOOSE s \in snaps[m] : \A u \in snaps[m] : u.at <= s.at).row

\* The row before it (rn = 2), if there is one, however old.
Previous(m) ==
  LET older == {s \in snaps[m] : \E u \in snaps[m] : u.at > s.at}
  IN {s.row : s \in {x \in older : \A u \in older : u.at <= x.at}}

\* Slip: the reclassification before the scan, or in another transaction.
EventsCommitted(r) == events

EventsSeen(r) == events \cup job[r].pend

EventsOf(m, severity, evs) ==
  {e \in evs : e.mint = m /\ Severity(e.kind) = severity}

HasEvent(m, severity, evs) == EventsOf(m, severity, evs) # {}

\* Slip: soft events are forgotten.
LabelHardOnly(m, evs, t) ==
  BulkLabel(Latest(m), HasEvent(m, "hard", evs), FALSE, t)

\* The CASE of reclassify_recent_mints for one active mint.
Label(m, evs, t) ==
  BulkLabel(Latest(m), HasEvent(m, "hard", evs), HasEvent(m, "soft", evs), t)

\* The arithmetic of rescore_recent_mints for one active mint.
Points(m, evs, t) ==
  BulkScore(Latest(m), Cardinality(EventsOf(m, "hard", evs)),
            Cardinality(EventsOf(m, "soft", evs)), t)

ClassSeen(r, m) ==
  IF m \in DOMAIN job[r].class THEN job[r].class[m] ELSE class[m]

ScoreSeen(r, m) ==
  IF m \in DOMAIN job[r].score THEN job[r].score[m] ELSE score[m]

RugClasses == {"hard_rug", "soft_rug"}

\* Slip: the counts leave out what this transaction has just reclassified.
RugsCommitted(r, c) ==
  Cardinality({m \in Mints : CreatorOf[m] = c /\ class[m] \in RugClasses})

\* The aggregate of recompute_creator_wallets for one creator.
RugsSeen(r, c) ==
  Cardinality({m \in Mints : CreatorOf[m] = c
                             /\ ClassSeen(r, m) \in RugClasses})

-----------------------------------------------------------------------------
(* The environment *)

Tick ==
  /\ now < MaxNow
  /\ now' = now + 1
  /\ UNCHANGED <<tables, pc, attempt, job, lone>>

-----------------------------------------------------------------------------
(* The phases of the job *)

Goto(r, p) == pc' = [pc EXCEPT ![r] = p]

Start(r) ==
  /\ pc[r] = "idle"
  /\ Goto(r, "ingest")
  /\ lone' = IF \A s \in Runs \ {r} : pc[s] = "idle" THEN {r} ELSE {}
  /\ UNCHANGED <<now, tables, attempt, job>>

\* ingest_latest_coins for the listed mints, as SnapshotTable promises it.
Ingest(r) ==
  /\ pc[r] = "ingest"
  /\ \E listed \in SUBSET Mints : \E said \in [listed -> Rows] :
       snaps' = [m \in Mints |->
         IF m \in listed /\ \A s \in snaps[m] : s.at + Stale <= now
           THEN snaps[m] \cup {[at |-> now, row |-> said[m]]}
           ELSE snaps[m]]
  /\ Goto(r, "cutoff")
  /\ UNCHANGED <<now, events, class, score, wallet, attempt, job, lone>>

\* scan_recent_mints_for_rugs: `since`, by the clock of the process.
TakeCutoff(r) ==
  /\ pc[r] = "cutoff"
  /\ job' = [job EXCEPT ![r].since = now]
  /\ Goto(r, "scan")
  /\ UNCHANGED <<now, tables, attempt, lone>>

\* The transaction's first statement, whose start is NOW() until it commits: the
\* newest two snapshots of the mints in the 72 hours before `since`.
ScanForRugs(r) ==
  /\ pc[r] = "scan"
  /\ job' = [job EXCEPT ![r].txAt = now, ![r].since = 0, ![r].read =
       [m \in Active(job[r].since) |->
          [latest |-> Latest(m), before |-> Previous(m)]]]
  /\ Goto(r, "judge")
  /\ UNCHANGED <<now, tables, attempt, lone>>

\* The creators' counts, those of the analytics committed last, and _signals_for
\* each mint, again by the clock of the process.
JudgeSignals(r) ==
  /\ pc[r] = "judge"
  /\ job' = [job EXCEPT ![r].read = Nothing, ![r].signals =
       {x \in (DOMAIN job[r].read) \X Kinds :
          x[2] \in SignalsOf(job[r].read[x[1]].latest, job[r].read[x[1]].before,
                            wallet[CreatorOf[x[1]]], now)}]
  /\ Goto(r, "record")
  /\ UNCHANGED <<now, tables, attempt, lone>>

\* Slip: one event of the mint within the window suppresses all of its signals.
SeenAnyKind(r, mint, kind) ==
  \E e \in events : e.mint = mint /\ e.at + Window > job[r].txAt

\* Slip: < for >, so that old events suppress a signal and recent ones do not.
SeenBefore(r, mint, kind) ==
  \E e \in events : e.mint = mint /\ e.kind = kind
                    /\ e.at + Window < job[r].txAt

\* The dedup read: a committed event of the mint and kind within the window.
SeenRecently(r, mint, kind) ==
  \E e \in events : e.mint = mint /\ e.kind = kind
                    /\ e.at + Window > job[r].txAt

\* ... and the insert of the signals it did not return.  Nothing is locked.
RecordEvents(r) ==
  /\ pc[r] = "record"
  /\ job' = [job EXCEPT ![r].signals = {}, ![r].pend =
       {[mint |-> s[1], kind |-> s[2], at |-> job[r].txAt, by |-> r] :
          s \in {x \in job[r].signals : ~ SeenRecently(r, x[1], x[2])}}]
  /\ Goto(r, "classify")
  /\ UNCHANGED <<now, tables, attempt, lone>>

\* reclassify_recent_mints computes the labels that differ from what it sees,
\* NOW() being still the start of the transaction.  If the cast fails for one
\* mint the statement fails, and only Error goes on ...
ReclassifyRead(r) ==
  /\ pc[r] = "classify"
  /\ LET label == [m \in Active(job[r].txAt) |->
                     Label(m, EventsSeen(r), job[r].txAt)]
         changed == {m \in DOMAIN label : label[m] # class[m]} IN
       /\ \A m \in DOMAIN label : label[m] # Raises
       /\ job' = [job EXCEPT ![r].label = [m \in changed |-> label[m]]]
  /\ Goto(r, "relabel")
  /\ UNCHANGED <<now, tables, attempt, lone>>

\* ... and writes them once no other open transaction has written those rows,
\* looking again only at whether the row's own label still differs.
ReclassifyWrite(r) ==
  /\ pc[r] = "relabel"
  /\ \A s \in Runs \ {r} : Locked(s) \cap DOMAIN job[r].label = {}
  /\ LET differ == {m \in DOMAIN job[r].label : job[r].label[m] # class[m]} IN
     job' = [job EXCEPT ![r].class = [m \in differ |-> job[r].label[m]],
                        ![r].label = Nothing]
  /\ Goto(r, "points")
  /\ UNCHANGED <<now, tables, attempt, lone>>

\* rescore_recent_mints, in the same two steps; its cast takes fractions.
RescoreRead(r) ==
  /\ pc[r] = "points"
  /\ LET points == [m \in Active(job[r].txAt) |->
                      Points(m, EventsSeen(r), job[r].txAt)]
         changed == {m \in DOMAIN points : points[m] # score[m]} IN
       /\ \A m \in DOMAIN points : Latest(m).replyKind # "text"
       /\ job' = [job EXCEPT ![r].points = [m \in changed |-> points[m]]]
  /\ Goto(r, "rescore")
  /\ UNCHANGED <<now, tables, attempt, lone>>

RescoreWrite(r) ==
  /\ pc[r] = "rescore"
  /\ \A s \in Runs \ {r} : Locked(s) \cap DOMAIN job[r].points = {}
  /\ LET differ == {m \in DOMAIN job[r].points : job[r].points[m] # score[m]} IN
     job' = [job EXCEPT ![r].score = [m \in differ |-> job[r].points[m]],
                        ![r].points = Nothing]
  /\ Goto(r, "creators")
  /\ UNCHANGED <<now, tables, attempt, lone>>

\* recompute_creator_wallets counts what it sees ...
CountRugs(r) ==
  /\ pc[r] = "creators"
  /\ job' = [job EXCEPT ![r].wallet = [c \in Creators |-> RugsSeen(r, c)]]
  /\ Goto(r, "wallets")
  /\ UNCHANGED <<now, tables, attempt, lone>>

\* ... and upserts every wallet row, after whoever is upserting them.
UpsertWallets(r) ==
  /\ pc[r] = "wallets"
  /\ \A s \in Runs \ {r} : pc[s] # "commit"
  /\ Goto(r, "commit")
  /\ UNCHANGED <<now, tables, attempt, job, lone>>

CommitAnalytics(r) ==
  /\ pc[r] = "commit"
  /\ events' = events \cup job[r].pend
  /\ class' = [m \in Mints |-> ClassSeen(r, m)]
  /\ score' = [m \in Mints |-> ScoreSeen(r, m)]
  /\ wallet' = job[r].wallet
  /\ job' = [job EXCEPT ![r] = NewJob]
  /\ Goto(r, "later")
  /\ UNCHANGED <<now, snaps, attempt, lone>>

Ended(r) ==
  /\ Goto(r, "idle")
  /\ attempt' = [attempt EXCEPT ![r] = 1]
  /\ job' = [job EXCEPT ![r] = NewJob]
  /\ lone' = lone \ {r}

\* The report phases end well and prune_old_data deletes what is too old.
Prune(r) ==
  /\ pc[r] = "later"
  /\ snaps' = [m \in Mints |-> {s \in snaps[m] : s.at + Keep >= now}]
  /\ events' = {e \in events : e.at + Keep >= now}
  /\ Ended(r)
  /\ UNCHANGED <<now, class, score, wallet>>

\* Slip: `<=` in the retry budget.
ErrorTooMany(r) ==
  /\ pc[r] # "idle"
  /\ IF attempt[r] <= Budget[r]
       THEN /\ Goto(r, "ingest")
            /\ attempt' = [attempt EXCEPT ![r] = @ + 1]
            /\ job' = [job EXCEPT ![r] = NewJob]
            /\ UNCHANGED lone
       ELSE Ended(r)
  /\ UNCHANGED <<now, tables>>

\* Any phase may raise: the open transaction rolls back and _run_job starts
\* from the ingest again, or gives up.
Error(r) ==
  /\ pc[r] # "idle"
  /\ IF attempt[r] < Budget[r]
       THEN /\ Goto(r, "ingest")
            /\ attempt' = [attempt EXCEPT ![r] = @ + 1]
            /\ job' = [job EXCEPT ![r] = NewJob]
            /\ UNCHANGED lone
       ELSE Ended(r)
  /\ UNCHANGED <<now, tables>>

\* The process is killed: what was committed stays, nothing is retried.
Crash(r) ==
  /\ pc[r] # "idle"
  /\ Ended(r)
  /\ UNCHANGED <<now, tables>>

Proceed(r) ==
  \/ Ingest(r)
  \/ TakeCutoff(r) \/ ScanForRugs(r) \/ JudgeSignals(r) \/ RecordEvents(r)
  \/ ReclassifyRead(r) \/ ReclassifyWrite(r)
  \/ RescoreRead(r) \/ RescoreWrite(r)
  \/ CountRugs(r) \/ UpsertWallets(r) \/ CommitAnalytics(r)
  \/ Prune(r)

Next ==
  \/ Tick
  \/ \E r \in Runs : Start(r) \/ Proceed(r) \/ Error(r) \/ Crash(r)

Spec == Init /\ [][Next]_vars

-----------------------------------------------------------------------------
(* Properties *)

\* Every variable has the values the code and the schema give it.
Judged == [latest : Rows, before : SUBSET Rows]
Event == [mint : Mints, kind : Kinds, at : Nat, by : Runs]
Changes == UNION {[S -> Classes] : S \in SUBSET Mints}
TypeOK ==
  /\ now \in Nat
  /\ snaps \in [Mints -> SUBSET [at : Nat, row : Rows]]
  /\ events \subseteq Event
  /\ class \in [Mints -> Classes]
  /\ DOMAIN score = Mints
  /\ \A m \in Mints : score[m] = Unscored \/ score[m] \in 0 .. 100 * Point
  /\ wallet \in [Creators -> Nat]
  /\ pc \in [Runs -> Phases]
  /\ attempt \in [Runs -> Nat \ {0}]
  /\ \A r \in Runs : attempt[r] <= Budget[r]
  /\ \A r \in Runs :
       /\ job[r].txAt \in Nat /\ job[r].since \in Nat
       /\ DOMAIN job[r].read \subseteq Mints
       /\ job[r].read \in [DOMAIN job[r].read -> Judged]
       /\ job[r].signals \subseteq Mints \X Kinds
       /\ job[r].pend \subseteq Event
       /\ job[r].label \in Changes
       /\ job[r].class \in Changes
       /\ Locked(r) \subseteq Mints
  /\ \A r \in lone : \A s \in Runs \ {r} : pc[r] # "idle" /\ pc[s] = "idle"

SameRug(e, f) == e.mint = f.mint /\ e.kind = f.kind
Spaced(e, f) == e.at + Window <= f.at \/ f.at + Window <= e.at

\* A rug is recorded once per two-hour window, whatever is retried, repeated or
\* interrupted (scan_recent_mints_for_rugs, "Dedup against recent events in one
\* round-trip before insert").
EventsSpaced ==
  \A e, f \in events : e # f /\ SameRug(e, f) => Spaced(e, f)

\* An execution never duplicates its own events, even when others run at the
\* same time: a retry finds what its earlier attempts committed.
OwnEventsSpaced ==
  \A e, f \in events : e # f /\ SameRug(e, f) /\ e.by = f.by => Spaced(e, f)

Commits(r) == pc[r] = "commit" /\ pc'[r] = "later"

Labelled(e) ==
  /\ class[e.mint] \in RugClasses
  /\ Severity(e.kind) = "hard" => class[e.mint] = "hard_rug"

\* Events and classification are one transaction's work: a rug on record never
\* loses its label, hard before soft, and who commits has labelled whatever rug is
\* on record for a token of its 72 hours, new or old.  Only a token that leaves
\* them between the scan's cutoff and the transaction's start is flagged without a
\* label, until it is listed again.
FlagsAreLabelled ==
  [][\A e \in events' :
       \/ Labelled(e)'
       \/ /\ e \in events => ~ Labelled(e)
          /\ \A r \in Runs : Commits(r) => e.mint \notin Active(job[r].txAt)]_vars

\* creator_wallets is the aggregate of tokens: no committed reclassification is
\* missing from the counts (recompute_creator_wallets runs on every creator).
WalletsCountRugs ==
  \A c \in Creators :
    wallet[c] =
      Cardinality({m \in Mints : CreatorOf[m] = c /\ class[m] \in RugClasses})

\* What overlapping executions leave wrong (the later of two overwrites labels
\* and counts with what it read before the other committed), an execution that
\* has been alone puts right: every active token has the label and the score
\* that classify_token and score_token compute for it ("Implements the same
\* logic as `classify_token`", classification_bulk.py:19; "The arithmetic
\* mirrors ... score_token", scoring_bulk.py:14), and every creator's count is
\* the number of its tokens labelled as rugs.
LoneRunRepairs ==
  [][\A r \in lone : Commits(r) =>
       /\ \A m \in Active(job[r].txAt) :
            LET hard == EventsOf(m, "hard", events')
                soft == EventsOf(m, "soft", events') IN
            /\ class'[m] = ClassifyToken(Latest(m), hard # {}, soft # {},
                                         job[r].txAt)
            /\ score'[m] = ScoreToken(Latest(m), Cardinality(hard),
                                      Cardinality(soft), job[r].txAt)
       /\ \A c \in Creators :
            wallet'[c] = Cardinality({m \in Mints :
                           CreatorOf[m] = c /\ class'[m] \in RugClasses})]_vars

\* _signals_for one active mint, from what is committed.
Signals(m, t) ==
  SignalsOf(Latest(m), Previous(m), wallet[CreatorOf[m]], t)

\* What the tables show when an execution that has been alone commits is on
\* record: every signal of the two newest snapshots of an active token that lasts
\* from the start of the transaction to its commit has an event of its kind in the
\* last two hours, though earlier attempts failed, other kinds were recorded
\* before, and what they recorded is not recorded again (_signals_for,
\* scan_recent_mints_for_rugs).
SignalsAreRecorded ==
  [][\A r \in lone : Commits(r) =>
       \A m \in Active(job[r].txAt), kind \in Kinds :
         (\A t \in job[r].txAt .. now : kind \in Signals(m, t)) =>
           \E e \in events' : e.mint = m /\ e.kind = kind
                               /\ e.at + Window > job[r].txAt]_vars

\* The reputation is a ratchet: the scan flags every active token of a creator
\* over the limit, the classification turns the flags into counts, and the
\* counts feed the next scan.  No prune and no recovery of the prices brings a
\* creator back under the limit.
SuspicionIsPermanent ==
  [][\A c \in Creators : wallet[c] >= HistoryLimit
                           => wallet'[c] >= HistoryLimit]_vars
=============================================================================
