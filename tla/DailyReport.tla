---------------------------- MODULE DailyReport ----------------------------
(***************************************************************************)
(* run_daily_job (jobs/daily_scan.py) as far as its reports depend on it:  *)
(* the ingest (SnapshotTable's one step), the report's date, the analytics *)
(* (new labels), the transaction that builds the report and replaces       *)
(* winner_patterns (services/daily_report.py) statement by statement, the  *)
(* AI call outside any transaction, the transaction that stores the        *)
(* report, and the prune.  A job may fail or be killed between any two     *)
(* steps, and executions may overlap.                                      *)
(***************************************************************************)
EXTENDS Integers, FiniteSets

CONSTANTS
  Runs,          \* executions of the job
  Mints,
  DayLen,        \* ticks in a UTC day
  Stale,         \* settings.snapshot_stale_seconds
  SnapKeep,      \* snapshot_retention_days, in ticks
  ReportKeep,    \* report_retention_days, in days
  Top,           \* LIMIT 25 of each leaderboard
  Budget,        \* attempts of each execution
  MaxNow         \* bound on the clock

\* Snapshots are kept a day longer than they count as fresh (90 days and one by
\* default), so what has been seen today still has one.
ASSUME DailyReportAssumption ==
  /\ {DayLen, Stale} \subseteq Nat \ {0}
  /\ SnapKeep \in Nat /\ SnapKeep >= Stale + DayLen
  /\ ReportKeep \in Nat /\ Top \in Nat /\ MaxNow \in Nat
  /\ Budget \in [Runs -> Nat \ {0}]

VARIABLES
  now,           \* the clock
  snaps,         \* committed snapshot_at times of each mint
  seen,          \* the day of tokens.last_seen_at of each mint, or Never
  label,         \* the leaderboard that tokens.classification belongs to
  patterns,      \* committed winner_patterns by report_date: the mints whose
                 \* names and tickers were counted (the top-25 cut is left out)
  reports,       \* committed daily_market_reports: at most one per date
  pc,            \* where each execution is
  attempt,       \* its attempt under _run_job
  job,           \* its local variables and uncommitted writes
  lone           \* history: executions that have been the only one since they
                 \* started

vars == <<now, snaps, seen, label, patterns, reports, pc, attempt, job, lone>>
tables == <<snaps, seen, label, patterns, reports>>

Day(t) == t \div DayLen
Days == 0 .. Day(MaxNow)
Never == -1
Boards == {"winners", "rugs"}
Labels == Boards \cup {"others"}
NewJob == [listed |-> {}, at |-> 0, day |-> 0, counted |-> {},
           top |-> [b \in Boards |-> {}], names |-> {}, gone |-> {}]
Phases == {"idle", "fetch", "ingest", "date", "analyze", "count", "names",
           "delete", "upsert", "persist", "prune"} \cup Boards

\* The mints with a snapshot in the day: what COUNT(DISTINCT mint) counts, and
\* the tokens whose names are read.
SnappedOn(d) == {m \in Mints : \E t \in snaps[m] : Day(t) = d}

\* The tokens that the SELECT of a leaderboard chooses from: of one of its
\* classes, last seen in the day, with a snapshot to join.
Candidates(b, d) == {m \in Mints : label[m] = b /\ seen[m] = d /\ snaps[m] # {}}

\* ORDER BY ath_market_cap_usd LIMIT 25, for whatever the market caps are.
TopOf(C) ==
  {T \in SUBSET C : IF Cardinality(C) <= Top THEN T = C ELSE Cardinality(T) = Top}

Init ==
  /\ now = 0
  /\ snaps = [m \in Mints |-> {}]
  /\ seen = [m \in Mints |-> Never]
  /\ label = [m \in Mints |-> "others"]
  /\ patterns = [d \in Days |-> {}]
  /\ reports = {}
  /\ pc = [r \in Runs |-> "idle"]
  /\ attempt = [r \in Runs |-> 1]
  /\ job = [r \in Runs |-> NewJob]
  /\ lone = {}

Tick ==
  /\ now < MaxNow
  /\ now' = now + 1
  /\ UNCHANGED <<tables, pc, attempt, job, lone>>

Goto(r, p) == pc' = [pc EXCEPT ![r] = p]

Start(r) ==
  /\ pc[r] = "idle"
  /\ Goto(r, "fetch")
  /\ lone' = IF \A s \in Runs \ {r} : pc[s] = "idle" THEN {r} ELSE {}
  /\ UNCHANGED <<now, tables, attempt, job>>

\* ingest_latest_coins has a listing and takes the time of its snapshots, before
\* it has a connection.
Fetch(r) ==
  /\ pc[r] = "fetch"
  /\ \E listed \in SUBSET Mints :
       job' = [job EXCEPT ![r].listed = listed, ![r].at = now]
  /\ Goto(r, "ingest")
  /\ UNCHANGED <<now, tables, attempt, lone>>

\* The listed mints without a snapshot younger than Stale at time t.
StaleAt(r, t) == {m \in job[r].listed : \A s \in snaps[m] : s + Stale <= t}
Snapped(r, S) == [m \in Mints |-> IF m \in S THEN snaps[m] \cup {job[r].at}
                                  ELSE snaps[m]]
Seen(r, S) == [m \in Mints |-> IF m \in S THEN Day(job[r].at) ELSE seen[m]]

\* Slip: only the coins that get a snapshot are marked as seen.
IngestMarksStale(r) ==
  /\ pc[r] = "ingest"
  /\ \E checked \in job[r].at .. now :
       /\ snaps' = Snapped(r, StaleAt(r, checked))
       /\ seen' = Seen(r, StaleAt(r, checked))
  /\ Goto(r, "date")
  /\ UNCHANGED <<now, label, patterns, reports, attempt, job, lone>>

\* Its transaction commits, as SnapshotTable promises it: the staleness was
\* checked at some time since, and an execution that has been overtaken sets
\* last_seen_at back.
Ingest(r) ==
  /\ pc[r] = "ingest"
  /\ \E checked \in job[r].at .. now : snaps' = Snapped(r, StaleAt(r, checked))
  /\ seen' = Seen(r, job[r].listed)
  /\ Goto(r, "date")
  /\ UNCHANGED <<now, label, patterns, reports, attempt, job, lone>>

\* report_date is read from the clock only when the ingest is over.
DateReport(r) ==
  /\ pc[r] = "date"
  /\ job' = [job EXCEPT ![r].day = Day(now)]
  /\ Goto(r, "analyze")
  /\ UNCHANGED <<now, tables, attempt, lone>>

\* The analytics give any known tokens any labels (RugAnalytics says which).
Analyze(r) ==
  /\ pc[r] = "analyze"
  /\ \E of \in [{m \in Mints : seen[m] # Never} -> Labels] :
       label' = [m \in Mints |-> IF seen[m] # Never THEN of[m] ELSE label[m]]
  /\ Goto(r, "count")
  /\ UNCHANGED <<now, snaps, seen, patterns, reports, attempt, job, lone>>

\* Slip: the count is of the day on which it is made, while the report keeps
\* the date of the run.
CountToday(r) ==
  /\ pc[r] = "count"
  /\ job' = [job EXCEPT ![r].counted = SnappedOn(Day(now))]
  /\ Goto(r, "winners")
  /\ UNCHANGED <<now, tables, attempt, lone>>

\* Slip: the coins counted are those of tokens seen that day, not of snapshots.
CountTokens(r) ==
  /\ pc[r] = "count"
  /\ job' = [job EXCEPT ![r].counted = {m \in Mints : seen[m] = job[r].day}]
  /\ Goto(r, "winners")
  /\ UNCHANGED <<now, tables, attempt, lone>>

\* build_daily_report: total_coins_scanned, ...
CountCoins(r) ==
  /\ pc[r] = "count"
  /\ job' = [job EXCEPT ![r].counted = SnappedOn(job[r].day)]
  /\ Goto(r, "winners")
  /\ UNCHANGED <<now, tables, attempt, lone>>

\* ... top_winners and then top_rugs, ...
RankTop(r) ==
  /\ pc[r] \in Boards
  /\ \E top \in TopOf(Candidates(pc[r], job[r].day)) :
       job' = [job EXCEPT ![r].top[pc[r]] = top]
  /\ Goto(r, IF pc[r] = "winners" THEN "rugs" ELSE "names")
  /\ UNCHANGED <<now, tables, attempt, lone>>

\* ... the names and tickers (each SELECT sees what is committed by then), ...
ReadNames(r) ==
  /\ pc[r] = "names"
  /\ job' = [job EXCEPT ![r].names = SnappedOn(job[r].day)]
  /\ Goto(r, "delete")
  /\ UNCHANGED <<now, tables, attempt, lone>>

\* ... DELETE FROM winner_patterns of the rows committed by now ...
DeletePatterns(r) ==
  /\ pc[r] = "delete"
  /\ job' = [job EXCEPT ![r].gone = patterns[job[r].day]]
  /\ Goto(r, "upsert")
  /\ UNCHANGED <<now, tables, attempt, lone>>

\* Whoever commits first had the row locks first: the DELETEs of the others,
\* which have been waiting for it, skip the rows that it deleted.
Deleted(r) ==
  [s \in Runs |->
     IF s # r /\ job[s].day # job[r].day THEN job[s]
     ELSE [job[s] EXCEPT !.gone = @ \ job[r].gone]]

\* Slip: the DELETE's own transaction, committed before the inserts.
CommitTheDelete(r) ==
  /\ pc[r] = "upsert"
  /\ patterns' = [patterns EXCEPT ![job[r].day] =
       IF job[r].gone # {} THEN @ \ job[r].gone ELSE @ \cup job[r].names]
  /\ job' = Deleted(r)
  /\ Goto(r, IF job[r].gone # {} THEN "upsert" ELSE "persist")
  /\ UNCHANGED <<now, snaps, seen, label, reports, attempt, lone>>

\* Slip: the upserts first, and the DELETE takes what they have renewed.
CommitDeleteLast(r) ==
  /\ pc[r] = "upsert"
  /\ patterns' = [patterns EXCEPT ![job[r].day] =
                    (@ \cup job[r].names) \ job[r].gone]
  /\ job' = Deleted(r)
  /\ Goto(r, "persist")
  /\ UNCHANGED <<now, snaps, seen, label, reports, attempt, lone>>

\* ... and the upserts, with the commit of both.
CommitPatterns(r) ==
  /\ pc[r] = "upsert"
  /\ patterns' = [patterns EXCEPT ![job[r].day] =
                    (@ \ job[r].gone) \cup job[r].names]
  /\ job' = Deleted(r)
  /\ Goto(r, "persist")
  /\ UNCHANGED <<now, snaps, seen, label, reports, attempt, lone>>

Report(r) == [day |-> job[r].day, scanned |-> job[r].counted, top |-> job[r].top]

\* Slip: INSERT without ON CONFLICT (report_date).
PersistAnother(r) ==
  /\ pc[r] = "persist"
  /\ reports' = reports \cup {Report(r)}
  /\ Goto(r, "prune")
  /\ UNCHANGED <<now, snaps, seen, label, patterns, attempt, job, lone>>

\* After the AI call, however long: one row per report_date, the last wins.
PersistReport(r) ==
  /\ pc[r] = "persist"
  /\ reports' = {p \in reports : p.day # job[r].day} \cup {Report(r)}
  /\ Goto(r, "prune")
  /\ UNCHANGED <<now, snaps, seen, label, patterns, attempt, job, lone>>

Ended(r) ==
  /\ Goto(r, "idle")
  /\ attempt' = [attempt EXCEPT ![r] = 1]
  /\ job' = [job EXCEPT ![r] = NewJob]
  /\ lone' = lone \ {r}

KeptReport(d) == d + ReportKeep >= Day(now)

\* Slip: the patterns are kept as long as the snapshots, not as the reports.
PruneTogether(r) ==
  /\ pc[r] = "prune"
  /\ snaps' = [m \in Mints |-> {t \in snaps[m] : t + SnapKeep >= now}]
  /\ reports' = {p \in reports : KeptReport(p.day)}
  /\ patterns' = [d \in Days |-> IF d * DayLen + SnapKeep >= now THEN patterns[d]
                                 ELSE {}]
  /\ Ended(r)
  /\ UNCHANGED <<now, seen, label>>

\* prune_old_data with the configured retention; the job is over.
Prune(r) ==
  /\ pc[r] = "prune"
  /\ snaps' = [m \in Mints |-> {t \in snaps[m] : t + SnapKeep >= now}]
  /\ reports' = {p \in reports : KeptReport(p.day)}
  /\ patterns' = [d \in Days |-> IF KeptReport(d) THEN patterns[d] ELSE {}]
  /\ Ended(r)
  /\ UNCHANGED <<now, seen, label>>

\* Slip: the retry loop forgets to count.
ErrorForever(r) ==
  /\ pc[r] # "idle"
  /\ Goto(r, "fetch")
  /\ job' = [job EXCEPT ![r] = NewJob]
  /\ UNCHANGED <<now, tables, attempt, lone>>

\* Any phase may raise: the open transaction rolls back and _run_job starts
\* from the ingest again, or gives up.
Error(r) ==
  /\ pc[r] # "idle"
  /\ IF attempt[r] < Budget[r]
       THEN /\ Goto(r, "fetch")
            /\ attempt' = [attempt EXCEPT ![r] = @ + 1]
            /\ job' = [job EXCEPT ![r] = NewJob]
            /\ UNCHANGED lone
       ELSE Ended(r)
  /\ UNCHANGED <<now, tables>>

\* The process is killed: what was committed stays, nothing is retried.
Crash(r) ==
  /\ pc[r] # "idle"
  /\ Ended(r)
  /\ UNCHANGED <<now, tables>>

Proceed(r) ==
  \/ Fetch(r) \/ Ingest(r) \/ DateReport(r) \/ Analyze(r)
  \/ CountCoins(r) \/ RankTop(r) \/ ReadNames(r)
  \/ DeletePatterns(r) \/ CommitPatterns(r)
  \/ PersistReport(r) \/ Prune(r)

Next ==
  \/ Tick
  \/ \E r \in Runs : Start(r) \/ Proceed(r) \/ Error(r) \/ Crash(r)

\* The thread of an execution is scheduled, and every call it makes returns or
\* raises (HTTP, RPC, AI and pool calls all have timeouts).
Fairness == \A r \in Runs : WF_vars(Proceed(r))

Spec == Init /\ [][Next]_vars
FairSpec == Spec /\ Fairness

-----------------------------------------------------------------------------
(* Properties *)

\* Every variable has the values the code and the schema give it; report_date
\* is unique.
Shaped ==
  /\ now \in Nat
  /\ snaps \in [Mints -> SUBSET Nat]
  /\ seen \in [Mints -> {Never} \cup Days]
  /\ label \in [Mints -> Labels]
  /\ patterns \in [Days -> SUBSET Mints]
  /\ reports \subseteq [day : Days, scanned : SUBSET Mints,
                        top : [Boards -> SUBSET Mints]]
  /\ \A p, q \in reports : p.day = q.day => p = q
  /\ pc \in [Runs -> Phases]
  /\ attempt \in [Runs -> Nat \ {0}]
  /\ \A r \in Runs : attempt[r] <= Budget[r]
  /\ job \in [Runs -> [listed : SUBSET Mints, at : Nat, day : Days,
                       counted : SUBSET Mints, top : [Boards -> SUBSET Mints],
                       names : SUBSET Mints, gone : SUBSET Mints]]
LoneIsAlone ==
  /\ lone \subseteq Runs
  /\ \A r \in lone : pc[r] # "idle" /\ \A s \in Runs \ {r} : pc[s] = "idle"
TypeOK == Shaped /\ LoneIsAlone

\* The two tables a run writes in two transactions never contradict each other:
\* every coin the stored report of a date counted is behind the patterns stored
\* for that date, also when a run dies between the two, is retried, or crosses
\* midnight, and after each prune (_persist_winner_patterns is in phase 2,
\* persist_daily_report in phase 4).
PatternsCoverReport ==
  \A p \in reports : p.scanned \subseteq patterns[p.day]

\* Seen from outside the two tables are one book: a report is stored with the
\* coins behind the patterns of its date and no others, and neither loses a coin
\* before the date expires in both (build_daily_report, persist_daily_report and
\* prune_old_data are three transactions).
Book == INSTANCE ReportBook
  WITH patterns <- patterns,
       reports <- {[day |-> p.day, scanned |-> p.scanned] : p \in reports}
ImplementsBook == Book!BookSpec

\* Rerunning the job never makes a report count less: a stored report is replaced
\* only by one of the same date that counts at least the same coins, and removed
\* only by the retention (ON CONFLICT DO UPDATE, last writer wins).  Its
\* leaderboards may lose coins to new labels and to the LIMIT.
ReportsOnlyGrow ==
  [][\A p \in reports :
       \/ \E q \in reports' : q.day = p.day /\ p.scanned \subseteq q.scanned
       \/ p.day + ReportKeep < Day(now)]_vars

\* What a run was offered it reports, whatever overlapping runs did before it:
\* unless midnight fell between snapshot_at and report_date, a coin listed by a
\* run that has been alone and labelled a winner or a rug is on that leaderboard
\* of the report it stored, or the leaderboard is full; and a listed coin
\* is missing from the count only because it had been snapshotted on an earlier
\* day and was not stale yet (SNAPSHOT_STALE_SECONDS is as long as the period of
\* the cron job; _upsert_tokens marks every coin, _insert_snapshots stale ones).
ListedAreReported ==
  \A r \in lone :
    pc[r] = "prune" /\ Day(job[r].at) = job[r].day =>
      \E p \in reports :
        /\ p.day = job[r].day
        /\ \A b \in Boards :
             \/ {m \in job[r].listed : label[m] = b} \subseteq p.top[b]
             \/ Cardinality(p.top[b]) = Top
        /\ \A m \in job[r].listed \ p.scanned :
             \E t \in snaps[m] : Day(t) < p.day /\ job[r].at < t + Stale

\* Overlapping runs can leave the patterns of a date without coins that its
\* report counts, and a report that ranks a coin twice or by an old label: the
\* later writer had read before the other one wrote.  When a run that has
\* been alone has stored its report, the report and the patterns of its date
\* count the same coins, and each leaderboard holds coins of its labels, seen on
\* that date (_persist_winner_patterns, persist_daily_report).
LoneRunAgrees ==
  \A r \in lone :
    pc[r] = "prune" =>
      \E p \in reports :
        /\ p.day = job[r].day /\ p.scanned = patterns[p.day]
        /\ \A b \in Boards : p.top[b] \subseteq Candidates(b, p.day)

\* Nothing is invented, however runs overlap, fail and read old data: a coin that
\* a report counts or whose words a pattern counts had a snapshot on that day, as
\* long as the retention has not reached the day (build_daily_report,
\* prune_old_data).
SnappedOrOld(C, d) ==
  d * DayLen + SnapKeep >= now => C \subseteq SnappedOn(d)
ReportsAreTrue ==
  /\ \A p \in reports : SnappedOrOld(p.scanned, p.day)
  /\ \A d \in Days : SnappedOrOld(patterns[d], d)

\* A job that has begun ends, by returning or by exhausting its attempts.
JobEnds == \A r \in Runs : pc[r] # "idle" ~> pc[r] = "idle"
=============================================================================
