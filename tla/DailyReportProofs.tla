------------------------- MODULE DailyReportProofs -------------------------
(***************************************************************************)
(* Theorems about DailyReport, for any day length, staleness, retention,   *)
(* leaderboard and number of attempts.  Of any executions: their types,    *)
(* that nothing they store is invented, what a run that has been alone     *)
(* stores, and that each of them can take only so many steps.  Of a        *)
(* database used by one execution at a time: that the report, its patterns *)
(* and the snapshots behind both agree, and that the two tables are the    *)
(* book of ReportBook.                                                     *)
(***************************************************************************)
EXTENDS DailyReport, TLAPS

-----------------------------------------------------------------------------
(* Days *)

LEMMA DayIsNat == ASSUME NEW t \in Nat PROVE Day(t) \in Nat
  BY DailyReportAssumption DEF Day

LEMMA DayGrows ==
  ASSUME NEW s \in Nat, NEW t \in Nat, s <= t
  PROVE  Day(s) <= Day(t)
  BY DailyReportAssumption DEF Day

LEMMA DayIsShort ==
  ASSUME NEW s \in Nat, NEW t \in Nat, s <= t, Day(s) = Day(t)
  PROVE  t < s + DayLen
  BY DailyReportAssumption DEF Day

LEMMA DaysHold ==
  ASSUME NEW t \in Nat, t <= MaxNow
  PROVE  Day(t) \in Days
  BY DayIsNat, DayGrows, DailyReportAssumption DEF Days

-----------------------------------------------------------------------------
(* Types *)

Job == [listed : SUBSET Mints, at : Nat, day : Days, counted : SUBSET Mints,
        top : [Boards -> SUBSET Mints], names : SUBSET Mints, gone : SUBSET Mints]
Stored == [day : Days, scanned : SUBSET Mints, top : [Boards -> SUBSET Mints]]

\* What is known without following the executions: the types, and that clocks
\* read earlier have not overtaken the clock.
Types == /\ Shaped /\ now <= MaxNow
         /\ \A r \in Runs : job[r].at <= now

LEMMA NewJobIsJob == NewJob \in Job /\ NewJob.at = 0
<1>1. 0 \in Days
  BY DaysHold, DailyReportAssumption DEF Days, Day
<1>2. [b \in Boards |-> {}] \in [Boards -> SUBSET Mints]
  OBVIOUS
<1> QED
  BY <1>1, <1>2 DEF NewJob, Job

\* A job with one field assigned is a job.
LEMMA FieldKeeps ==
  ASSUME NEW j \in Job, NEW S \in SUBSET Mints
  PROVE  /\ \A d \in Days : [j EXCEPT !.day = d] \in Job
         /\ [j EXCEPT !.counted = S] \in Job
         /\ [j EXCEPT !.names = S] \in Job
         /\ [j EXCEPT !.gone = S] \in Job
  BY DEF Job

LEMMA ListFieldsKeep ==
  ASSUME NEW j \in Job, NEW S \in SUBSET Mints, NEW t \in Nat
  PROVE  [j EXCEPT !.listed = S, !.at = t] \in Job
  BY DEF Job

LEMMA TopFieldKeeps ==
  ASSUME NEW j \in Job, NEW S \in SUBSET Mints, NEW b \in Boards
  PROVE  [j EXCEPT !.top[b] = S] \in Job
<1>1. [j.top EXCEPT ![b] = S] \in [Boards -> SUBSET Mints]
  BY DEF Job
<1> QED
  BY <1>1 DEF Job

\* A coin of the day's snapshots, or of a leaderboard, is a coin.
LEMMA ReadsAreMints ==
  /\ \A d : SnappedOn(d) \in SUBSET Mints
  /\ \A b, d : Candidates(b, d) \in SUBSET Mints
  /\ \A b, d : TopOf(Candidates(b, d)) \subseteq SUBSET Mints
  BY DEF SnappedOn, Candidates, TopOf

\* What the steps assign.  Each leaves the executions but its own alone, except
\* the commit of the patterns, which takes rows from the DELETEs of others.

LEMMA FetchIs ==
  ASSUME Types, NEW r \in Runs, Fetch(r)
  PROVE  /\ pc[r] = "fetch" /\ pc' = [pc EXCEPT ![r] = "ingest"]
         /\ job' \in [Runs -> Job] /\ job'[r].at = now
         /\ \A s \in Runs \ {r} : job'[s] = job[s]
         /\ UNCHANGED <<now, tables, attempt, lone>>
<1>1. job \in [Runs -> Job] /\ now \in Nat
  BY DEF Types, Shaped, Job
<1>2. PICK listed \in SUBSET Mints :
        job' = [job EXCEPT ![r].listed = listed, ![r].at = now]
  BY DEF Fetch
<1>. DEFINE j == [job[r] EXCEPT !.listed = listed, !.at = now]
<1>3. j \in Job /\ j.at = now
  BY <1>1, ListFieldsKeep DEF Job
<1>4. job' = [job EXCEPT ![r] = j]
  BY <1>1, <1>2
<1>. HIDE DEF j
<1>5. job' \in [Runs -> Job] /\ job'[r] = j /\ \A s \in Runs \ {r} : job'[s] = job[s]
  BY <1>1, <1>3, <1>4
<1> QED
  BY <1>3, <1>5 DEF Fetch, Goto

LEMMA DateIs ==
  ASSUME Types, NEW r \in Runs, DateReport(r)
  PROVE  /\ pc[r] = "date" /\ pc' = [pc EXCEPT ![r] = "analyze"]
         /\ job' \in [Runs -> Job] /\ job'[r].day = Day(now)
         /\ job'[r].listed = job[r].listed /\ job'[r].at = job[r].at
         /\ \A s \in Runs \ {r} : job'[s] = job[s]
         /\ UNCHANGED <<now, tables, attempt, lone>>
<1>1. job \in [Runs -> Job] /\ Day(now) \in Days
  BY DaysHold DEF Types, Shaped, Job
<1>. DEFINE j == [job[r] EXCEPT !.day = Day(now)]
<1>2. j \in Job /\ j.day = Day(now) /\ j.listed = job[r].listed /\ j.at = job[r].at
  BY <1>1 DEF Job
<1>3. job' = [job EXCEPT ![r] = j]
  BY <1>1 DEF DateReport
<1>. HIDE DEF j
<1>4. job' \in [Runs -> Job] /\ job'[r] = j /\ \A s \in Runs \ {r} : job'[s] = job[s]
  BY <1>1, <1>2, <1>3
<1> QED
  BY <1>2, <1>4 DEF DateReport, Goto

LEMMA AnalyzeIs ==
  ASSUME Types, NEW r \in Runs, Analyze(r)
  PROVE  /\ pc[r] = "analyze" /\ pc' = [pc EXCEPT ![r] = "count"]
         /\ label' \in [Mints -> Labels]
         /\ UNCHANGED <<now, snaps, seen, patterns, reports, attempt, job, lone>>
  BY DEF Analyze, Goto, Types, Shaped

LEMMA CountIs ==
  ASSUME Types, NEW r \in Runs, CountCoins(r)
  PROVE  /\ pc[r] = "count" /\ pc' = [pc EXCEPT ![r] = "winners"]
         /\ job' \in [Runs -> Job] /\ job'[r].counted = SnappedOn(job[r].day)
         /\ job'[r].day = job[r].day
         /\ job'[r].listed = job[r].listed /\ job'[r].at = job[r].at
         /\ \A s \in Runs \ {r} : job'[s] = job[s]
         /\ UNCHANGED <<now, tables, attempt, lone>>
<1>1. job \in [Runs -> Job] /\ SnappedOn(job[r].day) \in SUBSET Mints
  BY ReadsAreMints DEF Types, Shaped, Job
<1>. DEFINE j == [job[r] EXCEPT !.counted = SnappedOn(job[r].day)]
<1>2. /\ j \in Job /\ j.counted = SnappedOn(job[r].day) /\ j.day = job[r].day
      /\ j.listed = job[r].listed /\ j.at = job[r].at
  BY <1>1 DEF Job
<1>3. job' = [job EXCEPT ![r] = j]
  BY <1>1 DEF CountCoins
<1>. HIDE DEF j
<1>4. job' \in [Runs -> Job] /\ job'[r] = j /\ \A s \in Runs \ {r} : job'[s] = job[s]
  BY <1>1, <1>2, <1>3
<1> QED
  BY <1>2, <1>4 DEF CountCoins, Goto

LEMMA RankIs ==
  ASSUME Types, NEW r \in Runs, RankTop(r)
  PROVE  /\ pc[r] \in Boards
         /\ pc' = [pc EXCEPT ![r] = IF pc[r] = "winners" THEN "rugs" ELSE "names"]
         /\ job' \in [Runs -> Job]
         /\ job'[r].top[pc[r]] \in TopOf(Candidates(pc[r], job[r].day))
         /\ \A b \in Boards \ {pc[r]} : job'[r].top[b] = job[r].top[b]
         /\ job'[r].day = job[r].day /\ job'[r].counted = job[r].counted
         /\ job'[r].listed = job[r].listed /\ job'[r].at = job[r].at
         /\ \A s \in Runs \ {r} : job'[s] = job[s]
         /\ UNCHANGED <<now, tables, attempt, lone>>
<1>1. job \in [Runs -> Job] /\ pc[r] \in Boards
  BY DEF Types, Shaped, Job, RankTop
<1>2. PICK top \in TopOf(Candidates(pc[r], job[r].day)) :
        job' = [job EXCEPT ![r].top[pc[r]] = top]
  BY DEF RankTop
<1>3. top \in SUBSET Mints
  BY ReadsAreMints
<1>. DEFINE f == [job[r].top EXCEPT ![pc[r]] = top]
            j == [job[r] EXCEPT !.top = f]
<1>4. /\ f \in [Boards -> SUBSET Mints] /\ f[pc[r]] = top
      /\ \A b \in Boards \ {pc[r]} : f[b] = job[r].top[b]
  BY <1>1, <1>3 DEF Job
<1>5. job' = [job EXCEPT ![r] = j]
  BY <1>1, <1>2
<1>. HIDE DEF f
<1>6. /\ j \in Job /\ j.top = f /\ j.day = job[r].day /\ j.counted = job[r].counted
      /\ j.listed = job[r].listed /\ j.at = job[r].at
  BY <1>1, <1>4 DEF Job
<1>. HIDE DEF j
<1>7. job' \in [Runs -> Job] /\ job'[r] = j /\ \A s \in Runs \ {r} : job'[s] = job[s]
  BY <1>1, <1>5, <1>6
<1> QED
  BY <1>1, <1>4, <1>6, <1>7 DEF RankTop, Goto

LEMMA NamesIs ==
  ASSUME Types, NEW r \in Runs, ReadNames(r)
  PROVE  /\ pc[r] = "names" /\ pc' = [pc EXCEPT ![r] = "delete"]
         /\ job' \in [Runs -> Job] /\ job'[r].names = SnappedOn(job[r].day)
         /\ job'[r].day = job[r].day /\ job'[r].counted = job[r].counted
         /\ job'[r].top = job[r].top
         /\ job'[r].listed = job[r].listed /\ job'[r].at = job[r].at
         /\ \A s \in Runs \ {r} : job'[s] = job[s]
         /\ UNCHANGED <<now, tables, attempt, lone>>
<1>1. job \in [Runs -> Job] /\ SnappedOn(job[r].day) \in SUBSET Mints
  BY ReadsAreMints DEF Types, Shaped, Job
<1>. DEFINE j == [job[r] EXCEPT !.names = SnappedOn(job[r].day)]
<1>2. /\ j \in Job /\ j.names = SnappedOn(job[r].day) /\ j.day = job[r].day
      /\ j.counted = job[r].counted /\ j.top = job[r].top
      /\ j.listed = job[r].listed /\ j.at = job[r].at
  BY <1>1 DEF Job
<1>3. job' = [job EXCEPT ![r] = j]
  BY <1>1 DEF ReadNames
<1>. HIDE DEF j
<1>4. job' \in [Runs -> Job] /\ job'[r] = j /\ \A s \in Runs \ {r} : job'[s] = job[s]
  BY <1>1, <1>2, <1>3
<1> QED
  BY <1>2, <1>4 DEF ReadNames, Goto

LEMMA DeleteIs ==
  ASSUME Types, NEW r \in Runs, DeletePatterns(r)
  PROVE  /\ pc[r] = "delete" /\ pc' = [pc EXCEPT ![r] = "upsert"]
         /\ job' \in [Runs -> Job] /\ job'[r].gone = patterns[job[r].day]
         /\ job'[r].day = job[r].day /\ job'[r].counted = job[r].counted
         /\ job'[r].top = job[r].top /\ job'[r].names = job[r].names
         /\ job'[r].listed = job[r].listed /\ job'[r].at = job[r].at
         /\ \A s \in Runs \ {r} : job'[s] = job[s]
         /\ UNCHANGED <<now, tables, attempt, lone>>
<1>1. job \in [Runs -> Job] /\ patterns[job[r].day] \in SUBSET Mints
  BY DEF Types, Shaped, Job
<1>. DEFINE j == [job[r] EXCEPT !.gone = patterns[job[r].day]]
<1>2. /\ j \in Job /\ j.gone = patterns[job[r].day] /\ j.day = job[r].day
      /\ j.counted = job[r].counted /\ j.top = job[r].top /\ j.names = job[r].names
      /\ j.listed = job[r].listed /\ j.at = job[r].at
  BY <1>1 DEF Job
<1>3. job' = [job EXCEPT ![r] = j]
  BY <1>1 DEF DeletePatterns
<1>. HIDE DEF j
<1>4. job' \in [Runs -> Job] /\ job'[r] = j /\ \A s \in Runs \ {r} : job'[s] = job[s]
  BY <1>1, <1>2, <1>3
<1> QED
  BY <1>2, <1>4 DEF DeletePatterns, Goto

\* The commit takes nothing but rows to delete from anybody's locals.
LEMMA CommitIs ==
  ASSUME Types, NEW r \in Runs, CommitPatterns(r)
  PROVE  /\ pc[r] = "upsert" /\ pc' = [pc EXCEPT ![r] = "persist"]
         /\ job' \in [Runs -> Job]
         /\ \A s \in Runs :
              /\ job'[s].listed = job[s].listed /\ job'[s].at = job[s].at
              /\ job'[s].day = job[s].day /\ job'[s].counted = job[s].counted
              /\ job'[s].top = job[s].top /\ job'[s].names = job[s].names
         /\ patterns' = [patterns EXCEPT ![job[r].day] =
                           (patterns[job[r].day] \ job[r].gone) \cup job[r].names]
         /\ UNCHANGED <<now, snaps, seen, label, reports, attempt, lone>>
<1>1. job \in [Runs -> Job]
  BY DEF Types, Shaped, Job
<1>2. job' = Deleted(r)
  BY DEF CommitPatterns
<1>3. ASSUME NEW s \in Runs
      PROVE  \E S \in SUBSET Mints : job'[s] = [job[s] EXCEPT !.gone = S]
  <2>1. job[s] = [job[s] EXCEPT !.gone = job[s].gone] /\ job[s].gone \in SUBSET Mints
    BY <1>1 DEF Job
  <2>2. job[s].gone \ job[r].gone \in SUBSET Mints
    BY <2>1
  <2>3. CASE s # r /\ job[s].day # job[r].day
    BY <1>2, <2>1, <2>3 DEF Deleted
  <2>4. CASE ~ (s # r /\ job[s].day # job[r].day)
    <3>1. job'[s] = [job[s] EXCEPT !.gone = job[s].gone \ job[r].gone]
      BY <1>2, <2>4 DEF Deleted
    <3> QED
      BY <2>2, <3>1
  <2> QED
    BY <2>3, <2>4
<1>4. ASSUME NEW s \in Runs
      PROVE  /\ job'[s] \in Job
             /\ job'[s].listed = job[s].listed /\ job'[s].at = job[s].at
             /\ job'[s].day = job[s].day /\ job'[s].counted = job[s].counted
             /\ job'[s].top = job[s].top /\ job'[s].names = job[s].names
  <2>1. PICK S \in SUBSET Mints : job'[s] = [job[s] EXCEPT !.gone = S]
    BY <1>3
  <2>2. job[s] \in Job
    BY <1>1
  <2>3. [job[s] EXCEPT !.gone = S] \in Job
    BY <2>2, FieldKeeps
  <2> QED
    BY <2>1, <2>2, <2>3 DEF Job
<1>5. job' \in [Runs -> Job]
  <2>1. job' = [s \in Runs |-> job'[s]]
    BY <1>2 DEF Deleted
  <2> QED
    BY <1>4, <2>1
<1> QED
  BY <1>4, <1>5 DEF CommitPatterns, Goto

LEMMA EndedIs ==
  ASSUME Types, NEW r \in Runs, Ended(r)
  PROVE  /\ pc' = [pc EXCEPT ![r] = "idle"] /\ pc' \in [Runs -> Phases]
         /\ job' \in [Runs -> Job] /\ job'[r].at = 0
         /\ \A s \in Runs \ {r} : job'[s] = job[s]
         /\ attempt' \in [Runs -> Nat \ {0}]
         /\ \A s \in Runs : attempt'[s] <= Budget[s]
<1>1. /\ job \in [Runs -> Job] /\ pc \in [Runs -> Phases]
      /\ attempt \in [Runs -> Nat \ {0}] /\ \A s \in Runs : attempt[s] <= Budget[s]
  BY DEF Types, Shaped, Job
<1>2. pc' = [pc EXCEPT ![r] = "idle"] /\ pc' \in [Runs -> Phases]
  BY <1>1 DEF Ended, Goto, Phases
<1>3. /\ job' \in [Runs -> Job] /\ job'[r].at = 0
      /\ \A s \in Runs \ {r} : job'[s] = job[s]
  BY <1>1, NewJobIsJob DEF Ended
<1>4. ASSUME NEW s \in Runs PROVE attempt'[s] <= Budget[s]
  <2>1. Budget[s] \in Nat \ {0} /\ attempt'[s] = IF s = r THEN 1 ELSE attempt[s]
    BY <1>1, DailyReportAssumption DEF Ended
  <2> QED
    BY <1>1, <2>1
<1> QED
  BY <1>1, <1>2, <1>3, <1>4 DEF Ended

LEMMA ErrorIs ==
  ASSUME Types, NEW r \in Runs, Error(r), attempt[r] < Budget[r]
  PROVE  /\ pc' = [pc EXCEPT ![r] = "fetch"] /\ pc' \in [Runs -> Phases]
         /\ job' \in [Runs -> Job] /\ job'[r].at = 0
         /\ \A s \in Runs \ {r} : job'[s] = job[s]
         /\ attempt' \in [Runs -> Nat \ {0}]
         /\ \A s \in Runs : attempt'[s] <= Budget[s]
         /\ UNCHANGED lone
<1>1. /\ job \in [Runs -> Job] /\ pc \in [Runs -> Phases]
      /\ attempt \in [Runs -> Nat \ {0}] /\ \A s \in Runs : attempt[s] <= Budget[s]
      /\ \A s \in Runs : Budget[s] \in Nat
  BY DailyReportAssumption DEF Types, Shaped, Job
<1>2. pc' = [pc EXCEPT ![r] = "fetch"] /\ pc' \in [Runs -> Phases] /\ UNCHANGED lone
  BY <1>1 DEF Error, Goto, Phases
<1>3. /\ job' \in [Runs -> Job] /\ job'[r].at = 0
      /\ \A s \in Runs \ {r} : job'[s] = job[s]
  BY <1>1, NewJobIsJob DEF Error
<1>4. attempt' = [attempt EXCEPT ![r] = attempt[r] + 1]
  BY DEF Error
<1> QED
  BY <1>1, <1>2, <1>3, <1>4

\* What the ingest commits.
LEMMA IngestIs ==
  ASSUME Types, NEW r \in Runs, Ingest(r)
  PROVE  /\ pc[r] = "ingest" /\ pc' = [pc EXCEPT ![r] = "date"]
         /\ snaps' \in [Mints -> SUBSET Nat] /\ seen' \in [Mints -> {Never} \cup Days]
         /\ \A m \in Mints :
              snaps[m] \subseteq snaps'[m] /\ snaps'[m] \subseteq snaps[m] \cup {job[r].at}
         /\ \A m \in job[r].listed :
              /\ seen'[m] = Day(job[r].at)
              /\ \E t \in snaps'[m] :
                   (t \in snaps[m] \/ t = job[r].at) /\ job[r].at < t + Stale
         /\ UNCHANGED <<now, label, patterns, reports, attempt, job, lone>>
<1>1. /\ job[r].at \in Nat /\ job[r].listed \subseteq Mints /\ now \in Nat
      /\ job[r].at <= now /\ snaps \in [Mints -> SUBSET Nat]
      /\ seen \in [Mints -> {Never} \cup Days] /\ Stale \in Nat \ {0}
      /\ Day(job[r].at) \in Days
  <2>1. /\ job[r].at \in Nat /\ now \in Nat /\ job[r].at <= now /\ now <= MaxNow
        /\ job[r].at <= MaxNow
    BY DailyReportAssumption DEF Types, Shaped
  <2> QED
    BY <2>1, DaysHold, DailyReportAssumption DEF Types, Shaped
<1>2. PICK checked \in job[r].at .. now : snaps' = Snapped(r, StaleAt(r, checked))
  BY DEF Ingest
<1>3. snaps' = [m \in Mints |-> IF m \in StaleAt(r, checked) THEN snaps[m] \cup {job[r].at}
                               ELSE snaps[m]]
  BY <1>2 DEF Snapped
<1>4. seen' = [m \in Mints |-> IF m \in job[r].listed THEN Day(job[r].at) ELSE seen[m]]
  BY DEF Ingest, Seen
<1>5. snaps' \in [Mints -> SUBSET Nat] /\ seen' \in [Mints -> {Never} \cup Days]
  BY <1>1, <1>3, <1>4
<1>6. ASSUME NEW m \in job[r].listed
      PROVE  \E t \in snaps'[m] :
               (t \in snaps[m] \/ t = job[r].at) /\ job[r].at < t + Stale
  <2>1. m \in Mints
    BY <1>1
  <2>2. CASE m \in StaleAt(r, checked)
    <3>1. job[r].at \in snaps'[m] /\ job[r].at < job[r].at + Stale
      BY <1>1, <1>3, <2>1, <2>2
    <3> QED
      BY <3>1
  <2>3. CASE m \notin StaleAt(r, checked)
    <3>1. PICK t \in snaps[m] : ~ (t + Stale <= checked)
      BY <2>3 DEF StaleAt
    <3>2. t \in Nat /\ t \in snaps'[m] /\ checked \in Nat /\ job[r].at <= checked
      BY <1>1, <1>3, <2>1, <2>3, <3>1
    <3>3. job[r].at < t + Stale
      BY <1>1, <3>1, <3>2
    <3> QED
      BY <3>2, <3>3
  <2> QED
    BY <2>2, <2>3
<1>7. /\ \A m \in Mints :
           snaps[m] \subseteq snaps'[m] /\ snaps'[m] \subseteq snaps[m] \cup {job[r].at}
      /\ \A m \in job[r].listed : seen'[m] = Day(job[r].at)
  BY <1>1, <1>3, <1>4
<1> QED
  BY <1>5, <1>6, <1>7 DEF Ingest, Goto

LEMMA PersistIs ==
  ASSUME Types, NEW r \in Runs, PersistReport(r)
  PROVE  /\ pc[r] = "persist" /\ pc' = [pc EXCEPT ![r] = "prune"]
         /\ Report(r) \in Stored
         /\ Report(r).day = job[r].day /\ Report(r).scanned = job[r].counted
         /\ Report(r).top = job[r].top
         /\ reports' = {p \in reports : p.day # job[r].day} \cup {Report(r)}
         /\ UNCHANGED <<now, snaps, seen, label, patterns, attempt, job, lone>>
<1>1. job[r] \in Job
  BY DEF Types, Shaped, Job
<1>2. /\ Report(r) \in Stored
      /\ Report(r).day = job[r].day /\ Report(r).scanned = job[r].counted
      /\ Report(r).top = job[r].top
  BY <1>1 DEF Job, Stored, Report
<1> QED
  BY <1>2 DEF PersistReport, Goto

LEMMA TypesInit == Init => Types
<1>. SUFFICES ASSUME Init PROVE Types
  OBVIOUS
<1>1. job \in [Runs -> Job] /\ \A r \in Runs : job[r].at <= now
  BY NewJobIsJob DEF Init
<1>2. QED
  BY <1>1, DailyReportAssumption DEF Init, Types, Shaped, Job, Phases, Labels

\* The clock passes no clock read before.
LEMMA AtStays ==
  ASSUME Types, UNCHANGED now, NEW r \in Runs,
         job'[r].at \in {0, now, job[r].at},
         \A s \in Runs \ {r} : job'[s].at = job[s].at
  PROVE  \A s \in Runs : job'[s].at <= now'
<1>1. now \in Nat /\ \A s \in Runs : job[s].at <= now
  BY DEF Types, Shaped
<1> QED
  BY <1>1

LEMMA TypesNext == Types /\ [Next]_vars => Types'
<1>. SUFFICES ASSUME Types, [Next]_vars PROVE Types'
  OBVIOUS
<1>j. /\ job \in [Runs -> Job] /\ now \in Nat /\ pc \in [Runs -> Phases]
      /\ \A s \in Runs : job[s].at \in Nat /\ job[s].at <= now
  BY DEF Types, Shaped, Job
<1>1. CASE Tick
  <2>1. \A s \in Runs : job[s].at <= now + 1
    BY <1>j
  <2> QED
    BY <1>1, <1>j, <2>1, DailyReportAssumption DEF Tick, tables, Types, Shaped
<1>2. ASSUME NEW r \in Runs, Start(r) PROVE Types'
  BY <1>2 DEF Start, Goto, tables, Phases, Types, Shaped
<1>3. ASSUME NEW r \in Runs, Ingest(r) PROVE Types'
  BY <1>3, IngestIs DEF Phases, Types, Shaped
\* Steps of one execution that assign its locals and no table.
<1>4. ASSUME NEW r \in Runs, NEW q \in Phases, pc' = [pc EXCEPT ![r] = q],
             job' \in [Runs -> Job], job'[r].at \in {0, now, job[r].at},
             \A s \in Runs \ {r} : job'[s] = job[s],
             UNCHANGED <<now, tables, attempt>>
      PROVE  Types'
  <2>1. \A s \in Runs : job'[s].at <= now'
    BY <1>4, AtStays
  <2>2. pc' \in [Runs -> Phases]
    BY <1>j, <1>4
  <2> QED
    BY <1>4, <2>1, <2>2 DEF tables, Types, Shaped, Job
<1>5. ASSUME NEW r \in Runs, Fetch(r) PROVE Types'
  BY <1>4, <1>5, FetchIs DEF Phases
<1>6. ASSUME NEW r \in Runs, DateReport(r) PROVE Types'
  BY <1>4, <1>6, DateIs DEF Phases
<1>7. ASSUME NEW r \in Runs, Analyze(r) PROVE Types'
  BY <1>7, AnalyzeIs DEF Phases, Types, Shaped
<1>8. ASSUME NEW r \in Runs, CountCoins(r) PROVE Types'
  BY <1>4, <1>8, CountIs DEF Phases, Boards
<1>9. ASSUME NEW r \in Runs, RankTop(r) PROVE Types'
  <2>1. (IF pc[r] = "winners" THEN "rugs" ELSE "names") \in Phases
    BY DEF Phases, Boards
  <2> QED
    BY <1>4, <1>9, <2>1, RankIs
<1>10. ASSUME NEW r \in Runs, ReadNames(r) PROVE Types'
  BY <1>4, <1>10, NamesIs DEF Phases
<1>11. ASSUME NEW r \in Runs, DeletePatterns(r) PROVE Types'
  BY <1>4, <1>11, DeleteIs DEF Phases
<1>12. ASSUME NEW r \in Runs, CommitPatterns(r) PROVE Types'
  <2>1. patterns' \in [Days -> SUBSET Mints]
    <3>1. /\ job[r].day \in Days /\ job[r].names \in SUBSET Mints
          /\ patterns \in [Days -> SUBSET Mints]
      BY <1>j DEF Job, Types, Shaped
    <3> QED
      BY <1>12, <3>1, CommitIs
  <2>2. \A s \in Runs : job'[s].at <= now'
    BY <1>j, <1>12, CommitIs
  <2>3. pc' \in [Runs -> Phases] /\ job' \in [Runs -> Job]
    BY <1>j, <1>12, CommitIs DEF Phases
  <2> QED
    BY <1>12, <2>1, <2>2, <2>3, CommitIs DEF Types, Shaped, Job
<1>13. ASSUME NEW r \in Runs, PersistReport(r) PROVE Types'
  <2>1. /\ reports' \subseteq Stored
        /\ \A p, q \in reports' : p.day = q.day => p = q
    <3>1. reports \subseteq Stored /\ \A p, q \in reports : p.day = q.day => p = q
      BY DEF Types, Shaped, Stored
    <3> QED
      BY <1>13, <3>1, PersistIs
  <2>2. pc' \in [Runs -> Phases]
    BY <1>j, <1>13, PersistIs DEF Phases
  <2> QED
    BY <1>13, <2>1, <2>2, PersistIs DEF Types, Shaped, Stored
<1>14. ASSUME NEW r \in Runs, Prune(r) PROVE Types'
  <2>1. Ended(r) /\ UNCHANGED <<now, seen, label>>
    BY <1>14 DEF Prune
  <2>2. \A s \in Runs : job'[s].at <= now'
    BY <2>1, EndedIs, AtStays
  <2>3. patterns' \in [Days -> SUBSET Mints] /\ snaps' \in [Mints -> SUBSET Nat]
        /\ reports' \subseteq reports
    BY <1>14 DEF Prune, Types, Shaped
  <2> QED
    BY <2>1, <2>2, <2>3, EndedIs DEF Types, Shaped, Job
<1>15. ASSUME NEW r \in Runs, Ended(r), UNCHANGED <<now, tables>> PROVE Types'
  <2>1. \A s \in Runs : job'[s].at <= now'
    BY <1>15, EndedIs, AtStays
  <2> QED
    BY <1>15, <2>1, EndedIs DEF tables, Types, Shaped, Job
<1>16. ASSUME NEW r \in Runs, Error(r) PROVE Types'
  <2>1. CASE attempt[r] < Budget[r]
    <3>1. \A s \in Runs : job'[s].at <= now'
      BY <1>16, <2>1, ErrorIs, AtStays DEF Error
    <3>2. UNCHANGED <<now, tables>>
      BY <1>16 DEF Error
    <3> QED
      BY <1>16, <2>1, <3>1, <3>2, ErrorIs DEF tables, Types, Shaped, Job
  <2>2. CASE ~ (attempt[r] < Budget[r])
    BY <1>15, <1>16, <2>2 DEF Error
  <2> QED
    BY <2>1, <2>2
<1>17. ASSUME NEW r \in Runs, Crash(r) PROVE Types'
  BY <1>15, <1>17 DEF Crash
<1>18. CASE UNCHANGED vars
  BY <1>18 DEF vars, Types, Shaped
<1> QED
  BY <1>1, <1>2, <1>3, <1>5, <1>6, <1>7, <1>8, <1>9, <1>10, <1>11, <1>12, <1>13,
     <1>14, <1>16, <1>17, <1>18 DEF Next, Proceed

\* Where the steps of an execution lead, and what they leave alone.
LEMMA StepIs ==
  ASSUME Types, NEW r \in Runs, Proceed(r)
  PROVE  /\ pc[r] # "idle"
         /\ Ended(r) \/ /\ \E p \in Phases \ {"idle"} : pc' = [pc EXCEPT ![r] = p]
                        /\ UNCHANGED <<attempt, lone>>
<1>1. ASSUME pc[r] \in Boards
      PROVE  (IF pc[r] = "winners" THEN "rugs" ELSE "names") \in Phases \ {"idle"}
  BY DEF Phases, Boards
<1>2. CASE Fetch(r) \/ Ingest(r) \/ DateReport(r) \/ Analyze(r)
  BY <1>2, FetchIs, IngestIs, DateIs, AnalyzeIs DEF Phases
<1>3. CASE CountCoins(r) \/ ReadNames(r) \/ DeletePatterns(r)
  BY <1>3, CountIs, NamesIs, DeleteIs DEF Phases, Boards
<1>4. CASE RankTop(r)
  BY <1>1, <1>4, RankIs DEF Boards
<1>5. CASE CommitPatterns(r) \/ PersistReport(r)
  BY <1>5, CommitIs, PersistIs DEF Phases
<1>6. CASE Prune(r)
  BY <1>6 DEF Prune
<1> QED
  BY <1>2, <1>3, <1>4, <1>5, <1>6 DEF Proceed

\* Who is alone: a step of one execution makes nobody so but itself.
LEMMA LoneNext ==
  ASSUME Types, LoneIsAlone, [Next]_vars
  PROVE  LoneIsAlone'
<1>. USE DEF LoneIsAlone
<1>p. pc \in [Runs -> Phases]
  BY DEF Types, Shaped
<1>1. CASE Tick \/ UNCHANGED vars
  BY <1>1 DEF Tick, vars
<1>2. ASSUME NEW r \in Runs, Start(r) PROVE LoneIsAlone'
  <2>1. /\ pc' = [pc EXCEPT ![r] = "fetch"]
        /\ lone' = IF \A s \in Runs \ {r} : pc[s] = "idle" THEN {r} ELSE {}
    BY <1>2 DEF Start, Goto
  <2>. QED
    BY <1>p, <2>1
<1>3. ASSUME NEW r \in Runs, NEW p \in Phases \ {"idle"}, pc[r] # "idle",
             pc' = [pc EXCEPT ![r] = p], UNCHANGED lone
      PROVE  LoneIsAlone'
  BY <1>p, <1>3
<1>4. ASSUME NEW r \in Runs, Ended(r) PROVE LoneIsAlone'
  <2>1. pc' = [pc EXCEPT ![r] = "idle"] /\ lone' = lone \ {r}
    BY <1>4 DEF Ended, Goto
  <2>. QED
    BY <1>p, <2>1
<1>5. ASSUME NEW r \in Runs, Proceed(r) PROVE LoneIsAlone'
  BY <1>3, <1>4, <1>5, StepIs
<1>6. ASSUME NEW r \in Runs, Error(r) PROVE LoneIsAlone'
  <2>1. "fetch" \in Phases \ {"idle"}
    BY DEF Phases
  <2>2. Ended(r) \/ (pc' = [pc EXCEPT ![r] = "fetch"] /\ UNCHANGED lone)
    BY <1>6 DEF Error, Goto
  <2>3. pc[r] # "idle"
    BY <1>6 DEF Error
  <2> QED
    BY <1>3, <1>4, <2>1, <2>2, <2>3
<1>7. ASSUME NEW r \in Runs, Crash(r) PROVE LoneIsAlone'
  BY <1>4, <1>7 DEF Crash
<1>. QED
  BY <1>1, <1>2, <1>5, <1>6, <1>7 DEF Next

LEMMA TypeOKNext == Types /\ LoneIsAlone /\ [Next]_vars => Types' /\ LoneIsAlone'
  BY TypesNext, LoneNext

\* The types and the uniqueness of report_date, however executions overlap.
THEOREM DailyTypes == Spec => []TypeOK
<1>1. Types /\ LoneIsAlone => TypeOK
  BY DEF Types, TypeOK
<1>2. Init => LoneIsAlone
  BY DEF Init, LoneIsAlone
<1>3. QED
  BY <1>1, <1>2, TypesInit, TypeOKNext, PTL DEF Spec

-----------------------------------------------------------------------------
(* One execution at a time *)

Single == \A r, s \in Runs : r = s

\* The executions that have read, so far:
Named == {"delete", "upsert", "persist", "prune"}
Ranked == {"names"} \cup Named
Counted == Boards \cup Ranked
Dated == {"analyze", "count"} \cup Counted
Ingested == {"date"} \cup Dated

\* What is stored of day d is still behind it: a report of the day counted no
\* coin, and its patterns come from none, that the snapshots do not show any more.
Agree(d) ==
  /\ \A p \in reports : p.day = d => p.scanned \subseteq SnappedOn(d)
  /\ patterns[d] \subseteq SnappedOn(d)

\* The tables between two executions: snapshots are of the past, reports and
\* patterns of days that have begun.
Tables ==
  /\ \A m \in Mints : \A t \in snaps[m] : t <= now
  /\ \A p \in reports : p.day <= Day(now)
  /\ \A d \in Days : d > Day(now) => patterns[d] = {}
  /\ Agree(Day(now))
  /\ PatternsCoverReport

\* What an execution has read is still so, and nothing stored of its day
\* contains a coin that it will leave out.
Reads(r) ==
  /\ pc[r] \in Dated => job[r].day <= Day(now) /\ Agree(job[r].day)
  /\ pc[r] \in Counted => job[r].counted = SnappedOn(job[r].day)
  /\ pc[r] \in Named => job[r].names = SnappedOn(job[r].day)
  /\ pc[r] = "persist" => job[r].names = patterns[job[r].day]

DInv == Types /\ Tables /\ \A r \in Runs : Reads(r)

LEMMA DailyInit == Init => DInv
<1>. SUFFICES ASSUME Init PROVE DInv
  OBVIOUS
<1>1. Types /\ Day(now) \in Days
  BY TypesInit, DaysHold DEF Types, Shaped
<1>2. Tables
  BY <1>1 DEF Init, Tables, Agree, PatternsCoverReport
<1>3. \A r \in Runs : Reads(r)
  BY DEF Init, Reads, Dated, Counted, Ranked, Named, Boards
<1>4. QED
  BY <1>1, <1>2, <1>3 DEF DInv

\* Steps that touch no table but the tokens.
LEMMA SameTables ==
  ASSUME Tables, UNCHANGED <<now, snaps, patterns, reports>>
  PROVE  /\ Tables' /\ Day(now)' = Day(now)
         /\ \A d : SnappedOn(d)' = SnappedOn(d)
<1>1. \A d : SnappedOn(d)' = SnappedOn(d)
  BY DEF SnappedOn, Day
<1>2. Day(now)' = Day(now)
  BY DEF Day
<1>3. Agree(Day(now))'
  BY <1>1, <1>2 DEF Tables, Agree
<1>4. QED
  BY <1>1, <1>2, <1>3 DEF Tables, PatternsCoverReport

\* Steps that end or repeat an execution, and its first ones, leave the tables.
LEMMA IdleKeeps ==
  ASSUME DInv, Types', Single, NEW r \in Runs, pc'[r] \notin Dated,
         UNCHANGED <<now, snaps, patterns, reports>>
  PROVE  DInv'
<1>1. ASSUME NEW s \in Runs PROVE Reads(s)'
  <2>1. s = r
    BY DEF Single
  <2>2. QED
    BY <2>1 DEF Reads, Dated, Counted, Ranked, Named
<1>2. QED
  BY <1>1, SameTables DEF DInv

LEMMA TickKeeps == ASSUME DInv, Types', Tick PROVE DInv'
<1>. USE DEF DInv
<1>1. now \in Nat /\ now' = now + 1
  BY DEF Tick, Types, Shaped
<1>2. /\ Day(now) \in Nat /\ Day(now') \in Nat /\ Day(now) <= Day(now')
      /\ Day(now') \in Days /\ Day(now)' = Day(now')
  <2>1. now' \in Nat /\ now <= now' /\ now' <= MaxNow
    BY <1>1 DEF Types
  <2> QED
    BY <1>1, <2>1, DayIsNat, DayGrows, DaysHold DEF Day
<1>3. UNCHANGED <<snaps, patterns, reports, pc, job>>
  BY DEF Tick, tables
<1>4. \A d : SnappedOn(d)' = SnappedOn(d)
  BY <1>3 DEF SnappedOn, Day
<1>5. \A d : Agree(d) => /\ \A p \in reports' : p.day = d => p.scanned \subseteq SnappedOn(d)'
                         /\ patterns'[d] \subseteq SnappedOn(d)'
  BY <1>3, <1>4 DEF Agree
<1>6. /\ \A p \in reports : p.day \in Nat
      /\ \A m \in Mints : \A t \in snaps[m] : t \in Nat
      /\ \A r \in Runs : job[r].day \in Nat
  BY DEF Types, Shaped, Days
<1>7. Tables'
  <2>1. \A m \in Mints : \A t \in snaps[m] : t <= now'
    BY <1>1, <1>6 DEF Tables
  <2>2. \A p \in reports : p.day <= Day(now')
    BY <1>2, <1>6 DEF Tables
  <2>3. \A d \in Days : d > Day(now') => patterns[d] = {}
    BY <1>2 DEF Tables, Days
  <2>4. Agree(Day(now'))
    <3>1. CASE Day(now') = Day(now)
      BY <3>1 DEF Tables
    <3>2. CASE Day(now') > Day(now)
      <4>1. \A p \in reports : p.day # Day(now')
        BY <1>2, <1>6, <3>2 DEF Tables
      <4>2. patterns[Day(now')] = {}
        BY <1>2, <3>2 DEF Tables
      <4>3. QED
        BY <4>1, <4>2 DEF Agree
    <3>3. QED
      BY <1>2, <3>1, <3>2
  <2>5. Agree(Day(now))'
    BY <1>2, <1>5, <2>4 DEF Agree
  <2>6. QED
    BY <1>2, <1>3, <2>1, <2>2, <2>3, <2>5 DEF Tables, PatternsCoverReport
<1>8. ASSUME NEW r \in Runs PROVE Reads(r)'
  <2>1. Reads(r)
    OBVIOUS
  <2>2. pc[r] \in Dated => job[r].day <= Day(now')
    BY <1>2, <1>6, <2>1 DEF Reads
  <2>3. pc[r] \in Dated => Agree(job[r].day)'
    BY <1>3, <1>5, <2>1 DEF Reads, Agree
  <2>4. QED
    BY <1>2, <1>3, <1>4, <2>1, <2>2, <2>3 DEF Reads
<1>9. QED
  BY <1>7, <1>8

\* The reads of an execution: its date, and what it finds of that day.
LEMMA ReadsKeep ==
  ASSUME DInv, Types', Single, NEW r \in Runs,
         \/ Fetch(r) \/ DateReport(r) \/ Analyze(r) \/ CountCoins(r) \/ RankTop(r)
         \/ ReadNames(r) \/ DeletePatterns(r)
  PROVE  DInv'
<1>. USE DEF DInv
<1>1. UNCHANGED <<now, snaps, patterns, reports>> /\ Reads(r) /\ pc \in [Runs -> Phases]
  BY DEF Fetch, DateReport, Analyze, CountCoins, RankTop, ReadNames, DeletePatterns,
         tables, Types, Shaped
<1>2. Tables' /\ Day(now)' = Day(now) /\ \A d : SnappedOn(d)' = SnappedOn(d)
  BY <1>1, SameTables
<1>3. ASSUME NEW d, job'[r].day = d, Agree(d) PROVE Agree(job[r].day)'
  BY <1>1, <1>2, <1>3 DEF Agree
<1>4. CASE Fetch(r)
  BY <1>1, <1>4, FetchIs, IdleKeeps DEF Dated, Counted, Ranked, Named, Boards
<1>5. CASE DateReport(r)
  <2>1. pc'[r] = "analyze" /\ job'[r].day = Day(now) /\ Day(now) <= Day(now)
    <3>1. Day(now) \in Nat
      BY DayIsNat DEF Types, Shaped
    <3> QED
      BY <1>1, <1>5, <3>1, DateIs
  <2>2. Agree(job[r].day)'
    BY <1>3, <2>1 DEF Tables
  <2>3. Reads(r)'
    BY <1>2, <2>1, <2>2 DEF Reads, Counted, Ranked, Named, Boards
  <2> QED
    BY <1>2, <2>3 DEF Single
<1>6. CASE Analyze(r)
  <2>1. pc[r] = "analyze" /\ pc'[r] = "count" /\ job' = job
    BY <1>1, <1>6, AnalyzeIs
  <2>2. Reads(r)'
    BY <1>1, <1>2, <1>3, <2>1 DEF Reads, Dated, Counted, Ranked, Named, Boards
  <2> QED
    BY <1>2, <2>2 DEF Single
<1>7. CASE CountCoins(r)
  <2>1. /\ pc[r] = "count" /\ pc'[r] = "winners" /\ job'[r].day = job[r].day
        /\ job'[r].counted = SnappedOn(job[r].day)
    BY <1>1, <1>7, CountIs
  <2>2. Reads(r)'
    BY <1>1, <1>2, <1>3, <2>1 DEF Reads, Dated, Counted, Ranked, Named
  <2> QED
    BY <1>2, <2>2 DEF Single
<1>8. CASE RankTop(r)
  <2>1. /\ pc[r] \in Boards /\ pc'[r] \in {"rugs", "names"} /\ job'[r].day = job[r].day
        /\ job'[r].counted = job[r].counted
    BY <1>1, <1>8, RankIs
  <2>2. Reads(r)'
    BY <1>1, <1>2, <1>3, <2>1 DEF Reads, Dated, Counted, Ranked, Named, Boards
  <2> QED
    BY <1>2, <2>2 DEF Single
<1>9. CASE ReadNames(r)
  <2>1. /\ pc[r] = "names" /\ pc'[r] = "delete" /\ job'[r].day = job[r].day
        /\ job'[r].counted = job[r].counted
        /\ job'[r].names = SnappedOn(job[r].day)
    BY <1>1, <1>9, NamesIs
  <2>2. Reads(r)'
    BY <1>1, <1>2, <1>3, <2>1 DEF Reads, Dated, Counted, Ranked
  <2> QED
    BY <1>2, <2>2 DEF Single
<1>10. CASE DeletePatterns(r)
  <2>1. /\ pc[r] = "delete" /\ pc'[r] = "upsert" /\ job'[r].day = job[r].day
        /\ job'[r].counted = job[r].counted /\ job'[r].names = job[r].names
    BY <1>1, <1>10, DeleteIs
  <2>2. Reads(r)'
    BY <1>1, <1>2, <1>3, <2>1 DEF Reads, Dated, Counted, Ranked, Named
  <2> QED
    BY <1>2, <2>2 DEF Single
<1> QED
  BY <1>4, <1>5, <1>6, <1>7, <1>8, <1>9, <1>10

LEMMA IngestKeeps ==
  ASSUME DInv, Types', Single, NEW r \in Runs, Ingest(r)
  PROVE  DInv'
<1>. USE DEF DInv
<1>1. /\ now' = now /\ reports' = reports /\ patterns' = patterns /\ pc'[r] = "date"
      /\ \A m \in Mints :
           snaps[m] \subseteq snaps'[m] /\ snaps'[m] \subseteq snaps[m] \cup {job[r].at}
  BY IngestIs DEF Types, Shaped
<1>2. \A m \in Mints : \A t \in snaps'[m] : t <= now
  BY <1>1 DEF Tables, Types
<1>3. \A d : SnappedOn(d) \subseteq SnappedOn(d)'
  BY <1>1 DEF SnappedOn, Day
<1>4. Day(now)' = Day(now)
  BY <1>1 DEF Day
<1>5. Agree(Day(now))'
  <2>1. Agree(Day(now))
    BY DEF Tables
  <2> QED
    BY <1>1, <1>3, <1>4, <2>1 DEF Agree
<1>6. Tables'
  BY <1>1, <1>2, <1>4, <1>5 DEF Tables, PatternsCoverReport
<1>7. Reads(r)'
  BY <1>1 DEF Reads, Dated, Counted, Ranked, Named, Boards
<1>8. QED
  BY <1>6, <1>7 DEF Single

\* The patterns of the day become those of the new names, which are at least
\* the old ones and those that the day's report counted.
LEMMA CommitCollects ==
  ASSUME DInv, NEW r \in Runs, CommitPatterns(r)
  PROVE  /\ job[r].day \in Days /\ job[r].names \subseteq Mints
         /\ patterns[job[r].day] \subseteq job[r].names
         /\ patterns' = [patterns EXCEPT ![job[r].day] = job[r].names]
<1>1. /\ pc[r] = "upsert" /\ job[r].day \in Days /\ job[r].names \subseteq Mints
  BY DEF CommitPatterns, DInv, Types, Shaped
<1>2. patterns[job[r].day] \subseteq job[r].names
  BY <1>1 DEF DInv, Reads, Agree, Dated, Counted, Ranked, Named
<1>3. patterns' = [patterns EXCEPT ![job[r].day] =
                     (patterns[job[r].day] \ job[r].gone) \cup job[r].names]
  BY CommitIs DEF DInv
<1>4. (patterns[job[r].day] \ job[r].gone) \cup job[r].names = job[r].names
  BY <1>2
<1>5. QED
  BY <1>1, <1>2, <1>3, <1>4

LEMMA CommitKeeps ==
  ASSUME DInv, Types', Single, NEW r \in Runs, CommitPatterns(r)
  PROVE  DInv'
<1>. USE DEF DInv
<1>1. /\ pc[r] = "upsert" /\ pc'[r] = "persist"
      /\ UNCHANGED <<now, snaps, reports>>
      /\ job'[r].day = job[r].day /\ job'[r].counted = job[r].counted
      /\ job'[r].names = job[r].names
  BY CommitIs DEF Types, Shaped
<1>2. /\ job[r].day \in Days /\ patterns[job[r].day] \subseteq job[r].names
      /\ patterns'[job[r].day] = job[r].names
      /\ \A d \in Days \ {job[r].day} : patterns'[d] = patterns[d]
  <2>1. patterns \in [Days -> SUBSET Mints]
    BY DEF Types, Shaped
  <2> QED
    BY <2>1, CommitCollects
<1>3. /\ Agree(job[r].day) /\ job[r].names = SnappedOn(job[r].day)
      /\ job[r].counted = SnappedOn(job[r].day) /\ job[r].day <= Day(now)
  BY <1>1 DEF Reads, Dated, Counted, Ranked, Named
<1>4. \A d : SnappedOn(d)' = SnappedOn(d)
  BY <1>1 DEF SnappedOn, Day
<1>5. Day(now)' = Day(now) /\ Day(now) \in Days
  BY <1>1, DaysHold DEF Day, Types, Shaped
<1>6. Agree(job[r].day)'
  BY <1>1, <1>2, <1>3, <1>4 DEF Agree
<1>7. Agree(Day(now))'
  <2>1. CASE Day(now) = job[r].day
    BY <1>1, <1>2, <1>3, <1>4, <1>5, <2>1 DEF Agree
  <2>2. CASE Day(now) # job[r].day
    BY <1>1, <1>2, <1>4, <1>5, <2>2 DEF Tables, Agree
  <2>3. QED
    BY <2>1, <2>2
<1>8. PatternsCoverReport'
  <2>1. ASSUME NEW p \in reports PROVE p.scanned \subseteq patterns'[p.day]
    <3>1. p.day \in Days /\ p.scanned \subseteq patterns[p.day]
      BY DEF Types, Shaped, Tables, PatternsCoverReport
    <3>2. QED
      BY <1>2, <3>1
  <2>2. QED
    BY <1>1, <2>1 DEF PatternsCoverReport
<1>9. \A d \in Days : d > Day(now) => patterns'[d] = {}
  <2>1. Day(now) \in Int /\ job[r].day \in Int
    BY <1>2, <1>5 DEF Days
  <2>2. QED
    BY <1>2, <1>3, <2>1 DEF Tables, Days
<1>10. Tables'
  BY <1>1, <1>5, <1>7, <1>8, <1>9 DEF Tables
<1>11. Reads(r)'
  BY <1>1, <1>2, <1>3, <1>4, <1>5, <1>6 DEF Reads
<1>12. QED
  BY <1>10, <1>11 DEF Single

\* What the day's stored report counted, the execution that replaces it counts.
LEMMA PersistPublishes ==
  ASSUME DInv, NEW r \in Runs, PersistReport(r)
  PROVE  /\ job[r].counted = SnappedOn(job[r].day)
         /\ job[r].counted = patterns[job[r].day]
         /\ job[r].day <= Day(now) /\ Agree(job[r].day)
         /\ \A p \in reports : p.day = job[r].day => p.scanned \subseteq job[r].counted
<1>1. pc[r] = "persist" /\ Reads(r)
  BY DEF PersistReport, DInv
<1>2. QED
  BY <1>1 DEF Reads, Agree, Dated, Counted, Ranked, Named

LEMMA PersistKeeps ==
  ASSUME DInv, Types', Single, NEW r \in Runs, PersistReport(r)
  PROVE  DInv'
<1>. USE DEF DInv
<1>1. /\ pc[r] = "persist" /\ pc'[r] = "prune"
      /\ UNCHANGED <<now, snaps, patterns, job>>
      /\ reports' = {p \in reports : p.day # job[r].day} \cup {Report(r)}
      /\ Report(r).day = job[r].day /\ Report(r).scanned = job[r].counted
  BY PersistIs DEF Types, Shaped
<1>2. /\ job[r].counted = SnappedOn(job[r].day)
      /\ job[r].counted = patterns[job[r].day]
      /\ job[r].day <= Day(now) /\ Agree(job[r].day)
  BY PersistPublishes
<1>3. \A d : SnappedOn(d)' = SnappedOn(d)
  BY <1>1 DEF SnappedOn, Day
<1>4. Day(now)' = Day(now)
  BY <1>1 DEF Day
<1>5. ASSUME NEW d, Agree(d)
      PROVE  /\ \A p \in reports' : p.day = d => p.scanned \subseteq SnappedOn(d)
             /\ patterns[d] \subseteq SnappedOn(d)
  BY <1>1, <1>2, <1>5 DEF Agree
<1>6. Agree(Day(now))' /\ Agree(job[r].day)'
  BY <1>1, <1>2, <1>3, <1>4, <1>5 DEF Tables, Agree
<1>7. Tables'
  BY <1>1, <1>2, <1>4, <1>6 DEF Tables, PatternsCoverReport
<1>8. Reads(r)'
  BY <1>1, <1>2, <1>3, <1>4, <1>6 DEF Reads, Dated, Counted, Ranked, Named
<1>9. QED
  BY <1>7, <1>8 DEF Single

\* Snapshots of the current day are younger than a day: the retention keeps them.
LEMMA PruneKeeps ==
  ASSUME DInv, Types', Single, NEW r \in Runs, Prune(r)
  PROVE  DInv'
<1>. USE DEF DInv
<1>1. /\ now' = now /\ pc'[r] = "idle"
      /\ snaps' = [m \in Mints |-> {t \in snaps[m] : t + SnapKeep >= now}]
      /\ reports' = {p \in reports : KeptReport(p.day)}
      /\ patterns' = [d \in Days |-> IF KeptReport(d) THEN patterns[d] ELSE {}]
  BY DEF Prune, Ended, Goto, Types, Shaped
<1>2. /\ now \in Nat /\ snaps \in [Mints -> SUBSET Nat] /\ Day(now) \in Days
      /\ \A p \in reports : p.day \in Days
  BY DaysHold DEF Types, Shaped
<1>3. PatternsCoverReport'
  BY <1>1, <1>2 DEF Tables, PatternsCoverReport
<1>4. Day(now)' = Day(now)
  BY <1>1 DEF Day
<1>5. SnappedOn(Day(now)) \subseteq SnappedOn(Day(now))'
  <2>1. ASSUME NEW m \in Mints, NEW t \in snaps[m], Day(t) = Day(now)
        PROVE  t \in snaps'[m]
    <3>1. t \in Nat /\ t <= now
      BY <1>2 DEF Tables
    <3>2. now < t + DayLen
      BY <1>2, <2>1, <3>1, DayIsShort
    <3>3. t + SnapKeep >= now
      BY <1>2, <3>1, <3>2, DailyReportAssumption
    <3>4. QED
      BY <1>1, <3>3
  <2>2. QED
    BY <1>4, <2>1 DEF SnappedOn, Day
<1>6. Agree(Day(now))'
  BY <1>1, <1>2, <1>4, <1>5 DEF Tables, Agree
<1>7. Tables'
  BY <1>1, <1>2, <1>3, <1>4, <1>6 DEF Tables
<1>8. Reads(r)'
  BY <1>1 DEF Reads, Dated, Counted, Ranked, Named, Boards
<1>9. QED
  BY <1>7, <1>8 DEF Single

LEMMA DailyNext == ASSUME Single PROVE DInv /\ [Next]_vars => DInv'
<1>. SUFFICES ASSUME DInv, [Next]_vars PROVE DInv'
  OBVIOUS
<1>1. Types'
  BY TypesNext DEF DInv
<1>2. CASE Tick
  BY <1>1, <1>2, TickKeeps
<1>3. ASSUME NEW r \in Runs, Start(r) \/ Error(r) \/ Crash(r) PROVE DInv'
  <2>1. pc'[r] \in {"fetch", "idle"} /\ UNCHANGED <<now, snaps, patterns, reports>>
    BY <1>3 DEF Start, Error, Crash, Ended, Goto, tables, DInv, Types, Shaped
  <2>2. pc'[r] \notin Dated
    BY <2>1 DEF Dated, Counted, Ranked, Named, Boards
  <2>3. QED
    BY <1>1, <2>1, <2>2, IdleKeeps
<1>4. ASSUME NEW r \in Runs, Proceed(r) PROVE DInv'
  BY <1>1, <1>4, ReadsKeep, IngestKeeps, CommitKeeps, PersistKeeps, PruneKeeps
     DEF Proceed
<1>5. CASE UNCHANGED vars
  <2>1. UNCHANGED <<now, snaps, patterns, reports, pc, job>> /\ Tables
    BY <1>5 DEF vars, DInv
  <2>2. Tables' /\ Day(now)' = Day(now) /\ \A d : SnappedOn(d)' = SnappedOn(d)
    BY <2>1, SameTables
  <2>3. ASSUME NEW r \in Runs PROVE Reads(r)'
    BY <2>1, <2>2 DEF Reads, Agree, DInv
  <2>4. QED
    BY <1>1, <2>2, <2>3 DEF DInv
<1>6. QED
  BY <1>2, <1>3, <1>4, <1>5 DEF Next

LEMMA DailyInvariant == ASSUME Single PROVE Spec => []DInv
  BY DailyInit, DailyNext, PTL DEF Spec

-----------------------------------------------------------------------------
(* Theorems *)

\* The stored report never counts a coin that the stored patterns of its date
\* do not, wherever an execution fails, dies or crosses midnight
\* (_persist_winner_patterns and persist_daily_report are two transactions).
THEOREM PatternsStayAhead ==
  ASSUME Single PROVE Spec => []PatternsCoverReport
<1>1. DInv => PatternsCoverReport
  BY DEF DInv, Tables
<1>2. QED
  BY <1>1, DailyInvariant, PTL

\* Which steps store what.
LEMMA Stores ==
  ASSUME [Next]_vars
  PROVE  /\ reports' = reports \/ \E r \in Runs : PersistReport(r) \/ Prune(r)
         /\ \/ UNCHANGED <<patterns, reports>>
            \/ \E r \in Runs : CommitPatterns(r) \/ PersistReport(r) \/ Prune(r)
<1>1. ASSUME NEW r \in Runs,
             \/ Start(r) \/ Fetch(r) \/ Ingest(r) \/ DateReport(r) \/ Analyze(r)
             \/ CountCoins(r) \/ RankTop(r) \/ ReadNames(r) \/ DeletePatterns(r)
             \/ Error(r) \/ Crash(r)
      PROVE  UNCHANGED <<patterns, reports>>
  BY <1>1 DEF Start, Fetch, Ingest, DateReport, Analyze, CountCoins, RankTop,
              ReadNames, DeletePatterns, Error, Crash, tables
<1>2. \A r \in Runs : CommitPatterns(r) => reports' = reports
  BY DEF CommitPatterns
<1>3. CASE Tick \/ UNCHANGED vars
  BY <1>3 DEF Tick, tables, vars
<1> QED
  BY <1>1, <1>2, <1>3 DEF Next, Proceed

\* No repetition replaces a report by one that counts less (persist_daily_report,
\* ON CONFLICT DO UPDATE).
THEOREM ReportsGrow ==
  ASSUME Single PROVE Spec => ReportsOnlyGrow
<1>. DEFINE Survives(p) == \E q \in reports' : q.day = p.day /\ p.scanned \subseteq q.scanned
<1>1. ASSUME DInv, [Next]_vars
      PROVE  [\A p \in reports :
               \/ \E q \in reports' : q.day = p.day /\ p.scanned \subseteq q.scanned
               \/ p.day + ReportKeep < Day(now)]_vars
  <2>1. ASSUME reports' = reports, NEW p \in reports PROVE Survives(p)
    BY <2>1
  <2>2. ASSUME NEW r \in Runs, PersistReport(r), NEW p \in reports PROVE Survives(p)
    <3>1. /\ reports' = {q \in reports : q.day # job[r].day} \cup {Report(r)}
          /\ Report(r).day = job[r].day /\ Report(r).scanned = job[r].counted
          /\ p.day = job[r].day => p.scanned \subseteq job[r].counted
      BY <1>1, <2>2, PersistIs, PersistPublishes DEF DInv
    <3>2. CASE p.day = job[r].day
      BY <3>1, <3>2
    <3>3. CASE p.day # job[r].day
      BY <3>1, <3>3
    <3>4. QED
      BY <3>2, <3>3
  <2>3. ASSUME NEW r \in Runs, Prune(r), NEW p \in reports, p \notin reports'
        PROVE  p.day + ReportKeep < Day(now)
    <3>1. ~ (p.day + ReportKeep >= Day(now))
      BY <2>3 DEF Prune, KeptReport
    <3>2. p.day \in Days /\ now \in Nat
      BY <1>1 DEF DInv, Types, Shaped
    <3>3. p.day \in Nat /\ Day(now) \in Nat /\ ReportKeep \in Nat
      BY <3>2, DayIsNat, DailyReportAssumption DEF Days
    <3>4. QED
      BY <3>1, <3>3
  <2>4. reports' = reports \/ \E r \in Runs : PersistReport(r) \/ Prune(r)
    BY <1>1, Stores
  <2>5. ASSUME NEW p \in reports PROVE Survives(p) \/ p.day + ReportKeep < Day(now)
    <3>1. ASSUME p \in reports' PROVE Survives(p)
      BY <3>1
    <3>. HIDE DEF Survives
    <3>2. QED
      BY <2>1, <2>2, <2>3, <2>4, <3>1
  <2>6. QED
    BY <2>5
<1>2. QED
  BY <1>1, DailyInvariant, PTL DEF Spec, ReportsOnlyGrow

-----------------------------------------------------------------------------
(* The book *)

\* The reports as the book sees them, without their leaderboards.
Told(R) == {[day |-> p.day, scanned |-> p.scanned] : p \in R}

LEMMA BookStep ==
  ASSUME Single, DInv, [Next]_vars
  PROVE  [Book!BookNext]_Book!bookVars
<1>1. CASE UNCHANGED <<patterns, reports>>
  BY <1>1 DEF Book!bookVars
<1>2. ASSUME NEW r \in Runs, CommitPatterns(r) PROVE Book!BookNext
  <2>1. /\ job[r].day \in Days /\ job[r].names \in SUBSET Mints
        /\ patterns[job[r].day] \subseteq job[r].names
        /\ patterns' = [patterns EXCEPT ![job[r].day] = job[r].names]
        /\ reports' = reports
    BY <1>2, CommitCollects DEF CommitPatterns
  <2>2. Book!Collect(job[r].day, job[r].names)
    BY <2>1 DEF Book!Collect
  <2>3. QED
    BY <2>1, <2>2 DEF Book!BookNext
<1>3. ASSUME NEW r \in Runs, PersistReport(r) PROVE Book!BookNext
  <2>1. /\ job[r].day \in Days /\ patterns' = patterns
        /\ job[r].counted = patterns[job[r].day]
        /\ reports' = {p \in reports : p.day # job[r].day} \cup {Report(r)}
        /\ Report(r).day = job[r].day /\ Report(r).scanned = job[r].counted
    BY <1>3, PersistIs, PersistPublishes DEF DInv, Types, Shaped
  <2>2. Told(reports') = {q \in Told(reports) : q.day # job[r].day}
                           \cup {[day |-> job[r].day, scanned |-> patterns[job[r].day]]}
    BY <2>1 DEF Told
  <2>3. PICK d \in Days : d = job[r].day
    BY <2>1
  <2>4. Book!Publish(d)
    BY <2>1, <2>2, <2>3 DEF Book!Publish, Told
  <2>5. \E e \in Days : Book!Publish(e)
    BY <2>4
  <2>6. QED
    BY <2>5 DEF Book!BookNext
<1>4. ASSUME NEW r \in Runs, Prune(r) PROVE Book!BookNext
  <2>. DEFINE first == IF Day(now) < ReportKeep THEN 0 ELSE Day(now) - ReportKeep
  <2>1. Day(now) \in Days /\ ReportKeep \in Nat
    BY DaysHold, DailyReportAssumption DEF DInv, Types, Shaped
  <2>2. MaxNow \in Nat /\ Day(MaxNow) \in Nat
    BY DayIsNat, DailyReportAssumption
  <2>3. first \in Days
    BY <2>1, <2>2 DEF Days
  <2>4. \A d \in Days : KeptReport(d) <=> d >= first
    BY <2>1 DEF Days, KeptReport
  <2>5. /\ reports' = {p \in reports : KeptReport(p.day)}
        /\ patterns' = [d \in Days |-> IF KeptReport(d) THEN patterns[d] ELSE {}]
        /\ \A p \in reports : p.day \in Days
    BY <1>4 DEF Prune, DInv, Types, Shaped
  <2>. HIDE DEF first
  <2>6. Told(reports') = {q \in Told(reports) : q.day >= first}
    BY <2>4, <2>5 DEF Told
  <2>7. patterns' = [d \in Days |-> IF d >= first THEN patterns[d] ELSE {}]
    <3>1. \A d \in Days : (IF KeptReport(d) THEN patterns[d] ELSE {})
                          = (IF d >= first THEN patterns[d] ELSE {})
      BY <2>4
    <3>2. QED
      BY <2>5, <3>1
  <2>8. PICK f \in Days : f = first
    BY <2>3
  <2>9. Book!Expire(f)
    BY <2>6, <2>7, <2>8 DEF Book!Expire, Told
  <2>10. \E e \in Days : Book!Expire(e)
    BY <2>9
  <2>11. QED
    BY <2>10 DEF Book!BookNext
<1>5. QED
  BY <1>1, <1>2, <1>3, <1>4, Stores

\* The three transactions of an execution, with its failures, retries and
\* midnights, are the steps of the book (build_daily_report,
\* persist_daily_report, prune_old_data).
THEOREM DailyImplementsBook ==
  ASSUME Single PROVE Spec => ImplementsBook
<1>1. Init => Book!BookInit
  BY DEF Init, Book!BookInit
<1>2. DInv /\ [Next]_vars => [Book!BookNext]_Book!bookVars
  BY BookStep
<1>3. QED
  BY <1>1, <1>2, DailyInvariant, PTL DEF Spec, ImplementsBook, Book!BookSpec

-----------------------------------------------------------------------------
(* Executions that have been alone, among any number of executions *)

Past == \A m \in Mints : \A t \in snaps[m] : t <= now

\* The executions that have read a leaderboard.
Read(b) == IF b = "winners" THEN {"rugs"} \cup Ranked ELSE Ranked

\* The coins listed are marked as seen when they were, and each has a snapshot that
\* was not stale then.
Listed(r) ==
  \A m \in job[r].listed :
    /\ seen[m] = Day(job[r].at)
    /\ \E t \in snaps[m] : t <= job[r].at /\ job[r].at < t + Stale

\* While r is alone nobody else writes: what it has read is still so, and the
\* table it has written holds what it wrote, and nothing of an earlier run.
Alone(r) ==
  /\ pc[r] = "ingest" => \A m \in Mints : \A t \in snaps[m] : t <= job[r].at
  /\ pc[r] \in Ingested => Listed(r)
  /\ pc[r] \in Counted => job[r].counted = SnappedOn(job[r].day)
  /\ \A b \in Boards :
       pc[r] \in Read(b) => job[r].top[b] \in TopOf(Candidates(b, job[r].day))
  /\ pc[r] \in Named => job[r].names = SnappedOn(job[r].day)
  /\ pc[r] = "upsert" => job[r].gone = patterns[job[r].day]
  /\ pc[r] \in {"persist", "prune"} => job[r].names = patterns[job[r].day]
  /\ pc[r] = "prune" => Report(r) \in reports

AInv ==
  /\ Types /\ LoneIsAlone /\ Past
  /\ \A r \in lone : Alone(r)

\* Most steps take no snapshot and remove none.
LEMMA SnapsStay ==
  ASSUME [Next]_vars
  PROVE  \/ Tick
         \/ \E r \in Runs : Ingest(r) \/ Prune(r)
         \/ UNCHANGED <<now, snaps>>
<1>1. ASSUME NEW r \in Runs,
             \/ Start(r) \/ Fetch(r) \/ DateReport(r) \/ Analyze(r) \/ CountCoins(r)
             \/ RankTop(r) \/ ReadNames(r) \/ DeletePatterns(r) \/ CommitPatterns(r)
             \/ PersistReport(r) \/ Error(r) \/ Crash(r)
      PROVE  UNCHANGED <<now, snaps>>
  BY <1>1 DEF Start, Fetch, DateReport, Analyze, CountCoins, RankTop, ReadNames,
              DeletePatterns, CommitPatterns, PersistReport, Error, Crash, tables
<1>2. UNCHANGED vars => UNCHANGED <<now, snaps>>
  BY DEF vars
<1> QED
  BY <1>1, <1>2 DEF Next, Proceed

LEMMA PastNext == Types /\ Past /\ [Next]_vars => Past'
<1> SUFFICES ASSUME Types, Past, [Next]_vars PROVE Past'
  OBVIOUS
<1>1. now \in Nat /\ snaps \in [Mints -> SUBSET Nat] /\ \A r \in Runs : job[r].at <= now
  BY DEF Types, Shaped
<1>2. CASE Tick
  BY <1>1, <1>2 DEF Tick, tables, Past
<1>3. ASSUME NEW r \in Runs, Ingest(r) PROVE Past'
  <2>1. now' = now /\ \A m \in Mints : snaps'[m] \subseteq snaps[m] \cup {job[r].at}
    BY <1>3, IngestIs
  <2> QED
    BY <1>1, <2>1 DEF Past
<1>4. ASSUME NEW r \in Runs, Prune(r) PROVE Past'
  <2>1. now' = now /\ \A m \in Mints : snaps'[m] \subseteq snaps[m]
    BY <1>4 DEF Prune
  <2> QED
    BY <2>1 DEF Past
<1>5. CASE UNCHANGED <<now, snaps>>
  BY <1>5 DEF Past
<1> QED
  BY <1>2, <1>3, <1>4, <1>5, SnapsStay

\* What is known of an execution that takes no table along.
LEMMA SameReads ==
  ASSUME UNCHANGED <<snaps, seen, label>>
  PROVE  /\ \A d : SnappedOn(d)' = SnappedOn(d)
         /\ \A b, d : TopOf(Candidates(b, d))' = TopOf(Candidates(b, d))
<1>1. \A d : SnappedOn(d)' = SnappedOn(d)
  BY DEF SnappedOn, Day
<1>2. \A b, d : Candidates(b, d)' = Candidates(b, d)
  BY DEF Candidates
<1> QED
  BY <1>1, <1>2 DEF TopOf

LEMMA ListedStays ==
  ASSUME NEW r \in Runs, Listed(r), UNCHANGED <<snaps, seen>>,
         job'[r].at = job[r].at, job'[r].listed = job[r].listed
  PROVE  Listed(r)'
  BY DEF Listed, Day

\* Its own steps, up to the prune, one after the other.
LEMMA OwnSteps ==
  ASSUME AInv, Types', NEW r \in Runs, Alone(r), Proceed(r), ~ Prune(r)
  PROVE  Alone(r)'
<1>1. /\ pc \in [Runs -> Phases] /\ Types
      /\ \A m \in Mints : \A t \in snaps[m] : t <= now
  BY DEF AInv, Past, Types, Shaped
<1>s. \A b : Read(b) \in SUBSET ({"rugs"} \cup Ranked)
  BY DEF Read
<1>. USE DEF Dated, Counted, Ranked, Named, Boards
<1>2. CASE Fetch(r)
  <2>1. pc'[r] = "ingest" /\ job'[r].at = now /\ snaps' = snaps
    BY <1>1, <1>2, FetchIs DEF tables
  <2> QED
    BY <1>1, <1>s, <2>1 DEF Alone, Ingested
<1>3. CASE Ingest(r)
  <2>1. /\ pc[r] = "ingest" /\ pc'[r] = "date" /\ job' = job
        /\ \A m \in job[r].listed :
             /\ seen'[m] = Day(job[r].at)
             /\ \E t \in snaps'[m] :
                  (t \in snaps[m] \/ t = job[r].at) /\ job[r].at < t + Stale
    BY <1>1, <1>3, IngestIs
  <2>2. /\ job[r].at \in Nat /\ job[r].listed \subseteq Mints
        /\ \A m \in Mints : \A t \in snaps[m] : t <= job[r].at
    BY <1>1, <2>1 DEF Alone, Types, Shaped
  <2>3. Listed(r)'
    BY <2>1, <2>2 DEF Listed, Day
  <2> QED
    BY <1>s, <2>1, <2>3 DEF Alone
<1>4. CASE DateReport(r)
  <2>1. /\ pc[r] = "date" /\ pc'[r] = "analyze" /\ UNCHANGED <<snaps, seen>>
        /\ job'[r].at = job[r].at /\ job'[r].listed = job[r].listed
    BY <1>1, <1>4, DateIs DEF tables
  <2>2. Listed(r)'
    BY <2>1, ListedStays DEF Alone, Ingested
  <2> QED
    BY <1>s, <2>1, <2>2 DEF Alone
<1>5. CASE Analyze(r)
  <2>1. pc[r] = "analyze" /\ pc'[r] = "count" /\ UNCHANGED <<snaps, seen, job>>
    BY <1>1, <1>5, AnalyzeIs
  <2>2. Listed(r)'
    BY <2>1, ListedStays DEF Alone, Ingested
  <2> QED
    BY <1>s, <2>1, <2>2 DEF Alone
<1>6. CASE CountCoins(r)
  <2>1. /\ pc[r] = "count" /\ pc'[r] = "winners" /\ UNCHANGED <<snaps, seen, label>>
        /\ job'[r].at = job[r].at /\ job'[r].listed = job[r].listed
        /\ job'[r].day = job[r].day /\ job'[r].counted = SnappedOn(job[r].day)
    BY <1>1, <1>6, CountIs DEF tables
  <2>2. Listed(r)'
    BY <2>1, ListedStays DEF Alone, Ingested
  <2> QED
    BY <1>s, <2>1, <2>2, SameReads DEF Alone
<1>7. CASE RankTop(r)
  <2>1. /\ pc[r] \in Boards /\ UNCHANGED <<snaps, seen, label>>
        /\ pc'[r] = IF pc[r] = "winners" THEN "rugs" ELSE "names"
        /\ job'[r].top[pc[r]] \in TopOf(Candidates(pc[r], job[r].day))
        /\ \A b \in Boards \ {pc[r]} : job'[r].top[b] = job[r].top[b]
        /\ job'[r].at = job[r].at /\ job'[r].listed = job[r].listed
        /\ job'[r].day = job[r].day /\ job'[r].counted = job[r].counted
    BY <1>1, <1>7, RankIs DEF tables
  <2>2. Listed(r)'
    BY <2>1, ListedStays DEF Alone, Ingested
  <2>3. ASSUME NEW b \in Boards, pc'[r] \in Read(b)
        PROVE  job'[r].top[b] \in TopOf(Candidates(b, job[r].day))
    <3>1. CASE b = pc[r]
      BY <2>1, <3>1
    <3>2. CASE b # pc[r]
      <4>1. pc[r] = "rugs" /\ b = "winners"
        BY <2>1, <2>3, <3>2 DEF Read
      <4>2. pc[r] \in Read(b)
        BY <4>1 DEF Read
      <4> QED
        BY <2>1, <3>2, <4>2 DEF Alone
    <3> QED
      BY <3>1, <3>2
  <2> QED
    BY <2>1, <2>2, <2>3, SameReads DEF Alone
<1>8. CASE ReadNames(r)
  <2>1. /\ pc[r] = "names" /\ pc'[r] = "delete" /\ UNCHANGED <<snaps, seen, label>>
        /\ job'[r].at = job[r].at /\ job'[r].listed = job[r].listed
        /\ job'[r].day = job[r].day /\ job'[r].counted = job[r].counted
        /\ job'[r].top = job[r].top /\ job'[r].names = SnappedOn(job[r].day)
    BY <1>1, <1>8, NamesIs DEF tables
  <2>2. Listed(r)'
    BY <2>1, ListedStays DEF Alone, Ingested
  <2> QED
    BY <2>1, <2>2, SameReads DEF Alone, Read
<1>9. CASE DeletePatterns(r)
  <2>1. /\ pc[r] = "delete" /\ pc'[r] = "upsert"
        /\ UNCHANGED <<snaps, seen, label, patterns>>
        /\ job'[r].at = job[r].at /\ job'[r].listed = job[r].listed
        /\ job'[r].day = job[r].day /\ job'[r].counted = job[r].counted
        /\ job'[r].top = job[r].top /\ job'[r].names = job[r].names
        /\ job'[r].gone = patterns[job[r].day]
    BY <1>1, <1>9, DeleteIs DEF tables
  <2>2. Listed(r)'
    BY <2>1, ListedStays DEF Alone, Ingested
  <2> QED
    BY <2>1, <2>2, SameReads DEF Alone, Read
<1>10. CASE CommitPatterns(r)
  <2>1. /\ pc[r] = "upsert" /\ pc'[r] = "persist" /\ UNCHANGED <<snaps, seen, label>>
        /\ job'[r].at = job[r].at /\ job'[r].listed = job[r].listed
        /\ job'[r].day = job[r].day /\ job'[r].counted = job[r].counted
        /\ job'[r].top = job[r].top /\ job'[r].names = job[r].names
        /\ patterns' = [patterns EXCEPT ![job[r].day] =
                          (patterns[job[r].day] \ job[r].gone) \cup job[r].names]
    BY <1>1, <1>10, CommitIs
  <2>2. Listed(r)'
    BY <2>1, ListedStays DEF Alone, Ingested
  <2>3. patterns'[job[r].day] = job[r].names
    <3>1. job[r].gone = patterns[job[r].day] /\ job[r].day \in Days
          /\ patterns \in [Days -> SUBSET Mints]
      BY <1>1, <2>1 DEF Alone, Types, Shaped
    <3> QED
      BY <2>1, <3>1
  <2> QED
    BY <2>1, <2>2, <2>3, SameReads DEF Alone, Read
<1>11. CASE PersistReport(r)
  <2>1. /\ pc[r] = "persist" /\ pc'[r] = "prune"
        /\ UNCHANGED <<snaps, seen, label, patterns, job>>
        /\ Report(r) \in reports'
    BY <1>1, <1>11, PersistIs
  <2>2. Listed(r)' /\ Report(r)' = Report(r)
    BY <2>1, ListedStays DEF Alone, Ingested, Report
  <2> QED
    BY <2>1, <2>2, SameReads DEF Alone, Read
<1> QED
  BY <1>2, <1>3, <1>4, <1>5, <1>6, <1>7, <1>8, <1>9, <1>10, <1>11 DEF Proceed

\* A step that leaves the tables and the locals leaves what is known of r.
LEMMA AloneStays ==
  ASSUME NEW r \in Runs, Alone(r), UNCHANGED <<tables, job, pc>>
  PROVE  Alone(r)'
<1>1. UNCHANGED <<snaps, seen, label, patterns, reports>>
  BY DEF tables
<1>2. Listed(r) => Listed(r)'
  BY <1>1, ListedStays
<1>3. Report(r)' = Report(r)
  BY DEF Report
<1> QED
  BY <1>1, <1>2, <1>3, SameReads DEF Alone

LEMMA AloneNext == AInv /\ [Next]_vars => AInv'
<1> SUFFICES ASSUME AInv, [Next]_vars PROVE AInv'
  OBVIOUS
<1>1. Types' /\ LoneIsAlone' /\ Past' /\ Types
  BY TypesNext, LoneNext, PastNext DEF AInv
<1>2. /\ pc \in [Runs -> Phases] /\ lone \subseteq Runs
      /\ \A r \in lone : pc[r] # "idle" /\ \A s \in Runs \ {r} : pc[s] = "idle"
  BY DEF AInv, Types, Shaped, LoneIsAlone
<1>3. CASE Tick \/ UNCHANGED vars
  <2>1. UNCHANGED <<tables, job, pc, lone>>
    BY <1>3 DEF Tick, vars, tables
  <2>2. \A r \in lone' : Alone(r)'
    BY <1>2, <2>1, AloneStays DEF AInv
  <2> QED
    BY <1>1, <2>2 DEF AInv
\* Nothing is known of an execution without a listing.
<1>4. ASSUME NEW r \in Runs, pc'[r] \in {"idle", "fetch"} PROVE Alone(r)'
  <2>1. /\ pc'[r] \notin Ingested /\ pc'[r] \notin Counted /\ pc'[r] \notin Named
        /\ \A b \in Boards : pc'[r] \notin Read(b)
    BY <1>4 DEF Ingested, Dated, Counted, Ranked, Named, Boards, Read
  <2> QED
    BY <1>4, <2>1 DEF Alone
<1>5. ASSUME NEW r \in Runs, Start(r) PROVE AInv'
  <2>1. lone' \subseteq {r} /\ pc'[r] = "fetch"
    BY <1>2, <1>5 DEF Start, Goto
  <2>2. \A s \in lone' : Alone(s)'
    BY <1>4, <2>1
  <2> QED
    BY <1>1, <2>2 DEF AInv
<1>6. ASSUME NEW r \in Runs, Proceed(r) \/ Error(r) \/ Crash(r) PROVE AInv'
  <2>1. pc[r] # "idle" /\ (Ended(r) \/ UNCHANGED lone)
    BY <1>1, <1>6, StepIs DEF Error, Crash
  <2>2. lone' \subseteq {r} /\ lone' \subseteq lone
    BY <1>2, <2>1 DEF Ended
  <2>3. ASSUME r \in lone' PROVE Alone(r)'
    <3>1. Alone(r)
      BY <2>2, <2>3 DEF AInv
    <3>2. CASE Proceed(r) /\ ~ Prune(r)
      BY <1>1, <3>1, <3>2, OwnSteps
    <3>3. CASE Prune(r) \/ Error(r) \/ Crash(r)
      <4>1. pc'[r] \in {"idle", "fetch"}
        BY <1>2, <3>3 DEF Prune, Error, Crash, Ended, Goto
      <4> QED
        BY <1>4, <4>1
    <3> QED
      BY <1>6, <3>2, <3>3
  <2> QED
    BY <1>1, <2>2, <2>3 DEF AInv
<1> QED
  BY <1>3, <1>5, <1>6 DEF Next

LEMMA AloneInit == Init => AInv
<1> SUFFICES ASSUME Init PROVE AInv
  OBVIOUS
<1>1. Types
  BY TypesInit
<1> QED
  BY <1>1 DEF Init, AInv, LoneIsAlone, Past

LEMMA AloneInvariant == Spec => []AInv
  BY AloneInit, AloneNext, PTL DEF Spec

\* What an execution stores that has been alone.
LEMMA LoneStores ==
  ASSUME AInv, NEW r \in lone, pc[r] = "prune"
  PROVE  /\ r \in Runs /\ Listed(r) /\ Report(r) \in reports
         /\ Report(r).day = job[r].day /\ Report(r).scanned = SnappedOn(job[r].day)
         /\ Report(r).scanned = patterns[job[r].day]
         /\ \A b \in Boards : Report(r).top[b] \in TopOf(Candidates(b, job[r].day))
<1>1. r \in Runs /\ Alone(r)
  BY DEF AInv, LoneIsAlone
<1>2. "prune" \in Named /\ "prune" \in Counted /\ "prune" \in Ingested
      /\ \A b \in Boards : "prune" \in Read(b)
  BY DEF Ingested, Dated, Counted, Ranked, Named, Read
<1>3. /\ Listed(r) /\ Report(r) \in reports
      /\ job[r].counted = SnappedOn(job[r].day)
      /\ job[r].names = SnappedOn(job[r].day) /\ job[r].names = patterns[job[r].day]
      /\ \A b \in Boards : job[r].top[b] \in TopOf(Candidates(b, job[r].day))
  BY <1>1, <1>2 DEF Alone
<1> QED
  BY <1>1, <1>3 DEF Report

\* What an execution that has been alone listed it reports: a coin of a leaderboard's
\* classes is on it unless it is full, and all are counted but for midnight and for
\* coins that were snapshotted the day before, whatever overlapping
\* executions left (run_daily_job reads the date after the ingest).
THEOREM ListedReachReport == Spec => []ListedAreReported
<1>1. AInv => ListedAreReported
  <2>. SUFFICES ASSUME AInv, NEW r \in lone, pc[r] = "prune",
                       Day(job[r].at) = job[r].day
                PROVE  \E p \in reports :
                         /\ p.day = job[r].day
                         /\ \A b \in Boards :
                              \/ {m \in job[r].listed : label[m] = b} \subseteq p.top[b]
                              \/ Cardinality(p.top[b]) = Top
                         /\ \A m \in job[r].listed \ p.scanned :
                              \E t \in snaps[m] : Day(t) < p.day
                                                /\ job[r].at < t + Stale
    BY DEF ListedAreReported
  <2>1. PICK p \in reports :
          /\ r \in Runs /\ Listed(r)
          /\ p.day = job[r].day /\ p.scanned = SnappedOn(job[r].day)
          /\ \A b \in Boards : p.top[b] \in TopOf(Candidates(b, job[r].day))
    BY LoneStores
  <2>2. job[r].listed \subseteq Mints /\ job[r].at \in Nat
    BY <2>1 DEF AInv, Types, Shaped
  <2>3. ASSUME NEW m \in job[r].listed \ p.scanned
        PROVE  \E t \in snaps[m] : Day(t) < p.day /\ job[r].at < t + Stale
    <3>1. PICK t \in snaps[m] : t <= job[r].at /\ job[r].at < t + Stale
      BY <2>1 DEF Listed
    <3>2. t \in Nat
      BY <2>2 DEF AInv, Types, Shaped
    <3>3. Day(t) <= job[r].day /\ Day(t) \in Nat /\ job[r].day \in Nat
      BY <2>2, <3>1, <3>2, DayGrows, DayIsNat
    <3>4. Day(t) # job[r].day
      BY <2>1, <2>2 DEF SnappedOn
    <3>5. QED
      BY <2>1, <3>1, <3>3, <3>4
  <2>4. ASSUME NEW b \in Boards
        PROVE  \/ {m \in job[r].listed : label[m] = b} \subseteq p.top[b]
               \/ Cardinality(p.top[b]) = Top
    <3>1. {m \in job[r].listed : label[m] = b} \subseteq Candidates(b, job[r].day)
      BY <2>1, <2>2 DEF Listed, Candidates
    <3>2. p.top[b] = Candidates(b, job[r].day) \/ Cardinality(p.top[b]) = Top
      BY <2>1 DEF TopOf
    <3> QED
      BY <3>1, <3>2
  <2>5. QED
    BY <2>1, <2>3, <2>4
<1>2. QED
  BY <1>1, AloneInvariant, PTL

\* The report, its patterns and the tokens agree when an execution that has
\* been alone has stored its report, whatever overlapping executions left in them
\* (_persist_winner_patterns deletes what it finds, persist_daily_report overwrites).
THEOREM LoneReportsAgree == Spec => []LoneRunAgrees
<1>1. AInv => LoneRunAgrees
  <2> SUFFICES ASSUME AInv, NEW r \in lone, pc[r] = "prune"
               PROVE  \E p \in reports :
                        /\ p.day = job[r].day /\ p.scanned = patterns[p.day]
                        /\ \A b \in Boards : p.top[b] \subseteq Candidates(b, p.day)
    BY DEF LoneRunAgrees
  <2>1. /\ Report(r) \in reports /\ Report(r).day = job[r].day
        /\ Report(r).scanned = patterns[job[r].day]
        /\ \A b \in Boards : Report(r).top[b] \in TopOf(Candidates(b, job[r].day))
    BY LoneStores
  <2>2. \A b \in Boards : Report(r).top[b] \subseteq Candidates(b, job[r].day)
    BY <2>1 DEF TopOf
  <2> QED
    BY <2>1, <2>2
<1> QED
  BY <1>1, AloneInvariant, PTL

-----------------------------------------------------------------------------
(* Nothing is invented *)

\* What an execution has read and not yet written is as true as the tables.
Held(r) ==
  /\ pc[r] \in Counted => SnappedOrOld(job[r].counted, job[r].day)
  /\ pc[r] \in Named => SnappedOrOld(job[r].names, job[r].day)
TInv == Types /\ ReportsAreTrue /\ \A r \in Runs : Held(r)

LEMMA DayBegins == ASSUME NEW t \in Nat PROVE Day(t) * DayLen <= t
  BY DailyReportAssumption DEF Day

\* No step takes a snapshot that the retention does not reach.
LEMMA SnapsAreKept ==
  ASSUME Types, [Next]_vars
  PROVE  /\ now \in Nat /\ now' \in Nat /\ now <= now'
         /\ \A m \in Mints : \A t \in snaps[m] : t \in snaps'[m] \/ t + SnapKeep < now'
<1>1. now \in Nat /\ snaps \in [Mints -> SUBSET Nat] /\ SnapKeep \in Nat
  BY DailyReportAssumption DEF Types, Shaped
<1>2. CASE Tick
  BY <1>1, <1>2 DEF Tick, tables
<1>3. ASSUME NEW r \in Runs, Ingest(r)
      PROVE  now' = now /\ \A m \in Mints : snaps[m] \subseteq snaps'[m]
  BY <1>3, IngestIs
<1>4. ASSUME NEW r \in Runs, Prune(r)
      PROVE  /\ now' = now
             /\ \A m \in Mints : \A t \in snaps[m] :
                  t \in snaps'[m] \/ t + SnapKeep < now'
  BY <1>1, <1>4 DEF Prune
<1>5. CASE UNCHANGED <<now, snaps>>
  BY <1>1, <1>5
<1>6. CASE \E r \in Runs : Ingest(r)
  BY <1>1, <1>3, <1>6
<1>7. CASE \E r \in Runs : Prune(r)
  BY <1>1, <1>4, <1>7
<1> QED
  BY <1>2, <1>5, <1>6, <1>7, SnapsStay

\* So what was true of some coins and a day stays true.
LEMMA TruthStays ==
  ASSUME Types, [Next]_vars, NEW C \in SUBSET Mints, NEW d \in Days, SnappedOrOld(C, d)
  PROVE  SnappedOrOld(C, d)'
<1>1. /\ now \in Nat /\ now' \in Nat /\ now <= now'
      /\ \A m \in Mints : \A t \in snaps[m] : t \in snaps'[m] \/ t + SnapKeep < now'
  BY SnapsAreKept
<1>2. /\ SnapKeep \in Nat /\ DayLen \in Nat /\ d \in Nat /\ d * DayLen \in Nat
      /\ snaps \in [Mints -> SUBSET Nat]
  BY DailyReportAssumption DEF Days, Types, Shaped
<1>3. ASSUME d * DayLen + SnapKeep >= now', NEW m \in C
      PROVE  \E t \in snaps'[m] : Day(t) = d
  <2>1. d * DayLen + SnapKeep >= now
    BY <1>1, <1>2, <1>3
  <2>2. PICK t \in snaps[m] : Day(t) = d
    BY <1>3, <2>1 DEF SnappedOrOld, SnappedOn
  <2>3. t \in Nat /\ d * DayLen <= t
    BY <1>2, <2>2, DayBegins
  <2>4. ~ (t + SnapKeep < now')
    BY <1>1, <1>2, <1>3, <2>3
  <2> QED
    BY <1>1, <2>2, <2>4
<1> QED
  BY <1>3 DEF SnappedOrOld, SnappedOn, Day

\* The tables, when every report and every pattern of the next state was stored
\* before or is what an execution holds.
LEMMA TablesStayTrue ==
  ASSUME TInv, [Next]_vars,
         \A p \in reports' : p \in reports \/ \E r \in Runs :
            pc[r] \in Named /\ p = Report(r),
         \A d \in Days : \/ patterns'[d] \subseteq patterns[d]
                         \/ \E r \in Runs :
                              /\ pc[r] \in Named /\ d = job[r].day
                              /\ patterns'[d] \subseteq patterns[d] \cup job[r].names
  PROVE  ReportsAreTrue'
<1>. USE DEF TInv
<1>1. /\ job \in [Runs -> Job] /\ reports \subseteq Stored
      /\ patterns' \in [Days -> SUBSET Mints]
  <2>1. Types'
    BY TypesNext
  <2> QED
    BY <2>1 DEF Types, Shaped, Job, Stored
<1>2. ASSUME NEW p \in reports'
      PROVE  SnappedOrOld(p.scanned, p.day)'
  <2>1. p.day \in Days /\ p.scanned \in SUBSET Mints /\ SnappedOrOld(p.scanned, p.day)
    <3>1. CASE p \in reports
      BY <1>1, <3>1 DEF ReportsAreTrue, Stored
    <3>2. ASSUME NEW r \in Runs, pc[r] \in Named, p = Report(r)
          PROVE  p.day \in Days /\ p.scanned \in SUBSET Mints /\ SnappedOrOld(p.scanned, p.day)
      <4>1. job[r] \in Job /\ Held(r) /\ pc[r] \in Counted
        BY <1>1, <3>2 DEF Counted, Ranked
      <4>2. p.day = job[r].day /\ p.scanned = job[r].counted
        BY <3>2 DEF Report
      <4> QED
        BY <4>1, <4>2 DEF Held, Job
    <3> QED
      BY <3>1, <3>2
  <2>2. PICK C \in SUBSET Mints, d \in Days : C = p.scanned /\ d = p.day
    BY <2>1
  <2>3. SnappedOrOld(C, d)'
    BY <2>1, <2>2, TruthStays
  <2> QED
    BY <2>2, <2>3 DEF SnappedOrOld
<1>3. ASSUME NEW d \in Days
      PROVE  SnappedOrOld(patterns[d], d)'
  <2>1. SnappedOrOld(patterns'[d], d)
    <3>1. CASE patterns'[d] \subseteq patterns[d]
      BY <3>1 DEF ReportsAreTrue, SnappedOrOld
    <3>2. ASSUME NEW r \in Runs, pc[r] \in Named, d = job[r].day,
                 patterns'[d] \subseteq patterns[d] \cup job[r].names
          PROVE  SnappedOrOld(patterns'[d], d)
      <4>1. SnappedOrOld(job[r].names, d) /\ SnappedOrOld(patterns[d], d)
        BY <3>2 DEF ReportsAreTrue, Held
      <4> QED
        BY <3>2, <4>1 DEF SnappedOrOld
    <3> QED
      BY <3>1, <3>2
  <2>2. PICK C \in SUBSET Mints : C = patterns'[d]
    BY <1>1
  <2>3. SnappedOrOld(C, d)'
    BY <2>1, <2>2, TruthStays
  <2> QED
    BY <2>2, <2>3 DEF SnappedOrOld
<1> QED
  BY <1>2, <1>3 DEF ReportsAreTrue

\* What an execution has just read of the snapshots is true, and what it holds stays
\* so.
LEMMA HeldStays ==
  ASSUME TInv, [Next]_vars, NEW r \in Runs,
         pc'[r] \in Counted => job'[r].day = job[r].day,
         pc'[r] \in Counted =>
           \/ pc[r] \in Counted /\ job'[r].counted = job[r].counted
           \/ snaps' = snaps /\ job'[r].counted = SnappedOn(job[r].day),
         pc'[r] \in Named =>
           \/ pc[r] \in Named /\ job'[r].names = job[r].names
           \/ snaps' = snaps /\ job'[r].names = SnappedOn(job[r].day)
  PROVE  Held(r)'
<1>1. job[r] \in Job /\ Held(r) /\ Types
  BY DEF TInv, Types, Shaped, Job
<1>2. PICK C \in SUBSET Mints, N \in SUBSET Mints, d \in Days :
        C = job[r].counted /\ N = job[r].names /\ d = job[r].day
  BY <1>1 DEF Job
<1>3. snaps' = snaps => SnappedOn(d)' = SnappedOn(d)
  BY DEF SnappedOn, Day
<1>4. /\ SnappedOrOld(C, d) => SnappedOrOld(C, d)'
      /\ SnappedOrOld(N, d) => SnappedOrOld(N, d)'
  BY <1>1, TruthStays
<1>5. ASSUME pc'[r] \in Counted PROVE SnappedOrOld(job[r].counted, job[r].day)'
  <2>1. job'[r].day = d
    BY <1>2, <1>5
  <2>2. CASE pc[r] \in Counted /\ job'[r].counted = job[r].counted
    BY <1>1, <1>2, <1>4, <2>1, <2>2 DEF Held, SnappedOrOld
  <2>3. CASE snaps' = snaps /\ job'[r].counted = SnappedOn(job[r].day)
    BY <1>2, <1>3, <2>1, <2>3 DEF SnappedOrOld
  <2> QED
    BY <1>5, <2>2, <2>3
<1>6. ASSUME pc'[r] \in Named PROVE SnappedOrOld(job[r].names, job[r].day)'
  <2>1. job'[r].day = d
    BY <1>2, <1>6 DEF Counted, Ranked
  <2>2. CASE pc[r] \in Named /\ job'[r].names = job[r].names
    BY <1>1, <1>2, <1>4, <2>1, <2>2 DEF Held, SnappedOrOld
  <2>3. CASE snaps' = snaps /\ job'[r].names = SnappedOn(job[r].day)
    BY <1>2, <1>3, <2>1, <2>3 DEF SnappedOrOld
  <2> QED
    BY <1>6, <2>2, <2>3
<1> QED
  BY <1>5, <1>6 DEF Held

\* A step of one execution is none of another's, but for rows that the commit of the
\* patterns takes from its DELETE.
LEMMA OthersStay ==
  ASSUME Types, NEW r \in Runs, Start(r) \/ Proceed(r) \/ Error(r) \/ Crash(r),
         NEW s \in Runs \ {r}
  PROVE  /\ pc'[s] = pc[s] /\ attempt'[s] = attempt[s]
         /\ job'[s].day = job[s].day /\ job'[s].counted = job[s].counted
         /\ job'[s].names = job[s].names
<1>1. pc \in [Runs -> Phases] /\ attempt \in [Runs -> Nat \ {0}]
  BY DEF Types, Shaped
<1>2. CASE Start(r)
  BY <1>1, <1>2 DEF Start, Goto
<1>3. CASE Fetch(r) \/ DateReport(r) \/ CountCoins(r)
  BY <1>1, <1>3, FetchIs, DateIs, CountIs
<1>4. CASE RankTop(r) \/ ReadNames(r) \/ DeletePatterns(r)
  BY <1>1, <1>4, RankIs, NamesIs, DeleteIs
<1>5. CASE Ingest(r) \/ Analyze(r) \/ PersistReport(r)
  BY <1>1, <1>5, IngestIs, AnalyzeIs, PersistIs
<1>6. CASE CommitPatterns(r)
  BY <1>1, <1>6, CommitIs
<1>7. CASE Ended(r)
  BY <1>1, <1>7 DEF Ended, Goto
<1>8. CASE Error(r)
  <2>1. CASE attempt[r] < Budget[r]
    <3>1. pc' = [pc EXCEPT ![r] = "fetch"] /\ job'[s] = job[s]
      BY <1>8, <2>1, ErrorIs
    <3>2. attempt' = [attempt EXCEPT ![r] = @ + 1]
      BY <1>8, <2>1 DEF Error
    <3> QED
      BY <1>1, <3>1, <3>2
  <2>2. CASE ~(attempt[r] < Budget[r])
    BY <1>7, <1>8, <2>2 DEF Error
  <2> QED
    BY <2>1, <2>2
<1>9. Prune(r) \/ Crash(r) => Ended(r)
  BY DEF Prune, Crash
<1> QED
  BY <1>2, <1>3, <1>4, <1>5, <1>6, <1>7, <1>8, <1>9 DEF Proceed

\* An execution's own step reads the day's snapshots or keeps what it has read.
LEMMA OwnHeld ==
  ASSUME TInv, [Next]_vars, NEW r \in Runs,
         Start(r) \/ Proceed(r) \/ Error(r) \/ Crash(r)
  PROVE  Held(r)'
<1>1. Types /\ pc \in [Runs -> Phases]
  BY DEF TInv, Types, Shaped
<1>. USE DEF Counted, Ranked, Named, Boards
<1>2. CASE Start(r) \/ Error(r) \/ Crash(r) \/ Prune(r)
  <2>1. pc'[r] \in {"fetch", "idle"}
    BY <1>1, <1>2 DEF Start, Error, Crash, Prune, Ended, Goto
  <2> QED
    BY <2>1 DEF Held
<1>3. CASE Fetch(r) \/ Ingest(r) \/ DateReport(r) \/ Analyze(r)
  <2>1. pc'[r] \in {"ingest", "date", "analyze", "count"}
    BY <1>1, <1>3, FetchIs, IngestIs, DateIs, AnalyzeIs
  <2> QED
    BY <2>1 DEF Held
<1>4. CASE CountCoins(r)
  <2>1. /\ pc'[r] = "winners" /\ snaps' = snaps /\ job'[r].day = job[r].day
        /\ job'[r].counted = SnappedOn(job[r].day)
    BY <1>1, <1>4, CountIs DEF tables
  <2> QED
    BY <2>1, HeldStays
<1>5. CASE RankTop(r)
  <2>1. /\ pc[r] \in Boards /\ pc'[r] \in {"rugs", "names"}
        /\ job'[r].day = job[r].day /\ job'[r].counted = job[r].counted
    BY <1>1, <1>5, RankIs
  <2> QED
    BY <2>1, HeldStays
<1>6. CASE ReadNames(r)
  <2>1. /\ pc[r] = "names" /\ pc'[r] = "delete" /\ snaps' = snaps
        /\ job'[r].day = job[r].day /\ job'[r].counted = job[r].counted
        /\ job'[r].names = SnappedOn(job[r].day)
    BY <1>1, <1>6, NamesIs DEF tables
  <2> QED
    BY <2>1, HeldStays
<1>7. CASE DeletePatterns(r) \/ CommitPatterns(r) \/ PersistReport(r)
  <2>1. /\ pc[r] \in Named /\ job'[r].day = job[r].day
        /\ job'[r].counted = job[r].counted /\ job'[r].names = job[r].names
    BY <1>1, <1>7, DeleteIs, CommitIs, PersistIs
  <2> QED
    BY <2>1, HeldStays
<1> QED
  BY <1>2, <1>3, <1>4, <1>5, <1>6, <1>7 DEF Proceed

LEMMA TrueNext == TInv /\ [Next]_vars => TInv'
<1> SUFFICES ASSUME TInv, [Next]_vars PROVE TInv'
  OBVIOUS
<1>1. Types /\ Types' /\ patterns \in [Days -> SUBSET Mints]
  BY TypesNext DEF TInv, Types, Shaped
<1>2. \A s \in Runs : Held(s)'
  <2>1. ASSUME NEW r \in Runs, Start(r) \/ Proceed(r) \/ Error(r) \/ Crash(r),
               NEW s \in Runs \ {r}
        PROVE  Held(s)'
    BY <1>1, <2>1, OthersStay, HeldStays
  <2>2. CASE Tick \/ UNCHANGED vars
    <3>1. UNCHANGED <<pc, job>>
      BY <2>2 DEF Tick, vars
    <3> QED
      BY <3>1, HeldStays
  <2> QED
    BY <2>1, <2>2, OwnHeld DEF Next
<1>3. ReportsAreTrue'
  <2>1. ASSUME NEW r \in Runs, CommitPatterns(r) PROVE ReportsAreTrue'
    <3>1. /\ reports' = reports /\ pc[r] \in Named
          /\ patterns' = [patterns EXCEPT ![job[r].day] =
                            (patterns[job[r].day] \ job[r].gone) \cup job[r].names]
      BY <1>1, <2>1, CommitIs DEF Named
    <3>2. ASSUME NEW d \in Days
          PROVE  \/ patterns'[d] \subseteq patterns[d]
                 \/ d = job[r].day /\ patterns'[d] \subseteq patterns[d] \cup job[r].names
      BY <1>1, <3>1
    <3> QED
      BY <3>1, <3>2, TablesStayTrue
  <2>2. ASSUME NEW r \in Runs, PersistReport(r) PROVE ReportsAreTrue'
    <3>1. /\ patterns' = patterns /\ pc[r] \in Named
          /\ \A p \in reports' : p \in reports \/ p = Report(r)
      BY <1>1, <2>2, PersistIs DEF Named
    <3> QED
      BY <3>1, TablesStayTrue
  <2>3. ASSUME NEW r \in Runs, Prune(r) PROVE ReportsAreTrue'
    <3>1. /\ \A d \in Days : patterns'[d] \subseteq patterns[d]
          /\ reports' \subseteq reports
      BY <2>3 DEF Prune
    <3> QED
      BY <3>1, TablesStayTrue
  <2>4. CASE UNCHANGED <<patterns, reports>>
    BY <2>4, TablesStayTrue
  <2> QED
    BY <2>1, <2>2, <2>3, <2>4, Stores
<1> QED
  BY <1>1, <1>2, <1>3 DEF TInv

LEMMA TrueInit == Init => TInv
<1> SUFFICES ASSUME Init PROVE TInv
  OBVIOUS
<1>1. Types
  BY TypesInit
<1>2. ReportsAreTrue
  BY DEF Init, ReportsAreTrue, SnappedOrOld
<1> QED
  BY <1>1, <1>2 DEF Init, TInv, Held, Counted, Ranked, Named, Boards

\* A report and the patterns count only coins that were there: whatever
\* executions overlap, fail and commit what they read long ago (no execution reads
\* a row before it is committed, and none writes what it has not read).
THEOREM NothingInvented == Spec => []ReportsAreTrue
<1>1. TInv => ReportsAreTrue
  BY DEF TInv
<1> QED
  BY <1>1, TrueInit, TrueNext, PTL DEF Spec

-----------------------------------------------------------------------------
(* How many steps an execution can still take *)

Stage(p) == CASE p = "fetch" -> 12 [] p = "ingest" -> 11 [] p = "date" -> 10
              [] p = "analyze" -> 9 [] p = "count" -> 8 [] p = "winners" -> 7
              [] p = "rugs" -> 6 [] p = "names" -> 5 [] p = "delete" -> 4
              [] p = "upsert" -> 3 [] p = "persist" -> 2 [] p = "prune" -> 1
              [] OTHER -> 0
StepsLeft(r) == IF pc[r] = "idle" THEN 0
                ELSE 12 * (Budget[r] - attempt[r]) + Stage(pc[r])

\* A step of an execution that has begun uses it up; the others' steps leave it.
Advances ==
  \A r \in Runs : pc[r] # "idle" =>
    StepsLeft(r)' < StepsLeft(r) \/ UNCHANGED <<pc[r], attempt[r]>>

LEMMA StepsLeftIs ==
  ASSUME Types, NEW r \in Runs
  PROVE  /\ StepsLeft(r) \in 0 .. 12 * Budget[r]
         /\ pc[r] # "idle" => StepsLeft(r) > 0
<1>1. Stage(pc[r]) \in 0 .. 12 /\ (pc[r] # "idle" => Stage(pc[r]) > 0)
  BY DEF Types, Shaped, Phases, Boards, Stage
<1>2. /\ attempt[r] \in Nat \ {0} /\ Budget[r] \in Nat \ {0}
      /\ attempt[r] <= Budget[r]
  BY DailyReportAssumption DEF Types, Shaped
<1> QED
  BY <1>1, <1>2 DEF StepsLeft

LEMMA StepAdvances == Types /\ [Next]_vars => Advances
<1> SUFFICES ASSUME Types, [Next]_vars, NEW r \in Runs, pc[r] # "idle"
             PROVE  StepsLeft(r)' < StepsLeft(r) \/ UNCHANGED <<pc[r], attempt[r]>>
  BY DEF Advances
<1>1. /\ pc \in [Runs -> Phases] /\ attempt \in [Runs -> Nat \ {0}]
      /\ attempt[r] \in Nat \ {0} /\ Budget[r] \in Nat \ {0}
      /\ attempt[r] <= Budget[r]
  BY DailyReportAssumption DEF Types, Shaped
<1>2. StepsLeft(r) = 12 * (Budget[r] - attempt[r]) + Stage(pc[r])
  BY DEF StepsLeft
<1>s. Stage(pc[r]) \in 1 .. 12
  BY <1>1 DEF Phases, Boards, Stage
<1>3. CASE Tick \/ UNCHANGED vars
  BY <1>3 DEF Tick, vars
<1>4. ASSUME NEW s \in Runs \ {r}, Start(s) \/ Proceed(s) \/ Error(s) \/ Crash(s)
      PROVE  UNCHANGED <<pc[r], attempt[r]>>
  BY <1>4, OthersStay
<1>5. ASSUME attempt'[r] = attempt[r], Stage(pc'[r]) = Stage(pc[r]) - 1
      PROVE  StepsLeft(r)' < StepsLeft(r)
  <2>1. StepsLeft(r)' = 0 \/ StepsLeft(r)' = 12 * (Budget[r] - attempt[r]) + Stage(pc[r]) - 1
    BY <1>1, <1>s, <1>5 DEF StepsLeft
  <2> QED
    BY <1>1, <1>2, <1>s, <2>1
<1>6. CASE Proceed(r) /\ ~ Prune(r)
  <2>1. CASE Fetch(r) \/ Ingest(r) \/ DateReport(r) \/ Analyze(r)
    <3>1. /\ attempt' = attempt
          /\ \/ pc[r] = "fetch" /\ pc'[r] = "ingest"
             \/ pc[r] = "ingest" /\ pc'[r] = "date"
             \/ pc[r] = "date" /\ pc'[r] = "analyze"
             \/ pc[r] = "analyze" /\ pc'[r] = "count"
      BY <1>1, <2>1, FetchIs, IngestIs, DateIs, AnalyzeIs
    <3> QED
      BY <1>5, <3>1 DEF Stage
  <2>2. CASE CountCoins(r) \/ RankTop(r) \/ ReadNames(r)
    <3>1. /\ attempt' = attempt
          /\ \/ pc[r] = "count" /\ pc'[r] = "winners"
             \/ pc[r] = "winners" /\ pc'[r] = "rugs"
             \/ pc[r] = "rugs" /\ pc'[r] = "names"
             \/ pc[r] = "names" /\ pc'[r] = "delete"
      BY <1>1, <2>2, CountIs, RankIs, NamesIs DEF Boards
    <3> QED
      BY <1>5, <3>1 DEF Stage
  <2>3. CASE DeletePatterns(r) \/ CommitPatterns(r) \/ PersistReport(r)
    <3>1. /\ attempt' = attempt
          /\ \/ pc[r] = "delete" /\ pc'[r] = "upsert"
             \/ pc[r] = "upsert" /\ pc'[r] = "persist"
             \/ pc[r] = "persist" /\ pc'[r] = "prune"
      BY <1>1, <2>3, DeleteIs, CommitIs, PersistIs
    <3> QED
      BY <1>5, <3>1 DEF Stage
  <2> QED
    BY <1>6, <2>1, <2>2, <2>3 DEF Proceed
<1>7. CASE Ended(r)
  <2>1. pc'[r] = "idle"
    BY <1>1, <1>7 DEF Ended, Goto
  <2>2. StepsLeft(r)' = 0
    BY <2>1 DEF StepsLeft
  <2> QED
    BY <1>1, <1>2, <1>s, <2>2
<1>8. CASE Error(r) /\ attempt[r] < Budget[r]
  <2>1. pc'[r] = "fetch" /\ attempt'[r] = attempt[r] + 1
    BY <1>1, <1>8 DEF Error, Goto
  <2>2. Stage(pc'[r]) = 12
    BY <2>1 DEF Stage
  <2>3. StepsLeft(r)' = 12 * (Budget[r] - (attempt[r] + 1)) + 12
    BY <2>1, <2>2 DEF StepsLeft
  <2> QED
    BY <1>1, <1>2, <1>s, <2>3
<1>9. ~ Start(r)
  BY DEF Start
<1>10. Prune(r) \/ Crash(r) \/ (Error(r) /\ ~ (attempt[r] < Budget[r])) => Ended(r)
  BY DEF Prune, Crash, Error
<1> QED
  BY <1>3, <1>4, <1>6, <1>7, <1>8, <1>9, <1>10 DEF Next, Proceed

\* No execution goes on for ever: each of its steps, also a failure and the attempt
\* after it, lowers a number that begins at twelve times its attempts, and the
\* others' steps do not raise it.  Fairness has only to say that it takes them.
THEOREM EveryStepCounts == Spec => [][Advances]_vars
<1>1. Spec => []Types
  BY TypesInit, TypesNext, PTL DEF Spec
<1> QED
  BY <1>1, StepAdvances, PTL DEF Spec
=============================================================================
