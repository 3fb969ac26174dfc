------------------------------ MODULE Scheduler ------------------------------
(***************************************************************************)
(* The long-running process (scheduler.py): APScheduler fires _run_job from *)
(* two jobs, the daily cron tick and a catchup scheduled at startup; each   *)
(* runs in a thread of its own and retries after 1, 5 and 15 minutes.       *)
(* SIGTERM waits for the threads, docker-compose kills after 5 minutes, and *)
(* the container may crash and be restarted at any time.  healthcheck.py    *)
(* looks at the age of the newest report.                                   *)
(*                                                                          *)
(* Time is discrete; an urgent action is one that Tick waits for.  What an  *)
(* attempt does to the database is in the other modules: here it stores a   *)
(* report, or fails before or after it.                                     *)
(***************************************************************************)
EXTENDS Integers, Sequences, FiniteSets

CONSTANTS
  Delays,        \* _JOB_RETRY_DELAYS_S
  Period,        \* from one cron tick to the next
  CatchupAfter,  \* 30 s from startup to the catchup
  Grace,         \* misfire_grace_time of each job
  DayAge,        \* the 24 hours of _should_run_at_startup
  MaxAge,        \* healthcheck_max_age_hours
  StopGrace,     \* stop_grace_period of the container
  MaxRun,        \* the longest attempt
  Lag,           \* how late the scheduler's thread may wake up
  MayFail,       \* how many attempts of one run may fail
  MaxNow,        \* bound on the clock
  Never          \* no such time

JobIds == {"daily", "catchup"}

ASSUME SchedulerAssumption ==
  /\ Delays \in Seq(Nat)
  /\ Period \in Nat \ {0}
  /\ {CatchupAfter, DayAge, MaxAge, StopGrace, MaxRun} \subseteq Nat
  /\ {Lag, MayFail, MaxNow} \subseteq Nat
  /\ Grace \in [JobIds -> Nat] /\ \A j \in JobIds : Lag <= Grace[j]
  /\ MaxRun < StopGrace
  /\ Never \notin Nat

VARIABLES
  now,           \* the clock
  proc,          \* the process: down, up, or stopping after SIGTERM
  since,         \* when proc last changed
  due,           \* next_run_time of each job, or Never
  task,          \* the thread of each job: max_instances = 1
  report,        \* the newest daily_market_reports.generated_at, or Never
  killed         \* the threads that the last stop has killed

vars == <<now, proc, since, due, task, report, killed>>

Attempts == Len(Delays) + 1
Idle == [phase |-> "none", n |-> 0, at |-> 0]
\* An attempt that began, or a wait for the next one that began, at time t.
Thread(phase, n, t) == [phase |-> phase, n |-> n, at |-> t]

Alive(j) == task[j].phase # "none"
AtWork(j) == task[j].phase \in {"running", "written"}
Asleep(j) == task[j].phase = "sleeping"
NothingDue == [j \in JobIds |-> Never]
NoThreads == [j \in JobIds |-> Idle]

\* CronTrigger: the ticks are the positive multiples of Period.
LastTick(t) == (t \div Period) * Period
NextTick(t) == LastTick(t) + Period

Init ==
  /\ now = 0
  /\ proc = "down"
  /\ since = 0
  /\ due = NothingDue
  /\ task = NoThreads
  /\ report = Never
  /\ killed = {}

\* Time passes unless an attempt must end, a sleep is over, the scheduler's
\* thread must wake up or a stop expires.
Tick ==
  /\ now < MaxNow
  /\ \A j \in JobIds :
       /\ AtWork(j) => now < task[j].at + MaxRun
       /\ Asleep(j) => now < task[j].at + Delays[task[j].n]
       /\ due[j] # Never => now < due[j] + Lag
  /\ proc = "stopping" => now < since + StopGrace
  /\ now' = now + 1
  /\ UNCHANGED <<proc, since, due, task, report, killed>>

-----------------------------------------------------------------------------
(* The process *)

\* Slip: "skipping catchup" when there is no age to compare.
CatchupIfOld(reachable) ==
  reachable /\ report # Never /\ now - report > DayAge

\* _should_run_at_startup: no report, no database, or a report over a day old.
ShouldRunAtStartup(reachable) ==
  \/ ~ reachable
  \/ report = Never
  \/ now - report > DayAge

\* run_forever; the database may be out of reach at this moment.
Boot ==
  /\ proc = "down"
  /\ proc' = "up" /\ since' = now
  /\ \E reachable \in BOOLEAN :
       due' = [j \in JobIds |->
                 IF j = "daily" THEN NextTick(now)
                 ELSE IF ShouldRunAtStartup(reachable) THEN now + CatchupAfter
                 ELSE Never]
  /\ killed' = {}
  /\ UNCHANGED <<now, task, report>>

\* The executor takes a run unless the job has an instance running or the run
\* is older than the misfire grace time.
Accepts(j, fire) == task[j] = Idle /\ now - fire <= Grace[j]

\* The scheduler's thread finds j due; missed ticks coalesce into the last one.
Dispatch(j) ==
  /\ proc = "up"
  /\ due[j] # Never /\ due[j] <= now
  /\ LET fire == IF j = "daily" THEN LastTick(now) ELSE due[j] IN
       task' = IF Accepts(j, fire)
                 THEN [task EXCEPT ![j] = Thread("running", 1, now)] ELSE task
  /\ due' = [due EXCEPT ![j] = IF j = "daily" THEN NextTick(now) ELSE Never]
  /\ UNCHANGED <<now, proc, since, report, killed>>

\* Slip: the scheduler is left running while it waits for the threads.
StopWaiting ==
  /\ proc = "up"
  /\ proc' = "stopping" /\ since' = now
  /\ UNCHANGED <<now, due, task, report, killed>>

\* SIGTERM: scheduler.shutdown(wait=True) fires nothing more and waits.
GracefulStop ==
  /\ proc = "up"
  /\ proc' = "stopping" /\ since' = now
  /\ due' = NothingDue
  /\ UNCHANGED <<now, task, report, killed>>

Gone ==
  /\ proc' = "down" /\ since' = now
  /\ due' = NothingDue
  /\ task' = NoThreads

\* The threads have ended and run_forever returns.
Stopped ==
  /\ proc = "stopping" /\ task = NoThreads
  /\ Gone
  /\ UNCHANGED <<now, report, killed>>

\* Slip: shutdown(wait=False).
KillAtOnce ==
  /\ proc = "stopping" /\ task # NoThreads
  /\ Gone
  /\ killed' = {task[j] : j \in {i \in JobIds : Alive(i)}}
  /\ UNCHANGED <<now, report>>

\* The stop's grace period is over: SIGKILL.
Kill ==
  /\ proc = "stopping" /\ task # NoThreads
  /\ now = since + StopGrace
  /\ Gone
  /\ killed' = {task[j] : j \in {i \in JobIds : Alive(i)}}
  /\ UNCHANGED <<now, report>>

\* A crash or an out-of-memory kill; the container comes back with Boot.
Crash ==
  /\ proc # "down"
  /\ Gone
  /\ UNCHANGED <<now, report, killed>>

-----------------------------------------------------------------------------
(* The thread of a job: _run_job *)

Becomes(j, thread) ==
  /\ task' = [task EXCEPT ![j] = thread]
  /\ UNCHANGED <<now, proc, since, due, killed>>

\* run_daily_job stores its report ...
Writes(j) ==
  /\ task[j].phase = "running"
  /\ Becomes(j, [task[j] EXCEPT !.phase = "written"])
  /\ report' = now

\* ... and returns, after the prune.
Returns(j) ==
  /\ task[j].phase = "written"
  /\ Becomes(j, Idle)
  /\ UNCHANGED report

\* Slip: the except clause logs and returns.
GivesUp(j) ==
  /\ AtWork(j) /\ task[j].n <= MayFail
  /\ Becomes(j, Idle)
  /\ UNCHANGED report

\* It raises, before or after its report: sleep, or give up.
Fails(j) ==
  /\ AtWork(j) /\ task[j].n <= MayFail
  /\ Becomes(j, IF task[j].n >= Attempts THEN Idle
                ELSE Thread("sleeping", task[j].n, now))
  /\ UNCHANGED report

\* The sleep is over: the next attempt, also when the process is stopping.
Retries(j) ==
  /\ Asleep(j)
  /\ now = task[j].at + Delays[task[j].n]
  /\ Becomes(j, Thread("running", task[j].n + 1, now))
  /\ UNCHANGED report

Next ==
  \/ Tick
  \/ Boot \/ GracefulStop \/ Stopped \/ Kill \/ Crash
  \/ \E j \in JobIds :
       \/ Dispatch(j)
       \/ Writes(j) \/ Returns(j) \/ Fails(j) \/ Retries(j)

Spec == Init /\ [][Next]_vars

-----------------------------------------------------------------------------
(* Properties *)

\* Every variable has the values the code gives it; a thread is in its first
\* attempt or one of the retries, and only a process that is up has anything due.
ThreadOK(th) ==
  \/ th = Idle
  \/ /\ th.phase \in {"running", "written"} /\ th.n \in 1 .. Attempts
     /\ th.at \in 0 .. now
  \/ /\ th.phase = "sleeping" /\ th.n \in 1 .. Len(Delays)
     /\ th.at \in 0 .. now
TypeOK ==
  /\ now \in Nat
  /\ proc \in {"down", "up", "stopping"}
  /\ since \in 0 .. now
  /\ due \in [JobIds -> Nat \cup {Never}]
  /\ \A j \in JobIds : due[j] # Never => proc = "up"
  /\ task \in [JobIds -> [phase : {"none", "running", "written", "sleeping"},
                          n : Nat, at : Nat]]
  /\ \A j \in JobIds : ThreadOK(task[j])
  /\ proc = "down" => task = NoThreads
  /\ report \in 0 .. now \cup {Never}
  /\ killed \subseteq [phase : {"running", "written", "sleeping"},
                       n : 1 .. Attempts, at : Nat]

SumTo[n \in 0 .. Len(Delays)] ==
  IF n = 0 THEN 0 ELSE SumTo[n - 1] + Delays[n]
\* The longest that _run_job can take.
LongestRun == Attempts * MaxRun + SumTo[Len(Delays)]

\* "A single transient HTTP/DB blip should not cost an entire day's report"
\* (_run_job): as long as one attempt of each run works, a process that has been
\* up for a cron period and a run has a report no older than that, whatever was
\* retried, woken late, dropped because its instance was still running, stopped
\* or killed before.  MaxRun is for a run that writes its report, fails in the
\* prune, and makes the next tick's run be dropped.
DailyReportKept ==
  LET bound == Period + Lag + LongestRun + MaxRun IN
  proc = "up" /\ since + bound < now =>
    report # Never /\ now <= report + bound

\* A restart repairs a missed day: once a catchup has had the time to run, there
\* is a report that at startup was not a day old, or a newer one
\* (_should_run_at_startup).
CatchupServes ==
  proc = "up" /\ since + CatchupAfter + Lag + LongestRun < now =>
    report # Never /\ since <= report + DayAge

\* shutdown(wait=True) and the stop's grace period let an attempt finish: the
\* only runs ever killed by a stop are those whose first attempt had failed.
StopSparesFirstAttempts == \A th \in killed : th.n > 1 \/ th.phase = "sleeping"

\* "Single-flight: ... A long-running job will not be doubled up by the next
\* tick" (README.md:174).
SingleFlight == \A i, j \in JobIds : Alive(i) /\ Alive(j) => i = j

\* "Give the scheduler enough time on SIGTERM to let an in-flight daily run
\* finish writing" (docker-compose.yml:65): no attempt dies of a stop.
StopSparesAttempts == \A th \in killed : th.phase = "sleeping"

\* run_healthcheck.
Healthy(reachable) ==
  /\ reachable
  /\ report # Never => now - report <= MaxAge
=============================================================================
