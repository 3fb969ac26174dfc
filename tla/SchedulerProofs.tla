--------------------------- MODULE SchedulerProofs ---------------------------
(***************************************************************************)
(* What the scheduler promises, for every retry schedule, cron period,      *)
(* grace time and lag.  IInv: a stop never kills a run in its first         *)
(* attempt.  KInv: a process that is up keeps a recent report, and a        *)
(* restart repairs a missed day; the bounds are sums over the retry delays, *)
(* so the lemmas before it say what the recursive function SumTo computes.  *)
(***************************************************************************)
EXTENDS Scheduler, WellFoundedInduction, TLAPS

WorkIsBounded == \A j \in JobIds : AtWork(j) => now <= task[j].at + MaxRun

NoFirstAttemptWhileStopping ==
  proc = "stopping" =>
    \A j \in JobIds : AtWork(j) /\ task[j].n = 1 => task[j].at <= since

IInv ==
  /\ TypeOK
  /\ WorkIsBounded
  /\ NoFirstAttemptWhileStopping
  /\ StopSparesFirstAttempts

\* Facts on the constants used everywhere.
LEMMA Constants ==
  /\ Attempts \in Nat /\ Attempts = Len(Delays) + 1
  /\ MaxRun \in Nat /\ StopGrace \in Nat /\ MaxRun < StopGrace
  /\ MaxNow \in Nat /\ CatchupAfter \in Nat
  /\ Never \notin Nat
  /\ \A n \in 1 .. Len(Delays) : Delays[n] \in Nat
BY SchedulerAssumption DEF SchedulerAssumption, Attempts

\* The next tick of the cron trigger is a time.
LEMMA NextTickInNat == \A t \in Nat : NextTick(t) \in Nat
<1> SUFFICES ASSUME NEW t \in Nat PROVE NextTick(t) \in Nat
  OBVIOUS
<1>1. Period \in Nat /\ Period > 0
  BY SchedulerAssumption DEF SchedulerAssumption
<1>2. t \div Period \in Nat
  BY <1>1
<1>3. (t \div Period) * Period \in Nat
  BY <1>1, <1>2
<1> QED
  BY <1>1, <1>3 DEF NextTick, LastTick

LEMMA InitEstablishes == Init => IInv
BY DEF Init, IInv, TypeOK, WorkIsBounded, NoFirstAttemptWhileStopping,
       StopSparesFirstAttempts, NothingDue, NoThreads, Idle, JobIds, ThreadOK,
       AtWork

\* A step of one thread: what it must leave true of that thread.
LEMMA ThreadStep ==
  ASSUME IInv, NEW j \in JobIds, NEW th, Becomes(j, th),
         th \in [phase : {"none", "running", "written", "sleeping"},
                 n : Nat, at : Nat],
         ThreadOK(th),
         proc # "down",
         th.phase \in {"running", "written"} =>
           /\ now <= th.at + MaxRun
           /\ th.n = 1 /\ proc = "stopping" => th.at <= since,
         report' \in {report, now}
  PROVE  IInv'
<1>1. /\ task' = [task EXCEPT ![j] = th]
      /\ UNCHANGED <<now, proc, since, due, killed>>
  BY DEF Becomes
<1>2. \A i \in JobIds : task'[i] = IF i = j THEN th ELSE task[i]
  BY <1>1 DEF IInv, TypeOK
<1>3. TypeOK'
  BY <1>1, <1>2 DEF IInv, TypeOK, ThreadOK, Idle
<1>4. WorkIsBounded'
  BY <1>1, <1>2 DEF IInv, WorkIsBounded, AtWork
<1>5. NoFirstAttemptWhileStopping'
  BY <1>1, <1>2 DEF IInv, NoFirstAttemptWhileStopping, AtWork
<1>6. StopSparesFirstAttempts'
  BY <1>1 DEF IInv, StopSparesFirstAttempts
<1> QED
  BY <1>3, <1>4, <1>5, <1>6 DEF IInv

\* What the invariant says of one thread.
LEMMA AliveThread ==
  ASSUME IInv, NEW j \in JobIds, Alive(j)
  PROVE  /\ proc # "down"
         /\ task[j].n \in 1 .. Attempts /\ task[j].at \in 0 .. now
         /\ Asleep(j) => task[j].n \in 1 .. Len(Delays)
         /\ task[j].phase \in {"running", "written", "sleeping"}
         /\ now \in Nat
<1>1. ThreadOK(task[j]) /\ task[j] # Idle
  BY DEF IInv, TypeOK, Alive, Idle
<1> QED
  BY <1>1, Constants DEF IInv, TypeOK, ThreadOK, NoThreads, Alive, Idle, Asleep

LEMMA WritesPreserves == ASSUME IInv, NEW j \in JobIds, Writes(j) PROVE IInv'
<1> DEFINE th == [task[j] EXCEPT !.phase = "written"]
<1>1. Alive(j) /\ AtWork(j)
  BY DEF Writes, Alive, AtWork
<1>2. /\ th \in [phase : {"none", "running", "written", "sleeping"},
                 n : Nat, at : Nat]
      /\ th.phase = "written" /\ th.n = task[j].n /\ th.at = task[j].at
  BY DEF IInv, TypeOK
<1>3. ThreadOK(th)
  BY <1>1, <1>2, AliveThread DEF ThreadOK
<1>4. /\ now <= th.at + MaxRun
      /\ th.n = 1 /\ proc = "stopping" => th.at <= since
  BY <1>1, <1>2 DEF IInv, WorkIsBounded, NoFirstAttemptWhileStopping
<1>5. proc # "down"
  BY <1>1, AliveThread
<1>6. Becomes(j, th) /\ report' = now
  BY DEF Writes
<1> HIDE DEF th
<1> QED
  BY <1>2, <1>3, <1>4, <1>5, <1>6, ThreadStep

\* An end of the thread.
LEMMA EndStep ==
  ASSUME IInv, NEW j \in JobIds, Alive(j), Becomes(j, Idle), UNCHANGED report
  PROVE  IInv'
<1>1. proc # "down"
  BY AliveThread
<1>2. /\ Idle \in [phase : {"none", "running", "written", "sleeping"},
                   n : Nat, at : Nat]
      /\ ThreadOK(Idle) /\ Idle.phase \notin {"running", "written"}
  BY DEF Idle, ThreadOK
<1> QED
  BY <1>1, <1>2, ThreadStep

LEMMA FailsPreserves == ASSUME IInv, NEW j \in JobIds, Fails(j) PROVE IInv'
<1>1. Alive(j)
  BY DEF Fails, AtWork, Alive
<1>2. CASE task[j].n >= Attempts
  BY <1>1, <1>2, EndStep DEF Fails
<1>3. CASE ~ (task[j].n >= Attempts)
  <2> DEFINE th == Thread("sleeping", task[j].n, now)
  <2>1. Becomes(j, th) /\ UNCHANGED report
    BY <1>3 DEF Fails
  <2>2. /\ th \in [phase : {"none", "running", "written", "sleeping"},
                   n : Nat, at : Nat]
        /\ ThreadOK(th) /\ th.phase \notin {"running", "written"}
        /\ proc # "down"
    BY <1>1, <1>3, AliveThread, Constants DEF Thread, ThreadOK
  <2> HIDE DEF th
  <2> QED
    BY <2>1, <2>2, ThreadStep
<1> QED
  BY <1>2, <1>3

LEMMA RetriesPreserves == ASSUME IInv, NEW j \in JobIds, Retries(j) PROVE IInv'
<1> DEFINE th == Thread("running", task[j].n + 1, now)
<1>1. Alive(j) /\ Asleep(j)
  BY DEF Retries, Asleep, Alive
<1>2. Becomes(j, th) /\ UNCHANGED report
  BY DEF Retries
<1>3. /\ th \in [phase : {"none", "running", "written", "sleeping"},
                 n : Nat, at : Nat]
      /\ ThreadOK(th) /\ proc # "down"
      /\ now <= th.at + MaxRun /\ th.n # 1
  BY <1>1, AliveThread, Constants DEF Thread, ThreadOK
<1> HIDE DEF th
<1> QED
  BY <1>2, <1>3, ThreadStep

LEMMA DispatchPreserves == ASSUME IInv, NEW j \in JobIds, Dispatch(j) PROVE IInv'
<1> DEFINE th == Thread("running", 1, now)
<1>1. /\ proc = "up" /\ UNCHANGED <<now, proc, since, report, killed>>
      /\ task' \in {task, [task EXCEPT ![j] = th]}
  BY DEF Dispatch
<1>2. due' \in [JobIds -> Nat \cup {Never}]
  BY NextTickInNat DEF Dispatch, IInv, TypeOK
<1>3. /\ th \in [phase : {"none", "running", "written", "sleeping"},
                 n : Nat, at : Nat]
      /\ ThreadOK(th) /\ now <= th.at + MaxRun
  BY Constants DEF IInv, TypeOK, Thread, ThreadOK
<1> HIDE DEF th
<1>4. \A i \in JobIds : task'[i] = task[i] \/ task'[i] = th
  BY <1>1 DEF IInv, TypeOK
<1>5. TypeOK'
  <2>1. task' \in [JobIds -> [phase : {"none", "running", "written", "sleeping"},
                              n : Nat, at : Nat]]
    BY <1>1, <1>3 DEF IInv, TypeOK
  <2>2. \A i \in JobIds : ThreadOK(task[i])'
    BY <1>1, <1>3, <1>4 DEF IInv, TypeOK, ThreadOK
  <2> QED
    BY <1>1, <1>2, <2>1, <2>2 DEF IInv, TypeOK
<1>6. WorkIsBounded'
  BY <1>1, <1>3, <1>4 DEF IInv, WorkIsBounded, AtWork
<1>7. NoFirstAttemptWhileStopping' /\ StopSparesFirstAttempts'
  BY <1>1 DEF IInv, NoFirstAttemptWhileStopping, StopSparesFirstAttempts
<1> QED
  BY <1>5, <1>6, <1>7 DEF IInv

LEMMA TickPreserves == ASSUME IInv, Tick PROVE IInv'
<1>1. /\ now' = now + 1 /\ now \in Nat
      /\ UNCHANGED <<proc, since, due, task, report, killed>>
  BY DEF Tick, IInv, TypeOK
<1>2. TypeOK'
  BY <1>1 DEF IInv, TypeOK, ThreadOK
<1>3. WorkIsBounded'
  <2> SUFFICES ASSUME NEW j \in JobIds, AtWork(j)
               PROVE  now + 1 <= task[j].at + MaxRun
    BY <1>1 DEF WorkIsBounded, AtWork
  <2>1. now < task[j].at + MaxRun /\ Alive(j)
    BY DEF Tick, AtWork, Alive
  <2> QED
    BY <2>1, AliveThread, Constants
<1>4. NoFirstAttemptWhileStopping' /\ StopSparesFirstAttempts'
  BY <1>1 DEF IInv, NoFirstAttemptWhileStopping, StopSparesFirstAttempts, AtWork
<1> QED
  BY <1>2, <1>3, <1>4 DEF IInv

LEMMA BootPreserves == ASSUME IInv, Boot PROVE IInv'
<1>1. /\ proc' = "up" /\ since' = now /\ killed' = {}
      /\ UNCHANGED <<now, task, report>>
  BY DEF Boot
<1>2. due' \in [JobIds -> Nat \cup {Never}]
  BY NextTickInNat, Constants DEF Boot, IInv, TypeOK
<1>3. TypeOK'
  BY <1>1, <1>2 DEF IInv, TypeOK, ThreadOK
<1> QED
  BY <1>1, <1>3 DEF IInv, WorkIsBounded, AtWork, NoFirstAttemptWhileStopping,
                    StopSparesFirstAttempts

LEMMA GracefulStopPreserves == ASSUME IInv, GracefulStop PROVE IInv'
<1>1. /\ proc' = "stopping" /\ since' = now /\ due' = NothingDue
      /\ UNCHANGED <<now, task, report, killed>>
  BY DEF GracefulStop
<1>2. TypeOK'
  BY <1>1 DEF IInv, TypeOK, ThreadOK, NothingDue
<1>3. NoFirstAttemptWhileStopping'
  <2> SUFFICES ASSUME NEW j \in JobIds, AtWork(j)
               PROVE  task[j].at <= now
    BY <1>1 DEF NoFirstAttemptWhileStopping, AtWork
  <2> QED
    BY AliveThread DEF AtWork, Alive
<1> QED
  BY <1>1, <1>2, <1>3 DEF IInv, WorkIsBounded, AtWork, StopSparesFirstAttempts

\* The end of the process, whatever it leaves in killed.
LEMMA GoneStep ==
  ASSUME IInv, Gone, UNCHANGED <<now, report>>,
         killed' \subseteq [phase : {"running", "written", "sleeping"},
                            n : 1 .. Attempts, at : Nat],
         StopSparesFirstAttempts'
  PROVE  IInv'
<1>1. /\ proc' = "down" /\ since' = now /\ due' = NothingDue
      /\ task' = NoThreads
  BY DEF Gone
<1>2. TypeOK'
  BY <1>1 DEF IInv, TypeOK, ThreadOK, NothingDue, NoThreads, Idle
<1> QED
  BY <1>1, <1>2 DEF IInv, WorkIsBounded, AtWork, NoFirstAttemptWhileStopping,
                    NoThreads, Idle

LEMMA QuietEndPreserves == ASSUME IInv, Stopped \/ Crash PROVE IInv'
BY GoneStep DEF Stopped, Crash, IInv, TypeOK, StopSparesFirstAttempts

LEMMA KillPreserves == ASSUME IInv, Kill PROVE IInv'
<1>1. /\ proc = "stopping" /\ now = since + StopGrace /\ Gone
      /\ killed' = {task[j] : j \in {i \in JobIds : Alive(i)}}
      /\ UNCHANGED <<now, report>>
  BY DEF Kill
<1>2. killed' \subseteq [phase : {"running", "written", "sleeping"},
                         n : 1 .. Attempts, at : Nat]
  <2> SUFFICES ASSUME NEW j \in JobIds, Alive(j)
               PROVE  task[j] \in [phase : {"running", "written", "sleeping"},
                                   n : 1 .. Attempts, at : Nat]
    BY <1>1
  <2>1. task[j] \in [phase : {"none", "running", "written", "sleeping"},
                     n : Nat, at : Nat]
    BY DEF IInv, TypeOK
  <2> QED
    BY <2>1, AliveThread
<1>3. StopSparesFirstAttempts'
  <2> SUFFICES ASSUME NEW j \in JobIds, Alive(j), ~ Asleep(j)
               PROVE  task[j].n > 1
    BY <1>1 DEF StopSparesFirstAttempts, Asleep
  <2>1. AtWork(j) /\ task[j].n \in 1 .. Attempts /\ task[j].at \in 0 .. now
    BY AliveThread DEF AtWork, Asleep
  <2>2. now <= task[j].at + MaxRun
    BY <2>1 DEF IInv, WorkIsBounded
  <2>3. CASE task[j].n = 1
    <3>1. task[j].at <= since
      BY <1>1, <2>1, <2>3 DEF IInv, NoFirstAttemptWhileStopping
    <3>2. since \in Nat /\ now \in Nat /\ task[j].at \in Nat
      BY <2>1 DEF IInv, TypeOK
    <3> QED
      BY <1>1, <2>2, <3>1, <3>2, Constants
  <2> QED
    BY <2>1, <2>3, Constants
<1> QED
  BY <1>1, <1>2, <1>3, GoneStep

LEMMA NextPreserves == IInv /\ [Next]_vars => IInv'
<1> SUFFICES ASSUME IInv, [Next]_vars PROVE IInv'
  OBVIOUS
<1>1. CASE Tick
  BY <1>1, TickPreserves
<1>2. CASE Boot \/ GracefulStop
  BY <1>2, BootPreserves, GracefulStopPreserves
<1>3. CASE Stopped \/ Crash \/ Kill
  BY <1>3, QuietEndPreserves, KillPreserves
<1>4. ASSUME NEW j \in JobIds, Dispatch(j) PROVE IInv'
  BY <1>4, DispatchPreserves
<1>5. ASSUME NEW j \in JobIds, Writes(j) PROVE IInv'
  BY <1>5, WritesPreserves
<1>6. ASSUME NEW j \in JobIds, Returns(j) PROVE IInv'
  BY <1>6, EndStep DEF Returns, Alive
<1>7. ASSUME NEW j \in JobIds, Fails(j) PROVE IInv'
  BY <1>7, FailsPreserves
<1>8. ASSUME NEW j \in JobIds, Retries(j) PROVE IInv'
  BY <1>8, RetriesPreserves
<1>9. CASE UNCHANGED vars
  BY <1>9 DEF vars, IInv, TypeOK, ThreadOK, WorkIsBounded, AtWork,
              NoFirstAttemptWhileStopping, StopSparesFirstAttempts
<1> QED
  BY <1>1, <1>2, <1>3, <1>4, <1>5, <1>6, <1>7, <1>8, <1>9 DEF Next

\* The invariant holds in every state of every execution.
THEOREM Invariance == Spec => []IInv
BY InitEstablishes, NextPreserves, PTL DEF Spec

\* Type correctness, for every schedule and every number of failures.
THEOREM TypeCorrect == Spec => []TypeOK
<1>1. IInv => TypeOK
  BY DEF IInv
<1> QED
  BY <1>1, Invariance, PTL

\* No stop ever kills a run in its first attempt: an attempt that fits in the
\* stop's grace period and began before SIGTERM ends before SIGKILL.
THEOREM FirstAttemptsAreSpared == Spec => []StopSparesFirstAttempts
<1>1. IInv => StopSparesFirstAttempts
  BY DEF IInv
<1> QED
  BY <1>1, Invariance, PTL
-----------------------------------------------------------------------------
(***************************************************************************)
(* The timed promises.  A run that is in its n-th attempt began at least    *)
(* its retries ago; the invariant carries "this run began no later than"    *)
(* through attempts and sleeps, from the tick or the start that caused it.  *)
(***************************************************************************)

\* Induction over a set of numbers, from the well-foundedness of Nat.
LEMMA SetInduction ==
  ASSUME NEW S, 0 \in S, \A n \in Nat : n \in S => n + 1 \in S
  PROVE  Nat \subseteq S
<1> DEFINE R == OpToRel(<, Nat)
           T == Nat \ S
<1>1. \A m, n \in Nat : m < n => <<m, n>> \in R
  BY Zenon DEF OpToRel
<1>2. IsWellFoundedOn(R, Nat)
  BY Zenon, NatLessThanWellFounded
<1> HIDE DEF R
<1>3. SUFFICES ASSUME T # {} PROVE FALSE
  OBVIOUS
<1>4. PICK x \in T : \A y \in T : ~ (<<y, x>> \in R)
  <2>1. T \subseteq Nat OBVIOUS
  <2> QED BY <1>2, <1>3, <2>1, WFMin
<1>5. x \in Nat /\ x # 0 OBVIOUS
<1>6. x - 1 \in Nat /\ <<x - 1, x>> \in R
  BY <1>1, <1>5
<1>7. x - 1 \in S
  BY <1>4, <1>6
<1> QED
  BY <1>5, <1>6, <1>7

\* The sums of the retry delays satisfy their recursive definition.
LEMMA SumToDef ==
  /\ SumTo \in [0 .. Len(Delays) -> Nat]
  /\ SumTo[0] = 0
  /\ \A n \in 1 .. Len(Delays) : SumTo[n] = SumTo[n - 1] + Delays[n]
<1> DEFINE L == Len(Delays)
           Sums(f, m) == \A n \in 0 .. m :
                           f[n] = IF n = 0 THEN 0 ELSE f[n - 1] + Delays[n]
           Has == {m \in Nat : m <= L => \E f \in [0 .. m -> Nat] : Sums(f, m)}
<1>0. L \in Nat /\ \A n \in 1 .. L : Delays[n] \in Nat
  BY SchedulerAssumption DEF SchedulerAssumption
<1> HIDE DEF L
<1>1. 0 \in Has
  <2> DEFINE f == [n \in 0 .. 0 |-> 0]
  <2>1. f \in [0 .. 0 -> Nat] /\ Sums(f, 0)
    OBVIOUS
  <2> QED
    BY <2>1
<1>2. ASSUME NEW m \in Nat, m \in Has PROVE m + 1 \in Has
  <2> SUFFICES ASSUME m + 1 <= L
               PROVE  \E f \in [0 .. m + 1 -> Nat] : Sums(f, m + 1)
    OBVIOUS
  <2>1. PICK f \in [0 .. m -> Nat] : Sums(f, m)
    BY <1>0, <1>2
  <2> DEFINE g == [n \in 0 .. m + 1 |-> IF n <= m THEN f[n] ELSE f[m] + Delays[n]]
  <2>2. g \in [0 .. m + 1 -> Nat]
    BY <1>0, <2>1
  <2>3. Sums(g, m + 1)
    <3> SUFFICES ASSUME NEW n \in 0 .. m + 1
                 PROVE  g[n] = IF n = 0 THEN 0 ELSE g[n - 1] + Delays[n]
      OBVIOUS
    <3>1. CASE n = 0 BY <3>1, <2>1
    <3>2. CASE n \in 1 .. m BY <3>2, <2>1
    <3>3. CASE n = m + 1 BY <3>3
    <3> QED BY <3>1, <3>2, <3>3
  <2> QED
    BY <2>2, <2>3
<1>3. L \in Has
  <2> HIDE DEF Has
  <2> QED
    BY <1>0, <1>1, <1>2, SetInduction
<1>4. PICK f \in [0 .. L -> Nat] : Sums(f, L)
  <2>1. L <= L
    BY <1>0
  <2>2. \E f \in [0 .. L -> Nat] : Sums(f, L)
    <3> HIDE DEF Sums
    <3> QED
      BY <1>3, <2>1
  <2> QED
    BY <2>2
<1>5. f = [n \in 0 .. L |-> IF n = 0 THEN 0 ELSE f[n - 1] + Delays[n]]
  BY <1>4
<1>6. SumTo = [n \in 0 .. L |-> IF n = 0 THEN 0 ELSE SumTo[n - 1] + Delays[n]]
  BY <1>5 DEF SumTo, L
<1> DEFINE Typed == {n \in Nat : n <= L => SumTo[n] \in Nat}
<1>7. 0 \in Typed
  BY <1>0, <1>6
<1>8. \A n \in Nat : n \in Typed => n + 1 \in Typed
  <2> SUFFICES ASSUME NEW n \in Nat, SumTo[n] \in Nat, n + 1 <= L
               PROVE  SumTo[n + 1] \in Nat
    BY <1>0
  <2>1. SumTo[n + 1] = SumTo[n] + Delays[n + 1]
    BY <1>0, <1>6
  <2> QED
    BY <1>0, <2>1
<1>9. \A n \in 0 .. L : SumTo[n] \in Nat
  <2>1. Nat \subseteq Typed
    <3> HIDE DEF Typed
    <3> QED
      BY <1>7, <1>8, SetInduction
  <2> QED
    BY <1>0, <2>1
<1>10. SumTo \in [0 .. L -> Nat]
  BY <1>6, <1>9, Zenon
<1>11. SumTo[0] = 0 /\ \A n \in 1 .. L : SumTo[n] = SumTo[n - 1] + Delays[n]
  BY <1>0, <1>6
<1> QED
  BY <1>10, <1>11 DEF L

\* The longest time from the start of a run to the start of its n-th attempt.
Spent(n) == (n - 1) * MaxRun + SumTo[n - 1]

LEMMA SpentDef ==
  /\ \A n \in 1 .. Attempts : Spent(n) \in Nat
  /\ Spent(1) = 0
  /\ \A n \in 1 .. Len(Delays) : Spent(n + 1) = Spent(n) + MaxRun + Delays[n]
  /\ Spent(Attempts) + MaxRun = LongestRun
<1>1. Attempts \in Nat /\ Attempts = Len(Delays) + 1 /\ MaxRun \in Nat
  BY Constants
<1>2. Len(Delays) \in Nat
  BY SchedulerAssumption DEF SchedulerAssumption
<1>3. \A n \in 1 .. Attempts : n - 1 \in 0 .. Len(Delays) /\ (n - 1) * MaxRun \in Nat
  <2> SUFFICES ASSUME NEW n \in 1 .. Attempts
               PROVE  n - 1 \in 0 .. Len(Delays) /\ (n - 1) * MaxRun \in Nat
    OBVIOUS
  <2>1. n - 1 \in 0 .. Len(Delays)
    BY <1>1, <1>2
  <2>2. \A k, m \in Nat : k * m \in Nat
    OBVIOUS
  <2> QED
    BY <1>1, <2>1, <2>2
<1>4. \A n \in 1 .. Attempts : Spent(n) \in Nat
  <2> SUFFICES ASSUME NEW n \in 1 .. Attempts PROVE Spent(n) \in Nat
    OBVIOUS
  <2>1. SumTo[n - 1] \in Nat
    BY <1>3, SumToDef
  <2> QED
    BY <1>3, <2>1 DEF Spent
<1>5. Spent(1) = 0
  BY <1>1, SumToDef DEF Spent
<1>6. ASSUME NEW n \in 1 .. Len(Delays)
      PROVE  Spent(n + 1) = Spent(n) + MaxRun + Delays[n]
  <2>1. n * MaxRun = (n - 1) * MaxRun + MaxRun
    BY <1>1
  <2>2. SumTo[n] = SumTo[n - 1] + Delays[n]
    BY SumToDef
  <2>3. (n - 1) * MaxRun \in Nat /\ SumTo[n - 1] \in Nat /\ Delays[n] \in Nat
    BY <1>1, <1>2, <1>3, SumToDef, Constants
  <2>4. Spent(n + 1) = n * MaxRun + SumTo[n]
    BY <1>2 DEF Spent
  <2> QED
    BY <1>1, <2>1, <2>2, <2>3, <2>4 DEF Spent
<1>7. Spent(Attempts) + MaxRun = LongestRun
  <2> DEFINE L == Len(Delays)
  <2>1. Attempts * MaxRun = L * MaxRun + MaxRun /\ L * MaxRun \in Nat
    <3>1. \A k \in Nat : (k + 1) * MaxRun = k * MaxRun + MaxRun /\ k * MaxRun \in Nat
      BY <1>1
    <3> QED
      BY <1>1, <1>2, <3>1
  <2>2. SumTo[L] \in Nat
    BY <1>2, SumToDef
  <2>3. Attempts - 1 = L
    BY <1>1, <1>2
  <2>4. Spent(Attempts) = L * MaxRun + SumTo[L]
    BY <2>3 DEF Spent
  <2>5. LongestRun = Attempts * MaxRun + SumTo[L]
    BY DEF LongestRun
  <2> HIDE DEF L
  <2> QED
    BY <1>1, <2>1, <2>2, <2>4, <2>5
<1> QED
  BY <1>4, <1>5, <1>6, <1>7

\* Every attempt of a run ends within LongestRun of the run's start.
LEMMA SpentIsBounded == \A n \in 1 .. Attempts : Spent(n) + MaxRun <= LongestRun
<1> DEFINE Before == {k \in Nat : k < Attempts =>
                                    Spent(Attempts - k) + MaxRun <= LongestRun}
<1>1. /\ Attempts \in Nat /\ Attempts = Len(Delays) + 1 /\ MaxRun \in Nat
      /\ Len(Delays) \in Nat
      /\ \A n \in 1 .. Len(Delays) : Delays[n] \in Nat
  BY Constants, SchedulerAssumption DEF SchedulerAssumption
<1>2. LongestRun \in Nat
  <2>1. Spent(Attempts) \in Nat
    BY <1>1, SpentDef
  <2> QED
    BY <1>1, <2>1, SpentDef
<1>3. 0 \in Before
  <2>1. Attempts - 0 = Attempts
    BY <1>1
  <2> QED
    BY <1>2, <2>1, SpentDef
<1>4. \A k \in Nat : k \in Before => k + 1 \in Before
  <2> SUFFICES ASSUME NEW k \in Nat, k + 1 < Attempts,
                      Spent(Attempts - k) + MaxRun <= LongestRun
               PROVE  Spent(Attempts - (k + 1)) + MaxRun <= LongestRun
    BY <1>1
  <2> DEFINE n == Attempts - (k + 1)
  <2>1. n \in 1 .. Len(Delays) /\ n + 1 = Attempts - k /\ n \in 1 .. Attempts
    BY <1>1
  <2>2. Spent(n + 1) + MaxRun <= LongestRun
    BY <2>1
  <2> HIDE DEF n
  <2>3. /\ Spent(n + 1) = Spent(n) + MaxRun + Delays[n]
        /\ Spent(n) \in Nat /\ Delays[n] \in Nat
    BY <1>1, <2>1, SpentDef
  <2>4. Spent(n) + MaxRun <= LongestRun
    BY <1>1, <1>2, <2>2, <2>3
  <2> QED
    BY <2>4 DEF n
<1>5. Nat \subseteq Before
  <2> HIDE DEF Before
  <2> QED
    BY <1>3, <1>4, SetInduction
<1> SUFFICES ASSUME NEW n \in 1 .. Attempts
             PROVE  Spent(n) + MaxRun <= LongestRun
  OBVIOUS
<1>6. Attempts - n \in Nat /\ Attempts - n < Attempts /\ Attempts - (Attempts - n) = n
  BY <1>1
<1> QED
  BY <1>5, <1>6

\* The ticks of the cron trigger around a time.
LEMMA Ticks ==
  ASSUME NEW t \in Nat
  PROVE  /\ LastTick(t) \in Nat /\ LastTick(t) <= t
         /\ NextTick(t) \in Nat /\ t < NextTick(t) /\ NextTick(t) <= t + Period
         /\ \E k \in Nat : NextTick(t) = k * Period
         /\ \A k \in Nat : k * Period <= t => k * Period <= LastTick(t)
<1> DEFINE q == t \div Period
<1>1. Period \in Nat /\ Period > 0
  BY SchedulerAssumption DEF SchedulerAssumption
<1>2. q \in Nat /\ q * Period <= t /\ t < q * Period + Period
  BY <1>1, Z3
<1>3. LastTick(t) = q * Period /\ NextTick(t) = q * Period + Period
  BY DEF LastTick, NextTick
<1> HIDE DEF q
<1>4. q * Period \in Nat /\ (q + 1) * Period = q * Period + Period
  BY <1>1, <1>2
<1>5. ASSUME NEW k \in Nat, k * Period <= t PROVE k * Period <= q * Period
  <2>1. CASE k <= q
    <3>1. q = k + (q - k) /\ q - k \in Nat
      BY <1>2, <2>1
    <3>2. q * Period = k * Period + (q - k) * Period /\ (q - k) * Period \in Nat
          /\ k * Period \in Nat
      BY <1>1, <3>1
    <3> QED
      BY <3>2
  <2>2. CASE k > q
    <3>1. k = (q + 1) + (k - q - 1) /\ k - q - 1 \in Nat
      BY <1>2, <2>2
    <3>2. k * Period = (q + 1) * Period + (k - q - 1) * Period
          /\ (k - q - 1) * Period \in Nat
      BY <1>1, <1>2, <3>1
    <3> QED
      BY <1>1, <1>2, <1>4, <1>5, <3>2
  <2> QED
    BY <1>2, <2>1, <2>2
<1> QED
  BY <1>1, <1>2, <1>3, <1>4, <1>5
-----------------------------------------------------------------------------

\* The earliest time at which a run can have begun, given its thread.
Earliest(th) ==
  IF th.phase = "running" THEN th.at - Spent(th.n)
  ELSE th.at - MaxRun - Spent(th.n)

\* t is at most b after the start of the process or the newest report.
Within(t, b) == t <= since + b \/ (report # Never /\ t <= report + b)

SleepIsBounded ==
  \A j \in JobIds : Asleep(j) => now <= task[j].at + Delays[task[j].n]

WakeUpIsNear == \A j \in JobIds : due[j] # Never => now <= due[j] + Lag

WrittenIsStored ==
  \A j \in JobIds :
    task[j].phase = "written" => report # Never /\ task[j].at <= report

DailyIsDue ==
  proc = "up" =>
    /\ due["daily"] # Never /\ due["daily"] <= now + Period
    /\ \E k \in Nat : due["daily"] = k * Period

\* The next tick comes soon enough after the last report, and so did the tick
\* that began the run in progress.
DailyServed ==
  proc = "up" =>
    /\ task["daily"] = Idle => Within(due["daily"], Period + MaxRun)
    /\ task["daily"].phase \in {"running", "sleeping"} =>
         Within(Earliest(task["daily"]), Period + MaxRun + Lag)

\* The newest report was not over a day old at startup.
FreshAtStart == report # Never /\ since <= report + DayAge

\* The startup found a fresh report, or a run has come in since; or else the
\* catchup is due, or it is at work and has not written yet.
CatchupServed ==
  proc = "up" =>
    \/ FreshAtStart
    \/ task["catchup"] = Idle /\ due["catchup"] = since + CatchupAfter
    \/ /\ task["catchup"].phase \in {"running", "sleeping"}
       /\ Earliest(task["catchup"]) <= since + CatchupAfter + Lag

KInv ==
  /\ IInv
  /\ SleepIsBounded
  /\ WakeUpIsNear
  /\ WrittenIsStored
  /\ DailyIsDue
  /\ DailyServed
  /\ CatchupServed

LEMMA Times ==
  /\ Period \in Nat /\ Period > 0
  /\ MaxRun \in Nat /\ Lag \in Nat /\ CatchupAfter \in Nat /\ DayAge \in Nat
  /\ Never \notin Nat
  /\ \A j \in JobIds : Grace[j] \in Nat /\ Lag <= Grace[j]
  /\ "daily" \in JobIds /\ "catchup" \in JobIds
BY SchedulerAssumption DEF SchedulerAssumption, JobIds

LEMMA InitKeeps == Init => KInv
BY InitEstablishes
DEF Init, KInv, SleepIsBounded, WakeUpIsNear, WrittenIsStored, DailyIsDue,
    DailyServed, CatchupServed, NothingDue, NoThreads, Idle, Asleep

\* The thread of the run in progress and the times it is measured with.
LEMMA RunTimes ==
  ASSUME KInv, NEW j \in JobIds, Alive(j)
  PROVE  /\ task[j].n \in 1 .. Attempts /\ task[j].at \in Nat
         /\ Spent(task[j].n) \in Nat
         /\ Earliest(task[j]) \in Int
         /\ now \in Nat /\ since \in Nat
         /\ report # Never => report \in Nat /\ report <= now
         /\ AtWork(j) => now <= task[j].at + MaxRun
<1>1. IInv
  BY DEF KInv
<1>2. /\ task[j].n \in 1 .. Attempts /\ task[j].at \in Nat /\ now \in Nat
      /\ since \in Nat
      /\ report # Never => report \in Nat /\ report <= now
  BY <1>1, AliveThread DEF IInv, TypeOK
<1>3. Spent(task[j].n) \in Nat
  BY <1>2, SpentDef
<1>4. Earliest(task[j]) \in Int
  BY <1>2, <1>3, Times DEF Earliest
<1>5. AtWork(j) => now <= task[j].at + MaxRun
  BY <1>1 DEF IInv, WorkIsBounded
<1> QED
  BY <1>2, <1>3, <1>4, <1>5

LEMMA TickKeeps == ASSUME KInv, Tick PROVE KInv'
<1>1. /\ now' = now + 1 /\ now \in Nat
      /\ UNCHANGED <<proc, since, due, task, report, killed>>
  BY DEF Tick, KInv, IInv, TypeOK
<1>2. IInv'
  BY TickPreserves DEF KInv
<1>3. SleepIsBounded'
  <2> SUFFICES ASSUME NEW j \in JobIds, Asleep(j)
               PROVE  now + 1 <= task[j].at + Delays[task[j].n]
    BY <1>1 DEF SleepIsBounded, Asleep
  <2>1. now < task[j].at + Delays[task[j].n]
    BY DEF Tick
  <2>2. task[j].at \in Nat /\ Delays[task[j].n] \in Nat
    BY AliveThread, Constants DEF KInv, Asleep, Alive
  <2> QED
    BY <1>1, <2>1, <2>2
<1>4. WakeUpIsNear'
  BY <1>1, Times DEF Tick, WakeUpIsNear, KInv, IInv, TypeOK
<1>5. WrittenIsStored' /\ DailyServed' /\ CatchupServed'
  BY <1>1 DEF KInv, WrittenIsStored, DailyServed, CatchupServed, Within,
              FreshAtStart, Earliest
<1>6. DailyIsDue'
  BY <1>1, Times DEF KInv, IInv, TypeOK, DailyIsDue
<1> QED
  BY <1>2, <1>3, <1>4, <1>5, <1>6 DEF KInv

LEMMA BootKeeps == ASSUME KInv, Boot PROVE KInv'
<1>1. /\ proc = "down" /\ proc' = "up" /\ since' = now
      /\ UNCHANGED <<now, task, report>>
      /\ now \in Nat
      /\ report # Never => report \in Nat
      /\ task = NoThreads
  BY DEF Boot, KInv, IInv, TypeOK
<1>2. PICK reachable \in BOOLEAN :
        due' = [j \in JobIds |->
                  IF j = "daily" THEN NextTick(now)
                  ELSE IF ShouldRunAtStartup(reachable) THEN now + CatchupAfter
                  ELSE Never]
  BY DEF Boot
<1>3. /\ due'["daily"] = NextTick(now)
      /\ due'["catchup"] = IF ShouldRunAtStartup(reachable)
                             THEN now + CatchupAfter ELSE Never
  BY <1>2, Times
<1>4. IInv'
  BY BootPreserves DEF KInv
<1>5. SleepIsBounded' /\ WrittenIsStored'
  BY <1>1 DEF SleepIsBounded, WrittenIsStored, NoThreads, Idle, Asleep
<1>10. NextTick(now) \in Nat /\ now < NextTick(now) /\ NextTick(now) <= now + Period
  BY <1>1, Ticks
<1>6. WakeUpIsNear'
  <2>1. /\ now <= due'["daily"] + Lag
        /\ due'["catchup"] # Never => now <= due'["catchup"] + Lag
    BY <1>1, <1>3, <1>10, Times
  <2> QED
    BY <1>1, <2>1 DEF WakeUpIsNear, JobIds
<1>7. DailyIsDue'
  BY <1>1, <1>3, Ticks, Times DEF DailyIsDue
<1>8. DailyServed'
  <2>1. due'["daily"] <= since' + Period + MaxRun
    BY <1>1, <1>3, <1>10, Times
  <2>2. task'["daily"].phase = "none"
    BY <1>1, Times DEF NoThreads, Idle
  <2> QED
    BY <1>1, <2>1, <2>2, Times DEF DailyServed, Within
<1>9. CatchupServed'
  <2>1. task'["catchup"] = Idle
    BY <1>1, Times DEF NoThreads
  <2>2. CASE ShouldRunAtStartup(reachable)
    BY <1>1, <1>3, <2>1, <2>2 DEF CatchupServed
  <2>3. CASE ~ ShouldRunAtStartup(reachable)
    BY <1>1, <2>3, Times DEF ShouldRunAtStartup, CatchupServed, FreshAtStart
  <2> QED
    BY <2>2, <2>3
<1> QED
  BY <1>4, <1>5, <1>6, <1>7, <1>8, <1>9 DEF KInv

LEMMA EndKeeps ==
  ASSUME KInv, GracefulStop \/ Stopped \/ Kill \/ Crash PROVE KInv'
<1>1. IInv'
  BY GracefulStopPreserves, QuietEndPreserves, KillPreserves DEF KInv
<1>2. /\ proc' # "up" /\ due' = NothingDue /\ UNCHANGED <<now, report>>
      /\ task' = task \/ task' = NoThreads
  BY DEF GracefulStop, Stopped, Kill, Crash, Gone
<1>3. SleepIsBounded' /\ WrittenIsStored'
  BY <1>2 DEF KInv, SleepIsBounded, WrittenIsStored, NoThreads, Idle, Asleep
<1>4. WakeUpIsNear' /\ DailyIsDue' /\ DailyServed' /\ CatchupServed'
  BY <1>2 DEF WakeUpIsNear, DailyIsDue, DailyServed, CatchupServed, NothingDue
<1> QED
  BY <1>1, <1>3, <1>4 DEF KInv

\* The last tick before now is not older than the one that was due: a daily run
\* is never dropped for its age.
LEMMA DailyIsAccepted ==
  ASSUME KInv, Dispatch("daily"), task["daily"] = Idle
  PROVE  Accepts("daily", LastTick(now))
<1>1. /\ proc = "up" /\ due["daily"] <= now /\ now <= due["daily"] + Lag
      /\ now \in Nat
  BY Times DEF Dispatch, KInv, IInv, TypeOK, WakeUpIsNear
<1>2. PICK k \in Nat : due["daily"] = k * Period
  BY <1>1 DEF KInv, DailyIsDue
<1>3. due["daily"] <= LastTick(now) /\ LastTick(now) \in Nat /\ due["daily"] \in Nat
  <2>1. k * Period \in Nat
    BY <1>2, Times
  <2> QED
    BY <1>1, <1>2, <2>1, Ticks
<1>4. now - LastTick(now) <= Grace["daily"]
  BY <1>1, <1>3, Times
<1> QED
  BY <1>4 DEF Accepts

LEMMA DispatchDailyKeeps == ASSUME KInv, Dispatch("daily") PROVE KInv'
<1> DEFINE th == Thread("running", 1, now)
<1>1. /\ proc = "up" /\ UNCHANGED <<now, proc, since, report, killed>>
      /\ due["daily"] # Never /\ due["daily"] <= now
      /\ now \in Nat /\ since \in Nat
      /\ report # Never => report \in Nat
      /\ due["daily"] \in Nat
  BY Times DEF Dispatch, KInv, IInv, TypeOK
<1>10. /\ due' = [due EXCEPT !["daily"] = NextTick(now)]
      /\ task' = IF Accepts("daily", LastTick(now))
                   THEN [task EXCEPT !["daily"] = th] ELSE task
  BY DEF Dispatch
<1>2. IInv'
  BY DispatchPreserves, Times DEF KInv
<1>3. /\ due'["daily"] = NextTick(now) /\ due'["catchup"] = due["catchup"]
      /\ task'["catchup"] = task["catchup"]
      /\ task'["daily"] = IF Accepts("daily", LastTick(now)) THEN th
                          ELSE task["daily"]
  BY <1>10, Times DEF KInv, IInv, TypeOK
<1>4. /\ th.phase = "running" /\ th.n = 1 /\ th.at = now
      /\ Earliest(th) = now /\ th # Idle
  BY <1>1, SpentDef DEF Thread, Earliest, Idle
<1> HIDE DEF th
<1>5. SleepIsBounded' /\ WrittenIsStored'
  BY <1>1, <1>3, <1>4 DEF KInv, SleepIsBounded, WrittenIsStored, Asleep, JobIds
<1>6. WakeUpIsNear'
  BY <1>1, <1>3, Ticks, Times DEF KInv, WakeUpIsNear, JobIds
<1>7. DailyIsDue'
  BY <1>1, <1>3, Ticks, Times DEF DailyIsDue
<1>8. DailyServed'
  <2>1. CASE task["daily"] = Idle
    <3>1. task'["daily"] = th
      BY <1>3, <2>1, DailyIsAccepted
    <3>2. Within(due["daily"], Period + MaxRun) /\ now <= due["daily"] + Lag
      BY <1>1, <2>1, Times DEF KInv, DailyServed, WakeUpIsNear
    <3>3. Within(now, Period + MaxRun + Lag)
      BY <1>1, <3>2, Times DEF Within
    <3> QED
      BY <1>1, <1>4, <3>1, <3>3 DEF DailyServed, Within
  <2>2. CASE task["daily"] # Idle
    <3>1. task'["daily"] = task["daily"]
      BY <1>3, <2>2 DEF Accepts
    <3> QED
      BY <1>1, <2>2, <3>1 DEF KInv, DailyServed, Within, Earliest
  <2> QED
    BY <2>1, <2>2
<1>9. CatchupServed'
  BY <1>1, <1>3 DEF KInv, CatchupServed, FreshAtStart, Earliest
<1> QED
  BY <1>2, <1>5, <1>6, <1>7, <1>8, <1>9 DEF KInv

LEMMA DispatchCatchupKeeps == ASSUME KInv, Dispatch("catchup") PROVE KInv'
<1> DEFINE th == Thread("running", 1, now)
<1>1. /\ proc = "up" /\ UNCHANGED <<now, proc, since, report, killed>>
      /\ due["catchup"] # Never /\ due["catchup"] <= now
      /\ now \in Nat /\ since \in Nat
      /\ report # Never => report \in Nat
      /\ due["catchup"] \in Nat
  BY Times DEF Dispatch, KInv, IInv, TypeOK
<1>10. /\ due' = [due EXCEPT !["catchup"] = Never]
      /\ task' = IF Accepts("catchup", due["catchup"])
                   THEN [task EXCEPT !["catchup"] = th] ELSE task
  BY DEF Dispatch
<1>2. IInv'
  BY DispatchPreserves, Times DEF KInv
<1>3. /\ due'["catchup"] = Never /\ due'["daily"] = due["daily"]
      /\ task'["daily"] = task["daily"]
      /\ task'["catchup"] = IF Accepts("catchup", due["catchup"]) THEN th
                            ELSE task["catchup"]
  BY <1>10, Times DEF KInv, IInv, TypeOK
<1>4. /\ th.phase = "running" /\ th.n = 1 /\ th.at = now
      /\ Earliest(th) = now /\ th # Idle
  BY <1>1, SpentDef DEF Thread, Earliest, Idle
<1>5. now <= due["catchup"] + Lag
  BY <1>1, Times DEF KInv, WakeUpIsNear
<1> HIDE DEF th
<1>6. SleepIsBounded' /\ WrittenIsStored'
  BY <1>1, <1>3, <1>4 DEF KInv, SleepIsBounded, WrittenIsStored, Asleep, JobIds
<1>7. WakeUpIsNear'
  BY <1>1, <1>3, Times DEF KInv, WakeUpIsNear, JobIds
<1>8. DailyIsDue' /\ DailyServed'
  BY <1>1, <1>3 DEF KInv, DailyIsDue, DailyServed, Within, Earliest
<1>9. CatchupServed'
  <2>1. CASE FreshAtStart
    BY <1>1, <2>1 DEF CatchupServed, FreshAtStart
  <2>2. CASE task["catchup"] = Idle /\ due["catchup"] = since + CatchupAfter
    <3>1. now - due["catchup"] <= Grace["catchup"]
      BY <1>1, <1>5, Times
    <3>2. task'["catchup"] = th
      BY <1>3, <2>2, <3>1 DEF Accepts
    <3> QED
      BY <1>1, <1>4, <1>5, <2>2, <3>2, Times DEF CatchupServed
  <2>3. CASE /\ task["catchup"].phase \in {"running", "sleeping"}
             /\ Earliest(task["catchup"]) <= since + CatchupAfter + Lag
    <3>1. task'["catchup"] = task["catchup"]
      BY <1>3, <2>3 DEF Accepts, Idle
    <3> QED
      BY <1>1, <2>3, <3>1 DEF CatchupServed, Earliest
  <2> QED
    BY <1>1, <2>1, <2>2, <2>3 DEF KInv, CatchupServed
<1> QED
  BY <1>2, <1>6, <1>7, <1>8, <1>9 DEF KInv

\* What a step of one thread leaves alone: the other thread, and what is due.
LEMMA ThreadFrame ==
  ASSUME KInv, NEW j \in JobIds, NEW th, Becomes(j, th)
  PROVE  /\ UNCHANGED <<now, proc, since, due, killed>>
         /\ task'[j] = th
         /\ \A i \in JobIds : i # j => task'[i] = task[i]
         /\ WakeUpIsNear' /\ DailyIsDue'
<1>1. /\ task' = [task EXCEPT ![j] = th]
      /\ UNCHANGED <<now, proc, since, due, killed>>
  BY DEF Becomes
<1>2. /\ task'[j] = th
      /\ \A i \in JobIds : i # j => task'[i] = task[i]
  BY <1>1 DEF KInv, IInv, TypeOK
<1>3. WakeUpIsNear' /\ DailyIsDue'
  BY <1>1 DEF KInv, WakeUpIsNear, DailyIsDue
<1> QED
  BY <1>1, <1>2, <1>3

LEMMA WritesKeeps == ASSUME KInv, NEW j \in JobIds, Writes(j) PROVE KInv'
<1> DEFINE th == [task[j] EXCEPT !.phase = "written"]
<1>1. /\ Becomes(j, th) /\ report' = now /\ Alive(j) /\ AtWork(j)
      /\ proc # "down"
  BY AliveThread DEF Writes, Alive, AtWork, KInv
<1>2. th.phase = "written" /\ th.at = task[j].at /\ th # Idle
  BY DEF KInv, IInv, TypeOK, Idle
<1> HIDE DEF th
<1>3. /\ UNCHANGED <<now, proc, since, due, killed>>
      /\ task'[j] = th
      /\ \A i \in JobIds : i # j => task'[i] = task[i]
      /\ WakeUpIsNear' /\ DailyIsDue'
  BY <1>1, ThreadFrame
<1>4. IInv'
  BY WritesPreserves DEF KInv
<1>5. /\ now \in Nat /\ since \in Nat /\ since <= now
      /\ now # Never
      /\ \A i \in JobIds : task[i].at \in Nat
  BY Times DEF KInv, IInv, TypeOK
<1>6. \A i \in JobIds : Alive(i) => task[i].at <= now
  BY <1>5, AliveThread DEF KInv
<1>7. SleepIsBounded' /\ WrittenIsStored'
  BY <1>1, <1>2, <1>3, <1>5, <1>6
  DEF KInv, SleepIsBounded, WrittenIsStored, Asleep, Alive
<1>8. DailyServed'
  <2>1. proc = "up" => due["daily"] <= now + Period /\ due["daily"] \in Nat
    BY Times DEF KInv, DailyIsDue, IInv, TypeOK
  <2>2. task["daily"].phase \in {"running", "sleeping"} =>
          Earliest(task["daily"]) <= now /\ Earliest(task["daily"]) \in Int
    <3> SUFFICES ASSUME task["daily"].phase \in {"running", "sleeping"}
                 PROVE  Earliest(task["daily"]) <= now /\ Earliest(task["daily"]) \in Int
      OBVIOUS
    <3>1. Alive("daily") /\ "daily" \in JobIds
      BY Times DEF Alive
    <3> QED
      BY <1>5, <1>6, <3>1, RunTimes, Times DEF Earliest
  <2>3. task'["daily"] = task["daily"] \/ task'["daily"].phase = "written"
    BY <1>2, <1>3, Times
  <2>4. proc = "up" => Within(due["daily"], Period + MaxRun)'
    BY <1>1, <1>3, <1>5, <2>1, Times DEF Within
  <2>5. task'["daily"].phase \in {"running", "sleeping"} =>
          Within(Earliest(task["daily"]), Period + MaxRun + Lag)'
    <3> SUFFICES ASSUME task["daily"].phase \in {"running", "sleeping"},
                        task'["daily"] = task["daily"]
                 PROVE  Within(Earliest(task["daily"]), Period + MaxRun + Lag)'
      BY <2>3
    <3> DEFINE e == Earliest(task["daily"])
    <3>1. e <= now /\ e \in Int
      BY <2>2
    <3>2. Earliest(task["daily"])' = e
      BY DEF Earliest
    <3> HIDE DEF e
    <3> QED
      BY <1>1, <1>3, <1>5, <3>1, <3>2, Times DEF Within
  <2> QED
    BY <1>3, <2>4, <2>5 DEF DailyServed
<1>9. CatchupServed'
  BY <1>1, <1>3, <1>5, Times DEF CatchupServed, FreshAtStart
<1> QED
  BY <1>3, <1>4, <1>7, <1>8, <1>9 DEF KInv

LEMMA ReturnsKeeps == ASSUME KInv, NEW j \in JobIds, Returns(j) PROVE KInv'
<1>1. /\ task[j].phase = "written" /\ Becomes(j, Idle) /\ UNCHANGED report
      /\ Alive(j) /\ AtWork(j)
  BY DEF Returns, Alive, AtWork
<1>2. /\ UNCHANGED <<now, proc, since, due, killed>>
      /\ task'[j] = Idle
      /\ \A i \in JobIds : i # j => task'[i] = task[i]
      /\ WakeUpIsNear' /\ DailyIsDue'
  BY <1>1, ThreadFrame
<1>3. IInv'
  BY <1>1, EndStep DEF KInv
<1>4. SleepIsBounded' /\ WrittenIsStored'
  BY <1>1, <1>2 DEF KInv, SleepIsBounded, WrittenIsStored, Asleep, Idle
<1>5. /\ report # Never /\ report \in Nat /\ task[j].at <= report
      /\ now <= task[j].at + MaxRun
      /\ now \in Nat /\ task[j].at \in Nat
  BY <1>1, RunTimes DEF KInv, WrittenIsStored
<1>6. DailyServed'
  <2>1. CASE j = "daily"
    <3>1. proc = "up" => due["daily"] <= now + Period /\ due["daily"] \in Nat
      BY Times DEF KInv, DailyIsDue, IInv, TypeOK
    <3>2. proc = "up" => due["daily"] <= report + (Period + MaxRun)
      BY <1>5, <3>1, Times
    <3> QED
      BY <1>1, <1>2, <1>5, <2>1, <3>2 DEF DailyServed, Within, Idle
  <2>2. CASE j # "daily"
    BY <1>1, <1>2, <2>2, Times DEF KInv, DailyServed, Within, Earliest
  <2> QED
    BY <2>1, <2>2
<1>7. CatchupServed'
  <2>1. CASE j = "catchup"
    BY <1>1, <1>2, <2>1 DEF KInv, CatchupServed, FreshAtStart, Idle
  <2>2. CASE j # "catchup"
    BY <1>1, <1>2, <2>2, Times DEF KInv, CatchupServed, FreshAtStart, Earliest
  <2> QED
    BY <2>1, <2>2
<1> QED
  BY <1>2, <1>3, <1>4, <1>6, <1>7 DEF KInv

\* As long as one attempt of a run works, a failure only puts the run to sleep.
LEMMA FailsKeeps ==
  ASSUME KInv, MayFail < Attempts, NEW j \in JobIds, Fails(j) PROVE KInv'
<1> DEFINE th == Thread("sleeping", task[j].n, now)
<1>1. /\ AtWork(j) /\ Alive(j) /\ UNCHANGED report
      /\ task[j].n <= MayFail
  BY DEF Fails, Alive, AtWork
<1>2. /\ task[j].n \in 1 .. Attempts /\ task[j].at \in Nat
      /\ Spent(task[j].n) \in Nat
      /\ now \in Nat /\ since \in Nat /\ now <= task[j].at + MaxRun
      /\ MayFail \in Nat /\ Attempts = Len(Delays) + 1 /\ Len(Delays) \in Nat
  <2>1. /\ task[j].n \in 1 .. Attempts /\ task[j].at \in Nat
        /\ Spent(task[j].n) \in Nat
        /\ now \in Nat /\ since \in Nat /\ now <= task[j].at + MaxRun
    BY <1>1, RunTimes
  <2>2. MayFail \in Nat /\ Attempts = Len(Delays) + 1 /\ Len(Delays) \in Nat
    BY Constants, SchedulerAssumption DEF SchedulerAssumption
  <2> QED
    BY <2>1, <2>2
<1>3. Becomes(j, th) /\ task[j].n \in 1 .. Len(Delays)
  BY <1>1, <1>2 DEF Fails
<1>4. /\ th.phase = "sleeping" /\ th.n = task[j].n /\ th.at = now /\ th # Idle
      /\ Earliest(th) = now - MaxRun - Spent(task[j].n)
  BY DEF Thread, Idle, Earliest
<1> HIDE DEF th
<1>5. /\ UNCHANGED <<now, proc, since, due, killed>>
      /\ task'[j] = th
      /\ \A i \in JobIds : i # j => task'[i] = task[i]
      /\ WakeUpIsNear' /\ DailyIsDue'
  BY <1>3, ThreadFrame
<1>6. IInv'
  BY FailsPreserves DEF KInv
<1>7. SleepIsBounded' /\ WrittenIsStored'
  <2>1. now <= now + Delays[task[j].n]
    BY <1>2, <1>3, Constants
  <2> QED
    BY <1>1, <1>4, <1>5, <2>1 DEF KInv, SleepIsBounded, WrittenIsStored, Asleep
\* The run began no later than it did: an attempt takes at most MaxRun.
<1>8. task[j].phase = "running" => Earliest(th) <= Earliest(task[j])
                                   /\ Earliest(task[j]) \in Int
  BY <1>2, <1>4, Times DEF Earliest
<1>9. Earliest(th) \in Int /\ Earliest(th) <= task[j].at
  BY <1>2, <1>4, Times
<1>10. task[j].phase = "written" => /\ report # Never /\ report \in Nat
                                    /\ Earliest(th) <= report
  BY <1>1, <1>2, <1>9, RunTimes DEF KInv, WrittenIsStored
<1>11. task[j].phase \in {"running", "written"}
  BY <1>1 DEF AtWork
<1>12. Earliest(task[j])' = Earliest(th)
  BY <1>5 DEF Earliest
<1>13. DailyServed'
  <2>1. CASE j = "daily"
    <3>1. CASE task[j].phase = "running"
      <4>1. proc = "up" => Within(Earliest(task[j]), Period + MaxRun + Lag)
        BY <2>1, <3>1 DEF KInv, DailyServed
      <4>2. proc = "up" => Within(Earliest(th), Period + MaxRun + Lag)
        BY <1>1, <1>2, <1>8, <1>9, <3>1, <4>1, RunTimes, Times DEF Within
      <4> QED
        BY <1>1, <1>4, <1>5, <1>12, <2>1, <4>2 DEF DailyServed, Within
    <3>2. CASE task[j].phase = "written"
      <4>1. Within(Earliest(th), Period + MaxRun + Lag)
        BY <1>9, <1>10, <3>2, Times DEF Within
      <4> QED
        BY <1>1, <1>4, <1>5, <1>12, <2>1, <4>1 DEF DailyServed, Within
    <3> QED
      BY <1>11, <3>1, <3>2
  <2>2. CASE j # "daily"
    BY <1>1, <1>5, <2>2, Times DEF KInv, DailyServed, Within, Earliest
  <2> QED
    BY <2>1, <2>2
<1>14. CatchupServed'
  <2>1. CASE FreshAtStart
    BY <1>1, <1>5, <2>1 DEF CatchupServed, FreshAtStart
  <2>2. CASE ~ FreshAtStart /\ j = "catchup"
    <3>1. proc = "up" => /\ task[j].phase = "running"
                         /\ Earliest(task[j]) <= since + CatchupAfter + Lag
      BY <1>11, <2>2 DEF KInv, CatchupServed, Idle
    <3>2. proc = "up" => Earliest(th) <= since + CatchupAfter + Lag
      BY <1>2, <1>8, <1>9, <3>1, Times
    <3> QED
      BY <1>4, <1>5, <1>12, <2>2, <3>2 DEF CatchupServed
  <2>3. CASE ~ FreshAtStart /\ j # "catchup"
    BY <1>1, <1>5, <2>3, Times DEF KInv, CatchupServed, FreshAtStart, Earliest
  <2> QED
    BY <2>1, <2>2, <2>3
<1> QED
  BY <1>5, <1>6, <1>7, <1>13, <1>14 DEF KInv

LEMMA RetriesKeeps == ASSUME KInv, NEW j \in JobIds, Retries(j) PROVE KInv'
<1> DEFINE th == Thread("running", task[j].n + 1, now)
<1>1. /\ Asleep(j) /\ Alive(j) /\ UNCHANGED report
      /\ now = task[j].at + Delays[task[j].n]
      /\ Becomes(j, th)
  BY DEF Retries, Alive, Asleep
<1>2. /\ task[j].n \in 1 .. Len(Delays) /\ task[j].at \in Nat
      /\ Delays[task[j].n] \in Nat /\ Spent(task[j].n) \in Nat
      /\ Spent(task[j].n + 1) = Spent(task[j].n) + MaxRun + Delays[task[j].n]
      /\ task[j].phase = "sleeping"
  BY <1>1, AliveThread, RunTimes, SpentDef, Constants DEF KInv, Asleep
<1>3. /\ th.phase = "running" /\ th.n = task[j].n + 1 /\ th.at = now /\ th # Idle
      /\ Earliest(th) = now - Spent(task[j].n + 1)
  BY DEF Thread, Idle, Earliest
<1> HIDE DEF th
\* The sleep took exactly its delay: nothing is lost.
<1>4. Earliest(th) = Earliest(task[j])
  BY <1>1, <1>2, <1>3, Times DEF Earliest
<1>5. /\ UNCHANGED <<now, proc, since, due, killed>>
      /\ task'[j] = th
      /\ \A i \in JobIds : i # j => task'[i] = task[i]
      /\ WakeUpIsNear' /\ DailyIsDue'
  BY <1>1, ThreadFrame
<1>6. IInv'
  BY RetriesPreserves DEF KInv
<1>7. SleepIsBounded' /\ WrittenIsStored'
  BY <1>1, <1>3, <1>5 DEF KInv, SleepIsBounded, WrittenIsStored, Asleep
<1>8. Earliest(task[j])' = Earliest(task[j])
  BY <1>4, <1>5 DEF Earliest
<1>9. DailyServed'
  <2>1. CASE j = "daily"
    BY <1>1, <1>2, <1>3, <1>5, <1>8, <2>1 DEF KInv, DailyServed, Within
  <2>2. CASE j # "daily"
    BY <1>1, <1>5, <2>2, Times DEF KInv, DailyServed, Within, Earliest
  <2> QED
    BY <2>1, <2>2
<1>10. CatchupServed'
  <2>1. CASE j = "catchup"
    BY <1>1, <1>2, <1>3, <1>5, <1>8, <2>1
    DEF KInv, CatchupServed, FreshAtStart, Idle
  <2>2. CASE j # "catchup"
    BY <1>1, <1>5, <2>2, Times DEF KInv, CatchupServed, FreshAtStart, Earliest
  <2> QED
    BY <2>1, <2>2
<1> QED
  BY <1>5, <1>6, <1>7, <1>9, <1>10 DEF KInv

LEMMA NextKeeps == ASSUME KInv, MayFail < Attempts, [Next]_vars PROVE KInv'
<1>1. CASE Tick
  BY <1>1, TickKeeps
<1>2. CASE Boot
  BY <1>2, BootKeeps
<1>3. CASE GracefulStop \/ Stopped \/ Kill \/ Crash
  BY <1>3, EndKeeps
<1>4. ASSUME NEW j \in JobIds, Dispatch(j) PROVE KInv'
  BY <1>4, DispatchDailyKeeps, DispatchCatchupKeeps DEF JobIds
<1>5. ASSUME NEW j \in JobIds, Writes(j) PROVE KInv'
  BY <1>5, WritesKeeps
<1>6. ASSUME NEW j \in JobIds, Returns(j) PROVE KInv'
  BY <1>6, ReturnsKeeps
<1>7. ASSUME NEW j \in JobIds, Fails(j) PROVE KInv'
  BY <1>7, FailsKeeps
<1>8. ASSUME NEW j \in JobIds, Retries(j) PROVE KInv'
  BY <1>8, RetriesKeeps
<1>9. CASE UNCHANGED vars
  <2>1. IInv'
    BY NextPreserves DEF KInv
  <2> QED
    BY <1>9, <2>1
    DEF vars, KInv, SleepIsBounded, WakeUpIsNear, WrittenIsStored, DailyIsDue,
        DailyServed, CatchupServed, FreshAtStart, Within, Earliest, Asleep
<1> QED
  BY <1>1, <1>2, <1>3, <1>4, <1>5, <1>6, <1>7, <1>8, <1>9 DEF Next

\* A run that has begun by a time is over LongestRun after it.
LEMMA RunIsShort ==
  ASSUME KInv, NEW j \in JobIds, task[j].phase \in {"running", "sleeping"}
  PROVE  now <= Earliest(task[j]) + LongestRun
<1>1. /\ Alive(j) /\ task[j].n \in 1 .. Attempts /\ task[j].at \in Nat
      /\ Spent(task[j].n) \in Nat /\ now \in Nat
      /\ LongestRun \in Int
      /\ AtWork(j) => now <= task[j].at + MaxRun
  <2>1. Alive(j)
    BY DEF Alive
  <2>2. LongestRun \in Int
    <3>1. Spent(Attempts) \in Nat
      BY SpentDef, Constants, SchedulerAssumption DEF SchedulerAssumption
    <3> QED
      BY <3>1, SpentDef, Times
  <2> QED
    BY <2>1, <2>2, RunTimes
<1>2. CASE task[j].phase = "running"
  <2>1. Spent(task[j].n) + MaxRun <= LongestRun
    BY <1>1, SpentIsBounded
  <2>2. now <= task[j].at + MaxRun
    BY <1>1, <1>2 DEF AtWork
  <2>3. Earliest(task[j]) = task[j].at - Spent(task[j].n)
    BY <1>2 DEF Earliest
  <2>4. MaxRun \in Nat
    BY Times
  <2> QED
    BY <1>1, <2>1, <2>2, <2>3, <2>4
<1>3. CASE task[j].phase = "sleeping"
  <2>1. task[j].n \in 1 .. Len(Delays) /\ now <= task[j].at + Delays[task[j].n]
    BY <1>1, <1>3, AliveThread DEF KInv, SleepIsBounded, Asleep
  <2>2. /\ Delays[task[j].n] \in Nat
        /\ Spent(task[j].n + 1) = Spent(task[j].n) + MaxRun + Delays[task[j].n]
        /\ task[j].n + 1 \in 1 .. Attempts
    <3>1. Len(Delays) \in Nat /\ Attempts = Len(Delays) + 1
      BY Constants, SchedulerAssumption DEF SchedulerAssumption
    <3>2. task[j].n + 1 \in 1 .. Attempts
      BY <2>1, <3>1
    <3> QED
      BY <2>1, <3>2, SpentDef, Constants
  <2>3. Spent(task[j].n + 1) + MaxRun <= LongestRun
    BY <2>2, SpentIsBounded
  <2>4. Earliest(task[j]) = task[j].at - MaxRun - Spent(task[j].n)
    BY <1>3 DEF Earliest
  <2>5. MaxRun \in Nat
    BY Times
  <2>6. now <= task[j].at + Delays[task[j].n]
    BY <2>1
  <2>7. Spent(task[j].n) + MaxRun + Delays[task[j].n] + MaxRun <= LongestRun
    BY <2>2, <2>3
  <2> QED
    BY <1>1, <2>2, <2>4, <2>5, <2>6, <2>7
<1> QED
  BY <1>2, <1>3

LEMMA KInvServes == KInv => DailyReportKept /\ CatchupServes
<1> SUFFICES ASSUME KInv, proc = "up" PROVE DailyReportKept /\ CatchupServes
  BY DEF DailyReportKept, CatchupServes
<1>1. /\ now \in Nat /\ since \in Nat /\ since <= now
      /\ report # Never => report \in Nat
      /\ report # Never => report <= now
      /\ due["daily"] \in Nat /\ now <= due["daily"] + Lag
  BY Times DEF KInv, IInv, TypeOK, DailyIsDue, WakeUpIsNear
<1>2. LongestRun \in Nat
  <2>1. Spent(Attempts) \in Nat
    BY SpentDef, Constants, SchedulerAssumption DEF SchedulerAssumption
  <2> QED
    BY <2>1, SpentDef, Times
<1>3. ASSUME NEW j \in JobIds
      PROVE  /\ \/ task[j] = Idle
                \/ task[j].phase \in {"running", "sleeping"}
                \/ task[j].phase = "written"
             /\ task[j] # Idle => Earliest(task[j]) \in Int
  <2>1. task[j] # Idle => Alive(j)
    BY <1>3 DEF KInv, IInv, TypeOK, ThreadOK, Alive, Idle
  <2> QED
    BY <1>3, <2>1, AliveThread, RunTimes DEF KInv
<1>4. DailyReportKept
  <2> DEFINE bound == Period + Lag + LongestRun + MaxRun
  <2> SUFFICES ASSUME since + bound < now
               PROVE  report # Never /\ now <= report + bound
    BY DEF DailyReportKept
  <2>1. CASE task["daily"] = Idle
    <3>1. Within(due["daily"], Period + MaxRun)
      BY <2>1 DEF KInv, DailyServed
    <3> QED
      BY <1>1, <1>2, <3>1, Times DEF Within
  <2>2. CASE task["daily"].phase \in {"running", "sleeping"}
    <3> DEFINE e == Earliest(task["daily"])
    <3>1. Within(e, Period + MaxRun + Lag) /\ now <= e + LongestRun /\ e \in Int
      BY <1>3, <2>2, RunIsShort, Times DEF KInv, DailyServed, Idle
    <3> HIDE DEF e
    <3> QED
      BY <1>1, <1>2, <3>1, Times DEF Within
  <2>3. CASE task["daily"].phase = "written"
    <3>1. /\ report # Never /\ task["daily"].at <= report
          /\ now <= task["daily"].at + MaxRun /\ task["daily"].at \in Nat
      BY <2>3, RunTimes, Times DEF KInv, WrittenIsStored, Alive, AtWork
    <3> QED
      BY <1>1, <1>2, <3>1, Times
  <2> QED
    BY <1>3, <2>1, <2>2, <2>3, Times
<1>5. CatchupServes
  <2> SUFFICES ASSUME since + CatchupAfter + Lag + LongestRun < now
               PROVE  FreshAtStart
    BY DEF CatchupServes, FreshAtStart
  <2>1. CASE task["catchup"] = Idle /\ due["catchup"] = since + CatchupAfter
    <3>1. now <= due["catchup"] + Lag
      BY <1>1, <2>1, Times DEF KInv, WakeUpIsNear
    <3> QED
      BY <1>1, <1>2, <2>1, <3>1, Times
  <2>2. CASE /\ task["catchup"].phase \in {"running", "sleeping"}
             /\ Earliest(task["catchup"]) <= since + CatchupAfter + Lag
    <3> DEFINE e == Earliest(task["catchup"])
    <3>1. e \in Int /\ now <= e + LongestRun
      BY <1>3, <2>2, RunIsShort, Times DEF Idle
    <3>2. e <= since + CatchupAfter + Lag
      BY <2>2
    <3> HIDE DEF e
    <3> QED
      BY <1>1, <1>2, <3>1, <3>2, Times
  <2> QED
    BY <2>1, <2>2 DEF KInv, CatchupServed
<1> QED
  BY <1>4, <1>5

\* The timed invariant, for every schedule of retries, period and lag: all it
\* asks is that one attempt of each run works.
THEOREM TimedInvariance ==
  ASSUME MayFail < Attempts PROVE Spec => []KInv
<1>1. KInv /\ [Next]_vars => KInv'
  BY NextKeeps
<1> QED
  BY <1>1, InitKeeps, PTL DEF Spec

\* No day is lost to a blip: a process that has been up for a period and a run
\* has a report no older than that.
THEOREM DailyReportIsKept ==
  ASSUME MayFail < Attempts PROVE Spec => []DailyReportKept
<1>1. KInv => DailyReportKept
  BY KInvServes
<1> QED
  BY <1>1, TimedInvariance, PTL

\* A restart repairs a missed day within the catchup's delay and a run.
THEOREM CatchupIsServed ==
  ASSUME MayFail < Attempts PROVE Spec => []CatchupServes
<1>1. KInv => CatchupServes
  BY KInvServes
<1> QED
  BY <1>1, TimedInvariance, PTL

\* The healthcheck raises no false alarm: when its age limit is no shorter than a
\* period and a run, a process that has been up for as long is reported healthy
\* whenever the database can be asked, whatever was retried or dropped.
THEOREM HealthcheckStaysGreen ==
  ASSUME MayFail < Attempts, Period + Lag + LongestRun + MaxRun <= MaxAge
  PROVE  Spec => [](proc = "up" /\ since + MaxAge < now => Healthy(TRUE))
<1>1. KInv => (proc = "up" /\ since + MaxAge < now => Healthy(TRUE))
  <2> SUFFICES ASSUME KInv, proc = "up", since + MaxAge < now
               PROVE  report # Never => now - report <= MaxAge
    BY DEF Healthy
  <2>1. /\ now \in Nat /\ since \in Nat /\ MaxAge \in Nat /\ LongestRun \in Nat
        /\ report # Never => report \in Nat
    <3>1. LongestRun \in Nat
      <4>1. Spent(Attempts) \in Nat
        BY SpentDef, Constants, SchedulerAssumption DEF SchedulerAssumption
      <4> QED
        BY <4>1, SpentDef, Times
    <3> QED
      BY <3>1, SchedulerAssumption DEF KInv, IInv, TypeOK, SchedulerAssumption
  <2>2. since + (Period + Lag + LongestRun + MaxRun) < now
    BY <2>1, Times
  <2>3. report # Never /\ now <= report + (Period + Lag + LongestRun + MaxRun)
    BY <2>2, KInvServes DEF DailyReportKept
  <2> QED
    BY <2>1, <2>3, Times
<1> QED
  BY <1>1, TimedInvariance, PTL
=============================================================================
