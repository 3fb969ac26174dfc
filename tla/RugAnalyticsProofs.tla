------------------------- MODULE RugAnalyticsProofs -------------------------
(***************************************************************************)
(* Theorems about RugAnalytics, for any tokens, rows, windows and retries. *)
(* For any number of overlapping executions: none duplicates its own       *)
(* events, and one that has been alone from its scan on records every      *)
(* signal and leaves labels, scores and counts that are right, whatever    *)
(* the others did before.  For a database used by one execution at a time: *)
(* no event is duplicated, events of active tokens show in their labels    *)
(* and labels in the creators' counts.                                     *)
(***************************************************************************)
EXTENDS RugAnalytics, ScoringProofs, FiniteSetTheorems, TLAPS

\* A job is a record with the fields of NewJob.
Fields(j) ==
  [since |-> j.since, txAt |-> j.txAt, read |-> j.read, signals |-> j.signals,
   pend |-> j.pend, label |-> j.label, class |-> j.class, points |-> j.points,
   score |-> j.score, wallet |-> j.wallet]

\* Its clock readings are of the past, and it has read rows of mints.
Stamped(j) ==
  /\ j.since \in Nat /\ j.since <= now
  /\ j.txAt \in Nat /\ j.txAt <= now
  /\ DOMAIN j.read \subseteq Mints

Shape ==
  /\ now \in Nat
  /\ pc \in [Runs -> Phases]
  /\ job = [r \in Runs |-> Fields(job[r])]
  /\ \A r \in Runs : Stamped(job[r])

AfterRecord ==
  {"classify", "relabel", "points", "rescore", "creators", "wallets", "commit"}

\* The uncommitted events of r: of its transaction's time, and clear of all that
\* r has committed before.
PendOf(r) ==
  /\ pc[r] \notin AfterRecord => job[r].pend = {}
  /\ \A p \in job[r].pend :
       /\ p.by = r /\ p.at = job[r].txAt
       /\ p = [mint |-> p.mint, kind |-> p.kind, at |-> p.at, by |-> p.by]
       /\ \A e \in events :
            SameRug(e, p) /\ e.by = r => e.at + Window <= p.at

Dated == \A e \in events : e.at \in Nat /\ e.by \in Runs

EInv == Shape /\ Dated /\ (\A r \in Runs : PendOf(r)) /\ OwnEventsSpaced

-----------------------------------------------------------------------------
(* Events *)

LEMMA EventsInit == Init => EInv
  BY DEF Init, EInv, Shape, Fields, Stamped, NewJob, Nothing, Phases, Dated,
         PendOf, AfterRecord, OwnEventsSpaced

\* Steps that insert nothing: events may go, jobs begin again or move on.
LEMMA QuietEvents ==
  ASSUME EInv, Shape', events' \subseteq events,
         \A r \in Runs :
           \/ job'[r].pend = {}
           \/ /\ job'[r].pend = job[r].pend /\ job'[r].txAt = job[r].txAt
              /\ pc[r] \in AfterRecord => pc'[r] \in AfterRecord
  PROVE  EInv'
<1>1. Dated'
  BY DEF EInv, Dated
<1>2. OwnEventsSpaced'
  BY DEF EInv, OwnEventsSpaced, SameRug, Spaced
<1>3. ASSUME NEW r \in Runs PROVE PendOf(r)'
  <2>1. CASE job'[r].pend = {}
    BY <2>1 DEF PendOf
  <2>2. CASE /\ job'[r].pend = job[r].pend /\ job'[r].txAt = job[r].txAt
             /\ pc[r] \in AfterRecord => pc'[r] \in AfterRecord
    BY <2>2 DEF EInv, PendOf, SameRug
  <2> QED
    BY <2>1, <2>2
<1> QED
  BY <1>1, <1>2, <1>3 DEF EInv

\* What a step that rewrites r's job leaves of the others.
LEMMA OneJobShape ==
  ASSUME Shape, NEW r \in Runs, NEW j, NEW p \in Phases,
         job' = [job EXCEPT ![r] = j], pc' = [pc EXCEPT ![r] = p],
         j = Fields(j), Stamped(j), now' = now
  PROVE  /\ Shape' /\ job'[r] = j /\ pc'[r] = p
         /\ \A s \in Runs \ {r} : job'[s] = job[s] /\ pc'[s] = pc[s]
<1>1. \A s \in Runs : job'[s] = IF s = r THEN j ELSE job[s]
  BY DEF Shape
<1>2. job' = [s \in Runs |-> job'[s]]
  BY <1>1 DEF Shape
<1>3. \A s \in Runs : job'[s] = Fields(job'[s]) /\ Stamped(job[s])'
  BY <1>1 DEF Shape, Stamped
<1>4. job' = [s \in Runs |-> Fields(job'[s])]
  BY <1>2, <1>3
<1>5. pc' \in [Runs -> Phases] /\ pc'[r] = p
      /\ \A s \in Runs \ {r} : pc'[s] = pc[s]
  BY DEF Shape
<1> QED
  BY <1>1, <1>3, <1>4, <1>5 DEF Shape

LEMMA NewJobIsRecord ==
  ASSUME now \in Nat
  PROVE  NewJob = Fields(NewJob) /\ Stamped(NewJob) /\ NewJob.pend = {}
  BY DEF NewJob, Nothing, Fields, Stamped

LEMMA JobIsRecord ==
  ASSUME Shape, NEW r \in Runs
  PROVE  job[r] = Fields(job[r]) /\ Stamped(job[r]) /\ job[r].txAt \in Nat
  BY DEF Shape, Stamped

\* Only r has moved, and of its job only what it had not yet come to.
Moved(r, p) ==
  /\ Shape' /\ now' = now
  /\ pc' = [pc EXCEPT ![r] = p] /\ pc'[r] = p
  /\ \A s \in Runs \ {r} : job'[s] = job[s] /\ pc'[s] = pc[s]
  /\ job'[r].label = job[r].label /\ job'[r].class = job[r].class
  /\ job'[r].points = job[r].points /\ job'[r].score = job[r].score

LEMMA CutoffJob ==
  ASSUME Shape, NEW r \in Runs, TakeCutoff(r)
  PROVE  /\ Moved(r, "scan") /\ UNCHANGED tables
         /\ job'[r].txAt = job[r].txAt /\ job'[r].pend = job[r].pend
         /\ job'[r].read = job[r].read /\ job'[r].signals = job[r].signals
<1> DEFINE j == [job[r] EXCEPT !.since = now]
<1>1. job[r] = Fields(job[r]) /\ Stamped(job[r]) /\ now \in Nat
  BY JobIsRecord DEF Shape
<1>2. job' = [job EXCEPT ![r] = j] /\ pc' = [pc EXCEPT ![r] = "scan"]
      /\ now' = now /\ UNCHANGED tables
  BY DEF TakeCutoff, Goto
<1>3. /\ j = Fields(j) /\ Stamped(j)
      /\ j.txAt = job[r].txAt /\ j.pend = job[r].pend
      /\ j.read = job[r].read /\ j.signals = job[r].signals
      /\ j.label = job[r].label /\ j.class = job[r].class
      /\ j.points = job[r].points /\ j.score = job[r].score
  BY <1>1 DEF Fields, Stamped
<1> HIDE DEF j
<1>4. /\ Shape' /\ job'[r] = j /\ pc'[r] = "scan"
      /\ \A s \in Runs \ {r} : job'[s] = job[s] /\ pc'[s] = pc[s]
  BY <1>2, <1>3, OneJobShape DEF Phases
<1> QED
  BY <1>2, <1>3, <1>4 DEF Moved

\* What the scan reads.
RowsRead(r) ==
  [m \in Active(job[r].since) |-> [latest |-> Latest(m), before |-> Previous(m)]]

LEMMA ScanJob ==
  ASSUME Shape, NEW r \in Runs, ScanForRugs(r)
  PROVE  /\ Moved(r, "judge") /\ UNCHANGED tables
         /\ job'[r].txAt = now /\ job'[r].pend = job[r].pend
         /\ job'[r].read = RowsRead(r) /\ job'[r].signals = job[r].signals
<1> DEFINE read == RowsRead(r)
           i == [job[r] EXCEPT !.txAt = now]
           k == [i EXCEPT !.since = 0]
           j == [k EXCEPT !.read = read]
<1>1. job[r] = Fields(job[r]) /\ Stamped(job[r]) /\ now \in Nat
  BY JobIsRecord DEF Shape
<1>2. job' = [job EXCEPT ![r] = j] /\ pc' = [pc EXCEPT ![r] = "judge"]
      /\ now' = now /\ UNCHANGED tables
  BY DEF ScanForRugs, RowsRead, Goto
<1>3. DOMAIN read \subseteq Mints
  BY DEF RowsRead, Active
<1> HIDE DEF read
<1>4. /\ i = Fields(i) /\ Stamped(i) /\ i.txAt = now
      /\ i.pend = job[r].pend /\ i.signals = job[r].signals
      /\ i.label = job[r].label /\ i.class = job[r].class
      /\ i.points = job[r].points /\ i.score = job[r].score
  BY <1>1 DEF Fields, Stamped
<1> HIDE DEF i
<1>5. /\ k = Fields(k) /\ Stamped(k) /\ k.txAt = now
      /\ k.pend = job[r].pend /\ k.signals = job[r].signals
      /\ k.label = job[r].label /\ k.class = job[r].class
      /\ k.points = job[r].points /\ k.score = job[r].score
  BY <1>1, <1>4 DEF Fields, Stamped
<1> HIDE DEF k
<1>6. /\ j = Fields(j) /\ Stamped(j) /\ j.txAt = now
      /\ j.pend = job[r].pend /\ j.signals = job[r].signals /\ j.read = read
      /\ j.label = job[r].label /\ j.class = job[r].class
      /\ j.points = job[r].points /\ j.score = job[r].score
  BY <1>3, <1>5 DEF Fields, Stamped
<1> HIDE DEF j
<1>7. /\ Shape' /\ job'[r] = j /\ pc'[r] = "judge"
      /\ \A s \in Runs \ {r} : job'[s] = job[s] /\ pc'[s] = pc[s]
  BY <1>2, <1>6, OneJobShape DEF Phases
<1> QED
  BY <1>2, <1>6, <1>7 DEF Moved, read

\* The signals of the rows that r has read.
Judgement(r) ==
  {x \in (DOMAIN job[r].read) \X Kinds :
     x[2] \in SignalsOf(job[r].read[x[1]].latest, job[r].read[x[1]].before,
                        wallet[CreatorOf[x[1]]], now)}

LEMMA JudgeJob ==
  ASSUME Shape, NEW r \in Runs, JudgeSignals(r)
  PROVE  /\ Moved(r, "record") /\ UNCHANGED tables
         /\ job'[r].txAt = job[r].txAt /\ job'[r].pend = job[r].pend
         /\ job'[r].read = Nothing /\ job'[r].signals = Judgement(r)
<1> DEFINE sig == Judgement(r)
           k == [job[r] EXCEPT !.read = Nothing]
           j == [k EXCEPT !.signals = sig]
<1>1. job[r] = Fields(job[r]) /\ Stamped(job[r])
  BY JobIsRecord
<1>2. job' = [job EXCEPT ![r] = j] /\ pc' = [pc EXCEPT ![r] = "record"]
      /\ now' = now /\ UNCHANGED tables
  BY DEF JudgeSignals, Judgement, Goto
<1>3. DOMAIN Nothing \subseteq Mints
  BY DEF Nothing
<1> HIDE DEF sig
<1>4. /\ k = Fields(k) /\ Stamped(k) /\ k.txAt = job[r].txAt
      /\ k.pend = job[r].pend /\ k.read = Nothing
      /\ k.label = job[r].label /\ k.class = job[r].class
      /\ k.points = job[r].points /\ k.score = job[r].score
  BY <1>1, <1>3 DEF Fields, Stamped
<1> HIDE DEF k
<1>5. /\ j = Fields(j) /\ Stamped(j) /\ j.txAt = job[r].txAt
      /\ j.pend = job[r].pend /\ j.read = Nothing /\ j.signals = sig
      /\ j.label = job[r].label /\ j.class = job[r].class
      /\ j.points = job[r].points /\ j.score = job[r].score
  BY <1>4 DEF Fields, Stamped
<1> HIDE DEF j
<1>6. /\ Shape' /\ job'[r] = j /\ pc'[r] = "record"
      /\ \A s \in Runs \ {r} : job'[s] = job[s] /\ pc'[s] = pc[s]
  BY <1>2, <1>5, OneJobShape DEF Phases
<1> QED
  BY <1>2, <1>5, <1>6 DEF Moved, sig

\* The events that r inserts.
Fresh(r) ==
  {[mint |-> s[1], kind |-> s[2], at |-> job[r].txAt, by |-> r] :
     s \in {x \in job[r].signals : ~ SeenRecently(r, x[1], x[2])}}

LEMMA RecordJob ==
  ASSUME Shape, NEW r \in Runs, RecordEvents(r)
  PROVE  /\ Moved(r, "classify") /\ UNCHANGED tables
         /\ job'[r].txAt = job[r].txAt /\ job'[r].pend = Fresh(r)
         /\ job'[r].read = job[r].read /\ job'[r].signals = {}
<1> DEFINE new == Fresh(r)
           k == [job[r] EXCEPT !.signals = {}]
           j == [k EXCEPT !.pend = new]
<1>1. job[r] = Fields(job[r]) /\ Stamped(job[r])
  BY JobIsRecord
<1>2. job' = [job EXCEPT ![r] = j] /\ pc' = [pc EXCEPT ![r] = "classify"]
      /\ now' = now /\ UNCHANGED tables
  BY DEF RecordEvents, Fresh, Goto
<1> HIDE DEF new
<1>3. /\ k = Fields(k) /\ Stamped(k) /\ k.txAt = job[r].txAt
      /\ k.read = job[r].read /\ k.signals = {}
      /\ k.label = job[r].label /\ k.class = job[r].class
      /\ k.points = job[r].points /\ k.score = job[r].score
  BY <1>1 DEF Fields, Stamped
<1> HIDE DEF k
<1>4. /\ j = Fields(j) /\ Stamped(j) /\ j.txAt = job[r].txAt
      /\ j.read = job[r].read /\ j.signals = {} /\ j.pend = new
      /\ j.label = job[r].label /\ j.class = job[r].class
      /\ j.points = job[r].points /\ j.score = job[r].score
  BY <1>3 DEF Fields, Stamped
<1> HIDE DEF j
<1>5. /\ Shape' /\ job'[r] = j /\ pc'[r] = "classify"
      /\ \A s \in Runs \ {r} : job'[s] = job[s] /\ pc'[s] = pc[s]
  BY <1>2, <1>4, OneJobShape DEF Phases
<1> QED
  BY <1>2, <1>4, <1>5 DEF Moved, new

\* The scan: NOW() is taken while nothing is uncommitted.
LEMMA ScanKeeps ==
  ASSUME EInv, NEW r \in Runs, TakeCutoff(r) \/ ScanForRugs(r) \/ JudgeSignals(r)
  PROVE  EInv'
<1>1. /\ Shape' /\ events' = events /\ job'[r].pend = job[r].pend
      /\ \A s \in Runs \ {r} : job'[s] = job[s] /\ pc'[s] = pc[s]
  BY CutoffJob, ScanJob, JudgeJob DEF EInv, Moved, tables
<1>2. job[r].pend = {}
  BY DEF EInv, PendOf, TakeCutoff, ScanForRugs, JudgeSignals, AfterRecord
<1> QED
  BY <1>1, <1>2, QuietEvents

\* The dedup: what is inserted is clear of every event the read returned, and r
\* commits nothing in between.
LEMMA RecordKeeps ==
  ASSUME EInv, NEW r \in Runs, RecordEvents(r)
  PROVE  EInv'
<1>1. job[r].txAt \in Nat
  BY JobIsRecord DEF EInv
<1>2. ASSUME NEW p \in Fresh(r)
      PROVE  /\ p.by = r /\ p.at = job[r].txAt
             /\ p = [mint |-> p.mint, kind |-> p.kind, at |-> p.at, by |-> p.by]
             /\ \A e \in events : SameRug(e, p) => e.at + Window <= p.at
  <2>1. PICK s \in job[r].signals :
          /\ p = [mint |-> s[1], kind |-> s[2], at |-> job[r].txAt, by |-> r]
          /\ ~ SeenRecently(r, s[1], s[2])
    BY DEF Fresh
  <2>2. ASSUME NEW e \in events, SameRug(e, p) PROVE e.at + Window <= p.at
    <3>1. ~(e.at + Window > job[r].txAt)
      BY <2>1, <2>2 DEF SeenRecently, SameRug
    <3>2. e.at \in Nat /\ Window \in Nat
      BY RugAnalyticsAssumption DEF EInv, Dated
    <3> QED
      BY <1>1, <2>1, <3>1, <3>2
  <2> QED
    BY <2>1, <2>2
<1>3. /\ Shape' /\ events' = events /\ pc'[r] = "classify"
      /\ job'[r].pend = Fresh(r) /\ job'[r].txAt = job[r].txAt
      /\ \A s \in Runs \ {r} : job'[s] = job[s] /\ pc'[s] = pc[s]
  BY RecordJob DEF EInv, Moved, tables
<1>4. ASSUME NEW s \in Runs PROVE PendOf(s)'
  <2>1. CASE s = r
    BY <1>2, <1>3, <2>1 DEF PendOf, AfterRecord
  <2>2. CASE s # r
    BY <1>3, <2>2 DEF EInv, PendOf
  <2> QED
    BY <2>1, <2>2
<1> QED
  BY <1>3, <1>4 DEF EInv, Dated, OwnEventsSpaced

LEMMA CommitKeeps ==
  ASSUME EInv, NEW r \in Runs, CommitAnalytics(r)
  PROVE  EInv'
<1>1. job' = [job EXCEPT ![r] = NewJob] /\ pc' = [pc EXCEPT ![r] = "later"]
      /\ now' = now /\ events' = events \cup job[r].pend
  BY DEF CommitAnalytics, Goto
<1>2. /\ Shape' /\ job'[r] = NewJob
      /\ \A s \in Runs \ {r} : job'[s] = job[s] /\ pc'[s] = pc[s]
  BY <1>1, NewJobIsRecord, OneJobShape DEF EInv, Phases, Shape
<1>3. PendOf(r) /\ job[r].txAt \in Nat
  BY DEF EInv, Shape, Stamped
<1>4. Dated'
  BY <1>1, <1>3 DEF EInv, Dated, PendOf
<1>5. ASSUME NEW s \in Runs PROVE PendOf(s)'
  <2>1. CASE s = r
    BY <1>2, <2>1 DEF PendOf, NewJob
  <2>2. CASE s # r
    <3>1. PendOf(s)
      BY DEF EInv
    <3>2. \A e \in events' : e \in events \/ e.by = r
      BY <1>1, <1>3 DEF PendOf
    <3> QED
      BY <1>2, <2>2, <3>1, <3>2 DEF PendOf, SameRug
  <2> QED
    BY <2>1, <2>2
<1>6. ASSUME NEW e \in events', NEW f \in events',
             e # f, SameRug(e, f), e.by = f.by
      PROVE  Spaced(e, f)
  <2>1. CASE e \in events /\ f \in events
    BY <1>6, <2>1 DEF EInv, OwnEventsSpaced
  <2>2. CASE e \in events /\ f \in job[r].pend
    BY <1>3, <1>6, <2>2 DEF PendOf, Spaced
  <2>3. CASE e \in job[r].pend /\ f \in events
    BY <1>3, <1>6, <2>3 DEF PendOf, Spaced, SameRug
  <2>4. CASE e \in job[r].pend /\ f \in job[r].pend
    BY <1>3, <1>6, <2>4 DEF PendOf, SameRug
  <2> QED
    BY <1>1, <2>1, <2>2, <2>3, <2>4
<1> QED
  BY <1>2, <1>4, <1>5, <1>6 DEF EInv, OwnEventsSpaced

\* Start, ingest and the waits move on without touching a job.
LEMMA MovesKeep ==
  ASSUME EInv, NEW r \in Runs,
         Start(r) \/ Ingest(r) \/ UpsertWallets(r)
  PROVE  EInv'
<1>1. PICK p \in Phases : /\ pc' = [pc EXCEPT ![r] = p]
                          /\ pc[r] \in AfterRecord => p \in AfterRecord
  BY DEF Start, Ingest, UpsertWallets, Goto, Phases, AfterRecord
<1>2. job' = job /\ now' = now /\ events' = events
  BY DEF Start, Ingest, UpsertWallets, tables
<1>3. Shape'
  BY <1>1, <1>2 DEF EInv, Shape, Fields, Stamped
<1> QED
  BY <1>1, <1>2, <1>3, QuietEvents DEF EInv, Shape

\* The statements after the insert write other fields of the job.
LEMMA StatementsKeep ==
  ASSUME EInv, NEW r \in Runs,
         \/ ReclassifyRead(r) \/ ReclassifyWrite(r)
         \/ RescoreRead(r) \/ RescoreWrite(r) \/ CountRugs(r)
  PROVE  EInv'
<1>1. PICK p \in Phases : /\ pc' = [pc EXCEPT ![r] = p]
                          /\ pc[r] \in AfterRecord => p \in AfterRecord
  BY DEF ReclassifyRead, ReclassifyWrite, RescoreRead, RescoreWrite, CountRugs,
         Goto, Phases, AfterRecord
<1>2. PICK j : /\ job' = [job EXCEPT ![r] = j] /\ j = Fields(j)
               /\ j.txAt = job[r].txAt /\ j.pend = job[r].pend
               /\ Stamped(j)
  <2>1. job[r] = Fields(job[r]) /\ Stamped(job[r])
    BY JobIsRecord DEF EInv
  <2>2. CASE ReclassifyRead(r)
    <3>1. PICK l : job' = [job EXCEPT ![r] = [job[r] EXCEPT !.label = l]]
      BY <2>2 DEF ReclassifyRead
    <3> DEFINE j == [job[r] EXCEPT !.label = l]
    <3>2. j = Fields(j) /\ Stamped(j)
          /\ j.txAt = job[r].txAt /\ j.pend = job[r].pend
      BY <2>1 DEF Fields, Stamped
    <3>3. job' = [job EXCEPT ![r] = j]
      BY <3>1
    <3> HIDE DEF j
    <3> QED
      BY <3>2, <3>3
  <2>3. CASE ReclassifyWrite(r)
    <3>1. PICK l, c :
            job' = [job EXCEPT ![r] = [job[r] EXCEPT !.class = c, !.label = l]]
      BY <2>3 DEF ReclassifyWrite
    <3> DEFINE k == [job[r] EXCEPT !.class = c]
           j == [k EXCEPT !.label = l]
    <3>2. job' = [job EXCEPT ![r] = j]
      BY <3>1
    <3>3. k = Fields(k) /\ Stamped(k)
          /\ k.txAt = job[r].txAt /\ k.pend = job[r].pend
      BY <2>1 DEF Fields, Stamped
    <3> HIDE DEF k
    <3>4. j = Fields(j) /\ Stamped(j)
          /\ j.txAt = job[r].txAt /\ j.pend = job[r].pend
      BY <3>3 DEF Fields, Stamped
    <3> HIDE DEF j
    <3> QED
      BY <3>2, <3>4
  <2>4. CASE RescoreRead(r)
    <3>1. PICK x : job' = [job EXCEPT ![r] = [job[r] EXCEPT !.points = x]]
      BY <2>4 DEF RescoreRead
    <3> DEFINE j == [job[r] EXCEPT !.points = x]
    <3>2. j = Fields(j) /\ Stamped(j)
          /\ j.txAt = job[r].txAt /\ j.pend = job[r].pend
      BY <2>1 DEF Fields, Stamped
    <3>3. job' = [job EXCEPT ![r] = j]
      BY <3>1
    <3> HIDE DEF j
    <3> QED
      BY <3>2, <3>3
  <2>5. CASE RescoreWrite(r)
    <3>1. PICK x, y :
            job' = [job EXCEPT ![r] = [job[r] EXCEPT !.score = y, !.points = x]]
      BY <2>5 DEF RescoreWrite
    <3> DEFINE k == [job[r] EXCEPT !.score = y]
           j == [k EXCEPT !.points = x]
    <3>2. job' = [job EXCEPT ![r] = j]
      BY <3>1
    <3>3. k = Fields(k) /\ Stamped(k)
          /\ k.txAt = job[r].txAt /\ k.pend = job[r].pend
      BY <2>1 DEF Fields, Stamped
    <3> HIDE DEF k
    <3>4. j = Fields(j) /\ Stamped(j)
          /\ j.txAt = job[r].txAt /\ j.pend = job[r].pend
      BY <3>3 DEF Fields, Stamped
    <3> HIDE DEF j
    <3> QED
      BY <3>2, <3>4
  <2>6. CASE CountRugs(r)
    <3>1. PICK w : job' = [job EXCEPT ![r] = [job[r] EXCEPT !.wallet = w]]
      BY <2>6 DEF CountRugs
    <3> DEFINE j == [job[r] EXCEPT !.wallet = w]
    <3>2. j = Fields(j) /\ Stamped(j)
          /\ j.txAt = job[r].txAt /\ j.pend = job[r].pend
      BY <2>1 DEF Fields, Stamped
    <3>3. job' = [job EXCEPT ![r] = j]
      BY <3>1
    <3> HIDE DEF j
    <3> QED
      BY <3>2, <3>3
  <2> QED
    BY <2>2, <2>3, <2>4, <2>5, <2>6
<1>4. now' = now /\ events' = events
  BY DEF ReclassifyRead, ReclassifyWrite, RescoreRead, RescoreWrite, CountRugs,
         tables
<1>5. /\ Shape' /\ job'[r] = j /\ pc'[r] = p
      /\ \A s \in Runs \ {r} : job'[s] = job[s] /\ pc'[s] = pc[s]
  BY <1>1, <1>2, <1>4, OneJobShape DEF EInv
<1> QED
  BY <1>1, <1>2, <1>4, <1>5, QuietEvents

LEMMA EndsKeep ==
  ASSUME EInv, NEW r \in Runs, Prune(r) \/ Error(r) \/ Crash(r)
  PROVE  EInv'
<1>1. PICK p \in Phases : pc' = [pc EXCEPT ![r] = p]
  BY DEF Prune, Error, Crash, Ended, Goto, Phases
<1>2. job' = [job EXCEPT ![r] = NewJob] /\ now' = now /\ events' \subseteq events
  BY DEF Prune, Error, Crash, Ended, tables
<1>3. /\ Shape' /\ job'[r] = NewJob
      /\ \A s \in Runs \ {r} : job'[s] = job[s] /\ pc'[s] = pc[s]
  BY <1>1, <1>2, NewJobIsRecord, OneJobShape DEF EInv, Shape
<1> QED
  BY <1>2, <1>3, QuietEvents DEF NewJob

LEMMA EventsNext == EInv /\ [Next]_vars => EInv'
<1> SUFFICES ASSUME EInv, [Next]_vars PROVE EInv'
  OBVIOUS
<1>1. CASE Tick \/ UNCHANGED vars
  <2>1. /\ UNCHANGED <<events, pc, job>>
        /\ now \in Nat /\ now' \in Nat /\ now <= now'
    BY <1>1 DEF Tick, vars, tables, EInv, Shape
  <2>2. \A r \in Runs : Stamped(job[r]) /\ job[r] = Fields(job[r])
    BY DEF EInv, Shape
  <2>3. \A r \in Runs : Stamped(job[r])'
    BY <2>1, <2>2 DEF Stamped
  <2>4. Shape'
    BY <2>1, <2>3 DEF EInv, Shape, Fields
  <2> QED
    BY <2>1, <2>4, QuietEvents
<1>2. ASSUME NEW r \in Runs, Start(r) \/ Proceed(r) \/ Error(r) \/ Crash(r)
      PROVE  EInv'
  BY <1>2, ScanKeeps, RecordKeeps, CommitKeeps, MovesKeep, StatementsKeep,
     EndsKeep DEF Proceed
<1> QED
  BY <1>1, <1>2 DEF Next

\* However executions overlap, fail and are repeated, none records a rug twice
\* within the window itself (scan_recent_mints_for_rugs).
THEOREM OwnEventsStaySpaced == Spec => []OwnEventsSpaced
<1>1. EInv => OwnEventsSpaced
  BY DEF EInv
<1> QED
  BY <1>1, EventsInit, EventsNext, PTL DEF Spec

-----------------------------------------------------------------------------
(* Snapshots *)

\* Every mint's snapshots are of the past, and one of them is the newest.
HasNewest(rows) == \E s \in rows : \A u \in rows : u.at <= s.at
Snapped ==
  \A m \in Mints :
    /\ \A s \in snaps[m] : s.at \in Nat /\ s.at <= now /\ s.row \in Rows
    /\ snaps[m] # {} => HasNewest(snaps[m])

LEMMA IngestSnaps ==
  ASSUME Shape, Snapped, NEW r \in Runs, Ingest(r)
  PROVE  Snapped'
<1>1. PICK listed \in SUBSET Mints : \E said \in [listed -> Rows] :
        snaps' = [m \in Mints |->
          IF m \in listed /\ \A s \in snaps[m] : s.at + Stale <= now
            THEN snaps[m] \cup {[at |-> now, row |-> said[m]]}
            ELSE snaps[m]]
  BY DEF Ingest
<1>2. PICK said \in [listed -> Rows] :
        snaps' = [m \in Mints |->
          IF m \in listed /\ \A s \in snaps[m] : s.at + Stale <= now
            THEN snaps[m] \cup {[at |-> now, row |-> said[m]]}
            ELSE snaps[m]]
  BY <1>1
<1>3. now' = now /\ now \in Nat
  BY DEF Ingest, Shape
<1>4. ASSUME NEW m \in Mints
      PROVE  /\ \A s \in snaps'[m] : s.at \in Nat /\ s.at <= now /\ s.row \in Rows
             /\ snaps'[m] # {} => HasNewest(snaps'[m])
  <2> DEFINE s0 == [at |-> now, row |-> said[m]]
  <2>1. /\ \A s \in snaps[m] : s.at \in Nat /\ s.at <= now /\ s.row \in Rows
        /\ snaps[m] # {} => HasNewest(snaps[m])
    BY DEF Snapped
  <2>2. CASE snaps'[m] = snaps[m]
    BY <2>1, <2>2
  <2>3. CASE m \in listed /\ snaps'[m] = snaps[m] \cup {s0}
    <3>1. s0.at = now /\ s0.row \in Rows
      BY <2>3
    <3> HIDE DEF s0
    <3> QED
      BY <1>3, <2>1, <2>3, <3>1 DEF HasNewest
  <2> QED
    BY <1>2, <2>2, <2>3
<1> QED
  BY <1>3, <1>4 DEF Snapped

LEMMA PruneSnaps ==
  ASSUME Shape, Snapped, NEW r \in Runs, Prune(r)
  PROVE  Snapped'
<1>1. /\ snaps' = [m \in Mints |-> {s \in snaps[m] : s.at + Keep >= now}]
      /\ now' = now /\ now \in Nat /\ Keep \in Nat
  BY RugAnalyticsAssumption DEF Prune, Shape
<1>2. ASSUME NEW m \in Mints
      PROVE  /\ \A s \in snaps'[m] : s.at \in Nat /\ s.at <= now /\ s.row \in Rows
             /\ snaps'[m] # {} => HasNewest(snaps'[m])
  <2>1. /\ \A s \in snaps[m] : s.at \in Nat /\ s.at <= now /\ s.row \in Rows
        /\ snaps[m] # {} => HasNewest(snaps[m])
    BY DEF Snapped
  <2>2. snaps'[m] = {s \in snaps[m] : s.at + Keep >= now}
    BY <1>1
  <2> QED
    BY <1>1, <2>1, <2>2 DEF HasNewest
<1> QED
  BY <1>1, <1>2 DEF Snapped

LEMMA SnappedNext ==
  ASSUME Shape, Snapped, [Next]_vars
  PROVE  Snapped'
<1>1. CASE \E r \in Runs : Ingest(r) \/ Prune(r)
  BY <1>1, IngestSnaps, PruneSnaps
<1>2. CASE snaps' = snaps /\ now' \in {now, now + 1}
  BY <1>2 DEF Shape, Snapped
<1> QED
  BY <1>1, <1>2 DEF Next, vars, tables, Tick, Start, Proceed, TakeCutoff,
     ScanForRugs, JudgeSignals, RecordEvents, ReclassifyRead, ReclassifyWrite, RescoreRead, RescoreWrite,
     CountRugs, UpsertWallets, CommitAnalytics, Error, Crash, Ended

-----------------------------------------------------------------------------
(* One execution at a time *)

Single == \A r, s \in Runs : r = s

\* With one execution every event is its own.
THEOREM EventsStaySpaced ==
  ASSUME Single
  PROVE  Spec => []EventsSpaced
<1>1. EInv => EventsSpaced
  BY DEF EInv, Dated, OwnEventsSpaced, EventsSpaced, Single
<1> QED
  BY <1>1, EventsInit, EventsNext, PTL DEF Spec

\* What classification c must say of m's events in evs.
Good(m, c, evs) ==
  \A e \in evs : e.mint = m =>
    /\ c \in RugClasses
    /\ Severity(e.kind) = "hard" => c = "hard_rug"

History == "suspicious_creator_wallet_history"

\* The label that the write of r will leave on m.
LabelSeen(r, m) ==
  IF m \in DOMAIN job[r].label THEN job[r].label[m] ELSE class[m]

Relabelled == {"points", "rescore", "creators", "wallets", "commit"}

\* A creator over the limit: its active tokens are signalled, have an event, and
\* none of its tokens loses a rug label to r.
Ratchet(r) ==
  \A m \in Mints : wallet[CreatorOf[m]] >= HistoryLimit =>
    /\ pc[r] = "record" /\ m \in Active(job[r].txAt) =>
         <<m, History>> \in job[r].signals
    /\ pc[r] = "classify" /\ m \in Active(job[r].txAt) =>
         \E e \in EventsSeen(r) : e.mint = m
    /\ pc[r] = "relabel" /\ class[m] \in RugClasses =>
         LabelSeen(r, m) \in RugClasses
    /\ pc[r] \in Relabelled /\ class[m] \in RugClasses =>
         ClassSeen(r, m) \in RugClasses

\* Classification c of m in what r writes: that of the events if m is active by
\* the clock of the transaction, the old one if it is not.
Right(r, m, c) ==
  IF m \in Active(job[r].txAt) THEN Good(m, c, EventsSeen(r)) ELSE c = class[m]

\* What r has written or is about to write is right about the events it sees.
Ready(r) ==
  /\ Ratchet(r)
  /\ pc[r] = "judge" => Active(job[r].txAt) \subseteq DOMAIN job[r].read
  /\ pc[r] = "record" => \A s \in job[r].signals : s[1] \in Mints
  /\ \A p \in job[r].pend : p.mint \in Mints
  /\ pc[r] = "relabel" => \A m \in Mints : Right(r, m, LabelSeen(r, m))
  /\ pc[r] \in Relabelled => \A m \in Mints : Right(r, m, ClassSeen(r, m))
  /\ pc[r] \notin Relabelled => job[r].class = Nothing
  /\ pc[r] \in {"wallets", "commit"} =>
       job[r].wallet = [c \in Creators |-> RugsSeen(r, c)]

LInv ==
  /\ EInv
  /\ \A e \in events : e.mint \in Mints
  /\ WalletsCountRugs
  /\ \A r \in Runs : Ready(r)

\* A label computed from the events is right about them.
LEMMA LabelIsGood ==
  ASSUME NEW m, NEW evs, NEW t, Label(m, evs, t) # Raises
  PROVE  Good(m, Label(m, evs, t), evs)
  BY DEF Label, BulkLabel, Raises, Good, HasEvent, EventsOf, RugClasses, Severity

LEMMA LabelsInit == Init => LInv
<1> SUFFICES ASSUME Init PROVE LInv
  OBVIOUS
<1>1. EInv
  BY EventsInit
<1>2. WalletsCountRugs
  <2>1. ASSUME NEW c \in Creators
        PROVE  {m \in Mints : CreatorOf[m] = c /\ class[m] \in RugClasses} = {}
    BY DEF Init, RugClasses
  <2> QED
    BY <2>1, FS_EmptySet DEF WalletsCountRugs, Init
<1>3. \A r \in Runs : Ready(r)
  BY DEF Init, Ready, Ratchet, NewJob, Relabelled
<1> QED
  BY <1>1, <1>2, <1>3 DEF LInv, Init

\* Steps that commit nothing but leave every promise about the labels as it was.
LEMMA SameRight ==
  ASSUME NEW r, UNCHANGED <<snaps, events, class>>,
         job'[r].txAt = job[r].txAt, job'[r].pend = job[r].pend
  PROVE  \A m, c : Right(r, m, c) => Right(r, m, c)'
<1>1. Active(job[r].txAt)' = Active(job[r].txAt)
  BY DEF Active
<1>2. EventsSeen(r)' = EventsSeen(r)
  BY DEF EventsSeen
<1> QED
  BY <1>1, <1>2 DEF Right, Good

LEMMA Uncommitted ==
  ASSUME LInv, Single, EInv', NEW r \in Runs, Ready(r)',
         events' \subseteq events, class' = class, wallet' = wallet
  PROVE  LInv'
<1>1. \A s \in Runs : Ready(s)'
  BY DEF Single
<1>2. WalletsCountRugs'
  BY DEF LInv, WalletsCountRugs
<1>3. \A e \in events' : e.mint \in Mints
  BY DEF LInv
<1> QED
  BY <1>1, <1>2, <1>3 DEF LInv


\* Reading off one execution's record after an update of one of its fields.
LEMMA JobAt ==
  ASSUME Shape, NEW r \in Runs, NEW j, job' = [job EXCEPT ![r] = j]
  PROVE  job'[r] = j
  BY DEF Shape

LEMMA PhaseAt ==
  ASSUME Shape, NEW r \in Runs, NEW p, Goto(r, p)
  PROVE  pc'[r] = p
  BY DEF Shape, Goto

\* Nothing is uncommitted before the scan, and Nothing after an end.
LEMMA EarlyReady ==
  ASSUME EInv', NEW r \in Runs,
         pc'[r] \notin {"judge", "record", "relabel"} \cup Relabelled,
         job'[r].class = Nothing, pc'[r] \notin AfterRecord
  PROVE  Ready(r)'
  BY DEF EInv, PendOf, Ready, Ratchet, Relabelled, AfterRecord

LEMMA StartLabels ==
  ASSUME LInv, Single, NEW r \in Runs, Start(r) \/ Ingest(r)
  PROVE  LInv'
<1>1. EInv'
  BY MovesKeep DEF LInv
<1>2. job' = job /\ pc[r] \in {"idle", "ingest"} /\ pc'[r] \in {"ingest", "cutoff"}
  BY PhaseAt DEF Start, Ingest, LInv, EInv
<1>3. job'[r].class = Nothing
  BY <1>2 DEF LInv, Ready, Relabelled
<1>4. Ready(r)'
  BY <1>1, <1>2, <1>3, EarlyReady DEF Relabelled, AfterRecord
<1>5. UNCHANGED <<events, class, wallet>>
  BY DEF Start, Ingest, tables
<1> QED
  BY <1>1, <1>4, <1>5, Uncommitted

LEMMA CutoffLabels ==
  ASSUME LInv, Single, NEW r \in Runs, TakeCutoff(r)
  PROVE  LInv'
<1>1. EInv'
  BY ScanKeeps DEF LInv
<1>2. /\ pc'[r] = "scan" /\ job'[r].class = Nothing
      /\ UNCHANGED <<events, class, wallet>>
  BY CutoffJob DEF LInv, EInv, Moved, tables, Ready, TakeCutoff, Relabelled
<1>3. Ready(r)'
  BY <1>1, <1>2, EarlyReady DEF Relabelled, AfterRecord
<1> QED
  BY <1>1, <1>2, <1>3, Uncommitted

\* The cutoff is not later than the transaction's start: whoever is active by the
\* clock of the transaction is scanned.
LEMMA ScanLabels ==
  ASSUME LInv, Snapped, Single, NEW r \in Runs, ScanForRugs(r)
  PROVE  LInv'
<1>1. EInv'
  BY ScanKeeps DEF LInv
<1>2. /\ pc'[r] = "judge" /\ job'[r].txAt = now /\ job'[r].read = RowsRead(r)
      /\ job'[r].class = Nothing /\ job'[r].pend = {}
      /\ UNCHANGED <<snaps, events, class, wallet>>
  BY ScanJob
  DEF LInv, EInv, Moved, PendOf, tables, Ready, ScanForRugs, Relabelled, AfterRecord
<1>3. Active(now) \subseteq Active(job[r].since)
  <2>1. now \in Nat /\ job[r].since \in Nat /\ job[r].since <= now /\ Lookback \in Nat
    BY RugAnalyticsAssumption DEF LInv, EInv, Shape, Stamped
  <2>2. \A m \in Mints : \A s \in snaps[m] : s.at \in Nat
    BY DEF Snapped
  <2> QED
    BY <2>1, <2>2 DEF Active
<1>4. (Active(job[r].txAt) \subseteq DOMAIN job[r].read)'
  BY <1>2, <1>3 DEF RowsRead, Active
<1>5. Ready(r)'
  BY <1>2, <1>4 DEF Ready, Ratchet, Relabelled
<1> QED
  BY <1>1, <1>2, <1>5, Uncommitted

LEMMA JudgeLabels ==
  ASSUME LInv, Single, NEW r \in Runs, JudgeSignals(r)
  PROVE  LInv'
<1>1. EInv'
  BY ScanKeeps DEF LInv
<1>2. /\ pc'[r] = "record" /\ job'[r].txAt = job[r].txAt
      /\ job'[r].signals = Judgement(r)
      /\ job'[r].class = Nothing /\ job'[r].pend = {}
      /\ UNCHANGED <<snaps, events, class, wallet>>
  BY JudgeJob
  DEF LInv, EInv, Moved, PendOf, tables, Ready, JudgeSignals, Relabelled, AfterRecord
<1>3. \A s \in Judgement(r) : s[1] \in Mints
  BY DEF Judgement, LInv, EInv, Shape, Stamped
<1>4. ASSUME NEW m \in Mints, wallet[CreatorOf[m]] >= HistoryLimit,
             m \in Active(job[r].txAt)
      PROVE  <<m, History>> \in Judgement(r)
  <2>1. m \in DOMAIN job[r].read
    BY <1>4 DEF LInv, Ready, JudgeSignals
  <2>2. History \in SignalsOf(job[r].read[m].latest, job[r].read[m].before,
                              wallet[CreatorOf[m]], now)
    BY <1>4 DEF SignalsOf, Kinds, SoftKinds, History
  <2>3. History \in Kinds
    BY DEF Kinds, SoftKinds, History
  <2> QED
    BY <2>1, <2>2, <2>3 DEF Judgement
<1>5. Ratchet(r)'
  BY <1>2, <1>4 DEF Ratchet, Relabelled, Active
<1>6. Ready(r)'
  BY <1>2, <1>3, <1>5 DEF Ready, Relabelled
<1> QED
  BY <1>1, <1>2, <1>6, Uncommitted

LEMMA RecordLabels ==
  ASSUME LInv, Single, NEW r \in Runs, RecordEvents(r)
  PROVE  LInv'
<1>1. EInv'
  BY RecordKeeps DEF LInv
<1>2. /\ pc'[r] = "classify" /\ job'[r].txAt = job[r].txAt
      /\ job'[r].pend = Fresh(r) /\ job'[r].class = Nothing
      /\ UNCHANGED <<snaps, events, class, wallet>>
  <2>1. job[r].class = Nothing
    BY DEF LInv, Ready, RecordEvents, Relabelled
  <2> QED
    BY <2>1, RecordJob DEF LInv, EInv, Moved, tables
<1>3. ASSUME NEW e \in Fresh(r) PROVE e.mint \in Mints
  <2>1. \A s \in job[r].signals : s[1] \in Mints
    BY DEF LInv, Ready, RecordEvents
  <2>2. PICK s \in job[r].signals :
          e = [mint |-> s[1], kind |-> s[2], at |-> job[r].txAt, by |-> r]
    BY DEF Fresh
  <2> QED
    BY <2>1, <2>2
<1>4. ASSUME NEW s \in job[r].signals
      PROVE  \E e \in events \cup Fresh(r) : e.mint = s[1]
  <2>1. CASE SeenRecently(r, s[1], s[2])
    BY <2>1 DEF SeenRecently
  <2>2. CASE ~ SeenRecently(r, s[1], s[2])
    <3> DEFINE e == [mint |-> s[1], kind |-> s[2], at |-> job[r].txAt, by |-> r]
    <3>1. e \in Fresh(r) /\ e.mint = s[1]
      BY <2>2 DEF Fresh
    <3> QED
      BY <3>1
  <2> QED
    BY <2>1, <2>2
<1>5. Ratchet(r)'
  <2>1. ASSUME NEW m \in Mints, wallet[CreatorOf[m]] >= HistoryLimit,
               m \in Active(job[r].txAt)
        PROVE  \E e \in events \cup Fresh(r) : e.mint = m
    <3>1. <<m, History>> \in job[r].signals
      BY <2>1 DEF LInv, Ready, Ratchet, RecordEvents
    <3> QED
      BY <1>4, <3>1
  <2> QED
    BY <1>2, <2>1 DEF Ratchet, Relabelled, Active, EventsSeen
<1>6. Ready(r)'
  BY <1>2, <1>3, <1>5 DEF Ready, Relabelled
<1> QED
  BY <1>1, <1>2, <1>6, Uncommitted

\* An active token gets the label of its events, or has it already.
LEMMA ReclassifyReadLabels ==
  ASSUME LInv, Single, NEW r \in Runs, ReclassifyRead(r)
  PROVE  LInv'
<1> DEFINE act == Active(job[r].txAt)
           label == [m \in act |-> Label(m, EventsSeen(r), job[r].txAt)]
           changed == {m \in DOMAIN label : label[m] # class[m]}
           new == [m \in changed |-> label[m]]
           j == [job[r] EXCEPT !.label = new]
<1>1. EInv'
  BY StatementsKeep DEF LInv
<1>2. /\ job[r] = Fields(job[r]) /\ job[r].class = Nothing
      /\ pc'[r] = "relabel"
      /\ \A p \in job[r].pend : p.mint \in Mints
  BY JobIsRecord, PhaseAt DEF LInv, EInv, ReclassifyRead, Ready, Relabelled
<1>3. job' = [job EXCEPT ![r] = j] /\ \A m \in act : label[m] # Raises
  BY DEF ReclassifyRead
<1>4. ASSUME NEW m \in Mints
      PROVE  Right(r, m, IF m \in DOMAIN new THEN new[m] ELSE class[m])
  <2>1. CASE m \in act
    <3>1. (IF m \in DOMAIN new THEN new[m] ELSE class[m])
            = Label(m, EventsSeen(r), job[r].txAt)
      BY <2>1
    <3>2. Label(m, EventsSeen(r), job[r].txAt) # Raises
      BY <1>3, <2>1
    <3> HIDE DEF new, label, changed
    <3> QED
      BY <2>1, <3>1, <3>2, LabelIsGood DEF Right
  <2>2. CASE m \notin act
    <3>1. m \notin DOMAIN new
      BY <2>2
    <3> HIDE DEF new
    <3> QED
      BY <2>2, <3>1 DEF Right
  <2> QED
    BY <2>1, <2>2
<1> HIDE DEF new
<1>5. /\ j.txAt = job[r].txAt /\ j.pend = job[r].pend /\ j.class = Nothing
      /\ j.label = new
  BY <1>2 DEF Fields
<1>6. job'[r] = j
  BY <1>3, JobAt DEF LInv, EInv
<1> HIDE DEF j
<1>7. UNCHANGED <<snaps, events, class, wallet>>
  BY DEF ReclassifyRead, tables
<1>8. Ready(r)'
  <2>1. \A m \in Mints : Right(r, m, LabelSeen(r, m))'
    BY <1>4, <1>5, <1>6, <1>7 DEF LabelSeen, EventsSeen, Right, Good, Active
  <2>2. Ratchet(r)'
    <3>1. ASSUME NEW m \in Mints, wallet[CreatorOf[m]] >= HistoryLimit,
                 class[m] \in RugClasses
          PROVE  (IF m \in DOMAIN new THEN new[m] ELSE class[m]) \in RugClasses
      <4>1. CASE m \in act
        <5>1. \E e \in EventsSeen(r) : e.mint = m
          BY <3>1, <4>1 DEF LInv, Ready, Ratchet, ReclassifyRead
        <5> QED
          BY <1>4, <4>1, <5>1 DEF Right, Good
      <4>2. CASE m \notin act
        BY <3>1, <4>2 DEF new
      <4> QED
        BY <4>1, <4>2
    <3> QED
      BY <1>2, <1>5, <1>6, <1>7, <3>1 DEF Ratchet, Relabelled, LabelSeen
  <2> QED
    BY <1>2, <1>5, <1>6, <1>7, <2>1, <2>2 DEF Ready, Relabelled, Active
<1> QED
  BY <1>1, <1>7, <1>8, Uncommitted


\* Without a concurrent commit the write leaves exactly the labels read for.
LEMMA ReclassifyWriteLabels ==
  ASSUME LInv, Single, NEW r \in Runs, ReclassifyWrite(r)
  PROVE  LInv'
<1> DEFINE differ == {m \in DOMAIN job[r].label : job[r].label[m] # class[m]}
           new == [m \in differ |-> job[r].label[m]]
           k == [job[r] EXCEPT !.class = new]
           j == [k EXCEPT !.label = Nothing]
<1>1. EInv'
  BY StatementsKeep DEF LInv
<1>2. /\ job[r] = Fields(job[r]) /\ pc'[r] = "points"
      /\ \A p \in job[r].pend : p.mint \in Mints
      /\ \A m \in Mints : Right(r, m, LabelSeen(r, m))
  BY JobIsRecord, PhaseAt DEF LInv, EInv, ReclassifyWrite, Ready
<1>3. job' = [job EXCEPT ![r] = j]
  BY DEF ReclassifyWrite
<1>4. \A m : (IF m \in DOMAIN new THEN new[m] ELSE class[m]) = LabelSeen(r, m)
  BY DEF LabelSeen
<1> HIDE DEF new
<1>5. k = Fields(k) /\ k.txAt = job[r].txAt /\ k.pend = job[r].pend /\ k.class = new
  BY <1>2 DEF Fields
<1> HIDE DEF k
<1>6. j.txAt = job[r].txAt /\ j.pend = job[r].pend /\ j.class = new
  BY <1>5 DEF Fields
<1>7. job'[r] = j
  BY <1>3, JobAt DEF LInv, EInv
<1> HIDE DEF j
<1>8. UNCHANGED <<snaps, events, class, wallet>>
  BY DEF ReclassifyWrite, tables
<1>9. Ready(r)'
  <2>1. \A m \in Mints : Right(r, m, ClassSeen(r, m))'
    BY <1>2, <1>4, <1>6, <1>7, <1>8 DEF ClassSeen, EventsSeen, Right, Good, Active
  <2>2. \A m \in Mints :
          wallet[CreatorOf[m]] >= HistoryLimit /\ class[m] \in RugClasses
            => LabelSeen(r, m) \in RugClasses
    BY DEF Ratchet, LInv, Ready, ReclassifyWrite
  <2>3. Ratchet(r)'
    <3>1. \A m : ClassSeen(r, m)' = LabelSeen(r, m)
      BY <1>4, <1>6, <1>7, <1>8 DEF ClassSeen
    <3> QED
      BY <1>2, <1>8, <2>2, <3>1 DEF Ratchet, Relabelled
  <2> QED
    BY <1>2, <1>6, <1>7, <1>8, <2>1, <2>3 DEF Ready, Relabelled, Active
<1> QED
  BY <1>1, <1>8, <1>9, Uncommitted

\* The rescoring leaves the labels alone.
LEMMA RescoreLabels ==
  ASSUME LInv, Single, NEW r \in Runs, RescoreRead(r) \/ RescoreWrite(r)
  PROVE  LInv'
<1>1. EInv'
  BY StatementsKeep DEF LInv
<1>2. job[r] = Fields(job[r])
  BY JobIsRecord DEF LInv, EInv
<1>3. PICK j : /\ job' = [job EXCEPT ![r] = j]
               /\ j.txAt = job[r].txAt /\ j.pend = job[r].pend
               /\ j.class = job[r].class
  <2>1. CASE RescoreRead(r)
    <3>1. PICK x : job' = [job EXCEPT ![r] = [job[r] EXCEPT !.points = x]]
      BY <2>1 DEF RescoreRead
    <3> DEFINE j == [job[r] EXCEPT !.points = x]
    <3>2. job' = [job EXCEPT ![r] = j]
      BY <3>1
    <3>3. /\ j.txAt = job[r].txAt /\ j.pend = job[r].pend
          /\ j.class = job[r].class
      BY <1>2 DEF Fields
    <3> HIDE DEF j
    <3> QED
      BY <3>2, <3>3
  <2>2. CASE RescoreWrite(r)
    <3>1. PICK x, y :
            job' = [job EXCEPT ![r] = [job[r] EXCEPT !.score = y, !.points = x]]
      BY <2>2 DEF RescoreWrite
    <3> DEFINE k == [job[r] EXCEPT !.score = y]
           j == [k EXCEPT !.points = x]
    <3>2. job' = [job EXCEPT ![r] = j]
      BY <3>1
    <3>3. /\ k = Fields(k) /\ k.txAt = job[r].txAt /\ k.pend = job[r].pend
          /\ k.class = job[r].class
      BY <1>2 DEF Fields
    <3> HIDE DEF k
    <3>4. /\ j.txAt = job[r].txAt /\ j.pend = job[r].pend
          /\ j.class = job[r].class
      BY <3>3 DEF Fields
    <3> HIDE DEF j
    <3> QED
      BY <3>2, <3>4
  <2> QED
    BY <2>1, <2>2
<1>4. job'[r] = j
  BY <1>3, JobAt DEF LInv, EInv
<1>5. pc[r] \in {"points", "rescore"} /\ pc'[r] \in {"rescore", "creators"}
  BY PhaseAt DEF RescoreRead, RescoreWrite, LInv, EInv
<1>6. UNCHANGED <<snaps, events, class, wallet>>
  BY DEF RescoreRead, RescoreWrite, tables
<1>7. /\ \A p \in job[r].pend : p.mint \in Mints
      /\ \A m \in Mints : Right(r, m, ClassSeen(r, m))
  BY <1>5 DEF LInv, Ready, Relabelled
<1>8. \A m : ClassSeen(r, m)' = ClassSeen(r, m)
  BY <1>3, <1>4, <1>6 DEF ClassSeen
<1>9. \A m \in Mints : Right(r, m, ClassSeen(r, m))'
  <2>1. \A m, c : Right(r, m, c) => Right(r, m, c)'
    BY <1>3, <1>4, <1>6, SameRight
  <2> QED
    BY <1>7, <1>8, <2>1 DEF Right
<1>10. Ready(r)'
  <2>1. Ratchet(r)'
    <3>1. Ratchet(r)
      BY DEF LInv, Ready
    <3> QED
      BY <1>5, <1>6, <1>8, <3>1 DEF Ratchet, Relabelled
  <2> QED
    BY <1>3, <1>4, <1>5, <1>6, <1>7, <1>9, <2>1 DEF Ready, Relabelled
<1> QED
  BY <1>1, <1>6, <1>10, Uncommitted

LEMMA CountLabels ==
  ASSUME LInv, Single, NEW r \in Runs, CountRugs(r)
  PROVE  LInv'
<1> DEFINE w == [c \in Creators |-> RugsSeen(r, c)]
           j == [job[r] EXCEPT !.wallet = w]
<1>1. EInv'
  BY StatementsKeep DEF LInv
<1>2. /\ job[r] = Fields(job[r]) /\ pc'[r] = "wallets"
      /\ \A p \in job[r].pend : p.mint \in Mints
      /\ \A m \in Mints : Right(r, m, ClassSeen(r, m))
  BY JobIsRecord, PhaseAt DEF LInv, EInv, CountRugs, Ready, Relabelled
<1>3. job' = [job EXCEPT ![r] = j]
  BY DEF CountRugs
<1>4. /\ j.txAt = job[r].txAt /\ j.pend = job[r].pend
      /\ j.class = job[r].class /\ j.wallet = w
  <2> HIDE DEF w
  <2> QED
    BY <1>2 DEF Fields
<1>5. job'[r] = j
  BY <1>3, JobAt DEF LInv, EInv
<1> HIDE DEF j
<1>6. UNCHANGED <<snaps, events, class, wallet>>
  BY DEF CountRugs, tables
<1>7. \A m : ClassSeen(r, m)' = ClassSeen(r, m)
  BY <1>4, <1>5, <1>6 DEF ClassSeen
<1>8. \A m \in Mints : Right(r, m, ClassSeen(r, m))'
  BY <1>2, <1>4, <1>5, <1>6, <1>7 DEF EventsSeen, Right, Good, Active
<1>9. job'[r].wallet = [c \in Creators |-> RugsSeen(r, c)']
  <2>1. ASSUME NEW c \in Creators PROVE RugsSeen(r, c)' = RugsSeen(r, c)
    BY <1>7 DEF RugsSeen
  <2> QED
    BY <1>4, <1>5, <2>1
<1>10. Ready(r)'
  <2>1. Ratchet(r)'
    <3>1. \A m \in Mints :
            wallet[CreatorOf[m]] >= HistoryLimit /\ class[m] \in RugClasses
              => ClassSeen(r, m) \in RugClasses
      BY DEF Ratchet, Relabelled, LInv, Ready, CountRugs
    <3> QED
      BY <1>2, <1>6, <1>7, <3>1 DEF Ratchet, Relabelled
  <2> QED
    BY <1>2, <1>4, <1>5, <1>6, <1>8, <1>9, <2>1 DEF Ready, Relabelled, Active
<1> QED
  BY <1>1, <1>6, <1>10, Uncommitted

LEMMA UpsertLabels ==
  ASSUME LInv, Single, NEW r \in Runs, UpsertWallets(r)
  PROVE  LInv'
<1>1. EInv'
  BY MovesKeep DEF LInv
<1>2. UNCHANGED <<snaps, events, class, wallet, job>>
      /\ pc[r] = "wallets" /\ pc'[r] = "commit"
  BY PhaseAt DEF UpsertWallets, tables, LInv, EInv
<1>3. /\ \A m : ClassSeen(r, m)' = ClassSeen(r, m)
      /\ EventsSeen(r)' = EventsSeen(r)
  BY <1>2 DEF ClassSeen, EventsSeen
<1>4. \A m \in Mints : Right(r, m, ClassSeen(r, m))'
  <2>1. \A m \in Mints : Right(r, m, ClassSeen(r, m))
    BY <1>2 DEF LInv, Ready, Relabelled
  <2>2. \A m, c : Right(r, m, c) => Right(r, m, c)'
    BY <1>2, SameRight
  <2> QED
    BY <1>3, <2>1, <2>2 DEF Right
<1>5. job'[r].wallet = [c \in Creators |-> RugsSeen(r, c)']
  BY <1>2, <1>3 DEF LInv, Ready, RugsSeen
<1>6. Ready(r)'
  <2>1. Ratchet(r)'
    <3>1. \A m \in Mints :
            wallet[CreatorOf[m]] >= HistoryLimit /\ class[m] \in RugClasses
              => ClassSeen(r, m) \in RugClasses
      BY <1>2 DEF Ratchet, Relabelled, LInv, Ready
    <3> QED
      BY <1>2, <1>3, <3>1 DEF Ratchet, Relabelled
  <2> QED
    BY <1>2, <1>4, <1>5, <2>1 DEF LInv, Ready, Relabelled, Active
<1> QED
  BY <1>1, <1>2, <1>6, Uncommitted

\* The commit publishes events, their labels and the labels' counts together.
LEMMA CommitLabels ==
  ASSUME LInv, Single, NEW r \in Runs, CommitAnalytics(r)
  PROVE  LInv'
<1>1. EInv'
  BY CommitKeeps DEF LInv
<1>2. /\ \A m \in Mints : Right(r, m, ClassSeen(r, m))
      /\ job[r].wallet = [c \in Creators |-> RugsSeen(r, c)]
      /\ \A p \in job[r].pend : p.mint \in Mints
  BY DEF LInv, Ready, Relabelled, CommitAnalytics
<1>3. /\ events' = EventsSeen(r)
      /\ class' = [m \in Mints |-> ClassSeen(r, m)]
      /\ wallet' = job[r].wallet
      /\ job' = [job EXCEPT ![r] = NewJob]
      /\ pc'[r] = "later"
  BY PhaseAt DEF CommitAnalytics, EventsSeen, LInv, EInv
<1>4. \A e \in events' : e.mint \in Mints
  BY <1>2, <1>3 DEF EventsSeen, LInv
<1>5. WalletsCountRugs'
  <2>1. ASSUME NEW c \in Creators
        PROVE  {m \in Mints : CreatorOf[m] = c /\ class'[m] \in RugClasses}
               = {m \in Mints : CreatorOf[m] = c /\ ClassSeen(r, m) \in RugClasses}
    BY <1>3
  <2> QED
    BY <1>2, <1>3, <2>1 DEF WalletsCountRugs, RugsSeen
<1>6. job'[r] = NewJob
  BY <1>3, JobAt DEF LInv, EInv
<1>7. Ready(r)'
  BY <1>1, <1>3, <1>6, EarlyReady DEF NewJob, Relabelled, AfterRecord
<1> QED
  BY <1>1, <1>4, <1>5, <1>7 DEF LInv, Single

\* A rollback, a kill or a prune takes back whatever was uncommitted.
LEMMA EndLabels ==
  ASSUME LInv, Single, NEW r \in Runs, Prune(r) \/ Error(r) \/ Crash(r)
  PROVE  LInv'
<1>1. EInv'
  BY EndsKeep DEF LInv
<1>2. /\ job' = [job EXCEPT ![r] = NewJob]
      /\ pc'[r] \in {"idle", "ingest"}
      /\ events' \subseteq events /\ UNCHANGED <<class, wallet>>
  BY PhaseAt DEF Prune, Error, Crash, Ended, tables, LInv, EInv
<1>3. job'[r] = NewJob
  BY <1>2, JobAt DEF LInv, EInv
<1>4. Ready(r)'
  BY <1>1, <1>2, <1>3, EarlyReady DEF NewJob, Relabelled, AfterRecord
<1> QED
  BY <1>1, <1>2, <1>4, Uncommitted

LEMMA LabelsNext == Single /\ LInv /\ Snapped /\ [Next]_vars => LInv'
<1> SUFFICES ASSUME Single, LInv, Snapped, [Next]_vars PROVE LInv'
  OBVIOUS
<1>1. CASE Tick \/ UNCHANGED vars
  <2>1. UNCHANGED <<tables, pc, job>>
    BY <1>1 DEF Tick, vars
  <2>2. EInv'
    BY EventsNext DEF LInv
  <2>3. ASSUME NEW r \in Runs PROVE Ready(r)'
    <3>1. /\ \A m : ClassSeen(r, m)' = ClassSeen(r, m)
          /\ \A m : LabelSeen(r, m)' = LabelSeen(r, m)
          /\ EventsSeen(r)' = EventsSeen(r)
      BY <2>1 DEF ClassSeen, LabelSeen, EventsSeen, tables
    <3>2. Ready(r)
      BY DEF LInv
    <3>3. \A c \in Creators : RugsSeen(r, c)' = RugsSeen(r, c)
      BY <3>1 DEF RugsSeen
    <3>4. /\ (\A m \in Mints : Right(r, m, LabelSeen(r, m)))
             => \A m \in Mints : Right(r, m, LabelSeen(r, m))'
          /\ (\A m \in Mints : Right(r, m, ClassSeen(r, m)))
             => \A m \in Mints : Right(r, m, ClassSeen(r, m))'
      BY <2>1, <3>1 DEF Right, Good, Active, tables
    <3>5. \A t : Active(t)' = Active(t)
      BY <2>1 DEF Active, tables
    <3>6. [c \in Creators |-> RugsSeen(r, c)]'
            = [c \in Creators |-> RugsSeen(r, c)]
      BY <3>3
    <3>7. job'[r] = job[r] /\ pc'[r] = pc[r]
      BY <2>1
    <3>8. /\ pc[r] = "relabel" =>
               \A m \in Mints : Right(r, m, LabelSeen(r, m))'
          /\ pc[r] \in Relabelled =>
               \A m \in Mints : Right(r, m, ClassSeen(r, m))'
      BY <3>2, <3>4 DEF Ready
    <3>9. /\ pc[r] = "judge" =>
               Active(job[r].txAt)' \subseteq DOMAIN job[r].read
          /\ pc[r] = "record" => \A s \in job[r].signals : s[1] \in Mints
          /\ \A p \in job[r].pend : p.mint \in Mints
      BY <3>2, <3>5, <3>7 DEF Ready
    <3>10. /\ pc[r] \notin Relabelled => job[r].class = Nothing
           /\ pc[r] \in {"wallets", "commit"} =>
                job[r].wallet = [c \in Creators |-> RugsSeen(r, c)]'
      BY <3>2, <3>6 DEF Ready
    <3>11. Ratchet(r)'
      <4>1. wallet' = wallet /\ class' = class
        BY <2>1 DEF tables
      <4> QED
        BY <3>1, <3>2, <3>5, <3>7, <4>1 DEF Ready, Ratchet
    <3> QED
      BY <3>7, <3>8, <3>9, <3>10, <3>11 DEF Ready
  <2> QED
    BY <2>1, <2>2, <2>3
    DEF LInv, WalletsCountRugs, tables
<1>2. ASSUME NEW r \in Runs, Start(r) \/ Proceed(r) \/ Error(r) \/ Crash(r)
      PROVE  LInv'
  BY <1>2, StartLabels, CutoffLabels, ScanLabels, JudgeLabels, RecordLabels,
     ReclassifyReadLabels, ReclassifyWriteLabels, RescoreLabels, CountLabels, UpsertLabels,
     CommitLabels, EndLabels DEF Proceed
<1> QED
  BY <1>1, <1>2 DEF Next

\* The snapshots are what they are whoever works on them.
WInv == LInv /\ Snapped

LEMMA WorkInit == Init => WInv
  BY LabelsInit DEF Init, Snapped, WInv

LEMMA WorkNext == ASSUME Single PROVE WInv /\ [Next]_vars => WInv'
  BY LabelsNext, SnappedNext DEF WInv, LInv, EInv

\* What a step other than a commit does to labels and events.
LEMMA OnlyCommits ==
  ASSUME [Next]_vars
  PROVE  \/ class' = class /\ events' \subseteq events
         \/ \E r \in Runs : CommitAnalytics(r)
<1>1. CASE \E r \in Runs : Prune(r)
  BY <1>1 DEF Prune
<1>2. CASE UNCHANGED <<class, events>>
  BY <1>2
<1> QED
  BY <1>1, <1>2
  DEF Next, Tick, Start, Proceed, Ingest, TakeCutoff, ScanForRugs, JudgeSignals,
      RecordEvents, ReclassifyRead, ReclassifyWrite, RescoreRead, RescoreWrite,
      CountRugs, UpsertWallets, Error, Crash, tables, vars

\* Only a commit leads from "commit" to "later".
LEMMA OnlyTheCommit ==
  ASSUME Shape, [Next]_vars, NEW r \in Runs, Commits(r)
  PROVE  CommitAnalytics(r)
<1>1. pc \in [Runs -> Phases] /\ pc[r] = "commit" /\ pc'[r] = "later"
  BY DEF Shape, Commits
<1>2. PICK s \in Runs : Start(s) \/ Proceed(s) \/ Error(s) \/ Crash(s)
  BY <1>1 DEF Next, Tick, vars
<1>3. CASE CommitAnalytics(s)
  BY <1>1, <1>3 DEF CommitAnalytics, Goto
<1>4. CASE ~ CommitAnalytics(s)
  <2>1. PICK p \in Phases \ {"later"} : pc' = [pc EXCEPT ![s] = p]
    <3>1. CASE \/ Start(s) \/ Ingest(s) \/ TakeCutoff(s) \/ ScanForRugs(s)
               \/ JudgeSignals(s) \/ RecordEvents(s) \/ UpsertWallets(s)
      BY <3>1 DEF Start, Ingest, TakeCutoff, ScanForRugs, JudgeSignals,
         RecordEvents, UpsertWallets, Goto, Phases
    <3>2. CASE \/ ReclassifyRead(s) \/ ReclassifyWrite(s) \/ RescoreRead(s)
               \/ RescoreWrite(s) \/ CountRugs(s)
      BY <3>2 DEF ReclassifyRead, ReclassifyWrite, RescoreRead, RescoreWrite,
         CountRugs, Goto, Phases
    <3>3. CASE Prune(s) \/ Error(s) \/ Crash(s)
      BY <3>3 DEF Prune, Error, Crash, Ended, Goto, Phases
    <3> QED
      BY <1>2, <1>4, <3>1, <3>2, <3>3 DEF Proceed
  <2> QED
    BY <1>1, <2>1
<1> QED
  BY <1>3, <1>4

\* A commit of r labels the events of the tokens that are active by the clock of
\* its transaction, and leaves the other labels.
LEMMA CommitFlags ==
  ASSUME LInv, Single, NEW r \in Runs, CommitAnalytics(r), NEW e \in events'
  PROVE  \/ Labelled(e)'
         \/ /\ e \in events => ~ Labelled(e)
            /\ e.mint \notin Active(job[r].txAt)
<1>1. /\ events' = EventsSeen(r) /\ class' = [m \in Mints |-> ClassSeen(r, m)]
      /\ pc[r] = "commit"
  BY DEF CommitAnalytics, EventsSeen
<1>2. e.mint \in Mints
  BY <1>1 DEF LInv, Ready, EventsSeen
<1>3. Right(r, e.mint, class'[e.mint])
  BY <1>1, <1>2 DEF LInv, Ready, Relabelled
<1>4. CASE e.mint \in Active(job[r].txAt)
  BY <1>1, <1>3, <1>4 DEF Right, Good, Labelled
<1>5. CASE e.mint \notin Active(job[r].txAt)
  BY <1>3, <1>5 DEF Right, Labelled
<1> QED
  BY <1>4, <1>5

\* Executed one at a time, the daily job labels every rug on record that is in
\* its transaction's 72 hours and takes no rug's label away
\* (reclassify_recent_mints), whatever fails, is repeated or pruned.
THEOREM FlagsReachLabels ==
  ASSUME Single
  PROVE  Spec => FlagsAreLabelled
<1>1. ASSUME WInv, [Next]_vars
      PROVE  [\A e \in events' :
                \/ Labelled(e)'
                \/ /\ e \in events => ~ Labelled(e)
                   /\ \A r \in Runs :
                        Commits(r) => e.mint \notin Active(job[r].txAt)]_vars
  <2>1. CASE \E r \in Runs : CommitAnalytics(r)
    BY <1>1, <2>1, CommitFlags DEF WInv, Single
  <2>2. CASE class' = class /\ events' \subseteq events
             /\ ~ \E r \in Runs : CommitAnalytics(r)
    <3>1. ASSUME NEW e \in events' PROVE Labelled(e)' <=> Labelled(e)
      BY <2>2 DEF Labelled
    <3>2. ~ \E r \in Runs : Commits(r)
      BY <1>1, <2>2, OnlyTheCommit DEF WInv, LInv, EInv
    <3> QED
      BY <2>2, <3>1, <3>2
  <2> QED
    BY <1>1, <2>1, <2>2, OnlyCommits
<1>2. WInv /\ [Next]_vars => WInv'
  BY WorkNext
<1> QED
  BY <1>1, <1>2, WorkInit, PTL DEF Spec, FlagsAreLabelled

\* ... and the creators' counts are those of the labels.
THEOREM LabelsReachWallets ==
  ASSUME Single
  PROVE  Spec => []WalletsCountRugs
<1>1. WInv => WalletsCountRugs
  BY DEF WInv, LInv
<1>2. WInv /\ [Next]_vars => WInv'
  BY WorkNext
<1> QED
  BY <1>1, <1>2, WorkInit, PTL DEF Spec


\* The commit of r takes no creator over the limit back under it.
LEMMA CommitRatchets ==
  ASSUME LInv, IsFiniteSet(Mints), NEW r \in Runs, CommitAnalytics(r),
         NEW c \in Creators, wallet[c] >= HistoryLimit
  PROVE  wallet'[c] >= HistoryLimit
<1> DEFINE old == {m \in Mints : CreatorOf[m] = c /\ class[m] \in RugClasses}
           new == {m \in Mints : CreatorOf[m] = c
                                 /\ ClassSeen(r, m) \in RugClasses}
<1>1. old \subseteq new
  BY DEF LInv, Ready, Ratchet, CommitAnalytics, Relabelled
<1>2. wallet[c] = Cardinality(old) /\ wallet'[c] = Cardinality(new)
  BY DEF LInv, WalletsCountRugs, Ready, CommitAnalytics, RugsSeen
<1>3. IsFiniteSet(new)
  BY FS_Subset
<1>4. IsFiniteSet(old) /\ Cardinality(old) <= Cardinality(new)
  BY <1>1, <1>3, FS_Subset
<1>5. Cardinality(old) \in Nat /\ Cardinality(new) \in Nat /\ HistoryLimit \in Nat
  BY <1>3, <1>4, FS_CardinalityType, RugSignalsAssumption
<1> QED
  BY <1>2, <1>4, <1>5

\* The reputation is a ratchet (suspicious_creator_wallet_history and
\* recompute_creator_wallets feed each other), for any tokens and rows.
THEOREM SuspicionStays ==
  ASSUME Single, IsFiniteSet(Mints)
  PROVE  Spec => SuspicionIsPermanent
<1>1. WInv /\ [Next]_vars => WInv'
  BY WorkNext
<1>2. ASSUME WInv, [Next]_vars
      PROVE  [\A c \in Creators : wallet[c] >= HistoryLimit
                                    => wallet'[c] >= HistoryLimit]_vars
  <2>1. wallet' = wallet \/ \E r \in Runs : CommitAnalytics(r)
    BY <1>2 DEF Next, Tick, Start, Proceed, Ingest, TakeCutoff, ScanForRugs,
       JudgeSignals, RecordEvents, ReclassifyRead, ReclassifyWrite, RescoreRead, RescoreWrite, CountRugs,
       UpsertWallets, Prune, Error, Crash, tables, vars
  <2> QED
    BY <1>2, <2>1, CommitRatchets DEF WInv
<1> QED
  BY <1>1, <1>2, WorkInit, PTL DEF Spec, SuspicionIsPermanent

-----------------------------------------------------------------------------
(* Executions that have been alone, among any number of executions *)

Countable ==
  IsFiniteSet(Mints) =>
    /\ IsFiniteSet(events)
    /\ \A r \in Runs : IsFiniteSet(job[r].signals) /\ IsFiniteSet(job[r].pend)

\* What r's transaction goes by: the active tokens, the signals that last since
\* its start, and the labels and scores that its view of the tables calls for.
Act(r) == Active(job[r].txAt)
Lasts(r, m, kind) == \A t \in job[r].txAt .. now : kind \in Signals(m, t)
Due(r, m) == Label(m, EventsSeen(r), job[r].txAt)
Worth(r, m) == Points(m, EventsSeen(r), job[r].txAt)
PointsSeen(r, m) ==
  IF m \in DOMAIN job[r].points THEN job[r].points[m] ELSE score[m]
Recorded(r) ==
  \A m \in Act(r), kind \in Kinds : Lasts(r, m, kind) =>
    \E e \in EventsSeen(r) : e.mint = m /\ e.kind = kind
                             /\ e.at + Window > job[r].txAt

Rescored == {"creators", "wallets", "commit"}

\* While r is alone, what it has read is still so, and what it has written
\* follows from it.
Alone(r) ==
  /\ pc[r] # "idle" /\ \A s \in Runs \ {r} : pc[s] = "idle"
  /\ pc[r] = "judge" =>
       \A m \in Act(r) :
         /\ m \in DOMAIN job[r].read
         /\ job[r].read[m].latest = Latest(m) /\ job[r].read[m].before = Previous(m)
  /\ pc[r] = "record" =>
       \A m \in Act(r), kind \in Kinds :
         Lasts(r, m, kind) => <<m, kind>> \in job[r].signals
  /\ pc[r] \in AfterRecord => Recorded(r)
  /\ pc[r] = "relabel" =>
       \A m \in Act(r) : LabelSeen(r, m) = Due(r, m) /\ Due(r, m) # Raises
  /\ pc[r] \in Relabelled =>
       \A m \in Act(r) : ClassSeen(r, m) = Due(r, m) /\ Due(r, m) # Raises
  /\ pc[r] = "rescore" => \A m \in Act(r) : PointsSeen(r, m) = Worth(r, m)
  /\ pc[r] \in Rescored => \A m \in Act(r) : ScoreSeen(r, m) = Worth(r, m)
  /\ pc[r] \in {"wallets", "commit"} =>
       job[r].wallet = [c \in Creators |-> RugsSeen(r, c)]

AInv ==
  /\ EInv /\ Snapped /\ Countable
  /\ lone \subseteq Runs /\ \A r \in lone : Alone(r)

LEMMA AloneInit == Init => AInv
<1> SUFFICES ASSUME Init PROVE AInv
  OBVIOUS
<1>1. EInv
  BY EventsInit
<1>2. Countable
  BY FS_EmptySet DEF Init, Countable, NewJob
<1> QED
  BY <1>1, <1>2 DEF Init, AInv, Snapped

\* A view that nothing but time has changed: fewer signals last.
LEMMA SameView ==
  ASSUME UNCHANGED <<snaps, events, class, score, wallet>>, NEW r \in Runs,
         job'[r].txAt = job[r].txAt, job'[r].pend = job[r].pend,
         now \in Nat, now' \in Nat, now <= now', job[r].txAt \in Nat
  PROVE  /\ Act(r)' = Act(r)
         /\ EventsSeen(r)' = EventsSeen(r)
         /\ \A m : Latest(m)' = Latest(m) /\ Previous(m)' = Previous(m)
         /\ \A m, kind : Lasts(r, m, kind)' => Lasts(r, m, kind)
         /\ \A m : Due(r, m)' = Due(r, m)
         /\ \A m : Worth(r, m)' = Worth(r, m)
         /\ Recorded(r) => Recorded(r)'
<1>1. Act(r)' = Act(r) /\ EventsSeen(r)' = EventsSeen(r)
  BY DEF Act, Active, EventsSeen
<1>2. \A m : Latest(m)' = Latest(m) /\ Previous(m)' = Previous(m)
  BY DEF Latest, Previous
<1>3. \A m, kind : Lasts(r, m, kind)' => Lasts(r, m, kind)
  <2>1. \A m, t : Signals(m, t)' = Signals(m, t)
    BY <1>2 DEF Signals
  <2>2. job[r].txAt .. now \subseteq job[r].txAt .. now'
    OBVIOUS
  <2> QED
    BY <2>1, <2>2 DEF Lasts
<1>4. \A m : Due(r, m)' = Due(r, m)
  BY <1>1, <1>2 DEF Due, Label, HasEvent, EventsOf
<1>5. \A m : Worth(r, m)' = Worth(r, m)
  BY <1>1, <1>2 DEF Worth, Points, EventsOf
<1>6. Recorded(r) => Recorded(r)'
  BY <1>1, <1>3 DEF Recorded
<1> QED
  BY <1>1, <1>2, <1>3, <1>4, <1>5, <1>6

\* A step of one execution: whoever is alone afterwards took it.
LEMMA OneStep ==
  ASSUME AInv, EInv', Snapped', Countable', NEW r \in Runs, pc[r] # "idle",
         NEW p, pc' = [pc EXCEPT ![r] = p],
         lone' \subseteq lone, r \in lone' => Alone(r)'
  PROVE  AInv'
<1>1. ASSUME NEW s \in lone' PROVE Alone(s)'
  <2>1. Alone(s) /\ s \in Runs
    BY <1>1 DEF AInv
  <2>2. s = r
    BY <2>1 DEF Alone
  <2> QED
    BY <1>1, <2>2
<1> QED
  BY <1>1 DEF AInv

\* A statement of r leaves the tables, the other jobs, and of its own what it
\* has scanned and recorded.
Kept(r) ==
  /\ UNCHANGED <<snaps, events, class, score, wallet>>
  /\ \A s \in Runs \ {r} : job'[s] = job[s]
  /\ job'[r].txAt = job[r].txAt
  /\ job'[r].signals = job[r].signals /\ job'[r].pend = job[r].pend

LEMMA OneJob ==
  ASSUME Shape, NEW r \in Runs, NEW j, job' = [job EXCEPT ![r] = j]
  PROVE  job'[r] = j /\ \A s \in Runs \ {r} : job'[s] = job[s]
BY DEF Shape

LEMMA ReclassifyReadJob ==
  ASSUME Shape, NEW r \in Runs, ReclassifyRead(r)
  PROVE  /\ Kept(r)
         /\ job'[r].label =
              [m \in {m \in Act(r) : Due(r, m) # class[m]} |-> Due(r, m)]
<1> DEFINE label == [m \in Act(r) |-> Due(r, m)]
           new == [m \in {m \in DOMAIN label : label[m] # class[m]} |-> label[m]]
           j == [job[r] EXCEPT !.label = new]
<1>1. job' = [job EXCEPT ![r] = j] /\ UNCHANGED tables
  BY DEF ReclassifyRead, Act, Due
<1>2. job[r] = Fields(job[r])
  BY JobIsRecord
<1>3. new = [m \in {m \in Act(r) : Due(r, m) # class[m]} |-> Due(r, m)]
  OBVIOUS
<1> HIDE DEF new
<1>4. /\ j.txAt = job[r].txAt /\ j.signals = job[r].signals
      /\ j.pend = job[r].pend /\ j.label = new
  BY <1>2 DEF Fields
<1> HIDE DEF j
<1> QED
  BY <1>1, <1>3, <1>4, OneJob DEF Kept, tables

LEMMA ReclassifyWriteJob ==
  ASSUME Shape, NEW r \in Runs, ReclassifyWrite(r)
  PROVE  /\ Kept(r)
         /\ job'[r].class =
              [m \in {m \in DOMAIN job[r].label : job[r].label[m] # class[m]}
                 |-> job[r].label[m]]
<1> DEFINE new == [m \in {m \in DOMAIN job[r].label : job[r].label[m] # class[m]}
                     |-> job[r].label[m]]
           k == [job[r] EXCEPT !.class = new]
           j == [k EXCEPT !.label = Nothing]
<1>1. job' = [job EXCEPT ![r] = j] /\ UNCHANGED tables
  BY DEF ReclassifyWrite
<1>2. job[r] = Fields(job[r])
  BY JobIsRecord
<1> HIDE DEF new
<1>3. /\ k = Fields(k) /\ k.txAt = job[r].txAt /\ k.signals = job[r].signals
      /\ k.pend = job[r].pend /\ k.class = new
  BY <1>2 DEF Fields
<1> HIDE DEF k
<1>4. /\ j.txAt = job[r].txAt /\ j.signals = job[r].signals
      /\ j.pend = job[r].pend /\ j.class = new
  BY <1>3 DEF Fields
<1> HIDE DEF j
<1> QED
  BY <1>1, <1>4, OneJob DEF Kept, tables, new

LEMMA RescoreReadJob ==
  ASSUME Shape, NEW r \in Runs, RescoreRead(r)
  PROVE  /\ Kept(r) /\ job'[r].class = job[r].class
         /\ job'[r].points =
              [m \in {m \in Act(r) : Worth(r, m) # score[m]} |-> Worth(r, m)]
<1> DEFINE points == [m \in Act(r) |-> Worth(r, m)]
           new == [m \in {m \in DOMAIN points : points[m] # score[m]} |-> points[m]]
           j == [job[r] EXCEPT !.points = new]
<1>1. job' = [job EXCEPT ![r] = j] /\ UNCHANGED tables
  BY DEF RescoreRead, Act, Worth
<1>2. job[r] = Fields(job[r])
  BY JobIsRecord
<1>3. new = [m \in {m \in Act(r) : Worth(r, m) # score[m]} |-> Worth(r, m)]
  OBVIOUS
<1> HIDE DEF new
<1>4. /\ j.txAt = job[r].txAt /\ j.signals = job[r].signals
      /\ j.pend = job[r].pend /\ j.class = job[r].class /\ j.points = new
  BY <1>2 DEF Fields
<1> HIDE DEF j
<1> QED
  BY <1>1, <1>3, <1>4, OneJob DEF Kept, tables

LEMMA RescoreWriteJob ==
  ASSUME Shape, NEW r \in Runs, RescoreWrite(r)
  PROVE  /\ Kept(r) /\ job'[r].class = job[r].class
         /\ job'[r].score =
              [m \in {m \in DOMAIN job[r].points : job[r].points[m] # score[m]}
                 |-> job[r].points[m]]
<1> DEFINE new == [m \in {m \in DOMAIN job[r].points : job[r].points[m] # score[m]}
                     |-> job[r].points[m]]
           k == [job[r] EXCEPT !.score = new]
           j == [k EXCEPT !.points = Nothing]
<1>1. job' = [job EXCEPT ![r] = j] /\ UNCHANGED tables
  BY DEF RescoreWrite
<1>2. job[r] = Fields(job[r])
  BY JobIsRecord
<1> HIDE DEF new
<1>3. /\ k = Fields(k) /\ k.txAt = job[r].txAt /\ k.signals = job[r].signals
      /\ k.pend = job[r].pend /\ k.class = job[r].class /\ k.score = new
  BY <1>2 DEF Fields
<1> HIDE DEF k
<1>4. /\ j.txAt = job[r].txAt /\ j.signals = job[r].signals
      /\ j.pend = job[r].pend /\ j.class = job[r].class /\ j.score = new
  BY <1>3 DEF Fields
<1> HIDE DEF j
<1> QED
  BY <1>1, <1>4, OneJob DEF Kept, tables, new

LEMMA CountRugsJob ==
  ASSUME Shape, NEW r \in Runs, CountRugs(r)
  PROVE  /\ Kept(r) /\ job'[r].class = job[r].class
         /\ job'[r].score = job[r].score
         /\ job'[r].wallet = [c \in Creators |-> RugsSeen(r, c)]
<1> DEFINE new == [c \in Creators |-> RugsSeen(r, c)]
           j == [job[r] EXCEPT !.wallet = new]
<1>1. job' = [job EXCEPT ![r] = j] /\ UNCHANGED tables
  BY DEF CountRugs
<1>2. job[r] = Fields(job[r])
  BY JobIsRecord
<1> HIDE DEF new
<1>3. /\ j.txAt = job[r].txAt /\ j.signals = job[r].signals
      /\ j.pend = job[r].pend /\ j.class = job[r].class
      /\ j.score = job[r].score /\ j.wallet = new
  BY <1>2 DEF Fields
<1> HIDE DEF j
<1> QED
  BY <1>1, <1>3, OneJob DEF Kept, tables, new

\* A step leaves the sets of a job alone, empties them, or makes them anew from
\* finite ones.
LEMMA CountableStep ==
  ASSUME AInv, NEW r \in Runs,
         \A s \in Runs \ {r} : job'[s] = job[s],
         IsFiniteSet(Mints) =>
           IsFiniteSet(events') /\ IsFiniteSet(job'[r].signals)
             /\ IsFiniteSet(job'[r].pend)
  PROVE  Countable'
BY DEF AInv, Countable

LEMMA CountableNext ==
  ASSUME AInv, [Next]_vars
  PROVE  Countable'
<1>1. CASE job' = job /\ events' \subseteq events
  BY <1>1, FS_Subset DEF AInv, Countable
<1>2. ASSUME NEW r \in Runs, Prune(r) \/ Error(r) \/ Crash(r)
      PROVE  Countable'
  <2>1. job' = [job EXCEPT ![r] = NewJob] /\ events' \subseteq events
    BY <1>2 DEF Prune, Error, Crash, Ended, tables
  <2>2. job'[r] = NewJob /\ \A s \in Runs \ {r} : job'[s] = job[s]
    BY <2>1, OneJob DEF AInv, EInv
  <2> QED
    BY <2>1, <2>2, CountableStep, FS_EmptySet, FS_Subset
    DEF NewJob, AInv, Countable
<1>3. ASSUME NEW r \in Runs, CommitAnalytics(r)
      PROVE  Countable'
  <2>1. job' = [job EXCEPT ![r] = NewJob] /\ events' = events \cup job[r].pend
    BY <1>3 DEF CommitAnalytics
  <2>2. job'[r] = NewJob /\ \A s \in Runs \ {r} : job'[s] = job[s]
    BY <2>1, OneJob DEF AInv, EInv
  <2>3. NewJob.signals = {} /\ NewJob.pend = {}
    BY DEF NewJob
  <2>4. IsFiniteSet(Mints) => IsFiniteSet(events')
    BY <2>1, FS_Union DEF AInv, Countable
  <2> QED
    BY <2>2, <2>3, <2>4, CountableStep, FS_EmptySet
<1>4. ASSUME NEW r \in Runs, TakeCutoff(r) \/ ScanForRugs(r)
      PROVE  Countable'
  <2>1. /\ events' = events /\ \A s \in Runs \ {r} : job'[s] = job[s]
        /\ job'[r].signals = job[r].signals /\ job'[r].pend = job[r].pend
    BY <1>4, CutoffJob, ScanJob DEF AInv, EInv, Moved, tables
  <2> QED
    BY <2>1, CountableStep DEF AInv, Countable
<1>5. ASSUME NEW r \in Runs, JudgeSignals(r)
      PROVE  Countable'
  <2>1. /\ events' = events /\ \A s \in Runs \ {r} : job'[s] = job[s]
        /\ job'[r].signals = Judgement(r) /\ job'[r].pend = job[r].pend
    BY <1>5, JudgeJob DEF AInv, EInv, Moved, tables
  <2>2. IsFiniteSet(Kinds)
    <3>1. Kinds = (((({"ath_drawdown_90pct"}
            \cup {"ath_drawdown_70pct_within_24h_of_ath"})
            \cup {"top_holder_dump"})
            \cup {"suspicious_creator_wallet_history"})
            \cup {"major_dev_sell_proxy"})
      BY DEF Kinds, HardKinds, SoftKinds
    <3>2. IsFiniteSet({"ath_drawdown_90pct"})
      BY FS_Singleton
    <3>3. \A S, x : IsFiniteSet(S) => IsFiniteSet(S \cup {x})
      BY FS_AddElement
    <3> QED
      BY <3>1, <3>2, <3>3
  <2>3. ASSUME IsFiniteSet(Mints) PROVE IsFiniteSet(Judgement(r))
    <3>1. DOMAIN job[r].read \subseteq Mints
      BY DEF AInv, EInv, Shape, Stamped
    <3>2. IsFiniteSet(DOMAIN job[r].read)
      BY <2>3, <3>1, FS_Subset
    <3>3. IsFiniteSet((DOMAIN job[r].read) \X Kinds)
      BY <2>2, <3>2, FS_Product
    <3>4. Judgement(r) \subseteq (DOMAIN job[r].read) \X Kinds
      BY DEF Judgement
    <3> QED
      BY <3>3, <3>4, FS_Subset
  <2> QED
    BY <2>1, <2>3, CountableStep DEF AInv, Countable
<1>7. ASSUME NEW r \in Runs, RecordEvents(r)
      PROVE  Countable'
  <2> DEFINE x == {s \in job[r].signals : ~ SeenRecently(r, s[1], s[2])}
             new == Fresh(r)
             f == [s \in x |-> [mint |-> s[1], kind |-> s[2],
                                at |-> job[r].txAt, by |-> r]]
  <2>1. /\ events' = events /\ \A s \in Runs \ {r} : job'[s] = job[s]
        /\ job'[r].signals = {} /\ job'[r].pend = new
    BY <1>7, RecordJob DEF AInv, EInv, Moved, tables
  <2>2. ASSUME IsFiniteSet(Mints) PROVE IsFiniteSet(new)
    <3>1. IsFiniteSet(x)
      BY <2>2, FS_Subset DEF AInv, Countable
    <3>2. new = {[mint |-> s[1], kind |-> s[2], at |-> job[r].txAt, by |-> r] :
                   s \in x}
      BY DEF Fresh
    <3> HIDE DEF x, new
    <3>3. f \in [x -> new] /\ \A t \in new : \E s \in x : f[s] = t
      BY <3>2
    <3> HIDE DEF f
    <3>4. f \in Surjection(x, new)
      BY <3>3 DEF Surjection
    <3> QED
      BY <3>1, <3>4, FS_Surjection
  <2> HIDE DEF new
  <2> QED
    BY <2>1, <2>2, FS_EmptySet, CountableStep DEF AInv, Countable
<1>6. ASSUME NEW r \in Runs,
             \/ ReclassifyRead(r) \/ ReclassifyWrite(r)
             \/ RescoreRead(r) \/ RescoreWrite(r) \/ CountRugs(r)
      PROVE  Countable'
  <2>1. Kept(r)
    BY <1>6, ReclassifyReadJob, ReclassifyWriteJob, RescoreReadJob,
       RescoreWriteJob, CountRugsJob DEF AInv, EInv
  <2> QED
    BY <2>1, CountableStep DEF Kept, AInv, Countable
<1> QED
  BY <1>1, <1>2, <1>3, <1>4, <1>5, <1>6, <1>7 DEF Next, vars, tables, Tick,
     Start, Proceed, Ingest, UpsertWallets

-----------------------------------------------------------------------------
(* Each step of an execution that is alone *)

\* Only r moves; its view is what it was.
LEMMA AloneView ==
  ASSUME AInv, NEW r \in Runs, NEW p, Moved(r, p), UNCHANGED tables,
         job'[r].txAt = job[r].txAt
  PROVE  /\ Act(r)' = Act(r)
         /\ \A m : Latest(m)' = Latest(m) /\ Previous(m)' = Previous(m)
         /\ \A m, kind : Lasts(r, m, kind)' => Lasts(r, m, kind)
<1>1. Act(r)' = Act(r)
  BY DEF Act, Active, tables
<1>2. \A m : Latest(m)' = Latest(m) /\ Previous(m)' = Previous(m)
  BY DEF Latest, Previous, tables
<1>3. \A m, t : Signals(m, t)' = Signals(m, t)
  BY <1>2 DEF Signals, tables
<1> QED
  BY <1>1, <1>2, <1>3 DEF Lasts, Moved

LEMMA AloneScans ==
  ASSUME AInv, NEW r \in Runs, ScanForRugs(r)
  PROVE  (\A m \in Act(r) :
            /\ m \in DOMAIN job[r].read
            /\ job[r].read[m].latest = Latest(m)
            /\ job[r].read[m].before = Previous(m))'
<1>1. /\ UNCHANGED tables /\ job'[r].txAt = now /\ job'[r].read = RowsRead(r)
  BY ScanJob DEF AInv, EInv
<1>2. Active(now) \subseteq Active(job[r].since)
  <2>1. now \in Nat /\ job[r].since \in Nat /\ job[r].since <= now /\ Lookback \in Nat
    BY RugAnalyticsAssumption DEF AInv, EInv, Shape, Stamped
  <2>2. \A m \in Mints : \A s \in snaps[m] : s.at \in Nat
    BY DEF AInv, Snapped
  <2> QED
    BY <2>1, <2>2 DEF Active
<1>3. Act(r)' = Active(now)
  BY <1>1 DEF Act, Active, tables
<1>4. \A m : Latest(m)' = Latest(m) /\ Previous(m)' = Previous(m)
  BY <1>1 DEF Latest, Previous, tables
<1>5. ASSUME NEW m \in Active(now)
      PROVE  /\ m \in DOMAIN RowsRead(r)
             /\ RowsRead(r)[m].latest = Latest(m)
             /\ RowsRead(r)[m].before = Previous(m)
  BY <1>2 DEF RowsRead
<1> QED
  BY <1>1, <1>3, <1>4, <1>5

\* A signal that lasts from the start of the transaction is there when r judges.
LEMMA AloneJudges ==
  ASSUME AInv, NEW r \in Runs, Alone(r), JudgeSignals(r)
  PROVE  (\A m \in Act(r), kind \in Kinds :
            Lasts(r, m, kind) => <<m, kind>> \in job[r].signals)'
<1>1. /\ Moved(r, "record") /\ UNCHANGED tables /\ job'[r].txAt = job[r].txAt
      /\ job'[r].signals = Judgement(r)
  BY JudgeJob DEF AInv, EInv
<1>2. ASSUME NEW m \in Act(r), NEW kind \in Kinds, Lasts(r, m, kind)
      PROVE  <<m, kind>> \in Judgement(r)
  <2>1. now \in job[r].txAt .. now
    BY DEF AInv, EInv, Shape, Stamped
  <2>2. kind \in SignalsOf(Latest(m), Previous(m), wallet[CreatorOf[m]], now)
    BY <1>2, <2>1 DEF Lasts, Signals
  <2>3. /\ m \in DOMAIN job[r].read
        /\ job[r].read[m].latest = Latest(m) /\ job[r].read[m].before = Previous(m)
    BY DEF Alone, JudgeSignals
  <2> QED
    BY <2>2, <2>3 DEF Judgement
<1> QED
  BY <1>1, <1>2, AloneView

LEMMA AloneRecords ==
  ASSUME AInv, NEW r \in Runs, Alone(r), RecordEvents(r)
  PROVE  Recorded(r)'
<1>1. /\ Moved(r, "classify") /\ UNCHANGED tables /\ job'[r].txAt = job[r].txAt
      /\ job'[r].pend = Fresh(r)
  BY RecordJob DEF AInv, EInv
<1>2. ASSUME NEW m \in Act(r), NEW kind \in Kinds, Lasts(r, m, kind)
      PROVE  \E e \in events \cup Fresh(r) :
               e.mint = m /\ e.kind = kind /\ e.at + Window > job[r].txAt
  <2>1. <<m, kind>> \in job[r].signals
    BY <1>2 DEF Alone, RecordEvents
  <2>2. CASE SeenRecently(r, m, kind)
    BY <2>2 DEF SeenRecently
  <2>3. CASE ~ SeenRecently(r, m, kind)
    <3> DEFINE e == [mint |-> m, kind |-> kind, at |-> job[r].txAt, by |-> r]
    <3>1. e \in Fresh(r)
      BY <2>1, <2>3 DEF Fresh
    <3>2. Window \in Nat \ {0} /\ job[r].txAt \in Nat
      BY RugAnalyticsAssumption, JobIsRecord DEF AInv, EInv
    <3>3. e.mint = m /\ e.kind = kind /\ e.at + Window > job[r].txAt
      BY <3>2
    <3> HIDE DEF e
    <3> QED
      BY <3>1, <3>3
  <2> QED
    BY <2>2, <2>3
<1>3. EventsSeen(r)' = events \cup Fresh(r)
  BY <1>1 DEF EventsSeen, tables
<1> QED
  BY <1>1, <1>2, <1>3, AloneView DEF Recorded

\* The statements, one after the other.
LEMMA AloneStatements ==
  ASSUME AInv, NEW r \in Runs, Alone(r),
         \/ ReclassifyRead(r) \/ ReclassifyWrite(r)
         \/ RescoreRead(r) \/ RescoreWrite(r) \/ CountRugs(r)
  PROVE  Alone(r)'
<1>1. Kept(r) /\ Shape
  BY ReclassifyReadJob, ReclassifyWriteJob, RescoreReadJob, RescoreWriteJob,
     CountRugsJob DEF AInv, EInv
<1>2. /\ Act(r)' = Act(r) /\ EventsSeen(r)' = EventsSeen(r)
      /\ \A m : Due(r, m)' = Due(r, m)
      /\ \A m : Worth(r, m)' = Worth(r, m)
      /\ Recorded(r) => Recorded(r)'
  <2>1. now' = now /\ now \in Nat /\ job[r].txAt \in Nat
    BY <1>1 DEF ReclassifyRead, ReclassifyWrite, RescoreRead, RescoreWrite,
       CountRugs, Shape, Stamped
  <2> QED
    BY <1>1, <2>1, SameView DEF Kept
<1>3. Recorded(r)'
  BY <1>2 DEF Alone, AfterRecord, ReclassifyRead, ReclassifyWrite, RescoreRead,
     RescoreWrite, CountRugs
<1>4. UNCHANGED <<class, score>>
  BY <1>1 DEF Kept
<1>5. \A p : pc' = [pc EXCEPT ![r] = p] =>
              pc'[r] = p /\ \A s \in Runs \ {r} : pc'[s] = "idle"
  BY <1>1 DEF Shape, Alone
<1>6. CASE ReclassifyRead(r)
  <2>1. pc'[r] = "relabel" /\ \A s \in Runs \ {r} : pc'[s] = "idle"
    BY <1>5, <1>6 DEF ReclassifyRead, Goto
  <2>2. job'[r].label = [m \in {m \in Act(r) : Due(r, m) # class[m]} |-> Due(r, m)]
    BY <1>1, <1>6, ReclassifyReadJob
  <2>3. \A m \in Act(r) : Due(r, m) # Raises
    BY <1>6 DEF ReclassifyRead, Act, Due
  <2>4. \A m \in Act(r) : LabelSeen(r, m)' = Due(r, m)
    BY <1>4, <2>2 DEF LabelSeen
  <2> QED
    BY <1>2, <1>3, <2>1, <2>3, <2>4 DEF Alone, Relabelled, Rescored
<1>7. CASE ReclassifyWrite(r)
  <2>1. pc'[r] = "points" /\ \A s \in Runs \ {r} : pc'[s] = "idle"
    BY <1>5, <1>7 DEF ReclassifyWrite, Goto
  <2>2. job'[r].class =
          [m \in {m \in DOMAIN job[r].label : job[r].label[m] # class[m]}
             |-> job[r].label[m]]
    BY <1>1, <1>7, ReclassifyWriteJob
  <2>3. \A m \in Act(r) : LabelSeen(r, m) = Due(r, m) /\ Due(r, m) # Raises
    BY <1>7 DEF Alone, ReclassifyWrite
  <2>4. \A m : ClassSeen(r, m)' = LabelSeen(r, m)
    BY <1>4, <2>2 DEF ClassSeen, LabelSeen
  <2> QED
    BY <1>2, <1>3, <2>1, <2>3, <2>4 DEF Alone, Relabelled, Rescored
<1>8. CASE RescoreRead(r)
  <2>1. pc'[r] = "rescore" /\ \A s \in Runs \ {r} : pc'[s] = "idle"
    BY <1>5, <1>8 DEF RescoreRead, Goto
  <2>2. /\ job'[r].class = job[r].class
        /\ job'[r].points =
             [m \in {m \in Act(r) : Worth(r, m) # score[m]} |-> Worth(r, m)]
    BY <1>1, <1>8, RescoreReadJob
  <2>3. \A m \in Act(r) : ClassSeen(r, m)' = Due(r, m) /\ Due(r, m) # Raises
    BY <1>4, <1>8, <2>2 DEF Alone, Relabelled, RescoreRead, ClassSeen
  <2>4. \A m \in Act(r) : PointsSeen(r, m)' = Worth(r, m)
    BY <1>4, <2>2 DEF PointsSeen
  <2> QED
    BY <1>2, <1>3, <2>1, <2>3, <2>4 DEF Alone, Relabelled, Rescored
<1>9. CASE RescoreWrite(r)
  <2>1. pc'[r] = "creators" /\ \A s \in Runs \ {r} : pc'[s] = "idle"
    BY <1>5, <1>9 DEF RescoreWrite, Goto
  <2>2. /\ job'[r].class = job[r].class
        /\ job'[r].score =
             [m \in {m \in DOMAIN job[r].points : job[r].points[m] # score[m]}
                |-> job[r].points[m]]
    BY <1>1, <1>9, RescoreWriteJob
  <2>3. \A m \in Act(r) : ClassSeen(r, m)' = Due(r, m) /\ Due(r, m) # Raises
    BY <1>4, <1>9, <2>2 DEF Alone, Relabelled, RescoreWrite, ClassSeen
  <2>4. \A m \in Act(r) : ScoreSeen(r, m)' = Worth(r, m)
    <3>1. \A m : ScoreSeen(r, m)' = PointsSeen(r, m)
      BY <1>4, <2>2 DEF ScoreSeen, PointsSeen
    <3> QED
      BY <1>9, <3>1 DEF Alone, RescoreWrite
  <2> QED
    BY <1>2, <1>3, <2>1, <2>3, <2>4 DEF Alone, Relabelled, Rescored
<1>10. CASE CountRugs(r)
  <2>1. pc'[r] = "wallets" /\ \A s \in Runs \ {r} : pc'[s] = "idle"
    BY <1>5, <1>10 DEF CountRugs, Goto
  <2>2. /\ job'[r].class = job[r].class /\ job'[r].score = job[r].score
        /\ job'[r].wallet = [c \in Creators |-> RugsSeen(r, c)]
    BY <1>1, <1>10, CountRugsJob
  <2>3. /\ \A m : ClassSeen(r, m)' = ClassSeen(r, m)
        /\ \A m : ScoreSeen(r, m)' = ScoreSeen(r, m)
    BY <1>4, <2>2 DEF ClassSeen, ScoreSeen
  <2>4. /\ \A m \in Act(r) : ClassSeen(r, m)' = Due(r, m) /\ Due(r, m) # Raises
        /\ \A m \in Act(r) : ScoreSeen(r, m)' = Worth(r, m)
    BY <1>10, <2>3 DEF Alone, Relabelled, Rescored, CountRugs
  <2>5. job'[r].wallet = [c \in Creators |-> RugsSeen(r, c)']
    <3>1. ASSUME NEW c \in Creators PROVE RugsSeen(r, c)' = RugsSeen(r, c)
      BY <2>3 DEF RugsSeen
    <3> QED
      BY <2>2, <3>1
  <2> QED
    BY <1>2, <1>3, <2>1, <2>4, <2>5 DEF Alone, Relabelled, Rescored
<1> QED
  BY <1>6, <1>7, <1>8, <1>9, <1>10

\* Nothing but the clock and the phase of r may have changed, from the count to
\* the commit.
LEMMA SameAlone ==
  ASSUME AInv, NEW r \in Runs, Alone(r), UNCHANGED <<tables, job>>,
         now' \in Nat, now <= now',
         \/ pc' = pc
         \/ /\ pc[r] = "wallets"
            /\ pc' = [pc EXCEPT ![r] = "commit"]
  PROVE  Alone(r)'
<1>1. UNCHANGED <<snaps, events, class, score, wallet>>
  BY DEF tables
<1>2. /\ Act(r)' = Act(r) /\ EventsSeen(r)' = EventsSeen(r)
      /\ \A m : Latest(m)' = Latest(m) /\ Previous(m)' = Previous(m)
      /\ \A m, kind : Lasts(r, m, kind)' => Lasts(r, m, kind)
      /\ \A m : Due(r, m)' = Due(r, m)
      /\ \A m : Worth(r, m)' = Worth(r, m)
      /\ Recorded(r) => Recorded(r)'
  <2>1. now \in Nat /\ job[r].txAt \in Nat
    BY DEF AInv, EInv, Shape, Stamped
  <2> QED
    BY <1>1, <2>1, SameView
<1>3. /\ \A m : ClassSeen(r, m)' = ClassSeen(r, m)
      /\ \A m : ScoreSeen(r, m)' = ScoreSeen(r, m)
      /\ \A m : LabelSeen(r, m)' = LabelSeen(r, m)
      /\ \A m : PointsSeen(r, m)' = PointsSeen(r, m)
  BY <1>1 DEF ClassSeen, ScoreSeen, LabelSeen, PointsSeen
<1>4. [c \in Creators |-> RugsSeen(r, c)]' = [c \in Creators |-> RugsSeen(r, c)]
  <2>1. ASSUME NEW c \in Creators PROVE RugsSeen(r, c)' = RugsSeen(r, c)
    BY <1>3 DEF RugsSeen
  <2> QED
    BY <2>1
<1>5. /\ pc'[r] # "idle" /\ \A s \in Runs \ {r} : pc'[s] = "idle"
      /\ \/ pc'[r] = pc[r]
         \/ pc[r] = "wallets" /\ pc'[r] = "commit"
  BY DEF AInv, EInv, Shape, Alone
<1>6. /\ pc'[r] = "judge" =>
           \A m \in Act(r)' :
             /\ m \in DOMAIN job'[r].read
             /\ job'[r].read[m].latest = Latest(m)'
             /\ job'[r].read[m].before = Previous(m)'
      /\ pc'[r] = "record" =>
           \A m \in Act(r)', kind \in Kinds :
             Lasts(r, m, kind)' => <<m, kind>> \in job'[r].signals
      /\ pc'[r] \in AfterRecord => Recorded(r)'
  BY <1>2, <1>5 DEF Alone, AfterRecord
<1>7. /\ pc'[r] = "relabel" =>
           \A m \in Act(r)' : LabelSeen(r, m)' = Due(r, m)' /\ Due(r, m)' # Raises
      /\ pc'[r] \in Relabelled =>
           \A m \in Act(r)' : ClassSeen(r, m)' = Due(r, m)' /\ Due(r, m)' # Raises
  BY <1>2, <1>3, <1>5 DEF Alone, Relabelled
<1>8. /\ pc'[r] = "rescore" =>
           \A m \in Act(r)' : PointsSeen(r, m)' = Worth(r, m)'
      /\ pc'[r] \in Rescored =>
           \A m \in Act(r)' : ScoreSeen(r, m)' = Worth(r, m)'
  BY <1>2, <1>3, <1>5 DEF Alone, Rescored
<1>9. pc'[r] \in {"wallets", "commit"} =>
        job'[r].wallet = [c \in Creators |-> RugsSeen(r, c)]'
  BY <1>4, <1>5 DEF Alone
<1> QED
  BY <1>5, <1>6, <1>7, <1>8, <1>9 DEF Alone

\* Before the scan and after the commit there is nothing to say.
LEMMA EarlyAlone ==
  ASSUME NEW r \in Runs, \A s \in Runs \ {r} : pc'[s] = "idle",
         pc'[r] \in {"ingest", "cutoff", "scan", "later"}
  PROVE  Alone(r)'
BY DEF Alone, AfterRecord, Relabelled, Rescored

LEMMA AloneNext == AInv /\ [Next]_vars => AInv'
<1> SUFFICES ASSUME AInv, [Next]_vars PROVE AInv'
  OBVIOUS
<1>1. EInv' /\ Snapped' /\ Countable' /\ pc \in [Runs -> Phases]
  BY EventsNext, SnappedNext, CountableNext DEF AInv, EInv, Shape
<1>2. CASE Tick \/ UNCHANGED vars
  <2>1. UNCHANGED <<tables, pc, job, lone>> /\ now' \in Nat /\ now <= now'
    BY <1>2 DEF Tick, vars, AInv, EInv, Shape
  <2> QED
    BY <1>1, <2>1, SameAlone DEF AInv
<1>3. ASSUME NEW r \in Runs, Start(r) PROVE AInv'
  <2>1. pc' = [pc EXCEPT ![r] = "ingest"] /\ lone' \subseteq {r}
        /\ (r \in lone' => \A s \in Runs \ {r} : pc[s] = "idle")
    BY <1>3 DEF Start, Goto
  <2>2. r \in lone' => Alone(r)'
    BY <1>1, <2>1, EarlyAlone
  <2> QED
    BY <1>1, <2>1, <2>2 DEF AInv
<1>4. ASSUME NEW r \in Runs, Proceed(r) \/ Error(r) \/ Crash(r) PROVE AInv'
  <2>1. PICK p : pc' = [pc EXCEPT ![r] = p]
    BY <1>4 DEF Proceed, Ingest, TakeCutoff, ScanForRugs, JudgeSignals,
       RecordEvents, ReclassifyRead, ReclassifyWrite, RescoreRead, RescoreWrite, CountRugs, UpsertWallets,
       CommitAnalytics, Prune, Error, Crash, Ended, Goto
  <2>2. pc[r] # "idle" /\ lone' \subseteq lone
    BY <1>4 DEF Proceed, Ingest, TakeCutoff, ScanForRugs, JudgeSignals,
       RecordEvents, ReclassifyRead, ReclassifyWrite, RescoreRead, RescoreWrite, CountRugs, UpsertWallets,
       CommitAnalytics, Prune, Error, Crash, Ended
  <2>3. ASSUME r \in lone' PROVE Alone(r)'
    <3>1. Alone(r)
      BY <2>2, <2>3 DEF AInv
    <3>2. pc'[r] = p /\ \A s \in Runs \ {r} : pc'[s] = "idle"
      BY <1>1, <2>1, <3>1 DEF Alone
    <3>3. CASE Prune(r) \/ Crash(r)
      BY <2>3, <3>3 DEF Prune, Crash, Ended
    <3>4. CASE Error(r)
      <4>1. pc' = [pc EXCEPT ![r] = "ingest"]
        BY <2>3, <3>4 DEF Error, Ended, Goto
      <4> QED
        BY <1>1, <3>2, <4>1, EarlyAlone
    <3>5. CASE Ingest(r) \/ TakeCutoff(r) \/ CommitAnalytics(r)
      <4>1. pc'[r] \in {"cutoff", "scan", "later"}
        BY <1>1, <3>5 DEF Ingest, TakeCutoff, CommitAnalytics, Goto
      <4> QED
        BY <3>2, <4>1, EarlyAlone
    <3>6. CASE ScanForRugs(r)
      <4>1. pc'[r] = "judge"
        BY <1>1, <3>6 DEF ScanForRugs, Goto
      <4> QED
        BY <3>2, <3>6, <4>1, AloneScans DEF Alone, AfterRecord, Relabelled, Rescored
    <3>10. CASE JudgeSignals(r)
      <4>1. pc'[r] = "record"
        BY <1>1, <3>10 DEF JudgeSignals, Goto
      <4> QED
        BY <3>1, <3>2, <3>10, <4>1, AloneJudges
        DEF Alone, AfterRecord, Relabelled, Rescored
    <3>7. CASE RecordEvents(r)
      <4>1. pc'[r] = "classify"
        BY <1>1, <3>7 DEF RecordEvents, Goto
      <4> QED
        BY <3>1, <3>2, <3>7, <4>1, AloneRecords
        DEF Alone, AfterRecord, Relabelled, Rescored
    <3>8. CASE \/ ReclassifyRead(r) \/ ReclassifyWrite(r)
               \/ RescoreRead(r) \/ RescoreWrite(r) \/ CountRugs(r)
      BY <3>1, <3>8, AloneStatements
    <3>9. CASE UpsertWallets(r)
      <4>1. now \in Nat
        BY DEF AInv, EInv, Shape
      <4>2. /\ UNCHANGED <<tables, job>> /\ now' = now
            /\ pc[r] = "wallets" /\ pc' = [pc EXCEPT ![r] = "commit"]
        BY <3>9 DEF UpsertWallets, Goto
      <4>3. now' \in Nat /\ now <= now'
        BY <4>1, <4>2
      <4> QED
        BY <3>1, <4>2, <4>3, SameAlone
    <3> QED
      BY <1>4, <3>3, <3>4, <3>5, <3>6, <3>7, <3>8, <3>9, <3>10
      DEF Proceed
  <2> QED
    BY <1>1, <2>1, <2>2, <2>3, OneStep
<1> QED
  BY <1>2, <1>3, <1>4 DEF Next

\* An active token's latest snapshot is one that the API may have said.
LEMMA ActiveHasRow ==
  ASSUME AInv, NEW t, NEW m \in Active(t)
  PROVE  m \in Mints /\ Latest(m) \in Rows
<1>1. m \in Mints /\ snaps[m] # {}
  BY DEF Active
<1>2. \E s \in snaps[m] : \A u \in snaps[m] : u.at <= s.at
  BY <1>1 DEF AInv, Snapped, HasNewest
<1>3. (CHOOSE s \in snaps[m] : \A u \in snaps[m] : u.at <= s.at) \in snaps[m]
  BY <1>2
<1> QED
  BY <1>1, <1>3 DEF AInv, Snapped, Latest

LEMMA CommitRepairs ==
  ASSUME AInv, IsFiniteSet(Mints),
         \A row \in Rows : Plain(row) /\ row.ath >= 0,
         NEW r \in lone, CommitAnalytics(r)
  PROVE  /\ \A m \in Active(job[r].txAt) :
              LET hard == EventsOf(m, "hard", events')
                  soft == EventsOf(m, "soft", events') IN
              /\ class'[m] = ClassifyToken(Latest(m), hard # {}, soft # {},
                                           job[r].txAt)
              /\ score'[m] = ScoreToken(Latest(m), Cardinality(hard),
                                        Cardinality(soft), job[r].txAt)
         /\ \A c \in Creators :
              wallet'[c] = Cardinality({m \in Mints :
                             CreatorOf[m] = c /\ class'[m] \in RugClasses})
<1>1. r \in Runs /\ Alone(r)
  BY DEF AInv
<1>2. /\ events' = EventsSeen(r)
      /\ class' = [m \in Mints |-> ClassSeen(r, m)]
      /\ score' = [m \in Mints |-> ScoreSeen(r, m)]
      /\ wallet' = [c \in Creators |-> RugsSeen(r, c)]
  BY <1>1 DEF CommitAnalytics, EventsSeen, Alone
<1>3. IsFiniteSet(EventsSeen(r))
  BY <1>1, FS_Union DEF AInv, Countable, EventsSeen
<1>4. ASSUME NEW m \in Active(job[r].txAt)
      PROVE  /\ class'[m] = ClassifyToken(Latest(m),
                              EventsOf(m, "hard", EventsSeen(r)) # {},
                              EventsOf(m, "soft", EventsSeen(r)) # {}, job[r].txAt)
             /\ score'[m] = ScoreToken(Latest(m),
                              Cardinality(EventsOf(m, "hard", EventsSeen(r))),
                              Cardinality(EventsOf(m, "soft", EventsSeen(r))),
                              job[r].txAt)
  <2> DEFINE hard == EventsOf(m, "hard", EventsSeen(r))
             soft == EventsOf(m, "soft", EventsSeen(r))
  <2>1. /\ m \in Mints /\ Latest(m) \in SnapshotRow
        /\ Plain(Latest(m)) /\ Latest(m).ath >= 0
    BY ActiveHasRow, RugAnalyticsAssumption
  <2>2. job[r].txAt \in Int
    BY <1>1 DEF AInv, EInv, Shape, Stamped
  <2>3. Cardinality(hard) \in Nat /\ Cardinality(soft) \in Nat
    <3>1. hard \subseteq EventsSeen(r) /\ soft \subseteq EventsSeen(r)
      BY DEF EventsOf
    <3> HIDE DEF hard, soft
    <3>2. IsFiniteSet(hard) /\ IsFiniteSet(soft)
      BY <1>3, <3>1, FS_Subset
    <3> QED
      BY <3>2, FS_CardinalityType
  <2>4. class'[m] = BulkLabel(Latest(m), hard # {}, soft # {}, job[r].txAt)
    BY <1>1, <1>2, <2>1
    DEF CommitAnalytics, Alone, Relabelled, Act, Due, Label, HasEvent
  <2>5. score'[m] = BulkScore(Latest(m), Cardinality(hard), Cardinality(soft),
                              job[r].txAt)
    BY <1>1, <1>2, <2>1 DEF CommitAnalytics, Alone, Rescored, Act, Worth, Points
  <2> HIDE DEF hard, soft
  <2>6. class'[m] = ClassifyToken(Latest(m), hard # {}, soft # {}, job[r].txAt)
    <3>1. (hard # {}) \in BOOLEAN /\ (soft # {}) \in BOOLEAN
      OBVIOUS
    <3> QED
      BY <2>1, <2>2, <2>4, <3>1, LabelsAgree
  <2>7. score'[m] = ScoreToken(Latest(m), Cardinality(hard), Cardinality(soft),
                               job[r].txAt)
    BY <2>1, <2>2, <2>3, <2>5, ScoresAgree
  <2> QED
    BY <2>6, <2>7 DEF hard, soft
<1>5. ASSUME NEW c \in Creators
      PROVE  wallet'[c] = Cardinality({m \in Mints :
                             CreatorOf[m] = c /\ class'[m] \in RugClasses})
  <2>1. {m \in Mints : CreatorOf[m] = c /\ class'[m] \in RugClasses}
          = {m \in Mints : CreatorOf[m] = c /\ ClassSeen(r, m) \in RugClasses}
    BY <1>2
  <2> QED
    BY <1>2, <2>1 DEF RugsSeen
<1> QED
  BY <1>2, <1>4, <1>5

\* However many executions have overlapped before, the first that is alone from
\* its start leaves every active token with the label and score of the
\* per-token functions and every creator with the count of its labels, if SQL
\* and Python read the payloads alike (run_daily_job, phase 1).
THEOREM LoneRunsRepair ==
  ASSUME IsFiniteSet(Mints),
         \A row \in Rows : Plain(row) /\ row.ath >= 0
  PROVE  Spec => LoneRunRepairs
<1>1. AInv /\ [Next]_vars => AInv'
  BY AloneNext
<1>2. ASSUME AInv, [Next]_vars
      PROVE  [\A r \in lone : Commits(r) =>
               /\ \A m \in Active(job[r].txAt) :
                    LET hard == EventsOf(m, "hard", events')
                        soft == EventsOf(m, "soft", events') IN
                    /\ class'[m] = ClassifyToken(Latest(m), hard # {}, soft # {},
                                                 job[r].txAt)
                    /\ score'[m] = ScoreToken(Latest(m), Cardinality(hard),
                                              Cardinality(soft), job[r].txAt)
               /\ \A c \in Creators :
                    wallet'[c] = Cardinality({m \in Mints :
                                   CreatorOf[m] = c
                                   /\ class'[m] \in RugClasses})]_vars
  BY <1>2, OnlyTheCommit, CommitRepairs DEF AInv, EInv
<1> QED
  BY <1>1, <1>2, AloneInit, PTL DEF Spec, LoneRunRepairs

\* ... and every signal of the tables it works on is on record, for any rows.
THEOREM LoneRunsRecord == Spec => SignalsAreRecorded
<1>1. AInv /\ [Next]_vars => AInv'
  BY AloneNext
<1>2. ASSUME AInv, [Next]_vars
      PROVE  [\A r \in lone : Commits(r) =>
               \A m \in Active(job[r].txAt), kind \in Kinds :
                 (\A t \in job[r].txAt .. now : kind \in Signals(m, t)) =>
                   \E e \in events' : e.mint = m /\ e.kind = kind
                                       /\ e.at + Window > job[r].txAt]_vars
  <2>1. ASSUME NEW r \in lone, Commits(r)
        PROVE  CommitAnalytics(r) /\ Recorded(r) /\ events' = EventsSeen(r)
    <3>1. CommitAnalytics(r) /\ Alone(r)
      BY <1>2, <2>1, OnlyTheCommit DEF AInv, EInv
    <3> QED
      BY <3>1 DEF Alone, AfterRecord, CommitAnalytics, EventsSeen
  <2> QED
    BY <2>1 DEF Recorded, Act, Lasts
<1> QED
  BY <1>1, <1>2, AloneInit, PTL DEF Spec, SignalsAreRecorded

-----------------------------------------------------------------------------
(* Types *)

Scores == UNION {[S -> 0 .. 100 * Point] : S \in SUBSET Mints}

\* What a transaction has read and not yet committed.
Typed(j) ==
  /\ j.read \in [DOMAIN j.read -> Judged]
  /\ j.signals \subseteq Mints \X Kinds
  /\ j.pend \subseteq Event
  /\ j.label \in Changes
  /\ j.class \in Changes
  /\ j.points \in Scores
  /\ j.score \in Scores

Counted(p, j) == p \in {"wallets", "commit"} => j.wallet \in [Creators -> Nat]

\* Once it has counted, a commit writes what it has.
Jobs == \A r \in Runs : Typed(job[r]) /\ Counted(pc[r], job[r])

Tables ==
  /\ snaps \in [Mints -> SUBSET [at : Nat, row : Rows]]
  /\ events \subseteq Event
  /\ class \in [Mints -> Classes]
  /\ score \in [Mints -> {Unscored} \cup 0 .. 100 * Point]
  /\ wallet \in [Creators -> Nat]

Attempts ==
  /\ attempt \in [Runs -> Nat \ {0}]
  /\ \A r \in Runs : attempt[r] <= Budget[r]

TInv == AInv /\ Jobs /\ Tables /\ Attempts

LEMMA NothingIsTyped == Nothing \in Changes /\ Nothing \in Scores
<1>1. Nothing \in [{} -> Classes] /\ Nothing \in [{} -> 0 .. 100 * Point]
  BY DEF Nothing
<1> QED
  BY <1>1 DEF Changes, Scores

LEMMA NewJobIsTyped == Typed(NewJob)
<1>1. Nothing \in [DOMAIN Nothing -> Judged]
  BY DEF Nothing
<1> QED
  BY <1>1, NothingIsTyped DEF NewJob, Typed

\* A statement finds changes among some of the mints.
LEMMA PartIsTyped ==
  ASSUME NEW S \in SUBSET Mints, NEW f
  PROVE  /\ (\A m \in S : f[m] \in Classes) => [m \in S |-> f[m]] \in Changes
         /\ (\A m \in S : f[m] \in 0 .. 100 * Point) =>
              [m \in S |-> f[m]] \in Scores
<1>1. ASSUME \A m \in S : f[m] \in Classes
      PROVE  [m \in S |-> f[m]] \in [S -> Classes]
  BY <1>1
<1>2. ASSUME \A m \in S : f[m] \in 0 .. 100 * Point
      PROVE  [m \in S |-> f[m]] \in [S -> 0 .. 100 * Point]
  BY <1>2
<1> QED
  BY <1>1, <1>2, Zenon DEF Changes, Scores

LEMMA ChangesAreFunctions ==
  /\ \A f \in Changes : DOMAIN f \subseteq Mints /\ \A m \in DOMAIN f : f[m] \in Classes
  /\ \A f \in Scores : /\ DOMAIN f \subseteq Mints
                       /\ \A m \in DOMAIN f : f[m] \in 0 .. 100 * Point
<1>1. ASSUME NEW f \in Changes
      PROVE  DOMAIN f \subseteq Mints /\ \A m \in DOMAIN f : f[m] \in Classes
  <2>1. PICK S \in SUBSET Mints : f \in [S -> Classes]
    BY Zenon DEF Changes
  <2> QED
    BY <2>1
<1>2. ASSUME NEW f \in Scores
      PROVE  DOMAIN f \subseteq Mints /\ \A m \in DOMAIN f : f[m] \in 0 .. 100 * Point
  <2>1. PICK S \in SUBSET Mints : f \in [S -> 0 .. 100 * Point]
    BY Zenon DEF Scores
  <2> QED
    BY <2>1
<1> QED
  BY <1>1, <1>2

\* One execution moves on with another job.
LEMMA OneJobIsTyped ==
  ASSUME TInv, NEW r \in Runs, NEW j, NEW p,
         job' = [job EXCEPT ![r] = j], pc' = [pc EXCEPT ![r] = p],
         Typed(j), Counted(p, j)
  PROVE  Jobs'
<1>1. Shape
  BY DEF TInv, AInv, EInv
<1>2. job'[r] = j /\ pc'[r] = p
      /\ \A s \in Runs \ {r} : job'[s] = job[s] /\ pc'[s] = pc[s]
  BY <1>1 DEF Shape
<1> QED
  BY <1>2 DEF TInv, Jobs, Typed, Counted

LEMMA MovedIsTyped ==
  ASSUME TInv, NEW r \in Runs, NEW p, Moved(r, p), Typed(job'[r]),
         p \notin {"wallets", "commit"}
  PROVE  Jobs'
BY DEF TInv, Jobs, Typed, Counted, Moved

LEMMA CutoffIsTyped == ASSUME TInv, NEW r \in Runs, TakeCutoff(r) PROVE Jobs'
<1>1. /\ Moved(r, "scan") /\ job'[r].pend = job[r].pend
      /\ job'[r].read = job[r].read /\ job'[r].signals = job[r].signals
  BY CutoffJob DEF TInv, AInv, EInv
<1>2. Typed(job'[r])
  BY <1>1 DEF TInv, Jobs, Typed, Moved
<1> QED
  BY <1>1, <1>2, MovedIsTyped

\* The row before the newest is one that the API has said, too.
LEMMA RowsAreRead ==
  ASSUME TInv, NEW r \in Runs
  PROVE  RowsRead(r) \in [DOMAIN RowsRead(r) -> Judged]
<1>1. ASSUME NEW m \in Active(job[r].since)
      PROVE  [latest |-> Latest(m), before |-> Previous(m)] \in Judged
  <2>1. m \in Mints /\ Latest(m) \in Rows
    BY ActiveHasRow DEF TInv
  <2>2. \A s \in snaps[m] : s.row \in Rows
    BY <2>1 DEF TInv, AInv, Snapped
  <2>3. Previous(m) \subseteq Rows
    BY <2>2 DEF Previous
  <2> QED
    BY <2>1, <2>3 DEF Judged
<1> QED
  BY <1>1 DEF RowsRead

LEMMA ScanIsTyped == ASSUME TInv, NEW r \in Runs, ScanForRugs(r) PROVE Jobs'
<1>1. /\ Moved(r, "judge") /\ job'[r].pend = job[r].pend
      /\ job'[r].read = RowsRead(r) /\ job'[r].signals = job[r].signals
  BY ScanJob DEF TInv, AInv, EInv
<1>2. Typed(job'[r])
  BY <1>1, RowsAreRead DEF TInv, Jobs, Typed, Moved
<1> QED
  BY <1>1, <1>2, MovedIsTyped

LEMMA JudgeIsTyped == ASSUME TInv, NEW r \in Runs, JudgeSignals(r) PROVE Jobs'
<1>1. /\ Moved(r, "record") /\ job'[r].pend = job[r].pend
      /\ job'[r].read = Nothing /\ job'[r].signals = Judgement(r)
  BY JudgeJob DEF TInv, AInv, EInv
<1>2. Judgement(r) \subseteq Mints \X Kinds
  BY DEF Judgement, TInv, AInv, EInv, Shape, Stamped
<1>3. Nothing \in [DOMAIN Nothing -> Judged]
  BY DEF Nothing
<1>4. Typed(job'[r])
  BY <1>1, <1>2, <1>3 DEF TInv, Jobs, Typed, Moved
<1> QED
  BY <1>1, <1>4, MovedIsTyped

LEMMA RecordIsTyped == ASSUME TInv, NEW r \in Runs, RecordEvents(r) PROVE Jobs'
<1>1. /\ Moved(r, "classify") /\ job'[r].pend = Fresh(r)
      /\ job'[r].read = job[r].read /\ job'[r].signals = {}
  BY RecordJob DEF TInv, AInv, EInv
<1>2. Fresh(r) \subseteq Event
  <2>1. \A s \in job[r].signals : s[1] \in Mints /\ s[2] \in Kinds
    BY DEF TInv, Jobs, Typed
  <2>2. job[r].txAt \in Nat
    BY JobIsRecord DEF TInv, AInv, EInv
  <2>3. ASSUME NEW e \in Fresh(r) PROVE e \in Event
    <3>1. PICK s \in job[r].signals :
            e = [mint |-> s[1], kind |-> s[2], at |-> job[r].txAt, by |-> r]
      BY DEF Fresh
    <3> QED
      BY <2>1, <2>2, <3>1 DEF Event
  <2> QED
    BY <2>3
<1>3. Typed(job'[r])
  BY <1>1, <1>2 DEF TInv, Jobs, Typed, Moved
<1> QED
  BY <1>1, <1>3, MovedIsTyped

LEMMA ReclassifyReadIsTyped ==
  ASSUME TInv, NEW r \in Runs, ReclassifyRead(r)
  PROVE  Jobs'
<1> DEFINE label == [m \in Act(r) |-> Due(r, m)]
           S == {m \in DOMAIN label : label[m] # class[m]}
           new == [m \in S |-> label[m]]
           j == [job[r] EXCEPT !.label = new]
<1>1. job' = [job EXCEPT ![r] = j] /\ pc' = [pc EXCEPT ![r] = "relabel"]
  BY DEF ReclassifyRead, Act, Due, Goto
<1>2. \A m \in Act(r) : label[m] # Raises
  BY DEF ReclassifyRead, Act, Due
<1>3. \A m \in Act(r) : label[m] \in Labels \cup {Raises}
  BY DEF Due, Label, BulkLabel, BulkWinner, Labels
<1>4. S \in SUBSET Mints /\ S \subseteq Act(r)
  BY DEF Act, Active
<1>5. \A m \in S : label[m] \in Classes
  BY <1>2, <1>3, <1>4 DEF Classes
<1>6. job[r] = Fields(job[r]) /\ Typed(job[r])
  BY JobIsRecord DEF TInv, AInv, EInv, Jobs
<1> HIDE DEF label, S
<1>7. new \in Changes
  BY <1>4, <1>5, PartIsTyped
<1> HIDE DEF new
<1>8. Typed(j)
  BY <1>6, <1>7 DEF Fields, Typed
<1> HIDE DEF j
<1> QED
  BY <1>1, <1>8, OneJobIsTyped DEF Counted

LEMMA ReclassifyWriteIsTyped ==
  ASSUME TInv, NEW r \in Runs, ReclassifyWrite(r)
  PROVE  Jobs'
<1> DEFINE S == {m \in DOMAIN job[r].label : job[r].label[m] # class[m]}
           new == [m \in S |-> job[r].label[m]]
           k == [job[r] EXCEPT !.class = new]
           j == [k EXCEPT !.label = Nothing]
<1>1. job' = [job EXCEPT ![r] = j] /\ pc' = [pc EXCEPT ![r] = "points"]
  BY DEF ReclassifyWrite, Goto
<1>2. job[r] = Fields(job[r]) /\ Typed(job[r])
  BY JobIsRecord DEF TInv, AInv, EInv, Jobs
<1>3. S \in SUBSET Mints /\ \A m \in S : job[r].label[m] \in Classes
  BY <1>2, ChangesAreFunctions DEF Typed
<1> HIDE DEF S
<1>4. new \in Changes
  BY <1>3, PartIsTyped
<1> HIDE DEF new
<1>5. k = Fields(k) /\ Typed(k)
  BY <1>2, <1>4 DEF Fields, Typed
<1> HIDE DEF k
<1>6. Typed(j)
  BY <1>5, NothingIsTyped DEF Fields, Typed
<1> HIDE DEF j
<1> QED
  BY <1>1, <1>6, OneJobIsTyped DEF Counted

\* The score of an active token, whatever its row and its events.
LEMMA WorthIsBounded ==
  ASSUME TInv, IsFiniteSet(Mints), NEW r \in Runs, NEW m \in Act(r)
  PROVE  Worth(r, m) \in 0 .. 100 * Point
<1> DEFINE hard == EventsOf(m, "hard", EventsSeen(r))
           soft == EventsOf(m, "soft", EventsSeen(r))
<1>1. Latest(m) \in SnapshotRow
  BY ActiveHasRow, RugAnalyticsAssumption DEF TInv, Act
<1>2. job[r].txAt \in Int
  BY DEF TInv, AInv, EInv, Shape, Stamped
<1>3. IsFiniteSet(EventsSeen(r))
  BY FS_Union DEF TInv, AInv, Countable, EventsSeen
<1>4. hard \subseteq EventsSeen(r) /\ soft \subseteq EventsSeen(r)
  BY DEF EventsOf
<1>5. Worth(r, m) = BulkScore(Latest(m), Cardinality(hard), Cardinality(soft),
                              job[r].txAt)
  BY DEF Worth, Points
<1> HIDE DEF hard, soft
<1>6. Cardinality(hard) \in Nat /\ Cardinality(soft) \in Nat
  BY <1>3, <1>4, FS_Subset, FS_CardinalityType
<1> QED
  BY <1>1, <1>2, <1>5, <1>6, ScoresAreBounded

LEMMA RescoreReadIsTyped ==
  ASSUME TInv, IsFiniteSet(Mints), NEW r \in Runs, RescoreRead(r)
  PROVE  Jobs'
<1> DEFINE points == [m \in Act(r) |-> Worth(r, m)]
           S == {m \in DOMAIN points : points[m] # score[m]}
           new == [m \in S |-> points[m]]
           j == [job[r] EXCEPT !.points = new]
<1>1. job' = [job EXCEPT ![r] = j] /\ pc' = [pc EXCEPT ![r] = "rescore"]
  BY DEF RescoreRead, Act, Worth, Goto
<1>2. S \in SUBSET Mints
  BY DEF Act, Active
<1>3. \A m \in S : points[m] \in 0 .. 100 * Point
  BY WorthIsBounded
<1>4. job[r] = Fields(job[r]) /\ Typed(job[r])
  BY JobIsRecord DEF TInv, AInv, EInv, Jobs
<1> HIDE DEF points, S
<1>5. new \in Scores
  BY <1>2, <1>3, PartIsTyped
<1> HIDE DEF new
<1>6. Typed(j)
  BY <1>4, <1>5 DEF Fields, Typed
<1> HIDE DEF j
<1> QED
  BY <1>1, <1>6, OneJobIsTyped DEF Counted

LEMMA RescoreWriteIsTyped ==
  ASSUME TInv, NEW r \in Runs, RescoreWrite(r)
  PROVE  Jobs'
<1> DEFINE S == {m \in DOMAIN job[r].points : job[r].points[m] # score[m]}
           new == [m \in S |-> job[r].points[m]]
           k == [job[r] EXCEPT !.score = new]
           j == [k EXCEPT !.points = Nothing]
<1>1. job' = [job EXCEPT ![r] = j] /\ pc' = [pc EXCEPT ![r] = "creators"]
  BY DEF RescoreWrite, Goto
<1>2. job[r] = Fields(job[r]) /\ Typed(job[r])
  BY JobIsRecord DEF TInv, AInv, EInv, Jobs
<1>3. S \in SUBSET Mints /\ \A m \in S : job[r].points[m] \in 0 .. 100 * Point
  BY <1>2, ChangesAreFunctions DEF Typed
<1> HIDE DEF S
<1>4. new \in Scores
  BY <1>3, PartIsTyped
<1> HIDE DEF new
<1>5. k = Fields(k) /\ Typed(k)
  BY <1>2, <1>4 DEF Fields, Typed
<1> HIDE DEF k
<1>6. Typed(j)
  BY <1>5, NothingIsTyped DEF Fields, Typed
<1> HIDE DEF j
<1> QED
  BY <1>1, <1>6, OneJobIsTyped DEF Counted

LEMMA CountIsTyped ==
  ASSUME TInv, IsFiniteSet(Mints), NEW r \in Runs, CountRugs(r)
  PROVE  Jobs'
<1> DEFINE new == [c \in Creators |-> RugsSeen(r, c)]
           j == [job[r] EXCEPT !.wallet = new]
<1>1. job' = [job EXCEPT ![r] = j] /\ pc' = [pc EXCEPT ![r] = "wallets"]
  BY DEF CountRugs, Goto
<1>2. ASSUME NEW c \in Creators PROVE RugsSeen(r, c) \in Nat
  <2> DEFINE S == {m \in Mints : CreatorOf[m] = c /\ ClassSeen(r, m) \in RugClasses}
  <2>1. S \subseteq Mints /\ RugsSeen(r, c) = Cardinality(S)
    BY DEF RugsSeen
  <2> HIDE DEF S
  <2> QED
    BY <2>1, FS_Subset, FS_CardinalityType
<1>3. new \in [Creators -> Nat]
  BY <1>2
<1>4. job[r] = Fields(job[r]) /\ Typed(job[r])
  BY JobIsRecord DEF TInv, AInv, EInv, Jobs
<1> HIDE DEF new
<1>5. Typed(j) /\ j.wallet = new
  BY <1>4 DEF Fields, Typed
<1> HIDE DEF j
<1> QED
  BY <1>1, <1>3, <1>5, OneJobIsTyped DEF Counted

\* A commit writes labels, points and counts, and nothing else writes them.
LEMMA CommitTables ==
  ASSUME TInv, NEW r \in Runs, CommitAnalytics(r)
  PROVE  Tables'
<1>1. /\ events' = events \cup job[r].pend
      /\ class' = [m \in Mints |-> ClassSeen(r, m)]
      /\ score' = [m \in Mints |-> ScoreSeen(r, m)]
      /\ wallet' = job[r].wallet /\ snaps' = snaps
  BY DEF CommitAnalytics
<1>2. Typed(job[r]) /\ job[r].wallet \in [Creators -> Nat]
  BY DEF TInv, Jobs, Counted, CommitAnalytics
<1>3. \A m \in Mints : ClassSeen(r, m) \in Classes
  BY <1>2, ChangesAreFunctions DEF TInv, Tables, ClassSeen, Typed
<1>4. \A m \in Mints : ScoreSeen(r, m) \in {Unscored} \cup 0 .. 100 * Point
  BY <1>2, ChangesAreFunctions DEF TInv, Tables, ScoreSeen, Typed
<1> QED
  BY <1>1, <1>2, <1>3, <1>4 DEF TInv, Tables, Typed

LEMMA IngestTables ==
  ASSUME TInv, NEW r \in Runs, Ingest(r)
  PROVE  Tables'
<1>1. PICK listed \in SUBSET Mints : \E said \in [listed -> Rows] :
        snaps' = [m \in Mints |->
          IF m \in listed /\ \A s \in snaps[m] : s.at + Stale <= now
            THEN snaps[m] \cup {[at |-> now, row |-> said[m]]}
            ELSE snaps[m]]
  BY DEF Ingest
<1>2. PICK said \in [listed -> Rows] :
        snaps' = [m \in Mints |->
          IF m \in listed /\ \A s \in snaps[m] : s.at + Stale <= now
            THEN snaps[m] \cup {[at |-> now, row |-> said[m]]}
            ELSE snaps[m]]
  BY <1>1
<1>3. now \in Nat
  BY DEF TInv, AInv, EInv, Shape
<1>4. \A m \in listed : [at |-> now, row |-> said[m]] \in [at : Nat, row : Rows]
  BY <1>2, <1>3
<1>5. snaps' \in [Mints -> SUBSET [at : Nat, row : Rows]]
  BY <1>2, <1>4 DEF TInv, Tables
<1> QED
  BY <1>5 DEF TInv, Tables, Ingest

LEMMA PruneTables ==
  ASSUME TInv, NEW r \in Runs, Prune(r)
  PROVE  Tables'
<1>1. /\ snaps' = [m \in Mints |-> {s \in snaps[m] : s.at + Keep >= now}]
      /\ events' \subseteq events /\ UNCHANGED <<class, score, wallet>>
  BY DEF Prune
<1>2. snaps' \in [Mints -> SUBSET [at : Nat, row : Rows]]
  BY <1>1 DEF TInv, Tables
<1> QED
  BY <1>1, <1>2 DEF TInv, Tables

LEMMA TablesNext == ASSUME TInv, [Next]_vars PROVE Tables'
<1>1. CASE \E r \in Runs : CommitAnalytics(r) \/ Ingest(r) \/ Prune(r)
  BY <1>1, CommitTables, IngestTables, PruneTables
<1>2. CASE UNCHANGED tables
  BY <1>2 DEF TInv, Tables, tables
<1> QED
  BY <1>1, <1>2 DEF Next, vars, Tick, Start, Proceed, TakeCutoff, ScanForRugs,
     JudgeSignals, RecordEvents, ReclassifyRead, ReclassifyWrite, RescoreRead, RescoreWrite, CountRugs,
     UpsertWallets, Error, Crash

\* Only an error below the budget starts another attempt.
LEMMA AttemptsNext == ASSUME TInv, [Next]_vars PROVE Attempts'
<1>1. ASSUME NEW r \in Runs, NEW n \in Nat \ {0}, n <= Budget[r],
             attempt' = [attempt EXCEPT ![r] = n]
      PROVE  Attempts'
  BY <1>1 DEF TInv, Attempts
<1>2. \A r \in Runs : attempt[r] \in Nat \ {0} /\ Budget[r] \in Nat \ {0}
  BY RugAnalyticsAssumption DEF TInv, Attempts
<1>3. CASE attempt' = attempt
  BY <1>3 DEF TInv, Attempts
<1>4. ASSUME NEW r \in Runs, Prune(r) \/ Error(r) \/ Crash(r) PROVE Attempts'
  <2>1. \/ attempt' = [attempt EXCEPT ![r] = 1]
        \/ /\ attempt[r] < Budget[r]
           /\ attempt' = [attempt EXCEPT ![r] = attempt[r] + 1]
    BY <1>4 DEF Prune, Error, Crash, Ended
  <2>2. CASE attempt' = [attempt EXCEPT ![r] = 1]
    <3>1. 1 \in Nat \ {0} /\ 1 <= Budget[r]
      BY <1>2
    <3> QED
      BY <1>1, <2>2, <3>1
  <2>3. CASE /\ attempt[r] < Budget[r]
             /\ attempt' = [attempt EXCEPT ![r] = attempt[r] + 1]
    <3> DEFINE n == attempt[r] + 1
    <3>1. n \in Nat \ {0} /\ n <= Budget[r]
      BY <1>2, <2>3
    <3>2. attempt' = [attempt EXCEPT ![r] = n]
      BY <2>3
    <3> HIDE DEF n
    <3> QED
      BY <1>1, <3>1, <3>2
  <2> QED
    BY <2>1, <2>2, <2>3
<1> QED
  BY <1>3, <1>4 DEF Next, vars, Tick, Start, Proceed, Ingest, TakeCutoff,
     ScanForRugs, JudgeSignals, RecordEvents, ReclassifyRead, ReclassifyWrite, RescoreRead, RescoreWrite,
     CountRugs, UpsertWallets, CommitAnalytics

LEMMA JobsNext == ASSUME TInv, IsFiniteSet(Mints), [Next]_vars PROVE Jobs'
<1>1. CASE UNCHANGED <<pc, job>>
  BY <1>1 DEF TInv, Jobs, Typed, Counted
<1>2. ASSUME NEW r \in Runs, Start(r) \/ Ingest(r) \/ UpsertWallets(r)
      PROVE  Jobs'
  <2>1. PICK p : /\ pc' = [pc EXCEPT ![r] = p] /\ job' = job
                 /\ Counted(pc[r], job[r]) => Counted(p, job[r])
    BY <1>2 DEF Start, Ingest, UpsertWallets, Goto, Counted
  <2>2. job' = [job EXCEPT ![r] = job[r]]
    BY <2>1 DEF TInv, AInv, EInv, Shape
  <2> QED
    BY <2>1, <2>2, OneJobIsTyped DEF TInv, Jobs
<1>3. ASSUME NEW r \in Runs,
             CommitAnalytics(r) \/ Prune(r) \/ Error(r) \/ Crash(r)
      PROVE  Jobs'
  <2>1. PICK p : /\ pc' = [pc EXCEPT ![r] = p] /\ p \in {"later", "ingest", "idle"}
                 /\ job' = [job EXCEPT ![r] = NewJob]
    BY <1>3 DEF CommitAnalytics, Prune, Error, Crash, Ended, Goto
  <2> QED
    BY <2>1, NewJobIsTyped, OneJobIsTyped DEF Counted
<1> QED
  BY <1>1, <1>2, <1>3, CutoffIsTyped, ScanIsTyped, JudgeIsTyped, RecordIsTyped,
     ReclassifyReadIsTyped, ReclassifyWriteIsTyped, RescoreReadIsTyped, RescoreWriteIsTyped, CountIsTyped
  DEF Next, vars, Tick, Proceed

LEMMA TypesInit == Init => TInv
<1> SUFFICES ASSUME Init PROVE TInv
  OBVIOUS
<1>1. Tables
  BY DEF Init, Tables, Classes
<1>2. Attempts
  BY RugAnalyticsAssumption DEF Init, Attempts
<1>3. Jobs
  BY NewJobIsTyped DEF Init, Jobs, Counted
<1> QED
  BY <1>1, <1>2, <1>3, AloneInit DEF TInv

\* Every table and local variable has its type, for any number of overlapping
\* executions: what is written is a label of the schema, a score between 0 and
\* 100 points, an event of a known kind and token, and no execution goes over
\* its retry budget (run_daily_job, phase 1, _run_job).
THEOREM AnalyticsTypes ==
  ASSUME IsFiniteSet(Mints)
  PROVE  Spec => []TypeOK
<1>1. TInv /\ [Next]_vars => TInv'
  BY AloneNext, JobsNext, TablesNext, AttemptsNext DEF TInv
<1>2. TInv => TypeOK
  <2> SUFFICES ASSUME TInv PROVE TypeOK
    OBVIOUS
  <2>1. \A r \in Runs : Locked(r) \subseteq Mints
    BY ChangesAreFunctions DEF TInv, Jobs, Typed, Locked
  <2>2. \A r \in lone : \A s \in Runs \ {r} : pc[r] # "idle" /\ pc[s] = "idle"
    BY DEF TInv, AInv, Alone
  <2> QED
    BY <2>1, <2>2
    DEF TInv, AInv, EInv, Shape, Stamped, Jobs, Typed, Tables, Attempts, TypeOK
<1> QED
  BY <1>1, <1>2, TypesInit, PTL DEF Spec
=============================================================================
