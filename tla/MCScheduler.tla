---------------------------- MODULE MCScheduler ----------------------------
(* Instances of Scheduler: a day of 6 or 10 ticks, two retries.               *)
EXTENDS Scheduler

MCDelays == <<1, 3>>
MCGrace == [j \in JobIds |-> 1]
=============================================================================
