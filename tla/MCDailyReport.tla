--------------------------- MODULE MCDailyReport ---------------------------
(* Instances of DailyReport on one mint: an execution with a retry over three *)
(* days of two ticks, its leaderboards left empty; and two executions that    *)
(* overlap each other and a midnight.                                         *)
EXTENDS DailyReport, TLC

CONSTANTS a, cron, catchup

MCBudget == [r \in Runs |-> IF Runs = {r} THEN 2 ELSE 1]
Alike == Permutations(Runs)
=============================================================================
