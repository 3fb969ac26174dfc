---------------------------- MODULE MCIngestion ----------------------------
(* The instance of Ingestion that TLC checks: a scheduled run that may retry *)
(* once and one from the command line, whose listings name the same two       *)
(* mints in both orders, or only one of them.                                 *)
EXTENDS Ingestion, TLC

CONSTANTS a, b, cron, cli

MCBudget == (cron :> 2) @@ (cli :> 1)
MCListings == {<<a, b>>, <<b, a>>, <<b>>}
=============================================================================
