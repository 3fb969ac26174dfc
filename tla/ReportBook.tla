----------------------------- MODULE ReportBook -----------------------------
(***************************************************************************)
(* What the daily pipeline promises about `winner_patterns` and            *)
(* `daily_market_reports`, seen from outside: the patterns of a date only  *)
(* grow until they expire, a report is stored with exactly the coins that  *)
(* are behind the patterns of its date, and a date expires in both tables  *)
(* at once.                                                                *)
(* DailyReport.tla, where an execution writes the tables in transactions   *)
(* of its own, with failures, retries and midnights between them, is       *)
(* checked and proved to implement this for one execution at a time.       *)
(***************************************************************************)
EXTENDS Integers

CONSTANTS Mints, Days

VARIABLES
  patterns,      \* the mints behind the winner_patterns of each date
  reports        \* daily_market_reports and the coins counted: at most one per
                 \* date

bookVars == <<patterns, reports>>

BookInit ==
  /\ patterns = [d \in Days |-> {}]
  /\ reports = {}

Collect(d, counted) ==
  /\ patterns[d] \subseteq counted
  /\ patterns' = [patterns EXCEPT ![d] = counted]
  /\ UNCHANGED reports

Publish(d) ==
  /\ reports' = {p \in reports : p.day # d}
                  \cup {[day |-> d, scanned |-> patterns[d]]}
  /\ UNCHANGED patterns

Expire(first) ==
  /\ patterns' = [d \in Days |-> IF d >= first THEN patterns[d] ELSE {}]
  /\ reports' = {p \in reports : p.day >= first}

BookNext ==
  \/ \E d \in Days, counted \in SUBSET Mints : Collect(d, counted)
  \/ \E d \in Days : Publish(d)
  \/ \E first \in Days : Expire(first)

BookSpec == BookInit /\ [][BookNext]_bookVars
=============================================================================
