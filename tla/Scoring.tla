------------------------------ MODULE Scoring ------------------------------
(***************************************************************************)
(* The score of a token: the arithmetic of rescore_recent_mints            *)
(* (services/scoring_bulk.py), which the daily job runs, and of            *)
(* score_token (services/scoring.py), which it says it mirrors.  A point   *)
(* is Point units, which makes every quotient of the two whole; `ratio`    *)
(* (buy_sell_ratio) is in units too.  The rounding of the bulk score to    *)
(* four decimals is left out.  A NULL column counts as 0 in both.          *)
(***************************************************************************)
EXTENDS Classification

CONSTANT SevenDays   \* interval '7 days', timedelta(days=7)

ASSUME ScoringAssumption == SevenDays \in Nat

Point == 50000

AtMost(bound, x) == IF x < bound THEN x ELSE bound
AtLeast(bound, x) == IF x > bound THEN x ELSE bound
Clamped(score) == AtLeast(0, AtMost(100 * Point, score))

\* buy_sell_ratio and top_holder_concentration_pct count alike in both.
RatioBonus(row) == IF row.ratio > Point THEN AtMost(5 * Point, row.ratio - Point)
                   ELSE 0
TopPenalty(row) == IF row.top > 40 THEN 15 * Point
                   ELSE IF row.top > 25 THEN 8 * Point ELSE 0

-----------------------------------------------------------------------------
(* rescore_recent_mints *)

\* ::numeric keeps the fraction (here a half) that int() drops.
NumericReplies(row) ==
  1000 * row.replies + (IF row.replyKind = "fraction" THEN 500 ELSE 0)

BulkIdle(row, now) == row.tradedKind = "digits" /\ row.traded < now - SevenDays

BulkScore(row, hardN, softN, now) ==
  Clamped(20 * Point
          + AtMost(30 * Point, 6 * row.ath)
          + (IF row.graduated THEN 20 * Point ELSE 0)
          + AtMost(10 * Point, 5000 * row.bonding)
          + AtMost(10 * Point, row.volume)
          + RatioBonus(row)
          - TopPenalty(row)
          - 25 * Point * hardN
          - 8 * Point * softN
          + AtMost(10 * Point, NumericReplies(row))
          - (IF BulkIdle(row, now) THEN 15 * Point ELSE 0))

-----------------------------------------------------------------------------
(* score_token *)

Idle(row, now) == row.tradedKind # "none" /\ now - row.traded > SevenDays

ScoreToken(row, hardN, softN, now) ==
  Clamped(20 * Point
          + (IF row.ath > 0 THEN AtMost(30 * Point, 6 * row.ath) ELSE 0)
          + (IF row.graduated THEN 20 * Point ELSE 0)
          + AtMost(10 * Point, 5000 * row.bonding)
          + AtMost(10 * Point, row.volume)
          + RatioBonus(row)
          - TopPenalty(row)
          - (IF hardN > 0 THEN 25 * Point * hardN ELSE 0)
          - (IF softN > 0 THEN 8 * Point * softN ELSE 0)
          + AtMost(10 * Point, 1000 * row.replies)
          - (IF Idle(row, now) THEN 15 * Point ELSE 0))
=============================================================================
