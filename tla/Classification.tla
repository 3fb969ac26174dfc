--------------------------- MODULE Classification ---------------------------
(***************************************************************************)
(* The label of a token, from its latest snapshot and its rug events:      *)
(* the CASE of reclassify_recent_mints (services/classification_bulk.py),  *)
(* which the daily job runs, and classify_token                            *)
(* (services/winner_classification.py), which it says it implements.       *)
(* They read the columns alike (a NULL counts as 0) but convert the raw    *)
(* JSON differently: SQL casts text, Python converts values.               *)
(***************************************************************************)
EXTENDS Integers

CONSTANT TenDays   \* interval '10 days', timedelta(days=10)

ASSUME ClassificationAssumption == TenDays \in Nat

\* raw_coin.last_trade_timestamp: absent or text that is no number, a text of
\* digits only, or a number that is not (a fraction, a negative number).
TradedKinds == {"none", "digits", "number"}

\* raw_coin.reply_count: an integer (0 if absent), a fraction, or a text.
ReplyKinds == {"integer", "fraction", "text"}

\* What the analytics read of a snapshot row: dollars, percentages, counts and
\* times.  A NULL is a 0, and where that makes a difference it is in `absent`.
SnapshotRow ==
  [cap : Int, ath : Int, athAt : Int, created : Int,
   bonding : Int, graduated : BOOLEAN,
   volume : Int, ratio : Int, top : Int,
   replies : Int, replyKind : ReplyKinds,
   traded : Int, tradedKind : TradedKinds,
   absent : SUBSET {"cap", "top", "athAt"}]

Labels == {"hard_rug", "soft_rug", "abandoned", "graduated_winner",
           "viral_winner", "bonding_winner", "micro_winner", "loser"}

\* The conversion of reply_count fails: no label at all.
Raises == "raises"

-----------------------------------------------------------------------------
(* reclassify_recent_mints *)

BulkAbandoned(row, now) ==
  row.tradedKind = "digits" /\ row.traded < now - TenDays

BulkWinner(row) ==
  IF row.graduated THEN "graduated_winner"
  ELSE IF row.replyKind # "integer" THEN Raises       \* the ::int cast
  ELSE IF row.replies >= 2000 /\ row.ath >= 250000 THEN "viral_winner"
  ELSE IF row.bonding >= 85 /\ row.ath >= 40000 THEN "bonding_winner"
  ELSE IF row.ath >= 25000 THEN "micro_winner"
  ELSE "loser"

BulkLabel(row, hard, soft, now) ==
  IF hard THEN "hard_rug"
  ELSE IF soft THEN "soft_rug"
  ELSE IF BulkAbandoned(row, now) THEN "abandoned"
  ELSE BulkWinner(row)

-----------------------------------------------------------------------------
(* classify_token *)

\* _ms_to_dt converts whatever float() takes.
Abandoned(row, now) ==
  row.tradedKind # "none" /\ now - row.traded > TenDays

ClassifyToken(row, hard, soft, now) ==
  IF hard THEN "hard_rug"
  ELSE IF soft THEN "soft_rug"
  ELSE IF Abandoned(row, now) THEN "abandoned"
  ELSE IF row.replyKind = "text" THEN Raises          \* int(); a fraction is cut
  ELSE IF row.graduated THEN "graduated_winner"
  ELSE IF row.replies >= 2000 /\ row.ath >= 250000 THEN "viral_winner"
  ELSE IF row.bonding >= 85 /\ row.ath >= 40000 THEN "bonding_winner"
  ELSE IF row.ath >= 25000 THEN "micro_winner"
  ELSE "loser"    \* also for a cap of at most 5,000: both branches return it
=============================================================================
