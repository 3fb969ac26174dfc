--------------------------- MODULE ScoringProofs ---------------------------
(***************************************************************************)
(* Where the bulk statements of the daily job and the per-token functions  *)
(* they replace agree, for every snapshot row, number of events and time,  *)
(* and one theorem for each cause of their differing.                      *)
(***************************************************************************)
EXTENDS Scoring, TLAPS

\* A payload whose fields SQL and Python convert alike: an integer number of
\* replies, and a last trade that is absent or an integer number of
\* milliseconds.
Plain(row) == row.replyKind = "integer" /\ row.tradedKind # "number"

\* "Implements the same logic as `classify_token`" (classification_bulk.py:19)
\* holds for plain payloads.
THEOREM LabelsAgree ==
  ASSUME NEW row \in SnapshotRow, NEW now \in Int,
         NEW hard \in BOOLEAN, NEW soft \in BOOLEAN, Plain(row)
  PROVE  BulkLabel(row, hard, soft, now) = ClassifyToken(row, hard, soft, now)
<1>1. TenDays \in Int
  BY ClassificationAssumption
<1>2. /\ row.traded \in Int /\ row.tradedKind \in TradedKinds
      /\ row.replyKind = "integer"
  BY DEF SnapshotRow, Plain
<1>3. BulkAbandoned(row, now) = Abandoned(row, now)
  BY <1>1, <1>2 DEF BulkAbandoned, Abandoned, TradedKinds, Plain
<1>4. QED
  BY <1>2, <1>3 DEF BulkLabel, ClassifyToken, BulkWinner

\* A token with a rug event gets the same label from both, whatever its
\* payload: no conversion comes before the events.
THEOREM RugLabelsAgree ==
  ASSUME NEW row, NEW now, NEW hard \in BOOLEAN, NEW soft \in BOOLEAN,
         hard \/ soft
  PROVE  /\ BulkLabel(row, hard, soft, now) = ClassifyToken(row, hard, soft, now)
         /\ BulkLabel(row, hard, soft, now) # Raises
BY DEF BulkLabel, ClassifyToken, Raises

\* A fraction of milliseconds older than ten days is abandoned to Python only.
THEOREM FractionsAreNeverAbandoned ==
  ASSUME NEW row \in SnapshotRow, NEW now \in Int,
         row.tradedKind = "number", now - row.traded > TenDays
  PROVE  /\ BulkLabel(row, FALSE, FALSE, now) # "abandoned"
         /\ ClassifyToken(row, FALSE, FALSE, now) = "abandoned"
BY DEF BulkLabel, BulkAbandoned, BulkWinner, ClassifyToken, Abandoned, Raises

\* A fraction of replies fails the bulk statement, and Python rounds it.
THEOREM FractionsRaise ==
  ASSUME NEW row \in SnapshotRow, NEW now \in Int, row.replyKind = "fraction",
         ~ row.graduated, ~ BulkAbandoned(row, now)
  PROVE  /\ BulkLabel(row, FALSE, FALSE, now) = Raises
         /\ ClassifyToken(row, FALSE, FALSE, now) # Raises
BY DEF BulkLabel, BulkWinner, ClassifyToken, Raises

\* "The arithmetic mirrors `score_token`" (scoring_bulk.py:14) holds for plain
\* payloads whose all-time high is not negative.
THEOREM ScoresAgree ==
  ASSUME NEW row \in SnapshotRow, NEW now \in Int,
         NEW hardN \in Nat, NEW softN \in Nat, Plain(row), row.ath >= 0
  PROVE  BulkScore(row, hardN, softN, now) = ScoreToken(row, hardN, softN, now)
<1>1. SevenDays \in Int
  BY ScoringAssumption
<1>2. /\ row.ath \in Int /\ row.traded \in Int
      /\ row.tradedKind \in TradedKinds /\ row.replyKind = "integer"
      /\ row.replies \in Int
  BY DEF SnapshotRow, Plain
<1>3. BulkIdle(row, now) = Idle(row, now)
  BY <1>1, <1>2 DEF BulkIdle, Idle, TradedKinds, Plain
<1>4. AtMost(30 * Point, 6 * row.ath)
        = IF row.ath > 0 THEN AtMost(30 * Point, 6 * row.ath) ELSE 0
  BY <1>2 DEF AtMost, Point
<1>5. NumericReplies(row) = 1000 * row.replies
  BY <1>2 DEF NumericReplies
<1>6. /\ (IF hardN > 0 THEN 25 * Point * hardN ELSE 0) = 25 * Point * hardN
      /\ (IF softN > 0 THEN 8 * Point * softN ELSE 0) = 8 * Point * softN
  BY DEF Point
<1>7. QED
  BY <1>3, <1>4, <1>5, <1>6 DEF BulkScore, ScoreToken

\* Both scores are between 0 and 100 points, so that numeric(12,4) holds them.
THEOREM ScoresAreBounded ==
  ASSUME NEW row \in SnapshotRow, NEW now \in Int,
         NEW hardN \in Nat, NEW softN \in Nat
  PROVE  /\ BulkScore(row, hardN, softN, now) \in 0 .. 100 * Point
         /\ ScoreToken(row, hardN, softN, now) \in 0 .. 100 * Point
<1>1. ASSUME NEW x \in Int PROVE Clamped(x) \in 0 .. 100 * Point
  <2>1. 100 * Point \in Nat
    BY DEF Point
  <2>2. AtMost(100 * Point, x) \in Int /\ AtMost(100 * Point, x) <= 100 * Point
    BY <2>1 DEF AtMost
  <2>3. QED
    BY <2>1, <2>2 DEF Clamped, AtLeast
<1>2. /\ row.ath \in Int /\ row.bonding \in Int /\ row.volume \in Int
      /\ row.ratio \in Int /\ row.replies \in Int
  BY DEF SnapshotRow
<1>3. RatioBonus(row) \in Int /\ TopPenalty(row) \in Int
  BY <1>2 DEF RatioBonus, TopPenalty, AtMost, Point
<1>4. NumericReplies(row) \in Int
  BY <1>2 DEF NumericReplies
<1>5. /\ 25 * Point * hardN \in Int /\ 8 * Point * softN \in Int
      /\ 10 * Point \in Int /\ 30 * Point \in Int
      /\ 20 * Point \in Int /\ 15 * Point \in Int
  BY DEF Point
<1>6. /\ 6 * row.ath \in Int /\ 5000 * row.bonding \in Int
      /\ 1000 * row.replies \in Int
  BY <1>2
<1>7. /\ AtMost(30 * Point, 6 * row.ath) \in Int
      /\ AtMost(10 * Point, 5000 * row.bonding) \in Int
      /\ AtMost(10 * Point, row.volume) \in Int
  <2>1. AtMost(30 * Point, 6 * row.ath) \in Int
    BY <1>5, <1>6 DEF AtMost
  <2>2. AtMost(10 * Point, 5000 * row.bonding) \in Int
    BY <1>5, <1>6 DEF AtMost
  <2>3. AtMost(10 * Point, row.volume) \in Int
    BY <1>2, <1>5 DEF AtMost
  <2>4. QED
    BY <2>1, <2>2, <2>3
<1>8. /\ AtMost(10 * Point, NumericReplies(row)) \in Int
      /\ AtMost(10 * Point, 1000 * row.replies) \in Int
  <2>1. AtMost(10 * Point, NumericReplies(row)) \in Int
    BY <1>4, <1>5 DEF AtMost
  <2>2. AtMost(10 * Point, 1000 * row.replies) \in Int
    BY <1>5, <1>6 DEF AtMost
  <2>3. QED
    BY <2>1, <2>2
<1>9. QED
  BY <1>1, <1>3, <1>5, <1>7, <1>8 DEF BulkScore, ScoreToken
=============================================================================
