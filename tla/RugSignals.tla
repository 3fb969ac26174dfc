----------------------------- MODULE RugSignals -----------------------------
(***************************************************************************)
(* The rug signals of a token (services/rug_detection.py, _signals_for):   *)
(* from its newest snapshot row, the row before it if there is one, the    *)
(* rugs counted for its creator, and the clock.  A quotient of floats is   *)
(* compared as one of integers.                                            *)
(***************************************************************************)
EXTENDS Classification

CONSTANTS
  OneDay,        \* 24 hours
  TwoDays,       \* 48 hours
  HistoryLimit   \* rugs that make a creator suspicious (3)

ASSUME RugSignalsAssumption ==
  OneDay \in Nat /\ TwoDays \in Nat /\ HistoryLimit \in Nat \ {0}

HardKinds == {"ath_drawdown_90pct", "ath_drawdown_70pct_within_24h_of_ath"}
SoftKinds == {"top_holder_dump", "suspicious_creator_wallet_history",
              "major_dev_sell_proxy"}
Kinds == HardKinds \cup SoftKinds

Severity(kind) == IF kind \in HardKinds THEN "hard" ELSE "soft"

\* The drawdown from the all-time high, whose time must be known.
Falls(row, percent) ==
  /\ {"cap", "athAt"} \cap row.absent = {}
  /\ row.ath > 0
  /\ 100 * (row.ath - row.cap) >= percent * row.ath

\* The largest holder sold 20 points between two snapshots.
Dumped(prev, row) ==
  /\ "top" \notin prev.absent \cup row.absent
  /\ prev.top > 0 /\ prev.top - row.top >= 20

\* A young coin at less than a twentieth of its high.
SoldByDev(row, now) ==
  /\ "cap" \notin row.absent
  /\ now - row.created <= TwoDays
  /\ row.ath > 0 /\ 20 * row.cap < row.ath

\* `before` holds the previous row, if any.
SignalsOf(row, before, rugs, now) ==
  {kind \in Kinds :
     \/ kind = "ath_drawdown_90pct" /\ Falls(row, 90)
     \/ /\ kind = "ath_drawdown_70pct_within_24h_of_ath"
        /\ Falls(row, 70) /\ ~ Falls(row, 90) /\ now - row.athAt <= OneDay
     \/ kind = "top_holder_dump" /\ \E prev \in before : Dumped(prev, row)
     \/ kind = "suspicious_creator_wallet_history" /\ rugs >= HistoryLimit
     \/ kind = "major_dev_sell_proxy" /\ SoldByDev(row, now)}
=============================================================================
