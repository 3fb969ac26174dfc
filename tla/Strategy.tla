------------------------------ MODULE Strategy ------------------------------
(***************************************************************************)
(* What the poker bot decides (arena/strategy.py, decide), as a function   *)
(* of a situation                                                          *)
(*   [hole, board : sequences of cards, pot, toCall, blind : chips]        *)
(* and of the list of actions that the server shows, each with the case it *)
(* is spelled in: [word : its lower-case form, lower : spelled so].  The   *)
(* decision is in lower case, whatever the list's.  A card is a rank       *)
(* (11 to 14 for J, Q, K, A; Unreadable if _parse_card raises) and a suit. *)
(***************************************************************************)
EXTENDS Integers, Sequences

Unreadable == 0
Strengths == {"premium", "strong", "speculative", "junk"}

Larger(x, y) == IF x >= y THEN x ELSE y
Smaller(x, y) == IF x <= y THEN x ELSE y

\* {a.lower() for a in available_actions}
Legal(actions) == {actions[i].word : i \in DOMAIN actions}
Ranks(cards) == {cards[i].rank : i \in DOMAIN cards}

Decision(action, amount) == [action |-> action, amount |-> amount]

\* fallback(): check > fold > call > the first legal one.
Fallback(actions, toCall) ==
  IF "check" \in Legal(actions) THEN Decision("check", 0)
  ELSE IF "fold" \in Legal(actions) THEN Decision("fold", 0)
  ELSE IF "call" \in Legal(actions) THEN Decision("call", toCall)
  ELSE IF actions # <<>> THEN Decision(actions[1].word, 0)
  ELSE Decision("check", 0)

PocketPair(hole) == Len(hole) = 2 /\ hole[1].rank = hole[2].rank

\* _hole_strength of two readable cards.
StrengthOfTwo(a, b) ==
  LET hi == Larger(a.rank, b.rank)
      lo == Smaller(a.rank, b.rank)
      suited == a.suit = b.suit IN
  IF hi = lo THEN IF hi >= 10 THEN "premium"
                  ELSE IF hi >= 7 THEN "strong" ELSE "speculative"
  ELSE IF hi = 14 /\ lo >= 13 THEN "premium"
  ELSE IF (hi = 14 /\ lo >= 10) \/ (hi = 13 /\ lo >= 11) THEN "strong"
  ELSE IF suited /\ (hi = 14 \/ (hi - lo <= 2 /\ lo >= 5)) THEN "speculative"
  ELSE "junk"

Strength(hole) ==
  IF Len(hole) = 2 THEN StrengthOfTwo(hole[1], hole[2]) ELSE "junk"

HitsBoard(hole, board) == Ranks(hole) \cap Ranks(board) # {}

\* pot_odds < 0.4, asked only when there is something to call.
GoodOdds(pot, toCall) == 5 * toCall < 2 * Larger(pot + toCall, 1)

\* street == 0.
Preflop(s, actions) ==
  LET legal == Legal(actions)
      strength == Strength(s.hole)
      target == Larger(3 * s.blind, 3 * s.toCall) IN
  IF strength = "premium" /\ "raise" \in legal THEN Decision("raise", target)
  ELSE IF strength = "premium" /\ "bet" \in legal THEN Decision("bet", target)
  ELSE IF /\ "call" \in legal
          /\ \/ strength = "premium"
             \/ strength = "strong" /\ s.toCall <= 3 * s.blind
    THEN Decision("call", s.toCall)
  ELSE IF /\ strength \in {"strong", "speculative"}
          /\ s.toCall = 0 /\ "check" \in legal
    THEN Decision("check", 0)
  ELSE IF strength = "speculative" /\ s.toCall <= s.blind /\ "call" \in legal
    THEN Decision("call", s.toCall)
  ELSE Fallback(actions, s.toCall)

\* Slip: the value bet does not look whether betting is legal.
MadeHandAlwaysBets(s, actions) ==
  IF s.toCall = 0 THEN Decision("bet", Larger(2 * s.blind, s.pot \div 2))
  ELSE Fallback(actions, s.toCall)

MadeHand(s, actions) ==
  LET legal == Legal(actions) IN
  IF s.toCall = 0 /\ "bet" \in legal
    THEN Decision("bet", Larger(2 * s.blind, s.pot \div 2))
  ELSE IF s.toCall > 0 /\ "call" \in legal /\ GoodOdds(s.pot, s.toCall)
    THEN Decision("call", s.toCall)
  ELSE IF "check" \in legal THEN Decision("check", 0)
  ELSE Fallback(actions, s.toCall)

Missed(s, actions) ==
  LET legal == Legal(actions) IN
  IF s.toCall = 0 /\ "check" \in legal THEN Decision("check", 0)
  ELSE IF s.toCall <= s.blind /\ Len(s.board) = 3 /\ "call" \in legal
    THEN Decision("call", s.toCall)
  ELSE Fallback(actions, s.toCall)

\* _hole_strength parses two cards or none; _hits_board parses all, unless the
\* hole cards are a pair.
Decide(s, actions) ==
  IF s.hole = <<>> \/ (Len(s.hole) = 2 /\ Unreadable \in Ranks(s.hole))
    THEN Fallback(actions, s.toCall)
  ELSE IF s.board = <<>> THEN Preflop(s, actions)
  ELSE IF PocketPair(s.hole) THEN MadeHand(s, actions)
  ELSE IF Unreadable \in Ranks(s.hole) \cup Ranks(s.board)
    THEN Fallback(actions, s.toCall)
  ELSE IF HitsBoard(s.hole, s.board) THEN MadeHand(s, actions)
  ELSE Missed(s, actions)
=============================================================================
