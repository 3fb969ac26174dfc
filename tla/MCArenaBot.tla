----------------------------- MODULE MCArenaBot -----------------------------
(* Instances of ArenaBot: two decisions of one hand at a table, and one at    *)
(* another.                                                                   *)
EXTENDS ArenaBot

CONSTANTS t1, t2

MCTurns == [t \in Tables |-> IF t = t1 THEN 2 ELSE 1]
MCHandOf == [t \in Tables |-> [k \in 1 .. MCTurns[t] |-> 1]]

Lower(word) == [word |-> word, lower |-> TRUE]
Upper(word) == [word |-> word, lower |-> FALSE]

\* A bet is legal at the first decision of t1 only, a fold at both; bets and calls
\* are listed in upper case; the payload of t2 lists nothing.
MCShown == [t \in Tables |-> [k \in 1 .. MCTurns[t] |->
              IF t # t1 THEN <<>>
              ELSE IF k = 1 THEN <<Upper("bet"), Lower("fold")>>
              ELSE <<Lower("fold"), Upper("call")>>]]

Card(rank, suit) == [rank |-> rank, suit |-> suit]
MadeHandFree == [hole |-> <<Card(9, "h"), Card(4, "s")>>,
                 board |-> <<Card(9, "d"), Card(2, "c"), Card(13, "s")>>,
                 pot |-> 10, toCall |-> 0, blind |-> 2]
Priced == [MadeHandFree EXCEPT !.toCall = 2]
Unseeable == [MadeHandFree EXCEPT !.hole = <<>>]
MCSituations == {MadeHandFree, Priced, Unseeable}
=============================================================================
