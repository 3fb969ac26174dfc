--------------------------- MODULE MCRugAnalytics ---------------------------
(* Instances of RugAnalytics: two mints of one creator, one retry.            *)
EXTENDS RugAnalytics, TLC

CONSTANTS a, b, c, cron, catchup

MCCreatorOf == [m \in Mints |-> c]
MCBudget == [r \in Runs |-> 2]
\* A token that does well until nobody trades it; one that collapses, its dev and
\* its largest holder having sold; and one that is well down a little after its
\* high, with a payload that makes the bulk cast fail.
Steady == [cap |-> 60000, ath |-> 60000, athAt |-> 0, created |-> 0,
           bonding |-> 90, graduated |-> FALSE,
           volume |-> 0, ratio |-> 0, top |-> 30,
           replies |-> 10, replyKind |-> "integer",
           traded |-> 0, tradedKind |-> "digits", absent |-> {}]
Collapsed == [Steady EXCEPT !.cap = 2000, !.top = 5, !.tradedKind = "none"]
Odd == [Steady EXCEPT !.cap = 15000, !.absent = {"top"},
                      !.replyKind = "fraction", !.tradedKind = "number"]
MCRows == {Steady, Collapsed, Odd}
MCTwoRows == {Steady, Collapsed}
MCSymmetry == Permutations(Mints)
=============================================================================
