--------------------------- MODULE ArenaBotProofs ---------------------------
(***************************************************************************)
(* Theorems about Strategy, for every situation and list of actions, and   *)
(* about ArenaBot, for any tables, decisions, bodies the server            *)
(* understands, retries, and however late or lost its requests are.        *)
(***************************************************************************)
EXTENDS ArenaBot, FiniteSetTheorems, TLAPS

-----------------------------------------------------------------------------
(* What decide promises, for every situation and every list of actions *)

Situation(Cards) ==
  [hole : Seq(Cards), board : Seq(Cards), pot : Nat, toCall : Nat, blind : Nat]
Card == [rank : Nat, suit : STRING]

LEMMA ElementIn ==
  ASSUME NEW S, NEW s \in Seq(S), NEW i \in DOMAIN s
  PROVE  s[i] \in S
  OBVIOUS

\* fallback() returns a legal action whenever there is one.
LEMMA FallbackIsLegal ==
  ASSUME NEW Actions, NEW actions \in Seq(Actions), actions # <<>>, NEW toCall
  PROVE  Fallback(actions, toCall).action \in Legal(actions)
<1>1. actions[1].word \in Legal(actions)
  BY DEF Legal
<1>2. QED
  BY <1>1 DEF Fallback, Decision

\* "Never returns an action that is not in `available_actions`"
\* (strategy.py:86) but in one respect: it is the lower-case form of one of them
\* (strategy.py:92, 101), so the action itself where the list is in lower case.
THEOREM DecisionIsLegal ==
  ASSUME NEW Actions, NEW actions \in Seq(Actions), actions # <<>>, NEW s
  PROVE  \E i \in DOMAIN actions : Decide(s, actions).action = actions[i].word
<1>1. Fallback(actions, s.toCall).action \in Legal(actions)
  BY FallbackIsLegal
<1>2. Preflop(s, actions).action \in Legal(actions)
  BY <1>1 DEF Preflop, Decision
<1>3. MadeHand(s, actions).action \in Legal(actions)
  BY <1>1 DEF MadeHand, Decision
<1>4. Missed(s, actions).action \in Legal(actions)
  BY <1>1 DEF Missed, Decision
<1>5. Decide(s, actions).action \in Legal(actions)
  BY <1>1, <1>2, <1>3, <1>4 DEF Decide
<1> QED
  BY <1>5 DEF Legal

\* With no action listed the strategy checks (strategy.py:102), for every hand
\* and board.
THEOREM NothingListedChecks ==
  ASSUME NEW s
  PROVE  Decide(s, <<>>).action = "check"
<1>1. Legal(<<>>) = {}
  BY DEF Legal
<1>2. Fallback(<<>>, s.toCall).action = "check"
  BY <1>1 DEF Fallback, Decision
<1>3. Preflop(s, <<>>).action = "check"
  BY <1>1, <1>2 DEF Preflop
<1>4. MadeHand(s, <<>>).action = "check"
  BY <1>1, <1>2 DEF MadeHand
<1>5. Missed(s, <<>>).action = "check"
  BY <1>1, <1>2 DEF Missed
<1> QED
  BY <1>2, <1>3, <1>4, <1>5 DEF Decide

\* Folding and checking cost nothing, a call costs what there is to call, and
\* a bet or raise of strategy.py is at least two big blinds; only an action
\* forced by the list (neither check, fold nor call is legal) has no amount.
Priced(s, actions, d) ==
  /\ d.amount \in Nat
  /\ d.action \in {"check", "fold"} => d.amount = 0
  /\ d.action = "call" => d.amount = s.toCall
  /\ d.action \notin {"check", "fold", "call"} =>
       \/ d.amount >= 2 * s.blind
       \/ d = Decision(actions[1].word, 0) /\ {"check", "fold", "call"} \cap Legal(actions) = {}

LEMMA FallbackIsPriced ==
  ASSUME NEW Actions, NEW actions \in Seq(Actions), NEW s \in Situation(Card)
  PROVE  Priced(s, actions, Fallback(actions, s.toCall))
<1>1. s.toCall \in Nat
  BY DEF Situation
<1>2. actions # <<>> => actions[1].word \in Legal(actions)
  BY DEF Legal
<1>3. QED
  BY <1>1, <1>2 DEF Fallback, Priced, Decision

\* No rule of decide puts in an amount that does not go with its action
\* (strategy.py:94-161).
THEOREM DecisionIsPriced ==
  ASSUME NEW Actions, NEW actions \in Seq(Actions), NEW s \in Situation(Card)
  PROVE  Priced(s, actions, Decide(s, actions))
<1>1. Priced(s, actions, Fallback(actions, s.toCall))
  BY FallbackIsPriced
<1>2. s.toCall \in Nat /\ s.blind \in Nat /\ s.pot \in Nat
  BY DEF Situation
<1>3. Priced(s, actions, Preflop(s, actions))
  BY <1>1, <1>2 DEF Preflop, Priced, Decision, Larger
<1>4. Priced(s, actions, MadeHand(s, actions))
  BY <1>1, <1>2 DEF MadeHand, Priced, Decision, Larger
<1>5. Priced(s, actions, Missed(s, actions))
  BY <1>1, <1>2 DEF Missed, Priced, Decision, Larger
<1>6. QED
  BY <1>1, <1>3, <1>4, <1>5 DEF Decide

-----------------------------------------------------------------------------
(* The bot *)

\* What the server has taken of a decision, or may still take, the bot knows
\* about: the submission has returned, or the decision is doubtful.
Accounted ==
  /\ \A a \in applied : [t |-> a.t, k |-> a.meant] \in submitted \cup doubtful
  /\ \A q \in late : [t |-> q.t, k |-> q.k] \in doubtful

\* The actions decided on are listed ones.
ActIsListed(d, a) ==
  IF ShownTo(d) = <<>> THEN a = "check"
  ELSE \E i \in DOMAIN ShownTo(d) : a = ShownTo(d)[i].word
Listed ==
  /\ \A q \in late : ActIsListed([t |-> q.t, k |-> q.k], q.act)
  /\ pc = "post" => ActIsListed(cur, act)

\* The part of TypeOK that the arguments need.
Typed ==
  /\ \A t \in Tables : turn[t] \in 0 .. Turns[t]
  /\ left \subseteq Pending
  /\ cur \in Pending \cup {NoAction}
  /\ pc = "post" => cur \in Pending
  /\ seen = {Key(d) : d \in submitted}
  /\ submitted \subseteq Pending
  /\ pc = "post" => Key(cur) \notin seen

BInv == Typed /\ Accounted /\ Listed /\ DoubleMovesNeedDoubt

LEMMA PendingIs ==
  ASSUME NEW d \in Pending
  PROVE  d.t \in Tables /\ d.k \in 1 .. Turns[d.t] /\ d = [t |-> d.t, k |-> d.k]
  BY DEF Pending

LEMMA IsPending ==
  ASSUME NEW t \in Tables, NEW k \in 1 .. Turns[t]
  PROVE  [t |-> t, k |-> k] \in Pending
  BY DEF Pending

\* decide chooses from the list (strategy.py).
LEMMA DecidesListed ==
  ASSUME NEW d \in Pending, NEW s
  PROVE  ActIsListed(d, Decide(s, ShownTo(d)).action)
<1>1. ShownTo(d) \in Seq([word : STRING \ {Undecided}, lower : BOOLEAN])
  BY PendingIs, ArenaBotAssumption DEF ShownTo
<1> QED
  BY <1>1, DecisionIsLegal, NothingListedChecks DEF ActIsListed

LEMMA BotInit == Init => BInv
  BY ArenaBotAssumption
  DEF Init, BInv, Typed, Accounted, Listed, DoubleMovesNeedDoubt

-----------------------------------------------------------------------------
(* What a request may do *)

\* A move that is taken is taken once: either it is the first of its decision,
\* or the decision is doubtful.
LEMMA ReceivesOnce ==
  ASSUME DoubleMovesNeedDoubt, NEW q, Receives(q),
         doubtful \subseteq doubtful',
         \/ [t |-> q.t, k |-> q.k] \in doubtful'
         \/ \A a \in applied : [t |-> a.t, k |-> a.meant] # [t |-> q.t, k |-> q.k]
  PROVE  DoubleMovesNeedDoubt'
<1>1. SUFFICES ASSUME NEW a \in applied', NEW b \in applied',
                      a.t = b.t, a.meant = b.meant, a # b
               PROVE  [t |-> a.t, k |-> a.meant] \in doubtful'
  BY DEF DoubleMovesNeedDoubt
<1> DEFINE new == [t |-> q.t, meant |-> q.k, hit |-> turn[q.t]]
<1>2. a \in applied \/ a = new
  BY DEF Receives
<1>3. b \in applied \/ b = new
  BY DEF Receives
<1>4. new.t = q.t /\ new.meant = q.k
  OBVIOUS
<1>5. CASE a \in applied /\ b \in applied
  BY <1>1, <1>5 DEF DoubleMovesNeedDoubt
<1>6. CASE a = new /\ b \in applied
  BY <1>1, <1>4, <1>6
<1>7. CASE a \in applied /\ b = new
  BY <1>1, <1>4, <1>7
<1> QED
  BY <1>1, <1>2, <1>3, <1>5, <1>6, <1>7

LEMMA ReceivesAccounted ==
  ASSUME Accounted, NEW q, Receives(q), doubtful \subseteq doubtful',
         submitted \subseteq submitted',
         applied' # applied => [t |-> q.t, k |-> q.k] \in submitted' \cup doubtful'
  PROVE  \A a \in applied' : [t |-> a.t, k |-> a.meant] \in submitted' \cup doubtful'
<1> SUFFICES ASSUME NEW a \in applied'
             PROVE  [t |-> a.t, k |-> a.meant] \in submitted' \cup doubtful'
  OBVIOUS
<1>1. CASE a \in applied
  BY <1>1 DEF Accounted
<1>2. CASE a \notin applied
  <2>1. a = [t |-> q.t, meant |-> q.k, hit |-> turn[q.t]]
    BY <1>2 DEF Receives
  <2>2. a.t = q.t /\ a.meant = q.k /\ applied' # applied
    BY <1>2, <2>1
  <2> QED
    BY <2>2
<1> QED
  BY <1>1, <1>2

LEMMA ArrivesKeeps ==
  ASSUME BInv, NEW q \in late, Arrives(q)
  PROVE  BInv'
<1>1. [t |-> q.t, k |-> q.k] \in doubtful /\ doubtful' = doubtful
  BY DEF BInv, Accounted, Arrives
<1>2. DoubleMovesNeedDoubt'
  BY <1>1, ReceivesOnce DEF BInv, Arrives
<1>3. Accounted'
  BY <1>1, ReceivesAccounted DEF BInv, Accounted, Arrives, memory
<1>4. Typed'
  BY DEF BInv, Typed, Arrives, Receives, tick, memory
<1>5. Listed'
  BY DEF BInv, Listed, Arrives, tick, ActIsListed
<1> QED
  BY <1>2, <1>3, <1>4, <1>5 DEF BInv

-----------------------------------------------------------------------------
(* The steps of the bot *)

\* What NextBody and Again leave alone, Concludes and Aborts end.
LEMMA ConcludesKeeps ==
  ASSUME Typed, pc = "post", Concludes, turn' = turn
  PROVE  Typed' /\ submitted' = submitted \cup {cur} /\ pc' # "post"
<1>1. seen' = {Key(d) : d \in submitted'}
  BY DEF Typed, Concludes
<1>2. cur \in Pending
  BY DEF Typed
<1> QED
  BY <1>1, <1>2 DEF Typed, Concludes

LEMMA NextBodyKeeps ==
  ASSUME Typed, pc = "post", NextBody, turn' = turn
  PROVE  /\ Typed'
         /\ submitted \subseteq submitted'
         /\ pc' = "post" => cur' = cur /\ act' = act
<1>1. CASE body < Len(Bodies)
  BY <1>1 DEF Typed, NextBody, memory
<1>2. CASE ~(body < Len(Bodies))
  BY <1>2, ConcludesKeeps DEF NextBody
<1> QED
  BY <1>1, <1>2

LEMMA AgainKeeps ==
  ASSUME Typed, pc = "post", Again \/ Aborts, turn' = turn
  PROVE  /\ Typed'
         /\ submitted' = submitted
         /\ pc' = "post" => cur' = cur /\ act' = act
  BY DEF Typed, Again, Aborts

LEMMA AnsweredKeeps == ASSUME BInv, Answered PROVE BInv'
<1> DEFINE q == Request(cur, act, body, try)
<1>1. pc = "post" /\ Receives(q) /\ turn' = turn /\ late' = late /\ doubtful' = doubtful
  BY DEF Answered, Receives, doubt
<1>2. cur \in Pending /\ cur = [t |-> q.t, k |-> q.k]
  BY <1>1, PendingIs DEF BInv, Typed, Request
<1>3. cur \notin submitted
  BY <1>1 DEF BInv, Typed
<1>4. Typed' /\ submitted \subseteq submitted' /\
      (pc' = "post" => cur' = cur /\ act' = act)
  <2>1. CASE Fits(q)
    BY <1>1, <2>1, ConcludesKeeps DEF BInv, Answered
  <2>2. CASE ~Fits(q)
    BY <1>1, <2>2, NextBodyKeeps DEF BInv, Answered
  <2> QED
    BY <2>1, <2>2
<1>5. applied' # applied => cur \in submitted'
  <2>1. CASE Fits(q)
    BY <1>1, <2>1, ConcludesKeeps DEF BInv, Answered
  <2>2. CASE ~Fits(q)
    BY <1>1, <2>2 DEF Receives
  <2> QED
    BY <2>1, <2>2
<1>6. Accounted'
  BY <1>1, <1>2, <1>4, <1>5, ReceivesAccounted DEF BInv, Accounted
<1>7. DoubleMovesNeedDoubt'
  <2>1. CASE cur \in doubtful
    BY <1>1, <1>2, <2>1, ReceivesOnce DEF BInv
  <2>2. CASE cur \notin doubtful
    <3>1. \A a \in applied : [t |-> a.t, k |-> a.meant] # cur
      BY <1>3, <2>2 DEF BInv, Accounted
    <3> QED
      BY <1>1, <1>2, <3>1, ReceivesOnce DEF BInv
  <2> QED
    BY <2>1, <2>2
<1>8. Listed'
  BY <1>1, <1>4 DEF BInv, Listed, ActIsListed
<1> QED
  BY <1>4, <1>6, <1>7, <1>8 DEF BInv

\* After an outcome in doubt the request may still be under way.
LEMMA DoubtKeeps ==
  ASSUME BInv, pc = "post", InDoubt, UNCHANGED server,
         Concludes \/ Again \/ Aborts
  PROVE  BInv'
<1> DEFINE q == Request(cur, act, body, try)
<1>1. cur \in Pending /\ cur = [t |-> q.t, k |-> q.k] /\ act = q.act
  BY PendingIs DEF BInv, Typed, Request
<1>2. /\ \A x \in late' : x \in late \/ x = q
      /\ doubtful' = doubtful \cup {cur}
  BY DEF InDoubt
<1>3. Typed' /\ submitted \subseteq submitted' /\
      (pc' = "post" => cur' = cur /\ act' = act)
  BY ConcludesKeeps, AgainKeeps DEF BInv, server
<1>4. Accounted'
  BY <1>1, <1>2, <1>3 DEF BInv, Accounted, server
<1>5. Listed'
  <2>1. ActIsListed(cur, act)
    BY DEF BInv, Listed
  <2>2. \A x \in late' : ActIsListed([t |-> x.t, k |-> x.k], x.act)
    BY <1>1, <1>2, <2>1 DEF BInv, Listed
  <2> QED
    BY <1>3, <2>1, <2>2 DEF Listed, ActIsListed
<1>6. DoubleMovesNeedDoubt'
  BY <1>2 DEF BInv, DoubleMovesNeedDoubt, server
<1> QED
  BY <1>3, <1>4, <1>5, <1>6 DEF BInv

\* Steps that submit nothing and decide nothing.
LEMMA QuietKeeps ==
  ASSUME BInv, Typed', UNCHANGED <<applied, late, doubtful>>,
         submitted \subseteq submitted', pc' = "post" => ActIsListed(cur', act')
  PROVE  BInv'
  BY DEF BInv, Accounted, Listed, DoubleMovesNeedDoubt, ActIsListed

LEMMA PollKeeps == ASSUME BInv, Poll PROVE BInv'
<1>1. left' \subseteq Pending
  BY IsPending DEF BInv, Typed, Poll
<1>2. Typed'
  BY <1>1 DEF BInv, Typed, Poll, server
<1> QED
  BY <1>2, QuietKeeps DEF Poll, server, doubt

LEMMA HandleKeeps ==
  ASSUME BInv, NEW d \in left, Handle(d)
  PROVE  BInv'
<1>1. d \in Pending
  BY DEF BInv, Typed
<1>2. UNCHANGED <<turn, applied, late, doubtful, seen, submitted>>
  BY DEF Handle, server, doubt, memory
<1>3. CASE Unseen(d)
  <2>1. PICK s \in Situations : act' = Decide(s, ShownTo(d)).action
    BY <1>3 DEF Handle
  <2>2. cur' = d /\ ActIsListed(cur', act')
    BY <1>1, <1>3, <2>1, DecidesListed DEF Handle, ActIsListed
  <2>3. Typed'
    BY <1>1, <1>2, <1>3, <2>2 DEF BInv, Typed, Handle, Unseen
  <2> QED
    BY <1>2, <2>2, <2>3, QuietKeeps
<1>4. CASE ~Unseen(d)
  <2>1. Typed' /\ pc' # "post"
    BY <1>2, <1>4 DEF BInv, Typed, Handle
  <2> QED
    BY <1>2, <2>1, QuietKeeps
<1> QED
  BY <1>3, <1>4

LEMMA RefusedKeeps == ASSUME BInv, Refused PROVE BInv'
  BY ConcludesKeeps, QuietKeeps DEF BInv, Refused, server, doubt

\* The rest of the tick and of the server leaves submissions alone.
LEMMA OthersKeep ==
  ASSUME BInv,
         \/ Join \/ Loop \/ EndTick \/ Signal \/ UNCHANGED vars
         \/ \E t \in Tables : Asks(t) \/ MovesOn(t)
  PROVE  BInv'
<1>1. UNCHANGED <<applied, late, doubtful, submitted, seen, cur, act>>
      /\ left' = left /\ (pc' = "post" => pc = "post")
  BY DEF Join, Loop, EndTick, Signal, Asks, MovesOn, vars, server, doubt, tick,
         memory
<1>2. \A t \in Tables : turn'[t] \in 0 .. Turns[t]
  <2>1. CASE turn' = turn
    BY <2>1 DEF BInv, Typed
  <2>2. CASE \E t \in Tables : Asks(t)
    BY <2>2, ArenaBotAssumption DEF BInv, Typed, Asks
  <2>3. turn' = turn \/ \E t \in Tables : Asks(t)
    BY DEF Join, Loop, EndTick, Signal, MovesOn, vars, server
  <2> QED
    BY <2>1, <2>2, <2>3
<1>3. Typed'
  BY <1>1, <1>2 DEF BInv, Typed
<1>4. pc' = "post" => ActIsListed(cur', act')
  BY <1>1 DEF BInv, Listed, ActIsListed
<1> QED
  BY <1>1, <1>3, <1>4, QuietKeeps

LEMMA AbortsKeeps ==
  ASSUME BInv, Aborts, UNCHANGED <<server, doubt>>
  PROVE  BInv'
  BY QuietKeeps DEF BInv, Typed, Aborts, server, doubt

LEMMA BotNext == BInv /\ [Next]_vars => BInv'
<1> SUFFICES ASSUME BInv, [Next]_vars PROVE BInv'
  OBVIOUS
<1>1. CASE Join \/ Loop \/ EndTick
  BY <1>1, OthersKeep
<1>2. CASE Poll
  BY <1>2, PollKeeps
<1>3. CASE PollFails \/ \E d \in left : HandleRaises(d)
  BY <1>3, AbortsKeeps DEF PollFails, HandleRaises
<1>4. CASE \E d \in left : Handle(d)
  BY <1>4, HandleKeeps
<1>5. CASE Answered \/ Refused
  BY <1>5, AnsweredKeeps, RefusedKeeps
<1>6. CASE Unavailable \/ TimesOut
  BY <1>6, DoubtKeeps DEF Unavailable, TimesOut
<1>7. CASE Signal \/ UNCHANGED vars \/ \E t \in Tables : Asks(t) \/ MovesOn(t)
  BY <1>7, OthersKeep
<1>8. CASE \E q \in late : Arrives(q)
  BY <1>8, ArrivesKeeps
<1> QED
  BY <1>1, <1>2, <1>3, <1>4, <1>5, <1>6, <1>7, <1>8 DEF Next, Bot

LEMMA BotInvariant == Spec => []BInv
  BY BotInit, BotNext, PTL DEF Spec

-----------------------------------------------------------------------------
(* Theorems *)

\* A decision that moves twice was in doubt: neither the fallback over the body
\* shapes nor a later poll repeats a move that the bot knows of
\* (_submit_with_fallback, _seen_actions).
THEOREM DoubleMovesAreDoubtful == Spec => []DoubleMovesNeedDoubt
<1>1. BInv => DoubleMovesNeedDoubt
  BY DEF BInv
<1> QED
  BY <1>1, BotInvariant, PTL

\* Every request, late or not, carries an action listed for its decision
\* (strategy.py:86) in lower case, whatever the cards; a check if none is.
THEOREM RequestsAreListed == Spec => []OnlyListedActions
<1>1. BInv => OnlyListedActions
  <2> SUFFICES ASSUME BInv,
                      NEW q \in late \cup {Request(cur, act, body, try) :
                                             x \in {"post"} \cap {pc}}
               PROVE  ActIsListed(q, q.act)
    BY DEF OnlyListedActions, ActIsListed
  <2>1. CASE q \in late
    BY <2>1 DEF BInv, Listed, ActIsListed, ShownTo
  <2>2. CASE q \notin late
    <3>1. pc = "post" /\ q = Request(cur, act, body, try)
      BY <2>2
    <3>2. q.t = cur.t /\ q.k = cur.k /\ q.act = act
      BY <3>1 DEF Request
    <3> QED
      BY <3>1, <3>2 DEF BInv, Listed, ActIsListed, ShownTo
  <2> QED
    BY <2>1, <2>2
<1> QED
  BY <1>1, BotInvariant, PTL

\* What was submitted is not submitted again (_seen_actions).
THEOREM SubmittedOnce == Spec => NeverResubmitted
<1>1. BInv' /\ [Next]_vars =>
        [pc # "post" /\ pc' = "post" => cur' \notin submitted]_vars
  <2> SUFFICES ASSUME BInv', Next, pc # "post", pc' = "post"
               PROVE  cur' \notin submitted
    OBVIOUS
  <2>1. cur' \notin submitted'
    BY DEF BInv, Typed
  <2>2. submitted' = submitted
    BY DEF Next, Bot, Join, Loop, Poll, PollFails, EndTick, Handle, HandleRaises,
           Answered, Refused, Unavailable, TimesOut, Signal, Asks, MovesOn,
           Arrives, Aborts, memory
  <2> QED
    BY <2>1, <2>2
<1> QED
  BY <1>1, BotInvariant, PTL DEF Spec, NeverResubmitted

\* Where the actions of a tick are: to be handled, in hand, or submitted.
Progress ==
  /\ pc = "join" => polled = {}
  /\ pc = "tables" => polled \subseteq left \cup submitted
  /\ pc = "post" => polled \subseteq left \cup submitted \cup {cur}
  /\ pc = "loop" => polled \subseteq submitted

LEMMA KeysTellApart ==
  ASSUME HasToken, NEW d \in Pending, NEW e \in Pending, Key(d) = Key(e)
  PROVE  d = e
<1>1. d.t = e.t /\ d.k = e.k
  BY DEF Key
<1> QED
  BY <1>1, PendingIs

LEMMA ProgressNext ==
  ASSUME HasToken, BInv, Progress, [Next]_vars
  PROVE  Progress'
<1>1. CASE Join \/ Loop \/ EndTick \/ Signal \/ UNCHANGED vars
  BY <1>1 DEF Progress, Join, Loop, EndTick, Signal, vars, tick, memory
<1>2. CASE Poll
  BY <1>2 DEF Progress, Poll
<1>3. CASE PollFails \/ \E d \in left : HandleRaises(d)
  BY <1>3 DEF Progress, PollFails, HandleRaises, Aborts
<1>4. ASSUME NEW d \in left, Handle(d) PROVE Progress'
  <2>1. CASE Unseen(d)
    BY <1>4, <2>1 DEF Progress, Handle, memory
  <2>2. CASE ~Unseen(d)
    <3>1. PICK e \in submitted : Key(e) = Key(d)
      BY <2>2 DEF BInv, Typed, Unseen
    <3>2. d \in submitted
      BY <1>4, <3>1, KeysTellApart DEF BInv, Typed
    <3> QED
      BY <1>4, <2>2, <3>2 DEF Progress, Handle, memory
  <2> QED
    BY <2>1, <2>2
<1>5. ASSUME pc = "post", Concludes \/ Again \/ Aborts PROVE Progress'
  BY <1>5 DEF Progress, Concludes, Again, Aborts
<1>6. CASE Answered
  BY <1>5, <1>6 DEF Progress, Answered, NextBody, memory, Concludes
<1>7. CASE Refused \/ Unavailable \/ TimesOut
  BY <1>5, <1>7 DEF Refused, Unavailable, TimesOut
<1>8. CASE \/ \E t \in Tables : Asks(t) \/ MovesOn(t)
           \/ \E q \in late : Arrives(q)
  BY <1>8 DEF Progress, Asks, MovesOn, Arrives, tick, memory
<1> QED
  BY <1>1, <1>2, <1>3, <1>4, <1>6, <1>7, <1>8 DEF Next, Bot

\* With an actionId in every pending action a tick that goes through its tables
\* has submitted all that its poll returned (bot.py:6); without one it may not,
\* which is where the key of _seen_actions falls short.
THEOREM TokensSuffice == ASSUME HasToken PROVE Spec => []PendingAreSubmitted
<1>1. Init => Progress
  BY DEF Init, Progress
<1>2. BInv /\ Progress /\ [Next]_vars => Progress'
  BY ProgressNext
<1>3. Progress => PendingAreSubmitted
  BY DEF Progress, PendingAreSubmitted
<1> QED
  BY <1>1, <1>2, <1>3, BotInvariant, PTL DEF Spec
-----------------------------------------------------------------------------
(* Type correctness *)

LEMMA DecideIsSome ==
  ASSUME NEW d \in Pending, NEW s
  PROVE  /\ Decide(s, ShownTo(d)).action \in Legal(ShownTo(d)) \cup {"check"}
         /\ Decide(s, ShownTo(d)).action # Undecided
<1>1. ShownTo(d) \in Seq([word : STRING \ {Undecided}, lower : BOOLEAN])
  BY PendingIs, ArenaBotAssumption DEF ShownTo
<1>2. Undecided \notin Legal(ShownTo(d)) \cup {"check"}
  <2>1. \A i \in DOMAIN ShownTo(d) :
          ShownTo(d)[i] \in [word : STRING \ {Undecided}, lower : BOOLEAN]
    BY <1>1, ElementIn, Zenon
  <2>2. Undecided \notin Legal(ShownTo(d))
    BY <2>1 DEF Legal
  <2> QED
    BY <2>2 DEF Undecided
<1>3. ActIsListed(d, Decide(s, ShownTo(d)).action)
  BY DecidesListed
<1> QED
  BY <1>2, <1>3 DEF ActIsListed, Legal

LEMMA NoActionIsNone == NoAction \notin Pending
<1>1. NoAction.k = 0
  BY DEF NoAction
<1> QED
  BY <1>1, PendingIs

\* The parts of TypeOK that belong to the server, to the network and to the
\* submission in hand.
MovesOK ==
  /\ turn \in [Tables -> Nat]
  /\ \A t \in Tables : turn[t] \in 0 .. Turns[t]
  /\ open \subseteq Tables /\ \A t \in open : turn[t] > 0
  /\ applied \subseteq Move
LateOK ==
  late \subseteq UNION {{Request(d, a, b, n) : a \in Legal(ShownTo(d)) \cup {"check"},
                                 b \in DOMAIN Bodies, n \in 1 .. Attempts} :
                       d \in Pending}
HandOK ==
  /\ cur \in Pending \cup {NoAction}
  /\ cur # NoAction <=> pc = "post"
  /\ act = Undecided <=> cur = NoAction
  /\ pc = "post" => act \in Legal(ShownTo(cur)) \cup {"check"}
  /\ body \in 1 .. Len(Bodies) /\ try \in 1 .. Attempts
  /\ pc \in {"join", "loop", "poll", "tables", "post", "stopped", "dead"}
  /\ stop \in BOOLEAN
  /\ {left, polled, submitted, doubtful} \subseteq SUBSET Pending

TInv == BInv /\ MovesOK /\ LateOK /\ HandOK

LEMMA TypesInit == Init => TInv
<1> SUFFICES ASSUME Init PROVE TInv
  OBVIOUS
<1>1. BInv
  BY BotInit
<1>2. MovesOK /\ LateOK
  BY ArenaBotAssumption DEF Init, MovesOK, LateOK
<1>3. HandOK
  <2>1. Len(Bodies) \in Nat /\ Len(Bodies) >= 1
    BY DEF Bodies
  <2>2. body \in 1 .. Len(Bodies) /\ try \in 1 .. Attempts
    BY <2>1, ArenaBotAssumption DEF Init
  <2>3. {left, polled, submitted, doubtful} \subseteq SUBSET Pending
    BY DEF Init
  <2> QED
    BY <2>2, <2>3 DEF Init, HandOK
<1> QED
  BY <1>1, <1>2, <1>3 DEF TInv

\* A request that is received is of a decision that was asked for.
LEMMA ReceivesTypes ==
  ASSUME MovesOK, NEW q, q.t \in Tables, q.k \in 1 .. Turns[q.t], Receives(q)
  PROVE  MovesOK'
<1>1. turn' = turn /\ open' \subseteq open
  BY DEF Receives
<1>2. applied' \subseteq Move
  <2>1. CASE ~ Fits(q)
    BY <2>1 DEF Receives, MovesOK
  <2>2. CASE Fits(q)
    <3>1. turn[q.t] \in 1 .. Turns[q.t]
      BY <2>2, ArenaBotAssumption DEF Fits, MovesOK
    <3>2. [t |-> q.t, meant |-> q.k, hit |-> turn[q.t]] \in Move
      BY <3>1 DEF Move
    <3> QED
      BY <2>2, <3>2 DEF Receives, MovesOK
  <2> QED
    BY <2>1, <2>2
<1> QED
  BY <1>1, <1>2 DEF MovesOK

LEMMA LateShape ==
  ASSUME LateOK, NEW q \in late
  PROVE  q.t \in Tables /\ q.k \in 1 .. Turns[q.t]
<1>1. PICK d \in Pending :
        q \in {Request(d, a, b, n) : a \in Legal(ShownTo(d)) \cup {"check"},
                                     b \in DOMAIN Bodies, n \in 1 .. Attempts}
  BY DEF LateOK
<1>2. q.t = d.t /\ q.k = d.k
  BY <1>1 DEF Request
<1> QED
  BY <1>2, PendingIs

LEMMA ArrivesTypes == ASSUME TInv, NEW q \in late, Arrives(q) PROVE TInv'
<1>1. BInv'
  BY ArrivesKeeps DEF TInv
<1>2. MovesOK'
  BY LateShape, ReceivesTypes DEF TInv, Arrives
<1>3. LateOK' /\ HandOK'
  BY DEF TInv, LateOK, HandOK, Arrives, tick, memory
<1> QED
  BY <1>1, <1>2, <1>3 DEF TInv

\* The ends of a submission and its continuations.
LEMMA HandSteps ==
  ASSUME HandOK, pc = "post",
         Concludes \/ Aborts \/ NextBody \/ (Again /\ try < Attempts),
         UNCHANGED <<doubtful, stop>>
  PROVE  HandOK'
<1>1. Len(Bodies) \in Nat /\ Len(Bodies) >= 1 /\ Attempts \in Nat /\ Attempts >= 1
  BY ArenaBotAssumption DEF Bodies
<1>2. cur \in Pending /\ cur # NoAction /\ {cur} \subseteq Pending
  BY NoActionIsNone DEF HandOK
<1>3. CASE Concludes
  <2>1. submitted' \subseteq Pending
    BY <1>2, <1>3 DEF HandOK, Concludes
  <2> QED
    BY <1>1, <1>2, <1>3, <2>1 DEF HandOK, Concludes
<1>4. CASE Aborts
  BY <1>1, <1>2, <1>4 DEF HandOK, Aborts
<1>5. CASE NextBody
  <2>1. CASE body < Len(Bodies)
    BY <1>1, <1>2, <1>5, <2>1 DEF HandOK, NextBody, memory
  <2>2. CASE ~ (body < Len(Bodies))
    BY <1>3, <1>5, <2>2 DEF NextBody
  <2> QED
    BY <2>1, <2>2
<1>6. CASE Again /\ try < Attempts
  BY <1>1, <1>2, <1>6 DEF HandOK, Again
<1> QED
  BY <1>3, <1>4, <1>5, <1>6

LEMMA AnsweredTypes == ASSUME TInv, Answered PROVE TInv'
<1> DEFINE q == Request(cur, act, body, try)
<1>1. BInv'
  BY AnsweredKeeps DEF TInv
<1>2. pc = "post" /\ Receives(q) /\ UNCHANGED <<late, doubtful, stop>>
  BY DEF Answered, doubt
<1>3. cur \in Pending /\ q.t = cur.t /\ q.k = cur.k
  BY <1>2 DEF TInv, BInv, Typed, Request
<1> HIDE DEF q
<1>4. MovesOK'
  BY <1>2, <1>3, PendingIs, ReceivesTypes DEF TInv
<1>5. HandOK'
  BY <1>2, HandSteps DEF TInv, Answered
<1>6. LateOK'
  BY <1>2 DEF TInv, LateOK
<1> QED
  BY <1>1, <1>4, <1>5, <1>6 DEF TInv

LEMMA DoubtTypes ==
  ASSUME TInv, pc = "post", InDoubt, UNCHANGED <<server, stop>>,
         Concludes \/ Aborts \/ (Again /\ try < Attempts)
  PROVE  TInv'
<1>1. BInv'
  BY DoubtKeeps DEF TInv
<1>2. MovesOK'
  BY DEF TInv, MovesOK, server
<1>3. cur \in Pending
  BY DEF TInv, BInv, Typed
<1>4. LateOK'
  <2>1. Request(cur, act, body, try) \in
          UNION {{Request(d, a, b, n) : a \in Legal(ShownTo(d)) \cup {"check"},
                         b \in DOMAIN Bodies, n \in 1 .. Attempts} : d \in Pending}
    <3>1. /\ act \in Legal(ShownTo(cur)) \cup {"check"}
          /\ body \in DOMAIN Bodies /\ try \in 1 .. Attempts
      BY DEF TInv, HandOK, Bodies
    <3> QED
      BY <1>3, <3>1
  <2> QED
    BY <2>1 DEF TInv, LateOK, InDoubt
<1>5. HandOK'
  <2>1. doubtful' \subseteq Pending
    BY <1>3 DEF TInv, HandOK, InDoubt
  <2>2. Len(Bodies) \in Nat /\ Len(Bodies) >= 1 /\ Attempts \in Nat /\ Attempts >= 1
    BY ArenaBotAssumption DEF Bodies
  <2>3. cur # NoAction
    BY <1>3, NoActionIsNone
  <2>4. CASE Concludes
    <3>1. submitted' \subseteq Pending
      BY <1>3, <2>4 DEF TInv, HandOK, Concludes
    <3> QED
      BY <2>1, <2>2, <2>3, <2>4, <3>1 DEF TInv, HandOK, Concludes
  <2>5. CASE Aborts
    BY <2>1, <2>2, <2>3, <2>5 DEF TInv, HandOK, Aborts
  <2>6. CASE Again /\ try < Attempts
    BY <2>1, <2>2, <2>3, <2>6 DEF TInv, HandOK, Again
  <2> QED
    BY <2>4, <2>5, <2>6
<1> QED
  BY <1>1, <1>2, <1>4, <1>5 DEF TInv

\* Steps that send nothing.
LEMMA PollTypes == ASSUME TInv, Poll PROVE TInv'
<1>1. BInv'
  BY PollKeeps DEF TInv
<1>2. MovesOK' /\ LateOK'
  BY DEF TInv, MovesOK, LateOK, Poll, server, doubt
<1>3. left' \subseteq Pending /\ polled' \subseteq Pending
  BY IsPending DEF TInv, MovesOK, Poll
<1>4. HandOK'
  BY <1>3 DEF TInv, HandOK, Poll, doubt
<1> QED
  BY <1>1, <1>2, <1>4 DEF TInv

LEMMA HandleTypes == ASSUME TInv, NEW d \in left, Handle(d) PROVE TInv'
<1>1. BInv'
  BY HandleKeeps DEF TInv
<1>2. MovesOK' /\ LateOK'
  BY DEF TInv, MovesOK, LateOK, Handle, server, doubt
<1>3. d \in Pending /\ d # NoAction
  BY NoActionIsNone DEF TInv, BInv, Typed
<1>4. HandOK'
  <2>1. CASE Unseen(d)
    <3>1. PICK s \in Situations : act' = Decide(s, ShownTo(d)).action
      BY <2>1 DEF Handle
    <3>2. act' \in Legal(ShownTo(d)) \cup {"check"} /\ act' # Undecided
      BY <1>3, <3>1, DecideIsSome
    <3>3. ShownTo(cur)' = ShownTo(d)
      BY <2>1 DEF Handle, ShownTo
    <3> QED
      BY <1>3, <2>1, <3>2, <3>3 DEF TInv, HandOK, Handle, doubt, memory
  <2>2. CASE ~ Unseen(d)
    BY <2>2 DEF TInv, HandOK, Handle, doubt, memory
  <2> QED
    BY <2>1, <2>2
<1> QED
  BY <1>1, <1>2, <1>4 DEF TInv

LEMMA AbortsTypes ==
  ASSUME TInv, Aborts, UNCHANGED <<server, doubt, stop>>, pc # "post"
  PROVE  TInv'
<1>1. BInv'
  BY AbortsKeeps DEF TInv
<1>2. MovesOK' /\ LateOK'
  BY DEF TInv, MovesOK, LateOK, server, doubt
<1>3. HandOK'
  <2>1. Len(Bodies) \in Nat /\ Len(Bodies) >= 1 /\ Attempts \in Nat /\ Attempts >= 1
    BY ArenaBotAssumption DEF Bodies
  <2> QED
    BY <2>1 DEF TInv, HandOK, Aborts, doubt
<1> QED
  BY <1>1, <1>2, <1>3 DEF TInv

LEMMA OthersTypes ==
  ASSUME TInv,
         \/ Join \/ Loop \/ EndTick \/ Signal \/ UNCHANGED vars
         \/ \E t \in Tables : Asks(t) \/ MovesOn(t)
  PROVE  TInv'
<1>1. BInv'
  BY OthersKeep DEF TInv
<1>2. LateOK'
  BY DEF TInv, LateOK, Join, Loop, EndTick, Signal, vars, Asks, MovesOn, doubt
<1>3. HandOK'
  BY DEF TInv, HandOK, Join, Loop, EndTick, Signal, vars, Asks, MovesOn, doubt,
         tick, memory
<1>4. MovesOK'
  <2>1. CASE \E t \in Tables : Asks(t)
    <3>1. PICK t \in Tables : Asks(t)
      BY <2>1
    <3>2. \A u \in Tables : turn[u] \in 0 .. Turns[u] /\ Turns[u] \in Nat
      BY ArenaBotAssumption DEF TInv, MovesOK
    <3>3. /\ turn \in [Tables -> Nat]
          /\ turn' = [turn EXCEPT ![t] = turn[t] + 1]
          /\ turn[t] < Turns[t] /\ open' = open \cup {t} /\ applied' = applied
      BY <3>1 DEF TInv, MovesOK, Asks
    <3>4. /\ turn' \in [Tables -> Nat] /\ turn'[t] = turn[t] + 1
          /\ \A u \in Tables : u # t => turn'[u] = turn[u]
      BY <3>3
    <3> QED
      BY <3>2, <3>3, <3>4 DEF TInv, MovesOK
  <2>2. CASE \E t \in Tables : MovesOn(t)
    BY <2>2 DEF TInv, MovesOK, MovesOn
  <2>3. CASE Join \/ Loop \/ EndTick \/ Signal \/ UNCHANGED vars
    BY <2>3 DEF TInv, MovesOK, Join, Loop, EndTick, Signal, vars, server
  <2> QED
    BY <2>1, <2>2, <2>3
<1> QED
  BY <1>1, <1>2, <1>3, <1>4 DEF TInv

LEMMA TypesNext == TInv /\ [Next]_vars => TInv'
<1> SUFFICES ASSUME TInv, [Next]_vars PROVE TInv'
  OBVIOUS
<1>1. CASE \/ Join \/ Loop \/ EndTick \/ Signal \/ UNCHANGED vars
           \/ \E t \in Tables : Asks(t) \/ MovesOn(t)
  BY <1>1, OthersTypes
<1>2. CASE Poll
  BY <1>2, PollTypes
<1>3. CASE PollFails \/ \E d \in left : HandleRaises(d)
  BY <1>3, AbortsTypes DEF PollFails, HandleRaises
<1>4. CASE \E d \in left : Handle(d)
  BY <1>4, HandleTypes
<1>5. CASE Answered
  BY <1>5, AnsweredTypes
<1>6. CASE Refused
  <2>1. BInv'
    BY <1>6, RefusedKeeps DEF TInv
  <2>2. MovesOK' /\ LateOK'
    BY <1>6 DEF TInv, MovesOK, LateOK, Refused, server, doubt
  <2>3. HandOK'
    BY <1>6, HandSteps DEF TInv, Refused, doubt
  <2> QED
    BY <2>1, <2>2, <2>3 DEF TInv
<1>7. CASE Unavailable
  BY <1>7, DoubtTypes DEF Unavailable
<1>8. CASE TimesOut
  BY <1>8, DoubtTypes DEF TimesOut
<1>9. CASE \E q \in late : Arrives(q)
  BY <1>9, ArrivesTypes
<1> QED
  BY <1>1, <1>2, <1>3, <1>4, <1>5, <1>6, <1>7, <1>8, <1>9 DEF Next, Bot

\* Type correctness of the bot and of what the server has taken, for any tables
\* and payloads: no index past the bodies or the attempts, no request but one
\* that decide and _candidate_bodies can make, no move of a decision that was
\* never asked for.
THEOREM BotTypes == Spec => []TypeOK
<1>1. TInv => TypeOK
  BY DEF TInv, BInv, Typed, MovesOK, LateOK, HandOK, TypeOK
<1> QED
  BY <1>1, TypesInit, TypesNext, PTL DEF Spec

-----------------------------------------------------------------------------
(* How far a tick is from its end *)

Stage(p) == CASE p = "join" -> 4 [] p = "poll" -> 3 [] p = "tables" -> 2
              [] p = "post" -> 2 [] p = "loop" -> 1 [] OTHER -> 0
BodiesLeft == Len(Bodies) - body
TriesLeft == Attempts - try

\* One of its stages is over, or one of the pending actions is off the list, or the
\* submission has returned, or one of its bodies or attempts is used up.
Advances ==
  \/ Stage(pc') < Stage(pc)
  \/ Stage(pc') = Stage(pc) /\ Cardinality(left') < Cardinality(left)
  \/ left' = left /\ pc = "post" /\ pc' = "tables"
  \/ /\ left' = left /\ pc = "post" /\ pc' = "post"
     /\ BodiesLeft' < BodiesLeft \/ (body' = body /\ TriesLeft' < TriesLeft)

\* What the server, the network and the signal do leaves the tick where it is;
\* only a bot that has not been stopped begins another one.
TickAdvances == \/ Advances
                \/ UNCHANGED <<pc, tick>>
                \/ pc = "loop" /\ ~ stop

MeasuresAreNat == /\ Cardinality(left) \in Nat
                  /\ BodiesLeft \in Nat /\ TriesLeft \in Nat

LEMMA LeftIsFinite ==
  ASSUME IsFiniteSet(Tables), IsFiniteSet(left), [Next]_vars
  PROVE  IsFiniteSet(left')
<1>1. CASE Poll
  <2>1. PICK S \in SUBSET Tables : left' = {[t |-> t, k |-> turn[t]] : t \in S}
    BY <1>1 DEF Poll
  <2>2. IsFiniteSet(S)
    BY <2>1, FS_Subset
  <2> DEFINE asked == [t \in S |-> [t |-> t, k |-> turn[t]]]
  <2>3. asked \in Surjection(S, left')
    BY <2>1 DEF Surjection
  <2> HIDE DEF asked
  <2> QED
    BY <2>2, <2>3, FS_Surjection
<1>2. left' \subseteq left \/ Poll
  BY DEF Next, Bot, Join, Loop, PollFails, EndTick, Handle, HandleRaises, Answered,
     Refused, Unavailable, TimesOut, Signal, Asks, MovesOn, Arrives, Concludes,
     NextBody, Again, Aborts, tick, vars
<1> QED
  BY <1>1, <1>2, FS_Subset

LEMMA MeasuresHold == TypeOK /\ IsFiniteSet(left) => MeasuresAreNat
  BY FS_CardinalityType, ArenaBotAssumption
  DEF TypeOK, MeasuresAreNat, BodiesLeft, TriesLeft, Bodies

\* The submission of one action: a request ends in the next body, in the next
\* attempt, or in nothing more to do.
LEMMA PostAdvances ==
  ASSUME TypeOK, Answered \/ Refused \/ Unavailable \/ TimesOut
  PROVE  Advances
<1>1. /\ pc = "post" /\ body \in Nat /\ try \in Nat /\ Attempts \in Nat
      /\ Len(Bodies) \in Nat /\ Len(Bodies') = Len(Bodies)
  BY ArenaBotAssumption
  DEF TypeOK, Answered, Refused, Unavailable, TimesOut, Bodies
<1>2. Concludes \/ NextBody \/ (try < Attempts /\ Again) \/ Aborts
  BY DEF Answered, Refused, Unavailable, TimesOut
<1>3. CASE Concludes
  BY <1>1, <1>3 DEF Concludes, Advances
<1>4. CASE NextBody /\ ~ Concludes
  <2>1. body' = body + 1 /\ left' = left /\ pc' = pc
    BY <1>4 DEF NextBody
  <2> QED
    BY <1>1, <2>1 DEF Advances, BodiesLeft
<1>5. CASE try < Attempts /\ Again
  BY <1>1, <1>5 DEF Again, Advances, TriesLeft
<1>6. CASE Aborts
  BY <1>1, <1>6 DEF Aborts, Advances, Stage
<1> QED
  BY <1>2, <1>3, <1>4, <1>5, <1>6

LEMMA StepAdvances ==
  ASSUME TypeOK, IsFiniteSet(left), [Next]_vars
  PROVE  TickAdvances
<1>1. CASE Answered \/ Refused \/ Unavailable \/ TimesOut
  BY <1>1, PostAdvances DEF TickAdvances
<1>2. CASE \E d \in left : Handle(d)
  <2>1. PICK d \in left : Handle(d)
    BY <1>2
  <2>2. Cardinality(left') = Cardinality(left) - 1 /\ Cardinality(left) \in Nat
    BY <2>1, FS_RemoveElement, FS_CardinalityType DEF Handle
  <2>3. pc = "tables" /\ pc' \in {"tables", "post"}
    BY <2>1 DEF Handle
  <2> QED
    BY <2>2, <2>3 DEF TickAdvances, Advances, Stage
<1>3. CASE PollFails \/ \E d \in left : HandleRaises(d)
  BY <1>3 DEF PollFails, HandleRaises, Aborts, TickAdvances, Advances, Stage
<1>4. CASE Join \/ Poll \/ EndTick
  BY <1>4 DEF Join, Poll, EndTick, TickAdvances, Advances, Stage
<1>5. CASE Loop
  BY <1>5 DEF Loop, TickAdvances, Advances, Stage
<1>6. CASE \/ Signal \/ UNCHANGED vars
           \/ \E t \in Tables : Asks(t) \/ MovesOn(t)
           \/ \E q \in late : Arrives(q)
  BY <1>6 DEF Signal, vars, Asks, MovesOn, Arrives, TickAdvances
<1> QED
  BY <1>1, <1>2, <1>3, <1>4, <1>5, <1>6 DEF Next, Bot

\* No tick goes on for ever, whatever the server asks for, refuses or leaves
\* unanswered meanwhile: each step of the bot lowers what is left of it, in
\* lexicographic order, and none of the server's raises it.  So a bot that has been
\* told to stop only has to be scheduled to reach the test of _stop (run).
THEOREM EveryStepCounts ==
  ASSUME IsFiniteSet(Tables)
  PROVE  Spec => [][TickAdvances]_vars /\ []MeasuresAreNat
<1>1. Init => IsFiniteSet(left)
  BY FS_EmptySet DEF Init
<1>2. IsFiniteSet(left) /\ [Next]_vars => IsFiniteSet(left)'
  BY LeftIsFinite
<1>3. TypeOK /\ IsFiniteSet(left) /\ [Next]_vars => TickAdvances
  BY StepAdvances
<1> QED
  BY <1>1, <1>2, <1>3, BotTypes, MeasuresHold, PTL DEF Spec
=============================================================================
