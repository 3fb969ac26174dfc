------------------------------ MODULE ArenaBot ------------------------------
(***************************************************************************)
(* The poker bot (arena/bot.py): it joins the lobby, polls the pending     *)
(* actions and, table after table, decides and submits, trying one body    *)
(* shape after another; each POST goes through with_retry (http.py).       *)
(* The server is the environment: it waits for a decision at a table, may  *)
(* stop waiting, refuses bodies it does not understand, and its answers    *)
(* and the requests themselves may be late or lost.  What the bot decides  *)
(* is Strategy's; the body with a seat number (one more shape) and         *)
(* dry_run, which never submits, are left out.                             *)
(***************************************************************************)
EXTENDS Strategy, FiniteSets

CONSTANTS
  Tables,
  Turns,         \* bound: decisions the server asks for at each table
  MaxLate,       \* bound: requests on their way after their time-out
  HandOf,        \* the hand that each decision of a table belongs to
  Shown,         \* the actions that the payload of each decision lists, and
                 \* whether in lower case
  FoldsCase,     \* the server takes an action in a case it does not list
  Situations,    \* the cards and chips it may show (a bound: a few)
  HasToken,      \* pending actions carry an actionId
  Understood,    \* the body shapes the server accepts
  Malformed,     \* tables whose payload may make _extract_state raise
  Attempts       \* retry_attempts

Shapes == {"table", "hand", "token"}
Undecided == "undecided"   \* no action yet: not one that a server lists

ASSUME ArenaBotAssumption ==
  /\ Turns \in [Tables -> Nat] /\ MaxLate \in Nat /\ Attempts \in Nat \ {0}
  /\ \A t \in Tables : DOMAIN HandOf[t] = 1 .. Turns[t]
                         /\ Shown[t] \in [1 .. Turns[t] ->
                              Seq([word : STRING \ {Undecided}, lower : BOOLEAN])]
  /\ Tables # {} /\ Situations # {}
  /\ HasToken \in BOOLEAN /\ FoldsCase \in BOOLEAN
  /\ Understood \subseteq Shapes /\ Malformed \subseteq Tables

VARIABLES
  turn,          \* server: the last decision asked for at each table
  open,          \* server: the tables it is waiting at
  applied,       \* server: the moves it took
  late,          \* requests under way whose sender has given up on them
  pc,            \* bot: where run() is
  stop,          \* bot: _stop is set
  left,          \* bot: pending actions of this tick still to handle
  cur,           \* bot: the one in _submit_with_fallback
  act,           \* bot: the action it has decided on
  body,          \* bot: index of the body being submitted
  try,           \* bot: attempt of with_retry
  seen,          \* bot: _seen_actions
  submitted,     \* bot: what _submit_with_fallback has returned from
  polled,        \* bot: what the last poll returned
  doubtful       \* bot: what it may have submitted without knowing

server == <<turn, open, applied>>
tick == <<left, cur, act, body, try>>
memory == <<seen, submitted, polled>>
doubt == <<late, doubtful>>
vars == <<server, doubt, pc, stop, tick, memory>>

\* A pending action: the k-th decision of table t.
Pending == UNION {[t : {t}, k : 1 .. Turns[t]] : t \in Tables}
NoAction == [t |-> CHOOSE t \in Tables : TRUE, k |-> 0]
ShownTo(d) == Shown[d.t][d.k]

\* Slip: the token is forgotten.
KeyOfHand(d) == <<d.t, HandOf[d.t][d.k], 0>>

\* dedup_key: table, hand and token, if there is one.
Key(d) == <<d.t, HandOf[d.t][d.k], IF HasToken THEN d.k ELSE 0>>

\* _candidate_bodies, most likely shape first.
Bodies == IF HasToken THEN <<"table", "hand", "token">> ELSE <<"table", "hand">>

Request(d, a, b, n) ==
  [t |-> d.t, k |-> d.k, act |-> a, shape |-> Bodies[b], try |-> n]

Init ==
  /\ turn = [t \in Tables |-> 0] /\ open = {} /\ applied = {}
  /\ late = {}
  /\ pc = "join" /\ stop = FALSE
  /\ left = {} /\ cur = NoAction /\ act = Undecided /\ body = 1 /\ try = 1
  /\ seen = {} /\ submitted = {} /\ polled = {} /\ doubtful = {}

-----------------------------------------------------------------------------
(* The server and the network *)

Asks(t) ==
  /\ t \notin open /\ turn[t] < Turns[t]
  /\ turn' = [turn EXCEPT ![t] = @ + 1]
  /\ open' = open \cup {t}
  /\ UNCHANGED <<applied, doubt, pc, stop, tick, memory>>

\* The player's clock runs out.
MovesOn(t) ==
  /\ open' = open \ {t} /\ t \in open
  /\ UNCHANGED <<turn, applied, doubt, pc, stop, tick, memory>>

\* The action a, in lower case, is one of the list as the server spells it.
Spelled(actions, a) ==
  \E i \in DOMAIN actions :
    actions[i].word = a /\ (actions[i].lower \/ FoldsCase)

\* A list that the payload does not show constrains nothing known here.
Fits(q) ==
  /\ q.shape \in Understood /\ q.t \in open
  /\ Shown[q.t][turn[q.t]] # <<>> => Spelled(Shown[q.t][turn[q.t]], q.act)
  /\ q.shape = "hand" => HandOf[q.t][q.k] = HandOf[q.t][turn[q.t]]
  /\ q.shape = "token" => q.k = turn[q.t]

\* The server takes the move, or answers 400.
Receives(q) ==
  /\ applied' = IF Fits(q) THEN applied \cup {[t |-> q.t, meant |-> q.k,
                                                hit |-> turn[q.t]]}
                ELSE applied
  /\ open' = IF Fits(q) THEN open \ {q.t} ELSE open
  /\ UNCHANGED turn

\* A request arrives after its sender gave up.
Arrives(q) ==
  /\ late' = late \ {q}
  /\ Receives(q)
  /\ UNCHANGED <<doubtful, pc, stop, tick, memory>>

-----------------------------------------------------------------------------
(* The bot *)

\* _safe_join: an API error is logged, a transport error ends the bot.
Join ==
  /\ pc = "join"
  /\ pc' \in {"loop", "dead"}
  /\ UNCHANGED <<server, doubt, stop, tick, memory>>

Signal ==
  /\ ~ stop /\ stop' = TRUE
  /\ UNCHANGED <<server, doubt, pc, tick, memory>>

\* Slip: the loop ends only after a poll that found nothing to do.
LoopWhileBusy ==
  /\ pc = "loop"
  /\ pc' = IF stop /\ polled = {} THEN "stopped" ELSE "poll"
  /\ UNCHANGED <<server, doubt, stop, tick, memory>>

\* while not self._stop.is_set(), after the wait.
Loop ==
  /\ pc = "loop"
  /\ pc' = IF stop THEN "stopped" ELSE "poll"
  /\ UNCHANGED <<server, doubt, stop, tick, memory>>

\* GET /texas/pending-actions: every open table, and perhaps some whose action
\* the server has just taken.
Poll ==
  /\ pc = "poll"
  /\ \E S \in SUBSET {t \in Tables : turn[t] > 0} :
       /\ open \subseteq S
       /\ left' = {[t |-> t, k |-> turn[t]] : t \in S}
  /\ polled' = left'
  /\ pc' = "tables"
  /\ UNCHANGED <<server, doubt, stop, cur, act, body, try, seen, submitted>>

\* The exception of a tick, caught by run(): the rest of the tables wait.
Aborts ==
  /\ pc' = "loop" /\ left' = {} /\ polled' = {}
  /\ cur' = NoAction /\ act' = Undecided /\ body' = 1 /\ try' = 1
  /\ UNCHANGED <<seen, submitted>>

PollFails ==
  /\ pc = "poll"
  /\ Aborts
  /\ UNCHANGED <<server, doubt, stop>>

\* Slip: every pending action is handled again while the server lists it.
NotSeen(d) == TRUE

\* Not in _seen_actions.
Unseen(d) == Key(d) \notin seen

\* _handle_table: skipped, or decided and submitted.
Handle(d) ==
  /\ pc = "tables"
  /\ left' = left \ {d}
  /\ IF Unseen(d)
       THEN /\ cur' = d /\ pc' = "post"
            /\ \E s \in Situations : act' = Decide(s, ShownTo(d)).action
       ELSE UNCHANGED <<cur, act, pc>>
  /\ UNCHANGED <<server, doubt, stop, body, try, memory>>

\* An int() of _extract_state raises.
HandleRaises(d) ==
  /\ pc = "tables" /\ d.t \in Malformed
  /\ Aborts
  /\ UNCHANGED <<server, doubt, stop>>

EndTick ==
  /\ pc = "tables" /\ left = {}
  /\ pc' = "loop"
  /\ UNCHANGED <<server, doubt, stop, tick, memory>>

\* _submit_with_fallback returns, whatever came of it.
Concludes ==
  /\ seen' = seen \cup {Key(cur)}
  /\ submitted' = submitted \cup {cur}
  /\ cur' = NoAction /\ act' = Undecided /\ body' = 1 /\ try' = 1
  /\ pc' = "tables"
  /\ UNCHANGED <<left, polled>>

\* Slip: off by one.
NextBodyTooMany ==
  IF body <= Len(Bodies)
    THEN /\ body' = body + 1 /\ try' = 1
         /\ UNCHANGED <<left, cur, act, pc, memory>>
    ELSE Concludes

\* for body in bodies: the next shape, or none is left.
NextBody ==
  IF body < Len(Bodies)
    THEN /\ body' = body + 1 /\ try' = 1
         /\ UNCHANGED <<left, cur, act, pc, memory>>
    ELSE Concludes

\* Slip: the loop over the bodies goes on after a 200.
AnsweredAnyway ==
  /\ pc = "post"
  /\ Receives(Request(cur, act, body, try))
  /\ NextBody
  /\ UNCHANGED <<doubt, stop>>

\* The request arrives and its answer too: 200, or 400 and the next body.
Answered ==
  /\ pc = "post"
  /\ LET q == Request(cur, act, body, try) IN
       /\ Receives(q)
       /\ IF Fits(q) THEN Concludes ELSE NextBody
  /\ UNCHANGED <<doubt, stop>>

Again ==
  /\ try' = try + 1
  /\ UNCHANGED <<left, cur, act, body, pc, seen, submitted, polled>>

\* Any other status that is not worth a retry: given up for good.
Refused ==
  /\ pc = "post"
  /\ Concludes
  /\ UNCHANGED <<server, doubt, stop>>

\* The sender does not know whether the request was, or will be, received.
InDoubt ==
  /\ \/ late' = late
     \/ /\ Cardinality(late) < MaxLate
        /\ late' = late \cup {Request(cur, act, body, try)}
  /\ doubtful' = doubtful \cup {cur}

\* A retryable status (a gateway's, a 500): in the end it is the answer.
Unavailable ==
  /\ pc = "post"
  /\ InDoubt
  /\ IF try < Attempts THEN Again ELSE Concludes
  /\ UNCHANGED <<server, stop>>

\* A transport error or a time-out: in the end it leaves the tick.
TimesOut ==
  /\ pc = "post"
  /\ InDoubt
  /\ IF try < Attempts THEN Again ELSE Aborts
  /\ UNCHANGED <<server, stop>>

Bot ==
  \/ Join \/ Loop \/ Poll \/ PollFails \/ EndTick
  \/ \E d \in left : Handle(d) \/ HandleRaises(d)
  \/ Answered \/ Refused \/ Unavailable \/ TimesOut

Next ==
  \/ Bot
  \/ Signal
  \/ \E t \in Tables : Asks(t) \/ MovesOn(t)
  \/ \E q \in late : Arrives(q)

\* The event loop runs, and every request ends by an answer, an error or the
\* client's time-out.
Spec == Init /\ [][Next]_vars
FairSpec == Spec /\ WF_vars(Bot)

-----------------------------------------------------------------------------
(* Properties *)

Move == UNION {[t : {t}, meant : 1 .. Turns[t], hit : 1 .. Turns[t]] :
                 t \in Tables}
\* Every variable has the values the code gives it, and a submission is under
\* way exactly in _submit_with_fallback.
TypeOK ==
  /\ \A t \in Tables : turn[t] \in 0 .. Turns[t]
  /\ open \subseteq Tables
  /\ applied \subseteq Move
  /\ late \subseteq UNION {{Request(d, a, b, n) : a \in Legal(ShownTo(d)) \cup {"check"},
                                 b \in DOMAIN Bodies, n \in 1 .. Attempts} :
                       d \in Pending}
  /\ pc \in {"join", "loop", "poll", "tables", "post", "stopped", "dead"}
  /\ stop \in BOOLEAN
  /\ {left, polled, submitted, doubtful} \subseteq SUBSET Pending
  /\ cur \in Pending \cup {NoAction}
  /\ cur # NoAction <=> pc = "post"
  /\ act = Undecided <=> cur = NoAction
  /\ body \in 1 .. Len(Bodies) /\ try \in 1 .. Attempts
  /\ seen = {Key(d) : d \in submitted}

\* "For each pending action, picks a move via strategy.decide and submits"
\* (bot.py:6): when a tick has gone through its tables, every action that its
\* poll returned has been submitted, by this tick or an earlier one.
PendingAreSubmitted ==
  pc = "loop" => polled \subseteq submitted

\* "Never returns an action that is not in `available_actions`"
\* (strategy.py:86), but for its case: whatever is under way to the server, late
\* or not, is the lower-case form of an action listed for its own decision, and
\* a check when the payload lists none (or spells its list as no one foresaw).
OnlyListedActions ==
  \A q \in late \cup {Request(cur, act, body, try) : x \in {"post"} \cap {pc}} :
    IF ShownTo(q) = <<>> THEN q.act = "check"
    ELSE \E i \in DOMAIN ShownTo(q) : q.act = ShownTo(q)[i].word

\* An action is submitted once: the server may go on listing it, but once
\* _submit_with_fallback has returned no request is made for it any more
\* (_seen_actions).
NeverResubmitted ==
  [][pc # "post" /\ pc' = "post" => cur' \notin submitted]_vars

\* One decision of the bot moves twice only if one of its requests timed out
\* or met a retryable status: with_retry cannot know that it was taken, but the
\* fallback over the body shapes never repeats a move that was.
DoubleMovesNeedDoubt ==
  \A a, b \in applied :
    a.t = b.t /\ a.meant = b.meant /\ a # b =>
      [t |-> a.t, k |-> a.meant] \in doubtful

\* A bot that is told to stop does, also in the middle of a tick and with a
\* server that does not answer (run, request_stop).
StopIsHeeded == stop ~> pc \in {"stopped", "dead"}
=============================================================================
