------------------------------- MODULE Runbooks -------------------------------
(***************************************************************************)
(* runbook.Manager: an alert that fires, or an operator, makes an AI draft *)
(* a repair; its steps are filed as proposals, the runbook is stored and   *)
(* announced.                                                              *)
(*                                                                         *)
(* A Handler is a goroutine the notification callback starts, or the       *)
(* connection of an operator.  All of the manager's state is in memory.    *)
(***************************************************************************)
EXTENDS Naturals, Sequences

CONSTANTS
  AlertKeys,     \* server, rule and target
  Handlers,
  Window,        \* Config.Throttle
  MaxNow,        \* bound: the clock
  MaxEvents,     \* bound: alerts that fire, and operators that ask
  MaxRestarts    \* bound: restarts

Steps == {"typed", "script", "malformed"}   \* what an AI may propose

VARIABLES
  now,
  lastFired,     \* lastFiredAt: 0 for never
  handler,       \* each Handle or HandleManual
  cards,         \* the queue of proposals: a run and its step
  runbooks,      \* the stored runbooks
  announced,     \* the runs published as "infra.runbook"
  runs,          \* how many repairs were asked for; names the next
  asks,          \* history: when each key's repair was asked for automatically
  events, restarts

claims == <<lastFired, asks, runs>>
queue  == <<cards, runbooks, announced>>
bounds == <<events, restarts>>
runbookVars == <<now, claims, handler, queue, bounds>>

Resting == [at |-> "idle", key |-> CHOOSE k \in AlertKeys : TRUE, read |-> 0, run |-> 0,
            left |-> {}, steps |-> {}, high |-> FALSE]

\* The callback of Start: an alert that fired, not one that cleared, in a
\* goroutine of its own.
AlertFires(h, k) ==
  /\ handler[h].at = "idle"
  /\ events > 0 /\ events' = events - 1
  /\ handler' = [handler EXCEPT ![h] = [Resting EXCEPT !.at = "starting", !.key = k]]
  /\ UNCHANGED <<now, claims, queue, restarts>>

\* tryClaim reads the clock, then takes the lock.
ReadClock(h) ==
  /\ handler[h].at = "starting"
  /\ handler' = [handler EXCEPT ![h].at = "claiming", ![h].read = now]
  /\ UNCHANGED <<now, claims, queue, bounds>>

\* Mutant: a clock that seems to go backwards is taken for a new window.
ThrottledForward(h) ==
  LET last == lastFired[handler[h].key] IN
  last > 0 /\ handler[h].read >= last /\ handler[h].read < last + Window

Throttled(h) == lastFired[handler[h].key] > 0 /\ handler[h].read < lastFired[handler[h].key] + Window

TryClaim(h) ==
  /\ handler[h].at = "claiming"
  /\ IF Throttled(h)
     THEN /\ handler' = [handler EXCEPT ![h] = Resting]
          /\ UNCHANGED <<lastFired, runs, asks>>
     ELSE /\ lastFired' = [lastFired EXCEPT ![handler[h].key] = handler[h].read]
          /\ asks' = [asks EXCEPT ![handler[h].key] = Append(@, handler[h].read)]
          /\ runs' = runs + 1
          /\ handler' = [handler EXCEPT ![h].at = "proposing", ![h].run = runs + 1]
  /\ UNCHANGED <<now, queue, bounds>>

\* HandleManual: the operator asks, whatever was asked before.
HandleManual(h, k) ==
  /\ handler[h].at = "idle"
  /\ events > 0 /\ events' = events - 1
  /\ runs' = runs + 1
  /\ handler' = [handler EXCEPT ![h] = [Resting EXCEPT !.at = "proposing", !.key = k, !.run = runs + 1]]
  /\ UNCHANGED <<now, lastFired, asks, queue, restarts>>

\* The CLI fails, times out, or answers something that cannot be read: the
\* claim stays.
ProposeFails(h) ==
  /\ handler[h].at = "proposing"
  /\ handler' = [handler EXCEPT ![h] = Resting]
  /\ UNCHANGED <<now, claims, queue, bounds>>

\* Mutant: the risk the model states is believed.
RiskIsHighAsTold(steps, told) == told

\* A script step forces the risk, whatever the model says.
RiskIsHigh(steps, told) == told \/ "script" \in steps

\* No step: the runbook is stored as skipped, and nobody is told.
ProposeAnswers(h, steps, told) ==
  /\ handler[h].at = "proposing"
  /\ handler' = [handler EXCEPT ![h].at = IF steps = {} THEN "skipping" ELSE "filing", ![h].left = steps,
                                ![h].steps = steps, ![h].high = RiskIsHigh(steps, told)]
  /\ UNCHANGED <<now, claims, queue, bounds>>

\* Mutant: a step that cannot be filed is the last one looked at.
AfterStepStops(h, s) == IF s = "malformed" THEN {} ELSE handler[h].left \ {s}

\* The steps still to file once s is.
AfterStep(h, s) == handler[h].left \ {s}

\* tokenBindingForKind, then Create: a malformed step gets no card.
FileStep(h, s) ==
  LET made == {<<handler[h].run, s>>} \ {<<handler[h].run, "malformed">>} IN
  /\ handler[h].at = "filing" /\ s \in handler[h].left
  /\ cards' = cards \cup made
  /\ handler' = [handler EXCEPT ![h].left = AfterStep(h, s)]
  /\ UNCHANGED <<now, claims, runbooks, announced, bounds>>

Stored(h) == [run |-> handler[h].run, steps |-> handler[h].steps, high |-> handler[h].high]

StoreSkipped(h) ==
  /\ handler[h].at = "skipping"
  /\ runbooks' = runbooks \cup {Stored(h)}
  /\ handler' = [handler EXCEPT ![h] = Resting]
  /\ UNCHANGED <<now, claims, cards, announced, bounds>>

StoreRunbook(h) ==
  /\ handler[h].at = "filing" /\ handler[h].left = {}
  /\ runbooks' = runbooks \cup {Stored(h)}
  /\ handler' = [handler EXCEPT ![h].at = "stored"]
  /\ UNCHANGED <<now, claims, cards, announced, bounds>>

\* One "infra.runbook" notification; it does not start another runbook.
PublishRunbook(h) ==
  /\ handler[h].at = "stored"
  /\ announced' = announced \cup {handler[h].run}
  /\ handler' = [handler EXCEPT ![h] = Resting]
  /\ UNCHANGED <<now, claims, cards, runbooks, bounds>>

Ticks ==
  /\ now < MaxNow
  /\ now' = now + 1
  /\ UNCHANGED <<claims, handler, queue, bounds>>

Restart ==
  /\ restarts < MaxRestarts
  /\ restarts' = restarts + 1
  /\ lastFired' = [k \in AlertKeys |-> 0] /\ asks' = [k \in AlertKeys |-> <<>>] /\ runs' = 0
  /\ handler' = [h \in Handlers |-> Resting]
  /\ cards' = {} /\ runbooks' = {} /\ announced' = {}
  /\ UNCHANGED <<now, events>>

RunbookInit ==
  /\ now = 1 /\ events = MaxEvents /\ restarts = 0
  /\ lastFired = [k \in AlertKeys |-> 0] /\ asks = [k \in AlertKeys |-> <<>>] /\ runs = 0
  /\ handler = [h \in Handlers |-> Resting]
  /\ cards = {} /\ runbooks = {} /\ announced = {}

RunbookNext ==
  \/ \E h \in Handlers :
       \/ ReadClock(h) \/ TryClaim(h) \/ ProposeFails(h) \/ StoreSkipped(h) \/ StoreRunbook(h) \/ PublishRunbook(h)
       \/ \E steps \in SUBSET Steps, told \in BOOLEAN : ProposeAnswers(h, steps, told)
       \/ \E s \in Steps : FileStep(h, s)
       \/ \E k \in AlertKeys : AlertFires(h, k) \/ HandleManual(h, k)
  \/ Ticks \/ Restart

RunbookSpec == RunbookInit /\ [][RunbookNext]_runbookVars

-----------------------------------------------------------------------------
HandlerRecord ==
  [at : {"idle", "starting", "claiming", "proposing", "skipping", "filing", "stored"}, key : AlertKeys,
   read : 0..MaxNow, run : Nat, left : SUBSET Steps, steps : SUBSET Steps, high : BOOLEAN]

RunbookTypeOK ==
  /\ now \in 1..MaxNow /\ events \in 0..MaxEvents /\ restarts \in 0..MaxRestarts
  /\ lastFired \in [AlertKeys -> 0..MaxNow] /\ asks \in [AlertKeys -> Seq(1..MaxNow)] /\ runs \in Nat
  /\ handler \in [Handlers -> HandlerRecord]
  /\ cards \subseteq Nat \X Steps /\ announced \subseteq Nat
  /\ runbooks \subseteq [run : Nat, steps : SUBSET Steps, high : BOOLEAN]

\* An alert that flaps asks the AI for a repair at most once in a window, even
\* when its edges are handled by goroutines that overtake one another.
AsksAreSpaced ==
  \A k \in AlertKeys : \A i, j \in DOMAIN asks[k] : i < j => asks[k][j] >= asks[k][i] + Window

\* A card in the approval queue belongs to a stored runbook or to one that is
\* being written; a stored runbook has a card for every step that could be
\* filed, and the high risk if one is a script; one that is announced can be
\* opened.
CardsHaveARunbook ==
  /\ \A c \in cards :
       \/ \E b \in runbooks : b.run = c[1] /\ c[2] \in b.steps
       \/ \E h \in Handlers : handler[h].run = c[1] /\ handler[h].at = "filing"
  /\ \A b \in runbooks, s \in Steps \ {"malformed"} : s \in b.steps => <<b.run, s>> \in cards
  /\ \A b \in runbooks : "script" \in b.steps => b.high
  /\ announced \subseteq {b.run : b \in runbooks}

\* The inductive invariant: the claim of a key is the last thing it asked, and a
\* handler has filed a card for each step it is through with.
ClaimIsLast ==
  \A k \in AlertKeys : lastFired[k] = IF asks[k] = <<>> THEN 0 ELSE asks[k][Len(asks[k])]

HandlerIsSound(h) ==
  LET r == handler[h] IN
  /\ r.left \subseteq r.steps
  /\ r.at = "claiming" => r.read # 0
  /\ r.at = "skipping" => r.steps = {}
  /\ r.at = "filing" => /\ "script" \in r.steps => r.high
                       /\ \A s \in r.steps \ r.left : s # "malformed" => <<r.run, s>> \in cards
  /\ r.at = "stored" => \E b \in runbooks : b.run = r.run

CardsAreExplained ==
  \A c \in cards :
    \/ \E b \in runbooks : b.run = c[1] /\ c[2] \in b.steps
    \/ \E h \in Handlers : handler[h].run = c[1] /\ handler[h].at = "filing"
                          /\ c[2] \in handler[h].steps

RunbookInv ==
  /\ RunbookTypeOK
  /\ AsksAreSpaced /\ ClaimIsLast
  /\ CardsHaveARunbook /\ CardsAreExplained
  /\ \A h \in Handlers : HandlerIsSound(h)
=============================================================================
