----------------------------- MODULE PushDelivery -----------------------------
(***************************************************************************)
(* notifications.Hub and push.Hub: a notification is published by one of   *)
(* several goroutines, which runs every subscriber itself; the push hub's  *)
(* sends it through the relay to each phone the store lists.               *)
(*                                                                         *)
(* The subscribers that are connections only queue a frame, and the one of *)
(* the runbook manager starts a goroutine (Runbooks).  Both are "other".   *)
(***************************************************************************)
EXTENDS Naturals, Sequences, FiniteSets

CONSTANTS
  Publishers,    \* the alert evaluator, action jobs, runbook handlers
  Devices,       \* push tokens
  MaxEvents      \* bound: notifications, and what operators and their phones do

Kinds == {"fired", "cleared", "runbook"}

VARIABLES
  subs,          \* the hub's subscribers
  fanout,        \* each publisher's Publish
  registered,    \* push_devices
  uninstalled,   \* tokens the relay reports as unregistered
  prefs,         \* notification_prefs: "on", "off" or no row
  failures,      \* history: phones not told or struck off wrongly
  events

phoneVars == <<registered, uninstalled, prefs>>
pushVars == <<subs, fanout, phoneVars, failures, events>>

Silent == [at |-> "idle", note |-> "cleared", left |-> {}, list |-> <<>>, due |-> {}]

\* Publish copies the subscribers under the lock and calls them outside it.
Publish(p, kind) ==
  /\ fanout[p].at = "idle"
  /\ events > 0 /\ events' = events - 1
  /\ fanout' = [fanout EXCEPT ![p] = [Silent EXCEPT !.at = "calling", !.note = kind, !.left = subs]]
  /\ UNCHANGED <<subs, phoneVars, failures>>

CallOther(p) ==
  /\ fanout[p].at = "calling" /\ "other" \in fanout[p].left
  /\ fanout' = [fanout EXCEPT ![p].left = @ \ {"other"}]
  /\ UNCHANGED <<subs, phoneVars, failures, events>>

FanoutEnds(p) ==
  /\ fanout[p].at = "calling" /\ fanout[p].left = {}
  /\ fanout' = [fanout EXCEPT ![p] = Silent]
  /\ UNCHANGED <<subs, phoneVars, failures, events>>

\* An override wins; without one a recovery stays off the phone.
Eligible(kind) == prefs[kind] = "on" \/ (prefs[kind] = "default" /\ kind # "cleared")

ListPrefs(p) ==
  /\ fanout[p].at = "calling" /\ "push" \in fanout[p].left
  /\ fanout' = [fanout EXCEPT ![p].left = @ \ {"push"},
                              ![p].at = IF Eligible(fanout[p].note) THEN "listing" ELSE "calling",
                              ![p].due = IF Eligible(fanout[p].note) THEN registered ELSE {}]
  /\ UNCHANGED <<subs, phoneVars, failures, events>>

\* Devices in the order of their registration: any order.
ListDevices(p) ==
  /\ fanout[p].at = "listing"
  /\ \E order \in [1..Cardinality(registered) -> registered] :
       /\ {order[i] : i \in DOMAIN order} = registered
       /\ fanout' = [fanout EXCEPT ![p].at = "sending", ![p].list = order]
  /\ UNCHANGED <<subs, phoneVars, failures, events>>

\* Either list may fail: the notification is not pushed.
ListFails(p) ==
  /\ \/ fanout[p].at = "calling" /\ "push" \in fanout[p].left
     \/ fanout[p].at = "listing"
  /\ fanout' = [fanout EXCEPT ![p].left = @ \ {"push"}, ![p].at = "calling", ![p].due = {}]
  /\ UNCHANGED <<subs, phoneVars, failures, events>>

Told(f) == [f EXCEPT !.list = Tail(@), !.due = @ \ {Head(f.list)}]

\* The relay took the message, or could not be reached, or refused it.
SendAnswered(p) ==
  /\ fanout[p].at = "sending" /\ fanout[p].list # <<>>
  /\ fanout' = [fanout EXCEPT ![p] = Told(@)]
  /\ UNCHANGED <<subs, phoneVars, failures, events>>

\* Mutant: any refusal counts as the phone's.
UnregisteredAny(d) == TRUE

\* IsUnregistered: the relay says so of this token.
Unregistered(d) == d \in uninstalled

SendRejected(p) ==
  /\ fanout[p].at = "sending" /\ fanout[p].list # <<>>
  /\ Unregistered(Head(fanout[p].list))
  /\ fanout' = [fanout EXCEPT ![p].at = "pruning"]
  /\ UNCHANGED <<subs, phoneVars, failures, events>>

\* Mutant: the first token struck off ends the round.
AfterPruneReturns(f) == [Told(f) EXCEPT !.at = "sending", !.list = <<>>]

AfterPrune(f) == [Told(f) EXCEPT !.at = "sending"]

DeletePushDevice(p) ==
  LET d == Head(fanout[p].list) IN
  /\ fanout[p].at = "pruning"
  /\ registered' = registered \ {d}
  /\ failures' = IF d \in uninstalled THEN failures ELSE failures \cup {d}
  /\ fanout' = [fanout EXCEPT ![p] = AfterPrune(@)]
  /\ UNCHANGED <<subs, uninstalled, prefs, events>>

ForwardEnds(p) ==
  /\ fanout[p].at = "sending" /\ fanout[p].list = <<>>
  /\ failures' = failures \cup (fanout[p].due \cap registered)
  /\ fanout' = [fanout EXCEPT ![p].at = "calling", ![p].due = {}]
  /\ UNCHANGED <<subs, phoneVars, events>>

RegisterDevice(d) ==
  /\ d \notin registered \cup uninstalled
  /\ events > 0 /\ events' = events - 1
  /\ registered' = registered \cup {d}
  /\ UNCHANGED <<subs, fanout, uninstalled, prefs, failures>>

\* A phone that leaves is no longer owed what is on its way.
UnregisterDevice(d) ==
  /\ d \in registered
  /\ events > 0 /\ events' = events - 1
  /\ registered' = registered \ {d}
  /\ fanout' = [p \in Publishers |-> [fanout[p] EXCEPT !.due = @ \ {d}]]
  /\ UNCHANGED <<subs, uninstalled, prefs, failures>>

SetPref(kind, value) ==
  /\ prefs[kind] # value
  /\ events > 0 /\ events' = events - 1
  /\ prefs' = [prefs EXCEPT ![kind] = value]
  /\ UNCHANGED <<subs, fanout, registered, uninstalled, failures>>

Uninstall(d) ==
  /\ uninstalled = {}
  /\ uninstalled' = {d}
  /\ UNCHANGED <<subs, fanout, registered, prefs, failures, events>>

\* main subscribes the push hub last, when the relay knows the agent.
PushSubscribes ==
  /\ "push" \notin subs
  /\ subs' = subs \cup {"push"}
  /\ UNCHANGED <<fanout, phoneVars, failures, events>>

PushInit ==
  /\ subs = {"other"}
  /\ fanout = [p \in Publishers |-> Silent]
  /\ registered = Devices /\ uninstalled = {}
  /\ prefs = [k \in Kinds |-> "default"]
  /\ failures = {} /\ events = MaxEvents

PushNext ==
  \/ \E p \in Publishers :
       \/ ListPrefs(p) \/ ListDevices(p) \/ ListFails(p) \/ SendAnswered(p) \/ SendRejected(p)
       \/ DeletePushDevice(p) \/ ForwardEnds(p) \/ CallOther(p) \/ FanoutEnds(p)
       \/ \E kind \in Kinds : Publish(p, kind)
  \/ \E d \in Devices : RegisterDevice(d) \/ UnregisterDevice(d) \/ Uninstall(d)
  \/ \E kind \in Kinds, value \in {"on", "off", "default"} : SetPref(kind, value)
  \/ PushSubscribes

PushSpec == PushInit /\ [][PushNext]_pushVars

-----------------------------------------------------------------------------
FanoutRecord ==
  [at : {"idle", "calling", "listing", "sending", "pruning"}, note : Kinds,
   left : SUBSET {"other", "push"}, list : Seq(Devices), due : SUBSET Devices]

PushTypeOK ==
  /\ subs \subseteq {"other", "push"} /\ events \in 0..MaxEvents
  /\ fanout \in [Publishers -> FanoutRecord]
  /\ registered \subseteq Devices /\ uninstalled \subseteq Devices
  /\ prefs \in [Kinds -> {"on", "off", "default"}]

\* Every phone that was registered when a notification was pushed, and still
\* is, has been tried; and only a phone the relay no longer knows is struck off.
PhonesAreTold == failures = {}

\* The inductive invariant: a phone that is still owed a notification is on the
\* list of whoever sends it, or was struck off for good; and only a token the relay
\* refused is being struck off.
DueIsListed(p) ==
  LET f == fanout[p] IN
  /\ f.at = "listing" => f.due \subseteq registered \cup uninstalled
  /\ f.at \in {"sending", "pruning"} =>
       \A d \in f.due : \/ \E i \in DOMAIN f.list : f.list[i] = d
                       \/ d \in uninstalled \ registered
  /\ f.at = "pruning" => f.list # <<>> /\ Head(f.list) \in uninstalled

PushInv ==
  /\ PushTypeOK
  /\ PhonesAreTold
  /\ \A p \in Publishers : DueIsListed(p)
=============================================================================
