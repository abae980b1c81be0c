-------------------------------- MODULE Alerts --------------------------------
(***************************************************************************)
(* The alert manager: one goroutine evaluates the rules on a ticker and    *)
(* debounces what it reads into active alerts, of which it publishes the   *)
(* start and the end; handlers of other connections silence, acknowledge   *)
(* and reconfigure in between.  Rules, silences and acks are rows of the   *)
(* store, the active alerts die with the agent.                            *)
(*                                                                         *)
(* A reading is where a value lies against its rule: "over" the threshold, *)
(* "under" the threshold less the hysteresis, "near" between the two, or   *)
(* "gone" when the sampler reports none.  A failed unit reads "over".      *)
(***************************************************************************)
EXTENDS Naturals

CONSTANTS
  Disks,         \* mount points
  Units,         \* systemd units
  Load,          \* the one key of the load rule
  Nothing,       \* no notification
  LoadHits,      \* LoadConsecutiveHits
  UnitHits,      \* UnitConsecutiveHits
  MaxEpisodes,   \* bound: an evaluation starts while no key has fired that often
  MaxRestarts    \* bound: restarts of the agent

Keys == Disks \cup Units \cup {Load}

ASSUME KeysAssumption ==
  Disks \cap Units = {} /\ Load \notin Disks \cup Units
ASSUME NothingAssumption == Nothing \notin [key : Keys, clear : BOOLEAN, episode : Nat]
ASSUME HitsAssumption == LoadHits \in Nat \ {0} /\ UnitHits \in Nat \ {0}
ASSUME BoundsAssumption == MaxEpisodes \in Nat /\ MaxRestarts \in Nat

VARIABLES
  host,        \* the reading of each key, were it taken now
  lister,      \* whether systemd answers
  enabled,     \* infra_alert_rules.enabled, by kind
  silenced,    \* the keys of the alert_silences in effect
  acked,       \* alert_acks: the episode acknowledged last, by key
  pc,          \* what the evaluation does next
  todo,        \* the keys its current loop still visits
  rules,       \* the rules as it read them
  sample,      \* the readings it took
  active,      \* Manager.active
  note,        \* the notification about to be published
  fired,       \* firedAt: the number of the last episode of each key
  paged,       \* history: the last page about each key
  excused,     \* history: keys with a page suppressed or a state deleted since that page
  run,         \* history: equal readings in a row of the load and of each unit
  restarts

world == <<host, lister>>
store == <<enabled, silenced, acked>>
evaluator == <<pc, todo, rules, sample>>
history == <<paged, excused>>
vars == <<world, store, evaluator, active, note, fired, history, run, restarts>>

Kinds == {"disk_usage", "load_sustained", "unit_failed"}
KeysOf(kind) == CASE kind = "disk_usage" -> Disks
                  [] kind = "load_sustained" -> {Load}
                  [] kind = "unit_failed" -> Units
Readings(k) == IF k \in Units THEN {"over", "under"} ELSE {"over", "near", "under", "gone"}

Quiet == [on |-> FALSE, hits |-> 0]
NoPage == [clear |-> TRUE, episode |-> 0]

\* The state of K is that of a key never seen: clearStatePrefix, or a new process.
Deleted(K) == [k \in Keys |-> IF k \in K THEN Quiet ELSE active[k]]
Excuse(K) == excused' = excused \cup {k \in K : active[k].on}

MaxHits == IF LoadHits > UnitHits THEN LoadHits ELSE UnitHits
Capped(n, max) == IF n < max THEN n ELSE max

\* One more reading r of a key, for the history.
Longer(k, r) == [last |-> r, length |-> IF run[k].last = r
                                         THEN Capped(run[k].length + 1, MaxHits)
                                         ELSE 1]
NoRun == [last |-> "gone", length |-> 0]
Forgotten(K) == run' = [k \in Keys |-> IF k \in K THEN NoRun ELSE run[k]]

-----------------------------------------------------------------------------
(* enter and clear: the new state, and the notification to publish *)

\* Mutant: an alert fires again at every reading.
EnterAgain(k, hits) ==
  /\ active' = [active EXCEPT ![k] = [on |-> TRUE, hits |-> hits]]
  /\ fired' = [fired EXCEPT ![k] = @ + 1]
  /\ note' = [key |-> k, clear |-> FALSE, episode |-> fired[k] + 1]

Enter(k, hits) ==
  IF active[k].on
  THEN active' = [active EXCEPT ![k].hits = hits] /\ UNCHANGED <<fired, note>>
  ELSE /\ active' = [active EXCEPT ![k] = [on |-> TRUE, hits |-> hits]]
       /\ fired' = [fired EXCEPT ![k] = @ + 1]
       /\ note' = [key |-> k, clear |-> FALSE, episode |-> fired[k] + 1]

Clear(k) ==
  /\ active' = [active EXCEPT ![k] = Quiet]
  /\ note' = IF active[k].on THEN [key |-> k, clear |-> TRUE, episode |-> fired[k]] ELSE note
  /\ UNCHANGED fired

Hold == UNCHANGED <<active, note, fired>>

-----------------------------------------------------------------------------
(* Evaluate *)

\* What an evaluation has read is gone with it.
NoRules == [kind \in Kinds |-> FALSE]
NoSample == [k \in Keys |-> "gone"]
Ends == pc' = "idle" /\ todo' = {} /\ rules' = NoRules /\ sample' = NoSample

\* The rules and the host are read once; the units are listed later.
StartEvaluation ==
  /\ pc = "idle"
  /\ \A k \in Keys : fired[k] < MaxEpisodes
  /\ pc' = "disks"
  /\ todo' = Disks
  /\ rules' = enabled
  /\ sample' = [k \in Keys |-> IF k \in Units THEN sample[k] ELSE host[k]]
  /\ UNCHANGED <<world, store, active, note, fired, history, run, restarts>>

\* evalDisk of a disabled rule.
DisksOff ==
  /\ pc = "disks" /\ todo # {} /\ note = Nothing /\ ~rules["disk_usage"]
  /\ active' = Deleted(Disks)
  /\ Excuse(Disks)
  /\ todo' = {}
  /\ UNCHANGED <<world, store, pc, rules, sample, note, fired, paged, run, restarts>>

\* Mutant: no hysteresis, and a mount that is gone counts as recovered.
EvalDiskEager(d) ==
  /\ pc = "disks" /\ d \in todo /\ rules["disk_usage"] /\ note = Nothing
  /\ IF sample[d] = "over" THEN Enter(d, 0) ELSE Clear(d)
  /\ todo' = todo \ {d}
  /\ UNCHANGED <<world, store, pc, rules, sample, history, run, restarts>>

EvalDisk(d) ==
  /\ pc = "disks" /\ d \in todo /\ rules["disk_usage"] /\ note = Nothing
  /\ CASE sample[d] = "over"  -> Enter(d, 0)
       [] sample[d] = "under" -> Clear(d)
       [] OTHER               -> Hold
  /\ todo' = todo \ {d}
  /\ UNCHANGED <<world, store, pc, rules, sample, history, run, restarts>>

\* A reading that is not over the threshold.
LoadBelow ==
  IF active[Load].on
  THEN IF sample[Load] = "under" THEN Clear(Load) ELSE Hold
  ELSE active' = [active EXCEPT ![Load].hits = 0] /\ UNCHANGED <<note, fired>>

\* Mutant: one reading more than the rule asks for.
LoadOverLate ==
  IF active[Load].hits >= LoadHits THEN Enter(Load, LoadHits)
  ELSE active' = [active EXCEPT ![Load].hits = @ + 1] /\ UNCHANGED <<note, fired>>

\* hits only grows while the load stays over, and is compared with LoadHits alone.
LoadOver ==
  LET hits == Capped(active[Load].hits + 1, LoadHits) IN
  IF hits >= LoadHits THEN Enter(Load, hits)
  ELSE active' = [active EXCEPT ![Load].hits = hits] /\ UNCHANGED <<note, fired>>

LoadOff == ~rules["load_sustained"] \/ sample[Load] = "gone"

EvalLoad ==
  /\ pc = "disks" /\ todo = {} /\ note = Nothing
  /\ pc' = "units"
  /\ IF LoadOff
     THEN /\ active' = Deleted({Load})
          /\ Excuse({Load})
          /\ Forgotten({Load})
          /\ UNCHANGED <<note, fired>>
     ELSE /\ IF sample[Load] = "over" THEN LoadOver ELSE LoadBelow
          /\ run' = [run EXCEPT ![Load] = Longer(Load, sample[Load])]
          /\ UNCHANGED excused
  /\ UNCHANGED <<world, store, todo, rules, sample, paged, restarts>>

\* evalUnits of a disabled rule.
UnitsOff ==
  /\ pc = "units" /\ note = Nothing /\ ~rules["unit_failed"]
  /\ active' = Deleted(Units)
  /\ Excuse(Units)
  /\ Forgotten(Units)
  /\ Ends
  /\ UNCHANGED <<world, store, note, fired, paged, restarts>>

UnitsUnavailable ==
  /\ pc = "units" /\ note = Nothing /\ rules["unit_failed"] /\ ~lister
  /\ Ends
  /\ UNCHANGED <<world, store, active, note, fired, history, run, restarts>>

ListUnits ==
  /\ pc = "units" /\ note = Nothing /\ rules["unit_failed"] /\ lister
  /\ pc' = "failed"
  /\ todo' = {u \in Units : host[u] = "over"}
  /\ sample' = [k \in Keys |-> IF k \in Units THEN host[k] ELSE sample[k]]
  /\ run' = [k \in Keys |-> IF k \in Units THEN Longer(k, host[k]) ELSE run[k]]
  /\ UNCHANGED <<world, store, rules, active, note, fired, history, restarts>>

TrackUnit(u, isFailed) ==
  LET hits == active[u].hits + 1 IN
  CASE active[u].on = isFailed ->
         active' = [active EXCEPT ![u].hits = 0] /\ UNCHANGED <<note, fired>>
    [] active[u].on # isFailed /\ hits < UnitHits ->
         active' = [active EXCEPT ![u].hits = hits] /\ UNCHANGED <<note, fired>>
    [] OTHER -> IF isFailed THEN Enter(u, 0) ELSE Clear(u)

TrackFailed(u) ==
  /\ pc = "failed" /\ u \in todo /\ note = Nothing
  /\ TrackUnit(u, TRUE)
  /\ todo' = todo \ {u}
  /\ UNCHANGED <<world, store, pc, rules, sample, history, run, restarts>>

\* Mutant: only the alerts that have fired are swept.
SweepFired ==
  /\ pc = "failed" /\ todo = {} /\ note = Nothing
  /\ pc' = "sweep"
  /\ todo' = {u \in Units : active[u].on /\ sample[u] # "over"}
  /\ UNCHANGED <<world, store, rules, sample, active, note, fired, history, run, restarts>>

\* Mutant: only the units that are being counted are swept.
SweepCounted ==
  /\ pc = "failed" /\ todo = {} /\ note = Nothing
  /\ pc' = "sweep"
  /\ todo' = {u \in Units : active[u].hits > 0 /\ sample[u] # "over"}
  /\ UNCHANGED <<world, store, rules, sample, active, note, fired, history, run, restarts>>

\* The keys with state to carry that this poll does not report failed.
Sweep ==
  /\ pc = "failed" /\ todo = {} /\ note = Nothing
  /\ pc' = "sweep"
  /\ todo' = {u \in Units : (active[u].on \/ active[u].hits > 0) /\ sample[u] # "over"}
  /\ UNCHANGED <<world, store, rules, sample, active, note, fired, history, run, restarts>>

TrackHealthy(u) ==
  /\ pc = "sweep" /\ u \in todo /\ note = Nothing
  /\ TrackUnit(u, FALSE)
  /\ todo' = todo \ {u}
  /\ UNCHANGED <<world, store, pc, rules, sample, history, run, restarts>>

EndEvaluation ==
  /\ pc = "sweep" /\ todo = {} /\ note = Nothing
  /\ Ends
  /\ UNCHANGED <<world, store, active, note, fired, history, run, restarts>>

\* publish: the silences are read now, after the state was set.
Publish ==
  /\ note # Nothing
  /\ IF note.key \in silenced
     THEN excused' = excused \cup {note.key} /\ UNCHANGED paged
     ELSE /\ paged' = [paged EXCEPT ![note.key] = [clear |-> note.clear, episode |-> note.episode]]
          /\ excused' = excused \ {note.key}
  /\ note' = Nothing
  /\ UNCHANGED <<world, store, evaluator, active, fired, run, restarts>>

-----------------------------------------------------------------------------
(* Handlers, and what happens to the host and the agent *)

SetConfig(kind) ==
  /\ enabled' = [enabled EXCEPT ![kind] = ~@]
  /\ UNCHANGED <<world, silenced, acked, evaluator, active, note, fired, history, run, restarts>>

Silence(k) ==
  /\ silenced' = silenced \cup {k}
  /\ UNCHANGED <<world, enabled, acked, evaluator, active, note, fired, history, run, restarts>>

\* By the operator, or because it ran out.
Unsilence(k) ==
  /\ k \in silenced
  /\ silenced' = silenced \ {k}
  /\ UNCHANGED <<world, enabled, acked, evaluator, active, note, fired, history, run, restarts>>

\* Of the episode the operator saw, which may be over: acks are staged on the phone.
Ack(k, episode) ==
  /\ episode <= fired[k]
  /\ acked' = [acked EXCEPT ![k] = episode]
  /\ UNCHANGED <<world, enabled, silenced, evaluator, active, note, fired, history, run, restarts>>

ReadingChanges(k, reading) ==
  /\ host' = [host EXCEPT ![k] = reading]
  /\ UNCHANGED <<lister, store, evaluator, active, note, fired, history, run, restarts>>

ListerChanges ==
  /\ lister' = ~lister
  /\ UNCHANGED <<host, store, evaluator, active, note, fired, history, run, restarts>>

\* The active alerts and a notification on its way are lost.
Restart ==
  /\ restarts < MaxRestarts
  /\ restarts' = restarts + 1
  /\ active' = Deleted(Keys)
  /\ excused' = excused \cup {k \in Keys : active[k].on \/ (note # Nothing /\ note.key = k)}
  /\ Forgotten(Keys)
  /\ note' = Nothing
  /\ Ends
  /\ UNCHANGED <<world, store, fired, paged>>

-----------------------------------------------------------------------------
(* Specification *)

Init ==
  /\ host = [k \in Keys |-> "under"]
  /\ lister = TRUE
  /\ enabled = [kind \in Kinds |-> TRUE]
  /\ silenced = {}
  /\ acked = [k \in Keys |-> 0]
  /\ pc = "idle"
  /\ todo = {}
  /\ rules = NoRules
  /\ sample = NoSample
  /\ active = [k \in Keys |-> Quiet]
  /\ note = Nothing
  /\ fired = [k \in Keys |-> 0]
  /\ paged = [k \in Keys |-> NoPage]
  /\ excused = {}
  /\ run = [k \in Keys |-> NoRun]
  /\ restarts = 0

Evaluate ==
  \/ StartEvaluation
  \/ DisksOff
  \/ \E d \in Disks : EvalDisk(d)
  \/ EvalLoad
  \/ UnitsOff
  \/ UnitsUnavailable
  \/ ListUnits
  \/ \E u \in Units : TrackFailed(u)
  \/ Sweep
  \/ \E u \in Units : TrackHealthy(u)
  \/ EndEvaluation
  \/ Publish

Handlers ==
  \/ \E kind \in Kinds : SetConfig(kind)
  \/ \E k \in Keys : Silence(k)
  \/ \E k \in Keys : Unsilence(k)
  \/ \E k \in Keys, episode \in 1..MaxEpisodes : Ack(k, episode)

Environment ==
  \/ \E k \in Keys : \E reading \in Readings(k) \ {host[k]} : ReadingChanges(k, reading)
  \/ ListerChanges
  \/ Restart

Next == Evaluate \/ Handlers \/ Environment

Spec == Init /\ [][Next]_vars

\* The goroutine of Start: the ticker fires for ever and every call returns.
FairSpec == Spec /\ WF_vars(Evaluate)

-----------------------------------------------------------------------------
(* Properties *)

\* Every variable has its type.
TypeOK ==
  /\ host \in [Keys -> {"over", "near", "under", "gone"}] /\ lister \in BOOLEAN
  /\ enabled \in [Kinds -> BOOLEAN] /\ rules \in [Kinds -> BOOLEAN]
  /\ silenced \subseteq Keys /\ excused \subseteq Keys
  /\ pc \in {"idle", "disks", "units", "failed", "sweep"} /\ todo \subseteq Keys
  /\ sample \in [Keys -> {"over", "near", "under", "gone"}]
  /\ active \in [Keys -> [on : BOOLEAN, hits : 0..MaxHits]]
  /\ fired \in [Keys -> 0..MaxEpisodes] /\ acked \in [Keys -> 0..MaxEpisodes]
  /\ note \in [key : Keys, clear : BOOLEAN, episode : 1..MaxEpisodes] \cup {Nothing}
  /\ paged \in [Keys -> [clear : BOOLEAN, episode : 0..MaxEpisodes]]
  /\ run \in [Keys -> [last : {"over", "near", "under", "gone"}, length : 0..MaxHits]]
  /\ restarts \in 0..MaxRestarts

\* The phone sees an alert start once and end once: the pages about a key are
\* a start of a later episode and the end of that same episode in turn, except
\* after a page was suppressed by a silence or the state of a firing key was
\* deleted (alerts.go enter, clear, publish).
PagesAlternate ==
  [][\A k \in Keys :
       paged'[k] # paged[k] /\ k \notin excused =>
         /\ paged'[k].clear # paged[k].clear
         /\ IF paged'[k].clear THEN paged'[k].episode = paged[k].episode
            ELSE paged'[k].episode > paged[k].episode]_vars

UnitDebounced(u) ==
  /\ fired'[u] > fired[u] => run[u].last = "over" /\ run[u].length >= UnitHits
  /\ note' # note /\ note' # Nothing /\ note'.key = u /\ note'.clear =>
       run[u].last = "under" /\ run[u].length >= UnitHits

LoadDebounced ==
  fired'[Load] > fired[Load] => run'[Load].last = "over" /\ run'[Load].length >= LoadHits

\* "the number of consecutive evaluation cycles a systemd unit must be observed
\* failed (or observed healthy again) before its unit_failed alert fires or
\* clears": so many readings in a row that took place, however a unit flaps; and
\* the load as many, with no reading between the thresholds in the middle
\* (evalLoad, evalUnits, trackUnit).
Debounced == [][(\A u \in Units : UnitDebounced(u)) /\ LoadDebounced]_vars

Evaluated == pc = "idle" /\ note = Nothing

\* The converse: when an evaluation is over, what it has read for long enough
\* is what is active (evalDisk, evalLoad, trackUnit and the sweep of evalUnits).
EvaluationSettles ==
  Evaluated =>
    /\ \A u \in Units : run[u].length >= UnitHits => active[u].on = (run[u].last = "over")
    /\ run[Load].length >= LoadHits /\ run[Load].last = "over" => active[Load].on
    /\ run[Load].last = "under" => ~active[Load].on

\* A mount that disappears neither fires nor clears; only a reading under the
\* hysteresis, a disabled rule or a restart ends its alert (evalDisk).
DiskHysteresis ==
  [][\A d \in Disks :
       /\ fired'[d] > fired[d] => sample[d] = "over"
       /\ active[d].on /\ ~active'[d].on =>
            sample[d] = "under" \/ ~rules["disk_usage"] \/ restarts' > restarts]_vars

\* The alert of a unit that stays failed comes to be active and stays so, and that
\* of one that stays healthy comes to be over and stays so, as long as systemd
\* answers and the rule stays on (Evaluate).
UnitsAreFollowed ==
  \A u \in Units :
    /\ <>[](host[u] = "over" /\ lister /\ enabled["unit_failed"])
         => <>[](active[u].on \/ \E k \in Keys : fired[k] = MaxEpisodes)
    /\ <>[](host[u] = "under" /\ lister /\ enabled["unit_failed"])
         => <>[](~active[u].on \/ \E k \in Keys : fired[k] = MaxEpisodes)

\* "The alert stays active (it can re-fire after recovery) but is hidden from the
\* feed until the next distinct firing" (Ack): an acknowledged episode stays so.
AckSticks ==
  [][\A k \in Keys :
       acked[k] = fired[k] /\ fired'[k] = fired[k] => acked'[k] = fired'[k]]_vars
=============================================================================
