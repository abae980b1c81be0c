---------------------------- MODULE SessionStream ----------------------------
(***************************************************************************)
(* The event stream of one session: sessions.Manager.Publish,              *)
(* PublishExisting, publishEphemeral, fanout, Subscribe and Delete, the    *)
(* store's session_events rows behind them, and the goroutine the server   *)
(* starts for each session.subscribe frame.                                *)
(*                                                                         *)
(* A Publisher is a goroutine inside Publish (a WebSocket handler, a       *)
(* runtime's reader, the reaper), inside a review decision or inside       *)
(* publishEphemeral.  A Subscriber is one call of Subscribe together with  *)
(* the goroutine it starts and the server's forwarding goroutine: its      *)
(* identity is used once, as a subscription is never reused.  The steps    *)
(* are the pieces of code between two lock releases, channel operations or *)
(* database calls, so the append of an event and its fanout are two steps, *)
(* and so are the existence check of Subscribe and its registration.       *)
(***************************************************************************)
EXTENDS Naturals, Sequences, FiniteSets

CONSTANTS
  Publishers,         \* goroutines that may be publishing at the same time
  Subscribers,        \* calls of Subscribe
  NoSub,              \* no subscriber: an idle publisher's send target
  ChCap,              \* capacity of subscriber.ch (256 in the code)
  OutCap,             \* capacity of the channel Subscribe returns (256)
  MaxSeq,             \* bound: persisted events of the session
  MaxLegacy,          \* bound: rows in the log before the first step
  MaxEphemeral,       \* bound: ephemeral deltas published
  MaxAuditFailures    \* bound: review decisions whose audit append fails

ASSUME SubscribersAssumption == NoSub \notin Subscribers
ASSUME CapacityAssumption == ChCap \in Nat \ {0} /\ OutCap \in Nat \ {0}
ASSUME BoundsAssumption ==
  MaxSeq \in Nat /\ MaxLegacy \in Nat /\ MaxEphemeral \in Nat /\ MaxAuditFailures \in Nat

VARIABLES
  exists,        \* the sessions row is there (session_events rows cascade with it)
  log,           \* the type of every event appended, by seq
  deleting,      \* how far Manager.Delete got: "no", "rowGone", "dropped"
  pc,            \* each publisher: "idle", "appended" (before fanout), "sending"
  cur,           \* the event each publisher is publishing
  targets,       \* fanout's snapshot: the subscribers it has still to serve
  at,            \* the subscriber the publisher's select is on
  subs,          \* m.subs[sessionID]
  done,          \* the subscribers whose done channel is closed
  ctxDone,       \* the subscribers whose context is cancelled
  spc,           \* each subscription: "idle", "checked", "replaying", "live", "emitting", "finished"
  after,         \* the after_seq each subscription was asked for
  replay,        \* the rest of its replay snapshot
  maxReplayed,   \* its high-water mark
  ch,            \* its live channel, filled by fanout
  held,          \* the live event it is about to emit (a sequence of at most one)
  emitted,       \* history: every event put on the channel Subscribe returned
  taken,         \* how many of those the server's forwarder has taken off it
  fwd,           \* the forwarder: "none", "running", "returned"
  ephemerals,    \* ephemeral deltas published so far
  unannounced    \* events persisted whose publisher returned before fanout

pubVars  == <<pc, cur, targets, at>>
subVars  == <<after, replay, maxReplayed, held, emitted>>
rowVars  == <<exists, log, deleting>>
ghosts   == <<ephemerals, unannounced>>
vars == <<rowVars, pubVars, subs, done, ctxDone, spc, subVars, ch, taken, fwd, ghosts>>

PublishedTypes == {"event", "review"}
EventTypes == PublishedTypes \cup {"ask_question"}
Event == [seq : Nat, type : EventTypes \cup {"message_delta"}]
NoEvent == [seq |-> 0, type |-> "message_delta"]

\* The rows SELECT sees: DeleteSession removes them with the session.
Rows == IF exists THEN log ELSE << >>

\* Mutant: the newest row first.
SessionEventsAfterDescending(a) ==
  [i \in 1..(Len(Rows) - a) |-> [seq |-> Len(Rows) + 1 - i, type |-> Rows[Len(Rows) + 1 - i]]]

\* SessionEventsAfter: rows with a larger seq, in ascending order.
SessionEventsAfter(a) ==
  [i \in 1..(Len(Rows) - a) |-> [seq |-> a + i, type |-> Rows[a + i]]]

-----------------------------------------------------------------------------
(* Publishing *)

\* AppendSessionEvent: one transaction takes MAX(seq) + 1 and inserts.  With
\* the session row gone the insert fails its foreign key and Publish returns.
AppendEvent(p, type) ==
  /\ pc[p] = "idle"
  /\ exists
  /\ Len(log) < MaxSeq
  /\ log' = Append(log, type)
  /\ cur' = [cur EXCEPT ![p] = [seq |-> Len(log) + 1, type |-> type]]
  /\ pc' = [pc EXCEPT ![p] = "appended"]
  /\ UNCHANGED <<exists, deleting, targets, at, subs, done, ctxDone, spc, subVars, ch, taken, fwd, ghosts>>

\* recordDecision appends the review event and then the audit row; when the
\* second append fails it returns the error and nobody calls PublishExisting.
AuditAppendFails(p) ==
  /\ pc[p] = "appended"
  /\ cur[p].type = "review"
  /\ Cardinality(unannounced) < MaxAuditFailures
  /\ unannounced' = unannounced \cup {cur[p].seq}
  /\ pc' = [pc EXCEPT ![p] = "idle"]
  /\ cur' = [cur EXCEPT ![p] = NoEvent]
  /\ UNCHANGED <<rowVars, targets, at, subs, done, ctxDone, spc, subVars, ch, taken, fwd, ephemerals>>

\* publishEphemeral: seq 0, no row.
StartEphemeral(p) ==
  /\ pc[p] = "idle"
  /\ ephemerals < MaxEphemeral
  /\ ephemerals' = ephemerals + 1
  /\ cur' = [cur EXCEPT ![p] = NoEvent]
  /\ pc' = [pc EXCEPT ![p] = "appended"]
  /\ UNCHANGED <<rowVars, targets, at, subs, done, ctxDone, spc, subVars, ch, taken, fwd, unannounced>>

\* The publisher is left with the subscribers in rest: its loop goes on with
\* any of them (a map is ranged over in no particular order), or returns.
GoOnWith(p, rest) ==
  /\ targets' = [targets EXCEPT ![p] = rest]
  /\ IF rest = {}
     THEN /\ at' = [at EXCEPT ![p] = NoSub]
          /\ pc' = [pc EXCEPT ![p] = "idle"]
          /\ cur' = [cur EXCEPT ![p] = NoEvent]
     ELSE /\ \E s \in rest : at' = [at EXCEPT ![p] = s]
          /\ pc' = [pc EXCEPT ![p] = "sending"]
          /\ UNCHANGED cur

\* fanout, under the manager lock: copy the set of live subscribers.
FanoutSnapshot(p) ==
  /\ pc[p] = "appended"
  /\ GoOnWith(p, subs)
  /\ UNCHANGED <<rowVars, subs, done, ctxDone, spc, subVars, ch, taken, fwd, ghosts>>

\* Mutant: a send that gives up on a full channel instead of waiting.
FanoutSendOrDrop(p) ==
  LET s == at[p] IN
  /\ pc[p] = "sending"
  /\ ch' = IF Len(ch[s]) < ChCap THEN [ch EXCEPT ![s] = Append(@, cur[p])] ELSE ch
  /\ GoOnWith(p, targets[p] \ {s})
  /\ UNCHANGED <<rowVars, subs, done, ctxDone, spc, subVars, taken, fwd, ghosts>>

\* fanout, outside the lock: case sub.ch <- ev.
FanoutSend(p) ==
  LET s == at[p] IN
  /\ pc[p] = "sending"
  /\ Len(ch[s]) < ChCap
  /\ ch' = [ch EXCEPT ![s] = Append(@, cur[p])]
  /\ GoOnWith(p, targets[p] \ {s})
  /\ UNCHANGED <<rowVars, subs, done, ctxDone, spc, subVars, taken, fwd, ghosts>>

\* fanout: case <-sub.done.  When both are ready the select takes either.
FanoutSkip(p) ==
  /\ pc[p] = "sending"
  /\ at[p] \in done
  /\ GoOnWith(p, targets[p] \ {at[p]})
  /\ UNCHANGED <<rowVars, subs, done, ctxDone, spc, subVars, ch, taken, fwd, ghosts>>

PublisherStep(p) == FanoutSnapshot(p) \/ FanoutSend(p) \/ FanoutSkip(p)

-----------------------------------------------------------------------------
(* Subscribing *)

\* Subscribe: GetSession, before any lock is taken.
SubscribeCheck(s) ==
  /\ spc[s] = "idle"
  /\ exists
  /\ spc' = [spc EXCEPT ![s] = "checked"]
  /\ UNCHANGED <<rowVars, pubVars, subs, done, ctxDone, subVars, ch, taken, fwd, ghosts>>

\* Mutant: the mark starts at zero instead of the cursor.
SubscribeRegisterMarkZero(s, a) ==
  /\ spc[s] = "checked"
  /\ spc' = [spc EXCEPT ![s] = "replaying"]
  /\ subs' = subs \cup {s}
  /\ after' = [after EXCEPT ![s] = a]
  /\ maxReplayed' = [maxReplayed EXCEPT ![s] = 0]
  /\ replay' = [replay EXCEPT ![s] = SessionEventsAfter(a)]
  /\ fwd' = [fwd EXCEPT ![s] = "running"]
  /\ UNCHANGED <<rowVars, pubVars, done, ctxDone, held, emitted, ch, taken, ghosts>>

\* Subscribe, under the manager lock: register, then read the replay snapshot.
\* The server starts its forwarder as soon as Subscribe has returned.
SubscribeRegister(s, a) ==
  /\ spc[s] = "checked"
  /\ spc' = [spc EXCEPT ![s] = "replaying"]
  /\ subs' = subs \cup {s}
  /\ after' = [after EXCEPT ![s] = a]
  /\ maxReplayed' = [maxReplayed EXCEPT ![s] = a]
  /\ replay' = [replay EXCEPT ![s] = SessionEventsAfter(a)]
  /\ fwd' = [fwd EXCEPT ![s] = "running"]
  /\ UNCHANGED <<rowVars, pubVars, done, ctxDone, held, emitted, ch, taken, ghosts>>

HasRoom(s) == Len(emitted[s]) - taken[s] < OutCap

\* The subscription's goroutine, replaying: legacy ask_question rows are
\* passed over without moving the high-water mark.
ReplaySkip(s) ==
  /\ spc[s] = "replaying"
  /\ replay[s] # << >>
  /\ Head(replay[s]).type = "ask_question"
  /\ replay' = [replay EXCEPT ![s] = Tail(@)]
  /\ UNCHANGED <<rowVars, pubVars, subs, done, ctxDone, spc, after, maxReplayed, held, emitted, ch, taken, fwd, ghosts>>

\* Every other row raises the mark and goes out.
ReplayEmit(s) ==
  /\ spc[s] = "replaying"
  /\ replay[s] # << >>
  /\ Head(replay[s]).type # "ask_question"
  /\ HasRoom(s)
  /\ maxReplayed' = [maxReplayed EXCEPT ![s] = IF Head(replay[s]).seq > @ THEN Head(replay[s]).seq ELSE @]
  /\ emitted' = [emitted EXCEPT ![s] = Append(@, Head(replay[s]))]
  /\ replay' = [replay EXCEPT ![s] = Tail(@)]
  /\ UNCHANGED <<rowVars, pubVars, subs, done, ctxDone, spc, after, held, ch, taken, fwd, ghosts>>

ReplayEnd(s) ==
  /\ spc[s] = "replaying"
  /\ replay[s] = << >>
  /\ spc' = [spc EXCEPT ![s] = "live"]
  /\ UNCHANGED <<rowVars, pubVars, subs, done, ctxDone, subVars, ch, taken, fwd, ghosts>>

\* Mutants: the last replayed event goes out again, or the first live one is
\* taken for replayed.
AlreadyReplayedButLast(s, ev) == ev.seq > 0 /\ ev.seq < maxReplayed[s]
AlreadyReplayedOrNext(s, ev) == ev.seq > 0 /\ ev.seq <= maxReplayed[s] + 1

\* A live persisted event at or below the mark was already replayed.
AlreadyReplayed(s, ev) == ev.seq > 0 /\ ev.seq <= maxReplayed[s]

LiveDrop(s) ==
  /\ spc[s] = "live"
  /\ ch[s] # << >>
  /\ AlreadyReplayed(s, Head(ch[s]))
  /\ ch' = [ch EXCEPT ![s] = Tail(@)]
  /\ UNCHANGED <<rowVars, pubVars, subs, done, ctxDone, spc, subVars, taken, fwd, ghosts>>

LiveReceive(s) ==
  /\ spc[s] = "live"
  /\ ch[s] # << >>
  /\ ~AlreadyReplayed(s, Head(ch[s]))
  /\ held' = [held EXCEPT ![s] = <<Head(ch[s])>>]
  /\ ch' = [ch EXCEPT ![s] = Tail(@)]
  /\ spc' = [spc EXCEPT ![s] = "emitting"]
  /\ UNCHANGED <<rowVars, pubVars, subs, done, ctxDone, after, replay, maxReplayed, emitted, taken, fwd, ghosts>>

LiveEmit(s) ==
  /\ spc[s] = "emitting"
  /\ HasRoom(s)
  /\ emitted' = [emitted EXCEPT ![s] = Append(@, Head(held[s]))]
  /\ held' = [held EXCEPT ![s] = << >>]
  /\ spc' = [spc EXCEPT ![s] = "live"]
  /\ UNCHANGED <<rowVars, pubVars, subs, done, ctxDone, after, replay, maxReplayed, ch, taken, fwd, ghosts>>

\* Mutant: the replay loop does not look at the context.
StreamExitOnDoneOnly(s) ==
  /\ s \in done
  /\ spc[s] \in {"live", "emitting"}
  /\ spc' = [spc EXCEPT ![s] = "finished"]
  /\ replay' = [replay EXCEPT ![s] = << >>]
  /\ held' = [held EXCEPT ![s] = << >>]
  /\ UNCHANGED <<rowVars, pubVars, subs, done, ctxDone, after, maxReplayed, emitted, ch, taken, fwd, ghosts>>

\* The goroutine returns, closing its output: on a cancelled context at any
\* select, on a closed done channel only once it is past the replay.  What it
\* had in hand goes with it.
StreamExit(s) ==
  /\ \/ s \in ctxDone /\ spc[s] \in {"replaying", "live", "emitting"}
     \/ s \in done /\ spc[s] \in {"live", "emitting"}
  /\ spc' = [spc EXCEPT ![s] = "finished"]
  /\ replay' = [replay EXCEPT ![s] = << >>]
  /\ held' = [held EXCEPT ![s] = << >>]
  /\ UNCHANGED <<rowVars, pubVars, subs, done, ctxDone, after, maxReplayed, emitted, ch, taken, fwd, ghosts>>

StreamStep(s) ==
  \/ ReplaySkip(s) \/ ReplayEmit(s) \/ ReplayEnd(s)
  \/ LiveDrop(s) \/ LiveReceive(s) \/ LiveEmit(s)
  \/ StreamExit(s)

\* The server's forwarder takes an event off the channel and hands it to the
\* connection's writer, which never blocks but may give the connection up.
TakeEvent(s) ==
  /\ fwd[s] = "running"
  /\ taken[s] < Len(emitted[s])
  /\ taken' = [taken EXCEPT ![s] = @ + 1]
  /\ UNCHANGED <<rowVars, pubVars, subs, done, spc, subVars, ch, fwd, ghosts>>

Forward(s) == TakeEvent(s) /\ UNCHANGED ctxDone

\* Mutant: cancel unregisters but leaves done open.
CleanupLeavesDone(s) ==
  /\ fwd[s] = "running"
  /\ \/ s \in ctxDone
     \/ spc[s] = "finished" /\ taken[s] = Len(emitted[s])
  /\ fwd' = [fwd EXCEPT ![s] = "returned"]
  /\ ctxDone' = ctxDone \cup {s}
  /\ subs' = subs \ {s}
  /\ UNCHANGED <<rowVars, pubVars, done, spc, subVars, ch, taken, ghosts>>

\* It returns when the connection's context ends or the drained channel is
\* closed, and its deferred cleanup is the cancel Subscribe returned: cancel
\* the context, and if still registered unregister and close done.
Cleanup(s) ==
  /\ fwd[s] = "running"
  /\ \/ s \in ctxDone
     \/ spc[s] = "finished" /\ taken[s] = Len(emitted[s])
  /\ fwd' = [fwd EXCEPT ![s] = "returned"]
  /\ ctxDone' = ctxDone \cup {s}
  /\ subs' = subs \ {s}
  /\ done' = done \cup {s}
  /\ UNCHANGED <<rowVars, pubVars, spc, subVars, ch, taken, ghosts>>

ForwarderStep(s) == Forward(s) \/ Cleanup(s)

\* The connection goes away.
ContextEnds(s) ==
  /\ spc[s] # "idle"
  /\ s \notin ctxDone
  /\ ctxDone' = ctxDone \cup {s}
  /\ UNCHANGED <<rowVars, pubVars, subs, done, spc, subVars, ch, taken, fwd, ghosts>>

-----------------------------------------------------------------------------
(* Deleting the session *)

\* Delete: Store.DeleteSession, after the best-effort stop of the runtime.
DeleteRow ==
  /\ deleting = "no"
  /\ exists
  /\ exists' = FALSE
  /\ deleting' = "rowGone"
  /\ UNCHANGED <<log, pubVars, subs, done, ctxDone, spc, subVars, ch, taken, fwd, ghosts>>

\* Delete, under the manager lock: drop every live subscriber.
DropSubscribers ==
  /\ deleting = "rowGone"
  /\ deleting' = "dropped"
  /\ done' = done \cup subs
  /\ subs' = {}
  /\ UNCHANGED <<exists, log, pubVars, ctxDone, spc, subVars, ch, taken, fwd, ghosts>>

-----------------------------------------------------------------------------
Init ==
  /\ exists = TRUE
  /\ \E n \in 0..MaxLegacy : log \in [1..n -> {"event", "ask_question"}]
  /\ deleting = "no"
  /\ pc = [p \in Publishers |-> "idle"]
  /\ cur = [p \in Publishers |-> NoEvent]
  /\ targets = [p \in Publishers |-> {}]
  /\ at = [p \in Publishers |-> NoSub]
  /\ subs = {}
  /\ done = {}
  /\ ctxDone = {}
  /\ spc = [s \in Subscribers |-> "idle"]
  /\ after = [s \in Subscribers |-> 0]
  /\ replay = [s \in Subscribers |-> << >>]
  /\ maxReplayed = [s \in Subscribers |-> 0]
  /\ ch = [s \in Subscribers |-> << >>]
  /\ held = [s \in Subscribers |-> << >>]
  /\ emitted = [s \in Subscribers |-> << >>]
  /\ taken = [s \in Subscribers |-> 0]
  /\ fwd = [s \in Subscribers |-> "none"]
  /\ ephemerals = 0
  /\ unannounced = {}

Next ==
  \/ \E p \in Publishers :
       \/ \E type \in PublishedTypes : AppendEvent(p, type)
       \/ AuditAppendFails(p) \/ StartEphemeral(p) \/ PublisherStep(p)
  \/ \E s \in Subscribers :
       \/ SubscribeCheck(s)
       \/ \E a \in 0..MaxSeq : SubscribeRegister(s, a)
       \/ StreamStep(s) \/ ForwarderStep(s) \/ ContextEnds(s)
  \/ DeleteRow
  \/ DropSubscribers

\* Goroutines that can run do run; nothing makes anybody publish, subscribe,
\* disconnect or delete.
Fairness ==
  /\ \A p \in Publishers : WF_vars(PublisherStep(p))
  /\ \A s \in Subscribers : WF_vars(StreamStep(s)) /\ WF_vars(ForwarderStep(s))

Spec == Init /\ [][Next]_vars
FairSpec == Spec /\ Fairness

-----------------------------------------------------------------------------
(* Properties *)

Persisted(s) == {i \in DOMAIN emitted[s] : emitted[s][i].seq > 0}

\* Types of the variables.
TypeOK ==
  /\ exists \in BOOLEAN
  /\ log \in Seq(EventTypes)
  /\ deleting \in {"no", "rowGone", "dropped"}
  /\ pc \in [Publishers -> {"idle", "appended", "sending"}]
  /\ cur \in [Publishers -> Event]
  /\ targets \in [Publishers -> SUBSET Subscribers]
  /\ at \in [Publishers -> Subscribers \cup {NoSub}]
  /\ subs \in SUBSET Subscribers
  /\ done \in SUBSET Subscribers
  /\ ctxDone \in SUBSET Subscribers
  /\ spc \in [Subscribers -> {"idle", "checked", "replaying", "live", "emitting", "finished"}]
  /\ after \in [Subscribers -> Nat]
  /\ replay \in [Subscribers -> Seq(Event)]
  /\ maxReplayed \in [Subscribers -> Nat]
  /\ ch \in [Subscribers -> Seq(Event)]
  /\ held \in [Subscribers -> Seq(Event)]
  /\ emitted \in [Subscribers -> Seq(Event)]
  /\ taken \in [Subscribers -> Nat]
  /\ fwd \in [Subscribers -> {"none", "running", "returned"}]
  /\ ephemerals \in Nat
  /\ unannounced \in SUBSET Nat

\* However append, fanout, registration and replay interleave, one
\* subscription never puts the same persisted event on its channel twice:
\* the replay/live boundary that maxReplayed guards (phase7_test.go).
NoDuplicate ==
  \A s \in Subscribers : \A i, j \in Persisted(s) :
    emitted[s][i].seq = emitted[s][j].seq => i = j

\* A persisted event the client already has (seq at or below after_seq) is
\* not sent to it again, not even one still on its way to fanout when the
\* client reconnected.
NothingAlreadySeen ==
  \A s \in Subscribers : \A i \in Persisted(s) : emitted[s][i].seq > after[s]

\* Where a persisted event with seq n can be on its way to subscription s.
Awaiting(s, n) ==
  \/ \E i \in DOMAIN replay[s] : replay[s][i].seq = n
  \/ \E i \in DOMAIN ch[s] : ch[s][i].seq = n
  \/ \E i \in DOMAIN held[s] : held[s][i].seq = n
  \/ \E p \in Publishers : cur[p].seq = n /\ (pc[p] = "appended" \/ s \in targets[p])

\* No event is lost between the log and a live subscriber: every persisted
\* event after its cursor is already out, or in its replay, its channel or
\* the hands of a publisher that will still deliver it.  Exempt are the
\* retired ask_question rows and decisions that failed half-way.
NoEventLost ==
  \A s \in subs \ ctxDone : exists =>
    \A n \in 1..Len(log) :
      (n > after[s] /\ log[n] # "ask_question" /\ n \notin unannounced) =>
        Awaiting(s, n) \/ \E i \in DOMAIN emitted[s] : emitted[s][i].seq = n

\* What a subscription emits is in ascending order of seq.  True as long as
\* one goroutine at a time publishes to the session; two of them append and
\* fan out in steps of their own.
InOrder ==
  \A s \in Subscribers : \A i, j \in Persisted(s) :
    i < j => emitted[s][i].seq < emitted[s][j].seq

\* A publisher in fanout always gets out of it: the send into a full channel
\* is released by the reader or by done, so a dead client cannot wedge the
\* agent's output for good.
FanoutReturns == \A p \in Publishers : pc[p] # "idle" ~> pc[p] = "idle"

\* A subscription whose connection ended is unregistered and its goroutine
\* ends, even if it was blocked sending.
SubscriptionEnds ==
  \A s \in Subscribers :
    (s \in ctxDone /\ spc[s] # "checked") ~> (spc[s] = "finished" /\ s \notin subs)

=============================================================================
