------------------------- MODULE SessionStreamProofs -------------------------
(***************************************************************************)
(* Proofs about SessionStream and the client of StreamClient, for any      *)
(* number of publishers, subscribers, events and any channel capacities.   *)
(*                                                                         *)
(* NoDuplicate is not inductive: it says nothing of the events still on    *)
(* their way.  The invariant IInv adds where a persisted event can be at   *)
(* the same time.  To one subscription it is in at most one of: the hands  *)
(* of a publisher, the live channel, the goroutine's hand.  It may be out, *)
(* or in the replay, as well as in one of the first two only if it is one  *)
(* the high-water mark makes the goroutine drop.  Further down, LossInv    *)
(* adds what NoEventLost rests on, OrderInv what InOrder does, and         *)
(* ClientInv what the client's cursor does.                                *)
(***************************************************************************)
EXTENDS StreamClient, SequenceTheorems, FiniteSetTheorems, TLAPS

-----------------------------------------------------------------------------
(* The inductive invariant *)

\* Publisher p may still put its event on the channel of s.
Pending(p, s) == pc[p] = "appended" \/ s \in targets[p]

PublisherInv ==
  /\ \A p \in Publishers : cur[p].seq <= Len(log)
  /\ \A p, q \in Publishers :
       p # q /\ cur[p].seq > 0 => cur[p].seq # cur[q].seq
  /\ \A p \in Publishers : pc[p] # "sending" => targets[p] = {}
  /\ \A p \in Publishers : pc[p] = "sending" => at[p] \in targets[p]

\* A subscription that has not registered has nothing anywhere.
FreshInv ==
  \A s \in Subscribers : spc[s] \in {"idle", "checked"} =>
    /\ s \notin subs
    /\ \A p \in Publishers : s \notin targets[p]
    /\ ch[s] = << >> /\ held[s] = << >> /\ emitted[s] = << >> /\ replay[s] = << >>

\* Nothing is anywhere that was not appended.
BoundInv ==
  \A s \in Subscribers :
    /\ \A i \in 1..Len(replay[s]) : replay[s][i].seq <= Len(log)
    /\ \A i \in 1..Len(ch[s]) : ch[s][i].seq <= Len(log)
    /\ \A i \in 1..Len(held[s]) : held[s][i].seq <= Len(log)
    /\ \A i \in 1..Len(emitted[s]) : emitted[s][i].seq <= Len(log)

\* The replay is ascending, after the cursor, and after all that is out.
ReplayInv ==
  \A s \in Subscribers :
    /\ after[s] <= maxReplayed[s]
    /\ spc[s] # "replaying" => replay[s] = << >>
    /\ \A i \in 1..Len(replay[s]) :
         /\ replay[s][i].seq > after[s]
         /\ \A j \in 1..Len(replay[s]) : i < j => replay[s][i].seq < replay[s][j].seq
         /\ \A j \in 1..Len(emitted[s]) : emitted[s][j].seq < replay[s][i].seq

\* The live channel.
ChannelInv ==
  \A s \in Subscribers : \A i \in 1..Len(ch[s]) : ch[s][i].seq > 0 =>
    /\ \A j \in 1..Len(ch[s]) : i # j => ch[s][i].seq # ch[s][j].seq
    /\ \A p \in Publishers : Pending(p, s) => cur[p].seq # ch[s][i].seq
    /\ \A j \in 1..Len(emitted[s]) :
         emitted[s][j].seq = ch[s][i].seq => ch[s][i].seq <= maxReplayed[s]

\* The event in the goroutine's hand.
HeldInv ==
  \A s \in Subscribers :
    /\ Len(held[s]) = IF spc[s] = "emitting" THEN 1 ELSE 0
    /\ \A i \in 1..Len(held[s]) : held[s][i].seq > 0 =>
         /\ held[s][i].seq > maxReplayed[s]
         /\ \A j \in 1..Len(ch[s]) : ch[s][j].seq # held[s][i].seq
         /\ \A p \in Publishers : Pending(p, s) => cur[p].seq # held[s][i].seq
         /\ \A j \in 1..Len(emitted[s]) : emitted[s][j].seq # held[s][i].seq

\* What is out, and what publishers may still send again.
EmittedInv ==
  \A s \in Subscribers : \A i \in 1..Len(emitted[s]) : emitted[s][i].seq > 0 =>
    /\ emitted[s][i].seq > after[s]
    /\ \A j \in 1..Len(emitted[s]) : emitted[s][i].seq = emitted[s][j].seq => i = j
    /\ \A p \in Publishers :
         Pending(p, s) /\ cur[p].seq = emitted[s][i].seq => cur[p].seq <= maxReplayed[s]

IInv ==
  /\ TypeOK
  /\ PublisherInv
  /\ FreshInv
  /\ BoundInv
  /\ ReplayInv
  /\ ChannelInv
  /\ HeldInv
  /\ EmittedInv

-----------------------------------------------------------------------------
(* Sequences *)

LEMMA TailFacts ==
  ASSUME NEW S, NEW q \in Seq(S), q # << >>
  PROVE  /\ Len(q) \in Nat \ {0}
         /\ Head(q) = q[1]
         /\ Head(q) \in S
         /\ Tail(q) \in Seq(S)
         /\ Len(Tail(q)) = Len(q) - 1
         /\ \A i \in 1..Len(Tail(q)) : Tail(q)[i] = q[i + 1] /\ i + 1 \in 1..Len(q)
  OBVIOUS

LEMMA AppendFacts ==
  ASSUME NEW S, NEW q \in Seq(S), NEW e \in S
  PROVE  /\ Append(q, e) \in Seq(S)
         /\ Len(Append(q, e)) = Len(q) + 1
         /\ Append(q, e)[Len(q) + 1] = e
         /\ \A i \in 1..Len(q) : Append(q, e)[i] = q[i]
         /\ \A i \in 1..Len(Append(q, e)) : i \in 1..Len(q) \/ i = Len(q) + 1
  OBVIOUS

Ascending(q) == \A i, j \in 1..Len(q) : i < j => q[i].seq < q[j].seq

LEMMA TailAscending ==
  ASSUME NEW q \in Seq(Event), q # << >>, Ascending(q)
  PROVE  Ascending(Tail(q))
<1> SUFFICES ASSUME NEW i \in 1..Len(Tail(q)), NEW j \in 1..Len(Tail(q)), i < j
             PROVE  Tail(q)[i].seq < Tail(q)[j].seq
  BY DEF Ascending
<1>1. /\ Tail(q)[i] = q[i + 1] /\ Tail(q)[j] = q[j + 1]
      /\ i + 1 \in 1..Len(q) /\ j + 1 \in 1..Len(q)
  BY TailFacts
<1>2. i + 1 < j + 1
  BY TailFacts
<1>3. QED BY <1>1, <1>2 DEF Ascending

\* The replay snapshot: ascending seqs between the cursor and the log's end.
LEMMA SnapshotFacts ==
  ASSUME TypeOK, NEW a \in Nat
  PROVE  /\ SessionEventsAfter(a) \in Seq(Event)
         /\ \A i \in 1..Len(SessionEventsAfter(a)) :
              /\ SessionEventsAfter(a)[i].seq = a + i
              /\ a + i <= Len(log)
<1>1. Rows \in Seq(EventTypes) /\ Len(Rows) \in Nat /\ Len(Rows) <= Len(log)
  BY DEF Rows, TypeOK
<1>2. CASE Len(Rows) - a <= 0
  <2>1. SessionEventsAfter(a) = << >>
    BY <1>1, <1>2 DEF SessionEventsAfter
  <2>2. QED BY <2>1
<1>3. CASE Len(Rows) - a > 0
  <2>1. Len(Rows) - a \in Nat BY <1>1, <1>3
  <2>2. \A i \in 1..(Len(Rows) - a) : [seq |-> a + i, type |-> Rows[a + i]] \in Event
    BY <1>1, <1>3 DEF Event
  <2>3. /\ SessionEventsAfter(a) \in Seq(Event)
        /\ Len(SessionEventsAfter(a)) = Len(Rows) - a
    BY <2>1, <2>2 DEF SessionEventsAfter
  <2>4. QED BY <1>1, <1>3, <2>1, <2>3 DEF SessionEventsAfter
<1>4. QED BY <1>1, <1>2, <1>3

\* What the end of a fanout step does to the publisher: it never makes an
\* event pending that was not.
LEMMA GoOnFacts ==
  ASSUME TypeOK, PublisherInv, NEW p \in Publishers, NEW rest \in SUBSET Subscribers,
         \A s \in rest : Pending(p, s),
         GoOnWith(p, rest), log' = log
  PROVE  /\ targets' = [targets EXCEPT ![p] = rest]
         /\ targets' \in [Publishers -> SUBSET Subscribers]
         /\ at' \in [Publishers -> Subscribers \cup {NoSub}]
         /\ pc' \in [Publishers -> {"idle", "appended", "sending"}]
         /\ cur' \in [Publishers -> Event]
         /\ \A q \in Publishers : cur'[q] = cur[q] \/ cur'[q].seq = 0
         /\ \A q \in Publishers, s \in Subscribers : Pending(q, s)' => Pending(q, s)
         /\ PublisherInv'
<1>1. CASE rest = {}
  <2>1. /\ targets' = [targets EXCEPT ![p] = {}]
        /\ at' = [at EXCEPT ![p] = NoSub]
        /\ pc' = [pc EXCEPT ![p] = "idle"]
        /\ cur' = [cur EXCEPT ![p] = [seq |-> 0, type |-> "message_delta"]]
    BY <1>1 DEF GoOnWith, NoEvent
  <2>2. [seq |-> 0, type |-> "message_delta"] \in Event
    BY DEF Event
  <2>3. cur' \in [Publishers -> Event]
    BY <2>1, <2>2 DEF TypeOK
  <2>4. PublisherInv'
    BY <2>1 DEF TypeOK, PublisherInv, Event
  <2>5. QED BY <1>1, <2>1, <2>3, <2>4 DEF TypeOK, Pending
<1>2. CASE rest # {}
  <2>1. PICK s \in rest :
          /\ targets' = [targets EXCEPT ![p] = rest]
          /\ at' = [at EXCEPT ![p] = s]
          /\ pc' = [pc EXCEPT ![p] = "sending"]
          /\ cur' = cur
    BY <1>2 DEF GoOnWith
  <2>2. PublisherInv'
    BY <2>1 DEF TypeOK, PublisherInv, Event
  <2>3. \A q \in Publishers, x \in Subscribers : Pending(q, x)' => Pending(q, x)
    BY <2>1 DEF TypeOK, Pending
  <2>4. QED BY <2>1, <2>2, <2>3 DEF TypeOK
<1>3. QED BY <1>1, <1>2

\* A step that leaves the subscriptions alone and makes no event pending.
LEMMA QuietStep ==
  ASSUME TypeOK, ChannelInv, HeldInv, EmittedInv,
         UNCHANGED <<ch, held, emitted, maxReplayed, after, spc>>,
         \A q \in Publishers : cur'[q] = cur[q] \/ cur'[q].seq = 0,
         \A q \in Publishers, s \in Subscribers : Pending(q, s)' => Pending(q, s)
  PROVE  ChannelInv' /\ HeldInv' /\ EmittedInv'
<1>1. ChannelInv'
  <2> SUFFICES ASSUME NEW s \in Subscribers, NEW i \in 1..Len(ch[s]), ch[s][i].seq > 0,
                      NEW p \in Publishers, Pending(p, s)'
               PROVE  cur'[p].seq # ch[s][i].seq
    BY DEF ChannelInv
  <2>1. Pending(p, s) BY DEF Pending
  <2>2. cur[p].seq # ch[s][i].seq BY <2>1 DEF ChannelInv
  <2>3. QED BY <2>2
<1>2. HeldInv'
  <2> SUFFICES ASSUME NEW s \in Subscribers, NEW i \in 1..Len(held[s]), held[s][i].seq > 0,
                      NEW p \in Publishers, Pending(p, s)'
               PROVE  cur'[p].seq # held[s][i].seq
    BY DEF HeldInv
  <2>1. Pending(p, s) BY DEF Pending
  <2>2. cur[p].seq # held[s][i].seq BY <2>1 DEF HeldInv
  <2>3. QED BY <2>2
<1>3. EmittedInv'
  <2> SUFFICES ASSUME NEW s \in Subscribers, NEW i \in 1..Len(emitted[s]), emitted[s][i].seq > 0,
                      NEW p \in Publishers, Pending(p, s)', cur'[p].seq = emitted[s][i].seq
               PROVE  cur'[p].seq <= maxReplayed[s]
    BY DEF EmittedInv
  <2>1. Pending(p, s) BY DEF Pending
  <2>2. cur'[p] = cur[p] OBVIOUS
  <2>3. QED BY <2>1, <2>2 DEF EmittedInv
<1>4. QED BY <1>1, <1>2, <1>3

-----------------------------------------------------------------------------
(* Each action preserves the invariant *)

\* The new event's seq is above every other.
LEMMA AppendEventStep ==
  ASSUME IInv, NEW p \in Publishers, NEW type \in PublishedTypes, AppendEvent(p, type)
  PROVE  IInv'
<1> USE DEF rowVars, pubVars, subVars, ghosts
<1>1. TypeOK'
  BY DEF IInv, TypeOK, AppendEvent, PublishedTypes, EventTypes, Event
<1>2. PublisherInv'
  BY DEF IInv, TypeOK, PublisherInv, AppendEvent, Event
<1>3. FreshInv'
  BY DEF IInv, TypeOK, FreshInv, PublisherInv, AppendEvent
<1>4. BoundInv'
  <2>1. Len(log) \in Nat /\ Len(log)' = Len(log) + 1
    BY DEF IInv, TypeOK, AppendEvent, EventTypes
  <2>2. \A e \in Event : e.seq <= Len(log) => e.seq <= Len(log)'
    BY <2>1 DEF Event
  <2>3. QED BY <2>2 DEF IInv, TypeOK, BoundInv, AppendEvent
<1>5. ReplayInv'
  BY DEF IInv, TypeOK, ReplayInv, AppendEvent
<1>6. ChannelInv'
  BY DEF IInv, TypeOK, ChannelInv, Pending, BoundInv, AppendEvent
<1>7. HeldInv'
  BY DEF IInv, TypeOK, HeldInv, Pending, BoundInv, AppendEvent
<1>8. EmittedInv'
  BY DEF IInv, TypeOK, EmittedInv, Pending, BoundInv, AppendEvent
<1>9. QED BY <1>1, <1>2, <1>3, <1>4, <1>5, <1>6, <1>7, <1>8 DEF IInv

\* A publisher that gives up is pending nowhere.
LEMMA AuditAppendFailsStep ==
  ASSUME IInv, NEW p \in Publishers, AuditAppendFails(p)
  PROVE  IInv'
<1> USE DEF rowVars, pubVars, subVars, ghosts
<1>1. TypeOK'
  BY DEF IInv, TypeOK, AuditAppendFails, NoEvent, Event
<1>2. PublisherInv'
  BY DEF IInv, TypeOK, PublisherInv, AuditAppendFails, NoEvent
<1>3. FreshInv'
  BY DEF IInv, TypeOK, FreshInv, PublisherInv, AuditAppendFails, NoEvent
<1>4. BoundInv'
  BY DEF IInv, TypeOK, BoundInv, PublisherInv, AuditAppendFails, NoEvent
<1>5. ReplayInv'
  BY DEF IInv, TypeOK, ReplayInv, AuditAppendFails, NoEvent
<1>6. ChannelInv'
  BY DEF IInv, TypeOK, ChannelInv, Pending, BoundInv, AuditAppendFails, NoEvent
<1>7. HeldInv'
  BY DEF IInv, TypeOK, HeldInv, Pending, BoundInv, AuditAppendFails, NoEvent
<1>8. EmittedInv'
  BY DEF IInv, TypeOK, EmittedInv, Pending, BoundInv, AuditAppendFails, NoEvent
<1>9. QED BY <1>1, <1>2, <1>3, <1>4, <1>5, <1>6, <1>7, <1>8 DEF IInv

\* An ephemeral event has no seq.
LEMMA StartEphemeralStep ==
  ASSUME IInv, NEW p \in Publishers, StartEphemeral(p)
  PROVE  IInv'
<1> USE DEF rowVars, pubVars, subVars, ghosts
<1>1. TypeOK'
  <2>1. [seq |-> 0, type |-> "message_delta"] \in Event
    BY DEF Event
  <2>2. cur' \in [Publishers -> Event]
    BY <2>1 DEF IInv, TypeOK, StartEphemeral, NoEvent
  <2>3. QED BY <2>2 DEF IInv, TypeOK, StartEphemeral
<1>2. PublisherInv'
  BY DEF IInv, TypeOK, PublisherInv, StartEphemeral, NoEvent
<1>3. FreshInv'
  BY DEF IInv, TypeOK, FreshInv, PublisherInv, StartEphemeral, NoEvent
<1>4. BoundInv'
  BY DEF IInv, TypeOK, BoundInv, PublisherInv, StartEphemeral, NoEvent
<1>5. ReplayInv'
  BY DEF IInv, TypeOK, ReplayInv, StartEphemeral, NoEvent
<1>6. ChannelInv'
  BY DEF IInv, TypeOK, ChannelInv, Pending, BoundInv, StartEphemeral, NoEvent
<1>7. HeldInv'
  BY DEF IInv, TypeOK, HeldInv, Pending, BoundInv, StartEphemeral, NoEvent
<1>8. EmittedInv'
  BY DEF IInv, TypeOK, EmittedInv, Pending, BoundInv, StartEphemeral, NoEvent
<1>9. QED BY <1>1, <1>2, <1>3, <1>4, <1>5, <1>6, <1>7, <1>8 DEF IInv

\* The snapshot holds registered subscribers only.
LEMMA FanoutSnapshotStep ==
  ASSUME IInv, NEW p \in Publishers, FanoutSnapshot(p)
  PROVE  IInv'
<1> USE DEF rowVars, pubVars, subVars, ghosts
<1>1. /\ subs \in SUBSET Subscribers
      /\ \A s \in subs : Pending(p, s)
      /\ GoOnWith(p, subs)
      /\ log' = log
  BY DEF IInv, TypeOK, Pending, FanoutSnapshot
<1>2. /\ targets' = [targets EXCEPT ![p] = subs]
      /\ targets' \in [Publishers -> SUBSET Subscribers]
      /\ at' \in [Publishers -> Subscribers \cup {NoSub}]
      /\ pc' \in [Publishers -> {"idle", "appended", "sending"}]
      /\ cur' \in [Publishers -> Event]
      /\ \A q \in Publishers : cur'[q] = cur[q] \/ cur'[q].seq = 0
      /\ \A q \in Publishers, s \in Subscribers : Pending(q, s)' => Pending(q, s)
      /\ PublisherInv'
  BY <1>1, GoOnFacts DEF IInv
<1>3. TypeOK'
  BY <1>2 DEF IInv, TypeOK, FanoutSnapshot
<1>4. FreshInv'
  BY <1>2 DEF IInv, TypeOK, FreshInv, PublisherInv, FanoutSnapshot
<1>5. BoundInv' /\ ReplayInv'
  BY DEF IInv, BoundInv, ReplayInv, FanoutSnapshot
<1>6. ChannelInv' /\ HeldInv' /\ EmittedInv'
  BY <1>2, QuietStep DEF IInv, FanoutSnapshot
<1>7. QED BY <1>2, <1>3, <1>4, <1>5, <1>6 DEF IInv

\* Skipping a subscriber leaves the others pending.
LEMMA FanoutSkipStep ==
  ASSUME IInv, NEW p \in Publishers, FanoutSkip(p)
  PROVE  IInv'
<1> USE DEF rowVars, pubVars, subVars, ghosts
<1>1. /\ (targets[p] \ {at[p]}) \in SUBSET Subscribers
      /\ \A s \in (targets[p] \ {at[p]}) : Pending(p, s)
      /\ GoOnWith(p, (targets[p] \ {at[p]}))
      /\ log' = log
  BY DEF IInv, TypeOK, Pending, FanoutSkip
<1>2. /\ targets' = [targets EXCEPT ![p] = (targets[p] \ {at[p]})]
      /\ targets' \in [Publishers -> SUBSET Subscribers]
      /\ at' \in [Publishers -> Subscribers \cup {NoSub}]
      /\ pc' \in [Publishers -> {"idle", "appended", "sending"}]
      /\ cur' \in [Publishers -> Event]
      /\ \A q \in Publishers : cur'[q] = cur[q] \/ cur'[q].seq = 0
      /\ \A q \in Publishers, s \in Subscribers : Pending(q, s)' => Pending(q, s)
      /\ PublisherInv'
  BY <1>1, GoOnFacts DEF IInv
<1>3. TypeOK'
  BY <1>2 DEF IInv, TypeOK, FanoutSkip
<1>4. FreshInv'
  BY <1>2 DEF IInv, TypeOK, FreshInv, PublisherInv, FanoutSkip
<1>5. BoundInv' /\ ReplayInv'
  BY DEF IInv, BoundInv, ReplayInv, FanoutSkip
<1>6. ChannelInv' /\ HeldInv' /\ EmittedInv'
  BY <1>2, QuietStep DEF IInv, FanoutSkip
<1>7. QED BY <1>2, <1>3, <1>4, <1>5, <1>6 DEF IInv

\* Nothing moves when a subscription is checked.
LEMMA SubscribeCheckStep ==
  ASSUME IInv, NEW s \in Subscribers, SubscribeCheck(s)
  PROVE  IInv'
<1> USE DEF rowVars, pubVars, subVars, ghosts
<1>1. TypeOK'
  BY DEF IInv, TypeOK, SubscribeCheck
<1>2. PublisherInv'
  BY DEF IInv, PublisherInv, SubscribeCheck
<1>3. FreshInv'
  BY DEF IInv, TypeOK, FreshInv, SubscribeCheck
<1>4. BoundInv'
  BY DEF IInv, TypeOK, BoundInv, SubscribeCheck
<1>5. ReplayInv'
  BY DEF IInv, TypeOK, ReplayInv, SubscribeCheck
<1>6. ChannelInv'
  BY DEF IInv, ChannelInv, Pending, SubscribeCheck
<1>7. HeldInv'
  <2>1. UNCHANGED <<held, ch, pc, cur, targets, emitted, maxReplayed>>
    BY DEF SubscribeCheck
  <2>2. \A x \in Subscribers : spc'[x] = "emitting" <=> spc[x] = "emitting"
    BY DEF IInv, TypeOK, SubscribeCheck
  <2>3. QED BY <2>1, <2>2 DEF IInv, HeldInv, Pending
<1>8. EmittedInv'
  BY DEF IInv, EmittedInv, Pending, SubscribeCheck
<1>9. QED BY <1>1, <1>2, <1>3, <1>4, <1>5, <1>6, <1>7, <1>8 DEF IInv

\* A registration starts with an ascending replay after its cursor.
LEMMA SubscribeRegisterStep ==
  ASSUME IInv, NEW s \in Subscribers, NEW a \in Nat, SubscribeRegister(s, a)
  PROVE  IInv'
<1> USE DEF rowVars, pubVars, subVars, ghosts
<1>0. /\ a \in Nat
      /\ SessionEventsAfter(a) \in Seq(Event)
      /\ \A i \in 1..Len(SessionEventsAfter(a)) :
           SessionEventsAfter(a)[i].seq = a + i /\ a + i <= Len(log)
  BY SnapshotFacts DEF IInv
<1>a. /\ replay'[s] = SessionEventsAfter(a) /\ after'[s] = a /\ maxReplayed'[s] = a
      /\ spc'[s] = "replaying"
      /\ \A x \in Subscribers : x # s =>
           /\ replay'[x] = replay[x] /\ after'[x] = after[x]
           /\ maxReplayed'[x] = maxReplayed[x] /\ spc'[x] = spc[x]
      /\ ch[s] = << >> /\ emitted[s] = << >> /\ held[s] = << >>
  BY DEF IInv, TypeOK, FreshInv, SubscribeRegister
<1>1. TypeOK'
  BY <1>0 DEF IInv, TypeOK, SubscribeRegister
<1>2. PublisherInv'
  BY DEF IInv, PublisherInv, SubscribeRegister
<1>3. FreshInv'
  BY DEF IInv, TypeOK, FreshInv, SubscribeRegister
<1>4. BoundInv'
  <2>1. \A i \in 1..Len(replay'[s]) : replay'[s][i].seq <= Len(log)
    BY <1>0, <1>a
  <2>2. UNCHANGED <<log, ch, held, emitted>>
    BY DEF SubscribeRegister
  <2>3. QED BY <1>a, <2>1, <2>2 DEF IInv, BoundInv
<1>5. ReplayInv'
  <2>1. ASSUME NEW i \in 1..Len(replay'[s])
        PROVE  /\ replay'[s][i].seq > a
               /\ \A j \in 1..Len(replay'[s]) : i < j => replay'[s][i].seq < replay'[s][j].seq
    BY <1>0, <1>a
  <2>2. a <= a /\ 1..Len(emitted[s]) = {}
    BY <1>0, <1>a
  <2>3. QED BY <1>a, <2>1, <2>2 DEF IInv, ReplayInv, SubscribeRegister
<1>6. ChannelInv'
  BY <1>a DEF IInv, ChannelInv, Pending, SubscribeRegister
<1>7. HeldInv'
  BY <1>a DEF IInv, HeldInv, Pending, SubscribeRegister
<1>8. EmittedInv'
  BY <1>a DEF IInv, EmittedInv, Pending, SubscribeRegister
<1>9. QED BY <1>1, <1>2, <1>3, <1>4, <1>5, <1>6, <1>7, <1>8 DEF IInv

\* The replay is over.
LEMMA ReplayEndStep ==
  ASSUME IInv, NEW s \in Subscribers, ReplayEnd(s)
  PROVE  IInv'
<1> USE DEF rowVars, pubVars, subVars, ghosts
<1>1. TypeOK'
  BY DEF IInv, TypeOK, ReplayEnd
<1>2. PublisherInv'
  BY DEF IInv, PublisherInv, ReplayEnd
<1>3. FreshInv'
  BY DEF IInv, TypeOK, FreshInv, ReplayEnd
<1>4. BoundInv'
  BY DEF IInv, TypeOK, BoundInv, ReplayEnd
<1>5. ReplayInv'
  BY DEF IInv, TypeOK, ReplayInv, ReplayEnd
<1>6. ChannelInv'
  BY DEF IInv, ChannelInv, Pending, ReplayEnd
<1>7. HeldInv'
  BY DEF IInv, TypeOK, HeldInv, Pending, ReplayEnd
<1>8. EmittedInv'
  BY DEF IInv, EmittedInv, Pending, ReplayEnd
<1>9. QED BY <1>1, <1>2, <1>3, <1>4, <1>5, <1>6, <1>7, <1>8 DEF IInv

\* A finished subscription holds nothing.
LEMMA StreamExitStep ==
  ASSUME IInv, NEW s \in Subscribers, StreamExit(s)
  PROVE  IInv'
<1> USE DEF rowVars, pubVars, subVars, ghosts
<1>1. TypeOK'
  BY DEF IInv, TypeOK, StreamExit
<1>2. PublisherInv'
  BY DEF IInv, PublisherInv, StreamExit
<1>3. FreshInv'
  BY DEF IInv, TypeOK, FreshInv, StreamExit
<1>4. BoundInv'
  BY DEF IInv, TypeOK, BoundInv, StreamExit
<1>5. ReplayInv'
  BY DEF IInv, TypeOK, ReplayInv, StreamExit
<1>6. ChannelInv'
  BY DEF IInv, ChannelInv, Pending, StreamExit
<1>7. HeldInv'
  <2>1. ASSUME NEW x \in Subscribers, x = s PROVE held'[x] = << >> /\ spc'[x] = "finished"
    BY <2>1 DEF IInv, TypeOK, StreamExit
  <2>2. ASSUME NEW x \in Subscribers, x # s PROVE held'[x] = held[x] /\ spc'[x] = spc[x]
    BY <2>2 DEF IInv, TypeOK, StreamExit
  <2>3. QED BY <2>1, <2>2 DEF IInv, HeldInv, Pending, StreamExit
<1>8. EmittedInv'
  BY DEF IInv, EmittedInv, Pending, StreamExit
<1>9. QED BY <1>1, <1>2, <1>3, <1>4, <1>5, <1>6, <1>7, <1>8 DEF IInv

\* The forwarder only moves its own index.
LEMMA ForwardStep ==
  ASSUME IInv, NEW s \in Subscribers, Forward(s)
  PROVE  IInv'
<1> USE DEF rowVars, pubVars, subVars, ghosts
<1>1. TypeOK'
  <2>1. taken' \in [Subscribers -> Nat]
    BY DEF IInv, TypeOK, Forward, TakeEvent
  <2>2. QED BY <2>1 DEF IInv, TypeOK, Forward, TakeEvent
<1>2. PublisherInv'
  BY DEF IInv, PublisherInv, Forward, TakeEvent
<1>3. FreshInv'
  BY DEF IInv, TypeOK, FreshInv, Forward, TakeEvent
<1>4. BoundInv'
  BY DEF IInv, BoundInv, Forward, TakeEvent
<1>5. ReplayInv'
  BY DEF IInv, ReplayInv, Forward, TakeEvent
<1>6. ChannelInv'
  BY DEF IInv, ChannelInv, Pending, Forward, TakeEvent
<1>7. HeldInv'
  BY DEF IInv, HeldInv, Pending, Forward, TakeEvent
<1>8. EmittedInv'
  BY DEF IInv, EmittedInv, Pending, Forward, TakeEvent
<1>9. QED BY <1>1, <1>2, <1>3, <1>4, <1>5, <1>6, <1>7, <1>8 DEF IInv

\* Unregistering takes nothing away from the stream.
LEMMA CleanupStep ==
  ASSUME IInv, NEW s \in Subscribers, Cleanup(s)
  PROVE  IInv'
<1> USE DEF rowVars, pubVars, subVars, ghosts
<1>1. TypeOK'
  BY DEF IInv, TypeOK, Cleanup
<1>2. PublisherInv'
  BY DEF IInv, PublisherInv, Cleanup
<1>3. FreshInv'
  BY DEF IInv, TypeOK, FreshInv, Cleanup
<1>4. BoundInv'
  BY DEF IInv, BoundInv, Cleanup
<1>5. ReplayInv'
  BY DEF IInv, ReplayInv, Cleanup
<1>6. ChannelInv'
  BY DEF IInv, ChannelInv, Pending, Cleanup
<1>7. HeldInv'
  BY DEF IInv, HeldInv, Pending, Cleanup
<1>8. EmittedInv'
  BY DEF IInv, EmittedInv, Pending, Cleanup
<1>9. QED BY <1>1, <1>2, <1>3, <1>4, <1>5, <1>6, <1>7, <1>8 DEF IInv

\* A cancelled context moves nothing.
LEMMA ContextEndsStep ==
  ASSUME IInv, NEW s \in Subscribers, ContextEnds(s)
  PROVE  IInv'
<1> USE DEF rowVars, pubVars, subVars, ghosts
<1>1. TypeOK'
  BY DEF IInv, TypeOK, ContextEnds
<1>2. PublisherInv'
  BY DEF IInv, PublisherInv, ContextEnds
<1>3. FreshInv'
  BY DEF IInv, TypeOK, FreshInv, ContextEnds
<1>4. BoundInv'
  BY DEF IInv, BoundInv, ContextEnds
<1>5. ReplayInv'
  BY DEF IInv, ReplayInv, ContextEnds
<1>6. ChannelInv'
  BY DEF IInv, ChannelInv, Pending, ContextEnds
<1>7. HeldInv'
  BY DEF IInv, HeldInv, Pending, ContextEnds
<1>8. EmittedInv'
  BY DEF IInv, EmittedInv, Pending, ContextEnds
<1>9. QED BY <1>1, <1>2, <1>3, <1>4, <1>5, <1>6, <1>7, <1>8 DEF IInv

\* The rows go; what is in flight stays.
LEMMA DeleteRowStep ==
  ASSUME IInv, DeleteRow
  PROVE  IInv'
<1> USE DEF rowVars, pubVars, subVars, ghosts
<1>1. TypeOK'
  BY DEF IInv, TypeOK, DeleteRow
<1>2. PublisherInv'
  BY DEF IInv, PublisherInv, DeleteRow
<1>3. FreshInv'
  BY DEF IInv, TypeOK, FreshInv, DeleteRow
<1>4. BoundInv'
  BY DEF IInv, BoundInv, DeleteRow
<1>5. ReplayInv'
  BY DEF IInv, ReplayInv, DeleteRow
<1>6. ChannelInv'
  BY DEF IInv, ChannelInv, Pending, DeleteRow
<1>7. HeldInv'
  BY DEF IInv, HeldInv, Pending, DeleteRow
<1>8. EmittedInv'
  BY DEF IInv, EmittedInv, Pending, DeleteRow
<1>9. QED BY <1>1, <1>2, <1>3, <1>4, <1>5, <1>6, <1>7, <1>8 DEF IInv

\* Closing done moves no event.
LEMMA DropSubscribersStep ==
  ASSUME IInv, DropSubscribers
  PROVE  IInv'
<1> USE DEF rowVars, pubVars, subVars, ghosts
<1>1. TypeOK'
  BY DEF IInv, TypeOK, DropSubscribers
<1>2. PublisherInv'
  BY DEF IInv, PublisherInv, DropSubscribers
<1>3. FreshInv'
  BY DEF IInv, TypeOK, FreshInv, DropSubscribers
<1>4. BoundInv'
  BY DEF IInv, BoundInv, DropSubscribers
<1>5. ReplayInv'
  BY DEF IInv, ReplayInv, DropSubscribers
<1>6. ChannelInv'
  BY DEF IInv, ChannelInv, Pending, DropSubscribers
<1>7. HeldInv'
  BY DEF IInv, HeldInv, Pending, DropSubscribers
<1>8. EmittedInv'
  BY DEF IInv, EmittedInv, Pending, DropSubscribers
<1>9. QED BY <1>1, <1>2, <1>3, <1>4, <1>5, <1>6, <1>7, <1>8 DEF IInv

\* Skipping a retired row shortens the replay.
LEMMA ReplaySkipStep ==
  ASSUME IInv, NEW s \in Subscribers, ReplaySkip(s)
  PROVE  IInv'
<1> USE DEF rowVars, pubVars, subVars, ghosts
<1>1. /\ replay[s] \in Seq(Event) /\ replay[s] # << >>
      /\ replay' = [replay EXCEPT ![s] = Tail(replay[s])]
  BY DEF IInv, TypeOK, ReplaySkip
<1>2. /\ Tail(replay[s]) \in Seq(Event)
      /\ \A i \in 1..Len(Tail(replay[s])) :
           Tail(replay[s])[i] = replay[s][i + 1] /\ i + 1 \in 1..Len(replay[s])
  BY <1>1, TailFacts
<1>3. TypeOK'
  <2>1. replay' \in [Subscribers -> Seq(Event)]
    BY <1>1, <1>2 DEF IInv, TypeOK
  <2>2. QED BY <2>1 DEF IInv, TypeOK, ReplaySkip
<1>4. PublisherInv'
  BY DEF IInv, PublisherInv, ReplaySkip
<1>5. FreshInv'
  BY <1>1 DEF IInv, TypeOK, FreshInv, ReplaySkip
<1>0. replay'[s] = Tail(replay[s]) /\ \A x \in Subscribers : x # s => replay'[x] = replay[x]
  BY <1>1 DEF IInv, TypeOK
<1>6. BoundInv'
  <2>1. \A i \in 1..Len(replay'[s]) : replay'[s][i].seq <= Len(log)
    BY <1>0, <1>2 DEF IInv, BoundInv
  <2>2. QED BY <1>0, <2>1 DEF IInv, BoundInv, ReplaySkip
<1>7. ReplayInv'
  <2>1. Ascending(Tail(replay[s]))
    BY <1>1, TailAscending DEF IInv, ReplayInv, Ascending
  <2>2. \A i, j \in 1..Len(replay'[s]) : i < j => replay'[s][i].seq < replay'[s][j].seq
    BY <1>0, <2>1 DEF Ascending
  <2>3. ASSUME NEW i \in 1..Len(replay'[s])
        PROVE  /\ replay'[s][i].seq > after[s]
               /\ \A j \in 1..Len(emitted[s]) : emitted[s][j].seq < replay'[s][i].seq
    BY <1>0, <1>2 DEF IInv, ReplayInv
  <2>4. spc[s] = "replaying" /\ UNCHANGED <<after, maxReplayed, spc, emitted>>
    BY DEF ReplaySkip
  <2>5. QED BY <1>0, <2>2, <2>3, <2>4 DEF IInv, ReplayInv
<1>8. ChannelInv' /\ HeldInv' /\ EmittedInv'
  BY QuietStep DEF IInv, Pending, ReplaySkip
<1>9. QED BY <1>3, <1>4, <1>5, <1>6, <1>7, <1>8 DEF IInv

\* A replayed row goes out after everything before it, and raises the mark so
\* that it is not emitted again.
LEMMA ReplayEmitStep ==
  ASSUME IInv, NEW s \in Subscribers, ReplayEmit(s)
  PROVE  IInv'
<1> USE DEF rowVars, pubVars, subVars, ghosts
<1> DEFINE e == Head(replay[s])
<1>1. /\ replay[s] \in Seq(Event) /\ replay[s] # << >> /\ emitted[s] \in Seq(Event)
      /\ replay' = [replay EXCEPT ![s] = Tail(replay[s])]
      /\ emitted' = [emitted EXCEPT ![s] = Append(emitted[s], e)]
  BY DEF IInv, TypeOK, ReplayEmit
<1>2. /\ e = replay[s][1] /\ e \in Event /\ 1 \in 1..Len(replay[s])
      /\ Tail(replay[s]) \in Seq(Event)
      /\ \A i \in 1..Len(Tail(replay[s])) :
           /\ Tail(replay[s])[i] = replay[s][i + 1]
           /\ i + 1 \in 1..Len(replay[s]) /\ i \in Nat \ {0}
  BY <1>1, TailFacts
<1>3. /\ Append(emitted[s], e) \in Seq(Event)
      /\ Len(emitted[s]) \in Nat
      /\ Len(Append(emitted[s], e)) = Len(emitted[s]) + 1
      /\ Append(emitted[s], e)[Len(emitted[s]) + 1] = e
      /\ \A i \in 1..Len(emitted[s]) : Append(emitted[s], e)[i] = emitted[s][i]
      /\ \A i \in 1..Len(Append(emitted[s], e)) : i \in 1..Len(emitted[s]) \/ i = Len(emitted[s]) + 1
  BY <1>1, <1>2, AppendFacts
<1>4. /\ e.seq \in Nat
      /\ maxReplayed'[s] \in Nat
      /\ maxReplayed'[s] >= maxReplayed[s]
      /\ maxReplayed'[s] >= e.seq
      /\ maxReplayed' = [maxReplayed EXCEPT ![s] = maxReplayed'[s]]
  BY <1>2 DEF IInv, TypeOK, ReplayEmit, Event
<1>5. /\ e.seq > after[s] /\ e.seq <= Len(log)
      /\ \A j \in 1..Len(emitted[s]) : emitted[s][j].seq < e.seq
      /\ \A i \in 1..Len(Tail(replay[s])) : e.seq < Tail(replay[s])[i].seq
  BY <1>1, <1>2 DEF IInv, ReplayInv, BoundInv
<1>6. spc[s] = "replaying" /\ held[s] = << >>
  BY DEF IInv, TypeOK, HeldInv, ReplayEmit
<1>7. TypeOK'
  <2>1. replay' \in [Subscribers -> Seq(Event)] /\ emitted' \in [Subscribers -> Seq(Event)]
    BY <1>1, <1>2, <1>3 DEF IInv, TypeOK
  <2>2. maxReplayed' \in [Subscribers -> Nat]
    BY <1>4 DEF IInv, TypeOK
  <2>3. QED BY <2>1, <2>2 DEF IInv, TypeOK, ReplayEmit
<1>8. PublisherInv'
  BY DEF IInv, PublisherInv, ReplayEmit
<1>9. FreshInv'
  BY <1>1, <1>6 DEF IInv, TypeOK, FreshInv, ReplayEmit
<1>10. BoundInv'
  <2>1. \A x \in Subscribers : x # s => replay'[x] = replay[x] /\ emitted'[x] = emitted[x]
    BY <1>1 DEF IInv, TypeOK
  <2>2. \A i \in 1..Len(replay'[s]) : replay'[s][i].seq <= Len(log)
    BY <1>1, <1>2 DEF IInv, TypeOK, BoundInv
  <2>3. \A i \in 1..Len(emitted'[s]) : emitted'[s][i].seq <= Len(log)
    BY <1>1, <1>3, <1>5 DEF IInv, TypeOK, BoundInv
  <2>4. QED BY <2>1, <2>2, <2>3 DEF IInv, BoundInv, ReplayEmit
<1>11. ReplayInv'
  <2>1. \A x \in Subscribers : x # s =>
          replay'[x] = replay[x] /\ emitted'[x] = emitted[x] /\ maxReplayed'[x] = maxReplayed[x]
    BY <1>1, <1>4 DEF IInv, TypeOK
  <2>2. after[s] <= maxReplayed'[s]
    BY <1>4 DEF IInv, TypeOK, ReplayInv
  <2>3. ASSUME NEW i \in 1..Len(replay'[s])
        PROVE  /\ replay'[s][i].seq > after[s]
               /\ \A j \in 1..Len(replay'[s]) : i < j => replay'[s][i].seq < replay'[s][j].seq
    <3>1. Ascending(Tail(replay[s]))
      BY <1>1, TailAscending DEF IInv, ReplayInv, Ascending
    <3>2. replay'[s] = Tail(replay[s])
      BY <1>1 DEF IInv, TypeOK
    <3>3. QED BY <1>2, <3>1, <3>2 DEF IInv, ReplayInv, Ascending
  <2>4. ASSUME NEW i \in 1..Len(replay'[s]), NEW j \in 1..Len(emitted'[s])
        PROVE  emitted'[s][j].seq < replay'[s][i].seq
    <3>1. e.seq < replay'[s][i].seq /\ i \in 1..Len(Tail(replay[s])) /\ replay'[s] = Tail(replay[s])
      BY <1>1, <1>5 DEF IInv, TypeOK
    <3>2. emitted'[s] = Append(emitted[s], e)
      BY <1>1 DEF IInv, TypeOK
    <3>3. CASE j = Len(emitted[s]) + 1
      BY <1>3, <3>1, <3>2, <3>3
    <3>4. CASE j \in 1..Len(emitted[s])
      BY <1>2, <1>3, <3>1, <3>2, <3>4 DEF IInv, ReplayInv
    <3>5. QED BY <1>3, <3>2, <3>3, <3>4
  <2>5. spc[s] = "replaying" /\ UNCHANGED <<after, spc>>
    BY <1>6 DEF ReplayEmit
  <2>6. QED BY <2>1, <2>2, <2>3, <2>4, <2>5 DEF IInv, ReplayInv
<1>12. ChannelInv'
  <2> SUFFICES ASSUME NEW x \in Subscribers, NEW i \in 1..Len(ch[x]), ch[x][i].seq > 0,
                      NEW j \in 1..Len(emitted'[x]), emitted'[x][j].seq = ch[x][i].seq
               PROVE  ch[x][i].seq <= maxReplayed'[x]
    BY DEF IInv, ChannelInv, Pending, ReplayEmit
  <2>1. CASE x # s
    BY <1>1, <1>4, <2>1 DEF IInv, TypeOK, ChannelInv
  <2>2. CASE x = s /\ j = Len(emitted[s]) + 1
    BY <1>1, <1>3, <1>4, <2>2 DEF IInv, TypeOK
  <2>3. CASE x = s /\ j \in 1..Len(emitted[s])
    <3>1. emitted'[s][j] = emitted[s][j]
      BY <1>1, <1>3, <2>3 DEF IInv, TypeOK
    <3>2. ch[s][i].seq <= maxReplayed[s]
      BY <2>3, <3>1 DEF IInv, ChannelInv
    <3>3. ch[s][i].seq \in Nat /\ maxReplayed[s] \in Nat
      <4>1. ch[s] \in Seq(Event) /\ i \in 1..Len(ch[s])
        BY <2>3 DEF IInv, TypeOK
      <4>2. ch[s][i] \in Event
        BY <4>1
      <4>3. QED BY <4>2 DEF IInv, TypeOK, Event
    <3>4. QED BY <1>4, <2>3, <3>2, <3>3
  <2>4. emitted'[s] = Append(emitted[s], e)
    BY <1>1 DEF IInv, TypeOK
  <2>5. QED BY <1>3, <2>1, <2>2, <2>3, <2>4
<1>13. HeldInv'
  <2>1. \A x \in Subscribers : x # s => emitted'[x] = emitted[x] /\ maxReplayed'[x] = maxReplayed[x]
    BY <1>1, <1>4 DEF IInv, TypeOK
  <2>2. QED BY <1>6, <2>1 DEF IInv, HeldInv, Pending, ReplayEmit
<1>14. EmittedInv'
  <2>1. \A x \in Subscribers : x # s => emitted'[x] = emitted[x] /\ maxReplayed'[x] = maxReplayed[x]
    BY <1>1, <1>4 DEF IInv, TypeOK
  <2>2. emitted'[s] = Append(emitted[s], e)
    BY <1>1 DEF IInv, TypeOK
  <2>3. \A i \in 1..Len(emitted'[s]) : emitted'[s][i].seq > 0 => emitted'[s][i].seq > after[s]
    BY <1>3, <1>5, <2>2 DEF IInv, EmittedInv
  <2>4. \A i, j \in 1..Len(emitted'[s]) :
          emitted'[s][i].seq > 0 /\ emitted'[s][i].seq = emitted'[s][j].seq => i = j
    <3>1. \A i \in 1..Len(emitted[s]) : emitted[s][i].seq # e.seq
      BY <1>1, <1>4, <1>5 DEF Event
    <3>2. QED BY <1>3, <2>2, <3>1 DEF IInv, EmittedInv
  <2>5. ASSUME NEW i \in 1..Len(emitted'[s]), emitted'[s][i].seq > 0,
               NEW p \in Publishers, Pending(p, s), cur[p].seq = emitted'[s][i].seq
        PROVE  cur[p].seq <= maxReplayed'[s]
    <3>1. CASE i = Len(emitted[s]) + 1
      BY <1>3, <1>4, <2>2, <2>5, <3>1
    <3>2. CASE i \in 1..Len(emitted[s])
      <4>1. cur[p].seq <= maxReplayed[s]
        BY <1>3, <2>2, <2>5, <3>2 DEF IInv, EmittedInv
      <4>2. cur[p].seq \in Nat /\ maxReplayed[s] \in Nat
        BY DEF IInv, TypeOK, Event
      <4>3. QED BY <1>4, <4>1, <4>2
    <3>3. QED BY <1>3, <2>2, <3>1, <3>2
  <2>6. QED BY <2>1, <2>3, <2>4, <2>5 DEF IInv, EmittedInv, Pending, ReplayEmit
<1>15. QED BY <1>7, <1>8, <1>9, <1>10, <1>11, <1>12, <1>13, <1>14 DEF IInv

\* Taking the oldest event off a channel leaves a part of what was there.
LEMMA ChannelTail ==
  ASSUME TypeOK, NEW s \in Subscribers, ch[s] # << >>,
         ch' = [ch EXCEPT ![s] = Tail(ch[s])]
  PROVE  /\ ch' \in [Subscribers -> Seq(Event)]
         /\ \A x \in Subscribers : x # s => ch'[x] = ch[x]
         /\ ch'[s] = Tail(ch[s])
         /\ Head(ch[s]) = ch[s][1] /\ Head(ch[s]) \in Event /\ 1 \in 1..Len(ch[s])
         /\ \A i \in 1..Len(ch'[s]) :
              ch'[s][i] = ch[s][i + 1] /\ i + 1 \in 1..Len(ch[s]) /\ i + 1 # 1
<1>1. ch[s] \in Seq(Event)
  BY DEF TypeOK
<1>2. /\ Head(ch[s]) = ch[s][1] /\ Head(ch[s]) \in Event /\ 1 \in 1..Len(ch[s])
      /\ Tail(ch[s]) \in Seq(Event)
      /\ \A i \in 1..Len(Tail(ch[s])) :
           Tail(ch[s])[i] = ch[s][i + 1] /\ i + 1 \in 1..Len(ch[s]) /\ i + 1 # 1
  BY <1>1, TailFacts
<1>3. QED BY <1>2 DEF TypeOK

\* ... and keeps its events distinct and distinct from what is pending.
LEMMA ChannelTailInv ==
  ASSUME TypeOK, ChannelInv, NEW s \in Subscribers, ch[s] # << >>,
         ch' = [ch EXCEPT ![s] = Tail(ch[s])],
         UNCHANGED <<emitted, maxReplayed, cur, pc, targets>>
  PROVE  ChannelInv'
<1> SUFFICES ASSUME NEW x \in Subscribers, NEW i \in 1..Len(ch'[x]), ch'[x][i].seq > 0
             PROVE  /\ \A j \in 1..Len(ch'[x]) : i # j => ch'[x][i].seq # ch'[x][j].seq
                    /\ \A p \in Publishers : Pending(p, x) => cur[p].seq # ch'[x][i].seq
                    /\ \A j \in 1..Len(emitted[x]) :
                         emitted[x][j].seq = ch'[x][i].seq => ch'[x][i].seq <= maxReplayed[x]
  BY DEF ChannelInv, Pending
<1>1. CASE x # s
  <2>1. ch'[x] = ch[x] BY <1>1 DEF TypeOK
  <2>2. QED BY <2>1 DEF ChannelInv
<1>2. CASE x = s
  <2>1. \A k \in 1..Len(ch'[s]) : ch'[s][k] = ch[s][k + 1] /\ k + 1 \in 1..Len(ch[s])
    BY ChannelTail
  <2>2. ch'[s][i] = ch[s][i + 1] /\ i + 1 \in 1..Len(ch[s]) /\ ch[s][i + 1].seq > 0
    BY <1>2, <2>1
  <2>3. \A j \in 1..Len(ch'[s]) : i # j => i + 1 # j + 1
    BY <1>2, ChannelTail
  <2>4. ASSUME NEW j \in 1..Len(ch'[s]), i # j PROVE ch'[s][i].seq # ch'[s][j].seq
    <3>1. ch'[s][j] = ch[s][j + 1] /\ j + 1 \in 1..Len(ch[s]) /\ i + 1 # j + 1
      BY <2>1, <2>3, <2>4
    <3>2. QED BY <2>2, <3>1 DEF ChannelInv
  <2>5. QED BY <1>2, <2>2, <2>4 DEF ChannelInv
<1>3. QED BY <1>1, <1>2

LEMMA LiveDropStep ==
  ASSUME IInv, NEW s \in Subscribers, LiveDrop(s)
  PROVE  IInv'
<1> USE DEF rowVars, pubVars, subVars, ghosts
<1>1. ch[s] # << >> /\ ch' = [ch EXCEPT ![s] = Tail(ch[s])]
  BY DEF LiveDrop
<1>2. /\ ch' \in [Subscribers -> Seq(Event)]
      /\ \A x \in Subscribers : x # s => ch'[x] = ch[x]
      /\ \A i \in 1..Len(ch'[s]) : ch'[s][i] = ch[s][i + 1] /\ i + 1 \in 1..Len(ch[s])
  BY <1>1, ChannelTail DEF IInv
<1>3. TypeOK' /\ PublisherInv'
  BY <1>2 DEF IInv, TypeOK, PublisherInv, LiveDrop
<1>4. FreshInv'
  BY <1>1, <1>2 DEF IInv, FreshInv, LiveDrop
<1>5. BoundInv'
  BY <1>2 DEF IInv, BoundInv, LiveDrop
<1>6. ReplayInv' /\ EmittedInv'
  BY DEF IInv, ReplayInv, EmittedInv, Pending, LiveDrop
<1>7. ChannelInv'
  BY <1>1, ChannelTailInv DEF IInv, LiveDrop
<1>8. HeldInv'
  <2>1. spc[s] = "live" /\ Len(held[s]) = 0
    BY DEF IInv, HeldInv, LiveDrop
  <2>2. QED BY <1>2, <2>1 DEF IInv, HeldInv, Pending, LiveDrop
<1>9. QED BY <1>3, <1>4, <1>5, <1>6, <1>7, <1>8 DEF IInv

\* A live event the mark lets through was not emitted, and is nowhere else.
LEMMA LiveReceiveStep ==
  ASSUME IInv, NEW s \in Subscribers, LiveReceive(s)
  PROVE  IInv'
<1> USE DEF rowVars, pubVars, subVars, ghosts
<1> DEFINE e == Head(ch[s])
<1>1. /\ ch[s] # << >> /\ ch' = [ch EXCEPT ![s] = Tail(ch[s])]
      /\ held' = [held EXCEPT ![s] = <<e>>]
      /\ spc' = [spc EXCEPT ![s] = "emitting"]
      /\ spc[s] = "live"
  BY DEF LiveReceive
<1>2. /\ ch' \in [Subscribers -> Seq(Event)]
      /\ \A x \in Subscribers : x # s => ch'[x] = ch[x]
      /\ e = ch[s][1] /\ e \in Event /\ 1 \in 1..Len(ch[s])
      /\ \A i \in 1..Len(ch'[s]) :
           ch'[s][i] = ch[s][i + 1] /\ i + 1 \in 1..Len(ch[s]) /\ i + 1 # 1
  BY <1>1, ChannelTail DEF IInv
<1>3. /\ held'[s] = <<e>> /\ Len(held'[s]) = 1 /\ held'[s][1] = e
      /\ \A x \in Subscribers : x # s => held'[x] = held[x] /\ spc'[x] = spc[x]
      /\ spc'[s] = "emitting"
      /\ held' \in [Subscribers -> Seq(Event)]
  BY <1>1, <1>2 DEF IInv, TypeOK
<1>4. TypeOK'
  <2>1. spc' \in [Subscribers -> {"idle", "checked", "replaying", "live", "emitting", "finished"}]
    BY <1>1 DEF IInv, TypeOK
  <2>2. QED BY <1>2, <1>3, <2>1 DEF IInv, TypeOK, LiveReceive
<1>5. PublisherInv'
  BY DEF IInv, PublisherInv, LiveReceive
<1>6. FreshInv'
  BY <1>1, <1>2, <1>3 DEF IInv, FreshInv, LiveReceive
<1>7. BoundInv'
  <2>1. \A i \in 1..Len(held'[s]) : held'[s][i].seq <= Len(log)
    BY <1>2, <1>3 DEF IInv, BoundInv
  <2>2. \A i \in 1..Len(ch'[s]) : ch'[s][i].seq <= Len(log)
    BY <1>2 DEF IInv, BoundInv
  <2>3. UNCHANGED <<replay, emitted, log>>
    BY DEF LiveReceive
  <2>4. ASSUME NEW x \in Subscribers
        PROVE  /\ \A i \in 1..Len(ch'[x]) : ch'[x][i].seq <= Len(log)
               /\ \A i \in 1..Len(held'[x]) : held'[x][i].seq <= Len(log)
    <3>1. CASE x = s
      BY <2>1, <2>2, <3>1
    <3>2. CASE x # s
      BY <1>2, <1>3, <3>2 DEF IInv, BoundInv
    <3>3. QED BY <3>1, <3>2
  <2>5. QED BY <2>3, <2>4 DEF IInv, BoundInv
<1>8. ReplayInv'
  <2>1. \A x \in Subscribers : spc'[x] # "replaying" <=> spc[x] # "replaying"
    BY <1>1, <1>3
  <2>2. QED BY <2>1 DEF IInv, ReplayInv, LiveReceive
<1>9. EmittedInv'
  BY DEF IInv, EmittedInv, Pending, LiveReceive
<1>10. ChannelInv'
  BY <1>1, ChannelTailInv DEF IInv, LiveReceive
<1>11. HeldInv'
  <2>1. ASSUME e.seq > 0
        PROVE  /\ e.seq > maxReplayed[s]
               /\ \A j \in 1..Len(ch'[s]) : ch'[s][j].seq # e.seq
               /\ \A p \in Publishers : Pending(p, s) => cur[p].seq # e.seq
               /\ \A j \in 1..Len(emitted[s]) : emitted[s][j].seq # e.seq
    <3>1. e.seq > maxReplayed[s]
      BY <1>2, <2>1 DEF IInv, TypeOK, LiveReceive, AlreadyReplayed, Event
    <3>2. ~(e.seq <= maxReplayed[s])
      BY <2>1 DEF LiveReceive, AlreadyReplayed
    <3>3. /\ \A j \in 1..Len(ch[s]) : 1 # j => e.seq # ch[s][j].seq
          /\ \A p \in Publishers : Pending(p, s) => cur[p].seq # e.seq
          /\ \A j \in 1..Len(emitted[s]) : emitted[s][j].seq = e.seq => e.seq <= maxReplayed[s]
      BY <1>2, <2>1 DEF IInv, ChannelInv
    <3>4. \A j \in 1..Len(ch'[s]) : ch'[s][j].seq # e.seq
      BY <1>2, <3>3
    <3>5. QED BY <3>1, <3>2, <3>3, <3>4
  <2>2. \A i \in 1..Len(held'[s]) : held'[s][i] = e
    BY <1>3
  <2>3. UNCHANGED <<maxReplayed, emitted, cur, pc, targets>>
    BY DEF LiveReceive
  <2>4. ASSUME NEW x \in Subscribers, x # s
        PROVE  /\ Len(held'[x]) = IF spc'[x] = "emitting" THEN 1 ELSE 0
               /\ \A i \in 1..Len(held'[x]) : held'[x][i].seq > 0 =>
                    /\ held'[x][i].seq > maxReplayed[x]
                    /\ \A j \in 1..Len(ch'[x]) : ch'[x][j].seq # held'[x][i].seq
                    /\ \A p \in Publishers : Pending(p, x) => cur[p].seq # held'[x][i].seq
                    /\ \A j \in 1..Len(emitted[x]) : emitted[x][j].seq # held'[x][i].seq
    <3>1. held'[x] = held[x] /\ spc'[x] = spc[x] /\ ch'[x] = ch[x]
      BY <1>2, <1>3, <2>4
    <3>2. QED BY <3>1 DEF IInv, HeldInv
  <2>5. QED BY <1>3, <2>1, <2>2, <2>3, <2>4 DEF HeldInv, Pending
<1>12. QED BY <1>4, <1>5, <1>6, <1>7, <1>8, <1>9, <1>10, <1>11 DEF IInv

\* The event in hand goes out for the first time.
LEMMA LiveEmitStep ==
  ASSUME IInv, NEW s \in Subscribers, LiveEmit(s)
  PROVE  IInv'
<1> USE DEF rowVars, pubVars, subVars, ghosts
<1> DEFINE e == Head(held[s])
<1>1. /\ held[s] \in Seq(Event) /\ Len(held[s]) = 1 /\ spc[s] = "emitting"
      /\ emitted[s] \in Seq(Event)
      /\ emitted' = [emitted EXCEPT ![s] = Append(emitted[s], e)]
      /\ held' = [held EXCEPT ![s] = << >>]
      /\ spc' = [spc EXCEPT ![s] = "live"]
  BY DEF IInv, TypeOK, HeldInv, LiveEmit
<1>2. e = held[s][1] /\ e \in Event /\ 1 \in 1..Len(held[s]) /\ e.seq \in Nat
  <2>1. held[s] # << >> BY <1>1
  <2>2. e = held[s][1] /\ e \in Event BY <1>1, <2>1, TailFacts
  <2>3. QED BY <1>1, <2>2 DEF Event
<1>3. /\ Append(emitted[s], e) \in Seq(Event)
      /\ Len(emitted[s]) \in Nat
      /\ Len(Append(emitted[s], e)) = Len(emitted[s]) + 1
      /\ Append(emitted[s], e)[Len(emitted[s]) + 1] = e
      /\ \A i \in 1..Len(emitted[s]) : Append(emitted[s], e)[i] = emitted[s][i]
      /\ \A i \in 1..Len(Append(emitted[s], e)) : i \in 1..Len(emitted[s]) \/ i = Len(emitted[s]) + 1
  BY <1>1, <1>2, AppendFacts
<1>4. /\ emitted'[s] = Append(emitted[s], e) /\ held'[s] = << >> /\ spc'[s] = "live"
      /\ \A x \in Subscribers : x # s =>
           emitted'[x] = emitted[x] /\ held'[x] = held[x] /\ spc'[x] = spc[x]
  BY <1>1 DEF IInv, TypeOK
<1>5. /\ e.seq <= Len(log)
      /\ e.seq > 0 =>
           /\ e.seq > after[s]
           /\ \A j \in 1..Len(ch[s]) : ch[s][j].seq # e.seq
           /\ \A p \in Publishers : Pending(p, s) => cur[p].seq # e.seq
           /\ \A j \in 1..Len(emitted[s]) : emitted[s][j].seq # e.seq
  <2>1. after[s] \in Nat /\ maxReplayed[s] \in Nat /\ after[s] <= maxReplayed[s]
    BY DEF IInv, TypeOK, ReplayInv
  <2>2. e.seq <= Len(log)
    BY <1>2 DEF IInv, BoundInv
  <2>3. e.seq > 0 =>
          /\ e.seq > maxReplayed[s]
          /\ \A j \in 1..Len(ch[s]) : ch[s][j].seq # e.seq
          /\ \A p \in Publishers : Pending(p, s) => cur[p].seq # e.seq
          /\ \A j \in 1..Len(emitted[s]) : emitted[s][j].seq # e.seq
    BY <1>2 DEF IInv, HeldInv
  <2>4. QED BY <1>2, <2>1, <2>2, <2>3
<1>6. TypeOK'
  BY <1>1, <1>3 DEF IInv, TypeOK, LiveEmit
<1>7. PublisherInv'
  BY DEF IInv, PublisherInv, LiveEmit
<1>8. FreshInv'
  BY <1>1, <1>4 DEF IInv, FreshInv, LiveEmit
<1>9. BoundInv'
  <2>1. \A i \in 1..Len(emitted'[s]) : emitted'[s][i].seq <= Len(log)
    BY <1>3, <1>4, <1>5 DEF IInv, BoundInv
  <2>2. \A i \in 1..Len(held'[s]) : held'[s][i].seq <= Len(log)
    BY <1>4
  <2>3. QED BY <1>4, <2>1, <2>2 DEF IInv, BoundInv, LiveEmit
<1>10. ReplayInv'
  <2>1. replay[s] = << >>
    BY <1>1 DEF IInv, ReplayInv
  <2>2. \A x \in Subscribers : spc'[x] # "replaying" <=> spc[x] # "replaying"
    BY <1>1, <1>4
  <2>3. UNCHANGED <<after, replay, maxReplayed>>
    BY DEF LiveEmit
  <2>4. /\ \A x \in Subscribers : after[x] <= maxReplayed[x] /\ (spc'[x] # "replaying" => replay[x] = << >>)
        /\ \A x \in Subscribers : \A i, j \in 1..Len(replay[x]) : replay[x][i].seq > after[x] /\ (i < j => replay[x][i].seq < replay[x][j].seq)
    BY <2>2 DEF IInv, ReplayInv
  <2>5. ASSUME NEW x \in Subscribers, NEW i \in 1..Len(replay[x]), NEW j \in 1..Len(emitted'[x])
        PROVE  emitted'[x][j].seq < replay[x][i].seq
    <3>1. x # s
      BY <2>1
    <3>2. emitted'[x] = emitted[x]
      BY <1>4, <3>1
    <3>3. QED BY <3>2 DEF IInv, ReplayInv
  <2>6. QED BY <2>3, <2>4, <2>5 DEF ReplayInv
<1>11. ChannelInv'
  <2> SUFFICES ASSUME NEW x \in Subscribers, NEW i \in 1..Len(ch[x]), ch[x][i].seq > 0,
                      NEW j \in 1..Len(emitted'[x]), emitted'[x][j].seq = ch[x][i].seq
               PROVE  ch[x][i].seq <= maxReplayed[x]
    BY DEF IInv, ChannelInv, Pending, LiveEmit
  <2>1. CASE x # s
    BY <1>4, <2>1 DEF IInv, ChannelInv
  <2>2. CASE x = s /\ j = Len(emitted[s]) + 1
    BY <1>3, <1>4, <1>5, <2>2
  <2>3. CASE x = s /\ j \in 1..Len(emitted[s])
    <3>1. emitted[s][j].seq = ch[s][i].seq /\ i \in 1..Len(ch[s])
      BY <1>3, <1>4, <2>3
    <3>2. QED BY <2>3, <3>1 DEF IInv, ChannelInv
  <2>4. QED BY <1>3, <1>4, <2>1, <2>2, <2>3
<1>12. HeldInv'
  <2>1. Len(held'[s]) = 0 BY <1>4
  <2>2. QED BY <1>4, <2>1 DEF IInv, HeldInv, Pending, LiveEmit
<1>13. EmittedInv'
  <2>1. ASSUME NEW i \in 1..Len(emitted'[s]), emitted'[s][i].seq > 0
        PROVE  /\ emitted'[s][i].seq > after[s]
               /\ \A p \in Publishers :
                    Pending(p, s) /\ cur[p].seq = emitted'[s][i].seq => cur[p].seq <= maxReplayed[s]
    <3>1. CASE i = Len(emitted[s]) + 1
      BY <1>3, <1>4, <1>5, <2>1, <3>1
    <3>2. CASE i \in 1..Len(emitted[s])
      BY <1>3, <1>4, <2>1, <3>2 DEF IInv, EmittedInv
    <3>3. QED BY <1>3, <1>4, <3>1, <3>2
  <2>2. \A i, j \in 1..Len(emitted'[s]) :
          emitted'[s][i].seq > 0 /\ emitted'[s][i].seq = emitted'[s][j].seq => i = j
    BY <1>3, <1>4, <1>5 DEF IInv, EmittedInv
  <2>3. QED BY <1>4, <2>1, <2>2 DEF IInv, EmittedInv, Pending, LiveEmit
<1>14. QED BY <1>6, <1>7, <1>8, <1>9, <1>10, <1>11, <1>12, <1>13 DEF IInv

\* A publisher's send moves an event that was only pending onto the channel.
LEMMA FanoutSendStep ==
  ASSUME IInv, NEW p \in Publishers, FanoutSend(p)
  PROVE  IInv'
<1> USE DEF rowVars, pubVars, subVars, ghosts
<1>1. PICK s \in Subscribers :
      /\ pc[p] = "sending" /\ s = at[p] /\ s \in targets[p]
      /\ ch[s] \in Seq(Event) /\ cur[p] \in Event
      /\ ch' = [ch EXCEPT ![s] = Append(ch[s], cur[p])]
      /\ UNCHANGED <<log, held, emitted, maxReplayed, after, spc, replay, subs>>
  BY DEF IInv, TypeOK, PublisherInv, FanoutSend
<1>2. /\ (targets[p] \ {s}) \in SUBSET Subscribers
      /\ \A x \in (targets[p] \ {s}) : Pending(p, x)
      /\ GoOnWith(p, targets[p] \ {s})
  BY <1>1 DEF IInv, TypeOK, Pending, FanoutSend
<1>3. /\ targets' = [targets EXCEPT ![p] = targets[p] \ {s}]
      /\ targets' \in [Publishers -> SUBSET Subscribers]
      /\ at' \in [Publishers -> Subscribers \cup {NoSub}]
      /\ pc' \in [Publishers -> {"idle", "appended", "sending"}]
      /\ cur' \in [Publishers -> Event]
      /\ \A q \in Publishers : cur'[q] = cur[q] \/ cur'[q].seq = 0
      /\ \A q \in Publishers, x \in Subscribers : Pending(q, x)' => Pending(q, x)
      /\ PublisherInv'
  BY <1>1, <1>2, GoOnFacts DEF IInv
<1>4. pc'[p] # "appended" /\ ~Pending(p, s)'
  <2>1. pc' = [pc EXCEPT ![p] = "idle"] \/ pc' = [pc EXCEPT ![p] = "sending"]
    BY <1>2 DEF GoOnWith
  <2>2. pc'[p] # "appended"
    BY <2>1 DEF IInv, TypeOK
  <2>3. s \notin targets'[p]
    BY <1>3 DEF IInv, TypeOK
  <2>4. QED BY <2>2, <2>3 DEF Pending
<1>5. /\ Append(ch[s], cur[p]) \in Seq(Event)
      /\ Len(ch[s]) \in Nat
      /\ Len(Append(ch[s], cur[p])) = Len(ch[s]) + 1
      /\ Append(ch[s], cur[p])[Len(ch[s]) + 1] = cur[p]
      /\ \A i \in 1..Len(ch[s]) : Append(ch[s], cur[p])[i] = ch[s][i]
      /\ \A i \in 1..Len(Append(ch[s], cur[p])) : i \in 1..Len(ch[s]) \/ i = Len(ch[s]) + 1
  BY <1>1, AppendFacts
<1>6. ch'[s] = Append(ch[s], cur[p]) /\ \A x \in Subscribers : x # s => ch'[x] = ch[x]
  BY <1>1 DEF IInv, TypeOK
<1>7. /\ Pending(p, s)
      /\ cur[p].seq > 0 =>
           /\ \A i \in 1..Len(ch[s]) : ch[s][i].seq # cur[p].seq
           /\ \A i \in 1..Len(held[s]) : held[s][i].seq # cur[p].seq
           /\ \A i \in 1..Len(emitted[s]) :
                emitted[s][i].seq = cur[p].seq => cur[p].seq <= maxReplayed[s]
           /\ \A q \in Publishers : Pending(q, s)' => cur'[q].seq # cur[p].seq
  <2>1. Pending(p, s)
    BY <1>1 DEF Pending
  <2>2. ASSUME NEW q \in Publishers, Pending(q, s)', cur[p].seq > 0
        PROVE  cur'[q].seq # cur[p].seq
    <3>1. q # p BY <1>4, <2>2 DEF Pending
    <3>2. cur[p].seq # cur[q].seq BY <2>2, <3>1 DEF IInv, PublisherInv
    <3>3. QED BY <1>3, <2>2, <3>2
  <2>3. ASSUME cur[p].seq > 0
        PROVE  /\ \A i \in 1..Len(ch[s]) : ch[s][i].seq # cur[p].seq
               /\ \A i \in 1..Len(held[s]) : held[s][i].seq # cur[p].seq
               /\ \A i \in 1..Len(emitted[s]) :
                    emitted[s][i].seq = cur[p].seq => cur[p].seq <= maxReplayed[s]
    BY <1>1, <2>1, <2>3 DEF IInv, ChannelInv, HeldInv, EmittedInv
  <2>4. QED BY <2>1, <2>2, <2>3
<1>8. TypeOK'
  BY <1>1, <1>3, <1>5 DEF IInv, TypeOK, FanoutSend
<1>9. FreshInv'
  BY <1>1, <1>3, <1>6 DEF IInv, TypeOK, FreshInv
<1>10. BoundInv' /\ ReplayInv'
  <2>1. \A i \in 1..Len(ch'[s]) : ch'[s][i].seq <= Len(log)
    <3>1. cur[p].seq <= Len(log) BY DEF IInv, PublisherInv
    <3>2. \A i \in 1..Len(ch[s]) : ch[s][i].seq <= Len(log) BY <1>1 DEF IInv, BoundInv
    <3>3. QED BY <1>5, <1>6, <3>1, <3>2
  <2>2. QED BY <1>1, <1>6, <2>1 DEF IInv, BoundInv, ReplayInv
<1>11. ChannelInv'
  <2> SUFFICES ASSUME NEW x \in Subscribers, NEW i \in 1..Len(ch'[x]), ch'[x][i].seq > 0
               PROVE  /\ \A j \in 1..Len(ch'[x]) : i # j => ch'[x][i].seq # ch'[x][j].seq
                      /\ \A q \in Publishers : Pending(q, x)' => cur'[q].seq # ch'[x][i].seq
                      /\ \A j \in 1..Len(emitted[x]) :
                           emitted[x][j].seq = ch'[x][i].seq => ch'[x][i].seq <= maxReplayed[x]
    BY <1>1 DEF ChannelInv
  <2>1. CASE x # s
    <3>1. ch'[x] = ch[x] BY <1>6, <2>1
    <3>2. \A q \in Publishers : Pending(q, x) => cur[q].seq # ch[x][i].seq
      BY <3>1 DEF IInv, ChannelInv
    <3>3. \A q \in Publishers : Pending(q, x)' => cur'[q].seq # ch[x][i].seq
      BY <1>3, <3>1, <3>2
    <3>4. QED BY <3>1, <3>3 DEF IInv, ChannelInv
  <2>2. CASE x = s /\ i = Len(ch[s]) + 1
    <3>1. ch'[s][i] = cur[p] /\ cur[p].seq > 0 BY <1>5, <1>6, <2>2
    <3>2. \A j \in 1..Len(ch'[s]) : i # j => cur[p].seq # ch'[s][j].seq
      BY <1>5, <1>6, <1>7, <2>2, <3>1
    <3>3. \A q \in Publishers : Pending(q, x)' => cur'[q].seq # cur[p].seq
      BY <1>7, <2>2, <3>1 DEF Pending
    <3>4. \A j \in 1..Len(emitted[x]) :
            emitted[x][j].seq = cur[p].seq => cur[p].seq <= maxReplayed[x]
      BY <1>7, <2>2, <3>1
    <3>5. QED BY <2>2, <3>1, <3>2, <3>3, <3>4
  <2>3. CASE x = s /\ i \in 1..Len(ch[s])
    <3>1. ch'[s][i] = ch[s][i] /\ ch[s][i].seq > 0 BY <1>5, <1>6, <2>3
    <3>2. \A q \in Publishers : Pending(q, s)' => cur'[q].seq # ch[s][i].seq
      <4>1. \A q \in Publishers : Pending(q, s) => cur[q].seq # ch[s][i].seq
        BY <1>1, <2>3, <3>1 DEF IInv, ChannelInv
      <4>2. ASSUME NEW q \in Publishers, Pending(q, s)' PROVE cur'[q].seq # ch[s][i].seq
        <5>1. Pending(q, s) BY <1>1, <1>3, <4>2
        <5>2. QED BY <1>3, <3>1, <4>1, <5>1
      <4>3. QED BY <4>2
    <3>3. ASSUME NEW j \in 1..Len(ch'[s]), i # j PROVE ch'[s][i].seq # ch'[s][j].seq
      <4>1. CASE j = Len(ch[s]) + 1
        BY <1>1, <1>5, <1>6, <2>3, <3>1, <4>1, <1>7 DEF Event
      <4>2. CASE j \in 1..Len(ch[s])
        BY <1>1, <1>5, <1>6, <2>3, <3>1, <3>3, <4>2 DEF IInv, ChannelInv
      <4>3. QED BY <1>5, <1>6, <4>1, <4>2
    <3>4. \A j \in 1..Len(emitted[s]) :
            emitted[s][j].seq = ch[s][i].seq => ch[s][i].seq <= maxReplayed[s]
      BY <1>1, <2>3, <3>1 DEF IInv, ChannelInv
    <3>5. \A q \in Publishers : Pending(q, x)' => cur'[q].seq # ch'[s][i].seq
      BY <2>3, <3>1, <3>2 DEF Pending
    <3>6. QED BY <2>3, <3>1, <3>3, <3>4, <3>5
  <2>4. QED BY <1>5, <1>6, <2>1, <2>2, <2>3
<1>12. HeldInv'
  <2> SUFFICES ASSUME NEW x \in Subscribers, NEW i \in 1..Len(held[x]), held[x][i].seq > 0
               PROVE  /\ \A j \in 1..Len(ch'[x]) : ch'[x][j].seq # held[x][i].seq
                      /\ \A q \in Publishers : Pending(q, x)' => cur'[q].seq # held[x][i].seq
    BY <1>1 DEF IInv, HeldInv, Pending
  <2>1. \A q \in Publishers : Pending(q, x) => cur[q].seq # held[x][i].seq
    BY DEF IInv, HeldInv
  <2>2. \A q \in Publishers : Pending(q, x)' => cur'[q].seq # held[x][i].seq
    BY <1>3, <2>1
  <2>3. \A j \in 1..Len(ch[x]) : ch[x][j].seq # held[x][i].seq
    BY DEF IInv, HeldInv
  <2>4. CASE x # s BY <1>6, <2>2, <2>3, <2>4
  <2>5. CASE x = s
    <3>1. held[s][i].seq # cur[p].seq
      BY <1>7, <2>5 DEF Event
    <3>2. QED BY <1>5, <1>6, <2>2, <2>3, <2>5, <3>1
  <2>6. QED BY <2>4, <2>5
<1>13. EmittedInv'
  <2> SUFFICES ASSUME NEW x \in Subscribers, NEW i \in 1..Len(emitted[x]), emitted[x][i].seq > 0,
                      NEW q \in Publishers, Pending(q, x)', cur'[q].seq = emitted[x][i].seq
               PROVE  cur'[q].seq <= maxReplayed[x]
    BY <1>1 DEF IInv, EmittedInv, Pending
  <2>1. Pending(q, x) BY <1>3
  <2>2. cur'[q] = cur[q] BY <1>3
  <2>3. QED BY <2>1, <2>2 DEF IInv, EmittedInv
<1>14. QED BY <1>3, <1>8, <1>9, <1>10, <1>11, <1>12, <1>13 DEF IInv

-----------------------------------------------------------------------------
(* The theorems *)

LEMMA InitIInv == Init => IInv
<1> SUFFICES ASSUME Init PROVE IInv
  OBVIOUS
<1>1. PICK n \in 0..MaxLegacy : log \in [1..n -> {"event", "ask_question"}]
  BY DEF Init
<1>2. n \in Nat
  BY BoundsAssumption
<1>3. log \in Seq(EventTypes) /\ Len(log) \in Nat
  BY <1>1, <1>2 DEF EventTypes, PublishedTypes
<1>4. [seq |-> 0, type |-> "message_delta"] \in Event
  BY DEF Event
<1>5. TypeOK
  BY <1>3, <1>4 DEF Init, TypeOK, NoEvent
<1>6. PublisherInv
  BY <1>3 DEF Init, PublisherInv, NoEvent
<1>7. FreshInv /\ BoundInv /\ ReplayInv /\ ChannelInv /\ HeldInv /\ EmittedInv
  BY DEF Init, FreshInv, BoundInv, ReplayInv, ChannelInv, HeldInv, EmittedInv
<1>8. QED BY <1>5, <1>6, <1>7 DEF IInv

LEMMA StutterIInv == IInv /\ UNCHANGED vars => IInv'
BY DEF IInv, TypeOK, PublisherInv, FreshInv, BoundInv, ReplayInv, ChannelInv, HeldInv, EmittedInv,
       Pending, vars, rowVars, pubVars, subVars, ghosts

LEMMA NextIInv == IInv /\ [Next]_vars => IInv'
<1> SUFFICES ASSUME IInv, [Next]_vars PROVE IInv'
  OBVIOUS
<1>1. CASE UNCHANGED vars
  BY <1>1, StutterIInv
<1>2. ASSUME NEW p \in Publishers,
             \/ \E type \in PublishedTypes : AppendEvent(p, type)
             \/ AuditAppendFails(p) \/ StartEphemeral(p) \/ PublisherStep(p)
      PROVE  IInv'
  BY <1>2, AppendEventStep, AuditAppendFailsStep, StartEphemeralStep, FanoutSnapshotStep,
     FanoutSendStep, FanoutSkipStep DEF PublisherStep
<1>3. ASSUME NEW s \in Subscribers, StreamStep(s)
      PROVE  IInv'
  BY <1>3, ReplaySkipStep, ReplayEmitStep, ReplayEndStep, LiveDropStep, LiveReceiveStep,
     LiveEmitStep, StreamExitStep DEF StreamStep
<1>4. ASSUME NEW s \in Subscribers,
             \/ SubscribeCheck(s)
             \/ \E a \in Nat : SubscribeRegister(s, a)
             \/ ForwarderStep(s) \/ ContextEnds(s)
      PROVE  IInv'
  BY <1>4, SubscribeCheckStep, SubscribeRegisterStep, ForwardStep, CleanupStep, ContextEndsStep
     DEF ForwarderStep
<1>5. CASE DeleteRow \/ DropSubscribers
  BY <1>5, DeleteRowStep, DropSubscribersStep
<1>6. QED BY <1>1, <1>2, <1>3, <1>4, <1>5 DEF Next

\* The invariant holds in every reachable state.
THEOREM Invariant == Spec => []IInv
<1>1. QED BY InitIInv, NextIInv, PTL DEF Spec

\* Every variable keeps its type, whatever the constants are.
THEOREM TypeCorrect == Spec => []TypeOK
<1>1. IInv => TypeOK BY DEF IInv
<1>2. QED BY <1>1, Invariant, PTL

\* No subscription emits a persisted event twice: for every number of
\* concurrent publishers, subscriptions and events, at the boundary between
\* the replay and the live channel too (Manager.Subscribe's maxReplayed).
THEOREM NoDuplicateDelivery == Spec => []NoDuplicate
<1>1. IInv => NoDuplicate
  <2> SUFFICES ASSUME IInv, NEW s \in Subscribers, NEW i \in Persisted(s), NEW j \in Persisted(s),
                      emitted[s][i].seq = emitted[s][j].seq
               PROVE  i = j
    BY DEF NoDuplicate
  <2>1. emitted[s] \in Seq(Event) BY DEF IInv, TypeOK
  <2>2. i \in 1..Len(emitted[s]) /\ j \in 1..Len(emitted[s]) /\ emitted[s][i].seq > 0
    BY <2>1 DEF Persisted
  <2>3. QED BY <2>2 DEF IInv, EmittedInv
<1>2. QED BY <1>1, Invariant, PTL

\* Nothing the client already had when it subscribed is sent to it again.
THEOREM CursorRespected == Spec => []NothingAlreadySeen
<1>1. IInv => NothingAlreadySeen
  <2> SUFFICES ASSUME IInv, NEW s \in Subscribers, NEW i \in Persisted(s)
               PROVE  emitted[s][i].seq > after[s]
    BY DEF NothingAlreadySeen
  <2>1. emitted[s] \in Seq(Event) BY DEF IInv, TypeOK
  <2>2. i \in 1..Len(emitted[s]) /\ emitted[s][i].seq > 0
    BY <2>1 DEF Persisted
  <2>3. QED BY <2>2 DEF IInv, EmittedInv
<1>2. QED BY <1>1, Invariant, PTL

-----------------------------------------------------------------------------
(* Nothing is lost *)

(***************************************************************************)
(* NoEventLost speaks of one moment of a subscription, and the next step   *)
(* may drop an event: of the replay because of its type, of the channel    *)
(* because the high-water mark says that it is out.  LossInv adds what     *)
(* makes both safe: whatever the mark covers is out, and the replay leaves *)
(* nothing out between the mark and its end.                               *)
(***************************************************************************)
Streaming == {"replaying", "live", "emitting"}

\* A registered subscription has its goroutine, as long as nobody closed it.
RegisteredInv ==
  /\ \A s \in Subscribers : spc[s] \in {"idle", "checked"} => s \notin done /\ fwd[s] = "none"
  /\ \A s \in subs : s \notin done /\ (s \notin ctxDone => spc[s] \in Streaming)

Wanted(n) == log[n] # "ask_question"
IsOut(s, n) == \E i \in 1..Len(emitted[s]) : emitted[s][i].seq = n

\* The mark covers what is out.
MarkInv ==
  \A s \in Subscribers :
    /\ maxReplayed[s] = after[s] \/ maxReplayed[s] <= Len(log)
    /\ \A n \in 1..Len(log) :
         after[s] < n /\ n <= maxReplayed[s] /\ Wanted(n) => IsOut(s, n)

\* The replay has every row that is wanted from the mark to its end.
SnapshotAt(s, i) ==
  /\ replay[s][i].type = log[replay[s][i].seq]
  /\ replay[s][i].seq > maxReplayed[s]
  /\ \A n \in 1..Len(log) :
       maxReplayed[s] < n /\ n < replay[s][i].seq /\ Wanted(n) =>
         \E j \in 1..Len(replay[s]) : replay[s][j].seq = n

SnapshotInv == \A s \in Subscribers : \A i \in 1..Len(replay[s]) : SnapshotAt(s, i)

\* Where event n can be on its way to s, or out.
Kept(s, n) ==
  \/ \E i \in 1..Len(replay[s]) : replay[s][i].seq = n
  \/ \E i \in 1..Len(ch[s]) : ch[s][i].seq = n
  \/ \E i \in 1..Len(held[s]) : held[s][i].seq = n
  \/ \E p \in Publishers : cur[p].seq = n /\ Pending(p, s)
  \/ IsOut(s, n)

KeptInv ==
  \A s \in subs \ ctxDone : exists =>
    \A n \in 1..Len(log) : after[s] < n /\ Wanted(n) /\ n \notin unannounced => Kept(s, n)

LossInv == RegisteredInv /\ MarkInv /\ SnapshotInv /\ KeptInv

LEMMA ReplayFrame ==
  ASSUME MarkInv, SnapshotInv, UNCHANGED <<log, after, replay, maxReplayed, emitted>>
  PROVE  MarkInv' /\ SnapshotInv'
BY DEF MarkInv, SnapshotInv, SnapshotAt, Wanted, IsOut

\* A step that loses nothing of a subscription keeps KeptInv.
LEMMA KeptFrame ==
  ASSUME IInv, KeptInv, log' = log, after' = after, exists' => exists, unannounced \subseteq unannounced',
         \A s \in subs' \ ctxDone' : s \in subs \ ctxDone,
         \A s \in subs' \ ctxDone' : \A n \in 1..Len(log) :
           after[s] < n /\ Wanted(n) /\ n \notin unannounced' /\ Kept(s, n) => Kept(s, n)'
  PROVE  KeptInv'
<1> SUFFICES ASSUME NEW s \in subs' \ ctxDone', exists', NEW n \in 1..Len(log), after[s] < n,
                    Wanted(n), n \notin unannounced'
             PROVE  Kept(s, n)'
  BY DEF KeptInv, Wanted
<1>1. QED BY DEF KeptInv

LEMMA SubscribeCheckLoses ==
  ASSUME IInv, LossInv, NEW s \in Subscribers, SubscribeCheck(s)
  PROVE  LossInv'
<1> USE DEF LossInv, SubscribeCheck, rowVars, pubVars, subVars, ghosts
<1>1. RegisteredInv'
  BY DEF IInv, TypeOK, FreshInv, RegisteredInv, Streaming
<1>2. MarkInv' /\ SnapshotInv'
  BY ReplayFrame DEF IInv, TypeOK, ReplayInv, MarkInv, SnapshotInv, SnapshotAt, Wanted, IsOut
<1>3. KeptInv'
  BY KeptFrame DEF IInv, TypeOK, RegisteredInv, Streaming, HeldInv, Kept, IsOut, Pending
<1>4. QED BY <1>1, <1>2, <1>3

LEMMA ReplayEndLoses ==
  ASSUME IInv, LossInv, NEW s \in Subscribers, ReplayEnd(s)
  PROVE  LossInv'
<1> USE DEF LossInv, ReplayEnd, rowVars, pubVars, subVars, ghosts
<1>1. RegisteredInv'
  BY DEF IInv, TypeOK, FreshInv, RegisteredInv, Streaming
<1>2. MarkInv' /\ SnapshotInv'
  BY ReplayFrame DEF IInv, TypeOK, ReplayInv, MarkInv, SnapshotInv, SnapshotAt, Wanted, IsOut
<1>3. KeptInv'
  BY KeptFrame DEF IInv, TypeOK, RegisteredInv, Streaming, HeldInv, Kept, IsOut, Pending
<1>4. QED BY <1>1, <1>2, <1>3

LEMMA ForwardLoses ==
  ASSUME IInv, LossInv, NEW s \in Subscribers, Forward(s)
  PROVE  LossInv'
<1> USE DEF LossInv, Forward, TakeEvent, rowVars, pubVars, subVars, ghosts
<1>1. RegisteredInv'
  BY DEF IInv, TypeOK, FreshInv, RegisteredInv, Streaming
<1>2. MarkInv' /\ SnapshotInv'
  BY ReplayFrame DEF IInv, TypeOK, ReplayInv, MarkInv, SnapshotInv, SnapshotAt, Wanted, IsOut
<1>3. KeptInv'
  BY KeptFrame DEF IInv, TypeOK, RegisteredInv, Streaming, HeldInv, Kept, IsOut, Pending
<1>4. QED BY <1>1, <1>2, <1>3

LEMMA CleanupLoses ==
  ASSUME IInv, LossInv, NEW s \in Subscribers, Cleanup(s)
  PROVE  LossInv'
<1> USE DEF LossInv, Cleanup, rowVars, pubVars, subVars, ghosts
<1>1. RegisteredInv'
  BY DEF IInv, TypeOK, FreshInv, RegisteredInv, Streaming
<1>2. MarkInv' /\ SnapshotInv'
  BY ReplayFrame DEF IInv, TypeOK, ReplayInv, MarkInv, SnapshotInv, SnapshotAt, Wanted, IsOut
<1>3. KeptInv'
  BY KeptFrame DEF IInv, TypeOK, RegisteredInv, Streaming, HeldInv, Kept, IsOut, Pending
<1>4. QED BY <1>1, <1>2, <1>3

LEMMA ContextEndsLoses ==
  ASSUME IInv, LossInv, NEW s \in Subscribers, ContextEnds(s)
  PROVE  LossInv'
<1> USE DEF LossInv, ContextEnds, rowVars, pubVars, subVars, ghosts
<1>1. RegisteredInv'
  BY DEF IInv, TypeOK, FreshInv, RegisteredInv, Streaming
<1>2. MarkInv' /\ SnapshotInv'
  BY ReplayFrame DEF IInv, TypeOK, ReplayInv, MarkInv, SnapshotInv, SnapshotAt, Wanted, IsOut
<1>3. KeptInv'
  BY KeptFrame DEF IInv, TypeOK, RegisteredInv, Streaming, HeldInv, Kept, IsOut, Pending
<1>4. QED BY <1>1, <1>2, <1>3

LEMMA DeleteRowLoses ==
  ASSUME IInv, LossInv, DeleteRow
  PROVE  LossInv'
<1> USE DEF LossInv, DeleteRow, rowVars, pubVars, subVars, ghosts
<1>1. RegisteredInv'
  BY DEF IInv, TypeOK, FreshInv, RegisteredInv, Streaming
<1>2. MarkInv' /\ SnapshotInv'
  BY ReplayFrame DEF IInv, TypeOK, ReplayInv, MarkInv, SnapshotInv, SnapshotAt, Wanted, IsOut
<1>3. KeptInv'
  BY KeptFrame DEF IInv, TypeOK, RegisteredInv, Streaming, HeldInv, Kept, IsOut, Pending
<1>4. QED BY <1>1, <1>2, <1>3

LEMMA DropSubscribersLoses ==
  ASSUME IInv, LossInv, DropSubscribers
  PROVE  LossInv'
<1> USE DEF LossInv, DropSubscribers, rowVars, pubVars, subVars, ghosts
<1>1. RegisteredInv'
  BY DEF IInv, TypeOK, FreshInv, RegisteredInv, Streaming
<1>2. MarkInv' /\ SnapshotInv'
  BY ReplayFrame DEF IInv, TypeOK, ReplayInv, MarkInv, SnapshotInv, SnapshotAt, Wanted, IsOut
<1>3. KeptInv'
  BY KeptFrame DEF IInv, TypeOK, RegisteredInv, Streaming, HeldInv, Kept, IsOut, Pending
<1>4. QED BY <1>1, <1>2, <1>3

LEMMA ReplayRange ==
  ASSUME IInv, NEW s \in Subscribers, NEW i \in 1..Len(replay[s])
  PROVE  replay[s][i] \in Event /\ replay[s][i].seq \in 1..Len(log)
<1>1. replay[s] \in Seq(Event) /\ after[s] \in Nat /\ Len(log) \in Nat
  BY DEF IInv, TypeOK
<1>2. replay[s][i] \in Event
  BY <1>1
<1>3. replay[s][i].seq \in Nat
  BY <1>2 DEF Event
<1>4. after[s] < replay[s][i].seq /\ replay[s][i].seq <= Len(log)
  BY DEF IInv, BoundInv, ReplayInv
<1>5. QED BY <1>1, <1>2, <1>3, <1>4

LEMMA StreamExitLoses ==
  ASSUME IInv, LossInv, NEW s \in Subscribers, StreamExit(s)
  PROVE  LossInv'
<1> USE DEF LossInv
<1>1. /\ UNCHANGED <<log, after, maxReplayed, emitted, ch, subs, done, ctxDone, fwd, exists, unannounced>>
      /\ UNCHANGED <<pc, cur, targets>>
      /\ s \notin subs \ ctxDone
      /\ replay' = [replay EXCEPT ![s] = << >>] /\ held' = [held EXCEPT ![s] = << >>]
      /\ spc' = [spc EXCEPT ![s] = "finished"]
  BY DEF StreamExit, RegisteredInv, rowVars, pubVars, subVars, ghosts
<1>2. RegisteredInv'
  BY <1>1 DEF IInv, TypeOK, RegisteredInv, Streaming, StreamExit
<1>3. MarkInv'
  BY <1>1 DEF MarkInv, Wanted, IsOut
<1>4. SnapshotInv'
  <2>1. \A x \in Subscribers : replay'[x] = replay[x] \/ replay'[x] = << >>
    BY <1>1 DEF IInv, TypeOK
  <2>2. QED BY <1>1, <2>1 DEF SnapshotInv, SnapshotAt, Wanted
<1>5. KeptInv'
  <2>1. \A x \in subs \ ctxDone : replay'[x] = replay[x] /\ held'[x] = held[x]
    BY <1>1 DEF IInv, TypeOK
  <2>2. QED BY <1>1, <2>1, KeptFrame DEF Kept, IsOut, Pending
<1>6. QED BY <1>2, <1>3, <1>4, <1>5

LEMMA AppendEventLoses ==
  ASSUME IInv, LossInv, NEW p \in Publishers, NEW type \in PublishedTypes, AppendEvent(p, type)
  PROVE  LossInv'
<1> USE DEF LossInv, subVars, ghosts
<1>1. /\ UNCHANGED <<after, maxReplayed, emitted, ch, held, replay, subs, done, ctxDone, spc, fwd, exists>>
      /\ UNCHANGED <<targets, unannounced>>
      /\ pc[p] = "idle" /\ pc' = [pc EXCEPT ![p] = "appended"]
      /\ cur' = [cur EXCEPT ![p] = [seq |-> Len(log) + 1, type |-> type]]
  BY DEF AppendEvent
<1>2. /\ log' = Append(log, type) /\ Len(log) \in Nat /\ Len(log') = Len(log) + 1
      /\ \A n \in 1..Len(log) : log'[n] = log[n]
      /\ \A n \in 1..Len(log') : n \in 1..Len(log) \/ n = Len(log) + 1
  <2>1. log \in Seq(EventTypes) /\ type \in EventTypes
    BY DEF IInv, TypeOK, EventTypes
  <2>2. QED BY <2>1, AppendFacts DEF AppendEvent
<1>3. RegisteredInv'
  BY <1>1 DEF RegisteredInv
<1>4. MarkInv'
  <2> SUFFICES ASSUME NEW s \in Subscribers
               PROVE  /\ maxReplayed[s] = after[s] \/ maxReplayed[s] <= Len(log')
                      /\ \A n \in 1..Len(log') :
                           after[s] < n /\ n <= maxReplayed[s] /\ Wanted(n)' => IsOut(s, n)
    BY <1>1 DEF MarkInv, IsOut
  <2>1. after[s] \in Nat /\ maxReplayed[s] \in Nat
    BY DEF IInv, TypeOK
  <2>2. maxReplayed[s] = after[s] \/ maxReplayed[s] <= Len(log)
    BY DEF MarkInv
  <2>3. ASSUME NEW n \in 1..Len(log'), after[s] < n, n <= maxReplayed[s], Wanted(n)' PROVE IsOut(s, n)
    <3>1. n \in 1..Len(log)
      BY <1>2, <2>1, <2>2, <2>3
    <3>2. Wanted(n)
      BY <1>2, <2>3, <3>1 DEF Wanted
    <3>3. QED BY <2>3, <3>1, <3>2 DEF MarkInv
  <2>4. QED BY <1>2, <2>1, <2>2, <2>3
<1>5. SnapshotInv'
  <2> SUFFICES ASSUME NEW s \in Subscribers, NEW i \in 1..Len(replay[s])
               PROVE  SnapshotAt(s, i)'
    BY <1>1 DEF SnapshotInv
  <2>1. replay[s][i].seq \in 1..Len(log)
    BY ReplayRange
  <2>2. \A n \in 1..Len(log') : n < replay[s][i].seq => n \in 1..Len(log) /\ log'[n] = log[n]
    BY <1>2, <2>1
  <2>3. SnapshotAt(s, i) /\ UNCHANGED <<replay, maxReplayed>>
    BY <1>1 DEF SnapshotInv
  <2>4. QED BY ONLY <1>2, <2>1, <2>2, <2>3 DEF SnapshotAt, Wanted
<1>6. KeptInv'
  <2> SUFFICES ASSUME NEW s \in subs \ ctxDone, exists, NEW n \in 1..Len(log'), after[s] < n,
                      Wanted(n)', n \notin unannounced
               PROVE  Kept(s, n)'
    BY <1>1 DEF KeptInv
  <2>1. CASE n = Len(log) + 1
    <3>1. cur'[p].seq = n /\ Pending(p, s)'
      BY <1>1, <2>1 DEF IInv, TypeOK, Pending
    <3>2. QED BY <3>1 DEF Kept
  <2>2. CASE n \in 1..Len(log)
    <3>1. Kept(s, n)
      BY <1>2, <2>2 DEF KeptInv, Wanted
    <3>2. \A q \in Publishers : Pending(q, s) => q # p
      BY <1>1 DEF Pending, IInv, PublisherInv
    <3>3. \A q \in Publishers : Pending(q, s) => cur'[q] = cur[q] /\ Pending(q, s)'
      BY <1>1, <3>2 DEF Pending, IInv, TypeOK
    <3>4. QED BY <1>1, <3>1, <3>3 DEF Kept, IsOut
  <2>3. QED BY <1>2, <2>1, <2>2
<1>7. QED BY <1>3, <1>4, <1>5, <1>6

LEMMA AuditAppendFailsLoses ==
  ASSUME IInv, LossInv, NEW p \in Publishers, AuditAppendFails(p)
  PROVE  LossInv'
<1> USE DEF LossInv
<1>1. /\ UNCHANGED <<after, maxReplayed, emitted, ch, held, replay, subs, done, ctxDone, spc, fwd, exists>>
      /\ UNCHANGED <<targets, log>>
      /\ pc[p] = "appended" /\ pc' = [pc EXCEPT ![p] = "idle"]
      /\ cur' = [cur EXCEPT ![p] = NoEvent]
      /\ unannounced' = unannounced \cup {cur[p].seq}
  BY DEF AuditAppendFails, rowVars, subVars
<1>2. RegisteredInv'
  BY <1>1 DEF RegisteredInv
<1>3. MarkInv' /\ SnapshotInv'
  BY <1>1, ReplayFrame
<1>4. ASSUME NEW s \in subs \ ctxDone, NEW n \in 1..Len(log), n \notin unannounced', Kept(s, n)
      PROVE  Kept(s, n)'
  <2>1. \A q \in Publishers : cur[q].seq = n /\ Pending(q, s) => cur'[q].seq = n /\ Pending(q, s)'
    BY <1>1, <1>4 DEF IInv, TypeOK, Pending
  <2>2. QED BY <1>1, <1>4, <2>1 DEF Kept, IsOut
<1>5. KeptInv'
  BY <1>1, <1>4, KeptFrame
<1>6. QED BY <1>2, <1>3, <1>5

LEMMA StartEphemeralLoses ==
  ASSUME IInv, LossInv, NEW p \in Publishers, StartEphemeral(p)
  PROVE  LossInv'
<1> USE DEF LossInv
<1>1. /\ UNCHANGED <<after, maxReplayed, emitted, ch, held, replay, subs, done, ctxDone, spc, fwd, exists>>
      /\ UNCHANGED <<targets, log, unannounced>>
      /\ pc[p] = "idle" /\ pc' = [pc EXCEPT ![p] = "appended"]
      /\ cur' = [cur EXCEPT ![p] = NoEvent]
  BY DEF StartEphemeral, rowVars, subVars
<1>2. RegisteredInv'
  BY <1>1 DEF RegisteredInv
<1>3. MarkInv' /\ SnapshotInv'
  BY <1>1, ReplayFrame
<1>4. ASSUME NEW s \in subs \ ctxDone, NEW n \in 1..Len(log), Kept(s, n)
      PROVE  Kept(s, n)'
  <2>1. \A q \in Publishers : Pending(q, s) => q # p
    BY <1>1 DEF IInv, PublisherInv, Pending
  <2>2. \A q \in Publishers : cur[q].seq = n /\ Pending(q, s) => cur'[q].seq = n /\ Pending(q, s)'
    BY <1>1, <2>1 DEF IInv, TypeOK, Pending
  <2>3. QED BY <1>1, <1>4, <2>2 DEF Kept, IsOut
<1>5. KeptInv'
  BY <1>1, <1>4, KeptFrame
<1>6. QED BY <1>2, <1>3, <1>5

\* fanout goes on with the subscribers in rest: whoever is in it is still owed
\* the event.
LEMMA GoOnKeeps ==
  ASSUME IInv, NEW p \in Publishers, NEW rest \in SUBSET Subscribers, GoOnWith(p, rest),
         NEW s \in Subscribers, Pending(p, s) => s \in rest
  PROVE  \A q \in Publishers : Pending(q, s) => Pending(q, s)' /\ cur'[q] = cur[q]
<1>1. CASE rest = {}
  BY <1>1 DEF GoOnWith, Pending, IInv, TypeOK
<1>2. CASE rest # {}
  BY <1>2 DEF GoOnWith, Pending, IInv, TypeOK
<1>3. QED BY <1>1, <1>2

LEMMA FanoutSnapshotLoses ==
  ASSUME IInv, LossInv, NEW p \in Publishers, FanoutSnapshot(p)
  PROVE  LossInv'
<1> USE DEF LossInv
<1>1. /\ UNCHANGED <<after, maxReplayed, emitted, ch, held, replay, subs, done, ctxDone, spc, fwd, exists>>
      /\ UNCHANGED <<log, unannounced>>
      /\ subs \in SUBSET Subscribers /\ GoOnWith(p, subs)
  BY DEF FanoutSnapshot, rowVars, subVars, ghosts, IInv, TypeOK
<1>2. RegisteredInv'
  BY <1>1 DEF RegisteredInv
<1>3. MarkInv' /\ SnapshotInv'
  BY <1>1, ReplayFrame
<1>4. ASSUME NEW s \in subs \ ctxDone, NEW n \in 1..Len(log), Kept(s, n)
      PROVE  Kept(s, n)'
  <2>1. \A q \in Publishers : Pending(q, s) => Pending(q, s)' /\ cur'[q] = cur[q]
    BY <1>1, GoOnKeeps
  <2>2. QED BY <1>1, <1>4, <2>1 DEF Kept, IsOut
<1>5. KeptInv'
  BY <1>1, <1>4, KeptFrame
<1>6. QED BY <1>2, <1>3, <1>5

LEMMA FanoutSkipLoses ==
  ASSUME IInv, LossInv, NEW p \in Publishers, FanoutSkip(p)
  PROVE  LossInv'
<1> USE DEF LossInv
<1>1. /\ UNCHANGED <<after, maxReplayed, emitted, ch, held, replay, subs, done, ctxDone, spc, fwd, exists>>
      /\ UNCHANGED <<log, unannounced>>
      /\ pc[p] = "sending" /\ at[p] \notin subs
      /\ targets[p] \ {at[p]} \in SUBSET Subscribers /\ GoOnWith(p, targets[p] \ {at[p]})
  BY DEF FanoutSkip, RegisteredInv, rowVars, subVars, ghosts, IInv, TypeOK
<1>2. RegisteredInv'
  BY <1>1 DEF RegisteredInv
<1>3. MarkInv' /\ SnapshotInv'
  BY <1>1, ReplayFrame
<1>4. ASSUME NEW s \in subs \ ctxDone, NEW n \in 1..Len(log), Kept(s, n)
      PROVE  Kept(s, n)'
  <2>1. Pending(p, s) => s \in targets[p] \ {at[p]}
    BY <1>1 DEF Pending
  <2> s \in Subscribers
    BY DEF IInv, TypeOK
  <2>2. \A q \in Publishers : Pending(q, s) => Pending(q, s)' /\ cur'[q] = cur[q]
    BY ONLY IInv, p \in Publishers, s \in Subscribers, <1>1, <2>1, GoOnKeeps
  <2>3. QED BY <1>1, <1>4, <2>2 DEF Kept, IsOut
<1>5. KeptInv'
  BY <1>1, <1>4, KeptFrame
<1>6. QED BY <1>2, <1>3, <1>5

LEMMA SnapshotTypes ==
  ASSUME TypeOK, NEW a \in Nat, NEW i \in 1..Len(SessionEventsAfter(a))
  PROVE  SessionEventsAfter(a)[i].type = log[a + i]
<1>1. Rows \in Seq(EventTypes) /\ Len(Rows) \in Nat
  BY DEF Rows, TypeOK
<1>2. CASE Len(Rows) - a <= 0
  <2>1. SessionEventsAfter(a) = << >>
    BY <1>1, <1>2 DEF SessionEventsAfter
  <2>2. QED BY <2>1
<1>3. CASE Len(Rows) - a > 0
  <2>1. Len(Rows) - a \in Nat /\ i \in 1..(Len(Rows) - a)
    <3>1. Len(Rows) - a \in Nat BY <1>1, <1>3
    <3>2. Len(SessionEventsAfter(a)) = Len(Rows) - a
      BY <3>1 DEF SessionEventsAfter
    <3>3. QED BY <3>1, <3>2
  <2>2. SessionEventsAfter(a)[i] = [seq |-> a + i, type |-> Rows[a + i]]
    BY <2>1 DEF SessionEventsAfter
  <2>3. exists
    BY <1>3 DEF Rows
  <2>4. QED BY <2>2, <2>3 DEF Rows
<1>4. QED BY <1>1, <1>2, <1>3

LEMMA SnapshotLength ==
  ASSUME TypeOK, exists, NEW a \in Nat, NEW n \in 1..Len(log), a < n
  PROVE  n - a \in 1..Len(SessionEventsAfter(a))
<1>1. Rows = log /\ Len(log) \in Nat
  BY DEF Rows, TypeOK
<1>2. Len(log) - a \in Nat
  BY <1>1
<1>3. Len(SessionEventsAfter(a)) = Len(log) - a
  BY <1>1, <1>2 DEF SessionEventsAfter
<1>4. QED BY <1>1, <1>2, <1>3

LEMMA SubscribeRegisterLoses ==
  ASSUME IInv, LossInv, NEW s \in Subscribers, NEW a \in Nat, SubscribeRegister(s, a)
  PROVE  LossInv'
<1> USE DEF LossInv
<1>1. /\ UNCHANGED <<emitted, ch, held, done, ctxDone, exists, log, unannounced, pc, cur, targets>>
      /\ spc[s] = "checked" /\ spc' = [spc EXCEPT ![s] = "replaying"]
      /\ subs' = subs \cup {s} /\ fwd' = [fwd EXCEPT ![s] = "running"]
      /\ after' = [after EXCEPT ![s] = a] /\ maxReplayed' = [maxReplayed EXCEPT ![s] = a]
      /\ replay' = [replay EXCEPT ![s] = SessionEventsAfter(a)]
      /\ a \in Nat
  BY DEF SubscribeRegister, rowVars, pubVars, ghosts
<1>2. \A x \in Subscribers : x # s => /\ after'[x] = after[x] /\ maxReplayed'[x] = maxReplayed[x]
                                     /\ replay'[x] = replay[x] /\ spc'[x] = spc[x] /\ fwd'[x] = fwd[x]
  BY <1>1 DEF IInv, TypeOK
<1>3. /\ after'[s] = a /\ maxReplayed'[s] = a /\ replay'[s] = SessionEventsAfter(a)
      /\ spc'[s] = "replaying"
  BY <1>1 DEF IInv, TypeOK
<1>4. /\ SessionEventsAfter(a) \in Seq(Event)
      /\ \A i \in 1..Len(SessionEventsAfter(a)) :
           SessionEventsAfter(a)[i].seq = a + i /\ a + i <= Len(log)
  BY <1>1, SnapshotFacts DEF IInv
<1>5. RegisteredInv'
  BY <1>1, <1>2, <1>3 DEF IInv, TypeOK, RegisteredInv, Streaming
<1>6. MarkInv'
  <2>1. \A n \in 1..Len(log) : ~(a < n /\ n <= a)
    BY <1>1
  <2>2. QED BY <1>1, <1>2, <1>3, <2>1 DEF MarkInv, Wanted, IsOut
<1>7. SnapshotInv'
  <2> SUFFICES ASSUME NEW x \in Subscribers, NEW i \in 1..Len(replay'[x])
               PROVE  SnapshotAt(x, i)'
    BY DEF SnapshotInv
  <2>1. CASE x # s
    <3>1. replay'[x] = replay[x] /\ maxReplayed'[x] = maxReplayed[x]
          /\ log' = log /\ i \in 1..Len(replay[x])
      BY <1>1, <1>2, <2>1
    <3>2. SnapshotAt(x, i)
      BY <3>1 DEF SnapshotInv
    <3>3. QED BY ONLY <3>1, <3>2 DEF SnapshotAt, Wanted
  <2>2. CASE x = s
    <3>1. replay'[x] = SessionEventsAfter(a) /\ maxReplayed'[x] = a
      BY <1>3, <2>2
    <3>2. replay'[x][i].seq = a + i
      BY <1>4, <3>1
    <3>3. replay'[x][i].type = log[a + i]
      BY <1>1, <1>4, <3>1, SnapshotTypes DEF IInv
    <3>4. ASSUME NEW n \in 1..Len(log), a < n, n < a + i
          PROVE  \E j \in 1..Len(replay'[x]) : replay'[x][j].seq = n
      <4>1. n - a \in 1..Len(replay'[x])
        BY <1>1, <1>4, <3>1, <3>4
      <4>2. replay'[x][n - a].seq = a + (n - a)
        BY <1>4, <3>1, <4>1
      <4>3. a + (n - a) = n
        BY <1>1
      <4>4. QED BY <4>1, <4>2, <4>3
    <3>5. log' = log
      BY <1>1
    <3>6. QED BY <1>1, <3>1, <3>2, <3>3, <3>4, <3>5 DEF SnapshotAt, Wanted
  <2>3. QED BY <2>1, <2>2
<1>8. KeptInv'
  <2> SUFFICES ASSUME NEW x \in subs' \ ctxDone, exists, NEW n \in 1..Len(log), after'[x] < n,
                      Wanted(n), n \notin unannounced
               PROVE  Kept(x, n)'
    BY <1>1 DEF KeptInv, Wanted
  <2>1. x \in Subscribers
    BY <1>1 DEF IInv, TypeOK
  <2>2. CASE x # s
    <3>1. Kept(x, n)
      BY <1>1, <1>2, <2>1, <2>2 DEF KeptInv
    <3>2. QED BY <1>1, <1>2, <2>1, <2>2, <3>1 DEF Kept, IsOut, Pending
  <2>3. CASE x = s
    <3>1. n - a \in 1..Len(SessionEventsAfter(a))
      BY <1>1, <1>3, <2>3, SnapshotLength DEF IInv
    <3>2. SessionEventsAfter(a)[n - a].seq = n
      BY <1>1, <1>4, <3>1
    <3>3. QED BY <1>3, <2>3, <3>1, <3>2 DEF Kept
  <2>4. QED BY <2>2, <2>3
<1>9. QED BY <1>5, <1>6, <1>7, <1>8

\* What the replay passes over, or puts out, is its lowest event.
LEMMA ReplayHead ==
  ASSUME IInv, NEW s \in Subscribers, replay[s] # << >>
  PROVE  /\ replay[s] \in Seq(Event)
         /\ 1 \in 1..Len(replay[s]) /\ Head(replay[s]) = replay[s][1]
         /\ \A j \in 1..Len(replay[s]) : j = 1 \/ replay[s][1].seq < replay[s][j].seq
         /\ \A i \in 1..Len(Tail(replay[s])) :
              Tail(replay[s])[i] = replay[s][i + 1] /\ i + 1 \in 1..Len(replay[s])
         /\ \A j \in 1..Len(replay[s]) : j # 1 =>
              j - 1 \in 1..Len(Tail(replay[s])) /\ Tail(replay[s])[j - 1] = replay[s][j]
<1>1. replay[s] \in Seq(Event)
  BY DEF IInv, TypeOK
<1>2. /\ Len(replay[s]) \in Nat \ {0} /\ Head(replay[s]) = replay[s][1]
      /\ Len(Tail(replay[s])) = Len(replay[s]) - 1
      /\ \A i \in 1..Len(Tail(replay[s])) :
           Tail(replay[s])[i] = replay[s][i + 1] /\ i + 1 \in 1..Len(replay[s])
  BY <1>1, TailFacts
<1>3. 1 \in 1..Len(replay[s])
  BY <1>2
<1>4. \A j \in 1..Len(replay[s]) : j = 1 \/ replay[s][1].seq < replay[s][j].seq
  BY <1>3 DEF IInv, ReplayInv
<1>5. ASSUME NEW j \in 1..Len(replay[s]), j # 1
      PROVE  j - 1 \in 1..Len(Tail(replay[s])) /\ Tail(replay[s])[j - 1] = replay[s][j]
  <2>1. j - 1 \in 1..Len(Tail(replay[s])) /\ (j - 1) + 1 = j
    BY <1>2, <1>5
  <2>2. QED BY <1>2, <2>1
<1>6. QED BY <1>1, <1>2, <1>3, <1>4, <1>5

\* Once its head is gone, the replay still has every other row it had.
LEMMA TailKeeps ==
  ASSUME IInv, NEW s \in Subscribers, replay[s] # << >>
  PROVE  \A j \in 1..Len(replay[s]) : replay[s][j] # Head(replay[s]) =>
           \E i \in 1..Len(Tail(replay[s])) : Tail(replay[s])[i] = replay[s][j]
<1> SUFFICES ASSUME NEW j \in 1..Len(replay[s]), replay[s][j] # Head(replay[s])
             PROVE  \E i \in 1..Len(Tail(replay[s])) : Tail(replay[s])[i] = replay[s][j]
  OBVIOUS
<1>1. j - 1 \in 1..Len(Tail(replay[s])) /\ Tail(replay[s])[j - 1] = replay[s][j]
  BY ReplayHead
<1>2. QED BY <1>1

LEMMA ReplaySkipLoses ==
  ASSUME IInv, LossInv, NEW s \in Subscribers, ReplaySkip(s)
  PROVE  LossInv'
<1> USE DEF LossInv
<1>1. /\ UNCHANGED <<after, maxReplayed, emitted, ch, held, subs, done, ctxDone, spc, fwd, exists>>
      /\ UNCHANGED <<log, unannounced, pc, cur, targets>>
      /\ replay[s] # << >> /\ Head(replay[s]).type = "ask_question"
      /\ replay' = [replay EXCEPT ![s] = Tail(replay[s])]
  BY DEF ReplaySkip, rowVars, pubVars, ghosts
<1>2. /\ replay'[s] = Tail(replay[s])
      /\ \A x \in Subscribers : x # s => replay'[x] = replay[x]
  BY <1>1 DEF IInv, TypeOK
<1>0. /\ 1 \in 1..Len(replay[s]) /\ Head(replay[s]) = replay[s][1]
      /\ \A i \in 1..Len(Tail(replay[s])) :
           Tail(replay[s])[i] = replay[s][i + 1] /\ i + 1 \in 1..Len(replay[s])
      /\ \A j \in 1..Len(replay[s]) : replay[s][j] # Head(replay[s]) =>
           \E i \in 1..Len(Tail(replay[s])) : Tail(replay[s])[i] = replay[s][j]
  BY <1>1, ReplayHead, TailKeeps
<1>3. ~Wanted(Head(replay[s]).seq)
  BY <1>0, <1>1 DEF SnapshotInv, SnapshotAt, Wanted
<1>4. RegisteredInv'
  BY <1>1 DEF RegisteredInv
<1>5. MarkInv'
  BY <1>1 DEF MarkInv, Wanted, IsOut
<1>6. SnapshotInv'
  <2> SUFFICES ASSUME NEW x \in Subscribers, NEW i \in 1..Len(replay'[x])
               PROVE  SnapshotAt(x, i)'
    BY DEF SnapshotInv
  <2>1. CASE x # s
    <3>1. replay'[x] = replay[x] /\ maxReplayed'[x] = maxReplayed[x]
          /\ log' = log /\ i \in 1..Len(replay[x])
      BY <1>1, <1>2, <2>1
    <3>2. SnapshotAt(x, i)
      BY <3>1 DEF SnapshotInv
    <3>3. QED BY ONLY <3>1, <3>2 DEF SnapshotAt, Wanted
  <2>2. CASE x = s
    <3>1. replay'[s][i] = replay[s][i + 1] /\ i + 1 \in 1..Len(replay[s])
      BY <1>2, <1>0, <2>2
    <3>2. ASSUME NEW n \in 1..Len(log), maxReplayed[s] < n, n < replay'[s][i].seq, Wanted(n)
          PROVE  \E j \in 1..Len(replay'[s]) : replay'[s][j].seq = n
      <4>1. PICK j \in 1..Len(replay[s]) : replay[s][j].seq = n
        BY <3>1, <3>2 DEF SnapshotInv, SnapshotAt
      <4>2. replay[s][j] # Head(replay[s])
        BY <1>3, <3>2, <4>1
      <4>3. PICK k \in 1..Len(Tail(replay[s])) : Tail(replay[s])[k] = replay[s][j]
        BY <1>0, <4>1, <4>2
      <4>4. k \in 1..Len(replay'[s]) /\ replay'[s][k].seq = n
        BY <1>2, <4>1, <4>3
      <4>5. QED BY <4>4
    <3>3. SnapshotAt(s, i + 1) /\ log' = log /\ maxReplayed' = maxReplayed
      BY <1>1, <3>1 DEF SnapshotInv
    <3>4. QED BY ONLY <2>2, <3>1, <3>2, <3>3 DEF SnapshotAt, Wanted
  <2>3. QED BY <2>1, <2>2
<1>7. ASSUME NEW x \in subs \ ctxDone, NEW n \in 1..Len(log), Wanted(n), Kept(x, n)
      PROVE  Kept(x, n)'
  <2> x \in Subscribers
    BY DEF IInv, TypeOK
  <2>1. (\E i \in 1..Len(replay[x]) : replay[x][i].seq = n) =>
          \E i \in 1..Len(replay'[x]) : replay'[x][i].seq = n
    <3>1. CASE x # s
      BY <1>2, <3>1
    <3>2. ASSUME x = s, NEW j \in 1..Len(replay[s]), replay[s][j].seq = n
          PROVE  \E i \in 1..Len(replay'[x]) : replay'[x][i].seq = n
      <4>1. replay[s][j] # Head(replay[s])
        BY <1>3, <1>7, <3>2
      <4>2. PICK i \in 1..Len(Tail(replay[s])) : Tail(replay[s])[i] = replay[s][j]
        BY <1>0, <4>1
      <4>3. QED BY <1>2, <3>2, <4>2
    <3>3. QED BY <3>1, <3>2
  <2>2. QED BY <1>1, <1>7, <2>1 DEF Kept, IsOut, Pending
<1>8. KeptInv'
  BY <1>1, <1>7, KeptFrame
<1>9. QED BY <1>4, <1>5, <1>6, <1>8

\* What goes out stays out.
LEMMA OutGrows ==
  ASSUME IInv, NEW s \in Subscribers, NEW e \in Event, emitted' = [emitted EXCEPT ![s] = Append(emitted[s], e)]
  PROVE  /\ IsOut(s, e.seq)'
         /\ \A x \in Subscribers, n \in Nat : IsOut(x, n) => IsOut(x, n)'
<1>1. emitted[s] \in Seq(Event)
  BY DEF IInv, TypeOK
<1>2. /\ emitted'[s] = Append(emitted[s], e)
      /\ \A x \in Subscribers : x # s => emitted'[x] = emitted[x]
  BY DEF IInv, TypeOK
<1>3. /\ Len(emitted[s]) \in Nat /\ Len(emitted'[s]) = Len(emitted[s]) + 1
      /\ emitted'[s][Len(emitted[s]) + 1] = e
      /\ \A i \in 1..Len(emitted[s]) : emitted'[s][i] = emitted[s][i]
  BY <1>1, <1>2, AppendFacts
<1>4. IsOut(s, e.seq)'
  BY <1>3 DEF IsOut
<1>5. ASSUME NEW x \in Subscribers, NEW n \in Nat, IsOut(x, n)
      PROVE  IsOut(x, n)'
  <2>1. CASE x # s
    BY <1>2, <1>5, <2>1 DEF IsOut
  <2>2. CASE x = s
    <3>1. PICK i \in 1..Len(emitted[s]) : emitted[s][i].seq = n
      BY <1>5, <2>2 DEF IsOut
    <3>2. i \in 1..Len(emitted'[s]) /\ emitted'[s][i].seq = n
      BY <1>3, <3>1
    <3>3. QED BY <2>2, <3>2 DEF IsOut
  <2>3. QED BY <2>1, <2>2
<1>6. QED BY <1>4, <1>5

LEMMA ReplayEmitLoses ==
  ASSUME IInv, LossInv, NEW s \in Subscribers, ReplayEmit(s)
  PROVE  LossInv'
<1> USE DEF LossInv
<1>1. /\ UNCHANGED <<after, ch, held, subs, done, ctxDone, spc, fwd, exists>>
      /\ UNCHANGED <<log, unannounced, pc, cur, targets>>
      /\ replay[s] # << >>
      /\ replay' = [replay EXCEPT ![s] = Tail(replay[s])]
      /\ emitted' = [emitted EXCEPT ![s] = Append(emitted[s], Head(replay[s]))]
      /\ maxReplayed' = [maxReplayed EXCEPT ![s] =
           IF Head(replay[s]).seq > maxReplayed[s] THEN Head(replay[s]).seq ELSE maxReplayed[s]]
  BY DEF ReplayEmit, rowVars, pubVars, ghosts
<1>2. /\ 1 \in 1..Len(replay[s]) /\ Head(replay[s]) = replay[s][1]
      /\ \A j \in 1..Len(replay[s]) : j = 1 \/ replay[s][1].seq < replay[s][j].seq
      /\ \A i \in 1..Len(Tail(replay[s])) :
           Tail(replay[s])[i] = replay[s][i + 1] /\ i + 1 \in 1..Len(replay[s])
      /\ \A j \in 1..Len(replay[s]) : replay[s][j] # Head(replay[s]) =>
           \E i \in 1..Len(Tail(replay[s])) : Tail(replay[s])[i] = replay[s][j]
  BY <1>1, ReplayHead, TailKeeps
<1>h. PICK h \in Event : h = replay[s][1]
  BY <1>2, ReplayRange
<1>3. h \in Event /\ h.seq \in 1..Len(log) /\ h.seq > maxReplayed[s] /\ maxReplayed[s] \in Nat
  BY <1>2, <1>h, ReplayRange DEF SnapshotInv, SnapshotAt, IInv, TypeOK
<1>4. /\ replay'[s] = Tail(replay[s]) /\ maxReplayed'[s] = h.seq
      /\ \A x \in Subscribers : x # s => replay'[x] = replay[x] /\ maxReplayed'[x] = maxReplayed[x]
  BY <1>1, <1>2, <1>3, <1>h DEF IInv, TypeOK
<1>5. /\ IsOut(s, h.seq)'
      /\ \A x \in Subscribers, n \in Nat : IsOut(x, n) => IsOut(x, n)'
  <2>1. emitted' = [emitted EXCEPT ![s] = Append(emitted[s], h)]
    BY <1>1, <1>2, <1>h
  <2>2. QED BY <2>1, OutGrows
<1>6. Len(log) \in Nat /\ h.seq \in Nat
  BY <1>3 DEF IInv, TypeOK, Event
<1>7. RegisteredInv'
  BY <1>1 DEF RegisteredInv
<1>8. MarkInv'
  <2> SUFFICES ASSUME NEW x \in Subscribers
               PROVE  /\ maxReplayed'[x] = after[x] \/ maxReplayed'[x] <= Len(log)
                      /\ \A n \in 1..Len(log) :
                           after[x] < n /\ n <= maxReplayed'[x] /\ Wanted(n) => IsOut(x, n)'
    BY <1>1 DEF MarkInv, Wanted
  <2>1. CASE x # s
    BY <1>4, <1>5, <1>6, <2>1 DEF MarkInv
  <2>2. CASE x = s
    <3>1. ASSUME NEW n \in 1..Len(log), after[s] < n, n <= h.seq, Wanted(n) PROVE IsOut(s, n)'
      <4>1. CASE n <= maxReplayed[s]
        BY <1>5, <1>6, <3>1, <4>1 DEF MarkInv
      <4>2. CASE maxReplayed[s] < n /\ n < h.seq
        <5>1. PICK j \in 1..Len(replay[s]) : replay[s][j].seq = n
          BY <1>2, <3>1, <4>2, <1>h DEF SnapshotInv, SnapshotAt
        <5>2. n = h.seq \/ h.seq < n
          BY <1>2, <5>1, <1>h
        <5>3. QED BY <1>6, <4>2, <5>2
      <4>3. CASE n = h.seq
        BY <1>5, <4>3
      <4>4. QED BY <1>3, <1>6, <3>1, <4>1, <4>2, <4>3
    <3>2. QED BY <1>3, <1>4, <1>6, <2>2, <3>1
  <2>3. QED BY <2>1, <2>2
<1>9. SnapshotInv'
  <2> SUFFICES ASSUME NEW x \in Subscribers, NEW i \in 1..Len(replay'[x])
               PROVE  SnapshotAt(x, i)'
    BY DEF SnapshotInv
  <2>1. CASE x # s
    <3>1. replay'[x] = replay[x] /\ maxReplayed'[x] = maxReplayed[x]
          /\ log' = log /\ i \in 1..Len(replay[x])
      BY <1>1, <1>4, <2>1
    <3>2. SnapshotAt(x, i)
      BY <3>1 DEF SnapshotInv
    <3>3. QED BY ONLY <3>1, <3>2 DEF SnapshotAt, Wanted
  <2>2. CASE x = s
    <3>1. replay'[s][i] = replay[s][i + 1] /\ i + 1 \in 1..Len(replay[s]) /\ i + 1 # 1
      <4>1. replay'[s] = Tail(replay[s]) /\ i \in 1..Len(Tail(replay[s]))
        BY <1>4, <2>2
      <4>2. QED BY <1>2, <4>1
    <3>2. replay'[s][i].seq > h.seq
      BY <1>2, <3>1, <1>h
    <3>3. ASSUME NEW n \in 1..Len(log), h.seq < n, n < replay'[s][i].seq, Wanted(n)
          PROVE  \E j \in 1..Len(replay'[s]) : replay'[s][j].seq = n
      <4> SnapshotAt(s, i + 1) /\ maxReplayed[s] < n
        BY <1>3, <1>6, <3>1, <3>3 DEF SnapshotInv
      <4>1. PICK j \in 1..Len(replay[s]) : replay[s][j].seq = n
        BY <3>1, <3>3 DEF SnapshotAt
      <4>2. replay[s][j] # Head(replay[s])
        BY <1>2, <1>6, <1>h, <3>3, <4>1
      <4>3. PICK k \in 1..Len(Tail(replay[s])) : Tail(replay[s])[k] = replay[s][j]
        BY <1>2, <4>2
      <4>4. QED BY <1>4, <4>1, <4>3
    <3>4. /\ replay[s][i + 1].type = log[replay[s][i + 1].seq]
          /\ log' = log /\ maxReplayed'[s] = h.seq
      BY <1>1, <1>4, <3>1 DEF SnapshotInv, SnapshotAt
    <3>5. QED BY ONLY <2>2, <3>1, <3>2, <3>3, <3>4 DEF SnapshotAt, Wanted
  <2>3. QED BY <2>1, <2>2
<1>10. ASSUME NEW x \in subs \ ctxDone, NEW n \in 1..Len(log), Kept(x, n)
       PROVE  Kept(x, n)'
  <2> x \in Subscribers
    BY DEF IInv, TypeOK
  <2>1. (\E i \in 1..Len(replay[x]) : replay[x][i].seq = n) =>
          IsOut(x, n)' \/ \E i \in 1..Len(replay'[x]) : replay'[x][i].seq = n
    <3>1. CASE x # s
      BY <1>4, <3>1
    <3>2. CASE x = s /\ n = h.seq
      BY <1>5, <3>2
    <3>3. ASSUME x = s, n # h.seq, NEW j \in 1..Len(replay[s]), replay[s][j].seq = n
          PROVE  \E i \in 1..Len(replay'[x]) : replay'[x][i].seq = n
      <4>1. replay[s][j] # Head(replay[s])
        BY <1>2, <1>h, <3>3
      <4>2. PICK i \in 1..Len(Tail(replay[s])) : Tail(replay[s])[i] = replay[s][j]
        BY <1>2, <4>1
      <4>3. QED BY <1>4, <3>3, <4>2
    <3>4. QED BY <3>1, <3>2, <3>3
  <2>2. IsOut(x, n) => IsOut(x, n)'
    BY <1>5, <1>6
  <2>3. QED BY <1>1, <1>10, <2>1, <2>2 DEF Kept, Pending
<1>11. KeptInv'
  BY <1>1, <1>10, KeptFrame
<1>12. QED BY <1>7, <1>8, <1>9, <1>11

\* Once the head of the channel is gone, the channel still has the rest.
LEMMA ChannelKeeps ==
  ASSUME IInv, NEW s \in Subscribers, ch[s] # << >>, ch' = [ch EXCEPT ![s] = Tail(ch[s])],
         NEW x \in Subscribers
  PROVE  \A i \in 1..Len(ch[x]) : (x = s /\ ch[x][i] = Head(ch[s])) \/
           \E k \in 1..Len(ch'[x]) : ch'[x][k] = ch[x][i]
<1> SUFFICES ASSUME NEW i \in 1..Len(ch[x]), ~(x = s /\ ch[x][i] = Head(ch[s]))
             PROVE  \E k \in 1..Len(ch'[x]) : ch'[x][k] = ch[x][i]
  OBVIOUS
<1>1. ch[s] \in Seq(Event) /\ ch'[s] = Tail(ch[s]) /\ (x # s => ch'[x] = ch[x])
  BY DEF IInv, TypeOK
<1>2. CASE x # s
  BY <1>1, <1>2
<1>3. CASE x = s
  <2>1. /\ Len(ch[s]) \in Nat \ {0} /\ Head(ch[s]) = ch[s][1]
        /\ Len(Tail(ch[s])) = Len(ch[s]) - 1
        /\ \A j \in 1..Len(Tail(ch[s])) : Tail(ch[s])[j] = ch[s][j + 1]
    BY <1>1, TailFacts
  <2>2. i # 1
    BY <1>3, <2>1
  <2>3. i - 1 \in 1..Len(ch'[s]) /\ (i - 1) + 1 = i
    BY <1>1, <1>3, <2>1, <2>2
  <2>4. ch'[s][i - 1] = ch[s][i]
    BY <1>1, <2>1, <2>3
  <2>5. QED BY <1>3, <2>3, <2>4
<1>4. QED BY <1>2, <1>3

LEMMA LiveDropLoses ==
  ASSUME IInv, LossInv, NEW s \in Subscribers, LiveDrop(s)
  PROVE  LossInv'
<1> USE DEF LossInv
<1>1. /\ UNCHANGED <<after, maxReplayed, emitted, held, replay, subs, done, ctxDone, spc, fwd, exists>>
      /\ UNCHANGED <<log, unannounced, pc, cur, targets>>
      /\ ch[s] # << >> /\ ch' = [ch EXCEPT ![s] = Tail(ch[s])]
      /\ Head(ch[s]).seq <= maxReplayed[s]
  BY DEF LiveDrop, AlreadyReplayed, rowVars, pubVars, subVars, ghosts
<1>2. RegisteredInv'
  BY <1>1 DEF RegisteredInv
<1>3. MarkInv' /\ SnapshotInv'
  BY <1>1, ReplayFrame
<1>4. ASSUME NEW x \in subs \ ctxDone, NEW n \in 1..Len(log), after[x] < n, Wanted(n), Kept(x, n)
      PROVE  Kept(x, n)'
  <2> x \in Subscribers
    BY DEF IInv, TypeOK
  <2>1. (\E i \in 1..Len(ch[x]) : ch[x][i].seq = n) =>
          IsOut(x, n) \/ \E i \in 1..Len(ch'[x]) : ch'[x][i].seq = n
    <3>1. CASE x = s /\ n = Head(ch[s]).seq
      BY <1>1, <1>4, <3>1 DEF MarkInv
    <3>2. ASSUME ~(x = s /\ n = Head(ch[s]).seq), NEW i \in 1..Len(ch[x]), ch[x][i].seq = n
          PROVE  \E k \in 1..Len(ch'[x]) : ch'[x][k].seq = n
      <4>0. ch[s] # << >> /\ ch' = [ch EXCEPT ![s] = Tail(ch[s])] /\ IInv
            /\ ~(x = s /\ ch[x][i] = Head(ch[s])) /\ i \in 1..Len(ch[x])
        BY <1>1, <3>2
      <4>1. \E k \in 1..Len(ch'[x]) : ch'[x][k] = ch[x][i]
        BY ONLY <4>0, x \in Subscribers, s \in Subscribers, ChannelKeeps
      <4>2. QED BY <3>2, <4>1
    <3>3. QED BY <3>1, <3>2
  <2>2. QED BY <1>1, <1>4, <2>1 DEF Kept, IsOut, Pending
<1>5. KeptInv'
  BY <1>1, <1>4, KeptFrame
<1>6. QED BY <1>2, <1>3, <1>5

LEMMA LiveReceiveLoses ==
  ASSUME IInv, LossInv, NEW s \in Subscribers, LiveReceive(s)
  PROVE  LossInv'
<1> USE DEF LossInv
<1>1. /\ UNCHANGED <<after, maxReplayed, emitted, replay, subs, done, ctxDone, fwd, exists>>
      /\ UNCHANGED <<log, unannounced, pc, cur, targets>>
      /\ ch[s] # << >> /\ ch' = [ch EXCEPT ![s] = Tail(ch[s])]
      /\ spc[s] = "live" /\ spc' = [spc EXCEPT ![s] = "emitting"]
      /\ held' = [held EXCEPT ![s] = <<Head(ch[s])>>]
  BY DEF LiveReceive, rowVars, pubVars, ghosts
<1>2. RegisteredInv'
  BY <1>1 DEF IInv, TypeOK, RegisteredInv, Streaming
<1>3. MarkInv' /\ SnapshotInv'
  BY <1>1, ReplayFrame
<1>4. /\ \A x \in Subscribers : x # s => held'[x] = held[x]
      /\ held'[s] = <<Head(ch[s])>> /\ Len(held[s]) = 0
  BY <1>1 DEF IInv, TypeOK, HeldInv
<1>5. ASSUME NEW x \in subs \ ctxDone, NEW n \in 1..Len(log), Kept(x, n)
      PROVE  Kept(x, n)'
  <2> x \in Subscribers
    BY DEF IInv, TypeOK
  <2>1. (\E i \in 1..Len(held[x]) : held[x][i].seq = n) =>
          \E i \in 1..Len(held'[x]) : held'[x][i].seq = n
    <3>1. CASE x # s
      BY <1>4, <3>1
    <3>2. CASE x = s
      BY <1>4, <3>2
    <3>3. QED BY <3>1, <3>2
  <2>2. (\E i \in 1..Len(ch[x]) : ch[x][i].seq = n) =>
          \/ \E i \in 1..Len(held'[x]) : held'[x][i].seq = n
          \/ \E i \in 1..Len(ch'[x]) : ch'[x][i].seq = n
    <3>1. CASE x = s /\ n = Head(ch[s]).seq
      <4>1. Len(held'[s]) = 1 /\ held'[s][1] = Head(ch[s])
        BY <1>4
      <4>2. 1 \in 1..Len(held'[s])
        BY <4>1
      <4>3. QED BY <3>1, <4>1, <4>2
    <3>2. ASSUME ~(x = s /\ n = Head(ch[s]).seq), NEW i \in 1..Len(ch[x]), ch[x][i].seq = n
          PROVE  \E k \in 1..Len(ch'[x]) : ch'[x][k].seq = n
      <4>0. ch[s] # << >> /\ ch' = [ch EXCEPT ![s] = Tail(ch[s])] /\ IInv
            /\ ~(x = s /\ ch[x][i] = Head(ch[s])) /\ i \in 1..Len(ch[x])
        BY <1>1, <3>2
      <4>1. \E k \in 1..Len(ch'[x]) : ch'[x][k] = ch[x][i]
        BY ONLY <4>0, x \in Subscribers, s \in Subscribers, ChannelKeeps
      <4>2. QED BY <3>2, <4>1
    <3>3. QED BY <3>1, <3>2
  <2>3. QED BY <1>1, <1>5, <2>1, <2>2 DEF Kept, IsOut, Pending
<1>6. KeptInv'
  BY <1>1, <1>5, KeptFrame
<1>7. QED BY <1>2, <1>3, <1>6

LEMMA LiveEmitLoses ==
  ASSUME IInv, LossInv, NEW s \in Subscribers, LiveEmit(s)
  PROVE  LossInv'
<1> USE DEF LossInv
<1>1. /\ UNCHANGED <<after, maxReplayed, ch, replay, subs, done, ctxDone, fwd, exists>>
      /\ UNCHANGED <<log, unannounced, pc, cur, targets>>
      /\ emitted' = [emitted EXCEPT ![s] = Append(emitted[s], Head(held[s]))]
      /\ spc[s] = "emitting" /\ spc' = [spc EXCEPT ![s] = "live"]
      /\ held' = [held EXCEPT ![s] = << >>]
  BY DEF LiveEmit, rowVars, pubVars, ghosts
<1>2. RegisteredInv'
  BY <1>1 DEF IInv, TypeOK, RegisteredInv, Streaming
<1>3. Len(held[s]) = 1 /\ Head(held[s]) = held[s][1] /\ held[s][1] \in Event
  <2>1. Len(held[s]) = 1
    BY <1>1 DEF IInv, HeldInv
  <2>2. held[s] \in Seq(Event)
    BY DEF IInv, TypeOK
  <2>3. QED BY <2>1, <2>2
<1>h. PICK h \in Event : h = held[s][1]
  BY <1>3
<1>4. /\ IsOut(s, h.seq)'
      /\ \A x \in Subscribers, n \in Nat : IsOut(x, n) => IsOut(x, n)'
  <2>1. emitted' = [emitted EXCEPT ![s] = Append(emitted[s], h)]
    BY <1>1, <1>3, <1>h
  <2>2. QED BY <2>1, OutGrows
<1>5. /\ \A x \in Subscribers : x # s => held'[x] = held[x]
  BY <1>1 DEF IInv, TypeOK
<1>6. MarkInv'
  <2>1. \A n \in 1..Len(log) : n \in Nat
    BY DEF IInv, TypeOK
  <2>2. QED BY <1>1, <1>4, <2>1 DEF MarkInv, Wanted
<1>7. SnapshotInv'
  <2>1. UNCHANGED <<log, replay, maxReplayed>>
    BY <1>1
  <2>2. QED BY ONLY <2>1, SnapshotInv DEF SnapshotInv, SnapshotAt, Wanted
<1>8. ASSUME NEW x \in subs \ ctxDone, NEW n \in 1..Len(log), Kept(x, n)
      PROVE  Kept(x, n)'
  <2> x \in Subscribers /\ n \in Nat
    BY DEF IInv, TypeOK
  <2>1. (\E i \in 1..Len(held[x]) : held[x][i].seq = n) =>
          IsOut(x, n)' \/ \E i \in 1..Len(held'[x]) : held'[x][i].seq = n
    <3>1. CASE x # s
      BY <1>5, <3>1
    <3>2. CASE x = s
      <4>1. \A i \in 1..Len(held[s]) : held[s][i] = h
        BY <1>3, <1>h
      <4>2. QED BY <1>4, <3>2, <4>1
    <3>3. QED BY <3>1, <3>2
  <2>2. IsOut(x, n) => IsOut(x, n)'
    BY <1>4
  <2>3. QED BY <1>1, <1>8, <2>1, <2>2 DEF Kept, Pending
<1>9. KeptInv'
  BY <1>1, <1>8, KeptFrame
<1>10. QED BY <1>2, <1>6, <1>7, <1>9

LEMMA FanoutSendLoses ==
  ASSUME IInv, LossInv, NEW p \in Publishers, FanoutSend(p)
  PROVE  LossInv'
<1> USE DEF LossInv
<1>1. /\ UNCHANGED <<after, maxReplayed, emitted, held, replay, subs, done, ctxDone, spc, fwd, exists>>
      /\ UNCHANGED <<log, unannounced>>
      /\ pc[p] = "sending" /\ at[p] \in Subscribers
      /\ ch' = [ch EXCEPT ![at[p]] = Append(ch[at[p]], cur[p])]
      /\ targets[p] \ {at[p]} \in SUBSET Subscribers /\ GoOnWith(p, targets[p] \ {at[p]})
  BY DEF FanoutSend, rowVars, subVars, ghosts, IInv, TypeOK, PublisherInv
<1>2. RegisteredInv'
  BY <1>1 DEF RegisteredInv
<1>3. MarkInv' /\ SnapshotInv'
  BY <1>1, ReplayFrame
<1>4. /\ ch[at[p]] \in Seq(Event) /\ cur[p] \in Event
      /\ ch'[at[p]] = Append(ch[at[p]], cur[p])
      /\ \A x \in Subscribers : x # at[p] => ch'[x] = ch[x]
  BY <1>1 DEF IInv, TypeOK
<1>5. /\ Len(ch[at[p]]) \in Nat /\ Len(ch'[at[p]]) = Len(ch[at[p]]) + 1
      /\ ch'[at[p]][Len(ch[at[p]]) + 1] = cur[p]
      /\ \A i \in 1..Len(ch[at[p]]) : ch'[at[p]][i] = ch[at[p]][i]
  BY <1>4, AppendFacts
<1>6. ASSUME NEW x \in subs \ ctxDone, NEW n \in 1..Len(log), Kept(x, n)
      PROVE  Kept(x, n)'
  <2> x \in Subscribers
    BY DEF IInv, TypeOK
  <2>1. (\E i \in 1..Len(ch[x]) : ch[x][i].seq = n) => \E i \in 1..Len(ch'[x]) : ch'[x][i].seq = n
    <3>1. CASE x # at[p]
      BY <1>4, <3>1
    <3>2. CASE x = at[p]
      <4>1. \A i \in 1..Len(ch[x]) : i \in 1..Len(ch'[x]) /\ ch'[x][i] = ch[x][i]
        BY <1>5, <3>2
      <4>2. QED BY <4>1
    <3>3. QED BY <3>1, <3>2
  <2>2. (\E q \in Publishers : cur[q].seq = n /\ Pending(q, x)) =>
          \/ \E q \in Publishers : cur'[q].seq = n /\ Pending(q, x)'
          \/ \E i \in 1..Len(ch'[x]) : ch'[x][i].seq = n
    <3>1. CASE x # at[p]
      <4>1. Pending(p, x) => x \in targets[p] \ {at[p]}
        BY <1>1, <3>1 DEF Pending
      <4>2. \A q \in Publishers : Pending(q, x) => Pending(q, x)' /\ cur'[q] = cur[q]
        BY ONLY IInv, p \in Publishers, x \in Subscribers, <1>1, <4>1, GoOnKeeps
      <4>3. QED BY <4>2
    <3>2. CASE x = at[p]
      <4>1. \A q \in Publishers : q # p => (Pending(q, x) => Pending(q, x)' /\ cur'[q] = cur[q])
        <5>1. \A q \in Publishers : q # p => pc'[q] = pc[q] /\ cur'[q] = cur[q] /\ targets'[q] = targets[q]
          BY <1>1 DEF GoOnWith, IInv, TypeOK
        <5>2. QED BY <5>1 DEF Pending
      <4>2. Len(ch'[x]) \in 1..Len(ch'[x]) /\ ch'[x][Len(ch'[x])] = cur[p]
        BY <1>5, <3>2
      <4>3. QED BY <4>1, <4>2
    <3>3. QED BY <3>1, <3>2
  <2>3. QED BY <1>1, <1>6, <2>1, <2>2 DEF Kept, IsOut
<1>7. KeptInv'
  BY <1>1, <1>6, KeptFrame
<1>8. QED BY <1>2, <1>3, <1>7

-----------------------------------------------------------------------------
LEMMA InitLossInv == Init => LossInv
BY DEF Init, LossInv, RegisteredInv, MarkInv, SnapshotInv, SnapshotAt, KeptInv

LEMMA NextLossInv == IInv /\ LossInv /\ [Next]_vars => LossInv'
<1> SUFFICES ASSUME IInv, LossInv, [Next]_vars PROVE LossInv'
  OBVIOUS
<1>1. CASE UNCHANGED vars
  BY <1>1 DEF LossInv, RegisteredInv, MarkInv, SnapshotInv, SnapshotAt, KeptInv, Kept, IsOut, Wanted, Pending,
              vars, rowVars, pubVars, subVars, ghosts
<1>2. ASSUME NEW p \in Publishers,
             \/ \E type \in PublishedTypes : AppendEvent(p, type)
             \/ AuditAppendFails(p) \/ StartEphemeral(p) \/ PublisherStep(p)
      PROVE  LossInv'
  BY <1>2, AppendEventLoses, AuditAppendFailsLoses, StartEphemeralLoses, FanoutSnapshotLoses,
     FanoutSendLoses, FanoutSkipLoses DEF PublisherStep
<1>3. ASSUME NEW s \in Subscribers, StreamStep(s)
      PROVE  LossInv'
  BY <1>3, ReplaySkipLoses, ReplayEmitLoses, ReplayEndLoses, LiveDropLoses, LiveReceiveLoses,
     LiveEmitLoses, StreamExitLoses DEF StreamStep
<1>4. ASSUME NEW s \in Subscribers,
             \/ SubscribeCheck(s)
             \/ \E a \in Nat : SubscribeRegister(s, a)
             \/ ForwarderStep(s) \/ ContextEnds(s)
      PROVE  LossInv'
  BY <1>4, SubscribeCheckLoses, SubscribeRegisterLoses, ForwardLoses, CleanupLoses, ContextEndsLoses
     DEF ForwarderStep
<1>5. CASE DeleteRow \/ DropSubscribers
  BY <1>5, DeleteRowLoses, DropSubscribersLoses
<1>6. QED BY <1>1, <1>2, <1>3, <1>4, <1>5 DEF Next

\* No event is lost between the log and a live subscription: however append,
\* fanout, registration, replay and Delete interleave, what its cursor has not
\* seen is out or still on its way to it.
THEOREM NothingIsLost == Spec => []NoEventLost
<1>1. Spec => []LossInv
  BY Invariant, InitLossInv, NextLossInv, PTL DEF Spec
<1>2. IInv /\ LossInv => NoEventLost
  <2> SUFFICES ASSUME IInv, LossInv, NEW s \in subs \ ctxDone, exists, NEW n \in 1..Len(log),
                      n > after[s], log[n] # "ask_question", n \notin unannounced
               PROVE  Awaiting(s, n) \/ \E i \in DOMAIN emitted[s] : emitted[s][i].seq = n
    BY DEF NoEventLost
  <2>1. s \in Subscribers /\ after[s] \in Nat /\ Len(log) \in Nat
    BY DEF IInv, TypeOK
  <2>2. Kept(s, n)
    BY <2>1 DEF LossInv, KeptInv, Wanted
  <2>3. /\ DOMAIN replay[s] = 1..Len(replay[s]) /\ DOMAIN ch[s] = 1..Len(ch[s])
        /\ DOMAIN held[s] = 1..Len(held[s]) /\ DOMAIN emitted[s] = 1..Len(emitted[s])
    BY <2>1 DEF IInv, TypeOK
  <2>4. QED BY <2>2, <2>3 DEF Kept, IsOut, Awaiting, Pending
<1>3. QED BY <1>1, <1>2, Invariant, PTL

-----------------------------------------------------------------------------
(* In order, from one publisher *)

(***************************************************************************)
(* With one publisher, what is on its way to a subscription is in order:   *)
(* what is out before the goroutine's hand, that before the channel, that  *)
(* before the event being published.  Only the replay may put out an event *)
(* that is on its way as well, and the mark covers it.                     *)
(***************************************************************************)
OnePublisher == \A p, q \in Publishers : p = q

\* Event n of s comes before what is on its way to it.
Before(s, n) ==
  /\ \A i \in 1..Len(ch[s]) : ch[s][i].seq > 0 => n < ch[s][i].seq
  /\ \A p \in Publishers : Pending(p, s) /\ cur[p].seq > 0 => n < cur[p].seq

ChannelOrder(s) ==
  \A i \in 1..Len(ch[s]) : ch[s][i].seq > 0 =>
    /\ \A j \in 1..Len(ch[s]) : i < j /\ ch[s][j].seq > 0 => ch[s][i].seq < ch[s][j].seq
    /\ \A p \in Publishers : Pending(p, s) /\ cur[p].seq > 0 => ch[s][i].seq < cur[p].seq

HeldOrder(s) == \A i \in 1..Len(held[s]) : held[s][i].seq > 0 => Before(s, held[s][i].seq)

\* What is out and not covered by the mark was live.
OutOrder(s) ==
  \A i \in 1..Len(emitted[s]) : emitted[s][i].seq > maxReplayed[s] =>
    /\ Before(s, emitted[s][i].seq)
    /\ \A j \in 1..Len(held[s]) : held[s][j].seq > 0 => emitted[s][i].seq < held[s][j].seq

InSeq(s) ==
  \A i, j \in 1..Len(emitted[s]) :
    i < j /\ emitted[s][i].seq > 0 /\ emitted[s][j].seq > 0 => emitted[s][i].seq < emitted[s][j].seq

OrderOf(s) == ChannelOrder(s) /\ HeldOrder(s) /\ OutOrder(s) /\ InSeq(s)
OrderInv == \A s \in Subscribers : OrderOf(s)

\* Where an event can be has the type of an event.
LEMMA EventRange ==
  ASSUME TypeOK, NEW s \in Subscribers
  PROVE  /\ ch[s] \in Seq(Event) /\ held[s] \in Seq(Event) /\ emitted[s] \in Seq(Event)
         /\ \A i \in 1..Len(ch[s]) : ch[s][i].seq \in Nat
         /\ \A i \in 1..Len(held[s]) : held[s][i].seq \in Nat
         /\ \A i \in 1..Len(emitted[s]) : emitted[s][i].seq \in Nat
         /\ \A p \in Publishers : cur[p].seq \in Nat
         /\ maxReplayed[s] \in Nat
<1>1. ASSUME NEW q \in Seq(Event), NEW i \in 1..Len(q) PROVE q[i].seq \in Nat
  <2>1. q[i] \in Event
    OBVIOUS
  <2>2. QED BY <2>1 DEF Event
<1>2. /\ ch[s] \in Seq(Event) /\ held[s] \in Seq(Event) /\ emitted[s] \in Seq(Event)
      /\ \A p \in Publishers : cur[p] \in Event
  BY DEF TypeOK
<1>3. \A p \in Publishers : cur[p].seq \in Nat
  BY <1>2 DEF Event
<1>4. QED BY <1>1, <1>2, <1>3 DEF TypeOK

\* A step that puts nothing out, and makes no persisted event pending.
LEMMA QuietOrder ==
  ASSUME OrderInv, UNCHANGED <<ch, emitted>>,
         \A s \in Subscribers : held'[s] = held[s] \/ held'[s] = << >>,
         \A s \in Subscribers : maxReplayed'[s] = maxReplayed[s] \/ emitted[s] = << >>,
         \A p \in Publishers, s \in Subscribers :
           Pending(p, s)' /\ cur'[p].seq > 0 => Pending(p, s) /\ cur'[p] = cur[p]
  PROVE  OrderInv'
<1> SUFFICES ASSUME NEW s \in Subscribers PROVE OrderOf(s)'
  BY DEF OrderInv
<1>1. ASSUME NEW n, Before(s, n) PROVE Before(s, n)'
  BY <1>1 DEF Before
<1>2. ChannelOrder(s)'
  BY DEF OrderInv, OrderOf, ChannelOrder
<1>3. HeldOrder(s)'
  <2>1. CASE held'[s] = << >>
    BY <2>1 DEF HeldOrder
  <2>2. CASE held'[s] = held[s]
    BY <1>1, <2>2 DEF OrderInv, OrderOf, HeldOrder
  <2>3. QED BY <2>1, <2>2
<1>4. OutOrder(s)'
  <2>1. CASE emitted[s] = << >>
    BY <2>1 DEF OutOrder
  <2>2. CASE maxReplayed'[s] = maxReplayed[s]
    BY <1>1, <2>2 DEF OrderInv, OrderOf, OutOrder
  <2>3. QED BY <2>1, <2>2
<1>5. InSeq(s)'
  BY DEF OrderInv, OrderOf, InSeq
<1>6. QED BY <1>2, <1>3, <1>4, <1>5 DEF OrderOf

LEMMA AppendEventOrder ==
  ASSUME IInv, OrderInv, NEW p \in Publishers, NEW type \in PublishedTypes, AppendEvent(p, type)
  PROVE  OrderInv'
<1>1. /\ UNCHANGED <<ch, held, emitted, maxReplayed, targets>>
      /\ pc[p] = "idle" /\ pc' = [pc EXCEPT ![p] = "appended"]
      /\ cur' = [cur EXCEPT ![p] = [seq |-> Len(log) + 1, type |-> type]]
      /\ Len(log) \in Nat
  BY DEF AppendEvent, subVars, IInv, TypeOK
<1>2. \A q \in Publishers : q # p => cur'[q] = cur[q] /\ \A s \in Subscribers : Pending(q, s)' = Pending(q, s)
  BY <1>1 DEF IInv, TypeOK, Pending
<1>3. cur'[p].seq = Len(log) + 1
  BY <1>1 DEF IInv, TypeOK
<1> SUFFICES ASSUME NEW s \in Subscribers PROVE OrderOf(s)'
  BY DEF OrderInv
<1>4. /\ \A i \in 1..Len(ch[s]) : ch[s][i].seq < Len(log) + 1
      /\ \A i \in 1..Len(held[s]) : held[s][i].seq < Len(log) + 1
      /\ \A i \in 1..Len(emitted[s]) : emitted[s][i].seq < Len(log) + 1
  <2>1. /\ \A i \in 1..Len(ch[s]) : ch[s][i].seq \in Nat
        /\ \A i \in 1..Len(held[s]) : held[s][i].seq \in Nat
        /\ \A i \in 1..Len(emitted[s]) : emitted[s][i].seq \in Nat
    BY EventRange DEF IInv
  <2>2. \A n \in Nat : n <= Len(log) => n < Len(log) + 1
    BY <1>1
  <2>3. QED BY <2>1, <2>2 DEF IInv, BoundInv
<1>5. ASSUME NEW n, Before(s, n), n < Len(log) + 1 PROVE Before(s, n)'
  BY <1>1, <1>2, <1>3, <1>5 DEF Before
<1>6. ChannelOrder(s)'
  BY <1>1, <1>2, <1>3, <1>4 DEF OrderInv, OrderOf, ChannelOrder
<1>7. HeldOrder(s)'
  BY <1>1, <1>4, <1>5 DEF OrderInv, OrderOf, HeldOrder
<1>8. OutOrder(s)'
  BY <1>1, <1>4, <1>5 DEF OrderInv, OrderOf, OutOrder
<1>9. InSeq(s)'
  BY <1>1 DEF OrderInv, OrderOf, InSeq
<1>10. QED BY <1>6, <1>7, <1>8, <1>9 DEF OrderOf

\* The only publisher puts its event at the end of the channel and is done
\* with the subscription.
LEMMA FanoutSendOrder ==
  ASSUME OnePublisher, IInv, OrderInv, NEW p \in Publishers, FanoutSend(p)
  PROVE  OrderInv'
<1>1. /\ UNCHANGED <<held, emitted, maxReplayed>>
      /\ pc[p] = "sending" /\ at[p] \in Subscribers /\ at[p] \in targets[p]
      /\ ch' = [ch EXCEPT ![at[p]] = Append(ch[at[p]], cur[p])]
      /\ targets[p] \ {at[p]} \in SUBSET Subscribers /\ GoOnWith(p, targets[p] \ {at[p]})
      /\ log' = log
  BY DEF FanoutSend, rowVars, subVars, ghosts, IInv, TypeOK, PublisherInv
<1>2. /\ \A q \in Publishers : cur'[q] = cur[q] \/ cur'[q].seq = 0
      /\ \A q \in Publishers, s \in Subscribers : Pending(q, s)' => Pending(q, s)
      /\ targets' = [targets EXCEPT ![p] = targets[p] \ {at[p]}]
  <2>1. \A s \in targets[p] \ {at[p]} : Pending(p, s)
    BY DEF Pending
  <2>2. QED BY <1>1, <2>1, GoOnFacts DEF IInv
<1>a. PICK a \in Subscribers : a = at[p]
  BY <1>1
<1>3. \A q \in Publishers : ~Pending(q, a)'
  <2>1. a \notin targets'[p] /\ pc'[p] # "appended"
    BY <1>1, <1>2, <1>a DEF GoOnWith, IInv, TypeOK
  <2>2. QED BY <2>1 DEF OnePublisher, Pending
<1> SUFFICES ASSUME NEW s \in Subscribers PROVE OrderOf(s)'
  BY DEF OrderInv
<1>t. OrderOf(s)
  BY DEF OrderInv
<1>4. CASE s # a
  <2>1. ch'[s] = ch[s]
    BY <1>1, <1>4, <1>a DEF IInv, TypeOK
  <2>2. \A q \in Publishers : Pending(q, s)' /\ cur'[q].seq > 0 => Pending(q, s) /\ cur'[q] = cur[q]
    BY <1>2
  <2>3. ASSUME NEW n, Before(s, n) PROVE Before(s, n)'
    BY <2>1, <2>2, <2>3 DEF Before
  <2>4. ChannelOrder(s)'
    BY <1>t, <2>1, <2>2 DEF OrderOf, ChannelOrder
  <2>5. HeldOrder(s)' /\ OutOrder(s)' /\ InSeq(s)'
    BY <1>1, <1>t, <2>3 DEF OrderOf, HeldOrder, OutOrder, InSeq
  <2>6. QED BY <2>4, <2>5 DEF OrderOf
<1>5. CASE s = a
  <2>1. Pending(p, s)
    BY <1>1, <1>5, <1>a DEF Pending
  <2>2. ch[s] \in Seq(Event) /\ cur[p] \in Event /\ ch'[s] = Append(ch[s], cur[p])
    BY <1>1, <1>5, <1>a DEF IInv, TypeOK
  <2>3. /\ Len(ch[s]) \in Nat /\ Len(ch'[s]) = Len(ch[s]) + 1
        /\ ch'[s][Len(ch[s]) + 1] = cur[p]
        /\ \A i \in 1..Len(ch[s]) : ch'[s][i] = ch[s][i]
        /\ \A i \in 1..Len(ch'[s]) : i \in 1..Len(ch[s]) \/ i = Len(ch[s]) + 1
    BY <2>2, AppendFacts
  <2>4. ASSUME NEW n, Before(s, n) PROVE Before(s, n)'
    <3>1. \A i \in 1..Len(ch'[s]) : ch'[s][i].seq > 0 => n < ch'[s][i].seq
      BY <2>1, <2>3, <2>4 DEF Before
    <3>2. QED BY <1>3, <1>5, <3>1 DEF Before
  <2>5. ChannelOrder(s)'
    <3> SUFFICES ASSUME NEW i \in 1..Len(ch'[s]), ch'[s][i].seq > 0,
                        NEW j \in 1..Len(ch'[s]), i < j, ch'[s][j].seq > 0
                 PROVE  ch'[s][i].seq < ch'[s][j].seq
      BY <1>3, <1>5 DEF ChannelOrder
    <3>1. i \in 1..Len(ch[s])
      BY <2>3
    <3>2. QED BY <1>t, <2>1, <2>3, <3>1 DEF OrderOf, ChannelOrder
  <2>6. HeldOrder(s)' /\ OutOrder(s)' /\ InSeq(s)'
    BY <1>1, <1>t, <2>4 DEF OrderOf, HeldOrder, OutOrder, InSeq
  <2>7. QED BY <2>5, <2>6 DEF OrderOf
<1>6. QED BY <1>4, <1>5

\* What was put out is below the rest of the replay, and the mark rises with it.
LEMMA ReplayEmitOrder ==
  ASSUME IInv, OrderInv, NEW s \in Subscribers, ReplayEmit(s)
  PROVE  OrderInv'
<1>1. /\ UNCHANGED <<ch, held, cur, pc, targets>>
      /\ replay[s] # << >> /\ replay[s] \in Seq(Event)
      /\ emitted' = [emitted EXCEPT ![s] = Append(emitted[s], Head(replay[s]))]
      /\ maxReplayed' = [maxReplayed EXCEPT ![s] = IF Head(replay[s]).seq > maxReplayed[s]
                                                   THEN Head(replay[s]).seq ELSE maxReplayed[s]]
      /\ emitted[s] \in Seq(Event) /\ maxReplayed[s] \in Nat
  BY DEF ReplayEmit, pubVars, IInv, TypeOK
<1>2. Head(replay[s]) = replay[s][1] /\ Head(replay[s]) \in Event /\ 1 \in 1..Len(replay[s])
  BY <1>1, TailFacts
<1>h. PICK h \in Event : h = Head(replay[s])
  BY <1>2
<1>3. h.seq \in Nat /\ \A j \in 1..Len(emitted[s]) : emitted[s][j].seq < h.seq
  BY <1>2, <1>h DEF IInv, ReplayInv, Event
<1>4. /\ emitted'[s] = Append(emitted[s], h) /\ maxReplayed'[s] >= h.seq
      /\ \A x \in Subscribers : x # s => emitted'[x] = emitted[x] /\ maxReplayed'[x] = maxReplayed[x]
  BY <1>1, <1>3, <1>h DEF IInv, TypeOK
<1>5. /\ Len(emitted[s]) \in Nat
      /\ emitted'[s][Len(emitted[s]) + 1] = h
      /\ \A i \in 1..Len(emitted[s]) : emitted'[s][i] = emitted[s][i]
      /\ \A i \in 1..Len(emitted'[s]) : i \in 1..Len(emitted[s]) \/ i = Len(emitted[s]) + 1
  BY <1>1, <1>4, AppendFacts
<1>6. maxReplayed'[s] \in Nat
  BY <1>1, <1>3, <1>h DEF IInv, TypeOK
<1> SUFFICES ASSUME NEW x \in Subscribers PROVE OrderOf(x)'
  BY DEF OrderInv
<1>7. ChannelOrder(x)' /\ HeldOrder(x)'
  BY <1>1 DEF OrderInv, OrderOf, ChannelOrder, HeldOrder, Before, Pending
<1>8. CASE x # s
  BY <1>1, <1>4, <1>7, <1>8 DEF OrderInv, OrderOf, OutOrder, InSeq, Before, Pending
<1>9. CASE x = s
  <2>1. \A i \in 1..Len(emitted'[s]) : emitted'[s][i].seq \in Nat /\ emitted'[s][i].seq <= h.seq
    <3>1. \A i \in 1..Len(emitted[s]) : emitted[s][i].seq \in Nat
      BY EventRange DEF IInv
    <3>2. QED BY <1>3, <1>5, <3>1
  <2>2. \A i \in 1..Len(emitted'[s]) : ~(emitted'[s][i].seq > maxReplayed'[s])
    BY <1>3, <1>4, <1>6, <2>1
  <2>3. OutOrder(x)'
    BY <1>9, <2>2 DEF OutOrder
  <2>4. InSeq(x)'
    <3> SUFFICES ASSUME NEW i \in 1..Len(emitted'[s]), NEW j \in 1..Len(emitted'[s]), i < j,
                        emitted'[s][i].seq > 0, emitted'[s][j].seq > 0
                 PROVE  emitted'[s][i].seq < emitted'[s][j].seq
      BY <1>9 DEF InSeq
    <3>1. i \in 1..Len(emitted[s])
      BY <1>5
    <3>2. CASE j \in 1..Len(emitted[s])
      BY <1>5, <3>1, <3>2 DEF OrderInv, OrderOf, InSeq
    <3>3. CASE j = Len(emitted[s]) + 1
      BY <1>3, <1>5, <3>1, <3>3
    <3>4. QED BY <1>5, <3>2, <3>3
  <2>5. QED BY <1>7, <2>3, <2>4 DEF OrderOf
<1>10. QED BY <1>8, <1>9

\* The channel without its head.
LEMMA TailOrder ==
  ASSUME TypeOK, OrderInv, NEW s \in Subscribers, ch[s] # << >>, UNCHANGED <<cur, pc, targets>>,
         ch' = [ch EXCEPT ![s] = Tail(ch[s])], NEW x \in Subscribers
  PROVE  /\ ChannelOrder(x)'
         /\ \A n : Before(x, n) => Before(x, n)'
<1>1. ch[s] \in Seq(Event) /\ ch'[s] = Tail(ch[s]) /\ (x # s => ch'[x] = ch[x])
  BY DEF TypeOK
<1>2. CASE x # s
  BY <1>1, <1>2 DEF OrderInv, OrderOf, ChannelOrder, Before, Pending
<1>3. CASE x = s
  <2>t. /\ Len(ch[s]) \in Nat
        /\ \A i \in 1..Len(Tail(ch[s])) : Tail(ch[s])[i] = ch[s][i + 1] /\ i + 1 \in 1..Len(ch[s])
    BY <1>1, TailFacts
  <2>1. Len(ch[s]) \in Nat /\ \A i \in 1..Len(ch'[s]) : i + 1 \in 1..Len(ch[s]) /\ ch'[s][i] = ch[s][i + 1]
    BY ONLY <1>1, <2>t
  <2>2. ChannelOrder(s)
    BY DEF OrderInv, OrderOf
  <2>3. ChannelOrder(x)'
    <3> SUFFICES ASSUME NEW i \in 1..Len(ch'[s]), ch'[s][i].seq > 0
                 PROVE  /\ \A j \in 1..Len(ch'[s]) : i < j /\ ch'[s][j].seq > 0 => ch'[s][i].seq < ch'[s][j].seq
                        /\ \A p \in Publishers : Pending(p, s) /\ cur[p].seq > 0 => ch'[s][i].seq < cur[p].seq
      BY <1>3 DEF ChannelOrder, Pending
    <3>1. \A j \in 1..Len(ch'[s]) : i < j => i + 1 < j + 1
      BY <1>1
    <3>2. QED BY <2>1, <2>2, <3>1 DEF ChannelOrder
  <2>4. ASSUME NEW n, Before(x, n) PROVE Before(x, n)'
    BY <1>3, <2>1, <2>4 DEF Before, Pending
  <2>5. QED BY <2>3, <2>4
<1>4. QED BY <1>2, <1>3

LEMMA LiveDropOrder ==
  ASSUME IInv, OrderInv, NEW s \in Subscribers, LiveDrop(s)
  PROVE  OrderInv'
<1>1. /\ UNCHANGED <<held, emitted, maxReplayed, cur, pc, targets>>
      /\ ch[s] # << >> /\ ch' = [ch EXCEPT ![s] = Tail(ch[s])]
  BY DEF LiveDrop, pubVars, subVars
<1> SUFFICES ASSUME NEW x \in Subscribers PROVE OrderOf(x)'
  BY DEF OrderInv
<1>2. ChannelOrder(x)' /\ \A n : Before(x, n) => Before(x, n)'
  BY <1>1, TailOrder DEF IInv
<1>3. QED BY <1>1, <1>2 DEF OrderInv, OrderOf, HeldOrder, OutOrder, InSeq

\* The head of the channel comes before the rest of it.
LEMMA LiveReceiveOrder ==
  ASSUME IInv, OrderInv, NEW s \in Subscribers, LiveReceive(s)
  PROVE  OrderInv'
<1>1. /\ UNCHANGED <<emitted, maxReplayed, cur, pc, targets>>
      /\ ch[s] # << >> /\ ch' = [ch EXCEPT ![s] = Tail(ch[s])]
      /\ held' = [held EXCEPT ![s] = <<Head(ch[s])>>]
  BY DEF LiveReceive, pubVars
<1>2. /\ ch[s] \in Seq(Event) /\ Len(ch[s]) \in Nat /\ 1 \in 1..Len(ch[s]) /\ Head(ch[s]) = ch[s][1]
      /\ \A i \in 1..Len(Tail(ch[s])) : i + 1 \in 1..Len(ch[s]) /\ Tail(ch[s])[i] = ch[s][i + 1] /\ 1 < i + 1
  <2>1. ch[s] \in Seq(Event)
    BY DEF IInv, TypeOK
  <2>2. QED BY <1>1, <2>1, TailFacts
<1>h. PICK h \in Event : h = Head(ch[s])
  BY <1>2
<1>3. /\ ch'[s] = Tail(ch[s]) /\ held'[s] = <<h>>
      /\ \A x \in Subscribers : x # s => held'[x] = held[x]
  BY <1>1, <1>h DEF IInv, TypeOK
<1>4. h.seq > 0 => Before(s, h.seq)'
  <2>1. h = ch[s][1] /\ ChannelOrder(s)
    BY <1>2, <1>h DEF OrderInv, OrderOf
  <2>2. h.seq > 0 => \A j \in 1..Len(ch[s]) : 1 < j /\ ch[s][j].seq > 0 => h.seq < ch[s][j].seq
    BY ONLY <1>2, <2>1 DEF ChannelOrder
  <2>3. h.seq > 0 => \A i \in 1..Len(ch'[s]) : ch'[s][i].seq > 0 => h.seq < ch'[s][i].seq
    BY ONLY <1>2, <1>3, <2>2
  <2>4. h.seq > 0 => \A p \in Publishers : Pending(p, s) /\ cur[p].seq > 0 => h.seq < cur[p].seq
    BY ONLY <1>2, <2>1 DEF ChannelOrder
  <2>5. QED BY <1>1, <2>3, <2>4 DEF Before, Pending
<1> SUFFICES ASSUME NEW x \in Subscribers PROVE OrderOf(x)'
  BY DEF OrderInv
<1>5. ChannelOrder(x)' /\ \A n : Before(x, n) => Before(x, n)'
  BY <1>1, TailOrder DEF IInv
<1>6. CASE x # s
  BY <1>1, <1>3, <1>5, <1>6 DEF OrderInv, OrderOf, HeldOrder, OutOrder, InSeq
<1>7. CASE x = s
  <2>1. Len(held'[s]) = 1 /\ \A i \in 1..Len(held'[s]) : held'[s][i] = h
    BY <1>3
  <2>2. HeldOrder(x)'
    BY <1>4, <1>7, <2>1 DEF HeldOrder
  <2>3. OutOrder(x)'
    <3>1. \A i \in 1..Len(emitted[s]) : emitted[s][i].seq > maxReplayed[s] =>
            /\ Before(s, emitted[s][i].seq)
            /\ h.seq > 0 => emitted[s][i].seq < h.seq
      BY <1>2, <1>h DEF OrderInv, OrderOf, OutOrder, Before
    <3>2. QED BY <1>1, <1>5, <1>7, <2>1, <3>1 DEF OutOrder
  <2>4. InSeq(x)'
    BY <1>1 DEF OrderInv, OrderOf, InSeq
  <2>5. QED BY <1>5, <2>2, <2>3, <2>4 DEF OrderOf
<1>8. QED BY <1>6, <1>7

\* What the goroutine puts out comes after all that is out.
LEMMA LiveEmitOrder ==
  ASSUME IInv, OrderInv, NEW s \in Subscribers, LiveEmit(s)
  PROVE  OrderInv'
<1>1. /\ UNCHANGED <<ch, maxReplayed, cur, pc, targets>>
      /\ emitted' = [emitted EXCEPT ![s] = Append(emitted[s], Head(held[s]))]
      /\ held' = [held EXCEPT ![s] = << >>]
      /\ held[s] \in Seq(Event) /\ emitted[s] \in Seq(Event) /\ Len(held[s]) = 1
      /\ maxReplayed[s] \in Nat
  BY DEF LiveEmit, pubVars, IInv, TypeOK, HeldInv
<1>2. 1 \in 1..Len(held[s]) /\ Head(held[s]) = held[s][1] /\ held[s][1] \in Event
  BY <1>1
<1>h. PICK h \in Event : h = held[s][1]
  BY <1>2
<1>3. /\ emitted'[s] = Append(emitted[s], h) /\ held'[s] = << >>
      /\ \A x \in Subscribers : x # s => emitted'[x] = emitted[x] /\ held'[x] = held[x]
  BY <1>1, <1>2, <1>h DEF IInv, TypeOK
<1>4. /\ Len(emitted[s]) \in Nat
      /\ emitted'[s][Len(emitted[s]) + 1] = h
      /\ \A i \in 1..Len(emitted[s]) : emitted'[s][i] = emitted[s][i]
      /\ \A i \in 1..Len(emitted'[s]) : i \in 1..Len(emitted[s]) \/ i = Len(emitted[s]) + 1
  BY <1>1, <1>3, AppendFacts
<1>5. /\ h.seq \in Nat
      /\ h.seq > 0 => h.seq > maxReplayed[s] /\ Before(s, h.seq)
      /\ h.seq > 0 => \A i \in 1..Len(emitted[s]) :
           emitted[s][i].seq > maxReplayed[s] => emitted[s][i].seq < h.seq
  BY <1>2, <1>h DEF IInv, HeldInv, OrderInv, OrderOf, HeldOrder, OutOrder, Event
<1> SUFFICES ASSUME NEW x \in Subscribers PROVE OrderOf(x)'
  BY DEF OrderInv
<1>6. ChannelOrder(x)' /\ \A n : Before(x, n)' = Before(x, n)
  BY <1>1 DEF OrderInv, OrderOf, ChannelOrder, Before, Pending
<1>7. HeldOrder(x)'
  <2>1. CASE x = s
    BY <1>3, <2>1 DEF HeldOrder
  <2>2. CASE x # s
    BY <1>3, <1>6, <2>2 DEF OrderInv, OrderOf, HeldOrder
  <2>3. QED BY <2>1, <2>2
<1>8. CASE x # s
  BY <1>1, <1>3, <1>6, <1>7, <1>8 DEF OrderInv, OrderOf, OutOrder, InSeq
<1>9. CASE x = s
  <2>1. OutOrder(x)'
    <3> SUFFICES ASSUME NEW i \in 1..Len(emitted'[s]), emitted'[s][i].seq > maxReplayed[s]
                 PROVE  /\ \A j \in 1..Len(ch[s]) : ch[s][j].seq > 0 => emitted'[s][i].seq < ch[s][j].seq
                        /\ \A p \in Publishers : Pending(p, s) /\ cur[p].seq > 0 => emitted'[s][i].seq < cur[p].seq
      BY <1>1, <1>3, <1>9 DEF OutOrder, Before, Pending
    <3>1. CASE i \in 1..Len(emitted[s])
      BY <1>4, <3>1 DEF OrderInv, OrderOf, OutOrder, Before
    <3>2. CASE i = Len(emitted[s]) + 1
      BY <1>1, <1>4, <1>5, <3>2 DEF Before
    <3>3. QED BY <1>4, <3>1, <3>2
  <2>2. InSeq(x)'
    <3> SUFFICES ASSUME NEW i \in 1..Len(emitted'[s]), NEW j \in 1..Len(emitted'[s]), i < j,
                        emitted'[s][i].seq > 0, emitted'[s][j].seq > 0
                 PROVE  emitted'[s][i].seq < emitted'[s][j].seq
      BY <1>9 DEF InSeq
    <3>t. i \in 1..Len(emitted[s])
      BY <1>4
    <3>1. i \in 1..Len(emitted[s]) /\ emitted[s][i].seq \in Nat
      BY <3>t, EventRange DEF IInv
    <3>2. CASE j \in 1..Len(emitted[s])
      BY <1>4, <3>1, <3>2 DEF OrderInv, OrderOf, InSeq
    <3>3. CASE j = Len(emitted[s]) + 1
      <4>1. emitted'[s][j] = h /\ emitted'[s][i] = emitted[s][i] /\ h.seq > 0
        BY <1>4, <3>1, <3>3
      <4>2. h.seq > maxReplayed[s] /\ (emitted[s][i].seq > maxReplayed[s] => emitted[s][i].seq < h.seq)
        BY <1>5, <3>1, <4>1
      <4>3. h.seq \in Nat /\ emitted[s][i].seq \in Nat /\ maxReplayed[s] \in Nat
        BY <1>1, <1>5, <3>1
      <4>4. QED BY ONLY <4>1, <4>2, <4>3
    <3>4. QED BY <1>4, <3>2, <3>3
  <2>3. QED BY <1>6, <1>7, <2>1, <2>2 DEF OrderOf
<1>10. QED BY <1>8, <1>9

\* Publishers' steps that give up, start or skip leave what is pending alone.
LEMMA QuietPublisher ==
  ASSUME IInv, OrderInv, NEW p \in Publishers,
         AuditAppendFails(p) \/ StartEphemeral(p) \/ FanoutSnapshot(p) \/ FanoutSkip(p)
  PROVE  OrderInv'
<1>1. UNCHANGED <<ch, emitted, held, maxReplayed>>
  BY DEF AuditAppendFails, StartEphemeral, FanoutSnapshot, FanoutSkip, subVars
<1>2. CASE AuditAppendFails(p) \/ StartEphemeral(p)
  <2>1. /\ targets' = targets
        /\ \E x \in {"idle", "appended"} : pc' = [pc EXCEPT ![p] = x]
        /\ cur' = [cur EXCEPT ![p] = NoEvent]
    BY <1>2 DEF AuditAppendFails, StartEphemeral
  <2>2. /\ cur'[p].seq = 0
        /\ \A q \in Publishers : q # p => pc'[q] = pc[q] /\ cur'[q] = cur[q]
    BY <2>1 DEF IInv, TypeOK, NoEvent
  <2>3. \A q \in Publishers, s \in Subscribers :
          Pending(q, s)' /\ cur'[q].seq > 0 => Pending(q, s) /\ cur'[q] = cur[q]
    BY <2>1, <2>2 DEF Pending
  <2>4. QED BY <1>1, <2>3, QuietOrder
<1>3. CASE FanoutSnapshot(p) \/ FanoutSkip(p)
  <2>1. PICK rest \in SUBSET Subscribers : GoOnWith(p, rest) /\ \A s \in rest : Pending(p, s)
    <3>1. CASE FanoutSnapshot(p)
      BY <3>1 DEF FanoutSnapshot, Pending, IInv, TypeOK
    <3>2. CASE FanoutSkip(p)
      <4>1. targets[p] \ {at[p]} \in SUBSET Subscribers
        BY DEF IInv, TypeOK
      <4>2. QED BY <3>2, <4>1 DEF FanoutSkip, Pending
    <3>3. QED BY <1>3, <3>1, <3>2
  <2>2. log' = log
    BY <1>3 DEF FanoutSnapshot, FanoutSkip, rowVars
  <2>3. /\ \A q \in Publishers : cur'[q] = cur[q] \/ cur'[q].seq = 0
        /\ \A q \in Publishers, s \in Subscribers : Pending(q, s)' => Pending(q, s)
    BY <2>1, <2>2, GoOnFacts DEF IInv
  <2>4. \A q \in Publishers, s \in Subscribers :
          Pending(q, s)' /\ cur'[q].seq > 0 => Pending(q, s) /\ cur'[q] = cur[q]
    BY <2>3
  <2>5. QED BY <1>1, <2>4, QuietOrder
<1>4. QED BY <1>2, <1>3

\* Nor do the steps of a subscription that put nothing out.
LEMMA QuietSubscription ==
  ASSUME IInv, OrderInv, NEW s \in Subscribers,
         \/ SubscribeCheck(s) \/ (\E a \in Nat : SubscribeRegister(s, a))
         \/ ReplaySkip(s) \/ ReplayEnd(s) \/ StreamExit(s)
         \/ ForwarderStep(s) \/ ContextEnds(s)
  PROVE  OrderInv'
<1>1. UNCHANGED <<ch, emitted, pc, cur, targets>>
  BY DEF SubscribeCheck, SubscribeRegister, ReplaySkip, ReplayEnd, StreamExit, ForwarderStep, Forward,
         TakeEvent, Cleanup, ContextEnds, pubVars, subVars
<1>2. \A p \in Publishers, x \in Subscribers :
        Pending(p, x)' /\ cur'[p].seq > 0 => Pending(p, x) /\ cur'[p] = cur[p]
  BY <1>1 DEF Pending
<1>3. CASE StreamExit(s)
  <2>1. held' = [held EXCEPT ![s] = << >>] /\ maxReplayed' = maxReplayed
    BY <1>3 DEF StreamExit
  <2>2. \A x \in Subscribers : held'[x] = held[x] \/ held'[x] = << >>
    BY <2>1 DEF IInv, TypeOK
  <2>3. QED BY <1>1, <1>2, <2>1, <2>2, QuietOrder
<1>4. CASE \E a \in Nat : SubscribeRegister(s, a)
  <2>1. PICK a \in Nat : SubscribeRegister(s, a)
    BY <1>4
  <2>2. held' = held /\ emitted[s] = << >> /\ maxReplayed' = [maxReplayed EXCEPT ![s] = a]
    BY <2>1 DEF SubscribeRegister, IInv, FreshInv
  <2>3. \A x \in Subscribers : maxReplayed'[x] = maxReplayed[x] \/ emitted[x] = << >>
    BY <2>2 DEF IInv, TypeOK
  <2>4. QED BY <1>1, <1>2, <2>2, <2>3, QuietOrder
<1>5. CASE SubscribeCheck(s) \/ ReplaySkip(s) \/ ReplayEnd(s) \/ ForwarderStep(s) \/ ContextEnds(s)
  <2>1. held' = held /\ maxReplayed' = maxReplayed
    BY <1>5 DEF SubscribeCheck, ReplaySkip, ReplayEnd, ForwarderStep, Forward, TakeEvent, Cleanup,
                ContextEnds, subVars
  <2>2. QED BY <1>1, <1>2, <2>1, QuietOrder
<1>6. QED BY <1>3, <1>4, <1>5

LEMMA InitOrderInv == Init => OrderInv
BY DEF Init, OrderInv, OrderOf, ChannelOrder, HeldOrder, OutOrder, InSeq

LEMMA PublisherOrder ==
  ASSUME OnePublisher, IInv, OrderInv, NEW p \in Publishers,
         \/ \E type \in PublishedTypes : AppendEvent(p, type)
         \/ AuditAppendFails(p) \/ StartEphemeral(p) \/ PublisherStep(p)
  PROVE  OrderInv'
BY AppendEventOrder, FanoutSendOrder, QuietPublisher DEF PublisherStep

LEMMA SubscriptionOrder ==
  ASSUME IInv, OrderInv, NEW s \in Subscribers,
         \/ SubscribeCheck(s) \/ (\E a \in Nat : SubscribeRegister(s, a))
         \/ StreamStep(s) \/ ForwarderStep(s) \/ ContextEnds(s)
  PROVE  OrderInv'
BY ReplayEmitOrder, LiveDropOrder, LiveReceiveOrder, LiveEmitOrder, QuietSubscription DEF StreamStep

LEMMA NextOrderInv == OnePublisher /\ IInv /\ OrderInv /\ [Next]_vars => OrderInv'
<1> SUFFICES ASSUME OnePublisher, IInv, OrderInv, [Next]_vars PROVE OrderInv'
  OBVIOUS
<1>1. CASE UNCHANGED vars \/ DeleteRow \/ DropSubscribers
  <2>1. UNCHANGED <<ch, emitted, held, maxReplayed, pc, cur, targets>>
    BY <1>1 DEF vars, DeleteRow, DropSubscribers, pubVars, subVars
  <2>2. QED BY <2>1, QuietOrder DEF Pending
<1>2. CASE \E p \in Publishers :
             \/ \E type \in PublishedTypes : AppendEvent(p, type)
             \/ AuditAppendFails(p) \/ StartEphemeral(p) \/ PublisherStep(p)
  BY <1>2, PublisherOrder
<1>3. CASE \E s \in Subscribers :
             \/ SubscribeCheck(s)
             \/ \E a \in 0..MaxSeq : SubscribeRegister(s, a)
             \/ StreamStep(s) \/ ForwarderStep(s) \/ ContextEnds(s)
  <2>1. \A a \in 0..MaxSeq : a \in Nat
    OBVIOUS
  <2>2. QED BY <1>3, <2>1, SubscriptionOrder
<1>4. QED BY <1>1, <1>2, <1>3 DEF Next

LEMMA OrderFollows == IInv /\ OrderInv => InOrder
<1> SUFFICES ASSUME IInv, OrderInv, NEW s \in Subscribers, NEW i \in Persisted(s), NEW j \in Persisted(s),
                    i < j
             PROVE  emitted[s][i].seq < emitted[s][j].seq
  BY DEF InOrder
<1>1. DOMAIN emitted[s] = 1..Len(emitted[s])
  BY DEF IInv, TypeOK
<1>2. QED BY <1>1 DEF Persisted, OrderInv, OrderOf, InSeq

\* With one publisher, what a subscription emits is in ascending order of seq,
\* whatever cursors it was opened with and whether the session is deleted or not.
THEOREM OnePublisherInOrder == OnePublisher => (Spec => []InOrder)
<1> SUFFICES ASSUME OnePublisher PROVE Spec => []InOrder
  OBVIOUS
<1>1. IInv /\ OrderInv /\ [Next]_vars => OrderInv'
  BY NextOrderInv
<1>2. QED BY <1>1, Invariant, InitOrderInv, OrderFollows, PTL DEF Spec

-----------------------------------------------------------------------------
(* The client *)

ClientTypes ==
  /\ send \in [Subscribers -> Seq(Event)]
  /\ closed \subseteq ctxDone
  /\ seen \subseteq Nat /\ cursor \in Nat

StreamInv == IInv /\ LossInv /\ OrderInv

\* What the connection's writer does to a subscription: it takes an event off
\* its channel, or ends its context.
OfTheConnection ==
  /\ UNCHANGED <<rowVars, pubVars, subs, done, spc, subVars, ch, fwd, ghosts>>
  /\ taken' \in [Subscribers -> Nat]
  /\ ctxDone \subseteq ctxDone' /\ ctxDone' \in SUBSET Subscribers

LEMMA ConnectionKeepsStream ==
  ASSUME StreamInv, OfTheConnection
  PROVE  StreamInv'
<1> USE DEF StreamInv, OfTheConnection, rowVars, pubVars, subVars, ghosts
<1>1. IInv'
  BY DEF IInv, TypeOK, PublisherInv, FreshInv, BoundInv, ReplayInv, ChannelInv, HeldInv, EmittedInv, Pending
<1>2. LossInv'
  <2>1. RegisteredInv'
    BY DEF LossInv, RegisteredInv
  <2>2. MarkInv' /\ SnapshotInv'
    BY ReplayFrame DEF LossInv
  <2>3. KeptInv'
    BY DEF LossInv, KeptInv, Kept, IsOut, Wanted, Pending
  <2>4. QED BY <2>1, <2>2, <2>3 DEF LossInv
<1>3. OrderInv'
  BY QuietOrder DEF Pending
<1>4. QED BY <1>1, <1>2, <1>3

LEMMA EnqueueIsOfTheConnection ==
  ASSUME TypeOK, NEW s \in Subscribers, EnqueueFrame(s)
  PROVE  OfTheConnection
<1>1. /\ UNCHANGED <<rowVars, pubVars, subs, done, spc, subVars, ch, fwd, ghosts>>
      /\ taken' = [taken EXCEPT ![s] = taken[s] + 1]
      /\ ctxDone' = ctxDone \/ ctxDone' = ctxDone \cup {s}
  BY DEF EnqueueFrame, TakeEvent, Shutdown
<1>2. QED BY <1>1 DEF OfTheConnection, TypeOK

LEMMA WriteFailsIsOfTheConnection ==
  ASSUME TypeOK, NEW s \in Subscribers, WriteFails(s)
  PROVE  OfTheConnection
<1>1. /\ UNCHANGED <<rowVars, pubVars, subs, done, spc, subVars, ch, fwd, ghosts, taken>>
      /\ ctxDone' = ctxDone \cup {s}
  BY DEF WriteFails, Shutdown
<1>2. QED BY <1>1 DEF OfTheConnection, TypeOK

\* The client leaves the stream's invariants alone.
LEMMA ClientKeepsStream ==
  ASSUME OnePublisher, StreamInv, ClientTypes, [ClientNext]_allVars
  PROVE  StreamInv'
<1>1. ASSUME [Next]_vars PROVE StreamInv'
  BY <1>1, NextIInv, NextLossInv, NextOrderInv DEF StreamInv
<1>2. CASE UNCHANGED allVars \/ ClientDisconnects \/ ClientSeesClose
  <2>1. UNCHANGED vars
    BY <1>2 DEF allVars, ClientDisconnects, ClientSeesClose
  <2>2. QED BY <1>1, <2>1
<1>3. CASE \E p \in Publishers :
             \/ \E type \in PublishedTypes : AppendEvent(p, type)
             \/ AuditAppendFails(p) \/ PublisherStep(p)
  <2>1. Next
    BY <1>3 DEF Next
  <2>2. QED BY <1>1, <2>1
<1>4. ASSUME NEW s \in Subscribers,
             \/ StreamStep(s) \/ Cleanup(s) \/ ClientSubscribes(s) \/ ConnectionEnds(s)
      PROVE  StreamInv'
  <2>1. StreamStep(s) \/ ForwarderStep(s) \/ SubscribeCheck(s) \/ ContextEnds(s)
    BY <1>4 DEF ForwarderStep, ClientSubscribes, ConnectionEnds
  <2>2. Next
    BY <2>1 DEF Next
  <2>3. QED BY <1>1, <2>2
<1>5. ASSUME NEW s \in Subscribers, EnqueueFrame(s) \/ WriteFails(s)
      PROVE  StreamInv'
  <2>1. OfTheConnection
    BY <1>5, EnqueueIsOfTheConnection, WriteFailsIsOfTheConnection DEF StreamInv, IInv
  <2>2. QED BY <2>1, ConnectionKeepsStream
<1>6. ASSUME NEW s \in Subscribers, WriteFrame(s)
      PROVE  StreamInv'
  <2>1. UNCHANGED vars
    BY <1>6 DEF WriteFrame
  <2>2. QED BY <1>1, <2>1
<1>7. ASSUME NEW s \in Subscribers, ServerSubscribes(s)
      PROVE  StreamInv'
  <2>1. cursor \in Nat /\ SubscribeRegister(s, cursor)
    BY <1>7 DEF ClientTypes, ServerSubscribes
  <2>2. PICK a \in Nat : SubscribeRegister(s, a)
    BY <2>1
  <2>3. QED BY <2>2, SubscribeRegisterStep, SubscribeRegisterLoses, SubscriptionOrder DEF StreamInv
<1>8. QED BY <1>2, <1>3, <1>4, <1>5, <1>6, <1>7 DEF ClientNext

LEMMA ClientKeepsTypes ==
  ASSUME StreamInv, ClientTypes, [ClientNext]_allVars
  PROVE  ClientTypes'
<1>1. CASE UNCHANGED clientVars /\ ctxDone \subseteq ctxDone'
  BY <1>1 DEF ClientTypes, clientVars
<1>2. ASSUME NEW p \in Publishers,
             \/ \E type \in PublishedTypes : AppendEvent(p, type)
             \/ AuditAppendFails(p) \/ PublisherStep(p)
      PROVE  ctxDone' = ctxDone
  BY <1>2 DEF AppendEvent, AuditAppendFails, PublisherStep, FanoutSnapshot, FanoutSend, FanoutSkip
<1>3. ASSUME NEW s \in Subscribers, StreamStep(s) \/ Cleanup(s) \/ ServerSubscribes(s)
      PROVE  ctxDone \subseteq ctxDone'
  BY <1>3 DEF StreamStep, ReplaySkip, ReplayEmit, ReplayEnd, LiveDrop, LiveReceive, LiveEmit, StreamExit,
              Cleanup, ServerSubscribes, SubscribeRegister
<1>4. CASE UNCHANGED allVars
  BY <1>1, <1>4 DEF allVars, vars
<1>5. CASE ClientDisconnects \/ ClientSeesClose
  BY <1>5 DEF ClientDisconnects, ClientSeesClose, ClientTypes, vars
<1>6. ASSUME NEW s \in Subscribers, ClientSubscribes(s)
      PROVE  ClientTypes'
  BY <1>6 DEF ClientSubscribes, SubscribeCheck, ClientTypes
<1>7. ASSUME NEW s \in Subscribers, ConnectionEnds(s)
      PROVE  ClientTypes'
  BY <1>7 DEF ConnectionEnds, ContextEnds, ClientTypes
<1>8. ASSUME NEW s \in Subscribers, WriteFails(s)
      PROVE  ClientTypes'
  BY <1>8 DEF WriteFails, Shutdown, ClientTypes
<1>9. ASSUME NEW s \in Subscribers, EnqueueFrame(s)
      PROVE  ClientTypes'
  <2>1. emitted[s] \in Seq(Event) /\ taken[s] \in Nat /\ taken[s] < Len(emitted[s])
    BY <1>9 DEF EnqueueFrame, TakeEvent, StreamInv, IInv, TypeOK
  <2>2. emitted[s][taken[s] + 1] \in Event
    BY <2>1
  <2>3. CASE send' = [send EXCEPT ![s] = Append(@, emitted[s][taken[s] + 1])] /\ UNCHANGED <<closed, ctxDone, seen, cursor>>
    BY <2>2, <2>3 DEF ClientTypes
  <2>4. CASE UNCHANGED <<send, closed, ctxDone, seen, cursor>>
    BY <2>4 DEF ClientTypes
  <2>5. CASE Shutdown(s) /\ UNCHANGED <<seen, cursor>>
    BY <2>5 DEF Shutdown, ClientTypes
  <2>6. QED BY <1>9, <2>3, <2>4, <2>5 DEF EnqueueFrame
<1>10. ASSUME NEW s \in Subscribers, WriteFrame(s)
       PROVE  ClientTypes'
  <2>1. send[s] \in Seq(Event) /\ send[s] # << >>
    BY <1>10 DEF WriteFrame, ClientTypes
  <2>2. Tail(send[s]) \in Seq(Event) /\ Head(send[s]) \in Event
    BY <2>1, TailFacts
  <2>3. Head(send[s]).seq \in Nat
    BY <2>2 DEF Event
  <2>4. send' \in [Subscribers -> Seq(Event)] /\ UNCHANGED <<closed, ctxDone>>
    BY <1>10, <2>2 DEF WriteFrame, ClientTypes, vars
  <2>5. seen' \subseteq Nat /\ cursor' \in Nat
    BY <1>10, <2>3 DEF WriteFrame, ClientTypes
  <2>6. QED BY <2>4, <2>5 DEF ClientTypes
<1>11. QED BY <1>1, <1>2, <1>3, <1>4, <1>5, <1>6, <1>7, <1>8, <1>9, <1>10 DEF ClientNext, ServerSubscribes

LEMMA InitClientTypes == ClientInit => ClientTypes /\ StreamInv
<1> SUFFICES ASSUME ClientInit PROVE ClientTypes /\ StreamInv
  OBVIOUS
<1>1. Init
  BY DEF ClientInit
<1>2. StreamInv
  BY <1>1, InitIInv, InitLossInv, InitOrderInv DEF StreamInv
<1>3. ClientTypes
  BY <1>1 DEF ClientInit, Init, ClientTypes
<1>4. QED BY <1>2, <1>3

\* The same of the subscriptions of a client that reconnects.
THEOREM ClientSeesOrder == OnePublisher => (ClientSpec => []InOrder)
<1> SUFFICES ASSUME OnePublisher PROVE ClientSpec => []InOrder
  OBVIOUS
<1>1. StreamInv /\ ClientTypes /\ [ClientNext]_allVars => StreamInv' /\ ClientTypes'
  BY ClientKeepsStream, ClientKeepsTypes
<1>2. StreamInv => InOrder
  BY OrderFollows DEF StreamInv
<1>3. QED BY <1>1, <1>2, InitClientTypes, PTL DEF ClientSpec

-----------------------------------------------------------------------------
(* A client that reconnects misses nothing *)

(***************************************************************************)
(* A new connection replays from the client's cursor.  That loses nothing  *)
(* because the client has all that is wanted up to it (Caught): what a     *)
(* connection puts out has no gap (GapInv), arrives in that order, and the *)
(* writer's queue is the end of what was taken (QueueInv).                 *)
(***************************************************************************)
\* Nothing of the session is cut short: rows stay, decisions are announced, and
\* a subscription is registered until its connection is over.
ServedInv ==
  /\ exists /\ unannounced = {} /\ done \subseteq ctxDone
  /\ \A s \in Subscribers \ ctxDone : spc[s] \notin {"idle", "checked"} => s \in subs

\* The cursors up to which the client has everything.
Caught == {m \in 0..Len(log) : \A n \in 1..Len(log) : n <= m /\ Wanted(n) => n \in seen}
CursorInv == cursor \in Caught /\ \A s \in Subscribers : after[s] \in Caught

\* What is out has no gap above the cursor.
GapInv ==
  \A s \in Subscribers \ ctxDone : \A i \in 1..Len(emitted[s]) : \A n \in 1..Len(log) :
    after[s] < n /\ n < emitted[s][i].seq /\ Wanted(n) => IsOut(s, n)

\* The writer's queue holds the last frames taken; those before are written.
Written(s) == taken[s] - Len(send[s])
QueueInv ==
  /\ \A s \in Subscribers : spc[s] \in {"idle", "checked"} => taken[s] = 0 /\ send[s] = << >>
  /\ \A s \in Subscribers \ ctxDone :
       /\ Len(send[s]) <= taken[s] /\ taken[s] <= Len(emitted[s])
       /\ \A i \in 1..Len(send[s]) : send[s][i] = emitted[s][Written(s) + i]

\* The client has what was written on its connection.
SeenInv ==
  conn \in Subscribers \ ctxDone =>
    \A i \in 1..Written(conn) : emitted[conn][i].seq > 0 => emitted[conn][i].seq \in seen

ClientInv == ServedInv /\ CursorInv /\ GapInv /\ QueueInv /\ SeenInv

LogGrows ==
  /\ Len(log) \in Nat /\ Len(log') \in Nat /\ Len(log) <= Len(log')
  /\ \A n \in 1..Len(log) : log'[n] = log[n]

EmittedGrows ==
  \A s \in Subscribers :
    /\ Len(emitted[s]) \in Nat /\ Len(emitted'[s]) \in Nat /\ Len(emitted[s]) <= Len(emitted'[s])
    /\ \A i \in 1..Len(emitted[s]) : emitted'[s][i] = emitted[s][i]

LEMMA CaughtGrows ==
  ASSUME LogGrows, seen \subseteq seen'
  PROVE  \A m \in Caught : m \in Caught'
<1> SUFFICES ASSUME NEW m \in Caught, NEW n \in 1..Len(log'), n <= m, Wanted(n)'
             PROVE  n \in seen'
  BY DEF Caught, LogGrows
<1>1. n \in 1..Len(log)
  BY DEF Caught, LogGrows
<1>2. Wanted(n)
  BY <1>1 DEF Wanted, LogGrows
<1>3. QED BY <1>1, <1>2 DEF Caught

LEMMA EmittedLength ==
  ASSUME TypeOK, NEW s \in Subscribers
  PROVE  Len(emitted[s]) \in Nat /\ taken[s] \in Nat /\ after[s] \in Nat /\ Len(log) \in Nat
BY DEF TypeOK

\* A step that puts out only what leaves no gap.
LEMMA GapFrame ==
  ASSUME IInv, GapInv, LogGrows, EmittedGrows, after' = after, ctxDone \subseteq ctxDone',
         \A s \in Subscribers \ ctxDone : \A i \in 1..Len(emitted'[s]) :
           \/ i \in 1..Len(emitted[s])
           \/ log' = log /\ \A n \in 1..Len(log) :
                after[s] < n /\ n < emitted'[s][i].seq /\ Wanted(n) => IsOut(s, n)
  PROVE  GapInv'
<1> SUFFICES ASSUME NEW s \in Subscribers \ ctxDone, NEW i \in 1..Len(emitted'[s]), NEW n \in 1..Len(log'),
                    after[s] < n, n < emitted'[s][i].seq, Wanted(n)'
             PROVE  IsOut(s, n)'
  BY DEF GapInv
<1>1. IsOut(s, n)
  <2>1. CASE i \in 1..Len(emitted[s])
    <3>1. emitted'[s][i] = emitted[s][i]
      BY <2>1 DEF EmittedGrows
    <3>2. emitted[s][i].seq \in Nat /\ emitted[s][i].seq <= Len(log)
      BY <2>1, EventRange DEF IInv, BoundInv
    <3>3. n \in 1..Len(log)
      BY <3>1, <3>2 DEF LogGrows
    <3>4. Wanted(n)
      BY <3>3 DEF Wanted, LogGrows
    <3>5. QED BY <2>1, <3>1, <3>3, <3>4 DEF GapInv
  <2>2. CASE ~(i \in 1..Len(emitted[s]))
    <3>1. n \in 1..Len(log) /\ Wanted(n)
      BY <2>2 DEF Wanted
    <3>2. QED BY <2>2, <3>1
  <2>3. QED BY <2>1, <2>2
<1>2. PICK j \in 1..Len(emitted[s]) : emitted[s][j].seq = n
  BY <1>1 DEF IsOut
<1>3. j \in 1..Len(emitted'[s]) /\ emitted'[s][j].seq = n
  BY <1>2 DEF EmittedGrows
<1>4. QED BY <1>3 DEF IsOut

\* A step of the stream leaves the queues and the client alone.
LEMMA QueueFrame ==
  ASSUME StreamInv, QueueInv, SeenInv, UNCHANGED <<taken, send, conn, seen>>, EmittedGrows,
         ctxDone \subseteq ctxDone',
         \A s \in Subscribers : spc'[s] \in {"idle", "checked"} => spc[s] \in {"idle", "checked"}
  PROVE  QueueInv' /\ SeenInv'
<1>1. \A s \in Subscribers \ ctxDone : \A i \in 1..taken[s] : taken[s] <= Len(emitted[s]) => emitted'[s][i] = emitted[s][i]
  BY EmittedLength DEF EmittedGrows, StreamInv, IInv
<1>2. QueueInv'
  <2>1. \A s \in Subscribers : spc'[s] \in {"idle", "checked"} => taken'[s] = 0 /\ send'[s] = << >>
    BY DEF QueueInv
  <2>2. ASSUME NEW s \in Subscribers \ ctxDone'
        PROVE  /\ Len(send[s]) <= taken[s] /\ taken[s] <= Len(emitted'[s])
               /\ \A i \in 1..Len(send[s]) : send[s][i] = emitted'[s][Written(s) + i]
    <3>1. s \in Subscribers \ ctxDone
      BY <2>2
    <3>2. Len(send[s]) <= taken[s] /\ taken[s] <= Len(emitted[s]) /\ taken[s] \in Nat
      BY <3>1, EmittedLength DEF QueueInv, StreamInv, IInv
    <3>3. taken[s] <= Len(emitted'[s])
      BY <3>1, <3>2 DEF EmittedGrows
    <3>4. ASSUME NEW i \in 1..Len(send[s]) PROVE send[s][i] = emitted'[s][Written(s) + i]
      <4>1. Written(s) + i \in 1..taken[s]
        BY <3>2, <3>4 DEF Written
      <4>2. QED BY <1>1, <3>1, <3>2, <3>4, <4>1 DEF QueueInv
    <3>5. QED BY <3>2, <3>3, <3>4
  <2>3. \A s \in Subscribers : Written(s)' = Written(s)
    BY DEF Written
  <2>4. QED BY <2>1, <2>2, <2>3 DEF QueueInv
<1>3. SeenInv'
  <2> SUFFICES ASSUME conn \in Subscribers \ ctxDone', NEW i \in 1..Written(conn),
                      emitted'[conn][i].seq > 0
               PROVE  emitted'[conn][i].seq \in seen
    BY DEF SeenInv, Written
  <2>1. conn \in Subscribers \ ctxDone
    OBVIOUS
  <2>2. i \in 1..taken[conn] /\ taken[conn] <= Len(emitted[conn])
    BY <2>1, EmittedLength DEF QueueInv, StreamInv, IInv, Written
  <2>3. QED BY <1>1, <2>1, <2>2 DEF SeenInv
<1>4. QED BY <1>2, <1>3

\* What the publishers, the subscriptions and their cleanup have in common.
LEMMA PublisherFacts ==
  ASSUME MaxAuditFailures = 0, StreamInv, ServedInv, NEW p \in Publishers,
         \/ \E type \in PublishedTypes : AppendEvent(p, type)
         \/ AuditAppendFails(p) \/ PublisherStep(p)
  PROVE  /\ LogGrows
         /\ UNCHANGED <<exists, subs, done, ctxDone, spc, after, emitted, taken, unannounced>>
<1>1. CASE \E type \in PublishedTypes : AppendEvent(p, type)
  <2>1. PICK type \in PublishedTypes : AppendEvent(p, type)
    BY <1>1
  <2>2. log \in Seq(EventTypes) /\ type \in EventTypes /\ log' = Append(log, type)
    BY <2>1 DEF AppendEvent, StreamInv, IInv, TypeOK, EventTypes
  <2>3. LogGrows
    BY <2>2, AppendFacts DEF LogGrows
  <2>4. QED BY <2>1, <2>3 DEF AppendEvent, subVars, ghosts
<1>2. CASE AuditAppendFails(p)
  <2>1. Cardinality(unannounced) = 0
    BY FS_EmptySet DEF ServedInv
  <2>2. QED BY <1>2, <2>1 DEF AuditAppendFails
<1>3. CASE PublisherStep(p)
  <2>1. log' = log /\ UNCHANGED <<exists, subs, done, ctxDone, spc, after, emitted, taken, unannounced>>
    BY <1>3 DEF PublisherStep, FanoutSnapshot, FanoutSend, FanoutSkip, rowVars, subVars, ghosts
  <2>2. QED BY <2>1 DEF LogGrows, StreamInv, IInv, TypeOK
<1>4. QED BY <1>1, <1>2, <1>3

LEMMA SameLength ==
  ASSUME StreamInv
  PROVE  (log' = log => LogGrows) /\ (emitted' = emitted => EmittedGrows)
BY EmittedLength DEF LogGrows, EmittedGrows, StreamInv, IInv, TypeOK

LEMMA PublisherKeepsClient ==
  ASSUME MaxAuditFailures = 0, StreamInv, ClientInv, NEW p \in Publishers,
         \/ \E type \in PublishedTypes : AppendEvent(p, type)
         \/ AuditAppendFails(p) \/ PublisherStep(p),
         UNCHANGED clientVars
  PROVE  ClientInv'
<1>1. /\ LogGrows /\ EmittedGrows
      /\ UNCHANGED <<exists, subs, done, ctxDone, spc, after, emitted, taken, unannounced>>
      /\ UNCHANGED <<send, closed, conn, seen, cursor>>
  BY PublisherFacts, SameLength DEF ClientInv, clientVars
<1>2. ServedInv'
  BY <1>1 DEF ClientInv, ServedInv
<1>3. CursorInv'
  BY <1>1, CaughtGrows DEF ClientInv, CursorInv
<1>4. GapInv'
  BY <1>1, GapFrame DEF ClientInv, StreamInv
<1>5. QueueInv' /\ SeenInv'
  BY <1>1, QueueFrame DEF ClientInv
<1>6. QED BY <1>2, <1>3, <1>4, <1>5 DEF ClientInv

\* What the goroutine has put out of the replay leaves no gap.
LEMMA ReplayEmitGap ==
  ASSUME StreamInv, GapInv, NEW s \in Subscribers, ReplayEmit(s)
  PROVE  EmittedGrows /\ GapInv'
<1>1. /\ UNCHANGED <<log, after, ctxDone>>
      /\ replay[s] # << >> /\ replay[s] \in Seq(Event) /\ emitted[s] \in Seq(Event)
      /\ emitted' = [emitted EXCEPT ![s] = Append(emitted[s], Head(replay[s]))]
  BY DEF ReplayEmit, rowVars, StreamInv, IInv, TypeOK
<1>2. Head(replay[s]) = replay[s][1] /\ Head(replay[s]) \in Event /\ Len(replay[s]) \in Nat /\ 1 \in 1..Len(replay[s])
  BY <1>1, TailFacts
<1>h. PICK h \in Event : h = Head(replay[s])
  BY <1>2
<1>3. /\ emitted'[s] = Append(emitted[s], h)
      /\ \A x \in Subscribers : x # s => emitted'[x] = emitted[x]
  BY <1>1, <1>h DEF StreamInv, IInv, TypeOK
<1>4. /\ Len(emitted[s]) \in Nat /\ Len(emitted'[s]) = Len(emitted[s]) + 1
      /\ emitted'[s][Len(emitted[s]) + 1] = h
      /\ \A i \in 1..Len(emitted[s]) : emitted'[s][i] = emitted[s][i]
      /\ \A i \in 1..Len(emitted'[s]) : i \in 1..Len(emitted[s]) \/ i = Len(emitted[s]) + 1
  BY <1>1, <1>3, AppendFacts
<1>5. EmittedGrows
  <2>1. \A x \in Subscribers : Len(emitted[x]) \in Nat
    BY EmittedLength DEF StreamInv, IInv
  <2>2. QED BY <1>3, <1>4, <2>1 DEF EmittedGrows
<1>6. ASSUME NEW n \in 1..Len(log), after[s] < n, n < h.seq, Wanted(n) PROVE IsOut(s, n)
  <2>1. CASE n <= maxReplayed[s]
    BY <1>6, <2>1 DEF StreamInv, LossInv, MarkInv
  <2>2. CASE ~(n <= maxReplayed[s])
    <3>1. maxReplayed[s] < n
      BY <2>2 DEF StreamInv, IInv, TypeOK
    <3>2. PICK j \in 1..Len(replay[s]) : replay[s][j].seq = n
      BY <1>2, <1>6, <1>h, <3>1 DEF StreamInv, LossInv, SnapshotInv, SnapshotAt
    <3>3. j = 1 \/ replay[s][1].seq < replay[s][j].seq
      BY <1>2 DEF StreamInv, IInv, ReplayInv
    <3>4. h.seq \in Nat /\ n \in Nat
      BY DEF Event
    <3>5. QED BY <1>2, <1>6, <1>h, <3>2, <3>3, <3>4
  <2>3. QED BY <2>1, <2>2
<1>7. \A x \in Subscribers \ ctxDone : \A i \in 1..Len(emitted'[x]) :
        i \in 1..Len(emitted[x]) \/ (x = s /\ emitted'[x][i] = h)
  BY <1>3, <1>4
<1>8. \A x \in Subscribers \ ctxDone : \A i \in 1..Len(emitted'[x]) :
        \/ i \in 1..Len(emitted[x])
        \/ log' = log /\ \A n \in 1..Len(log) :
             after[x] < n /\ n < emitted'[x][i].seq /\ Wanted(n) => IsOut(x, n)
  BY <1>1, <1>6, <1>7
<1>9. GapInv'
  BY <1>1, <1>5, <1>8, SameLength, GapFrame DEF StreamInv
<1>10. QED BY <1>5, <1>9

\* Nor what comes live: all that is before it and wanted was owed to the
\* subscription, and nothing that is still on its way comes before it.
LEMMA LiveEmitGap ==
  ASSUME StreamInv, ServedInv, GapInv, NEW s \in Subscribers, LiveEmit(s)
  PROVE  EmittedGrows /\ GapInv'
<1>1. /\ UNCHANGED <<log, after, ctxDone>> /\ spc[s] = "emitting"
      /\ held[s] \in Seq(Event) /\ emitted[s] \in Seq(Event) /\ Len(held[s]) = 1
      /\ emitted' = [emitted EXCEPT ![s] = Append(emitted[s], Head(held[s]))]
  BY DEF LiveEmit, rowVars, StreamInv, IInv, TypeOK, HeldInv
<1>2. Head(held[s]) = held[s][1] /\ held[s][1] \in Event /\ 1 \in 1..Len(held[s])
      /\ \A i \in 1..Len(held[s]) : i = 1
  BY <1>1
<1>h. PICK h \in Event : h = held[s][1]
  BY <1>2
<1>3. /\ emitted'[s] = Append(emitted[s], h)
      /\ \A x \in Subscribers : x # s => emitted'[x] = emitted[x]
  BY <1>1, <1>2, <1>h DEF StreamInv, IInv, TypeOK
<1>4. /\ Len(emitted[s]) \in Nat /\ Len(emitted'[s]) = Len(emitted[s]) + 1
      /\ emitted'[s][Len(emitted[s]) + 1] = h
      /\ \A i \in 1..Len(emitted[s]) : emitted'[s][i] = emitted[s][i]
      /\ \A i \in 1..Len(emitted'[s]) : i \in 1..Len(emitted[s]) \/ i = Len(emitted[s]) + 1
  BY <1>1, <1>3, AppendFacts
<1>5. EmittedGrows
  <2>1. \A x \in Subscribers : Len(emitted[x]) \in Nat
    BY EmittedLength DEF StreamInv, IInv
  <2>2. QED BY <1>3, <1>4, <2>1 DEF EmittedGrows
<1>6. ASSUME s \notin ctxDone, NEW n \in 1..Len(log), after[s] < n, n < h.seq, Wanted(n)
      PROVE  IsOut(s, n)
  <2>1. Kept(s, n)
    BY <1>1, <1>6 DEF ServedInv, StreamInv, LossInv, KeptInv
  <2>2. replay[s] = << >>
    BY <1>1 DEF StreamInv, IInv, ReplayInv
  <2>3. n \in Nat /\ h.seq \in Nat /\ n > 0 /\ h.seq > 0
    BY <1>6 DEF Event
  <2>4. Before(s, h.seq)
    BY <1>2, <1>h, <2>3 DEF StreamInv, OrderInv, OrderOf, HeldOrder
  <2>5. ~\E i \in 1..Len(ch[s]) : ch[s][i].seq = n
    BY <1>6, <2>3, <2>4 DEF Before
  <2>6. ~\E p \in Publishers : cur[p].seq = n /\ Pending(p, s)
    BY <1>6, <2>3, <2>4 DEF Before
  <2>7. ~\E i \in 1..Len(held[s]) : held[s][i].seq = n
    BY <1>2, <1>6, <1>h, <2>3
  <2>8. QED BY <2>1, <2>2, <2>5, <2>6, <2>7 DEF Kept
<1>7. \A x \in Subscribers \ ctxDone : \A i \in 1..Len(emitted'[x]) :
        i \in 1..Len(emitted[x]) \/ (x = s /\ emitted'[x][i] = h)
  BY <1>3, <1>4
<1>8. \A x \in Subscribers \ ctxDone : \A i \in 1..Len(emitted'[x]) :
        \/ i \in 1..Len(emitted[x])
        \/ log' = log /\ \A n \in 1..Len(log) :
             after[x] < n /\ n < emitted'[x][i].seq /\ Wanted(n) => IsOut(x, n)
  BY <1>1, <1>6, <1>7
<1>9. GapInv'
  BY <1>1, <1>5, <1>8, SameLength, GapFrame DEF StreamInv
<1>10. QED BY <1>5, <1>9

LEMMA SubscriptionKeepsClient ==
  ASSUME StreamInv, ClientInv, NEW s \in Subscribers, StreamStep(s) \/ Cleanup(s),
         UNCHANGED clientVars
  PROVE  ClientInv'
<1>1. /\ UNCHANGED <<exists, log, after, taken, unannounced>>
      /\ UNCHANGED <<send, closed, conn, seen, cursor>>
  BY DEF StreamStep, ReplaySkip, ReplayEmit, ReplayEnd, LiveDrop, LiveReceive, LiveEmit, StreamExit, Cleanup,
         rowVars, subVars, ghosts, clientVars
<1>2. /\ ctxDone \subseteq ctxDone'
      /\ \A x \in Subscribers : spc'[x] \in {"idle", "checked"} <=> spc[x] \in {"idle", "checked"}
  BY DEF StreamStep, ReplaySkip, ReplayEmit, ReplayEnd, LiveDrop, LiveReceive, LiveEmit, StreamExit, Cleanup,
         StreamInv, IInv, TypeOK
<1>3. ServedInv'
  <2>1. CASE StreamStep(s)
    <3>1. UNCHANGED <<subs, done, ctxDone>>
      BY <2>1 DEF StreamStep, ReplaySkip, ReplayEmit, ReplayEnd, LiveDrop, LiveReceive, LiveEmit, StreamExit
    <3>2. QED BY <1>1, <1>2, <3>1 DEF ClientInv, ServedInv
  <2>2. CASE Cleanup(s)
    <3>1. ctxDone' = ctxDone \cup {s} /\ subs' = subs \ {s} /\ done' = done \cup {s} /\ spc' = spc
      BY <2>2 DEF Cleanup
    <3>2. QED BY <1>1, <3>1 DEF ClientInv, ServedInv
  <2>3. QED BY <2>1, <2>2
<1>4. LogGrows
  BY <1>1, SameLength
<1>5. CursorInv'
  BY <1>1, <1>4, CaughtGrows DEF ClientInv, CursorInv
<1>6. EmittedGrows /\ GapInv'
  <2>1. CASE ReplayEmit(s)
    BY <2>1, ReplayEmitGap DEF ClientInv
  <2>2. CASE LiveEmit(s)
    BY <2>2, LiveEmitGap DEF ClientInv
  <2>3. CASE emitted' = emitted
    <3>1. EmittedGrows
      BY <2>3, SameLength
    <3>2. QED BY <1>1, <1>2, <1>4, <2>3, <3>1, GapFrame DEF ClientInv, StreamInv
  <2>4. QED BY <2>1, <2>2, <2>3 DEF StreamStep, ReplaySkip, ReplayEnd, LiveDrop, LiveReceive, StreamExit, Cleanup, subVars
<1>7. QueueInv' /\ SeenInv'
  BY <1>1, <1>2, <1>6, QueueFrame DEF ClientInv
<1>8. QED BY <1>3, <1>5, <1>6, <1>7 DEF ClientInv

\* Steps that put nothing out and append nothing.
LEMMA StillFrame ==
  ASSUME StreamInv, ServedInv, CursorInv, GapInv, UNCHANGED <<log, exists, subs, done, emitted, after, unannounced>>,
         ctxDone \subseteq ctxDone', seen \subseteq seen', cursor' = cursor \/ cursor' \in Caught',
         \A s \in Subscribers : spc[s] \in {"idle", "checked"} => spc'[s] \in {"idle", "checked"}
  PROVE  ServedInv' /\ CursorInv' /\ GapInv'
<1>1. LogGrows /\ EmittedGrows
  BY SameLength
<1>2. GapInv'
  BY <1>1, GapFrame DEF StreamInv
<1>3. CursorInv'
  BY <1>1, CaughtGrows DEF CursorInv
<1>4. QED BY <1>2, <1>3 DEF ServedInv

\* A client that gives its connection up, or opens one.
LEMMA ClientLeaves ==
  ASSUME StreamInv, ClientInv, ClientDisconnects \/ ClientSeesClose
  PROVE  ClientInv'
<1>1. UNCHANGED vars /\ UNCHANGED <<send, closed, seen, cursor>> /\ conn' = NoSub
  BY DEF ClientDisconnects, ClientSeesClose
<1>2. ServedInv' /\ CursorInv' /\ GapInv'
  BY <1>1, StillFrame DEF ClientInv, vars, rowVars, subVars, ghosts
<1>3. QueueInv'
  BY <1>1 DEF ClientInv, QueueInv, Written, vars, subVars
<1>4. SeenInv'
  BY <1>1, SubscribersAssumption DEF SeenInv
<1>5. QED BY <1>2, <1>3, <1>4 DEF ClientInv

LEMMA ClientSubscribesStep ==
  ASSUME StreamInv, ClientInv, NEW s \in Subscribers, ClientSubscribes(s)
  PROVE  ClientInv'
<1>1. /\ UNCHANGED <<log, exists, subs, done, ctxDone, emitted, after, unannounced, taken, send, seen, cursor>>
      /\ spc[s] = "idle" /\ spc' = [spc EXCEPT ![s] = "checked"]
      /\ conn' = s
  BY DEF ClientSubscribes, SubscribeCheck, rowVars, subVars, ghosts
<1>2. \A x \in Subscribers : spc'[x] \in {"idle", "checked"} <=> spc[x] \in {"idle", "checked"}
  BY <1>1 DEF StreamInv, IInv, TypeOK
<1>3. ServedInv' /\ CursorInv' /\ GapInv'
  BY <1>1, <1>2, StillFrame DEF ClientInv
<1>4. QueueInv'
  BY <1>1, <1>2 DEF ClientInv, QueueInv, Written
<1>5. SeenInv'
  <2>1. taken[s] = 0 /\ send[s] = << >>
    BY <1>1 DEF ClientInv, QueueInv
  <2>2. Len(send[s]) = 0
    BY <2>1
  <2>3. taken[s] = 0
    BY <2>1
  <2>4. Written(s) = 0
    <3>1. taken[s] - Len(send[s]) = 0
      BY ONLY <2>2, <2>3
    <3>2. QED BY ONLY <3>1 DEF Written
  <2>5. Written(conn)' = 0
    BY <1>1, <2>4 DEF Written
  <2>6. QED BY <2>5 DEF SeenInv
<1>6. QED BY <1>3, <1>4, <1>5 DEF ClientInv

\* The new subscription starts from the client's cursor, and has put nothing out.
LEMMA ServerSubscribesStep ==
  ASSUME StreamInv, ClientTypes, ClientInv, NEW s \in Subscribers, ServerSubscribes(s)
  PROVE  ClientInv'
<1>1. /\ UNCHANGED <<log, exists, done, ctxDone, emitted, unannounced, taken, send, conn, seen, cursor>>
      /\ spc[s] = "checked" /\ spc' = [spc EXCEPT ![s] = "replaying"] /\ subs' = subs \cup {s}
      /\ after' = [after EXCEPT ![s] = cursor]
  BY DEF ServerSubscribes, SubscribeRegister, rowVars, ghosts, clientVars
<1>2. /\ \A x \in Subscribers : x # s => after'[x] = after[x] /\ spc'[x] = spc[x]
      /\ after'[s] = cursor /\ spc'[s] = "replaying" /\ emitted[s] = << >>
  BY <1>1 DEF StreamInv, IInv, TypeOK, FreshInv
<1>3. ServedInv'
  BY <1>1, <1>2 DEF ClientInv, ServedInv
<1>4. CursorInv'
  <2>1. Caught' = Caught
    BY <1>1 DEF Caught, Wanted
  <2>2. QED BY <1>1, <1>2, <2>1 DEF ClientInv, CursorInv
<1>5. GapInv'
  BY <1>1, <1>2 DEF ClientInv, GapInv, Wanted, IsOut
<1>6. QueueInv' /\ SeenInv'
  BY <1>1, <1>2, SameLength, QueueFrame DEF ClientInv
<1>7. QED BY <1>3, <1>4, <1>5, <1>6 DEF ClientInv

\* The connection is over: its queue is gone with it.
LEMMA EndsStep ==
  ASSUME StreamInv, ClientTypes, ClientInv, NEW s \in Subscribers, ConnectionEnds(s) \/ WriteFails(s)
  PROVE  ClientInv'
<1>1. /\ UNCHANGED <<log, exists, subs, done, spc, emitted, after, unannounced, taken, conn, seen, cursor>>
      /\ ctxDone' = ctxDone \cup {s} /\ send' = [send EXCEPT ![s] = << >>]
  BY DEF ConnectionEnds, ContextEnds, WriteFails, Shutdown, rowVars, subVars, ghosts
<1>2. ServedInv' /\ CursorInv' /\ GapInv'
  BY <1>1, StillFrame DEF ClientInv
<1>3. /\ send'[s] = << >>
      /\ \A x \in Subscribers : x # s => send'[x] = send[x]
  BY <1>1 DEF ClientTypes
<1>4. \A x \in Subscribers \ ctxDone' : x # s /\ Written(x)' = Written(x)
  BY <1>1, <1>3 DEF Written
<1>5. QueueInv'
  <2>1. ASSUME NEW x \in Subscribers, spc'[x] \in {"idle", "checked"} PROVE taken'[x] = 0 /\ send'[x] = << >>
    BY <1>1, <1>3, <2>1 DEF ClientInv, QueueInv
  <2>2. ASSUME NEW x \in Subscribers \ ctxDone'
        PROVE  /\ Len(send'[x]) <= taken'[x] /\ taken'[x] <= Len(emitted'[x])
               /\ \A i \in 1..Len(send'[x]) : send'[x][i] = emitted'[x][Written(x)' + i]
    <3>1. x \in Subscribers \ ctxDone /\ send'[x] = send[x] /\ Written(x)' = Written(x)
      BY <1>1, <1>3, <1>4, <2>2
    <3>2. QED BY <1>1, <3>1 DEF ClientInv, QueueInv
  <2>3. QED BY <2>1, <2>2 DEF QueueInv
<1>6. SeenInv'
  BY <1>1, <1>4 DEF ClientInv, SeenInv
<1>7. QED BY <1>2, <1>5, <1>6 DEF ClientInv

\* A frame taken goes to the end of the queue, or the connection is over.
LEMMA EnqueueFrameStep ==
  ASSUME StreamInv, ClientTypes, ClientInv, NEW s \in Subscribers, EnqueueFrame(s)
  PROVE  ClientInv'
<1>1. /\ UNCHANGED <<log, exists, subs, done, spc, emitted, after, unannounced, conn, seen, cursor>>
      /\ ctxDone \subseteq ctxDone' /\ fwd[s] = "running" /\ taken[s] < Len(emitted[s])
      /\ taken' = [taken EXCEPT ![s] = taken[s] + 1]
  BY DEF EnqueueFrame, TakeEvent, Shutdown, rowVars, subVars, ghosts
<1>2. ServedInv' /\ CursorInv' /\ GapInv'
  BY <1>1, StillFrame DEF ClientInv
<1>3. /\ taken'[s] = taken[s] + 1 /\ taken[s] \in Nat /\ Len(emitted[s]) \in Nat
      /\ \A x \in Subscribers : x # s => taken'[x] = taken[x] /\ send'[x] = send[x]
  <2>1. \A x \in Subscribers : x # s => send'[x] = send[x]
    BY DEF EnqueueFrame, Shutdown, ClientTypes
  <2>2. QED BY <1>1, <2>1, EmittedLength DEF StreamInv, IInv, TypeOK
<1>4. spc[s] \notin {"idle", "checked"}
  BY <1>1 DEF StreamInv, LossInv, RegisteredInv
<1>5. s \notin ctxDone' => send'[s] = Append(send[s], emitted[s][taken[s] + 1])
  BY DEF EnqueueFrame, Shutdown, ClientTypes
<1>6. send[s] \in Seq(Event) /\ emitted[s][taken[s] + 1] \in Event
  <2>1. emitted[s] \in Seq(Event)
    BY DEF StreamInv, IInv, TypeOK
  <2>2. QED BY <1>1, <1>3, <2>1 DEF ClientTypes
<1>7. ASSUME s \notin ctxDone'
      PROVE  /\ Len(send'[s]) = Len(send[s]) + 1 /\ Len(send[s]) \in Nat
             /\ send'[s][Len(send[s]) + 1] = emitted[s][taken[s] + 1]
             /\ \A i \in 1..Len(send[s]) : send'[s][i] = send[s][i]
             /\ \A i \in 1..Len(send'[s]) : i \in 1..Len(send[s]) \/ i = Len(send[s]) + 1
  BY <1>5, <1>6, <1>7, AppendFacts
<1>8. ASSUME NEW x \in Subscribers \ ctxDone' PROVE Written(x)' = Written(x)
  <2>1. CASE x # s
    BY <1>3, <1>8, <2>1 DEF Written
  <2>2. CASE x = s
    <3>1. /\ taken'[s] = taken[s] + 1 /\ taken[s] \in Nat
          /\ Len(send'[s]) = Len(send[s]) + 1 /\ Len(send[s]) \in Nat
      BY <1>3, <1>7, <1>8, <2>2
    <3>2. taken'[s] - Len(send'[s]) = taken[s] - Len(send[s])
      BY ONLY <3>1
    <3>3. QED BY <2>2, <3>2 DEF Written
  <2>3. QED BY <2>1, <2>2
<1>9. QueueInv'
  <2>1. ASSUME NEW x \in Subscribers, spc'[x] \in {"idle", "checked"} PROVE taken'[x] = 0 /\ send'[x] = << >>
    BY <1>1, <1>3, <1>4, <2>1 DEF ClientInv, QueueInv
  <2>2. ASSUME NEW x \in Subscribers \ ctxDone'
        PROVE  /\ Len(send'[x]) <= taken'[x] /\ taken'[x] <= Len(emitted'[x])
               /\ \A i \in 1..Len(send'[x]) : send'[x][i] = emitted'[x][Written(x)' + i]
    <3>1. /\ Len(send[x]) <= taken[x] /\ taken[x] <= Len(emitted[x])
          /\ \A i \in 1..Len(send[x]) : send[x][i] = emitted[x][Written(x) + i]
      BY <1>1, <2>2 DEF ClientInv, QueueInv
    <3>2. CASE x # s
      BY <1>1, <1>3, <1>8, <2>2, <3>1, <3>2
    <3>3. CASE x = s
      <4>1. Written(s) + (Len(send[s]) + 1) = taken[s] + 1
        BY <1>3, <1>7, <2>2, <3>3 DEF Written
      <4>2. \A i \in 1..Len(send'[s]) : send'[s][i] = emitted[s][Written(s) + i]
        BY <1>7, <2>2, <3>1, <3>3, <4>1
      <4>3. QED BY <1>1, <1>3, <1>7, <1>8, <2>2, <3>1, <3>3, <4>2
    <3>4. QED BY <3>2, <3>3
  <2>3. QED BY <2>1, <2>2 DEF QueueInv
<1>10. SeenInv'
  BY <1>1, <1>8 DEF ClientInv, SeenInv
<1>11. QED BY <1>2, <1>9, <1>10 DEF ClientInv

\* The client's cursor moves over nothing it has not seen.
LEMMA WriteFrameStep ==
  ASSUME StreamInv, ClientTypes, ClientInv, NEW s \in Subscribers, WriteFrame(s)
  PROVE  ClientInv'
<1>1. /\ UNCHANGED <<log, exists, subs, done, ctxDone, spc, emitted, after, unannounced, taken, conn>>
      /\ send[s] # << >> /\ s \notin ctxDone /\ send' = [send EXCEPT ![s] = Tail(send[s])]
      /\ send[s] \in Seq(Event)
  BY DEF WriteFrame, ClientTypes, vars, rowVars, subVars, ghosts
<1>2. /\ Len(send[s]) \in Nat \ {0} /\ Head(send[s]) = send[s][1] /\ Head(send[s]) \in Event
      /\ Len(Tail(send[s])) = Len(send[s]) - 1
      /\ \A i \in 1..Len(Tail(send[s])) : Tail(send[s])[i] = send[s][i + 1] /\ i + 1 \in 1..Len(send[s])
  BY <1>1, TailFacts
<1>e. PICK e \in Event : e = Head(send[s])
  BY <1>2
<1>t. /\ Len(send[s]) <= taken[s] /\ taken[s] <= Len(emitted[s]) /\ taken[s] \in Nat
      /\ Len(emitted[s]) \in Nat
  BY <1>1, EmittedLength DEF ClientInv, QueueInv, StreamInv, IInv
<1>w. PICK w \in Nat : w = Written(s) /\ w + Len(send[s]) = taken[s] /\ taken[s] <= Len(emitted[s])
  <2>1. taken[s] - Len(send[s]) \in Nat /\ (taken[s] - Len(send[s])) + Len(send[s]) = taken[s]
    BY <1>2, <1>t
  <2>2. QED BY <1>t, <2>1 DEF Written
<1>3. e = emitted[s][w + 1] /\ w + 1 \in 1..Len(emitted[s]) /\ e.seq \in Nat /\ Len(emitted[s]) \in Nat
  <2>1. 1 \in 1..Len(send[s]) /\ w + 1 \in 1..Len(emitted[s])
    BY <1>2, <1>t, <1>w
  <2>2. send[s][1] = emitted[s][w + 1]
    BY <1>1, <1>w, <2>1 DEF ClientInv, QueueInv
  <2>3. QED BY <1>2, <1>e, <1>t, <2>1, <2>2 DEF Event
<1>4. /\ send'[s] = Tail(send[s]) /\ \A x \in Subscribers : x # s => send'[x] = send[x]
  BY <1>1 DEF ClientTypes
<1>5. /\ Written(s)' = w + 1 /\ \A x \in Subscribers : x # s => Written(x)' = Written(x)
  <2>1. taken[s] - Len(Tail(send[s])) = w + 1
    BY <1>2, <1>t, <1>w
  <2>2. Written(s)' = w + 1
    BY <1>1, <1>4, <2>1 DEF Written
  <2>3. ASSUME NEW x \in Subscribers, x # s PROVE Written(x)' = Written(x)
    BY <1>1, <1>4, <2>3 DEF Written
  <2>4. QED BY <2>2, <2>3
<1>6. QueueInv'
  <2>1. ASSUME NEW x \in Subscribers, spc'[x] \in {"idle", "checked"} PROVE taken'[x] = 0 /\ send'[x] = << >>
    BY <1>1, <1>4, <2>1 DEF ClientInv, QueueInv
  <2>2. ASSUME NEW x \in Subscribers \ ctxDone'
        PROVE  /\ Len(send'[x]) <= taken'[x] /\ taken'[x] <= Len(emitted'[x])
               /\ \A i \in 1..Len(send'[x]) : send'[x][i] = emitted'[x][Written(x)' + i]
    <3>1. /\ Len(send[x]) <= taken[x] /\ taken[x] <= Len(emitted[x])
          /\ \A i \in 1..Len(send[x]) : send[x][i] = emitted[x][Written(x) + i]
      BY <1>1, <2>2 DEF ClientInv, QueueInv
    <3>2. CASE x # s
      BY <1>1, <1>4, <1>5, <3>1, <3>2
    <3>3. CASE x = s
      <4>1. \A i \in 1..Len(send'[s]) : send'[s][i] = emitted[s][(w + 1) + i]
        <5> SUFFICES ASSUME NEW i \in 1..Len(Tail(send[s]))
                     PROVE  Tail(send[s])[i] = emitted[s][(w + 1) + i]
          BY <1>4
        <5>1. (w + 1) + i = w + (i + 1)
          BY <1>2
        <5>2. send[s][i + 1] = emitted[s][w + (i + 1)]
          BY <1>2, <1>w, <3>1, <3>3
        <5>3. QED BY <1>2, <5>1, <5>2
      <4>2. Len(send'[s]) <= taken[s]
        BY <1>2, <1>4, <1>t
      <4>3. QED BY <1>1, <1>5, <1>t, <3>3, <4>1, <4>2
    <3>4. QED BY <3>2, <3>3
  <2>3. QED BY <2>1, <2>2 DEF QueueInv
<1>7. CASE ~(conn = s /\ e.seq > 0)
  <2>1. UNCHANGED <<seen, cursor>>
    BY <1>7, <1>e DEF WriteFrame
  <2>2. ServedInv' /\ CursorInv' /\ GapInv'
    BY <1>1, <2>1, StillFrame DEF ClientInv
  <2>3. SeenInv'
    <3> SUFFICES ASSUME conn \in Subscribers \ ctxDone, NEW i \in 1..Written(conn)', emitted[conn][i].seq > 0
                 PROVE  emitted[conn][i].seq \in seen
      BY <1>1, <2>1 DEF SeenInv, Written
    <3>1. CASE conn # s
      <4>1. Written(conn)' = Written(conn)
        BY <1>1, <1>4, <3>1 DEF Written
      <4>2. QED BY <3>1, <4>1 DEF ClientInv, SeenInv
    <3>2. CASE conn = s
      <4>1. i \in 1..w \/ i = w + 1
        BY <1>1, <1>5, <3>2 DEF Written
      <4>2. i # w + 1
        BY <1>3, <1>7, <3>2
      <4>3. QED BY <1>w, <3>2, <4>1, <4>2 DEF ClientInv, SeenInv
    <3>3. QED BY <3>1, <3>2
  <2>4. QED BY <1>6, <2>2, <2>3 DEF ClientInv
<1>8. CASE conn = s /\ e.seq > 0
  <2>1. /\ seen' = seen \cup {e.seq}
        /\ cursor' = IF e.seq > cursor THEN e.seq ELSE cursor
    BY <1>8, <1>e DEF WriteFrame
  <2>2. ASSUME NEW n \in 1..Len(log), n <= e.seq, Wanted(n) PROVE n \in seen'
    <3>1. CASE n <= after[s]
      BY <2>1, <2>2, <3>1 DEF ClientInv, CursorInv, Caught
    <3>2. CASE n = e.seq
      BY <2>1, <3>2
    <3>3. CASE after[s] < n /\ n < e.seq
      <4>1. PICK j \in 1..Len(emitted[s]) : emitted[s][j].seq = n
        BY <1>1, <1>3, <2>2, <3>3 DEF ClientInv, GapInv, IsOut
      <4>2. ~(w + 1 < j)
        <5>1. w + 1 < j => emitted[s][w + 1].seq < emitted[s][j].seq
          BY <1>3, <1>8, <4>1 DEF StreamInv, OrderInv, OrderOf, InSeq
        <5>2. QED BY <1>3, <3>3, <4>1, <5>1
      <4>3. j # w + 1
        BY <1>3, <3>3, <4>1
      <4>4. j \in 1..w
        BY <4>2, <4>3
      <4>5. n \in seen
        BY <1>1, <1>8, <1>w, <4>1, <4>4 DEF ClientInv, SeenInv
      <4>6. QED BY <2>1, <4>5
    <3>4. n \in Nat /\ e.seq \in Nat /\ after[s] \in Nat
      BY <1>3, EmittedLength DEF StreamInv, IInv
    <3>5. QED BY <2>2, <3>1, <3>2, <3>3, <3>4
  <2>3. e.seq <= Len(log) /\ Len(log) \in Nat
    BY <1>3, EmittedLength DEF StreamInv, IInv, BoundInv
  <2>4. e.seq \in Caught'
    BY <1>1, <1>3, <2>2, <2>3 DEF Caught, Wanted
  <2>5. ServedInv' /\ CursorInv' /\ GapInv'
    BY <1>1, <2>1, <2>4, StillFrame DEF ClientInv
  <2>6. SeenInv'
    <3> SUFFICES ASSUME NEW i \in 1..(w + 1), emitted[s][i].seq > 0
                 PROVE  emitted[s][i].seq \in seen'
      BY <1>1, <1>5, <1>8 DEF SeenInv, Written
    <3>1. CASE i \in 1..w
      BY <1>1, <1>8, <1>w, <2>1, <3>1 DEF ClientInv, SeenInv
    <3>2. CASE i = w + 1
      BY <1>3, <2>1, <3>2
    <3>3. QED BY <3>1, <3>2
  <2>7. QED BY <1>6, <2>5, <2>6 DEF ClientInv
<1>9. QED BY <1>7, <1>8

LEMMA NextClientInv ==
  ASSUME MaxAuditFailures = 0, StreamInv, ClientTypes, ClientInv, [ClientNext]_allVars
  PROVE  ClientInv'
<1>1. CASE UNCHANGED allVars
  <2>1. UNCHANGED vars /\ UNCHANGED clientVars
    BY <1>1 DEF allVars
  <2>2. ServedInv' /\ CursorInv' /\ GapInv'
    BY <2>1, StillFrame DEF ClientInv, vars, rowVars, subVars, ghosts, clientVars
  <2>3. QueueInv' /\ SeenInv'
    BY <2>1, SameLength, QueueFrame DEF ClientInv, vars, subVars, clientVars
  <2>4. QED BY <2>2, <2>3 DEF ClientInv
<1>2. CASE ClientNext
  BY <1>2, PublisherKeepsClient, SubscriptionKeepsClient, ClientLeaves, ClientSubscribesStep, ServerSubscribesStep,
     EndsStep, EnqueueFrameStep, WriteFrameStep DEF ClientNext
<1>3. QED BY <1>1, <1>2

LEMMA InitClientInv == ClientInit => ClientInv
<1> SUFFICES ASSUME ClientInit PROVE ClientInv
  OBVIOUS
<1>1. Init /\ StreamInv
  BY InitClientTypes DEF ClientInit
<1>2. ServedInv /\ GapInv /\ SeenInv
  BY <1>1, SubscribersAssumption DEF Init, ClientInit, ServedInv, GapInv, SeenInv
<1>3. CursorInv
  <2>1. Len(log) \in Nat
    BY <1>1 DEF StreamInv, IInv, TypeOK
  <2>2. 0 \in Caught
    BY <2>1 DEF Caught
  <2>3. QED BY <1>1, <2>2 DEF Init, ClientInit, CursorInv
<1>4. QueueInv
  BY <1>1 DEF Init, ClientInit, QueueInv
<1>5. QED BY <1>2, <1>3, <1>4 DEF ClientInv

LEMMA NothingMissed == StreamInv /\ ClientTypes /\ ClientInv => ReconnectLosesNothing
<1> SUFFICES ASSUME StreamInv, ClientTypes, ClientInv, NEW s \in Subscribers, Subscribed(s),
                    NEW n \in 1..Len(log), Wanted(n)
             PROVE  n \in seen \/ OnItsWay(s, n)
  BY DEF ReconnectLosesNothing, Wanted
<1>1. s \in subs \ ctxDone /\ conn = s
  BY DEF Subscribed
<1>2. /\ DOMAIN replay[s] = 1..Len(replay[s]) /\ DOMAIN ch[s] = 1..Len(ch[s])
      /\ DOMAIN held[s] = 1..Len(held[s]) /\ DOMAIN emitted[s] = 1..Len(emitted[s])
      /\ DOMAIN send[s] = 1..Len(send[s])
      /\ after[s] \in Nat /\ taken[s] \in Nat /\ Len(emitted[s]) \in Nat /\ Len(send[s]) \in Nat
  BY DEF StreamInv, IInv, TypeOK, ClientTypes
<1>3. CASE n <= after[s]
  BY <1>3 DEF ClientInv, CursorInv, Caught
<1>4. CASE after[s] < n
  <2>1. Kept(s, n)
    BY <1>1, <1>4 DEF ClientInv, ServedInv, StreamInv, LossInv, KeptInv
  <2>2. CASE IsOut(s, n)
    <3>1. PICK i \in 1..Len(emitted[s]) : emitted[s][i].seq = n
      BY <2>2 DEF IsOut
    <3>2. CASE i > taken[s]
      BY <1>2, <3>1, <3>2 DEF OnItsWay
    <3>3. CASE i \in 1..Written(s)
      BY <1>1, <3>1, <3>3 DEF ClientInv, SeenInv
    <3>4. CASE Written(s) < i /\ i <= taken[s]
      <4>1. i - Written(s) \in 1..Len(send[s]) /\ Written(s) + (i - Written(s)) = i
        BY <1>2, <3>4 DEF Written
      <4>2. send[s][i - Written(s)] = emitted[s][i]
        BY <1>1, <4>1 DEF ClientInv, QueueInv
      <4>3. QED BY <1>2, <3>1, <4>1, <4>2 DEF OnItsWay
    <3>5. QED BY <1>2, <3>2, <3>3, <3>4 DEF Written
  <2>3. CASE ~IsOut(s, n)
    <3>1. Awaiting(s, n)
      BY <1>2, <2>1, <2>3 DEF Kept, Awaiting, Pending
    <3>2. QED BY <3>1 DEF OnItsWay
  <2>4. QED BY <2>2, <2>3
<1>5. QED BY <1>2, <1>3, <1>4

\* "reconnect/replay loses no persisted event": with one publisher, whatever
\* connections came and went, what a subscribed client does not have is on its
\* way to it over the connection it is on.
THEOREM ReconnectingIsSafe ==
  OnePublisher /\ MaxAuditFailures = 0 => (ClientSpec => []ReconnectLosesNothing)
<1> SUFFICES ASSUME OnePublisher, MaxAuditFailures = 0 PROVE ClientSpec => []ReconnectLosesNothing
  OBVIOUS
<1>1. ClientInit => StreamInv /\ ClientTypes /\ ClientInv
  BY InitClientTypes, InitClientInv
<1>2. StreamInv /\ ClientTypes /\ ClientInv /\ [ClientNext]_allVars => StreamInv' /\ ClientTypes' /\ ClientInv'
  BY ClientKeepsStream, ClientKeepsTypes, NextClientInv
<1>3. QED BY <1>1, <1>2, NothingMissed, PTL DEF ClientSpec
=============================================================================
