----------------------------- MODULE StreamClient -----------------------------
(***************************************************************************)
(* SessionStream carried to a phone: the connWriter that serialises every  *)
(* outbound frame of a connection, and the client that reconnects with     *)
(* after_seq set to the last seq it saw.                                   *)
(*                                                                         *)
(* A subscription stands for the connection that carries it.  The client   *)
(* is not part of the repository: it is modelled from the frames the       *)
(* server takes and from what server.go and the tests say of it.  A frame  *)
(* on the network is counted as still in the writer's queue: both are lost *)
(* with the connection.  Ephemeral deltas and Delete leave nothing for a   *)
(* reconnecting client to catch up with: SessionStream has them.           *)
(***************************************************************************)
EXTENDS SessionStream

CONSTANT SendCap        \* capacity of connWriter.send (1024 in the code)

ASSUME SendCapAssumption == SendCap \in Nat \ {0}

VARIABLES
  send,      \* the frames queued on each connection's writer
  closed,    \* the connections whose writer has shut down
  conn,      \* the connection the client uses, or NoSub
  seen,      \* the persisted events the client has received
  cursor     \* the largest seq among them: its next after_seq

clientVars == <<send, closed, conn, seen, cursor>>
allVars == <<vars, clientVars>>

\* connWriter.shutdown: close done and cancel the connection's context.  The
\* writer goroutine returns and what is queued is never written.
Shutdown(s) ==
  /\ closed' = closed \cup {s}
  /\ ctxDone' = ctxDone \cup {s}
  /\ send' = [send EXCEPT ![s] = << >>]

\* Mutant: what does not fit is dropped.
EnqueueFrameOrDrop(s) ==
  /\ TakeEvent(s)
  /\ send' = IF Len(send[s]) < SendCap
             THEN [send EXCEPT ![s] = Append(@, emitted[s][taken[s] + 1])] ELSE send
  /\ UNCHANGED <<closed, ctxDone, conn, seen, cursor>>

\* connWriter.enqueue of the next session.event frame: it never waits.  On a
\* writer already shut down the select takes either ready case.
EnqueueFrame(s) ==
  LET ev == emitted[s][taken[s] + 1] IN
  /\ TakeEvent(s)
  /\ \/ /\ Len(send[s]) < SendCap
        /\ send' = [send EXCEPT ![s] = Append(@, ev)]
        /\ UNCHANGED <<closed, ctxDone>>
     \/ /\ s \in closed
        /\ UNCHANGED <<send, closed, ctxDone>>
     \/ /\ Len(send[s]) = SendCap /\ s \notin closed
        /\ Shutdown(s)                  \* overflow
  /\ UNCHANGED <<conn, seen, cursor>>

\* writerLoop writes the oldest frame.  A client still on this connection
\* shows the event and moves its cursor.
WriteFrame(s) ==
  LET ev == Head(send[s]) IN
  /\ send[s] # << >>
  /\ s \notin closed \cup ctxDone
  /\ send' = [send EXCEPT ![s] = Tail(@)]
  /\ IF conn = s /\ ev.seq > 0
     THEN /\ seen' = seen \cup {ev.seq}
          /\ cursor' = IF ev.seq > cursor THEN ev.seq ELSE cursor
     ELSE UNCHANGED <<seen, cursor>>
  /\ UNCHANGED <<vars, closed, conn>>

\* A write fails: the client has gone.
WriteFails(s) ==
  /\ send[s] # << >>
  /\ s \notin closed \cup ctxDone
  /\ conn # s
  /\ Shutdown(s)
  /\ UNCHANGED <<rowVars, pubVars, subs, done, spc, subVars, ch, taken, fwd, ghosts, conn, seen, cursor>>

\* The client gives a connection up; the agent may notice only later.
ClientDisconnects ==
  /\ conn # NoSub
  /\ conn' = NoSub
  /\ UNCHANGED <<vars, send, closed, seen, cursor>>

\* The client opens a connection and sends session.subscribe with its cursor.
ClientSubscribes(s) ==
  /\ conn = NoSub
  /\ SubscribeCheck(s)
  /\ conn' = s
  /\ UNCHANGED <<send, closed, seen, cursor>>

ServerSubscribes(s) == SubscribeRegister(s, cursor) /\ conn = s /\ UNCHANGED clientVars

\* The read loop ends, and with it the connection's context.
ConnectionEnds(s) ==
  /\ conn # s
  /\ ContextEnds(s)
  /\ send' = [send EXCEPT ![s] = << >>]
  /\ UNCHANGED <<closed, conn, seen, cursor>>

\* The client also learns that its connection was closed by the agent.
ClientSeesClose ==
  /\ conn \in ctxDone
  /\ conn' = NoSub
  /\ UNCHANGED <<vars, send, closed, seen, cursor>>

ClientInit ==
  /\ Init
  /\ send = [s \in Subscribers |-> << >>]
  /\ closed = {}
  /\ conn = NoSub
  /\ seen = {}
  /\ cursor = 0

ClientNext ==
  \/ /\ \/ \E p \in Publishers :
             \/ \E type \in PublishedTypes : AppendEvent(p, type)
             \/ AuditAppendFails(p) \/ PublisherStep(p)
        \/ \E s \in Subscribers : StreamStep(s) \/ Cleanup(s)
     /\ UNCHANGED clientVars
  \/ \E s \in Subscribers :
       \/ EnqueueFrame(s) \/ WriteFrame(s) \/ WriteFails(s)
       \/ ClientSubscribes(s) \/ ServerSubscribes(s) \/ ConnectionEnds(s)
  \/ ClientDisconnects \/ ClientSeesClose

\* The agent's goroutines run.  The client is left free to go away.
ClientFairness ==
  /\ \A p \in Publishers : WF_allVars(PublisherStep(p) /\ UNCHANGED clientVars)
  /\ \A s \in Subscribers :
       /\ WF_allVars(StreamStep(s) /\ UNCHANGED clientVars)
       /\ WF_allVars(EnqueueFrame(s))
       /\ WF_allVars(Cleanup(s) /\ UNCHANGED clientVars)
       /\ WF_allVars(WriteFrame(s))

ClientSpec == ClientInit /\ [][ClientNext]_allVars
ClientFairSpec == ClientSpec /\ ClientFairness

-----------------------------------------------------------------------------
\* Types, and the bound of the writer's queue.
ClientTypeOK ==
  /\ send \in [Subscribers -> Seq(Event)]
  /\ \A s \in Subscribers : Len(send[s]) <= SendCap
  /\ closed \subseteq Subscribers
  /\ conn \in Subscribers \cup {NoSub}
  /\ seen \subseteq 1..MaxSeq
  /\ cursor \in 0..MaxSeq

Subscribed(s) == conn = s /\ s \in subs /\ s \notin ctxDone

\* The frames of connection s that the client can still receive.
OnItsWay(s, n) ==
  \/ Awaiting(s, n)
  \/ \E i \in DOMAIN emitted[s] : i > taken[s] /\ emitted[s][i].seq = n
  \/ \E i \in DOMAIN send[s] : send[s][i].seq = n

\* "reconnect/replay loses no persisted event" (phase7_test.go): whatever
\* connections came and went before, a subscribed client has every persisted
\* event of the session or will get it over the connection it is on.
ReconnectLosesNothing ==
  \A s \in Subscribers : Subscribed(s) =>
    \A n \in 1..Len(log) :
      log[n] # "ask_question" => n \in seen \/ OnItsWay(s, n)

\* The same promise, of what no reconnection brings any more: the events up to the
\* client's cursor.
\* Not so: the event of a decision whose audit row failed is stored and told to
\* nobody, and the next event takes the cursor beyond it.
CursorSkipsNothing ==
  \A n \in 1..Len(log) : (n <= cursor /\ log[n] # "ask_question") => n \in seen

\* A client that keeps its connection gets every persisted event in the end;
\* the only ways out are that the connection is closed or the decision failed.
CatchesUp ==
  \A n \in 1..MaxSeq : \A s \in Subscribers :
    (Subscribed(s) /\ n <= Len(log) /\ log[n] # "ask_question")
      ~> (n \in seen \/ n \in unannounced \/ ~Subscribed(s))

=============================================================================
