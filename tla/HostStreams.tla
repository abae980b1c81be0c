------------------------------ MODULE HostStreams ------------------------------
(***************************************************************************)
(* The streams a connection subscribes to by a name of the client's:       *)
(* container logs, container statistics, host metrics.  Each kind has a    *)
(* map from names to the generation that holds the name, shared by every   *)
(* connection; one kind is chosen for a behaviour.                         *)
(***************************************************************************)
EXTENDS Naturals, Sequences

CONSTANTS
  Clients,
  Names,       \* subscription ids
  MaxGen       \* bound: streams ever subscribed

StreamKinds == {"logs", "stats", "metrics"}

VARIABLES
  what,        \* the kind of stream
  connected,
  entry,       \* xxxCancels: the generation under each name, 0 for none
  stream,      \* each generation, in order: its name, client, cancellation, goroutine
  toldDone     \* each client: names it was told have ended, and how

streamVars == <<what, connected, entry, stream, toldDone>>

Gens == DOMAIN stream

Cancel(s, g) == IF g = 0 THEN s ELSE [s EXCEPT ![g].cancelled = TRUE]
Serving(c) == \E g \in Gens : stream[g].client = c /\ stream[g].at = "ack"
Told(c, n, ok) == toldDone' = IF c \in connected THEN [toldDone EXCEPT ![c] = @ \cup {<<n, ok>>}]
                                                 ELSE toldDone

\* xxx_subscribe takes the name, from another stream if need be.
StreamSubscribe(c, n) ==
  /\ c \in connected /\ ~Serving(c)
  /\ Len(stream) < MaxGen
  /\ entry' = [entry EXCEPT ![n] = Len(stream) + 1]
  /\ stream' = Append(Cancel(stream, entry[n]),
                      [name |-> n, client |-> c, cancelled |-> FALSE, at |-> "ack"])
  /\ UNCHANGED <<what, connected, toldDone>>

\* The answer, then the goroutine.
StreamStarts(g) ==
  /\ stream[g].at = "ack"
  /\ stream' = [stream EXCEPT ![g].at = "live"]
  /\ toldDone' = [toldDone EXCEPT ![stream[g].client] = {t \in @ : t[1] # stream[g].name}]
  /\ UNCHANGED <<what, connected, entry>>

\* How a stream that was cancelled ends: the readers of statistics and metrics
\* take it for an end, the reader of logs for an error.
Ending(g) == IF ~stream[g].cancelled THEN {TRUE, FALSE}
             ELSE IF what = "logs" THEN {FALSE} ELSE {TRUE}

\* The daemon closed the stream, or it failed, or it was cancelled: xxx_done.
StreamEnds(g) ==
  /\ stream[g].at = "live"
  /\ what = "metrics" => stream[g].cancelled
  /\ \E ok \in Ending(g) : Told(stream[g].client, stream[g].name, ok)
  /\ stream' = [stream EXCEPT ![g].at = "ended"]
  /\ UNCHANGED <<what, connected, entry>>

\* Mutant: the name is freed whoever holds it.
StreamLeavesAny(g) ==
  /\ stream[g].at = "ended"
  /\ entry' = [entry EXCEPT ![stream[g].name] = 0]
  /\ stream' = [stream EXCEPT ![g].at = "gone", ![g].cancelled = TRUE]
  /\ UNCHANGED <<what, connected, toldDone>>

\* The deferred cleanup frees the name only if this generation holds it.
StreamLeaves(g) ==
  /\ stream[g].at = "ended"
  /\ entry' = [entry EXCEPT ![stream[g].name] = IF @ = g THEN 0 ELSE @]
  /\ stream' = [stream EXCEPT ![g].at = "gone", ![g].cancelled = TRUE]
  /\ UNCHANGED <<what, connected, toldDone>>

\* xxx_unsubscribe cancels whatever holds the name, whoever asked for it.
StreamUnsubscribe(c, n) ==
  /\ c \in connected /\ ~Serving(c)
  /\ entry[n] # 0
  /\ stream' = Cancel(stream, entry[n])
  /\ entry' = [entry EXCEPT ![n] = 0]
  /\ UNCHANGED <<what, connected, toldDone>>

\* The context of a connection is the parent of its streams'.
Disconnects(c) ==
  /\ c \in connected
  /\ connected' = connected \ {c}
  /\ stream' = [g \in Gens |-> IF stream[g].client = c /\ stream[g].at # "gone"
                                 THEN [stream[g] EXCEPT !.cancelled = TRUE] ELSE stream[g]]
  /\ toldDone' = [toldDone EXCEPT ![c] = {}]
  /\ UNCHANGED <<what, entry>>

Connects(c) ==
  /\ c \notin connected
  /\ ~\E g \in Gens : stream[g].client = c /\ stream[g].at = "ack"
  /\ connected' = connected \cup {c}
  /\ UNCHANGED <<what, entry, stream, toldDone>>

StreamsInit ==
  /\ what \in StreamKinds
  /\ connected = Clients
  /\ entry = [n \in Names |-> 0]
  /\ stream = <<>>
  /\ toldDone = [c \in Clients |-> {}]

StreamsNext ==
  \/ \E c \in Clients : Disconnects(c) \/ Connects(c)
  \/ \E c \in Clients, n \in Names : StreamSubscribe(c, n) \/ StreamUnsubscribe(c, n)
  \/ \E g \in Gens : StreamStarts(g) \/ StreamEnds(g) \/ StreamLeaves(g)

StreamsSpec == StreamsInit /\ [][StreamsNext]_streamVars

-----------------------------------------------------------------------------
StreamsTypeOK ==
  /\ what \in StreamKinds /\ connected \subseteq Clients
  /\ entry \in [Names -> 0..Len(stream)] /\ Len(stream) <= MaxGen
  /\ stream \in Seq([name : Names, client : Clients, cancelled : BOOLEAN,
                     at : {"ack", "live", "ended", "gone"}])
  /\ toldDone \in [Clients -> SUBSET (Names \X BOOLEAN)]

\* A stream that nobody cancelled can be: it holds its name, so that the next
\* unsubscribe, or subscribe under that name, ends it.  And a name is never
\* held by a stream that is over.
StreamsAreReachable ==
  /\ \A g \in Gens : stream[g].at \in {"ack", "live"} /\ ~stream[g].cancelled
                       => entry[stream[g].name] = g
  /\ \A n \in Names : entry[n] # 0 => /\ stream[entry[n]].at # "gone"
                                      /\ stream[entry[n]].name = n

\* Why: as it stands, with the types.
StreamsInv == StreamsTypeOK /\ StreamsAreReachable

\* A client told that a subscription ended has no live stream under its name.
\* Not so: the end of the stream it replaced is told under the same name.
DoneIsCurrent ==
  \A g \in Gens, ok \in BOOLEAN :
    stream[g].at = "live" /\ ~stream[g].cancelled
      => <<stream[g].name, ok>> \notin toldDone[stream[g].client]
=============================================================================
