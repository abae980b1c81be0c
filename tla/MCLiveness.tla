------------------------------ MODULE MCLiveness ------------------------------
(***************************************************************************)
(* What must eventually happen, for three components that share nothing: a *)
(* behaviour is one of the session lifecycle, of the event stream to a     *)
(* client, or of the action jobs, chosen in the initial state, while the   *)
(* other two stay where they start.                                        *)
(***************************************************************************)
EXTENDS ActionJobs, Sequences, FiniteSets

CONSTANTS Publishers, Subscribers, NoSub, ChCap, OutCap, MaxSeq, MaxLegacy, MaxEphemeral,
          MaxAuditFailures, SendCap, Sessions, Children, Callers,
          NoChild, NoSession

VARIABLES
  part,        \* which of the three the behaviour is of: it never changes
  exists, log, deleting, pubPc, cur, targets, at, subs, done, ctxDone, spc, after, replay,
  maxReplayed, ch, held, emitted, taken, fwd, ephemerals, unannounced,
  send, closed, conn, seen, cursor,
  row, handle, procs, child, owner, stopping, pc, sessionOn, reaper, list, found, overlapped,
  agentRestarts

Client == INSTANCE StreamClient WITH pc <- pubPc
Lifecycle == INSTANCE SessionLifecycle WITH on <- sessionOn, restarts <- agentRestarts

stream == <<exists, log, deleting, pubPc, cur, targets, at, subs, done, ctxDone, spc, after,
            replay, maxReplayed, ch, held, emitted, taken, fwd, ephemerals, unannounced,
            send, closed, conn, seen, cursor>>
client == <<send, closed, conn, seen, cursor>>
sessions == <<row, handle, procs, child, owner, stopping, pc, sessionOn, reaper, list, found,
              overlapped, agentRestarts>>
everything == <<part, vars, stream, sessions>>

AllInit ==
  /\ part \in {"sessions", "client", "jobs"}
  /\ Init
  /\ Client!ClientInit
  /\ part # "client" => log = << >>
  /\ Lifecycle!Init

AllNext ==
  \/ part = "sessions" /\ Lifecycle!Next /\ UNCHANGED <<part, vars, stream>>
  \/ part = "client" /\ Client!ClientNext /\ UNCHANGED <<part, vars, sessions>>
  \/ part = "jobs" /\ Next /\ UNCHANGED <<part, stream, sessions>>

\* The fairness of each component, for the behaviours that are its own.
SessionsFair ==
  /\ \A c \in Callers : WF_sessions(part = "sessions" /\ Lifecycle!HandlerStep(c))
  /\ WF_sessions(part = "sessions" /\ Lifecycle!ReaperStep)
  /\ \A k \in Children : /\ WF_sessions(part = "sessions" /\ Lifecycle!OnExit(k))
                         /\ WF_sessions(part = "sessions" /\ k \in stopping /\ Lifecycle!ChildExits(k))

ClientFair ==
  /\ \A p \in Publishers :
       WF_stream(part = "client" /\ Client!PublisherStep(p) /\ UNCHANGED client)
  /\ \A s \in Subscribers :
       /\ WF_stream(part = "client" /\ Client!StreamStep(s) /\ UNCHANGED client)
       /\ WF_stream(part = "client" /\ Client!EnqueueFrame(s))
       /\ WF_stream(part = "client" /\ Client!Cleanup(s) /\ UNCHANGED client)
       /\ WF_stream(part = "client" /\ Client!WriteFrame(s))

JobsFair ==
  /\ \A j \in Jobs : WF_vars(part = "jobs" /\ JobStep(j))
  /\ \A c \in Cancellers : WF_vars(part = "jobs" /\ CancelStep(c))

AllSpec == AllInit /\ [][AllNext]_everything /\ SessionsFair /\ ClientFair /\ JobsFair

\* StreamClient: a client that keeps its connection gets every event.
CatchesUp == Client!CatchesUp

\* SessionLifecycle: a session whose agent is dead ends in the store.
DeadSessionsEnd == Lifecycle!DeadSessionsEnd
=============================================================================
