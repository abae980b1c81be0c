--------------------------- MODULE SessionLifecycle ---------------------------
(***************************************************************************)
(* Rows and agent processes: sessions.Manager.Start, Resume, Fork, Stop,   *)
(* Delete and the reaper over the procs map of a structured runtime, and   *)
(* the child processes behind it.  The Claude and the Codex runtime keep   *)
(* their children alike; Codex learns the agent session's id in its        *)
(* handshake, so that a failed handshake leaves it unrecorded.             *)
(*                                                                         *)
(* A Caller is a control-plane connection: the server dispatches its       *)
(* frames one after the other, so it runs one handler at a time, and two   *)
(* connections run two.  A step ends where the code makes a database call, *)
(* takes the runtime's lock or waits for a process.  The events these      *)
(* handlers publish are SessionStream's, and OnEnd is a hook main does not *)
(* set.                                                                    *)
(***************************************************************************)
EXTENDS Naturals, FiniteSets

CONSTANTS
  Sessions,      \* session ids: random, never used again
  Children,      \* agent processes, each spawned at most once
  NoChild,       \* no entry in procs
  Callers,       \* connections
  NoSession,     \* what an idle connection works on
  MaxRestarts    \* bound: restarts of the agent

ASSUME NoneAssumption == NoChild \notin Children /\ NoSession \notin Sessions
ASSUME RestartsAssumption == MaxRestarts \in Nat

VARIABLES
  row,         \* the sessions row: "none", "active", "ended" (ended_at set), "deleted"
  handle,      \* the sessions whose agent_session_id is recorded
  procs,       \* procs of the runtime
  child,       \* each process: "unused", "running", "exited", "reaped" (onExit done)
  owner,       \* the session it was spawned for
  stopping,    \* the processes Stop has flagged and cancelled
  pc,          \* each connection's handler: "idle", or what it does next
  on,          \* the session it works on
  reaper,      \* "idle", "scanning", "found"
  list,        \* the ActiveSessions the reaper has still to look at
  found,       \* the session it found dead
  overlapped,  \* history: the sessions two handlers have been at work on at once
  restarts

handlers == <<pc, on>>
runtime  == <<procs, child, owner, stopping>>
reaping  == <<reaper, list, found>>
vars == <<row, handle, runtime, handlers, reaping, overlapped, restarts>>

Exists(s) == row[s] \in {"active", "ended"}

\* routingRuntime picks the structured runtime by the session's row; without
\* a row it asks the terminal runtime, which knows nothing of the session.
Alive(s) == Exists(s) /\ procs[s] # NoChild

Goes(c, step) == pc' = [pc EXCEPT ![c] = step]
Begins(c, step, s) ==
  /\ pc[c] = "idle"
  /\ Goes(c, step)
  /\ on' = [on EXCEPT ![c] = s]
  /\ overlapped' = IF \E d \in Callers : on[d] = s THEN overlapped \cup {s} ELSE overlapped
Returns(c) == Goes(c, "idle") /\ on' = [on EXCEPT ![c] = NoSession]

\* EndSession and ReopenSession: UPDATEs that hit no row once it is deleted.
Ends(s) == row' = IF Exists(s) THEN [row EXCEPT ![s] = "ended"] ELSE row

-----------------------------------------------------------------------------
(* Start, Fork, Resume *)

Create(c, s) ==
  /\ row[s] = "none"
  /\ row' = [row EXCEPT ![s] = "active"]
  /\ Begins(c, "spawning", s)
  /\ UNCHANGED <<handle, runtime, reaping, restarts>>

\* Fork is Start with a parent whose conversation can be resumed.
Fork(c, parent, s) ==
  /\ Exists(parent) /\ parent \in handle
  /\ Create(c, s)

\* Resume: GetSession and the conversation handle ...
ResumeGet(c, s) ==
  /\ Exists(s) /\ s \in handle
  /\ Begins(c, "resuming", s)
  /\ UNCHANGED <<row, handle, runtime, reaping, restarts>>

\* ... nothing to do for a live child ...
ResumeLive(c) ==
  /\ pc[c] = "resuming"
  /\ Alive(on[c])
  /\ Returns(c)
  /\ UNCHANGED <<row, handle, runtime, reaping, overlapped, restarts>>

ResumeDead(c) ==
  /\ pc[c] = "resuming"
  /\ ~Alive(on[c])
  /\ Goes(c, "reopening")
  /\ UNCHANGED <<row, handle, runtime, on, reaping, overlapped, restarts>>

\* ... and ReopenSession for a dead one.
Reopen(c) ==
  /\ pc[c] = "reopening"
  /\ row' = IF Exists(on[c]) THEN [row EXCEPT ![on[c]] = "active"] ELSE row
  /\ Goes(c, "spawning")
  /\ UNCHANGED <<handle, runtime, on, reaping, overlapped, restarts>>

\* Runtime.Start: run the child and enter it in procs, whatever is there.
Spawn(c, k) ==
  /\ pc[c] = "spawning"
  /\ child[k] = "unused"
  /\ child' = [child EXCEPT ![k] = "running"]
  /\ owner' = [owner EXCEPT ![k] = on[c]]
  /\ procs' = [procs EXCEPT ![on[c]] = k]
  /\ Goes(c, "recording")
  /\ UNCHANGED <<row, handle, stopping, on, reaping, overlapped, restarts>>

SpawnFails(c) ==
  /\ pc[c] = "spawning"
  /\ Goes(c, "failed")
  /\ UNCHANGED <<row, handle, runtime, on, reaping, overlapped, restarts>>

SpawnFailed(c) ==
  /\ pc[c] = "failed"
  /\ Ends(on[c])
  /\ Returns(c)
  /\ UNCHANGED <<handle, runtime, reaping, overlapped, restarts>>

\* OnAgentSession: SetSessionAgentSessionID.
Record(c) ==
  /\ pc[c] = "recording"
  /\ handle' = IF Exists(on[c]) THEN handle \cup {on[c]} ELSE handle
  /\ Goes(c, "handshake")
  /\ UNCHANGED <<row, runtime, on, reaping, overlapped, restarts>>

\* codexConn.handshake fails before the agent names its thread: not fatal.
HandshakeFails(c) ==
  /\ pc[c] = "recording"
  /\ Returns(c)
  /\ UNCHANGED <<row, handle, runtime, reaping, overlapped, restarts>>

\* The initialize handshake, whose failure or timeout is not fatal.
Handshake(c) ==
  /\ pc[c] = "handshake"
  /\ Returns(c)
  /\ UNCHANGED <<row, handle, runtime, reaping, overlapped, restarts>>

-----------------------------------------------------------------------------
(* Stop, Delete *)

StopGet(c, s, step) ==
  /\ Exists(s)
  /\ Begins(c, step, s)
  /\ UNCHANGED <<row, handle, runtime, reaping, restarts>>

\* What follows Runtime.Stop in Stop and in Delete.
AfterStop(c) == IF pc[c] \in {"stop", "stopForget"} THEN "stopEnd" ELSE "deleteRow"

\* Mutant: the lookup in procs is not checked.
RuntimeStopUnchecked(c) ==
  /\ pc[c] \in {"stop", "delete"}
  /\ stopping' = stopping \cup {procs[on[c]]}
  /\ Goes(c, IF pc[c] = "stop" THEN "stopForget" ELSE "deleteForget")
  /\ UNCHANGED <<row, handle, procs, child, owner, on, reaping, overlapped, restarts>>

\* Runtime.Stop: flag and cancel the child there is, ...
RuntimeStop(c) ==
  /\ pc[c] \in {"stop", "delete"}
  /\ Alive(on[c])
  /\ stopping' = stopping \cup {procs[on[c]]}
  /\ Goes(c, IF pc[c] = "stop" THEN "stopForget" ELSE "deleteForget")
  /\ UNCHANGED <<row, handle, procs, child, owner, on, reaping, overlapped, restarts>>

\* ... or find none.
RuntimeStopNone(c) ==
  /\ pc[c] \in {"stop", "delete"}
  /\ ~Alive(on[c])
  /\ Goes(c, AfterStop(c))
  /\ UNCHANGED <<row, handle, runtime, on, reaping, overlapped, restarts>>

\* delete(r.procs, sessionID), whichever child is there by now.
RuntimeForget(c) ==
  /\ pc[c] \in {"stopForget", "deleteForget"}
  /\ procs' = [procs EXCEPT ![on[c]] = NoChild]
  /\ Goes(c, AfterStop(c))
  /\ UNCHANGED <<row, handle, child, owner, stopping, on, reaping, overlapped, restarts>>

StopEnd(c) ==
  /\ pc[c] = "stopEnd"
  /\ Ends(on[c])
  /\ Returns(c)
  /\ UNCHANGED <<handle, runtime, reaping, overlapped, restarts>>

DeleteRow(c) ==
  /\ pc[c] = "deleteRow"
  /\ row' = [row EXCEPT ![on[c]] = "deleted"]
  /\ handle' = handle \ {on[c]}
  /\ Returns(c)
  /\ UNCHANGED <<runtime, reaping, overlapped, restarts>>

-----------------------------------------------------------------------------
(* The child processes and the reaper *)

\* A child ends by itself or because its context was cancelled.
ChildExits(k) ==
  /\ child[k] = "running"
  /\ child' = [child EXCEPT ![k] = "exited"]
  /\ UNCHANGED <<row, handle, procs, owner, stopping, handlers, reaping, overlapped, restarts>>

\* Mutants: whichever child is in procs is forgotten, or none is.
OnExitAnyChild(k) ==
  /\ child[k] = "exited"
  /\ child' = [child EXCEPT ![k] = "reaped"]
  /\ procs' = [procs EXCEPT ![owner[k]] = NoChild]
  /\ UNCHANGED <<row, handle, owner, stopping, handlers, reaping, overlapped, restarts>>

OnExitNoChild(k) ==
  /\ child[k] = "exited"
  /\ child' = [child EXCEPT ![k] = "reaped"]
  /\ UNCHANGED <<row, handle, procs, owner, stopping, handlers, reaping, overlapped, restarts>>

\* onExit: forget the child, if it is still the one in procs.
OnExit(k) ==
  /\ child[k] = "exited"
  /\ child' = [child EXCEPT ![k] = "reaped"]
  /\ procs' = IF procs[owner[k]] = k THEN [procs EXCEPT ![owner[k]] = NoChild] ELSE procs
  /\ UNCHANGED <<row, handle, owner, stopping, handlers, reaping, overlapped, restarts>>

\* reapOnce: the rows that are active, then one after the other.
ReapList ==
  /\ reaper = "idle"
  /\ list' = {s \in Sessions : row[s] = "active"}
  /\ list' # {}
  /\ reaper' = "scanning"
  /\ UNCHANGED <<row, handle, runtime, handlers, found, overlapped, restarts>>

Scanned(s) ==
  /\ list' = list \ {s}
  /\ reaper' = IF list' = {} THEN "idle" ELSE "scanning"
  /\ found' = NoSession

ReapAlive(s) ==
  /\ reaper = "scanning" /\ s \in list
  /\ Alive(s)
  /\ Scanned(s)
  /\ UNCHANGED <<row, handle, runtime, handlers, overlapped, restarts>>

ReapDead(s) ==
  /\ reaper = "scanning" /\ s \in list
  /\ ~Alive(s)
  /\ reaper' = "found"
  /\ found' = s
  /\ UNCHANGED <<row, handle, runtime, handlers, list, overlapped, restarts>>

\* Mutant: the reaper announces the end but does not write it.
ReapEndUnwritten ==
  /\ reaper = "found"
  /\ Scanned(found)
  /\ UNCHANGED <<row, handle, runtime, handlers, overlapped, restarts>>

ReapEnd ==
  /\ reaper = "found"
  /\ Ends(found)
  /\ Scanned(found)
  /\ UNCHANGED <<handle, runtime, handlers, overlapped, restarts>>

ReaperStep == ReapList \/ ReapEnd \/ \E s \in Sessions : ReapAlive(s) \/ ReapDead(s)

\* The agent restarts: its children die with it, the rows stay as they are.
\* Rehydrate changes nothing for structured sessions (Attach always fails).
Restart ==
  /\ restarts < MaxRestarts
  /\ restarts' = restarts + 1
  /\ procs' = [s \in Sessions |-> NoChild]
  /\ child' = [k \in Children |-> IF child[k] = "unused" THEN "unused" ELSE "reaped"]
  /\ pc' = [c \in Callers |-> "idle"]
  /\ on' = [c \in Callers |-> NoSession]
  /\ reaper' = "idle"
  /\ list' = {}
  /\ found' = NoSession
  /\ UNCHANGED <<row, handle, owner, stopping, overlapped>>

-----------------------------------------------------------------------------
Init ==
  /\ row = [s \in Sessions |-> "none"]
  /\ handle = {}
  /\ procs = [s \in Sessions |-> NoChild]
  /\ child = [k \in Children |-> "unused"]
  /\ owner = [k \in Children |-> NoSession]
  /\ stopping = {}
  /\ pc = [c \in Callers |-> "idle"]
  /\ on = [c \in Callers |-> NoSession]
  /\ reaper = "idle"
  /\ list = {}
  /\ found = NoSession
  /\ overlapped = {}
  /\ restarts = 0

\* What handler c does next.
HandlerStep(c) ==
  \/ ResumeLive(c) \/ ResumeDead(c) \/ Reopen(c)
  \/ \E k \in Children : Spawn(c, k)
  \/ SpawnFails(c) \/ SpawnFailed(c) \/ Record(c) \/ HandshakeFails(c) \/ Handshake(c)
  \/ RuntimeStop(c) \/ RuntimeStopNone(c) \/ RuntimeForget(c)
  \/ StopEnd(c) \/ DeleteRow(c)

Next ==
  \/ \E c \in Callers :
       \/ \E s \in Sessions :
            \/ Create(c, s) \/ ResumeGet(c, s)
            \/ \E parent \in Sessions : Fork(c, parent, s)
            \/ \E step \in {"stop", "delete"} : StopGet(c, s, step)
       \/ HandlerStep(c)
  \/ \E k \in Children : ChildExits(k) \/ OnExit(k)
  \/ ReaperStep
  \/ Restart

\* Handlers and the reaper run; an exited child is waited for, and a cancelled
\* one is killed.  Nobody has to call anything.
Fairness ==
  /\ \A c \in Callers : WF_vars(HandlerStep(c))
  /\ WF_vars(ReaperStep)
  /\ \A k \in Children : WF_vars(OnExit(k)) /\ WF_vars(k \in stopping /\ ChildExits(k))

Spec == Init /\ [][Next]_vars
FairSpec == Spec /\ Fairness

-----------------------------------------------------------------------------
(* Properties *)

Steps == {"idle", "spawning", "resuming", "reopening", "failed", "recording", "handshake", "stop",
          "delete", "stopForget", "deleteForget", "stopEnd", "deleteRow"}

\* Types of the variables.
TypeOK ==
  /\ row \in [Sessions -> {"none", "active", "ended", "deleted"}]
  /\ handle \subseteq Sessions
  /\ procs \in [Sessions -> Children \cup {NoChild}]
  /\ child \in [Children -> {"unused", "running", "exited", "reaped"}]
  /\ owner \in [Children -> Sessions \cup {NoSession}]
  /\ stopping \subseteq Children
  /\ pc \in [Callers -> Steps]
  /\ on \in [Callers -> Sessions \cup {NoSession}]
  /\ reaper \in {"idle", "scanning", "found"}
  /\ list \subseteq Sessions
  /\ found \in Sessions \cup {NoSession}
  /\ overlapped \subseteq Sessions
  /\ restarts \in Nat

\* Alive does not answer for a process that is gone for good: an entry of
\* procs is a child of that session whose onExit is still to come, and a
\* stopped one only while the Stop that flagged it is on its way to forget it.
\* Whatever connections do at the same time.
AliveIsHonest ==
  \A s \in Sessions : procs[s] # NoChild =>
    /\ owner[procs[s]] = s
    /\ child[procs[s]] \in {"running", "exited"}
    /\ procs[s] \in stopping =>
         \E c \in Callers : on[c] = s /\ pc[c] \in {"stopForget", "deleteForget"}

\* No agent process is lost sight of as long as no two connections work on one
\* session at the same time, whatever they do to others: a running child that
\* was not told to stop is the one in procs of a session that exists, so it
\* can be stopped, and a late exit of its predecessor has not removed it.
NoOrphan ==
  \A k \in Children :
    child[k] = "running" /\ k \notin stopping /\ owner[k] \notin overlapped
      => Exists(owner[k]) /\ procs[owner[k]] = k

\* "a no-op if the child is still running" (Resume): never two children of one
\* session at work.
OneChild ==
  \A j, k \in Children :
    (/\ child[j] = "running" /\ child[k] = "running" /\ {j, k} \cap stopping = {}
     /\ owner[j] = owner[k] /\ Exists(owner[k]))
      => j = k

\* "the reaper marks it ended": an active session without a child, after a
\* crash of the child or a restart of the agent, does not stay so.
DeadSessionsEnd ==
  \A s \in Sessions :
    (row[s] = "active" /\ procs[s] = NoChild) ~> (row[s] # "active" \/ procs[s] # NoChild)

=============================================================================
