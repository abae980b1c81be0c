---------------------------- MODULE AgentsProofs ----------------------------
(***************************************************************************)
(* Proofs about what keeps agents running, for any number of sessions,     *)
(* processes, connections and restarts: SessionLifecycle, AgentControl,    *)
(* CodexExec, TerminalOutput and UsagePoll, and then the five side by      *)
(* side, as MCAgents checks them.                                          *)
(*                                                                         *)
(* Each has an inductive invariant.  A section shows that the initial      *)
(* states have it and that every step keeps it, one lemma per action, and  *)
(* ends in the theorems about the component.                               *)
(***************************************************************************)
EXTENDS MCAgents, FiniteSetTheorems, SequenceTheorems, TLAPS

-----------------------------------------------------------------------------
(***************************************************************************)
(* SessionLifecycle.  NoOrphan is not inductive: a Spawn overwrites        *)
(* whatever is in procs, a Stop forgets whatever is there, and a Delete    *)
(* takes the row away.  What makes them safe is what the handler on its    *)
(* way to them has seen, which HandlerInv states for the sessions that one *)
(* connection at a time works on.                                          *)
(***************************************************************************)

-----------------------------------------------------------------------------
(* The inductive invariant *)

\* A handler at work has a session, whose row has been there; the reaper that
\* found a session dead has that session.
WorkInv ==
  /\ \A c \in Callers : /\ pc[c] = "idle" <=> on[c] = NoSession
                        /\ on[c] \in Sessions => row[on[c]] # "none"
  /\ reaper = "found" => found \in Sessions

\* A process that was spawned belongs to a session, which was there before it;
\* only such processes are told to stop.
OwnerInv ==
  /\ \A k \in Children : child[k] # "unused" => owner[k] \in Sessions /\ row[owner[k]] # "none"
  /\ \A k \in stopping : child[k] # "unused"

\* What a handler that is alone with its session knows of it: the row is there;
\* no child is, when it spawns one or deletes the row; a child is flagged, when
\* it is forgotten.
HandlerInv ==
  \A c \in Callers : on[c] \in Sessions \ overlapped =>
    /\ \A d \in Callers : on[d] = on[c] => d = c
    /\ Exists(on[c])
    /\ pc[c] \in {"reopening", "spawning", "failed", "deleteRow"} => procs[on[c]] = NoChild
    /\ pc[c] \in {"stopForget", "deleteForget"} /\ procs[on[c]] # NoChild
         => procs[on[c]] \in stopping

LifecycleInv == TypeOK /\ WorkInv /\ OwnerInv /\ AliveIsHonest /\ HandlerInv /\ NoOrphan

USE NoneAssumption

-----------------------------------------------------------------------------
(* One lemma per action *)

LEMMA CreateStep ==
  ASSUME LifecycleInv, NEW c \in Callers, NEW s \in Sessions, Create(c, s)
  PROVE  LifecycleInv'
<1> USE DEF LifecycleInv, Create, Begins, Goes, handlers, runtime, reaping
<1>1. TypeOK'
  BY DEF TypeOK, Steps
<1>2. WorkInv'
  BY DEF TypeOK, Steps, WorkInv, Exists
<1>3. OwnerInv'
  BY DEF TypeOK, WorkInv, OwnerInv, Exists, Alive
<1>4. AliveIsHonest'
  BY DEF TypeOK, WorkInv, OwnerInv, AliveIsHonest, Alive
<1>5. HandlerInv'
  BY DEF TypeOK, WorkInv, OwnerInv, AliveIsHonest, HandlerInv, Exists, Alive
<1>6. NoOrphan'
  BY DEF TypeOK, WorkInv, OwnerInv, AliveIsHonest, HandlerInv, NoOrphan, Exists, Alive
<1>7. QED BY <1>1, <1>2, <1>3, <1>4, <1>5, <1>6

LEMMA ResumeGetStep ==
  ASSUME LifecycleInv, NEW c \in Callers, NEW s \in Sessions, ResumeGet(c, s)
  PROVE  LifecycleInv'
<1> USE DEF LifecycleInv, ResumeGet, Begins, Goes, handlers, runtime, reaping
<1>1. TypeOK'
  BY DEF TypeOK, Steps
<1>2. WorkInv'
  BY DEF TypeOK, Steps, WorkInv, Exists
<1>3. OwnerInv'
  BY DEF TypeOK, WorkInv, OwnerInv, Exists, Alive
<1>4. AliveIsHonest'
  BY DEF TypeOK, WorkInv, OwnerInv, AliveIsHonest, Alive
<1>5. HandlerInv'
  BY DEF TypeOK, WorkInv, OwnerInv, AliveIsHonest, HandlerInv, Exists, Alive
<1>6. NoOrphan'
  BY DEF TypeOK, WorkInv, OwnerInv, AliveIsHonest, HandlerInv, NoOrphan, Exists, Alive
<1>7. QED BY <1>1, <1>2, <1>3, <1>4, <1>5, <1>6

LEMMA StopGetStep ==
  ASSUME LifecycleInv, NEW c \in Callers, NEW s \in Sessions, NEW step \in {"stop", "delete"},
         StopGet(c, s, step)
  PROVE  LifecycleInv'
<1> USE DEF LifecycleInv, StopGet, Begins, Goes, handlers, runtime, reaping
<1>1. TypeOK'
  BY DEF TypeOK, Steps
<1>2. WorkInv'
  BY DEF TypeOK, Steps, WorkInv, Exists
<1>3. OwnerInv'
  BY DEF TypeOK, WorkInv, OwnerInv, Exists, Alive
<1>4. AliveIsHonest'
  BY DEF TypeOK, WorkInv, OwnerInv, AliveIsHonest, Alive
<1>5. HandlerInv'
  BY DEF TypeOK, WorkInv, OwnerInv, AliveIsHonest, HandlerInv, Exists, Alive
<1>6. NoOrphan'
  BY DEF TypeOK, WorkInv, OwnerInv, AliveIsHonest, HandlerInv, NoOrphan, Exists, Alive
<1>7. QED BY <1>1, <1>2, <1>3, <1>4, <1>5, <1>6

LEMMA ResumeLiveStep ==
  ASSUME LifecycleInv, NEW c \in Callers, ResumeLive(c)
  PROVE  LifecycleInv'
<1> USE DEF LifecycleInv, ResumeLive, Returns, Goes, handlers, runtime, reaping
<1>1. TypeOK'
  BY DEF TypeOK, Steps
<1>2. WorkInv'
  BY DEF TypeOK, Steps, WorkInv, Exists
<1>3. OwnerInv'
  BY DEF TypeOK, WorkInv, OwnerInv, Exists, Alive
<1>4. AliveIsHonest'
  BY DEF TypeOK, WorkInv, OwnerInv, AliveIsHonest, Alive
<1>5. HandlerInv'
  BY DEF TypeOK, WorkInv, OwnerInv, AliveIsHonest, HandlerInv, Exists, Alive
<1>6. NoOrphan'
  BY DEF TypeOK, WorkInv, OwnerInv, AliveIsHonest, HandlerInv, NoOrphan, Exists, Alive
<1>7. QED BY <1>1, <1>2, <1>3, <1>4, <1>5, <1>6

LEMMA ResumeDeadStep ==
  ASSUME LifecycleInv, NEW c \in Callers, ResumeDead(c)
  PROVE  LifecycleInv'
<1> USE DEF LifecycleInv, ResumeDead, Goes, handlers, runtime, reaping
<1>1. TypeOK'
  BY DEF TypeOK, Steps
<1>2. WorkInv'
  BY DEF TypeOK, Steps, WorkInv, Exists
<1>3. OwnerInv'
  BY DEF TypeOK, WorkInv, OwnerInv, Exists, Alive
<1>4. AliveIsHonest'
  BY DEF TypeOK, WorkInv, OwnerInv, AliveIsHonest, Alive
<1>5. HandlerInv'
  BY DEF TypeOK, WorkInv, OwnerInv, AliveIsHonest, HandlerInv, Exists, Alive
<1>6. NoOrphan'
  BY DEF TypeOK, WorkInv, OwnerInv, AliveIsHonest, HandlerInv, NoOrphan, Exists, Alive
<1>7. QED BY <1>1, <1>2, <1>3, <1>4, <1>5, <1>6

LEMMA ReopenStep ==
  ASSUME LifecycleInv, NEW c \in Callers, Reopen(c)
  PROVE  LifecycleInv'
<1> USE DEF LifecycleInv, Reopen, Goes, handlers, runtime, reaping
<1>1. TypeOK'
  BY DEF TypeOK, Steps
<1>2. WorkInv'
  BY DEF TypeOK, Steps, WorkInv, Exists
<1>3. OwnerInv'
  BY DEF TypeOK, WorkInv, OwnerInv, Exists, Alive
<1>4. AliveIsHonest'
  BY DEF TypeOK, WorkInv, OwnerInv, AliveIsHonest, Alive
<1>5. HandlerInv'
  BY DEF TypeOK, WorkInv, OwnerInv, AliveIsHonest, HandlerInv, Exists, Alive
<1>6. NoOrphan'
  BY DEF TypeOK, WorkInv, OwnerInv, AliveIsHonest, HandlerInv, NoOrphan, Exists, Alive
<1>7. QED BY <1>1, <1>2, <1>3, <1>4, <1>5, <1>6

LEMMA SpawnStep ==
  ASSUME LifecycleInv, NEW c \in Callers, NEW k \in Children, Spawn(c, k)
  PROVE  LifecycleInv'
<1> USE DEF LifecycleInv, Spawn, Goes, handlers, runtime, reaping
<1>1. TypeOK'
  BY DEF TypeOK, Steps
<1>2. WorkInv'
  BY DEF TypeOK, Steps, WorkInv, Exists
<1>3. OwnerInv'
  BY DEF TypeOK, WorkInv, OwnerInv, Exists, Alive
<1>4. AliveIsHonest'
  BY DEF TypeOK, WorkInv, OwnerInv, AliveIsHonest, Alive
<1>5. HandlerInv'
  BY DEF TypeOK, WorkInv, OwnerInv, AliveIsHonest, HandlerInv, Exists, Alive
<1>6. NoOrphan'
  BY DEF TypeOK, WorkInv, OwnerInv, AliveIsHonest, HandlerInv, NoOrphan, Exists, Alive
<1>7. QED BY <1>1, <1>2, <1>3, <1>4, <1>5, <1>6

LEMMA SpawnFailsStep ==
  ASSUME LifecycleInv, NEW c \in Callers, SpawnFails(c)
  PROVE  LifecycleInv'
<1> USE DEF LifecycleInv, SpawnFails, Goes, handlers, runtime, reaping
<1>1. TypeOK'
  BY DEF TypeOK, Steps
<1>2. WorkInv'
  BY DEF TypeOK, Steps, WorkInv, Exists
<1>3. OwnerInv'
  BY DEF TypeOK, WorkInv, OwnerInv, Exists, Alive
<1>4. AliveIsHonest'
  BY DEF TypeOK, WorkInv, OwnerInv, AliveIsHonest, Alive
<1>5. HandlerInv'
  BY DEF TypeOK, WorkInv, OwnerInv, AliveIsHonest, HandlerInv, Exists, Alive
<1>6. NoOrphan'
  BY DEF TypeOK, WorkInv, OwnerInv, AliveIsHonest, HandlerInv, NoOrphan, Exists, Alive
<1>7. QED BY <1>1, <1>2, <1>3, <1>4, <1>5, <1>6

LEMMA SpawnFailedStep ==
  ASSUME LifecycleInv, NEW c \in Callers, SpawnFailed(c)
  PROVE  LifecycleInv'
<1> USE DEF LifecycleInv, SpawnFailed, Ends, Returns, Goes, handlers, runtime, reaping
<1>1. TypeOK'
  BY DEF TypeOK, Steps
<1>2. WorkInv'
  BY DEF TypeOK, Steps, WorkInv, Exists
<1>3. OwnerInv'
  BY DEF TypeOK, WorkInv, OwnerInv, Exists, Alive
<1>4. AliveIsHonest'
  BY DEF TypeOK, WorkInv, OwnerInv, AliveIsHonest, Alive
<1>5. HandlerInv'
  BY DEF TypeOK, WorkInv, OwnerInv, AliveIsHonest, HandlerInv, Exists, Alive
<1>6. NoOrphan'
  BY DEF TypeOK, WorkInv, OwnerInv, AliveIsHonest, HandlerInv, NoOrphan, Exists, Alive
<1>7. QED BY <1>1, <1>2, <1>3, <1>4, <1>5, <1>6

LEMMA RecordStep ==
  ASSUME LifecycleInv, NEW c \in Callers, Record(c)
  PROVE  LifecycleInv'
<1> USE DEF LifecycleInv, Record, Goes, handlers, runtime, reaping
<1>1. TypeOK'
  BY DEF TypeOK, WorkInv, Steps
<1>2. WorkInv'
  BY DEF TypeOK, Steps, WorkInv, Exists
<1>3. OwnerInv'
  BY DEF TypeOK, WorkInv, OwnerInv, Exists, Alive
<1>4. AliveIsHonest'
  BY DEF TypeOK, WorkInv, OwnerInv, AliveIsHonest, Alive
<1>5. HandlerInv'
  BY DEF TypeOK, WorkInv, OwnerInv, AliveIsHonest, HandlerInv, Exists, Alive
<1>6. NoOrphan'
  BY DEF TypeOK, WorkInv, OwnerInv, AliveIsHonest, HandlerInv, NoOrphan, Exists, Alive
<1>7. QED BY <1>1, <1>2, <1>3, <1>4, <1>5, <1>6

LEMMA HandshakeFailsStep ==
  ASSUME LifecycleInv, NEW c \in Callers, HandshakeFails(c)
  PROVE  LifecycleInv'
<1> USE DEF LifecycleInv, HandshakeFails, Returns, Goes, handlers, runtime, reaping
<1>1. TypeOK'
  BY DEF TypeOK, Steps
<1>2. WorkInv'
  BY DEF TypeOK, Steps, WorkInv, Exists
<1>3. OwnerInv'
  BY DEF TypeOK, WorkInv, OwnerInv, Exists, Alive
<1>4. AliveIsHonest'
  BY DEF TypeOK, WorkInv, OwnerInv, AliveIsHonest, Alive
<1>5. HandlerInv'
  BY DEF TypeOK, WorkInv, OwnerInv, AliveIsHonest, HandlerInv, Exists, Alive
<1>6. NoOrphan'
  BY DEF TypeOK, WorkInv, OwnerInv, AliveIsHonest, HandlerInv, NoOrphan, Exists, Alive
<1>7. QED BY <1>1, <1>2, <1>3, <1>4, <1>5, <1>6

LEMMA HandshakeStep ==
  ASSUME LifecycleInv, NEW c \in Callers, Handshake(c)
  PROVE  LifecycleInv'
<1> USE DEF LifecycleInv, Handshake, Returns, Goes, handlers, runtime, reaping
<1>1. TypeOK'
  BY DEF TypeOK, Steps
<1>2. WorkInv'
  BY DEF TypeOK, Steps, WorkInv, Exists
<1>3. OwnerInv'
  BY DEF TypeOK, WorkInv, OwnerInv, Exists, Alive
<1>4. AliveIsHonest'
  BY DEF TypeOK, WorkInv, OwnerInv, AliveIsHonest, Alive
<1>5. HandlerInv'
  BY DEF TypeOK, WorkInv, OwnerInv, AliveIsHonest, HandlerInv, Exists, Alive
<1>6. NoOrphan'
  BY DEF TypeOK, WorkInv, OwnerInv, AliveIsHonest, HandlerInv, NoOrphan, Exists, Alive
<1>7. QED BY <1>1, <1>2, <1>3, <1>4, <1>5, <1>6

LEMMA RuntimeStopStep ==
  ASSUME LifecycleInv, NEW c \in Callers, RuntimeStop(c)
  PROVE  LifecycleInv'
<1> USE DEF LifecycleInv, RuntimeStop, Goes, handlers, runtime, reaping
<1>1. TypeOK'
  BY DEF TypeOK, WorkInv, Steps, Alive
<1>2. WorkInv'
  BY DEF TypeOK, Steps, WorkInv, Exists
<1>3. OwnerInv'
  BY DEF TypeOK, WorkInv, OwnerInv, AliveIsHonest, Exists, Alive
<1>4. AliveIsHonest'
  BY DEF TypeOK, WorkInv, OwnerInv, AliveIsHonest, Alive
<1>5. HandlerInv'
  BY DEF TypeOK, WorkInv, OwnerInv, AliveIsHonest, HandlerInv, Exists, Alive
<1>6. NoOrphan'
  BY DEF TypeOK, WorkInv, OwnerInv, AliveIsHonest, HandlerInv, NoOrphan, Exists, Alive
<1>7. QED BY <1>1, <1>2, <1>3, <1>4, <1>5, <1>6

LEMMA RuntimeStopNoneStep ==
  ASSUME LifecycleInv, NEW c \in Callers, RuntimeStopNone(c)
  PROVE  LifecycleInv'
<1> USE DEF LifecycleInv, RuntimeStopNone, AfterStop, Goes, handlers, runtime, reaping
<1>1. TypeOK'
  BY DEF TypeOK, Steps
<1>2. WorkInv'
  BY DEF TypeOK, Steps, WorkInv, Exists
<1>3. OwnerInv'
  BY DEF TypeOK, WorkInv, OwnerInv, Exists, Alive
<1>4. AliveIsHonest'
  BY DEF TypeOK, WorkInv, OwnerInv, AliveIsHonest, Alive
<1>5. HandlerInv'
  BY DEF TypeOK, WorkInv, OwnerInv, AliveIsHonest, HandlerInv, Exists, Alive
<1>6. NoOrphan'
  BY DEF TypeOK, WorkInv, OwnerInv, AliveIsHonest, HandlerInv, NoOrphan, Exists, Alive
<1>7. QED BY <1>1, <1>2, <1>3, <1>4, <1>5, <1>6

LEMMA RuntimeForgetStep ==
  ASSUME LifecycleInv, NEW c \in Callers, RuntimeForget(c)
  PROVE  LifecycleInv'
<1> USE DEF LifecycleInv, RuntimeForget, AfterStop, Goes, handlers, runtime, reaping
<1>1. TypeOK'
  BY DEF TypeOK, Steps
<1>2. WorkInv'
  BY DEF TypeOK, Steps, WorkInv, Exists
<1>3. OwnerInv'
  BY DEF TypeOK, WorkInv, OwnerInv, Exists, Alive
<1>4. AliveIsHonest'
  BY DEF TypeOK, WorkInv, OwnerInv, AliveIsHonest, Alive
<1>5. HandlerInv'
  BY DEF TypeOK, WorkInv, OwnerInv, AliveIsHonest, HandlerInv, Exists, Alive
<1>6. NoOrphan'
  BY DEF TypeOK, WorkInv, OwnerInv, AliveIsHonest, HandlerInv, NoOrphan, Exists, Alive
<1>7. QED BY <1>1, <1>2, <1>3, <1>4, <1>5, <1>6

LEMMA StopEndStep ==
  ASSUME LifecycleInv, NEW c \in Callers, StopEnd(c)
  PROVE  LifecycleInv'
<1> USE DEF LifecycleInv, StopEnd, Ends, Returns, Goes, handlers, runtime, reaping
<1>1. TypeOK'
  BY DEF TypeOK, Steps
<1>2. WorkInv'
  BY DEF TypeOK, Steps, WorkInv, Exists
<1>3. OwnerInv'
  BY DEF TypeOK, WorkInv, OwnerInv, Exists, Alive
<1>4. AliveIsHonest'
  BY DEF TypeOK, WorkInv, OwnerInv, AliveIsHonest, Alive
<1>5. HandlerInv'
  BY DEF TypeOK, WorkInv, OwnerInv, AliveIsHonest, HandlerInv, Exists, Alive
<1>6. NoOrphan'
  BY DEF TypeOK, WorkInv, OwnerInv, AliveIsHonest, HandlerInv, NoOrphan, Exists, Alive
<1>7. QED BY <1>1, <1>2, <1>3, <1>4, <1>5, <1>6

LEMMA DeleteRowStep ==
  ASSUME LifecycleInv, NEW c \in Callers, DeleteRow(c)
  PROVE  LifecycleInv'
<1> USE DEF LifecycleInv, DeleteRow, Returns, Goes, handlers, runtime, reaping
<1>1. TypeOK'
  BY DEF TypeOK, Steps
<1>2. WorkInv'
  BY DEF TypeOK, Steps, WorkInv, Exists
<1>3. OwnerInv'
  BY DEF TypeOK, WorkInv, OwnerInv, Exists, Alive
<1>4. AliveIsHonest'
  BY DEF TypeOK, WorkInv, OwnerInv, AliveIsHonest, Alive
<1>5. HandlerInv'
  BY DEF TypeOK, WorkInv, OwnerInv, AliveIsHonest, HandlerInv, Exists, Alive
<1>6. NoOrphan'
  BY DEF TypeOK, WorkInv, OwnerInv, AliveIsHonest, HandlerInv, NoOrphan, Exists, Alive
<1>7. QED BY <1>1, <1>2, <1>3, <1>4, <1>5, <1>6

LEMMA ChildExitsStep ==
  ASSUME LifecycleInv, NEW k \in Children, ChildExits(k)
  PROVE  LifecycleInv'
<1> USE DEF LifecycleInv, ChildExits, handlers, runtime, reaping
<1>1. TypeOK'
  BY DEF TypeOK, Steps
<1>2. WorkInv'
  BY DEF TypeOK, Steps, WorkInv, Exists
<1>3. OwnerInv'
  BY DEF TypeOK, WorkInv, OwnerInv, Exists, Alive
<1>4. AliveIsHonest'
  BY DEF TypeOK, WorkInv, OwnerInv, AliveIsHonest, Alive
<1>5. HandlerInv'
  BY DEF TypeOK, WorkInv, OwnerInv, AliveIsHonest, HandlerInv, Exists, Alive
<1>6. NoOrphan'
  BY DEF TypeOK, WorkInv, OwnerInv, AliveIsHonest, HandlerInv, NoOrphan, Exists, Alive
<1>7. QED BY <1>1, <1>2, <1>3, <1>4, <1>5, <1>6

LEMMA OnExitStep ==
  ASSUME LifecycleInv, NEW k \in Children, OnExit(k)
  PROVE  LifecycleInv'
<1> USE DEF LifecycleInv, OnExit, handlers, runtime, reaping
<1>1. TypeOK'
  BY DEF TypeOK, Steps
<1>2. WorkInv'
  BY DEF TypeOK, Steps, WorkInv, Exists
<1>3. OwnerInv'
  BY DEF TypeOK, WorkInv, OwnerInv, Exists, Alive
<1>4. AliveIsHonest'
  BY DEF TypeOK, WorkInv, OwnerInv, AliveIsHonest, Alive
<1>5. HandlerInv'
  BY DEF TypeOK, WorkInv, OwnerInv, AliveIsHonest, HandlerInv, Exists, Alive
<1>6. NoOrphan'
  BY DEF TypeOK, WorkInv, OwnerInv, AliveIsHonest, HandlerInv, NoOrphan, Exists, Alive
<1>7. QED BY <1>1, <1>2, <1>3, <1>4, <1>5, <1>6

LEMMA ReapListStep ==
  ASSUME LifecycleInv, ReapList
  PROVE  LifecycleInv'
<1> USE DEF LifecycleInv, ReapList, handlers, runtime, reaping
<1>1. TypeOK'
  BY DEF TypeOK, Steps
<1>2. WorkInv'
  BY DEF TypeOK, Steps, WorkInv, Exists
<1>3. OwnerInv'
  BY DEF TypeOK, WorkInv, OwnerInv, Exists, Alive
<1>4. AliveIsHonest'
  BY DEF TypeOK, WorkInv, OwnerInv, AliveIsHonest, Alive
<1>5. HandlerInv'
  BY DEF TypeOK, WorkInv, OwnerInv, AliveIsHonest, HandlerInv, Exists, Alive
<1>6. NoOrphan'
  BY DEF TypeOK, WorkInv, OwnerInv, AliveIsHonest, HandlerInv, NoOrphan, Exists, Alive
<1>7. QED BY <1>1, <1>2, <1>3, <1>4, <1>5, <1>6

LEMMA ReapAliveStep ==
  ASSUME LifecycleInv, NEW s \in Sessions, ReapAlive(s)
  PROVE  LifecycleInv'
<1> USE DEF LifecycleInv, ReapAlive, Scanned, handlers, runtime, reaping
<1>1. TypeOK'
  BY DEF TypeOK, Steps
<1>2. WorkInv'
  BY DEF TypeOK, Steps, WorkInv, Exists
<1>3. OwnerInv'
  BY DEF TypeOK, WorkInv, OwnerInv, Exists, Alive
<1>4. AliveIsHonest'
  BY DEF TypeOK, WorkInv, OwnerInv, AliveIsHonest, Alive
<1>5. HandlerInv'
  BY DEF TypeOK, WorkInv, OwnerInv, AliveIsHonest, HandlerInv, Exists, Alive
<1>6. NoOrphan'
  BY DEF TypeOK, WorkInv, OwnerInv, AliveIsHonest, HandlerInv, NoOrphan, Exists, Alive
<1>7. QED BY <1>1, <1>2, <1>3, <1>4, <1>5, <1>6

LEMMA ReapDeadStep ==
  ASSUME LifecycleInv, NEW s \in Sessions, ReapDead(s)
  PROVE  LifecycleInv'
<1> USE DEF LifecycleInv, ReapDead, handlers, runtime, reaping
<1>1. TypeOK'
  BY DEF TypeOK, Steps
<1>2. WorkInv'
  BY DEF TypeOK, Steps, WorkInv, Exists
<1>3. OwnerInv'
  BY DEF TypeOK, WorkInv, OwnerInv, Exists, Alive
<1>4. AliveIsHonest'
  BY DEF TypeOK, WorkInv, OwnerInv, AliveIsHonest, Alive
<1>5. HandlerInv'
  BY DEF TypeOK, WorkInv, OwnerInv, AliveIsHonest, HandlerInv, Exists, Alive
<1>6. NoOrphan'
  BY DEF TypeOK, WorkInv, OwnerInv, AliveIsHonest, HandlerInv, NoOrphan, Exists, Alive
<1>7. QED BY <1>1, <1>2, <1>3, <1>4, <1>5, <1>6

LEMMA ReapEndStep ==
  ASSUME LifecycleInv, ReapEnd
  PROVE  LifecycleInv'
<1> USE DEF LifecycleInv, ReapEnd, Ends, Scanned, handlers, runtime, reaping
<1>1. TypeOK'
  BY DEF TypeOK, Steps
<1>2. WorkInv'
  BY DEF TypeOK, Steps, WorkInv, Exists
<1>3. OwnerInv'
  BY DEF TypeOK, WorkInv, OwnerInv, Exists, Alive
<1>4. AliveIsHonest'
  BY DEF TypeOK, WorkInv, OwnerInv, AliveIsHonest, Alive
<1>5. HandlerInv'
  BY DEF TypeOK, WorkInv, OwnerInv, AliveIsHonest, HandlerInv, Exists, Alive
<1>6. NoOrphan'
  BY DEF TypeOK, WorkInv, OwnerInv, AliveIsHonest, HandlerInv, NoOrphan, Exists, Alive
<1>7. QED BY <1>1, <1>2, <1>3, <1>4, <1>5, <1>6

LEMMA RestartStep ==
  ASSUME LifecycleInv, Restart
  PROVE  LifecycleInv'
<1> USE DEF LifecycleInv, Restart, handlers, runtime, reaping
<1>1. TypeOK'
  BY DEF TypeOK, Steps
<1>2. WorkInv'
  BY DEF TypeOK, Steps, WorkInv, Exists
<1>3. OwnerInv'
  BY DEF TypeOK, WorkInv, OwnerInv, Exists, Alive
<1>4. AliveIsHonest'
  BY DEF TypeOK, WorkInv, OwnerInv, AliveIsHonest, Alive
<1>5. HandlerInv'
  BY DEF TypeOK, WorkInv, OwnerInv, AliveIsHonest, HandlerInv, Exists, Alive
<1>6. NoOrphan'
  BY DEF TypeOK, WorkInv, OwnerInv, AliveIsHonest, HandlerInv, NoOrphan, Exists, Alive
<1>7. QED BY <1>1, <1>2, <1>3, <1>4, <1>5, <1>6

-----------------------------------------------------------------------------
LEMMA LifecycleInitInv == Init => LifecycleInv
  BY DEF Init, LifecycleInv, TypeOK, WorkInv, OwnerInv, AliveIsHonest, HandlerInv, NoOrphan, Steps

LEMMA LifecycleNextInv == LifecycleInv /\ [Next]_vars => LifecycleInv'
<1> SUFFICES ASSUME LifecycleInv, [Next]_vars PROVE LifecycleInv'
  OBVIOUS
<1>1. ASSUME NEW c \in Callers, HandlerStep(c) PROVE LifecycleInv'
  BY <1>1, ResumeLiveStep, ResumeDeadStep, ReopenStep, SpawnStep, SpawnFailsStep, SpawnFailedStep,
     RecordStep, HandshakeFailsStep, HandshakeStep, RuntimeStopStep, RuntimeStopNoneStep,
     RuntimeForgetStep, StopEndStep, DeleteRowStep DEF HandlerStep
<1>2. ASSUME NEW c \in Callers, NEW s \in Sessions,
             \/ Create(c, s) \/ ResumeGet(c, s)
             \/ \E parent \in Sessions : Fork(c, parent, s)
             \/ \E step \in {"stop", "delete"} : StopGet(c, s, step)
      PROVE  LifecycleInv'
  BY <1>2, CreateStep, ResumeGetStep, StopGetStep DEF Fork
<1>3. ASSUME NEW k \in Children, ChildExits(k) \/ OnExit(k) PROVE LifecycleInv'
  BY <1>3, ChildExitsStep, OnExitStep
<1>4. CASE ReaperStep
  BY <1>4, ReapListStep, ReapEndStep, ReapAliveStep, ReapDeadStep DEF ReaperStep
<1>5. CASE Restart
  BY <1>5, RestartStep
<1>6. CASE UNCHANGED vars
  BY <1>6 DEF LifecycleInv, TypeOK, WorkInv, OwnerInv, AliveIsHonest, HandlerInv, NoOrphan, Exists, vars,
              handlers, runtime, reaping
<1>7. QED BY <1>1, <1>2, <1>3, <1>4, <1>5, <1>6 DEF Next

-----------------------------------------------------------------------------
(* The theorems *)

\* The lifecycle keeps its invariant.
THEOREM LifecycleInvariant == Spec => []LifecycleInv
  BY LifecycleInitInv, LifecycleNextInv, PTL DEF Spec

\* Every variable keeps its type, in every step of handlers, children and the
\* reaper.
THEOREM LifecycleTypesCorrect == Spec => []TypeOK
<1>1. LifecycleInv => TypeOK
  BY DEF LifecycleInv
<1>2. QED BY LifecycleInvariant, <1>1, PTL

\* Alive answers for a process of that session that has not been waited for,
\* and is not about to be forgotten by nobody: whatever connections do at once.
THEOREM AliveTellsTheTruth == Spec => []AliveIsHonest
<1>1. LifecycleInv => AliveIsHonest
  BY DEF LifecycleInv
<1>2. QED BY LifecycleInvariant, <1>1, PTL

\* No agent process that was not told to stop escapes procs, unless two
\* connections have been at work on its session at once.
THEOREM NoProcessIsLost == Spec => []NoOrphan
<1>1. LifecycleInv => NoOrphan
  BY DEF LifecycleInv
<1>2. QED BY LifecycleInvariant, <1>1, PTL

HIDE NoneAssumption

-----------------------------------------------------------------------------
(***************************************************************************)
(* AgentControl: the types of its state, that the child waits for no       *)
(* answer nobody can give (AsksAreServed), that a handler gets the answer  *)
(* to its own request (AnswersMatch), and that Interrupt aims at the       *)
(* newest turn (TurnIsCurrent).                                            *)
(*                                                                         *)
(* The lines the child wrote and the reader has not read are part of every *)
(* argument, so the invariants speak of them as a set, Lines; only the     *)
(* turns they name need their order.                                       *)
(***************************************************************************)

(***************************************************************************)
(* The invariants.                                                         *)
(***************************************************************************)
LineType == [type : {"ask", "cancel", "reply", "turn"}, ask : Asks \cup {NoAsk},
             id : Nat, call : Nat, turn : Nat]

Elements(s) == {s[i] : i \in 1..Len(s)}

\* The lines of the child that are not read yet.
Lines == Elements(inbox)

\* The turns that lines name are in the order they were started in.
InTurn(s) == \A i, j \in 1..Len(s) :
               i < j /\ s[i].turn # 0 /\ s[j].turn # 0 => s[i].turn <= s[j].turn

Asked(a) == \E l \in Lines : l.type = "ask" /\ l.ask = a
Calling(h) == handler[h].at \in {"waiting", "replied"}

\* An approval request is in one place at least until it is answered, and only
\* one that is being answered may be missing from the map.
Placed(a) ==
  /\ ask[a] = "no" => a \notin shown
  /\ ask[a] = "waiting" => Asked(a) \/ a \in approvals \/ BeingAnswered(a)
  /\ ask[a] = "waiting" /\ a \in shown => a \in approvals \/ BeingAnswered(a)
  /\ ask[a] = "empty" => a \in raced

AskLine(l) ==
  /\ l.type = "ask" => l.ask \in Asks /\ ask[l.ask] # "no"
  /\ l.type = "cancel" => l.ask \in Asks /\ ask[l.ask] = "withdrawn"

\* Who found no input in the map was not the first to take the request.
Answering(h) == handler[h].at = "took" =>
  /\ handler[h].ask \in Asks
  /\ ask[handler[h].ask] # "no"
  /\ ~handler[h].input => ask[handler[h].ask] # "waiting" \/ handler[h].ask \in raced

AskInv ==
  /\ \A a \in Asks : Placed(a)
  /\ \A l \in Lines : AskLine(l)
  /\ \A h \in Handlers : Answering(h)

\* An id is the number of its call, and belongs to one handler; the call is
\* with the child or answered, not both.
Received(r) == r[1] = r[2] /\ r[1] <= reqN /\ \A q \in received : r[1] = q[1] => r = q

ReplyLine(l) == l.type = "reply" =>
  l.id = l.call /\ l.id <= reqN /\ \A r \in received : r[1] # l.id

OwnId(h) == Calling(h) =>
  /\ handler[h].id = handler[h].call /\ handler[h].id <= reqN
  /\ \A g \in Handlers : Calling(g) /\ g # h => handler[g].id # handler[h].id

Expects(h) ==
  /\ handler[h].at = "replied" => handler[h].reply = handler[h].call
  /\ handler[h].at = "waiting" =>
       /\ handler[h].id \in pending
       /\ \/ \E r \in received : r[1] = handler[h].id
          \/ \E l \in Lines : l.type = "reply" /\ l.id = handler[h].id

CallInv ==
  /\ reqN = calls
  /\ \A r \in received : Received(r)
  /\ \A l \in Lines : ReplyLine(l)
  /\ \A h \in Handlers : OwnId(h)
  /\ \A h \in Handlers : Expects(h)

\* Turns are announced in the order they were started, and an answer names one
\* only to who sent a prompt.
TurnLine(l) == l.turn <= started /\ (l.type = "turn" => l.turn # 0)

Noting(h) ==
  /\ handler[h].kind # "none" => Calling(h)
  /\ handler[h].turn # 0 => handler[h].at = "replied" /\ handler[h].kind = "prompt"
  /\ handler[h].turn <= started
  /\ handler[h].at = "waiting" =>
       /\ \A r \in received : r[1] = handler[h].id => r[3] = handler[h].kind
       /\ \A l \in Lines : l.type = "reply" /\ l.id = handler[h].id /\ l.turn # 0 =>
            handler[h].kind = "prompt"

TurnInv ==
  /\ told <= started
  /\ \A l \in Lines : TurnLine(l)
  /\ InTurn(inbox)
  /\ \A h \in Handlers : Noting(h)

\* As long as no two prompts overlap, the only one under way is about the newest
\* turn, and what was noted is no newer than what is still to be noted.
OnlyPrompt(h) == handler[h].kind = "prompt" =>
  /\ \A g \in Handlers : handler[g].kind = "prompt" => g = h
  /\ \A r \in received : r[3] = "prompt" => r[1] = handler[h].id /\ handler[h].at = "waiting"
  /\ handler[h].turn # 0 => handler[h].turn = started
  /\ \A l \in Lines : l.type = "reply" /\ l.id = handler[h].id /\ l.turn # 0 => l.turn = started

NewLine(l) == l.turn # 0 => told <= l.turn /\ \A h \in Handlers : handler[h].turn <= l.turn

PromptInv == ~promptsOverlapped =>
  /\ turnID = told
  /\ \A r, q \in received : r[3] = "prompt" /\ q[3] = "prompt" => r = q
  /\ \A h \in Handlers : OnlyPrompt(h)
  /\ \A l \in Lines : NewLine(l)

ControlInv == ControlTypeOK /\ AskInv /\ CallInv /\ TurnInv /\ PromptInv

(***************************************************************************)
(* Lines come at the end of the stream and are read from its head.         *)
(***************************************************************************)
LEMMA AppendElements ==
  ASSUME NEW T, NEW s \in Seq(T), NEW e \in T
  PROVE  /\ Append(s, e) \in Seq(T)
         /\ Elements(Append(s, e)) = Elements(s) \cup {e}
<1>1. Len(Append(s, e)) = Len(s) + 1 /\ Append(s, e)[Len(s) + 1] = e
  OBVIOUS
<1>2. \A i \in 1..Len(s) : Append(s, e)[i] = s[i]
  OBVIOUS
<1>3. \A i \in 1..(Len(s) + 1) : i \in 1..Len(s) \/ i = Len(s) + 1
  OBVIOUS
<1>4. \A i \in 1..Len(s) : i \in 1..(Len(s) + 1)
  OBVIOUS
<1>5. Elements(Append(s, e)) = Elements(s) \cup {e}
  BY <1>1, <1>2, <1>3, <1>4 DEF Elements
<1> QED BY <1>5

LEMMA TailElements ==
  ASSUME NEW T, NEW s \in Seq(T), s # << >>
  PROVE  /\ Tail(s) \in Seq(T) /\ Head(s) \in T
         /\ Elements(s) = Elements(Tail(s)) \cup {Head(s)}
<1>1. Len(s) \in Nat \ {0} /\ Len(Tail(s)) = Len(s) - 1 /\ Head(s) = s[1]
  OBVIOUS
<1>2. \A i \in 1..Len(Tail(s)) : Tail(s)[i] = s[i + 1] /\ i + 1 \in 1..Len(s)
  BY <1>1
<1>3. \A i \in 1..Len(s) : i = 1 \/ (i - 1 \in 1..Len(Tail(s)) /\ s[i] = Tail(s)[i - 1])
  BY <1>1, <1>2
<1>4. 1 \in 1..Len(s)
  BY <1>1
<1>5. Elements(s) = Elements(Tail(s)) \cup {Head(s)}
  BY <1>1, <1>2, <1>3, <1>4 DEF Elements
<1> QED BY <1>5

LEMMA AppendInTurn ==
  ASSUME NEW s \in Seq(LineType), NEW e \in LineType, InTurn(s),
         e.turn # 0 => \A l \in Elements(s) : l.turn <= e.turn
  PROVE  InTurn(Append(s, e))
<1>1. Len(Append(s, e)) = Len(s) + 1 /\ Append(s, e)[Len(s) + 1] = e
  OBVIOUS
<1>2. \A i \in 1..Len(s) : Append(s, e)[i] = s[i] /\ s[i] \in Elements(s)
  BY DEF Elements
<1> SUFFICES ASSUME NEW i \in 1..(Len(s) + 1), NEW j \in 1..(Len(s) + 1), i < j,
                    Append(s, e)[i].turn # 0, Append(s, e)[j].turn # 0
             PROVE  Append(s, e)[i].turn <= Append(s, e)[j].turn
  BY <1>1 DEF InTurn
<1>3. i \in 1..Len(s)
  OBVIOUS
<1>4. CASE j \in 1..Len(s)
  BY <1>2, <1>3, <1>4 DEF InTurn
<1>5. CASE j = Len(s) + 1
  BY <1>1, <1>2, <1>3, <1>5
<1> QED BY <1>4, <1>5

LEMMA TailInTurn ==
  ASSUME NEW s \in Seq(LineType), s # << >>, InTurn(s)
  PROVE  /\ InTurn(Tail(s))
         /\ \A l \in Elements(Tail(s)) :
              Head(s).turn # 0 /\ l.turn # 0 => Head(s).turn <= l.turn
<1>1. Len(s) \in Nat \ {0} /\ Len(Tail(s)) = Len(s) - 1 /\ Head(s) = s[1]
  OBVIOUS
<1>2. \A i \in 1..Len(Tail(s)) : Tail(s)[i] = s[i + 1] /\ i + 1 \in 1..Len(s)
  BY <1>1
<1>3. InTurn(Tail(s))
  BY <1>1, <1>2 DEF InTurn
<1>4. \A i \in 1..Len(Tail(s)) : Head(s).turn # 0 /\ Tail(s)[i].turn # 0 =>
        Head(s).turn <= Tail(s)[i].turn
  BY <1>1, <1>2 DEF InTurn
<1> QED BY <1>3, <1>4 DEF Elements

LEMMA LineTypes ==
  ASSUME ControlInv
  PROVE  /\ inbox \in Seq(LineType)
         /\ \A l \in Lines : l \in LineType /\ l.turn \in Nat /\ l.id \in Nat
         /\ \A h \in Handlers : handler[h].id \in Nat /\ handler[h].turn \in Nat
         /\ reqN \in Nat /\ started \in Nat /\ told \in Nat
<1>1. inbox \in Seq(LineType)
  BY DEF ControlInv, ControlTypeOK, LineType
<1>2. \A i \in 1..Len(inbox) : inbox[i] \in LineType
  BY <1>1
<1>3. \A l \in Lines : l \in LineType
  BY <1>2 DEF Lines, Elements
<1>5. \A l \in LineType : l.turn \in Nat /\ l.id \in Nat
  BY DEF LineType
<1>4. \A h \in Handlers : handler[h].id \in Nat /\ handler[h].turn \in Nat
  BY DEF ControlInv, ControlTypeOK
<1> QED BY <1>1, <1>3, <1>4, <1>5 DEF ControlInv, ControlTypeOK

\* What a new line of the child leaves alone: the calls and turns know nothing of
\* a request for approval or of its withdrawal.
LEMMA WritesAsk ==
  ASSUME ControlInv, NEW e \in LineType, e.type \notin {"reply", "turn"}, e.turn = 0,
         inbox' = Append(inbox, e), UNCHANGED <<handler, callVars, turnVars>>
  PROVE  /\ inbox' \in Seq(LineType) /\ Lines' = Lines \cup {e}
         /\ CallInv' /\ TurnInv' /\ PromptInv'
<1>1. inbox' \in Seq(LineType) /\ Lines' = Lines \cup {e} /\ InTurn(inbox)'
  <2>1. inbox \in Seq(LineType) /\ InTurn(inbox)
    BY LineTypes DEF ControlInv, TurnInv
  <2>2. Append(inbox, e) \in Seq(LineType) /\ Elements(Append(inbox, e)) = Elements(inbox) \cup {e}
    BY <2>1, AppendElements
  <2>3. InTurn(Append(inbox, e))
    BY <2>1, AppendInTurn
  <2> QED BY <2>2, <2>3 DEF Lines, Elements, InTurn
<1>2. CallInv'
  <2>1. ASSUME NEW l \in Lines' PROVE ReplyLine(l)'
    BY <1>1 DEF ControlInv, CallInv, ReplyLine, callVars
  <2>2. ASSUME NEW h \in Handlers PROVE OwnId(h)' /\ Expects(h)'
    BY <1>1 DEF ControlInv, CallInv, OwnId, Calling, Expects, callVars
  <2> QED BY <2>1, <2>2 DEF ControlInv, CallInv, Received, callVars
<1>3. TurnInv'
  <2>1. ASSUME NEW l \in Lines' PROVE TurnLine(l)'
    BY <1>1, LineTypes DEF ControlInv, TurnInv, TurnLine, turnVars
  <2>2. ASSUME NEW h \in Handlers PROVE Noting(h)'
    BY <1>1 DEF ControlInv, TurnInv, Noting, Calling, callVars, turnVars
  <2> QED BY <1>1, <2>1, <2>2 DEF ControlInv, TurnInv, turnVars
<1>4. PromptInv'
  <2>1. ASSUME NEW h \in Handlers, OnlyPrompt(h) PROVE OnlyPrompt(h)'
    BY <1>1, <2>1 DEF OnlyPrompt, callVars, turnVars
  <2>2. ASSUME NEW l \in Lines', \A k \in Lines : NewLine(k) PROVE NewLine(l)'
    BY <1>1, <2>2 DEF NewLine, turnVars
  <2> QED BY <2>1, <2>2 DEF ControlInv, PromptInv, callVars, turnVars
<1> QED BY <1>1, <1>2, <1>3, <1>4

\* What reading a line does to what is left.
LEMMA ReadsLine ==
  ASSUME ControlInv, inbox # << >>, inbox' = Tail(inbox)
  PROVE  /\ inbox' \in Seq(LineType) /\ Head(inbox) \in LineType
         /\ Lines = Lines' \cup {Head(inbox)}
         /\ InTurn(inbox)'
         /\ \A l \in Lines' : Head(inbox).turn # 0 /\ l.turn # 0 => Head(inbox).turn <= l.turn
<1>1. inbox \in Seq(LineType) /\ InTurn(inbox)
  BY LineTypes DEF ControlInv, TurnInv
<1>2. /\ Tail(inbox) \in Seq(LineType) /\ Head(inbox) \in LineType
      /\ Elements(inbox) = Elements(Tail(inbox)) \cup {Head(inbox)}
  BY <1>1, TailElements
<1>3. /\ InTurn(Tail(inbox))
      /\ \A l \in Elements(Tail(inbox)) :
           Head(inbox).turn # 0 /\ l.turn # 0 => Head(inbox).turn <= l.turn
  BY <1>1, TailInTurn
<1> QED BY <1>2, <1>3 DEF Lines, Elements, InTurn

\* And what reading one that is no answer leaves alone.
LEMMA ReadsAnother ==
  ASSUME ControlInv, inbox # << >>, inbox' = Tail(inbox), Head(inbox).type # "reply",
         UNCHANGED <<handler, callVars, turnVars>>
  PROVE  CallInv' /\ TurnInv' /\ PromptInv'
<1>1. Lines = Lines' \cup {Head(inbox)} /\ InTurn(inbox)'
  BY ReadsLine
<1>2. CallInv'
  <2>1. ASSUME NEW l \in Lines' PROVE ReplyLine(l)'
    BY <1>1 DEF ControlInv, CallInv, ReplyLine, callVars
  <2>2. ASSUME NEW h \in Handlers PROVE OwnId(h)' /\ Expects(h)'
    BY <1>1 DEF ControlInv, CallInv, OwnId, Calling, Expects, callVars
  <2> QED BY <2>1, <2>2 DEF ControlInv, CallInv, Received, callVars
<1>3. TurnInv'
  <2>1. ASSUME NEW l \in Lines' PROVE TurnLine(l)'
    BY <1>1 DEF ControlInv, TurnInv, TurnLine, turnVars
  <2>2. ASSUME NEW h \in Handlers PROVE Noting(h)'
    BY <1>1 DEF ControlInv, TurnInv, Noting, Calling, callVars, turnVars
  <2> QED BY <1>1, <2>1, <2>2 DEF ControlInv, TurnInv, turnVars
<1>4. PromptInv'
  <2>1. ASSUME NEW h \in Handlers, OnlyPrompt(h) PROVE OnlyPrompt(h)'
    BY <1>1, <2>1 DEF OnlyPrompt, callVars, turnVars
  <2>2. ASSUME NEW l \in Lines', \A k \in Lines : NewLine(k) PROVE NewLine(l)'
    BY <1>1, <2>2 DEF NewLine, turnVars
  <2> QED BY <2>1, <2>2 DEF ControlInv, PromptInv, callVars, turnVars
<1> QED BY <1>2, <1>3, <1>4

(***************************************************************************)
(* The child.                                                              *)
(***************************************************************************)
LEMMA AsksForStep ==
  ASSUME ControlInv, NEW a \in Asks, AsksFor(a)
  PROVE  ControlInv'
<1> DEFINE e == Line("ask", a, 0, 0, 0)
<1>1. /\ ask[a] = "no" /\ ask' = [ask EXCEPT ![a] = "waiting"]
      /\ inbox' = Append(inbox, e)
      /\ UNCHANGED <<protocol, approvals, always, shown, raced, handler, callVars, turnVars>>
  BY DEF AsksFor
<1>2. e \in LineType /\ e.type = "ask" /\ e.ask = a /\ e.turn = 0
  BY DEF Line, LineType
<1> HIDE DEF e
<1>3. /\ inbox' \in Seq(LineType) /\ Lines' = Lines \cup {e}
      /\ CallInv' /\ TurnInv' /\ PromptInv'
  BY <1>1, <1>2, WritesAsk
<1>4. ControlTypeOK'
  BY <1>1, <1>3 DEF ControlInv, ControlTypeOK, LineType, callVars, turnVars
<1>5. AskInv'
  <2>1. \A b \in Asks : ask'[b] = IF b = a THEN "waiting" ELSE ask[b]
    BY <1>1 DEF ControlInv, ControlTypeOK
  <2>2. ASSUME NEW b \in Asks PROVE Placed(b)'
    BY <1>1, <1>2, <1>3, <2>1 DEF ControlInv, AskInv, Placed, Asked, BeingAnswered
  <2>3. ASSUME NEW l \in Lines' PROVE AskLine(l)'
    BY <1>1, <1>2, <1>3, <2>1 DEF ControlInv, AskInv, AskLine
  <2>4. ASSUME NEW h \in Handlers PROVE Answering(h)'
    BY <1>1, <2>1 DEF ControlInv, AskInv, Answering
  <2> QED BY <2>2, <2>3, <2>4 DEF AskInv
<1> QED BY <1>3, <1>4, <1>5 DEF ControlInv

LEMMA WithdrawsStep ==
  ASSUME ControlInv, NEW a \in Asks, Withdraws(a)
  PROVE  ControlInv'
<1> DEFINE e == Line("cancel", a, 0, 0, 0)
<1>1. /\ ask[a] = "waiting" /\ ask' = [ask EXCEPT ![a] = "withdrawn"]
      /\ inbox' = Append(inbox, e)
      /\ UNCHANGED <<protocol, approvals, always, shown, raced, handler, callVars, turnVars>>
  BY DEF Withdraws
<1>2. e \in LineType /\ e.type = "cancel" /\ e.ask = a /\ e.turn = 0
  BY DEF Line, LineType
<1> HIDE DEF e
<1>3. /\ inbox' \in Seq(LineType) /\ Lines' = Lines \cup {e}
      /\ CallInv' /\ TurnInv' /\ PromptInv'
  BY <1>1, <1>2, WritesAsk
<1>4. ControlTypeOK'
  BY <1>1, <1>3 DEF ControlInv, ControlTypeOK, LineType, callVars, turnVars
<1>5. AskInv'
  <2>1. \A b \in Asks : ask'[b] = IF b = a THEN "withdrawn" ELSE ask[b]
    BY <1>1 DEF ControlInv, ControlTypeOK
  <2>2. ASSUME NEW b \in Asks PROVE Placed(b)'
    BY <1>1, <1>2, <1>3, <2>1 DEF ControlInv, AskInv, Placed, Asked, BeingAnswered
  <2>3. ASSUME NEW l \in Lines' PROVE AskLine(l)'
    BY <1>1, <1>2, <1>3, <2>1 DEF ControlInv, AskInv, AskLine
  <2>4. ASSUME NEW h \in Handlers PROVE Answering(h)'
    BY <1>1, <2>1 DEF ControlInv, AskInv, Answering
  <2> QED BY <2>2, <2>3, <2>4 DEF AskInv
<1> QED BY <1>3, <1>4, <1>5 DEF ControlInv

\* A prompt's answer names the turn it started: the newest, so it is in turn.
LEMMA AnswersStep ==
  ASSUME ControlInv, NEW r \in received, Answers(r)
  PROVE  ControlInv'
<1> DEFINE n == started + 1
           told1 == Line("reply", NoAsk, r[1], r[2], n)
           told2 == Line("turn", NoAsk, 0, 0, n)
           told0 == [told1 EXCEPT !.turn = 0]
<1>1. /\ received' = received \ {r}
      /\ UNCHANGED <<protocol, ask, approvals, always, shown, raced, handler, reqN, pending, calls,
                     turnID, told, promptsOverlapped>>
  BY DEF Answers, askVars
<1>2. r[1] \in Nat /\ r[2] = r[1] /\ r[1] <= reqN /\ n \in Nat /\ started \in Nat
  BY LineTypes DEF ControlInv, ControlTypeOK, CallInv, Received
<1>3. /\ told1 \in LineType /\ told2 \in LineType /\ told0 \in LineType
      /\ told1.type = "reply" /\ told1.id = r[1] /\ told1.call = r[1] /\ told1.turn = n
      /\ told2.type = "turn" /\ told2.turn = n
      /\ told0.type = "reply" /\ told0.id = r[1] /\ told0.call = r[1] /\ told0.turn = 0
  BY <1>2 DEF Line, LineType
<1>4. \/ /\ r[3] = "prompt" /\ started' = n
         /\ inbox' \in {inbox \o <<told1, told2>>, inbox \o <<told2, told1>>}
      \/ /\ started' = started /\ inbox' = Append(inbox, told0)
  BY DEF Answers
<1> HIDE DEF told1, told2, told0
<1>5. PICK e : e \in {told0, told1} /\ inbox' \in Seq(LineType) /\ InTurn(inbox)'
              /\ \/ /\ e = told1 /\ r[3] = "prompt" /\ started' = n
                    /\ Lines' = Lines \cup {e, told2}
                 \/ /\ e = told0 /\ started' = started
                    /\ Lines' = Lines \cup {e}
  <2>1. inbox \in Seq(LineType) /\ InTurn(inbox)
    BY LineTypes DEF ControlInv, TurnInv
  <2>2. \A l \in Elements(inbox) : l.turn <= n
    BY <1>2, LineTypes DEF ControlInv, TurnInv, TurnLine, Lines
  <2>3. ASSUME NEW d \in LineType, NEW b \in LineType, d.turn = n, b.turn = n
        PROVE  /\ inbox \o <<d, b>> \in Seq(LineType)
               /\ Elements(inbox \o <<d, b>>) = Elements(inbox) \cup {d, b}
               /\ InTurn(inbox \o <<d, b>>)
    <3>1. inbox \o <<d, b>> = Append(Append(inbox, d), b)
      BY <2>1
    <3>2. /\ Append(inbox, d) \in Seq(LineType) /\ InTurn(Append(inbox, d))
          /\ Elements(Append(inbox, d)) = Elements(inbox) \cup {d}
      BY <2>1, <2>2, <2>3, AppendElements, AppendInTurn
    <3>3. \A l \in Elements(Append(inbox, d)) : l.turn <= b.turn
      BY <1>2, <2>2, <2>3, <3>2
    <3>4. PICK s \in Seq(LineType) : s = Append(inbox, d)
      BY <3>2
    <3>5. Append(s, b) \in Seq(LineType) /\ Elements(Append(s, b)) = Elements(s) \cup {b}
      BY <2>3, AppendElements
    <3>6. InTurn(Append(s, b))
      BY <2>3, <3>2, <3>3, <3>4, AppendInTurn
    <3> QED BY <3>1, <3>2, <3>4, <3>5, <3>6
  <2>4. /\ Append(inbox, told0) \in Seq(LineType) /\ InTurn(Append(inbox, told0))
        /\ Elements(Append(inbox, told0)) = Elements(inbox) \cup {told0}
    BY <1>3, <2>1, AppendElements, AppendInTurn
  <2>5. CASE inbox' = Append(inbox, told0) /\ started' = started
    BY <2>4, <2>5 DEF Lines, Elements, InTurn
  <2>6. CASE inbox' = inbox \o <<told1, told2>> /\ r[3] = "prompt" /\ started' = n
    <3>0. /\ inbox \o <<told1, told2>> \in Seq(LineType) /\ InTurn(inbox \o <<told1, told2>>)
          /\ Elements(inbox \o <<told1, told2>>) = Elements(inbox) \cup {told1, told2}
      BY <1>3, <2>3
    <3>1. /\ inbox' \in Seq(LineType) /\ Elements(inbox)' = Elements(inbox) \cup {told1, told2}
          /\ InTurn(inbox)'
      BY <2>6, <3>0 DEF Elements, InTurn
    <3> QED BY <2>6, <3>1 DEF Lines
  <2>7. CASE inbox' = inbox \o <<told2, told1>> /\ r[3] = "prompt" /\ started' = n
    <3>0. /\ inbox \o <<told2, told1>> \in Seq(LineType) /\ InTurn(inbox \o <<told2, told1>>)
          /\ Elements(inbox \o <<told2, told1>>) = Elements(inbox) \cup {told2, told1}
      BY <1>3, <2>3
    <3>1. /\ inbox' \in Seq(LineType) /\ Elements(inbox)' = Elements(inbox) \cup {told2, told1}
          /\ InTurn(inbox)'
      BY <2>7, <3>0 DEF Elements, InTurn
    <3> QED BY <2>7, <3>1 DEF Lines
  <2> QED BY <1>4, <2>5, <2>6, <2>7
<1>6. /\ e.type = "reply" /\ e.id = r[1] /\ e.call = r[1]
      /\ e.turn # 0 => e.turn = n /\ started' = n /\ r[3] = "prompt"
      /\ started' \in {started, n} /\ e.turn <= started' /\ e \in Lines' /\ Lines \subseteq Lines'
      /\ \A l \in Lines' : l \in Lines \/ l = e \/ (l.type = "turn" /\ l.turn = n /\ started' = n)
  BY <1>2, <1>3, <1>5
<1>7. ControlTypeOK'
  BY <1>1, <1>2, <1>5 DEF ControlInv, ControlTypeOK, LineType
<1>8. AskInv'
  <2>1. ASSUME NEW b \in Asks PROVE Placed(b)'
    BY <1>1, <1>6 DEF ControlInv, AskInv, Placed, Asked, BeingAnswered
  <2>2. ASSUME NEW l \in Lines' PROVE AskLine(l)'
    BY <1>1, <1>6 DEF ControlInv, AskInv, AskLine
  <2>3. ASSUME NEW h \in Handlers PROVE Answering(h)'
    BY <1>1 DEF ControlInv, AskInv, Answering
  <2> QED BY <2>1, <2>2, <2>3 DEF AskInv
<1>9. CallInv'
  <2>1. ASSUME NEW l \in Lines' PROVE ReplyLine(l)'
    BY <1>1, <1>2, <1>6 DEF ControlInv, CallInv, ReplyLine, Received
  <2>2. ASSUME NEW h \in Handlers PROVE OwnId(h)'
    BY <1>1 DEF ControlInv, CallInv, OwnId, Calling
  <2>3. ASSUME NEW h \in Handlers PROVE Expects(h)'
    BY <1>1, <1>6 DEF ControlInv, CallInv, Expects
  <2>4. \A q \in received' : Received(q)'
    BY <1>1 DEF ControlInv, CallInv, Received
  <2> QED BY <1>1, <2>1, <2>2, <2>3, <2>4 DEF ControlInv, CallInv
<1>10. TurnInv'
  <2>1. ASSUME NEW l \in Lines' PROVE TurnLine(l)'
    BY <1>2, <1>6, LineTypes DEF ControlInv, TurnInv, TurnLine
  <2>2. ASSUME NEW h \in Handlers PROVE Noting(h)'
    BY <1>1, <1>2, <1>6, LineTypes DEF ControlInv, TurnInv, Noting, Calling
  <2> QED BY <1>1, <1>2, <1>5, <1>6, <2>1, <2>2, LineTypes DEF ControlInv, TurnInv
<1>11. PromptInv'
  <2> SUFFICES ASSUME ~promptsOverlapped
               PROVE  /\ \A h \in Handlers : OnlyPrompt(h)'
                      /\ \A l \in Lines' : NewLine(l)'
    BY <1>1 DEF ControlInv, PromptInv
  <2>1. ASSUME NEW h \in Handlers PROVE OnlyPrompt(h)'
    <3> SUFFICES ASSUME handler[h].kind = "prompt" PROVE OnlyPrompt(h)'
      BY <1>1 DEF OnlyPrompt
    <3>1. OnlyPrompt(h) /\ Noting(h)
      BY DEF ControlInv, PromptInv, TurnInv
    <3>2. CASE started' = started
      BY <1>1, <1>2, <1>6, <3>1, <3>2 DEF OnlyPrompt
    <3>3. CASE started' = n /\ started' # started
      <4>1. r[3] = "prompt" /\ r[1] = handler[h].id /\ handler[h].at = "waiting"
        BY <1>5, <3>1, <3>3 DEF OnlyPrompt
      <4>2. handler[h].turn = 0
        BY <3>1, <4>1 DEF Noting
      <4>3. \A l \in Lines : l.type = "reply" => l.id # handler[h].id
        BY <4>1 DEF ControlInv, CallInv, ReplyLine
      <4> QED BY <1>1, <1>6, <3>1, <3>3, <4>1, <4>2, <4>3 DEF OnlyPrompt
    <3> QED BY <1>6, <3>2, <3>3
  <2>2. ASSUME NEW l \in Lines' PROVE NewLine(l)'
    BY <1>1, <1>2, <1>6, LineTypes DEF ControlInv, PromptInv, NewLine, TurnInv, Noting
  <2> QED BY <2>1, <2>2
<1> QED BY <1>7, <1>8, <1>9, <1>10, <1>11 DEF ControlInv

(***************************************************************************)
(* The reader.                                                             *)
(***************************************************************************)
LEMMA ReadsAskStep ==
  ASSUME ControlInv, ReadsAsk
  PROVE  ControlInv'
<1>1. /\ inbox # << >> /\ Head(inbox).type = "ask" /\ inbox' = Tail(inbox)
      /\ UNCHANGED <<protocol, always, raced, handler, callVars, turnVars>>
  BY DEF ReadsAsk, HeadIs
<1>2. PICK a : a = Head(inbox).ask
  OBVIOUS
<1>3. \/ Takes(a, "input") /\ UNCHANGED <<approvals, shown>>
      \/ approvals' = approvals \cup {a} /\ shown' = shown \cup {a} /\ ask' = ask
  BY <1>2 DEF ReadsAsk
<1>4. /\ inbox' \in Seq(LineType) /\ Lines = Lines' \cup {Head(inbox)}
      /\ CallInv' /\ TurnInv' /\ PromptInv'
  BY <1>1, ReadsLine, ReadsAnother
<1>5. a \in Asks /\ ask[a] # "no"
  BY <1>1, <1>2, <1>4 DEF ControlInv, AskInv, AskLine
<1>6. ControlTypeOK'
  BY <1>1, <1>3, <1>4, <1>5 DEF ControlInv, ControlTypeOK, LineType, callVars, turnVars, Takes
<1>7. AskInv'
  <2>1. \A b \in Asks \ {a} : ask'[b] = ask[b]
    BY <1>3 DEF ControlInv, ControlTypeOK, Takes
  <2>2. /\ ask'[a] # "no"
        /\ ask'[a] \in {"withdrawn", "empty"} <=> ask[a] = ask'[a] /\ ask[a] \in {"withdrawn", "empty"}
        /\ ask'[a] = "waiting" => ask[a] = "waiting" /\ a \in approvals'
        /\ ask[a] = "withdrawn" => ask'[a] = "withdrawn"
    BY <1>3, <1>5 DEF ControlInv, ControlTypeOK, Takes
  <2>3. /\ approvals \subseteq approvals' /\ approvals' \subseteq approvals \cup {a}
        /\ shown \subseteq shown' /\ shown' \subseteq shown \cup {a}
    BY <1>3
  <2>4. ASSUME NEW b \in Asks PROVE Placed(b)'
    BY <1>1, <1>2, <1>4, <1>5, <2>1, <2>2, <2>3 DEF ControlInv, AskInv, Placed, Asked, BeingAnswered
  <2>5. ASSUME NEW l \in Lines' PROVE AskLine(l)'
    BY <1>4, <2>1, <2>2 DEF ControlInv, AskInv, AskLine
  <2>6. ASSUME NEW h \in Handlers PROVE Answering(h)'
    BY <1>1, <2>1, <2>2 DEF ControlInv, AskInv, Answering
  <2> QED BY <2>4, <2>5, <2>6 DEF AskInv
<1> QED BY <1>4, <1>6, <1>7 DEF ControlInv

\* What is dropped from the map was withdrawn.
LEMMA ReadsCancelStep ==
  ASSUME ControlInv, ReadsCancel
  PROVE  ControlInv'
<1>1. /\ inbox # << >> /\ Head(inbox).type = "cancel" /\ inbox' = Tail(inbox)
      /\ approvals' = approvals \ {Head(inbox).ask}
      /\ UNCHANGED <<protocol, ask, always, shown, raced, handler, callVars, turnVars>>
  BY DEF ReadsCancel, HeadIs
<1>2. /\ inbox' \in Seq(LineType) /\ Lines = Lines' \cup {Head(inbox)}
      /\ CallInv' /\ TurnInv' /\ PromptInv'
  BY <1>1, ReadsLine, ReadsAnother
<1>3. ask[Head(inbox).ask] = "withdrawn"
  BY <1>1, <1>2 DEF ControlInv, AskInv, AskLine
<1>4. ControlTypeOK'
  BY <1>1, <1>2 DEF ControlInv, ControlTypeOK, LineType, callVars, turnVars
<1>5. AskInv'
  <2>1. ASSUME NEW b \in Asks PROVE Placed(b)'
    BY <1>1, <1>2, <1>3 DEF ControlInv, AskInv, Placed, Asked, BeingAnswered
  <2>2. ASSUME NEW l \in Lines' PROVE AskLine(l)'
    BY <1>1, <1>2 DEF ControlInv, AskInv, AskLine
  <2>3. ASSUME NEW h \in Handlers PROVE Answering(h)'
    BY <1>1 DEF ControlInv, AskInv, Answering
  <2> QED BY <2>1, <2>2, <2>3 DEF AskInv
<1> QED BY <1>2, <1>4, <1>5 DEF ControlInv

\* The answer goes to the one handler that waits for its id, if one does.
LEMMA ReadsReplyStep ==
  ASSUME ControlInv, ReadsReply
  PROVE  ControlInv'
<1>1. PICK l : l = Head(inbox)
  OBVIOUS
<1>2. /\ inbox # << >> /\ l.type = "reply" /\ inbox' = Tail(inbox)
      /\ pending' = pending \ {l.id}
      /\ UNCHANGED <<protocol, ask, approvals, always, shown, raced, reqN, received, calls,
                     turnID, started, told, promptsOverlapped>>
  BY <1>1 DEF ReadsReply, HeadIs, askVars, turnVars
<1>3. /\ inbox' \in Seq(LineType) /\ l \in LineType /\ Lines = Lines' \cup {l} /\ InTurn(inbox)'
      /\ \A k \in Lines' : l.turn # 0 /\ k.turn # 0 => l.turn <= k.turn
  BY <1>1, <1>2, ReadsLine
<1>4. /\ l.id = l.call /\ l.id <= reqN /\ \A r \in received : r[1] # l.id
      /\ l.turn <= started /\ l.turn \in Nat /\ l.id \in Nat /\ l.call \in Nat
  BY <1>2, <1>3 DEF ControlInv, CallInv, ReplyLine, TurnInv, TurnLine, LineType
<1> DEFINE Gets(h) == l.id \in pending /\ handler[h].at = "waiting" /\ handler[h].id = l.id
<1>5. handler' = [h \in Handlers |->
        IF Gets(h) THEN [handler[h] EXCEPT !.at = "replied", !.reply = l.call, !.turn = l.turn]
                   ELSE handler[h]]
  BY <1>1 DEF ReadsReply
<1>6. \A h \in Handlers : ~Gets(h) => handler'[h] = handler[h]
  BY <1>5
<1>7. \A h \in Handlers : Gets(h) =>
        /\ handler'[h].at = "replied" /\ handler'[h].reply = l.call /\ handler'[h].turn = l.turn
        /\ handler'[h].id = handler[h].id /\ handler'[h].call = handler[h].call
        /\ handler'[h].kind = handler[h].kind /\ handler'[h].ask = handler[h].ask
  BY <1>5 DEF ControlInv, ControlTypeOK
<1>8. handler' \in [Handlers ->
       [at : {"idle", "took", "waiting", "replied"}, ask : Asks \cup {NoAsk}, decision : Decisions,
        input : BOOLEAN, id : Nat, call : Nat, kind : Kinds, reply : Nat, turn : Nat]]
  <2> DEFINE Calls == [at : {"idle", "took", "waiting", "replied"}, ask : Asks \cup {NoAsk},
                       decision : Decisions, input : BOOLEAN, id : Nat, call : Nat, kind : Kinds,
                       reply : Nat, turn : Nat]
  <2>1. handler \in [Handlers -> Calls]
    BY DEF ControlInv, ControlTypeOK
  <2>2. ASSUME NEW c \in Calls
        PROVE  [c EXCEPT !.at = "replied", !.reply = l.call, !.turn = l.turn] \in Calls
    BY <1>4
  <2> HIDE DEF Gets, Calls
  <2>3. handler' \in [Handlers -> Calls]
    BY <1>5, <2>1, <2>2
  <2> QED BY <2>3 DEF Calls
<1> HIDE DEF Gets
<1>9. \A h \in Handlers : (handler'[h].at = "took" <=> handler[h].at = "took")
                          /\ (Gets(h) => handler[h].at = "waiting" /\ handler[h].id = l.id)
                          /\ (handler[h].at = "waiting" /\ handler[h].id = l.id => Gets(h))
  BY <1>6, <1>7 DEF Gets, ControlInv, CallInv, Expects
<1>10. ControlTypeOK'
  BY <1>2, <1>3, <1>8 DEF ControlInv, ControlTypeOK, LineType
<1>11. AskInv'
  <2>1. \A b : BeingAnswered(b) <=> BeingAnswered(b)'
    BY <1>6, <1>7, <1>9 DEF BeingAnswered
  <2>2. ASSUME NEW b \in Asks PROVE Placed(b)'
    BY <1>2, <1>3, <2>1 DEF ControlInv, AskInv, Placed, Asked
  <2>3. ASSUME NEW k \in Lines' PROVE AskLine(k)'
    BY <1>2, <1>3 DEF ControlInv, AskInv, AskLine
  <2>4. ASSUME NEW h \in Handlers PROVE Answering(h)'
    BY <1>2, <1>6, <1>9 DEF ControlInv, AskInv, Answering
  <2> QED BY <2>2, <2>3, <2>4 DEF AskInv
<1>12. CallInv'
  <2>1. ASSUME NEW k \in Lines' PROVE ReplyLine(k)'
    BY <1>2, <1>3 DEF ControlInv, CallInv, ReplyLine
  <2>2. \A h \in Handlers : (Calling(h) <=> Calling(h)') /\ handler'[h].id = handler[h].id
                            /\ handler'[h].call = handler[h].call
    BY <1>6, <1>7, <1>9 DEF Calling
  <2>3. ASSUME NEW h \in Handlers PROVE OwnId(h)'
    BY <1>2, <2>2 DEF ControlInv, CallInv, OwnId
  <2>4. ASSUME NEW h \in Handlers PROVE Expects(h)'
    <3>1. Expects(h) /\ OwnId(h)
      BY DEF ControlInv, CallInv
    <3>2. CASE Gets(h)
      BY <1>4, <1>7, <1>9, <3>1, <3>2 DEF Expects, OwnId, Calling
    <3>3. CASE ~Gets(h)
      BY <1>2, <1>3, <1>6, <1>9, <3>1, <3>3 DEF Expects
    <3> QED BY <3>2, <3>3
  <2> QED BY <1>2, <2>1, <2>3, <2>4 DEF ControlInv, CallInv, Received
<1>13. TurnInv'
  <2>1. ASSUME NEW k \in Lines' PROVE TurnLine(k)'
    BY <1>2, <1>3 DEF ControlInv, TurnInv, TurnLine
  <2>2. ASSUME NEW h \in Handlers PROVE Noting(h)'
    <3>1. Noting(h)
      BY DEF ControlInv, TurnInv
    <3>2. CASE Gets(h)
      BY <1>2, <1>3, <1>4, <1>7, <1>9, <3>1, <3>2 DEF Noting, Calling
    <3>3. CASE ~Gets(h)
      BY <1>2, <1>3, <1>6, <3>1, <3>3 DEF Noting, Calling
    <3> QED BY <3>2, <3>3
  <2> QED BY <1>2, <1>3, <2>1, <2>2 DEF ControlInv, TurnInv
<1>14. PromptInv'
  <2> SUFFICES ASSUME ~promptsOverlapped
               PROVE  /\ \A h \in Handlers : OnlyPrompt(h)'
                      /\ \A k \in Lines' : NewLine(k)'
    BY <1>2 DEF ControlInv, PromptInv
  <2>1. ASSUME NEW h \in Handlers PROVE OnlyPrompt(h)'
    <3>1. OnlyPrompt(h)
      BY DEF ControlInv, PromptInv
    <3>2. \A g \in Handlers : handler'[g].kind = handler[g].kind
      BY <1>6, <1>7
    <3>3. CASE Gets(h)
      BY <1>2, <1>3, <1>4, <1>7, <1>9, <3>1, <3>2, <3>3 DEF OnlyPrompt
    <3>4. CASE ~Gets(h)
      BY <1>2, <1>3, <1>6, <3>1, <3>2, <3>4 DEF OnlyPrompt
    <3> QED BY <3>3, <3>4
  <2>2. ASSUME NEW k \in Lines' PROVE NewLine(k)'
    <3>1. NewLine(k) /\ k.turn \in Nat
      BY <1>3, LineTypes DEF ControlInv, PromptInv
    <3>2. ASSUME NEW h \in Handlers, k.turn # 0 PROVE handler'[h].turn <= k.turn
      BY <1>3, <1>4, <1>6, <1>7, <3>1, <3>2 DEF NewLine
    <3> QED BY <1>2, <3>1, <3>2 DEF NewLine
  <2> QED BY <2>1, <2>2
<1> QED BY <1>10, <1>11, <1>12, <1>13, <1>14 DEF ControlInv

LEMMA TrackTurnStep ==
  ASSUME ControlInv, TrackTurn
  PROVE  ControlInv'
<1>1. PICK l : l = Head(inbox)
  OBVIOUS
<1>2. /\ inbox # << >> /\ l.type = "turn" /\ inbox' = Tail(inbox)
      /\ turnID' = l.turn /\ told' = Later(told, l.turn)
      /\ UNCHANGED <<protocol, ask, approvals, always, shown, raced, handler, reqN, pending, received,
                     calls, started, promptsOverlapped>>
  BY <1>1 DEF TrackTurn, HeadIs, askVars, callVars
<1>3. /\ inbox' \in Seq(LineType) /\ l \in LineType /\ Lines = Lines' \cup {l} /\ InTurn(inbox)'
      /\ \A k \in Lines' : l.turn # 0 /\ k.turn # 0 => l.turn <= k.turn
  BY <1>1, <1>2, ReadsLine
<1>4. l.turn \in Nat \ {0} /\ l.turn <= started /\ told \in Nat /\ told <= started
  BY <1>2, <1>3, LineTypes DEF ControlInv, TurnInv, TurnLine
<1>5. told' \in Nat /\ told' <= started /\ (told' = told \/ told' = l.turn)
      /\ (told <= l.turn => told' = l.turn)
  BY <1>2, <1>4 DEF Later
<1>6. ControlTypeOK'
  BY <1>2, <1>3, <1>4, <1>5 DEF ControlInv, ControlTypeOK, LineType
<1>7. AskInv'
  <2>1. ASSUME NEW b \in Asks PROVE Placed(b)'
    BY <1>2, <1>3 DEF ControlInv, AskInv, Placed, Asked, BeingAnswered
  <2>2. ASSUME NEW k \in Lines' PROVE AskLine(k)'
    BY <1>2, <1>3 DEF ControlInv, AskInv, AskLine
  <2>3. ASSUME NEW h \in Handlers PROVE Answering(h)'
    BY <1>2 DEF ControlInv, AskInv, Answering
  <2> QED BY <2>1, <2>2, <2>3 DEF AskInv
<1>8. CallInv'
  <2>1. ASSUME NEW k \in Lines' PROVE ReplyLine(k)'
    BY <1>2, <1>3 DEF ControlInv, CallInv, ReplyLine
  <2>2. ASSUME NEW h \in Handlers PROVE OwnId(h)' /\ Expects(h)'
    BY <1>2, <1>3 DEF ControlInv, CallInv, OwnId, Calling, Expects
  <2> QED BY <1>2, <2>1, <2>2 DEF ControlInv, CallInv, Received
<1>9. TurnInv'
  <2>1. ASSUME NEW k \in Lines' PROVE TurnLine(k)'
    BY <1>2, <1>3 DEF ControlInv, TurnInv, TurnLine
  <2>2. ASSUME NEW h \in Handlers PROVE Noting(h)'
    BY <1>2, <1>3 DEF ControlInv, TurnInv, Noting, Calling
  <2> QED BY <1>2, <1>3, <1>5, <2>1, <2>2 DEF ControlInv, TurnInv
<1>10. PromptInv'
  <2> SUFFICES ASSUME ~promptsOverlapped
               PROVE  /\ turnID' = told'
                      /\ \A h \in Handlers : OnlyPrompt(h)'
                      /\ \A k \in Lines' : NewLine(k)'
    BY <1>2 DEF ControlInv, PromptInv
  <2>1. told' = l.turn
    BY <1>3, <1>4, <1>5 DEF ControlInv, PromptInv, NewLine
  <2>2. ASSUME NEW h \in Handlers PROVE OnlyPrompt(h)'
    BY <1>2, <1>3 DEF ControlInv, PromptInv, OnlyPrompt
  <2>3. ASSUME NEW k \in Lines' PROVE NewLine(k)'
    BY <1>2, <1>3, <1>4, <2>1 DEF ControlInv, PromptInv, NewLine
  <2> QED BY <1>2, <2>1, <2>2, <2>3
<1> QED BY <1>6, <1>7, <1>8, <1>9, <1>10 DEF ControlInv

(***************************************************************************)
(* The handlers.                                                           *)
(***************************************************************************)
\* Who takes a request that is not in the map races with who took it before.
LEMMA ApproveStep ==
  ASSUME ControlInv, NEW h \in Handlers, NEW a \in Asks, NEW d \in Decisions, Approve(h, a, d)
  PROVE  ControlInv'
<1> DEFINE o == [Idle EXCEPT !.at = "took", !.ask = a, !.decision = d, !.input = (a \in approvals)]
<1>1. /\ handler[h].at = "idle" /\ a \in shown
      /\ handler' = [handler EXCEPT ![h] = o]
      /\ approvals' = approvals \ {a}
      /\ always' = (always \/ (protocol = "claude" /\ d = "allow_always" /\ a \in approvals))
      /\ raced' = IF \E g \in Handlers : handler[g].ask = a THEN raced \cup {a} ELSE raced
      /\ UNCHANGED <<protocol, ask, shown, inbox, reqN, pending, received, calls,
                     turnID, started, told, promptsOverlapped>>
  BY DEF Approve, callVars, turnVars
<1>2. /\ o.at = "took" /\ o.ask = a /\ o.input = (a \in approvals) /\ o.turn = 0 /\ o.kind = "none"
      /\ o \in [at : {"idle", "took", "waiting", "replied"}, ask : Asks \cup {NoAsk},
                decision : Decisions, input : BOOLEAN, id : Nat, call : Nat, kind : Kinds,
                reply : Nat, turn : Nat]
  <2>1. ASSUME NEW b \in BOOLEAN, NEW c,
               c = [Idle EXCEPT !.at = "took", !.ask = a, !.decision = d, !.input = b]
        PROVE  /\ c.at = "took" /\ c.ask = a /\ c.input = b /\ c.turn = 0 /\ c.kind = "none"
               /\ c \in [at : {"idle", "took", "waiting", "replied"}, ask : Asks \cup {NoAsk},
                         decision : Decisions, input : BOOLEAN, id : Nat, call : Nat, kind : Kinds,
                         reply : Nat, turn : Nat]
    BY <2>1 DEF Idle, Kinds
  <2>2. (a \in approvals) \in BOOLEAN
    OBVIOUS
  <2> QED BY ONLY <2>1, <2>2
<1> HIDE DEF o
<1>3. /\ handler'[h] = o /\ \A g \in Handlers : g # h => handler'[g] = handler[g]
      /\ Lines' = Lines /\ InTurn(inbox)' /\ started \in Nat
  BY <1>1 DEF ControlInv, ControlTypeOK, TurnInv, Lines, Elements, InTurn
<1>4. ControlTypeOK'
  BY <1>1, <1>2 DEF ControlInv, ControlTypeOK
<1>5. AskInv'
  <2>1. ASSUME NEW b \in Asks PROVE Placed(b)'
    <3>1. Placed(b)
      BY DEF ControlInv, AskInv
    <3>2. BeingAnswered(b) => BeingAnswered(b)'
      BY <1>1, <1>3 DEF BeingAnswered
    <3>3. BeingAnswered(a)'
      BY <1>2, <1>3 DEF BeingAnswered
    <3> QED BY <1>1, <1>3, <3>1, <3>2, <3>3 DEF Placed, Asked
  <2>2. ASSUME NEW k \in Lines' PROVE AskLine(k)'
    BY <1>1, <1>3 DEF ControlInv, AskInv, AskLine
  <2>3. Answering(h)'
    <3>1. Placed(a)
      BY DEF ControlInv, AskInv
    <3>2. BeingAnswered(a) => a \in raced'
      BY <1>1 DEF BeingAnswered
    <3> QED BY <1>1, <1>2, <1>3, <3>1, <3>2 DEF Placed, Answering
  <2>4. ASSUME NEW g \in Handlers, g # h PROVE Answering(g)'
    <3>1. raced \subseteq raced'
      BY <1>1
    <3> QED BY <1>1, <1>3, <2>4, <3>1 DEF ControlInv, AskInv, Answering
  <2> QED BY <2>1, <2>2, <2>3, <2>4 DEF AskInv
<1>6. \A g \in Handlers : ~Calling(h)' /\ (Calling(g)' => g # h /\ Calling(g))
  BY <1>2, <1>3 DEF Calling
<1>7. CallInv'
  <2>1. ASSUME NEW k \in Lines' PROVE ReplyLine(k)'
    BY <1>1, <1>3 DEF ControlInv, CallInv, ReplyLine
  <2>2. ASSUME NEW g \in Handlers PROVE OwnId(g)'
    BY <1>1, <1>3, <1>6 DEF ControlInv, CallInv, OwnId
  <2>3. ASSUME NEW g \in Handlers PROVE Expects(g)'
    BY <1>1, <1>2, <1>3 DEF ControlInv, CallInv, Expects
  <2> QED BY <1>1, <2>1, <2>2, <2>3 DEF ControlInv, CallInv, Received
<1>8. TurnInv'
  <2>1. ASSUME NEW k \in Lines' PROVE TurnLine(k)'
    BY <1>1, <1>3 DEF ControlInv, TurnInv, TurnLine
  <2>2. ASSUME NEW g \in Handlers PROVE Noting(g)'
    BY <1>1, <1>2, <1>3 DEF ControlInv, TurnInv, Noting, Calling
  <2> QED BY <1>1, <1>3, <2>1, <2>2 DEF ControlInv, TurnInv
<1>9. PromptInv'
  <2>1. ASSUME NEW g \in Handlers, \A f \in Handlers : OnlyPrompt(f) PROVE OnlyPrompt(g)'
    BY <1>1, <1>2, <1>3, <2>1 DEF OnlyPrompt
  <2>2. ASSUME NEW k \in Lines', \A l \in Lines : NewLine(l) PROVE NewLine(k)'
    <3>1. k.turn \in Nat
      BY <1>3, LineTypes
    <3> QED BY <1>1, <1>2, <1>3, <2>2, <3>1 DEF NewLine
  <2> QED BY <1>1, <2>1, <2>2 DEF ControlInv, PromptInv
<1> QED BY <1>4, <1>5, <1>7, <1>8, <1>9 DEF ControlInv

\* A handler that has nothing more to wait for leaves the others as they were.
LEMMA RestsStep ==
  ASSUME ControlInv, NEW h \in Handlers, handler' = [handler EXCEPT ![h] = Idle],
         pending \ {handler[h].id} \subseteq pending', pending' \subseteq pending,
         Calling(h) \/ pending' = pending,
         UNCHANGED <<protocol, inbox, reqN, received, calls, started, promptsOverlapped>>
  PROVE  /\ handler' \in [Handlers ->
              [at : {"idle", "took", "waiting", "replied"}, ask : Asks \cup {NoAsk},
               decision : Decisions, input : BOOLEAN, id : Nat, call : Nat, kind : Kinds,
               reply : Nat, turn : Nat]]
         /\ handler'[h] = Idle /\ \A g \in Handlers : g # h => handler'[g] = handler[g]
         /\ Lines' = Lines
         /\ CallInv'
         /\ told' <= started => TurnInv'
         /\ turnID' = turnID /\ told' = told => PromptInv'
<1>1. /\ Idle.at = "idle" /\ Idle.kind = "none" /\ Idle.turn = 0
      /\ Idle \in [at : {"idle", "took", "waiting", "replied"}, ask : Asks \cup {NoAsk},
                   decision : Decisions, input : BOOLEAN, id : Nat, call : Nat, kind : Kinds,
                   reply : Nat, turn : Nat]
  BY DEF Idle, Decisions, Kinds
<1>2. handler \in [Handlers ->
        [at : {"idle", "took", "waiting", "replied"}, ask : Asks \cup {NoAsk},
         decision : Decisions, input : BOOLEAN, id : Nat, call : Nat, kind : Kinds,
         reply : Nat, turn : Nat]] /\ started \in Nat
  BY DEF ControlInv, ControlTypeOK
<1>3. /\ handler'[h] = Idle /\ \A g \in Handlers : g # h => handler'[g] = handler[g]
      /\ Lines' = Lines /\ InTurn(inbox)'
  BY <1>2 DEF ControlInv, TurnInv, Lines, Elements, InTurn
<1>4. \A g \in Handlers : ~Calling(h)' /\ (Calling(g)' => g # h /\ Calling(g))
  BY <1>1, <1>3 DEF Calling
<1>5. CallInv'
  <2>1. ASSUME NEW k \in Lines' PROVE ReplyLine(k)'
    BY <1>3 DEF ControlInv, CallInv, ReplyLine
  <2>2. ASSUME NEW g \in Handlers PROVE OwnId(g)'
    BY <1>3, <1>4 DEF ControlInv, CallInv, OwnId
  <2>3. ASSUME NEW g \in Handlers PROVE Expects(g)'
    <3>1. CASE g = h
      BY <1>1, <1>3, <3>1 DEF Expects
    <3>2. CASE g # h
      <4>1. Calling(g) /\ Calling(h) => handler[g].id # handler[h].id
        BY <3>2 DEF ControlInv, CallInv, OwnId
      <4>2. handler[g].at = "waiting" /\ handler[g].id \in pending => handler[g].id \in pending'
        BY <4>1 DEF Calling
      <4> QED BY <1>3, <3>2, <4>2 DEF ControlInv, CallInv, Expects
    <3> QED BY <3>1, <3>2
  <2> QED BY <2>1, <2>2, <2>3 DEF ControlInv, CallInv, Received
<1>6. ASSUME told' <= started PROVE TurnInv'
  <2>1. ASSUME NEW k \in Lines' PROVE TurnLine(k)'
    BY <1>3 DEF ControlInv, TurnInv, TurnLine
  <2>2. ASSUME NEW g \in Handlers PROVE Noting(g)'
    BY <1>1, <1>2, <1>3 DEF ControlInv, TurnInv, Noting, Calling
  <2> QED BY <1>3, <1>6, <2>1, <2>2 DEF ControlInv, TurnInv
<1>7. ASSUME turnID' = turnID, told' = told PROVE PromptInv'
  <2>1. ASSUME NEW g \in Handlers, \A f \in Handlers : OnlyPrompt(f) PROVE OnlyPrompt(g)'
    BY <1>1, <1>3, <2>1 DEF OnlyPrompt
  <2>2. ASSUME NEW k \in Lines', \A l \in Lines : NewLine(l) PROVE NewLine(k)'
    <3>1. k.turn \in Nat
      BY <1>3, LineTypes
    <3> QED BY <1>1, <1>3, <1>7, <2>2, <3>1 DEF NewLine
  <2> QED BY <1>7, <2>1, <2>2 DEF ControlInv, PromptInv
<1> QED BY <1>1, <1>2, <1>3, <1>5, <1>6, <1>7

LEMMA ApproveWritesStep ==
  ASSUME ControlInv, NEW h \in Handlers, ApproveWrites(h)
  PROVE  ControlInv'
<1>1. PICK a : a = handler[h].ask
  OBVIOUS
<1>2. PICK answer : answer = IF handler[h].decision = "deny" THEN "denied"
                             ELSE IF handler[h].input THEN "input" ELSE "empty"
  OBVIOUS
<1>3. /\ handler[h].at = "took" /\ handler' = [handler EXCEPT ![h] = Idle]
      /\ ask' = IF ask[a] = "waiting" THEN [ask EXCEPT ![a] = answer] ELSE ask
      /\ UNCHANGED <<protocol, approvals, always, shown, raced, inbox, reqN, pending, received, calls,
                     turnID, started, told, promptsOverlapped>>
  BY <1>1, <1>2 DEF ApproveWrites, Takes, callVars, turnVars
<1>4. /\ a \in Asks /\ answer \in {"denied", "input", "empty"}
      /\ answer = "empty" => ask[a] # "waiting" \/ a \in raced
  BY <1>1, <1>2, <1>3 DEF ControlInv, AskInv, Answering
<1>5. told \in Nat /\ told <= started
  BY LineTypes DEF ControlInv, TurnInv
<1>6. /\ handler' \in [Handlers ->
           [at : {"idle", "took", "waiting", "replied"}, ask : Asks \cup {NoAsk},
            decision : Decisions, input : BOOLEAN, id : Nat, call : Nat, kind : Kinds,
            reply : Nat, turn : Nat]]
      /\ handler'[h] = Idle /\ \A g \in Handlers : g # h => handler'[g] = handler[g]
      /\ Lines' = Lines /\ CallInv' /\ TurnInv' /\ PromptInv'
  BY <1>3, <1>5, RestsStep
<1>7. ControlTypeOK'
  BY <1>3, <1>4, <1>6 DEF ControlInv, ControlTypeOK
<1>8. AskInv'
  <2>1. /\ \A b \in Asks : b # a => ask'[b] = ask[b]
        /\ ask[a] # "waiting" => ask'[a] = ask[a]
        /\ ask[a] = "waiting" => ask'[a] = answer
    BY <1>3, <1>4 DEF ControlInv, ControlTypeOK
  <2>2. ASSUME NEW b \in Asks PROVE Placed(b)'
    <3>1. Placed(b)
      BY DEF ControlInv, AskInv
    <3>2. BeingAnswered(b) /\ b # a => BeingAnswered(b)'
      BY <1>1, <1>6 DEF BeingAnswered
    <3>3. ask'[a] # "waiting"
      BY <1>4, <2>1
    <3> QED BY <1>3, <1>4, <1>6, <2>1, <3>1, <3>2, <3>3 DEF Placed, Asked
  <2>3. ASSUME NEW l \in Lines' PROVE AskLine(l)'
    BY <1>4, <1>6, <2>1 DEF ControlInv, AskInv, AskLine
  <2>4. ASSUME NEW g \in Handlers PROVE Answering(g)'
    <3>1. handler'[g].at = "took" => g # h /\ handler'[g] = handler[g]
      BY <1>6 DEF Idle
    <3> QED BY <1>3, <1>4, <2>1, <3>1 DEF ControlInv, AskInv, Answering
  <2> QED BY <2>2, <2>3, <2>4 DEF AskInv
<1> QED BY <1>6, <1>7, <1>8 DEF ControlInv

LEMMA CallStep ==
  ASSUME ControlInv, NEW h \in Handlers, NEW kind \in {"prompt", "interrupt", "mode"}, Call(h, kind)
  PROVE  ControlInv'
<1>1. PICK n : n = reqN + 1
  OBVIOUS
<1> DEFINE r == <<n, n, kind>>
           o == [Idle EXCEPT !.at = "waiting", !.id = n, !.call = n, !.kind = kind]
<1>2. calls = reqN /\ reqN \in Nat /\ n \in Nat /\ started \in Nat
  BY <1>1, LineTypes DEF ControlInv, CallInv
<1>3. /\ handler[h].at = "idle"
      /\ calls' = n /\ reqN' = n /\ pending' = pending \cup {n}
      /\ received' = received \cup {r}
      /\ handler' = [handler EXCEPT ![h] = o]
      /\ promptsOverlapped' = (promptsOverlapped \/ (kind = "prompt" /\ PromptUnderWay))
      /\ UNCHANGED <<protocol, ask, approvals, always, shown, raced, inbox, turnID, started, told>>
  BY <1>1, <1>2 DEF Call, NextId, askVars
<1>4. /\ o.at = "waiting" /\ o.id = n /\ o.call = n /\ o.kind = kind /\ o.turn = 0
      /\ o \in [at : {"idle", "took", "waiting", "replied"}, ask : Asks \cup {NoAsk},
                decision : Decisions, input : BOOLEAN, id : Nat, call : Nat, kind : Kinds,
                reply : Nat, turn : Nat]
  BY <1>2 DEF Idle, Decisions, Kinds
<1>5. r[1] = n /\ r[2] = n /\ r[3] = kind /\ r \in Nat \X Nat \X Kinds
  BY <1>2 DEF Kinds
<1> HIDE DEF r, o
<1>6. /\ handler'[h] = o /\ \A g \in Handlers : g # h => handler'[g] = handler[g]
      /\ Lines' = Lines /\ InTurn(inbox)'
  BY <1>3 DEF ControlInv, ControlTypeOK, TurnInv, Lines, Elements, InTurn
<1>7. /\ \A q \in received : q[1] <= reqN /\ q[1] \in Nat /\ q[1] # n
      /\ \A l \in Lines : l.type = "reply" => l.id # n
      /\ \A g \in Handlers : Calling(g) => handler[g].id # n /\ handler[g].id <= n
  BY <1>1, <1>2, LineTypes DEF ControlInv, ControlTypeOK, CallInv, Received, ReplyLine, OwnId
<1>8. ControlTypeOK'
  <2>1. pending' \subseteq 1..reqN'
    BY <1>1, <1>2, <1>3 DEF ControlInv, ControlTypeOK
  <2>2. promptsOverlapped' \in BOOLEAN
    BY <1>3 DEF ControlInv, ControlTypeOK
  <2> QED BY <1>2, <1>3, <1>4, <1>5, <2>1, <2>2 DEF ControlInv, ControlTypeOK
<1>9. AskInv'
  <2>1. \A b : BeingAnswered(b) => BeingAnswered(b)'
    BY <1>3, <1>6 DEF BeingAnswered
  <2>2. ASSUME NEW b \in Asks PROVE Placed(b)'
    BY <1>3, <1>6, <2>1 DEF ControlInv, AskInv, Placed, Asked
  <2>3. ASSUME NEW l \in Lines' PROVE AskLine(l)'
    BY <1>3, <1>6 DEF ControlInv, AskInv, AskLine
  <2>4. ASSUME NEW g \in Handlers PROVE Answering(g)'
    BY <1>3, <1>4, <1>6 DEF ControlInv, AskInv, Answering
  <2> QED BY <2>2, <2>3, <2>4 DEF AskInv
<1>10. CallInv'
  <2>1. ASSUME NEW q \in received' PROVE Received(q)'
    <3>1. CASE q = r
      BY <1>2, <1>3, <1>5, <1>7, <3>1 DEF Received
    <3>2. CASE q \in received
      <4>1. Received(q) /\ q[1] # n /\ q[1] <= n
        BY <1>1, <1>2, <1>7, <3>2 DEF ControlInv, CallInv
      <4> QED BY <1>3, <1>5, <4>1 DEF Received
    <3> QED BY <1>3, <3>1, <3>2
  <2>2. ASSUME NEW l \in Lines' PROVE ReplyLine(l)'
    BY <1>1, <1>2, <1>3, <1>5, <1>6, <1>7, LineTypes DEF ControlInv, CallInv, ReplyLine
  <2>3. ASSUME NEW g \in Handlers PROVE OwnId(g)'
    BY <1>2, <1>3, <1>4, <1>6, <1>7 DEF ControlInv, CallInv, OwnId, Calling
  <2>4. ASSUME NEW g \in Handlers PROVE Expects(g)'
    BY <1>3, <1>4, <1>5, <1>6 DEF ControlInv, CallInv, Expects
  <2> QED BY <1>3, <2>1, <2>2, <2>3, <2>4 DEF CallInv
<1>11. TurnInv'
  <2>1. ASSUME NEW l \in Lines' PROVE TurnLine(l)'
    BY <1>3, <1>6 DEF ControlInv, TurnInv, TurnLine
  <2>2. Noting(h)'
    BY <1>2, <1>3, <1>4, <1>5, <1>6, <1>7 DEF Noting, Calling
  <2>3. ASSUME NEW g \in Handlers, g # h PROVE Noting(g)'
    BY <1>3, <1>5, <1>6, <1>7, <2>3 DEF ControlInv, TurnInv, Noting, Calling
  <2> QED BY <1>3, <1>6, <2>1, <2>2, <2>3 DEF ControlInv, TurnInv
<1>12. PromptInv'
  <2> SUFFICES ASSUME ~promptsOverlapped'
               PROVE  /\ turnID' = told'
                      /\ \A p, q \in received' : p[3] = "prompt" /\ q[3] = "prompt" => p = q
                      /\ \A g \in Handlers : OnlyPrompt(g)'
                      /\ \A l \in Lines' : NewLine(l)'
    BY DEF PromptInv
  <2>1. /\ ~promptsOverlapped
        /\ kind = "prompt" => /\ \A q \in received : q[3] # "prompt"
                              /\ \A g \in Handlers : handler[g].kind # "prompt"
    BY <1>3 DEF PromptUnderWay
  <2>2. \A p, q \in received' : p[3] = "prompt" /\ q[3] = "prompt" => p = q
    BY <1>3, <1>5, <2>1 DEF ControlInv, PromptInv
  <2>3. OnlyPrompt(h)'
    BY <1>3, <1>4, <1>5, <1>6, <1>7, <2>1 DEF OnlyPrompt
  <2>4. ASSUME NEW g \in Handlers, g # h PROVE OnlyPrompt(g)'
    BY <1>3, <1>4, <1>5, <1>6, <2>1, <2>4 DEF ControlInv, PromptInv, OnlyPrompt
  <2>5. ASSUME NEW l \in Lines' PROVE NewLine(l)'
    <3>1. l.turn \in Nat
      BY <1>6, LineTypes
    <3> QED BY <1>3, <1>4, <1>6, <2>1, <3>1 DEF ControlInv, PromptInv, NewLine
  <2> QED BY <1>3, <2>1, <2>2, <2>3, <2>4, <2>5 DEF ControlInv, PromptInv
<1> QED BY <1>8, <1>9, <1>10, <1>11, <1>12 DEF ControlInv

\* What a handler that waited leaves behind when it rests.
LEMMA RestsAsks ==
  ASSUME ControlInv, NEW h \in Handlers, Calling(h), handler'[h] = Idle,
         \A g \in Handlers : g # h => handler'[g] = handler[g], Lines' = Lines,
         UNCHANGED <<ask, approvals, shown, raced>>
  PROVE  AskInv'
<1>1. \A b : BeingAnswered(b) => BeingAnswered(b)'
  BY DEF BeingAnswered, Calling
<1>2. ASSUME NEW b \in Asks PROVE Placed(b)'
  BY <1>1 DEF ControlInv, AskInv, Placed, Asked
<1>3. ASSUME NEW l \in Lines' PROVE AskLine(l)'
  BY DEF ControlInv, AskInv, AskLine
<1>4. ASSUME NEW g \in Handlers PROVE Answering(g)'
  BY DEF ControlInv, AskInv, Answering, Idle
<1> QED BY <1>2, <1>3, <1>4 DEF AskInv

\* The answer that names a turn is noted by the only prompt under way, and its
\* turn is the newest there is.
LEMMA CallReturnsStep ==
  ASSUME ControlInv, NEW h \in Handlers, CallReturns(h)
  PROVE  ControlInv'
<1>1. PICK t : t = handler[h].turn
  OBVIOUS
<1>2. /\ handler[h].at = "replied" /\ handler' = [handler EXCEPT ![h] = Idle]
      /\ IF t # 0 THEN turnID' = t /\ told' = Later(told, t) ELSE UNCHANGED <<turnID, told>>
      /\ UNCHANGED <<protocol, ask, approvals, always, shown, raced, inbox, reqN, pending, received,
                     calls, started, promptsOverlapped>>
  BY <1>1 DEF CallReturns, askVars, callVars
<1>3. /\ t \in Nat /\ t <= started /\ told \in Nat /\ told <= started /\ started \in Nat
      /\ t # 0 => handler[h].kind = "prompt"
  BY <1>1, LineTypes DEF ControlInv, TurnInv, Noting
<1>4. told' \in Nat /\ told' <= started
  BY <1>2, <1>3 DEF Later
<1>5. Calling(h) /\ pending' = pending
  BY <1>2 DEF Calling
<1>6. /\ handler' \in [Handlers ->
           [at : {"idle", "took", "waiting", "replied"}, ask : Asks \cup {NoAsk},
            decision : Decisions, input : BOOLEAN, id : Nat, call : Nat, kind : Kinds,
            reply : Nat, turn : Nat]]
      /\ handler'[h] = Idle /\ \A g \in Handlers : g # h => handler'[g] = handler[g]
      /\ Lines' = Lines /\ CallInv' /\ TurnInv'
      /\ turnID' = turnID /\ told' = told => PromptInv'
  BY <1>2, <1>4, <1>5, RestsStep
<1>7. ControlTypeOK'
  BY <1>2, <1>3, <1>4, <1>6 DEF ControlInv, ControlTypeOK
<1>8. AskInv'
  BY <1>2, <1>5, <1>6, RestsAsks
<1>9. PromptInv'
  <2>1. CASE t = 0
    BY <1>2, <1>6, <2>1
  <2>2. CASE t # 0
    <3> SUFFICES ASSUME ~promptsOverlapped
                 PROVE  /\ turnID' = told'
                        /\ \A g \in Handlers : OnlyPrompt(g)'
                        /\ \A l \in Lines' : NewLine(l)'
      BY <1>2 DEF ControlInv, PromptInv
    <3>1. t = started /\ \A l \in Lines : NewLine(l)
      BY <1>1, <1>3, <2>2 DEF ControlInv, PromptInv, OnlyPrompt
    <3>2. turnID' = t /\ told' = t
      BY <1>2, <1>3, <2>2, <3>1 DEF Later
    <3>3. ASSUME NEW g \in Handlers PROVE OnlyPrompt(g)'
      BY <1>2, <1>6 DEF ControlInv, PromptInv, OnlyPrompt, Idle
    <3>4. ASSUME NEW l \in Lines' PROVE NewLine(l)'
      <4>1. l \in Lines /\ l.turn \in Nat /\ Idle.turn = 0
        BY <1>6, LineTypes DEF Idle
      <4>2. l.turn # 0 => t <= l.turn /\ \A g \in Handlers : handler[g].turn <= l.turn
        BY <1>1, <3>1, <4>1 DEF NewLine
      <4>3. l.turn # 0 => \A g \in Handlers : handler'[g].turn <= l.turn
        BY <1>6, <4>1, <4>2
      <4> QED BY <3>2, <4>2, <4>3 DEF NewLine
    <3> QED BY <3>2, <3>3, <3>4
  <2> QED BY <2>1, <2>2
<1> QED BY <1>6, <1>7, <1>8, <1>9 DEF ControlInv

LEMMA CallGivesUpStep ==
  ASSUME ControlInv, NEW h \in Handlers, CallGivesUp(h)
  PROVE  ControlInv'
<1>1. /\ Calling(h) /\ handler' = [handler EXCEPT ![h] = Idle]
      /\ pending' = pending \ {handler[h].id}
      /\ UNCHANGED <<protocol, ask, approvals, always, shown, raced, inbox, reqN, received, calls,
                     turnID, started, told, promptsOverlapped>>
  BY DEF CallGivesUp, Calling, askVars, turnVars
<1>2. told \in Nat /\ told <= started
  BY LineTypes DEF ControlInv, TurnInv
<1>3. /\ handler' \in [Handlers ->
           [at : {"idle", "took", "waiting", "replied"}, ask : Asks \cup {NoAsk},
            decision : Decisions, input : BOOLEAN, id : Nat, call : Nat, kind : Kinds,
            reply : Nat, turn : Nat]]
      /\ handler'[h] = Idle /\ \A g \in Handlers : g # h => handler'[g] = handler[g]
      /\ Lines' = Lines /\ CallInv' /\ TurnInv' /\ PromptInv'
  BY <1>1, <1>2, RestsStep
<1>4. ControlTypeOK'
  BY <1>1, <1>3 DEF ControlInv, ControlTypeOK
<1>5. AskInv'
  BY <1>1, <1>3, RestsAsks
<1> QED BY <1>3, <1>4, <1>5 DEF ControlInv

(***************************************************************************)
(* The invariant, and what the engines promise.                            *)
(***************************************************************************)
LEMMA ControlInitInv == ControlInit => ControlInv
<1> SUFFICES ASSUME ControlInit PROVE ControlInv
  OBVIOUS
<1>1. /\ Idle.at = "idle" /\ Idle.kind = "none" /\ Idle.turn = 0
      /\ Idle \in [at : {"idle", "took", "waiting", "replied"}, ask : Asks \cup {NoAsk},
                   decision : Decisions, input : BOOLEAN, id : Nat, call : Nat, kind : Kinds,
                   reply : Nat, turn : Nat]
  BY DEF Idle, Decisions, Kinds
<1>2. Lines = {} /\ InTurn(inbox) /\ \A h \in Handlers : handler[h] = Idle
  BY DEF ControlInit, Lines, Elements, InTurn
<1>3. ControlTypeOK
  <2>1. inbox \in Seq([type : {"ask", "cancel", "reply", "turn"}, ask : Asks \cup {NoAsk},
                       id : Nat, call : Nat, turn : Nat])
    BY DEF ControlInit
  <2>2. handler \in [Handlers ->
          [at : {"idle", "took", "waiting", "replied"}, ask : Asks \cup {NoAsk},
           decision : Decisions, input : BOOLEAN, id : Nat, call : Nat, kind : Kinds,
           reply : Nat, turn : Nat]]
    BY <1>1 DEF ControlInit
  <2> QED BY <2>1, <2>2 DEF ControlInit, ControlTypeOK
<1>4. AskInv
  BY <1>1, <1>2 DEF ControlInit, AskInv, Placed, AskLine, Answering
<1>5. CallInv
  BY <1>1, <1>2 DEF ControlInit, CallInv, Received, ReplyLine, OwnId, Calling, Expects
<1>6. TurnInv
  BY <1>1, <1>2 DEF ControlInit, TurnInv, TurnLine, Noting
<1>7. PromptInv
  BY <1>1, <1>2 DEF ControlInit, PromptInv, OnlyPrompt, NewLine
<1> QED BY <1>3, <1>4, <1>5, <1>6, <1>7 DEF ControlInv

LEMMA ControlNextInv == ControlInv /\ [ControlNext]_controlVars => ControlInv'
<1> SUFFICES ASSUME ControlInv, [ControlNext]_controlVars PROVE ControlInv'
  OBVIOUS
<1>1. ASSUME NEW a \in Asks, AsksFor(a) PROVE ControlInv'
  BY <1>1, AsksForStep
<1>2. ASSUME NEW a \in Asks, Withdraws(a) PROVE ControlInv'
  BY <1>2, WithdrawsStep
<1>3. ASSUME NEW r \in received, Answers(r) PROVE ControlInv'
  BY <1>3, AnswersStep
<1>4. CASE ReadsAsk
  BY <1>4, ReadsAskStep
<1>5. CASE ReadsCancel
  BY <1>5, ReadsCancelStep
<1>6. CASE ReadsReply
  BY <1>6, ReadsReplyStep
<1>7. CASE TrackTurn
  BY <1>7, TrackTurnStep
<1>8. ASSUME NEW h \in Handlers, NEW a \in Asks, NEW d \in Decisions, Approve(h, a, d) PROVE ControlInv'
  BY <1>8, ApproveStep
<1>9. ASSUME NEW h \in Handlers, ApproveWrites(h) PROVE ControlInv'
  BY <1>9, ApproveWritesStep
<1>10. ASSUME NEW h \in Handlers, NEW kind \in {"prompt", "interrupt", "mode"}, Call(h, kind)
       PROVE  ControlInv'
  BY <1>10, CallStep
<1>11. ASSUME NEW h \in Handlers, CallReturns(h) PROVE ControlInv'
  BY <1>11, CallReturnsStep
<1>12. ASSUME NEW h \in Handlers, CallGivesUp(h) PROVE ControlInv'
  BY <1>12, CallGivesUpStep
<1>13. CASE UNCHANGED controlVars
  <2>1. UNCHANGED <<protocol, ask, approvals, always, shown, raced, inbox, handler, reqN, pending,
                    received, calls, turnID, started, told, promptsOverlapped>>
    BY <1>13 DEF controlVars, askVars, callVars, turnVars
  <2> QED BY <2>1 DEF ControlInv, ControlTypeOK, AskInv, Placed, Asked, BeingAnswered, AskLine, Answering,
                      CallInv, Received, ReplyLine, OwnId, Calling, Expects, TurnInv, TurnLine,
                      Noting, PromptInv, OnlyPrompt, NewLine, Lines, Elements, InTurn
<1> QED
  BY <1>1, <1>2, <1>3, <1>4, <1>5, <1>6, <1>7, <1>8, <1>9, <1>10, <1>11, <1>12, <1>13
  DEF ControlNext

\* The protocol engines keep their invariant.
THEOREM ControlInvariant == ControlSpec => []ControlInv
<1> QED BY ControlInitInv, ControlNextInv, PTL DEF ControlSpec

\* The state of the engines has its types: only published requests are in the
\* map, and nobody waits for an id that was never handed out.
THEOREM ControlTypesCorrect == ControlSpec => []ControlTypeOK
<1>1. ControlInv => ControlTypeOK
  BY DEF ControlInv
<1> QED BY <1>1, ControlInvariant, PTL

LEMMA ControlInvServes == ControlInv => AsksAreServed
<1> SUFFICES ASSUME ControlInv, NEW a \in Asks
             PROVE  /\ ask[a] = "waiting" =>
                         Unread(a) \/ (a \in approvals /\ a \in shown) \/ BeingAnswered(a)
                    /\ ask[a] = "empty" => a \in raced
  BY DEF AsksAreServed
<1>1. Placed(a) /\ approvals \subseteq shown
  BY DEF ControlInv, AskInv, ControlTypeOK
<1>2. Asked(a) => Unread(a)
  BY DEF Asked, Unread, Lines, Elements
<1> QED BY <1>1, <1>2 DEF Placed

\* The child never waits for an answer that nobody can give, and runs what it
\* asked for unless two handlers raced (handleLine, approve).
THEOREM AsksStayServed == ControlSpec => []AsksAreServed
<1> QED BY ControlInvariant, ControlInvServes, PTL

LEMMA ControlInvMatches == ControlInv => AnswersMatch
<1> SUFFICES ASSUME ControlInv, NEW h \in Handlers
             PROVE  /\ handler[h].at = "replied" => handler[h].reply = handler[h].call
                    /\ handler[h].at = "waiting" =>
                         /\ handler[h].id \in pending
                         /\ \/ \E r \in received : r[2] = handler[h].call
                            \/ \E i \in 1..Len(inbox) :
                                 inbox[i].type = "reply" /\ inbox[i].call = handler[h].call
  BY DEF AnswersMatch
<1>1. Expects(h) /\ OwnId(h)
  BY DEF ControlInv, CallInv
<1>2. \A r \in received : r[1] = r[2]
  BY DEF ControlInv, CallInv, Received
<1>3. \A l \in Lines : l.type = "reply" => l.id = l.call
  BY DEF ControlInv, CallInv, ReplyLine
<1>4. (\E l \in Lines : l.type = "reply" /\ l.call = handler[h].call) =>
        \E i \in 1..Len(inbox) : inbox[i].type = "reply" /\ inbox[i].call = handler[h].call
  BY DEF Lines, Elements
<1> QED BY <1>1, <1>2, <1>3, <1>4 DEF Expects, OwnId, Calling

\* A handler gets the answer to its own request, whatever was given up before
\* (sendControl, call, routeControlResponse, routeResponse).
THEOREM AnswersStayMatched == ControlSpec => []AnswersMatch
<1> QED BY ControlInvariant, ControlInvMatches, PTL

\* Interrupt aims at the newest turn the agent was told of, as long as no two
\* prompts were under way at once (trackTurn, sendPrompt, Interrupt).
THEOREM TurnStaysCurrent == ControlSpec => []TurnIsCurrent
<1>1. ControlInv => TurnIsCurrent
  BY DEF ControlInv, PromptInv, TurnIsCurrent
<1> QED BY <1>1, ControlInvariant, PTL

-----------------------------------------------------------------------------
(***************************************************************************)
(* CodexExec: the types of its state, and that what prompts, interrupts    *)
(* and stops of several handlers do to a session leaves it one             *)
(* conversation: one turn at a time, each resuming the thread that those   *)
(* before it reported (ConversationHolds).                                 *)
(*                                                                         *)
(* The argument is about session objects, not about the entry of the map:  *)
(* a handler may hold an object that a Stop has forgotten.  An object has  *)
(* one thread in its life, so what its turns reported and resumed is the   *)
(* thread it has now.                                                      *)
(***************************************************************************)

(***************************************************************************)
(* The invariants.                                                         *)
(***************************************************************************)
Started(t) == turn[t].state # "none"

ObjectType == [running : BOOLEAN, cancel : Turns \cup {NoTurn}, threadID : Nat, runMode : Modes]

ProcessType == [of : Objects, state : {"live", "cancelled", "ended"}, resumes : Nat,
                policy : Modes, reports : Nat, nth : Nat, crossed : BOOLEAN]

CallType == [at : {"idle", "prompt", "interrupt", "cancel", "stop", "forget", "mode"},
             object : 0..starts, cancel : Turns \cup {NoTurn}]

Types ==
  /\ starts \in Nat /\ starts <= MaxStarts /\ entry \in 0..starts
  /\ startedTurns \in Nat /\ thread \in Nat
  /\ object \in [Objects -> ObjectType]
  /\ turn \in [Turns -> ProcessType \cup {NoProcess}]
  /\ \A t \in Turns : Started(t) => turn[t].of \in 1..starts
  /\ execCall \in [ExecHandlers -> CallType]
  /\ \A h \in ExecHandlers : execCall[h].at # "idle" => execCall[h].object \in 1..starts

\* Processes are numbered in the order they started.
Numbered(t) == Started(t) =>
  /\ turn[t].nth \in 1..startedTurns
  /\ \A u \in Turns : Started(u) /\ turn[u].nth = turn[t].nth => u = t

\* The one that runs is its object's, and the newest of it.
Running(t) == Lives(t) =>
  /\ object[turn[t].of].running /\ object[turn[t].of].cancel = t
  /\ \A u \in Turns : Started(u) /\ turn[u].of = turn[t].of => turn[u].nth <= turn[t].nth

\* The number of a thread is that of the turn that opened it.
Threads == {0} \cup {turn[t].nth : t \in Turns}

\* An object keeps its thread: its turns resumed it or opened it.
OneThread(t) == Started(t) =>
  /\ turn[t].reports # 0 => turn[t].reports = object[turn[t].of].threadID
  /\ turn[t].resumes # 0 => turn[t].resumes = object[turn[t].of].threadID
  /\ Lives(t) /\ turn[t].reports = 0 => turn[t].resumes = object[turn[t].of].threadID
  /\ turn[t].resumes \in Threads

ThreadInv ==
  /\ thread \in Threads
  /\ \A o \in Objects : object[o].threadID \in Threads
  /\ \A t \in Turns : OneThread(t)

ExecInv ==
  /\ Types
  /\ \A t \in Turns : Numbered(t) /\ Running(t)
  /\ ThreadInv
  /\ ContextIsKept

LEMMA ProcessTypes ==
  ASSUME Types
  PROVE  /\ \A t \in Turns : Started(t) => turn[t] \in ProcessType
         /\ \A t \in Turns : ~Started(t) => turn[t] = NoProcess
         /\ \A t \in Turns : turn[t].nth \in Nat /\ turn[t].reports \in Nat /\ turn[t].resumes \in Nat
         /\ \A t \in Turns : Lives(t) => Started(t)
         /\ \A o \in 1..starts : o \in Objects /\ object[o] \in ObjectType
<1>1. \A t \in Turns : turn[t] \in ProcessType \/ turn[t] = NoProcess
  BY DEF Types
<1>2. \A p \in ProcessType : p.state # "none" /\ p.nth \in Nat /\ p.reports \in Nat /\ p.resumes \in Nat
  BY DEF ProcessType
<1>3. NoProcess.state = "none" /\ NoProcess.nth = 0 /\ NoProcess.reports = 0 /\ NoProcess.resumes = 0
  BY DEF NoProcess
<1>4. \A o \in 1..starts : o \in Objects /\ object[o] \in ObjectType
  BY MaxStartsAssumption DEF Types, Objects
<1>5. \A t \in Turns : Lives(t) => Started(t)
  BY DEF Lives, Started
<1> QED BY <1>1, <1>2, <1>3, <1>4, <1>5 DEF Started

\* What changes neither processes nor session objects.
LEMMA Untouched ==
  ASSUME ExecInv, UNCHANGED <<object, turn, thread, startedTurns, starts>>,
         entry' \in 0..starts, execCall' \in [ExecHandlers -> CallType],
         \A h \in ExecHandlers : execCall'[h].at # "idle" => execCall'[h].object \in 1..starts
  PROVE  ExecInv'
<1>1. Types'
  BY DEF ExecInv, Types, Started, CallType
<1>2. \A t \in Turns : Numbered(t)' /\ Running(t)'
  BY DEF ExecInv, Numbered, Running, Started, Lives
<1>3. ThreadInv'
  BY DEF ExecInv, ThreadInv, OneThread, Threads, Started, Lives
<1>4. ContextIsKept'
  BY DEF ExecInv, ContextIsKept
<1> QED BY <1>1, <1>2, <1>3, <1>4 DEF ExecInv

LEMMA RestingCall ==
  ASSUME Types, NEW h \in ExecHandlers, execCall' = [execCall EXCEPT ![h] = NoExecCall]
  PROVE  /\ execCall' \in [ExecHandlers -> CallType]
         /\ \A g \in ExecHandlers : execCall'[g].at # "idle" => execCall'[g].object \in 1..starts
<1>1. NoExecCall \in CallType /\ NoExecCall.at = "idle"
  BY DEF NoExecCall, CallType, Types
<1> QED BY <1>1 DEF Types

\* A process that is cancelled keeps its place.
LEMMA CancelledKeeps ==
  ASSUME ExecInv, NEW c \in Turns \cup {NoTurn}, turn' = Cancelled(c),
         UNCHANGED <<object, thread, startedTurns, starts>>,
         entry' \in 0..starts, execCall' \in [ExecHandlers -> CallType],
         \A h \in ExecHandlers : execCall'[h].at # "idle" => execCall'[h].object \in 1..starts
  PROVE  ExecInv'
<1>1. CASE turn' = turn
  BY <1>1, Untouched
<1>2. CASE c \in Turns /\ turn[c].state = "live" /\ turn' = [turn EXCEPT ![c].state = "cancelled"]
  <2>1. turn[c] \in ProcessType
    BY <1>2, ProcessTypes DEF ExecInv, Started
  <2>2. turn' \in [Turns -> ProcessType \cup {NoProcess}]
    BY <1>2, <2>1 DEF ExecInv, Types, ProcessType
  <2>3. \A t \in Turns :
          /\ turn'[t].of = turn[t].of /\ turn'[t].nth = turn[t].nth
          /\ turn'[t].reports = turn[t].reports /\ turn'[t].resumes = turn[t].resumes
          /\ (turn'[t].state = "none" <=> turn[t].state = "none")
          /\ (turn'[t].state \in {"live", "cancelled"} <=> turn[t].state \in {"live", "cancelled"})
    BY <1>2, <2>1 DEF ExecInv, Types, ProcessType
  <2>4. Types'
    BY <2>2, <2>3 DEF ExecInv, Types, Started, CallType
  <2>5. \A t \in Turns : Numbered(t)' /\ Running(t)'
    BY <2>3 DEF ExecInv, Numbered, Running, Started, Lives
  <2>6. ThreadInv'
    BY <2>3 DEF ExecInv, ThreadInv, OneThread, Threads, Started, Lives
  <2>7. ContextIsKept'
    BY <2>3 DEF ExecInv, ContextIsKept
  <2> QED BY <2>4, <2>5, <2>6, <2>7 DEF ExecInv
<1> QED BY <1>1, <1>2 DEF Cancelled

(***************************************************************************)
(* The handlers.                                                           *)
(***************************************************************************)
\* A new object has no turn yet, and the thread of the row.
LEMMA ExecStartStep ==
  ASSUME ExecInv, NEW h \in ExecHandlers, NEW mode \in Modes, ExecStart(h, mode)
  PROVE  ExecInv'
<1>1. PICK n : n = starts + 1
  OBVIOUS
<1> DEFINE o == [NoObject EXCEPT !.threadID = thread, !.runMode = mode]
<1>2. /\ starts' = n /\ entry' = n /\ object' = [object EXCEPT ![n] = o]
      /\ starts \in Nat /\ starts < MaxStarts
      /\ UNCHANGED <<turn, thread, execCall, startedTurns>>
  BY <1>1 DEF ExecStart, ExecInv, Types
<1>3. o \in ObjectType /\ o.threadID = thread
  BY DEF NoObject, ObjectType, Modes, ExecInv, Types
<1> HIDE DEF o
<1>4. /\ n \in Objects /\ starts' \in Nat /\ starts' <= MaxStarts /\ entry' \in 0..starts'
      /\ 0..starts \subseteq 0..starts' /\ 1..starts \subseteq 1..starts'
      /\ \A i \in 1..starts : i # n
  BY <1>1, <1>2, MaxStartsAssumption DEF Objects
<1>5. object' \in [Objects -> ObjectType] /\ object'[n] = o
      /\ \A i \in Objects : i # n => object'[i] = object[i]
  BY <1>2, <1>3, <1>4 DEF ExecInv, Types
<1>6. \A t \in Turns : Started(t) => turn[t].of \in Objects /\ object'[turn[t].of] = object[turn[t].of]
  BY <1>4, <1>5, ProcessTypes DEF ExecInv, Types
<1>7. execCall' \in [ExecHandlers -> CallType']
  BY <1>2, <1>4 DEF ExecInv, Types, CallType
<1>8. Types'
  BY <1>2, <1>4, <1>5, <1>7 DEF ExecInv, Types, Started
<1>9. \A t \in Turns : Numbered(t)' /\ Running(t)'
  BY <1>2, <1>6, ProcessTypes DEF ExecInv, Numbered, Running, Started, Lives
<1>10. ThreadInv'
  <2>1. Threads' = Threads
    BY <1>2 DEF Threads
  <2>2. ASSUME NEW i \in Objects PROVE object'[i].threadID \in Threads
    BY <1>3, <1>5 DEF ExecInv, ThreadInv
  <2>3. ASSUME NEW t \in Turns PROVE OneThread(t)'
    BY <1>2, <1>6, <2>1 DEF ExecInv, ThreadInv, OneThread, Started, Lives
  <2> QED BY <1>2, <2>1, <2>2, <2>3 DEF ExecInv, ThreadInv
<1>11. ContextIsKept'
  BY <1>2 DEF ExecInv, ContextIsKept
<1> QED BY <1>8, <1>9, <1>10, <1>11 DEF ExecInv

LEMMA FindsStep ==
  ASSUME ExecInv, NEW h \in ExecHandlers,
         NEW what \in {"prompt", "interrupt", "stop", "mode"}, Finds(h, what)
  PROVE  ExecInv'
<1> DEFINE c == [at |-> what, object |-> entry, cancel |-> NoTurn]
<1>1. /\ entry # 0 /\ entry' = entry /\ execCall' = [execCall EXCEPT ![h] = c]
      /\ UNCHANGED <<object, starts, turn, thread, startedTurns>>
  BY DEF Finds
<1>2. entry \in 1..starts /\ entry \in 0..starts
  BY <1>1 DEF ExecInv, Types
<1>3. c \in CallType /\ c.object \in 1..starts
  BY <1>2 DEF CallType
<1> HIDE DEF c
<1>4. /\ execCall' \in [ExecHandlers -> CallType]
      /\ \A g \in ExecHandlers : execCall'[g].at # "idle" => execCall'[g].object \in 1..starts
  BY <1>1, <1>3 DEF ExecInv, Types
<1> QED BY <1>1, <1>2, <1>4, Untouched

\* A turn starts only in an object that has none running, with the number after
\* all others and the thread the object has.
LEMMA RunTurnStep ==
  ASSUME ExecInv, NEW h \in ExecHandlers, NEW t \in Turns, RunTurn(h, t)
  PROVE  ExecInv'
<1>1. PICK o : o = execCall[h].object
  OBVIOUS
<1>2. PICK n : n = startedTurns + 1
  OBVIOUS
<1>3. PICK policy : policy = Policy(object[o])
  OBVIOUS
<1> DEFINE crosses == StopCrosses(o)
           p == [of |-> o, state |-> "live", resumes |-> object[o].threadID, policy |-> policy,
                 reports |-> 0, nth |-> n, crossed |-> crosses]
           b == [object[o] EXCEPT !.running = TRUE, !.cancel = t]
<1>4. /\ execCall[h].at = "prompt" /\ turn[t].state = "none" /\ ~object[o].running
      /\ object' = [object EXCEPT ![o].running = TRUE, ![o].cancel = t]
      /\ startedTurns' = n /\ turn' = [turn EXCEPT ![t] = p]
      /\ execCall' = [execCall EXCEPT ![h] = NoExecCall]
      /\ UNCHANGED <<entry, starts, thread>>
  BY <1>1, <1>2, <1>3 DEF RunTurn, Done
<1>17. crosses \in BOOLEAN
  BY DEF StopCrosses
<1> HIDE DEF crosses
<1>5. /\ o \in 1..starts /\ o \in Objects /\ object[o] \in ObjectType
      /\ startedTurns \in Nat /\ n \in Nat \ {0}
  BY <1>1, <1>2, <1>4, ProcessTypes DEF ExecInv, Types
<1>6. policy \in Modes
  <2>1. CASE object[o].threadID = 0
    BY <1>3, <1>5, <2>1 DEF Policy, ObjectType
  <2>2. CASE object[o].threadID # 0
    <3>1. PICK u \in Turns : turn[u].nth = object[o].threadID
      BY <1>5, <2>2 DEF ExecInv, ThreadInv, Threads
    <3>2. PICK w : w = CHOOSE v \in Turns : turn[v].nth = object[o].threadID
      OBVIOUS
    <3>3. w \in Turns /\ turn[w].nth # 0
      BY <2>2, <3>1, <3>2
    <3>4. turn[w] \in ProcessType
      BY <3>3, ProcessTypes DEF ExecInv, Types, NoProcess
    <3> QED BY <1>3, <2>2, <3>2, <3>4 DEF Policy, ProcessType
  <2> QED BY <2>1, <2>2
<1>7. /\ p \in ProcessType /\ p.of = o /\ p.state = "live" /\ p.reports = 0 /\ p.nth = n
      /\ p.resumes = object[o].threadID
  BY <1>5, <1>6, <1>17 DEF ProcessType, ObjectType
<1>8. b \in ObjectType /\ b.running /\ b.cancel = t /\ b.threadID = object[o].threadID
  BY <1>5 DEF ObjectType
<1>9. object' = [object EXCEPT ![o] = b]
  BY <1>4
<1> HIDE DEF p, b
<1>10. /\ turn'[t] = p /\ \A u \in Turns : u # t => turn'[u] = turn[u]
       /\ object'[o] = b /\ \A i \in Objects : i # o => object'[i] = object[i]
       /\ \A i \in Objects : object'[i].threadID = object[i].threadID
  BY <1>4, <1>5, <1>8, <1>9 DEF ExecInv, Types
<1>11. /\ \A u \in Turns : Started(u) => turn[u].nth < n /\ turn[u].nth \in 1..n
                                         /\ turn[u].of \in Objects
       /\ \A u \in Turns : Lives(u) => turn[u].of # o
       /\ \A u \in Turns : Lives(u) => Started(u)
       /\ ~Started(t)
  BY <1>2, <1>4, <1>5, ProcessTypes DEF ExecInv, Numbered, Running, Started, ProcessType
<1>12. Types'
  <2>1. turn' \in [Turns -> ProcessType \cup {NoProcess}] /\ object' \in [Objects -> ObjectType]
    <3>1. turn \in [Turns -> ProcessType \cup {NoProcess}] /\ object \in [Objects -> ObjectType]
      BY DEF ExecInv, Types
    <3>2. turn' = [turn EXCEPT ![t] = p]
      BY <1>4
    <3>3. turn' \in [Turns -> ProcessType \cup {NoProcess}]
      BY ONLY <1>7, <3>1, <3>2
    <3> QED BY ONLY <1>8, <1>9, <3>1, <3>3
  <2>2. /\ execCall' \in [ExecHandlers -> CallType]
        /\ \A g \in ExecHandlers : execCall'[g].at # "idle" => execCall'[g].object \in 1..starts
    BY <1>4, RestingCall DEF ExecInv
  <2>3. \A u \in Turns : Started(u)' => turn'[u].of \in 1..starts
    BY <1>5, <1>7, <1>10 DEF ExecInv, Types, Started
  <2> QED BY <1>4, <1>5, <2>1, <2>2, <2>3 DEF ExecInv, Types, CallType
<1>13. ASSUME NEW u \in Turns PROVE Numbered(u)'
  BY <1>4, <1>5, <1>7, <1>10, <1>11 DEF ExecInv, Numbered, Started
<1>14. ASSUME NEW u \in Turns PROVE Running(u)'
  <2>1. CASE u = t
    BY <1>5, <1>7, <1>8, <1>10, <1>11, <2>1 DEF Running, Started
  <2>2. CASE u # t
    <3>1. Lives(u)' => Lives(u) /\ Started(u) /\ turn[u].of # o /\ turn[u].of \in Objects
      BY <1>10, <1>11, <2>2 DEF Lives
    <3> QED BY <1>7, <1>10, <2>2, <3>1 DEF ExecInv, Running, Started
  <2> QED BY <2>1, <2>2
<1>15. ThreadInv'
  <2>1. Threads \subseteq Threads'
    <3>1. \A u \in Turns : turn[u].nth = 0 \/ turn'[u].nth = turn[u].nth
      BY <1>4, <1>10 DEF ExecInv, Types, NoProcess, ProcessType
    <3> QED BY <3>1 DEF Threads
  <2>2. ASSUME NEW u \in Turns PROVE OneThread(u)'
    <3>1. CASE u = t
      BY <1>5, <1>7, <1>10, <2>1, <3>1 DEF ExecInv, ThreadInv, OneThread
    <3>2. CASE u # t
      BY <1>10, <1>11, <2>1, <3>2 DEF ExecInv, ThreadInv, OneThread, Started, Lives
    <3> QED BY <3>1, <3>2
  <2> QED BY <1>4, <1>10, <2>1, <2>2 DEF ExecInv, ThreadInv
<1>16. ContextIsKept'
  <2> SUFFICES ASSUME NEW v \in Turns, NEW u \in Turns,
                      turn'[v].state # "none", turn'[u].state # "none",
                      turn'[v].of = turn'[u].of, turn'[v].nth < turn'[u].nth,
                      turn'[v].reports # 0
               PROVE  turn'[u].resumes = turn'[v].reports
    BY DEF ContextIsKept
  <2>1. v # t
    BY <1>7, <1>10
  <2>2. CASE u = t
    BY <1>7, <1>10, <2>1, <2>2 DEF ExecInv, ThreadInv, OneThread, Started
  <2>3. CASE u # t
    BY <1>10, <2>1, <2>3 DEF ExecInv, ContextIsKept
  <2> QED BY <2>2, <2>3
<1> QED BY <1>12, <1>13, <1>14, <1>15, <1>16 DEF ExecInv

LEMMA TurnRefusedStep ==
  ASSUME ExecInv, NEW h \in ExecHandlers, TurnRefused(h)
  PROVE  ExecInv'
<1>1. /\ execCall' = [execCall EXCEPT ![h] = NoExecCall]
      /\ UNCHANGED <<entry, object, starts, turn, thread, startedTurns>>
  BY DEF TurnRefused, Done
<1> QED BY <1>1, RestingCall, Untouched DEF ExecInv, Types

LEMMA InterruptReadsStep ==
  ASSUME ExecInv, NEW h \in ExecHandlers, InterruptReads(h)
  PROVE  ExecInv'
<1>1. PICK o : o = execCall[h].object
  OBVIOUS
<1> DEFINE c == [execCall[h] EXCEPT !.at = "cancel", !.cancel = object[o].cancel]
<1>2. /\ execCall[h].at = "interrupt" /\ execCall' = [execCall EXCEPT ![h] = c]
      /\ UNCHANGED <<entry, object, starts, turn, thread, startedTurns>>
  BY <1>1 DEF InterruptReads
<1>3. o \in 1..starts /\ object[o] \in ObjectType /\ execCall[h] \in CallType
  BY <1>1, <1>2, ProcessTypes DEF ExecInv, Types
<1>4. c \in CallType /\ c.object \in 1..starts
  BY <1>1, <1>3 DEF CallType, ObjectType
<1> HIDE DEF c
<1>5. /\ execCall' \in [ExecHandlers -> CallType]
      /\ \A g \in ExecHandlers : execCall'[g].at # "idle" => execCall'[g].object \in 1..starts
  BY <1>2, <1>4 DEF ExecInv, Types
<1> QED BY <1>2, <1>5, Untouched DEF ExecInv, Types

LEMMA InterruptCancelsStep ==
  ASSUME ExecInv, NEW h \in ExecHandlers, InterruptCancels(h)
  PROVE  ExecInv'
<1>1. PICK c : c = execCall[h].cancel
  OBVIOUS
<1>2. /\ turn' = Cancelled(c) /\ execCall' = [execCall EXCEPT ![h] = NoExecCall]
      /\ UNCHANGED <<entry, object, starts, thread, startedTurns>>
  BY <1>1 DEF InterruptCancels, Done
<1>3. c \in Turns \cup {NoTurn} /\ entry' \in 0..starts
  BY <1>1, <1>2 DEF ExecInv, Types, CallType
<1>4. /\ execCall' \in [ExecHandlers -> CallType]
      /\ \A g \in ExecHandlers : execCall'[g].at # "idle" => execCall'[g].object \in 1..starts
  BY <1>2, RestingCall DEF ExecInv
<1> QED BY <1>2, <1>3, <1>4, CancelledKeeps

LEMMA StopCancelsStep ==
  ASSUME ExecInv, NEW h \in ExecHandlers, StopCancels(h)
  PROVE  ExecInv'
<1>1. PICK o : o = execCall[h].object
  OBVIOUS
<1>2. PICK c : c = object[o].cancel
  OBVIOUS
<1> DEFINE d == [execCall[h] EXCEPT !.at = "forget"]
<1>3. /\ execCall[h].at = "stop" /\ turn' = Cancelled(c) /\ execCall' = [execCall EXCEPT ![h] = d]
      /\ UNCHANGED <<entry, object, starts, thread, startedTurns>>
  BY <1>1, <1>2 DEF StopCancels
<1>4. o \in 1..starts /\ object[o] \in ObjectType /\ execCall[h] \in CallType /\ entry' \in 0..starts
  BY <1>1, <1>3, ProcessTypes DEF ExecInv, Types
<1>5. c \in Turns \cup {NoTurn} /\ d \in CallType /\ d.object \in 1..starts
  BY <1>1, <1>2, <1>4 DEF CallType, ObjectType
<1> HIDE DEF d
<1>6. /\ execCall' \in [ExecHandlers -> CallType]
      /\ \A g \in ExecHandlers : execCall'[g].at # "idle" => execCall'[g].object \in 1..starts
  BY <1>3, <1>5 DEF ExecInv, Types
<1> QED BY <1>3, <1>4, <1>5, <1>6, CancelledKeeps

LEMMA StopForgetsStep ==
  ASSUME ExecInv, NEW h \in ExecHandlers, StopForgets(h)
  PROVE  ExecInv'
<1>1. /\ entry' = 0 /\ execCall' = [execCall EXCEPT ![h] = NoExecCall]
      /\ UNCHANGED <<object, starts, turn, thread, startedTurns>>
  BY DEF StopForgets, Done
<1>2. entry' \in 0..starts
  BY <1>1 DEF ExecInv, Types
<1> QED BY <1>1, <1>2, RestingCall, Untouched DEF ExecInv

\* What changes a session object but neither its turn nor its thread.
LEMMA SetModeStep ==
  ASSUME ExecInv, NEW h \in ExecHandlers, NEW mode \in Modes, SetMode(h, mode)
  PROVE  ExecInv'
<1>1. PICK o : o = execCall[h].object
  OBVIOUS
<1> DEFINE b == [object[o] EXCEPT !.runMode = mode]
<1>2. /\ execCall[h].at = "mode" /\ object' = [object EXCEPT ![o] = b]
      /\ execCall' = [execCall EXCEPT ![h] = NoExecCall]
      /\ UNCHANGED <<entry, starts, turn, thread, startedTurns>>
  BY <1>1 DEF SetMode, Done
<1>3. o \in Objects /\ object[o] \in ObjectType
  BY <1>1, <1>2, ProcessTypes DEF ExecInv, Types
<1>4. /\ b \in ObjectType /\ b.running = object[o].running /\ b.cancel = object[o].cancel
      /\ b.threadID = object[o].threadID
  BY <1>3 DEF ObjectType
<1> HIDE DEF b
<1>5. /\ object' \in [Objects -> ObjectType]
      /\ \A i \in Objects : /\ object'[i].running = object[i].running
                            /\ object'[i].cancel = object[i].cancel
                            /\ object'[i].threadID = object[i].threadID
  BY <1>2, <1>3, <1>4 DEF ExecInv, Types
<1>6. /\ execCall' \in [ExecHandlers -> CallType]
      /\ \A g \in ExecHandlers : execCall'[g].at # "idle" => execCall'[g].object \in 1..starts
  BY <1>2, RestingCall DEF ExecInv
<1>7. Types'
  BY <1>2, <1>5, <1>6 DEF ExecInv, Types, Started, CallType
<1>8. \A u \in Turns : Started(u) => turn[u].of \in Objects
  BY ProcessTypes DEF ExecInv, ProcessType
<1>9. ASSUME NEW u \in Turns PROVE Numbered(u)' /\ Running(u)'
  BY <1>2, <1>5, <1>8, ProcessTypes DEF ExecInv, Numbered, Running, Started, Lives
<1>10. ThreadInv'
  BY <1>2, <1>5, <1>8 DEF ExecInv, ThreadInv, OneThread, Threads, Started, Lives
<1>11. ContextIsKept'
  BY <1>2 DEF ExecInv, ContextIsKept
<1> QED BY <1>7, <1>9, <1>10, <1>11 DEF ExecInv

(***************************************************************************)
(* The process and the goroutine that drains it.                           *)
(***************************************************************************)
\* What a turn reports first is the thread its object has already, or opens it
\* when no turn of the object has reported one.
LEMMA CaptureThreadStep ==
  ASSUME ExecInv, NEW t \in Turns, CaptureThread(t)
  PROVE  ExecInv'
<1>1. PICK o : o = turn[t].of
  OBVIOUS
<1>2. PICK n : n = Reports(t)
  OBVIOUS
<1> DEFINE p == [turn[t] EXCEPT !.reports = n]
           b == [object[o] EXCEPT !.threadID = n]
<1>3. /\ Lives(t) /\ turn[t].reports = 0
      /\ turn' = [turn EXCEPT ![t] = p] /\ object' = [object EXCEPT ![o] = b] /\ thread' = n
      /\ UNCHANGED <<entry, starts, execCall, startedTurns>>
  BY <1>1, <1>2 DEF CaptureThread
<1>4. /\ Started(t) /\ turn[t] \in ProcessType /\ o \in Objects /\ o \in 1..starts
      /\ object[o] \in ObjectType /\ turn[t].nth \in Nat \ {0}
  BY <1>1, <1>3, ProcessTypes DEF ExecInv, Types, Numbered
<1>5. n \in Nat \ {0} /\ n \in Threads
  BY <1>2, <1>4, ProcessTypes DEF ExecInv, Types, Reports, ThreadInv, OneThread, Threads, ProcessType
<1>6. turn[t].resumes = object[o].threadID /\ (turn[t].resumes # 0 => n = object[o].threadID)
  BY <1>1, <1>2, <1>3, <1>4 DEF ExecInv, ThreadInv, OneThread, Reports
<1>7. /\ p \in ProcessType /\ p.of = o /\ p.state = turn[t].state /\ p.resumes = turn[t].resumes
      /\ p.nth = turn[t].nth /\ p.reports = n
  BY <1>1, <1>4, <1>5 DEF ProcessType
<1>8. b \in ObjectType /\ b.running = object[o].running /\ b.cancel = object[o].cancel /\ b.threadID = n
  BY <1>4, <1>5 DEF ObjectType
<1> HIDE DEF p, b
<1>9. /\ turn' \in [Turns -> ProcessType \cup {NoProcess}] /\ object' \in [Objects -> ObjectType]
      /\ turn'[t] = p /\ \A u \in Turns : u # t => turn'[u] = turn[u]
      /\ object'[o] = b /\ \A i \in Objects : i # o => object'[i] = object[i]
  BY <1>3, <1>4, <1>7, <1>8 DEF ExecInv, Types
<1>10. /\ \A u \in Turns : /\ turn'[u].of = turn[u].of /\ turn'[u].state = turn[u].state
                           /\ turn'[u].nth = turn[u].nth /\ turn'[u].resumes = turn[u].resumes
                           /\ u # t => turn'[u].reports = turn[u].reports
       /\ \A i \in Objects : object'[i].running = object[i].running /\ object'[i].cancel = object[i].cancel
  BY <1>1, <1>7, <1>8, <1>9
<1>11. \A u \in Turns : Started(u) => turn[u].of \in Objects
  BY ProcessTypes DEF ExecInv, ProcessType
<1>12. Types'
  BY <1>3, <1>5, <1>9, <1>10 DEF ExecInv, Types, Started, CallType
<1>13. ASSUME NEW u \in Turns PROVE Numbered(u)' /\ Running(u)'
  BY <1>3, <1>10, <1>11, ProcessTypes DEF ExecInv, Numbered, Running, Started, Lives
<1>14. Threads' = Threads
  BY <1>10 DEF Threads
<1>15. ASSUME NEW u \in Turns PROVE OneThread(u)'
  <2>1. OneThread(u)
    BY DEF ExecInv, ThreadInv
  <2>2. CASE u = t
    BY <1>1, <1>4, <1>5, <1>6, <1>7, <1>8, <1>9, <1>14, <2>1, <2>2 DEF OneThread, Started, Lives
  <2>3. CASE u # t /\ turn[u].of = o
    <3>1. ~Lives(u)
      BY <1>1, <1>3, <2>3 DEF ExecInv, Running
    <3>2. Started(u) /\ (turn[u].reports # 0 \/ turn[u].resumes # 0) => n = object[o].threadID
      BY <1>6, <2>1, <2>3 DEF OneThread
    <3> QED BY <1>8, <1>9, <1>10, <1>14, <2>1, <2>3, <3>1, <3>2 DEF OneThread, Started, Lives
  <2>4. CASE u # t /\ turn[u].of # o
    BY <1>9, <1>10, <1>11, <1>14, <2>1, <2>4 DEF OneThread, Started, Lives
  <2> QED BY <2>2, <2>3, <2>4
<1>16. ThreadInv'
  BY <1>3, <1>5, <1>8, <1>9, <1>14, <1>15 DEF ExecInv, ThreadInv
<1>17. ContextIsKept'
  <2> SUFFICES ASSUME NEW v \in Turns, NEW u \in Turns,
                      turn'[v].state # "none", turn'[u].state # "none",
                      turn'[v].of = turn'[u].of, turn'[v].nth < turn'[u].nth,
                      turn'[v].reports # 0
               PROVE  turn'[u].resumes = turn'[v].reports
    BY DEF ContextIsKept
  <2>1. v # t
    <3>1. turn[u].of = turn[t].of /\ Started(u) => ~(turn[t].nth < turn[u].nth)
      BY <1>3, ProcessTypes DEF ExecInv, Running
    <3> QED BY <1>10, <3>1 DEF Started
  <2> QED BY <1>10, <2>1 DEF ExecInv, ContextIsKept
<1> QED BY <1>12, <1>13, <1>16, <1>17 DEF ExecInv

\* The turn that ends is the only one its object has running.
LEMMA TurnEndsStep ==
  ASSUME ExecInv, NEW t \in Turns, TurnEnds(t)
  PROVE  ExecInv'
<1>1. PICK o : o = turn[t].of
  OBVIOUS
<1> DEFINE p == [turn[t] EXCEPT !.state = "ended"]
           b == [object[o] EXCEPT !.running = FALSE, !.cancel = NoTurn]
<1>2. /\ Lives(t) /\ turn' = [turn EXCEPT ![t] = p]
      /\ UNCHANGED <<entry, starts, thread, execCall, startedTurns>>
  BY <1>1 DEF TurnEnds
<1>3. object' = [object EXCEPT ![o] = b]
  BY <1>1 DEF TurnEnds
<1>4. /\ Started(t) /\ turn[t] \in ProcessType /\ o \in Objects /\ object[o] \in ObjectType
  BY <1>1, <1>2, ProcessTypes DEF ExecInv, Types
<1>5. /\ p \in ProcessType /\ p.of = o /\ p.state = "ended" /\ p.resumes = turn[t].resumes
      /\ p.nth = turn[t].nth /\ p.reports = turn[t].reports
  BY <1>1, <1>4 DEF ProcessType
<1>6. b \in ObjectType /\ b.threadID = object[o].threadID
  BY <1>4 DEF ObjectType
<1> HIDE DEF p, b
<1>7. /\ turn \in [Turns -> ProcessType \cup {NoProcess}] /\ object \in [Objects -> ObjectType]
  BY DEF ExecInv, Types
<1>8. /\ turn' \in [Turns -> ProcessType \cup {NoProcess}]
      /\ turn'[t] = p /\ \A u \in Turns : u # t => turn'[u] = turn[u]
  BY <1>2, <1>5, <1>7
<1>9. /\ object' \in [Objects -> ObjectType]
      /\ object'[o] = b /\ \A i \in Objects : i # o => object'[i] = object[i]
  BY <1>3, <1>4, <1>6, <1>7
<1>10. /\ \A u \in Turns : /\ turn'[u].of = turn[u].of /\ turn'[u].nth = turn[u].nth
                           /\ turn'[u].resumes = turn[u].resumes /\ turn'[u].reports = turn[u].reports
                           /\ (turn'[u].state = "none" <=> turn[u].state = "none")
       /\ \A i \in Objects : object'[i].threadID = object[i].threadID
  BY <1>1, <1>4, <1>5, <1>6, <1>8, <1>9 DEF Started
<1>11. \A u \in Turns : Lives(u)' => u # t /\ Lives(u) /\ Started(u) /\ turn[u].of # o
                                     /\ turn[u].of \in Objects
  <2>1. ASSUME NEW u \in Turns, Lives(u)' PROVE u # t /\ Lives(u)
    BY <1>5, <1>8, <2>1 DEF Lives
  <2>2. ASSUME NEW u \in Turns, Lives(u), u # t PROVE turn[u].of # o
    BY <1>1, <1>2, <2>2 DEF ExecInv, Running
  <2> QED BY <2>1, <2>2, ProcessTypes DEF ExecInv, ProcessType
<1>12. Types'
  BY <1>2, <1>8, <1>9, <1>10 DEF ExecInv, Types, Started, CallType
<1>13. ASSUME NEW u \in Turns PROVE Numbered(u)'
  BY <1>2, <1>10 DEF ExecInv, Numbered, Started
<1>14. ASSUME NEW u \in Turns PROVE Running(u)'
  BY <1>9, <1>10, <1>11 DEF ExecInv, Running, Started
<1>15. ThreadInv'
  <2>1. Threads' = Threads
    BY <1>10 DEF Threads
  <2>2. ASSUME NEW u \in Turns PROVE OneThread(u)'
    <3>1. Started(u) => turn[u].of \in Objects
      BY ProcessTypes DEF ExecInv, ProcessType
    <3> QED BY <1>10, <1>11, <2>1, <3>1 DEF ExecInv, ThreadInv, OneThread, Started
  <2> QED BY <1>2, <1>10, <2>1, <2>2 DEF ExecInv, ThreadInv
<1>16. ContextIsKept'
  BY <1>10 DEF ExecInv, ContextIsKept
<1> QED BY <1>12, <1>13, <1>14, <1>15, <1>16 DEF ExecInv

(***************************************************************************)
(* The invariant, and the promise.                                         *)
(***************************************************************************)
LEMMA ExecInitInv == ExecInit => ExecInv
<1> SUFFICES ASSUME ExecInit PROVE ExecInv
  OBVIOUS
<1>1. /\ NoObject \in ObjectType /\ NoObject.threadID = 0
      /\ NoProcess.state = "none"
      /\ NoExecCall.at = "idle" /\ NoExecCall \in [at : {"idle", "prompt", "interrupt", "cancel", "stop",
            "forget", "mode"}, object : {0}, cancel : Turns \cup {NoTurn}]
  BY DEF NoObject, ObjectType, Modes, NoProcess, NoExecCall
<1>2. 0 \in 0..starts /\ starts = 0 /\ 0 <= MaxStarts
  BY MaxStartsAssumption DEF ExecInit
<1>3. NoExecCall \in CallType
  BY <1>1, <1>2 DEF CallType
<1>4. \A t \in Turns : ~Started(t) /\ ~Lives(t)
  BY <1>1 DEF ExecInit, Started, Lives
<1>5. Types
  BY <1>1, <1>2, <1>3, <1>4 DEF ExecInit, Types
<1>6. ThreadInv
  BY <1>1, <1>4 DEF ExecInit, ThreadInv, Threads, OneThread
<1>7. ContextIsKept
  BY <1>1 DEF ExecInit, ContextIsKept
<1> QED BY <1>4, <1>5, <1>6, <1>7 DEF ExecInv, Numbered, Running

LEMMA ExecNextInv == ExecInv /\ [ExecNext]_execVars => ExecInv'
<1> SUFFICES ASSUME ExecInv, [ExecNext]_execVars PROVE ExecInv'
  OBVIOUS
<1>1. ASSUME NEW h \in ExecHandlers, NEW mode \in Modes, ExecStart(h, mode) PROVE ExecInv'
  BY <1>1, ExecStartStep
<1>2. ASSUME NEW h \in ExecHandlers, NEW mode \in Modes, SetMode(h, mode) PROVE ExecInv'
  BY <1>2, SetModeStep
<1>3. ASSUME NEW h \in ExecHandlers, NEW what \in {"prompt", "interrupt", "stop", "mode"},
             Finds(h, what)
      PROVE  ExecInv'
  BY <1>3, FindsStep
<1>4. ASSUME NEW h \in ExecHandlers, NEW t \in Turns, RunTurn(h, t) PROVE ExecInv'
  BY <1>4, RunTurnStep
<1>5. ASSUME NEW h \in ExecHandlers, TurnRefused(h) PROVE ExecInv'
  BY <1>5, TurnRefusedStep
<1>6. ASSUME NEW h \in ExecHandlers, InterruptReads(h) PROVE ExecInv'
  BY <1>6, InterruptReadsStep
<1>7. ASSUME NEW h \in ExecHandlers, InterruptCancels(h) PROVE ExecInv'
  BY <1>7, InterruptCancelsStep
<1>8. ASSUME NEW h \in ExecHandlers, StopCancels(h) PROVE ExecInv'
  BY <1>8, StopCancelsStep
<1>9. ASSUME NEW h \in ExecHandlers, StopForgets(h) PROVE ExecInv'
  BY <1>9, StopForgetsStep
<1>10. ASSUME NEW t \in Turns, CaptureThread(t) PROVE ExecInv'
  BY <1>10, CaptureThreadStep
<1>11. ASSUME NEW t \in Turns, TurnEnds(t) PROVE ExecInv'
  BY <1>11, TurnEndsStep
<1>12. CASE UNCHANGED execVars
  <2>1. UNCHANGED <<entry, object, starts, turn, thread, execCall, startedTurns>>
    BY <1>12 DEF execVars
  <2>2. /\ entry' \in 0..starts /\ execCall' \in [ExecHandlers -> CallType]
        /\ \A h \in ExecHandlers : execCall'[h].at # "idle" => execCall'[h].object \in 1..starts
    BY <2>1 DEF ExecInv, Types
  <2> QED BY <2>1, <2>2, Untouched
<1> QED BY <1>1, <1>2, <1>3, <1>4, <1>5, <1>6, <1>7, <1>8, <1>9, <1>10, <1>11, <1>12 DEF ExecNext

\* The codex exec runtime keeps its invariant.
THEOREM ExecInvariant == ExecSpec => []ExecInv
<1> QED BY ExecInitInv, ExecNextInv, PTL DEF ExecSpec

-----------------------------------------------------------------------------
(***************************************************************************)
(* The turns of all objects.  One that nobody cancelled is in the object   *)
(* that the map has, and a handler that is about to forget the session     *)
(* would have cancelled it.                                                *)
(***************************************************************************)
Reachable ==
  \A t \in Current :
    /\ turn[t].of = entry
    /\ \A g \in ExecHandlers : /\ execCall[g].at # "forget"
                               /\ execCall[g].at = "stop" => execCall[g].object = turn[t].of

ConversationInv == ExecInv /\ Reachable

\* What starts no turn, moves no session and no Stop.
LEMMA ReachKept ==
  ASSUME Reachable, entry' = entry,
         \A t \in Turns : /\ t \in Current' => t \in Current
                          /\ turn'[t].of = turn[t].of,
         \A g \in ExecHandlers : execCall'[g] = execCall[g] \/ execCall'[g].at \notin {"forget", "stop"}
  PROVE  Reachable'
<1>1. Current' \subseteq Current /\ Current \subseteq Turns
  BY DEF Current
<1> QED BY <1>1 DEF Reachable

\* A handler that rests or goes on to something else than a Stop.
LEMMA NoStopGoes ==
  ASSUME ExecInv, NEW h \in ExecHandlers, NEW c,
         c.at \notin {"forget", "stop"}, execCall' = [execCall EXCEPT ![h] = c]
  PROVE  \A g \in ExecHandlers : execCall'[g] = execCall[g] \/ execCall'[g].at \notin {"forget", "stop"}
BY DEF ExecInv, Types

LEMMA CurrentKept ==
  ASSUME UNCHANGED turn
  PROVE  \A t \in Turns : (t \in Current' => t \in Current) /\ turn'[t].of = turn[t].of
BY DEF Current

\* Cancelling leaves no more turns than there were.
LEMMA CurrentCancelled ==
  ASSUME ExecInv, NEW c \in Turns \cup {NoTurn}, turn' = Cancelled(c)
  PROVE  /\ \A t \in Turns : (t \in Current' => t \in Current) /\ turn'[t].of = turn[t].of
         /\ c \notin Current'
<1>1. turn \in [Turns -> ProcessType \cup {NoProcess}]
  BY DEF ExecInv, Types
<1>2. CASE c # NoTurn /\ turn[c].state = "live"
  <2>1. c \in Turns /\ turn' = [turn EXCEPT ![c].state = "cancelled"]
    BY <1>2 DEF Cancelled
  <2>2. turn[c] \in ProcessType
    BY <1>1, <1>2, <2>1 DEF NoProcess
  <2>3. turn'[c].of = turn[c].of /\ turn'[c].state = "cancelled"
    BY <1>1, <2>1, <2>2 DEF ProcessType
  <2>4. \A t \in Turns : t # c => turn'[t] = turn[t]
    BY <1>1, <2>1
  <2> QED BY <2>3, <2>4 DEF Current
<1>3. CASE ~(c # NoTurn /\ turn[c].state = "live")
  <2>1. turn' = turn
    BY <1>3 DEF Cancelled
  <2> QED BY <1>3, <2>1, NoTurnAssumption DEF Current
<1> QED BY <1>2, <1>3

LEMMA ReachStart ==
  ASSUME ExecInv, Reachable, NEW h \in ExecHandlers, NEW mode \in Modes, ExecStart(h, mode)
  PROVE  Reachable'
<1>1. entry = 0 /\ turn' = turn
  BY DEF ExecStart
<1>2. ASSUME NEW t \in Current PROVE FALSE
  <2>1. t \in Turns /\ Started(t)
    BY DEF Current, Started
  <2>2. turn[t].of \in 1..starts /\ starts \in Nat
    BY <2>1 DEF ExecInv, Types
  <2> QED BY <1>1, <2>2 DEF Reachable
<1>3. Current' = {}
  BY <1>1, <1>2 DEF Current
<1> QED BY <1>3 DEF Reachable

LEMMA ReachFinds ==
  ASSUME ExecInv, Reachable, NEW h \in ExecHandlers,
         NEW what \in {"prompt", "interrupt", "stop", "mode"}, Finds(h, what)
  PROVE  Reachable'
<1> DEFINE c == [at |-> what, object |-> entry, cancel |-> NoTurn]
<1>1. execCall' = [execCall EXCEPT ![h] = c] /\ entry' = entry /\ turn' = turn
  BY DEF Finds
<1>2. c.at # "forget" /\ c.object = entry
  OBVIOUS
<1> HIDE DEF c
<1>3. \A g \in ExecHandlers : execCall'[g] = IF g = h THEN c ELSE execCall[g]
  BY <1>1 DEF ExecInv, Types
<1>4. Current' = Current
  BY <1>1 DEF Current
<1> QED BY <1>1, <1>2, <1>3, <1>4 DEF Reachable

\* A turn starts unreachable, or in the object of the map when no Stop is on its
\* way but those that would cancel it.
LEMMA ReachRunTurn ==
  ASSUME ExecInv, Reachable, NEW h \in ExecHandlers, NEW t \in Turns, RunTurn(h, t)
  PROVE  Reachable'
<1>1. PICK o : o = execCall[h].object
  OBVIOUS
<1> DEFINE p == [of |-> o, state |-> "live", resumes |-> object[o].threadID,
                 policy |-> Policy(object[o]), reports |-> 0, nth |-> startedTurns',
                 crossed |-> StopCrosses(o)]
<1>2. /\ turn' = [turn EXCEPT ![t] = p] /\ entry' = entry
      /\ execCall' = [execCall EXCEPT ![h] = NoExecCall]
  BY <1>1 DEF RunTurn, Done
<1>3. p.of = o /\ (~p.crossed => ~StopCrosses(o))
  OBVIOUS
<1> HIDE DEF p
<1>4. turn'[t] = p /\ \A u \in Turns : u # t => turn'[u] = turn[u]
  BY <1>2 DEF ExecInv, Types
<1>5. \A g \in ExecHandlers : execCall'[g] = execCall[g] \/ execCall'[g].at = "idle"
  BY <1>2 DEF ExecInv, Types, NoExecCall
<1>6. ASSUME NEW u \in Current'
      PROVE  /\ turn'[u].of = entry
             /\ \A g \in ExecHandlers : /\ execCall[g].at # "forget"
                                        /\ execCall[g].at = "stop" => execCall[g].object = turn'[u].of
  <2>1. CASE u = t
    BY <1>3, <1>4, <2>1 DEF Current, StopCrosses
  <2>2. CASE u # t
    BY <1>4, <2>2 DEF Current, Reachable
  <2> QED BY <2>1, <2>2
<1> QED BY <1>2, <1>5, <1>6 DEF Reachable

\* A Stop that cancels has the object of the turn, if there is one.
LEMMA ReachStopCancels ==
  ASSUME ExecInv, Reachable, NEW h \in ExecHandlers, StopCancels(h)
  PROVE  Reachable'
<1>1. PICK c : c = object[execCall[h].object].cancel
  OBVIOUS
<1>2. execCall[h].at = "stop" /\ turn' = Cancelled(c)
  BY <1>1 DEF StopCancels
<1>3. execCall[h].object \in 1..starts
  BY <1>2 DEF ExecInv, Types
<1>4. c \in Turns \cup {NoTurn}
  BY <1>1, <1>3, ProcessTypes DEF ExecInv, ObjectType
<1>5. \A t \in Current : t \in Turns /\ Lives(t) /\ turn[t].of = execCall[h].object
  BY <1>2 DEF Current, Lives, Reachable
<1>6. \A t \in Current : t = c
  BY <1>1, <1>5 DEF ExecInv, Running
<1>7. Current' = {}
  BY <1>2, <1>4, <1>6, CurrentCancelled DEF Current
<1> QED BY <1>7 DEF Reachable

LEMMA ReachStopForgets ==
  ASSUME Reachable, NEW h \in ExecHandlers, StopForgets(h)
  PROVE  Reachable'
<1>1. execCall[h].at = "forget" /\ turn' = turn
  BY DEF StopForgets
<1>2. Current' = {}
  BY <1>1 DEF Reachable, Current
<1> QED BY <1>2 DEF Reachable

\* What the goroutine of a process does to it keeps its object and starts nothing.
LEMMA ReachProcess ==
  ASSUME ExecInv, Reachable, NEW t \in Turns, CaptureThread(t) \/ TurnEnds(t)
  PROVE  Reachable'
<1>1. entry' = entry /\ execCall' = execCall
  BY DEF CaptureThread, TurnEnds
<1>2. turn \in [Turns -> ProcessType \cup {NoProcess}] /\ turn[t] \in ProcessType
  BY ProcessTypes DEF ExecInv, Types, CaptureThread, TurnEnds
<1>3. \A u \in Turns : u # t => turn'[u] = turn[u]
  BY <1>2 DEF CaptureThread, TurnEnds
<1>4. /\ turn'[t].of = turn[t].of /\ turn'[t].crossed = turn[t].crossed
      /\ turn'[t].state = "live" => turn[t].state = "live"
  <2>1. CASE CaptureThread(t)
    <3>1. turn' = [turn EXCEPT ![t].reports = Reports(t)]
      BY <2>1 DEF CaptureThread
    <3> QED BY <1>2, <3>1 DEF ProcessType
  <2>2. CASE TurnEnds(t)
    <3>1. turn' = [turn EXCEPT ![t].state = "ended"]
      BY <2>2 DEF TurnEnds
    <3> QED BY <1>2, <3>1 DEF ProcessType
  <2> QED BY <2>1, <2>2
<1>5. \A u \in Turns : (u \in Current' => u \in Current) /\ turn'[u].of = turn[u].of
  BY <1>3, <1>4 DEF Current
<1> QED BY <1>1, <1>5, ReachKept

LEMMA ConversationInitInv == ExecInit => ConversationInv
<1> SUFFICES ASSUME ExecInit PROVE Current = {}
  BY ExecInitInv DEF ConversationInv, Reachable
<1> QED BY DEF ExecInit, NoProcess, Current

LEMMA ConversationNextInv == ConversationInv /\ [ExecNext]_execVars => ConversationInv'
<1> SUFFICES ASSUME ExecInv, Reachable, [ExecNext]_execVars PROVE Reachable'
  BY ExecNextInv DEF ConversationInv
<1>1. ASSUME NEW h \in ExecHandlers, NEW mode \in Modes, ExecStart(h, mode) PROVE Reachable'
  BY <1>1, ReachStart
<1>2. ASSUME NEW h \in ExecHandlers, NEW mode \in Modes, SetMode(h, mode) PROVE Reachable'
  <2>1. entry' = entry /\ turn' = turn /\ execCall' = [execCall EXCEPT ![h] = NoExecCall]
    BY <1>2 DEF SetMode, Done
  <2>2. NoExecCall.at = "idle"
    BY DEF NoExecCall
  <2> QED BY <2>1, <2>2, NoStopGoes, CurrentKept, ReachKept
<1>3. ASSUME NEW h \in ExecHandlers, NEW what \in {"prompt", "interrupt", "stop", "mode"},
             Finds(h, what)
      PROVE  Reachable'
  BY <1>3, ReachFinds
<1>4. ASSUME NEW h \in ExecHandlers, NEW t \in Turns, RunTurn(h, t) PROVE Reachable'
  BY <1>4, ReachRunTurn
<1>5. ASSUME NEW h \in ExecHandlers, TurnRefused(h) PROVE Reachable'
  <2>1. entry' = entry /\ turn' = turn /\ execCall' = [execCall EXCEPT ![h] = NoExecCall]
    BY <1>5 DEF TurnRefused, Done
  <2>2. NoExecCall.at = "idle"
    BY DEF NoExecCall
  <2> QED BY <2>1, <2>2, NoStopGoes, CurrentKept, ReachKept
<1>6. ASSUME NEW h \in ExecHandlers, InterruptReads(h) PROVE Reachable'
  <2>1. PICK k : k = object[execCall[h].object].cancel
    OBVIOUS
  <2>2. PICK c : c = [execCall[h] EXCEPT !.at = "cancel", !.cancel = k]
    OBVIOUS
  <2>3. entry' = entry /\ turn' = turn /\ execCall' = [execCall EXCEPT ![h] = c]
    BY <1>6, <2>1, <2>2 DEF InterruptReads
  <2>4. execCall[h] \in CallType
    BY DEF ExecInv, Types
  <2>5. c.at = "cancel"
    BY <2>2, <2>4 DEF CallType
  <2> QED BY <2>3, <2>5, NoStopGoes, CurrentKept, ReachKept
<1>7. ASSUME NEW h \in ExecHandlers, InterruptCancels(h) PROVE Reachable'
  <2>1. PICK c : c = execCall[h].cancel
    OBVIOUS
  <2>2. entry' = entry /\ turn' = Cancelled(c) /\ execCall' = [execCall EXCEPT ![h] = NoExecCall]
    BY <1>7, <2>1 DEF InterruptCancels, Done
  <2>3. c \in Turns \cup {NoTurn} /\ NoExecCall.at = "idle"
    BY <2>1 DEF ExecInv, Types, CallType, NoExecCall
  <2> QED BY <2>2, <2>3, NoStopGoes, CurrentCancelled, ReachKept
<1>8. ASSUME NEW h \in ExecHandlers, StopCancels(h) PROVE Reachable'
  BY <1>8, ReachStopCancels
<1>9. ASSUME NEW h \in ExecHandlers, StopForgets(h) PROVE Reachable'
  BY <1>9, ReachStopForgets
<1>10. ASSUME NEW t \in Turns, CaptureThread(t) \/ TurnEnds(t) PROVE Reachable'
  BY <1>10, ReachProcess
<1>11. CASE UNCHANGED execVars
  BY <1>11, CurrentKept, ReachKept DEF execVars
<1> QED BY <1>1, <1>2, <1>3, <1>4, <1>5, <1>6, <1>7, <1>8, <1>9, <1>10, <1>11 DEF ExecNext

\* No Stop forgets a turn that it has not cancelled, but for those it crossed.
THEOREM ConversationInvariant == ExecSpec => []ConversationInv
<1> QED BY ConversationInitInv, ConversationNextInv, PTL DEF ExecSpec

LEMMA ExecInvTypes == ExecInv => ExecTypeOK
<1> SUFFICES ASSUME ExecInv PROVE ExecTypeOK
  OBVIOUS
<1>1. entry \in 0..starts /\ starts \in Nat
  BY DEF ExecInv, Types
<1>2. ASSUME NEW t \in Turns PROVE turn[t].of \in 0..starts /\ turn[t].policy \in Modes \cup {"none"}
  <2>1. CASE Started(t)
    BY <1>1, <2>1, ProcessTypes DEF ExecInv, Types, ProcessType
  <2>2. CASE ~Started(t)
    BY <1>1, <2>2, ProcessTypes DEF ExecInv, NoProcess
  <2> QED BY <2>1, <2>2
<1>3. \A o \in Objects : object[o].cancel \in Turns \cup {NoTurn}
  BY DEF ExecInv, Types, ObjectType
<1>4. ASSUME NEW t \in Turns PROVE turn[t].crossed \in BOOLEAN
  <2>1. CASE Started(t)
    BY <2>1, ProcessTypes DEF ExecInv, ProcessType
  <2>2. CASE ~Started(t)
    <3>1. turn[t] = NoProcess
      BY <2>2, ProcessTypes DEF ExecInv
    <3>2. NoProcess.crossed = FALSE
      BY DEF NoProcess
    <3> QED BY <3>1, <3>2
  <2> QED BY <2>1, <2>2
<1> QED BY <1>1, <1>2, <1>3, <1>4 DEF ExecTypeOK

\* The state of the runtime has its types: what cancels a turn is a turn, and a
\* process belongs to an object that was made.
THEOREM ExecTypesCorrect == ExecSpec => []ExecTypeOK
<1> QED BY ExecInvariant, ExecInvTypes, PTL

LEMMA ExecInvHolds == ConversationInv => ConversationHolds
<1> SUFFICES ASSUME ExecInv, Reachable PROVE OneTurnAtATime /\ OneTurnOfTheSession
  BY DEF ConversationInv, ExecInv, ConversationHolds
<1>1. OneTurnAtATime
  <2> SUFFICES ASSUME NEW o \in Objects, NEW live, live = {t \in Turns : Lives(t) /\ turn[t].of = o}
               PROVE  /\ Cardinality(live) <= 1
                      /\ \A t \in live : object[o].running /\ object[o].cancel = t
    BY DEF OneTurnAtATime
  <2>1. \A t \in live : object[o].running /\ object[o].cancel = t
    BY DEF ExecInv, Running
  <2>2. live \subseteq {object[o].cancel}
    BY <2>1
  <2>3. IsFiniteSet({object[o].cancel}) /\ Cardinality({object[o].cancel}) = 1
    BY FS_Singleton
  <2>4. Cardinality(live) <= 1
    BY <2>2, <2>3, FS_Subset
  <2> QED BY <2>1, <2>4
<1>2. OneTurnOfTheSession
  <2>1. \A t \in Current : t \in Turns /\ Lives(t) /\ turn[t].of = entry
    BY DEF Current, Lives, Reachable
  <2>2. Current \subseteq {object[entry].cancel}
    BY <2>1 DEF ExecInv, Running
  <2>3. IsFiniteSet({object[entry].cancel}) /\ Cardinality({object[entry].cancel}) = 1
    BY FS_Singleton
  <2>4. Cardinality(Current) <= 1
    BY <2>2, <2>3, FS_Subset
  <2> QED BY <2>1, <2>4 DEF OneTurnOfTheSession
<1> QED BY <1>1, <1>2

\* Whatever prompts, interrupts and stops of several connections do to a session,
\* its conversation is one thread of one turn after the other (runTurn,
\* captureThread, Interrupt, Stop, readStream).
THEOREM ConversationStaysWhole == ExecSpec => []ConversationHolds
<1> QED BY ConversationInvariant, ExecInvHolds, PTL

-----------------------------------------------------------------------------
(***************************************************************************)
(* TerminalOutput, as Tty: v1 pane, v2 made, v3 cat, v4 agent, v5 fifoNo,  *)
(* v6 fifo, v7 reader, v8 base, v9 buf, v10 timer, v11 late, v12 closed,   *)
(* v13 log, v14 counted, v15 restarts.                                     *)
(* What was logged, what is buffered and what is in the fifo are the       *)
(* pane's bytes, one after the other, from where the reader began.         *)
(***************************************************************************)

LEMMA TerminalBounds == MaxBytes \in Nat \ {0} /\ MaxOutput \in Nat
BY AgentsBoundsAssumption

LEMMA TerminalTypes ==
  ASSUME Tty!TerminalInv
  PROVE  /\ v1 \in {"none", "live", "gone"} /\ v4 \in {"up", "down", "attach", "pipe"}
         /\ v5 \in Nat /\ v3 \in 0..v5 /\ v7 \in {"none", "opening", "reading", "closed"}
         /\ v10 \in {"none", "armed", "fired"} /\ v11 \in Nat /\ v12 \in BOOLEAN
         /\ v2 \in Nat /\ v8 \in 0..v2 /\ v14 \in Nat /\ v15 \in Nat
         /\ v13 \in Seq(Nat) /\ v9 \in Seq(Nat) /\ v6 \in Seq(Nat) /\ Len(v9) < MaxBytes
BY DEF Tty!TerminalInv, Tty!TerminalTypeOK

LEMMA TerminalKnows ==
  ASSUME Tty!TerminalInv
  PROVE  /\ v7 \in {"reading", "closed"} => /\ v13 \o v9 \o v6 = Tty!Bytes(v8, v2)
                                            /\ v1 = "gone" \/ (v3 = v5 /\ v7 = "reading")
         /\ v7 = "reading" => ~v12
         /\ v7 # "none" => v5 > 0
         /\ v9 # <<>> => ~v12 /\ (v10 = "armed" \/ v11 > 0)
         /\ v10 = "fired" => v11 > 0
         /\ v4 = "pipe" => /\ v7 = "opening" /\ ~v12
                           /\ v13 = <<>> /\ v9 = <<>> /\ v6 = <<>>
BY DEF Tty!TerminalInv, Tty!ReaderIsSound, Tty!WriterIsSound

LEMMA TerminalNoBytes == <<>> \in Seq(Nat) /\ Len(<<>>) = 0 /\ <<>> \o <<>> \o <<>> = <<>>
BY EmptySeq, ConcatEmptySeq

LEMMA TerminalBytesOfNothing == ASSUME NEW b \in Nat PROVE Tty!Bytes(b, b) = <<>>
<1>1. Tty!Bytes(b, b) = [i \in 1..0 |-> b + i]
  BY DEF Tty!Bytes
<1>2. Tty!Bytes(b, b) \in Seq(Nat) /\ Len(Tty!Bytes(b, b)) = 0
  <2>1. Tty!Bytes(b, b) \in [1..0 -> Nat]
    BY <1>1
  <2>2. Tty!Bytes(b, b) \in Seq(Nat)
    BY <2>1 DEF Seq
  <2>3. DOMAIN Tty!Bytes(b, b) = 1..0
    BY <1>1
  <2> QED BY <2>2, <2>3, LenProperties
<1> QED BY <1>2, EmptySeq

LEMMA TerminalBytesGrow ==
  ASSUME NEW b \in Nat, NEW m \in Nat, b <= m
  PROVE  Tty!Bytes(b, m) \in Seq(Nat) /\ Tty!Bytes(b, m + 1) = Append(Tty!Bytes(b, m), m + 1)
<1> DEFINE n == m - b
           q == Tty!Bytes(b, m)
           t == Tty!Bytes(b, m + 1)
<1>1. n \in Nat /\ q = [i \in 1..n |-> b + i] /\ t = [i \in 1..(n + 1) |-> b + i]
  BY DEF Tty!Bytes
<1>2. b + (n + 1) = m + 1
  OBVIOUS
<1> HIDE DEF n, q, t
<1>3. q \in Seq(Nat) /\ t \in Seq(Nat) /\ Len(q) = n /\ Len(t) = n + 1
  <2>1. q \in [1..n -> Nat] /\ t \in [1..(n + 1) -> Nat] /\ n + 1 \in Nat
    BY <1>1
  <2>2. q \in Seq(Nat) /\ t \in Seq(Nat)
    BY <1>1, <2>1 DEF Seq
  <2>3. DOMAIN q = 1..n /\ DOMAIN t = 1..(n + 1)
    BY <1>1
  <2> QED BY <1>1, <2>2, <2>3, LenProperties
<1>4. Append(q, m + 1) \in Seq(Nat) /\ Len(Append(q, m + 1)) = n + 1
      /\ (\A i \in 1..n : Append(q, m + 1)[i] = q[i]) /\ Append(q, m + 1)[n + 1] = m + 1
  <2>1. m + 1 \in Nat
    OBVIOUS
  <2> QED BY <1>3, <2>1, AppendProperties
<1>5. ASSUME NEW i \in 1..(n + 1) PROVE t[i] = Append(q, m + 1)[i]
  <2>1. CASE i = n + 1
    BY <1>1, <1>2, <1>4, <2>1
  <2>2. CASE i \in 1..n
    BY <1>1, <1>4, <2>2
  <2> QED BY <1>1, <2>1, <2>2
<1>6. t = Append(q, m + 1)
  BY <1>3, <1>4, <1>5, SeqEqual
<1> QED BY <1>3, <1>6 DEF q, t

LEMMA TerminalAppendAtTheEnd ==
  ASSUME NEW a \in Seq(Nat), NEW b \in Seq(Nat), NEW c \in Seq(Nat), NEW x \in Nat
  PROVE  a \o b \o Append(c, x) = Append(a \o b \o c, x)
<1>1. a \o b \in Seq(Nat) /\ <<x>> \in Seq(Nat) /\ (a \o b) \o c \in Seq(Nat)
  BY ConcatProperties
<1>2. Append(c, x) = c \o <<x>> /\ Append((a \o b) \o c, x) = ((a \o b) \o c) \o <<x>>
  BY <1>1, AppendIsConcat
<1>3. ((a \o b) \o c) \o <<x>> = (a \o b) \o (c \o <<x>>)
  BY <1>1, ConcatAssociative
<1> QED BY <1>2, <1>3

\* The bytes b leave the writer for the log.
LEMMA TerminalFlushKeeps ==
  ASSUME NEW a \in Seq(Nat), NEW b \in Seq(Nat), NEW c \in Seq(Nat)
  PROVE  /\ (a \o b) \o <<>> \o c = a \o b \o c /\ a \o b \in Seq(Nat) /\ Len(b) \in Nat
         /\ a \o b \o c \in Seq(Nat)
<1>1. a \o b \in Seq(Nat)
  BY ConcatProperties
<1>2. (a \o b) \o <<>> = a \o b
  BY <1>1, ConcatEmptySeq
<1>3. Len(b) \in Nat
  BY LenProperties
<1>4. (a \o b) \o c \in Seq(Nat)
  BY <1>1, ConcatProperties
<1> QED BY <1>1, <1>2, <1>3, <1>4

\* A chunk is taken off the fifo.
LEMMA TerminalChunkIsTaken ==
  ASSUME NEW f \in Seq(Nat), NEW n \in 1..Len(f)
  PROVE  /\ SubSeq(f, 1, n) \in Seq(Nat) /\ SubSeq(f, n + 1, Len(f)) \in Seq(Nat)
         /\ SubSeq(f, 1, n) \o SubSeq(f, n + 1, Len(f)) = f /\ SubSeq(f, 1, n) # <<>>
<1>1. Len(f) \in Nat /\ \A i \in 1..Len(f) : f[i] \in Nat
  BY LenProperties, ElementOfSeq
<1>2. SubSeq(f, 1, n) \in Seq(Nat) /\ Len(SubSeq(f, 1, n)) = n
  <2>1. 1 \in Int /\ n \in Int /\ 1 <= n /\ n - 1 + 1 = n /\ \A i \in 1..n : f[i] \in Nat
    BY <1>1
  <2> QED BY <2>1, SubSeqProperties
<1>3. SubSeq(f, n + 1, Len(f)) \in Seq(Nat)
  <2>1. n + 1 \in Int /\ Len(f) \in Int /\ \A i \in (n + 1)..Len(f) : f[i] \in Nat
    BY <1>1
  <2> QED BY <2>1, SubSeqProperties
<1>4. SubSeq(f, 1, n) \o SubSeq(f, n + 1, Len(f)) = SubSeq(f, 1, Len(f))
  <2>1. 1 \in 1..(Len(f) + 1) /\ n \in (1 - 1)..Len(f) /\ Len(f) \in n..Len(f)
    BY <1>1
  <2> QED BY <2>1, ConcatAdjacentSubSeq
<1>5. SubSeq(f, 1, Len(f)) = f
  BY SubSeqFull
<1>6. SubSeq(f, 1, n) # <<>>
  BY <1>2, EmptySeq
<1> QED BY <1>2, <1>3, <1>4, <1>5, <1>6

LEMMA TerminalInitInv == Tty!TerminalInit => Tty!TerminalInv
<1> SUFFICES ASSUME Tty!TerminalInit PROVE Tty!TerminalInv
  OBVIOUS
<1>1. /\ v1 = "none" /\ v2 = 0 /\ v3 = 0 /\ v4 = "up" /\ v5 = 0 /\ v6 = <<>> /\ v7 = "none"
      /\ v8 = 0 /\ v9 = <<>> /\ v10 = "none" /\ v11 = 0 /\ v12 = FALSE /\ v13 = <<>> /\ v14 = 0
      /\ v15 = 0
  BY DEF Tty!TerminalInit
<1>2. Tty!TerminalTypeOK
  <2>1. v12 \in BOOLEAN
    BY <1>1, Zenon
  <2> QED BY <1>1, <2>1, TerminalNoBytes, TerminalBounds DEF Tty!TerminalTypeOK
<1>3. Tty!ReaderIsSound /\ Tty!WriterIsSound
  BY <1>1 DEF Tty!ReaderIsSound, Tty!WriterIsSound
<1> QED BY <1>2, <1>3 DEF Tty!TerminalInv

LEMMA TerminalTimerFiresInv == Tty!TerminalInv /\ Tty!TimerFires => Tty!TerminalInv'
<1> SUFFICES ASSUME Tty!TerminalInv, Tty!TimerFires PROVE Tty!TerminalInv'
  OBVIOUS
<1>1. /\ v10 = "armed" /\ v10' = "fired" /\ v11' = v11 + 1
      /\ UNCHANGED <<v1, v2, v4, v3, v5, v6, v7, v8, v9, v12, v13, v14, v15>>
  BY DEF Tty!TimerFires, Tty!pipeVars
<1>2. v11' \in Nat /\ v11' > 0
  BY <1>1, TerminalTypes
<1>3. Tty!TerminalTypeOK'
  BY <1>1, <1>2 DEF Tty!TerminalInv, Tty!TerminalTypeOK
<1>4. Tty!ReaderIsSound'
  BY <1>1 DEF Tty!TerminalInv, Tty!ReaderIsSound, Tty!Bytes
<1>5. Tty!WriterIsSound'
  BY <1>1, <1>2 DEF Tty!TerminalInv, Tty!WriterIsSound
<1> QED BY <1>3, <1>4, <1>5 DEF Tty!TerminalInv

LEMMA TerminalLateFlushInv == Tty!TerminalInv /\ Tty!LateFlush => Tty!TerminalInv'
<1> SUFFICES ASSUME Tty!TerminalInv, Tty!LateFlush PROVE Tty!TerminalInv'
  OBVIOUS
<1>1. /\ v11 > 0 /\ v11' = v11 - 1 /\ v10' = "none" /\ v9' = <<>>
      /\ v13' = v13 \o v9 /\ v14' = v14 + Len(v9)
      /\ UNCHANGED <<v1, v2, v4, v3, v5, v6, v7, v8, v12, v15>>
  BY DEF Tty!LateFlush, Tty!FlushLocked, Tty!Publishes, Tty!pipeVars
<1>2. v11' \in Nat
  BY <1>1, TerminalTypes
<1>3. /\ v13' \o v9' \o v6' = v13 \o v9 \o v6 /\ v13' \in Seq(Nat) /\ Len(v9) \in Nat
  BY <1>1, TerminalTypes, TerminalFlushKeeps
<1>4. v14' \in Nat
  BY <1>1, <1>3, TerminalTypes
<1>5. Tty!TerminalTypeOK'
  BY <1>1, <1>2, <1>3, <1>4, TerminalNoBytes, TerminalBounds DEF Tty!TerminalInv, Tty!TerminalTypeOK
<1>6. Tty!ReaderIsSound'
  BY <1>1, <1>3 DEF Tty!TerminalInv, Tty!ReaderIsSound, Tty!Bytes
<1>7. v4' = "pipe" => v13' = <<>>
  BY <1>1, TerminalNoBytes, TerminalKnows, ConcatEmptySeq
<1>8. Tty!WriterIsSound'
  BY <1>1, <1>7, TerminalKnows DEF Tty!WriterIsSound
<1> QED BY <1>5, <1>6, <1>8 DEF Tty!TerminalInv

TerminalJoins(a, b, c) == a \o b \in Seq(Nat) /\ (a \o b) \o c = a \o (b \o c)

LEMMA TerminalJoinIsAssociative == \A a, b, c \in Seq(Nat) : TerminalJoins(a, b, c)
<1> TAKE a, b, c \in Seq(Nat)
<1>1. a \o b \in Seq(Nat)
  BY ONLY ConcatProperties
<1>2. (a \o b) \o c = a \o (b \o c)
  BY ONLY ConcatAssociative, SMTT(30)
<1> QED BY ONLY <1>1, <1>2 DEF TerminalJoins

TerminalRejoins(a, b, c, d) == (a \o (b \o c)) \o d = (a \o b) \o (c \o d)

LEMMA TerminalJoinInTheMiddle == \A a, b, c, d \in Seq(Nat) : TerminalRejoins(a, b, c, d)
<1> TAKE a, b, c, d \in Seq(Nat)
<1>1. TerminalJoins(a, b, c)
  BY ONLY TerminalJoinIsAssociative
<1>2. PICK ab \in Seq(Nat) : ab = a \o b
  BY ONLY <1>1 DEF TerminalJoins
<1>3. TerminalJoins(ab, c, d)
  BY ONLY <1>2, TerminalJoinIsAssociative
<1> QED BY ONLY <1>1, <1>2, <1>3, Zenon DEF TerminalJoins, TerminalRejoins

LEMMA TerminalScanPipeInv ==
  ASSUME Tty!TerminalInv, NEW n \in 1..MaxOutput, Tty!ScanPipe(n)
  PROVE  Tty!TerminalInv'
<1> DEFINE chunk == SubSeq(v6, 1, n)
           rest == SubSeq(v6, n + 1, Len(v6))
<1>1. /\ v7 = "reading" /\ n <= Len(v6) /\ v6' = rest
      /\ IF v12 THEN UNCHANGED <<v9, v10, v13, v14>> ELSE Tty!Write(chunk)
      /\ UNCHANGED <<v1, v2, v4, v3, v5, v7, v8, v11, v12, v15>>
  BY DEF Tty!ScanPipe
<1>2. ~v12 /\ v4 # "pipe" /\ v13 \o v9 \o v6 = Tty!Bytes(v8, v2)
  BY <1>1, TerminalKnows
<1>3. /\ v13 \in Seq(Nat) /\ v9 \in Seq(Nat) /\ v6 \in Seq(Nat) /\ v14 \in Nat /\ v11 \in Nat
  BY TerminalTypes
<1>4. /\ chunk \in Seq(Nat) /\ rest \in Seq(Nat) /\ chunk \o rest = v6
  <2>1. n \in 1..Len(v6)
    BY <1>1, <1>3, LenProperties
  <2> QED BY <1>3, <2>1, TerminalChunkIsTaken
<1> HIDE DEF chunk, rest
<1> DEFINE all == v9 \o chunk
<1>5. all \in Seq(Nat) /\ Len(all) \in Nat
  BY <1>3, <1>4, ConcatProperties, LenProperties
<1>6. v13 \o all \o rest = v13 \o v9 \o v6
  <2>1. v13 \o (v9 \o chunk) \o rest = v13 \o v9 \o (chunk \o rest)
    <3>1. TerminalRejoins(v13, v9, chunk, rest)
      BY ONLY <1>3, <1>4, TerminalJoinInTheMiddle
    <3> QED BY <3>1 DEF TerminalRejoins
  <2> QED BY ONLY <1>4, <2>1, Zenon DEF all
<1> HIDE DEF all
<1>7. CASE Len(all) >= MaxBytes
  <2>1. v10' = "none" /\ v9' = <<>> /\ v13' = v13 \o all /\ v14' = v14 + Len(all)
    BY <1>1, <1>2, <1>7 DEF Tty!Write, Tty!FlushLocked, Tty!Publishes, all
  <2>2. v13' \o v9' \o v6' = v13 \o all \o rest /\ v13' \in Seq(Nat)
    BY <1>1, <1>3, <1>4, <1>5, <2>1, TerminalFlushKeeps
  <2>3. v14' \in Nat
    BY <1>3, <1>5, <2>1
  <2>4. Tty!TerminalTypeOK'
    BY <1>1, <1>4, <2>1, <2>2, <2>3, TerminalNoBytes, TerminalBounds DEF Tty!TerminalInv,
       Tty!TerminalTypeOK
  <2>5. Tty!ReaderIsSound'
    BY <1>1, <1>2, <1>6, <2>2 DEF Tty!TerminalInv, Tty!ReaderIsSound, Tty!Bytes
  <2>6. Tty!WriterIsSound'
    BY <1>1, <1>2, <2>1 DEF Tty!WriterIsSound
  <2> QED BY <2>4, <2>5, <2>6 DEF Tty!TerminalInv
<1>8. CASE ~(Len(all) >= MaxBytes)
  <2>1. v9' = all /\ v10' = (IF v10 = "none" THEN "armed" ELSE v10) /\ v13' = v13 /\ v14' = v14
    BY <1>1, <1>2, <1>8 DEF Tty!Write, all
  <2>2. v13' \o v9' \o v6' = Tty!Bytes(v8, v2)
    BY <1>1, <1>2, <1>6, <2>1
  <2>3. Len(v9') < MaxBytes
    BY <1>5, <1>8, <2>1, TerminalBounds
  <2>4. v10' \in {"none", "armed", "fired"} /\ (v10' = "armed" \/ (v10' = "fired" /\ v11 > 0))
    BY <2>1, TerminalTypes, TerminalKnows
  <2>5. Tty!TerminalTypeOK'
    BY <1>1, <1>4, <1>5, <2>1, <2>3, <2>4 DEF Tty!TerminalInv, Tty!TerminalTypeOK
  <2>6. Tty!ReaderIsSound'
    BY <1>1, <1>2, <2>2 DEF Tty!TerminalInv, Tty!ReaderIsSound, Tty!Bytes
  <2>7. Tty!WriterIsSound'
    BY <1>1, <1>2, <2>4 DEF Tty!WriterIsSound
  <2> QED BY <2>5, <2>6, <2>7 DEF Tty!TerminalInv
<1> QED BY <1>7, <1>8

LEMMA TerminalScanPipeEndsInv == Tty!TerminalInv /\ Tty!ScanPipeEnds => Tty!TerminalInv'
<1> SUFFICES ASSUME Tty!TerminalInv, Tty!ScanPipeEnds PROVE Tty!TerminalInv'
  OBVIOUS
<1>1. /\ v7 = "reading" /\ v6 = <<>> /\ v3 # v5 /\ v7' = "closed" /\ v12' = TRUE
      /\ v10' = "none" /\ v9' = <<>> /\ v13' = v13 \o v9 /\ v14' = v14 + Len(v9)
      /\ UNCHANGED <<v1, v2, v4, v3, v5, v6, v8, v11, v15>>
  BY DEF Tty!ScanPipeEnds, Tty!FlushLocked, Tty!Publishes
<1>2. /\ v13' \o v9' \o v6' = v13 \o v9 \o v6 /\ v13' \in Seq(Nat) /\ Len(v9) \in Nat
  BY <1>1, TerminalTypes, TerminalFlushKeeps
<1>3. v14' \in Nat
  BY <1>1, <1>2, TerminalTypes
<1>4. v12' \in BOOLEAN
  BY <1>1, Zenon
<1>5. Tty!TerminalTypeOK'
  BY <1>1, <1>2, <1>3, <1>4, TerminalNoBytes, TerminalBounds DEF Tty!TerminalInv, Tty!TerminalTypeOK
<1>6. v1 = "gone" /\ v5 > 0 /\ v13 \o v9 \o v6 = Tty!Bytes(v8, v2) /\ v4 # "pipe"
  BY <1>1, TerminalKnows
<1>7. Tty!ReaderIsSound'
  BY <1>1, <1>2, <1>6 DEF Tty!ReaderIsSound, Tty!Bytes
<1>8. Tty!WriterIsSound'
  BY <1>1, <1>6 DEF Tty!WriterIsSound
<1> QED BY <1>5, <1>7, <1>8 DEF Tty!TerminalInv

LEMMA TerminalAttachInv ==
  Tty!TerminalInv /\ (Tty!StartPane \/ Tty!Rehydrate \/ Tty!AttachFifo) => Tty!TerminalInv'
<1> SUFFICES ASSUME Tty!TerminalInv, Tty!StartPane \/ Tty!Rehydrate \/ Tty!AttachFifo PROVE Tty!TerminalInv'
  OBVIOUS
<1>1. CASE Tty!StartPane
  <2>1. /\ v1 = "none" /\ v4 = "up" /\ v1' = "live" /\ v4' = "attach"
        /\ UNCHANGED <<v2, v3, v5, v6, v7, v8, v9, v10, v11, v12, v13, v14, v15>>
    BY <1>1 DEF Tty!StartPane, Tty!pipeVars, Tty!writerVars
  <2>2. Tty!TerminalTypeOK'
    BY <2>1 DEF Tty!TerminalInv, Tty!TerminalTypeOK
  <2>3. Tty!ReaderIsSound' /\ Tty!WriterIsSound'
    BY <2>1 DEF Tty!TerminalInv, Tty!ReaderIsSound, Tty!WriterIsSound, Tty!Bytes
  <2> QED BY <2>2, <2>3 DEF Tty!TerminalInv
<1>2. CASE Tty!Rehydrate
  <2>1. /\ v4' = "attach" /\ v14' = IF v1 = "live" THEN v14 + v2 ELSE v14
        /\ UNCHANGED <<v1, v2, v3, v5, v6, v7, v8, v9, v10, v11, v12, v13, v15>>
    BY <1>2 DEF Tty!Rehydrate, Tty!pipeVars
  <2>2. v14' \in Nat
    BY <2>1, TerminalTypes
  <2>3. Tty!TerminalTypeOK'
    BY <2>1, <2>2 DEF Tty!TerminalInv, Tty!TerminalTypeOK
  <2>4. Tty!ReaderIsSound' /\ Tty!WriterIsSound'
    BY <2>1 DEF Tty!TerminalInv, Tty!ReaderIsSound, Tty!WriterIsSound, Tty!Bytes
  <2> QED BY <2>3, <2>4 DEF Tty!TerminalInv
<1>3. CASE Tty!AttachFifo
  <2>1. /\ v4' = "pipe" /\ v5' = v5 + 1 /\ v6' = <<>> /\ v7' = "opening"
        /\ v9' = <<>> /\ v10' = "none" /\ v11' = 0 /\ v12' = FALSE /\ v13' = <<>>
        /\ UNCHANGED <<v1, v2, v3, v8, v14, v15>>
    BY <1>3 DEF Tty!AttachFifo, Tty!FreshWriter
  <2>2. v5' \in Nat /\ v3' \in 0..v5' /\ v5' > 0
    BY <2>1, TerminalTypes
  <2>3. v12' \in BOOLEAN
    BY <2>1, Zenon
  <2>4. Tty!TerminalTypeOK'
    BY <2>1, <2>2, <2>3, TerminalNoBytes, TerminalBounds DEF Tty!TerminalInv, Tty!TerminalTypeOK
  <2>5. Tty!ReaderIsSound' /\ Tty!WriterIsSound'
    BY <2>1, <2>2 DEF Tty!ReaderIsSound, Tty!WriterIsSound
  <2> QED BY <2>4, <2>5 DEF Tty!TerminalInv
<1> QED BY <1>1, <1>2, <1>3

LEMMA TerminalAttachPipeInv == Tty!TerminalInv /\ Tty!AttachPipe => Tty!TerminalInv'
<1> SUFFICES ASSUME Tty!TerminalInv, Tty!AttachPipe PROVE Tty!TerminalInv'
  OBVIOUS
<1>1. /\ v4 = "pipe" /\ v4' = "up"
      /\ UNCHANGED <<v1, v2, v5, v6, v9, v10, v11, v12, v13, v14, v15>>
  BY DEF Tty!AttachPipe, Tty!writerVars
<1>2. v7 = "opening" /\ ~v12 /\ v13 = <<>> /\ v9 = <<>> /\ v6 = <<>> /\ v5 > 0 /\ v5 \in Nat
  BY <1>1, TerminalKnows, TerminalTypes
<1>3. CASE v1 = "live" /\ v3 = 0
  <2>1. v3' = v5 /\ v7' = "reading" /\ v8' = v2
    BY <1>3 DEF Tty!AttachPipe
  <2>2. v3' \in 0..v5 /\ v8' \in 0..v2
    BY <1>2, <2>1, TerminalTypes
  <2>3. Tty!TerminalTypeOK'
    BY <1>1, <2>1, <2>2 DEF Tty!TerminalInv, Tty!TerminalTypeOK
  <2>4. v13' \o v9' \o v6' = Tty!Bytes(v8, v2)'
    <3>1. Tty!Bytes(v2, v2) = <<>>
      BY TerminalTypes, TerminalBytesOfNothing
    <3>2. Tty!Bytes(v8, v2)' = Tty!Bytes(v2, v2)
      BY <1>1, <2>1 DEF Tty!Bytes
    <3> QED BY <1>1, <1>2, <3>1, <3>2, TerminalNoBytes
  <2>5. Tty!ReaderIsSound'
    BY <1>1, <1>2, <2>1, <2>4 DEF Tty!ReaderIsSound
  <2>6. Tty!WriterIsSound'
    BY <1>1 DEF Tty!TerminalInv, Tty!WriterIsSound
  <2> QED BY <2>3, <2>5, <2>6 DEF Tty!TerminalInv
<1>4. CASE ~(v1 = "live" /\ v3 = 0)
  <2>1. v3' = 0 /\ UNCHANGED <<v7, v8>>
    BY <1>4 DEF Tty!AttachPipe
  <2>2. Tty!TerminalTypeOK'
    BY <1>1, <1>2, <2>1 DEF Tty!TerminalInv, Tty!TerminalTypeOK
  <2>3. Tty!ReaderIsSound' /\ Tty!WriterIsSound'
    BY <1>1, <1>2, <2>1 DEF Tty!TerminalInv, Tty!ReaderIsSound, Tty!WriterIsSound
  <2> QED BY <2>2, <2>3 DEF Tty!TerminalInv
<1> QED BY <1>3, <1>4

LEMMA TerminalPaneWritesInv == Tty!TerminalInv /\ Tty!PaneWrites => Tty!TerminalInv'
<1> SUFFICES ASSUME Tty!TerminalInv, Tty!PaneWrites PROVE Tty!TerminalInv'
  OBVIOUS
<1>1. /\ v1 = "live" /\ v2' = v2 + 1
      /\ UNCHANGED <<v1, v4, v5, v7, v8, v9, v10, v11, v12, v13, v14, v15>>
  BY DEF Tty!PaneWrites, Tty!writerVars
<1>2. v2' \in Nat /\ v8' \in 0..v2' /\ v8 \in Nat /\ v8 <= v2 /\ v2 \in Nat /\ v5 \in Nat
  BY <1>1, TerminalTypes
<1>3. CASE v3 # 0 /\ v3 = v5 /\ v7 = "reading"
  <2>1. v6' = Append(v6, v2 + 1) /\ v3' = v3
    BY <1>1, <1>3 DEF Tty!PaneWrites
  <2>2. v6' \in Seq(Nat)
    BY <1>2, <2>1, TerminalTypes, AppendProperties
  <2>3. Tty!TerminalTypeOK'
    BY <1>1, <1>2, <2>1, <2>2 DEF Tty!TerminalInv, Tty!TerminalTypeOK
  <2>4. v13 \o v9 \o v6 = Tty!Bytes(v8, v2) /\ v4 # "pipe" /\ ~v12 /\ v5 > 0
    BY <1>3, TerminalKnows
  <2>5. v13 \o v9 \o Append(v6, v2 + 1) = Append(v13 \o v9 \o v6, v2 + 1)
    <3>1. v13 \in Seq(Nat) /\ v9 \in Seq(Nat) /\ v6 \in Seq(Nat)
      BY TerminalTypes
    <3>2. v2 + 1 \in Nat
      BY <1>2
    <3> QED BY ONLY <3>1, <3>2, TerminalAppendAtTheEnd
  <2>6. Tty!Bytes(v8, v2 + 1) = Append(Tty!Bytes(v8, v2), v2 + 1)
    BY <1>2, TerminalBytesGrow
  <2>7. v13' \o v9' \o v6' = Tty!Bytes(v8, v2)'
    BY <1>1, <2>1, <2>4, <2>5, <2>6 DEF Tty!Bytes
  <2>8. Tty!ReaderIsSound'
    BY <1>1, <1>3, <2>1, <2>4, <2>7 DEF Tty!ReaderIsSound
  <2>9. Tty!WriterIsSound'
    BY <1>1, <2>4, TerminalKnows DEF Tty!WriterIsSound
  <2> QED BY <2>3, <2>8, <2>9 DEF Tty!TerminalInv
<1>4. CASE ~(v3 # 0 /\ v3 = v5 /\ v7 = "reading")
  <2>1. v6' = v6 /\ v3' = 0
    BY <1>4 DEF Tty!PaneWrites
  <2>2. Tty!TerminalTypeOK'
    BY <1>1, <1>2, <2>1 DEF Tty!TerminalInv, Tty!TerminalTypeOK
  <2>3. v7 \notin {"reading", "closed"}
    <3>1. v7 # "none" => v5 > 0
      BY TerminalKnows
    <3>2. v7 \in {"reading", "closed"} => v3 = v5 /\ v7 = "reading"
      BY <1>1, TerminalKnows
    <3> QED BY <1>2, <1>4, <3>1, <3>2
  <2>4. Tty!ReaderIsSound' /\ Tty!WriterIsSound'
    BY <1>1, <2>1, <2>3 DEF Tty!TerminalInv, Tty!ReaderIsSound, Tty!WriterIsSound
  <2> QED BY <2>2, <2>4 DEF Tty!TerminalInv
<1> QED BY <1>3, <1>4

LEMMA TerminalEndsInv == Tty!TerminalInv /\ (Tty!PaneEnds \/ Tty!AgentDies) => Tty!TerminalInv'
<1> SUFFICES ASSUME Tty!TerminalInv, Tty!PaneEnds \/ Tty!AgentDies PROVE Tty!TerminalInv'
  OBVIOUS
<1>1. CASE Tty!PaneEnds
  <2>1. /\ v1' = "gone" /\ v3' = 0
        /\ UNCHANGED <<v2, v4, v5, v6, v7, v8, v9, v10, v11, v12, v13, v14, v15>>
    BY <1>1 DEF Tty!PaneEnds, Tty!writerVars
  <2>2. v3' \in 0..v5
    BY <2>1, TerminalTypes
  <2>3. Tty!TerminalTypeOK'
    BY <2>1, <2>2 DEF Tty!TerminalInv, Tty!TerminalTypeOK
  <2>4. Tty!ReaderIsSound' /\ Tty!WriterIsSound'
    BY <2>1 DEF Tty!TerminalInv, Tty!ReaderIsSound, Tty!WriterIsSound, Tty!Bytes
  <2> QED BY <2>3, <2>4 DEF Tty!TerminalInv
<1>2. CASE Tty!AgentDies
  <2>1. /\ v15' = v15 + 1 /\ v4' = "down" /\ v7' = "none" /\ v6' = <<>>
        /\ v9' = <<>> /\ v10' = "none" /\ v11' = 0 /\ v12' = FALSE /\ v13' = <<>>
        /\ UNCHANGED <<v1, v2, v3, v5, v8, v14>>
    BY <1>2 DEF Tty!AgentDies, Tty!FreshWriter
  <2>2. v12' \in BOOLEAN
    BY <2>1, Zenon
  <2>3. v15' \in Nat
    BY <2>1, TerminalTypes
  <2>4. Tty!TerminalTypeOK'
    BY <2>1, <2>2, <2>3, TerminalNoBytes, TerminalBounds DEF Tty!TerminalInv, Tty!TerminalTypeOK
  <2>5. Tty!ReaderIsSound' /\ Tty!WriterIsSound'
    BY <2>1 DEF Tty!ReaderIsSound, Tty!WriterIsSound
  <2> QED BY <2>4, <2>5 DEF Tty!TerminalInv
<1> QED BY <1>1, <1>2

LEMMA TerminalNextInv == Tty!TerminalInv /\ Tty!TerminalNext => Tty!TerminalInv'
BY TerminalTimerFiresInv, TerminalLateFlushInv, TerminalScanPipeInv, TerminalScanPipeEndsInv,
   TerminalAttachInv, TerminalAttachPipeInv, TerminalPaneWritesInv, TerminalEndsInv
   DEF Tty!TerminalNext

LEMMA TerminalInvProps == Tty!TerminalInv => Tty!BytesInOrder
BY TerminalKnows DEF Tty!BytesInOrder

LEMMA TerminalStutters == Tty!TerminalInv /\ UNCHANGED shared => Tty!TerminalInv'
BY DEF shared, Tty!ReaderIsSound, Tty!TerminalInv, Tty!TerminalTypeOK, Tty!WriterIsSound

-----------------------------------------------------------------------------
(***************************************************************************)
(* UsagePoll, as Usage: v1 row, v2 starter, v3 ender, v4 spent, v5 poller, *)
(* v6 stops, v7 signalled, v8 tokens, v9 usage, v10 scraped, v11 late, v12 *)
(* quenched, v13 restarts.                                                 *)
(* A total is in the row before it is in the log, and a poller that goes   *)
(* on belongs to a session that is not over.                               *)
(***************************************************************************)

LEMMA PollBounds == MaxTotal \in Nat
BY AgentsBoundsAssumption

PollerRecord == [at : {"none", "waiting", "update", "publish", "gone"},
                 u : 0..MaxTotal, last : Usage!NoTranscript..MaxTotal]
PollEnders == {"idle", "quench", "quenchThenDelete", "delete"}

LEMMA PollTypes ==
  ASSUME Usage!PollInv
  PROVE  /\ v1 \in {"none", "active", "ended", "deleted"} /\ v2 \in {"none", "running", "done"}
         /\ v5 \in PollerRecord /\ v3 \in [PollCallers -> PollEnders]
         /\ v4 \in Usage!NoTranscript..MaxTotal /\ v8 \in 0..MaxTotal
         /\ v9 \in Seq(0..MaxTotal) /\ v13 \in Nat
         /\ Usage!UsageRises /\ Usage!CountIsAnnounced /\ Usage!PollersEnd /\ Usage!CountFollows
         /\ Usage!EndIsHeard
BY DEF Usage!PollInv, Usage!PollTypeOK, PollerRecord, PollEnders

LEMMA PollFlagTypes ==
  ASSUME Usage!PollInv
  PROVE  v6 \in BOOLEAN /\ v7 \in BOOLEAN /\ v10 \in BOOLEAN /\ v11 \in BOOLEAN /\ v12 \in BOOLEAN
<1>1. {v6, v7, v10, v11, v12} \subseteq BOOLEAN
  BY DEF Usage!PollInv, Usage!PollTypeOK
<1> QED BY <1>1, Zenon

LEMMA PollNoPollerIs == Usage!NoPoller \in PollerRecord /\ Usage!NoPoller.at = "none"
BY PollBounds DEF Usage!NoPoller, PollerRecord, Usage!NoTranscript

LEMMA PollNothingYet == <<>> \in Seq(0..MaxTotal) /\ Len(<<>>) = 0
BY EmptySeq

LEMMA PollFlagsAre ==
  ASSUME NEW a, NEW b, NEW c, NEW d, NEW e
  PROVE  (a \in BOOLEAN /\ b \in BOOLEAN /\ c \in BOOLEAN /\ d \in BOOLEAN /\ e \in BOOLEAN)
           => {a, b, c, d, e} \subseteq BOOLEAN
BY Zenon

LEMMA PollInitInv == Usage!PollInit => Usage!PollInv
<1> SUFFICES ASSUME Usage!PollInit PROVE Usage!PollInv
  OBVIOUS
<1>1. /\ v1 = "none" /\ v2 = "none" /\ v3 = [c \in PollCallers |-> "idle"]
      /\ v4 = Usage!NoTranscript /\ v5 = Usage!NoPoller /\ v6 = FALSE /\ v7 = FALSE
      /\ v8 = 0 /\ v9 = <<>> /\ v10 = FALSE /\ v11 = FALSE /\ v12 = FALSE /\ v13 = 0
  BY DEF Usage!PollInit
<1>2. {v6, v7, v10, v11, v12} \subseteq BOOLEAN
  BY <1>1, Zenon
<1>3. Usage!PollTypeOK
  <2>1. v4 \in Usage!NoTranscript..MaxTotal /\ v8 \in 0..MaxTotal
    BY <1>1, PollBounds DEF Usage!NoTranscript
  <2>2. v5 \in PollerRecord
    BY <1>1, PollNoPollerIs
  <2> QED BY <1>1, <1>2, <2>1, <2>2, PollNothingYet DEF Usage!PollTypeOK, PollerRecord
<1>4. Usage!UsageRises /\ Usage!CountIsAnnounced /\ Usage!PollersEnd
  BY <1>1, PollNothingYet DEF Usage!UsageRises, Usage!CountIsAnnounced, Usage!PollersEnd
<1>5. Usage!CountFollows
  BY <1>1, PollNoPollerIs DEF Usage!CountFollows
<1>6. Usage!EndIsHeard
  BY <1>1 DEF Usage!EndIsHeard
<1> QED BY <1>3, <1>4, <1>5, <1>6 DEF Usage!PollInv

LEMMA PollStartInv == Usage!PollInv /\ (Usage!StartRuns \/ Usage!StartUsagePoll) => Usage!PollInv'
<1> SUFFICES ASSUME Usage!PollInv, Usage!StartRuns \/ Usage!StartUsagePoll PROVE Usage!PollInv'
  OBVIOUS
<1>1. CASE Usage!StartRuns
  <2>1. /\ v1 = "none" /\ v2 = "none" /\ v1' = "active" /\ v2' = "running"
        /\ UNCHANGED <<v3, v4, v5, v6, v7, v8, v9, v10, v11, v12, v13>>
    BY <1>1 DEF Usage!StartRuns
  <2>2. v9 = <<>> /\ v5 = Usage!NoPoller
    BY <2>1, PollTypes DEF Usage!CountFollows
  <2>3. Usage!PollTypeOK'
    BY <2>1 DEF Usage!PollInv, Usage!PollTypeOK
  <2>4. Usage!UsageRises' /\ Usage!CountIsAnnounced' /\ Usage!PollersEnd'
    BY <2>1, <2>2, PollTypes DEF Usage!UsageRises, Usage!CountIsAnnounced, Usage!PollersEnd
  <2>5. Usage!CountFollows'
    BY <2>1, <2>2, PollNoPollerIs DEF Usage!CountFollows, Usage!NoPoller
  <2>6. Usage!EndIsHeard'
    BY <2>1, PollTypes DEF Usage!EndIsHeard
  <2> QED BY <2>3, <2>4, <2>5, <2>6 DEF Usage!PollInv
<1>2. CASE Usage!StartUsagePoll
  <2>1. /\ v2 = "running" /\ v2' = "done"
        /\ v5' = [Usage!NoPoller EXCEPT !.at = "waiting", !.last = Usage!NoTranscript]
        /\ v6' = TRUE /\ v11' = v12
        /\ UNCHANGED <<v1, v3, v4, v7, v8, v9, v10, v12, v13>>
    BY <1>2 DEF Usage!StartUsagePoll
  <2>2. v9 = <<>> /\ v1 # "none" /\ v4 \in Usage!NoTranscript..MaxTotal
    BY <2>1, PollTypes DEF Usage!CountFollows
  <2>3. v5' \in PollerRecord /\ v5'.at = "waiting" /\ v5'.last = Usage!NoTranscript
    <3> DEFINE q == [Usage!NoPoller EXCEPT !.at = "waiting"]
    <3>1. q \in PollerRecord /\ q.at = "waiting"
      BY PollNoPollerIs DEF PollerRecord
    <3>2. v5' = [q EXCEPT !.last = Usage!NoTranscript]
      BY <2>1, PollNoPollerIs DEF PollerRecord
    <3>3. Usage!NoTranscript \in Usage!NoTranscript..MaxTotal
      BY PollBounds DEF Usage!NoTranscript
    <3> HIDE DEF q
    <3> QED BY <3>1, <3>2, <3>3 DEF PollerRecord
  <2>4. {v6', v7', v10', v11', v12'} \subseteq BOOLEAN
    <3>1. v6' \in BOOLEAN /\ v7' \in BOOLEAN /\ v10' \in BOOLEAN /\ v11' \in BOOLEAN /\ v12' \in BOOLEAN
      BY <2>1, PollFlagTypes, Zenon
    <3> QED BY <3>1, Zenon
  <2>5. Usage!PollTypeOK'
    BY <2>1, <2>3, <2>4, PollTypes DEF Usage!PollTypeOK, PollerRecord, PollEnders, Usage!NoTranscript
  <2>6. Usage!UsageRises' /\ Usage!CountIsAnnounced'
    BY <2>1, <2>2, PollNothingYet DEF Usage!UsageRises, Usage!CountIsAnnounced
  <2>7. Usage!CountFollows'
    BY <2>1, <2>2, <2>3, PollBounds DEF Usage!CountFollows, Usage!Announced, Usage!NoTranscript
  <2>8. Usage!EndIsHeard'
    BY <2>1, PollTypes DEF Usage!EndIsHeard
  <2>9. Usage!PollersEnd'
    <3> SUFFICES ASSUME v1' \in {"ended", "deleted"}, \A c \in PollCallers : v3'[c] = "idle", ~v11', v13' = 0
                 PROVE  FALSE
      BY DEF Usage!PollersEnd
    <3>1. v12
      BY <2>1, PollTypes DEF Usage!EndIsHeard
    <3> QED BY <2>1, <3>1
  <2> QED BY <2>5, <2>6, <2>7, <2>8, <2>9 DEF Usage!PollInv
<1> QED BY <1>1, <1>2

LEMMA PollEndersInv ==
  ASSUME Usage!PollInv, NEW c \in PollCallers,
         Usage!EndSession(c) \/ Usage!DeleteBegins(c) \/ Usage!StopUsagePoll(c) \/ Usage!DeleteSession(c)
  PROVE  Usage!PollInv'
<1>0. v3 \in [PollCallers -> PollEnders] /\ v1 \in {"none", "active", "ended", "deleted"}
  BY PollTypes
<1>1. CASE Usage!EndSession(c)
  <2>1. /\ v3[c] = "idle" /\ v1 \in {"active", "ended"} /\ v1' = "ended" /\ v3' = [v3 EXCEPT ![c] = "quench"]
        /\ UNCHANGED <<v2, v4, v5, v6, v7, v8, v9, v10, v11, v12, v13>>
    BY <1>1 DEF Usage!EndSession, Usage!RowExists
  <2>2. /\ v3' \in [PollCallers -> PollEnders] /\ v3'[c] = "quench"
        /\ \A d \in PollCallers : d # c => v3'[d] = v3[d]
    BY <1>0, <2>1 DEF PollEnders
  <2>3. Usage!PollTypeOK'
    BY <2>1, <2>2 DEF Usage!PollInv, Usage!PollTypeOK, PollEnders
  <2>4. Usage!UsageRises' /\ Usage!CountIsAnnounced'
    BY <2>1, PollTypes DEF Usage!UsageRises, Usage!CountIsAnnounced, Usage!RowExists
  <2>5. Usage!PollersEnd'
    BY <2>2 DEF Usage!PollersEnd
  <2>6. Usage!CountFollows'
    BY <2>1, PollTypes DEF Usage!CountFollows, Usage!Announced, Usage!RowExists, Usage!NoPoller,
       Usage!NoTranscript
  <2>7. Usage!EndIsHeard'
    BY <2>1, <2>2, PollTypes DEF Usage!EndIsHeard
  <2> QED BY <2>3, <2>4, <2>5, <2>6, <2>7 DEF Usage!PollInv
<1>2. CASE Usage!DeleteBegins(c)
  <2>1. /\ v3[c] = "idle" /\ v1 \in {"active", "ended"} /\ v3' = [v3 EXCEPT ![c] = "quenchThenDelete"]
        /\ UNCHANGED <<v1, v2, v4, v5, v6, v7, v8, v9, v10, v11, v12, v13>>
    BY <1>2 DEF Usage!DeleteBegins, Usage!RowExists
  <2>2. /\ v3' \in [PollCallers -> PollEnders] /\ v3'[c] = "quenchThenDelete"
        /\ \A d \in PollCallers : d # c => v3'[d] = v3[d]
    BY <1>0, <2>1 DEF PollEnders
  <2>3. Usage!PollTypeOK'
    BY <2>1, <2>2 DEF Usage!PollInv, Usage!PollTypeOK, PollEnders
  <2>4. Usage!UsageRises' /\ Usage!CountIsAnnounced' /\ Usage!CountFollows'
    BY <2>1, PollTypes DEF Usage!UsageRises, Usage!CountIsAnnounced, Usage!RowExists, Usage!CountFollows,
       Usage!Announced, Usage!NoPoller, Usage!NoTranscript
  <2>5. Usage!PollersEnd'
    BY <2>2 DEF Usage!PollersEnd
  <2>6. Usage!EndIsHeard'
    BY <2>1, <2>2, PollTypes DEF Usage!EndIsHeard
  <2> QED BY <2>3, <2>4, <2>5, <2>6 DEF Usage!PollInv
<1>3. CASE Usage!StopUsagePoll(c)
  <2>1. /\ v3[c] \in {"quench", "quenchThenDelete"} /\ v7' = (v7 \/ v6) /\ v6' = FALSE
        /\ v12' = TRUE /\ v3' = [v3 EXCEPT ![c] = Usage!AfterQuench(c)]
        /\ UNCHANGED <<v1, v2, v4, v5, v8, v9, v10, v11, v13>>
    BY <1>3 DEF Usage!StopUsagePoll
  <2>2. v3' \in [PollCallers -> PollEnders]
    BY <1>0, <2>1 DEF PollEnders, Usage!AfterQuench
  <2>3. {v6', v7', v10', v11', v12'} \subseteq BOOLEAN
    <3>1. v6' \in BOOLEAN /\ v7' \in BOOLEAN /\ v10' \in BOOLEAN /\ v11' \in BOOLEAN /\ v12' \in BOOLEAN
      BY <2>1, PollFlagTypes, Zenon
    <3> QED BY <3>1, Zenon
  <2>4. Usage!PollTypeOK'
    BY <2>1, <2>2, <2>3, PollTypes DEF Usage!PollTypeOK, PollerRecord, PollEnders, Usage!NoTranscript
  <2>5. Usage!UsageRises' /\ Usage!CountIsAnnounced' /\ Usage!CountFollows'
    BY <2>1, PollTypes DEF Usage!UsageRises, Usage!CountIsAnnounced, Usage!RowExists, Usage!CountFollows,
       Usage!Announced, Usage!NoPoller, Usage!NoTranscript
  <2>6. v13 = 0 /\ v2 = "done" /\ ~v11 => v7'
    BY <2>1, PollTypes DEF Usage!EndIsHeard
  <2>7. Usage!PollersEnd'
    BY <2>1, <2>6 DEF Usage!PollersEnd
  <2>8. Usage!EndIsHeard'
    BY <2>1, <2>6 DEF Usage!EndIsHeard
  <2> QED BY <2>4, <2>5, <2>7, <2>8 DEF Usage!PollInv
<1>4. CASE Usage!DeleteSession(c)
  <2>1. /\ v3[c] = "delete" /\ v1' = "deleted" /\ v3' = [v3 EXCEPT ![c] = "idle"]
        /\ UNCHANGED <<v2, v4, v5, v6, v7, v8, v9, v10, v11, v12, v13>>
    BY <1>4 DEF Usage!DeleteSession
  <2>2. /\ v3' \in [PollCallers -> PollEnders] /\ v3'[c] = "idle"
        /\ \A d \in PollCallers : d # c => v3'[d] = v3[d]
    BY <1>0, <2>1 DEF PollEnders
  <2>3. Usage!PollTypeOK'
    BY <2>1, <2>2 DEF Usage!PollInv, Usage!PollTypeOK, PollEnders
  <2>4. Usage!UsageRises' /\ Usage!CountIsAnnounced' /\ Usage!CountFollows'
    BY <2>1, PollTypes DEF Usage!UsageRises, Usage!CountIsAnnounced, Usage!RowExists, Usage!CountFollows,
       Usage!Announced, Usage!NoPoller, Usage!NoTranscript
  <2>5. v13 = 0 => v12
    BY <2>1, PollTypes DEF Usage!EndIsHeard
  <2>6. v13 = 0 /\ v2 = "done" /\ ~v11 => v7
    BY <2>5, PollTypes DEF Usage!EndIsHeard
  <2>7. Usage!PollersEnd'
    BY <2>1, <2>6 DEF Usage!PollersEnd
  <2>8. Usage!EndIsHeard'
    BY <2>1, <2>2, <2>5, <2>6, PollTypes DEF Usage!EndIsHeard
  <2> QED BY <2>3, <2>4, <2>7, <2>8 DEF Usage!PollInv
<1> QED BY <1>1, <1>2, <1>3, <1>4

LEMMA PollEndsStay ==
  ASSUME Usage!PollInv, UNCHANGED <<v1, v2, v3, v6, v7, v11, v12, v13>>,
         v5.at = "gone" => v5'.at = "gone"
  PROVE  Usage!PollersEnd' /\ Usage!EndIsHeard'
BY PollTypes DEF Usage!PollersEnd, Usage!EndIsHeard

LEMMA PollerInv ==
  /\ Usage!PollInv
  /\ Usage!Tick \/ Usage!UpdateSessionUsage \/ Usage!PublishUsage \/ Usage!PollerExits
  => Usage!PollInv'
<1> SUFFICES ASSUME Usage!PollInv,
                    Usage!Tick \/ Usage!UpdateSessionUsage \/ Usage!PublishUsage \/ Usage!PollerExits
             PROVE  Usage!PollInv'
  OBVIOUS
<1>0. /\ v5 \in PollerRecord /\ v5.u \in 0..MaxTotal /\ v5.last \in Usage!NoTranscript..MaxTotal
      /\ v4 \in Usage!NoTranscript..MaxTotal /\ v8 \in 0..MaxTotal /\ v9 \in Seq(0..MaxTotal)
      /\ Usage!UsageRises /\ Usage!CountFollows
  BY PollTypes DEF PollerRecord
<1>1. /\ UNCHANGED <<v1, v2, v3, v4, v6, v7, v10, v11, v12, v13>>
      /\ v5.at # "gone" /\ v5.at # "none"
  BY DEF Usage!Tick, Usage!UpdateSessionUsage, Usage!PublishUsage, Usage!PollerExits
<1>2. v2 = "done"
  BY <1>0, <1>1, PollNoPollerIs DEF Usage!CountFollows
<1>3. {v6', v7', v10', v11', v12'} \subseteq BOOLEAN
  BY <1>1 DEF Usage!PollInv, Usage!PollTypeOK
<1>4. Usage!PollersEnd' /\ Usage!EndIsHeard'
  BY <1>1, PollEndsStay
<1>4a. /\ Len(v9) \in Nat /\ \A i \in 1..Len(v9) : v9[i] \in 0..MaxTotal
       /\ Usage!Announced \in Usage!NoTranscript..MaxTotal
  <2>1. Len(v9) \in Nat /\ \A i \in 1..Len(v9) : v9[i] \in 0..MaxTotal
    BY <1>0, LenProperties, ElementOfSeq
  <2>2. v9 # <<>> => Len(v9) \in 1..Len(v9)
    BY <1>0, <2>1, EmptySeq
  <2> QED BY <2>1, <2>2, PollBounds DEF Usage!Announced, Usage!NoTranscript
<1>5. ASSUME v5' \in PollerRecord, v8' \in 0..MaxTotal, v9' \in Seq(0..MaxTotal)
      PROVE  Usage!PollTypeOK'
  BY <1>1, <1>3, <1>5, PollTypes DEF Usage!PollTypeOK, PollerRecord, PollEnders, Usage!NoTranscript
<1>6. CASE Usage!Tick
  <2>1. /\ v5.at = "waiting" /\ v4 # Usage!NoTranscript /\ v4 # v5.last
        /\ v5' = [at |-> "update", u |-> v4, last |-> v4] /\ UNCHANGED <<v8, v9>>
    BY <1>6 DEF Usage!Tick
  <2>2. v4 \in 0..MaxTotal
    BY <1>0, <2>1, PollBounds DEF Usage!NoTranscript
  <2>3. v5' \in PollerRecord /\ v5'.at = "update" /\ v5'.u = v4 /\ v5'.last = v4
    BY <1>0, <2>1, <2>2 DEF PollerRecord
  <2>4. Usage!Announced <= v5.last /\ v5.last <= v4
    BY <1>0, <2>1 DEF Usage!CountFollows
  <2>5. Usage!Announced < v4
    BY <1>0, <1>4a, <2>1, <2>4, PollBounds DEF Usage!NoTranscript
  <2>6. Usage!PollTypeOK'
    BY <1>0, <1>5, <2>1, <2>3
  <2>7. Usage!UsageRises' /\ Usage!CountIsAnnounced'
    BY <1>0, <2>1, <2>3 DEF Usage!UsageRises, Usage!CountIsAnnounced
  <2>8. v4 <= v4 /\ Usage!Announced' = Usage!Announced /\ v4' = v4
    BY <1>0, <1>1, <2>1, <2>2 DEF Usage!Announced, Usage!NoTranscript
  <2>9. Usage!CountFollows'
    BY <1>0, <1>1, <1>2, <2>3, <2>5, <2>8 DEF Usage!CountFollows
  <2> QED BY <1>4, <2>6, <2>7, <2>9 DEF Usage!PollInv
<1>7. CASE Usage!UpdateSessionUsage
  <2>1. /\ v5.at = "update" /\ v8' = (IF Usage!RowExists THEN v5.u ELSE v8)
        /\ v5' = [v5 EXCEPT !.at = "publish"] /\ v9' = v9
    BY <1>7 DEF Usage!UpdateSessionUsage
  <2>2. v5' \in PollerRecord /\ v5'.at = "publish" /\ v5'.u = v5.u /\ v5'.last = v5.last
    BY <1>0, <2>1 DEF PollerRecord
  <2>3. v8' \in 0..MaxTotal
    BY <1>0, <2>1
  <2>4. Usage!Announced < v5.u /\ v5.u = v5.last /\ v5.last <= v4 /\ Usage!Announced' = Usage!Announced
    BY <1>0, <2>1 DEF Usage!CountFollows, Usage!Announced, Usage!NoTranscript
  <2>5. Usage!PollTypeOK'
    BY <1>0, <1>5, <2>1, <2>2, <2>3
  <2>6. Usage!UsageRises' /\ Usage!CountIsAnnounced'
    BY <1>0, <2>1, <2>2 DEF Usage!UsageRises, Usage!CountIsAnnounced
  <2>7. Usage!CountFollows'
    BY <1>0, <1>1, <1>2, <2>1, <2>2, <2>4 DEF Usage!CountFollows, Usage!RowExists
  <2> QED BY <1>4, <2>5, <2>6, <2>7 DEF Usage!PollInv
<1>8. CASE Usage!PublishUsage
  <2>1. /\ v5.at = "publish" /\ v9' = (IF Usage!RowExists THEN Append(v9, v5.u) ELSE v9)
        /\ v5' = [v5 EXCEPT !.at = "waiting"] /\ v8' = v8
    BY <1>8 DEF Usage!PublishUsage
  <2>2. v5' \in PollerRecord /\ v5'.at = "waiting" /\ v5'.u = v5.u /\ v5'.last = v5.last
    BY <1>0, <2>1 DEF PollerRecord
  <2>3. Usage!Announced < v5.u /\ v5.u = v5.last /\ v5.last <= v4
        /\ (Usage!RowExists /\ ~v10 => v8 = v5.u)
    BY <1>0, <2>1 DEF Usage!CountFollows
  <2>4. CASE ~Usage!RowExists
    <3>1. v9' = v9 /\ ~Usage!RowExists'
      BY <1>1, <2>1, <2>4 DEF Usage!RowExists
    <3>2. Usage!PollTypeOK'
      BY <1>0, <1>5, <2>1, <2>2, <3>1
    <3>3. Usage!UsageRises' /\ Usage!CountIsAnnounced'
      BY <1>0, <3>1 DEF Usage!UsageRises, Usage!CountIsAnnounced
    <3>4. Usage!Announced' = Usage!Announced /\ Usage!Announced <= v5.last
      BY <1>0, <1>4a, <2>3, <3>1, PollBounds DEF Usage!Announced, Usage!NoTranscript
    <3>5. Usage!CountFollows'
      BY <1>0, <1>1, <1>2, <2>2, <2>3, <3>1, <3>4 DEF Usage!CountFollows
    <3> QED BY <1>4, <3>2, <3>3, <3>5 DEF Usage!PollInv
  <2>5. CASE Usage!RowExists
    <3> DEFINE n == Append(v9, v5.u)
    <3>1. v9' = n
      BY <2>1, <2>5
    <3>2. /\ n \in Seq(0..MaxTotal) /\ Len(n) = Len(v9) + 1 /\ n[Len(v9) + 1] = v5.u /\ n # <<>>
          /\ \A i \in 1..Len(v9) : n[i] = v9[i]
      BY <1>0, AppendProperties
    <3> HIDE DEF n
    <3>3. Usage!PollTypeOK'
      BY <1>0, <1>5, <2>1, <2>2, <3>1, <3>2
    <3>4. ASSUME NEW i \in 1..Len(v9) PROVE n[i] < n[i + 1]
      <4>1. CASE i = Len(v9)
        <5>1. v9 # <<>>
          BY <3>4, <4>1, <1>4a, PollNothingYet
        <5>2. v9[Len(v9)] < v5.u
          BY <2>3, <5>1 DEF Usage!Announced
        <5> QED BY <3>2, <4>1, <5>2
      <4>2. CASE i # Len(v9)
        <5>1. i \in 1..(Len(v9) - 1) /\ i + 1 \in 1..Len(v9)
          BY <1>4a, <4>2
        <5> QED BY <1>0, <3>2, <5>1 DEF Usage!UsageRises
      <4> QED BY <4>1, <4>2
    <3>5. Usage!UsageRises'
      <4>1. Len(n) - 1 = Len(v9)
        BY <1>4a, <3>2
      <4> QED BY <3>1, <3>4, <4>1 DEF Usage!UsageRises
    <3>6. n[Len(n)] = v5.u
      BY <3>2
    <3>7. Usage!CountIsAnnounced'
      BY <1>1, <2>1, <2>3, <2>5, <3>1, <3>6 DEF Usage!CountIsAnnounced, Usage!RowExists
    <3>8. Usage!Announced' = v5.u /\ v5.u <= v5.last
      BY <1>0, <2>3, <3>1, <3>2, <3>6 DEF Usage!Announced
    <3>9. Usage!CountFollows'
      BY <1>0, <1>1, <1>2, <2>2, <2>3, <3>8 DEF Usage!CountFollows
    <3> QED BY <1>4, <3>3, <3>5, <3>7, <3>9 DEF Usage!PollInv
  <2> QED BY <2>4, <2>5
<1>9. CASE Usage!PollerExits
  <2>1. v5' = [v5 EXCEPT !.at = "gone"] /\ UNCHANGED <<v8, v9>>
    BY <1>9 DEF Usage!PollerExits
  <2>2. v5' \in PollerRecord /\ v5'.at = "gone"
    BY <1>0, <2>1 DEF PollerRecord
  <2>3. Usage!PollTypeOK'
    BY <1>0, <1>5, <2>1, <2>2
  <2>4. Usage!UsageRises' /\ Usage!CountIsAnnounced'
    BY <1>0, <2>1, <2>2 DEF Usage!UsageRises, Usage!CountIsAnnounced
  <2>5. Usage!CountFollows'
    BY <1>0, <1>1, <1>2, <2>2 DEF Usage!CountFollows
  <2> QED BY <1>4, <2>3, <2>4, <2>5 DEF Usage!PollInv
<1> QED BY <1>6, <1>7, <1>8, <1>9

LEMMA PollFiguresInv ==
  ASSUME Usage!PollInv, NEW n \in 0..MaxTotal, Usage!TurnIsWritten(n) \/ Usage!ScreenShows(n)
  PROVE  Usage!PollInv'
<1>0. /\ v5 \in PollerRecord /\ v5.last \in Usage!NoTranscript..MaxTotal
      /\ v4 \in Usage!NoTranscript..MaxTotal /\ v8 \in 0..MaxTotal /\ v9 \in Seq(0..MaxTotal)
      /\ Usage!UsageRises /\ Usage!CountFollows /\ Usage!CountIsAnnounced /\ n \in Int
  BY PollTypes DEF PollerRecord
<1>1. UNCHANGED <<v1, v2, v3, v5, v6, v7, v9, v11, v12, v13>>
  BY DEF Usage!TurnIsWritten, Usage!ScreenShows
<1>2. Usage!PollersEnd' /\ Usage!EndIsHeard'
  BY <1>1, PollEndsStay
<1>3. Usage!UsageRises'
  BY <1>0, <1>1 DEF Usage!UsageRises
<1>4. CASE Usage!TurnIsWritten(n)
  <2>1. n > v4 /\ v4' = n /\ UNCHANGED <<v8, v10>>
    BY <1>4 DEF Usage!TurnIsWritten
  <2>2. v4' \in Usage!NoTranscript..MaxTotal
    BY <2>1, PollBounds DEF Usage!NoTranscript
  <2>3. Usage!PollTypeOK'
    BY <1>1, <2>1, <2>2 DEF Usage!PollInv, Usage!PollTypeOK, Usage!NoTranscript
  <2>4. Usage!CountIsAnnounced'
    BY <1>0, <1>1, <2>1 DEF Usage!CountIsAnnounced, Usage!RowExists
  <2>5. v5.last <= v4 => v5.last <= v4'
    BY <1>0, <2>1 DEF Usage!NoTranscript
  <2>6. Usage!CountFollows'
    BY <1>0, <1>1, <2>1, <2>5 DEF Usage!CountFollows, Usage!Announced, Usage!RowExists, Usage!NoPoller,
       Usage!NoTranscript
  <2> QED BY <1>2, <1>3, <2>3, <2>4, <2>6 DEF Usage!PollInv
<1>5. CASE Usage!ScreenShows(n)
  <2>1. v8' = n /\ v10' = TRUE /\ v4' = v4
    BY <1>5 DEF Usage!ScreenShows
  <2>2. {v6', v7', v10', v11', v12'} \subseteq BOOLEAN
    <3>1. v6' \in BOOLEAN /\ v7' \in BOOLEAN /\ v10' \in BOOLEAN /\ v11' \in BOOLEAN /\ v12' \in BOOLEAN
      BY <1>1, <2>1, PollFlagTypes, Zenon
    <3> QED BY <3>1, Zenon
  <2>3. Usage!PollTypeOK'
    BY <1>1, <2>1, <2>2 DEF Usage!PollInv, Usage!PollTypeOK, Usage!NoTranscript
  <2>4. Usage!CountIsAnnounced'
    BY <2>1 DEF Usage!CountIsAnnounced
  <2>5. Usage!CountFollows'
    BY <1>0, <1>1, <2>1 DEF Usage!CountFollows, Usage!Announced, Usage!RowExists, Usage!NoPoller,
       Usage!NoTranscript
  <2> QED BY <1>2, <1>3, <2>3, <2>4, <2>5 DEF Usage!PollInv
<1> QED BY <1>4, <1>5

LEMMA PollRestartInv == Usage!PollInv /\ Usage!Restart => Usage!PollInv'
<1> SUFFICES ASSUME Usage!PollInv, Usage!Restart PROVE Usage!PollInv'
  OBVIOUS
<1>1. /\ v13' = v13 + 1 /\ v2' = (IF v1 = "none" THEN v2 ELSE "done")
      /\ v3' = [c \in PollCallers |-> "idle"] /\ v5' = Usage!NoPoller /\ v6' = FALSE /\ v7' = FALSE
      /\ UNCHANGED <<v1, v4, v8, v9, v10, v11, v12>>
  BY DEF Usage!Restart
<1>2. v13' \in Nat /\ v13' # 0
  BY <1>1, PollTypes
<1>3. {v6', v7', v10', v11', v12'} \subseteq BOOLEAN
  <2>1. v6' \in BOOLEAN /\ v7' \in BOOLEAN /\ v10' \in BOOLEAN /\ v11' \in BOOLEAN /\ v12' \in BOOLEAN
    BY <1>1, PollFlagTypes, Zenon
  <2> QED BY <2>1, Zenon
<1>4. Usage!PollTypeOK'
  BY <1>1, <1>2, <1>3, PollNoPollerIs, PollTypes DEF Usage!PollTypeOK, PollerRecord, Usage!NoTranscript
<1>5. Usage!UsageRises' /\ Usage!CountIsAnnounced' /\ Usage!PollersEnd' /\ Usage!EndIsHeard'
  BY <1>1, <1>2, PollNoPollerIs, PollTypes DEF Usage!UsageRises, Usage!CountIsAnnounced,
     Usage!PollersEnd, Usage!EndIsHeard
<1>6. Usage!CountFollows'
  BY <1>1, PollNoPollerIs, PollTypes DEF Usage!CountFollows, Usage!NoPoller
<1> QED BY <1>4, <1>5, <1>6 DEF Usage!PollInv

LEMMA PollNextInv == Usage!PollInv /\ Usage!PollNext => Usage!PollInv'
BY PollStartInv, PollEndersInv, PollerInv, PollFiguresInv, PollRestartInv DEF Usage!PollNext

LEMMA PollStutters == Usage!PollInv /\ UNCHANGED shared => Usage!PollInv'
BY DEF shared, Usage!Announced, Usage!CountFollows, Usage!CountIsAnnounced, Usage!EndIsHeard,
   Usage!PollInv, Usage!PollTypeOK, Usage!PollersEnd, Usage!RowExists, Usage!UsageRises

-----------------------------------------------------------------------------
(* The agents *)

\* The inductive invariant: that of the lifecycle, of the protocol and of codex,
\* whose variables are their own, and of the other two while they are at work.
AgentsInv ==
  /\ LifecycleInv /\ ControlInv /\ ConversationInv
  /\ part = "terminal" => Tty!TerminalInv
  /\ part = "usage" => Usage!PollInv

LEMMA AgentsInitInv == AgentsInit => AgentsInv
<1> SUFFICES ASSUME AgentsInit PROVE AgentsInv
  OBVIOUS
<1>1. LifecycleInv /\ ControlInv /\ ConversationInv
  BY LifecycleInitInv, ControlInitInv, ConversationInitInv DEF AgentsInit
<1>2. /\ part = "terminal" => Tty!TerminalInv
      /\ part = "usage" => Usage!PollInv
  BY TerminalInitInv, PollInitInv DEF AgentsInit
<1> QED BY <1>1, <1>2 DEF AgentsInv

\* A step is one of the component that is at work; the others stay where they are.
LEMMA StepIsOfItsPart ==
  ASSUME AgentsNext
  PROVE  /\ part' = part /\ [Next]_vars /\ [ControlNext]_controlVars /\ [ExecNext]_execVars
         /\ part = "terminal" => Tty!TerminalNext
         /\ part = "usage" => Usage!PollNext
BY DEF AgentsNext

LEMMA AgentsNextInv == AgentsInv /\ AgentsNext => AgentsInv'
<1> SUFFICES ASSUME AgentsInv, AgentsNext PROVE AgentsInv'
  OBVIOUS
<1>1. LifecycleInv' /\ ControlInv' /\ ConversationInv' /\ part' = part
  BY StepIsOfItsPart, LifecycleNextInv, ControlNextInv, ConversationNextInv DEF AgentsInv
<1>2. /\ part = "terminal" => Tty!TerminalInv'
      /\ part = "usage" => Usage!PollInv'
  BY StepIsOfItsPart, TerminalNextInv, PollNextInv DEF AgentsInv
<1> QED BY <1>1, <1>2 DEF AgentsInv

LEMMA AgentsStutter ==
  AgentsInv /\ UNCHANGED <<part, shared, vars, controlVars, execVars>> => AgentsInv'
<1> SUFFICES ASSUME AgentsInv, UNCHANGED <<part, shared, vars, controlVars, execVars>> PROVE AgentsInv'
  OBVIOUS
<1>1. LifecycleInv' /\ ControlInv' /\ ConversationInv' /\ part' = part
  BY LifecycleNextInv, ControlNextInv, ConversationNextInv DEF AgentsInv
<1>2. /\ part = "terminal" => Tty!TerminalInv'
      /\ part = "usage" => Usage!PollInv'
  BY TerminalStutters, PollStutters DEF AgentsInv
<1> QED BY <1>1, <1>2 DEF AgentsInv

-----------------------------------------------------------------------------
(* The theorems about all five *)

\* Every component keeps its invariant, at work or not.
THEOREM AgentsInvariant == AgentsSpec => []AgentsInv
<1>1. AgentsInv /\ [AgentsNext]_<<part, shared, vars, controlVars, execVars>> => AgentsInv'
  BY AgentsNextInv, AgentsStutter
<1> QED BY AgentsInitInv, <1>1, PTL DEF AgentsSpec

\* Whichever component is at work, every variable of all of them keeps its type.
THEOREM AgentsTypesCorrect == AgentsSpec => []TypesOK
<1>1. AgentsInv => TypesOK
  BY ExecInvTypes DEF ConversationInv, AgentsInv, TypesOK, LifecycleInv, ControlInv, Tty!TerminalInv, Usage!PollInv
<1> QED BY AgentsInvariant, <1>1, PTL

\* The log of a terminal has the pane's bytes in their order, whatever timers and
\* restarts did to the buffer; the log of a session has each token total once, the
\* row has the last of them, and nobody polls for a session that is over.
THEOREM OutputIsAlwaysKept == AgentsSpec => []OutputIsKept
<1>1. AgentsInv => OutputIsKept
  BY TerminalInvProps, PollTypes DEF AgentsInv, OutputIsKept
<1> QED BY AgentsInvariant, <1>1, PTL

\* Side by side as alone: no process is lost, alive is honest, the child is served,
\* answers are matched, the turn is the newest and a conversation is one thread.
THEOREM AgentsKeepWorking ==
  AgentsSpec => [](/\ NoOrphan /\ AliveIsHonest
                   /\ AsksAreServed /\ AnswersMatch /\ TurnIsCurrent
                   /\ ConversationHolds)
<1>1. AgentsInv => /\ NoOrphan /\ AliveIsHonest
                   /\ AsksAreServed /\ AnswersMatch /\ TurnIsCurrent
                   /\ ConversationHolds
  BY ControlInvServes, ControlInvMatches, ExecInvHolds
     DEF AgentsInv, LifecycleInv, ControlInv, PromptInv, TurnIsCurrent
<1> QED BY AgentsInvariant, <1>1, PTL
=============================================================================
