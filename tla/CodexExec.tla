-------------------------------- MODULE CodexExec --------------------------------
(***************************************************************************)
(* CodexExecRuntime: one `codex exec` process for each prompt, resumed by  *)
(* the thread id that the previous ones reported.                          *)
(*                                                                         *)
(* Handlers look the session up under the runtime's lock and use it under  *)
(* the session's own, so that a Stop may forget a session that a prompt is *)
(* about to start a turn in.  A goroutine drains each process and then     *)
(* allows the next turn.                                                   *)
(***************************************************************************)
EXTENDS Naturals, FiniteSets

CONSTANTS
  ExecHandlers,
  Turns,         \* processes: each is started at most once
  NoTurn,
  MaxStarts      \* bound: session objects ever made

ASSUME MaxStartsAssumption == MaxStarts \in Nat
ASSUME NoTurnAssumption == NoTurn \notin Turns

Modes == {"manual", "yolo"}

VARIABLES
  entry,       \* Runtime.sessions: the session object in the map, 0 for none
  object,      \* codexExecSession: its running, cancel, threadID and runMode
  starts,
  turn,        \* each process: its object, state, thread, policy, lines to report,
               \* and (history) whether a Stop crossed the prompt that started it
  thread,      \* the session row's agent_session_id, 0 for none
  execCall,    \* each handler: the object it found and what it is about to do
  startedTurns \* history: processes in the order they started, as a count

execVars == <<entry, object, starts, turn, thread, execCall, startedTurns>>

NoObject == [running |-> FALSE, cancel |-> NoTurn, threadID |-> 0, runMode |-> "manual"]
NoProcess == [of |-> 0, state |-> "none", resumes |-> 0, policy |-> "none",
              reports |-> 0, nth |-> 0, crossed |-> FALSE]
NoExecCall == [at |-> "idle", object |-> 0, cancel |-> NoTurn]

Objects == 1..MaxStarts
Lives(t) == turn[t].state \in {"live", "cancelled"}

\* Start: a session object, new or resumed.
ExecStart(h, mode) ==
  /\ execCall[h].at = "idle"
  /\ starts < MaxStarts
  /\ entry = 0                       \* Manager.Resume starts no live session
  /\ starts' = starts + 1
  /\ entry' = starts'
  /\ object' = [object EXCEPT ![starts'] = [NoObject EXCEPT !.threadID = thread, !.runMode = mode]]
  /\ UNCHANGED <<turn, thread, execCall, startedTurns>>

\* SendPrompt, Interrupt, Stop and SetMode look the session up.
Finds(h, what) ==
  /\ execCall[h].at = "idle"
  /\ entry # 0
  /\ execCall' = [execCall EXCEPT ![h] = [at |-> what, object |-> entry, cancel |-> NoTurn]]
  /\ UNCHANGED <<entry, object, starts, turn, thread, startedTurns>>

Done(h) == execCall' = [execCall EXCEPT ![h] = NoExecCall]

\* codexExecArgs: the first turn of a thread sets its policy, one that resumes
\* the thread inherits it.
Policy(o) == IF o.threadID = 0 THEN o.runMode
             ELSE turn[CHOOSE t \in Turns : turn[t].nth = o.threadID].policy

\* A Stop has forgotten the object, or is going to without cancelling a turn that
\* starts in it now.
StopCrosses(o) ==
  \/ entry # o
  \/ \E h \in ExecHandlers : \/ execCall[h].at = "forget"
                             \/ execCall[h].at = "stop" /\ execCall[h].object # o

\* Mutant: running is not looked at.
RunTurnAnyway(h, t) ==
  LET c == execCall[h]  o == object[c.object] IN
  /\ c.at = "prompt" /\ turn[t].state = "none"
  /\ object' = [object EXCEPT ![c.object].running = TRUE, ![c.object].cancel = t]
  /\ startedTurns' = startedTurns + 1
  /\ turn' = [turn EXCEPT ![t] = [of |-> c.object, state |-> "live", resumes |-> o.threadID,
                                  policy |-> Policy(o), reports |-> 0, nth |-> startedTurns',
                                  crossed |-> StopCrosses(c.object)]]
  /\ Done(h)
  /\ UNCHANGED <<entry, starts, thread>>

\* runTurn: one at a time.
RunTurn(h, t) ==
  LET c == execCall[h]  o == object[c.object] IN
  /\ c.at = "prompt" /\ turn[t].state = "none"
  /\ ~o.running
  /\ object' = [object EXCEPT ![c.object].running = TRUE, ![c.object].cancel = t]
  /\ startedTurns' = startedTurns + 1
  /\ turn' = [turn EXCEPT ![t] = [of |-> c.object, state |-> "live", resumes |-> o.threadID,
                                  policy |-> Policy(o), reports |-> 0, nth |-> startedTurns',
                                  crossed |-> StopCrosses(c.object)]]
  /\ Done(h)
  /\ UNCHANGED <<entry, starts, thread>>

\* A turn is running, or the process cannot be started.
TurnRefused(h) ==
  /\ execCall[h].at = "prompt"
  /\ Done(h)
  /\ UNCHANGED <<entry, object, starts, turn, thread, startedTurns>>

\* Interrupt reads the turn to cancel and cancels it after the lock.
InterruptReads(h) ==
  LET c == execCall[h] IN
  /\ c.at = "interrupt"
  /\ execCall' = [execCall EXCEPT ![h].at = "cancel", ![h].cancel = object[c.object].cancel]
  /\ UNCHANGED <<entry, object, starts, turn, thread, startedTurns>>

Cancelled(t) == IF t # NoTurn /\ turn[t].state = "live"
                  THEN [turn EXCEPT ![t].state = "cancelled"] ELSE turn

InterruptCancels(h) ==
  /\ execCall[h].at = "cancel"
  /\ turn' = Cancelled(execCall[h].cancel)
  /\ Done(h)
  /\ UNCHANGED <<entry, object, starts, thread, startedTurns>>

\* Mutant: a Stop forgets the session and lets its turn run on.
StopOnlyForgets(h) ==
  /\ execCall[h].at = "stop"
  /\ execCall' = [execCall EXCEPT ![h].at = "forget"]
  /\ UNCHANGED <<entry, object, starts, turn, thread, startedTurns>>

\* Stop cancels the turn and then forgets the session, whichever is in the map.
StopCancels(h) ==
  /\ execCall[h].at = "stop"
  /\ turn' = Cancelled(object[execCall[h].object].cancel)
  /\ execCall' = [execCall EXCEPT ![h].at = "forget"]
  /\ UNCHANGED <<entry, object, starts, thread, startedTurns>>

StopForgets(h) ==
  /\ execCall[h].at = "forget"
  /\ entry' = 0
  /\ Done(h)
  /\ UNCHANGED <<object, starts, turn, thread, startedTurns>>

SetMode(h, mode) ==
  /\ execCall[h].at = "mode"
  /\ object' = [object EXCEPT ![execCall[h].object].runMode = mode]
  /\ Done(h)
  /\ UNCHANGED <<entry, starts, turn, thread, startedTurns>>

(***************************************************************************)
(* The process and the goroutine that drains it.                           *)
(***************************************************************************)
\* thread.started: captureThread, recordAgentSession.  A new thread has the
\* number of its turn; a resumed one is reported again.
Reports(t) == IF turn[t].resumes = 0 THEN turn[t].nth ELSE turn[t].resumes

CaptureThread(t) ==
  /\ Lives(t) /\ turn[t].reports = 0
  /\ turn' = [turn EXCEPT ![t].reports = Reports(t)]
  /\ object' = [object EXCEPT ![turn[t].of].threadID = Reports(t)]
  /\ thread' = Reports(t)
  /\ UNCHANGED <<entry, starts, execCall, startedTurns>>

\* Mutant: the next turn is allowed while the stream is still drained.
TurnEndsEarly(t) ==
  /\ Lives(t) /\ object[turn[t].of].cancel = t
  /\ object' = [object EXCEPT ![turn[t].of].running = FALSE, ![turn[t].of].cancel = NoTurn]
  /\ UNCHANGED <<entry, starts, turn, thread, execCall, startedTurns>>

\* The stream ends, because the turn is over or was killed, and cmd.Wait
\* returns; then running is reset.
TurnEnds(t) ==
  /\ Lives(t)
  /\ turn' = [turn EXCEPT ![t].state = "ended"]
  /\ object' = [object EXCEPT ![turn[t].of].running = FALSE, ![turn[t].of].cancel = NoTurn]
  /\ UNCHANGED <<entry, starts, thread, execCall, startedTurns>>

ExecInit ==
  /\ entry = 0 /\ starts = 0 /\ thread = 0 /\ startedTurns = 0
  /\ object = [o \in Objects |-> NoObject]
  /\ turn = [t \in Turns |-> NoProcess]
  /\ execCall = [h \in ExecHandlers |-> NoExecCall]

ExecNext ==
  \/ \E h \in ExecHandlers :
       \/ \E mode \in Modes : ExecStart(h, mode) \/ SetMode(h, mode)
       \/ \E what \in {"prompt", "interrupt", "stop", "mode"} : Finds(h, what)
       \/ \E t \in Turns : RunTurn(h, t)
       \/ TurnRefused(h)
       \/ InterruptReads(h) \/ InterruptCancels(h)
       \/ StopCancels(h) \/ StopForgets(h)
  \/ \E t \in Turns : CaptureThread(t) \/ TurnEnds(t)

ExecSpec == ExecInit /\ [][ExecNext]_execVars

ExecTypeOK ==
  /\ entry \in 0..starts
  /\ \A t \in Turns : turn[t].of \in 0..starts /\ turn[t].policy \in Modes \cup {"none"}
  /\ \A t \in Turns : turn[t].crossed \in BOOLEAN
  /\ \A o \in Objects : object[o].cancel \in Turns \cup {NoTurn}

\* Each session object has at most one process, and it can be interrupted as
\* long as it runs.
OneTurnAtATime ==
  \A o \in Objects :
    LET live == {t \in Turns : Lives(t) /\ turn[t].of = o} IN
    /\ Cardinality(live) <= 1
    /\ \A t \in live : object[o].running /\ object[o].cancel = t

\* The turns of all the objects that the session has ever had: of those that
\* nobody has cancelled there is one, and Stop and Interrupt reach it, as its
\* object is the one in the map.  Left out is a turn whose prompt a Stop crossed:
\* it runs on unreachable, also beside a turn of the session resumed since.
Current == {t \in Turns : turn[t].state = "live" /\ ~turn[t].crossed}
OneTurnOfTheSession ==
  /\ Cardinality(Current) <= 1
  /\ \A t \in Current : turn[t].of = entry

\* A conversation keeps its context: a turn resumes the thread that the turn
\* before it in the same session object reported.
ContextIsKept ==
  \A t, u \in Turns :
    (/\ turn[t].state # "none" /\ turn[u].state # "none"
     /\ turn[t].of = turn[u].of /\ turn[t].nth < turn[u].nth /\ turn[t].reports # 0)
      => turn[u].resumes = turn[t].reports

\* All three: whatever prompts, interrupts, stops and resumes of several
\* connections do, a session object has one turn after the other of one thread,
\* and the session one turn at a time that is not being killed or unreachable.
ConversationHolds == OneTurnAtATime /\ ContextIsKept /\ OneTurnOfTheSession

\* codex_exec.go:446: SetMode "updates the policy applied to the next exec turn
\* (yolo vs sandboxed)".
ModeApplies ==
  [][\A t \in Turns : (turn[t].state = "none" /\ turn'[t].state = "live") =>
       turn'[t].policy = object[turn'[t].of].runMode]_execVars
=============================================================================
