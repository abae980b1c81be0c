------------------------------ MODULE ActionJobs ------------------------------
(***************************************************************************)
(* The action orchestrator: actions.Manager.Submit, the goroutine that     *)
(* processes a job, Cancel, and the store's action_jobs and                *)
(* action_job_events rows.                                                 *)
(*                                                                         *)
(* No lock covers a job: each read, UPDATE and append is a statement of    *)
(* its own, and a step here.  The rows survive a restart of the agent, the *)
(* goroutines do not.                                                      *)
(***************************************************************************)
EXTENDS Naturals

CONSTANTS
  Jobs,          \* job ids
  Cancellers,    \* handlers of action.cancel frames
  NoJob,         \* what an idle canceller works on
  MaxRestarts    \* bound: restarts of the agent

ASSUME NoJobAssumption == NoJob \notin Jobs
ASSUME RestartsAssumption == MaxRestarts \in Nat

VARIABLES
  status,      \* action_jobs.status, or "none"
  trail,       \* the types of each job's action_job_events
  step,        \* what the job's own goroutine does next
  result,      \* what its planner returned
  notified,    \* the completion notifications of each job
  cstep,       \* each canceller: "idle", "writing", "reporting"
  on,          \* the job it cancels
  early,       \* history: the jobs cancelled before their goroutine had looked at them
  restarts

vars == <<status, trail, step, result, notified, cstep, on, early, restarts>>

Results == {"observed", "needs_target", "invalid"}
Terminal(s) == s \in {"observed", "needs_target", "failed", "cancelled"}

Goes(j, s) == step' = [step EXCEPT ![j] = s]
Writes(j, s) == status' = [status EXCEPT ![j] = s]
Appends(j, type) == trail' = [trail EXCEPT ![j] = @ \cup {type}]

-----------------------------------------------------------------------------
(* Submit and process *)

Submit(j) ==
  /\ status[j] = "none"
  /\ Writes(j, "submitted")
  /\ Goes(j, "created")
  /\ UNCHANGED <<trail, result, notified, cstep, on, early, restarts>>

\* The submitted event, then a goroutine of its own.
Dispatch(j) ==
  /\ step[j] = "created"
  /\ Appends(j, "submitted")
  /\ Goes(j, "queued")
  /\ UNCHANGED <<status, result, notified, cstep, on, early, restarts>>

\* Mutant: a job cancelled in the queue is planned all the same.
BeginAnyway(j) ==
  /\ step[j] = "queued"
  /\ Goes(j, "starting")
  /\ UNCHANGED <<status, trail, result, notified, cstep, on, early, restarts>>

\* GetActionJob: a terminal job is left alone.
Begin(j) ==
  /\ step[j] = "queued"
  /\ Goes(j, IF Terminal(status[j]) THEN "done" ELSE "starting")
  /\ UNCHANGED <<status, trail, result, notified, cstep, on, early, restarts>>

ToPlanning(j) ==
  /\ step[j] = "starting"
  /\ Writes(j, "planning")
  /\ Goes(j, "announcing")
  /\ UNCHANGED <<trail, result, notified, cstep, on, early, restarts>>

AnnouncePlanning(j) ==
  /\ step[j] = "announcing"
  /\ Appends(j, "planning")
  /\ Goes(j, "planning")
  /\ UNCHANGED <<status, result, notified, cstep, on, early, restarts>>

\* Mutant: a planner error just ends the goroutine.
PlanFailsQuietly(j) ==
  /\ step[j] = "planning"
  /\ Goes(j, "done")
  /\ UNCHANGED <<status, trail, result, notified, cstep, on, early, restarts>>

\* Planner.Plan returns an error ...
PlanFails(j) ==
  /\ step[j] = "planning"
  /\ Goes(j, "failing")
  /\ UNCHANGED <<status, trail, result, notified, cstep, on, early, restarts>>

\* ... or a result, whose events are appended.
PlanReturns(j, r) ==
  /\ step[j] = "planning"
  /\ result' = [result EXCEPT ![j] = r]
  /\ Appends(j, "observation")
  /\ Goes(j, "planned")
  /\ UNCHANGED <<status, notified, cstep, on, early, restarts>>

\* "Re-check for a concurrent cancel before writing the terminal state."
Recheck(j) ==
  /\ step[j] = "planned"
  /\ Goes(j, IF status[j] = "cancelled" THEN "done"
             ELSE IF result[j] = "invalid" THEN "failing" ELSE "finishing")
  /\ UNCHANGED <<status, trail, result, notified, cstep, on, early, restarts>>

Finish(j) ==
  /\ step[j] = "finishing"
  /\ Writes(j, result[j])
  /\ Goes(j, "reporting")
  /\ UNCHANGED <<trail, result, notified, cstep, on, early, restarts>>

Report(j) ==
  /\ step[j] = "reporting"
  /\ Appends(j, result[j])
  /\ Goes(j, "notifying")
  /\ UNCHANGED <<status, result, notified, cstep, on, early, restarts>>

Notify(j) ==
  /\ step[j] = "notifying"
  /\ notified' = [notified EXCEPT ![j] = @ + 1]
  /\ Goes(j, "done")
  /\ UNCHANGED <<status, trail, result, cstep, on, early, restarts>>

\* fail: the same two writes, no notification, and no check for a cancel.
Fail(j) ==
  /\ step[j] = "failing"
  /\ Writes(j, "failed")
  /\ Goes(j, "failed")
  /\ UNCHANGED <<trail, result, notified, cstep, on, early, restarts>>

\* Mutants: a failure without its event, or with a notification.
ReportFailureSilently(j) ==
  /\ step[j] = "failed"
  /\ Goes(j, "done")
  /\ UNCHANGED <<status, trail, result, notified, cstep, on, early, restarts>>

ReportFailureAndNotify(j) ==
  /\ step[j] = "failed"
  /\ Appends(j, "failed")
  /\ Goes(j, "notifying")
  /\ UNCHANGED <<status, result, notified, cstep, on, early, restarts>>

ReportFailure(j) ==
  /\ step[j] = "failed"
  /\ Appends(j, "failed")
  /\ Goes(j, "done")
  /\ UNCHANGED <<status, result, notified, cstep, on, early, restarts>>

JobStep(j) ==
  \/ Dispatch(j) \/ Begin(j) \/ ToPlanning(j) \/ AnnouncePlanning(j)
  \/ PlanFails(j) \/ (\E r \in Results : PlanReturns(j, r))
  \/ Recheck(j) \/ Finish(j) \/ Report(j) \/ Notify(j) \/ Fail(j) \/ ReportFailure(j)

-----------------------------------------------------------------------------
(* Cancel and restart *)

\* Cancel reads the row; a terminal job is a no-op.
CancelRead(c, j) ==
  /\ cstep[c] = "idle"
  /\ status[j] # "none" /\ ~Terminal(status[j])
  /\ cstep' = [cstep EXCEPT ![c] = "writing"]
  /\ on' = [on EXCEPT ![c] = j]
  /\ UNCHANGED <<status, trail, step, result, notified, early, restarts>>

CancelWrite(c) ==
  /\ cstep[c] = "writing"
  /\ Writes(on[c], "cancelled")
  /\ early' = IF step[on[c]] \in {"created", "queued"} THEN early \cup {on[c]} ELSE early
  /\ cstep' = [cstep EXCEPT ![c] = "reporting"]
  /\ UNCHANGED <<trail, step, result, notified, on, restarts>>

CancelReport(c) ==
  /\ cstep[c] = "reporting"
  /\ Appends(on[c], "cancelled")
  /\ cstep' = [cstep EXCEPT ![c] = "idle"]
  /\ on' = [on EXCEPT ![c] = NoJob]
  /\ UNCHANGED <<status, step, result, notified, early, restarts>>

CancelStep(c) == CancelWrite(c) \/ CancelReport(c)

\* Goroutines and handlers are gone; nothing picks the jobs up again.
Restart ==
  /\ restarts < MaxRestarts
  /\ restarts' = restarts + 1
  /\ step' = [j \in Jobs |-> IF step[j] = "none" THEN "none" ELSE "done"]
  /\ cstep' = [c \in Cancellers |-> "idle"]
  /\ on' = [c \in Cancellers |-> NoJob]
  /\ UNCHANGED <<status, trail, result, notified, early>>

Init ==
  /\ status = [j \in Jobs |-> "none"]
  /\ trail = [j \in Jobs |-> {}]
  /\ step = [j \in Jobs |-> "none"]
  /\ result = [j \in Jobs |-> "invalid"]
  /\ notified = [j \in Jobs |-> 0]
  /\ cstep = [c \in Cancellers |-> "idle"]
  /\ on = [c \in Cancellers |-> NoJob]
  /\ early = {}
  /\ restarts = 0

Next ==
  \/ \E j \in Jobs : Submit(j) \/ JobStep(j)
  \/ \E c \in Cancellers : CancelStep(c) \/ \E j \in Jobs : CancelRead(c, j)
  \/ Restart

\* The job's goroutine runs, its planner returns, a handler finishes.
Fairness ==
  /\ \A j \in Jobs : WF_vars(JobStep(j))
  /\ \A c \in Cancellers : WF_vars(CancelStep(c))

Spec == Init /\ [][Next]_vars
FairSpec == Spec /\ Fairness

-----------------------------------------------------------------------------
(* Properties *)

JobSteps == {"none", "created", "queued", "starting", "announcing", "planning", "planned", "finishing",
             "reporting", "notifying", "failing", "failed", "done"}
EventTypes == {"submitted", "planning", "observation", "observed", "needs_target", "failed", "cancelled"}

\* Types of the variables.
TypeOK ==
  /\ status \in [Jobs -> {"none", "submitted", "planning", "observed", "needs_target", "failed", "cancelled"}]
  /\ trail \in [Jobs -> SUBSET EventTypes]
  /\ step \in [Jobs -> JobSteps]
  /\ result \in [Jobs -> Results]
  /\ notified \in [Jobs -> Nat]
  /\ cstep \in [Cancellers -> {"idle", "writing", "reporting"}]
  /\ on \in [Cancellers -> Jobs \cup {NoJob}]
  /\ early \subseteq Jobs
  /\ restarts \in Nat

\* A job whose cancel was written before its goroutine looked at it is never
\* planned, reported or notified, whoever else cancels it.
EarlyCancelWins ==
  \A j \in early :
    status[j] = "cancelled" /\ trail[j] \subseteq {"submitted", "cancelled"} /\ notified[j] = 0

\* "append-only evidence/lifecycle trail": what the row says has its event,
\* unless whoever wrote it is about to append it or was cut off by a restart.
TrailExplainsStatus ==
  \A j \in Jobs : restarts = 0 /\ status[j] # "none" =>
    \/ status[j] \in trail[j]
    \/ step[j] \in {"created", "announcing", "reporting", "failed"}
    \/ \E c \in Cancellers : on[c] = j /\ cstep[c] = "reporting"

\* "a single completion notification", and only for an outcome that is in the
\* trail; a job that failed has none.
NotifiedOnce ==
  \A j \in Jobs : notified[j] > 0 =>
    notified[j] = 1 /\ result[j] \in trail[j] /\ "failed" \notin trail[j]

\* The three of them: whatever Submit's goroutine and Cancel's handlers do to one
\* job, a cancel in time is kept, the trail accounts for the row and the phone
\* hears of an outcome once.
JobsAreHonest == EarlyCancelWins /\ TrailExplainsStatus /\ NotifiedOnce

\* "terminal reports whether a status is final and cannot transition further."
TerminalIsFinal ==
  [][\A j \in Jobs : Terminal(status[j]) => status'[j] = status[j]]_vars

\* A submitted job reaches a terminal status, on every path of process and
\* whatever Cancel does meanwhile, unless the agent is restarted.
JobsFinish ==
  \A j \in Jobs : status[j] = "submitted" ~> (Terminal(status[j]) \/ restarts > 0)

\* "Jobs are durable so the orchestrator survives an agent restart": restarted
\* or not.
JobsSurviveRestart == \A j \in Jobs : status[j] = "submitted" ~> Terminal(status[j])

=============================================================================
