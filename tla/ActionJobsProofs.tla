---------------------------- MODULE ActionJobsProofs ----------------------------
(***************************************************************************)
(* Proofs about ActionJobs, for any number of jobs, cancellers and         *)
(* restarts.                                                               *)
(*                                                                         *)
(* The job's goroutine and the cancellers write the row and append to the  *)
(* trail in steps of their own.  The invariant says, for every status, who *)
(* owes its event (OwedInv), and what a job that has got so far can have   *)
(* in its trail (StepInv).                                                 *)
(***************************************************************************)
EXTENDS ActionJobs, TLAPS

-----------------------------------------------------------------------------
(* The inductive invariant *)

\* A canceller at work has a job, and only jobs that were submitted have a
\* goroutine or are cancelled.
WorkInv ==
  /\ \A j \in Jobs : status[j] = "none" <=> step[j] = "none"
  /\ \A c \in Cancellers : cstep[c] # "idle" => on[c] \in Jobs /\ status[on[c]] # "none"

\* What the trail and the notifications of a job can be where its goroutine is.
StepInv ==
  \A j \in Jobs :
    /\ step[j] \in {"none", "created", "queued"} => trail[j] \subseteq {"submitted", "cancelled"}
    /\ step[j] \in {"finishing", "reporting", "notifying"} => result[j] # "invalid"
    /\ step[j] = "reporting" => status[j] \in {result[j], "cancelled"}
    /\ step[j] = "notifying" => result[j] \in trail[j]
    /\ step[j] # "done" => notified[j] = 0 /\ "failed" \notin trail[j]

\* A job that was cancelled in time never gets past the queue.
EarlyInv == \A j \in early : step[j] \in {"created", "queued", "done"}

\* Until a restart, the status is in the trail, or whoever wrote it is about
\* to append it.
OwedInv ==
  restarts = 0 =>
    \A j \in Jobs :
      \/ status[j] \in trail[j] \cup {"none"}
      \/ status[j] = "submitted" /\ step[j] = "created"
      \/ status[j] = "planning" /\ step[j] = "announcing"
      \/ status[j] = "failed" /\ step[j] = "failed"
      \/ status[j] = result[j] /\ step[j] = "reporting"
      \/ status[j] = "cancelled" /\ \E c \in Cancellers : on[c] = j /\ cstep[c] = "reporting"

IInv == TypeOK /\ WorkInv /\ StepInv /\ EarlyInv /\ EarlyCancelWins /\ OwedInv /\ NotifiedOnce

USE NoJobAssumption

-----------------------------------------------------------------------------
(* One lemma per action *)

LEMMA SubmitStep ==
  ASSUME IInv, NEW j \in Jobs, Submit(j)
  PROVE  IInv'
<1> USE DEF IInv, Submit, Goes, Writes
<1>1. TypeOK'
  BY DEF Results, JobSteps, EventTypes, TypeOK, WorkInv, StepInv
<1>2. WorkInv'
  BY DEF Results, TypeOK, WorkInv, StepInv, EarlyCancelWins
<1>3. StepInv'
  BY DEF Results, TypeOK, WorkInv, StepInv
<1>4. EarlyInv'
  BY DEF TypeOK, WorkInv, EarlyInv, EarlyCancelWins, Terminal
<1>5. EarlyCancelWins'
  BY DEF TypeOK, WorkInv, StepInv, EarlyInv, EarlyCancelWins
<1>6. OwedInv'
  BY DEF Results, TypeOK, WorkInv, StepInv, OwedInv
<1>7. NotifiedOnce'
  BY DEF Results, TypeOK, WorkInv, StepInv, NotifiedOnce
<1>8. QED BY <1>1, <1>2, <1>3, <1>4, <1>5, <1>6, <1>7

LEMMA DispatchStep ==
  ASSUME IInv, NEW j \in Jobs, Dispatch(j)
  PROVE  IInv'
<1> USE DEF IInv, Dispatch, Goes, Appends
<1>1. TypeOK'
  BY DEF Results, JobSteps, EventTypes, TypeOK, WorkInv, StepInv
<1>2. WorkInv'
  BY DEF Results, TypeOK, WorkInv, StepInv, EarlyCancelWins
<1>3. StepInv'
  BY DEF Results, TypeOK, WorkInv, StepInv
<1>4. EarlyInv'
  BY DEF TypeOK, WorkInv, EarlyInv, EarlyCancelWins, Terminal
<1>5. EarlyCancelWins'
  BY DEF TypeOK, WorkInv, StepInv, EarlyInv, EarlyCancelWins
<1>6. OwedInv'
  BY DEF Results, TypeOK, WorkInv, StepInv, OwedInv
<1>7. NotifiedOnce'
  BY DEF Results, TypeOK, WorkInv, StepInv, NotifiedOnce
<1>8. QED BY <1>1, <1>2, <1>3, <1>4, <1>5, <1>6, <1>7

LEMMA BeginStep ==
  ASSUME IInv, NEW j \in Jobs, Begin(j)
  PROVE  IInv'
<1> USE DEF IInv, Begin, Goes
<1>1. TypeOK'
  BY DEF Results, JobSteps, EventTypes, TypeOK, WorkInv, StepInv
<1>2. WorkInv'
  BY DEF Results, TypeOK, WorkInv, StepInv, EarlyCancelWins
<1>3. StepInv'
  BY DEF Results, TypeOK, WorkInv, StepInv
<1>4. EarlyInv'
  BY DEF TypeOK, WorkInv, EarlyInv, EarlyCancelWins, Terminal
<1>5. EarlyCancelWins'
  BY DEF TypeOK, WorkInv, StepInv, EarlyInv, EarlyCancelWins
<1>6. OwedInv'
  BY DEF Results, TypeOK, WorkInv, StepInv, OwedInv
<1>7. NotifiedOnce'
  BY DEF Results, TypeOK, WorkInv, StepInv, NotifiedOnce
<1>8. QED BY <1>1, <1>2, <1>3, <1>4, <1>5, <1>6, <1>7

LEMMA ToPlanningStep ==
  ASSUME IInv, NEW j \in Jobs, ToPlanning(j)
  PROVE  IInv'
<1> USE DEF IInv, ToPlanning, Goes, Writes
<1>1. TypeOK'
  BY DEF Results, JobSteps, EventTypes, TypeOK, WorkInv, StepInv
<1>2. WorkInv'
  BY DEF Results, TypeOK, WorkInv, StepInv, EarlyCancelWins
<1>3. StepInv'
  BY DEF Results, TypeOK, WorkInv, StepInv
<1>4. EarlyInv'
  BY DEF TypeOK, WorkInv, EarlyInv, EarlyCancelWins, Terminal
<1>5. EarlyCancelWins'
  BY DEF TypeOK, WorkInv, StepInv, EarlyInv, EarlyCancelWins
<1>6. OwedInv'
  BY DEF Results, TypeOK, WorkInv, StepInv, OwedInv
<1>7. NotifiedOnce'
  BY DEF Results, TypeOK, WorkInv, StepInv, NotifiedOnce
<1>8. QED BY <1>1, <1>2, <1>3, <1>4, <1>5, <1>6, <1>7

LEMMA AnnouncePlanningStep ==
  ASSUME IInv, NEW j \in Jobs, AnnouncePlanning(j)
  PROVE  IInv'
<1> USE DEF IInv, AnnouncePlanning, Goes, Appends
<1>1. TypeOK'
  BY DEF Results, JobSteps, EventTypes, TypeOK, WorkInv, StepInv
<1>2. WorkInv'
  BY DEF Results, TypeOK, WorkInv, StepInv, EarlyCancelWins
<1>3. StepInv'
  BY DEF Results, TypeOK, WorkInv, StepInv
<1>4. EarlyInv'
  BY DEF TypeOK, WorkInv, EarlyInv, EarlyCancelWins, Terminal
<1>5. EarlyCancelWins'
  BY DEF TypeOK, WorkInv, StepInv, EarlyInv, EarlyCancelWins
<1>6. OwedInv'
  BY DEF Results, TypeOK, WorkInv, StepInv, OwedInv
<1>7. NotifiedOnce'
  BY DEF Results, TypeOK, WorkInv, StepInv, NotifiedOnce
<1>8. QED BY <1>1, <1>2, <1>3, <1>4, <1>5, <1>6, <1>7

LEMMA PlanFailsStep ==
  ASSUME IInv, NEW j \in Jobs, PlanFails(j)
  PROVE  IInv'
<1> USE DEF IInv, PlanFails, Goes
<1>1. TypeOK'
  BY DEF Results, JobSteps, EventTypes, TypeOK, WorkInv, StepInv
<1>2. WorkInv'
  BY DEF Results, TypeOK, WorkInv, StepInv, EarlyCancelWins
<1>3. StepInv'
  BY DEF Results, TypeOK, WorkInv, StepInv
<1>4. EarlyInv'
  BY DEF TypeOK, WorkInv, EarlyInv, EarlyCancelWins, Terminal
<1>5. EarlyCancelWins'
  BY DEF TypeOK, WorkInv, StepInv, EarlyInv, EarlyCancelWins
<1>6. OwedInv'
  BY DEF Results, TypeOK, WorkInv, StepInv, OwedInv
<1>7. NotifiedOnce'
  BY DEF Results, TypeOK, WorkInv, StepInv, NotifiedOnce
<1>8. QED BY <1>1, <1>2, <1>3, <1>4, <1>5, <1>6, <1>7

LEMMA PlanReturnsStep ==
  ASSUME IInv, NEW j \in Jobs, NEW r \in Results, PlanReturns(j, r)
  PROVE  IInv'
<1> USE DEF IInv, PlanReturns, Goes, Appends
<1>1. TypeOK'
  BY DEF Results, JobSteps, EventTypes, TypeOK, WorkInv, StepInv
<1>2. WorkInv'
  BY DEF Results, TypeOK, WorkInv, StepInv, EarlyCancelWins
<1>3. StepInv'
  BY DEF Results, TypeOK, WorkInv, StepInv
<1>4. EarlyInv'
  BY DEF TypeOK, WorkInv, EarlyInv, EarlyCancelWins, Terminal
<1>5. EarlyCancelWins'
  BY DEF TypeOK, WorkInv, StepInv, EarlyInv, EarlyCancelWins
<1>6. OwedInv'
  BY DEF Results, TypeOK, WorkInv, StepInv, OwedInv
<1>7. NotifiedOnce'
  BY DEF Results, TypeOK, WorkInv, StepInv, NotifiedOnce
<1>8. QED BY <1>1, <1>2, <1>3, <1>4, <1>5, <1>6, <1>7

LEMMA RecheckStep ==
  ASSUME IInv, NEW j \in Jobs, Recheck(j)
  PROVE  IInv'
<1> USE DEF IInv, Recheck, Goes
<1>1. TypeOK'
  BY DEF Results, JobSteps, EventTypes, TypeOK, WorkInv, StepInv
<1>2. WorkInv'
  BY DEF Results, TypeOK, WorkInv, StepInv, EarlyCancelWins
<1>3. StepInv'
  BY DEF Results, TypeOK, WorkInv, StepInv
<1>4. EarlyInv'
  BY DEF TypeOK, WorkInv, EarlyInv, EarlyCancelWins, Terminal
<1>5. EarlyCancelWins'
  BY DEF TypeOK, WorkInv, StepInv, EarlyInv, EarlyCancelWins
<1>6. OwedInv'
  BY DEF Results, TypeOK, WorkInv, StepInv, OwedInv
<1>7. NotifiedOnce'
  BY DEF Results, TypeOK, WorkInv, StepInv, NotifiedOnce
<1>8. QED BY <1>1, <1>2, <1>3, <1>4, <1>5, <1>6, <1>7

LEMMA FinishStep ==
  ASSUME IInv, NEW j \in Jobs, Finish(j)
  PROVE  IInv'
<1> USE DEF IInv, Finish, Goes, Writes
<1>1. TypeOK'
  BY DEF Results, JobSteps, EventTypes, TypeOK, WorkInv, StepInv
<1>2. WorkInv'
  BY DEF Results, TypeOK, WorkInv, StepInv, EarlyCancelWins
<1>3. StepInv'
  BY DEF Results, TypeOK, WorkInv, StepInv
<1>4. EarlyInv'
  BY DEF TypeOK, WorkInv, EarlyInv, EarlyCancelWins, Terminal
<1>5. EarlyCancelWins'
  BY DEF TypeOK, WorkInv, StepInv, EarlyInv, EarlyCancelWins
<1>6. OwedInv'
  BY DEF Results, TypeOK, WorkInv, StepInv, OwedInv
<1>7. NotifiedOnce'
  BY DEF Results, TypeOK, WorkInv, StepInv, NotifiedOnce
<1>8. QED BY <1>1, <1>2, <1>3, <1>4, <1>5, <1>6, <1>7

LEMMA ReportStep ==
  ASSUME IInv, NEW j \in Jobs, Report(j)
  PROVE  IInv'
<1> USE DEF IInv, Report, Goes, Appends
<1>1. TypeOK'
  BY DEF Results, JobSteps, EventTypes, TypeOK, WorkInv, StepInv
<1>2. WorkInv'
  BY DEF Results, TypeOK, WorkInv, StepInv, EarlyCancelWins
<1>3. StepInv'
  BY DEF Results, TypeOK, WorkInv, StepInv
<1>4. EarlyInv'
  BY DEF TypeOK, WorkInv, EarlyInv, EarlyCancelWins, Terminal
<1>5. EarlyCancelWins'
  BY DEF TypeOK, WorkInv, StepInv, EarlyInv, EarlyCancelWins
<1>6. OwedInv'
  BY DEF Results, TypeOK, WorkInv, StepInv, OwedInv
<1>7. NotifiedOnce'
  BY DEF Results, TypeOK, WorkInv, StepInv, NotifiedOnce
<1>8. QED BY <1>1, <1>2, <1>3, <1>4, <1>5, <1>6, <1>7

LEMMA NotifyStep ==
  ASSUME IInv, NEW j \in Jobs, Notify(j)
  PROVE  IInv'
<1> USE DEF IInv, Notify, Goes
<1>1. TypeOK'
  BY DEF Results, JobSteps, EventTypes, TypeOK, WorkInv, StepInv
<1>2. WorkInv'
  BY DEF Results, TypeOK, WorkInv, StepInv, EarlyCancelWins
<1>3. StepInv'
  BY DEF Results, TypeOK, WorkInv, StepInv
<1>4. EarlyInv'
  BY DEF TypeOK, WorkInv, EarlyInv, EarlyCancelWins, Terminal
<1>5. EarlyCancelWins'
  BY DEF TypeOK, WorkInv, StepInv, EarlyInv, EarlyCancelWins
<1>6. OwedInv'
  BY DEF Results, TypeOK, WorkInv, StepInv, OwedInv
<1>7. NotifiedOnce'
  BY DEF Results, TypeOK, WorkInv, StepInv, NotifiedOnce
<1>8. QED BY <1>1, <1>2, <1>3, <1>4, <1>5, <1>6, <1>7

LEMMA FailStep ==
  ASSUME IInv, NEW j \in Jobs, Fail(j)
  PROVE  IInv'
<1> USE DEF IInv, Fail, Goes, Writes
<1>1. TypeOK'
  BY DEF Results, JobSteps, EventTypes, TypeOK, WorkInv, StepInv
<1>2. WorkInv'
  BY DEF Results, TypeOK, WorkInv, StepInv, EarlyCancelWins
<1>3. StepInv'
  BY DEF Results, TypeOK, WorkInv, StepInv
<1>4. EarlyInv'
  BY DEF TypeOK, WorkInv, EarlyInv, EarlyCancelWins, Terminal
<1>5. EarlyCancelWins'
  BY DEF TypeOK, WorkInv, StepInv, EarlyInv, EarlyCancelWins
<1>6. OwedInv'
  BY DEF Results, TypeOK, WorkInv, StepInv, OwedInv
<1>7. NotifiedOnce'
  BY DEF Results, TypeOK, WorkInv, StepInv, NotifiedOnce
<1>8. QED BY <1>1, <1>2, <1>3, <1>4, <1>5, <1>6, <1>7

LEMMA ReportFailureStep ==
  ASSUME IInv, NEW j \in Jobs, ReportFailure(j)
  PROVE  IInv'
<1> USE DEF IInv, ReportFailure, Goes, Appends
<1>1. TypeOK'
  BY DEF Results, JobSteps, EventTypes, TypeOK, WorkInv, StepInv
<1>2. WorkInv'
  BY DEF Results, TypeOK, WorkInv, StepInv, EarlyCancelWins
<1>3. StepInv'
  BY DEF Results, TypeOK, WorkInv, StepInv
<1>4. EarlyInv'
  BY DEF TypeOK, WorkInv, EarlyInv, EarlyCancelWins, Terminal
<1>5. EarlyCancelWins'
  BY DEF TypeOK, WorkInv, StepInv, EarlyInv, EarlyCancelWins
<1>6. OwedInv'
  BY DEF Results, TypeOK, WorkInv, StepInv, OwedInv
<1>7. NotifiedOnce'
  BY DEF Results, TypeOK, WorkInv, StepInv, NotifiedOnce
<1>8. QED BY <1>1, <1>2, <1>3, <1>4, <1>5, <1>6, <1>7

LEMMA CancelReadStep ==
  ASSUME IInv, NEW c \in Cancellers, NEW j \in Jobs, CancelRead(c, j)
  PROVE  IInv'
<1> USE DEF IInv, CancelRead
<1>1. TypeOK'
  BY DEF Results, JobSteps, EventTypes, TypeOK, WorkInv, StepInv
<1>2. WorkInv'
  BY DEF Results, TypeOK, WorkInv, StepInv, EarlyCancelWins
<1>3. StepInv'
  BY DEF Results, TypeOK, WorkInv, StepInv
<1>4. EarlyInv'
  BY DEF TypeOK, WorkInv, EarlyInv, EarlyCancelWins, Terminal
<1>5. EarlyCancelWins'
  BY DEF TypeOK, WorkInv, StepInv, EarlyInv, EarlyCancelWins
<1>6. OwedInv'
  BY DEF Results, TypeOK, WorkInv, StepInv, OwedInv
<1>7. NotifiedOnce'
  BY DEF Results, TypeOK, WorkInv, StepInv, NotifiedOnce
<1>8. QED BY <1>1, <1>2, <1>3, <1>4, <1>5, <1>6, <1>7

LEMMA CancelWriteStep ==
  ASSUME IInv, NEW c \in Cancellers, CancelWrite(c)
  PROVE  IInv'
<1> USE DEF IInv, CancelWrite, Writes
<1>1. TypeOK'
  BY DEF Results, JobSteps, EventTypes, TypeOK, WorkInv, StepInv
<1>2. WorkInv'
  BY DEF Results, TypeOK, WorkInv, StepInv, EarlyCancelWins
<1>3. StepInv'
  BY DEF Results, TypeOK, WorkInv, StepInv
<1>4. EarlyInv'
  BY DEF TypeOK, WorkInv, EarlyInv, EarlyCancelWins, Terminal
<1>5. EarlyCancelWins'
  BY DEF TypeOK, WorkInv, StepInv, EarlyInv, EarlyCancelWins
<1>6. OwedInv'
  BY DEF Results, TypeOK, WorkInv, StepInv, OwedInv
<1>7. NotifiedOnce'
  BY DEF Results, TypeOK, WorkInv, StepInv, NotifiedOnce
<1>8. QED BY <1>1, <1>2, <1>3, <1>4, <1>5, <1>6, <1>7

LEMMA CancelReportStep ==
  ASSUME IInv, NEW c \in Cancellers, CancelReport(c)
  PROVE  IInv'
<1> USE DEF IInv, CancelReport, Appends
<1>1. TypeOK'
  BY DEF Results, JobSteps, EventTypes, TypeOK, WorkInv, StepInv
<1>2. WorkInv'
  BY DEF Results, TypeOK, WorkInv, StepInv, EarlyCancelWins
<1>3. StepInv'
  BY DEF Results, TypeOK, WorkInv, StepInv
<1>4. EarlyInv'
  BY DEF TypeOK, WorkInv, EarlyInv, EarlyCancelWins, Terminal
<1>5. EarlyCancelWins'
  BY DEF TypeOK, WorkInv, StepInv, EarlyInv, EarlyCancelWins
<1>6. OwedInv'
  BY DEF Results, TypeOK, WorkInv, StepInv, OwedInv
<1>7. NotifiedOnce'
  BY DEF Results, TypeOK, WorkInv, StepInv, NotifiedOnce
<1>8. QED BY <1>1, <1>2, <1>3, <1>4, <1>5, <1>6, <1>7

LEMMA RestartStep ==
  ASSUME IInv, Restart
  PROVE  IInv'
<1> USE DEF IInv, Restart
<1>1. TypeOK'
  BY DEF Results, JobSteps, EventTypes, TypeOK, WorkInv, StepInv
<1>2. WorkInv'
  BY DEF Results, TypeOK, WorkInv, StepInv, EarlyCancelWins
<1>3. StepInv'
  BY DEF Results, TypeOK, WorkInv, StepInv
<1>4. EarlyInv'
  BY DEF TypeOK, WorkInv, EarlyInv, EarlyCancelWins, Terminal
<1>5. EarlyCancelWins'
  BY DEF TypeOK, WorkInv, StepInv, EarlyInv, EarlyCancelWins
<1>6. OwedInv'
  BY DEF Results, TypeOK, WorkInv, StepInv, OwedInv
<1>7. NotifiedOnce'
  BY DEF Results, TypeOK, WorkInv, StepInv, NotifiedOnce
<1>8. QED BY <1>1, <1>2, <1>3, <1>4, <1>5, <1>6, <1>7

-----------------------------------------------------------------------------
LEMMA InitIInv == Init => IInv
  BY DEF Init, IInv, TypeOK, WorkInv, StepInv, EarlyInv, EarlyCancelWins, OwedInv, NotifiedOnce,
         JobSteps, Results

LEMMA NextIInv == IInv /\ [Next]_vars => IInv'
<1> SUFFICES ASSUME IInv, [Next]_vars PROVE IInv'
  OBVIOUS
<1>1. ASSUME NEW j \in Jobs, Submit(j) \/ JobStep(j) PROVE IInv'
  BY <1>1, SubmitStep, DispatchStep, BeginStep, ToPlanningStep, AnnouncePlanningStep, PlanFailsStep,
     PlanReturnsStep, RecheckStep, FinishStep, ReportStep, NotifyStep, FailStep, ReportFailureStep
     DEF JobStep
<1>2. ASSUME NEW c \in Cancellers, CancelStep(c) \/ \E j \in Jobs : CancelRead(c, j) PROVE IInv'
  BY <1>2, CancelReadStep, CancelWriteStep, CancelReportStep DEF CancelStep
<1>3. CASE Restart
  BY <1>3, RestartStep
<1>4. CASE UNCHANGED vars
  BY <1>4 DEF IInv, TypeOK, WorkInv, StepInv, EarlyInv, EarlyCancelWins, OwedInv, NotifiedOnce, vars
<1>5. QED BY <1>1, <1>2, <1>3, <1>4 DEF Next

-----------------------------------------------------------------------------
(* The theorems *)

THEOREM Invariant == Spec => []IInv
  BY InitIInv, NextIInv, PTL DEF Spec

\* Every variable keeps its type, in every step of goroutines and cancellers.
THEOREM TypeCorrect == Spec => []TypeOK
<1>1. IInv => TypeOK
  BY DEF IInv
<1>2. QED BY Invariant, <1>1, PTL

\* A job cancelled before its goroutine looked at it is never planned, reported
\* or notified.
THEOREM EarlyCancels == Spec => []EarlyCancelWins
<1>1. IInv => EarlyCancelWins
  BY DEF IInv
<1>2. QED BY Invariant, <1>1, PTL

\* As long as the agent runs, the row of a job never tells more than its trail
\* and those about to append to it.
THEOREM TrailExplains == Spec => []TrailExplainsStatus
<1>1. ASSUME IInv PROVE TrailExplainsStatus
  BY <1>1 DEF IInv, TypeOK, OwedInv, TrailExplainsStatus
<1>2. QED BY Invariant, <1>1, PTL

\* One notification at most, after the event of the outcome, and none for a
\* failure.
THEOREM NotifiesOnce == Spec => []NotifiedOnce
<1>1. IInv => NotifiedOnce
  BY DEF IInv
<1>2. QED BY Invariant, <1>1, PTL

\* The three together, which run "liveness" checks.
THEOREM JobsStayHonest == Spec => []JobsAreHonest
  BY EarlyCancels, TrailExplains, NotifiesOnce, PTL DEF JobsAreHonest
=============================================================================
