--------------------------- MODULE ProposalApproval ---------------------------
(***************************************************************************)
(* AI-proposed actions: the queue of aiproposal.Manager and the server's   *)
(* infra.proposal.* handlers, over the confirmation tokens.                *)
(*                                                                         *)
(* A Caller is one handler goroutine: an approval, a decline, or a         *)
(* human-initiated call that consumes a token for an action of its own.    *)
(* Its steps are the manager calls, database calls and host mutations it   *)
(* makes, in order.  Proposals live in memory, token and audit rows in the *)
(* store: a restart forgets the former only.                               *)
(***************************************************************************)
EXTENDS ConfirmationTokens

CONSTANTS
  Proposals,     \* proposal ids: random, never used again
  NoProposal,    \* what a handler that serves no proposal works on
  HashOf,        \* the action hash each proposal binds its token to
  MaxRestarts    \* bound: restarts of the agent

ASSUME ProposalsAssumption == NoProposal \notin Proposals
ASSUME HashOfAssumption == HashOf \in [Proposals -> Hashes]
ASSUME RestartsAssumption == MaxRestarts \in Nat

VARIABLES
  status,      \* each proposal: "none", then its Status, or "lost" by a restart
  job,         \* the proposal each handler works on
  audit,       \* audit_log: the <<proposal, outcome>> rows of actor ai-proposed
  runs,        \* history: the <<proposal, token>> pairs whose action ran, in order
  restarts

vars == <<tokenVars, status, job, audit, runs, restarts>>

\* Mutant: a claimed proposal cannot be resolved.
OpenWhilePending(p) == status[p] = "pending"

Open(p) == status[p] \in {"pending", "executing"}
ByHuman(c) == job[c] = NoProposal       \* a human-initiated call

\* Handler c goes on to step s.
Goes(c, s) == pc' = [pc EXCEPT ![c] = s]
Audits(p, outcome) == audit' = audit \cup {<<p, outcome>>}

\* Resolve: a terminal status for a proposal still open, else an error.
Resolve(p, outcome) ==
  status' = IF Open(p) THEN [status EXCEPT ![p] = outcome] ELSE status

\* The handler of a proposal is over.
Ends(c) == Returns(c) /\ job' = [job EXCEPT ![c] = NoProposal]

-----------------------------------------------------------------------------
(* infra.proposal.create, decline *)

Create(p) ==
  /\ status[p] = "none"
  /\ status' = [status EXCEPT ![p] = "pending"]
  /\ UNCHANGED <<tokenVars, job, audit, runs, restarts>>

\* The decline handler writes its audit row first, whatever the status and
\* even for a proposal that is no longer there.
DeclineAudit(c, p) ==
  /\ pc[c] = "idle"
  /\ status[p] # "none"
  /\ Goes(c, "declining")
  /\ job' = [job EXCEPT ![c] = p]
  /\ Audits(p, "declined")
  /\ UNCHANGED <<row, clock, tok, hash, grants, status, runs, restarts>>

DeclineResolve(c) ==
  /\ pc[c] = "declining"
  /\ Resolve(job[c], "declined")
  /\ Ends(c)
  /\ UNCHANGED <<row, clock, grants, audit, runs, restarts>>

-----------------------------------------------------------------------------
(* infra.proposal.approve *)

\* Get: a proposal that is not pending is refused here.
ApproveGet(c, p, t) ==
  /\ pc[c] = "idle"
  /\ status[p] = "pending"
  /\ Goes(c, "got")
  /\ job' = [job EXCEPT ![c] = p]
  /\ tok' = [tok EXCEPT ![c] = t]
  /\ UNCHANGED <<row, clock, hash, grants, status, audit, runs, restarts>>

\* Mutant: Claim trusts the Get before it.
ClaimUnchecked(c) ==
  /\ pc[c] = "got"
  /\ status' = [status EXCEPT ![job[c]] = "executing"]
  /\ Goes(c, "claimed")
  /\ UNCHANGED <<row, clock, tok, hash, grants, job, audit, runs, restarts>>

\* Manager.Claim, under its lock.
Claim(c) ==
  /\ pc[c] = "got"
  /\ status[job[c]] = "pending"
  /\ status' = [status EXCEPT ![job[c]] = "executing"]
  /\ Goes(c, "claimed")
  /\ UNCHANGED <<row, clock, tok, hash, grants, job, audit, runs, restarts>>

ClaimFails(c) ==
  /\ pc[c] = "got"
  /\ status[job[c]] # "pending"
  /\ Ends(c)
  /\ UNCHANGED <<row, clock, grants, status, audit, runs, restarts>>

\* The guards, before the token is touched: the subsystem may be missing, ...
Unavailable(c) ==
  /\ pc[c] = "claimed"
  /\ Goes(c, "releasing")
  /\ UNCHANGED <<row, clock, tok, hash, grants, status, job, audit, runs, restarts>>

\* ... the unit or the process protected, which is audited and final, ...
Protected(c) ==
  /\ pc[c] = "claimed"
  /\ Audits(job[c], "rejected")
  /\ Goes(c, "rejecting")
  /\ UNCHANGED <<row, clock, tok, hash, grants, status, job, runs, restarts>>

ResolveRejected(c) ==
  /\ pc[c] = "rejecting"
  /\ Resolve(job[c], "rejected")
  /\ Ends(c)
  /\ UNCHANGED <<row, clock, grants, audit, runs, restarts>>

\* ... or all is well and ConsumeToken reads and checks the token's row.
CheckToken(c) ==
  /\ pc[c] = "claimed"
  /\ tok[c] \in Tokens
  /\ Check(c, tok[c], HashOf[job[c]])
  /\ UNCHANGED <<status, job, audit, runs, restarts>>

\* ConsumeToken fails, on the row it read or on the UPDATE: an audit row, and
\* the deferred Release is next.
TokenRejected(c) ==
  /\ \/ pc[c] = "claimed" /\ ~(tok[c] \in Tokens /\ Valid(tok[c], HashOf[job[c]]))
     \/ LostRace(c) /\ ~ByHuman(c)
  /\ Audits(job[c], "token_invalid")
  /\ Goes(c, "releasing")
  /\ UNCHANGED <<row, clock, tok, hash, grants, status, job, runs, restarts>>

\* Mutant: no deferred Release.
ReleaseForgotten(c) ==
  /\ pc[c] = "releasing"
  /\ Ends(c)
  /\ UNCHANGED <<row, clock, grants, status, audit, runs, restarts>>

\* Manager.Release: back to pending, unless somebody resolved it meanwhile.
Release(c) ==
  /\ pc[c] = "releasing"
  /\ status' = IF status[job[c]] = "executing"
               THEN [status EXCEPT ![job[c]] = "pending"] ELSE status
  /\ Ends(c)
  /\ UNCHANGED <<row, clock, grants, audit, runs, restarts>>

\* executeProposal: the host is touched, whether or not an error comes back.
Execute(c) ==
  /\ pc[c] = "granted"
  /\ ~ByHuman(c)
  /\ runs' = Append(runs, <<job[c], tok[c]>>)
  /\ \E outcome \in {"executed", "failed"} : Goes(c, outcome)
  /\ UNCHANGED <<row, clock, tok, hash, grants, status, job, audit, restarts>>

\* Mutant: a failed execution is not audited.
AuditSuccessOnly(c) ==
  /\ pc[c] \in {"executed", "failed"}
  /\ audit' = IF pc[c] = "executed" THEN audit \cup {<<job[c], "executed">>} ELSE audit
  /\ Goes(c, IF pc[c] = "executed" THEN "resolveExecuted" ELSE "resolveFailed")
  /\ UNCHANGED <<row, clock, tok, hash, grants, status, job, runs, restarts>>

\* Its audit row ...
AuditOutcome(c) ==
  /\ pc[c] \in {"executed", "failed"}
  /\ Audits(job[c], pc[c])
  /\ Goes(c, IF pc[c] = "executed" THEN "resolveExecuted" ELSE "resolveFailed")
  /\ UNCHANGED <<row, clock, tok, hash, grants, status, job, runs, restarts>>

\* Mutant: a failed execution gives the proposal back.
ResolveOrRetry(c) ==
  /\ pc[c] \in {"resolveExecuted", "resolveFailed"}
  /\ Resolve(job[c], IF pc[c] = "resolveExecuted" THEN "executed" ELSE "pending")
  /\ Ends(c)
  /\ UNCHANGED <<row, clock, grants, audit, runs, restarts>>

\* ... and its status; the deferred Release finds nothing left to release.
ResolveOutcome(c) ==
  /\ pc[c] \in {"resolveExecuted", "resolveFailed"}
  /\ Resolve(job[c], IF pc[c] = "resolveExecuted" THEN "executed" ELSE "failed")
  /\ Ends(c)
  /\ UNCHANGED <<row, clock, grants, audit, runs, restarts>>

-----------------------------------------------------------------------------
(* The rest of the system *)

\* Human-initiated handlers consume tokens for the same actions.
Human(c) ==
  /\ ByHuman(c)
  /\ \/ \E t \in Tokens, h \in Hashes : HumanCall(c, t, h)
     \/ HumanRefused(c) \/ HumanMutates(c)
  /\ UNCHANGED <<status, job, audit, runs, restarts>>

ConsumeMarks(c) == MarkUsed(c) /\ UNCHANGED <<status, job, audit, runs, restarts>>

MintAny(t) ==
  /\ \E h \in Hashes : Mint(t, h)
  /\ UNCHANGED <<status, job, audit, runs, restarts>>

\* A restart at any point: handlers and proposals are gone, rows are not.
Restart ==
  /\ restarts < MaxRestarts
  /\ restarts' = restarts + 1
  /\ pc' = [c \in Callers |-> "idle"]
  /\ tok' = [c \in Callers |-> NoToken]
  /\ hash' = [c \in Callers |-> AnyHash]
  /\ job' = [c \in Callers |-> NoProposal]
  /\ status' = [p \in Proposals |-> IF status[p] = "none" THEN "none" ELSE "lost"]
  /\ UNCHANGED <<row, clock, grants, audit, runs>>

Init ==
  /\ TokenInit
  /\ status = [p \in Proposals |-> "none"]
  /\ job = [c \in Callers |-> NoProposal]
  /\ audit = {}
  /\ runs = << >>
  /\ restarts = 0

\* What handler c does next once it has a proposal.
HandlerStep(c) ==
  \/ DeclineResolve(c)
  \/ Claim(c) \/ ClaimFails(c)
  \/ Unavailable(c) \/ Protected(c) \/ ResolveRejected(c)
  \/ CheckToken(c) \/ TokenRejected(c) \/ Release(c)
  \/ ConsumeMarks(c)
  \/ Execute(c) \/ AuditOutcome(c) \/ ResolveOutcome(c)

Next ==
  \/ \E p \in Proposals : Create(p)
  \/ \E t \in Tokens : MintAny(t)
  \/ Tick /\ UNCHANGED <<status, job, audit, runs, restarts>>
  \/ \E c \in Callers :
       \/ \E p \in Proposals :
            \/ DeclineAudit(c, p)
            \/ \E t \in Tokens \cup {NoToken} : ApproveGet(c, p, t)
       \/ HandlerStep(c)
       \/ Human(c)
  \/ Restart

\* Handler goroutines run to their end: every call they make returns.
Fairness == \A c \in Callers : WF_vars(HandlerStep(c))

Spec == Init /\ [][Next]_vars
FairSpec == Spec /\ Fairness

-----------------------------------------------------------------------------
(* Properties *)

Statuses == {"none", "pending", "executing", "executed", "declined", "rejected", "failed", "lost"}
Steps == {"idle", "checked", "granted", "declining", "got", "claimed", "releasing", "rejecting",
          "executed", "failed", "resolveExecuted", "resolveFailed"}
Outcomes == {"declined", "rejected", "token_invalid", "executed", "failed"}

\* Types of the variables.
TypeOK ==
  /\ row \in [Tokens -> Row]
  /\ clock \in Nat
  /\ pc \in [Callers -> Steps]
  /\ tok \in [Callers -> Tokens \cup {NoToken}]
  /\ hash \in [Callers -> Hashes]
  /\ grants \in Seq(Tokens \X Hashes)
  /\ status \in [Proposals -> Statuses]
  /\ job \in [Callers -> Proposals \cup {NoProposal}]
  /\ audit \subseteq Proposals \X Outcomes
  /\ runs \in Seq(Proposals \X Tokens)
  /\ restarts \in Nat

\* "single-use token": two calls that read the same unused row are not both
\* let through, whoever they are and whatever restarts come between.
SingleUse ==
  \A i, j \in DOMAIN grants : grants[i][1] = grants[j][1] => i = j

Ran(p) == \E i \in DOMAIN runs : runs[i][1] = p

\* An approved action runs only on a token minted and accepted for that very
\* action, never twice on one token, and never twice at all: approvals racing
\* each other, declines, retries and restarts included.
RunsArePaidFor ==
  \A i \in DOMAIN runs :
    /\ row[runs[i][2]].hash = HashOf[runs[i][1]]
    /\ \E j \in DOMAIN grants : grants[j] = <<runs[i][2], HashOf[runs[i][1]]>>
    /\ \A j \in DOMAIN runs :
         runs[i][1] = runs[j][1] \/ runs[i][2] = runs[j][2] => i = j

\* What a proposal's status says of the host is true: nothing ran for one
\* that is pending or was rejected by a guard, and something did for one that
\* is executed or failed after its token was consumed.  (Not so "declined".)
StatusTellsTheTruth ==
  \A p \in Proposals :
    /\ status[p] \in {"none", "pending", "rejected"} => ~Ran(p)
    /\ status[p] \in {"executed", "failed"} => Ran(p)

\* "Every terminal outcome writes an audit row": a run whose handler is over
\* (restarts apart) is in the audit log, even if a decline came in between.
RunsAreAudited ==
  \A p \in Proposals :
    (Ran(p) /\ status[p] # "lost" /\ \A c \in Callers : job[c] = p => pc[c] \notin {"executed", "failed"})
      => {<<p, "executed">>, <<p, "failed">>} \cap audit # {}

\* TestProposal_DeclineDoesNotExecute: a declined proposal has not run.
DeclinedDoesNotExecute ==
  \A p \in Proposals : status[p] = "declined" => ~Ran(p)

\* A proposal is "executing" only while the handler that claimed it is still
\* at work on it and will resolve or release it.
ExecutingIsServed ==
  \A p \in Proposals : status[p] = "executing" =>
    \E c \in Callers : job[c] = p /\ pc[c] \notin {"idle", "got", "declining"}

\* So it does not stay in "executing": every way out of the approve handler
\* resolves or releases it.
NotLeftExecuting ==
  \A p \in Proposals : status[p] = "executing" ~> status[p] # "executing"

\* The promise above all this.
Confirmed == INSTANCE ConfirmedExecution WITH Proposals <- Proposals, Tokens <- Tokens, runs <- runs
ImplementsConfirmedExecution == Confirmed!Spec
=============================================================================
