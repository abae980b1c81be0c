------------------------ MODULE ProposalApprovalProofs ------------------------
(***************************************************************************)
(* Proofs about ProposalApproval, for any number of proposals, tokens,     *)
(* handlers, restarts and clock ticks.                                     *)
(*                                                                         *)
(* RunsArePaidFor is not inductive.  IInv adds who may still run what: the *)
(* claim makes one handler the holder of a proposal until it resolves or   *)
(* releases it (HolderInv; a decline may take the status away under it but *)
(* never back to pending), and the UPDATE makes one handler the owner of a *)
(* used token until it runs (GrantInv).  BoundInv and ServedInv are proved  *)
(* on top of it, each with a single case split over the actions.           *)
(***************************************************************************)
EXTENDS ProposalApproval, SequenceTheorems, TLAPS

-----------------------------------------------------------------------------
(* The inductive invariant *)

RanSteps == {"executed", "failed", "resolveExecuted", "resolveFailed"}
HolderSteps == RanSteps \cup {"claimed", "checked", "granted", "releasing", "rejecting"}

\* Handler c has claimed proposal p and not let go of it.
Holds(c, p) == job[c] = p /\ pc[c] \in HolderSteps

\* Only the steps of a human-initiated call have no proposal.
JobInv ==
  \A c \in Callers :
    /\ pc[c] = "idle" => job[c] = NoProposal
    /\ pc[c] \in Steps \ {"idle", "checked", "granted"} => job[c] \in Proposals

\* One holder a proposal, and the proposal has run iff its holder ran it.
HolderInv ==
  \A c \in Callers : \A p \in Proposals : Holds(c, p) =>
    /\ status[p] \in {"executing", "declined"}
    /\ \A d \in Callers : Holds(d, p) => d = c
    /\ Ran(p) <=> pc[c] \in RanSteps

\* Accepted tokens are used, and used once.
GrantsUsed ==
  \A i \in 1..Len(grants) :
    /\ row[grants[i][1]].state = "used"
    /\ \A j \in 1..Len(grants) : grants[i][1] = grants[j][1] => i = j

\* A handler inside ConsumeToken asks for the action of its proposal.
AskInv ==
  \A c \in Callers : pc[c] \in {"checked", "granted"} =>
    tok[c] \in Tokens /\ (job[c] \in Proposals => hash[c] = HashOf[job[c]])

\* A handler that was granted a token owns it: no run and no other handler
\* has it.
GrantInv ==
  \A c \in Callers : pc[c] = "granted" =>
    /\ \E j \in 1..Len(grants) : grants[j] = <<tok[c], hash[c]>>
    /\ \A d \in Callers : pc[d] = "granted" /\ tok[d] = tok[c] => d = c
    /\ \A i \in 1..Len(runs) : runs[i][2] # tok[c]

RunsInv ==
  \A i \in 1..Len(runs) :
    /\ \E j \in 1..Len(grants) : grants[j] = <<runs[i][2], HashOf[runs[i][1]]>>
    /\ \A j \in 1..Len(runs) :
         runs[i][1] = runs[j][1] \/ runs[i][2] = runs[j][2] => i = j

\* The row of a run's outcome is there, or is the next thing its handler writes.
AuditInv ==
  \A p \in Proposals : Ran(p) /\ status[p] # "lost" =>
    \/ {<<p, "executed">>, <<p, "failed">>} \cap audit # {}
    \/ \E c \in Callers : job[c] = p /\ pc[c] \in {"executed", "failed"}

IInv ==
  /\ TypeOK
  /\ JobInv
  /\ HolderInv
  /\ StatusTellsTheTruth
  /\ GrantsUsed
  /\ AskInv
  /\ GrantInv
  /\ RunsInv
  /\ AuditInv

USE ProposalsAssumption, TokensAssumption, HashOfAssumption, HashesAssumption, ClockAssumption

-----------------------------------------------------------------------------
(* Lemmas *)

LEMMA AppendFacts ==
  ASSUME NEW S, NEW q \in Seq(S), NEW e \in S
  PROVE  /\ Append(q, e) \in Seq(S)
         /\ Len(q) \in Nat
         /\ Len(Append(q, e)) = Len(q) + 1
         /\ Append(q, e)[Len(q) + 1] = e
         /\ \A i \in 1..Len(q) : Append(q, e)[i] = q[i] /\ i \in 1..(Len(q) + 1)
         /\ \A i \in 1..(Len(q) + 1) : i \in 1..Len(q) \/ i = Len(q) + 1
  OBVIOUS

LEMMA RanDomain ==
  ASSUME TypeOK
  PROVE  \A p : Ran(p) <=> \E i \in 1..Len(runs) : runs[i][1] = p
  BY DEF Ran, TypeOK

\* A step that grants nothing, runs nothing and leaves the handlers that own
\* a token as they are keeps GrantInv.
LEMMA GrantFrame ==
  ASSUME GrantInv, grants' = grants, runs' = runs,
         \A d \in Callers : pc'[d] = "granted" =>
           pc[d] = "granted" /\ tok'[d] = tok[d] /\ hash'[d] = hash[d]
  PROVE  GrantInv'
<1> SUFFICES ASSUME NEW c \in Callers, pc'[c] = "granted"
             PROVE  /\ \E j \in 1..Len(grants') : grants'[j] = <<tok'[c], hash'[c]>>
                    /\ \A d \in Callers : pc'[d] = "granted" /\ tok'[d] = tok'[c] => d = c
                    /\ \A i \in 1..Len(runs') : runs'[i][2] # tok'[c]
  BY DEF GrantInv
<1>1. pc[c] = "granted" /\ tok'[c] = tok[c] /\ hash'[c] = hash[c]
  OBVIOUS
<1>2. PICK j \in 1..Len(grants) : grants[j] = <<tok[c], hash[c]>>
  BY <1>1 DEF GrantInv
<1>3. \A i \in 1..Len(runs') : runs'[i][2] # tok'[c]
  BY <1>1 DEF GrantInv
<1>4. ASSUME NEW d \in Callers, pc'[d] = "granted", tok'[d] = tok'[c]
      PROVE  d = c
  BY <1>1, <1>4 DEF GrantInv
<1>5. QED BY <1>1, <1>2, <1>3, <1>4

\* A step that runs nothing, keeps every audit row and leaves the handlers
\* that still owe one as they are keeps AuditInv.
LEMMA AuditFrame ==
  ASSUME AuditInv, audit \subseteq audit',
         \A p \in Proposals : Ran(p)' <=> Ran(p),
         \A p \in Proposals : status[p] = "lost" => status'[p] = "lost",
         \A d \in Callers : pc[d] \in {"executed", "failed"} => pc'[d] = pc[d] /\ job'[d] = job[d]
  PROVE  AuditInv'
  BY DEF AuditInv

-----------------------------------------------------------------------------
(* One lemma per action *)

LEMMA CreateStep ==
  ASSUME IInv, NEW p \in Proposals, Create(p)
  PROVE  IInv'
<1> USE DEF IInv, Create, tokenVars
<1>0. \A x : Ran(x)' <=> Ran(x)
  BY DEF Ran
<1>1. TypeOK'
  BY DEF TypeOK, JobInv, Row, Steps, Statuses, Outcomes, AnyHash
<1>2. JobInv'
  BY <1>0, <1>1 DEF TypeOK, JobInv, Steps
<1>3. HolderInv'
  BY <1>0, <1>1 DEF TypeOK, HolderInv, Holds, HolderSteps, RanSteps, JobInv, Steps
<1>4. StatusTellsTheTruth'
  BY <1>0, <1>1 DEF TypeOK, StatusTellsTheTruth, HolderInv, Holds, HolderSteps, RanSteps, JobInv, Steps, Statuses
<1>5. GrantsUsed'
  BY <1>0, <1>1 DEF TypeOK, GrantsUsed, Row
<1>6. AskInv'
  BY <1>0, <1>1 DEF TypeOK, AskInv, JobInv, Steps
<1>7. GrantInv'
  BY GrantFrame DEF TypeOK, Steps
<1>8. RunsInv'
  BY <1>0, <1>1 DEF TypeOK, RunsInv
<1>9. AuditInv'
  BY <1>0, AuditFrame DEF TypeOK, Statuses, Steps, JobInv
<1>10. QED BY <1>1, <1>2, <1>3, <1>4, <1>5, <1>6, <1>7, <1>8, <1>9

LEMMA DeclineAuditStep ==
  ASSUME IInv, NEW c \in Callers, NEW p \in Proposals, DeclineAudit(c, p)
  PROVE  IInv'
<1> USE DEF IInv, DeclineAudit, Goes, Audits
<1>0. \A x : Ran(x)' <=> Ran(x)
  BY DEF Ran
<1>1. TypeOK'
  BY DEF TypeOK, JobInv, Row, Steps, Statuses, Outcomes, AnyHash
<1>2. JobInv'
  BY <1>0, <1>1 DEF TypeOK, JobInv, Steps
<1>3. HolderInv'
  BY <1>0, <1>1 DEF TypeOK, HolderInv, Holds, HolderSteps, RanSteps, JobInv, Steps
<1>4. StatusTellsTheTruth'
  BY <1>0, <1>1 DEF TypeOK, StatusTellsTheTruth, HolderInv, Holds, HolderSteps, RanSteps, JobInv, Steps, Statuses
<1>5. GrantsUsed'
  BY <1>0, <1>1 DEF TypeOK, GrantsUsed, Row
<1>6. AskInv'
  BY <1>0, <1>1 DEF TypeOK, AskInv, JobInv, Steps
<1>7. GrantInv'
  BY GrantFrame DEF TypeOK, Steps
<1>8. RunsInv'
  BY <1>0, <1>1 DEF TypeOK, RunsInv
<1>9. AuditInv'
  BY <1>0, AuditFrame DEF TypeOK, Statuses, Steps, JobInv
<1>10. QED BY <1>1, <1>2, <1>3, <1>4, <1>5, <1>6, <1>7, <1>8, <1>9

LEMMA DeclineResolveStep ==
  ASSUME IInv, NEW c \in Callers, DeclineResolve(c)
  PROVE  IInv'
<1> USE DEF IInv, DeclineResolve, Resolve, Open, Ends, Returns
<1>0. \A x : Ran(x)' <=> Ran(x)
  BY DEF Ran
<1>1. TypeOK'
  BY DEF TypeOK, JobInv, Row, Steps, Statuses, Outcomes, AnyHash
<1>2. JobInv'
  BY <1>0, <1>1 DEF TypeOK, JobInv, Steps
<1>3. HolderInv'
  BY <1>0, <1>1 DEF TypeOK, HolderInv, Holds, HolderSteps, RanSteps, JobInv, Steps
<1>4. StatusTellsTheTruth'
  BY <1>0, <1>1 DEF TypeOK, StatusTellsTheTruth, HolderInv, Holds, HolderSteps, RanSteps, JobInv, Steps, Statuses
<1>5. GrantsUsed'
  BY <1>0, <1>1 DEF TypeOK, GrantsUsed, Row
<1>6. AskInv'
  BY <1>0, <1>1 DEF TypeOK, AskInv, JobInv, Steps
<1>7. GrantInv'
  BY GrantFrame DEF TypeOK, Steps
<1>8. RunsInv'
  BY <1>0, <1>1 DEF TypeOK, RunsInv
<1>9. AuditInv'
  BY <1>0, AuditFrame DEF TypeOK, Statuses, Steps, JobInv
<1>10. QED BY <1>1, <1>2, <1>3, <1>4, <1>5, <1>6, <1>7, <1>8, <1>9

LEMMA ApproveGetStep ==
  ASSUME IInv, NEW c \in Callers, NEW p \in Proposals, NEW t \in Tokens \cup {NoToken}, ApproveGet(c, p, t)
  PROVE  IInv'
<1> USE DEF IInv, ApproveGet, Goes
<1>0. \A x : Ran(x)' <=> Ran(x)
  BY DEF Ran
<1>1. TypeOK'
  BY DEF TypeOK, JobInv, Row, Steps, Statuses, Outcomes, AnyHash
<1>2. JobInv'
  BY <1>0, <1>1 DEF TypeOK, JobInv, Steps
<1>3. HolderInv'
  BY <1>0, <1>1 DEF TypeOK, HolderInv, Holds, HolderSteps, RanSteps, JobInv, Steps
<1>4. StatusTellsTheTruth'
  BY <1>0, <1>1 DEF TypeOK, StatusTellsTheTruth, HolderInv, Holds, HolderSteps, RanSteps, JobInv, Steps, Statuses
<1>5. GrantsUsed'
  BY <1>0, <1>1 DEF TypeOK, GrantsUsed, Row
<1>6. AskInv'
  BY <1>0, <1>1 DEF TypeOK, AskInv, JobInv, Steps
<1>7. GrantInv'
  BY GrantFrame DEF TypeOK, Steps
<1>8. RunsInv'
  BY <1>0, <1>1 DEF TypeOK, RunsInv
<1>9. AuditInv'
  BY <1>0, AuditFrame DEF TypeOK, Statuses, Steps, JobInv
<1>10. QED BY <1>1, <1>2, <1>3, <1>4, <1>5, <1>6, <1>7, <1>8, <1>9

LEMMA ClaimStep ==
  ASSUME IInv, NEW c \in Callers, Claim(c)
  PROVE  IInv'
<1> USE DEF IInv, Claim, Goes
<1>0. \A x : Ran(x)' <=> Ran(x)
  BY DEF Ran
<1>1. TypeOK'
  BY DEF TypeOK, JobInv, Row, Steps, Statuses, Outcomes, AnyHash
<1>2. JobInv'
  BY <1>0, <1>1 DEF TypeOK, JobInv, Steps
<1>3. HolderInv'
  <2>1. job[c] \in Proposals /\ ~Ran(job[c])
    BY DEF JobInv, TypeOK, Steps, StatusTellsTheTruth
  <2>2. \A d \in Callers : ~Holds(d, job[c])
    BY <2>1 DEF HolderInv
  <2>3. \A d \in Callers \ {c} : \A p \in Proposals : Holds(d, p)' => Holds(d, p) /\ p # job[c]
    BY <2>2 DEF Holds, TypeOK
  <2>4. \A p \in Proposals : Holds(c, p)' => p = job[c]
    BY DEF Holds, TypeOK
  <2>5. \A p \in Proposals : Holds(c, p)' => pc'[c] \notin RanSteps /\ status'[p] = "executing"
    BY <2>4 DEF RanSteps, TypeOK
  <2>6. ASSUME NEW d \in Callers \ {c}, NEW p \in Proposals, Holds(d, p)'
        PROVE  /\ status'[p] \in {"executing", "declined"}
               /\ \A e \in Callers : Holds(e, p)' => e = d
               /\ Ran(p)' <=> pc'[d] \in RanSteps
    <3>1. Holds(d, p) /\ p # job[c] /\ status'[p] = status[p] /\ pc'[d] = pc[d]
      BY <2>3, <2>6 DEF TypeOK
    <3>2. \A e \in Callers : Holds(e, p)' => Holds(e, p)
      BY <2>3, <2>4, <3>1
    <3>3. QED BY <1>0, <3>1, <3>2 DEF HolderInv
  <2>7. ASSUME NEW p \in Proposals, Holds(c, p)'
        PROVE  /\ status'[p] \in {"executing", "declined"}
               /\ \A e \in Callers : Holds(e, p)' => e = c
               /\ Ran(p)' <=> pc'[c] \in RanSteps
    BY <1>0, <2>1, <2>3, <2>4, <2>5, <2>7
  <2>8. QED BY <2>6, <2>7 DEF HolderInv
<1>4. StatusTellsTheTruth'
  BY <1>0, <1>1 DEF TypeOK, StatusTellsTheTruth, HolderInv, Holds, HolderSteps, RanSteps, JobInv, Steps, Statuses
<1>5. GrantsUsed'
  BY <1>0, <1>1 DEF TypeOK, GrantsUsed, Row
<1>6. AskInv'
  BY <1>0, <1>1 DEF TypeOK, AskInv, JobInv, Steps
<1>7. GrantInv'
  BY GrantFrame DEF TypeOK, Steps
<1>8. RunsInv'
  BY <1>0, <1>1 DEF TypeOK, RunsInv
<1>9. AuditInv'
  BY <1>0, AuditFrame DEF TypeOK, Statuses, Steps, JobInv
<1>10. QED BY <1>1, <1>2, <1>3, <1>4, <1>5, <1>6, <1>7, <1>8, <1>9

LEMMA ClaimFailsStep ==
  ASSUME IInv, NEW c \in Callers, ClaimFails(c)
  PROVE  IInv'
<1> USE DEF IInv, ClaimFails, Ends, Returns
<1>0. \A x : Ran(x)' <=> Ran(x)
  BY DEF Ran
<1>1. TypeOK'
  BY DEF TypeOK, JobInv, Row, Steps, Statuses, Outcomes, AnyHash
<1>2. JobInv'
  BY <1>0, <1>1 DEF TypeOK, JobInv, Steps
<1>3. HolderInv'
  BY <1>0, <1>1 DEF TypeOK, HolderInv, Holds, HolderSteps, RanSteps, JobInv, Steps
<1>4. StatusTellsTheTruth'
  BY <1>0, <1>1 DEF TypeOK, StatusTellsTheTruth, HolderInv, Holds, HolderSteps, RanSteps, JobInv, Steps, Statuses
<1>5. GrantsUsed'
  BY <1>0, <1>1 DEF TypeOK, GrantsUsed, Row
<1>6. AskInv'
  BY <1>0, <1>1 DEF TypeOK, AskInv, JobInv, Steps
<1>7. GrantInv'
  BY GrantFrame DEF TypeOK, Steps
<1>8. RunsInv'
  BY <1>0, <1>1 DEF TypeOK, RunsInv
<1>9. AuditInv'
  BY <1>0, AuditFrame DEF TypeOK, Statuses, Steps, JobInv
<1>10. QED BY <1>1, <1>2, <1>3, <1>4, <1>5, <1>6, <1>7, <1>8, <1>9

LEMMA UnavailableStep ==
  ASSUME IInv, NEW c \in Callers, Unavailable(c)
  PROVE  IInv'
<1> USE DEF IInv, Unavailable, Goes
<1>0. \A x : Ran(x)' <=> Ran(x)
  BY DEF Ran
<1>1. TypeOK'
  BY DEF TypeOK, JobInv, Row, Steps, Statuses, Outcomes, AnyHash
<1>2. JobInv'
  BY <1>0, <1>1 DEF TypeOK, JobInv, Steps
<1>3. HolderInv'
  BY <1>0, <1>1 DEF TypeOK, HolderInv, Holds, HolderSteps, RanSteps, JobInv, Steps
<1>4. StatusTellsTheTruth'
  BY <1>0, <1>1 DEF TypeOK, StatusTellsTheTruth, HolderInv, Holds, HolderSteps, RanSteps, JobInv, Steps, Statuses
<1>5. GrantsUsed'
  BY <1>0, <1>1 DEF TypeOK, GrantsUsed, Row
<1>6. AskInv'
  BY <1>0, <1>1 DEF TypeOK, AskInv, JobInv, Steps
<1>7. GrantInv'
  BY GrantFrame DEF TypeOK, Steps
<1>8. RunsInv'
  BY <1>0, <1>1 DEF TypeOK, RunsInv
<1>9. AuditInv'
  BY <1>0, AuditFrame DEF TypeOK, Statuses, Steps, JobInv
<1>10. QED BY <1>1, <1>2, <1>3, <1>4, <1>5, <1>6, <1>7, <1>8, <1>9

LEMMA ProtectedStep ==
  ASSUME IInv, NEW c \in Callers, Protected(c)
  PROVE  IInv'
<1> USE DEF IInv, Protected, Goes, Audits
<1>0. \A x : Ran(x)' <=> Ran(x)
  BY DEF Ran
<1>1. TypeOK'
  <2>1. job[c] \in Proposals /\ "rejected" \in Outcomes
    BY DEF JobInv, Steps, Outcomes
  <2>2. audit' \subseteq Proposals \X Outcomes
    BY <2>1 DEF TypeOK
  <2>3. pc' \in [Callers -> Steps]
    BY DEF TypeOK, Steps
  <2>4. QED BY <2>2, <2>3 DEF TypeOK
<1>2. JobInv'
  BY <1>0, <1>1 DEF TypeOK, JobInv, Steps
<1>3. HolderInv'
  BY <1>0, <1>1 DEF TypeOK, HolderInv, Holds, HolderSteps, RanSteps, JobInv, Steps
<1>4. StatusTellsTheTruth'
  BY <1>0, <1>1 DEF TypeOK, StatusTellsTheTruth, HolderInv, Holds, HolderSteps, RanSteps, JobInv, Steps, Statuses
<1>5. GrantsUsed'
  BY <1>0, <1>1 DEF TypeOK, GrantsUsed, Row
<1>6. AskInv'
  BY <1>0, <1>1 DEF TypeOK, AskInv, JobInv, Steps
<1>7. GrantInv'
  BY GrantFrame DEF TypeOK, Steps
<1>8. RunsInv'
  BY <1>0, <1>1 DEF TypeOK, RunsInv
<1>9. AuditInv'
  BY <1>0, AuditFrame DEF TypeOK, Statuses, Steps, JobInv
<1>10. QED BY <1>1, <1>2, <1>3, <1>4, <1>5, <1>6, <1>7, <1>8, <1>9

LEMMA ResolveRejectedStep ==
  ASSUME IInv, NEW c \in Callers, ResolveRejected(c)
  PROVE  IInv'
<1> USE DEF IInv, ResolveRejected, Resolve, Open, Ends, Returns
<1>0. \A x : Ran(x)' <=> Ran(x)
  BY DEF Ran
<1>1. TypeOK'
  BY DEF TypeOK, JobInv, Row, Steps, Statuses, Outcomes, AnyHash
<1>2. JobInv'
  BY <1>0, <1>1 DEF TypeOK, JobInv, Steps
<1>3. HolderInv'
  BY <1>0, <1>1 DEF TypeOK, HolderInv, Holds, HolderSteps, RanSteps, JobInv, Steps
<1>4. StatusTellsTheTruth'
  <2>1. job[c] \in Proposals /\ Holds(c, job[c]) /\ pc[c] \notin RanSteps
    BY DEF JobInv, Steps, Holds, HolderSteps, RanSteps
  <2>2. ~Ran(job[c])
    BY <2>1 DEF HolderInv
  <2>3. QED BY <1>0, <2>1, <2>2 DEF StatusTellsTheTruth, TypeOK
<1>5. GrantsUsed'
  BY <1>0, <1>1 DEF TypeOK, GrantsUsed, Row
<1>6. AskInv'
  BY <1>0, <1>1 DEF TypeOK, AskInv, JobInv, Steps
<1>7. GrantInv'
  BY GrantFrame DEF TypeOK, Steps
<1>8. RunsInv'
  BY <1>0, <1>1 DEF TypeOK, RunsInv
<1>9. AuditInv'
  BY <1>0, AuditFrame DEF TypeOK, Statuses, Steps, JobInv
<1>10. QED BY <1>1, <1>2, <1>3, <1>4, <1>5, <1>6, <1>7, <1>8, <1>9

LEMMA CheckTokenStep ==
  ASSUME IInv, NEW c \in Callers, CheckToken(c)
  PROVE  IInv'
<1> USE DEF IInv, CheckToken, Check, Valid
<1>0. \A x : Ran(x)' <=> Ran(x)
  BY DEF Ran
<1>1. TypeOK'
  BY DEF TypeOK, JobInv, Row, Steps, Statuses, Outcomes, AnyHash
<1>2. JobInv'
  BY <1>0, <1>1 DEF TypeOK, JobInv, Steps
<1>3. HolderInv'
  BY <1>0, <1>1 DEF TypeOK, HolderInv, Holds, HolderSteps, RanSteps, JobInv, Steps
<1>4. StatusTellsTheTruth'
  BY <1>0, <1>1 DEF TypeOK, StatusTellsTheTruth, HolderInv, Holds, HolderSteps, RanSteps, JobInv, Steps, Statuses
<1>5. GrantsUsed'
  BY <1>0, <1>1 DEF TypeOK, GrantsUsed, Row
<1>6. AskInv'
  BY <1>0, <1>1 DEF TypeOK, AskInv, JobInv, Steps
<1>7. GrantInv'
  BY GrantFrame DEF TypeOK, Steps
<1>8. RunsInv'
  BY <1>0, <1>1 DEF TypeOK, RunsInv
<1>9. AuditInv'
  BY <1>0, AuditFrame DEF TypeOK, Statuses, Steps, JobInv
<1>10. QED BY <1>1, <1>2, <1>3, <1>4, <1>5, <1>6, <1>7, <1>8, <1>9

LEMMA TokenRejectedStep ==
  ASSUME IInv, NEW c \in Callers, TokenRejected(c)
  PROVE  IInv'
<1> USE DEF IInv, TokenRejected, LostRace, ByHuman, Goes, Audits
<1>0. \A x : Ran(x)' <=> Ran(x)
  BY DEF Ran
<1>1. TypeOK'
  BY DEF TypeOK, JobInv, Row, Steps, Statuses, Outcomes, AnyHash
<1>2. JobInv'
  BY <1>0, <1>1 DEF TypeOK, JobInv, Steps
<1>3. HolderInv'
  BY <1>0, <1>1 DEF TypeOK, HolderInv, Holds, HolderSteps, RanSteps, JobInv, Steps
<1>4. StatusTellsTheTruth'
  BY <1>0, <1>1 DEF TypeOK, StatusTellsTheTruth, HolderInv, Holds, HolderSteps, RanSteps, JobInv, Steps, Statuses
<1>5. GrantsUsed'
  BY <1>0, <1>1 DEF TypeOK, GrantsUsed, Row
<1>6. AskInv'
  BY <1>0, <1>1 DEF TypeOK, AskInv, JobInv, Steps
<1>7. GrantInv'
  BY GrantFrame DEF TypeOK, Steps
<1>8. RunsInv'
  BY <1>0, <1>1 DEF TypeOK, RunsInv
<1>9. AuditInv'
  BY <1>0, AuditFrame DEF TypeOK, Statuses, Steps, JobInv
<1>10. QED BY <1>1, <1>2, <1>3, <1>4, <1>5, <1>6, <1>7, <1>8, <1>9

LEMMA ReleaseStep ==
  ASSUME IInv, NEW c \in Callers, Release(c)
  PROVE  IInv'
<1> USE DEF IInv, Release, Ends, Returns
<1>0. \A x : Ran(x)' <=> Ran(x)
  BY DEF Ran
<1>1. TypeOK'
  BY DEF TypeOK, JobInv, Row, Steps, Statuses, Outcomes, AnyHash
<1>2. JobInv'
  BY <1>0, <1>1 DEF TypeOK, JobInv, Steps
<1>3. HolderInv'
  BY <1>0, <1>1 DEF TypeOK, HolderInv, Holds, HolderSteps, RanSteps, JobInv, Steps
<1>4. StatusTellsTheTruth'
  <2>1. job[c] \in Proposals /\ Holds(c, job[c]) /\ pc[c] \notin RanSteps
    BY DEF JobInv, Steps, Holds, HolderSteps, RanSteps
  <2>2. ~Ran(job[c])
    BY <2>1 DEF HolderInv
  <2>3. QED BY <1>0, <2>1, <2>2 DEF StatusTellsTheTruth, TypeOK
<1>5. GrantsUsed'
  BY <1>0, <1>1 DEF TypeOK, GrantsUsed, Row
<1>6. AskInv'
  BY <1>0, <1>1 DEF TypeOK, AskInv, JobInv, Steps
<1>7. GrantInv'
  BY GrantFrame DEF TypeOK, Steps
<1>8. RunsInv'
  BY <1>0, <1>1 DEF TypeOK, RunsInv
<1>9. AuditInv'
  BY <1>0, AuditFrame DEF TypeOK, Statuses, Steps, JobInv
<1>10. QED BY <1>1, <1>2, <1>3, <1>4, <1>5, <1>6, <1>7, <1>8, <1>9

LEMMA ConsumeMarksStep ==
  ASSUME IInv, NEW c \in Callers, ConsumeMarks(c)
  PROVE  IInv'
<1> USE DEF IInv, ConsumeMarks, MarkUsed
<1>0. \A x : Ran(x)' <=> Ran(x)
  BY DEF Ran
<1>1. TypeOK'
  <2>1. tok[c] \in Tokens /\ hash[c] \in Hashes
    BY DEF AskInv, TypeOK
  <2>2. row' \in [Tokens -> Row]
    BY <2>1 DEF TypeOK, Row
  <2>3. grants' \in Seq(Tokens \X Hashes)
    BY <2>1 DEF TypeOK
  <2>4. pc' \in [Callers -> Steps]
    BY DEF TypeOK, Steps
  <2>5. QED BY <2>2, <2>3, <2>4 DEF TypeOK
<1>2. JobInv'
  BY <1>0, <1>1 DEF TypeOK, JobInv, Steps
<1>3. HolderInv'
  BY <1>0, <1>1 DEF TypeOK, HolderInv, Holds, HolderSteps, RanSteps, JobInv, Steps
<1>4. StatusTellsTheTruth'
  BY <1>0, <1>1 DEF TypeOK, StatusTellsTheTruth, HolderInv, Holds, HolderSteps, RanSteps, JobInv, Steps, Statuses
<1>5. GrantsUsed'
  <2>1. /\ tok[c] \in Tokens
        /\ <<tok[c], hash[c]>> \in Tokens \X Hashes
        /\ grants \in Seq(Tokens \X Hashes)
    BY DEF AskInv, TypeOK
  <2>2. /\ Len(grants) \in Nat
        /\ Len(grants') = Len(grants) + 1
        /\ grants'[Len(grants) + 1] = <<tok[c], hash[c]>>
        /\ \A i \in 1..Len(grants) : grants'[i] = grants[i] /\ i \in 1..Len(grants')
        /\ \A i \in 1..Len(grants') : i \in 1..Len(grants) \/ i = Len(grants) + 1
    BY <2>1, AppendFacts
  <2>3. \A i \in 1..Len(grants) : grants[i][1] # tok[c] /\ grants[i][1] \in Tokens
    BY <2>1 DEF GrantsUsed, TypeOK
  <2>4. \A i \in 1..Len(grants') : row'[grants'[i][1]].state = "used"
    BY <2>1, <2>2, <2>3 DEF GrantsUsed, TypeOK, Row
  <2>5. \A i, j \in 1..Len(grants') : grants'[i][1] = grants'[j][1] => i = j
    BY <2>1, <2>2, <2>3 DEF GrantsUsed
  <2>6. QED BY <2>4, <2>5 DEF GrantsUsed
<1>6. AskInv'
  BY <1>0, <1>1 DEF TypeOK, AskInv, JobInv, Steps
<1>7. GrantInv'
  <2>1. /\ tok[c] \in Tokens
        /\ <<tok[c], hash[c]>> \in Tokens \X Hashes
        /\ grants \in Seq(Tokens \X Hashes)
    BY DEF AskInv, TypeOK
  <2>2. /\ Len(grants) \in Nat
        /\ Len(grants') = Len(grants) + 1
        /\ grants'[Len(grants) + 1] = <<tok[c], hash[c]>>
        /\ \A i \in 1..Len(grants) : grants'[i] = grants[i] /\ i \in 1..Len(grants')
        /\ \A i \in 1..Len(grants') : i \in 1..Len(grants) \/ i = Len(grants) + 1
    BY <2>1, AppendFacts
  <2>3. \A i \in 1..Len(grants) : grants[i][1] # tok[c]
    BY <2>1 DEF GrantsUsed
  <2>4. \A d \in Callers : pc[d] = "granted" => tok[d] # tok[c]
    <3>1. SUFFICES ASSUME NEW d \in Callers, pc[d] = "granted"
                   PROVE  tok[d] # tok[c]
      OBVIOUS
    <3>2. PICK j \in 1..Len(grants) : grants[j] = <<tok[d], hash[d]>>
      BY <3>1 DEF GrantInv
    <3>3. QED BY <2>3, <3>2
  <2>5. \A i \in 1..Len(runs) : runs[i][2] # tok[c]
    <3>1. SUFFICES ASSUME NEW i \in 1..Len(runs)
                   PROVE  runs[i][2] # tok[c]
      OBVIOUS
    <3>2. PICK j \in 1..Len(grants) : grants[j] = <<runs[i][2], HashOf[runs[i][1]]>>
      BY DEF RunsInv
    <3>3. QED BY <2>3, <3>2
  <2>6. \A d \in Callers : pc'[d] = "granted" => d = c \/ pc[d] = "granted"
    BY DEF TypeOK
  <2>7. ASSUME NEW d \in Callers, pc'[d] = "granted"
        PROVE  \E j \in 1..Len(grants') : grants'[j] = <<tok[d], hash[d]>>
    <3>1. CASE d = c
      BY <2>2, <3>1
    <3>2. CASE d # c
      <4>1. PICK j \in 1..Len(grants) : grants[j] = <<tok[d], hash[d]>>
        BY <2>6, <2>7, <3>2 DEF GrantInv
      <4>2. QED BY <2>2, <4>1
    <3>3. QED BY <3>1, <3>2
  <2>8. ASSUME NEW d \in Callers, pc'[d] = "granted"
        PROVE  /\ \A e \in Callers : pc'[e] = "granted" /\ tok[e] = tok[d] => e = d
               /\ \A i \in 1..Len(runs) : runs[i][2] # tok[d]
    BY <2>4, <2>5, <2>6, <2>8 DEF GrantInv
  <2>9. QED BY <2>7, <2>8 DEF GrantInv
<1>8. RunsInv'
  <2>1. /\ tok[c] \in Tokens
        /\ <<tok[c], hash[c]>> \in Tokens \X Hashes
        /\ grants \in Seq(Tokens \X Hashes)
    BY DEF AskInv, TypeOK
  <2>2. /\ Len(grants) \in Nat
        /\ Len(grants') = Len(grants) + 1
        /\ grants'[Len(grants) + 1] = <<tok[c], hash[c]>>
        /\ \A i \in 1..Len(grants) : grants'[i] = grants[i] /\ i \in 1..Len(grants')
        /\ \A i \in 1..Len(grants') : i \in 1..Len(grants) \/ i = Len(grants) + 1
    BY <2>1, AppendFacts
  <2>3. ASSUME NEW i \in 1..Len(runs)
        PROVE  \E j \in 1..Len(grants') : grants'[j] = <<runs[i][2], HashOf[runs[i][1]]>>
    <3>1. PICK j \in 1..Len(grants) : grants[j] = <<runs[i][2], HashOf[runs[i][1]]>>
      BY DEF RunsInv
    <3>2. QED BY <2>2, <3>1
  <2>4. QED BY <2>3 DEF RunsInv
<1>9. AuditInv'
  BY <1>0, AuditFrame DEF TypeOK, Statuses, Steps, JobInv
<1>10. QED BY <1>1, <1>2, <1>3, <1>4, <1>5, <1>6, <1>7, <1>8, <1>9

LEMMA ExecuteStep ==
  ASSUME IInv, NEW c \in Callers, Execute(c)
  PROVE  IInv'
<1> USE DEF IInv, Execute, ByHuman, Goes
<1>a. /\ job[c] \in Proposals
      /\ Holds(c, job[c])
      /\ pc[c] \notin RanSteps
  BY DEF TypeOK, Holds, HolderSteps, RanSteps
<1>b. ~Ran(job[c])
  BY <1>a DEF HolderInv
<1>c. /\ tok[c] \in Tokens
      /\ <<job[c], tok[c]>> \in Proposals \X Tokens
      /\ runs \in Seq(Proposals \X Tokens)
  BY <1>a DEF AskInv, TypeOK
<1>d. /\ Len(runs) \in Nat
      /\ Len(runs') = Len(runs) + 1
      /\ runs'[Len(runs) + 1] = <<job[c], tok[c]>>
      /\ \A i \in 1..Len(runs) : runs'[i] = runs[i] /\ i \in 1..Len(runs')
      /\ \A i \in 1..Len(runs') : i \in 1..Len(runs) \/ i = Len(runs) + 1
  BY <1>c, AppendFacts
<1>1. TypeOK'
  <2>1. runs' \in Seq(Proposals \X Tokens)
    BY <1>c
  <2>2. pc' \in [Callers -> Steps]
    BY DEF TypeOK, Steps
  <2>3. QED BY <2>1, <2>2 DEF TypeOK
<1>e. \A p : Ran(p)' <=> Ran(p) \/ p = job[c]
  <2>1. \A p : Ran(p)' <=> \E i \in 1..Len(runs') : runs'[i][1] = p
    <3>1. DOMAIN runs' = 1..Len(runs')
      BY <1>c
    <3>2. QED BY <3>1 DEF Ran
  <2>2. \A p : Ran(p) <=> \E i \in 1..Len(runs) : runs[i][1] = p
    BY RanDomain
  <2>3. ASSUME NEW p, \E i \in 1..Len(runs) : runs[i][1] = p
        PROVE  \E i \in 1..Len(runs') : runs'[i][1] = p
    BY <1>d, <2>3
  <2>4. Ran(job[c])'
    <3>1. Len(runs) + 1 \in 1..Len(runs') /\ runs'[Len(runs) + 1][1] = job[c]
      BY <1>d
    <3>2. QED BY <2>1, <3>1
  <2>5. ASSUME NEW p, NEW i \in 1..Len(runs'), runs'[i][1] = p
        PROVE  (\E k \in 1..Len(runs) : runs[k][1] = p) \/ p = job[c]
    BY <1>d, <2>5
  <2>6. QED BY <2>1, <2>2, <2>3, <2>4, <2>5
<1>2. JobInv'
  BY <1>1 DEF TypeOK, JobInv, Steps
<1>3. HolderInv'
  <2>1. \A d \in Callers : \A p \in Proposals : Holds(d, p)' <=> Holds(d, p)
    BY <1>a DEF Holds, HolderSteps, RanSteps, TypeOK
  <2>2. pc'[c] \in RanSteps
    BY DEF TypeOK, RanSteps
  <2>3. \A d \in Callers : d # c => pc'[d] = pc[d]
    BY DEF TypeOK
  <2>4. \A d \in Callers : Holds(d, job[c]) => d = c
    BY <1>a DEF HolderInv
  <2>5. \A d \in Callers \ {c}, p \in Proposals : Holds(d, p) => p # job[c]
    BY <2>4
  <2>6. ASSUME NEW p \in Proposals, Holds(c, p)
        PROVE  p = job[c]
    BY <2>6 DEF Holds
  <2>7. ASSUME NEW d \in Callers, NEW p \in Proposals, Holds(d, p)'
        PROVE  Ran(p)' <=> pc'[d] \in RanSteps
    <3>1. CASE d = c
      BY <1>e, <2>1, <2>2, <2>6, <2>7, <3>1
    <3>2. CASE d # c
      BY <1>e, <2>1, <2>3, <2>5, <2>7, <3>2 DEF HolderInv
    <3>3. QED BY <3>1, <3>2
  <2>8. QED BY <2>1, <2>7 DEF HolderInv
<1>4. StatusTellsTheTruth'
  <2>1. status[job[c]] \in {"executing", "declined"}
    BY <1>a DEF HolderInv
  <2>2. QED BY <1>a, <1>e, <2>1 DEF StatusTellsTheTruth
<1>5. GrantsUsed'
  BY <1>1 DEF TypeOK, GrantsUsed, Row
<1>6. AskInv'
  BY <1>1 DEF TypeOK, AskInv, JobInv, Steps
<1>7. GrantInv'
  <2>1. \A d \in Callers : pc'[d] = "granted" => d # c /\ pc[d] = "granted"
    BY DEF TypeOK
  <2>2. ASSUME NEW d \in Callers, pc'[d] = "granted", NEW i \in 1..Len(runs')
        PROVE  runs'[i][2] # tok[d]
    <3>1. CASE i \in 1..Len(runs)
      BY <1>d, <2>1, <2>2, <3>1 DEF GrantInv
    <3>2. CASE i = Len(runs) + 1
      <4>1. tok[d] # tok[c]
        BY <2>1, <2>2 DEF GrantInv
      <4>2. QED BY <1>d, <3>2, <4>1
    <3>3. QED BY <1>d, <3>1, <3>2
  <2>3. ASSUME NEW d \in Callers, pc'[d] = "granted"
        PROVE  /\ \E j \in 1..Len(grants) : grants[j] = <<tok[d], hash[d]>>
               /\ \A e \in Callers : pc'[e] = "granted" /\ tok[e] = tok[d] => e = d
    <3>1. PICK j \in 1..Len(grants) : grants[j] = <<tok[d], hash[d]>>
      BY <2>1, <2>3 DEF GrantInv
    <3>2. \A e \in Callers : pc'[e] = "granted" /\ tok[e] = tok[d] => e = d
      BY <2>1, <2>3 DEF GrantInv
    <3>3. QED BY <3>1, <3>2
  <2>4. QED BY <2>2, <2>3 DEF GrantInv
<1>8. RunsInv'
  <2>1. \A i \in 1..Len(runs) : runs[i][1] # job[c]
    BY <1>b, RanDomain
  <2>2. \A i \in 1..Len(runs) : runs[i][2] # tok[c]
    BY DEF GrantInv
  <2>3. \E j \in 1..Len(grants) : grants[j] = <<tok[c], HashOf[job[c]]>>
    <3>1. PICK j \in 1..Len(grants) : grants[j] = <<tok[c], hash[c]>>
      BY DEF GrantInv
    <3>2. hash[c] = HashOf[job[c]]
      BY <1>a DEF AskInv
    <3>3. QED BY <3>1, <3>2
  <2>4. ASSUME NEW i \in 1..Len(runs')
        PROVE  \E j \in 1..Len(grants) : grants[j] = <<runs'[i][2], HashOf[runs'[i][1]]>>
    <3>1. CASE i \in 1..Len(runs)
      <4>1. PICK j \in 1..Len(grants) : grants[j] = <<runs[i][2], HashOf[runs[i][1]]>>
        BY <3>1 DEF RunsInv
      <4>2. QED BY <1>d, <3>1, <4>1
    <3>2. CASE i = Len(runs) + 1
      <4>1. runs'[i][1] = job[c] /\ runs'[i][2] = tok[c]
        BY <1>d, <3>2
      <4>2. QED BY <2>3, <4>1
    <3>3. QED BY <1>d, <3>1, <3>2
  <2>5. ASSUME NEW i \in 1..Len(runs'), NEW j \in 1..Len(runs'),
               runs'[i][1] = runs'[j][1] \/ runs'[i][2] = runs'[j][2]
        PROVE  i = j
    <3>1. CASE i \in 1..Len(runs) /\ j \in 1..Len(runs)
      BY <1>d, <2>5, <3>1 DEF RunsInv
    <3>2. CASE i = Len(runs) + 1 /\ j \in 1..Len(runs)
      BY <1>d, <2>1, <2>2, <2>5, <3>2
    <3>3. CASE i \in 1..Len(runs) /\ j = Len(runs) + 1
      BY <1>d, <2>1, <2>2, <2>5, <3>3
    <3>4. CASE i = Len(runs) + 1 /\ j = Len(runs) + 1
      BY <3>4
    <3>5. QED BY <1>d, <3>1, <3>2, <3>3, <3>4
  <2>6. QED BY <2>4, <2>5 DEF RunsInv
<1>9. AuditInv'
  <2>1. pc'[c] \in {"executed", "failed"}
    BY DEF TypeOK
  <2>2. ASSUME NEW d \in Callers, pc[d] \in {"executed", "failed"}
        PROVE  pc'[d] = pc[d]
    BY <2>2 DEF TypeOK
  <2>3. QED BY <1>e, <2>1, <2>2 DEF AuditInv
<1>10. QED BY <1>1, <1>2, <1>3, <1>4, <1>5, <1>6, <1>7, <1>8, <1>9

LEMMA AuditOutcomeStep ==
  ASSUME IInv, NEW c \in Callers, AuditOutcome(c)
  PROVE  IInv'
<1> USE DEF IInv, AuditOutcome, Goes, Audits
<1>0. \A x : Ran(x)' <=> Ran(x)
  BY DEF Ran
<1>1. TypeOK'
  <2>1. job[c] \in Proposals /\ pc[c] \in Outcomes
    BY DEF JobInv, Steps, Outcomes
  <2>2. audit' \subseteq Proposals \X Outcomes
    BY <2>1 DEF TypeOK
  <2>3. pc' \in [Callers -> Steps]
    BY DEF TypeOK, Steps
  <2>4. QED BY <2>2, <2>3 DEF TypeOK
<1>2. JobInv'
  BY <1>0, <1>1 DEF TypeOK, JobInv, Steps
<1>3. HolderInv'
  BY <1>0, <1>1 DEF TypeOK, HolderInv, Holds, HolderSteps, RanSteps, JobInv, Steps
<1>4. StatusTellsTheTruth'
  BY <1>0, <1>1 DEF TypeOK, StatusTellsTheTruth, HolderInv, Holds, HolderSteps, RanSteps, JobInv, Steps, Statuses
<1>5. GrantsUsed'
  BY <1>0, <1>1 DEF TypeOK, GrantsUsed, Row
<1>6. AskInv'
  BY <1>0, <1>1 DEF TypeOK, AskInv, JobInv, Steps
<1>7. GrantInv'
  BY GrantFrame DEF TypeOK, Steps
<1>8. RunsInv'
  BY <1>0, <1>1 DEF TypeOK, RunsInv
<1>9. AuditInv'
  <2> SUFFICES ASSUME NEW p \in Proposals, Ran(p)', status'[p] # "lost"
               PROVE  \/ {<<p, "executed">>, <<p, "failed">>} \cap audit' # {}
                      \/ \E d \in Callers : job'[d] = p /\ pc'[d] \in {"executed", "failed"}
    BY DEF AuditInv
  <2>1. CASE job[c] = p
    BY <2>1
  <2>2. CASE job[c] # p
    <3>1. CASE {<<p, "executed">>, <<p, "failed">>} \cap audit # {}
      BY <3>1
    <3>2. CASE \E d \in Callers : job[d] = p /\ pc[d] \in {"executed", "failed"}
      <4>1. PICK d \in Callers : job[d] = p /\ pc[d] \in {"executed", "failed"}
        BY <3>2
      <4>2. pc'[d] = pc[d] /\ job'[d] = p
        BY <2>2, <4>1 DEF TypeOK
      <4>3. QED BY <4>1, <4>2
    <3>3. QED BY <1>0, <3>1, <3>2 DEF AuditInv
  <2>3. QED BY <2>1, <2>2
<1>10. QED BY <1>1, <1>2, <1>3, <1>4, <1>5, <1>6, <1>7, <1>8, <1>9

LEMMA ResolveOutcomeStep ==
  ASSUME IInv, NEW c \in Callers, ResolveOutcome(c)
  PROVE  IInv'
<1> USE DEF IInv, ResolveOutcome, Resolve, Open, Ends, Returns
<1>0. \A x : Ran(x)' <=> Ran(x)
  BY DEF Ran
<1>1. TypeOK'
  BY DEF TypeOK, JobInv, Row, Steps, Statuses, Outcomes, AnyHash
<1>2. JobInv'
  BY <1>0, <1>1 DEF TypeOK, JobInv, Steps
<1>3. HolderInv'
  BY <1>0, <1>1 DEF TypeOK, HolderInv, Holds, HolderSteps, RanSteps, JobInv, Steps
<1>4. StatusTellsTheTruth'
  BY <1>0, <1>1 DEF TypeOK, StatusTellsTheTruth, HolderInv, Holds, HolderSteps, RanSteps, JobInv, Steps, Statuses
<1>5. GrantsUsed'
  BY <1>0, <1>1 DEF TypeOK, GrantsUsed, Row
<1>6. AskInv'
  BY <1>0, <1>1 DEF TypeOK, AskInv, JobInv, Steps
<1>7. GrantInv'
  BY GrantFrame DEF TypeOK, Steps
<1>8. RunsInv'
  BY <1>0, <1>1 DEF TypeOK, RunsInv
<1>9. AuditInv'
  BY <1>0, AuditFrame DEF TypeOK, Statuses, Steps, JobInv
<1>10. QED BY <1>1, <1>2, <1>3, <1>4, <1>5, <1>6, <1>7, <1>8, <1>9

LEMMA MintAnyStep ==
  ASSUME IInv, NEW t \in Tokens, MintAny(t)
  PROVE  IInv'
<1> USE DEF IInv, MintAny, Mint
<1>0. \A x : Ran(x)' <=> Ran(x)
  BY DEF Ran
<1>1. TypeOK'
  BY DEF TypeOK, JobInv, Row, Steps, Statuses, Outcomes, AnyHash
<1>2. JobInv'
  BY <1>0, <1>1 DEF TypeOK, JobInv, Steps
<1>3. HolderInv'
  BY <1>0, <1>1 DEF TypeOK, HolderInv, Holds, HolderSteps, RanSteps, JobInv, Steps
<1>4. StatusTellsTheTruth'
  BY <1>0, <1>1 DEF TypeOK, StatusTellsTheTruth, HolderInv, Holds, HolderSteps, RanSteps, JobInv, Steps, Statuses
<1>5. GrantsUsed'
  BY <1>0, <1>1 DEF TypeOK, GrantsUsed, Row
<1>6. AskInv'
  BY <1>0, <1>1 DEF TypeOK, AskInv, JobInv, Steps
<1>7. GrantInv'
  BY GrantFrame DEF TypeOK, Steps
<1>8. RunsInv'
  BY <1>0, <1>1 DEF TypeOK, RunsInv
<1>9. AuditInv'
  BY <1>0, AuditFrame DEF TypeOK, Statuses, Steps, JobInv
<1>10. QED BY <1>1, <1>2, <1>3, <1>4, <1>5, <1>6, <1>7, <1>8, <1>9

LEMMA TickStep ==
  ASSUME IInv, Tick /\ UNCHANGED <<status, job, audit, runs, restarts>>
  PROVE  IInv'
<1> USE DEF IInv, Tick
<1>0. \A x : Ran(x)' <=> Ran(x)
  BY DEF Ran
<1>1. TypeOK'
  BY DEF TypeOK, JobInv, Row, Steps, Statuses, Outcomes, AnyHash
<1>2. JobInv'
  BY <1>0, <1>1 DEF TypeOK, JobInv, Steps
<1>3. HolderInv'
  BY <1>0, <1>1 DEF TypeOK, HolderInv, Holds, HolderSteps, RanSteps, JobInv, Steps
<1>4. StatusTellsTheTruth'
  BY <1>0, <1>1 DEF TypeOK, StatusTellsTheTruth, HolderInv, Holds, HolderSteps, RanSteps, JobInv, Steps, Statuses
<1>5. GrantsUsed'
  BY <1>0, <1>1 DEF TypeOK, GrantsUsed, Row
<1>6. AskInv'
  BY <1>0, <1>1 DEF TypeOK, AskInv, JobInv, Steps
<1>7. GrantInv'
  BY GrantFrame DEF TypeOK, Steps
<1>8. RunsInv'
  BY <1>0, <1>1 DEF TypeOK, RunsInv
<1>9. AuditInv'
  BY <1>0, AuditFrame DEF TypeOK, Statuses, Steps, JobInv
<1>10. QED BY <1>1, <1>2, <1>3, <1>4, <1>5, <1>6, <1>7, <1>8, <1>9

LEMMA HumanStep ==
  ASSUME IInv, NEW c \in Callers, Human(c)
  PROVE  IInv'
<1> USE DEF IInv, Human, ByHuman, HumanCall, HumanRefused, HumanMutates, LostRace, Check, Valid, Returns
<1>0. \A x : Ran(x)' <=> Ran(x)
  BY DEF Ran
<1>1. TypeOK'
  <2>1. CASE \E t \in Tokens, h \in Hashes : HumanCall(c, t, h)
    BY <2>1 DEF TypeOK, Steps
  <2>2. CASE HumanRefused(c) \/ HumanMutates(c)
    <3>1. AnyHash \in Hashes
      BY DEF AnyHash
    <3>2. /\ pc' = [pc EXCEPT ![c] = "idle"]
          /\ tok' = [tok EXCEPT ![c] = NoToken]
          /\ hash' = [hash EXCEPT ![c] = AnyHash]
          /\ UNCHANGED <<row, clock, grants>>
      BY <2>2
    <3>3. QED BY <3>1, <3>2 DEF TypeOK, Steps
  <2>3. QED BY <2>1, <2>2
<1>2. JobInv'
  BY <1>0, <1>1 DEF TypeOK, JobInv, Steps
<1>3. HolderInv'
  BY <1>0, <1>1 DEF TypeOK, HolderInv, Holds, HolderSteps, RanSteps, JobInv, Steps
<1>4. StatusTellsTheTruth'
  BY <1>0, <1>1 DEF TypeOK, StatusTellsTheTruth, HolderInv, Holds, HolderSteps, RanSteps, JobInv, Steps, Statuses
<1>5. GrantsUsed'
  BY <1>0, <1>1 DEF TypeOK, GrantsUsed, Row
<1>6. AskInv'
  BY <1>0, <1>1 DEF TypeOK, AskInv, JobInv, Steps
<1>7. GrantInv'
  BY GrantFrame DEF TypeOK, Steps
<1>8. RunsInv'
  BY <1>0, <1>1 DEF TypeOK, RunsInv
<1>9. AuditInv'
  BY <1>0, AuditFrame DEF TypeOK, Statuses, Steps, JobInv
<1>10. QED BY <1>1, <1>2, <1>3, <1>4, <1>5, <1>6, <1>7, <1>8, <1>9

LEMMA RestartStep ==
  ASSUME IInv, Restart
  PROVE  IInv'
<1> USE DEF IInv, Restart
<1>0. \A x : Ran(x)' <=> Ran(x)
  BY DEF Ran
<1>1. TypeOK'
  BY DEF TypeOK, JobInv, Row, Steps, Statuses, Outcomes, AnyHash
<1>2. JobInv'
  BY <1>0, <1>1 DEF TypeOK, JobInv, Steps
<1>3. HolderInv'
  BY <1>0, <1>1 DEF TypeOK, HolderInv, Holds, HolderSteps, RanSteps, JobInv, Steps
<1>4. StatusTellsTheTruth'
  BY <1>0, <1>1 DEF TypeOK, StatusTellsTheTruth, HolderInv, Holds, HolderSteps, RanSteps, JobInv, Steps, Statuses
<1>5. GrantsUsed'
  BY <1>0, <1>1 DEF TypeOK, GrantsUsed, Row
<1>6. AskInv'
  BY <1>0, <1>1 DEF TypeOK, AskInv, JobInv, Steps
<1>7. GrantInv'
  BY GrantFrame DEF TypeOK, Steps
<1>8. RunsInv'
  BY <1>0, <1>1 DEF TypeOK, RunsInv
<1>9. AuditInv'
  BY <1>0, <1>1 DEF TypeOK, AuditInv, JobInv, Steps, HolderInv, Holds, HolderSteps, RanSteps
<1>10. QED BY <1>1, <1>2, <1>3, <1>4, <1>5, <1>6, <1>7, <1>8, <1>9

LEMMA InitIInv == Init => IInv
<1> SUFFICES ASSUME Init PROVE IInv
  OBVIOUS
<1> USE DEF Init, TokenInit
<1>1. AnyHash \in Hashes
  BY DEF AnyHash
<1>2. TypeOK
  BY <1>1 DEF TypeOK, Row, Steps, Statuses
<1>3. \A p : ~Ran(p)
  BY DEF Ran
<1>4. JobInv /\ HolderInv /\ StatusTellsTheTruth /\ AskInv
  BY <1>3 DEF JobInv, HolderInv, Holds, HolderSteps, RanSteps, Steps, StatusTellsTheTruth, AskInv
<1>5. GrantsUsed /\ GrantInv /\ RunsInv
  BY DEF GrantsUsed, GrantInv, RunsInv
<1>6. AuditInv
  BY <1>3 DEF AuditInv
<1>7. QED BY <1>2, <1>4, <1>5, <1>6 DEF IInv

LEMMA StutterIInv == IInv /\ UNCHANGED vars => IInv'
<1> SUFFICES ASSUME IInv, UNCHANGED vars PROVE IInv'
  OBVIOUS
<1> USE DEF IInv, vars, tokenVars
<1>1. \A p : Ran(p)' <=> Ran(p)
  BY DEF Ran
<1>2. TypeOK' /\ JobInv' /\ AskInv'
  BY DEF TypeOK, JobInv, AskInv
<1>3. HolderInv' /\ StatusTellsTheTruth'
  BY <1>1 DEF HolderInv, Holds, StatusTellsTheTruth
<1>4. GrantsUsed' /\ RunsInv'
  BY DEF GrantsUsed, RunsInv
<1>5. GrantInv'
  BY GrantFrame
<1>6. AuditInv'
  BY <1>1, AuditFrame
<1>7. QED BY <1>2, <1>3, <1>4, <1>5, <1>6

LEMMA NextIInv == IInv /\ [Next]_vars => IInv'
<1> SUFFICES ASSUME IInv, [Next]_vars PROVE IInv'
  OBVIOUS
<1>1. CASE \E p \in Proposals : Create(p)
  BY <1>1, CreateStep
<1>2. CASE \E t \in Tokens : MintAny(t)
  BY <1>2, MintAnyStep
<1>3. CASE Tick /\ UNCHANGED <<status, job, audit, runs, restarts>>
  BY <1>3, TickStep
<1>4. CASE \E c \in Callers, p \in Proposals : DeclineAudit(c, p)
  BY <1>4, DeclineAuditStep
<1>5. CASE \E c \in Callers, p \in Proposals, t \in Tokens \cup {NoToken} : ApproveGet(c, p, t)
  BY <1>5, ApproveGetStep
<1>6. CASE \E c \in Callers : HandlerStep(c)
  <2>1. PICK c \in Callers : HandlerStep(c)
    BY <1>6
  <2>2. CASE DeclineResolve(c)
    BY <2>2, DeclineResolveStep
  <2>3. CASE Claim(c) \/ ClaimFails(c)
    BY <2>3, ClaimStep, ClaimFailsStep
  <2>4. CASE Unavailable(c) \/ Protected(c) \/ ResolveRejected(c)
    BY <2>4, UnavailableStep, ProtectedStep, ResolveRejectedStep
  <2>5. CASE CheckToken(c) \/ TokenRejected(c) \/ Release(c)
    BY <2>5, CheckTokenStep, TokenRejectedStep, ReleaseStep
  <2>6. CASE ConsumeMarks(c)
    BY <2>6, ConsumeMarksStep
  <2>7. CASE Execute(c) \/ AuditOutcome(c) \/ ResolveOutcome(c)
    BY <2>7, ExecuteStep, AuditOutcomeStep, ResolveOutcomeStep
  <2>8. QED BY <2>1, <2>2, <2>3, <2>4, <2>5, <2>6, <2>7 DEF HandlerStep
<1>7. CASE \E c \in Callers : Human(c)
  BY <1>7, HumanStep
<1>8. CASE Restart
  BY <1>8, RestartStep
<1>9. CASE UNCHANGED vars
  BY <1>9, StutterIInv
<1>10. QED
  BY <1>1, <1>2, <1>3, <1>4, <1>5, <1>6, <1>7, <1>8, <1>9 DEF Next

-----------------------------------------------------------------------------
(* Two more invariants, on top of IInv *)

\* An accepted token was minted for the action it was accepted for: what
\* ConsumeToken read still holds of the row when it marks it.
BoundInv ==
  /\ \A c \in Callers : pc[c] = "checked" =>
       row[tok[c]].state # "absent" /\ row[tok[c]].hash = hash[c]
  /\ \A i \in 1..Len(grants) : row[grants[i][1]].hash = grants[i][2]

\* A claimed proposal has its holder.
ServedInv ==
  \A p \in Proposals : status[p] = "executing" => \E c \in Callers : Holds(c, p)

\* Rows that exist keep their hash and stay, whatever the step.
LEMMA RowsKeepHash ==
  ASSUME IInv, [Next]_vars
  PROVE  \A t \in Tokens : row[t].state # "absent" =>
           row'[t].state # "absent" /\ row'[t].hash = row[t].hash
<1> USE DEF IInv, TypeOK
<1>1. CASE row' = row
  BY <1>1
<1>2. CASE \E t \in Tokens : MintAny(t)
  BY <1>2 DEF MintAny, Mint
<1>3. CASE \E c \in Callers : ConsumeMarks(c)
  BY <1>3 DEF ConsumeMarks, MarkUsed, AskInv, Row
<1>4. [Next]_vars => \/ row' = row
                     \/ \E t \in Tokens : MintAny(t)
                     \/ \E c \in Callers : ConsumeMarks(c)
  BY DEF Next, HandlerStep, vars, tokenVars, Create, DeclineAudit, DeclineResolve, ApproveGet, Claim,
         ClaimFails, Unavailable, Protected, ResolveRejected, CheckToken, Check, TokenRejected, Release,
         Execute, AuditOutcome, ResolveOutcome, Tick, Human, HumanCall, HumanRefused, HumanMutates, Restart
<1>5. QED BY <1>1, <1>2, <1>3, <1>4

\* Who enters ConsumeToken's second half: a call whose checks just passed.
LEMMA CheckedFrom ==
  ASSUME IInv, [Next]_vars, NEW c \in Callers, pc'[c] = "checked"
  PROVE  \/ pc[c] = "checked" /\ tok'[c] = tok[c] /\ hash'[c] = hash[c]
         \/ tok'[c] \in Tokens /\ Valid(tok'[c], hash'[c])
<1> USE DEF IInv, TypeOK, Goes, Ends, Returns
<1>1. CASE UNCHANGED <<pc, tok, hash>>
  BY <1>1
<1>2. CASE \E d \in Callers, p \in Proposals : DeclineAudit(d, p) \/ \E t \in Tokens \cup {NoToken} : ApproveGet(d, p, t)
  BY <1>2 DEF DeclineAudit, ApproveGet
<1>3. CASE \E d \in Callers : HandlerStep(d)
  <2>1. PICK d \in Callers : HandlerStep(d)
    BY <1>3
  <2>2. CASE DeclineResolve(d) \/ ClaimFails(d) \/ ResolveRejected(d) \/ Release(d) \/ ResolveOutcome(d)
    BY <2>2 DEF DeclineResolve, ClaimFails, ResolveRejected, Release, ResolveOutcome
  <2>3. CASE Claim(d) \/ Unavailable(d) \/ Protected(d) \/ TokenRejected(d) \/ Execute(d) \/ AuditOutcome(d)
    BY <2>3 DEF Claim, Unavailable, Protected, TokenRejected, Execute, AuditOutcome
  <2>4. CASE CheckToken(d)
    BY <2>4 DEF CheckToken, Check
  <2>5. CASE ConsumeMarks(d)
    BY <2>5 DEF ConsumeMarks, MarkUsed
  <2>6. QED BY <2>1, <2>2, <2>3, <2>4, <2>5 DEF HandlerStep
<1>4. CASE \E d \in Callers : Human(d)
  BY <1>4 DEF Human, HumanCall, HumanRefused, HumanMutates, Check
<1>5. CASE Restart
  BY <1>5 DEF Restart
<1>6. QED
  BY <1>1, <1>2, <1>3, <1>4, <1>5 DEF Next, vars, tokenVars, Create, MintAny, Mint, Tick

LEMMA BoundStep == IInv /\ BoundInv /\ [Next]_vars => BoundInv'
<1> SUFFICES ASSUME IInv, BoundInv, [Next]_vars PROVE BoundInv'
  OBVIOUS
<1>1. ASSUME NEW c \in Callers, pc'[c] = "checked"
      PROVE  row'[tok'[c]].state # "absent" /\ row'[tok'[c]].hash = hash'[c]
  <2>1. /\ tok'[c] \in Tokens
        /\ row[tok'[c]].state # "absent"
        /\ row[tok'[c]].hash = hash'[c]
    BY <1>1, CheckedFrom DEF BoundInv, Valid, IInv, AskInv
  <2>2. QED BY <2>1, RowsKeepHash
<1>2. ASSUME NEW i \in 1..Len(grants)
      PROVE  row'[grants[i][1]].hash = grants[i][2]
  <2>1. grants[i][1] \in Tokens
    BY DEF IInv, TypeOK
  <2>2. QED BY <2>1, RowsKeepHash DEF IInv, GrantsUsed, BoundInv
<1>3. CASE grants' = grants
  BY <1>1, <1>2, <1>3 DEF BoundInv
<1>4. CASE \E c \in Callers : ConsumeMarks(c)
  <2>1. PICK c \in Callers : ConsumeMarks(c)
    BY <1>4
  <2>2. /\ tok[c] \in Tokens
        /\ <<tok[c], hash[c]>> \in Tokens \X Hashes
        /\ grants \in Seq(Tokens \X Hashes)
    BY <2>1 DEF IInv, AskInv, TypeOK, ConsumeMarks, MarkUsed
  <2>3. grants' = Append(grants, <<tok[c], hash[c]>>)
    BY <2>1 DEF ConsumeMarks, MarkUsed
  <2>4. /\ \A i \in 1..Len(grants) : grants'[i] = grants[i]
        /\ grants'[Len(grants) + 1] = <<tok[c], hash[c]>>
        /\ \A i \in 1..Len(grants') : i \in 1..Len(grants) \/ i = Len(grants) + 1
    BY <2>2, <2>3, AppendFacts
  <2>5. row'[tok[c]].hash = hash[c]
    BY <2>1, <2>2, RowsKeepHash DEF BoundInv, ConsumeMarks, MarkUsed
  <2>6. ASSUME NEW i \in 1..Len(grants')
        PROVE  row'[grants'[i][1]].hash = grants'[i][2]
    BY <1>2, <2>4, <2>5
  <2>7. QED BY <1>1, <2>6 DEF BoundInv
<1>5. [Next]_vars => grants' = grants \/ \E c \in Callers : ConsumeMarks(c)
  BY DEF Next, HandlerStep, vars, tokenVars, Create, DeclineAudit, DeclineResolve, ApproveGet, Claim,
         ClaimFails, Unavailable, Protected, ResolveRejected, CheckToken, Check, TokenRejected, Release,
         Execute, AuditOutcome, ResolveOutcome, MintAny, Mint, Tick, Human, HumanCall, HumanRefused,
         HumanMutates, Restart
<1>6. QED BY <1>3, <1>4, <1>5

LEMMA ServedStep == IInv /\ ServedInv /\ [Next]_vars => ServedInv'
<1> SUFFICES ASSUME IInv, ServedInv, [Next]_vars, NEW p \in Proposals, status'[p] = "executing"
             PROVE  \E c \in Callers : Holds(c, p)'
  BY DEF ServedInv
<1> USE DEF IInv, TypeOK
<1>1. CASE \E c \in Callers : Claim(c) /\ job[c] = p
  <2>1. PICK c \in Callers : Claim(c) /\ job[c] = p
    BY <1>1
  <2>2. QED BY <2>1 DEF Claim, Goes, Holds, HolderSteps
<1>2. CASE ~ \E c \in Callers : Claim(c) /\ job[c] = p
  <2>1. status[p] = "executing"
    BY <1>2 DEF Next, HandlerStep, vars, tokenVars, Create, DeclineAudit, DeclineResolve, ApproveGet,
                Claim, ClaimFails, Unavailable, Protected, ResolveRejected, CheckToken, TokenRejected,
                Release, ConsumeMarks, Execute, AuditOutcome, ResolveOutcome, MintAny, Human, Restart,
                Resolve, Open
  <2>2. PICK c \in Callers : Holds(c, p)
    BY <2>1 DEF ServedInv
  <2>3. pc[c] \in HolderSteps /\ job[c] = p
    BY <2>2 DEF Holds
  <2>4. pc'[c] \in HolderSteps /\ job'[c] = p
    <3> USE <2>3 DEF Goes, HolderSteps, RanSteps
    <3>1. CASE UNCHANGED <<pc, job>>
      BY <3>1
    <3>2. CASE \E d \in Callers, q \in Proposals :
                 DeclineAudit(d, q) \/ \E t \in Tokens \cup {NoToken} : ApproveGet(d, q, t)
      BY <3>2 DEF DeclineAudit, ApproveGet
    <3>3. CASE \E d \in Callers : HandlerStep(d)
      <4>1. PICK d \in Callers : HandlerStep(d)
        BY <3>3
      <4>2. CASE d # c
        BY <4>1, <4>2 DEF HandlerStep, DeclineResolve, Claim, ClaimFails, Unavailable, Protected,
             ResolveRejected, CheckToken, Check, TokenRejected, Release, ConsumeMarks, MarkUsed, Execute,
             AuditOutcome, ResolveOutcome, Ends, Returns
      <4>3. CASE Unavailable(c) \/ Protected(c) \/ TokenRejected(c) \/ Execute(c) \/ AuditOutcome(c)
        BY <4>3 DEF Unavailable, Protected, TokenRejected, Execute, AuditOutcome
      <4>4. CASE CheckToken(c) \/ ConsumeMarks(c)
        BY <4>4 DEF CheckToken, Check, ConsumeMarks, MarkUsed
      <4>5. CASE DeclineResolve(c) \/ Claim(c) \/ ClaimFails(c)
        BY <4>5 DEF DeclineResolve, Claim, ClaimFails
      <4>6. CASE ResolveRejected(c) \/ Release(c) \/ ResolveOutcome(c)
        BY <4>6 DEF ResolveRejected, Release, ResolveOutcome, Resolve, Open
      <4>7. QED BY <4>1, <4>2, <4>3, <4>4, <4>5, <4>6 DEF HandlerStep
    <3>4. CASE \E d \in Callers : Human(d)
      BY <3>4 DEF Human, ByHuman, HumanCall, HumanRefused, HumanMutates, Check, Returns
    <3>5. CASE Restart
      BY <3>5, <2>1 DEF Restart
    <3>6. QED
      BY <3>1, <3>2, <3>3, <3>4, <3>5 DEF Next, vars, tokenVars, Create, MintAny, Mint, Tick
  <2>5. QED BY <2>4 DEF Holds
<1>3. QED BY <1>1, <1>2

-----------------------------------------------------------------------------
(* The theorems *)

\* The strengthening holds in every reachable state.
THEOREM Invariant == Spec => [](IInv /\ BoundInv /\ ServedInv)
<1>1. Init => BoundInv /\ ServedInv
  BY DEF Init, TokenInit, BoundInv, ServedInv
<1>2. QED BY InitIInv, NextIInv, BoundStep, ServedStep, <1>1, PTL DEF Spec

\* Every variable keeps its type, in every handler's every step.
THEOREM TypeCorrect == Spec => []TypeOK
<1>1. IInv => TypeOK
  BY DEF IInv
<1>2. QED BY Invariant, <1>1, PTL

\* However many ConsumeToken calls hold the same unused row, one of them
\* alone is let through: the UPDATE decides, not the check before it.
THEOREM TokensAreSingleUse == Spec => []SingleUse
<1>1. ASSUME IInv PROVE SingleUse
  <2>1. DOMAIN grants = 1..Len(grants)
    BY <1>1 DEF IInv, TypeOK
  <2>2. QED BY <1>1, <2>1 DEF IInv, GrantsUsed, SingleUse
<1>2. QED BY Invariant, <1>1, PTL

\* Every run of a proposal was paid for with a token of its own, minted and
\* accepted for its action, and no proposal runs twice.
THEOREM RunsArePaid == Spec => []RunsArePaidFor
<1>1. ASSUME IInv, BoundInv PROVE RunsArePaidFor
  <2>1. DOMAIN grants = 1..Len(grants) /\ DOMAIN runs = 1..Len(runs)
    BY <1>1 DEF IInv, TypeOK
  <2>2. ASSUME NEW i \in 1..Len(runs)
        PROVE  row[runs[i][2]].hash = HashOf[runs[i][1]]
    <3>1. PICK j \in 1..Len(grants) : grants[j] = <<runs[i][2], HashOf[runs[i][1]]>>
      BY <1>1 DEF IInv, RunsInv
    <3>2. QED BY <1>1, <3>1 DEF BoundInv
  <2>3. QED BY <1>1, <2>1, <2>2 DEF IInv, RunsInv, RunsArePaidFor
<1>2. QED BY Invariant, <1>1, PTL

\* The status of a proposal tells whether the host was touched, declined ones
\* apart.
THEOREM StatusIsTrue == Spec => []StatusTellsTheTruth
<1>1. IInv => StatusTellsTheTruth
  BY DEF IInv
<1>2. QED BY Invariant, <1>1, PTL

\* A run whose handler got past its audit row is in the audit log.
THEOREM AuditIsComplete == Spec => []RunsAreAudited
<1>1. IInv => RunsAreAudited
  BY DEF IInv, AuditInv, RunsAreAudited
<1>2. QED BY Invariant, <1>1, PTL

\* A proposal in "executing" always has the handler that claimed it at work.
THEOREM ClaimsAreServed == Spec => []ExecutingIsServed
<1>1. ServedInv => ExecutingIsServed
  BY DEF ServedInv, Holds, HolderSteps, RanSteps, ExecutingIsServed
<1>2. QED BY Invariant, <1>1, PTL

\* The approval path with its handlers, rows and restarts implements the
\* abstract promise that every run is confirmed by a token of its own.
THEOREM Refinement == Spec => ImplementsConfirmedExecution
<1>1. Init => Confirmed!Init
  BY DEF Init, Confirmed!Init
<1>2. ASSUME IInv, IInv', [Next]_vars
      PROVE  [Confirmed!Next]_runs
  <2>1. CASE runs' = runs
    BY <2>1
  <2>2. CASE \E c \in Callers : Execute(c)
    <3>1. PICK c \in Callers : Execute(c)
      BY <2>2
    <3>2. job[c] \in Proposals /\ tok[c] \in Tokens
      BY <1>2, <3>1 DEF IInv, TypeOK, AskInv, Execute, ByHuman
    <3>3. /\ runs' = Append(runs, <<job[c], tok[c]>>)
          /\ <<job[c], tok[c]>> \in Proposals \X Tokens
          /\ runs \in Seq(Proposals \X Tokens)
      BY <1>2, <3>1, <3>2 DEF IInv, TypeOK, Execute
    <3>4. /\ Len(runs) + 1 \in 1..Len(runs')
          /\ runs'[Len(runs) + 1] = <<job[c], tok[c]>>
          /\ \A i \in 1..Len(runs) : runs'[i] = runs[i] /\ i \in 1..Len(runs') /\ i # Len(runs) + 1
      BY <3>3, AppendFacts
    <3>5. \A i \in 1..Len(runs) : runs[i][1] # job[c] /\ runs[i][2] # tok[c]
      BY <1>2, <3>4 DEF IInv, RunsInv
    <3>6. Confirmed!Run(job[c], tok[c])
      BY <3>3, <3>5 DEF Confirmed!Run
    <3>7. QED BY <3>2, <3>6 DEF Confirmed!Next
  <2>3. [Next]_vars => runs' = runs \/ \E c \in Callers : Execute(c)
    BY DEF Next, HandlerStep, vars, tokenVars, Create, DeclineAudit, DeclineResolve, ApproveGet, Claim,
           ClaimFails, Unavailable, Protected, ResolveRejected, CheckToken, TokenRejected, Release,
           ConsumeMarks, AuditOutcome, ResolveOutcome, MintAny, Human, Restart
  <2>4. QED BY <1>2, <2>1, <2>2, <2>3
<1>3. QED BY Invariant, <1>1, <1>2, PTL DEF Spec, ImplementsConfirmedExecution, Confirmed!Spec
=============================================================================
