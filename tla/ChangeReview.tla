----------------------------- MODULE ChangeReview -----------------------------
(***************************************************************************)
(* A project's changes on their way from the agent's working tree to       *)
(* HEAD: the review decisions recorded in the audit table and the commit   *)
(* of an approved change set.  The confirmed push is HostMutations'.       *)
(*                                                                         *)
(* The content of a file is a revision, review.revision's digest of it; it *)
(* is Gone when there is no such file, and the digest is then the empty    *)
(* string, which is also what a map gives for a name it does not hold.     *)
(* The agent edits, stages and commits in the same tree at any time, since *)
(* every git command of a handler is a process of its own.                 *)
(***************************************************************************)
EXTENDS Naturals, Sequences, FiniteSets, SequencesExt

CONSTANTS
  Files, Reviewers,
  ListLimit,     \* the 50 of requireApproved
  MaxRevision,   \* bound: revisions of a file
  MaxAudit       \* bound: review decisions

VARIABLES
  work, index, head,   \* what each file is in the tree, the index and HEAD
  audit,         \* the review decisions, oldest first
  tokens,        \* tokens for an approval, minted and not used: the files each is bound to
  reviewer,      \* each connection's handler
  came           \* history: how what the index holds of each file came into it

git == <<work, index, head>>
reviewVars == <<git, audit, tokens, reviewer, came>>

Gone == 0
Unread == [f \in Files |-> Gone]
Free == [at |-> "idle", decision |-> "approve", files |-> {}, wide |-> {}, entries |-> {},
         unread |-> {}, listed |-> {}, revisions |-> Unread, late |-> {}]
Goes(r, next) == reviewer' = [reviewer EXCEPT ![r] = next]

\* A file comes into the index by way of a handler's check, or beside it: staged by
\* the agent; written by it after the check had read the file ("late", which the
\* handler's record notes); or matched by a name the check had dropped ("wide").
Ways == {"checked", "staged", "late", "wide"}
Clean == [f \in Files |-> "checked"]

-----------------------------------------------------------------------------
(* review.Status: git status lists the changed files, and each is then     *)
(* digested by a git hash-object of its own.                               *)

Changed == {f \in Files : work[f] # head[f] \/ index[f] # head[f]}

\* Of what status lists, revisionsFor and currentRevisions keep the files named.
Listed(c, at) == [c EXCEPT !.at = at, !.listed = c.files \cap Changed, !.unread = c.files \cap Changed]

StatusReads(r, f) ==
  LET c == reviewer[r] IN
  /\ f \in c.unread
  /\ Goes(r, [c EXCEPT !.unread = @ \ {f}, !.revisions[f] = work[f]])
  /\ UNCHANGED <<git, audit, tokens, came>>

-----------------------------------------------------------------------------
(* auth.confirm, review.approve, review.reject, review.revise *)

\* The token is bound to the names of the files, not to their revisions.
Confirm(fs) ==
  /\ fs \notin tokens
  /\ Len(audit) + Cardinality(tokens) < MaxAudit
  /\ tokens' = tokens \cup {fs}
  /\ UNCHANGED <<git, audit, reviewer, came>>

ApproveConsumes(r, fs) ==
  /\ reviewer[r].at = "idle"
  /\ fs \in tokens
  /\ tokens' = tokens \ {fs}
  /\ Goes(r, [Free EXCEPT !.at = "deciding", !.files = fs])
  /\ UNCHANGED <<git, audit, came>>

\* A decision that needs no token; it leaves an approval standing.
Reject(r, fs) ==
  /\ reviewer[r].at = "idle" /\ Len(audit) < MaxAudit
  /\ Goes(r, [Free EXCEPT !.at = "deciding", !.decision = "reject", !.files = fs])
  /\ UNCHANGED <<git, audit, tokens, came>>

\* recordDecision: the revisions are read when the decision is recorded.
DecisionLists(r) ==
  /\ reviewer[r].at = "deciding"
  /\ Goes(r, Listed(reviewer[r], "recording"))
  /\ UNCHANGED <<git, audit, tokens, came>>

DecisionRecords(r) ==
  LET c == reviewer[r] IN
  /\ c.at = "recording" /\ c.unread = {} /\ Len(audit) < MaxAudit
  /\ audit' = Append(audit, [decision |-> c.decision, files |-> c.files,
                              listed |-> c.listed, revisions |-> c.revisions])
  /\ Goes(r, Free)
  /\ UNCHANGED <<git, tokens, came>>

-----------------------------------------------------------------------------
(* github.commit *)

\* requireApproved: the newest approvals are listed, then the revisions are read.
Approvals == {i \in DOMAIN audit : audit[i].decision = "approve"}
Newest == {i \in Approvals : Cardinality({j \in Approvals : j > i}) < ListLimit}

\* Of the names sent, normalized keeps those of fs; the ones it drops (".", an
\* absolute path) match the files of wide.
CommitLists(r, fs, wide) ==
  /\ reviewer[r].at = "idle"
  /\ Goes(r, [Free EXCEPT !.at = "requiring", !.files = fs, !.wide = wide \ fs,
                          !.entries = {audit[i] : i \in Newest}])
  /\ UNCHANGED <<git, audit, tokens, came>>

CommitStatus(r) ==
  /\ reviewer[r].at = "requiring"
  /\ Goes(r, Listed(reviewer[r], "checking"))
  /\ UNCHANGED <<git, audit, tokens, came>>

\* Mutant: an approval of the same files will do, whatever they held.
ApprovesFiles(e, c) == e.files = c.files /\ e.listed # {}

\* revisionsMatch compares what the two maps give for each name.
Approves(e, c) ==
  /\ e.files = c.files
  /\ e.listed # {}
  /\ \A f \in c.files : e.revisions[f] = c.revisions[f]

CommitChecks(r) ==
  LET c == reviewer[r] IN
  /\ c.at = "checking" /\ c.unread = {}
  /\ IF c.listed = c.files /\ \E e \in c.entries : Approves(e, c)
     THEN Goes(r, [c EXCEPT !.at = "adding", !.entries = {}, !.revisions = Unread])
     ELSE Goes(r, Free)
  /\ UNCHANGED <<git, audit, tokens, came>>

\* "git add --" takes the names as they were sent, and adds nothing when one of
\* them is neither in the tree nor in the index.
CommitAdds(r) ==
  LET c == reviewer[r] IN
  /\ c.at = "adding"
  /\ IF \E f \in c.files : work[f] = Gone /\ index[f] = Gone
     THEN Goes(r, Free) /\ UNCHANGED <<index, came>>
     ELSE /\ index' = [f \in Files |-> IF f \in c.files \cup c.wide THEN work[f] ELSE index[f]]
          /\ came' = [f \in Files |-> IF f \in c.wide THEN "wide"
                                      ELSE IF f \notin c.files THEN came[f]
                                      ELSE IF f \in c.late THEN "late" ELSE "checked"]
          /\ Goes(r, [Free EXCEPT !.at = "committing"])
  /\ UNCHANGED <<work, head, audit, tokens>>

Staged == {f \in Files : index[f] # head[f]}

\* "git commit -m" takes the whole index; it fails when there is nothing in it.
CommitCommits(r) ==
  /\ reviewer[r].at = "committing"
  /\ head' = index
  /\ came' = Clean
  /\ Goes(r, Free)
  /\ UNCHANGED <<work, index, audit, tokens>>

-----------------------------------------------------------------------------
(* The agent *)

\* The check has read the file, and it is not added yet.
UnderCommit(c, f) == c.at \in {"checking", "adding"} /\ f \in c.listed \ c.unread

\* Writes a file anew, or deletes it.  Bound: no content comes back, and a deletion
\* that is staged is final.
AgentWrites(f, n) ==
  /\ n # work[f]
  /\ n # Gone => n > work[f] /\ n > index[f] /\ n > head[f] /\ index[f] # Gone
  /\ work' = [work EXCEPT ![f] = n]
  /\ reviewer' = [r \in Reviewers |-> IF UnderCommit(reviewer[r], f)
                                      THEN [reviewer[r] EXCEPT !.late = @ \cup {f}]
                                      ELSE reviewer[r]]
  /\ UNCHANGED <<index, head, audit, tokens, came>>

AgentStages(f) ==
  /\ index[f] # work[f]
  /\ index' = [index EXCEPT ![f] = work[f]]
  /\ came' = [came EXCEPT ![f] = "staged"]
  /\ UNCHANGED <<work, head, audit, tokens, reviewer>>

AgentCommits ==
  /\ head # index
  /\ head' = index
  /\ came' = Clean
  /\ UNCHANGED <<work, index, audit, tokens, reviewer>>

ReviewInit ==
  /\ work = [f \in Files |-> 1] /\ index = work /\ head = work
  /\ audit = <<>> /\ tokens = {}
  /\ reviewer = [r \in Reviewers |-> Free]
  /\ came = Clean

FileSets == SUBSET Files \ {{}}

ReviewNext ==
  \/ \E fs \in FileSets :
       \/ Confirm(fs)
       \/ \E r \in Reviewers : ApproveConsumes(r, fs) \/ Reject(r, fs)
       \/ \E r \in Reviewers, wide \in SUBSET Files : CommitLists(r, fs, wide)
  \/ \E r \in Reviewers :
       \/ DecisionLists(r) \/ DecisionRecords(r)
       \/ CommitStatus(r) \/ CommitChecks(r) \/ CommitAdds(r) \/ CommitCommits(r)
       \/ \E f \in Files : StatusReads(r, f)
  \/ \E f \in Files : AgentStages(f) \/ \E n \in Gone..MaxRevision : AgentWrites(f, n)
  \/ AgentCommits

ReviewSpec == ReviewInit /\ [][ReviewNext]_reviewVars

-----------------------------------------------------------------------------
Trees == [Files -> Gone..MaxRevision]
AuditRecord == [decision : {"approve", "reject"}, files : SUBSET Files, listed : SUBSET Files,
                revisions : Trees]
Handler == [at : {"idle", "deciding", "recording", "requiring", "checking", "adding", "committing"},
            decision : {"approve", "reject"}, files : SUBSET Files, wide : SUBSET Files,
            entries : SUBSET AuditRecord, unread : SUBSET Files, listed : SUBSET Files,
            revisions : Trees, late : SUBSET Files]

ReviewTypeOK ==
  /\ work \in Trees /\ index \in Trees /\ head \in Trees
  /\ audit \in Seq(AuditRecord) /\ Len(audit) <= MaxAudit
  /\ tokens \subseteq FileSets
  /\ reviewer \in [Reviewers -> Handler]
  /\ came \in [Files -> Ways]

Granted == {e \in ToSet(audit) : e.decision = "approve" /\ e.listed # {}}

\* An approval says of each file it names what it was, and of one that had no
\* change what it says of a deleted one.
Approved(f, n) == \E e \in Granted : f \in e.files /\ e.revisions[f] = n
Reviewed(f, n) == \E e \in Granted : f \in e.listed /\ e.revisions[f] = n

\* What the commit of a handler takes in by one of these ways.
TakenIn(f, ways) == f \in Staged /\ came[f] \in ways /\ \E r \in Reviewers : reviewer[r].at = "committing"

\* What a commit takes in by way of its check was approved as it is, whatever
\* the agent writes, stages, deletes and commits in between (Commit,
\* requireApproved).  Left out are the ways in that go around the check: what the
\* agent has staged itself, what it wrote after the check had read the file, and
\* what a name brought in that the check had dropped; and a file an approval
\* names without a revision of it counts as approved for deletion.
CommitsAreExplained == \A f \in Files : TakenIn(f, {"checked"}) => Approved(f, index[f])

\* The inductive invariant: what a handler listed are approvals, what its check
\* has read is still there or was written late, and what it is about to add, and
\* what is in the index for the next commit, was approved.
ReviewInv ==
  /\ ReviewTypeOK /\ CommitsAreExplained
  /\ \A r \in Reviewers : LET c == reviewer[r] IN
       /\ \A e \in c.entries : e \in ToSet(audit) /\ e.decision = "approve"
       /\ c.at = "checking" => \A f \in c.listed \ (c.unread \cup c.late) : work[f] = c.revisions[f]
       /\ c.at = "adding" => \A f \in c.files \ c.late : Approved(f, work[f])
       /\ c.at = "adding" => c.listed = c.files /\ c.unread = {}
  /\ \A f \in Staged : came[f] = "checked" => Approved(f, index[f])

\* "Commit requires an approved change set (no committing un-reviewed agent
\* output)".
\* Not so: the commit takes all that the agent has staged.
CommitsOnlyApproved ==
  \A f \in Files : TakenIn(f, {"checked", "staged"}) => Approved(f, index[f])

\* The same promise, of the names: what is added is what was checked.
\* Not so: a name that normalized drops is checked by nobody and added all the same.
CommitsOnlyNamed ==
  \A f \in Files : TakenIn(f, {"checked", "wide"}) => Approved(f, index[f])

\* "approval must be bound to the reviewed revision, not just to the path list".
\* Not so: an approval that names a file with no change approves its deletion.
CommitsOnlyReviewed ==
  \A f \in Files : TakenIn(f, {"checked"}) => Reviewed(f, index[f])
=============================================================================
