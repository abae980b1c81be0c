------------------------------ MODULE HostMutations ------------------------------
(***************************************************************************)
(* The handlers that change the host for a human: docker.container.action, *)
(* infra.service.action, infra.system.reboot, infra.webserver.action,      *)
(* infra.process.kill, infra.firewall.rule_*, storage.clean,               *)
(* storage.delete and security.fix, from the frame to its audit row.       *)
(*                                                                         *)
(* All have one shape.  A frame whose request id is known is answered as a *)
(* replay.  Otherwise a guard may refuse the request, the confirmation     *)
(* token is consumed, a manager is called, and every outcome but a         *)
(* malformed request is audited.  The connection's read loop does this     *)
(* frame by frame, other connections at the same time, and the agent may   *)
(* die between any two steps, with the host changed and the token used.    *)
(*                                                                         *)
(* A user's tap is one frame, which the phone sends again over another     *)
(* connection when it misses the answer.                                   *)
(***************************************************************************)
EXTENDS ConfirmationTokens, FiniteSets

CONSTANTS
  Frames,        \* request ids: each names one frame
  NoFrame,
  RightHash,     \* the action hash of the request
  MaxCrashes     \* bound: restarts of the agent

ASSUME CallersAssumption == IsFiniteSet(Callers)
ASSUME NoFrameAssumption == NoFrame \notin Frames \cup Tokens \cup {NoToken}
ASSUME RightHashAssumption == RightHash \in Hashes
ASSUME CrashesAssumption == MaxCrashes \in Nat

VARIABLES
  request,   \* what the frames ask for
  carries,   \* the token each frame carries
  known,     \* idSet: the request ids that are remembered
  serving,   \* the frame each connection serves
  outcome,   \* what the manager answered and whether it touched the host
  touched,   \* history: the <<frame, token>> pairs that changed the host
  audit,     \* audit rows: the frames refused or failed, and the frames done
  crashes

hostVars == <<tokenVars, request, carries, known, serving, outcome, touched, audit, crashes>>
frameVars == <<request, carries, known, serving, outcome, touched, audit, crashes>>

(***************************************************************************)
(* The requests.  A target is protected when it is the agent's own unit or *)
(* sshd's, a protected process or path, or the port of sshd.               *)
(***************************************************************************)
Targets == {"ordinary", "protected"}
Requests ==
  [kind : {"docker"}, verb : {"restart", "unsupported"}, target : {"ordinary"}]
  \cup [kind : {"service"}, verb : {"restart", "stop", "unsupported"}, target : Targets]
  \cup [kind : {"reboot"}, verb : {"reboot"}, target : {"ordinary"}]
  \cup [kind : {"webserver"}, verb : {"restart", "reload", "unsupported"}, target : {"ordinary"}]
  \cup [kind : {"kill"}, verb : {"TERM", "unsupported"}, target : Targets]
  \cup [kind : {"firewall"}, verb : {"deny", "unsupported"}, target : Targets]
  \cup [kind : {"clean"}, verb : {"cache", "tmp_files", "unsupported"}, target : {"ordinary"}]
  \cup [kind : {"delete"}, verb : {"file", "directory", "tree"}, target : Targets]
  \cup [kind : {"fix"}, verb : {"close_port", "kill_process"}, target : Targets]
  \cup [kind : {"fix"}, verb : {"enable_auditd", "unsupported"}, target : {"ordinary"}]

(***************************************************************************)
(* What the managers may answer.                                           *)
(***************************************************************************)
Done == [ok |-> TRUE, touched |-> TRUE]
Nothing == [ok |-> TRUE, touched |-> FALSE]
Refused == [ok |-> FALSE, touched |-> FALSE]
Broken == [ok |-> FALSE, touched |-> TRUE]    \* failed half-way, or the answer was lost
Answers == {Done, Nothing, Refused, Broken}

\* docker.Manager.ContainerAction: one POST, which may time out.
DockerAction(r) == {Done, Refused, Broken}

\* systemd.Manager.Action: only the allowed verbs reach systemctl.
SystemdAction(r) == IF r.verb = "unsupported" \/ (r.verb = "stop" /\ r.target = "protected")
                      THEN {Refused} ELSE {Done, Refused, Broken}

\* webserver.Manager.Action hands its verb to systemd.Manager.Action, which
\* has no reload.
WebserverAction(r) == IF r.verb = "restart" THEN {Done, Refused, Broken} ELSE {Refused}

\* process.Manager.Kill: see ProcessKill.
KillAction(r) == IF r.verb = "unsupported" THEN {Refused} ELSE {Done, Refused, Broken}

\* firewall.Manager.RuleAdd: see Firewall.
FirewallAction(r) == IF r.verb = "unsupported" \/ r.target = "protected"
                       THEN {Refused} ELSE {Done, Refused, Broken}

\* storage.Manager.Clean: a cache of several directories may be cleared in
\* part; old temporary files are removed as far as it goes and never fail.
CleanAction(r) == CASE r.verb = "cache" -> {Done, Nothing, Refused, Broken}
                    [] r.verb = "tmp_files" -> {Done, Nothing}
                    [] OTHER -> {Refused}

\* storage.Manager.DeletePath of a file, of a directory, and of a directory with
\* recursive ("tree"), of which RemoveAll may leave a part.
DeleteAction(r) == CASE r.verb = "directory" -> {Refused}
                     [] r.verb = "tree"      -> {Done, Refused, Broken}
                     [] OTHER                -> {Done, Refused}

\* auditd may be active already, and may be installed and fail to start.
EnableAuditd == {Done, Nothing, Refused, Broken}

\* security.Manager.Fix.
FixAction(r) == CASE r.verb = "close_port" -> FirewallAction([r EXCEPT !.verb = "deny"])
                  [] r.verb = "kill_process" ->
                       IF r.target = "protected" THEN {Refused} ELSE KillAction(r)
                  [] r.verb = "enable_auditd" -> EnableAuditd
                  [] OTHER -> {Refused}

(***************************************************************************)
(* The handlers: whether one refuses a request before it looks at the      *)
(* token, whether that refusal is audited (a malformed fix is answered     *)
(* bad_payload and leaves no row), and what the manager it calls may       *)
(* answer.                                                                 *)
(***************************************************************************)
Handler(refuses, audited, answers) ==
  [refuses |-> refuses, audited |-> audited, answers |-> answers]

DockerHandler(r) == Handler(r.verb = "unsupported", TRUE, DockerAction(r))

\* Only a stop (or a disable) of a protected unit is refused early.
ServiceHandler(r) ==
  Handler(r.verb = "stop" /\ r.target = "protected", TRUE, SystemdAction(r))

RebootHandler(r) == Handler(FALSE, TRUE, SystemdAction(r))

WebserverHandler(r) == Handler(r.verb = "unsupported", TRUE, WebserverAction(r))

KillHandler(r) == Handler(r.target = "protected", TRUE, KillAction(r))

\* The anti-lockout guard is the manager's: it costs the token.
FirewallHandler(r) == Handler(FALSE, TRUE, FirewallAction(r))

CleanHandler(r) == Handler(FALSE, TRUE, CleanAction(r))

DeleteHandler(r) == Handler(r.target = "protected", TRUE, DeleteAction(r))

FixHandler(r) == Handler(r.verb = "unsupported", FALSE, FixAction(r))

HandlerOf(r) == CASE r.kind = "docker" -> DockerHandler(r)
                  [] r.kind = "service" -> ServiceHandler(r)
                  [] r.kind = "reboot" -> RebootHandler(r)
                  [] r.kind = "webserver" -> WebserverHandler(r)
                  [] r.kind = "kill" -> KillHandler(r)
                  [] r.kind = "firewall" -> FirewallHandler(r)
                  [] r.kind = "clean" -> CleanHandler(r)
                  [] r.kind = "delete" -> DeleteHandler(r)
                  [] r.kind = "fix" -> FixHandler(r)

EarlyRefusal(r) == HandlerOf(r).refuses
Unaudited(r) == EarlyRefusal(r) /\ ~HandlerOf(r).audited
Outcomes(r) == HandlerOf(r).answers

(***************************************************************************)
(* The phone.                                                              *)
(***************************************************************************)
\* auth.confirm mints a token for the request, or for another one.
Confirm(t, h) == Mint(t, h) /\ UNCHANGED frameVars

\* The user's tap: a frame with a token minted before, or none.
Tap(f, t) ==
  /\ carries[f] = NoFrame
  /\ t # NoToken => row[t].state # "absent"
  /\ carries' = [carries EXCEPT ![f] = t]
  /\ UNCHANGED <<tokenVars, request, known, serving, outcome, touched, audit, crashes>>

(***************************************************************************)
(* The connection.                                                         *)
(***************************************************************************)
AuditRow(f, ok) == [frame |-> f, ok |-> ok]
Log(f, ok) == IF Unaudited(request) THEN audit' = audit ELSE audit' = audit \cup {AuditRow(f, ok)}

Leaves(c) ==
  /\ Returns(c)
  /\ serving' = [serving EXCEPT ![c] = NoFrame]
  /\ outcome' = [outcome EXCEPT ![c] = Nothing]

\* handleWS: a frame arrives, for the first time or again.  Its id is known
\* from here on, whatever becomes of it.
Replayed(f) == f \in known

Arrives(c, f) ==
  /\ pc[c] = "idle" /\ serving[c] = NoFrame
  /\ carries[f] # NoFrame
  /\ ~Replayed(f)
  /\ known' = known \cup {f}
  /\ serving' = [serving EXCEPT ![c] = f]
  /\ UNCHANGED <<tokenVars, request, carries, outcome, touched, audit, crashes>>

\* The guard, before the token.
Guard(c) ==
  /\ pc[c] = "idle" /\ serving[c] # NoFrame
  /\ EarlyRefusal(request)
  /\ Log(serving[c], FALSE)
  /\ serving' = [serving EXCEPT ![c] = NoFrame]
  /\ UNCHANGED <<tokenVars, request, carries, known, outcome, touched, crashes>>

\* Mutant: the guard is left to the manager.
ConsumesFirst(c) ==
  LET t == carries[serving[c]] IN
  /\ pc[c] = "idle" /\ serving[c] # NoFrame
  /\ t # NoToken /\ Check(c, t, RightHash)
  /\ UNCHANGED frameVars

\* ConsumeToken reads the row; what it does not accept is audited.
Consumes(c) ==
  LET t == carries[serving[c]] IN
  /\ pc[c] = "idle" /\ serving[c] # NoFrame
  /\ ~EarlyRefusal(request)
  /\ t # NoToken /\ Check(c, t, RightHash)
  /\ UNCHANGED frameVars

NotAccepted(c) ==
  LET t == carries[serving[c]] IN
  /\ pc[c] = "idle" /\ serving[c] # NoFrame
  /\ ~EarlyRefusal(request)
  /\ ~(t # NoToken /\ Valid(t, RightHash))
  /\ Log(serving[c], FALSE)
  /\ serving' = [serving EXCEPT ![c] = NoFrame]
  /\ UNCHANGED <<tokenVars, request, carries, known, outcome, touched, crashes>>

Granted(c) == MarkUsed(c) /\ UNCHANGED frameVars

AlreadyUsed(c) ==
  /\ LostRace(c)
  /\ Log(serving[c], FALSE)
  /\ Leaves(c)
  /\ UNCHANGED <<row, clock, grants, request, carries, known, touched, crashes>>

\* The manager's call.
Executes(c) ==
  /\ pc[c] = "granted"
  /\ \E o \in Outcomes(request) :
       /\ outcome' = [outcome EXCEPT ![c] = o]
       /\ touched' = IF o.touched THEN Append(touched, <<serving[c], tok[c]>>) ELSE touched
  /\ pc' = [pc EXCEPT ![c] = "ran"]
  /\ UNCHANGED <<row, clock, tok, hash, grants, request, carries, known, serving, audit, crashes>>

\* Mutant: a failure after the token is answered and not audited.
AuditsSuccess(c) ==
  /\ pc[c] = "ran"
  /\ audit' = IF outcome[c].ok THEN audit \cup {AuditRow(serving[c], TRUE)} ELSE audit
  /\ Leaves(c)
  /\ UNCHANGED <<row, clock, grants, request, carries, known, touched, crashes>>

\* audit*: the row says what the manager answered; then the answer.
Audits(c) ==
  /\ pc[c] = "ran"
  /\ Log(serving[c], outcome[c].ok)
  /\ Leaves(c)
  /\ UNCHANGED <<row, clock, grants, request, carries, known, touched, crashes>>

\* An id is forgotten at its window's end or at capacity (see ReplayGuard).
Forgets(f) ==
  /\ f \in known
  /\ known' = known \ {f}
  /\ UNCHANGED <<tokenVars, request, carries, serving, outcome, touched, audit, crashes>>

Ages == Tick /\ UNCHANGED frameVars

\* The agent dies, by a reboot of the host or otherwise, and starts again: the
\* ids are gone, tokens and audit rows are not.
Crash ==
  /\ crashes < MaxCrashes
  /\ crashes' = crashes + 1
  /\ known' = {}
  /\ pc' = [c \in Callers |-> "idle"]
  /\ tok' = [c \in Callers |-> NoToken]
  /\ hash' = [c \in Callers |-> AnyHash]
  /\ serving' = [c \in Callers |-> NoFrame]
  /\ outcome' = [c \in Callers |-> Nothing]
  /\ UNCHANGED <<row, clock, grants, request, carries, touched, audit>>

HostInit ==
  /\ TokenInit
  /\ request \in Requests
  /\ carries = [f \in Frames |-> NoFrame]
  /\ known = {}
  /\ serving = [c \in Callers |-> NoFrame]
  /\ outcome = [c \in Callers |-> Nothing]
  /\ touched = << >>
  /\ audit = {}
  /\ crashes = 0

HostNext ==
  \/ \E t \in Tokens, h \in Hashes : Confirm(t, h)
  \/ \E f \in Frames, t \in Tokens \cup {NoToken} : Tap(f, t)
  \/ \E c \in Callers :
       \/ \E f \in Frames : Arrives(c, f)
       \/ Guard(c) \/ Consumes(c) \/ NotAccepted(c)
       \/ Granted(c) \/ AlreadyUsed(c) \/ Executes(c) \/ Audits(c)
  \/ \E f \in Frames : Forgets(f)
  \/ Ages
  \/ Crash

HostSpec == HostInit /\ [][HostNext]_hostVars

\* Types of the variables.
HostTypeOK ==
  /\ row \in [Tokens -> Row]
  /\ clock \in Nat
  /\ pc \in [Callers -> {"idle", "checked", "granted", "ran"}]
  /\ tok \in [Callers -> Tokens \cup {NoToken}]
  /\ hash \in [Callers -> Hashes]
  /\ grants \in Seq(Tokens \X Hashes)
  /\ request \in Requests
  /\ carries \in [Frames -> Tokens \cup {NoToken, NoFrame}]
  /\ known \subseteq Frames
  /\ serving \in [Callers -> Frames \cup {NoFrame}]
  /\ outcome \in [Callers -> Answers]
  /\ touched \in Seq(Frames \X Tokens)
  /\ audit \subseteq [frame : Frames, ok : BOOLEAN]
  /\ crashes \in Nat

(***************************************************************************)
(* What the handlers promise.                                              *)
(***************************************************************************)
Positions(s) == 1..Len(s)

\* One tap changes the host at most once: however often the phone sends the
\* frame, over however many connections, whether or not the id is remembered
\* and whenever the agent dies, and so does one token in two frames.
OncePerTap ==
  \A i, j \in Positions(touched) :
    i # j => touched[i][1] # touched[j][1] /\ touched[i][2] # touched[j][2]

\* server.go:1949: the guard runs "BEFORE consuming the token so the caller
\* can't burn a token": no frame of a request that its handler refuses by
\* itself costs a token, and each leaves a row that says so.
RefusalsAreFree ==
  EarlyRefusal(request) =>
    /\ grants = << >>
    /\ \A a \in audit : ~a.ok

\* A tap is worth one change of the host, and a refused one costs nothing.
TapsAreSafe == OncePerTap /\ RefusalsAreFree

Accounted(f) ==
  \/ \E a \in audit : a.frame = f
  \/ \E c \in Callers : pc[c] = "ran" /\ serving[c] = f

\* The trail tells what happened: a row of success was paid for with the
\* frame's own token, and a change of the host without a row is one whose
\* handler is still running or died with the agent, one for a connection.
TrailMatchesHost ==
  /\ \A a \in audit : a.ok => row[carries[a.frame]].state = "used"
  /\ Cardinality({i \in Positions(touched) : ~Accounted(touched[i][1])})
       <= crashes * Cardinality(Callers)
=============================================================================
