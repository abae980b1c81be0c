-------------------------------- MODULE Firewall --------------------------------
(***************************************************************************)
(* firewall.Manager with its two backends, the callers that change rules   *)
(* (infra.firewall.rule_add and rule_remove, security.fix close_port, each *)
(* after its confirmation token), and the security audit that reads the    *)
(* result back.                                                            *)
(*                                                                         *)
(* The anti-lockout guard samples the ports of sshd and the rule is handed *)
(* to ufw or firewall-cmd in a later step, so sshd, the administrator and  *)
(* another connection may act in between.                                  *)
(***************************************************************************)
EXTENDS Naturals, FiniteSets

CONSTANTS
  Ports,         \* port numbers
  DefaultSsh,    \* 22: what SSHFromSockets answers when it finds no sshd
  FwCallers,     \* handler goroutines
  MaxChanges     \* bound: changes of a rule set, by anybody

Protocols == {"tcp", "udp", "any"}
Rule == [action : {"allow", "deny"}, proto : Protocols, port : Ports]
Socket == {"tcp", "udp"} \X Ports     \* a public listening socket: its protocol and port

VARIABLES
  backend,     \* what detect finds: "ufw", "firewalld" or "none"
  rules,       \* the rules set: ufw's own, firewalld's of the running zone
  active,      \* whether ufw is enabled; it takes rules also when it is not
  saved,       \* firewalld: the permanent rules, in force after a reload
  sshd,        \* the ports sshd listens on
  seesOwner,   \* whether the agent may read the owner of sshd's sockets
  fwOp,        \* each handler's request and the SSH ports it sampled
  closed,      \* history: sockets security.fix closed and nobody opened since
  changes

firewallVars == <<backend, rules, active, saved, sshd, seesOwner, fwOp, closed, changes>>

NoRule == [action |-> "allow", proto |-> "any", port |-> DefaultSsh]
NoOp == [at |-> "idle", verb |-> "add", rule |-> NoRule, ssh |-> {}, fix |-> FALSE]

Covers(r, proto, port) == r.port = port /\ r.proto \in {proto, "any"}

\* The rules the backend keeps: firewalld's are in force after a reload.
Kept == IF backend = "firewalld" THEN saved ELSE rules

\* SSHFromSockets.SSHPorts: the sockets owned by sshd, and 22 when there are
\* none or their owner cannot be read.
SSHPorts == IF seesOwner /\ sshd # {} THEN sshd ELSE {DefaultSsh}

\* ufw replaces the rule for the same port and protocol, firewalld has allowed
\* ports only, "any" meaning tcp, and changes its permanent set.
Proto(r) == IF r.proto = "any" THEN "tcp" ELSE r.proto
Zone(r) == [action |-> "allow", proto |-> Proto(r), port |-> r.port]
UfwWith(r) == {q \in rules : q.proto # r.proto \/ q.port # r.port} \cup {r}

(***************************************************************************)
(* RuleAdd and RuleRemove up to the backend call: the backend, the sample  *)
(* and the guard.  One that validate, detect or the guard refuses has      *)
(* changed nothing.                                                        *)
(***************************************************************************)
\* Mutant: the verbs' actions are swapped.
GuardedSwapped(verb, r, ssh) ==
  r.port \in ssh /\ r.action = (IF verb = "add" THEN "allow" ELSE "deny")

Guarded(verb, r, ssh) ==
  r.port \in ssh /\ r.action = (IF verb = "add" THEN "deny" ELSE "allow")

Request(c, verb, r, fix) ==
  /\ fwOp[c].at = "idle"
  /\ backend # "none"
  /\ ~Guarded(verb, r, SSHPorts)
  /\ changes < MaxChanges
  /\ fwOp' = [fwOp EXCEPT ![c] =
                [at |-> "call", verb |-> verb, rule |-> r, ssh |-> SSHPorts, fix |-> fix]]
  /\ changes' = changes + 1
  /\ UNCHANGED <<backend, rules, active, saved, sshd, seesOwner, closed>>

\* security.Manager.Fix for close_port: a deny rule, or on firewalld the
\* removal of the allow rule.
ClosePort(c, s) ==
  LET rule(a) == [action |-> a, proto |-> s[1], port |-> s[2]] IN
  IF backend = "firewalld" THEN Request(c, "remove", rule("allow"), TRUE)
                           ELSE Request(c, "add", rule("deny"), TRUE)

RuleRequest(c) == \E verb \in {"add", "remove"}, r \in Rule : Request(c, verb, r, FALSE)

(***************************************************************************)
(* The backend call.                                                       *)
(***************************************************************************)
\* A change of the kept rules from one set to the other reopens some sockets.
StillClosed(now, later) ==
  {s \in closed : \/ backend = "ufw" /\ \A r \in now \ later : ~Covers(r, s[1], s[2])
                  \/ backend = "firewalld" /\ \A r \in later \ now : ~Covers(r, s[1], s[2])}

Answer(c, later) ==
  /\ fwOp' = [fwOp EXCEPT ![c] = NoOp]
  /\ closed' = StillClosed(Kept, later) \cup
                 (IF fwOp[c].fix THEN {<<fwOp[c].rule.proto, fwOp[c].rule.port>>} ELSE {})
  /\ UNCHANGED <<backend, active, sshd, seesOwner, changes>>

\* UFWBackend.Add and Remove; deleting a rule that is not there is no error.
Ufw(c) ==
  LET o == fwOp[c]
      later == IF o.verb = "add" THEN UfwWith(o.rule) ELSE rules \ {o.rule}
  IN /\ o.at = "call" /\ backend = "ufw"
     /\ rules' = later
     /\ Answer(c, later)
     /\ UNCHANGED saved

\* FirewalldBackend.Add refuses a deny rule, Remove does not look at the
\* action; both write the permanent set and reload, and ignore a failed reload.
Firewalld(c) ==
  LET o == fwOp[c]
      later == IF o.verb = "add" THEN saved \cup {Zone(o.rule)} ELSE saved \ {Zone(o.rule)}
  IN /\ o.at = "call" /\ backend = "firewalld"
     /\ o.verb = "add" => o.rule.action = "allow"
     /\ saved' = later
     /\ \/ rules' = later                \* reloaded
        \/ rules' = rules                \* the reload failed
     /\ Answer(c, later)

\* The command fails, or firewalld is asked to add a deny rule.
BackendFails(c) ==
  /\ fwOp[c].at = "call"
  /\ fwOp' = [fwOp EXCEPT ![c] = NoOp]
  /\ UNCHANGED <<backend, rules, active, saved, sshd, seesOwner, closed, changes>>

(***************************************************************************)
(* The host: sshd is reconfigured, the administrator edits rules.          *)
(***************************************************************************)
SshdMoves ==
  /\ changes < MaxChanges
  /\ \E p \in Ports : sshd # {p} /\ sshd' = {p}
  /\ changes' = changes + 1
  /\ UNCHANGED <<backend, rules, active, saved, seesOwner, fwOp, closed>>

\* "ufw enable" and "ufw disable".
AdminSwitches ==
  /\ changes < MaxChanges /\ backend = "ufw"
  /\ active' = ~active
  /\ changes' = changes + 1
  /\ UNCHANGED <<backend, rules, saved, sshd, seesOwner, fwOp, closed>>

AdminAllows(r) ==
  LET later == IF backend = "ufw" THEN UfwWith(r) ELSE saved \cup {Zone(r)} IN
  /\ changes < MaxChanges /\ backend # "none" /\ r.action = "allow"
  /\ rules' = later
  /\ saved' = IF backend = "ufw" THEN saved ELSE later
  /\ closed' = StillClosed(Kept, later)
  /\ changes' = changes + 1
  /\ UNCHANGED <<backend, active, sshd, seesOwner, fwOp>>

FirewallInit ==
  /\ backend \in {"ufw", "firewalld", "none"}
  /\ sshd = {DefaultSsh}
  /\ rules = IF backend = "none" THEN {} ELSE
               {[action |-> "allow", proto |-> "tcp", port |-> p] : p \in Ports}
  /\ active \in IF backend = "ufw" THEN BOOLEAN ELSE {TRUE}
  /\ saved = IF backend = "firewalld" THEN rules ELSE {}
  /\ seesOwner \in BOOLEAN
  /\ fwOp = [c \in FwCallers |-> NoOp]
  /\ closed = {}
  /\ changes = 0

FirewallNext ==
  \/ \E c \in FwCallers : \/ RuleRequest(c)
                          \/ \E s \in Socket : ClosePort(c, s)
                          \/ Ufw(c)
                          \/ Firewalld(c)
                          \/ BackendFails(c)
  \/ SshdMoves
  \/ AdminSwitches
  \/ \E r \in Rule : AdminAllows(r)

FirewallSpec == FirewallInit /\ [][FirewallNext]_firewallVars

FirewallTypeOK ==
  /\ backend \in {"ufw", "firewalld", "none"} /\ seesOwner \in BOOLEAN /\ active \in BOOLEAN
  /\ rules \subseteq Rule /\ saved \subseteq Rule
  /\ backend = "firewalld" => \A r \in rules \cup saved : r.action = "allow"
  /\ sshd \subseteq Ports
  /\ closed \subseteq Socket
  /\ fwOp \in [FwCallers -> [at : {"idle", "call"}, verb : {"add", "remove"}, rule : Rule,
                             ssh : SUBSET Ports, fix : BOOLEAN]]

(***************************************************************************)
(* The guard.                                                              *)
(***************************************************************************)
\* On ufw a TCP port is shut by a deny rule or opened by an allow rule, on
\* firewalld by the zone's ports.
Shuts(now, later, p) ==
  \/ backend = "ufw" /\ \E r \in later \ now : r.action = "deny" /\ Covers(r, "tcp", p)
  \/ \E r \in now \ later : r.action = "allow" /\ Covers(r, "tcp", p)

\* The agent never shuts a port sshd listens on, however requests, fixes, the
\* administrator and sshd's own moves interleave.  The exceptions are a port
\* that was not among the ports sampled (sshd moved since, or its sockets have
\* no readable owner) and the removal of a deny rule on firewalld, which takes
\* the allowed port away (AnyRemovalGuarded).
KeepsSSH ==
  \A p \in sshd, c \in FwCallers :
    (fwOp[c].at = "call" /\ fwOp'[c].at = "idle" /\ Shuts(Kept, Kept', p)) =>
      \/ p \notin fwOp[c].ssh
      \/ backend = "firewalld" /\ fwOp[c].verb = "remove" /\ fwOp[c].rule.action = "deny"
SSHStaysOpen == [][KeepsSSH]_firewallVars

\* firewall.go:260: "The anti-lockout guard refuses removing any allow rule
\* that covers an active SSH port before any backend call."
AnyRemovalGuarded ==
  [][\A p \in sshd, c \in FwCallers :
       (fwOp[c].at = "call" /\ fwOp'[c].at = "idle" /\ Shuts(Kept, Kept', p)) =>
         p \notin fwOp[c].ssh]_firewallVars

(***************************************************************************)
(* The audit.                                                              *)
(***************************************************************************)
\* Rules: "ufw status numbered" lists none while ufw is inactive.
Listed == IF backend = "ufw" /\ ~active THEN {} ELSE rules

\* Mutant: any deny rule of the port counts, allow rules of firewalld are
\* compared with the port only.
PortClosedByPort(s) ==
  IF backend = "firewalld" THEN \A r \in Listed : r.port # s[2]
                           ELSE \E r \in Listed : r.action = "deny" /\ r.port = s[2]

\* portClosedByFirewall.
PortClosedByFirewall(s) ==
  IF backend = "firewalld"
    THEN \A r \in Listed : ~(r.action = "allow" /\ Covers(r, s[1], s[2]))
    ELSE \E r \in Listed : r.action = "deny" /\ Covers(r, s[1], s[2])

\* firewallFindings: a public socket on a risky port is reported unless a
\* managed firewall closes it.
Flagged(s) == ~(backend # "none" /\ PortClosedByFirewall(s))

\* A port that security.fix reported closed is not reported by the next audits
\* until somebody opens it again, unless firewalld's reload failed or ufw is
\* inactive.
FixedPortsClear ==
  active /\ (backend = "firewalld" => rules = saved) => \A s \in closed : ~Flagged(s)

\* security.go:461: the audit does not "re-flag this finding on every audit forever,
\* making the fix look like it never took effect".
\* Not so: an inactive ufw takes the deny rule and lists none.
RemediatedPortsClear == backend = "ufw" => \A s \in closed : ~Flagged(s)

(***************************************************************************)
(* Why.  A request that waits for its backend call has passed the guard,   *)
(* with the ports it sampled; a fix has the rule that closes its socket;   *)
(* and what is closed is so by the rules the backend keeps.                *)
(***************************************************************************)
\* The kept rules that close a socket, on either backend.
KeptClosed(s) ==
  \/ backend = "ufw" /\ \E r \in rules : r.action = "deny" /\ Covers(r, s[1], s[2])
  \/ backend = "firewalld" /\ \A r \in saved : ~Covers(r, s[1], s[2])

FixRule(o) ==
  /\ o.rule.proto # "any"
  /\ \/ backend = "ufw" /\ o.verb = "add" /\ o.rule.action = "deny"
     \/ backend = "firewalld" /\ o.verb = "remove" /\ o.rule.action = "allow"

FirewallInv ==
  /\ FirewallTypeOK
  /\ backend = "firewalld" => \A r \in saved : r.proto # "any"
  /\ \A s \in closed : KeptClosed(s)
  /\ \A c \in FwCallers : fwOp[c].at = "call" =>
       /\ backend # "none" /\ ~Guarded(fwOp[c].verb, fwOp[c].rule, fwOp[c].ssh)
       /\ fwOp[c].fix => FixRule(fwOp[c])
=============================================================================
