------------------------- MODULE HostServicesProofs -------------------------
(***************************************************************************)
(* Proofs about what the server does to the host and reads from it, for    *)
(* any number of goroutines and whatever the host is like: the firewall,   *)
(* the processes, the streams, the metrics, the storage and the installs   *)
(* of MCServer.                                                            *)
(*                                                                         *)
(* Each component has an inductive invariant in its own module             *)
(* (FirewallInv, ProcessInv, ...).  A section shows that the initial       *)
(* states have it and that every step keeps it, and what follows from it   *)
(* for the properties.  The components take v1, v2, ... of MCServer for    *)
(* their variables, and a section begins by saying which is which.         *)
(* ServerProofs puts them together.                                        *)
(***************************************************************************)
EXTENDS MCServer, FiniteSetTheorems, SequenceTheorems, TLAPS

-----------------------------------------------------------------------------
(***************************************************************************)
(* Firewall, as Wall: v1 backend, v2 rules, v3 saved, v4 sshd, v5          *)
(* seesOwner, v6 fwOp, v7 closed, v8 changes, v9 active.                   *)
(* A rule set loses nothing that keeps a fixed port closed, because a call *)
(* under way was let through by the guard (Guarded) for the ports sshd had *)
(* when it was asked: the guard is all that stands between a request and   *)
(* the backend.                                                            *)
(***************************************************************************)

LEMMA FirewallDefaultPort == DefaultSsh \in Ports
BY SomethingThereAssumption

FirewallFwOps == [at : {"idle", "call"}, verb : {"add", "remove"}, rule : Wall!Rule, ssh : SUBSET Ports, fix : BOOLEAN]

LEMMA FirewallNoOp == Wall!NoOp \in FirewallFwOps /\ Wall!NoOp.at = "idle"
BY FirewallDefaultPort DEF Wall!NoOp, FirewallFwOps, Wall!NoRule, Wall!Rule, Wall!Protocols

LEMMA FirewallInitInv == Wall!FirewallInit => Wall!FirewallInv
<1> SUFFICES ASSUME Wall!FirewallInit PROVE Wall!FirewallInv
  OBVIOUS
<1>1. /\ v1 \in {"ufw", "firewalld", "none"} /\ v4 = {DefaultSsh} /\ v5 \in BOOLEAN
      /\ v2 = IF v1 = "none" THEN {} ELSE
            {[action |-> "allow", proto |-> "tcp", port |-> p] : p \in Ports}
      /\ v3 = IF v1 = "firewalld" THEN v2 ELSE {}
      /\ v6 = [c \in Workers |-> Wall!NoOp] /\ v7 = {}
      /\ v9 \in BOOLEAN
  BY DEF Wall!FirewallInit
<1>2. \A r \in v2 : r \in Wall!Rule /\ r.action = "allow" /\ r.proto = "tcp"
  BY <1>1 DEF Wall!Rule, Wall!Protocols
<1>3. v3 \subseteq v2
  BY <1>1
<1>4. v6 \in [Workers -> FirewallFwOps] /\ \A c \in Workers : v6[c].at = "idle"
  BY <1>1, FirewallNoOp
<1>5. Wall!FirewallTypeOK
  BY <1>1, <1>2, <1>3, <1>4, FirewallDefaultPort DEF Wall!FirewallTypeOK, FirewallFwOps
<1> QED BY <1>1, <1>2, <1>3, <1>4, <1>5 DEF Wall!FirewallInv

LEMMA FirewallTypes ==
  ASSUME Wall!FirewallTypeOK, NEW c \in Workers
  PROVE  /\ v6 \in [Workers -> FirewallFwOps] /\ v6[c] \in FirewallFwOps /\ v6[c].rule \in Wall!Rule
         /\ v6[c].rule.port \in Ports /\ v6[c].rule.proto \in Wall!Protocols
         /\ v6[c].rule.action \in {"allow", "deny"}
         /\ v6[c].verb \in {"add", "remove"} /\ v6[c].fix \in BOOLEAN
         /\ Wall!Zone(v6[c].rule) \in Wall!Rule /\ Wall!Zone(v6[c].rule).proto # "any"
BY DEF Wall!FirewallTypeOK, FirewallFwOps, Wall!Rule, Wall!Zone, Wall!Proto, Wall!Protocols

\* A rule that is in Rule is told apart by its fields.
LEMMA FirewallSameRule ==
  \A r, q \in Wall!Rule : r.action = q.action /\ r.proto = q.proto /\ r.port = q.port => r = q
BY DEF Wall!Rule

LEMMA FirewallRequest ==
  ASSUME Wall!FirewallInv, NEW c \in Workers, NEW verb \in {"add", "remove"}, NEW r \in Wall!Rule,
         NEW fix \in BOOLEAN,
         fix => Wall!FixRule([verb |-> verb, rule |-> r]), Wall!Request(c, verb, r, fix)
  PROVE  Wall!FirewallInv'
<1> DEFINE o == [at |-> "call", verb |-> verb, rule |-> r, ssh |-> Wall!SSHPorts, fix |-> fix]
<1>1. /\ v1 # "none" /\ ~Wall!Guarded(verb, r, Wall!SSHPorts) /\ v6' = [v6 EXCEPT ![c] = o]
      /\ UNCHANGED <<v1, v2, v3, v4, v5, v7, v9>>
  BY DEF Wall!Request
<1>2. Wall!SSHPorts \subseteq Ports
  BY FirewallDefaultPort DEF Wall!SSHPorts, Wall!FirewallInv, Wall!FirewallTypeOK
<1>3. o \in FirewallFwOps
  BY <1>2 DEF FirewallFwOps
<1>4. Wall!FirewallTypeOK'
  BY <1>1, <1>3 DEF Wall!FirewallInv, Wall!FirewallTypeOK, FirewallFwOps
<1>5. \A d \in Workers : v6'[d] = IF d = c THEN o ELSE v6[d]
  BY <1>1 DEF Wall!FirewallInv, Wall!FirewallTypeOK
<1>6. o.fix => Wall!FixRule(o)
  BY DEF Wall!FixRule
<1>7. ~Wall!Guarded(o.verb, o.rule, o.ssh)
  BY <1>1
<1>8. \A d \in Workers : v6'[d].at = "call" =>
         /\ v1 # "none" /\ ~Wall!Guarded(v6'[d].verb, v6'[d].rule, v6'[d].ssh)
         /\ v6'[d].fix => Wall!FixRule(v6'[d])
  BY <1>1, <1>5, <1>6, <1>7 DEF Wall!FirewallInv
<1>9. \A d \in Workers : v6'[d].at = "call" => (v6'[d].fix => Wall!FixRule(v6[d])')
  BY <1>1, <1>8 DEF Wall!FixRule
<1>10. \A s \in v7' : Wall!KeptClosed(s)'
  BY <1>1 DEF Wall!FirewallInv, Wall!KeptClosed
<1> QED BY <1>1, <1>4, <1>8, <1>9, <1>10 DEF Wall!FirewallInv, Wall!Guarded

LEMMA FirewallClosePort ==
  ASSUME Wall!FirewallInv, NEW c \in Workers, NEW s \in Wall!Socket, Wall!ClosePort(c, s)
  PROVE  Wall!FirewallInv'
<1> DEFINE rule(a) == [action |-> a, proto |-> s[1], port |-> s[2]]
<1>1. s[1] \in {"tcp", "udp"} /\ s[2] \in Ports
  BY DEF Wall!Socket
<1>2. rule("allow") \in Wall!Rule /\ rule("deny") \in Wall!Rule
  BY <1>1 DEF Wall!Rule, Wall!Protocols
<1>3. CASE v1 = "firewalld"
  <2>1. Wall!Request(c, "remove", rule("allow"), TRUE)
    BY <1>3 DEF Wall!ClosePort
  <2>2. Wall!FixRule([verb |-> "remove", rule |-> rule("allow")])
    BY <1>1, <1>3 DEF Wall!FixRule
  <2> QED BY <1>2, <2>1, <2>2, FirewallRequest
<1>4. CASE v1 # "firewalld"
  <2>1. Wall!Request(c, "add", rule("deny"), TRUE)
    BY <1>4 DEF Wall!ClosePort
  <2>2. v1 = "ufw"
    BY <1>4, <2>1 DEF Wall!Request, Wall!FirewallInv, Wall!FirewallTypeOK
  <2>3. Wall!FixRule([verb |-> "add", rule |-> rule("deny")])
    BY <1>1, <2>2 DEF Wall!FixRule
  <2> QED BY <1>2, <2>1, <2>3, FirewallRequest
<1> QED BY <1>3, <1>4

\* What stays closed does so by the rules that are kept.
LEMMA FirewallStillClosed ==
  ASSUME Wall!FirewallInv, NEW later \in SUBSET Wall!Rule, NEW s \in Wall!StillClosed(Wall!Kept, later)
  PROVE  /\ s \in v7 /\ s \in Wall!Socket
         /\ v1 = "ufw" => \E r \in later : r.action = "deny" /\ Wall!Covers(r, s[1], s[2])
         /\ v1 = "firewalld" => \A r \in later : ~Wall!Covers(r, s[1], s[2])
BY DEF Wall!FirewallInv, Wall!FirewallTypeOK, Wall!StillClosed, Wall!Kept, Wall!KeptClosed

\* The step after which the handler is idle again.
LEMMA FirewallAnswers ==
  ASSUME Wall!FirewallTypeOK, NEW c \in Workers, v6' = [v6 EXCEPT ![c] = Wall!NoOp]
  PROVE  /\ v6' \in [Workers -> FirewallFwOps] /\ v6'[c].at = "idle"
         /\ \A d \in Workers : v6'[d].at = "call" => d # c /\ v6'[d] = v6[d]
BY FirewallNoOp, FirewallTypes DEF Wall!FirewallTypeOK

LEMMA FirewallUfw ==
  ASSUME Wall!FirewallInv, NEW c \in Workers, Wall!Ufw(c)
  PROVE  Wall!FirewallInv'
<1> DEFINE o == v6[c]
<1> DEFINE later == IF o.verb = "add" THEN Wall!UfwWith(o.rule) ELSE v2 \ {o.rule}
<1>1. /\ o.at = "call" /\ v1 = "ufw" /\ v2' = later /\ v6' = [v6 EXCEPT ![c] = Wall!NoOp]
      /\ v7' = Wall!StillClosed(Wall!Kept, later) \cup
             (IF o.fix THEN {<<o.rule.proto, o.rule.port>>} ELSE {})
      /\ UNCHANGED <<v1, v3, v4, v5, v9>>
  BY DEF Wall!Ufw, Wall!Answer
<1>2. Wall!FirewallTypeOK
  BY DEF Wall!FirewallInv
<1>3. o \in FirewallFwOps /\ o.rule \in Wall!Rule /\ o.rule.port \in Ports /\ o.rule.proto \in Wall!Protocols
  BY <1>2, FirewallTypes
<1>4. later \subseteq Wall!Rule
  BY <1>2, <1>3 DEF Wall!UfwWith, Wall!FirewallTypeOK
<1>5. /\ v6' \in [Workers -> FirewallFwOps]
      /\ \A d \in Workers : v6'[d].at = "call" => v6'[d] = v6[d]
  BY <1>1, <1>2, FirewallAnswers
<1>6. o.fix => Wall!FixRule(o)
  BY <1>1 DEF Wall!FirewallInv
<1>7. ASSUME NEW s \in v7' PROVE s \in Wall!Socket /\ Wall!KeptClosed(s)'
  <2>1. CASE s \in Wall!StillClosed(Wall!Kept, later)
    BY <1>1, <1>4, <2>1, FirewallStillClosed DEF Wall!KeptClosed
  <2>2. CASE o.fix /\ s = <<o.rule.proto, o.rule.port>>
    <3>1. o.verb = "add" /\ o.rule.action = "deny" /\ o.rule.proto # "any"
      BY <1>1, <1>6, <2>2 DEF Wall!FixRule
    <3>2. o.rule \in later
      BY <3>1 DEF Wall!UfwWith
    <3>3. s[1] = o.rule.proto /\ s[2] = o.rule.port
      BY <2>2
    <3>4. Wall!KeptClosed(s)'
      BY <1>1, <3>1, <3>2, <3>3 DEF Wall!KeptClosed, Wall!Covers
    <3>5. s \in Wall!Socket
      BY <1>3, <2>2, <3>1 DEF Wall!Socket, Wall!Protocols
    <3> QED BY <3>4, <3>5
  <2> QED BY <1>1, <2>1, <2>2
<1>8. Wall!FirewallTypeOK'
  BY <1>1, <1>2, <1>4, <1>5, <1>7 DEF Wall!FirewallTypeOK, FirewallFwOps
<1> QED BY <1>1, <1>5, <1>7, <1>8 DEF Wall!FirewallInv, Wall!FixRule

LEMMA FirewallFirewalld ==
  ASSUME Wall!FirewallInv, NEW c \in Workers, Wall!Firewalld(c)
  PROVE  Wall!FirewallInv'
<1> DEFINE o == v6[c]
<1> DEFINE later == IF o.verb = "add" THEN v3 \cup {Wall!Zone(o.rule)} ELSE v3 \ {Wall!Zone(o.rule)}
<1>1. /\ o.at = "call" /\ v1 = "firewalld" /\ v3' = later /\ v2' \in {later, v2}
      /\ v6' = [v6 EXCEPT ![c] = Wall!NoOp]
      /\ v7' = Wall!StillClosed(Wall!Kept, later) \cup
             (IF o.fix THEN {<<o.rule.proto, o.rule.port>>} ELSE {})
      /\ UNCHANGED <<v1, v4, v5, v9>>
  BY DEF Wall!Firewalld, Wall!Answer
<1>2. Wall!FirewallTypeOK
  BY DEF Wall!FirewallInv
<1>3. /\ o \in FirewallFwOps /\ o.rule \in Wall!Rule /\ o.rule.port \in Ports
      /\ o.rule.proto \in Wall!Protocols
      /\ Wall!Zone(o.rule) \in Wall!Rule /\ Wall!Zone(o.rule).proto # "any"
      /\ Wall!Zone(o.rule).action = "allow"
  BY <1>2, FirewallTypes DEF Wall!Zone
<1>4. /\ later \subseteq Wall!Rule /\ \A r \in later : r.proto # "any" /\ r.action = "allow"
  BY <1>1, <1>2, <1>3 DEF Wall!FirewallTypeOK, Wall!FirewallInv
<1>5. /\ v6' \in [Workers -> FirewallFwOps]
      /\ \A d \in Workers : v6'[d].at = "call" => v6'[d] = v6[d]
  BY <1>1, <1>2, FirewallAnswers
<1>6. o.fix => Wall!FixRule(o)
  BY <1>1 DEF Wall!FirewallInv
<1>7. ASSUME NEW s \in v7' PROVE s \in Wall!Socket /\ Wall!KeptClosed(s)'
  <2>1. CASE s \in Wall!StillClosed(Wall!Kept, later)
    BY <1>1, <1>4, <2>1, FirewallStillClosed DEF Wall!KeptClosed
  <2>2. CASE o.fix /\ s = <<o.rule.proto, o.rule.port>>
    <3>1. o.verb = "remove" /\ o.rule.action = "allow" /\ o.rule.proto # "any"
      BY <1>1, <1>6, <2>2 DEF Wall!FixRule
    <3>2. /\ later = v3 \ {Wall!Zone(o.rule)}
          /\ Wall!Zone(o.rule) = [action |-> "allow", proto |-> o.rule.proto, port |-> o.rule.port]
      BY <3>1 DEF Wall!Zone, Wall!Proto
    <3>3. s[1] = o.rule.proto /\ s[2] = o.rule.port
      BY <2>2
    <3>4. \A r \in later : ~Wall!Covers(r, s[1], s[2])
      BY <1>3, <1>4, <3>2, <3>3, FirewallSameRule DEF Wall!Covers
    <3>5. Wall!KeptClosed(s)'
      BY <1>1, <3>4 DEF Wall!KeptClosed
    <3>6. s \in Wall!Socket
      BY <1>3, <2>2, <3>1 DEF Wall!Socket, Wall!Protocols
    <3> QED BY <3>5, <3>6
  <2> QED BY <1>1, <2>1, <2>2
<1>8. Wall!FirewallTypeOK'
  BY <1>1, <1>2, <1>4, <1>5, <1>7 DEF Wall!FirewallTypeOK, FirewallFwOps
<1> QED BY <1>1, <1>4, <1>5, <1>7, <1>8 DEF Wall!FirewallInv, Wall!FixRule

LEMMA FirewallAdminAllows ==
  ASSUME Wall!FirewallInv, NEW r \in Wall!Rule, Wall!AdminAllows(r)
  PROVE  Wall!FirewallInv'
<1> DEFINE later == IF v1 = "ufw" THEN Wall!UfwWith(r) ELSE v3 \cup {Wall!Zone(r)}
<1>1. /\ v1 # "none" /\ v2' = later /\ v3' = IF v1 = "ufw" THEN v3 ELSE later
      /\ v7' = Wall!StillClosed(Wall!Kept, later) /\ r.action = "allow"
      /\ UNCHANGED <<v1, v4, v5, v6, v9>>
  BY DEF Wall!AdminAllows
<1>2. Wall!FirewallTypeOK
  BY DEF Wall!FirewallInv
<1>3. Wall!Zone(r) \in Wall!Rule /\ Wall!Zone(r).proto # "any" /\ Wall!Zone(r).action = "allow"
  BY DEF Wall!Zone, Wall!Proto, Wall!Rule, Wall!Protocols
<1>4. /\ later \subseteq Wall!Rule
      /\ v1 = "firewalld" => \A q \in later : q.proto # "any" /\ q.action = "allow"
  BY <1>1, <1>2, <1>3 DEF Wall!FirewallTypeOK, Wall!FirewallInv, Wall!UfwWith
<1>5. ASSUME NEW s \in v7' PROVE s \in Wall!Socket /\ Wall!KeptClosed(s)'
  BY <1>1, <1>2, <1>4, FirewallStillClosed DEF Wall!KeptClosed, Wall!FirewallTypeOK
<1>6. Wall!FirewallTypeOK'
  BY <1>1, <1>2, <1>4, <1>5 DEF Wall!FirewallTypeOK
<1> QED BY <1>1, <1>4, <1>5, <1>6 DEF Wall!FirewallInv, Wall!FixRule

LEMMA FirewallNextInv == Wall!FirewallInv /\ Wall!FirewallNext => Wall!FirewallInv'
<1> SUFFICES ASSUME Wall!FirewallInv, Wall!FirewallNext PROVE Wall!FirewallInv'
  OBVIOUS
<1>1. ASSUME NEW c \in Workers, Wall!RuleRequest(c) PROVE Wall!FirewallInv'
  BY <1>1, FirewallRequest DEF Wall!RuleRequest
<1>2. ASSUME NEW c \in Workers, NEW s \in Wall!Socket, Wall!ClosePort(c, s) PROVE Wall!FirewallInv'
  BY <1>2, FirewallClosePort
<1>3. ASSUME NEW c \in Workers, Wall!Ufw(c) \/ Wall!Firewalld(c) PROVE Wall!FirewallInv'
  BY <1>3, FirewallUfw, FirewallFirewalld
<1>4. ASSUME NEW c \in Workers, Wall!BackendFails(c) PROVE Wall!FirewallInv'
  <2>1. v6' = [v6 EXCEPT ![c] = Wall!NoOp] /\ UNCHANGED <<v1, v2, v3, v4, v5, v7, v9>>
    BY <1>4 DEF Wall!BackendFails
  <2>2. /\ v6' \in [Workers -> FirewallFwOps]
        /\ \A d \in Workers : v6'[d].at = "call" => v6'[d] = v6[d]
    BY <2>1, FirewallAnswers DEF Wall!FirewallInv
  <2>3. Wall!FirewallTypeOK'
    BY <2>1, <2>2 DEF Wall!FirewallInv, Wall!FirewallTypeOK, FirewallFwOps
  <2> QED BY <2>1, <2>2, <2>3 DEF Wall!FirewallInv, Wall!FixRule, Wall!KeptClosed
<1>5. CASE Wall!SshdMoves
  <2>1. (\E p \in Ports : v4' = {p}) /\ UNCHANGED <<v1, v2, v3, v5, v6, v7, v9>>
    BY <1>5 DEF Wall!SshdMoves
  <2>2. Wall!FirewallTypeOK'
    BY <2>1 DEF Wall!FirewallInv, Wall!FirewallTypeOK
  <2> QED BY <2>1, <2>2 DEF Wall!FirewallInv, Wall!FixRule, Wall!KeptClosed
<1>6. ASSUME NEW r \in Wall!Rule, Wall!AdminAllows(r) PROVE Wall!FirewallInv'
  BY <1>6, FirewallAdminAllows
<1>7. CASE Wall!AdminSwitches
  <2>1. v9' = ~v9 /\ UNCHANGED <<v1, v2, v3, v4, v5, v6, v7>>
    BY <1>7 DEF Wall!AdminSwitches
  <2>2. Wall!FirewallTypeOK'
    BY <2>1 DEF Wall!FirewallInv, Wall!FirewallTypeOK
  <2> QED BY <2>1, <2>2 DEF Wall!FirewallInv, Wall!FixRule, Wall!KeptClosed
<1> QED BY <1>1, <1>2, <1>3, <1>4, <1>5, <1>6, <1>7 DEF Wall!FirewallNext

LEMMA FirewallClears == Wall!FirewallInv => Wall!FixedPortsClear
<1> SUFFICES ASSUME Wall!FirewallInv, v9, v1 = "firewalld" => v2 = v3, NEW s \in v7
             PROVE  ~Wall!Flagged(s)
  BY DEF Wall!FixedPortsClear
<1>1. Wall!KeptClosed(s)
  BY DEF Wall!FirewallInv
<1> QED BY <1>1 DEF Wall!KeptClosed, Wall!Flagged, Wall!PortClosedByFirewall, Wall!Listed

\* The step that empties a handler's call is its own backend call.
LEMMA FirewallKeepsSSH == Wall!FirewallInv /\ Wall!FirewallNext => Wall!KeepsSSH
<1> SUFFICES ASSUME Wall!FirewallInv, Wall!FirewallNext, NEW p \in v4, NEW c \in Workers,
                    v6[c].at = "call", v6'[c].at = "idle", Wall!Shuts(Wall!Kept, Wall!Kept', p)
             PROVE  \/ p \notin v6[c].ssh
                    \/ v1 = "firewalld" /\ v6[c].verb = "remove" /\ v6[c].rule.action = "deny"
  BY DEF Wall!KeepsSSH
<1> DEFINE o == v6[c]
<1>1. Wall!Ufw(c) \/ Wall!Firewalld(c) \/ Wall!BackendFails(c)
  <2>1. ASSUME NEW d \in Workers, NEW e, v6' = [v6 EXCEPT ![d] = e], e.at = "call" PROVE FALSE
    BY <2>1 DEF Wall!FirewallInv, Wall!FirewallTypeOK
  <2>2. ASSUME NEW d \in Workers, NEW e, v6' = [v6 EXCEPT ![d] = e] PROVE d = c
    BY <2>2 DEF Wall!FirewallInv, Wall!FirewallTypeOK
  <2>3. ASSUME NEW d \in Workers, NEW verb, NEW r, NEW fix, Wall!Request(d, verb, r, fix) PROVE FALSE
    BY <2>1, <2>3 DEF Wall!Request
  <2>4. v6' # v6
    OBVIOUS
  <2>5. ASSUME NEW d \in Workers, Wall!RuleRequest(d) \/ \E s \in Wall!Socket : Wall!ClosePort(d, s)
        PROVE  FALSE
    BY <2>3, <2>5 DEF Wall!RuleRequest, Wall!ClosePort
  <2>6. ASSUME NEW d \in Workers, Wall!Ufw(d) \/ Wall!Firewalld(d) \/ Wall!BackendFails(d)
        PROVE  d = c
    BY <2>2, <2>6 DEF Wall!Ufw, Wall!Firewalld, Wall!BackendFails, Wall!Answer
  <2>7. ~Wall!SshdMoves /\ ~Wall!AdminSwitches /\ \A r \in Wall!Rule : ~Wall!AdminAllows(r)
    BY <2>4 DEF Wall!SshdMoves, Wall!AdminSwitches, Wall!AdminAllows
  <2> QED BY <2>5, <2>6, <2>7 DEF Wall!FirewallNext
<1>2. /\ o \in FirewallFwOps /\ o.rule \in Wall!Rule /\ o.verb \in {"add", "remove"}
      /\ o.rule.action \in {"allow", "deny"}
  BY FirewallTypes DEF Wall!FirewallInv
<1>3. ~Wall!Guarded(o.verb, o.rule, o.ssh)
  BY DEF Wall!FirewallInv
<1>4. CASE Wall!BackendFails(c)
  BY <1>4 DEF Wall!BackendFails, Wall!Shuts, Wall!Kept
<1>5. CASE Wall!Ufw(c)
  <2>1. /\ v1 = "ufw" /\ v1' = v1 /\ Wall!Kept = v2 /\ Wall!Kept' = v2'
        /\ v2' = IF o.verb = "add" THEN Wall!UfwWith(o.rule) ELSE v2 \ {o.rule}
    BY <1>5 DEF Wall!Ufw, Wall!Answer, Wall!Kept
  <2>2. v2 \subseteq Wall!Rule
    BY DEF Wall!FirewallInv, Wall!FirewallTypeOK
  <2>3. CASE o.verb = "add"
    <3>1. PICK r \in v2 \cup v2' : /\ Wall!Covers(r, "tcp", p)
                    /\ \/ r \in v2' \ v2 /\ r.action = "deny"
                       \/ r \in v2 \ v2' /\ r.action = "allow"
      BY <2>1 DEF Wall!Shuts
    <3>2. r.port = o.rule.port /\ o.rule.action = "deny"
      <4>1. CASE r \in v2' \ v2
        BY <2>1, <2>3, <3>1, <4>1 DEF Wall!UfwWith
      <4>2. CASE r \in v2 \ v2'
        <5>1. r.proto = o.rule.proto /\ r.port = o.rule.port /\ r # o.rule /\ r.action = "allow"
          BY <2>1, <2>3, <3>1, <4>2 DEF Wall!UfwWith
        <5> QED BY <1>2, <2>2, <4>2, <5>1, FirewallSameRule
      <4> QED BY <3>1, <4>1, <4>2
    <3> QED BY <1>3, <2>3, <3>1, <3>2 DEF Wall!Guarded, Wall!Covers
  <2>4. CASE o.verb = "remove"
    <3>1. v2' = v2 \ {o.rule}
      BY <2>1, <2>4
    <3>2. o.rule.action = "allow" /\ Wall!Covers(o.rule, "tcp", p)
      BY <2>1, <3>1 DEF Wall!Shuts
    <3> QED BY <1>3, <2>4, <3>2 DEF Wall!Guarded, Wall!Covers
  <2> QED BY <1>2, <2>3, <2>4
<1>6. CASE Wall!Firewalld(c)
  <2>1. /\ v1 = "firewalld" /\ v1' = v1 /\ Wall!Kept = v3 /\ Wall!Kept' = v3'
        /\ v3' = IF o.verb = "add" THEN v3 \cup {Wall!Zone(o.rule)} ELSE v3 \ {Wall!Zone(o.rule)}
    BY <1>6 DEF Wall!Firewalld, Wall!Answer, Wall!Kept
  <2>2. PICK r \in v3 \ v3' : Wall!Covers(r, "tcp", p)
    BY <2>1 DEF Wall!Shuts
  <2>3. o.verb = "remove" /\ r = Wall!Zone(o.rule)
    BY <1>2, <2>1, <2>2
  <2>4. o.rule.port = p
    BY <2>2, <2>3 DEF Wall!Covers, Wall!Zone
  <2> QED BY <1>2, <1>3, <2>1, <2>3, <2>4 DEF Wall!Guarded
<1> QED BY <1>1, <1>4, <1>5, <1>6

LEMMA FirewallStutters == Wall!FirewallInv /\ UNCHANGED shared => Wall!FirewallInv'
BY DEF shared, Wall!FirewallInv, Wall!FirewallTypeOK, Wall!FixRule, Wall!KeptClosed

-----------------------------------------------------------------------------
(***************************************************************************)
(* ProcessKill, as Kill: v1 table, v2 ticks, v3 kill, v4 looked, v5        *)
(* bystander.                                                              *)
(* What a call remembers is the start time of the process it was asked to  *)
(* end, and it signals only what it has just found under that start time.  *)
(***************************************************************************)

LEMMA ProcessSomePid == Pids # {}
BY SomethingThereAssumption

ProcessSteps == {"idle", "asked", "signal", "await", "escalate", "awaitKill", "ok", "failed"}
ProcessCalls == [at : ProcessSteps, pid : Pids, start : 0..v2, sig : {"TERM", "KILL"}]
ProcessProcs == [start : 0..v2, sort : Kill!Sorts]

LEMMA ProcessTypes ==
  ASSUME Kill!ProcessTypeOK, NEW c \in Workers
  PROVE  /\ v3 \in [Workers -> ProcessCalls] /\ v3[c] \in ProcessCalls /\ v1 \in [Pids -> ProcessProcs]
         /\ v3[c].at \in ProcessSteps /\ v3[c].pid \in Pids /\ v3[c].start \in 0..v2
         /\ v3[c].sig \in {"TERM", "KILL"}
         /\ v1[v3[c].pid] \in ProcessProcs /\ v1[v3[c].pid].start \in 0..v2
         /\ v1[v3[c].pid].sort \in Kill!Sorts
         /\ v2 \in Nat /\ v4 \in [Workers -> 0..v2] /\ v4[c] \in 0..v2
BY DEF Kill!ProcessTypeOK, ProcessCalls, ProcessProcs, ProcessSteps

LEMMA ProcessInitInv == Kill!ProcessInit => Kill!ProcessInv
<1> SUFFICES ASSUME Kill!ProcessInit PROVE Kill!ProcessInv
  OBVIOUS
<1>1. /\ v1 = [p \in Pids |-> Kill!NoProcess] /\ v2 = 0 /\ v3 = [c \in Workers |-> Kill!NoKill]
      /\ v4 = [c \in Workers |-> 0] /\ v5 = FALSE
  BY DEF Kill!ProcessInit
<1>2. Kill!NoKill.at = "idle" /\ Kill!NoKill \in ProcessCalls
  BY <1>1, ProcessSomePid DEF Kill!NoKill, ProcessCalls, ProcessSteps
<1>3. Kill!NoProcess \in ProcessProcs
  BY <1>1 DEF Kill!NoProcess, ProcessProcs, Kill!Sorts
<1>4. Kill!ProcessTypeOK
  <2>1. v5 \in BOOLEAN
    BY <1>1, Zenon
  <2> QED BY <1>1, <1>2, <1>3, <2>1 DEF Kill!ProcessTypeOK, ProcessCalls, ProcessProcs, ProcessSteps
<1>5. \A c \in Workers : v3[c].at = "idle"
  BY <1>1, <1>2
<1> QED BY <1>1, <1>4, <1>5 DEF Kill!ProcessInv, Kill!SuccessMeansGone, Kill!NoBystander

\* What is to be shown of a handler's step: the others' calls and the table are as they were.
LEMMA ProcessOneCall ==
  ASSUME Kill!ProcessInv, NEW c \in Workers, NEW k \in ProcessCalls, v3' = [v3 EXCEPT ![c] = k],
         NEW l \in 0..v2, v4' = [v4 EXCEPT ![c] = l],
         UNCHANGED <<v1, v2, v5>>,
         k.at # "idle" => k.start # 0,
         k.at = "ok" => Kill!Gone(k),
         k.at \in {"signal", "await", "escalate"} => Kill!NamedOrNewer(k),
         k.at \in {"signal", "escalate"} => l = k.start
  PROVE  Kill!ProcessInv'
<1>1. Kill!ProcessTypeOK'
  BY DEF Kill!ProcessInv, Kill!ProcessTypeOK, ProcessCalls, ProcessSteps
<1>2. \A d \in Workers : /\ v3'[d] = IF d = c THEN k ELSE v3[d]
                         /\ v4'[d] = IF d = c THEN l ELSE v4[d]
  BY DEF Kill!ProcessInv, Kill!ProcessTypeOK
<1>3. \A d \in Workers :
        /\ v3'[d].at = "ok" => Kill!Gone(v3'[d])
        /\ v3'[d].at # "idle" => v3'[d].start # 0
        /\ v3'[d].at \in {"signal", "await", "escalate"} => Kill!NamedOrNewer(v3'[d])
        /\ v3'[d].at \in {"signal", "escalate"} => v4'[d] = v3'[d].start
  BY <1>2 DEF Kill!ProcessInv, Kill!SuccessMeansGone
<1> QED BY <1>1, <1>3 DEF Kill!ProcessInv, Kill!SuccessMeansGone, Kill!NoBystander, Kill!Gone,
           Kill!NamedOrNewer

LEMMA ProcessOneStep ==
  ASSUME Kill!ProcessInv, NEW c \in Workers, NEW at \in {"signal", "escalate", "ok", "failed"},
         v3[c].at # "idle",
         v3' = [v3 EXCEPT ![c].at = at],
         NEW l \in 0..v2, v4' = [v4 EXCEPT ![c] = l],
         UNCHANGED <<v1, v2, v5>>,
         at = "ok" => Kill!Gone(v3[c]),
         at \in {"signal", "escalate"} => Kill!NamedOrNewer(v3[c]) /\ l = v3[c].start
  PROVE  Kill!ProcessInv'
<1> DEFINE k == [v3[c] EXCEPT !.at = at]
<1>1. k \in ProcessCalls /\ k.at = at /\ k.pid = v3[c].pid /\ k.start = v3[c].start /\ v3[c].start # 0
  BY ProcessTypes DEF Kill!ProcessInv, ProcessCalls, ProcessSteps
<1>2. v3' = [v3 EXCEPT ![c] = k]
  BY ProcessTypes DEF Kill!ProcessInv
<1>3. /\ k.at = "ok" => Kill!Gone(k)
      /\ k.at \in {"signal", "await", "escalate"} => Kill!NamedOrNewer(k)
  BY <1>1 DEF Kill!Gone, Kill!NamedOrNewer
<1>4. /\ k.at # "idle" => k.start # 0
      /\ k.at \in {"signal", "escalate"} => l = k.start
  BY <1>1
<1> HIDE DEF k
<1> QED BY <1>1, <1>2, <1>3, <1>4, ProcessOneCall

\* A process ends: what was gone stays gone.
LEMMA ProcessDies ==
  ASSUME Kill!ProcessInv, NEW p \in Pids, v1' = [v1 EXCEPT ![p] = Kill!NoProcess],
         UNCHANGED <<v2, v3, v4, v5>>
  PROVE  Kill!ProcessInv'
<1>1. Kill!NoProcess \in ProcessProcs /\ Kill!NoProcess.start = 0
  BY DEF Kill!NoProcess, ProcessProcs, Kill!Sorts, Kill!ProcessInv, Kill!ProcessTypeOK
<1>2. Kill!ProcessTypeOK'
  BY <1>1 DEF Kill!ProcessInv, Kill!ProcessTypeOK, ProcessProcs
<1>3. ASSUME NEW c \in Workers
      PROVE  /\ v3[c].at = "ok" => v1'[v3[c].pid].start # v3[c].start
             /\ v3[c].at \in {"signal", "await", "escalate"} =>
                  /\ v1'[v3[c].pid].start # 0 => v1'[v3[c].pid].start >= v3[c].start
                  /\ v1'[v3[c].pid].start = v3[c].start => v1'[v3[c].pid].sort # "protected"
  BY <1>1, ProcessTypes DEF Kill!ProcessInv, Kill!SuccessMeansGone, Kill!Gone, Kill!NamedOrNewer
<1> QED BY <1>2, <1>3 DEF Kill!ProcessInv, Kill!SuccessMeansGone, Kill!NoBystander, Kill!Gone,
           Kill!NamedOrNewer

LEMMA ProcessStarts ==
  ASSUME Kill!ProcessInv, NEW p \in Pids, NEW sort \in Kill!Sorts, Kill!Starts(p, sort)
  PROVE  Kill!ProcessInv'
<1>1. /\ v2' = v2 + 1 /\ v1' = [v1 EXCEPT ![p] = [start |-> v2 + 1, sort |-> sort]]
      /\ UNCHANGED <<v3, v4, v5>>
  BY DEF Kill!Starts
<1>2. v2 \in Nat /\ 0..v2 \subseteq 0..v2'
  BY <1>1 DEF Kill!ProcessInv, Kill!ProcessTypeOK
<1>3. \A q \in Pids : v1'[q] \in [start : 0..v2', sort : Kill!Sorts]
  BY <1>1, <1>2 DEF Kill!ProcessInv, Kill!ProcessTypeOK
<1>4. Kill!ProcessTypeOK'
  <2>1. v1' \in [Pids -> [start : 0..v2', sort : Kill!Sorts]]
    BY <1>1, <1>3 DEF Kill!ProcessInv, Kill!ProcessTypeOK
  <2>2. \A c \in Workers : v3[c] \in [at : ProcessSteps, pid : Pids, start : 0..v2', sig : {"TERM", "KILL"}]
    BY <1>2, ProcessTypes DEF Kill!ProcessInv, ProcessCalls
  <2>3. v4' \in [Workers -> 0..v2']
    BY <1>1, <1>2 DEF Kill!ProcessInv, Kill!ProcessTypeOK
  <2>4. v3' \in [Workers -> [at : ProcessSteps, pid : Pids, start : 0..v2', sig : {"TERM", "KILL"}]]
    BY <1>1, <2>2 DEF Kill!ProcessInv, Kill!ProcessTypeOK
  <2> QED BY <1>1, <1>2, <2>1, <2>3, <2>4 DEF Kill!ProcessInv, Kill!ProcessTypeOK, ProcessSteps
<1>5. ASSUME NEW c \in Workers
      PROVE  /\ v3[c].at = "ok" => v1'[v3[c].pid].start # v3[c].start
             /\ v3[c].at \in {"signal", "await", "escalate"} =>
                  /\ v1'[v3[c].pid].start # 0 => v1'[v3[c].pid].start >= v3[c].start
                  /\ v1'[v3[c].pid].start = v3[c].start => v1'[v3[c].pid].sort # "protected"
  <2>1. v3[c].pid \in Pids /\ v3[c].start \in 0..v2
    BY ProcessTypes DEF Kill!ProcessInv
  <2>2. CASE v3[c].pid = p
    <3>1. v1'[v3[c].pid].start = v2 + 1
      BY <1>1, <2>1, <2>2 DEF Kill!ProcessInv, Kill!ProcessTypeOK
    <3> QED BY <1>2, <2>1, <3>1
  <2>3. CASE v3[c].pid # p
    <3>1. v1'[v3[c].pid] = v1[v3[c].pid]
      BY <1>1, <2>1, <2>3 DEF Kill!ProcessInv, Kill!ProcessTypeOK
    <3> QED BY <3>1 DEF Kill!ProcessInv, Kill!SuccessMeansGone, Kill!Gone, Kill!NamedOrNewer
  <2> QED BY <2>2, <2>3
<1> QED BY <1>1, <1>4, <1>5 DEF Kill!ProcessInv, Kill!SuccessMeansGone, Kill!NoBystander, Kill!Gone,
           Kill!NamedOrNewer

LEMMA ProcessSignal ==
  ASSUME Kill!ProcessInv, NEW c \in Workers, NEW sig, NEW next \in {"await", "awaitKill"},
         v3[c].at \in {"signal", "escalate"}, Kill!Signal(c, sig, next)
  PROVE  Kill!ProcessInv'
<1>1. Kill!NamedOrNewer(v3[c]) /\ v4[c] = v3[c].start /\ v3[c].start # 0
  BY DEF Kill!ProcessInv
<1>2. v4' = [v4 EXCEPT ![c] = v4[c]] /\ v4[c] \in 0..v2
  BY ProcessTypes DEF Kill!ProcessInv, Kill!Signal
<1>3. CASE Kill!Ends(c, "failed") /\ UNCHANGED <<v1, v2, v4, v5>>
  BY <1>1, <1>2, <1>3, ProcessOneStep DEF Kill!Ends
<1>4. CASE ~(Kill!Ends(c, "failed") /\ UNCHANGED <<v1, v2, v4, v5>>)
  <2> DEFINE k == v3[c]
             q == v1[k.pid]
  <2>1. /\ q.start # 0
        /\ v1' = [v1 EXCEPT ![k.pid] = Kill!NoProcess] \/ v1' = v1
        /\ v5' = (v5 \/ (q.start # k.start /\ q.start <= v4[c])
                         \/ (q.start = k.start /\ q.sort = "protected"))
        /\ Kill!Goes(c, next)
        /\ UNCHANGED <<v2, v4>>
    BY <1>4 DEF Kill!Signal
  <2>2. ~(q.start # k.start /\ q.start <= v4[c]) /\ ~(q.start = k.start /\ q.sort = "protected")
    BY <1>1, <2>1, ProcessTypes DEF Kill!ProcessInv, Kill!NamedOrNewer
  <2>3. ~v5 /\ ~v5'
    BY <2>1, <2>2 DEF Kill!ProcessInv, Kill!NoBystander
  <2>4. v5' = v5
    BY <2>1, <2>2, <2>3, ProcessTypes DEF Kill!ProcessInv, Kill!ProcessTypeOK
  <2>5. v3' = [v3 EXCEPT ![c].at = next] /\ k.pid \in Pids
    BY <2>1, ProcessTypes DEF Kill!Goes, Kill!ProcessInv
  <2>6. Kill!NoProcess \in ProcessProcs /\ Kill!NoProcess.start = 0
    BY DEF Kill!NoProcess, ProcessProcs, Kill!Sorts, Kill!ProcessInv, Kill!ProcessTypeOK
  <2>7. v3' \in [Workers -> ProcessCalls]
    BY <2>5, ProcessTypes DEF Kill!ProcessInv, ProcessCalls, ProcessSteps
  <2>8. Kill!ProcessTypeOK'
    BY <2>1, <2>4, <2>5, <2>6, <2>7 DEF Kill!ProcessInv, Kill!ProcessTypeOK, ProcessProcs, ProcessCalls,
       ProcessSteps
  <2>9. \A d \in Workers :
          /\ v3'[d].pid = v3[d].pid /\ v3'[d].start = v3[d].start
          /\ v3'[d].at = IF d = c THEN next ELSE v3[d].at
    BY <2>5, ProcessTypes DEF Kill!ProcessInv, ProcessCalls
  <2>10. \A p \in Pids : (v1'[p].start = v1[p].start /\ v1'[p].sort = v1[p].sort) \/ v1'[p].start = 0
    BY <2>1, <2>6 DEF Kill!ProcessInv, Kill!ProcessTypeOK
  <2>11. ASSUME NEW d \in Workers
         PROVE  /\ v3'[d].at # "idle" => v3'[d].start # 0
                /\ v3'[d].at = "ok" => v1'[v3'[d].pid].start # v3'[d].start
                /\ v3'[d].at \in {"signal", "escalate"} => v4'[d] = v3'[d].start
                /\ v3'[d].at \in {"signal", "await", "escalate"} =>
                     /\ v1'[v3'[d].pid].start # 0 => v1'[v3'[d].pid].start >= v3'[d].start
                     /\ v1'[v3'[d].pid].start = v3'[d].start => v1'[v3'[d].pid].sort # "protected"
    <3>1. v3[d].pid \in Pids
      BY ProcessTypes DEF Kill!ProcessInv
    <3>2. v3[d].at \notin {"idle"} => v3[d].start # 0
      BY DEF Kill!ProcessInv
    <3>3. v3[d].at \in {"signal", "await", "escalate"} => Kill!NamedOrNewer(v3[d])
      BY DEF Kill!ProcessInv
    <3> QED BY <1>1, <2>1, <2>9, <2>10, <3>1, <3>2, <3>3 DEF Kill!ProcessInv, Kill!NamedOrNewer,
               Kill!SuccessMeansGone, Kill!Gone
  <2> QED BY <2>3, <2>8, <2>11 DEF Kill!ProcessInv, Kill!SuccessMeansGone, Kill!NoBystander, Kill!Gone,
             Kill!NamedOrNewer
<1> QED BY <1>3, <1>4

LEMMA ProcessNextInv == Kill!ProcessInv /\ Kill!ProcessNext => Kill!ProcessInv'
<1> SUFFICES ASSUME Kill!ProcessInv, Kill!ProcessNext PROVE Kill!ProcessInv'
  OBVIOUS
<1>0. Kill!ProcessTypeOK
  BY DEF Kill!ProcessInv
<1>1. ASSUME NEW c \in Workers, NEW p \in Pids, NEW start, NEW sig \in {"TERM", "KILL"},
             Kill!KillRequest(c, p, start, sig)
      PROVE  Kill!ProcessInv'
  <2> DEFINE k == [at |-> IF v1[p].start # 0 /\ v1[p].sort = "protected" THEN "failed" ELSE "asked",
                   pid |-> p, start |-> start, sig |-> sig]
  <2>1. start \in 1..v2 /\ v3' = [v3 EXCEPT ![c] = k] /\ UNCHANGED <<v1, v2, v4, v5>>
    BY <1>1 DEF Kill!KillRequest
  <2>2. k \in ProcessCalls /\ k.start # 0 /\ k.at \in {"failed", "asked"}
    BY <2>1, <1>0 DEF ProcessCalls, ProcessSteps, Kill!ProcessTypeOK
  <2>3. v4' = [v4 EXCEPT ![c] = v4[c]] /\ v4[c] \in 0..v2
    BY <2>1, <1>0, ProcessTypes
  <2> HIDE DEF k
  <2> QED BY <2>1, <2>2, <2>3, ProcessOneCall
<1>2. ASSUME NEW c \in Workers, Kill!KillChecks(c) PROVE Kill!ProcessInv'
  <2> DEFINE k == v3[c]
             q == v1[k.pid]
  <2>1. /\ k.at = "asked" /\ v4' = [v4 EXCEPT ![c] = q.start] /\ q.start \in 0..v2
        /\ UNCHANGED <<v1, v2, v5>>
    BY <1>0, <1>2, ProcessTypes DEF Kill!KillChecks
  <2>2. CASE Kill!Gone(k) \/ q.sort \in {"protected", "kernel"}
    <3>1. v3' = [v3 EXCEPT ![c].at = "failed"]
      BY <1>2, <2>2 DEF Kill!KillChecks, Kill!Ends
    <3> QED BY <2>1, <3>1, ProcessOneStep
  <2>3. CASE ~(Kill!Gone(k) \/ q.sort \in {"protected", "kernel"})
    <3>1. v3' = [v3 EXCEPT ![c].at = "signal"]
      BY <1>2, <2>3 DEF Kill!KillChecks, Kill!Goes
    <3>2. Kill!NamedOrNewer(k) /\ q.start = k.start
      BY <1>0, <2>3, ProcessTypes DEF Kill!Gone, Kill!NamedOrNewer
    <3> QED BY <2>1, <3>1, <3>2, ProcessOneStep
  <2> QED BY <2>2, <2>3
<1>3. ASSUME NEW c \in Workers, Kill!FirstSignal(c) \/ Kill!Escalates(c) PROVE Kill!ProcessInv'
  BY <1>3, ProcessSignal DEF Kill!FirstSignal, Kill!Escalates
<1>4. ASSUME NEW c \in Workers, Kill!AwaitExit(c) PROVE Kill!ProcessInv'
  <2> DEFINE k == v3[c]
  <2>1. /\ k.at \in {"await", "awaitKill"} /\ v4' = [v4 EXCEPT ![c] = v1[k.pid].start]
        /\ v1[k.pid].start \in 0..v2 /\ UNCHANGED <<v1, v2, v5>>
    BY <1>0, <1>4, ProcessTypes DEF Kill!AwaitExit
  <2>2. CASE Kill!Gone(k)
    <3>1. v3' = [v3 EXCEPT ![c].at = "ok"]
      BY <1>4, <2>2 DEF Kill!AwaitExit, Kill!Ends
    <3> QED BY <2>1, <2>2, <3>1, ProcessOneStep
  <2>3. CASE ~Kill!Gone(k) /\ k.at = "await" /\ k.sig = "TERM"
    <3>1. v3' = [v3 EXCEPT ![c].at = "escalate"] /\ v1[k.pid].start = k.start
      BY <1>4, <2>3 DEF Kill!AwaitExit, Kill!Goes, Kill!Gone
    <3>2. Kill!NamedOrNewer(k)
      BY <2>3 DEF Kill!ProcessInv
    <3> QED BY <2>1, <3>1, <3>2, ProcessOneStep
  <2>4. CASE ~Kill!Gone(k) /\ ~(k.at = "await" /\ k.sig = "TERM")
    <3>1. v3' = [v3 EXCEPT ![c].at = "failed"]
      BY <1>4, <2>4 DEF Kill!AwaitExit, Kill!Ends
    <3> QED BY <2>1, <3>1, ProcessOneStep
  <2> QED BY <2>2, <2>3, <2>4
<1>5. ASSUME NEW p \in Pids, Kill!Exits(p) PROVE Kill!ProcessInv'
  BY <1>5, ProcessDies DEF Kill!Exits
<1>6. ASSUME NEW p \in Pids, NEW sort \in Kill!Sorts, Kill!Starts(p, sort) PROVE Kill!ProcessInv'
  BY <1>6, ProcessStarts
<1> QED BY <1>1, <1>2, <1>3, <1>4, <1>5, <1>6 DEF Kill!ProcessNext

LEMMA ProcessStutters == Kill!ProcessInv /\ UNCHANGED shared => Kill!ProcessInv'
BY DEF shared, Kill!Gone, Kill!NamedOrNewer, Kill!NoBystander, Kill!ProcessInv, Kill!ProcessTypeOK,
   Kill!SuccessMeansGone

-----------------------------------------------------------------------------
(***************************************************************************)
(* HostStreams, as Streams: v1 what, v2 connected, v3 entry, v4 stream, v5 *)
(* toldDone.                                                               *)
(* The entry of a name is the last stream subscribed under it that has not *)
(* been cancelled, so that a stream that still runs is the one its name    *)
(* finds.                                                                  *)
(***************************************************************************)

LEMMA StreamsBounds == MaxGen \in Nat
BY ServerBoundsAssumption

StreamsStreamRecord == [name : Items, client : Workers, cancelled : BOOLEAN, at : {"ack", "live", "ended", "gone"}]

LEMMA StreamsTypes ==
  ASSUME Streams!StreamsInv
  PROVE  /\ v4 \in Seq(StreamsStreamRecord) /\ Streams!Gens = 1..Len(v4) /\ Len(v4) \in Nat
         /\ \A g \in Streams!Gens : /\ v4[g] \in StreamsStreamRecord /\ v4[g].name \in Items /\ v4[g].client \in Workers
         /\ v3 \in [Items -> 0..Len(v4)]
         /\ \A n \in Items : v3[n] \in 0..Len(v4) /\ (v3[n] # 0 => v3[n] \in Streams!Gens)
<1>1. v4 \in Seq(StreamsStreamRecord) /\ v3 \in [Items -> 0..Len(v4)]
  BY DEF Streams!StreamsInv, Streams!StreamsTypeOK, StreamsStreamRecord
<1>2. Streams!Gens = 1..Len(v4) /\ Len(v4) \in Nat
  BY <1>1, LenProperties DEF Streams!Gens
<1>3. \A g \in Streams!Gens : /\ v4[g] \in StreamsStreamRecord
  BY <1>1, <1>2, ElementOfSeq
<1>4. \A g \in Streams!Gens : v4[g].name \in Items /\ v4[g].client \in Workers
  BY <1>3 DEF StreamsStreamRecord
<1> QED BY <1>1, <1>2, <1>3, <1>4

LEMMA StreamsInitInv == Streams!StreamsInit => Streams!StreamsInv
<1> SUFFICES ASSUME Streams!StreamsInit PROVE Streams!StreamsInv
  OBVIOUS
<1>1. /\ v1 \in Streams!StreamKinds /\ v2 = Workers /\ v3 = [n \in Items |-> 0]
      /\ v4 = <<>> /\ v5 = [c \in Workers |-> {}]
  BY DEF Streams!StreamsInit
<1>2. v4 \in Seq(StreamsStreamRecord) /\ Len(v4) = 0 /\ Streams!Gens = {}
  BY <1>1, EmptySeq DEF Streams!Gens
<1> QED BY <1>1, <1>2, StreamsBounds DEF Streams!StreamsInv, Streams!StreamsTypeOK,
           Streams!StreamsAreReachable, StreamsStreamRecord

\* A step that makes no new stream leaves the invariant if every entry stays or
\* is emptied, and no stream comes to be reached by its name alone.
LEMMA StreamsKeep ==
  ASSUME Streams!StreamsInv,
         v4' \in [Streams!Gens -> StreamsStreamRecord],
         \A g \in Streams!Gens : v4'[g].name = v4[g].name,
         \A n \in Items : v3'[n] # 0 => v3'[n] = v3[n] /\ v4'[v3[n]].at # "gone",
         \A g \in Streams!Gens : v4'[g].at \in {"ack", "live"} /\ ~v4'[g].cancelled =>
            /\ v4[g].at \in {"ack", "live"} /\ ~v4[g].cancelled
            /\ v3'[v4[g].name] = v3[v4[g].name],
         v3' \in [Items -> 0..Len(v4)],
         v2' \subseteq Workers, v1' = v1,
         v5' \in [Workers -> SUBSET (Items \X BOOLEAN)]
  PROVE  Streams!StreamsInv'
<1>1. Streams!Gens = 1..Len(v4) /\ Len(v4) \in Nat
  BY StreamsTypes
<1>2. v4' \in Seq(StreamsStreamRecord) /\ Len(v4') = Len(v4)
  <2>1. v4' \in [1..Len(v4) -> StreamsStreamRecord]
    BY <1>1
  <2>2. v4' \in Seq(StreamsStreamRecord)
    BY <1>1, <2>1, SeqDef
  <2>3. v4' \in [1..Len(v4') -> StreamsStreamRecord] /\ Len(v4') \in Nat
    BY <2>2, LenProperties
  <2>4. 1..Len(v4) = 1..Len(v4')
    BY <2>1, <2>3
  <2> QED BY <1>1, <2>2, <2>3, <2>4
<1>3. Streams!Gens' = Streams!Gens
  BY DEF Streams!Gens
<1>4. Streams!StreamsTypeOK'
  BY <1>2 DEF Streams!StreamsInv, Streams!StreamsTypeOK, StreamsStreamRecord
<1>5. Streams!StreamsAreReachable'
  <2>1. \A g \in Streams!Gens : v4'[g].at \in {"ack", "live"} /\ ~v4'[g].cancelled => v3'[v4'[g].name] = g
    BY DEF Streams!StreamsInv, Streams!StreamsAreReachable
  <2>2. \A n \in Items : v3'[n] # 0 => v4'[v3'[n]].at # "gone" /\ v4'[v3'[n]].name = n
    BY StreamsTypes DEF Streams!StreamsInv, Streams!StreamsAreReachable
  <2> QED BY <1>3, <2>1, <2>2 DEF Streams!StreamsAreReachable
<1> QED BY <1>4, <1>5 DEF Streams!StreamsInv

LEMMA StreamsCancel ==
  ASSUME Streams!StreamsInv, NEW n \in Items
  PROVE  /\ Streams!Cancel(v4, v3[n]) \in [Streams!Gens -> StreamsStreamRecord]
         /\ \A g \in Streams!Gens : LET s == Streams!Cancel(v4, v3[n])[g] IN
              /\ s.name = v4[g].name /\ s.at = v4[g].at /\ s.client = v4[g].client
              /\ ~s.cancelled => ~v4[g].cancelled /\ g # v3[n]
<1>1. v4 \in [Streams!Gens -> StreamsStreamRecord]
  BY StreamsTypes, LenProperties
<1>2. \A g \in Streams!Gens : [v4[g] EXCEPT !.cancelled = TRUE] \in StreamsStreamRecord
  BY <1>1 DEF StreamsStreamRecord
<1>3. CASE v3[n] = 0
  <2>1. 0 \notin Streams!Gens
    BY StreamsTypes
  <2> QED BY <1>1, <1>3, <2>1 DEF Streams!Cancel
<1>4. CASE v3[n] # 0
  <2> DEFINE e == v3[n]
             t == [v4 EXCEPT ![e].cancelled = TRUE]
  <2>1. e \in Streams!Gens /\ Streams!Cancel(v4, e) = t
    BY <1>4, StreamsTypes DEF Streams!Cancel
  <2>2. /\ t \in [Streams!Gens -> StreamsStreamRecord]
        /\ \A g \in Streams!Gens : t[g] = IF g = e THEN [v4[g] EXCEPT !.cancelled = TRUE] ELSE v4[g]
    BY <1>1, <1>2, <2>1
  <2>3. \A g \in Streams!Gens : LET s == [v4[g] EXCEPT !.cancelled = TRUE] IN
              s.name = v4[g].name /\ s.at = v4[g].at /\ s.client = v4[g].client /\ s.cancelled
    BY <1>1 DEF StreamsStreamRecord
  <2> HIDE DEF t
  <2> QED BY <2>1, <2>2, <2>3
<1> QED BY <1>3, <1>4

LEMMA StreamsSubscribe ==
  ASSUME Streams!StreamsInv, NEW c \in Workers, NEW n \in Items, Streams!StreamSubscribe(c, n)
  PROVE  Streams!StreamsInv'
<1> DEFINE old == Streams!Cancel(v4, v3[n])
           new == [name |-> n, client |-> c, cancelled |-> FALSE, at |-> "ack"]
           l == Len(v4)
<1>1. /\ l < MaxGen /\ v3' = [v3 EXCEPT ![n] = l + 1] /\ v4' = Append(old, new)
      /\ UNCHANGED <<v1, v2, v5>>
  BY DEF Streams!StreamSubscribe
<1>2. /\ old \in [Streams!Gens -> StreamsStreamRecord]
      /\ \A g \in Streams!Gens :
           /\ old[g].name = v4[g].name /\ old[g].at = v4[g].at
           /\ ~old[g].cancelled => ~v4[g].cancelled /\ g # v3[n]
  BY StreamsCancel
<1>3. Streams!Gens = 1..l /\ l \in Nat /\ v3 \in [Items -> 0..l]
  BY StreamsTypes
<1>4. new \in StreamsStreamRecord
  BY DEF StreamsStreamRecord
<1> HIDE DEF old
<1>5. old \in Seq(StreamsStreamRecord) /\ Len(old) = l
  <2>1. old \in Seq(StreamsStreamRecord)
    BY <1>2, <1>3, SeqDef
  <2>2. 1..Len(old) = 1..l /\ Len(old) \in Nat
    BY <1>2, <1>3, <2>1, LenProperties
  <2> QED BY <1>3, <2>1, <2>2
<1> HIDE DEF new
<1>6. /\ v4' \in Seq(StreamsStreamRecord) /\ Len(v4') = l + 1
      /\ v4'[l + 1] = new /\ \A g \in 1..l : v4'[g] = old[g]
  BY <1>1, <1>4, <1>5, AppendProperties
<1>7. Streams!Gens' = 1..(l + 1)
  BY <1>6, LenProperties DEF Streams!Gens
<1>8. Streams!StreamsTypeOK'
  <2>1. v3' \in [Items -> 0..Len(v4')]
    BY <1>1, <1>3, <1>6
  <2> QED BY <1>1, <1>3, <1>6, <2>1, StreamsBounds DEF Streams!StreamsInv, Streams!StreamsTypeOK,
             StreamsStreamRecord
<1>9. ASSUME NEW g \in 1..(l + 1), v4'[g].at \in {"ack", "live"} /\ ~v4'[g].cancelled
      PROVE  v3'[v4'[g].name] = g
  <2>1. CASE g = l + 1
    BY <1>1, <1>3, <1>6, <2>1 DEF new
  <2>2. CASE g # l + 1
    <3>1. g \in Streams!Gens /\ v4'[g] = old[g]
      BY <1>3, <1>6, <2>2
    <3>2. v3[v4[g].name] = g /\ g # v3[n]
      BY <1>2, <1>9, <3>1 DEF Streams!StreamsInv, Streams!StreamsAreReachable
    <3>3. v4[g].name # n /\ v4[g].name \in Items
      BY <3>1, <3>2, StreamsTypes
    <3> QED BY <1>1, <1>2, <1>3, <3>1, <3>2, <3>3
  <2> QED BY <2>1, <2>2
<1>10. ASSUME NEW m \in Items, v3'[m] # 0 PROVE v4'[v3'[m]].at # "gone" /\ v4'[v3'[m]].name = m
  <2>1. CASE m = n
    BY <1>1, <1>3, <1>6, <2>1 DEF new
  <2>2. CASE m # n
    <3>1. v3'[m] = v3[m]
      BY <1>1, <1>3, <2>2
    <3>2. v3[m] \in Streams!Gens /\ v4[v3[m]].at # "gone" /\ v4[v3[m]].name = m
      BY <1>10, <3>1, StreamsTypes DEF Streams!StreamsInv, Streams!StreamsAreReachable
    <3> QED BY <1>2, <1>3, <1>6, <3>1, <3>2
  <2> QED BY <2>1, <2>2
<1> QED BY <1>7, <1>8, <1>9, <1>10 DEF Streams!StreamsInv, Streams!StreamsAreReachable

\* A step of one stream's goroutine.
LEMMA StreamsOneStream ==
  ASSUME Streams!StreamsInv, NEW g \in Streams!Gens, NEW at \in {"live", "ended", "gone"},
         NEW s \in StreamsStreamRecord,
         s.name = v4[g].name, s.at = at, v4[g].cancelled => s.cancelled,
         at = "live" => v4[g].at = "ack",
         at \in {"ended", "gone"} => v4[g].at \in {"live", "ended"},
         v4' = [v4 EXCEPT ![g] = s],
         v3' = IF at = "gone" THEN [v3 EXCEPT ![v4[g].name] = IF @ = g THEN 0 ELSE @] ELSE v3,
         UNCHANGED <<v1, v2>>,
         v5' \in [Workers -> SUBSET (Items \X BOOLEAN)]
  PROVE  Streams!StreamsInv'
<1>1. v4 \in [Streams!Gens -> StreamsStreamRecord] /\ v3 \in [Items -> 0..Len(v4)] /\ Len(v4) \in Nat
      /\ v4[g].name \in Items
  BY StreamsTypes, LenProperties
<1>2. s \in StreamsStreamRecord /\ s.name = v4[g].name /\ s.at = at
  OBVIOUS
<1>3. /\ v4' \in [Streams!Gens -> StreamsStreamRecord]
      /\ \A h \in Streams!Gens : v4'[h] = IF h = g THEN s ELSE v4[h]
  BY <1>1, <1>2
<1>4. v3' \in [Items -> 0..Len(v4)]
  BY <1>1
<1>5. \A n \in Items : v3'[n] # 0 => v3'[n] = v3[n] /\ (at = "gone" => v3[n] # g)
  <2>1. \A n \in Items : v3[n] = g => v4[g].name = n
    BY StreamsTypes DEF Streams!StreamsInv, Streams!StreamsAreReachable
  <2> QED BY <1>1, <2>1
<1>6. \A n \in Items : v3'[n] # 0 => v3'[n] = v3[n] /\ v4'[v3[n]].at # "gone"
  <2>1. \A n \in Items : v3[n] # 0 => v3[n] \in Streams!Gens /\ v4[v3[n]].at # "gone"
    BY StreamsTypes DEF Streams!StreamsInv, Streams!StreamsAreReachable
  <2> QED BY <1>2, <1>3, <1>5, <2>1
<1>7. \A h \in Streams!Gens : v4'[h].name = v4[h].name
  BY <1>2, <1>3
<1>8. ASSUME NEW h \in Streams!Gens, v4'[h].at \in {"ack", "live"} /\ ~v4'[h].cancelled
      PROVE  /\ v4[h].at \in {"ack", "live"} /\ ~v4[h].cancelled
             /\ v3'[v4[h].name] = v3[v4[h].name]
  <2>1. v4[h].at \in {"ack", "live"} /\ ~v4[h].cancelled
    BY <1>2, <1>3, <1>8
  <2>2. CASE at # "gone"
    BY <2>1, <2>2
  <2>3. CASE at = "gone"
    <3>1. h # g
      BY <1>2, <1>3, <1>8, <2>3
    <3>2. v3[v4[h].name] = h /\ v4[h].name \in Items
      BY <2>1, StreamsTypes DEF Streams!StreamsInv, Streams!StreamsAreReachable
    <3> QED BY <1>1, <2>1, <2>3, <3>1, <3>2
  <2> QED BY <2>2, <2>3
<1> QED BY <1>3, <1>4, <1>6, <1>7, <1>8, StreamsKeep DEF Streams!StreamsInv, Streams!StreamsTypeOK

LEMMA StreamsNextInv == Streams!StreamsInv /\ Streams!StreamsNext => Streams!StreamsInv'
<1> SUFFICES ASSUME Streams!StreamsInv, Streams!StreamsNext PROVE Streams!StreamsInv'
  OBVIOUS
<1>0. /\ v4 \in [Streams!Gens -> StreamsStreamRecord] /\ v3 \in [Items -> 0..Len(v4)]
      /\ v2 \subseteq Workers /\ v5 \in [Workers -> SUBSET (Items \X BOOLEAN)]
  BY StreamsTypes, LenProperties DEF Streams!StreamsInv, Streams!StreamsTypeOK
<1>1. ASSUME NEW c \in Workers, Streams!Disconnects(c) PROVE Streams!StreamsInv'
  <2>1. /\ v2' = v2 \ {c} /\ v1' = v1 /\ v3' = v3
        /\ v4' = [g \in Streams!Gens |-> IF v4[g].client = c /\ v4[g].at # "gone"
                                     THEN [v4[g] EXCEPT !.cancelled = TRUE] ELSE v4[g]]
        /\ v5' = [v5 EXCEPT ![c] = {}]
    BY <1>1 DEF Streams!Disconnects
  <2>2. \A g \in Streams!Gens : LET s == [v4[g] EXCEPT !.cancelled = TRUE] IN
           s \in StreamsStreamRecord /\ s.name = v4[g].name /\ s.at = v4[g].at /\ s.cancelled
    BY <1>0 DEF StreamsStreamRecord
  <2>3. /\ v4' \in [Streams!Gens -> StreamsStreamRecord]
        /\ \A g \in Streams!Gens : /\ v4'[g].name = v4[g].name /\ v4'[g].at = v4[g].at
                                   /\ ~v4'[g].cancelled => ~v4[g].cancelled
    BY <1>0, <2>1, <2>2
  <2>4. v5' \in [Workers -> SUBSET (Items \X BOOLEAN)]
    BY <1>0, <2>1
  <2>5. \A n \in Items : v3[n] # 0 => v4'[v3[n]].at # "gone"
    BY <2>3, StreamsTypes DEF Streams!StreamsInv, Streams!StreamsAreReachable
  <2> QED BY <1>0, <2>1, <2>3, <2>4, <2>5, StreamsKeep
<1>2. ASSUME NEW c \in Workers, Streams!Connects(c) PROVE Streams!StreamsInv'
  <2>1. v2' = v2 \cup {c} /\ UNCHANGED <<v1, v3, v4, v5>>
    BY <1>2 DEF Streams!Connects
  <2> QED BY <1>0, <2>1 DEF Streams!StreamsInv, Streams!StreamsTypeOK, Streams!StreamsAreReachable,
             Streams!Gens
<1>3. ASSUME NEW c \in Workers, NEW n \in Items, Streams!StreamUnsubscribe(c, n) PROVE Streams!StreamsInv'
  <2>1. /\ v4' = Streams!Cancel(v4, v3[n]) /\ v3' = [v3 EXCEPT ![n] = 0]
        /\ UNCHANGED <<v1, v2, v5>>
    BY <1>3 DEF Streams!StreamUnsubscribe
  <2>2. /\ v4' \in [Streams!Gens -> StreamsStreamRecord]
        /\ \A g \in Streams!Gens :
           /\ v4'[g].name = v4[g].name /\ v4'[g].at = v4[g].at
           /\ ~v4'[g].cancelled => ~v4[g].cancelled /\ g # v3[n]
    BY <2>1, StreamsCancel
  <2>3. v3' \in [Items -> 0..Len(v4)] /\ \A m \in Items : v3'[m] = IF m = n THEN 0 ELSE v3[m]
    BY <1>0, <2>1, StreamsTypes
  <2>4. \A m \in Items : v3'[m] # 0 => v3'[m] = v3[m] /\ v4'[v3[m]].at # "gone"
    BY <2>2, <2>3, StreamsTypes DEF Streams!StreamsInv, Streams!StreamsAreReachable
  <2>5. \A g \in Streams!Gens : v4'[g].at \in {"ack", "live"} /\ ~v4'[g].cancelled =>
            /\ v4[g].at \in {"ack", "live"} /\ ~v4[g].cancelled
            /\ v3'[v4[g].name] = v3[v4[g].name]
    BY <2>2, <2>3, StreamsTypes DEF Streams!StreamsInv, Streams!StreamsAreReachable
  <2> QED BY <1>0, <2>1, <2>2, <2>3, <2>4, <2>5, StreamsKeep
<1>4. ASSUME NEW g \in Streams!Gens, Streams!StreamStarts(g) PROVE Streams!StreamsInv'
  <2>1. /\ v4[g].at = "ack" /\ v4' = [v4 EXCEPT ![g].at = "live"]
        /\ v5' = [v5 EXCEPT ![v4[g].client] = {t \in @ : t[1] # v4[g].name}]
        /\ UNCHANGED <<v1, v2, v3>>
    BY <1>4 DEF Streams!StreamStarts
  <2> DEFINE s == [v4[g] EXCEPT !.at = "live"]
  <2>2. s \in StreamsStreamRecord /\ s.name = v4[g].name /\ s.at = "live" /\ s.cancelled = v4[g].cancelled
    BY <1>0 DEF StreamsStreamRecord
  <2>3. v4' = [v4 EXCEPT ![g] = s]
    BY <1>0, <2>1
  <2> HIDE DEF s
  <2>4. v5' \in [Workers -> SUBSET (Items \X BOOLEAN)]
    BY <1>0, <2>1
  <2> QED BY <2>1, <2>2, <2>3, <2>4, StreamsOneStream
<1>5. ASSUME NEW g \in Streams!Gens, Streams!StreamEnds(g) PROVE Streams!StreamsInv'
  <2>1. /\ v4[g].at = "live" /\ v4' = [v4 EXCEPT ![g].at = "ended"]
        /\ \E ok \in Streams!Ending(g) : Streams!Told(v4[g].client, v4[g].name, ok)
        /\ UNCHANGED <<v1, v2, v3>>
    BY <1>5 DEF Streams!StreamEnds
  <2> DEFINE s == [v4[g] EXCEPT !.at = "ended"]
  <2>2. s \in StreamsStreamRecord /\ s.name = v4[g].name /\ s.at = "ended" /\ s.cancelled = v4[g].cancelled
        /\ v4[g].client \in Workers /\ v4[g].name \in Items
    BY <1>0 DEF StreamsStreamRecord
  <2>3. v4' = [v4 EXCEPT ![g] = s]
    BY <1>0, <2>1
  <2> HIDE DEF s
  <2>4. v5' \in [Workers -> SUBSET (Items \X BOOLEAN)]
    <3>1. PICK ok \in Streams!Ending(g) : Streams!Told(v4[g].client, v4[g].name, ok)
      BY <2>1
    <3>2. ok \in BOOLEAN
      BY DEF Streams!Ending
    <3>3. {<<v4[g].name, ok>>} \subseteq Items \X BOOLEAN
      BY <2>2, <3>2
    <3>4. CASE v4[g].client \in v2
      <4>1. v5' = [v5 EXCEPT ![v4[g].client] = @ \cup {<<v4[g].name, ok>>}]
        BY <3>1, <3>4 DEF Streams!Told
      <4>2. v5[v4[g].client] \cup {<<v4[g].name, ok>>} \subseteq Items \X BOOLEAN
        BY <1>0, <2>2, <3>3
      <4> QED BY <1>0, <4>1, <4>2
    <3>5. CASE v4[g].client \notin v2
      BY <1>0, <3>1, <3>5 DEF Streams!Told
    <3> QED BY <3>4, <3>5
  <2>5. /\ "ended" \in {"live", "ended", "gone"}
        /\ v4[g].cancelled => s.cancelled
        /\ "ended" = "live" => v4[g].at = "ack"
        /\ "ended" \in {"ended", "gone"} => v4[g].at \in {"live", "ended"}
        /\ v3' = IF "ended" = "gone" THEN [v3 EXCEPT ![v4[g].name] = IF @ = g THEN 0 ELSE @] ELSE v3
    BY <2>1, <2>2
  <2> QED BY <1>0, <1>5, <2>1, <2>2, <2>3, <2>4, <2>5, StreamsOneStream
<1>6. ASSUME NEW g \in Streams!Gens, Streams!StreamLeaves(g) PROVE Streams!StreamsInv'
  <2>1. /\ v4[g].at = "ended"
        /\ v3' = [v3 EXCEPT ![v4[g].name] = IF @ = g THEN 0 ELSE @]
        /\ v4' = [v4 EXCEPT ![g].at = "gone", ![g].cancelled = TRUE]
        /\ UNCHANGED <<v1, v2, v5>>
    BY <1>6 DEF Streams!StreamLeaves
  <2> DEFINE r == [v4[g] EXCEPT !.at = "gone"]
             s == [r EXCEPT !.cancelled = TRUE]
             t == [v4 EXCEPT ![g] = r]
  <2>2. r \in StreamsStreamRecord /\ r.name = v4[g].name /\ r.at = "gone"
    BY <1>0 DEF StreamsStreamRecord
  <2>3. v4' = [t EXCEPT ![g].cancelled = TRUE] /\ t[g] = r /\ DOMAIN t = Streams!Gens
        /\ \A h \in Streams!Gens : h # g => t[h] = v4[h]
    BY <1>0, <2>1
  <2> HIDE DEF r
  <2>4. s \in StreamsStreamRecord /\ s.name = v4[g].name /\ s.at = "gone" /\ s.cancelled
    BY <2>2 DEF StreamsStreamRecord
  <2>5. v4' = [t EXCEPT ![g] = s]
    BY <2>3
  <2> HIDE DEF s, t
  <2>6. v4' = [v4 EXCEPT ![g] = s]
    BY <1>0, <2>3, <2>5
  <2> QED BY <1>0, <2>1, <2>4, <2>6, StreamsOneStream
<1> QED BY <1>1, <1>2, <1>3, <1>4, <1>5, <1>6, StreamsSubscribe DEF Streams!StreamsNext

LEMMA StreamsStutters == Streams!StreamsInv /\ UNCHANGED shared => Streams!StreamsInv'
BY DEF shared, Streams!Gens, Streams!StreamsAreReachable, Streams!StreamsInv, Streams!StreamsTypeOK

-----------------------------------------------------------------------------
(***************************************************************************)
(* HostMetrics, as Metrics: v1 clock, v2 busy, v3 rx, v4 received, v5      *)
(* active, v6 last, v7 sampler, v8 report, v9 overtaken.                   *)
(* The counters only rise, and the last sample and every reading under way *)
(* are values they once had, in an order of their own: overtaken readings  *)
(* are those that lost the order.                                          *)
(***************************************************************************)

LEMMA MetricsBounds == MaxSampleTime \in Nat /\ Word \in Nat /\ MaxSampleTime < Word
BY ServerBoundsAssumption, WordAssumption

MetricsLastRecord == [time : 0..MaxSampleTime, busy : 0..MaxSampleTime, idle : 0..MaxSampleTime,
                      rx : 0..Metrics!NoNet, rxTime : 0..MaxSampleTime]
MetricsReportRecord == [cpu : Nat, share : Nat, rate : Nat, span : Nat,
                        since : 0..MaxSampleTime, from : 0..MaxSampleTime]

LEMMA MetricsTypes ==
  ASSUME Metrics!MetricsInv
  PROVE  /\ v1 \in 0..MaxSampleTime /\ v2 \in 0..v1 /\ v3 \in 0..v1 /\ v1 \in Nat /\ v1 < Word
         /\ v4 \in [0..MaxSampleTime -> Nat] /\ v5 \in BOOLEAN /\ v9 \in BOOLEAN
         /\ v6 \in MetricsLastRecord /\ v7 \in [Workers -> Metrics!Reading] /\ v8 \in MetricsReportRecord
         /\ Metrics!ReceivedRises /\ Metrics!LastIsSound /\ \A s \in Workers : Metrics!ReadingIsSound(s)
<1>1. /\ v1 \in 0..MaxSampleTime /\ v2 \in 0..v1 /\ v3 \in 0..v1
      /\ v4 \in [0..MaxSampleTime -> Nat] /\ v5 \in BOOLEAN /\ v9 \in BOOLEAN
      /\ v7 \in [Workers -> Metrics!Reading]
  BY DEF Metrics!MetricsInv, Metrics!MetricsTypeOK
<1>2. v6 \in MetricsLastRecord /\ v8 \in MetricsReportRecord
  BY DEF Metrics!MetricsInv, Metrics!MetricsTypeOK, MetricsLastRecord, MetricsReportRecord
<1>3. /\ Metrics!ReceivedRises /\ Metrics!LastIsSound
      /\ \A s \in Workers : Metrics!ReadingIsSound(s)
  BY DEF Metrics!MetricsInv
<1>4. v1 \in Nat /\ v1 < Word
  BY <1>1, MetricsBounds
<1> QED BY <1>1, <1>2, <1>3, <1>4

LEMMA MetricsNumbers ==
  ASSUME Metrics!MetricsInv
  PROVE  /\ v1 \in Nat /\ v2 \in Nat /\ v3 \in Nat /\ MaxSampleTime \in Nat /\ Word \in Nat
         /\ v1 <= MaxSampleTime /\ v2 <= v1 /\ v3 <= v1 /\ MaxSampleTime < Word
         /\ v1 \in 0..v1 /\ 0..v1 \subseteq 0..MaxSampleTime
         /\ \A i \in 0..MaxSampleTime : v4[i] \in Nat
<1>1. v1 \in 0..MaxSampleTime /\ v2 \in 0..v1 /\ v3 \in 0..v1 /\ v4 \in [0..MaxSampleTime -> Nat]
  BY MetricsTypes
<1> QED BY <1>1, MetricsBounds

LEMMA MetricsMinusOfLess ==
  ASSUME NEW a \in 0..MaxSampleTime, NEW b \in 0..a
  PROVE  Metrics!Minus(a, b) = a - b
<1>1. \A w \in Nat \ {0}, x \in Nat : x < w => \A y \in 0..x : (x + w - y) % w = x - y
  BY SMT
<1> QED BY <1>1, MetricsBounds DEF Metrics!Minus

LEMMA MetricsDivTimes ==
  ASSUME NEW a \in Nat, NEW w \in Nat \ {0}
  PROVE  (a \div w) * w <= a /\ a \div w \in Nat
BY SMT

LEMMA MetricsInitInv == Metrics!MetricsInit => Metrics!MetricsInv
<1> SUFFICES ASSUME Metrics!MetricsInit PROVE Metrics!MetricsInv
  OBVIOUS
<1>1. /\ v1 = 0 /\ v2 = 0 /\ v3 = 0 /\ v4 = [t \in 0..MaxSampleTime |-> 0] /\ v5 = TRUE
      /\ v6 = [time |-> 0, busy |-> 0, idle |-> 0, rx |-> Metrics!NoNet, rxTime |-> 0]
      /\ v7 = [s \in Workers |-> Metrics!NoReading] /\ v8 = Metrics!NoReport /\ v9 = FALSE
  BY DEF Metrics!MetricsInit
<1>2. /\ Metrics!NoReading \in Metrics!Reading /\ Metrics!NoReading.at = "idle"
      /\ Metrics!NoReport \in MetricsReportRecord /\ Metrics!NoNet \in 0..Metrics!NoNet
      /\ Metrics!NoReport.rate = 0 /\ Metrics!NoReport.span = 0 /\ Metrics!NoReport.from = 0
      /\ Metrics!NoReport.cpu = Metrics!NoReport.share
  BY MetricsBounds DEF Metrics!NoReading, Metrics!Reading, Metrics!NoReport, MetricsReportRecord,
     Metrics!NoNet
<1>3. Metrics!MetricsTypeOK
  <2>1. /\ v1 \in 0..MaxSampleTime /\ v2 \in 0..v1 /\ v3 \in 0..v1 /\ v4 \in [0..MaxSampleTime -> Nat]
        /\ v8 \in MetricsReportRecord
    BY <1>1, <1>2, MetricsBounds
  <2>4. v5 \in BOOLEAN /\ v9 \in BOOLEAN
    BY <1>1, Zenon
  <2>2. v6 \in [time : 0..MaxSampleTime, busy : 0..MaxSampleTime, idle : 0..MaxSampleTime,
               rx : 0..Metrics!NoNet, rxTime : 0..MaxSampleTime]
    BY <1>1, <1>2, MetricsBounds
  <2>3. v7 \in [Workers -> Metrics!Reading]
    BY <1>1, <1>2
  <2> QED BY <2>1, <2>2, <2>3, <2>4 DEF Metrics!MetricsTypeOK, MetricsReportRecord
<1>4. Metrics!NoInventedTraffic /\ Metrics!CpuIsRightInOrder
  BY <1>1, <1>2, MetricsBounds DEF Metrics!NoInventedTraffic, Metrics!CpuIsRightInOrder,
     Metrics!CpuIsAShare
<1>5. Metrics!ReceivedRises
  BY <1>1, MetricsBounds DEF Metrics!ReceivedRises
<1>6. Metrics!LastIsSound
  BY <1>1, <1>2, MetricsBounds DEF Metrics!LastIsSound, Metrics!CounterIsOf, Metrics!IsPast
<1>7. \A s \in Workers : Metrics!ReadingIsSound(s)
  BY <1>1, <1>2 DEF Metrics!ReadingIsSound
<1> QED BY <1>3, <1>4, <1>5, <1>6, <1>7 DEF Metrics!MetricsInv

LEMMA MetricsHostTickInv ==
  ASSUME Metrics!MetricsInv, NEW spent \in 0..1, NEW bytes \in 0..1, Metrics!HostTick(spent, bytes)
  PROVE  Metrics!MetricsInv'
<1> DEFINE more == IF v5 THEN bytes ELSE 0
<1>0. more \in 0..1
  OBVIOUS
<1>1. /\ v1 < MaxSampleTime /\ v1' = v1 + 1 /\ v2' = v2 + spent
      /\ v3' = v3 + more /\ v4' = [v4 EXCEPT ![v1 + 1] = v4[v1] + more]
      /\ UNCHANGED <<v5, v6, v7, v8, v9>>
  <2>1. /\ v1 < MaxSampleTime /\ v1' = v1 + 1 /\ v2' = v2 + spent
        /\ v3' = IF v5 THEN v3 + bytes ELSE v3
        /\ v4' = [v4 EXCEPT ![v1'] = v4[v1] + more]
        /\ UNCHANGED <<v5, v6, v7, v8, v9>>
    BY DEF Metrics!HostTick
  <2>2. v3' = v3 + more
    BY <2>1, MetricsTypes, MetricsBounds
  <2> QED BY <2>1, <2>2
<1> HIDE DEF more
<1>2. /\ v1' \in 0..MaxSampleTime /\ v1 + 1 \in 0..MaxSampleTime /\ v2' \in 0..v1' /\ v3' \in 0..v1'
      /\ v4[v1] \in Nat
  BY <1>0, <1>1, MetricsNumbers
<1>3. /\ v4' \in [0..MaxSampleTime -> Nat] /\ v4'[v1 + 1] = v4[v1] + more
      /\ \A i \in 0..v1 : v4'[i] = v4[i]
  <2>1. v4 \in [0..MaxSampleTime -> Nat]
    BY MetricsTypes
  <2>2. v4[v1] + more \in Nat
    BY <1>0, <1>2
  <2>3. \A i \in 0..v1 : i # v1 + 1 /\ i \in 0..MaxSampleTime
    BY MetricsNumbers
  <2> QED BY <1>1, <1>2, <2>1, <2>2, <2>3
<1>4. Metrics!MetricsTypeOK'
  BY <1>1, <1>2, <1>3 DEF Metrics!MetricsInv, Metrics!MetricsTypeOK
<1>5. v3 = v4[v1] /\ \A i, j \in 0..v1 : i <= j => v4[i] <= v4[j]
  BY MetricsTypes DEF Metrics!ReceivedRises
<1>6. Metrics!ReceivedRises'
  <2>1. v3' = v4'[v1']
    BY <1>1, <1>3, <1>5
  <2>2. ASSUME NEW i \in 0..(v1 + 1), NEW j \in 0..(v1 + 1), i <= j PROVE v4'[i] <= v4'[j]
    <3>1. CASE j \in 0..v1
      <4>1. i \in 0..v1
        BY <2>2, <3>1, MetricsTypes
      <4> QED BY <1>3, <1>5, <2>2, <3>1, <4>1
    <3>2. CASE j = v1 + 1 /\ i \in 0..v1
      <4>1. v4[i] <= v4[v1] /\ v4[i] \in Nat
        BY <1>5, <3>2, MetricsTypes, MetricsBounds
      <4> QED BY <1>0, <1>2, <1>3, <3>2, <4>1
    <3>3. CASE j = v1 + 1 /\ i = v1 + 1
      BY <1>2, <1>3, <1>0, <3>3
    <3> QED BY <3>1, <3>2, <3>3, MetricsTypes
  <2> QED BY <1>1, <2>1, <2>2 DEF Metrics!ReceivedRises
<1>7. ASSUME NEW c, NEW t \in 0..v1, c \in 0..Metrics!NoNet, Metrics!CounterIsOf(c, t)
      PROVE  (c # Metrics!NoNet) => c <= v3' /\ c >= v4'[t]
  <2> SUFFICES ASSUME c # Metrics!NoNet PROVE c <= v3' /\ c >= v4'[t]
    OBVIOUS
  <2>1. c <= v3 /\ c >= v4[t]
    BY <1>7 DEF Metrics!CounterIsOf
  <2>2. c \in Nat /\ v3 \in Nat /\ more \in Nat
    BY <1>0, <1>7, MetricsNumbers DEF Metrics!NoNet
  <2>3. v3' = v3 + more /\ v4'[t] = v4[t]
    BY <1>1, <1>3
  <2> QED BY <2>1, <2>2, <2>3
<1>8. ASSUME NEW a, a.busy \in Nat, a.idle \in Nat, Metrics!IsPast(a)
      PROVE  a.busy <= v2' /\ a.idle <= v1' - v2'
  BY <1>0, <1>1, <1>8, MetricsNumbers DEF Metrics!IsPast
<1>9. /\ v6.busy \in Nat /\ v6.idle \in Nat /\ v6.rx \in 0..Metrics!NoNet /\ v6.time \in Nat
      /\ v6.rxTime \in 0..v1
      /\ v6.time <= v1 /\ v8.from <= v1 /\ v8.from \in 0..v1
      /\ Metrics!CounterIsOf(v6.rx, v6.rxTime) /\ Metrics!IsPast(v6)
  BY MetricsTypes, MetricsBounds DEF Metrics!LastIsSound, MetricsLastRecord, MetricsReportRecord
<1>10. Metrics!LastIsSound'
  <2>1. (v6.rx # Metrics!NoNet) => v6.rx <= v3' /\ v6.rx >= v4'[v6.rxTime]
    BY <1>7, <1>9
  <2>2. v6.busy <= v2' /\ v6.idle <= v1' - v2'
    BY <1>8, <1>9
  <2>3. v6.time <= v1' /\ v6.rxTime <= v1' /\ v8.from <= v1'
    BY <1>1, <1>9, MetricsNumbers, SMTT(30)
  <2> QED BY <1>1, <2>1, <2>2, <2>3 DEF Metrics!LastIsSound, Metrics!CounterIsOf, Metrics!IsPast,
             Metrics!NoNet
<1>11. Metrics!NoInventedTraffic'
  <2> DEFINE p == v8.rate * v8.span
  <2>1. p \in Nat
    BY MetricsTypes DEF MetricsReportRecord
  <2>2. p <= v4[v1] - v4[v8.from]
    BY DEF Metrics!MetricsInv, Metrics!NoInventedTraffic
  <2> HIDE DEF p
  <2>3. v4'[v8.from] = v4[v8.from] /\ v4[v8.from] \in Nat
    <3>1. v8.from \in 0..MaxSampleTime
      BY <1>9, MetricsNumbers
    <3> QED BY <1>3, <1>9, <3>1, MetricsNumbers
  <2>4. p <= v4'[v1'] - v4'[v8.from]
    BY <1>0, <1>1, <1>2, <1>3, <2>1, <2>2, <2>3, SMTT(30)
  <2> QED BY <1>1, <2>4 DEF Metrics!NoInventedTraffic, p
<1>12. Metrics!CpuIsRightInOrder'
  BY <1>1 DEF Metrics!MetricsInv, Metrics!CpuIsRightInOrder, Metrics!CpuIsAShare
<1>13. ASSUME NEW s \in Workers PROVE Metrics!ReadingIsSound(s)'
  <2>1. Metrics!ReadingIsSound(s) /\ v7[s] \in Metrics!Reading /\ v7' = v7 /\ v6' = v6
    BY <1>1, MetricsTypes
  <2>2. v7[s].busy \in Nat /\ v7[s].idle \in Nat /\ v7[s].rx \in 0..Metrics!NoNet /\ v7[s].time \in Nat
    BY <2>1, MetricsBounds DEF Metrics!Reading
  <2>3. v7[s].at # "idle" => v7[s].time <= v1 /\ v7[s].time \in 0..v1
    BY <2>1, <2>2, MetricsTypes DEF Metrics!ReadingIsSound
  <2>4. v7[s].at # "idle" => v7[s].time <= v1'
    BY <1>1, <2>2, <2>3, MetricsTypes
  <2>5. v7[s].at = "commit" => (v7[s].rx # Metrics!NoNet => v7[s].rx <= v3' /\ v7[s].rx >= v4'[v7[s].time])
    <3>1. v7[s].at = "commit" => Metrics!CounterIsOf(v7[s].rx, v7[s].time)
      BY <2>1 DEF Metrics!ReadingIsSound
    <3> QED BY <1>7, <2>2, <2>3, <3>1
  <2>6. v7[s].at = "commit" => v7[s].busy <= v2' /\ v7[s].idle <= v1' - v2'
    <3>1. v7[s].at = "commit" => Metrics!IsPast(v7[s])
      BY <2>1 DEF Metrics!ReadingIsSound
    <3> QED BY <1>8, <2>2, <3>1
  <2>7. v7[s].at = "commit" => /\ Metrics!Ordered(v7[s], v6) /\ Metrics!Ordered(v6, v7[s])
                               /\ \A o \in Workers : v7[o].at = "commit" => Metrics!Ordered(v7[s], v7[o])
    BY <2>1 DEF Metrics!ReadingIsSound
  <2> QED BY <2>1, <2>4, <2>5, <2>6, <2>7 DEF Metrics!ReadingIsSound, Metrics!CounterIsOf,
             Metrics!IsPast, Metrics!NoNet, Metrics!Ordered
<1> QED BY <1>4, <1>6, <1>10, <1>11, <1>12, <1>13 DEF Metrics!MetricsInv

LEMMA MetricsLinkFlipsInv == Metrics!MetricsInv /\ Metrics!LinkFlips => Metrics!MetricsInv'
<1> SUFFICES ASSUME Metrics!MetricsInv, Metrics!LinkFlips PROVE Metrics!MetricsInv'
  OBVIOUS
<1>1. UNCHANGED <<v1, v2, v3, v4, v6, v7, v8, v9>>
  BY DEF Metrics!LinkFlips
<1>2. v5' \in BOOLEAN
  BY Zenon DEF Metrics!LinkFlips
<1>3. Metrics!MetricsTypeOK'
  BY <1>1, <1>2 DEF Metrics!MetricsInv, Metrics!MetricsTypeOK, Metrics!NoNet, Metrics!Reading
<1>4. /\ Metrics!NoInventedTraffic' /\ Metrics!CpuIsRightInOrder' /\ Metrics!ReceivedRises'
      /\ Metrics!LastIsSound'
  BY <1>1 DEF Metrics!MetricsInv, Metrics!NoInventedTraffic, Metrics!CpuIsRightInOrder,
     Metrics!CpuIsAShare, Metrics!ReceivedRises, Metrics!LastIsSound, Metrics!CounterIsOf,
     Metrics!IsPast, Metrics!NoNet
<1>5. \A s \in Workers : Metrics!ReadingIsSound(s)'
  BY <1>1 DEF Metrics!MetricsInv, Metrics!ReadingIsSound, Metrics!CounterIsOf, Metrics!IsPast,
     Metrics!NoNet, Metrics!Ordered
<1> QED BY <1>3, <1>4, <1>5 DEF Metrics!MetricsInv

\* The counters, and what was reported, stay.
MetricsHostStays == UNCHANGED <<v1, v2, v3, v4, v5>>

\* A sampler goes on with the record r; nothing is committed.
LEMMA MetricsSamplerGoes ==
  ASSUME Metrics!MetricsInv, NEW s \in Workers, NEW r \in Metrics!Reading, MetricsHostStays,
         UNCHANGED <<v6, v8, v9>>,
         v7' = [v7 EXCEPT ![s] = r],
         r.at # "idle" => r.time <= v1,
         r.at = "commit" => /\ Metrics!CounterIsOf(r.rx, r.time) /\ r.busy = v2 /\ r.idle = v1 - v2
  PROVE  Metrics!MetricsInv'
<1> USE DEF MetricsHostStays
<1>1. /\ v7' \in [Workers -> Metrics!Reading] /\ v7'[s] = r
      /\ \A o \in Workers : o # s => v7'[o] = v7[o]
  BY MetricsTypes
<1>2. Metrics!MetricsTypeOK'
  BY <1>1 DEF Metrics!MetricsInv, Metrics!MetricsTypeOK
<1>3. /\ Metrics!NoInventedTraffic' /\ Metrics!CpuIsRightInOrder' /\ Metrics!ReceivedRises'
      /\ Metrics!LastIsSound'
  BY DEF Metrics!MetricsInv, Metrics!NoInventedTraffic, Metrics!CpuIsRightInOrder, Metrics!CpuIsAShare,
     Metrics!ReceivedRises, Metrics!LastIsSound, Metrics!CounterIsOf, Metrics!IsPast, Metrics!NoNet
<1>4. \A a : (a.busy \in Nat /\ a.idle \in Nat /\ Metrics!IsPast(a) /\ r.at = "commit") => Metrics!Ordered(r, a) /\ Metrics!Ordered(a, r)
  BY MetricsTypes DEF Metrics!IsPast, Metrics!Ordered
<1>5. \A o \in Workers : v7[o].busy \in Nat /\ v7[o].idle \in Nat
  <2>1. \A o \in Workers : v7[o] \in Metrics!Reading
    BY MetricsTypes
  <2> QED BY <2>1, MetricsNumbers DEF Metrics!Reading
<1>6. v6.busy \in Nat /\ v6.idle \in Nat /\ Metrics!IsPast(v6)
  BY MetricsTypes, MetricsBounds DEF MetricsLastRecord, Metrics!LastIsSound
<1>7. ASSUME NEW o \in Workers PROVE Metrics!ReadingIsSound(o)'
  <2>1. CASE o = s
    <3>1. r.at = "commit" => Metrics!IsPast(r) /\ Metrics!Ordered(r, v6) /\ Metrics!Ordered(v6, r) /\ Metrics!Ordered(r, r)
      BY <1>4, <1>6, MetricsTypes DEF Metrics!IsPast, Metrics!Ordered
    <3>2. ASSUME r.at = "commit", NEW q \in Workers, v7'[q].at = "commit" PROVE Metrics!Ordered(r, v7'[q])
      <4>1. CASE q = s
        BY <1>1, <3>1, <3>2, <4>1
      <4>2. CASE q # s
        <5>1. v7'[q] = v7[q] /\ Metrics!IsPast(v7[q])
          BY <1>1, <3>2, <4>2, MetricsTypes DEF Metrics!ReadingIsSound
        <5> QED BY <1>4, <1>5, <3>2, <5>1
      <4> QED BY <4>1, <4>2
    <3> QED BY <1>1, <2>1, <3>1, <3>2 DEF Metrics!ReadingIsSound, Metrics!CounterIsOf, Metrics!IsPast,
               Metrics!NoNet, Metrics!Ordered
  <2>2. CASE o # s
    <3>1. v7'[o] = v7[o] /\ Metrics!ReadingIsSound(o)
      BY <1>1, <2>2, MetricsTypes
    <3>2. ASSUME v7[o].at = "commit", NEW q \in Workers, v7'[q].at = "commit"
          PROVE  Metrics!Ordered(v7[o], v7'[q])
      <4>1. CASE q = s
        <5>1. Metrics!IsPast(v7[o])
          BY <3>1, <3>2 DEF Metrics!ReadingIsSound
        <5> QED BY <1>1, <1>4, <1>5, <3>2, <4>1, <5>1
      <4>2. CASE q # s
        BY <1>1, <3>1, <3>2, <4>2 DEF Metrics!ReadingIsSound
      <4> QED BY <4>1, <4>2
    <3> QED BY <3>1, <3>2 DEF Metrics!ReadingIsSound, Metrics!CounterIsOf, Metrics!IsPast, Metrics!NoNet,
               Metrics!Ordered
  <2> QED BY <2>1, <2>2
<1> QED BY <1>2, <1>3, <1>7 DEF Metrics!MetricsInv

LEMMA MetricsSampleBeginsInv ==
  ASSUME Metrics!MetricsInv, NEW s \in Workers, Metrics!SampleBegins(s)
  PROVE  Metrics!MetricsInv'
<1> DEFINE q == [v7[s] EXCEPT !.at = "reading"]
           r == [q EXCEPT !.time = v1]
<1>1. /\ v7' = [v7 EXCEPT ![s] = r] /\ MetricsHostStays /\ UNCHANGED <<v6, v8, v9>>
  BY MetricsTypes DEF Metrics!SampleBegins, MetricsHostStays
<1>2. q \in Metrics!Reading /\ q.at = "reading"
  BY MetricsTypes DEF Metrics!Reading
<1> HIDE DEF q
<1>3. r \in Metrics!Reading /\ r.at = "reading" /\ r.time = v1
  BY <1>2, MetricsTypes DEF Metrics!Reading
<1> HIDE DEF r
<1>4. PICK g : g = r
  OBVIOUS
<1>5. r.at # "idle" => r.time <= v1
  BY <1>3, MetricsTypes
<1> QED BY <1>1, <1>3, <1>4, <1>5, MetricsSamplerGoes

LEMMA MetricsSampleReadsInv ==
  ASSUME Metrics!MetricsInv, NEW s \in Workers, Metrics!SampleReads(s)
  PROVE  Metrics!MetricsInv'
<1> DEFINE n == IF v5 THEN v3 ELSE Metrics!NoNet
           i == v1 - v2
           q1 == [v7[s] EXCEPT !.at = "commit"]
           q2 == [q1 EXCEPT !.busy = v2]
           q3 == [q2 EXCEPT !.idle = i]
           r == [q3 EXCEPT !.rx = n]
<1>1. /\ v7' = [v7 EXCEPT ![s].at = "commit", ![s].busy = v2, ![s].idle = i, ![s].rx = n]
      /\ v7[s].at = "reading" /\ MetricsHostStays /\ UNCHANGED <<v6, v8, v9>>
  BY DEF Metrics!SampleReads, MetricsHostStays
<1>2. /\ n \in 0..Metrics!NoNet /\ i \in 0..MaxSampleTime /\ v2 \in 0..MaxSampleTime
      /\ (n # Metrics!NoNet => n = v3)
  BY MetricsTypes, MetricsBounds DEF Metrics!NoNet
<1> HIDE DEF n, i
<1>3. v7' = [v7 EXCEPT ![s] = r]
  BY <1>1, MetricsTypes
<1>4. v7[s] \in Metrics!Reading /\ v7[s].time <= v1 /\ v7[s].time \in 0..v1
  BY <1>1, MetricsTypes DEF Metrics!ReadingIsSound, Metrics!Reading
<1>5. q1 \in Metrics!Reading /\ q1.at = "commit" /\ q1.time = v7[s].time
  BY <1>4 DEF Metrics!Reading
<1> HIDE DEF q1
<1>6. q2 \in Metrics!Reading /\ q2.at = "commit" /\ q2.time = v7[s].time /\ q2.busy = v2
  BY <1>2, <1>5 DEF Metrics!Reading
<1> HIDE DEF q2
<1>7. q3 \in Metrics!Reading /\ q3.at = "commit" /\ q3.time = v7[s].time /\ q3.busy = v2 /\ q3.idle = i
  BY <1>2, <1>6 DEF Metrics!Reading
<1> HIDE DEF q3
<1>8. r \in Metrics!Reading /\ r.at = "commit" /\ r.time = v7[s].time /\ r.busy = v2 /\ r.idle = i /\ r.rx = n
  BY <1>2, <1>7 DEF Metrics!Reading
<1> HIDE DEF r
<1>9. PICK g : g = r
  OBVIOUS
<1>10. Metrics!CounterIsOf(r.rx, r.time)
  <2>1. v4[v7[s].time] <= v4[v1] /\ v3 = v4[v1]
    BY <1>4, MetricsTypes DEF Metrics!ReceivedRises
  <2> QED BY <1>2, <1>8, <2>1, MetricsTypes DEF Metrics!CounterIsOf
<1>11. r.idle = v1 - v2
  BY <1>8 DEF i
<1> QED BY <1>1, <1>3, <1>4, <1>8, <1>9, <1>10, <1>11, MetricsSamplerGoes

LEMMA MetricsCpuOfInOrder ==
  ASSUME NEW a, NEW b, a.busy \in 0..MaxSampleTime, a.idle \in 0..MaxSampleTime, b.busy \in 0..MaxSampleTime,
         b.idle \in 0..MaxSampleTime,
         b.busy + b.idle <= MaxSampleTime, a.busy <= b.busy, a.idle <= b.idle
  PROVE  Metrics!CpuPercent(a, b) = Metrics!BusyShare(a, b) /\ Metrics!CpuPercent(a, b) \in Nat
<1> DEFINE u == b.busy + b.idle
           v == a.busy + a.idle
           t == u - v
           d == b.busy - a.busy
<1>1. /\ u \in 0..MaxSampleTime /\ v \in 0..u /\ t \in 0..MaxSampleTime /\ b.idle - a.idle \in 0..t
      /\ t - (b.idle - a.idle) = d /\ d \in Nat
      /\ a.idle \in 0..b.idle /\ u \in Nat /\ v \in Nat
  BY MetricsBounds
<1>2. Metrics!Minus(u, v) = t /\ Metrics!Minus(b.idle, a.idle) = b.idle - a.idle
  BY <1>1, MetricsMinusOfLess
<1>3. Metrics!Minus(t, b.idle - a.idle) = d
  BY <1>1, MetricsMinusOfLess
<1>4. Metrics!Apart(u, v) = t /\ Metrics!Apart(b.busy, a.busy) = d
  <2>1. (u > v \/ u = v) /\ (b.busy > a.busy \/ b.busy = a.busy) /\ a.busy \in Nat /\ b.busy \in Nat
    <3>1. /\ a.busy \in Nat /\ b.busy \in Nat /\ a.idle \in Nat /\ b.idle \in Nat
      BY MetricsBounds
    <3> QED BY <3>1
  <2> QED BY <1>1, <2>1 DEF Metrics!Apart
<1>5. Metrics!CpuPercent(a, b) = IF t = 0 THEN 0 ELSE (d * 100) \div t
  BY <1>2, <1>3 DEF Metrics!CpuPercent
<1>6. Metrics!BusyShare(a, b) = IF t = 0 THEN 0 ELSE (d * 100) \div t
  BY <1>4 DEF Metrics!BusyShare
<1>7. t # 0 => (d * 100) \div t \in Nat
  <2>1. d * 100 \in Nat /\ t \in Nat
    BY <1>1
  <2> HIDE DEF t, d
  <2> QED BY <2>1, MetricsDivTimes
<1> QED BY <1>5, <1>6, <1>7

LEMMA MetricsMinusIsNat == ASSUME NEW a \in Nat, NEW b \in 0..MaxSampleTime PROVE Metrics!Minus(a, b) \in Nat
<1>1. \A w \in Nat \ {0}, x \in Nat : \A y \in 0..w : (x + w - y) % w \in Nat
  BY SMT
<1> QED BY <1>1, MetricsBounds DEF Metrics!Minus

LEMMA MetricsShareIsNat ==
  ASSUME NEW a, NEW b, a.busy \in 0..MaxSampleTime, a.idle \in 0..MaxSampleTime, b.busy \in 0..MaxSampleTime,
         b.idle \in 0..MaxSampleTime,
         b.busy + b.idle <= MaxSampleTime, a.busy + a.idle <= MaxSampleTime
  PROVE  Metrics!CpuPercent(a, b) \in Nat /\ Metrics!BusyShare(a, b) \in Nat
<1> DEFINE u == b.busy + b.idle
           v == a.busy + a.idle
           t == Metrics!Minus(u, v)
           i == Metrics!Minus(b.idle, a.idle)
<1>1. u \in Nat /\ v \in 0..MaxSampleTime /\ b.idle \in Nat /\ v \in Nat
  BY MetricsBounds
<1>2. t \in Nat /\ i \in Nat
  BY <1>1, MetricsMinusIsNat
<1>3. i \in 0..(Word - 1)
  <2>1. \A w \in Nat \ {0}, x \in Nat : \A y \in 0..w : (x + w - y) % w \in 0..(w - 1)
    BY SMT
  <2> QED BY <2>1, <1>1, MetricsBounds DEF Metrics!Minus
<1> DEFINE m == Metrics!Minus(t, i)
<1>4. m \in Nat
  <2>1. \A w \in Nat \ {0}, x \in Nat : \A y \in 0..(w - 1) : (x + w - y) % w \in Nat
    BY SMT
  <2> HIDE DEF t, i
  <2> QED BY <1>2, <1>3, <2>1, MetricsBounds DEF Metrics!Minus
<1>5. Metrics!CpuPercent(a, b) = IF t = 0 THEN 0 ELSE (m * 100) \div t
  BY DEF Metrics!CpuPercent
<1>6. Metrics!CpuPercent(a, b) \in Nat
  <2>1. m * 100 \in Nat
    BY <1>4
  <2> HIDE DEF m, t
  <2> QED BY <1>2, <1>5, <2>1, MetricsDivTimes
<1> DEFINE k == Metrics!Apart(u, v)
           d == Metrics!Apart(b.busy, a.busy)
<1>7. k \in Nat /\ d \in Nat
  BY <1>1, MetricsBounds DEF Metrics!Apart
<1>8. Metrics!BusyShare(a, b) = IF k = 0 THEN 0 ELSE (d * 100) \div k
  BY DEF Metrics!BusyShare
<1>9. d * 100 \in Nat
  BY <1>7
<1> HIDE DEF k, d
<1>10. Metrics!BusyShare(a, b) \in Nat
  BY <1>7, <1>8, <1>9, MetricsDivTimes
<1> QED BY <1>6, <1>10

LEMMA MetricsSampleCommitsInv ==
  ASSUME Metrics!MetricsInv, NEW s \in Workers, Metrics!SampleCommits(s)
  PROVE  Metrics!MetricsInv'
<1> DEFINE mine == v7[s]
           span == IF mine.time > v6.time THEN mine.time - v6.time ELSE 0
           delta == Metrics!NetDelta(v6, mine)
           first == v6.busy + v6.idle = 0
           cpu == IF first THEN 0 ELSE Metrics!CpuPercent(v6, mine)
           share == IF first THEN 0 ELSE Metrics!BusyShare(v6, mine)
           rate == IF span = 0 THEN 0 ELSE delta \div span
           lrx == IF mine.rx = Metrics!NoNet THEN v6.rx ELSE mine.rx
           lrt == IF mine.rx = Metrics!NoNet THEN v6.rxTime ELSE mine.time
<1>1. /\ mine.at = "commit" /\ v7' = [v7 EXCEPT ![s] = Metrics!NoReading]
      /\ v8' = [cpu |-> cpu, share |-> share, rate |-> rate, span |-> span, since |-> v6.time, from |-> v6.rxTime]
      /\ v6' = [time |-> mine.time, busy |-> mine.busy, idle |-> mine.idle, rx |-> lrx, rxTime |-> lrt]
      /\ v9' = (v9 \/ mine.busy + mine.idle < v6.busy + v6.idle)
      /\ UNCHANGED <<v1, v2, v3, v4, v5>>
  BY DEF Metrics!SampleCommits
<1>2. /\ mine \in Metrics!Reading /\ v6 \in MetricsLastRecord /\ Metrics!ReadingIsSound(s)
      /\ Metrics!LastIsSound /\ Metrics!ReceivedRises
  BY MetricsTypes
<1>3. /\ mine.time \in 0..MaxSampleTime /\ mine.busy \in 0..MaxSampleTime /\ mine.idle \in 0..MaxSampleTime
      /\ mine.rx \in 0..Metrics!NoNet
      /\ v6.time \in 0..MaxSampleTime /\ v6.busy \in 0..MaxSampleTime /\ v6.idle \in 0..MaxSampleTime
      /\ v6.rx \in 0..Metrics!NoNet
      /\ v6.rxTime \in 0..MaxSampleTime
  BY <1>2 DEF Metrics!Reading, MetricsLastRecord
<1>4. /\ mine.time <= v1 /\ Metrics!CounterIsOf(mine.rx, mine.time) /\ Metrics!IsPast(mine)
      /\ Metrics!Ordered(mine, v6) /\ Metrics!Ordered(v6, mine)
      /\ \A o \in Workers : v7[o].at = "commit" => Metrics!Ordered(mine, v7[o])
  BY <1>1, <1>2 DEF Metrics!ReadingIsSound
<1>5. v6.time <= v1 /\ v6.rxTime <= v1 /\ Metrics!CounterIsOf(v6.rx, v6.rxTime) /\ Metrics!IsPast(v6)
  BY <1>2 DEF Metrics!LastIsSound
<1>6. /\ v6.busy + v6.idle <= MaxSampleTime /\ mine.busy + mine.idle <= MaxSampleTime
  <2>1. /\ v6.busy \in Nat /\ v6.idle \in Nat /\ mine.busy \in Nat /\ mine.idle \in Nat
        /\ v6.busy <= v2 /\ v6.idle <= v1 - v2 /\ mine.busy <= v2 /\ mine.idle <= v1 - v2
    BY <1>3, <1>4, <1>5, MetricsNumbers DEF Metrics!IsPast
  <2> QED BY <2>1, MetricsNumbers
<1>7. cpu \in Nat /\ share \in Nat
  BY <1>3, <1>6, MetricsShareIsNat
<1>8. (~(mine.busy + mine.idle < v6.busy + v6.idle)) => cpu = share
  <2> SUFFICES ASSUME ~(mine.busy + mine.idle < v6.busy + v6.idle) PROVE cpu = share
    OBVIOUS
  <2>1. v6.busy <= mine.busy /\ v6.idle <= mine.idle
    BY <1>3, <1>4 DEF Metrics!Ordered
  <2>2. Metrics!CpuPercent(v6, mine) = Metrics!BusyShare(v6, mine)
    BY <1>3, <1>6, <2>1, MetricsCpuOfInOrder
  <2> QED BY <2>2
<1>9. span \in Nat
  BY <1>3, MetricsBounds
<1>10. delta \in Nat /\ delta <= v4[v1] - v4[v6.rxTime]
  <2>1. v4[v6.rxTime] <= v4[v1] /\ v3 = v4[v1] /\ v4[v6.rxTime] \in Nat /\ v3 \in Nat
    <3>1. v6.rxTime \in 0..v1
      BY <1>3, <1>5, MetricsNumbers
    <3> QED BY <1>2, <3>1, MetricsNumbers DEF Metrics!ReceivedRises
  <2>2. CASE delta = 0
    BY <2>1, <2>2
  <2>3. CASE v6.rx # Metrics!NoNet /\ mine.rx # Metrics!NoNet /\ ~(mine.rx < v6.rx)
    <3>1. delta = mine.rx - v6.rx
      BY <2>3 DEF Metrics!NetDelta
    <3>2. mine.rx <= v3 /\ v6.rx >= v4[v6.rxTime]
      BY <1>4, <1>5, <2>3 DEF Metrics!CounterIsOf
    <3> QED BY <1>3, <2>1, <2>3, <3>1, <3>2, MetricsBounds DEF Metrics!NoNet
  <2> QED BY <2>2, <2>3 DEF Metrics!NetDelta
<1> HIDE DEF cpu, share, span, delta
<1>11. rate \in Nat /\ rate * span \in Nat /\ rate * span <= v4[v1] - v4[v6.rxTime]
  <2> DEFINE bound == v4[v1] - v4[v6.rxTime]
  <2>1. bound \in Nat
    <3>1. v4[v1] \in Nat /\ v4[v6.rxTime] \in Nat
      BY <1>3, MetricsNumbers
    <3> QED BY <1>10, <3>1
  <2>2. delta <= bound
    BY <1>10
  <2> HIDE DEF bound
  <2>3. CASE span = 0
    BY <2>1, <2>3 DEF bound
  <2>4. CASE span # 0
    <3>1. (delta \div span) * span <= delta /\ delta \div span \in Nat
      BY <1>9, <1>10, <2>4, MetricsDivTimes
    <3> DEFINE q == delta \div span
    <3>2. rate = q
      BY <2>4
    <3>3. q \in Nat /\ q * span <= delta
      BY <3>1
    <3> HIDE DEF q, rate
    <3>4. rate \in Nat /\ rate * span \in Nat /\ rate * span <= delta
      BY <1>9, <3>2, <3>3
    <3> DEFINE x == rate * span
    <3>5. x \in Nat /\ x <= delta
      BY <3>4
    <3> HIDE DEF x
    <3>6. x <= bound
      BY ONLY <1>10, <2>1, <2>2, <3>5
    <3> QED BY <3>4, <3>6 DEF bound, x
  <2> QED BY <2>3, <2>4
<1> HIDE DEF rate
<1>12. v8' \in MetricsReportRecord
  BY <1>1, <1>3, <1>7, <1>9, <1>11 DEF MetricsReportRecord
<1>13. lrx \in 0..Metrics!NoNet /\ lrt \in 0..MaxSampleTime /\ lrt <= v1 /\ Metrics!CounterIsOf(lrx, lrt)
  BY <1>3, <1>4, <1>5
<1> HIDE DEF lrx, lrt
<1>14. v6' \in MetricsLastRecord
  BY <1>1, <1>3, <1>13 DEF MetricsLastRecord
<1>15. Metrics!NoReading \in Metrics!Reading /\ Metrics!NoReading.at = "idle"
  BY MetricsBounds DEF Metrics!NoReading, Metrics!Reading, Metrics!NoNet
<1> HIDE DEF mine
<1>16. /\ v7' \in [Workers -> Metrics!Reading] /\ v7'[s] = Metrics!NoReading
       /\ \A o \in Workers : o # s => v7'[o] = v7[o]
  BY <1>1, <1>15, MetricsTypes
<1>17. v9' \in BOOLEAN
  BY <1>1
<1>18. Metrics!MetricsTypeOK'
  BY <1>1, <1>12, <1>14, <1>16, <1>17, MetricsTypes DEF Metrics!MetricsTypeOK, MetricsLastRecord,
     MetricsReportRecord, Metrics!NoNet, Metrics!Reading
<1>19. Metrics!NoInventedTraffic'
  BY <1>1, <1>11 DEF Metrics!NoInventedTraffic
<1>20. Metrics!CpuIsRightInOrder'
  <2>1. v8'.cpu = cpu /\ v8'.share = share
    BY <1>1
  <2>2. ~v9' => ~(mine.busy + mine.idle < v6.busy + v6.idle)
    BY <1>1
  <2> QED BY <1>8, <2>1, <2>2 DEF Metrics!CpuIsRightInOrder, Metrics!CpuIsAShare
<1>21. Metrics!ReceivedRises'
  BY <1>1, <1>2 DEF Metrics!ReceivedRises
<1>22. /\ v6'.time = mine.time /\ v6'.busy = mine.busy /\ v6'.idle = mine.idle /\ v6'.rx = lrx
       /\ v6'.rxTime = lrt
       /\ v8'.from = v6.rxTime
  BY <1>1
<1>23. Metrics!LastIsSound'
  BY <1>1, <1>4, <1>5, <1>13, <1>22 DEF Metrics!LastIsSound, Metrics!CounterIsOf, Metrics!IsPast,
     Metrics!NoNet
<1>24. ASSUME NEW o \in Workers PROVE Metrics!ReadingIsSound(o)'
  <2>1. CASE o = s
    BY <1>15, <1>16, <2>1 DEF Metrics!ReadingIsSound
  <2>2. CASE o # s
    <3>1. v7'[o] = v7[o] /\ Metrics!ReadingIsSound(o)
      BY <1>16, <2>2, MetricsTypes
    <3>2. v7[o].at = "commit" => Metrics!Ordered(v7[o], mine) /\ Metrics!Ordered(mine, v7[o])
      BY <1>1, <1>4, <3>1 DEF Metrics!ReadingIsSound, mine
    <3>3. v7[o].at = "commit" => Metrics!Ordered(v7[o], v6') /\ Metrics!Ordered(v6', v7[o])
      BY <1>22, <3>2 DEF Metrics!Ordered
    <3>4. \A q \in Workers : v7'[q].at = "commit" => v7'[q] = v7[q]
      BY <1>15, <1>16
    <3> QED BY <1>1, <3>1, <3>3, <3>4 DEF Metrics!ReadingIsSound, Metrics!CounterIsOf, Metrics!IsPast,
               Metrics!NoNet, Metrics!Ordered
  <2> QED BY <2>1, <2>2
<1> QED BY <1>18, <1>19, <1>20, <1>21, <1>23, <1>24 DEF Metrics!MetricsInv

LEMMA MetricsNextInv == Metrics!MetricsInv /\ Metrics!MetricsNext => Metrics!MetricsInv'
BY MetricsHostTickInv, MetricsLinkFlipsInv, MetricsSampleBeginsInv, MetricsSampleReadsInv,
   MetricsSampleCommitsInv DEF Metrics!MetricsNext

LEMMA MetricsStutters == Metrics!MetricsInv /\ UNCHANGED shared => Metrics!MetricsInv'
<1> SUFFICES ASSUME Metrics!MetricsInv, UNCHANGED shared PROVE Metrics!MetricsInv'
  OBVIOUS
<1>1. v1' = v1 /\ v2' = v2 /\ v3' = v3 /\ v4' = v4 /\ v5' = v5 /\ v6' = v6 /\ v7' = v7 /\ v8' = v8
      /\ v9' = v9
  BY DEF shared
<1>2. Metrics!MetricsTypeOK'
  BY <1>1 DEF Metrics!MetricsInv, Metrics!MetricsTypeOK
<1>3. Metrics!NoInventedTraffic' /\ Metrics!CpuIsRightInOrder' /\ Metrics!ReceivedRises'
  BY <1>1 DEF Metrics!MetricsInv, Metrics!NoInventedTraffic, Metrics!ReceivedRises, Metrics!CpuIsRightInOrder,
     Metrics!CpuIsAShare
<1>4. Metrics!LastIsSound'
  BY <1>1 DEF Metrics!MetricsInv, Metrics!LastIsSound, Metrics!CounterIsOf, Metrics!IsPast
<1>5. ASSUME NEW s \in Workers PROVE Metrics!ReadingIsSound(s)'
  <2>1. Metrics!ReadingIsSound(s)
    BY DEF Metrics!MetricsInv
  <2> QED BY <1>1, <2>1 DEF Metrics!ReadingIsSound, Metrics!CounterIsOf, Metrics!IsPast, Metrics!Ordered
<1> QED BY <1>2, <1>3, <1>4, <1>5 DEF Metrics!MetricsInv

-----------------------------------------------------------------------------
(***************************************************************************)
(* Storage, as Disk: v1 disk, v2 aged, v3 lastScan, v4 use, v5 report, v6  *)
(* cleaned, v7 creations.                                                  *)
(* A call past the guard holds a path that is not protected, and a list of *)
(* files that the walk of the temporary directory gave it, each old still  *)
(* or written since.                                                       *)
(***************************************************************************)

LEMMA StorageBounds == MaxCreations \in Nat
BY ServerBoundsAssumption, TreeAssumption

LEMMA StorageTree == Root \in Nodes /\ TmpRoot \notin TmuxDirs
BY ServerBoundsAssumption, TreeAssumption

LEMMA StorageKept == /\ \A d \in CacheDirs : Blocklist \cap Disk!Under(d) \subseteq {d}
                     /\ Blocklist \cap Disk!Files \cap Disk!Under(TmpRoot) = {}
BY ServerBoundsAssumption, TreeAssumption

StorageScans == [some : BOOLEAN, files : SUBSET Disk!Files, total : Nat]
StorageUseRecord == [at : {"idle", "walked", "cleaning", "deleting"}, path : Nodes, scan : StorageScans,
                     renewed : SUBSET Disk!Files]

\* A file that a cleanup may have on its list, when it knows what was written since.
StorageListed(f, renewed) ==
  f \in Disk!Under(TmpRoot) /\ Disk!AboveAll[f] \cap TmuxDirs = {} /\ f \in v2 \cup renewed

LEMMA StorageNoUse ==
  /\ Disk!NoUse \in StorageUseRecord /\ Disk!NoUse.at = "idle"
  /\ \A s \in SUBSET Disk!Files, at \in {"walked", "cleaning"} :
       LET n == [Disk!NoUse EXCEPT !.at = at, !.scan.files = s]
       IN  n \in StorageUseRecord /\ n.at = at /\ n.scan.files = s /\ n.renewed = {}
  /\ \A p \in Nodes :
       LET n == [Disk!NoUse EXCEPT !.at = "deleting", !.path = p]
       IN  n \in StorageUseRecord /\ n.at = "deleting" /\ n.path = p
BY StorageTree DEF Disk!NoUse, StorageUseRecord, Disk!NoScan, StorageScans

\* What a user's call may become: nothing a later step would remove wrongly.
StorageSound(n) ==
  /\ n \in StorageUseRecord
  /\ n.at = "deleting" => n.path \notin Blocklist \cup {Root}
  /\ n.at = "cleaning" => \A f \in n.scan.files : StorageListed(f, n.renewed)

\* The three uses a call starts with are sound.
LEMMA StorageSoundUses ==
  /\ \A s \in SUBSET Disk!Files : StorageSound([Disk!NoUse EXCEPT !.at = "walked", !.scan.files = s])
  /\ \A s \in SUBSET Disk!Files :
       (\A f \in s : StorageListed(f, {}))
         => StorageSound([Disk!NoUse EXCEPT !.at = "cleaning", !.scan.files = s])
  /\ \A p \in Nodes \ (Blocklist \cup {Root}) :
       StorageSound([Disk!NoUse EXCEPT !.at = "deleting", !.path = p])
<1>1. ASSUME NEW s \in SUBSET Disk!Files
      PROVE  StorageSound([Disk!NoUse EXCEPT !.at = "walked", !.scan.files = s])
  <2> DEFINE n == [Disk!NoUse EXCEPT !.at = "walked", !.scan.files = s]
  <2>1. n \in StorageUseRecord /\ n.at = "walked"
    BY StorageNoUse
  <2> HIDE DEF n
  <2>2. StorageSound(n)
    BY <2>1 DEF StorageSound
  <2> QED BY <2>2 DEF n
<1>2. ASSUME NEW s \in SUBSET Disk!Files,
             \A f \in s : StorageListed(f, {})
      PROVE  StorageSound([Disk!NoUse EXCEPT !.at = "cleaning", !.scan.files = s])
  <2> DEFINE n == [Disk!NoUse EXCEPT !.at = "cleaning", !.scan.files = s]
  <2>1. n \in StorageUseRecord /\ n.at = "cleaning" /\ n.scan.files = s /\ n.renewed = {}
    BY StorageNoUse
  <2> HIDE DEF n
  <2>2. StorageSound(n)
    BY <1>2, <2>1 DEF StorageSound
  <2> QED BY <2>2 DEF n
<1>3. ASSUME NEW p \in Nodes \ (Blocklist \cup {Root})
      PROVE  StorageSound([Disk!NoUse EXCEPT !.at = "deleting", !.path = p])
  <2> DEFINE n == [Disk!NoUse EXCEPT !.at = "deleting", !.path = p]
  <2>1. n \in StorageUseRecord /\ n.at = "deleting" /\ n.path = p
    BY StorageNoUse
  <2> HIDE DEF n
  <2>2. StorageSound(n)
    BY <1>3, <2>1 DEF StorageSound
  <2> QED BY <2>2 DEF n
<1> QED BY <1>1, <1>2, <1>3

LEMMA StorageUses ==
  ASSUME Disk!StorageInv, NEW u \in Workers
  PROVE  v4 \in [Workers -> StorageUseRecord] /\ v4[u] \in StorageUseRecord /\ v4[u].path \in Nodes
         /\ v4[u].scan \in StorageScans /\ v4[u].scan.files \subseteq Disk!Files
BY DEF Disk!StorageInv, Disk!StorageTypeOK, StorageUseRecord, StorageScans

LEMMA StorageStep ==
  ASSUME Disk!StorageInv, NEW u \in Workers, NEW n, StorageSound(n), v4' = [v4 EXCEPT ![u] = n],
         v1' \subseteq Nodes, v6' \subseteq {"renewed"}, UNCHANGED <<v2, v7>>
  PROVE  Disk!StorageInv'
<1>1. v4' \in [Workers -> StorageUseRecord] /\ \A v \in Workers : v4'[v] = IF v = u THEN n ELSE v4[v]
  BY StorageUses DEF StorageSound
<1>2. Disk!StorageTypeOK'
  BY <1>1 DEF Disk!StorageInv, Disk!StorageTypeOK, StorageUseRecord, StorageScans
<1>3. \A v \in Workers :
       /\ v4'[v].at = "deleting" => v4'[v].path \notin Blocklist \cup {Root}
       /\ v4'[v].at = "cleaning" => \A f \in v4'[v].scan.files :
            /\ f \in Disk!Under(TmpRoot) /\ Disk!AboveAll[f] \cap TmuxDirs = {}
            /\ f \in v2 \cup v4'[v].renewed
  BY <1>1 DEF Disk!StorageInv, StorageSound, StorageListed
<1> QED BY <1>2, <1>3 DEF Disk!StorageInv, Disk!CleanTakesOnlyJunk

LEMMA StorageInitInv == Disk!StorageInit => Disk!StorageInv
<1> SUFFICES ASSUME Disk!StorageInit PROVE Disk!StorageInv
  OBVIOUS
<1>1. v4 = [u \in Workers |-> Disk!NoUse] /\ v6 = {} /\ v1 = Nodes /\ v2 = {} /\ v7 = 0
  BY DEF Disk!StorageInit
<1>2. v4 \in [Workers -> StorageUseRecord] /\ \A u \in Workers : v4[u].at = "idle"
  BY <1>1, StorageNoUse
<1> QED BY <1>1, <1>2, StorageBounds DEF Disk!StorageInv, Disk!StorageTypeOK, Disk!CleanTakesOnlyJunk,
           StorageUseRecord, StorageScans

\* The cleanup of the temporary directory removes one file of its list.
LEMMA StorageRemoves ==
  ASSUME Disk!StorageInv, NEW u \in Workers, NEW f, Disk!CleanTmpRemoves(u, f)
  PROVE  /\ Disk!StorageInv' /\ f \in Disk!Files \cap Disk!Under(TmpRoot)
         /\ v1 \ v1' \subseteq {f}
<1>1. /\ v4[u].at = "cleaning" /\ f \in v4[u].scan.files
      /\ v1' = IF f \in Unremovable THEN v1 ELSE v1 \ {f}
      /\ v4' = [v4 EXCEPT ![u].scan.files = @ \ {f}, ![u].renewed = @ \ {f}]
      /\ v6' = v6 \cup UNION {Disk!Faults(u, n) : n \in v1 \ v1'}
      /\ UNCHANGED <<v2, v3, v5, v7>>
  BY DEF Disk!CleanTmpRemoves
<1>2. f \in Disk!Files /\ StorageListed(f, v4[u].renewed)
  BY <1>1, StorageUses DEF Disk!StorageInv, StorageListed
<1>3. v1 \ v1' \subseteq {f} /\ v1' \subseteq v1
  BY <1>1
<1>4. v6' \subseteq {"renewed"}
  <2>1. v6 \subseteq {"renewed"}
    BY DEF Disk!StorageInv, Disk!StorageTypeOK, Disk!CleanTakesOnlyJunk
  <2>2. Disk!Faults(u, f) \subseteq {"renewed"}
    BY <1>2 DEF Disk!Faults, StorageListed
  <2>3. UNION {Disk!Faults(u, n) : n \in v1 \ v1'} \subseteq {"renewed"}
    BY <1>3, <2>2
  <2> QED BY <1>1, <2>1, <2>3
<1> DEFINE n == [v4[u] EXCEPT !.scan.files = @ \ {f}, !.renewed = @ \ {f}]
<1>5. v4' = [v4 EXCEPT ![u] = n]
  BY <1>1, StorageUses
<1>6. n \in StorageUseRecord /\ n.at = "cleaning" /\ n.scan.files = v4[u].scan.files \ {f}
      /\ n.renewed = v4[u].renewed \ {f}
  BY <1>1, StorageUses DEF StorageUseRecord, StorageScans
<1> HIDE DEF n
<1>7. StorageSound(n)
  BY <1>1, <1>6 DEF Disk!StorageInv, StorageSound, StorageListed
<1>8. Disk!StorageInv'
  BY <1>1, <1>3, <1>4, <1>5, <1>7, StorageStep DEF Disk!StorageInv, Disk!StorageTypeOK
<1> QED BY <1>2, <1>3, <1>8 DEF StorageListed

\* A file that is written stays on the lists it is on, as one written since.
LEMMA StorageRenews ==
  ASSUME Disk!StorageInv, NEW f \in Disk!Files, Disk!Renews(f),
         v1' \subseteq Nodes, v6' = v6, v7' \in 0..MaxCreations
  PROVE  Disk!StorageInv'
<1> DEFINE n(u) == [v4[u] EXCEPT !.renewed = @ \cup ({f} \cap v4[u].scan.files)]
<1>1. /\ v2' = v2 \ {f}
      /\ v4' = [u \in Workers |-> IF v4[u].at = "cleaning" THEN n(u) ELSE v4[u]]
  BY DEF Disk!Renews
<1>2. ASSUME NEW u \in Workers
      PROVE  /\ n(u) \in StorageUseRecord /\ n(u).at = v4[u].at /\ n(u).path = v4[u].path
             /\ n(u).scan = v4[u].scan
             /\ n(u).renewed = v4[u].renewed \cup ({f} \cap v4[u].scan.files)
  BY StorageUses DEF StorageUseRecord
<1> HIDE DEF n
<1>3. v4' \in [Workers -> StorageUseRecord]
  BY <1>1, <1>2, StorageUses
<1>4. Disk!StorageTypeOK'
  BY <1>1, <1>3 DEF Disk!StorageInv, Disk!StorageTypeOK, StorageUseRecord, StorageScans
<1>5. ASSUME NEW u \in Workers
      PROVE  /\ v4'[u].at = "deleting" => v4'[u].path \notin Blocklist \cup {Root}
             /\ v4'[u].at = "cleaning" => \A g \in v4'[u].scan.files :
                  /\ g \in Disk!Under(TmpRoot) /\ Disk!AboveAll[g] \cap TmuxDirs = {}
                  /\ g \in v2' \cup v4'[u].renewed
  <2>1. CASE v4[u].at = "cleaning"
    <3>1. v4'[u] = n(u)
      BY <1>1, <2>1
    <3> QED BY <1>1, <1>2, <2>1, <3>1 DEF Disk!StorageInv
  <2>2. CASE v4[u].at # "cleaning"
    BY <1>1, <2>2 DEF Disk!StorageInv
  <2> QED BY <2>1, <2>2
<1> QED BY <1>4, <1>5 DEF Disk!StorageInv, Disk!CleanTakesOnlyJunk

LEMMA StorageNextInv == Disk!StorageInv /\ Disk!StorageNext => Disk!StorageInv'
<1> SUFFICES ASSUME Disk!StorageInv, Disk!StorageNext PROVE Disk!StorageInv'
  OBVIOUS
<1>0. v6 \subseteq {"renewed"} /\ v1 \subseteq Nodes /\ v2 \subseteq Disk!Files /\ v7 \in 0..MaxCreations /\ Disk!StorageTypeOK
  BY DEF Disk!StorageInv, Disk!StorageTypeOK, Disk!CleanTakesOnlyJunk
<1>1. StorageSound(Disk!NoUse)
  BY StorageNoUse DEF StorageSound
<1>2. CASE UNCHANGED <<v1, v2, v4, v6, v7>>
  BY <1>2 DEF Disk!StorageInv, Disk!StorageTypeOK, Disk!CleanTakesOnlyJunk
<1>3. ASSUME NEW u \in Workers, Disk!DeepScanCached(u) PROVE Disk!StorageInv'
  BY <1>2, <1>3 DEF Disk!DeepScanCached
<1>4. ASSUME NEW u \in Workers, Disk!DeepScanWalks(u) PROVE Disk!StorageInv'
  <2> DEFINE n == [Disk!NoUse EXCEPT !.at = "walked", !.scan.files = Disk!LargeFiles]
  <2>1. v4' = [v4 EXCEPT ![u] = n] /\ UNCHANGED <<v1, v2, v6, v7>>
    BY <1>4 DEF Disk!DeepScanWalks
  <2>2. Disk!LargeFiles \subseteq Disk!Files
    BY DEF Disk!LargeFiles
  <2>3. StorageSound(n)
    BY <2>2, StorageSoundUses
  <2> HIDE DEF n
  <2> QED BY <1>0, <2>1, <2>3, StorageStep
<1>5. ASSUME NEW u \in Workers,
             Disk!DeepScanStores(u) \/ Disk!DeleteRemoves(u) \/ Disk!DeleteFails(u) \/ Disk!CleanTmpEnds(u)
      PROVE  Disk!StorageInv'
  <2>1. v4' = [v4 EXCEPT ![u] = Disk!NoUse] /\ v1' \subseteq v1 /\ UNCHANGED <<v2, v6, v7>>
    BY <1>5 DEF Disk!DeepScanStores, Disk!DeleteRemoves, Disk!DeleteFails, Disk!CleanTmpEnds, Disk!Ends
  <2> QED BY <1>0, <1>1, <2>1, StorageStep
<1>6. ASSUME NEW u \in Workers, Disk!CleanCaches(u) PROVE Disk!StorageInv'
  <2>1. v1' \subseteq v1 /\ UNCHANGED <<v2, v4, v6, v7>>
    BY <1>6 DEF Disk!CleanCaches
  <2> QED BY <2>1 DEF Disk!StorageInv, Disk!StorageTypeOK, Disk!CleanTakesOnlyJunk
<1>7. ASSUME NEW u \in Workers, Disk!CleanTmpLists(u) PROVE Disk!StorageInv'
  <2> DEFINE n == [Disk!NoUse EXCEPT !.at = "cleaning", !.scan.files = Disk!TmpOldFiles]
  <2>1. v4' = [v4 EXCEPT ![u] = n] /\ UNCHANGED <<v1, v2, v6, v7>>
    BY <1>7 DEF Disk!CleanTmpLists
  <2>2. Disk!TmpOldFiles \subseteq Disk!Files
    BY DEF Disk!TmpOldFiles
  <2>3. \A f \in Disk!TmpOldFiles : StorageListed(f, {})
    BY StorageTree DEF Disk!TmpOldFiles, Disk!Walk, StorageListed
  <2>4. StorageSound(n)
    BY <2>2, <2>3, StorageSoundUses
  <2> HIDE DEF n
  <2> QED BY <1>0, <2>1, <2>4, StorageStep
<1>8. ASSUME NEW u \in Workers, NEW p \in Nodes, Disk!DeleteGuard(u, p) PROVE Disk!StorageInv'
  <2> DEFINE n == [Disk!NoUse EXCEPT !.at = "deleting", !.path = p]
  <2>1. v4' = [v4 EXCEPT ![u] = n] /\ p \notin Blocklist \cup {Root} /\ UNCHANGED <<v1, v2, v6, v7>>
    BY <1>8 DEF Disk!DeleteGuard, Disk!Protected
  <2>2. StorageSound(n)
    BY <2>1, StorageSoundUses
  <2> HIDE DEF n
  <2> QED BY <1>0, <2>1, <2>2, StorageStep
<1>9. ASSUME NEW f \in Disk!Files, Disk!Creates(f) \/ Disk!Writes(f) PROVE Disk!StorageInv'
  <2>1. /\ Disk!Renews(f) /\ v1' \subseteq Nodes /\ v6' = v6 /\ v7' \in 0..MaxCreations
    BY <1>0, <1>9, StorageBounds DEF Disk!Creates, Disk!Writes, Disk!Files
  <2> QED BY <2>1, StorageRenews
<1>11. ASSUME NEW f \in Disk!Files, Disk!AgesFile(f) PROVE Disk!StorageInv'
  <2>1. v2' = v2 \cup {f} /\ UNCHANGED <<v1, v4, v6, v7>>
    BY <1>11 DEF Disk!AgesFile
  <2>2. Disk!StorageTypeOK'
    BY <1>0, <2>1 DEF Disk!StorageTypeOK
  <2> QED BY <2>1, <2>2 DEF Disk!StorageInv, Disk!CleanTakesOnlyJunk
<1>10. CASE Disk!ScanExpires
  BY <1>2, <1>10 DEF Disk!ScanExpires
<1> QED BY <1>3, <1>4, <1>5, <1>6, <1>7, <1>8, <1>9, <1>10, <1>11, StorageRemoves DEF Disk!StorageNext

\* The step that a blocklisted path is gone with is a delete of something over it.
LEMMA StorageTakes == Disk!StorageInv /\ Disk!StorageNext => Disk!TakesFromAbove
<1> SUFFICES ASSUME Disk!StorageInv, Disk!StorageNext, NEW p \in Blocklist, p \in v1, p \notin v1'
             PROVE  \E u \in Workers : /\ v4[u].at = "deleting" /\ p \in Disk!Under(v4[u].path)
                                       /\ v4[u].path \notin Blocklist \cup {Root}
  BY DEF Disk!TakesFromAbove
<1>1. v1' # v1
  OBVIOUS
<1>2. ASSUME NEW u \in Workers, Disk!CleanCaches(u) PROVE FALSE
  <2>1. PICK d \in CacheDirs : p \in Disk!Under(d) \ {d}
    BY <1>2 DEF Disk!CleanCaches
  <2> QED BY <2>1, StorageKept
<1>3. ASSUME NEW u \in Workers, NEW f \in Nodes, Disk!CleanTmpRemoves(u, f) PROVE FALSE
  <2>1. f \in Disk!Files \cap Disk!Under(TmpRoot) /\ v1 \ v1' \subseteq {f}
    BY <1>3, StorageRemoves
  <2>2. p = f
    BY <2>1
  <2>3. p \in Blocklist \cap Disk!Files \cap Disk!Under(TmpRoot)
    BY <2>1, <2>2
  <2> QED BY <2>3, StorageKept
<1>4. ASSUME NEW u \in Workers, Disk!DeleteRemoves(u) \/ Disk!DeleteFails(u)
      PROVE  v4[u].at = "deleting" /\ p \in Disk!Under(v4[u].path) /\ v4[u].path \notin Blocklist \cup {Root}
  BY <1>4 DEF Disk!DeleteRemoves, Disk!DeleteFails, Disk!StorageInv
<1>5. ASSUME NEW f, Disk!Creates(f) \/ Disk!Writes(f) PROVE FALSE
  BY <1>1, <1>5 DEF Disk!Creates, Disk!Writes
<1> QED BY <1>1, <1>2, <1>3, <1>4, <1>5
        DEF Disk!StorageNext, Disk!DeepScanCached, Disk!DeepScanWalks, Disk!DeepScanStores, Disk!CleanTmpLists, Disk!CleanTmpEnds,
            Disk!DeleteGuard, Disk!AgesFile, Disk!ScanExpires

LEMMA StorageStutters == Disk!StorageInv /\ UNCHANGED shared => Disk!StorageInv'
BY DEF shared, Disk!CleanTakesOnlyJunk, Disk!StorageInv, Disk!StorageTypeOK

-----------------------------------------------------------------------------
(***************************************************************************)
(* Installs, as Tools: v1 prefix, v2 link, v3 onPath, v4 running, v5       *)
(* install, v6 told, v7 requests.                                          *)
(* The flag that lets one request in is up exactly while a request is at   *)
(* work.                                                                   *)
(***************************************************************************)

LEMMA InstallBounds == MaxInstalls \in Nat
BY ServerBoundsAssumption

\* FiniteSets counts alike inside the component.
LEMMA InstallCounts == \A S : Tools!Cardinality(S) = Cardinality(S)
BY DEF Tools!Cardinality, Cardinality

LEMMA InstallInitInv == Tools!InstallInit => Tools!InstallInv
<1> SUFFICES ASSUME Tools!InstallInit PROVE Tools!InstallInv
  OBVIOUS
<1>1. /\ v1 = FALSE /\ v2 = FALSE /\ v3 \in BOOLEAN /\ v4 = FALSE
      /\ v5 = [h \in Workers |-> "idle"] /\ v6 = [h \in Workers |-> "nothing"]
      /\ v7 = 0
  BY DEF Tools!InstallInit
<1>2. Tools!InstallTypeOK
  <2>1. v1 \in BOOLEAN /\ v2 \in BOOLEAN /\ v3 \in BOOLEAN /\ v4 \in BOOLEAN
    BY <1>1, Zenon
  <2>2. /\ v5 \in [Workers -> {"idle", "acquire", "npm", "unlink", "link", "check",
                              "failed", "installed", "missing"} \cup Tools!Releasing]
        /\ v6 \in [Workers -> {"nothing", "failed", "installed", "missing"}]
        /\ v7 \in 0..MaxInstalls
    BY <1>1, InstallBounds
  <2> QED BY ONLY <2>1, <2>2, Zenon DEF Tools!InstallTypeOK
<1>3. ~\E h \in Workers : Tools!Installing(h)
  BY ONLY <1>1 DEF Tools!Installing, Tools!Releasing
<1>4. \A h \in Workers : v5[h] = "idle" /\ v6[h] = "nothing"
  BY ONLY <1>1
<1> QED BY ONLY <1>1, <1>2, <1>3, <1>4 DEF Tools!InstallInv

LEMMA InstallInvProps == Tools!InstallInv => Tools!InstallTypeOK /\ Tools!OneInstall /\ Tools!DoneMeansInstalled
<1> SUFFICES ASSUME Tools!InstallInv PROVE Tools!OneInstall
  BY DEF Tools!InstallInv, Tools!DoneMeansInstalled
<1> DEFINE S == {h \in Workers : Tools!Installing(h)}
<1>1. CASE S = {}
  BY <1>1, FS_EmptySet, InstallCounts DEF Tools!OneInstall, Tools!InstallInv
<1>2. CASE S # {}
  <2>1. PICK h \in S : TRUE
    BY <1>2
  <2>2. S = {h}
    BY <2>1 DEF Tools!InstallInv
  <2> QED BY <2>2, FS_Singleton, InstallCounts DEF Tools!OneInstall, Tools!InstallInv
<1> QED BY <1>1, <1>2

LEMMA InstallNextInv == Tools!InstallInv /\ Tools!InstallNext => Tools!InstallInv'
<1> SUFFICES ASSUME Tools!InstallInv, NEW h \in Workers,
                    \/ Tools!InstallRequest(h) \/ Tools!Acquire(h) \/ Tools!AcquireRefused(h)
                    \/ Tools!NpmFails(h) \/ Tools!NpmInstalls(h)
                    \/ Tools!NothingToLink(h) \/ Tools!LinkRemoved(h) \/ Tools!LinkMade(h) \/ Tools!FinalCheck(h)
                    \/ Tools!Release(h) \/ Tools!InstallDone(h)
             PROVE  Tools!InstallInv'
  BY DEF Tools!InstallNext
<1> USE DEF Tools!InstallInv, Tools!InstallTypeOK, Tools!Installing, Tools!Releasing, Tools!Goes
<1>1. CASE Tools!InstallRequest(h)
  BY <1>1, InstallBounds DEF Tools!InstallRequest
<1>2. CASE Tools!Acquire(h)
  BY <1>2 DEF Tools!Acquire
<1>3. CASE Tools!AcquireRefused(h)
  BY <1>3 DEF Tools!AcquireRefused
<1>4. CASE Tools!NpmFails(h)
  <2>1. v1' \in BOOLEAN /\ v5[h] = "npm" /\ v5' = [v5 EXCEPT ![h] = "releaseFailed"]
        /\ UNCHANGED <<v2, v3, v4, v6, v7>>
    BY <1>4 DEF Tools!NpmFails
  <2> QED BY <2>1
<1>5. CASE Tools!NpmInstalls(h)
  BY <1>5 DEF Tools!NpmInstalls
<1>6. CASE Tools!NothingToLink(h)
  BY <1>6 DEF Tools!NothingToLink
<1>7. CASE Tools!LinkRemoved(h)
  <2>1. v1 /\ v2' = FALSE /\ v5[h] = "unlink" /\ v5' = [v5 EXCEPT ![h] = "link"]
        /\ UNCHANGED <<v1, v3, v4, v6, v7>>
    BY <1>7 DEF Tools!LinkRemoved
  <2>2. \A g \in Workers \ {h} : ~Tools!Installing(g) /\ ~Tools!Installing(g)'
    BY <2>1
  <2>3. Tools!InstallTypeOK' /\ (v4' <=> \E g \in Workers : Tools!Installing(g)')
    BY <2>1
  <2>4. v1' /\ ~v2' /\ v5'[h] = "link"
    BY <2>1
  <2> QED BY <2>1, <2>2, <2>3, <2>4
<1>8. CASE Tools!LinkMade(h)
  BY <1>8 DEF Tools!LinkMade
<1>9. CASE Tools!FinalCheck(h)
  BY <1>9 DEF Tools!FinalCheck, Tools!Resolves
<1>10. CASE Tools!Release(h)
  <2>1. /\ v5[h] \in {"releaseFailed", "releaseInstalled"} /\ v4' = FALSE
        /\ v5' = [v5 EXCEPT ![h] = IF @ = "releaseFailed" THEN "failed" ELSE "installed"]
        /\ UNCHANGED <<v1, v2, v3, v6, v7>>
    BY <1>10 DEF Tools!Release
  <2>2. \A g \in Workers : ~Tools!Installing(g)'
    BY <2>1
  <2> QED BY <2>1, <2>2
<1>11. CASE Tools!InstallDone(h)
  BY <1>11 DEF Tools!InstallDone
<1> QED BY <1>1, <1>2, <1>3, <1>4, <1>5, <1>6, <1>7, <1>8, <1>9, <1>10, <1>11

LEMMA InstallStutters == Tools!InstallInv /\ UNCHANGED shared => Tools!InstallInv'
BY DEF shared, Tools!InstallInv, Tools!InstallTypeOK, Tools!Installing
=============================================================================
