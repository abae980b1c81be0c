-------------------------- MODULE HostMutationsProofs --------------------------
(***************************************************************************)
(* Proofs about HostMutations, for any number of frames, tokens and        *)
(* connections, and any number of crashes.                                 *)
(*                                                                         *)
(* A frame is executed again when its id was forgotten, so that nothing in *)
(* the server's memory makes OncePerTap true: the row of its token does.   *)
(* A token that was accepted is used for good and in one place (GrantInv,  *)
(* TouchedInv), and a frame always carries the same one.  The trail lags   *)
(* behind the host by the changes whose connections died (LostInv), at     *)
(* most one for each connection and crash.                                 *)
(***************************************************************************)
EXTENDS HostMutations, FiniteSetTheorems, TLAPS

-----------------------------------------------------------------------------
(* The inductive invariant *)

\* A connection past the guard serves a frame with the token it carries, and
\* no connection gets there with a request its handler refuses.
ServeInv ==
  \A c \in Callers :
    /\ serving[c] \in Frames => carries[serving[c]] # NoFrame
    /\ pc[c] # "idle" =>
         /\ serving[c] \in Frames
         /\ tok[c] = carries[serving[c]] /\ tok[c] \in Tokens
         /\ ~EarlyRefusal(request)
    /\ pc[c] \in {"granted", "ran"} => row[tok[c]].state = "used"

\* A token that was granted and not spent has one holder.
GrantInv ==
  \A c \in Callers : pc[c] = "granted" =>
    /\ \A d \in Callers : pc[d] = "granted" /\ tok[d] = tok[c] => d = c
    /\ \A i \in Positions(touched) : touched[i][2] # tok[c]

\* What changed the host was the token of its frame, used once.
TouchedInv ==
  \A i \in Positions(touched) :
    /\ carries[touched[i][1]] = touched[i][2]
    /\ row[touched[i][2]].state = "used"
    /\ \A j \in Positions(touched) : touched[i][2] = touched[j][2] => i = j

\* A row of success was paid for with the token of its frame.
AuditInv ==
  \A a \in audit : carries[a.frame] # NoFrame /\ (a.ok => row[carries[a.frame]].state = "used")

\* The changes of the host that the trail misses.
Lost == {i \in Positions(touched) : ~Accounted(touched[i][1])}
LostInv == Cardinality(Lost) <= crashes * Cardinality(Callers)

IInv ==
  HostTypeOK /\ ServeInv /\ GrantInv /\ TouchedInv /\ AuditInv /\ RefusalsAreFree /\ LostInv

USE TokensAssumption, NoFrameAssumption, RightHashAssumption, HashesAssumption, ClockAssumption,
    CallersAssumption

-----------------------------------------------------------------------------
(* Lemmas *)

LEMMA AnyHashType == AnyHash \in Hashes
  BY DEF AnyHash

\* Whatever a handler calls answers in one of the four ways.
LEMMA OutcomesType ==
  ASSUME NEW r \in Requests
  PROVE  Outcomes(r) \subseteq Answers
<1>1. DockerAction(r) \subseteq Answers /\ SystemdAction(r) \subseteq Answers
  BY DEF DockerAction, SystemdAction, Answers
<1>2. WebserverAction(r) \subseteq Answers /\ KillAction(r) \subseteq Answers
  BY DEF WebserverAction, KillAction, Answers
<1>3. \A q : FirewallAction(q) \subseteq Answers
  BY DEF FirewallAction, Answers
<1>4. CleanAction(r) \subseteq Answers /\ DeleteAction(r) \subseteq Answers
  BY DEF CleanAction, DeleteAction, Answers
<1>5. FixAction(r) \subseteq Answers
  BY <1>2, <1>3 DEF FixAction, EnableAuditd, Answers
<1>6. r.kind \in {"docker", "service", "reboot", "webserver", "kill", "firewall", "clean", "delete", "fix"}
  BY DEF Requests, Targets
<1>7. QED
  BY <1>1, <1>2, <1>3, <1>4, <1>5, <1>6
     DEF Outcomes, HandlerOf, Handler, DockerHandler, ServiceHandler, RebootHandler, WebserverHandler,
         KillHandler, FirewallHandler, CleanHandler, DeleteHandler, FixHandler

LEMMA AnswersAreRecords == Answers \subseteq [ok : BOOLEAN, touched : BOOLEAN]
  BY DEF Answers, Done, Nothing, Refused, Broken

LEMMA AppendFacts ==
  ASSUME NEW S, NEW q \in Seq(S), NEW e \in S
  PROVE  /\ Append(q, e) \in Seq(S)
         /\ Len(q) \in Nat
         /\ Len(Append(q, e)) = Len(q) + 1
         /\ Append(q, e)[Len(q) + 1] = e
         /\ \A i \in 1..Len(q) : Append(q, e)[i] = q[i] /\ i \in 1..(Len(q) + 1)
         /\ \A i \in 1..(Len(q) + 1) : i \in 1..Len(q) \/ i = Len(q) + 1
  OBVIOUS

LEMMA LostIsFinite ==
  ASSUME HostTypeOK
  PROVE  IsFiniteSet(Lost) /\ Cardinality(Lost) \in Nat /\ Cardinality(Callers) \in Nat
<1>1. IsFiniteSet(Positions(touched))
  BY FS_Interval DEF HostTypeOK, Positions
<1>2. Lost \subseteq Positions(touched)
  BY DEF Lost
<1>3. QED BY <1>1, <1>2, FS_Subset, FS_CardinalityType

\* A step without a crash, after which the trail misses nothing new.
LEMMA LostFrame ==
  ASSUME HostTypeOK, LostInv, crashes' = crashes, Lost' \subseteq Lost
  PROVE  LostInv'
<1>1. Cardinality(Lost') <= Cardinality(Lost)
  BY LostIsFinite, FS_Subset
<1>2. Cardinality(Lost') \in Nat
  BY LostIsFinite, FS_Subset, FS_CardinalityType
<1>3. QED BY <1>1, <1>2, LostIsFinite DEF LostInv, HostTypeOK

\* Most steps change nothing of what the trail is about.
LEMMA TrailFrame ==
  ASSUME HostTypeOK, LostInv, crashes' = crashes, touched' = touched, audit \subseteq audit',
         \A c \in Callers : pc[c] = "ran" =>
           \/ pc'[c] = "ran" /\ serving'[c] = serving[c]
           \/ \E a \in audit' : a.frame = serving[c]
  PROVE  LostInv'
<1>1. \A f : Accounted(f) => Accounted(f)'
  BY DEF Accounted
<1>2. Lost' \subseteq Lost
  BY <1>1 DEF Lost, Positions
<1>3. QED BY <1>2, LostFrame

-----------------------------------------------------------------------------
(* One lemma per action *)

LEMMA ConfirmStep ==
  ASSUME IInv, NEW t \in Tokens, NEW h \in Hashes, Confirm(t, h)
  PROVE  IInv'
<1> USE DEF IInv, Confirm, Mint, tokenVars, frameVars
<1>1. HostTypeOK'
  BY AnyHashType, AnswersAreRecords DEF HostTypeOK, Row, Answers, ServeInv
<1>2. ServeInv'
  BY DEF HostTypeOK, Row, ServeInv
<1>3. GrantInv'
  BY DEF HostTypeOK, Row, ServeInv, GrantInv, TouchedInv, Positions
<1>4. TouchedInv'
  BY DEF HostTypeOK, Row, TouchedInv, Positions
<1>5. AuditInv'
  BY DEF HostTypeOK, Row, ServeInv, AuditInv
<1>6. RefusalsAreFree'
  BY DEF HostTypeOK, ServeInv, RefusalsAreFree
<1>7. LostInv'
  BY TrailFrame DEF HostTypeOK, ServeInv, Unaudited
<1>8. QED BY <1>1, <1>2, <1>3, <1>4, <1>5, <1>6, <1>7

LEMMA LogTypes ==
  ASSUME audit \subseteq [frame : Frames, ok : BOOLEAN], NEW f \in Frames, NEW ok \in BOOLEAN,
         Log(f, ok)
  PROVE  audit' \subseteq [frame : Frames, ok : BOOLEAN]
<1>1. CASE Unaudited(request)
  BY <1>1 DEF Log
<1>2. CASE ~Unaudited(request)
  <2>1. audit' = audit \cup {AuditRow(f, ok)}
    BY <1>2 DEF Log
  <2>2. AuditRow(f, ok) \in [frame : Frames, ok : BOOLEAN]
    BY DEF AuditRow
  <2>3. QED BY <2>1, <2>2
<1>3. QED BY <1>1, <1>2

LEMMA TapStep ==
  ASSUME IInv, NEW f \in Frames, NEW t \in Tokens \cup {NoToken}, Tap(f, t)
  PROVE  IInv'
<1> USE DEF IInv, Tap, tokenVars, frameVars
<1>1. HostTypeOK'
  BY AnyHashType, AnswersAreRecords DEF HostTypeOK, Row, Answers, ServeInv
<1>2. ServeInv'
  BY DEF HostTypeOK, Row, ServeInv
<1>3. GrantInv'
  BY DEF HostTypeOK, Row, ServeInv, GrantInv, TouchedInv, Positions
<1>4. TouchedInv'
  BY DEF HostTypeOK, Row, TouchedInv, Positions
<1>5. AuditInv'
  BY DEF HostTypeOK, Row, ServeInv, AuditInv
<1>6. RefusalsAreFree'
  BY DEF HostTypeOK, ServeInv, RefusalsAreFree
<1>7. LostInv'
  BY TrailFrame DEF HostTypeOK, ServeInv, Unaudited
<1>8. QED BY <1>1, <1>2, <1>3, <1>4, <1>5, <1>6, <1>7

LEMMA ArrivesStep ==
  ASSUME IInv, NEW c \in Callers, NEW f \in Frames, Arrives(c, f)
  PROVE  IInv'
<1> USE DEF IInv, Arrives, tokenVars, frameVars
<1>1. HostTypeOK'
  BY AnyHashType, AnswersAreRecords DEF HostTypeOK, Row, Answers, ServeInv
<1>2. ServeInv'
  BY DEF HostTypeOK, Row, ServeInv
<1>3. GrantInv'
  BY DEF HostTypeOK, Row, ServeInv, GrantInv, TouchedInv, Positions
<1>4. TouchedInv'
  BY DEF HostTypeOK, Row, TouchedInv, Positions
<1>5. AuditInv'
  BY DEF HostTypeOK, Row, ServeInv, AuditInv
<1>6. RefusalsAreFree'
  BY DEF HostTypeOK, ServeInv, RefusalsAreFree
<1>7. LostInv'
  BY TrailFrame DEF HostTypeOK, ServeInv, Unaudited
<1>8. QED BY <1>1, <1>2, <1>3, <1>4, <1>5, <1>6, <1>7

LEMMA GuardStep ==
  ASSUME IInv, NEW c \in Callers, Guard(c)
  PROVE  IInv'
<1> USE DEF IInv, Guard, Log, tokenVars, frameVars
<1>1. HostTypeOK'
  <2>1. serving[c] \in Frames
    BY DEF HostTypeOK, ServeInv, LostRace
  <2>2. Log(serving[c], FALSE)
    OBVIOUS
  <2>3. audit' \subseteq [frame : Frames, ok : BOOLEAN]
    BY ONLY <2>1, <2>2, LogTypes, HostTypeOK DEF HostTypeOK
  <2>4. QED BY <2>3, AnyHashType DEF HostTypeOK, Answers
<1>2. ServeInv'
  BY DEF HostTypeOK, Row, ServeInv
<1>3. GrantInv'
  BY DEF HostTypeOK, Row, ServeInv, GrantInv, TouchedInv, Positions
<1>4. TouchedInv'
  BY DEF HostTypeOK, Row, TouchedInv, Positions
<1>5. AuditInv'
  BY DEF HostTypeOK, Row, ServeInv, AuditInv, AuditRow
<1>6. RefusalsAreFree'
  BY DEF HostTypeOK, ServeInv, RefusalsAreFree, AuditRow
<1>7. LostInv'
  BY TrailFrame DEF HostTypeOK, ServeInv, Unaudited, AuditRow
<1>8. QED BY <1>1, <1>2, <1>3, <1>4, <1>5, <1>6, <1>7

LEMMA ConsumesStep ==
  ASSUME IInv, NEW c \in Callers, Consumes(c)
  PROVE  IInv'
<1> USE DEF IInv, Consumes, Check, Valid, tokenVars, frameVars
<1>1. HostTypeOK'
  BY AnyHashType, AnswersAreRecords DEF HostTypeOK, Row, Answers, ServeInv
<1>2. ServeInv'
  BY DEF HostTypeOK, Row, ServeInv
<1>3. GrantInv'
  BY DEF HostTypeOK, Row, ServeInv, GrantInv, TouchedInv, Positions
<1>4. TouchedInv'
  BY DEF HostTypeOK, Row, TouchedInv, Positions
<1>5. AuditInv'
  BY DEF HostTypeOK, Row, ServeInv, AuditInv
<1>6. RefusalsAreFree'
  BY DEF HostTypeOK, ServeInv, RefusalsAreFree
<1>7. LostInv'
  BY TrailFrame DEF HostTypeOK, ServeInv, Unaudited
<1>8. QED BY <1>1, <1>2, <1>3, <1>4, <1>5, <1>6, <1>7

LEMMA NotAcceptedStep ==
  ASSUME IInv, NEW c \in Callers, NotAccepted(c)
  PROVE  IInv'
<1> USE DEF IInv, NotAccepted, Log, tokenVars, frameVars
<1>1. HostTypeOK'
  <2>1. serving[c] \in Frames
    BY DEF HostTypeOK, ServeInv, LostRace
  <2>2. Log(serving[c], FALSE)
    OBVIOUS
  <2>3. audit' \subseteq [frame : Frames, ok : BOOLEAN]
    BY ONLY <2>1, <2>2, LogTypes, HostTypeOK DEF HostTypeOK
  <2>4. QED BY <2>3, AnyHashType DEF HostTypeOK, Answers
<1>2. ServeInv'
  BY DEF HostTypeOK, Row, ServeInv
<1>3. GrantInv'
  BY DEF HostTypeOK, Row, ServeInv, GrantInv, TouchedInv, Positions
<1>4. TouchedInv'
  BY DEF HostTypeOK, Row, TouchedInv, Positions
<1>5. AuditInv'
  BY DEF HostTypeOK, Row, ServeInv, AuditInv, AuditRow
<1>6. RefusalsAreFree'
  BY DEF HostTypeOK, ServeInv, RefusalsAreFree, AuditRow
<1>7. LostInv'
  BY TrailFrame DEF HostTypeOK, ServeInv, Unaudited, AuditRow
<1>8. QED BY <1>1, <1>2, <1>3, <1>4, <1>5, <1>6, <1>7

LEMMA GrantedStep ==
  ASSUME IInv, NEW c \in Callers, Granted(c)
  PROVE  IInv'
<1> USE DEF IInv, Granted, MarkUsed, tokenVars, frameVars
<1>1. HostTypeOK'
  <2>1. tok[c] \in Tokens /\ hash[c] \in Hashes
    BY DEF HostTypeOK, ServeInv
  <2>2. row' \in [Tokens -> Row]
    <3>1. row' = [row EXCEPT ![tok[c]].state = "used"]
      OBVIOUS
    <3>2. row \in [Tokens -> Row]
      BY DEF HostTypeOK
    <3>3. QED BY ONLY <2>1, <3>1, <3>2 DEF Row
  <2>3. grants' \in Seq(Tokens \X Hashes)
    BY <2>1, AppendFacts DEF HostTypeOK
  <2>4. QED BY <2>2, <2>3 DEF HostTypeOK
<1>2. ServeInv'
  BY DEF HostTypeOK, Row, ServeInv
<1>3. GrantInv'
  BY DEF HostTypeOK, Row, ServeInv, GrantInv, TouchedInv, Positions
<1>4. TouchedInv'
  BY DEF HostTypeOK, Row, TouchedInv, Positions
<1>5. AuditInv'
  BY DEF HostTypeOK, Row, ServeInv, AuditInv
<1>6. RefusalsAreFree'
  BY DEF HostTypeOK, ServeInv, RefusalsAreFree
<1>7. LostInv'
  BY TrailFrame DEF HostTypeOK, ServeInv, Unaudited
<1>8. QED BY <1>1, <1>2, <1>3, <1>4, <1>5, <1>6, <1>7

LEMMA AlreadyUsedStep ==
  ASSUME IInv, NEW c \in Callers, AlreadyUsed(c)
  PROVE  IInv'
<1> USE DEF IInv, AlreadyUsed, LostRace, Log, Leaves, Returns, tokenVars, frameVars
<1>1. HostTypeOK'
  <2>1. serving[c] \in Frames
    BY DEF HostTypeOK, ServeInv, LostRace
  <2>2. Log(serving[c], FALSE)
    OBVIOUS
  <2>3. audit' \subseteq [frame : Frames, ok : BOOLEAN]
    BY ONLY <2>1, <2>2, LogTypes, HostTypeOK DEF HostTypeOK
  <2>4. QED BY <2>3, AnyHashType DEF HostTypeOK, Answers
<1>2. ServeInv'
  BY DEF HostTypeOK, Row, ServeInv
<1>3. GrantInv'
  BY DEF HostTypeOK, Row, ServeInv, GrantInv, TouchedInv, Positions
<1>4. TouchedInv'
  BY DEF HostTypeOK, Row, TouchedInv, Positions
<1>5. AuditInv'
  BY DEF HostTypeOK, Row, ServeInv, AuditInv, AuditRow
<1>6. RefusalsAreFree'
  BY DEF HostTypeOK, ServeInv, RefusalsAreFree, AuditRow
<1>7. LostInv'
  BY TrailFrame DEF HostTypeOK, ServeInv, Unaudited, AuditRow
<1>8. QED BY <1>1, <1>2, <1>3, <1>4, <1>5, <1>6, <1>7

LEMMA AuditsStep ==
  ASSUME IInv, NEW c \in Callers, Audits(c)
  PROVE  IInv'
<1> USE DEF IInv, Audits, Log, Leaves, Returns, tokenVars, frameVars
<1>1. HostTypeOK'
  <2>1. serving[c] \in Frames
    BY DEF HostTypeOK, ServeInv, LostRace
  <2>2. AuditRow(serving[c], outcome[c].ok) \in [frame : Frames, ok : BOOLEAN]
    BY <2>1, AnswersAreRecords DEF AuditRow, HostTypeOK
  <2>3. audit' \subseteq [frame : Frames, ok : BOOLEAN]
    BY <2>2 DEF HostTypeOK
  <2>4. QED BY <2>3, AnyHashType DEF HostTypeOK, Answers
<1>2. ServeInv'
  BY DEF HostTypeOK, Row, ServeInv
<1>3. GrantInv'
  BY DEF HostTypeOK, Row, ServeInv, GrantInv, TouchedInv, Positions
<1>4. TouchedInv'
  BY DEF HostTypeOK, Row, TouchedInv, Positions
<1>5. AuditInv'
  BY DEF HostTypeOK, Row, ServeInv, AuditInv, AuditRow
<1>6. RefusalsAreFree'
  BY DEF HostTypeOK, ServeInv, RefusalsAreFree, AuditRow
<1>7. LostInv'
  <2>1. ~Unaudited(request)
    BY DEF ServeInv, Unaudited
  <2>2. AuditRow(serving[c], outcome[c].ok) \in audit' /\ audit \subseteq audit'
    BY <2>1
  <2>3. \E a \in audit' : a.frame = serving[c]
    BY <2>2 DEF AuditRow
  <2>4. \A d \in Callers : d # c => pc'[d] = pc[d] /\ serving'[d] = serving[d]
    BY DEF HostTypeOK
  <2>5. QED BY <2>2, <2>3, <2>4, TrailFrame
<1>8. QED BY <1>1, <1>2, <1>3, <1>4, <1>5, <1>6, <1>7

LEMMA ForgetsStep ==
  ASSUME IInv, NEW f \in Frames, Forgets(f)
  PROVE  IInv'
<1> USE DEF IInv, Forgets, tokenVars, frameVars
<1>1. HostTypeOK'
  BY AnyHashType, AnswersAreRecords DEF HostTypeOK, Row, Answers, ServeInv
<1>2. ServeInv'
  BY DEF HostTypeOK, Row, ServeInv
<1>3. GrantInv'
  BY DEF HostTypeOK, Row, ServeInv, GrantInv, TouchedInv, Positions
<1>4. TouchedInv'
  BY DEF HostTypeOK, Row, TouchedInv, Positions
<1>5. AuditInv'
  BY DEF HostTypeOK, Row, ServeInv, AuditInv
<1>6. RefusalsAreFree'
  BY DEF HostTypeOK, ServeInv, RefusalsAreFree
<1>7. LostInv'
  BY TrailFrame DEF HostTypeOK, ServeInv, Unaudited
<1>8. QED BY <1>1, <1>2, <1>3, <1>4, <1>5, <1>6, <1>7

LEMMA AgesStep ==
  ASSUME IInv, Ages
  PROVE  IInv'
<1> USE DEF IInv, Ages, Tick, tokenVars, frameVars
<1>1. HostTypeOK'
  BY AnyHashType, AnswersAreRecords DEF HostTypeOK, Row, Answers, ServeInv
<1>2. ServeInv'
  BY DEF HostTypeOK, Row, ServeInv
<1>3. GrantInv'
  BY DEF HostTypeOK, Row, ServeInv, GrantInv, TouchedInv, Positions
<1>4. TouchedInv'
  BY DEF HostTypeOK, Row, TouchedInv, Positions
<1>5. AuditInv'
  BY DEF HostTypeOK, Row, ServeInv, AuditInv
<1>6. RefusalsAreFree'
  BY DEF HostTypeOK, ServeInv, RefusalsAreFree
<1>7. LostInv'
  BY TrailFrame DEF HostTypeOK, ServeInv, Unaudited
<1>8. QED BY <1>1, <1>2, <1>3, <1>4, <1>5, <1>6, <1>7

\* The manager is called: the change has the connection's own frame and token,
\* which no change before it had, and its connection still owes the row.
LEMMA ExecutesStep ==
  ASSUME IInv, NEW c \in Callers, Executes(c)
  PROVE  IInv'
<1> USE DEF IInv, Executes
<1>1. PICK o \in Outcomes(request) :
        /\ outcome' = [outcome EXCEPT ![c] = o]
        /\ touched' = IF o.touched THEN Append(touched, <<serving[c], tok[c]>>) ELSE touched
  OBVIOUS
<1>2. o \in Answers
  BY OutcomesType DEF HostTypeOK
<1>3. serving[c] \in Frames /\ tok[c] \in Tokens /\ tok[c] = carries[serving[c]]
  BY DEF ServeInv
<1>4. \/ touched' = touched
      \/ touched' = Append(touched, <<serving[c], tok[c]>>)
  BY <1>1
<1>5. HostTypeOK'
  BY <1>1, <1>2, <1>3, <1>4, AnswersAreRecords DEF HostTypeOK
<1>6. ServeInv'
  BY DEF HostTypeOK, ServeInv
<1>7. RefusalsAreFree' /\ AuditInv'
  BY DEF RefusalsAreFree, AuditInv
<1>8. pc'[c] = "ran" /\ \A d \in Callers : d # c => pc'[d] = pc[d]
  BY DEF HostTypeOK
<1>9. CASE touched' = touched
  <2>1. GrantInv'
    BY <1>8, <1>9 DEF GrantInv
  <2>2. TouchedInv'
    BY <1>9 DEF TouchedInv
  <2>3. LostInv'
    BY <1>8, <1>9, TrailFrame
  <2>4. QED BY <1>5, <1>6, <1>7, <2>1, <2>2, <2>3
<1>10. CASE touched' = Append(touched, <<serving[c], tok[c]>>)
  <2> DEFINE n == Len(touched) + 1
  <2>1. /\ n - 1 \in Nat
        /\ Len(touched') = n
        /\ touched'[n] = <<serving[c], tok[c]>>
        /\ \A i \in 1..Len(touched) : touched'[i] = touched[i]
        /\ \A i \in 1..n : i \in 1..Len(touched) \/ i = n
    BY <1>3, <1>10, AppendFacts DEF HostTypeOK
  <2> HIDE DEF n
  <2>2. GrantInv'
    BY <1>3, <1>8, <2>1 DEF HostTypeOK, GrantInv, Positions
  <2>3. TouchedInv'
    BY <1>3, <2>1 DEF HostTypeOK, ServeInv, GrantInv, TouchedInv, Positions
  <2>4. Accounted(serving[c])'
    BY <1>8 DEF Accounted
  <2>5. \A f : Accounted(f) => Accounted(f)'
    BY <1>8 DEF Accounted
  <2>6. Lost' \subseteq Lost
    BY <2>1, <2>4, <2>5 DEF Lost, Positions
  <2>7. LostInv'
    BY <2>6, LostFrame
  <2>8. QED BY <1>5, <1>6, <1>7, <2>2, <2>3, <2>7
<1>11. QED BY <1>4, <1>9, <1>10

\* The agent dies: what it was about to audit is lost, one change at most for
\* each of its connections.
LEMMA CrashStep ==
  ASSUME IInv, Crash
  PROVE  IInv'
<1> USE DEF IInv, Crash
<1>1. HostTypeOK'
  BY AnyHashType, AnswersAreRecords DEF HostTypeOK, Answers
<1>2. ServeInv' /\ GrantInv'
  BY DEF ServeInv, GrantInv
<1>3. TouchedInv' /\ AuditInv' /\ RefusalsAreFree'
  BY DEF TouchedInv, AuditInv, RefusalsAreFree
<1>4. LostInv'
  <2> DEFINE Owed == {i \in Positions(touched) :
                        \E c \in Callers : pc[c] = "ran" /\ serving[c] = touched[i][1]}
             debtor == [i \in Owed |->
                          CHOOSE c \in Callers : pc[c] = "ran" /\ serving[c] = touched[i][1]]
  <2>1. \A i \in Owed : debtor[i] \in Callers /\ serving[debtor[i]] = touched[i][1]
    OBVIOUS
  <2>2. \A i, j \in Owed : debtor[i] = debtor[j] => i = j
    <3>1. ASSUME NEW i \in Owed, NEW j \in Owed, debtor[i] = debtor[j] PROVE i = j
      <4>1. touched[i][1] = touched[j][1]
        BY <2>1, <3>1
      <4>2. QED BY <4>1 DEF TouchedInv
    <3>2. QED BY <3>1
  <2>3. debtor \in Injection(Owed, Callers)
    BY <2>1, <2>2 DEF Injection, IsInjective
  <2>4. IsFiniteSet(Owed) /\ Cardinality(Owed) <= Cardinality(Callers)
    BY <2>3, FS_Injection
  <2>5. Lost' \subseteq Lost \cup Owed
    BY DEF Lost, Accounted
  <2> HIDE DEF Owed, debtor
  <2>6. /\ IsFiniteSet(Lost \cup Owed)
        /\ Cardinality(Lost \cup Owed) <= Cardinality(Lost) + Cardinality(Owed)
    <3>1. IsFiniteSet(Lost) /\ Cardinality(Lost) \in Nat /\ Cardinality(Owed) \in Nat
      BY <2>4, LostIsFinite, FS_CardinalityType
    <3>2. IsFiniteSet(Lost \cap Owed)
      BY <3>1, FS_Subset
    <3>3. Cardinality(Lost \cap Owed) \in Nat
      BY <3>2, FS_CardinalityType
    <3>4. /\ IsFiniteSet(Lost \cup Owed)
          /\ Cardinality(Lost \cup Owed) =
               Cardinality(Lost) + Cardinality(Owed) - Cardinality(Lost \cap Owed)
      BY <2>4, <3>1, FS_Union
    <3>5. QED BY <3>1, <3>3, <3>4
  <2>7. Cardinality(Lost') <= Cardinality(Lost \cup Owed) /\ Cardinality(Lost') \in Nat
    BY <2>5, <2>6, FS_Subset, FS_CardinalityType
  <2>8. /\ Cardinality(Owed) \in Nat /\ Cardinality(Lost \cup Owed) \in Nat
        /\ crashes' = crashes + 1 /\ crashes \in Nat
    BY <2>4, <2>6, FS_CardinalityType DEF HostTypeOK
  <2>9. crashes' * Cardinality(Callers) = crashes * Cardinality(Callers) + Cardinality(Callers)
    BY <2>8, LostIsFinite
  <2>10. Cardinality(Lost) <= crashes * Cardinality(Callers) /\ crashes * Cardinality(Callers) \in Nat
    BY <2>8, LostIsFinite DEF LostInv
  <2>11. Cardinality(Lost') <= crashes * Cardinality(Callers) + Cardinality(Callers)
    BY <2>4, <2>6, <2>7, <2>8, <2>10, LostIsFinite
  <2>12. QED BY <2>9, <2>11 DEF LostInv
<1>5. QED BY <1>1, <1>2, <1>3, <1>4

-----------------------------------------------------------------------------
LEMMA InitIInv == HostInit => IInv
<1> SUFFICES ASSUME HostInit PROVE IInv
  OBVIOUS
<1> USE DEF HostInit, TokenInit
<1>1. HostTypeOK
  BY AnyHashType DEF HostTypeOK, Row, Answers
<1>2. ServeInv /\ GrantInv /\ TouchedInv /\ AuditInv /\ RefusalsAreFree
  BY DEF ServeInv, GrantInv, TouchedInv, AuditInv, RefusalsAreFree, Positions
<1>3. LostInv
  <2>1. Lost = {}
    BY DEF Lost, Positions
  <2>2. QED BY <2>1, <1>1, LostIsFinite, FS_EmptySet DEF LostInv
<1>4. QED BY <1>1, <1>2, <1>3 DEF IInv

LEMMA NextIInv == IInv /\ [HostNext]_hostVars => IInv'
<1> SUFFICES ASSUME IInv, [HostNext]_hostVars PROVE IInv'
  OBVIOUS
<1>1. ASSUME NEW c \in Callers,
             \/ \E f \in Frames : Arrives(c, f)
             \/ Guard(c) \/ Consumes(c) \/ NotAccepted(c)
             \/ Granted(c) \/ AlreadyUsed(c) \/ Executes(c) \/ Audits(c)
      PROVE  IInv'
  BY <1>1, ArrivesStep, GuardStep, ConsumesStep, NotAcceptedStep, GrantedStep, AlreadyUsedStep,
     ExecutesStep, AuditsStep
<1>2. ASSUME NEW t \in Tokens, NEW h \in Hashes, Confirm(t, h) PROVE IInv'
  BY <1>2, ConfirmStep
<1>3. ASSUME NEW f \in Frames, NEW t \in Tokens \cup {NoToken}, Tap(f, t) PROVE IInv'
  BY <1>3, TapStep
<1>4. ASSUME NEW f \in Frames, Forgets(f) PROVE IInv'
  BY <1>4, ForgetsStep
<1>5. CASE Ages \/ Crash
  BY <1>5, AgesStep, CrashStep
<1>6. CASE UNCHANGED hostVars
  BY <1>6 DEF IInv, HostTypeOK, ServeInv, GrantInv, TouchedInv, AuditInv, RefusalsAreFree, LostInv,
              Lost, Accounted, Positions, hostVars, tokenVars
<1>7. QED BY <1>1, <1>2, <1>3, <1>4, <1>5, <1>6 DEF HostNext

-----------------------------------------------------------------------------
(* The theorems *)

THEOREM Invariant == HostSpec => []IInv
  BY InitIInv, NextIInv, PTL DEF HostSpec

\* Every variable keeps its type, in every step of phones, connections and
\* crashes.
THEOREM TypeCorrect == HostSpec => []HostTypeOK
<1>1. IInv => HostTypeOK
  BY DEF IInv
<1>2. QED BY Invariant, <1>1, PTL

\* A tap changes the host once at most, however often its frame arrives and
\* whatever the server remembers of it, and a request that its handler refuses
\* costs no token.
THEOREM TapsChangeTheHostOnce == HostSpec => []TapsAreSafe
<1>1. ASSUME IInv PROVE OncePerTap
  <2>1. ASSUME NEW i \in Positions(touched), NEW j \in Positions(touched), i # j
        PROVE  touched[i][1] # touched[j][1] /\ touched[i][2] # touched[j][2]
    BY <1>1, <2>1 DEF IInv, TouchedInv
  <2>2. QED BY <2>1 DEF OncePerTap
<1>2. IInv => TapsAreSafe
  BY <1>1 DEF IInv, TapsAreSafe
<1>3. QED BY Invariant, <1>2, PTL

\* The audit trail never tells of a success that was not paid for, and misses
\* no change of the host but those cut off by a crash.
THEOREM TrailIsComplete == HostSpec => []TrailMatchesHost
<1>1. IInv => TrailMatchesHost
  BY DEF IInv, AuditInv, LostInv, Lost, TrailMatchesHost
<1>2. QED BY Invariant, <1>1, PTL
=============================================================================
