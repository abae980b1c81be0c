------------------------------- MODULE AgentControl -------------------------------
(***************************************************************************)
(* The protocol engines over the stdio of an agent's child process,        *)
(* claudeConn and codexConn, and the session.approval, session.interrupt,  *)
(* session.prompt and session.set_mode handlers that use them.             *)
(*                                                                         *)
(* The child asks for approvals, withdraws them and answers control        *)
(* requests in any order on one stream of lines, which one goroutine       *)
(* reads.  Handlers of several connections answer approvals and send       *)
(* control requests of their own, each under a lock that it does not hold  *)
(* while it writes or waits, and they may give up waiting.                 *)
(***************************************************************************)
EXTENDS Naturals, Sequences, FiniteSets

CONSTANTS
  Handlers,      \* handler goroutines
  Asks,          \* request ids of the child's approval requests, all for one tool
  NoAsk,
  MaxCalls       \* bound: control requests ever sent

Protocols == {"claude", "codex"}
Decisions == {"allow", "allow_always", "deny"}

VARIABLES
  protocol,    \* which engine this is
  ask,         \* the child: each approval request and the first answer it got
  inbox,       \* lines of the child that are not read yet
  approvals,   \* approvals and tools; approvalMethod and approvalRawID
  always,      \* whether the tool has a standing allow
  shown,       \* the approval requests published to the session
  raced,       \* history: those that two handlers were answering at once
  handler,     \* what each handler waits for or is about to write
  reqN,        \* the last request id
  pending,     \* request ids with somebody waiting
  received,    \* the child: control requests it has not answered, <<id, call, kind>>
  calls,       \* history: control requests sent
  turnID,      \* codex: the turn Interrupt aims at
  started,     \* the child: the turns it has started
  told,        \* history: the newest turn the agent was told of
  promptsOverlapped \* history: whether two prompts were ever under way at once

askVars == <<ask, approvals, always, shown, raced>>
callVars == <<reqN, pending, received, calls>>
turnVars == <<turnID, started, told, promptsOverlapped>>
controlVars == <<protocol, askVars, inbox, handler, callVars, turnVars>>

Idle == [at |-> "idle", ask |-> NoAsk, decision |-> "deny", input |-> FALSE,
         id |-> 0, call |-> 0, kind |-> "none", reply |-> 0, turn |-> 0]
Line(t, a, id, call, turn) == [type |-> t, ask |-> a, id |-> id, call |-> call, turn |-> turn]
Later(s, t) == IF t > s THEN t ELSE s

(***************************************************************************)
(* The child.                                                              *)
(***************************************************************************)
AsksFor(a) ==
  /\ ask[a] = "no"
  /\ ask' = [ask EXCEPT ![a] = "waiting"]
  /\ inbox' = Append(inbox, Line("ask", a, 0, 0, 0))
  /\ UNCHANGED <<protocol, approvals, always, shown, raced, handler, callVars, turnVars>>

\* control_cancel_request, of claude only.
Withdraws(a) ==
  /\ protocol = "claude" /\ ask[a] = "waiting"
  /\ ask' = [ask EXCEPT ![a] = "withdrawn"]
  /\ inbox' = Append(inbox, Line("cancel", a, 0, 0, 0))
  /\ UNCHANGED <<protocol, approvals, always, shown, raced, handler, callVars, turnVars>>

\* An answer to a control request; a codex prompt starts a turn, announced
\* before or after the answer that names it.
Answers(r) ==
  LET n == started + 1
      told1 == Line("reply", NoAsk, r[1], r[2], n)
      told2 == Line("turn", NoAsk, 0, 0, n)
  IN /\ r \in received
     /\ received' = received \ {r}
     /\ IF protocol = "codex" /\ r[3] = "prompt"
          THEN /\ started' = n
               /\ inbox' \in {inbox \o <<told1, told2>>, inbox \o <<told2, told1>>}
          ELSE /\ started' = started
               /\ inbox' = Append(inbox, [told1 EXCEPT !.turn = 0])
     /\ UNCHANGED <<protocol, askVars, handler, reqN, pending, calls, turnID, told, promptsOverlapped>>

\* The first answer counts, and only while the child waits for it.
Takes(a, answer) == ask' = IF ask[a] = "waiting" THEN [ask EXCEPT ![a] = answer] ELSE ask

(***************************************************************************)
(* The reader: handleLine.                                                 *)
(***************************************************************************)
HeadIs(t) == inbox # << >> /\ Head(inbox).type = t

\* Mutant: an approval request for a tool with a standing allow is taken from
\* the map and not answered.
ReadsAskSilently ==
  LET a == Head(inbox).ask IN
  /\ HeadIs("ask")
  /\ inbox' = Tail(inbox)
  /\ IF protocol = "claude" /\ always
       THEN UNCHANGED <<ask, approvals, shown>>
       ELSE /\ approvals' = approvals \cup {a}
            /\ shown' = shown \cup {a}
            /\ UNCHANGED ask
  /\ UNCHANGED <<protocol, always, raced, handler, callVars, turnVars>>

\* recordApproval; maybeAutoAllow answers with the recorded input and does not
\* publish, otherwise the request is published.
ReadsAsk ==
  LET a == Head(inbox).ask IN
  /\ HeadIs("ask")
  /\ inbox' = Tail(inbox)
  /\ IF protocol = "claude" /\ always
       THEN /\ Takes(a, "input")
            /\ UNCHANGED <<approvals, shown>>
       ELSE /\ approvals' = approvals \cup {a}
            /\ shown' = shown \cup {a}
            /\ UNCHANGED ask
  /\ UNCHANGED <<protocol, always, raced, handler, callVars, turnVars>>

\* dropApproval.
ReadsCancel ==
  /\ HeadIs("cancel")
  /\ inbox' = Tail(inbox)
  /\ approvals' = approvals \ {Head(inbox).ask}
  /\ UNCHANGED <<protocol, ask, always, shown, raced, handler, callVars, turnVars>>

\* routeControlResponse, routeResponse: to whoever waits for the id, or nobody.
ReadsReply ==
  LET l == Head(inbox) IN
  /\ HeadIs("reply")
  /\ inbox' = Tail(inbox)
  /\ pending' = pending \ {l.id}
  /\ handler' = [h \in Handlers |->
       IF l.id \in pending /\ handler[h].at = "waiting" /\ handler[h].id = l.id
         THEN [handler[h] EXCEPT !.at = "replied", !.reply = l.call, !.turn = l.turn]
         ELSE handler[h]]
  /\ UNCHANGED <<protocol, askVars, reqN, received, calls, turnVars>>

\* Mutant: trackTurn only fills an empty turn id.
TrackTurnOnce ==
  /\ HeadIs("turn")
  /\ inbox' = Tail(inbox)
  /\ turnID' = IF turnID = 0 THEN Head(inbox).turn ELSE turnID
  /\ told' = Later(told, Head(inbox).turn)
  /\ UNCHANGED <<protocol, askVars, handler, callVars, started, promptsOverlapped>>

TrackTurn ==
  /\ HeadIs("turn")
  /\ inbox' = Tail(inbox)
  /\ turnID' = Head(inbox).turn
  /\ told' = Later(told, Head(inbox).turn)
  /\ UNCHANGED <<protocol, askVars, handler, callVars, started, promptsOverlapped>>

(***************************************************************************)
(* The handlers.  An approval that allows was paid for with a confirmation *)
(* token (ConfirmationTokens); one that denies needs none.                 *)
(***************************************************************************)
\* approve, under reqMu: the claude engine answers ids it does not know too.
Approve(h, a, d) ==
  /\ handler[h].at = "idle"
  /\ a \in shown
  /\ protocol = "codex" => a \in approvals
  /\ handler' = [handler EXCEPT ![h] =
       [Idle EXCEPT !.at = "took", !.ask = a, !.decision = d, !.input = (a \in approvals)]]
  /\ approvals' = approvals \ {a}
  /\ always' = (always \/ (protocol = "claude" /\ d = "allow_always" /\ a \in approvals))
  /\ raced' = IF \E g \in Handlers : handler[g].ask = a THEN raced \cup {a} ELSE raced
  /\ UNCHANGED <<protocol, ask, shown, inbox, callVars, turnVars>>

\* writeJSON; an input that was not in the map is written as {}.
ApproveWrites(h) ==
  LET o == handler[h] IN
  /\ o.at = "took"
  /\ Takes(o.ask, IF o.decision = "deny" THEN "denied" ELSE IF o.input THEN "input" ELSE "empty")
  /\ handler' = [handler EXCEPT ![h] = Idle]
  /\ UNCHANGED <<protocol, approvals, always, shown, raced, inbox, callVars, turnVars>>

\* Mutant: the lowest id nobody waits for.
NextIdReused == CHOOSE i \in 1..(MaxCalls + 1) :
                  i \notin pending /\ \A j \in 1..(i - 1) : j \in pending

NextId == reqN + 1

PromptUnderWay == \/ \E r \in received : r[3] = "prompt"
                  \/ \E g \in Handlers : handler[g].kind = "prompt"

\* sendControl, call: register, write, wait.  An interrupt of a codex session
\* without a turn is none, a claude prompt expects no answer.
Call(h, kind) ==
  /\ handler[h].at = "idle"
  /\ calls < MaxCalls
  /\ kind = "interrupt" => protocol = "claude" \/ turnID # 0
  /\ kind = "prompt" => protocol = "codex"
  /\ kind = "mode" => protocol = "claude"
  /\ calls' = calls + 1
  /\ reqN' = NextId
  /\ pending' = pending \cup {NextId}
  /\ received' = received \cup {<<NextId, calls', kind>>}
  /\ handler' = [handler EXCEPT ![h] =
       [Idle EXCEPT !.at = "waiting", !.id = NextId, !.call = calls', !.kind = kind]]
  /\ promptsOverlapped' = (promptsOverlapped \/ (kind = "prompt" /\ PromptUnderWay))
  /\ UNCHANGED <<protocol, askVars, inbox, turnID, started, told>>

\* The answer arrives; sendPrompt notes the turn it names.
CallReturns(h) ==
  LET o == handler[h] IN
  /\ o.at = "replied"
  /\ handler' = [handler EXCEPT ![h] = Idle]
  /\ IF o.turn # 0 THEN turnID' = o.turn /\ told' = Later(told, o.turn)
                   ELSE UNCHANGED <<turnID, told>>
  /\ UNCHANGED <<protocol, askVars, inbox, callVars, started, promptsOverlapped>>

\* controlTimeout, or the connection is gone, even while the answer is there.
CallGivesUp(h) ==
  /\ handler[h].at \in {"waiting", "replied"}
  /\ handler' = [handler EXCEPT ![h] = Idle]
  /\ pending' = pending \ {handler[h].id}
  /\ UNCHANGED <<protocol, askVars, inbox, reqN, received, calls, turnVars>>

ControlInit ==
  /\ protocol \in Protocols
  /\ ask = [a \in Asks |-> "no"]
  /\ inbox = << >>
  /\ approvals = {} /\ always = FALSE /\ shown = {} /\ raced = {}
  /\ handler = [h \in Handlers |-> Idle]
  /\ reqN = 0 /\ pending = {} /\ received = {} /\ calls = 0
  /\ turnID = 0 /\ started = 0 /\ told = 0 /\ promptsOverlapped = FALSE

ControlNext ==
  \/ \E a \in Asks : AsksFor(a) \/ Withdraws(a)
  \/ \E r \in received : Answers(r)
  \/ ReadsAsk \/ ReadsCancel \/ ReadsReply \/ TrackTurn
  \/ \E h \in Handlers :
       \/ \E a \in Asks, d \in Decisions : Approve(h, a, d)
       \/ ApproveWrites(h)
       \/ \E kind \in {"prompt", "interrupt", "mode"} : Call(h, kind)
       \/ CallReturns(h)
       \/ CallGivesUp(h)

ControlSpec == ControlInit /\ [][ControlNext]_controlVars

Kinds == {"none", "prompt", "interrupt", "mode"}

ControlTypeOK ==
  /\ protocol \in Protocols
  /\ ask \in [Asks -> {"no", "waiting", "withdrawn", "input", "empty", "denied"}]
  /\ inbox \in Seq([type : {"ask", "cancel", "reply", "turn"}, ask : Asks \cup {NoAsk},
                    id : Nat, call : Nat, turn : Nat])
  /\ shown \subseteq Asks /\ approvals \subseteq shown /\ raced \subseteq Asks
  /\ always \in BOOLEAN /\ promptsOverlapped \in BOOLEAN
  /\ handler \in [Handlers ->
       [at : {"idle", "took", "waiting", "replied"}, ask : Asks \cup {NoAsk}, decision : Decisions,
        input : BOOLEAN, id : Nat, call : Nat, kind : Kinds, reply : Nat, turn : Nat]]
  /\ reqN \in Nat /\ calls \in Nat /\ turnID \in Nat /\ started \in Nat /\ told \in Nat
  /\ pending \subseteq 1..reqN
  /\ received \subseteq Nat \X Nat \X Kinds

(***************************************************************************)
(* What the engines promise.                                               *)
(***************************************************************************)
Unread(a) == \E i \in 1..Len(inbox) : inbox[i].type = "ask" /\ inbox[i].ask = a
BeingAnswered(a) == \E h \in Handlers : handler[h].at = "took" /\ handler[h].ask = a

\* The child waits for no answer that nobody can give: its request is unread,
\* or published and in the map, or about to be answered.  And what it is
\* allowed to run is what it asked for (claude_runtime.go:90), unless two
\* handlers answer the same request at once: the one that finds no input may
\* write first.
AsksAreServed ==
  /\ \A a \in Asks : ask[a] = "waiting" =>
       Unread(a) \/ (a \in approvals /\ a \in shown) \/ BeingAnswered(a)
  /\ \A a \in Asks : ask[a] = "empty" => a \in raced

\* The answer a handler gets is the one to its own request, however many were
\* given up before their answers arrived, and nobody waits for an answer that
\* was handed out or cannot come.
AnswersMatch ==
  \A h \in Handlers :
    /\ handler[h].at = "replied" => handler[h].reply = handler[h].call
    /\ handler[h].at = "waiting" =>
         /\ handler[h].id \in pending
         /\ \/ \E r \in received : r[2] = handler[h].call
            \/ \E i \in 1..Len(inbox) : inbox[i].type = "reply" /\ inbox[i].call = handler[h].call

\* Interrupt aims at the newest turn the agent was told of, by a notification
\* or by the answer to a prompt.  Only two prompts under way at once may leave
\* it behind: the answer to the older one may be the last to be noted.
TurnIsCurrent == ~promptsOverlapped => turnID = told
=============================================================================
