------------------------------- MODULE MCAgents -------------------------------
(***************************************************************************)
(* What keeps agents running, checked side by side: a behaviour is one of  *)
(* a single component, chosen in the initial state, while the others stay  *)
(* where they start.  SessionLifecycle, AgentControl and CodexExec have    *)
(* their own variables; TerminalOutput and UsagePoll, of which one at most *)
(* is at work, take v1, v2, ... for theirs.                                *)
(***************************************************************************)
EXTENDS SessionLifecycle, AgentControl, CodexExec, TLC

CONSTANTS
  MaxBytes, MaxOutput,                                  \* TerminalOutput
  PollCallers, MaxTotal                                 \* UsagePoll

\* The buffer that is flushed when it is full has room for a byte at least.
ASSUME AgentsBoundsAssumption == MaxBytes \in Nat \ {0} /\ MaxOutput \in Nat /\ MaxTotal \in Nat

VARIABLES
  part,        \* the component the behaviour is of: it never changes
  v1, v2, v3, v4, v5, v6, v7, v8, v9, v10, v11, v12, v13, v14, v15

Tty == INSTANCE TerminalOutput WITH
  pane <- v1, made <- v2, cat <- v3, agent <- v4, fifoNo <- v5, fifo <- v6, reader <- v7,
  base <- v8, buf <- v9, timer <- v10, late <- v11, closed <- v12, log <- v13, counted <- v14,
  restarts <- v15

Usage == INSTANCE UsagePoll WITH
  row <- v1, starter <- v2, ender <- v3, spent <- v4, poller <- v5, stops <- v6,
  signalled <- v7, tokens <- v8, usage <- v9, scraped <- v10, late <- v11, quenched <- v12,
  restarts <- v13

shared == <<v1, v2, v3, v4, v5, v6, v7, v8, v9, v10, v11, v12, v13, v14, v15>>

AgentsInit ==
  /\ Init /\ ControlInit /\ ExecInit
  /\ \/ /\ part \in {"sessions", "control", "exec"}
        /\ v1 = 0 /\ v2 = 0 /\ v3 = 0 /\ v4 = 0 /\ v5 = 0 /\ v6 = 0 /\ v7 = 0 /\ v8 = 0
        /\ v9 = 0 /\ v10 = 0 /\ v11 = 0 /\ v12 = 0 /\ v13 = 0 /\ v14 = 0 /\ v15 = 0
     \/ part = "terminal" /\ Tty!TerminalInit
     \/ part = "usage" /\ Usage!PollInit /\ v14 = 0 /\ v15 = 0
  /\ part # "control" => protocol = "claude"

AgentsNext ==
  \/ part = "sessions" /\ Next /\ UNCHANGED <<part, shared, controlVars, execVars>>
  \/ part = "control" /\ ControlNext /\ UNCHANGED <<part, shared, vars, execVars>>
  \/ part = "exec" /\ ExecNext /\ UNCHANGED <<part, shared, vars, controlVars>>
  \/ part = "terminal" /\ Tty!TerminalNext /\ UNCHANGED <<part, vars, controlVars, execVars>>
  \/ part = "usage" /\ Usage!PollNext /\ UNCHANGED <<part, v14, v15, vars, controlVars, execVars>>

AgentsSpec == AgentsInit /\ [][AgentsNext]_<<part, shared, vars, controlVars, execVars>>

\* The same model values stand for the ids of every component, and the same for
\* their handlers, so that few permutations reduce all of them.
Symmetry == Permutations(Sessions) \cup Permutations(Children) \cup Permutations(Callers)

-----------------------------------------------------------------------------
\* Types of the five components.
TypesOK ==
  /\ TypeOK
  /\ ControlTypeOK
  /\ ExecTypeOK
  /\ part = "terminal" => Tty!TerminalTypeOK
  /\ part = "usage" => Usage!PollTypeOK

\* TerminalOutput: the log has the pane's bytes in their order.  UsagePoll: it has
\* each token total once, the row has the last of them, and nobody goes on polling
\* for a session that is over.
OutputIsKept ==
  /\ part = "terminal" => Tty!BytesInOrder
  /\ part = "usage" => Usage!UsageRises /\ Usage!CountIsAnnounced /\ Usage!PollersEnd
=============================================================================
