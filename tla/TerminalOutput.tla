------------------------------ MODULE TerminalOutput ------------------------------
(***************************************************************************)
(* The output of a terminal session: a tmux pane, the cat that pipe-pane   *)
(* starts in it, the fifo between cat and the agent, scanPipe, the         *)
(* coalescing writer with its timer, and the session's log; Attach when    *)
(* the session starts and when the agent does (Rehydrate), which publishes *)
(* a capture of the pane first.                                            *)
(*                                                                         *)
(* The writer's timer runs in a goroutine of its own and may have fired    *)
(* when a flush by size or Close replaces it.  A byte is its position in   *)
(* the pane's output; each one is the mark of a tool call.                 *)
(***************************************************************************)
EXTENDS Naturals, Sequences

CONSTANTS
  MaxBytes,      \* the coalescing writer's maxBytes
  MaxOutput,     \* bound: bytes the pane writes
  MaxRestarts    \* bound: restarts of the agent

VARIABLES
  pane,        \* "none", "live", "gone"
  made,        \* bytes the pane has written
  cat,         \* the fifo that the pane is piped to, by its number; 0: no pipe
  agent,       \* the agent: "up" or "down", or where Start or Rehydrate has come
  fifoNo,      \* fifos ever made
  fifo,        \* bytes in the current fifo
  reader,      \* the goroutine of the current fifo: "none", "opening", "reading", "closed"
  base,        \* history: what the pane had written when the pipe was opened
  buf, timer, late, closed,   \* the coalescing writer; late flushes wait for its lock
  log,         \* bytes published from the current fifo
  counted,     \* session_usage.tool_calls
  restarts

writerVars == <<buf, timer, late, closed, log, counted>>
pipeVars == <<cat, fifoNo, fifo, reader, base>>
terminalVars == <<pane, made, agent, pipeVars, writerVars, restarts>>

Bytes(from, to) == [i \in 1..(to - from) |-> from + i]
FreshWriter == /\ buf' = << >> /\ timer' = "none" /\ late' = 0 /\ closed' = FALSE
               /\ log' = << >>

(***************************************************************************)
(* The coalescing writer.                                                  *)
(***************************************************************************)
\* Publish: what is logged is accounted for, here as one tool call a byte.
Publishes(b) == log' = log \o b /\ counted' = counted + Len(b)

\* Mutant: the timer is stopped and not forgotten.
FlushKeepsTimer(b) ==
  /\ timer' = IF timer = "armed" THEN "fired" ELSE timer
  /\ buf' = << >>
  /\ Publishes(b)

\* flushLocked of the bytes b, under the lock: a timer that fired meanwhile
\* still comes.
FlushLocked(b) ==
  /\ timer' = "none"
  /\ buf' = << >>
  /\ Publishes(b)

\* Write: flush at maxBytes, otherwise make sure that a timer runs.
Write(chunk) ==
  IF Len(buf \o chunk) >= MaxBytes
    THEN FlushLocked(buf \o chunk)
    ELSE /\ buf' = buf \o chunk
         /\ timer' = IF timer = "none" THEN "armed" ELSE timer
         /\ UNCHANGED <<log, counted>>

TimerFires ==
  /\ timer = "armed"
  /\ timer' = "fired"
  /\ late' = late + 1
  /\ UNCHANGED <<pane, made, agent, pipeVars, buf, closed, log, counted, restarts>>

LateFlush ==
  /\ late > 0
  /\ late' = late - 1
  /\ FlushLocked(buf)
  /\ UNCHANGED <<pane, made, agent, pipeVars, closed, restarts>>

\* scanPipe reads what is there, up to its buffer.
ScanPipe(n) ==
  /\ reader = "reading" /\ n <= Len(fifo)
  /\ fifo' = SubSeq(fifo, n + 1, Len(fifo))
  /\ IF closed THEN UNCHANGED <<buf, timer, log, counted>> ELSE Write(SubSeq(fifo, 1, n))
  /\ UNCHANGED <<pane, made, agent, cat, fifoNo, reader, base, late, closed, restarts>>

\* Mutant: what is still buffered at the end is dropped.
ScanPipeEndsDropping ==
  /\ reader = "reading" /\ fifo = << >> /\ cat # fifoNo
  /\ reader' = "closed" /\ closed' = TRUE
  /\ buf' = << >> /\ timer' = "none"
  /\ UNCHANGED <<pane, made, agent, cat, fifoNo, fifo, base, late, log, counted, restarts>>

\* The end of the fifo: Close.
ScanPipeEnds ==
  /\ reader = "reading" /\ fifo = << >> /\ cat # fifoNo
  /\ reader' = "closed" /\ closed' = TRUE
  /\ FlushLocked(buf)
  /\ UNCHANGED <<pane, made, agent, cat, fifoNo, fifo, base, late, restarts>>

(***************************************************************************)
(* TmuxRuntime.  pipe-pane -o opens a pipe only when the pane has none: it *)
(* closes the one it has.                                                  *)
(***************************************************************************)
StartPane ==
  /\ pane = "none" /\ agent = "up"
  /\ pane' = "live" /\ agent' = "attach"
  /\ UNCHANGED <<made, pipeVars, writerVars, restarts>>

\* Rehydrate for an active session: the capture, then Attach.  The capture of
\* a pane that is gone fails and publishes nothing.
Rehydrate ==
  /\ agent = "down" /\ pane # "none"
  /\ agent' = "attach"
  /\ counted' = IF pane = "live" THEN counted + made ELSE counted
  /\ UNCHANGED <<pane, made, pipeVars, buf, timer, late, closed, log, restarts>>

\* Attach makes a new fifo and a goroutine that opens it.
AttachFifo ==
  /\ agent = "attach"
  /\ agent' = "pipe"
  /\ fifoNo' = fifoNo + 1 /\ fifo' = << >> /\ reader' = "opening"
  /\ FreshWriter
  /\ UNCHANGED <<pane, made, cat, base, counted, restarts>>

AttachPipe ==
  /\ agent = "pipe"
  /\ agent' = "up"
  /\ IF pane = "live" /\ cat = 0
       THEN cat' = fifoNo /\ reader' = "reading" /\ base' = made
       ELSE cat' = 0 /\ UNCHANGED <<reader, base>>
  /\ UNCHANGED <<pane, made, fifoNo, fifo, writerVars, restarts>>

(***************************************************************************)
(* The pane and the agent.                                                 *)
(***************************************************************************)
\* A cat whose reader is gone dies of its first write.
PaneWrites ==
  /\ pane = "live" /\ made < MaxOutput
  /\ made' = made + 1
  /\ IF cat = 0 THEN UNCHANGED <<cat, fifo>>
     ELSE IF cat = fifoNo /\ reader = "reading"
       THEN fifo' = Append(fifo, made') /\ UNCHANGED cat
       ELSE cat' = 0 /\ UNCHANGED fifo
  /\ UNCHANGED <<pane, agent, fifoNo, reader, base, writerVars, restarts>>

\* The program in the pane ends, or Stop kills it.
PaneEnds ==
  /\ pane = "live"
  /\ pane' = "gone" /\ cat' = 0
  /\ UNCHANGED <<made, agent, fifoNo, fifo, reader, base, writerVars, restarts>>

AgentDies ==
  /\ agent # "down" /\ restarts < MaxRestarts
  /\ restarts' = restarts + 1
  /\ agent' = "down" /\ reader' = "none" /\ fifo' = << >>
  /\ FreshWriter
  /\ UNCHANGED <<pane, made, cat, fifoNo, base, counted>>

TerminalInit ==
  /\ pane = "none" /\ made = 0 /\ cat = 0 /\ agent = "up"
  /\ fifoNo = 0 /\ fifo = << >> /\ reader = "none" /\ base = 0
  /\ buf = << >> /\ timer = "none" /\ late = 0 /\ closed = FALSE
  /\ log = << >> /\ counted = 0 /\ restarts = 0

TerminalNext ==
  \/ StartPane \/ Rehydrate \/ AttachFifo \/ AttachPipe
  \/ PaneWrites \/ PaneEnds \/ AgentDies
  \/ TimerFires \/ LateFlush
  \/ \E n \in 1..MaxOutput : ScanPipe(n)
  \/ ScanPipeEnds

TerminalSpec == TerminalInit /\ [][TerminalNext]_terminalVars

-----------------------------------------------------------------------------
TerminalTypeOK ==
  /\ pane \in {"none", "live", "gone"} /\ agent \in {"up", "down", "attach", "pipe"}
  /\ fifoNo \in Nat /\ cat \in 0..fifoNo
  /\ reader \in {"none", "opening", "reading", "closed"}
  /\ timer \in {"none", "armed", "fired"} /\ late \in Nat /\ closed \in BOOLEAN
  /\ made \in Nat /\ base \in 0..made /\ counted \in Nat /\ restarts \in Nat
  /\ log \in Seq(Nat) /\ buf \in Seq(Nat) /\ fifo \in Seq(Nat)
  /\ Len(buf) < MaxBytes

\* While the agent reads the pane and when it has read its end, every byte
\* written since the pipe was opened is in the log, the writer or the fifo,
\* once and in order, whatever timers and flushes by size did; nothing stays in
\* the writer without a flush to come, and nothing when it is closed.
BytesInOrder ==
  /\ (reader \in {"reading", "closed"} /\ (pane = "gone" \/ cat = fifoNo)) =>
       log \o buf \o fifo = Bytes(base, made)
  /\ buf # << >> => ~closed /\ (timer = "armed" \/ late > 0)

\* The inductive invariant: whoever reads the pane has all of it, and only loses the
\* pipe with the pane; a new writer is empty until its pipe is open; a timer that has
\* fired is still to be answered.
ReaderIsSound ==
  /\ reader \in {"reading", "closed"} =>
       /\ log \o buf \o fifo = Bytes(base, made)
       /\ pane = "gone" \/ (cat = fifoNo /\ reader = "reading")
  /\ reader = "reading" => ~closed
  /\ reader # "none" => fifoNo > 0

WriterIsSound ==
  /\ buf # << >> => ~closed /\ (timer = "armed" \/ late > 0)
  /\ timer = "fired" => late > 0
  /\ agent = "pipe" => /\ reader = "opening" /\ ~closed
                       /\ log = << >> /\ buf = << >> /\ fifo = << >>

TerminalInv == TerminalTypeOK /\ ReaderIsSound /\ WriterIsSound

\* sessions.go:491, Rehydrate: a session whose pane is alive streams again
\* once the agent has started.  A pane that wrote nothing since the agent died
\* still has its old pipe, which pipe-pane -o closes.
StreamsAfterRestart == (agent = "up" /\ pane = "live") => (cat = fifoNo /\ reader = "reading")

\* Each tool call is counted once.  Rehydrate publishes the pane again.
ToolCallsCountedOnce == counted <= made
=============================================================================
