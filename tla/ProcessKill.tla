------------------------------- MODULE ProcessKill -------------------------------
(***************************************************************************)
(* process.Manager.Kill, called by infra.process.kill, by security.fix     *)
(* kill_process and by an approved proposal.                               *)
(*                                                                         *)
(* A request names a process by pid and start time.  Between two looks at  *)
(* /proc, and between a look and a signal, the process may exit and its    *)
(* pid may be given to another one.  A process is the time it started at;  *)
(* the clock of StartTimeTicks never gives one twice.                      *)
(***************************************************************************)
EXTENDS Naturals

CONSTANTS
  Pids,
  Killers,       \* handler goroutines
  MaxTicks       \* bound: processes ever started

\* What a process does with signals, and what the guards know of it: init, the
\* agent, sshd and tmux panes are protected; a kernel thread ignores every
\* signal; a stuck process is in an uninterruptible wait.
Sorts == {"plain", "ignoresTerm", "stuck", "kernel", "protected"}

NoProcess == [start |-> 0, sort |-> "plain"]

VARIABLES
  table,     \* /proc: the process of each pid
  ticks,
  kill,      \* each handler's request and how far Kill has come
  looked,    \* history: the start time a handler saw at its last look
  bystander  \* history: whether a process that was there at that look and is
             \* not the requested one was ever signalled, or a protected one
processVars == <<table, ticks, kill, looked, bystander>>

NoKill == [at |-> "idle", pid |-> CHOOSE p \in Pids : TRUE, start |-> 0, sig |-> "TERM"]
Gone(k) == table[k.pid].start # k.start

\* Where Kill ends; the answer stays until the next request.
Ends(c, answer) == kill' = [kill EXCEPT ![c].at = answer]
Goes(c, at) == kill' = [kill EXCEPT ![c].at = at]
AtRest(c) == kill[c].at \in {"idle", "ok", "failed"}

\* The handler before the token: IsProtected.  A refused request ends there.
KillRequest(c, p, start, sig) ==
  /\ AtRest(c)
  /\ start \in 1..ticks
  /\ kill' = [kill EXCEPT ![c] =
       [at |-> IF table[p].start # 0 /\ table[p].sort = "protected" THEN "failed" ELSE "asked",
        pid |-> p, start |-> start, sig |-> sig]]
  /\ UNCHANGED <<table, ticks, looked, bystander>>

\* Mutant: the pid is enough.
KillChecksAnyProcess(c) ==
  LET k == kill[c]  q == table[k.pid] IN
  /\ k.at = "asked"
  /\ looked' = [looked EXCEPT ![c] = q.start]
  /\ IF q.start = 0 \/ q.sort \in {"protected", "kernel"} THEN Ends(c, "failed")
                                                         ELSE Goes(c, "signal")
  /\ UNCHANGED <<table, ticks, bystander>>

\* Kill's checks, after the token: protected, there, the same start time, not
\* a kernel thread.
KillChecks(c) ==
  LET k == kill[c]  q == table[k.pid] IN
  /\ k.at = "asked"
  /\ looked' = [looked EXCEPT ![c] = q.start]
  /\ IF Gone(k) \/ q.sort \in {"protected", "kernel"} THEN Ends(c, "failed")
                                                     ELSE Goes(c, "signal")
  /\ UNCHANGED <<table, ticks, bystander>>

Dies(q, sig) == q.sort = "plain" \/ (sig = "KILL" /\ q.sort \in {"ignoresTerm", "protected"})

\* defaultSignal: the signal reaches whatever has the pid now; no process, or
\* no permission even with sudo, is an error.
Signal(c, sig, next) ==
  LET k == kill[c]  q == table[k.pid] IN
  \/ /\ q.start # 0
     /\ table' = IF Dies(q, sig) THEN [table EXCEPT ![k.pid] = NoProcess] ELSE table
     /\ bystander' = (bystander \/ (q.start # k.start /\ q.start <= looked[c])
                                \/ (q.start = k.start /\ q.sort = "protected"))
     /\ Goes(c, next)
     /\ UNCHANGED <<ticks, looked>>
  \/ /\ Ends(c, "failed")
     /\ UNCHANGED <<table, ticks, looked, bystander>>

FirstSignal(c) == kill[c].at = "signal" /\ Signal(c, kill[c].sig, "await")
Escalates(c) == kill[c].at = "escalate" /\ Signal(c, "KILL", "awaitKill")

\* Mutant: a delivered signal is a success.
AwaitExitTrusting(c) ==
  /\ kill[c].at \in {"await", "awaitKill"}
  /\ Ends(c, "ok")
  /\ UNCHANGED <<table, ticks, looked, bystander>>

\* awaitExit: gone or another process is a success; at the end of the grace
\* period SIGTERM is escalated once and SIGKILL gives up.
AwaitExit(c) ==
  LET k == kill[c] IN
  /\ k.at \in {"await", "awaitKill"}
  /\ looked' = [looked EXCEPT ![c] = table[k.pid].start]
  /\ \/ Gone(k) /\ Ends(c, "ok")
     \/ ~Gone(k) /\ (IF k.at = "await" /\ k.sig = "TERM" THEN Goes(c, "escalate")
                                                        ELSE Ends(c, "failed"))
  /\ UNCHANGED <<table, ticks, bystander>>

(***************************************************************************)
(* The host.                                                               *)
(***************************************************************************)
Exits(p) ==
  /\ table[p].start # 0
  /\ table' = [table EXCEPT ![p] = NoProcess]
  /\ UNCHANGED <<ticks, kill, looked, bystander>>

Starts(p, sort) ==
  /\ table[p].start = 0
  /\ ticks < MaxTicks
  /\ ticks' = ticks + 1
  /\ table' = [table EXCEPT ![p] = [start |-> ticks', sort |-> sort]]
  /\ UNCHANGED <<kill, looked, bystander>>

ProcessInit ==
  /\ table = [p \in Pids |-> NoProcess]
  /\ ticks = 0
  /\ kill = [c \in Killers |-> NoKill]
  /\ looked = [c \in Killers |-> 0]
  /\ bystander = FALSE

ProcessNext ==
  \/ \E c \in Killers : \/ \E p \in Pids, s \in 1..MaxTicks, sig \in {"TERM", "KILL"} :
                             KillRequest(c, p, s, sig)
                        \/ KillChecks(c)
                        \/ FirstSignal(c)
                        \/ Escalates(c)
                        \/ AwaitExit(c)
  \/ \E p \in Pids : Exits(p) \/ \E sort \in Sorts : Starts(p, sort)

ProcessSpec == ProcessInit /\ [][ProcessNext]_processVars

ProcessTypeOK ==
  /\ ticks \in Nat /\ bystander \in BOOLEAN
  /\ table \in [Pids -> [start : 0..ticks, sort : Sorts]]
  /\ kill \in [Killers -> [at : {"idle", "asked", "signal", "await", "escalate", "awaitKill", "ok", "failed"},
                           pid : Pids, start : 0..ticks, sig : {"TERM", "KILL"}]]
  /\ looked \in [Killers -> 0..ticks]

\* process.go:249: Kill "only reports success once the PID is confirmed gone (or
\* reused by an unrelated process)": after an OK answer the requested process,
\* ignoring signals or not, does not run, whoever killed it.
SuccessMeansGone == \A c \in Killers : kill[c].at = "ok" => Gone(kill[c])

\* No request signals a process that was there at its last look at /proc other
\* than the one it names, nor a protected one: what a signal can hit by mistake
\* is only a process that got the pid since that look.
NoBystander == ~bystander

\* Why: a start time is given once, so that a pid which had the requested process
\* at a look has that one, none, or a newer one ever after.
NamedOrNewer(k) ==
  /\ table[k.pid].start # 0 => table[k.pid].start >= k.start
  /\ table[k.pid].start = k.start => table[k.pid].sort # "protected"

ProcessInv ==
  /\ ProcessTypeOK /\ SuccessMeansGone /\ NoBystander
  /\ \A c \in Killers :
       /\ kill[c].at # "idle" => kill[c].start # 0
       /\ kill[c].at \in {"signal", "await", "escalate"} => NamedOrNewer(kill[c])
       /\ kill[c].at \in {"signal", "escalate"} => looked[c] = kill[c].start
=============================================================================
