------------------------------- MODULE UsagePoll -------------------------------
(***************************************************************************)
(* sessions/usage.go: the goroutine that mirrors the token total of a      *)
(* terminal claude session from the CLI's transcript into the session's    *)
(* row and its event log, from Manager.Start, which starts it last, to     *)
(* Stop, Delete or the reaper, which stop it from other goroutines.        *)
(*                                                                         *)
(* One session: ids are never used again and pollers share nothing.  A     *)
(* total stands for the input, output and cache counts of the transcript.  *)
(***************************************************************************)
EXTENDS Integers, Sequences

CONSTANTS
  PollCallers,    \* connections, and the reaper
  MaxTotal,       \* bound: the transcript's total
  MaxRestarts     \* bound: restarts of the agent

VARIABLES
  row,        \* the session's row: "none", "active", "ended", "deleted"
  starter,    \* Start: "none", "running" (the runtime has started), "done"
  ender,      \* what each caller does next to end the session
  spent,      \* the transcript's total; NoTranscript before the first turn
  poller,     \* [at, u, last] of the goroutine
  stops,      \* whether usageStops has its channel
  signalled,  \* whether that channel was closed
  tokens,     \* the row's token count
  usage,      \* the totals of the usage events in the log
  scraped,    \* history: whether the terminal's text ever set the count
  late,       \* history: the poller was started after stopUsagePoll had run
  quenched,   \* history: whether stopUsagePoll has run
  restarts

pollVars == <<row, starter, ender, spent, poller, stops, signalled, tokens, usage, scraped,
              late, quenched, restarts>>

NoTranscript == -1
NoPoller == [at |-> "none", u |-> 0, last |-> 0]
RowExists == row \in {"active", "ended"}

(* Start *)

StartRuns ==
  /\ row = "none" /\ starter = "none"
  /\ row' = "active" /\ starter' = "running"
  /\ UNCHANGED <<ender, spent, poller, stops, signalled, tokens, usage, scraped, late,
                 quenched, restarts>>

\* Nothing tells Start that the session was ended meanwhile.
StartUsagePoll ==
  /\ starter = "running"
  /\ starter' = "done"
  /\ poller' = [NoPoller EXCEPT !.at = "waiting", !.last = NoTranscript]
  /\ stops' = TRUE
  /\ late' = quenched
  /\ UNCHANGED <<row, ender, spent, signalled, tokens, usage, scraped, quenched, restarts>>

(* Stop, Delete and the reaper *)

EndSession(c) ==
  /\ ender[c] = "idle" /\ RowExists
  /\ row' = "ended"
  /\ ender' = [ender EXCEPT ![c] = "quench"]
  /\ UNCHANGED <<starter, spent, poller, stops, signalled, tokens, usage, scraped, late,
                 quenched, restarts>>

DeleteBegins(c) ==
  /\ ender[c] = "idle" /\ RowExists
  /\ ender' = [ender EXCEPT ![c] = "quenchThenDelete"]
  /\ UNCHANGED <<row, starter, spent, poller, stops, signalled, tokens, usage, scraped, late,
                 quenched, restarts>>

AfterQuench(c) == IF ender[c] = "quench" THEN "idle" ELSE "delete"

\* Mutant: the entry goes and the channel stays open.
StopUsagePollForgets(c) ==
  /\ ender[c] \in {"quench", "quenchThenDelete"}
  /\ stops' = FALSE /\ quenched' = TRUE
  /\ ender' = [ender EXCEPT ![c] = AfterQuench(c)]
  /\ UNCHANGED <<row, starter, spent, poller, signalled, tokens, usage, scraped, late, restarts>>

StopUsagePoll(c) ==
  /\ ender[c] \in {"quench", "quenchThenDelete"}
  /\ signalled' = (signalled \/ stops)
  /\ stops' = FALSE /\ quenched' = TRUE
  /\ ender' = [ender EXCEPT ![c] = AfterQuench(c)]
  /\ UNCHANGED <<row, starter, spent, poller, tokens, usage, scraped, late, restarts>>

DeleteSession(c) ==
  /\ ender[c] = "delete"
  /\ row' = "deleted"
  /\ ender' = [ender EXCEPT ![c] = "idle"]
  /\ UNCHANGED <<starter, spent, poller, stops, signalled, tokens, usage, scraped, late,
                 quenched, restarts>>

(* The poller *)

\* Mutant: every tick reports.
TickAlways ==
  /\ poller.at = "waiting" /\ spent # NoTranscript /\ Len(usage) <= MaxTotal
  /\ poller' = [at |-> "update", u |-> spent, last |-> spent]
  /\ UNCHANGED <<row, starter, ender, spent, stops, signalled, tokens, usage, scraped, late,
                 quenched, restarts>>

\* A tick, which the select may take although the channel is closed.
Tick ==
  /\ poller.at = "waiting" /\ spent # NoTranscript /\ spent # poller.last
  /\ poller' = [at |-> "update", u |-> spent, last |-> spent]
  /\ UNCHANGED <<row, starter, ender, spent, stops, signalled, tokens, usage, scraped, late,
                 quenched, restarts>>

UpdateSessionUsage ==
  /\ poller.at = "update"
  /\ tokens' = IF RowExists THEN poller.u ELSE tokens
  /\ poller' = [poller EXCEPT !.at = "publish"]
  /\ UNCHANGED <<row, starter, ender, spent, stops, signalled, usage, scraped, late, quenched,
                 restarts>>

\* Publish; the event of a deleted session has no row to belong to.  The typed
\* accounting adds nothing: the event's keys are not those of Usage.
PublishUsage ==
  /\ poller.at = "publish"
  /\ usage' = IF RowExists THEN Append(usage, poller.u) ELSE usage
  /\ poller' = [poller EXCEPT !.at = "waiting"]
  /\ UNCHANGED <<row, starter, ender, spent, stops, signalled, tokens, scraped, late, quenched,
                 restarts>>

PollerExits ==
  /\ poller.at = "waiting" /\ signalled
  /\ poller' = [poller EXCEPT !.at = "gone"]
  /\ UNCHANGED <<row, starter, ender, spent, stops, signalled, tokens, usage, scraped, late,
                 quenched, restarts>>

(* The CLI, and the restart of the agent *)

\* The CLI ends a turn, whose usage is not negative; a turn may cost nothing.
TurnIsWritten(n) ==
  /\ row # "none" /\ n \in 0..MaxTotal /\ n > spent
  /\ spent' = n
  /\ UNCHANGED <<row, starter, ender, poller, stops, signalled, tokens, usage, scraped, late,
                 quenched, restarts>>

\* Its screen shows figures: the last ones seen win.
ScreenShows(n) ==
  /\ row = "active" /\ ~scraped
  /\ tokens' = n /\ scraped' = TRUE
  /\ UNCHANGED <<row, starter, ender, spent, poller, stops, signalled, usage, late, quenched,
                 restarts>>

\* Rehydrate reattaches the pane and starts no poller.
Restart ==
  /\ restarts < MaxRestarts
  /\ restarts' = restarts + 1
  /\ starter' = IF row = "none" THEN starter ELSE "done"
  /\ ender' = [c \in PollCallers |-> "idle"]
  /\ poller' = NoPoller
  /\ stops' = FALSE /\ signalled' = FALSE
  /\ UNCHANGED <<row, spent, tokens, usage, scraped, late, quenched>>

PollInit ==
  /\ row = "none" /\ starter = "none" /\ ender = [c \in PollCallers |-> "idle"]
  /\ spent = NoTranscript /\ poller = NoPoller
  /\ stops = FALSE /\ signalled = FALSE
  /\ tokens = 0 /\ usage = << >>
  /\ scraped = FALSE /\ late = FALSE /\ quenched = FALSE /\ restarts = 0

PollNext ==
  \/ StartRuns \/ StartUsagePoll
  \/ \E c \in PollCallers :
       EndSession(c) \/ DeleteBegins(c) \/ StopUsagePoll(c) \/ DeleteSession(c)
  \/ Tick \/ UpdateSessionUsage \/ PublishUsage \/ PollerExits
  \/ \E n \in 0..MaxTotal : TurnIsWritten(n) \/ ScreenShows(n)
  \/ Restart

PollSpec == PollInit /\ [][PollNext]_pollVars

-----------------------------------------------------------------------------
PollTypeOK ==
  /\ row \in {"none", "active", "ended", "deleted"} /\ starter \in {"none", "running", "done"}
  /\ poller \in [at : {"none", "waiting", "update", "publish", "gone"}, u : 0..MaxTotal,
                last : NoTranscript..MaxTotal]
  /\ ender \in [PollCallers -> {"idle", "quench", "quenchThenDelete", "delete"}]
  /\ spent \in NoTranscript..MaxTotal /\ tokens \in 0..MaxTotal
  /\ usage \in Seq(0..MaxTotal) /\ restarts \in Nat
  /\ {stops, signalled, scraped, late, quenched} \subseteq BOOLEAN

\* The log shows each total once, and the totals rise.
UsageRises == \A i \in 1..(Len(usage) - 1) : usage[i] < usage[i + 1]

\* The count that clients list is the last one the log announced, unless the
\* screen had a say.
CountIsAnnounced ==
  poller.at = "waiting" /\ RowExists /\ ~scraped /\ usage # << >> => tokens = usage[Len(usage)]

\* No poller outlives its session: when nobody is ending it any more, it has
\* been told to go, unless it was started after the session had ended.
PollersEnd ==
  row \in {"ended", "deleted"} /\ (\A c \in PollCallers : ender[c] = "idle") /\ ~late
    /\ restarts = 0 /\ starter = "done"
    => poller.at = "gone" \/ signalled

\* The inductive invariant.  What was announced is behind what the poller works on,
\* which is behind the transcript; there is a poller once at most; and who ends the
\* session after the poller was started finds its channel.
Announced == IF usage = << >> THEN NoTranscript ELSE usage[Len(usage)]

CountFollows ==
  /\ starter # "done" => usage = << >> /\ poller = NoPoller
  /\ row = "none" => starter = "none"
  /\ poller.at = "waiting" => Announced <= poller.last /\ poller.last <= spent
  /\ poller.at \in {"update", "publish"} => Announced < poller.u /\ poller.u = poller.last
                                             /\ poller.last <= spent
  /\ poller.at = "publish" /\ RowExists /\ ~scraped => tokens = poller.u

EndIsHeard ==
  restarts = 0 =>
    /\ starter = "done" /\ ~late => stops \/ signalled
    /\ starter = "done" /\ ~late /\ quenched => signalled
    /\ row \in {"ended", "deleted"} =>
         quenched \/ \E c \in PollCallers : ender[c] \in {"quench", "quenchThenDelete"}
    /\ \A c \in PollCallers : ender[c] = "delete" => quenched

PollInv ==
  /\ PollTypeOK
  /\ UsageRises /\ CountIsAnnounced /\ PollersEnd
  /\ CountFollows /\ EndIsHeard

\* Not so in the code: the poller that is started late stays for ever, ...
NoLatePoller == ~(late /\ poller.at = "waiting" /\ ~stops /\ ~signalled /\ row = "deleted")
\* ... and a session that survives a restart is no longer followed.
FollowedAfterRestart == row = "active" /\ starter = "done" => poller.at # "none"
=============================================================================
