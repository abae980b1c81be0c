-------------------------------- MODULE CliAuth --------------------------------
(***************************************************************************)
(* cliauth.Manager for one agent kind: the captive CLI that signs in       *)
(* inside tmux, the goroutine that watches it, and the pasted tokens,      *)
(* logouts and status requests that touch the same credential meanwhile.   *)
(*                                                                         *)
(* A credential is a file the CLI owns and a row that points to a sealed   *)
(* copy.  Manager.mu covers the two maps only; StartLogin alone clears the *)
(* credential under it.                                                    *)
(***************************************************************************)
EXTENDS Naturals, Sequences, SequencesExt

CONSTANTS
  AuthCallers,
  EventSlots,   \* cap of Login.events; 64 in the code
  MaxLogins,    \* bound: logins ever started
  MaxWrites,    \* bound: credential files ever written
  MaxLines      \* bound: lines the captive CLI prints in one login

Kinds == {"claude", "codex"}
Logins == 1..MaxLogins

VARIABLES
  kind,       \* which CLI this manager entry is about
  running,    \* Manager.running[kind]: a login, 0 for none
  made,       \* logins ever started
  login,      \* each login: its goroutine, context, baseline and lines seen
  captive,    \* each login's tmux session
  events,     \* each login's channel
  answer,     \* what the client was told: the last done event it received
  file,       \* the CLI's credential file: when it was written, 0 if absent
  writes,     \* history: credential files ever written
  row,        \* the cli_tokens row's method
  authCall,   \* each caller's request
  signedIn    \* history: logins since whose start a credential was stored

authVars == <<kind, running, made, login, captive, events, answer, file, writes,
              row, authCall, signedIn>>

credential == <<file, writes, row, signedIn>>

NoLogin == [at |-> "none", ctx |-> "live", base |-> 0, lines |-> 0]
Busy == {"clearing", "spawn", "wire", "watch", "finish", "put", "kill", "cleanup", "forget"}

\* StartLogin holds mu until the old credential is cleared.
MuFree == \A i \in Logins : login[i].at # "clearing"

Goes(i, at) == login' = [login EXCEPT ![i].at = at]
Kill(i) == captive' = [captive EXCEPT ![i] = IF @ = "live" THEN "gone" ELSE @]

\* emit: an event that finds the channel full is dropped, the last one too.
Emit(i, ev) == events' = [events EXCEPT ![i] = IF Len(@) < EventSlots THEN Append(@, ev) ELSE @]

Stored == signedIn' = signedIn \cup {i \in Logins : i <= made}
WritesFile == /\ writes < MaxWrites
              /\ writes' = writes + 1
              /\ file' = writes'
              /\ Stored

\* fileBackedCredentialMissing: a pasted token needs no file.
RowIsStale == row = "auth_json" /\ file = 0

(***************************************************************************)
(* Status, as a login's goroutine calls it: a stale row is dropped; the    *)
(* row, or else the file, says that the CLI is signed in.                  *)
(***************************************************************************)
StatusLoggedIn == (row # "none" /\ ~RowIsStale) \/ file # 0
StatusDropsStale == row' = IF RowIsStale THEN "none" ELSE row

(* StartLogin: one login at a time; the old credential goes first. *)

\* Mutant: the old credential stays.
StartLoginKeeps ==
  /\ MuFree /\ running = 0
  /\ made < MaxLogins
  /\ made' = made + 1
  /\ running' = made'
  /\ login' = [login EXCEPT ![made'].at = "spawn"]
  /\ UNCHANGED <<kind, captive, events, answer, file, writes, row, authCall, signedIn>>

StartLogin ==
  /\ MuFree /\ running = 0
  /\ made < MaxLogins
  /\ made' = made + 1
  /\ running' = made'
  /\ login' = [login EXCEPT ![made'].at = "clearing"]
  /\ file' = 0
  /\ UNCHANGED <<kind, captive, events, answer, writes, row, authCall, signedIn>>

StartLoginClearsRow(i) ==
  /\ login[i].at = "clearing"
  /\ row' = "none"
  /\ Goes(i, "spawn")
  /\ UNCHANGED <<kind, running, made, captive, events, answer, file, writes, authCall, signedIn>>

(* driveLogin *)

Spawn(i) ==
  /\ login[i].at = "spawn" /\ login[i].ctx = "live"
  /\ captive' = [captive EXCEPT ![i] = "live"]
  /\ Goes(i, "wire")
  /\ UNCHANGED <<kind, running, made, events, answer, credential, authCall>>

\* tmux fails, or is killed with the context after it made the session.
SpawnFails(i) ==
  /\ login[i].at = "spawn"
  /\ \E left \in {"none", "live"} : captive' = [captive EXCEPT ![i] = left]
  /\ Emit(i, "failed")
  /\ Goes(i, "cleanup")
  /\ UNCHANGED <<kind, running, made, answer, credential, authCall>>

\* The fifo and pipe-pane; what the file is now is the baseline.
Wire(i) ==
  /\ login[i].at = "wire" /\ login[i].ctx = "live"
  /\ login' = [login EXCEPT ![i].at = "watch", ![i].base = file]
  /\ UNCHANGED <<kind, running, made, captive, events, answer, credential, authCall>>

WireFails(i) ==
  /\ login[i].at = "wire"
  /\ Emit(i, "failed")
  /\ Kill(i)
  /\ Goes(i, "cleanup")
  /\ UNCHANGED <<kind, running, made, answer, credential, authCall>>

\* The context ended: cancelled, timed out, or its connection closed.
WatchCancelled(i) ==
  /\ login[i].at = "watch" /\ login[i].ctx # "live"
  /\ Kill(i)
  /\ Emit(i, login[i].ctx)
  /\ Goes(i, "cleanup")
  /\ UNCHANGED <<kind, running, made, answer, credential, authCall>>

\* A chunk of output: progress, and whatever prompt or URL is read in it.
WatchLine(i) ==
  /\ login[i].at = "watch" /\ login[i].lines < MaxLines
  /\ Emit(i, "progress")
  /\ login' = [login EXCEPT ![i].lines = @ + 1]
  /\ UNCHANGED <<kind, running, made, captive, answer, credential, authCall>>

FileIsNewer(i) == file # 0 /\ file > login[i].base
SignInSeen(i) == FileIsNewer(i) \/ (kind = "claude" /\ StatusLoggedIn)

\* The poll's tick, or the end of the pipe.
WatchFinds(i) ==
  /\ login[i].at = "watch"
  /\ SignInSeen(i)
  /\ Goes(i, "finish")
  /\ UNCHANGED <<kind, running, made, captive, events, answer, credential, authCall>>

WatchExited(i) ==
  /\ login[i].at = "watch" /\ captive[i] = "gone"
  /\ ~FileIsNewer(i)
  /\ Emit(i, "failed")
  /\ Goes(i, "cleanup")
  /\ UNCHANGED <<kind, running, made, captive, answer, credential, authCall>>

(* finishOK *)

\* Claude's file is canonical: any row goes.
FinishClaude(i) ==
  /\ login[i].at = "finish" /\ kind = "claude"
  /\ row' = "none"
  /\ Goes(i, "kill")
  /\ UNCHANGED <<kind, running, made, captive, events, answer, file, writes, authCall, signedIn>>

\* Codex's is read and sealed, if it is still there.
FinishCodexReads(i) ==
  /\ login[i].at = "finish" /\ kind = "codex"
  /\ Goes(i, IF file = 0 THEN "kill" ELSE "put")
  /\ UNCHANGED <<kind, running, made, captive, events, answer, credential, authCall>>

FinishCodexPuts(i) ==
  /\ login[i].at = "put"
  /\ row' = "auth_json"
  /\ Goes(i, "kill")
  /\ UNCHANGED <<kind, running, made, captive, events, answer, file, writes, authCall, signedIn>>

FinishKills(i) ==
  /\ login[i].at = "kill"
  /\ Kill(i)
  /\ StatusDropsStale
  /\ Emit(i, IF kind = "codex" \/ StatusLoggedIn THEN "ok" ELSE "failed")
  /\ Goes(i, "cleanup")
  /\ UNCHANGED <<kind, running, made, answer, file, writes, authCall, signedIn>>

(* cleanupLogin: whatever is left of the session is killed. *)

\* Mutant: what killed the session, or failed to make one, is trusted.
CleanupTrusts(i) ==
  /\ login[i].at = "cleanup"
  /\ Goes(i, "forget")
  /\ UNCHANGED <<kind, running, made, captive, events, answer, credential, authCall>>

Cleanup(i) ==
  /\ login[i].at = "cleanup"
  /\ Kill(i)
  /\ Goes(i, "forget")
  /\ UNCHANGED <<kind, running, made, events, answer, credential, authCall>>

\* The login leaves the maps and its channel is closed.
CleanupForgets(i) ==
  /\ login[i].at = "forget" /\ MuFree
  /\ running' = IF running = i THEN 0 ELSE running
  /\ Goes(i, "gone")
  /\ UNCHANGED <<kind, made, captive, events, answer, credential, authCall>>

(* The captive CLI, the clock and the client *)

CliSignsIn(i) ==
  /\ captive[i] = "live"
  /\ WritesFile
  /\ UNCHANGED <<kind, running, made, login, captive, events, answer, row, authCall>>

CliExits(i) ==
  /\ captive[i] = "live"
  /\ Kill(i)
  /\ UNCHANGED <<kind, running, made, login, events, answer, credential, authCall>>

\* Config.Timeout, or Cancel, or the end of the connection that began it.
ContextEnds(i) ==
  /\ login[i].at \in Busy \ {"clearing"} /\ login[i].ctx = "live"
  /\ \E why \in {"timeout", "cancelled"} : login' = [login EXCEPT ![i].ctx = why]
  /\ UNCHANGED <<kind, running, made, captive, events, answer, credential, authCall>>

\* The connection's goroutine forwards one event.
Forward(i) ==
  /\ events[i] # <<>>
  /\ events' = [events EXCEPT ![i] = Tail(@)]
  /\ answer' = [answer EXCEPT ![i] = IF Head(events[i]) = "progress" THEN @ ELSE Head(events[i])]
  /\ UNCHANGED <<kind, running, made, login, captive, credential, authCall>>

(* SetToken, Logout and auth.status *)

\* ModeFile, for codex: the file first, the row after it.
SetTokenFile(c) ==
  /\ authCall[c] = "idle" /\ kind = "codex"
  /\ WritesFile
  /\ authCall' = [authCall EXCEPT ![c] = "put"]
  /\ UNCHANGED <<kind, running, made, login, captive, events, answer, row>>

SetTokenRow(c) ==
  /\ authCall[c] \in {"idle", "put"}
  /\ row' = IF authCall[c] = "put" THEN "auth_json" ELSE "token"
  /\ Stored
  /\ authCall' = [authCall EXCEPT ![c] = "idle"]
  /\ UNCHANGED <<kind, running, made, login, captive, events, answer, file, writes>>

LogoutCancels(c) ==
  /\ authCall[c] = "idle" /\ MuFree
  /\ login' = IF running = 0 THEN login
              ELSE [login EXCEPT ![running].ctx = IF @ = "live" THEN "cancelled" ELSE @]
  /\ authCall' = [authCall EXCEPT ![c] = "logout"]
  /\ UNCHANGED <<kind, running, made, captive, events, answer, credential>>

\* The CLI's own logout and clearCredentialState both remove the file.
LogoutClearsFile(c) ==
  /\ authCall[c] = "logout"
  /\ file' = 0
  /\ authCall' = [authCall EXCEPT ![c] = "logout_row"]
  /\ UNCHANGED <<kind, running, made, login, captive, events, answer, writes, row, signedIn>>

LogoutClearsRow(c) ==
  /\ authCall[c] = "logout_row"
  /\ row' = "none"
  /\ authCall' = [authCall EXCEPT ![c] = "idle"]
  /\ UNCHANGED <<kind, running, made, login, captive, events, answer, file, writes, signedIn>>

\* Status from a client: it looks, and drops what it found stale later.
StatusLooks(c) ==
  /\ authCall[c] = "idle" /\ RowIsStale
  /\ authCall' = [authCall EXCEPT ![c] = "drop"]
  /\ UNCHANGED <<kind, running, made, login, captive, events, answer, credential>>

StatusDrops(c) ==
  /\ authCall[c] = "drop"
  /\ row' = "none"
  /\ authCall' = [authCall EXCEPT ![c] = "idle"]
  /\ UNCHANGED <<kind, running, made, login, captive, events, answer, file, writes, signedIn>>

AuthInit ==
  /\ kind \in Kinds
  /\ running = 0 /\ made = 0
  /\ login = [i \in Logins |-> NoLogin]
  /\ captive = [i \in Logins |-> "none"]
  /\ events = [i \in Logins |-> <<>>]
  /\ answer = [i \in Logins |-> "none"]
  /\ file = 0 /\ writes = 0
  /\ row = "none"
  /\ authCall = [c \in AuthCallers |-> "idle"]
  /\ signedIn = {}

\* What one login's goroutine does.
Drive(i) ==
  \/ StartLoginClearsRow(i) \/ Spawn(i) \/ SpawnFails(i) \/ Wire(i) \/ WireFails(i)
  \/ WatchCancelled(i) \/ WatchFinds(i) \/ WatchExited(i)
  \/ FinishClaude(i) \/ FinishCodexReads(i) \/ FinishCodexPuts(i) \/ FinishKills(i)
  \/ Cleanup(i) \/ CleanupForgets(i)

AuthNext ==
  \/ StartLogin
  \/ \E i \in Logins : \/ Drive(i) \/ WatchLine(i) \/ CliSignsIn(i) \/ CliExits(i)
                       \/ ContextEnds(i) \/ Forward(i)
  \/ \E c \in AuthCallers :
       \/ SetTokenFile(c) \/ SetTokenRow(c) \/ LogoutCancels(c) \/ LogoutClearsFile(c)
       \/ LogoutClearsRow(c) \/ StatusLooks(c) \/ StatusDrops(c)

AuthSpec == AuthInit /\ [][AuthNext]_authVars

-----------------------------------------------------------------------------
Events == {"progress", "ok", "failed", "timeout", "cancelled"}

AuthTypeOK ==
  /\ kind \in Kinds
  /\ running \in 0..MaxLogins /\ made \in 0..MaxLogins
  /\ login \in [Logins -> [at : Busy \cup {"none", "gone"}, ctx : {"live", "timeout", "cancelled"},
                           base : 0..MaxWrites, lines : 0..MaxLines]]
  /\ captive \in [Logins -> {"none", "live", "gone"}]
  /\ events \in [Logins -> Seq(Events)] /\ \A i \in Logins : Len(events[i]) <= EventSlots
  /\ answer \in [Logins -> Events \cup {"none"}]
  /\ file \in 0..MaxWrites /\ writes \in 0..MaxWrites
  /\ row \in {"none", "token", "auth_json"}
  /\ authCall \in [AuthCallers -> {"idle", "put", "logout", "logout_row", "drop"}]
  /\ signedIn \subseteq Logins

\* The captive CLI of one kind that is alive belongs to the login in the map,
\* the only one that Cancel, Logout and the next StartLogin can reach: no
\* forgotten process goes on writing the credential file of a later login.
CaptiveIsOwned == \A i \in Logins : captive[i] = "live" => running = i

\* A login is reported successful only if a credential was stored since it
\* began: what an earlier login left behind is never taken for a new sign-in.
SuccessIsFresh ==
  \A i \in Logins : answer[i] = "ok" \/ Contains(events[i], "ok") => i \in signedIn

\* Where a login's captive CLI may live, and where it has seen a sign-in.
Spawned == {"wire", "watch", "finish", "put", "kill", "cleanup"}
Finishing == {"finish", "put", "kill"}

\* The inductive invariant: a login at work is the one in the map, and a
\* credential that is there, once it cleared the old one, was stored since it began.
AuthInv ==
  /\ AuthTypeOK /\ SuccessIsFresh
  /\ \A i \in Logins :
       /\ login[i].at # "none" => i <= made
       /\ login[i].at \in Busy => running = i
       /\ captive[i] = "live" => login[i].at \in Spawned
       /\ login[i].at \in Finishing => i \in signedIn
       /\ login[i].at \in Busy /\ file # 0 => i \in signedIn
       /\ login[i].at \in Busy \ {"clearing"} /\ row # "none" => i \in signedIn

\* "SetToken stores an opaque credential the user pasted into the app": it
\* lasts until a logout, another login or another token.  Not so: finishOK of
\* a claude login, which takes the pasted token for its own sign-in, deletes it.
PastedTokenKept ==
  [][ row = "token" /\ row' = "none"
        => \/ \E i \in Logins : login[i].at = "clearing"
           \/ \E c \in AuthCallers : authCall[c] = "logout_row" ]_authVars
=============================================================================
