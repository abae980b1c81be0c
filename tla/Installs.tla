-------------------------------- MODULE Installs --------------------------------
(***************************************************************************)
(* tooling.Manager.Install for one CLI, as tooling.install calls it: the   *)
(* request is answered at once and a goroutine of its own installs, in     *)
(* steps that other connections may be between: the single-flight entry,   *)
(* npm, the link in BinDir taken away and made again, a look at the        *)
(* result, and the entry given back before tooling.done goes out.          *)
(*                                                                         *)
(* npm is killed with the connection that asked, and what it leaves then   *)
(* is its own affair.                                                      *)
(***************************************************************************)
EXTENDS Naturals, FiniteSets

CONSTANTS
  Installers,     \* connections
  MaxInstalls     \* bound: requests

VARIABLES
  prefix,     \* whether NpmPrefix/bin has the CLI
  link,       \* whether BinDir has its link
  onPath,     \* whether PATH has another one: it never changes
  running,    \* Manager.running of the kind
  install,    \* what each goroutine does next
  told,       \* what tooling.done said last: "nothing", "failed", "installed", "missing"
  requests

installVars == <<prefix, link, onPath, running, install, told, requests>>

Goes(h, step) == install' = [install EXCEPT ![h] = step]

\* resolve: the link, if it leads somewhere, or PATH.
Resolves == (link /\ prefix) \/ onPath

(* The request *)

InstallRequest(h) ==
  /\ install[h] = "idle" /\ requests < MaxInstalls
  /\ requests' = requests + 1
  /\ Goes(h, "acquire")
  /\ UNCHANGED <<prefix, link, onPath, running, told>>

\* Mutant: the entry is made whether or not there is one.
AcquireAnyway(h) ==
  /\ install[h] = "acquire"
  /\ running' = TRUE
  /\ Goes(h, "npm")
  /\ UNCHANGED <<prefix, link, onPath, told, requests>>

Acquire(h) ==
  /\ install[h] = "acquire" /\ ~running
  /\ running' = TRUE
  /\ Goes(h, "npm")
  /\ UNCHANGED <<prefix, link, onPath, told, requests>>

\* ErrAlreadyRunning.
AcquireRefused(h) ==
  /\ install[h] = "acquire" /\ running
  /\ told' = [told EXCEPT ![h] = "failed"]
  /\ Goes(h, "idle")
  /\ UNCHANGED <<prefix, link, onPath, running, requests>>

(* Install *)

\* npm is not there, fails, or is killed with the connection.
NpmFails(h) ==
  /\ install[h] = "npm"
  /\ prefix' \in {prefix, FALSE}
  /\ Goes(h, "releaseFailed")
  /\ UNCHANGED <<link, onPath, running, told, requests>>

\* npm says it succeeded: the package may have no program of the CLI's name.
NpmInstalls(h) ==
  /\ install[h] = "npm"
  /\ prefix' \in BOOLEAN
  /\ Goes(h, "unlink")
  /\ UNCHANGED <<link, onPath, running, told, requests>>

\* linkBin: there is nothing to link to, ...
NothingToLink(h) ==
  /\ install[h] = "unlink" /\ ~prefix
  /\ Goes(h, "releaseFailed")
  /\ UNCHANGED <<prefix, link, onPath, running, told, requests>>

\* ... or the old link goes, ...
LinkRemoved(h) ==
  /\ install[h] = "unlink" /\ prefix
  /\ link' = FALSE
  /\ Goes(h, "link")
  /\ UNCHANGED <<prefix, onPath, running, told, requests>>

\* ... and the new one is made, unless the name is taken.
LinkMade(h) ==
  /\ install[h] = "link"
  /\ link' = TRUE
  /\ Goes(h, IF link THEN "releaseFailed" ELSE "check")
  /\ UNCHANGED <<prefix, onPath, running, told, requests>>

FinalCheck(h) ==
  /\ install[h] = "check"
  /\ Goes(h, IF Resolves THEN "releaseInstalled" ELSE "releaseMissing")
  /\ UNCHANGED <<prefix, link, onPath, running, told, requests>>

Releasing == {"releaseFailed", "releaseInstalled", "releaseMissing"}

\* Mutant: a failure returns without giving the entry back.
ReleaseOnSuccess(h) ==
  /\ install[h] \in Releasing
  /\ running' = (running /\ install[h] = "releaseFailed")
  /\ Goes(h, CASE install[h] = "releaseFailed" -> "failed"
               [] install[h] = "releaseInstalled" -> "installed"
               [] OTHER -> "missing")
  /\ UNCHANGED <<prefix, link, onPath, told, requests>>

\* release, deferred: on every way out.
Release(h) ==
  /\ install[h] \in Releasing
  /\ running' = FALSE
  /\ Goes(h, CASE install[h] = "releaseFailed" -> "failed"
               [] install[h] = "releaseInstalled" -> "installed"
               [] OTHER -> "missing")
  /\ UNCHANGED <<prefix, link, onPath, told, requests>>

\* tooling.done.
InstallDone(h) ==
  /\ install[h] \in {"failed", "installed", "missing"}
  /\ told' = [told EXCEPT ![h] = install[h]]
  /\ Goes(h, "idle")
  /\ UNCHANGED <<prefix, link, onPath, running, requests>>

InstallInit ==
  /\ prefix = FALSE /\ link = FALSE /\ onPath \in BOOLEAN
  /\ running = FALSE
  /\ install = [h \in Installers |-> "idle"]
  /\ told = [h \in Installers |-> "nothing"]
  /\ requests = 0

InstallNext ==
  \E h \in Installers :
    \/ InstallRequest(h) \/ Acquire(h) \/ AcquireRefused(h)
    \/ NpmFails(h) \/ NpmInstalls(h)
    \/ NothingToLink(h) \/ LinkRemoved(h) \/ LinkMade(h) \/ FinalCheck(h)
    \/ Release(h) \/ InstallDone(h)

InstallSpec == InstallInit /\ [][InstallNext]_installVars

-----------------------------------------------------------------------------
Installing(h) == install[h] \in {"npm", "unlink", "link", "check"} \cup Releasing

InstallTypeOK ==
  /\ prefix \in BOOLEAN /\ link \in BOOLEAN /\ onPath \in BOOLEAN /\ running \in BOOLEAN
  /\ install \in [Installers -> {"idle", "acquire", "npm", "unlink", "link", "check",
                                "failed", "installed", "missing"} \cup Releasing]
  /\ told \in [Installers -> {"nothing", "failed", "installed", "missing"}]
  /\ requests \in 0..MaxInstalls

\* One install at a time, and none refused for an install that is over.
OneInstall ==
  /\ Cardinality({h \in Installers : Installing(h)}) <= 1
  /\ running <=> \E h \in Installers : Installing(h)

\* Nobody is told that the install is done while the CLI is not there.
DoneMeansInstalled == \A h \in Installers : told[h] # "missing"

\* Why: the entry of the map has one holder, and what the holder has found or
\* made of the link stays until it gives the entry back.
InstallInv ==
  /\ InstallTypeOK
  /\ running <=> \E h \in Installers : Installing(h)
  /\ \A h, g \in Installers : Installing(h) /\ Installing(g) => h = g
  /\ \A h \in Installers :
       /\ install[h] = "link" => prefix /\ ~link
       /\ install[h] = "check" => prefix /\ link
       /\ install[h] \notin {"releaseMissing", "missing"} /\ told[h] # "missing"

\* Not so in the code: a CLI that was installed is found at any time, also
\* between the two halves of linkBin and after a killed npm.
StaysInstalled ==
  (\E h \in Installers : told[h] = "installed") => Resolves
=============================================================================
