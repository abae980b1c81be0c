------------------------------- MODULE MCServer -------------------------------
(***************************************************************************)
(* What the server does for its connections, checked side by side: a       *)
(* behaviour is one of a single component, chosen in the initial state.    *)
(* HostMutations has its own variables, which stay where they start while  *)
(* another is at work; the others take v1, v2, ... for theirs.             *)
(*                                                                         *)
(* Workers are the goroutines of whichever component is at work, and Items *)
(* the things they work on (frames, stream names, phones, files, ...).     *)
(***************************************************************************)
EXTENDS HostMutations, TLC

CONSTANTS
  Workers, Items,
  Ports, DefaultSsh, MaxChanges,                        \* Firewall
  Pids, MaxTicks,                                       \* ProcessKill
  Ids, Cap, FrameWindow, MaxFrameTime,                  \* ReplayGuard
  MaxGen,                                               \* HostStreams
  AuthCallers, EventSlots, MaxLogins, MaxWrites, MaxLines,
  Word, MaxSampleTime,                                  \* HostMetrics
  Nodes, Root, Above, Directories, Size, Blocklist, CacheDirs, TmpRoot, TmuxDirs,
  Excluded, Unremovable, LargeSize, MaxCreations,       \* Storage
  AlertKeys, RepairWindow, MaxRepairTime, MaxRepairEvents, MaxRepairRestarts,
  MaxPushes,                                            \* PushDelivery
  Reviewers, ListLimit, MaxRevision, MaxAudit,          \* ChangeReview
  NoProject, MaxProjectCrashes,                         \* Projects
  PageSize, MaxEntries, MaxOccurred,                    \* Journal
  MaxInstalls                                           \* Installs

VARIABLES
  part,        \* the component the behaviour is of: it never changes
  v1, v2, v3, v4, v5, v6, v7, v8, v9, v10, v11, v12

\* The tree that server.cfg gives Storage: an unprotected directory over two
\* protected ones, a cache with a large file, a temporary directory with a
\* terminal's socket.
HomeTree == [n \in Nodes |->
  CASE n \in {"data", "cache"} -> "home"
    [] n = "wheel" -> "cache"
    [] n = "home" -> "lib"
    [] n \in {"log", "junk", "tmux"} -> "tmp"
    [] n = "socket" -> "tmux"
    [] OTHER -> "/"]
HomeSizes == [n \in Nodes |-> CASE n = "wheel" -> 2 [] n = "junk" -> 1 [] OTHER -> 0]

Wall == INSTANCE Firewall WITH
  FwCallers <- Workers, backend <- v1, rules <- v2, saved <- v3, sshd <- v4, seesOwner <- v5,
  fwOp <- v6, closed <- v7, changes <- v8, active <- v9

Kill == INSTANCE ProcessKill WITH
  Killers <- Workers, table <- v1, ticks <- v2, kill <- v3, looked <- v4, bystander <- v5

Replays == INSTANCE ReplayGuard WITH
  Window <- FrameWindow, MaxNow <- MaxFrameTime, seen <- v1, lastGC <- v2, now <- v3, used <- v4

Streams == INSTANCE HostStreams WITH
  Clients <- Workers, Names <- Items, what <- v1, connected <- v2, entry <- v3, stream <- v4,
  toldDone <- v5

Auth == INSTANCE CliAuth WITH
  kind <- v1, running <- v2, made <- v3, login <- v4, captive <- v5, events <- v6,
  answer <- v7, file <- v8, writes <- v9, row <- v10, authCall <- v11, signedIn <- v12

Metrics == INSTANCE HostMetrics WITH
  Samplers <- Workers, MaxClock <- MaxSampleTime, clock <- v1, busy <- v2, rx <- v3, received <- v4,
  active <- v5, last <- v6, sampler <- v7, report <- v8, overtaken <- v9

Disk == INSTANCE Storage WITH
  Users <- Workers, disk <- v1, aged <- v2, lastScan <- v3, use <- v4, report <- v5,
  cleaned <- v6, creations <- v7

Books == INSTANCE Runbooks WITH
  Handlers <- Workers, Window <- RepairWindow, MaxNow <- MaxRepairTime,
  MaxEvents <- MaxRepairEvents, MaxRestarts <- MaxRepairRestarts, now <- v1, lastFired <- v2,
  handler <- v3, cards <- v4, runbooks <- v5, announced <- v6, runs <- v7, asks <- v8,
  events <- v9, restarts <- v10

Push == INSTANCE PushDelivery WITH
  Publishers <- Workers, Devices <- Items, MaxEvents <- MaxPushes, subs <- v1, fanout <- v2,
  registered <- v3, uninstalled <- v4, prefs <- v5, failures <- v6, events <- v7

Review == INSTANCE ChangeReview WITH
  Files <- Items, work <- v1, index <- v2, head <- v3, audit <- v4, tokens <- v5,
  reviewer <- v6, came <- v7

Space == INSTANCE Projects WITH
  ProjectIds <- Items, Connections <- Workers, MaxCrashes <- MaxProjectCrashes, project <- v1, dir <- v2,
  sessionRows <- v3, agents <- v4, call <- v5, left <- v6, crashes <- v7

Pages == INSTANCE Journal WITH
  Readers <- Reviewers, journal <- v1, cursor <- v2, pages <- v3, begun <- v4

Tools == INSTANCE Installs WITH
  Installers <- Workers, prefix <- v1, link <- v2, onPath <- v3,
  running <- v4, install <- v5, told <- v6, requests <- v7

\* Bounds are numbers, and the sets that are counted are finite.
ASSUME ServerBoundsAssumption ==
  /\ {MaxFrameTime, FrameWindow, Cap, MaxGen, MaxLogins, MaxWrites, MaxLines, EventSlots, MaxSampleTime,
      Word, MaxCreations, MaxRepairEvents, MaxRepairRestarts, RepairWindow, MaxPushes, MaxAudit,
      MaxProjectCrashes, MaxEntries, MaxOccurred, MaxInstalls} \subseteq Nat
  /\ {MaxRepairTime, PageSize, MaxRevision} \subseteq Nat \ {0}
  /\ IsFiniteSet(Ids) /\ IsFiniteSet(Items)

\* 22 is a port; there are processes, and alerts.
ASSUME SomethingThereAssumption == DefaultSsh \in Ports /\ Pids # {} /\ AlertKeys # {}

\* The kernel's words do not wrap in the time that is modelled.
ASSUME WordAssumption == MaxSampleTime < Word

\* Nothing protected is under a directory of caches, except for that directory,
\* and no protected file is in the temporary directory, which is no terminal's.
ASSUME TreeAssumption ==
  /\ Root \in Nodes /\ TmpRoot \notin TmuxDirs
  /\ \A d \in CacheDirs : Blocklist \cap Disk!Under(d) \subseteq {d}
  /\ Blocklist \cap Disk!Files \cap Disk!Under(TmpRoot) = {}

shared == <<v1, v2, v3, v4, v5, v6, v7, v8, v9, v10, v11, v12>>
serverVars == <<part, hostVars, shared>>

\* HostMutations at rest.
HostIdle == HostInit /\ request = [kind |-> "docker", verb |-> "restart", target |-> "ordinary"]

OtherInit ==
  \/ part = "firewall" /\ Wall!FirewallInit /\ v10 = 0 /\ v11 = 0 /\ v12 = 0
  \/ part = "process" /\ Kill!ProcessInit /\ v6 = 0 /\ v7 = 0 /\ v8 = 0 /\ v9 = 0 /\ v10 = 0
        /\ v11 = 0 /\ v12 = 0
  \/ part = "replay" /\ Replays!GuardInit /\ v5 = 0 /\ v6 = 0 /\ v7 = 0 /\ v8 = 0 /\ v9 = 0
        /\ v10 = 0 /\ v11 = 0 /\ v12 = 0
  \/ part = "streams" /\ Streams!StreamsInit /\ v6 = 0 /\ v7 = 0 /\ v8 = 0 /\ v9 = 0
        /\ v10 = 0 /\ v11 = 0 /\ v12 = 0
  \/ part = "auth" /\ Auth!AuthInit
  \/ part = "metrics" /\ Metrics!MetricsInit /\ v10 = 0 /\ v11 = 0 /\ v12 = 0
  \/ part = "storage" /\ Disk!StorageInit /\ v8 = 0 /\ v9 = 0 /\ v10 = 0 /\ v11 = 0 /\ v12 = 0
  \/ part = "runbooks" /\ Books!RunbookInit /\ v11 = 0 /\ v12 = 0
  \/ part = "push" /\ Push!PushInit /\ v8 = 0 /\ v9 = 0 /\ v10 = 0 /\ v11 = 0 /\ v12 = 0
  \/ part = "review" /\ Review!ReviewInit /\ v8 = 0 /\ v9 = 0 /\ v10 = 0 /\ v11 = 0 /\ v12 = 0
  \/ part = "projects" /\ Space!ProjectsInit /\ v8 = 0 /\ v9 = 0 /\ v10 = 0 /\ v11 = 0 /\ v12 = 0
  \/ part = "journal" /\ Pages!JournalInit /\ v5 = 0 /\ v6 = 0 /\ v7 = 0 /\ v8 = 0 /\ v9 = 0
        /\ v10 = 0 /\ v11 = 0 /\ v12 = 0
  \/ part = "install" /\ Tools!InstallInit /\ v8 = 0 /\ v9 = 0 /\ v10 = 0 /\ v11 = 0 /\ v12 = 0

ServerInit ==
  \/ part = "host" /\ HostInit /\ v1 = 0 /\ v2 = 0 /\ v3 = 0 /\ v4 = 0 /\ v5 = 0 /\ v6 = 0
        /\ v7 = 0 /\ v8 = 0 /\ v9 = 0 /\ v10 = 0 /\ v11 = 0 /\ v12 = 0
  \/ HostIdle /\ OtherInit

OtherNext ==
  \/ part = "firewall" /\ Wall!FirewallNext /\ UNCHANGED <<part, v10, v11, v12>>
  \/ part = "process" /\ Kill!ProcessNext /\ UNCHANGED <<part, v6, v7, v8, v9, v10, v11, v12>>
  \/ part = "replay" /\ Replays!GuardNext /\ UNCHANGED <<part, v5, v6, v7, v8, v9, v10, v11, v12>>
  \/ part = "streams" /\ Streams!StreamsNext /\ UNCHANGED <<part, v6, v7, v8, v9, v10, v11, v12>>
  \/ part = "auth" /\ Auth!AuthNext /\ UNCHANGED part
  \/ part = "metrics" /\ Metrics!MetricsNext /\ UNCHANGED <<part, v10, v11, v12>>
  \/ part = "storage" /\ Disk!StorageNext /\ UNCHANGED <<part, v8, v9, v10, v11, v12>>
  \/ part = "runbooks" /\ Books!RunbookNext /\ UNCHANGED <<part, v11, v12>>
  \/ part = "push" /\ Push!PushNext /\ UNCHANGED <<part, v8, v9, v10, v11, v12>>
  \/ part = "review" /\ Review!ReviewNext /\ UNCHANGED <<part, v8, v9, v10, v11, v12>>
  \/ part = "projects" /\ Space!ProjectsNext /\ UNCHANGED <<part, v8, v9, v10, v11, v12>>
  \/ part = "journal" /\ Pages!JournalNext /\ UNCHANGED <<part, v5, v6, v7, v8, v9, v10, v11, v12>>
  \/ part = "install" /\ Tools!InstallNext /\ UNCHANGED <<part, v8, v9, v10, v11, v12>>

ServerNext ==
  \/ part = "host" /\ HostNext /\ UNCHANGED <<part, shared>>
  \/ UNCHANGED hostVars /\ OtherNext

ServerSpec == ServerInit /\ [][ServerNext]_serverVars

\* The goroutines, and the things they work on, are interchangeable in every
\* component.
Symmetry == Permutations(Workers) \cup Permutations(Items)

-----------------------------------------------------------------------------
\* The type invariants of the components.
TypesOK ==
  /\ HostTypeOK
  /\ part = "firewall" => Wall!FirewallTypeOK
  /\ part = "process" => Kill!ProcessTypeOK
  /\ part = "replay" => Replays!GuardTypeOK
  /\ part = "streams" => Streams!StreamsTypeOK
  /\ part = "auth" => Auth!AuthTypeOK
  /\ part = "metrics" => Metrics!MetricsTypeOK
  /\ part = "storage" => Disk!StorageTypeOK
  /\ part = "runbooks" => Books!RunbookTypeOK
  /\ part = "push" => Push!PushTypeOK
  /\ part = "review" => Review!ReviewTypeOK
  /\ part = "projects" => Space!ProjectsTypeOK
  /\ part = "journal" => Pages!JournalTypeOK
  /\ part = "install" => Tools!InstallTypeOK

\* The guards that are read before they are relied on.  Firewall: no step shuts
\* a port sshd listens on.  ReplayGuard: a frame is not executed twice within
\* the replay window.  Storage: a protected path goes only with a directory
\* over it that was itself deleted.
GuardsHold ==
  [][ /\ part = "firewall" => Wall!KeepsSSH
      /\ part = "replay" => Replays!RunsRarely
      /\ part = "storage" => Disk!TakesFromAbove ]_serverVars

\* What the operator asked for was done, and nothing else.  Firewall: a socket
\* that security.fix closed stays closed for the audits of an active firewall.
\* ProcessKill: a process that was reported killed is gone, and no other was
\* signalled.  Storage: a cleanup of /tmp takes nothing that was not an old file
\* of it when it was listed.  Installs: one at a time, and done means that the
\* CLI is there.
ChangesAreAsAsked ==
  /\ part = "firewall" => Wall!FixedPortsClear
  /\ part = "process" => Kill!SuccessMeansGone /\ Kill!NoBystander
  /\ part = "storage" => Disk!CleanTakesOnlyJunk
  /\ part = "install" => Tools!OneInstall /\ Tools!DoneMeansInstalled

\* HostStreams: a stream that runs can be stopped by its name or its connection.
\* CliAuth: a captive CLI belongs to the login that is running, and a login is
\* reported successful for a credential stored since it began.
OwnersReachTheirs ==
  /\ part = "streams" => Streams!StreamsAreReachable
  /\ part = "auth" => Auth!CaptiveIsOwned /\ Auth!SuccessIsFresh

\* HostMetrics: no sample reports more traffic than there was, and a sample that
\* was not overtaken reports the CPU time of its own span.  Journal: a walk through
\* the pages gives every entry there was, once and in order.
ReportsAreTrue ==
  /\ part = "metrics" => Metrics!NoInventedTraffic /\ Metrics!CpuIsRightInOrder
  /\ part = "journal" => Pages!PagesAreComplete

\* From an alert to a person.  Runbooks: a repair is asked for once in a window,
\* and its cards and its runbook tell the same.  PushDelivery: every phone that
\* should be told is tried.
PeopleAreTold ==
  /\ part = "runbooks" => Books!AsksAreSpaced /\ Books!CardsHaveARunbook
  /\ part = "push" => Push!PhonesAreTold

\* ChangeReview: what a commit takes in by way of its check was approved as it is.
\* Projects: a workspace whose project is gone was left on purpose, or by a crash.
WorkIsExplained ==
  /\ part = "review" => Review!CommitsAreExplained
  /\ part = "projects" => Space!WipeCanBeRetried

\* security.go:461: "so a remediated port actually clears".  Not so: an inactive
\* ufw takes the rule and lists none.
RemediatedPortsClear == part = "firewall" => Wall!RemediatedPortsClear

\* storage_test.go:391: "AC: /tmp cleanup only touches regular files older than
\* the age threshold".  Not so: a file written after it was listed goes.
CleanTakesOnlyOld == part = "storage" => Disk!CleanTakesOnlyOld

\* github_test.go:201: "AC: Commit requires an approved change set (no committing
\* un-reviewed agent output)."  Not so: the commit takes the whole index.
CommitsOnlyApproved == part = "review" => Review!CommitsOnlyApproved

\* The same claim.  Not so: the names the check drops are added all the same.
CommitsOnlyNamed == part = "review" => Review!CommitsOnlyNamed

\* github_test.go:221: "approval must be bound to the reviewed revision, not just
\* to the path list."  Not so: a name without a revision matches a deletion.
CommitsOnlyReviewed == part = "review" => Review!CommitsOnlyReviewed
=============================================================================
