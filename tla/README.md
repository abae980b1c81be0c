# A TLA+ verification of rootmote-agent

`rootmote-agent` is a Go daemon that a phone talks to over a loopback WebSocket.
It keeps a SQLite store, runs AI coding agents as child processes, streams their
events to whoever subscribes, and mutates the host only on actions a human has
confirmed. This directory models the parts of it where the order of events
matters, checks them with TLC and proves the most important results with TLAPS.

## 1. Inventory

| Component | State | Operations | Hard behaviour | Correct when |
|---|---|---|---|---|
| Event log and live fanout (`sessions.go`, `store.go`) | `session_events` rows; `Manager.subs`, each with a channel of 256 and a `done` channel | `Publish`, `PublishExisting`, `publishEphemeral`, `Subscribe` and its cancel, `Delete` | append and fanout are not atomic; the subscriber set is snapshotted outside the lock; sends block | nothing lost, nothing twice, nothing wedged |
| WebSocket connection (`server.go`) | `connWriter` queue of 1024, the connection's context, the request-id cache | `enqueue`, `shutdown`, `writerLoop`, frame dispatch, `session.subscribe` | slow and vanishing clients, overflow, replayed frames | a reconnecting client catches up |
| Confirmation tokens, reviews (`review.go`) | `confirmation_tokens`, `audit_log` rows | `MintConfirmationToken`, `ConsumeToken`, `Approve`/`Reject`/`Revise` | read and mark are two statements; expiry; restart; append without audit | one token, one mutation |
| AI proposals (`aiproposal.go`, `server.go`) | in-memory proposals with a status | `Create`, `Get`, `Claim`, `Release`, `Resolve`; `infra.proposal.*` | approvals racing approvals and declines, early returns | an action runs at most once, paid for, audited |
| Session lifecycle (`sessions.go`, `claude_runtime.go`) | `sessions` rows, `procs`, the child processes | `Start`, `Resume`, `Fork`, `Stop`, `Delete`, reaper, `Rehydrate`, `onExit` | check-then-act on `Alive`; late exits; crash of the child or the agent | no live child is lost sight of; dead sessions end |
| Agent protocol (`claude_runtime.go`, `codex_runtime.go`) | pending control requests, approvals, standing rules | `sendControl`, `routeControlResponse`, `approve`, `interrupt`, handshake | timeouts and late answers; cancelled prompts | an answer reaches its own request, at most once |
| codex exec, terminal output, usage poll | one running turn; one poller; a buffer and a timer | `runTurn`, `Interrupt`, `Stop`; `Write`, `flush`, `Close` | flags set and cleared by two goroutines; timer against close | one turn at a time; bytes once and in order |
| Action jobs (`actions.go`) | `action_jobs`, `action_job_events` rows | `Submit`, `process`, `Cancel` | cancel against planning, unconditional UPDATEs, restart | a cancelled job stays cancelled; every job ends |
| Alerts, runbooks, notifications, push | alert state per key, throttle map, subscribers, devices | `Evaluate`, `enter`, `clear`, `Silence`, `Ack`; `Handle`; `Publish`; `Forward` | debounce, clear without enter, callbacks outside the lock | one page per episode, cleared once |
| CLI authentication (`cliauth.go`) | one running login per kind, credential files | `StartLogin`, `Send`, `Cancel`, `SetToken`, `Logout`, `Relay` | cancel, timeout and completion racing a new login | at most one login per kind; no stale cleanup |
| Firewall, processes, systemd, docker, storage, security | none of their own: they act on the host | guarded mutations, log and stat streams | host state sampled before it is used; pid reuse | guards hold when the host is touched |
| Projects, GitHub | `projects` rows, workspaces, the vault | `Create`, `Import`, `Delete`, `Commit`, push | rollback of a failed import; cascading delete; git commands between which the agent goes on | no orphan directory; what is committed was approved |
| Tooling (`tooling.go`) | the single-flight map, the link of each CLI | `Install`, `Check` | installs for several connections; a link taken away and made again | one install at a time; done means installed |
| Store (`store.go`) | SQLite, one connection | one statement or transaction per call | each call is atomic, sequences of calls are not | as its callers need |

Components interact in four ways. WebSocket handlers run one frame after the
other on a connection, and connections run concurrently. Handlers and runtimes
share rows in the store, with nothing locked across two calls. The runtimes call
back into `Manager.Publish` from their reader goroutines, and `Publish` hands
events to subscriptions over channels. Finally, every mutation of the host goes
through `review.ConsumeToken` first.

`PROJECT.json` lists every component with its status, and every hazard found in
the code at its line, with the properties that look for it or the reason why
none does yet.

## 2. Modules

| Module | Models |
|---|---|
| `SessionStream` | one session's log, publishers, subscriptions with their goroutines and forwarders, and `Delete` |
| `StreamClient` (extends it) | the connection's writer queue and a client that reconnects with its cursor |
| `ReplayGuard` | the request-id map of a server, with its TTL and its capacity |
| `ConfirmationTokens` | token rows, the clock, the two halves of `ConsumeToken`, a human-initiated caller |
| `ProposalApproval` (extends it) | proposals and the `infra.proposal.*` handlers, step by step, with a restart |
| `ConfirmedExecution` | the abstract promise: an action runs at most once, on a token of its own |
| `HostMutations` (extends `ConfirmationTokens`) | every guarded frame from its token to its answer and audit row, with lost answers, retried frames and crashes |
| `Firewall`, `ProcessKill`, `Storage` | what three kinds of guarded action do to a host that changes under them |
| `SessionLifecycle` | session rows, `procs`, child processes, handlers of two connections, reaper, restart |
| `AgentControl` | the protocol with a structured agent: approvals, control requests, turns (`claudeConn` and `codexConn`, which one is chosen in the initial state) |
| `CodexExec` | one process per turn: `runTurn`, the end of a turn, `Interrupt`, `Stop`, `SetMode` |
| `TerminalOutput` | from a tmux pane through fifo, `scanPipe` and the coalescing writer to the log, with a restart |
| `UsagePoll` | the poller of a terminal session's token total, started and stopped by other goroutines |
| `ActionJobs` | job rows, trail, the job's goroutine, cancellers, restart |
| `Alerts` | the evaluation of the three rules key by key, active alerts, silences, acks, pages, restart |
| `Runbooks` | from an alert to a drafted repair: throttle, proposer, proposals, runbook, announcement, restart |
| `PushDelivery` | from a notification to the phones, registrations and pruning meanwhile |
| `CliAuth` | the one login of a CLI, the captive CLI, its credential file and the stored token |
| `HostStreams`, `HostMetrics` | the streams of docker and host metrics under the names clients choose; the samples they carry |
| `ChangeReview` | work tree, index and HEAD of a project, decisions, commits, and the agent that goes on writing |
| `Projects` | rows and workspaces of projects, the sessions in them, crashes |
| `Installs` | `tooling.install`: single flight, npm, the link, the answer |
| `Journal` | the project journal and its pages |
| `SessionStreamProofs`, `ProposalApprovalProofs`, `AlertsProofs`, `ActionJobsProofs`, `HostMutationsProofs` | theorems about the module they are named for, `SessionStreamProofs` about `StreamClient` too |
| `AgentsProofs` | theorems about `SessionLifecycle`, `AgentControl`, `CodexExec`, `TerminalOutput` and `UsagePoll`, and about the five side by side (`MCAgents`) |
| `HostServicesProofs`, `ServerProofs` | theorems about the thirteen components that `MCServer` puts beside `HostMutations`, and about all fourteen side by side |
| `MCLiveness`, `MCAgents`, `MCServer` | several components side by side: a behaviour is one of a single component, chosen in the initial state. The modules they extend keep their own variables; the others are instances that share `v1`, `v2`, ..., and what each one takes for its variables is in the `INSTANCE`. The theorems are about the very properties their runs check |
| other `MC*` | instances for TLC |

How state and steps correspond to the code:

* A step is what runs between two points where another goroutine can get in: a
  lock release, a channel operation, a database call, a call that waits for a
  process. `Publish` is therefore `AppendEvent` and then `FanoutSnapshot` and one
  `FanoutSend` or `FanoutSkip` per subscriber. `ConsumeToken` is `Check` and then
  `MarkUsed` or `LostRace`. `Resume` is `ResumeGet`, `ResumeLive` or `ResumeDead`,
  `Reopen` and `Spawn`.
* A `pc`-like variable (`pc`, `spc`, `step`, `cstep`) says where a goroutine is.
  Local variables that outlive a step are state (`cur`, `targets`, `replay`,
  `maxReplayed`, `held`, `found`); everything else is not.
* A `select` with several ready cases is a choice between actions.
* Rows survive `Restart`; goroutines, child processes and maps do not.
* History variables record what happened and guide nothing: `emitted` (what a
  subscription sent), `seen`, `grants`, `runs`, `early`, `overlapped`,
  `unannounced`, `paged`, `excused`, `run`, `touched`, `closed`, `bystander`,
  `raced`, `came`, `cleaned`, `renewed`, `crossed`, `left`, `late`, `promptsOverlapped`, and others that their comments call history.
* What the outside does on its own (sshd moves, a pid is used again, a CLI exits,
  the agent stages a file, npm is killed) is an action too, marked external in
  `PROJECT.json`.
* Left out everywhere: payloads, wording, JSON, and errors of a healthy database
  (one that fails a statement in the middle of a handler), except where the code
  handles the failure in a way that matters (the audit row of a decision, a
  spawn that fails, a session row that is gone).

Some operators are marked *Mutant*: each is a plausible bug (a dropped guard, a
missing reset, an order reversed) of the definition that follows it. Nothing
refers to them; put in the place of that definition they make a property fail,
as `PROJECT.json` records for every property.

## 3. Runs

All bounds are constants named in the modules; channels of one slot make every
send block, which capacities of 256 and 1024 only do after a long run.

| Run | Shows | Bounds |
|---|---|---|
| `stream` | no event twice, none below the cursor, none lost on the way to a live subscription; publishers and subscriptions always get out | 2 publishers, 1 subscription, 2 persisted events (one may be a retired `ask_question` row), 1 delta, 1 decision without audit row, a `Delete` |
| `client_reconnect` | with one publisher a reconnecting client misses nothing and sees events in order | 2 connections, 2 events, queue of 1 |
| `approval` | tokens are single-use; a run is paid for, audited and happens once; statuses tell the truth; nothing stays executing; the handlers implement `ConfirmedExecution` | 2 handlers, 1 proposal, 2 tokens, 2 hashes, expiry, 1 restart |
| `alerts` | pages alternate; counts debounce exactly; an evaluation leaves active what it has read for long enough; the alert of a unit that stays failed comes and stays, that of one that stays healthy goes and stays away | one key of each rule, 2 polls to debounce, 2 episodes, 1 restart; in one behaviour one key misbehaves (`Focus`), since keys share only the evaluation's loop |
| `liveness` | a session without a child ends; a client that stays gets everything, or is disconnected; a job no restart interrupts ends, and row, trail and notification of a job agree | 2 connections on 1 session, 2 children, 1 restart; 1 client connection, 3 events; 1 job, 2 cancellers, 1 restart |
| `agents` | the properties of the five components that keep agents running (below) | 2 of everything: sessions, children, connections, approvals, control requests, turns; 4 pieces of output; 1 restart |
| `server` | the properties of the fourteen components that serve a connection's frames (below) | 2 goroutines, 2 things they work on, 1 crash or restart; the others are constants with their values in `server.cfg` |

In `agents`, `server` and `liveness` a behaviour is one component's, and a property
is what that component promises, or the conjunction of what several do, each for
its own behaviours:

| Property | Component | Promise |
|---|---|---|
| `JobsAreHonest` (`liveness`) | `ActionJobs` | an early cancel wins; row and trail agree; one notification, for the outcome |
| `NoOrphan`, `AliveIsHonest` | `SessionLifecycle` | no child is lost sight of as long as two connections are not at work on one session; `Alive` is honest even if they are |
| `AsksAreServed` | `AgentControl` | a request of the agent for approval is unread, or on the phone, or being answered, or settled |
| `AnswersMatch`, `TurnIsCurrent` | `AgentControl` | an answer reaches its own request, late or not; `Interrupt` aims at the newest turn |
| `ConversationHolds` | `CodexExec` | a session object has one turn at a time, which can be interrupted, each in the context of those before; the session, whatever objects it had, has one turn that nobody cancelled, and the map leads to it, unless a `Stop` crossed the prompt that started it |
| `OutputIsKept` | `TerminalOutput`, `UsagePoll` | the pane's bytes once and in order; every total announced once, the row has the last; no poller outlives its session |
| `TapsAreSafe`, `TrailMatchesHost` | `HostMutations` | one tap changes the host at most once, a refusal changes nothing; audit and host agree, a crash in between excepted |
| `GuardsHold` | `Firewall`, `ReplayGuard`, `Storage` | no step shuts a port that was sampled as sshd's; no frame runs twice within the window, unless as many others as the map holds came after it; a protected path goes only with a directory above it |
| `ChangesAreAsAsked` | `Firewall`, `ProcessKill`, `Storage`, `Installs` | a fixed port is not flagged again while the firewall is active and has reloaded; a process reported killed is gone and no other was signalled; a cleanup of old temporary files takes none that was fresh when listed and none of a live terminal; one install at a time, and done means installed |
| `OwnersReachTheirs` | `HostStreams`, `CliAuth` | a running stream can be stopped by its name or its connection; a captive CLI has a login, and a success a credential newer than it |
| `ReportsAreTrue` | `HostMetrics`, `Journal` | no invented traffic, right CPU shares for samples in order; a walk through the pages is complete and in order |
| `PeopleAreTold` | `Runbooks`, `PushDelivery` | repairs are asked for once in a window, and every card has its runbook; every phone that should be told is tried |
| `WorkIsExplained` | `ChangeReview`, `Projects` | what a commit takes in through its check was approved as it is; no workspace without a project but for a named reason |
| `TypesOK` | all of them | types |

Why the bounds are enough to be interesting: duplicates and losses at the
replay/live boundary need one event in the replay and one in flight; an overtaken
event needs two; a reconnection needs two connections. A double run needs two
handlers and two tokens; a stale token another hash, and a restart. A late
`onExit` needs a child and its successor, a late answer a second request, a stale
cleanup a third generation (`MaxGen`), an eviction a third id beside a map of two,
a tie at the boundary of two pages three entries. A commit needs one file whose
revision is approved and another that comes in beside it, a fresh file a cleanup that
has listed it while it was old. One restart reaches every state
a second one could, since nothing but rows survives it.

Components that share a run do not interact there; where they do interact in the
code, one module models the interaction (`HostMutations` with the tokens,
`StreamClient` with the stream, `UsagePoll` with `Start` and `Stop`). The type
invariants of `SessionStream`, `ProposalApproval`, `Alerts` and `ActionJobs` are not
run: they are theorems.

Symmetry is used only in runs without temporal properties, over identities that
run the same code. Deadlock checking is off in every run: when the bounds are
used up and everybody has left, the system rests.

### Disagreements between code and documentation

Each of these runs checks one sentence of the repository and finds it violated.

* `client_two_publishers`: **two publishers of one session overtake each other.**
  `Publish` appends under a transaction and fans out later. A subscriber can be
  given event 2 before event 1; if the connection is lost in between, the client
  reconnects with cursor 2 and event 1 is never sent to it. `InOrder` fails in the
  same way ("observe the review decision in order", `review.go:278-279`). This is
  why `client_reconnect` has a single publisher: with one it holds.
* `approval_decline_race`: **a declined proposal runs.** `Resolve` accepts a
  proposal that another handler is executing.
* `session_two_resumes`: **two resumes start two children.** The second one's
  entry replaces the first one's, which can no longer be stopped.
* `jobs_cancel_race`: **a cancelled job is revived.** The checks and the writes
  of `process` are separate statements.
* `commit_takes_staged`: **a commit takes in what nobody approved.** `git commit`
  takes the whole index.

More are recorded in `PROJECT.json` without a run. Where the modules state the
sentence as a formula, TLC refutes it in an instance of that module:

* `JobsSurviveRestart` (`ActionJobs`, under `FairSpec` with a restart): jobs that
  were in flight are not taken up again.
* `CursorSkipsNothing` (`StreamClient`, with `MaxAuditFailures = 1`): the event of a
  decision whose audit row failed is in the log but announced to nobody, and the next
  event takes the client's cursor past it for good.
* `CommitsOnlyNamed` (`ChangeReview`): the check of a commit drops the names `.`,
  `/...` and `..`, and `git add` gets the list as it was sent: what nobody approved is
  added.
* `CommitsOnlyReviewed` (`ChangeReview`): a file that had no change when it was
  approved, along with one that had, has no revision, and neither has a deleted file; a
  map in Go gives the same empty string for both, so the approval passes for a deletion.
* `RemediatedPortsClear` (`Firewall`): an inactive ufw takes the deny rule of a fix
  and lists no rules afterwards, so that the fixed port is flagged by every audit.
* `CleanTakesOnlyOld` (`Storage`): the age of a file is looked at when it is listed,
  and not again when it is removed.
* `AckSticks` (`Alerts`): a late acknowledgement undoes a newer one.
* `AnyRemovalGuarded` (`Firewall`): the removal of a deny rule shuts the SSH port
  on firewalld.
* `ModeApplies` (`CodexExec`): a mode set after the first turn changes nothing.
* `StreamsAfterRestart`, `ToolCallsCountedOnce` (`TerminalOutput`): after a
  restart an idle pane is not streamed any more, and the screen is counted again.
* `FollowedAfterRestart`, `NoLatePoller` (`UsagePoll`): after a restart nobody
  follows the tokens of a session, and a session ended while it starts leaves a
  poller behind.
* `PastedTokenKept` (`CliAuth`): a login that succeeds deletes a token pasted
  meanwhile.
* `DoneIsCurrent` (`HostStreams`): the end of a replaced stream is told under the
  name of the new one.
* `CpuIsAShare`, `RateIsOfItsSpan` (`HostMetrics`): samples overtake each other,
  and an interval without interfaces is left out of the next rate's span.
* `ReclaimableIsReal`, `ProtectedSurvive` (`Storage`): large files are counted
  twice and after they are gone; the deletion of an unprotected directory takes
  protected ones below it.
* `AgentsHaveRows` (`Projects`): agents outlive the rows of a deleted project.
* `StaysInstalled` (`Installs`): between the two halves of a new link, and after
  an npm that was killed, the CLI is not found.

What the `server` run checks instead says what it leaves out. `CommitsAreExplained`
leaves out what goes round the check of a commit (`came` tells the ways apart: staged by
the agent, a dropped name, a write after the check had read the file, which no lock
prevents), and takes the deletion of a file that an approval names as approved.
`FixedPortsClear` leaves out an inactive ufw, `CleanTakesOnlyJunk` a file that was
written after it was listed. The five formulas above were refuted in the instances of
`server.cfg` and `client_reconnect.cfg`, each put in the place of the invariants there.

Observed while modelling, without a run of their own:

* A decision whose audit append fails leaves a persisted event that live
  subscribers get only when they reconnect (`unannounced` in `SessionStream`).
* `Subscribe` checks the session before it registers. A `Delete` in between
  leaves a subscriber registered for a session that is gone until its connection
  ends.
* The reaper may mark a session ended whose `Start` has inserted the row and not
  yet entered the child, or which `Resume` is restarting: an ended row with a
  live child.
* `Delete` or `Stop` of a session that another connection is starting or resuming
  can leave a running child that no row or map entry leads to. `NoOrphan` excepts
  the sessions two handlers have been at work on at once, and only those.
* A silence that ends while its alert is active lets the page of the end through
  although the one of the start was suppressed, and an alert that started during a
  silence is never paged afterwards. A rule that is disabled, or an agent that is
  restarted, forgets active alerts without a page (`excused` in `Alerts`).
* A disk whose mount disappears keeps its alert for as long as it is gone.
* The log entry of a raw docker stream shorter than a frame header is lost
  (`docker.go:1324`).
* The map of request ids is lost with the agent, and a frame that failed, or is
  still running, is answered as a successful replay (`server.go:261-277`).
* Two overlapping prompts to codex leave the id of the older turn behind; a
  `Stop` that meets a prompt leaves a `codex exec` turn that nothing reaches, and that
  goes on beside the turns of the same thread once the session is resumed (`crossed`
  in `CodexExec`).
* A request for approval whose translation fails after it was recorded
  (`claude_runtime.go:96-100`) waits in the map without having been shown.
  `AgentControl` has no such failure.
* A proposal's run is counted when the handler calls the manager, which may still
  refuse before it touches the host: `runs` in `ProposalApproval` may be more than
  what was done.
* An approval of changes is not bound to the session, and a rejection after it
  leaves it standing.
* The hub's push subscriber is registered after the alert manager has started
  (`main.go`), so that the first page may reach no phone.
* The poller compares input and output only: a turn that changes nothing but the
  cache count is not mirrored (`usage.go:75-77`).
* The journal and the inbox of the store have no caller outside tests.
* `OnEnd` would be called twice for a session stopped while the reaper is
  looking at it; `main` sets no such hook.

## 4. Fairness

Liveness is claimed under weak fairness of the steps of goroutines that are
already running, and of nothing else: no client, human or child process has to do
anything. Go's scheduler runs every runnable goroutine, and a `select` that stays
ready is taken.

* `SessionStream`: publishers in fanout, subscription goroutines, forwarders.
  `StreamClient` adds the writer loop: a write to a client that is still there
  returns. The client may go away at any time; a write to a stalled one is
  represented by the writer that stands still until the connection ends.
* `ProposalApproval`: handlers finish what they began. The managers' calls return.
* `SessionLifecycle`: handlers, the reaper's ticks, `cmd.Wait` of an exited
  child, and the exit of a child whose context was cancelled (it is killed). A
  child that was not cancelled may run for ever.
* `ActionJobs`: the job's goroutine and its planner, and cancellers.
  `MCLiveness` states these three for the behaviours of each component.
* `Alerts`: the evaluation. Its ticker never stops and its calls return.

## 5. Proofs

TLC checks the instances above. The theorems hold for every number of publishers,
subscriptions, tokens, handlers, sessions, goroutines and whatever they work on, for
every capacity, window and bound, under the assumptions named in the modules: the
distinguished values are not members of the sets, capacities are positive, hashes
are not empty, a file has at least one revision. Every safety property that a passing run checks
is a theorem; the liveness properties are not (see the end of this section).

Two modules ask for a little more, which `MCServer` names. The counters of
`HostMetrics` do not reach the kernel's word in the time that is modelled
(`WordAssumption`; 2^64 in the code). And the host's directories are laid out as the
storage manager takes for granted (`TreeAssumption`): nothing it protects is inside a
directory of caches, except for such a directory itself, and no protected file is in
the temporary directory. That is so for system directories and default settings. A host
that puts its data directory or a path of `ExtraProtected` there is not covered by
`TakesFromAbove`, because cleaning a category does not look at the list.

`SessionStreamProofs` proves `TypeOK`, `NoDuplicate` and `NothingAlreadySeen`.
Neither of the latter is inductive: whether a live event is a duplicate depends on
what is still in the subscription's channel, in the hands of publishers and in the
replay. The invariant `IInv` says where an event with a given `seq` can be at once.
To one subscription it is in at most one of a publisher's hands, the live channel
and the goroutine's hand (`PublisherInv`, `ChannelInv`, `HeldInv`); the replay is
ascending, above the cursor and above everything already out (`ReplayInv`); and an
event that is out, yet still in a publisher's hands or in the channel, is at or
below the high-water mark, so the goroutine will drop it (`ChannelInv`,
`EmittedInv`). One lemma per action shows that `IInv` is preserved.

`ProposalApprovalProofs` proves `TypeOK` and the five other invariants of the
`approval` run, and that every step is a step of `ConfirmedExecution` or a
stutter. Its `IInv` says that a claimed proposal has one holder among the handlers, is
executing or declined meanwhile, and has run if and only if that holder ran it
(`HolderInv`); that accepted tokens are used, and accepted once (`GrantsUsed`); and
that a handler that was granted a token owns it, no run and no other handler having
it (`GrantInv`). With that, `Execute` is a `Run` of `ConfirmedExecution` and every
other step leaves `runs` alone.
`BoundInv` ties a run's token to the hash it was minted for, and `ServedInv` an
executing status to its handler.

`AlertsProofs` proves `TypeOK` and the four other safety properties of the `alerts`
run, for any disks, units, debounce lengths and bounds. The code keeps one counter per
key and resets it in several places; the history `run` records what was really
read. The invariant relates the two: a counter is the length of the run of
readings against the state of the alert, less the reading this evaluation has not
come to yet (`LoadInv`, `UnitInv` with `Uncounted`), from which both `Debounced`
and `EvaluationSettles` follow. `PageInv` relates the last page about a key to its
state and to the notification on its way, which gives `PagesAlternate`; `RoomInv`
says which keys the evaluation may still raise, so that `fired` stays within its
bound.

`SessionStreamProofs` also proves `NoEventLost`, from a second group of invariants,
`LossInv`. An event that a registered subscription is owed is in the replay, in the
channel, in the goroutine's hand, in those of a publisher, or out (`KeptInv`). The
goroutine drops what the high-water mark covers, which is safe because all of that is
out (`MarkInv`) and the replay leaves nothing out between the mark and its end
(`SnapshotInv`). `RegisteredInv` says that a registered subscription has its
goroutine, as long as nobody closed it.

Its last part is about `StreamClient`, the stream seen by a client that comes and
goes. Both theorems need a single publisher, as the `client_two_publishers` run
shows. `InOrder` rests on `OrderInv`: what is out for a subscription comes before what
is in the goroutine's hand, that before the channel, that before the event being
published; only the replay overlaps with it, below the mark. `ReconnectLosesNothing`
is about the cursor, which a new connection takes as the place to replay from. It
never goes beyond what the client has in full (`Caught`, `CursorInv`), because what
is put out has no gap above the cursor (`GapInv`), the frames still queued are the
last ones taken (`QueueInv`), and the client has those written before (`SeenInv`).
It also needs that no audit append fails (`MaxAuditFailures = 0`, `ServedInv`):
such a decision's event is stored but announced to nobody, so that a subscribed client
does not have it and it is not on its way.

`ActionJobsProofs` proves `TypeOK` and `JobsAreHonest`, whole and in its three parts.
`OwedInv` names, for every status, who still owes its event to the trail; `StepInv`
what the trail of a job can hold where its goroutine is; `EarlyInv` where a job can
be that was cancelled before it was looked at.

`HostMutationsProofs` proves `HostTypeOK`, `TapsAreSafe` and `TrailMatchesHost`. A
retried frame whose id was forgotten is executed again, so nothing in memory makes
one tap act once: the row of its token does (`GrantInv`, `TouchedInv`), and a frame
always carries the same one (`ServeInv`). The host may be ahead of the trail by the
changes whose connections died between the two; `LostInv` bounds their number by
connections times crashes, which is where the proof needs `Callers` to be finite and
the lemmas about `Cardinality`.

`AgentsProofs` proves, of `SessionLifecycle`, `TypeOK`, `AliveIsHonest` and
`NoOrphan`. `NoOrphan` is not inductive because `Spawn` overwrites the entry of the map, `Stop` forgets it
and `Delete` takes the row away, all on what was seen some steps earlier. `HandlerInv`
says what that is still worth for a session only one handler is at work on, whatever
the reaper and late exits do meanwhile; `OwnerInv` ties processes to rows and `WorkInv`
handlers to sessions.

Of `AgentControl` it proves `ControlTypeOK`, `AsksAreServed`, `AnswersMatch` and
`TurnIsCurrent`, for both protocols. All of them depend on the lines the child wrote
and the reader has not read. The invariants speak of these as a set, `Lines`: who may
still answer a request (`AskInv`), which control request a reply belongs to and that
its number is not given twice (`CallInv`). Only turns need the order of lines, as
the reader keeps the last one it reads (`TurnInv`, and `PromptInv` for the turn that
`Interrupt` would take, unless two prompts were under way at once).

Of `CodexExec` it proves `ExecTypeOK` and `ConversationHolds` (`ConversationInvariant`). The argument follows
session objects rather than the entry of the map, because a handler may hold an
object a `Stop` has forgotten: the flag `running` and the turn it stands for agree
for every object (`Running`), and an object has one thread in its life (`ThreadInv`),
so what its turns reported and resumed is the thread it has now. Across the
objects of a session, an uncancelled turn that no `Stop` crossed is in the one the map
leads to, and a `Stop` at work has found that one and not come to cancelling it
(`Reachable`).

Of `TerminalOutput` it proves `BytesInOrder`. Whoever reads the pane has all of it: what
is in the log, in the buffer and in the fifo are, one after the other, the pane's bytes
from where the pipe was opened, and a reader loses its pipe only with the pane
(`ReaderIsSound`). A buffer that is not empty has a timer or a late flush to come, its
writer is not closed, and a new writer is empty until its pipe is open
(`WriterIsSound`). That joining sequences is associative is all it needs of them. Of
`UsagePoll` it proves what `OutputIsKept` says: what was announced is behind what the
poller works on, which is behind the transcript (`CountFollows`), and whoever ends the
session after the poller was started finds the poller's channel (`EndIsHeard`).

`MCAgents` runs the five side by side, and `MCServer` the fourteen. A step is one of the
component at work (`StepIsOfItsPart`), so the invariants of the whole (`AgentsInv`,
`ServerInv`) say that a component has its own invariant while it is at work, and those
with variables of their own at all times. With them `TypesOK`, `OutputIsKept` and
every property of the `server` run are theorems. The invariants of the thirteen, each in its module:

* `FirewallInv`: a change that waits for the backend was let through by the guard for
  the ports sampled then; a port that a fix closed is closed by the kept rules
  (`KeptClosed`), whether ufw lists them or not, and only the step of the call itself
  changes them for its caller.
* `ProcessInv`: a start time is given once, so a pid that had the requested process at a
  look has that one, none, or a newer one ever after (`NamedOrNewer`), and a signal goes to
  what was just looked at.
* `StreamsInv`: the entry of a name is the stream of that name that runs and was not
  cancelled; what it holds otherwise is a stream of that name that has not been forgotten.
* `MetricsInv`: the last sample, and every reading under way, is what the counters were at
  some time (`LastIsSound`, `ReadingIsSound`); counters rise, and samples that were not
  overtaken are in order.
* `StorageInv`: a deletion past the guard has a path that is not protected, a cleanup the
  files of the temporary directory it found outside the `tmux-*` ones, each of which is
  still old or was written since.
* `InstallInv`: the entry of the map has one holder, and what the holder found or made of
  the link stays until it gives the entry back.
* `GuardInv`: what the map holds is when an id was used; an id it lost is a window old, or
  has as many others used after it as the map takes (`UsedSince`). This counts: it needs
  a finite set of ids and the lemmas about `Cardinality`.
* `AuthInv`: a login at work is the one in the map, a captive CLI is its own, and a
  credential that is there once it has cleared the old one was stored since it began.
* `RunbookInv`: a claim of a key is the last repair it asked for (`ClaimIsLast`), and a
  handler has filed a card for each step it is through with (`HandlerIsSound`).
* `PushInv`: a phone still owed a notification is on the list of whoever sends it, or was
  struck off for good, and only a token the relay refused is struck off (`DueIsListed`).
* `ReviewInv`: what a handler listed are approvals of the trail; a file its check has read
  still is what it read, or was written late; so what is about to be added, and what is
  in the index by way of a check, was approved.
* `ProjectsInv`: one call makes a project and the others wait until it is listed; the
  directory a wipe took is gone before the row is.
* `JournalInv`: the cursor is that of the last entry given, and what a reader has still to
  see of what was there when it began is below it (`WalkIsSound`).

`GuardsHold` is an action property: `GuardsHoldAlways` shows that no step from a state
with `ServerInv` can break it.

Every invariant was checked by TLC before it was proved.

Only model-checked:

* all liveness properties (`FanoutReturns`, `SubscriptionEnds`, `NotLeftExecuting`,
  `UnitsAreFollowed`, `DeadSessionsEnd`, `CatchesUp`, `JobsFinish`): fairness and
  `ENABLED` are outside the prover's reach;
* what a fold computes for every input, such as the sums of sizes in `Storage`: that is
  induction over data. No theorem rests on it;
* the `violation` runs, and the formulas of section 3 that TLC refutes.

## 6. Order of work, and what is left

The modules were written in the order of section 2: the stream, tokens and
approvals first, then lifecycle, jobs and alerts, then what the agents say and
what the guarded actions do, then the rest; the proofs in the same order. None of the
modules has a RECURSIVE operator, and each invariant is a conjunction of named
parts. What a next step would be about: the five hazards of `PROJECT.json` that no
property covers, each with the reason there, and the parts below.

### Not modelled

* The protocol translators, the host planner, parsers of command output and of
  CLI screens, the codecs: stateless, and covered by the repository's fixtures.
* HTTP clients (GitHub, docker, FCM) and git beyond the commands of `Commit`.
* Keys sent to tmux, and the advancer of claude's first-run screens.
* GitHub logins and the relays of `cliauth`, which share `StartLogin` with the
  modelled kinds.
* The read-only frames (listings, inventory, findings other than the firewall's)
  and the queries of the store that only read; the pairing check; migrations.
* Skills, version, flags and packaging.
