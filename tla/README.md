# TLA+ specifications of Palmagent

Palmagent is a self-hosted server that runs coding agents (the Claude and Codex
CLIs) on behalf of a user who watches and steers them from a phone. These
modules specify the parts of it that decide *whether an agent runs, how often,
who owns it, what becomes of a message and what the reader sees of it*: the
execution registry with its host processes, the turns of a task in the web
process, the daemon that keeps hosts and services alive, the routine runtime,
and the conversation as it is stored, streamed and shown. Paths below are
relative to the repository root; "server" is `apps/server/src`.

## 1. Inventory

| Component | State it keeps | Operations | What is hard about it |
|---|---|---|---|
| Execution registry (`modules/agents/adapters/outbound/execution-store.ts`) | SQLite tables: executions, journal, commands with receipts, control rows, capacity | reserve, admit, claim, bindSession, append, enqueue, pending, settle, finish, cancelBeforeStart | several processes commit between each other's transactions; admission at the limit |
| Execution hosts (`bootstrap/execution-host.ts`, `execution-commands.ts`, `execution-persistence.ts`) | phase, session, promise chain of store calls, commands being written | claim, invoke the provider, emit, drain commands, finish, fail | a process that can die anywhere; a write to the provider cannot be atomic with its receipt |
| Execution client in the web (`execution-client.ts`, `execution-launch.ts`, `execution-wake.ts`) | one handle per task: cursor, receipts awaited | open, reconcile, send/interrupt/answer/cancel, launch | reads and writes with other processes in between; launches get lost or repeat |
| Message controller (`modules/tasks/application/use-cases/message-controller.ts`) | per task: messages, pause, run id, compaction | submit, action (send, delete, edit, save, release, renew), resume, pump, callbacks of the turn | messages cross a process boundary that may fail while they do |
| Task service (`task-service.ts`, same directory) | tasks table, event log, cursor, in-memory handles | create, follow-up, steer, stop, cancel, archive, compact, answer, approve, runTurn … finishTurn, init | two awaits, commits to two databases, restart at any commit |
| Supervisor, in-process backend (`supervisor.ts`, `inproc-backend.ts`) | slots and waiters, child processes | acquire, release, register | double release |
| Shared sessions, side chats (in `task-service.ts`, `composition/session-control.ts`) | connections to sessions a local CLI owns | connect, refresh, send, stop | two owners of one session |
| Routine runtime (`apps/palmagent-runtime/src/modules/routines`) | routines with their next fire, history rows, pending runs, files of each script host | create, update, remove, run, stop, poll, boot, execute | the end of a run is recorded, acknowledged and freed in separate steps of three processes |
| palmagentd (`apps/palmagentd/src`) | configuration, selected web and scheduler, recovery counters, one record per host, one guardian process per host | launch, stop, restart, replace, recover, maintain records | launches with unknown outcome, slow starts, a daemon replaced in the middle of an operation |
| Conversation (`modules/tasks/adapters/outbound/conversation-history.ts`, `packages/shared/src/conversation*.ts`) | rows with revisions, the open block | project events, save a block, page, changes | rows move and merge while a reader pages through them |
| Stream and task view (`modules/tasks/adapters/inbound/stream.ts`, `apps/web/src/hooks/useTaskStream.ts`, `sse.ts`) | frames under way, loaded pages, cursor, catch-up, timers | accept, receive, catch up, publish, load earlier, leave, prune | notices, reads and page loads overlap; connections and requests fail |
| Terminals, spaces and worktrees, attachments, authentication, installation, telemetry, the other views of the web application | files, sessions, views | - | not the subject of these modules |

Interaction: a client's HTTP request runs a task service or message controller
operation. A turn *reserves* an execution in the registry; *admission* gives it
a slot and a *launch* asks palmagentd (or a systemd helper) for a host process.
The host *claims* the row, starts the provider and journals its output; the web
*projects* the journal into the product database through a handle, and sends
commands the other way through the same tables. The web can be replaced at any
time (deploys, crashes); hosts survive it. What the web projects it commits
together with the compact conversation and announces on the streams of its
readers, who fetch what changed. palmagentd starts and recovers the web and the
routine runtime, and keeps a guardian process and a record for every host;
the runtime asks it for script hosts and inspects them through it.

What makes it correct: a provider is invoked once per execution, by the process
that owns the row; a command or message reaches an agent at most once, and
receipts do not claim more than happened; two agents never work on one session;
slots are neither exceeded nor lost; every turn settles, everything it said is
in the log exactly once, and a restart resumes rather than repeats; there is
one web and one scheduler, and a host that is reported dead is dead; a
scheduled instant is decided once and its command runs at most once; a reader's
cursor claims nothing the reader does not have.

The full list of components, including those left out, and of the hazards found
in the code is in `PROJECT.json`.

## 2. Modules

| Module | Models | State |
|---|---|---|
| `ExecutionStore` | the registry: what each transaction makes of a row | `rows`, `capacity` |
| `ExecutionSystem` (extends it) | web, launches, hosts and providers working on the registry | + `hosts`, `provider`, `launches`, `webUp`, `view`, `doing`, `faults` |
| `MCExecutionSystem` | command bodies and the symmetry of command ids for the TLC instances | - |
| `MCExecutionLiveness` | one instance out of two small ones, and the fairness to check it under | - |
| `Invocation` | abstract: an identity is reserved, invoked at most once, over for good | `phase` |
| `ExecutionInvocation` (extends `ExecutionSystem`) | the refinement mapping of the registry to `Invocation` | - |
| `ExecutionSystemProofs` | what each transaction does to a row; ownership of rows and delivery of commands | - |
| `ExecutionRegistryProofs` | the refinement of `Invocation`, admission, sessions; receipts, answers and the order of writes | - |
| `MessageQueue` | the message aggregate: what each commit makes of it | none (operators on a record) |
| `TaskTurns` (extends it) | one task in the web process, with an abstraction of its executions | `task`, `queue`, `shown`, `control`, `execs`, `web`, `handle`, `view`, `waiting`, `steers`, `agenda`, ... |
| `TaskTurnsProofs` | what becomes of the messages of a task | - |
| `TurnsEndProofs` | who ends a turn, what it keeps and what it shows | - |
| `RetainedHosts` | palmagentd's host records with guardians and processes (`hosts.rs`, `maintenance.rs`) | `record`, `process`, `launching` |
| `Daemon` (extends it) | the daemon: requests, operations, services, recovery, crash and replacement; refines `Invocation` | + `release`, `current`, `enabled`, `disk`, `config`, `recovery`, `pending`, `agenda`, ... |
| `RetainedHostsProofs`, `DaemonProofs` | what any user of host records may rely on; the daemon's services and its refinement of `Invocation` | - |
| `Routines` (extends `RetainedHosts`) | the routine runtime with its script hosts, asking the daemon for them | + `routine`, `row`, `pending`, `files`, `script`, `queue`, ... |
| `RoutinesProofs` | runs, history and schedule of routines | - |
| `Conversation` | the projection of events into rows | none (operators on a sequence) |
| `TaskStream` (extends it) | the store of rows, one stream, one reader | `log`, `stored`, `stream`, `pages`, `reader`, `older`, ... |
| `TaskStreamProofs` | the reader's cursors, the stored rows, and what a cursor claims | - |

### ExecutionStore, ExecutionSystem

One operator of `ExecutionStore` is one transaction: `ReserveRow`, `AdmitRows`,
`ClaimRow`, `BindRow`, `EnqueueRow`, `ClaimCommands`, `SettleRow`, `FinishRow`,
`CancelRow`. The unique indexes of the schema (`live_task`, `live_owner`) are
the guards `CanReserve` and `OwnerFree`.

One action of `ExecutionSystem` is what one process does between two points at
which another can commit or it can die. Where a method makes several
transactions it is split: `open` is `OpenReserves` then `OpenAdmits`; the
lost-host check of `reconcile` is `ReconcileReads`, `ReconcileProbes` (the
process inspection), `ReconcileMarksLost`. A host is a record whose `pc` is the
phase of `execution-host.ts`, whose `tail` is the promise chain of
`ExecutionPersistence`, and whose `step`, `command` and `batch` are the locals
of `drainExecutionCommands`. `hosts[e][k]` is the process the k-th launch of
execution e started; its identity is k, so a process identity is never reused
(the code compares the pid together with its start time for the same purpose).

External: the provider (it emits, takes or refuses what is written, exits, may
outlive its host), the launcher (loses, delays, repeats), process death.

Data abstraction: a journal holds kinds of events; prompts, images, models,
permissions and releases are absent; an owner key is the session it hashes, or
the execution itself.

### MessageQueue, TaskTurns

JavaScript runs a request without interleaving, but each commit is a point at
which the process can die. In `TaskTurns` a request is its first commit plus an
`agenda` of the commits that remain; while the agenda is not empty only a crash
or a step of an execution can come between. Two awaits let other requests in:
resolving the skills of a new turn (`waiting`) and delivering a message into a
running turn (`steers`). Actions are named after the methods: `CreateTask`,
`SubmitMessage`, `Promote`, `Stop`, `Cancel`, `Archive`, `Followup`,
`LegacySteer`, `Compact`; `Begin`, `Park`, `ResetCursor`, `SetRunning`,
`ArmRuntime`, `Reserve` are the commits of `runTurn` and `startTurnNow`;
`Project` and `AppendEvent` those of `onRaw`; `TurnEnds`, `ClearControl`,
`Settle…`, `Chain` those of `finishTurn`; `Boot` and `BootRefused` are `init`.

A message is its id; its `version` stands for text, attachments, skills and
settings, which only an edit changes. `held` says that `editingUntil` is in the
future; `renew` only prolongs it and leaves the record of the model as it is. A
submission whose id is known returns a snapshot and is no action. Requests the
code refuses change nothing and are not actions either. `expectedRunId` is a
check of the client's view: the model lets the client be up to date.

Executions are here a state (queued, running, ended), the events the product
reacts to, and a receipt per message; `ExecutionSystem` justifies this view.
The journal entry of a delivery and the receipt of its command, two operations
of the host's store, are one step here (`ExecDelivers`).
`shown` is the product log as pairs of execution and sequence number. Events
the product writes itself (`emitSynthetic`) are left out, as no decision reads
them. Approvals take the path of questions and are left out, as are shared
sessions, native imports, pins, titles, push messages, and a provider that
changes its session in the middle of a turn.

The instance modelled is a package installation (`backend.independent`): no
slot is taken in the web process, admission is the registry's.

### Invocation and its two implementations

`Invocation` is what both the execution registry and palmagentd promise to
whoever gives away a session, a worktree, a slot or a role because its owner is
gone. `ExecutionInvocation` maps a row to `over` when its state is an end, and
to `invoked` once its provider was started; `Daemon` maps a host to `over` when
the daemon answers "not alive" for it. The second mapping is not a matter of
one field: the answer is computed from the record, the guardian, the process
group and the launch lock (`describe`), each changed by a different process.

### RetainedHosts, Daemon, Routines

A launch is reserved (`LaunchReserves`, the record on disk), spawned, claimed by
the guardian under the lock, and followed by the child and its ready marker;
each is a step of its own, since the daemon, the guardian and the child can die
in between. `HostState`, `Supervision`, `Phase` and `Alive` are `describe`.
Control groups are available or not (`contained`, scenario `process-group`):
without them a child whose guardian died before recording it cannot be found.
A guardian may also fail to learn who its child is (`GuardRecords`, `GuardFails`;
scenario `failing`): `identity` returns an error, or nothing for a zombie
(`hosts.rs:390`). `known` says whether the guardian's own copy of the record has
the identity; without it, and without a control group, the end of `run` neither
kills nor sees the group and records the exit all the same. `escaped` remembers
that this happened while something was left, and `Escaped(h)` is the exception
the properties of host records and routines name.

The loop of `serve` handles one request until its first wait; what follows is
the `agenda` of that turn, and the wait is `pending`. `Crash` and `Boot` lose
everything that is not on disk. `Configure` is the installer changing the
configuration; the rest of an update is not modelled. Deadlines pass or do not
(`TimesOut`); the number of retries bounds nothing, so back-off is a guard that
may open at any time. `inherited` is history: the schedulers that lived when the
daemon took over a configuration nobody had activated. It does so when it starts
after a death, and in `ExitToReplace`, as `serve` reads the configuration again
for the exec and the one it was asked to replace for may be gone by then.

In `Routines` a cron expression is the period of the clock `now`. The runtime's
worker for a run is `pending[n].job`, one value per point at which a file or the
daemon is touched; `queue` holds launch requests that wait in a connection of
the daemon, `former` the runs whose request outlived the runtime that sent it.
`OutOfSight` is `former` and the runs whose script escaped its guardian.
The space of a routine may vanish, scripts end in any way, results cannot be
saved. `RetainedHosts` is the same module in both compositions; `Routines` keeps
only as much of the daemon as takes and answers its requests.

### Conversation, TaskStream

A kind of event stands for all events `presentTranscript` and `traceOperations`
treat alike; keys, ends, groups, operations and their state are kept, wording,
byte limits and the deferral of details are not, nor is `disclosureKey`, which
only follows the membership of a row. Images are absent (they are work or
prose); a result belongs to the last call, so that out-of-order results are not
told apart. Consecutive prose of one kind is one message
(`AppendHistoryEvent`), while the code begins a new item at another message id
or agent. `Accept` is one step, as the code has no await between capturing the
boundary and the snapshot.

`SaveBlock`, `Take` and `Refresh` are `saveBlock` and the loop of `refresh`; the
repair after a correction of old events (`dirty.from_seq <= cursor`) is not
modelled, as only a migration at start-up corrects events. The client's
state is the closure of the effect in `useTaskStream`: `applied`, `received`,
`target`, the request of the running catch-up, the three timers. A page of
React Query's infinite query is put before the pages captured when it was asked
for, which is what `MayWrite` protects against. One item or event per page
makes every answer span pages. A message of another task, snapshots of other
tasks and the account limits on the same stream are left out.

### Variants

A definition placed directly before another and named after it with a suffix
(`RecoverReplays` before `Recover`, `AdmittedOverLimit` before `Admitted`) is a
plausible error: the same operation with a guard dropped, an order swapped or a
reset missing. No specification uses it. `PROJECT.json` lists, for each checked
property, a variant with which TLC finds the property violated.

## 3. Model checking

`tlc -config X.cfg M` for the pairs below. Deadlock is not checked: users may
stop asking, and all bounded resources may be used up.

### Runs that pass

| Run (cfg) | Question |
|---|---|
| `ExecutionAdmission` | Two tasks, one or two slots, sessions that are resumed, learned and changed, launches that come late or are lost, one fault: no session is shared, slots are given out in order and within the capacity. |
| `ExecutionCommands` | Two command ids with any content, a message opened again, two launches, one fault: invoked once and by the claimant, an active host owns its row, written once and in order, receipts truthful, no question answered twice; the registry implements `Invocation`. |
| `ExecutionLiveness` (`MCExecutionLiveness`) | Under fairness: no free slot starves a queue, a dead host is recorded, every accepted command gets a final receipt. |
| `TurnsLifecycle` | Two messages sent, queued, promoted, removed and resumed; stop, cancel, archive, questions, follow-ups; one crash at any commit, or one store call that throws: each message reaches one execution at most once and in order and is shown delivered only when acknowledged, worktrees outlive their providers, the log is complete when a turn settles, in-flight tasks have an owner. |
| `TurnsAwaits` | Two editors, promotion, removal, and a stop, a follow-up or a crash (any two of the three) inside the two awaits, and every source of turns, with one store call that throws: a run always has an owner, the text that runs is the text stored, a removed message is not handed over, an entry held open is left alone. |
| `TurnsLiveness` | Under fairness, with a crash: a stop whose interrupt was sent ends even a provider that would wait for ever, and its mark is cleared; and, if no provider runs for ever, an unpaused queue is served. |
| `Daemon` | Updates, restarts, replacement, stop, recovery, slow starts, compaction, deaths and failures of guardians and deaths of the daemon, with and without control groups: one web and one scheduler, the scheduler of the release the daemon works with unless it was inherited, nothing alive after a stop, dead means dead unless it escaped; the records implement `Invocation` (`HostsImplementInvocation`). |
| `Routines` | Runs around a crash of the runtime or the daemon, stops, shutdowns, deaths, failing guardians, edits: a command runs once, an instant is decided once, a saved result is recorded and nothing runs that the history does not show (runs out of sight excepted), and, under fairness, every admitted run is recorded as ended. |
| `TaskStream` | A reader in both formats with a fault anywhere, and every sequence of four kinds of events without one: the cursor is truthful, a quiet client is current, prose, calls, failures and messages of the user are each in one row. |

### Runs that find a violation

Each checks one sentence of a comment or document against what the code does.
`ExecutionFinishRace`, `TurnsRefused` and `TaskStreamOrder` are listed as runs in
`PROJECT.json`; the other configurations are kept to reproduce what they show, and the hazards
in `PROJECT.json` refer to them.

| Run | Sentence | What TLC shows |
|---|---|---|
| `ExecutionFinishRace` | "A confirmed lost host produces an abnormal exit" (`docs/SESSION-LIFECYCLE.md`) | `reconcile` reads a running row, the host finishes and exits, the process inspection fails, and the finished execution becomes lost. |
| `TaskStreamOrder` | "Never move later tools above content the user has already started reading." (`packages/shared/src/conversation.ts`) | A status, prose, a tool call: the activity takes the key of the status it absorbs, and store and page order rows by key. |
| `TurnsReplay` | "the product cursor prevents duplicate events" (same) | A crash after `setTaskRawSeq(0)` and before `reserve`: the previous execution is reattached with baseline 0 and shown again. |
| `TurnsRefused` | "A server restart reattaches surviving processes; missing runs remain interrupted" (`docs/MESSAGES.md`) | A crash between inserting a task and reserving its first execution: `init` throws at every start. |
| `TurnsStopCrash` | "always resumable, never failed" (`task-service.ts:1279`) | A crash in `finishTurn` between the control row and the status: the stopped turn fails. |
| `TurnsStopLost` | "settles via finishTurn when the child exits" (`task-service.ts:984`) | A crash between the mark of a stop and its interrupt (`task-service.ts:978-982`): reattaching sends no interrupt, so a provider that waits keeps the mark for ever (`MarkedStopSettles`). |
| `TurnsRemoved` | "Removing an unknown entry acknowledges uncertainty" (`docs/MESSAGES.md`) | The continuation of a late steer turns a removed entry into a rejected one. |
| `TurnsCompaction` | "success requires the native contextCompaction item" (`docs/MESSAGES.md`) | A crash before `reserve`: the previous execution's result completes the compaction. |
| `TurnsDropped` | "finishTurn() removes the worktree once it exits" (`task-service.ts:1005`) | A stopped turn whose skills resolve late releases the handle of the next one; cancel removes the worktree under it. |
| `TurnsWedged` | "must release the slot, not leak it / wedge the task" (`task-service.ts:1089`) | `admitExecutions` throws after `reserve`: the task runs with no listener, and a later turn that waits for its skills is dropped. |
| `RoutinesLimit` | "The four-script limit and maintenance admission gate remain in force." (`docs/DAEMON.md`) | A launch request waits in the daemon while its runtime dies; the next runtime records the run as interrupted and gives the slot away, then the daemon starts it. |
| `DaemonAdopts` | "Changing release stops the old service before the new web initializes its writer" (`docs/DAEMON.md`) | The daemon crashes between the change of its configuration and the activation; it starts with the new configuration and lets the old scheduler run beside the new web. |
| `DaemonReplaced` | the same | Nobody dies: the configuration changes again after the check of `Replace` (`daemon.rs:356`) and before the exec, which reads it anew (`daemon.rs:605-612`); the successor works with a release whose predecessor's scheduler nobody stopped. |
| `HostEscapes` | "Never release a terminal's worktree while descendants may still exist" (`hosts.rs:293`) | In process-group mode a guardian that cannot read the identity of its child records the end of a host whose group lives. |

`RoutinesLimit`, `DaemonAdopts`, `DaemonReplaced` and `HostEscapes` also check
the type invariants of their modules. Two smaller observations: `docs/DAEMON.md` gives the start time-out of
the web as 30 s, `contract.rs` as 60 s; and a graceful stop before the guardian
has recorded itself signals nobody, so the web stays in phase `stopping`.

The passing Turns runs leave out the one combination that leads to a finding
where it would mask the rest (`TurnsLifecycle` has no skills; neither
`InFlightHasOwner` nor skills meet an admission that throws).

### Bounds, and why they are enough

Two executions, tasks or messages are what exclusion, order and overtaking need;
two launches per execution make two hosts compete for a row; capacity 1 makes
the limit bite and capacity 2 lets two hosts work at once; two command ids allow
a repeated and a reordered write. One fault (process death, storage failure or
lost launch) reaches every single-failure window, since it may fall between any
two steps; the liveness run has two for a command, so that host and web can both
die. Three
runs of a task are needed for "old turn, its successor, and a message requeued
into a third". A set of `Scenarios` selects the kinds of request, failure and
ending that meet in one instance; between them the runs use all of them. Where
all of them together are too many (`TurnsLifecycle`, `TurnsAwaits`), one
scenario has every request and no crash, and the others a crash and all but one
or two of the requests. The two command ids of `ExecutionCommands` are only
compared for equality and the run checks no liveness, so it uses their symmetry.
`Daemon` needs two webs for a successor, one scheduler and one host of work;
outside the scenarios with `exits`, hosted processes end only when they are told
to, killed, or lose their guardian;
`Routines` two rows, so that a second fire meets a pending run, and one slot
(in the scenario with two runs no script fails by itself; in those with one it may);
`TaskStream` five events, the first being the dispatched message, commits of up
to two, and pages, buffers and stream queues of one or two, so that each limit
is met. The bounds are `MaxExecutions`, `MaxLaunches`, `MaxOutput`, `MaxFaults`,
`MaxVersion`, `MaxRuns`, `MaxCrashes`, `MaxInstalls`, `MaxDeaths`, `MaxTime`,
`MaxOutages`, `MaxEvents`, `MaxBatch`, `MaxTroubles`, each a guard of the
actions that would exceed it.

### Fairness

`ExecutionSystem`: palmagentd restarts the web; reconciliation runs at least
every second over all handles, hence WF on its steps and SF where the check of
another handle can disable it for a moment; a host advances its own code and
every adapter answers a write or times it out (WF per host). Nothing is assumed
of users, launches, or of a provider ending.

`TaskTurns`: a request runs to its end (WF on `Step`), a crashed web is started
again (WF on `Boot`), the event loop serves callbacks in order so that requests
cannot keep a timer, a projection or a continuation away for ever (SF on
`Await`, `Timer`, `Project`, `TurnEnds`), and an execution that was told to stop
ends (WF on `ExecEnds` of interrupted executions only). Any other provider may
run for ever: a stop that does not interrupt is not carried through, and
`QueueDrains` has as its premise that no provider does (`ProvidersEnd`).
`StopSettles` begins where the interrupt is the next commit and excepts a web
that dies right before it; `TurnsStopLost` shows that window.

`Routines`: palmagentd restarts the runtime and is restarted by its bootstrap; a
pass of the owner goes on (WF); the worker of a run and the daemon's handling of
a request are tried again every second although outages disable them for a
while (SF); guardians and script hosts advance and a script ends because its
time-out ends it (WF). Users, deaths and the clock are not fair. `RunsEnd`
excepts a host whose launch has an unknown outcome, which the code keeps on
purpose, and a boot for which the bound leaves no row.

## 4. Proofs

`tlapm M.tla` checks the proofs of module `M`. Eight modules hold theorems, all
of them for every value of the constants: any number of executions, tasks,
messages, hosts, runs, launches, commands, crashes and faults, and any mixture
of requests. `TaskTurnsProofs`, `TurnsEndProofs` and `TaskStreamProofs` take
about ten minutes each, the others a few minutes.

The assumptions on the constants say that bounds are numbers and that `None`
(and the few other marks that stand beside values) is none of those values:
`StoreAssumption`, `SystemAssumption`, `QueueAssumption`, `TurnsAssumption`
(one run at least, since a task begins with one), `DaemonAssumption` (the mark
of a stop is no release), `RoutinesAssumption`, `NotPendingAssumption`,
`StreamAssumption` (limits are at least one, and the transcript is among the
formats), `NoneAssumption`. TLC evaluates each of them on every run of its
module. A theorem that holds only of some scenarios of `TaskTurns` names them in
its statement.

### Executions

| Theorem | Property |
|---|---|
| `TypeCorrect` | `TypeOK` |
| `InvokedOnce` | `InvokedOnceByClaimant` |
| `ActiveHostOwns` | `ActiveHostIsOwner` |
| `NeverWrittenTwice` | `WrittenOnce` |
| `ImplementsInvocation` (`ExecutionRegistryProofs`) | the registry refines `Invocation` |
| `AdmitsInOrder` | `AdmissionIsOrderly`, an action property |
| `SessionsAreExclusive` | `SessionExclusive` |
| `ReceiptsAreTruthful` | `ReceiptTruthful` |
| `NeverAnsweredTwice` | `AnsweredOnce` |
| `WritesInOrder` | `WrittenInOrder` |

The first inductive invariant (`Invariant`) is `TypeOK /\ Ownership /\
Delivery`; none of the properties is inductive alone. *Ownership* has three
parts: a host that works holds a running row under its own identity, and only a
claimant has a child, queued store calls or commands in hand (`HostOwns`); a row
that is not claimed names no process and its provider is not invoked
(`RowOwns`); the process the web's lost-host check has found dead is gone
(`CheckOwns`) - without the last, `ReconcileMarksLost` could end the row of a
working host. *Delivery* says that a command a host is about to write is claimed
in the registry and not yet written, and that one written stays claimed
(`CommandOwned`). Type correctness needs it too: the lost-host check writes with
values read two transactions earlier, and a settle names a command taken
earlier. The proof begins with what each transaction does to a row; the
`…Effect` lemmas reduce each action to its effect on the fields the invariant
looks at, and `WebStep` and `HostStep` show that the effects preserve it.

`ExecutionRegistryProofs` reduces every step to what it does to the states of
the rows and to the invocations (`Transitions`), which gives the refinement and
the order of admission. Sessions need `SessionsOwned`: live rows have different
owner keys, a row no process has claimed is owned by what its arguments ask for,
and a host speaks to its provider under the key of its row.

Its second half follows a command from its row through one host to the
provider and back (`Commanded`): `Kept` is about the table of commands alone
(one answer to a question not rejected, claims in order of acceptance), `Told` compares
a row with what its provider has seen, `Handled` says what a host has still to
do for its row - the batch it has claimed, the write under way, the receipts in
its chain. A receipt is written two steps after the provider took the command,
so `ReceiptTruthful` holds only together with what waits in that chain.

### Host records, palmagentd, routines

| Theorem | Property |
|---|---|
| `SupervisedHolds` | the inductive invariant of the daemon |
| `ReportsAreTrue` | `ReportedDeadIsOver`, which excepts what escaped its guardian |
| `ServicesAreSingle` | `OneOfEach` |
| `SchedulerFollowsRelease` | `SchedulerIsOfRelease`, which excepts inherited schedulers |
| `StopLeavesNothing` | `StoppedIsIdle` |
| `ImplementsInvocation` (`DaemonProofs`) | `HostsImplementInvocation`: the host records refine `Invocation` |
| `ScriptsExecuteOnce` | `ExecutedOnce` |
| `SlotsFireOnce` | `FiredOncePerSlot` |
| `ResultsAreRecorded` | `SavedResultIsRecorded`, but for runs out of sight |
| `ExecutionsAreKnown` | `ExecutingIsRunning`, with the same exception |

`OneOfEach` and `StoppedIsIdle` speak of what has not escaped: a process nobody
can find is not one the daemon starts, stops or counts.

`RetainedHosts` has no specification of its own. `RetainedHostsProofs` is about
any step a user can take with it (`HostStep`): `HostsOk` relates record,
guardian, process group and launch lock of each host, and such a step starts a
host at most once and keeps what is over. What a guardian knows of its child is
part of `HostsOk`: an exit is recorded over a group that is not empty only if
the guardian had no way to it, which is `Escaped` and can happen in
process-group mode alone. `Daemon` and `Routines` are shown to
take only such steps, so both inherit the results.

`Supervised` adds what the daemon knows: what the turn of its loop, the
operation that waits and its exit have established about the services
(`TurnOk`, `PendingOk`, `ExitOk`), and what is true while it is down
(`DownOk`). `OneOfEach` is not inductive without them, since the decision to
start a service and the start are separated by steps at which the daemon dies.

For routines, `RunsOk` relates run by run the history, `Service.pending`, the
launch request on its way and the host; a run in `former`, whose request
outlived its runtime, is exempt from the part about requests, and one whose script escaped
from the part about its process, as in the properties. `CadenceOk` says that the next instant of a routine is ahead of
every one it was fired for.

### The messages of a task

| Theorem | Property |
|---|---|
| `TurnsAreSound` | the inductive invariant |
| `TypesHold` | `TypeOK` |
| `MessagesAreHandedOnce` | `HandedOnce` |
| `DeliveriesAreAcknowledged` | `DeliveredIsAcknowledged` |
| `TextsAreCurrent` | `HandedIsCurrent` |
| `HoldsAreRespected` | `HoldRespected`, an action property |
| `RemovedMessagesAreNotHanded` | `RemovedIsNotHanded`, an action property |
| `QueueRunsInOrder` | `QueuedRunInOrder` |

`HandedOnce` says nothing of a message between its claim and its reservation,
where it could be lost or doubled. `Sound` therefore gives every message its
tickets: a turn is being opened for it (`Opened`, on the agenda or waiting for
its skills), it is on its way into a running turn (`Steering`), an answer for it
is on its way back (`Answering`), executions have got it (`HandedTo`). The
status of its entry determines which of them may exist (`EntryOk`), and never
more than one leads to a hand-over. `TodoOk` describes the agenda: which commit
may stand behind which (`Behind`), and what each may rely on when its turn
comes, so that a crash after any commit leaves a state from which `Recover` puts
back only messages nobody has. `VersionOk` ties the text in a ticket to the text
in the queue. The order of turns is a second invariant, `InOrder`, proved on top
of `Sound`.

The proof has a lemma for what each operation of `MessageQueue` does to the
entries (`…Effect`), lemmas for a commit or request that leaves the tickets
alone, moves one, or issues one (`CalmCommit`, `CalmRequest`, `ClaimKeeps`,
`ReservedKeeps` and others), and one step per action (`…Keeps`).

### The end of a turn

| Theorem | Property | Of behaviours |
|---|---|---|
| `RunsHaveOwners` | `RunHasOwner` | without a failing admission |
| `RunsSurviveAdmission` | `RunHasOwner` | without skills |
| `TasksInFlightHaveOwners` | `InFlightHasOwner` | without a failing admission |
| `WorktreesOutliveProviders` | `WorktreeOutlivesProvider` | without either |
| `SettledIsComplete` | `CompleteAtSettle` | without either |

The last column is a hypothesis of the theorem, and none of them can be dropped.
An admission that throws after `reserve` refutes `InFlightHasOwner`
(`TurnsWedged`), `CompleteAtSettle` and `WorktreeOutlivesProvider` (the task can
be archived while the forgotten execution lives) and, together with skills,
`RunHasOwner`: the journal of the execution nobody listens to takes the task out
of `queued` while a turn waits for its skills. A stopped turn whose skills
resolve late drops the handle of the turn that runs by then and refutes
`WorktreeOutlivesProvider` (`TurnsDropped`) and `CompleteAtSettle`. Without
skills means that no message selects any (`WithSkills = {}`) and the task is not
created with them; failing store calls, crashes and every mixture of requests
remain.

The invariants of `TurnsEndProofs` stand on `Sound`, and each says what is true
in the middle of a request, between two commits, where the property itself is
silent. *`OwnerOk`*: a run that is not over has a commit on the agenda that ends
it (`EndsRun`), or an execution the product listens to, or a turn that waits for
its skills; so has a task in flight (`EndsFlight`); and the commits that take a
task out of flight and the ones that end its run come in pairs (`Partner`), so
that no early return separates them. `HeardOk` is its variant for failing
admissions. *`KeptOk`*: the handle is the one the backend has, it belongs to the
last execution, all earlier ones have ended, and whatever opens a turn or
removes a worktree finds no handle, therefore nothing alive (`NoHandleNoExec`).
*`SeenOk`*: every execution but the last is in the log completely, the last one
up to the cursor, except for the entry whose append is the next commit; the
cursor stored in the row is never ahead of the log, so the baseline of a
reattached handle suppresses only what was shown; and as long as something is
missing the task is in flight with its handle, or closed.

A first group of lemmas says once what each action does to agenda, status, run,
handle and executions (`RequestsAsk`, `StepsGoOn`, `BeginBegins`,
`ReserveReserves`, `SettleSettles`, `BootBoots` and others); the invariants are
proved from those, one lemma per group of actions.

### The reader of a conversation

| Theorem | Property |
|---|---|
| `FollowInvariant` | the inductive invariant of the reader |
| `StreamTypes` | `TypeOK` |
| `QuietInvariant` | `QuietIsCurrent` |
| `ShownInvariant` | `EveryEventShown` |
| `TruthfulInvariant` | `CursorIsTruthful` |

They hold for every length of the log, size of a batch or page and limit of a
queue, and in both formats. *`FollowOk`* relates the cursors: what is applied,
received and asked for (`CursorsOk`); a request starts at what is applied or
within one revision of it, and a target that is not reached has a request, a
retry or a timer behind it; the frames under way are the last ones, and the
reader knows of everything before them (`StreamOk`); raw events that wait to be
published follow without a gap, or were dropped and a new connection is asked
for (`BufferOk`). That a quiet reader is current follows from these alone.

*`ShownOk`* is about the stored rows: the items of the open block cover its
events, rows of different blocks hold nothing of each other, and every visible
event is in exactly one row. The projection of a block is not followed event by
event: the proof shows of any list of items that the groups of
`presentTranscript` partition them and that each visible item is in one row
(`Over`), and that a longer list keeps the keys of the rows it extends
(`Extends`, `Grows`), so the rows `saveBlock` empties are those that merged into
others.

*`TrueOk`* says what a reader knows: a row that has not changed since its
cursor, or one of the rows of the next revision that have come already, is on its
pages in the row's revision (`Loaded`); pages lie one behind the other
(`PagesTrue`); an answer under way has every row it was asked for, up to where
the next request begins, unless the row has changed again. It is what makes a
failure between two pages of changes of one revision harmless, and an earlier
page that arrives behind a catch-up.

### Only model-checked

- Liveness: `NoIdleSlot`, `LostHostIsRecorded`, `ReceiptsSettle`, `QueueDrains`,
  `StopSettles`, `RunsEnd`. Fairness and ENABLED are beyond the prover.
- `RunHasOwner` with a failing admission while some message could select skills
  but none is sent, the last scenario of `TurnsAwaits`; the theorems ask for
  `WithSkills = {}`.
- The properties of the runs that find a violation, of which a counterexample
  says all there is to say.

Every other invariant and action property of the runs is stated by a theorem.

## 5. Not modelled

Listed with reasons in `PROJECT.json`. In short: provider protocols, git, files,
HTTP, authentication, telemetry and most views of the clients are I/O around the
decisions modelled here; the in-process backend, shared sessions, terminals and
the installer have state worth modelling and are in the plan. A provider that
outlives its crashed host until the unit manager cleans up is outside this
repository, so `SessionExclusive` speaks of live hosts. The largest part of the
repository (components of the web application, adapters, scripts, release
tooling) has no state of its own that a protocol property could be about.

## 6. Plan

1. `TurnSlots`: the supervisor's semaphore with several tasks (in-process
   backend), whose `release` after a stale await is the second consequence of
   the `TurnsDropped` finding.
2. `Updates`: staging, maintenance, activation and recovery of a release
   (`modules/installation`), composed with `Daemon`, of which `Configure` is the
   only step so far.
3. Shared sessions and approvals in `TaskTurns`; terminals, a second client of
   `RetainedHosts`; the repair of corrected events in `TaskStream`.
4. Theorems: the two violated invariants of `TaskTurns`, without their
   hypotheses, once `release` compares the handle and the catch of an admission
   that fails also drops the execution.
