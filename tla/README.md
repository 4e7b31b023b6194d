# workflow-mcp in TLA+

This directory specifies the parts of workflow-mcp where interleavings, crashes
and retries decide whether the program is right, checks them with TLC on small
instances and proves the safety of its core with TLAPS for all of them.
Paths below are relative to the repository root.

workflow-mcp runs *workflows*: JavaScript files that start many coding agents,
wait for them and combine what they return. One *service* process owns a store
directory, evaluates the workflows in child processes, calls a provider (Codex) for
each agent in another child process, records everything as an event log per run, and
serves clients over MCP, HTTP and a terminal interface.

## Inventory

| Part | Source | State | Operations | What is hard |
| --- | --- | --- | --- | --- |
| Provider scheduler | `src/workConservingScheduler.ts` | waiters, active, last granted key | acquire, abort, release, drain | aborts in the middle of a dispatch, repeated releases, fairness between runs |
| Circuit breaker | `src/executionReliability.ts` | failures, openUntil, half-open flag, generation | enter, startAllowed, settle, providerResponsive | a reservation is made before a wait and used after it |
| Attempt liveness monitor | `src/executionReliability.ts` | phase, open activities, timers | progress, stop, deadline | a deadline races the answer |
| Workflow runtime | `src/runWorkflow.ts` | terminal owner, tasks, workers, phases, retry count, event sequence | start, agent request, attempt, retry, cancel, interrupt, fail, finish, emit | several owners race to end a run; cleanup awaits in between |
| Workflow worker | `src/workflowWorker.ts`, `src/nodeWorkflowWorkerLauncher.ts` | pending calls, timers, terminal flag | start, call, answer, cancel, exit | messages, heartbeats and exit in any order |
| Provider host | `src/processOwnedProviderHost.ts`, `src/providerHost.ts` | one process group per attempt | execute, abort, event delivery, terminate, reap | `exit`, `close`, result and abort in any order |
| Write coordinator | `src/workflowWriteCoordinator.ts` | open flag, permits | run, runSync, closeAndDrain, deactivate | a lease lost in the middle of a write |
| Store lease | `src/fileWorkflowStore.ts` | lock directory with a token | acquire, reclaim, release | check-then-act on a directory shared by processes |
| Run history store | `src/fileWorkflowStore.ts` | `events.jsonl`, `manifest.json`, artifacts, caches, run index | createRun, appendEvent, readEvents, snapshot, persistResult, readers, listRuns, initialize | crash between any two file operations, readers between them |
| Workflow service | `src/workflowService.ts` | lifecycle state, owned runs, run versions, waiters, idempotency keys | initialize, start, resume, cancel, stop, readers | startup repair, lease loss during stop, admission against drain |
| Journal | `src/workflowJournal.ts`, `src/persistentWorkflowJournal.ts` | recorded calls and results | admit, record, retain | crash between result and event, reuse across generations |
| State projection | `src/workflowState.ts`, `src/workflowEvents.ts` | snapshot of a run | reduce, project | events of several owners; ends that close what is open |
| Providers | `src/codexProvider.ts`, `src/codexSchema.ts`, `src/fakeProvider.ts` | none shared | execute | activities in any order |
| Loading and authoring | `src/loadWorkflow.ts`, `src/findWorkflows.ts`, `src/workflowAuthoring.ts` | none | parse, find, persist | parsing |
| MCP, HTTP, CLI | `src/workflowMcp.ts`, `src/standaloneServer.ts`, `src/cli.ts` | servers | tool calls | transport |
| Data volume | `standalone/src/daemon/dataLayout.ts`, `standalone/src/maintenance/backup.ts` | layout marker, restore markers, archives | start, backup, commit, restore, reset | crash and power loss between two directory changes |
| Standalone daemon | `standalone/src/daemon/*` | ready flag, close promise, approvals, tokens | bind, initialize, approve, close | startup and shutdown order |
| Clients, installers | `standalone/src/{cli,client,tui,web,mcp,admin}`, `standalone/install` | presentation state | - | - |

How they interact: a client's call goes through the service to a *run*; the
run's worker asks for agents; each agent attempt passes the circuit breaker,
then the run's scheduler and the service's, then a provider host; each step emits
an event that the store makes durable before the service publishes it, wakes the
long polls and lets the runtime go on. The service holds the store's lease for
its lifetime, and the write coordinator checks it around every durable write.
A service that starts on a store repairs each run its predecessor left behind,
appends `run.interrupted`, and may resume the run with the results its journal
has.

All code of one process runs on one JavaScript thread. A step of a model is
therefore what runs between two awaits, and the interleavings are those of
continuations, listeners, timers, child processes and other processes on the
same directory.

## Modules

| Module | Models | Abstract specification |
| --- | --- | --- |
| `PermitPool` | what the scheduler promises: a bounded set of holders, askers, withdrawals | is one |
| `WorkConservingScheduler` | the queue, the ring of keys, abort dispatch and drain loop | implements `PermitPool` |
| `ProviderAdmission` | the circuit breaker and the admission loop, over `PermitPool` | |
| `WriteGate` | the write coordinator of each process | |
| `StoreLease` | the lock directory, over `WriteGate` | |
| `RunLifecycle` | one run: its supervisor, its end, its tasks, attempts, retries, quarantine and event queue | |
| `EventStream` | what the history of a run promises its followers | is one |
| `RunHistory` | event log, manifest, append, crash, repair, snapshot cache, long polls | implements `EventStream` |
| `ServiceLifecycle` | one service: initialization, mutations, cancel, stop, lease loss and release | |
| `Recovery` | runs across restarts: idempotent starts, resumes, automatic recovery, journals | |
| `Evaluator` | one worker process, its two channels and the supervision of its evaluation | |
| `ProviderAttempt` | one attempt: runtime, liveness monitor, host supervisor, host process, Codex turn | |
| `WorkflowState` | the reducer of `src/workflowState.ts` as operators | |
| `RunProjection` | the publishers of a run's events over that reducer | |
| `RunReaders` | paged results, bulk walks, transcripts and listings beside the writers | |
| `DataVolume` | starts, backups, restores and resets of one data volume | |
| `AdmissionProofs`, `OwnershipProofs`, `RunQueueProofs`, `RunEventProofs`, `RunLifecycleProofs`, `ServiceProofs`, `AttemptProofs`, `EvaluatorProofs` | theorems | |
| `MC*` | constants and extra properties for TLC | |

An operator named `X_Y` is a plausible mistake in `X` (a dropped guard, a missing
reset). Putting it in place of `X` makes TLC refute the property it is meant for, which shows
that the property can fail on the instance that is checked.

### `WorkConservingScheduler`

One caller is one attempt that acquires over and over; `lease[c]` follows its
call: none, queued, held, released once, none again. `acquire` is `AcquireNow` or
`AcquireLater`, the listener is `OnAbort`, `release` is `Release` and, for the
second call that a `finally` makes, `ReleaseAgain`. The `while` loop of `#drain`
is one action per iteration, during which nothing else moves. All callers of a
run share one signal; the listeners of an abort run one by one (`Dispatching`),
and another listener of the same dispatch may release a lease between two of
them. A key is a run.

### `ProviderAdmission`

`stage[c]` is where an attempt is in `#executeAgent`: at the gate, with a
reservation, queued for a permit, granted, running, settled, or fenced. The
generation number is compared only with the present one, so a reservation
carries only whether it is still current. Time is relative and advances in
ticks: the cooldown left and the ages of the newest failures. A tick cannot
come between steps that the code takes in microtasks. The two schedulers an attempt
acquires from in turn (its run's and the service's) are one `PermitPool`.
A fenced execution gives its permit back when it leaves quarantine (`FenceLifted`):
when it settles, or, for a provider that cannot account for its descendants (the
one that is shipped, `processOwnedProviderHost.ts:86`), only when an operator resumes
the run and abandons it. Nothing makes that happen.

### `RunLifecycle`

`main` is where `#run` is, `ending` where the one `#terminate` or `#fail` is that
claimed the end, `stage[a]` where `#executeAgent` of an agent is; `owner`,
`aborted`, `retries` and `quarantined` are the fields of the class. `queue` is
`#emitTail`: an event that somebody awaits leaves the queue in the same step as
its continuation runs, which is where aborts, storage failures and other tasks
get in between. A storage failure may come at any event, and every later event is
refused. A sink that missed its deadline is not cancelled: a final event that was refused so is
`overdue`, the store may append it at any later time (`LateAppend`, `kept`) and the service then publishes it, while
the run goes on as one whose store has failed. `History` is both, what was published and what came late. `live` is what the code cannot see: executions and workspace operations
that have not stopped. An attempt that is told to stop may go on (`Confirms`,
`NotSettled`), be retried beside its old execution (`Unconfirmed`), be listened for
(`armed`) or be quarantined, and stop much later (`Exits`). `proves` is FALSE for a
provider whose settlement does not show that its descendants are gone. An abort runs
the listeners in the step that makes it. Consecutive awaits of events in one task
are one stage. Abstract: the permits (a grant may come at any time), timers
(a bounded wait may end at any time), the worker (it asks for agents, completes,
or fails; `Evaluator` says how). A nested evaluator that was given up and still admits an agent is not
part of it (`DrainedAtEnd` of `RunProjection`), so `CompletedInFull` is about the agents of living evaluators.

### `StoreLease`, `WriteGate`

`lock` is the token in the lock directory. Each await of `acquireLease` between
two file operations ends a step, so a contender's rename may hit another lock
than the one it read. A crash is for good; the next process on the store is
another owner. Not modelled: a pid that is used again by another process, which
the code tells apart by the start time it records, and a release under way when
the same store object acquires again, which the code refuses.

### `RunHistory`, `EventStream`

`file` holds the complete records and `torn` says that part of another follows.
An append takes the stages of `#appendEvent`: bytes, line, fsync, manifest rename, cache,
publication. `Crash` loses memory, `PowerLoss` also what was not synced; the
manifest may then be an older one because its rename is never synced. The
startup takes the stages of `#recoverEventTail` and `#initializeOnce`. Events
are told apart by what they do to the manifest's status. The projection that the
cache holds is only the number of events it has taken in. A reader keeps the
cursor it was last given, also when the service restarts.
Assumed: an older manifest that comes back after a power loss is a complete
file. The code syncs neither the temporary file nor the directory, so a file
system that orders neither could leave an empty one; the store would then
quarantine the run.

### `ServiceLifecycle`

`lifecycle`, `lease`, `gate` and `releasing` are the fields of the class and its store;
`init` is where `#initializeOnce` is, `stop` where `#stopOnce` is, `call[m]` where an
admitted mutation is. A run is abstract: live, told to end by somebody (`endedBy`), ended,
and busy while a task or a late execution of it is alive, as `RunLifecycle` has it. `early`
remembers the one release that begins in the middle of a stop (see *Properties that fail*).
Read-only calls take part in nothing that is modelled here and are left out.

### `Recovery`

Manifests, journals and projected attempts are durable; the service's indexes are not. A
run makes its calls in order; `journal[r][c]` is what the sidecar says of a call, `attempt`
what the events say. A client's start or resume is split where the code awaits, between the
serialized lookup and the creation (`AskStart` and `StartCreates`, `AskResume` and `ResumeCreates`). A startup
looks at each manifest (`Scan`), decides replay (`RecoverySafe`) and resumes the heads of lineages. Because a chained cache key commits to
all calls before it, a key is a call number; which arguments and which source a run has is
`version`. `Behind` is the chain of generations a run was resumed from. `zombie` are executions
that were never confirmed dead. A journal write that
fails, provider sessions and journals imported from another tool are left out.

### `Evaluator`

Both ends of the channel: `worker`, `turn`, `open`, `timers` on one, `tail`, `writing`, `ready`,
`idle`, `tasks` on the other, `up` and `down` between them. The code of the workflow is any
code. The exit of the process is an entry of `up` that comes after what was sent before. The
watchdog acts on what it last heard (`idle`, a missing heartbeat), while newer messages may be on
their way. The reset after a sleep of the host (a heartbeat deadline that the timer itself missed) is
subsumed: a deadline only passes on a worker that cannot beat.

### `ProviderAttempt`

`phase` is where `#executeProviderAttempt` is, `sup` where `#executePrepared` is, `host` and
`turn` the child. `chain` holds events that were received and not yet acknowledged,
`drafts` the workflow events the first of them becomes, `open`, `known` and `shown`
what monitor, runtime and log think of the activity. `group`, `escaped` and `inherits` are the commands
Codex started: in the process group, outside of it, holding the host's stderr. They may ignore
every signal; what the code calls confirmed depends on `boundary`. Preparation, host and
Codex have no fairness: every wait for them must be bounded by a deadline.

### `WorkflowState`, `RunProjection`

`WorkflowState` translates the reducer: one operator per event, each with the conditions under
which the reducer throws. `RunProjection` publishes through `#emitTail` what the workflow, one nested
workflow, the agents' tasks and the end of the run emit: `turn` and `child` are the two
evaluators' message tails, `stage[a]` the rest of an agent's events, `known`/`runtime` the phase tables.
Events emitted in a row without an await between them are queued together. After a storage failure or
a crash nothing is recorded until the restart, so both are the one action `Lose`.
Reports of providers are in `ProviderAttempt`; logs, warnings, artifacts and the second
`agent.queued` of a wait for the circuit only append data. `completed_with_errors` is `completed`.

### `RunReaders`

`op` says what the client of a behaviour reads; the writer's side (agents, artifacts, journal, run index, other
agents' events) goes on between its steps. Content is the set of the places where its characters begin and end, so
that a page boundary can fall within one. The other client reads another run through the same store
object and its one journal cache. A check of an artifact and the read that follows are one step;
nothing outside the program removes files.

`Key[a]` is the cache key of an agent's call. Keys are chained anew in every workflow invocation, so that
calls of two invocations may share one; within an invocation (`Space[a]`, its snapshot's place in the journal) they
differ. The journal keeps each call's record in the snapshot of its invocation, but a lookup merges all snapshots into one map
in which the last record of a key stays (`JournalKeys`). A record says that a call's result is there; what it returns
when it runs again is taken to be what it returned before, as `Content` is fixed. A resumed run's journal begins
with records of its predecessor (`Copied`); `BeginRun` drops what an invocation inherited when it resumes by its longest prefix, `Admit` takes
over a record or runs the call. The cursor of an agent's bytes holds the checksum of the content they are of (`of`): bytes of
another one are refused (`Accepted`). `from[a]` remembers whose content an agent was given.
The read of a single agent is one step and is checked beside no walk (`op = "read"`).

### `DataVolume`

`root` is what the root directory holds, `survivors` every state of it that a power loss may leave: after an
fsync only `root` itself, and after each change what any of the earlier ones becomes by it as well, or, if the file
system keeps the order of its changes (`Journaled`), only the new `root`. Each role (daemon, backup,
restore, reset) takes the owner lock and goes through its directory operations one by one; `Die`
takes it anywhere. `committer` is the publication of an archive in the host's directory by hard
links, `leaves` its two names there and `leavesSurviving` what may survive of them. The two renames at the end of `createOfflineBackup` are one step, and the archive's inventory is taken in
its order. Free space, identities and the grammar of entries are checks of single values.

## Runs

| Run | Instance | Shows |
| --- | --- | --- |
| `scheduler` | 4 callers of 3 runs, 1 permit | `PermitsInOrder`: exact permit count, no idle permit beside a waiter; no starvation; implements `PermitPool` |
| `admission` | 3 attempts, 2 permits, threshold 2, window 2, cooldown 1 | `CircuitExact`: an outage holds no permits, exact half-open flag, the threshold opens; no start in a cooldown; a probe ends unless fenced executions keep every permit |
| `store_lease` | 3 processes, 2 tries, 2 writes in flight | `LockDiscipline`: one writer until a reclaimer races, no stranded lock; no usurped acknowledgement; a stale lock is reclaimed |
| `run_history` | log of 3 events, 1 reader | `OneHistory`: honest manifest, durable publication, exact cache; no lost wakeup; implements `EventStream` |
| `run_lifecycle` | 2 agents, one isolated and replayable, 3 attempts, 1 retry | `EndsAgree`: one end each, also by an append that finishes late, a promise that agrees with the history while the store works, no completion under a task; `CompletedInFull`: a completed run has told of every agent's end; `RetriesSafe`; fences; bounded shutdown |
| `service` | 2 runs, 2 mutations | `StoreGuarded`: the lease covers whatever can write, exclusive mutations are alone, awaited ends are durable; a finished stop leaves nothing under way; every stop settles |
| `recovery` | 3 runs of 2 calls, 1 key and none, 2 clients, 2 starts of the service | `NothingTwice`: one run per key, one unfinished run per lineage, no recorded result computed again; unsafe attempts held back; every lineage carried to an end |
| `evaluator` | 2 calls, one nested, 1 timer, 1 log, 2 beats | `VerdictsDeserved`: only the dead are given up as idle, no result over a call in flight, exit after messages; no call lost; every evaluation settles |
| `provider_attempt` | 2 events, both boundaries | `HostAccounted`: settled is reaped, confirmed is over, no host untold; activities accepted by the reducer and the monitor in step with the log; nothing recorded late; every attempt ends |
| `projection` | 2 calls, 3 phases, 1 nested workflow, 2 attempts | the reducer refuses one kind of event at most (see below); nothing stays open; no end is taken back; no phase completes early |
| `readers` | 3 agents with results of 0, 6 and 8 bytes, two of them of one key in two invocations, 1 at work, pages of 4 bytes, 4 runs, 8 events, 1 damage | results, transcripts and listings neither miss nor repeat; no page mixes two results or is of another key |
| `data_volume` | 3 entries, 2 versions, 2 backups, 2 faults | no half-restored volume is served, no written one reset, what is published is whole |

The properties listed for a run include its module's type invariant.

### Bounds

*Scheduler.* One permit makes every grant a choice; two callers of one run make a burst;
three keys are the least for which the ring has a key before, at and after the
last one. *Admission.* Two permits let an attempt of before the outage run while a
probe waits; a threshold and window of two let failures add up or be forgotten in
between; three attempts are the least for a stale and a current probe beside a
running attempt, and for a queued probe behind two fenced executions. *Lease.* Three processes are needed for an owner (or a dead one)
and two contenders; two tries reach the loop's end; two writes in flight let one
finish and the other hold up the drain. *History.* Three events are a start, an
activity or a cancellation, and an ending, and the log is full at each point of
a run's life; one reader suffices because readers do not affect each other, and
the proofs hold for any number. *Run.* Two agents race for one
retry and one can still be live when the other ends the run; one is isolated and
replayable and one neither, so that each branch of the replay decision occurs; three
attempts leave the limit of the run, not of the agent, to bind.

*Service.* Two runs are one left behind by the predecessor or late and one that begins;
two mutations are the least for an exclusive one beside another, and each may be of any kind.
*Recovery.* Three runs are a run, its successor and a rival or the successor's successor; two calls
are the least for a prefix and a rest, one of them unsafe and failing; two clients race
with one key, one of them also resumes with another source or other arguments; the second start is the one that recovers.
`UnsafeNotReplayed` needs a third. *Evaluator.* One call of each kind; one timer and one log
keep control away and the tail busy; two heartbeats on their way let a stale one follow a fresh one.
*Attempt.* Two events are the least for an order; the kinds of event make every pair of started, updated and completed.
*Projection.* Two calls race for an index and a phase; the three phases are one declared, one named by a call and that of
the nested workflow; only one agent ends freely (`Steady`), only a cancellation comes from outside
(`Modes`) and two events may wait (`MaxQueue`), which keeps the run at four million states; failures come from the
workflow itself. *Readers.* Results of no byte, of a character across a page boundary, and of several pages; two items a page, a
scan window smaller than the log, and a limit smaller than the agent's events; four runs on pages of two. Of the three calls
two are the first ones of two invocations and the same, with different results (`MCKey`, `MCSpace`), one of them is copied under another number, and
the third has a key of its own; one agent at a time works (`MaxBusy`), which keeps the run at nine million states. An agent may still run while another's record of
the same key, copied or its own, is found for it.
*Volume.* Two versions tell an old file from a new one, two backups an archive from another of the same name;
two faults are a power loss during the repair of another.

### Fairness

`scheduler`: the thread goes on with a drain loop it began and runs the listeners of an
abort; every held lease is released, because an attempt ends with an answer, an
error or the absolute deadline of its monitor. The exception is the lease of an execution that stays fenced (see
`ProviderAdmission`): `NoStarvation` is about schedulers whose leases are released. Listeners and releases are strongly fair because every
synchronous drain disables them for a moment. `admission`: time passes;
continuations that are ready run; a queued attempt that is grantable again and again is granted
(`NoStarvation` of the scheduler); an attempt ends and returns its permit. Nothing is assumed of
a fenced execution: the quarantine of the shipped provider does not settle. `HalfOpenEnds` is about behaviours in
which a permit that is not fenced, or free, comes up again and again; when fenced executions come to keep all of them, a probe
that is queued for one keeps the circuit half-open (`HalfOpenAlwaysEnds` below). Cancellation and
arrival are never fair. `store_lease`: a process that is acquiring goes on to its next file
operation. Nothing is assumed of a process that holds the lease.
`run_lifecycle`: the supervisor and each task go on: a continuation that is ready
runs, an event sink answers or misses its deadline, a bounded wait ends, an attempt
ends by its absolute deadline. Nothing is assumed of an execution that was
told to stop or of an append that missed its deadline, and no one has to cancel.
`service`: initialization, stop, release and admitted calls go on (the store answers or fails), and a run that was
told to end ends, which is `ShutdownBounded` of `RunLifecycle`; nothing is assumed of agents,
executions and clients. `recovery`: the supervisor starts the service again as long as it has starts left, and
startup and the runs make progress. `evaluator`: timers fire, heartbeats are sent, messages are delivered and handled, tasks
end, deadlines pass; nothing makes the workflow's code give control back. `provider_attempt`: the runtime's
deadlines pass, its continuations and appends go on, a group that was sent SIGKILL is polled to its deadline; nothing is
assumed of preparation, host, Codex or its commands.
`run_history`, `projection`, `readers` and `data_volume` check safety only.

## Properties that fail

While the models were written, the code turned out to disagree with a comment or document, or with
itself, in the 28 points below. Each is stated as a definition in the module named; to see the
counterexample, put its name in place of the properties in a copy of the run's `.cfg`
(as `INVARIANT`, or as `PROPERTY` where the definition is an action or temporal formula).

| Definition | Module | Source | What happens |
| --- | --- | --- | --- |
| `RoundRobinTurn` | `MCRoundRobin` (specification `TurnsSpec`, constants of `MCScheduler.cfg` and `c2 = c2`) | `workConservingScheduler.ts:109` | A run whose last waiter was granted leaves the ring, the rotation restarts at the head of the queue, and a run may take two turns while another waits for its first. `docs/RELIABILITY_IMPLEMENTATION_PLAN.md:333` says "service-wide round-robin provider queue". Nobody starves. |
| `ProbeGetsThrough` | `MCHalfOpen` (`MCProviderAdmission.cfg` with four callers, threshold and window 1) | `executionReliability.ts:406` | `neutral()` of a probe does not compare generations: two stale probes that wait for permits in turn invalidate each other, and no attempt calls the provider any more; a stale one also reopens a circuit that has closed since. The comment at 407-408 says "Let a different queued call probe immediately instead of holding the circuit half-open forever". |
| `HalfOpenAlwaysEnds` | `ProviderAdmission` | `runWorkflow.ts:2242-2263` | The quarantine of a provider with unconfirmed descendants, which is the shipped one (`processOwnedProviderHost.ts:86`), never settles, and its permit comes back only when an operator's resume abandons it (`runWorkflow.ts:514-518`, `workflowService.ts:1309-1330`). When cancelled runs keep all permits so, a probe queued for one keeps the flag, and the gate stays shut for everybody. The comment at `executionReliability.ts:407-408` promises the opposite. |
| `ReclaimsWhatItInspected` | `MCStoreLease` | `fileWorkflowStore.ts:347` | A contender renames whatever lock exists, perhaps one claimed after its inspection; two processes own the store until the next token check. The comment at 344-346 says "It can never unlink a generation created after its stale-owner inspection". |
| `PagesEndAtManifest` | `MCRunHistory` | `fileWorkflowStore.ts:720` | A page read between the write of a record and the manifest's rename ends beyond the published cursor, and the cursor it gives is refused as `cursor-ahead`. The comment at 1103-1104 says "The manifest is the published commit boundary". |
| `StartupAvailable` | `MCRunHistory` | `workflowService.ts:465` | `run.interrupted` of a run whose log is full throws, and no service starts on that store again. `fileWorkflowStore.ts:218-219` says "One historical run is not the service's availability boundary". |
| `UnconfirmedKeepsLease` | `RunLifecycle` | `runWorkflow.ts:2098` | The error of a failed store takes the place of `UnconfirmedProviderTerminationError`; nothing is quarantined and the lease is released beside a live provider. `workflowService.ts:590-592` says "WHY an unconfirmed adapter keeps the store lease even after its logical run failed". |
| `NoStartAfterAbort` | `RunLifecycle` | `runWorkflow.ts:1557-1588` | The abort is not looked at again after the append of `agent.started`: the provider is called for a run that has ended and hears of it only by `terminateAttempt`. `docs/EXECUTION_PLAN.md:504` says "cancel queued logical calls without starting providers". |
| `PromiseTellsHistory` | `RunLifecycle` | `runWorkflow.ts:861-865` | The append of `run.completed` misses the sink's deadline and finishes after all; the service publishes it (`workflowService.ts:1645-1648`), and the history says completed, while the promise of the run was rejected with `workflow-storage-degraded` (626-634). The comment says "the original fsync may still finish" and leaves it to a startup to reconcile. |
| `VerdictStands` | `ServiceLifecycle` | `workflowService.ts:546-548` | A lost lease during an operator's stop sets FAILED, and the continuation of the stop overwrites it with STOPPED. The comment there says the close cannot "later overwrite this safety verdict with STOPPED". |
| `EarlyRelease` | `ServiceLifecycle` | `workflowService.ts:1664-1670` | The end of a late provider releases the lease in the middle of a stop, before admitted mutations have drained. The comment at 576-578 says "This stop owns a clean, deterministic teardown boundary". |
| `UnsafeNotReplayed` | `Recovery` (`MaxBoots = 3`) | `workflowService.ts:1884-1915` | `run.interrupted` marks running attempts as failed (`workflowState.ts:413-444`), so the startup after the next finds no unresolved attempt and replays what the first held back; a run whose cancellation was under way is resumed the same way. `docs/RELIABILITY_IMPLEMENTATION_PLAN.md:257-258` says "Automatic recovery never treats an in-flight external side effect as definitely absent or definitely complete without evidence". |
| `NoSmuggledResult` | `Recovery` | `workflowService.ts:1366-1386` | A successor with other arguments that dies before its first call still has its predecessor's entries in its journal; automatic recovery compares only with that successor, finds source and arguments the same, and reuses the entries sparsely, beyond the unchanged prefix. The comment at 1381-1384 says "reusing a later sibling could smuggle an obsolete control-flow path into the new run". |
| `LineageFenced` | `Recovery` | `workflowService.ts:1309` | Resuming checks for unconfirmed executions of the named run only; one of an older generation may still work in the workspace. |
| `CompletedIsNotDead` | `Evaluator` | `runWorkflow.ts:984` | The heartbeat deadline rejects an evaluation whose terminal message has arrived and waits in the tail for a slow append. The comment at 1001-1002 says that the exit must not beat such a message; the watchdog does. |
| `ResultKept` | `ProviderAttempt` | `runWorkflow.ts:2209-2221` | A provider that returned while the timeout's grace went by is reported as unconfirmed and may be replaced by another attempt. Compare the comment at 2188-2191. |
| `ConfirmedIsStopped` | `ProviderAttempt` | `processOwnedProviderHost.ts:551` | A process group that survives SIGKILL rejects the promise, which counts as a settlement and so as a confirmation. Compare `runWorkflow.ts:2211-2212`. |
| `OrphanDies` | `ProviderAttempt` | `providerHost.ts:131` | A host whose parent dies after its terminal message was made returns early from the disconnect handler and waits for an acknowledgement that never comes. Compare the comment at 139-143. |
| `NothingAppendedLate` | `ProviderAttempt` | `runWorkflow.ts:2549-2570` | `acceptProviderEvents` is looked at on entry only (2066); the second append of one event may follow the record of the attempt's end. |
| `DoubtIsNamed` | `ProviderAttempt` | `executionReliability.ts:148-151` | An activity first heard of by an update is running in the log and unknown to the monitor, so that the deadline of active operations and the recovery note leave it out. |
| `NoEventRejected` | `RunProjection` | `runWorkflow.ts:1241` | `callIndex` is computed from the shared counter after the await for the phase, the agent id before it. A nested workflow's call admitted meanwhile makes two calls of one index; the reducer throws (`workflowState.ts:618`) after the record was synced, and every later snapshot of the run throws as well. |
| `DrainedAtEnd` | `RunProjection` | `runWorkflow.ts:984` | A nested evaluator that the watchdog gave up still has a request in its message tail; it becomes an agent of a run that completes. The comment at 581-583 says the opposite. |
| `NoSiblingResult` | `RunReaders` | `fileWorkflowStore.ts:1473-1482` | Keys are chained per invocation (`workflowJournal.ts:223-258`, `runWorkflow.ts:2619-2625`) and the snapshots of all invocations are merged into one map. An agent without a usable artifact, one that still runs included, is listed as available and served the value of a call of another invocation with its key. The comment at 1504-1510 says "A missing result is a fine answer; a confidently wrong one is not". |
| `UndamagedWalkCompletes` | `RunReaders` | `fileWorkflowStore.ts:2091` | For the same reason the bytes behind a cursor change during a walk over an undamaged run: the checksum no longer fits and the agent is skipped, or its record is dropped and the cursor that was given is refused as `invalid-cursor`. Compare the comment at 1504-1510. |
| `DamageIsTold` | `RunReaders` | `fileWorkflowStore.ts:1672-1688` | A bulk walk drops an agent whose result became unreadable, neither a result nor `skipped`. The comment at 1463-1468 says that is "the one thing it must never do". |
| `BlameIsDeserved` | `RunReaders` | `fileWorkflowStore.ts:1469` | `#journalReadFailure` is one field for all runs and survives cache hits: an absent result of a healthy run is reported as damaged because another run's journal is. |
| `StartsAgain` | `DataVolume` | `dataLayout.ts:174-197` | A start that dies between creating and renaming `layout.json.tmp-…` leaves a name that daemon, restore and reset refuse from then on. Compare the comment at 136-140. |
| `NoPartialBackup` | `DataVolume` | `backup.ts:436-452` | An offline backup does not look at the restore markers and archives a half-restored volume; compare `dataLayout.ts:84-92`. |

Further observations, not stated as properties:

* Half-open "probes" can be two at a time: a probe that was let through keeps
  running after its reservation went stale, while the next one is let through.
  `ProbeFlagExact` is about reservations of the present generation.
* An isolated worktree may be cleaned up while an execution that a retry replaced still runs
  in it: the retry was granted because the sandbox is read-only, so `Stopped` lets it pass.
* A read that meets the part of a record an append is writing fails as a corrupt
  store and works when it is repeated (`PollReadsTorn`).
* A run that ends safely after a failed stop is forgotten without releasing the lease
  (`workflowService.ts:1656-1663`). A comment at 509-510 lets "a later initialize()" retry, which FAILED refuses.
* When creating a run succeeds and opening its journal fails, its queued manifest waits for the next startup.
* A manual successor that dies while it is queued is recovered automatically, and then reuses coverage gaps.
* A timeout or abort during preparation finds nothing to terminate; the state is looked at after the fork.
* A phase entered after the failing of open phases has passed stays "running" in a failed run, a
  completed phase can get a later agent, and never-entered phases of a failed run count as complete.
* A bulk cursor that names an agent that became unreadable ends the walk with `invalid-cursor`. Status changes between
  inventory pages with a filter are documented weak consistency.
* On a file system that does not keep the order of directory changes (`Journaled = FALSE`), `ResetExact` fails: the
  preparing marker may be lost and the claiming one kept.

## Proofs

The proof modules hold for all constants that satisfy the named assumptions of the modules
(`SchedulerAssumption`, `PoolAssumption`, `CircuitAssumption`, `LeaseAssumption`,
`GateAssumption`, `HistoryAssumption`, `RunAssumption`, `ServiceAssumption`, `DataVolumeAssumption`,
`AttemptAssumption`, `EvaluatorAssumption`, `StateAssumption`, `ProjectionAssumption`, `RecoveryAssumption`,
`RunReadersAssumption`): sets of callers finite where they are
counted, bounds positive, "none" values outside the sets. Each has an inductive
invariant `IInv`, with `Init => IInv` and `IInv /\ [Next]_vars => IInv'` from one lemma per action. Some modules are about
two components and have one for each: `OwnershipProofs`, about what processes own in turn (`LeaseInv`, `VolumeInv`);
`AttemptProofs`, about the permit and the host of an attempt (`SchedulerInv`, `IInv`); `AdmissionProofs`, about who may
start work and which work is not done again (`IInv` of the gate, `RecoveryInv`); `ServiceProofs`, about the service and what
its clients read (`IInv`, `ReadersInv`); and `RunEventProofs`, about the
events of a run (`IInv` of the history, `ProjectionInv` of the projection, whose definition and whose steps of the calls
are in `RunQueueProofs`).

* *Scheduler.* `PermitsInOrder` (theorem `OrderKept`). Its part `PermitsExact` needs that the queue holds exactly the callers whose
  lease is queued, each once; `WorkConserving` needs that outside a drain the
  queue is empty or the permits are gone. A step of the scheduler is a step of `PermitPool` or a
  stutter; the grants of one drain are single steps.
* *Admission.* `CircuitExact` (`CircuitAgreement`) and `NoStartDuringCooldown` need that the flag is only
  set while the circuit is open and cooled down, that current reservations of
  the two kinds never coexist, and that the stages agree with the pool.
* *Lease.* `LockDiscipline` (`DisciplineKept`). Its part `SingleWriter` needs that, until a reclaimer raced, whoever is past its claim
  has the lock, and that a token judged stale belongs to a crashed owner. The
  invariant without `~raced` is what `NoUsurpedAcknowledgement` rests on: an
  owner that lost the lock never gets its token back before its writes are out.
* *History.* `OneHistory` (`HistoryAgreement`). `ManifestHonest` needs, for each stage of an append and of a repair, how
  `file`, `synced` and `manifest` relate: the file is at most the event in flight
  ahead of the manifest, and an older manifest reflects a prefix. `CacheExact` needs that
  no snapshot in flight has read a cursor beyond the manifest. `ImplementsStream` maps the
  log to `file`; an append is a `Commit`, a publication an `Announce`, a power loss a `Lose`.
* *Run.* `EndsAgree` (`EndAgreement`), `CompletedInFull` (`CompletionAccounts`) and `RetriesSafe` (`RetrySafety`). `OneEndEach`
  and `ResultMatchesHistory` need that `run.completed` waits in the queue at most
  once and only while completion owns an open run (`EndExact`), that an agent whose final event
  is out only cleans up or is over (`AgentEndsExact`), and that only a failed store owes an append, of an end that
  was not told before and is the winner's (`LateExact`). `CompletedInFull` needs in addition that, as long as the store works and
  nothing fails the run, a task that is over has been told of (`FullInv`): one leaves `#tasks` unheard of only when the
  run has ended or will fail. `CompletesAlone` needs that no
  agent is being admitted once the worker has completed (`Alone`); `RetriesWithinLimit` that a retry is counted
  before its attempt begins (`RetryExact`). `ReleasableOnlyStopped` rests on a second invariant, `FenceExact`:
  an execution that has not stopped is the present attempt of a stage that watches it, or is
  quarantined, or is listened for, or was replaced by a safe retry, and nothing is listened for
  after the abort. Steps are grouped by what they do to the supervisor (`SupervisorPreserves`) or
  to one task (`TaskPreserves`), so that each action is shown to belong to a group.

* *Service.* `StoreGuarded` (`StoreKept`) and `StopIsComplete` (`StopLeavesNothing`). The stop's stages need that
  nothing is admitted and no initialization runs once the drain is over (`Stopping`), which rests on
  `Starting`: whatever is admitted, or begins a run, does so while READY or in the recovery loop, and both come
  before the drain. That nothing writes without the lease rests on `Sealed` and `GivenUp`: a gate is closed under a held lease only behind
  the last run that could begin a task. `EndsRecorded` needs that a run in `ending` is waited for or
  ends of itself (`EndsOwned`).
* *Attempt.* `HostAccounted` (`NothingRunsOn`), `ActivityFollowed` (`LogStaysReadable`) and `NothingRecordedLate`
  (`NothingLate`). The channels between runtime and host hold at most two messages, and which ones follows from where
  either side stands (`Channels`): a terminal record is last, an event waits for its acknowledgement. `Told` says what of a
  cancellation is still on its way to a host that has not been told. `Delivery` ties the drafts of one
  event to the phase of the activity and to what the log shows, so that the reducer never sees a completion without a
  start. `Forked` and `Verdicts` order fork, exit, reaping and settlement.
* *Volume.* `RestoreExact` (`OpensNoHalf`), `BackupExact` (`PublishesWhole`) and, for a `Journaled` file system,
  `ResetExact` (`ResetsUnserved`; without the order of changes it fails, see above). `Restores` says what the root and the files are at each step
  of a restore; the mark is durable before anything is extracted and goes only from a volume that is durably whole, so
  every state without a mark that may survive is the archive (`Restored`). `Copying` holds each entry of an archive between the digest
  taken before a moment and the bytes read after it. Two publications of one name never both link it,
  since what a sync has kept stays (`Published`). A served volume has its layout and no mark in every state that may survive
  (`Written`), so no claim is made of it (`Resets`).
* *Projection.* `OnlyStolenIndexRejected` (`RejectsOnlyStolen`), `NothingLeftOpen` (`LeavesNothingOpen`), `FinalsStay`
  (`KeepsFinals`) and `PhaseTruth` (`TellsPhases`). All four are about the snapshot, but what makes them true is what may still
  wait in `#emitTail`. `RunInv` says of every event that waits where its call, its phase or the run stands
  (`CallsWait`, `RunWaits`, `DiscoveriesWait`, `EntriesWait`, `CompletionsWait`, `FailuresWait`), which of two
  events may wait before the other (`Ordered`: of one agent and of one phase by rank, an admission before the completion of another
  phase only), and how calls, phases, counts and the two message tails agree. `ViewInv` holds until the reducer has
  refused an event: the snapshot is what the runtime did less what still waits. From the two follows that the head of the queue
  is accepted or is an admission with another call's index (`HeadAccepted`), and that whatever it is it reads well
  (`HeadApplied`, `PairRead` when a last event completes its phase): the case of
  `run.completed` is where `CompletingFacts` finds every call ended, or belonging to a nested workflow that died. Once an event was
  refused, the snapshot stays, and `RunInv` alone goes on. Each action keeps both (`...Keeps`); a lost host and a restart
  need only the snapshot.
* *Evaluation.* `VerdictsDeserved` (`DeservedVerdicts`) and `CallsCarried` (`NoCallLost`). The parent's tail and the channel are
  one stream, of which each step keeps all, gains the last or loses the first message (`StreamStays`, `StreamGains`, `StreamLoses`;
  likewise for the channel back). A call is in one place at a time and the code waits for it there (`Placed`); therefore a
  heartbeat without anything pending, wherever it is in the stream, tells that the code is dead and stays so (`QuietIsDead`).
  Nothing follows a terminal message but the exit (`LastWords`), so no exit overtakes it (`Heard`).
* *Recovery.* `NothingTwice` (`RecoveryNothingTwice`) and `UnsafeHeldBack` (`RecoveryHeldBack`). The journal a run takes over
  is read when the successor is created, while a call of it is decided much later and perhaps by a successor's successor.
  `Journals` says what is carried in between (`Carries`): an entry of the journal of the run resumed from, which no longer
  changes, stays in the journal of the run that resumed it and is never attempted there, if that run has to take it
  over; and every entry bears the source that made it. From one generation to the next this reaches the whole chain (`CarriedFar`), the least closed set `Behind` being chosen
  for it. `Lineages`, `Startups` and `RequestsHeld` say that one run only follows another, which runs a startup still has to look at,
  and what a client's request saw before its await; `Working` and `Ambiguities` tie the journal to the attempts of a
  call. Steps that neither create a run nor decide a call are one case (`Calm`).
* *Readers.* `ResultsExact` (`ResultsAreExact`), `TranscriptExact` (`TranscriptsAreExact`) and `InventoryExact`
  (`InventoriesAreExact`). `WalkInv` says of each place where a bulk walk can be what it has given so far and what is left of the agent at
  the cursor (`AtCursor`, `AtAgent`, `AtEnd`), for whatever the writer has done to the store meanwhile (`StoreInv`). `Stands` ties the
  cursor's checksum to whose bytes the agent was given so far (`from`); no more is claimed of an agent whose key is another's too than
  that its bytes are whole and of that key (`Alone`). `LastRecords` is that a key which has a record is found. `ResultInv`,
  `TranscriptInv` and `InventoryInv` do the same for one result, for the events of one agent, whose scan window may end
  anywhere in the log, and for the pages of runs. The least and greatest members and the sorted lists the code picks its pages from come from the
  least-number principle (`LeastNumber`), which follows from the well-foundedness of the naturals.

Only model-checked: every liveness property (`NoStarvation`, `HalfOpenEnds`, `StaleLockReclaimed`, `ShutdownBounded`,
`StopSettles`, `Carried`, `Settled`, `AttemptEnds`), because liveness under fairness is beyond the proof
system. Every invariant a run checks, type invariants included, is part of what a theorem states.

## Not modelled

* The inherited flock lease (`inheritedFlockLeaseBackend.ts`): the kernel keeps the lock for the life of a descriptor,
  and the class compares the descriptor with its generation file. `StoreLease` is about the lock directory.
* The daemon's startup and shutdown (`daemon/lifecycle.ts`, `application.ts`, `sourceApprovals.ts`): one sequence of
  awaits over listeners and servers with one serialized writer. What other processes see of it is in
  `ServiceLifecycle` and `DataVolume`.
* Parsing, discovery and authoring of workflow files, schemas, the import of another tool's journals, configuration, tokens,
  presentation, transport and the shell around the container: sequential and pure, no state that two actors share.
* Within the modelled parts: budget, call and depth limits, worktree commands, quarantine and pruning of stored
  runs, usage, warnings and artifacts of the projection, failing journal writes.

## Plan

1. `RunLifecycle` as the implementation of the abstract run of `ServiceLifecycle`.
2. The lease behind `#acquireInjectedLease` as a second implementation of what `WriteGate` asks of a lease.
