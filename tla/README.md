# A verification project for vlunWorkbench

vlunWorkbench is a local security workbench: a Web server (Bun, Hono, SQLite)
that lets a user start scans of a project, runs each scan in a child process,
stores findings and evidence, and reports on them. Several processes share one
database file: the Web server, its scan children, command line programs, and a
*Writer* process through which all of them send their mutations.

This directory holds TLA+ modules for the parts of the system where
correctness depends on the order of things: who may run, who may write, who
decides a scan, and what is left behind when something fails. TLC checks them
on small instances, TLAPS proves the results marked below for all instances.
`PROJECT.json` maps every definition to the source lines it models and lists
the runs, the mutants, the hazards and the theorems.

Paths below are relative to the repository; `execution/` is
`api/modules/scans/execution/` and `writer/` is `api/db/writer/`.

## 1. Inventory

### Parts that carry the core logic

**Process capacity** (`api/modules/processes/web-process-capacity.ts`). State:
a counter `active` and an array of waiters. Operations: `acquire` (queues, with
an AbortSignal), `tryAcquire`, the release function, and the limits, which are
read anew at each call. Callers: the scan supervisor and the CLI bridge. Hard:
limits that move under the gate's feet, waiters that abort but stay in the
array, double release. Correct means: the counter is exact, nobody is admitted
beyond the limit, nobody overtakes, nobody waits at an idle gate.

**Scan supervisor** (`execution/scan-process-supervisor.ts`, the routes that
call it, the guards in `api/modules/scans/repositories.ts`, start and shutdown
in `api/app/server.ts` and `hono-runtime.ts`). State: the maps `pending` and
`owned`, per launch the abort signal, the lease, kill and overrun timers and
the monitor coroutine; in the database, status and metadata of the scan's row.
Operations: launch, cancel, shutdown, stale recovery, monitor. Interactions:
the gate, the row (which children write too), signals to children. Hard: every
`await` is a point at which cancel, replayed launch, exit, timer, shutdown or a
crash may come in; the supervisor acts on statuses it read earlier; children
outlive a crashed server. Correct means: one verdict per scan that is never
overwritten, one child at work per scan, no lost lease, no forgotten scan, a
cancel that really stops the work, a shutdown that leaves nothing running.

**SQLite Writer** (`writer/server.ts`, `queue.ts`, `client.ts`,
`client-support.ts`). State: the lock directory with its owner file, the
socket, the queue, the open transaction, a sequence number; in the clients, the
connection and what they spawned. Operations: execute, atomic batch, migrate,
stop; connect-or-start, recovery of stale files, close. Hard: death between two
statements or between two file operations, lost answers, several clients that
start or recover a Writer at once, stopping while requests arrive. Correct
means: requests take effect whole, one at a time, at most once, and answers
tell the truth; one Writer at a time, reachable by everyone.

**Profile run** (`execution/profile-orchestrator*.ts`,
`profile-step-orchestrator.ts`, `execute-profile-step*.ts`,
`shared-runtime-target.ts`, `scan-result-policy.ts`, plan and preflight
verdict). One scan inside its child: claims the row, snapshots the source, plans,
runs the steps against a shared runtime target, disposes, cleans up, decides.
State: four temporary workspaces, the runtime session and its lease, flags and
results of the steps, the row. Hard: each stage may throw and has its own catch
or finally block; cancellation changes the row meanwhile and kills the process
later. Correct means: fail closed (nothing is called a success that is not),
nothing left over, the row decided.

**Leases and leased work** (`execution/lifecycle/scan-resource-lease-*.ts`, the
bundles in `api/modules/runtime-isolation/`, the dynamic runs in
`api/modules/dynamic/`, the two lease janitors). State: a row of
scan_resource_leases with a receipt and a deadline; containers, volumes and
networks; in the worker, the children it knows of. Operations: acquire, the
guarded update of the receipt, release, quarantine; a script of Docker
commands, `docker run` with its timer; cleanup by the owner and, once the lease
has expired, by a janitor of the server. Interactions: the worker is a process
of its own, the janitor another; deleting the scan deletes the lease. Hard:
death between create, receipt and start; commands that fail or are carried out
although they ran out of time; a lease that expires under its owner. Correct
means: what runs can be found by its lease, a success has removed everything,
and what was abandoned is reaped.

**Deletion and artifact cleanup** (`execution/lifecycle/*deletion*`,
`project-artifact-cleanup-runner.ts`, the triggers of migration 0036). State:
rows of runs, artifact directories, the ledger of cleanup jobs, the runner's map
of jobs in flight. Operations: list active work, list the manifest, store the
job and delete the row in one transaction, claim, remove in parallel, complete or
fail, recover at start. Hard: work that starts between check and commit, lost
answers of the Writer, a crash at any point, processes that write late. Correct
means: active work stays, no directory goes whose row stays, no directory is
forgotten whose row went.

### Parts that may follow

| Part | What is hard |
|---|---|
| NightWorkers integration (`api/modules/integrations/nightworkers/`) | idempotency records, grants and their expiry against running scans |
| A second runtime in one process (`api/app/hono-runtime.ts`) | two supervisors, two gates, stale recovery of living scans |
| Bounded process runner (`api/modules/processes/bounded-process-runner.ts`) | timeout, output limit, abort, exit and hard stop race; the hard stop resolves although the child may still run |
| DAST and reproduction runs (`api/modules/dast`, `api/modules/reproductions`) | their run states, which follow the dynamic run without its lease |
| Account management, rate limiter (`api/modules/auth`, `api/middleware`) | the check for the last administrator and the update are two steps |
| Finding grouping, coverage ledger | pure functions, to be checked against reference definitions |

### Parts that are not going to be modelled

Scanner adapters and normalizers, preflight probes, report and evidence
rendering, language-model, retrieval and search modules, record keeping
(assessments, threat models, business logic, decisions, chat), the Writer's wire codec,
schema declarations and the Web user interface: conversion of data, calls to
external programs or services, and presentation, without state transitions of
their own that could interleave. Where one of their results matters (a scanner
fails, a preflight check blocks) it is a nondeterministic input of a module.
All parts are listed in `PROJECT.json` under `components`.

## 2. Modules

| Module | Models | Uses |
|---|---|---|
| `ProcessCapacity` | class WebProcessCapacity | |
| `ScanLifecycle` | abstract: what a scan's row promises | |
| `ScanSupervisor` | supervisor, routes, replay, children, shutdown, crash, restart | instance of `ProcessCapacity`; implements `ScanLifecycle` |
| `SerialStore` | abstract: what the Writer promises its senders | |
| `WriterQueue` | one Writer and its requests | implements `SerialStore` |
| `WriterElection` | how clients and Writers agree on one Writer | |
| `ProfileRun` | runProfileScan | |
| `ResourceLease` | Docker resources, the lease repository, the janitors | |
| `RuntimeBundle` | startDockerRuntimeBundle and stop() | extends `ResourceLease` |
| `DynamicRun` | DynamicRunner.run and its Docker executor | extends `ResourceLease` |
| `LeasedWork` | one worker of either kind, its lease, janitor and scan | extends the three |
| `ScanDeletion` | deletion of scans and projects, artifact cleanup | |
| `ProcessCapacity_proofs`, `ScanSupervisor_proofs`, `WriterQueue_proofs`, `WriterElection_proofs`, `ProfileRun_proofs`, `LeasedWork_proofs`, `ScanDeletion_proofs` | theorems | extend their modules |
| `MC*` | constants for TLC | extend their modules |

In each module a mutated form of a definition stands before it, with a comment
that begins with "Mutation" or "MUTANT". They are used by no specification;
`PROJECT.json` names for each property the mutant that violates it.

### ProcessCapacity

Every method runs to completion on one thread, so it is one action: `Acquire`,
`TryAcquire`, `AcquireAborted` (a signal that was already aborted), `Abort`
(the listener), `Release` and `Reconfigure` (the settings change). The waiter
array is the set of its elements plus the position at which each was pushed;
`dispatchWaiters(busy, G)` says that `G` is the prefix that the `while` loop
resolves. Aborted waiters stay in the array until a compaction, as in the code.

### ScanSupervisor and ScanLifecycle

An action is what one coroutine does between two awaits; each database call is
an action and may fail. A launch token `l` stands for one call of `launch()`
that got past its first check. `job[l].start` follows launchOnce: `StartGranted` or
`StartRejected` (gate), `StartFind`, `StartMerge`, `StartReread`, `StartSpawn`,
and `StartFault`, `StartFail`, `StartFailed` for its catch block.
`job[l].monitor` follows the coroutine that watches the child (`MonitorExit`,
`MonitorGivesUp`, `MonitorFind`, `MonitorFail`, `MonitorPost`). `Overrun` and
`KillTimer` are its timers. `cancel[c][s]` is one call of cancel(), by a user or
by shutdown(). `Shutdown*` is the shutdown sequence of the server, `Crash`, `Restart` and `Recover`
the rest of the server's life. `proc[l]` is the child, which survives a crash
of the server; `ChildClaim` and `ChildConclude` are its guarded updates of the
row. `CommandStart` and `CommandEnd` are the CLI bridge, the other user of the gate.
`ScanLifecycle` is the promise: queued once, started at most once, one verdict.
It has the same variable `status`, so the refinement mapping is the identity.
A database call that fails has had no effect here; that an answer of the Writer
is lost after the commit is left to `WriterQueue`.

### WriterQueue and SerialStore

A request passes through the handler (`Receive`, `Reject`, `Enqueue`,
`Respond`), the queue (`Settle` is drain()'s loop) and the job (`Execute`,
or `Begin`, `Statement`, `Commit` or `Rollback`, or `SkipMigration`). A job has
no await, so nothing of the same process comes between its statements, but
`Crash` may. On the sender's side are `Deliver`, `Timeout`, `Reset` and
`Bounce`. Statements are abstracted to effects `<<request, index>>`; a migration's
last statement is its row in the migration history. `SerialStore` has no queue
and no statements: a request is applied or refused at one instant. The mapping
is `fate`: a request is decided when its job ended or could not be sent.

### WriterElection

Lock directory, owner file and socket are three paths; each file operation is
an action that acts on whatever is at the path *then*. Writers go through
`MakeLock`, `WriteOwner`, `OpenConnection`, `Serve`, and back through
`CloseConnection`, `RemoveSocketFile`, `RemoveLockDirectory`. Clients go through
`Connect`, `ReadOwner`, `Judge`, `RemoveStaleLock`, `RemoveStaleSocket`,
`SpawnWriter`, `Poll`, `RedundantGone`, and `Close` and its outcomes. The
environment kills Writers, stops them, makes starts fail, and lets a client run
out of patience (`StartTimeout`).

### ProfileRun

`pc` is the stage of runProfileScan; a stage has an action for its success and
one for each way in which it throws, which says what the catch block removes
and whether it fails the row. A step of the profile leaves one of the results of
executeProfileSteps (`completed`, `failed`, `blocked`, `skipped`,
`not_applicable`) and sets the flags `failing` and `optional`. `Cancel` changes
the row at any moment, `Kill` ends the process some time after. The job (plan,
target, provider, policies) is chosen in the initial state.

Abstractions: what a scanner finds is a set of severities; the coverage ledger
is a Boolean that can only turn success into success with warnings, as in the
code; all database failures are one budget.

### ResourceLease, RuntimeBundle, DynamicRun and LeasedWork

`docker` is what exists, `up` what runs, `row` the lease; a receipt is the set
of resources it names. `ResourceLease` has the commands that remove (`Removable`
says when Docker refuses), the repository (`Acquired`, `Released`,
`Quarantined`, `Recoverable`), the janitor (`ReapList`, one `ReapRemove` per
command, `ReapRelease`, `ReapQuarantine`) and what may happen to the lease
(`Expire`, `DeleteScan`, `OwnerDies`, `JanitorDies`). A command that fails may
have been carried out: the command runner has a time limit.
`RuntimeBundle` is a script: `Scripts` lists the Docker commands for each kind
of database, `RunCommand` and `CommandFails` take them one by one, and
`Remember` stores the receipt between a create and the start. `Stop` and the
catch block share `CleanupChild`, `CleanupRelease` and `CleanupQuarantine`.
`DynamicRun` follows run() through `CreateRun`, `Prepare`, the executor
(`CreateVolume`, `Spawn`, then `Exit`, `Timeout` or `OutputLimit`, `Collect`,
`RemoveContainer`, `RemoveVolume`), `Record`, `Evidence`, `Catch`, `Finally` and
finalizeTemporaryWorkspace; `Result`, `hasDockerError` and
`evaluateDynamicOutcome` decide what is recorded. `LeasedWork` lets the worker
be of either kind and puts it next to the janitor and the scan. The containers
of scanners and of the HTTP executor run without a lease and are not part of the
model, so nothing is said of what becomes of those.

### ScanDeletion

A request goes through `Find`, `Check`, `List` and `Commit` (or
`CommitRefused`, `CommitThrows`) to `Enqueue`; between any two of them scans and
their children start, finish, are cancelled (`Decide`) or lose their process
(`Die`). `ActiveWork` is both the list the services make and the condition of
the triggers, `Cascade` the rows a commit takes along. `writer` chooses between
the batch of the Writer, which does not notice that the row is gone, and the
transaction in the process, which does. A cleanup job is a row (`job`) and, in
the server, a task (`task`): `Claim`, `Remove` for each directory, `Complete` or
`Fail`. `Crash` is the end of the server and its next start with recover().

## 3. Runs

| Run | Instance | Shows |
|---|---|---|
| `capacity` | 4 callers, caps 2 and 2, configured limits 0, 1, 3 | within the limit, first come first served, no idle slot, every waiter served |
| `supervisor_contention` | a command and 2 scans, one of them asked for twice, one slot, one queue place, a cancel, one failing database call | no scan forgotten, no lost lease, no unowned child, one executor |
| `supervisor_restart` | 1 scan and a command, cancel, shutdown or crash at any point, one restart, a child that may hang | recovery leaves no scan of an earlier runtime, clean shutdown, no child for a decided scan, the lifecycle with orphaned children and its verdict, an accepted cancel ends the child |
| `supervisor_replay_spawn` | 1 scan launched twice, a cancel | **violation** of `SpawnOnlyActive`, see findings |
| `writer_requests` | a statement and two migrations of one file, queue of one place, stop, crash, senders that give up | implements `SerialStore`, migration once, sequence numbers, accepted requests are settled, stop() ends |
| `writer_election` | 2 clients, 1 Writer started by hand, one slow start | one owner, every client connects |
| `writer_recovery` | 1 client, 2 kills, 2 stops, 1 failed start, 1 slow start | recovery from a Writer that died at any point, nothing left behind |
| `writer_takeover` | 2 clients, 1 kill | **violation** of `OneWriter`, see findings |
| `profile_run` | plans of 1 to 3 steps of each kind, policy and preflight result, five combinations of target, provider and policy | fail closed, nothing left over, row decided |
| `leased_work` | one bundle (three kinds of database) or dynamic run (three kinds), two faults, death of worker or server, expiry, deletion of the scan | whatever runs is leased, a success leaves nothing, what was abandoned is reaped |
| `dynamic_lease` | the same with one fault | **violation** of `DynamicIsRecoverable`, see findings |
| `scan_deletion` | 1 scan with a DAST and a dynamic run, 2 requests for the scan or its project, with and without a Writer, one fault, one crash | active work is kept, directories go with their rows and with no others, a deletion is carried out |

**Bounds.** In `capacity` both caps are 2 and a configured 3 is clamped while 0
is raised; four callers fill both slots and the queue. In the supervisor, two
launches are what a race between launches needs; a third would be a copy of one
of them (launch tokens are symmetric). In
`supervisor_contention` the command is first at the gate (`CommandsFirst`): one
that comes later is part of `supervisor_restart`. One cancel per scan and canceller, since
a second one meets the same guards. One restart shows what orphans and stale
rows can do to the next server; a later one starts from the same situation.
`MaxFaults` counts failing database calls; one is enough to take each catch
block, and no catch block depends on another one having failed before.
For the Writer, one queue place is both "full" and "empty"; three requests are
one that runs, one that waits and one that is refused. In the election, Writer
identifiers are used again once nobody remembers them, so four or five stand
for any number of processes of which that many matter at once. In
`profile_run`, two steps show each influence of an earlier step on a later one,
and the plan of three puts a static step between two that share a target.
In `leased_work` two faults are needed for a removal that fails and a
quarantine that fails after it; one worker is enough because every worker has
resources and a row of its own, and the janitor goes through its rows one at a
time. In `scan_deletion` the DAST run stands for what a scan takes along by
cascade (reproductions too), the dynamic run for what is deleted by its id; two
requests are what it takes for one to act on what the other has changed. The
instance of `writer_requests` has no batch: it takes the steps of a migration
without the history row, and the proofs cover it.

**Deadlock** is not checked where the system may stop (all requests answered,
the last server down, the scan returned). `capacity` may always be reconfigured, so
deadlock is checked there.

**Fairness.** `ProcessCapacity`: leases are released, since the supervisor and
the bridge bound the run time of their children. `ScanSupervisor`: the event
loop runs what is ready (coroutines, timers), SIGKILL ends a child, a command
ends, and a server that is down is started again. No fairness for users,
children of their own accord, crashes or faults. `WriterQueue`: the event loop runs handlers,
jobs and drain while the process lives; senders owe nothing. `WriterElection`:
processes that are not killed go on, time passes, a client that has to write
tries again. `LeasedWork`: time passes and a janitor that is running goes on;
nothing is assumed of the worker. The server starts the janitors only when
runtime isolation is configured (`hono-runtime.ts:400`), so the result is about
such a server. `ScanDeletion`: the event loop goes on with requests that have
committed and with jobs in flight; a failed job waits for the next start.

**Exclusions that are written into properties.** `ActiveScanHasKeeper` and
`EndsDecided` are about a database that answers: the code gives up on a row
when recording the failure fails. `ServingIsReachable` and
`ClientConnects` exclude the combination of a client that gave up on a living
Writer with another failure: a stop, a kill, a start that failed, or a second
give-up where clients also shut Writers down (`close()` may then give up on the
Writer it has just stopped). A client then cleans up a Writer that is merely
slow. `CleanShutdown` excludes a launch that begins after shutdown()
has taken its list, and a child that SIGKILL did not end.
`NothingLeftOver` names one hole of the code: if the profile inputs cannot be
fixed, the source snapshot and the runtime projection of admission stay on disk.
`EndsDecided` does not speak of a throw within admission (stage `torn`): the code
leaves the row running there, and for a Web scan the supervisor's monitor fails
it when the child has gone. A killed run has no obligations: signals end the
child without its finally blocks. `FailClosed` rests on `JobsAssumption`, that
the runtime steps of a profile are all fatal or none is; the profiles in the
repository satisfy it, no code enforces it.
`RunningIsLeased` does not speak of a scan that was deleted (its leases go by
cascade while a cancelled worker may still create containers), of a lease that
expired while its owner was at work (it is never renewed, and the janitor then
works on an old receipt), nor of a dynamic run that could not clean up (see
findings). `SuccessLeavesNothing` excepts a dynamic run whose time was over: its
failed cleanup is not part of its status. `NoOrphanedArtifacts` excepts a run
that started while a request held its manifest (`unlisted`, also when that request
is refused and another one deletes the row later) and a cancelled process that
wrote once more (`rewritten`). `DeletedIsCleaned` excepts a removal during which
the server died: the job stays running, and a start within five minutes does not
recover it. A crash before the job was claimed is no excuse: the next start
has to find the job in the ledger and carry it out. Each of these exceptions is needed: without it TLC finds a
behaviour that violates the property.

## 4. Findings

* `supervisor_replay_spawn`: cancel() drops the pending entry and persists the
  cancellation later. A replayed integration request that reads the row between
  the two is launched anew and may spawn a child after the cancellation was
  written. The child's guarded claim then fails, so no work is done;
  `OneExecutor` holds nevertheless, and so does the lifecycle.
* `writer_takeover`: two clients that have read the owner of the same killed
  Writer both remove the lock by its path; the second removal may hit the lock
  of the Writer that the first client has started. Two Writers then have the
  database open, contrary to the "one Writer process per database" of the
  repository's README. With one recovering client this cannot happen
  (`writer_recovery`), nor without a kill (`writer_election`).
* `dynamic_lease`: the command line program asks for a scan "so Dynamic
  resources have a recoverable parent lease" (`api/cli/dynamic-run.ts:134`). When
  the executor cannot remove the container it says so, but the finally block of
  run() releases the lease all the same; the container keeps running and no
  janitor lists a released lease. A bundle quarantines its lease in the same
  situation. If the run's time was over as well, the failure is no part
  of the status: a fuzz run ends as completed, and only
  `metadata.execution.terminationReason` tells of it.

## 5. Theorems

`ProcessCapacity_proofs`, for every finite set of callers, positive caps and
integer limits (`RequestsFinite`, `CapsPositive`, `ConfigurableIntegers`):
`CapTypeCorrect`, `CapAccounting` (the counter is the number of leases),
`CapNoStrandedWaiter`, and the action properties `CapWithinLimit`,
`CapFirstComeFirstServed`, `CapWorkConserving`. The inductive invariant is
`CapInv`: accounting alone is not inductive, because a dispatch must be known
to hand leases only to requests that hold none. `QueueConsistent` adds that:
the array holds every waiting request and otherwise only aborted ones.
`DispatchFacts` is the lemma on the loop, `HandOut` the summary of what a step
hands out, from which the three action properties follow. `CapAccounting` and
`CapNoStrandedWaiter` are stated by theorems only; no run repeats them, since
the invariants they are part of are checked by the proofs for every instance.

`WriterQueue_proofs`, for any requests, sizes, files, checksums and queue
depth (`KindsOfRequests`, `SizesOfRequests`, `FilesOfMigrations`,
`DepthNatural`, `NoneIsNoRequest`): `WriterTypeCorrect`, `WriterDrains`,
`WriterMigratesOnce`, `WriterNumbersRuns`, and the refinement
`WriterImplementsStore`. The inductive invariant `WQInv` has one named part per
idea: `Queue` (what is queued is in the queue, once), `Current` (only the job
taken runs), `Transaction` (what the open transaction holds, and that a
migration within it is not yet recorded), `Database` (only committed requests,
and wholly), `Replies`, `Numbered`. `Transaction` is what makes the commit a
single step of `SerialStore`; `Database` is what a migration that is skipped
relies on. `StepRefines` maps each action to a step of the store or a stutter.
`WriterDrains` (the database is closed only when nothing is queued or running)
is stated by its theorem only.

`ScanSupervisor_proofs`, for any scans, launches, commands and replayed
requests, any number of server processes and of failing database calls
(`NoneIsNoLaunch`, `CommandsAreNoLaunches`, `BoundsNatural` and what the gate
assumes): `SupervisorTypeCorrect`, `NoLeaseLeaks`, `NoChildIsLost`,
`ScanHasOneExecutor`, `NoScanIsForgotten`, `StaleScansAreRecovered`, the action
property `ShutdownIsClean`, and `RowsKeepPromise`, the safety part of the
refinement of `ScanLifecycle`. None of them is inductive, nor is their
conjunction: what a coroutine does next rests on what it read before an await.
`SupInv` therefore says where everything is. `Stages` ties the step of a launch to
its lease, child and monitor; `Maps` makes `pending` and `owned` exact; `Rows` is
what a read status still means later; `Aborts` and `Tokens` say that whoever takes
a scan out of the hands of its launch sees to a verdict (`Settling`), which is
what `ActiveScanHasKeeper` needs when a cancel meets a launch of a replayed
request; `Cancels` and `Stopping` follow the shutdown. The proof has one lemma per
family of actions (`StepInv` puts them together) and frame lemmas for what an
action leaves alone (`QuietInv`, `StageKept`, `KeeperKept`, ...).
`SpawnsAreActive` is `SpawnOnlyActive` under `Replays = {}`; the run
`supervisor_replay_spawn` shows that the hypothesis is needed. Its invariant
`LaunchedOnce` adds to `SupInv` that a scan on its way to its spawn is active and
that nobody is about to decide it.

`ScanDeletion_proofs`, for any scans, runs and requests, with and without a
Writer (`DeletionAssumption`, whose last part keeps the project's identifier
apart from those of scans): `DeletionTypeCorrect`,
`RemovalOnlyAfterDeletion`, `LedgerKnowsOrphans`, and the action property
`ActiveWorkSurvives`. `DeletionInv` follows a directory: `Requested` and `Listed`
are what a manifest that was read before the transaction is still worth when it
commits, `Bereft` what a deletion leaves of a scan, `Ledger` and `Removing` what
jobs and removals in flight name.

`LeasedWork_proofs`, for any number of faults (`FaultsAssumption`):
`LeasedTypeCorrect`, `WhatRunsIsLeased`, `SuccessIsClean`. `LeasedInv` needs
`BundleKnows` (at each command of a script, what exists is known to the owner or is
the child about to be remembered, and a clean-up without failure has the rest on
its list) and `DynamicKnows` (the same for the two resources of a dynamic
run); `Leased` says that the janitor comes only after the owner while nothing
disturbs the lease. The scripts are constants of the model, and the lemmas on them
(`ScriptsAreBegun`, `CommandFacts`) go through each kind of database.

`ProfileRun_proofs`, for every profile, plans of any length, any severities and any
number of faults (`JobsAssumption`, `FaultsAssumption`): `RunTypeCorrect`,
`RunFailsClosed`, `RunLeavesNothing`, `RunIsDecided`. `RunInv` has `Staged` (row,
target, lease and verdict at each stage), `Spaces` (which workspaces there may be)
and `Flags`: while no flag is raised every step so far has passed. `Flags` is where
`JobsAssumption` is used, since a step blocked by the target of an earlier one
raises no flag of its own.

`WriterElection_proofs`, for any clients, Writers and bounds (`NoneIsNoWriter`,
`OwningClients`, `ElectionBounds`): `ElectionTypeCorrect` and `WritersCleanUp`
hold without further hypotheses; the latter from `Tracked`, that a file names a
Writer that still has the removal before it. That there is one Writer is false in
general (finding `writer_takeover`), so two theorems say when it is true.
`ElectionIsSound`: any number of clients, hand-started Writers and timeouts, while
no Writer is killed, stopped or fails and no client closes with
`shutdownIfOwned`; the invariant `Undisturbed` says that every owner a client
remembers is alive, so no client ever removes a file. `RecoveryIsSound`: one
client, any kills, stops, failures and closes, as long as it has given up on no
living Writer and none is started by hand; the invariant `Recovering` says that
files are removed only when every Writer has gone, because the client polls for
the only one that may be on its way. Both conclude `OpenIsOwner`,
`ServingIsReachable` and `OneWriter`. The hypotheses are the conditions that the
code does not enforce: beyond them TLC finds two Writers.

The inductive invariants were checked by TLC on the instances of the runs before
they were proved.

Only model-checked: the liveness properties and everything with fairness
(out of the prover's reach, as is ENABLED): `WaiterIsServed`, `CancelStopsChild`,
the fairness of `LifecycleFairSpec`, `AcceptedIsSettled`, `StopTerminates`,
`ClientConnects`, `AbandonedIsReaped`, `DeletedIsCleaned`; and `OpenIsOwner` and
`ServingIsReachable` of `WriterElection` in the situations between the two
theorems (one client that gave up on a living Writer while nothing else went wrong
and Writers are being shut down). `OneWriter`, `DynamicIsRecoverable`, and
`SpawnOnlyActive` with replays are refuted. No module uses RECURSIVE operators.

## 6. Plan

Done, in this order: the gate and its proofs; supervisor, lifecycle and their
composition; the Writer's requests, the abstract store and the refinement
proof; the election; the profile run; leases, bundles, dynamic runs and their
composition with the janitor; deletion and artifact cleanup; then the proofs about
the supervisor, deletion, leased work, the profile run and the election.

Next, by importance:

1. Proofs: `ServingIsReachable` of `WriterElection` for one client after a single
   give-up (invariant: at most two Writers are on their way, and the one given up
   on holds nothing of the other's); that two workers of `LeasedWork` do not
   touch each other's resources, which the model takes for granted.
2. `ScanSupervisor` with two runtimes in one process (the second runtime of
   `getAppRuntime`), on the basis of the restart run.
3. The bounded process runner; DAST and reproduction runs.
4. NightWorkers idempotency and grants; account management; pure operators for
   finding groups and coverage, against reference definitions.

## 7. Running

    tlc -workers 2 -config ProcessCapacity.cfg MCProcessCapacity
    tlapm ProcessCapacity_proofs.tla

and likewise for the other pairs of configuration and MC module in
`PROJECT.json`. Each run takes from seconds to a few minutes.
