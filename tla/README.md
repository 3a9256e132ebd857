# RDK Web ToolChain: specifications and proofs

TLA+ specifications of the RDK Web ToolChain (its controller and the runner in
the conversion containers), their TLC configurations and TLAPS proofs. The
reference is the code under `src/`; the documents are quoted only where code and
documents differ. Paths below are relative to
`src/services/controller/rdkwt_controller/` unless they start with `runner/`,
`docs/` or `infra/`.

## 1. The system and its components

The controller is one process: a FastAPI event loop, one thread that executes
conversion runs (`rdkwt-runner`), one that executes board runs, a SQLite file,
an asset store and run directories on volumes. It drives short-lived runner
containers through Docker and boards through SSH. `infra/compose.yaml` restarts
it whenever it ends.

| component | state | operations | talks to |
|---|---|---|---|
| run repository (`infrastructure/db/repository.py`) | `conversion_runs`, `run_attempts` | create, claim_queued, set_running, set_stage, request_cancel, finish, retry, mark_interrupted, queued, active | worker and handlers call it, each call its own session |
| run orchestrator (`application/orchestrator.py`) | queue, `_pending`, worker thread | start, stop, enqueue, worker loop, reconciliation | handlers enqueue; it calls the run service, the repository and Docker |
| run service (`application/run_service.py`) | attempt directories: request, log, result, artifacts | submit, execute, cancel, retry, recovery, exports, comparisons | repository, catalog, Docker |
| Docker gateway (`infrastructure/docker/gateway.py`) | managed containers | create, recover, start, attach, wait, stop, remove, list | Docker, and through it the runner |
| catalog (`application/catalog_service.py`, `infrastructure/db/catalog_repository.py`) | projects, models, inspection status, calibration sets | uploads, finalisation, deletion, export and import | asset store; inspection status is written by run service |
| asset store (`infrastructure/assets.py`) | content-addressed blobs, staging, materialised calibration | ingest, promote, materialise, delete | catalog |
| devices and credentials (`application/board_service.py`, `infrastructure/credentials.py`) | devices, probe results, secrets | create, update, probe (a thread), delete | board gateway |
| board runs (`application/board_orchestrator.py`, `board_service.py`, `infrastructure/board.py`) | `board_runs`, queue, cancelled set, SSH sessions | submit, execute, cancel, start, stop | repository, credentials, SSH |
| maintenance (`application/maintenance_service.py`, `infrastructure/archives.py`) | cleanup plans and tokens, backups | preview, cleanup, backup, restore | reads both run repositories |
| runner (`runner/rdkwt_runner/`) | events, steps, result.json, artifacts | pipeline of steps, SIGTERM, timeout | the attempt directory |
| streams (`api/routes.py`) | position of each client | event and log streams with Last-Event-ID | files the worker and the runner write |
| configuration, profiles, settings, middleware, web UI, migrations | none, or fixed at start | pure or presentational | |

### What is hard here, and what makes each component correct

* **Runs.** Every repository call loads, computes and commits. The session
  factory opens no transaction for a SELECT (sqlite3's default) and the tables
  have no version column, so the worker and a handler may both commit over the
  same snapshot. Correct means: success is shown only for a runner that passed,
  an attempt executes at most once, a run agrees with its last attempt, a
  terminal attempt stays terminal, a cancelled attempt leaves no container.
* **Orchestrator.** The process may end between any two steps, and
  reconciliation runs in the worker thread while the API already accepts
  requests. Correct means: one runner, every container and every active row
  supervised, every queued attempt remembered and ended.
* **Docker.** Each call may fail, and a failure in the middle of `execute` must
  leave rows and containers that agree.
* **Model inspection.** Its status is written in a transaction of its own, from
  both threads. Correct means: READY only after an inspection, and no model
  waiting for an inspection nobody performs.
* **Boards, devices.** The same database races, an SSH session that `cancel`
  closes under its owner, and device rows read before an await. Correct means:
  no task on a device nobody probed, no remote directory left, every task ends.
* **Catalog, assets.** Shared blobs, multi-step imports and finalisations.
  Correct means: every referenced blob exists, no operation is stuck after a
  crash.
* **Maintenance.** Checks that are stale when used, swaps of several
  directories. Correct means: nothing in use is removed, a restore is all or
  nothing.
* **Runner.** A signal at any time. Correct means: exit code, result and events
  agree.
* **Streams.** Correct means: every event once and in order, then the end.

The full list of hazards, each at its line, is in `PROJECT.json`.

## 2. Plan and state

| module | what | extends | state |
|---|---|---|---|
| `OrmSession` | what a session writes back | | done |
| `RunRepository`, `RunLifecycle` | conversion and inspection runs | `OrmSession` | modelled, checked; every safety invariant and the action property proved (`RunLifecycleProofs`, `RunSupervisionProofs`, `RunAgreementProofs`) |
| `RunnerSlot` | abstract: what the orchestrator promises | | `RunLifecycle` implements it (checked and proved) |
| `BoardRepository`, `BoardTasks` | board tasks, the SSH session, cancellation, shutdown | `OrmSession` | modelled, checked; every invariant and the action property proved (`BoardTasksProofs`) |
| `BoardDevices` | devices, credentials, probes; composed with `BoardTasks` | `BoardTasks` | modelled, checked; every invariant proved, and that it implements `BoardTasks` (`BoardDevicesProofs`) |
| `Catalog` | projects, uploads, blobs, finalisation, import, deletion, cleanup | `OrmSession` | modelled, checked; every invariant proved (`CatalogProofs`) |
| `Restore` | the swap of a restore, its undo and later attempts | | modelled, checked; every invariant proved (`RestoreProofs`) |
| `Requests` | configuration: normalised, validated, used | | operators, checked through `Runner`; what is accepted is fit for the runner: proved (`RunnerProofs`) |
| `Runner` | the process in the container | `Requests` | modelled, checked; both invariants proved (`RunnerProofs`) |
| `EventStream` | a client that follows the events; composed with `Runner` | `Runner` | modelled, checked; its invariant proved (`RunnerProofs`) |

Of the plan nothing is left but what section 7 excludes: every invariant, action
property and refinement that a passing run checks is also a theorem, and the
liveness properties stay with TLC. No module declares a RECURSIVE operator, and
the assumptions on constants have names.

## 3. What is modelled

### RunRepository

The pair of status columns (a run's and an attempt's), the status tables, the
guards of the transactions; and, from `OrmSession`, `Flush`: SQLAlchemy writes a column only when
the value assigned differs from the value loaded, whatever the database holds by
then. A lost update is therefore lost or kept column by column.

### RunLifecycle

| in the model | in the code |
|---|---|
| `runs`, `rows`, `recorded`, `cancels` | `ConversionRun.status`; `Attempt.status`, `container_id`, `cancel_requested_at` |
| `models` | `ModelVersion.compatibility_status`, `inspection_run_id` |
| `box`, `result` | the container of an attempt; exit code and `result.json` as `_collect_result` and the checks after it see them |
| `queue`, `pending` | `RunOrchestrator._queue`, `_pending` |
| `wk` | the worker thread: program counter and the local variables of `_reconcile`, `execute` and the repository call it is in |
| `api` | the request handler on the event loop |
| `faults`, `crashes` | bounds only |

One action is one snapshot, one commit, one Docker call or one change of the
queue, so that every interleaving the two threads and the containers have is an
interleaving of actions. `Reconcile` is `_reconcile`; `Execute` is one work item
from `queue.get` to `_pending.discard`, error paths included; `Request` and
`Handle` are submission, inspection, cancellation and retry up to `enqueue`;
`ContainerExit` is the runner's end; `Restart` loses memory and both threads and
keeps database, files and containers. No handler modelled here awaits, hence one
handler at a time.

Decisions a reader should know:

* An attempt's key is its run and number; container names, labels and
  directories are functions of it.
* The two SELECTs of `_load_pair` are one snapshot, and the reads of one request
  that come before its first commit are made together.
* Statuses a stage event can give are the constant `Stages`; event payloads,
  error codes and texts, time stamps, the `recovered` flag and the `stage`
  column are left out. `StageEvent` may happen any number of times, in any
  order, which includes the replay of a whole log after a recovery.
* `docker stop` returns when the container has ended, having left any result.
  `docker rm` without force fails on a running container. Attaching to a
  container that was never started waits; this is how we read Docker, whose code
  is not in the repository. After a restart between `set_running` and `start`
  the recovered attempt then waits, and with it the queue, until somebody starts
  or removes the container; `stop` has no effect on it.
* Containers and queued rows are reconciled in any order (the code has an order
  of its own; ours includes it).
* `stop()` is part of `Restart`: it gives the worker a second and the process
  ends in any case.
* Database errors are not modelled: any commit succeeds or the process is down.
* A result is one of: none or not acceptable; succeeded with exit code 0;
  succeeded with another exit code; failed; cancelled. `Runner` says how the
  runner arrives at it; here every end allows every result.

### RunnerSlot

What the orchestrator promises without threads, queue, database or failures:
attempts wait, run and are over; at most `Slots` run; none runs twice; success is
shown only for an attempt whose runner passed. `RunLifecycle!Slot` is the
refinement mapping: the phase of an attempt is read off its container, `passed`
off its result, `shown` off its row.

### BoardRepository and BoardTasks

| in the model | in the code |
|---|---|
| `status`, `cancels`, `payload` | `BoardRun.status` (the phase column always has the same value), `cancel_requested_at`, the artifacts in `result_payload` |
| `queue`, `pending`, `stopping` | `BoardOrchestrator._queue`, `_pending`, `_stop` |
| `cancelled`, `session` | `BoardGateway._cancelled`; the paramiko client and channel of a task |
| `remote`, `command` | the workspace `/tmp/rdkwt/<id>` and `hrt_model_exec` on the board |
| `wk`, `api` | local variables of `BoardService.execute` and `BoardGateway.execute`; of the handler on the event loop |
| `refused` | history: what was refused to a task that had its connection open (a listing of the artifacts, the listing of the workspace, anything else in the cleanup) |

`Execute` is one work item. The worker claims (`ClaimLoad`, `Claim`), connects,
looks at `_cancelled` (`Guard`), and then for each phase writes the status
(`PhaseLoad`, `Phase`) and talks to the board (`Upload`, `RunCommand`,
`CommandPassed`, `Collect`). Whatever ends the `try` block goes to `Finally`,
which is the `finally` clause: cleanup unless the settings keep the workspace,
and `Release`. Cancellation is three steps: the transaction, `_cancelled` under
the lock, and `close()` on the session after it (`CancelCommit`, `Signal`,
`Close`), each of which may meet the worker anywhere. `session` tells *severed*
(closed under its owner, or lost) from *closed* by the owner. A program whose
channel was closed may run on and hold its directory (*abandoned*).

A request fails for want of a connection or because the board refuses it on an
open one (`Fails`: SFTP answers with an error status). Three kinds of refusals
decide what the properties say, and each costs a fault and is remembered in
`refused`: `_download_tree` and `_remove_tree` take *any* listing that fails for
an empty directory and go on, so that `Collect` may list part of the artifacts
(`output`) and `CleanTreeUnseen` leaves the workspace without an error (`root`);
whatever else fails in the cleanup (the phase in the database, the SFTP session, a
listing below the workspace, a removal) is a `cleanup_error` (`PhaseFails`,
`CleanOpenFails`, `CleanTreeFails`: `cleanup`). Every other refusal ends the `try`
block as a lost connection does, may happen any number of times and needs no
memory (`PhaseFails` of an earlier phase, `UploadFails`, `RunFails`,
`CollectFails`).

### BoardDevices

The device row, its credential file, a probe in flight and the requests that
create, edit or delete the device, composed with the tasks of `BoardTasks` by
conjunction: `DeviceConnect` is `Connect` under the condition that the stored
credential opens the host of the task's snapshot, `SubmitCreate` is the second
half of a submission whose first half read the device (`SubmitRead`), with the
upload awaited in between. The credential is replaced before the database is
asked (`EditPut`, then `EditCommit` or `EditRefused`). `TheTasks` is the
refinement to `BoardTasks`: a handler about devices is an idle one there. `races`
is a history variable with the overlaps the properties name.

### Catalog

| in the model | in the code |
|---|---|
| `projects`, `models`, `versions`, `assets`, `runs`, `tasks` | the rows of those tables |
| `blobs`, `materialized`, `directories` | `assets/blobs`, `assets/calibration-sets`, `runs/` and `runs/board-runs/` |
| `uploads` | requests that await bytes, any number at once |
| `loop`, `importing` | the handler on the event loop between two of its commits, and the package it imports |
| `executing`, `plan` | the run on the worker thread; `MaintenanceService._plans` |
| `overtaken`, `cuts` | history: overlaps and what was cut in two, for the properties |

Files are written before their rows and deleted after them, each in a step of
its own, because the worker thread and the end of the process come between.
`BlobKey` is where the bytes go: calibrations of different types with the same
content share a file, not a row. Of the conversions only what meets the catalog
is here: submission, claim, end, and the cancellation over a stale snapshot.
`Cleanup` uses a plan that an earlier request listed.

### Restore

One action is one rename or one removal. A content is its generation: `old` (there
before the first attempt), `new` (of the archive), `empty` (made by the
controller). The forward part runs through the five stages (WAL files, database,
secrets, assets, runs) and for each moves what is there aside (`Move`) and
installs what was unpacked (`Install`); `Fail` enters the exception handler
(`Uninstall`, `PutBack`, `Undone`), in which a step may fail in turn
(`UndoFails`). `Crash` is a kill or a KeyboardInterrupt, which no handler
catches. Between attempts the user may start the controller (`ControllerRuns`).

Rollback directories and stages lie in the roots they serve, and
`_replace_root_children` moves every entry of a root but its own two. What ended
attempts left in a root is therefore one more entry of it, its *rest*
(`assets_rest`, `runs_rest`): a later attempt moves it aside with the others, puts
it back in its undo, and removes it when it has installed everything. A rest
comes from a rollback directory that is not empty when an attempt ends, or from
a stage whose removal was cut or failed (`Ended`). Several leftover directories
of a root are one entry, and empty ones count as nothing. The removals after
the swap ignore their errors one by one: `Discard` for each rollback path, and
`Succeed` for the rollback directories, where what could not be removed is a rest
again. The archive was made before the first attempt and holds no rest. `left`
remembers of which entries an ended attempt left the old content on a rollback
path.

### Requests

Operators, no state: `Normalized` is `normalize_configuration`,
`ValidConfiguration` the runner's check that the controller runs too,
`Accepted` what a submission must satisfy, `PreprocessError` and `VerifyError`
what the runner's steps then find in the data. `IsRequest` is what can get that
far: the types and limits of the API's models (`ConversionRunRequest` and those in
it) and the graph an inspection reports; only the limits the checks depend on are
in it. A picture is its width and height, an array its shape. `Rounded` is Python's rounding of a
quotient, half to even.

### Runner and EventStream

`Runner` is `execute_request`: the pipeline of an adapter, each step with its
`step_started` and `step_completed` events, tools with their exit, timeout and
SIGTERM, collection, `result.json`, the final event and the exit code, and the
exception handler, which collects, rewrites the result and appends an event.
`WriteFails` is any of those writes failing. `EventStream` adds a client: the
generator reads the whole file at once (`Read`), sends the lines the client has
not seen one by one, while the runner goes on (`Send`), then asks for the run's
status (`Ask`), and ends after two rounds without news on a terminal run. The connection may break with events
on their way and is resumed with Last-Event-ID. The log stream is the same loop
over another file; it is not instantiated.

## 4. Runs

Each model has an `MC` module with its instances. All configurations switch the
deadlock check off: runs, requests, faults and restarts are bounded, and when all
are used and the threads are idle the system rests.

| run | instance | properties | shows |
|---|---|---|---|
| `conversions` | two conversions, one attempt each, one fault (create, start, attach or remove), one restart | RunningIsSupervised, WorkIsSupervised, QueuedIsRemembered, ImplementsSlot | two runs compete for the worker and both may survive a restart |
| `inspections` | one inspection and its retry, one fault of any kind, one restart | TypeOK, SuccessIsEarned, SuccessGate, ReadyIsBacked, RunFollowsLastAttempt, QueuedIsRemembered, ReopenedOnlyByCancel | what the database shows is backed by a result |
| `progress` | two conversions, one fault (start or attach), no restart, fairness | ImplementsSlot with exactly one slot, EveryAttemptEnds, CancelledLeavesNothing | the queue drains whatever the races |
| `board_tasks` | two tasks (symmetric), one connection lost or one request refused on an open one, one shutdown or restart; both in one behaviour with one task only (`TroubleBound`) | TypeOK, BoardSuccessGate, WorkspaceIsRemoved, QueuedIsRemembered, ActiveIsExecuting, ReopenedOnlyByCancel | a task's row, session, workspace and program agree whatever is cancelled when, and which errors of the board a success hides |
| `board_devices` | one task, two connections, two requests that change the device, one shutdown or restart, fairness | DevicesTypeOK, ReadyIsProbed, TaskFitsDevice, CredentialFits, ImplementsTasks, QueuedTaskEnds | which overlaps let a device, its credential, its probe result and its tasks disagree, and that no other does |
| `storage` | two projects, two versions (npy and npy_multi), two contents, two uploads, one run, two samples a version, one fault, one restart | RowsAreBacked, InputsStay, RowsHaveDirectories, OneArchive, NothingIsLeft | rows and files agree under uploads in parallel, import, deletion and cleanup |
| `restore` | every archive over one entry in each directory, every state of the volumes, two faults, one crash, any number of attempts | WalFitsDatabase, FailedIsUndone, DoneIsArchive, OldIsKept | a restore is all or nothing, nothing is destroyed before it is complete, and what earlier attempts left is neither lost before nor kept after |
| `runner` | fourteen requests, of which the client follows the probe and the inspection over two connections, SIGTERM, one fault, fairness | ResultIsBacked, AcceptedIsRunnable, StreamIsComplete, StreamEnds | results, events and exit code agree; what the controller accepts runs; the client misses nothing |
| `one_runner`, `terminal_is_final`, `leftover_container`, `stuck_inspection` | the smallest instance of each | one each | section 6 |

**Bounds.** Two keys are what the races need: the worker handles one work item,
the API one request, so a third attempt adds queueing but no new pair of
snapshots. One restart covers every point at which the process may end; a second
one starts from a state that reconciliation of the first already handled. One
fault at each call covers each error path; the inspection run allows every kind.
`Slots` is `MaxCrashes + 1` because of the finding `one_runner`: after a restart
a new submission may be executed beside the runner that survived. With no
restart it is one, and that is what `progress` checks. The properties that use
`wk.serving` say nothing while reconciliation is under way, and nothing after a
failing `managed_identity` has ended the worker thread.

Boards: the worker executes one task and the event loop handles one request, so
two tasks give every pair (the one executed and one queued, or two cancelled in
turn); a third only queues. A fault concerns the task that is executed, and a
restart ends that execution: the constraint `TroubleBound` checks the two together
with one task submitted, each alone with two. `board_devices` has one task, because overlaps of a
device's requests with a task do not depend on a second one, and no fault
(lost connection or refusal), which `board_tasks` has. `MaxEdits` = 2 lets a device be created and
then edited or deleted under its task. `KEEP_REMOTE` is checked at its default
FALSE only: with TRUE the cleanup is skipped and the properties about the
workspace say nothing.
Storage: two versions of different types with the *same* content are what shared
blobs need, and a second content gives files that only one of them has. A package
brings a model and a version with one upload, so a second one races with the
conversion or the deletion of what the first created. `MaxSamples` = 2 stands for the limits 100 and 400, so that a version
fills up.
Restore: one entry in each directory may be absent, old, new or both, which is
all that moving and installing tell apart; two faults cover a failing step and
one failing step of its undo, a removal that fails after the swap, and a stage
that could not be removed, whose rest the attempt after it meets. The rests of
crashed attempts need no fault.
Runner: `MCOffers` has a plain request for each adapter and one variation for
each check that the controller and the runner make (counts, shapes, layouts,
crop, platform limits); requests that the controller refuses are among them and
have no behaviour, as in the code. `Watched` names the two shortest pipelines, to
keep the product small: the stream reads lines and does not look into them, and
the theorem about it holds for every request.

**Exceptions in the properties.** `races`, `overtaken` and `cuts` are history
variables that name the overlap an exception is about: a probe or a submission
that an edition overtook, a restart inside an edition, two archives awaited at
once, a run claimed under its cancellation, an upload, import, finalisation or
deletion cut in two. Section 6 says what goes wrong in each. The properties say
that nothing else does, and the mutants that the exceptions do not swallow the
property.

**Where supervision is claimed.** `conversions` leaves out failing list,
identity, recover and stop calls: when Docker cannot be listed the code gives up
every active attempt and lets its containers run, and a container that cannot be
stopped cannot be removed either. `inspections` includes them and checks that
even then nothing is shown that was not earned.

**Symmetry** is used in `conversions`, `board_tasks` and `storage` only, where
every property is a safety property symmetric in the values permuted.

**Fairness** (`progress`). Weak fairness of the worker's steps and of a handler's
steps: both are threads of a running process. Strong fairness of `LogEnds`: the
log of an exited container is finite and reading stops at `max_log_bytes`
(`application/run_service.py:1049-1091`), so stage events cannot postpone the
end for ever. Weak fairness of `ContainerExit`: the runner bounds its pipeline by
`timeout_seconds` (`runner/rdkwt_runner/adapters/openexplorer_v3_7.py:1718`).
None of requests, restarts or failures: nothing must happen for the queue to
drain. `EveryAttemptEnds` admits one more end, CANCELLING held by a cancellation
that was committed over a stale snapshot after the attempt ended: until the next
restart nobody finishes such a run. It also admits an attempt that a cancelled
earlier attempt of its run overtook (section 6); in `progress` a run has one
attempt, so that there this exception is empty.

In `board_devices`: weak fairness of the worker and of the handler on the loop,
and a controller that was stopped is started again (`infra/compose.yaml`).
Nothing is assumed of the program on the board, because `_run` has its own
timeout (`infrastructure/board.py:529-558`); transfers by SFTP have none, and
that they end is assumed. In `runner`: weak fairness of the runner's process, of
the controller's `finish` and of the generator, and a browser that resumes a
broken stream. Nothing makes a tool end: `StreamEnds` rests on the timeout of
`_run_command`.

## 5. What is proved

`RunLifecycleProofs`, for all runs, models, bounds and fault kinds, from
`StagesAreWorkingStatuses` (stage statuses are neither terminal nor QUEUED) and
`LifecycleAssumption` (the constants have their types):

* `TypeCorrect`: `Spec => []TypeOK`. `TypeOK` also says that a thread names an
  attempt wherever it is about to use one, and an inspection wherever it is about
  to write a model, without which the functions could not be applied.
* `SuccessIsGated`: `Spec => []SuccessGate`. `SuccessGate` alone is not
  inductive: `finish` stores the outcome the worker decided several steps before.
  `SuccessIsEarned` adds what the worker knows on the way: its container is
  created from `create` to `start` (`HoldsCreated`) and exited from the end of
  the log to the removal (`HoldsExited`), the result it read is the result of the
  attempt (`ResultIsRead`), and an outcome of SUCCEEDED is backed by the result
  and, when it is about to be stored, by the removal (`OutcomeIsEarned`). No
  other action touches an exited or removed container, and a stale commit of the
  API can take a success away but cannot make one.

The lemmas follow the actions: one per group of the next-state relation, and the
shared ones on commits, the queue, Docker calls and attempt numbers.

The second half of `RunLifecycleProofs`, from the same assumptions, is what the
other two theorem modules about runs need of the work items. `TaskInv` adds: `pending`
holds exactly the attempts that wait in the queue or are served, none of them
twice (`QueueInv`); attempts are numbered without gaps and a retry adds the next
number (`NumbersInv`); whoever names an attempt names one that exists, and one
that was claimed is never QUEUED again (`KnownInv`); a container that was started
belongs to an attempt that was claimed, and its result is there only once it has
ended (`BoxInv`); a READY model has such a result (`ResultInv`).

* `TaskCorrect`: `Spec => []TaskInv`, and `ReadyIsInspected`: `Spec => []ReadyIsBacked`.

`RunSupervisionProofs` assumes `DockerAnswers`: the fault kinds do not include
`list`, `recover` and `stop`. The code gives up every active attempt when Docker
cannot be listed and cannot remove a container it could not stop, and then a
runner goes on without a supervisor; the runs `conversions` and `progress`, which
check the same two properties, satisfy the hypothesis.

* `RunnersAreSupervised`: `DockerAnswers => (Spec => []RunningIsSupervised)`. The
  invariant says what a running container waits for: its work item, a step of
  reconciliation that still has it on a list, or the worker (`RunningIsExpected`);
  conversely that an attempt the worker may leave, or claims as new, does not run
  (`WorkerHolds`, `IdleIsNotRunning`).
* `ImplementsRunnerSlot`: `DockerAnswers => (Spec => Slot!Spec)`. Each step changes
  at most one container and at most one row (`OneBox`, `OneRow`), which makes it a
  step or a stutter of `RunnerSlot`. That at most `Slots` run at once is a counting
  argument: the containers that run and that the worker is not on are at most as
  many as there were restarts (`FewOthers`).
* `RunnersAreFew`: under the same hypothesis at most one container more than there
  were restarts so far runs. `CleanUntilRestart`, from `DockerCleans` (the fault
  kinds do not include `stop` and `remove`; any other call may fail): until the
  first restart
  `OneRunner` and `NoLeftoverContainer` hold, because the worker holds every
  container from its creation to its removal (`PresentIsHeld`). These are two of
  the four properties that section 6 shows violated: with working `stop` and `rm` it
  takes a restart.

`RunAgreementProofs`, for every kind of fault:

* `RunFollows`, `WorkSupervised`, `QueuedRemembered`: `RunFollowsLastAttempt`,
  `WorkIsSupervised` and `QueuedIsRemembered` always hold; `ReopenedByCancel` is
  the action property. The invariant is about the snapshots: as long as nobody
  cancelled, the one that the worker or a retry commits over is not stale
  (`SeenRow`, `SeenRun`, `RetryRun`), because attempts that are given up, looked
  at and queued again are different ones (`Apart`), claimed attempts show an
  active status and waiting ones do not (`RowInv`), and the earlier attempts of a
  run have ended (`EarlierEnded`).

`RestoreProofs`, for all asset and run entries, archives, faults, crashes and
attempts, from `RestoreAssumption` (the kinds of entries are distinct):

* `OldSurvives`: `Spec => []OldIsKept`. An attempt holds the old state in two
  places while it runs, so the invariant says where. What is aside is on the list
  `moved`, so the undo and the discard reach it, and nothing is aside between two
  attempts (`AsideIsMoved`); what the undo removes is the archive's
  (`InstalledIsNew`); a rollback path is free when something is moved to it, and
  a place is free when something is installed there (`PlacesAreFree`); rollback
  paths are discarded only after everything is installed (`DiscardIsLast`).
  `PlacesAreFree` is about the stages still to come as well, which is why the
  stages must be disjoint sets of entries (`StagesAreApart`) and be visited in
  one direction (`NextStage`). Old content that an ended attempt left in a root is
  part of its rest, and that of the other stages lies where no attempt looks; a
  rest moves and returns like any other entry, and is never installed
  nor removed by the undo (`RestsAreOld`).

  Its second half is about how far an attempt has come. `AttemptInv` says that
  each entry is untouched, set aside or replaced according to its stage
  (`StageByStage`), and that in the undo, as long as one failure is all there was,
  each entry can still be returned (`UndoReaches`) and what is aside is still on
  the list (`Returnable`), so that a complete undo makes no rest.
* `FailedLeavesBase`: `Spec => []FailedIsUndone`; `DoneLeavesArchive`:
  `Spec => []DoneIsArchive`. The latter covers what earlier attempts left: a rest
  of a root in the scope is moved aside with the other entries, and it, or
  another, is there after a success only if a rollback path of that root could
  not be removed. From the last installation on, every place has what is wanted
  there (`AllWanted`), and the removals touch no place but those of the rests.
* `WalStaysWithDatabase`: `Spec => []WalFitsDatabase`. The property needs the
  order of the steps in both directions. Forward, the WAL is gone once the first
  stage has moved it (`WalIsGone`) and no archive has one (`NoWalPacked`). In the
  undo, the database of the archive is removed before the old one returns, so its
  place is empty (`DbIsSwapped`); the old one was moved after its WAL and so
  returns before it (`DbIsLast`), and the WAL that then returns was aside with
  that database (`AsideFits`).

`CatalogProofs`, for all projects, versions, contents, uploads, runs and limits,
from `CatalogAssumption` (ids of runs and of board uploads differ, as their
directories do: `runs/` and `runs/board-runs/`):

* `RowsBacked`, `InputsRemain`, `DirectoriesRemain`, `ArchiveIsAlone` and
  `NothingRemains`: the five invariants of the run `storage` always hold. None but
  `RowsHaveDirectories` is inductive. A row is backed because the handler that
  commits it promoted its file before and no purge has that file in hand
  (`LoopHolds`, `Named`); a project can be deleted because what its rows name
  belongs to projects that exist (`Owned`) and nobody else uses a project that an
  import creates (`ImportIsAlone`); the inputs of a conversion stay because its
  rows are those of READY versions of a project that cannot be deleted
  (`RunsAreFed`); two archives met because the second one found the first
  awaited, in which case the first is in `overtaken`, whichever is registered first
  (`ArchivesMeet`, `RegisteredMeets`); and what is left is in the hands of the
  handler on the loop (`FilesAreNamed`, `SetsAreNamed`) until a fault, a refusal
  or a restart adds to `cuts`.

`BoardTasksProofs`, for all tasks, faults and restarts, and for both values of
`board_keep_remote`, from `TasksAssumption` (the constants have their types):

* `TasksTypes`, `QueuedIsPending`, `ActiveIsAtWork` and the action property
  `EndsStay`. The queue holds each task once, and not the one the worker is on
  (`QueueInv`); a claimed task is never QUEUED again (`KnownInv`); and as long as
  nobody cancelled, the snapshot the worker commits over is the row (`StatusInv`),
  which is why no step changes the row of an ended task unless its cancellation
  was requested, in that step or before.
* `SuccessIsGated`: `Spec => []BoardSuccessGate`, and `WorkspaceGoes`:
  `Spec => []WorkspaceIsRemoved`. A task that was never connected has nothing on
  the board (`UnusedInv`); from there the invariant follows the phases: what a
  phase needs of the board is there when it begins (`WorkInv`); an incomplete list
  of artifacts means a listing that was refused or a connection that is gone, and
  in the second case the cleanup fails too; refusals are of the task the worker is
  on (`RefuseStep`, `FailsStep`, `RefusedStays`), and one of the cleanup sends the
  worker to `release` with an error, so that a success has none; and an outcome
  of SUCCEEDED is earned from the end of the cleanup to the commit (`EarnedInv`).
  Both theorems say nothing when the settings keep the workspace, as the
  properties do.

`BoardDevicesProofs`, for all tasks, connections and requests, from
`TasksAssumption` and `DevicesAssumption`:

* `DevicesImplementTasks`: `DevicesSpec => ImplementsTasks`. Each action is the one
  of the same name under the mapping; a handler about devices is hidden because
  a handler that is over leaves nothing behind (`ApiRests`). With it the invariant
  of `BoardTasksProofs` holds here too, and is what the next ones rest on.
* `DevicesTypes`, `ReadyWasProbed`, `TaskFits`, `CredentialIsTheDevices`: the four
  invariants of the run `board_devices`. `TaskFitsDevice` needs that a step of the
  worker or of a handler resumes no task that is over unless it was cancelled
  (`NoneRevives`), and that a device is only created where there is none;
  `CredentialFits` needs what the credential is during each handler
  (`CredentialInv`).

`RunnerProofs`, for all requests, faults and numbers of connections, from
`RunnerAssumption` (the offers are requests in the sense of `IsRequest`) and
`StreamAssumption` (the constants have their types):

* `AcceptedRequestsFit`: of every request that `normalize_configuration` accepts,
  the runner finds the configuration valid, enough samples of the right shapes
  and the inputs of the verification in order; a crop fails only under a
  `resize_short` that the user chose below its longer side. No state is involved:
  the lemmas follow one input through both sides. The number of samples is
  bounded in both (`EnoughSamples`); the shapes in the set's report are those of
  the completed inputs (`ArraysOfAccepted`), a picture's is made of the crop and
  the crop of the same axes (`ImagesInput`); with the shorter side at least as
  long as the crop's longer side the crop lies inside, whatever the quotient is
  rounded to, because the other side is never made shorter (`SmallCropFits`).
* `AcceptedRuns`: `Spec => []AcceptedIsRunnable`; with the above, an error of those
  kinds has no step that raises it, and every other step raises another code.
* `ResultBacked`: `Spec => []ResultIsBacked`. What is left of the pipeline and what
  is done make it up, and the collection is its last step (`PipelineInv`); tools
  of steps that are done have passed, and the generated configuration is there
  once the preprocess step is over (`StepInv`), which precedes the compilation in
  every pipeline (`PipelineSteps`); so from the collection on the manifest lists
  what is there, required files included (`Collected`), also while the exception
  handler has not rewritten the result yet (`ResultInv`).
* `StreamComplete`: `Spec => []StreamIsComplete`. The client has exactly what was
  whole up to the last event it got, over all connections (`StreamInv`). A file
  only grows, and a line that was whole stays so (`WholeStays`); the first idle
  round after the end is followed by another read, which goes as far as everything
  that was due, so that the second idle round shows that it was all sent.

TLC has found `WatchInv`, the conjunction of these, to hold on the instance of
`runner`. `EventStream` takes the lines of the file as a set of positions and not
with `SelectSeq`, whose definition is recursive and out of the prover's reach.

Only model-checked: the liveness properties `EveryAttemptEnds`,
`CancelledLeavesNothing`, `QueuedTaskEnds` and `StreamEnds` (temporal reasoning
under fairness is beyond the prover), and the disagreements of section 6, which
are counterexamples.

## 6. Where code and documents differ

* `one_runner`: reconciliation and the API run side by side. A run submitted
  before the worker enqueues the recovery of a surviving container is executed
  first: two runners. `docs/PROJECT_DESIGN.md:1832` promises one.
* `terminal_is_final`: `claim_queued` and `request_cancel` over one snapshot; the
  cancellation answers CANCELLED and the claim overwrites it. The other way round
  a finished attempt becomes CANCELLING. `docs/PROJECT_DESIGN.md:372` says a
  terminal attempt cannot be modified. `ReopenedOnlyByCancel` bounds the damage.
* `leftover_container`: after a restart between `create_frozen_attempt` and
  `set_running` the attempt is given up and its container skipped by the orphan
  loop, because the attempt was active when it was read; it stays until another
  restart. `docs/PROJECT_DESIGN.md:1487` says it is cleaned up.
* `stuck_inspection`: the end of an inspection and its verdict are two
  transactions; after a restart between them the model stays INSPECTING and new
  inspections are refused as "already queued". Here a restart is not needed: a
  submission during reconciliation is queued from its row, and when the worker
  records the verdict before the handler marks the model
  (`application/run_service.py:265`), the mark stays.

Observations that no violation run states; most are the exceptions that the
properties of section 4 name.

Conversions. The design document (18.4) deletes a container after the terminal
status is stored; the code removes it first (`application/run_service.py:587-603`),
which is what makes the removal part of `SuccessGate`, and is why a restart
between the two marks a passed attempt INTERRUPTED. A run cancelled over a stale
snapshot shows CANCELLED while the worker still executes its first attempt.
`RunService.retry` looks at the status of the run only
(`application/run_service.py:732-755`) and queues a second one; the end of the
first then overwrites the status of the run, `claim_queued` refuses the second,
its work item is dropped and its row stays QUEUED: no restart reads it as queued
again. This is a consequence of the race that `terminal_is_final` shows.
`RunFollowsLastAttempt`, `WorkIsSupervised` and `QueuedIsRemembered` are
therefore stated for runs that nobody cancelled; that they hold of all of those,
retried or not, is proved.

Boards. `request_cancel` has the same race as for conversions: CANCELLED is
answered and the task executed, or a finished task stays CANCELLING until the
next restart and blocks every change of its device. ADR-017 promises that the
workspace is cleaned after a cancellation (decision 4): the cancellation closes
the connection the cleanup needs, so that a cancelled task leaves it
(`WorkspaceIsRemoved`). A listing that the board refuses once, the connection
open, gives SUCCEEDED with artifacts missing (`infrastructure/board.py:684-687`) or
leaves the workspace in silence (`infrastructure/board.py:735-737`); a listing
below the workspace, or a removal, that is refused makes the task FAILED. ADR-017
marks tasks of a stopped controller INTERRUPTED
(decision 7): a graceful stop ends the current one FAILED or CANCELLED. An id
that is signalled after its task was released stays in `_cancelled`. A probe or
a submission that an edition overtakes writes READY for, or connects to, a host
the row no longer shows (decision 8).

Catalog. Two archives for one multi-input version may be accepted when their
uploads overlap, although "multi-input calibration accepts exactly one ZIP
archive". After a crash between materialisation and commit the version can never
be finalised (`CALIBRATION_ALREADY_MATERIALIZED`). A crash during an import leaves
part of the project. Cleanup takes the directory of a board upload that is still
in progress for an orphan, and the submission then fails. Cleanup is refused for
active tasks only; `docs/M5_RELEASE_CHECKLIST.md:47` says for queued ones too.
`delete_project` does not look at board tasks whose HBM lies in the run it
deletes.

Restore. After a crash between the removal of the old database and the
installation of the new one the next restore is refused until the controller has
made an empty database; a crash after the WAL files were moved leaves the
database without them. A failing unlink in the exception handler
(`infrastructure/archives.py:504`) leaves the rest of the undo out. Rollback copies of
the database and the secrets stay for ever after a crash. A removal that fails
after a successful restore is ignored (`infrastructure/archives.py:484-493`), and
the roots keep copies of what was replaced.

Runner and stream. A picture smaller than the crop passes the controller when
the user gave a `resize_short` below the longer side of the crop, and fails in the
container. A failure to write the last event rewrites a result that said
succeeded; when the rewrite fails as well, it stays and the exit code is 1. SIGTERM
is not looked at while artifacts are collected. A line that follows a torn one,
or whose text holds U+0085 or U+2028 (`splitlines` takes them for line ends), is
never streamed. After a recovery `_collect_logs` writes `stream.jsonl` anew and in
other chunks, so that a Last-Event-ID of the *log* stream from before means
another place.

## 7. What is not modelled

Exports, comparisons, downloads and lists read and change no state. The content of
files, YAML, artifacts, reports and logs, the checks of uploaded archives against
traversal and size, image resolution, GPU selection and the deployment boundary
of the Docker gateway, the parsing of board options and of the program's output,
and the preparation of NV12 input are data to the properties checked here: where
they may fail, the model has a failing action. Creation of a backup is modelled by
what the archive holds. The cleanup categories other than orphaned directories
remove files that no other component names. The web UI, profiles, settings,
migrations, the request filter and the system service have no state the
properties are about. Failing database calls are modelled in `Catalog` (commit of
a finalisation, import) and for the phases of a board task, not for conversion
runs nor for the submission, claim, end or device of a board task.

Two limits of the runner's modules: a failing write is one that wrote nothing (an
event whose line is in the file although its `print` raised is left out), and
`EventStream` follows one attempt, so that the status of the run only goes forward
(no retry, no reopening by a cancellation over a stale snapshot). The inputs of a
verification are in the order of the model's inputs in `Requests`; options that
name them in another order are not among the requests.
