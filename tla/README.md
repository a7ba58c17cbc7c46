# Verification of pymss-studio

TLA+ models of pymss-studio, a desktop application (Tauri: a Rust backend and a
Vue window) that runs music separation in Python worker processes.  The models
follow the code in `src/`; paths below are relative to it.  TLC checks the
models on small instances, TLAPS proves theorems about them for all values of
the constants.

Contents: [1 the system](#1-the-system) · [2 the plan](#2-the-plan) ·
[3 modules and code](#3-modules-and-code) · [4 runs](#4-what-the-runs-check) ·
[5 fairness](#5-fairness) · [6 proofs](#6-what-is-proved) ·
[7 disagreements](#7-where-code-and-comments-disagree) ·
[8 limits](#8-what-is-not-modelled)

To run it, in this directory:

    tlc -workers 2 -config MCTaskBatch.cfg MCTaskBatch.tla
    tlapm RuntimeAccessProofs.tla

`PROJECT.json` lists the components, the runs with their properties, the
hazards of the code, the theorems, for every definition the lines it models,
and for every checked property a mutant of the model that breaks it.

## 1. The system

### Processes and how they interact

    window (Vue/Pinia)  --invoke-->  backend (Tauri, Rust)  --spawn-->  Python worker
          ^                             |      ^                             |
          +------- worker events -------+      +----- JSON lines, exit ------+
                                        |
                                        +--spawn--> update helper (copy of the executable)
                                        +--spawn--> plugin scanner, audio host

The window calls the backend with asynchronous invocations and learns of
progress and outcomes from events that travel separately from the replies.  The
backend runs one thread per worker (the supervisor) that reads the worker's
output.  State shared between backend threads sits in mutex-protected maps
(`AppState`) and in two lease counters.  Only files survive an exit.

### Components

| Component | State | Operations | Hard part | Correct when |
|---|---|---|---|---|
| **Runtime lease** (`python/worker.rs` 80-250) | per lease `users`, `updating`, `installing_plugins`; one guard per successful call | acquire (never blocks), drop of the guard | threads come and go in any order; three counters must agree with the guards | counters equal the living guards; incompatible guards never coexist |
| **Worker supervisor** (`python/worker.rs` 1700-2040, `state.rs`, `commands/app_cmd.rs` cancel_task) | `tasks`, `cancelled_tasks`, `terminal_tasks`; per thread the ids seen and the events kept back; the child process | reserve, start, register, read a line, wait, drop leases, flush, settle, unregister; cancel in six steps | check and insertion are separate critical sections; cancellations race with each other and with the end of the worker | leases outlive the process; every entry is cleared; every task gets an outcome; a cancelled batch is dead |
| **Task queue** (`stores/task.ts`, `features/tasks/lifecycle.ts`, `utils/events.ts`) | task list with statuses, start calls that are pending, the limit, the stored history | submit, schedule, start, handle an event, cancel, change the limit, save, initialise | state read before an `await` and used after it; late and lost events; restart from a history 120 ms old | slots respected and never leaked; every queued task ends |
| **Windows update** (`update_manager.rs`, `main.rs`, `single_instance.rs`) | application files, staging and backup directories, the transaction marker, two mutexes | stage, apply, roll back, verify, commit; recover at the next start or in a recovery helper | crash between any two file operations; operations that fail; starts in the middle | originals kept until the commit; one version when there is no marker; recovery leads to a running application |
| **Synchronous queries** (`worker.rs` 1513-1693, `process_tree*.rs`) | a child process with its job object or process group, a deadline thread | query, time out | the deadline, the end of the worker and the end of its output come in any order; a helper may keep the output | the process lives only within its leases; every query with a deadline ends |
| **Editor export** (`stores/editor.ts`, `app_cmd.rs` 2440-2495, `worker_audio.py`) | render, temporary files, a `.cancel` file, the registry | export, cancel by polling, then a kill | five seconds of polling beside a worker that ends | the window tells the truth; nothing of it is left behind |
| **Model directory migration** (`model_dir_migration.rs`, `stores/settings.ts`) | one session, a question that waits, the two directories, the setting | start, answer, confirm, cancel | answers of the window race with the copying thread; failures and a crash | no model lost; the saved setting names a directory that has them |
| **Workflow editors and store** (`workflow_editors.rs`, `storage.rs`, `stores/workflow.ts`, `WorkflowNodeEditorView.vue`) | registry of editor windows, stored workflows with stamps, the overview | open, save, save a copy, close, refresh, recover | two windows, late events of a window that is gone, a reply that crosses a refresh | one editor per workflow; no save overwritten unseen |
| **Plugin host** (`commands/plugin_host.rs`, `commands/plugin_host/`, `utils/pluginHost.ts`) | one session with its helper process, the generation of loads; a scan with its catalog and exclusions | load, update, status, unload, discard and recover; scan, skip, cancel, restore; shut down | requests of several windows and the end of the application meet in the backend; plugins show dialogs, hang and die | no helper survives; a recovery takes nobody's session; a restore is not undone |
| Downloads (`stores/model.ts`, `worker_download.py`) | partial files, progress per model | download, resume, verify, cancel | cancel against finish | no unverified file under its final name |
| **Linux and macOS update** (`linux_update.rs`, `macos_update.rs`, `macos_update/authorized.rs`, `update_startup.rs`, `scripts/install-macos-update.sh`) | the application's file or bundle, a directory beside it, the new process and what it has confirmed; a script of the administrator with a status and an outcome file | stage, swap, start and await the new process, commit or roll back, in the updater or in the script | two processes that talk through files, each of which may fail, be killed or time out while the other goes on | the old version kept until a new one has started; what is reported is on the disk; the update ends |
| **Single instance and quit** (`single_instance.rs`, `app_quit.rs`) | the lock, shared with the new process of an update; socket, close guards | take, inherit and release the lock; hand over arguments, delay the exit | a start while one instance replaces itself by another | one instance |
| Python workers (`src/python`) | none across calls | one command each | protocol only | writes outcomes and an exit code that agree |
| **Native audio host** (`native/audio-host`: `engine.rs`, `output.rs`, `protocol.rs`) | a clock of atomics with epochs, a ring of rendered frames, queues of commands and events; the audio graph | play, seek, pause, change the mix, capture states, recover from a change of latency, export, drop | control thread, rendering worker and device callback share the clock without a lock; every wait has a time limit, and what was given up may still arrive | playback ends when it has been heard; the position is what was asked or heard; no plugin is called while it renders; recoveries and exports end |
| Logs, terminal, views, build scripts | – | – | – | – |

`PROJECT.json` has the same list with sources, status and, where a part is left
out, the reason, and 40 hazards with the line where each bites.

## 2. The plan

Order of work, most important behaviour first.

1. `RuntimeLease`, `RuntimeAccess`: the abstract lease and the counters that implement it. **Done, proved.**
2. `WorkerSupervisor`, with two instances of `RuntimeAccess`: backend threads around one worker. **Done; safety of leases and registry proved.**
3. `TaskQueue`: the window's queue over the backend as the window sees it. **Done, safety proved.**
4. `ManagedUpdate`: the Windows update as a crash-safe transaction. **Done, safety proved.**
5. `SyncQuery`: a query, its deadline and its leases. **Done, safety proved.**
6. `EditorExport` over `WorkerSupervisor`: the export of a mix and its cancellation. **Done; what the window tells is proved.**
7. `DirMigration`: the model directory migration with conflicts, failures and a crash. **Done, proved.**
8. `WorkflowEditors`: editor windows, saves, the overview. **Done, safety proved.**
9. `PluginSession`, `PluginScan` and their composition `PluginHost`. **Done, safety proved.**
10. `BundleUpdate`: the Linux and macOS installers with the authorized script and the inherited lock. **Done, safety proved.**
11. `AudioEngine`: a session of the audio host. **Done; that it calls no plugin while the worker renders is proved.**
12. Downloads; the hand-over of arguments.
13. Pure algorithms: tail and latency of the audio graph.

Abstract specifications: `RuntimeLease` (implemented by `RuntimeAccess`, and so
by both leases of `WorkerSupervisor` and by `SyncQuery`); `WorkerSupervisor`
itself is what `EditorExport` implements.  An outcome log per task and an atomic
install would be worth stating.

Theorems still wanted: `AllHeard` and `CursorIsAsked` of the audio engine, for queues
that hold every event the control thread may leave unread (section 6 says why the
size matters).

## 3. Modules and code

`MC*` modules extend a specification and give its constants values; a `.cfg`
without an `MC` module of its own (`Claim*`) belongs to the module the run
names.  Definitions whose comment begins "A slip" are variants of the next
definition with a plausible bug.  They are not part of `Next`; they show that
the properties notice the bug.

### RuntimeLease, RuntimeAccess

`RuntimeLease` says what a lease promises: holders have modes, and two holders
at once have the same mode, which is not `update`.  `RuntimeAccess` is the code:
`access` is `struct RuntimeAccess`, `guard` the `RuntimeAccessGuard` of every
caller, `Busy` the condition of `acquire_runtime_access`, `Acquire` its
assignments and `Release` the guard's `Drop`.  `LeaseMode` maps a command to the
mode the worker code asks for.  `RuntimeAccess` implements `RuntimeLease`
under `lease <- guard`.

### WorkerSupervisor

One `Worker` is one call of `spawn_worker_background`; its `pc` runs through the
call and then through the supervisor thread.  `Canceller`s are calls of
`cancel_task`, `Updater`s reservations of `acquire_application_update`.  An
action is one critical section or one visible effect, so any other thread may
run between the test for a running id (`CheckIds`) and its registration
(`Register`), between the six steps of a cancellation, and between the steps in
which the supervisor winds down (`WaitForExit`, `DropRuntime`,
`DropApplication`, `Flush`, `Settle`, `Unregister`, `Unmark`).  The worker's
lines are reduced to those that change state: a terminal event for one task or
for all, and a line that does not parse.  `EndOfOutput` separates the end of the
worker's output from its end: from there the supervisor waits with the mutex of
the child, and a cancellation of a worker that lives on waits with it.

### SyncQuery

Extends `RuntimeAccess` (the runtime lease) and has a second instance for the
application's.  `qpc` runs through `run_worker_with_payload_inner`, with one
place per point where another thread matters: the two reservations, the start,
reading until nobody holds the output, waiting, joining the deadline's thread,
and the destructors in their order.  `watchdog` is the thread of `QueryDeadline`.
`helper` is a process the worker has started, with or without the worker's
output; what the deadline reaches depends on the platform (`OutOfReach`).

### EditorExport

Extends `WorkerSupervisor`: the export is one of its workers, and one of its
cancellations is the kill at the end of `cancel_editor_mix_export`.  `win`,
`outcome` and `asked` are `exportMix`; `render` the call into the audio host;
`stop` the polling command; `work`, `said`, `part` and `published` the worker
and its files.

### WorkflowEditors

`registry` and `used` are `EditorRegistry`; `gate` and `op` the calls of
`open_workflow_editor_window`; `store` the file, a version with a stamp per
workflow; `page` and `call` the editor in each window and its pending request;
`list`, `refresh` and `closed` the main window's overview and the events it
refreshes on.  `destroyed` holds the events of windows that are gone already.

### DirMigration

`pc` is the thread of the migration, `pending`, `answer` and `payload` its
session, `status`, `ask` and `fin` the dialog and its calls, `events` the queue
between them, `setting` and `saved` the directory in memory and in the file.
`src` and `tgt` are the directories; a file in the target may be old, part of a
copy, or whole.

### PluginSession, PluginScan, PluginHost

`PluginSession`: `generation` and `stopping` as in `PluginHostState`; `session`,
`lease` and `holder` the session, `session_pid` and the mutex around both; `host`
the helper process of each load; `request` where the thread of each window's
request is; `loaded` and `fence` (recoveryGenerations) what the window believes;
`shut` how far `shutdown` is.  `PluginScan`: `control` is `ScanControl`, `worker`
the thread of the run with what it read when it opened, `probe` the helper for
the package in hand, `catalog` and `excluded` the two files; `restored` records
which restore was last.  `PluginHost` composes them; they meet in `shutdown`,
which ends the session, the scan, and then waits for the session's mutex.

### TaskQueue

An action is what runs between two `await`s, including the `scheduleQueue` at
its end: `status'` and `call'` of every handler pass through `Scheduled`.  `call`
records the pending start of a job: waiting for node metadata, asked, accepted
or refused.  Events and replies are separate channels.  The backend is the
supervisor as the window sees it (`Accept`, `Report`, `Settle`, `TakeCancel`,
...).  `Restart` keeps `stored` and the limit only; `Connect` is the listener
that `bootstrap` installs last.

### ManagedUpdate

Helpers (`Apply` and the recovery helpers) and processes of the application.
`pc` of a helper is the place in `apply_managed_update` or
`recover_interrupted_update`, one action per file operation with an outcome that
works and one that fails.  `root`, `saved` and `staged` say which version of each
managed path is in the application, the backup and the staging directory;
`marker` is the phase in the transaction file; `mutex` the holder of the update
mutex.  `Crash` kills one process, or all of them (power loss), between any two
actions.  An instance starts as `main.rs` does: read the marker (`ReadMarker`),
take the mutex (`TryMutex`), clean up (`CleanPrepared`) or hand over to a helper
(`SpawnRecovery`), and become the single instance (`Enter`).  Two history variables record known ways out
of the guarantees: `stranded` (neither executable could be put in place) and
`misread` (a start ended the transaction of a replacement because it had read an
older phase, or could not read the marker).

### BundleUpdate

`pc` is the updater: the running application from `start` to its exit, through
`replace_image` (Linux), the atomic exchange or the two renames (macOS), or, by
`route`, the requests to a script (`Session::begin`, `signal`, `complete`, `drop`
in `authorized.rs`), with what it asks (`want`) and what it read last (`seen`).
`script` and `phase` follow `install-macos-update.sh` with its trap; `status` and
`outcome` are the two files between them.  `child` and `said` are the new process
(`update_startup.rs`), `target` and `stage` the disk, `lock` the descriptor that
the new process inherits.  `KillUpdater`, `KillScript` and `PowerLoss` strike
between any two actions; `StartOther` is a start by the user.

### AudioEngine

`active`, `cursor`, `ready`, `lastEpoch` (the field `generation`) and `recovering` are
the atomics of `Clock`; an action makes at most one access to one of them that another thread can
notice.  `cb` is the callback (`fill`), with the epoch it has read (`saw`) and the
frame it has taken (`got`).  `stage` is where the worker is (`process`, and
`render_unmasked_file` for an export), `dsp` its variables, `job` what is left of a
change of the clock it has begun.  The control thread serves one thing at a time
(`host_tick`): `script` holds the steps left of it, so that a request reads as the
sequence of its steps (`Capture`, `RecoverScript`, ...), `doing` its name, `OnError`
what an early return leaves to be done, and `held`, `asked` and `response` the pause
it owns, its last answer channel and what is in it.  `ticket` is `TimingRequest` with its lock.  Two are
history: `cut` says that the worker ended a playback because the project had become
shorter than what was rendered; `heard` which blocks of the last epoch were heard without
a gap, and whether the callback has dropped blocks of it while it was active.

## 4. What the runs check

Safety is checked in all reachable states, action properties on all steps,
liveness under the named fairness.  `CHECK_DEADLOCK FALSE` is given where the
system really stops: all workers ended, all tasks done, the update installed.

| Run | Instance | Shows |
|---|---|---|
| `runtime_access` | two queries, one with a deadline, and four other callers; `QueryFairSpec` | refinement of the abstract lease, a query's process only inside its leases, a query with a deadline ends. Two installations, two shared guards and refused callers fit in six holders; the counters react only to "none", "one" and "several". |
| `worker_lease` | plugin installation, plugin operation, an application update, one cancellation, one line each; `EndingSpec` | leases outlive processes and exclude each other; every call is answered. Two workers of different modes and an updater show every pairwise exclusion; "update" against the others is in `runtime_access` and in the proofs. |
| `worker_batch` | two scenarios: a batch of two tasks with two cancellations; an export with its cancellation beside the batch's worker; two lines per worker; `FairSpec` and `ExportFairness` | registry is cleared, outcomes kept, a cancellation takes the whole batch and frees the runtime; the window tells the truth about an export, nothing of it is left, a cancelled one ends. Two tasks distinguish the requested from the linked one; two cancellations race for both. |
| `task_batch` | a batch of two interchangeable tasks and an invalid workflow, both waiting for metadata, limit one or two, both batch tasks cancellable repeatedly | no slot leak, cancelled means dead. Two jobs compete for one or two slots; symmetry permutes the batch's tasks (no liveness here). |
| `task_restart` | a separation, an invalid and a refused workflow, one slot, one restart; `FairSpec` | stored outcomes survive; every queued task ends. Three jobs in one slot make each depend on the previous one giving it up. |
| `update_recovery` | two recovery helpers, two instances, an archive with or without bundled tools, three failures, two crashes, one early start; `FairSpec` | originals kept, one version without a marker, recovery, success when undisturbed. Three failures are what it takes to strand the executable; two crashes interrupt an update and then its recovery. |
| `workflow_editors` | two windows, a stored workflow and a new one, two calls that open, two changes of the file | one editor per workflow; only the current owner saves; no save replaces what its window had not seen; the overview ends up current. |
| `dir_migration` | up to two models, each present or not in the target, two failures, one crash | nothing lost, the saved setting has the models, the dialog ends. One file in hand and one before or after it is what the thread tells apart. |
| `plugin_host` | two scenes, each up to the end of the application: two windows with three loads, one dialog and one helper that dies; two scans of two packages | no helper survives, a recovery takes nobody's session, a poll tells the truth, a restore is not undone, a scan forgets nothing it was not asked about. Three loads are a session, the one that replaces it, and the recovery. |
| `bundle_update` | one update on either system, with either route, three failures, two kills or power losses, starts by the user | the old version is kept, the report is true, one instance, the update ends. Three failures are a replacement that fails, its undoing that fails, and one on the other side; two kills are the updater and its script. |
| `audio_engine` | a session for playback or for export, projects of one or two blocks, room for two in the ring, the command queue and the event queue, two requests, one fault, timeouts at any moment; playback starts at 0 or 1 and does not repeat | playback that nobody stopped ends when the last block rendered for it has been heard, and then every block from its start has been, unless the callback took some for blocks of an older epoch (`heard.missed`, section 7) or the project was made shorter (`cut`); the position is what was asked or heard since, plugins are called only while the worker stands, recoveries, exports and sessions end. A second request meets what is left of the first; two blocks are a last one and one before it; one fault makes a recovery or a failure beside them. |
| `claim_interrupted_boots` | smallest that shows it | a comment the code does not keep, section 7 |

Named bounds: `MaxLines` (lines read from a worker), `Cancellable`,
`MaxRestarts`, `MaxLimit` (the code's is larger), `MaxFailures`, `MaxCrashes`,
`MaxEarly` (starts of the application while something else runs), `MaxWrites`
(changes of stored workflows), `MaxFails`, `MaxLoads`, `MaxDialogs`, `MaxDeaths`
(helpers that end or answer badly by themselves), `MaxRuns` (scans), `MaxRequests`,
`MaxFaults`, `Lengths`, `Starts` and `Loops` (of a playback; repeating makes the space
fourteen times as large, its safety was checked once and is not a run).  Bounds that
are not constants are marked "Bound:" at their action: one malformed line per
worker and one progress event at a time in `TaskQueue`, saving only while a
restart can still follow, quits of the application only while a transaction
waits, a failed wait of the update helper counted as a failure.

## 5. Fairness

* `WorkerSupervisor!FairSpec`: weak fairness of the spawn call, the supervisor
  thread's winding down and a `cancel_task` under way.  They are OS threads that
  wait for nothing but mutexes held for a moment and the dead child.  Nothing
  makes a user start or cancel, an update give up, or a worker write or end.
  `EndingSpec` adds that workers end, for the one property about it.
* `TaskQueue!FairSpec`: promises settle, events are delivered in order per task,
  accepted workers end and their supervisors settle (which is what
  `worker_lease` and `worker_batch` show), and the listener is installed in the
  end.  `connectWorkerEvents` retries a few times and then gives up; the model
  assumes that one attempt works.  No fairness for the user, for `Persist` or `Restart`.
* `ManagedUpdate!FairSpec`: processes run; the user starts the application when
  nothing runs, and closes it some time after an interrupted update.  Without
  the latter a recovery that needs the application closed never begins, and the
  code does not force it.
* `SyncQuery!QueryFairSpec`: the threads of a query run, the timer of its deadline
  fires, and output that nobody holds ends.  Nothing makes a worker or a helper end.
* `ExportFairness`: promises continue, commands and the supervisor run, the render
  ends by its own time limit, and what is in the pipe is read.  Nothing makes the
  worker go on or the user act: a cancelled export ends by the kill at the latest.
* `DirMigration!Spec`: the thread runs, events are delivered and calls return.
  Nothing is said of the user, of failures, or of the disk that takes the settings.
* `BundleUpdate!Spec`: the updater and the script go on, and the script's limit of
  600 rounds passes.  The updater's own limits are disjuncts of its steps.  Nothing
  makes the user give a password, or the new process start or confirm.
* `AudioEngine!Spec`: the control thread and the worker run; every wait of either has
  a time limit, or ends by a lock that the other holds for a bounded time.  Nothing
  makes the device call, the user act or a plugin fail.
* `WorkflowEditors`, `PluginHost`: safety only, no fairness.

## 6. What is proved

| Module | Theorems | For |
|---|---|---|
| `RuntimeAccessProofs`, the lease | `TypeCorrect`, `CountersAlwaysExact`, `BusyAlwaysExact`, `ImplementsLease`, `LeasesExclude` | any finite set of holders |
| `RuntimeAccessProofs`, the queries | `QueriesUseLeases`, `QueriesInsideLease` | any queries and commands, other callers and updates, both platforms |
| `EditorExportProofs`, the supervisor | `TypeCorrect`, `RuntimeAlwaysExclusive`, `UpdateAlwaysAlone`, `RegistryAlwaysLive`, `TerminalMarksAlwaysLive`, `CancelAlwaysComplete`, `NoOutcomeLost` | any workers, commands, tasks, cancellations, updates, any number of lines |
| `EditorExportProofs`, the export | `ExportIsSupervised`, `ExportTypeCorrect`, `WindowAlwaysTruthful`, `NothingEverLeftBehind` | the same, with one export among them |
| `DirMigrationProofs` | `TypeCorrect`, `NothingEverLost`, `SettingAlwaysHasModels` | any set of models, any bounds |
| `TaskQueueProofs` | `TypeCorrect`, `OutcomesFinal`, `OutcomeAlwaysDurable`, `CancelledAlwaysDead`, `NoSlotEverLeaks` | any jobs and tasks, any number of slots, progress reports and restarts |
| `ManagedUpdateProofs` | `TypeCorrect`, `OriginalAlwaysKept`, `AlwaysWholeUnlessMarked` | any shipped and installed paths, helpers, failures, crashes and early starts |
| `WorkflowEditorsProofs` | `TypeCorrect`, `OneEditorEach`, `OwnerAlwaysCurrent`, `OverviewCatchesUp`, `SeenBeforeReplaced` | any labels, openings, workflows and saves |
| `BundleUpdateProofs` | `TypeCorrect`, `VersionAlwaysKept`, `ReportAlwaysTrue`, `OneInstanceAlways` | both platforms, any failures, kills and power losses |
| `PluginHostProofs`, the plugin host | `HostTypeCorrect`, `ShutdownAlwaysReachesHelpers`, `RecoveryNeverTakes`, `PollAlwaysTruthful`, `RestoreAlwaysWins`, `ScanAlwaysKeepsIdentified` | any windows, loads, dialogs, deaths of helpers, packages and scans |
| `PluginHostProofs`, the audio engine | `AudioTypeCorrect`, `SdkAlwaysExclusive` | any lengths of projects, sizes of the ring and of the queues, requests and faults |

Assumptions: the named `ASSUME`s of the modules, which say that the sets of
callers, tasks and labels are finite, that the constants have the right kind, and that
the values that stand for nothing are none of the others.  TLC evaluates
them in every run.

*Leases.*  `CountersExact` is not inductive without mutual exclusion: that
`updating` may be cleared on release needs that there is one updater only.  The
invariant is `TypeOK /\ CountersExact /\ Lease!Exclusion`.  The lemmas on
`Owners` say how the set of holders of a mode and its cardinality change in a
step; `CountersGiveBusy` turns the counters into statements about holders.  The
refinement follows: an acquisition is allowed by the abstract lease because
`Busy` is exact.

*Queries.*  `QueriesUseLeases` says that a query, a worker in the background and an update
do nothing to a lease but acquire and drop guards of their own, so that the lease
theorems hold of both leases.  `QueriesInsideLease` reads the guards off the place of the
call (`GuardsOf`): a worker is alive only where its call has still to wait for it, and
with a job object so is its helper until the deadline has been dropped; both places come
before the guards are dropped.

*Exclusion of processes.*  `EditorExportProofs` shows that every step of the
supervisor system is a step, or a stutter, of each lease (`RuntimeLeaseStep`,
`ApplicationLeaseStep`), so that the lease theorems apply to both instances.
What is left is `LeaseLink`: by its place a worker holds the application guard,
and the runtime guard in the mode of its command, and its process runs only in
places where it holds both.  It is inductive together with type correctness and
`ChildKnown` (a canceller past its first step knows a worker: `Terminate` needs
it to keep the types).

*Registry.*  `RegistryInv`, `MarksInv` and `CancelInv` are proved together: an id
in the registry or marked terminal belongs to a worker whose supervisor will
still remove it, and a cancellation past the linking step has left no id of its
child registered.  The last one needs that a worker registers once, before any
cancellation can have found it, and that what a cancellation has found is
supervised (`Supervised`): its process has been started.

*Outcomes.*  `NoOutcomeLost` has a hypothesis, `IdsApart`: no two workers are given
the same task id.  The windows make a random or new id for every call
(`crypto.randomUUID` in `stores/app.ts`, time and random digits in
`stores/task.ts` 279), also for a retry, and the
instances checked have ids of this kind; without it a mark in `cancelled_tasks` could be another
worker's.  Between the reading of a line and the settling of the accounts the same
task is known in up to five places.  `ReportedInv` says that what the supervisor
takes for reported has reached the windows or is kept back, and from the flush on
has reached them; `BatchInv` that a cancellation takes ids of its own child only;
`CancelledInv` that a task which is marked cancelled, or was when the marks
were drained, has been announced or has a `cancel_task` call on its way to announce it,
but for plugin tasks, which the supervisor acknowledges itself in `Settle`.

*Export.*  Every step of the export is a step of the supervisor's system or
leaves it alone (`ExportIsSupervised`), so what is proved of that system holds
beside an export.  `WindowTellsTruth` relates the window to the published file,
three channels apart; its invariant says the same of each link: what the worker
has done agrees with what it has said (`WorkInv`), what the supervisor holds
back or has sent agrees with what was said (`LogInv`), what the listener was told
agrees with that (`WindowInv`); `AskedInv` ties a cancellation to the user, and
`Apart` keeps the export's task out of the other workers' lines.  `NothingLeftBehind`
is about three cleaners: the unfinished mix exists only while its process is in
the supervisor's hands (`PartInv`), the request only while
`cancel_editor_mix_export` has still to remove it (`RequestInv`, which needs that a
second cancellation does not begin while the first is at work), the render only while
`exportMix` has still to clean up (`RenderInv`).

*Migration.*  The invariant is `TypeOK`, that the dialog shows one thing at a
time (`Modal`), that what left the list of files is whole in the target or was
skipped (`Copied`), and that the setting is switched, and the old directory
removed, only after all of them (`Switched`).

*Queue of the window.*  `OutcomesFinal` and `OutcomeAlwaysDurable` are properties of
steps and need the types alone.  The other two need what the window knows of the
backend and the backend of the window, which meet in messages only: a task that
is not started has neither a call nor a worker (`Untouched`), a call that is
under way belongs to tasks that are "preparing" (`Awaited`) and its worker has
not been handed anything (`NotHanded`), and the backend knows nothing of a task
without a worker (`BackendInv`).  `KilledInv` says that a cancellation is
reported after its kill: it is what makes the shown status true, since the report
may be read long after.  A restart takes its statuses from the history file, so
that the statement about tasks submitted together is made for the file as well.

*Windows update.*  What is true of the files depends on who holds the mutex and
where it stands, so the invariant has a part for each stretch of the code:
before the replacement is marked, in the loop over `MANAGED_PATHS`, after it, in
the rollback, and in the recovery of a later start.  A crash frees the mutex at
any place.  What then remains is `MarkerInv`, which reads the state off the marker
alone; every other part implies it, and a recovery begins with nothing else.  The
positions in `MANAGED_PATHS` order the paths: those before the one at work are
replaced, or restored, and those after it are untouched.  The theorems keep the two
exceptions of their properties: an executable that could not be moved back
(`stranded`), and a start that took a marker for none (`misread`).

*Editors.*  The registry decides who owns a workflow, and a page learns of it later.
`PageInv` ties the two: a page that knows its id has it in its entry, and
an answer on its way carries the id that the entry has.  `UniqueInv` alone is not
inductive, because a first save gives an entry its id: the store chooses one
that no entry has.  `GateInv` and `LabelInv` say that a label is used once and that the
opening in progress owns the one it has chosen.  `OwnerIsCurrent` follows from
`CurrentInv`: what is on its way to the store, or back, was made from the version the
store has.  `OverviewCatchesUp` needs that a list the main window does not show yet is
still being read, or has a window whose end is to come (`OverviewInv`).
`SeenBeforeReplaced` says more than the check of the stamp in `save_workflow`: a request
carries the stamp of a version only, and two saves may fall into one millisecond.  So
the versions of a workflow that anyone may still refer to, in a page, a list or a
request, must differ in their stamps (`VersionInv`).  A save over a stored version moves on
from its stamp, which leaves the saves where nothing is stored.  The id of a first save
is known to its window only (`FirstInv`, `TakenInv`).  Forced is a save of a workflow that went
with the unreadable file; by then the time has passed every stamp given before
(`ClockInv`, `OldInv`), and its window is the only one that has the workflow (`ForceInv`,
`OwnInv`).  `StampInv` and
`ClosedInv` (a save raises the stamp by one, a label closes once) keep the numbers
within the types.

*Bundle update.*  Two processes move the bundles, but never both.  `WritableInv` says
what is where by the place of the updater, `ScriptInv` by the place and the phase of
the script, and `RouteInv` that the updater turns to the script once, with nothing
moved.  What is returned rests on a status that has been read earlier: `StatusInv`
says that what a status says remains true for whoever has read it, and `CommitInv`
that the script commits only what the updater has confirmed, or what was confirmed to
a script whose updater is gone.  `OneInstance` is inductive with `LockInv`: who runs
has the lock.

*Plugin host.*  The session and the scan share no state, so each has an invariant of
its own (`SessionInv`, `ScanInv`), and a step of one leaves the other alone.  A step of
a request's thread is one of twelve actions with several outcomes each; `ThreadCases`
reduces them to ten kinds of step, described by what they do to the session, the
lease, the helpers and the request, and each kind keeps the invariant.  That no helper
is left after the shutdown needs to know which helpers may live at all: the one of
the session, while the lease knows it (`LeaseInv`), and the one that is being started
by the thread with the mutex, which a cancelled lease refuses (`AliveInv`, `HolderInv`).
`RecoveryNeverReplaces` speaks of a generation that may have passed since the fence
was set: `FenceInv` says that as long as it has not passed, no other window has
loaded (`Undisturbed`), and needs that two loads never have the same number
(`NumberInv`).  A poll is truthful because a thread that waits has the session of its
own window (`OwnerInv`).  Of the scan, `RestoreWins` needs what the commit will write:
what the worker read when it opened, and what it has found since, are from before a
restore only for packages that the run was told to forget (`ReadInv`, `RestoredInv`).
`SeenInv` says what has become of every package the worker took, but the one in hand,
and `OldInv` that the catalog did not gain entries meanwhile; a commit loses no plugin
by these two.

*Audio engine.*  No lock keeps the worker from rendering while the control thread
calls a plugin, so `SdkExclusive` follows from the order of messages alone, and says
nothing of how the two came there.  The invariant (`AudioInv`) has a part for each
link of the argument.  `ScriptInv` reads the code: every call follows a barrier and the
wait for its answer, or belongs to a service of an export.  `PauseInv` says what such
an answer means: once it has arrived, the queue of commands is empty and the worker
holds for the pause in force; until then the barrier is the last command.  An answer may
be late, and belong to a question that was given up: `QuestionInv` says that a question
is in the queue once, and no longer when its answer has arrived.  A pause
that is given up is released (`OnError`), and the next barrier has a new number.  `TicketInv`
and `ExportInv` are the same for an export: a ticket is alive only while the worker
waits for it or for its lock, and an export is the last command until its result has
been read, so that nothing waits in the queue behind it.  `CancelInv` (the worker ends
only when it was told to, and then has nothing else to do) and `OfflineInv` (a session that
exports does not play, nor recover from a change of latency) keep the two apart.  What is left of a
script is its tail, a script of an early return, or one that begins anew
(`ScriptMove`, shown in `ControlScript`), so that the parts of the invariant need not
go through the scripts one by one.

Only model-checked: all liveness (and `ENABLED`), which the provers do not
handle, and `AllHeard` and `CursorIsAsked` of the audio engine.  These two are not true
for every value of the constants: a failure is told by an event that is dropped when
the queue is full (`try_send`, `Post`), and with room for one event and two or three
faults TLC finds runs in which events of latency changes fill it, the session never learns
of the failure, and playback ends unheard or the position stays where it was.  The code has
room for 32 (`engine.rs` 254), and the instances with room for as many events as there are
faults hold (three faults and three events among them, beside the run listed here).  A
theorem would need that bound as an assumption on the constants, which the code
does not state.  `CountersExact` and
`UpdateAlone`, which the proofs cover for every instance, have no run of their own.  The models use no recursion; a statement by
induction over data would be out of the provers' reach.

## 7. Where code and comments disagree

One has a run that finds the counterexample.

* *An interrupted update can still boot the old UI* (`update_manager.rs` 58):
  the fallback for `ReplaceFileW` moves the executable away before the new one
  is in place.

Met while modelling, without a run:

* *Workers.*  Two imports that start together both run, against the comment at
  `app_cmd.rs` 359: the test and the registration are separate critical sections
  (`CheckIds`, `Register`).  `manage_optional_package` runs pip (`worker_optional_packages.py`
  469, 519, 565) under a shared lease, which the comment at `worker.rs` 86
  reserves for commands that do not.  The supervisor's comment that Python
  cleanup finishes before the terminal event (1929) does not hold for a malformed
  line (1888-1909), which is broadcast while both leases are held.  On unix the
  deadline of a query does not reach a helper that keeps the output after its
  worker has ended (`OutOfReach`).  A cancellation waits with the supervisor for
  a worker that has closed its output and lives on.
* *Window.*  The events listener is to be installed before queued work resumes
  (`events.ts` 52), but `scheduleQueue` does not look for it, so work submitted
  while the window loads can lose its outcome (`missed` in `TaskQueue`, and the
  exception in `EveryTaskEnds`).
* *Tasks.*  Terminal states are said to be monotonic (`task.ts` 1582), but
  `cancelTask` sets its task to cancelled after its await without looking again
  (2049-2060): the reply of a cancellation overwrites a failure handled meanwhile.
* *Audio host.*  Old audio is to be dropped and new audio kept (`output.rs` 108, and
  the test at 291), but the callback drops what is of another epoch than the one it
  read: if a playback begins and renders between that read (107) and the loop (109),
  its first frames are lost, and with a last one among them it never ends.  `AllHeard`
  excepts the frames lost this way (`heard.missed`); without the exception TLC finds a
  playback of two blocks of which only the second is heard.  Queued
  final frames are to remain audible (`engine.rs` 1182), but after the project has been made
  shorter than what is rendered the worker ends the playback itself (1110-1112) and
  they are dropped (`cut`).
* *Export.*  A malformed line of the worker makes the window report a failure
  although the mix is published.  A failed write of the request to cancel can
  leave an empty `.cancel` file.
* *Update.*  A start that cannot read the update marker puts it aside without the
  mutex (`update_manager.rs` 722-728).
* *Bundle update.*  A power loss between the two renames on macOS leaves no
  application under its name, and nothing puts the backup back at a later start;
  a crash of the updater on Linux leaves an unconfirmed image with its backup.
  The script reads an empty outcome and then looks for its parent: if the new
  process reports and the updater dies in between, it rolls back under a running
  application.  A status that `Session::begin` cannot read kills `osascript` and
  not the script, which goes on until its own limit.
* *Editors.*  The main window's own save or deletion may be answered between the
  reading and the showing of an overview, against the comment at `workflow.ts` 396.
* *Migration.*  An abort by the user has an event of its own (`model_dir_migration.rs`
  828-838) that the dialog waits for (`settings.ts` 886), but the thread looks for the
  bare text `__user_aborted__` in a message that begins with "worker error: "
  (`error.rs` 11): the abort is announced and shown as a failure, with that text
  (`EndEarly`).  If the end of the migration is shown before the reply to an answer
  comes, the dialog is "running" for ever (`settings.ts` 288, 700).  A crash
  within 80 ms of the switch leaves a setting that names the removed directory.
  The old directory is removed without the application lease
  (`model_dir_migration.rs` 888).  A choice made for one conflict is kept for the others, while
  `en.json` 1077-1078 announces them one by one.
* *Plugin host.*  After a recovery the window's fence is cleared by a load of its
  own only: if another window loads first, every later load of that project is
  refused until it is opened again.  `unloadPluginSession` ignores `superseded`.
  A window that is closed while its first load waits for a dialog leaves the
  helper.  An error of an earlier suspended request is reported to the next one.
  A cancelled scan drops the cached entry of the package in hand, against
  `en.json` 941; a skip whose exclusion cannot be written drops the package from
  the catalog; a package restored while a run is registered that has not read
  anything yet loses its fresh result at the commit.

## 8. What is not modelled

* *The install mode "update"* of the runtime lease is exercised in
  `runtime_access` and the proofs, not in `worker_lease`.
* *Process trees*: killing is one step that leaves the process dead.  Job
  objects and process groups are the operating system's.
* *Task queue*: retry and deletion of results, submissions before the history is
  loaded (`task.ts` 856, where the list is replaced after an `await`), logs.
* *Update*: the check for updates, sources, download, signature, elevation,
  antivirus retries, an executable path with two instances because the
  single-instance mutex could not be created.  Paths have one version, and the
  backup directory disappears in one step, when nothing in it is needed.
* *Bundle update*: a second update, what is downloaded and verified, the log, the
  request file of the script, directories of earlier updates.
* *Single instance*: the socket and the arguments handed over; delayed quits.
* *Queries*: a failure to wait for the worker of a query without a deadline; what
  is read, and the payload file.
* *Export*: one export; a removal of a temporary file that fails; a helper that
  keeps the output of a background worker.
* *Editors*: the contents of workflows, the selection, the main window's copy of
  the registry; the clock stands still but for a recovery, which is the hardest
  case for stamps.
* *Migration*: paths, sizes, order of the files, free space, custom models.
* *Plugin host*: contents of the graph and of plugin states, the renewal of a
  session's id, `error` and `dirty` of a window, aliases and removed packages,
  `force`, progress, diagnostics.
* *Audio host*: samples, meters, parameters and states; latency and tail are zero and a
  block is one frame.  Atomics are sequentially consistent, where the code asks for
  acquire and release; epochs do not wrap (the cursor holds 16 bits of one).  The
  `idle()` inside a capture is left out, so a device that fails during one is noticed
  after it, and so is an export that is refused before its first query.  A load
  while a session exists is its drop; an exporter beside a preview is a session of its
  own.  A device that cannot be opened, after which every play asks for a reload
  (`engine.rs` 344-352), is left out, and one read-modify-write of the epoch is a step
  with the store of the cursor that follows it.
* *Everything marked not_modelled in `PROJECT.json`*: the remaining components of
  section 1, in the order of section 2; signal processing, views, logs, build
  scripts and vendored code will stay out.
