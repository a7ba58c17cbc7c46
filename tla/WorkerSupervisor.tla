-------------------------- MODULE WorkerSupervisor --------------------------
(***************************************************************************)
(* Background Python workers of the desktop backend: spawning a worker,    *)
(* the supervisor thread that reads its events and winds it down, and      *)
(* cancel_task, which may run at any point of both.  Every action is one   *)
(* critical section or one visible effect of the code; between two actions *)
(* any other thread may run.                                               *)
(*                                                                         *)
(* Abstractions.  A worker is one call of spawn_worker_background.  Its    *)
(* event lines are reduced to those that change the supervisor's state:    *)
(* a terminal event for a task (addressed by task id or by request id), an *)
(* error for nobody in particular, and a line that is not an event.  A     *)
(* line may be read long after it was written, also after the process has  *)
(* died, so reading is not tied to the process being alive.  Terminating   *)
(* holds the child's mutex until the process is dead and is a single step. *)
(* The output of a dead worker ends: nobody it started keeps it open.      *)
(***************************************************************************)
EXTENDS Naturals, FiniteSets

CONSTANTS
  Worker,       \* calls of spawn_worker_background
  Updater,      \* calls of acquire_application_update
  Task,         \* task ids
  Canceller,    \* calls of cancel_task
  NoWorker,     \* an id absent from the registry
  CommandOf,    \* the command of each worker
  IdsOf,        \* the ids each worker registers
  MaxLines      \* bound: terminal or malformed lines read from one worker

Caller == Worker \cup Updater

ASSUME CallerAssumption == IsFiniteSet(Caller) /\ Worker \cap Updater = {}
ASSUME NoWorkerAssumption == NoWorker \notin Worker

\* The commands app_cmd.rs passes to spawn_worker_background.
BackgroundCommands ==
  {"delete_model", "cleanup_model_residual_files", "download_model",
   "import_custom_model", "manage_optional_package", "install_runtime", "infer",
   "infer_workflow", "manage_plugin", "install_plugin", "export_editor_mix",
   "run_operation", "update_runtime_core"}

ASSUME CommandAssumption == CommandOf \in [Worker -> BackgroundCommands]
ASSUME IdsAssumption == IdsOf \in [Worker -> SUBSET Task]
ASSUME MaxLinesAssumption == MaxLines \in Nat

VARIABLES
  appAccess, appGuard,  \* APPLICATION_ACCESS
  rtAccess, rtGuard,    \* RUNTIME_ACCESS
  pc,         \* where the spawn call, later its supervisor thread, is
  proc,       \* the child process: "none", "running" or "exited"
  exitOk,     \* whether it exited with success
  tasks,      \* AppState.tasks: the worker each id is registered for
  cancelled,  \* AppState.cancelled_tasks
  terminal,   \* AppState.terminal_tasks
  seen,       \* the supervisor's terminal_task_ids
  held,       \* terminal events it keeps back until the leases are dropped
  drained,    \* its cancelled_task_ids
  lines,      \* how many lines of the worker have been read
  shown,      \* terminal events the window has received, by worker and task
  cpc,        \* where each cancel_task call is
  ctask, cchild, cids,  \* its task_id, child and cancelled_task_ids
  creply      \* what it returned

leaseVars  == <<appAccess, appGuard, rtAccess, rtGuard>>
superVars  == <<seen, held, drained, lines>>
cancelVars == <<cpc, ctask, cchild, cids, creply>>
vars == <<leaseVars, pc, proc, exitOk, tasks, cancelled, terminal, superVars,
          shown, cancelVars>>

RT  == INSTANCE RuntimeAccess WITH Holder <- Caller, access <- rtAccess, guard <- rtGuard
APP == INSTANCE RuntimeAccess WITH Holder <- Caller, access <- appAccess, guard <- appGuard

LeaseOf(w) == RT!LeaseMode(CommandOf[w])

IsPlugin(w) == CommandOf[w] \in {"manage_plugin", "install_plugin"}

\* Commands whose terminal events wait for the leases to be dropped.
Deferred(w) == IsPlugin(w) \/ CommandOf[w] = "update_runtime_core"

RequiresResult(w) == IsPlugin(w) \/ CommandOf[w] \in {"export_editor_mix", "run_operation"}

\* Commands that look for another worker of their kind before they spawn.
OneAtATime == {"import_custom_model", "manage_optional_package", "install_runtime"}

Outcome == {"result", "error", "cancelled"}

Nothing == [t \in Task |-> {}]

\* The windows are told outcome o of every task in S.
Tell(log, S, o) == [t \in Task |-> IF t \in S THEN log[t] \cup {o} ELSE log[t]]

SpawnState  == {"idle", "begun", "app", "leased", "checked", "launched", "refused"}
SuperState  == {"reading", "waiting", "closing", "runtimeFree", "flushing", "settling",
                "unregister", "unmark", "ended"}
CancelState == {"idle", "checked", "linking", "marking", "killing", "telling", "returned"}

TypeOK ==
  /\ RT!TypeOK
  /\ APP!TypeOK
  /\ pc \in [Worker -> SpawnState \cup SuperState]
  /\ proc \in [Worker -> {"none", "running", "exited"}]
  /\ exitOk \in [Worker -> BOOLEAN]
  /\ tasks \in [Task -> Worker \cup {NoWorker}]
  /\ cancelled \in SUBSET Task
  /\ terminal \in SUBSET Task
  /\ seen \in [Worker -> SUBSET Task]
  /\ held \in [Worker -> [Task -> SUBSET Outcome]]
  /\ drained \in [Worker -> SUBSET Task]
  /\ lines \in [Worker -> 0..MaxLines]
  /\ shown \in [Worker -> [Task -> SUBSET Outcome]]
  /\ cpc \in [Canceller -> CancelState]
  /\ ctask \in [Canceller -> Task]
  /\ cchild \in [Canceller -> Worker \cup {NoWorker}]
  /\ cids \in [Canceller -> SUBSET Task]
  /\ creply \in [Canceller -> BOOLEAN]

Init ==
  /\ RT!Init
  /\ APP!Init
  /\ pc = [w \in Worker |-> "idle"]
  /\ proc = [w \in Worker |-> "none"]
  /\ exitOk = [w \in Worker |-> FALSE]
  /\ tasks = [t \in Task |-> NoWorker]
  /\ cancelled = {}
  /\ terminal = {}
  /\ seen = [w \in Worker |-> {}]
  /\ held = [w \in Worker |-> Nothing]
  /\ drained = [w \in Worker |-> {}]
  /\ lines = [w \in Worker |-> 0]
  /\ shown = [w \in Worker |-> Nothing]
  /\ cpc = [c \in Canceller |-> "idle"]
  /\ ctask \in [Canceller -> Task]
  /\ cchild = [c \in Canceller |-> NoWorker]
  /\ cids = [c \in Canceller |-> {}]
  /\ creply = [c \in Canceller |-> FALSE]

Goto(w, state) == pc' = [pc EXCEPT ![w] = state]

-----------------------------------------------------------------------------
(* Spawning a worker.                                                      *)

\* start_custom_model_import and its like refuse when one is registered;
\* every other command goes straight to spawn_worker_background.
Begin(w) ==
  LET alreadyRunning == /\ CommandOf[w] \in OneAtATime
                        /\ \E t \in Task : /\ tasks[t] # NoWorker
                                           /\ CommandOf[tasks[t]] = CommandOf[w]
  IN /\ pc[w] = "idle"
     /\ Goto(w, IF alreadyRunning THEN "refused" ELSE "begun")
     /\ UNCHANGED <<leaseVars, proc, exitOk, tasks, cancelled, terminal, superVars,
                    shown, cancelVars>>

ReserveApplication(w) ==
  /\ pc[w] = "begun"
  /\ \/ APP!Acquire(w, "user") /\ Goto(w, "app")
     \/ APP!Busy("user") /\ Goto(w, "refused") /\ UNCHANGED <<appAccess, appGuard>>
  /\ UNCHANGED <<rtAccess, rtGuard, proc, exitOk, tasks, cancelled, terminal,
                 superVars, shown, cancelVars>>

\* A refusal unwinds through the guards' destructors ("closing").
ReserveRuntime(w) ==
  /\ pc[w] = "app"
  /\ \/ RT!Acquire(w, LeaseOf(w)) /\ Goto(w, "leased")
     \/ RT!Busy(LeaseOf(w)) /\ Goto(w, "closing") /\ UNCHANGED <<rtAccess, rtGuard>>
  /\ UNCHANGED <<appAccess, appGuard, proc, exitOk, tasks, cancelled, terminal,
                 superVars, shown, cancelVars>>

\* The ids must be free; the registry is unlocked again afterwards.
CheckIds(w) ==
  /\ pc[w] = "leased"
  /\ Goto(w, IF \E t \in IdsOf[w] : tasks[t] # NoWorker THEN "closing" ELSE "checked")
  /\ UNCHANGED <<leaseVars, proc, exitOk, tasks, cancelled, terminal, superVars,
                 shown, cancelVars>>

\* Preparing the payload, the command or the process may fail.
Launch(w) ==
  /\ pc[w] = "checked"
  /\ \/ proc' = [proc EXCEPT ![w] = "running"] /\ Goto(w, "launched")
     \/ Goto(w, "closing") /\ UNCHANGED proc
  /\ UNCHANGED <<leaseVars, exitOk, tasks, cancelled, terminal, superVars, shown,
                 cancelVars>>

Register(w) ==
  /\ pc[w] = "launched"
  /\ tasks' = [t \in Task |-> IF t \in IdsOf[w] THEN w ELSE tasks[t]]
  /\ Goto(w, "reading")
  /\ UNCHANGED <<leaseVars, proc, exitOk, cancelled, terminal, superVars, shown,
                 cancelVars>>

\* The process ends by itself, with or without having reported a result.
ProcessExit(w) ==
  /\ proc[w] = "running"
  /\ proc' = [proc EXCEPT ![w] = "exited"]
  /\ \E ok \in BOOLEAN : exitOk' = [exitOk EXCEPT ![w] = ok]
  /\ UNCHANGED <<leaseVars, pc, tasks, cancelled, terminal, superVars, shown,
                 cancelVars>>

-----------------------------------------------------------------------------
(* The supervisor reads the worker's events.                               *)

\* A terminal event reaches the windows at once, or waits in
\* core_terminal_events / core_terminal_error.
TellOrHold(w, S, o) ==
  \/ Deferred(w) /\ held' = [held EXCEPT ![w] = Tell(@, S, o)] /\ UNCHANGED shown
  \/ ~Deferred(w) /\ shown' = [shown EXCEPT ![w] = Tell(@, S, o)] /\ UNCHANGED held

ReadLine(w) ==
  /\ pc[w] = "reading"
  /\ lines[w] < MaxLines
  /\ lines' = [lines EXCEPT ![w] = @ + 1]
  /\ UNCHANGED <<leaseVars, pc, proc, exitOk, tasks, cancelled, drained, cancelVars>>

\* A terminal event for some of the worker's tasks: one task, or, for an
\* error that names none of them, all of them.
ReadTerminal(w, S, o) ==
  /\ ReadLine(w)
  /\ seen' = [seen EXCEPT ![w] = @ \cup S]
  /\ terminal' = terminal \cup S
  /\ TellOrHold(w, S, o)

\* A line that does not parse fails every task at once; nothing is marked
\* in terminal_tasks and the supervisor goes on reading.
ReadMalformed(w) ==
  /\ ReadLine(w)
  /\ seen' = [seen EXCEPT ![w] = @ \cup IdsOf[w]]
  /\ shown' = [shown EXCEPT ![w] = Tell(@, IdsOf[w], "error")]
  /\ UNCHANGED <<terminal, held>>

Read(w) ==
  \/ \E t \in IdsOf[w], o \in Outcome : ReadTerminal(w, {t}, o)
  \/ ReadTerminal(w, IdsOf[w], "error")
  \/ ReadMalformed(w)

-----------------------------------------------------------------------------
(* The supervisor winds the worker down.                                   *)

\* The output ends, at the latest with the process.
EndOfOutput(w) ==
  /\ pc[w] = "reading"
  /\ Goto(w, "waiting")
  /\ UNCHANGED <<leaseVars, proc, exitOk, tasks, cancelled, terminal, superVars,
                 shown, cancelVars>>

\* A slip: end of output is taken for the end of the process.
WaitForOutputOnly(w) ==
  /\ pc[w] = "waiting"
  /\ Goto(w, "closing")
  /\ UNCHANGED <<leaseVars, proc, exitOk, tasks, cancelled, terminal, superVars,
                 shown, cancelVars>>

\* A slip: waiting for a report from every task before the process is reaped.
WaitForReports(w) ==
  /\ IdsOf[w] \subseteq seen[w]
  /\ pc[w] = "waiting"
  /\ proc[w] = "exited"
  /\ Goto(w, "closing")
  /\ UNCHANGED <<leaseVars, proc, exitOk, tasks, cancelled, terminal, superVars,
                 shown, cancelVars>>

\* child.wait(), which keeps the mutex of the child until the process is dead.
WaitForExit(w) ==
  /\ pc[w] = "waiting"
  /\ proc[w] = "exited"
  /\ Goto(w, "closing")
  /\ UNCHANGED <<leaseVars, proc, exitOk, tasks, cancelled, terminal, superVars,
                 shown, cancelVars>>

DropRuntime(w) ==
  /\ pc[w] = "closing"
  /\ IF rtGuard[w] = "none" THEN UNCHANGED <<rtAccess, rtGuard>> ELSE RT!Release(w)
  /\ Goto(w, "runtimeFree")
  /\ UNCHANGED <<appAccess, appGuard, proc, exitOk, tasks, cancelled, terminal,
                 superVars, shown, cancelVars>>

\* A spawn that failed before there was a process ends here.
DropApplication(w) ==
  /\ pc[w] = "runtimeFree"
  /\ APP!Release(w)
  /\ Goto(w, IF proc[w] = "none" THEN "refused" ELSE "flushing")
  /\ UNCHANGED <<rtAccess, rtGuard, proc, exitOk, tasks, cancelled, terminal,
                 superVars, shown, cancelVars>>

\* The events kept back are emitted; the first drain of cancelled_tasks.
Flush(w) ==
  /\ pc[w] = "flushing"
  /\ shown' = [shown EXCEPT ![w] = [t \in Task |-> @[t] \cup held[w][t]]]
  /\ held' = [held EXCEPT ![w] = Nothing]
  /\ drained' = [drained EXCEPT ![w] = IdsOf[w] \cap cancelled]
  /\ cancelled' = cancelled \ IdsOf[w]
  /\ Goto(w, "settling")
  /\ UNCHANGED <<leaseVars, proc, exitOk, tasks, terminal, seen, lines, cancelVars>>

\* Cancellations of plugin tasks are acknowledged, and the tasks that never
\* had a terminal event fail, unless the exit code says all went well and
\* the command need not report a result.
SettleAs(w, acknowledged, quietExit) ==
  LET known   == seen[w] \cup drained[w] \cup (IdsOf[w] \cap cancelled)
      ack     == IF IsPlugin(w) THEN acknowledged ELSE {}
      missing == IF quietExit THEN {} ELSE IdsOf[w] \ known
  IN /\ pc[w] = "settling"
     /\ cancelled' = cancelled \ IdsOf[w]
     /\ seen' = [seen EXCEPT ![w] = known]
     /\ shown' = [shown EXCEPT ![w] = Tell(Tell(@, ack, "cancelled"), missing, "error")]
     /\ Goto(w, "unregister")
     /\ UNCHANGED <<leaseVars, proc, exitOk, tasks, terminal, held, drained, lines,
                    cancelVars>>

\* Whether the tasks without a terminal event may be left without one.
QuietExit(w) == exitOk[w] /\ ~RequiresResult(w)

\* The ids drained for logging and the ids drained for notification.
DrainedTwice(w) == drained[w] \cup (IdsOf[w] \cap cancelled)

\* A slip the source warns of: the drain for logging eats the notification.
SettleLastDrain(w) == SettleAs(w, IdsOf[w] \cap cancelled, QuietExit(w))

\* A slip: a worker that exits with success is taken to have reported.
SettleTrustingExit(w) == SettleAs(w, DrainedTwice(w), exitOk[w])

Settle(w) == SettleAs(w, DrainedTwice(w), QuietExit(w))

\* A slip: the ids stay registered.
UnregisterNothing(w) ==
  /\ pc[w] = "unregister"
  /\ Goto(w, "unmark")
  /\ UNCHANGED <<leaseVars, proc, exitOk, tasks, cancelled, terminal, superVars,
                 shown, cancelVars>>

\* Entries that meanwhile belong to another worker stay.
Unregister(w) ==
  /\ pc[w] = "unregister"
  /\ tasks' = [t \in Task |-> IF tasks[t] = w THEN NoWorker ELSE tasks[t]]
  /\ Goto(w, "unmark")
  /\ UNCHANGED <<leaseVars, proc, exitOk, cancelled, terminal, superVars, shown,
                 cancelVars>>

Unmark(w) ==
  /\ pc[w] = "unmark"
  /\ terminal' = terminal \ IdsOf[w]
  /\ Goto(w, "ended")
  /\ UNCHANGED <<leaseVars, proc, exitOk, tasks, cancelled, superVars, shown,
                 cancelVars>>

WindDown(w) ==
  \/ WaitForExit(w) \/ DropRuntime(w) \/ DropApplication(w)
  \/ Flush(w) \/ Settle(w) \/ Unregister(w) \/ Unmark(w)

-----------------------------------------------------------------------------
(* cancel_task.                                                            *)

CGoto(c, state) == cpc' = [cpc EXCEPT ![c] = state]

CheckTerminal(c) ==
  /\ cpc[c] = "idle"
  /\ CGoto(c, IF ctask[c] \in terminal THEN "returned" ELSE "checked")
  /\ UNCHANGED <<leaseVars, pc, proc, exitOk, tasks, cancelled, terminal, superVars,
                 shown, ctask, cchild, cids, creply>>

TakeEntry(c) ==
  LET child == tasks[ctask[c]]
  IN /\ cpc[c] = "checked"
     /\ IF child = NoWorker
          THEN CGoto(c, "returned") /\ UNCHANGED <<tasks, cchild, cids>>
          ELSE /\ tasks' = [tasks EXCEPT ![ctask[c]] = NoWorker]
               /\ cchild' = [cchild EXCEPT ![c] = child]
               /\ cids' = [cids EXCEPT ![c] = {ctask[c]}]
               /\ CGoto(c, "linking")
     /\ UNCHANGED <<leaseVars, pc, proc, exitOk, cancelled, terminal, superVars,
                    shown, ctask, creply>>

\* A slip: only the requested task of a batch is cancelled.
TakeNoLinked(c) ==
  /\ cpc[c] = "linking"
  /\ CGoto(c, "marking")
  /\ UNCHANGED <<leaseVars, pc, proc, exitOk, tasks, cancelled, terminal, superVars,
                 shown, ctask, cchild, cids, creply>>

\* The other tasks of the same child go with it.
TakeLinked(c) ==
  LET linked == {t \in Task : tasks[t] = cchild[c]}
  IN /\ cpc[c] = "linking"
     /\ tasks' = [t \in Task |-> IF t \in linked THEN NoWorker ELSE tasks[t]]
     /\ cids' = [cids EXCEPT ![c] = @ \cup linked]
     /\ CGoto(c, "marking")
     /\ UNCHANGED <<leaseVars, pc, proc, exitOk, cancelled, terminal, superVars,
                    shown, ctask, cchild, creply>>

MarkCancelled(c) ==
  /\ cpc[c] = "marking"
  /\ cancelled' = cancelled \cup cids[c]
  /\ CGoto(c, "killing")
  /\ UNCHANGED <<leaseVars, pc, proc, exitOk, tasks, terminal, superVars, shown,
                 ctask, cchild, cids, creply>>

\* terminate_worker, once the supervisor does not hold the child's mutex: an
\* exited child keeps its status, a running one fails.
Terminate(c) ==
  LET child == cchild[c]
  IN /\ cpc[c] = "killing" /\ pc[child] # "waiting"
     /\ proc' = [proc EXCEPT ![child] = "exited"]
     /\ exitOk' = [exitOk EXCEPT ![child] = @ /\ proc[child] = "exited"]
     /\ CGoto(c, "telling")
     /\ UNCHANGED <<leaseVars, pc, tasks, cancelled, terminal, superVars, shown,
                    ctask, cchild, cids, creply>>

\* A slip: the windows hear of the requested task only.
AnnounceRequestedOnly(c) ==
  LET child == cchild[c]
      told  == IF IsPlugin(child) THEN {} ELSE {ctask[c]}
  IN /\ cpc[c] = "telling"
     /\ shown' = [shown EXCEPT ![child] = Tell(@, told, "cancelled")]
     /\ creply' = [creply EXCEPT ![c] = TRUE]
     /\ CGoto(c, "returned")
     /\ UNCHANGED <<leaseVars, pc, proc, exitOk, tasks, cancelled, terminal,
                    superVars, ctask, cchild, cids>>

\* Cancellations of plugin tasks are left to the supervisor.
Announce(c) ==
  LET child == cchild[c]
      told  == IF IsPlugin(child) THEN {} ELSE cids[c]
  IN /\ cpc[c] = "telling"
     /\ shown' = [shown EXCEPT ![child] = Tell(@, told, "cancelled")]
     /\ creply' = [creply EXCEPT ![c] = TRUE]
     /\ CGoto(c, "returned")
     /\ UNCHANGED <<leaseVars, pc, proc, exitOk, tasks, cancelled, terminal,
                    superVars, ctask, cchild, cids>>

Cancel(c) ==
  \/ TakeEntry(c) \/ TakeLinked(c) \/ MarkCancelled(c) \/ Terminate(c) \/ Announce(c)

-----------------------------------------------------------------------------
(* An application update holds its lease until it gives up; when it        *)
(* succeeds it keeps it for the rest of the process's life.                *)
UpdateBegin(u) ==
  /\ APP!Acquire(u, "update")
  /\ UNCHANGED <<rtAccess, rtGuard, pc, proc, exitOk, tasks, cancelled, terminal,
                 superVars, shown, cancelVars>>

UpdateAbandon(u) ==
  /\ APP!Release(u)
  /\ UNCHANGED <<rtAccess, rtGuard, pc, proc, exitOk, tasks, cancelled, terminal,
                 superVars, shown, cancelVars>>

Spawn(w) ==
  \/ ReserveApplication(w) \/ ReserveRuntime(w) \/ CheckIds(w)
  \/ Launch(w) \/ Register(w)

Next ==
  \/ \E w \in Worker : \/ Begin(w) \/ Spawn(w) \/ ProcessExit(w) \/ EndOfOutput(w)
                       \/ Read(w) \/ WindDown(w)
  \/ \E c \in Canceller : CheckTerminal(c) \/ Cancel(c)
  \/ \E u \in Updater : UpdateBegin(u) \/ UpdateAbandon(u)

Spec == Init /\ [][Next]_vars

\* Threads that have something to do get to do it.  Nothing makes the user
\* start or cancel anything, or an update give up, or a worker write a line or
\* close its output.
Fairness ==
  /\ \A w \in Worker : /\ WF_vars(Spawn(w)) /\ WF_vars(WindDown(w))
                        /\ WF_vars(proc[w] = "exited" /\ EndOfOutput(w))
  /\ \A c \in Canceller : WF_vars(Cancel(c))

FairSpec == Spec /\ Fairness

\* For properties that need the workers themselves to come to an end.
EndingSpec == FairSpec /\ \A w \in Worker : WF_vars(ProcessExit(w))

-----------------------------------------------------------------------------
(* Safety.                                                                 *)

Running(w) == proc[w] = "running"

Compatible(m, n) == m = n /\ m # "update"

(***************************************************************************)
(* Two worker processes on the Python runtime live at the same time only   *)
(* if both are shared users or both install plugins.  The lease spans the  *)
(* process-start window, cancellation and the death of the process         *)
(* (worker.rs, comment on RUNTIME_ACCESS).                                 *)
(***************************************************************************)
RuntimeExclusion ==
  \A v, w \in Worker :
    v # w /\ Running(v) /\ Running(w) => Compatible(LeaseOf(v), LeaseOf(w))

(***************************************************************************)
(* No worker runs while an application update owns the bundle (worker.rs,  *)
(* comment on APPLICATION_ACCESS).                                         *)
(***************************************************************************)
UpdateAlone ==
  (\E u \in Updater : appGuard[u] = "update") => \A w \in Worker : ~Running(w)

(***************************************************************************)
(* The registry refers to supervisors that will still remove the entry: no *)
(* id stays registered, and so refused as "already exists", for ever.      *)
(***************************************************************************)
RegistryIsLive ==
  \A t \in Task :
    tasks[t] # NoWorker =>
      /\ t \in IdsOf[tasks[t]]
      /\ pc[tasks[t]] \in SuperState \ {"unmark", "ended"}

(***************************************************************************)
(* terminal_tasks holds ids of supervisors that are not done: a task id is *)
(* never refused cancellation because of a worker long gone.               *)
(***************************************************************************)
TerminalMarksLive ==
  \A t \in terminal :
    \E w \in Worker : t \in IdsOf[w] /\ pc[w] \in SuperState \ {"ended"}

\* A canceller that will still tell the windows about task t of worker w.
WillAnnounce(w, t) ==
  \E c \in Canceller :
    /\ cchild[c] = w /\ t \in cids[c] /\ ~IsPlugin(w)
    /\ cpc[c] \in {"linking", "marking", "killing", "telling"}

(***************************************************************************)
(* When the supervisor has settled its accounts, every task of a worker    *)
(* that failed, or that must report a result, has had a terminal event, or *)
(* a cancel_task call is about to send one, however worker, supervisor and *)
(* cancellations interleave.                                               *)
(***************************************************************************)
OutcomeNotLost ==
  \A w \in Worker :
    pc[w] \in {"unregister", "unmark", "ended"} /\ ~QuietExit(w) =>
      \A t \in IdsOf[w] : shown[w][t] # {} \/ WillAnnounce(w, t)

(***************************************************************************)
(* An accepted cancellation is complete: no id of the batch refers to the  *)
(* child any more, and when the call returns its process is dead.          *)
(***************************************************************************)
CancelTakesWholeBatch ==
  \A c \in Canceller :
    /\ cpc[c] \in {"marking", "killing", "telling"} \/ creply[c]
         => \A t \in Task : tasks[t] # cchild[c]
    /\ creply[c] => proc[cchild[c]] = "exited"

-----------------------------------------------------------------------------
(* Liveness.                                                               *)

(***************************************************************************)
(* A cancellation that found its task leads to both leases of the worker   *)
(* being free, whether or not the worker would ever have ended by itself,  *)
(* unless it has closed its output and lives on: then the supervisor waits *)
(* for it with the mutex that cancel_task needs to kill it.                *)
(***************************************************************************)
CancelFreesRuntime ==
  \A c \in Canceller :
    cpc[c] = "linking" ~>
      \/ creply[c] /\ rtGuard[cchild[c]] = "none" /\ appGuard[cchild[c]] = "none"
      \/ \E w \in Worker : cchild[c] = w /\ pc[w] = "waiting" /\ Running(w)

(***************************************************************************)
(* If workers end, every task of a worker that must report a result gets a *)
(* terminal event (EndingSpec).                                            *)
(***************************************************************************)
EveryCallAnswered ==
  \A w \in Worker :
    pc[w] = "reading" /\ RequiresResult(w) ~> \A t \in IdsOf[w] : shown[w][t] # {}

=============================================================================
