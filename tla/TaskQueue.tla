------------------------------ MODULE TaskQueue ------------------------------
(***************************************************************************)
(* The separation queue of the main window (stores/task.ts and             *)
(* features/tasks/lifecycle.ts): submission, the scheduler that fills the  *)
(* worker slots, the asynchronous start calls, worker events, cancellation *)
(* and the restart of the application from the stored task history.        *)
(*                                                                         *)
(* JavaScript runs a handler to its next await without interruption, so an *)
(* action is what runs between two awaits, the call of scheduleQueue it    *)
(* ends with included.  The backend is reduced to what it shows the        *)
(* window: WorkerSupervisor has its details.  Invocations, their replies   *)
(* and worker events travel separately and may overtake each other; the    *)
(* events of one task stay in order.                                       *)
(*                                                                         *)
(* Abstractions.  A job is one submission; its number is its createdAt.    *)
(* The stages between "preparing" and the outcome are one, "running".  A   *)
(* worker that exits with success has reported every task (worker_infer.py *)
(* and worker_workflows.py return a non-zero code otherwise), and reports  *)
(* no recoverable error for a task.                                        *)
(***************************************************************************)
EXTENDS Naturals, FiniteSets, Sequences

CONSTANTS
  Job,          \* numbers of the submissions, in order
  Task,
  JobOf,        \* taskJobId
  Workflow,     \* jobs that run a workflow
  Graph,        \* those whose node metadata must be loaded before they start
  Invalid,      \* those whose definition does not validate
  Cancellable,  \* bound: the tasks the user may cancel
  MaxLimit,     \* MAX_CONCURRENT_SEPARATIONS, smaller in the runs
  MaxRestarts   \* bound: restarts of the application

ASSUME JobAssumption ==
  /\ Job \subseteq Nat /\ IsFiniteSet(Task)
  /\ JobOf \in [Task -> Job]
  /\ Graph \subseteq Workflow /\ Invalid \subseteq Workflow /\ Workflow \subseteq Job
  /\ Cancellable \subseteq Task
ASSUME BoundAssumption == MaxLimit \in Nat \ {0} /\ MaxRestarts \in Nat

VARIABLES
  status,      \* status of each task in the window; "absent" before submission
  stored,      \* the same in the task-history file
  dirty,       \* a save is pending (queuePersist)
  limit,       \* settings.maxConcurrentSeparations
  call,        \* the start call of each job: how far it is and its tasks
  cancel,      \* the cancel_task invocation of each task
  listening,   \* the listener for worker events is installed
  missed,      \* tasks an outcome was emitted for with no listener
  events,      \* events emitted for each task and not yet handled
  worker,      \* the worker of each job: "none", "running", "settled", "gone"
  alive,       \* its process lives
  handed,      \* the tasks it was started with
  registered, reported, seen, marked,
               \* AppState.tasks and terminal_tasks, the supervisors'
               \* terminal_task_ids, AppState.cancelled_tasks
  taken,       \* the tasks each cancel_task invocation took
  restarts

windowVars  == <<status, dirty, call, limit, listening>>
backendVars == <<worker, alive, handed, registered, reported, seen, marked, taken>>
channelVars == <<events, missed>>
vars == <<windowVars, stored, cancel, backendVars, channelVars, restarts>>

Terminal == {"done", "failed", "cancelled"}
Active   == {"preparing", "running"}
Status   == Terminal \cup Active \cup {"absent", "queued"}

TasksOf(j) == {t \in Task : JobOf[t] = j}
With(s, S, value) == [t \in Task |-> IF t \in S THEN value ELSE s[t]]

Idle == [phase |-> "idle", tasks |-> {}]
At(c, j, phase) == [c EXCEPT ![j].phase = phase]
Ended(c, j) == [c EXCEPT ![j] = Idle]

TypeOK ==
  /\ status \in [Task -> Status] /\ stored \in [Task -> Status]
  /\ dirty \in BOOLEAN /\ listening \in BOOLEAN
  /\ limit \in 1..MaxLimit
  /\ call \in [Job -> [phase : {"idle", "metadata", "asked", "accepted", "refused"},
                       tasks : SUBSET Task]]
  /\ cancel \in [Task -> {"idle", "asked", "taken", "yes", "no"}]
  /\ events \in [Task -> Seq({"progress", "done", "failed", "cancelled"})]
  /\ worker \in [Job -> {"none", "running", "settled", "gone"}]
  /\ alive \in [Job -> BOOLEAN] /\ handed \in [Job -> SUBSET Task]
  /\ taken \in [Task -> SUBSET Task]
  /\ missed \subseteq Task /\ registered \subseteq Task /\ reported \subseteq Task
  /\ seen \subseteq Task /\ marked \subseteq Task
  /\ restarts \in 0..MaxRestarts

Init ==
  /\ status = [t \in Task |-> "absent"]
  /\ call = [j \in Job |-> Idle]
  /\ cancel = [t \in Task |-> "idle"] /\ taken = [t \in Task |-> {}]
  /\ events = [t \in Task |-> <<>>]
  /\ worker = [j \in Job |-> "none"]
  /\ alive = [j \in Job |-> FALSE] /\ handed = [j \in Job |-> {}]
  /\ registered = {} /\ reported = {} /\ seen = {} /\ marked = {}
  /\ listening = FALSE /\ dirty = FALSE
  /\ stored = status
  /\ limit = 1
  /\ missed = {}
  /\ restarts = 0

-----------------------------------------------------------------------------
(* scheduleQueue.  The operators take the statuses s and the start calls c *)
(* that the rest of the handler leaves.                                    *)

ActiveJobs(s) == {JobOf[t] : t \in {u \in Task : s[u] \in Active}}
QueuedJobs(s) == {JobOf[t] : t \in {u \in Task : s[u] = "queued"}} \ ActiveJobs(s)

\* A job that fails validation before its first await frees its slot in the
\* same call: queueScheduleRequested asks for another pass.
Unstartable == Invalid \ Graph

\* selectQueuedJobGroups, repeated until the slots are taken.
Picked(s, slots) ==
  {j \in QueuedJobs(s) :
     Cardinality({k \in QueuedJobs(s) \ Unstartable : k < j}) + Cardinality(ActiveJobs(s))
       < slots}

\* What a start call does before its first await.
Scheduled(s, c, slots) ==
  LET Starts(t) == s[t] = "queued" /\ JobOf[t] \in Picked(s, slots)
  IN /\ status' = [t \in Task |-> IF ~Starts(t) THEN s[t]
                                  ELSE IF JobOf[t] \in Unstartable THEN "failed"
                                  ELSE "preparing"]
     /\ call' = [j \in Job |->
                  IF j \in Picked(s, slots) \ Unstartable
                    THEN [phase |-> IF j \in Graph THEN "metadata" ELSE "asked",
                          tasks |-> {t \in TasksOf(j) : Starts(t)}]
                    ELSE c[j]]
     /\ dirty' = (dirty \/ status' # status)

Schedule(s, c) == Scheduled(s, c, limit)

-----------------------------------------------------------------------------
(* The user.                                                               *)

\* startSeparation, startWorkflowInference: all inputs of a job at once.
Submit(j) ==
  /\ \A t \in Task : JobOf[t] >= j => status[t] = "absent"
  /\ Schedule(With(status, TasksOf(j), "queued"), call)
  /\ UNCHANGED <<limit, listening, stored, cancel, backendVars, channelVars, restarts>>

SetLimit(n) ==
  /\ n # limit
  /\ limit' = n
  /\ Scheduled(status, call, n)
  /\ UNCHANGED <<listening, stored, cancel, backendVars, channelVars, restarts>>

Waiting(t) == call[JobOf[t]].phase = "metadata" /\ t \in call[JobOf[t]].tasks

\* cancelTask up to its await: queued tasks and tasks that wait for node
\* metadata are settled in the window, the others are the backend's.
CancelTask(t) ==
  /\ t \in Cancellable /\ status[t] # "absent" /\ cancel[t] = "idle"
  /\ \/ /\ status[t] = "queued" \/ Waiting(t)
        /\ Schedule(With(status, {t}, "cancelled"), call)
        /\ UNCHANGED cancel
     \/ /\ ~(status[t] = "queued" \/ Waiting(t))
        /\ cancel' = [cancel EXCEPT ![t] = "asked"]
        /\ UNCHANGED <<status, call, dirty>>
  /\ UNCHANGED <<limit, listening, stored, backendVars, channelVars, restarts>>

\* The rest of cancelTask, whatever happened to the task meanwhile.
CancelReply(t) ==
  /\ cancel[t] \in {"yes", "no"}
  /\ cancel' = [cancel EXCEPT ![t] = "idle"]
  /\ \/ cancel[t] = "yes" /\ Schedule(With(status, {t}, "cancelled"), call)
     \/ cancel[t] = "no" /\ UNCHANGED <<status, call, dirty>>
  /\ UNCHANGED <<limit, listening, stored, backendVars, channelVars, restarts>>

-----------------------------------------------------------------------------
(* The start calls after their awaits.                                     *)

Unfinished(j) == {t \in call[j].tasks : status[t] \notin Terminal}
Undisturbed(j) == \A t \in call[j].tasks : status[t] = "preparing"

\* A slip: a task cancelled during the wait is started all the same.
AskAnyway(j) == call' = At(call, j, "asked") /\ UNCHANGED <<status, dirty>>

\* The node metadata is there and nobody cancelled: the workflow is invoked
\* or fails validation.
Ask(j) ==
  \/ /\ Undisturbed(j) /\ j \notin Invalid
     /\ call' = At(call, j, "asked")
     /\ UNCHANGED <<status, dirty>>
  \/ /\ Undisturbed(j) /\ j \in Invalid
     /\ Schedule(With(status, Unfinished(j), "failed"), Ended(call, j))

\* A slip: the rest of a batch is left as it is.
ForgetRest(j) ==
  /\ ~Undisturbed(j)
  /\ call' = Ended(call, j) /\ UNCHANGED <<status, dirty>>

\* A task of the group was cancelled: the rest of a batch goes back to the
\* queue, a single task is done with.
Requeue(j) ==
  /\ ~Undisturbed(j)
  /\ \/ /\ Cardinality(call[j].tasks) > 1
        /\ Schedule(With(status, Unfinished(j), "queued"), Ended(call, j))
     \/ /\ Cardinality(call[j].tasks) = 1
        /\ call' = Ended(call, j) /\ UNCHANGED <<status, dirty>>

\* The metadata query fails: the catch clause.
MetadataFails(j) ==
  IF Unfinished(j) = {} /\ Cardinality(call[j].tasks) = 1
    THEN call' = Ended(call, j) /\ UNCHANGED <<status, dirty>>
    ELSE Schedule(With(status, Unfinished(j), "failed"), Ended(call, j))

MetadataLoaded(j) ==
  /\ call[j].phase = "metadata"
  /\ Ask(j) \/ Requeue(j) \/ MetadataFails(j)
  /\ UNCHANGED <<limit, listening, stored, cancel, backendVars, channelVars, restarts>>

\* A batch of separations is failed whatever its tasks have become.
Failed(j) ==
  IF Cardinality(call[j].tasks) > 1 /\ j \notin Workflow THEN call[j].tasks ELSE Unfinished(j)

\* A slip: a refused start does not look for the next job.
FailQuietly(j) ==
  /\ status' = With(status, Failed(j), "failed")
  /\ call' = Ended(call, j)
  /\ dirty' = TRUE

FailRefused(j) ==
  IF Failed(j) = {} /\ Cardinality(call[j].tasks) = 1
    THEN call' = Ended(call, j) /\ UNCHANGED <<status, dirty>>
    ELSE Schedule(With(status, Failed(j), "failed"), Ended(call, j))

StartReply(j) ==
  /\ \/ call[j].phase = "accepted" /\ call' = Ended(call, j) /\ UNCHANGED <<status, dirty>>
     \/ call[j].phase = "refused" /\ FailRefused(j)
  /\ UNCHANGED <<limit, listening, stored, cancel, backendVars, channelVars, restarts>>

-----------------------------------------------------------------------------
(* handleWorkerEvent.                                                      *)

StatusOf(event) == IF event = "progress" THEN "running" ELSE event

\* A slip: a late event is taken at its word.
AfterLateEvent(t, event) == StatusOf(event)

AfterEvent(t, event) == IF status[t] \in Terminal THEN status[t] ELSE StatusOf(event)

HandleEvent(t) ==
  LET after == AfterEvent(t, Head(events[t]))
  IN /\ listening /\ events[t] # <<>>
     /\ events' = [events EXCEPT ![t] = Tail(@)]
     /\ \/ after \in Terminal /\ status[t] \notin Terminal
             /\ Schedule(With(status, {t}, after), call)
        \/ ~(after \in Terminal /\ status[t] \notin Terminal)
             /\ status' = With(status, {t}, after) /\ dirty' = TRUE /\ UNCHANGED call
     /\ UNCHANGED <<limit, listening, stored, cancel, backendVars, missed, restarts>>

-----------------------------------------------------------------------------
(* The backend, as far as the window sees it.                              *)

Emit(S, event) ==
  /\ events' = [t \in Task |-> IF t \in S /\ listening THEN Append(events[t], event)
                                                       ELSE events[t]]
  /\ missed' = IF listening \/ event = "progress" THEN missed ELSE missed \cup S

\* spawn_worker_background succeeds or fails.
Accept(j) ==
  /\ call[j].phase = "asked"
  /\ call' = At(call, j, "accepted")
  /\ worker' = [worker EXCEPT ![j] = "running"]
  /\ alive' = [alive EXCEPT ![j] = TRUE]
  /\ handed' = [handed EXCEPT ![j] = call[j].tasks]
  /\ registered' = registered \cup call[j].tasks
  /\ UNCHANGED <<status, dirty, limit, listening, stored, cancel, reported, seen, marked,
                 taken, channelVars, restarts>>

Refuse(j) ==
  /\ call[j].phase = "asked"
  /\ call' = At(call, j, "refused")
  /\ UNCHANGED <<status, dirty, limit, listening, stored, cancel, backendVars, channelVars,
                 restarts>>

\* Bound: none follows the first that the window has seen.
Progress(t) ==
  /\ worker[JobOf[t]] = "running" /\ t \in handed[JobOf[t]]
  /\ status[t] = "preparing" /\ events[t] = <<>>
  /\ Emit({t}, "progress")
  /\ UNCHANGED <<windowVars, stored, cancel, backendVars, restarts>>

Report(t) ==
  /\ worker[JobOf[t]] = "running" /\ t \in handed[JobOf[t]] \ reported
  /\ reported' = reported \cup {t} /\ seen' = seen \cup {t}
  /\ \E outcome \in {"done", "failed"} : Emit({t}, outcome)
  /\ UNCHANGED <<windowVars, stored, cancel, worker, alive, handed, registered, marked,
                 taken, restarts>>

\* A line that is not an event fails the whole batch without marking it.
\* Bound: once for each worker.
Malformed(j) ==
  /\ worker[j] = "running" /\ ~(handed[j] \subseteq seen)
  /\ seen' = seen \cup handed[j]
  /\ Emit(handed[j], "failed")
  /\ UNCHANGED <<windowVars, stored, cancel, worker, alive, handed, registered, reported,
                 marked, taken, restarts>>

\* The process is over and the supervisor settles what was not reported.
Settle(j) ==
  /\ worker[j] = "running"
  /\ worker' = [worker EXCEPT ![j] = "settled"]
  /\ alive' = [alive EXCEPT ![j] = FALSE]
  /\ marked' = marked \ handed[j]
  /\ Emit(handed[j] \ (seen \cup marked), "failed")
  /\ UNCHANGED <<windowVars, stored, cancel, handed, registered, reported, seen, taken,
                 restarts>>

Unregister(j) ==
  /\ worker[j] = "settled"
  /\ worker' = [worker EXCEPT ![j] = "gone"]
  /\ registered' = registered \ handed[j]
  /\ reported' = reported \ handed[j] /\ seen' = seen \ handed[j]
  /\ UNCHANGED <<windowVars, stored, cancel, alive, handed, marked, taken, channelVars,
                 restarts>>

\* cancel_task: refused for reported or unknown tasks, else it takes the
\* whole batch out of the registry.
TakeCancel(t) ==
  LET batch == handed[JobOf[t]] \cap registered
  IN /\ cancel[t] = "asked"
     /\ \/ /\ t \in reported \/ t \notin registered
           /\ cancel' = [cancel EXCEPT ![t] = "no"]
           /\ UNCHANGED <<registered, marked, taken>>
        \/ /\ t \notin reported /\ t \in registered
           /\ cancel' = [cancel EXCEPT ![t] = "taken"]
           /\ registered' = registered \ batch
           /\ marked' = marked \cup batch
           /\ taken' = [taken EXCEPT ![t] = batch]
     /\ UNCHANGED <<windowVars, stored, worker, alive, handed, reported, seen, channelVars,
                    restarts>>

\* ... kills the process, tells the window and returns.
Announce(t) ==
  /\ cancel[t] = "taken"
  /\ cancel' = [cancel EXCEPT ![t] = "yes"]
  /\ alive' = [alive EXCEPT ![JobOf[t]] = FALSE]
  /\ Emit(taken[t], "cancelled")
  /\ taken' = [taken EXCEPT ![t] = {}]
  /\ UNCHANGED <<windowVars, stored, worker, handed, registered, reported, seen, marked,
                 restarts>>

-----------------------------------------------------------------------------
(* Storing the history, and starting the application again.                *)

\* Bound: only what a restart can still read back is saved.
Persist ==
  /\ dirty /\ restarts < MaxRestarts
  /\ stored' = status /\ dirty' = FALSE
  /\ UNCHANGED <<status, call, limit, listening, cancel, backendVars, channelVars, restarts>>

\* normalizeTask: work that was under way has failed, queued work stays.
Normalized(s) == [t \in Task |-> IF s[t] \in Active THEN "failed" ELSE s[t]]

\* The application ends at any time; the workers end with it.  Only the two
\* stores survive.
Restart ==
  /\ restarts < MaxRestarts
  /\ restarts' = restarts + 1
  /\ UNCHANGED <<stored, limit>>
  /\ missed' = {}
  /\ status' = Normalized(stored)
  /\ call' = [j \in Job |-> Idle]
  /\ cancel' = [t \in Task |-> "idle"] /\ taken' = [t \in Task |-> {}]
  /\ events' = [t \in Task |-> <<>>]
  /\ worker' = [j \in Job |-> "none"]
  /\ alive' = [j \in Job |-> FALSE] /\ handed' = [j \in Job |-> {}]
  /\ registered' = {} /\ reported' = {} /\ seen' = {} /\ marked' = {}
  /\ listening' = FALSE /\ dirty' = FALSE

\* connectWorkerEvents, after the stores have been loaded.
Connect ==
  /\ ~listening
  /\ listening' = TRUE
  /\ Schedule(status, call)
  /\ UNCHANGED <<limit, stored, cancel, backendVars, channelVars, restarts>>

Next ==
  \/ \E j \in Job : Submit(j) \/ MetadataLoaded(j) \/ StartReply(j) \/ Accept(j) \/ Refuse(j)
                      \/ Malformed(j) \/ Settle(j) \/ Unregister(j)
  \/ \E t \in Task : CancelTask(t) \/ CancelReply(t) \/ HandleEvent(t) \/ Progress(t)
                       \/ Report(t) \/ TakeCancel(t) \/ Announce(t)
  \/ \E n \in 1..MaxLimit : SetLimit(n)
  \/ Persist \/ Restart \/ Connect

Spec == Init /\ [][Next]_vars

\* Promises settle, events are delivered, workers end, and the listener is
\* installed in the end.  The user need do nothing.
Fairness ==
  /\ \A j \in Job : /\ WF_vars(MetadataLoaded(j)) /\ WF_vars(StartReply(j))
                    /\ WF_vars(Accept(j) \/ Refuse(j))
                    /\ WF_vars(Settle(j)) /\ WF_vars(Unregister(j))
  /\ \A t \in Task : /\ WF_vars(HandleEvent(t)) /\ WF_vars(CancelReply(t))
                     /\ WF_vars(TakeCancel(t)) /\ WF_vars(Announce(t))
  /\ WF_vars(Connect)

FairSpec == Spec /\ Fairness

-----------------------------------------------------------------------------
(* Properties.                                                             *)

HasOutcomeComing(t) ==
  \/ t \in call[JobOf[t]].tasks /\ call[JobOf[t]].phase \in {"metadata", "asked", "refused"}
  \/ worker[JobOf[t]] = "running" /\ t \in handed[JobOf[t]] \ (seen \cup marked)
  \/ \E i \in DOMAIN events[t] : events[t][i] \in Terminal
  \/ \E u \in Task : cancel[u] = "taken" /\ t \in taken[u]
  \/ cancel[t] = "yes"

(***************************************************************************)
(* No slot leaks: something is under way that will end every active task,  *)
(* unless its outcome was emitted before the listener was installed.       *)
(***************************************************************************)
NoSlotLeak ==
  \A t \in Task : status[t] \in Active => t \in missed \/ HasOutcomeComing(t)

(***************************************************************************)
(* A task shown as cancelled has no living process working on it: it was   *)
(* never handed over, or the process of its batch is dead.                 *)
(***************************************************************************)
CancelledIsDead ==
  \A t \in Task :
    status[t] = "cancelled" /\ t \in handed[JobOf[t]] => ~alive[JobOf[t]]

(***************************************************************************)
(* An outcome that reached the history file survives every restart.        *)
(***************************************************************************)
OutcomeIsDurable ==
  \A t \in Task : stored[t] \in Terminal => status[t] \in Terminal

(***************************************************************************)
(* Every queued task ends, over restarts, refusals, cancellations and      *)
(* changes of the limit, unless an outcome was missed (its task keeps a    *)
(* slot for the rest of the session) or the application ended before the   *)
(* task was saved.                                                         *)
(***************************************************************************)
EveryTaskEnds ==
  \A t \in Task :
    status[t] = "queued" ~> status[t] \in Terminal \cup {"absent"} \/ missed # {}
=============================================================================
