--------------------------- MODULE TaskQueueProofs ---------------------------
(***************************************************************************)
(* For every set of tasks and jobs, every bound and any number of          *)
(* restarts: an outcome in the history survives, a task shown as cancelled *)
(* has no living process, and every active task has an outcome coming.     *)
(***************************************************************************)
EXTENDS TaskQueue, FiniteSetTheorems, SequenceTheorems, TLAPS

(* What the window may rely on, for statuses s and start calls c: a task   *)
(* that is not started yet has neither call nor worker; a task whose start *)
(* has been asked for is "preparing", and while it waits for metadata it   *)
(* may also have been cancelled.                                           *)
Untouched(s, c) ==
  \A t \in Task : s[t] \in {"absent", "queued"}
                    => c[JobOf[t]].phase = "idle" /\ worker[JobOf[t]] = "none"

Awaited(s, c) ==
  \A j \in Job : \A t \in c[j].tasks :
    /\ JobOf[t] = j
    /\ c[j].phase \in {"asked", "refused"} => s[t] = "preparing"
    /\ c[j].phase = "metadata" => s[t] \in {"preparing"} \cup Terminal

NotHanded(c) ==
  \A j \in Job : c[j].phase \in {"metadata", "asked", "refused"} => worker[j] = "none"

\* The tasks of a job are submitted together.
Together(s) ==
  \A t, u \in Task : JobOf[t] = JobOf[u] /\ s[t] = "absent" => s[u] = "absent"

WindowInv(s, c) == Untouched(s, c) /\ Awaited(s, c) /\ NotHanded(c) /\ Together(s)

(* The backend knows nothing of a task without a worker.                   *)
Unknown(t) ==
  /\ t \notin handed[JobOf[t]] \cup registered \cup reported \cup seen \cup marked
  /\ events[t] = <<>>
  /\ cancel[t] \notin {"taken", "yes"}
  /\ status[t] # "running"

BackendInv ==
  /\ \A t \in Task : worker[JobOf[t]] = "none" => Unknown(t)
  /\ \A j \in Job : \A t \in handed[j] : JobOf[t] = j
  /\ \A u \in Task : /\ \A t \in taken[u] : JobOf[t] = JobOf[u]
                     /\ taken[u] # {} => cancel[u] = "taken"

(* A cancellation is told after the kill, and no job is started again.     *)
KilledInv ==
  \A t \in Task :
    /\ cancel[t] = "yes" => ~alive[JobOf[t]]
    /\ (\E i \in DOMAIN events[t] : events[t][i] = "cancelled") => ~alive[JobOf[t]]

(* The inductive invariant of the last two theorems.                       *)
IInv ==
  /\ WindowInv(status, call) /\ Together(stored)
  /\ BackendInv /\ KilledInv
  /\ CancelledIsDead /\ NoSlotLeak

-----------------------------------------------------------------------------
(* Type correctness.                                                       *)

Calls == [Job -> [phase : {"idle", "metadata", "asked", "accepted", "refused"},
                  tasks : SUBSET Task]]

WindowTypes ==
  /\ status \in [Task -> Status] /\ stored \in [Task -> Status]
  /\ call \in Calls
  /\ dirty \in BOOLEAN /\ listening \in BOOLEAN

EventTypes == events \in [Task -> Seq({"progress", "done", "failed", "cancelled"})]

BackendTypes ==
  /\ limit \in 1..MaxLimit /\ restarts \in 0..MaxRestarts
  /\ cancel \in [Task -> {"idle", "asked", "taken", "yes", "no"}]
  /\ worker \in [Job -> {"none", "running", "settled", "gone"}]
  /\ alive \in [Job -> BOOLEAN] /\ handed \in [Job -> SUBSET Task]
  /\ taken \in [Task -> SUBSET Task]
  /\ missed \subseteq Task /\ registered \subseteq Task /\ reported \subseteq Task
  /\ seen \subseteq Task /\ marked \subseteq Task

LEMMA TypeSplit == TypeOK <=> WindowTypes /\ EventTypes /\ BackendTypes
  BY DEF TypeOK, WindowTypes, EventTypes, BackendTypes, Calls

(* Every step, one disjunct per operation.                                 *)
JobStep(j) ==
  \/ Submit(j) \/ MetadataLoaded(j) \/ StartReply(j) \/ Accept(j) \/ Refuse(j)
  \/ Malformed(j) \/ Settle(j) \/ Unregister(j)

TaskStep(t) ==
  \/ CancelTask(t) \/ CancelReply(t) \/ HandleEvent(t) \/ Progress(t)
  \/ Report(t) \/ TakeCancel(t) \/ Announce(t)

LEMMA NextSplit ==
  Next <=> \/ \E j \in Job : JobStep(j)
           \/ \E t \in Task : TaskStep(t)
           \/ \E n \in 1..MaxLimit : SetLimit(n)
           \/ Persist \/ Restart \/ Connect
  BY DEF Next, JobStep, TaskStep

LEMMA JobOfTask == \A t \in Task : JobOf[t] \in Job
  BY JobAssumption

LEMMA WithType ==
  ASSUME NEW s \in [Task -> Status], NEW S, NEW value \in Status
  PROVE  /\ With(s, S, value) \in [Task -> Status]
         /\ \A t \in Task : With(s, S, value)[t] = IF t \in S THEN value ELSE s[t]
  BY DEF With

LEMMA EndedType ==
  ASSUME NEW c \in Calls, NEW j \in Job
  PROVE  /\ Ended(c, j) \in Calls
         /\ Ended(c, j)[j].phase = "idle" /\ Ended(c, j)[j].tasks = {}
         /\ \A k \in Job : k # j => Ended(c, j)[k] = c[k]
  BY DEF Ended, Calls, Idle

LEMMA AtType ==
  ASSUME NEW c \in Calls, NEW j \in Job,
         NEW phase \in {"idle", "metadata", "asked", "accepted", "refused"}
  PROVE  /\ At(c, j, phase) \in Calls
         /\ At(c, j, phase)[j].phase = phase /\ At(c, j, phase)[j].tasks = c[j].tasks
         /\ \A k \in Job : k # j => At(c, j, phase)[k] = c[k]
  BY DEF At, Calls

(* What a pass of the scheduler does: it starts whole jobs with all their  *)
(* queued tasks, none of which has an active task, or fails them.          *)
LEMMA ScheduledType ==
  ASSUME NEW s \in [Task -> Status], NEW c \in Calls, NEW slots, Scheduled(s, c, slots),
         dirty \in BOOLEAN
  PROVE  status' \in [Task -> Status] /\ call' \in Calls /\ dirty' \in BOOLEAN
<1>1. status' \in [Task -> Status]
  BY DEF Scheduled, Status, Active, Terminal
<1>2. call' \in Calls
  BY DEF Scheduled, Calls, TasksOf
<1>. QED
  BY <1>1, <1>2 DEF Scheduled

LEMMA ScheduledTasks ==
  ASSUME NEW s \in [Task -> Status], NEW c \in Calls, NEW slots, Scheduled(s, c, slots),
         NEW t \in Task
  PROVE  \/ status'[t] = s[t]
         \/ s[t] = "queued" /\ status'[t] = "failed"
         \/ /\ s[t] = "queued" /\ status'[t] = "preparing"
            /\ t \in call'[JobOf[t]].tasks
            /\ call'[JobOf[t]].phase \in {"metadata", "asked"}
  BY JobOfTask DEF Scheduled, TasksOf

LEMMA ScheduledJobs ==
  ASSUME NEW s \in [Task -> Status], NEW c \in Calls, NEW slots, Scheduled(s, c, slots),
         NEW j \in Job
  PROVE  \/ call'[j] = c[j]
         \/ /\ call'[j].phase \in {"metadata", "asked"}
            /\ \E t \in TasksOf(j) : s[t] = "queued"
            /\ \A t \in TasksOf(j) : s[t] \notin Active /\ status'[t] # "queued"
            /\ \A t \in call'[j].tasks : t \in TasksOf(j) /\ status'[t] = "preparing"
<1>. SUFFICES ASSUME j \in Picked(s, slots) \ Unstartable
              PROVE  /\ call'[j].phase \in {"metadata", "asked"}
                     /\ \E t \in TasksOf(j) : s[t] = "queued"
                     /\ \A t \in TasksOf(j) : s[t] \notin Active /\ status'[t] # "queued"
                     /\ \A t \in call'[j].tasks : t \in TasksOf(j) /\ status'[t] = "preparing"
  BY DEF Scheduled
<1>1. call'[j] = [phase |-> IF j \in Graph THEN "metadata" ELSE "asked",
                  tasks |-> {t \in TasksOf(j) : s[t] = "queued" /\ JobOf[t] \in Picked(s, slots)}]
  BY DEF Scheduled
<1>2. j \in QueuedJobs(s)
  BY DEF Picked
<1>3. \A t \in TasksOf(j) : s[t] \notin Active
  BY <1>2 DEF QueuedJobs, ActiveJobs, TasksOf
<1>4. \E t \in TasksOf(j) : s[t] = "queued"
  BY <1>2 DEF QueuedJobs, TasksOf
<1>5. \A t \in TasksOf(j) : s[t] = "queued" => status'[t] = "preparing"
  BY DEF Scheduled, TasksOf
<1>6. \A t \in TasksOf(j) : s[t] # "queued" => status'[t] = s[t]
  BY DEF Scheduled, TasksOf
<1>. QED
  BY <1>1, <1>3, <1>4, <1>5, <1>6

LEMMA Heads ==
  ASSUME NEW S, NEW q \in Seq(S), q # <<>>
  PROVE  /\ Head(q) \in S /\ Tail(q) \in Seq(S) /\ 1 \in DOMAIN q /\ q[1] = Head(q)
         /\ \A i \in DOMAIN q : q[i] = Head(q) \/ \E k \in DOMAIN Tail(q) : Tail(q)[k] = q[i]
         /\ \A k \in DOMAIN Tail(q) : \E i \in DOMAIN q : q[i] = Tail(q)[k]
<1>1. Head(q) \in S /\ Tail(q) \in Seq(S) /\ 1 \in DOMAIN q /\ q[1] = Head(q)
  OBVIOUS
<1>2. ASSUME NEW i \in DOMAIN q, i # 1
      PROVE  i - 1 \in DOMAIN Tail(q) /\ Tail(q)[i - 1] = q[i]
  BY <1>2
<1>3. ASSUME NEW k \in DOMAIN Tail(q)
      PROVE  k + 1 \in DOMAIN q /\ q[k + 1] = Tail(q)[k]
  OBVIOUS
<1>. QED
  BY <1>1, <1>2, <1>3

LEMMA Appended ==
  ASSUME NEW S, NEW q \in Seq(S), NEW e \in S
  PROVE  /\ Append(q, e) \in Seq(S) /\ Append(q, e) # <<>>
         /\ \E i \in DOMAIN Append(q, e) : Append(q, e)[i] = e
         /\ \A i \in DOMAIN q : i \in DOMAIN Append(q, e) /\ Append(q, e)[i] = q[i]
         /\ \A i \in DOMAIN Append(q, e) :
              (i \in DOMAIN q /\ Append(q, e)[i] = q[i]) \/ Append(q, e)[i] = e
<1>1. Append(q, e)[Len(q) + 1] = e /\ Len(q) + 1 \in DOMAIN Append(q, e)
  OBVIOUS
<1>. QED
  BY <1>1
(* Everything that emits leaves the queues of the window well-formed.      *)
LEMMA EmitType ==
  ASSUME EventTypes, missed \subseteq Task, NEW S \in SUBSET Task,
         NEW e \in {"progress", "done", "failed", "cancelled"}, Emit(S, e)
  PROVE  EventTypes' /\ missed' \subseteq Task
<1>1. \A t \in Task :
        events'[t] \in Seq({"progress", "done", "failed", "cancelled"})
  BY Appended DEF Emit, EventTypes
<1>. QED
  BY <1>1 DEF Emit, EventTypes

LEMMA WindowTypesJob ==
  ASSUME WindowTypes, NEW j \in Job, JobStep(j)
  PROVE  WindowTypes'
<1>. USE DEF WindowTypes, windowVars
<1>1. CASE Submit(j)
  BY <1>1, WithType, ScheduledType DEF Submit, Schedule, Status
<1>2. CASE MetadataLoaded(j)
  <2>1. CASE Ask(j)
    <3>1. At(call, j, "asked") \in Calls
      BY AtType
    <3>2. With(status, Unfinished(j), "failed") \in [Task -> Status] /\ Ended(call, j) \in Calls
      BY WithType, EndedType DEF Status, Terminal
    <3>. QED
      BY <1>2, <2>1, <3>1, <3>2, ScheduledType DEF MetadataLoaded, Ask, Schedule
  <2>2. CASE Requeue(j)
    BY <1>2, <2>2, WithType, EndedType, ScheduledType
       DEF MetadataLoaded, Requeue, Schedule, Status
  <2>3. CASE MetadataFails(j)
    BY <1>2, <2>3, WithType, EndedType, ScheduledType
       DEF MetadataLoaded, MetadataFails, Schedule, Status, Terminal
  <2>. QED
    BY <1>2, <2>1, <2>2, <2>3 DEF MetadataLoaded
<1>3. CASE StartReply(j)
  BY <1>3, WithType, EndedType, ScheduledType
     DEF StartReply, FailRefused, Schedule, Status, Terminal
<1>4. CASE Accept(j) \/ Refuse(j)
  <2>1. At(call, j, "accepted") \in Calls /\ At(call, j, "refused") \in Calls
    BY AtType
  <2>. QED
    BY <1>4, <2>1 DEF Accept, Refuse
<1>5. CASE Malformed(j) \/ Settle(j) \/ Unregister(j)
  BY <1>5 DEF Malformed, Settle, Unregister
<1>. QED
  BY <1>1, <1>2, <1>3, <1>4, <1>5 DEF JobStep

LEMMA AfterEventType ==
  ASSUME WindowTypes, EventTypes, NEW t \in Task, events[t] # <<>>
  PROVE  /\ AfterEvent(t, Head(events[t])) \in Terminal \cup {"running"}
         /\ status[t] \in Terminal => AfterEvent(t, Head(events[t])) = status[t]
         /\ status[t] \notin Terminal /\ Head(events[t]) # "progress"
              => AfterEvent(t, Head(events[t])) = Head(events[t])
         /\ Head(events[t]) \in {"progress", "done", "failed", "cancelled"}
<1>1. Head(events[t]) \in {"progress", "done", "failed", "cancelled"}
  BY Heads DEF EventTypes
<1>. QED
  BY <1>1 DEF AfterEvent, StatusOf, Terminal, WindowTypes

LEMMA WindowTypesTask ==
  ASSUME WindowTypes, EventTypes, NEW t \in Task, TaskStep(t)
  PROVE  WindowTypes'
<1>. USE DEF WindowTypes, windowVars
<1>1. CASE CancelTask(t)
  BY <1>1, WithType, ScheduledType DEF CancelTask, Schedule, Status, Terminal
<1>2. CASE CancelReply(t)
  BY <1>2, WithType, ScheduledType DEF CancelReply, Schedule, Status, Terminal
<1>3. CASE HandleEvent(t)
  <2>. DEFINE after == AfterEvent(t, Head(events[t]))
  <2>1. after \in Status
    BY <1>3, AfterEventType DEF HandleEvent, Status, Active
  <2>2. With(status, {t}, after) \in [Task -> Status]
    BY <2>1, WithType
  <2>3. \/ Scheduled(With(status, {t}, after), call, limit)
        \/ status' = With(status, {t}, after) /\ dirty' = TRUE /\ UNCHANGED call
    BY <1>3 DEF HandleEvent, Schedule
  <2>. QED
    BY <1>3, <2>2, <2>3, ScheduledType DEF HandleEvent
<1>4. CASE Progress(t) \/ Report(t) \/ TakeCancel(t) \/ Announce(t)
  BY <1>4 DEF Progress, Report, TakeCancel, Announce
<1>. QED
  BY <1>1, <1>2, <1>3, <1>4 DEF TaskStep

LEMMA NormalizedType ==
  ASSUME NEW s \in [Task -> Status]
  PROVE  /\ Normalized(s) \in [Task -> Status]
         /\ \A t \in Task : Normalized(s)[t] = IF s[t] \in Active THEN "failed" ELSE s[t]
  BY DEF Normalized, Status, Terminal

LEMMA WindowTypesStep ==
  ASSUME WindowTypes, EventTypes, [Next]_vars
  PROVE  WindowTypes'
<1>. USE DEF WindowTypes
<1>1. CASE \E n \in 1..MaxLimit : SetLimit(n)
  BY <1>1, ScheduledType DEF SetLimit
<1>2. CASE Persist
  BY <1>2 DEF Persist
<1>3. CASE Restart
  BY <1>3, NormalizedType DEF Restart, Calls, Idle
<1>4. CASE Connect
  BY <1>4, ScheduledType DEF Connect, Schedule
<1>5. CASE UNCHANGED vars
  BY <1>5 DEF vars, windowVars
<1>. QED
  BY <1>1, <1>2, <1>3, <1>4, <1>5, NextSplit, WindowTypesJob, WindowTypesTask

LEMMA EventTypesStep ==
  ASSUME EventTypes, BackendTypes, [Next]_vars
  PROVE  EventTypes' /\ missed' \subseteq Task
<1>. USE DEF BackendTypes, channelVars
<1>1. ASSUME NEW j \in Job, JobStep(j)
      PROVE  EventTypes' /\ missed' \subseteq Task
  <2>1. CASE Malformed(j) \/ Settle(j)
    BY <2>1, EmitType DEF Malformed, Settle
  <2>2. CASE Submit(j) \/ Accept(j) \/ Refuse(j) \/ Unregister(j) \/ MetadataLoaded(j)
               \/ StartReply(j)
    BY <2>2 DEF Submit, Accept, Refuse, Unregister, MetadataLoaded, StartReply, EventTypes
  <2>. QED
    BY <1>1, <2>1, <2>2 DEF JobStep
<1>2. ASSUME NEW t \in Task, TaskStep(t)
      PROVE  EventTypes' /\ missed' \subseteq Task
  <2>1. CASE HandleEvent(t)
    BY <2>1, Heads DEF HandleEvent, EventTypes
  <2>2. CASE Progress(t) \/ Report(t) \/ Announce(t)
    BY <2>2, EmitType DEF Progress, Report, Announce
  <2>3. CASE CancelTask(t) \/ CancelReply(t) \/ TakeCancel(t)
    BY <2>3 DEF CancelTask, CancelReply, TakeCancel, EventTypes
  <2>. QED
    BY <1>2, <2>1, <2>2, <2>3 DEF TaskStep
<1>3. CASE (\E n \in 1..MaxLimit : SetLimit(n)) \/ Persist \/ Connect \/ UNCHANGED vars
  BY <1>3 DEF SetLimit, Persist, Connect, vars, EventTypes
<1>4. CASE Restart
  BY <1>4 DEF Restart, EventTypes
<1>. QED
  BY <1>1, <1>2, <1>3, <1>4, NextSplit
LEMMA BackendTypesStep ==
  ASSUME WindowTypes, BackendTypes, missed' \subseteq Task, [Next]_vars
  PROVE  BackendTypes'
<1>. USE DEF BackendTypes, backendVars, channelVars
<1>1. ASSUME NEW j \in Job, JobStep(j)
      PROVE  BackendTypes'
  <2>1. call[j].tasks \subseteq Task
    BY DEF WindowTypes, Calls
  <2>2. CASE Submit(j) \/ MetadataLoaded(j) \/ StartReply(j) \/ Refuse(j)
    BY <2>2 DEF Submit, MetadataLoaded, StartReply, Refuse
  <2>3. CASE Accept(j)
    BY <2>1, <2>3 DEF Accept
  <2>4. CASE Malformed(j) \/ Settle(j) \/ Unregister(j)
    BY <2>4 DEF Malformed, Settle, Unregister, windowVars
  <2>. QED
    BY <1>1, <2>2, <2>3, <2>4 DEF JobStep
<1>2. ASSUME NEW t \in Task, TaskStep(t)
      PROVE  BackendTypes'
  <2>1. CASE CancelTask(t) \/ CancelReply(t) \/ HandleEvent(t)
    BY <2>1 DEF CancelTask, CancelReply, HandleEvent
  <2>2. CASE Progress(t) \/ Report(t) \/ TakeCancel(t)
    BY <2>2, JobOfTask DEF Progress, Report, TakeCancel, windowVars
  <2>3. CASE Announce(t)
    BY <2>3, JobOfTask DEF Announce, windowVars
  <2>. QED
    BY <1>2, <2>1, <2>2, <2>3 DEF TaskStep
<1>3. CASE \E n \in 1..MaxLimit : SetLimit(n)
  BY <1>3 DEF SetLimit
<1>4. CASE Persist \/ Connect \/ UNCHANGED vars
  BY <1>4 DEF Persist, Connect, vars, windowVars
<1>5. CASE Restart
  BY <1>5, BoundAssumption DEF Restart
<1>. QED
  BY <1>1, <1>2, <1>3, <1>4, <1>5, NextSplit

LEMMA TypeStep == TypeOK /\ [Next]_vars => TypeOK'
<1>. SUFFICES ASSUME WindowTypes, EventTypes, BackendTypes, [Next]_vars
              PROVE  WindowTypes' /\ EventTypes' /\ BackendTypes'
  BY DEF TypeOK, WindowTypes, EventTypes, BackendTypes, Calls
<1>. QED
  BY WindowTypesStep, EventTypesStep, BackendTypesStep

LEMMA TypeInit == Init => TypeOK
<1>. SUFFICES ASSUME Init
              PROVE  WindowTypes /\ EventTypes /\ BackendTypes
  BY TypeSplit
<1>1. WindowTypes
  BY DEF Init, WindowTypes, Status, Calls, Idle
<1>2. EventTypes
  BY DEF Init, EventTypes
<1>3. BackendTypes
  BY BoundAssumption DEF Init, BackendTypes
<1>. QED
  BY <1>1, <1>2, <1>3

(***************************************************************************)
(* Type correctness of the window, its channels and the backend, for any   *)
(* tasks, jobs and bounds.                                                 *)
(***************************************************************************)
THEOREM TypeCorrect == Spec => []TypeOK
  BY TypeInit, TypeStep, PTL DEF Spec

-----------------------------------------------------------------------------
(* An outcome is final until the application ends, and what is stored is   *)
(* never ahead of what the window shows.                                   *)

LEMMA TerminalKept ==
  ASSUME NEW s \in [Task -> Status], NEW c \in Calls, NEW slots, Scheduled(s, c, slots),
         NEW t \in Task, s[t] \in Terminal
  PROVE  status'[t] \in Terminal
  BY ScheduledTasks DEF Terminal

LEMMA FinalStep ==
  ASSUME TypeOK, [Next]_vars, ~Restart, NEW u \in Task, status[u] \in Terminal
  PROVE  status'[u] \in Terminal
<1>0. WindowTypes /\ EventTypes
  BY TypeSplit
<1>. USE <1>0 DEF WindowTypes, windowVars
<1>1. ASSUME NEW j \in Job, JobStep(j)
      PROVE  status'[u] \in Terminal
  <2>1. ASSUME NEW S, NEW v \in Status, NEW c \in Calls, Schedule(With(status, S, v), c),
               u \in S => v \in Terminal
        PROVE  status'[u] \in Terminal
    BY <2>1, WithType, TerminalKept DEF Schedule
  <2>2. CASE Submit(j)
    <3>1. u \notin TasksOf(j)
      BY <2>2, JobAssumption DEF Submit, TasksOf, Terminal
    <3>. QED
      BY <2>1, <2>2, <3>1 DEF Submit, Status
  <2>3. CASE MetadataLoaded(j)
    <3>1. u \notin Unfinished(j) /\ Ended(call, j) \in Calls
      BY EndedType DEF Unfinished
    <3>. QED
      BY <2>1, <2>3, <3>1
         DEF MetadataLoaded, Ask, Requeue, MetadataFails, Status, Terminal
  <2>4. CASE StartReply(j)
    BY <2>1, <2>4, EndedType DEF StartReply, FailRefused, Status, Terminal
  <2>5. CASE Accept(j) \/ Refuse(j) \/ Malformed(j) \/ Settle(j) \/ Unregister(j)
    BY <2>5 DEF Accept, Refuse, Malformed, Settle, Unregister
  <2>. QED
    BY <1>1, <2>2, <2>3, <2>4, <2>5 DEF JobStep
<1>2. ASSUME NEW t \in Task, TaskStep(t)
      PROVE  status'[u] \in Terminal
  <2>1. CASE CancelTask(t) \/ CancelReply(t)
    <3>1. With(status, {t}, "cancelled") \in [Task -> Status]
          /\ With(status, {t}, "cancelled")[u] \in Terminal
      BY WithType DEF Status, Terminal
    <3>. QED
      BY <2>1, <3>1, TerminalKept DEF CancelTask, CancelReply, Schedule
  <2>2. CASE HandleEvent(t)
    <3>. DEFINE after == AfterEvent(t, Head(events[t]))
    <3>1. /\ after \in Status
          /\ u = t => after \in Terminal
      BY <2>2, AfterEventType DEF HandleEvent, Status, Active
    <3>2. With(status, {t}, after) \in [Task -> Status]
          /\ With(status, {t}, after)[u] \in Terminal
      BY <3>1, WithType
    <3>3. \/ Scheduled(With(status, {t}, after), call, limit)
          \/ status' = With(status, {t}, after)
      BY <2>2 DEF HandleEvent, Schedule
    <3>. QED
      BY <3>2, <3>3, TerminalKept
  <2>3. CASE Progress(t) \/ Report(t) \/ TakeCancel(t) \/ Announce(t)
    BY <2>3 DEF Progress, Report, TakeCancel, Announce
  <2>. QED
    BY <1>2, <2>1, <2>2, <2>3 DEF TaskStep
<1>3. CASE \E n \in 1..MaxLimit : SetLimit(n)
  BY <1>3, TerminalKept DEF SetLimit
<1>4. CASE Persist \/ UNCHANGED vars
  BY <1>4 DEF Persist, vars
<1>5. CASE Connect
  BY <1>5, TerminalKept DEF Connect, Schedule
<1>. QED
  BY <1>1, <1>2, <1>3, <1>4, <1>5, NextSplit

(***************************************************************************)
(* As long as the application runs, no event, reply, refusal or pass of    *)
(* the scheduler takes an outcome back.                                    *)
(***************************************************************************)
THEOREM OutcomesFinal ==
  Spec => [][Restart \/ \A t \in Task : status[t] \in Terminal => status'[t] \in Terminal]_vars
<1>1. TypeOK /\ [Next]_vars
        => [Restart \/ \A t \in Task : status[t] \in Terminal => status'[t] \in Terminal]_vars
  BY FinalStep
<1>. QED
  BY <1>1, TypeCorrect, PTL DEF Spec

LEMMA StoredStep ==
  ASSUME [Next]_vars
  PROVE  \/ stored' = stored
         \/ Persist
<1>1. CASE \E j \in Job : JobStep(j)
  BY <1>1 DEF JobStep, Submit, MetadataLoaded, StartReply, Accept, Refuse, Malformed, Settle,
              Unregister
<1>2. CASE \E t \in Task : TaskStep(t)
  BY <1>2 DEF TaskStep, CancelTask, CancelReply, HandleEvent, Progress, Report, TakeCancel,
              Announce
<1>3. CASE (\E n \in 1..MaxLimit : SetLimit(n)) \/ Restart \/ Connect \/ UNCHANGED vars
  BY <1>3 DEF SetLimit, Restart, Connect, vars
<1>. QED
  BY <1>1, <1>2, <1>3, NextSplit

(***************************************************************************)
(* An outcome that reached the history file survives every restart, and    *)
(* every event, reply or refusal that comes after it.                      *)
(***************************************************************************)
THEOREM OutcomeAlwaysDurable == Spec => []OutcomeIsDurable
<1>1. Init => OutcomeIsDurable
  BY DEF Init, OutcomeIsDurable, Terminal
<1>2. TypeOK /\ OutcomeIsDurable /\ [Next]_vars => OutcomeIsDurable'
  <2>. SUFFICES ASSUME TypeOK, OutcomeIsDurable, [Next]_vars, NEW t \in Task,
                       stored'[t] \in Terminal
                PROVE  status'[t] \in Terminal
    BY DEF OutcomeIsDurable
  <2>1. CASE Persist
    BY <2>1 DEF Persist
  <2>2. CASE Restart
    BY <2>2, NormalizedType DEF Restart, TypeOK, Terminal
  <2>3. CASE ~Persist /\ ~Restart
    BY <2>3, StoredStep, FinalStep DEF OutcomeIsDurable
  <2>. QED
    BY <2>1, <2>2, <2>3
<1>. QED
  BY <1>1, <1>2, TypeCorrect, PTL DEF Spec
-----------------------------------------------------------------------------
(* The window's invariant.                                                 *)

LEMMA WindowScheduled ==
  ASSUME NEW s \in [Task -> Status], NEW c \in Calls, NEW slots, WindowInv(s, c),
         Scheduled(s, c, slots), UNCHANGED worker
  PROVE  WindowInv(status, call)'
<1>1. ASSUME NEW t \in Task, status'[t] \in {"absent", "queued"}
      PROVE  call'[JobOf[t]].phase = "idle" /\ worker'[JobOf[t]] = "none"
  <2>1. s[t] = status'[t]
    BY <1>1, ScheduledTasks
  <2>2. call'[JobOf[t]] = c[JobOf[t]]
    <3>1. t \in TasksOf(JobOf[t]) /\ JobOf[t] \in Job
      BY JobOfTask DEF TasksOf
    <3>2. CASE status'[t] = "queued"
      BY <3>1, <3>2, ScheduledJobs
    <3>3. CASE status'[t] = "absent"
      <4>1. \A u \in TasksOf(JobOf[t]) : s[u] # "queued"
        BY <2>1, <3>3 DEF WindowInv, Together, TasksOf
      <4>. QED
        BY <3>1, <4>1, ScheduledJobs
    <3>. QED
      BY <1>1, <3>2, <3>3
  <2>. QED
    BY <1>1, <2>1, <2>2 DEF WindowInv, Untouched
<1>2. ASSUME NEW j \in Job, NEW t \in call'[j].tasks
      PROVE  /\ JobOf[t] = j
             /\ call'[j].phase \in {"asked", "refused"} => status'[t] = "preparing"
             /\ call'[j].phase = "metadata" => status'[t] \in {"preparing"} \cup Terminal
  <2>1. CASE call'[j] = c[j]
    <3>1. t \in Task
      BY <2>1 DEF Calls
    <3>. QED
      BY <2>1, <3>1, ScheduledTasks DEF WindowInv, Awaited, Terminal
  <2>2. CASE call'[j] # c[j]
    BY <2>2, ScheduledJobs DEF TasksOf
  <2>. QED
    BY <2>1, <2>2
<1>3. ASSUME NEW j \in Job, call'[j].phase \in {"metadata", "asked", "refused"}
      PROVE  worker'[j] = "none"
  BY <1>3, ScheduledJobs DEF WindowInv, NotHanded, Untouched, TasksOf
<1>4. ASSUME NEW t \in Task, NEW u \in Task, JobOf[t] = JobOf[u], status'[t] = "absent"
      PROVE  status'[u] = "absent"
  <2>1. s[t] = "absent"
    BY <1>4, ScheduledTasks
  <2>2. s[u] = "absent"
    BY <1>4, <2>1 DEF WindowInv, Together
  <2>. QED
    BY <2>2, ScheduledTasks
<1>. QED
  BY <1>1, <1>2, <1>3, <1>4 DEF WindowInv, Untouched, Awaited, NotHanded, Together

(* A task that a worker has, or had, takes a status of its own.            *)
LEMMA WindowSet ==
  ASSUME TypeOK, WindowInv(status, call), NEW t \in Task, worker[JobOf[t]] # "none",
         NEW value \in Status \ {"absent", "queued"}
  PROVE  WindowInv(With(status, {t}, value), call)
<1>. DEFINE s == With(status, {t}, value)
<1>0. \A u \in Task : s[u] = IF u = t THEN value ELSE status[u]
  BY WithType DEF TypeOK
<1>1. Untouched(s, call)
  BY <1>0 DEF WindowInv, Untouched
<1>2. Awaited(s, call)
  <2>. SUFFICES ASSUME NEW j \in Job, NEW u \in call[j].tasks
                PROVE  /\ JobOf[u] = j
                       /\ call[j].phase \in {"asked", "refused"} => s[u] = "preparing"
                       /\ call[j].phase = "metadata" => s[u] \in {"preparing"} \cup Terminal
    BY DEF Awaited
  <2>1. u \in Task
    BY DEF TypeOK
  <2>2. JobOf[u] = j
    BY DEF WindowInv, Awaited
  <2>3. CASE u = t
    BY <2>2, <2>3 DEF WindowInv, NotHanded
  <2>4. CASE u # t
    BY <1>0, <2>1, <2>4 DEF WindowInv, Awaited
  <2>. QED
    BY <2>3, <2>4
<1>3. Together(s)
  BY <1>0 DEF WindowInv, Together, Untouched
<1>. QED
  BY <1>1, <1>2, <1>3 DEF WindowInv

(* A start call that ends without a worker settles or requeues its tasks.  *)
LEMMA WindowEnded ==
  ASSUME TypeOK, WindowInv(status, call), NEW j \in Job,
         call[j].phase \in {"metadata", "refused"}, NEW S \in SUBSET call[j].tasks,
         NEW value \in Status \ {"absent"}
  PROVE  WindowInv(With(status, S, value), Ended(call, j))
<1>. DEFINE s == With(status, S, value)
            c == Ended(call, j)
<1>0. /\ \A u \in Task : s[u] = IF u \in S THEN value ELSE status[u]
      /\ c[j].phase = "idle" /\ c[j].tasks = {}
      /\ \A k \in Job : k # j => c[k] = call[k]
  BY WithType, EndedType DEF TypeOK, Calls
<1>1. \A u \in S : u \in Task /\ JobOf[u] = j
  BY DEF TypeOK, WindowInv, Awaited
<1>2. worker[j] = "none"
  BY DEF WindowInv, NotHanded
<1>3. Untouched(s, c)
  BY <1>0, <1>1, <1>2, JobOfTask DEF WindowInv, Untouched
<1>4. Awaited(s, c)
  <2>. SUFFICES ASSUME NEW k \in Job, NEW u \in c[k].tasks
                PROVE  /\ JobOf[u] = k
                       /\ c[k].phase \in {"asked", "refused"} => s[u] = "preparing"
                       /\ c[k].phase = "metadata" => s[u] \in {"preparing"} \cup Terminal
    BY DEF Awaited
  <2>1. k # j /\ c[k] = call[k]
    BY <1>0
  <2>2. u \in Task /\ JobOf[u] = k
    BY <2>1 DEF TypeOK, WindowInv, Awaited
  <2>3. s[u] = status[u]
    BY <1>0, <1>1, <2>1, <2>2
  <2>. QED
    BY <2>1, <2>2, <2>3 DEF WindowInv, Awaited
<1>5. NotHanded(c)
  BY <1>0 DEF WindowInv, NotHanded
<1>6. Together(s)
  <2>1. \A u \in S : status[u] # "absent"
    BY <1>1 DEF WindowInv, Untouched
  <2>. QED
    BY <1>0, <1>1, <2>1 DEF WindowInv, Together
<1>. QED
  BY <1>3, <1>4, <1>5, <1>6 DEF WindowInv

LEMMA WindowJob ==
  ASSUME TypeOK, WindowInv(status, call), NEW j \in Job, JobStep(j)
  PROVE  WindowInv(status, call)'
<1>0. status \in [Task -> Status] /\ call \in Calls
  BY DEF TypeOK, Calls
<1>1. CASE Submit(j)
  <2>. DEFINE s == With(status, TasksOf(j), "queued")
  <2>1. \A t \in TasksOf(j) : status[t] = "absent"
    BY <1>1, JobAssumption DEF Submit, TasksOf
  <2>2. s \in [Task -> Status] /\ \A t \in Task : s[t] = IF t \in TasksOf(j) THEN "queued" ELSE status[t]
    BY <1>0, WithType DEF Status
  <2>3. Untouched(s, call)
    BY <2>1, <2>2 DEF WindowInv, Untouched
  <2>4. Awaited(s, call)
    <3>. SUFFICES ASSUME NEW k \in Job, NEW u \in call[k].tasks
                  PROVE  /\ JobOf[u] = k
                         /\ call[k].phase \in {"asked", "refused"} => s[u] = "preparing"
                         /\ call[k].phase = "metadata" => s[u] \in {"preparing"} \cup Terminal
      BY DEF Awaited
    <3>1. u \in Task
      BY DEF TypeOK
    <3>. QED
      BY <2>1, <2>2, <3>1 DEF WindowInv, Awaited, Terminal
  <2>5. Together(s)
    BY <2>1, <2>2 DEF WindowInv, Together, TasksOf
  <2>6. WindowInv(s, call)
    BY <2>3, <2>4, <2>5 DEF WindowInv
  <2>. QED
    BY <1>0, <1>1, <2>2, <2>6, WindowScheduled DEF Submit, Schedule, backendVars
<1>2. CASE MetadataLoaded(j)
  <2>. USE DEF backendVars
  <2>1. call[j].phase = "metadata" /\ UNCHANGED worker
    BY <1>2 DEF MetadataLoaded
  <2>2. Unfinished(j) \subseteq call[j].tasks
    BY DEF Unfinished
  <2>3. ASSUME NEW value \in {"failed", "queued"},
               Schedule(With(status, Unfinished(j), value), Ended(call, j))
        PROVE  WindowInv(status, call)'
    <3>1. value \in Status \ {"absent"}
      BY DEF Status, Terminal
    <3>2. With(status, Unfinished(j), value) \in [Task -> Status] /\ Ended(call, j) \in Calls
      BY <1>0, <3>1, WithType, EndedType
    <3>3. WindowInv(With(status, Unfinished(j), value), Ended(call, j))
      BY <2>1, <2>2, <3>1, WindowEnded
    <3>. QED
      BY <2>1, <2>3, <3>2, <3>3, WindowScheduled DEF Schedule
  <2>4. CASE call' = Ended(call, j) /\ UNCHANGED <<status, dirty>>
    <3>1. With(status, {}, "failed") = status
      BY <1>0 DEF With
    <3>2. WindowInv(With(status, {}, "failed"), Ended(call, j))
      BY <2>1, WindowEnded DEF Status, Terminal
    <3>. QED
      BY <2>1, <2>4, <3>1, <3>2 DEF WindowInv, Untouched, Awaited, NotHanded, Together
  <2>5. CASE Undisturbed(j) /\ call' = At(call, j, "asked") /\ UNCHANGED <<status, dirty>>
    <3>1. /\ call'[j].phase = "asked" /\ call'[j].tasks = call[j].tasks
          /\ \A k \in Job : k # j => call'[k] = call[k]
      <4>1. /\ At(call, j, "asked")[j].phase = "asked"
            /\ At(call, j, "asked")[j].tasks = call[j].tasks
            /\ \A k \in Job : k # j => At(call, j, "asked")[k] = call[k]
        BY <1>0, AtType
      <4>. QED
        BY <2>5, <4>1
    <3>2. \A t \in call'[j].tasks : t \in Task /\ JobOf[t] = j /\ status'[t] = "preparing"
      BY <2>5, <3>1 DEF Undisturbed, WindowInv, Awaited, TypeOK
    <3>. QED
      BY <2>1, <2>5, <3>1, <3>2, JobOfTask DEF WindowInv, Untouched, Awaited, NotHanded, Together
  <2>. QED
    BY <1>2, <2>3, <2>4, <2>5 DEF MetadataLoaded, Ask, Requeue, MetadataFails
<1>3. CASE StartReply(j)
  <2>. USE DEF backendVars
  <2>1. UNCHANGED worker
    BY <1>3 DEF StartReply
  <2>2. CASE call[j].phase = "accepted" /\ call' = Ended(call, j) /\ UNCHANGED <<status, dirty>>
    <3>1. /\ call'[j].phase = "idle" /\ call'[j].tasks = {}
          /\ \A k \in Job : k # j => call'[k] = call[k]
      BY <1>0, <2>2, EndedType
    <3>. QED
      BY <2>1, <2>2, <3>1, JobOfTask DEF WindowInv, Untouched, Awaited, NotHanded, Together
  <2>3. CASE call[j].phase = "refused" /\ FailRefused(j)
    <3>1. Failed(j) \subseteq call[j].tasks
      BY DEF Failed, Unfinished
    <3>2. WindowInv(With(status, Failed(j), "failed"), Ended(call, j))
      BY <2>3, <3>1, WindowEnded DEF Status, Terminal
    <3>3. With(status, Failed(j), "failed") \in [Task -> Status] /\ Ended(call, j) \in Calls
      BY <1>0, WithType, EndedType DEF Status, Terminal
    <3>4. CASE Schedule(With(status, Failed(j), "failed"), Ended(call, j))
      BY <2>1, <3>2, <3>3, <3>4, WindowScheduled DEF Schedule
    <3>5. CASE Failed(j) = {} /\ call' = Ended(call, j) /\ UNCHANGED <<status, dirty>>
      <4>1. With(status, {}, "failed") = status
        BY <1>0 DEF With
      <4>. QED
        BY <2>1, <3>2, <3>5, <4>1 DEF WindowInv, Untouched, Awaited, NotHanded, Together
    <3>. QED
      BY <2>3, <3>4, <3>5 DEF FailRefused
  <2>. QED
    BY <1>3, <2>2, <2>3 DEF StartReply
<1>4. CASE Accept(j)
  <2>1. /\ call'[j].phase = "accepted" /\ call'[j].tasks = call[j].tasks
        /\ \A k \in Job : k # j => call'[k] = call[k] /\ worker'[k] = worker[k]
        /\ UNCHANGED status
    <3>1. /\ At(call, j, "accepted")[j].phase = "accepted"
          /\ At(call, j, "accepted")[j].tasks = call[j].tasks
          /\ \A k \in Job : k # j => At(call, j, "accepted")[k] = call[k]
      BY <1>0, AtType
    <3>. QED
      BY <1>4, <3>1 DEF Accept, TypeOK
  <2>2. \A t \in Task : status[t] \in {"absent", "queued"} => JobOf[t] # j
    BY <1>4 DEF Accept, WindowInv, Untouched
  <2>. QED
    BY <2>1, <2>2, JobOfTask DEF WindowInv, Untouched, Awaited, NotHanded, Together
<1>5. CASE Refuse(j)
  <2>1. /\ call'[j].phase = "refused" /\ call'[j].tasks = call[j].tasks
        /\ \A k \in Job : k # j => call'[k] = call[k]
        /\ UNCHANGED <<status, worker>>
    BY <1>0, <1>5, AtType DEF Refuse, backendVars
  <2>2. \A t \in Task : status[t] \in {"absent", "queued"} => JobOf[t] # j
    BY <1>5 DEF Refuse, WindowInv, Untouched
  <2>. QED
    BY <1>5, <2>1, <2>2, JobOfTask
       DEF Refuse, WindowInv, Untouched, Awaited, NotHanded, Together
<1>6. CASE Malformed(j) \/ Settle(j) \/ Unregister(j)
  <2>1. /\ UNCHANGED <<status, call>>
        /\ \A k \in Job : worker[k] = "none" => worker'[k] = "none"
    BY <1>6 DEF Malformed, Settle, Unregister, windowVars, TypeOK
  <2>. QED
    BY <2>1, JobOfTask DEF WindowInv, Untouched, Awaited, NotHanded, Together
<1>. QED
  BY <1>1, <1>2, <1>3, <1>4, <1>5, <1>6 DEF JobStep
LEMMA WindowTask ==
  ASSUME TypeOK, WindowInv(status, call), BackendInv, NEW t \in Task, TaskStep(t)
  PROVE  WindowInv(status, call)'
<1>0. /\ status \in [Task -> Status] /\ call \in Calls
      /\ WindowTypes /\ EventTypes
  BY TypeSplit DEF TypeOK, Calls
<1>1. ASSUME NEW value \in Status, WindowInv(With(status, {t}, value), call), UNCHANGED worker,
             Schedule(With(status, {t}, value), call)
      PROVE  WindowInv(status, call)'
  BY <1>0, <1>1, WithType, WindowScheduled DEF Schedule
<1>2. ASSUME NEW s, WindowInv(s, call), status' = s, UNCHANGED <<call, worker>>
      PROVE  WindowInv(status, call)'
  BY <1>2 DEF WindowInv, Untouched, Awaited, NotHanded, Together
<1>3. CASE CancelTask(t)
  <2>1. CASE (status[t] = "queued" \/ Waiting(t))
               /\ Schedule(With(status, {t}, "cancelled"), call)
    <3>. DEFINE s == With(status, {t}, "cancelled")
    <3>1. \A u \in Task : s[u] = IF u = t THEN "cancelled" ELSE status[u]
      BY <1>0, WithType DEF Status, Terminal
    <3>2. Untouched(s, call)
      BY <3>1 DEF WindowInv, Untouched
    <3>3. Awaited(s, call)
      <4>. SUFFICES ASSUME NEW j \in Job, NEW u \in call[j].tasks
                    PROVE  /\ JobOf[u] = j
                           /\ call[j].phase \in {"asked", "refused"} => s[u] = "preparing"
                           /\ call[j].phase = "metadata" => s[u] \in {"preparing"} \cup Terminal
        BY DEF Awaited
      <4>1. u \in Task /\ JobOf[u] = j
        BY DEF TypeOK, WindowInv, Awaited
      <4>2. CASE u = t
        <5>1. s[u] = "cancelled"
          BY <3>1, <4>1, <4>2
        <5>2. call[j].phase \notin {"asked", "refused"}
          BY <2>1, <4>1, <4>2 DEF Waiting, WindowInv, Untouched
        <5>. QED
          BY <4>1, <5>1, <5>2 DEF Terminal
      <4>3. CASE u # t
        BY <3>1, <4>1, <4>3 DEF WindowInv, Awaited
      <4>. QED
        BY <4>2, <4>3
    <3>4. Together(s)
      BY <1>3, <3>1 DEF CancelTask, WindowInv, Together
    <3>. QED
      BY <1>1, <1>3, <2>1, <3>2, <3>3, <3>4 DEF CancelTask, WindowInv, backendVars, Status, Terminal
  <2>. QED
    BY <1>2, <1>3, <2>1 DEF CancelTask, backendVars
<1>4. CASE CancelReply(t)
  <2>1. CASE cancel[t] = "yes" /\ Schedule(With(status, {t}, "cancelled"), call)
    <3>1. worker[JobOf[t]] # "none"
      BY <2>1 DEF BackendInv, Unknown
    <3>2. WindowInv(With(status, {t}, "cancelled"), call)
      BY <3>1, WindowSet DEF Status, Terminal
    <3>. QED
      BY <1>1, <1>4, <2>1, <3>2 DEF CancelReply, backendVars, Status, Terminal
  <2>. QED
    BY <1>2, <1>4, <2>1 DEF CancelReply, backendVars
<1>5. CASE HandleEvent(t)
  <2>. DEFINE after == AfterEvent(t, Head(events[t]))
  <2>1. worker[JobOf[t]] # "none"
    BY <1>5 DEF HandleEvent, BackendInv, Unknown
  <2>2. after \in Status \ {"absent", "queued"}
    BY <1>0, <1>5, AfterEventType DEF HandleEvent, Status, Active, Terminal
  <2>3. WindowInv(With(status, {t}, after), call)
    BY <2>1, <2>2, WindowSet
  <2>4. /\ UNCHANGED worker
        /\ \/ Schedule(With(status, {t}, after), call)
           \/ status' = With(status, {t}, after) /\ UNCHANGED call
    BY <1>5 DEF HandleEvent, backendVars
  <2>5. CASE status' = With(status, {t}, after) /\ UNCHANGED call
    BY <1>2, <2>3, <2>4, <2>5
  <2>. QED
    BY <1>1, <2>2, <2>3, <2>4, <2>5
<1>6. CASE Progress(t) \/ Report(t) \/ TakeCancel(t) \/ Announce(t)
  BY <1>2, <1>6 DEF Progress, Report, TakeCancel, Announce, windowVars, backendVars
<1>. QED
  BY <1>3, <1>4, <1>5, <1>6 DEF TaskStep

LEMMA TogetherStored ==
  ASSUME TypeOK, Together(status), Together(stored), [Next]_vars
  PROVE  Together(stored)'
<1>1. CASE Persist
  BY <1>1 DEF Persist, Together
<1>2. CASE stored' = stored
  BY <1>2 DEF Together
<1>. QED
  BY <1>1, <1>2, StoredStep

LEMMA WindowStep ==
  ASSUME TypeOK, WindowInv(status, call), BackendInv, Together(stored), [Next]_vars
  PROVE  WindowInv(status, call)'
<1>0. status \in [Task -> Status] /\ call \in Calls
  BY DEF TypeOK, Calls
<1>1. CASE \E n \in 1..MaxLimit : SetLimit(n)
  BY <1>0, <1>1, WindowScheduled DEF SetLimit, backendVars
<1>2. CASE Persist \/ UNCHANGED vars
  BY <1>2 DEF Persist, vars, windowVars, backendVars, WindowInv, Untouched, Awaited,
              NotHanded, Together
<1>3. CASE Restart
  <2>1. \A t \in Task : status'[t] = IF stored[t] \in Active THEN "failed" ELSE stored[t]
    BY <1>3, NormalizedType DEF Restart, TypeOK
  <2>2. Together(status)'
    BY <2>1 DEF Together, Active
  <2>. QED
    BY <1>3, <2>2, JobOfTask DEF Restart, WindowInv, Untouched, Awaited, NotHanded, Idle
<1>4. CASE Connect
  BY <1>0, <1>4, WindowScheduled DEF Connect, Schedule, backendVars
<1>. QED
  BY <1>1, <1>2, <1>3, <1>4, NextSplit, WindowJob, WindowTask

-----------------------------------------------------------------------------
(* How a task comes to be "running" or "cancelled" in the window.          *)

Unstarted(t) == status[t] = "queued" \/ Waiting(t)

Told(t) ==
  \/ cancel[t] = "yes"
  \/ events[t] # <<>> /\ Head(events[t]) = "cancelled"

LEMMA StatusOrigin ==
  ASSUME TypeOK, [Next]_vars, NEW u \in Task, status'[u] # status[u],
         status'[u] \in {"running", "cancelled"}
  PROVE  \/ Restart
         \/ status'[u] = "running" /\ events[u] # <<>>
         \/ status'[u] = "cancelled" /\ (Unstarted(u) \/ Told(u))
<1>0. /\ status \in [Task -> Status] /\ call \in Calls
      /\ WindowTypes /\ EventTypes
  BY TypeSplit DEF TypeOK, Calls
<1>. USE DEF windowVars
<1>1. ASSUME NEW S, NEW v \in Status, NEW c \in Calls, Schedule(With(status, S, v), c)
      PROVE  u \in S /\ v = status'[u]
  BY <1>0, <1>1, WithType, ScheduledTasks DEF Schedule
<1>2. ASSUME NEW j \in Job, JobStep(j)
      PROVE  FALSE
  <2>1. Ended(call, j) \in Calls
    BY <1>0, EndedType
  <2>. QED
    BY <1>1, <1>2, <2>1, <1>0
       DEF JobStep, Submit, MetadataLoaded, Ask, Requeue, MetadataFails, StartReply,
           FailRefused, Accept, Refuse, Malformed, Settle, Unregister, Status, Terminal
<1>3. ASSUME NEW t \in Task, TaskStep(t)
      PROVE  \/ status'[u] = "running" /\ events[u] # <<>>
             \/ status'[u] = "cancelled" /\ (Unstarted(u) \/ Told(u))
  <2>1. CASE CancelTask(t)
    BY <1>0, <1>1, <2>1 DEF CancelTask, Unstarted, Status, Terminal
  <2>2. CASE CancelReply(t)
    BY <1>0, <1>1, <2>2 DEF CancelReply, Told, Status, Terminal
  <2>3. CASE HandleEvent(t)
    <3>. DEFINE after == AfterEvent(t, Head(events[t]))
    <3>1. after \in Status
      BY <1>0, <2>3, AfterEventType DEF HandleEvent, Status, Active
    <3>2. \/ Schedule(With(status, {t}, after), call)
          \/ status' = With(status, {t}, after)
      BY <2>3 DEF HandleEvent
    <3>3. u = t /\ after = status'[u]
      BY <1>0, <1>1, <3>1, <3>2, WithType
    <3>. QED
      BY <1>0, <2>3, <3>3, AfterEventType DEF HandleEvent, Told, AfterEvent, StatusOf
  <2>4. CASE Progress(t) \/ Report(t) \/ TakeCancel(t) \/ Announce(t)
    BY <2>4 DEF Progress, Report, TakeCancel, Announce
  <2>. QED
    BY <1>3, <2>1, <2>2, <2>3, <2>4 DEF TaskStep
<1>4. CASE (\E n \in 1..MaxLimit : SetLimit(n)) \/ Connect
  BY <1>0, <1>4, ScheduledTasks DEF SetLimit, Connect, Schedule
<1>5. CASE Persist \/ UNCHANGED vars
  BY <1>5 DEF Persist, vars
<1>. QED
  BY <1>2, <1>3, <1>4, <1>5, NextSplit
-----------------------------------------------------------------------------
(* The backend's invariant.                                                *)

\* What the steps that belong to the window alone do to the rest.
WindowOnly ==
  /\ UNCHANGED <<worker, alive, handed, registered, reported, seen, marked, taken, missed>>
  /\ \A t \in Task : /\ cancel'[t] = cancel[t] \/ (cancel[t] # "taken" /\ cancel'[t] \in {"asked", "idle"})
                     /\ events'[t] = events[t] \/ (events[t] # <<>> /\ events'[t] = Tail(events[t]))

LEMMA WindowOnlySteps ==
  ASSUME TypeOK,
         \/ \E j \in Job : Submit(j) \/ MetadataLoaded(j) \/ StartReply(j) \/ Refuse(j)
         \/ \E t \in Task : CancelTask(t) \/ CancelReply(t) \/ HandleEvent(t)
         \/ \E n \in 1..MaxLimit : SetLimit(n)
         \/ Persist \/ Connect \/ UNCHANGED vars
  PROVE  WindowOnly
<1>. USE DEF WindowOnly, backendVars, channelVars, TypeOK
<1>1. CASE \E j \in Job : Submit(j) \/ MetadataLoaded(j) \/ StartReply(j) \/ Refuse(j)
  BY <1>1 DEF Submit, MetadataLoaded, StartReply, Refuse
<1>2. CASE \E t \in Task : CancelTask(t) \/ CancelReply(t)
  BY <1>2 DEF CancelTask, CancelReply
<1>3. CASE \E t \in Task : HandleEvent(t)
  BY <1>3 DEF HandleEvent
<1>4. CASE (\E n \in 1..MaxLimit : SetLimit(n)) \/ Persist \/ Connect \/ UNCHANGED vars
  BY <1>4 DEF SetLimit, Persist, Connect, vars
<1>. QED
  BY <1>1, <1>2, <1>3, <1>4

BackendOnly ==
  \/ \E j \in Job : Accept(j) \/ Malformed(j) \/ Settle(j) \/ Unregister(j)
  \/ \E t \in Task : Progress(t) \/ Report(t) \/ TakeCancel(t) \/ Announce(t)

LEMMA StepKinds ==
  ASSUME TypeOK, [Next]_vars
  PROVE  WindowOnly \/ BackendOnly \/ Restart
<1>1. \/ \E j \in Job : Submit(j) \/ MetadataLoaded(j) \/ StartReply(j) \/ Refuse(j)
      \/ \E t \in Task : CancelTask(t) \/ CancelReply(t) \/ HandleEvent(t)
      \/ \E n \in 1..MaxLimit : SetLimit(n)
      \/ Persist \/ Connect \/ UNCHANGED vars
      \/ BackendOnly \/ Restart
  BY NextSplit DEF JobStep, TaskStep, BackendOnly
<1>. QED
  BY <1>1, WindowOnlySteps

LEMMA EmitFrame ==
  ASSUME TypeOK, NEW S \in SUBSET Task,
         NEW e \in {"progress", "done", "failed", "cancelled"}, Emit(S, e), NEW t \in Task
  PROVE  /\ events'[t] = events[t] \/ t \in S
         /\ \A i \in DOMAIN events[t] : i \in DOMAIN events'[t] /\ events'[t][i] = events[t][i]
         /\ \A i \in DOMAIN events'[t] :
              \/ i \in DOMAIN events[t] /\ events'[t][i] = events[t][i]
              \/ t \in S /\ events'[t][i] = e
         /\ t \in S /\ e \in Terminal
              => t \in missed' \/ \E i \in DOMAIN events'[t] : events'[t][i] \in Terminal
         /\ missed \subseteq missed'
<1>1. events[t] \in Seq({"progress", "done", "failed", "cancelled"})
  BY DEF TypeOK
<1>2. events'[t] = IF t \in S /\ listening THEN Append(events[t], e) ELSE events[t]
  BY DEF Emit
<1>3. /\ \E i \in DOMAIN Append(events[t], e) : Append(events[t], e)[i] = e
      /\ \A i \in DOMAIN events[t] : /\ i \in DOMAIN Append(events[t], e)
                                     /\ Append(events[t], e)[i] = events[t][i]
      /\ \A i \in DOMAIN Append(events[t], e) :
           \/ i \in DOMAIN events[t] /\ Append(events[t], e)[i] = events[t][i]
           \/ Append(events[t], e)[i] = e
  BY <1>1, Appended
<1>4. missed \subseteq missed' /\ (t \in S /\ ~listening /\ e # "progress" => t \in missed')
  BY DEF Emit
<1>5. CASE t \in S /\ listening
  BY <1>2, <1>3, <1>4, <1>5
<1>6. CASE ~(t \in S /\ listening)
  <2>1. events'[t] = events[t]
    BY <1>2, <1>6
  <2>. QED
    BY <1>4, <1>6, <2>1 DEF Terminal
<1>. QED
  BY <1>5, <1>6

LEMMA RestartStatus ==
  ASSUME TypeOK, Restart, NEW t \in Task
  PROVE  /\ status'[t] = IF stored[t] \in Active THEN "failed" ELSE stored[t]
         /\ status'[t] \notin Active
<1>1. stored \in [Task -> Status] /\ status' = Normalized(stored)
  BY DEF TypeOK, Restart
<1>2. status'[t] = IF stored[t] \in Active THEN "failed" ELSE stored[t]
  BY <1>1, NormalizedType
<1>. QED
  BY <1>2 DEF Active

\* Known to the backend: what has a worker.
LEMMA BackendKnown ==
  ASSUME TypeOK, BackendInv, NEW t \in Task,
         t \in handed[JobOf[t]] \cup registered \cup reported \cup seen \cup marked
           \/ cancel[t] \in {"taken", "yes"} \/ events[t] # <<>>
  PROVE  worker[JobOf[t]] # "none"
  BY DEF BackendInv, Unknown

LEMMA UnknownStep ==
  ASSUME TypeOK, WindowInv(status, call), BackendInv, [Next]_vars, NEW t \in Task,
         worker'[JobOf[t]] = "none"
  PROVE  Unknown(t)'
<1>0. JobOf[t] \in Job
  BY JobOfTask
<1>1. CASE WindowOnly
  <2>1. worker[JobOf[t]] = "none"
    BY <1>1 DEF WindowOnly
  <2>2. Unknown(t)
    BY <2>1 DEF BackendInv
  <2>3. ~Restart => status'[t] # "running"
    BY <2>2, StatusOrigin DEF Unknown
  <2>4. Restart => status'[t] # "running"
    BY RestartStatus DEF Active
  <2>. QED
    BY <1>1, <2>2, <2>3, <2>4 DEF WindowOnly, Unknown
<1>2. CASE Restart
  <2>1. status'[t] # "running"
    BY <1>2, RestartStatus DEF Active
  <2>. QED
    BY <1>0, <1>2, <2>1 DEF Restart, Unknown
<1>3. ASSUME NEW j \in Job, Accept(j) \/ Malformed(j) \/ Settle(j) \/ Unregister(j)
      PROVE  Unknown(t)'
  <2>1. JobOf[t] # j /\ worker[JobOf[t]] = "none"
    BY <1>0, <1>3 DEF Accept, Malformed, Settle, Unregister, TypeOK
  <2>2. Unknown(t)
    BY <2>1 DEF BackendInv
  <2>3. t \notin handed[j] /\ t \notin call[j].tasks
    BY <2>1 DEF BackendInv, WindowInv, Awaited
  <2>4. UNCHANGED <<status, cancel>>
    BY <1>3 DEF Accept, Malformed, Settle, Unregister, windowVars
  <2>5. events'[t] = events[t]
    BY <1>3, <2>3 DEF Accept, Malformed, Settle, Unregister, channelVars, Emit
  <2>. QED
    BY <1>0, <1>3, <2>1, <2>2, <2>3, <2>4, <2>5
       DEF Accept, Malformed, Settle, Unregister, Unknown, backendVars, TypeOK
<1>4. ASSUME NEW u \in Task, Progress(u) \/ Report(u) \/ TakeCancel(u) \/ Announce(u)
      PROVE  Unknown(t)'
  <2>1. worker[JobOf[t]] = "none" /\ UNCHANGED status
    BY <1>4 DEF Progress, Report, TakeCancel, Announce, backendVars, windowVars
  <2>2. Unknown(t)
    BY <2>1 DEF BackendInv
  <2>3. CASE Progress(u) \/ Report(u)
    <3>1. u # t
      BY <2>1, <2>3 DEF Progress, Report
    <3>2. events'[t] = events[t]
      BY <2>3, <3>1 DEF Progress, Report, Emit
    <3>. QED
      BY <2>1, <2>2, <2>3, <3>1, <3>2 DEF Progress, Report, Unknown, backendVars
  <2>4. CASE TakeCancel(u)
    <3>1. \A v \in handed[JobOf[u]] \cap registered : v # t
      BY <2>2 DEF Unknown
    <3>2. cancel'[t] \notin {"taken", "yes"}
      BY <2>2, <2>4 DEF TakeCancel, Unknown, TypeOK
    <3>. QED
      BY <2>1, <2>2, <2>4, <3>1, <3>2 DEF TakeCancel, Unknown, channelVars
  <2>5. CASE Announce(u)
    <3>1. worker[JobOf[u]] # "none"
      BY <2>5, BackendKnown DEF Announce
    <3>2. t # u /\ t \notin taken[u]
      BY <2>1, <3>1 DEF BackendInv
    <3>3. events'[t] = events[t] /\ cancel'[t] = cancel[t]
      BY <2>5, <3>2 DEF Announce, Emit, TypeOK
    <3>. QED
      BY <2>1, <2>2, <2>5, <3>3 DEF Announce, Unknown
  <2>. QED
    BY <1>4, <2>3, <2>4, <2>5
<1>. QED
  BY <1>1, <1>2, <1>3, <1>4, StepKinds DEF BackendOnly

LEMMA BackendStep ==
  ASSUME TypeOK, WindowInv(status, call), BackendInv, [Next]_vars
  PROVE  BackendInv'
<1>1. \A t \in Task : worker'[JobOf[t]] = "none" => Unknown(t)'
  BY UnknownStep
<1>2. ASSUME NEW j \in Job, NEW t \in handed'[j]
      PROVE  JobOf[t] = j
  <2>1. CASE \E k \in Job : Accept(k)
    BY <1>2, <2>1 DEF Accept, BackendInv, WindowInv, Awaited, TypeOK
  <2>2. CASE UNCHANGED handed
    BY <1>2, <2>2 DEF BackendInv
  <2>3. CASE Restart
    BY <1>2, <2>3 DEF Restart
  <2>. QED
    BY <2>1, <2>2, <2>3, StepKinds
       DEF WindowOnly, BackendOnly, Malformed, Settle, Unregister, Progress, Report,
           TakeCancel, Announce, backendVars
<1>3. ASSUME NEW u \in Task
      PROVE  /\ \A t \in taken'[u] : JobOf[t] = JobOf[u]
             /\ taken'[u] # {} => cancel'[u] = "taken"
  <2>1. CASE WindowOnly
    BY <2>1 DEF WindowOnly, BackendInv
  <2>2. CASE \E j \in Job : Accept(j) \/ Malformed(j) \/ Settle(j) \/ Unregister(j)
    BY <2>2 DEF Accept, Malformed, Settle, Unregister, BackendInv
  <2>3. CASE \E t \in Task : Progress(t) \/ Report(t)
    BY <2>3 DEF Progress, Report, backendVars, BackendInv
  <2>4. CASE \E t \in Task : TakeCancel(t)
    <3>1. PICK t \in Task : TakeCancel(t)
      BY <2>4
    <3>2. CASE u = t
      <4>1. CASE taken'[u] = taken[u]
        BY <3>1, <3>2, <4>1 DEF TakeCancel, BackendInv
      <4>2. CASE /\ taken'[u] = handed[JobOf[u]] \cap registered
                 /\ cancel'[u] = "taken"
        BY <4>2, JobOfTask DEF BackendInv
      <4>. QED
        BY <3>1, <3>2, <4>1, <4>2 DEF TakeCancel, TypeOK
    <3>3. CASE u # t
      <4>1. taken'[u] = taken[u] /\ cancel'[u] = cancel[u]
        BY <3>1, <3>3 DEF TakeCancel, TypeOK
      <4>. QED
        BY <4>1 DEF BackendInv
    <3>. QED
      BY <3>2, <3>3
  <2>5. CASE \E t \in Task : Announce(t)
    BY <2>5 DEF Announce, BackendInv, TypeOK
  <2>6. CASE Restart
    BY <2>6 DEF Restart
  <2>. QED
    BY <2>1, <2>2, <2>3, <2>4, <2>5, <2>6, StepKinds DEF BackendOnly
<1>. QED
  BY <1>1, <1>2, <1>3 DEF BackendInv
-----------------------------------------------------------------------------
(* Cancelled tasks are dead.                                               *)

LEMMA AliveStep ==
  ASSUME TypeOK, [Next]_vars, NEW j \in Job, alive'[j]
  PROVE  \/ Accept(j)
         \/ alive[j] /\ handed'[j] = handed[j]
<1>1. CASE WindowOnly
  BY <1>1 DEF WindowOnly
<1>2. CASE Restart
  BY <1>2 DEF Restart
<1>3. CASE \E k \in Job : Accept(k) \/ Malformed(k) \/ Settle(k) \/ Unregister(k)
  BY <1>3 DEF Accept, Malformed, Settle, Unregister, TypeOK
<1>4. CASE \E t \in Task : Progress(t) \/ Report(t) \/ TakeCancel(t) \/ Announce(t)
  BY <1>4 DEF Progress, Report, TakeCancel, Announce, backendVars, TypeOK
<1>. QED
  BY <1>1, <1>2, <1>3, <1>4, StepKinds DEF BackendOnly

CancelTold(t) == \E i \in DOMAIN events[t] : events[t][i] = "cancelled"

LEMMA KilledStep ==
  ASSUME TypeOK, WindowInv(status, call), BackendInv, KilledInv, [Next]_vars
  PROVE  KilledInv'
<1>. SUFFICES ASSUME NEW t \in Task, cancel'[t] = "yes" \/ CancelTold(t)', alive'[JobOf[t]]
              PROVE  FALSE
  BY DEF KilledInv, CancelTold
<1>0. JobOf[t] \in Job
  BY JobOfTask
<1>1. (cancel[t] = "yes" \/ CancelTold(t)) => ~alive[JobOf[t]] /\ worker[JobOf[t]] # "none"
  BY BackendKnown DEF KilledInv, CancelTold
<1>2. CASE Accept(JobOf[t])
  <2>1. worker[JobOf[t]] = "none"
    BY <1>0, <1>2 DEF Accept, WindowInv, NotHanded
  <2>. QED
    BY <1>1, <1>2, <2>1 DEF Accept, channelVars, CancelTold
<1>3. CASE alive[JobOf[t]]
  <2>0. cancel[t] # "yes" /\ ~CancelTold(t)
    BY <1>1, <1>3
  <2>1. CASE WindowOnly
    <3>1. events[t] \in Seq({"progress", "done", "failed", "cancelled"})
      BY DEF TypeOK
    <3>2. cancel'[t] # "yes"
      BY <2>0, <2>1 DEF WindowOnly
    <3>3. ~CancelTold(t)'
      <4>1. CASE events'[t] = events[t]
        BY <2>0, <4>1 DEF CancelTold
      <4>2. CASE events[t] # <<>> /\ events'[t] = Tail(events[t])
        <5>1. \A k \in DOMAIN Tail(events[t]) : \E i \in DOMAIN events[t] :
                events[t][i] = Tail(events[t])[k]
          BY <3>1, <4>2, Heads
        <5>. QED
          BY <2>0, <4>2, <5>1 DEF CancelTold
      <4>. QED
        BY <2>1, <4>1, <4>2 DEF WindowOnly
    <3>. QED
      BY <3>2, <3>3
  <2>2. CASE Restart
    BY <1>0, <2>2 DEF Restart
  <2>3. ASSUME NEW u \in Task, Announce(u)
        PROVE  FALSE
    <3>1. JobOf[u] # JobOf[t]
      BY <1>0, <2>3 DEF Announce, TypeOK
    <3>2. t # u /\ t \notin taken[u]
      BY <3>1 DEF BackendInv
    <3>. QED
      BY <2>0, <2>3, <3>2 DEF Announce, Emit, CancelTold, TypeOK
  <2>4. ASSUME NEW u \in Task, Progress(u) \/ Report(u) \/ TakeCancel(u)
        PROVE  FALSE
    <3>1. cancel'[t] # "yes"
      BY <2>0, <2>4 DEF Progress, Report, TakeCancel, TypeOK
    <3>2. \/ events'[t] = events[t]
          \/ \E e \in {"progress", "done", "failed"} : Emit({u}, e)
      BY <2>4 DEF Progress, Report, TakeCancel, channelVars
    <3>. QED
      BY <2>0, <3>1, <3>2, EmitFrame DEF CancelTold
  <2>5. ASSUME NEW j \in Job, Accept(j) \/ Malformed(j) \/ Settle(j) \/ Unregister(j)
        PROVE  FALSE
    <3>1. cancel'[t] # "yes"
      BY <2>0, <2>5 DEF Accept, Malformed, Settle, Unregister
    <3>2. handed[j] \subseteq Task
      BY DEF TypeOK
    <3>3. \/ events'[t] = events[t]
          \/ \E S \in SUBSET Task : Emit(S, "failed")
      BY <2>5, <3>2 DEF Accept, Malformed, Settle, Unregister, channelVars
    <3>. QED
      BY <2>0, <3>1, <3>3, EmitFrame DEF CancelTold
  <2>. QED
    BY <2>1, <2>2, <2>3, <2>4, <2>5, StepKinds DEF BackendOnly
<1>. QED
  BY <1>0, <1>2, <1>3, AliveStep

LEMMA UnstartedUnknown ==
  ASSUME TypeOK, WindowInv(status, call), BackendInv, NEW t \in Task, Unstarted(t)
  PROVE  worker[JobOf[t]] = "none" /\ t \notin handed[JobOf[t]]
<1>1. worker[JobOf[t]] = "none"
  BY JobOfTask DEF Unstarted, Waiting, WindowInv, Untouched, NotHanded
<1>. QED
  BY <1>1 DEF BackendInv, Unknown

LEMMA DeadStep ==
  ASSUME TypeOK, WindowInv(status, call), BackendInv, KilledInv, CancelledIsDead, [Next]_vars
  PROVE  CancelledIsDead'
<1>. SUFFICES ASSUME NEW t \in Task, status'[t] = "cancelled", t \in handed'[JobOf[t]],
                     alive'[JobOf[t]]
              PROVE  FALSE
  BY DEF CancelledIsDead
<1>0. JobOf[t] \in Job
  BY JobOfTask
<1>1. CASE Accept(JobOf[t])
  <2>1. t \in call[JobOf[t]].tasks /\ call[JobOf[t]].phase = "asked" /\ status'[t] = status[t]
    BY <1>0, <1>1 DEF Accept, TypeOK
  <2>. QED
    BY <1>0, <2>1 DEF WindowInv, Awaited
<1>2. CASE alive[JobOf[t]] /\ handed'[JobOf[t]] = handed[JobOf[t]]
  <2>1. status'[t] # status[t]
    BY <1>2 DEF CancelledIsDead
  <2>2. CASE Restart
    BY <1>0, <2>2 DEF Restart
  <2>3. CASE Unstarted(t)
    BY <1>2, <2>3, UnstartedUnknown
  <2>4. CASE Told(t)
    <3>1. events[t] \in Seq({"progress", "done", "failed", "cancelled"})
      BY DEF TypeOK
    <3>. QED
      BY <1>2, <2>4, <3>1, Heads DEF Told, KilledInv
  <2>. QED
    BY <2>1, <2>2, <2>3, <2>4, StatusOrigin
<1>. QED
  BY <1>0, <1>1, <1>2, AliveStep

-----------------------------------------------------------------------------
(* No slot leaks.                                                          *)

ByCall(c, t) ==
  t \in c[JobOf[t]].tasks /\ c[JobOf[t]].phase \in {"metadata", "asked", "refused"}

ByWorker(t) ==
  worker[JobOf[t]] = "running" /\ t \in handed[JobOf[t]] \ (seen \cup marked)

ByEvent(t) == \E i \in DOMAIN events[t] : events[t][i] \in Terminal

ByCancel(t) == (\E u \in Task : cancel[u] = "taken" /\ t \in taken[u]) \/ cancel[t] = "yes"

Coming(t) == t \in missed \/ ByWorker(t) \/ ByEvent(t) \/ ByCancel(t)

SlotInv(s, c) == \A t \in Task : s[t] \in Active => ByCall(c, t) \/ Coming(t)

LEMMA SlotIsComing == NoSlotLeak <=> SlotInv(status, call)
  BY DEF NoSlotLeak, SlotInv, HasOutcomeComing, ByCall, Coming, ByWorker, ByEvent, ByCancel

LEMMA SlotScheduled ==
  ASSUME NEW s \in [Task -> Status], NEW c \in Calls, NEW slots, Scheduled(s, c, slots),
         \A t \in Task : s[t] \in Active => ByCall(c, t) \/ Coming(t)'
  PROVE  SlotInv(status, call)'
<1>. SUFFICES ASSUME NEW t \in Task, status'[t] \in Active
              PROVE  ByCall(call', t) \/ Coming(t)'
  BY DEF SlotInv, ByCall
<1>0. JobOf[t] \in Job /\ t \in TasksOf(JobOf[t])
  BY JobOfTask DEF TasksOf
<1>1. CASE s[t] \in Active
  <2>1. call'[JobOf[t]] = c[JobOf[t]]
    BY <1>0, <1>1, ScheduledJobs
  <2>. QED
    BY <1>1, <2>1 DEF ByCall
<1>2. CASE s[t] \notin Active
  BY <1>2, ScheduledTasks DEF ByCall, Active
<1>. QED
  BY <1>1, <1>2

\* The window's steps, except those that take an event or a reply.
LEMMA ComingKept ==
  ASSUME UNCHANGED <<worker, handed, seen, marked, events, missed, taken, cancel>>,
         NEW t \in Task, Coming(t)
  PROVE  Coming(t)'
  BY DEF Coming, ByWorker, ByEvent, ByCancel

\* A start call that ends settles or requeues every task it still has.
LEMMA SlotEnded ==
  ASSUME TypeOK, SlotInv(status, call), NEW j \in Job, NEW S, NEW value \in Status \ Active,
         Unfinished(j) \subseteq S, NEW t \in Task,
         With(status, S, value)[t] \in Active
  PROVE  ByCall(Ended(call, j), t) \/ Coming(t)
<1>1. t \notin S /\ status[t] \in Active
  <2>1. With(status, S, value)[t] = IF t \in S THEN value ELSE status[t]
    BY DEF With
  <2>. QED
    BY <2>1
<1>2. CASE ByCall(call, t)
  <2>1. JobOf[t] # j
    BY <1>1, <1>2 DEF Unfinished, ByCall, Terminal, Active
  <2>2. Ended(call, j)[JobOf[t]] = call[JobOf[t]]
    BY <2>1, JobOfTask, EndedType DEF TypeOK, Calls
  <2>. QED
    BY <1>2, <2>2 DEF ByCall
<1>. QED
  BY <1>1, <1>2 DEF SlotInv
LEMMA SlotJob ==
  ASSUME TypeOK, WindowInv(status, call), BackendInv, SlotInv(status, call), NEW j \in Job,
         Submit(j) \/ MetadataLoaded(j) \/ StartReply(j) \/ Refuse(j)
  PROVE  SlotInv(status, call)'
<1>0. status \in [Task -> Status] /\ call \in Calls
  BY DEF TypeOK, Calls
<1>1. UNCHANGED <<worker, handed, seen, marked, events, missed, taken, cancel>>
  BY DEF Submit, MetadataLoaded, StartReply, Refuse, backendVars, channelVars
<1>2. \A t \in Task : Coming(t) => Coming(t)'
  BY <1>1, ComingKept
<1>3. ASSUME NEW S, NEW value \in Status \ Active, Unfinished(j) \subseteq S,
             Schedule(With(status, S, value), Ended(call, j))
      PROVE  SlotInv(status, call)'
  BY <1>0, <1>2, <1>3, WithType, EndedType, SlotEnded, SlotScheduled DEF Schedule
<1>4. ASSUME Unfinished(j) = {}, call' = Ended(call, j), UNCHANGED status
      PROVE  SlotInv(status, call)'
  <2>1. With(status, {}, "failed") = status
    BY <1>0 DEF With
  <2>2. \A t \in Task : status[t] \in Active => ByCall(Ended(call, j), t) \/ Coming(t)
    BY <1>4, <2>1, SlotEnded DEF Status, Terminal, Active
  <2>. QED
    BY <1>2, <1>4, <2>2 DEF SlotInv, ByCall
<1>5. CASE Submit(j)
  <2>1. \A t \in Task : With(status, TasksOf(j), "queued")[t] \in Active => status[t] \in Active
    BY <1>0, WithType DEF Status, Active
  <2>. QED
    BY <1>0, <1>2, <1>5, <2>1, WithType, SlotScheduled DEF Submit, Schedule, SlotInv, Status
<1>6. CASE MetadataLoaded(j)
  <2>1. CASE Undisturbed(j) /\ call' = At(call, j, "asked") /\ UNCHANGED status
    <3>1. /\ At(call, j, "asked")[j].phase = "asked"
          /\ At(call, j, "asked")[j].tasks = call[j].tasks
          /\ \A k \in Job : k # j => At(call, j, "asked")[k] = call[k]
      BY <1>0, AtType
    <3>2. \A t \in Task : ByCall(call, t) => ByCall(call', t)
      BY <2>1, <3>1, JobOfTask DEF ByCall
    <3>. QED
      BY <1>2, <2>1, <3>2 DEF SlotInv, ByCall
  <2>2. CASE Ask(j)
    BY <1>3, <2>1, <2>2 DEF Ask, Status, Terminal, Active
  <2>3. CASE Requeue(j)
    <3>1. CASE Schedule(With(status, Unfinished(j), "queued"), Ended(call, j))
      BY <1>3, <3>1 DEF Status, Active
    <3>2. CASE Cardinality(call[j].tasks) = 1 /\ call' = Ended(call, j) /\ UNCHANGED status
      <4>1. IsFiniteSet(call[j].tasks)
        BY JobAssumption, FS_Subset DEF TypeOK
      <4>2. PICK u : call[j].tasks = {u}
        BY <3>2, <4>1, FS_Singleton
      <4>3. status[u] \in Terminal
        BY <1>6, <2>3, <4>2 DEF MetadataLoaded, Requeue, Undisturbed, WindowInv, Awaited
      <4>. QED
        BY <1>4, <3>2, <4>2, <4>3 DEF Unfinished
    <3>. QED
      BY <2>3, <3>1, <3>2 DEF Requeue
  <2>4. CASE MetadataFails(j)
    BY <1>3, <1>4, <2>4 DEF MetadataFails, Status, Terminal, Active
  <2>. QED
    BY <1>6, <2>2, <2>3, <2>4 DEF MetadataLoaded
<1>7. CASE StartReply(j)
  <2>1. CASE call[j].phase = "accepted" /\ call' = Ended(call, j) /\ UNCHANGED status
    <3>1. \A k \in Job : k # j => Ended(call, j)[k] = call[k]
      BY <1>0, EndedType
    <3>2. \A t \in Task : ByCall(call, t) => ByCall(call', t)
      BY <2>1, <3>1, JobOfTask DEF ByCall
    <3>. QED
      BY <1>2, <2>1, <3>2 DEF SlotInv, ByCall
  <2>2. CASE FailRefused(j)
    <3>1. Unfinished(j) \subseteq Failed(j)
      BY DEF Failed, Unfinished
    <3>. QED
      BY <1>3, <1>4, <2>2, <3>1 DEF FailRefused, Status, Terminal, Active
  <2>. QED
    BY <1>7, <2>1, <2>2 DEF StartReply
<1>8. CASE Refuse(j)
  <2>1. /\ At(call, j, "refused")[j].phase = "refused"
        /\ At(call, j, "refused")[j].tasks = call[j].tasks
        /\ \A k \in Job : k # j => At(call, j, "refused")[k] = call[k]
    BY <1>0, AtType
  <2>2. \A t \in Task : ByCall(call, t) => ByCall(call', t)
    BY <1>8, <2>1, JobOfTask DEF Refuse, ByCall
  <2>. QED
    BY <1>2, <1>8, <2>2 DEF Refuse, SlotInv, ByCall
<1>. QED
  BY <1>5, <1>6, <1>7, <1>8

LEMMA SlotWindow ==
  ASSUME TypeOK, WindowInv(status, call), BackendInv, SlotInv(status, call), NEW t \in Task,
         CancelTask(t) \/ CancelReply(t) \/ HandleEvent(t)
  PROVE  SlotInv(status, call)'
<1>0. /\ status \in [Task -> Status] /\ call \in Calls
      /\ WindowTypes /\ EventTypes
  BY TypeSplit DEF TypeOK, Calls
<1>1. ASSUME NEW value \in Status, NEW slots, Scheduled(With(status, {t}, value), call, slots),
             \A u \in Task : u # t \/ value \in Active => (Coming(u) => Coming(u)'),
             value \in Active => status[t] \in Active
      PROVE  SlotInv(status, call)'
  <2>1. /\ With(status, {t}, value) \in [Task -> Status]
        /\ \A u \in Task : With(status, {t}, value)[u] = IF u = t THEN value ELSE status[u]
    BY <1>0, WithType
  <2>2. \A u \in Task : With(status, {t}, value)[u] \in Active => ByCall(call, u) \/ Coming(u)'
    BY <1>1, <2>1 DEF SlotInv
  <2>. QED
    BY <1>0, <1>1, <2>1, <2>2, SlotScheduled
<1>2. CASE CancelTask(t)
  <2>1. \A u \in Task : Coming(u) => Coming(u)'
    BY <1>0, <1>2 DEF CancelTask, backendVars, channelVars, Coming, ByWorker, ByEvent, ByCancel, TypeOK
  <2>2. CASE Schedule(With(status, {t}, "cancelled"), call)
    BY <1>1, <2>1, <2>2 DEF Schedule, Status, Terminal, Active
  <2>3. CASE UNCHANGED <<status, call>>
    BY <2>1, <2>3 DEF SlotInv, ByCall
  <2>. QED
    BY <1>2, <2>2, <2>3 DEF CancelTask
<1>3. CASE CancelReply(t)
  <2>1. \A u \in Task : u # t => cancel'[u] = cancel[u]
    BY <1>3 DEF CancelReply, TypeOK
  <2>2. UNCHANGED <<worker, handed, seen, marked, events, missed, taken>>
    BY <1>3 DEF CancelReply, backendVars, channelVars
  <2>3. taken[t] = {}
    BY <1>3 DEF CancelReply, BackendInv
  <2>4. \A u \in Task : u # t \/ cancel[t] # "yes" => (Coming(u) => Coming(u)')
    BY <2>1, <2>2, <2>3 DEF Coming, ByWorker, ByEvent, ByCancel
  <2>5. CASE cancel[t] = "yes" /\ Schedule(With(status, {t}, "cancelled"), call)
    BY <1>1, <2>4, <2>5 DEF Schedule, Status, Terminal, Active
  <2>6. CASE cancel[t] = "no" /\ UNCHANGED <<status, call>>
    BY <2>4, <2>6 DEF SlotInv, ByCall
  <2>. QED
    BY <1>3, <2>5, <2>6 DEF CancelReply
<1>4. CASE HandleEvent(t)
  <2>. DEFINE event == Head(events[t])
              after == AfterEvent(t, event)
  <2>1. events[t] # <<>> /\ UNCHANGED <<worker, handed, seen, marked, missed, taken, cancel>>
        /\ events'[t] = Tail(events[t]) /\ \A u \in Task : u # t => events'[u] = events[u]
    BY <1>4 DEF HandleEvent, backendVars, TypeOK
  <2>2. /\ after \in Terminal \cup {"running"}
        /\ status[t] \in Terminal => after = status[t]
        /\ status[t] \notin Terminal /\ event # "progress" => after = event
        /\ event \in {"progress", "done", "failed", "cancelled"}
    BY <1>0, <2>1, AfterEventType
  <2>3. \A u \in Task : u # t => (Coming(u) => Coming(u)')
    BY <2>1 DEF Coming, ByWorker, ByEvent, ByCancel
  <2>4. after = "running" => event \notin Terminal
    BY <2>2 DEF Terminal
  <2>5. \A i \in DOMAIN events[t] : \/ events[t][i] = event
                                    \/ \E k \in DOMAIN events'[t] : events'[t][k] = events[t][i]
    BY <1>0, <2>1, Heads DEF EventTypes
  <2>6. after = "running" => (Coming(t) => Coming(t)')
    BY <2>1, <2>4, <2>5 DEF Coming, ByWorker, ByEvent, ByCancel
  <2>7. \A u \in Task : u # t \/ after \in Active => (Coming(u) => Coming(u)')
    BY <2>2, <2>3, <2>6 DEF Active, Terminal
  <2>8. after \in Status
    BY <2>2 DEF Status, Active
  <2>9. CASE Scheduled(With(status, {t}, after), call, limit) /\ after \in Terminal
    BY <1>1, <2>7, <2>8, <2>9 DEF Terminal, Active
  <2>10. CASE status' = With(status, {t}, after) /\ UNCHANGED call
                /\ ~(after \in Terminal /\ status[t] \notin Terminal)
    <3>1. \A u \in Task : status'[u] = IF u = t THEN after ELSE status[u]
      BY <1>0, <2>8, <2>10, WithType
    <3>2. status[t] \notin {"absent", "queued"}
      BY <2>1, BackendKnown DEF WindowInv, Untouched
    <3>3. after \in Active => status[t] \in Active
      BY <1>0, <2>2, <3>2 DEF Status, Active, Terminal
    <3>4. \A u \in Task : status'[u] \in Active => status[u] \in Active /\ (Coming(u) => Coming(u)')
      BY <2>7, <3>1, <3>3
    <3>. QED
      BY <2>10, <3>4 DEF SlotInv, ByCall
  <2>. QED
    BY <1>4, <2>9, <2>10 DEF HandleEvent, Schedule
<1>. QED
  BY <1>2, <1>3, <1>4
\* What the backend emits comes; what it takes over it will emit.
LEMMA ComingEmitted ==
  ASSUME TypeOK, NEW S \in SUBSET Task,
         NEW e \in {"progress", "done", "failed", "cancelled"}, Emit(S, e), NEW t \in Task
  PROVE  /\ t \in missed \/ ByEvent(t) => t \in missed' \/ ByEvent(t)'
         /\ t \in S /\ e \in Terminal => t \in missed' \/ ByEvent(t)'
<1>1. /\ \A i \in DOMAIN events[t] : i \in DOMAIN events'[t] /\ events'[t][i] = events[t][i]
      /\ missed \subseteq missed'
      /\ t \in S /\ e \in Terminal
           => t \in missed' \/ \E i \in DOMAIN events'[t] : events'[t][i] \in Terminal
  BY EmitFrame
<1>. QED
  BY <1>1 DEF ByEvent

LEMMA SlotBackend ==
  ASSUME TypeOK, WindowInv(status, call), BackendInv, SlotInv(status, call), BackendOnly
  PROVE  SlotInv(status, call)'
<1>0. call \in Calls
  BY DEF TypeOK, Calls
<1>1. ASSUME UNCHANGED <<status, call>>, \A t \in Task : Coming(t) => Coming(t)'
      PROVE  SlotInv(status, call)'
  BY <1>1 DEF SlotInv, ByCall
<1>2. ASSUME NEW j \in Job, Accept(j)
      PROVE  SlotInv(status, call)'
  <2>1. /\ At(call, j, "accepted")[j].tasks = call[j].tasks
        /\ \A k \in Job : k # j => At(call, j, "accepted")[k] = call[k]
    BY <1>0, AtType
  <2>2. worker[j] = "none" /\ UNCHANGED status
    BY <1>2 DEF Accept, WindowInv, NotHanded
  <2>3. ASSUME NEW t \in Task, JobOf[t] = j, t \in call[j].tasks
        PROVE  Coming(t)'
    <3>1. t \notin seen \cup marked
      BY <2>2, <2>3 DEF BackendInv, Unknown
    <3>. QED
      BY <1>2, <2>3, <3>1 DEF Accept, Coming, ByWorker, TypeOK
  <2>4. ASSUME NEW t \in Task, Coming(t)
        PROVE  Coming(t)'
    <3>1. ByWorker(t) => ByWorker(t)'
      BY <1>2, <2>2, JobOfTask DEF Accept, ByWorker, TypeOK
    <3>. QED
      BY <1>2, <2>4, <3>1 DEF Accept, Coming, ByEvent, ByCancel, channelVars
  <2>5. ASSUME NEW t \in Task, ByCall(call, t), JobOf[t] # j
        PROVE  ByCall(call', t)
    BY <1>2, <2>1, <2>5, JobOfTask DEF Accept, ByCall
  <2>. QED
    BY <2>2, <2>3, <2>4, <2>5 DEF SlotInv, ByCall
<1>3. ASSUME NEW j \in Job, Malformed(j)
      PROVE  SlotInv(status, call)'
  <2>1. handed[j] \in SUBSET Task /\ Emit(handed[j], "failed") /\ "failed" \in Terminal
    BY <1>3 DEF Malformed, TypeOK, Terminal
  <2>2. ASSUME NEW t \in Task, Coming(t)
        PROVE  Coming(t)'
    <3>1. ByWorker(t) => ByWorker(t)' \/ t \in handed[j]
      BY <1>3 DEF Malformed, ByWorker
    <3>. QED
      BY <1>3, <2>1, <2>2, <3>1, ComingEmitted DEF Malformed, Coming, ByCancel
  <2>. QED
    BY <1>1, <1>3, <2>2 DEF Malformed, windowVars
<1>4. ASSUME NEW j \in Job, Settle(j)
      PROVE  SlotInv(status, call)'
  <2>. DEFINE S == handed[j] \ (seen \cup marked)
  <2>1. S \in SUBSET Task /\ Emit(S, "failed") /\ "failed" \in Terminal
    BY <1>4 DEF Settle, TypeOK, Terminal
  <2>2. ASSUME NEW t \in Task, Coming(t)
        PROVE  Coming(t)'
    <3>1. ByWorker(t) => ByWorker(t)' \/ t \in S
      BY <1>4, JobOfTask DEF Settle, ByWorker, TypeOK
    <3>. QED
      BY <1>4, <2>1, <2>2, <3>1, ComingEmitted DEF Settle, Coming, ByCancel
  <2>. QED
    BY <1>1, <1>4, <2>2 DEF Settle, windowVars
<1>5. ASSUME NEW j \in Job, Unregister(j)
      PROVE  SlotInv(status, call)'
  <2>1. \A t \in Task : ByWorker(t) => ByWorker(t)'
    BY <1>5, JobOfTask DEF Unregister, ByWorker, TypeOK
  <2>2. \A t \in Task : Coming(t) => Coming(t)'
    BY <1>5, <2>1 DEF Unregister, channelVars, Coming, ByEvent, ByCancel
  <2>. QED
    BY <1>1, <1>5, <2>2 DEF Unregister, windowVars
<1>6. ASSUME NEW u \in Task, Progress(u)
      PROVE  SlotInv(status, call)'
  <2>1. \A t \in Task : Coming(t) => Coming(t)'
    BY <1>6, ComingEmitted DEF Progress, Coming, ByWorker, ByCancel, backendVars
  <2>. QED
    BY <1>1, <1>6, <2>1 DEF Progress, windowVars
<1>7. ASSUME NEW u \in Task, Report(u)
      PROVE  SlotInv(status, call)'
  <2>1. PICK outcome \in {"done", "failed"} : Emit({u}, outcome)
    BY <1>7 DEF Report
  <2>2. ASSUME NEW t \in Task, Coming(t)
        PROVE  Coming(t)'
    <3>1. ByWorker(t) => ByWorker(t)' \/ t \in {u}
      BY <1>7 DEF Report, ByWorker
    <3>. QED
      BY <1>7, <2>1, <2>2, <3>1, ComingEmitted DEF Report, Coming, ByCancel, Terminal
  <2>. QED
    BY <1>1, <1>7, <2>2 DEF Report, windowVars
<1>8. ASSUME NEW u \in Task, TakeCancel(u)
      PROVE  SlotInv(status, call)'
  <2>. DEFINE batch == handed[JobOf[u]] \cap registered
  <2>1. ASSUME NEW t \in Task, ByCancel(t)
        PROVE  ByCancel(t)'
    <3>1. CASE cancel[t] = "yes"
      BY <1>8, <3>1 DEF TakeCancel, ByCancel, TypeOK
    <3>2. ASSUME NEW v \in Task, cancel[v] = "taken", t \in taken[v]
          PROVE  ByCancel(t)'
      BY <1>8, <3>2 DEF TakeCancel, ByCancel, TypeOK
    <3>. QED
      BY <2>1, <3>1, <3>2 DEF ByCancel
  <2>2. CASE UNCHANGED marked
    BY <1>1, <1>8, <2>1, <2>2 DEF TakeCancel, windowVars, channelVars, Coming, ByWorker, ByEvent
  <2>3. CASE /\ marked' = marked \cup batch
             /\ cancel' = [cancel EXCEPT ![u] = "taken"] /\ taken' = [taken EXCEPT ![u] = batch]
    <3>1. cancel'[u] = "taken" /\ taken'[u] = batch
      BY <2>3 DEF TypeOK
    <3>2. \A t \in Task : ByWorker(t) => ByWorker(t)' \/ ByCancel(t)'
      BY <1>8, <2>3, <3>1 DEF TakeCancel, ByWorker, ByCancel
    <3>3. \A t \in Task : Coming(t) => Coming(t)'
      BY <1>8, <2>1, <3>2 DEF TakeCancel, channelVars, Coming, ByEvent
    <3>. QED
      BY <1>1, <1>8, <3>3 DEF TakeCancel, windowVars
  <2>. QED
    BY <1>8, <2>2, <2>3 DEF TakeCancel
<1>9. ASSUME NEW u \in Task, Announce(u)
      PROVE  SlotInv(status, call)'
  <2>1. taken[u] \in SUBSET Task /\ Emit(taken[u], "cancelled") /\ "cancelled" \in Terminal
    BY <1>9 DEF Announce, TypeOK, Terminal
  <2>2. ASSUME NEW t \in Task, ByCancel(t)
        PROVE  ByCancel(t)' \/ t \in taken[u]
    BY <1>9, <2>2 DEF Announce, ByCancel, TypeOK
  <2>3. ASSUME NEW t \in Task, Coming(t)
        PROVE  Coming(t)'
    BY <1>9, <2>1, <2>2, <2>3, ComingEmitted DEF Announce, Coming, ByWorker
  <2>. QED
    BY <1>1, <1>9, <2>3 DEF Announce, windowVars
<1>. QED
  BY <1>2, <1>3, <1>4, <1>5, <1>6, <1>7, <1>8, <1>9 DEF BackendOnly

LEMMA SlotStep ==
  ASSUME TypeOK, WindowInv(status, call), BackendInv, SlotInv(status, call), [Next]_vars
  PROVE  SlotInv(status, call)'
<1>0. status \in [Task -> Status] /\ call \in Calls
  BY DEF TypeOK, Calls
<1>1. CASE (\E n \in 1..MaxLimit : SetLimit(n)) \/ Connect
  <2>1. UNCHANGED <<worker, handed, seen, marked, events, missed, taken, cancel>>
    BY <1>1 DEF SetLimit, Connect, backendVars, channelVars
  <2>2. \A t \in Task : status[t] \in Active => ByCall(call, t) \/ Coming(t)'
    BY <2>1, ComingKept DEF SlotInv
  <2>. QED
    BY <1>0, <1>1, <2>2, SlotScheduled DEF SetLimit, Connect, Schedule
<1>2. CASE Persist \/ UNCHANGED vars
  <2>1. UNCHANGED <<status, call, worker, handed, seen, marked, events, missed, taken, cancel>>
    BY <1>2 DEF Persist, vars, windowVars, backendVars, channelVars
  <2>. QED
    BY <2>1, ComingKept DEF SlotInv, ByCall
<1>3. CASE Restart
  BY <1>3, RestartStatus DEF SlotInv
<1>. QED
  BY <1>1, <1>2, <1>3, NextSplit, SlotJob, SlotWindow, SlotBackend
     DEF JobStep, TaskStep, BackendOnly

-----------------------------------------------------------------------------
(* The invariant, and what it is for.                                      *)

LEMMA InvariantInit == Init => IInv
<1>. SUFFICES ASSUME Init
              PROVE  IInv
  OBVIOUS
<1>1. WindowInv(status, call) /\ Together(stored)
  BY JobOfTask DEF Init, WindowInv, Untouched, Awaited, NotHanded, Together, Idle
<1>2. BackendInv
  BY JobOfTask DEF Init, BackendInv, Unknown
<1>3. KilledInv
  BY DEF Init, KilledInv
<1>4. CancelledIsDead
  BY DEF Init, CancelledIsDead
<1>5. NoSlotLeak
  BY DEF Init, NoSlotLeak, Active
<1>. QED
  BY <1>1, <1>2, <1>3, <1>4, <1>5 DEF IInv

LEMMA Invariant == Spec => []IInv
<1>1. TypeOK /\ IInv /\ [Next]_vars => IInv'
  <2>. SUFFICES ASSUME TypeOK, IInv, [Next]_vars
                PROVE  IInv'
    OBVIOUS
  <2>1. WindowInv(status, call)' /\ Together(stored)'
    BY WindowStep, TogetherStored DEF IInv, WindowInv
  <2>2. BackendInv' /\ KilledInv' /\ CancelledIsDead'
    BY BackendStep, KilledStep, DeadStep DEF IInv
  <2>3. SlotInv(status, call)'
    BY SlotStep, SlotIsComing DEF IInv
  <2>4. NoSlotLeak'
    BY <2>3 DEF NoSlotLeak, SlotInv, HasOutcomeComing, ByCall, Coming, ByWorker, ByEvent,
                ByCancel
  <2>. QED
    BY <2>1, <2>2, <2>4 DEF IInv
<1>. QED
  BY <1>1, InvariantInit, TypeCorrect, PTL DEF Spec

(***************************************************************************)
(* A task shown as cancelled has no living process working on it, whatever *)
(* the order of the reply, the events and the kill.                        *)
(***************************************************************************)
THEOREM CancelledAlwaysDead == Spec => []CancelledIsDead
<1>1. IInv => CancelledIsDead
  BY DEF IInv
<1>. QED
  BY <1>1, Invariant, PTL

(***************************************************************************)
(* No slot leaks: every active task has an outcome coming, unless it was   *)
(* emitted before the listener was installed.                              *)
(***************************************************************************)
THEOREM NoSlotEverLeaks == Spec => []NoSlotLeak
<1>1. IInv => NoSlotLeak
  BY DEF IInv
<1>. QED
  BY <1>1, Invariant, PTL
=============================================================================
