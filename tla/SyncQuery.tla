------------------------------ MODULE SyncQuery ------------------------------
(***************************************************************************)
(* Python workers that a command waits for on its own thread               *)
(* (run_worker_with_payload_inner), the watchdog that some of them have    *)
(* (QueryDeadline), and the other holders of the two leases they take.     *)
(*                                                                         *)
(* A worker may start a helper process, which may inherit its output: the  *)
(* query reads until nobody holds the output any more.  On Windows the     *)
(* processes of a query with a deadline are in a job object; elsewhere in  *)
(* a process group, which a helper may have left.                          *)
(*                                                                         *)
(* Abstractions.  What is read is left out but for whether it holds an     *)
(* error; a worker is waited for with the mutex of its child, so that      *)
(* waiting and terminating are single steps.  System calls that wait for   *)
(* the child fail only where the deadline's destructor answers for it.     *)
(***************************************************************************)
EXTENDS RuntimeAccess

CONSTANTS
  Query,      \* calls of run_worker_with_payload
  Updater,    \* calls of acquire_application_update
  QueryCommandOf  \* the command of each query

Other == Holder \ Query     \* workers in the background and other callers

ASSUME QueryAssumption == Query \subseteq Holder /\ Updater \subseteq Other

VARIABLES
  appAccess, appGuard,  \* APPLICATION_ACCESS; access and guard are RUNTIME_ACCESS
  windows,    \* the platform
  qpc,        \* where each query is
  proc,       \* its worker: "none", "running", or ended well or badly
  helper,     \* a process the worker started: with the output, or silent
  watchdog,   \* "none", "armed", "fired" or "ended"
  stopSent,   \* the watchdog has been told to stop
  told,       \* what the watchdog returned: the query was stopped
  struck,     \* the watchdog ended a process that was alive (history)
  result      \* what the query returned

appVars   == <<appAccess, appGuard>>
dogVars   == <<watchdog, stopSent, told, struck>>
queryVars == <<qpc, proc, helper, dogVars, result>>
allVars   == <<accessVars, appVars, windows, queryVars>>

APP == INSTANCE RuntimeAccess WITH access <- appAccess, guard <- appGuard

\* query_timeout.
HasDeadline(q) ==
  QueryCommandOf[q] \in {"env_info", "runtime_info", "plugin_marketplace", "list_nodes",
                         "describe_operation", "runtime_env_sizes"}

QueryLease(q) == LeaseMode(QueryCommandOf[q])

QueryTypeOK ==
  /\ TypeOK /\ APP!TypeOK /\ windows \in BOOLEAN
  /\ qpc \in [Query -> {"idle", "begun", "leased", "reading", "waiting", "joining", "dropping",
                        "returning", "leaving", "done"}]
  /\ proc \in [Query -> {"none", "running", "good", "bad"}]
  /\ helper \in [Query -> {"none", "writing", "silent"}]
  /\ watchdog \in [Query -> {"none", "armed", "fired", "ended"}]
  /\ stopSent \in [Query -> BOOLEAN] /\ told \in [Query -> BOOLEAN]
  /\ struck \in [Query -> BOOLEAN]
  /\ result \in [Query -> {"none", "busy", "value", "error", "timeout"}]

QueryInit ==
  /\ Init /\ APP!Init /\ windows \in BOOLEAN
  /\ qpc = [q \in Query |-> "idle"] /\ proc = [q \in Query |-> "none"]
  /\ helper = [q \in Query |-> "none"] /\ watchdog = [q \in Query |-> "none"]
  /\ stopSent = [q \in Query |-> FALSE] /\ told = [q \in Query |-> FALSE]
  /\ struck = [q \in Query |-> FALSE] /\ result = [q \in Query |-> "none"]

At(q, place) == qpc[q] = place
Goto(q, place) == qpc' = [qpc EXCEPT ![q] = place]
Answers(q, r) == result' = [result EXCEPT ![q] = r]
Alive(q) == proc[q] = "running"

-----------------------------------------------------------------------------
(* The call.                                                               *)

ReserveApplication(q) ==
  /\ At(q, "idle")
  /\ \/ APP!Acquire(q, "user") /\ Goto(q, "begun") /\ UNCHANGED result
     \/ APP!Busy("user") /\ Goto(q, "done") /\ Answers(q, "busy") /\ UNCHANGED appVars
  /\ UNCHANGED <<accessVars, windows, proc, helper, dogVars>>

\* The bundled interpreter needs no lease of the runtime.
ReserveRuntime(q) ==
  /\ At(q, "begun")
  /\ \/ QueryLease(q) = "none" /\ Goto(q, "leased") /\ UNCHANGED <<accessVars, result>>
     \/ Acquire(q, QueryLease(q)) /\ Goto(q, "leased") /\ UNCHANGED result
     \/ /\ QueryLease(q) # "none" /\ Busy(QueryLease(q))
        /\ Goto(q, "leaving") /\ Answers(q, "busy") /\ UNCHANGED accessVars
  /\ UNCHANGED <<appVars, windows, proc, helper, dogVars>>

\* The payload, the command, the job object or the process may fail; a worker
\* that could not be put into its job is killed before it has run.
Launch(q) ==
  /\ At(q, "leased")
  /\ \/ /\ Goto(q, "reading") /\ proc' = [proc EXCEPT ![q] = "running"]
        /\ watchdog' = [watchdog EXCEPT ![q] = IF HasDeadline(q) THEN "armed" ELSE "none"]
        /\ UNCHANGED result
     \/ Goto(q, "returning") /\ Answers(q, "error") /\ UNCHANGED <<proc, watchdog>>
  /\ UNCHANGED <<accessVars, appVars, windows, helper, stopSent, told, struck>>

\* A slip: the end of the output is taken for the end of the worker.
EndOfOutputAsExit(q) ==
  /\ At(q, "reading") /\ helper[q] # "writing"
  /\ Goto(q, IF HasDeadline(q) THEN "joining" ELSE "returning")
  /\ stopSent' = [stopSent EXCEPT ![q] = HasDeadline(q)]
  /\ result' = [result EXCEPT ![q] = IF HasDeadline(q) THEN @ ELSE "value"]
  /\ UNCHANGED <<accessVars, appVars, windows, proc, helper, watchdog, told, struck>>

\* The worker may have closed its output and run on.
EndOfOutput(q) ==
  /\ At(q, "reading") /\ helper[q] # "writing"
  /\ Goto(q, "waiting")
  /\ UNCHANGED <<accessVars, appVars, windows, proc, helper, dogVars, result>>

\* What a query returns when its worker has ended and was not stopped.
Judge(q) ==
  \/ Answers(q, "error")
  \/ proc[q] = "good" /\ Answers(q, "value")

\* child.wait(), or the loop of try_wait that leaves the mutex to the watchdog.
Wait(q) ==
  /\ At(q, "waiting") /\ ~Alive(q)
  /\ IF HasDeadline(q)
       THEN /\ Goto(q, "joining") /\ stopSent' = [stopSent EXCEPT ![q] = TRUE]
            /\ UNCHANGED result
       ELSE Goto(q, "returning") /\ Judge(q) /\ UNCHANGED stopSent
  /\ UNCHANGED <<accessVars, appVars, windows, proc, helper, watchdog, told, struck>>

\* try_wait fails: the call returns through the destructor of the deadline.
WaitFails(q) ==
  /\ At(q, "waiting") /\ HasDeadline(q)
  /\ Goto(q, "dropping") /\ Answers(q, "error")
  /\ stopSent' = [stopSent EXCEPT ![q] = TRUE]
  /\ UNCHANGED <<accessVars, appVars, windows, proc, helper, watchdog, told, struck>>

\* The last handle of the job is closed with the deadline, and ends what is in it.
CloseJob(q) == helper' = [helper EXCEPT ![q] = IF windows THEN "none" ELSE @]

\* QueryDeadline::finish joins the watchdog.
Join(q) ==
  /\ At(q, "joining") /\ watchdog[q] = "ended"
  /\ Goto(q, "returning") /\ CloseJob(q)
  /\ IF told[q] THEN Answers(q, "timeout") ELSE Judge(q)
  /\ UNCHANGED <<accessVars, appVars, windows, proc, dogVars>>

\* QueryDeadline::drop.
DropDeadline(q) ==
  /\ At(q, "dropping") /\ watchdog[q] = "ended"
  /\ Goto(q, "returning") /\ CloseJob(q)
  /\ proc' = [proc EXCEPT ![q] = IF @ = "running" THEN "bad" ELSE @]
  /\ UNCHANGED <<accessVars, appVars, windows, dogVars, result>>

DropRuntime(q) ==
  /\ At(q, "returning") /\ Goto(q, "leaving")
  /\ IF guard[q] = "none" THEN UNCHANGED accessVars ELSE Release(q)
  /\ UNCHANGED <<appVars, windows, proc, helper, dogVars, result>>

DropApplication(q) ==
  /\ At(q, "leaving") /\ Goto(q, "done") /\ APP!Release(q)
  /\ UNCHANGED <<accessVars, windows, proc, helper, dogVars, result>>

-----------------------------------------------------------------------------
(* The watchdog.                                                           *)

\* recv_timeout: the message, or, as long as there is none, the time.
TimerFires(q) ==
  /\ watchdog[q] = "armed" /\ ~stopSent[q]
  /\ watchdog' = [watchdog EXCEPT ![q] = "fired"]
  /\ UNCHANGED <<accessVars, appVars, windows, qpc, proc, helper, stopSent, told, struck, result>>

Stops(q) ==
  /\ watchdog[q] = "armed" /\ stopSent[q]
  /\ watchdog' = [watchdog EXCEPT ![q] = "ended"]
  /\ UNCHANGED <<accessVars, appVars, windows, qpc, proc, helper, stopSent, told, struck, result>>

Strikes(q, stopped, left) ==
  /\ watchdog[q] = "fired" /\ watchdog' = [watchdog EXCEPT ![q] = "ended"]
  /\ told' = [told EXCEPT ![q] = stopped]
  /\ proc' = [proc EXCEPT ![q] = IF @ = "running" THEN "bad" ELSE @]
  /\ helper' = [helper EXCEPT ![q] = left]
  /\ struck' = [struck EXCEPT ![q] = Alive(q) \/ left # helper[q]]
  /\ UNCHANGED <<accessVars, appVars, windows, qpc, stopSent, result>>

\* A slip: the worker is killed as elsewhere, and its job is left alone.
StrikeWithoutJob(q) == Strikes(q, Alive(q), helper[q])

\* With the child's mutex: the job, if it has a live process, and then a worker
\* that is alive.  A helper that left the process group survives, and so does
\* every helper of a worker that ended by itself.
Strike(q) ==
  \/ windows /\ Strikes(q, Alive(q) \/ helper[q] # "none", "none")
  \/ ~windows /\ \E left \in {helper[q]} \cup (IF Alive(q) THEN {"none"} ELSE {}) :
       Strikes(q, Alive(q), left)

-----------------------------------------------------------------------------
(* The processes, and the other callers.                                   *)

ProcessEnds(q) ==
  /\ Alive(q) /\ \E end \in {"good", "bad"} : proc' = [proc EXCEPT ![q] = end]
  /\ UNCHANGED <<accessVars, appVars, windows, qpc, helper, dogVars, result>>

HelperStarts(q) ==
  /\ Alive(q) /\ helper[q] = "none"
  /\ \E kind \in {"writing", "silent"} : helper' = [helper EXCEPT ![q] = kind]
  /\ UNCHANGED <<accessVars, appVars, windows, qpc, proc, dogVars, result>>

HelperEnds(q) ==
  /\ helper[q] # "none" /\ helper' = [helper EXCEPT ![q] = "none"]
  /\ UNCHANGED <<accessVars, appVars, windows, qpc, proc, dogVars, result>>

OtherCaller(h) ==
  /\ Release(h) \/ \E m \in Mode : Acquire(h, m)
  /\ UNCHANGED <<appVars, windows, queryVars>>

ApplicationUpdate(u) ==
  /\ APP!Acquire(u, "update") \/ APP!Release(u)
  /\ UNCHANGED <<accessVars, windows, queryVars>>

Call(q) ==
  \/ ReserveRuntime(q) \/ Launch(q) \/ Wait(q) \/ Join(q) \/ DropDeadline(q)
  \/ DropRuntime(q) \/ DropApplication(q)

QueryNext ==
  \/ \E q \in Query :
       \/ ReserveApplication(q) \/ Call(q) \/ EndOfOutput(q) \/ WaitFails(q)
       \/ TimerFires(q) \/ Stops(q) \/ Strike(q)
       \/ ProcessEnds(q) \/ HelperStarts(q) \/ HelperEnds(q)
  \/ \E h \in Other : OtherCaller(h)
  \/ \E u \in Updater : ApplicationUpdate(u)

QuerySpec == QueryInit /\ [][QueryNext]_allVars

\* Threads run, time passes, and an output nobody holds comes to an end.
\* Nothing makes a worker or a helper end.
QueryFairness ==
  \A q \in Query :
    /\ WF_allVars(Call(q)) /\ WF_allVars(~Alive(q) /\ EndOfOutput(q))
    /\ WF_allVars(TimerFires(q)) /\ WF_allVars(Stops(q)) /\ WF_allVars(Strike(q))

QueryFairSpec == QuerySpec /\ QueryFairness

-----------------------------------------------------------------------------
(* Properties.                                                             *)

\* A worker that is waited for lives within both leases of its call, on every
\* way out of the call, and on Windows so do the helpers of one with a deadline
\* (the order of the destructors in run_worker_with_payload_inner).
QueryInsideLease ==
  \A q \in Query :
    Alive(q) \/ (windows /\ HasDeadline(q) /\ helper[q] # "none") =>
      appGuard[q] = "user" /\ guard[q] = QueryLease(q)

\* A helper that the deadline does not reach: the worker is gone, the helper
\* keeps the output, and there is no job object.
OutOfReach(q) ==
  ~windows /\ ~Alive(q) /\ helper[q] = "writing" /\ watchdog[q] = "ended"

\* A query with a deadline returns and gives its leases back, even if its worker
\* hangs or leaves its output to a helper, unless the helper is out of reach
\* (QueryDeadline, QueryJob::terminate_running).
QueryEnds ==
  \A q \in Query :
    HasDeadline(q) /\ At(q, "reading") ~>
      (At(q, "done") /\ guard[q] = "none" /\ appGuard[q] = "none") \/ OutOfReach(q)
=============================================================================
