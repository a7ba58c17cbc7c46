--------------------------- MODULE PluginSession ---------------------------
(***************************************************************************)
(* The live session of the plugin host (commands/plugin_host.rs).  The     *)
(* application has one session for all windows: a helper process with the  *)
(* plugin graph of one project.  The requests of a window follow each      *)
(* other (enqueue of utils/pluginHost.ts); those of different windows and  *)
(* the end of the application meet in the backend, where a request takes   *)
(* the generation when it is made, a blocking thread checks it, waits for  *)
(* the mutex of the session, and holds it until the helper has answered.   *)
(*                                                                         *)
(* Abstractions.  A window edits one project, its own.  "update" stands    *)
(* for the other requests that need a session too.  The contents of the    *)
(* graph and of the answers are left out; a native session is known by its *)
(* helper, which in the code may also renew it.  `error` and `dirty` of a  *)
(* window are left out: an unload may be asked when the code would still   *)
(* refuse.  The 50 ms ticks of receive_live_with are left out: an outcome  *)
(* is read when it is there.  An answer that is not JSON or carries        *)
(* another id is one that is "bad".                                        *)
(***************************************************************************)
EXTENDS Integers

CONSTANTS
  Window,       \* editor windows
  NoWindow,
  MaxLoads,     \* bound: loads that are accepted
  MaxDialogs,   \* bound: plugin dialogs that open
  MaxDeaths     \* bound: helpers that die, or answer badly, by themselves

ASSUME SessionAssumption ==
  /\ NoWindow \notin Window
  /\ MaxLoads \in Nat /\ MaxDialogs \in Nat /\ MaxDeaths \in Nat

VARIABLES
  generation,  \* PluginHostState.generation
  stopping,    \* PluginHostState.stopping
  session,     \* what the mutex guards: Session and the HostProcess in it
  lease,       \* session_pid
  holder,      \* the window whose thread has the mutex of the session
  host,        \* the helpers, by the generation of the load that spawned them
  request,     \* the request each window waits for, if any
  loaded,      \* `loaded` of each window
  fence,       \* recoveryGenerations of each window
  shut,        \* how far shutdown() is
  dialogs, deaths

backend == <<generation, stopping, session, lease, holder, shut>>
windows == <<request, loaded, fence>>
sessionVars == <<backend, host, windows, dialogs, deaths>>

Host == 1..MaxLoads
NoHost == 0
NoFence == -1

Operation == {"load", "update", "status", "unload", "drop", "discard"}
Discarding == {"drop", "discard"}  \* unload with discardUnsaved
NoWork == "none"
Work == {NoWork, "load", "update", "status", "unload"}

\* Where the thread of a request is: before the mutex; with it, a load that
\* settles the old helper; the old session closed; the generation checked once
\* more and a helper spawned; about to send; waiting for the answer.
Holding == {"settling", "prepared", "spawned", "sending", "waiting"}
Phase == {"idle", "asked"} \cup Holding

EmptySession == [project |-> NoWindow, native |-> NoHost, process |-> NoHost,
                 pending |-> NoWork, closed |-> FALSE]
DeadHost == [alive |-> FALSE, work |-> NoWork, reply |-> "none", dialog |-> FALSE]
Unloaded == [native |-> NoHost, unavailable |-> FALSE, waiting |-> FALSE]
NoRequest == [phase |-> "idle", op |-> "status", gen |-> 0, fenced |-> FALSE]

SessionTypeOK ==
  /\ generation \in 0..(MaxLoads + 1)
  /\ stopping \in BOOLEAN
  /\ session \in [gen : 0..MaxLoads, project : Window \cup {NoWindow},
                  native : Host \cup {NoHost}, process : Host \cup {NoHost},
                  pending : Work, closed : BOOLEAN]
  /\ lease \in [cancelled : BOOLEAN, process : Host \cup {NoHost}]
  /\ holder \in Window \cup {NoWindow}
  /\ host \in [Host -> [alive : BOOLEAN, work : Work, reply : {"none", "ok", "error", "bad"},
                        dialog : BOOLEAN]]
  /\ request \in [Window -> [phase : Phase, op : Operation, gen : 0..(MaxLoads + 1),
                             fenced : BOOLEAN]]
  /\ loaded \in [Window -> [native : Host \cup {NoHost}, unavailable : BOOLEAN,
                            waiting : BOOLEAN]]
  /\ fence \in [Window -> {NoFence} \cup 0..(MaxLoads + 1)]
  /\ shut \in {"no", "stopping", "superseding", "cancelled", "done"}
  /\ dialogs \in 0..MaxDialogs /\ deaths \in 0..MaxDeaths

SessionInit ==
  /\ generation = 0
  /\ stopping = FALSE
  /\ session = [gen |-> 0, project |-> NoWindow, native |-> NoHost, process |-> NoHost,
                pending |-> NoWork, closed |-> FALSE]
  /\ lease = [cancelled |-> FALSE, process |-> NoHost]
  /\ holder = NoWindow
  /\ host = [h \in Host |-> DeadHost]
  /\ request = [w \in Window |-> NoRequest]
  /\ loaded = [w \in Window |-> Unloaded]
  /\ fence = [w \in Window |-> NoFence]
  /\ shut = "no"
  /\ dialogs = 0 /\ deaths = 0
------------------------------------------------------------------------------
(* Operators of the backend.                                                *)

\* A slip: the end of the application is not looked at.
FreshWhileStopping(w) == generation = request[w].gen

\* require_generation
Fresh(w) == ~stopping /\ generation = request[w].gen

At(w, phase) == request[w].phase = phase
Op(w) == request[w].op

\* A session as close_session leaves it; its number stays.
Closed(s) == [s EXCEPT !.project = NoWindow, !.native = NoHost, !.process = NoHost,
                       !.pending = NoWork, !.closed = FALSE]

\* close_session: the lease is fresh again, and the helper is killed when the
\* HostProcess is dropped.
CloseSession(gen) ==
  /\ session' = [Closed(session) EXCEPT !.gen = gen]
  /\ lease' = [cancelled |-> FALSE, process |-> NoHost]
  /\ host' = IF session.process = NoHost THEN host
             ELSE [host EXCEPT ![session.process] = DeadHost]

KeepSession == UNCHANGED <<session, lease, host>>

\* receive_live_with: what the thread finds out about the helper of the
\* session.  An answer that has come is read first.
Outcome ==
  LET h == host[session.process] IN
  IF h.reply # "none" THEN h.reply
  ELSE IF ~h.alive THEN "dead"
  ELSE IF h.dialog THEN "dialog"
  ELSE "timeout"

\* Errors after which the helper is of no use (HostRequestError::is_fatal).
Fatal == {"bad", "dead", "timeout"}

\* complete_live and reconcile_live_session for an answer: the helper is free.
TakeAnswer(closed) ==
  LET h == session.process IN
  /\ session' = [session EXCEPT
       !.pending = NoWork,
       !.closed = closed,
       !.native = IF host[h].reply = "ok" /\ session.pending # "unload"
                  THEN h ELSE @]
  /\ host' = [host EXCEPT ![h].work = NoWork, ![h].reply = "none"]
  /\ UNCHANGED lease
------------------------------------------------------------------------------
(* The reply to a window: requestNow and the caller that awaits it.         *)

\* observeResponse, and what the caller does with a good answer.
Accept(w, native) ==
  /\ request' = [request EXCEPT ![w] = NoRequest]
  /\ fence' = IF Op(w) \in {"load", "update"} THEN [fence EXCEPT ![w] = NoFence] ELSE fence
  /\ loaded' = [loaded EXCEPT ![w] =
       CASE Op(w) \in {"load", "status"} -> [Unloaded EXCEPT !.native = native]
         [] Op(w) = "update" -> [@ EXCEPT !.native = native, !.waiting = FALSE]
         [] OTHER -> Unloaded]

\* An error.  The failed load of a recovery moves the fence to its generation
\* (PLUGIN_HOST_RECOVERY_LOAD_FAILED); a failed reload leaves the old session
\* in the window, unavailable.
Reject(w, dialog) ==
  /\ request' = [request EXCEPT ![w] = NoRequest]
  /\ fence' = IF request[w].fenced THEN [fence EXCEPT ![w] = request[w].gen] ELSE fence
  /\ loaded' = [loaded EXCEPT ![w] =
       CASE @.native = NoHost -> @
         [] @.native # NoHost /\ Op(w) = "load" -> [@ EXCEPT !.unavailable = TRUE]
         [] @.native # NoHost /\ Op(w) # "load" /\ dialog -> [@ EXCEPT !.waiting = TRUE]
         [] @.native # NoHost /\ Op(w) \in {"update", "status"} /\ ~dialog ->
              [@ EXCEPT !.waiting = FALSE, !.unavailable = @ \/ Op(w) = "status"]
         [] OTHER -> @]

\* The thread returns, with or without having had the mutex.
Release(w) == holder' = IF holder = w THEN NoWindow ELSE holder

Fail(w, dialog) ==
  /\ Reject(w, dialog)
  /\ Release(w)

\* The answer passes only if no other load has been accepted since.
Answered(w, native) ==
  /\ IF Fresh(w) THEN Accept(w, native) ELSE Reject(w, FALSE)
  /\ Release(w)

Move(w, phase) ==
  /\ request' = [request EXCEPT ![w].phase = phase]
  /\ UNCHANGED <<loaded, fence>>
------------------------------------------------------------------------------
(* A window asks.  The command reads or raises the generation at once       *)
(* (begin_load_generation), then a blocking thread goes on.                 *)

Ask(w, op, gen, fenced) ==
  /\ request' = [request EXCEPT ![w] = [phase |-> "asked", op |-> op, gen |-> gen,
                                        fenced |-> fenced]]
  /\ generation' = gen
  /\ UNCHANGED <<stopping, session, lease, holder, host, loaded, fence, shut, dialogs, deaths>>

\* ensureNow without a session, or reloadPluginSession.  A load after a
\* recovery must find the generation of the fence, and is refused without any
\* change if it does not; another one takes the next.
Load(w) ==
  /\ At(w, "idle")
  /\ generation < MaxLoads
  /\ fence[w] \in {NoFence, generation}
  /\ Ask(w, "load", generation + 1, fence[w] # NoFence)

\* The other requests of a window that has a session: ensureNow after an edit,
\* the monitor, the controls, unloadPluginSession (also when the window closes
\* and its changes are discarded) and discardUnavailablePluginSession.
AskLoaded(w, op) ==
  /\ At(w, "idle")
  /\ loaded[w].native # NoHost
  /\ op \in {"update", "unload"} => ~loaded[w].unavailable
  /\ op = "discard" => loaded[w].unavailable /\ ~loaded[w].waiting
  /\ Ask(w, op, generation, FALSE)
------------------------------------------------------------------------------
(* The thread of a request.                                                 *)

\* require_generation fails, before the mutex or with it.
Superseded(w) ==
  /\ At(w, "asked")
  /\ ~Fresh(w)
  /\ Fail(w, FALSE)
  /\ KeepSession
  /\ UNCHANGED <<generation, stopping, shut, dialogs, deaths>>

\* The thread gets the mutex, and the generation is still its own.
Admitted(w) ==
  /\ At(w, "asked")
  /\ holder = NoWindow
  /\ Fresh(w)
  /\ UNCHANGED <<generation, stopping, shut, dialogs, deaths>>

\* discard_session: the window may end its own session, and learns whether it
\* was, or whether there was none.
Owned(w) ==
  /\ session.project = w
  /\ session.gen = request[w].gen
  /\ session.native = loaded[w].native

\* A slip: an empty session is enough, whoever is about to load it.
AbsentForNow(w) == Closed(session) = session

Absent(w) ==
  /\ session.gen = request[w].gen
  /\ Closed(session) = session

EnterDiscard(w) ==
  /\ Op(w) \in Discarding
  /\ Admitted(w)
  /\ IF Owned(w) THEN CloseSession(session.gen) ELSE KeepSession
  /\ request' = [request EXCEPT ![w] = NoRequest]
  /\ IF Op(w) = "drop" \/ Owned(w) \/ Absent(w)
     THEN loaded' = [loaded EXCEPT ![w] = Unloaded]
     ELSE UNCHANGED loaded
  /\ fence' = IF Op(w) = "discard" /\ (Owned(w) \/ Absent(w))
              THEN [fence EXCEPT ![w] = request[w].gen] ELSE fence
  /\ UNCHANGED holder

\* A slip: any open session will do.
BelongsAnyone(w) == session.process # NoHost

\* The session is another one, or closed; or an update cannot be prepared.
Belongs(w) == session.project = w /\ session.gen = request[w].gen

EnterRefused(w) ==
  /\ Op(w) \notin Discarding \cup {"load"}
  /\ Admitted(w)
  /\ Op(w) = "update" \/ ~Belongs(w)
  /\ Fail(w, FALSE)
  /\ KeepSession

EnterRequest(w) ==
  /\ Op(w) \notin Discarding \cup {"load"}
  /\ Admitted(w)
  /\ Belongs(w)
  /\ Move(w, "sending")
  /\ holder' = w
  /\ KeepSession

\* prepare_live_load_with claims the session for this load.
EnterLoad(w) ==
  /\ Op(w) = "load"
  /\ Admitted(w)
  /\ session' = [session EXCEPT !.gen = request[w].gen]
  /\ Move(w, "settling")
  /\ holder' = w
  /\ UNCHANGED <<lease, host>>

\* finish_pending_with: the answer to an earlier request, for which a dialog
\* had been shown, is read before anything else is done with the helper.
Settle(w) ==
  /\ At(w, "settling") \/ At(w, "sending")
  /\ session.pending # NoWork
  /\ CASE Outcome = "ok" ->
            /\ TakeAnswer(session.closed \/ session.pending = "unload")
            /\ UNCHANGED <<holder, windows>>
       [] Outcome = "error" -> TakeAnswer(session.closed) /\ Fail(w, FALSE)
       [] Outcome = "dialog" -> KeepSession /\ Fail(w, TRUE)
       [] Outcome \in Fatal -> CloseSession(session.gen) /\ Fail(w, FALSE)
  /\ UNCHANGED <<generation, stopping, shut, dialogs, deaths>>

\* The load waits for a dialog of the old helper, or closes the old session.
Replace(w) ==
  LET shown == session.process # NoHost /\ host[session.process].dialog IN
  /\ At(w, "settling")
  /\ session.pending = NoWork
  /\ IF shown THEN Fail(w, TRUE) ELSE Move(w, "prepared") /\ UNCHANGED holder
  /\ IF shown /\ ~session.closed THEN KeepSession ELSE CloseSession(session.gen)
  /\ UNCHANGED <<generation, stopping, shut, dialogs, deaths>>

\* prepare_session_request fails and closes the session again, or the last
\* check before the helper starts fails, or the start of the helper.
LoadStops(w) ==
  /\ At(w, "prepared")
  /\ Fail(w, FALSE)
  /\ CloseSession(session.gen) \/ KeepSession
  /\ UNCHANGED <<generation, stopping, shut, dialogs, deaths>>

\* HostProcess::spawn: the helper of a load is known by the load's number.
LoadSpawns(w) ==
  /\ At(w, "prepared")
  /\ Fresh(w)
  /\ host' = [host EXCEPT ![request[w].gen].alive = TRUE]
  /\ Move(w, "spawned")
  /\ UNCHANGED <<backend, dialogs, deaths>>

\* ProcessLease::publish: a helper that was spawned after cancel() is dropped.
Publish(w) ==
  LET h == request[w].gen IN
  /\ At(w, "spawned")
  /\ IF ~lease.cancelled /\ lease.process = NoHost
     THEN /\ lease' = [lease EXCEPT !.process = h]
          /\ session' = [session EXCEPT !.process = h, !.project = w]
          /\ Move(w, "sending")
          /\ UNCHANGED <<holder, host>>
     ELSE /\ host' = [host EXCEPT ![h] = DeadHost]
          /\ Fail(w, FALSE)
          /\ UNCHANGED <<session, lease>>
  /\ UNCHANGED <<generation, stopping, shut, dialogs, deaths>>

\* request_live when nothing is outstanding.  If the answer just settled was to
\* an unload, the session is closed whatever is asked.
Send(w) ==
  /\ At(w, "sending")
  /\ session.pending = NoWork
  /\ IF session.closed
     THEN /\ CloseSession(session.gen)
          /\ IF Op(w) = "unload" THEN Answered(w, NoHost) ELSE Fail(w, FALSE)
     ELSE /\ session' = [session EXCEPT !.pending = Op(w)]
          /\ host' = [host EXCEPT ![session.process].work =
                        IF host[session.process].alive THEN Op(w) ELSE NoWork]
          /\ Move(w, "waiting")
          /\ UNCHANGED <<lease, holder>>
  /\ UNCHANGED <<generation, stopping, shut, dialogs, deaths>>

\* request_session reads what became of the request.  While the plugin shows a
\* dialog the request stays outstanding in the session.
Receive(w) ==
  /\ At(w, "waiting")
  /\ CASE Outcome = "ok" ->
            /\ IF Op(w) = "unload" THEN CloseSession(session.gen) ELSE TakeAnswer(FALSE)
            /\ Answered(w, session.process)
       [] Outcome = "error" -> TakeAnswer(FALSE) /\ Fail(w, FALSE)
       [] Outcome = "dialog" -> KeepSession /\ Fail(w, TRUE)
       [] Outcome \in Fatal -> CloseSession(session.gen) /\ Fail(w, FALSE)
  /\ UNCHANGED <<generation, stopping, shut, dialogs, deaths>>
------------------------------------------------------------------------------
(* The helper, as far as the session sees it.                               *)

HostReplies(h, reply) ==
  /\ host[h].alive
  /\ host[h].work # NoWork
  /\ host[h].reply = "none"
  /\ host' = [host EXCEPT ![h].reply = reply]
  /\ UNCHANGED <<backend, windows, dialogs>>
  /\ IF reply = "bad" THEN deaths < MaxDeaths /\ deaths' = deaths + 1 ELSE UNCHANGED deaths

\* A dead helper's answer may still be in the pipe.
HostDies(h) ==
  /\ host[h].alive
  /\ deaths < MaxDeaths
  /\ host' = [host EXCEPT ![h] = [DeadHost EXCEPT !.reply = host[h].reply]]
  /\ deaths' = deaths + 1
  /\ UNCHANGED <<backend, windows, dialogs>>

\* Dialogs are seen on Windows only (owned_dialog).
DialogOpens(h) ==
  /\ host[h].alive /\ ~host[h].dialog
  /\ dialogs < MaxDialogs
  /\ host' = [host EXCEPT ![h].dialog = TRUE]
  /\ dialogs' = dialogs + 1
  /\ UNCHANGED <<backend, windows, deaths>>

DialogCloses(h) ==
  /\ host[h].dialog
  /\ host' = [host EXCEPT ![h].dialog = FALSE]
  /\ UNCHANGED <<backend, windows, dialogs, deaths>>

------------------------------------------------------------------------------
(* shutdown, at the end of the application (main.rs).                       *)

ShutFlag ==
  /\ shut = "no"
  /\ shut' = "stopping"
  /\ stopping' = TRUE
  /\ UNCHANGED <<generation, session, lease, holder, host, windows, dialogs, deaths>>

ShutSupersede ==
  /\ shut = "stopping"
  /\ shut' = "superseding"
  /\ generation' = generation + 1
  /\ UNCHANGED <<stopping, session, lease, holder, host, windows, dialogs, deaths>>

\* session_pid.cancel: the published helper is killed.
ShutCancel ==
  /\ shut = "superseding"
  /\ shut' = "cancelled"
  /\ lease' = [cancelled |-> TRUE, process |-> NoHost]
  /\ host' = IF lease.process = NoHost THEN host
             ELSE [host EXCEPT ![lease.process] =
                     [DeadHost EXCEPT !.reply = host[lease.process].reply]]
  /\ UNCHANGED <<generation, stopping, session, holder, windows, dialogs, deaths>>

\* The mutex of the session, at last: the process is dropped.
ShutTake ==
  /\ shut = "cancelled"
  /\ holder = NoWindow
  /\ shut' = "done"
  /\ session' = [session EXCEPT !.project = NoWindow, !.process = NoHost,
                               !.pending = NoWork, !.closed = FALSE]
  /\ host' = IF session.process = NoHost THEN host
             ELSE [host EXCEPT ![session.process] = DeadHost]
  /\ UNCHANGED <<generation, stopping, lease, holder, windows, dialogs, deaths>>
------------------------------------------------------------------------------
Thread(w) ==
  \/ Superseded(w) \/ EnterDiscard(w) \/ EnterRefused(w) \/ EnterRequest(w)
  \/ EnterLoad(w) \/ Settle(w) \/ Replace(w) \/ LoadStops(w) \/ LoadSpawns(w)
  \/ Publish(w) \/ Send(w) \/ Receive(w)

WindowStep(w) ==
  Load(w) \/ \E op \in Operation \ {"load"} : AskLoaded(w, op)

HelperStep(h) ==
  \/ \E reply \in {"ok", "error", "bad"} : HostReplies(h, reply)
  \/ HostDies(h) \/ DialogOpens(h) \/ DialogCloses(h)

SessionNext ==
  \/ \E w \in Window : WindowStep(w) \/ Thread(w)
  \/ \E h \in Host : HelperStep(h)

\* The end of the application never waits for a living helper: from the cancel
\* on, the helper in the session is dead, so that the thread that holds the
\* mutex returns; and when the mutex was had no helper is left, not even one
\* that was just being started (shutdown against plugin_host_request).
SessionShut ==
  /\ shut \in {"cancelled", "done"} /\ session.process # NoHost =>
       ~host[session.process].alive
  /\ shut = "done" => \A h \in Host : ~host[h].alive

\* A recovery never takes the session from another window: its load is
\* accepted only when no other window's load is the latest and still under
\* way, and no other window has the session; nor does it find one when it gets
\* the mutex (begin_load_generation after discard_session).
Others(w) == Window \ {w}

RecoveryNeverReplaces ==
  [][\A w \in Window :
       /\ At(w, "idle") /\ At(w, "asked")' /\ request'[w].fenced =>
            \A v \in Others(w) :
              /\ session.project # v
              /\ ~At(v, "idle") /\ Op(v) = "load" => request[v].gen < generation
       /\ request[w].fenced /\ At(w, "asked") /\ At(w, "settling")' =>
            session.project \notin Others(w)]_sessionVars

\* What a window believes of its session comes from its own helper: a poll
\* that leaves the session available finds it to be the one the backend has for
\* this window (request_session against a load of another window that settles
\* or replaces the session).
PollIsTruthful ==
  [][\A w \in Window :
       Op(w) = "status" /\ ~At(w, "idle") /\ At(w, "idle")' =>
         \/ loaded'[w].unavailable \/ loaded'[w].waiting
         \/ session'.project = w /\ session'.native = loaded'[w].native]_sessionVars
=============================================================================
