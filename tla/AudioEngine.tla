----------------------------- MODULE AudioEngine -----------------------------
(***************************************************************************)
(* A session of the native audio host: the control thread that serves the  *)
(* requests of the application (engine.rs Session, protocol.rs host_tick), *)
(* the worker that renders (engine.rs process), and the callback of the    *)
(* audio device (output.rs fill).  They share a clock made of atomics      *)
(* (output.rs Clock), a ring of rendered frames, a queue of commands and a *)
(* queue of events.  An action is one access to an atomic, or one          *)
(* operation on a queue; the accesses are taken to be sequentially         *)
(* consistent.                                                             *)
(*                                                                         *)
(* Abstractions.  A block is one frame, latency and tail are zero, epochs  *)
(* do not wrap.  Samples, levels, parameters and states of plugins are     *)
(* left out; what a plugin, the decoder or the device does wrong is a      *)
(* fault.  A wait may end at any time.                                     *)
(***************************************************************************)
EXTENDS Naturals, Sequences

CONSTANTS
  Lengths,      \* lengths a project may have, in blocks
  Starts,       \* bound: places a playback or a seek goes to
  Loops,        \* whether it may repeat
  RingSize, Prefill,      \* blocks in the ring, and before the first is heard
  QueueSize, EventSize,   \* commands and events that may wait
  MaxRequests,  \* bound: requests of the user
  MaxFaults     \* bound: faults of plugins, decoder and device

ASSUME SizeAssumption ==
  /\ Lengths \subseteq Nat \ {0}
  /\ \E n \in Lengths : \A m \in Lengths : m <= n
  /\ {RingSize, Prefill, QueueSize, EventSize} \subseteq Nat \ {0}
  /\ Starts \subseteq Nat /\ Loops \subseteq BOOLEAN
  /\ Prefill <= RingSize
  /\ MaxRequests \in Nat /\ MaxFaults \in Nat

VARIABLES
  active, cursor, ready, lastEpoch, recovering,  \* Clock
  ring,        \* frames [position, generation, last]
  commands, events,
  offline, length,
  \* the control thread
  turn,        \* what host_tick does next
  script,      \* the steps left of what it is doing
  doing,       \* the name of it
  to,          \* the transition it made last
  keep,        \* recover_latency: where and whether to go on
  held, asked, \* the pause it owns (0: none), and the last reply channel
  transport, looping, error, revision, recovered, rendering,  \* Session
  response,    \* what is in that channel
  cancel,
  \* the worker
  stage,       \* where it is
  job,         \* the steps left of a change of the clock
  dsp,         \* the variables of process(); "cut": it ended the playback itself (history)
  wto,         \* the transition it makes
  ticket,      \* TimingRequest: its number, and whether it is served
  pass, renderResult,  \* of an export
  \* the callback
  cb, saw, got,  \* where it is, the epoch it has read, the frame in its hand
  heard,       \* of which epoch was heard last, the first and the last of those blocks
               \* without a gap, and whether the epoch lost a block to a drain while
               \* it was active (history)
  deviceFailed,
  requests, faults

clockVars     == <<active, cursor, ready, lastEpoch, recovering>>
queueVars     == <<ring, commands, events>>
transportVars == <<transport, looping, error, revision, recovered, rendering>>
controlVars   == <<turn, script, doing, to, keep, held, asked, response, cancel>>
workerVars    == <<stage, job, dsp, wto, ticket, pass, renderResult, length>>
deviceVars    == <<cb, saw, got, heard, deviceFailed>>
vars == <<clockVars, queueVars, offline, transportVars, controlVars, workerVars, deviceVars,
          requests, faults>>

Longest == CHOOSE n \in Lengths : \A m \in Lengths : m <= n
NoFrame == [position |-> 0, generation |-> 0, last |-> FALSE]
NoMove  == [frame |-> 0, playing |-> FALSE, generation |-> 0]

Init ==
  /\ active = 0 /\ cursor = [epoch |-> 0, frame |-> 0] /\ ready = 0 /\ lastEpoch = 0
  /\ recovering = FALSE
  /\ ring = <<>> /\ commands = <<>> /\ events = <<>>
  /\ offline \in BOOLEAN /\ length = Longest
  /\ turn = "idle" /\ script = <<>> /\ doing = "none"
  /\ to = NoMove
  /\ keep = [resume |-> FALSE, frame |-> 0]
  /\ held = 0 /\ asked = 0 /\ response = "none" /\ cancel = FALSE
  /\ transport = FALSE /\ looping = FALSE /\ error = FALSE /\ revision = 0
  /\ recovered = FALSE /\ rendering = FALSE
  /\ stage = "top" /\ job = <<>>
  /\ dsp = [active |-> FALSE, looping |-> FALSE, generation |-> 0, position |-> 0,
            hold |-> 0, revision |-> 0, cut |-> FALSE]
  /\ wto = to
  /\ ticket = [id |-> 0, state |-> "void"] /\ pass = 0 /\ renderResult = "none"
  /\ cb = "closed" /\ saw = 0 /\ got = NoFrame /\ deviceFailed = FALSE
  /\ heard = [epoch |-> 0, first |-> 0, last |-> 0, missed |-> FALSE]
  /\ requests = 0 /\ faults = 0
-----------------------------------------------------------------------------
(* The clock.                                                              *)

Works == UNCHANGED faults
Fault == faults < MaxFaults /\ faults' = faults + 1

\* A slip: a completion stops whatever plays.
FinishAny(epoch) == active' = 0

\* Clock::finish
Finish(epoch) == active' = IF active = epoch THEN 0 ELSE active

\* Clock::transition, one store after the other; r is the transition.
Transition == <<"cursor", "unready", "active">>

TransitionStep(step, r) ==
  /\ cursor' = IF step = "cursor" THEN [epoch |-> lastEpoch + 1, frame |-> r.frame] ELSE cursor
  /\ ready'  = IF step = "unready" THEN 0 ELSE ready
  /\ active' = IF step = "active" THEN (IF r.playing THEN r.generation ELSE 0) ELSE active

\* A transition that takes a new epoch keeps it.
Stamped(r) == IF lastEpoch' = lastEpoch THEN r ELSE [r EXCEPT !.generation = lastEpoch']

\* Clock::begin_recovery: the failed epoch is replaced wherever it is current.
Recovery == <<"recovering", "replace", "halt", "unready", "tell">>

\* try_send
Post(event) == events' = IF Len(events) < EventSize THEN Append(events, event) ELSE events
-----------------------------------------------------------------------------
(* The callback of the device.                                             *)

Device == UNCHANGED <<commands, events, offline, transportVars, controlVars, workerVars, requests,
                      ready, lastEpoch, recovering>>

LoadActive ==
  /\ cb = "idle"
  /\ saw' = active /\ cb' = "drain"
  /\ UNCHANGED <<active, cursor, ring, got, heard, deviceFailed, faults>> /\ Device

Rest == cb' = "idle" /\ saw' = 0 /\ got' = NoFrame

\* Frames of another epoch than the one it has read are dropped, also those of
\* an epoch that has become active since.
DrainStale ==
  /\ cb = "drain"
  /\ \E n \in 0..Len(ring) :
       /\ \A i \in 1..n : ring[i].generation # saw
       /\ n < Len(ring) => ring[n + 1].generation = saw
       /\ ring' = SubSeq(ring, n + 1, Len(ring))
       /\ heard' = IF \E i \in 1..n : ring[i].generation = active
                   THEN [epoch |-> active, first |-> 0, last |-> 0, missed |-> TRUE]
                   ELSE heard
  /\ IF saw # 0 /\ ready = saw THEN cb' = "pop" /\ UNCHANGED <<saw, got>> ELSE Rest
  /\ UNCHANGED <<active, cursor, deviceFailed, faults>> /\ Device

\* The frame follows what was heard last, or there is a gap.
Follows(frame) == frame.generation = heard.epoch /\ frame.position = heard.last + 1
Hear(frame) ==
  heard' = [epoch |-> frame.generation, last |-> frame.position,
            first |-> IF Follows(frame) THEN heard.first ELSE frame.position,
            missed |-> frame.generation = heard.epoch /\ heard.missed]

\* The next frame is heard if it is of the epoch that is active now.
PopFrame ==
  /\ cb = "pop"
  /\ IF ring = <<>>
     THEN Rest /\ UNCHANGED <<ring, heard>>
     ELSE /\ ring' = Tail(ring)
          /\ IF Head(ring).generation = active
             THEN cb' = "commit" /\ got' = Head(ring) /\ saw' = 0 /\ Hear(Head(ring))
             ELSE /\ IF active = 0 THEN Rest ELSE UNCHANGED <<cb, saw, got>>
                  /\ UNCHANGED heard
  /\ UNCHANGED <<active, cursor, deviceFailed, faults>> /\ Device

\* A slip: the cursor follows every frame that is heard.
CommitAny ==
  /\ cb = "commit"
  /\ cursor' = [epoch |-> got.generation, frame |-> got.position]
  /\ IF got.last THEN cb' = "finish" /\ UNCHANGED <<saw, got>> ELSE Rest
  /\ UNCHANGED <<active, ring, heard, deviceFailed, faults>> /\ Device

\* Clock::commit: the cursor moves unless it belongs to another epoch.
CommitFrame ==
  /\ cb = "commit"
  /\ cursor' = IF cursor.epoch = got.generation
               THEN [cursor EXCEPT !.frame = got.position] ELSE cursor
  /\ IF got.last THEN cb' = "finish" /\ UNCHANGED <<saw, got>> ELSE Rest
  /\ UNCHANGED <<active, ring, heard, deviceFailed, faults>> /\ Device

FinishLast ==
  /\ cb = "finish"
  /\ Finish(got.generation) /\ Rest
  /\ UNCHANGED <<cursor, ring, heard, deviceFailed, faults>> /\ Device

\* The error callback of the stream.
DeviceFails ==
  /\ cb # "closed" /\ Fault /\ deviceFailed' = TRUE
  /\ UNCHANGED <<active, cursor, ring, cb, saw, got, heard>> /\ Device

Callback ==
  \/ LoadActive \/ DrainStale \/ PopFrame \/ CommitFrame \/ FinishLast
  \/ DeviceFails
-----------------------------------------------------------------------------
(* The worker.                                                             *)

WorkerOnly == UNCHANGED <<offline, transportVars, turn, script, doing, to, keep, held, asked,
                          cancel, deviceVars, requests>>
KeepClock  == UNCHANGED clockVars
KeepExport == UNCHANGED <<ticket, pass, renderResult>>
NoJob      == job = <<>>

\* A change of the clock the worker has begun.
WorkerJob ==
  /\ job # <<>> /\ job' = Tail(job)
  /\ LET step == Head(job) IN
     /\ recovering' = (recovering \/ step = "recovering")
     /\ lastEpoch' = IF step \in {"recovering", "cursor"} THEN lastEpoch + 1 ELSE lastEpoch
     /\ wto' = IF Tail(job) = <<>> THEN NoMove ELSE Stamped(wto)
     /\ IF dsp.active   \* begin_recovery(generation)
        THEN /\ cursor' = IF step = "replace" /\ cursor.epoch = dsp.generation
                          THEN [cursor EXCEPT !.epoch = wto.generation] ELSE cursor
             /\ IF step = "halt" THEN Finish(dsp.generation) ELSE UNCHANGED active
             /\ ready' = IF step = "unready" /\ ready = dsp.generation THEN 0 ELSE ready
        ELSE TransitionStep(step, wto)
     /\ IF step = "tell"
        THEN /\ Post([type |-> "latency", of |-> dsp.revision])
             /\ dsp' = [dsp EXCEPT !.active = FALSE]
        ELSE UNCHANGED <<events, dsp>>
  /\ Works /\ UNCHANGED <<ring, commands, stage, length, response>> /\ KeepExport /\ WorkerOnly

\* A failure is told, and playback stops where it is.
Fails ==
  /\ Fault /\ Post([type |-> "failure", of |-> 0])
  /\ dsp' = [dsp EXCEPT !.active = FALSE]
  /\ wto' = [frame |-> cursor.frame, playing |-> FALSE, generation |-> 0]
  /\ job' = Transition
  /\ KeepClock

\* The same with Clock::finish.
FailsFinished ==
  /\ Fault /\ Post([type |-> "failure", of |-> 0])
  /\ dsp' = [dsp EXCEPT !.active = FALSE]
  /\ Finish(dsp.generation)
  /\ UNCHANGED <<cursor, ready, lastEpoch, recovering, wto, job>>

\* An answer nobody waits for any more is lost.
Answer(command, r) ==
  response' = IF command.of = asked /\ script # <<>> /\ Head(script) = "await" THEN r ELSE response

Top ==
  /\ stage = "top" /\ stage' = IF cancel THEN "ended" ELSE "drain"
  /\ Works /\ KeepClock
  /\ UNCHANGED <<queueVars, job, dsp, wto, length, response>> /\ KeepExport /\ WorkerOnly

\* for command in commands.try_iter()
Take(type) == stage = "drain" /\ commands # <<>> /\ Head(commands).type = type
              /\ commands' = Tail(commands)
Handled == UNCHANGED <<ring, length>> /\ KeepExport /\ WorkerOnly
Quietly == Works /\ KeepClock /\ UNCHANGED <<events, job, wto>>

TakePlay ==
  /\ Take("play")
  /\ LET c == Head(commands) IN
     dsp' = [dsp EXCEPT !.active = TRUE, !.looping = c.looping, !.generation = c.generation,
                        !.position = c.frame, !.cut = FALSE]
  /\ Quietly /\ UNCHANGED <<stage, response>> /\ Handled

TakeSeek ==
  /\ Take("seek")
  /\ LET c == Head(commands) IN
     dsp' = [dsp EXCEPT !.active = (active # 0), !.generation = c.generation,
                         !.position = c.frame, !.cut = FALSE]
  /\ Quietly /\ UNCHANGED <<stage, response>> /\ Handled

TakePause ==
  /\ Take("pause")
  /\ dsp' = [dsp EXCEPT !.active = FALSE]
  /\ Quietly /\ UNCHANGED <<stage, response>> /\ Handled

\* Params flushes and tries again; that may fail as well.
TakeParam ==
  /\ Take("param")
  /\ (Quietly /\ UNCHANGED dsp) \/ Fails
  /\ UNCHANGED <<stage, response>> /\ Handled

TakeMix ==
  /\ Take("mix")
  /\ \/ /\ length' = Head(commands).frame /\ Answer(Head(commands), "ok")
        /\ Quietly /\ UNCHANGED dsp
     \/ FailsFinished /\ Answer(Head(commands), "error") /\ UNCHANGED length
  /\ UNCHANGED <<stage, ring>> /\ KeepExport /\ WorkerOnly

TakeMonitor ==
  /\ Take("monitor")
  /\ \/ Answer(Head(commands), "ok") /\ Works
     \/ Answer(Head(commands), "error") /\ Fault
  /\ KeepClock /\ UNCHANGED <<events, job, wto, stage, dsp>> /\ Handled

TakeBarrier ==
  /\ Take("barrier")
  /\ dsp' = [dsp EXCEPT !.hold = Head(commands).of]
  /\ \/ Answer(Head(commands), "ok") /\ Works
     \/ Answer(Head(commands), "error") /\ Fault
  /\ KeepClock /\ UNCHANGED <<events, job, wto, stage>> /\ Handled

TakeRenegotiate ==
  /\ Take("renegotiate")
  /\ \/ /\ dsp' = [dsp EXCEPT !.active = FALSE, !.hold = 0, !.revision = @ + 1]
        /\ Answer(Head(commands), "ok") /\ Works
     \/ /\ dsp' = [dsp EXCEPT !.active = FALSE, !.hold = 0]
        /\ Answer(Head(commands), "error") /\ Fault
  /\ KeepClock /\ UNCHANGED <<events, job, wto, stage>> /\ Handled

TakeRender ==
  /\ Take("render")
  /\ dsp' = [dsp EXCEPT !.active = FALSE]
  /\ stage' = "asking" /\ pass' = 0 /\ UNCHANGED <<ticket, renderResult>>
  /\ Post([type |-> "progress", of |-> 0])
  /\ Works /\ KeepClock /\ UNCHANGED <<job, wto, response, ring, length>> /\ WorkerOnly

\* A capture that still owns its pause stops the worker here.
Open == dsp.active /\ Len(ring) < RingSize /\ ~(dsp.hold # 0 /\ dsp.hold = held)

Gate ==
  /\ stage = "drain" /\ commands = <<>>
  /\ IF ~Open
     THEN stage' = "top" /\ UNCHANGED <<dsp, active>>
     ELSE IF dsp.position < length
     THEN stage' = "rendering" /\ UNCHANGED <<dsp, active>>
     ELSE IF dsp.looping
     THEN stage' = "rendering" /\ dsp' = [dsp EXCEPT !.position = 0] /\ UNCHANGED active
     ELSE /\ stage' = "top" /\ dsp' = [dsp EXCEPT !.active = FALSE, !.cut = TRUE]
          /\ Finish(dsp.generation)
  /\ Works /\ UNCHANGED <<cursor, ready, lastEpoch, recovering, queueVars, job, wto, length,
                           response>>
  /\ KeepExport /\ WorkerOnly

\* Graph::render returns no block.
NotRendered ==
  /\ stage = "rendering"
  /\ \/ stage' = "top" /\ Quietly /\ UNCHANGED dsp   \* not decoded yet
     \/ stage' = "top" /\ FailsFinished              \* for 30 s
     \/ stage' = "top" /\ Fails
     \/ /\ stage' = "top" /\ Fault /\ job' = Recovery
        /\ KeepClock /\ UNCHANGED <<events, dsp, wto>>
  /\ UNCHANGED <<ring, commands, length, response>> /\ KeepExport /\ WorkerOnly

\* The end may have been moved behind the block that has been rendered.
AtEnd == ~dsp.looping /\ dsp.position >= length

\* A block, which is pushed.
Push ==
  /\ stage = "rendering"
  /\ LET next == dsp.position + 1 IN
     /\ dsp' = [dsp EXCEPT !.position = next]
     /\ ring' = Append(ring, [position |-> next, generation |-> dsp.generation,
                              last |-> ~dsp.looping /\ next >= length])
  /\ stage' = "prefill"
  /\ Quietly /\ UNCHANGED <<commands, length, response>> /\ KeepExport /\ WorkerOnly

\* The callback owns the completion: the worker only stops.
Prefilled ==
  /\ stage = "prefill"
  /\ ready' = IF Len(ring) >= Prefill \/ AtEnd THEN dsp.generation ELSE ready
  /\ dsp' = [dsp EXCEPT !.active = ~AtEnd]
  /\ stage' = "top"
  /\ Works /\ UNCHANGED <<active, cursor, lastEpoch, recovering, queueVars, job, wto, length,
                           response>>
  /\ KeepExport /\ WorkerOnly
-----------------------------------------------------------------------------
(* The worker exports: render_file_with_progress.                          *)

Export == KeepClock /\ UNCHANGED <<ring, commands, job, dsp, wto, length, response>> /\ WorkerOnly
Deliver(r) == stage' = "deliver" /\ renderResult' = r

\* refresh_render_timing, which asks the control thread.
AskTiming ==
  /\ stage = "asking"
  /\ IF ~cancel /\ Len(events) < EventSize
     THEN /\ ticket' = [id |-> ticket.id + 1, state |-> "queued"]
          /\ Post([type |-> "timing", of |-> ticket.id + 1])
          /\ stage' = "awaiting" /\ UNCHANGED renderResult
     ELSE Deliver("error") /\ UNCHANGED <<ticket, events>>
  /\ Works /\ UNCHANGED pass /\ Export

TimingAnswered ==
  /\ stage = "awaiting" /\ ticket.state \in {"done", "failed"}
  /\ ticket' = [ticket EXCEPT !.state = "void"]
  /\ IF ticket.state = "done" /\ ~cancel
     THEN stage' = (IF pass = 0 THEN "probing" ELSE "writing") /\ UNCHANGED renderResult
     ELSE Deliver("error")
  /\ Works /\ UNCHANGED <<pass, events>> /\ Export

\* Cancelled, or too late.
GiveUp ==
  /\ stage = "awaiting"
  /\ stage' = "locking"
  /\ Works /\ UNCHANGED <<ticket, pass, renderResult, events>> /\ Export

\* A slip: the worker does not wait for the lock of the ticket.
LeaveAtOnce ==
  /\ stage = "locking"
  /\ ticket' = [ticket EXCEPT !.state = "void"] /\ Deliver("error")
  /\ Works /\ UNCHANGED <<pass, events>> /\ Export

\* The ticket is invalidated under its lock: who serves it is waited for.
Invalidate ==
  /\ stage = "locking" /\ ticket.state # "serving"
  /\ ticket' = [ticket EXCEPT !.state = "void"] /\ Deliver("error")
  /\ Works /\ UNCHANGED <<pass, events>> /\ Export

\* Trial blocks; a plugin whose latency changes is asked again.
ProbeLatency ==
  /\ stage = "probing"
  /\ \/ ~cancel /\ stage' = "asking" /\ pass' = 1 /\ Works /\ UNCHANGED renderResult
     \/ stage' = "asking" /\ Fault /\ UNCHANGED <<pass, renderResult>>
     \/ Deliver("error") /\ UNCHANGED pass /\ (Fault \/ (cancel /\ Works))
  /\ UNCHANGED <<ticket, events>> /\ Export

\* A block is written to the file; progress is told if there is room.
WriteBlock ==
  /\ stage = "writing"
  /\ \/ /\ ~cancel /\ Works
        /\ Post([type |-> "progress", of |-> pass])
        /\ IF pass <= length THEN pass' = pass + 1 /\ UNCHANGED <<stage, renderResult>>
                             ELSE Deliver("ok") /\ UNCHANGED pass
     \/ Deliver("error") /\ UNCHANGED <<pass, events>> /\ (Fault \/ (cancel /\ Works))
  /\ UNCHANGED ticket /\ Export

\* A slip: the result is given up if there is no room for it.
DeliverOnce ==
  /\ stage = "deliver"
  /\ Post([type |-> "render", of |-> IF renderResult = "ok" THEN 1 ELSE 0])
  /\ stage' = "drain" /\ renderResult' = "none"
  /\ Works /\ UNCHANGED <<ticket, pass>> /\ Export

\* deliver_render_result
DeliverResult ==
  /\ stage = "deliver"
  /\ Len(events) < EventSize \/ cancel
  /\ Post([type |-> "render", of |-> IF renderResult = "ok" THEN 1 ELSE 0])
  /\ stage' = "drain" /\ renderResult' = "none"
  /\ Works /\ UNCHANGED <<ticket, pass>> /\ Export

WorkerStep ==
  \/ WorkerJob
  \/ /\ NoJob
     /\ \/ Top \/ TakePlay \/ TakeSeek \/ TakePause \/ TakeParam \/ TakeMix
        \/ TakeMonitor \/ TakeBarrier \/ TakeRenegotiate \/ TakeRender \/ Gate \/ NotRendered
        \/ Push \/ Prefilled
        \/ AskTiming \/ TimingAnswered \/ GiveUp \/ Invalidate \/ ProbeLatency \/ WriteBlock
        \/ DeliverResult
-----------------------------------------------------------------------------
(* The control thread.                                                     *)

Control       == UNCHANGED <<offline, stage, job, dsp, wto, pass, renderResult, length, saw, got,
                           heard>>
KeepTransport == UNCHANGED transportVars
KeepHold      == UNCHANGED <<held, asked, response>>
KeepDevice    == UNCHANGED <<deviceFailed, cb>>
KeepPlace     == UNCHANGED <<turn, keep, requests, deviceFailed, cb, cancel>>

Idle(place) == turn = place /\ script = <<>>
Message     == Idle("events") /\ events = <<>> /\ turn' = "idle"

\* playback_intent
Intent == IF recovering THEN transport ELSE active # 0

Capture == <<"barrier", "await", "sdk", "release">>
FailScript == <<"fail">> \o Transition \o <<"failed">>
CloseScript == <<"stop", "silence", "cancel", "join">>
RecoverScript ==
  Transition \o <<"pause">> \o Capture \o Capture \o <<"renegotiate", "await", "resume">>

\* A command is queued, or there is no room (Session::send).
Room == Len(commands) < QueueSize
Enqueue(command) == commands' = Append(commands, command)
AudioCommand(type, frame, gen) ==
  [type |-> type, frame |-> frame, generation |-> gen, looping |-> looping, of |-> 0]

\* What is left to do when something has failed: the pause is dropped, and some
\* operations end the playback (fail).
OnError ==
  LET undo == IF held # 0 THEN <<"release">> ELSE <<>> IN
  script' = CASE doing \in {"play", "seek", "edit", "close", "recover"} -> undo \o FailScript
              [] doing \in {"mix", "monitor"} -> FailScript \o undo
              [] doing = "service" -> <<"refused">>
              [] OTHER          -> undo

\* host_tick begins with idle(), unless the session renders.
Tick ==
  /\ Idle("idle") /\ turn' = "events"
  /\ IF deviceFailed /\ ~rendering
     THEN /\ deviceFailed' = FALSE
          /\ IF Room THEN Enqueue(AudioCommand("pause", 0, 0)) ELSE UNCHANGED commands
          /\ script' = FailScript /\ doing' = "device"
     ELSE UNCHANGED <<deviceFailed, commands, script, doing>>
  /\ Works /\ KeepClock /\ KeepTransport /\ KeepHold
  /\ UNCHANGED <<ring, events, to, keep, ticket, requests, cancel, cb>> /\ Control

\* recover_latency
Recover(failedRevision) ==
  IF failedRevision < revision
  THEN UNCHANGED <<script, doing, to, keep, transportVars>>
  ELSE IF error \/ recovered
  THEN script' = FailScript /\ doing' = "device" /\ UNCHANGED <<to, keep, transportVars>>
  ELSE /\ script' = RecoverScript /\ doing' = "recover"
       /\ keep' = [resume |-> Intent, frame |-> cursor.frame]
       /\ to' = [frame |-> cursor.frame, playing |-> FALSE, generation |-> 0]
       /\ recovered' = TRUE /\ transport' = FALSE
       /\ UNCHANGED <<looping, error, revision, rendering>>

\* TimingRequest::service takes the lock of the ticket.
Serve(id) ==
  /\ IF ticket # [id |-> id, state |-> "queued"]
     THEN UNCHANGED <<ticket, script, doing>>
     ELSE \/ ticket' = [ticket EXCEPT !.state = "serving"]
             /\ script' = <<"sdk", "served">> /\ doing' = "service"
          \/ ticket' = [ticket EXCEPT !.state = "failed"] /\ UNCHANGED <<script, doing>>
  /\ UNCHANGED <<to, keep, transportVars>>

\* An export that has ended; the session of a copy ends with it.
Exported ==
  /\ rendering' = FALSE
  /\ script' \in {<<>>, CloseScript} /\ doing' = "export"
  /\ UNCHANGED <<to, keep, transport, looping, error, revision, recovered>>

HandleEvent ==
  /\ Idle("events") /\ events # <<>>
  /\ events' = Tail(events)
  /\ LET e == Head(events) IN
     \/ /\ e.type = "failure" /\ script' = FailScript /\ doing' = "device"
        /\ UNCHANGED <<to, keep, transportVars, ticket>>
     \/ e.type = "latency" /\ Recover(e.of) /\ UNCHANGED ticket
     \/ e.type = "timing" /\ Serve(e.of)
     \/ e.type = "progress" /\ UNCHANGED <<script, doing, to, keep, transportVars, ticket>>
     \/ e.type = "render" /\ Exported /\ UNCHANGED ticket
  /\ Works /\ KeepClock /\ KeepHold
  /\ UNCHANGED <<ring, commands, turn, requests, cancel>> /\ KeepDevice /\ Control

\* Nothing arrives for 8 ms.
NoMessage ==
  /\ Message
  /\ Works /\ KeepClock /\ KeepTransport /\ KeepHold
  /\ UNCHANGED <<queueVars, script, doing, to, keep, ticket, requests, cancel>>
  /\ KeepDevice /\ Control
-----------------------------------------------------------------------------
(* Requests.                                                               *)

Request(name, steps) ==
  /\ requests < MaxRequests /\ requests' = requests + 1
  /\ doing' = name /\ script' = steps
  /\ Works /\ KeepClock /\ KeepHold
  /\ UNCHANGED <<queueVars, keep, ticket, cancel>> /\ UNCHANGED deviceFailed
  /\ cb' = IF name = "play" /\ cb = "closed" THEN "idle" ELSE cb
  /\ Control

MovesTo(frame, playing) == to' = [frame |-> frame, playing |-> playing, generation |-> 0]
Frames == {frame \in Starts : frame <= length}

AskPlay == \E frame \in Frames, repeat \in Loops :
  /\ Message /\ ~rendering /\ ~offline /\ ~error
  /\ looping' = repeat /\ transport' = TRUE
  /\ MovesTo(frame, TRUE)
  /\ UNCHANGED <<error, revision, recovered, rendering>>
  /\ Request("play", Transition \o <<"play">>)

AskSeek == \E frame \in Frames :
  /\ Message /\ ~rendering
  /\ transport' = Intent /\ MovesTo(frame, Intent)
  /\ UNCHANGED <<looping, error, revision, recovered, rendering>>
  /\ Request("seek", Transition \o <<"seek">>)

AskPause ==
  /\ Message /\ ~rendering
  /\ transport' = FALSE /\ MovesTo(cursor.frame, FALSE)
  /\ UNCHANGED <<looping, error, revision, recovered, rendering>>
  /\ Request("pause", Transition \o <<"pause">>)

AskParam ==
  /\ Message /\ ~rendering
  /\ UNCHANGED <<to, transportVars>>
  /\ Request("param", <<"param">>)

AskSnapshot ==
  /\ Message /\ ~rendering
  /\ UNCHANGED <<to, transportVars>>
  /\ Request("snapshot", Capture)

\* update_mix; the latency of the limiter may change.
AskMix == \E steps \in {<<"mix", "await">>, <<"barrier", "await", "mix", "await", "move">>} :
  /\ Message /\ ~rendering /\ ~error /\ ~recovering
  /\ UNCHANGED <<to, transportVars>>
  /\ Request("update", steps)

\* monitor, which mutes tracks while something is recorded
AskMonitor ==
  /\ Message /\ ~rendering
  /\ UNCHANGED <<to, transportVars>>
  /\ Request("watch", <<"monitor", "await">>)

\* start_render, of an offline session
AskRender ==
  /\ Message /\ ~rendering /\ offline
  /\ transport' = FALSE /\ MovesTo(cursor.frame, FALSE)
  /\ UNCHANGED <<looping, error, revision, recovered, rendering>>
  /\ Request("render", Transition \o <<"pause", "render">>)

\* unload, a new load, or the end of the host: Session::drop
AskClose ==
  /\ Message /\ UNCHANGED <<to, transportVars>>
  /\ Request("unload", CloseScript)

\* idle() finds that something has been edited, or that the editor of an
\* Audio Unit has been closed.
EditorUsed ==
  /\ Idle("idle") /\ turn' = "events" /\ ~rendering /\ ~deviceFailed
  /\ UNCHANGED <<to, transportVars>>
  /\ Request("edit", <<"param">>) \/ Request("close", Capture)

User ==
  \/ AskPlay \/ AskSeek \/ AskPause \/ AskParam \/ AskSnapshot \/ AskMix \/ AskMonitor \/ AskRender
  \/ AskClose \/ EditorUsed
-----------------------------------------------------------------------------
(* The steps of the control thread.                                        *)

AtStep(step) == script # <<>> /\ Head(script) = step
Proceed  == script' = Tail(script)

ControlClock ==
  /\ \E step \in {"cursor", "unready", "active"} :
       /\ AtStep(step) /\ Proceed
       /\ lastEpoch' = IF step = "cursor" THEN lastEpoch + 1 ELSE lastEpoch
       /\ to' = Stamped(to)
       /\ TransitionStep(step, to)
  /\ Works /\ UNCHANGED <<recovering, queueVars, doing, ticket>>
  /\ KeepTransport /\ KeepHold /\ KeepPlace /\ Control

\* Commands without an answer.
SendCommand ==
  /\ \E type \in {"play", "seek", "pause", "param", "render"} :
       /\ AtStep(type)
       /\ IF Room
          THEN /\ Enqueue(AudioCommand(type, to.frame, to.generation)) /\ Proceed
               /\ rendering' = (rendering \/ type = "render")
               /\ recovered' = (recovered /\ type # "param")
          ELSE OnError /\ UNCHANGED <<commands, rendering, recovered>>
  /\ Works /\ KeepClock /\ UNCHANGED <<transport, looping, error, revision>>
  /\ UNCHANGED <<ring, events, doing, to, ticket>> /\ KeepHold /\ KeepPlace /\ Control

\* Commands with an answer, each on a channel of its own.
SendQuestion ==
  /\ \E type \in {"barrier", "mix", "monitor", "renegotiate"}, n \in Lengths :
       /\ AtStep(type) /\ (type # "mix" => n = Longest)
       /\ IF Room
          THEN /\ asked' = asked + 1 /\ response' = "none" /\ Proceed
               /\ Enqueue([AudioCommand(type, n, 0) EXCEPT !.of = asked + 1])
               /\ held' = IF type = "barrier" THEN asked + 1 ELSE held
               /\ doing' = IF type \in {"mix", "monitor"} THEN type ELSE doing
          ELSE OnError /\ UNCHANGED <<asked, response, commands, held, doing>>
  /\ Works /\ KeepClock /\ KeepTransport
  /\ UNCHANGED <<ring, events, to, ticket>> /\ KeepPlace /\ Control

\* The answer, or 5 s without it.
Await ==
  /\ AtStep("await") /\ response' = "none"
  /\ \/ response = "ok" /\ Proceed /\ recovered' \in {recovered, recovered /\ doing # "mix"}
     \/ OnError /\ UNCHANGED recovered
  /\ Works /\ KeepClock /\ UNCHANGED <<transport, looping, error, revision, rendering, held, asked>>
  /\ UNCHANGED <<queueVars, doing, to, ticket>> /\ KeepPlace /\ Control

\* The control thread calls the plugins: state, timing, views.
Sdk ==
  /\ AtStep("sdk")
  /\ (Proceed /\ Works) \/ (OnError /\ Fault)
  /\ KeepClock /\ KeepTransport /\ KeepHold
  /\ UNCHANGED <<queueVars, doing, to, ticket>> /\ KeepPlace /\ Control

\* The ticket is answered and its lock released.
Served ==
  /\ AtStep("served") \/ AtStep("refused")
  /\ Proceed
  /\ ticket' = [ticket EXCEPT !.state = IF AtStep("served") THEN "done" ELSE "failed"]
  /\ Works /\ KeepClock /\ KeepTransport /\ KeepHold
  /\ UNCHANGED <<queueVars, doing, to>> /\ KeepPlace /\ Control

\* Drop of SnapshotPause
DropPause ==
  /\ AtStep("release") /\ Proceed /\ held' = 0
  /\ Works /\ KeepClock /\ KeepTransport
  /\ UNCHANGED <<queueVars, doing, to, ticket, asked, response>> /\ KeepPlace /\ Control

\* update_mix: playback goes on from the same place with the new latency.
MoveOn ==
  /\ AtStep("move")
  /\ script' = Transition \o <<"seek", "release">>
  /\ transport' = Intent
  /\ MovesTo(IF cursor.frame < length THEN cursor.frame ELSE length, Intent)
  /\ Works /\ KeepClock /\ UNCHANGED <<looping, error, revision, recovered, rendering>>
  /\ UNCHANGED <<queueVars, doing, ticket>> /\ KeepHold /\ KeepPlace /\ Control

\* The end of recover_latency.
Resume ==
  /\ AtStep("resume")
  /\ recovering' = FALSE /\ revision' = dsp.revision
  /\ LET playing == keep.resume \/ active # 0 IN
     transport' = playing /\ MovesTo(keep.frame, playing)
  /\ script' = Transition \o (IF keep.resume THEN <<"play">> ELSE <<"seek">>)
  /\ Works /\ UNCHANGED <<active, cursor, ready, lastEpoch>>
  /\ UNCHANGED <<looping, error, recovered, rendering, queueVars, doing, ticket>>
  /\ KeepHold /\ KeepPlace /\ Control

\* Session::fail
FailSession ==
  /\ AtStep("fail") /\ Proceed
  /\ transport' = FALSE /\ recovering' = FALSE
  /\ MovesTo(cursor.frame, FALSE)
  /\ Works /\ UNCHANGED <<active, cursor, ready, lastEpoch>>
  /\ UNCHANGED <<looping, error, revision, recovered, rendering, queueVars, doing, ticket>>
  /\ KeepHold /\ KeepPlace /\ Control

Failed ==
  /\ AtStep("failed") /\ Proceed /\ error' = TRUE
  /\ Works /\ KeepClock /\ UNCHANGED <<transport, looping, revision, recovered, rendering>>
  /\ UNCHANGED <<queueVars, doing, to, ticket>> /\ KeepHold /\ KeepPlace /\ Control

\* Session::drop: the clock, the device, the worker.
Drop ==
  /\ \/ AtStep("stop") /\ active' = 0 /\ UNCHANGED <<cb, cancel>>
     \/ AtStep("silence") /\ cb' = "closed" /\ UNCHANGED <<active, cancel>>
     \/ AtStep("cancel") /\ cancel' = TRUE /\ UNCHANGED <<active, cb>>
     \/ AtStep("join") /\ stage = "ended" /\ UNCHANGED <<active, cb, cancel>>
  /\ Proceed
  /\ turn' = IF AtStep("join") THEN "closed" ELSE turn
  /\ Works /\ UNCHANGED <<cursor, ready, lastEpoch, recovering, queueVars, doing, to, ticket, keep>>
  /\ UNCHANGED <<offline, workerVars, saw, got, heard, requests>>
  /\ UNCHANGED deviceFailed /\ KeepTransport /\ KeepHold

ControlStep ==
  \/ Tick \/ HandleEvent \/ NoMessage
  \/ ControlClock \/ SendCommand \/ SendQuestion \/ Await \/ Sdk \/ Served \/ DropPause \/ MoveOn
  \/ Resume \/ FailSession \/ Failed \/ Drop

Next == Callback \/ WorkerStep \/ ControlStep \/ User

\* Both threads run; the device and the user need not do anything.
Fairness == WF_vars(ControlStep) /\ WF_vars(WorkerStep)

Spec == Init /\ [][Next]_vars /\ Fairness
-----------------------------------------------------------------------------
(* What the engine promises.                                               *)

\* The types of the variables.
TypeOK ==
  /\ {active, ready, lastEpoch, held, asked, revision, saw, pass, requests, faults} \subseteq Nat
  /\ cursor \in [epoch : Nat, frame : Nat]
  /\ {got} \cup {ring[i] : i \in DOMAIN ring}
       \subseteq [position : Nat, generation : Nat, last : BOOLEAN]
  /\ Len(ring) <= RingSize /\ Len(commands) <= QueueSize /\ Len(events) <= EventSize
  /\ {recovering, offline, transport, looping, error, recovered, rendering, cancel, deviceFailed}
       \subseteq BOOLEAN
  /\ {to, wto} \subseteq [frame : Nat, playing : BOOLEAN, generation : Nat]
  /\ keep \in [resume : BOOLEAN, frame : Nat] /\ length \in Lengths
  /\ dsp \in [active : BOOLEAN, looping : BOOLEAN, generation : Nat, position : Nat,
              hold : Nat, revision : Nat, cut : BOOLEAN]
  /\ ticket \in [id : Nat, state : {"void", "queued", "serving", "done", "failed"}]
  /\ response \in {"none", "ok", "error"} /\ renderResult \in {"none", "ok", "error"}
  /\ turn \in {"idle", "events", "closed"}
  /\ stage \in {"top", "drain", "rendering", "prefill", "asking", "awaiting", "locking", "probing",
                "writing", "deliver", "ended"}
  /\ cb \in {"closed", "idle", "drain", "pop", "commit", "finish"}
  /\ heard \in [epoch : Nat, first : Nat, last : Nat, missed : BOOLEAN]

Settled == script = <<>> /\ turn # "closed"
Failing == \/ error
           \/ job # <<>>
           \/ \E i \in 1..Len(events) : events[i].type = "failure"

\* Playback that nobody stopped and that has not failed ends when the last block
\* the worker has rendered for it has been heard, and then every block from its
\* start has been: no old completion and no old recovery stops a newer playback
\* (output.rs:52-87, engine.rs:1103-1114, :1182).  Excepted are a project that
\* was made shorter than that, and blocks the callback took for old ones,
\* because it had read the epoch before the playback began (output.rs:107-110).
AllHeard ==
  Settled /\ to.playing /\ active = 0 /\ ~Failing /\ ~recovering =>
    /\ dsp.generation = to.generation /\ (dsp.active => stage = "prefill" /\ AtEnd)
    /\ \/ /\ cursor.frame = dsp.position /\ heard.epoch = to.generation
          /\ heard.missed \/ (heard.first = to.frame + 1 /\ heard.last = dsp.position)
       \/ dsp.cut

\* Until it fails, the position a session reports is where the last explicit
\* control has put it, or what has been heard since; a frame of an earlier
\* epoch never moves it (output.rs:57-86, engine.rs:708-712).
CursorIsAsked ==
  Settled /\ ~Failing /\ ~looping =>
    IF to.playing /\ dsp.generation = to.generation
    THEN to.frame <= cursor.frame /\ cursor.frame <= dsp.position
    ELSE cursor.frame = to.frame

\* While the control thread calls a plugin for its state, its timing or its
\* view, the worker does not render and has no command to carry out, whatever
\* has timed out or been cancelled (engine.rs:28-30, :32-34, :98-100).
SdkExclusive ==
  AtStep("sdk") => commands = <<>> /\ stage \in {"top", "drain", "awaiting", "locking"}

\* What a session has begun it ends: a recovery is carried out or given up, an
\* export that has been accepted is answered although the queue of events may be
\* full, and a session that is dropped ends with its worker (engine.rs:683-747,
\* :958-969, :776-784).
BegunEnds ==
  /\ recovering ~> (~recovering \/ cancel)
  /\ rendering ~> (~rendering \/ cancel)
  /\ cancel ~> turn = "closed"
=============================================================================
