--------------------------- MODULE PluginHostProofs ---------------------------
(***************************************************************************)
(* Proofs about the two hosts of plugins.                                  *)
(*                                                                         *)
(* The plugin host, for any windows, loads, dialogs, deaths, packages and  *)
(* scans: type correctness, that the shutdown reaches every helper, that a *)
(* recovery takes no session, that polls are true, that a restore wins     *)
(* over a running scan, and that a commit loses no plugin.                 *)
(*                                                                         *)
(* The session and the scan share no state, so each has an invariant of    *)
(* its own.  A step of a thread of the session is first shown to be of one *)
(* of ten kinds (ThreadCases), each given by what it does to the session,  *)
(* the lease, the helpers and the request; the kinds keep the invariant.   *)
(* The invariant says who has the mutex and what is his (HolderInv,        *)
(* OwnerInv), which helpers may live (LeaseInv, AliveInv), and which load  *)
(* is the latest (NumberInv, FenceInv).  That of the scan says what the    *)
(* worker has read and found (ReadInv, SeenInv, OldInv) against what the   *)
(* user has skipped and restored meanwhile.                                *)
(*                                                                         *)
(* The audio engine, for any sizes of its queues and of the ring, any      *)
(* requests and faults: type correctness, and that the control thread      *)
(* calls no plugin while the worker renders.  It comes last, with an       *)
(* invariant of its own (AudioInv).                                        *)
(***************************************************************************)
EXTENDS PluginHost, AudioEngine, SequenceTheorems, TLAPS

-----------------------------------------------------------------------------
(* The inductive invariant of the session.                                 *)

Generation == 0..(MaxLoads + 1)
Sessions == [gen : 0..MaxLoads, project : Window \cup {NoWindow},
             native : Host \cup {NoHost}, process : Host \cup {NoHost},
             pending : Work, closed : BOOLEAN]
Leases == [cancelled : BOOLEAN, process : Host \cup {NoHost}]
Hosts == [Host -> [alive : BOOLEAN, work : Work, reply : {"none", "ok", "error", "bad"},
                   dialog : BOOLEAN]]
Requests == [Window -> [phase : Phase, op : Operation, gen : Generation, fenced : BOOLEAN]]
Loadeds == [Window -> [native : Host \cup {NoHost}, unavailable : BOOLEAN, waiting : BOOLEAN]]
Fences == [Window -> {NoFence} \cup Generation]

\* The thread that has the mutex, and what it may be doing.
HolderInv ==
  \A w \in Window :
    /\ request[w].phase \in Holding <=> holder = w
    /\ request[w].phase \in Holding => Op(w) \notin Discarding
    /\ request[w].phase \in {"settling", "prepared", "spawned"} => Op(w) = "load"

\* A load has a number of its own, and only a load is fenced; the others are
\* asked by a window that has a session.
RequestInv ==
  \A w \in Window :
    /\ Op(w) = "load" => request[w].gen \in Host
    /\ request[w].fenced => Op(w) = "load"
    /\ At(w, "idle") => Op(w) = "status" /\ ~request[w].fenced
    /\ Op(w) # "load" /\ ~At(w, "idle") => loaded[w].native # NoHost

\* What the mutex guards belongs to the window whose helper is at work.
OwnerInv ==
  /\ session.project = NoWindow <=> session.process = NoHost
  /\ session.pending # NoWork => session.process # NoHost
  /\ \A w \in Window :
       /\ request[w].phase \in {"prepared", "spawned"} => session.process = NoHost
       /\ request[w].phase \in {"sending", "waiting"} => session.project = w
       /\ At(w, "waiting") => session.pending = Op(w)

\* The lease knows the helper of the session until the application ends, and
\* refuses one that is being started by then.
Ending == shut \in {"cancelled", "done"}
LeaseInv ==
  /\ stopping <=> shut # "no"
  /\ lease.process = IF Ending THEN NoHost ELSE session.process
  /\ Ending => \A w \in Window : At(w, "spawned") => lease.cancelled

AliveInv ==
  \A h \in Host : host[h].alive =>
    \/ h = session.process /\ ~Ending
    \/ shut # "done" /\ \E w \in Window : At(w, "spawned") /\ request[w].gen = h

\* Numbers grow, and no two loads have the same.
NumberInv ==
  /\ session.gen <= generation
  /\ shut \in {"no", "stopping"} => generation <= MaxLoads
  /\ \A w \in Window : request[w].gen <= generation /\ fence[w] <= generation
  /\ \A v, w \in Window :
       Op(v) = "load" /\ Op(w) = "load" /\ request[v].gen = request[w].gen => v = w
  /\ \A w \in Window : Op(w) = "load" /\ At(w, "asked") => session.gen # request[w].gen

\* As long as nobody has loaded since a recovery, nobody else has the session
\* or will have it.
Undisturbed(w) ==
  \A v \in Window \ {w} :
    /\ session.project # v
    /\ Op(v) = "load" => At(v, "asked") /\ request[v].gen < generation
FenceInv ==
  \A w \in Window :
    fence[w] = generation \/ (request[w].fenced /\ request[w].gen = generation)
      => Undisturbed(w)

SessionInv ==
  /\ SessionTypeOK /\ HolderInv /\ RequestInv /\ OwnerInv /\ LeaseInv /\ AliveInv
  /\ NumberInv /\ FenceInv

-----------------------------------------------------------------------------
(* What the operators of the session do.                                   *)

\* The parts of the type invariant.
LEMMA SessionTypes ==
  SessionTypeOK <=>
    /\ generation \in Generation /\ stopping \in BOOLEAN
    /\ session \in Sessions /\ lease \in Leases /\ host \in Hosts
    /\ holder \in Window \cup {NoWindow}
    /\ request \in Requests /\ loaded \in Loadeds /\ fence \in Fences
    /\ shut \in {"no", "stopping", "superseding", "cancelled", "done"}
    /\ dialogs \in 0..MaxDialogs /\ deaths \in 0..MaxDeaths
BY DEF SessionTypeOK, Generation, Sessions, Leases, Hosts, Requests, Loadeds, Fences

\* The session is closed: its helper, if it has one, is dead.
Closes ==
  /\ session' \in Sessions /\ session'.gen = session.gen /\ session'.project = NoWindow
  /\ session'.process = NoHost /\ session'.pending = NoWork
  /\ lease' = [cancelled |-> FALSE, process |-> NoHost] /\ lease' \in Leases
  /\ host' \in Hosts
  /\ \A h \in Host : host'[h].alive => host[h].alive /\ h # session.process

\* What close_session does.
LEMMA CloseCloses ==
  ASSUME SessionTypeOK, CloseSession(session.gen)
  PROVE  Closes
<1>. USE DEF Sessions, Hosts
<1>0. session \in Sessions /\ host \in Hosts
  BY SessionTypes
<1>1. /\ session' \in Sessions /\ session'.gen = session.gen /\ session'.project = NoWindow
      /\ session'.process = NoHost /\ session'.pending = NoWork
  BY <1>0 DEF CloseSession, Closed, Work
<1>2. host' \in Hosts /\ \A h \in Host : host'[h].alive => host[h].alive /\ h # session.process
  <2>1. CASE session.process = NoHost
    BY <1>0, <2>1, SessionAssumption DEF CloseSession, NoHost, Host
  <2>2. CASE session.process # NoHost
    <3>1. session.process \in Host /\ host' = [host EXCEPT ![session.process] = DeadHost]
      BY <1>0, <2>2 DEF CloseSession
    <3>. QED
      BY <1>0, <3>1 DEF DeadHost, Work
  <2>. QED
    BY <2>1, <2>2
<1>3. lease' = [cancelled |-> FALSE, process |-> NoHost] /\ lease' \in Leases
  BY DEF CloseSession, Leases
<1>. QED
  BY <1>1, <1>2, <1>3 DEF Closes

\* The answer of the helper is taken.
Takes ==
  /\ session' \in Sessions /\ session'.gen = session.gen
  /\ session'.project = session.project /\ session'.process = session.process
  /\ session'.pending = NoWork
  /\ lease' = lease
  /\ host' \in Hosts /\ \A h \in Host : host'[h].alive = host[h].alive

\* What taking the answer of the helper does.
LEMMA TakeTakes ==
  ASSUME SessionTypeOK, session.process \in Host, NEW c \in BOOLEAN, TakeAnswer(c)
  PROVE  /\ Takes
         /\ host[session.process].reply = "ok" /\ session.pending # "unload"
              => session'.native = session.process
<1>. USE DEF Sessions, Hosts
<1>0. session \in Sessions /\ host \in Hosts
  BY SessionTypes
<1>1. /\ session' \in Sessions /\ session'.gen = session.gen
      /\ session'.project = session.project /\ session'.process = session.process
      /\ session'.pending = NoWork
      /\ host[session.process].reply = "ok" /\ session.pending # "unload"
              => session'.native = session.process
  BY <1>0 DEF TakeAnswer, Work
<1>2. host' \in Hosts /\ \A h \in Host : host'[h].alive = host[h].alive
  BY <1>0 DEF TakeAnswer, Work
<1>. QED
  BY <1>1, <1>2 DEF Takes, TakeAnswer

\* The request of w is over.
Ends(w) ==
  /\ request' = [request EXCEPT ![w] = NoRequest]
  /\ loaded' \in Loadeds /\ fence' \in Fences
  /\ \A v \in Window \ {w} : loaded'[v] = loaded[v] /\ fence'[v] = fence[v]
  /\ \/ fence'[w] = fence[w] \/ fence'[w] = NoFence
     \/ request[w].fenced /\ fence'[w] = request[w].gen

\* A request that is refused ends.
LEMMA RejectEnds ==
  ASSUME SessionTypeOK, NEW w \in Window, NEW dialog \in BOOLEAN, Reject(w, dialog)
  PROVE  /\ Ends(w)
         /\ Op(w) = "status" /\ loaded[w].native # NoHost =>
              loaded'[w].unavailable \/ loaded'[w].waiting
<1>. USE DEF Requests, Loadeds, Fences
<1>0. request \in Requests /\ loaded \in Loadeds /\ fence \in Fences
  BY SessionTypes
<1>1. request' = [request EXCEPT ![w] = NoRequest]
  BY DEF Reject
<1>2. /\ fence' \in Fences /\ \A v \in Window \ {w} : fence'[v] = fence[v]
      /\ fence'[w] = fence[w] \/ (request[w].fenced /\ fence'[w] = request[w].gen)
  BY <1>0 DEF Reject
<1>. DEFINE l == loaded[w]
            x == CASE l.native = NoHost -> l
                   [] l.native # NoHost /\ Op(w) = "load" -> [l EXCEPT !.unavailable = TRUE]
                   [] l.native # NoHost /\ Op(w) # "load" /\ dialog -> [l EXCEPT !.waiting = TRUE]
                   [] l.native # NoHost /\ Op(w) \in {"update", "status"} /\ ~dialog ->
                        [l EXCEPT !.waiting = FALSE, !.unavailable = l.unavailable \/ Op(w) = "status"]
                   [] OTHER -> l
<1>3. loaded' = [loaded EXCEPT ![w] = x]
  BY DEF Reject
<1>. DEFINE LoadedRec == [native : Host \cup {NoHost}, unavailable : BOOLEAN, waiting : BOOLEAN]
<1>4. l \in LoadedRec
  BY <1>0
<1>5. /\ x \in LoadedRec
      /\ Op(w) = "status" /\ l.native # NoHost => x.unavailable \/ x.waiting
  <2>. HIDE DEF l
  <2>1. CASE l.native = NoHost
    BY <1>4, <2>1
  <2>2. CASE l.native # NoHost /\ Op(w) = "load"
    BY <1>4, <2>2
  <2>3. CASE l.native # NoHost /\ Op(w) # "load" /\ dialog
    BY <1>4, <2>3
  <2>4. CASE l.native # NoHost /\ Op(w) \in {"update", "status"} /\ ~dialog
    <3>1. (l.unavailable \/ Op(w) = "status") \in BOOLEAN
      OBVIOUS
    <3>2. x = [l EXCEPT !.waiting = FALSE, !.unavailable = l.unavailable \/ Op(w) = "status"]
      BY <2>4
    <3>. QED
      BY <1>4, <2>4, <3>1, <3>2
  <2>5. CASE l.native # NoHost /\ Op(w) \notin {"load", "update", "status"} /\ ~dialog
    BY <1>4, <2>5
  <2>. QED
    BY <2>1, <2>2, <2>3, <2>4, <2>5
<1>. HIDE DEF x
<1>6. /\ loaded' \in Loadeds /\ loaded'[w] = x
      /\ \A v \in Window \ {w} : loaded'[v] = loaded[v]
  BY <1>0, <1>3, <1>5
<1>. QED
  BY <1>1, <1>2, <1>5, <1>6 DEF Ends

\* A request whose answer is accepted ends.
LEMMA AcceptEnds ==
  ASSUME SessionTypeOK, NEW w \in Window, NEW native \in Host \cup {NoHost}, Accept(w, native)
  PROVE  Ends(w) /\ (Op(w) = "status" => loaded'[w].native = native)
<1>. USE DEF Requests, Loadeds, Fences
<1>0. request \in Requests /\ loaded \in Loadeds /\ fence \in Fences
  BY SessionTypes
<1>1. request' = [request EXCEPT ![w] = NoRequest]
  BY DEF Accept
<1>2. /\ fence' \in Fences /\ \A v \in Window \ {w} : fence'[v] = fence[v]
      /\ fence'[w] = fence[w] \/ fence'[w] = NoFence
  BY <1>0 DEF Accept
<1>. DEFINE LoadedRec == [native : Host \cup {NoHost}, unavailable : BOOLEAN, waiting : BOOLEAN]
<1>4. \A v \in Window : loaded[v] \in LoadedRec
  BY <1>0
<1>5. CASE Op(w) \in {"load", "status"}
  <2>1. loaded' = [loaded EXCEPT ![w] = [Unloaded EXCEPT !.native = native]]
    BY <1>5 DEF Accept
  <2>2. [Unloaded EXCEPT !.native = native] \in LoadedRec /\ [Unloaded EXCEPT !.native = native].native = native
    BY DEF Unloaded
  <2>. QED
    BY <1>0, <1>1, <1>2, <2>1, <2>2 DEF Ends
<1>6. CASE Op(w) = "update"
  <2>1. loaded' = [loaded EXCEPT ![w] = [loaded[w] EXCEPT !.native = native, !.waiting = FALSE]]
    BY <1>6 DEF Accept
  <2>2. [loaded[w] EXCEPT !.native = native, !.waiting = FALSE] \in LoadedRec
    BY <1>4
  <2>. QED
    BY <1>0, <1>1, <1>2, <1>6, <2>1, <2>2 DEF Ends
<1>7. CASE Op(w) \notin {"load", "status", "update"}
  <2>1. loaded' = [loaded EXCEPT ![w] = Unloaded]
    BY <1>7 DEF Accept
  <2>2. Unloaded \in LoadedRec
    BY DEF Unloaded
  <2>. QED
    BY <1>0, <1>1, <1>2, <1>7, <2>1, <2>2 DEF Ends
<1>. QED
  BY <1>5, <1>6, <1>7

-----------------------------------------------------------------------------
(* A step of a thread is one of a few kinds.                               *)

\* What the thread of a window never touches.
Elsewhere == UNCHANGED <<generation, stopping, shut, dialogs, deaths>>

\* The request ends with an answer or an error, and the mutex is free if the
\* thread had it.
Over(w) ==
  /\ Ends(w) /\ Release(w) /\ Elsewhere /\ ~At(w, "spawned")
  /\ \/ KeepSession
     \/ request[w].phase \in Holding /\ Closes
     \/ request[w].phase \in Holding /\ session.process \in Host /\ Takes

\* A helper is not let into the session.
Refused(w) ==
  /\ Ends(w) /\ Release(w) /\ Elsewhere
  /\ At(w, "spawned") /\ ~(~lease.cancelled /\ lease.process = NoHost)
  /\ host' = [host EXCEPT ![request[w].gen] = DeadHost]
  /\ UNCHANGED <<session, lease>>

\* The window gives its session up.
GivesUp(w) ==
  /\ At(w, "asked") /\ Op(w) \in Discarding /\ Admitted(w)
  /\ \/ Owned(w) /\ Closes
     \/ ~Owned(w) /\ KeepSession
  /\ request' = [request EXCEPT ![w] = NoRequest]
  /\ loaded' \in Loadeds /\ \A v \in Window \ {w} : loaded'[v] = loaded[v]
  /\ fence' = IF Op(w) = "discard" /\ (Owned(w) \/ Absent(w))
              THEN [fence EXCEPT ![w] = request[w].gen] ELSE fence
  /\ holder' = holder

\* The thread goes on.
Moves(w, phase) ==
  /\ request' = [request EXCEPT ![w].phase = phase]
  /\ UNCHANGED <<loaded, fence>> /\ Elsewhere

\* The answer that was on its way is taken.
Settles(w) ==
  /\ At(w, "settling") \/ At(w, "sending")
  /\ session.process \in Host /\ Takes
  /\ UNCHANGED <<request, loaded, fence, holder>> /\ Elsewhere

\* The old session is closed.
Prepares(w) == At(w, "settling") /\ Moves(w, "prepared") /\ Closes /\ holder' = holder

\* The request is sent.
Sends(w) ==
  /\ At(w, "sending") /\ Moves(w, "waiting") /\ holder' = holder /\ session.pending = NoWork
  /\ session' = [session EXCEPT !.pending = Op(w)]
  /\ host' \in Hosts /\ \A h \in Host : host'[h].alive = host[h].alive
  /\ lease' = lease

\* The new helper is let into the session.
Published(w) ==
  /\ At(w, "spawned") /\ ~lease.cancelled /\ lease.process = NoHost
  /\ lease' = [lease EXCEPT !.process = request[w].gen]
  /\ session' = [session EXCEPT !.process = request[w].gen, !.project = w]
  /\ Moves(w, "sending") /\ UNCHANGED <<holder, host>>

\* A new helper is started.
Spawns(w) ==
  /\ At(w, "prepared") /\ Fresh(w)
  /\ host' = [host EXCEPT ![request[w].gen].alive = TRUE]
  /\ Moves(w, "spawned") /\ UNCHANGED <<session, lease, holder>>

\* The mutex is had, by a load or by another request.
EntersLoad(w) ==
  /\ At(w, "asked") /\ Op(w) = "load" /\ Admitted(w)
  /\ session' = [session EXCEPT !.gen = request[w].gen]
  /\ Moves(w, "settling") /\ holder' = w /\ UNCHANGED <<lease, host>>

EntersRequest(w) ==
  /\ At(w, "asked") /\ Op(w) \notin Discarding \cup {"load"} /\ Admitted(w) /\ Belongs(w)
  /\ Moves(w, "sending") /\ holder' = w /\ KeepSession

\* A request that fails ends.
LEMMA FailEnds ==
  ASSUME SessionTypeOK, NEW w \in Window, NEW dialog \in BOOLEAN, Fail(w, dialog)
  PROVE  Ends(w) /\ Release(w)
BY RejectEnds DEF Fail

\* A request that is answered ends.
LEMMA AnsweredEnds ==
  ASSUME SessionTypeOK, NEW w \in Window, NEW native \in Host \cup {NoHost}, Answered(w, native)
  PROVE  Ends(w) /\ Release(w)
BY RejectEnds, AcceptEnds DEF Answered

\* A step of a thread is of one of ten kinds.
LEMMA ThreadCases ==
  ASSUME SessionTypeOK, HolderInv, RequestInv, OwnerInv, NEW w \in Window, Thread(w)
  PROVE  \/ Over(w) \/ Refused(w) \/ GivesUp(w) \/ Settles(w) \/ Prepares(w) \/ Sends(w)
         \/ Published(w) \/ Spawns(w) \/ EntersLoad(w) \/ EntersRequest(w)
<1>0. /\ session \in Sessions /\ host \in Hosts /\ request \in Requests /\ loaded \in Loadeds
      /\ fence \in Fences
  BY SessionTypes
<1>1. CASE Superseded(w)
  BY <1>1, FailEnds DEF Superseded, Over, Elsewhere, At
<1>2. CASE EnterDiscard(w)
  <2>1. At(w, "asked") /\ Op(w) \in Discarding /\ Admitted(w)
    BY <1>2 DEF EnterDiscard, Admitted
  <2>2. (Owned(w) /\ Closes) \/ (~Owned(w) /\ KeepSession)
    BY <1>2, CloseCloses DEF EnterDiscard
  <2>3. loaded' \in Loadeds /\ \A v \in Window \ {w} : loaded'[v] = loaded[v]
    <3>1. loaded' = loaded \/ loaded' = [loaded EXCEPT ![w] = Unloaded]
      BY <1>2 DEF EnterDiscard
    <3>2. Unloaded \in [native : Host \cup {NoHost}, unavailable : BOOLEAN, waiting : BOOLEAN]
      BY DEF Unloaded
    <3>. QED
      BY <1>0, <3>1, <3>2 DEF Loadeds
  <2>. QED
    BY <1>2, <2>1, <2>2, <2>3 DEF EnterDiscard, GivesUp
<1>3. CASE EnterRefused(w)
  BY <1>3, FailEnds DEF EnterRefused, Admitted, Over, Elsewhere, At
<1>4. CASE EnterRequest(w)
  BY <1>4 DEF EnterRequest, Admitted, EntersRequest, Move, Moves, Elsewhere
<1>5. CASE EnterLoad(w)
  BY <1>5 DEF EnterLoad, Admitted, EntersLoad, Move, Moves, Elsewhere
<1>6. CASE Settle(w)
  <2>0. session.process \in Host
    BY <1>0, <1>6 DEF Settle, OwnerInv, Sessions
  <2>1. request[w].phase \in Holding /\ Elsewhere /\ ~At(w, "spawned")
    BY <1>6 DEF Settle, Elsewhere, At, Holding
  <2>2. CASE Outcome = "ok"
    <3>1. (session.closed \/ session.pending = "unload") \in BOOLEAN
      BY <1>0 DEF Sessions
    <3>2. TakeAnswer(session.closed \/ session.pending = "unload")
          /\ UNCHANGED <<holder, request, loaded, fence>>
      BY <1>6, <2>2 DEF Settle, Fatal, windows
    <3>. QED
      BY <1>6, <2>0, <2>1, <3>1, <3>2, TakeTakes DEF Settle, Settles
  <2>3. CASE Outcome = "error"
    <3>1. TakeAnswer(session.closed) /\ Fail(w, FALSE)
      BY <1>6, <2>3 DEF Settle, Fatal
    <3>. QED
      BY <1>0, <2>0, <2>1, <3>1, TakeTakes, FailEnds DEF Over, Sessions, At
  <2>4. CASE Outcome = "dialog"
    <3>1. KeepSession /\ Fail(w, TRUE)
      BY <1>6, <2>4 DEF Settle, Fatal
    <3>. QED
      BY <2>1, <3>1, FailEnds DEF Over, At
  <2>5. CASE Outcome \in Fatal
    <3>1. CloseSession(session.gen) /\ Fail(w, FALSE)
      BY <1>6, <2>5 DEF Settle, Fatal
    <3>. QED
      BY <2>1, <3>1, CloseCloses, FailEnds DEF Over, At
  <2>6. host[session.process].reply \in {"none", "ok", "error", "bad"}
    BY <1>0, <2>0 DEF Hosts
  <2>7. Outcome \in {"ok", "error", "dialog"} \cup Fatal
    BY <2>6 DEF Outcome, Fatal
  <2>. QED
    BY <2>2, <2>3, <2>4, <2>5, <2>7
<1>7. CASE Replace(w)
  <2>1. At(w, "settling") /\ request[w].phase \in Holding /\ Elsewhere
    BY <1>7 DEF Replace, Elsewhere, At, Holding
  <2>2. KeepSession \/ Closes
    BY <1>7, CloseCloses DEF Replace
  <2>3. CASE session.process # NoHost /\ host[session.process].dialog
    <3>1. Fail(w, TRUE)
      BY <1>7, <2>3 DEF Replace
    <3>. QED
      BY <2>1, <2>2, <3>1, FailEnds DEF Over, At
  <2>4. CASE ~(session.process # NoHost /\ host[session.process].dialog)
    <3>1. Move(w, "prepared") /\ UNCHANGED holder /\ CloseSession(session.gen)
      BY <1>7, <2>4 DEF Replace
    <3>. QED
      BY <2>1, <3>1, CloseCloses DEF Prepares, Move, Moves
  <2>. QED
    BY <2>3, <2>4
<1>8. CASE LoadStops(w)
  BY <1>8, CloseCloses, FailEnds DEF LoadStops, Over, Elsewhere, At, Holding
<1>9. CASE LoadSpawns(w)
  BY <1>9 DEF LoadSpawns, Spawns, Move, Moves, Elsewhere, backend
<1>10. CASE Publish(w)
  BY <1>10, FailEnds DEF Publish, Published, Refused, Move, Moves, Elsewhere
<1>11. CASE Send(w)
  <2>1. At(w, "sending") /\ request[w].phase \in Holding /\ Elsewhere /\ session.pending = NoWork
    BY <1>11 DEF Send, Elsewhere, At, Holding
  <2>2. CASE session.closed
    <3>1. CloseSession(session.gen) /\ (Answered(w, NoHost) \/ Fail(w, FALSE))
      BY <1>11, <2>2 DEF Send
    <3>. QED
      BY <2>1, <3>1, CloseCloses, FailEnds, AnsweredEnds DEF Over, At
  <2>3. CASE ~session.closed
    <3>1. /\ session' = [session EXCEPT !.pending = Op(w)] /\ Move(w, "waiting")
          /\ lease' = lease /\ holder' = holder
          /\ host' = [host EXCEPT ![session.process].work =
                        IF host[session.process].alive THEN Op(w) ELSE NoWork]
      BY <1>11, <2>3 DEF Send
    <3>2. session.process \in Host
      BY <1>0, <2>1, SessionAssumption DEF OwnerInv, Sessions, At
    <3>3. Op(w) \in Work
      BY <1>0, <2>1 DEF HolderInv, Requests, Operation, Discarding, Work, Op
    <3>4. host' \in Hosts /\ \A h \in Host : host'[h].alive = host[h].alive
      BY <1>0, <3>1, <3>2, <3>3 DEF Hosts, Work
    <3>. QED
      BY <2>1, <3>1, <3>4 DEF Sends, Move, Moves
  <2>. QED
    BY <2>2, <2>3
<1>12. CASE Receive(w)
  <2>1. At(w, "waiting") /\ request[w].phase \in Holding /\ Elsewhere
    BY <1>12 DEF Receive, Elsewhere, At, Holding
  <2>2. session.process \in Host
    BY <1>0, <2>1, SessionAssumption DEF OwnerInv, Sessions, At
  <2>3. CASE Outcome = "ok"
    <3>1. (CloseSession(session.gen) \/ TakeAnswer(FALSE)) /\ Answered(w, session.process)
      BY <1>12, <2>3 DEF Receive, Fatal
    <3>. QED
      BY <2>1, <2>2, <3>1, CloseCloses, TakeTakes, AnsweredEnds DEF Over, At
  <2>4. CASE Outcome = "error"
    <3>1. TakeAnswer(FALSE) /\ Fail(w, FALSE)
      BY <1>12, <2>4 DEF Receive, Fatal
    <3>. QED
      BY <2>1, <2>2, <3>1, TakeTakes, FailEnds DEF Over, At
  <2>5. CASE Outcome = "dialog"
    <3>1. KeepSession /\ Fail(w, TRUE)
      BY <1>12, <2>5 DEF Receive, Fatal
    <3>. QED
      BY <2>1, <3>1, FailEnds DEF Over, At
  <2>6. CASE Outcome \in Fatal
    <3>1. CloseSession(session.gen) /\ Fail(w, FALSE)
      BY <1>12, <2>6 DEF Receive, Fatal
    <3>. QED
      BY <2>1, <3>1, CloseCloses, FailEnds DEF Over, At
  <2>7. host[session.process].reply \in {"none", "ok", "error", "bad"}
    BY <1>0, <2>2 DEF Hosts
  <2>8. Outcome \in {"ok", "error", "dialog"} \cup Fatal
    BY <2>7 DEF Outcome, Fatal
  <2>. QED
    BY <2>3, <2>4, <2>5, <2>6, <2>8
<1>. QED
  BY <1>1, <1>2, <1>3, <1>4, <1>5, <1>6, <1>7, <1>8, <1>9, <1>10, <1>11, <1>12 DEF Thread

-----------------------------------------------------------------------------
(* Every kind of step keeps the invariant.                                 *)

\* A request that is over keeps the invariant.
LEMMA OverKeeps == ASSUME SessionInv, NEW w \in Window, Over(w) PROVE SessionInv'
<1>0. /\ generation \in Generation /\ session \in Sessions /\ lease \in Leases /\ host \in Hosts
      /\ holder \in Window \cup {NoWindow} /\ request \in Requests /\ loaded \in Loadeds /\ fence \in Fences
  BY SessionTypes DEF SessionInv
<1>1. session' \in Sessions
  BY <1>0, SessionAssumption DEF SessionInv, Sessions, Work, HolderInv, RequestInv, At, Op,
     Operation, Discarding, Requests, Holding, Host, Generation, Over, Ends, Release, Elsewhere,
     KeepSession, Closes, Takes
<1>2. lease' \in Leases /\ host' \in Hosts
  BY <1>0 DEF Over, Ends, Release, Elsewhere, KeepSession, Closes, Takes
<1>3. request' \in Requests
  BY <1>0, SessionAssumption DEF SessionInv, Requests, NoRequest, Phase, Operation, Holding,
     Generation, Over, Ends, Release, Elsewhere, KeepSession, Closes, Takes
<1>4. loaded' \in Loadeds /\ fence' \in Fences
  BY <1>0, SessionAssumption DEF SessionInv, Loadeds, Fences, Requests,
         Over, Ends, Release, Elsewhere, KeepSession, Closes, Takes
<1>5. holder' \in Window \cup {NoWindow}
  BY <1>0, SessionAssumption DEF SessionInv, Over, Ends, Release, Elsewhere, KeepSession,
     Closes, Takes
<1>6. /\ generation' \in Generation /\ stopping' \in BOOLEAN
      /\ shut' \in {"no", "stopping", "superseding", "cancelled", "done"}
      /\ dialogs' \in 0..MaxDialogs /\ deaths' \in 0..MaxDeaths
  BY <1>0, SessionAssumption DEF SessionInv, SessionTypeOK,
         Over, Ends, Release, Elsewhere, KeepSession, Closes, Takes
<1>7. SessionTypeOK'
  BY <1>1, <1>2, <1>3, <1>4, <1>5, <1>6 DEF SessionTypeOK, Generation, Sessions, Leases, Hosts,
     Requests, Loadeds, Fences
<1>8. \A v \in Window : request'[v] = IF v = w THEN NoRequest ELSE request[v]
  BY <1>0 DEF Over, Ends, Release, Elsewhere, KeepSession, Closes, Takes, Requests
<1>9. HolderInv'
  BY <1>0, <1>1, <1>2, <1>3, <1>4, <1>8, SessionAssumption
     DEF SessionInv, HolderInv, Discarding, At, Op, NoRequest, Holding, Requests,
         Over, Ends, Release, Elsewhere, KeepSession, Closes, Takes
<1>10. RequestInv'
  BY <1>0, <1>1, <1>2, <1>3, <1>4, <1>8, SessionAssumption
     DEF SessionInv, RequestInv, At, Op, NoRequest, Requests, Loadeds,
         Over, Ends, Release, Elsewhere, KeepSession, Closes, Takes
<1>11. OwnerInv'
  BY <1>0, <1>1, <1>2, <1>3, <1>4, <1>8, SessionAssumption DEF SessionInv, HolderInv,
     RequestInv, OwnerInv, At, Op, NoRequest, Holding, Sessions, Requests, NoHost, Host, Over,
     Ends, Release, Elsewhere, KeepSession, Closes, Takes
<1>12. LeaseInv'
  BY <1>0, <1>1, <1>2, <1>3, <1>4, <1>8, SessionAssumption DEF SessionInv, HolderInv, OwnerInv,
     LeaseInv, Ending, At, NoRequest, Holding, Sessions, Leases, Requests, Over, Ends, Release,
     Elsewhere, KeepSession, Closes, Takes
<1>13. AliveInv'
  BY <1>0, <1>1, <1>2, <1>3, <1>4, <1>8, SessionAssumption DEF SessionInv, HolderInv,
     RequestInv, OwnerInv, AliveInv, Ending, LeaseInv, At, Op, NoRequest, Holding, Sessions,
     Hosts, Requests, NoHost, Host, Over, Ends, Release, Elsewhere, KeepSession, Closes, Takes
<1>14. NumberInv'
  BY <1>0, <1>1, <1>2, <1>3, <1>4, <1>8, SessionAssumption DEF SessionInv, HolderInv,
     RequestInv, NumberInv, At, Op, NoRequest, NoFence, Sessions, Requests, Fences, Generation,
     Over, Ends, Release, Elsewhere, KeepSession, Closes, Takes
<1>15. FenceInv'
  BY <1>0, <1>1, <1>2, <1>3, <1>4, <1>8, SessionAssumption DEF SessionInv, HolderInv, NumberInv,
     FenceInv, Undisturbed, At, Op, NoRequest, NoFence, Holding, Sessions, Requests, Fences,
     Generation, Discarding, Over, Ends, Release, Elsewhere, KeepSession, Closes, Takes
<1>. QED
  BY <1>7, <1>9, <1>10, <1>11, <1>12, <1>13, <1>14, <1>15 DEF SessionInv

\* A load whose helper is refused by the lease keeps the invariant.
LEMMA RefusedKeeps == ASSUME SessionInv, NEW w \in Window, Refused(w) PROVE SessionInv'
<1>0. /\ generation \in Generation /\ session \in Sessions /\ lease \in Leases /\ host \in Hosts
      /\ holder \in Window \cup {NoWindow} /\ request \in Requests /\ loaded \in Loadeds /\ fence \in Fences
  BY SessionTypes DEF SessionInv
<1>1. session' \in Sessions
  BY <1>0, SessionAssumption DEF SessionInv, Sessions, Work, HolderInv, RequestInv, At, Op,
     Operation, Discarding, Requests, Holding, Host, Generation, Refused, Ends, Release,
     Elsewhere
<1>2. lease' \in Leases /\ host' \in Hosts
  BY <1>0, SessionAssumption DEF SessionInv, Leases, Hosts, DeadHost, RequestInv, HolderInv, At,
     Op, Work, Refused, Ends, Release, Elsewhere
<1>3. request' \in Requests
  BY <1>0, SessionAssumption DEF SessionInv, Requests, NoRequest, Phase, Operation, Holding,
     Generation, Refused, Ends, Release, Elsewhere
<1>4. loaded' \in Loadeds /\ fence' \in Fences
  BY <1>0, SessionAssumption DEF SessionInv, Loadeds, Fences, Requests,
         Refused, Ends, Release, Elsewhere
<1>5. holder' \in Window \cup {NoWindow}
  BY <1>0, SessionAssumption DEF SessionInv, Refused, Ends, Release, Elsewhere
<1>6. /\ generation' \in Generation /\ stopping' \in BOOLEAN
      /\ shut' \in {"no", "stopping", "superseding", "cancelled", "done"}
      /\ dialogs' \in 0..MaxDialogs /\ deaths' \in 0..MaxDeaths
  BY <1>0, SessionAssumption DEF SessionInv, SessionTypeOK,
         Refused, Ends, Release, Elsewhere
<1>7. SessionTypeOK'
  BY <1>1, <1>2, <1>3, <1>4, <1>5, <1>6 DEF SessionTypeOK, Generation, Sessions, Leases, Hosts,
     Requests, Loadeds, Fences
<1>8. \A v \in Window : request'[v] = IF v = w THEN NoRequest ELSE request[v]
  BY <1>0 DEF Refused, Ends, Release, Elsewhere, Requests
<1>9. HolderInv'
  BY <1>0, <1>1, <1>2, <1>3, <1>4, <1>8, SessionAssumption
     DEF SessionInv, HolderInv, Discarding, At, Op, NoRequest, Holding, Requests,
         Refused, Ends, Release, Elsewhere
<1>10. RequestInv'
  BY <1>0, <1>1, <1>2, <1>3, <1>4, <1>8, SessionAssumption
     DEF SessionInv, RequestInv, At, Op, NoRequest, Requests, Loadeds,
         Refused, Ends, Release, Elsewhere
<1>11. OwnerInv'
  BY <1>0, <1>1, <1>2, <1>3, <1>4, <1>8, SessionAssumption DEF SessionInv, HolderInv,
     RequestInv, OwnerInv, At, Op, NoRequest, Holding, Sessions, Requests, NoHost, Host,
     Refused, Ends, Release, Elsewhere
<1>12. LeaseInv'
  BY <1>0, <1>1, <1>2, <1>3, <1>4, <1>8, SessionAssumption DEF SessionInv, HolderInv, OwnerInv,
     LeaseInv, Ending, At, NoRequest, Holding, Sessions, Leases, Requests, Refused, Ends,
     Release, Elsewhere
<1>13. AliveInv'
  BY <1>0, <1>1, <1>2, <1>3, <1>4, <1>8, SessionAssumption DEF SessionInv, HolderInv,
     RequestInv, OwnerInv, AliveInv, Ending, LeaseInv, At, Op, NoRequest, Holding, Sessions,
     Hosts, Requests, NoHost, Host, DeadHost, Refused, Ends, Release, Elsewhere
<1>14. NumberInv'
  BY <1>0, <1>1, <1>2, <1>3, <1>4, <1>8, SessionAssumption DEF SessionInv, HolderInv,
     RequestInv, NumberInv, At, Op, NoRequest, NoFence, Sessions, Requests, Fences, Generation,
     Refused, Ends, Release, Elsewhere
<1>15. FenceInv'
  BY <1>0, <1>1, <1>2, <1>3, <1>4, <1>8, SessionAssumption DEF SessionInv, HolderInv, NumberInv,
     FenceInv, Undisturbed, At, Op, NoRequest, NoFence, Holding, Sessions, Requests, Fences,
     Generation, Discarding, Refused, Ends, Release, Elsewhere
<1>. QED
  BY <1>7, <1>9, <1>10, <1>11, <1>12, <1>13, <1>14, <1>15 DEF SessionInv

\* A request that leaves without the session keeps the invariant.
LEMMA GivesUpKeeps == ASSUME SessionInv, NEW w \in Window, GivesUp(w) PROVE SessionInv'
<1>0. /\ generation \in Generation /\ session \in Sessions /\ lease \in Leases /\ host \in Hosts
      /\ holder \in Window \cup {NoWindow} /\ request \in Requests /\ loaded \in Loadeds /\ fence \in Fences
  BY SessionTypes DEF SessionInv
<1>1. session' \in Sessions
  BY <1>0, SessionAssumption DEF SessionInv, Sessions, Work, HolderInv, RequestInv, At, Op,
     Operation, Discarding, Requests, Holding, Host, Generation, GivesUp, KeepSession, Closes,
     Admitted, Fresh, Owned, Absent, Closed
<1>2. lease' \in Leases /\ host' \in Hosts
  BY <1>0 DEF GivesUp, KeepSession, Closes, Admitted, Fresh, Owned, Absent, Closed
<1>3. request' \in Requests
  BY <1>0, SessionAssumption DEF SessionInv, Requests, NoRequest, Phase, Operation, Holding,
     Generation, GivesUp, KeepSession, Closes, Admitted, Fresh, Owned, Absent, Closed
<1>4. loaded' \in Loadeds /\ fence' \in Fences
  BY <1>0, SessionAssumption DEF SessionInv, Loadeds, Fences, Requests, GivesUp, KeepSession,
     Closes, Admitted, Fresh, Owned, Absent, Closed
<1>5. holder' \in Window \cup {NoWindow}
  BY <1>0, SessionAssumption DEF SessionInv, Admitted, GivesUp, KeepSession, Closes, Fresh,
     Owned, Absent, Closed
<1>6. /\ generation' \in Generation /\ stopping' \in BOOLEAN
      /\ shut' \in {"no", "stopping", "superseding", "cancelled", "done"}
      /\ dialogs' \in 0..MaxDialogs /\ deaths' \in 0..MaxDeaths
  BY <1>0, SessionAssumption DEF SessionInv, SessionTypeOK, GivesUp, KeepSession, Closes,
     Admitted, Fresh, Owned, Absent, Closed
<1>7. SessionTypeOK'
  BY <1>1, <1>2, <1>3, <1>4, <1>5, <1>6 DEF SessionTypeOK, Generation, Sessions, Leases, Hosts,
     Requests, Loadeds, Fences
<1>8. \A v \in Window : request'[v] = IF v = w THEN NoRequest ELSE request[v]
  BY <1>0 DEF GivesUp, KeepSession, Closes, Admitted, Fresh, Owned, Absent, Closed, Requests
<1>9. HolderInv'
  BY <1>0, <1>1, <1>2, <1>3, <1>4, <1>8, SessionAssumption DEF SessionInv, HolderInv,
     Discarding, At, Op, NoRequest, Holding, Requests, GivesUp, KeepSession, Closes, Admitted,
     Fresh, Owned, Absent, Closed
<1>10. RequestInv'
  BY <1>0, <1>1, <1>2, <1>3, <1>4, <1>8, SessionAssumption DEF SessionInv, RequestInv, At, Op,
     NoRequest, Requests, Loadeds, GivesUp, KeepSession, Closes, Admitted, Fresh, Owned, Absent,
     Closed
<1>11. OwnerInv'
  BY <1>0, <1>1, <1>2, <1>3, <1>4, <1>8, SessionAssumption DEF SessionInv, HolderInv,
     RequestInv, OwnerInv, At, Op, NoRequest, Holding, Sessions, Requests, NoHost, Host,
     GivesUp, KeepSession, Closes, Admitted, Fresh, Owned, Absent, Closed
<1>12. LeaseInv'
  BY <1>0, <1>1, <1>2, <1>3, <1>4, <1>8, SessionAssumption DEF SessionInv, HolderInv, OwnerInv,
     LeaseInv, Ending, At, NoRequest, Holding, Sessions, Leases, Requests, GivesUp, KeepSession,
     Closes, Admitted, Fresh, Owned, Absent, Closed
<1>13. AliveInv'
  BY <1>0, <1>1, <1>2, <1>3, <1>4, <1>8, SessionAssumption DEF SessionInv, HolderInv,
     RequestInv, OwnerInv, AliveInv, Ending, LeaseInv, At, Op, NoRequest, Holding, Sessions,
     Hosts, Requests, NoHost, Host, GivesUp, KeepSession, Closes, Admitted, Fresh, Owned,
     Absent, Closed
<1>14. NumberInv'
  BY <1>0, <1>1, <1>2, <1>3, <1>4, <1>8, SessionAssumption DEF SessionInv, HolderInv,
     RequestInv, NumberInv, At, Op, NoRequest, NoFence, Sessions, Requests, Fences, Generation,
     GivesUp, KeepSession, Closes, Admitted, Fresh, Owned, Absent, Closed
<1>15. FenceInv'
  <2>1. \A v \in Window : v # w => request'[v] = request[v] /\ fence'[v] = fence[v]
    BY <1>0, <1>8 DEF GivesUp, Fences
  <2>2. request'[w] = NoRequest /\ generation' = generation
    BY <1>8 DEF GivesUp, Admitted
  <2>3. \A v \in Window : session'.project = v => session.project = v
    BY SessionAssumption DEF GivesUp, KeepSession, Closes
  <2>4. ASSUME NEW u \in Window, Undisturbed(u) PROVE Undisturbed(u)'
    BY <2>1, <2>2, <2>3, <2>4 DEF Undisturbed, Op, At, NoRequest
  <2>5. CASE fence' = fence
    BY <2>1, <2>2, <2>4, <2>5 DEF SessionInv, FenceInv, NoRequest
  <2>6. CASE fence' = [fence EXCEPT ![w] = request[w].gen] /\ (Owned(w) \/ Absent(w))
    <3>1. Undisturbed(w)'
      <4>1. SUFFICES ASSUME NEW v \in Window \ {w}
                     PROVE  /\ session'.project # v
                            /\ Op(v) = "load" => At(v, "asked") /\ request[v].gen < generation
        BY <2>1, <2>2 DEF Undisturbed, Op, At
      <4>2. session'.project # v
        <5>1. CASE Owned(w)
          BY <5>1, SessionAssumption DEF GivesUp, Closes
        <5>2. CASE ~Owned(w) /\ Absent(w)
          <6>1. Closed(session).project = NoWindow
            BY <1>0 DEF Closed, Sessions
          <6>. QED
            BY <5>2, <6>1, SessionAssumption DEF Absent, GivesUp, KeepSession
        <5>. QED
          BY <2>6, <5>1, <5>2
      <4>3. ASSUME Op(v) = "load" PROVE At(v, "asked") /\ request[v].gen < generation
        <5>1. request[v].phase \notin Holding /\ request[v].phase # "idle"
          BY <4>3, SessionAssumption DEF GivesUp, Admitted, SessionInv, HolderInv, RequestInv, At
        <5>2. At(v, "asked")
          BY <1>0, <5>1 DEF Requests, Phase, At
        <5>3. session.gen = generation
          BY <2>6 DEF Owned, Absent, GivesUp, Admitted, Fresh
        <5>4. request[v].gen \in Nat /\ generation \in Nat
          BY <1>0, SessionAssumption DEF Requests, Generation
        <5>. QED
          BY <4>3, <5>2, <5>3, <5>4 DEF SessionInv, NumberInv
      <4>. QED
        BY <4>2, <4>3
    <3>. QED
      BY <2>1, <2>2, <2>4, <3>1 DEF SessionInv, FenceInv
  <2>. QED
    BY <2>5, <2>6 DEF GivesUp
<1>. QED
  BY <1>7, <1>9, <1>10, <1>11, <1>12, <1>13, <1>14, <1>15 DEF SessionInv

\* Settling the old helper keeps the invariant.
LEMMA SettlesKeeps == ASSUME SessionInv, NEW w \in Window, Settles(w) PROVE SessionInv'
<1>0. /\ generation \in Generation /\ session \in Sessions /\ lease \in Leases /\ host \in Hosts
      /\ holder \in Window \cup {NoWindow} /\ request \in Requests /\ loaded \in Loadeds /\ fence \in Fences
  BY SessionTypes DEF SessionInv
<1>1. session' \in Sessions
  BY <1>0, SessionAssumption DEF SessionInv, Sessions, Work, HolderInv, RequestInv, At, Op,
     Operation, Discarding, Requests, Holding, Host, Generation, Settles, Elsewhere, Takes
<1>2. lease' \in Leases /\ host' \in Hosts
  BY <1>0 DEF Settles, Elsewhere, Takes
<1>3. request' \in Requests
  BY <1>0, SessionAssumption DEF SessionInv, Requests, Phase, Operation, Holding, Generation,
     Settles, Elsewhere, Takes
<1>4. loaded' \in Loadeds /\ fence' \in Fences
  BY <1>0, SessionAssumption DEF SessionInv, Loadeds, Fences, Requests,
         Settles, Elsewhere, Takes
<1>5. holder' \in Window \cup {NoWindow}
  BY <1>0, SessionAssumption DEF SessionInv, Settles, Elsewhere, Takes
<1>6. /\ generation' \in Generation /\ stopping' \in BOOLEAN
      /\ shut' \in {"no", "stopping", "superseding", "cancelled", "done"}
      /\ dialogs' \in 0..MaxDialogs /\ deaths' \in 0..MaxDeaths
  BY <1>0, SessionAssumption DEF SessionInv, SessionTypeOK,
         Settles, Elsewhere, Takes
<1>7. SessionTypeOK'
  BY <1>1, <1>2, <1>3, <1>4, <1>5, <1>6 DEF SessionTypeOK, Generation, Sessions, Leases, Hosts,
     Requests, Loadeds, Fences
<1>8. \A v \in Window : request'[v] = request[v]
  BY <1>0 DEF Settles, Elsewhere, Takes, Requests
<1>9. HolderInv'
  BY <1>0, <1>1, <1>2, <1>3, <1>4, <1>8, SessionAssumption DEF SessionInv, HolderInv,
     Discarding, At, Op, Holding, Requests, Settles, Elsewhere, Takes
<1>10. RequestInv'
  BY <1>0, <1>1, <1>2, <1>3, <1>4, <1>8, SessionAssumption DEF SessionInv, RequestInv, At, Op,
     Requests, Loadeds, Settles, Elsewhere, Takes
<1>11. OwnerInv'
  BY <1>0, <1>1, <1>2, <1>3, <1>4, <1>8, SessionAssumption DEF SessionInv, HolderInv,
     RequestInv, OwnerInv, At, Op, Holding, Sessions, Requests, NoHost, Host, Settles,
     Elsewhere, Takes
<1>12. LeaseInv'
  BY <1>0, <1>1, <1>2, <1>3, <1>4, <1>8, SessionAssumption DEF SessionInv, HolderInv, OwnerInv,
     LeaseInv, Ending, At, Holding, Sessions, Leases, Requests, Settles, Elsewhere, Takes
<1>13. AliveInv'
  BY <1>0, <1>1, <1>2, <1>3, <1>4, <1>8, SessionAssumption DEF SessionInv, HolderInv,
     RequestInv, OwnerInv, AliveInv, Ending, LeaseInv, At, Op, Holding, Sessions, Hosts,
     Requests, NoHost, Host, Settles, Elsewhere, Takes
<1>14. NumberInv'
  BY <1>0, <1>1, <1>2, <1>3, <1>4, <1>8, SessionAssumption DEF SessionInv, HolderInv,
     RequestInv, NumberInv, At, Op, NoFence, Sessions, Requests, Fences, Generation, Settles,
     Elsewhere, Takes
<1>15. FenceInv'
  BY <1>0, <1>1, <1>2, <1>3, <1>4, <1>8, SessionAssumption DEF SessionInv, HolderInv, NumberInv,
     FenceInv, Undisturbed, At, Op, NoFence, Holding, Sessions, Requests, Fences, Generation,
     Discarding, Settles, Elsewhere, Takes
<1>. QED
  BY <1>7, <1>9, <1>10, <1>11, <1>12, <1>13, <1>14, <1>15 DEF SessionInv

\* Closing the old session keeps the invariant.
LEMMA PreparesKeeps == ASSUME SessionInv, NEW w \in Window, Prepares(w) PROVE SessionInv'
<1>0. /\ generation \in Generation /\ session \in Sessions /\ lease \in Leases /\ host \in Hosts
      /\ holder \in Window \cup {NoWindow} /\ request \in Requests /\ loaded \in Loadeds /\ fence \in Fences
  BY SessionTypes DEF SessionInv
<1>1. session' \in Sessions
  BY <1>0, SessionAssumption DEF SessionInv, Sessions, Work, HolderInv, RequestInv, At, Op,
     Operation, Discarding, Requests, Holding, Host, Generation, Prepares, Moves, Elsewhere,
     Closes
<1>2. lease' \in Leases /\ host' \in Hosts
  BY <1>0 DEF Prepares, Moves, Elsewhere, Closes
<1>3. request' \in Requests
  BY <1>0, SessionAssumption DEF SessionInv, Requests, Phase, Operation, Holding, Generation,
     Prepares, Moves, Elsewhere, Closes
<1>4. loaded' \in Loadeds /\ fence' \in Fences
  BY <1>0, SessionAssumption DEF SessionInv, Loadeds, Fences, Requests,
         Prepares, Moves, Elsewhere, Closes
<1>5. holder' \in Window \cup {NoWindow}
  BY <1>0, SessionAssumption DEF SessionInv, Prepares, Moves, Elsewhere, Closes
<1>6. /\ generation' \in Generation /\ stopping' \in BOOLEAN
      /\ shut' \in {"no", "stopping", "superseding", "cancelled", "done"}
      /\ dialogs' \in 0..MaxDialogs /\ deaths' \in 0..MaxDeaths
  BY <1>0, SessionAssumption DEF SessionInv, SessionTypeOK,
         Prepares, Moves, Elsewhere, Closes
<1>7. SessionTypeOK'
  BY <1>1, <1>2, <1>3, <1>4, <1>5, <1>6 DEF SessionTypeOK, Generation, Sessions, Leases, Hosts,
     Requests, Loadeds, Fences
<1>8. \A v \in Window : request'[v] = IF v = w THEN [request[v] EXCEPT !.phase = "prepared"] ELSE request[v]
  BY <1>0 DEF Prepares, Moves, Elsewhere, Closes, Requests
<1>9. HolderInv'
  BY <1>0, <1>1, <1>2, <1>3, <1>4, <1>8, SessionAssumption DEF SessionInv, HolderInv,
     Discarding, At, Op, Holding, Requests, Prepares, Moves, Elsewhere, Closes
<1>10. RequestInv'
  BY <1>0, <1>1, <1>2, <1>3, <1>4, <1>8, SessionAssumption DEF SessionInv, RequestInv, At, Op,
     Requests, Loadeds, Prepares, Moves, Elsewhere, Closes
<1>11. OwnerInv'
  BY <1>0, <1>1, <1>2, <1>3, <1>4, <1>8, SessionAssumption DEF SessionInv, HolderInv,
     RequestInv, OwnerInv, At, Op, Holding, Sessions, Requests, NoHost, Host, Prepares, Moves,
     Elsewhere, Closes
<1>12. LeaseInv'
  BY <1>0, <1>1, <1>2, <1>3, <1>4, <1>8, SessionAssumption DEF SessionInv, HolderInv, OwnerInv,
     LeaseInv, Ending, At, Holding, Sessions, Leases, Requests, Prepares, Moves, Elsewhere,
     Closes
<1>13. AliveInv'
  BY <1>0, <1>1, <1>2, <1>3, <1>4, <1>8, SessionAssumption DEF SessionInv, HolderInv,
     RequestInv, OwnerInv, AliveInv, Ending, LeaseInv, At, Op, Holding, Sessions, Hosts,
     Requests, NoHost, Host, Prepares, Moves, Elsewhere, Closes
<1>14. NumberInv'
  BY <1>0, <1>1, <1>2, <1>3, <1>4, <1>8, SessionAssumption DEF SessionInv, HolderInv,
     RequestInv, NumberInv, At, Op, NoFence, Sessions, Requests, Fences, Generation, Prepares,
     Moves, Elsewhere, Closes
<1>15. FenceInv'
  BY <1>0, <1>1, <1>2, <1>3, <1>4, <1>8, SessionAssumption DEF SessionInv, HolderInv, NumberInv,
     FenceInv, Undisturbed, At, Op, NoFence, Holding, Sessions, Requests, Fences, Generation,
     Discarding, Prepares, Moves, Elsewhere, Closes
<1>. QED
  BY <1>7, <1>9, <1>10, <1>11, <1>12, <1>13, <1>14, <1>15 DEF SessionInv

\* Sending a request to the helper keeps the invariant.
LEMMA SendsKeeps == ASSUME SessionInv, NEW w \in Window, Sends(w) PROVE SessionInv'
<1>0. /\ generation \in Generation /\ session \in Sessions /\ lease \in Leases /\ host \in Hosts
      /\ holder \in Window \cup {NoWindow} /\ request \in Requests /\ loaded \in Loadeds /\ fence \in Fences
  BY SessionTypes DEF SessionInv
<1>1. session' \in Sessions
  BY <1>0, SessionAssumption DEF SessionInv, Sessions, Work, HolderInv, RequestInv, At, Op,
     Operation, Discarding, Requests, Holding, Host, Generation, Sends, Moves, Elsewhere
<1>2. lease' \in Leases /\ host' \in Hosts
  BY <1>0, SessionAssumption DEF SessionInv, Leases, Hosts, RequestInv, HolderInv, At, Op, Work,
     Sends, Moves, Elsewhere
<1>3. request' \in Requests
  BY <1>0, SessionAssumption DEF SessionInv, Requests, Phase, Operation, Holding, Generation,
     Sends, Moves, Elsewhere
<1>4. loaded' \in Loadeds /\ fence' \in Fences
  BY <1>0, SessionAssumption DEF SessionInv, Loadeds, Fences, Requests,
         Sends, Moves, Elsewhere
<1>5. holder' \in Window \cup {NoWindow}
  BY <1>0, SessionAssumption DEF SessionInv, Sends, Moves, Elsewhere
<1>6. /\ generation' \in Generation /\ stopping' \in BOOLEAN
      /\ shut' \in {"no", "stopping", "superseding", "cancelled", "done"}
      /\ dialogs' \in 0..MaxDialogs /\ deaths' \in 0..MaxDeaths
  BY <1>0, SessionAssumption DEF SessionInv, SessionTypeOK,
         Sends, Moves, Elsewhere
<1>7. SessionTypeOK'
  BY <1>1, <1>2, <1>3, <1>4, <1>5, <1>6 DEF SessionTypeOK, Generation, Sessions, Leases, Hosts,
     Requests, Loadeds, Fences
<1>8. \A v \in Window : request'[v] = IF v = w THEN [request[v] EXCEPT !.phase = "waiting"] ELSE request[v]
  BY <1>0 DEF Sends, Moves, Elsewhere, Requests
<1>9. HolderInv'
  BY <1>0, <1>1, <1>2, <1>3, <1>4, <1>8, SessionAssumption DEF SessionInv, HolderInv,
     Discarding, At, Op, Holding, Requests, Sends, Moves, Elsewhere
<1>10. RequestInv'
  BY <1>0, <1>1, <1>2, <1>3, <1>4, <1>8, SessionAssumption DEF SessionInv, RequestInv, At, Op,
     Requests, Loadeds, Sends, Moves, Elsewhere
<1>11. OwnerInv'
  BY <1>0, <1>1, <1>2, <1>3, <1>4, <1>8, SessionAssumption DEF SessionInv, HolderInv,
     RequestInv, OwnerInv, At, Op, Holding, Sessions, Requests, NoHost, Host, Sends, Moves,
     Elsewhere
<1>12. LeaseInv'
  BY <1>0, <1>1, <1>2, <1>3, <1>4, <1>8, SessionAssumption DEF SessionInv, HolderInv, OwnerInv,
     LeaseInv, Ending, At, Holding, Sessions, Leases, Requests, Sends, Moves, Elsewhere
<1>13. AliveInv'
  BY <1>0, <1>1, <1>2, <1>3, <1>4, <1>8, SessionAssumption DEF SessionInv, HolderInv,
     RequestInv, OwnerInv, AliveInv, Ending, LeaseInv, At, Op, Holding, Sessions, Hosts,
     Requests, NoHost, Host, Sends, Moves, Elsewhere
<1>14. NumberInv'
  BY <1>0, <1>1, <1>2, <1>3, <1>4, <1>8, SessionAssumption DEF SessionInv, HolderInv,
     RequestInv, NumberInv, At, Op, NoFence, Sessions, Requests, Fences, Generation, Sends,
     Moves, Elsewhere
<1>15. FenceInv'
  BY <1>0, <1>1, <1>2, <1>3, <1>4, <1>8, SessionAssumption DEF SessionInv, HolderInv, NumberInv,
     FenceInv, Undisturbed, At, Op, NoFence, Holding, Sessions, Requests, Fences, Generation,
     Discarding, Sends, Moves, Elsewhere
<1>. QED
  BY <1>7, <1>9, <1>10, <1>11, <1>12, <1>13, <1>14, <1>15 DEF SessionInv

\* Publishing a new helper keeps the invariant.
LEMMA PublishedKeeps ==
  ASSUME SessionInv, NEW w \in Window, Published(w)
  PROVE  SessionInv'
<1>0. /\ generation \in Generation /\ session \in Sessions /\ lease \in Leases /\ host \in Hosts
      /\ holder \in Window \cup {NoWindow} /\ request \in Requests /\ loaded \in Loadeds /\ fence \in Fences
  BY SessionTypes DEF SessionInv
<1>1. session' \in Sessions
  BY <1>0, SessionAssumption DEF SessionInv, Sessions, Work, HolderInv, RequestInv, At, Op,
     Operation, Discarding, Requests, Holding, Host, Generation, Published, Moves, Elsewhere
<1>2. lease' \in Leases /\ host' \in Hosts
  BY <1>0, SessionAssumption DEF SessionInv, Leases, Hosts, RequestInv, HolderInv, At, Op, Work,
     Published, Moves, Elsewhere
<1>3. request' \in Requests
  BY <1>0, SessionAssumption DEF SessionInv, Requests, Phase, Operation, Holding, Generation,
     Published, Moves, Elsewhere
<1>4. loaded' \in Loadeds /\ fence' \in Fences
  BY <1>0, SessionAssumption DEF SessionInv, Loadeds, Fences, Requests,
         Published, Moves, Elsewhere
<1>5. holder' \in Window \cup {NoWindow}
  BY <1>0, SessionAssumption DEF SessionInv, Published, Moves, Elsewhere
<1>6. /\ generation' \in Generation /\ stopping' \in BOOLEAN
      /\ shut' \in {"no", "stopping", "superseding", "cancelled", "done"}
      /\ dialogs' \in 0..MaxDialogs /\ deaths' \in 0..MaxDeaths
  BY <1>0, SessionAssumption DEF SessionInv, SessionTypeOK,
         Published, Moves, Elsewhere
<1>7. SessionTypeOK'
  BY <1>1, <1>2, <1>3, <1>4, <1>5, <1>6 DEF SessionTypeOK, Generation, Sessions, Leases, Hosts,
     Requests, Loadeds, Fences
<1>8. \A v \in Window : request'[v] = IF v = w THEN [request[v] EXCEPT !.phase = "sending"] ELSE request[v]
  BY <1>0 DEF Published, Moves, Elsewhere, Requests
<1>9. HolderInv'
  BY <1>0, <1>1, <1>2, <1>3, <1>4, <1>8, SessionAssumption DEF SessionInv, HolderInv,
     Discarding, At, Op, Holding, Requests, Published, Moves, Elsewhere
<1>10. RequestInv'
  BY <1>0, <1>1, <1>2, <1>3, <1>4, <1>8, SessionAssumption DEF SessionInv, RequestInv, At, Op,
     Requests, Loadeds, Published, Moves, Elsewhere
<1>11. OwnerInv'
  BY <1>0, <1>1, <1>2, <1>3, <1>4, <1>8, SessionAssumption DEF SessionInv, HolderInv,
     RequestInv, OwnerInv, At, Op, Holding, Sessions, Requests, NoHost, Host, Published, Moves,
     Elsewhere
<1>12. LeaseInv'
  BY <1>0, <1>1, <1>2, <1>3, <1>4, <1>8, SessionAssumption DEF SessionInv, HolderInv, OwnerInv,
     LeaseInv, Ending, At, Holding, Sessions, Leases, Requests, Published, Moves, Elsewhere
<1>13. AliveInv'
  BY <1>0, <1>1, <1>2, <1>3, <1>4, <1>8, SessionAssumption DEF SessionInv, HolderInv,
     RequestInv, OwnerInv, AliveInv, Ending, LeaseInv, At, Op, Holding, Sessions, Hosts,
     Requests, NoHost, Host, Published, Moves, Elsewhere
<1>14. NumberInv'
  BY <1>0, <1>1, <1>2, <1>3, <1>4, <1>8, SessionAssumption DEF SessionInv, HolderInv,
     RequestInv, NumberInv, At, Op, NoFence, Sessions, Requests, Fences, Generation, Published,
     Moves, Elsewhere
<1>15. FenceInv'
  BY <1>0, <1>1, <1>2, <1>3, <1>4, <1>8, SessionAssumption DEF SessionInv, HolderInv, NumberInv,
     FenceInv, Undisturbed, At, Op, NoFence, Holding, Sessions, Requests, Fences, Generation,
     Discarding, Published, Moves, Elsewhere
<1>. QED
  BY <1>7, <1>9, <1>10, <1>11, <1>12, <1>13, <1>14, <1>15 DEF SessionInv

\* Spawning a helper keeps the invariant.
LEMMA SpawnsKeeps == ASSUME SessionInv, NEW w \in Window, Spawns(w) PROVE SessionInv'
<1>0. /\ generation \in Generation /\ session \in Sessions /\ lease \in Leases /\ host \in Hosts
      /\ holder \in Window \cup {NoWindow} /\ request \in Requests /\ loaded \in Loadeds /\ fence \in Fences
  BY SessionTypes DEF SessionInv
<1>1. session' \in Sessions
  BY <1>0, SessionAssumption DEF SessionInv, Sessions, Work, HolderInv, RequestInv, At, Op,
     Operation, Discarding, Requests, Holding, Host, Generation, Spawns, Moves, Elsewhere, Fresh
<1>2. lease' \in Leases /\ host' \in Hosts
  BY <1>0, SessionAssumption DEF SessionInv, Leases, Hosts, RequestInv, HolderInv, At, Op, Work,
     Spawns, Moves, Elsewhere, Fresh
<1>3. request' \in Requests
  BY <1>0, SessionAssumption DEF SessionInv, Requests, Phase, Operation, Holding, Generation,
     Spawns, Moves, Elsewhere, Fresh
<1>4. loaded' \in Loadeds /\ fence' \in Fences
  BY <1>0, SessionAssumption DEF SessionInv, Loadeds, Fences, Requests,
         Spawns, Moves, Elsewhere, Fresh
<1>5. holder' \in Window \cup {NoWindow}
  BY <1>0, SessionAssumption DEF SessionInv, Spawns, Moves, Elsewhere, Fresh
<1>6. /\ generation' \in Generation /\ stopping' \in BOOLEAN
      /\ shut' \in {"no", "stopping", "superseding", "cancelled", "done"}
      /\ dialogs' \in 0..MaxDialogs /\ deaths' \in 0..MaxDeaths
  BY <1>0, SessionAssumption DEF SessionInv, SessionTypeOK,
         Spawns, Moves, Elsewhere, Fresh
<1>7. SessionTypeOK'
  BY <1>1, <1>2, <1>3, <1>4, <1>5, <1>6 DEF SessionTypeOK, Generation, Sessions, Leases, Hosts,
     Requests, Loadeds, Fences
<1>8. \A v \in Window : request'[v] = IF v = w THEN [request[v] EXCEPT !.phase = "spawned"] ELSE request[v]
  BY <1>0 DEF Spawns, Moves, Elsewhere, Fresh, Requests
<1>9. HolderInv'
  BY <1>0, <1>1, <1>2, <1>3, <1>4, <1>8, SessionAssumption DEF SessionInv, HolderInv,
     Discarding, At, Op, Holding, Requests, Spawns, Moves, Elsewhere, Fresh
<1>10. RequestInv'
  BY <1>0, <1>1, <1>2, <1>3, <1>4, <1>8, SessionAssumption DEF SessionInv, RequestInv, At, Op,
     Requests, Loadeds, Spawns, Moves, Elsewhere, Fresh
<1>11. OwnerInv'
  BY <1>0, <1>1, <1>2, <1>3, <1>4, <1>8, SessionAssumption DEF SessionInv, HolderInv,
     RequestInv, OwnerInv, At, Op, Holding, Sessions, Requests, NoHost, Host, Spawns, Moves,
     Elsewhere, Fresh
<1>12. LeaseInv'
  BY <1>0, <1>1, <1>2, <1>3, <1>4, <1>8, SessionAssumption DEF SessionInv, HolderInv, OwnerInv,
     LeaseInv, Ending, At, Holding, Sessions, Leases, Requests, Spawns, Moves, Elsewhere, Fresh
<1>13. AliveInv'
  BY <1>0, <1>1, <1>2, <1>3, <1>4, <1>8, SessionAssumption DEF SessionInv, HolderInv,
     RequestInv, OwnerInv, AliveInv, Ending, LeaseInv, At, Op, Holding, Sessions, Hosts,
     Requests, NoHost, Host, Spawns, Moves, Elsewhere, Fresh
<1>14. NumberInv'
  BY <1>0, <1>1, <1>2, <1>3, <1>4, <1>8, SessionAssumption DEF SessionInv, HolderInv,
     RequestInv, NumberInv, At, Op, NoFence, Sessions, Requests, Fences, Generation, Spawns,
     Moves, Elsewhere, Fresh
<1>15. FenceInv'
  BY <1>0, <1>1, <1>2, <1>3, <1>4, <1>8, SessionAssumption DEF SessionInv, HolderInv, NumberInv,
     FenceInv, Undisturbed, At, Op, NoFence, Holding, Sessions, Requests, Fences, Generation,
     Discarding, Spawns, Moves, Elsewhere, Fresh
<1>. QED
  BY <1>7, <1>9, <1>10, <1>11, <1>12, <1>13, <1>14, <1>15 DEF SessionInv

\* A load that gets the mutex keeps the invariant.
LEMMA EntersLoadKeeps ==
  ASSUME SessionInv, NEW w \in Window, EntersLoad(w)
  PROVE  SessionInv'
<1>0. /\ generation \in Generation /\ session \in Sessions /\ lease \in Leases /\ host \in Hosts
      /\ holder \in Window \cup {NoWindow} /\ request \in Requests /\ loaded \in Loadeds /\ fence \in Fences
  BY SessionTypes DEF SessionInv
<1>1. session' \in Sessions
  BY <1>0, SessionAssumption DEF SessionInv, Sessions, Work, HolderInv, RequestInv, At, Op,
     Operation, Discarding, Requests, Holding, Host, Generation, EntersLoad, Moves, Elsewhere,
     Admitted, Fresh
<1>2. lease' \in Leases /\ host' \in Hosts
  BY <1>0, SessionAssumption DEF SessionInv, Leases, Hosts, RequestInv, HolderInv, At, Op, Work,
     EntersLoad, Moves, Elsewhere, Admitted, Fresh
<1>3. request' \in Requests
  BY <1>0, SessionAssumption DEF SessionInv, Requests, Phase, Operation, Holding, Generation,
     EntersLoad, Moves, Elsewhere, Admitted, Fresh
<1>4. loaded' \in Loadeds /\ fence' \in Fences
  BY <1>0, SessionAssumption DEF SessionInv, Loadeds, Fences, Requests,
         EntersLoad, Moves, Elsewhere, Admitted, Fresh
<1>5. holder' \in Window \cup {NoWindow}
  BY <1>0, SessionAssumption DEF SessionInv, Admitted, EntersLoad, Moves, Elsewhere, Fresh
<1>6. /\ generation' \in Generation /\ stopping' \in BOOLEAN
      /\ shut' \in {"no", "stopping", "superseding", "cancelled", "done"}
      /\ dialogs' \in 0..MaxDialogs /\ deaths' \in 0..MaxDeaths
  BY <1>0, SessionAssumption DEF SessionInv, SessionTypeOK,
         EntersLoad, Moves, Elsewhere, Admitted, Fresh
<1>7. SessionTypeOK'
  BY <1>1, <1>2, <1>3, <1>4, <1>5, <1>6 DEF SessionTypeOK, Generation, Sessions, Leases, Hosts,
     Requests, Loadeds, Fences
<1>8. \A v \in Window : request'[v] = IF v = w THEN [request[v] EXCEPT !.phase = "settling"] ELSE request[v]
  BY <1>0 DEF EntersLoad, Moves, Elsewhere, Admitted, Fresh, Requests
<1>9. HolderInv'
  BY <1>0, <1>1, <1>2, <1>3, <1>4, <1>8, SessionAssumption DEF SessionInv, HolderInv,
     Discarding, At, Op, Holding, Requests, EntersLoad, Moves, Elsewhere, Admitted, Fresh
<1>10. RequestInv'
  BY <1>0, <1>1, <1>2, <1>3, <1>4, <1>8, SessionAssumption DEF SessionInv, RequestInv, At, Op,
     Requests, Loadeds, EntersLoad, Moves, Elsewhere, Admitted, Fresh
<1>11. OwnerInv'
  BY <1>0, <1>1, <1>2, <1>3, <1>4, <1>8, SessionAssumption DEF SessionInv, HolderInv,
     RequestInv, OwnerInv, At, Op, Holding, Sessions, Requests, NoHost, Host, EntersLoad, Moves,
     Elsewhere, Admitted, Fresh
<1>12. LeaseInv'
  BY <1>0, <1>1, <1>2, <1>3, <1>4, <1>8, SessionAssumption DEF SessionInv, HolderInv, OwnerInv,
     LeaseInv, Ending, At, Holding, Sessions, Leases, Requests, EntersLoad, Moves, Elsewhere,
     Admitted, Fresh
<1>13. AliveInv'
  BY <1>0, <1>1, <1>2, <1>3, <1>4, <1>8, SessionAssumption DEF SessionInv, HolderInv,
     RequestInv, OwnerInv, AliveInv, Ending, LeaseInv, At, Op, Holding, Sessions, Hosts,
     Requests, NoHost, Host, EntersLoad, Moves, Elsewhere, Admitted, Fresh
<1>14. NumberInv'
  BY <1>0, <1>1, <1>2, <1>3, <1>4, <1>8, SessionAssumption DEF SessionInv, HolderInv,
     RequestInv, NumberInv, At, Op, NoFence, Sessions, Requests, Fences, Generation, EntersLoad,
     Moves, Elsewhere, Admitted, Fresh
<1>15. FenceInv'
  BY <1>0, <1>1, <1>2, <1>3, <1>4, <1>8, SessionAssumption DEF SessionInv, HolderInv, NumberInv,
     FenceInv, Undisturbed, At, Op, NoFence, Holding, Sessions, Requests, Fences, Generation,
     Discarding, EntersLoad, Moves, Elsewhere, Admitted, Fresh
<1>. QED
  BY <1>7, <1>9, <1>10, <1>11, <1>12, <1>13, <1>14, <1>15 DEF SessionInv

\* Another request that gets the mutex keeps the invariant.
LEMMA EntersRequestKeeps ==
  ASSUME SessionInv, NEW w \in Window, EntersRequest(w)
  PROVE  SessionInv'
<1>0. /\ generation \in Generation /\ session \in Sessions /\ lease \in Leases /\ host \in Hosts
      /\ holder \in Window \cup {NoWindow} /\ request \in Requests /\ loaded \in Loadeds /\ fence \in Fences
  BY SessionTypes DEF SessionInv
<1>1. session' \in Sessions
  BY <1>0, SessionAssumption DEF SessionInv, Sessions, Work, HolderInv, RequestInv, At, Op,
     Operation, Discarding, Requests, Holding, Host, Generation, EntersRequest, Moves,
     Elsewhere, Admitted, Fresh, Belongs, KeepSession
<1>2. lease' \in Leases /\ host' \in Hosts
  BY <1>0, SessionAssumption DEF SessionInv, Leases, Hosts, RequestInv, HolderInv, At, Op, Work,
     EntersRequest, Moves, Elsewhere, Admitted, Fresh, Belongs, KeepSession
<1>3. request' \in Requests
  BY <1>0, SessionAssumption DEF SessionInv, Requests, Phase, Operation, Holding, Generation,
     EntersRequest, Moves, Elsewhere, Admitted, Fresh, Belongs, KeepSession
<1>4. loaded' \in Loadeds /\ fence' \in Fences
  BY <1>0, SessionAssumption DEF SessionInv, Loadeds, Fences, Requests,
         EntersRequest, Moves, Elsewhere, Admitted, Fresh, Belongs, KeepSession
<1>5. holder' \in Window \cup {NoWindow}
  BY <1>0, SessionAssumption DEF SessionInv, Admitted, EntersRequest, Moves, Elsewhere, Fresh,
     Belongs, KeepSession
<1>6. /\ generation' \in Generation /\ stopping' \in BOOLEAN
      /\ shut' \in {"no", "stopping", "superseding", "cancelled", "done"}
      /\ dialogs' \in 0..MaxDialogs /\ deaths' \in 0..MaxDeaths
  BY <1>0, SessionAssumption DEF SessionInv, SessionTypeOK,
         EntersRequest, Moves, Elsewhere, Admitted, Fresh, Belongs, KeepSession
<1>7. SessionTypeOK'
  BY <1>1, <1>2, <1>3, <1>4, <1>5, <1>6 DEF SessionTypeOK, Generation, Sessions, Leases, Hosts,
     Requests, Loadeds, Fences
<1>8. \A v \in Window : request'[v] = IF v = w THEN [request[v] EXCEPT !.phase = "sending"] ELSE request[v]
  BY <1>0 DEF EntersRequest, Moves, Elsewhere, Admitted, Fresh, Belongs, KeepSession, Requests
<1>9. HolderInv'
  BY <1>0, <1>1, <1>2, <1>3, <1>4, <1>8, SessionAssumption DEF SessionInv, HolderInv,
     Discarding, At, Op, Holding, Requests, EntersRequest, Moves, Elsewhere, Admitted, Fresh,
     Belongs, KeepSession
<1>10. RequestInv'
  BY <1>0, <1>1, <1>2, <1>3, <1>4, <1>8, SessionAssumption DEF SessionInv, RequestInv, At, Op,
     Requests, Loadeds, EntersRequest, Moves, Elsewhere, Admitted, Fresh, Belongs, KeepSession
<1>11. OwnerInv'
  BY <1>0, <1>1, <1>2, <1>3, <1>4, <1>8, SessionAssumption DEF SessionInv, HolderInv,
     RequestInv, OwnerInv, At, Op, Holding, Sessions, Requests, NoHost, Host, EntersRequest,
     Moves, Elsewhere, Admitted, Fresh, Belongs, KeepSession
<1>12. LeaseInv'
  BY <1>0, <1>1, <1>2, <1>3, <1>4, <1>8, SessionAssumption DEF SessionInv, HolderInv, OwnerInv,
     LeaseInv, Ending, At, Holding, Sessions, Leases, Requests, EntersRequest, Moves, Elsewhere,
     Admitted, Fresh, Belongs, KeepSession
<1>13. AliveInv'
  BY <1>0, <1>1, <1>2, <1>3, <1>4, <1>8, SessionAssumption DEF SessionInv, HolderInv,
     RequestInv, OwnerInv, AliveInv, Ending, LeaseInv, At, Op, Holding, Sessions, Hosts,
     Requests, NoHost, Host, EntersRequest, Moves, Elsewhere, Admitted, Fresh, Belongs,
     KeepSession
<1>14. NumberInv'
  BY <1>0, <1>1, <1>2, <1>3, <1>4, <1>8, SessionAssumption DEF SessionInv, HolderInv,
     RequestInv, NumberInv, At, Op, NoFence, Sessions, Requests, Fences, Generation,
     EntersRequest, Moves, Elsewhere, Admitted, Fresh, Belongs, KeepSession
<1>15. FenceInv'
  BY <1>0, <1>1, <1>2, <1>3, <1>4, <1>8, SessionAssumption DEF SessionInv, HolderInv, NumberInv,
     FenceInv, Undisturbed, At, Op, NoFence, Holding, Sessions, Requests, Fences, Generation,
     Discarding, EntersRequest, Moves, Elsewhere, Admitted, Fresh, Belongs, KeepSession
<1>. QED
  BY <1>7, <1>9, <1>10, <1>11, <1>12, <1>13, <1>14, <1>15 DEF SessionInv

\* What a step of a helper leaves: it may only end helpers.
HelperEffect ==
  /\ UNCHANGED <<backend, windows>>
  /\ host' \in Hosts /\ \A h \in Host : host'[h].alive => host[h].alive
  /\ dialogs' \in 0..MaxDialogs /\ deaths' \in 0..MaxDeaths

\* What a helper does by itself.
LEMMA HelperEffects ==
  ASSUME SessionTypeOK, NEW h \in Host, HelperStep(h)
  PROVE  HelperEffect
<1>0. host \in Hosts /\ dialogs \in 0..MaxDialogs /\ deaths \in 0..MaxDeaths
  BY SessionTypes
<1>1. ASSUME NEW reply \in {"ok", "error", "bad"}, HostReplies(h, reply) PROVE HelperEffect
  <2>1. host' \in Hosts /\ \A k \in Host : host'[k].alive => host[k].alive
    BY <1>0, <1>1 DEF HostReplies, Hosts
  <2>. QED
    BY <1>0, <1>1, <2>1, SessionAssumption DEF HostReplies, HelperEffect
<1>2. CASE HostDies(h)
  <2>1. host' \in Hosts /\ \A k \in Host : host'[k].alive => host[k].alive
    BY <1>0, <1>2 DEF HostDies, Hosts, DeadHost, Work
  <2>. QED
    BY <1>0, <1>2, <2>1, SessionAssumption DEF HostDies, HelperEffect
<1>3. CASE DialogOpens(h) \/ DialogCloses(h)
  <2>1. host' \in Hosts /\ \A k \in Host : host'[k].alive => host[k].alive
    BY <1>0, <1>3 DEF DialogOpens, DialogCloses, Hosts
  <2>. QED
    BY <1>0, <1>3, <2>1, SessionAssumption DEF DialogOpens, DialogCloses, HelperEffect
<1>. QED
  BY <1>1, <1>2, <1>3 DEF HelperStep

\* What a helper does by itself keeps the invariant.
LEMMA HelperKeeps == ASSUME SessionInv, HelperEffect PROVE SessionInv'
<1>0. /\ generation \in Generation /\ session \in Sessions /\ lease \in Leases /\ host \in Hosts
      /\ holder \in Window \cup {NoWindow} /\ request \in Requests /\ loaded \in Loadeds /\ fence \in Fences
      /\ dialogs \in 0..MaxDialogs /\ deaths \in 0..MaxDeaths
  BY SessionTypes DEF SessionInv
<1>1. SessionTypeOK'
  BY <1>0 DEF HelperEffect, backend, windows, SessionInv, SessionTypeOK, Generation, Sessions,
     Leases, Hosts, Requests, Loadeds, Fences
<1>2. HolderInv'
  BY <1>0, <1>1, SessionAssumption DEF SessionInv, HolderInv, Discarding, Op, Holding, Requests,
     HelperEffect, backend, windows
<1>3. RequestInv'
  BY <1>0, <1>1, SessionAssumption DEF SessionInv, RequestInv, At, Op, Requests, Loadeds,
     HelperEffect, backend, windows
<1>4. OwnerInv'
  BY <1>0, <1>1, SessionAssumption DEF SessionInv, HolderInv, RequestInv, OwnerInv, At, Op,
     Holding, Sessions, Requests, NoHost, Host, HelperEffect, backend, windows
<1>5. LeaseInv'
  BY <1>0, <1>1, SessionAssumption DEF SessionInv, HolderInv, OwnerInv, LeaseInv, Ending, At,
     Holding, Sessions, Leases, Requests, HelperEffect, backend, windows
<1>6. AliveInv'
  BY <1>0, <1>1, SessionAssumption DEF SessionInv, HolderInv, RequestInv, OwnerInv, AliveInv,
     Ending, LeaseInv, At, Op, Holding, Sessions, Hosts, Requests, NoHost, Host, HelperEffect,
     backend, windows
<1>7. NumberInv'
  BY <1>0, <1>1, SessionAssumption DEF SessionInv, HolderInv, RequestInv, NumberInv, At, Op,
     NoFence, Sessions, Requests, Fences, Generation, HelperEffect, backend, windows
<1>8. FenceInv'
  BY <1>0, <1>1, SessionAssumption DEF SessionInv, HolderInv, NumberInv, FenceInv, Undisturbed,
     At, Op, NoFence, Holding, Sessions, Requests, Fences, Generation, Discarding, HelperEffect,
     backend, windows
<1>. QED
  BY <1>1, <1>2, <1>3, <1>4, <1>5, <1>6, <1>7, <1>8 DEF SessionInv

\* A load that is asked for keeps the invariant.
LEMMA LoadKeeps == ASSUME SessionInv, NEW w \in Window, Load(w) PROVE SessionInv'
<1>0. /\ generation \in Generation /\ session \in Sessions /\ lease \in Leases /\ host \in Hosts
      /\ holder \in Window \cup {NoWindow} /\ request \in Requests /\ loaded \in Loadeds /\ fence \in Fences
      /\ dialogs \in 0..MaxDialogs /\ deaths \in 0..MaxDeaths
  BY SessionTypes DEF SessionInv
<1>2. request' \in Requests
  BY <1>0, SessionAssumption DEF Load, Ask, Requests, Phase, Operation, Generation, At
<1>3. generation' \in Generation /\ generation' \in Nat /\ generation \in Nat
  BY <1>0, SessionAssumption DEF Load, Ask, Generation
<1>4. \A v \in Window : request'[v] = IF v = w THEN request'[w] ELSE request[v]
  BY <1>0 DEF Load, Ask, Requests
<1>5. request'[w] = [phase |-> "asked", op |-> "load", gen |-> generation + 1, fenced |-> fence[w] # NoFence]
  BY <1>0 DEF Load, Ask, Requests
<1>6. UNCHANGED <<stopping, session, lease, holder, host, loaded, fence, shut, dialogs, deaths>>
  BY DEF Load, Ask
<1>1. SessionTypeOK'
  BY <1>0, <1>2, <1>3, <1>6 DEF SessionInv, SessionTypeOK, Generation, Sessions, Leases, Hosts,
     Requests, Loadeds, Fences
<1>7. HolderInv'
  BY <1>0, <1>1, <1>2, <1>3, <1>4, <1>5, <1>6, SessionAssumption DEF SessionInv, HolderInv,
     Discarding, At, Op, Holding, Requests, Load, Ask
<1>8. RequestInv'
  BY <1>0, <1>3, <1>4, <1>5, <1>6, SessionAssumption
     DEF SessionInv, RequestInv, At, Op, Host, Load, Generation
<1>9. OwnerInv'
  BY <1>0, <1>1, <1>2, <1>3, <1>4, <1>5, <1>6, SessionAssumption DEF SessionInv, HolderInv,
     RequestInv, OwnerInv, At, Op, Holding, Sessions, Requests, NoHost, Host, Load, Ask
<1>10. LeaseInv'
  BY <1>0, <1>1, <1>2, <1>3, <1>4, <1>5, <1>6, SessionAssumption DEF SessionInv, HolderInv,
     OwnerInv, LeaseInv, Ending, At, Holding, Sessions, Leases, Requests, Load, Ask
<1>11. AliveInv'
  BY <1>0, <1>1, <1>2, <1>3, <1>4, <1>5, <1>6, SessionAssumption DEF SessionInv, HolderInv,
     RequestInv, OwnerInv, AliveInv, Ending, LeaseInv, At, Op, Holding, Sessions, Hosts,
     Requests, NoHost, Host, Load, Ask
<1>12. NumberInv'
  BY <1>0, <1>1, <1>2, <1>3, <1>4, <1>5, <1>6, SessionAssumption DEF SessionInv, HolderInv,
     RequestInv, NumberInv, At, Op, NoFence, Sessions, Requests, Fences, Generation, Load, Ask
<1>13. FenceInv'
  <2>1. \A u \in Window : fence[u] <= generation /\ request[u].gen <= generation
    BY DEF SessionInv, NumberInv
  <2>2. generation' = generation + 1 /\ fence' = fence /\ session' = session
    BY <1>6 DEF Load, Ask
  <2>3. \A u \in Window : fence'[u] # generation' /\ (u # w => request'[u].gen # generation')
    BY <1>0, <1>3, <1>4, <2>1, <2>2 DEF Fences, Requests, Generation, NoFence
  <2>4. ASSUME fence[w] # NoFence PROVE Undisturbed(w)'
    <3>1. Undisturbed(w)
      BY <2>4 DEF Load, SessionInv, FenceInv
    <3>. QED
      BY <1>0, <1>3, <1>4, <2>2, <3>1 DEF Undisturbed, Op, At, Requests, Generation
  <2>5. request'[w].fenced => fence[w] # NoFence
    <3>1. SUFFICES ASSUME fence[w] = NoFence PROVE ~request'[w].fenced
      OBVIOUS
    <3>2. (fence[w] # NoFence) = FALSE
      BY <3>1
    <3>3. request'[w] = [phase |-> "asked", op |-> "load", gen |-> generation + 1, fenced |-> FALSE]
      BY Zenon, <1>5, <3>2
    <3>. QED
      BY <3>3
  <2>6. ASSUME NEW u \in Window, fence'[u] = generation' \/ (request'[u].fenced /\ request'[u].gen = generation')
        PROVE  Undisturbed(u)'
    BY <2>3, <2>4, <2>5, <2>6
  <2>. QED
    BY <2>6 DEF FenceInv
<1>. QED
  BY <1>1, <1>7, <1>8, <1>9, <1>10, <1>11, <1>12, <1>13 DEF SessionInv

\* Another request that is asked for keeps the invariant.
LEMMA AskKeeps ==
  ASSUME SessionInv, NEW w \in Window, NEW operation \in Operation \ {"load"}, AskLoaded(w, operation)
  PROVE  SessionInv'
<1>0. /\ generation \in Generation /\ session \in Sessions /\ lease \in Leases /\ host \in Hosts
      /\ holder \in Window \cup {NoWindow} /\ request \in Requests /\ loaded \in Loadeds /\ fence \in Fences
      /\ dialogs \in 0..MaxDialogs /\ deaths \in 0..MaxDeaths
  BY SessionTypes DEF SessionInv
<1>2. request' \in Requests
  BY <1>0, SessionAssumption DEF AskLoaded, Ask, Requests, Phase, Operation, Generation, At
<1>3. generation' \in Generation /\ generation' \in Nat /\ generation \in Nat
  BY <1>0, SessionAssumption DEF AskLoaded, Ask, Generation
<1>4. \A v \in Window : request'[v] = IF v = w THEN request'[w] ELSE request[v]
  BY <1>0 DEF AskLoaded, Ask, Requests
<1>5. request'[w] = [phase |-> "asked", op |-> operation, gen |-> generation, fenced |-> FALSE]
  BY <1>0 DEF AskLoaded, Ask, Requests
<1>6. UNCHANGED <<stopping, session, lease, holder, host, loaded, fence, shut, dialogs, deaths>>
  BY DEF AskLoaded, Ask
<1>1. SessionTypeOK'
  BY <1>0, <1>2, <1>3, <1>6 DEF SessionInv, SessionTypeOK, Generation, Sessions, Leases, Hosts,
     Requests, Loadeds, Fences
<1>7. HolderInv'
  BY <1>0, <1>1, <1>2, <1>3, <1>4, <1>5, <1>6, SessionAssumption DEF SessionInv, HolderInv,
     Discarding, At, Op, Holding, Requests, AskLoaded, Ask
<1>8. RequestInv'
  BY <1>0, <1>1, <1>2, <1>3, <1>4, <1>5, <1>6, SessionAssumption DEF SessionInv, RequestInv, At,
     Op, Requests, Loadeds, AskLoaded, Ask
<1>9. OwnerInv'
  BY <1>0, <1>1, <1>2, <1>3, <1>4, <1>5, <1>6, SessionAssumption DEF SessionInv, HolderInv,
     RequestInv, OwnerInv, At, Op, Holding, Sessions, Requests, NoHost, Host, AskLoaded, Ask
<1>10. LeaseInv'
  BY <1>0, <1>1, <1>2, <1>3, <1>4, <1>5, <1>6, SessionAssumption DEF SessionInv, HolderInv,
     OwnerInv, LeaseInv, Ending, At, Holding, Sessions, Leases, Requests, AskLoaded, Ask
<1>11. AliveInv'
  BY <1>0, <1>1, <1>2, <1>3, <1>4, <1>5, <1>6, SessionAssumption DEF SessionInv, HolderInv,
     RequestInv, OwnerInv, AliveInv, Ending, LeaseInv, At, Op, Holding, Sessions, Hosts,
     Requests, NoHost, Host, AskLoaded, Ask
<1>12. NumberInv'
  BY <1>0, <1>1, <1>2, <1>3, <1>4, <1>5, <1>6, SessionAssumption DEF SessionInv, HolderInv,
     RequestInv, NumberInv, At, Op, NoFence, Sessions, Requests, Fences, Generation, AskLoaded,
     Ask
<1>13. FenceInv'
  BY <1>0, <1>1, <1>2, <1>3, <1>4, <1>5, <1>6, SessionAssumption DEF SessionInv, HolderInv,
     NumberInv, FenceInv, Undisturbed, At, Op, NoFence, Holding, Sessions, Requests, Fences,
     Generation, Discarding, AskLoaded, Ask
<1>. QED
  BY <1>1, <1>7, <1>8, <1>9, <1>10, <1>11, <1>12, <1>13 DEF SessionInv

\* The first step of the shutdown, the flag, keeps the invariant.
LEMMA ShutFlagKeeps == ASSUME SessionInv, ShutFlag PROVE SessionInv'
<1>0. /\ generation \in Generation /\ session \in Sessions /\ lease \in Leases /\ host \in Hosts
      /\ holder \in Window \cup {NoWindow} /\ request \in Requests /\ loaded \in Loadeds /\ fence \in Fences
      /\ dialogs \in 0..MaxDialogs /\ deaths \in 0..MaxDeaths
  BY SessionTypes DEF SessionInv
<1>1. SessionTypeOK'
  BY <1>0 DEF ShutFlag, windows, SessionInv, SessionTypeOK, Generation, Sessions, Leases, Hosts,
     Requests, Loadeds, Fences
<1>2. HolderInv'
  BY <1>0, <1>1, SessionAssumption DEF SessionInv, HolderInv, Discarding, Op, Holding, Requests,
     ShutFlag, windows
<1>3. RequestInv'
  BY <1>0, <1>1, SessionAssumption DEF SessionInv, RequestInv, At, Op, Requests, Loadeds,
     ShutFlag, windows
<1>4. OwnerInv'
  BY <1>0, <1>1, SessionAssumption DEF SessionInv, HolderInv, RequestInv, OwnerInv, At, Op,
     Holding, Sessions, Requests, NoHost, Host, ShutFlag, windows
<1>5. LeaseInv'
  BY <1>0, <1>1, SessionAssumption DEF SessionInv, HolderInv, OwnerInv, LeaseInv, Ending, At,
     Holding, Sessions, Leases, Requests, ShutFlag, windows
<1>6. AliveInv'
  BY <1>0, <1>1, SessionAssumption DEF SessionInv, HolderInv, RequestInv, OwnerInv, AliveInv,
     Ending, LeaseInv, At, Op, Holding, Sessions, Hosts, Requests, NoHost, Host, ShutFlag,
     windows
<1>7. NumberInv'
  BY <1>0, <1>1, SessionAssumption DEF SessionInv, HolderInv, RequestInv, NumberInv, At, Op,
     NoFence, Sessions, Requests, Fences, Generation, ShutFlag, windows
<1>8. FenceInv'
  BY <1>0, <1>1, SessionAssumption DEF SessionInv, HolderInv, NumberInv, FenceInv, Undisturbed,
     At, Op, NoFence, Holding, Sessions, Requests, Fences, Generation, Discarding, ShutFlag,
     windows
<1>. QED
  BY <1>1, <1>2, <1>3, <1>4, <1>5, <1>6, <1>7, <1>8 DEF SessionInv

\* The second, a new generation, keeps the invariant.
LEMMA ShutSupersedeKeeps == ASSUME SessionInv, ShutSupersede PROVE SessionInv'
<1>0. /\ generation \in Generation /\ session \in Sessions /\ lease \in Leases /\ host \in Hosts
      /\ holder \in Window \cup {NoWindow} /\ request \in Requests /\ loaded \in Loadeds /\ fence \in Fences
      /\ dialogs \in 0..MaxDialogs /\ deaths \in 0..MaxDeaths
  BY SessionTypes DEF SessionInv
<1>2. generation' \in Generation /\ generation' = generation + 1 /\ generation \in Nat
  BY <1>0, SessionAssumption DEF ShutSupersede, SessionInv, NumberInv, Generation
<1>1. SessionTypeOK'
  BY <1>0, <1>2 DEF ShutSupersede, windows, SessionInv, SessionTypeOK, Generation, Sessions,
     Leases, Hosts, Requests, Loadeds, Fences
<1>3. HolderInv'
  BY <1>0, <1>1, <1>2, SessionAssumption DEF SessionInv, HolderInv, Discarding, Op, Holding,
     Requests, ShutSupersede, windows
<1>4. RequestInv'
  BY <1>0, <1>1, <1>2, SessionAssumption DEF SessionInv, RequestInv, At, Op, Requests, Loadeds,
     ShutSupersede, windows
<1>5. OwnerInv'
  BY <1>0, <1>1, <1>2, SessionAssumption DEF SessionInv, HolderInv, RequestInv, OwnerInv, At,
     Op, Holding, Sessions, Requests, NoHost, Host, ShutSupersede, windows
<1>6. LeaseInv'
  BY <1>0, <1>1, <1>2, SessionAssumption DEF SessionInv, HolderInv, OwnerInv, LeaseInv, Ending,
     At, Holding, Sessions, Leases, Requests, ShutSupersede, windows
<1>7. AliveInv'
  BY <1>0, <1>1, <1>2, SessionAssumption DEF SessionInv, HolderInv, RequestInv, OwnerInv,
     AliveInv, Ending, LeaseInv, At, Op, Holding, Sessions, Hosts, Requests, NoHost, Host,
     ShutSupersede, windows
<1>8. NumberInv'
  BY <1>0, <1>1, <1>2, SessionAssumption DEF SessionInv, HolderInv, RequestInv, NumberInv, At,
     Op, NoFence, Sessions, Requests, Fences, Generation, ShutSupersede, windows
<1>9. FenceInv'
  BY <1>0, <1>1, <1>2, SessionAssumption DEF SessionInv, HolderInv, NumberInv, FenceInv,
     Undisturbed, At, Op, NoFence, Holding, Sessions, Requests, Fences, Generation, Discarding,
     ShutSupersede, windows
<1>. QED
  BY <1>1, <1>3, <1>4, <1>5, <1>6, <1>7, <1>8, <1>9 DEF SessionInv

\* The third, the cancelled lease, keeps the invariant.
LEMMA ShutCancelKeeps == ASSUME SessionInv, ShutCancel PROVE SessionInv'
<1>0. /\ generation \in Generation /\ session \in Sessions /\ lease \in Leases /\ host \in Hosts
      /\ holder \in Window \cup {NoWindow} /\ request \in Requests /\ loaded \in Loadeds /\ fence \in Fences
      /\ dialogs \in 0..MaxDialogs /\ deaths \in 0..MaxDeaths
  BY SessionTypes DEF SessionInv
<1>2. host' \in Hosts /\ \A h \in Host : host'[h].alive => host[h].alive /\ h # lease.process
  <2>1. CASE lease.process = NoHost
    BY <1>0, <2>1, SessionAssumption DEF ShutCancel, NoHost, Host
  <2>2. CASE lease.process # NoHost
    <3>. DEFINE dead == [DeadHost EXCEPT !.reply = host[lease.process].reply]
    <3>1. lease.process \in Host /\ host' = [host EXCEPT ![lease.process] = dead]
      BY <1>0, <2>2 DEF ShutCancel, Leases
    <3>2. /\ dead \in [alive : BOOLEAN, work : Work, reply : {"none", "ok", "error", "bad"}, dialog : BOOLEAN]
          /\ ~dead.alive
      BY <1>0, <3>1 DEF DeadHost, Work, Hosts
    <3>. HIDE DEF dead
    <3>. QED
      BY <1>0, <3>1, <3>2 DEF Hosts
  <2>. QED
    BY <2>1, <2>2
<1>3. lease' \in Leases
  BY DEF ShutCancel, Leases
<1>1. SessionTypeOK'
  BY <1>0, <1>2, <1>3 DEF ShutCancel, windows, SessionInv, SessionTypeOK, Generation, Sessions,
     Leases, Hosts, Requests, Loadeds, Fences
<1>4. HolderInv'
  BY <1>0, <1>1, <1>2, <1>3, SessionAssumption DEF SessionInv, HolderInv, Discarding, Op,
     Holding, Requests, ShutCancel, windows
<1>5. RequestInv'
  BY <1>0, <1>1, <1>2, <1>3, SessionAssumption DEF SessionInv, RequestInv, At, Op, Requests,
     Loadeds, ShutCancel, windows
<1>6. OwnerInv'
  BY <1>0, <1>1, <1>2, <1>3, SessionAssumption DEF SessionInv, HolderInv, RequestInv, OwnerInv,
     At, Op, Holding, Sessions, Requests, NoHost, Host, ShutCancel, windows
<1>7. LeaseInv'
  BY <1>0, <1>1, <1>2, <1>3, SessionAssumption DEF SessionInv, HolderInv, OwnerInv, LeaseInv,
     Ending, At, Holding, Sessions, Leases, Requests, ShutCancel, windows
<1>8. AliveInv'
  BY <1>0, <1>1, <1>2, <1>3, SessionAssumption DEF SessionInv, HolderInv, RequestInv, OwnerInv,
     AliveInv, Ending, LeaseInv, At, Op, Holding, Sessions, Hosts, Requests, NoHost, Host,
     DeadHost, ShutCancel, windows
<1>9. NumberInv'
  BY <1>0, <1>1, <1>2, <1>3, SessionAssumption DEF SessionInv, HolderInv, RequestInv, NumberInv,
     At, Op, NoFence, Sessions, Requests, Fences, Generation, ShutCancel, windows
<1>10. FenceInv'
  BY <1>0, <1>1, <1>2, <1>3, SessionAssumption DEF SessionInv, HolderInv, NumberInv, FenceInv,
     Undisturbed, At, Op, NoFence, Holding, Sessions, Requests, Fences, Generation, Discarding,
     ShutCancel, windows
<1>. QED
  BY <1>1, <1>4, <1>5, <1>6, <1>7, <1>8, <1>9, <1>10 DEF SessionInv

\* The last, with the mutex of the session, keeps the invariant.
LEMMA ShutTakeKeeps == ASSUME SessionInv, ShutTake PROVE SessionInv'
<1>0. /\ generation \in Generation /\ session \in Sessions /\ lease \in Leases /\ host \in Hosts
      /\ holder \in Window \cup {NoWindow} /\ request \in Requests /\ loaded \in Loadeds /\ fence \in Fences
      /\ dialogs \in 0..MaxDialogs /\ deaths \in 0..MaxDeaths
  BY SessionTypes DEF SessionInv
<1>2. host' \in Hosts /\ \A h \in Host : host'[h].alive => host[h].alive /\ h # session.process
  BY <1>0 DEF ShutTake, Hosts, DeadHost, Sessions, NoHost, Host, Work
<1>3. /\ session' \in Sessions /\ session'.gen = session.gen /\ session'.process = NoHost
      /\ session'.project = NoWindow /\ session'.pending = NoWork
  BY <1>0 DEF ShutTake, Sessions, Work
<1>1. SessionTypeOK'
  BY <1>0, <1>2, <1>3 DEF ShutTake, windows, SessionInv, SessionTypeOK, Generation, Sessions,
     Leases, Hosts, Requests, Loadeds, Fences
<1>4. HolderInv'
  BY <1>0, <1>1, <1>2, <1>3, SessionAssumption DEF SessionInv, HolderInv, Discarding, Op,
     Holding, Requests, ShutTake, windows
<1>5. RequestInv'
  BY <1>0, <1>1, <1>2, <1>3, SessionAssumption DEF SessionInv, RequestInv, At, Op, Requests,
     Loadeds, ShutTake, windows
<1>6. OwnerInv'
  BY <1>0, <1>1, <1>2, <1>3, SessionAssumption DEF SessionInv, HolderInv, RequestInv, OwnerInv,
     At, Op, Holding, Sessions, Requests, NoHost, Host, ShutTake, windows
<1>7. LeaseInv'
  BY <1>0, <1>1, <1>2, <1>3, SessionAssumption DEF SessionInv, HolderInv, OwnerInv, LeaseInv,
     Ending, At, Holding, Sessions, Leases, Requests, ShutTake, windows
<1>8. AliveInv'
  BY <1>0, <1>1, <1>2, <1>3, SessionAssumption DEF SessionInv, HolderInv, RequestInv, OwnerInv,
     AliveInv, Ending, LeaseInv, At, Op, Holding, Sessions, Hosts, Requests, NoHost, Host,
     DeadHost, ShutTake, windows
<1>9. NumberInv'
  BY <1>0, <1>1, <1>2, <1>3, SessionAssumption DEF SessionInv, HolderInv, RequestInv, NumberInv,
     At, Op, NoFence, Sessions, Requests, Fences, Generation, ShutTake, windows
<1>10. FenceInv'
  BY <1>0, <1>1, <1>2, <1>3, SessionAssumption DEF SessionInv, HolderInv, NumberInv, FenceInv,
     Undisturbed, At, Op, NoFence, Holding, Sessions, Requests, Fences, Generation, Discarding,
     ShutTake, windows
<1>. QED
  BY <1>1, <1>4, <1>5, <1>6, <1>7, <1>8, <1>9, <1>10 DEF SessionInv

-----------------------------------------------------------------------------
(* The session as a whole.                                                 *)

\* The invariant holds at the start.
LEMMA SessionInitInv == SessionInit => SessionInv
<1>. SUFFICES ASSUME SessionInit PROVE SessionInv
  OBVIOUS
<1>1. SessionTypeOK
  <2>0. 0 \in Generation /\ 0 \in 0..MaxLoads /\ 0 \in 0..(MaxLoads + 1)
    BY SessionAssumption DEF Generation
  <2>1. generation \in Generation /\ stopping \in BOOLEAN /\ session \in Sessions /\ lease \in Leases
    BY <2>0 DEF SessionInit, Sessions, Leases, Work, NoWork
  <2>2. host \in Hosts /\ holder \in Window \cup {NoWindow}
    BY DEF SessionInit, Hosts, DeadHost, Work, NoWork
  <2>3. request \in Requests
    <3>1. NoRequest \in [phase : Phase, op : Operation, gen : Generation, fenced : BOOLEAN]
      BY <2>0 DEF NoRequest, Phase, Operation
    <3>. QED
      BY <3>1 DEF SessionInit, Requests
  <2>4. loaded \in Loadeds /\ fence \in Fences
    BY DEF SessionInit, Loadeds, Fences, Unloaded
  <2>5. /\ shut \in {"no", "stopping", "superseding", "cancelled", "done"}
        /\ dialogs \in 0..MaxDialogs /\ deaths \in 0..MaxDeaths
    BY SessionAssumption DEF SessionInit
  <2>. QED
    BY <2>1, <2>2, <2>3, <2>4, <2>5, SessionTypes
<1>2. HolderInv /\ RequestInv /\ OwnerInv
  BY SessionAssumption DEF SessionInit, HolderInv, RequestInv, OwnerInv, NoRequest, Holding, Op, At
<1>3. LeaseInv /\ AliveInv
  BY DEF SessionInit, LeaseInv, AliveInv, Ending, DeadHost, NoRequest, At
<1>4. NumberInv /\ FenceInv
  BY SessionAssumption DEF SessionInit, NumberInv, FenceInv, NoRequest, NoFence, Op, At
<1>. QED
  BY <1>1, <1>2, <1>3, <1>4 DEF SessionInv

\* Every step of a thread keeps the invariant.
LEMMA ThreadKeeps == ASSUME SessionInv, NEW w \in Window, Thread(w) PROVE SessionInv'
<1>1. \/ Over(w) \/ Refused(w) \/ GivesUp(w) \/ Settles(w) \/ Prepares(w) \/ Sends(w)
      \/ Published(w) \/ Spawns(w) \/ EntersLoad(w) \/ EntersRequest(w)
  BY ThreadCases DEF SessionInv
<1>. QED
  BY <1>1, OverKeeps, RefusedKeeps, GivesUpKeeps, SettlesKeeps, PreparesKeeps, SendsKeeps,
     PublishedKeeps, SpawnsKeeps, EntersLoadKeeps, EntersRequestKeeps

\* Every step of the session keeps the invariant.
LEMMA SessionNextKeeps == SessionInv /\ SessionNext => SessionInv'
<1>. SUFFICES ASSUME SessionInv, SessionNext PROVE SessionInv'
  OBVIOUS
<1>1. ASSUME NEW w \in Window, WindowStep(w) PROVE SessionInv'
  BY <1>1, LoadKeeps, AskKeeps DEF WindowStep
<1>2. ASSUME NEW w \in Window, Thread(w) PROVE SessionInv'
  BY <1>2, ThreadKeeps
<1>3. ASSUME NEW h \in Host, HelperStep(h) PROVE SessionInv'
  BY <1>3, HelperEffects, HelperKeeps DEF SessionInv
<1>. QED
  BY <1>1, <1>2, <1>3 DEF SessionNext

\* Steps that leave the session alone keep the invariant.
LEMMA SessionStutterKeeps == SessionInv /\ UNCHANGED sessionVars => SessionInv'
<1>. SUFFICES ASSUME SessionInv, UNCHANGED sessionVars PROVE SessionInv'
  OBVIOUS
<1>. USE DEF sessionVars, backend, windows
<1>1. SessionTypeOK'
  BY DEF SessionInv, SessionTypeOK
<1>2. HolderInv' /\ RequestInv' /\ OwnerInv'
  BY DEF SessionInv, HolderInv, RequestInv, OwnerInv, Op, At
<1>3. LeaseInv' /\ AliveInv'
  BY DEF SessionInv, LeaseInv, AliveInv, Ending, At
<1>4. NumberInv' /\ FenceInv'
  BY DEF SessionInv, NumberInv, FenceInv, Undisturbed, Op, At
<1>. QED
  BY <1>1, <1>2, <1>3, <1>4 DEF SessionInv

\* The end of the application leaves no helper.
LEMMA NoHelperLeft == SessionInv => SessionShut
<1>. SUFFICES ASSUME SessionInv PROVE SessionShut
  OBVIOUS
<1>1. session.process \in Host \cup {NoHost}
  BY SessionTypes DEF SessionInv, Sessions
<1>2. ASSUME Ending, session.process # NoHost PROVE ~host[session.process].alive
  <2>1. session.process \in Host
    BY <1>1, <1>2
  <2>2. \A w \in Window : ~At(w, "spawned")
    BY <1>2 DEF SessionInv, OwnerInv, At
  <2>. QED
    BY <1>2, <2>1, <2>2 DEF SessionInv, AliveInv
<1>3. shut = "done" => \A h \in Host : ~host[h].alive
  BY DEF SessionInv, AliveInv, Ending
<1>. QED
  BY <1>2, <1>3 DEF SessionShut, Ending

\* What a window learns when its poll ends.
LEMMA PollEnds ==
  ASSUME SessionInv, NEW w \in Window, Thread(w), Op(w) = "status", At(w, "idle")'
  PROVE  \/ loaded'[w].unavailable \/ loaded'[w].waiting
         \/ session'.project = w /\ session'.native = loaded'[w].native
<1>. DEFINE Known == \/ loaded'[w].unavailable \/ loaded'[w].waiting
                     \/ session'.project = w /\ session'.native = loaded'[w].native
<1>0. SessionTypeOK /\ request \in Requests /\ session \in Sessions /\ host \in Hosts
  BY SessionTypes DEF SessionInv
<1>. SUFFICES ASSUME ~At(w, "idle") PROVE Known
  BY DEF Thread, Superseded, EnterDiscard, EnterRefused, EnterRequest, EnterLoad, Settle, Replace,
         LoadStops, LoadSpawns, Publish, Send, Receive, Admitted, At
<1>1. loaded[w].native # NoHost
  BY DEF SessionInv, RequestInv
<1>2. ASSUME NEW dialog \in BOOLEAN, Fail(w, dialog) PROVE Known
  BY <1>0, <1>1, <1>2, RejectEnds DEF Fail
<1>3. ASSUME NEW phase \in Phase \ {"idle"}, Move(w, phase) PROVE FALSE
  BY <1>0, <1>3 DEF Move, Requests, At
<1>4. Op(w) \notin Discarding \cup {"load", "unload"}
  BY DEF Discarding
<1>5. ~At(w, "settling") /\ ~At(w, "prepared") /\ ~At(w, "spawned")
  BY DEF SessionInv, HolderInv, At
<1>6. CASE Superseded(w)
  BY <1>2, <1>6 DEF Superseded
<1>7. CASE EnterDiscard(w) \/ EnterLoad(w)
  BY <1>4, <1>7 DEF EnterDiscard, EnterLoad
<1>8. CASE EnterRefused(w)
  BY <1>2, <1>8 DEF EnterRefused
<1>9. CASE EnterRequest(w)
  BY <1>3, <1>9 DEF EnterRequest, Phase, Holding
<1>10. CASE Settle(w)
  <2>1. CASE Outcome = "ok"
    BY <1>10, <2>1 DEF Settle, Fatal, windows, At
  <2>2. CASE Outcome # "ok"
    <3>1. host[session.process].reply \in {"none", "ok", "error", "bad"}
      BY <1>0, <1>10 DEF Settle, SessionInv, OwnerInv, Sessions, Hosts
    <3>2. Outcome \in {"ok", "error", "dialog"} \cup Fatal
      BY <3>1 DEF Outcome, Fatal
    <3>3. Fail(w, FALSE) \/ Fail(w, TRUE)
      BY <1>10, <2>2, <3>2 DEF Settle, Fatal
    <3>. QED
      BY <1>2, <3>3
  <2>. QED
    BY <2>1, <2>2
<1>11. CASE Replace(w) \/ LoadStops(w) \/ LoadSpawns(w) \/ Publish(w)
  BY <1>5, <1>11 DEF Replace, LoadStops, LoadSpawns, Publish
<1>12. CASE Send(w)
  <2>1. CASE session.closed
    BY <1>2, <1>4, <1>12, <2>1 DEF Send
  <2>2. CASE ~session.closed
    BY <1>3, <1>12, <2>2 DEF Send, Phase, Holding
  <2>. QED
    BY <2>1, <2>2
<1>13. CASE Receive(w)
  <2>0. session.process \in Host /\ session.project = w /\ session.pending = "status"
    BY <1>0, <1>13, SessionAssumption DEF Receive, SessionInv, OwnerInv, Sessions, At
  <2>1. CASE Outcome = "ok"
    <3>1. TakeAnswer(FALSE) /\ Answered(w, session.process)
      BY <1>4, <1>13, <2>1 DEF Receive, Fatal
    <3>2. host[session.process].reply = "ok"
      BY <2>1 DEF Outcome
    <3>3. session'.project = w /\ session'.native = session.process
      BY <1>0, <2>0, <3>1, <3>2, TakeTakes DEF Takes
    <3>4. CASE Reject(w, FALSE)
      BY <1>0, <1>1, <3>4, RejectEnds
    <3>5. CASE Accept(w, session.process)
      BY <1>0, <2>0, <3>3, <3>5, AcceptEnds
    <3>. QED
      BY <3>1, <3>4, <3>5 DEF Answered
  <2>2. CASE Outcome # "ok"
    <3>1. host[session.process].reply \in {"none", "ok", "error", "bad"}
      BY <1>0, <2>0 DEF Hosts
    <3>2. Outcome \in {"ok", "error", "dialog"} \cup Fatal
      BY <3>1 DEF Outcome, Fatal
    <3>3. Fail(w, FALSE) \/ Fail(w, TRUE)
      BY <1>13, <2>2, <3>2 DEF Receive, Fatal
    <3>. QED
      BY <1>2, <3>3
  <2>. QED
    BY <2>1, <2>2
<1>. QED
  BY <1>6, <1>7, <1>8, <1>9, <1>10, <1>11, <1>12, <1>13 DEF Thread

\* A thread leaves the requests of the others alone.
LEMMA ThreadOwn ==
  ASSUME SessionInv, NEW w \in Window, NEW v \in Window \ {w}, Thread(w)
  PROVE  request'[v] = request[v]
<1>1. \/ Over(w) \/ Refused(w) \/ GivesUp(w) \/ Settles(w) \/ Prepares(w) \/ Sends(w)
      \/ Published(w) \/ Spawns(w) \/ EntersLoad(w) \/ EntersRequest(w)
  BY ThreadCases DEF SessionInv
<1>2. request \in Requests
  BY SessionTypes DEF SessionInv
<1>. QED
  BY <1>1, <1>2 DEF Over, Refused, Ends, GivesUp, Settles, Prepares, Sends, Published, Spawns,
     EntersLoad, EntersRequest, Moves, Elsewhere, Requests

\* Who can have changed a request.
LEMMA WhoSteps ==
  ASSUME SessionInv, SessionNext, NEW w \in Window
  PROVE  WindowStep(w) \/ Thread(w) \/ request'[w] = request[w]
<1>0. request \in Requests
  BY SessionTypes DEF SessionInv
<1>1. ASSUME NEW v \in Window \ {w}, WindowStep(v) PROVE request'[w] = request[w]
  BY <1>0, <1>1 DEF WindowStep, Load, AskLoaded, Ask, Requests
<1>2. ASSUME NEW v \in Window \ {w}, Thread(v) PROVE request'[w] = request[w]
  BY <1>2, ThreadOwn
<1>3. ASSUME NEW h \in Host, HelperStep(h) PROVE request'[w] = request[w]
  BY <1>3, HelperEffects DEF HelperEffect, windows, SessionInv
<1>. QED
  BY <1>1, <1>2, <1>3 DEF SessionNext

\* What a window learns when its poll ends, whoever made the step.
LEMMA PollStep ==
  ASSUME SessionInv, SessionNext, NEW w \in Window, Op(w) = "status", ~At(w, "idle"), At(w, "idle")'
  PROVE  \/ loaded'[w].unavailable \/ loaded'[w].waiting
         \/ session'.project = w /\ session'.native = loaded'[w].native
<1>1. ~WindowStep(w)
  BY DEF WindowStep, Load, AskLoaded
<1>2. request'[w] # request[w]
  BY DEF At
<1>. QED
  BY <1>1, <1>2, WhoSteps, PollEnds

\* A recovery is accepted, and gets the mutex, only when no other window
\* has the session.
LEMMA RecoveryStep ==
  ASSUME SessionInv, SessionNext, NEW w \in Window
  PROVE  /\ At(w, "idle") /\ At(w, "asked")' /\ request'[w].fenced =>
              \A v \in Others(w) :
                /\ session.project # v
                /\ ~At(v, "idle") /\ Op(v) = "load" => request[v].gen < generation
         /\ request[w].fenced /\ At(w, "asked") /\ At(w, "settling")' =>
              session.project \notin Others(w)
<1>0. request \in Requests /\ fence \in Fences
  BY SessionTypes DEF SessionInv
<1>1. ASSUME At(w, "idle"), At(w, "asked")', request'[w].fenced
      PROVE  Undisturbed(w)
  <2>1. ~Thread(w)
    BY <1>1 DEF Thread, Superseded, EnterDiscard, EnterRefused, EnterRequest, EnterLoad, Settle,
       Replace, LoadStops, LoadSpawns, Publish, Send, Receive, Admitted, At
  <2>2. WindowStep(w)
    BY <1>1, <2>1, WhoSteps DEF At
  <2>3. ASSUME NEW operation \in Operation \ {"load"}, AskLoaded(w, operation) PROVE FALSE
    BY <1>0, <1>1, <2>3 DEF AskLoaded, Ask, Requests
  <2>4. Load(w)
    BY <2>2, <2>3 DEF WindowStep
  <2>5. fence[w] # NoFence
    <3>1. SUFFICES ASSUME fence[w] = NoFence PROVE FALSE
      OBVIOUS
    <3>2. request'[w] = [phase |-> "asked", op |-> "load", gen |-> generation + 1, fenced |-> fence[w] # NoFence]
      BY <1>0, <2>4 DEF Load, Ask, Requests
    <3>3. (fence[w] # NoFence) = FALSE
      BY <3>1
    <3>4. request'[w] = [phase |-> "asked", op |-> "load", gen |-> generation + 1, fenced |-> FALSE]
      BY Zenon, <3>2, <3>3
    <3>. QED
      BY <1>1, <3>4
  <2>. QED
    BY <2>4, <2>5 DEF Load, SessionInv, FenceInv
<1>2. ASSUME request[w].fenced, At(w, "asked"), At(w, "settling")'
      PROVE  Undisturbed(w)
  <2>1. ~WindowStep(w)
    BY <1>2 DEF WindowStep, Load, AskLoaded, At
  <2>2. Thread(w)
    BY <1>2, <2>1, WhoSteps DEF At
  <2>3. \/ Over(w) \/ Refused(w) \/ GivesUp(w) \/ Settles(w) \/ Prepares(w) \/ Sends(w)
        \/ Published(w) \/ Spawns(w) \/ EntersLoad(w) \/ EntersRequest(w)
    BY <2>2, ThreadCases DEF SessionInv
  <2>4. EntersLoad(w)
    BY <1>0, <1>2, <2>3 DEF Over, Refused, Ends, GivesUp, Settles, Prepares, Sends, Published,
       Spawns, EntersRequest, Moves, NoRequest, At, Requests
  <2>. QED
    BY <1>2, <2>4 DEF EntersLoad, Admitted, Fresh, SessionInv, FenceInv
<1>. QED
  BY <1>1, <1>2 DEF Undisturbed, Others

-----------------------------------------------------------------------------
(* The inductive invariant of the scan.                                    *)

\* The phases in which a package is in hand, and those in which the worker
\* has what it read when it opened.
Handling == {"item", "spawned", "probing", "completing"}
Reading == WorkerPhase \ {"idle", "opening", "ended"}

\* After the shutdown no helper of a scan is known.
LeaseOfScanInv == scanLease => probe # "running"

\* The worker and the control of the run agree.
HandInv ==
  /\ In("idle") <=> ~control.running
  /\ worker.phase \in Handling => InHand \in Package /\ worker.hand = InHand
  /\ worker.phase \in {"manual", "timeout"} => worker.hand \in Package /\ worker.hand \in worker.skipped

\* What the worker has found out about the package in hand.
ResultInv ==
  /\ worker.phase # "completing" => worker.result = "none" /\ ~worker.fresh
  /\ worker.phase \in {"spawned", "probing"} => worker.hand \notin worker.blocked
  /\ In("completing") => (worker.hand \in worker.blocked <=> worker.result = "none")
  /\ worker.result = "cancelled" => scanLease
  /\ worker.result \notin {"none", "cancelled"} /\ ~worker.fresh =>
       worker.result = worker.old[worker.hand].kind

\* When a package was restored: in this run only if the run has been told.
RestoredInv ==
  \A p \in Package :
    /\ restored[p] <= control.run
    /\ control.running /\ p \notin control.invalid => restored[p] = 0 \/ restored[p] < control.run

\* What the worker would write about a package that was restored.
Later(entry, p) == entry.kind = "none" \/ entry.run > restored[p]

\* What the worker read when it opened holds, but for skips and restores since.
ReadInv ==
  worker.phase \in Reading =>
    /\ worker.blocked \subseteq excluded \cup control.invalid
    /\ \A p \in Package :
         p \notin excluded \cup control.invalid /\ restored[p] # 0 =>
           Later(worker.old[p], p) /\ Later(worker.entries[p], p)

\* What the worker has to say about each package it took.
SeenInv ==
  \A p \in worker.seen :
    \/ p \in worker.skipped \cup worker.blocked
    \/ worker.entries[p].kind # "none"
    \/ p = worker.hand /\ worker.phase \in Handling
    \/ p = worker.hand /\ worker.phase \in {"committing", "ended"} /\ (control.cancelled \/ scanLease)

\* A worker that has not opened has found nothing.
OpenInv == In("opening") => worker.seen = {} /\ worker.entries = [p \in Package |-> NoEntry]

\* The catalog is the one the worker read, but for restores since.
OldInv ==
  worker.phase \in Reading => \A p \in Package : catalog[p] \in {worker.old[p], NoEntry}

\* The parts of the type invariant.
Entries == [Package -> Entry]
Controls == [run : Run, running : BOOLEAN, cancelled : BOOLEAN, invalid : SUBSET Package,
             item : [package : Package \cup {NoPackage}, skipped : BOOLEAN]]
Workers == [phase : WorkerPhase, hand : Package \cup {NoPackage}, todo : SUBSET Package, seen : SUBSET Package,
            skipped : SUBSET Package, blocked : SUBSET Package, old : Entries, entries : Entries,
            result : Result, fresh : BOOLEAN]
Probe == {"none", "spawned", "running", "dead"}

ScanInv ==
  /\ ScanTypeOK
  /\ LeaseOfScanInv /\ HandInv /\ ResultInv /\ RestoredInv /\ RestoreWins /\ ReadInv /\ SeenInv
  /\ OldInv /\ OpenInv

\* The parts of the type invariant.
LEMMA ScanTypes ==
  ScanTypeOK <=>
    /\ catalog \in Entries /\ excluded \in SUBSET Package /\ control \in Controls
    /\ closing \in BOOLEAN /\ scanLease \in BOOLEAN /\ probe \in Probe
    /\ worker \in Workers /\ restored \in [Package -> Run]
BY DEF ScanTypeOK, Entries, Controls, Workers, Probe

\* The entry of a package that nothing is known about.
LEMMA NoEntryOK == NoEntry \in Entry /\ NoEntry.kind = "none" /\ [p \in Package |-> NoEntry] \in Entries
BY ScanAssumption DEF NoEntry, Entry, Run, Entries

\* A scan that starts keeps the invariant.
LEMMA ScanStartKeeps == ASSUME ScanInv, ScanStart PROVE ScanInv'
<1>0. /\ catalog \in Entries /\ excluded \in SUBSET Package /\ control \in Controls
      /\ closing \in BOOLEAN /\ scanLease \in BOOLEAN /\ probe \in Probe
      /\ worker \in Workers /\ restored \in [Package -> Run]
  BY ScanTypes DEF ScanInv
<1>1. ScanTypeOK'
  <2>1. catalog' \in Entries /\ excluded' \in SUBSET Package /\ restored' \in [Package -> Run]
    BY <1>0 DEF ScanStart, KeepStorage, Entries, Run
  <2>2. control' \in Controls
    BY <1>0, ScanAssumption DEF ScanStart, NoItem, Controls, Run
  <2>3. worker' \in Workers
    BY <1>0, NoEntryOK DEF ScanStart, Resting, Workers, WorkerPhase, Result, Entries
  <2>4. closing' \in BOOLEAN /\ scanLease' \in BOOLEAN /\ probe' \in Probe
    BY <1>0 DEF ScanStart, KeepShut, Probe
  <2>. QED
    BY <2>1, <2>2, <2>3, <2>4 DEF ScanTypeOK, Entries, Controls, Workers, Probe
<1>2. LeaseOfScanInv'
  BY <1>0 DEF ScanStart, KeepShut, LeaseOfScanInv, ScanInv
<1>3. HandInv'
  BY <1>0 DEF ScanStart, KeepStorage, Resting, NoItem, HandInv, ScanInv, Handling, In, InHand,
     Controls, Workers
<1>4. ResultInv'
  BY <1>0 DEF ScanStart, KeepShut, Resting, ResultInv, HandInv, ScanInv, Handling, In, InHand,
     Controls, Workers, Result
<1>5. RestoredInv'
  BY <1>0 DEF ScanStart, KeepStorage, NoItem, RestoredInv, HandInv, ScanInv, In, Controls,
     Workers, Run
<1>6. RestoreWins'
  BY <1>0 DEF ScanStart, KeepStorage, RestoreWins, ScanInv, Entries, Entry, Run
<1>7. ReadInv'
  BY <1>0 DEF ScanStart, KeepStorage, Resting, ReadInv, RestoreWins, RestoredInv, HandInv,
     ResultInv, ScanInv, Reading, WorkerPhase, Later, In, Controls, Workers, Entries, Entry,
     NoEntry, Run
<1>8. SeenInv'
  BY <1>0 DEF ScanStart, KeepShut, Resting, SeenInv, HandInv, ResultInv, ScanInv, Handling, In,
     Controls, Workers, Entries, NoEntry
<1>9. OpenInv'
  BY <1>0 DEF ScanStart, Resting, OpenInv, HandInv, ScanInv, In, Workers
<1>10. OldInv'
  BY <1>0 DEF ScanStart, KeepStorage, Resting, OldInv, ScanInv, Reading, WorkerPhase, Workers,
     Entries
<1>. QED
  BY <1>1, <1>2, <1>3, <1>4, <1>5, <1>6, <1>7, <1>8, <1>9, <1>10 DEF ScanInv

\* Reading the exclusions and the catalog keeps the invariant.
LEMMA ScanOpenKeeps == ASSUME ScanInv, ScanOpen PROVE ScanInv'
<1>0. /\ catalog \in Entries /\ excluded \in SUBSET Package /\ control \in Controls
      /\ closing \in BOOLEAN /\ scanLease \in BOOLEAN /\ probe \in Probe
      /\ worker \in Workers /\ restored \in [Package -> Run]
  BY ScanTypes DEF ScanInv
<1>1. ScanTypeOK'
  <2>1. catalog' \in Entries /\ excluded' \in SUBSET Package /\ restored' \in [Package -> Run]
    BY <1>0 DEF ScanOpen, KeepStorage, Entries, Run
  <2>2. control' \in Controls
    BY <1>0 DEF ScanOpen, Controls
  <2>3. worker' \in Workers
    BY <1>0 DEF ScanOpen, Workers, WorkerPhase, Result
  <2>4. closing' \in BOOLEAN /\ scanLease' \in BOOLEAN /\ probe' \in Probe
    BY <1>0 DEF ScanOpen, KeepShut, Probe
  <2>. QED
    BY <2>1, <2>2, <2>3, <2>4 DEF ScanTypeOK, Entries, Controls, Workers, Probe
<1>2. LeaseOfScanInv'
  BY <1>0 DEF ScanOpen, KeepShut, LeaseOfScanInv, ScanInv
<1>3. HandInv'
  BY <1>0 DEF ScanOpen, KeepStorage, HandInv, ScanInv, Handling, In, InHand, Controls, Workers
<1>4. ResultInv'
  BY <1>0 DEF ScanOpen, KeepShut, ResultInv, HandInv, ScanInv, Handling, In, InHand, Controls,
     Workers, Result
<1>5. RestoredInv'
  BY <1>0 DEF ScanOpen, KeepStorage, RestoredInv, HandInv, ScanInv, In, Controls, Workers, Run
<1>6. RestoreWins'
  BY <1>0 DEF ScanOpen, KeepStorage, RestoreWins, ScanInv, Entries, Entry, Run
<1>7. ReadInv'
  BY <1>0, NoEntryOK DEF ScanOpen, KeepStorage, ReadInv, RestoreWins, OpenInv, ScanInv, Reading,
     Later, In, Workers, Entries
<1>8. SeenInv'
  BY <1>0 DEF ScanOpen, KeepShut, SeenInv, OpenInv, ScanInv, Handling, In, Workers
<1>9. OpenInv'
  BY <1>0 DEF ScanOpen, OpenInv, HandInv, ScanInv, In, Workers
<1>10. OldInv'
  BY <1>0 DEF ScanOpen, KeepStorage, OldInv, ScanInv, Reading, WorkerPhase, In, Workers, Entries
<1>. QED
  BY <1>1, <1>2, <1>3, <1>4, <1>5, <1>6, <1>7, <1>8, <1>9, <1>10 DEF ScanInv

\* A scan that ends without a commit keeps the invariant.
LEMMA ScanFailsKeeps == ASSUME ScanInv, ScanFails PROVE ScanInv'
<1>0. /\ catalog \in Entries /\ excluded \in SUBSET Package /\ control \in Controls
      /\ closing \in BOOLEAN /\ scanLease \in BOOLEAN /\ probe \in Probe
      /\ worker \in Workers /\ restored \in [Package -> Run]
  BY ScanTypes DEF ScanInv
<1>1. ScanTypeOK'
  <2>1. catalog' \in Entries /\ excluded' \in SUBSET Package /\ restored' \in [Package -> Run]
    BY <1>0 DEF ScanFails, KeepStorage, Entries, Run
  <2>2. control' \in Controls
    BY <1>0 DEF ScanFails, Controls
  <2>3. worker' \in Workers
    BY <1>0 DEF ScanFails, To, Workers, WorkerPhase, Result
  <2>4. closing' \in BOOLEAN /\ scanLease' \in BOOLEAN /\ probe' \in Probe
    BY <1>0 DEF ScanFails, KeepShut, Probe
  <2>. QED
    BY <2>1, <2>2, <2>3, <2>4 DEF ScanTypeOK, Entries, Controls, Workers, Probe
<1>2. LeaseOfScanInv'
  BY <1>0 DEF ScanFails, KeepShut, To, LeaseOfScanInv, ScanInv
<1>3. HandInv'
  BY <1>0 DEF ScanFails, KeepStorage, To, HandInv, ScanInv, Handling, In, InHand, Controls, Workers
<1>4. ResultInv'
  BY <1>0 DEF ScanFails, KeepShut, To, ResultInv, HandInv, ScanInv, Handling, In, InHand, Controls,
     Workers, Result
<1>5. RestoredInv'
  BY <1>0 DEF ScanFails, KeepStorage, RestoredInv, HandInv, ScanInv, In, Controls, Workers, Run
<1>6. RestoreWins'
  BY <1>0 DEF ScanFails, KeepStorage, RestoreWins, ScanInv, Entries, Entry, Run
<1>7. ReadInv'
  BY <1>0 DEF ScanFails, KeepStorage, To, ReadInv, RestoreWins, RestoredInv, HandInv, ResultInv,
     ScanInv, Reading, WorkerPhase, Later, In, Controls, Workers, Entries, Entry, Run
<1>8. SeenInv'
  BY <1>0 DEF ScanFails, KeepShut, To, SeenInv, HandInv, ResultInv, ScanInv, Handling, In,
     Controls, Workers, Entries
<1>9. OpenInv'
  BY <1>0 DEF ScanFails, To, OpenInv, HandInv, ScanInv, In, Workers
<1>10. OldInv'
  BY <1>0 DEF ScanFails, KeepStorage, To, OldInv, ScanInv, Reading, WorkerPhase, Workers,
     Entries
<1>. QED
  BY <1>1, <1>2, <1>3, <1>4, <1>5, <1>6, <1>7, <1>8, <1>9, <1>10 DEF ScanInv

\* Taking a package in hand keeps the invariant.
LEMMA TakeItemKeeps == ASSUME ScanInv, NEW x \in Package, TakeItem(x) PROVE ScanInv'
<1>0. /\ catalog \in Entries /\ excluded \in SUBSET Package /\ control \in Controls
      /\ closing \in BOOLEAN /\ scanLease \in BOOLEAN /\ probe \in Probe
      /\ worker \in Workers /\ restored \in [Package -> Run]
  BY ScanTypes DEF ScanInv
<1>1. ScanTypeOK'
  <2>1. catalog' \in Entries /\ excluded' \in SUBSET Package /\ restored' \in [Package -> Run]
    BY <1>0 DEF TakeItem, KeepStorage, Entries, Run
  <2>2. control' \in Controls
    BY <1>0 DEF TakeItem, Controls
  <2>3. worker' \in Workers
    BY <1>0 DEF TakeItem, Workers, WorkerPhase, Result
  <2>4. closing' \in BOOLEAN /\ scanLease' \in BOOLEAN /\ probe' \in Probe
    BY <1>0 DEF TakeItem, KeepShut, Probe
  <2>. QED
    BY <2>1, <2>2, <2>3, <2>4 DEF ScanTypeOK, Entries, Controls, Workers, Probe
<1>2. LeaseOfScanInv'
  BY <1>0 DEF TakeItem, KeepShut, LeaseOfScanInv, ScanInv
<1>3. HandInv'
  BY <1>0 DEF TakeItem, KeepStorage, HandInv, ScanInv, Handling, In, InHand, Controls, Workers
<1>4. ResultInv'
  BY <1>0 DEF TakeItem, KeepShut, ResultInv, HandInv, ScanInv, Handling, In, InHand, Controls,
     Workers, Result
<1>5. RestoredInv'
  BY <1>0 DEF TakeItem, KeepStorage, RestoredInv, HandInv, ScanInv, In, Controls, Workers, Run
<1>6. RestoreWins'
  BY <1>0 DEF TakeItem, KeepStorage, RestoreWins, ScanInv, Entries, Entry, Run
<1>7. ReadInv'
  <2>1. worker.phase \in Reading
    BY <1>0 DEF TakeItem, In, Reading, WorkerPhase
  <2>2. /\ worker'.blocked = worker.blocked /\ worker'.old = worker.old /\ worker'.entries = worker.entries
        /\ excluded' = excluded /\ restored' = restored /\ control'.invalid = control.invalid
    BY <1>0 DEF TakeItem, KeepStorage, KeepShut, Workers, Controls
  <2>. QED
    BY <2>1, <2>2 DEF ReadInv, Later, ScanInv
<1>8. SeenInv'
  BY <1>0 DEF TakeItem, KeepShut, SeenInv, HandInv, ResultInv, ScanInv, Handling, In, Controls,
     Workers, Entries
<1>9. OpenInv'
  BY <1>0 DEF TakeItem, OpenInv, HandInv, ScanInv, In, Workers
<1>10. OldInv'
  BY <1>0 DEF TakeItem, KeepStorage, OldInv, ScanInv, Reading, WorkerPhase, In, Workers, Entries
<1>. QED
  BY <1>1, <1>2, <1>3, <1>4, <1>5, <1>6, <1>7, <1>8, <1>9, <1>10 DEF ScanInv

\* Going to the commit keeps the invariant.
LEMMA StopTakingKeeps == ASSUME ScanInv, StopTaking PROVE ScanInv'
<1>0. /\ catalog \in Entries /\ excluded \in SUBSET Package /\ control \in Controls
      /\ closing \in BOOLEAN /\ scanLease \in BOOLEAN /\ probe \in Probe
      /\ worker \in Workers /\ restored \in [Package -> Run]
  BY ScanTypes DEF ScanInv
<1>1. ScanTypeOK'
  <2>1. catalog' \in Entries /\ excluded' \in SUBSET Package /\ restored' \in [Package -> Run]
    BY <1>0 DEF StopTaking, KeepStorage, Entries, Run
  <2>2. control' \in Controls
    BY <1>0 DEF StopTaking, Controls
  <2>3. worker' \in Workers
    BY <1>0 DEF StopTaking, To, Workers, WorkerPhase, Result
  <2>4. closing' \in BOOLEAN /\ scanLease' \in BOOLEAN /\ probe' \in Probe
    BY <1>0 DEF StopTaking, KeepShut, Probe
  <2>. QED
    BY <2>1, <2>2, <2>3, <2>4 DEF ScanTypeOK, Entries, Controls, Workers, Probe
<1>2. LeaseOfScanInv'
  BY <1>0 DEF StopTaking, KeepShut, To, LeaseOfScanInv, ScanInv
<1>3. HandInv'
  BY <1>0 DEF StopTaking, KeepStorage, To, HandInv, ScanInv, Handling, In, InHand, Controls, Workers
<1>4. ResultInv'
  BY <1>0 DEF StopTaking, KeepShut, To, ResultInv, HandInv, ScanInv, Handling, In, InHand, Controls,
     Workers, Result
<1>5. RestoredInv'
  BY <1>0 DEF StopTaking, KeepStorage, RestoredInv, HandInv, ScanInv, In, Controls, Workers, Run
<1>6. RestoreWins'
  BY <1>0 DEF StopTaking, KeepStorage, RestoreWins, ScanInv, Entries, Entry, Run
<1>7. ReadInv'
  <2>1. worker.phase \in Reading
    BY <1>0 DEF StopTaking, In, Reading, WorkerPhase
  <2>2. /\ worker'.blocked = worker.blocked /\ worker'.old = worker.old /\ worker'.entries = worker.entries
        /\ excluded' = excluded /\ restored' = restored /\ control'.invalid = control.invalid
    BY <1>0 DEF StopTaking, KeepStorage, KeepShut, To, Workers, Controls
  <2>. QED
    BY <2>1, <2>2 DEF ReadInv, Later, ScanInv
<1>8. SeenInv'
  BY <1>0 DEF StopTaking, KeepShut, To, SeenInv, HandInv, ResultInv, ScanInv, Handling, In,
     Controls, Workers, Entries
<1>9. OpenInv'
  BY <1>0 DEF StopTaking, To, OpenInv, HandInv, ScanInv, In, Workers
<1>10. OldInv'
  BY <1>0 DEF StopTaking, KeepStorage, To, OldInv, ScanInv, Reading, WorkerPhase, In, Workers,
     Entries
<1>. QED
  BY <1>1, <1>2, <1>3, <1>4, <1>5, <1>6, <1>7, <1>8, <1>9, <1>10 DEF ScanInv

\* A package that is not opened keeps the invariant.
LEMMA KnownItemKeeps == ASSUME ScanInv, KnownItem PROVE ScanInv'
<1>0. /\ catalog \in Entries /\ excluded \in SUBSET Package /\ control \in Controls
      /\ closing \in BOOLEAN /\ scanLease \in BOOLEAN /\ probe \in Probe
      /\ worker \in Workers /\ restored \in [Package -> Run]
  BY ScanTypes DEF ScanInv
<1>1. ScanTypeOK'
  <2>1. catalog' \in Entries /\ excluded' \in SUBSET Package /\ restored' \in [Package -> Run]
    BY <1>0 DEF KnownItem, KeepStorage, Entries, Run
  <2>2. control' \in Controls
    BY <1>0 DEF KnownItem, Controls
  <2>3. worker' \in Workers
    <3>1. InHand \in Package
      BY DEF KnownItem, ScanInv, HandInv, Handling, In
    <3>2. worker.old[InHand].kind \in Result
      BY <1>0, <3>1 DEF Workers, Entries, Entry, Result
    <3>. QED
      BY <1>0, <3>2 DEF KnownItem, Workers, WorkerPhase
  <2>4. closing' \in BOOLEAN /\ scanLease' \in BOOLEAN /\ probe' \in Probe
    BY <1>0 DEF KnownItem, KeepShut, Probe
  <2>. QED
    BY <2>1, <2>2, <2>3, <2>4 DEF ScanTypeOK, Entries, Controls, Workers, Probe
<1>2. LeaseOfScanInv'
  BY <1>0 DEF KnownItem, KeepShut, LeaseOfScanInv, ScanInv
<1>3. HandInv'
  BY <1>0 DEF KnownItem, KeepStorage, HandInv, ScanInv, Handling, In, InHand, Controls, Workers
<1>4. ResultInv'
  <2>1. worker.result = "none" /\ ~worker.fresh /\ worker.hand = InHand /\ InHand \in Package
    BY DEF KnownItem, ScanInv, ResultInv, HandInv, Handling, In
  <2>2. worker.old[InHand].kind \in {"none", "found", "failed"}
    BY <1>0, <2>1 DEF Workers, Entries, Entry
  <2>3. CASE InHand \in worker.blocked /\ worker' = [worker EXCEPT !.phase = "completing"]
    BY <1>0, <2>1, <2>3 DEF ResultInv, In, Workers
  <2>4. CASE InHand \notin worker.blocked /\ worker.old[InHand].kind # "none"
             /\ worker' = [worker EXCEPT !.phase = "completing", !.result = worker.old[InHand].kind]
    BY <1>0, <2>1, <2>2, <2>4 DEF ResultInv, In, Workers
  <2>. QED
    BY <2>3, <2>4 DEF KnownItem
<1>5. RestoredInv'
  BY <1>0 DEF KnownItem, KeepStorage, RestoredInv, HandInv, ScanInv, In, Controls, Workers, Run
<1>6. RestoreWins'
  BY <1>0 DEF KnownItem, KeepStorage, RestoreWins, ScanInv, Entries, Entry, Run
<1>7. ReadInv'
  <2>1. worker.phase \in Reading
    BY <1>0 DEF KnownItem, In, Reading, WorkerPhase
  <2>2. /\ worker'.blocked = worker.blocked /\ worker'.old = worker.old /\ worker'.entries = worker.entries
        /\ excluded' = excluded /\ restored' = restored /\ control'.invalid = control.invalid
    BY <1>0 DEF KnownItem, KeepStorage, KeepShut, Workers, Controls
  <2>. QED
    BY <2>1, <2>2 DEF ReadInv, Later, ScanInv
<1>8. SeenInv'
  BY <1>0 DEF KnownItem, KeepShut, SeenInv, HandInv, ResultInv, ScanInv, Handling, In, Controls,
     Workers, Entries
<1>9. OpenInv'
  BY <1>0 DEF KnownItem, OpenInv, HandInv, ScanInv, In, Workers
<1>10. OldInv'
  BY <1>0 DEF KnownItem, KeepStorage, OldInv, ScanInv, Reading, WorkerPhase, In, Workers,
     Entries
<1>. QED
  BY <1>1, <1>2, <1>3, <1>4, <1>5, <1>6, <1>7, <1>8, <1>9, <1>10 DEF ScanInv

\* Starting the helper of a package keeps the invariant.
LEMMA StartProbeKeeps == ASSUME ScanInv, StartProbe PROVE ScanInv'
<1>0. /\ catalog \in Entries /\ excluded \in SUBSET Package /\ control \in Controls
      /\ closing \in BOOLEAN /\ scanLease \in BOOLEAN /\ probe \in Probe
      /\ worker \in Workers /\ restored \in [Package -> Run]
  BY ScanTypes DEF ScanInv
<1>1. ScanTypeOK'
  <2>1. catalog' \in Entries /\ excluded' \in SUBSET Package /\ restored' \in [Package -> Run]
    BY <1>0 DEF StartProbe, KeepStorage, Entries, Run
  <2>2. control' \in Controls
    BY <1>0 DEF StartProbe, Controls
  <2>3. worker' \in Workers
    <3>1. CASE To("spawned")
      BY <1>0, <3>1 DEF To, Workers, WorkerPhase
    <3>2. CASE \E result \in {"failed", "timeout"} :
                 worker' = [worker EXCEPT !.phase = "completing", !.fresh = TRUE,
                              !.result = IF scanLease THEN "cancelled" ELSE result]
      BY <1>0, <3>2 DEF Workers, WorkerPhase, Result
    <3>. QED
      BY <3>1, <3>2 DEF StartProbe
  <2>4. closing' \in BOOLEAN /\ scanLease' \in BOOLEAN /\ probe' \in Probe
    BY <1>0 DEF StartProbe, KeepShut, Probe
  <2>. QED
    BY <2>1, <2>2, <2>3, <2>4 DEF ScanTypeOK, Entries, Controls, Workers, Probe
<1>2. LeaseOfScanInv'
  BY <1>0 DEF StartProbe, KeepShut, To, LeaseOfScanInv, ScanInv
<1>3. HandInv'
  BY <1>0, ScanAssumption DEF StartProbe, KeepStorage, To, HandInv, ScanInv, Handling, In, InHand,
     Controls, Workers
<1>4. ResultInv'
  BY <1>0 DEF StartProbe, KeepShut, To, ResultInv, HandInv, ScanInv, Handling, In, InHand, Controls,
     Workers, Result
<1>5. RestoredInv'
  BY <1>0 DEF StartProbe, KeepStorage, RestoredInv, HandInv, ScanInv, In, Controls, Workers, Run
<1>6. RestoreWins'
  BY <1>0 DEF StartProbe, KeepStorage, RestoreWins, ScanInv, Entries, Entry, Run
<1>7. ReadInv'
  <2>1. worker.phase \in Reading
    BY <1>0 DEF StartProbe, In, Reading, WorkerPhase
  <2>2. /\ worker'.blocked = worker.blocked /\ worker'.old = worker.old /\ worker'.entries = worker.entries
        /\ excluded' = excluded /\ restored' = restored /\ control'.invalid = control.invalid
    BY <1>0 DEF StartProbe, KeepStorage, KeepShut, To, Decision, Workers, Controls
  <2>. QED
    BY <2>1, <2>2 DEF ReadInv, Later, ScanInv
<1>8. SeenInv'
  BY <1>0 DEF StartProbe, KeepShut, To, SeenInv, ScanInv, Handling, Workers, In
<1>9. OpenInv'
  BY <1>0 DEF StartProbe, To, OpenInv, In, Workers
<1>10. OldInv'
  BY <1>0 DEF StartProbe, KeepStorage, To, OldInv, ScanInv, Reading, WorkerPhase, In, Workers,
     Entries
<1>. QED
  BY <1>1, <1>2, <1>3, <1>4, <1>5, <1>6, <1>7, <1>8, <1>9, <1>10 DEF ScanInv

\* Publishing it keeps the invariant.
LEMMA PublishProbeKeeps == ASSUME ScanInv, PublishProbe PROVE ScanInv'
<1>0. /\ catalog \in Entries /\ excluded \in SUBSET Package /\ control \in Controls
      /\ closing \in BOOLEAN /\ scanLease \in BOOLEAN /\ probe \in Probe
      /\ worker \in Workers /\ restored \in [Package -> Run]
  BY ScanTypes DEF ScanInv
<1>1. ScanTypeOK'
  <2>1. catalog' \in Entries /\ excluded' \in SUBSET Package /\ restored' \in [Package -> Run]
    BY <1>0 DEF PublishProbe, KeepStorage, Entries, Run
  <2>2. control' \in Controls
    BY <1>0 DEF PublishProbe, Controls
  <2>3. worker' \in Workers
    BY <1>0 DEF PublishProbe, To, Workers, WorkerPhase, Result
  <2>4. closing' \in BOOLEAN /\ scanLease' \in BOOLEAN /\ probe' \in Probe
    BY <1>0 DEF PublishProbe, KeepShut, Probe
  <2>. QED
    BY <2>1, <2>2, <2>3, <2>4 DEF ScanTypeOK, Entries, Controls, Workers, Probe
<1>2. LeaseOfScanInv'
  BY <1>0 DEF PublishProbe, KeepShut, To, LeaseOfScanInv, ScanInv
<1>3. HandInv'
  BY <1>0, ScanAssumption DEF PublishProbe, KeepStorage, To, HandInv, ScanInv, Handling, In, InHand,
     Controls, Workers
<1>4. ResultInv'
  BY <1>0 DEF PublishProbe, KeepShut, To, ResultInv, HandInv, ScanInv, Handling, In, InHand,
     Controls, Workers, Result
<1>5. RestoredInv'
  BY <1>0 DEF PublishProbe, KeepStorage, RestoredInv, HandInv, ScanInv, In, Controls, Workers, Run
<1>6. RestoreWins'
  BY <1>0 DEF PublishProbe, KeepStorage, RestoreWins, ScanInv, Entries, Entry, Run
<1>7. ReadInv'
  <2>1. worker.phase \in Reading
    BY <1>0 DEF PublishProbe, In, Reading, WorkerPhase
  <2>2. /\ worker'.blocked = worker.blocked /\ worker'.old = worker.old /\ worker'.entries = worker.entries
        /\ excluded' = excluded /\ restored' = restored /\ control'.invalid = control.invalid
    BY <1>0 DEF PublishProbe, KeepStorage, KeepShut, To, Workers, Controls
  <2>. QED
    BY <2>1, <2>2 DEF ReadInv, Later, ScanInv
<1>8. SeenInv'
  BY <1>0 DEF PublishProbe, KeepShut, To, SeenInv, ScanInv, Handling, Workers, In
<1>9. OpenInv'
  BY <1>0 DEF PublishProbe, To, OpenInv, HandInv, ScanInv, In, Workers
<1>10. OldInv'
  BY <1>0 DEF PublishProbe, KeepStorage, To, OldInv, ScanInv, Reading, WorkerPhase, In, Workers,
     Entries
<1>. QED
  BY <1>1, <1>2, <1>3, <1>4, <1>5, <1>6, <1>7, <1>8, <1>9, <1>10 DEF ScanInv

\* The answer of the helper, or its lack, keeps the invariant.
LEMMA EndProbeKeeps ==
  ASSUME ScanInv, NEW x \in {"found", "failed", "timeout"}, EndProbe(x)
  PROVE  ScanInv'
<1>0. /\ catalog \in Entries /\ excluded \in SUBSET Package /\ control \in Controls
      /\ closing \in BOOLEAN /\ scanLease \in BOOLEAN /\ probe \in Probe
      /\ worker \in Workers /\ restored \in [Package -> Run]
  BY ScanTypes DEF ScanInv
<1>1. ScanTypeOK'
  <2>1. catalog' \in Entries /\ excluded' \in SUBSET Package /\ restored' \in [Package -> Run]
    BY <1>0 DEF EndProbe, KeepStorage, Entries, Run
  <2>2. control' \in Controls
    BY <1>0 DEF EndProbe, Controls
  <2>3. worker' \in Workers
    BY <1>0 DEF EndProbe, Workers, WorkerPhase, Result
  <2>4. closing' \in BOOLEAN /\ scanLease' \in BOOLEAN /\ probe' \in Probe
    BY <1>0 DEF EndProbe, KeepShut, Probe
  <2>. QED
    BY <2>1, <2>2, <2>3, <2>4 DEF ScanTypeOK, Entries, Controls, Workers, Probe
<1>2. LeaseOfScanInv'
  BY <1>0 DEF EndProbe, KeepShut, LeaseOfScanInv, ScanInv
<1>3. HandInv'
  BY <1>0 DEF EndProbe, KeepStorage, HandInv, ScanInv, Handling, In, InHand, Controls, Workers
<1>4. ResultInv'
  BY <1>0 DEF EndProbe, KeepShut, ResultInv, HandInv, ScanInv, Handling, In, InHand, Controls,
     Workers, Result
<1>5. RestoredInv'
  BY <1>0 DEF EndProbe, KeepStorage, RestoredInv, HandInv, ScanInv, In, Controls, Workers, Run
<1>6. RestoreWins'
  BY <1>0 DEF EndProbe, KeepStorage, RestoreWins, ScanInv, Entries, Entry, Run
<1>7. ReadInv'
  <2>1. worker.phase \in Reading
    BY <1>0 DEF EndProbe, In, Reading, WorkerPhase
  <2>2. /\ worker'.blocked = worker.blocked /\ worker'.old = worker.old /\ worker'.entries = worker.entries
        /\ excluded' = excluded /\ restored' = restored /\ control'.invalid = control.invalid
    BY <1>0 DEF EndProbe, KeepStorage, KeepShut, Workers, Controls
  <2>. QED
    BY <2>1, <2>2 DEF ReadInv, Later, ScanInv
<1>8. SeenInv'
  BY <1>0 DEF EndProbe, KeepShut, SeenInv, HandInv, ResultInv, ScanInv, Handling, In, Controls,
     Workers, Entries
<1>9. OpenInv'
  BY <1>0 DEF EndProbe, OpenInv, HandInv, ScanInv, In, Workers
<1>10. OldInv'
  BY <1>0 DEF EndProbe, KeepStorage, OldInv, ScanInv, Reading, WorkerPhase, In, Workers, Entries
<1>. QED
  BY <1>1, <1>2, <1>3, <1>4, <1>5, <1>6, <1>7, <1>8, <1>9, <1>10 DEF ScanInv

\* Storing a timeout keeps the invariant.
LEMMA RecordSkipKeeps == ASSUME ScanInv, RecordSkip PROVE ScanInv'
<1>0. /\ catalog \in Entries /\ excluded \in SUBSET Package /\ control \in Controls
      /\ closing \in BOOLEAN /\ scanLease \in BOOLEAN /\ probe \in Probe
      /\ worker \in Workers /\ restored \in [Package -> Run]
  BY ScanTypes DEF ScanInv
<1>1. ScanTypeOK'
  <2>1. catalog' \in Entries /\ excluded' \in SUBSET Package /\ restored' \in [Package -> Run]
    BY <1>0, ScanAssumption DEF RecordSkip, Exclude, Controls, Workers, Entries, Run, ScanInv,
       HandInv, In
  <2>2. control' \in Controls
    BY <1>0 DEF RecordSkip, Controls
  <2>3. worker' \in Workers
    BY <1>0 DEF RecordSkip, To, Workers, WorkerPhase, Result
  <2>4. closing' \in BOOLEAN /\ scanLease' \in BOOLEAN /\ probe' \in Probe
    BY <1>0 DEF RecordSkip, KeepShut, Probe
  <2>. QED
    BY <2>1, <2>2, <2>3, <2>4 DEF ScanTypeOK, Entries, Controls, Workers, Probe
<1>2. LeaseOfScanInv'
  BY <1>0 DEF RecordSkip, KeepShut, To, LeaseOfScanInv, ScanInv
<1>3. HandInv'
  BY <1>0 DEF RecordSkip, To, HandInv, ScanInv, Handling, In, InHand, Controls, Workers
<1>4. ResultInv'
  BY <1>0 DEF RecordSkip, KeepShut, To, ResultInv, HandInv, ScanInv, Handling, In, InHand, Controls,
     Workers, Result
<1>5. RestoredInv'
  BY <1>0 DEF RecordSkip, Exclude, RestoredInv, HandInv, ScanInv, In, Controls, Workers, Run
<1>6. RestoreWins'
  BY <1>0 DEF RecordSkip, Exclude, RestoreWins, ScanInv, Entries, Entry, Run
<1>7. ReadInv'
  BY <1>0 DEF RecordSkip, To, Exclude, ReadInv, RestoreWins, RestoredInv, HandInv, ResultInv,
     ScanInv, Reading, WorkerPhase, Later, In, Controls, Workers, Entries, Entry, Run
<1>8. SeenInv'
  BY <1>0 DEF RecordSkip, KeepShut, To, SeenInv, HandInv, ResultInv, ScanInv, Handling, In,
     Controls, Workers, Entries
<1>9. OpenInv'
  BY <1>0 DEF RecordSkip, To, OpenInv, HandInv, ScanInv, In, Workers
<1>10. OldInv'
  BY <1>0 DEF RecordSkip, To, OldInv, ScanInv, Reading, WorkerPhase, In, Workers, Entries
<1>. QED
  BY <1>1, <1>2, <1>3, <1>4, <1>5, <1>6, <1>7, <1>8, <1>9, <1>10 DEF ScanInv

\* Writing the catalog keeps the invariant.
LEMMA CommitKeeps == ASSUME ScanInv, Commit PROVE ScanInv'
<1>0. /\ catalog \in Entries /\ excluded \in SUBSET Package /\ control \in Controls
      /\ closing \in BOOLEAN /\ scanLease \in BOOLEAN /\ probe \in Probe
      /\ worker \in Workers /\ restored \in [Package -> Run]
  BY ScanTypes DEF ScanInv
<1>1. ScanTypeOK'
  <2>1. catalog' \in Entries /\ excluded' \in SUBSET Package /\ restored' \in [Package -> Run]
    BY <1>0, NoEntryOK DEF Commit, Dropped, Found, Controls, Workers, Entries, Run
  <2>2. control' \in Controls
    BY <1>0 DEF Commit, Controls
  <2>3. worker' \in Workers
    BY <1>0 DEF Commit, To, Workers, WorkerPhase, Result
  <2>4. closing' \in BOOLEAN /\ scanLease' \in BOOLEAN /\ probe' \in Probe
    BY <1>0 DEF Commit, KeepShut, Probe
  <2>. QED
    BY <2>1, <2>2, <2>3, <2>4 DEF ScanTypeOK, Entries, Controls, Workers, Probe
<1>2. LeaseOfScanInv'
  BY <1>0 DEF Commit, KeepShut, To, LeaseOfScanInv, ScanInv
<1>3. HandInv'
  BY <1>0 DEF Commit, To, HandInv, ScanInv, Handling, In, InHand, Controls, Workers
<1>4. ResultInv'
  BY <1>0 DEF Commit, KeepShut, To, ResultInv, HandInv, ScanInv, Handling, In, InHand, Controls,
     Workers, Result
<1>5. RestoredInv'
  BY <1>0 DEF Commit, RestoredInv, HandInv, ScanInv, In, Controls, Workers, Run
<1>6. RestoreWins'
  BY <1>0, NoEntryOK DEF Commit, Dropped, Found, RestoreWins, ScanInv, ReadInv, Reading,
     WorkerPhase, In, Later, Entries
<1>7. ReadInv'
  BY <1>0 DEF Commit, To, ReadInv, RestoreWins, RestoredInv, HandInv, ResultInv, ScanInv, Reading,
     WorkerPhase, Later, In, Controls, Workers, Entries, Entry, NoEntry, Run
<1>8. SeenInv'
  BY <1>0 DEF Commit, KeepShut, To, SeenInv, HandInv, ResultInv, ScanInv, Handling, In, Controls,
     Workers, Entries, NoEntry
<1>9. OpenInv'
  BY <1>0 DEF Commit, To, OpenInv, HandInv, ScanInv, In, Workers
<1>10. OldInv'
  BY <1>0 DEF Commit, To, OldInv, ScanInv, Reading, WorkerPhase, In, Workers, Entries
<1>. QED
  BY <1>1, <1>2, <1>3, <1>4, <1>5, <1>6, <1>7, <1>8, <1>9, <1>10 DEF ScanInv

\* The end of the run keeps the invariant.
LEMMA ScanEndsKeeps == ASSUME ScanInv, ScanEnds PROVE ScanInv'
<1>0. /\ catalog \in Entries /\ excluded \in SUBSET Package /\ control \in Controls
      /\ closing \in BOOLEAN /\ scanLease \in BOOLEAN /\ probe \in Probe
      /\ worker \in Workers /\ restored \in [Package -> Run]
  BY ScanTypes DEF ScanInv
<1>1. ScanTypeOK'
  <2>1. catalog' \in Entries /\ excluded' \in SUBSET Package /\ restored' \in [Package -> Run]
    BY <1>0 DEF ScanEnds, KeepStorage, Entries, Run
  <2>2. control' \in Controls
    BY <1>0, ScanAssumption DEF ScanEnds, NoItem, Controls
  <2>3. worker' \in Workers
    BY <1>0, NoEntryOK DEF ScanEnds, Resting, Workers, WorkerPhase, Result, Entries
  <2>4. closing' \in BOOLEAN /\ scanLease' \in BOOLEAN /\ probe' \in Probe
    BY <1>0 DEF ScanEnds, KeepShut, Probe
  <2>. QED
    BY <2>1, <2>2, <2>3, <2>4 DEF ScanTypeOK, Entries, Controls, Workers, Probe
<1>2. LeaseOfScanInv'
  BY <1>0 DEF ScanEnds, KeepShut, LeaseOfScanInv, ScanInv
<1>3. HandInv'
  BY <1>0 DEF ScanEnds, KeepStorage, Resting, NoItem, HandInv, ScanInv, Handling, In, InHand,
     Controls, Workers
<1>4. ResultInv'
  BY <1>0 DEF ScanEnds, KeepShut, Resting, ResultInv, HandInv, ScanInv, Handling, In, InHand,
     Controls, Workers, Result
<1>5. RestoredInv'
  BY <1>0 DEF ScanEnds, KeepStorage, NoItem, RestoredInv, HandInv, ScanInv, In, Controls,
     Workers, Run
<1>6. RestoreWins'
  BY <1>0 DEF ScanEnds, KeepStorage, RestoreWins, ScanInv, Entries, Entry, Run
<1>7. ReadInv'
  BY <1>0 DEF ScanEnds, KeepStorage, Resting, ReadInv, RestoreWins, RestoredInv, HandInv, ResultInv,
     ScanInv, Reading, WorkerPhase, Later, In, Controls, Workers, Entries, Entry, NoEntry, Run
<1>8. SeenInv'
  BY <1>0 DEF ScanEnds, KeepShut, Resting, SeenInv, HandInv, ResultInv, ScanInv, Handling, In,
     Controls, Workers, Entries, NoEntry
<1>9. OpenInv'
  BY <1>0 DEF ScanEnds, Resting, OpenInv, HandInv, ScanInv, In, Workers
<1>10. OldInv'
  BY <1>0 DEF ScanEnds, KeepStorage, Resting, OldInv, ScanInv, Reading, WorkerPhase, In,
     Workers, Entries
<1>. QED
  BY <1>1, <1>2, <1>3, <1>4, <1>5, <1>6, <1>7, <1>8, <1>9, <1>10 DEF ScanInv

\* A skip by the user keeps the invariant.
LEMMA SkipKeeps == ASSUME ScanInv, Skip PROVE ScanInv'
<1>0. /\ catalog \in Entries /\ excluded \in SUBSET Package /\ control \in Controls
      /\ closing \in BOOLEAN /\ scanLease \in BOOLEAN /\ probe \in Probe
      /\ worker \in Workers /\ restored \in [Package -> Run]
  BY ScanTypes DEF ScanInv
<1>1. ScanTypeOK'
  <2>1. catalog' \in Entries /\ excluded' \in SUBSET Package /\ restored' \in [Package -> Run]
    <3>1. InHand \in Package /\ 0 \in Run
      BY <1>0, ScanAssumption DEF Skip, Controls, InHand, Run
    <3>. QED
      BY <1>0, <3>1 DEF Skip, Exclude
  <2>2. control' \in Controls
    BY <1>0 DEF Skip, Controls
  <2>3. worker' \in Workers
    BY <1>0 DEF Skip, Workers, WorkerPhase, Result
  <2>4. closing' \in BOOLEAN /\ scanLease' \in BOOLEAN /\ probe' \in Probe
    BY <1>0 DEF Skip, KeepShut, Stopped, Probe
  <2>. QED
    BY <2>1, <2>2, <2>3, <2>4 DEF ScanTypeOK, Entries, Controls, Workers, Probe
<1>2. LeaseOfScanInv'
  BY <1>0 DEF Skip, KeepShut, Stopped, LeaseOfScanInv, ScanInv
<1>3. HandInv'
  BY <1>0 DEF Skip, HandInv, ScanInv, Handling, In, InHand, Controls, Workers
<1>4. ResultInv'
  BY <1>0 DEF Skip, KeepShut, ResultInv, HandInv, ScanInv, Handling, In, InHand, Controls, Workers,
     Result
<1>5. RestoredInv'
  BY <1>0 DEF Skip, Exclude, RestoredInv, HandInv, ScanInv, In, Controls, Workers, Run
<1>6. RestoreWins'
  BY <1>0 DEF Skip, Exclude, RestoreWins, ScanInv, Entries, Entry, Run
<1>7. ReadInv'
  BY <1>0 DEF Skip, Exclude, ReadInv, RestoreWins, RestoredInv, HandInv, ResultInv, ScanInv,
     Reading, WorkerPhase, Later, In, Controls, Workers, Entries, Entry, Run
<1>8. SeenInv'
  BY <1>0 DEF Skip, KeepShut, SeenInv, HandInv, ResultInv, ScanInv, Handling, In, Controls,
     Workers, Entries
<1>9. OpenInv'
  BY <1>0 DEF Skip, OpenInv, HandInv, ScanInv, In, Workers
<1>10. OldInv'
  BY <1>0 DEF Skip, OldInv, ScanInv, Reading, WorkerPhase, Workers, Entries
<1>. QED
  BY <1>1, <1>2, <1>3, <1>4, <1>5, <1>6, <1>7, <1>8, <1>9, <1>10 DEF ScanInv

\* A cancel by the user keeps the invariant.
LEMMA CancelKeeps == ASSUME ScanInv, Cancel PROVE ScanInv'
<1>0. /\ catalog \in Entries /\ excluded \in SUBSET Package /\ control \in Controls
      /\ closing \in BOOLEAN /\ scanLease \in BOOLEAN /\ probe \in Probe
      /\ worker \in Workers /\ restored \in [Package -> Run]
  BY ScanTypes DEF ScanInv
<1>1. ScanTypeOK'
  <2>1. catalog' \in Entries /\ excluded' \in SUBSET Package /\ restored' \in [Package -> Run]
    BY <1>0 DEF Cancel, KeepStorage, Entries, Run
  <2>2. control' \in Controls
    BY <1>0 DEF Cancel, CancelRun, Controls
  <2>3. worker' \in Workers
    BY <1>0 DEF Cancel, Workers, WorkerPhase, Result
  <2>4. closing' \in BOOLEAN /\ scanLease' \in BOOLEAN /\ probe' \in Probe
    BY <1>0 DEF Cancel, KeepShut, CancelRun, Stopped, Probe
  <2>. QED
    BY <2>1, <2>2, <2>3, <2>4 DEF ScanTypeOK, Entries, Controls, Workers, Probe
<1>2. LeaseOfScanInv'
  BY <1>0 DEF Cancel, KeepShut, CancelRun, Stopped, LeaseOfScanInv, ScanInv
<1>3. HandInv'
  BY <1>0 DEF Cancel, KeepStorage, CancelRun, HandInv, ScanInv, Handling, In, InHand, Controls,
     Workers
<1>4. ResultInv'
  BY <1>0 DEF Cancel, KeepShut, ResultInv, HandInv, ScanInv, Handling, In, InHand, Controls,
     Workers, Result
<1>5. RestoredInv'
  BY <1>0 DEF Cancel, KeepStorage, CancelRun, RestoredInv, HandInv, ScanInv, In, Controls,
     Workers, Run
<1>6. RestoreWins'
  BY <1>0 DEF Cancel, KeepStorage, RestoreWins, ScanInv, Entries, Entry, Run
<1>7. ReadInv'
  BY <1>0 DEF Cancel, KeepStorage, CancelRun, ReadInv, RestoreWins, RestoredInv, HandInv,
     ResultInv, ScanInv, Reading, WorkerPhase, Later, In, Controls, Workers, Entries, Entry, Run
<1>8. SeenInv'
  BY <1>0 DEF Cancel, KeepShut, CancelRun, SeenInv, HandInv, ResultInv, ScanInv, Handling, In,
     Controls, Workers, Entries
<1>9. OpenInv'
  BY <1>0 DEF Cancel, OpenInv, HandInv, ScanInv, In, Workers
<1>10. OldInv'
  BY <1>0 DEF Cancel, KeepStorage, OldInv, ScanInv, Reading, WorkerPhase, Workers, Entries
<1>. QED
  BY <1>1, <1>2, <1>3, <1>4, <1>5, <1>6, <1>7, <1>8, <1>9, <1>10 DEF ScanInv

\* A restore by the user keeps the invariant.
LEMMA RestoreKeeps == ASSUME ScanInv, NEW x \in Package, Restore(x) PROVE ScanInv'
<1>0. /\ catalog \in Entries /\ excluded \in SUBSET Package /\ control \in Controls
      /\ closing \in BOOLEAN /\ scanLease \in BOOLEAN /\ probe \in Probe
      /\ worker \in Workers /\ restored \in [Package -> Run]
  BY ScanTypes DEF ScanInv
<1>1. ScanTypeOK'
  <2>1. catalog' \in Entries /\ excluded' \in SUBSET Package /\ restored' \in [Package -> Run]
    BY <1>0, NoEntryOK DEF Restore, Controls, Workers, Entries, Run
  <2>2. control' \in Controls
    BY <1>0 DEF Restore, Invalidated, Controls
  <2>3. worker' \in Workers
    BY <1>0 DEF Restore, Workers, WorkerPhase, Result
  <2>4. closing' \in BOOLEAN /\ scanLease' \in BOOLEAN /\ probe' \in Probe
    BY <1>0 DEF Restore, KeepShut, Probe
  <2>. QED
    BY <2>1, <2>2, <2>3, <2>4 DEF ScanTypeOK, Entries, Controls, Workers, Probe
<1>2. LeaseOfScanInv'
  BY <1>0 DEF Restore, KeepShut, LeaseOfScanInv, ScanInv
<1>3. HandInv'
  BY <1>0 DEF Restore, Invalidated, HandInv, ScanInv, Handling, In, InHand, Controls, Workers
<1>4. ResultInv'
  BY <1>0 DEF Restore, KeepShut, ResultInv, HandInv, ScanInv, Handling, In, InHand, Controls,
     Workers, Result
<1>5. RestoredInv'
  BY <1>0 DEF Restore, Invalidated, RestoredInv, HandInv, ScanInv, In, Controls, Workers, Run
<1>6. RestoreWins'
  BY <1>0 DEF Restore, RestoreWins, ScanInv, Entries, Entry, NoEntry, Run
<1>7. ReadInv'
  BY <1>0 DEF Restore, Invalidated, ReadInv, RestoreWins, RestoredInv, HandInv, ResultInv, ScanInv,
     Reading, WorkerPhase, Later, In, Controls, Workers, Entries, Entry, NoEntry, Run
<1>8. SeenInv'
  BY <1>0 DEF Restore, KeepShut, Invalidated, SeenInv, HandInv, ResultInv, ScanInv, Handling, In,
     Controls, Workers, Entries, NoEntry
<1>9. OpenInv'
  BY <1>0 DEF Restore, OpenInv, HandInv, ScanInv, In, Workers
<1>10. OldInv'
  BY <1>0 DEF Restore, OldInv, ScanInv, Reading, WorkerPhase, Workers, Entries
<1>. QED
  BY <1>1, <1>2, <1>3, <1>4, <1>5, <1>6, <1>7, <1>8, <1>9, <1>10 DEF ScanInv

\* The shutdown cancels the lease of the scan and keeps the invariant.
LEMMA CancelScanLeaseKeeps == ASSUME ScanInv, CancelScanLease PROVE ScanInv'
<1>0. /\ catalog \in Entries /\ excluded \in SUBSET Package /\ control \in Controls
      /\ closing \in BOOLEAN /\ scanLease \in BOOLEAN /\ probe \in Probe
      /\ worker \in Workers /\ restored \in [Package -> Run]
  BY ScanTypes DEF ScanInv
<1>1. ScanTypeOK'
  <2>1. catalog' \in Entries /\ excluded' \in SUBSET Package /\ restored' \in [Package -> Run]
    BY <1>0 DEF CancelScanLease, KeepStorage, Entries, Run
  <2>2. control' \in Controls
    BY <1>0 DEF CancelScanLease, Controls
  <2>3. worker' \in Workers
    BY <1>0 DEF CancelScanLease, Workers, WorkerPhase, Result
  <2>4. closing' \in BOOLEAN /\ scanLease' \in BOOLEAN /\ probe' \in Probe
    BY <1>0 DEF CancelScanLease, Stopped, Probe
  <2>. QED
    BY <2>1, <2>2, <2>3, <2>4 DEF ScanTypeOK, Entries, Controls, Workers, Probe
<1>2. LeaseOfScanInv'
  BY <1>0 DEF CancelScanLease, Stopped, LeaseOfScanInv, ScanInv
<1>3. HandInv'
  BY <1>0 DEF CancelScanLease, KeepStorage, HandInv, ScanInv, Handling, In, InHand, Controls,
     Workers
<1>4. ResultInv'
  BY <1>0 DEF CancelScanLease, ResultInv, HandInv, ScanInv, Handling, In, InHand, Controls, Workers,
     Result
<1>5. RestoredInv'
  BY <1>0 DEF CancelScanLease, KeepStorage, RestoredInv, HandInv, ScanInv, In, Controls,
     Workers, Run
<1>6. RestoreWins'
  BY <1>0 DEF CancelScanLease, KeepStorage, RestoreWins, ScanInv, Entries, Entry, Run
<1>7. ReadInv'
  BY <1>0 DEF CancelScanLease, KeepStorage, ReadInv, RestoreWins, RestoredInv, HandInv,
     ResultInv, ScanInv, Reading, WorkerPhase, Later, In, Controls, Workers, Entries, Entry, Run
<1>8. SeenInv'
  BY <1>0 DEF CancelScanLease, SeenInv, HandInv, ResultInv, ScanInv, Handling, In, Controls,
     Workers, Entries
<1>9. OpenInv'
  BY <1>0 DEF CancelScanLease, OpenInv, HandInv, ScanInv, In, Workers
<1>10. OldInv'
  BY <1>0 DEF CancelScanLease, KeepStorage, OldInv, ScanInv, Reading, WorkerPhase, Workers,
     Entries
<1>. QED
  BY <1>1, <1>2, <1>3, <1>4, <1>5, <1>6, <1>7, <1>8, <1>9, <1>10 DEF ScanInv

\* The shutdown closes the scans and keeps the invariant.
LEMMA CloseScansKeeps == ASSUME ScanInv, scanLease, CloseScans PROVE ScanInv'
<1>0. /\ catalog \in Entries /\ excluded \in SUBSET Package /\ control \in Controls
      /\ closing \in BOOLEAN /\ scanLease \in BOOLEAN /\ probe \in Probe
      /\ worker \in Workers /\ restored \in [Package -> Run]
  BY ScanTypes DEF ScanInv
<1>1. ScanTypeOK'
  <2>1. catalog' \in Entries /\ excluded' \in SUBSET Package /\ restored' \in [Package -> Run]
    BY <1>0 DEF CloseScans, KeepStorage, Entries, Run
  <2>2. control' \in Controls
    BY <1>0 DEF CloseScans, CancelRun, Controls
  <2>3. worker' \in Workers
    BY <1>0 DEF CloseScans, Workers, WorkerPhase, Result
  <2>4. closing' \in BOOLEAN /\ scanLease' \in BOOLEAN /\ probe' \in Probe
    BY <1>0 DEF CloseScans, CancelRun, Stopped, Probe
  <2>. QED
    BY <2>1, <2>2, <2>3, <2>4 DEF ScanTypeOK, Entries, Controls, Workers, Probe
<1>2. LeaseOfScanInv'
  BY <1>0 DEF CloseScans, CancelRun, Stopped, LeaseOfScanInv, ScanInv
<1>3. HandInv'
  BY <1>0 DEF CloseScans, KeepStorage, CancelRun, HandInv, ScanInv, Handling, In, InHand, Controls,
     Workers
<1>4. ResultInv'
  BY <1>0 DEF CloseScans, ResultInv, HandInv, ScanInv, Handling, In, InHand, Controls, Workers,
     Result
<1>5. RestoredInv'
  BY <1>0 DEF CloseScans, KeepStorage, CancelRun, RestoredInv, HandInv, ScanInv, In, Controls,
     Workers, Run
<1>6. RestoreWins'
  BY <1>0 DEF CloseScans, KeepStorage, RestoreWins, ScanInv, Entries, Entry, Run
<1>7. ReadInv'
  BY <1>0 DEF CloseScans, KeepStorage, CancelRun, ReadInv, RestoreWins, RestoredInv, HandInv,
     ResultInv, ScanInv, Reading, WorkerPhase, Later, In, Controls, Workers, Entries, Entry, Run
<1>8. SeenInv'
  BY <1>0 DEF CloseScans, CancelRun, SeenInv, HandInv, ResultInv, ScanInv, Handling, In,
     Controls, Workers, Entries
<1>9. OpenInv'
  BY <1>0 DEF CloseScans, OpenInv, HandInv, ScanInv, In, Workers
<1>10. OldInv'
  BY <1>0 DEF CloseScans, KeepStorage, OldInv, ScanInv, Reading, WorkerPhase, Workers, Entries
<1>. QED
  BY <1>1, <1>2, <1>3, <1>4, <1>5, <1>6, <1>7, <1>8, <1>9, <1>10 DEF ScanInv

\* What becomes of the package in hand.
Completed(p) ==
  \/ /\ worker'.phase = "committing" /\ (control.cancelled \/ scanLease)
     /\ worker'.skipped = worker.skipped /\ worker'.entries = worker.entries
  \/ /\ worker'.phase = "choosing" /\ p \in worker.blocked
     /\ worker'.skipped = worker.skipped /\ worker'.entries = worker.entries
  \/ /\ worker'.phase \in {"manual", "timeout"}
     /\ worker'.skipped = worker.skipped \cup {p} /\ worker'.entries = worker.entries
  \/ /\ worker'.phase = "choosing" /\ worker'.skipped = worker.skipped
     /\ \E entry \in Entry :
          /\ worker'.entries = [worker.entries EXCEPT ![p] = entry]
          /\ entry.kind # "none"
          /\ entry = worker.old[p] \/ entry.run = control.run

\* Completing a package: one of the four, and nothing else changes.
LEMMA CompleteCases ==
  ASSUME ScanInv, CompleteItem
  PROVE  /\ worker.hand = InHand /\ InHand \in Package /\ In("completing")
         /\ worker' \in Workers
         /\ worker'.hand = worker.hand /\ worker'.seen = worker.seen
         /\ worker'.blocked = worker.blocked /\ worker'.old = worker.old
         /\ worker'.result = "none" /\ ~worker'.fresh
         /\ Completed(InHand)
<1>0. worker \in Workers /\ control \in Controls
  BY ScanTypes DEF ScanInv
<1>1. worker.hand = InHand /\ InHand \in Package /\ In("completing")
  BY DEF CompleteItem, ScanInv, HandInv, Handling, In
<1>2. InHand \in worker.blocked <=> worker.result = "none"
  BY <1>1 DEF ScanInv, ResultInv, In
<1>. DEFINE next == [worker EXCEPT !.result = "none", !.fresh = FALSE]
            stamp == IF worker.fresh THEN control.run ELSE worker.old[InHand].run
            entry == [kind |-> worker.result, run |-> stamp]
            Kept == /\ worker'.hand = worker.hand /\ worker'.seen = worker.seen
                    /\ worker'.blocked = worker.blocked /\ worker'.old = worker.old
                    /\ worker'.result = "none" /\ ~worker'.fresh
<1>3. Decision \in {"cancel", "skip", "continue"} /\ (Decision = "cancel" => control.cancelled)
  BY DEF Decision
<1>4. CASE Decision = "cancel" \/ worker.result = "cancelled"
  <2>1. worker' = [next EXCEPT !.phase = "committing"]
    BY <1>2, <1>4 DEF CompleteItem
  <2>2. control.cancelled \/ scanLease
    BY <1>3, <1>4 DEF ScanInv, ResultInv
  <2>3. worker' \in Workers /\ Kept /\ Completed(InHand)
    BY <1>0, <2>1, <2>2 DEF Workers, Completed, WorkerPhase, Result
  <2>. QED
    BY <1>1, <2>3
<1>5. CASE Decision # "cancel" /\ worker.result # "cancelled" /\ InHand \in worker.blocked
  <2>1. worker' = [next EXCEPT !.phase = "choosing"]
    BY <1>2, <1>5 DEF CompleteItem
  <2>2. worker' \in Workers /\ Kept /\ Completed(InHand)
    BY <1>0, <1>5, <2>1 DEF Workers, Completed, WorkerPhase, Result
  <2>. QED
    BY <1>1, <2>2
<1>6. CASE /\ Decision # "cancel" /\ worker.result # "cancelled" /\ InHand \notin worker.blocked
           /\ Decision = "skip" \/ worker.result = "timeout"
  <2>1. \E phase \in {"manual", "timeout"} :
          worker' = [next EXCEPT !.phase = phase, !.skipped = @ \cup {InHand}]
    BY <1>2, <1>3, <1>6 DEF CompleteItem
  <2>2. PICK phase \in {"manual", "timeout"} :
          worker' = [next EXCEPT !.phase = phase, !.skipped = @ \cup {InHand}]
    BY <2>1
  <2>3. worker' \in Workers
    BY <1>0, <1>1, <2>2 DEF Workers, WorkerPhase, Result
  <2>4. Kept
    BY <1>0, <2>2 DEF Workers
  <2>5. /\ worker'.phase \in {"manual", "timeout"} /\ worker'.skipped = worker.skipped \cup {InHand}
        /\ worker'.entries = worker.entries
    BY <1>0, <2>2 DEF Workers
  <2>6. Completed(InHand)
    BY <2>5 DEF Completed
  <2>. QED
    BY <1>1, <2>3, <2>4, <2>6
<1>7. CASE /\ Decision = "continue" /\ worker.result \notin {"cancelled", "timeout"}
           /\ InHand \notin worker.blocked
  <2>1. worker' = [next EXCEPT !.phase = "choosing", !.entries[InHand] = entry]
    BY <1>2, <1>7 DEF CompleteItem
  <2>2. worker.old[InHand] \in Entry /\ worker.old[InHand].run \in Run /\ control.run \in Run
    BY <1>0, <1>1 DEF Workers, Controls, Entries, Entry
  <2>3. entry \in Entry /\ entry.kind # "none" /\ entry.run = stamp
    BY <1>0, <1>2, <1>7, <2>2 DEF Workers, Entry, Result
  <2>4. entry = worker.old[InHand] \/ entry.run = control.run
    <3>1. CASE worker.fresh
      BY <3>1
    <3>2. CASE ~worker.fresh
      <4>1. worker.result = worker.old[InHand].kind
        BY <1>0, <1>1, <1>2, <1>7, <3>2 DEF ScanInv, ResultInv, Workers
      <4>. QED
        BY <2>2, <3>2, <4>1 DEF Entry
    <3>. QED
      BY <1>0, <3>1, <3>2
  <2>5. worker' \in Workers /\ Kept
    BY <1>0, <2>1, <2>3 DEF Workers, WorkerPhase, Result, Entries
  <2>6. /\ worker'.phase = "choosing" /\ worker'.skipped = worker.skipped
        /\ worker'.entries = [worker.entries EXCEPT ![InHand] = entry]
    BY <1>0, <2>1 DEF Workers
  <2>7. Completed(InHand)
    BY <2>3, <2>4, <2>6 DEF Completed
  <2>. QED
    BY <1>1, <2>5, <2>7
<1>. QED
  BY <1>3, <1>4, <1>5, <1>6, <1>7

\* Completing a package keeps the invariant.
LEMMA CompleteItemKeeps == ASSUME ScanInv, CompleteItem PROVE ScanInv'
<1>0. /\ catalog \in Entries /\ excluded \in SUBSET Package /\ control \in Controls
      /\ closing \in BOOLEAN /\ scanLease \in BOOLEAN /\ probe \in Probe
      /\ worker \in Workers /\ restored \in [Package -> Run]
  BY ScanTypes DEF ScanInv
<1>a. /\ worker.hand = InHand /\ InHand \in Package /\ In("completing")
      /\ worker' \in Workers
      /\ worker'.hand = worker.hand /\ worker'.seen = worker.seen
      /\ worker'.blocked = worker.blocked /\ worker'.old = worker.old
      /\ worker'.result = "none" /\ ~worker'.fresh
      /\ Completed(InHand)
  BY CompleteCases
<1>b. /\ control' \in Controls /\ control'.run = control.run /\ control'.running = control.running
      /\ control'.cancelled = control.cancelled /\ control'.invalid = control.invalid
      /\ UNCHANGED <<catalog, excluded, restored, closing, scanLease, probe>>
  BY <1>0, ScanAssumption DEF CompleteItem, Controls, NoItem, KeepStorage, KeepShut
<1>1. ScanTypeOK'
  BY <1>0, <1>a, <1>b DEF ScanTypeOK, Entries, Controls, Workers, Probe
<1>2. LeaseOfScanInv' /\ RestoreWins'
  BY <1>b DEF ScanInv, LeaseOfScanInv, RestoreWins
<1>3. HandInv' /\ OpenInv'
  BY <1>0, <1>a, <1>b DEF ScanInv, HandInv, OpenInv, Completed, Handling, In, Workers
<1>4. ResultInv'
  BY <1>0, <1>a, <1>b DEF ResultInv, Completed, In
<1>5. RestoredInv'
  BY <1>b DEF ScanInv, RestoredInv
<1>6. ReadInv'
  <2>1. worker.phase \in Reading
    BY <1>a DEF In, Reading, WorkerPhase
  <2>2. worker'.blocked \subseteq excluded' \cup control'.invalid
    BY <1>a, <1>b, <2>1 DEF ScanInv, ReadInv
  <2>3. ASSUME NEW p \in Package, p \notin excluded \cup control.invalid, restored[p] # 0
        PROVE  Later(worker.old[p], p) /\ Later(worker'.entries[p], p)
    <3>1. Later(worker.old[p], p) /\ Later(worker.entries[p], p)
      BY <2>1, <2>3 DEF ScanInv, ReadInv
    <3>2. control.run > restored[p]
      <4>1. control.running
        BY <1>a DEF ScanInv, HandInv, In
      <4>. QED
        BY <1>0, <2>3, <4>1 DEF ScanInv, RestoredInv, Controls, Run
    <3>3. CASE worker'.entries = worker.entries
      BY <3>1, <3>3
    <3>4. CASE \E entry \in Entry : /\ worker'.entries = [worker.entries EXCEPT ![InHand] = entry]
                                    /\ entry = worker.old[InHand] \/ entry.run = control.run
      BY <1>0, <3>1, <3>2, <3>4 DEF Later, Workers, Entries
    <3>. QED
      BY <1>a, <3>3, <3>4 DEF Completed
  <2>. QED
    BY <1>a, <1>b, <2>2, <2>3 DEF ReadInv, Later
<1>7. SeenInv'
  BY <1>0, <1>a, <1>b DEF ScanInv, SeenInv, Completed, Handling, In, Workers, Entries
<1>8. OldInv'
  BY <1>a, <1>b DEF ScanInv, OldInv, In, Reading, WorkerPhase
<1>. QED
  BY <1>1, <1>2, <1>3, <1>4, <1>5, <1>6, <1>7, <1>8 DEF ScanInv

\* The invariant holds at the start.
LEMMA ScanInitInv == ScanInit => ScanInv
<1>. SUFFICES ASSUME ScanInit PROVE ScanInv
  OBVIOUS
<1>0. /\ NoItem \in [package : Package \cup {NoPackage}, skipped : BOOLEAN]
      /\ 0 \in Run /\ [kind |-> "found", run |-> 0] \in Entry
  BY ScanAssumption DEF NoItem, Run, Entry
<1>1. ScanTypeOK
  <2>1. catalog \in Entries /\ excluded \in SUBSET Package /\ restored \in [Package -> Run]
    BY <1>0, NoEntryOK DEF ScanInit, Entries
  <2>2. control \in Controls
    BY <1>0 DEF ScanInit, Controls
  <2>3. worker \in Workers
    BY NoEntryOK DEF ScanInit, Resting, Workers, WorkerPhase, Result
  <2>4. closing \in BOOLEAN /\ scanLease \in BOOLEAN /\ probe \in Probe
    BY DEF ScanInit, Probe
  <2>. QED
    BY <2>1, <2>2, <2>3, <2>4, ScanTypes
<1>2. LeaseOfScanInv /\ HandInv /\ ResultInv /\ OpenInv
  BY DEF ScanInit, LeaseOfScanInv, HandInv, ResultInv, OpenInv, Resting, In, Handling
<1>3. RestoredInv /\ RestoreWins
  BY DEF ScanInit, RestoredInv, RestoreWins
<1>4. ReadInv /\ SeenInv /\ OldInv
  BY DEF ScanInit, ReadInv, SeenInv, OldInv, Resting, Reading
<1>. QED
  BY <1>1, <1>2, <1>3, <1>4 DEF ScanInv

\* Every step of the scan keeps the invariant.
LEMMA ScanNextKeeps == ScanInv /\ ScanNext => ScanInv'
BY ScanStartKeeps, ScanOpenKeeps, ScanFailsKeeps, TakeItemKeeps, StopTakingKeeps,
   KnownItemKeeps, StartProbeKeeps, PublishProbeKeeps, EndProbeKeeps, CompleteItemKeeps,
   RecordSkipKeeps, CommitKeeps, ScanEndsKeeps, SkipKeeps, CancelKeeps, RestoreKeeps DEF
   ScanNext, Worker, Command

\* Steps that leave the scan alone keep the invariant.
LEMMA ScanStutterKeeps == ScanInv /\ UNCHANGED scanVars => ScanInv'
<1>. SUFFICES ASSUME ScanInv, UNCHANGED scanVars PROVE ScanInv'
  OBVIOUS
<1>1. ScanTypeOK' /\ LeaseOfScanInv' /\ HandInv' /\ ResultInv' /\ RestoredInv'
  BY DEF scanVars, ScanInv, ScanTypeOK, LeaseOfScanInv, HandInv, ResultInv, RestoredInv, In, InHand
<1>2. RestoreWins' /\ ReadInv' /\ SeenInv' /\ OldInv' /\ OpenInv'
  BY DEF scanVars, ScanInv, RestoreWins, ReadInv, Later, SeenInv, OldInv, OpenInv, In
<1>. QED
  BY <1>1, <1>2 DEF ScanInv

\* A catalog entry that was found is lost in a restore or in a commit only.
LEMMA IdentifiedStep ==
  ASSUME ScanInv, ScanNext, NEW p \in Package, catalog[p].kind = "found", catalog'[p].kind # "found"
  PROVE  Excused(p)
<1>0. /\ catalog \in Entries /\ control \in Controls /\ worker \in Workers
      /\ excluded \in SUBSET Package
  BY ScanTypes DEF ScanInv
<1>1. catalog' # catalog
  OBVIOUS
<1>2. ASSUME NEW x \in Package, Restore(x) PROVE Excused(p)
  BY <1>0, <1>1, <1>2 DEF Restore, Excused, Entries
<1>3. ASSUME Commit PROVE Excused(p)
  <2>. SUFFICES ASSUME p \notin excluded \cup control.invalid PROVE Excused(p)
    BY DEF Excused
  <2>1. catalog'[p] = Found(p)
    BY <1>3 DEF Commit, Dropped
  <2>2. worker.phase \in Reading
    BY <1>3 DEF Commit, In, Reading, WorkerPhase
  <2>3. p \notin worker.blocked
    BY <2>2 DEF ScanInv, ReadInv
  <2>4. catalog[p] = worker.old[p]
    BY <2>2, NoEntryOK DEF ScanInv, OldInv
  <2>5. p \in worker.seen /\ worker.entries[p].kind \in {"none", "failed"}
    BY <1>0, <2>1, <2>4 DEF Found, Workers, Entries, Entry
  <2>. QED
    BY <1>3, <2>3, <2>5 DEF Commit, In, ScanInv, SeenInv, Excused, Handling
<1>. QED
  BY <1>1, <1>2, <1>3 DEF ScanNext, Worker, Command, ScanOpen, ScanFails, StopTaking, KnownItem,
     StartProbe, PublishProbe, CompleteItem, RecordSkip, ScanEnds, TakeItem, EndProbe,
     ScanStart, Skip, Cancel, KeepStorage
-----------------------------------------------------------------------------
(* The plugin host.                                                        *)

HostInv == SessionInv /\ ScanInv

\* Every step of the shutdown keeps both invariants.
LEMMA ShutdownKeeps == HostInv /\ Shutdown => HostInv'
<1>. SUFFICES ASSUME HostInv, Shutdown PROVE HostInv'
  OBVIOUS
<1>1. CASE ShutSession
  BY <1>1, ShutFlagKeeps, ShutSupersedeKeeps, ShutCancelKeeps, ScanStutterKeeps DEF ShutSession,
     HostInv
<1>2. CASE ShutScan
  BY <1>2, CancelScanLeaseKeeps, CloseScansKeeps, SessionStutterKeeps DEF ShutScan, HostInv
<1>3. CASE ShutEnd
  BY <1>3, ShutTakeKeeps, ScanStutterKeeps DEF ShutEnd, HostInv
<1>. QED
  BY <1>1, <1>2, <1>3 DEF Shutdown

\* Every step of the plugin host keeps both invariants.
LEMMA HostStepKeeps == HostInv /\ [HostNext]_hostVars => HostInv'
<1>. SUFFICES ASSUME HostInv, [HostNext]_hostVars PROVE HostInv'
  OBVIOUS
<1>1. CASE SessionStep
  BY <1>1, SessionNextKeeps, ScanStutterKeeps DEF SessionStep, HostInv
<1>2. CASE ScanStep
  BY <1>2, ScanNextKeeps, SessionStutterKeeps DEF ScanStep, HostInv
<1>3. CASE UNCHANGED hostVars
  BY <1>3, SessionStutterKeeps, ScanStutterKeeps DEF hostVars, HostInv
<1>. QED
  BY <1>1, <1>2, <1>3, ShutdownKeeps DEF HostNext

\* The invariant is inductive, and so it always holds.
THEOREM HostInvariant == HostSpec => []HostInv
<1>1. HostInit => HostInv
  BY SessionInitInv, ScanInitInv DEF HostInit, HostInv
<1>. QED
  BY <1>1, HostStepKeeps, PTL DEF HostSpec

\* Type correctness of the plugin host.
THEOREM HostTypeCorrect == HostSpec => []HostTypeOK
<1>1. HostInv => HostTypeOK
  BY DEF HostInv, SessionInv, ScanInv, HostTypeOK
<1>. QED
  BY <1>1, HostInvariant, PTL

\* However requests of any windows, loads, deaths of helpers and the end of the
\* application interleave: from the cancel on no helper of the session lives, and
\* after the end none at all, not even one that was being started; nor does the
\* helper of a scan once its lease is cancelled (PluginHostState::shutdown).
THEOREM ShutdownAlwaysReachesHelpers == HostSpec => []ShutdownReachesHelpers
<1>1. HostInv => ShutdownReachesHelpers
  BY NoHelperLeft DEF HostInv, ScanInv, LeaseOfScanInv, ShutdownReachesHelpers
<1>. QED
  BY <1>1, HostInvariant, PTL

\* A restored package is not excluded, and no run that began before the restore
\* has its say in the catalog (restore_scan_entry against the commit of a scan).
THEOREM RestoreAlwaysWins == HostSpec => []RestoreWins
<1>1. HostInv => RestoreWins
  BY DEF HostInv, ScanInv
<1>. QED
  BY <1>1, HostInvariant, PTL

\* What is not a step of the session changes no request.
LEMMA RequestsOfSession ==
  [HostNext]_hostVars => SessionNext \/ UNCHANGED sessionVars \/ UNCHANGED request
BY DEF HostNext, hostVars, SessionStep, ScanStep, Shutdown, ShutSession, ShutScan, ShutEnd,
   ShutFlag, ShutSupersede, ShutCancel, ShutTake, windows

\* A recovery never takes the session from another window, neither when its load
\* is accepted nor when it gets the mutex (begin_load_generation).
THEOREM RecoveryNeverTakes == HostSpec => RecoveryNeverReplaces
<1>. DEFINE Fair(w) ==
       /\ At(w, "idle") /\ At(w, "asked")' /\ request'[w].fenced =>
            \A v \in Others(w) :
              /\ session.project # v
              /\ ~At(v, "idle") /\ Op(v) = "load" => request[v].gen < generation
       /\ request[w].fenced /\ At(w, "asked") /\ At(w, "settling")' =>
            session.project \notin Others(w)
<1>1. HostInv /\ [HostNext]_hostVars => [\A w \in Window : Fair(w)]_sessionVars
  <2>. SUFFICES ASSUME HostInv, [HostNext]_hostVars, ~UNCHANGED sessionVars, NEW w \in Window
                PROVE  Fair(w)
    OBVIOUS
  <2>1. CASE SessionNext
    BY <2>1, RecoveryStep DEF HostInv
  <2>2. CASE UNCHANGED request
    BY <2>2 DEF At
  <2>. QED
    BY <2>1, <2>2, RequestsOfSession
<1>. QED
  BY <1>1, HostInvariant, PTL DEF HostSpec, RecoveryNeverReplaces

\* A poll that leaves the session of a window available has found it in the
\* backend, whatever other windows have loaded meanwhile (request_session).
THEOREM PollAlwaysTruthful == HostSpec => PollIsTruthful
<1>. DEFINE Told(w) ==
       Op(w) = "status" /\ ~At(w, "idle") /\ At(w, "idle")' =>
         \/ loaded'[w].unavailable \/ loaded'[w].waiting
         \/ session'.project = w /\ session'.native = loaded'[w].native
<1>1. HostInv /\ [HostNext]_hostVars => [\A w \in Window : Told(w)]_sessionVars
  <2>. SUFFICES ASSUME HostInv, [HostNext]_hostVars, ~UNCHANGED sessionVars, NEW w \in Window
                PROVE  Told(w)
    OBVIOUS
  <2>1. CASE SessionNext
    BY <2>1, PollStep DEF HostInv
  <2>2. CASE UNCHANGED request
    BY <2>2 DEF At
  <2>. QED
    BY <2>1, <2>2, RequestsOfSession
<1>. QED
  BY <1>1, HostInvariant, PTL DEF HostSpec, PollIsTruthful

\* A plugin that was found leaves the catalog only for one of the reasons of
\* Excused (the commit of scan_pipeline.rs against skips and restores).
THEOREM ScanAlwaysKeepsIdentified == HostSpec => ScanKeepsIdentified
<1>. DEFINE Kept(p) == catalog[p].kind = "found" /\ catalog'[p].kind # "found" => Excused(p)
<1>1. HostInv /\ [HostNext]_hostVars => [\A p \in Package : Kept(p)]_scanVars
  <2>. SUFFICES ASSUME HostInv, [HostNext]_hostVars, ~UNCHANGED scanVars, NEW p \in Package
                PROVE  Kept(p)
    OBVIOUS
  <2>1. CASE ScanNext
    BY <2>1, IdentifiedStep DEF HostInv
  <2>2. ScanNext \/ UNCHANGED catalog
    BY DEF HostNext, hostVars, SessionStep, ScanStep, Shutdown, ShutSession, ShutScan, ShutEnd,
       CancelScanLease, CloseScans, KeepStorage
  <2>. QED
    BY <2>1, <2>2
<1>. QED
  BY <1>1, HostInvariant, PTL DEF HostSpec, ScanKeepsIdentified

-----------------------------------------------------------------------------
(* The audio engine.                                                       *)
(*                                                                         *)
(* The control thread calls a plugin in two situations: within a pause     *)
(* that the worker has confirmed, and to serve an export, which waits for  *)
(* it.  No lock keeps the worker from rendering meanwhile.  In the first,  *)
(* nothing is in the queue and the worker's hold is the pause in force; in *)
(* the second, the export was the last command, and until its result has   *)
(* been read the control thread sends no other.                            *)

PlainStep ==
  {"cursor", "unready", "active", "play", "seek", "pause", "param", "render", "barrier", "mix",
   "monitor", "renegotiate", "await", "sdk", "release", "move", "resume", "fail", "failed",
   "stop", "silence", "cancel", "join"}
AnyStep == PlainStep \cup {"served", "refused"}

\* Steps that send nothing and take nothing back that was sent.
SilentStep ==
  {"cursor", "unready", "active", "fail", "failed", "stop", "silence", "cancel", "join", "release",
   "sdk", "served", "refused"}

Exporting == {"asking", "awaiting", "locking", "probing", "writing", "deliver"}

CommandType ==
  {"play", "seek", "pause", "param", "render", "barrier", "mix", "monitor", "renegotiate"}
EventType == {"failure", "latency", "timing", "progress", "render"}
CommandsOf(T) ==
  Seq([type : T, frame : Nat, generation : Nat, looping : BOOLEAN, of : Nat])
EventsOf(T) == Seq([type : T, of : Nat])
FrameType == [position : Nat, generation : Nat, last : BOOLEAN]
MoveType  == [frame : Nat, playing : BOOLEAN, generation : Nat]

ClockTypes ==
  /\ active \in Nat /\ ready \in Nat /\ lastEpoch \in Nat /\ recovering \in BOOLEAN
  /\ cursor \in [epoch : Nat, frame : Nat]
QueueTypes ==
  /\ ring \in Seq(FrameType) /\ Len(ring) <= RingSize
  /\ stage = "rendering" => Len(ring) < RingSize
  /\ commands \in CommandsOf(CommandType) /\ Len(commands) <= QueueSize
  /\ \A i \in 1..Len(commands) : commands[i].type = "mix" => commands[i].frame \in Lengths
  /\ events \in EventsOf(EventType) /\ Len(events) <= EventSize
ControlTypes ==
  /\ turn \in {"idle", "events", "closed"} /\ script \in Seq(AnyStep)
  /\ to \in MoveType /\ keep \in [resume : BOOLEAN, frame : Nat]
  /\ asked \in Nat /\ held \in Nat /\ held <= asked
  /\ response \in {"none", "ok", "error"}
  /\ cancel \in BOOLEAN /\ offline \in BOOLEAN
  /\ transport \in BOOLEAN /\ looping \in BOOLEAN /\ error \in BOOLEAN
  /\ revision \in Nat /\ recovered \in BOOLEAN /\ rendering \in BOOLEAN
WorkerTypes ==
  /\ stage \in {"top", "drain", "rendering", "prefill", "ended"} \cup Exporting
  /\ job \in Seq({"recovering", "replace", "halt", "cursor", "unready", "active", "tell"})
  /\ dsp \in [active : BOOLEAN, looping : BOOLEAN, generation : Nat, position : Nat,
              hold : Nat, revision : Nat, cut : BOOLEAN]
  /\ wto \in MoveType /\ length \in Lengths /\ pass \in Nat
  /\ ticket \in [id : Nat, state : {"void", "queued", "serving", "done", "failed"}]
  /\ renderResult \in {"none", "ok", "error"}
DeviceTypes ==
  /\ cb \in {"closed", "idle", "drain", "pop", "commit", "finish"}
  /\ saw \in Nat /\ got \in FrameType /\ deviceFailed \in BOOLEAN
  /\ heard \in [epoch : Nat, first : Nat, last : Nat, missed : BOOLEAN]
  /\ requests \in Nat /\ faults \in Nat
AudioTypes == ClockTypes /\ QueueTypes /\ ControlTypes /\ WorkerTypes /\ DeviceTypes

\* A script that is not the service of an export: a plugin is called after a
\* barrier has been confirmed, an export is the last step, and the end of a
\* session comes to its end.
Paused(s) ==
  \A i \in 1..Len(s) : s[i] = "sdk" =>
    /\ i > 1 => s[i - 1] = "await"
    /\ i > 2 => s[i - 2] = "barrier"
Ordered(s) ==
  \A i \in 1..Len(s) :
    /\ s[i] \in {"render", "join"} => i = Len(s)
    /\ s[i] = "cancel" => i + 1 = Len(s) /\ s[i + 1] = "join"
Plain(s) == s \in Seq(PlainStep) /\ Paused(s) /\ Ordered(s)

Services == {<<"sdk", "served">>, <<"served">>, <<"refused">>}

ScriptInv ==
  /\ script \in Services \/ Plain(script)
  /\ script \in Services <=> ticket.state = "serving"
  /\ script # <<>> => (script \in Services <=> doing = "service")

\* The worker is kept by the pause in force.
Quiet == commands = <<>> /\ held # 0 /\ dsp.hold = held /\ stage \in {"top", "drain"}

PauseInv ==
  /\ AtStep("sdk") /\ script \notin Services => Quiet
  /\ AtStep("await") /\ Len(script) > 1 /\ script[2] = "sdk" =>
       /\ held = asked /\ held # 0
       /\ response = "ok" => Quiet
       /\ response = "none" =>
            /\ commands # <<>>
            /\ commands[Len(commands)].type = "barrier" /\ commands[Len(commands)].of = asked
QuestionInv ==
  /\ \A i \in 1..Len(commands) : commands[i].of <= asked
  /\ \A i, j \in 1..Len(commands) : i < j /\ commands[i].of # 0 => commands[i].of # commands[j].of
  /\ response # "none" =>
       \A i \in 1..Len(commands) : commands[i].of # 0 => commands[i].of # asked

\* Nothing is left to do when the worker may end.
CancelInv ==
  /\ turn = "closed" => script = <<>>
  /\ cancel => script = <<"join">> \/ turn = "closed"
  /\ stage = "ended" => cancel

\* No result is waiting to be read.
Unread == events \in EventsOf(EventType \ {"render"})

ExportInv ==
  /\ stage \in Exporting => commands = <<>> /\ rendering /\ Unread
  /\ \A i \in 1..Len(commands) : commands[i].type = "render" =>
       i = Len(commands) /\ rendering /\ Unread
  /\ script \in Seq(AnyStep \ {"render"}) \/ (~rendering /\ offline /\ Unread)
  /\ rendering => offline /\ script \in Seq(SilentStep)
TicketInv == ticket.state # "void" => stage \in {"awaiting", "locking"}

\* A session that exports does not play.
OfflineInv ==
  offline =>
    /\ active = 0 /\ ~dsp.active /\ ~recovering /\ ~to.playing /\ ~wto.playing
    /\ stage \notin {"rendering", "prefill"}
    /\ commands \in CommandsOf(CommandType \ {"play"})
    /\ script \in Seq(AnyStep \ {"play", "resume"})
    /\ events \in EventsOf(EventType \ {"latency"})
    /\ job \in Seq({"cursor", "unready", "active"})

AudioInv ==
  /\ AudioTypes /\ ScriptInv /\ PauseInv /\ QuestionInv /\ CancelInv /\ ExportInv /\ TicketInv
  /\ OfflineInv

LEMMA LongestLength == Longest \in Lengths /\ Longest \in Nat
<1>1. \E n \in Lengths : \A m \in Lengths : m <= n
  BY SizeAssumption
<1>2. Longest \in Lengths
  BY <1>1 DEF Longest
<1>. QED
  BY <1>2, SizeAssumption

-----------------------------------------------------------------------------
(* Scripts.                                                                *)

\* Steps that may be anywhere in a script.
FreeStep == PlainStep \ {"sdk", "render", "join", "cancel"}

\* A script that begins with a step of its own, and calls plugins within pauses.
FreshScript(s) ==
  /\ Plain(s)
  /\ s # <<>> => Head(s) \notin {"sdk", "await"}
  /\ Len(s) > 1 => s[2] # "sdk"

LEMMA TailOf ==
  ASSUME NEW S, NEW s \in Seq(S), s # <<>>
  PROVE  /\ Tail(s) \in Seq(S) /\ Len(Tail(s)) = Len(s) - 1 /\ Len(s) \in Nat \ {0}
         /\ Head(s) = s[1] /\ Head(s) \in S
         /\ \A i \in 1..Len(Tail(s)) : Tail(s)[i] = s[i + 1]
BY HeadTailProperties

LEMMA Joined ==
  ASSUME NEW S, NEW s \in Seq(S), NEW t \in Seq(S)
  PROVE  s \o t \in Seq(S)
BY ConcatProperties

LEMMA FreeFresh ==
  ASSUME NEW s \in Seq(FreeStep), s # <<>> => Head(s) # "await"
  PROVE  FreshScript(s)
<1>1. s \in Seq(PlainStep)
  BY SeqMonotonic DEF FreeStep
<1>2. \A i \in 1..Len(s) : s[i] \in FreeStep
  BY ElementOfSeq
<1>3. s # <<>> => Head(s) = s[1] /\ 1 \in 1..Len(s)
  OBVIOUS
<1>4. Paused(s) /\ Ordered(s)
  BY <1>2 DEF Paused, Ordered, FreeStep
<1>5. Len(s) > 1 => s[2] # "sdk"
  <2>1. Len(s) \in Nat
    OBVIOUS
  <2>. QED
    BY <1>2, <2>1 DEF FreeStep
<1>. QED
  BY <1>1, <1>2, <1>3, <1>4, <1>5 DEF FreshScript, Plain, FreeStep

LEMMA OneLess ==
  ASSUME NEW m \in Nat, NEW n \in Nat, NEW i \in Nat, m = n - 1, i <= m
  PROVE  (i + 1 = n => i = m) /\ ((i + 1) + 1 = n => i + 1 = m /\ i + 1 \in 1..m)
OBVIOUS

LEMMA TailPlain ==
  ASSUME NEW s, Plain(s), s # <<>>
  PROVE  Plain(Tail(s))
<1>. SUFFICES ASSUME NEW t, t = Tail(s) PROVE Plain(t)
  OBVIOUS
<1>0. s \in Seq(PlainStep)
  BY DEF Plain
<1>1. /\ t \in Seq(PlainStep) /\ Len(t) = Len(s) - 1 /\ Len(s) \in Nat \ {0} /\ Len(t) \in Nat
      /\ \A i \in 1..Len(t) : t[i] = s[i + 1]
  BY <1>0, TailOf
<1>2. Paused(t)
  <2>. SUFFICES ASSUME NEW i \in 1..Len(t), t[i] = "sdk"
                PROVE  /\ i > 1 => t[i - 1] = "await"
                       /\ i > 2 => t[i - 2] = "barrier"
    BY DEF Paused
  <2>1. i + 1 \in 1..Len(s) /\ s[i + 1] = "sdk" /\ (i + 1) - 1 = i /\ (i + 1) - 2 = i - 1
    BY <1>1
  <2>2. s[i] = "await" /\ (i > 1 => s[i - 1] = "barrier")
    BY <2>1 DEF Plain, Paused
  <2>3. i > 1 => i - 1 \in 1..Len(t) /\ t[i - 1] = s[i]
    BY <1>1, <2>1
  <2>4. i > 2 => i - 2 \in 1..Len(t) /\ t[i - 2] = s[i - 1]
    BY <1>1, <2>1
  <2>. QED
    BY <2>2, <2>3, <2>4
<1>3. Ordered(t)
  <2>. SUFFICES ASSUME NEW i \in 1..Len(t)
                PROVE  /\ t[i] \in {"render", "join"} => i = Len(t)
                       /\ t[i] = "cancel" => i + 1 = Len(t) /\ t[i + 1] = "join"
    BY DEF Ordered
  <2>1. i + 1 \in 1..Len(s) /\ t[i] = s[i + 1]
    BY <1>1
  <2>2. /\ s[i + 1] \in {"render", "join"} => i + 1 = Len(s)
        /\ s[i + 1] = "cancel" => (i + 1) + 1 = Len(s) /\ s[(i + 1) + 1] = "join"
    BY <2>1 DEF Plain, Ordered
  <2>3. i + 1 \in 1..Len(t) => t[i + 1] = s[(i + 1) + 1]
    BY <1>1
  <2>4. Len(s) \in Nat /\ Len(t) \in Nat /\ i \in Nat /\ i <= Len(t) /\ Len(t) = Len(s) - 1
    BY <1>1
  <2>5. t[i] \in {"render", "join"} => i = Len(t)
    <3>1. ASSUME i + 1 = Len(s) PROVE i = Len(t)
      <4>1. PICK m \in Nat, n \in Nat : m = Len(t) /\ n = Len(s)
        BY <2>4
      <4>2. m = n - 1 /\ i <= m /\ i + 1 = n
        BY <2>4, <3>1, <4>1
      <4>3. i = m
        BY <2>4, <4>2, OneLess
      <4>. QED
        BY <4>1, <4>3
    <3>. QED
      BY <2>1, <2>2, <3>1
  <2>6. ASSUME t[i] = "cancel" PROVE i + 1 = Len(t) /\ t[i + 1] = "join"
    <3>1. (i + 1) + 1 = Len(s) /\ s[(i + 1) + 1] = "join"
      BY <2>1, <2>2, <2>6
    <3>2. i + 1 = Len(t) /\ i + 1 \in 1..Len(t)
      BY <2>4, <3>1, OneLess
    <3>. QED
      BY <2>3, <3>1, <3>2
  <2>. QED
    BY <2>5, <2>6
<1>. QED
  BY <1>1, <1>2, <1>3 DEF Plain

LEMMA PlainNotService ==
  ASSUME NEW s, Plain(s)
  PROVE  s \notin Services
<1>1. \A i \in 1..Len(s) : s[i] \in PlainStep
  BY ElementOfSeq DEF Plain
<1>2. /\ Len(<<"sdk", "served">>) = 2 /\ <<"sdk", "served">>[2] = "served"
      /\ Len(<<"served">>) = 1 /\ <<"served">>[1] = "served"
      /\ Len(<<"refused">>) = 1 /\ <<"refused">>[1] = "refused"
  OBVIOUS
<1>3. "served" \notin PlainStep /\ "refused" \notin PlainStep
  BY DEF PlainStep
<1>. QED
  BY <1>1, <1>2, <1>3 DEF Services

LEMMA JoinedHead ==
  ASSUME NEW S, NEW s \in Seq(S), NEW t \in Seq(S), s # <<>>
  PROVE  s \o t # <<>> /\ Head(s \o t) = Head(s)
<1>1. Len(s) \in Nat \ {0} /\ Len(t) \in Nat /\ 1 \in 1..Len(s) + Len(t)
  BY EmptySeq, LenProperties
<1>2. s \o t \in Seq(S) /\ Len(s \o t) = Len(s) + Len(t) /\ (s \o t)[1] = s[1]
  BY <1>1, ConcatProperties
<1>. QED
  BY <1>1, <1>2, TailOf

(* What the operations begin with.                                         *)
LEMMA ShortScripts ==
  /\ Transition \in Seq(FreeStep \cap SilentStep) /\ Transition # <<>> /\ Head(Transition) = "cursor"
  /\ FailScript \in Seq(FreeStep \cap SilentStep) /\ FailScript # <<>> /\ Head(FailScript) = "fail"
<1>1. Transition \in Seq(FreeStep \cap SilentStep) /\ Transition # <<>> /\ Head(Transition) = "cursor"
  BY DEF Transition, FreeStep, SilentStep, PlainStep
<1>2. <<"fail">> \in Seq(FreeStep \cap SilentStep) /\ <<"failed">> \in Seq(FreeStep \cap SilentStep)
  BY DEF FreeStep, SilentStep, PlainStep
<1>3. <<"fail">> # <<>> /\ Head(<<"fail">>) = "fail"
  OBVIOUS
<1>4. (Transition \o <<"failed">>) \in Seq(FreeStep \cap SilentStep)
  BY <1>1, <1>2, Joined
<1>5. FailScript = <<"fail">> \o (Transition \o <<"failed">>)
  BY <1>1, <1>2, ConcatAssociative DEF FailScript
<1>. QED
  BY <1>1, <1>2, <1>3, <1>4, <1>5, Joined, JoinedHead

(* Scripts that begin without a plugin and contain none.                   *)
LEMMA FreeScripts ==
  ASSUME NEW tail \in Seq(FreeStep)
  PROVE  Transition \o tail \in Seq(FreeStep) /\ FreshScript(Transition \o tail)
<1>1. Transition \in Seq(FreeStep) /\ Transition # <<>> /\ Head(Transition) = "cursor"
  BY ShortScripts, SeqMonotonic
<1>2. Transition \o tail \in Seq(FreeStep)
  BY <1>1, Joined
<1>3. Transition \o tail # <<>> /\ Head(Transition \o tail) = "cursor"
  BY <1>1, JoinedHead
<1>. QED
  BY <1>2, <1>3, FreeFresh

-----------------------------------------------------------------------------
(* What each thread leaves alone.                                          *)

LEMMA CallbackFrame ==
  ASSUME Callback
  PROVE  /\ UNCHANGED <<ready, lastEpoch, recovering, commands, events, offline>>
         /\ UNCHANGED <<transport, looping, error, revision, recovered, rendering>>
         /\ UNCHANGED <<turn, script, doing, to, keep, held, asked, response, cancel>>
         /\ UNCHANGED <<stage, job, dsp, wto, ticket, pass, renderResult, length, requests>>
BY DEF Callback, LoadActive, DrainStale, PopFrame, CommitFrame, FinishLast, DeviceFails, Device,
       transportVars, controlVars, workerVars

RenderStep ==
  \/ WorkerJob
  \/ /\ NoJob
     /\ \/ Top \/ TakePlay \/ TakeSeek \/ TakePause \/ TakeParam \/ TakeMix \/ TakeMonitor
        \/ TakeBarrier \/ TakeRenegotiate \/ Gate \/ NotRendered \/ Push \/ Prefilled
FileStep ==
  \/ AskTiming \/ TimingAnswered \/ GiveUp \/ Invalidate \/ ProbeLatency \/ WriteBlock
  \/ DeliverResult

LEMMA WorkerSplit == WorkerStep <=> RenderStep \/ (NoJob /\ TakeRender) \/ (NoJob /\ FileStep)
BY DEF WorkerStep, RenderStep, FileStep

LEMMA WorkerFrame ==
  ASSUME WorkerStep
  PROVE  /\ UNCHANGED <<offline, transport, looping, error, revision, recovered, rendering>>
         /\ UNCHANGED <<turn, script, doing, to, keep, held, asked, cancel, requests>>
         /\ UNCHANGED <<cb, saw, got, heard, deviceFailed>>
<1>1. WorkerStep => WorkerOnly
  BY DEF WorkerStep, WorkerJob, Top, TakePlay, TakeSeek, TakePause, TakeParam, TakeMix, TakeMonitor,
         TakeBarrier, TakeRenegotiate, TakeRender, Gate, NotRendered, Push, Prefilled, AskTiming,
         TimingAnswered, GiveUp, Invalidate, ProbeLatency, WriteBlock, DeliverResult, Handled, Export
<1>. QED
  BY <1>1 DEF WorkerOnly, transportVars, deviceVars

LEMMA FileFrame ==
  ASSUME FileStep
  PROVE  /\ UNCHANGED <<active, cursor, ready, lastEpoch, recovering, ring, commands>>
         /\ UNCHANGED <<job, dsp, wto, length, response>>
         /\ stage \in Exporting
<1>1. Export /\ stage \in Exporting
  BY DEF FileStep, AskTiming, TimingAnswered, GiveUp, Invalidate, ProbeLatency, WriteBlock,
    DeliverResult,
         Exporting
<1>. QED
  BY <1>1 DEF Export, KeepClock, clockVars

LEMMA RenderFrame ==
  ASSUME RenderStep
  PROVE  UNCHANGED <<ticket, pass, renderResult>>
<1>1. KeepExport
  BY DEF RenderStep, WorkerJob, Top, TakePlay, TakeSeek, TakePause, TakeParam, TakeMix, TakeMonitor,
         TakeBarrier, TakeRenegotiate, Gate, NotRendered, Push, Prefilled, Handled
<1>. QED
  BY <1>1 DEF KeepExport

LEMMA ControlFrame ==
  ASSUME ControlStep \/ User
  PROVE  UNCHANGED <<ring, offline, stage, job, dsp, wto, pass, renderResult, length, saw, got,
                     heard>>
<1>1. CASE Tick \/ HandleEvent \/ NoMessage \/ SendCommand \/ SendQuestion
  BY <1>1 DEF Tick, HandleEvent, NoMessage, SendCommand, SendQuestion, Control, queueVars
<1>2. CASE ControlClock \/ Await \/ Sdk \/ Served \/ DropPause \/ MoveOn \/ Resume \/ FailSession
           \/ Failed
  BY <1>2 DEF ControlClock, Await, Sdk, Served, DropPause, MoveOn, Resume, FailSession, Failed,
    Control, queueVars
<1>3. CASE Drop
  BY <1>3 DEF Drop, queueVars, workerVars
<1>4. CASE User
  <2>1. \E name, steps : Request(name, steps)
    BY <1>4 DEF User, AskPlay, AskSeek, AskPause, AskParam, AskSnapshot, AskMix, AskMonitor, AskRender,
                AskClose, EditorUsed
  <2>. QED
    BY <2>1 DEF Request, Control, queueVars
<1>. QED
  BY <1>1, <1>2, <1>3, <1>4 DEF ControlStep

-----------------------------------------------------------------------------
(* Types.                                                                  *)

LEMMA Sizes ==
  /\ RingSize \in Nat \ {0} /\ QueueSize \in Nat \ {0} /\ EventSize \in Nat \ {0}
  /\ Lengths \subseteq Nat \ {0} /\ Starts \subseteq Nat /\ Loops \subseteq BOOLEAN
BY SizeAssumption

LEMMA Posted ==
  ASSUME NEW T, events \in EventsOf(T), Len(events) <= EventSize,
         NEW type \in T, NEW of \in Nat, Post([type |-> type, of |-> of])
  PROVE  events' \in EventsOf(T) /\ Len(events') <= EventSize
<1>1. [type |-> type, of |-> of] \in [type : T, of : Nat] /\ EventSize \in Nat
  BY Sizes
<1>2. CASE Len(events) < EventSize
  <2>1. events' = Append(events, [type |-> type, of |-> of]) /\ Len(events) \in Nat
    BY <1>2 DEF Post, EventsOf
  <2>. QED
    BY <1>1, <1>2, <2>1, AppendProperties DEF EventsOf
<1>3. CASE ~(Len(events) < EventSize)
  BY <1>3 DEF Post
<1>. QED
  BY <1>2, <1>3

CommandRecord(T) == [type : T, frame : Nat, generation : Nat, looping : BOOLEAN, of : Nat]

LEMMA Taken ==
  ASSUME NEW T, commands \in CommandsOf(T), NEW type, Take(type)
  PROVE  /\ commands' = Tail(commands) /\ commands' \in CommandsOf(T) /\ commands # <<>>
         /\ Len(commands) \in Nat \ {0} /\ Len(commands') = Len(commands) - 1
         /\ Head(commands) = commands[1] /\ Head(commands) \in CommandRecord(T)
         /\ Head(commands).type = type /\ type \in T
         /\ \A i \in 1..Len(commands') : i + 1 \in 1..Len(commands) /\ commands'[i] = commands[i + 1]
<1>0. CommandsOf(T) = Seq(CommandRecord(T))
  BY DEF CommandsOf, CommandRecord
<1>1. commands' = Tail(commands) /\ commands # <<>> /\ Head(commands).type = type
  BY DEF Take
<1>2. /\ commands' \in CommandsOf(T) /\ Len(commands) \in Nat \ {0} /\ Len(commands') = Len(commands) - 1
      /\ Head(commands) = commands[1] /\ Head(commands) \in CommandRecord(T)
      /\ \A i \in 1..Len(commands') : commands'[i] = commands[i + 1]
  BY <1>0, <1>1, TailOf
<1>3. type \in T
  BY <1>1, <1>2 DEF CommandRecord
<1>4. \A i \in 1..Len(commands') : i + 1 \in 1..Len(commands)
  BY <1>2
<1>. QED
  BY <1>1, <1>2, <1>3, <1>4

LEMMA Enqueued ==
  ASSUME NEW T, commands \in CommandsOf(T), Room, NEW c \in CommandRecord(T), Enqueue(c)
  PROVE  /\ commands' \in CommandsOf(T) /\ commands' # <<>>
         /\ Len(commands) \in Nat /\ Len(commands') = Len(commands) + 1 /\ Len(commands') <= QueueSize
         /\ \A i \in 1..Len(commands) : commands'[i] = commands[i]
         /\ commands'[Len(commands')] = c
<1>0. CommandsOf(T) = Seq(CommandRecord(T))
  BY DEF CommandsOf, CommandRecord
<1>1. commands' = Append(commands, c) /\ Len(commands) < QueueSize /\ QueueSize \in Nat
  BY Sizes DEF Enqueue, Room
<1>2. /\ commands' \in CommandsOf(T) /\ commands' # <<>> /\ Len(commands') = Len(commands) + 1
      /\ \A i \in 1..Len(commands) : commands'[i] = commands[i]
      /\ commands'[Len(commands) + 1] = c
  BY <1>0, <1>1, AppendProperties
<1>3. Len(commands) \in Nat
  BY <1>0
<1>. QED
  BY <1>1, <1>2, <1>3

\* The frame of a mix stays a length, and a queue that is taken from only shrinks.
LEMMA TakenTypes ==
  ASSUME QueueTypes, NEW type, Take(type)
  PROVE  /\ commands' \in CommandsOf(CommandType) /\ Len(commands') <= QueueSize
         /\ \A i \in 1..Len(commands') : commands'[i].type = "mix" => commands'[i].frame \in Lengths
         /\ Head(commands) \in CommandRecord(CommandType)
         /\ type = "mix" => Head(commands).frame \in Lengths
<1>1. commands \in CommandsOf(CommandType) /\ Len(commands) <= QueueSize /\ QueueSize \in Nat
  BY Sizes DEF QueueTypes
<1>2. /\ commands' \in CommandsOf(CommandType) /\ Len(commands) \in Nat \ {0}
      /\ Len(commands') = Len(commands) - 1 /\ Head(commands) = commands[1]
      /\ Head(commands) \in CommandRecord(CommandType) /\ Head(commands).type = type
      /\ \A i \in 1..Len(commands') : i + 1 \in 1..Len(commands) /\ commands'[i] = commands[i + 1]
  BY <1>1, Taken
<1>3. Len(commands') <= QueueSize
  BY <1>1, <1>2
<1>4. 1 \in 1..Len(commands)
  BY <1>2
<1>. QED
  BY <1>2, <1>3, <1>4 DEF QueueTypes

LEMMA CallbackTypes ==
  ASSUME AudioTypes, Callback
  PROVE  AudioTypes'
<1>0. /\ UNCHANGED <<ready, lastEpoch, recovering, commands, events, offline>>
      /\ UNCHANGED <<transport, looping, error, revision, recovered, rendering>>
      /\ UNCHANGED <<turn, script, doing, to, keep, held, asked, response, cancel>>
      /\ UNCHANGED <<stage, job, dsp, wto, ticket, pass, renderResult, length, requests>>
  BY CallbackFrame
<1>1. ControlTypes' /\ WorkerTypes'
  BY <1>0 DEF AudioTypes, ControlTypes, WorkerTypes
<1>2. ring' \in Seq(FrameType) /\ Len(ring') <= Len(ring) /\ (ring # <<>> => Head(ring) \in FrameType)
  <2>0. ring \in Seq(FrameType) /\ Len(ring) \in Nat
    BY DEF AudioTypes, QueueTypes
  <2>1. CASE DrainStale
    <3>1. PICK n \in 0..Len(ring) : ring' = SubSeq(ring, n + 1, Len(ring))
      BY <2>1 DEF DrainStale
    <3>2. \A i \in n + 1..Len(ring) : ring[i] \in FrameType
      BY <2>0, ElementOfSeq
    <3>3. ring' \in Seq(FrameType) /\ Len(ring') = (IF n + 1 <= Len(ring) THEN Len(ring) - (n + 1) + 1 ELSE 0)
      BY <2>0, <3>1, <3>2, SubSeqProperties
    <3>4. Len(ring') <= Len(ring)
      BY <2>0, <3>3
    <3>. QED
      BY <2>0, <3>3, <3>4, TailOf
  <2>2. CASE PopFrame
    <3>1. ring' = ring \/ (ring # <<>> /\ ring' = Tail(ring))
      BY <2>2 DEF PopFrame
    <3>2. CASE ring # <<>> /\ ring' = Tail(ring)
      BY <2>0, <3>2, TailOf
    <3>. QED
      BY <2>0, <3>1, <3>2, TailOf
  <2>3. CASE LoadActive \/ CommitFrame \/ FinishLast \/ DeviceFails
    <3>1. ring' = ring
      BY <2>3 DEF LoadActive, CommitFrame, FinishLast, DeviceFails
    <3>. QED
      BY <2>0, <3>1, TailOf
  <2>. QED
    BY <2>1, <2>2, <2>3 DEF Callback
<1>3. QueueTypes'
  <2>1. Len(ring) \in Nat /\ Len(ring') \in Nat /\ RingSize \in Nat
    BY <1>2, Sizes DEF AudioTypes, QueueTypes
  <2>. QED
    BY <1>0, <1>2, <2>1 DEF AudioTypes, QueueTypes
<1>4. heard' \in [epoch : Nat, first : Nat, last : Nat, missed : BOOLEAN]
  <2>0. active \in Nat /\ heard \in [epoch : Nat, first : Nat, last : Nat, missed : BOOLEAN]
    BY DEF AudioTypes, ClockTypes, DeviceTypes
  <2>1. CASE DrainStale
    <3>1. \/ heard' = heard
          \/ heard' = [epoch |-> active, first |-> 0, last |-> 0, missed |-> TRUE]
      BY <2>1 DEF DrainStale
    <3>2. CASE heard' = heard
      BY <2>0, <3>2
    <3>3. CASE heard' = [epoch |-> active, first |-> 0, last |-> 0, missed |-> TRUE]
      BY <2>0, <3>3
    <3>. QED
      BY <3>1, <3>2, <3>3
  <2>2. CASE PopFrame
    <3>1. heard' = heard \/ (ring # <<>> /\ Hear(Head(ring)))
      BY <2>2 DEF PopFrame
    <3>2. ASSUME ring # <<>>, Hear(Head(ring))
          PROVE  heard' \in [epoch : Nat, first : Nat, last : Nat, missed : BOOLEAN]
      <4>1. Head(ring).generation \in Nat /\ Head(ring).position \in Nat
        BY <1>2, <3>2 DEF FrameType
      <4>2. (heard.epoch = Head(ring).generation /\ heard.missed) \in BOOLEAN
        OBVIOUS
      <4>. QED
        BY <2>0, <3>2, <4>1, <4>2 DEF Hear
    <3>. QED
      BY <2>0, <3>1, <3>2
  <2>3. CASE LoadActive \/ CommitFrame \/ FinishLast \/ DeviceFails
    BY <2>0, <2>3 DEF LoadActive, CommitFrame, FinishLast, DeviceFails
  <2>. QED
    BY <2>1, <2>2, <2>3 DEF Callback
<1>5. ClockTypes' /\ DeviceTypes'
  <2>. USE DEF AudioTypes, ClockTypes, DeviceTypes
  <2>0. MaxFaults \in Nat /\ NoFrame \in FrameType
    BY SizeAssumption DEF NoFrame, FrameType
  <2>1. CASE LoadActive
    BY <1>0, <1>4, <2>1 DEF LoadActive
  <2>2. CASE DrainStale
    BY <1>0, <1>4, <2>0, <2>2 DEF DrainStale, Rest
  <2>3. CASE PopFrame
    BY <1>0, <1>2, <1>4, <2>0, <2>3 DEF PopFrame, Rest
  <2>4. CASE CommitFrame
    BY <1>0, <1>4, <2>0, <2>4 DEF CommitFrame, Rest, FrameType
  <2>5. CASE FinishLast
    BY <1>0, <1>4, <2>0, <2>5 DEF FinishLast, Finish, Rest
  <2>6. CASE DeviceFails
    BY <1>0, <1>4, <2>0, <2>6 DEF DeviceFails, Fault
  <2>. QED
    BY <2>1, <2>2, <2>3, <2>4, <2>5, <2>6 DEF Callback
<1>. QED
  BY <1>1, <1>3, <1>5 DEF AudioTypes

DspType == [active : BOOLEAN, looping : BOOLEAN, generation : Nat, position : Nat,
            hold : Nat, revision : Nat, cut : BOOLEAN]
JobStep == {"recovering", "replace", "halt", "cursor", "unready", "active", "tell"}

LEMMA FailsTypes ==
  ASSUME AudioTypes, Fails \/ FailsFinished
  PROVE  /\ ClockTypes' /\ dsp' \in DspType /\ wto' \in MoveType /\ job' \in Seq(JobStep)
         /\ events' \in EventsOf(EventType) /\ Len(events') <= EventSize /\ faults' \in Nat
<1>. USE DEF AudioTypes
<1>1. events' \in EventsOf(EventType) /\ Len(events') <= EventSize
  <2>1. Post([type |-> "failure", of |-> 0]) /\ "failure" \in EventType /\ 0 \in Nat
    BY DEF Fails, FailsFinished, EventType
  <2>. QED
    BY <2>1, Posted DEF QueueTypes
<1>2. faults' \in Nat
  BY DEF Fails, FailsFinished, Fault, DeviceTypes
<1>3. dsp' \in DspType
  BY DEF Fails, FailsFinished, WorkerTypes, DspType
<1>4. ClockTypes'
  BY DEF Fails, FailsFinished, Finish, ClockTypes, KeepClock, clockVars
<1>5. wto' \in MoveType
  <2>1. CASE Fails
    <3>1. wto' = [frame |-> cursor.frame, playing |-> FALSE, generation |-> 0] /\ cursor.frame \in Nat
      BY <2>1 DEF Fails, ClockTypes
    <3>. QED
      BY <3>1 DEF MoveType
  <2>2. CASE FailsFinished
    BY <2>2 DEF FailsFinished, WorkerTypes
  <2>. QED
    BY <2>1, <2>2
<1>6. job' \in Seq(JobStep)
  <2>1. Transition \in Seq(JobStep)
    BY DEF Transition, JobStep
  <2>. QED
    BY <2>1 DEF Fails, FailsFinished, WorkerTypes, JobStep
<1>. QED
  BY <1>1, <1>2, <1>3, <1>4, <1>5, <1>6

LEMMA JobTypes ==
  ASSUME AudioTypes, WorkerJob
  PROVE  AudioTypes'
<1>. USE DEF AudioTypes
<1>0. /\ UNCHANGED <<offline, transport, looping, error, revision, recovered, rendering>>
      /\ UNCHANGED <<turn, script, doing, to, keep, held, asked, cancel, requests>>
      /\ UNCHANGED <<cb, saw, got, heard, deviceFailed, ticket, pass, renderResult>>
      /\ UNCHANGED <<ring, commands, stage, length, response, faults>>
  BY WorkerFrame, RenderFrame DEF WorkerStep, RenderStep, WorkerJob, Works
<1>1. ControlTypes' /\ DeviceTypes'
  BY <1>0 DEF ControlTypes, DeviceTypes
<1>2. job \in Seq(JobStep) /\ dsp \in DspType
  BY DEF WorkerTypes, JobStep, DspType
<1>3. job' \in Seq(JobStep)
  BY <1>2, TailOf DEF WorkerJob
<1>4. lastEpoch' \in Nat /\ recovering' \in BOOLEAN
  BY DEF WorkerJob, ClockTypes
<1>5. NoMove \in MoveType /\ (lastEpoch' \in Nat => Stamped(wto) \in MoveType)
  BY DEF WorkerTypes, Stamped, MoveType, NoMove
<1>6. wto' \in MoveType
  BY <1>4, <1>5 DEF WorkerJob
<1>7. active' \in Nat /\ ready' \in Nat /\ cursor' \in [epoch : Nat, frame : Nat]
  <2>1. CASE dsp.active
    <3>1. active \in Nat /\ ready \in Nat /\ cursor \in [epoch : Nat, frame : Nat]
      BY DEF ClockTypes
    <3>2. wto.generation \in Nat
      BY DEF WorkerTypes, MoveType
    <3>3. \/ cursor' = cursor
          \/ cursor' = [cursor EXCEPT !.epoch = wto.generation]
      BY <2>1 DEF WorkerJob
    <3>4. active' \in {active, 0} /\ ready' \in {ready, 0}
      BY <2>1 DEF WorkerJob, Finish
    <3>. QED
      BY <3>1, <3>2, <3>3, <3>4
  <2>2. CASE ~dsp.active
    <3>1. TransitionStep(Head(job), wto)
      BY <2>2 DEF WorkerJob
    <3>2. wto.frame \in Nat /\ wto.generation \in Nat /\ lastEpoch + 1 \in Nat
      BY DEF WorkerTypes, MoveType, ClockTypes
    <3>. QED
      BY <3>1, <3>2 DEF TransitionStep, ClockTypes
  <2>. QED
    BY <2>1, <2>2
<1>8. dsp' \in DspType /\ events' \in EventsOf(EventType) /\ Len(events') <= EventSize
  <2>1. dsp.revision \in Nat /\ "latency" \in EventType
    BY <1>2 DEF DspType, EventType
  <2>2. CASE Post([type |-> "latency", of |-> dsp.revision]) /\ dsp' = [dsp EXCEPT !.active = FALSE]
    BY <1>2, <2>1, <2>2, Posted DEF QueueTypes, DspType
  <2>3. CASE UNCHANGED <<events, dsp>>
    BY <1>2, <2>3 DEF QueueTypes
  <2>. QED
    BY <2>2, <2>3 DEF WorkerJob
<1>9. QueueTypes'
  BY <1>0, <1>8 DEF QueueTypes
<1>10. WorkerTypes'
  BY <1>0, <1>3, <1>6, <1>8 DEF WorkerTypes, DspType, JobStep
<1>. QED
  BY <1>1, <1>4, <1>7, <1>9, <1>10 DEF ClockTypes

\* What a render step may change.
LEMMA AnswerTypes ==
  ASSUME ControlTypes, NEW c, NEW r \in {"ok", "error"}, Answer(c, r)
  PROVE  response' \in {"none", "ok", "error"}
BY DEF Answer, ControlTypes

LEMMA TakeTypes ==
  ASSUME AudioTypes, \/ TakePlay \/ TakeSeek \/ TakePause \/ TakeParam \/ TakeMix \/ TakeMonitor
                     \/ TakeBarrier \/ TakeRenegotiate, WorkerStep
  PROVE  AudioTypes'
<1>. USE DEF AudioTypes
<1>0. /\ UNCHANGED <<offline, transport, looping, error, revision, recovered, rendering>>
      /\ UNCHANGED <<turn, script, doing, to, keep, held, asked, cancel, requests>>
      /\ UNCHANGED <<cb, saw, got, heard, deviceFailed>>
  BY WorkerFrame
<1>1. /\ UNCHANGED <<ticket, pass, renderResult, ring, stage>>
      /\ \E type : Take(type) /\ (length' = length \/ (type = "mix" /\ length' = Head(commands).frame))
      /\ \/ /\ UNCHANGED <<active, cursor, ready, lastEpoch, recovering, events, job, wto>>
            /\ faults' = faults \/ Fault
         \/ Fails \/ FailsFinished
  BY DEF TakePlay, TakeSeek, TakePause, TakeParam, TakeMix, TakeMonitor, TakeBarrier, TakeRenegotiate,
         Quietly, Handled, KeepExport, KeepClock, clockVars, Works
<1>2. PICK type : Take(type) /\ (length' = length \/ (type = "mix" /\ length' = Head(commands).frame))
  BY <1>1
<1>3. /\ commands' \in CommandsOf(CommandType) /\ Len(commands') <= QueueSize
      /\ \A i \in 1..Len(commands') : commands'[i].type = "mix" => commands'[i].frame \in Lengths
      /\ Head(commands) \in CommandRecord(CommandType)
      /\ type = "mix" => Head(commands).frame \in Lengths
  BY <1>2, TakenTypes
<1>4. length' \in Lengths
  BY <1>2, <1>3 DEF WorkerTypes
<1>5. /\ ClockTypes' /\ wto' \in MoveType /\ job' \in Seq(JobStep)
      /\ events' \in EventsOf(EventType) /\ Len(events') <= EventSize /\ faults' \in Nat
  <2>1. CASE /\ UNCHANGED <<active, cursor, ready, lastEpoch, recovering, events, job, wto>>
             /\ faults' = faults \/ Fault
    BY <2>1 DEF ClockTypes, WorkerTypes, QueueTypes, DeviceTypes, Fault, JobStep
  <2>2. CASE Fails \/ FailsFinished
    BY <2>2, FailsTypes
  <2>. QED
    BY <1>1, <2>1, <2>2
<1>6. dsp' \in DspType
  <2>. dsp \in DspType /\ active \in Nat
    BY DEF WorkerTypes, ClockTypes, DspType
  <2>1. CASE TakePlay \/ TakeSeek \/ TakePause
    BY <1>3, <2>1 DEF TakePlay, TakeSeek, TakePause, DspType, CommandRecord
  <2>2. CASE TakeParam \/ TakeMix \/ TakeMonitor
    <3>1. UNCHANGED dsp \/ Fails \/ FailsFinished
      BY <2>2 DEF TakeParam, TakeMix, TakeMonitor
    <3>. QED
      BY <3>1, FailsTypes
  <2>3. CASE TakeBarrier
    <3>1. dsp' = [dsp EXCEPT !.hold = Head(commands).of] /\ Head(commands).of \in Nat
      BY <1>3, <2>3 DEF TakeBarrier, CommandRecord
    <3>. QED
      BY <3>1 DEF DspType
  <2>4. CASE TakeRenegotiate
    <3>1. \/ dsp' = [dsp EXCEPT !.active = FALSE, !.hold = 0, !.revision = @ + 1]
          \/ dsp' = [dsp EXCEPT !.active = FALSE, !.hold = 0]
      BY <2>4 DEF TakeRenegotiate
    <3>2. CASE dsp' = [dsp EXCEPT !.active = FALSE, !.hold = 0, !.revision = @ + 1]
      <4>1. PICK r \in Nat : r = dsp.revision + 1
        BY DEF DspType
      <4>2. dsp' = [dsp EXCEPT !.active = FALSE, !.hold = 0, !.revision = r]
        BY <3>2, <4>1
      <4>. QED
        BY <4>2 DEF DspType
    <3>3. CASE dsp' = [dsp EXCEPT !.active = FALSE, !.hold = 0]
      BY <3>3 DEF DspType
    <3>. QED
      BY <3>1, <3>2, <3>3
  <2>. QED
    BY <2>1, <2>2, <2>3, <2>4
<1>7. response' \in {"none", "ok", "error"}
  <2>1. response' = response \/ \E r \in {"ok", "error"} : Answer(Head(commands), r)
    BY DEF TakePlay, TakeSeek, TakePause, TakeParam, TakeMix, TakeMonitor, TakeBarrier, TakeRenegotiate
  <2>. QED
    BY <2>1, AnswerTypes DEF ControlTypes
<1>8. QueueTypes'
  BY <1>1, <1>3, <1>5 DEF QueueTypes
<1>9. WorkerTypes'
  BY <1>1, <1>4, <1>5, <1>6 DEF WorkerTypes, DspType, JobStep
<1>10. ControlTypes' /\ DeviceTypes'
  BY <1>0, <1>5, <1>7 DEF ControlTypes, DeviceTypes
<1>. QED
  BY <1>5, <1>8, <1>9, <1>10

LEMMA RenderTypes ==
  ASSUME AudioTypes, Top \/ Gate \/ NotRendered \/ Push \/ Prefilled, WorkerStep
  PROVE  AudioTypes'
<1>. USE DEF AudioTypes
<1>0. /\ UNCHANGED <<offline, transport, looping, error, revision, recovered, rendering>>
      /\ UNCHANGED <<turn, script, doing, to, keep, held, asked, cancel, requests>>
      /\ UNCHANGED <<cb, saw, got, heard, deviceFailed>>
      /\ UNCHANGED <<ticket, pass, renderResult, commands, length, response>>
  <2>1. UNCHANGED <<ticket, pass, renderResult, commands, length, response>>
    BY DEF Top, Gate, NotRendered, Push, Prefilled, KeepExport, queueVars
  <2>. QED
    BY <2>1, WorkerFrame
<1>1. dsp \in DspType /\ job \in Seq(JobStep)
  BY DEF WorkerTypes, DspType, JobStep
<1>2. stage' \in {"top", "drain", "rendering", "prefill", "ended"}
  BY DEF Top, Gate, NotRendered, Push, Prefilled
<1>3. /\ ClockTypes' /\ wto' \in MoveType /\ job' \in Seq(JobStep)
      /\ events' \in EventsOf(EventType) /\ Len(events') <= EventSize /\ faults' \in Nat
  <2>1. ASSUME UNCHANGED <<cursor, lastEpoch, recovering, events, job, wto>>,
               active' \in Nat, ready' \in Nat, faults' = faults
        PROVE  /\ ClockTypes' /\ wto' \in MoveType /\ job' \in Seq(JobStep)
               /\ events' \in EventsOf(EventType) /\ Len(events') <= EventSize /\ faults' \in Nat
    BY <2>1 DEF ClockTypes, WorkerTypes, QueueTypes, DeviceTypes, JobStep
  <2>2. CASE Top \/ Gate \/ Push
    <3>1. UNCHANGED <<cursor, ready, lastEpoch, recovering, events, job, wto, faults>>
      BY <2>2 DEF Top, Gate, Push, Works, Quietly, KeepClock, clockVars, queueVars
    <3>2. active' = active \/ active' = 0
      BY <2>2 DEF Top, Gate, Push, Quietly, KeepClock, clockVars, Finish
    <3>. QED
      BY <2>1, <3>1, <3>2 DEF ClockTypes
  <2>3. CASE Prefilled
    <3>1. UNCHANGED <<active, cursor, lastEpoch, recovering, events, job, wto, faults>>
      BY <2>3 DEF Prefilled, Works, queueVars
    <3>2. ready' = ready \/ ready' = dsp.generation
      BY <2>3 DEF Prefilled
    <3>3. ready' \in Nat
      BY <1>1, <3>2 DEF DspType, ClockTypes
    <3>. QED
      BY <2>1, <3>1, <3>3 DEF ClockTypes
  <2>4. CASE NotRendered
    <3>1. CASE Quietly
      BY <2>1, <3>1 DEF Quietly, Works, KeepClock, clockVars, ClockTypes
    <3>2. CASE Fails \/ FailsFinished
      BY <3>2, FailsTypes
    <3>3. CASE Fault /\ job' = Recovery /\ KeepClock /\ UNCHANGED <<events, dsp, wto>>
      <4>1. Recovery \in Seq(JobStep)
        BY DEF Recovery, JobStep
      <4>. QED
        BY <3>3, <4>1 DEF KeepClock, clockVars, ClockTypes, WorkerTypes, QueueTypes, DeviceTypes, Fault
    <3>. QED
      BY <2>4, <3>1, <3>2, <3>3 DEF NotRendered
  <2>. QED
    BY <2>2, <2>3, <2>4
<1>4. dsp' \in DspType
  <2>1. CASE Top
    BY <1>1, <2>1 DEF Top
  <2>2. CASE Gate
    <3>1. \/ dsp' = dsp \/ dsp' = [dsp EXCEPT !.position = 0]
          \/ dsp' = [dsp EXCEPT !.active = FALSE, !.cut = TRUE]
      BY <2>2 DEF Gate
    <3>2. CASE dsp' = [dsp EXCEPT !.active = FALSE, !.cut = TRUE]
      BY <1>1, <3>2 DEF DspType
    <3>. QED
      BY <1>1, <3>1, <3>2 DEF DspType
  <2>3. CASE NotRendered
    <3>1. dsp' = dsp \/ Fails \/ FailsFinished
      BY <2>3 DEF NotRendered
    <3>. QED
      BY <1>1, <3>1, FailsTypes
  <2>4. CASE Push
    <3>1. PICK n \in Nat : n = dsp.position + 1
      BY <1>1 DEF DspType
    <3>2. dsp' = [dsp EXCEPT !.position = n]
      BY <2>4, <3>1 DEF Push
    <3>. QED
      BY <1>1, <3>2 DEF DspType
  <2>5. CASE Prefilled
    <3>1. dsp' = [dsp EXCEPT !.active = ~AtEnd]
      BY <2>5 DEF Prefilled
    <3>2. AtEnd \in BOOLEAN
      BY DEF AtEnd
    <3>. QED
      BY <1>1, <3>1, <3>2 DEF DspType
  <2>. QED
    BY <2>1, <2>2, <2>3, <2>4, <2>5
<1>5. ring' \in Seq(FrameType) /\ Len(ring') <= RingSize /\ (stage' = "rendering" => Len(ring') < RingSize)
  <2>0. ring \in Seq(FrameType) /\ Len(ring) \in Nat /\ RingSize \in Nat /\ Len(ring) <= RingSize
    BY Sizes DEF QueueTypes
  <2>1. CASE Push
    <3>0. Len(ring) < RingSize /\ stage' = "prefill"
      BY <2>1 DEF Push, QueueTypes
    <3>1. PICK f : /\ ring' = Append(ring, f)
                   /\ f = [position |-> dsp.position + 1, generation |-> dsp.generation,
                           last |-> ~dsp.looping /\ dsp.position + 1 >= length]
      BY <2>1 DEF Push
    <3>2. f \in FrameType
      <4>1. dsp.position + 1 \in Nat /\ dsp.generation \in Nat /\ dsp.looping \in BOOLEAN
        BY <1>1 DEF DspType
      <4>2. (~dsp.looping /\ dsp.position + 1 >= length) \in BOOLEAN
        OBVIOUS
      <4>. QED
        BY <3>1, <4>1, <4>2 DEF FrameType
    <3>3. ring' \in Seq(FrameType) /\ Len(ring') = Len(ring) + 1
      BY <2>0, <3>1, <3>2, AppendProperties
    <3>. QED
      BY <2>0, <3>0, <3>3
  <2>2. CASE Top \/ NotRendered \/ Prefilled
    <3>1. ring' = ring /\ stage' # "rendering"
      BY <2>2 DEF Top, NotRendered, Prefilled, queueVars
    <3>. QED
      BY <2>0, <3>1
  <2>3. CASE Gate
    <3>1. ring' = ring /\ (stage' = "rendering" => Len(ring) < RingSize)
      BY <2>3 DEF Gate, Open, queueVars
    <3>. QED
      BY <2>0, <3>1
  <2>. QED
    BY <2>1, <2>2, <2>3
<1>6. QueueTypes'
  BY <1>0, <1>2, <1>3, <1>5 DEF QueueTypes
<1>7. WorkerTypes'
  BY <1>0, <1>2, <1>3, <1>4 DEF WorkerTypes, DspType, JobStep
<1>8. ControlTypes' /\ DeviceTypes'
  BY <1>0, <1>3 DEF ControlTypes, DeviceTypes
<1>. QED
  BY <1>3, <1>6, <1>7, <1>8

LEMMA ExportTypes ==
  ASSUME AudioTypes, TakeRender \/ FileStep, WorkerStep
  PROVE  AudioTypes'
<1>. USE DEF AudioTypes
<1>0. /\ UNCHANGED <<offline, transport, looping, error, revision, recovered, rendering>>
      /\ UNCHANGED <<turn, script, doing, to, keep, held, asked, cancel, requests>>
      /\ UNCHANGED <<cb, saw, got, heard, deviceFailed>>
      /\ UNCHANGED <<active, cursor, ready, lastEpoch, recovering, ring>>
      /\ UNCHANGED <<job, wto, length, response>>
  <2>1. /\ UNCHANGED <<active, cursor, ready, lastEpoch, recovering, ring>>
        /\ UNCHANGED <<job, wto, length, response>>
    BY FileFrame DEF TakeRender, KeepClock, clockVars
  <2>. QED
    BY <2>1, WorkerFrame
<1>1. commands' \in CommandsOf(CommandType) /\ Len(commands') <= QueueSize
      /\ \A i \in 1..Len(commands') : commands'[i].type = "mix" => commands'[i].frame \in Lengths
  <2>1. CASE TakeRender
    BY <2>1, TakenTypes DEF TakeRender
  <2>2. CASE FileStep
    BY <2>2, FileFrame DEF QueueTypes
  <2>. QED
    BY <2>1, <2>2
<1>2. dsp' \in DspType
  <2>1. dsp \in DspType /\ (dsp' = dsp \/ dsp' = [dsp EXCEPT !.active = FALSE])
    BY FileFrame DEF TakeRender, WorkerTypes, DspType
  <2>. QED
    BY <2>1 DEF DspType
<1>3. events' \in EventsOf(EventType) /\ Len(events') <= EventSize
  <2>1. \/ events' = events
        \/ \E type \in EventType, of \in Nat : Post([type |-> type, of |-> of])
    <3>0. ticket.id + 1 \in Nat /\ pass \in Nat
      BY DEF WorkerTypes
    <3>1. CASE TakeRender
      BY <3>1 DEF TakeRender, EventType
    <3>2. CASE AskTiming
      BY <3>0, <3>2 DEF AskTiming, EventType
    <3>3. CASE TimingAnswered \/ GiveUp \/ Invalidate \/ ProbeLatency
      BY <3>3 DEF TimingAnswered, GiveUp, Invalidate, ProbeLatency
    <3>4. CASE WriteBlock
      BY <3>0, <3>4 DEF WriteBlock, EventType
    <3>5. CASE DeliverResult
      BY <3>5 DEF DeliverResult, EventType
    <3>. QED
      BY <3>1, <3>2, <3>3, <3>4, <3>5 DEF FileStep
  <2>. QED
    BY <2>1, Posted DEF QueueTypes
<1>4. /\ stage' \in {"drain"} \cup Exporting /\ pass' \in Nat
      /\ renderResult' \in {"none", "ok", "error"} /\ faults' \in Nat
  <2>0. pass + 1 \in Nat
    BY DEF WorkerTypes
  <2>. USE DEF WorkerTypes, DeviceTypes, Works, Fault, Exporting, Deliver
  <2>1. CASE TakeRender \/ AskTiming \/ TimingAnswered \/ GiveUp \/ Invalidate
    BY <2>1 DEF TakeRender, AskTiming, TimingAnswered, GiveUp, Invalidate
  <2>2. CASE ProbeLatency \/ WriteBlock \/ DeliverResult
    BY <2>0, <2>2 DEF ProbeLatency, WriteBlock, DeliverResult
  <2>. QED
    BY <2>1, <2>2 DEF FileStep
<1>5. ticket' \in [id : Nat, state : {"void", "queued", "serving", "done", "failed"}]
  <2>0. ticket.id + 1 \in Nat /\ ticket \in [id : Nat, state : {"void", "queued", "serving", "done", "failed"}]
    BY DEF WorkerTypes
  <2>1. \/ ticket' = ticket
        \/ ticket' = [ticket EXCEPT !.state = "void"]
        \/ ticket' = [id |-> ticket.id + 1, state |-> "queued"]
    BY DEF FileStep, TakeRender, AskTiming, TimingAnswered, GiveUp, Invalidate, ProbeLatency,
      WriteBlock, DeliverResult
  <2>. QED
    BY <2>0, <2>1
<1>6. QueueTypes'
  BY <1>0, <1>1, <1>3, <1>4 DEF QueueTypes, Exporting
<1>7. WorkerTypes'
  BY <1>0, <1>2, <1>4, <1>5 DEF WorkerTypes, DspType, Exporting
<1>8. ClockTypes' /\ ControlTypes' /\ DeviceTypes'
  BY <1>0, <1>4 DEF ClockTypes, ControlTypes, DeviceTypes
<1>. QED
  BY <1>6, <1>7, <1>8

-----------------------------------------------------------------------------
(* Which script follows which.                                             *)

LEMMA SilentFresh ==
  ASSUME NEW s \in Seq(FreeStep \cap SilentStep)
  PROVE  FreshScript(s) /\ s \in Seq(FreeStep) /\ s \in Seq(SilentStep)
<1>1. s \in Seq(FreeStep) /\ s \in Seq(SilentStep)
  BY SeqMonotonic
<1>2. s # <<>> => Head(s) # "await"
  <2>1. ASSUME s # <<>> PROVE Head(s) \in SilentStep
    BY <1>1, <2>1, TailOf
  <2>. QED
    BY <2>1 DEF SilentStep
<1>. QED
  BY <1>1, <1>2, FreeFresh

LEMMA FreshJoined ==
  ASSUME NEW s, FreshScript(s), s \in Seq(PlainStep \ {"render", "join", "cancel"}), s # <<>>,
         NEW t, FreshScript(t)
  PROVE  FreshScript(s \o t)
<1>. SUFFICES ASSUME NEW u, u = s \o t PROVE FreshScript(u)
  OBVIOUS
<1>0. s \in Seq(PlainStep) /\ t \in Seq(PlainStep)
  BY DEF FreshScript, Plain
<1>1. PICK m \in Nat, n \in Nat : m > 0 /\ m = Len(s) /\ n = Len(t)
  BY <1>0, EmptySeq, LenProperties
<1>2. /\ u \in Seq(PlainStep) /\ Len(u) = m + n
      /\ \A i \in 1..m + n : u[i] = IF i <= m THEN s[i] ELSE t[i - m]
  BY <1>0, <1>1, ConcatProperties
<1>3. /\ \A i \in 1..m : s[i] \in PlainStep \ {"render", "join", "cancel"}
      /\ \A i \in 1..m : s[i] = "sdk" => (i > 1 => s[i - 1] = "await") /\ (i > 2 => s[i - 2] = "barrier")
      /\ s[1] \notin {"sdk", "await"} /\ (m > 1 => s[2] # "sdk")
  BY <1>0, <1>1, ElementOfSeq, TailOf DEF FreshScript, Plain, Paused
<1>4. /\ \A i \in 1..n : t[i] = "sdk" => (i > 1 => t[i - 1] = "await") /\ (i > 2 => t[i - 2] = "barrier")
      /\ n > 0 => t[1] \notin {"sdk", "await"}
      /\ n > 1 => t[2] # "sdk"
      /\ \A i \in 1..n : /\ t[i] \in {"render", "join"} => i = n
                         /\ t[i] = "cancel" => i + 1 = n /\ t[i + 1] = "join"
  <2>1. n > 0 => t # <<>>
    BY <1>1
  <2>. QED
    BY <1>0, <1>1, <2>1, TailOf DEF FreshScript, Plain, Paused, Ordered
<1>5. \A i \in 1..m + n : i > m => i - m \in 1..n /\ u[i] = t[i - m]
  BY <1>2
<1>6. \A i \in 1..m : u[i] = s[i]
  BY <1>2
<1>7. Paused(u)
  <2>. SUFFICES ASSUME NEW i \in 1..m + n, u[i] = "sdk"
                PROVE  (i > 1 => u[i - 1] = "await") /\ (i > 2 => u[i - 2] = "barrier")
    BY <1>2 DEF Paused
  <2>1. CASE i <= m
    <3>1. u[i] = s[i] /\ i \in 1..m
      BY <1>1, <1>6, <2>1
    <3>2. (i > 1 => u[i - 1] = s[i - 1]) /\ (i > 2 => u[i - 2] = s[i - 2])
      <4>1. (i > 1 => i - 1 \in 1..m) /\ (i > 2 => i - 2 \in 1..m)
        BY <2>1
      <4>. QED
        BY <1>6, <4>1
    <3>. QED
      BY <1>3, <3>1, <3>2
  <2>2. CASE i > m
    <3>1. PICK k \in 1..n : k = i - m
      BY <1>5, <2>2
    <3>2. t[k] = "sdk" /\ k > 2 /\ t[k - 1] = "await" /\ t[k - 2] = "barrier"
      <4>1. t[k] = "sdk"
        BY <1>5, <2>2, <3>1
      <4>2. k # 1 /\ k # 2
        BY <1>4, <3>1, <4>1
      <4>. QED
        BY <1>4, <4>1, <4>2
    <3>3. /\ i - 1 \in 1..m + n /\ i - 1 > m /\ (i - 1) - m = k - 1
          /\ i - 2 \in 1..m + n /\ i - 2 > m /\ (i - 2) - m = k - 2
      BY <3>1, <3>2
    <3>. QED
      BY <1>5, <3>2, <3>3
  <2>. QED
    BY <1>1, <2>1, <2>2
<1>8. Ordered(u)
  <2>. SUFFICES ASSUME NEW i \in 1..m + n
                PROVE  /\ u[i] \in {"render", "join"} => i = m + n
                       /\ u[i] = "cancel" => i + 1 = m + n /\ u[i + 1] = "join"
    BY <1>2 DEF Ordered
  <2>1. CASE i <= m
    BY <1>1, <1>3, <1>6, <2>1
  <2>2. CASE i > m
    <3>1. PICK k \in 1..n : k = i - m /\ u[i] = t[k]
      BY <1>5, <2>2
    <3>2. k + 1 = n => i + 1 \in 1..m + n /\ i + 1 > m /\ (i + 1) - m = k + 1
      BY <3>1
    <3>3. u[i] \in {"render", "join"} => i = m + n
      BY <1>4, <3>1
    <3>4. ASSUME u[i] = "cancel" PROVE i + 1 = m + n /\ u[i + 1] = "join"
      <4>1. k + 1 = n /\ t[k + 1] = "join"
        BY <1>4, <3>1, <3>4
      <4>2. i + 1 = m + n
        BY <3>1, <4>1
      <4>3. u[i + 1] = t[k + 1]
        BY <1>5, <3>2, <4>1
      <4>. QED
        BY <4>1, <4>2, <4>3
    <3>. QED
      BY <3>3, <3>4
  <2>. QED
    BY <1>1, <2>1, <2>2
<1>9. u # <<>> /\ Head(u) = u[1] /\ u[1] = s[1] /\ (m + n > 1 => u[2] # "sdk")
  <2>1. u # <<>> /\ Head(u) = u[1] /\ u[1] = s[1]
    BY <1>1, <1>2, <1>6, TailOf
  <2>2. CASE m > 1
    BY <1>1, <1>3, <1>6, <2>2
  <2>3. CASE m = 1
    <3>1. ASSUME m + n > 1 PROVE u[2] = t[1] /\ n > 0
      BY <1>1, <1>5, <2>3, <3>1
    <3>. QED
      BY <1>4, <2>1, <3>1
  <2>. QED
    BY <1>1, <2>1, <2>2, <2>3
<1>. QED
  BY <1>2, <1>3, <1>7, <1>8, <1>9 DEF FreshScript, Plain

SafeStep == PlainStep \ {"render", "join", "cancel"}

(* The scripts with a pause.                                               *)
LEMMA CaptureScript == FreshScript(Capture) /\ Capture \in Seq(SafeStep) /\ Capture # <<>>
<1>1. Capture \in Seq(SafeStep) /\ Capture # <<>> /\ Capture \in Seq(PlainStep)
  BY DEF Capture, SafeStep, PlainStep
<1>2. /\ Len(Capture) = 4 /\ Capture[1] = "barrier" /\ Capture[2] = "await" /\ Capture[3] = "sdk"
      /\ Capture[4] = "release" /\ Head(Capture) = "barrier"
  BY DEF Capture
<1>3. \A i \in 1..4 : i = 1 \/ i = 2 \/ i = 3 \/ i = 4
  OBVIOUS
<1>4. Paused(Capture)
  BY <1>2, <1>3 DEF Paused
<1>5. Ordered(Capture)
  BY <1>2, <1>3 DEF Ordered
<1>. QED
  BY <1>1, <1>2, <1>4, <1>5 DEF FreshScript, Plain

LEMMA SafeJoined ==
  ASSUME NEW s, FreshScript(s), s \in Seq(SafeStep), s # <<>>, NEW t, FreshScript(t), t \in Seq(SafeStep)
  PROVE  FreshScript(s \o t) /\ s \o t \in Seq(SafeStep) /\ s \o t # <<>>
BY FreshJoined, Joined, JoinedHead DEF SafeStep

LEMMA RecoverScripts == FreshScript(RecoverScript) /\ RecoverScript \in Seq(SafeStep)
<1>1. FreeStep \subseteq SafeStep
  BY DEF FreeStep, SafeStep
<1>2. FreshScript(Transition) /\ Transition \in Seq(SafeStep) /\ Transition # <<>>
  BY <1>1, ShortScripts, SilentFresh, SeqMonotonic
<1>3. FreshScript(<<"pause">>) /\ <<"pause">> \in Seq(SafeStep)
  <2>1. <<"pause">> \in Seq(FreeStep) /\ Head(<<"pause">>) # "await"
    BY DEF FreeStep, PlainStep
  <2>. QED
    BY <1>1, <2>1, FreeFresh, SeqMonotonic
<1>4. FreshScript(<<"renegotiate", "await", "resume">>) /\ <<"renegotiate", "await", "resume">> \in Seq(SafeStep)
  <2>1. <<"renegotiate", "await", "resume">> \in Seq(FreeStep)
        /\ Head(<<"renegotiate", "await", "resume">>) # "await"
    BY DEF FreeStep, PlainStep
  <2>. QED
    BY <1>1, <2>1, FreeFresh, SeqMonotonic
<1>. DEFINE P == Transition \o <<"pause">>
            C == P \o Capture
            D == C \o Capture
<1>5. FreshScript(P) /\ P \in Seq(SafeStep) /\ P # <<>>
  BY <1>2, <1>3, SafeJoined
<1>6. FreshScript(C) /\ C \in Seq(SafeStep) /\ C # <<>>
  BY <1>5, CaptureScript, SafeJoined
<1>7. FreshScript(D) /\ D \in Seq(SafeStep) /\ D # <<>>
  BY <1>6, CaptureScript, SafeJoined
<1>8. FreshScript(D \o <<"renegotiate", "await", "resume">>)
      /\ D \o <<"renegotiate", "await", "resume">> \in Seq(SafeStep)
  BY <1>4, <1>7, SafeJoined
<1>. QED
  BY <1>8 DEF RecoverScript

(* The end of a session, and the start of an export.                       *)
LEMMA CloseScripts == FreshScript(CloseScript) /\ CloseScript \in Seq(SilentStep)
<1>1. CloseScript \in Seq(SilentStep) /\ CloseScript \in Seq(PlainStep) /\ CloseScript # <<>>
  BY DEF CloseScript, SilentStep, PlainStep
<1>2. /\ Len(CloseScript) = 4 /\ CloseScript[1] = "stop" /\ CloseScript[2] = "silence"
      /\ CloseScript[3] = "cancel" /\ CloseScript[4] = "join" /\ Head(CloseScript) = "stop"
  BY DEF CloseScript
<1>3. \A i \in 1..4 : i = 1 \/ i = 2 \/ i = 3 \/ i = 4
  OBVIOUS
<1>4. Paused(CloseScript)
  BY <1>2, <1>3 DEF Paused
<1>5. Ordered(CloseScript)
  BY <1>2, <1>3 DEF Ordered
<1>. QED
  BY <1>1, <1>2, <1>4, <1>5 DEF FreshScript, Plain

LEMMA RenderScripts == FreshScript(Transition \o <<"pause", "render">>)
<1>1. FreeStep \subseteq SafeStep
  BY DEF FreeStep, SafeStep
<1>2. FreshScript(Transition) /\ Transition \in Seq(SafeStep) /\ Transition # <<>>
  BY <1>1, ShortScripts, SilentFresh, SeqMonotonic
<1>3. <<"pause", "render">> \in Seq(PlainStep) /\ Len(<<"pause", "render">>) = 2
      /\ <<"pause", "render">>[1] = "pause" /\ <<"pause", "render">>[2] = "render"
      /\ Head(<<"pause", "render">>) = "pause"
  BY DEF PlainStep
<1>4. Paused(<<"pause", "render">>) /\ Ordered(<<"pause", "render">>)
  BY <1>3 DEF Paused, Ordered
<1>5. FreshScript(<<"pause", "render">>)
  BY <1>3, <1>4 DEF FreshScript, Plain
<1>. QED
  BY <1>2, <1>5, FreshJoined DEF SafeStep

(* What is left after something has failed.                                *)
LEMMA Undone ==
  ASSUME OnError, doing # "service"
  PROVE  script' \in Seq(FreeStep \cap SilentStep) /\ FreshScript(script')
<1>. DEFINE S == FreeStep \cap SilentStep
            undo == IF held # 0 THEN <<"release">> ELSE <<>>
<1>1. undo \in Seq(S)
  <2>1. <<"release">> \in Seq(S) /\ <<>> \in Seq(S)
    BY DEF FreeStep, SilentStep, PlainStep
  <2>. QED
    BY <2>1
<1>2. FailScript \in Seq(S)
  BY ShortScripts
<1>3. undo \o FailScript \in Seq(S) /\ FailScript \o undo \in Seq(S)
  BY <1>1, <1>2, Joined
<1>4. script' = undo \o FailScript \/ script' = FailScript \o undo \/ script' = undo
  <2>1. CASE doing \in {"play", "seek", "edit", "close", "recover"}
    BY <2>1 DEF OnError
  <2>2. CASE doing \in {"mix", "monitor"}
    BY <2>2 DEF OnError
  <2>3. CASE doing \notin {"play", "seek", "edit", "close", "recover", "mix", "monitor", "service"}
    BY <2>3 DEF OnError
  <2>. QED
    BY <2>1, <2>2, <2>3
<1>5. script' \in Seq(S)
  BY <1>1, <1>3, <1>4
<1>. QED
  BY <1>5, SilentFresh

LEMMA ServiceScripts ==
  ASSUME NEW s \in Services
  PROVE  /\ s # <<>> /\ s \in Seq(SilentStep) /\ s \in Seq(AnyStep)
         /\ Head(s) = "sdk" => s = <<"sdk", "served">> /\ Tail(s) = <<"served">>
         /\ Head(s) \in {"served", "refused"} => Tail(s) = <<>>
         /\ Head(s) \in {"sdk", "served", "refused"}
<1>1. CASE s = <<"sdk", "served">>
  BY <1>1 DEF SilentStep, AnyStep, PlainStep
<1>2. CASE s = <<"served">>
  BY <1>2 DEF SilentStep, AnyStep, PlainStep
<1>3. CASE s = <<"refused">>
  BY <1>3 DEF SilentStep, AnyStep, PlainStep
<1>. QED
  BY <1>1, <1>2, <1>3 DEF Services

LEMMA PlainHead ==
  ASSUME NEW s, Plain(s), s # <<>>
  PROVE  Head(s) \in PlainStep /\ Head(s) \notin {"served", "refused"}
<1>1. Head(s) \in PlainStep
  BY TailOf DEF Plain
<1>. QED
  BY <1>1 DEF PlainStep

LEMMA ScriptHead ==
  ASSUME ScriptInv, NEW step, AtStep(step), step \notin {"sdk", "served", "refused"}
  PROVE  script \notin Services /\ script # <<>> /\ doing # "service" /\ ticket.state # "serving"
BY ServiceScripts DEF ScriptInv, AtStep

LEMMA ScriptKept ==
  ASSUME ScriptInv, script' = script, doing' = doing \/ script = <<>>,
         ticket'.state = "serving" <=> ticket.state = "serving"
  PROVE  ScriptInv'
<1>1. script' \in Services \/ Plain(script')
  BY DEF ScriptInv
<1>2. script' \in Services <=> ticket'.state = "serving"
  BY DEF ScriptInv
<1>3. script' # <<>> => (script' \in Services <=> doing' = "service")
  BY DEF ScriptInv
<1>. QED
  BY <1>1, <1>2, <1>3 DEF ScriptInv

LEMMA ScriptSet ==
  ASSUME Plain(script'), doing' # "service", ticket'.state # "serving"
  PROVE  ScriptInv'
<1>1. script' \notin Services
  BY PlainNotService
<1>. QED
  BY <1>1 DEF ScriptInv

LEMMA ScriptPassed ==
  ASSUME ScriptInv, script # <<>>, script \notin Services, script' = Tail(script),
         doing' \in {doing, "mix", "monitor"}, ticket' = ticket
  PROVE  ScriptInv'
<1>1. Plain(Tail(script))
  BY TailPlain DEF ScriptInv
<1>2. doing' # "service" /\ ticket'.state # "serving"
  BY DEF ScriptInv
<1>. QED
  BY <1>1, <1>2, ScriptSet

LEMMA ScriptUndone ==
  ASSUME ScriptInv, script # <<>>, script \notin Services, OnError, doing' = doing, ticket' = ticket
  PROVE  ScriptInv' /\ script' \in Seq(SilentStep) /\ FreshScript(script')
<1>1. doing # "service" /\ ticket'.state # "serving"
  BY DEF ScriptInv
<1>2. FreshScript(script') /\ script' \in Seq(SilentStep)
  BY <1>1, Undone, SilentFresh
<1>. QED
  BY <1>1, <1>2, ScriptSet DEF FreshScript

LEMMA ScriptEmpty ==
  ASSUME ScriptInv, script = <<>>
  PROVE  script \notin Services /\ ticket.state # "serving"
BY ServiceScripts DEF ScriptInv

(* A request begins a script that is fresh.                                *)
LEMMA RequestScript ==
  ASSUME User
  PROVE  \E name, steps : Request(name, steps) /\ FreshScript(steps) /\ name # "service" /\ script = <<>>
<1>. DEFINE Good(name, steps) == Request(name, steps) /\ FreshScript(steps) /\ name # "service" /\ script = <<>>
<1>0. /\ <<"play">> \in Seq(FreeStep) /\ <<"seek">> \in Seq(FreeStep) /\ <<"pause">> \in Seq(FreeStep)
      /\ <<"param">> \in Seq(FreeStep) /\ Head(<<"param">>) # "await"
  BY DEF FreeStep, PlainStep
<1>1. CASE AskPlay
  BY <1>0, <1>1, FreeScripts DEF AskPlay, Message, Idle
<1>2. CASE AskSeek
  BY <1>0, <1>2, FreeScripts DEF AskSeek, Message, Idle
<1>3. CASE AskPause
  BY <1>0, <1>3, FreeScripts DEF AskPause, Message, Idle
<1>4. CASE AskParam
  BY <1>0, <1>4, FreeFresh DEF AskParam, Message, Idle
<1>5. CASE AskSnapshot
  BY <1>5, CaptureScript DEF AskSnapshot, Message, Idle
<1>6. CASE AskMix
  <2>1. PICK steps \in {<<"mix", "await">>, <<"barrier", "await", "mix", "await", "move">>} :
          Request("update", steps) /\ script = <<>>
    BY <1>6 DEF AskMix, Message, Idle
  <2>2. /\ <<"mix", "await">> \in Seq(FreeStep) /\ Head(<<"mix", "await">>) # "await"
        /\ <<"barrier", "await", "mix", "await", "move">> \in Seq(FreeStep)
        /\ Head(<<"barrier", "await", "mix", "await", "move">>) # "await"
    BY DEF FreeStep, PlainStep
  <2>3. FreshScript(steps)
    BY <2>1, <2>2, FreeFresh
  <2>. QED
    BY <2>1, <2>3
<1>7. CASE AskMonitor
  <2>1. <<"monitor", "await">> \in Seq(FreeStep) /\ Head(<<"monitor", "await">>) # "await"
    BY DEF FreeStep, PlainStep
  <2>. QED
    BY <1>7, <2>1, FreeFresh DEF AskMonitor, Message, Idle
<1>8. CASE AskRender
  BY <1>8, RenderScripts DEF AskRender, Message, Idle
<1>9. CASE AskClose
  BY <1>9, CloseScripts DEF AskClose, Message, Idle
<1>10. CASE EditorUsed
  BY <1>0, <1>10, FreeFresh, CaptureScript DEF EditorUsed, Idle
<1>. QED
  BY <1>1, <1>2, <1>3, <1>4, <1>5, <1>6, <1>7, <1>8, <1>9, <1>10 DEF User

(* What a step of the control thread makes of the script.                  *)
ScriptMove ==
  \/ script = <<>> /\ script' = <<>>
  \/ script # <<>> /\ script' = Tail(script)
  \/ script' \in Seq(SilentStep) /\ (FreshScript(script') \/ script' \in Services)
  \/ (MoveOn \/ Resume) /\ FreshScript(script')
  \/ /\ script = <<>> /\ script' = RecoverScript /\ HandleEvent
     /\ events # <<>> /\ Head(events).type = "latency"

LEMMA HandleScript ==
  ASSUME ScriptInv, HandleEvent
  PROVE  ScriptInv' /\ ScriptMove
<1>0. script = <<>> /\ script \notin Services /\ ticket.state # "serving"
  BY ScriptEmpty DEF HandleEvent, Idle
<1>1. ASSUME Head(events).type = "failure", script' = FailScript, doing' = "device", ticket' = ticket
      PROVE  ScriptInv' /\ ScriptMove
  <2>1. FreshScript(script') /\ script' \in Seq(SilentStep)
    BY <1>1, ShortScripts, SilentFresh
  <2>. QED
    BY <1>0, <1>1, <2>1, ScriptSet DEF FreshScript, ScriptMove
<1>2. ASSUME Head(events).type = "latency", Recover(Head(events).of), ticket' = ticket
      PROVE  ScriptInv' /\ ScriptMove
  <2>1. CASE script' = script /\ doing' = doing
    BY <1>0, <1>2, <2>1, ScriptKept DEF ScriptMove
  <2>2. CASE script' = FailScript /\ doing' = "device"
    <3>1. FreshScript(script') /\ script' \in Seq(SilentStep)
      BY <2>2, ShortScripts, SilentFresh
    <3>. QED
      BY <1>0, <1>2, <2>2, <3>1, ScriptSet DEF FreshScript, ScriptMove
  <2>3. CASE script' = RecoverScript /\ doing' = "recover"
    BY <1>0, <1>2, <2>3, RecoverScripts, ScriptSet DEF FreshScript, ScriptMove, HandleEvent
  <2>. QED
    BY <1>2, <2>1, <2>2, <2>3 DEF Recover
<1>3. ASSUME Serve(Head(events).of) PROVE ScriptInv' /\ ScriptMove
  <2>1. CASE UNCHANGED <<ticket, script, doing>>
    BY <1>0, <2>1, ScriptKept DEF ScriptMove
  <2>2. CASE /\ ticket' = [ticket EXCEPT !.state = "serving"]
             /\ script' = <<"sdk", "served">> /\ doing' = "service"
             /\ ticket = [id |-> Head(events).of, state |-> "queued"]
    <3>1. script' \in Services /\ ticket'.state = "serving"
      BY <2>2 DEF Services
    <3>. QED
      BY <2>2, <3>1, ServiceScripts DEF ScriptInv, ScriptMove
  <2>3. CASE /\ ticket' = [ticket EXCEPT !.state = "failed"] /\ UNCHANGED <<script, doing>>
             /\ ticket = [id |-> Head(events).of, state |-> "queued"]
    <3>1. ticket'.state = "failed"
      BY <2>3
    <3>. QED
      BY <1>0, <2>3, <3>1, ScriptKept DEF ScriptMove
  <2>. QED
    BY <1>3, <2>1, <2>2, <2>3 DEF Serve
<1>4. ASSUME UNCHANGED <<script, doing, ticket>> PROVE ScriptInv' /\ ScriptMove
  BY <1>0, <1>4, ScriptKept DEF ScriptMove
<1>5. ASSUME Exported, ticket' = ticket PROVE ScriptInv' /\ ScriptMove
  <2>1. CASE script' = <<>>
    BY <1>0, <1>5, <2>1, ScriptKept DEF ScriptMove
  <2>2. CASE script' = CloseScript
    BY <1>0, <1>5, <2>2, CloseScripts, ScriptSet DEF FreshScript, ScriptMove, Exported
  <2>. QED
    BY <1>5, <2>1, <2>2 DEF Exported
<1>. QED
  BY <1>1, <1>2, <1>3, <1>4, <1>5 DEF HandleEvent

LEMMA SdkScript ==
  ASSUME WorkerTypes, ScriptInv, Sdk \/ Served
  PROVE  ScriptInv' /\ ScriptMove
<1>1. CASE Sdk
  <2>0. AtStep("sdk") /\ script # <<>> /\ UNCHANGED <<doing, ticket>> /\ (script' = Tail(script) \/ OnError)
    BY <1>1 DEF Sdk, AtStep, Proceed
  <2>1. CASE script \notin Services
    BY <2>0, <2>1, ScriptPassed, ScriptUndone DEF ScriptMove
  <2>2. CASE script \in Services
    <3>1. ticket.state = "serving" /\ doing = "service" /\ Tail(script) = <<"served">>
      BY <2>0, <2>2, ServiceScripts DEF ScriptInv, AtStep
    <3>2. script' = <<"served">> \/ script' = <<"refused">>
      BY <2>0, <3>1 DEF OnError
    <3>3. script' \in Services
      BY <3>2 DEF Services
    <3>. QED
      BY <2>0, <3>1, <3>3, ServiceScripts DEF ScriptInv, ScriptMove
  <2>. QED
    BY <2>1, <2>2
<1>2. CASE Served
  <2>0. /\ AtStep("served") \/ AtStep("refused")
        /\ script # <<>> /\ UNCHANGED doing /\ script' = Tail(script)
        /\ ticket' = [ticket EXCEPT !.state = IF AtStep("served") THEN "done" ELSE "failed"]
    BY <1>2 DEF Served, AtStep, Proceed
  <2>1. Head(script) \in {"served", "refused"}
    BY <2>0 DEF AtStep
  <2>2. script \in Services
    BY <2>0, <2>1, PlainHead DEF ScriptInv
  <2>3. script' = <<>>
    BY <2>0, <2>1, <2>2, ServiceScripts
  <2>4. ticket'.state # "serving"
    BY <2>0 DEF WorkerTypes
  <2>5. Plain(<<>>)
    BY DEF Plain, Paused, Ordered
  <2>6. script' \notin Services
    BY <2>3, <2>5, PlainNotService
  <2>. QED
    BY <2>0, <2>3, <2>4, <2>5, <2>6 DEF ScriptInv, ScriptMove
<1>. QED
  BY <1>1, <1>2

LEMMA ControlScript ==
  ASSUME WorkerTypes, ScriptInv, ControlStep
  PROVE  ScriptInv' /\ ScriptMove
<1>1. CASE Tick
  <2>0. script = <<>> /\ script \notin Services /\ ticket.state # "serving" /\ ticket' = ticket
    BY <1>1, ScriptEmpty DEF Tick, Idle
  <2>1. CASE UNCHANGED <<script, doing>>
    BY <2>0, <2>1, ScriptKept DEF ScriptMove
  <2>2. CASE script' = FailScript /\ doing' = "device"
    <3>1. FreshScript(script') /\ script' \in Seq(SilentStep)
      BY <2>2, ShortScripts, SilentFresh
    <3>. QED
      BY <2>0, <2>2, <3>1, ScriptSet DEF FreshScript, ScriptMove
  <2>. QED
    BY <1>1, <2>1, <2>2 DEF Tick
<1>2. CASE HandleEvent
  BY <1>2, HandleScript
<1>3. CASE NoMessage
  BY <1>3, ScriptKept DEF NoMessage, Message, Idle, ScriptMove
<1>4. CASE Sdk \/ Served
  BY <1>4, SdkScript
<1>5. CASE MoveOn \/ Resume
  <2>0. \/ AtStep("move") /\ script' = Transition \o <<"seek", "release">>
        \/ AtStep("resume") /\ script' = Transition \o (IF keep.resume THEN <<"play">> ELSE <<"seek">>)
    BY <1>5 DEF MoveOn, Resume
  <2>1. doing' = doing /\ ticket' = ticket
    BY <1>5 DEF MoveOn, Resume
  <2>2. <<"seek", "release">> \in Seq(FreeStep) /\ <<"play">> \in Seq(FreeStep) /\ <<"seek">> \in Seq(FreeStep)
    BY DEF FreeStep, PlainStep
  <2>3. FreshScript(script')
    BY <2>0, <2>2, FreeScripts
  <2>4. doing # "service" /\ ticket.state # "serving"
    BY <2>0, ScriptHead
  <2>. QED
    BY <1>5, <2>1, <2>3, <2>4, ScriptSet DEF FreshScript, ScriptMove
<1>6. ASSUME NEW step, AtStep(step), step \notin {"sdk", "served", "refused"},
             script' = Tail(script), doing' \in {doing, "mix", "monitor"}, ticket' = ticket
      PROVE  ScriptInv' /\ ScriptMove
  BY <1>6, ScriptHead, ScriptPassed DEF ScriptMove
<1>7. ASSUME NEW step, AtStep(step), step \notin {"sdk", "served", "refused"},
             OnError, doing' = doing, ticket' = ticket
      PROVE  ScriptInv' /\ ScriptMove
  BY <1>7, ScriptHead, ScriptUndone DEF ScriptMove
<1>8. CASE ControlClock \/ DropPause \/ FailSession \/ Failed
  BY <1>6, <1>8 DEF ControlClock, DropPause, FailSession, Failed, Proceed
<1>9. CASE SendCommand
  <2>1. PICK type \in {"play", "seek", "pause", "param", "render"} :
          AtStep(type) /\ (Proceed \/ OnError)
    BY <1>9 DEF SendCommand
  <2>. QED
    BY <1>6, <1>7, <1>9, <2>1 DEF SendCommand, Proceed
<1>10. CASE SendQuestion
  <2>1. PICK type \in {"barrier", "mix", "monitor", "renegotiate"} :
          AtStep(type) /\ \/ Proceed /\ doing' = IF type \in {"mix", "monitor"} THEN type ELSE doing
                          \/ OnError /\ doing' = doing
    BY <1>10 DEF SendQuestion
  <2>. QED
    BY <1>6, <1>7, <1>10, <2>1 DEF SendQuestion, Proceed
<1>11. CASE Await
  BY <1>6, <1>7, <1>11 DEF Await, Proceed
<1>12. CASE Drop
  BY <1>6, <1>12 DEF Drop, Proceed
<1>. QED
  BY <1>1, <1>2, <1>3, <1>4, <1>5, <1>8, <1>9, <1>10, <1>11, <1>12 DEF ControlStep

LEMMA ScriptStep ==
  ASSUME AudioTypes, ScriptInv, TicketInv, [Next]_vars
  PROVE  ScriptInv'
<1>0. WorkerTypes
  BY DEF AudioTypes
<1>1. CASE ControlStep
  BY <1>0, <1>1, ControlScript
<1>2. CASE User
  <2>1. PICK name, steps : Request(name, steps) /\ FreshScript(steps) /\ name # "service" /\ script = <<>>
    BY <1>2, RequestScript
  <2>2. ticket.state # "serving"
    BY <2>1, ScriptEmpty
  <2>. QED
    BY <2>1, <2>2, ScriptSet DEF Request, FreshScript
<1>3. CASE Callback \/ UNCHANGED vars
  BY <1>3, CallbackFrame, ScriptKept DEF vars, controlVars, workerVars
<1>4. CASE WorkerStep
  <2>1. script' = script /\ doing' = doing
    BY <1>4, WorkerFrame
  <2>2. ticket' = ticket \/ (ticket.state # "serving" /\ ticket'.state # "serving")
    <3>1. CASE RenderStep
      BY <3>1, RenderFrame
    <3>2. CASE TakeRender \/ GiveUp \/ ProbeLatency \/ WriteBlock \/ DeliverResult
      BY <3>2 DEF TakeRender, GiveUp, ProbeLatency, WriteBlock, DeliverResult
    <3>3. CASE AskTiming
      BY <3>3 DEF AskTiming, TicketInv
    <3>4. CASE TimingAnswered \/ Invalidate
      <4>1. ticket' = [ticket EXCEPT !.state = "void"] /\ ticket.state # "serving"
        BY <3>4 DEF TimingAnswered, Invalidate
      <4>2. ticket'.state = "void"
        BY <4>1, <1>0 DEF WorkerTypes
      <4>. QED
        BY <4>1, <4>2
    <3>. QED
      BY <1>4, <3>1, <3>2, <3>3, <3>4, WorkerSplit DEF FileStep
  <2>. QED
    BY <2>1, <2>2, ScriptKept
<1>. QED
  BY <1>1, <1>2, <1>3, <1>4 DEF Next

-----------------------------------------------------------------------------
(* The types of what the control thread writes.                            *)

LEMMA ScriptTyped ==
  ASSUME NEW s, s \in Services \/ Plain(s)
  PROVE  s \in Seq(AnyStep)
<1>1. PlainStep \subseteq AnyStep
  BY DEF AnyStep
<1>2. s \in Seq(PlainStep) => s \in Seq(AnyStep)
  BY <1>1, SeqMonotonic
<1>. QED
  BY <1>2, ServiceScripts DEF Plain

LEMMA AskedTyped ==
  ASSUME AudioTypes, NEW type \in CommandType, NEW n \in Nat, NEW g \in Nat
  PROVE  /\ AudioCommand(type, n, g) \in CommandRecord(CommandType)
         /\ AudioCommand(type, n, g).type = type /\ AudioCommand(type, n, g).frame = n
         /\ AudioCommand(type, n, g).of = 0
BY DEF AudioCommand, CommandRecord, AudioTypes, ControlTypes

LEMMA QuestionTyped ==
  ASSUME AudioTypes, NEW type \in CommandType, NEW n \in Nat
  PROVE  \E c \in CommandRecord(CommandType) :
           /\ c = [AudioCommand(type, n, 0) EXCEPT !.of = asked + 1]
           /\ c.type = type /\ c.frame = n /\ c.of = asked + 1
<1>1. asked + 1 \in Nat /\ looping \in BOOLEAN
  BY DEF AudioTypes, ControlTypes
<1>2. [AudioCommand(type, n, 0) EXCEPT !.of = asked + 1]
        = [type |-> type, frame |-> n, generation |-> 0, looping |-> looping, of |-> asked + 1]
  BY DEF AudioCommand
<1>. QED
  BY <1>1, <1>2 DEF CommandRecord

LEMMA QueuedTypes ==
  ASSUME QueueTypes, Room, NEW c \in CommandRecord(CommandType), Enqueue(c),
         c.type = "mix" => c.frame \in Lengths
  PROVE  /\ commands' \in CommandsOf(CommandType) /\ Len(commands') <= QueueSize
         /\ \A i \in 1..Len(commands') : commands'[i].type = "mix" => commands'[i].frame \in Lengths
<1>1. /\ commands' \in CommandsOf(CommandType) /\ Len(commands') <= QueueSize
      /\ Len(commands) \in Nat /\ Len(commands') = Len(commands) + 1
      /\ \A i \in 1..Len(commands) : commands'[i] = commands[i]
      /\ commands'[Len(commands')] = c
  BY Enqueued DEF QueueTypes
<1>2. \A i \in 1..Len(commands') : i \in 1..Len(commands) \/ i = Len(commands')
  BY <1>1
<1>. QED
  BY <1>1, <1>2 DEF QueueTypes

CommandsTyped ==
  /\ commands \in CommandsOf(CommandType) /\ Len(commands) <= QueueSize
  /\ \A i \in 1..Len(commands) : commands[i].type = "mix" => commands[i].frame \in Lengths

LEMMA ControlQueues ==
  ASSUME AudioTypes, ControlStep \/ User
  PROVE  QueueTypes'
<1>. USE DEF AudioTypes
<1>0. UNCHANGED <<ring, stage>>
  BY ControlFrame
<1>1. ASSUME UNCHANGED <<commands, events>> PROVE QueueTypes'
  BY <1>0, <1>1 DEF QueueTypes
<1>2. ASSUME UNCHANGED events, CommandsTyped' PROVE QueueTypes'
  BY <1>0, <1>2 DEF QueueTypes, CommandsTyped
<1>3. CASE Tick
  <2>1. CASE commands' = commands
    BY <1>1, <1>3, <2>1 DEF Tick
  <2>2. CASE Room /\ Enqueue(AudioCommand("pause", 0, 0))
    <3>1. "pause" \in CommandType /\ "pause" # "mix"
      BY DEF CommandType
    <3>2. CommandsTyped'
      BY <2>2, <3>1, AskedTyped, QueuedTypes DEF CommandsTyped
    <3>. QED
      BY <1>2, <1>3, <3>2 DEF Tick
  <2>. QED
    BY <1>3, <2>1, <2>2 DEF Tick
<1>4. CASE HandleEvent
  <2>1. events' = Tail(events) /\ events # <<>> /\ commands' = commands
    BY <1>4 DEF HandleEvent
  <2>2. events' \in EventsOf(EventType) /\ Len(events') = Len(events) - 1 /\ Len(events) \in Nat
    BY <2>1, TailOf DEF QueueTypes, EventsOf
  <2>3. Len(events') <= EventSize
    BY <2>2, Sizes DEF QueueTypes
  <2>. QED
    BY <1>0, <2>1, <2>2, <2>3 DEF QueueTypes
<1>5. CASE SendCommand
  <2>1. CASE commands' = commands
    BY <1>1, <1>5, <2>1 DEF SendCommand
  <2>2. CASE commands' # commands
    <3>1. PICK type \in {"play", "seek", "pause", "param", "render"} :
            Room /\ Enqueue(AudioCommand(type, to.frame, to.generation))
      BY <1>5, <2>2 DEF SendCommand
    <3>2. to.frame \in Nat /\ to.generation \in Nat /\ type \in CommandType /\ type # "mix"
      BY <3>1 DEF ControlTypes, MoveType, CommandType
    <3>3. CommandsTyped'
      BY <3>1, <3>2, AskedTyped, QueuedTypes DEF CommandsTyped
    <3>. QED
      BY <1>2, <1>5, <3>3 DEF SendCommand
  <2>. QED
    BY <2>1, <2>2
<1>6. CASE SendQuestion
  <2>1. CASE commands' = commands
    BY <1>1, <1>6, <2>1 DEF SendQuestion
  <2>2. CASE commands' # commands
    <3>1. PICK type \in {"barrier", "mix", "monitor", "renegotiate"}, n \in Lengths :
            Room /\ Enqueue([AudioCommand(type, n, 0) EXCEPT !.of = asked + 1])
      BY <1>6, <2>2 DEF SendQuestion
    <3>2. n \in Nat /\ type \in CommandType
      BY <3>1, Sizes DEF CommandType
    <3>3. PICK c \in CommandRecord(CommandType) :
            Enqueue(c) /\ c.frame = n
      BY <3>1, <3>2, QuestionTyped
    <3>4. CommandsTyped'
      BY <3>1, <3>3, QueuedTypes DEF CommandsTyped
    <3>. QED
      BY <1>2, <1>6, <3>4 DEF SendQuestion
  <2>. QED
    BY <2>1, <2>2
<1>7. CASE \/ NoMessage \/ ControlClock \/ Await \/ Sdk \/ Served \/ DropPause \/ MoveOn
           \/ Resume \/ FailSession \/ Failed \/ Drop
  BY <1>1, <1>7 DEF NoMessage, ControlClock, Await, Sdk, Served, DropPause, MoveOn, Resume, FailSession,
                    Failed, Drop, queueVars
<1>8. CASE User
  BY <1>1, <1>8, RequestScript DEF Request, queueVars
<1>. QED
  BY <1>3, <1>4, <1>5, <1>6, <1>7, <1>8 DEF ControlStep

LEMMA ControlClocks ==
  ASSUME AudioTypes, ControlStep \/ User
  PROVE  ClockTypes' /\ to' \in MoveType
<1>. USE DEF AudioTypes
<1>1. CASE ControlClock
  <2>1. PICK step \in {"cursor", "unready", "active"} :
          /\ lastEpoch' = IF step = "cursor" THEN lastEpoch + 1 ELSE lastEpoch
          /\ to' = Stamped(to) /\ TransitionStep(step, to) /\ recovering' = recovering
    BY <1>1 DEF ControlClock
  <2>2. to.frame \in Nat /\ to.generation \in Nat /\ lastEpoch + 1 \in Nat
    BY DEF ControlTypes, MoveType, ClockTypes
  <2>3. lastEpoch' \in Nat
    BY <2>1, <2>2 DEF ClockTypes
  <2>4. to' \in MoveType
    BY <2>1, <2>3 DEF Stamped, ControlTypes, MoveType
  <2>. QED
    BY <2>1, <2>2, <2>3, <2>4 DEF TransitionStep, ClockTypes
<1>2. ASSUME KeepClock, to' = to PROVE ClockTypes' /\ to' \in MoveType
  BY <1>2 DEF KeepClock, clockVars, ClockTypes, ControlTypes
<1>3. \A frame \in Nat, playing \in BOOLEAN : MovesTo(frame, playing) => to' \in MoveType
  BY DEF MovesTo, MoveType
<1>4. Intent \in BOOLEAN
  BY DEF Intent, ControlTypes
<1>5. CASE Tick \/ NoMessage \/ SendCommand \/ SendQuestion \/ Await \/ Sdk \/ Served \/ DropPause
           \/ Failed
  BY <1>2, <1>5 DEF Tick, NoMessage, SendCommand, SendQuestion, Await, Sdk, Served, DropPause, Failed
<1>6. CASE HandleEvent
  <2>1. KeepClock /\ (to' = to \/ to' = [frame |-> cursor.frame, playing |-> FALSE, generation |-> 0])
    BY <1>6 DEF HandleEvent, Recover, Serve, Exported
  <2>2. cursor.frame \in Nat
    BY DEF ClockTypes
  <2>3. CASE to' = to
    BY <1>2, <2>1, <2>3
  <2>4. CASE to' = [frame |-> cursor.frame, playing |-> FALSE, generation |-> 0]
    <3>1. to' \in MoveType
      BY <2>2, <2>4 DEF MoveType
    <3>. QED
      BY <2>1, <3>1 DEF KeepClock, clockVars, ClockTypes
  <2>. QED
    BY <2>1, <2>3, <2>4
<1>7. CASE MoveOn
  <2>1. cursor.frame \in Nat /\ length \in Nat
    BY Sizes DEF ClockTypes, WorkerTypes
  <2>. QED
    BY <1>3, <1>4, <1>7, <2>1 DEF MoveOn, KeepClock, clockVars, ClockTypes
<1>8. CASE Resume
  <2>1. keep.frame \in Nat /\ keep.resume \in BOOLEAN
    BY DEF ControlTypes
  <2>2. (keep.resume \/ active # 0) \in BOOLEAN
    BY <2>1
  <2>3. to' \in MoveType
    BY <1>3, <1>8, <2>1, <2>2 DEF Resume
  <2>. QED
    BY <1>8, <2>3 DEF Resume, ClockTypes
<1>9. CASE FailSession
  BY <1>3, <1>9 DEF FailSession, ClockTypes
<1>10. CASE Drop
  BY <1>10 DEF Drop, ClockTypes, ControlTypes
<1>11. CASE User
  <2>1. KeepClock
    BY <1>11, RequestScript DEF Request
  <2>2. to' = to \/ \E frame \in Nat, playing \in BOOLEAN : MovesTo(frame, playing)
    <3>1. cursor.frame \in Nat /\ Frames \subseteq Nat
      BY Sizes DEF ClockTypes, Frames
    <3>2. CASE AskPlay \/ AskSeek
      BY <1>4, <3>1, <3>2 DEF AskPlay, AskSeek
    <3>3. CASE AskPause \/ AskRender
      BY <3>1, <3>3 DEF AskPause, AskRender
    <3>4. CASE AskParam \/ AskSnapshot \/ AskMix \/ AskMonitor \/ AskClose \/ EditorUsed
      BY <3>4 DEF AskParam, AskSnapshot, AskMix, AskMonitor, AskClose, EditorUsed
    <3>. QED
      BY <1>11, <3>2, <3>3, <3>4 DEF User
  <2>. QED
    BY <1>3, <2>1, <2>2 DEF KeepClock, clockVars, ClockTypes, ControlTypes
<1>. QED
  BY <1>1, <1>5, <1>6, <1>7, <1>8, <1>9, <1>10, <1>11 DEF ControlStep

LEMMA ControlHolds ==
  ASSUME AudioTypes, ControlStep \/ User
  PROVE  /\ asked' \in Nat /\ held' \in Nat /\ held' <= asked' /\ asked <= asked'
         /\ response' \in {"none", "ok", "error"}
<1>. USE DEF AudioTypes, ControlTypes
<1>1. CASE KeepHold
  BY <1>1 DEF KeepHold
<1>2. CASE SendQuestion
  <2>1. asked' = asked \/ asked' = asked + 1
    BY <1>2 DEF SendQuestion
  <2>2. CASE UNCHANGED <<asked, response, held>>
    BY <2>2
  <2>3. CASE asked' = asked + 1 /\ response' = "none" /\ (held' = asked + 1 \/ held' = held)
    BY <2>3
  <2>. QED
    BY <1>2, <2>2, <2>3 DEF SendQuestion
<1>3. CASE Await
  BY <1>3 DEF Await
<1>4. CASE DropPause
  BY <1>4 DEF DropPause
<1>5. \/ KeepHold \/ SendQuestion \/ Await \/ DropPause
  <2>1. CASE \/ Tick \/ HandleEvent \/ NoMessage \/ ControlClock \/ SendCommand \/ Sdk \/ Served \/ MoveOn
             \/ Resume \/ FailSession \/ Failed \/ Drop
    BY <2>1 DEF Tick, HandleEvent, NoMessage, ControlClock, SendCommand, Sdk, Served, MoveOn, Resume,
                FailSession, Failed, Drop
  <2>2. CASE User
    BY <2>2, RequestScript DEF Request
  <2>. QED
    BY <2>1, <2>2 DEF ControlStep
<1>. QED
  BY <1>1, <1>2, <1>3, <1>4, <1>5

LEMMA ControlSession ==
  ASSUME AudioTypes, ControlStep \/ User
  PROVE  /\ transport' \in BOOLEAN /\ looping' \in BOOLEAN /\ error' \in BOOLEAN
         /\ revision' \in Nat /\ recovered' \in BOOLEAN /\ rendering' \in BOOLEAN
<1>. USE DEF AudioTypes, ControlTypes
<1>0. dsp.revision \in Nat /\ keep.resume \in BOOLEAN /\ Intent \in BOOLEAN
  BY DEF WorkerTypes, Intent
<1>1. CASE KeepTransport
  BY <1>1 DEF KeepTransport, transportVars
<1>2. CASE HandleEvent
  <2>1. \/ UNCHANGED transportVars
        \/ recovered' = TRUE /\ transport' = FALSE /\ UNCHANGED <<looping, error, revision, rendering>>
        \/ rendering' = FALSE /\ UNCHANGED <<transport, looping, error, revision, recovered>>
    BY <1>2 DEF HandleEvent, Recover, Serve, Exported
  <2>. QED
    BY <2>1 DEF transportVars
<1>3. CASE SendCommand
  BY <1>3 DEF SendCommand
<1>4. CASE Await
  BY <1>4 DEF Await
<1>5. CASE MoveOn \/ FailSession \/ Failed
  BY <1>0, <1>5 DEF MoveOn, FailSession, Failed
<1>6. CASE Resume
  BY <1>0, <1>6 DEF Resume
<1>7. CASE User
  <2>1. Loops \subseteq BOOLEAN
    BY Sizes
  <2>2. CASE AskPlay
    BY <2>1, <2>2 DEF AskPlay
  <2>3. CASE AskSeek \/ AskPause \/ AskRender
    BY <1>0, <2>3 DEF AskSeek, AskPause, AskRender
  <2>4. CASE AskParam \/ AskSnapshot \/ AskMix \/ AskMonitor \/ AskClose \/ EditorUsed
    BY <2>4 DEF AskParam, AskSnapshot, AskMix, AskMonitor, AskClose, EditorUsed, transportVars
  <2>. QED
    BY <1>7, <2>2, <2>3, <2>4 DEF User
<1>8. \/ KeepTransport \/ HandleEvent \/ SendCommand \/ Await \/ MoveOn \/ Resume \/ FailSession \/ Failed \/ User
  BY DEF ControlStep, Tick, NoMessage, ControlClock, SendQuestion, Sdk, Served, DropPause, Drop
<1>. QED
  BY <1>1, <1>2, <1>3, <1>4, <1>5, <1>6, <1>7, <1>8

LEMMA ControlPlaces ==
  ASSUME AudioTypes, ControlStep \/ User
  PROVE  /\ turn' \in {"idle", "events", "closed"} /\ keep' \in [resume : BOOLEAN, frame : Nat]
         /\ cancel' \in BOOLEAN /\ cb' \in {"closed", "idle", "drain", "pop", "commit", "finish"}
         /\ deviceFailed' \in BOOLEAN /\ requests' \in Nat /\ faults' \in Nat
         /\ ticket' \in [id : Nat, state : {"void", "queued", "serving", "done", "failed"}]
<1>. USE DEF AudioTypes, ControlTypes, DeviceTypes
<1>1. faults' \in Nat
  <2>1. Works \/ Fault
    <3>1. CASE ControlStep
      BY <3>1 DEF ControlStep, Tick, HandleEvent, NoMessage, ControlClock, SendCommand, SendQuestion,
        Await,
                  Sdk, Served, DropPause, MoveOn, Resume, FailSession, Failed, Drop
    <3>2. CASE User
      BY <3>2, RequestScript DEF Request
    <3>. QED
      BY <3>1, <3>2
  <2>. QED
    BY <2>1 DEF Works, Fault
<1>2. ticket' \in [id : Nat, state : {"void", "queued", "serving", "done", "failed"}]
  <2>0. ticket \in [id : Nat, state : {"void", "queued", "serving", "done", "failed"}]
    BY DEF WorkerTypes
  <2>1. \E s \in {"serving", "failed", "done"} : ticket' = ticket \/ ticket' = [ticket EXCEPT !.state = s]
    <3>1. CASE HandleEvent
      BY <3>1 DEF HandleEvent, Serve
    <3>2. CASE Served
      BY <3>2 DEF Served
    <3>3. CASE \/ Tick \/ NoMessage \/ ControlClock \/ SendCommand \/ SendQuestion \/ Await \/ Sdk \/ DropPause
               \/ MoveOn \/ Resume \/ FailSession \/ Failed \/ Drop
      BY <3>3 DEF Tick, NoMessage, ControlClock, SendCommand, SendQuestion, Await, Sdk, DropPause,
                  MoveOn, Resume, FailSession, Failed, Drop
    <3>4. CASE User
      BY <3>4, RequestScript DEF Request
    <3>. QED
      BY <3>1, <3>2, <3>3, <3>4 DEF ControlStep
  <2>. QED
    BY <2>0, <2>1
<1>3. /\ turn' \in {"idle", "events", "closed"} /\ keep' \in [resume : BOOLEAN, frame : Nat]
      /\ cancel' \in BOOLEAN /\ cb' \in {"closed", "idle", "drain", "pop", "commit", "finish"}
      /\ deviceFailed' \in BOOLEAN /\ requests' \in Nat
  <2>1. CASE KeepPlace
    BY <2>1 DEF KeepPlace
  <2>2. CASE Tick \/ NoMessage
    BY <2>2 DEF Tick, NoMessage, Message, KeepDevice
  <2>3. CASE HandleEvent
    <3>1. UNCHANGED <<turn, requests, cancel, deviceFailed, cb>>
      BY <2>3 DEF HandleEvent, KeepDevice
    <3>2. keep' = keep \/ keep' = [resume |-> Intent, frame |-> cursor.frame]
      BY <2>3 DEF HandleEvent, Recover, Serve, Exported
    <3>3. Intent \in BOOLEAN /\ cursor.frame \in Nat
      BY DEF Intent, ClockTypes
    <3>4. keep' \in [resume : BOOLEAN, frame : Nat]
      BY <3>2, <3>3
    <3>. QED
      BY <3>1, <3>4
  <2>4. CASE Drop
    BY <2>4 DEF Drop
  <2>5. CASE User
    <3>1. PICK name, steps : Request(name, steps)
      BY <2>5, RequestScript
    <3>2. /\ UNCHANGED <<keep, cancel, deviceFailed>> /\ requests' = requests + 1
          /\ cb' = "idle" \/ cb' = cb
      BY <3>1 DEF Request
    <3>3. turn' = "idle" \/ turn' = "events"
      BY <2>5 DEF User, AskPlay, AskSeek, AskPause, AskParam, AskSnapshot, AskMix, AskMonitor,
        AskRender,
                  AskClose, EditorUsed, Message
    <3>. QED
      BY <3>2, <3>3
  <2>6. KeepPlace \/ Tick \/ NoMessage \/ HandleEvent \/ Drop \/ User
    BY DEF ControlStep, ControlClock, SendCommand, SendQuestion, Await, Sdk, Served, DropPause, MoveOn,
      Resume,
           FailSession, Failed
  <2>. QED
    BY <2>1, <2>2, <2>3, <2>4, <2>5, <2>6
<1>. QED
  BY <1>1, <1>2, <1>3

LEMMA ControlledTypes ==
  ASSUME AudioTypes, ScriptInv', ControlStep \/ User
  PROVE  AudioTypes'
<1>0. UNCHANGED <<ring, offline, stage, job, dsp, wto, pass, renderResult, length, saw, got, heard>>
  BY ControlFrame
<1>1. QueueTypes' /\ ClockTypes' /\ to' \in MoveType
  BY ControlQueues, ControlClocks
<1>2. script' \in Seq(AnyStep)
  <2>1. script' \in Services \/ Plain(script')
    BY DEF ScriptInv
  <2>. QED
    BY <2>1, ScriptTyped
<1>3. ControlTypes'
  BY <1>0, <1>1, <1>2, ControlHolds, ControlSession, ControlPlaces DEF AudioTypes, ControlTypes
<1>4. WorkerTypes'
  BY <1>0, ControlPlaces DEF AudioTypes, WorkerTypes
<1>5. DeviceTypes'
  BY <1>0, ControlPlaces DEF AudioTypes, DeviceTypes
<1>. QED
  BY <1>1, <1>3, <1>4, <1>5 DEF AudioTypes

\* The types of the engine: they hold whatever the threads do next.
LEMMA TypesKept ==
  ASSUME AudioTypes, ScriptInv, ScriptInv', [Next]_vars
  PROVE  AudioTypes'
<1>1. CASE Callback
  BY <1>1, CallbackTypes
<1>2. CASE WorkerStep
  BY <1>2, WorkerSplit, JobTypes, TakeTypes, RenderTypes, ExportTypes DEF RenderStep
<1>3. CASE ControlStep \/ User
  BY <1>3, ControlledTypes
<1>4. CASE UNCHANGED vars
  BY <1>4 DEF vars, clockVars, queueVars, transportVars, controlVars, workerVars, deviceVars,
              AudioTypes, ClockTypes, QueueTypes, ControlTypes, WorkerTypes, DeviceTypes
<1>. QED
  BY <1>1, <1>2, <1>3, <1>4 DEF Next

-----------------------------------------------------------------------------
(* The end of a session, and the ticket of an export.                      *)

LEMMA CancelStep ==
  ASSUME AudioTypes, ScriptInv, CancelInv, [Next]_vars
  PROVE  CancelInv'
<1>1. ASSUME UNCHANGED <<script, turn, cancel>>, stage' = "ended" => stage = "ended" \/ cancel
      PROVE  CancelInv'
  BY <1>1 DEF CancelInv
<1>2. CASE Callback \/ UNCHANGED vars
  <2>1. UNCHANGED <<script, turn, cancel, stage>>
    BY <1>2, CallbackFrame DEF vars, controlVars, workerVars
  <2>. QED
    BY <1>1, <2>1
<1>3. CASE WorkerStep
  <2>1. UNCHANGED <<script, turn, cancel>>
    BY <1>3, WorkerFrame
  <2>2. stage' = "ended" => stage = "ended" \/ cancel
    <3>1. CASE WorkerJob \/ TakePlay \/ TakeSeek \/ TakePause \/ TakeParam \/ TakeMix \/ TakeMonitor
               \/ TakeBarrier
               \/ TakeRenegotiate
      BY <3>1 DEF WorkerJob, TakePlay, TakeSeek, TakePause, TakeParam, TakeMix, TakeMonitor,
        TakeBarrier,
                  TakeRenegotiate
    <3>2. CASE Top \/ Gate \/ NotRendered \/ Push \/ Prefilled \/ TakeRender
      BY <3>2 DEF Top, Gate, NotRendered, Push, Prefilled, TakeRender
    <3>3. CASE FileStep
      BY <3>3 DEF FileStep, AskTiming, TimingAnswered, GiveUp, Invalidate, ProbeLatency, WriteBlock,
        DeliverResult,
                  Deliver
    <3>. QED
      BY <1>3, <3>1, <3>2, <3>3, WorkerSplit DEF RenderStep
  <2>. QED
    BY <1>1, <2>1, <2>2
<1>4. CASE (ControlStep \/ User) /\ ~cancel
  <2>1. stage' = stage /\ stage' # "ended" /\ cancel \in BOOLEAN
    BY <1>4, ControlFrame DEF CancelInv, AudioTypes, ControlTypes
  <2>2. CASE Drop
    <3>1. PICK step \in {"stop", "silence", "cancel", "join"} :
            /\ AtStep(step) /\ (cancel' # cancel => step = "cancel") /\ (step = "join" => stage = "ended")
      BY <2>2 DEF Drop
    <3>2. step # "join"
      BY <2>1, <3>1
    <3>3. turn' = turn /\ script' = Tail(script)
      BY <2>2, <3>1, <3>2 DEF Drop, AtStep, Proceed
    <3>4. Plain(script) /\ script # <<>> /\ turn # "closed"
      BY <3>1, ScriptHead DEF ScriptInv, CancelInv
    <3>5. CASE step = "cancel"
      <4>1. script \in Seq(PlainStep) /\ script[1] = "cancel" /\ Len(script) \in Nat \ {0}
        BY <3>1, <3>4, <3>5, TailOf DEF Plain, AtStep
      <4>2. 1 \in 1..Len(script)
        BY <4>1
      <4>3. 1 + 1 = Len(script) /\ script[1 + 1] = "join"
        BY <3>4, <4>1, <4>2 DEF Plain, Ordered
      <4>4. script' = <<"join">>
        <5>1. PICK t : t = Tail(script)
          OBVIOUS
        <5>2. t \in Seq(PlainStep) /\ Len(t) = Len(script) - 1
              /\ \A i \in 1..Len(t) : t[i] = script[i + 1]
          BY <3>4, <4>1, <5>1, TailOf
        <5>3. Len(t) = 1
          BY <4>3, <5>2
        <5>4. t[1] = "join"
          BY <4>3, <5>2, <5>3
        <5>5. <<"join">> \in Seq(PlainStep) /\ Len(<<"join">>) = 1 /\ <<"join">>[1] = "join"
          BY DEF PlainStep
        <5>6. \A i \in 1..Len(t) : t[i] = <<"join">>[i]
          BY <5>3, <5>4, <5>5
        <5>7. t = <<"join">>
          BY <5>2, <5>3, <5>5, <5>6, SeqEqual
        <5>. QED
          BY <3>3, <5>1, <5>7
      <4>. QED
        BY <2>1, <3>3, <3>4, <4>4 DEF CancelInv
    <3>6. CASE step # "cancel"
      BY <1>4, <2>1, <3>1, <3>3, <3>4, <3>6 DEF CancelInv
    <3>. QED
      BY <3>5, <3>6
  <2>3. CASE ~Drop
    <3>1. cancel' = cancel /\ turn' # "closed"
      <4>1. CASE User
        <5>1. cancel' = cancel
          BY <4>1, RequestScript DEF Request
        <5>2. turn' = "idle" \/ turn' = "events"
          BY <4>1 DEF User, AskPlay, AskSeek, AskPause, AskParam, AskSnapshot, AskMix, AskMonitor,
            AskRender,
                      AskClose, EditorUsed, Message
        <5>. QED
          BY <5>1, <5>2
      <4>2. CASE KeepPlace /\ script # <<>>
        BY <4>2 DEF KeepPlace, CancelInv
      <4>3. CASE Tick \/ HandleEvent \/ NoMessage
        BY <4>3 DEF Tick, HandleEvent, NoMessage, Message, Idle
      <4>4. User \/ (KeepPlace /\ script # <<>>) \/ Tick \/ HandleEvent \/ NoMessage
        BY <1>4, <2>3 DEF ControlStep, ControlClock, SendCommand, SendQuestion, Await, Sdk, Served,
          DropPause,
               MoveOn, Resume, FailSession, Failed, AtStep
      <4>. QED
        BY <4>1, <4>2, <4>3, <4>4
    <3>. QED
      BY <1>4, <2>1, <3>1 DEF CancelInv
  <2>. QED
    BY <2>2, <2>3
<1>5. CASE (ControlStep \/ User) /\ cancel
  <2>1. stage' = stage
    BY <1>5, ControlFrame
  <2>2. script = <<"join">> \/ (turn = "closed" /\ script = <<>>)
    BY <1>5 DEF CancelInv
  <2>3. CASE script = <<>> /\ turn = "closed"
    BY <1>5, <2>3 DEF ControlStep, Tick, HandleEvent, NoMessage, Message, Idle, ControlClock,
      SendCommand,
         SendQuestion, Await, Sdk, Served, DropPause, MoveOn, Resume, FailSession, Failed, Drop, AtStep,
         User, AskPlay, AskSeek, AskPause, AskParam, AskSnapshot, AskMix, AskMonitor, AskRender, AskClose,
         EditorUsed
  <2>4. CASE script = <<"join">>
    <3>1. script # <<>> /\ Head(script) = "join" /\ Tail(script) = <<>>
      BY <2>4
    <3>2. ~User /\ ~Tick /\ ~HandleEvent /\ ~NoMessage
      BY <3>1, RequestScript DEF Tick, HandleEvent, NoMessage, Message, Idle
    <3>3. Drop
      BY <1>5, <3>1, <3>2 DEF ControlStep, ControlClock, SendCommand, SendQuestion, Await, Sdk, Served,
        DropPause,
               MoveOn, Resume, FailSession, Failed, AtStep
    <3>4. script' = <<>> /\ turn' = "closed"
      BY <3>1, <3>3 DEF Drop, AtStep, Proceed
    <3>5. cancel' = cancel
      BY <3>1, <3>3 DEF Drop, AtStep
    <3>. QED
      BY <2>1, <3>4, <3>5 DEF CancelInv
  <2>. QED
    BY <2>2, <2>3, <2>4
<1>. QED
  BY <1>2, <1>3, <1>4, <1>5 DEF Next

LEMMA TicketStep ==
  ASSUME AudioTypes, ScriptInv, TicketInv, [Next]_vars
  PROVE  TicketInv'
<1>0. ticket \in [id : Nat, state : {"void", "queued", "serving", "done", "failed"}]
  BY DEF AudioTypes, WorkerTypes
<1>1. ASSUME ticket' = ticket, stage \in {"awaiting", "locking"} => stage' \in {"awaiting", "locking"}
      PROVE  TicketInv'
  BY <1>1 DEF TicketInv
<1>2. CASE Callback \/ UNCHANGED vars
  BY <1>1, <1>2, CallbackFrame DEF vars, workerVars
<1>3. CASE ControlStep \/ User
  <2>1. stage' = stage
    BY <1>3, ControlFrame
  <2>2. ticket' = ticket \/ ticket.state # "void"
    <3>1. CASE HandleEvent
      BY <3>1 DEF HandleEvent, Serve
    <3>2. CASE Served
      <4>1. script # <<>> /\ Head(script) \in {"served", "refused"}
        BY <3>2 DEF Served, AtStep
      <4>2. script \in Services
        BY <4>1, PlainHead DEF ScriptInv
      <4>. QED
        BY <4>2 DEF ScriptInv
    <3>3. CASE \/ Tick \/ NoMessage \/ ControlClock \/ SendCommand \/ SendQuestion \/ Await \/ Sdk \/ DropPause
               \/ MoveOn \/ Resume \/ FailSession \/ Failed \/ Drop
      BY <3>3 DEF Tick, NoMessage, ControlClock, SendCommand, SendQuestion, Await, Sdk, DropPause,
                  MoveOn, Resume, FailSession, Failed, Drop
    <3>4. CASE User
      BY <3>4, RequestScript DEF Request
    <3>. QED
      BY <1>3, <3>1, <3>2, <3>3, <3>4 DEF ControlStep
  <2>. QED
    BY <2>1, <2>2 DEF TicketInv
<1>4. CASE WorkerStep
  <2>1. CASE RenderStep
    <3>1. ticket' = ticket
      BY <2>1, RenderFrame
    <3>2. stage \notin {"awaiting", "locking"} \/ stage' = stage
      BY <2>1 DEF RenderStep, WorkerJob, Top, TakePlay, TakeSeek, TakePause, TakeParam, TakeMix,
        TakeMonitor,
                  TakeBarrier, TakeRenegotiate, Gate, NotRendered, Push, Prefilled
    <3>. QED
      BY <1>1, <3>1, <3>2
  <2>2. CASE TakeRender \/ ProbeLatency \/ WriteBlock \/ DeliverResult
    BY <1>1, <2>2 DEF TakeRender, ProbeLatency, WriteBlock, DeliverResult, Take
  <2>3. CASE GiveUp
    BY <1>1, <2>3 DEF GiveUp
  <2>4. CASE AskTiming
    BY <1>1, <2>4 DEF AskTiming, TicketInv
  <2>5. CASE TimingAnswered \/ Invalidate
    BY <1>0, <2>5 DEF TimingAnswered, Invalidate, TicketInv
  <2>. QED
    BY <1>4, <2>1, <2>2, <2>3, <2>4, <2>5, WorkerSplit DEF FileStep
<1>. QED
  BY <1>2, <1>3, <1>4 DEF Next

-----------------------------------------------------------------------------
(* The queue of commands.                                                  *)

LEMMA WorkerCommands ==
  ASSUME WorkerStep
  PROVE  \/ commands' = commands /\ response' = response
         \/ \E type : /\ Take(type) /\ NoJob
                      /\ response' # response =>
                           /\ Head(commands).of = asked
                           /\ script # <<>> /\ Head(script) = "await"
<1>1. CASE WorkerJob \/ Top \/ Gate \/ NotRendered \/ Push \/ Prefilled
  BY <1>1 DEF WorkerJob, Top, Gate, NotRendered, Push, Prefilled, queueVars
<1>2. CASE FileStep
  BY <1>2, FileFrame
<1>3. CASE NoJob /\ (TakePlay \/ TakeSeek \/ TakePause \/ TakeParam \/ TakeRender)
  BY <1>3 DEF TakePlay, TakeSeek, TakePause, TakeParam, TakeRender
<1>4. CASE NoJob /\ (TakeMix \/ TakeMonitor \/ TakeBarrier \/ TakeRenegotiate)
  BY <1>4 DEF TakeMix, TakeMonitor, TakeBarrier, TakeRenegotiate, Answer
<1>. QED
  BY <1>1, <1>2, <1>3, <1>4, WorkerSplit DEF RenderStep

LEMMA ControlCommands ==
  ASSUME AudioTypes, ControlStep \/ User
  PROVE  \/ commands' = commands /\ asked' = asked /\ (response' = response \/ response' = "none")
         \/ /\ SendCommand \/ Tick
            /\ UNCHANGED <<asked, response>>
            /\ \E c \in CommandRecord(CommandType) :
                 /\ Room /\ Enqueue(c) /\ c.of = 0 /\ c.type \in {"play", "seek", "pause", "param", "render"}
                 /\ c.type = "pause" \/ AtStep(c.type)
                 /\ c.type = "render" => rendering' = TRUE
         \/ /\ SendQuestion /\ asked' = asked + 1 /\ response' = "none" /\ script # <<>> /\ Proceed
            /\ \E c \in CommandRecord(CommandType) :
                 /\ Room /\ Enqueue(c) /\ c.of = asked' /\ AtStep(c.type)
                 /\ c.type \in {"barrier", "mix", "monitor", "renegotiate"}
                 /\ c.type = "barrier" => held' = asked'
<1>. USE DEF AudioTypes
<1>1. CASE Tick
  <2>0. UNCHANGED <<asked, response>>
    BY <1>1 DEF Tick, KeepHold
  <2>1. CASE commands' = commands
    BY <2>0, <2>1
  <2>2. CASE Room /\ Enqueue(AudioCommand("pause", 0, 0))
    <3>1. "pause" \in CommandType
      BY DEF CommandType
    <3>2. \E c \in CommandRecord(CommandType) : Enqueue(c) /\ c.of = 0 /\ c.type = "pause"
      BY <2>2, <3>1, AskedTyped
    <3>. QED
      BY <1>1, <2>0, <2>2, <3>2
  <2>. QED
    BY <1>1, <2>1, <2>2 DEF Tick
<1>2. CASE SendCommand
  <2>0. UNCHANGED <<asked, response>>
    BY <1>2 DEF SendCommand, KeepHold
  <2>1. CASE commands' = commands
    BY <2>0, <2>1
  <2>2. CASE commands' # commands
    <3>1. PICK type \in {"play", "seek", "pause", "param", "render"} :
            /\ AtStep(type) /\ Room /\ Enqueue(AudioCommand(type, to.frame, to.generation))
            /\ type = "render" => rendering' = TRUE
      BY <1>2, <2>2 DEF SendCommand, ControlTypes
    <3>2. to.frame \in Nat /\ to.generation \in Nat /\ type \in CommandType
      BY <3>1 DEF ControlTypes, MoveType, CommandType
    <3>3. \E c \in CommandRecord(CommandType) : Enqueue(c) /\ c.of = 0 /\ c.type = type
      BY <3>1, <3>2, AskedTyped
    <3>. QED
      BY <1>2, <2>0, <3>1, <3>3
  <2>. QED
    BY <2>1, <2>2
<1>3. CASE SendQuestion
  <2>1. PICK type \in {"barrier", "mix", "monitor", "renegotiate"}, n \in Lengths :
          /\ AtStep(type)
          /\ \/ /\ Room /\ asked' = asked + 1 /\ response' = "none" /\ Proceed
                /\ Enqueue([AudioCommand(type, n, 0) EXCEPT !.of = asked + 1])
                /\ held' = IF type = "barrier" THEN asked + 1 ELSE held
             \/ UNCHANGED <<asked, response, commands>>
    BY <1>3 DEF SendQuestion
  <2>2. CASE UNCHANGED <<asked, response, commands>>
    BY <2>2
  <2>3. CASE /\ Room /\ asked' = asked + 1 /\ response' = "none" /\ Proceed
             /\ Enqueue([AudioCommand(type, n, 0) EXCEPT !.of = asked + 1])
             /\ held' = IF type = "barrier" THEN asked + 1 ELSE held
    <3>1. n \in Nat /\ type \in CommandType
      BY <2>1, Sizes DEF CommandType
    <3>2. PICK c \in CommandRecord(CommandType) : Enqueue(c) /\ c.type = type /\ c.of = asked + 1
      BY <2>3, <3>1, QuestionTyped
    <3>. QED
      BY <1>3, <2>1, <2>3, <3>2 DEF AtStep
  <2>. QED
    BY <2>1, <2>2, <2>3
<1>4. CASE User
  BY <1>4, RequestScript DEF Request, queueVars, KeepHold
<1>5. CASE \/ HandleEvent \/ NoMessage \/ ControlClock \/ Await \/ Sdk \/ Served \/ DropPause \/ MoveOn
           \/ Resume \/ FailSession \/ Failed \/ Drop
  BY <1>5 DEF HandleEvent, NoMessage, ControlClock, Await, Sdk, Served, DropPause, MoveOn, Resume,
    FailSession,
              Failed, Drop, queueVars, KeepHold
<1>. QED
  BY <1>1, <1>2, <1>3, <1>4, <1>5 DEF ControlStep

LEMMA QuestionStep ==
  ASSUME AudioTypes, QuestionInv, [Next]_vars
  PROVE  QuestionInv'
<1>. USE DEF AudioTypes
<1>0. /\ commands \in CommandsOf(CommandType) /\ asked \in Nat
      /\ \A i \in 1..Len(commands) : commands[i].of \in Nat
  <2>1. commands \in Seq(CommandRecord(CommandType))
    BY DEF QueueTypes, CommandsOf, CommandRecord
  <2>2. \A i \in 1..Len(commands) : commands[i] \in CommandRecord(CommandType)
    BY <2>1, ElementOfSeq
  <2>. QED
    BY <2>2 DEF QueueTypes, ControlTypes, CommandRecord
<1>1. ASSUME commands' = commands, asked' = asked, response' = response \/ response' = "none"
      PROVE  QuestionInv'
  BY <1>1 DEF QuestionInv
<1>2. CASE Callback \/ UNCHANGED vars
  BY <1>1, <1>2, CallbackFrame DEF vars, queueVars, controlVars
<1>3. CASE WorkerStep
  <2>1. asked' = asked
    BY <1>3, WorkerFrame
  <2>2. ASSUME NEW type, Take(type), response' # response => Head(commands).of = asked
        PROVE  QuestionInv'
    <3>1. /\ Head(commands) = commands[1] /\ 1 \in 1..Len(commands)
          /\ \A i \in 1..Len(commands') : i + 1 \in 1..Len(commands) /\ commands'[i] = commands[i + 1]
      BY <1>0, <2>2, Taken
    <3>2. \A i, j \in 1..Len(commands') : i < j => i + 1 < j + 1
      BY <3>1
    <3>3. /\ \A i \in 1..Len(commands') : commands'[i].of <= asked'
          /\ \A i, j \in 1..Len(commands') : i < j /\ commands'[i].of # 0 => commands'[i].of # commands'[j].of
      <4>1. \A i \in 1..Len(commands') : commands'[i].of <= asked'
        BY <2>1, <3>1 DEF QuestionInv
      <4>2. ASSUME NEW i \in 1..Len(commands'), NEW j \in 1..Len(commands'), i < j, commands'[i].of # 0
            PROVE  commands'[i].of # commands'[j].of
        <5>1. /\ i + 1 \in 1..Len(commands) /\ j + 1 \in 1..Len(commands) /\ i + 1 < j + 1
              /\ commands'[i] = commands[i + 1] /\ commands'[j] = commands[j + 1]
          BY <3>1, <3>2, <4>2
        <5>. QED
          BY <4>2, <5>1 DEF QuestionInv
      <4>. QED
        BY <4>1, <4>2
    <3>4. response' # "none" => \A i \in 1..Len(commands') : commands'[i].of # 0 => commands'[i].of # asked'
      <4>1. CASE response' = response
        BY <2>1, <3>1, <4>1 DEF QuestionInv
      <4>2. CASE response' # response
        <5>1. \A i \in 1..Len(commands') : 1 < i + 1 /\ commands[1].of = asked
          BY <2>2, <3>1, <4>2
        <5>. QED
          BY <2>1, <3>1, <5>1 DEF QuestionInv
      <4>. QED
        BY <4>1, <4>2
    <3>. QED
      BY <3>3, <3>4 DEF QuestionInv
  <2>. QED
    BY <1>1, <1>3, <2>1, <2>2, WorkerCommands
<1>4. CASE ControlStep \/ User
  <2>1. ASSUME NEW c \in CommandRecord(CommandType), Room, Enqueue(c), asked' \in Nat,
               \/ c.of = 0 /\ UNCHANGED <<asked, response>>
               \/ c.of = asked' /\ asked' = asked + 1 /\ response' = "none"
        PROVE  QuestionInv'
    <3>1. /\ Len(commands) \in Nat /\ Len(commands') = Len(commands) + 1
          /\ \A i \in 1..Len(commands) : commands'[i] = commands[i]
          /\ commands'[Len(commands')] = c
      BY <1>0, <2>1, Enqueued
    <3>2. \A i \in 1..Len(commands') : i \in 1..Len(commands) \/ i = Len(commands')
      BY <3>1
    <3>3. \A i \in 1..Len(commands) : commands[i].of <= asked /\ commands[i].of \in Nat
      BY <1>0 DEF QuestionInv
    <3>4. \A i \in 1..Len(commands') : commands'[i].of <= asked'
      BY <1>0, <2>1, <3>1, <3>2, <3>3
    <3>5. \A i \in 1..Len(commands) : commands'[i].of # 0 => commands'[i].of # c.of
      BY <1>0, <2>1, <3>1, <3>3
    <3>6. \A i, j \in 1..Len(commands') : i < j => i \in 1..Len(commands)
      BY <3>1
    <3>7. \A i, j \in 1..Len(commands') : i < j /\ commands'[i].of # 0 => commands'[i].of # commands'[j].of
      BY <3>1, <3>2, <3>5, <3>6 DEF QuestionInv
    <3>8. response' # "none" => \A i \in 1..Len(commands') : commands'[i].of # 0 => commands'[i].of # asked'
      BY <2>1, <3>1, <3>2 DEF QuestionInv
    <3>. QED
      BY <3>4, <3>7, <3>8 DEF QuestionInv
  <2>2. asked' \in Nat
    BY <1>4, ControlHolds
  <2>. QED
    BY <1>1, <1>4, <2>1, <2>2, ControlCommands
<1>. QED
  BY <1>2, <1>3, <1>4 DEF Next

-----------------------------------------------------------------------------
(* The pause.                                                              *)

LEMMA PauseFresh ==
  ASSUME FreshScript(script') \/ script' \in Services \/ script' = <<>>
  PROVE  PauseInv'
<1>1. CASE FreshScript(script')
  BY <1>1 DEF FreshScript, PauseInv, AtStep
<1>2. CASE script' \in Services
  BY <1>2, ServiceScripts DEF PauseInv, AtStep
<1>3. CASE script' = <<>>
  BY <1>3 DEF PauseInv, AtStep
<1>. QED
  BY <1>1, <1>2, <1>3

(* The next steps of a script with a plugin.                               *)
LEMMA PlainNext ==
  ASSUME NEW s, Plain(s), s # <<>>, NEW t, t = Tail(s), t # <<>>
  PROVE  /\ Head(t) = "sdk" => Head(s) = "await" /\ Len(s) > 1 /\ s[2] = "sdk"
         /\ Len(t) > 1 /\ t[2] = "sdk" => Head(s) = "barrier" /\ Head(t) = "await"
<1>1. /\ t \in Seq(PlainStep) /\ Len(t) = Len(s) - 1 /\ Len(s) \in Nat \ {0} /\ Head(s) = s[1]
      /\ \A i \in 1..Len(t) : t[i] = s[i + 1]
  BY TailOf DEF Plain
<1>2. Head(t) = t[1] /\ Len(t) \in Nat \ {0}
  BY <1>1, TailOf
<1>3. PICK m \in Nat, n \in Nat : m = Len(t) /\ n = Len(s) /\ n = m + 1 /\ m > 0
  <2>1. PICK m \in Nat, n \in Nat : m = Len(t) /\ n = Len(s)
    BY <1>1, <1>2
  <2>2. m = n - 1 /\ m # 0
    BY <1>1, <1>2, <2>1
  <2>3. n = m + 1 /\ m > 0
    BY <2>1, <2>2
  <2>. QED
    BY <2>1, <2>3
<1>4. t[1] = s[2]
  <2>1. 1 \in 1..Len(t)
    BY <1>2
  <2>2. t[1] = s[1 + 1]
    BY <1>1, <2>1
  <2>. QED
    BY <2>2
<1>5. ASSUME Head(t) = "sdk" PROVE Head(s) = "await" /\ Len(s) > 1 /\ s[2] = "sdk"
  <2>1. 2 \in 1..Len(s) /\ s[2] = "sdk" /\ Len(s) > 1
    BY <1>2, <1>3, <1>4, <1>5
  <2>2. s[2 - 1] = "await"
    BY <2>1 DEF Plain, Paused
  <2>. QED
    BY <1>1, <2>1, <2>2
<1>6. ASSUME Len(t) > 1, t[2] = "sdk" PROVE Head(s) = "barrier" /\ Head(t) = "await"
  <2>1. 2 \in 1..Len(t) /\ 3 \in 1..Len(s)
    BY <1>3, <1>6
  <2>2. t[2] = s[2 + 1]
    BY <1>1, <2>1
  <2>3. s[3 - 1] = "await" /\ s[3 - 2] = "barrier"
    BY <1>6, <2>1, <2>2 DEF Plain, Paused
  <2>. QED
    BY <1>1, <1>2, <1>4, <2>3
<1>. QED
  BY <1>5, <1>6

LEMMA PauseStep ==
  ASSUME AudioTypes, ScriptInv, PauseInv, QuestionInv, CancelInv, [Next]_vars
  PROVE  PauseInv'
<1>. USE DEF AudioTypes
<1>0. commands \in CommandsOf(CommandType) /\ asked \in Nat /\ held \in Nat
  BY DEF QueueTypes, ControlTypes
<1>1. CASE Callback \/ UNCHANGED vars
  <2>1. UNCHANGED <<script, commands, held, asked, response, dsp, stage>>
    BY <1>1, CallbackFrame DEF vars, queueVars, controlVars, workerVars
  <2>. QED
    BY <2>1 DEF PauseInv, Quiet, AtStep
<1>2. CASE WorkerStep
  <2>0. UNCHANGED <<script, held, asked, cancel>>
    BY <1>2, WorkerFrame
  <2>1. ASSUME Quiet, ~cancel PROVE Quiet' /\ response' = response
    <3>1. commands = <<>> /\ stage \in {"top", "drain"} /\ ~Open
      BY <2>1 DEF Quiet, Open
    <3>2. WorkerJob \/ Top \/ Gate
      <4>1. ~FileStep
        BY <3>1, FileFrame DEF Exporting
      <4>. QED
        BY <1>2, <3>1, <4>1, WorkerSplit DEF RenderStep, TakePlay, TakeSeek, TakePause, TakeParam,
          TakeMix,
          TakeMonitor, TakeBarrier, TakeRenegotiate, TakeRender, Take, NotRendered, Push, Prefilled
    <3>3. CASE WorkerJob
      <4>1. UNCHANGED <<commands, stage, response>> /\ (dsp' = dsp \/ dsp' = [dsp EXCEPT !.active = FALSE])
        BY <3>3 DEF WorkerJob
      <4>2. dsp'.hold = dsp.hold
        BY <4>1 DEF WorkerTypes
      <4>. QED
        BY <2>0, <2>1, <4>1, <4>2 DEF Quiet
    <3>4. CASE Top
      BY <2>0, <2>1, <3>4 DEF Top, Quiet, queueVars
    <3>5. CASE Gate
      BY <2>0, <2>1, <3>1, <3>5 DEF Gate, Quiet, queueVars
    <3>. QED
      BY <3>2, <3>3, <3>4, <3>5
  <2>2. script # <<>> /\ Head(script) # "join" => ~cancel
    BY DEF CancelInv
  <2>3. AtStep("sdk")' /\ script' \notin Services => Quiet'
    BY <2>0, <2>1, <2>2 DEF PauseInv, AtStep
  <2>4. ASSUME AtStep("await"), Len(script) > 1, script[2] = "sdk"
        PROVE  /\ held' = asked' /\ held' # 0
               /\ response' = "ok" => Quiet'
               /\ response' = "none" =>
                    /\ commands' # <<>>
                    /\ commands'[Len(commands')].type = "barrier" /\ commands'[Len(commands')].of = asked'
    <3>0. held = asked /\ held # 0 /\ ~cancel
      BY <2>2, <2>4 DEF PauseInv, AtStep
    <3>1. CASE response = "ok"
      BY <2>0, <2>1, <2>4, <3>0, <3>1 DEF PauseInv
    <3>2. CASE response = "none"
      <4>1. /\ commands # <<>>
            /\ commands[Len(commands)].type = "barrier" /\ commands[Len(commands)].of = asked
        BY <2>4, <3>2 DEF PauseInv
      <4>2. CASE commands' = commands /\ response' = response
        BY <2>0, <3>0, <3>2, <4>1, <4>2
      <4>3. ASSUME NEW type, Take(type), NoJob,
                   response' # response => Head(commands).of = asked
            PROVE  /\ response' = "ok" => Quiet'
                   /\ response' = "none" =>
                        /\ commands' # <<>>
                        /\ commands'[Len(commands')].type = "barrier" /\ commands'[Len(commands')].of = asked'
        <5>1. /\ commands' = Tail(commands) /\ commands' \in CommandsOf(CommandType)
              /\ Len(commands) \in Nat \ {0} /\ Len(commands') = Len(commands) - 1
              /\ Head(commands) = commands[1] /\ Head(commands).type = type
              /\ \A i \in 1..Len(commands') : i + 1 \in 1..Len(commands) /\ commands'[i] = commands[i + 1]
          BY <1>0, <4>3, Taken
        <5>2. Len(commands') \in Nat /\ (Len(commands') = 0 => commands' = <<>>)
          <6>1. commands' \in Seq(CommandRecord(CommandType))
            BY <5>1 DEF CommandsOf, CommandRecord
          <6>. QED
            BY <6>1, EmptySeq, LenProperties
        <5>3. CASE Len(commands) = 1
          <6>1. type = "barrier" /\ Head(commands).of = asked /\ commands' = <<>> /\ stage = "drain"
            BY <4>1, <4>3, <5>1, <5>2, <5>3 DEF Take
          <6>2. TakeBarrier
            <7>1. ~FileStep
              BY <6>1, FileFrame DEF Exporting
            <7>2. ~WorkerJob
              BY <4>3 DEF NoJob, WorkerJob
            <7>. QED
              BY <1>2, <4>3, <6>1, <7>1, <7>2, WorkerSplit DEF RenderStep, TakePlay, TakeSeek,
                TakePause, TakeParam,
                TakeMix, TakeMonitor, TakeRenegotiate, TakeRender, Take, Top, Gate, NotRendered, Push, Prefilled
          <6>3. /\ dsp'.hold = asked /\ stage' = stage /\ response' \in {"ok", "error"}
            <7>1. /\ dsp' = [dsp EXCEPT !.hold = Head(commands).of] /\ stage' = stage
                  /\ Answer(Head(commands), "ok") \/ Answer(Head(commands), "error")
              BY <6>2 DEF TakeBarrier
            <7>2. dsp'.hold = asked
              BY <6>1, <7>1 DEF WorkerTypes
            <7>. QED
              BY <2>4, <6>1, <7>1, <7>2 DEF Answer, AtStep
          <6>. QED
            BY <2>0, <3>0, <6>1, <6>3 DEF Quiet
        <5>4. CASE Len(commands) # 1
          <6>1. 1 \in 1..Len(commands) /\ Len(commands) \in 1..Len(commands) /\ 1 < Len(commands)
            BY <5>1, <5>4
          <6>2. Head(commands).of # asked
            BY <3>0, <4>1, <5>1, <6>1 DEF QuestionInv
          <6>3. response' = "none"
            BY <3>2, <4>3, <6>2
          <6>4. /\ Len(commands') \in 1..Len(commands') /\ Len(commands') + 1 = Len(commands)
                /\ commands' # <<>>
            BY <5>1, <5>2, <6>1
          <6>5. commands'[Len(commands')] = commands[Len(commands)]
            BY <5>1, <6>4
          <6>. QED
            BY <2>0, <4>1, <6>3, <6>4, <6>5
        <5>. QED
          BY <5>3, <5>4
      <4>. QED
        BY <1>2, <2>0, <3>0, <4>2, <4>3, WorkerCommands
    <3>3. CASE response = "error"
      <4>1. response' = response
        <5>1. ASSUME NEW type, Take(type) PROVE Head(commands).of # asked
          <6>1. Head(commands) = commands[1] /\ 1 \in 1..Len(commands)
            BY <1>0, <5>1, Taken
          <6>. QED
            BY <3>0, <3>3, <6>1 DEF QuestionInv
        <5>. QED
          BY <1>2, <5>1, WorkerCommands
      <4>. QED
        BY <2>0, <3>0, <3>3, <4>1
    <3>4. response \in {"none", "ok", "error"}
      BY DEF ControlTypes
    <3>. QED
      BY <3>1, <3>2, <3>3, <3>4
  <2>. QED
    BY <2>0, <2>3, <2>4 DEF PauseInv, AtStep
<1>3. CASE User
  BY <1>3, RequestScript, PauseFresh DEF Request
<1>4. CASE ControlStep
  <2>1. CASE FreshScript(script') \/ script' \in Services \/ script' = <<>>
    BY <2>1, PauseFresh
  <2>2. CASE /\ script # <<>> /\ script' = Tail(script) /\ script' # <<>> /\ script' \notin Services
    <3>1. Plain(script)
      <4>1. ASSUME script \in Services PROVE FALSE
        <5>1. Tail(script) \in {<<>>, <<"served">>}
          BY <4>1, ServiceScripts
        <5>. QED
          BY <2>2, <5>1 DEF Services
      <4>. QED
        BY <4>1 DEF ScriptInv
    <3>2. /\ Head(script') = "sdk" => Head(script) = "await" /\ Len(script) > 1 /\ script[2] = "sdk"
          /\ Len(script') > 1 /\ script'[2] = "sdk" => Head(script) = "barrier" /\ Head(script') = "await"
      BY <2>2, <3>1, PlainNext
    <3>3. CASE Head(script') = "sdk"
      <4>1. Head(script) = "await" /\ AtStep("await") /\ Len(script) > 1 /\ script[2] = "sdk"
        BY <2>2, <3>2, <3>3 DEF AtStep
      <4>2. Await
        BY <1>4, <2>2, <4>1 DEF ControlStep, AtStep, Tick, HandleEvent, NoMessage, Message, Idle,
          ControlClock,
          SendCommand, SendQuestion, Sdk, Served, DropPause, MoveOn, Resume, FailSession, Failed, Drop
      <4>3. response = "ok" /\ UNCHANGED <<held, commands, dsp, stage>>
        <5>1. response = "ok" \/ OnError
          BY <4>2 DEF Await
        <5>2. ~OnError
          <6>1. ASSUME OnError PROVE FALSE
            <7>1. doing # "service"
              BY <4>1, ScriptHead
            <7>2. FreshScript(script')
              BY <6>1, <7>1, Undone
            <7>. QED
              BY <2>2, <3>3, <7>2 DEF FreshScript
          <6>. QED
            BY <6>1
        <5>. QED
          BY <4>2, <5>1, <5>2 DEF Await, queueVars, KeepPlace, Control
      <4>4. Quiet
        BY <4>1, <4>3 DEF PauseInv
      <4>5. Quiet'
        BY <4>3, <4>4 DEF Quiet
      <4>. QED
        BY <3>3, <4>5 DEF PauseInv, AtStep
    <3>4. CASE Len(script') > 1 /\ script'[2] = "sdk"
      <4>1. Head(script) = "barrier" /\ Head(script') = "await"
        BY <3>2, <3>4
      <4>2. SendQuestion
        BY <1>4, <2>2, <4>1 DEF ControlStep, AtStep, Tick, HandleEvent, NoMessage, Message, Idle,
          ControlClock,
          SendCommand, Await, Sdk, Served, DropPause, MoveOn, Resume, FailSession, Failed, Drop
      <4>3. ~OnError
        <5>1. ASSUME OnError PROVE FALSE
          <6>1. AtStep("barrier")
            BY <2>2, <4>1 DEF AtStep
          <6>2. doing # "service"
            BY <6>1, ScriptHead
          <6>3. FreshScript(script')
            BY <5>1, <6>2, Undone
          <6>. QED
            BY <2>2, <4>1, <6>3 DEF FreshScript
        <5>. QED
          BY <5>1
      <4>4. asked' = asked + 1 /\ response' = "none"
        BY <4>2, <4>3 DEF SendQuestion
      <4>5. PICK c \in CommandRecord(CommandType) :
              Room /\ Enqueue(c) /\ c.of = asked' /\ AtStep(c.type) /\ (c.type = "barrier" => held' = asked')
        <5>1. asked' # asked
          BY <1>0, <4>4
        <5>. QED
          BY <1>4, <5>1, ControlCommands
      <4>6. c.type = "barrier" /\ held' = asked' /\ held' # 0
        BY <1>0, <4>1, <4>4, <4>5 DEF AtStep
      <4>7. commands' # <<>> /\ commands'[Len(commands')] = c
        BY <1>0, <4>5, Enqueued
      <4>. QED
        BY <4>1, <4>4, <4>5, <4>6, <4>7 DEF PauseInv, AtStep
    <3>5. CASE Head(script') # "sdk" /\ ~(Len(script') > 1 /\ script'[2] = "sdk")
      BY <3>5 DEF PauseInv, AtStep
    <3>. QED
      BY <3>3, <3>4, <3>5
  <2>. QED
    BY <1>4, <2>1, <2>2, ControlScript, RecoverScripts DEF ScriptMove
<1>. QED
  BY <1>1, <1>2, <1>3, <1>4 DEF Next

-----------------------------------------------------------------------------
(* An export.                                                              *)

LEMMA MoveWithin ==
  ASSUME ScriptMove, NEW S, SilentStep \subseteq S, script \in Seq(S)
  PROVE  \/ script' \in Seq(S)
         \/ MoveOn \/ Resume
         \/ script' = RecoverScript /\ HandleEvent /\ events # <<>> /\ Head(events).type = "latency"
<1>1. CASE script # <<>> /\ script' = Tail(script)
  BY <1>1, TailOf
<1>2. CASE script' \in Seq(SilentStep)
  BY <1>2, SeqMonotonic
<1>. QED
  BY <1>1, <1>2 DEF ScriptMove

\* What the scripts of the requests are made of.
LEMMA UserScript ==
  ASSUME User
  PROVE  /\ script = <<>>
         /\ AskPlay => script' \in Seq(AnyStep \ {"render"})
         /\ AskRender => script' \in Seq(AnyStep \ {"play", "resume"})
         /\ ~AskPlay /\ ~AskRender => script' \in Seq(AnyStep \ {"render", "play", "resume"})
         /\ AskClose => script' \in Seq(SilentStep)
<1>. DEFINE M == AnyStep \ {"render", "play", "resume"}
            N == AnyStep \ {"render"}
            P == AnyStep \ {"play", "resume"}
<1>0. script = <<>>
  BY RequestScript
<1>1. Transition \in Seq(M) /\ Transition \in Seq(N) /\ Transition \in Seq(P)
  BY DEF Transition, AnyStep, PlainStep
<1>2. /\ <<"seek">> \in Seq(M) /\ <<"pause">> \in Seq(M) /\ <<"param">> \in Seq(M)
      /\ <<"play">> \in Seq(N) /\ <<"pause", "render">> \in Seq(P)
      /\ <<"mix", "await">> \in Seq(M) /\ <<"monitor", "await">> \in Seq(M)
      /\ <<"barrier", "await", "mix", "await", "move">> \in Seq(M)
  BY DEF AnyStep, PlainStep
<1>3. Capture \in Seq(M) /\ CloseScript \in Seq(M)
  BY DEF Capture, CloseScript, AnyStep, PlainStep
<1>4. AskPlay => script' \in Seq(N)
  BY <1>1, <1>2, Joined DEF AskPlay, Request
<1>5. AskRender => script' \in Seq(P)
  BY <1>1, <1>2, Joined DEF AskRender, Request
<1>6. AskSeek \/ AskPause => script' \in Seq(M)
  BY <1>1, <1>2, Joined DEF AskSeek, AskPause, Request
<1>7. AskParam \/ AskSnapshot \/ AskMonitor \/ AskClose => script' \in Seq(M)
  BY <1>2, <1>3 DEF AskParam, AskSnapshot, AskMonitor, AskClose, Request
<1>8. AskMix => script' \in Seq(M)
  BY <1>2 DEF AskMix, Request
<1>9. EditorUsed => script' \in Seq(M)
  BY <1>2, <1>3 DEF EditorUsed, Request
<1>10. AskClose => script' \in Seq(SilentStep)
  BY CloseScripts DEF AskClose, Request
<1>. QED
  BY <1>0, <1>4, <1>5, <1>6, <1>7, <1>8, <1>9, <1>10 DEF User

LEMMA ControlEvents ==
  ASSUME ControlStep \/ User
  PROVE  \/ events' = events
         \/ HandleEvent /\ events # <<>> /\ events' = Tail(events)
<1>1. CASE HandleEvent
  BY <1>1 DEF HandleEvent
<1>2. CASE User
  BY <1>2, RequestScript DEF Request, queueVars
<1>3. CASE ControlStep /\ ~HandleEvent
  BY <1>3 DEF ControlStep, Tick, NoMessage, ControlClock, SendCommand, SendQuestion, Await, Sdk,
    Served, DropPause,
              MoveOn, Resume, FailSession, Failed, Drop, queueVars
<1>. QED
  BY <1>1, <1>2, <1>3

LEMMA ControlRendering ==
  ASSUME AudioTypes, ControlStep \/ User
  PROVE  \/ rendering' = rendering
         \/ /\ SendCommand /\ AtStep("render") /\ Room /\ Proceed /\ rendering' = TRUE
         \/ HandleEvent /\ events # <<>> /\ Head(events).type = "render" /\ Exported
<1>1. CASE HandleEvent
  BY <1>1 DEF HandleEvent, Recover, Serve, Exported, transportVars
<1>2. CASE User
  BY <1>2 DEF User, AskPlay, AskSeek, AskPause, AskParam, AskSnapshot, AskMix, AskMonitor, AskRender,
              AskClose, EditorUsed, transportVars
<1>3. CASE SendCommand
  BY <1>3 DEF SendCommand, AudioTypes, ControlTypes
<1>4. CASE ControlStep /\ ~HandleEvent /\ ~SendCommand
  BY <1>4 DEF ControlStep, Tick, NoMessage, ControlClock, SendQuestion, Await, Sdk, Served, DropPause,
              MoveOn, Resume, FailSession, Failed, Drop, KeepTransport, transportVars
<1>. QED
  BY <1>1, <1>2, <1>3, <1>4

\* Which events a step of the worker posts.
LEMMA WorkerEvents ==
  ASSUME AudioTypes, WorkerStep, NEW T, {"failure", "timing", "progress"} \subseteq T,
         WorkerJob /\ job # <<>> /\ Head(job) = "tell" => "latency" \in T,
         DeliverResult => "render" \in T,
         events \in EventsOf(T)
  PROVE  events' \in EventsOf(T)
<1>. USE DEF AudioTypes
<1>1. events' = events \/ \E type \in T, of \in Nat : Post([type |-> type, of |-> of])
  <2>0. ticket.id + 1 \in Nat /\ pass \in Nat /\ dsp.revision \in Nat
    BY DEF WorkerTypes
  <2>1. CASE WorkerJob
    BY <2>0, <2>1 DEF WorkerJob
  <2>2. CASE Top \/ TakePlay \/ TakeSeek \/ TakePause \/ TakeMonitor \/ TakeBarrier
             \/ TakeRenegotiate \/ Gate \/ Push
             \/ Prefilled
    BY <2>2 DEF Top, TakePlay, TakeSeek, TakePause, TakeMonitor, TakeBarrier, TakeRenegotiate, Gate,
      Push, Prefilled,
                Quietly, queueVars
  <2>3. CASE TakeParam \/ TakeMix \/ NotRendered
    BY <2>3 DEF TakeParam, TakeMix, NotRendered, Quietly, Fails, FailsFinished
  <2>4. CASE TakeRender
    BY <2>4 DEF TakeRender
  <2>5. CASE AskTiming \/ TimingAnswered \/ GiveUp \/ Invalidate \/ ProbeLatency
    BY <2>0, <2>5 DEF AskTiming, TimingAnswered, GiveUp, Invalidate, ProbeLatency
  <2>6. CASE WriteBlock
    BY <2>0, <2>6 DEF WriteBlock
  <2>7. CASE DeliverResult
    BY <2>7 DEF DeliverResult
  <2>. QED
    BY <2>1, <2>2, <2>3, <2>4, <2>5, <2>6, <2>7, WorkerSplit DEF RenderStep, FileStep
<1>. QED
  BY <1>1, Posted DEF QueueTypes

\* Where a step that is not of an export leads.
LEMMA RenderStages ==
  ASSUME RenderStep
  PROVE  stage' = stage \/ stage' \in {"top", "drain", "rendering", "prefill", "ended"}
BY DEF RenderStep, WorkerJob, Top, TakePlay, TakeSeek, TakePause, TakeParam, TakeMix, TakeMonitor,
  TakeBarrier,
       TakeRenegotiate, Gate, NotRendered, Push, Prefilled

LEMMA ExportWorker ==
  ASSUME AudioTypes, ExportInv, WorkerStep
  PROVE  ExportInv'
<1>. USE DEF AudioTypes
<1>0. /\ UNCHANGED <<script, rendering, offline>> /\ commands \in CommandsOf(CommandType)
      /\ {"top", "drain", "rendering", "prefill", "ended"} \cap Exporting = {}
  BY WorkerFrame DEF QueueTypes, Exporting
<1>1. Unread => Unread' \/ DeliverResult
  <2>1. ASSUME Unread, ~DeliverResult PROVE events' \in EventsOf(EventType \ {"render"})
    <3>1. {"failure", "timing", "progress", "latency"} \subseteq EventType \ {"render"}
      BY DEF EventType
    <3>. QED
      BY <2>1, <3>1, WorkerEvents DEF Unread
  <2>. QED
    BY <2>1 DEF Unread
<1>2. CASE DeliverResult
  <2>1. stage' = "drain" /\ rendering /\ commands' = <<>>
    <3>1. stage \in Exporting /\ commands' = commands /\ stage' = "drain"
      BY <1>2, FileFrame DEF FileStep, DeliverResult
    <3>. QED
      BY <3>1 DEF ExportInv
  <2>2. stage' \notin Exporting
    BY <2>1 DEF Exporting
  <2>. QED
    BY <1>0, <2>1, <2>2 DEF ExportInv
<1>3. CASE FileStep /\ ~DeliverResult
  <2>1. stage \in Exporting /\ commands' = commands
    BY <1>3, FileFrame
  <2>2. commands' = <<>> /\ rendering' /\ Unread'
    BY <1>0, <1>1, <1>3, <2>1 DEF ExportInv
  <2>. QED
    BY <1>0, <2>2 DEF ExportInv
<1>4. CASE RenderStep /\ ~DeliverResult
  <2>1. CASE commands' = commands
    <3>1. stage' \in Exporting => stage \in Exporting
      BY <1>0, <1>4, RenderStages
    <3>. QED
      BY <1>0, <1>1, <1>4, <2>1, <3>1 DEF ExportInv
  <2>2. ASSUME NEW type, Take(type) PROVE ExportInv'
    <3>1. stage' \notin Exporting
      <4>1. stage = "drain"
        BY <2>2 DEF Take
      <4>. QED
        BY <1>0, <1>4, <4>1, RenderStages
    <3>2. /\ Len(commands) \in Nat \ {0} /\ Len(commands') = Len(commands) - 1
          /\ \A i \in 1..Len(commands') : i + 1 \in 1..Len(commands) /\ commands'[i] = commands[i + 1]
      BY <1>0, <2>2, Taken
    <3>3. \A i \in 1..Len(commands') : i + 1 = Len(commands) => i = Len(commands')
      BY <3>2
    <3>4. \A i \in 1..Len(commands') : commands'[i].type = "render" =>
            i = Len(commands') /\ rendering' /\ Unread'
      BY <1>0, <1>1, <1>4, <3>2, <3>3 DEF ExportInv
    <3>. QED
      BY <1>0, <1>1, <1>4, <3>1, <3>4 DEF ExportInv
  <2>. QED
    BY <2>1, <2>2, WorkerCommands
<1>5. CASE TakeRender /\ ~DeliverResult
  <2>1. /\ Len(commands) \in Nat \ {0} /\ Len(commands') = Len(commands) - 1
        /\ commands[1].type = "render" /\ commands' \in CommandsOf(CommandType)
    BY <1>0, <1>5, Taken DEF TakeRender
  <2>2. 1 \in 1..Len(commands)
    BY <2>1
  <2>3. 1 = Len(commands) /\ rendering /\ Unread
    BY <2>1, <2>2 DEF ExportInv
  <2>4. commands' = <<>>
    <3>1. commands' \in Seq(CommandRecord(CommandType))
      BY <2>1 DEF CommandsOf, CommandRecord
    <3>2. Len(commands') = 0
      <4>1. PICK n \in Nat : n = Len(commands) /\ Len(commands') = n - 1
        BY <2>1
      <4>2. n = 1
        BY <2>3, <4>1
      <4>. QED
        BY <4>1, <4>2
    <3>. QED
      BY <3>1, <3>2, EmptySeq
  <2>. QED
    BY <1>0, <1>1, <1>5, <2>3, <2>4 DEF ExportInv
<1>. QED
  BY <1>2, <1>3, <1>4, <1>5, WorkerSplit

LEMMA ExportControl ==
  ASSUME AudioTypes, ScriptInv, ExportInv, OfflineInv, ControlStep \/ User
  PROVE  ExportInv'
<1>. USE DEF AudioTypes
<1>. DEFINE NoRender == AnyStep \ {"render"}
<1>0. /\ UNCHANGED <<stage, offline>> /\ commands \in CommandsOf(CommandType) /\ offline \in BOOLEAN
      /\ rendering \in BOOLEAN
  BY ControlFrame DEF QueueTypes, ControlTypes
<1>1. SilentStep \subseteq NoRender /\ (script' \in Seq(SilentStep) => script' \in Seq(NoRender))
  <2>1. SilentStep \subseteq NoRender
    BY DEF SilentStep, AnyStep, PlainStep
  <2>. QED
    BY <2>1, SeqMonotonic
<1>2. Unread => Unread'
  <2>1. ASSUME Unread PROVE events' \in EventsOf(EventType \ {"render"})
    BY <2>1, ControlEvents, TailOf DEF Unread, EventsOf
  <2>. QED
    BY <2>1 DEF Unread
<1>3. CASE HandleEvent /\ events # <<>> /\ Head(events).type = "render" /\ Exported
  <2>1. ~Unread
    <3>1. ASSUME Unread PROVE Head(events).type # "render"
      <4>1. events \in Seq([type : EventType \ {"render"}, of : Nat])
        BY <3>1 DEF Unread, EventsOf
      <4>2. Head(events) \in [type : EventType \ {"render"}, of : Nat]
        BY <1>3, <4>1, TailOf
      <4>. QED
        BY <4>2
    <3>. QED
      BY <1>3, <3>1
  <2>2. commands' = commands /\ rendering' = FALSE /\ (script' = <<>> \/ script' = CloseScript)
    BY <1>3 DEF HandleEvent, Exported
  <2>3. script' \in Seq(SilentStep)
    <3>1. <<>> \in Seq(SilentStep)
      OBVIOUS
    <3>. QED
      BY <2>2, <3>1, CloseScripts
  <2>4. script' \in Seq(NoRender)
    BY <1>1, <2>3
  <2>. QED
    BY <1>0, <2>1, <2>2, <2>4 DEF ExportInv
<1>4. CASE SendCommand /\ AtStep("render") /\ Room /\ Proceed /\ rendering' = TRUE
  <2>0. script # <<>> /\ Head(script) = "render" /\ script' = Tail(script) /\ Plain(script)
    BY <1>4, ScriptHead DEF AtStep, Proceed, ScriptInv
  <2>1. script \in Seq(PlainStep) /\ 1 \in 1..Len(script) /\ script[1] = "render" /\ Len(script) \in Nat
    BY <2>0, TailOf DEF Plain
  <2>2. 1 = Len(script)
    BY <2>0, <2>1 DEF Plain, Ordered
  <2>3. script' = <<>>
    <3>1. Tail(script) \in Seq(PlainStep) /\ Len(Tail(script)) = Len(script) - 1
      BY <2>0, <2>1, TailOf
    <3>2. Len(Tail(script)) = 0
      BY <2>2, <3>1
    <3>. QED
      BY <2>0, <3>1, <3>2, EmptySeq
  <2>4. ~rendering /\ offline /\ Unread
    <3>1. script \notin Seq(NoRender)
      <4>1. ASSUME script \in Seq(NoRender) PROVE FALSE
        <5>1. Head(script) \in NoRender
          BY <2>0, <4>1, TailOf
        <5>. QED
          BY <2>0, <5>1
      <4>. QED
        BY <4>1
    <3>. QED
      BY <3>1 DEF ExportInv
  <2>5. /\ stage \notin Exporting
        /\ \A i \in 1..Len(commands) : commands[i].type # "render"
    BY <2>4 DEF ExportInv
  <2>6. \A i \in 1..Len(commands') : commands'[i].type = "render" => i = Len(commands')
    <3>1. CASE commands' = commands
      BY <2>5, <3>1
    <3>2. ASSUME NEW c \in CommandRecord(CommandType), Room, Enqueue(c) PROVE <2>6
      <4>1. /\ Len(commands) \in Nat /\ Len(commands') = Len(commands) + 1
            /\ \A i \in 1..Len(commands) : commands'[i] = commands[i]
        BY <1>0, <3>2, Enqueued
      <4>2. \A i \in 1..Len(commands') : i \in 1..Len(commands) \/ i = Len(commands')
        BY <4>1
      <4>. QED
        BY <2>5, <4>1, <4>2
    <3>. QED
      BY <3>1, <3>2, ControlCommands
  <2>7. script' \in Seq(SilentStep) /\ script' \in Seq(NoRender)
    BY <2>3
  <2>. QED
    BY <1>0, <1>2, <1>4, <2>4, <2>5, <2>6, <2>7 DEF ExportInv
<1>5. CASE rendering' = rendering /\ rendering
  <2>0. offline /\ script \in Seq(SilentStep)
    BY <1>5 DEF ExportInv
  <2>1. \A step : AtStep(step) => step \in SilentStep
    <3>1. script # <<>> => Head(script) \in SilentStep
      BY <2>0, TailOf
    <3>. QED
      BY <3>1 DEF AtStep
  <2>2. ~MoveOn /\ ~Resume /\ ~SendCommand /\ ~SendQuestion
    <3>1. \A step \in {"move", "resume", "play", "seek", "pause", "param", "render", "barrier", "mix", "monitor",
                      "renegotiate"} : ~AtStep(step)
      BY <2>1 DEF SilentStep
    <3>. QED
      BY <3>1 DEF MoveOn, Resume, SendCommand, SendQuestion
  <2>3. commands' = commands
    <3>1. CASE Tick
      BY <1>5, <3>1 DEF Tick
    <3>. QED
      BY <2>2, <3>1, ControlCommands
  <2>4. script' \in Seq(SilentStep)
    <3>1. CASE User
      <4>1. AskClose
        BY <1>5, <3>1 DEF User, AskPlay, AskSeek, AskPause, AskParam, AskSnapshot, AskMix, AskMonitor,
          AskRender, EditorUsed
      <4>. QED
        BY <3>1, <4>1, UserScript
    <3>2. CASE ControlStep
      <4>1. ~(events # <<>> /\ Head(events).type = "latency")
        <5>1. events \in EventsOf(EventType \ {"latency"})
          BY <2>0 DEF OfflineInv
        <5>2. events \in Seq([type : EventType \ {"latency"}, of : Nat])
          BY <5>1 DEF EventsOf
        <5>3. events # <<>> => Head(events) \in [type : EventType \ {"latency"}, of : Nat]
          BY <5>2, TailOf
        <5>. QED
          BY <5>3
      <4>. QED
        BY <2>0, <2>2, <3>2, <4>1, ControlScript, MoveWithin
    <3>. QED
      BY <3>1, <3>2
  <2>5. script' \in Seq(NoRender)
    BY <1>1, <2>4
  <2>. QED
    BY <1>0, <1>2, <1>5, <2>0, <2>3, <2>4, <2>5 DEF ExportInv
<1>6. CASE rendering' = rendering /\ ~rendering
  <2>0. /\ stage' \notin Exporting
        /\ \A i \in 1..Len(commands) : commands[i].type # "render"
    BY <1>0, <1>6 DEF ExportInv
  <2>1. \A i \in 1..Len(commands') : commands'[i].type # "render"
    <3>1. CASE commands' = commands
      BY <2>0, <3>1
    <3>2. ASSUME NEW c \in CommandRecord(CommandType), Room, Enqueue(c), c.type # "render"
          PROVE  <2>1
      <4>1. /\ Len(commands) \in Nat /\ Len(commands') = Len(commands) + 1
            /\ \A i \in 1..Len(commands) : commands'[i] = commands[i]
            /\ commands'[Len(commands')] = c
        BY <1>0, <3>2, Enqueued
      <4>2. \A i \in 1..Len(commands') : i \in 1..Len(commands) \/ i = Len(commands')
        BY <4>1
      <4>. QED
        BY <2>0, <3>2, <4>1, <4>2
    <3>. QED
      BY <1>6, <3>1, <3>2, ControlCommands
  <2>2. script' \in Seq(NoRender) \/ (offline' /\ Unread')
    <3>1. CASE User
      <4>1. CASE AskRender
        <5>1. offline /\ events = <<>>
          BY <4>1 DEF AskRender, Message
        <5>2. Unread
          BY <5>1 DEF Unread, EventsOf
        <5>. QED
          BY <1>0, <1>2, <5>1, <5>2
      <4>2. CASE ~AskRender
        <5>1. AnyStep \ {"render", "play", "resume"} \subseteq NoRender
          OBVIOUS
        <5>. QED
          BY <3>1, <4>2, <5>1, UserScript, SeqMonotonic
      <4>. QED
        BY <4>1, <4>2
    <3>2. CASE ControlStep /\ script \in Seq(NoRender)
      <4>1. ScriptMove
        BY <3>2, ControlScript
      <4>2. CASE MoveOn
        <5>1. Transition \in Seq(NoRender) /\ <<"seek", "release">> \in Seq(NoRender)
          BY DEF Transition, AnyStep, PlainStep
        <5>. QED
          BY <4>2, <5>1, Joined DEF MoveOn
      <4>3. CASE Resume
        <5>1. Transition \in Seq(NoRender) /\ <<"play">> \in Seq(NoRender) /\ <<"seek">> \in Seq(NoRender)
          BY DEF Transition, AnyStep, PlainStep
        <5>. QED
          BY <4>3, <5>1, Joined DEF Resume
      <4>4. CASE script' = RecoverScript
        <5>1. SafeStep \subseteq NoRender
          BY DEF SafeStep, AnyStep
        <5>. QED
          BY <4>4, <5>1, RecoverScripts, SeqMonotonic
      <4>. QED
        BY <1>1, <3>2, <4>1, <4>2, <4>3, <4>4, MoveWithin
    <3>3. CASE script \notin Seq(NoRender)
      BY <1>0, <1>2, <3>3 DEF ExportInv
    <3>. QED
      BY <3>1, <3>2, <3>3
  <2>. QED
    BY <1>0, <1>6, <2>0, <2>1, <2>2 DEF ExportInv
<1>. QED
  BY <1>3, <1>4, <1>5, <1>6, ControlRendering

LEMMA OfflineWorker ==
  ASSUME AudioTypes, OfflineInv, offline, WorkerStep
  PROVE  OfflineInv'
<1>. USE DEF AudioTypes
<1>. DEFINE Steps == {"cursor", "unready", "active"}
            Quiets == CommandType \ {"play"}
            Events == EventType \ {"latency"}
<1>0. UNCHANGED <<script, to, offline>>
  BY WorkerFrame
<1>1. /\ active = 0 /\ ~dsp.active /\ ~recovering /\ ~to.playing /\ ~wto.playing
      /\ stage \notin {"rendering", "prefill"} /\ commands \in CommandsOf(Quiets)
      /\ script \in Seq(AnyStep \ {"play", "resume"}) /\ events \in EventsOf(Events)
      /\ job \in Seq(Steps)
  BY DEF OfflineInv
<1>2. events' \in EventsOf(Events)
  <2>1. job # <<>> => Head(job) # "tell"
    <3>1. job # <<>> => Head(job) \in Steps
      BY <1>1, TailOf
    <3>. QED
      BY <3>1
  <2>2. {"failure", "timing", "progress", "render"} \subseteq Events
    BY DEF EventType
  <2>. QED
    BY <1>1, <2>1, <2>2, WorkerEvents
<1>3. commands' \in CommandsOf(Quiets) /\ ~TakePlay
  <2>1. \A type : Take(type) => commands' \in CommandsOf(Quiets) /\ type \in Quiets
    BY <1>1, Taken
  <2>2. ~TakePlay
    BY <2>1 DEF TakePlay
  <2>. QED
    BY <1>1, <2>1, <2>2, WorkerCommands
<1>4. ASSUME active' = 0, ~dsp'.active, ~recovering', ~wto'.playing,
             stage' \notin {"rendering", "prefill"}, job' \in Seq(Steps)
      PROVE  OfflineInv'
  BY <1>0, <1>1, <1>2, <1>3, <1>4 DEF OfflineInv
<1>5. dsp \in DspType /\ wto \in MoveType
  BY DEF WorkerTypes, DspType
<1>6. CASE WorkerJob
  <2>1. /\ job # <<>> /\ job' = Tail(job) /\ stage' = stage
        /\ recovering' = (recovering \/ Head(job) = "recovering")
        /\ wto' = IF Tail(job) = <<>> THEN NoMove ELSE Stamped(wto)
        /\ TransitionStep(Head(job), wto)
        /\ Head(job) # "tell" => dsp' = dsp
    BY <1>1, <1>6 DEF WorkerJob
  <2>2. Head(job) \in Steps /\ job' \in Seq(Steps)
    BY <1>1, <2>1, TailOf
  <2>3. active' = 0
    BY <1>1, <2>1 DEF TransitionStep
  <2>4. ~wto'.playing
    <3>1. ~NoMove.playing
      BY DEF NoMove
    <3>2. ~Stamped(wto).playing
      BY <1>1, <1>5 DEF Stamped, MoveType
    <3>. QED
      BY <2>1, <3>1, <3>2
  <2>5. dsp' = dsp /\ ~recovering'
    BY <1>1, <2>1, <2>2
  <2>. QED
    BY <1>1, <1>4, <2>1, <2>2, <2>3, <2>4, <2>5
<1>7. ASSUME Fails \/ FailsFinished, stage' \notin {"rendering", "prefill"} PROVE OfflineInv'
  <2>1. ~dsp'.active /\ ~recovering'
    BY <1>1, <1>5, <1>7 DEF Fails, FailsFinished, KeepClock, clockVars, DspType
  <2>2. active' = 0
    BY <1>1, <1>7 DEF Fails, FailsFinished, KeepClock, clockVars, Finish
  <2>3. Transition \in Seq(Steps)
    BY DEF Transition
  <2>4. ~wto'.playing /\ job' \in Seq(Steps)
    BY <1>1, <1>7, <2>3 DEF Fails, FailsFinished
  <2>. QED
    BY <1>4, <1>7, <2>1, <2>2, <2>4
<1>8. ASSUME KeepClock, UNCHANGED <<job, wto>>, ~dsp'.active, stage' \notin {"rendering", "prefill"}
      PROVE  OfflineInv'
  BY <1>1, <1>4, <1>8 DEF KeepClock, clockVars
<1>9. CASE Top
  BY <1>1, <1>8, <1>9 DEF Top
<1>10. CASE Gate
  <2>1. ~Open
    BY <1>1 DEF Open
  <2>2. stage' = "top" /\ UNCHANGED <<dsp, active, recovering, wto, job>>
    BY <1>10, <2>1 DEF Gate
  <2>. QED
    BY <1>1, <1>4, <2>2
<1>11. CASE NotRendered \/ Push \/ Prefilled
  BY <1>1, <1>11 DEF NotRendered, Push, Prefilled
<1>12. CASE TakeSeek \/ TakePause \/ TakeRender
  <2>1. KeepClock /\ UNCHANGED <<job, wto>> /\ stage' \notin {"rendering", "prefill"}
    BY <1>1, <1>12 DEF TakeSeek, TakePause, TakeRender, Quietly
  <2>2. CASE TakeSeek
    <3>1. ~dsp'.active
      BY <1>1, <1>5, <2>2 DEF TakeSeek, DspType
    <3>. QED
      BY <1>8, <2>1, <3>1
  <2>3. CASE TakePause \/ TakeRender
    <3>1. ~dsp'.active
      BY <1>5, <2>3 DEF TakePause, TakeRender, DspType
    <3>. QED
      BY <1>8, <2>1, <3>1
  <2>. QED
    BY <1>12, <2>2, <2>3
<1>13. CASE TakeParam \/ TakeMix
  <2>1. stage' = stage /\ (Fails \/ FailsFinished \/ (Quietly /\ UNCHANGED dsp))
    BY <1>13 DEF TakeParam, TakeMix
  <2>. QED
    BY <1>1, <1>7, <1>8, <2>1 DEF Quietly
<1>14. CASE TakeMonitor
  BY <1>1, <1>8, <1>14 DEF TakeMonitor
<1>15. CASE TakeBarrier
  <2>1. dsp' = [dsp EXCEPT !.hold = Head(commands).of] /\ KeepClock /\ UNCHANGED <<job, wto, stage>>
    BY <1>15 DEF TakeBarrier
  <2>2. ~dsp'.active
    BY <1>1, <1>5, <2>1 DEF DspType
  <2>. QED
    BY <1>1, <1>8, <2>1, <2>2
<1>16. CASE TakeRenegotiate
  <2>1. /\ \/ dsp' = [dsp EXCEPT !.active = FALSE, !.hold = 0, !.revision = @ + 1]
           \/ dsp' = [dsp EXCEPT !.active = FALSE, !.hold = 0]
        /\ KeepClock /\ UNCHANGED <<job, wto, stage>>
    BY <1>16 DEF TakeRenegotiate
  <2>2. CASE dsp' = [dsp EXCEPT !.active = FALSE, !.hold = 0]
    <3>1. ~dsp'.active
      BY <1>5, <2>2 DEF DspType
    <3>. QED
      BY <1>1, <1>8, <2>1, <3>1
  <2>3. CASE dsp' = [dsp EXCEPT !.active = FALSE, !.hold = 0, !.revision = @ + 1]
    <3>1. ~dsp'.active
      BY <1>5, <2>3 DEF DspType
    <3>. QED
      BY <1>1, <1>8, <2>1, <3>1
  <2>. QED
    BY <2>1, <2>2, <2>3
<1>17. CASE FileStep
  <2>1. UNCHANGED <<active, recovering, dsp, wto, job>>
    BY <1>17, FileFrame
  <2>2. stage' \in {"drain"} \cup Exporting
    BY <1>17 DEF FileStep, AskTiming, TimingAnswered, GiveUp, Invalidate, ProbeLatency, WriteBlock,
      DeliverResult,
                 Deliver, Exporting
  <2>3. stage' \notin {"rendering", "prefill"}
    BY <2>2 DEF Exporting
  <2>. QED
    BY <1>1, <1>4, <2>1, <2>3
<1>. QED
  BY <1>3, <1>6, <1>9, <1>10, <1>11, <1>12, <1>13, <1>14, <1>15, <1>16, <1>17,
    WorkerSplit DEF RenderStep

LEMMA OfflineControl ==
  ASSUME AudioTypes, ScriptInv, OfflineInv, offline, ControlStep \/ User
  PROVE  OfflineInv'
<1>. USE DEF AudioTypes
<1>. DEFINE Steps == {"cursor", "unready", "active"}
            Quiets == CommandType \ {"play"}
            Events == EventType \ {"latency"}
            Still == AnyStep \ {"play", "resume"}
<1>0. UNCHANGED <<offline, stage, job, dsp, wto>>
  BY ControlFrame
<1>1. /\ active = 0 /\ ~dsp.active /\ ~recovering /\ ~to.playing /\ ~wto.playing
      /\ stage \notin {"rendering", "prefill"} /\ commands \in CommandsOf(Quiets)
      /\ script \in Seq(Still) /\ events \in EventsOf(Events)
      /\ job \in Seq(Steps)
  BY DEF OfflineInv
<1>2. events' \in EventsOf(Events)
  <2>1. CASE events' = events
    BY <1>1, <2>1
  <2>2. CASE events # <<>> /\ events' = Tail(events)
    BY <1>1, <2>2, TailOf DEF EventsOf
  <2>. QED
    BY <2>1, <2>2, ControlEvents
<1>3. ~AtStep("play") /\ ~AtStep("resume")
  <2>1. script # <<>> => Head(script) \in Still
    BY <1>1, TailOf
  <2>. QED
    BY <2>1 DEF AtStep
<1>4. commands' \in CommandsOf(Quiets)
  <2>1. ASSUME NEW c \in CommandRecord(CommandType), Room, Enqueue(c), c.type # "play"
        PROVE  commands' \in CommandsOf(Quiets)
    <3>1. c \in CommandRecord(Quiets)
      BY <2>1 DEF CommandRecord
    <3>. QED
      BY <1>1, <2>1, <3>1, Enqueued
  <2>. QED
    BY <1>1, <1>3, <2>1, ControlCommands
<1>5. ~(events # <<>> /\ Head(events).type = "latency")
  <2>1. events \in Seq([type : Events, of : Nat])
    BY <1>1 DEF EventsOf
  <2>2. events # <<>> => Head(events) \in [type : Events, of : Nat]
    BY <2>1, TailOf
  <2>. QED
    BY <2>2
<1>6. ~Resume /\ ~AskPlay /\ ~Intent
  BY <1>1, <1>3 DEF Resume, AskPlay, Intent
<1>7. script' \in Seq(Still)
  <2>1. CASE User
    <3>1. AnyStep \ {"render", "play", "resume"} \subseteq Still
      OBVIOUS
    <3>. QED
      BY <1>6, <2>1, <3>1, UserScript, SeqMonotonic
  <2>2. CASE ControlStep
    <3>1. SilentStep \subseteq Still
      BY DEF SilentStep, AnyStep, PlainStep
    <3>2. CASE MoveOn
      <4>1. Transition \in Seq(Still) /\ <<"seek", "release">> \in Seq(Still)
        BY DEF Transition, AnyStep, PlainStep
      <4>. QED
        BY <3>2, <4>1, Joined DEF MoveOn
    <3>. QED
      BY <1>1, <1>5, <1>6, <2>2, <3>1, <3>2, ControlScript, MoveWithin
  <2>. QED
    BY <2>1, <2>2
<1>8. active' = 0 /\ ~recovering'
  <2>1. CASE ControlClock
    BY <1>1, <2>1 DEF ControlClock, TransitionStep
  <2>2. CASE FailSession \/ Drop
    <3>1. (recovering' = recovering \/ recovering' = FALSE) /\ (active' = active \/ active' = 0)
      BY <2>2 DEF FailSession, Drop
    <3>. QED
      BY <1>1, <3>1
  <2>3. CASE User
    BY <1>1, <2>3, RequestScript DEF Request, KeepClock, clockVars
  <2>4. CASE \/ Tick \/ HandleEvent \/ NoMessage \/ SendCommand \/ SendQuestion \/ Await \/ Sdk \/ Served \/ DropPause
             \/ MoveOn \/ Failed
    BY <1>1, <2>4 DEF Tick, HandleEvent, NoMessage, SendCommand, SendQuestion, Await, Sdk, Served,
      DropPause,
                      MoveOn, Failed, KeepClock, clockVars
  <2>. QED
    BY <1>6, <2>1, <2>2, <2>3, <2>4 DEF ControlStep
<1>9. ~to'.playing
  <2>0. \A frame : MovesTo(frame, FALSE) => ~to'.playing
    BY DEF MovesTo
  <2>1. CASE ControlClock
    <3>1. to' = Stamped(to)
      BY <2>1 DEF ControlClock
    <3>. QED
      BY <1>1, <3>1 DEF Stamped, ControlTypes, MoveType
  <2>2. CASE HandleEvent
    <3>1. to' = to
      BY <1>5, <2>2 DEF HandleEvent, Serve, Exported
    <3>. QED
      BY <1>1, <3>1
  <2>3. CASE MoveOn \/ FailSession
    <3>1. \E frame, playing : MovesTo(frame, playing) /\ (playing = Intent \/ playing = FALSE)
      BY <2>3 DEF MoveOn, FailSession
    <3>. QED
      BY <1>6, <3>1 DEF MovesTo
  <2>4. CASE User
    <3>1. CASE AskSeek \/ AskPause \/ AskRender
      <4>1. \E frame, playing : MovesTo(frame, playing) /\ (playing = Intent \/ playing = FALSE)
        BY <3>1 DEF AskSeek, AskPause, AskRender
      <4>. QED
        BY <1>6, <4>1 DEF MovesTo
    <3>2. CASE AskParam \/ AskSnapshot \/ AskMix \/ AskMonitor \/ AskClose \/ EditorUsed
      BY <1>1, <3>2 DEF AskParam, AskSnapshot, AskMix, AskMonitor, AskClose, EditorUsed
    <3>. QED
      BY <1>6, <2>4, <3>1, <3>2 DEF User
  <2>5. CASE \/ Tick \/ NoMessage \/ SendCommand \/ SendQuestion \/ Await \/ Sdk \/ Served \/ DropPause
             \/ Failed \/ Drop
    BY <1>1, <2>5 DEF Tick, NoMessage, SendCommand, SendQuestion, Await, Sdk, Served, DropPause,
      Failed, Drop
  <2>. QED
    BY <1>6, <2>1, <2>2, <2>3, <2>4, <2>5 DEF ControlStep
<1>. QED
  BY <1>0, <1>1, <1>2, <1>4, <1>7, <1>8, <1>9 DEF OfflineInv

LEMMA OfflineStep ==
  ASSUME AudioTypes, ScriptInv, OfflineInv, [Next]_vars
  PROVE  OfflineInv'
<1>1. CASE ~offline
  <2>1. offline' = offline
    <3>1. CASE Callback \/ UNCHANGED vars
      BY <3>1, CallbackFrame DEF vars
    <3>. QED
      BY <3>1, WorkerFrame, ControlFrame DEF Next
  <2>. QED
    BY <1>1, <2>1 DEF OfflineInv
<1>2. CASE offline /\ (WorkerStep \/ ControlStep \/ User)
  BY <1>2, OfflineWorker, OfflineControl
<1>3. CASE offline /\ (Callback \/ UNCHANGED vars)
  <2>1. UNCHANGED <<recovering, commands, events, offline, script, to, stage, job, dsp, wto>>
    BY <1>3, CallbackFrame DEF vars, clockVars, queueVars, controlVars, workerVars
  <2>2. active' = active \/ active' = 0
    BY <1>3 DEF vars, clockVars, Callback, LoadActive, DrainStale, PopFrame, CommitFrame, FinishLast,
      DeviceFails,
                Finish
  <2>. QED
    BY <1>3, <2>1, <2>2 DEF OfflineInv
<1>. QED
  BY <1>1, <1>2, <1>3 DEF Next

-----------------------------------------------------------------------------
(* The invariant.                                                          *)

LEMMA AudioInit ==
  ASSUME Init
  PROVE  AudioInv
<1>. USE DEF Init
<1>1. AudioTypes
  <2>0. Longest \in Lengths /\ NoMove \in MoveType /\ NoFrame \in FrameType
    BY LongestLength DEF NoMove, MoveType, NoFrame, FrameType
  <2>1. ClockTypes /\ DeviceTypes
    BY <2>0 DEF ClockTypes, DeviceTypes
  <2>2. QueueTypes
    BY Sizes DEF QueueTypes, CommandsOf, EventsOf
  <2>3. WorkerTypes
    BY <2>0 DEF WorkerTypes
  <2>4. ControlTypes
    <3>1. to \in MoveType /\ script \in Seq(AnyStep) /\ keep \in [resume : BOOLEAN, frame : Nat]
      BY <2>0
    <3>2. asked = 0 /\ held = 0 /\ revision = 0 /\ held <= asked
      OBVIOUS
    <3>. QED
      BY <3>1, <3>2 DEF ControlTypes
  <2>. QED
    BY <2>1, <2>2, <2>3, <2>4 DEF AudioTypes
<1>2. ScriptInv
  <2>1. Plain(<<>>)
    BY DEF Plain, Paused, Ordered
  <2>2. <<>> \notin Services
    BY <2>1, PlainNotService
  <2>. QED
    BY <2>1, <2>2 DEF ScriptInv
<1>3. PauseInv /\ QuestionInv /\ CancelInv /\ TicketInv
  BY DEF PauseInv, QuestionInv, CancelInv, TicketInv, AtStep
<1>4. ExportInv
  BY DEF ExportInv, Exporting
<1>5. OfflineInv
  BY DEF OfflineInv, CommandsOf, EventsOf, NoMove
<1>. QED
  BY <1>1, <1>2, <1>3, <1>4, <1>5 DEF AudioInv

LEMMA AudioStep ==
  ASSUME AudioInv, [Next]_vars
  PROVE  AudioInv'
<1>. USE DEF AudioInv
<1>1. ScriptInv'
  BY ScriptStep
<1>2. AudioTypes'
  BY <1>1, TypesKept
<1>3. PauseInv' /\ QuestionInv' /\ CancelInv' /\ TicketInv' /\ OfflineInv'
  BY PauseStep, QuestionStep, CancelStep, TicketStep, OfflineStep
<1>4. ExportInv'
  <2>1. CASE Callback \/ UNCHANGED vars
    <3>1. UNCHANGED <<commands, events, stage, rendering, script, offline>>
      BY <2>1, CallbackFrame DEF vars, queueVars, controlVars, workerVars, transportVars
    <3>. QED
      BY <3>1 DEF ExportInv, Unread
  <2>. QED
    BY <2>1, ExportWorker, ExportControl DEF Next
<1>. QED
  BY <1>1, <1>2, <1>3, <1>4

LEMMA AudioInductive == Spec => []AudioInv
<1>1. Init => AudioInv
  BY AudioInit
<1>2. AudioInv /\ [Next]_vars => AudioInv'
  BY AudioStep
<1>. QED
  BY <1>1, <1>2, PTL DEF Spec

\* The variables of an audio session keep their types, the queues their sizes,
\* and no frame is rendered without room for it in the ring.
THEOREM AudioTypeCorrect == Spec => []TypeOK
<1>1. AudioInv => TypeOK
  <2>. SUFFICES ASSUME AudioInv PROVE TypeOK
    OBVIOUS
  <2>. USE DEF AudioInv, AudioTypes
  <2>1. {got} \cup {ring[i] : i \in DOMAIN ring} \subseteq FrameType
    BY ElementOfSeq DEF QueueTypes, DeviceTypes
  <2>2. ClockTypes /\ QueueTypes /\ ControlTypes /\ WorkerTypes /\ DeviceTypes
    OBVIOUS
  <2>3. /\ {active, ready, lastEpoch, held, asked, revision, saw, pass, requests, faults}
             \subseteq Nat
        /\ {recovering, offline, transport, looping, error, recovered, rendering, cancel,
             deviceFailed} \subseteq BOOLEAN
        /\ {to, wto} \subseteq MoveType
    BY DEF ClockTypes, QueueTypes, ControlTypes, WorkerTypes, DeviceTypes
  <2>4. /\ keep \in [resume : BOOLEAN, frame : Nat] /\ response \in {"none", "ok", "error"}
        /\ turn \in {"idle", "events", "closed"}
    BY DEF ControlTypes
  <2>5. /\ length \in Lengths /\ renderResult \in {"none", "ok", "error"}
        /\ dsp \in [active : BOOLEAN, looping : BOOLEAN, generation : Nat, position : Nat,
                    hold : Nat, revision : Nat, cut : BOOLEAN]
        /\ ticket \in [id : Nat, state : {"void", "queued", "serving", "done", "failed"}]
        /\ stage \in {"top", "drain", "rendering", "prefill", "ended"} \cup Exporting
    BY DEF WorkerTypes
  <2>6. /\ cursor \in [epoch : Nat, frame : Nat]
        /\ Len(ring) <= RingSize /\ Len(commands) <= QueueSize /\ Len(events) <= EventSize
        /\ cb \in {"closed", "idle", "drain", "pop", "commit", "finish"}
        /\ heard \in [epoch : Nat, first : Nat, last : Nat, missed : BOOLEAN]
    BY DEF ClockTypes, QueueTypes, DeviceTypes
  <2>. QED
    BY <2>1, <2>3, <2>4, <2>5, <2>6 DEF TypeOK, FrameType, MoveType, Exporting
<1>. QED
  BY <1>1, AudioInductive, PTL

\* Nothing but the order of the messages keeps the control thread and the worker
\* apart while a plugin is asked for its state, its timing or its view: for any
\* sizes of the queues and any number of faults and timeouts, the worker then has
\* no command and does not render (engine.rs:28-34, :98-100).
THEOREM SdkAlwaysExclusive == Spec => []SdkExclusive
<1>1. AudioInv => SdkExclusive
  <2>. SUFFICES ASSUME AudioInv, AtStep("sdk")
                PROVE  commands = <<>> /\ stage \in {"top", "drain", "awaiting", "locking"}
    BY DEF SdkExclusive
  <2>1. CASE script \in Services
    <3>1. ticket.state = "serving"
      BY <2>1 DEF AudioInv, ScriptInv
    <3>2. stage \in {"awaiting", "locking"}
      BY <3>1 DEF AudioInv, TicketInv
    <3>. QED
      BY <3>2 DEF AudioInv, ExportInv, Exporting
  <2>2. CASE script \notin Services
    BY <2>2 DEF AudioInv, PauseInv, Quiet
  <2>. QED
    BY <2>1, <2>2
<1>. QED
  BY <1>1, AudioInductive, PTL
=============================================================================
