------------------------- MODULE EditorExportProofs -------------------------
(***************************************************************************)
(* Two systems, one inside the other, for every value of the constants:    *)
(* every set of workers, updates, tasks and cancellations, every           *)
(* assignment of commands and ids, and every line bound.  Of the           *)
(* supervisor: type correctness, the exclusion of worker processes by the  *)
(* two leases, and the registry with its cancellations; the facts about    *)
(* the leases are those proved of RuntimeAccess, used for both of its      *)
(* instances.  Of the editor export: it runs inside the supervisor's       *)
(* system, so that everything proved there holds beside an export as well; *)
(* and what the window says of the export is true.                         *)
(***************************************************************************)
EXTENDS EditorExport, TLAPS

(* The lease of the runtime and that of the application, for callers of    *)
(* which none is a query: what SyncQuery adds to RuntimeAccess is empty.   *)
RTP  == INSTANCE RuntimeAccessProofs
          WITH Holder <- Caller, access <- rtAccess, guard <- rtGuard,
               Query <- {}, Updater <- {}, QueryCommandOf <- << >>, windows <- FALSE,
               qpc <- << >>, proc <- << >>, helper <- << >>, watchdog <- << >>,
               stopSent <- << >>, told <- << >>, struck <- << >>, result <- << >>
APPP == INSTANCE RuntimeAccessProofs
          WITH Holder <- Caller, access <- appAccess, guard <- appGuard,
               Query <- {}, Updater <- {}, QueryCommandOf <- << >>, windows <- FALSE,
               qpc <- << >>, proc <- << >>, helper <- << >>, watchdog <- << >>,
               stopSent <- << >>, told <- << >>, struck <- << >>, result <- << >>

(* TypeOK without the two leases, whose types RuntimeAccessProofs gives.   *)
LocalTypeOK ==
  /\ pc \in [Worker -> SpawnState \cup SuperState]
  /\ proc \in [Worker -> {"none", "running", "exited"}]
  /\ exitOk \in [Worker -> BOOLEAN]
  /\ tasks \in [Task -> Worker \cup {NoWorker}]
  /\ cancelled \in SUBSET Task
  /\ terminal \in SUBSET Task
  /\ seen \in [Worker -> SUBSET Task]
  /\ held \in [Worker -> [Task -> SUBSET Outcome]]
  /\ drained \in [Worker -> SUBSET Task]
  /\ lines \in [Worker -> 0..MaxLines]
  /\ shown \in [Worker -> [Task -> SUBSET Outcome]]
  /\ cpc \in [Canceller -> CancelState]
  /\ ctask \in [Canceller -> Task]
  /\ cchild \in [Canceller -> Worker \cup {NoWorker}]
  /\ cids \in [Canceller -> SUBSET Task]
  /\ creply \in [Canceller -> BOOLEAN]

LEMMA FiniteCallers == RTP!IsFiniteSet(Caller) /\ APPP!IsFiniteSet(Caller)
  BY CallerAssumption DEF IsFiniteSet, RTP!IsFiniteSet, APPP!IsFiniteSet

(* QueryAssumption of SyncQuery, of no queries.                            *)
LEMMA NoQueries ==
  {} \subseteq Caller /\ {} \subseteq RTP!Other /\ {} \subseteq APPP!Other
  OBVIOUS

(* Telling the windows an outcome keeps their log well-typed.              *)
LEMMA TellType ==
  ASSUME NEW log \in [Task -> SUBSET Outcome], NEW S, NEW o \in Outcome
  PROVE  Tell(log, S, o) \in [Task -> SUBSET Outcome]
  BY DEF Tell

LEMMA LeaseModes == \A w \in Worker : LeaseOf(w) \in {"user", "update", "install"}
<1>. SUFFICES ASSUME NEW w \in Worker PROVE LeaseOf(w) \in {"user", "update", "install"}
  OBVIOUS
<1>1. CommandOf[w] \in BackgroundCommands
  BY CommandAssumption
<1>. QED
  BY <1>1 DEF LeaseOf, RT!LeaseMode, RT!UpdatingCommands, RT!BootstrapCommands, BackgroundCommands

-----------------------------------------------------------------------------
(* Type correctness: one lemma per group of actions.                       *)

LEMMA SpawnType ==
  ASSUME LocalTypeOK, NEW w \in Worker, Begin(w) \/ Spawn(w) \/ ProcessExit(w) \/ EndOfOutput(w)
  PROVE  LocalTypeOK'
<1>. USE DEF LocalTypeOK, SpawnState, SuperState, Goto, superVars, cancelVars
<1>1. CASE Begin(w)
  BY <1>1 DEF Begin
<1>2. CASE ReserveApplication(w)
  BY <1>2 DEF ReserveApplication
<1>3. CASE ReserveRuntime(w)
  BY <1>3 DEF ReserveRuntime
<1>4. CASE CheckIds(w)
  BY <1>4 DEF CheckIds
<1>5. CASE Launch(w)
  BY <1>5 DEF Launch
<1>6. CASE Register(w)
  BY <1>6 DEF Register
<1>7. CASE ProcessExit(w)
  BY <1>7 DEF ProcessExit
<1>8. CASE EndOfOutput(w)
  BY <1>8 DEF EndOfOutput
<1>. QED
  BY <1>1, <1>2, <1>3, <1>4, <1>5, <1>6, <1>7, <1>8 DEF Spawn

LEMMA ReadType ==
  ASSUME LocalTypeOK, NEW w \in Worker, Read(w)
  PROVE  LocalTypeOK'
<1>. USE DEF LocalTypeOK, superVars, cancelVars
<1>1. ASSUME NEW S \in SUBSET Task, NEW o \in Outcome, ReadTerminal(w, S, o)
      PROVE  LocalTypeOK'
  <2>1. /\ Tell(held[w], S, o) \in [Task -> SUBSET Outcome]
        /\ Tell(shown[w], S, o) \in [Task -> SUBSET Outcome]
    BY TellType
  <2>2. held' \in [Worker -> [Task -> SUBSET Outcome]] /\ shown' \in [Worker -> [Task -> SUBSET Outcome]]
    BY <1>1, <2>1 DEF ReadTerminal, TellOrHold
  <2>3. lines' \in [Worker -> 0..MaxLines]
    BY <1>1, MaxLinesAssumption DEF ReadTerminal, ReadLine
  <2>. QED
    BY <1>1, <2>2, <2>3 DEF ReadTerminal, ReadLine
<1>2. CASE ReadMalformed(w)
  <2>1. Tell(shown[w], IdsOf[w], "error") \in [Task -> SUBSET Outcome]
    BY TellType DEF Outcome
  <2>2. lines' \in [Worker -> 0..MaxLines]
    BY <1>2, MaxLinesAssumption DEF ReadMalformed, ReadLine
  <2>. QED
    BY <1>2, <2>1, <2>2, IdsAssumption DEF ReadMalformed, ReadLine
<1>3. \A t \in IdsOf[w] : {t} \in SUBSET Task
  BY IdsAssumption
<1>4. IdsOf[w] \in SUBSET Task
  BY IdsAssumption
<1>5. "error" \in Outcome
  BY DEF Outcome
<1>. QED
  BY <1>1, <1>2, <1>3, <1>4, <1>5 DEF Read

LEMMA WindDownType ==
  ASSUME LocalTypeOK, NEW w \in Worker, WindDown(w)
  PROVE  LocalTypeOK'
<1>. USE DEF LocalTypeOK, SpawnState, SuperState, Goto, superVars, cancelVars
<1>1. CASE WaitForExit(w)
  BY <1>1 DEF WaitForExit
<1>2. CASE DropRuntime(w)
  BY <1>2 DEF DropRuntime
<1>3. CASE DropApplication(w)
  BY <1>3 DEF DropApplication
<1>4. CASE Flush(w)
  <2>1. [t \in Task |-> shown[w][t] \cup held[w][t]] \in [Task -> SUBSET Outcome]
    OBVIOUS
  <2>2. Nothing \in [Task -> SUBSET Outcome]
    BY DEF Nothing
  <2>3. held' \in [Worker -> [Task -> SUBSET Outcome]] /\ shown' \in [Worker -> [Task -> SUBSET Outcome]]
    BY <1>4, <2>1, <2>2 DEF Flush
  <2>4. drained' \in [Worker -> SUBSET Task] /\ cancelled' \in SUBSET Task
    BY <1>4, IdsAssumption DEF Flush
  <2>. QED
    BY <1>4, <2>3, <2>4 DEF Flush
<1>5. CASE Settle(w)
  <2>. DEFINE ack == IF IsPlugin(w) THEN DrainedTwice(w) ELSE {}
              known == seen[w] \cup drained[w] \cup (IdsOf[w] \cap cancelled)
              missing == IF QuietExit(w) THEN {} ELSE IdsOf[w] \ known
  <2>1. Tell(shown[w], ack, "cancelled") \in [Task -> SUBSET Outcome]
    BY TellType DEF Outcome
  <2>2. Tell(Tell(shown[w], ack, "cancelled"), missing, "error") \in [Task -> SUBSET Outcome]
    BY <2>1, TellType DEF Outcome
  <2>3. known \in SUBSET Task
    BY IdsAssumption
  <2>4. /\ shown' = [shown EXCEPT ![w] = Tell(Tell(shown[w], ack, "cancelled"), missing, "error")]
        /\ seen' = [seen EXCEPT ![w] = known]
    BY <1>5 DEF Settle, SettleAs
  <2>5. shown' \in [Worker -> [Task -> SUBSET Outcome]] /\ seen' \in [Worker -> SUBSET Task]
    BY <2>2, <2>3, <2>4
  <2>. QED
    BY <1>5, <2>5 DEF Settle, SettleAs
<1>6. CASE Unregister(w)
  BY <1>6 DEF Unregister
<1>7. CASE Unmark(w)
  BY <1>7 DEF Unmark
<1>. QED
  BY <1>1, <1>2, <1>3, <1>4, <1>5, <1>6, <1>7 DEF WindDown

(* A canceller that has got past TakeEntry knows the child it cancels.     *)
ChildKnown ==
  \A c \in Canceller :
    cpc[c] \in {"linking", "marking", "killing", "telling"} \/ creply[c]
      => cchild[c] \in Worker

LEMMA CancelType ==
  ASSUME LocalTypeOK, ChildKnown, NEW c \in Canceller, CheckTerminal(c) \/ Cancel(c)
  PROVE  LocalTypeOK' /\ ChildKnown'
<1>. USE DEF LocalTypeOK, ChildKnown, CancelState, CGoto, superVars, cancelVars
<1>1. CASE CheckTerminal(c)
  BY <1>1 DEF CheckTerminal
<1>2. CASE TakeEntry(c)
  <2>1. CASE tasks[ctask[c]] = NoWorker
    BY <1>2, <2>1 DEF TakeEntry
  <2>2. CASE tasks[ctask[c]] # NoWorker
    <3>1. tasks[ctask[c]] \in Worker /\ ctask[c] \in Task
      BY <2>2
    <3>2. /\ tasks' = [tasks EXCEPT ![ctask[c]] = NoWorker]
          /\ cchild' = [cchild EXCEPT ![c] = tasks[ctask[c]]]
          /\ cids' = [cids EXCEPT ![c] = {ctask[c]}]
          /\ cpc' = [cpc EXCEPT ![c] = "linking"]
          /\ UNCHANGED <<pc, proc, exitOk, cancelled, terminal, superVars, shown, ctask, creply>>
      BY <1>2, <2>2 DEF TakeEntry
    <3>3. /\ tasks' \in [Task -> Worker \cup {NoWorker}]
          /\ cchild' \in [Canceller -> Worker \cup {NoWorker}]
          /\ cids' \in [Canceller -> SUBSET Task]
          /\ cpc' \in [Canceller -> CancelState]
      BY <3>1, <3>2
    <3>4. ChildKnown'
      BY <3>1, <3>2
    <3>. QED
      BY <3>2, <3>3, <3>4
  <2>. QED
    BY <2>1, <2>2
<1>3. CASE TakeLinked(c)
  BY <1>3 DEF TakeLinked
<1>4. CASE MarkCancelled(c)
  BY <1>4 DEF MarkCancelled
<1>5. CASE Terminate(c)
  BY <1>5 DEF Terminate
<1>6. CASE Announce(c)
  <2>. DEFINE ids == IF IsPlugin(cchild[c]) THEN {} ELSE cids[c]
  <2>1. cchild[c] \in Worker
    BY <1>6 DEF Announce
  <2>2. Tell(shown[cchild[c]], ids, "cancelled") \in [Task -> SUBSET Outcome]
    BY <2>1, TellType DEF Outcome
  <2>3. shown' = [shown EXCEPT ![cchild[c]] = Tell(shown[cchild[c]], ids, "cancelled")]
    BY <1>6 DEF Announce
  <2>. QED
    BY <1>6, <2>1, <2>2, <2>3 DEF Announce
<1>. QED
  BY <1>1, <1>2, <1>3, <1>4, <1>5, <1>6 DEF Cancel

(* What a step that is none of a canceller's leaves alone.                 *)
LEMMA CancellersApart ==
  ASSUME ChildKnown, UNCHANGED cancelVars
  PROVE  ChildKnown'
  BY DEF ChildKnown, cancelVars

LEMMA LocalTypeStep == LocalTypeOK /\ ChildKnown /\ [Next]_vars => LocalTypeOK' /\ ChildKnown'
<1>. SUFFICES ASSUME LocalTypeOK, ChildKnown, [Next]_vars
              PROVE  LocalTypeOK' /\ ChildKnown'
  OBVIOUS
<1>1. ASSUME NEW w \in Worker, Begin(w) \/ Spawn(w) \/ ProcessExit(w) \/ EndOfOutput(w)
      PROVE  LocalTypeOK' /\ ChildKnown'
  <2>1. UNCHANGED cancelVars
    BY <1>1 DEF Begin, Spawn, ReserveApplication, ReserveRuntime, CheckIds, Launch,
                Register, ProcessExit, EndOfOutput
  <2>. QED
    BY <1>1, <2>1, SpawnType, CancellersApart
<1>2. ASSUME NEW w \in Worker, Read(w)
      PROVE  LocalTypeOK' /\ ChildKnown'
  <2>1. UNCHANGED cancelVars
    BY <1>2 DEF Read, ReadTerminal, ReadMalformed, ReadLine
  <2>. QED
    BY <1>2, <2>1, ReadType, CancellersApart
<1>3. ASSUME NEW w \in Worker, WindDown(w)
      PROVE  LocalTypeOK' /\ ChildKnown'
  <2>1. UNCHANGED cancelVars
    BY <1>3 DEF WindDown, WaitForExit, DropRuntime, DropApplication, Flush, Settle,
                SettleAs, Unregister, Unmark
  <2>. QED
    BY <1>3, <2>1, WindDownType, CancellersApart
<1>4. ASSUME NEW c \in Canceller, CheckTerminal(c) \/ Cancel(c)
      PROVE  LocalTypeOK' /\ ChildKnown'
  BY <1>4, CancelType
<1>5. ASSUME NEW u \in Updater, UpdateBegin(u) \/ UpdateAbandon(u)
      PROVE  LocalTypeOK' /\ ChildKnown'
  BY <1>5 DEF UpdateBegin, UpdateAbandon, LocalTypeOK, ChildKnown, superVars, cancelVars
<1>6. CASE UNCHANGED vars
  BY <1>6 DEF vars, LocalTypeOK, ChildKnown, superVars, cancelVars
<1>. QED
  BY <1>1, <1>2, <1>3, <1>4, <1>5, <1>6 DEF Next

LEMMA LocalTypeInit == Init => LocalTypeOK /\ ChildKnown
<1>1. Nothing \in [Task -> SUBSET Outcome]
  BY DEF Nothing
<1>. QED
  BY <1>1, MaxLinesAssumption
     DEF Init, LocalTypeOK, ChildKnown, SpawnState, SuperState, CancelState

-----------------------------------------------------------------------------
(* The supervisors use the two leases as RuntimeAccess describes.          *)

LEMMA RuntimeLeaseStep == [Next]_vars => [RTP!Next]_(RTP!accessVars)
<1>. SUFFICES ASSUME [Next]_vars PROVE [RTP!Next]_(RTP!accessVars)
  OBVIOUS
<1>1. ASSUME NEW w \in Worker, RT!Acquire(w, LeaseOf(w)) PROVE RTP!Next
  <2>1. RTP!Acquire(w, LeaseOf(w)) /\ LeaseOf(w) \in RTP!Mode
    BY <1>1 DEF RT!Acquire, RTP!Acquire, RT!Busy, RTP!Busy, RT!Mode, RTP!Mode
  <2>. QED
    BY <2>1 DEF RTP!Next, Caller
<1>2. ASSUME NEW w \in Worker, RT!Release(w) PROVE RTP!Next
  <2>1. RTP!Release(w)
    BY <1>2 DEF RT!Release, RTP!Release
  <2>. QED
    BY <2>1 DEF RTP!Next, Caller
<1>3. \/ UNCHANGED <<rtAccess, rtGuard>>
      \/ \E w \in Worker : RT!Acquire(w, LeaseOf(w)) \/ RT!Release(w)
  BY DEF Next, vars, leaseVars, Begin, Spawn, ReserveApplication, ReserveRuntime,
         CheckIds, Launch, Register, ProcessExit, EndOfOutput, Read, ReadTerminal, ReadMalformed,
         ReadLine, WindDown, WaitForExit, DropRuntime, DropApplication, Flush, Settle,
         SettleAs, Unregister, Unmark, CheckTerminal, Cancel, TakeEntry, TakeLinked,
         MarkCancelled, Terminate, Announce, UpdateBegin, UpdateAbandon
<1>. QED
  BY <1>1, <1>2, <1>3 DEF RTP!accessVars

LEMMA ApplicationLeaseStep == [Next]_vars => [APPP!Next]_(APPP!accessVars)
<1>. SUFFICES ASSUME [Next]_vars PROVE [APPP!Next]_(APPP!accessVars)
  OBVIOUS
<1>1. ASSUME NEW h \in Caller, NEW m \in {"user", "update"}, APP!Acquire(h, m)
      PROVE  APPP!Next
  <2>1. APPP!Acquire(h, m) /\ m \in APPP!Mode
    BY <1>1 DEF APP!Acquire, APPP!Acquire, APP!Busy, APPP!Busy, APP!Mode, APPP!Mode
  <2>. QED
    BY <2>1 DEF APPP!Next
<1>2. ASSUME NEW h \in Caller, APP!Release(h) PROVE APPP!Next
  <2>1. APPP!Release(h)
    BY <1>2 DEF APP!Release, APPP!Release
  <2>. QED
    BY <2>1 DEF APPP!Next
<1>3. \/ UNCHANGED <<appAccess, appGuard>>
      \/ \E w \in Worker : APP!Acquire(w, "user") \/ APP!Release(w)
      \/ \E u \in Updater : APP!Acquire(u, "update") \/ APP!Release(u)
  BY DEF Next, vars, leaseVars, Begin, Spawn, ReserveApplication, ReserveRuntime,
         CheckIds, Launch, Register, ProcessExit, EndOfOutput, Read, ReadTerminal, ReadMalformed,
         ReadLine, WindDown, WaitForExit, DropRuntime, DropApplication, Flush, Settle,
         SettleAs, Unregister, Unmark, CheckTerminal, Cancel, TakeEntry, TakeLinked,
         MarkCancelled, Terminate, Announce, UpdateBegin, UpdateAbandon
<1>. QED
  BY <1>1, <1>2, <1>3 DEF APPP!accessVars, Caller

LEMMA LeasesRefined == Spec => RTP!Spec /\ APPP!Spec
<1>1. Init => RTP!Init /\ APPP!Init
  BY DEF Init, RT!Init, RTP!Init, APP!Init, APPP!Init
<1>. QED
  BY <1>1, RuntimeLeaseStep, ApplicationLeaseStep, PTL DEF Spec, RTP!Spec, APPP!Spec

(* Both leases have well-typed counters and guards and exclude as promised. *)
LeasesOK ==
  /\ RTP!TypeOK /\ RTP!Lease!Exclusion
  /\ APPP!TypeOK /\ APPP!Lease!Exclusion

LEMMA LeasesAlwaysOK == Spec => []LeasesOK
  BY LeasesRefined, FiniteCallers, NoQueries, RTP!TypeCorrect, RTP!LeasesExclude,
     APPP!TypeCorrect, APPP!LeasesExclude, PTL DEF LeasesOK

(* Every variable keeps its type in every reachable state.                 *)
THEOREM TypeCorrect == Spec => []TypeOK
<1>1. LocalTypeOK /\ LeasesOK => TypeOK
  BY DEF LocalTypeOK, LeasesOK, TypeOK, RT!TypeOK, RTP!TypeOK, RT!Mode, RTP!Mode,
         APP!TypeOK, APPP!TypeOK, APP!Mode, APPP!Mode
<1>2. Spec => [](LocalTypeOK /\ ChildKnown)
  BY LocalTypeInit, LocalTypeStep, PTL DEF Spec
<1>. QED
  BY <1>1, <1>2, LeasesAlwaysOK, PTL

-----------------------------------------------------------------------------
(* From the guards to the processes they protect.  A spawn call, and the   *)
(* supervisor after it, owns the application guard from its acquisition to *)
(* the end of DropApplication and the runtime guard up to DropRuntime; a   *)
(* process runs only in between.                                           *)
HoldsApplication ==
  {"app", "leased", "checked", "launched", "reading", "waiting", "closing", "runtimeFree"}
HoldsRuntime == {"leased", "checked", "launched", "reading", "waiting"}

LeaseLink ==
  \A w \in Worker :
    /\ pc[w] \in HoldsApplication => appGuard[w] = "user"
    /\ pc[w] \in HoldsRuntime => rtGuard[w] = LeaseOf(w)
    /\ Running(w) => pc[w] \in {"launched", "reading", "waiting"}
    /\ pc[w] \in {"launched", "reading", "waiting"} => proc[w] # "none"

LEMMA SpawnLink ==
  ASSUME LocalTypeOK, LeasesOK, LeaseLink, NEW w \in Worker,
         Begin(w) \/ Spawn(w) \/ ProcessExit(w) \/ EndOfOutput(w)
  PROVE  LeaseLink'
<1>. USE DEF LocalTypeOK, LeaseLink, Running, HoldsApplication, HoldsRuntime, Goto, leaseVars
<1>0. rtGuard \in [Caller -> RTP!Mode \cup {"none"}] /\ appGuard \in [Caller -> APPP!Mode \cup {"none"}]
  BY DEF LeasesOK, RTP!TypeOK, APPP!TypeOK
<1>1. CASE Begin(w)
  BY <1>1 DEF Begin
<1>2. CASE ReserveApplication(w)
  <2>1. CASE APP!Acquire(w, "user") /\ Goto(w, "app")
    <3>1. appGuard' = [appGuard EXCEPT ![w] = "user"]
      BY <2>1 DEF APP!Acquire
    <3>. QED
      BY <1>0, <1>2, <2>1, <3>1 DEF ReserveApplication, Caller
  <2>2. CASE APP!Busy("user") /\ Goto(w, "refused") /\ UNCHANGED <<appAccess, appGuard>>
    BY <1>2, <2>2 DEF ReserveApplication
  <2>. QED
    BY <1>2, <2>1, <2>2 DEF ReserveApplication
<1>3. CASE ReserveRuntime(w)
  <2>1. CASE RT!Acquire(w, LeaseOf(w)) /\ Goto(w, "leased")
    <3>1. rtGuard' = [rtGuard EXCEPT ![w] = LeaseOf(w)]
      BY <2>1 DEF RT!Acquire
    <3>. QED
      BY <1>0, <1>3, <2>1, <3>1 DEF ReserveRuntime, Caller
  <2>2. CASE RT!Busy(LeaseOf(w)) /\ Goto(w, "closing") /\ UNCHANGED <<rtAccess, rtGuard>>
    BY <1>3, <2>2 DEF ReserveRuntime
  <2>. QED
    BY <1>3, <2>1, <2>2 DEF ReserveRuntime
<1>4. CASE CheckIds(w)
  BY <1>4 DEF CheckIds
<1>5. CASE Launch(w)
  BY <1>5 DEF Launch
<1>6. CASE Register(w)
  BY <1>6 DEF Register
<1>7. CASE ProcessExit(w)
  BY <1>7 DEF ProcessExit
<1>8. CASE EndOfOutput(w)
  BY <1>8 DEF EndOfOutput
<1>. QED
  BY <1>1, <1>2, <1>3, <1>4, <1>5, <1>6, <1>7, <1>8 DEF Spawn

LEMMA WindDownLink ==
  ASSUME LocalTypeOK, LeasesOK, LeaseLink, NEW w \in Worker, WindDown(w)
  PROVE  LeaseLink'
<1>. USE DEF LocalTypeOK, LeaseLink, Running, HoldsApplication, HoldsRuntime, Goto, leaseVars
<1>0. rtGuard \in [Caller -> RTP!Mode \cup {"none"}] /\ appGuard \in [Caller -> APPP!Mode \cup {"none"}]
  BY DEF LeasesOK, RTP!TypeOK, APPP!TypeOK
<1>1. CASE WaitForExit(w)
  BY <1>1 DEF WaitForExit
<1>2. CASE DropRuntime(w)
  <2>1. rtGuard' = rtGuard \/ rtGuard' = [rtGuard EXCEPT ![w] = "none"]
    BY <1>2 DEF DropRuntime, RT!Release
  <2>. QED
    BY <1>0, <1>2, <2>1 DEF DropRuntime, Caller
<1>3. CASE DropApplication(w)
  <2>1. appGuard' = [appGuard EXCEPT ![w] = "none"]
    BY <1>3 DEF DropApplication, APP!Release
  <2>. QED
    BY <1>0, <1>3, <2>1 DEF DropApplication, Caller
<1>4. CASE Flush(w)
  BY <1>4 DEF Flush
<1>5. CASE Settle(w)
  BY <1>5 DEF Settle, SettleAs
<1>6. CASE Unregister(w)
  BY <1>6 DEF Unregister
<1>7. CASE Unmark(w)
  BY <1>7 DEF Unmark
<1>. QED
  BY <1>1, <1>2, <1>3, <1>4, <1>5, <1>6, <1>7 DEF WindDown

LEMMA CancelLink ==
  ASSUME LocalTypeOK, LeaseLink, NEW c \in Canceller, CheckTerminal(c) \/ Cancel(c)
  PROVE  LeaseLink'
<1>. USE DEF LocalTypeOK, LeaseLink, Running, leaseVars
<1>1. CASE Terminate(c)
  <2>1. UNCHANGED <<pc, appGuard, rtGuard>> /\ proc' = [proc EXCEPT ![cchild[c]] = "exited"]
    BY <1>1 DEF Terminate
  <2>. QED
    BY <2>1
<1>2. CASE CheckTerminal(c) \/ TakeEntry(c) \/ TakeLinked(c) \/ MarkCancelled(c) \/ Announce(c)
  BY <1>2 DEF CheckTerminal, TakeEntry, TakeLinked, MarkCancelled, Announce
<1>. QED
  BY <1>1, <1>2 DEF Cancel

LEMMA LeaseLinkStep == LocalTypeOK /\ LeasesOK /\ LeaseLink /\ [Next]_vars => LeaseLink'
<1>. SUFFICES ASSUME LocalTypeOK, LeasesOK, LeaseLink, [Next]_vars PROVE LeaseLink'
  OBVIOUS
<1>1. ASSUME NEW w \in Worker, Begin(w) \/ Spawn(w) \/ ProcessExit(w) \/ EndOfOutput(w) PROVE LeaseLink'
  BY <1>1, SpawnLink
<1>2. ASSUME NEW w \in Worker, Read(w) PROVE LeaseLink'
  BY <1>2 DEF Read, ReadTerminal, ReadMalformed, ReadLine, LeaseLink, Running, leaseVars
<1>3. ASSUME NEW w \in Worker, WindDown(w) PROVE LeaseLink'
  BY <1>3, WindDownLink
<1>4. ASSUME NEW c \in Canceller, CheckTerminal(c) \/ Cancel(c) PROVE LeaseLink'
  BY <1>4, CancelLink
<1>5. ASSUME NEW u \in Updater, UpdateBegin(u) \/ UpdateAbandon(u) PROVE LeaseLink'
  <2>1. /\ UNCHANGED <<rtGuard, pc, proc>>
        /\ \E m \in {"update", "none"} : appGuard' = [appGuard EXCEPT ![u] = m]
    BY <1>5 DEF UpdateBegin, UpdateAbandon, APP!Acquire, APP!Release
  <2>2. u \notin Worker
    BY CallerAssumption
  <2>3. \A w \in Worker : appGuard'[w] = appGuard[w]
    BY <2>1, <2>2 DEF LeasesOK, APPP!TypeOK, Caller
  <2>. QED
    BY <2>1, <2>3 DEF LeaseLink, Running
<1>6. CASE UNCHANGED vars
  BY <1>6 DEF vars, leaseVars, LeaseLink, Running
<1>. QED
  BY <1>1, <1>2, <1>3, <1>4, <1>5, <1>6 DEF Next

LEMMA LeaseLinkAlways == Spec => [](LocalTypeOK /\ ChildKnown /\ LeasesOK /\ LeaseLink)
<1>1. Init => LeaseLink
  BY DEF Init, LeaseLink, Running, HoldsApplication, HoldsRuntime
<1>. QED
  BY <1>1, LocalTypeInit, LocalTypeStep, LeasesAlwaysOK, LeaseLinkStep, PTL DEF Spec

(* Worker processes on the Python runtime exclude each other as their      *)
(* leases do: the property RuntimeExclusion of WorkerSupervisor.           *)
THEOREM RuntimeAlwaysExclusive == Spec => []RuntimeExclusion
<1>1. LeasesOK /\ LeaseLink => RuntimeExclusion
  <2>. SUFFICES ASSUME LeasesOK, LeaseLink, NEW v \in Worker, NEW w \in Worker,
                       v # w, Running(v), Running(w)
                PROVE  Compatible(LeaseOf(v), LeaseOf(w))
    BY DEF RuntimeExclusion
  <2>1. rtGuard[v] = LeaseOf(v) /\ rtGuard[w] = LeaseOf(w)
    BY DEF LeaseLink, HoldsRuntime
  <2>2. rtGuard[v] # "none" /\ rtGuard[w] # "none"
    BY <2>1, LeaseModes
  <2>3. RTP!Lease!Compatible(rtGuard[v], rtGuard[w])
    BY <2>2 DEF LeasesOK, RTP!Lease!Exclusion, Caller
  <2>. QED
    BY <2>1, <2>3 DEF RTP!Lease!Compatible, Compatible
<1>. QED
  BY <1>1, LeaseLinkAlways, PTL

(* No worker process lives while an application update owns the bundle.    *)
THEOREM UpdateAlwaysAlone == Spec => []UpdateAlone
<1>1. LeasesOK /\ LeaseLink => UpdateAlone
  <2>. SUFFICES ASSUME LeasesOK, LeaseLink, NEW u \in Updater, appGuard[u] = "update",
                       NEW w \in Worker, Running(w)
                PROVE  FALSE
    BY DEF UpdateAlone
  <2>1. appGuard[w] = "user"
    BY DEF LeaseLink, HoldsApplication
  <2>2. u # w
    BY CallerAssumption
  <2>3. APPP!Lease!Compatible(appGuard[u], appGuard[w])
    BY <2>1, <2>2 DEF LeasesOK, APPP!Lease!Exclusion, Caller
  <2>. QED
    BY <2>1, <2>3 DEF APPP!Lease!Compatible
<1>. QED
  BY <1>1, LeaseLinkAlways, PTL

-----------------------------------------------------------------------------
(* The task registry and terminal_tasks refer only to supervisors that     *)
(* will clean up after themselves, and an accepted cancellation takes the  *)
(* whole batch and leaves a dead process.                                  *)


(* A supervisor that has started reading and has not ended.  DropApplication *)
(* ends a spawn that never had a process, hence the last conjunct.         *)
Supervised(w, states) == w \in Worker /\ pc[w] \in states /\ proc[w] # "none"

Registered == SuperState \ {"unmark", "ended"}
Marking    == SuperState \ {"ended"}

RegistryInv ==
  \A t \in Task :
    tasks[t] # NoWorker => t \in IdsOf[tasks[t]] /\ Supervised(tasks[t], Registered)

MarksInv ==
  \A t \in terminal : \E w \in Worker : t \in IdsOf[w] /\ Supervised(w, Marking)

CancelInv ==
  \A c \in Canceller :
    /\ cpc[c] \in {"linking", "marking", "killing", "telling"} \/ creply[c]
         => Supervised(cchild[c], SuperState)
    /\ cpc[c] \in {"marking", "killing", "telling"} \/ creply[c]
         => \A t \in Task : tasks[t] # cchild[c]
    /\ cpc[c] = "telling" \/ creply[c] => proc[cchild[c]] = "exited"
    /\ creply[c] => cpc[c] = "returned"

Inv == LocalTypeOK /\ ChildKnown /\ LeaseLink /\ RegistryInv /\ MarksInv /\ CancelInv

-----------------------------------------------------------------------------
(* Steps that neither touch the registry nor the marks keep them as long   *)
(* as supervisors stay supervised.                                         *)
LEMMA SupervisedStay ==
  ASSUME Inv, NEW w \in Worker,
         Begin(w) \/ Spawn(w) \/ ProcessExit(w) \/ EndOfOutput(w) \/ Read(w)
           \/ WaitForExit(w) \/ DropRuntime(w) \/ DropApplication(w) \/ Flush(w)
           \/ Settle(w)
  PROVE  \A v \in Worker, states \in {Registered, Marking, SuperState} :
           Supervised(v, states) => Supervised(v, states)'
<1>. USE DEF Inv, LocalTypeOK, Supervised, Registered, Marking, SuperState, Goto, superVars
<1>1. CASE Begin(w)
  BY <1>1 DEF Begin
<1>2. CASE ReserveApplication(w) \/ ReserveRuntime(w) \/ CheckIds(w)
  BY <1>2 DEF ReserveApplication, ReserveRuntime, CheckIds
<1>3. CASE Launch(w)
  BY <1>3 DEF Launch
<1>4. CASE Register(w)
  BY <1>4 DEF Register
<1>5. CASE ProcessExit(w)
  BY <1>5 DEF ProcessExit
<1>6. CASE Read(w)
  BY <1>6 DEF Read, ReadTerminal, ReadMalformed, ReadLine
<1>7. CASE WaitForExit(w)
  BY <1>7 DEF WaitForExit
<1>8. CASE DropRuntime(w)
  BY <1>8 DEF DropRuntime
<1>9. CASE DropApplication(w)
  BY <1>9 DEF DropApplication
<1>10. CASE Flush(w)
  BY <1>10 DEF Flush
<1>11. CASE Settle(w)
  BY <1>11 DEF Settle, SettleAs
<1>12. CASE EndOfOutput(w)
  BY <1>12 DEF EndOfOutput
<1>. QED
  BY <1>1, <1>2, <1>3, <1>4, <1>5, <1>6, <1>7, <1>8, <1>9, <1>10, <1>11, <1>12 DEF Spawn

(* A process that has exited stays exited: it is never launched again.     *)
LEMMA ExitedStay ==
  ASSUME Inv, [Next]_vars, NEW v \in Worker, proc[v] = "exited", pc[v] \in SuperState
  PROVE  proc'[v] = "exited"
<1>1. ASSUME NEW w \in Worker, Launch(w) PROVE proc'[v] = "exited"
  BY <1>1 DEF Inv, LocalTypeOK, Launch, SuperState
<1>2. ASSUME NEW w \in Worker, ProcessExit(w) PROVE proc'[v] = "exited"
  BY <1>2 DEF Inv, LocalTypeOK, ProcessExit
<1>3. ASSUME NEW c \in Canceller, Terminate(c) PROVE proc'[v] = "exited"
  BY <1>3 DEF Inv, LocalTypeOK, Terminate
<1>. QED
  BY <1>1, <1>2, <1>3
     DEF Next, vars, Begin, Spawn, ReserveApplication, ReserveRuntime, CheckIds,
         Register, EndOfOutput, Read, ReadTerminal, ReadMalformed, ReadLine, WindDown, WaitForExit,
         DropRuntime, DropApplication, Flush, Settle, SettleAs, Unregister, Unmark,
         CheckTerminal, Cancel, TakeEntry, TakeLinked, MarkCancelled, Announce,
         UpdateBegin, UpdateAbandon

(* Steps of spawn calls and supervisors before the clean-up of the registry. *)
LEMMA QuietStep ==
  ASSUME Inv, [Next]_vars, NEW w \in Worker,
         Begin(w) \/ Spawn(w) \/ ProcessExit(w) \/ EndOfOutput(w) \/ Read(w)
           \/ WaitForExit(w) \/ DropRuntime(w) \/ DropApplication(w) \/ Flush(w)
           \/ Settle(w),
         ~Register(w)
  PROVE  RegistryInv' /\ CancelInv'
<1>1. UNCHANGED <<tasks, cancelVars>>
  BY DEF Begin, Spawn, ReserveApplication, ReserveRuntime, CheckIds, Launch, ProcessExit,
         EndOfOutput, Read, ReadTerminal, ReadMalformed, ReadLine, WaitForExit, DropRuntime,
         DropApplication, Flush, Settle, SettleAs
<1>2. RegistryInv'
  BY <1>1, SupervisedStay DEF Inv, RegistryInv, LocalTypeOK
<1>3. CancelInv'
  BY <1>1, SupervisedStay, ExitedStay DEF Inv, CancelInv, Supervised, cancelVars
<1>. QED
  BY <1>2, <1>3

LEMMA RegisterStep ==
  ASSUME Inv, [Next]_vars, NEW w \in Worker, Register(w)
  PROVE  RegistryInv' /\ CancelInv'
<1>1. /\ pc[w] = "launched" /\ pc' = [pc EXCEPT ![w] = "reading"]
      /\ tasks' = [t \in Task |-> IF t \in IdsOf[w] THEN w ELSE tasks[t]]
      /\ UNCHANGED <<proc, cancelVars>>
  BY DEF Register, Goto
<1>2. proc[w] # "none"
  BY <1>1 DEF Inv, LeaseLink
<1>3. Supervised(w, Registered)'
  BY <1>1, <1>2 DEF Inv, LocalTypeOK, Supervised, Registered, SuperState
<1>4. \A v \in Worker, states \in {Registered, Marking, SuperState} :
        Supervised(v, states) => Supervised(v, states)'
  BY SupervisedStay DEF Spawn
<1>5. RegistryInv'
  BY <1>1, <1>3, <1>4 DEF Inv, RegistryInv, LocalTypeOK
<1>6. ~Supervised(w, SuperState)
  BY <1>1 DEF Supervised, SuperState
<1>7. CancelInv'
  BY <1>1, <1>4, <1>6 DEF Inv, CancelInv, Supervised, cancelVars
<1>. QED
  BY <1>5, <1>7

(* The marks: only reading adds to them, only Unmark removes.              *)
LEMMA MarksStep ==
  ASSUME Inv, NEW w \in Worker,
         Begin(w) \/ Spawn(w) \/ ProcessExit(w) \/ EndOfOutput(w) \/ Read(w)
           \/ WaitForExit(w) \/ DropRuntime(w) \/ DropApplication(w) \/ Flush(w)
           \/ Settle(w)
  PROVE  MarksInv'
<1>1. \A t \in terminal' \ terminal : t \in IdsOf[w] /\ pc[w] = "reading"
  BY DEF Begin, Spawn, ReserveApplication, ReserveRuntime, CheckIds, Launch, Register,
         ProcessExit, EndOfOutput, Read, ReadTerminal, ReadMalformed, ReadLine, WaitForExit,
         DropRuntime, DropApplication, Flush, Settle, SettleAs
<1>2. pc[w] = "reading" => Supervised(w, Marking)
  BY DEF Inv, LeaseLink, Supervised, Marking, SuperState
<1>3. \A v \in Worker : Supervised(v, Marking) => Supervised(v, Marking)'
  BY SupervisedStay
<1>. QED
  BY <1>1, <1>2, <1>3 DEF Inv, MarksInv

LEMMA CleanUpStep ==
  ASSUME Inv, [Next]_vars, NEW w \in Worker, Unregister(w) \/ Unmark(w)
  PROVE  RegistryInv' /\ MarksInv' /\ CancelInv'
<1>. USE DEF Inv, LocalTypeOK, Supervised, Registered, Marking, SuperState, Goto, superVars,
             cancelVars
<1>1. CASE Unregister(w)
  <2>1. RegistryInv'
    BY <1>1 DEF Unregister, RegistryInv
  <2>2. MarksInv'
    BY <1>1 DEF Unregister, MarksInv
  <2>3. CancelInv'
    BY <1>1, NoWorkerAssumption DEF Unregister, CancelInv
  <2>. QED
    BY <2>1, <2>2, <2>3
<1>2. CASE Unmark(w)
  <2>1. RegistryInv'
    BY <1>2 DEF Unmark, RegistryInv
  <2>2. MarksInv'
    BY <1>2 DEF Unmark, MarksInv
  <2>3. CancelInv'
    BY <1>2 DEF Unmark, CancelInv
  <2>. QED
    BY <2>1, <2>2, <2>3
<1>. QED
  BY <1>1, <1>2

LEMMA CancelStep ==
  ASSUME Inv, NEW c \in Canceller, CheckTerminal(c) \/ Cancel(c)
  PROVE  RegistryInv' /\ MarksInv' /\ CancelInv'
<1>. USE DEF Inv, LocalTypeOK, ChildKnown, Supervised, CGoto, superVars
<1>1. CASE CheckTerminal(c)
  BY <1>1 DEF CheckTerminal, RegistryInv, MarksInv, CancelInv
<1>2. CASE TakeEntry(c)
  <2>1. RegistryInv' /\ MarksInv'
    BY <1>2 DEF TakeEntry, RegistryInv, MarksInv
  <2>2. \A t \in Task : tasks[t] # NoWorker => Supervised(tasks[t], SuperState)
    BY DEF RegistryInv, Registered
  <2>3. ASSUME tasks[ctask[c]] = NoWorker PROVE CancelInv'
    <3>1. /\ cpc[c] = "checked" /\ cpc' = [cpc EXCEPT ![c] = "returned"]
          /\ UNCHANGED <<pc, proc, tasks, cchild, creply>>
      BY <1>2, <2>3 DEF TakeEntry
    <3>2. ~creply[c]
      BY <3>1 DEF CancelInv
    <3>. QED
      BY <3>1, <3>2 DEF CancelInv
  <2>4. ASSUME tasks[ctask[c]] # NoWorker PROVE CancelInv'
    <3>1. Supervised(tasks[ctask[c]], SuperState) /\ ctask[c] \in Task
      BY <2>2, <2>4
    <3>2. /\ tasks' = [tasks EXCEPT ![ctask[c]] = NoWorker]
          /\ cchild' = [cchild EXCEPT ![c] = tasks[ctask[c]]]
          /\ cpc[c] = "checked" /\ cpc' = [cpc EXCEPT ![c] = "linking"]
          /\ UNCHANGED <<pc, proc, creply>>
      BY <1>2, <2>4 DEF TakeEntry
    <3>3. ~creply[c]
      BY <3>2 DEF CancelInv
    <3>4. \A d \in Canceller \ {c} : UNCHANGED <<cpc[d], cchild[d], creply[d]>>
      BY <3>2
    <3>5. \A t \in Task, w \in Worker : tasks[t] # w => tasks'[t] # w
      BY <3>2, NoWorkerAssumption
    <3>. QED
      BY <3>1, <3>2, <3>3, <3>4, <3>5 DEF CancelInv
  <2>. QED
    BY <2>1, <2>3, <2>4
<1>3. CASE TakeLinked(c)
  <2>1. RegistryInv' /\ MarksInv'
    BY <1>3 DEF TakeLinked, RegistryInv, MarksInv
  <2>2. CancelInv'
    BY <1>3, NoWorkerAssumption DEF TakeLinked, CancelInv
  <2>. QED
    BY <2>1, <2>2
<1>4. CASE MarkCancelled(c)
  BY <1>4 DEF MarkCancelled, RegistryInv, MarksInv, CancelInv
<1>5. CASE Terminate(c)
  <2>1. /\ proc' = [proc EXCEPT ![cchild[c]] = "exited"]
        /\ UNCHANGED <<pc, tasks, terminal>>
    BY <1>5 DEF Terminate
  <2>2. RegistryInv' /\ MarksInv'
    BY <2>1 DEF RegistryInv, MarksInv
  <2>3. CancelInv'
    BY <1>5 DEF Terminate, CancelInv
  <2>. QED
    BY <2>2, <2>3
<1>6. CASE Announce(c)
  BY <1>6 DEF Announce, RegistryInv, MarksInv, CancelInv
<1>. QED
  BY <1>1, <1>2, <1>3, <1>4, <1>5, <1>6 DEF Cancel

LEMMA RegistryStep ==
  Inv /\ LeasesOK /\ [Next]_vars => Inv'
<1>. SUFFICES ASSUME Inv, LeasesOK, [Next]_vars PROVE Inv'
  OBVIOUS
<1>1. LocalTypeOK' /\ ChildKnown' /\ LeaseLink'
  BY LocalTypeStep, LeaseLinkStep DEF Inv
<1>2. ASSUME NEW w \in Worker, Begin(w) \/ Spawn(w) \/ ProcessExit(w) \/ EndOfOutput(w) \/ Read(w) \/ WindDown(w)
      PROVE  RegistryInv' /\ MarksInv' /\ CancelInv'
  BY <1>2, QuietStep, RegisterStep, MarksStep, CleanUpStep DEF WindDown
<1>3. ASSUME NEW c \in Canceller, CheckTerminal(c) \/ Cancel(c)
      PROVE  RegistryInv' /\ MarksInv' /\ CancelInv'
  BY <1>3, CancelStep
<1>4. ASSUME NEW u \in Updater, UpdateBegin(u) \/ UpdateAbandon(u)
      PROVE  RegistryInv' /\ MarksInv' /\ CancelInv'
  BY <1>4 DEF Inv, RegistryInv, MarksInv, CancelInv, Supervised, UpdateBegin,
              UpdateAbandon, superVars, cancelVars
<1>5. ASSUME UNCHANGED vars PROVE RegistryInv' /\ MarksInv' /\ CancelInv'
  <2>1. UNCHANGED <<pc, proc, tasks, terminal, cpc, cchild, creply>>
    BY <1>5 DEF vars, cancelVars
  <2>2. RegistryInv' /\ MarksInv'
    BY <2>1 DEF Inv, RegistryInv, MarksInv, Supervised
  <2>3. CancelInv'
    BY <2>1 DEF Inv, CancelInv, Supervised
  <2>. QED
    BY <2>2, <2>3
<1>6. ASSUME Next PROVE RegistryInv' /\ MarksInv' /\ CancelInv'
  BY <1>2, <1>3, <1>4, <1>6 DEF Next
<1>7. RegistryInv' /\ MarksInv' /\ CancelInv'
  BY <1>5, <1>6
<1>. QED
  BY <1>1, <1>7 DEF Inv

LEMMA RegistryAlways == Spec => []Inv
<1>1. Init => Inv
  <2>1. Init => LeaseLink
    BY DEF Init, LeaseLink, Running, HoldsApplication, HoldsRuntime
  <2>2. Init => RegistryInv /\ MarksInv /\ CancelInv
    BY DEF Init, RegistryInv, MarksInv, CancelInv
  <2>. QED
    BY <2>1, <2>2, LocalTypeInit DEF Inv
<1>. QED
  BY <1>1, LeasesAlwaysOK, RegistryStep, PTL DEF Spec

-----------------------------------------------------------------------------
(* No id stays registered for a supervisor that will not remove it.        *)
THEOREM RegistryAlwaysLive == Spec => []RegistryIsLive
<1>1. Inv => RegistryIsLive
  BY DEF Inv, RegistryInv, RegistryIsLive, Supervised, Registered
<1>. QED
  BY <1>1, RegistryAlways, PTL

(* No id stays marked terminal after the supervisors that know it.         *)
THEOREM TerminalMarksAlwaysLive == Spec => []TerminalMarksLive
<1>1. Inv => TerminalMarksLive
  BY DEF Inv, MarksInv, TerminalMarksLive, Supervised, Marking
<1>. QED
  BY <1>1, RegistryAlways, PTL

(* When cancel_task returns, its child has no id in the registry and no    *)
(* living process, whatever happened meanwhile.                            *)
THEOREM CancelAlwaysComplete == Spec => []CancelTakesWholeBatch
<1>1. Inv => CancelTakesWholeBatch
  BY DEF Inv, CancelInv, CancelTakesWholeBatch
<1>. QED
  BY <1>1, RegistryAlways, PTL

-----------------------------------------------------------------------------
(* No outcome is lost.  A task that is marked as cancelled is not reported *)
(* as failed, so the mark must be this worker's: every call makes new ids. *)
IdsApart == \A v, w \in Worker : v # w => IdsOf[v] \cap IdsOf[w] = {}

Accounted == {"unregister", "unmark", "ended"}

\* The windows have heard of task t of worker w, or a canceller will tell them.
HasHeard(w, t) == shown[w][t] # {}
WillHear(w, t) == HasHeard(w, t) \/ WillAnnounce(w, t)

\* What the supervisor takes for reported has been told, or is kept back.
ReportedInv ==
  \A w \in Worker : \A t \in seen[w] :
    /\ pc[w] \notin Accounted => HasHeard(w, t) \/ held[w][t] # {}
    /\ pc[w] = "settling" => HasHeard(w, t)

\* A canceller cancels tasks of its own child.
BatchInv ==
  \A c \in Canceller : \A t \in cids[c] : cchild[c] \in Worker /\ t \in IdsOf[cchild[c]]

\* A task that is taken for cancelled will be heard of, unless the supervisor
\* itself is to tell.
CancelledInv ==
  \A w \in Worker : ~IsPlugin(w) =>
    \A t \in IdsOf[w] : t \in cancelled \cup drained[w] => WillHear(w, t)

OutcomeInv == ReportedInv /\ BatchInv /\ CancelledInv /\ OutcomeNotLost

(* Telling the windows an outcome takes nothing back.                      *)
LEMMA TellAdds ==
  ASSUME NEW log \in [Task -> SUBSET Outcome], NEW S, NEW o \in Outcome, NEW t \in Task
  PROVE  /\ log[t] # {} => Tell(log, S, o)[t] # {}
         /\ t \in S => Tell(log, S, o)[t] # {}
  BY DEF Tell

(* What the windows have heard stays heard.                                *)
LEMMA HeardStays ==
  ASSUME LocalTypeOK, ChildKnown, [Next]_vars, NEW v \in Worker, NEW t \in Task, HasHeard(v, t)
  PROVE  HasHeard(v, t)'
<1>. USE DEF LocalTypeOK, HasHeard, superVars, cancelVars
<1>1. ASSUME NEW w \in Worker, NEW S, NEW o \in Outcome,
             shown' = [shown EXCEPT ![w] = Tell(@, S, o)]
      PROVE  HasHeard(v, t)'
  <2>1. shown[w] \in [Task -> SUBSET Outcome] /\ shown[v] \in [Task -> SUBSET Outcome]
    OBVIOUS
  <2>2. Tell(shown[w], S, o)[t] # {} \/ w # v
    BY <2>1, TellAdds
  <2>. QED
    BY <1>1, <2>2
<1>2. ASSUME NEW w \in Worker, Read(w) PROVE HasHeard(v, t)'
  <2>1. "error" \in Outcome
    BY DEF Outcome
  <2>2. ASSUME NEW S, NEW o \in Outcome, ReadTerminal(w, S, o) PROVE HasHeard(v, t)'
    BY <1>1, <2>2 DEF ReadTerminal, TellOrHold
  <2>3. CASE ReadMalformed(w)
    BY <1>1, <2>1, <2>3 DEF ReadMalformed
  <2>. QED
    BY <1>2, <2>1, <2>2, <2>3 DEF Read
<1>3. ASSUME NEW w \in Worker, Flush(w) PROVE HasHeard(v, t)'
  BY <1>3 DEF Flush
<1>4. ASSUME NEW w \in Worker, Settle(w) PROVE HasHeard(v, t)'
  <2>. DEFINE ack == IF IsPlugin(w) THEN DrainedTwice(w) ELSE {}
              known == seen[w] \cup drained[w] \cup (IdsOf[w] \cap cancelled)
              missing == IF QuietExit(w) THEN {} ELSE IdsOf[w] \ known
  <2>1. shown' = [shown EXCEPT ![w] = Tell(Tell(shown[w], ack, "cancelled"), missing, "error")]
    BY <1>4 DEF Settle, SettleAs
  <2>2. shown[w] \in [Task -> SUBSET Outcome] /\ Tell(shown[w], ack, "cancelled") \in [Task -> SUBSET Outcome]
    BY TellType DEF Outcome
  <2>3. shown[w][t] # {} => Tell(Tell(shown[w], ack, "cancelled"), missing, "error")[t] # {}
    BY <2>2, TellAdds DEF Outcome
  <2>. QED
    BY <2>1, <2>3
<1>5. ASSUME NEW c \in Canceller, Announce(c) PROVE HasHeard(v, t)'
  <2>1. cchild[c] \in Worker /\ "cancelled" \in Outcome
    BY <1>5 DEF Announce, ChildKnown, Outcome
  <2>. QED
    BY <1>1, <1>5, <2>1 DEF Announce
<1>6. CASE UNCHANGED shown
  BY <1>6
<1>7. CASE Next
  BY <1>2, <1>3, <1>4, <1>5, <1>6, <1>7
     DEF Next, Begin, Spawn, ReserveApplication, ReserveRuntime, CheckIds, Launch, Register, ProcessExit,
         EndOfOutput, WindDown, WaitForExit, DropRuntime, DropApplication, Unregister, Unmark,
         CheckTerminal, Cancel, TakeEntry, TakeLinked, MarkCancelled, Terminate, UpdateBegin,
         UpdateAbandon
<1>. QED
  BY <1>6, <1>7 DEF vars

(* Only cancel_task moves a canceller.                                     *)
LEMMA CancelOrNot ==
  [Next]_vars => UNCHANGED cancelVars \/ \E c \in Canceller : CheckTerminal(c) \/ Cancel(c)
  BY DEF Next, Begin, Spawn, ReserveApplication, ReserveRuntime, CheckIds, Launch, Register, ProcessExit,
         EndOfOutput, Read, ReadTerminal, ReadMalformed, ReadLine, WindDown, WaitForExit, DropRuntime,
         DropApplication, Flush, Settle, SettleAs, Unregister, Unmark, UpdateBegin, UpdateAbandon, vars

(* A canceller that will tell the windows will still do so, or has.        *)
LEMMA AnnouncedStays ==
  ASSUME LocalTypeOK, ChildKnown, [Next]_vars, NEW w \in Worker, NEW t \in Task, WillHear(w, t)
  PROVE  WillHear(w, t)'
<1>. SUFFICES ASSUME WillAnnounce(w, t) PROVE WillHear(w, t)'
  BY HeardStays DEF WillHear
<1>1. PICK c \in Canceller :
        /\ cchild[c] = w /\ t \in cids[c] /\ ~IsPlugin(w)
        /\ cpc[c] \in {"linking", "marking", "killing", "telling"}
  BY DEF WillAnnounce
<1>2. ASSUME cchild'[c] = w, t \in cids'[c], cpc'[c] \in {"linking", "marking", "killing", "telling"}
      PROVE  WillHear(w, t)'
  BY <1>1, <1>2 DEF WillAnnounce, WillHear
<1>. USE DEF LocalTypeOK, CGoto
<1>3. CASE \E d \in Canceller \ {c} : CheckTerminal(d) \/ Cancel(d)
  BY <1>1, <1>2, <1>3 DEF CheckTerminal, Cancel, TakeEntry, TakeLinked, MarkCancelled, Terminate, Announce
<1>4. CASE CheckTerminal(c) \/ TakeEntry(c)
  BY <1>1, <1>4 DEF CheckTerminal, TakeEntry
<1>5. CASE TakeLinked(c) \/ MarkCancelled(c) \/ Terminate(c)
  BY <1>1, <1>2, <1>5 DEF TakeLinked, MarkCancelled, Terminate
<1>6. CASE Announce(c)
  <2>1. shown' = [shown EXCEPT ![w] = Tell(shown[w], cids[c], "cancelled")]
    BY <1>1, <1>6 DEF Announce
  <2>2. Tell(shown[w], cids[c], "cancelled")[t] # {}
    BY <1>1, TellAdds DEF Outcome
  <2>. QED
    BY <2>1, <2>2 DEF WillHear, HasHeard
<1>7. CASE UNCHANGED cancelVars
  BY <1>1, <1>2, <1>7 DEF cancelVars
<1>. QED
  BY <1>3, <1>4, <1>5, <1>6, <1>7, CancelOrNot DEF Cancel

(* A canceller takes nothing but what is registered for its child.         *)
LEMMA BatchStep ==
  ASSUME Inv, BatchInv, [Next]_vars
  PROVE  BatchInv'
<1>. USE DEF Inv, LocalTypeOK, BatchInv, CGoto
<1>0. \A t \in Task : tasks[t] # NoWorker => t \in IdsOf[tasks[t]] /\ tasks[t] \in Worker
  BY DEF RegistryInv, Supervised
<1>1. ASSUME NEW c \in Canceller, TakeEntry(c) PROVE BatchInv'
  BY <1>0, <1>1 DEF TakeEntry
<1>2. ASSUME NEW c \in Canceller, TakeLinked(c) PROVE BatchInv'
  <2>1. cchild[c] \in Worker
    BY <1>2 DEF TakeLinked, ChildKnown
  <2>2. \A t \in Task : tasks[t] = cchild[c] => t \in IdsOf[cchild[c]]
    BY <1>0, <2>1, NoWorkerAssumption
  <2>. QED
    BY <1>2, <2>1, <2>2 DEF TakeLinked
<1>3. CASE UNCHANGED <<cchild, cids>>
  BY <1>3
<1>. QED
  BY <1>1, <1>2, <1>3, CancelOrNot DEF CheckTerminal, Cancel, MarkCancelled, Terminate, Announce, cancelVars

(* A task that is marked as cancelled has a canceller that will tell.      *)
LEMMA CancelledStep ==
  ASSUME IdsApart, Inv, BatchInv, CancelledInv, [Next]_vars
  PROVE  CancelledInv'
<1>. SUFFICES ASSUME NEW w \in Worker, ~IsPlugin(w), NEW t \in IdsOf[w], t \in cancelled' \cup drained'[w]
              PROVE  WillHear(w, t)'
  BY DEF CancelledInv
<1>0. t \in Task
  BY IdsAssumption
<1>1. CASE t \in cancelled \cup drained[w]
  BY <1>0, <1>1, AnnouncedStays DEF Inv, CancelledInv
<1>2. ASSUME NEW c \in Canceller, MarkCancelled(c), t \in cids[c] PROVE WillHear(w, t)'
  <2>1. cchild[c] = w
    BY <1>2 DEF BatchInv, IdsApart
  <2>2. cpc'[c] = "killing" /\ UNCHANGED <<cchild, cids>>
    BY <1>2 DEF MarkCancelled, CGoto, Inv, LocalTypeOK
  <2>. QED
    BY <1>2, <2>1, <2>2 DEF WillHear, WillAnnounce
<1>3. ASSUME t \notin cancelled \cup drained[w] PROVE \E c \in Canceller : MarkCancelled(c) /\ t \in cids[c]
  <2>1. ASSUME NEW c \in Canceller, MarkCancelled(c) PROVE t \in cids[c]
    BY <1>3, <2>1 DEF MarkCancelled, superVars
  <2>2. ASSUME NEW v \in Worker, Flush(v) PROVE FALSE
    BY <1>3, <2>2 DEF Flush, Inv, LocalTypeOK
  <2>3. ASSUME NEW v \in Worker, Settle(v) PROVE FALSE
    BY <1>3, <2>3 DEF Settle, SettleAs
  <2>4. \/ UNCHANGED <<cancelled, drained>>
        \/ \E v \in Worker : Flush(v) \/ Settle(v)
        \/ \E c \in Canceller : MarkCancelled(c)
    BY DEF Next, vars, Begin, Spawn, ReserveApplication, ReserveRuntime, CheckIds, Launch, Register,
       ProcessExit, EndOfOutput, Read, ReadTerminal, ReadMalformed, ReadLine, WindDown, WaitForExit,
       DropRuntime, DropApplication, Unregister, Unmark, UpdateBegin, UpdateAbandon, CheckTerminal,
       Cancel, TakeEntry, TakeLinked, Terminate, Announce, superVars
  <2>. QED
    BY <1>3, <2>1, <2>2, <2>3, <2>4
<1>. QED
  BY <1>1, <1>2, <1>3

(* What the supervisor takes for reported is told, at the latest by the    *)
(* flush.                                                                  *)
LEMMA ReportedStep ==
  ASSUME Inv, ReportedInv, [Next]_vars
  PROVE  ReportedInv'
<1>0. \A v \in Worker, t \in Task : HasHeard(v, t) => HasHeard(v, t)'
  BY HeardStays DEF Inv
<1>t. LocalTypeOK
  BY DEF Inv
<1>1. ASSUME NEW w \in Worker, Read(w) PROVE ReportedInv'
  <2>0. pc' = pc /\ pc[w] = "reading" /\ "error" \in Outcome
    BY <1>1 DEF Read, ReadTerminal, ReadMalformed, ReadLine, Outcome
  <2>1. ASSUME NEW S \in SUBSET Task, NEW o \in Outcome, ReadTerminal(w, S, o) PROVE ReportedInv'
    <3>1. /\ seen' = [seen EXCEPT ![w] = @ \cup S]
          /\ held' = held \/ held' = [held EXCEPT ![w] = Tell(@, S, o)]
      BY <2>1 DEF ReadTerminal, TellOrHold
    <3>l. /\ held[w] \in [Task -> SUBSET Outcome] /\ shown[w] \in [Task -> SUBSET Outcome]
          /\ held \in [Worker -> [Task -> SUBSET Outcome]] /\ shown \in [Worker -> [Task -> SUBSET Outcome]]
      BY <1>t DEF LocalTypeOK
    <3>2. ASSUME NEW v \in Worker, NEW t \in Task, held[v][t] # {} PROVE held'[v][t] # {}
      <4>1. v = w => Tell(held[w], S, o)[t] # {}
        BY <3>l, <3>2, TellAdds
      <4>. QED
        BY <3>1, <3>2, <3>l, <4>1
    <3>3. ASSUME NEW t \in S PROVE HasHeard(w, t)' \/ held'[w][t] # {}
      <4>t. Tell(held[w], S, o)[t] # {} /\ Tell(shown[w], S, o)[t] # {}
        BY <3>l, TellAdds
      <4>1. CASE held' = [held EXCEPT ![w] = Tell(@, S, o)]
        BY <3>l, <4>1, <4>t
      <4>2. CASE shown' = [shown EXCEPT ![w] = Tell(@, S, o)]
        BY <3>l, <4>2, <4>t DEF HasHeard
      <4>. QED
        BY <2>1, <4>1, <4>2 DEF ReadTerminal, TellOrHold
    <3>. QED
      BY <1>0, <1>t, <2>0, <3>1, <3>2, <3>3 DEF ReportedInv, LocalTypeOK
  <2>2. CASE ReadMalformed(w)
    <3>1. /\ seen' = [seen EXCEPT ![w] = @ \cup IdsOf[w]] /\ held' = held
          /\ shown' = [shown EXCEPT ![w] = Tell(@, IdsOf[w], "error")]
      BY <2>2 DEF ReadMalformed
    <3>2. ASSUME NEW t \in IdsOf[w] PROVE HasHeard(w, t)'
      <4>t. shown[w] \in [Task -> SUBSET Outcome] /\ t \in Task /\ "error" \in Outcome
        BY <1>t, <2>0, IdsAssumption DEF LocalTypeOK
      <4>1. Tell(shown[w], IdsOf[w], "error")[t] # {}
        BY <4>t, TellAdds
      <4>. QED
        BY <1>t, <3>1, <4>1 DEF LocalTypeOK, HasHeard
    <3>. QED
      BY <1>0, <1>t, <2>0, <3>1, <3>2 DEF ReportedInv, LocalTypeOK
  <2>. QED
    BY <1>1, <2>0, <2>1, <2>2, IdsAssumption DEF Read
<1>2. ASSUME NEW w \in Worker, Flush(w) PROVE ReportedInv'
  <2>1. /\ seen' = seen /\ pc[w] = "flushing" /\ pc' = [pc EXCEPT ![w] = "settling"]
        /\ \A v \in Worker \ {w} : held'[v] = held[v]
        /\ \A t \in Task : shown'[w][t] = shown[w][t] \cup held[w][t]
    BY <1>t, <1>2 DEF Flush, Goto, LocalTypeOK
  <2>2. \A t \in seen[w] : HasHeard(w, t)'
    BY <1>t, <2>1 DEF ReportedInv, HasHeard, LocalTypeOK, Accounted
  <2>. QED
    BY <1>0, <1>t, <2>1, <2>2 DEF ReportedInv, LocalTypeOK
<1>3. ASSUME NEW w \in Worker, Settle(w) PROVE ReportedInv'
  <2>1. /\ pc' = [pc EXCEPT ![w] = "unregister"] /\ held' = held
        /\ \A v \in Worker \ {w} : seen'[v] = seen[v]
    BY <1>t, <1>3 DEF Settle, SettleAs, Goto, LocalTypeOK
  <2>. QED
    BY <1>0, <1>t, <2>1 DEF ReportedInv, LocalTypeOK, Accounted
<1>4. CASE /\ UNCHANGED <<seen, held>>
           /\ \A v \in Worker : /\ pc'[v] \notin Accounted => pc[v] \notin Accounted
                                /\ pc'[v] = "settling" => pc[v] = "settling"
  BY <1>0, <1>t, <1>4 DEF ReportedInv, LocalTypeOK
<1>5. ASSUME NEW w \in Worker, \/ Begin(w) \/ Spawn(w) \/ ProcessExit(w) \/ EndOfOutput(w) \/ WaitForExit(w)
                               \/ DropRuntime(w) \/ DropApplication(w) \/ Unregister(w) \/ Unmark(w)
      PROVE  /\ UNCHANGED <<seen, held>>
             /\ \A v \in Worker : /\ pc'[v] \notin Accounted => pc[v] \notin Accounted
                                  /\ pc'[v] = "settling" => pc[v] = "settling"
  BY <1>t, <1>5 DEF Begin, Spawn, ReserveApplication, ReserveRuntime, CheckIds, Launch, Register, ProcessExit,
         EndOfOutput, WaitForExit, DropRuntime, DropApplication, Unregister, Unmark, Goto, superVars,
         LocalTypeOK, Accounted
<1>6. CASE (\E c \in Canceller : CheckTerminal(c) \/ Cancel(c)) \/ UNCHANGED vars
           \/ \E u \in Updater : UpdateBegin(u) \/ UpdateAbandon(u)
  <2>1. UNCHANGED <<pc, seen, held>>
    BY <1>6 DEF CheckTerminal, Cancel, TakeEntry, TakeLinked, MarkCancelled, Terminate, Announce, UpdateBegin,
       UpdateAbandon, superVars, vars
  <2>. QED
    BY <1>4, <2>1
<1>. QED
  BY <1>1, <1>2, <1>3, <1>4, <1>5, <1>6 DEF Next, WindDown

(* Settling leaves no task without an outcome.                             *)
LEMMA SettleStep ==
  ASSUME Inv, ReportedInv, CancelledInv, NEW w \in Worker, Settle(w), [Next]_vars, ~QuietExit(w),
         NEW t \in IdsOf[w]
  PROVE  WillHear(w, t)'
<1>. DEFINE ack == IF IsPlugin(w) THEN DrainedTwice(w) ELSE {}
            known == seen[w] \cup drained[w] \cup (IdsOf[w] \cap cancelled)
<1>0. LocalTypeOK /\ ChildKnown /\ t \in Task /\ "error" \in Outcome /\ "cancelled" \in Outcome
  BY IdsAssumption DEF Inv, Outcome
<1>1. shown' = [shown EXCEPT ![w] = Tell(Tell(shown[w], ack, "cancelled"), IdsOf[w] \ known, "error")]
  BY DEF Settle, SettleAs
<1>2. shown[w] \in [Task -> SUBSET Outcome] /\ Tell(shown[w], ack, "cancelled") \in [Task -> SUBSET Outcome]
  BY <1>0, TellType DEF LocalTypeOK
<1>3. CASE t \notin known
  <2>1. Tell(Tell(shown[w], ack, "cancelled"), IdsOf[w] \ known, "error")[t] # {}
    BY <1>0, <1>2, <1>3, TellAdds
  <2>. QED
    BY <1>0, <1>1, <2>1 DEF LocalTypeOK, WillHear, HasHeard
<1>4. CASE t \in seen[w]
  <2>1. pc[w] = "settling"
    BY DEF Settle, SettleAs
  <2>. QED
    BY <1>0, <1>4, <2>1, HeardStays DEF ReportedInv, WillHear
<1>5. CASE t \in drained[w] \cup cancelled /\ ~IsPlugin(w)
  BY <1>0, <1>5, AnnouncedStays DEF CancelledInv
<1>6. CASE t \in drained[w] \cup cancelled /\ IsPlugin(w)
  <2>1. t \in ack
    BY <1>6 DEF DrainedTwice
  <2>2. Tell(shown[w], ack, "cancelled")[t] # {}
    BY <1>0, <1>2, <2>1, TellAdds
  <2>3. Tell(Tell(shown[w], ack, "cancelled"), IdsOf[w] \ known, "error")[t] # {}
    BY <1>0, <1>2, <2>2, TellAdds
  <2>. QED
    BY <1>0, <1>1, <2>3 DEF LocalTypeOK, WillHear, HasHeard
<1>. QED
  BY <1>3, <1>4, <1>5, <1>6

(* An account that is settled stays so.                                    *)
LEMMA OutcomeStep ==
  ASSUME Inv, ReportedInv, CancelledInv, OutcomeNotLost, [Next]_vars
  PROVE  OutcomeNotLost'
<1>. SUFFICES ASSUME NEW w \in Worker, pc'[w] \in Accounted, ~QuietExit(w)', NEW t \in IdsOf[w]
              PROVE  WillHear(w, t)'
  BY DEF OutcomeNotLost, Accounted, WillHear, HasHeard
<1>0. t \in Task /\ LocalTypeOK /\ ChildKnown
  BY IdsAssumption DEF Inv
<1>1. pc[w] \in Accounted \/ Settle(w)
  <2>1. ASSUME NEW v \in Worker, Begin(v) \/ Spawn(v)
        PROVE  \E state \in SpawnState \cup {"reading", "closing"} : pc' = [pc EXCEPT ![v] = state]
    BY <2>1 DEF Begin, Spawn, ReserveApplication, ReserveRuntime, CheckIds, Launch, Register, Goto, SpawnState
  <2>2. ASSUME NEW v \in Worker, WaitForExit(v) \/ DropRuntime(v) \/ DropApplication(v) \/ Flush(v) \/ EndOfOutput(v)
        PROVE  \E state \in {"waiting", "closing", "runtimeFree", "refused", "flushing", "settling"} :
                 pc' = [pc EXCEPT ![v] = state]
    BY <2>2 DEF WaitForExit, DropRuntime, DropApplication, Flush, EndOfOutput, Goto
  <2>3. ASSUME NEW v \in Worker, Settle(v) \/ Unregister(v) \/ Unmark(v)
        PROVE  /\ pc[v] \in Accounted \/ Settle(v)
               /\ \E state \in Accounted : pc' = [pc EXCEPT ![v] = state]
    BY <2>3 DEF Settle, SettleAs, Unregister, Unmark, Goto, Accounted
  <2>4. \/ UNCHANGED pc
        \/ \E v \in Worker : \/ Begin(v) \/ Spawn(v)
                             \/ WaitForExit(v) \/ DropRuntime(v) \/ DropApplication(v) \/ Flush(v) \/ EndOfOutput(v)
                             \/ Settle(v) \/ Unregister(v) \/ Unmark(v)
    BY DEF Next, vars, ProcessExit, Read, ReadTerminal, ReadMalformed, ReadLine, WindDown, UpdateBegin,
       UpdateAbandon, CheckTerminal, Cancel, TakeEntry, TakeLinked, MarkCancelled, Terminate, Announce
  <2>. QED
    BY <1>0, <2>1, <2>2, <2>3, <2>4 DEF LocalTypeOK, Accounted, SpawnState
<1>2. ASSUME Settle(w) PROVE WillHear(w, t)'
  <2>1. ~QuietExit(w)
    BY <1>2 DEF Settle, SettleAs, QuietExit
  <2>. QED
    BY <1>2, <2>1, SettleStep
<1>3. ASSUME pc[w] \in Accounted PROVE WillHear(w, t)'
  <2>1. ~Running(w)
    BY <1>3 DEF Inv, LeaseLink, Accounted
  <2>2. ASSUME NEW c \in Canceller, Terminate(c), cchild[c] = w PROVE exitOk'[w] = exitOk[w]
    <3>1. proc[w] = "exited"
      BY <1>0, <2>1, <2>2 DEF Terminate, Inv, CancelInv, Supervised, Running, LocalTypeOK
    <3>2. exitOk' = [exitOk EXCEPT ![w] = exitOk[w] /\ proc[w] = "exited"]
      BY <2>2 DEF Terminate
    <3>3. (exitOk[w] /\ proc[w] = "exited") = exitOk[w]
      BY <1>0, <3>1 DEF LocalTypeOK
    <3>. QED
      BY <1>0, <3>2, <3>3 DEF LocalTypeOK
  <2>3. ASSUME NEW c \in Canceller, Terminate(c), cchild[c] # w PROVE exitOk'[w] = exitOk[w]
    BY <1>0, <2>3 DEF Terminate, LocalTypeOK
  <2>4. ASSUME NEW v \in Worker, ProcessExit(v) PROVE exitOk'[w] = exitOk[w]
    BY <1>0, <2>1, <2>4 DEF ProcessExit, LocalTypeOK, Running
  <2>5. exitOk'[w] = exitOk[w]
    BY <2>2, <2>3, <2>4 DEF Next, vars, Begin, Spawn, ReserveApplication, ReserveRuntime, CheckIds,
       Launch, Register, EndOfOutput, Read, ReadTerminal, ReadMalformed, ReadLine, WindDown,
       WaitForExit, DropRuntime, DropApplication, Flush, Settle, SettleAs, Unregister, Unmark,
       UpdateBegin, UpdateAbandon, CheckTerminal, Cancel, TakeEntry, TakeLinked, MarkCancelled, Announce
  <2>6. ~QuietExit(w)
    BY <2>5 DEF QuietExit
  <2>7. WillHear(w, t)
    BY <1>3, <2>6 DEF OutcomeNotLost, Accounted, WillHear, HasHeard
  <2>. QED
    BY <1>0, <2>7, AnnouncedStays
<1>. QED
  BY <1>1, <1>2, <1>3

(* When no two calls use the same id, as the windows make a new one for    *)
(* every call: however the worker, its supervisor and cancellations        *)
(* interleave, a task of a worker that failed, or must report a result,    *)
(* has had an outcome when its supervisor is done, or a cancel_task call   *)
(* is about to tell (the two drains of cancelled_tasks in worker.rs).      *)
THEOREM NoOutcomeLost ==
  ASSUME IdsApart
  PROVE  Spec => []OutcomeNotLost
<1>1. Init => OutcomeInv
  BY DEF Init, OutcomeInv, ReportedInv, BatchInv, CancelledInv, OutcomeNotLost
<1>2. Inv /\ OutcomeInv /\ [Next]_vars => OutcomeInv'
  BY ReportedStep, BatchStep, CancelledStep, OutcomeStep DEF OutcomeInv
<1>3. OutcomeInv => OutcomeNotLost
  BY DEF OutcomeInv
<1>. QED
  BY <1>1, <1>2, <1>3, RegistryAlways, PTL DEF Spec

-----------------------------------------------------------------------------
(* The editor export.                                                      *)

LEMMA ExportFacts ==
  /\ Export \in Worker /\ Stop \in Canceller
  /\ ExportTask \in Task /\ IdsOf[Export] = {ExportTask}
  /\ ~IsPlugin(Export) /\ ~Deferred(Export)
  BY ExportAssumption, IdsAssumption DEF IsPlugin, Deferred

(* Steps of the window, the render, cancel_editor_mix_export and the worker *)
(* do not touch the supervisor's system.                                   *)
LEMMA OwnSteps ==
  OpenExport \/ CancelExport \/ Window \/ Render \/ Stopping \/ Worked => UNCHANGED vars
  BY DEF OpenExport, CancelExport, Window, Prepared, Rendered, Started, HearOutcome,
         EndExport, CancelStarted, Render, RegisterRender, MakeDirectory, RenderFails,
         RenderSucceeds, CancelRender, Stopping, StopChecksTerminal, StopChecksRunning,
         StopWrites, StopPolls, StopKilled, StopCleans, Worked, Mix, NoticeRequest,
         MixFails, PublishMix, ReportMix, TidyUp

LEMMA ReadingIsRead ==
  /\ ExportTypeOK /\ ReadOutcome => Read(Export)
  /\ ReadNoise => Read(Export)
  BY ExportFacts DEF ExportTypeOK, ExportStates, ReadOutcome, ReadNoise, Read

LEMMA StepOfSupervisor == ExportTypeOK /\ [ExportNext]_allVars => [Next]_vars
<1>. SUFFICES ASSUME ExportTypeOK, ExportNext, ~UNCHANGED vars PROVE Next
  BY DEF allVars
<1>1. CASE StartExport \/ SpawnExport \/ ExportExits \/ OutputEnds
  BY <1>1, ExportFacts DEF StartExport, SpawnExport, ExportExits, OutputEnds, Next
<1>2. CASE ReadNoise \/ ReadOutcome
  BY <1>2, ExportFacts, ReadingIsRead DEF Next
<1>3. CASE Supervise
  BY <1>3, ExportFacts DEF Supervise, CleanAfterExit, WindDown, Next
<1>4. CASE StopTask
  BY <1>4, ExportFacts DEF StopTask, Next
<1>5. CASE Others
  BY <1>5 DEF Others, OtherSpawns, OtherEnds, OtherWinds, OtherCancels, Next
<1>. QED
  BY <1>1, <1>2, <1>3, <1>4, <1>5, OwnSteps DEF ExportNext

-----------------------------------------------------------------------------
(* Type correctness.                                                       *)

LEMMA AlongsideType ==
  ASSUME ExportTypeOK, LocalTypeOK', Alongside,
         Kept \/ (part' = FALSE /\ cancelFile' = FALSE)
  PROVE  ExportTypeOK'
<1>. USE DEF ExportTypeOK, Alongside, Kept, windowVars, renderVars, stopVars, workVars,
             fileVars
<1>1. shown'[Export][ExportTask] \subseteq Outcome
  BY ExportFacts DEF LocalTypeOK
<1>2. told' \in Outcome \cup {"none"}
  BY <1>1 DEF ExportStates
<1>3. ExportStates'
  BY <1>2 DEF ExportStates
<1>4. CASE Kept
  <2>. ExportFlags'
    BY <1>4 DEF ExportFlags
  <2>. QED
    BY <1>3
<1>5. CASE part' = FALSE /\ cancelFile' = FALSE
  <2>. ExportFlags'
    BY <1>5 DEF ExportFlags
  <2>. QED
    BY <1>3
<1>. QED
  BY <1>4, <1>5

LEMMA OwnStates ==
  ASSUME ExportStates,
         OpenExport \/ CancelExport \/ Window \/ Render \/ Stopping \/ Worked
  PROVE  ExportStates'
<1>. USE DEF ExportStates, Conclude, Verdict, Outcome, windowVars, renderVars, stopVars,
             workVars, fileVars
<1>1. CASE OpenExport \/ CancelExport
  BY <1>1 DEF OpenExport, CancelExport, CancelEarly, CancelLate
<1>2. CASE Prepared \/ Rendered \/ Started
  BY <1>2 DEF Prepared, Rendered, Started
<1>3. CASE HearOutcome \/ EndExport \/ CancelStarted
  BY <1>3 DEF HearOutcome, EndExport, CancelStarted
<1>4. CASE Render
  BY <1>4 DEF Render, RegisterRender, MakeDirectory, RenderFails, RenderSucceeds,
              CancelRender
<1>5. CASE Stopping
  BY <1>5 DEF Stopping, StopChecksTerminal, StopChecksRunning, StopWrites, StopPolls,
              StopKilled, StopCleans
<1>6. CASE Worked
  BY <1>6 DEF Worked, Mix, NoticeRequest, MixFails, PublishMix, ReportMix, TidyUp
<1>. QED
  BY <1>1, <1>2, <1>3, <1>4, <1>5, <1>6 DEF Window

LEMMA OwnFlags ==
  ASSUME ExportFlags,
         OpenExport \/ CancelExport \/ Window \/ Render \/ Stopping \/ Worked
  PROVE  ExportFlags'
<1>. USE DEF ExportFlags, Conclude, windowVars, renderVars, stopVars, workVars, fileVars
<1>1. CASE OpenExport \/ CancelExport
  BY <1>1 DEF OpenExport, CancelExport, CancelEarly, CancelLate
<1>2. CASE Prepared \/ Rendered \/ Started
  BY <1>2 DEF Prepared, Rendered, Started
<1>3. CASE HearOutcome
  BY <1>3 DEF HearOutcome
<1>4. CASE EndExport
  BY <1>4 DEF EndExport
<1>5. CASE CancelStarted
  BY <1>5 DEF CancelStarted
<1>6. CASE Render
  <2>1. CASE CancelRender
    BY <2>1 DEF CancelRender
  <2>. QED
    BY <1>6, <2>1 DEF Render, RegisterRender, MakeDirectory, RenderFails, RenderSucceeds
<1>7. CASE Stopping
  BY <1>7 DEF Stopping, StopChecksTerminal, StopChecksRunning, StopWrites, StopPolls,
              StopKilled, StopCleans
<1>8. CASE Worked
  BY <1>8 DEF Worked, Mix, NoticeRequest, MixFails, PublishMix, ReportMix, TidyUp
<1>. QED
  BY <1>1, <1>2, <1>3, <1>4, <1>5, <1>6, <1>7, <1>8 DEF Window

(* The steps of the supervisor's system, as the export sees them.          *)
SystemStep ==
  /\ Alongside
  /\ Kept \/ (part' = FALSE /\ cancelFile' = FALSE)

LEMMA SplitSteps ==
  ExportNext => \/ OpenExport \/ CancelExport \/ Window \/ Render \/ Stopping \/ Worked
                \/ SystemStep
  BY DEF ExportNext, SystemStep, StartExport, SpawnExport, ExportExits, ReadNoise,
         ReadOutcome, OutputEnds, Supervise, CleanAfterExit, StopTask, Others, OtherSpawns,
         OtherEnds, OtherWinds, OtherCancels

LEMMA ExportTypeStep ==
  ExportTypeOK /\ LocalTypeOK' /\ [ExportNext]_allVars => ExportTypeOK'
<1>. SUFFICES ASSUME ExportTypeOK, LocalTypeOK', [ExportNext]_allVars PROVE ExportTypeOK'
  OBVIOUS
<1>1. CASE UNCHANGED allVars
  <2>. USE <1>1 DEF allVars, exportVars, windowVars, renderVars, stopVars, workVars, fileVars
  <2>1. ExportStates'
    BY DEF ExportTypeOK, ExportStates
  <2>2. ExportFlags'
    BY DEF ExportTypeOK, ExportFlags
  <2>. QED
    BY <2>1, <2>2 DEF ExportTypeOK
<1>. QED
  BY <1>1, SplitSteps, OwnStates, OwnFlags, AlongsideType DEF SystemStep, ExportTypeOK

(* Every step of an export is one of the supervisor's system, or none.     *)
LEMMA ExportTyped == ExportSpec => [](LocalTypeOK /\ ChildKnown /\ ExportTypeOK)
<1>1. ExportInit => LocalTypeOK /\ ChildKnown /\ ExportTypeOK
  BY LocalTypeInit DEF ExportInit, ExportTypeOK, ExportStates, ExportFlags
<1>2. LocalTypeOK /\ ChildKnown /\ ExportTypeOK /\ [ExportNext]_allVars
        => LocalTypeOK' /\ ChildKnown' /\ ExportTypeOK'
  BY StepOfSupervisor, LocalTypeStep, ExportTypeStep
<1>. QED
  BY <1>1, <1>2, PTL DEF ExportSpec

(* The export runs inside the system of the supervisor: all that is proved *)
(* of that system holds beside an export.                                  *)
THEOREM ExportIsSupervised == ExportSpec => Spec
<1>1. ExportInit => Init
  BY DEF ExportInit
<1>. QED
  BY <1>1, ExportTyped, StepOfSupervisor, PTL DEF ExportSpec, Spec

(* Every variable of the export keeps its type.                            *)
THEOREM ExportTypeCorrect == ExportSpec => []ExportTypeOK
  BY ExportTyped, PTL
-----------------------------------------------------------------------------
(* What the windows are told of the export.  Only the worker's own events, *)
(* a malformed line, the settling of the accounts and the one cancel_task  *)
(* of the export add to it.                                                *)
Log == shown[Export][ExportTask]

Apart ==
  /\ held[Export][ExportTask] = {}
  /\ \A c \in Canceller : cchild[c] = Export => ctask[c] = ExportTask
  /\ \A c \in Canceller \ {Stop} : ctask[c] # ExportTask

LogStep ==
  /\ Log \subseteq Log'
  /\ "result" \in Log' => "result" \in Log \/ said = "result"
  /\ "cancelled" \in Log' => "cancelled" \in Log \/ said = "cancelled" \/ creply'[Stop]
  /\ creply[Stop] => creply'[Stop]

\* Steps that tell nobody anything.
LEMMA SilentLog ==
  ASSUME UNCHANGED <<shown, creply>>
  PROVE  LogStep
  BY DEF LogStep, Log

LEMMA ReadLog ==
  ASSUME LocalTypeOK, ReadOutcome \/ ReadNoise
  PROVE  LogStep
<1>. USE ExportFacts DEF LocalTypeOK, superVars, cancelVars
<1>1. CASE ReadOutcome
  <2>1. /\ shown' = [shown EXCEPT ![Export] = Tell(shown[Export], {ExportTask}, said)]
        /\ creply' = creply
    BY <1>1 DEF ReadOutcome, ReadTerminal, ReadLine, TellOrHold
  <2>2. Log' = Tell(shown[Export], {ExportTask}, said)[ExportTask]
    BY <2>1 DEF Log
  <2>3. Log' = Log \cup {said}
    BY <2>2 DEF Log, Tell
  <2>. QED
    BY <2>1, <2>3 DEF LogStep
<1>2. CASE ReadNoise
  <2>1. /\ shown' = [shown EXCEPT ![Export] = Tell(shown[Export], IdsOf[Export], "error")]
        /\ creply' = creply
    BY <1>2 DEF ReadNoise, ReadMalformed, ReadLine
  <2>2. Log' = Tell(shown[Export], IdsOf[Export], "error")[ExportTask]
    BY <2>1 DEF Log
  <2>3. Log' = Log \cup {"error"}
    BY <2>2 DEF Log, Tell
  <2>. QED
    BY <2>1, <2>3 DEF LogStep
<1>. QED
  BY <1>1, <1>2

LEMMA SuperviseLog ==
  ASSUME LocalTypeOK, Apart, Supervise
  PROVE  LogStep
<1>. USE ExportFacts DEF LocalTypeOK
<1>1. CASE Flush(Export)
  <2>1. /\ shown' = [shown EXCEPT ![Export] =
                       [t \in Task |-> shown[Export][t] \cup held[Export][t]]]
        /\ creply' = creply
    BY <1>1 DEF Flush, cancelVars
  <2>2. Log' = Log
    BY <2>1 DEF Log, Apart
  <2>. QED
    BY <2>1, <2>2 DEF LogStep
<1>2. CASE Settle(Export)
  <2>1. PICK missing :
          shown' = [shown EXCEPT ![Export] = Tell(Tell(shown[Export], {}, "cancelled"),
                                                  missing, "error")]
    BY <1>2 DEF Settle, SettleAs
  <2>2. Log' = Tell(Tell(shown[Export], {}, "cancelled"), missing, "error")[ExportTask]
    BY <2>1 DEF Log
  <2>3. Tell(shown[Export], {}, "cancelled")[ExportTask] = Log
    BY DEF Log, Tell
  <2>4. Log' \in {Log, Log \cup {"error"}}
    BY <2>2, <2>3 DEF Tell
  <2>5. creply' = creply
    BY <1>2 DEF Settle, SettleAs, cancelVars
  <2>. QED
    BY <2>4, <2>5 DEF LogStep
<1>3. CASE ~Flush(Export) /\ ~Settle(Export)
  BY <1>3, SilentLog DEF Supervise, CleanAfterExit, DropRuntime, WaitForExit,
     DropApplication, Unregister, Unmark, cancelVars
<1>. QED
  BY <1>1, <1>2, <1>3

\* A cancellation tells of the worker it has taken, if it is not a plugin's.
LEMMA CancelLog ==
  ASSUME LocalTypeOK, ChildKnown, Apart, NEW c \in Canceller, CheckTerminal(c) \/ Cancel(c)
  PROVE  LogStep
<1>. USE ExportFacts DEF LocalTypeOK
<1>1. CASE Announce(c)
  <2>1. PICK S : shown' = [shown EXCEPT ![cchild[c]] = Tell(shown[cchild[c]], S, "cancelled")]
    BY <1>1 DEF Announce
  <2>2. creply' = [creply EXCEPT ![c] = TRUE]
    BY <1>1 DEF Announce
  <2>3. CASE cchild[c] = Export
    <3>1. c = Stop
      BY <2>3 DEF Apart
    <3>2. Log' = Tell(shown[Export], S, "cancelled")[ExportTask]
      BY <2>1, <2>3 DEF Log
    <3>3. Log' \in {Log, Log \cup {"cancelled"}}
      BY <3>2, <2>3 DEF Log, Tell
    <3>4. creply'[Stop]
      BY <2>2, <3>1
    <3>. QED
      BY <3>3, <3>4 DEF LogStep
  <2>4. CASE cchild[c] # Export
    <3>1. Log' = Log
      BY <2>1, <2>4 DEF Log
    <3>. QED
      BY <2>2, <3>1 DEF LogStep
  <2>. QED
    BY <2>3, <2>4
<1>2. CASE ~Announce(c)
  BY <1>2, SilentLog DEF CheckTerminal, Cancel, TakeEntry, TakeLinked, MarkCancelled,
     Terminate
<1>. QED
  BY <1>1, <1>2

\* Other workers have windows told of their own tasks.
LEMMA OtherLog ==
  ASSUME LocalTypeOK, NEW w \in Worker \ {Export},
         Begin(w) \/ ProcessExit(w) \/ Read(w) \/ Spawn(w) \/ EndOfOutput(w) \/ WindDown(w)
  PROVE  LogStep
<1>1. UNCHANGED creply
  BY DEF Begin, ProcessExit, Read, ReadTerminal, ReadMalformed, ReadLine, Spawn,
         ReserveApplication, ReserveRuntime, CheckIds, Launch, Register, EndOfOutput,
         WindDown, WaitForExit, DropRuntime, DropApplication, Flush, Settle, SettleAs,
         Unregister, Unmark, cancelVars
<1>2. shown'[Export] = shown[Export]
  BY ExportFacts
     DEF LocalTypeOK, Begin, ProcessExit, Read, ReadTerminal, ReadMalformed, ReadLine,
         TellOrHold, Spawn, ReserveApplication, ReserveRuntime, CheckIds, Launch, Register,
         EndOfOutput, WindDown, WaitForExit, DropRuntime, DropApplication, Flush, Settle,
         SettleAs, Unregister, Unmark, superVars, cancelVars
<1>. QED
  BY <1>1, <1>2 DEF LogStep, Log

LEMMA LogGrows ==
  ASSUME LocalTypeOK, ChildKnown, Apart, [ExportNext]_allVars
  PROVE  LogStep
<1>1. CASE OpenExport \/ CancelExport \/ Window \/ Render \/ Stopping \/ Worked
  BY <1>1, OwnSteps, SilentLog DEF vars, cancelVars
<1>2. CASE StartExport \/ SpawnExport \/ ExportExits \/ OutputEnds
  BY <1>2, SilentLog
     DEF StartExport, SpawnExport, ExportExits, OutputEnds, Begin, Spawn, ProcessExit,
         EndOfOutput, ReserveApplication, ReserveRuntime, CheckIds, Launch, Register,
         cancelVars
<1>3. CASE ReadNoise \/ ReadOutcome
  BY <1>3, ReadLog
<1>4. CASE Supervise
  BY <1>4, SuperviseLog
<1>5. CASE StopTask
  BY <1>5, CancelLog, ExportFacts DEF StopTask
<1>6. CASE Others
  <2>1. CASE \E u \in Updater : UpdateBegin(u) \/ UpdateAbandon(u)
    BY <2>1, SilentLog DEF UpdateBegin, UpdateAbandon, cancelVars
  <2>. QED
    BY <1>6, <2>1, OtherLog, CancelLog
       DEF Others, OtherSpawns, OtherEnds, OtherWinds, OtherCancels
<1>7. CASE UNCHANGED allVars
  BY <1>7, SilentLog DEF allVars, vars, cancelVars
<1>. QED
  BY <1>1, <1>2, <1>3, <1>4, <1>5, <1>6, <1>7 DEF ExportNext
-----------------------------------------------------------------------------
(* The inductive invariant behind WindowTellsTruth: nothing asks the worker *)
(* to stop but a cancellation; what the worker says of the mix is true;    *)
(* what the windows are told the worker has said, or cancel_task has; and  *)
(* exportMix has its outcome from there, or has never started a worker.    *)

AskedInv == cancelFile \/ stop # "none" \/ cpc[Stop] # "idle" \/ creply[Stop] => asked

WorkInv ==
  /\ work = "mixing" => ~published /\ said = "none"
  /\ work = "published" => published /\ said = "none"
  /\ said = "result" => published
  /\ said = "cancelled" => ~published /\ asked
  /\ published => pc[Export] # "idle"

LogInv ==
  /\ "result" \in Log => said = "result"
  /\ "cancelled" \in Log => said = "cancelled" \/ creply[Stop]
  /\ told = "none" \/ told \in Log

NeverStarted == pc[Export] = "idle" /\ win \in {"ending", "ended"}

WindowInv ==
  /\ win \in {"idle", "preparing", "rendering"} => pc[Export] = "idle"
  /\ outcome = "exported" => told = "result"
  /\ outcome = "cancelled" => asked /\ (told = "cancelled" \/ NeverStarted)

TruthInv == Apart /\ AskedInv /\ WorkInv /\ LogInv /\ WindowInv

LEMMA TruthFollows == TruthInv => WindowTellsTruth
<1>. SUFFICES ASSUME TruthInv PROVE WindowTellsTruth
  OBVIOUS
<1>1. outcome = "exported" => published
  BY DEF TruthInv, WindowInv, LogInv, WorkInv
<1>2. outcome = "cancelled" => asked
  BY DEF TruthInv, WindowInv
<1>3. outcome = "cancelled" => ~published \/ creply[Stop]
  BY DEF TruthInv, WindowInv, LogInv, WorkInv, NeverStarted
<1>. QED
  BY <1>1, <1>2, <1>3 DEF WindowTellsTruth

\* cancel_task has the task id it was given, and takes a child of that id.
LEMMA ApartStep ==
  ASSUME Inv, Apart, [Next]_vars
  PROVE  Apart'
<1>. USE ExportFacts DEF Inv, LocalTypeOK
<1>1. ctask' = ctask
  BY DEF Next, vars, Begin, Spawn, ReserveApplication, ReserveRuntime, CheckIds, Launch,
         Register, ProcessExit, EndOfOutput, Read, ReadTerminal, ReadMalformed, ReadLine,
         WindDown, WaitForExit, DropRuntime, DropApplication, Flush, Settle, SettleAs,
         Unregister, Unmark, CheckTerminal, Cancel, TakeEntry, TakeLinked, MarkCancelled,
         Terminate, Announce, UpdateBegin, UpdateAbandon, cancelVars
<1>2. \A c \in Canceller : cchild'[c] = Export => ctask[c] = ExportTask
  <2>1. ASSUME NEW c \in Canceller, TakeEntry(c)
        PROVE  \A d \in Canceller : cchild'[d] = Export => ctask[d] = ExportTask
    <3>1. cchild' = [cchild EXCEPT ![c] = tasks[ctask[c]]] \/ cchild' = cchild
      BY <2>1 DEF TakeEntry
    <3>2. tasks[ctask[c]] = Export => ctask[c] = ExportTask
      BY NoWorkerAssumption DEF RegistryInv
    <3>. QED
      BY <3>1, <3>2 DEF Apart
  <2>2. CASE ~ \E c \in Canceller : TakeEntry(c)
    <3>1. cchild' = cchild
      BY <2>2
         DEF Next, vars, Begin, Spawn, ReserveApplication, ReserveRuntime, CheckIds, Launch,
             Register, ProcessExit, EndOfOutput, Read, ReadTerminal, ReadMalformed,
             ReadLine, WindDown, WaitForExit, DropRuntime, DropApplication, Flush, Settle,
             SettleAs, Unregister, Unmark, CheckTerminal, Cancel, TakeLinked,
             MarkCancelled, Terminate, Announce, UpdateBegin, UpdateAbandon, cancelVars
    <3>. QED
      BY <3>1 DEF Apart
  <2>. QED
    BY <2>1, <2>2
<1>3. held'[Export][ExportTask] = {}
  <2>1. ASSUME NEW w \in Worker, Read(w) PROVE held'[Export] = held[Export]
    BY <2>1 DEF Read, ReadTerminal, ReadMalformed, TellOrHold
  <2>2. ASSUME NEW w \in Worker, Flush(w) PROVE held'[Export][ExportTask] = {}
    BY <2>2 DEF Flush, Nothing, Apart
  <2>3. CASE ~ \E w \in Worker : Read(w) \/ Flush(w)
    BY <2>3
       DEF Next, vars, Begin, Spawn, ReserveApplication, ReserveRuntime, CheckIds, Launch,
           Register, ProcessExit, EndOfOutput, WindDown, WaitForExit, DropRuntime,
           DropApplication, Settle, SettleAs, Unregister, Unmark, CheckTerminal, Cancel,
           TakeEntry, TakeLinked, MarkCancelled, Terminate, Announce, UpdateBegin,
           UpdateAbandon, superVars, Apart
  <2>. QED
    BY <2>1, <2>2, <2>3 DEF Apart
<1>. QED
  BY <1>1, <1>2, <1>3 DEF Apart

\* The worker has been asked for once it is no longer idle, and only exportMix
\* asks for it, once it is "starting".
IdleStep ==
  /\ pc'[Export] = "idle" => pc[Export] = "idle"
  /\ pc[Export] = "idle" /\ win # "starting" => pc'[Export] = "idle"

LEMMA StaysIdle ==
  ASSUME Inv, ExportTypeOK, [ExportNext]_allVars
  PROVE  IdleStep
<1>. USE ExportFacts DEF Inv, LocalTypeOK, IdleStep, Goto
<1>1. CASE UNCHANGED pc
  BY <1>1
<1>2. ASSUME NEW w \in Worker, Begin(w), w # Export \/ win = "starting" PROVE IdleStep
  BY <1>2 DEF Begin
<1>3. ASSUME NEW w \in Worker, Spawn(w) \/ EndOfOutput(w) PROVE IdleStep
  BY <1>3 DEF Spawn, ReserveApplication, ReserveRuntime, CheckIds, Launch, Register,
              EndOfOutput
<1>4. ASSUME NEW w \in Worker, WindDown(w) PROVE IdleStep
  BY <1>4 DEF WindDown, WaitForExit, DropRuntime, DropApplication, Flush, Settle,
              SettleAs, Unregister, Unmark
<1>5. ASSUME NEW w \in Worker, ProcessExit(w) \/ Read(w) PROVE UNCHANGED pc
  BY <1>5 DEF ProcessExit, Read, ReadTerminal, ReadMalformed, ReadLine
<1>6. ASSUME NEW c \in Canceller, CheckTerminal(c) \/ Cancel(c) PROVE UNCHANGED pc
  BY <1>6 DEF CheckTerminal, Cancel, TakeEntry, TakeLinked, MarkCancelled, Terminate,
              Announce
<1>7. ASSUME NEW u \in Updater, UpdateBegin(u) \/ UpdateAbandon(u) PROVE UNCHANGED pc
  BY <1>7 DEF UpdateBegin, UpdateAbandon
<1>8. CASE StartExport
  BY <1>2, <1>8 DEF StartExport
<1>9. CASE Supervise
  BY <1>4, <1>9 DEF Supervise, CleanAfterExit, WindDown
<1>10. CASE Others
  BY <1>1, <1>2, <1>3, <1>4, <1>5, <1>6, <1>7, <1>10
     DEF Others, OtherSpawns, OtherEnds, OtherWinds, OtherCancels
<1>11. CASE SpawnExport \/ ExportExits \/ ReadNoise \/ ReadOutcome \/ OutputEnds \/ StopTask
  BY <1>1, <1>3, <1>5, <1>6, <1>11, ReadingIsRead
     DEF SpawnExport, ExportExits, OutputEnds, StopTask
<1>12. CASE UNCHANGED vars
  BY <1>1, <1>12 DEF vars
<1>. QED
  BY <1>8, <1>9, <1>10, <1>11, <1>12, OwnSteps DEF ExportNext, allVars

\* cpc and creply of Stop change only in its own steps.
LEMMA StopIsAsked ==
  ASSUME Inv, ExportTypeOK, [ExportNext]_allVars, ~StopTask
  PROVE  cpc'[Stop] = cpc[Stop] /\ creply'[Stop] = creply[Stop]
<1>. USE ExportFacts DEF Inv, LocalTypeOK, CGoto
<1>1. CASE UNCHANGED cancelVars
  BY <1>1 DEF cancelVars
<1>2. ASSUME NEW c \in Canceller \ {Stop}, CheckTerminal(c) \/ Cancel(c)
      PROVE  cpc'[Stop] = cpc[Stop] /\ creply'[Stop] = creply[Stop]
  BY <1>2 DEF CheckTerminal, Cancel, TakeEntry, TakeLinked, MarkCancelled, Terminate,
              Announce
<1>3. ASSUME NEW w \in Worker,
             Begin(w) \/ Spawn(w) \/ ProcessExit(w) \/ EndOfOutput(w) \/ Read(w)
               \/ WindDown(w)
      PROVE  UNCHANGED cancelVars
  BY <1>3 DEF Begin, Spawn, ReserveApplication, ReserveRuntime, CheckIds, Launch, Register,
     ProcessExit, EndOfOutput, Read, ReadTerminal, ReadMalformed, ReadLine, WindDown,
     WaitForExit, DropRuntime, DropApplication, Flush, Settle, SettleAs, Unregister, Unmark
<1>4. ASSUME NEW u \in Updater, UpdateBegin(u) \/ UpdateAbandon(u)
      PROVE  UNCHANGED cancelVars
  BY <1>4 DEF UpdateBegin, UpdateAbandon
<1>5. CASE StartExport \/ SpawnExport \/ ExportExits \/ ReadNoise \/ ReadOutcome
             \/ OutputEnds \/ Supervise
  BY <1>1, <1>3, <1>5, ReadingIsRead
     DEF StartExport, SpawnExport, ExportExits, OutputEnds, Supervise, CleanAfterExit,
         WindDown
<1>6. CASE Others
  BY <1>1, <1>2, <1>3, <1>4, <1>6
     DEF Others, OtherSpawns, OtherEnds, OtherWinds, OtherCancels
<1>7. CASE UNCHANGED vars
  BY <1>1, <1>7 DEF vars
<1>. QED
  BY <1>5, <1>6, <1>7, OwnSteps DEF ExportNext, allVars

\* The steps of the supervisor's system, as they touch the export.
LEMMA SystemOnExport ==
  ASSUME Inv, Apart, ExportTypeOK, SystemStep
  PROVE  /\ UNCHANGED <<windowVars, stopVars, workVars>>
         /\ cancelFile' = cancelFile \/ cancelFile' = FALSE
         /\ told = "none" \/ told' = told
         /\ told' = "none" \/ told' = told \/ told' \in Log'
  BY DEF SystemStep, Alongside, Kept, fileVars, Log

LEMMA AskedStep ==
  ASSUME Inv, Apart, ExportTypeOK, AskedInv, [ExportNext]_allVars
  PROVE  AskedInv'
<1>. USE DEF AskedInv, ExportTypeOK, ExportFlags, windowVars, renderVars, stopVars, workVars,
             fileVars
<1>1. CASE StopTask
  <2>1. asked /\ asked' = asked
    BY <1>1 DEF StopTask, Alongside
  <2>. QED
    BY <2>1
<1>2. CASE ~StopTask
  <2>1. cpc'[Stop] = cpc[Stop] /\ creply'[Stop] = creply[Stop]
    BY <1>2, StopIsAsked
  <2>2. CASE OpenExport \/ CancelExport \/ Window
    BY <2>1, <2>2
       DEF OpenExport, CancelExport, CancelEarly, CancelLate, Window, Prepared, Rendered,
           Started, HearOutcome, EndExport, CancelStarted, Conclude
  <2>3. CASE Render \/ Stopping
    BY <2>1, <2>3
       DEF Render, RegisterRender, MakeDirectory, RenderFails, RenderSucceeds,
           CancelRender, Stopping, StopChecksTerminal, StopChecksRunning, StopWrites,
           StopPolls, StopKilled, StopCleans
  <2>4. CASE Worked
    BY <2>1, <2>4
       DEF Worked, Mix, NoticeRequest, MixFails, PublishMix, ReportMix, TidyUp
  <2>5. CASE SystemStep
    BY <2>1, <2>5, SystemOnExport
  <2>6. CASE UNCHANGED allVars
    BY <2>6 DEF allVars, vars, exportVars, cancelVars
  <2>. QED
    BY <2>2, <2>3, <2>4, <2>5, <2>6, SplitSteps
<1>. QED
  BY <1>1, <1>2

LEMMA WorkStep ==
  ASSUME Inv, Apart, ExportTypeOK, AskedInv, WorkInv, [ExportNext]_allVars
  PROVE  WorkInv'
<1>. USE DEF WorkInv, ExportTypeOK, ExportFlags, ExportStates, windowVars, renderVars,
             stopVars, workVars, fileVars
<1>1. IdleStep
  BY StaysIdle
<1>2. CASE OpenExport \/ CancelExport \/ Window \/ Render \/ Stopping
  <2>1. UNCHANGED <<work, said, published>>
    BY <1>2
       DEF OpenExport, CancelExport, Window, Prepared, Rendered, Started, HearOutcome,
           EndExport, CancelStarted, Render, RegisterRender, MakeDirectory, RenderFails,
           RenderSucceeds, CancelRender, Stopping, StopChecksTerminal, StopChecksRunning,
           StopWrites, StopPolls, StopKilled, StopCleans
  <2>2. asked => asked'
    BY <1>2
       DEF OpenExport, CancelExport, Window, Prepared, Rendered, Started, HearOutcome,
           EndExport, CancelStarted, Render, RegisterRender, MakeDirectory, RenderFails,
           RenderSucceeds, CancelRender, Stopping, StopChecksTerminal, StopChecksRunning,
           StopWrites, StopPolls, StopKilled, StopCleans, Conclude
  <2>. QED
    BY <1>1, <2>1, <2>2 DEF IdleStep
<1>3. CASE Worked
  <2>1. pc' = pc /\ asked' = asked
    BY <1>3, OwnSteps DEF vars, Worked, Mix, NoticeRequest, MixFails, PublishMix, ReportMix,
                          TidyUp
  <2>2. Running(Export) => pc[Export] # "idle"
    BY ExportFacts DEF Inv, LeaseLink
  <2>3. CASE Mix \/ TidyUp
    BY <2>1, <2>3 DEF Mix, TidyUp
  <2>4. CASE NoticeRequest
    BY <2>1, <2>4 DEF NoticeRequest, AskedInv
  <2>5. CASE MixFails
    BY <2>1, <2>5 DEF MixFails
  <2>6. CASE PublishMix
    BY <2>1, <2>2, <2>6 DEF PublishMix
  <2>7. CASE ReportMix
    BY <2>1, <2>7 DEF ReportMix
  <2>. QED
    BY <1>3, <2>3, <2>4, <2>5, <2>6, <2>7 DEF Worked
<1>4. CASE SystemStep
  <2>1. UNCHANGED <<work, said, published, asked>>
    BY <1>4, SystemOnExport
  <2>. QED
    BY <1>1, <2>1 DEF IdleStep
<1>5. CASE UNCHANGED allVars
  BY <1>5 DEF allVars, vars, exportVars
<1>. QED
  BY <1>2, <1>3, <1>4, <1>5, SplitSteps

LEMMA LogInvStep ==
  ASSUME Inv, Apart, ExportTypeOK, WorkInv, LogInv, [ExportNext]_allVars
  PROVE  LogInv'
<1>. USE DEF LogInv, windowVars, renderVars, stopVars, workVars, fileVars
<1>1. LogStep
  BY LogGrows DEF Inv
<1>2. CASE OpenExport \/ CancelExport \/ Window \/ Render \/ Stopping
  <2>1. UNCHANGED <<shown, creply, said, told>>
    BY <1>2, OwnSteps
       DEF vars, cancelVars, OpenExport, CancelExport, Window, Prepared, Rendered, Started,
           HearOutcome, EndExport, CancelStarted, Render, RegisterRender, MakeDirectory,
           RenderFails, RenderSucceeds, CancelRender, Stopping, StopChecksTerminal,
           StopChecksRunning, StopWrites, StopPolls, StopKilled, StopCleans
  <2>. QED
    BY <2>1 DEF Log
<1>3. CASE Worked
  <2>1. UNCHANGED <<shown, creply, told>>
    BY <1>3, OwnSteps DEF vars, cancelVars, Worked, Mix, NoticeRequest, MixFails, PublishMix,
                          ReportMix, TidyUp
  <2>2. said' = said \/ said = "none"
    BY <1>3 DEF WorkInv, Worked, Mix, NoticeRequest, MixFails, PublishMix, ReportMix, TidyUp
  <2>. QED
    BY <2>1, <2>2 DEF Log
<1>4. CASE SystemStep
  BY <1>1, <1>4, SystemOnExport DEF LogStep
<1>5. CASE UNCHANGED allVars
  BY <1>5 DEF allVars, vars, exportVars, cancelVars, Log
<1>. QED
  BY <1>2, <1>3, <1>4, <1>5, SplitSteps

\* What exportMix can take for a cancellation.
LEMMA CancelledAsked ==
  AskedInv /\ WorkInv /\ LogInv => (told = "cancelled" => asked)
  BY DEF AskedInv, WorkInv, LogInv

LEMMA WindowStep ==
  ASSUME Inv, Apart, ExportTypeOK, AskedInv, WorkInv, LogInv, WindowInv,
         [ExportNext]_allVars
  PROVE  WindowInv'
<1>. USE DEF WindowInv, NeverStarted
<1>1. IdleStep
  BY StaysIdle
<1>2. CASE OpenExport \/ CancelExport
  <2>1. UNCHANGED <<pc, outcome, told>>
    BY <1>2 DEF OpenExport, CancelExport, vars
  <2>2. win' = win \/ (win = "idle" /\ win' = "preparing")
    BY <1>2 DEF OpenExport, CancelExport
  <2>3. asked => asked'
    BY <1>2 DEF OpenExport, CancelExport
  <2>. QED
    BY <2>1, <2>2, <2>3
<1>3. CASE Window
  <2>1. UNCHANGED <<pc, told, asked>>
    BY <1>3, OwnSteps DEF vars, windowVars, Window, Prepared, Rendered, Started, HearOutcome, EndExport,
                          CancelStarted
  <2>2. CASE Prepared
    <3>1. /\ win = "preparing"
          /\ \/ win' \in {"rendering", "starting"} /\ outcome' = outcome
             \/ win' = "ending" /\ outcome' = IF asked THEN "cancelled" ELSE "failed"
      BY <2>2 DEF Prepared, Conclude
    <3>. QED
      BY <2>1, <3>1
  <2>3. CASE Rendered
    <3>1. /\ win = "rendering"
          /\ \/ win' = "starting" /\ outcome' = outcome
             \/ win' = "ending" /\ outcome' = IF asked THEN "cancelled" ELSE "failed"
      BY <2>3 DEF Rendered, Conclude
    <3>. QED
      BY <2>1, <3>1
  <2>4. CASE Started
    <3>1. CASE pc[Export] = "refused"
      BY <2>1, <2>4, <3>1 DEF Started, Conclude, Accepted, SuperState
    <3>2. CASE win' = "waiting" /\ outcome' = outcome
      BY <2>1, <2>4, <3>2 DEF Started
    <3>3. CASE Conclude(Verdict)
      BY <2>1, <3>3, CancelledAsked DEF Conclude, Verdict
    <3>. QED
      BY <2>4, <3>1, <3>2, <3>3 DEF Started
  <2>5. CASE HearOutcome
    <3>1. CASE Conclude(Verdict)
      BY <2>1, <3>1, CancelledAsked DEF Conclude, Verdict
    <3>2. CASE UNCHANGED <<win, outcome>>
      BY <2>1, <3>2
    <3>. QED
      BY <2>5, <3>1, <3>2 DEF HearOutcome
  <2>6. CASE EndExport
    BY <2>1, <2>6 DEF EndExport
  <2>7. CASE CancelStarted
    BY <2>1, <2>7 DEF CancelStarted, windowVars
  <2>. QED
    BY <1>3, <2>2, <2>3, <2>4, <2>5, <2>6, <2>7 DEF Window
<1>4. CASE Render \/ Stopping \/ Worked
  <2>1. UNCHANGED <<pc, win, outcome, told, asked>>
    BY <1>4, OwnSteps
       DEF vars, windowVars, Render, RegisterRender, MakeDirectory, RenderFails,
           RenderSucceeds, CancelRender, Stopping, StopChecksTerminal, StopChecksRunning,
           StopWrites, StopPolls, StopKilled, StopCleans, Worked, Mix, NoticeRequest,
           MixFails, PublishMix, ReportMix, TidyUp
  <2>. QED
    BY <2>1
<1>5. CASE SystemStep
  <2>1. UNCHANGED <<win, outcome, asked>> /\ (told = "none" \/ told' = told)
    BY <1>5, SystemOnExport DEF windowVars
  <2>. QED
    BY <1>1, <2>1 DEF IdleStep
<1>6. CASE UNCHANGED allVars
  BY <1>6 DEF allVars, vars, exportVars, windowVars
<1>. QED
  BY <1>2, <1>3, <1>4, <1>5, <1>6, SplitSteps

(* What the window says of an export is what is on the disk, for every set *)
(* of workers beside it, every line bound and every cancellation.          *)
THEOREM WindowAlwaysTruthful == ExportSpec => []WindowTellsTruth
<1>1. ExportInit => TruthInv
  <2>. SUFFICES ASSUME ExportInit PROVE TruthInv
    OBVIOUS
  <2>1. Apart
    BY ExportFacts, NoWorkerAssumption DEF ExportInit, Init, Apart, Nothing
  <2>2. Log = {}
    BY ExportFacts DEF ExportInit, Init, Log, Nothing
  <2>3. AskedInv /\ WorkInv
    BY ExportFacts DEF ExportInit, Init, AskedInv, WorkInv
  <2>4. LogInv /\ WindowInv
    BY <2>2, ExportFacts DEF ExportInit, Init, LogInv, WindowInv
  <2>. QED
    BY <2>1, <2>2, <2>3, <2>4 DEF TruthInv
<1>2. TruthInv /\ Inv /\ ExportTypeOK /\ [ExportNext]_allVars => TruthInv'
  BY ApartStep, StepOfSupervisor, AskedStep, WorkStep, LogInvStep, WindowStep DEF TruthInv
<1>3. ExportSpec => []Inv
  BY ExportIsSupervised, RegistryAlways, PTL
<1>4. ExportSpec => []TruthInv
  BY <1>1, <1>2, <1>3, ExportTypeCorrect, PTL DEF ExportSpec
<1>. QED
  BY <1>4, TruthFollows, PTL

-----------------------------------------------------------------------------
(* Nothing is left behind.  The unfinished mix exists only as long as its  *)
(* process is in the supervisor's hands, the request only as long as       *)
(* cancel_editor_mix_export has still to remove it, and the render's       *)
(* directory only as long as exportMix has still to clean up; a second     *)
(* cancellation is not begun while the first is at work.                   *)

\* The worker has been launched and the supervisor has not cleaned up after it.
InHand == pc[Export] \in {"launched", "reading", "waiting", "closing"} /\ proc[Export] # "none"

PartInv == part => InHand

RequestInv ==
  /\ cancelFile => stop \in {"polling", "killing", "cleaning"} \/ stopFailed
  /\ stop # "none" /\ win \notin {"ending", "ended"} => cancelling

RenderInv ==
  /\ renderDir => render \in {"mixing", "done"}
  /\ render \in {"asked", "registered", "mixing"} => win = "rendering"
  /\ render # "none" => win \notin {"idle", "preparing"}
  /\ win = "ended" => ~renderDir

BehindInv == PartInv /\ RequestInv /\ RenderInv

\* A worker leaves the supervisor's hands only by the clean-up.
LEMMA InHandStays ==
  ASSUME Inv, ExportTypeOK, InHand, [ExportNext]_allVars, ~CleanAfterExit
  PROVE  InHand'
<1>. USE ExportFacts DEF Inv, LocalTypeOK, InHand, Goto
<1>1. CASE UNCHANGED <<pc, proc>>
  BY <1>1
<1>2. CASE StartExport \/ SpawnExport
  BY <1>2 DEF StartExport, SpawnExport, Begin, Spawn, ReserveApplication, ReserveRuntime, CheckIds, Launch,
              Register
<1>3. CASE ExportExits \/ OutputEnds
  BY <1>3 DEF ExportExits, OutputEnds, ProcessExit, EndOfOutput
<1>4. ASSUME NEW w \in Worker, Read(w) PROVE UNCHANGED <<pc, proc>>
  BY <1>4 DEF Read, ReadTerminal, ReadMalformed, ReadLine
<1>5. CASE Supervise
  BY <1>5 DEF Supervise, WaitForExit, DropApplication, Flush, Settle, SettleAs, Unregister, Unmark
<1>6. ASSUME NEW c \in Canceller, CheckTerminal(c) \/ Cancel(c) PROVE InHand'
  BY <1>6 DEF CheckTerminal, Cancel, TakeEntry, TakeLinked, MarkCancelled, Terminate, Announce
<1>7. ASSUME NEW w \in Worker \ {Export}, Begin(w) \/ ProcessExit(w) \/ Spawn(w) \/ EndOfOutput(w) \/ WindDown(w)
      PROVE  InHand'
  <2>1. pc'[Export] = pc[Export]
    BY <1>7 DEF Begin, ProcessExit, Spawn, ReserveApplication, ReserveRuntime, CheckIds, Launch, Register,
                EndOfOutput, WindDown, WaitForExit, DropRuntime, DropApplication, Flush, Settle, SettleAs,
                Unregister, Unmark
  <2>2. proc'[Export] = proc[Export]
    BY <1>7 DEF Begin, ProcessExit, Spawn, ReserveApplication, ReserveRuntime, CheckIds, Launch, Register,
                EndOfOutput, WindDown, WaitForExit, DropRuntime, DropApplication, Flush, Settle, SettleAs,
                Unregister, Unmark
  <2>. QED
    BY <2>1, <2>2
<1>8. ASSUME NEW u \in Updater, UpdateBegin(u) \/ UpdateAbandon(u) PROVE UNCHANGED <<pc, proc>>
  BY <1>8 DEF UpdateBegin, UpdateAbandon
<1>9. CASE Others
  BY <1>1, <1>4, <1>6, <1>7, <1>8, <1>9 DEF Others, OtherSpawns, OtherEnds, OtherWinds, OtherCancels
<1>10. CASE ReadNoise \/ ReadOutcome
  BY <1>1, <1>4, <1>10, ReadingIsRead
<1>11. CASE StopTask
  BY <1>6, <1>11 DEF StopTask
<1>12. CASE UNCHANGED vars
  BY <1>1, <1>12 DEF vars
<1>. QED
  BY <1>2, <1>3, <1>5, <1>9, <1>10, <1>11, <1>12, OwnSteps DEF ExportNext, allVars

LEMMA PartStep ==
  ASSUME Inv, ExportTypeOK, PartInv, [ExportNext]_allVars
  PROVE  PartInv'
<1>. SUFFICES ASSUME part' PROVE InHand'
  BY DEF PartInv
<1>. USE DEF windowVars, renderVars, stopVars, workVars, fileVars
<1>1. CASE Mix
  <2>1. UNCHANGED <<pc, proc>> /\ Running(Export)
    BY <1>1 DEF Mix, vars
  <2>. QED
    BY <2>1, ExportFacts DEF Inv, LeaseLink, InHand, Running
<1>2. CASE CleanAfterExit
  <2>1. part /\ proc[Export] = "none"
    BY <1>2 DEF CleanAfterExit, Kept
  <2>. QED
    BY <2>1 DEF PartInv, InHand
<1>3. ASSUME ~Mix PROVE part
  <2>1. CASE OpenExport \/ CancelExport \/ Window \/ Render
    BY <2>1 DEF OpenExport, CancelExport, Window, Prepared, Rendered, Started, HearOutcome, EndExport,
       CancelStarted, Render, RegisterRender, MakeDirectory, RenderFails, RenderSucceeds, CancelRender
  <2>2. CASE Stopping \/ Worked
    BY <1>3, <2>2 DEF Stopping, StopChecksTerminal, StopChecksRunning, StopWrites, StopPolls, StopKilled,
       StopCleans, Worked, NoticeRequest, MixFails, PublishMix, ReportMix, TidyUp
  <2>3. CASE SystemStep
    BY <2>3 DEF SystemStep, Kept
  <2>4. CASE UNCHANGED allVars
    BY <2>4 DEF allVars, exportVars
  <2>. QED
    BY <2>1, <2>2, <2>3, <2>4, SplitSteps
<1>. QED
  BY <1>1, <1>2, <1>3, InHandStays DEF PartInv

LEMMA RequestStep ==
  ASSUME ExportTypeOK, RequestInv, [ExportNext]_allVars
  PROVE  RequestInv'
<1>. USE DEF ExportTypeOK, ExportFlags, ExportStates, RequestInv, windowVars, renderVars, stopVars, workVars,
             fileVars
<1>1. CASE OpenExport \/ CancelExport
  BY <1>1 DEF OpenExport, CancelExport, CancelEarly, CancelLate
<1>2. CASE Prepared \/ Rendered
  BY <1>2 DEF Prepared, Rendered, Conclude
<1>3. CASE Started
  BY <1>3 DEF Started, Conclude
<1>4. CASE HearOutcome \/ EndExport \/ CancelStarted
  BY <1>4 DEF HearOutcome, EndExport, CancelStarted, Conclude
<1>5. CASE Render
  BY <1>5 DEF Render, RegisterRender, MakeDirectory, RenderFails, RenderSucceeds, CancelRender
<1>6. CASE Stopping
  <2>1. CASE StopChecksTerminal \/ StopChecksRunning
    BY <2>1 DEF StopChecksTerminal, StopChecksRunning
  <2>2. CASE StopWrites
    BY <2>2 DEF StopWrites
  <2>3. CASE StopPolls
    BY <2>3 DEF StopPolls
  <2>4. CASE StopKilled \/ StopCleans
    BY <2>4 DEF StopKilled, StopCleans
  <2>. QED
    BY <1>6, <2>1, <2>2, <2>3, <2>4 DEF Stopping
<1>7. CASE Worked
  BY <1>7 DEF Worked, Mix, NoticeRequest, MixFails, PublishMix, ReportMix, TidyUp
<1>8. CASE SystemStep
  BY <1>8 DEF SystemStep, Alongside, Kept
<1>9. CASE UNCHANGED allVars
  BY <1>9 DEF allVars, exportVars
<1>. QED
  BY <1>1, <1>2, <1>3, <1>4, <1>5, <1>6, <1>7, <1>8, <1>9, SplitSteps DEF Window

LEMMA RenderStep ==
  ASSUME ExportTypeOK, RenderInv, [ExportNext]_allVars
  PROVE  RenderInv'
<1>. USE DEF ExportTypeOK, ExportFlags, ExportStates, RenderInv, windowVars, renderVars, stopVars, workVars,
             fileVars
<1>1. CASE OpenExport \/ CancelExport
  BY <1>1 DEF OpenExport, CancelExport, CancelEarly, CancelLate
<1>2. CASE Prepared \/ Rendered
  BY <1>2 DEF Prepared, Rendered, Conclude
<1>3. CASE Started
  BY <1>3 DEF Started, Conclude
<1>4. CASE HearOutcome \/ EndExport \/ CancelStarted
  BY <1>4 DEF HearOutcome, EndExport, CancelStarted, Conclude
<1>5. CASE Render
  BY <1>5 DEF Render, RegisterRender, MakeDirectory, RenderFails, RenderSucceeds, CancelRender
<1>6. CASE Stopping
  <2>1. CASE StopChecksTerminal \/ StopChecksRunning
    BY <2>1 DEF StopChecksTerminal, StopChecksRunning
  <2>2. CASE StopWrites
    BY <2>2 DEF StopWrites
  <2>3. CASE StopPolls
    BY <2>3 DEF StopPolls
  <2>4. CASE StopKilled \/ StopCleans
    BY <2>4 DEF StopKilled, StopCleans
  <2>. QED
    BY <1>6, <2>1, <2>2, <2>3, <2>4 DEF Stopping
<1>7. CASE Worked
  BY <1>7 DEF Worked, Mix, NoticeRequest, MixFails, PublishMix, ReportMix, TidyUp
<1>8. CASE SystemStep
  BY <1>8 DEF SystemStep, Alongside
<1>9. CASE UNCHANGED allVars
  BY <1>9 DEF allVars, exportVars
<1>. QED
  BY <1>1, <1>2, <1>3, <1>4, <1>5, <1>6, <1>7, <1>8, <1>9, SplitSteps DEF Window

(* However the export ends, whoever stops it and whatever runs beside it,  *)
(* no temporary file, no request and no render is left when all is over    *)
(* (worker.rs and cmd_export_editor_mix clean up, and so does the window), *)
(* unless the request could not be written.                                *)
THEOREM NothingEverLeftBehind == ExportSpec => []NothingLeftBehind
<1>1. ExportInit => BehindInv
  BY DEF ExportInit, BehindInv, PartInv, RequestInv, RenderInv
<1>2. BehindInv /\ Inv /\ ExportTypeOK /\ [ExportNext]_allVars => BehindInv'
  BY PartStep, RequestStep, RenderStep DEF BehindInv
<1>3. BehindInv => NothingLeftBehind
  BY DEF BehindInv, PartInv, InHand, RequestInv, RenderInv, NothingLeftBehind, AllOver
<1>4. ExportSpec => []Inv
  BY ExportIsSupervised, RegistryAlways, PTL
<1>. QED
  BY <1>1, <1>2, <1>3, <1>4, ExportTypeCorrect, PTL DEF ExportSpec
=============================================================================
