------------------------ MODULE RuntimeAccessProofs -------------------------
(***************************************************************************)
(* For every finite set of callers: the counters of the lease count its    *)
(* guards, a refusal is exact, and the counters implement the abstract     *)
(* lease, whose exclusion property follows.  For any queries, other        *)
(* callers and updates: they use both leases of the program in no other    *)
(* way, and a worker that is waited for lives within both.                 *)
(***************************************************************************)
EXTENDS SyncQuery, FiniteSetTheorems, TLAPS

(* The inductive invariant: decrementing a counter stays in Nat only       *)
(* because the counter counts the guards in existence, and dropping an     *)
(* exclusive guard may clear the flag only because it is the only one.     *)
IInv == TypeOK /\ CountersExact /\ Lease!Exclusion

(* The owners of a mode are finitely many, as are the callers.             *)
LEMMA OwnersFinite ==
  ASSUME NEW m
  PROVE  IsFiniteSet(Owners(m)) /\ Cardinality(Owners(m)) \in Nat
<1>1. Owners(m) \subseteq Holder
  BY DEF Owners
<1>. QED
  BY <1>1, HolderAssumption, FS_Subset, FS_CardinalityType

(* A counter is zero exactly when nobody owns a guard of its mode.         *)
LEMMA OwnersZero ==
  ASSUME NEW m
  PROVE  Cardinality(Owners(m)) > 0 <=> \E h \in Holder : guard[h] = m
<1>1. Cardinality(Owners(m)) = 0 <=> Owners(m) = {}
  BY OwnersFinite, FS_EmptySet
<1>2. Owners(m) # {} <=> \E h \in Holder : guard[h] = m
  BY DEF Owners
<1>. QED
  BY <1>1, <1>2, OwnersFinite

(* Granting a guard adds its owner to one mode and to no other.            *)
LEMMA OwnersAcquire ==
  ASSUME TypeOK, NEW h \in Holder, NEW m \in Mode, Acquire(h, m)
  PROVE  /\ Cardinality(Owners(m))' = Cardinality(Owners(m)) + 1
         /\ Owners(m)' = Owners(m) \cup {h}
         /\ \A n \in Mode \ {m} : Owners(n)' = Owners(n)
<1>1. Owners(m)' = Owners(m) \cup {h} /\ h \notin Owners(m)
  BY DEF Owners, Acquire, TypeOK, Mode
<1>2. \A n \in Mode \ {m} : Owners(n)' = Owners(n)
  BY DEF Owners, Acquire, TypeOK, Mode
<1>3. Cardinality(Owners(m) \cup {h}) = Cardinality(Owners(m)) + 1
  BY <1>1, OwnersFinite, FS_AddElement
<1>. QED
  BY <1>1, <1>2, <1>3

(* Dropping a guard takes its owner from one mode and from no other.       *)
LEMMA OwnersRelease ==
  ASSUME TypeOK, NEW h \in Holder, NEW m \in Mode, m = guard[h], Release(h)
  PROVE  /\ Cardinality(Owners(m))' = Cardinality(Owners(m)) - 1
         /\ Cardinality(Owners(m)) > 0
         /\ Owners(m)' = Owners(m) \ {h}
         /\ \A n \in Mode \ {m} : Owners(n)' = Owners(n)
<1>1. Owners(m)' = Owners(m) \ {h} /\ h \in Owners(m)
  BY DEF Owners, Release, TypeOK, Mode
<1>2. \A n \in Mode \ {m} : Owners(n)' = Owners(n)
  BY DEF Owners, Release, TypeOK, Mode
<1>3. Cardinality(Owners(m) \ {h}) = Cardinality(Owners(m)) - 1
  BY <1>1, OwnersFinite, FS_RemoveElement
<1>4. Cardinality(Owners(m)) > 0
  BY <1>1, OwnersZero DEF Owners
<1>. QED
  BY <1>1, <1>2, <1>3, <1>4

(* With exact counters the busy condition is the existence of an           *)
(* incompatible guard.                                                     *)
LEMMA CountersGiveBusy ==
  ASSUME TypeOK, CountersExact
  PROVE  BusyIsExact
<1>1. access.updating <=> \E h \in Holder : guard[h] = "update"
  BY DEF CountersExact, Owners
<1>2. access.users > 0 <=> \E h \in Holder : guard[h] = "user"
  BY OwnersZero DEF CountersExact
<1>3. access.installing_plugins > 0 <=> \E h \in Holder : guard[h] = "install"
  BY OwnersZero DEF CountersExact
<1>4. \A h \in Holder : guard[h] \in Mode \cup {"none"}
  BY DEF TypeOK
<1>. QED
  BY <1>1, <1>2, <1>3, <1>4 DEF BusyIsExact, Busy, Mode

(* A granted guard is compatible with every guard in existence.            *)
LEMMA AcquireExclusion ==
  ASSUME IInv, NEW h \in Holder, NEW m \in Mode, Acquire(h, m)
  PROVE  /\ \A k \in Holder : guard[k] # "none" => Lease!Compatible(guard[k], m)
         /\ Lease!Exclusion'
<1>1. BusyIsExact
  BY CountersGiveBusy DEF IInv
<1>2. \A k \in Holder : guard[k] # "none" => guard[k] = m /\ m # "update"
  BY <1>1 DEF BusyIsExact, Acquire
<1>3. guard \in [Holder -> Mode \cup {"none"}] /\ guard' = [guard EXCEPT ![h] = m]
  BY DEF IInv, TypeOK, Acquire
<1>. QED
  BY <1>2, <1>3 DEF IInv, Lease!Exclusion, Lease!Compatible

LEMMA ReleaseExclusion ==
  ASSUME IInv, NEW h \in Holder, Release(h)
  PROVE  Lease!Exclusion'
<1>1. guard \in [Holder -> Mode \cup {"none"}] /\ guard' = [guard EXCEPT ![h] = "none"]
  BY DEF IInv, TypeOK, Release
<1>. QED
  BY <1>1 DEF IInv, Lease!Exclusion, Lease!Compatible

LEMMA InitIInv == Init => IInv
<1>. SUFFICES ASSUME Init PROVE IInv
  OBVIOUS
<1>1. TypeOK
  BY DEF Init, TypeOK
<1>2. \A m \in Mode : Owners(m) = {}
  BY DEF Init, Owners, Mode
<1>3. CountersExact
  BY <1>2, FS_EmptySet DEF Init, CountersExact, Mode
<1>4. Lease!Exclusion
  BY DEF Init, Lease!Exclusion
<1>. QED
  BY <1>1, <1>3, <1>4 DEF IInv

LEMMA AcquireIInv ==
  ASSUME IInv, NEW h \in Holder, NEW m \in Mode, Acquire(h, m)
  PROVE  IInv'
<1>1. guard' \in [Holder -> Mode \cup {"none"}]
  BY DEF IInv, TypeOK, Acquire
<1>2. /\ Cardinality(Owners(m))' = Cardinality(Owners(m)) + 1
      /\ Owners(m)' = Owners(m) \cup {h}
      /\ \A n \in Mode \ {m} : Owners(n)' = Owners(n)
  BY OwnersAcquire DEF IInv
<1>3. access \in [users : Nat, updating : BOOLEAN, installing_plugins : Nat]
  BY DEF IInv, TypeOK
<1>4. Lease!Exclusion'
  BY AcquireExclusion
<1>5. CASE m = "user"
  <2>1. access' = [access EXCEPT !.users = @ + 1]
    BY <1>5 DEF Acquire
  <2>2. TypeOK'
    BY <1>1, <1>3, <2>1 DEF TypeOK
  <2>3. CountersExact'
    BY <1>2, <1>3, <1>5, <2>1 DEF IInv, CountersExact, Mode
  <2>. QED
    BY <2>2, <2>3, <1>4 DEF IInv
<1>6. CASE m = "install"
  <2>1. access' = [access EXCEPT !.installing_plugins = @ + 1]
    BY <1>6 DEF Acquire
  <2>2. TypeOK'
    BY <1>1, <1>3, <2>1 DEF TypeOK
  <2>3. CountersExact'
    BY <1>2, <1>3, <1>6, <2>1 DEF IInv, CountersExact, Mode
  <2>. QED
    BY <2>2, <2>3, <1>4 DEF IInv
<1>7. CASE m = "update"
  <2>1. access' = [access EXCEPT !.updating = TRUE]
    BY <1>7 DEF Acquire
  <2>2. TypeOK'
    BY <1>1, <1>3, <2>1 DEF TypeOK
  <2>3. CountersExact'
    BY <1>2, <1>3, <1>7, <2>1 DEF IInv, CountersExact, Mode
  <2>. QED
    BY <2>2, <2>3, <1>4 DEF IInv
<1>. QED
  BY <1>5, <1>6, <1>7 DEF Mode

LEMMA ReleaseIInv ==
  ASSUME IInv, NEW h \in Holder, NEW m \in Mode, m = guard[h], Release(h)
  PROVE  IInv'
<1>1. guard' \in [Holder -> Mode \cup {"none"}]
  BY DEF IInv, TypeOK, Release
<1>2. /\ Cardinality(Owners(m))' = Cardinality(Owners(m)) - 1
      /\ Cardinality(Owners(m)) > 0
      /\ Owners(m)' = Owners(m) \ {h}
      /\ \A n \in Mode \ {m} : Owners(n)' = Owners(n)
  BY OwnersRelease DEF IInv
<1>3. access \in [users : Nat, updating : BOOLEAN, installing_plugins : Nat]
  BY DEF IInv, TypeOK
<1>4. Lease!Exclusion'
  BY ReleaseExclusion
<1>5. CASE m = "user"
  <2>1. access' = [access EXCEPT !.users = @ - 1]
    BY <1>5 DEF Release
  <2>2. TypeOK'
    BY <1>1, <1>2, <1>3, <1>5, <2>1 DEF TypeOK, IInv, CountersExact
  <2>3. CountersExact'
    BY <1>2, <1>3, <1>5, <2>1 DEF IInv, CountersExact, Mode
  <2>. QED
    BY <2>2, <2>3, <1>4 DEF IInv
<1>6. CASE m = "install"
  <2>1. access' = [access EXCEPT !.installing_plugins = @ - 1]
    BY <1>6 DEF Release
  <2>2. TypeOK'
    BY <1>1, <1>2, <1>3, <1>6, <2>1 DEF TypeOK, IInv, CountersExact
  <2>3. CountersExact'
    BY <1>2, <1>3, <1>6, <2>1 DEF IInv, CountersExact, Mode
  <2>. QED
    BY <2>2, <2>3, <1>4 DEF IInv
<1>7. CASE m = "update"
  <2>1. access' = [access EXCEPT !.updating = FALSE]
    BY <1>7 DEF Release
  <2>2. TypeOK'
    BY <1>1, <1>3, <2>1 DEF TypeOK
  <2>3. Owners("update") \subseteq {h}
    BY <1>7 DEF IInv, Lease!Exclusion, Lease!Compatible, Owners
  <2>4. CountersExact'
    BY <1>2, <1>3, <1>7, <2>1, <2>3 DEF IInv, CountersExact, Mode
  <2>. QED
    BY <2>2, <2>4, <1>4 DEF IInv
<1>. QED
  BY <1>5, <1>6, <1>7 DEF Mode

LEMMA NextIInv == IInv /\ [Next]_accessVars => IInv'
<1>. SUFFICES ASSUME IInv, [Next]_accessVars PROVE IInv'
  OBVIOUS
<1>1. ASSUME NEW h \in Holder, NEW m \in Mode, Acquire(h, m) PROVE IInv'
  BY <1>1, AcquireIInv
<1>2. ASSUME NEW h \in Holder, Release(h) PROVE IInv'
  <2>1. guard[h] \in Mode
    BY <1>2 DEF IInv, TypeOK, Release
  <2>. QED
    BY <1>2, <2>1, ReleaseIInv
<1>3. ASSUME UNCHANGED accessVars PROVE IInv'
  BY <1>3 DEF IInv, TypeOK, CountersExact, Owners, Lease!Exclusion, accessVars
<1>. QED
  BY <1>1, <1>2, <1>3 DEF Next

LEMMA IInvAlways == Spec => []IInv
  BY InitIInv, NextIInv, PTL DEF Spec

-----------------------------------------------------------------------------
(* The counters are natural numbers in every reachable state: the usize    *)
(* decrements of the guard's destructor never wrap around.                 *)
THEOREM TypeCorrect == Spec => []TypeOK
<1>1. IInv => TypeOK
  BY DEF IInv
<1>. QED
  BY <1>1, IInvAlways, PTL

(* RuntimeAccess's counters always equal the number of guards of each mode *)
(* in existence.                                                           *)
THEOREM CountersAlwaysExact == Spec => []CountersExact
<1>1. IInv => CountersExact
  BY DEF IInv
<1>. QED
  BY <1>1, IInvAlways, PTL

(* RUNTIME_BUSY is returned exactly when an incompatible guard exists.     *)
THEOREM BusyAlwaysExact == Spec => []BusyIsExact
<1>1. IInv => BusyIsExact
  BY CountersGiveBusy DEF IInv
<1>. QED
  BY <1>1, IInvAlways, PTL

(* acquire_runtime_access and RuntimeAccessGuard::drop implement the       *)
(* abstract lease: every grant is compatible with the leases in existence. *)
THEOREM ImplementsLease == Spec => LeaseSpec
<1>1. Init => Lease!Init
  BY DEF Init, Lease!Init
<1>2. IInv /\ [Next]_accessVars => [Lease!Next]_guard
  <2>. SUFFICES ASSUME IInv, [Next]_accessVars PROVE [Lease!Next]_guard
    OBVIOUS
  <2>1. ASSUME NEW h \in Holder, NEW m \in Mode, Acquire(h, m)
        PROVE  Lease!Grant(h, m)
    BY <2>1, AcquireExclusion DEF Acquire, Lease!Grant
  <2>2. ASSUME NEW h \in Holder, Release(h) PROVE Lease!Return(h)
    BY <2>2 DEF Release, Lease!Return
  <2>. QED
    BY <2>1, <2>2 DEF Next, Lease!Next, accessVars, Mode, Lease!Mode
<1>. QED
  BY <1>1, <1>2, IInvAlways, PTL DEF Spec, LeaseSpec, Lease!Spec

(* Exclusion of the leases: pip and runtime switches never overlap any     *)
(* other lease, installations overlap installations only.                  *)
THEOREM LeasesExclude == Spec => []Lease!Exclusion
<1>1. IInv => Lease!Exclusion
  BY DEF IInv
<1>. QED
  BY <1>1, IInvAlways, PTL

-----------------------------------------------------------------------------
(* Queries and their leases.                                               *)

(* Only a call itself takes and drops its guards, in the order of the      *)
(* destructors: what the call still has to do says which it owns.          *)
QueryTypes ==
  /\ guard \in [Holder -> Mode \cup {"none"}] /\ appGuard \in [Holder -> Mode \cup {"none"}]
  /\ qpc \in [Query -> {"idle", "begun", "leased", "reading", "waiting", "joining", "dropping",
                        "returning", "leaving", "done"}]
  /\ proc \in [Query -> {"none", "running", "good", "bad"}]
  /\ helper \in [Query -> {"none", "writing", "silent"}]
Watched(q) == windows /\ HasDeadline(q) /\ helper[q] # "none"
GuardsOf(q) ==
  /\ qpc[q] \in {"idle", "begun"} => guard[q] = "none"
  /\ qpc[q] \notin {"idle", "done"} => appGuard[q] = "user"
  /\ qpc[q] \notin {"idle", "begun", "leaving", "done"} => guard[q] = QueryLease(q)
  /\ Alive(q) => qpc[q] \in {"reading", "waiting", "dropping"}
  /\ Watched(q) => qpc[q] \in {"reading", "waiting", "joining", "dropping"}
QueryInv == QueryTypes /\ \A q \in Query : GuardsOf(q)

(* A step of a call, and of whoever shares the leases.                     *)
QueryStep(q) ==
  \/ ReserveApplication(q) \/ Call(q) \/ EndOfOutput(q) \/ WaitFails(q)
  \/ TimerFires(q) \/ Stops(q) \/ Strike(q)
  \/ ProcessEnds(q) \/ HelperStarts(q) \/ HelperEnds(q)

LEMMA QuerySplit ==
  QueryNext <=> \/ \E q \in Query : QueryStep(q)
                \/ \E h \in Other : OtherCaller(h)
                \/ \E u \in Updater : ApplicationUpdate(u)
BY DEF QueryNext, QueryStep

(* What a step of a query does to the leases.                              *)
LEMMA QueryTakes ==
  ASSUME NEW q \in Query, QueryStep(q)
  PROVE  /\ UNCHANGED accessVars \/ Release(q) \/ Acquire(q, QueryLease(q))
         /\ UNCHANGED appVars \/ APP!Release(q) \/ APP!Acquire(q, "user")
         /\ UNCHANGED windows
<1>1. CASE ReserveApplication(q) \/ ReserveRuntime(q) \/ Launch(q) \/ Wait(q) \/ Join(q)
  BY <1>1 DEF ReserveApplication, ReserveRuntime, Launch, Wait, Join
<1>2. CASE DropDeadline(q) \/ DropRuntime(q) \/ DropApplication(q)
  BY <1>2 DEF DropDeadline, DropRuntime, DropApplication
<1>3. CASE EndOfOutput(q) \/ WaitFails(q) \/ TimerFires(q) \/ Stops(q)
  BY <1>3 DEF EndOfOutput, WaitFails, TimerFires, Stops
<1>4. CASE Strike(q) \/ ProcessEnds(q) \/ HelperStarts(q) \/ HelperEnds(q)
  BY <1>4 DEF Strike, Strikes, ProcessEnds, HelperStarts, HelperEnds
<1>. QED
  BY <1>1, <1>2, <1>3, <1>4 DEF QueryStep, Call

(* The queries and the other callers use the runtime lease by acquiring    *)
(* and dropping guards only, and so do the queries and the updates with    *)
(* the lease of the application.                                           *)
LEMMA StepsUseLease ==
  QueryNext => [Next]_accessVars /\ [APP!Next]_appVars
<1>. SUFFICES ASSUME QueryNext PROVE [Next]_accessVars /\ [APP!Next]_appVars
  OBVIOUS
<1>0. Query \subseteq Holder /\ Other \subseteq Holder /\ Updater \subseteq Holder
  BY QueryAssumption DEF Other
<1>1. ASSUME NEW q \in Query, QueryStep(q) PROVE [Next]_accessVars /\ [APP!Next]_appVars
  <2>1. q \in Holder
    BY <1>0
  <2>2. Acquire(q, QueryLease(q)) => QueryLease(q) \in Mode
    BY DEF Acquire
  <2>3. "user" \in APP!Mode
    BY DEF APP!Mode
  <2>4. [Next]_accessVars
    BY <1>1, <2>1, <2>2, QueryTakes DEF Next
  <2>5. [APP!Next]_appVars
    BY <1>1, <2>1, <2>3, QueryTakes DEF APP!Next, appVars
  <2>. QED
    BY <2>4, <2>5
<1>2. ASSUME NEW h \in Other, OtherCaller(h) PROVE [Next]_accessVars /\ [APP!Next]_appVars
  BY <1>0, <1>2 DEF OtherCaller, Next
<1>3. ASSUME NEW u \in Updater, ApplicationUpdate(u) PROVE [Next]_accessVars /\ [APP!Next]_appVars
  <2>. "update" \in APP!Mode /\ u \in Holder
    BY <1>0 DEF APP!Mode
  <2>. QED
    BY <1>3 DEF ApplicationUpdate, APP!Next
<1>. QED
  BY <1>1, <1>2, <1>3, QuerySplit

LEMMA QueryStart == QueryInit => QueryInv
<1>. SUFFICES ASSUME QueryInit PROVE QueryInv
  OBVIOUS
<1>1. QueryTypes
  BY QueryAssumption DEF QueryInit, Init, APP!Init, QueryTypes, Mode
<1>2. ASSUME NEW q \in Query PROVE GuardsOf(q)
  BY QueryAssumption DEF QueryInit, Init, APP!Init, GuardsOf, Alive, Watched
<1>. QED
  BY <1>1, <1>2 DEF QueryInv

(* The guards change only for the caller that takes or drops them.         *)
LEMMA GuardFrame ==
  ASSUME QueryTypes, NEW h \in Holder, NEW m \in Mode, Acquire(h, m) \/ Release(h)
  PROVE  /\ guard' \in [Holder -> Mode \cup {"none"}]
         /\ \A k \in Holder \ {h} : guard'[k] = guard[k]
         /\ Acquire(h, m) => guard'[h] = m
         /\ Release(h) => guard'[h] = "none" /\ guard[h] # "none"
BY DEF QueryTypes, Acquire, Release

LEMMA AppFrame ==
  ASSUME QueryTypes, NEW h \in Holder, NEW m \in Mode, APP!Acquire(h, m) \/ APP!Release(h)
  PROVE  /\ appGuard' \in [Holder -> Mode \cup {"none"}]
         /\ \A k \in Holder \ {h} : appGuard'[k] = appGuard[k]
         /\ APP!Acquire(h, m) => appGuard'[h] = m
         /\ APP!Release(h) => appGuard'[h] = "none"
BY DEF QueryTypes, APP!Acquire, APP!Release

(* A step of a query concerns its own place, worker and helper.            *)
LEMMA QueryFrame ==
  ASSUME QueryTypes, NEW q \in Query, QueryStep(q)
  PROVE  /\ QueryTypes'
         /\ \A p \in Query \ {q} :
              /\ qpc'[p] = qpc[p] /\ proc'[p] = proc[p] /\ helper'[p] = helper[p]
              /\ guard'[p] = guard[p] /\ appGuard'[p] = appGuard[p]
<1>0. q \in Holder /\ Query \subseteq Holder /\ "user" \in Mode /\ Mode = {"user", "update", "install"}
  BY QueryAssumption DEF Mode
<1>1. /\ guard' \in [Holder -> Mode \cup {"none"}]
      /\ \A p \in Query \ {q} : guard'[p] = guard[p]
  <2>1. CASE UNCHANGED accessVars
    BY <2>1 DEF QueryTypes, accessVars
  <2>2. CASE Release(q)
    BY <1>0, <2>2, GuardFrame
  <2>3. CASE Acquire(q, QueryLease(q))
    BY <1>0, <2>3, GuardFrame DEF Acquire
  <2>. QED
    BY <2>1, <2>2, <2>3, QueryTakes
<1>2. /\ appGuard' \in [Holder -> Mode \cup {"none"}]
      /\ \A p \in Query \ {q} : appGuard'[p] = appGuard[p]
  <2>1. CASE UNCHANGED appVars
    BY <2>1 DEF QueryTypes, appVars
  <2>2. CASE APP!Release(q) \/ APP!Acquire(q, "user")
    BY <1>0, <2>2, AppFrame
  <2>. QED
    BY <2>1, <2>2, QueryTakes
<1>3. /\ qpc' \in [Query -> {"idle", "begun", "leased", "reading", "waiting", "joining", "dropping",
                            "returning", "leaving", "done"}]
      /\ \A p \in Query \ {q} : qpc'[p] = qpc[p]
  <2>1. UNCHANGED qpc \/ \E place \in {"begun", "leased", "reading", "waiting", "joining", "dropping",
                                       "returning", "leaving", "done"} : Goto(q, place)
    BY DEF QueryStep, Call, ReserveApplication, ReserveRuntime, Launch, Wait, Join, DropDeadline,
       DropRuntime, DropApplication, EndOfOutput, WaitFails, TimerFires, Stops, Strike, Strikes, ProcessEnds,
       HelperStarts, HelperEnds
  <2>. QED
    BY <2>1 DEF QueryTypes, Goto
<1>4. /\ proc' \in [Query -> {"none", "running", "good", "bad"}]
      /\ \A p \in Query \ {q} : proc'[p] = proc[p]
  <2>1. UNCHANGED proc \/ \E s \in {"running", "good", "bad"} :
          proc' = [proc EXCEPT ![q] = s] \/ proc' = [proc EXCEPT ![q] = IF @ = "running" THEN "bad" ELSE @]
    BY DEF QueryStep, Call, ReserveApplication, ReserveRuntime, Launch, Wait, Join, DropDeadline,
       DropRuntime, DropApplication, EndOfOutput, WaitFails, TimerFires, Stops, Strike, Strikes, ProcessEnds,
       HelperStarts, HelperEnds, dogVars
  <2>. QED
    BY <2>1 DEF QueryTypes
<1>5. /\ helper' \in [Query -> {"none", "writing", "silent"}]
      /\ \A p \in Query \ {q} : helper'[p] = helper[p]
  <2>1. UNCHANGED helper \/ \E k \in {"none", "writing", "silent"} : helper' = [helper EXCEPT ![q] = k]
    <3>. helper[q] \in {"none", "writing", "silent"}
      BY DEF QueryTypes
    <3>. QED
      BY DEF QueryStep, Call, ReserveApplication, ReserveRuntime, Launch, Wait, Join, DropDeadline, CloseJob,
       DropRuntime, DropApplication, EndOfOutput, WaitFails, TimerFires, Stops, Strike, Strikes, ProcessEnds,
       HelperStarts, HelperEnds, dogVars
  <2>. QED
    BY <2>1 DEF QueryTypes
<1>. QED
  BY <1>0, <1>1, <1>2, <1>3, <1>4, <1>5 DEF QueryTypes

LEMMA QueryGuards ==
  ASSUME QueryInv, NEW q \in Query, QueryStep(q)
  PROVE  GuardsOf(q)'
<1>0. /\ QueryTypes /\ GuardsOf(q) /\ q \in Holder /\ Mode = {"user", "update", "install"}
      /\ windows' = windows
  BY QueryAssumption, QueryTakes DEF QueryInv, Mode
<1>1. CASE ReserveApplication(q)
  <2>1. /\ qpc[q] = "idle" /\ qpc'[q] \in {"begun", "done"} /\ (qpc'[q] = "begun" => appGuard'[q] = "user")
        /\ guard' = guard /\ proc' = proc /\ helper' = helper
    BY <1>0, <1>1, AppFrame DEF QueryTypes, ReserveApplication, At, Goto, accessVars
  <2>. QED
    BY <1>0, <2>1 DEF GuardsOf, Alive, Watched
<1>2. CASE ReserveRuntime(q)
  <2>1. /\ qpc[q] = "begun" /\ qpc'[q] \in {"leased", "leaving"} /\ (qpc'[q] = "leased" => guard'[q] = QueryLease(q))
        /\ appGuard' = appGuard /\ proc' = proc /\ helper' = helper
    <3>1. Acquire(q, QueryLease(q)) => guard'[q] = QueryLease(q)
      BY <1>0, GuardFrame DEF Acquire
    <3>2. QueryLease(q) = "none" /\ UNCHANGED accessVars => guard'[q] = QueryLease(q)
      BY <1>0, <1>2 DEF ReserveRuntime, At, GuardsOf, accessVars
    <3>. QED
      BY <1>0, <1>2, <3>1, <3>2 DEF QueryTypes, ReserveRuntime, At, Goto, appVars
  <2>. QED
    BY <1>0, <2>1 DEF GuardsOf, Alive, Watched
<1>3. CASE Launch(q)
  <2>1. /\ qpc[q] = "leased" /\ qpc'[q] \in {"reading", "returning"} /\ (qpc'[q] = "returning" => proc' = proc)
        /\ appGuard' = appGuard /\ guard' = guard /\ helper' = helper
    BY <1>0, <1>3 DEF QueryTypes, Launch, At, Goto, appVars, accessVars
  <2>. QED
    BY <1>0, <2>1 DEF GuardsOf, Alive, Watched
<1>4. CASE EndOfOutput(q) \/ WaitFails(q)
  <2>1. /\ qpc[q] \in {"reading", "waiting"} /\ qpc'[q] \in {"waiting", "dropping"}
        /\ appGuard' = appGuard /\ guard' = guard /\ helper' = helper /\ proc' = proc
    BY <1>0, <1>4 DEF QueryTypes, EndOfOutput, WaitFails, At, Goto, appVars, accessVars
  <2>. QED
    BY <1>0, <2>1 DEF GuardsOf, Alive, Watched
<1>5. CASE Wait(q)
  <2>1. /\ qpc[q] = "waiting" /\ ~Alive(q) /\ qpc'[q] = (IF HasDeadline(q) THEN "joining" ELSE "returning")
        /\ appGuard' = appGuard /\ guard' = guard /\ helper' = helper /\ proc' = proc
    BY <1>0, <1>5 DEF QueryTypes, Wait, At, Goto, appVars, accessVars
  <2>. QED
    BY <1>0, <2>1 DEF GuardsOf, Alive, Watched, HasDeadline
<1>6. CASE Join(q) \/ DropDeadline(q)
  <2>1. /\ qpc[q] \in {"joining", "dropping"} /\ qpc'[q] = "returning"
        /\ appGuard' = appGuard /\ guard' = guard
        /\ windows => helper'[q] = "none"
    BY <1>0, <1>6 DEF QueryTypes, Join, DropDeadline, CloseJob, At, Goto, appVars, accessVars
  <2>2. proc'[q] # "running"
    BY <1>0, <1>6 DEF QueryTypes, Join, DropDeadline, At, GuardsOf, Alive
  <2>. QED
    BY <1>0, <2>1, <2>2 DEF GuardsOf, Alive, Watched
<1>7. CASE DropRuntime(q)
  <2>1. /\ qpc[q] = "returning" /\ qpc'[q] = "leaving"
        /\ appGuard' = appGuard /\ proc' = proc /\ helper' = helper
    BY <1>0, <1>7 DEF QueryTypes, DropRuntime, At, Goto, appVars
  <2>. QED
    BY <1>0, <2>1 DEF GuardsOf, Alive, Watched
<1>8. CASE DropApplication(q)
  <2>1. /\ qpc[q] = "leaving" /\ qpc'[q] = "done" /\ proc' = proc /\ helper' = helper
    BY <1>0, <1>8 DEF QueryTypes, DropApplication, At, Goto
  <2>. QED
    BY <1>0, <2>1 DEF GuardsOf, Alive, Watched
<1>9. CASE TimerFires(q) \/ Stops(q)
  <2>1. UNCHANGED <<qpc, guard, appGuard, proc, helper>>
    BY <1>9 DEF TimerFires, Stops, appVars, accessVars
  <2>. QED
    BY <1>0, <2>1 DEF GuardsOf, Alive, Watched
<1>10. CASE Strike(q)
  <2>1. /\ UNCHANGED <<qpc, guard, appGuard>> /\ proc'[q] # "running"
        /\ windows => helper'[q] = "none"
    BY <1>0, <1>10 DEF QueryTypes, Strike, Strikes, appVars, accessVars
  <2>. QED
    BY <1>0, <2>1 DEF GuardsOf, Alive, Watched
<1>11. CASE ProcessEnds(q) \/ HelperStarts(q) \/ HelperEnds(q)
  <2>1. /\ UNCHANGED <<qpc, guard, appGuard>>
        /\ Alive(q)' => Alive(q)
        /\ helper'[q] # "none" => Alive(q) \/ helper[q] # "none"
    BY <1>0, <1>11 DEF QueryTypes, ProcessEnds, HelperStarts, HelperEnds, Alive, appVars, accessVars
  <2>. QED
    BY <1>0, <2>1 DEF GuardsOf, Alive, Watched
<1>. QED
  BY <1>1, <1>2, <1>3, <1>4, <1>5, <1>6, <1>7, <1>8, <1>9, <1>10, <1>11 DEF QueryStep, Call

LEMMA QueryKeeps ==
  QueryInv /\ [QueryNext]_allVars => QueryInv'
<1>. SUFFICES ASSUME QueryInv, [QueryNext]_allVars PROVE QueryInv'
  OBVIOUS
<1>. USE DEF QueryInv
<1>1. ASSUME NEW q \in Query, QueryStep(q) PROVE QueryInv'
  <2>1. QueryTypes' /\ GuardsOf(q)' /\ windows' = windows
    BY <1>1, QueryFrame, QueryGuards, QueryTakes
  <2>2. ASSUME NEW p \in Query \ {q} PROVE GuardsOf(p)'
    <3>1. /\ qpc'[p] = qpc[p] /\ proc'[p] = proc[p] /\ helper'[p] = helper[p]
          /\ guard'[p] = guard[p] /\ appGuard'[p] = appGuard[p]
      BY <1>1, <2>2, QueryFrame
    <3>2. GuardsOf(p)
      BY <2>2
    <3>. QED
      BY <2>1, <3>1, <3>2 DEF GuardsOf, Alive, Watched
  <2>. QED
    BY <2>1, <2>2
<1>2. ASSUME NEW h \in Other, OtherCaller(h) PROVE QueryInv'
  <2>1. h \in Holder /\ h \notin Query /\ Query \subseteq Holder
    BY QueryAssumption DEF Other
  <2>2. /\ guard' \in [Holder -> Mode \cup {"none"}] /\ \A k \in Holder \ {h} : guard'[k] = guard[k]
    <3>1. PICK m \in Mode : Acquire(h, m) \/ Release(h)
      BY <1>2 DEF OtherCaller, Mode
    <3>. QED
      BY <2>1, <3>1, GuardFrame
  <2>3. UNCHANGED <<appGuard, windows, qpc, proc, helper>>
    BY <1>2 DEF OtherCaller, appVars, queryVars
  <2>4. QueryTypes'
    BY <2>2, <2>3 DEF QueryTypes, Mode
  <2>5. ASSUME NEW p \in Query PROVE GuardsOf(p)'
    <3>1. guard'[p] = guard[p] /\ GuardsOf(p)
      BY <2>1, <2>2, <2>5
    <3>. QED
      BY <2>3, <3>1 DEF GuardsOf, Alive, Watched
  <2>. QED
    BY <2>4, <2>5
<1>3. ASSUME NEW u \in Updater, ApplicationUpdate(u) PROVE QueryInv'
  <2>1. u \in Holder /\ u \notin Query /\ Query \subseteq Holder /\ "update" \in Mode
    BY QueryAssumption DEF Other, Mode
  <2>2. /\ appGuard' \in [Holder -> Mode \cup {"none"}] /\ \A k \in Holder \ {u} : appGuard'[k] = appGuard[k]
    BY <1>3, <2>1, AppFrame DEF ApplicationUpdate
  <2>3. UNCHANGED <<guard, windows, qpc, proc, helper>>
    BY <1>3 DEF ApplicationUpdate, accessVars, queryVars
  <2>4. QueryTypes'
    BY <2>2, <2>3 DEF QueryTypes, Mode
  <2>5. ASSUME NEW p \in Query PROVE GuardsOf(p)'
    <3>1. appGuard'[p] = appGuard[p] /\ GuardsOf(p)
      BY <2>1, <2>2, <2>5
    <3>. QED
      BY <2>3, <3>1 DEF GuardsOf, Alive, Watched
  <2>. QED
    BY <2>4, <2>5
<1>4. CASE UNCHANGED allVars
  <2>1. UNCHANGED <<guard, appGuard, windows, qpc, proc, helper>>
    BY <1>4 DEF allVars, accessVars, appVars, queryVars
  <2>2. QueryTypes'
    BY <2>1 DEF QueryTypes, Mode
  <2>3. ASSUME NEW p \in Query PROVE GuardsOf(p)'
    BY <2>1, <2>3 DEF GuardsOf, Alive, Watched
  <2>. QED
    BY <2>2, <2>3
<1>. QED
  BY <1>1, <1>2, <1>3, <1>4, QuerySplit

LEMMA QueryHolds == QueryInv => QueryInsideLease
BY DEF QueryInv, GuardsOf, Watched, QueryInsideLease

(***************************************************************************)
(* A worker that a command waits for lives within both leases of its call, *)
(* and on Windows so do the helpers of one with a deadline, on every way   *)
(* out of run_worker_with_payload_inner: the value, the error, the         *)
(* timeout, and the destructor of the deadline.                            *)
(***************************************************************************)
THEOREM QueriesInsideLease == QuerySpec => []QueryInsideLease
<1>. QED
  BY QueryStart, QueryKeeps, QueryHolds, PTL DEF QuerySpec

(***************************************************************************)
(* Queries, workers in the background and updates only acquire and drop    *)
(* guards: what is proved of a lease holds of both leases of the program   *)
(* (RUNTIME_ACCESS and APPLICATION_ACCESS), whoever shares them.           *)
(***************************************************************************)
THEOREM QueriesUseLeases == QuerySpec => Spec /\ APP!Spec
<1>1. QueryInit => Init /\ APP!Init
  BY DEF QueryInit
<1>2. [QueryNext]_allVars => [Next]_accessVars /\ [APP!Next]_appVars
  BY StepsUseLease DEF allVars, appVars
<1>. QED
  BY <1>1, <1>2, PTL DEF QuerySpec, Spec, APP!Spec, appVars, APP!accessVars
=============================================================================
