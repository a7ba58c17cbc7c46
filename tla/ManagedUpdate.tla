---------------------------- MODULE ManagedUpdate ----------------------------
(***************************************************************************)
(* The Windows update of the application (update_manager.rs).  A helper,   *)
(* a copy of the executable in the temporary directory, waits for the      *)
(* application to exit, moves the managed paths to a backup directory and  *)
(* the new ones into place, launches the new application, watches it for   *)
(* a while, and commits.  A marker file records the transaction, so that   *)
(* the next start of the application can recover what was interrupted, in  *)
(* a recovery helper.  A named mutex keeps two of them apart.              *)
(*                                                                         *)
(* Abstractions.  A path has one version.  ReplaceFileW, a rename and the  *)
(* replacement of the marker are atomic, the removal of a directory is     *)
(* not; the backup directory is removed when nothing in it is needed, in   *)
(* one step.  The staging directory is gone when an attempt is over.  The  *)
(* verification is the one of a portable installation, which watches the   *)
(* child itself; its 20 s outlast the first statements of main.  The       *)
(* version entry of the uninstaller fails where the launch fails.          *)
(***************************************************************************)
EXTENDS Naturals, FiniteSets, Sequences

CONSTANTS
  Apply,        \* the helper of the update
  Recoverer,    \* recovery helpers
  Instance,     \* processes of the application
  First,        \* the one that has staged the update
  Nobody,
  Had,          \* the managed paths of the installation
  Archives,     \* the sets of paths an archive may hold
  MaxFailures,  \* bound: operations that fail
  MaxCrashes,   \* bound: processes killed, or power losses
  MaxEarly      \* bound: starts of the application while something else runs

ManagedPaths == <<"python", "bin", "exe">>
Path == {"python", "bin", "exe"}
Helper == {Apply} \cup Recoverer
Process == Helper \cup Instance

ASSUME ProcessAssumption ==
  /\ First \in Instance
  /\ Apply \notin Recoverer /\ Helper \cap Instance = {} /\ Nobody \notin Process
ASSUME PathAssumption ==
  /\ Had \subseteq Path /\ {"python", "exe"} \subseteq Had
  /\ \A S \in Archives : S \subseteq Path /\ {"python", "exe"} \subseteq S
ASSUME BoundAssumption == MaxFailures \in Nat /\ MaxCrashes \in Nat /\ MaxEarly \in Nat

VARIABLES
  shipped,              \* the paths in the archive
  root, saved, staged,  \* each path in the application, backup and staging directory
  backup,               \* the backup directory exists
  marker,               \* the phase in the transaction file
  mutex,                \* who holds UPDATE_MUTEX_NAME
  pc,                   \* where each helper is
  at,                   \* index into ManagedPaths, of the helper with the mutex
  moved, replaced,      \* paths the update helper has moved and replaced
  broken,               \* rollback_partial_replacement has met a failure
  child,                \* the instance the update helper watches
  app,                  \* where each instance is
  phase,                \* the phase each instance has read
  stranded,             \* the executable could not be moved back (history)
  misread,              \* a start has ended a replacement, see ReadMarker (history)
  failures, crashes, early

fileVars   == <<root, saved, staged, backup>>
loopVars   == <<at, moved, replaced, broken>>
helperVars == <<pc, loopVars, child>>
appVars    == <<app, phase>>
historyVars == <<stranded, misread>>
boundVars  == <<failures, crashes, early>>
vars == <<shipped, fileVars, marker, mutex, helperVars, appVars, historyVars, boundVars>>

\* Where a helper, or an instance, holds the mutex.
Holding ==
  {"extracting", "backingUp", "preparing", "beginning", "replacing", "placing", "exeMoving",
   "exePlacing", "exeUndoing", "removing", "returning", "dropping", "discarding", "launching",
   "verifying", "committing", "cleaning", "restoring", "reading", "recovering", "clearing",
   "sweeping", "relaunching"}
AppHolding == {"cleaning", "spawning"}

TypeOK ==
  /\ shipped \in Archives
  /\ root \in [Path -> {"old", "new", "partial", "none"}]
  /\ saved \in [Path -> {"old", "none"}]
  /\ staged \in [Path -> {"new", "none"}]
  /\ backup \in BOOLEAN /\ broken \in BOOLEAN /\ stranded \in BOOLEAN /\ misread \in BOOLEAN
  /\ marker \in {"none", "prepared", "replacing"}
  /\ mutex \in Process \cup {Nobody}
  /\ pc \in [Helper -> Holding \cup {"off", "waiting", "locking", "relocking"}]
  /\ \A h \in Helper : pc[h] \in Holding <=> mutex = h
  /\ at \in 1..Len(ManagedPaths) + 1
  /\ moved \subseteq Path /\ replaced \subseteq Path
  /\ child \in Instance \cup {Nobody}
  /\ app \in [Instance -> AppHolding \cup {"off", "booting", "locking", "entering", "up"}]
  /\ \A i \in Instance : app[i] \in AppHolding => mutex = i
  /\ phase \in [Instance -> {"none", "prepared", "replacing"}]
  /\ failures \in 0..MaxFailures /\ crashes \in 0..MaxCrashes /\ early \in 0..MaxEarly

Empty == [p \in Path |-> "none"]

\* stage_update has run: its process keeps the mutex until it exits.
Init ==
  /\ shipped \in Archives
  /\ root = [p \in Path |-> IF p \in Had THEN "old" ELSE "none"]
  /\ saved = Empty /\ staged = Empty /\ backup = FALSE
  /\ marker = "none" /\ mutex = First
  /\ pc = [h \in Helper |-> IF h = Apply THEN "waiting" ELSE "off"]
  /\ at = 1 /\ moved = {} /\ replaced = {} /\ broken = FALSE
  /\ child = Nobody
  /\ app = [i \in Instance |-> IF i = First THEN "up" ELSE "off"]
  /\ phase = [i \in Instance |-> "none"]
  /\ stranded = FALSE /\ misread = FALSE /\ failures = 0 /\ crashes = 0 /\ early = 0

Fails == failures < MaxFailures /\ failures' = failures + 1
Works == UNCHANGED failures

Go(h, place) == pc' = [pc EXCEPT ![h] = place]
Stop(h) == Go(h, "off") /\ mutex' = Nobody
AppGo(i, place) == app' = [app EXCEPT ![i] = place]

\* apply_managed_update returns an error: its guard is dropped, and
\* run_helper_from_args goes on to recover.
Abort(h) ==
  Go(h, "relocking") /\ mutex' = Nobody

Running(i) == app[i] # "off"
Quiet == \A h \in Helper : pc[h] = "off"
Alive == {h \in Helper : pc[h] # "off"} \cup {i \in Instance : Running(i)}

\* A process of the application starts.
Launch(i) == app[i] = "off" /\ root["exe"] # "none" /\ AppGo(i, "booting")

-----------------------------------------------------------------------------
(* Waiting for the application and for the mutex.                          *)

\* Every process with the path of the executable must be gone, within 60 s.
\* Bound: that the update helper waits in vain counts as a failure.
Wait(h) ==
  /\ pc[h] = "waiting"
  /\ \/ (\A i \in Instance : ~Running(i)) /\ Go(h, "locking") /\ Works
     \/ /\ \E i \in Instance : Running(i)
        /\ \/ h = Apply /\ Fails /\ Go(h, "relocking")
           \/ h # Apply /\ Works /\ Go(h, "off")
  /\ UNCHANGED <<fileVars, marker, mutex, loopVars, child, appVars, historyVars, crashes, early>>

Lock(h) ==
  /\ pc[h] = "locking"
  /\ \/ /\ mutex = Nobody /\ mutex' = h
        /\ Go(h, IF h = Apply THEN "extracting" ELSE "reading")
        /\ Works
     \/ /\ (mutex # Nobody /\ Works) \/ Fails
        /\ Go(h, IF h = Apply THEN "relocking" ELSE "off")
        /\ UNCHANGED mutex
  /\ UNCHANGED <<fileVars, marker, loopVars, child, appVars, historyVars, crashes, early>>

-----------------------------------------------------------------------------
(* apply_managed_update.                                                   *)

Extract ==
  /\ pc[Apply] = "extracting"
  /\ \/ /\ Works /\ Go(Apply, "backingUp") /\ UNCHANGED mutex
        /\ staged' = [p \in Path |-> IF p \in shipped THEN "new" ELSE "none"]
     \/ Fails /\ Abort(Apply) /\ UNCHANGED staged
  /\ UNCHANGED <<root, saved, backup, marker, loopVars, child, appVars, historyVars, crashes, early>>

MakeBackup ==
  /\ pc[Apply] = "backingUp"
  /\ \/ Works /\ backup' = TRUE /\ Go(Apply, "preparing") /\ UNCHANGED <<staged, mutex>>
     \/ Fails /\ staged' = Empty /\ Abort(Apply) /\ UNCHANGED backup
  /\ UNCHANGED <<root, saved, marker, loopVars, child, appVars, historyVars, crashes, early>>

Prepare ==
  /\ pc[Apply] = "preparing"
  /\ \/ Works /\ marker' = "prepared" /\ Go(Apply, "beginning")
          /\ UNCHANGED <<staged, backup, mutex>>
     \/ Fails /\ staged' = Empty /\ backup' = FALSE /\ Abort(Apply) /\ UNCHANGED marker
  /\ UNCHANGED <<root, saved, loopVars, child, appVars, historyVars, crashes, early>>

\* A slip: the files are moved while the marker still says "prepared".
BeginUnmarked ==
  /\ pc[Apply] = "beginning"
  /\ Go(Apply, "replacing")
  /\ UNCHANGED <<fileVars, marker, mutex, loopVars, child, appVars, historyVars, boundVars>>

Begin ==
  /\ pc[Apply] = "beginning"
  /\ \/ Works /\ marker' = "replacing" /\ Go(Apply, "replacing") /\ UNCHANGED mutex
     \/ Fails /\ Abort(Apply) /\ UNCHANGED marker
  /\ UNCHANGED <<fileVars, loopVars, child, appVars, historyVars, crashes, early>>

\* rollback_partial_replacement starts from the first path.
Undo == Go(Apply, "removing") /\ at' = 1

\* Path p is in place; the loop goes on.
Placed(p) ==
  /\ root' = [root EXCEPT ![p] = "new"] /\ staged' = [staged EXCEPT ![p] = "none"]
  /\ replaced' = replaced \cup {p}
  /\ at' = at + 1 /\ Go(Apply, "replacing")

\* One step of remove_dir_all on a path of the application directory.
RemoveSome(p) ==
  /\ root' = [root EXCEPT ![p] = IF @ = "partial" THEN "none" ELSE "partial"]
  /\ Works

\* The saved path takes the place of whatever is there.
PutBack(p) ==
  /\ root' = [root EXCEPT ![p] = saved[p]] /\ saved' = [saved EXCEPT ![p] = "none"]

MoveOut(p) ==
  /\ saved' = [saved EXCEPT ![p] = root[p]] /\ root' = [root EXCEPT ![p] = "none"]

\* One turn of the loop over MANAGED_PATHS up to its first operation.
SkipPath(p) ==
  /\ staged[p] = "none" /\ at' = at + 1
  /\ UNCHANGED <<root, saved, staged, pc, moved, replaced, failures>>

AddPath(p) ==
  /\ staged[p] = "new" /\ root[p] = "none" /\ Go(Apply, "placing")
  /\ UNCHANGED <<root, saved, staged, at, moved, replaced, failures>>

MoveDirectory(p) ==
  /\ staged[p] = "new" /\ root[p] # "none" /\ p # "exe"
  /\ \/ Works /\ MoveOut(p) /\ moved' = moved \cup {p} /\ Go(Apply, "placing") /\ UNCHANGED at
     \/ Fails /\ Undo /\ UNCHANGED <<root, saved, moved>>
  /\ UNCHANGED <<staged, replaced>>

\* ReplaceFileW, after its retries.
SwapExecutable(p) ==
  /\ staged[p] = "new" /\ root[p] # "none" /\ p = "exe"
  /\ \/ /\ Works /\ Placed(p)
        /\ moved' = moved \cup {p} /\ saved' = [saved EXCEPT ![p] = root[p]]
     \/ /\ Fails /\ Go(Apply, "exeMoving")
        /\ UNCHANGED <<root, saved, staged, at, moved, replaced>>

Replace ==
  /\ pc[Apply] = "replacing" /\ at <= Len(ManagedPaths)
  /\ LET p == ManagedPaths[at]
     IN SkipPath(p) \/ AddPath(p) \/ MoveDirectory(p) \/ SwapExecutable(p)
  /\ UNCHANGED <<backup, marker, mutex, broken, child, appVars, historyVars, crashes, early>>

Replaced ==
  /\ pc[Apply] = "replacing" /\ at > Len(ManagedPaths)
  /\ Go(Apply, "launching") /\ staged' = Empty
  /\ UNCHANGED <<root, saved, backup, marker, mutex, loopVars, child, appVars, historyVars,
                 boundVars>>

Place ==
  /\ pc[Apply] = "placing"
  /\ \/ Works /\ Placed(ManagedPaths[at])
     \/ Fails /\ Undo /\ UNCHANGED <<root, staged, replaced>>
  /\ UNCHANGED <<saved, backup, marker, mutex, moved, broken, child, appVars, historyVars, crashes, early>>

\* replace_executable_with_moves: three operations instead of ReplaceFileW.
\* If the last one fails too, the executable is in the backup directory and
\* not among the paths moved.
MoveExe ==
  \/ /\ pc[Apply] = "exeMoving"
     /\ \/ Works /\ MoveOut("exe") /\ Go(Apply, "exePlacing") /\ UNCHANGED at
        \/ Fails /\ Undo /\ UNCHANGED <<root, saved>>
     /\ UNCHANGED <<staged, moved, replaced, stranded>>
  \/ /\ pc[Apply] = "exePlacing"
     /\ \/ Works /\ Placed("exe") /\ moved' = moved \cup {"exe"}
        \/ Fails /\ Go(Apply, "exeUndoing") /\ UNCHANGED <<root, staged, at, moved, replaced>>
     /\ UNCHANGED <<saved, stranded>>
  \/ /\ pc[Apply] = "exeUndoing"
     /\ Undo
     /\ \/ /\ Works
           /\ root' = [root EXCEPT !["exe"] = saved["exe"]]
           /\ saved' = [saved EXCEPT !["exe"] = "none"]
           /\ UNCHANGED stranded
        \/ Fails /\ stranded' = TRUE /\ UNCHANGED <<root, saved>>
     /\ UNCHANGED <<staged, moved, replaced>>

ReplaceExecutable ==
  /\ MoveExe
  /\ UNCHANGED <<backup, marker, mutex, broken, child, appVars, misread, crashes, early>>

\* rollback_partial_replacement removes what it has put in place ...
RemoveNew ==
  /\ pc[Apply] = "removing"
  /\ \/ /\ at > Len(ManagedPaths) /\ Go(Apply, "returning") /\ at' = 1
        /\ UNCHANGED <<root, broken, failures>>
     \/ /\ at <= Len(ManagedPaths)
        /\ LET p == ManagedPaths[at]
               removable == p \in replaced /\ p # "exe" /\ root[p] # "none"
           IN \/ ~removable /\ at' = at + 1 /\ UNCHANGED <<root, broken, failures>>
              \/ removable /\ RemoveSome(p) /\ UNCHANGED <<at, broken>>
              \/ removable /\ Fails /\ broken' = TRUE /\ at' = at + 1 /\ UNCHANGED root
        /\ UNCHANGED pc
  /\ UNCHANGED <<saved, staged, backup, marker, mutex, moved, replaced, child, appVars,
                 historyVars, crashes, early>>

\* ... and moves back what it has moved, as far as it can.
ReturnPath(p) ==
  \/ ~(p \in moved /\ saved[p] # "none") /\ UNCHANGED <<root, saved, broken, failures>>
  \/ /\ p \in moved /\ saved[p] # "none"
     /\ \/ (root[p] = "none" \/ p = "exe") /\ Works /\ PutBack(p) /\ UNCHANGED broken
        \/ (root[p] = "none" \/ p = "exe") /\ Fails /\ broken' = TRUE
             /\ UNCHANGED <<root, saved>>
        \/ root[p] # "none" /\ p # "exe" /\ broken' = TRUE /\ UNCHANGED <<root, saved, failures>>

ReturnMoved ==
  /\ pc[Apply] = "returning" /\ at <= Len(ManagedPaths)
  /\ ReturnPath(ManagedPaths[at]) /\ at' = at + 1
  /\ UNCHANGED <<staged, backup, marker, mutex, pc, moved, replaced, child, appVars, historyVars,
                 crashes, early>>

\* A slip: a rollback that could not return a path is taken for complete.
ReturnedAnyway ==
  /\ pc[Apply] = "returning" /\ at > Len(ManagedPaths)
  /\ staged' = Empty
  /\ Go(Apply, "dropping") /\ UNCHANGED mutex
  /\ UNCHANGED <<root, saved, backup, marker, loopVars, child, appVars, historyVars, boundVars>>

\* The marker stays if the rollback was not complete.
Returned ==
  /\ pc[Apply] = "returning" /\ at > Len(ManagedPaths)
  /\ staged' = Empty
  /\ \/ ~broken /\ Go(Apply, "dropping") /\ UNCHANGED mutex
     \/ broken /\ Abort(Apply)
  /\ UNCHANGED <<root, saved, backup, marker, loopVars, child, appVars, historyVars, boundVars>>

LaunchUpdated ==
  /\ pc[Apply] = "launching"
  /\ \/ /\ Works /\ Go(Apply, "verifying") /\ UNCHANGED at
        /\ \E i \in Instance : Launch(i) /\ child' = i
     \/ Fails /\ Go(Apply, "restoring") /\ at' = 1 /\ UNCHANGED <<app, child>>
  /\ UNCHANGED <<fileVars, marker, mutex, moved, replaced, broken, phase, historyVars, crashes, early>>

\* verify_updated_application: the child has lived through the window, or
\* has exited.
Verify ==
  /\ pc[Apply] = "verifying"
  /\ \/ app[child] = "up" /\ Go(Apply, "committing") /\ UNCHANGED at
     \/ app[child] = "off" /\ Go(Apply, "restoring") /\ at' = 1
  /\ UNCHANGED <<fileVars, marker, mutex, moved, replaced, broken, child, appVars, historyVars,
                 boundVars>>

\* A slip: the backup is removed before the marker.
CommitBackupFirst ==
  /\ pc[Apply] = "committing"
  /\ \/ backup /\ backup' = FALSE /\ saved' = Empty /\ UNCHANGED <<marker, pc>>
     \/ ~backup /\ marker' = "none" /\ Go(Apply, "cleaning") /\ UNCHANGED <<backup, saved>>
  /\ UNCHANGED <<root, staged, mutex, loopVars, child, appVars, historyVars, boundVars>>

Commit ==
  /\ pc[Apply] = "committing"
  /\ \/ Works /\ marker' = "none" /\ Go(Apply, "cleaning") /\ UNCHANGED mutex
     \/ Fails /\ Abort(Apply) /\ UNCHANGED marker
  /\ UNCHANGED <<fileVars, loopVars, child, appVars, historyVars, crashes, early>>

-----------------------------------------------------------------------------
(* Recovery: after an error, in a recovery helper, and as the rollback of  *)
(* an update whose application does not start.                             *)

\* recover_or_relaunch waits for nothing.
Relock ==
  /\ pc[Apply] = "relocking"
  /\ \/ mutex = Nobody /\ Works /\ mutex' = Apply /\ Go(Apply, "reading")
     \/ ((mutex # Nobody /\ Works) \/ Fails) /\ Go(Apply, "off") /\ UNCHANGED mutex
  /\ UNCHANGED <<fileVars, marker, loopVars, child, appVars, historyVars, crashes, early>>

\* read_update_transaction, and the cases without files to restore.
ReadTransaction(h) ==
  /\ pc[h] = "reading"
  /\ \/ /\ marker = "none"
        /\ \/ h = Apply /\ Go(h, "relaunching") /\ UNCHANGED mutex
           \/ h # Apply /\ Stop(h)
        /\ UNCHANGED <<marker, at, failures>>
     \/ /\ marker = "prepared" /\ ~backup
        /\ \/ Works /\ marker' = "none" /\ Go(h, "relaunching") /\ UNCHANGED mutex
           \/ Fails /\ Stop(h) /\ UNCHANGED marker
        /\ UNCHANGED at
     \/ /\ marker = "replacing" /\ ~backup
        /\ Stop(h) /\ UNCHANGED <<marker, at, failures>>
     \/ marker # "none" /\ Fails /\ Stop(h) /\ UNCHANGED <<marker, at>>
     \/ /\ marker # "none" /\ backup
        /\ Go(h, "recovering") /\ at' = 1 /\ UNCHANGED <<marker, mutex, failures>>
  /\ UNCHANGED <<fileVars, moved, replaced, broken, child, appVars, historyVars, crashes, early>>

\* One operation of restore_portable_backup on path p.
RestorePath(p) ==
  \/ saved[p] = "none" /\ at' = at + 1 /\ UNCHANGED <<root, saved, failures>>
  \/ saved[p] # "none" /\ (root[p] = "none" \/ p = "exe")
       /\ Works /\ PutBack(p) /\ at' = at + 1
  \/ saved[p] # "none" /\ root[p] # "none" /\ p # "exe" /\ RemoveSome(p)
       /\ UNCHANGED <<at, saved>>

Restore(h) ==
  /\ pc[h] \in {"restoring", "recovering"}
  /\ \/ /\ at <= Len(ManagedPaths)
        /\ RestorePath(ManagedPaths[at])
        /\ UNCHANGED <<pc, mutex>>
     \/ /\ at > Len(ManagedPaths)
        /\ Go(h, IF pc[h] = "restoring" THEN "dropping" ELSE "clearing")
        /\ UNCHANGED <<root, saved, at, mutex, failures>>
     \/ /\ at <= Len(ManagedPaths) /\ saved[ManagedPaths[at]] # "none"
        /\ Fails /\ IF pc[h] = "restoring" THEN Abort(h) ELSE Stop(h)
        /\ UNCHANGED <<root, saved, at>>
  /\ UNCHANGED <<staged, backup, marker, moved, replaced, broken, child, appVars, historyVars,
                 crashes, early>>

\* The transaction is over: remove_update_transaction after a rollback,
\* clear_recovered_transaction after a recovery.
DropMarker(h) ==
  /\ pc[h] \in {"dropping", "clearing"}
  /\ \/ Works /\ marker' = "none" /\ UNCHANGED mutex
          /\ Go(h, IF pc[h] = "dropping" THEN "discarding" ELSE "sweeping")
     \/ Fails /\ (IF pc[h] = "dropping" THEN Abort(h) ELSE Stop(h)) /\ UNCHANGED marker
  /\ UNCHANGED <<fileVars, loopVars, child, appVars, historyVars, crashes, early>>

\* remove_dir_all(backup), whose errors are ignored.
Discard(h) ==
  /\ pc[h] \in {"discarding", "cleaning", "sweeping"}
  /\ \/ Works /\ backup' = FALSE /\ saved' = Empty
     \/ Fails /\ UNCHANGED <<backup, saved>>
  /\ \/ pc[h] = "discarding" /\ Abort(h)
     \/ pc[h] = "cleaning" /\ Stop(h)
     \/ pc[h] = "sweeping" /\ Go(h, "relaunching") /\ UNCHANGED mutex
  /\ UNCHANGED <<root, staged, marker, loopVars, child, appVars, historyVars, crashes, early>>

\* relaunch_application_if_needed.
Relaunch(h) ==
  /\ pc[h] = "relaunching"
  /\ Stop(h)
  /\ \/ (\E i \in Instance : Running(i)) /\ Works /\ UNCHANGED app
     \/ (\A i \in Instance : ~Running(i)) /\ Works /\ \E i \in Instance : Launch(i)
     \/ (\A i \in Instance : ~Running(i)) /\ root["exe"] = "none" /\ Works /\ UNCHANGED app
     \/ (\A i \in Instance : ~Running(i)) /\ Fails /\ UNCHANGED app
  /\ UNCHANGED <<fileVars, marker, loopVars, child, phase, historyVars, crashes, early>>

-----------------------------------------------------------------------------
(* The application.                                                        *)

\* The user starts it, perhaps while a helper or another start is at work.
\* A start beside a running application would end at once.
Start(i) ==
  /\ \A j \in Instance : app[j] # "up"
  /\ Launch(i)
  /\ \/ Alive = {} /\ UNCHANGED early
     \/ Alive # {} /\ early < MaxEarly /\ early' = early + 1
  /\ UNCHANGED <<fileVars, marker, mutex, helperVars, phase, historyVars, failures, crashes>>

\* recover_interrupted_update_from_startup reads the marker; one it cannot
\* read is put aside, if that works, and the start goes on ...
ReadMarker(i) ==
  /\ app[i] = "booting"
  /\ \/ /\ Works
        /\ phase' = [phase EXCEPT ![i] = marker]
        /\ AppGo(i, IF marker = "none" THEN "entering" ELSE "locking")
        /\ UNCHANGED <<marker, misread>>
     \/ /\ marker # "none" /\ Fails
        /\ AppGo(i, "entering") /\ marker' \in {marker, "none"}
        /\ misread' = (misread \/ (marker = "replacing" /\ marker' = "none"))
        /\ UNCHANGED phase
  /\ UNCHANGED <<fileVars, mutex, helperVars, stranded, crashes, early>>

\* A slip: a start that finds the mutex taken gives up.
ExitIfBusy(i) ==
  /\ app[i] = "locking"
  /\ \/ /\ mutex = Nobody /\ mutex' = i
        /\ AppGo(i, IF phase[i] = "prepared" THEN "cleaning" ELSE "spawning")
     \/ mutex # Nobody /\ AppGo(i, "off") /\ UNCHANGED mutex
  /\ UNCHANGED <<fileVars, marker, helperVars, phase, historyVars, boundVars>>

\* ... and then takes the mutex; if an updater has it, the start goes on, if
\* there is no mutex to be had it ends.
TryMutex(i) ==
  /\ app[i] = "locking"
  /\ \/ /\ mutex = Nobody /\ mutex' = i /\ Works
        /\ AppGo(i, IF phase[i] = "prepared" THEN "cleaning" ELSE "spawning")
     \/ mutex # Nobody /\ AppGo(i, "entering") /\ UNCHANGED <<mutex, failures>>
     \/ Fails /\ AppGo(i, "off") /\ UNCHANGED mutex
  /\ UNCHANGED <<fileVars, marker, helperVars, phase, historyVars, crashes, early>>

\* cleanup_prepared_transaction: whatever fails, the start goes on.
CleanPrepared(i) ==
  /\ app[i] = "cleaning"
  /\ AppGo(i, "entering") /\ mutex' = Nobody
  /\ \/ Works /\ backup' = FALSE /\ saved' = Empty /\ marker' = "none"
     \/ Fails /\ backup' = FALSE /\ saved' = Empty /\ UNCHANGED marker
     \/ Fails /\ UNCHANGED <<backup, saved, marker>>
  /\ misread' = (misread \/ (marker = "replacing" /\ ~backup'))
  /\ UNCHANGED <<root, staged, helperVars, phase, stranded, crashes, early>>

\* Bound: as many recovery helpers at a time as Recoverer has; more than
\* MaxEarly are never needed at once.
SpawnRecovery(i) ==
  /\ app[i] = "spawning"
  /\ AppGo(i, "off") /\ mutex' = Nobody
  /\ \/ Works /\ \E h \in Recoverer : pc[h] = "off" /\ Go(h, "waiting")
     \/ Fails /\ UNCHANGED pc
  /\ UNCHANGED <<fileVars, marker, loopVars, child, phase, historyVars, crashes, early>>

\* single_instance::acquire_or_focus.
Enter(i) ==
  /\ app[i] = "entering"
  /\ AppGo(i, IF \E j \in Instance : app[j] = "up" THEN "off" ELSE "up")
  /\ UNCHANGED <<fileVars, marker, mutex, helperVars, phase, historyVars, boundVars>>

Ended(i) == AppGo(i, "off") /\ mutex' = IF mutex = i THEN Nobody ELSE mutex

\* The application restarts for the update.  Bound: later the user quits
\* only if a transaction waits for the next start.
Quit(i) ==
  /\ app[i] = "up"
  /\ (i = First /\ pc[Apply] = "waiting") \/ (Quiet /\ marker # "none")
  /\ Ended(i)
  /\ UNCHANGED <<fileVars, marker, helperVars, phase, historyVars, boundVars>>

-----------------------------------------------------------------------------
(* Processes end, and with them what they hold.                            *)

Kill(S) ==
  /\ crashes < MaxCrashes /\ crashes' = crashes + 1
  /\ pc' = [h \in Helper |-> IF h \in S THEN "off" ELSE pc[h]]
  /\ app' = [i \in Instance |-> IF i \in S THEN "off" ELSE app[i]]
  /\ mutex' = IF mutex \in S THEN Nobody ELSE mutex
  /\ UNCHANGED <<fileVars, marker, loopVars, child, phase, historyVars, failures, early>>

\* One process is killed, or the machine loses power.
Crash == Alive # {} /\ (Kill(Alive) \/ \E p \in Alive : Kill({p}))

Update ==
  \/ Extract \/ MakeBackup \/ Prepare \/ Begin \/ Replace \/ Replaced \/ Place
  \/ ReplaceExecutable \/ RemoveNew \/ ReturnMoved \/ Returned \/ LaunchUpdated \/ Verify
  \/ Commit \/ Relock

Recover(h) ==
  \/ Wait(h) \/ Lock(h) \/ ReadTransaction(h) \/ Restore(h) \/ DropMarker(h) \/ Discard(h)
  \/ Relaunch(h)

Boot(i) ==
  ReadMarker(i) \/ TryMutex(i) \/ CleanPrepared(i) \/ SpawnRecovery(i) \/ Enter(i)

Next ==
  /\ \/ Update
     \/ \E h \in Helper : Recover(h)
     \/ \E i \in Instance : Boot(i) \/ Start(i) \/ Quit(i)
     \/ Crash
  /\ UNCHANGED shipped

Spec == Init /\ [][Next]_vars

\* Processes run; the user starts the application when nothing runs, and
\* closes it some time after an interrupted update.
Fairness ==
  /\ WF_vars(Update /\ UNCHANGED shipped)
  /\ \A h \in Helper : WF_vars(Recover(h) /\ UNCHANGED shipped)
  /\ \A i \in Instance : WF_vars(Boot(i) /\ UNCHANGED shipped) /\ WF_vars(Quit(i) /\ UNCHANGED shipped)
  /\ WF_vars(Alive = {} /\ \E i \in Instance : Start(i) /\ UNCHANGED shipped)

FairSpec == Spec /\ Fairness

-----------------------------------------------------------------------------
(* Properties.                                                             *)

AllOld == \A p \in Had : root[p] = "old"
AllNew == /\ \A p \in shipped : root[p] = "new"
          /\ \A p \in Had \ shipped : root[p] = "old"

(***************************************************************************)
(* The original of every managed path exists, in place or in the backup    *)
(* directory, until the update has been committed: no failure, crash,      *)
(* restart or early start in the middle of replacing, rolling back or      *)
(* recovering loses it.  Two known ways are excepted by name: an           *)
(* executable that could not be moved back, and a start that ends the      *)
(* transaction of a replacement because the phase it has read is over, or  *)
(* because it could not read the marker.                                   *)
(***************************************************************************)
OriginalKept ==
  stranded \/ misread \/ (marker = "none" /\ AllNew)
    \/ \A p \in Had : root[p] = "old" \/ saved[p] = "old"

(***************************************************************************)
(* Without a transaction marker the installation is one version: whoever   *)
(* removes or quarantines the marker has completed what it stands for.     *)
(***************************************************************************)
WholeUnlessMarked == marker = "none" => stranded \/ misread \/ AllOld \/ AllNew

(***************************************************************************)
(* When failures and crashes have come to an end, starting the application *)
(* again leads to a running application on a whole installation without a  *)
(* marker, unless the executable itself is gone.                           *)
(***************************************************************************)
Recovers ==
  \/ <>[](stranded \/ misread \/ root["exe"] = "none")
  \/ <>[](marker = "none" /\ (AllOld \/ AllNew) /\ \E i \in Instance : app[i] = "up")

(***************************************************************************)
(* Without failures and crashes, and if the user starts nothing while the  *)
(* files are replaced, the update is installed and runs, although the new  *)
(* application starts while the marker and the mutex are there.            *)
(***************************************************************************)
UpdateSucceeds ==
  [](failures = 0 /\ crashes = 0 /\ early = 0)
    => <>[](AllNew /\ marker = "none" /\ \E i \in Instance : app[i] = "up")

(***************************************************************************)
(* "an interrupted update can still boot the old UI and recover" (comment  *)
(* on MANAGED_PATHS): when no helper works the executable is there.        *)
(***************************************************************************)
InterruptedBoots == Quiet => root["exe"] # "none"
=============================================================================
