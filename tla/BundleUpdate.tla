---------------------------- MODULE BundleUpdate ----------------------------
(***************************************************************************)
(* The update of an application that is one file or one directory: an      *)
(* AppImage (linux_update.rs) or a bundle of macOS (macos_update.rs).  The *)
(* running application puts the new version in place, starts it, and ends  *)
(* when it has confirmed its startup (update_startup.rs), or puts the old  *)
(* one back.  Where it may not write, a script with the rights of an       *)
(* administrator moves the bundles and is told the outcome through a file  *)
(* (macos_update/authorized.rs, scripts/install-macos-update.sh).  The     *)
(* lock of the single instance is handed to the new process                *)
(* (single_instance.rs).                                                   *)
(*                                                                         *)
(* Abstractions.  One update.  Sizes, signatures, versions and contracts   *)
(* are checks that may fail.  Waits may end at any time, so that a limit   *)
(* of time may come before anything it waits for.  The directories of      *)
(* earlier updates, the log and the request file are left out.  Writing    *)
(* the small files of the script succeeds.                                 *)
(***************************************************************************)
EXTENDS Naturals

CONSTANTS
  MaxFails,   \* bound: operations that fail
  MaxKills    \* bound: times a process is killed, or the power fails

ASSUME BoundAssumption == MaxFails \in Nat /\ MaxKills \in Nat

VARIABLES
  platform,
  target,     \* what is under the application's name
  stage,      \* what is in the directory beside it: "staged" and "rejected" are new, "backup" is old
  pc,         \* where the updater is
  route,      \* "writable", or "script" when the updater may not write
  want,       \* what the updater asks of the script
  seen,       \* the status it has read last
  finished,   \* Session.finished
  result,     \* what the update has returned
  child,      \* the new process, by the version it runs
  said,       \* the furthest it has come: "ready", or "ack" in the startup directory
  lock,       \* processes that hold the lock of the single instance
  other,      \* the user has started the application once more
  script,     \* where the script is
  phase,      \* its variable of that name
  code,       \* its exit code is 0
  status, outcome,  \* the files of its control directory
  fails, kills

fileVars    == <<target, stage>>
updaterVars == <<pc, route, want, seen, finished, result>>
childVars   == <<child, said>>
scriptVars  == <<script, phase, code, status>>
othersVars  == <<platform, other, kills>>
vars == <<fileVars, updaterVars, childVars, lock, scriptVars, outcome, othersVars, fails>>

Returned == {"done", "exited", "dead"}
Place == {"idle", "fetching", "ready", "linking", "swapping", "first", "second", "undoing",
          "launching", "waiting", "stopping", "restoring", "returning", "redoing", "signalling",
          "polling", "reaping", "quitting", "closing"} \cup Returned
ScriptPlace == {"none", "asked", "preparing", "first", "second", "installed", "checking",
                "back", "return", "redo", "finish", "cleaning", "leaving", "ended"}

TypeOK ==
  /\ platform \in {"linux", "mac"}
  /\ target \in {"old", "new", "none"} /\ stage \subseteq {"staged", "backup", "rejected"}
  /\ pc \in Place /\ route \in {"writable", "script"}
  /\ want \in {"begin", "commit", "abort", "drop"}
  /\ seen \in {"none", "installed", "committed", "aborted", "failed", "rollback-failed"}
  /\ finished \in BOOLEAN
  /\ result \in {"none", "updated", "restored", "failed", "lost"}
  /\ child \in {"none", "old", "new", "dead"} /\ said \in {"none", "ready", "ack"}
  /\ lock \subseteq {"updater", "child", "other"} /\ other \in BOOLEAN
  /\ script \in ScriptPlace /\ code \in BOOLEAN
  /\ phase \in {"preparing", "exchanging", "installed", "committed", "aborted", "rollback-failed"}
  /\ status \in {"none", "preparing", "installed", "committed", "aborted", "failed", "rollback-failed"}
  /\ outcome \in {"empty", "ready", "commit", "abort", "observed"}
  /\ fails \in 0..MaxFails /\ kills \in 0..MaxKills

Init ==
  /\ platform \in {"linux", "mac"}
  /\ target = "old" /\ stage = {}
  /\ pc = "idle" /\ route = "writable" /\ want = "begin" /\ seen = "none"
  /\ finished = FALSE /\ result = "none"
  /\ child = "none" /\ said = "none"
  /\ lock = {"updater"} /\ other = FALSE
  /\ script = "none" /\ phase = "preparing" /\ code = TRUE
  /\ status = "none" /\ outcome = "empty"
  /\ fails = 0 /\ kills = 0
-----------------------------------------------------------------------------
Linux == platform = "linux"
UpdaterAlive == pc \notin {"exited", "dead"}
ChildAlive == child \in {"old", "new"}

KeepSession == UNCHANGED <<want, seen, finished>>
KeepScript  == UNCHANGED <<scriptVars, outcome>>
KeepChild   == UNCHANGED <<childVars, lock>>
KeepOthers  == UNCHANGED othersVars

Goto(place) == pc' = place /\ UNCHANGED <<route, result>> /\ KeepSession
Return(r)   == pc' = "done" /\ result' = r /\ UNCHANGED route /\ KeepSession
Works == UNCHANGED fails
Fails == fails < MaxFails /\ fails' = fails + 1

\* A script is started for the updater that may not write (Session::begin).
Authorize ==
  /\ pc' = "polling" /\ route' = "script" /\ want' = "begin"
  /\ UNCHANGED <<seen, finished, result>>
  /\ script' = "asked"
  /\ UNCHANGED <<phase, code, status, outcome>>

-----------------------------------------------------------------------------
(* The updater up to the replacement.                                      *)

\* UPDATE_RUNNING, the gate of the workers, other windows and the location.
Begin ==
  /\ pc = "idle"
  /\ Goto("fetching") \/ Return("failed")
  /\ Works /\ UNCHANGED fileVars /\ KeepScript /\ KeepChild /\ KeepOthers

\* One source after the other is tried; a download is complete, verified and
\* on the disk, or an error.
Fetch ==
  /\ pc = "fetching"
  /\ (Goto("ready") /\ Works) \/ (Return("failed") /\ Fails)
  /\ UNCHANGED fileVars /\ KeepScript /\ KeepChild /\ KeepOthers

\* The gate is taken again, and all that may have changed during the download
\* is checked again.
Recheck ==
  /\ pc = "ready"
  /\ \/ Linux /\ Goto("linking") /\ stage' = {"staged"}
     \/ ~Linux /\ Goto("linking") /\ UNCHANGED stage
     \/ Return("failed") /\ UNCHANGED stage
  /\ Works /\ UNCHANGED target /\ KeepScript /\ KeepChild /\ KeepOthers

\* replace_image: a second name for the old file, or a copy of it.
BackUp ==
  /\ pc = "linking" /\ Linux
  /\ \/ Goto("swapping") /\ stage' = stage \cup {"backup"} /\ Works
     \/ Return("failed") /\ stage' = {} /\ Fails
  /\ UNCHANGED target /\ KeepScript /\ KeepChild /\ KeepOthers

\* One rename replaces the file; if it fails the directory is dropped.
Rename ==
  /\ pc = "swapping" /\ Linux
  /\ \/ Goto("launching") /\ target' = "new" /\ stage' = stage \ {"staged"} /\ Works
     \/ Return("failed") /\ stage' = {} /\ UNCHANGED target /\ Fails
  /\ KeepScript /\ KeepChild /\ KeepOthers

\* install_writable: a copy of the new bundle is verified beside the old one,
\* unless the old one belongs to somebody else.
StageBundle ==
  /\ pc = "linking" /\ ~Linux
  /\ \/ Goto("swapping") /\ stage' = {"staged"} /\ Works /\ KeepScript
     \/ Return("failed") /\ UNCHANGED stage /\ Fails /\ KeepScript
     \/ Authorize /\ UNCHANGED stage /\ Works
  /\ UNCHANGED target /\ KeepChild /\ KeepOthers

\* atomic_exchange leaves the old bundle where the new one was; not every file
\* system has it, and it may be denied.
Exchange ==
  /\ pc = "swapping" /\ ~Linux
  /\ \/ Goto("launching") /\ target' = "new" /\ stage' = {"backup"} /\ KeepScript
     \/ Authorize /\ stage' = {} /\ UNCHANGED target
     \/ Goto("first") /\ UNCHANGED fileVars /\ KeepScript
  /\ Works /\ KeepChild /\ KeepOthers

\* replace_bundle_with: two renames, and the first again if the second fails.
FirstRename ==
  /\ pc = "first"
  /\ \/ /\ Goto("second") /\ target' = "none" /\ stage' = stage \cup {"backup"}
        /\ Works /\ KeepScript
     \/ /\ (Return("failed") /\ KeepScript) \/ Authorize
        /\ stage' = {} /\ UNCHANGED target /\ Fails
  /\ KeepChild /\ KeepOthers

SecondRename ==
  /\ pc = "second"
  /\ \/ Goto("launching") /\ target' = "new" /\ stage' = stage \ {"staged"} /\ Works
     \/ Goto("undoing") /\ UNCHANGED fileVars /\ Fails
  /\ KeepScript /\ KeepChild /\ KeepOthers

\* The directory is removed only if it does not hold the old bundle.
UndoRename ==
  /\ pc = "undoing"
  /\ \/ /\ (Return("failed") /\ KeepScript) \/ Authorize
        /\ target' = "old" /\ stage' = {} /\ Works
     \/ Return("lost") /\ UNCHANGED fileVars /\ Fails /\ KeepScript
  /\ KeepChild /\ KeepOthers

-----------------------------------------------------------------------------
(* The new process, and what becomes of it.                                *)

\* A slip: the descriptor of the lock is closed when the new process starts.
LaunchUnlocked ==
  /\ pc = "launching"
  /\ \/ Goto("waiting") /\ target # "none" /\ child' = target /\ Works /\ UNCHANGED said
     \/ Goto("stopping") /\ UNCHANGED childVars /\ Fails
  /\ UNCHANGED <<fileVars, lock>> /\ KeepScript /\ KeepOthers

\* launch and start_replacement: the process inherits the lock.
Launch ==
  /\ pc = "launching"
  /\ \/ /\ Goto("waiting") /\ target # "none" /\ child' = target /\ Works
        /\ lock' = lock \cup {"child"}
        /\ UNCHANGED said
     \/ Goto("stopping") /\ KeepChild /\ Fails
     \/ Goto("stopping") /\ target = "none" /\ KeepChild /\ Works
  /\ UNCHANGED fileVars /\ KeepScript /\ KeepOthers

\* wait_for_acknowledgement: confirmed, and still alive a little later.
Confirmed ==
  /\ pc = "waiting"
  /\ said = "ack" /\ ChildAlive
  /\ IF route = "script"
     THEN pc' = "signalling" /\ want' = "commit" /\ UNCHANGED <<route, result, seen, finished>>
     ELSE Goto("closing")
  /\ Works /\ UNCHANGED fileVars /\ KeepScript /\ KeepChild /\ KeepOthers

\* It has ended, or the time is over.
NotConfirmed ==
  /\ pc = "waiting"
  /\ Goto("stopping")
  /\ Works /\ UNCHANGED fileVars /\ KeepScript /\ KeepChild /\ KeepOthers

StopChild ==
  /\ child' = IF child = "none" THEN "none" ELSE "dead"
  /\ lock' = lock \ {"child"}
  /\ UNCHANGED said

\* The session ends when it is dropped: if its script may still be at work, it
\* is asked to abort (Session::drop).
End(r) ==
  /\ result' = r
  /\ IF route = "script" /\ ~finished'
     THEN pc' = "signalling" /\ want' = "drop"
     ELSE pc' = "done" /\ UNCHANGED want
  /\ UNCHANGED route

\* The replacement is stopped before anything is put back.  If it cannot be,
\* the backup is kept.
Stop ==
  /\ pc = "stopping"
  /\ \/ /\ StopChild /\ Works
        /\ IF route = "script"
           THEN pc' = "signalling" /\ want' = "abort" /\ UNCHANGED <<route, result, seen, finished>>
           ELSE Goto("restoring")
     \/ ChildAlive /\ Fails /\ KeepChild /\ UNCHANGED <<seen, finished>> /\ End("lost")
  /\ UNCHANGED fileVars /\ KeepScript /\ KeepOthers

\* restore_image
RestoreImage ==
  /\ pc = "restoring" /\ Linux
  /\ \/ Return("restored") /\ target' = "old" /\ stage' = {} /\ Works
     \/ Return("lost") /\ UNCHANGED fileVars /\ Fails
  /\ KeepScript /\ KeepChild /\ KeepOthers

\* WritableInstallation::rollback, which is replace_bundle_with once more.
RejectBundle ==
  /\ pc = "restoring" /\ ~Linux
  /\ \/ /\ Goto("returning") /\ target' = "none" /\ stage' = stage \cup {"rejected"}
        /\ Works
     \/ Return("lost") /\ UNCHANGED fileVars /\ Fails
  /\ KeepScript /\ KeepChild /\ KeepOthers

RestoreBundle ==
  /\ pc = "returning"
  /\ \/ /\ Return("restored") /\ target' = "old"
        /\ (stage' = {} /\ Works) \/ (stage' = stage \ {"backup"} /\ Fails)
     \/ Goto("redoing") /\ UNCHANGED fileVars /\ Fails
  /\ KeepScript /\ KeepChild /\ KeepOthers

RedoBundle ==
  /\ pc = "redoing"
  /\ Return("lost")
  /\ \/ target' = "new" /\ stage' = stage \ {"rejected"} /\ Works
     \/ UNCHANGED fileVars /\ Fails
  /\ KeepScript /\ KeepChild /\ KeepOthers

\* The backup is removed, unless that fails, and the application exits.
Close ==
  /\ pc = "closing"
  /\ pc' = "exited" /\ result' = "updated" /\ UNCHANGED route /\ KeepSession
  /\ lock' = lock \ {"updater"}
  /\ \/ stage' = (IF route = "script" THEN stage ELSE {}) /\ Works
     \/ UNCHANGED stage /\ Fails
  /\ UNCHANGED <<target, childVars>> /\ KeepScript /\ KeepOthers

-----------------------------------------------------------------------------
(* The updater and the script.                                             *)

\* What follows from a request that has come to nothing.
Denied ==
  CASE want = "begin"  -> /\ pc' = "done" /\ UNCHANGED <<route, want, seen>>
                          /\ result' = IF seen = "rollback-failed" THEN "lost" ELSE "failed"
    [] want = "commit" -> pc' = "quitting" /\ UNCHANGED <<route, want, seen, result>>
    [] want = "abort"  -> End(IF seen = "rollback-failed" THEN "lost" ELSE "failed") /\ UNCHANGED seen
    [] want = "drop"   -> pc' = "done" /\ UNCHANGED <<route, want, seen, result>>

\* signal(): there is no transaction without its directory.
Signal ==
  /\ pc = "signalling"
  /\ IF status # "none"
     THEN /\ outcome' = IF want = "commit" THEN "commit" ELSE "abort"
          /\ Goto("polling")
     ELSE UNCHANGED <<outcome, finished>> /\ Denied
  /\ Works /\ UNCHANGED <<fileVars, scriptVars>> /\ KeepChild /\ KeepOthers

\* Session::begin sees the new version in place.
Installed ==
  /\ pc = "polling" /\ want = "begin" /\ status = "installed"
  /\ Goto("launching")
  /\ Works /\ UNCHANGED fileVars /\ KeepScript /\ KeepChild /\ KeepOthers

\* Session::begin and complete read a status that ends the transaction.
Observe ==
  /\ pc = "polling"
  /\ status \in {"aborted", "failed", "rollback-failed"}
       \cup (IF want = "begin" THEN {} ELSE {"committed"})
  /\ pc' = "reaping" /\ seen' = status /\ outcome' = "observed"
  /\ UNCHANGED <<route, want, finished, result>>
  /\ Works /\ UNCHANGED <<fileVars, scriptVars>> /\ KeepChild /\ KeepOthers

\* A slip: the status is not compared with what was asked for.
ReapAnyway ==
  /\ pc = "reaping" /\ script = "ended"
  /\ finished' = TRUE /\ UNCHANGED <<seen, route>>
  /\ CASE want = "begin"  -> pc' = "done" /\ result' = "failed" /\ UNCHANGED want
       [] want = "commit" -> pc' = "closing" /\ UNCHANGED <<want, result>>
       [] want = "abort"  -> pc' = "done" /\ result' = "restored" /\ UNCHANGED want
       [] want = "drop"   -> pc' = "done" /\ UNCHANGED <<want, result>>
  /\ Works /\ UNCHANGED fileVars /\ KeepScript /\ KeepChild /\ KeepOthers

\* The script has ended as it should have, or not.
Granted == code /\ \/ want = "commit" /\ seen = "committed"
                   \/ want \in {"abort", "drop"} /\ seen = "aborted"

Reap ==
  /\ pc = "reaping" /\ script = "ended"
  /\ IF Granted
     THEN /\ finished' = TRUE /\ UNCHANGED <<seen, route, want>>
          /\ pc' = IF want = "commit" THEN "closing" ELSE "done"
          /\ result' = IF want = "abort" THEN "restored" ELSE result
     ELSE finished' = TRUE /\ Denied
  /\ Works /\ UNCHANGED fileVars /\ KeepScript /\ KeepChild /\ KeepOthers

\* A slip: the end of the process is noticed only beside a status.
ExitNeedsStatus ==
  /\ pc = "polling" /\ script = "ended" /\ status # "none"
  /\ finished' = TRUE /\ Denied
  /\ Works /\ UNCHANGED fileVars /\ KeepScript /\ KeepChild /\ KeepOthers

\* The process is gone; a transaction without a status that ends it has failed.
PollExit ==
  /\ pc = "polling" /\ script = "ended"
  /\ finished' = TRUE /\ Denied
  /\ Works /\ UNCHANGED fileVars /\ KeepScript /\ KeepChild /\ KeepOthers

\* complete() waits 125 s, and leaves at a status it cannot read.
PollTimeout ==
  /\ pc = "polling" /\ want # "begin"
  /\ UNCHANGED finished /\ Denied
  /\ Works /\ UNCHANGED fileVars /\ KeepScript /\ KeepChild /\ KeepOthers

\* Session::begin cannot read a status: it kills osascript, not the script.
PollError ==
  /\ pc = "polling" /\ want = "begin" /\ script \notin {"asked", "ended"}
  /\ pc' = "done" /\ finished' = TRUE /\ result' = "failed"
  /\ UNCHANGED <<route, want, seen>>
  /\ Fails /\ UNCHANGED fileVars /\ KeepScript /\ KeepChild /\ KeepOthers

\* The commit was refused: the new process is stopped, and the session dropped.
Quitting ==
  /\ pc = "quitting"
  /\ UNCHANGED <<seen, finished>> /\ End("failed")
  /\ (StopChild /\ Works) \/ (ChildAlive /\ KeepChild /\ Fails)
  /\ UNCHANGED fileVars /\ KeepScript /\ KeepOthers

UpdaterStep ==
  \/ Begin \/ Fetch \/ Recheck \/ BackUp \/ Rename \/ StageBundle \/ Exchange
  \/ FirstRename \/ SecondRename \/ UndoRename \/ Launch \/ Confirmed \/ NotConfirmed
  \/ Stop \/ RestoreImage \/ RejectBundle \/ RestoreBundle \/ RedoBundle \/ Close
  \/ Signal \/ Installed \/ Observe \/ Reap \/ PollExit \/ PollTimeout \/ PollError
  \/ Quitting
-----------------------------------------------------------------------------
(* The new process.  It checks that it is the version it was started for.  *)

KeepUpdater == UNCHANGED updaterVars

\* confirm_startup with a script: the script is told first.
ChildReports ==
  /\ child = "new" /\ said = "none" /\ route = "script" /\ status # "none"
  /\ said' = "ready" /\ outcome' = "ready"
  /\ Works /\ UNCHANGED <<fileVars, child, lock, scriptVars>> /\ KeepUpdater /\ KeepOthers

ChildAcks ==
  /\ child = "new"
  /\ said = IF route = "script" THEN "ready" ELSE "none"
  /\ said' = "ack"
  /\ Works /\ UNCHANGED <<fileVars, child, lock>> /\ KeepScript /\ KeepUpdater /\ KeepOthers

ChildDies ==
  /\ ChildAlive
  /\ StopChild
  /\ Works /\ UNCHANGED fileVars /\ KeepScript /\ KeepUpdater /\ KeepOthers
-----------------------------------------------------------------------------
(* The script of the administrator.                                        *)

\* Every step of the script keeps all but the files and what is its own.
Script == UNCHANGED <<updaterVars, childVars, lock, othersVars>>

\* The user gives the password, or does not.
ScriptStart ==
  /\ script = "asked"
  /\ \/ script' = "preparing" /\ status' = "preparing" /\ UNCHANGED code
     \/ script' = "ended" /\ code' = FALSE /\ UNCHANGED status
  /\ Works /\ UNCHANGED <<phase, outcome, fileVars>> /\ Script

ScriptGoes(place) == script' = place /\ UNCHANGED <<code, status, outcome>>
\* exit 1 in the body: the trap runs finish() with a failure.
ScriptExits == script' = "finish" /\ code' = FALSE /\ UNCHANGED <<phase, status, outcome>>

\* The archive is copied, verified and unpacked, the application is the one
\* expected, and the updater is still there.
ScriptPrepare ==
  /\ script = "preparing"
  /\ \/ /\ UpdaterAlive /\ Works /\ ScriptGoes("first")
        /\ phase' = "exchanging" /\ stage' = {"staged"}
     \/ ScriptExits /\ UNCHANGED stage /\ (Fails \/ (~UpdaterAlive /\ Works))
  /\ UNCHANGED target /\ Script

\* replace_application
ScriptFirst ==
  /\ script = "first"
  /\ \/ /\ ScriptGoes("second") /\ UNCHANGED phase /\ Works
        /\ target' = "none" /\ stage' = stage \cup {"backup"}
     \/ ScriptExits /\ UNCHANGED fileVars /\ Fails
  /\ Script

ScriptSecond ==
  /\ script = "second"
  /\ \/ /\ script' = "installed" /\ phase' = "installed" /\ status' = "installed"
        /\ UNCHANGED <<code, outcome>> /\ Works
        /\ target' = "new" /\ stage' = stage \ {"staged"}
     \/ ScriptExits /\ UNCHANGED fileVars /\ Fails
  /\ Script

\* Every 0.2 s, the outcome file.
ScriptReads ==
  /\ script = "installed"
  /\ \/ /\ \/ outcome = "commit"
           \/ outcome = "ready" /\ ~UpdaterAlive /\ ChildAlive
        /\ script' = "finish" /\ phase' = "committed" /\ status' = "committed"
        /\ UNCHANGED <<code, outcome>>
     \/ outcome = "abort" /\ ScriptGoes("back") /\ UNCHANGED phase
     \/ outcome = "empty" /\ ScriptGoes("checking") /\ UNCHANGED phase
  /\ Works /\ UNCHANGED fileVars /\ Script

\* It has read an empty file: is the updater still there?
ScriptChecks ==
  /\ script = "checking"
  /\ IF UpdaterAlive THEN ScriptGoes("installed") /\ UNCHANGED phase ELSE ScriptExits
  /\ Works /\ UNCHANGED fileVars /\ Script

\* 600 rounds, or a signal while the traps are set.
ScriptTimesOut ==
  /\ script \in {"installed", "checking"}
  /\ ScriptExits
  /\ Works /\ UNCHANGED fileVars /\ Script

\* rollback() has failed: in the body of the script the trap tries once more.
RollbackFails ==
  /\ phase' = "rollback-failed" /\ code' = FALSE
  /\ script' = IF code THEN "finish" ELSE "cleaning"
  /\ UNCHANGED <<status, outcome>>

\* rollback(): what is under the name is moved away.
ScriptBack ==
  /\ script = "back"
  /\ \/ /\ ScriptGoes("return") /\ UNCHANGED phase /\ Works
        /\ target' = "none"
        /\ stage' = IF target = "none" THEN stage ELSE stage \cup {"rejected"}
     \/ Fails /\ target # "none" /\ UNCHANGED fileVars /\ RollbackFails
  /\ Script

\* The old bundle comes back.  After an abort that was asked for, the status
\* says so before the trap runs.
ScriptReturn ==
  /\ script = "return"
  /\ \/ /\ target' = "old" /\ stage' = stage \ {"backup"} /\ Works
        /\ phase' = "aborted" /\ script' = "cleaning"
        /\ status' = IF code THEN "aborted" ELSE status
        /\ UNCHANGED <<code, outcome>>
     \/ ScriptGoes("redo") /\ UNCHANGED <<phase, fileVars>> /\ Fails
  /\ Script

ScriptRedo ==
  /\ script = "redo"
  /\ RollbackFails
  /\ \/ "rejected" \in stage /\ target' = "new" /\ stage' = stage \ {"rejected"} /\ Works
     \/ "rejected" \in stage /\ UNCHANGED fileVars /\ Fails
     \/ "rejected" \notin stage /\ UNCHANGED fileVars /\ Works
  /\ Script

\* finish()
ScriptFinish ==
  /\ script = "finish"
  /\ IF phase \notin {"committed", "aborted"} /\ "backup" \in stage
     THEN ScriptGoes("back") ELSE ScriptGoes("cleaning")
  /\ Works /\ UNCHANGED <<phase, fileVars>> /\ Script

\* A slip: it is removed whatever the phase.
CleanedAlways == {}

\* The directory is removed, unless it holds what could not be put back.
CleanedStage == IF phase = "rollback-failed" THEN stage ELSE {}

ScriptCleans ==
  /\ script = "cleaning"
  /\ \/ stage' = CleanedStage /\ Works
     \/ stage # {} /\ phase # "rollback-failed" /\ UNCHANGED stage /\ Fails
  /\ status' = IF code THEN status
               ELSE IF phase = "rollback-failed" THEN "rollback-failed" ELSE "failed"
  /\ script' = "leaving"
  /\ UNCHANGED <<target, phase, code, outcome>> /\ Script

\* It waits 5 s at most for the status to be seen, and removes its directory.
ScriptLeaves ==
  /\ script = "leaving"
  /\ script' = "ended" /\ status' = "none" /\ outcome' = "empty"
  /\ Works /\ UNCHANGED <<phase, code, fileVars>> /\ Script

ScriptStep ==
  \/ ScriptPrepare \/ ScriptFirst \/ ScriptSecond \/ ScriptReads \/ ScriptChecks
  \/ ScriptBack \/ ScriptReturn \/ ScriptRedo \/ ScriptFinish \/ ScriptCleans \/ ScriptLeaves
-----------------------------------------------------------------------------
(* What goes wrong around them.                                            *)

Kills == kills < MaxKills /\ kills' = kills + 1

KillUpdater ==
  /\ UpdaterAlive /\ Kills
  /\ pc' = "dead" /\ UNCHANGED <<route, want, seen, finished, result>>
  /\ lock' = lock \ {"updater"}
  /\ Works /\ UNCHANGED <<fileVars, childVars, platform, other>> /\ KeepScript

\* Its directories stay where they are.
KillScript ==
  /\ script \notin {"none", "asked", "ended"} /\ Kills
  /\ script' = "ended" /\ code' = FALSE /\ UNCHANGED <<phase, status, outcome>>
  /\ Works /\ UNCHANGED <<fileVars, platform, other>> /\ KeepChild /\ KeepUpdater

PowerLoss ==
  /\ Kills
  /\ pc' = "dead" /\ lock' = {} /\ other' = FALSE
  /\ child' = IF child = "none" THEN "none" ELSE "dead"
  /\ script' = IF script = "none" THEN "none" ELSE "ended"
  /\ UNCHANGED <<route, want, seen, finished, result, said, phase, code, status, outcome>>
  /\ Works /\ UNCHANGED <<fileVars, platform>>

\* The user starts what is under the name: only the holder of the lock stays.
StartOther ==
  /\ lock = {} /\ target # "none"
  /\ other' = TRUE /\ lock' = {"other"}
  /\ Works /\ UNCHANGED <<fileVars, childVars, platform, kills>> /\ KeepScript /\ KeepUpdater

Next ==
  \/ UpdaterStep
  \/ ChildReports \/ ChildAcks \/ ChildDies
  \/ ScriptStart \/ ScriptStep \/ ScriptTimesOut
  \/ KillUpdater \/ KillScript \/ PowerLoss \/ StartOther

\* The updater runs to its end and the script to its own, and the waits of
\* both have limits; nobody has to give a password, and no child to start.
Fairness == WF_vars(UpdaterStep) /\ WF_vars(ScriptStep) /\ WF_vars(ScriptTimesOut)

Spec == Init /\ [][Next]_vars /\ Fairness
-----------------------------------------------------------------------------
(* What the update promises.                                               *)

\* At every moment, whatever fails, is killed or loses its power, the old
\* version is under the application's name or kept beside it, or a new one is
\* there that has been seen to start (linux_update.rs:360-377,
\* macos_update.rs:578-592 and :759-770, install-macos-update.sh:104-118).
VersionKept ==
  \/ target = "old"
  \/ "backup" \in stage
  \/ target = "new" /\ said # "none"

\* When start() has returned, what it said is what is on the disk: the new version where it has
\* been confirmed, the old one where it says that it has been restored, and a
\* backup where it says that one has been retained (macos_update.rs:759-775,
\* authorized.rs:197-216).
ReportIsTrue ==
  pc \in {"done", "exited"} =>
    /\ result = "updated"  => target = "new" /\ said = "ack"
    /\ result = "restored" => target = "old"
    /\ result = "lost"     => "backup" \in stage \/ target = "old"

\* The lock that two processes share during the update keeps a third one away
\* until both have ended (single_instance.rs:84-97, :143-197).
OneInstance == other => ~UpdaterAlive /\ ~ChildAlive

\* An update that has begun comes to rest: it asks for a password, or the
\* updater has returned and the script has ended; and if no operation failed
\* and nothing was killed, nothing is left beside the application.
AtRest ==
  /\ pc \in Returned /\ script \in {"none", "ended"}
  /\ fails = 0 /\ kills = 0 => target # "none" /\ stage = {}

UpdateEnds == (pc # "idle") ~> (script = "asked" \/ AtRest)
=============================================================================
