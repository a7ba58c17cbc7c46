---------------------------- MODULE DirMigration ----------------------------
(***************************************************************************)
(* The move of the models to another directory.  A thread of the backend   *)
(* copies the files and asks about those that are in the target already    *)
(* (model_dir_migration.rs); the settings store of the main window shows a *)
(* dialog that follows its events, switches the setting when the copy is   *)
(* complete, and then has the old directory removed (stores/settings.ts).  *)
(*                                                                         *)
(* Abstractions.  A file is whole or not; sizes, paths, the check of the   *)
(* free space and the counts shown are left out, and files are copied in   *)
(* any order.  One window, and one migration at a time (the dialog is      *)
(* modal).  Failures are file operations or calls that return an error.    *)
(***************************************************************************)
EXTENDS Naturals, Sequences

CONSTANTS
  File,       \* relative paths of files
  None,
  MaxFails,   \* bound: operations that fail
  MaxCrashes  \* bound: times the application dies

ASSUME BoundAssumption == MaxFails \in Nat /\ MaxCrashes \in Nat

VARIABLES
  models,     \* the files in the source directory at first
  src,        \* those that are still there
  tgt,        \* each file in the target: an old one, part of the new, or the new
  kept,       \* files the user chose to skip (history)
  setting,    \* modelDir of the settings store
  saved,      \* modelDir in app-settings
  pc,         \* where the thread of the migration is
  todo, cur,  \* files left to copy; the one that is being copied
  choice,     \* default_resolution
  pending,    \* pending_conflict of the session
  answer,     \* resolution of the session
  payload,    \* finalize_payload of the session
  events,     \* events on their way to the window
  status,     \* status of the dialog
  ask,        \* the call of respond_model_dir_migration_conflict, or its reply
  fin,        \* where finalizeModelDirSwitch is
  overtaken,  \* the dialog ended before the reply to an answer came (history)
  unsaved,    \* the application died with a setting that was not saved (history)
  fails, crashes

diskVars   == <<models, src, tgt, kept>>
threadVars == <<pc, todo, cur, choice>>
sessionVars == <<pending, answer, payload>>
dialogVars == <<status, ask, fin, overtaken>>
countVars  == <<unsaved, fails, crashes>>
vars == <<diskVars, setting, saved, threadVars, sessionVars, events, dialogVars, countVars>>

Resolution == {"overwrite", "skip", "abort"}
Event == {"started", "progress", "conflict", "ready", "done", "failed"}
Ended == {"success", "failed"}
Migrating == {"running", "conflict", "finalizing"}

DiskTypes ==
  /\ models \subseteq File /\ src \subseteq models /\ kept \subseteq models
  /\ tgt \in [File -> {"none", "old", "part", "new"}]
  /\ todo \subseteq models /\ cur \in File \cup {None}

StateTypes ==
  /\ setting \in {"src", "tgt"} /\ saved \in {"src", "tgt"}
  /\ pc \in {"none", "asked", "scan", "next", "emitted", "waiting", "copy", "failed"}
  /\ choice \in {None, "overwrite", "skip"} /\ answer \in Resolution \cup {None}
  /\ status \in Migrating \cup Ended \cup {"idle", "confirm"}
  /\ ask \in Resolution \cup {"idle", "accepted", "refused"}
  /\ fin \in {"idle", "refresh", "confirm", "cleaning", "cancel"}
  /\ fails \in 0 .. MaxFails /\ crashes \in 0 .. MaxCrashes

FlagTypes ==
  /\ pending \in BOOLEAN /\ payload \in BOOLEAN
  /\ overtaken \in BOOLEAN /\ unsaved \in BOOLEAN

TypeOK == DiskTypes /\ StateTypes /\ FlagTypes /\ events \in Seq(Event)

Init ==
  /\ models \in SUBSET File /\ src = models
  /\ tgt \in [File -> {"none", "old"}] /\ kept = {}
  /\ setting = "src" /\ saved = "src"
  /\ pc = "none" /\ todo = {} /\ cur = None /\ choice = None
  /\ pending = FALSE /\ answer = None /\ payload = FALSE
  /\ events = <<>>
  /\ status = "idle" /\ ask = "idle" /\ fin = "idle" /\ overtaken = FALSE
  /\ unsaved = FALSE /\ fails = 0 /\ crashes = 0

Emit(e) == events' = Append(events, e)
Failing == fails < MaxFails /\ fails' = fails + 1

-----------------------------------------------------------------------------
(* The dialog, until the migration starts.                                 *)

\* prepareModelDirChange: nothing to move, and the setting changes at once; or
\* the user is asked.
Prepare ==
  /\ status = "idle" /\ setting = "src"
  /\ IF src = {} THEN setting' = "tgt" /\ UNCHANGED status
                 ELSE status' = "confirm" /\ UNCHANGED setting
  /\ UNCHANGED <<diskVars, saved, threadVars, sessionVars, events, ask, fin, overtaken, countVars>>

\* cancelModelDirChangeConfirmation, clearModelDirMigrationState.
Dismiss ==
  /\ status \in {"confirm"} \cup Ended /\ status' = "idle"
  /\ UNCHANGED <<diskVars, setting, saved, threadVars, sessionVars, events, ask, fin, overtaken,
                 countVars>>

Confirm ==
  /\ status = "confirm" /\ status' = "running"
  /\ pc' = "asked"
  /\ UNCHANGED <<diskVars, setting, saved, todo, cur, choice, sessionVars, events, ask, fin,
                 overtaken, countVars>>

\* start_model_dir_migration makes the session and the thread.
Start ==
  /\ pc = "asked" /\ pc' = "scan" /\ choice' = None
  /\ pending' = FALSE /\ answer' = None /\ payload' = FALSE
  /\ UNCHANGED <<diskVars, setting, saved, todo, cur, events, dialogVars, countVars>>

\* The application is being closed or updated.
Refuse ==
  /\ pc = "asked" /\ pc' = "none" /\ status' = "confirm" /\ Failing
  /\ UNCHANGED <<diskVars, setting, saved, todo, cur, choice, sessionVars, events, ask, fin,
                 overtaken, unsaved, crashes>>

-----------------------------------------------------------------------------
(* The thread.                                                             *)

Scan ==
  /\ pc = "scan" /\ pc' = "next" /\ todo' = src /\ Emit("started")
  /\ UNCHANGED <<diskVars, setting, saved, cur, choice, sessionVars, dialogVars, countVars>>

\* copy_entry removes what it may overwrite, and then writes.
BeginCopy(f) ==
  /\ pc' = "copy" /\ cur' = f /\ tgt' = [tgt EXCEPT ![f] = "part"]
  /\ UNCHANGED <<todo, kept, events>>

Skip(f) ==
  /\ todo' = todo \ {f} /\ kept' = kept \cup {f} /\ Emit("progress")
  /\ UNCHANGED <<pc, cur, tgt>>

\* The window hears of a conflict before the session waits for the answer.
Announce ==
  /\ pc' = "emitted" /\ Emit("conflict")
  /\ UNCHANGED <<todo, cur, tgt, kept>>

NextFile(f) ==
  /\ pc = "next" /\ f \in todo
  /\ \/ tgt[f] = "none" /\ BeginCopy(f)
     \/ tgt[f] # "none" /\ choice = "overwrite" /\ BeginCopy(f)
     \/ tgt[f] # "none" /\ choice = "skip" /\ Skip(f)
     \/ tgt[f] # "none" /\ choice = None /\ Announce
  /\ UNCHANGED <<models, src, setting, saved, choice, sessionVars, dialogVars, countVars>>

EndCopy ==
  /\ pc = "copy" /\ pc' = "next"
  /\ tgt' = [tgt EXCEPT ![cur] = "new"] /\ todo' = todo \ {cur} /\ cur' = None
  /\ Emit("progress")
  /\ UNCHANGED <<models, src, kept, setting, saved, choice, sessionVars, dialogVars, countVars>>

\* wait_for_resolution.
Wait ==
  /\ pc = "emitted" /\ pc' = "waiting" /\ pending' = TRUE /\ answer' = None
  /\ UNCHANGED <<diskVars, setting, saved, todo, cur, choice, payload, events, dialogVars,
                 countVars>>

\* The answer holds for the files that follow, this one among them; "abort" is
\* an error like any other.
Resolve ==
  /\ pc = "waiting" /\ answer # None
  /\ pending' = FALSE /\ answer' = None
  /\ IF answer = "abort" THEN pc' = "failed" /\ UNCHANGED choice
                         ELSE pc' = "next" /\ choice' = answer
  /\ UNCHANGED <<diskVars, setting, saved, todo, cur, payload, events, dialogVars, countVars>>

FileFails ==
  /\ pc \in {"scan", "next", "copy"} /\ pc' = "failed" /\ Failing
  /\ UNCHANGED <<diskVars, setting, saved, todo, cur, choice, sessionVars, events, dialogVars,
                 unsaved, crashes>>

\* A slip: the switch is offered before the last file has been copied.
ReadyBeforeLast ==
  /\ pc = "copy" /\ todo = {cur} /\ ~payload /\ payload' = TRUE /\ Emit("ready")
  /\ UNCHANGED <<diskVars, setting, saved, threadVars, pending, answer, dialogVars, countVars>>

\* The thread ends, and its session stays for the switch.
Ready ==
  /\ pc = "next" /\ todo = {} /\ pc' = "none" /\ payload' = TRUE /\ Emit("ready")
  /\ UNCHANGED <<diskVars, setting, saved, todo, cur, choice, pending, answer, dialogVars,
                 countVars>>

\* The test for an abort by the user (line 828) looks for the bare message, but
\* the text of an error begins with its kind (error.rs): the event is always
\* model_dir_migration_failed.
EndEarly ==
  /\ pc = "failed" /\ pc' = "none" /\ todo' = {} /\ cur' = None /\ Emit("failed")
  /\ UNCHANGED <<diskVars, setting, saved, choice, sessionVars, dialogVars, countVars>>

-----------------------------------------------------------------------------
(* The dialog, while the migration runs.                                   *)

\* resolveModelDirConflict; the buttons are disabled until the reply.
Answer(r) ==
  /\ status = "conflict" /\ ask = "idle" /\ ask' = r
  /\ UNCHANGED <<diskVars, setting, saved, threadVars, sessionVars, events, status, fin, overtaken,
                 countVars>>

\* A slip: an answer is taken although nobody waits for it yet.
RespondEarly ==
  /\ ask \in Resolution /\ ask' = "accepted" /\ answer' = ask
  /\ UNCHANGED <<diskVars, setting, saved, threadVars, pending, payload, events, status, fin,
                 overtaken, countVars>>

\* respond_model_dir_migration_conflict.
Respond ==
  /\ ask \in Resolution
  /\ IF pending THEN ask' = "accepted" /\ answer' = ask
                ELSE ask' = "refused" /\ UNCHANGED answer
  /\ UNCHANGED <<diskVars, setting, saved, threadVars, pending, payload, events, status, fin,
                 overtaken, countVars>>

\* The reply sets the status, whatever has happened meanwhile.
AnswerReply ==
  /\ ask \in {"accepted", "refused"} /\ ask' = "idle"
  /\ status' = IF ask = "accepted" THEN "running" ELSE status
  /\ UNCHANGED <<diskVars, setting, saved, threadVars, sessionVars, events, fin, overtaken,
                 countVars>>

StatusAfter(e) ==
  CASE e \in {"started", "progress"} -> "running"
    [] e = "ready" -> "finalizing"
    [] e = "done" -> "success"
    [] OTHER -> e

\* handleWorkerEvent; "ready" begins finalizeModelDirSwitch.
HandleEvent ==
  /\ events # <<>> /\ events' = Tail(events)
  /\ LET e == Head(events) IN
     /\ status' = StatusAfter(e)
     /\ setting' = IF e \in {"ready", "done"} THEN "tgt" ELSE setting
     /\ fin' = IF e = "ready" THEN "refresh" ELSE fin
     /\ overtaken' = (overtaken \/ (StatusAfter(e) \in Ended /\ ask # "idle"))
  /\ UNCHANGED <<diskVars, saved, threadVars, sessionVars, ask, countVars>>

-----------------------------------------------------------------------------
(* finalizeModelDirSwitch and confirm_model_dir_migration_switch.          *)

Refresh ==
  /\ fin = "refresh" /\ fin' = "confirm"
  /\ UNCHANGED <<diskVars, setting, saved, threadVars, sessionVars, events, status, ask, overtaken,
                 countVars>>

TakePayload ==
  /\ fin = "confirm" /\ payload /\ payload' = FALSE /\ fin' = "cleaning"
  /\ UNCHANGED <<diskVars, setting, saved, threadVars, pending, answer, events, status, ask,
                 overtaken, countVars>>

RemoveFile(f) ==
  /\ fin = "cleaning" /\ f \in src /\ src' = src \ {f}
  /\ UNCHANGED <<models, tgt, kept, setting, saved, threadVars, sessionVars, events, dialogVars,
                 countVars>>

\* cleanup_source_tree gives up at a file that it cannot remove.
EndCleaning ==
  /\ fin = "cleaning" /\ (src = {} \/ fails < MaxFails)
  /\ fails' = IF src = {} THEN fails ELSE fails + 1
  /\ fin' = "idle" /\ Emit("done")
  /\ UNCHANGED <<diskVars, setting, saved, threadVars, sessionVars, status, ask, overtaken,
                 unsaved, crashes>>

\* A slip: a file that cannot be removed makes the switch fail.
SwitchFailsLate ==
  /\ fin \in {"refresh", "confirm", "cleaning"} /\ fin' = "cancel" /\ Failing
  /\ UNCHANGED <<diskVars, setting, saved, threadVars, sessionVars, events, status, ask, overtaken,
                 unsaved, crashes>>

\* The switch fails only before anything is removed.
SwitchFails ==
  /\ fin \in {"refresh", "confirm"} /\ fin' = "cancel" /\ Failing
  /\ UNCHANGED <<diskVars, setting, saved, threadVars, sessionVars, events, status, ask, overtaken,
                 unsaved, crashes>>

\* cancel_model_dir_migration, and the setting is put back.
Cancel ==
  /\ fin = "cancel" /\ fin' = "idle"
  /\ payload' = FALSE /\ setting' = "src" /\ status' = "failed"
  /\ overtaken' = (overtaken \/ ask # "idle")
  /\ UNCHANGED <<diskVars, saved, threadVars, pending, answer, events, ask, countVars>>

-----------------------------------------------------------------------------
\* queuePersist: 80 ms after a change, if the file can be written.
Save ==
  /\ saved # setting /\ saved' = setting
  /\ UNCHANGED <<diskVars, setting, threadVars, sessionVars, events, dialogVars, countVars>>

\* The application dies and starts again.
Crash ==
  /\ crashes < MaxCrashes /\ crashes' = crashes + 1
  /\ setting' = saved /\ unsaved' = (unsaved \/ saved # setting)
  /\ pc' = "none" /\ todo' = {} /\ cur' = None /\ choice' = None
  /\ pending' = FALSE /\ answer' = None /\ payload' = FALSE
  /\ events' = <<>>
  /\ status' = "idle" /\ ask' = "idle" /\ fin' = "idle"
  /\ UNCHANGED <<diskVars, saved, overtaken, fails>>

Thread == Scan \/ (\E f \in File : NextFile(f)) \/ EndCopy \/ Wait \/ Resolve \/ Ready \/ EndEarly
Switch == Refresh \/ TakePayload \/ (\E f \in File : RemoveFile(f)) \/ EndCleaning \/ Cancel

Next ==
  \/ Prepare \/ Dismiss \/ Confirm \/ Start \/ Refuse
  \/ Thread \/ FileFails
  \/ \E r \in Resolution : Answer(r)
  \/ Respond \/ AnswerReply \/ HandleEvent
  \/ Switch \/ SwitchFails
  \/ Save \/ Crash

\* The thread runs, calls return and events are delivered; nothing is said of
\* the user, of failures, nor of the disk that takes the settings.
Fairness ==
  /\ WF_vars(Start \/ Refuse) /\ WF_vars(Thread) /\ WF_vars(Switch)
  /\ WF_vars(Respond) /\ WF_vars(AnswerReply) /\ WF_vars(HandleEvent)

Spec == Init /\ [][Next]_vars /\ Fairness

-----------------------------------------------------------------------------
(* Properties.                                                             *)

Have(f) == tgt[f] = "new" \/ f \in kept

\* A model is in the source until a whole copy of it is in the target, or the
\* user chose to keep what is there, through failures, crashes and further
\* attempts (run_model_dir_migration and cleanup_source_tree).
NothingLost == \A f \in models : f \in src \/ Have(f)

\* The directory of the setting has every model, also after the switch failed
\* and after a crash, unless the application died before it saved the setting
\* (finalizeModelDirSwitch).
SettingHasModels ==
  unsaved \/ \A f \in models : IF setting = "src" THEN f \in src ELSE Have(f)

\* A dialog that shows a migration comes to an end or asks the user, unless it
\* once ended before the reply to an answer had come: it cannot be closed before
\* (resolveModelDirConflict and handleWorkerEvent).
DialogEnds ==
  status \in {"running", "finalizing"} ~>
    (status \in Ended \cup {"idle", "confirm", "conflict"} \/ overtaken)
=============================================================================
