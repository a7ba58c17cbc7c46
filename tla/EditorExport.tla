---------------------------- MODULE EditorExport ----------------------------
(***************************************************************************)
(* The export of an editor's mix, from the button to the file: the editor  *)
(* store (stores/editor.ts), the optional plugin render in the audio host  *)
(* (plugin_host.rs), the background worker that mixes (worker_audio.py)    *)
(* with its supervisor, and cancel_editor_mix_export, which asks the       *)
(* worker by a file, waits, and at last kills it.                          *)
(*                                                                         *)
(* Abstractions.  One export.  The temporary files of the worker are one   *)
(* flag, its rendered clips and blocks one state "mixing".  The waits of   *)
(* five seconds and of the render's own limit may end at any time.         *)
(* Removing a file succeeds.                                               *)
(***************************************************************************)
EXTENDS WorkerSupervisor

CONSTANTS
  Export,      \* the worker of the export
  ExportTask,  \* its task id
  Stop         \* the cancel_task call made by cancel_editor_mix_export

ASSUME ExportAssumption ==
  /\ Export \in Worker /\ CommandOf[Export] = "export_editor_mix"
  /\ IdsOf[Export] = {ExportTask}
  /\ \A w \in Worker \ {Export} : ExportTask \notin IdsOf[w]
  /\ Stop \in Canceller

VARIABLES
  win,           \* where exportMix is
  pending,       \* pendingExport is set
  outcome,       \* how exportMix has ended
  asked,         \* exportCancelRequested
  cancelling,    \* exportCancelling
  told,          \* the first terminal event the listener gets for the task
  render,        \* the call of plugin_host_render
  renderStopped, \* its ProcessLease is cancelled
  renderCancel,  \* the call of plugin_host_cancel_render
  renderDir,     \* the directory of the rendered mix exists
  stop,          \* where cancel_editor_mix_export is
  stopFailed,    \* it has failed to write its request
  work,          \* where the worker is
  said,          \* the terminal event it has written
  part,          \* its temporary files exist
  cancelFile,    \* the request to cancel exists
  published      \* the mix has its final name

windowVars == <<win, pending, outcome, asked, cancelling>>
renderVars == <<render, renderStopped, renderCancel, renderDir>>
stopVars   == <<stop, stopFailed>>
workVars   == <<work, said, published>>
fileVars   == <<part, cancelFile>>
exportVars == <<windowVars, told, renderVars, stopVars, workVars, fileVars>>
allVars    == <<vars, exportVars>>

ExportInit ==
  /\ Init
  /\ ctask[Stop] = ExportTask
  /\ \A c \in Canceller \ {Stop} : ctask[c] # ExportTask
  /\ win = "idle" /\ outcome = "none" /\ told = "none"
  /\ pending = FALSE /\ asked = FALSE /\ cancelling = FALSE
  /\ render = "none" /\ renderCancel = "none"
  /\ renderStopped = FALSE /\ renderDir = FALSE
  /\ stop = "none" /\ stopFailed = FALSE
  /\ work = "mixing" /\ said = "none" /\ published = FALSE
  /\ part = FALSE /\ cancelFile = FALSE

-----------------------------------------------------------------------------
(* The window: exportMix and the listener it waits for.                    *)

\* exportMix has an outcome; its finally awaits the clean-up of the render.
Conclude(result) ==
  /\ win' = "ending"
  /\ outcome' = result
  /\ pending' = FALSE

\* What a terminal event makes of the export.
Verdict == CASE told = "result"    -> "exported"
             [] told = "cancelled" -> "cancelled"
             [] OTHER              -> "failed"

OpenExport ==
  /\ win = "idle"
  /\ win' = "preparing"
  /\ UNCHANGED <<vars, pending, outcome, asked, cancelling, told, renderVars, stopVars,
                 workVars, fileVars>>

\* The listener, the capabilities and the plugin states are awaited; then a
\* project with plugins is rendered, another one goes to the worker.
Prepared ==
  /\ win = "preparing"
  /\ \/ /\ ~asked /\ win' = "rendering" /\ render' = "asked"
        /\ UNCHANGED <<pending, outcome>>
     \/ /\ ~asked /\ win' = "starting" /\ pending' = TRUE
        /\ UNCHANGED <<outcome, render>>
     \/ /\ Conclude(IF asked THEN "cancelled" ELSE "failed")
        /\ UNCHANGED render
  /\ UNCHANGED <<vars, asked, cancelling, told, renderStopped, renderCancel, renderDir,
                 stopVars, workVars, fileVars>>

\* A slip: a cancellation that the render did not notice is forgotten.
RenderedAnyway ==
  /\ win = "rendering" /\ render \in {"done", "failed"}
  /\ IF render = "done"
       THEN win' = "starting" /\ pending' = TRUE /\ UNCHANGED outcome
       ELSE Conclude(IF asked THEN "cancelled" ELSE "failed")
  /\ UNCHANGED <<vars, asked, cancelling, told, renderVars, stopVars, workVars, fileVars>>

\* plugin_host_render has returned.  The cancellation may have come too
\* early or too late for it.
Rendered ==
  /\ win = "rendering" /\ render \in {"done", "failed"}
  /\ IF render = "done" /\ ~asked
       THEN win' = "starting" /\ pending' = TRUE /\ UNCHANGED outcome
       ELSE Conclude(IF asked THEN "cancelled" ELSE "failed")
  /\ UNCHANGED <<vars, asked, cancelling, told, renderVars, stopVars, workVars, fileVars>>

\* spawn_worker_background has handed the worker to its supervisor.
Accepted == pc[Export] \in SuperState /\ proc[Export] # "none"

\* start_editor_mix_export has returned: refused, or started.  The outcome
\* may have been heard before.  A refusal also ends a cancelExport that was
\* waiting for the start.
Started ==
  /\ win = "starting"
  /\ \/ /\ pc[Export] = "refused"
        /\ Conclude("failed")
        /\ cancelling' = FALSE
        /\ stop' = IF stop = "awaiting" THEN "none" ELSE stop
     \/ /\ Accepted
        /\ IF pending THEN win' = "waiting" /\ UNCHANGED <<pending, outcome>>
                      ELSE Conclude(Verdict)
        /\ UNCHANGED <<cancelling, stop>>
  /\ UNCHANGED <<vars, asked, told, renderVars, stopFailed, workVars, fileVars>>

\* The listener hears the first terminal event; later ones find no pending
\* export.
HearOutcome ==
  /\ pending /\ told # "none"
  /\ IF win = "waiting" THEN Conclude(Verdict)
                        ELSE pending' = FALSE /\ UNCHANGED <<win, outcome>>
  /\ UNCHANGED <<vars, asked, cancelling, told, renderVars, stopVars, workVars, fileVars>>

\* cleanup_render, then the flags are reset.
EndExport ==
  /\ win = "ending"
  /\ win' = "ended"
  /\ renderDir' = FALSE
  /\ cancelling' = FALSE
  /\ UNCHANGED <<vars, pending, outcome, asked, told, render, renderStopped, renderCancel,
                 stopVars, workVars, fileVars>>

-----------------------------------------------------------------------------
(* The window: cancelExport.                                               *)

\* Before the worker is started: the render is told, if it has been asked for.
CancelEarly ==
  /\ win \in {"preparing", "rendering"}
  /\ renderCancel' = IF win = "rendering" THEN "sent" ELSE renderCancel
  /\ UNCHANGED stop

\* Later: cancelExport waits for the reply to the start.
CancelLate ==
  /\ win \in {"starting", "waiting"}
  /\ stop' = "awaiting"
  /\ UNCHANGED renderCancel

CancelExport ==
  /\ ~cancelling
  /\ asked' = TRUE /\ cancelling' = TRUE
  /\ CancelEarly \/ CancelLate
  /\ UNCHANGED <<vars, win, pending, outcome, told, render, renderStopped, renderDir,
                 stopFailed, workVars, fileVars>>

\* The start has been accepted: cancel_editor_mix_export, if the outcome is
\* still to come.
CancelStarted ==
  /\ stop = "awaiting"
  /\ Accepted
  /\ stop' = IF pending THEN "asked" ELSE "returned"
  /\ UNCHANGED <<vars, windowVars, told, renderVars, stopFailed, workVars, fileVars>>

Window ==
  \/ Prepared \/ Rendered \/ Started \/ HearOutcome \/ EndExport \/ CancelStarted

-----------------------------------------------------------------------------
(* plugin_host_render and plugin_host_cancel_render.                       *)

RegisterRender ==
  /\ render = "asked"
  /\ render' = "registered"
  /\ UNCHANGED <<vars, windowVars, told, renderStopped, renderCancel, renderDir, stopVars,
                 workVars, fileVars>>

MakeDirectory ==
  /\ render = "registered" /\ ~renderStopped
  /\ render' = "mixing" /\ renderDir' = TRUE
  /\ UNCHANGED <<vars, windowVars, told, renderStopped, renderCancel, stopVars, workVars,
                 fileVars>>

\* Every wait and check of the render fails when the lease is cancelled; the
\* directory is removed before the registration.
RenderFails ==
  /\ render \in {"registered", "mixing"}
  /\ render' = "failed" /\ renderDir' = FALSE
  /\ UNCHANGED <<vars, windowVars, told, renderStopped, renderCancel, stopVars, workVars,
                 fileVars>>

\* The last check; a cancellation that comes now is lost.
RenderSucceeds ==
  /\ render = "mixing" /\ ~renderStopped
  /\ render' = "done"
  /\ UNCHANGED <<vars, windowVars, told, renderStopped, renderCancel, renderDir, stopVars,
                 workVars, fileVars>>

\* The cancellation finds the render only while it is registered.
CancelRender ==
  /\ renderCancel = "sent"
  /\ renderCancel' = "returned"
  /\ renderStopped' = (render \in {"registered", "mixing"})
  /\ UNCHANGED <<vars, windowVars, told, render, renderDir, stopVars, workVars, fileVars>>

Render == RegisterRender \/ MakeDirectory \/ RenderFails \/ RenderSucceeds \/ CancelRender

-----------------------------------------------------------------------------
(* cancel_editor_mix_export.                                               *)

IsRegistered == tasks[ExportTask] # NoWorker

StopChecksTerminal ==
  /\ stop = "asked"
  /\ stop' = IF ExportTask \in terminal THEN "returned" ELSE "unmarked"
  /\ UNCHANGED <<vars, windowVars, told, renderVars, stopFailed, workVars, fileVars>>

StopChecksRunning ==
  /\ stop = "unmarked"
  /\ stop' = IF IsRegistered THEN "writing" ELSE "cleaning"
  /\ UNCHANGED <<vars, windowVars, told, renderVars, stopFailed, workVars, fileVars>>

\* Writing the request may fail, with or without a file: the window hears
\* of it and may ask again.
StopWrites ==
  /\ stop = "writing"
  /\ \/ stop' = "polling" /\ cancelFile' = TRUE /\ UNCHANGED <<stopFailed, cancelling>>
     \/ /\ stop' = "none" /\ stopFailed' = TRUE /\ cancelling' = FALSE
        /\ cancelFile' \in {cancelFile, TRUE}
  /\ UNCHANGED <<vars, win, pending, outcome, asked, told, renderVars, workVars, part>>

\* A slip: an export that ended by itself is left to its supervisor.
StopPollsOnly ==
  /\ stop = "polling"
  /\ stop' \in (IF IsRegistered THEN {"killing"} ELSE {"returned", "killing"})
  /\ UNCHANGED <<vars, windowVars, told, renderVars, stopFailed, workVars, fileVars>>

\* The registry is polled until the task is gone or the patience is over;
\* the task may still go between the last poll and the kill.
StopPolls ==
  /\ stop = "polling"
  /\ stop' \in (IF IsRegistered THEN {"killing"} ELSE {"cleaning", "killing"})
  /\ UNCHANGED <<vars, windowVars, told, renderVars, stopFailed, workVars, fileVars>>

StopKilled ==
  /\ stop = "killing" /\ cpc[Stop] = "returned"
  /\ stop' = "cleaning"
  /\ UNCHANGED <<vars, windowVars, told, renderVars, stopFailed, workVars, fileVars>>

StopCleans ==
  /\ stop = "cleaning"
  /\ stop' = "returned"
  /\ part' = FALSE /\ cancelFile' = FALSE
  /\ UNCHANGED <<vars, windowVars, told, renderVars, stopFailed, workVars>>

Stopping ==
  \/ StopChecksTerminal \/ StopChecksRunning \/ StopWrites \/ StopPolls
  \/ StopKilled \/ StopCleans

-----------------------------------------------------------------------------
(* The worker: cmd_export_editor_mix.                                      *)

\* The mix buffer and the unfinished mix, in the export directory.
Mix ==
  /\ Running(Export) /\ work = "mixing"
  /\ part' = TRUE
  /\ UNCHANGED <<vars, windowVars, told, renderVars, stopVars, workVars, cancelFile>>

\* A slip: the request is also honoured when the mix is published.
NoticeRequestLate ==
  /\ Running(Export) /\ work \in {"mixing", "published"} /\ cancelFile
  /\ work' = "reported" /\ said' = "cancelled"
  /\ UNCHANGED <<vars, windowVars, told, renderVars, stopVars, fileVars, published>>

\* check_cancelled between two clips or blocks, the last time before the mix
\* is published.
NoticeRequest ==
  /\ Running(Export) /\ work = "mixing" /\ cancelFile
  /\ work' = "reported" /\ said' = "cancelled"
  /\ UNCHANGED <<vars, windowVars, told, renderVars, stopVars, fileVars, published>>

MixFails ==
  /\ Running(Export) /\ work = "mixing"
  /\ work' = "reported" /\ said' = "error"
  /\ UNCHANGED <<vars, windowVars, told, renderVars, stopVars, fileVars, published>>

PublishMix ==
  /\ Running(Export) /\ work = "mixing" /\ part
  /\ work' = "published" /\ published' = TRUE
  /\ UNCHANGED <<vars, windowVars, told, renderVars, stopVars, fileVars, said>>

ReportMix ==
  /\ Running(Export) /\ work = "published"
  /\ work' = "reported" /\ said' = "result"
  /\ UNCHANGED <<vars, windowVars, told, renderVars, stopVars, fileVars, published>>

\* finally: the buffer and the request are removed.
TidyUp ==
  /\ Running(Export) /\ work = "reported"
  /\ work' = "finished"
  /\ part' = FALSE /\ cancelFile' = FALSE
  /\ UNCHANGED <<vars, windowVars, told, renderVars, stopVars, said, published>>

Worked == Mix \/ NoticeRequest \/ MixFails \/ PublishMix \/ ReportMix \/ TidyUp

-----------------------------------------------------------------------------
(* The export in the supervisor's system.                                  *)

\* A step of the backend: the listener gets what the windows are told first.
Alongside ==
  /\ told' = IF told = "none" /\ shown'[Export][ExportTask] # {}
               THEN CHOOSE o \in shown'[Export][ExportTask] : TRUE
               ELSE told
  /\ UNCHANGED <<windowVars, renderVars, stopVars, workVars>>

Kept == UNCHANGED fileVars

StartExport  == win = "starting" /\ Begin(Export) /\ Alongside /\ Kept
SpawnExport  == Spawn(Export) /\ Alongside /\ Kept
ExportExits  == ProcessExit(Export) /\ Alongside /\ Kept

\* Noise on the output leaves room for the outcome (MaxLines).
ReadNoise    == /\ lines[Export] + 1 < MaxLines
                /\ ReadMalformed(Export) /\ Alongside /\ Kept

Heard == ExportTask \in terminal

ReadOutcome  == /\ said # "none" /\ ~Heard
                /\ ReadTerminal(Export, {ExportTask}, said) /\ Alongside /\ Kept

\* What has been written is read before the output ends.
OutputEnds   == (said = "none" \/ Heard) /\ EndOfOutput(Export) /\ Alongside /\ Kept

\* Between the end of the process and the release of its leases the
\* supervisor removes the files of the export.
CleanAfterExit ==
  /\ DropRuntime(Export) /\ Alongside
  /\ IF proc[Export] = "none" THEN Kept ELSE part' = FALSE /\ cancelFile' = FALSE

Supervise ==
  \/ CleanAfterExit
  \/ /\ \/ WaitForExit(Export) \/ DropApplication(Export) \/ Flush(Export)
        \/ Settle(Export) \/ Unregister(Export) \/ Unmark(Export)
     /\ Alongside /\ Kept

\* cancel_task, called when the patience is over.
StopTask == stop = "killing" /\ (CheckTerminal(Stop) \/ Cancel(Stop)) /\ Alongside /\ Kept

\* The other workers and cancellations.
OtherSpawns(w)  == Spawn(w) /\ Alongside /\ Kept
OtherEnds(w)    == EndOfOutput(w) /\ Alongside /\ Kept
OtherWinds(w)   == WindDown(w) /\ Alongside /\ Kept
OtherCancels(c) == Cancel(c) /\ Alongside /\ Kept

Others ==
  \/ \E w \in Worker \ {Export} :
       \/ (Begin(w) \/ ProcessExit(w) \/ Read(w)) /\ Alongside /\ Kept
       \/ OtherSpawns(w) \/ OtherEnds(w) \/ OtherWinds(w)
  \/ \E c \in Canceller \ {Stop} : \/ CheckTerminal(c) /\ Alongside /\ Kept
                                   \/ OtherCancels(c)
  \/ \E u \in Updater : (UpdateBegin(u) \/ UpdateAbandon(u)) /\ Alongside /\ Kept

ExportNext ==
  \/ OpenExport \/ CancelExport \/ Window \/ Render \/ Stopping \/ Worked
  \/ StartExport \/ SpawnExport \/ ExportExits \/ ReadNoise \/ ReadOutcome
  \/ OutputEnds \/ Supervise \/ StopTask \/ Others

\* Promises are continued, commands and supervisors run, a render ends at
\* the latest by its time limit, and what is in a pipe is read.  Nothing
\* makes the worker go on, or the user ask for anything.
ExportFairness ==
  /\ WF_allVars(Window) /\ WF_allVars(Stopping) /\ WF_allVars(StopTask)
  /\ WF_allVars(RegisterRender) /\ WF_allVars(CancelRender)
  /\ WF_allVars(RenderFails \/ RenderSucceeds)
  /\ WF_allVars(StartExport) /\ WF_allVars(SpawnExport)
  /\ WF_allVars(ReadOutcome) /\ WF_allVars(Supervise)
  /\ WF_allVars(proc[Export] = "exited" /\ OutputEnds)
  /\ \A w \in Worker \ {Export} :
       /\ WF_allVars(OtherSpawns(w)) /\ WF_allVars(OtherWinds(w))
       /\ WF_allVars(proc[w] = "exited" /\ OtherEnds(w))
  /\ \A c \in Canceller \ {Stop} : WF_allVars(OtherCancels(c))

ExportSpec == ExportInit /\ [][ExportNext]_allVars

-----------------------------------------------------------------------------
ExportStates ==
  /\ win \in {"idle", "preparing", "rendering", "starting", "waiting", "ending", "ended"}
  /\ outcome \in {"none", "exported", "cancelled", "failed"}
  /\ told \in Outcome \cup {"none"}
  /\ render \in {"none", "asked", "registered", "mixing", "done", "failed"}
  /\ renderCancel \in {"none", "sent", "returned"}
  /\ stop \in {"none", "awaiting", "asked", "unmarked", "writing", "polling", "killing",
               "cleaning", "returned"}
  /\ work \in {"mixing", "published", "reported", "finished"}
  /\ said \in Outcome \cup {"none"}

ExportFlags ==
  /\ pending \in BOOLEAN /\ asked \in BOOLEAN /\ cancelling \in BOOLEAN
  /\ renderStopped \in BOOLEAN /\ renderDir \in BOOLEAN /\ stopFailed \in BOOLEAN
  /\ published \in BOOLEAN /\ part \in BOOLEAN /\ cancelFile \in BOOLEAN

ExportTypeOK == ExportStates /\ ExportFlags

AllOver ==
  /\ win = "ended"
  /\ pc[Export] \in {"idle", "refused", "ended"}
  /\ stop \in {"none", "returned"} /\ renderCancel # "sent"

(***************************************************************************)
(* What the window says of the export is what is on the disk: an exported  *)
(* mix has its final name, and a cancelled one, which the user asked for,  *)
(* has not, unless cancel_task killed the worker, perhaps after it had     *)
(* published the mix.                                                      *)
(***************************************************************************)
WindowTellsTruth ==
  /\ outcome = "exported" => published
  /\ outcome = "cancelled" => asked /\ (~published \/ creply[Stop])

(***************************************************************************)
(* However the export ends, and whoever stops it at whatever moment, when  *)
(* all is over no temporary file, no request and no render is left; but a  *)
(* request that could not be written may leave an empty file.              *)
(***************************************************************************)
NothingLeftBehind ==
  AllOver /\ ~stopFailed => ~part /\ ~cancelFile /\ ~renderDir

(***************************************************************************)
(* A cancellation ends the export, although the render may not hear of it  *)
(* and the worker may never look for the request, unless the request could *)
(* not be written (the window may ask again), or the worker has closed its *)
(* output and lives on (CancelFreesRuntime).                               *)
(***************************************************************************)
CancelEndsExport ==
  cancelling ~> \/ win = "ended"
                \/ stopFailed /\ ~cancelling
                \/ pc[Export] = "waiting" /\ Running(Export)
=============================================================================
