----------------------------- MODULE PluginScan -----------------------------
(***************************************************************************)
(* The scan for plugins (scan_control.rs, scan_pipeline.rs, and the        *)
(* commands around them in plugin_host.rs).  A worker thread looks at one  *)
(* package after the other, each in a helper process of its own, and       *)
(* writes the catalog at the end; meanwhile the user may skip the package  *)
(* in hand, cancel the scan, or restore a package that an earlier skip or  *)
(* timeout had put on the list of exclusions.  Two locks order them: the   *)
(* control of the run and the storage of catalog and exclusions.           *)
(*                                                                         *)
(* Abstractions.  Packages do not vanish from the disk, and their contents *)
(* are "found" or "failed"; whether a package changed since it was looked  *)
(* at, and `force`, are one choice.  Skip and restore hold the storage     *)
(* lock from their first to their last step, and what they do to the       *)
(* control of the run in between moves with the rest: each is one step.    *)
(* publish and attach are one step: a cancel in between acts as one        *)
(* before.  The progress report and aliases of paths are left out.         *)
(***************************************************************************)
EXTENDS Naturals

CONSTANTS
  Package,
  NoPackage,
  MaxRuns      \* bound: scans that start

ASSUME ScanAssumption == NoPackage \notin Package /\ MaxRuns \in Nat

VARIABLES
  catalog,    \* plugin-cache.json
  excluded,   \* plugin-blacklist.json
  control,    \* ScanControl: the latest run
  closing,    \* ScanControl.stopping
  scanLease,  \* scan_process is cancelled
  probe,      \* the helper of the package in hand
  worker,     \* the thread of the run
  restored    \* not in the code: the run during or after which a package
              \* was restored last, 0 once it is excluded again

scanVars == <<catalog, excluded, control, closing, scanLease, probe, worker, restored>>

Run == 0..MaxRuns
NoEntry == [kind |-> "none", run |-> 0]
Entry == [kind : {"none", "found", "failed"}, run : Run]
NoItem == [package |-> NoPackage, skipped |-> FALSE]

Result == {"none", "found", "failed", "timeout", "cancelled"}
WorkerPhase == {"idle", "opening", "choosing", "item", "spawned", "probing", "completing",
                "manual", "timeout", "committing", "ended"}

\* The worker reads `blocked` and `old` when it opens; `todo` is what it will
\* look at; `seen` what it has taken, `hand` last; `entries` what it found.
Resting == [phase |-> "idle", hand |-> NoPackage, todo |-> {}, seen |-> {}, skipped |-> {}, blocked |-> {},
            old |-> [p \in Package |-> NoEntry], entries |-> [p \in Package |-> NoEntry],
            result |-> "none", fresh |-> FALSE]

ScanTypeOK ==
  /\ catalog \in [Package -> Entry]
  /\ excluded \subseteq Package
  /\ control \in [run : Run, running : BOOLEAN, cancelled : BOOLEAN, invalid : SUBSET Package,
                  item : [package : Package \cup {NoPackage}, skipped : BOOLEAN]]
  /\ closing \in BOOLEAN /\ scanLease \in BOOLEAN
  /\ probe \in {"none", "spawned", "running", "dead"}
  /\ worker \in [phase : WorkerPhase, hand : Package \cup {NoPackage}, todo : SUBSET Package, seen : SUBSET Package,
                 skipped : SUBSET Package, blocked : SUBSET Package,
                 old : [Package -> Entry], entries : [Package -> Entry],
                 result : Result, fresh : BOOLEAN]
  /\ restored \in [Package -> Run]

ScanInit ==
  /\ catalog \in [Package -> {NoEntry, [kind |-> "found", run |-> 0]}]
  /\ excluded = {}
  /\ control = [run |-> 0, running |-> FALSE, cancelled |-> FALSE, invalid |-> {},
                item |-> NoItem]
  /\ closing = FALSE /\ scanLease = FALSE
  /\ probe = "none"
  /\ worker = Resting
  /\ restored = [p \in Package |-> 0]
------------------------------------------------------------------------------
InHand == control.item.package
In(phase) == worker.phase = phase
To(phase) == worker' = [worker EXCEPT !.phase = phase]
KeepStorage == UNCHANGED <<catalog, excluded, restored>>
KeepShut == UNCHANGED <<closing, scanLease>>

\* A helper that is stopped; one that is not published is not known yet.
Stopped == IF probe = "running" THEN "dead" ELSE probe

\* `decision`
Decision ==
  IF control.cancelled THEN "cancel" ELSE IF control.item.skipped THEN "skip" ELSE "continue"

Exclude(p) ==
  /\ excluded' = excluded \cup {p}
  /\ restored' = [restored EXCEPT ![p] = 0]

\* ScanControl::start, when the command comes; the worker starts later.
ScanStart ==
  /\ ~closing /\ ~control.running
  /\ control.run < MaxRuns
  /\ control' = [run |-> control.run + 1, running |-> TRUE, cancelled |-> FALSE,
                 invalid |-> {}, item |-> NoItem]
  /\ \E paths \in SUBSET Package \ {{}} :
       worker' = [Resting EXCEPT !.phase = "opening", !.todo = paths]
  /\ KeepStorage /\ KeepShut /\ UNCHANGED probe

\* Exclusions and catalog are read under one hold of the storage lock.
ScanOpen ==
  /\ In("opening")
  /\ ~scanLease
  /\ worker' = [worker EXCEPT !.phase = "choosing", !.blocked = excluded, !.old = catalog]
  /\ KeepStorage /\ KeepShut /\ UNCHANGED <<control, probe>>

\* The scan ends without a commit: it was cancelled as a whole, the paths or
\* the list cannot be read, the list or the catalog cannot be written.
ScanFails ==
  /\ worker.phase \in {"opening", "manual", "timeout", "committing"}
  /\ To("ended")
  /\ KeepStorage /\ KeepShut /\ UNCHANGED <<control, probe>>

TakeItem(p) ==
  /\ In("choosing")
  /\ ~control.cancelled
  /\ p \in worker.todo \ worker.seen
  /\ control' = [control EXCEPT !.item = [package |-> p, skipped |-> FALSE]]
  /\ worker' = [worker EXCEPT !.phase = "item", !.hand = p, !.seen = @ \cup {p}]
  /\ KeepStorage /\ KeepShut /\ UNCHANGED probe

\* Nothing is left, or the scan is cancelled between two packages.
StopTaking ==
  /\ In("choosing")
  /\ control.cancelled \/ worker.todo \subseteq worker.seen
  /\ To("committing")
  /\ KeepStorage /\ KeepShut /\ UNCHANGED <<control, probe>>

\* An excluded package is not opened, one that did not change is taken from
\* the old catalog unless it was restored since.
KnownItem ==
  LET p == InHand IN
  /\ In("item")
  /\ \/ p \in worker.blocked /\ worker' = [worker EXCEPT !.phase = "completing"]
     \/ /\ p \notin worker.blocked \cup control.invalid
        /\ worker.old[p].kind # "none"
        /\ worker' = [worker EXCEPT !.phase = "completing", !.result = worker.old[p].kind]
  /\ KeepStorage /\ KeepShut /\ UNCHANGED <<control, probe>>

\* The decision before the probe, and the start of its helper, which may fail;
\* the fingerprint before it may have taken all the time there is.
StartProbe ==
  /\ In("item")
  /\ InHand \notin worker.blocked
  /\ \/ /\ Decision = "continue" /\ ~scanLease
        /\ probe' = "spawned"
        /\ To("spawned")
     \/ /\ \E result \in {"failed", "timeout"} :
             worker' = [worker EXCEPT !.phase = "completing", !.fresh = TRUE,
                          !.result = IF scanLease THEN "cancelled" ELSE result]
        /\ UNCHANGED probe
  /\ KeepStorage /\ KeepShut /\ UNCHANGED control

\* publish, which refuses after a shutdown, and attach.
PublishProbe ==
  /\ In("spawned")
  /\ IF scanLease
     THEN /\ probe' = "none"
          /\ worker' = [worker EXCEPT !.phase = "completing", !.result = "cancelled"]
     ELSE probe' = "running" /\ To("probing")
  /\ KeepStorage /\ KeepShut /\ UNCHANGED control

\* receive_scan; the helper is dropped, and a shutdown overrules its answer.
EndProbe(result) ==
  /\ In("probing")
  /\ probe = "dead" => result # "found"
  /\ probe' = "none"
  /\ worker' = [worker EXCEPT !.phase = "completing", !.fresh = TRUE,
                              !.result = IF scanLease THEN "cancelled" ELSE result]
  /\ KeepStorage /\ KeepShut /\ UNCHANGED control

\* complete_item: whoever comes first under the control lock decides.
CompleteItem ==
  LET p == InHand
      stamp == IF worker.fresh THEN control.run ELSE worker.old[p].run
      next == [worker EXCEPT !.result = "none", !.fresh = FALSE]
  IN
  /\ In("completing")
  /\ control' = [control EXCEPT !.item = NoItem]
  /\ worker' =
       CASE Decision = "cancel" \/ worker.result = "cancelled" ->
              [next EXCEPT !.phase = "committing"]
         [] Decision # "cancel" /\ worker.result # "cancelled" /\ p \in worker.blocked ->
              [next EXCEPT !.phase = "choosing"]
         [] Decision = "skip" /\ worker.result # "cancelled" /\ p \notin worker.blocked ->
              [next EXCEPT !.phase = "manual", !.skipped = @ \cup {p}]
         [] Decision = "continue" /\ worker.result = "timeout" ->
              [next EXCEPT !.phase = "timeout", !.skipped = @ \cup {p}]
         [] OTHER ->
              [next EXCEPT !.phase = "choosing",
                           !.entries[p] = [kind |-> worker.result, run |-> stamp]]
  /\ KeepStorage /\ KeepShut /\ UNCHANGED probe

\* A skip by the user was stored by its command, or restored since; only a
\* timeout is stored by the worker.
RecordSkip ==
  /\ worker.phase \in {"manual", "timeout"}
  /\ To("choosing")
  /\ IF In("timeout")
     THEN Exclude(worker.hand)
     ELSE UNCHANGED <<excluded, restored>>
  /\ KeepShut /\ UNCHANGED <<catalog, control, probe>>

\* A slip: what was not looked at is forgotten.
FoundNow(p) == worker.entries[p]

\* The catalog is written: what was found, and of the old one what was not
\* looked at, but nothing that is excluded by now or was restored meanwhile.
Found(p) == IF p \in worker.seen THEN worker.entries[p] ELSE worker.old[p]

\* A slip: a restore during the run is not looked at.
DroppedThen(p) == p \in excluded
Dropped(p) == p \in excluded \cup control.invalid

Commit ==
  /\ In("committing")
  /\ catalog' = [p \in Package |-> IF Dropped(p) THEN NoEntry ELSE Found(p)]
  /\ To("ended")
  /\ KeepShut /\ UNCHANGED <<excluded, restored, control, probe>>

\* ScanRun is dropped.
ScanEnds ==
  /\ In("ended")
  /\ control' = [control EXCEPT !.running = FALSE, !.item = NoItem]
  /\ worker' = Resting
  /\ KeepStorage /\ KeepShut /\ UNCHANGED probe
------------------------------------------------------------------------------
\* skip_scan: claims the package in hand and stores the exclusion, which fails
\* when the list cannot be written.
Skip ==
  /\ control.running /\ ~control.cancelled
  /\ InHand # NoPackage /\ ~control.item.skipped
  /\ control' = [control EXCEPT !.item.skipped = TRUE]
  /\ probe' = Stopped
  /\ Exclude(InHand) \/ UNCHANGED <<excluded, restored>>
  /\ KeepShut /\ UNCHANGED <<catalog, worker>>

\* ScanControl::cancel
CancelRun ==
  /\ control' = [control EXCEPT !.cancelled = TRUE]
  /\ probe' = Stopped

Cancel ==
  /\ control.running /\ ~control.cancelled
  /\ CancelRun
  /\ KeepStorage /\ KeepShut /\ UNCHANGED worker

\* restore_scan_entry: the run forgets the package, then the catalog, then the
\* list; either file may fail.
Invalidated(p) == IF control.running THEN [control EXCEPT !.invalid = @ \cup {p}] ELSE control

Restore(p) ==
  /\ p \in excluded
  /\ control' = Invalidated(p)
  /\ \/ UNCHANGED <<catalog, excluded, restored>>
     \/ /\ catalog' = [catalog EXCEPT ![p] = NoEntry]
        /\ UNCHANGED <<excluded, restored>>
     \/ /\ catalog' = [catalog EXCEPT ![p] = NoEntry]
        /\ excluded' = excluded \ {p}
        /\ restored' = [restored EXCEPT ![p] = control.run]
  /\ KeepShut /\ UNCHANGED <<probe, worker>>

\* The two parts of PluginHostState::shutdown that concern a scan.
CancelScanLease ==
  /\ ~scanLease
  /\ scanLease' = TRUE
  /\ probe' = Stopped
  /\ KeepStorage /\ UNCHANGED <<control, worker, closing>>

CloseScans ==
  /\ ~closing
  /\ closing' = TRUE
  /\ IF control.running THEN CancelRun ELSE UNCHANGED <<control, probe>>
  /\ KeepStorage /\ UNCHANGED <<worker, scanLease>>
------------------------------------------------------------------------------
Worker ==
  \/ ScanOpen \/ ScanFails \/ StopTaking \/ KnownItem \/ StartProbe \/ PublishProbe
  \/ CompleteItem \/ RecordSkip \/ Commit \/ ScanEnds
  \/ \E p \in Package : TakeItem(p)
  \/ \E result \in {"found", "failed", "timeout"} : EndProbe(result)

Command ==
  \/ ScanStart \/ Skip \/ Cancel
  \/ \E p \in Package : Restore(p)

ScanNext == Worker \/ Command

\* A package that was restored stays so until it is skipped or times out
\* again: it is not excluded, and the catalog has nothing about it from a run
\* that began before the restore (restore_scan_entry against the commit of a
\* running scan).
RestoreWins ==
  \A p \in Package : restored[p] # 0 =>
    /\ p \notin excluded
    /\ catalog[p].kind = "none" \/ catalog[p].run > restored[p]

\* A package that was found leaves the catalog only if it is excluded or was
\* restored, if this run skipped it or found it broken, or, in a run that was
\* cancelled, if it was the one in hand (what the commit keeps of the catalog
\* the run began with, against the skips and restores since).
Excused(p) ==
  \/ p \in excluded \cup control.invalid \cup worker.skipped
  \/ worker.entries[p].kind = "failed"
  \/ (control.cancelled \/ scanLease) /\ p = worker.hand /\ worker.entries[p].kind = "none"

ScanKeepsIdentified ==
  [][\A p \in Package :
       catalog[p].kind = "found" /\ catalog'[p].kind # "found" => Excused(p)]_scanVars
=============================================================================
