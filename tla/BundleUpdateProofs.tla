-------------------------- MODULE BundleUpdateProofs --------------------------
(***************************************************************************)
(* Proofs about BundleUpdate, for any number of failures, kills and losses *)
(* of power: type correctness, that a version that starts is kept, that    *)
(* the report is true, and that one instance runs.                         *)
(*                                                                         *)
(* Two processes move the bundles, but never both: the updater while the   *)
(* route is "writable", then the script.  So the files follow from the     *)
(* place of the updater (WritableInv) or from the place and the phase of   *)
(* the script (ScriptInv).  The report of the updater rests on a status    *)
(* that the script wrote, perhaps long ago (StatusInv), and a report that  *)
(* the old version is kept rests on the script never committing after it   *)
(* was asked to abort, or asked nothing (CommitInv).                       *)
(***************************************************************************)
EXTENDS BundleUpdate, TLAPS

-----------------------------------------------------------------------------
(* Type correctness, in parts that different provers like.                 *)

OthersStep ==
  \/ ChildReports \/ ChildAcks \/ ChildDies \/ ScriptStart \/ ScriptTimesOut
  \/ KillUpdater \/ KillScript \/ PowerLoss \/ StartOther

EnumTypes ==
  /\ platform \in {"linux", "mac"}
  /\ target \in {"old", "new", "none"}
  /\ pc \in Place /\ route \in {"writable", "script"}
  /\ want \in {"begin", "commit", "abort", "drop"}
  /\ seen \in {"none", "installed", "committed", "aborted", "failed", "rollback-failed"}
  /\ result \in {"none", "updated", "restored", "failed", "lost"}
  /\ child \in {"none", "old", "new", "dead"} /\ said \in {"none", "ready", "ack"}
  /\ script \in ScriptPlace
  /\ phase \in {"preparing", "exchanging", "installed", "committed", "aborted", "rollback-failed"}
  /\ status \in {"none", "preparing", "installed", "committed", "aborted", "failed", "rollback-failed"}
  /\ outcome \in {"empty", "ready", "commit", "abort", "observed"}
SetTypes == stage \subseteq {"staged", "backup", "rejected"} /\ lock \subseteq {"updater", "child", "other"}
FlagTypes == finished \in BOOLEAN /\ other \in BOOLEAN /\ code \in BOOLEAN
CountTypes == fails \in 0..MaxFails /\ kills \in 0..MaxKills

\* The parts make up the type invariant.
LEMMA TypeParts == TypeOK <=> EnumTypes /\ SetTypes /\ FlagTypes /\ CountTypes
BY DEF TypeOK, EnumTypes, SetTypes, FlagTypes, CountTypes

\* The two ways a session ends, without its flag.
LEMMA EndCases ==
  ASSUME NEW r, End(r)
  PROVE  /\ route' = route /\ result' = r
         /\ \/ pc' = "signalling" /\ want' = "drop" /\ route = "script"
            \/ pc' = "done" /\ want' = want
BY Zenon DEF End

\* What a request that has come to nothing does.
LEMMA DeniedCases ==
  ASSUME want \in {"begin", "commit", "abort", "drop"}, Denied
  PROVE  /\ route' = route /\ seen' = seen
         /\ \/ want = "commit" /\ pc' = "quitting" /\ want' = want /\ result' = result
            \/ want = "drop" /\ pc' = "done" /\ want' = want /\ result' = result
            \/ /\ result' = IF seen = "rollback-failed" THEN "lost" ELSE "failed"
               /\ \/ want = "begin" /\ pc' = "done" /\ want' = want
                  \/ want = "abort" /\ pc' = "signalling" /\ want' = "drop" /\ route = "script"
                  \/ want = "abort" /\ pc' = "done" /\ want' = want
<1>1. CASE want = "begin"
  BY SMT, <1>1 DEF Denied
<1>2. CASE want = "commit"
  BY SMT, <1>2 DEF Denied
<1>3. CASE want = "drop"
  BY SMT, <1>3 DEF Denied
<1>4. CASE want = "abort"
  <2>. DEFINE r == IF seen = "rollback-failed" THEN "lost" ELSE "failed"
  <2>1. End(r) /\ seen' = seen
    BY SMT, <1>4 DEF Denied
  <2>. HIDE DEF r
  <2>2. /\ route' = route /\ result' = r
        /\ \/ pc' = "signalling" /\ want' = "drop" /\ route = "script"
           \/ pc' = "done" /\ want' = want
    BY Zenon, <2>1, EndCases
  <2>. QED
    BY SMT, <1>4, <2>1, <2>2 DEF r
<1>. QED
  BY <1>1, <1>2, <1>3, <1>4

-----------------------------------------------------------------------------
(* The inductive invariant.                                                *)

\* The old version is there, under its name or beside it.
Safe == target = "old" \/ "backup" \in stage

Preparing == {"idle", "fetching", "ready", "linking", "swapping", "first"}
Replacing == {"second", "undoing", "restoring", "returning", "redoing"}
Starting  == {"launching", "waiting", "stopping"}
Talking   == {"signalling", "polling", "reaping", "quitting"}

\* Who runs holds the lock.
LockInv ==
  /\ "updater" \in lock <=> UpdaterAlive
  /\ ChildAlive => "child" \in lock
  /\ other => lock = {"other"}

\* The updater turns to the script once, and not while it replaces the files.
RouteInv ==
  /\ route = "writable" <=> script = "none"
  /\ script \in {"none", "asked"} =>
       status = "none" /\ seen = "none" /\ phase = "preparing" /\ outcome = "empty"
  /\ pc \in Talking => route = "script"
  /\ pc \in Preparing \cup Replacing => route = "writable"
  /\ pc \in Preparing \cup Replacing \cup Starting => want = "begin" /\ result = "none"
  /\ pc = "signalling" => want # "begin"
  /\ pc \in Talking /\ want = "begin" => result = "none"

WritableInv ==
  route = "writable" =>
    /\ pc \in Preparing => target = "old"
    /\ pc \in Replacing \cup Starting => "backup" \in stage
    /\ pc = "swapping" /\ Linux => "backup" \in stage
    /\ pc \in Starting \cup {"restoring"} => target = "new"
    /\ VersionKept

ScriptInv ==
  route = "script" =>
    /\ phase = "committed" => target = "new" /\ said # "none"
    /\ phase # "committed" => Safe
    /\ phase = "aborted" => target = "old"
    /\ phase = "rollback-failed" => "backup" \in stage
    /\ script \in {"asked", "preparing"} => phase = "preparing"
    /\ script \in {"first", "second"} => phase = "exchanging"
    /\ script \in {"asked", "preparing", "first"} => target = "old"
    /\ script = "second" => "backup" \in stage
    /\ script \in {"installed", "checking"} =>
         phase = "installed" /\ target = "new" /\ "backup" \in stage
    /\ script \in {"back", "return", "redo"} =>
         phase \notin {"committed", "aborted"} /\ "backup" \in stage
    /\ script = "cleaning" /\ phase \in {"preparing", "exchanging", "installed"} => target = "old"

\* What a status says stays true, for whoever reads it later.
Means(s) ==
  /\ s = "committed" => phase = "committed"
  /\ s = "aborted" => phase = "aborted"
  /\ s = "rollback-failed" => phase = "rollback-failed" /\ script \in {"leaving", "ended"}
StatusInv == Means(status) /\ Means(seen)

\* The script commits only what the updater has confirmed or was not there to.
CommitInv ==
  /\ want = "commit" \/ outcome = "commit" => said = "ack"
  /\ outcome = "ready" => said # "none"
  /\ want = "commit" /\ UpdaterAlive => result \in {"none", "failed"}
  /\ (outcome = "commit" \/ phase = "committed") /\ UpdaterAlive =>
       want \in {"commit", "drop"} /\ result \in {"none", "failed"}

ResultInv ==
  pc # "dead" =>
    /\ pc = "closing" \/ result = "updated" =>
         target = "new" /\ said = "ack" /\ (route = "script" => phase = "committed")
    /\ result = "updated" => pc = "exited"
    /\ result = "restored" =>
         pc = "done" /\ target = "old" /\ (route = "script" => phase = "aborted")
    /\ result = "lost" => Safe /\ pc \in {"signalling", "polling", "reaping", "done"}

IInv ==
  /\ TypeOK /\ LockInv /\ RouteInv /\ WritableInv /\ ScriptInv /\ StatusInv /\ CommitInv
  /\ ResultInv

-----------------------------------------------------------------------------
(* The steps of the updater.                                               *)

\* The values of the variables are kept by a step of the updater.
LEMMA UpdaterEnums == EnumTypes /\ UpdaterStep => EnumTypes'
<1>. SUFFICES ASSUME EnumTypes, UpdaterStep PROVE EnumTypes'
  OBVIOUS
<1>. USE DEF EnumTypes, Place, ScriptPlace, Returned, UpdaterAlive,
      Goto, Return, Works, Fails, KeepSession, KeepScript, KeepChild, KeepOthers, Authorize,
      StopChild, Linux, fileVars, childVars, scriptVars, othersVars
<1>1. CASE Begin
  BY SMT, <1>1 DEF Begin
<1>2. CASE Fetch
  BY SMT, <1>2 DEF Fetch
<1>3. CASE Recheck
  BY SMT, <1>3 DEF Recheck
<1>4. CASE BackUp
  BY SMT, <1>4 DEF BackUp
<1>5. CASE Rename
  BY SMT, <1>5 DEF Rename
<1>6. CASE StageBundle
  BY SMT, <1>6 DEF StageBundle
<1>7. CASE Exchange
  BY SMT, <1>7 DEF Exchange
<1>8. CASE FirstRename
  BY SMT, <1>8 DEF FirstRename
<1>9. CASE SecondRename
  BY SMT, <1>9 DEF SecondRename
<1>10. CASE UndoRename
  BY SMT, <1>10 DEF UndoRename
<1>11. CASE Launch
  BY SMT, <1>11 DEF Launch
<1>12. CASE Confirmed
  BY SMT, <1>12 DEF Confirmed
<1>13. CASE NotConfirmed
  BY SMT, <1>13 DEF NotConfirmed
<1>14. CASE Stop
  BY SMT, <1>14, EndCases DEF Stop, ChildAlive
<1>15. CASE RestoreImage
  BY SMT, <1>15 DEF RestoreImage
<1>16. CASE RejectBundle
  BY SMT, <1>16 DEF RejectBundle
<1>17. CASE RestoreBundle
  BY SMT, <1>17 DEF RestoreBundle
<1>18. CASE RedoBundle
  BY SMT, <1>18 DEF RedoBundle
<1>19. CASE Close
  BY SMT, <1>19 DEF Close
<1>20. CASE Signal
  BY SMT, <1>20, DeniedCases DEF Signal
<1>21. CASE Installed
  BY SMT, <1>21 DEF Installed
<1>22. CASE Observe
  BY SMT, <1>22 DEF Observe
<1>23. CASE Reap
  BY SMT, <1>23, DeniedCases DEF Reap, Granted
<1>24. CASE PollExit
  BY SMT, <1>24, DeniedCases DEF PollExit
<1>25. CASE PollTimeout
  BY SMT, <1>25, DeniedCases DEF PollTimeout
<1>26. CASE PollError
  BY SMT, <1>26 DEF PollError
<1>27. CASE Quitting
  BY SMT, <1>27, EndCases DEF Quitting, ChildAlive
<1>. QED
  BY <1>1, <1>2, <1>3, <1>4, <1>5, <1>6, <1>7, <1>8, <1>9, <1>10, <1>11, <1>12, <1>13, <1>14, <1>15, <1>16, <1>17, <1>18, <1>19, <1>20, <1>21, <1>22, <1>23, <1>24, <1>25, <1>26, <1>27 DEF UpdaterStep

\* The sets stay within their elements under a step of the updater.
LEMMA UpdaterSets == SetTypes /\ UpdaterStep => SetTypes'
<1>. SUFFICES ASSUME SetTypes, UpdaterStep PROVE SetTypes'
  OBVIOUS
<1>. USE DEF SetTypes,
      Goto, Return, Works, Fails, KeepSession, KeepScript, KeepChild, KeepOthers, Authorize,
      StopChild, Linux, fileVars, childVars, scriptVars, othersVars
<1>1. CASE Begin
  BY Zenon, <1>1 DEF Begin
<1>2. CASE Fetch
  BY Zenon, <1>2 DEF Fetch
<1>3. CASE Recheck
  BY Zenon, <1>3 DEF Recheck
<1>4. CASE BackUp
  BY Zenon, <1>4 DEF BackUp
<1>5. CASE Rename
  BY Zenon, <1>5 DEF Rename
<1>6. CASE StageBundle
  BY Zenon, <1>6 DEF StageBundle
<1>7. CASE Exchange
  BY Zenon, <1>7 DEF Exchange
<1>8. CASE FirstRename
  BY Zenon, <1>8 DEF FirstRename
<1>9. CASE SecondRename
  BY Zenon, <1>9 DEF SecondRename
<1>10. CASE UndoRename
  BY Zenon, <1>10 DEF UndoRename
<1>11. CASE Launch
  BY Zenon, <1>11 DEF Launch
<1>12. CASE Confirmed
  BY Zenon, <1>12 DEF Confirmed
<1>13. CASE NotConfirmed
  BY Zenon, <1>13 DEF NotConfirmed
<1>14. CASE Stop
  BY Zenon, <1>14 DEF Stop
<1>15. CASE RestoreImage
  BY Zenon, <1>15 DEF RestoreImage
<1>16. CASE RejectBundle
  BY Zenon, <1>16 DEF RejectBundle
<1>17. CASE RestoreBundle
  BY Zenon, <1>17 DEF RestoreBundle
<1>18. CASE RedoBundle
  BY Zenon, <1>18 DEF RedoBundle
<1>19. CASE Close
  BY Zenon, <1>19 DEF Close
<1>20. CASE Signal
  BY Zenon, <1>20 DEF Signal
<1>21. CASE Installed
  BY Zenon, <1>21 DEF Installed
<1>22. CASE Observe
  BY Zenon, <1>22 DEF Observe
<1>23. CASE Reap
  BY Zenon, <1>23 DEF Reap
<1>24. CASE PollExit
  BY Zenon, <1>24 DEF PollExit
<1>25. CASE PollTimeout
  BY Zenon, <1>25 DEF PollTimeout
<1>26. CASE PollError
  BY Zenon, <1>26 DEF PollError
<1>27. CASE Quitting
  BY Zenon, <1>27 DEF Quitting
<1>. QED
  BY <1>1, <1>2, <1>3, <1>4, <1>5, <1>6, <1>7, <1>8, <1>9, <1>10, <1>11, <1>12, <1>13, <1>14, <1>15, <1>16, <1>17, <1>18, <1>19, <1>20, <1>21, <1>22, <1>23, <1>24, <1>25, <1>26, <1>27 DEF UpdaterStep

\* The flags stay Boolean under a step of the updater (no arithmetic: Zenon).
LEMMA UpdaterFlags == FlagTypes /\ UpdaterStep => FlagTypes'
<1>. SUFFICES ASSUME FlagTypes, UpdaterStep PROVE FlagTypes'
  OBVIOUS
<1>. USE DEF FlagTypes,
      Goto, Return, Works, Fails, KeepSession, KeepScript, KeepChild, KeepOthers, Authorize,
      StopChild, Linux, fileVars, childVars, scriptVars, othersVars
<1>1. CASE Begin
  BY Zenon, <1>1 DEF Begin
<1>2. CASE Fetch
  BY Zenon, <1>2 DEF Fetch
<1>3. CASE Recheck
  BY Zenon, <1>3 DEF Recheck
<1>4. CASE BackUp
  BY Zenon, <1>4 DEF BackUp
<1>5. CASE Rename
  BY Zenon, <1>5 DEF Rename
<1>6. CASE StageBundle
  BY Zenon, <1>6 DEF StageBundle
<1>7. CASE Exchange
  BY Zenon, <1>7 DEF Exchange
<1>8. CASE FirstRename
  BY Zenon, <1>8 DEF FirstRename
<1>9. CASE SecondRename
  BY Zenon, <1>9 DEF SecondRename
<1>10. CASE UndoRename
  BY Zenon, <1>10 DEF UndoRename
<1>11. CASE Launch
  BY Zenon, <1>11 DEF Launch
<1>12. CASE Confirmed
  BY Zenon, <1>12 DEF Confirmed
<1>13. CASE NotConfirmed
  BY Zenon, <1>13 DEF NotConfirmed
<1>14. CASE Stop
  BY Zenon, <1>14 DEF Stop
<1>15. CASE RestoreImage
  BY Zenon, <1>15 DEF RestoreImage
<1>16. CASE RejectBundle
  BY Zenon, <1>16 DEF RejectBundle
<1>17. CASE RestoreBundle
  BY Zenon, <1>17 DEF RestoreBundle
<1>18. CASE RedoBundle
  BY Zenon, <1>18 DEF RedoBundle
<1>19. CASE Close
  BY Zenon, <1>19 DEF Close
<1>20. CASE Signal
  BY Zenon, <1>20 DEF Signal
<1>21. CASE Installed
  BY Zenon, <1>21 DEF Installed
<1>22. CASE Observe
  BY Zenon, <1>22 DEF Observe
<1>23. CASE Reap
  BY Zenon, <1>23 DEF Reap
<1>24. CASE PollExit
  BY Zenon, <1>24 DEF PollExit
<1>25. CASE PollTimeout
  BY Zenon, <1>25 DEF PollTimeout
<1>26. CASE PollError
  BY Zenon, <1>26 DEF PollError
<1>27. CASE Quitting
  BY Zenon, <1>27 DEF Quitting
<1>. QED
  BY <1>1, <1>2, <1>3, <1>4, <1>5, <1>6, <1>7, <1>8, <1>9, <1>10, <1>11, <1>12, <1>13, <1>14, <1>15, <1>16, <1>17, <1>18, <1>19, <1>20, <1>21, <1>22, <1>23, <1>24, <1>25, <1>26, <1>27 DEF UpdaterStep

\* The bounds of the model hold after a step of the updater.
LEMMA UpdaterCounts == CountTypes /\ UpdaterStep => CountTypes'
<1>. SUFFICES ASSUME CountTypes, UpdaterStep PROVE CountTypes'
  OBVIOUS
<1>. USE DEF CountTypes,
      Goto, Return, Works, Fails, KeepSession, KeepScript, KeepChild, KeepOthers, Authorize,
      StopChild, Linux, fileVars, childVars, scriptVars, othersVars
<1>1. CASE Begin
  BY SMT, BoundAssumption, <1>1 DEF Begin
<1>2. CASE Fetch
  BY SMT, BoundAssumption, <1>2 DEF Fetch
<1>3. CASE Recheck
  BY SMT, BoundAssumption, <1>3 DEF Recheck
<1>4. CASE BackUp
  BY SMT, BoundAssumption, <1>4 DEF BackUp
<1>5. CASE Rename
  BY SMT, BoundAssumption, <1>5 DEF Rename
<1>6. CASE StageBundle
  BY SMT, BoundAssumption, <1>6 DEF StageBundle
<1>7. CASE Exchange
  BY SMT, BoundAssumption, <1>7 DEF Exchange
<1>8. CASE FirstRename
  BY SMT, BoundAssumption, <1>8 DEF FirstRename
<1>9. CASE SecondRename
  BY SMT, BoundAssumption, <1>9 DEF SecondRename
<1>10. CASE UndoRename
  BY SMT, BoundAssumption, <1>10 DEF UndoRename
<1>11. CASE Launch
  BY SMT, BoundAssumption, <1>11 DEF Launch
<1>12. CASE Confirmed
  BY SMT, BoundAssumption, <1>12 DEF Confirmed
<1>13. CASE NotConfirmed
  BY SMT, BoundAssumption, <1>13 DEF NotConfirmed
<1>14. CASE Stop
  BY SMT, BoundAssumption, <1>14 DEF Stop
<1>15. CASE RestoreImage
  BY SMT, BoundAssumption, <1>15 DEF RestoreImage
<1>16. CASE RejectBundle
  BY SMT, BoundAssumption, <1>16 DEF RejectBundle
<1>17. CASE RestoreBundle
  BY SMT, BoundAssumption, <1>17 DEF RestoreBundle
<1>18. CASE RedoBundle
  BY SMT, BoundAssumption, <1>18 DEF RedoBundle
<1>19. CASE Close
  BY SMT, BoundAssumption, <1>19 DEF Close
<1>20. CASE Signal
  BY SMT, BoundAssumption, <1>20 DEF Signal
<1>21. CASE Installed
  BY SMT, BoundAssumption, <1>21 DEF Installed
<1>22. CASE Observe
  BY SMT, BoundAssumption, <1>22 DEF Observe
<1>23. CASE Reap
  BY SMT, BoundAssumption, <1>23 DEF Reap
<1>24. CASE PollExit
  BY SMT, BoundAssumption, <1>24 DEF PollExit
<1>25. CASE PollTimeout
  BY SMT, BoundAssumption, <1>25 DEF PollTimeout
<1>26. CASE PollError
  BY SMT, BoundAssumption, <1>26 DEF PollError
<1>27. CASE Quitting
  BY SMT, BoundAssumption, <1>27 DEF Quitting
<1>. QED
  BY <1>1, <1>2, <1>3, <1>4, <1>5, <1>6, <1>7, <1>8, <1>9, <1>10, <1>11, <1>12, <1>13, <1>14, <1>15, <1>16, <1>17, <1>18, <1>19, <1>20, <1>21, <1>22, <1>23, <1>24, <1>25, <1>26, <1>27 DEF UpdaterStep

\* The inductive invariant is kept by a step of the updater: one step for each
\* action, and below it one for each part where the action needs them apart.
LEMMA UpdaterKeep == IInv /\ UpdaterStep => (LockInv /\ RouteInv /\ WritableInv /\ ScriptInv /\ StatusInv /\ CommitInv /\ ResultInv)'
<1>. SUFFICES ASSUME IInv, UpdaterStep PROVE (LockInv /\ RouteInv /\ WritableInv /\ ScriptInv /\ StatusInv /\ CommitInv /\ ResultInv)'
  OBVIOUS
<1>. USE DEF IInv, LockInv, RouteInv, WritableInv, ScriptInv, StatusInv, CommitInv, ResultInv,
      Means, Safe, Preparing, Replacing, Starting, Talking, UpdaterAlive, ChildAlive, VersionKept,
      Goto, Return, Works, Fails, KeepSession, KeepScript, KeepChild, KeepOthers, Authorize,
      StopChild, Linux, fileVars, childVars, scriptVars, othersVars
<1>0. /\ route \in {"writable", "script"}
      /\ want \in {"begin", "commit", "abort", "drop"}
      /\ phase \in {"preparing", "exchanging", "installed", "committed", "aborted", "rollback-failed"}
  BY Zenon DEF TypeOK
<1>1. CASE Begin
  BY SMT, <1>0, <1>1 DEF Begin
<1>2. CASE Fetch
  BY SMT, <1>0, <1>2 DEF Fetch
<1>3. CASE Recheck
  BY SMT, <1>0, <1>3 DEF Recheck
<1>4. CASE BackUp
  BY SMT, <1>0, <1>4 DEF BackUp
<1>5. CASE Rename
  <2>1. LockInv'
    BY SMT, <1>0, <1>5 DEF Rename
  <2>2. RouteInv'
    BY SMT, <1>0, <1>5 DEF Rename
  <2>3. WritableInv'
    BY SMT, <1>0, <1>5 DEF Rename
  <2>4. ScriptInv'
    BY SMT, <1>0, <1>5 DEF Rename
  <2>5. StatusInv'
    BY SMT, <1>0, <1>5 DEF Rename
  <2>6. CommitInv'
    BY SMT, <1>0, <1>5 DEF Rename
  <2>7. ResultInv'
    BY SMT, <1>0, <1>5 DEF Rename
  <2>. QED
    BY <2>1, <2>2, <2>3, <2>4, <2>5, <2>6, <2>7
<1>6. CASE StageBundle
  BY SMT, <1>0, <1>6 DEF StageBundle
<1>7. CASE Exchange
  BY SMT, <1>0, <1>7 DEF Exchange
<1>8. CASE FirstRename
  BY SMT, <1>0, <1>8 DEF FirstRename
<1>9. CASE SecondRename
  BY SMT, <1>0, <1>9 DEF SecondRename
<1>10. CASE UndoRename
  BY SMT, <1>0, <1>10 DEF UndoRename
<1>11. CASE Launch
  BY SMT, <1>0, <1>11 DEF Launch
<1>12. CASE Confirmed
  <2>1. LockInv'
    BY SMT, <1>0, <1>12 DEF Confirmed
  <2>2. RouteInv'
    BY SMT, <1>0, <1>12 DEF Confirmed
  <2>3. WritableInv'
    BY SMT, <1>0, <1>12 DEF Confirmed
  <2>4. ScriptInv'
    BY SMT, <1>0, <1>12 DEF Confirmed
  <2>5. StatusInv'
    BY SMT, <1>0, <1>12 DEF Confirmed
  <2>6. CommitInv'
    BY SMT, <1>0, <1>12 DEF Confirmed
  <2>7. ResultInv'
    BY SMT, <1>0, <1>12 DEF Confirmed
  <2>. QED
    BY <2>1, <2>2, <2>3, <2>4, <2>5, <2>6, <2>7
<1>13. CASE NotConfirmed
  BY SMT, <1>0, <1>13 DEF NotConfirmed
<1>14. CASE Stop
  <2>1. LockInv'
    BY SMT, <1>0, <1>14, EndCases DEF Stop
  <2>2. RouteInv'
    BY SMT, <1>0, <1>14, EndCases DEF Stop
  <2>3. WritableInv'
    BY SMT, <1>0, <1>14, EndCases DEF Stop
  <2>4. ScriptInv'
    BY SMT, <1>0, <1>14, EndCases DEF Stop
  <2>5. StatusInv'
    BY SMT, <1>0, <1>14, EndCases DEF Stop
  <2>6. CommitInv'
    BY SMT, <1>0, <1>14, EndCases DEF Stop
  <2>7. ResultInv'
    BY SMT, <1>0, <1>14, EndCases DEF Stop
  <2>. QED
    BY <2>1, <2>2, <2>3, <2>4, <2>5, <2>6, <2>7
<1>15. CASE RestoreImage
  BY SMT, <1>0, <1>15 DEF RestoreImage
<1>16. CASE RejectBundle
  BY SMT, <1>0, <1>16 DEF RejectBundle
<1>17. CASE RestoreBundle
  BY SMT, <1>0, <1>17 DEF RestoreBundle
<1>18. CASE RedoBundle
  BY SMT, <1>0, <1>18 DEF RedoBundle
<1>19. CASE Close
  BY SMT, <1>0, <1>19 DEF Close
<1>20. CASE Signal
  <2>1. LockInv'
    BY SMT, <1>0, <1>20, DeniedCases DEF Signal
  <2>2. RouteInv'
    BY SMT, <1>0, <1>20, DeniedCases DEF Signal
  <2>3. WritableInv'
    BY SMT, <1>0, <1>20, DeniedCases DEF Signal
  <2>4. ScriptInv'
    BY SMT, <1>0, <1>20, DeniedCases DEF Signal
  <2>5. StatusInv'
    BY SMT, <1>0, <1>20, DeniedCases DEF Signal
  <2>6. CommitInv'
    BY SMT, <1>0, <1>20, DeniedCases DEF Signal
  <2>7. ResultInv'
    BY SMT, <1>0, <1>20, DeniedCases DEF Signal
  <2>. QED
    BY <2>1, <2>2, <2>3, <2>4, <2>5, <2>6, <2>7
<1>21. CASE Installed
  <2>1. LockInv'
    BY SMT, <1>0, <1>21 DEF Installed
  <2>2. RouteInv'
    BY SMT, <1>0, <1>21 DEF Installed
  <2>3. WritableInv'
    BY SMT, <1>0, <1>21 DEF Installed
  <2>4. ScriptInv'
    BY SMT, <1>0, <1>21 DEF Installed
  <2>5. StatusInv'
    BY SMT, <1>0, <1>21 DEF Installed
  <2>6. CommitInv'
    BY SMT, <1>0, <1>21 DEF Installed
  <2>7. ResultInv'
    BY SMT, <1>0, <1>21 DEF Installed
  <2>. QED
    BY <2>1, <2>2, <2>3, <2>4, <2>5, <2>6, <2>7
<1>22. CASE Observe
  BY SMT, <1>0, <1>22 DEF Observe
<1>23. CASE Reap
  <2>1. LockInv'
    BY SMT, <1>0, <1>23, DeniedCases DEF Reap, Granted
  <2>2. RouteInv'
    BY SMT, <1>0, <1>23, DeniedCases DEF Reap, Granted
  <2>3. WritableInv'
    BY SMT, <1>0, <1>23, DeniedCases DEF Reap, Granted
  <2>4. ScriptInv'
    BY SMT, <1>0, <1>23, DeniedCases DEF Reap, Granted
  <2>5. StatusInv'
    BY SMT, <1>0, <1>23, DeniedCases DEF Reap, Granted
  <2>6. CommitInv'
    BY SMT, <1>0, <1>23, DeniedCases DEF Reap, Granted
  <2>7. ResultInv'
    BY SMT, <1>0, <1>23, DeniedCases DEF Reap, Granted
  <2>. QED
    BY <2>1, <2>2, <2>3, <2>4, <2>5, <2>6, <2>7
<1>24. CASE PollExit
  <2>1. LockInv'
    BY SMT, <1>0, <1>24, DeniedCases DEF PollExit
  <2>2. RouteInv'
    BY SMT, <1>0, <1>24, DeniedCases DEF PollExit
  <2>3. WritableInv'
    BY SMT, <1>0, <1>24, DeniedCases DEF PollExit
  <2>4. ScriptInv'
    BY SMT, <1>0, <1>24, DeniedCases DEF PollExit
  <2>5. StatusInv'
    BY SMT, <1>0, <1>24, DeniedCases DEF PollExit
  <2>6. CommitInv'
    BY SMT, <1>0, <1>24, DeniedCases DEF PollExit
  <2>7. ResultInv'
    BY SMT, <1>0, <1>24, DeniedCases DEF PollExit
  <2>. QED
    BY <2>1, <2>2, <2>3, <2>4, <2>5, <2>6, <2>7
<1>25. CASE PollTimeout
  <2>1. LockInv'
    BY SMT, <1>0, <1>25, DeniedCases DEF PollTimeout
  <2>2. RouteInv'
    BY SMT, <1>0, <1>25, DeniedCases DEF PollTimeout
  <2>3. WritableInv'
    BY SMT, <1>0, <1>25, DeniedCases DEF PollTimeout
  <2>4. ScriptInv'
    BY SMT, <1>0, <1>25, DeniedCases DEF PollTimeout
  <2>5. StatusInv'
    BY SMT, <1>0, <1>25, DeniedCases DEF PollTimeout
  <2>6. CommitInv'
    BY SMT, <1>0, <1>25, DeniedCases DEF PollTimeout
  <2>7. ResultInv'
    BY SMT, <1>0, <1>25, DeniedCases DEF PollTimeout
  <2>. QED
    BY <2>1, <2>2, <2>3, <2>4, <2>5, <2>6, <2>7
<1>26. CASE PollError
  BY SMT, <1>0, <1>26 DEF PollError
<1>27. CASE Quitting
  <2>1. LockInv'
    BY SMT, <1>0, <1>27, EndCases DEF Quitting
  <2>2. RouteInv'
    BY SMT, <1>0, <1>27, EndCases DEF Quitting
  <2>3. WritableInv'
    BY SMT, <1>0, <1>27, EndCases DEF Quitting
  <2>4. ScriptInv'
    BY SMT, <1>0, <1>27, EndCases DEF Quitting
  <2>5. StatusInv'
    BY SMT, <1>0, <1>27, EndCases DEF Quitting
  <2>6. CommitInv'
    BY SMT, <1>0, <1>27, EndCases DEF Quitting
  <2>7. ResultInv'
    BY SMT, <1>0, <1>27, EndCases DEF Quitting
  <2>. QED
    BY <2>1, <2>2, <2>3, <2>4, <2>5, <2>6, <2>7
<1>. QED
  BY <1>1, <1>2, <1>3, <1>4, <1>5, <1>6, <1>7, <1>8, <1>9, <1>10, <1>11, <1>12, <1>13, <1>14, <1>15, <1>16, <1>17, <1>18, <1>19, <1>20, <1>21, <1>22, <1>23, <1>24, <1>25, <1>26, <1>27 DEF UpdaterStep

-----------------------------------------------------------------------------
(* The steps of the script.                                                *)

\* The values of the variables are kept by a step of the script.
LEMMA ScriptEnums == EnumTypes /\ ScriptStep => EnumTypes'
<1>. SUFFICES ASSUME EnumTypes, ScriptStep PROVE EnumTypes'
  OBVIOUS
<1>. USE DEF EnumTypes, Place, ScriptPlace, Returned, UpdaterAlive,
      Works, Fails, Script, ScriptGoes, ScriptExits, RollbackFails, CleanedStage,
      fileVars, updaterVars, childVars, othersVars
<1>1. CASE ScriptPrepare
  BY SMT, <1>1 DEF ScriptPrepare
<1>2. CASE ScriptFirst
  BY SMT, <1>2 DEF ScriptFirst
<1>3. CASE ScriptSecond
  BY SMT, <1>3 DEF ScriptSecond
<1>4. CASE ScriptReads
  BY SMT, <1>4 DEF ScriptReads
<1>5. CASE ScriptChecks
  BY SMT, <1>5 DEF ScriptChecks
<1>6. CASE ScriptBack
  BY SMT, <1>6 DEF ScriptBack
<1>7. CASE ScriptReturn
  BY SMT, <1>7 DEF ScriptReturn
<1>8. CASE ScriptRedo
  BY SMT, <1>8 DEF ScriptRedo
<1>9. CASE ScriptFinish
  BY SMT, <1>9 DEF ScriptFinish
<1>10. CASE ScriptCleans
  BY SMT, <1>10 DEF ScriptCleans
<1>11. CASE ScriptLeaves
  BY SMT, <1>11 DEF ScriptLeaves
<1>. QED
  BY <1>1, <1>2, <1>3, <1>4, <1>5, <1>6, <1>7, <1>8, <1>9, <1>10, <1>11 DEF ScriptStep

\* The sets stay within their elements under a step of the script.
LEMMA ScriptSets == SetTypes /\ ScriptStep => SetTypes'
<1>. SUFFICES ASSUME SetTypes, ScriptStep PROVE SetTypes'
  OBVIOUS
<1>. USE DEF SetTypes,
      Works, Fails, Script, ScriptGoes, ScriptExits, RollbackFails, CleanedStage,
      fileVars, updaterVars, childVars, othersVars
<1>1. CASE ScriptPrepare
  BY Zenon, <1>1 DEF ScriptPrepare
<1>2. CASE ScriptFirst
  BY Zenon, <1>2 DEF ScriptFirst
<1>3. CASE ScriptSecond
  BY Zenon, <1>3 DEF ScriptSecond
<1>4. CASE ScriptReads
  BY Zenon, <1>4 DEF ScriptReads
<1>5. CASE ScriptChecks
  BY Zenon, <1>5 DEF ScriptChecks
<1>6. CASE ScriptBack
  BY Zenon, <1>6 DEF ScriptBack
<1>7. CASE ScriptReturn
  BY Zenon, <1>7 DEF ScriptReturn
<1>8. CASE ScriptRedo
  BY Zenon, <1>8 DEF ScriptRedo
<1>9. CASE ScriptFinish
  BY Zenon, <1>9 DEF ScriptFinish
<1>10. CASE ScriptCleans
  BY Zenon, <1>10 DEF ScriptCleans
<1>11. CASE ScriptLeaves
  BY Zenon, <1>11 DEF ScriptLeaves
<1>. QED
  BY <1>1, <1>2, <1>3, <1>4, <1>5, <1>6, <1>7, <1>8, <1>9, <1>10, <1>11 DEF ScriptStep

\* The flags stay Boolean under a step of the script (no arithmetic: Zenon).
LEMMA ScriptFlags == FlagTypes /\ ScriptStep => FlagTypes'
<1>. SUFFICES ASSUME FlagTypes, ScriptStep PROVE FlagTypes'
  OBVIOUS
<1>. USE DEF FlagTypes,
      Works, Fails, Script, ScriptGoes, ScriptExits, RollbackFails, CleanedStage,
      fileVars, updaterVars, childVars, othersVars
<1>1. CASE ScriptPrepare
  BY Zenon, <1>1 DEF ScriptPrepare
<1>2. CASE ScriptFirst
  BY Zenon, <1>2 DEF ScriptFirst
<1>3. CASE ScriptSecond
  BY Zenon, <1>3 DEF ScriptSecond
<1>4. CASE ScriptReads
  BY Zenon, <1>4 DEF ScriptReads
<1>5. CASE ScriptChecks
  BY Zenon, <1>5 DEF ScriptChecks
<1>6. CASE ScriptBack
  BY Zenon, <1>6 DEF ScriptBack
<1>7. CASE ScriptReturn
  BY Zenon, <1>7 DEF ScriptReturn
<1>8. CASE ScriptRedo
  BY Zenon, <1>8 DEF ScriptRedo
<1>9. CASE ScriptFinish
  BY Zenon, <1>9 DEF ScriptFinish
<1>10. CASE ScriptCleans
  BY Zenon, <1>10 DEF ScriptCleans
<1>11. CASE ScriptLeaves
  BY Zenon, <1>11 DEF ScriptLeaves
<1>. QED
  BY <1>1, <1>2, <1>3, <1>4, <1>5, <1>6, <1>7, <1>8, <1>9, <1>10, <1>11 DEF ScriptStep

\* The bounds of the model hold after a step of the script.
LEMMA ScriptCounts == CountTypes /\ ScriptStep => CountTypes'
<1>. SUFFICES ASSUME CountTypes, ScriptStep PROVE CountTypes'
  OBVIOUS
<1>. USE DEF CountTypes,
      Works, Fails, Script, ScriptGoes, ScriptExits, RollbackFails, CleanedStage,
      fileVars, updaterVars, childVars, othersVars
<1>1. CASE ScriptPrepare
  BY SMT, BoundAssumption, <1>1 DEF ScriptPrepare
<1>2. CASE ScriptFirst
  BY SMT, BoundAssumption, <1>2 DEF ScriptFirst
<1>3. CASE ScriptSecond
  BY SMT, BoundAssumption, <1>3 DEF ScriptSecond
<1>4. CASE ScriptReads
  BY SMT, BoundAssumption, <1>4 DEF ScriptReads
<1>5. CASE ScriptChecks
  BY SMT, BoundAssumption, <1>5 DEF ScriptChecks
<1>6. CASE ScriptBack
  BY SMT, BoundAssumption, <1>6 DEF ScriptBack
<1>7. CASE ScriptReturn
  BY SMT, BoundAssumption, <1>7 DEF ScriptReturn
<1>8. CASE ScriptRedo
  BY SMT, BoundAssumption, <1>8 DEF ScriptRedo
<1>9. CASE ScriptFinish
  BY SMT, BoundAssumption, <1>9 DEF ScriptFinish
<1>10. CASE ScriptCleans
  BY SMT, BoundAssumption, <1>10 DEF ScriptCleans
<1>11. CASE ScriptLeaves
  BY SMT, BoundAssumption, <1>11 DEF ScriptLeaves
<1>. QED
  BY <1>1, <1>2, <1>3, <1>4, <1>5, <1>6, <1>7, <1>8, <1>9, <1>10, <1>11 DEF ScriptStep

\* The inductive invariant is kept by a step of the script: one step for each
\* action, and below it one for each part where the action needs them apart.
LEMMA ScriptKeep == IInv /\ ScriptStep => (LockInv /\ RouteInv /\ WritableInv /\ ScriptInv /\ StatusInv /\ CommitInv /\ ResultInv)'
<1>. SUFFICES ASSUME IInv, ScriptStep PROVE (LockInv /\ RouteInv /\ WritableInv /\ ScriptInv /\ StatusInv /\ CommitInv /\ ResultInv)'
  OBVIOUS
<1>. USE DEF IInv, LockInv, RouteInv, WritableInv, ScriptInv, StatusInv, CommitInv, ResultInv,
      Means, Safe, Preparing, Replacing, Starting, Talking, UpdaterAlive, ChildAlive, VersionKept,
      Works, Fails, Script, ScriptGoes, ScriptExits, RollbackFails, CleanedStage,
      fileVars, updaterVars, childVars, othersVars
<1>0. /\ route \in {"writable", "script"}
      /\ want \in {"begin", "commit", "abort", "drop"}
      /\ phase \in {"preparing", "exchanging", "installed", "committed", "aborted", "rollback-failed"}
  BY Zenon DEF TypeOK
<1>1. CASE ScriptPrepare
  <2>1. LockInv'
    BY SMT, <1>0, <1>1 DEF ScriptPrepare
  <2>2. RouteInv'
    BY SMT, <1>0, <1>1 DEF ScriptPrepare
  <2>3. WritableInv'
    BY SMT, <1>0, <1>1 DEF ScriptPrepare
  <2>4. ScriptInv'
    BY SMT, <1>0, <1>1 DEF ScriptPrepare
  <2>5. StatusInv'
    BY SMT, <1>0, <1>1 DEF ScriptPrepare
  <2>6. CommitInv'
    BY SMT, <1>0, <1>1 DEF ScriptPrepare
  <2>7. ResultInv'
    BY SMT, <1>0, <1>1 DEF ScriptPrepare
  <2>. QED
    BY <2>1, <2>2, <2>3, <2>4, <2>5, <2>6, <2>7
<1>2. CASE ScriptFirst
  <2>1. LockInv'
    BY SMT, <1>0, <1>2 DEF ScriptFirst
  <2>2. RouteInv'
    BY SMT, <1>0, <1>2 DEF ScriptFirst
  <2>3. WritableInv'
    BY SMT, <1>0, <1>2 DEF ScriptFirst
  <2>4. ScriptInv'
    BY SMT, <1>0, <1>2 DEF ScriptFirst
  <2>5. StatusInv'
    BY SMT, <1>0, <1>2 DEF ScriptFirst
  <2>6. CommitInv'
    BY SMT, <1>0, <1>2 DEF ScriptFirst
  <2>7. ResultInv'
    BY SMT, <1>0, <1>2 DEF ScriptFirst
  <2>. QED
    BY <2>1, <2>2, <2>3, <2>4, <2>5, <2>6, <2>7
<1>3. CASE ScriptSecond
  <2>1. LockInv'
    BY SMT, <1>0, <1>3 DEF ScriptSecond
  <2>2. RouteInv'
    BY SMT, <1>0, <1>3 DEF ScriptSecond
  <2>3. WritableInv'
    BY SMT, <1>0, <1>3 DEF ScriptSecond
  <2>4. ScriptInv'
    BY SMT, <1>0, <1>3 DEF ScriptSecond
  <2>5. StatusInv'
    BY SMT, <1>0, <1>3 DEF ScriptSecond
  <2>6. CommitInv'
    BY SMT, <1>0, <1>3 DEF ScriptSecond
  <2>7. ResultInv'
    BY SMT, <1>0, <1>3 DEF ScriptSecond
  <2>. QED
    BY <2>1, <2>2, <2>3, <2>4, <2>5, <2>6, <2>7
<1>4. CASE ScriptReads
  <2>1. LockInv'
    BY SMT, <1>0, <1>4 DEF ScriptReads
  <2>2. RouteInv'
    BY SMT, <1>0, <1>4 DEF ScriptReads
  <2>3. WritableInv'
    BY SMT, <1>0, <1>4 DEF ScriptReads
  <2>4. ScriptInv'
    BY SMT, <1>0, <1>4 DEF ScriptReads
  <2>5. StatusInv'
    BY SMT, <1>0, <1>4 DEF ScriptReads
  <2>6. CommitInv'
    BY SMT, <1>0, <1>4 DEF ScriptReads
  <2>7. ResultInv'
    BY SMT, <1>0, <1>4 DEF ScriptReads
  <2>. QED
    BY <2>1, <2>2, <2>3, <2>4, <2>5, <2>6, <2>7
<1>5. CASE ScriptChecks
  BY SMT, <1>0, <1>5 DEF ScriptChecks
<1>6. CASE ScriptBack
  <2>1. LockInv'
    BY SMT, <1>0, <1>6 DEF ScriptBack
  <2>2. RouteInv'
    BY SMT, <1>0, <1>6 DEF ScriptBack
  <2>3. WritableInv'
    BY SMT, <1>0, <1>6 DEF ScriptBack
  <2>4. ScriptInv'
    BY SMT, <1>0, <1>6 DEF ScriptBack
  <2>5. StatusInv'
    BY SMT, <1>0, <1>6 DEF ScriptBack
  <2>6. CommitInv'
    BY SMT, <1>0, <1>6 DEF ScriptBack
  <2>7. ResultInv'
    BY SMT, <1>0, <1>6 DEF ScriptBack
  <2>. QED
    BY <2>1, <2>2, <2>3, <2>4, <2>5, <2>6, <2>7
<1>7. CASE ScriptReturn
  <2>1. LockInv'
    BY SMT, <1>0, <1>7 DEF ScriptReturn
  <2>2. RouteInv'
    BY SMT, <1>0, <1>7 DEF ScriptReturn
  <2>3. WritableInv'
    BY SMT, <1>0, <1>7 DEF ScriptReturn
  <2>4. ScriptInv'
    BY SMT, <1>0, <1>7 DEF ScriptReturn
  <2>5. StatusInv'
    BY SMT, <1>0, <1>7 DEF ScriptReturn
  <2>6. CommitInv'
    BY SMT, <1>0, <1>7 DEF ScriptReturn
  <2>7. ResultInv'
    BY SMT, <1>0, <1>7 DEF ScriptReturn
  <2>. QED
    BY <2>1, <2>2, <2>3, <2>4, <2>5, <2>6, <2>7
<1>8. CASE ScriptRedo
  <2>1. LockInv'
    BY SMT, <1>0, <1>8 DEF ScriptRedo
  <2>2. RouteInv'
    BY SMT, <1>0, <1>8 DEF ScriptRedo
  <2>3. WritableInv'
    BY SMT, <1>0, <1>8 DEF ScriptRedo
  <2>4. ScriptInv'
    BY SMT, <1>0, <1>8 DEF ScriptRedo
  <2>5. StatusInv'
    BY SMT, <1>0, <1>8 DEF ScriptRedo
  <2>6. CommitInv'
    BY SMT, <1>0, <1>8 DEF ScriptRedo
  <2>7. ResultInv'
    BY SMT, <1>0, <1>8 DEF ScriptRedo
  <2>. QED
    BY <2>1, <2>2, <2>3, <2>4, <2>5, <2>6, <2>7
<1>9. CASE ScriptFinish
  <2>1. LockInv'
    BY SMT, <1>0, <1>9 DEF ScriptFinish
  <2>2. RouteInv'
    BY SMT, <1>0, <1>9 DEF ScriptFinish
  <2>3. WritableInv'
    BY SMT, <1>0, <1>9 DEF ScriptFinish
  <2>4. ScriptInv'
    BY SMT, <1>0, <1>9 DEF ScriptFinish
  <2>5. StatusInv'
    BY SMT, <1>0, <1>9 DEF ScriptFinish
  <2>6. CommitInv'
    BY SMT, <1>0, <1>9 DEF ScriptFinish
  <2>7. ResultInv'
    BY SMT, <1>0, <1>9 DEF ScriptFinish
  <2>. QED
    BY <2>1, <2>2, <2>3, <2>4, <2>5, <2>6, <2>7
<1>10. CASE ScriptCleans
  <2>1. LockInv'
    BY SMT, <1>0, <1>10 DEF ScriptCleans
  <2>2. RouteInv'
    BY SMT, <1>0, <1>10 DEF ScriptCleans
  <2>3. WritableInv'
    BY SMT, <1>0, <1>10 DEF ScriptCleans
  <2>4. ScriptInv'
    BY SMT, <1>0, <1>10 DEF ScriptCleans
  <2>5. StatusInv'
    BY SMT, <1>0, <1>10 DEF ScriptCleans
  <2>6. CommitInv'
    BY SMT, <1>0, <1>10 DEF ScriptCleans
  <2>7. ResultInv'
    BY SMT, <1>0, <1>10 DEF ScriptCleans
  <2>. QED
    BY <2>1, <2>2, <2>3, <2>4, <2>5, <2>6, <2>7
<1>11. CASE ScriptLeaves
  BY SMT, <1>0, <1>11 DEF ScriptLeaves
<1>. QED
  BY <1>1, <1>2, <1>3, <1>4, <1>5, <1>6, <1>7, <1>8, <1>9, <1>10, <1>11 DEF ScriptStep

-----------------------------------------------------------------------------
(* The steps of the others.                                                *)

\* The values of the variables are kept by the new process, the user, a kill or a loss of power.
LEMMA OthersEnums == EnumTypes /\ OthersStep => EnumTypes'
<1>. SUFFICES ASSUME EnumTypes, OthersStep PROVE EnumTypes'
  OBVIOUS
<1>. USE DEF EnumTypes, Place, ScriptPlace, Returned, UpdaterAlive,
      Linux, Works, Kills, KeepScript, KeepChild, KeepOthers, KeepUpdater, Script, ScriptExits, StopChild,
      fileVars, updaterVars, childVars, scriptVars, othersVars
<1>1. CASE ChildReports
  BY SMT, <1>1 DEF ChildReports
<1>2. CASE ChildAcks
  BY SMT, <1>2 DEF ChildAcks
<1>3. CASE ChildDies
  BY SMT, <1>3 DEF ChildDies
<1>4. CASE ScriptStart
  BY SMT, <1>4 DEF ScriptStart
<1>5. CASE ScriptTimesOut
  BY SMT, <1>5 DEF ScriptTimesOut
<1>6. CASE KillUpdater
  BY SMT, <1>6 DEF KillUpdater
<1>7. CASE KillScript
  BY SMT, <1>7 DEF KillScript
<1>8. CASE PowerLoss
  BY SMT, <1>8 DEF PowerLoss
<1>9. CASE StartOther
  BY SMT, <1>9 DEF StartOther
<1>. QED
  BY <1>1, <1>2, <1>3, <1>4, <1>5, <1>6, <1>7, <1>8, <1>9 DEF OthersStep

\* The sets stay within their elements under the new process, the user, a kill or a loss of power.
LEMMA OthersSets == SetTypes /\ OthersStep => SetTypes'
<1>. SUFFICES ASSUME SetTypes, OthersStep PROVE SetTypes'
  OBVIOUS
<1>. USE DEF SetTypes,
      Linux, Works, Kills, KeepScript, KeepChild, KeepOthers, KeepUpdater, Script, ScriptExits, StopChild,
      fileVars, updaterVars, childVars, scriptVars, othersVars
<1>1. CASE ChildReports
  BY Zenon, <1>1 DEF ChildReports
<1>2. CASE ChildAcks
  BY Zenon, <1>2 DEF ChildAcks
<1>3. CASE ChildDies
  BY Zenon, <1>3 DEF ChildDies
<1>4. CASE ScriptStart
  BY Zenon, <1>4 DEF ScriptStart
<1>5. CASE ScriptTimesOut
  BY Zenon, <1>5 DEF ScriptTimesOut
<1>6. CASE KillUpdater
  BY Zenon, <1>6 DEF KillUpdater
<1>7. CASE KillScript
  BY Zenon, <1>7 DEF KillScript
<1>8. CASE PowerLoss
  BY Zenon, <1>8 DEF PowerLoss
<1>9. CASE StartOther
  BY Zenon, <1>9 DEF StartOther
<1>. QED
  BY <1>1, <1>2, <1>3, <1>4, <1>5, <1>6, <1>7, <1>8, <1>9 DEF OthersStep

\* The flags stay Boolean under the new process, the user, a kill or a loss of power (no arithmetic: Zenon).
LEMMA OthersFlags == FlagTypes /\ OthersStep => FlagTypes'
<1>. SUFFICES ASSUME FlagTypes, OthersStep PROVE FlagTypes'
  OBVIOUS
<1>. USE DEF FlagTypes,
      Linux, Works, Kills, KeepScript, KeepChild, KeepOthers, KeepUpdater, Script, ScriptExits, StopChild,
      fileVars, updaterVars, childVars, scriptVars, othersVars
<1>1. CASE ChildReports
  BY Zenon, <1>1 DEF ChildReports
<1>2. CASE ChildAcks
  BY Zenon, <1>2 DEF ChildAcks
<1>3. CASE ChildDies
  BY Zenon, <1>3 DEF ChildDies
<1>4. CASE ScriptStart
  BY Zenon, <1>4 DEF ScriptStart
<1>5. CASE ScriptTimesOut
  BY Zenon, <1>5 DEF ScriptTimesOut
<1>6. CASE KillUpdater
  BY Zenon, <1>6 DEF KillUpdater
<1>7. CASE KillScript
  BY Zenon, <1>7 DEF KillScript
<1>8. CASE PowerLoss
  BY Zenon, <1>8 DEF PowerLoss
<1>9. CASE StartOther
  BY Zenon, <1>9 DEF StartOther
<1>. QED
  BY <1>1, <1>2, <1>3, <1>4, <1>5, <1>6, <1>7, <1>8, <1>9 DEF OthersStep

\* The bounds of the model hold after the new process, the user, a kill or a loss of power.
LEMMA OthersCounts == CountTypes /\ OthersStep => CountTypes'
<1>. SUFFICES ASSUME CountTypes, OthersStep PROVE CountTypes'
  OBVIOUS
<1>. USE DEF CountTypes,
      Linux, Works, Kills, KeepScript, KeepChild, KeepOthers, KeepUpdater, Script, ScriptExits, StopChild,
      fileVars, updaterVars, childVars, scriptVars, othersVars
<1>1. CASE ChildReports
  BY SMT, BoundAssumption, <1>1 DEF ChildReports
<1>2. CASE ChildAcks
  BY SMT, BoundAssumption, <1>2 DEF ChildAcks
<1>3. CASE ChildDies
  BY SMT, BoundAssumption, <1>3 DEF ChildDies
<1>4. CASE ScriptStart
  BY SMT, BoundAssumption, <1>4 DEF ScriptStart
<1>5. CASE ScriptTimesOut
  BY SMT, BoundAssumption, <1>5 DEF ScriptTimesOut
<1>6. CASE KillUpdater
  BY SMT, BoundAssumption, <1>6 DEF KillUpdater
<1>7. CASE KillScript
  BY SMT, BoundAssumption, <1>7 DEF KillScript
<1>8. CASE PowerLoss
  BY SMT, BoundAssumption, <1>8 DEF PowerLoss
<1>9. CASE StartOther
  BY SMT, BoundAssumption, <1>9 DEF StartOther
<1>. QED
  BY <1>1, <1>2, <1>3, <1>4, <1>5, <1>6, <1>7, <1>8, <1>9 DEF OthersStep

\* The inductive invariant is kept by the new process, the user, a kill or a loss of power: one step for each
\* action, and below it one for each part where the action needs them apart.
LEMMA OthersKeep == IInv /\ OthersStep => (LockInv /\ RouteInv /\ WritableInv /\ ScriptInv /\ StatusInv /\ CommitInv /\ ResultInv)'
<1>. SUFFICES ASSUME IInv, OthersStep PROVE (LockInv /\ RouteInv /\ WritableInv /\ ScriptInv /\ StatusInv /\ CommitInv /\ ResultInv)'
  OBVIOUS
<1>. USE DEF IInv, LockInv, RouteInv, WritableInv, ScriptInv, StatusInv, CommitInv, ResultInv,
      Means, Safe, Preparing, Replacing, Starting, Talking, UpdaterAlive, ChildAlive, VersionKept,
      Linux, Works, Kills, KeepScript, KeepChild, KeepOthers, KeepUpdater, Script, ScriptExits, StopChild,
      fileVars, updaterVars, childVars, scriptVars, othersVars
<1>0. /\ route \in {"writable", "script"}
      /\ want \in {"begin", "commit", "abort", "drop"}
      /\ phase \in {"preparing", "exchanging", "installed", "committed", "aborted", "rollback-failed"}
  BY Zenon DEF TypeOK
<1>1. CASE ChildReports
  BY SMT, <1>0, <1>1 DEF ChildReports
<1>2. CASE ChildAcks
  <2>1. LockInv'
    BY SMT, <1>0, <1>2 DEF ChildAcks
  <2>2. RouteInv'
    BY SMT, <1>0, <1>2 DEF ChildAcks
  <2>3. WritableInv'
    BY SMT, <1>0, <1>2 DEF ChildAcks
  <2>4. ScriptInv'
    BY SMT, <1>0, <1>2 DEF ChildAcks
  <2>5. StatusInv'
    BY SMT, <1>0, <1>2 DEF ChildAcks
  <2>6. CommitInv'
    BY SMT, <1>0, <1>2 DEF ChildAcks
  <2>7. ResultInv'
    BY SMT, <1>0, <1>2 DEF ChildAcks
  <2>. QED
    BY <2>1, <2>2, <2>3, <2>4, <2>5, <2>6, <2>7
<1>3. CASE ChildDies
  <2>1. LockInv'
    BY SMT, <1>0, <1>3 DEF ChildDies
  <2>2. RouteInv'
    BY SMT, <1>0, <1>3 DEF ChildDies
  <2>3. WritableInv'
    BY SMT, <1>0, <1>3 DEF ChildDies
  <2>4. ScriptInv'
    BY SMT, <1>0, <1>3 DEF ChildDies
  <2>5. StatusInv'
    BY SMT, <1>0, <1>3 DEF ChildDies
  <2>6. CommitInv'
    BY SMT, <1>0, <1>3 DEF ChildDies
  <2>7. ResultInv'
    BY SMT, <1>0, <1>3 DEF ChildDies
  <2>. QED
    BY <2>1, <2>2, <2>3, <2>4, <2>5, <2>6, <2>7
<1>4. CASE ScriptStart
  BY SMT, <1>0, <1>4 DEF ScriptStart
<1>5. CASE ScriptTimesOut
  BY SMT, <1>0, <1>5 DEF ScriptTimesOut
<1>6. CASE KillUpdater
  BY SMT, <1>0, <1>6 DEF KillUpdater
<1>7. CASE KillScript
  BY SMT, <1>0, <1>7 DEF KillScript
<1>8. CASE PowerLoss
  BY SMT, <1>0, <1>8 DEF PowerLoss
<1>9. CASE StartOther
  BY SMT, <1>0, <1>9 DEF StartOther
<1>. QED
  BY <1>1, <1>2, <1>3, <1>4, <1>5, <1>6, <1>7, <1>8, <1>9 DEF OthersStep

-----------------------------------------------------------------------------
(* The theorems.                                                           *)

\* It holds in the beginning.
LEMMA InitInvariant == Init => IInv
<1>. SUFFICES ASSUME Init PROVE IInv
  OBVIOUS
<1>. USE DEF Init
<1>1. EnumTypes
  BY SMT DEF EnumTypes, Place, ScriptPlace
<1>2. SetTypes
  BY Zenon DEF SetTypes
<1>3. FlagTypes
  BY Zenon DEF FlagTypes
<1>4. CountTypes
  BY SMT, BoundAssumption DEF CountTypes
<1>5. LockInv /\ RouteInv /\ WritableInv /\ ScriptInv /\ StatusInv /\ CommitInv /\ ResultInv
  BY SMT DEF LockInv, RouteInv, WritableInv, ScriptInv, StatusInv, CommitInv, ResultInv, Means,
      Safe, Preparing, Replacing, Starting, Talking, Returned, UpdaterAlive, ChildAlive, VersionKept
<1>. QED
  BY <1>1, <1>2, <1>3, <1>4, <1>5, TypeParts DEF IInv

\* Who takes the step.
LEMMA NextCases == Next => UpdaterStep \/ ScriptStep \/ OthersStep
BY DEF Next, OthersStep

\* Every step keeps the types.
LEMMA NextKeepsTypes == TypeOK /\ Next => TypeOK'
<1>. SUFFICES ASSUME TypeOK, Next PROVE TypeOK'
  OBVIOUS
<1>1. EnumTypes /\ SetTypes /\ FlagTypes /\ CountTypes
  BY TypeParts
<1>2. EnumTypes' /\ SetTypes' /\ FlagTypes' /\ CountTypes'
  <2>1. CASE UpdaterStep
    BY <1>1, <2>1, UpdaterEnums, UpdaterSets, UpdaterFlags, UpdaterCounts
  <2>2. CASE ScriptStep
    BY <1>1, <2>2, ScriptEnums, ScriptSets, ScriptFlags, ScriptCounts
  <2>3. CASE OthersStep
    BY <1>1, <2>3, OthersEnums, OthersSets, OthersFlags, OthersCounts
  <2>. QED
    BY <2>1, <2>2, <2>3, NextCases
<1>. QED
  BY <1>2 DEF TypeOK, EnumTypes, SetTypes, FlagTypes, CountTypes

\* A step that changes nothing keeps the invariant.
LEMMA StutterKeepsIInv == IInv /\ UNCHANGED vars => IInv'
<1>. SUFFICES ASSUME IInv, UNCHANGED vars PROVE IInv'
  OBVIOUS
<1>. USE DEF vars, fileVars, updaterVars, childVars, scriptVars, othersVars
<1>1. TypeOK'
  BY DEF IInv, TypeOK
<1>2. LockInv' /\ RouteInv' /\ WritableInv'
  BY DEF IInv, LockInv, RouteInv, WritableInv, VersionKept, UpdaterAlive, ChildAlive, Linux
<1>3. ScriptInv' /\ StatusInv' /\ CommitInv' /\ ResultInv'
  BY DEF IInv, ScriptInv, StatusInv, CommitInv, ResultInv, Means, Safe, UpdaterAlive
<1>. QED
  BY <1>1, <1>2, <1>3 DEF IInv

\* Every step keeps the invariant.
LEMMA StepKeepsIInv == IInv /\ [Next]_vars => IInv'
<1>1. ASSUME IInv, Next PROVE IInv'
  <2>1. TypeOK'
    BY <1>1, NextKeepsTypes DEF IInv
  <2>2. (LockInv /\ RouteInv /\ WritableInv /\ ScriptInv /\ StatusInv /\ CommitInv /\ ResultInv)'
    BY <1>1, NextCases, UpdaterKeep, ScriptKeep, OthersKeep
  <2>. QED
    BY <2>1, <2>2 DEF IInv
<1>. QED
  BY <1>1, StutterKeepsIInv

\* The invariant is inductive, and so it always holds.
THEOREM Invariant == Spec => []IInv
BY InitInvariant, StepKeepsIInv, PTL DEF Spec

\* Type correctness.
THEOREM TypeCorrect == Spec => []TypeOK
<1>1. IInv => TypeOK
  BY DEF IInv
<1>. QED
  BY <1>1, Invariant, PTL

\* However many operations fail, processes are killed or the power is lost:
\* the old version is under the application's name or kept beside it, or a new
\* one is there that has been seen to start (linux_update.rs:360-377,
\* macos_update.rs:578-592, install-macos-update.sh:104-118).
THEOREM VersionAlwaysKept == Spec => []VersionKept
<1>1. IInv => VersionKept
  <2>. SUFFICES ASSUME IInv PROVE VersionKept
    OBVIOUS
  <2>1. CASE route = "writable"
    BY <2>1 DEF IInv, WritableInv
  <2>2. CASE route = "script"
    BY <2>2 DEF IInv, ScriptInv, Safe, VersionKept
  <2>. QED
    BY <2>1, <2>2 DEF IInv, TypeOK
<1>. QED
  BY <1>1, Invariant, PTL

\* What start() has reported is what is on the disk: an update that has been
\* confirmed, a version restored, or a backup retained (macos_update.rs:759-775,
\* authorized.rs:197-216).
THEOREM ReportAlwaysTrue == Spec => []ReportIsTrue
<1>1. IInv => ReportIsTrue
  BY DEF IInv, ResultInv, ReportIsTrue, Safe
<1>. QED
  BY <1>1, Invariant, PTL

\* A third process gets the lock of the single instance only when both
\* processes of the update have ended (single_instance.rs:84-97, :143-197).
THEOREM OneInstanceAlways == Spec => []OneInstance
<1>1. IInv => OneInstance
  BY DEF IInv, LockInv, OneInstance
<1>. QED
  BY <1>1, Invariant, PTL
=============================================================================
