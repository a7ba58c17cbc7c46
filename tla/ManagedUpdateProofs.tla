-------------------------- MODULE ManagedUpdateProofs --------------------------
(***************************************************************************)
(* Proofs about ManagedUpdate: type correctness, and that no failure,      *)
(* crash, restart or early start loses the original of a managed path or   *)
(* leaves a mixed installation without a marker.                           *)
(*                                                                         *)
(* Only the holder of the mutex touches the files, so the argument follows *)
(* the holder: what is known of the files at each of its places.  A crash  *)
(* frees the mutex between any two operations; what then remains is what   *)
(* the marker stands for (MarkerInv), and the facts of every place imply   *)
(* it.                                                                     *)
(***************************************************************************)
EXTENDS ManagedUpdate, TLAPS

Excused == stranded \/ misread

Original(p) == IF p \in Had THEN "old" ELSE "none"
Package(p) == IF p \in shipped THEN "new" ELSE "none"

\* The position of each path in MANAGED_PATHS.
Index == [python |-> 1, bin |-> 2, exe |-> 3]

Kept == \A p \in Had : root[p] = "old" \/ saved[p] = "old"

\* Every path before the one at work is the original again.
OldSoFar == \A p \in Had : Index[p] < at => root[p] = "old"

-----------------------------------------------------------------------------
(* The inductive invariant.                                                *)

\* What a start may rely on when nobody holds the mutex.
MarkerInv ==
  \/ Excused
  \/ /\ marker = "none" => AllOld \/ AllNew
     /\ marker = "prepared" => AllOld /\ saved = Empty
     /\ marker = "replacing" => Kept

\* Until the update helper has marked the replacement nothing is moved.
Unbegun == {"waiting", "locking", "extracting", "backingUp", "preparing", "beginning"}
UnbegunInv ==
  pc[Apply] \in Unbegun =>
    /\ marker = "none" \/ (marker = "prepared" /\ pc[Apply] = "beginning")
    /\ \A p \in Path : root[p] = Original(p)
    /\ saved = Empty /\ at = 1 /\ moved = {} /\ replaced = {}
    /\ \A h \in Helper : pc[h] \notin {"recovering", "restoring"}
    /\ pc[Apply] \in {"backingUp", "preparing", "beginning"} =>
         \A p \in Path : staged[p] = Package(p)

\* The loop over MANAGED_PATHS: a path it has not reached, one that it has
\* put in place, and one whose original it has moved away.
Ready(p) ==
  root[p] = Original(p) /\ staged[p] = Package(p) /\ p \notin moved /\ p \notin replaced
InPlace(p) ==
  IF p \in shipped
    THEN root[p] = "new" /\ staged[p] = "none" /\ (p \in Had => p \in moved /\ saved[p] = "old")
    ELSE Ready(p)
Lifted(p) ==
  p \in shipped /\ staged[p] = "new" /\ (p \in Had => p \in moved /\ saved[p] = "old")

Others ==
  \A p \in Path : (Index[p] < at => InPlace(p)) /\ (Index[p] > at => Ready(p))

LoopInv ==
  /\ pc[Apply] = "replacing" => Others /\ \A p \in Path : Index[p] = at => Ready(p)
  /\ pc[Apply] = "placing" => Others /\ at \in 1..3 /\ Lifted(ManagedPaths[at])
  /\ pc[Apply] = "exeMoving" => Others /\ at = 3 /\ Ready("exe")
  /\ pc[Apply] \in {"exePlacing", "exeUndoing"} =>
       Others /\ at = 3 /\ saved["exe"] = "old" /\ "exe" \notin replaced

\* The new version is complete and the old one saved.
InstalledInv ==
  pc[Apply] \in {"launching", "verifying", "committing"} => AllNew /\ Kept

\* rollback_partial_replacement: what it removes is saved, and what it does
\* not return was not moved.
RollbackInv ==
  /\ pc[Apply] = "removing" =>
       \/ stranded
       \/ \A p \in Had : \/ root[p] = "old" /\ p \notin replaced
                         \/ p \in moved /\ saved[p] = "old"
  /\ pc[Apply] = "returning" =>
       \/ stranded
       \/ /\ \A p \in Had : root[p] = "old" \/ (p \in moved /\ saved[p] = "old")
          /\ broken \/ OldSoFar

\* While the update helper is between these places the marker stands, unless
\* a start has put it aside.
Marked ==
  {"replacing", "placing", "exeMoving", "exePlacing", "exeUndoing", "removing", "returning",
   "launching", "verifying", "committing", "restoring", "dropping"}

RecoveryInv ==
  \A h \in Helper :
    /\ pc[h] \in Marked => misread \/ marker = "replacing"
    /\ pc[h] = "restoring" => Excused \/ (Kept /\ OldSoFar)
    /\ pc[h] = "recovering" =>
         \/ Excused
         \/ Kept /\ OldSoFar /\ (marker = "replacing" \/ (AllOld /\ saved = Empty))
    /\ pc[h] \in {"dropping", "clearing"} => Excused \/ AllOld
    /\ pc[h] \in {"discarding", "cleaning", "sweeping"} => marker = "none"

Places == MarkerInv /\ UnbegunInv /\ LoopInv /\ InstalledInv /\ RollbackInv /\ RecoveryInv

IInv == TypeOK /\ Places

-----------------------------------------------------------------------------
(* Positions, and the exclusion by the mutex.                              *)

LEMMA Positions ==
  /\ Len(ManagedPaths) = 3
  /\ \A k \in 1..3 : ManagedPaths[k] \in Path /\ Index[ManagedPaths[k]] = k
  /\ \A p \in Path : Index[p] \in 1..3 /\ ManagedPaths[Index[p]] = p
  /\ Index["exe"] = 3 /\ ManagedPaths[3] = "exe"
BY DEF ManagedPaths, Path, Index

LEMMA Members == Apply \in Helper /\ Recoverer \subseteq Helper /\ "exe" \in Path
BY DEF Helper, Path

\* The type invariant in three parts, for the cases that differ.
FileTypes ==
  /\ shipped \in Archives
  /\ root \in [Path -> {"old", "new", "partial", "none"}]
  /\ saved \in [Path -> {"old", "none"}]
  /\ staged \in [Path -> {"new", "none"}]
  /\ backup \in BOOLEAN /\ broken \in BOOLEAN /\ stranded \in BOOLEAN /\ misread \in BOOLEAN
  /\ moved \subseteq Path /\ replaced \subseteq Path
ControlTypes ==
  /\ mutex \in Process \cup {Nobody}
  /\ pc \in [Helper -> Holding \cup {"off", "waiting", "locking", "relocking"}]
  /\ \A h \in Helper : pc[h] \in Holding <=> mutex = h
  /\ app \in [Instance -> AppHolding \cup {"off", "booting", "locking", "entering", "up"}]
  /\ \A i \in Instance : app[i] \in AppHolding => mutex = i
OtherTypes ==
  /\ marker \in {"none", "prepared", "replacing"}
  /\ at \in 1..4
  /\ child \in Instance \cup {Nobody}
  /\ phase \in [Instance -> {"none", "prepared", "replacing"}]
  /\ failures \in 0..MaxFailures /\ crashes \in 0..MaxCrashes /\ early \in 0..MaxEarly

LEMMA TypeParts == TypeOK <=> FileTypes /\ ControlTypes /\ OtherTypes
BY Positions DEF TypeOK, FileTypes, ControlTypes, OtherTypes

LEMMA ControlStep == IInv /\ [Next]_vars => ControlTypes'
<1>. SUFFICES ASSUME IInv, [Next]_vars PROVE ControlTypes'
  OBVIOUS
<1>0. ControlTypes
  BY TypeParts DEF IInv, Places
<1>. USE <1>0, Members, ProcessAssumption DEF ControlTypes, Go, Stop, Abort, AppGo, Launch, Process
<1>1. CASE Extract \/ MakeBackup \/ Prepare \/ Begin \/ Replaced
  BY <1>1 DEF Extract, MakeBackup, Prepare, Begin, Replaced, appVars, Holding
<1>2. CASE Replace \/ Place
  BY <1>2 DEF Replace, Place, appVars, Holding, SkipPath, AddPath, MoveDirectory, SwapExecutable,
              Undo, Placed
<1>3. CASE ReplaceExecutable
  BY <1>3 DEF ReplaceExecutable, MoveExe, appVars, Holding, Undo, Placed
<1>4. CASE RemoveNew \/ ReturnMoved \/ Returned \/ Verify \/ Commit \/ Relock
  BY <1>4 DEF RemoveNew, ReturnMoved, Returned, Verify, Commit, Relock, appVars, Holding
<1>5. CASE LaunchUpdated
  BY <1>5 DEF LaunchUpdated, appVars, Holding, AppHolding
<1>6. ASSUME NEW h \in Helper, Wait(h) \/ Lock(h) \/ ReadTransaction(h) \/ DropMarker(h) \/ Discard(h)
      PROVE ControlTypes'
  BY <1>6 DEF Wait, Lock, ReadTransaction, DropMarker, Discard, appVars, Holding
<1>7. ASSUME NEW h \in Helper, Restore(h) PROVE ControlTypes'
  BY <1>7 DEF Restore, appVars, Holding
<1>8. ASSUME NEW h \in Helper, Relaunch(h) PROVE ControlTypes'
  BY <1>8 DEF Relaunch, appVars, Holding, AppHolding
<1>9. ASSUME NEW i \in Instance, Start(i) \/ Quit(i) \/ ReadMarker(i) \/ Enter(i) PROVE ControlTypes'
  BY <1>9 DEF Start, Quit, ReadMarker, Enter, Ended, helperVars, Holding, AppHolding
<1>10. ASSUME NEW i \in Instance, TryMutex(i) \/ CleanPrepared(i) PROVE ControlTypes'
  BY <1>10 DEF TryMutex, CleanPrepared, helperVars, Holding, AppHolding
<1>11. ASSUME NEW i \in Instance, SpawnRecovery(i) PROVE ControlTypes'
  BY <1>11 DEF SpawnRecovery, Holding, AppHolding
<1>12. ASSUME NEW S, Kill(S) PROVE ControlTypes'
  BY <1>12 DEF Kill, Holding, AppHolding
<1>13. CASE UNCHANGED vars
  BY <1>13 DEF vars, helperVars, appVars
<1>. QED
  BY <1>1, <1>2, <1>3, <1>4, <1>5, <1>6, <1>7, <1>8, <1>9, <1>10, <1>11, <1>12, <1>13
     DEF Next, Update, Recover, Boot, Crash
LEMMA OtherStep == IInv /\ [Next]_vars => OtherTypes'
<1>. SUFFICES ASSUME IInv, [Next]_vars PROVE OtherTypes'
  OBVIOUS
<1>0. OtherTypes /\ FileTypes /\ LoopInv
  BY TypeParts DEF IInv, Places
<1>. USE <1>0, Positions, BoundAssumption DEF OtherTypes, Fails, Works
<1>1. CASE Extract \/ MakeBackup \/ Prepare \/ Begin \/ Replaced
  BY <1>1 DEF Extract, MakeBackup, Prepare, Begin, Replaced, appVars, loopVars, boundVars
<1>2. CASE Replace \/ Place
  BY <1>2 DEF Replace, Place, appVars, SkipPath, AddPath, MoveDirectory, SwapExecutable,
              Undo, Placed, LoopInv, Go
<1>3. CASE ReplaceExecutable
  BY <1>3 DEF ReplaceExecutable, MoveExe, appVars, Undo, Placed, LoopInv
<1>4. CASE RemoveNew \/ ReturnMoved \/ Returned \/ Verify \/ Commit \/ Relock
  BY <1>4 DEF RemoveNew, RemoveSome, ReturnMoved, ReturnPath, PutBack, Returned, Verify, Commit,
              Relock, appVars, loopVars, boundVars
<1>5. CASE LaunchUpdated
  BY <1>5 DEF LaunchUpdated
<1>6. ASSUME NEW h \in Helper, Wait(h) \/ Lock(h) \/ ReadTransaction(h) \/ DropMarker(h) \/ Discard(h)
      PROVE OtherTypes'
  BY <1>6 DEF Wait, Lock, ReadTransaction, DropMarker, Discard, appVars, loopVars
<1>7. ASSUME NEW h \in Helper, Restore(h) PROVE OtherTypes'
  BY <1>7 DEF Restore, RestorePath, RemoveSome, appVars
<1>8. ASSUME NEW h \in Helper, Relaunch(h) PROVE OtherTypes'
  BY <1>8 DEF Relaunch, loopVars
<1>9. ASSUME NEW i \in Instance, Start(i) \/ Quit(i) \/ ReadMarker(i) \/ Enter(i) PROVE OtherTypes'
  BY <1>9 DEF Start, Quit, ReadMarker, Enter, helperVars, loopVars, boundVars
<1>10. ASSUME NEW i \in Instance, TryMutex(i) \/ CleanPrepared(i) \/ SpawnRecovery(i)
       PROVE OtherTypes'
  BY <1>10 DEF TryMutex, CleanPrepared, SpawnRecovery, helperVars, loopVars
<1>12. ASSUME NEW S, Kill(S) PROVE OtherTypes'
  BY <1>12 DEF Kill, loopVars
<1>13. CASE UNCHANGED vars
  BY <1>13 DEF vars, helperVars, appVars, boundVars, loopVars
<1>. QED
  BY <1>1, <1>2, <1>3, <1>4, <1>5, <1>6, <1>7, <1>8, <1>9, <1>10, <1>12, <1>13
     DEF Next, Update, Recover, Boot, Crash

LEMMA FileStep == IInv /\ [Next]_vars => FileTypes'
<1>. SUFFICES ASSUME IInv, [Next]_vars PROVE FileTypes'
  OBVIOUS
<1>0. FileTypes /\ OtherTypes /\ LoopInv
  BY TypeParts DEF IInv, Places
<1>. shipped' = shipped
  BY DEF Next, vars
<1>1. CASE Extract \/ MakeBackup \/ Prepare \/ Begin \/ Replaced
  BY <1>0, <1>1, Members
     DEF FileTypes, Extract, MakeBackup, Prepare, Begin, Replaced, Empty, fileVars, loopVars,
         historyVars
<1>2. CASE Replace \/ Place
  BY <1>0, <1>2, Positions DEF FileTypes, OtherTypes, Replace, Place, SkipPath, AddPath, MoveDirectory,
     SwapExecutable, MoveOut, Undo, Placed, LoopInv, Others, Ready, Original, historyVars
<1>3. CASE ReplaceExecutable
  <2>1. /\ backup' = backup /\ broken' = broken /\ misread' = misread
        /\ "exe" \in Path
    BY <1>3, Members DEF ReplaceExecutable
  <2>2. CASE pc[Apply] = "exeMoving"
    BY <1>0, <1>3, <2>1, <2>2 DEF FileTypes, ReplaceExecutable, MoveExe, MoveOut, LoopInv, Ready,
       Original
  <2>3. CASE pc[Apply] = "exePlacing"
    BY <1>0, <1>3, <2>1, <2>3 DEF FileTypes, ReplaceExecutable, MoveExe, Placed
  <2>4. CASE pc[Apply] = "exeUndoing"
    BY <1>0, <1>3, <2>1, <2>4 DEF FileTypes, ReplaceExecutable, MoveExe
  <2>. QED
    BY <1>3, <2>2, <2>3, <2>4 DEF ReplaceExecutable, MoveExe
<1>4. CASE RemoveNew
  <2>1. /\ saved' = saved /\ staged' = staged /\ backup' = backup /\ moved' = moved
        /\ replaced' = replaced /\ stranded' = stranded /\ misread' = misread
        /\ broken' \in BOOLEAN
    BY <1>0, <1>4 DEF FileTypes, RemoveNew, historyVars
  <2>2. root' = root \/ (at \in 1..3 /\ RemoveSome(ManagedPaths[at]))
    BY <1>0, <1>4, Positions DEF OtherTypes, RemoveNew
  <2>. QED
    BY <1>0, <2>1, <2>2, Positions DEF FileTypes, RemoveSome
<1>11. CASE ReturnMoved
  <2>1. /\ staged' = staged /\ backup' = backup /\ moved' = moved
        /\ replaced' = replaced /\ stranded' = stranded /\ misread' = misread
        /\ at \in 1..3 /\ ReturnPath(ManagedPaths[at])
    BY <1>0, <1>11, Positions DEF OtherTypes, ReturnMoved, historyVars
  <2>2. PICK p \in Path : ReturnPath(p)
    BY <2>1, Positions
  <2>. QED
    BY <1>0, <2>1, <2>2 DEF FileTypes, ReturnPath, PutBack
<1>12. CASE Returned
  BY <1>0, <1>12 DEF FileTypes, Returned, Empty, loopVars, historyVars
<1>5. CASE LaunchUpdated \/ Verify \/ Commit \/ Relock
  BY <1>0, <1>5 DEF FileTypes, LaunchUpdated, Verify, Commit, Relock, fileVars, loopVars,
     historyVars
<1>6. ASSUME NEW h \in Helper, Wait(h) \/ Lock(h) \/ ReadTransaction(h) \/ DropMarker(h)
                               \/ Discard(h) \/ Relaunch(h)
      PROVE FileTypes'
  BY <1>0, <1>6 DEF FileTypes, Wait, Lock, ReadTransaction, DropMarker, Discard, Relaunch, Empty,
     fileVars, loopVars, historyVars
<1>7. ASSUME NEW h \in Helper, Restore(h) PROVE FileTypes'
  BY <1>0, <1>7, Positions DEF FileTypes, OtherTypes, Restore, RestorePath, PutBack, RemoveSome,
     historyVars
<1>8. ASSUME NEW i \in Instance, Boot(i) \/ Start(i) \/ Quit(i) PROVE FileTypes'
  BY <1>0, <1>8 DEF FileTypes, Boot, ReadMarker, TryMutex, CleanPrepared, SpawnRecovery, Enter,
     Start, Quit, Empty, fileVars, helperVars, loopVars, historyVars
<1>9. ASSUME NEW S, Kill(S) PROVE FileTypes'
  BY <1>0, <1>9 DEF FileTypes, Kill, fileVars, loopVars, historyVars
<1>10. CASE UNCHANGED vars
  BY <1>0, <1>10 DEF FileTypes, vars, fileVars, helperVars, loopVars, historyVars
<1>. QED
  BY <1>1, <1>2, <1>3, <1>4, <1>5, <1>6, <1>7, <1>8, <1>9, <1>10, <1>11, <1>12
     DEF Next, Update, Recover, Crash
-----------------------------------------------------------------------------
(* What the steps preserve, place by place.                                *)

LEMMA Alone ==
  ASSUME IInv, NEW g \in Helper, pc[g] \in Holding
  PROVE  \A h \in Helper \ {g} : pc[h] \notin Holding
BY TypeParts DEF IInv, ControlTypes

\* A step that touches neither files nor marker, and leads no helper to a
\* place of which something is to be shown.
LEMMA Undisturbed ==
  ASSUME IInv,
         UNCHANGED <<shipped, root, saved, staged, marker, at, moved, replaced, broken,
                     stranded, misread>>,
         \A h \in Helper :
           \/ pc'[h] = pc[h]
           \/ pc'[h] \in {"off", "relocking", "reading", "relaunching"}
           \/ h # Apply /\ pc'[h] \in {"waiting", "locking"}
           \/ pc[h] \in {"waiting", "locking"} /\ pc'[h] \in {"locking", "extracting"}
  PROVE  Places'
<1>. USE Members DEF IInv, Places
<1>1. MarkerInv'
  BY DEF MarkerInv, Excused, AllOld, AllNew, Kept
<1>2. UnbegunInv'
  BY DEF UnbegunInv, Unbegun, Original, Package
<1>3. LoopInv'
  BY DEF LoopInv, Others, Ready, InPlace, Lifted, Original, Package
<1>4. InstalledInv'
  BY DEF InstalledInv, AllNew, Kept
<1>5. RollbackInv'
  BY DEF RollbackInv, OldSoFar
<1>6. RecoveryInv'
  BY DEF RecoveryInv, Marked, Excused, AllOld, Kept, OldSoFar
<1>. QED
  BY <1>1, <1>2, <1>3, <1>4, <1>5, <1>6

LEMMA WaitStep ==
  ASSUME IInv, UNCHANGED shipped, NEW h \in Helper, Wait(h) \/ Lock(h)
  PROVE  Places'
<1>1. \A g \in Helper : pc'[g] = IF g = h THEN pc'[h] ELSE pc[g]
  BY TypeParts DEF IInv, ControlTypes, Wait, Lock, Go
<1>. QED
  BY <1>1, TypeParts, Undisturbed, Members
     DEF IInv, ControlTypes, Wait, Lock, Go, fileVars, loopVars, historyVars

LEMMA ProcessStep ==
  ASSUME IInv, UNCHANGED shipped,
         \/ \E i \in Instance : Start(i) \/ Quit(i) \/ TryMutex(i) \/ SpawnRecovery(i) \/ Enter(i)
         \/ \E S : Kill(S)
         \/ Relock
         \/ \E h \in Helper : Relaunch(h)
  PROVE  Places'
<1>0. ControlTypes
  BY TypeParts DEF IInv
<1>1. CASE \E i \in Instance : Start(i) \/ Quit(i) \/ TryMutex(i) \/ Enter(i)
  BY <1>1, Undisturbed
     DEF Start, Quit, TryMutex, Enter, fileVars, helperVars, loopVars, historyVars
<1>2. CASE \E i \in Instance : SpawnRecovery(i)
  BY <1>0, <1>2, Undisturbed, ProcessAssumption
     DEF SpawnRecovery, Go, ControlTypes, fileVars, loopVars, historyVars
<1>3. CASE \E S : Kill(S)
  BY <1>3, Undisturbed DEF Kill, fileVars, loopVars, historyVars
<1>4. CASE Relock
  BY <1>0, <1>4, Undisturbed DEF Relock, Go, ControlTypes, fileVars, loopVars, historyVars
<1>5. CASE \E h \in Helper : Relaunch(h)
  BY <1>0, <1>5, Undisturbed DEF Relaunch, Stop, Go, ControlTypes, fileVars, loopVars, historyVars
<1>. QED
  BY <1>1, <1>2, <1>3, <1>4, <1>5
\* A step of the update helper while it holds the mutex: the facts about the
\* other helpers, which are elsewhere, carry over.
LEMMA OthersElsewhere ==
  ASSUME IInv, pc[Apply] \in Holding, NEW place, Go(Apply, place)
  PROVE  /\ pc'[Apply] = place
         /\ \A h \in Helper \ {Apply} : pc'[h] = pc[h] /\ pc[h] \notin Holding
BY Alone, Members, TypeParts DEF IInv, ControlTypes, Go

\* What is left to show then.
LEMMA ApplyStep ==
  ASSUME IInv, pc[Apply] \in Holding, NEW place, Go(Apply, place),
         MarkerInv', UnbegunInv', LoopInv', InstalledInv', RollbackInv',
         place \in Marked => misread' \/ marker' = "replacing",
         place = "restoring" => Excused' \/ (Kept' /\ OldSoFar'),
         place = "recovering" =>
           \/ Excused'
           \/ Kept' /\ OldSoFar' /\ (marker' = "replacing" \/ (AllOld' /\ saved' = Empty)),
         place \in {"dropping", "clearing"} => Excused' \/ AllOld',
         place \in {"discarding", "cleaning", "sweeping"} => marker' = "none"
  PROVE  Places'
<1>. RecoveryInv'
  BY OthersElsewhere DEF RecoveryInv, Marked, Holding
<1>. QED
  BY DEF Places

\* It gives up, and leaves the rest to the recovery.
LEMMA GiveUp ==
  ASSUME IInv, pc[Apply] \in Holding, Go(Apply, "relocking"),
         UNCHANGED <<shipped, root, saved, marker, stranded, misread>>
  PROVE  Places'
<1>1. MarkerInv'
  BY DEF IInv, Places, MarkerInv, Excused, AllOld, AllNew, Kept
<1>2. pc'[Apply] = "relocking"
  BY OthersElsewhere
<1>. QED
  BY <1>1, <1>2, ApplyStep DEF UnbegunInv, Unbegun, LoopInv, InstalledInv, RollbackInv, Marked

\* Up to the mark nothing is moved.
LEMMA PreparationStep ==
  ASSUME IInv, UNCHANGED shipped, Extract \/ MakeBackup \/ Prepare \/ Begin
  PROVE  Places'
<1>0. TypeOK /\ FileTypes /\ MarkerInv /\ UnbegunInv
  BY TypeParts DEF IInv, Places
<1>1. pc[Apply] \in {"extracting", "backingUp", "preparing", "beginning"}
  BY DEF Extract, MakeBackup, Prepare, Begin
<1>2. /\ UNCHANGED <<root, saved, at, moved, replaced, broken, stranded, misread>>
      /\ pc[Apply] \in Holding
  BY <1>1 DEF Extract, MakeBackup, Prepare, Begin, Holding, fileVars, loopVars, historyVars
<1>8. AllOld' /\ saved' = Empty
  BY <1>0, <1>1, <1>2, PathAssumption DEF UnbegunInv, Unbegun, Original, AllOld
<1>9. ASSUME NEW place \in {"backingUp", "preparing", "beginning"}, Go(Apply, place),
             \A p \in Path : staged'[p] = Package(p),
             marker' = "none" \/ (marker' = "prepared" /\ place = "beginning")
      PROVE  Places'
  <2>1. pc'[Apply] = place /\ \A h \in Helper \ {Apply} : pc'[h] \notin Holding
    BY <1>2, <1>9, OthersElsewhere
  <2>2. MarkerInv'
    BY <1>8, <1>9 DEF MarkerInv
  <2>3. UnbegunInv'
    BY <1>0, <1>1, <1>2, <1>9, <2>1 DEF UnbegunInv, Unbegun, Holding, Original, Package
  <2>. QED
    BY <1>2, <1>9, <2>1, <2>2, <2>3, ApplyStep DEF LoopInv, InstalledInv, RollbackInv, Marked
<1>3. CASE Go(Apply, "relocking") /\ UNCHANGED marker
  BY <1>2, <1>3, GiveUp
<1>4. CASE \/ Extract /\ Go(Apply, "backingUp")
           \/ MakeBackup /\ Go(Apply, "preparing")
           \/ Prepare /\ Go(Apply, "beginning")
  <2>1. UnbegunInv /\ pc[Apply] \in Unbegun /\ marker \in {"none", "prepared", "replacing"}
    BY <1>0, <1>1 DEF Unbegun, TypeOK
  <2>. QED
    BY <1>1, <1>2, <1>4, <1>9, <2>1, OthersElsewhere
       DEF Extract, MakeBackup, Prepare, Abort, UnbegunInv, Package, fileVars
<1>7. CASE pc[Apply] = "beginning" /\ Go(Apply, "replacing") /\ marker' = "replacing" /\ UNCHANGED staged
  <2>1. pc'[Apply] = "replacing"
    BY <1>2, <1>7, OthersElsewhere
  <2>2. MarkerInv' /\ LoopInv'
    BY <1>0, <1>2, <1>7, <2>1, Positions, PathAssumption
       DEF MarkerInv, UnbegunInv, Unbegun, LoopInv, Others, Ready, InPlace, Original, Package, Kept
  <2>. QED
    BY <1>2, <1>7, <2>1, <2>2, ApplyStep DEF UnbegunInv, Unbegun, InstalledInv, RollbackInv, Marked
<1>. QED
  BY <1>3, <1>4, <1>7 DEF Extract, MakeBackup, Prepare, Begin, Abort, fileVars

\* The loop over MANAGED_PATHS.
LEMMA InLoop ==
  ASSUME IInv, pc[Apply] \in {"replacing", "placing", "exeMoving", "exePlacing", "exeUndoing"}
  PROVE  /\ Others /\ at \in 1..4 /\ (misread \/ marker = "replacing") /\ pc[Apply] \in Holding
         /\ pc[Apply] \in {"replacing", "placing"} /\ at \in 1..3 =>
              ManagedPaths[at] \in Path /\ Index[ManagedPaths[at]] = at
BY Members, Positions, TypeParts DEF IInv, Places, LoopInv, OtherTypes, RecoveryInv, Marked, Holding

\* An operation fails: what is in place and what is lifted can be undone.
LEMMA UndoStep ==
  ASSUME IInv, UNCHANGED <<shipped, marker, moved, replaced, misread>>,
         pc[Apply] \in {"replacing", "placing", "exeMoving", "exeUndoing"}, Undo,
         \/ stranded'
         \/ pc[Apply] # "exeUndoing" /\ UNCHANGED <<root, saved>>
         \/ /\ pc[Apply] = "exeUndoing"
            /\ root' = [root EXCEPT !["exe"] = saved["exe"]]
            /\ saved' = [saved EXCEPT !["exe"] = "none"]
  PROVE  Places'
<1>1. Others /\ at \in 1..4 /\ (misread \/ marker = "replacing") /\ pc[Apply] \in Holding
  BY InLoop
<1>2. pc'[Apply] = "removing"
  BY <1>1, OthersElsewhere DEF Undo
<1>3. \A p \in Had : \/ root[p] = "old" /\ p \notin replaced
                     \/ p \in moved /\ saved[p] = "old"
                     \/ p = "exe" /\ pc[Apply] = "exeUndoing"
  <2>. SUFFICES ASSUME NEW p \in Had
                PROVE  \/ root[p] = "old" /\ p \notin replaced
                       \/ p \in moved /\ saved[p] = "old"
                       \/ p = "exe" /\ pc[Apply] = "exeUndoing"
    OBVIOUS
  <2>1. CASE Index[p] # at
    BY <1>1, <2>1, PathAssumption, Positions DEF Others, InPlace, Ready, Original
  <2>2. CASE Index[p] = at
    BY <1>1, <2>2, PathAssumption, Positions
       DEF IInv, Places, LoopInv, Ready, Lifted, Original
  <2>. QED
    BY <2>1, <2>2, Positions, PathAssumption
<1>4. stranded' \/ \A p \in Had : \/ root'[p] = "old" /\ p \notin replaced
                                  \/ p \in moved /\ saved'[p] = "old"
  <2>1. CASE pc[Apply] # "exeUndoing" /\ UNCHANGED <<root, saved>>
    BY <1>3, <2>1
  <2>2. CASE /\ pc[Apply] = "exeUndoing"
             /\ root' = [root EXCEPT !["exe"] = saved["exe"]]
             /\ saved' = [saved EXCEPT !["exe"] = "none"]
    <3>1. saved["exe"] = "old" /\ "exe" \notin replaced
      BY <2>2 DEF IInv, Places, LoopInv
    <3>. QED
      BY <1>3, <2>2, <3>1, TypeParts, PathAssumption DEF IInv, FileTypes
  <2>. QED
    BY <2>1, <2>2
<1>5. MarkerInv'
  BY <1>1, <1>4 DEF MarkerInv, Excused, Kept
<1>. QED
  BY <1>1, <1>2, <1>4, <1>5, ApplyStep
     DEF Undo, UnbegunInv, Unbegun, LoopInv, InstalledInv, RollbackInv, Marked
\* The files of every place of the loop are what a recovery expects.
LEMMA LoopKept ==
  ASSUME IInv, pc[Apply] \in {"replacing", "placing", "exeMoving", "exePlacing"}
  PROVE  Kept
<1>. SUFFICES ASSUME NEW p \in Had PROVE root[p] = "old" \/ saved[p] = "old"
  BY DEF Kept
<1>1. CASE Index[p] # at
  BY <1>1, InLoop, PathAssumption, Positions DEF Others, InPlace, Ready, Original
<1>2. CASE Index[p] = at
  BY <1>2, InLoop, PathAssumption, Positions DEF IInv, Places, LoopInv, Ready, Lifted, Original
<1>. QED
  BY <1>1, <1>2, Positions, PathAssumption

\* A path is in place.
LEMMA PlacedStep ==
  ASSUME IInv, NEW p \in Path, UNCHANGED <<shipped, marker, misread>>, Placed(p), Index[p] = at,
         pc[Apply] \in {"replacing", "placing", "exePlacing"},
         p \in shipped, p \in Had => p \in moved' /\ saved'[p] = "old",
         moved' \in {moved, moved \cup {p}}, \A q \in Path \ {p} : saved'[q] = saved[q]
  PROVE  Places'
<1>1. Others /\ at \in 1..4 /\ (misread \/ marker = "replacing") /\ pc[Apply] \in Holding
  BY InLoop
<1>2. pc'[Apply] = "replacing" /\ at' = at + 1
  BY <1>1, OthersElsewhere DEF Placed
<1>3. /\ \A q \in Path : root'[q] = IF q = p THEN "new" ELSE root[q]
      /\ \A q \in Path : staged'[q] = IF q = p THEN "none" ELSE staged[q]
      /\ \A q \in Path : q \in moved' <=> q \in moved \/ (q = p /\ p \in moved')
      /\ \A q \in Path : q \in replaced' <=> q \in replaced \/ q = p
  BY TypeParts DEF Placed, IInv, FileTypes
<1>4. \A q \in Path \ {p} : Index[q] # at
  BY Positions
<1>5. LoopInv'
  <2>1. ASSUME NEW q \in Path, Index[q] < at' PROVE InPlace(q)'
    BY <1>1, <1>2, <1>3, <1>4, <2>1, Positions DEF Others, InPlace, Ready, Original, Package
  <2>2. ASSUME NEW q \in Path, Index[q] >= at' PROVE Ready(q)'
    BY <1>1, <1>2, <1>3, <1>4, <2>2, Positions DEF Others, Ready, Original, Package
  <2>. QED
    BY <1>1, <1>2, <2>1, <2>2, Positions DEF LoopInv, Others
<1>6. Kept'
  BY <1>3, LoopKept, PathAssumption DEF Kept
<1>. QED
  BY <1>1, <1>2, <1>5, <1>6, ApplyStep
     DEF Placed, MarkerInv, Excused, UnbegunInv, Unbegun, InstalledInv, RollbackInv, Marked
LEMMA ReplaceStep ==
  ASSUME IInv, UNCHANGED shipped, Replace
  PROVE  Places'
<1>0. /\ pc[Apply] = "replacing" /\ pc[Apply] \in Holding /\ at \in 1..3
      /\ UNCHANGED <<marker, stranded, misread>>
      /\ Others /\ (misread \/ marker = "replacing") /\ Kept /\ FileTypes
  BY InLoop, LoopKept, Positions, TypeParts DEF Replace, Holding, historyVars, IInv
<1>. PICK p \in Path : /\ p = ManagedPaths[at] /\ Index[p] = at
                       /\ SkipPath(p) \/ AddPath(p) \/ MoveDirectory(p) \/ SwapExecutable(p)
  BY <1>0, Positions DEF Replace
<1>1. Ready(p) /\ \A q \in Path \ {p} : Index[q] # at
  BY <1>0, Positions DEF IInv, Places, LoopInv
<1>2. CASE SkipPath(p)
  <2>1. /\ UNCHANGED <<root, saved, staged, pc, moved, replaced>> /\ at' = at + 1 /\ InPlace(p)
    BY <1>1, <1>2 DEF SkipPath, Ready, InPlace, Package
  <2>2. LoopInv'
    <3>1. ASSUME NEW q \in Path, Index[q] < at' PROVE InPlace(q)'
      BY <1>0, <1>1, <2>1, <3>1, Positions DEF Others, InPlace, Ready, Original, Package
    <3>2. ASSUME NEW q \in Path, Index[q] >= at' PROVE Ready(q)'
      BY <1>0, <1>1, <2>1, <3>2, Positions DEF Others, Ready, Original, Package
    <3>. QED
      BY <1>0, <2>1, <3>1, <3>2, Positions DEF LoopInv, Others
  <2>3. pc'[Apply] = "replacing" /\ Go(Apply, "replacing")
    BY <1>0, <2>1, TypeParts, Members DEF Go, IInv, ControlTypes
  <2>. QED
    BY <1>0, <2>1, <2>2, <2>3, ApplyStep
       DEF MarkerInv, Excused, Kept, UnbegunInv, Unbegun, InstalledInv, RollbackInv, Marked
<1>3. CASE (AddPath(p) \/ MoveDirectory(p)) /\ Go(Apply, "placing")
  <2>1. /\ at' = at /\ pc'[Apply] = "placing" /\ staged' = staged /\ replaced' = replaced
        /\ staged[p] = "new" /\ p \in shipped
        /\ \A q \in Path \ {p} : root'[q] = root[q] /\ saved'[q] = saved[q]
        /\ \A q \in Path \ {p} : q \in moved' <=> q \in moved
        /\ p \in Had => p \in moved' /\ saved'[p] = "old"
    BY <1>0, <1>1, <1>3, OthersElsewhere
       DEF AddPath, MoveDirectory, MoveOut, Undo, Ready, Original, Package, FileTypes
  <2>2. LoopInv' /\ Kept'
    <3>1. ASSUME NEW q \in Path, Index[q] < at' PROVE InPlace(q)'
      BY <1>0, <2>1, <3>1, Positions DEF Others, InPlace, Ready, Original, Package
    <3>2. ASSUME NEW q \in Path, Index[q] > at' PROVE Ready(q)'
      BY <1>0, <2>1, <3>2, Positions DEF Others, Ready, Original, Package
    <3>3. Lifted(p)'
      BY <2>1 DEF Lifted
    <3>4. Kept'
      BY <1>0, <2>1, PathAssumption DEF Kept
    <3>. QED
      BY <1>0, <2>1, <3>1, <3>2, <3>3, <3>4 DEF LoopInv, Others
  <2>. QED
    BY <1>0, <1>3, <2>1, <2>2, ApplyStep
       DEF MarkerInv, Excused, UnbegunInv, Unbegun, InstalledInv, RollbackInv, Marked
<1>4. CASE MoveDirectory(p) /\ Undo
  <2>. UNCHANGED <<root, saved, moved, replaced>>
    BY <1>0, <1>1, <1>4, OthersElsewhere DEF MoveDirectory, Undo
  <2>. QED
    BY <1>0, <1>4, UndoStep
<1>5. CASE SwapExecutable(p) /\ Placed(p)
  <2>. /\ p \in shipped /\ moved' = moved \cup {p} /\ (p \in Had => saved'[p] = "old")
       /\ \A q \in Path \ {p} : saved'[q] = saved[q]
    BY <1>0, <1>1, <1>5, OthersElsewhere
       DEF SwapExecutable, Placed, Ready, Package, Original, FileTypes
  <2>. QED
    BY <1>0, <1>5, PlacedStep
<1>6. CASE SwapExecutable(p) /\ Go(Apply, "exeMoving")
  <2>1. /\ UNCHANGED <<root, saved, staged, at, moved, replaced>> /\ p = "exe" /\ at = 3
        /\ pc'[Apply] = "exeMoving"
    BY <1>0, <1>6, OthersElsewhere, Positions DEF SwapExecutable, Placed
  <2>2. LoopInv' /\ Kept'
    BY <1>0, <1>1, <2>1 DEF LoopInv, Others, InPlace, Ready, Original, Package, Kept
  <2>. QED
    BY <1>0, <1>6, <2>1, <2>2, ApplyStep
       DEF MarkerInv, Excused, UnbegunInv, Unbegun, InstalledInv, RollbackInv, Marked
<1>. QED
  BY <1>2, <1>3, <1>4, <1>5, <1>6 DEF AddPath, MoveDirectory, SwapExecutable
LEMMA PlaceStep ==
  ASSUME IInv, UNCHANGED shipped, Place
  PROVE  Places'
<1>0. /\ pc[Apply] = "placing" /\ UNCHANGED <<saved, marker, moved, stranded, misread>>
      /\ at \in 1..3 /\ Lifted(ManagedPaths[at])
  BY DEF Place, historyVars, IInv, Places, LoopInv
<1>1. CASE Placed(ManagedPaths[at])
  BY <1>0, <1>1, Positions, PlacedStep DEF Lifted
<1>2. CASE Undo /\ UNCHANGED <<root, replaced>>
  BY <1>0, <1>2, UndoStep
<1>. QED
  BY <1>1, <1>2 DEF Place

LEMMA ReplaceExecutableStep ==
  ASSUME IInv, UNCHANGED shipped, ReplaceExecutable
  PROVE  Places'
<1>0. /\ UNCHANGED <<marker, misread>> /\ "exe" \in Path /\ "exe" \in shipped /\ "exe" \in Had
      /\ pc[Apply] \in {"exeMoving", "exePlacing", "exeUndoing"} /\ pc[Apply] \in Holding
      /\ Others /\ at = 3 /\ (misread \/ marker = "replacing") /\ FileTypes
  BY InLoop, TypeParts, PathAssumption, Members
     DEF ReplaceExecutable, MoveExe, IInv, Places, FileTypes, LoopInv, Holding
<1>1. CASE pc[Apply] = "exeMoving" /\ Go(Apply, "exePlacing")
  <2>1. /\ MoveOut("exe") /\ UNCHANGED <<staged, at, moved, replaced, stranded>>
        /\ Ready("exe") /\ pc'[Apply] = "exePlacing"
    BY <1>0, <1>1, OthersElsewhere DEF ReplaceExecutable, MoveExe, Undo, IInv, Places, LoopInv
  <2>2. LoopInv' /\ Kept'
    <3>1. /\ \A q \in Path \ {"exe"} : root'[q] = root[q] /\ saved'[q] = saved[q]
          /\ saved'["exe"] = "old" /\ "exe" \notin replaced
      BY <1>0, <2>1 DEF MoveOut, Ready, Original, FileTypes
    <3>2. ASSUME NEW q \in Path, Index[q] < at' PROVE InPlace(q)'
      BY <1>0, <2>1, <3>1, <3>2, Positions DEF Others, InPlace, Ready, Original, Package
    <3>3. ASSUME NEW q \in Path PROVE ~(Index[q] > at')
      BY <1>0, <2>1, Positions
    <3>4. Kept'
      BY <1>0, <1>1, <3>1, LoopKept, PathAssumption DEF Kept
    <3>. QED
      BY <1>0, <2>1, <3>1, <3>2, <3>3, <3>4 DEF LoopInv, Others
  <2>. QED
    BY <1>0, <1>1, <2>1, <2>2, ApplyStep
       DEF MarkerInv, Excused, UnbegunInv, Unbegun, InstalledInv, RollbackInv, Marked
<1>2. CASE pc[Apply] = "exeMoving" /\ Undo
  <2>. UNCHANGED <<root, saved, moved, replaced>>
    BY <1>0, <1>2, OthersElsewhere DEF ReplaceExecutable, MoveExe, Undo
  <2>. QED
    BY <1>0, <1>2, UndoStep
<1>3. CASE pc[Apply] = "exePlacing" /\ Placed("exe")
  <2>. moved' = moved \cup {"exe"} /\ saved' = saved /\ saved["exe"] = "old" /\ Index["exe"] = at
    BY <1>0, <1>3, OthersElsewhere, Positions
       DEF ReplaceExecutable, MoveExe, Placed, IInv, Places, LoopInv
  <2>. QED
    BY <1>0, <1>3, PlacedStep
<1>4. CASE pc[Apply] = "exePlacing" /\ Go(Apply, "exeUndoing")
  <2>1. /\ UNCHANGED <<root, saved, staged, at, moved, replaced, stranded>>
        /\ pc'[Apply] = "exeUndoing"
    BY <1>0, <1>4, OthersElsewhere DEF ReplaceExecutable, MoveExe, Placed
  <2>2. LoopInv' /\ Kept'
    BY <1>0, <1>4, <2>1, LoopKept
       DEF IInv, Places, LoopInv, Others, InPlace, Ready, Original, Package, Kept
  <2>. QED
    BY <1>0, <1>4, <2>1, <2>2, ApplyStep
       DEF MarkerInv, Excused, UnbegunInv, Unbegun, InstalledInv, RollbackInv, Marked
<1>5. CASE pc[Apply] = "exeUndoing" /\ Undo
  BY <1>0, <1>5, UndoStep DEF ReplaceExecutable, MoveExe
<1>. QED
  BY <1>0, <1>1, <1>2, <1>3, <1>4, <1>5 DEF ReplaceExecutable, MoveExe

LEMMA ReplacedStep ==
  ASSUME IInv, UNCHANGED shipped, Replaced
  PROVE  Places'
<1>0. /\ pc[Apply] = "replacing" /\ pc[Apply] \in Holding
      /\ UNCHANGED <<root, saved, marker, moved, replaced, stranded, misread>>
      /\ at = 4 /\ Others /\ (misread \/ marker = "replacing") /\ Kept
      /\ Go(Apply, "launching") /\ pc'[Apply] = "launching"
  BY InLoop, LoopKept, Positions, OthersElsewhere DEF Replaced, Holding, loopVars, historyVars
<1>1. AllNew /\ shipped \subseteq Path
  <2>1. \A p \in Path : InPlace(p)
    BY <1>0, Positions DEF Others
  <2>. QED
    BY <2>1, PathAssumption, TypeParts DEF IInv, FileTypes, AllNew, InPlace, Ready, Original
<1>. QED
  BY <1>0, <1>1, ApplyStep
     DEF MarkerInv, Excused, AllNew, Kept, UnbegunInv, Unbegun, LoopInv, InstalledInv, RollbackInv,
         Marked

LEMMA InstalledStep ==
  ASSUME IInv, UNCHANGED shipped, LaunchUpdated \/ Verify \/ Commit
  PROVE  Places'
<1>0. /\ pc[Apply] \in {"launching", "verifying", "committing"} /\ pc[Apply] \in Holding
      /\ UNCHANGED <<root, saved, stranded, misread>>
      /\ AllNew /\ Kept /\ (misread \/ marker = "replacing")
  BY Members DEF IInv, Places, LaunchUpdated, Verify, Commit, InstalledInv, RecoveryInv, Marked,
     Holding, fileVars, historyVars
<1>1. AllNew' /\ Kept'
  BY <1>0 DEF AllNew, Kept
<1>2. CASE \/ Go(Apply, "verifying") /\ UNCHANGED marker
           \/ Go(Apply, "committing") /\ UNCHANGED marker
  BY <1>0, <1>1, <1>2, ApplyStep, OthersElsewhere
     DEF MarkerInv, Excused, UnbegunInv, Unbegun, LoopInv, InstalledInv, RollbackInv, Marked
<1>3. CASE Go(Apply, "restoring") /\ at' = 1 /\ UNCHANGED marker
  <2>. OldSoFar'
    BY <1>3, Positions, PathAssumption DEF OldSoFar
  <2>. QED
    BY <1>0, <1>1, <1>3, ApplyStep, OthersElsewhere
       DEF MarkerInv, Excused, UnbegunInv, Unbegun, LoopInv, InstalledInv, RollbackInv, Marked
<1>4. CASE Go(Apply, "cleaning") /\ marker' = "none"
  BY <1>0, <1>1, <1>4, ApplyStep, OthersElsewhere
     DEF MarkerInv, Excused, UnbegunInv, Unbegun, LoopInv, InstalledInv, RollbackInv, Marked
<1>5. CASE Go(Apply, "relocking") /\ UNCHANGED marker
  BY <1>0, <1>5, GiveUp
<1>. QED
  BY <1>2, <1>3, <1>4, <1>5 DEF LaunchUpdated, Verify, Commit, Abort
\* rollback_partial_replacement.
LEMMA RemoveStep ==
  ASSUME IInv, UNCHANGED shipped, RemoveNew
  PROVE  Places'
<1>0. /\ pc[Apply] = "removing" /\ pc[Apply] \in Holding
      /\ UNCHANGED <<saved, marker, moved, replaced, stranded, misread>>
      /\ at \in 1..4 /\ (misread \/ marker = "replacing") /\ FileTypes
  BY Members, TypeParts
     DEF RemoveNew, Holding, historyVars, IInv, Places, RecoveryInv, Marked, OtherTypes
<1>1. stranded \/ \A p \in Had : \/ root'[p] = "old" /\ p \notin replaced
                                 \/ p \in moved /\ saved[p] = "old"
  <2>1. \A p \in Path : p \notin replaced => root'[p] = root[p]
    BY <1>0, Positions DEF RemoveNew, RemoveSome, FileTypes
  <2>. QED
    BY <1>0, <2>1, PathAssumption DEF IInv, Places, RollbackInv
<1>2. MarkerInv'
  BY <1>0, <1>1 DEF MarkerInv, Excused, Kept
<1>3. CASE Go(Apply, "removing")
  BY <1>0, <1>1, <1>2, <1>3, ApplyStep, OthersElsewhere
     DEF UnbegunInv, Unbegun, LoopInv, InstalledInv, RollbackInv, Marked
<1>4. CASE Go(Apply, "returning") /\ at' = 1
  <2>. OldSoFar'
    BY <1>4, Positions, PathAssumption DEF OldSoFar
  <2>. QED
    BY <1>0, <1>1, <1>2, <1>4, ApplyStep, OthersElsewhere
       DEF UnbegunInv, Unbegun, LoopInv, InstalledInv, RollbackInv, Marked
<1>5. pc' = pc => Go(Apply, "removing")
  BY <1>0, Members, TypeParts DEF Go, IInv, ControlTypes
<1>. QED
  BY <1>3, <1>4, <1>5 DEF RemoveNew

LEMMA ReturnStep ==
  ASSUME IInv, UNCHANGED shipped, ReturnMoved
  PROVE  Places'
<1>0. /\ pc[Apply] = "returning" /\ pc[Apply] \in Holding
      /\ UNCHANGED <<marker, moved, replaced, stranded, misread>>
      /\ at \in 1..3 /\ at' = at + 1 /\ (misread \/ marker = "replacing") /\ FileTypes
      /\ Go(Apply, "returning")
  BY Members, TypeParts, Positions
     DEF ReturnMoved, Holding, historyVars, IInv, Places, RecoveryInv, Marked, OtherTypes, Go,
         ControlTypes
<1>. PICK p \in Path : p = ManagedPaths[at] /\ Index[p] = at /\ ReturnPath(p)
  BY <1>0, Positions DEF ReturnMoved
<1>1. CASE stranded
  BY <1>0, <1>1, ApplyStep, OthersElsewhere
     DEF MarkerInv, Excused, UnbegunInv, Unbegun, LoopInv, InstalledInv, RollbackInv, Marked
<1>2. CASE ~stranded
  <2>1. /\ \A q \in Had : root[q] = "old" \/ (q \in moved /\ saved[q] = "old")
        /\ broken \/ OldSoFar
    BY <1>0, <1>2 DEF IInv, Places, RollbackInv
  <2>2. /\ \A q \in Path \ {p} : root'[q] = root[q] /\ saved'[q] = saved[q] /\ Index[q] # at
        /\ broken => broken'
        /\ p \in Had => broken' \/ root'[p] = "old"
        /\ p \in Had => root'[p] = "old" \/ (p \in moved /\ saved'[p] = "old")
    BY <1>0, <2>1, Positions DEF ReturnPath, PutBack, FileTypes
  <2>3. /\ \A q \in Had : root'[q] = "old" \/ (q \in moved /\ saved'[q] = "old")
        /\ broken' \/ OldSoFar'
    BY <1>0, <2>1, <2>2, PathAssumption, Positions DEF OldSoFar
  <2>. QED
    BY <1>0, <2>3, ApplyStep, OthersElsewhere
       DEF MarkerInv, Excused, Kept, UnbegunInv, Unbegun, LoopInv, InstalledInv, RollbackInv, Marked
<1>. QED
  BY <1>1, <1>2

LEMMA ReturnedStep ==
  ASSUME IInv, UNCHANGED shipped, Returned
  PROVE  Places'
<1>0. /\ pc[Apply] = "returning" /\ pc[Apply] \in Holding
      /\ UNCHANGED <<root, saved, marker, moved, replaced, broken, stranded, misread>>
      /\ at = 4 /\ (misread \/ marker = "replacing") /\ MarkerInv
  BY Members, TypeParts, Positions
     DEF Returned, Holding, loopVars, historyVars, IInv, Places, RecoveryInv, Marked, OtherTypes
<1>1. CASE Go(Apply, "relocking")
  BY <1>0, <1>1, GiveUp
<1>2. CASE ~broken /\ Go(Apply, "dropping")
  <2>1. stranded \/ AllOld
    BY <1>0, <1>2, PathAssumption, Positions DEF IInv, Places, RollbackInv, OldSoFar, AllOld
  <2>. QED
    BY <1>0, <1>2, <2>1, ApplyStep, OthersElsewhere
       DEF MarkerInv, Excused, Kept, AllOld, UnbegunInv, Unbegun, LoopInv, InstalledInv,
           RollbackInv, Marked
<1>. QED
  BY <1>1, <1>2 DEF Returned, Abort
-----------------------------------------------------------------------------
(* Recovery, by either kind of helper.                                     *)

RecoveryPlace ==
  {"reading", "restoring", "recovering", "dropping", "clearing", "discarding", "cleaning",
   "sweeping", "relaunching"}

\* What is left to show of a step of the recovery.
LEMMA RecoveryStep ==
  ASSUME IInv, NEW h \in Helper, pc[h] \in RecoveryPlace,
         NEW place \in RecoveryPlace \cup {"off", "relocking"}, Go(h, place),
         MarkerInv',
         pc[Apply] \in {"waiting", "locking"} => UnbegunInv',
         place \in Marked => misread' \/ marker' = "replacing",
         place = "restoring" => Excused' \/ (Kept' /\ OldSoFar'),
         place = "recovering" =>
           \/ Excused'
           \/ Kept' /\ OldSoFar' /\ (marker' = "replacing" \/ (AllOld' /\ saved' = Empty)),
         place \in {"dropping", "clearing"} => Excused' \/ AllOld',
         place \in {"discarding", "cleaning", "sweeping"} => marker' = "none"
  PROVE  Places'
<1>0. /\ pc'[h] = place /\ pc[h] \in Holding
      /\ \A g \in Helper \ {h} : pc'[g] = pc[g] /\ pc[g] \notin Holding
  BY Alone, TypeParts DEF IInv, ControlTypes, Go, RecoveryPlace, Holding
<1>1. RecoveryInv'
  BY <1>0 DEF RecoveryInv, Marked, Holding
<1>2. pc'[Apply] \in RecoveryPlace \cup {"off", "waiting", "locking", "relocking"}
  BY <1>0, Members, TypeParts DEF IInv, ControlTypes
<1>3. UnbegunInv' /\ LoopInv' /\ InstalledInv' /\ RollbackInv'
  BY <1>0, <1>2, Members
     DEF UnbegunInv, Unbegun, LoopInv, InstalledInv, RollbackInv, RecoveryPlace
<1>. QED
  BY <1>1, <1>3 DEF Places

\* A recovery helper that holds the mutex before the update helper does finds
\* nothing to do.
LEMMA StillUnbegun ==
  ASSUME IInv, NEW h \in Helper, pc[h] \in RecoveryPlace, pc[Apply] \in {"waiting", "locking"}
  PROVE  /\ marker = "none" /\ \A p \in Path : root[p] = Original(p)
         /\ saved = Empty /\ at = 1 /\ moved = {} /\ replaced = {}
         /\ \A g \in Helper : pc[g] \notin {"recovering", "restoring"}
BY DEF IInv, Places, UnbegunInv, Unbegun

LEMMA ReadStep ==
  ASSUME IInv, UNCHANGED shipped, NEW h \in Helper, ReadTransaction(h)
  PROVE  Places'
<1>0. /\ pc[h] = "reading" /\ pc[h] \in RecoveryPlace
      /\ UNCHANGED <<root, saved, staged, moved, replaced, broken, stranded, misread>>
      /\ MarkerInv
  BY DEF ReadTransaction, RecoveryPlace, fileVars, historyVars, IInv, Places
<1>1. CASE UNCHANGED <<marker, at>> /\ \E place \in {"off", "relaunching"} : Go(h, place)
  BY <1>0, <1>1, Undisturbed, TypeParts DEF IInv, ControlTypes, Go
<1>2. CASE marker = "prepared" /\ marker' = "none" /\ Go(h, "relaunching")
  <2>1. MarkerInv'
    BY <1>0, <1>2 DEF MarkerInv, Excused, AllOld
  <2>. QED
    BY <1>0, <1>2, <2>1, StillUnbegun, RecoveryStep DEF RecoveryPlace, Marked
<1>3. CASE marker # "none" /\ Go(h, "recovering") /\ at' = 1 /\ UNCHANGED marker
  <2>1. MarkerInv' /\ OldSoFar'
    BY <1>0, <1>3, Positions, PathAssumption
       DEF MarkerInv, Excused, AllOld, AllNew, Kept, OldSoFar
  <2>2. \/ Excused'
        \/ Kept' /\ (marker' = "replacing" \/ (AllOld' /\ saved' = Empty))
    BY <1>0, <1>3, TypeParts DEF MarkerInv, Excused, AllOld, Kept, IInv, OtherTypes
  <2>. QED
    BY <1>0, <1>3, <2>1, <2>2, StillUnbegun, RecoveryStep DEF RecoveryPlace, Marked
<1>. QED
  BY <1>1, <1>2, <1>3 DEF ReadTransaction, Stop

LEMMA RestoreStep ==
  ASSUME IInv, UNCHANGED shipped, NEW h \in Helper, Restore(h)
  PROVE  Places'
<1>0. /\ pc[h] \in {"restoring", "recovering"} /\ pc[h] \in RecoveryPlace
      /\ UNCHANGED <<marker, stranded, misread>>
      /\ MarkerInv /\ at \in 1..4 /\ FileTypes
      /\ pc[Apply] \notin {"waiting", "locking"}
  BY TypeParts, StillUnbegun
     DEF Restore, RecoveryPlace, historyVars, IInv, Places, OtherTypes
<1>1. \/ Excused
      \/ Kept /\ OldSoFar /\ (marker = "replacing" \/ (AllOld /\ saved = Empty))
  BY <1>0 DEF IInv, Places, RecoveryInv, Marked, Excused
<1>2. pc[h] = "restoring" => misread \/ marker = "replacing"
  BY DEF IInv, Places, RecoveryInv, Marked
<1>3. CASE UNCHANGED <<root, saved>> /\ \E place \in {"off", "relocking"} : Go(h, place)
  <2>. MarkerInv'
    BY <1>0, <1>3 DEF MarkerInv, Excused, AllOld, AllNew, Kept
  <2>. QED
    BY <1>0, <1>3, RecoveryStep DEF RecoveryPlace, Marked
<1>4. CASE /\ at = 4 /\ UNCHANGED <<root, saved>>
           /\ Go(h, IF pc[h] = "restoring" THEN "dropping" ELSE "clearing")
  <2>1. MarkerInv' /\ (Excused' \/ AllOld')
    BY <1>0, <1>1, <1>4, Positions, PathAssumption
       DEF MarkerInv, Excused, AllOld, AllNew, Kept, OldSoFar
  <2>. QED
    BY <1>0, <1>2, <1>4, <2>1, RecoveryStep DEF RecoveryPlace, Marked
<1>5. CASE at \in 1..3 /\ RestorePath(ManagedPaths[at]) /\ UNCHANGED pc
  <2>. PICK p \in Path : p = ManagedPaths[at] /\ Index[p] = at /\ RestorePath(p)
    BY <1>5, Positions
  <2>1. /\ \A q \in Path \ {p} : root'[q] = root[q] /\ saved'[q] = saved[q] /\ Index[q] # at
        /\ saved[p] # "none" => saved[p] = "old"
        /\ at' = at \/ (at' = at + 1 /\ root'[p] = IF saved[p] = "none" THEN root[p] ELSE "old")
        /\ root'[p] = "old" \/ saved'[p] = saved[p]
        /\ saved = Empty => UNCHANGED <<root, saved>>
    BY <1>0, Positions DEF RestorePath, RemoveSome, PutBack, FileTypes, Empty
  <2>2. CASE Excused
    BY <1>0, <1>2, <1>5, <2>2, RecoveryStep, TypeParts
       DEF Go, MarkerInv, Excused, RecoveryPlace, Marked, IInv, ControlTypes
  <2>3. CASE ~Excused
    <3>1. Kept /\ OldSoFar /\ (marker = "replacing" \/ (AllOld /\ saved = Empty))
      BY <1>1, <2>3
    <3>2. Kept'
      BY <2>1, <3>1, PathAssumption, RestorePath(p) DEF RestorePath, RemoveSome, PutBack, Kept
    <3>3. OldSoFar'
      BY <1>0, <2>1, <3>1, PathAssumption, Positions DEF OldSoFar, Kept
    <3>4. marker' = "replacing" \/ (AllOld' /\ saved' = Empty)
      BY <1>0, <2>1, <3>1 DEF AllOld
    <3>5. MarkerInv'
      BY <1>0, <3>2, <3>4 DEF MarkerInv
    <3>6. Go(h, pc[h])
      BY <1>5, TypeParts DEF Go, IInv, ControlTypes
    <3>. QED
      BY <1>0, <1>2, <3>2, <3>3, <3>4, <3>5, <3>6, RecoveryStep DEF RecoveryPlace, Marked
  <2>. QED
    BY <2>2, <2>3
<1>. QED
  BY <1>0, <1>3, <1>4, <1>5, Positions DEF Restore, Abort, Stop
LEMMA DropStep ==
  ASSUME IInv, UNCHANGED shipped, NEW h \in Helper, DropMarker(h)
  PROVE  Places'
<1>0. /\ pc[h] \in {"dropping", "clearing"} /\ pc[h] \in RecoveryPlace
      /\ UNCHANGED <<root, saved, at, moved, replaced, stranded, misread>>
      /\ MarkerInv /\ (Excused \/ AllOld)
  BY DEF DropMarker, RecoveryPlace, fileVars, loopVars, historyVars, IInv, Places, RecoveryInv
<1>1. MarkerInv'
  BY <1>0 DEF DropMarker, MarkerInv, Excused, AllOld, AllNew, Kept
<1>2. pc[Apply] \in {"waiting", "locking"} => marker = "none" /\ (marker' = "none" \/ marker' = marker)
  BY <1>0, StillUnbegun DEF DropMarker
<1>3. \E place \in {"off", "relocking", "discarding", "sweeping"} :
        Go(h, place) /\ (place \in {"discarding", "sweeping"} => marker' = "none")
  BY <1>0 DEF DropMarker, Abort, Stop
<1>4. pc[Apply] \in {"waiting", "locking"} => UnbegunInv'
  BY <1>0, <1>2, <1>3, StillUnbegun, Members, TypeParts
     DEF IInv, ControlTypes, Go, UnbegunInv, Unbegun, Original, RecoveryPlace
<1>. QED
  BY <1>0, <1>1, <1>3, <1>4, RecoveryStep DEF RecoveryPlace, Marked

LEMMA DiscardStep ==
  ASSUME IInv, UNCHANGED shipped, NEW h \in Helper, Discard(h)
  PROVE  Places'
<1>0. /\ pc[h] \in {"discarding", "cleaning", "sweeping"} /\ pc[h] \in RecoveryPlace
      /\ UNCHANGED <<root, marker, at, moved, replaced, stranded, misread>>
      /\ MarkerInv /\ marker = "none" /\ saved' \in {saved, Empty}
  BY DEF Discard, RecoveryPlace, loopVars, historyVars, IInv, Places, RecoveryInv
<1>1. MarkerInv'
  BY <1>0 DEF MarkerInv, Excused, AllOld, AllNew
<1>2. \E place \in {"off", "relocking", "relaunching"} : Go(h, place)
  BY DEF Discard, Abort, Stop
<1>3. pc[Apply] \in {"waiting", "locking"} => UnbegunInv'
  BY <1>0, <1>2, StillUnbegun, Members, TypeParts
     DEF IInv, ControlTypes, Go, UnbegunInv, Unbegun, Original, RecoveryPlace, Empty
<1>. QED
  BY <1>0, <1>1, <1>2, <1>3, RecoveryStep DEF RecoveryPlace, Marked

-----------------------------------------------------------------------------
(* The two steps of a start that change the marker.                        *)

LEMMA ReadMarkerStep ==
  ASSUME IInv, UNCHANGED shipped, NEW i \in Instance, ReadMarker(i)
  PROVE  Places'
<1>0. UNCHANGED <<root, saved, staged, pc, at, moved, replaced, broken, stranded>>
  BY DEF ReadMarker, fileVars, helperVars, loopVars
<1>1. CASE UNCHANGED <<marker, misread>>
  BY <1>0, <1>1, Undisturbed
<1>2. CASE marker = "prepared" /\ marker' = "none" /\ misread' = misread
  <2>1. pc[Apply] \in Unbegun => UnbegunInv'
    BY <1>0, <1>2 DEF IInv, Places, UnbegunInv, Unbegun, Original, Package
  <2>. QED
    BY <1>0, <1>2, <2>1
       DEF IInv, Places, MarkerInv, Excused, AllOld, AllNew, Kept, OldSoFar, UnbegunInv, LoopInv,
           Others, Ready, InPlace, Lifted, Original, Package, InstalledInv, RollbackInv,
           RecoveryInv, Marked
<1>3. CASE marker' \in {marker, "none"} /\ misread'
  <2>1. pc[Apply] \in Unbegun => UnbegunInv'
    BY <1>0, <1>3 DEF IInv, Places, UnbegunInv, Unbegun, Original, Package
  <2>. QED
    BY <1>0, <1>3, <2>1
       DEF IInv, Places, MarkerInv, Excused, AllNew, Kept, OldSoFar, UnbegunInv, LoopInv,
           Others, Ready, InPlace, Lifted, Original, Package, InstalledInv, RollbackInv,
           RecoveryInv, Marked
<1>. QED
  BY <1>1, <1>2, <1>3, TypeParts DEF ReadMarker, IInv, OtherTypes, FileTypes

LEMMA CleanStep ==
  ASSUME IInv, UNCHANGED shipped, NEW i \in Instance, CleanPrepared(i)
  PROVE  Places'
<1>0. /\ UNCHANGED <<root, staged, pc, at, moved, replaced, broken, stranded>>
      /\ saved' \in {saved, Empty} /\ marker' \in {marker, "none"}
      /\ \/ UNCHANGED <<marker, saved, misread>>
         \/ misread'
         \/ marker # "replacing" /\ saved' = Empty /\ misread' = misread
  BY TypeParts DEF CleanPrepared, helperVars, loopVars, IInv, FileTypes
<1>1. \A h \in Helper : pc[h] \notin Holding
  BY TypeParts, ProcessAssumption DEF CleanPrepared, AppHolding, IInv, ControlTypes
<1>2. CASE UNCHANGED <<marker, saved, misread>>
  BY <1>0, <1>2, Undisturbed
<1>3. CASE misread' \/ (marker # "replacing" /\ saved' = Empty /\ misread' = misread)
  <2>1. MarkerInv'
    BY <1>0, <1>3, TypeParts
       DEF IInv, OtherTypes, Places, MarkerInv, Excused, AllOld, AllNew, Kept
  <2>2. UnbegunInv'
    BY <1>0, <1>1, Members DEF IInv, Places, UnbegunInv, Unbegun, Original, Package, Holding
  <2>. QED
    BY <1>0, <1>1, <2>1, <2>2, Members
       DEF Places, LoopInv, InstalledInv, RollbackInv, RecoveryInv, Marked, Holding
<1>. QED
  BY <1>0, <1>2, <1>3

-----------------------------------------------------------------------------
(* The theorems.                                                           *)

LEMMA InvariantInit == Init => IInv
<1>. SUFFICES ASSUME Init PROVE IInv
  OBVIOUS
<1>1. FileTypes
  BY DEF Init, FileTypes, Empty
<1>4. OtherTypes
  BY BoundAssumption DEF Init, OtherTypes
<1>2. ControlTypes
  BY Members, ProcessAssumption DEF Init, ControlTypes, Holding, AppHolding, Process
<1>3. Places
  BY Members, PathAssumption
     DEF Init, Places, MarkerInv, AllOld, UnbegunInv, Original, LoopInv, InstalledInv, RollbackInv,
         RecoveryInv, Marked
<1>. QED
  BY <1>1, <1>2, <1>3, <1>4, TypeParts DEF IInv

LEMMA PlacesStep == IInv /\ [Next]_vars => Places'
<1>. SUFFICES ASSUME IInv, [Next]_vars PROVE Places'
  OBVIOUS
<1>1. UNCHANGED shipped
  BY DEF Next, vars
<1>2. CASE UNCHANGED vars
  BY <1>2, Undisturbed DEF vars, fileVars, helperVars, loopVars, historyVars
<1>3. CASE Update
  BY <1>1, <1>3, PreparationStep, ReplaceStep, ReplacedStep, PlaceStep, ReplaceExecutableStep,
     RemoveStep, ReturnStep, ReturnedStep, InstalledStep, ProcessStep DEF Update
<1>4. ASSUME NEW h \in Helper, Recover(h) PROVE Places'
  BY <1>1, <1>4, WaitStep, ReadStep, RestoreStep, DropStep, DiscardStep, ProcessStep DEF Recover
<1>5. ASSUME NEW i \in Instance, Boot(i) \/ Start(i) \/ Quit(i) PROVE Places'
  BY <1>1, <1>5, ReadMarkerStep, CleanStep, ProcessStep DEF Boot
<1>6. CASE Crash
  BY <1>1, <1>6, ProcessStep DEF Crash
<1>. QED
  BY <1>2, <1>3, <1>4, <1>5, <1>6 DEF Next

LEMMA Invariant == Spec => []IInv
<1>1. FileTypes' /\ ControlTypes' /\ OtherTypes' => TypeOK'
  BY Positions DEF TypeOK, FileTypes, ControlTypes, OtherTypes
<1>2. IInv /\ [Next]_vars => IInv'
  BY <1>1, ControlStep, OtherStep, FileStep, PlacesStep DEF IInv
<1>. QED
  BY <1>2, InvariantInit, PTL DEF Spec

(***************************************************************************)
(* Type correctness of the files, the marker, the helpers and the          *)
(* application, for any processes, archives and bounds.  It needs the rest *)
(* of the invariant: that what is moved into the backup directory is an    *)
(* original follows from the place of the helper in its loop.              *)
(***************************************************************************)
THEOREM TypeCorrect == Spec => []TypeOK
<1>1. IInv => TypeOK
  BY DEF IInv
<1>. QED
  BY <1>1, Invariant, PTL

(***************************************************************************)
(* No failure, crash, restart or early start in the middle of replacing,   *)
(* rolling back or recovering loses the original of a managed path before  *)
(* the update is committed, apart from the two ways OriginalKept names.    *)
(***************************************************************************)
THEOREM OriginalAlwaysKept == Spec => []OriginalKept
<1>1. IInv => OriginalKept
  BY TypeParts, PathAssumption DEF IInv, OtherTypes, Places, MarkerInv, Excused, OriginalKept,
     AllOld, Kept
<1>. QED
  BY <1>1, Invariant, PTL

(***************************************************************************)
(* Whoever removes or puts aside the marker, the installation is then all  *)
(* of the old version or all of the new one.                               *)
(***************************************************************************)
THEOREM AlwaysWholeUnlessMarked == Spec => []WholeUnlessMarked
<1>1. IInv => WholeUnlessMarked
  BY DEF IInv, Places, MarkerInv, Excused, WholeUnlessMarked
<1>. QED
  BY <1>1, Invariant, PTL
=============================================================================
