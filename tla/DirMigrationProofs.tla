-------------------------- MODULE DirMigrationProofs --------------------------
(***************************************************************************)
(* For any models, and any number of failures and crashes: no model is     *)
(* lost, and the directory that the setting names has them all.            *)
(***************************************************************************)
EXTENDS DirMigration, SequenceTheorems, TLAPS

(* What the actions of the thread, the dialog and the switch leave alone.   *)
LEMMA NextSplit ==
  Next <=> \/ Prepare \/ Dismiss \/ Confirm \/ Start \/ Refuse
           \/ Scan \/ EndCopy \/ Wait \/ Resolve \/ Ready \/ EndEarly
           \/ (\E f \in File : NextFile(f)) \/ FileFails
           \/ (\E r \in Resolution : Answer(r)) \/ Respond \/ AnswerReply \/ HandleEvent
           \/ Refresh \/ TakePayload \/ (\E f \in File : RemoveFile(f)) \/ EndCleaning
           \/ Cancel \/ SwitchFails \/ Save \/ Crash
  BY Zenon DEF Next, Thread, Switch

-----------------------------------------------------------------------------
(* Type correctness.                                                       *)

LEMMA DiskTypesStep ==
  ASSUME DiskTypes, StateTypes, [Next]_vars
  PROVE  DiskTypes'
<1>. USE DEF DiskTypes, Emit, Failing, diskVars, threadVars, sessionVars, dialogVars,
         countVars
<1>1. CASE Prepare \/ Dismiss \/ Confirm \/ Start \/ Refuse
  BY <1>1 DEF Prepare, Dismiss, Confirm, Start, Refuse
<1>2. CASE Scan \/ EndCopy \/ Wait
  BY <1>2 DEF Scan, EndCopy, Wait
<1>3. CASE Resolve \/ Ready \/ EndEarly \/ FileFails
  BY <1>3 DEF Resolve, Ready, EndEarly, FileFails
<1>4. CASE \E f \in File : NextFile(f)
  BY <1>4 DEF NextFile, BeginCopy, Skip, Announce
<1>5. CASE (\E r \in Resolution : Answer(r)) \/ Respond \/ AnswerReply
  BY <1>5 DEF Answer, Respond, AnswerReply
<1>6. CASE HandleEvent
  BY <1>6 DEF HandleEvent, StatusAfter
<1>7. CASE Refresh \/ TakePayload \/ (\E f \in File : RemoveFile(f)) \/ EndCleaning
  BY <1>7 DEF Refresh, TakePayload, RemoveFile, EndCleaning
<1>8. CASE Cancel \/ SwitchFails \/ Save
  BY <1>8 DEF Cancel, SwitchFails, Save
<1>9. CASE Crash
  BY <1>9 DEF Crash
<1>10. CASE UNCHANGED vars
  BY <1>10 DEF vars
<1>. QED
  BY <1>1, <1>2, <1>3, <1>4, <1>5, <1>6, <1>7, <1>8, <1>9, <1>10, NextSplit

LEMMA StateTypesStep ==
  ASSUME StateTypes, events \in Seq(Event), [Next]_vars
  PROVE  StateTypes'
<1>. USE BoundAssumption DEF StateTypes, Resolution, Event, Ended, Migrating, Emit,
         Failing, diskVars, threadVars, sessionVars, dialogVars,
         countVars
<1>1. CASE Prepare \/ Dismiss \/ Confirm \/ Start \/ Refuse
  BY <1>1 DEF Prepare, Dismiss, Confirm, Start, Refuse
<1>2. CASE Scan \/ EndCopy \/ Wait
  BY <1>2 DEF Scan, EndCopy, Wait
<1>3. CASE Resolve \/ Ready \/ EndEarly \/ FileFails
  BY <1>3 DEF Resolve, Ready, EndEarly, FileFails
<1>4. CASE \E f \in File : NextFile(f)
  BY <1>4 DEF NextFile, BeginCopy, Skip, Announce
<1>5. CASE (\E r \in Resolution : Answer(r)) \/ Respond \/ AnswerReply
  BY <1>5 DEF Answer, Respond, AnswerReply
<1>6. CASE HandleEvent
  BY <1>6 DEF HandleEvent, StatusAfter
<1>7. CASE Refresh \/ TakePayload \/ (\E f \in File : RemoveFile(f)) \/ EndCleaning
  BY <1>7 DEF Refresh, TakePayload, RemoveFile, EndCleaning
<1>8. CASE Cancel \/ SwitchFails \/ Save
  BY <1>8 DEF Cancel, SwitchFails, Save
<1>9. CASE Crash
  BY <1>9 DEF Crash
<1>10. CASE UNCHANGED vars
  BY <1>10 DEF vars
<1>. QED
  BY <1>1, <1>2, <1>3, <1>4, <1>5, <1>6, <1>7, <1>8, <1>9, <1>10, NextSplit

LEMMA FlagTypesStep ==
  ASSUME FlagTypes, [Next]_vars
  PROVE  FlagTypes'
<1>. USE DEF FlagTypes, Emit, Failing, diskVars, threadVars, sessionVars, dialogVars,
         countVars
<1>1. CASE Prepare \/ Dismiss \/ Confirm \/ Start \/ Refuse
  BY <1>1 DEF Prepare, Dismiss, Confirm, Start, Refuse
<1>2. CASE Scan \/ EndCopy \/ Wait
  BY <1>2 DEF Scan, EndCopy, Wait
<1>3. CASE Resolve \/ Ready \/ EndEarly \/ FileFails
  BY <1>3 DEF Resolve, Ready, EndEarly, FileFails
<1>4. CASE \E f \in File : NextFile(f)
  BY <1>4 DEF NextFile, BeginCopy, Skip, Announce
<1>5. CASE (\E r \in Resolution : Answer(r)) \/ Respond \/ AnswerReply
  BY <1>5 DEF Answer, Respond, AnswerReply
<1>6. CASE HandleEvent
  BY <1>6 DEF HandleEvent, StatusAfter
<1>7. CASE Refresh \/ TakePayload \/ (\E f \in File : RemoveFile(f)) \/ EndCleaning
  BY <1>7 DEF Refresh, TakePayload, RemoveFile, EndCleaning
<1>8. CASE Cancel \/ SwitchFails \/ Save
  BY <1>8 DEF Cancel, SwitchFails, Save
<1>9. CASE Crash
  BY <1>9 DEF Crash
<1>10. CASE UNCHANGED vars
  BY <1>10 DEF vars
<1>. QED
  BY <1>1, <1>2, <1>3, <1>4, <1>5, <1>6, <1>7, <1>8, <1>9, <1>10, NextSplit

LEMMA EventsStep ==
  ASSUME events \in Seq(Event), [Next]_vars
  PROVE  events' \in Seq(Event)
<1>. USE DEF Event, Emit, Failing, diskVars, threadVars, sessionVars, dialogVars,
         countVars
<1>1. CASE Prepare \/ Dismiss \/ Confirm \/ Start \/ Refuse
  BY <1>1 DEF Prepare, Dismiss, Confirm, Start, Refuse
<1>2. CASE Scan \/ EndCopy \/ Wait
  BY <1>2 DEF Scan, EndCopy, Wait
<1>3. CASE Resolve \/ Ready \/ EndEarly \/ FileFails
  BY <1>3 DEF Resolve, Ready, EndEarly, FileFails
<1>4. CASE \E f \in File : NextFile(f)
  BY <1>4 DEF NextFile, BeginCopy, Skip, Announce
<1>5. CASE (\E r \in Resolution : Answer(r)) \/ Respond \/ AnswerReply
  BY <1>5 DEF Answer, Respond, AnswerReply
<1>6. CASE HandleEvent
  BY <1>6 DEF HandleEvent, StatusAfter
<1>7. CASE Refresh \/ TakePayload \/ (\E f \in File : RemoveFile(f)) \/ EndCleaning
  BY <1>7 DEF Refresh, TakePayload, RemoveFile, EndCleaning
<1>8. CASE Cancel \/ SwitchFails \/ Save
  BY <1>8 DEF Cancel, SwitchFails, Save
<1>9. CASE Crash
  BY <1>9 DEF Crash
<1>10. CASE UNCHANGED vars
  BY <1>10 DEF vars
<1>. QED
  BY <1>1, <1>2, <1>3, <1>4, <1>5, <1>6, <1>7, <1>8, <1>9, <1>10, NextSplit

LEMMA TypeStep == TypeOK /\ [Next]_vars => TypeOK'
  BY DiskTypesStep, StateTypesStep, FlagTypesStep, EventsStep DEF TypeOK

LEMMA TypeInit == Init => TypeOK
<1>. SUFFICES ASSUME Init PROVE TypeOK
  OBVIOUS
<1>1. DiskTypes
  BY DEF Init, DiskTypes
<1>2. StateTypes
  BY BoundAssumption DEF Init, StateTypes, Migrating, Ended
<1>3. FlagTypes
  BY DEF Init, FlagTypes
<1>4. events \in Seq(Event)
  BY DEF Init
<1>. QED
  BY <1>1, <1>2, <1>3, <1>4 DEF TypeOK

(* Every variable keeps its type.                                          *)
THEOREM TypeCorrect == Spec => []TypeOK
  BY TypeInit, TypeStep, PTL DEF Spec

-----------------------------------------------------------------------------
(* No model is lost.  The dialog is modal: while the thread, the switch or *)
(* an event is under way nothing else begins; the event that closes a      *)
(* migration is the last, and comes when its thread is gone.               *)
Closing == {"ready", "done", "failed"}

Modal ==
  /\ pc # "none" => fin = "idle"
  /\ fin # "idle" \/ pc = "asked" => events = <<>>
  /\ status \notin Migrating => pc = "none" /\ fin = "idle" /\ events = <<>>
  /\ \A i \in DOMAIN events :
       events[i] \in Closing => i = Len(events) /\ pc = "none" /\ fin = "idle"

LEMMA ModalStep ==
  ASSUME TypeOK, Modal, [Next]_vars
  PROVE  Modal'
<1>. USE DEF TypeOK, StateTypes, Event, Ended, Migrating, Modal, Closing, Emit,
         Failing, diskVars, threadVars, sessionVars, dialogVars,
         countVars
<1>1. CASE Prepare \/ Dismiss \/ Confirm \/ Start \/ Refuse
  BY <1>1 DEF Prepare, Dismiss, Confirm, Start, Refuse
<1>2. CASE Scan \/ EndCopy \/ Wait
  BY <1>2 DEF Scan, EndCopy, Wait
<1>3. CASE Resolve \/ Ready \/ EndEarly \/ FileFails
  BY <1>3 DEF Resolve, Ready, EndEarly, FileFails
<1>4. CASE \E f \in File : NextFile(f)
  BY <1>4 DEF NextFile, BeginCopy, Skip, Announce
<1>5. CASE (\E r \in Resolution : Answer(r)) \/ Respond \/ AnswerReply
  BY <1>5 DEF Answer, Respond, AnswerReply
<1>6. CASE HandleEvent
  BY <1>6 DEF HandleEvent, StatusAfter
<1>7. CASE Refresh \/ TakePayload \/ (\E f \in File : RemoveFile(f)) \/ EndCleaning
  BY <1>7 DEF Refresh, TakePayload, RemoveFile, EndCleaning
<1>8. CASE Cancel \/ SwitchFails \/ Save
  BY <1>8 DEF Cancel, SwitchFails, Save
<1>9. CASE Crash
  BY <1>9 DEF Crash
<1>10. CASE UNCHANGED vars
  BY <1>10 DEF vars
<1>. QED
  BY <1>1, <1>2, <1>3, <1>4, <1>5, <1>6, <1>7, <1>8, <1>9, <1>10, NextSplit

(* What the thread has dealt with is safe, it copies only what is still in *)
(* the source, and the switch has its payload only when it is done.        *)
Copying == {"next", "emitted", "waiting", "copy"}
AllHave == \A f \in models : Have(f)

Copied ==
  /\ NothingLost
  /\ pc \in Copying => todo \subseteq src /\ \A f \in models \ todo : Have(f)
  /\ pc = "copy" => cur \in todo
  /\ pc \in Copying \cup {"scan", "failed"} => ~payload
  /\ payload \/ fin = "cleaning" => AllHave

LEMMA CopiedStep ==
  ASSUME TypeOK, Modal, Copied, [Next]_vars
  PROVE  Copied'
<1>. USE DEF TypeOK, DiskTypes, StateTypes, Modal, Copied, Copying, AllHave, Have,
         NothingLost, Emit, Failing, diskVars, threadVars, sessionVars, dialogVars,
         countVars
<1>1. CASE Prepare \/ Dismiss \/ Confirm \/ Start \/ Refuse
  BY <1>1 DEF Prepare, Dismiss, Confirm, Start, Refuse
<1>2. CASE Scan \/ EndCopy \/ Wait
  BY <1>2 DEF Scan, EndCopy, Wait
<1>3. CASE Resolve \/ Ready \/ EndEarly \/ FileFails
  BY <1>3 DEF Resolve, Ready, EndEarly, FileFails
<1>4. CASE \E f \in File : NextFile(f)
  BY <1>4 DEF NextFile, BeginCopy, Skip, Announce
<1>5. CASE (\E r \in Resolution : Answer(r)) \/ Respond \/ AnswerReply
  BY <1>5 DEF Answer, Respond, AnswerReply
<1>6. CASE HandleEvent
  BY <1>6 DEF HandleEvent, StatusAfter
<1>7. CASE Refresh \/ TakePayload \/ (\E f \in File : RemoveFile(f)) \/ EndCleaning
  BY <1>7 DEF Refresh, TakePayload, RemoveFile, EndCleaning
<1>8. CASE Cancel \/ SwitchFails \/ Save
  BY <1>8 DEF Cancel, SwitchFails, Save
<1>9. CASE Crash
  BY <1>9 DEF Crash
<1>10. CASE UNCHANGED vars
  BY <1>10 DEF vars
<1>. QED
  BY <1>1, <1>2, <1>3, <1>4, <1>5, <1>6, <1>7, <1>8, <1>9, <1>10, NextSplit

(* An event that closes a migration is the only one.                       *)
LEMMA ClosingIsLast ==
  ASSUME events \in Seq(Event), events # <<>>, Modal, Head(events) \in Closing
  PROVE  Tail(events) = <<>> /\ pc = "none" /\ fin = "idle"
<1>1. 1 \in DOMAIN events /\ Head(events) = events[1]
  OBVIOUS
<1>2. Len(events) = 1 /\ pc = "none" /\ fin = "idle"
  BY <1>1 DEF Modal
<1>3. Tail(events) \in Seq(Event) /\ Len(Tail(events)) = 0
  BY <1>2, HeadTailProperties
<1>. QED
  BY <1>2, <1>3, EmptySeq

(* The setting names the source until the switch, which happens only when  *)
(* every model has been copied; it is undone before anything is removed.   *)
Switched ==
  /\ SettingHasModels
  /\ pc # "none" \/ status = "confirm" => setting = "src"
  /\ fin # "idle" => setting = "tgt"
  /\ ~unsaved /\ fin \in {"refresh", "confirm", "cancel"} => src = models
  /\ \A i \in DOMAIN events :
       /\ events[i] = "ready" => setting = "src" /\ payload
       /\ events[i] = "done" => setting = "tgt"

LEMMA SwitchedStep ==
  ASSUME TypeOK, Modal, Copied, Switched, [Next]_vars
  PROVE  Switched'
<1>. USE DEF TypeOK, DiskTypes, StateTypes, Modal, Closing, Copied, Copying, AllHave, Have,
         SettingHasModels, Switched, Event, Ended, Migrating, Emit, Failing,
         diskVars, threadVars, sessionVars, dialogVars, countVars
<1>1. CASE Prepare \/ Dismiss \/ Confirm \/ Start \/ Refuse
  BY <1>1 DEF Prepare, Dismiss, Confirm, Start, Refuse
<1>2. CASE Scan \/ EndCopy \/ Wait
  <2>1. CASE Scan
    BY <2>1 DEF Scan
  <2>2. CASE EndCopy
    BY <2>2 DEF EndCopy
  <2>3. CASE Wait
    BY <2>3 DEF Wait
  <2>. QED
    BY <1>2, <2>1, <2>2, <2>3
<1>3. CASE Resolve \/ Ready \/ EndEarly \/ FileFails
  <2>1. CASE Resolve
    BY <2>1 DEF Resolve
  <2>2. CASE Ready
    BY <2>2 DEF Ready
  <2>3. CASE EndEarly
    BY <2>3 DEF EndEarly
  <2>4. CASE FileFails
    BY <2>4 DEF FileFails
  <2>. QED
    BY <1>3, <2>1, <2>2, <2>3, <2>4
<1>4. CASE \E f \in File : NextFile(f)
  BY <1>4 DEF NextFile, BeginCopy, Skip, Announce
<1>5. CASE (\E r \in Resolution : Answer(r)) \/ Respond \/ AnswerReply
  BY <1>5 DEF Answer, Respond, AnswerReply
<1>6. CASE HandleEvent
  <2>1. /\ events \in Seq(Event) /\ events # <<>> /\ fin = "idle"
        /\ events' = Tail(events) /\ Len(events) \in Nat \ {0}
        /\ Head(events) \in Event /\ Head(events) = events[1]
    BY <1>6 DEF HandleEvent
  <2>2. CASE Head(events) \in {"ready", "done"}
    <3>1. pc = "none" /\ events' = <<>>
      BY <2>1, <2>2, ClosingIsLast
    <3>2. setting' = "tgt" /\ status' # "confirm" /\ unsaved' = unsaved
      BY <1>6, <2>2 DEF HandleEvent, StatusAfter
    <3>3. unsaved \/ AllHave
      BY <2>1, <2>2
    <3>4. fin' # "idle" => unsaved \/ src = models
      <4>1. fin' # "idle" => Head(events) = "ready"
        BY <1>6, <2>1 DEF HandleEvent
      <4>2. Head(events) = "ready" => setting = "src"
        BY <2>1
      <4>3. setting = "src" => unsaved \/ \A f \in models : f \in src
        OBVIOUS
      <4>. QED
        BY <4>1, <4>2, <4>3
    <3>. QED
      BY <1>6, <3>1, <3>2, <3>3, <3>4 DEF HandleEvent
  <2>3. CASE Head(events) \notin {"ready", "done"}
    <3>1. setting' = setting /\ fin' = fin /\ status' # "confirm" /\ unsaved' = unsaved
      BY <1>6, <2>1, <2>3 DEF HandleEvent, StatusAfter
    <3>. QED
      BY <1>6, <2>1, <3>1 DEF HandleEvent
  <2>. QED
    BY <2>2, <2>3
<1>7. CASE Refresh \/ TakePayload \/ (\E f \in File : RemoveFile(f)) \/ EndCleaning
  BY <1>7 DEF Refresh, TakePayload, RemoveFile, EndCleaning
<1>8. CASE Cancel \/ SwitchFails \/ Save
  BY <1>8 DEF Cancel, SwitchFails, Save
<1>9. CASE Crash
  <2>1. CASE unsaved \/ saved # setting
    <3>1. unsaved'
      BY <1>9, <2>1, Zenon DEF Crash
    <3>. QED
      BY <1>9, <3>1 DEF Crash
  <2>2. CASE ~unsaved /\ saved = setting
    BY <1>9, <2>2 DEF Crash
  <2>. QED
    BY <2>1, <2>2
<1>10. CASE UNCHANGED vars
  BY <1>10 DEF vars
<1>. QED
  BY <1>1, <1>2, <1>3, <1>4, <1>5, <1>6, <1>7, <1>8, <1>9, <1>10, NextSplit

IInv == TypeOK /\ Modal /\ Copied /\ Switched

LEMMA Invariant == Spec => []IInv
<1>1. ASSUME Init PROVE Modal /\ Copied /\ Switched
  BY <1>1 DEF Init, Modal, Migrating, Copied, Copying, AllHave, NothingLost, Switched,
              SettingHasModels
<1>2. IInv /\ [Next]_vars => IInv'
  BY TypeStep, ModalStep, CopiedStep, SwitchedStep DEF IInv
<1>. QED
  BY <1>1, <1>2, TypeCorrect, TypeInit, PTL DEF Spec, IInv

(* However the copy, its conflicts, its failures and crashes go, a model is *)
(* in the source until a whole copy is in the target, or the user chose to *)
(* keep what was there.                                                    *)
THEOREM NothingEverLost == Spec => []NothingLost
<1>1. IInv => NothingLost
  BY DEF IInv, Copied
<1>. QED
  BY <1>1, Invariant, PTL

(* The setting names a directory that has every model, but for a crash     *)
(* with a setting that was not saved.                                      *)
THEOREM SettingAlwaysHasModels == Spec => []SettingHasModels
<1>1. IInv => SettingHasModels
  BY DEF IInv, Switched
<1>. QED
  BY <1>1, Invariant, PTL
=============================================================================
