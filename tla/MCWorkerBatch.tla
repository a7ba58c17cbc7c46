---------------------------- MODULE MCWorkerBatch ---------------------------
(* Two scenarios of the background workers.  In the first, one worker for  *)
(* a batch of two separations and two cancellations that may hit the same  *)
(* batch, or its two tasks, at any time; in the second, the export of an   *)
(* editor's mix and its cancellation.                                      *)
EXTENDS EditorExport, TLC

CONSTANTS batch, export, t1, t2, te, c1, c2, cx

MCCommandOf == batch :> "infer" @@ export :> "export_editor_mix"
MCIdsOf == batch :> {t1, t2} @@ export :> {te}

\* The batch and its cancellations, untouched.
BatchIdle == pc[batch] = "idle" /\ cpc[c1] = "idle" /\ cpc[c2] = "idle"

\* The two tasks, and the two cancellations, are alike.
MCInit == ExportInit /\ ctask[c1] = t1

\* The second scenario needs only one choice of what the others cancel.
MCNext ==
  /\ ExportNext
  /\ \/ win' = "idle"
     \/ BatchIdle' /\ ctask[c2] = t1

MCSpec == MCInit /\ [][MCNext]_allVars /\ ExportFairness
=============================================================================
