------------------------- MODULE MCWorkflowEditors -------------------------
(* Two editor windows of either kind, a stored workflow, and one still to be *)
(* saved.                                                                    *)
EXTENDS WorkflowEditors, TLC

Symmetry == Permutations(Label) \cup Permutations(Opener) \cup Permutations(Kind)
=============================================================================
