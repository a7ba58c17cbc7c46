----------------------------- MODULE MCTaskBatch -----------------------------
(* A batch of two interchangeable workflow tasks, either of which the user   *)
(* may cancel at any time and repeatedly, and a workflow that proves invalid *)
(* when its node metadata is there.  Both wait for metadata, so that they    *)
(* compete for the slots, while the limit moves between one and two.         *)
EXTENDS TaskQueue, TLC

CONSTANTS a1, a2, b1

MCTask == {a1, a2, b1}
MCJob == {1, 2}
MCJobOf == a1 :> 1 @@ a2 :> 1 @@ b1 :> 2
Symmetry == Permutations({a1, a2})
=============================================================================
