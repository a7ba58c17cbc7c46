---------------------------- MODULE MCTaskRestart ----------------------------
(* A separation, which may be cancelled, and two workflows that take turns   *)
(* in one slot: one that proves invalid when its node metadata is there, and *)
(* one that is refused at once.  The application may end at any time and     *)
(* start again from the stored history.                                      *)
EXTENDS TaskQueue, TLC

CONSTANTS a1, b1, c1

MCTask == {a1, b1, c1}
MCJob == {1, 2, 3}
MCJobOf == a1 :> 1 @@ b1 :> 2 @@ c1 :> 3
=============================================================================
