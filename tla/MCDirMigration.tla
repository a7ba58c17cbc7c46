--------------------------- MODULE MCDirMigration ---------------------------
(* Up to two models, each of which the target may have already.              *)
EXTENDS DirMigration, TLC
=============================================================================
