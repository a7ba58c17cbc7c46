--------------------------- MODULE MCManagedUpdate ---------------------------
(* An installation without bundled tools and an archive that brings them;   *)
(* the process that staged the update and the one that is launched, and two *)
(* recovery helpers.                                                        *)
EXTENDS ManagedUpdate
=============================================================================
