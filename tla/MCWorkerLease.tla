---------------------------- MODULE MCWorkerLease ---------------------------
(* A plugin installation, whose terminal events and cancellation wait for  *)
(* the leases, and a plugin operation, which shares the runtime, exclude   *)
(* each other; both are excluded by an application update; one             *)
(* cancellation.                                                           *)
EXTENDS WorkerSupervisor, TLC

CONSTANTS plugin, operation, tp, to

MCCommandOf == plugin :> "install_plugin" @@ operation :> "run_operation"
MCIdsOf == plugin :> {tp} @@ operation :> {to}
=============================================================================
