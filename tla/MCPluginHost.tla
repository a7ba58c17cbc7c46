---------------------------- MODULE MCPluginHost ----------------------------
(* Two scenes, each up to the end of the application: windows that load,    *)
(* lose and recover the session, and scans that are skipped, cancelled and  *)
(* corrected.                                                               *)
EXTENDS PluginHost, TLC

CONSTANTS wa, wb, pa, pb

MCWindow == {wa, wb}
MCPackage == {pa, pb}
Symmetry == Permutations(MCWindow) \cup Permutations(MCPackage)

VARIABLE scene

\* The catalog at the start matters to the second scene only.
MCInit ==
  /\ HostInit
  /\ scene \in {"sessions", "scans"}
  /\ scene = "sessions" => \A p \in Package : catalog[p] = NoEntry

MCNext ==
  /\ \/ scene = "sessions" /\ SessionStep
     \/ scene = "scans" /\ ScanStep
     \/ Shutdown
  /\ UNCHANGED scene

MCSpec == MCInit /\ [][MCNext]_<<hostVars, scene>>
=============================================================================
