----------------------------- MODULE PluginHost -----------------------------
(***************************************************************************)
(* The state of the plugin host: the live session and the scan, which only *)
(* meet at the end of the application.  PluginHostState::shutdown cancels  *)
(* them one after the other and then waits for the mutex of the session.   *)
(***************************************************************************)
EXTENDS PluginSession, PluginScan

hostVars == <<sessionVars, scanVars>>

HostTypeOK == SessionTypeOK /\ ScanTypeOK

HostInit == SessionInit /\ ScanInit

SessionStep == SessionNext /\ UNCHANGED scanVars
ScanStep == ScanNext /\ UNCHANGED sessionVars

ShutSession == (ShutFlag \/ ShutSupersede \/ ShutCancel) /\ UNCHANGED scanVars

ShutScan ==
  /\ shut = "cancelled"
  /\ CancelScanLease \/ (scanLease /\ CloseScans)
  /\ UNCHANGED sessionVars

ShutEnd == closing /\ ShutTake /\ UNCHANGED scanVars

Shutdown == ShutSession \/ ShutScan \/ ShutEnd

HostNext == SessionStep \/ ScanStep \/ Shutdown

HostSpec == HostInit /\ [][HostNext]_hostVars

\* The end of the application leaves no helper at work that is known to it,
\* and waits for none (PluginHostState::shutdown).
ShutdownReachesHelpers ==
  /\ SessionShut
  /\ scanLease => probe # "running"
=============================================================================
