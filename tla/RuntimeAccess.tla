---------------------------- MODULE RuntimeAccess ---------------------------
(***************************************************************************)
(* The lease of worker.rs: a RuntimeAccess record of counters behind a     *)
(* mutex, and the guard every successful acquisition returns.  The program *)
(* has two of them, RUNTIME_ACCESS (the Python interpreter) and            *)
(* APPLICATION_ACCESS (the application bundle); WorkerSupervisor makes one *)
(* instance for each.  Acquisition never blocks: it is refused when busy.  *)
(***************************************************************************)
EXTENDS Naturals, FiniteSets

CONSTANT Holder     \* the calls that may acquire a guard, one guard each

ASSUME HolderAssumption == IsFiniteSet(Holder)

VARIABLES
  access,   \* [users, updating, installing_plugins]: struct RuntimeAccess
  guard     \* the mode of the RuntimeAccessGuard each holder owns, or "none"

accessVars == <<access, guard>>

UpdatingCommands ==
  {"update_runtime_core", "manage_plugin", "activate_runtime", "delete_runtime",
   "install_runtime"}

\* Commands that run on the bundled interpreter.
BootstrapCommands ==
  {"health", "network_diagnostics", "plugin_source_info", "runtime_info",
   "runtime_env_sizes", "runtime_core_versions", "install_runtime",
   "activate_runtime", "delete_runtime", "update_runtime_core"}

\* The lease a command asks for; "none" is the early return of Ok(None).
\* A manage_plugin call whose action is "install" is named "install_plugin".
LeaseMode(command) ==
  CASE command = "install_plugin"         -> "install"
    [] command \in UpdatingCommands       -> "update"
    [] command \in BootstrapCommands \ UpdatingCommands -> "none"
    [] OTHER                              -> "user"

Mode == {"user", "update", "install"}

TypeOK ==
  /\ access \in [users : Nat, updating : BOOLEAN, installing_plugins : Nat]
  /\ guard \in [Holder -> Mode \cup {"none"}]

Init ==
  /\ access = [users |-> 0, updating |-> FALSE, installing_plugins |-> 0]
  /\ guard = [h \in Holder |-> "none"]

-----------------------------------------------------------------------------
(* A plausible slip in the condition: installations only exclude updates.  *)
BusyIgnoringInstalls(m) ==
  \/ access.updating
  \/ m # "user" /\ access.users > 0

\* The condition under which an acquisition returns RUNTIME_BUSY.
Busy(m) ==
  \/ access.updating
  \/ m \in {"update", "install"} /\ access.users > 0
  \/ m # "install" /\ access.installing_plugins > 0

Acquire(h, m) ==
  /\ guard[h] = "none"
  /\ m \in Mode
  /\ ~Busy(m)
  /\ \/ m = "install" /\ access' = [access EXCEPT !.installing_plugins = @ + 1]
     \/ m = "update" /\ access' = [access EXCEPT !.updating = TRUE]
     \/ m = "user" /\ access' = [access EXCEPT !.users = @ + 1]
  /\ guard' = [guard EXCEPT ![h] = m]

\* RuntimeAccessGuard::drop.
Release(h) ==
  /\ guard[h] # "none"
  /\ \/ guard[h] = "install" /\ access' = [access EXCEPT !.installing_plugins = @ - 1]
     \/ guard[h] = "update" /\ access' = [access EXCEPT !.updating = FALSE]
     \/ guard[h] = "user" /\ access' = [access EXCEPT !.users = @ - 1]
  /\ guard' = [guard EXCEPT ![h] = "none"]

Next == \E h \in Holder : Release(h) \/ \E m \in Mode : Acquire(h, m)

Spec == Init /\ [][Next]_accessVars

-----------------------------------------------------------------------------
Owners(m) == {h \in Holder : guard[h] = m}

(***************************************************************************)
(* The counters say exactly who owns a guard: no acquisition is forgotten, *)
(* no drop takes back another holder's lease or underflows a counter.      *)
(***************************************************************************)
CountersExact ==
  /\ access.users = Cardinality(Owners("user"))
  /\ access.installing_plugins = Cardinality(Owners("install"))
  /\ access.updating <=> Owners("update") # {}

(***************************************************************************)
(* RUNTIME_BUSY is neither too rare nor too frequent: an acquisition is    *)
(* refused exactly when some guard in existence is incompatible with it.   *)
(***************************************************************************)
BusyIsExact ==
  \A m \in Mode :
    Busy(m) <=> \E h \in Holder : guard[h] # "none" /\ ~(guard[h] = m /\ m # "update")

\* The counters implement the lease of RuntimeLease.
Lease == INSTANCE RuntimeLease WITH lease <- guard

LeaseSpec == Lease!Spec
=============================================================================
