---------------------------- MODULE RuntimeLease ----------------------------
(***************************************************************************)
(* What the runtime lease of worker.rs promises, without its counters: a   *)
(* holder has no lease or a lease of one mode, and two leases coexist only *)
(* when both are shared ("user") or both belong to plugin installations    *)
(* ("install").  An "update" lease is held alone.                          *)
(***************************************************************************)

CONSTANT Holder     \* everyone who may ask for a lease

VARIABLE lease      \* the mode each holder has been granted

Mode == {"user", "update", "install"}

Compatible(m, n) == m = n /\ m # "update"

TypeOK == lease \in [Holder -> Mode \cup {"none"}]

Init == lease = [h \in Holder |-> "none"]

\* A lease is granted only beside leases it is compatible with.
Grant(h, m) ==
  /\ lease[h] = "none"
  /\ \A k \in Holder : lease[k] # "none" => Compatible(lease[k], m)
  /\ lease' = [lease EXCEPT ![h] = m]

Return(h) ==
  /\ lease[h] # "none"
  /\ lease' = [lease EXCEPT ![h] = "none"]

Next == \E h \in Holder : Return(h) \/ \E m \in Mode : Grant(h, m)

Spec == Init /\ [][Next]_lease

(***************************************************************************)
(* Whoever holds a lease holds it beside compatible leases only: pip, a    *)
(* plugin removal or a runtime switch never overlaps another worker.       *)
(***************************************************************************)
Exclusion ==
  \A h, k \in Holder :
    h # k /\ lease[h] # "none" /\ lease[k] # "none" => Compatible(lease[h], lease[k])
=============================================================================
