----------------------------- MODULE MCTaskLease -----------------------------
(* TaskLease on small instances: an element of Leases is <<process, number>>. *)
EXTENDS TaskLease

CONSTANTS Lingering   \* the processes two of whose DoTask invocations may overlap

MCLeases == {<<p, 1>> : p \in Procs} \cup {<<p, 2>> : p \in Lingering}
MCOwner == [l \in MCLeases |-> l[1]]
=============================================================================
