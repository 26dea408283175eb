---------------------------- MODULE MCDeeperQueue ----------------------------
(* DeeperQueue on small instances: a worker is <<process, number>>. *)
EXTENDS DeeperQueue

CONSTANTS Pooling     \* the processes with two workers; the others have one

MCWorkers == {<<p, 1>> : p \in Procs} \cup {<<p, 2>> : p \in Pooling}
MCOwner == [w \in MCWorkers |-> w[1]]
=============================================================================
