---------------------------- MODULE TaskOwnership ----------------------------
(***************************************************************************)
(* What the lease on stream tasks promises: a task has at most one owner   *)
(* at a time, an owner keeps it by renewing it, and ownership passes to    *)
(* another one only when the task was not renewed for its whole due time   *)
(* or after the owner lost it.                                             *)
(***************************************************************************)
EXTENDS Naturals

CONSTANTS Tasks, Leases

VARIABLES
  holders,   \* the leases that own each task
  due        \* the tasks that may be gained

ovars == <<holders, due>>

OInit == holders = [t \in Tasks |-> {}] /\ due = {}

\* Time passes: some tasks become due.
Expire(S) ==
  /\ due' = due \cup S
  /\ UNCHANGED holders

\* A lease takes a due task, whoever held it before.
Acquire(t, l) ==
  /\ t \in due
  /\ holders' = [holders EXCEPT ![t] = {l}]
  /\ due' = due \ {t}

Renew(t, l) ==
  /\ holders[t] = {l}
  /\ due' = due \ {t}
  /\ UNCHANGED holders

\* Owners give up, fail, or are expropriated.
Lose(S) ==
  /\ holders' = [t \in Tasks |-> IF t \in S THEN {} ELSE holders[t]]
  /\ UNCHANGED due

\* The task is written by somebody else: nobody owns it, and it is not due.
Reset(t) ==
  /\ holders' = [holders EXCEPT ![t] = {}]
  /\ due' = due \ {t}

ONext ==
  \/ \E S \in SUBSET Tasks : Expire(S) \/ Lose(S)
  \/ \E t \in Tasks : Reset(t) \/ \E l \in Leases : Acquire(t, l) \/ Renew(t, l)

OSpec == OInit /\ [][ONext]_ovars
=============================================================================
