---------------------------- MODULE VehicleEvidence ----------------------------
(***************************************************************************)
(* The evidence for a vehicle that turns, changes lanes or does not give   *)
(* way: a first picture with its plate, a second with plate and id, a      *)
(* third with its id, in any order.                                        *)
(*                                                                         *)
(*   biz/analyzer/handler/violations/vehicle/dawanxiaozhuan.go             *)
(*                                                                         *)
(* Four violations share this code under their own violation type.         *)
(***************************************************************************)
EXTENDS Integers

CONSTANTS
  Ids,       \* vehicles
  Plates,    \* the plates that are read; a misread plate is another one
  Timeout    \* cfg.Timeout, in ticks (60 s)

VARIABLES
  objVioEvent,  \* per vehicle: the age of its entry, the plate of its second
                \* snapshot, whether it has the third
  labelSnap,    \* per plate: the age of the first snapshot
  result,       \* "idle", or what Handle, which holds the lock, will return
  bg,           \* the background scan: asleep, about to remove what it listed, or ended
  nap,          \* ticks it has slept
  removeList, snapRemoveList

vars == <<objVioEvent, labelSnap, result, bg, nap, removeList, snapRemoveList>>

None == -1                     \* no entry, no snapshot
Ages == -1..(2 * Timeout + 1)
NoEvent == [age |-> None, plate |-> "none", third |-> FALSE]

TypeOK ==
  /\ objVioEvent \in [Ids -> [age : Ages, plate : Plates \cup {"none"}, third : BOOLEAN]]
  /\ \A i \in Ids : objVioEvent[i].age = None => objVioEvent[i] = NoEvent
  /\ labelSnap \in [Plates -> Ages]
  /\ result \in Ids \cup {"idle", "nil"}
  /\ bg \in {"sleep", "objs", "snaps", "released"} /\ nap \in 0..Timeout
  /\ removeList \in SUBSET Ids /\ snapRemoveList \in SUBSET Plates

Init ==
  /\ objVioEvent = [i \in Ids |-> NoEvent] /\ labelSnap = [p \in Plates |-> None]
  /\ result = "idle"
  /\ bg = "sleep" /\ nap = 0 /\ removeList = {} /\ snapRemoveList = {}

-----------------------------------------------------------------------------
(***************************************************************************)
(* Handle takes the lock, looks at the boxes one by one and returns the    *)
(* last event that was complete. A box without the plate or the id its     *)
(* frame needs is ignored.                                                 *)
(***************************************************************************)
Handle ==
  /\ bg # "released"
  /\ result = "idle" /\ result' = "nil"
  /\ UNCHANGED <<objVioEvent, labelSnap, bg, nap, removeList, snapRemoveList>>

FirstFrame(p) ==
  /\ result # "idle"
  /\ labelSnap[p] = None
  /\ labelSnap' = [labelSnap EXCEPT ![p] = 0]
  /\ UNCHANGED <<objVioEvent, result, bg, nap, removeList, snapRemoveList>>

\* The entry of a vehicle after a box; it is returned when it has all it needs.
Update(i, e) ==
  /\ result # "idle"
  /\ LET complete == /\ objVioEvent[i].age # None
                     /\ e.plate # "none" /\ e.third /\ labelSnap[e.plate] # None
     IN /\ objVioEvent' = [objVioEvent EXCEPT ![i] = IF complete THEN NoEvent ELSE e]
        /\ labelSnap' = IF complete THEN [labelSnap EXCEPT ![e.plate] = None] ELSE labelSnap
        /\ result' = IF complete THEN i ELSE result
  /\ UNCHANGED <<bg, nap, removeList, snapRemoveList>>

\* The entry of a vehicle, a new one when there is none.
Entry(i) == IF objVioEvent[i].age = None THEN [NoEvent EXCEPT !.age = 0] ELSE objVioEvent[i]

SecondFrame(i, p) ==
  LET e == Entry(i) IN Update(i, IF e.plate = "none" THEN [e EXCEPT !.plate = p] ELSE e)

ThirdFrame(i) == Update(i, [Entry(i) EXCEPT !.third = TRUE])

Return ==
  /\ result # "idle" /\ result' = "idle"
  /\ UNCHANGED <<objVioEvent, labelSnap, bg, nap, removeList, snapRemoveList>>

-----------------------------------------------------------------------------
(***************************************************************************)
(* The background scan lists under the read lock, and removes under the    *)
(* write lock twice; Handle may come between any two of these. The scan is *)
(* prompt: no tick passes while it is at work.                             *)
(***************************************************************************)
Expired(age) == age # None /\ age > Timeout

Scan ==
  /\ bg = "sleep" /\ nap = Timeout /\ result = "idle"
  /\ removeList' = {i \in Ids : Expired(objVioEvent[i].age)}
  /\ snapRemoveList' = {p \in Plates : Expired(labelSnap[p])}
  /\ bg' = "objs"
  /\ UNCHANGED <<objVioEvent, labelSnap, result, nap>>

RemoveObjs ==
  /\ bg = "objs" /\ result = "idle"
  /\ objVioEvent' = [i \in Ids |-> IF i \in removeList THEN NoEvent ELSE objVioEvent[i]]
  /\ bg' = "snaps" /\ removeList' = {}
  /\ UNCHANGED <<labelSnap, result, nap, snapRemoveList>>

RemoveSnaps ==
  /\ bg = "snaps" /\ result = "idle"
  /\ labelSnap' = [p \in Plates |-> IF p \in snapRemoveList THEN None ELSE labelSnap[p]]
  /\ bg' = "sleep" /\ nap' = 0 /\ snapRemoveList' = {}
  /\ UNCHANGED <<objVioEvent, result, removeList>>

\* The scan ends, when it has removed what it listed; there are no frames any more.
Release ==
  /\ bg = "sleep" /\ result = "idle" /\ bg' = "released"
  /\ UNCHANGED <<objVioEvent, labelSnap, result, nap, removeList, snapRemoveList>>

Older(age) == IF age = None \/ age > 2 * Timeout THEN age ELSE age + 1

Tick ==
  /\ result = "idle" /\ bg = "sleep" /\ nap < Timeout
  /\ objVioEvent' = [i \in Ids |-> [objVioEvent[i] EXCEPT !.age = Older(@)]]
  /\ labelSnap' = [p \in Plates |-> Older(labelSnap[p])]
  /\ nap' = nap + 1
  /\ UNCHANGED <<result, bg, removeList, snapRemoveList>>

Next ==
  \/ Handle \/ Return \/ Scan \/ RemoveObjs \/ RemoveSnaps \/ Release \/ Tick
  \/ \E p \in Plates : FirstFrame(p)
  \/ \E i \in Ids : ThirdFrame(i) \/ \E p \in Plates : SecondFrame(i, p)

Spec == Init /\ [][Next]_vars

-----------------------------------------------------------------------------
\* No evidence outlives two timeouts, so that no event joins pictures further apart:
\* the entries and the plates are both dropped, although only StartTime and Tz are
\* looked at and the scan sleeps for a whole timeout (dawanxiaozhuan.go:175-207).
EvidenceDies ==
  /\ \A i \in Ids : objVioEvent[i].age <= 2 * Timeout
  /\ \A p \in Plates : labelSnap[p] <= 2 * Timeout
=============================================================================
