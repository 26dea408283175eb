------------------------------ MODULE GridParking ------------------------------
(***************************************************************************)
(* Parking on a grid: a vehicle is reported when a first snapshot, one in  *)
(* the middle and one after ParkingSec show it at the same place.          *)
(*                                                                         *)
(*   biz/analyzer/handler/violations/vehicle/wanggexiantingche.go          *)
(*                                                                         *)
(* Handle returns with the first vehicle it reports: the boxes after it in *)
(* the frame are skipped. A frame is therefore modelled by the boxes that  *)
(* are looked at, of which at most one makes a report.                     *)
(***************************************************************************)
EXTENDS Integers, FiniteSets

CONSTANTS
  Ids,         \* vehicles
  Parked,      \* those that stand still, and are seen in every tick, once settled
  ParkingSec,  \* cfg.ParkingSec, in ticks (5 s)
  Timeout      \* cfg.Timeout, in ticks (60 s)

ASSUME GridAssumption ==
  Parked \subseteq Ids /\ ParkingSec \in Nat \ {0} /\ Timeout \in Nat /\ ParkingSec <= Timeout

VARIABLES
  event,       \* objVioEvent
  bg,          \* the background scan: asleep, about to remove what it listed, or ended
  removeList,
  told,        \* ghost: ticks since a reported vehicle was seen; Timeout + 1 when it
               \* has left, has not been seen for more than Timeout, or was reported
               \* after the scan had listed it, so that its report is forgotten
  stood,       \* ghost: ticks a vehicle has stood where its first snapshot shows it
  settled,     \* from now on Parked stand still and are seen in every tick
  seen         \* those of Parked that were, in this tick

vars == <<event, bg, removeList, told, stood, settled, seen>>

(***************************************************************************)
(* How far an entry is: its first snapshot, its second, or all three. age  *)
(* is the time since EndTime, which is the time of the first snapshot      *)
(* until the report; mid is the time between the first two.                *)
(***************************************************************************)
Event == [stage : {"none", "first", "second", "reported"}, age : 0..(Timeout + 1), mid : Int]
Nothing == [stage |-> "none", age |-> 0, mid |-> 0]
First == [stage |-> "first", age |-> 0, mid |-> 0]

TypeOK ==
  /\ event \in [Ids -> Event]
  /\ bg \in {"sleep", "remove", "released"} /\ removeList \in SUBSET Ids
  /\ told \in [Ids -> 0..(Timeout + 1)] /\ stood \in [Ids -> 0..ParkingSec]
  /\ settled \in BOOLEAN /\ seen \in SUBSET Parked

Init ==
  /\ event = [i \in Ids |-> Nothing]
  /\ bg = "sleep" /\ removeList = {}
  /\ told = [i \in Ids |-> Timeout + 1] /\ stood = [i \in Ids |-> 0]
  /\ settled = FALSE /\ seen = {}

\* The second snapshot is taken between 1/5 and 3/5 of ParkingSec after the first.
InWindow(t) == ParkingSec <= 5 * t /\ 5 * t <= 3 * ParkingSec

\* A box is the vehicle's second frame, at the place of its first snapshot ("still")
\* or not ("moved"), or its third frame ("left").
Reports(e, box) == e.stage = "second" /\ box = "still" /\ e.age >= ParkingSec

\* Mutant: a vehicle that moved gets a new first snapshot and keeps its second.
AfterKeepsSecond(e, box) ==
  IF box = "left" THEN Nothing
  ELSE IF e.stage = "reported" THEN [e EXCEPT !.age = 0]
  ELSE IF e.stage = "none" THEN First
  ELSE IF box = "moved" THEN [e EXCEPT !.age = 0, !.mid = @ - e.age]
  ELSE IF Reports(e, box) THEN [e EXCEPT !.stage = "reported", !.age = 0]
  ELSE IF e.stage = "first" /\ InWindow(e.age) THEN [e EXCEPT !.stage = "second", !.mid = e.age]
  ELSE e

\* Mutant: the end time of a reported vehicle is not updated.
AfterNotDated(e, box) ==
  IF box = "left" THEN Nothing
  ELSE IF e.stage = "reported" THEN e
  ELSE IF e.stage = "none" \/ box = "moved" THEN First
  ELSE IF Reports(e, box) THEN [e EXCEPT !.stage = "reported", !.age = 0]
  ELSE IF e.stage = "first" /\ InWindow(e.age) THEN [e EXCEPT !.stage = "second", !.mid = e.age]
  ELSE e

After(e, box) ==
  IF box = "left" THEN Nothing
  ELSE IF e.stage = "reported" THEN [e EXCEPT !.age = 0]
  ELSE IF e.stage = "none" \/ box = "moved" THEN First
  ELSE IF Reports(e, box) THEN [e EXCEPT !.stage = "reported", !.age = 0]
  ELSE IF e.stage = "first" /\ InWindow(e.age) THEN [e EXCEPT !.stage = "second", !.mid = e.age]
  ELSE e

\* Handle, under the lock, with the boxes it looks at.
HandleBoxes(boxes) ==
  LET on == DOMAIN boxes
      reported == {i \in on : Reports(event[i], boxes[i])}
  IN /\ bg # "released"
     /\ settled => \A i \in on \cap Parked : boxes[i] = "still"
     /\ Cardinality(reported) <= 1
     /\ event' = [i \in Ids |-> IF i \in on THEN After(event[i], boxes[i]) ELSE event[i]]
     /\ told' = [i \in Ids |->
          IF i \notin on THEN told[i]
          ELSE IF i \in reported THEN IF i \in removeList THEN Timeout + 1 ELSE 0
          ELSE IF boxes[i] = "left" \/ told[i] > Timeout THEN Timeout + 1 ELSE 0]
     /\ stood' = [i \in Ids |->
          IF i \in on /\ (boxes[i] # "still" \/ event[i].stage = "none") THEN 0 ELSE stood[i]]
     /\ seen' = IF settled THEN seen \cup (on \cap Parked) ELSE {}
     /\ UNCHANGED <<bg, removeList, settled>>

Handle == \E on \in SUBSET Ids \ {{}} : \E boxes \in [on -> {"still", "moved", "left"}] : HandleBoxes(boxes)

(***************************************************************************)
(* The background scan lists under the read lock what it removes under the *)
(* write lock. It wakes once in Timeout; any time is allowed here.         *)
(***************************************************************************)
\* Mutant: what is not reported yet never expires.
ScanReported ==
  /\ bg = "sleep"
  /\ removeList' = {i \in Ids : event[i].stage = "reported" /\ event[i].age > Timeout}
  /\ bg' = IF removeList' = {} THEN "sleep" ELSE "remove"
  /\ UNCHANGED <<event, told, stood, settled, seen>>

Scan ==
  /\ bg = "sleep"
  /\ removeList' = {i \in Ids : event[i].stage # "none" /\ event[i].age > Timeout}
  /\ bg' = IF removeList' = {} THEN "sleep" ELSE "remove"
  /\ UNCHANGED <<event, told, stood, settled, seen>>

Remove ==
  /\ bg = "remove"
  /\ event' = [i \in Ids |-> IF i \in removeList THEN Nothing ELSE event[i]]
  /\ bg' = "sleep" /\ removeList' = {}
  /\ UNCHANGED <<told, stood, settled, seen>>

\* Release waits for the scan to end; there are no frames after it.
Release ==
  /\ bg = "sleep" /\ bg' = "released"
  /\ ~settled                            \* what is settled is not released
  /\ UNCHANGED <<event, removeList, told, stood, settled, seen>>

Settle ==
  /\ bg # "released"
  /\ ~settled /\ settled' = TRUE
  /\ UNCHANGED <<event, bg, removeList, told, stood, seen>>

Tick ==
  /\ bg # "released"
  /\ settled => seen = Parked
  /\ event' = [i \in Ids |-> IF event[i].stage = "none" \/ event[i].age > Timeout THEN event[i]
                             ELSE [event[i] EXCEPT !.age = @ + 1]]
  /\ told' = [i \in Ids |-> IF told[i] > Timeout THEN told[i] ELSE told[i] + 1]
  /\ stood' = [i \in Ids |-> IF event[i].stage = "none" \/ stood[i] = ParkingSec THEN stood[i]
                             ELSE stood[i] + 1]
  /\ seen' = {}
  /\ UNCHANGED <<bg, removeList, settled>>

Next == Handle \/ Scan \/ Remove \/ Release \/ Settle \/ Tick

Spec == Init /\ [][Next]_vars

\* A frame that shows a vehicle of Parked that was not seen yet in this tick.
Sees(i) ==
  \E on \in SUBSET Ids : i \in on \ seen /\ \E boxes \in [on -> {"still", "moved", "left"}] : HandleBoxes(boxes)

-----------------------------------------------------------------------------
\* A report rests on a vehicle that really stood still for ParkingSec, with the second
\* snapshot taken in its window: whatever came before (moves, a vehicle that left, a
\* removal by the scan) never leaves a snapshot in the evidence that belongs to an
\* earlier stop (wanggexiantingche.go:115-146).
ReportIsProven ==
  [][\A i \in Ids :
       event[i].stage # "reported" /\ event'[i].stage = "reported"
         => stood[i] >= ParkingSec /\ InWindow(event'[i].mid)]_vars

\* One stop is reported once: before a vehicle is reported again it has left, or has
\* not been seen for more than Timeout; the exception is a report made between the
\* read lock under which the scan listed the vehicle, whose evidence was still
\* incomplete, and the removal (wanggexiantingche.go:147-150, 188, 193-198).
ReportedOncePerStay ==
  [][\A i \in Ids :
       event[i].stage # "reported" /\ event'[i].stage = "reported" => told[i] > Timeout]_vars

\* A vehicle that stays is reported, also when its second snapshot was missed at first
\* (the window has passed, nothing resets the entry): the scan drops the entry and the
\* evidence is collected anew (wanggexiantingche.go:120-125, 187-202).
ParkedIsReported == \A i \in Parked : settled ~> (event[i].stage = "reported")
=============================================================================
