-------------------------------- MODULE RedLight --------------------------------
(***************************************************************************)
(* A bicycle that runs a red light, or rides against the traffic, is       *)
(* reported when it was seen on both of two lines, with the best picture   *)
(* of it and the best plate.                                               *)
(*                                                                         *)
(*   biz/analyzer/handler/violations/nonmotor/chuanghongdeng.go            *)
(***************************************************************************)
EXTENDS Integers, Sequences

CONSTANTS
  Ids,       \* objects
  Shots,     \* what a box may show: its corners, and the plate with its score
  Timeout    \* cfg.Timeout, in ticks (20 s)

VARIABLES
  objVioEvent,  \* per object: the age of its entry, the best picture and those of the lines
  events,       \* what the last call of Handle returned
  bg,           \* the background scan: asleep, about to remove what it listed, or ended
  nap,          \* ticks it has slept
  removeList

vars == <<objVioEvent, events, bg, nap, removeList>>

None == -1
Lines == {0, 1}      \* CrossSubLineID; 2 stands for any other
NoPlate == [length |-> 0, score |-> 0]
NoShot == [pts |-> <<>>, plate |-> NoPlate]
NoEvent == [age |-> None, best |-> NoShot, own |-> NoPlate, line |-> [l \in Lines |-> NoShot]]

\* The length of a plate is 5 for 5 and more. The pictures of the lines keep the plates
\* they were taken with, which nobody looks at (the code may overwrite them, with that of
\* the best picture when it is the same). own, a ghost, is the plate the best picture was
\* taken with.
Plates == {s.plate : s \in Shots}
Entries == [age : 0..(2 * Timeout + 1), best : [pts : {s.pts : s \in Shots}, plate : Plates],
            own : Plates, line : [Lines -> Shots \cup {NoShot}]]

TypeOK ==
  /\ objVioEvent \in [Ids -> Entries \cup {NoEvent}]
  /\ events \subseteq Entries
  /\ bg \in {"sleep", "remove", "released"} /\ nap \in 0..Timeout /\ removeList \in SUBSET Ids

Init ==
  /\ objVioEvent = [i \in Ids |-> NoEvent] /\ events = {}
  /\ bg = "sleep" /\ nap = 0 /\ removeList = {}

-----------------------------------------------------------------------------
Abs(n) == IF n < 0 THEN -n ELSE n

\* The code's measure of a box, zhanrenxingdao.go:179: the width by the product of the
\* upper and the lower edge. Corners that are not two are an error and no bigger box.
Measure(pts) == Abs((pts[2][1] - pts[1][1]) * (pts[2][2] * pts[1][2]))

\* Mutant: the smaller of two boxes.
IsSmallerRect(a, b) == Len(a) = 2 /\ Len(b) = 2 /\ Measure(a) < Measure(b)

IsBiggerRect(a, b) == Len(a) = 2 /\ Len(b) = 2 /\ Measure(a) > Measure(b)

\* A plate of five and more is better than a shorter one or one of a lower score, and a
\* short one than one that is shorter.
UpdatePlate(new, old) ==
  \/ new.length >= 5 /\ (old.length < 5 \/ new.score > old.score)
  \/ new.length < 5 /\ new.length > old.length

WithLine(e, line, shot) ==
  IF line \in Lines /\ e.line[line] = NoShot THEN [e EXCEPT !.line[line] = shot] ELSE e

\* The best picture gets the better plate, and may then be replaced by a bigger one with
\* the plate of its own.
WithBest(e, shot) ==
  IF IsBiggerRect(shot.pts, e.best.pts) THEN [e EXCEPT !.best = shot, !.own = shot.plate]
  ELSE IF UpdatePlate(shot.plate, e.best.plate) THEN [e EXCEPT !.best.plate = shot.plate]
  ELSE e

\* An entry after a box: a new one, or one with more.
After(e, box) ==
  IF e.age = None
  THEN WithLine([NoEvent EXCEPT !.age = 0, !.best = box.shot, !.own = box.shot.plate],
                box.line, box.shot)
  ELSE WithBest(WithLine(e, box.line, box.shot), box.shot)

Whole(e) == \A l \in Lines : e.line[l] # NoShot

\* Handle, under the lock, with the objects whose boxes show the violation: the entries
\* that are whole are returned and deleted.
Handle(box) ==
  LET after == [i \in DOMAIN box |-> After(objVioEvent[i], box[i])]
      whole == {i \in DOMAIN box : Whole(after[i])}
  IN /\ bg # "released"
     /\ objVioEvent' = [i \in Ids |-> IF i \in whole THEN NoEvent
                                      ELSE IF i \in DOMAIN box THEN after[i] ELSE objVioEvent[i]]
     /\ events' = {after[i] : i \in whole}
  /\ UNCHANGED <<bg, nap, removeList>>

-----------------------------------------------------------------------------
\* The background scan lists under the read lock, and removes under the write lock. It
\* is prompt: no tick passes while it is at work.
Scan ==
  /\ bg = "sleep" /\ nap = Timeout
  /\ removeList' = {i \in Ids : objVioEvent[i].age > Timeout}
  /\ bg' = "remove" /\ events' = {}
  /\ UNCHANGED <<objVioEvent, nap>>

Remove ==
  /\ bg = "remove"
  /\ objVioEvent' = [i \in Ids |-> IF i \in removeList THEN NoEvent ELSE objVioEvent[i]]
  /\ bg' = "sleep" /\ nap' = 0 /\ removeList' = {} /\ events' = {}

\* The scan ends, when it has removed what it listed; there are no frames any more.
Release ==
  /\ bg = "sleep" /\ bg' = "released" /\ events' = {}
  /\ UNCHANGED <<objVioEvent, nap, removeList>>

Tick ==
  /\ bg = "sleep" /\ nap < Timeout /\ nap' = nap + 1
  /\ objVioEvent' = [i \in Ids |->
       IF objVioEvent[i].age \in {None, 2 * Timeout + 1} THEN objVioEvent[i]
       ELSE [objVioEvent[i] EXCEPT !.age = @ + 1]]
  /\ events' = {}
  /\ UNCHANGED <<bg, removeList>>

Next ==
  \/ \E seen \in SUBSET Ids : \E box \in [seen -> [line : 0..2, shot : Shots]] : Handle(box)
  \/ Scan \/ Remove \/ Release \/ Tick

Spec == Init /\ [][Next]_vars

-----------------------------------------------------------------------------
\* The pictures of an entry are never more than two timeouts apart; its best picture is no
\* smaller, by the code's measure, than those of the lines, and so the widest of those
\* between the same edges; and the plate is never worse than the one it was taken with
\* (chuanghongdeng.go:85-110, 150-170).
EventHoldsTogether ==
  \A e \in events \cup {objVioEvent[i] : i \in Ids} :
    /\ e.age <= 2 * Timeout
    /\ \A l \in Lines :
         e.line[l] # NoShot => Measure(e.line[l].pts) <= Measure(e.best.pts)
    /\ ~UpdatePlate(e.own, e.best.plate)
=============================================================================
