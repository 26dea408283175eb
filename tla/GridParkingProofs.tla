-------------------------- MODULE GridParkingProofs --------------------------
(***************************************************************************)
(* What a report of grid parking rests on, and that a stop is reported     *)
(* once, for any vehicles, any ParkingSec and any Timeout.                 *)
(***************************************************************************)
EXTENDS GridParking, TLAPS

\* While the evidence is collected its age is time the vehicle has stood at the place of
\* its first snapshot, as far as stood counts.
StoodSince(i) ==
  event[i].stage \in {"first", "second"} => stood[i] = ParkingSec \/ stood[i] >= event[i].age

\* The second snapshot was taken in its window after the first.
SecondInWindow(i) == event[i].stage = "second" => InWindow(event[i].mid)

\* A vehicle that was reported, and has not gone since, still has its report, as old as
\* it was not seen for, and no scan has listed it.
ToldIsKept(i) ==
  told[i] <= Timeout
    => event[i].stage = "reported" /\ event[i].age = told[i] /\ i \notin removeList

GridInv == TypeOK /\ \A i \in Ids : StoodSince(i) /\ SecondInWindow(i) /\ ToldIsKept(i)

LEMMA InitGrid == Init => GridInv
<1> SUFFICES ASSUME Init PROVE GridInv
  OBVIOUS
<1> USE GridAssumption
<1>1. Nothing \in Event /\ Nothing.stage = "none"
  BY DEF Nothing, Event
<1>2. TypeOK
  <2>1. event \in [Ids -> Event]
    BY <1>1 DEF Init
  <2>2. Timeout + 1 \in 0..(Timeout + 1) /\ 0 \in 0..ParkingSec
    OBVIOUS
  <2>3. told \in [Ids -> 0..(Timeout + 1)] /\ stood \in [Ids -> 0..ParkingSec]
    BY <2>2 DEF Init
  <2> QED
    BY <2>1, <2>3 DEF Init, TypeOK
<1>3. \A i \in Ids : StoodSince(i) /\ SecondInWindow(i) /\ ToldIsKept(i)
  BY <1>1 DEF Init, StoodSince, SecondInWindow, ToldIsKept
<1> QED
  BY <1>2, <1>3 DEF GridInv

-----------------------------------------------------------------------------
LEMMA AfterType ==
  ASSUME NEW e \in Event, NEW box \in {"still", "moved", "left"}
  PROVE  After(e, box) \in Event
<1>1. 0 \in 0..(Timeout + 1)
  BY GridAssumption
<1>2. Nothing \in Event /\ First \in Event
  BY <1>1 DEF Event, Nothing, First
<1>3. [e EXCEPT !.age = 0] \in Event
  BY <1>1 DEF Event
<1>4. [e EXCEPT !.stage = "reported", !.age = 0] \in Event
  BY <1>1 DEF Event
<1>5. e.age \in Int
  BY GridAssumption DEF Event
<1>6. [e EXCEPT !.stage = "second", !.mid = e.age] \in Event
  BY <1>5 DEF Event
<1> QED
  BY <1>2, <1>3, <1>4, <1>6 DEF After

\* The fields of a changed entry.
LEMMA Redated ==
  ASSUME NEW e \in Event
  PROVE  LET a == [e EXCEPT !.age = 0] IN a.stage = e.stage /\ a.age = 0 /\ a.mid = e.mid
BY DEF Event

LEMMA Reported ==
  ASSUME NEW e \in Event
  PROVE  LET a == [e EXCEPT !.stage = "reported", !.age = 0]
         IN  a.stage = "reported" /\ a.age = 0 /\ a.mid = e.mid
BY DEF Event

LEMMA Second ==
  ASSUME NEW e \in Event
  PROVE  LET a == [e EXCEPT !.stage = "second", !.mid = e.age]
         IN  a.stage = "second" /\ a.age = e.age /\ a.mid = e.age
BY DEF Event

\* What a box does to an entry, whatever it shows.
LEMMA AfterBox ==
  ASSUME NEW e \in Event, NEW box \in {"still", "moved", "left"}
  PROVE  LET a == After(e, box) IN
         /\ a.stage = "first" => a.age = 0 \/ (a = e /\ box = "still")
         /\ a.stage = "second" => /\ box = "still" /\ a.age = e.age
                                  /\ \/ a = e
                                     \/ e.stage = "first" /\ InWindow(e.age) /\ a.mid = e.age
         /\ a.stage = "reported" => a.age = 0 /\ (e.stage = "reported" \/ Reports(e, box))
         /\ Reports(e, box) => a.stage = "reported" /\ a.mid = e.mid
         /\ e.stage = "reported" /\ box # "left" => a.stage = "reported"
<1> DEFINE re == [e EXCEPT !.age = 0]
           rp == [e EXCEPT !.stage = "reported", !.age = 0]
           se == [e EXCEPT !.stage = "second", !.mid = e.age]
<1>1. /\ re.stage = e.stage /\ re.age = 0 /\ re.mid = e.mid
      /\ rp.stage = "reported" /\ rp.age = 0 /\ rp.mid = e.mid
      /\ se.stage = "second" /\ se.age = e.age /\ se.mid = e.age
  BY Redated, Reported, Second
<1>2. After(e, box) =
        IF box = "left" THEN Nothing
        ELSE IF e.stage = "reported" THEN re
        ELSE IF e.stage = "none" \/ box = "moved" THEN First
        ELSE IF Reports(e, box) THEN rp
        ELSE IF e.stage = "first" /\ InWindow(e.age) THEN se ELSE e
  BY DEF After
<1>3. Nothing.stage = "none" /\ First.stage = "first" /\ First.age = 0
  BY DEF Nothing, First
<1>4. e.stage \in {"none", "first", "second", "reported"}
  BY DEF Event
<1> HIDE DEF re, rp, se
<1> QED
  BY <1>1, <1>2, <1>3, <1>4 DEF Reports

LEMMA BoxesInv ==
  ASSUME GridInv, NEW on \in SUBSET Ids, NEW boxes \in [on -> {"still", "moved", "left"}],
         HandleBoxes(boxes)
  PROVE  GridInv'
<1> USE GridAssumption
<1>1. DOMAIN boxes = on
  OBVIOUS
<1> DEFINE a(i) == After(event[i], boxes[i])
<1>2. /\ event' = [i \in Ids |-> IF i \in on THEN a(i) ELSE event[i]]
      /\ bg' = bg /\ removeList' = removeList /\ settled' = settled
      /\ stood' = [i \in Ids |->
           IF i \in on /\ (boxes[i] # "still" \/ event[i].stage = "none") THEN 0 ELSE stood[i]]
      /\ seen' = IF settled THEN seen \cup (on \cap Parked) ELSE {}
  BY <1>1 DEF HandleBoxes
<1>3. told' = [i \in Ids |->
          IF i \notin on THEN told[i]
          ELSE IF Reports(event[i], boxes[i]) THEN IF i \in removeList THEN Timeout + 1 ELSE 0
          ELSE IF boxes[i] = "left" \/ told[i] > Timeout THEN Timeout + 1 ELSE 0]
  BY <1>1 DEF HandleBoxes
<1>4. \A i \in on : event[i] \in Event /\ boxes[i] \in {"still", "moved", "left"}
  BY DEF GridInv, TypeOK
<1>5. TypeOK'
  <2>1. \A i \in on : a(i) \in Event
    BY <1>4, AfterType
  <2>2. event' \in [Ids -> Event]
    BY <1>2, <2>1 DEF GridInv, TypeOK
  <2>3. told' \in [Ids -> 0..(Timeout + 1)] /\ stood' \in [Ids -> 0..ParkingSec]
    BY <1>2, <1>3 DEF GridInv, TypeOK
  <2> QED
    BY <1>2, <2>2, <2>3 DEF GridInv, TypeOK
<1>6. ASSUME NEW i \in Ids, i \notin on PROVE (StoodSince(i) /\ SecondInWindow(i) /\ ToldIsKept(i))'
  <2>1. event'[i] = event[i] /\ stood'[i] = stood[i] /\ told'[i] = told[i]
    BY <1>2, <1>3, <1>6
  <2> QED
    BY <1>2, <2>1 DEF GridInv, StoodSince, SecondInWindow, ToldIsKept, InWindow
<1>7. ASSUME NEW i \in on PROVE (StoodSince(i) /\ SecondInWindow(i) /\ ToldIsKept(i))'
  <2> DEFINE box == boxes[i]
  <2>1. event[i] \in Event /\ box \in {"still", "moved", "left"} /\ i \in Ids
    BY <1>4
  <2>2. event'[i] = a(i) /\ removeList' = removeList
    BY <1>2, <2>1
  <2>3. /\ stood'[i] = IF box # "still" \/ event[i].stage = "none" THEN 0 ELSE stood[i]
        /\ stood[i] \in 0..ParkingSec /\ told[i] \in 0..(Timeout + 1)
        /\ event[i].age \in 0..(Timeout + 1)
    BY <1>2, <2>1 DEF GridInv, TypeOK, Event
  <2>4. told'[i] = IF Reports(event[i], box) THEN IF i \in removeList THEN Timeout + 1 ELSE 0
                   ELSE IF box = "left" \/ told[i] > Timeout THEN Timeout + 1 ELSE 0
    BY <1>3, <2>1
  <2>5. StoodSince(i) /\ SecondInWindow(i) /\ ToldIsKept(i)
    BY <2>1 DEF GridInv
  <2>6. /\ a(i).stage = "first" => a(i).age = 0 \/ (a(i) = event[i] /\ box = "still")
        /\ a(i).stage = "second" =>
             /\ box = "still" /\ a(i).age = event[i].age
             /\ \/ a(i) = event[i]
                \/ event[i].stage = "first" /\ InWindow(event[i].age) /\ a(i).mid = event[i].age
        /\ a(i).stage = "reported" =>
             a(i).age = 0 /\ (event[i].stage = "reported" \/ Reports(event[i], box))
        /\ Reports(event[i], box) => a(i).stage = "reported"
        /\ event[i].stage = "reported" /\ box # "left" => a(i).stage = "reported"
    BY <2>1, AfterBox
  <2> HIDE DEF a, box
  <2>7. StoodSince(i)'
    <3>1. stood'[i] \in 0..ParkingSec
      BY <2>3
    <3>2. CASE a(i).stage = "first"
      BY <2>2, <2>3, <2>5, <2>6, <3>1, <3>2 DEF StoodSince
    <3>3. CASE a(i).stage = "second"
      BY <2>2, <2>3, <2>5, <2>6, <3>3 DEF StoodSince
    <3> QED
      BY <2>2, <3>2, <3>3 DEF StoodSince
  <2>8. SecondInWindow(i)'
    BY <2>2, <2>5, <2>6 DEF SecondInWindow, InWindow
  <2>9. ToldIsKept(i)'
    BY <2>2, <2>3, <2>4, <2>5, <2>6 DEF ToldIsKept
  <2> QED
    BY <2>7, <2>8, <2>9
<1> QED
  BY <1>5, <1>6, <1>7 DEF GridInv

LEMMA TickInv ==
  ASSUME GridInv, Tick
  PROVE  GridInv'
<1> USE GridAssumption
<1> DEFINE older(i) == [event[i] EXCEPT !.age = @ + 1]
<1>1. /\ event' = [i \in Ids |-> IF event[i].stage = "none" \/ event[i].age > Timeout THEN event[i]
                                 ELSE older(i)]
      /\ told' = [i \in Ids |-> IF told[i] > Timeout THEN told[i] ELSE told[i] + 1]
      /\ stood' = [i \in Ids |-> IF event[i].stage = "none" \/ stood[i] = ParkingSec THEN stood[i]
                                 ELSE stood[i] + 1]
      /\ seen' = {} /\ bg' = bg /\ removeList' = removeList /\ settled' = settled
  BY DEF Tick
<1>2. ASSUME NEW i \in Ids
      PROVE  /\ older(i).stage = event[i].stage /\ older(i).mid = event[i].mid
             /\ older(i).age = event[i].age + 1
             /\ event[i].age <= Timeout => older(i) \in Event
             /\ event[i].age \in 0..(Timeout + 1)
  <2>1. event[i] \in Event
    BY DEF GridInv, TypeOK
  <2>2. event[i].age \in 0..(Timeout + 1)
    BY <2>1 DEF Event
  <2>3. event[i].age <= Timeout => event[i].age + 1 \in 0..(Timeout + 1)
    BY <2>2
  <2> QED
    BY <2>1, <2>2, <2>3 DEF Event
<1> HIDE DEF older
<1>3. TypeOK'
  <2>1. event' \in [Ids -> Event]
    <3> SUFFICES ASSUME NEW i \in Ids PROVE event'[i] \in Event
      BY <1>1
    <3>1. event[i] \in Event
      BY DEF GridInv, TypeOK
    <3> QED
      BY <1>1, <1>2, <3>1
  <2>2. told' \in [Ids -> 0..(Timeout + 1)] /\ stood' \in [Ids -> 0..ParkingSec]
    BY <1>1 DEF GridInv, TypeOK
  <2> QED
    BY <1>1, <2>1, <2>2 DEF GridInv, TypeOK
<1>4. ASSUME NEW i \in Ids PROVE (StoodSince(i) /\ SecondInWindow(i) /\ ToldIsKept(i))'
  <2>1. /\ event'[i].stage = event[i].stage
        /\ event[i].stage # "none" => event'[i].mid = event[i].mid
        /\ event'[i].age = IF event[i].stage = "none" \/ event[i].age > Timeout THEN event[i].age
                           ELSE event[i].age + 1
    BY <1>1, <1>2
  <2>2. StoodSince(i) /\ SecondInWindow(i) /\ ToldIsKept(i)
    BY DEF GridInv
  <2>3. stood[i] \in 0..ParkingSec /\ told[i] \in 0..(Timeout + 1)
    BY DEF GridInv, TypeOK
  <2>4. /\ told'[i] = IF told[i] > Timeout THEN told[i] ELSE told[i] + 1
        /\ stood'[i] = IF event[i].stage = "none" \/ stood[i] = ParkingSec THEN stood[i]
                       ELSE stood[i] + 1
        /\ removeList' = removeList
    BY <1>1
  <2>5. event[i].age \in 0..(Timeout + 1)
    BY <1>2
  <2>6. StoodSince(i)'
    BY <2>1, <2>2, <2>3, <2>4, <2>5 DEF StoodSince
  <2>7. SecondInWindow(i)'
    BY <2>1, <2>2 DEF SecondInWindow, InWindow
  <2>8. ToldIsKept(i)'
    BY <2>1, <2>2, <2>3, <2>4, <2>5 DEF ToldIsKept
  <2> QED
    BY <2>6, <2>7, <2>8
<1> QED
  BY <1>3, <1>4 DEF GridInv

\* The scan lists nothing that is told, and so removes nothing that is.
LEMMA ScanInv ==
  ASSUME GridInv, Scan
  PROVE  GridInv'
<1> USE GridAssumption
<1>1. TypeOK'
  BY DEF GridInv, TypeOK, Scan
<1>2. ASSUME NEW i \in Ids PROVE (StoodSince(i) /\ SecondInWindow(i) /\ ToldIsKept(i))'
  <2>1. event'[i] = event[i] /\ stood'[i] = stood[i] /\ told'[i] = told[i]
    BY DEF Scan
  <2>2. i \in removeList' => event[i].age > Timeout
    BY DEF Scan
  <2>3. told[i] \in 0..(Timeout + 1)
    BY DEF GridInv, TypeOK
  <2>4. StoodSince(i) /\ SecondInWindow(i) /\ ToldIsKept(i)
    BY DEF GridInv
  <2> QED
    BY <2>1, <2>2, <2>3, <2>4 DEF StoodSince, SecondInWindow, ToldIsKept, InWindow
<1> QED
  BY <1>1, <1>2 DEF GridInv

LEMMA RemoveInv ==
  ASSUME GridInv, Remove
  PROVE  GridInv'
<1> USE GridAssumption
<1>0. Nothing \in Event /\ Nothing.stage = "none"
  BY DEF Nothing, Event
<1>1. TypeOK'
  BY <1>0 DEF GridInv, TypeOK, Remove
<1>2. ASSUME NEW i \in Ids PROVE (StoodSince(i) /\ SecondInWindow(i) /\ ToldIsKept(i))'
  <2>1. /\ event'[i] = IF i \in removeList THEN Nothing ELSE event[i]
        /\ stood'[i] = stood[i] /\ told'[i] = told[i] /\ removeList' = {}
    BY DEF Remove
  <2>2. StoodSince(i) /\ SecondInWindow(i) /\ ToldIsKept(i)
    BY DEF GridInv
  <2> QED
    BY <1>0, <2>1, <2>2 DEF StoodSince, SecondInWindow, ToldIsKept, InWindow
<1> QED
  BY <1>1, <1>2 DEF GridInv

LEMMA StepGrid == GridInv /\ [Next]_vars => GridInv'
<1> SUFFICES ASSUME GridInv, [Next]_vars PROVE GridInv'
  OBVIOUS
<1>1. CASE Handle
  BY <1>1, BoxesInv DEF Handle
<1>2. CASE Scan
  BY <1>2, ScanInv
<1>3. CASE Remove
  BY <1>3, RemoveInv
<1>4. CASE Tick
  BY <1>4, TickInv
<1>5. CASE Release \/ Settle \/ UNCHANGED vars
  <2>1. UNCHANGED <<event, removeList, told, stood>> /\ TypeOK'
    BY <1>5 DEF GridInv, TypeOK, Release, Settle, vars
  <2> QED
    BY <2>1 DEF GridInv, StoodSince, SecondInWindow, ToldIsKept, InWindow
<1> QED
  BY <1>1, <1>2, <1>3, <1>4, <1>5 DEF Next

-----------------------------------------------------------------------------
\* Every reachable state of grid parking is well typed, for any vehicles and times.
THEOREM GridTypeCorrect == Spec => []TypeOK
<1>1. GridInv => TypeOK
  BY DEF GridInv
<1> QED
  BY <1>1, InitGrid, StepGrid, PTL DEF Spec

\* Only a box of Handle reports a vehicle, and one that has the two snapshots.
LEMMA ReportIsBox ==
  ASSUME GridInv, [Next]_vars, NEW i \in Ids,
         event[i].stage # "reported", event'[i].stage = "reported"
  PROVE  /\ event[i].stage = "second" /\ event[i].age >= ParkingSec
         /\ event'[i].mid = event[i].mid
<1> USE GridAssumption
<1>1. CASE Handle
  <2>0. PICK on \in SUBSET Ids :
          \E boxes \in [on -> {"still", "moved", "left"}] : HandleBoxes(boxes)
    BY <1>1 DEF Handle
  <2>1. PICK boxes \in [on -> {"still", "moved", "left"}] : HandleBoxes(boxes)
    BY <2>0
  <2>2. event'[i] = IF i \in on THEN After(event[i], boxes[i]) ELSE event[i]
    BY <2>1 DEF HandleBoxes
  <2>3. i \in on /\ event'[i] = After(event[i], boxes[i])
    BY <2>2
  <2>4. event[i] \in Event /\ boxes[i] \in {"still", "moved", "left"}
    BY <2>3 DEF GridInv, TypeOK
  <2>5. Reports(event[i], boxes[i]) /\ event'[i].mid = event[i].mid
    BY <2>3, <2>4, AfterBox
  <2> QED
    BY <2>5 DEF Reports
<1>2. CASE Remove
  BY <1>2 DEF Remove, Nothing
<1>3. CASE Tick
  <2>1. event[i] \in Event
    BY DEF GridInv, TypeOK
  <2>2. [event[i] EXCEPT !.age = @ + 1].stage = event[i].stage
    BY <2>1 DEF Event
  <2> QED
    BY <1>3, <2>2 DEF Tick
<1>4. CASE Scan \/ Release \/ Settle \/ UNCHANGED vars
  BY <1>4 DEF Scan, Release, Settle, vars
<1> QED
  BY <1>1, <1>2, <1>3, <1>4 DEF Next

\* For any vehicles and any ParkingSec a report rests on a stop of ParkingSec with the
\* second snapshot in its window (wanggexiantingche.go:115-146).
THEOREM ReportsAreProven == Spec => ReportIsProven
<1>1. GridInv /\ [Next]_vars =>
        [\A i \in Ids :
           event[i].stage # "reported" /\ event'[i].stage = "reported"
             => stood[i] >= ParkingSec /\ InWindow(event'[i].mid)]_vars
  <2> SUFFICES ASSUME GridInv, [Next]_vars, NEW i \in Ids,
                      event[i].stage # "reported", event'[i].stage = "reported"
               PROVE  stood[i] >= ParkingSec /\ InWindow(event'[i].mid)
    OBVIOUS
  <2>1. /\ event[i].stage = "second" /\ event[i].age >= ParkingSec
        /\ event'[i].mid = event[i].mid
    BY ReportIsBox
  <2>2. stood[i] \in 0..ParkingSec /\ StoodSince(i) /\ SecondInWindow(i)
        /\ event[i].age \in 0..(Timeout + 1)
    BY DEF GridInv, TypeOK, Event
  <2>3. stood[i] >= ParkingSec
    BY <2>1, <2>2, GridAssumption DEF StoodSince
  <2> QED
    BY <2>1, <2>2, <2>3 DEF SecondInWindow
<1> QED
  BY <1>1, InitGrid, StepGrid, PTL DEF Spec, ReportIsProven

\* For any vehicles and times a vehicle is reported again only when it has left, was not
\* seen for more than Timeout, or was reported while the scan had it on its list
\* (wanggexiantingche.go:147-150, 188, 193-198).
THEOREM ReportedOnceProven == Spec => ReportedOncePerStay
<1>1. GridInv /\ [Next]_vars =>
        [\A i \in Ids :
           event[i].stage # "reported" /\ event'[i].stage = "reported" => told[i] > Timeout]_vars
  <2> SUFFICES ASSUME GridInv, [Next]_vars, NEW i \in Ids,
                      event[i].stage # "reported", event'[i].stage = "reported"
               PROVE  told[i] > Timeout
    OBVIOUS
  <2>1. told[i] \in 0..(Timeout + 1) /\ ToldIsKept(i)
    BY DEF GridInv, TypeOK
  <2> QED
    BY <2>1, GridAssumption DEF ToldIsKept
<1> QED
  BY <1>1, InitGrid, StepGrid, PTL DEF Spec, ReportedOncePerStay
=============================================================================
