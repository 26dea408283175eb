----------------------------- MODULE PartsProofs -----------------------------
(***************************************************************************)
(* Proofs about the violations that decide by themselves, for any          *)
(* vehicles, plates, objects, boxes and configurations, and any times.     *)
(***************************************************************************)
EXTENDS MCParts, GridParkingProofs-----------------------------------------------------------------------------
(***************************************************************************)
(* VehicleEvidence.                                                        *)
(***************************************************************************)
Listing == {"objs", "snaps"}

\* The scan sleeps for one timeout after it has removed all that is older than one, and
\* no tick passes while it removes what it has listed.
VehicleAges ==
  /\ vBg \in Listing => vNap = vTimeout
  /\ \A i \in vIds :
       /\ vBg \notin Listing => vEvents[i].age <= vTimeout + vNap
       /\ vBg = "objs" => /\ vEvents[i].age <= 2 * vTimeout
                          /\ vEvents[i].age > vTimeout => i \in vObjs
       /\ vBg = "snaps" => vEvents[i].age <= vTimeout
  /\ \A p \in vPlates :
       /\ vBg \notin Listing => vSnaps[p] <= vTimeout + vNap
       /\ vBg \in Listing => /\ vSnaps[p] <= 2 * vTimeout
                             /\ vSnaps[p] > vTimeout => p \in vPlatesDue

VehicleInv == V!TypeOK /\ VehicleAges


VehicleEvents == [age : -1..(2 * vTimeout + 1), plate : vPlates \cup {"none"}, third : BOOLEAN]

LEMMA InitVehicle == V!Init => VehicleInv
<1> SUFFICES ASSUME V!Init PROVE VehicleInv
  OBVIOUS
<1> USE PartsAssumption
<1>1. -1 \in -1..(2 * vTimeout + 1) /\ 0 \in 0..vTimeout
  OBVIOUS
<1>2. V!NoEvent \in VehicleEvents /\ V!NoEvent.age = -1
  BY <1>1 DEF V!NoEvent, V!None, VehicleEvents
<1>3. vEvents \in [vIds -> VehicleEvents] /\ vSnaps \in [vPlates -> -1..(2 * vTimeout + 1)]
  BY <1>1, <1>2 DEF V!Init, V!None
<1>4. V!TypeOK
  BY <1>1, <1>3 DEF V!Init, V!TypeOK, V!Ages, VehicleEvents
<1>5. VehicleAges
  BY <1>2 DEF V!Init, VehicleAges, V!None, Listing
<1> QED
  BY <1>4, <1>5 DEF VehicleInv

\* What a box leaves of the entry of a vehicle is as old as the entry was, or new.
LEMMA VehicleUpdate ==
  ASSUME VehicleInv, NEW i \in vIds, NEW e \in VehicleEvents, V!Update(i, e),
         e.age = IF vEvents[i].age = -1 THEN 0 ELSE vEvents[i].age
  PROVE  VehicleInv'
<1> USE PartsAssumption
<1>1. UNCHANGED <<vBg, vNap, vObjs, vPlatesDue>>
  BY DEF V!Update
<1>2. PICK none \in {e, V!NoEvent} : vEvents' = [vEvents EXCEPT ![i] = none]
  BY DEF V!Update
<1>3. vSnaps' = vSnaps \/ \E p \in vPlates : vSnaps' = [vSnaps EXCEPT ![p] = -1]
  BY DEF V!Update, VehicleEvents, V!None
<1>4. vResult' \in vIds \cup {"idle", "nil"}
  BY DEF V!Update, VehicleInv, V!TypeOK
<1>5. -1 \in -1..(2 * vTimeout + 1) /\ V!NoEvent.age = -1 /\ V!NoEvent \in VehicleEvents
  BY DEF V!NoEvent, V!None, VehicleEvents
<1>6. vEvents \in [vIds -> VehicleEvents] /\ vSnaps \in [vPlates -> -1..(2 * vTimeout + 1)]
  BY DEF VehicleInv, V!TypeOK, V!Ages, VehicleEvents
<1>7. vEvents' \in [vIds -> VehicleEvents] /\ vSnaps' \in [vPlates -> -1..(2 * vTimeout + 1)]
  BY <1>2, <1>3, <1>5, <1>6
<1>8. e.age # -1
  BY <1>6 DEF VehicleEvents
<1>9. V!TypeOK'
  BY <1>1, <1>2, <1>4, <1>5, <1>6, <1>7, <1>8 DEF VehicleInv, V!TypeOK, V!Ages, VehicleEvents, V!None
<1>10. \A j \in vIds : vEvents'[j].age <= 0 \/ vEvents'[j].age = vEvents[j].age
  BY <1>2, <1>5, <1>6
<1>11. \A p \in vPlates : vSnaps'[p] <= 0 \/ vSnaps'[p] = vSnaps[p]
  BY <1>3, <1>6
<1>12. vNap \in 0..vTimeout
  BY DEF VehicleInv, V!TypeOK
<1>13. VehicleAges'
  <2>1. \A j \in vIds : vEvents'[j].age \in Int
    BY <1>7 DEF VehicleEvents
  <2> QED
    BY <1>1, <1>7, <1>10, <1>11, <1>12, <2>1 DEF VehicleInv, VehicleAges, Listing
<1> QED
  BY <1>9, <1>13 DEF VehicleInv

LEMMA VehicleFrames ==
  ASSUME VehicleInv, NEW i \in vIds,
         V!ThirdFrame(i) \/ \E p \in vPlates : V!SecondFrame(i, p)
  PROVE  VehicleInv'
<1> USE PartsAssumption
<1> DEFINE old == V!Entry(i)
<1>1. vEvents[i] \in VehicleEvents
  BY DEF VehicleInv, V!TypeOK, V!Ages, VehicleEvents
<1>2. old \in VehicleEvents /\ old.age = IF vEvents[i].age = -1 THEN 0 ELSE vEvents[i].age
  <2>1. V!NoEvent \in VehicleEvents /\ 0 \in -1..(2 * vTimeout + 1)
    BY DEF V!NoEvent, V!None, VehicleEvents
  <2>2. [V!NoEvent EXCEPT !.age = 0] \in VehicleEvents /\ [V!NoEvent EXCEPT !.age = 0].age = 0
    BY <2>1 DEF VehicleEvents
  <2> QED
    BY <1>1, <2>2 DEF V!Entry, V!None
<1> HIDE DEF old
<1>3. CASE V!ThirdFrame(i)
  <2> DEFINE e == [old EXCEPT !.third = TRUE]
  <2>1. e \in VehicleEvents /\ e.age = old.age
    BY <1>2 DEF VehicleEvents
  <2>2. V!Update(i, e)
    BY <1>3 DEF V!ThirdFrame, old
  <2> HIDE DEF e
  <2> QED
    BY <1>2, <2>1, <2>2, VehicleUpdate
<1>4. ASSUME NEW p \in vPlates, V!SecondFrame(i, p) PROVE VehicleInv'
  <2> DEFINE e == IF old.plate = "none" THEN [old EXCEPT !.plate = p] ELSE old
  <2>1. e \in VehicleEvents /\ e.age = old.age
    BY <1>2 DEF VehicleEvents
  <2>2. V!Update(i, e)
    BY <1>4 DEF V!SecondFrame, old
  <2> HIDE DEF e
  <2> QED
    BY <1>2, <2>1, <2>2, VehicleUpdate
<1> QED
  BY <1>3, <1>4

LEMMA VehicleTick ==
  ASSUME VehicleInv, V!Tick
  PROVE  VehicleInv'
<1> USE PartsAssumption
<1> DEFINE older(i) == [vEvents[i] EXCEPT !.age = V!Older(@)]
<1>1. /\ vEvents' = [i \in vIds |-> older(i)]
      /\ vSnaps' = [p \in vPlates |-> V!Older(vSnaps[p])]
      /\ vNap' = vNap + 1 /\ vNap < vTimeout /\ vBg = "sleep"
      /\ UNCHANGED <<vResult, vBg, vObjs, vPlatesDue>>
  BY DEF V!Tick
<1>2. vEvents \in [vIds -> VehicleEvents] /\ vSnaps \in [vPlates -> -1..(2 * vTimeout + 1)]
  BY DEF VehicleInv, V!TypeOK, V!Ages, VehicleEvents
<1>3. ASSUME NEW a \in -1..(2 * vTimeout + 1)
      PROVE  /\ V!Older(a) \in -1..(2 * vTimeout + 1) /\ V!Older(a) \in Int
             /\ V!Older(a) <= a + 1 /\ (a = -1 <=> V!Older(a) = -1)
  BY DEF V!Older, V!None
<1>5. ASSUME NEW i \in vIds
      PROVE  /\ older(i) \in VehicleEvents /\ older(i).age = V!Older(vEvents[i].age)
             /\ older(i).plate = vEvents[i].plate /\ older(i).third = vEvents[i].third
             /\ vEvents[i].age \in -1..(2 * vTimeout + 1)
             /\ older(i).age = -1 => older(i) = V!NoEvent
  <2>1. vEvents[i] \in VehicleEvents /\ vEvents[i].age \in -1..(2 * vTimeout + 1)
    BY <1>2 DEF VehicleEvents
  <2>2. V!Older(vEvents[i].age) \in -1..(2 * vTimeout + 1)
    BY <1>3, <2>1
  <2>3. /\ older(i) \in VehicleEvents /\ older(i).age = V!Older(vEvents[i].age)
        /\ older(i).plate = vEvents[i].plate /\ older(i).third = vEvents[i].third
    BY <2>1, <2>2 DEF VehicleEvents
  <2>4. ASSUME older(i).age = -1 PROVE older(i) = V!NoEvent
    <3>1. vEvents[i].age = -1
      BY <1>3, <2>1, <2>3, <2>4
    <3>2. vEvents[i] = V!NoEvent
      BY <3>1 DEF VehicleInv, V!TypeOK, V!None
    <3>3. older(i) = vEvents[i]
      BY <2>1, <2>3, <3>1, <2>4 DEF VehicleEvents
    <3> QED
      BY <3>2, <3>3
  <2> QED
    BY <2>1, <2>3, <2>4
<1> HIDE DEF older
<1>6. vEvents' \in [vIds -> VehicleEvents] /\ vSnaps' \in [vPlates -> -1..(2 * vTimeout + 1)]
  BY <1>1, <1>2, <1>3, <1>5
<1>7. V!TypeOK'
  <2>1. vNap' \in 0..vTimeout
    BY <1>1 DEF VehicleInv, V!TypeOK
  <2>2. \A i \in vIds : vEvents'[i].age = -1 => vEvents'[i] = V!NoEvent
    BY <1>1, <1>5
  <2> QED
    BY <1>1, <1>6, <2>1, <2>2 DEF VehicleInv, V!TypeOK, V!Ages, VehicleEvents, V!None
<1>8. VehicleAges'
  <2>1. vNap \in 0..vTimeout
    BY DEF VehicleInv, V!TypeOK
  <2>2. ASSUME NEW i \in vIds PROVE vEvents'[i].age <= vTimeout + vNap'
    <3>1. vEvents[i].age <= vTimeout + vNap
      BY <1>1 DEF VehicleInv, VehicleAges, Listing
    <3>2. vEvents'[i].age = V!Older(vEvents[i].age) /\ vEvents[i].age \in -1..(2 * vTimeout + 1)
      BY <1>1, <1>5
    <3>3. V!Older(vEvents[i].age) <= vEvents[i].age + 1 /\ V!Older(vEvents[i].age) \in Int
      BY <1>3, <3>2
    <3> QED
      BY <1>1, <2>1, <3>1, <3>2, <3>3
  <2>3. ASSUME NEW p \in vPlates PROVE vSnaps'[p] <= vTimeout + vNap'
    <3>1. vSnaps[p] <= vTimeout + vNap
      BY <1>1 DEF VehicleInv, VehicleAges, Listing
    <3>2. vSnaps'[p] = V!Older(vSnaps[p]) /\ vSnaps[p] \in -1..(2 * vTimeout + 1)
      BY <1>1, <1>2
    <3>3. V!Older(vSnaps[p]) <= vSnaps[p] + 1 /\ V!Older(vSnaps[p]) \in Int
      BY <1>3, <3>2
    <3> QED
      BY <1>1, <2>1, <3>1, <3>2, <3>3
  <2> QED
    BY <1>1, <2>2, <2>3 DEF VehicleAges, Listing
<1> QED
  BY <1>7, <1>8 DEF VehicleInv

LEMMA VehicleScans ==
  ASSUME VehicleInv, V!Scan \/ V!RemoveObjs \/ V!RemoveSnaps
  PROVE  VehicleInv'
<1> USE PartsAssumption
<1>1. vEvents \in [vIds -> VehicleEvents] /\ vSnaps \in [vPlates -> -1..(2 * vTimeout + 1)]
  BY DEF VehicleInv, V!TypeOK, V!Ages, VehicleEvents
<1>2. V!NoEvent \in VehicleEvents /\ V!NoEvent.age = -1 /\ -1 \in -1..(2 * vTimeout + 1)
  BY DEF V!NoEvent, V!None, VehicleEvents
<1>3. \A i \in vIds : vEvents[i].age \in -1..(2 * vTimeout + 1)
  BY <1>1 DEF VehicleEvents
<1>4. CASE V!Scan
  <2>1. V!TypeOK'
    BY <1>4 DEF VehicleInv, V!TypeOK, V!Scan
  <2>2. VehicleAges'
    BY <1>1, <1>3, <1>4 DEF VehicleInv, VehicleAges, V!Scan, V!Expired, V!None, Listing
  <2> QED
    BY <2>1, <2>2 DEF VehicleInv
<1>5. CASE V!RemoveObjs
  <2>1. vEvents' = [i \in vIds |-> IF i \in vObjs THEN V!NoEvent ELSE vEvents[i]]
    BY <1>5 DEF V!RemoveObjs
  <2>2. vEvents' \in [vIds -> VehicleEvents]
    BY <1>1, <1>2, <2>1
  <2>3. V!TypeOK'
    BY <1>2, <1>5, <2>1, <2>2 DEF VehicleInv, V!TypeOK, V!RemoveObjs, V!Ages, VehicleEvents
  <2>4. VehicleAges'
    BY <1>1, <1>2, <1>3, <1>5, <2>1 DEF VehicleInv, VehicleAges, V!RemoveObjs, Listing
  <2> QED
    BY <2>3, <2>4 DEF VehicleInv
<1>6. CASE V!RemoveSnaps
  <2>1. vSnaps' = [p \in vPlates |-> IF p \in vPlatesDue THEN -1 ELSE vSnaps[p]]
    BY <1>6 DEF V!RemoveSnaps, V!None
  <2>2. vSnaps' \in [vPlates -> -1..(2 * vTimeout + 1)]
    BY <1>1, <1>2, <2>1
  <2>3. V!TypeOK'
    BY <1>6, <2>2 DEF VehicleInv, V!TypeOK, V!RemoveSnaps, V!Ages
  <2>4. VehicleAges'
    BY <1>1, <1>3, <1>6, <2>1 DEF VehicleInv, VehicleAges, V!RemoveSnaps, Listing
  <2> QED
    BY <2>3, <2>4 DEF VehicleInv
<1> QED
  BY <1>4, <1>5, <1>6

LEMMA StepVehicle == VehicleInv /\ [V!Next]_vVars => VehicleInv'
<1> SUFFICES ASSUME VehicleInv, [V!Next]_vVars PROVE VehicleInv'
  OBVIOUS
<1> USE PartsAssumption
<1>1. CASE V!Handle \/ V!Return \/ V!Release \/ UNCHANGED vVars
  <2>1. /\ UNCHANGED <<vEvents, vSnaps, vNap, vObjs, vPlatesDue>>
        /\ vBg' = vBg \/ (vBg = "sleep" /\ vBg' = "released")
        /\ vResult' \in {vResult, "idle", "nil"}
    BY <1>1 DEF V!Handle, V!Return, V!Release, vVars
  <2>2. V!TypeOK'
    BY <2>1 DEF VehicleInv, V!TypeOK
  <2>3. VehicleAges'
    BY <2>1 DEF VehicleInv, VehicleAges, Listing
  <2> QED
    BY <2>2, <2>3 DEF VehicleInv
<1>2. ASSUME NEW p \in vPlates, V!FirstFrame(p) PROVE VehicleInv'
  <2>1. vSnaps' = [vSnaps EXCEPT ![p] = 0] /\ UNCHANGED <<vEvents, vResult, vBg, vNap, vObjs, vPlatesDue>>
    BY <1>2 DEF V!FirstFrame
  <2>2. vSnaps \in [vPlates -> -1..(2 * vTimeout + 1)] /\ vNap \in 0..vTimeout
    BY DEF VehicleInv, V!TypeOK, V!Ages
  <2>3. V!TypeOK'
    BY <2>1, <2>2 DEF VehicleInv, V!TypeOK, V!Ages
  <2>4. \A q \in vPlates : vSnaps'[q] = vSnaps[q] \/ vSnaps'[q] = 0
    BY <2>1, <2>2
  <2>5. VehicleAges'
    BY <2>1, <2>2, <2>4 DEF VehicleInv, VehicleAges, Listing
  <2> QED
    BY <2>3, <2>5 DEF VehicleInv
<1>3. CASE V!Scan \/ V!RemoveObjs \/ V!RemoveSnaps
  BY <1>3, VehicleScans
<1>4. CASE V!Tick
  BY <1>4, VehicleTick
<1>5. ASSUME NEW i \in vIds, V!ThirdFrame(i) \/ \E p \in vPlates : V!SecondFrame(i, p)
      PROVE  VehicleInv'
  BY <1>5, VehicleFrames
<1> QED
  BY <1>1, <1>2, <1>3, <1>4, <1>5 DEF V!Next

-----------------------------------------------------------------------------
(***************************************************************************)
(* RedLight.                                                               *)
(***************************************************************************)
\* No entry is older than one timeout and the sleep of the scan; no tick passes while the
\* scan removes what it has listed, which is all that is older than one timeout.
RedAges ==
  /\ rBg = "remove" => rNap = rTimeout
  /\ \A i \in rIds :
       /\ rBg # "remove" => rEvents[i].age <= rTimeout + rNap
       /\ rBg = "remove" => /\ rEvents[i].age <= 2 * rTimeout
                            /\ rEvents[i].age > rTimeout => i \in rDue

\* What EventHoldsTogether says of the pictures and the plate of one entry.
BestPicture(e) ==
  /\ \A l \in R!Lines : e.line[l] # R!NoShot => R!Measure(e.line[l].pts) <= R!Measure(e.best.pts)
  /\ ~R!UpdatePlate(e.own, e.best.plate)

RedInv ==
  /\ R!TypeOK /\ RedAges
  /\ \A i \in rIds : BestPicture(rEvents[i])
  /\ \A e \in rReturned : e.age <= 2 * rTimeout /\ BestPicture(e)

LEMMA ShotTypes ==
  ASSUME NEW s \in rShots
  PROVE  /\ s.pts \in {t.pts : t \in rShots} /\ s.plate \in R!Plates
         /\ s = [pts |-> s.pts, plate |-> s.plate]
BY PartsAssumption DEF R!Plates

LEMMA PlateTypes ==
  ASSUME NEW p \in R!Plates
  PROVE  p.length \in Nat /\ p.score \in Int
BY PartsAssumption DEF R!Plates

LEMMA PtsTypes ==
  ASSUME NEW pts \in {t.pts : t \in rShots}
  PROVE  Len(pts) = 2 /\ R!Measure(pts) \in Int
<1>1. PICK t \in rShots : pts = t.pts
  OBVIOUS
<1>2. Len(t.pts) = 2 /\ t.pts \in Seq(Seq(Int)) /\ \A n \in 1..2 : Len(t.pts[n]) = 2
  BY PartsAssumption
<1>3. t.pts[1] \in Seq(Int) /\ t.pts[2] \in Seq(Int) /\ Len(t.pts[1]) = 2 /\ Len(t.pts[2]) = 2
  BY <1>2
<1>4. t.pts[1][1] \in Int /\ t.pts[1][2] \in Int /\ t.pts[2][1] \in Int /\ t.pts[2][2] \in Int
  BY <1>3
<1> QED
  BY <1>1, <1>2, <1>4 DEF R!Measure, R!Abs

\* Better is transitive and irreflexive.
LEMMA BetterPlate ==
  ASSUME NEW p \in R!Plates, NEW q \in R!Plates, NEW r \in R!Plates
  PROVE  /\ ~R!UpdatePlate(p, p)
         /\ R!UpdatePlate(p, q) /\ R!UpdatePlate(q, r) => R!UpdatePlate(p, r)
BY PlateTypes DEF R!UpdatePlate

\* An entry with a new best picture, and one that begins with it.
LEMMA NewPicture ==
  ASSUME NEW A, NEW B, NEW O, NEW L, NEW e \in [age : A, best : B, own : O, line : L],
         NEW b \in B, NEW o \in O
  PROVE  LET f == [e EXCEPT !.best = b, !.own = o] IN
         /\ f \in [age : A, best : B, own : O, line : L]
         /\ f.age = e.age /\ f.best = b /\ f.own = o /\ f.line = e.line
OBVIOUS

LEMMA NewEntry ==
  ASSUME NEW A, NEW B, NEW O, NEW L, NEW e \in [age : A, best : B, own : O, line : L],
         NEW a \in A, NEW b \in B, NEW o \in O
  PROVE  LET f == [e EXCEPT !.age = a, !.best = b, !.own = o] IN
         /\ f \in [age : A, best : B, own : O, line : L]
         /\ f.age = a /\ f.best = b /\ f.own = o /\ f.line = e.line
OBVIOUS

LEMMA NewLine ==
  ASSUME NEW e \in R!Entries, NEW shot \in rShots, NEW line \in 0..2
  PROVE  LET f == R!WithLine(e, line, shot) IN
         /\ f \in R!Entries /\ f.age = e.age /\ f.best = e.best /\ f.own = e.own
         /\ \A l \in R!Lines : f.line[l] \in {e.line[l], shot}
<1>1. CASE line \in R!Lines /\ e.line[line] = R!NoShot
  <2> DEFINE f == [e EXCEPT !.line[line] = shot]
  <2>1. R!WithLine(e, line, shot) = f
    BY <1>1 DEF R!WithLine
  <2>2. e.line \in [R!Lines -> rShots \cup {R!NoShot}]
    BY DEF R!Entries
  <2>3. f.line = [e.line EXCEPT ![line] = shot] /\ f.age = e.age /\ f.best = e.best /\ f.own = e.own
    BY DEF R!Entries
  <2>4. f \in R!Entries
    BY <2>2 DEF R!Entries
  <2> HIDE DEF f
  <2> QED
    BY <1>1, <2>1, <2>2, <2>3, <2>4
<1>2. CASE ~(line \in R!Lines /\ e.line[line] = R!NoShot)
  BY <1>2 DEF R!WithLine
<1> QED
  BY <1>1, <1>2

\* The lines' pictures are no bigger than the best or than the one that has just come: then
\* they are no bigger than the best there is now.
LEMMA NewBest ==
  ASSUME NEW e \in R!Entries, NEW shot \in rShots, ~R!UpdatePlate(e.own, e.best.plate),
         \A l \in R!Lines : \/ e.line[l] = R!NoShot \/ e.line[l] = shot
                            \/ R!Measure(e.line[l].pts) <= R!Measure(e.best.pts)
  PROVE  R!WithBest(e, shot) \in R!Entries /\ BestPicture(R!WithBest(e, shot))
         /\ R!WithBest(e, shot).age = e.age
<1>1. /\ shot.pts \in {t.pts : t \in rShots} /\ shot.plate \in R!Plates
      /\ e.best.pts \in {t.pts : t \in rShots} /\ e.best.plate \in R!Plates /\ e.own \in R!Plates
  BY ShotTypes DEF R!Entries
<1>2. /\ R!Measure(shot.pts) \in Int /\ R!Measure(e.best.pts) \in Int
      /\ R!IsBiggerRect(shot.pts, e.best.pts) <=> R!Measure(shot.pts) > R!Measure(e.best.pts)
  BY <1>1, PtsTypes DEF R!IsBiggerRect
<1>3. \A l \in R!Lines : e.line[l] # R!NoShot => R!Measure(e.line[l].pts) \in Int
  BY ShotTypes, PtsTypes DEF R!Entries
<1>4. CASE R!IsBiggerRect(shot.pts, e.best.pts)
  <2> DEFINE f == [e EXCEPT !.best = shot, !.own = shot.plate]
  <2>1. R!WithBest(e, shot) = f
    BY <1>4 DEF R!WithBest
  <2>2. shot \in [pts : {t.pts : t \in rShots}, plate : R!Plates]
    BY <1>1, ShotTypes
  <2>3. /\ f \in R!Entries
        /\ f.age = e.age /\ f.best = shot /\ f.own = shot.plate /\ f.line = e.line
    BY <1>1, <2>2, NewPicture DEF R!Entries
  <2> HIDE DEF f
  <2>4. BestPicture(f)
    BY <1>1, <1>2, <1>3, <1>4, <2>3, BetterPlate DEF BestPicture
  <2> QED
    BY <2>1, <2>3, <2>4
<1>5. CASE ~R!IsBiggerRect(shot.pts, e.best.pts) /\ R!UpdatePlate(shot.plate, e.best.plate)
  <2> DEFINE f == [e EXCEPT !.best.plate = shot.plate]
  <2>1. R!WithBest(e, shot) = f
    BY <1>5 DEF R!WithBest
  <2>2. e.best \in [pts : {t.pts : t \in rShots}, plate : R!Plates]
    BY DEF R!Entries
  <2>3. /\ f.age = e.age /\ f.best = [e.best EXCEPT !.plate = shot.plate] /\ f.own = e.own
        /\ f.line = e.line
    BY DEF R!Entries
  <2>4. [e.best EXCEPT !.plate = shot.plate] \in [pts : {t.pts : t \in rShots}, plate : R!Plates]
    BY <1>1, <2>2
  <2>5. f.best.pts = e.best.pts /\ f.best.plate = shot.plate
    BY <2>2, <2>3
  <2>6. f \in R!Entries
    BY <2>3, <2>4 DEF R!Entries
  <2> HIDE DEF f
  <2>7. ~R!UpdatePlate(e.own, shot.plate)
    BY <1>1, <1>5, BetterPlate
  <2>8. BestPicture(f)
    BY <1>1, <1>2, <1>3, <1>5, <2>3, <2>5, <2>7 DEF BestPicture
  <2> QED
    BY <2>1, <2>3, <2>6, <2>8
<1>6. CASE ~R!IsBiggerRect(shot.pts, e.best.pts) /\ ~R!UpdatePlate(shot.plate, e.best.plate)
  <2>1. R!WithBest(e, shot) = e
    BY <1>6 DEF R!WithBest
  <2> QED
    BY <1>1, <1>2, <1>3, <1>6, <2>1 DEF BestPicture
<1> QED
  BY <1>4, <1>5, <1>6

LEMMA AfterRed ==
  ASSUME NEW e \in R!Entries \cup {R!NoEvent}, BestPicture(e),
         NEW box \in [line : 0..2, shot : rShots]
  PROVE  LET f == R!After(e, box) IN
         /\ f \in R!Entries /\ BestPicture(f) /\ f.age = IF e.age = -1 THEN 0 ELSE e.age
<1> USE PartsAssumption
<1> DEFINE shot == box.shot
           line == box.line
<1>1. shot \in rShots /\ line \in 0..2
  OBVIOUS
<1>2. CASE e = R!NoEvent
  <2> DEFINE g == [R!NoEvent EXCEPT !.age = 0, !.best = shot, !.own = shot.plate]
  <2> DEFINE Pictures == [pts : {t.pts : t \in rShots} \cup {<<>>}, plate : R!Plates \cup {R!NoPlate}]
             Loose == [age : -1..(2 * rTimeout + 1), best : Pictures,
                       own : R!Plates \cup {R!NoPlate}, line : [R!Lines -> rShots \cup {R!NoShot}]]
  <2>0. shot \in [pts : {t.pts : t \in rShots}, plate : R!Plates] /\ shot.plate \in R!Plates
    BY <1>1, ShotTypes
  <2>1. R!NoEvent \in Loose /\ R!NoEvent.line = [l \in R!Lines |-> R!NoShot]
    <3>1. R!NoShot \in Pictures
      BY DEF R!NoShot
    <3> HIDE DEF Pictures
    <3> QED
      BY <3>1 DEF R!NoEvent, R!None
  <2>8. /\ g.age = 0 /\ g.best = shot /\ g.own = shot.plate
        /\ g.line = [l \in R!Lines |-> R!NoShot] /\ g \in Loose
    <3>1. shot \in Pictures /\ 0 \in -1..(2 * rTimeout + 1)
      BY <2>0
    <3> HIDE DEF Pictures
    <3> QED
      BY <2>0, <2>1, <3>1, NewEntry
  <2>2. g \in R!Entries
    <3> HIDE DEF Pictures, g
    <3> QED
      BY <2>0, <2>8 DEF R!Entries
  <2>3. R!After(e, box) = R!WithLine(g, line, shot) /\ e.age = -1
    BY <1>2 DEF R!After, R!None, R!NoEvent
  <2> HIDE DEF g, Pictures
  <2> DEFINE f == R!WithLine(g, line, shot)
  <2>4. /\ f \in R!Entries /\ f.age = 0 /\ f.best = shot /\ f.own = shot.plate
        /\ \A l \in R!Lines : f.line[l] \in {R!NoShot, shot}
    <3>1. \A l \in R!Lines : g.line[l] = R!NoShot
      BY <2>8
    <3>2. /\ f \in R!Entries /\ f.age = g.age /\ f.best = g.best /\ f.own = g.own
          /\ \A l \in R!Lines : f.line[l] \in {g.line[l], shot}
      BY <1>1, <2>2, NewLine
    <3> HIDE DEF f
    <3> QED
      BY <2>8, <3>1, <3>2
  <2> HIDE DEF f
  <2>5. R!Measure(shot.pts) \in Int /\ ~R!UpdatePlate(shot.plate, shot.plate)
    BY <1>1, ShotTypes, PtsTypes, BetterPlate
  <2>6. BestPicture(f)
    BY <2>4, <2>5 DEF BestPicture
  <2> QED
    BY <2>3, <2>4, <2>6 DEF f
<1>3. CASE e \in R!Entries
  <2>1. e.age # -1
    BY <1>3 DEF R!Entries
  <2> DEFINE g == R!WithLine(e, line, shot)
  <2>2. /\ g \in R!Entries /\ g.age = e.age /\ g.best = e.best /\ g.own = e.own
        /\ \A l \in R!Lines : g.line[l] \in {e.line[l], shot}
    BY <1>1, <1>3, NewLine
  <2>3. R!After(e, box) = R!WithBest(g, shot)
    BY <2>1 DEF R!After, R!None
  <2> HIDE DEF g
  <2>4. \A l \in R!Lines : \/ g.line[l] = R!NoShot \/ g.line[l] = shot
                           \/ R!Measure(g.line[l].pts) <= R!Measure(g.best.pts)
    BY <2>2 DEF BestPicture
  <2>5. ~R!UpdatePlate(g.own, g.best.plate)
    BY <2>2 DEF BestPicture
  <2> QED
    BY <1>1, <2>1, <2>2, <2>3, <2>4, <2>5, NewBest
<1> QED
  BY <1>2, <1>3

LEMMA EmptyEntry == R!NoEvent.age = -1 /\ BestPicture(R!NoEvent) /\ R!NoEvent \notin R!Entries
<1>1. R!NoEvent.age = -1
  BY DEF R!NoEvent, R!None
<1>2. \A l \in R!Lines : R!NoEvent.line[l] = R!NoShot
  BY DEF R!NoEvent
<1>3. R!NoEvent.own = R!NoPlate /\ R!NoEvent.best.plate = R!NoPlate
  BY DEF R!NoEvent, R!NoShot
<1>4. ~R!UpdatePlate(R!NoPlate, R!NoPlate)
  BY DEF R!UpdatePlate, R!NoPlate
<1> QED
  BY <1>1, <1>2, <1>3, <1>4 DEF BestPicture, R!Entries

LEMMA RedTypes ==
  ASSUME RedInv, NEW i \in rIds
  PROVE  /\ rEvents[i] \in R!Entries \cup {R!NoEvent} /\ BestPicture(rEvents[i])
         /\ rEvents[i].age \in -1..(2 * rTimeout + 1) /\ rEvents[i].age <= 2 * rTimeout
         /\ rEvents[i].age = -1 <=> rEvents[i] = R!NoEvent
<1> USE PartsAssumption
<1>1. rEvents[i] \in R!Entries \cup {R!NoEvent} /\ rNap \in 0..rTimeout
  BY DEF RedInv, R!TypeOK
<1>2. CASE rEvents[i] = R!NoEvent
  BY <1>2, EmptyEntry DEF RedInv
<1>3. CASE rEvents[i] \in R!Entries
  <2>1. rEvents[i].age \in 0..(2 * rTimeout + 1)
    BY <1>3 DEF R!Entries
  <2>2. rEvents[i].age <= 2 * rTimeout
    BY <1>1, <2>1 DEF RedInv, RedAges
  <2> QED
    BY <1>3, <2>1, <2>2, EmptyEntry DEF RedInv
<1> QED
  BY <1>1, <1>2, <1>3

LEMMA InitRed == R!Init => RedInv
<1> SUFFICES ASSUME R!Init PROVE RedInv
  OBVIOUS
<1> USE PartsAssumption
<1>1. 0 \in 0..rTimeout
  OBVIOUS
<1>2. \A i \in rIds : rEvents[i] = R!NoEvent
  BY DEF R!Init
<1>3. rEvents \in [rIds -> R!Entries \cup {R!NoEvent}]
  BY DEF R!Init
<1>4. RedAges
  BY <1>2, EmptyEntry DEF R!Init, RedAges
<1> QED
  BY <1>1, <1>2, <1>3, <1>4, EmptyEntry DEF R!Init, RedInv, R!TypeOK

LEMMA RedHandle ==
  ASSUME RedInv, NEW on \in SUBSET rIds, NEW box \in [on -> [line : 0..2, shot : rShots]],
         R!Handle(box)
  PROVE  RedInv'
<1> USE PartsAssumption
<1> DEFINE after(i) == R!After(rEvents[i], box[i])
           whole == {i \in on : R!Whole(after(i))}
<1>1. DOMAIN box = on
  OBVIOUS
<1>2. /\ rEvents' = [i \in rIds |-> IF i \in whole THEN R!NoEvent
                                    ELSE IF i \in on THEN after(i) ELSE rEvents[i]]
      /\ rReturned' = {after(i) : i \in whole}
      /\ UNCHANGED <<rBg, rNap, rDue>>
  BY <1>1 DEF R!Handle
<1>3. ASSUME NEW i \in on
      PROVE  /\ after(i) \in R!Entries /\ BestPicture(after(i))
             /\ after(i).age = IF rEvents[i].age = -1 THEN 0 ELSE rEvents[i].age
  <2>1. rEvents[i] \in R!Entries \cup {R!NoEvent} /\ BestPicture(rEvents[i])
    BY RedTypes
  <2>2. box[i] \in [line : 0..2, shot : rShots]
    OBVIOUS
  <2> QED
    BY <2>1, <2>2, AfterRed
<1>4. /\ rEvents \in [rIds -> R!Entries \cup {R!NoEvent}] /\ rNap \in 0..rTimeout /\ RedAges
      /\ rBg \in {"sleep", "remove", "released"} /\ rDue \in SUBSET rIds
  BY DEF RedInv, R!TypeOK
<1>5. \A i \in rIds : /\ rEvents[i].age \in -1..(2 * rTimeout + 1) /\ rEvents[i].age <= 2 * rTimeout
                      /\ BestPicture(rEvents[i])
  BY RedTypes
<1> HIDE DEF after
<1>6. rEvents' \in [rIds -> R!Entries \cup {R!NoEvent}] /\ rReturned' \subseteq R!Entries
  BY <1>2, <1>3, <1>4
<1>7. \A i \in rIds : BestPicture(rEvents'[i])
  BY <1>2, <1>3, <1>5, EmptyEntry
<1>8. \A e \in rReturned' : e.age <= 2 * rTimeout /\ BestPicture(e)
  <2> SUFFICES ASSUME NEW i \in whole PROVE after(i).age <= 2 * rTimeout /\ BestPicture(after(i))
    BY <1>2
  <2>1. /\ rEvents[i].age \in -1..(2 * rTimeout + 1) /\ rEvents[i].age <= 2 * rTimeout /\ i \in on
    BY <1>5
  <2>2. BestPicture(after(i)) /\ after(i).age = IF rEvents[i].age = -1 THEN 0 ELSE rEvents[i].age
    BY <1>3
  <2> QED
    BY <2>1, <2>2
<1>9. \A i \in rIds : rEvents'[i].age <= 0 \/ rEvents'[i].age = rEvents[i].age
  <2> SUFFICES ASSUME NEW i \in rIds PROVE rEvents'[i].age <= 0 \/ rEvents'[i].age = rEvents[i].age
    OBVIOUS
  <2>1. CASE i \in whole
    BY <1>2, <2>1, EmptyEntry
  <2>2. CASE i \in on \ whole
    BY <1>2, <1>3, <2>2
  <2>3. CASE i \notin on
    BY <1>2, <2>3
  <2> QED
    BY <2>1, <2>2, <2>3
<1>10. \A i \in rIds : rEvents'[i].age \in Int
  BY <1>6, EmptyEntry DEF R!Entries
<1>11. RedAges'
  <2> SUFFICES ASSUME NEW i \in rIds
               PROVE  /\ rBg # "remove" => rEvents'[i].age <= rTimeout + rNap
                      /\ rBg = "remove" => /\ rEvents'[i].age <= 2 * rTimeout
                                           /\ rEvents'[i].age > rTimeout => i \in rDue
    BY <1>2, <1>4 DEF RedAges
  <2>1. rEvents[i].age \in Int /\ rEvents'[i].age \in Int
    BY <1>5, <1>10
  <2>2. rEvents'[i].age <= 0 \/ rEvents'[i].age = rEvents[i].age
    BY <1>9
  <2> QED
    BY <1>4, <1>5, <2>1, <2>2 DEF RedAges
<1> QED
  BY <1>2, <1>4, <1>6, <1>7, <1>8, <1>11 DEF RedInv, R!TypeOK

LEMMA RedTick ==
  ASSUME RedInv, R!Tick
  PROVE  RedInv'
<1> USE PartsAssumption
<1> DEFINE older(i) == [rEvents[i] EXCEPT !.age = @ + 1]
           top == 2 * rTimeout + 1
<1>1. /\ rBg = "sleep" /\ rNap < rTimeout /\ rNap' = rNap + 1 /\ rBg' = rBg /\ rDue' = rDue
      /\ rReturned' = {}
      /\ rEvents' = [i \in rIds |-> IF rEvents[i].age \in {-1, top} THEN rEvents[i] ELSE older(i)]
  BY DEF R!Tick, R!None
<1>2. ASSUME NEW i \in rIds, rEvents[i].age # -1
      PROVE  older(i) \in R!Entries /\ older(i).age = rEvents[i].age + 1 /\ BestPicture(older(i))
  <2>1. rEvents[i] \in R!Entries /\ BestPicture(rEvents[i])
    BY <1>2, RedTypes, EmptyEntry
  <2>2. rEvents[i].age + 1 \in 0..top
    BY <1>2, RedTypes
  <2>3. /\ older(i) \in R!Entries /\ older(i).age = rEvents[i].age + 1
        /\ older(i).best = rEvents[i].best /\ older(i).own = rEvents[i].own
        /\ older(i).line = rEvents[i].line
    BY <2>1, <2>2 DEF R!Entries
  <2> HIDE DEF older
  <2> QED
    BY <2>1, <2>3 DEF BestPicture
<1> HIDE DEF older
<1>3. ASSUME NEW i \in rIds
      PROVE  /\ rEvents'[i] \in R!Entries \cup {R!NoEvent} /\ BestPicture(rEvents'[i])
             /\ rEvents'[i].age <= rEvents[i].age + 1 /\ rEvents'[i].age \in Int
  <2>1. /\ rEvents[i] \in R!Entries \cup {R!NoEvent} /\ BestPicture(rEvents[i])
        /\ rEvents[i].age \in -1..top
    BY RedTypes
  <2>2. CASE rEvents[i].age \in {-1, top}
    BY <1>1, <2>1, <2>2
  <2>3. CASE rEvents[i].age \notin {-1, top}
    <3>1. rEvents'[i] = older(i) /\ rEvents[i].age # -1
      BY <1>1, <2>3
    <3> QED
      BY <1>2, <2>1, <3>1
  <2> QED
    BY <2>2, <2>3
<1>4. RedAges'
  <2>1. rNap \in 0..rTimeout
    BY DEF RedInv, R!TypeOK
  <2>2. ASSUME NEW i \in rIds PROVE rEvents'[i].age <= rTimeout + rNap'
    <3>1. rEvents[i].age <= rTimeout + rNap /\ rEvents[i].age \in Int
      BY <1>1, RedTypes DEF RedInv, RedAges
    <3> QED
      BY <1>1, <1>3, <2>1, <3>1
  <2> QED
    BY <1>1, <2>2 DEF RedAges
<1>5. rEvents' \in [rIds -> R!Entries \cup {R!NoEvent}]
  BY <1>1, <1>3
<1>6. rNap' \in 0..rTimeout
  BY <1>1 DEF RedInv, R!TypeOK
<1> QED
  BY <1>1, <1>3, <1>4, <1>5, <1>6 DEF RedInv, R!TypeOK

LEMMA RedScans ==
  ASSUME RedInv, R!Scan \/ R!Remove \/ R!Release \/ UNCHANGED rVars
  PROVE  RedInv'
<1> USE PartsAssumption
<1>1. /\ rEvents \in [rIds -> R!Entries \cup {R!NoEvent}] /\ rNap \in 0..rTimeout
      /\ \A i \in rIds : /\ rEvents[i].age \in -1..(2 * rTimeout + 1)
                         /\ rEvents[i].age <= 2 * rTimeout /\ BestPicture(rEvents[i])
  BY RedTypes DEF RedInv, R!TypeOK
<1>2. CASE R!Scan
  <2>1. RedAges'
    BY <1>1, <1>2 DEF RedInv, RedAges, R!Scan
  <2> QED
    BY <1>2, <2>1 DEF RedInv, R!TypeOK, R!Scan
<1>3. CASE R!Remove
  <2>1. rEvents' = [i \in rIds |-> IF i \in rDue THEN R!NoEvent ELSE rEvents[i]]
    BY <1>3 DEF R!Remove
  <2>2. RedAges'
    BY <1>1, <1>3, <2>1, EmptyEntry DEF RedInv, RedAges, R!Remove
  <2>3. \A i \in rIds : BestPicture(rEvents'[i])
    BY <1>1, <2>1, EmptyEntry
  <2>4. rEvents' \in [rIds -> R!Entries \cup {R!NoEvent}]
    BY <1>1, <2>1
  <2> QED
    BY <1>3, <2>2, <2>3, <2>4 DEF RedInv, R!TypeOK, R!Remove
<1>4. CASE R!Release
  <2>1. RedAges'
    BY <1>4 DEF RedInv, RedAges, R!Release
  <2> QED
    BY <1>4, <2>1 DEF RedInv, R!TypeOK, R!Release
<1>5. CASE UNCHANGED rVars
  BY <1>5 DEF RedInv, RedAges, R!TypeOK, rVars
<1> QED
  BY <1>2, <1>3, <1>4, <1>5

LEMMA StepRed == RedInv /\ [R!Next]_rVars => RedInv'
<1> SUFFICES ASSUME RedInv, [R!Next]_rVars PROVE RedInv'
  OBVIOUS
<1>1. ASSUME NEW on \in SUBSET rIds, NEW box \in [on -> [line : 0..2, shot : rShots]],
             R!Handle(box)
      PROVE  RedInv'
  BY <1>1, RedHandle
<1> QED
  BY <1>1, RedTick, RedScans DEF R!Next

-----------------------------------------------------------------------------
(***************************************************************************)
(* ConstructionAlarm.                                                      *)
(***************************************************************************)
\* lastWarning is of this hour when an alarm was given in it, and never of a later one; an
\* alarm that was passed over has a last one at this hour of a day of this number.
AlarmInv ==
  /\ C!TypeOK
  /\ \A k \in C!Kinds :
       /\ cLast[k] <= cHour /\ cAlarms[k] \in {0, 1}
       /\ cAlarms[k] = 1 <=> cLast[k] = cHour
       /\ k \in cMissed => cAlarms[k] = 0 /\ cLast[k] # -1 /\ C!SameHour(cLast[k], cHour)

LEMMA Division ==
  ASSUME NEW d \in Nat \ {0}, NEW n \in Nat
  PROVE  n = d * (n \div d) + (n % d) /\ n % d \in 0..(d - 1) /\ n \div d \in Nat
OBVIOUS

LEMMA Multiple ==
  ASSUME NEW p \in Nat \ {0}, NEW k \in Int
  PROVE  (p * k) % p = 0
OBVIOUS

LEMMA Between ==
  ASSUME NEW h \in Nat \ {0}, NEW m \in Nat \ {0}, NEW g \in Nat, NEW n \in Nat,
         NEW c \in Int, NEW d \in Int, NEW r \in Nat, NEW s \in Nat,
         g = h * (m * c + s) + r, n = h * (m * d + s) + r
  PROVE  n - g = (h * m) * (d - c)
OBVIOUS

LEMMA WholePeriods ==
  ASSUME NEW h \in Nat \ {0}, NEW m \in Nat \ {0}, NEW g \in Nat, NEW n \in Nat,
         g % h = n % h, (g \div h) % m = (n \div h) % m
  PROVE  (n - g) % (h * m) = 0
<1> DEFINE r == g % h
           s == (g \div h) % m
           c == (g \div h) \div m
           d == (n \div h) \div m
<1>1. g = h * (g \div h) + r /\ r \in 0..(h - 1) /\ g \div h \in Nat
  BY Division
<1>2. n = h * (n \div h) + (n % h) /\ n \div h \in Nat
  BY Division
<1>3. g \div h = m * c + s /\ s \in 0..(m - 1) /\ c \in Nat
  BY <1>1, Division
<1>4. n \div h = m * d + ((n \div h) % m) /\ d \in Nat
  BY <1>2, Division
<1>5. g = h * (m * c + s) + r /\ n = h * (m * d + s) + r /\ r \in Nat /\ s \in Nat
  BY <1>1, <1>2, <1>3, <1>4
<1> HIDE DEF r, s, c, d
<1>6. n - g = (h * m) * (d - c)
  BY <1>3, <1>4, <1>5, Between
<1>7. h * m \in Nat \ {0} /\ d - c \in Int
  BY <1>3, <1>4
<1> QED
  BY <1>6, <1>7, Multiple

\* Two hours with the same time of day and the same day of a month are whole months apart.
LEMMA WholeMonths ==
  ASSUME NEW g \in Nat, NEW n \in Nat, C!SameHour(g, n)
  PROVE  (n - g) % (cHours * cMonthDays) = 0
BY PartsAssumption, WholePeriods DEF C!SameHour

\* The configuration is cut to pairs.
LEMMA NewPairs ==
  ASSUME NEW cfg \in cConfigs, ~C!NewPanics(cfg)
  PROVE  C!New(cfg) = C!Broken \/ Len(C!New(cfg)) % 2 = 0
<1> USE PartsAssumption
<1>1. cfg \in Seq(Nat) /\ Len(cfg) \in Nat
  OBVIOUS
<1> DEFINE half == Len(cfg) \div 2
           pairs == IF half # 0 THEN SubSeq(cfg, 1, 2 * half) ELSE cfg
           times == IF pairs = <<>> THEN <<0, 2400>> ELSE pairs
           inOrder == /\ \A i \in 1..Len(times) : C!AvailableTime(times[i])
                      /\ \A i \in 1..Len(times) : i % 2 = 1 => times[i] <= times[i + 1]
<1>0. C!New(cfg) = IF inOrder THEN times ELSE C!Broken
  BY DEF C!New
<1>5. inOrder => \A i \in 1..Len(times) : C!AvailableTime(times[i])
  OBVIOUS
<1> HIDE DEF inOrder
<1>6. ASSUME Len(times) % 2 = 0 PROVE C!New(cfg) = C!Broken \/ Len(C!New(cfg)) % 2 = 0
  <2> HIDE DEF times
  <2>1. CASE inOrder
    <3>1. C!New(cfg) = times
      BY <1>0, <2>1
    <3> QED
      BY <1>6, <3>1
  <2>2. CASE ~inOrder
    BY <1>0, <2>2
  <2> QED
    BY <2>1, <2>2
<1>2. CASE Len(cfg) = 1
  <2>1. half = 0
    BY <1>2
  <2>2. pairs = cfg /\ cfg # <<>> /\ times = cfg
    BY <1>1, <1>2, <2>1
  <2>3. ~C!AvailableTime(times[1]) /\ 1 \in 1..Len(times)
    BY <1>2, <2>2 DEF C!NewPanics
  <2> HIDE DEF times
  <2> QED
    BY <1>0, <1>5, <2>3
<1>3. CASE Len(cfg) = 0
  <2>1. half = 0 /\ cfg = <<>>
    BY <1>1, <1>3
  <2>2. times = <<0, 2400>> /\ Len(times) % 2 = 0
    BY <2>1
  <2> HIDE DEF times
  <2> QED
    BY <1>6, <2>2
<1>4. CASE Len(cfg) >= 2
  <2>1. half \in Nat /\ half # 0 /\ 2 * half <= Len(cfg) /\ (2 * half) % 2 = 0
    BY <1>1, <1>4
  <2>2. Len(SubSeq(cfg, 1, 2 * half)) = 2 * half
    <3> HIDE DEF half
    <3> QED  BY <1>1, <2>1
  <2>3. times = pairs /\ Len(times) % 2 = 0
    <3> HIDE DEF half
    <3> QED  BY <2>1, <2>2
  <2> HIDE DEF times
  <2> QED
    BY <1>6, <2>3
<1>7. \A n \in Nat : n = 1 \/ n = 0 \/ n >= 2
  OBVIOUS
<1> QED
  BY Zenon, <1>1, <1>2, <1>3, <1>4, <1>7

LEMMA InitAlarm == C!Init => AlarmInv
<1> SUFFICES ASSUME C!Init PROVE AlarmInv
  OBVIOUS
<1> USE PartsAssumption
<1>1. PICK cfg \in cConfigs : /\ cDead = C!NewPanics(cfg)
                              /\ cAvailable = IF C!NewPanics(cfg) THEN C!Broken ELSE C!New(cfg)
  BY DEF C!Init
<1>2. cAvailable = C!Broken \/ Len(cAvailable) % 2 = 0
  BY <1>1, NewPairs
<1>3. cDead \in BOOLEAN
  BY <1>1 DEF C!NewPanics
<1>4. 0 \in 0..cMaxHour /\ 0 \in Nat /\ -1 \in -1..cMaxHour
  OBVIOUS
<1>5. C!TypeOK
  BY <1>2, <1>3, <1>4 DEF C!Init, C!TypeOK
<1>6. \A k \in C!Kinds : cLast[k] = -1 /\ cAlarms[k] = 0 /\ k \notin cMissed /\ cHour = 0
  BY DEF C!Init
<1> QED
  BY <1>5, <1>6 DEF AlarmInv

LEMMA AlarmHandle ==
  ASSUME AlarmInv, NEW second \in {0, 59}, C!Handle(second)
  PROVE  AlarmInv'
<1> USE PartsAssumption
<1>1. UNCHANGED <<cAvailable, cHour>> /\ ~cDead
  BY DEF C!Handle
<1>2. CASE cAvailable = C!Broken
  <2>1. cDead' = TRUE /\ UNCHANGED <<cLast, cAlarms, cMissed>>
    BY <1>2 DEF C!Handle
  <2> QED
    BY <1>1, <2>1 DEF AlarmInv, C!TypeOK, C!SameHour
<1>3. CASE cAvailable # C!Broken
  <2> DEFINE due == {k \in C!Kinds : IF k = "chaoshi" THEN C!OutOfHours(second) ELSE C!Overdue}
             given == {k \in due : cLast[k] = -1 \/ ~C!SameHour(cLast[k], cHour)}
  <2>1. /\ cLast' = [k \in C!Kinds |-> IF k \in given THEN cHour ELSE cLast[k]]
        /\ cAlarms' = [k \in C!Kinds |-> IF k \in given THEN cAlarms[k] + 1 ELSE cAlarms[k]]
        /\ cMissed' = {k \in cMissed \cup due : cAlarms'[k] = 0}
        /\ cDead' = cDead
    BY <1>3 DEF C!Handle
  <2>2. /\ cLast \in [C!Kinds -> -1..cMaxHour] /\ cHour \in 0..cMaxHour
        /\ cAlarms \in [C!Kinds -> Nat] /\ cMissed \in SUBSET C!Kinds /\ due \subseteq C!Kinds
    BY DEF AlarmInv, C!TypeOK
  <2>3. \A k \in given : k \in C!Kinds /\ (cLast[k] = -1 \/ ~C!SameHour(cLast[k], cHour))
    OBVIOUS
  <2>4. \A k \in due \ given : cLast[k] # -1 /\ C!SameHour(cLast[k], cHour)
    OBVIOUS
  <2> HIDE DEF due, given
  <2>5. C!TypeOK'
    BY <1>1, <2>1, <2>2 DEF AlarmInv, C!TypeOK
  <2>6. ASSUME NEW k \in C!Kinds
        PROVE  /\ cLast'[k] <= cHour' /\ cAlarms'[k] \in {0, 1}
               /\ cAlarms'[k] = 1 <=> cLast'[k] = cHour'
               /\ k \in cMissed' =>
                    cAlarms'[k] = 0 /\ cLast'[k] # -1 /\ C!SameHour(cLast'[k], cHour')
    <3>1. /\ cLast[k] <= cHour /\ cAlarms[k] \in {0, 1} /\ (cAlarms[k] = 1 <=> cLast[k] = cHour)
          /\ k \in cMissed => cAlarms[k] = 0 /\ cLast[k] # -1 /\ C!SameHour(cLast[k], cHour)
      BY DEF AlarmInv
    <3>2. C!SameHour(cHour, cHour)
      BY DEF C!SameHour
    <3>3. CASE k \in given
      <4>1. cAlarms[k] = 0
        BY <2>2, <2>3, <3>1, <3>2, <3>3
      <4>2. cLast'[k] = cHour /\ cAlarms'[k] = 1 /\ k \notin cMissed'
        BY <2>1, <3>3, <4>1
      <4> QED
        BY <1>1, <2>2, <4>2
    <3>4. CASE k \notin given
      <4>1. cLast'[k] = cLast[k] /\ cAlarms'[k] = cAlarms[k]
        BY <2>1, <3>4
      <4>2. k \in cMissed' => cAlarms[k] = 0 /\ cLast[k] # -1 /\ C!SameHour(cLast[k], cHour)
        BY <2>1, <2>4, <3>1, <3>4, <4>1
      <4> QED
        BY <1>1, <3>1, <4>1, <4>2
    <3> QED
      BY <3>3, <3>4
  <2> QED
    BY <2>5, <2>6 DEF AlarmInv, C!SameHour
<1> QED
  BY <1>2, <1>3

LEMMA StepAlarm == AlarmInv /\ [C!Next]_cVars => AlarmInv'
<1> SUFFICES ASSUME AlarmInv, [C!Next]_cVars PROVE AlarmInv'
  OBVIOUS
<1> USE PartsAssumption
<1>1. CASE C!NextHour
  BY <1>1 DEF AlarmInv, C!TypeOK, C!NextHour, C!SameHour
<1>2. ASSUME NEW second \in {0, 59}, C!Handle(second) PROVE AlarmInv'
  BY <1>2, AlarmHandle
<1>3. CASE UNCHANGED cVars
  BY <1>3 DEF AlarmInv, C!TypeOK, C!SameHour, cVars
<1> QED
  BY <1>1, <1>2, <1>3 DEF C!Next

-----------------------------------------------------------------------------
(***************************************************************************)
(* All of them.                                                            *)
(***************************************************************************)
PartsInv == GridInv /\ VehicleInv /\ RedInv /\ AlarmInv

LEMMA InitParts == MCInit => PartsInv
BY InitGrid, InitVehicle, InitRed, InitAlarm DEF MCInit, PartsInv

LEMMA StepParts == PartsInv /\ [MCNext]_MCVars => PartsInv'
<1> SUFFICES ASSUME PartsInv, [MCNext]_MCVars PROVE PartsInv'
  OBVIOUS
<1>1. [Next]_vars /\ [V!Next]_vVars /\ [R!Next]_rVars /\ [C!Next]_cVars
  BY DEF MCNext, MCVars
<1> QED
  BY <1>1, StepGrid, StepVehicle, StepRed, StepAlarm DEF PartsInv

\* Every reachable state of the violations is well typed, for any vehicles, plates, boxes,
\* configurations and times.
THEOREM PartsTypeCorrect == MCSpec => []MCTypeOK
<1>1. PartsInv => MCTypeOK
  BY DEF PartsInv, GridInv, VehicleInv, RedInv, AlarmInv, MCTypeOK
<1> QED
  BY <1>1, InitParts, StepParts, PTL DEF MCSpec

\* For any vehicles, plates, boxes and timeouts no picture of an event is two timeouts older
\* than another, and the best picture and plate of a red light are those of the code's
\* order (dawanxiaozhuan.go:175-207, chuanghongdeng.go:85-110, 150-170).
THEOREM EvidenceProven == MCSpec => []EvidenceHoldsTogether
<1>1. VehicleInv => V!EvidenceDies
  <2> SUFFICES ASSUME VehicleInv PROVE V!EvidenceDies
    OBVIOUS
  <2>1. vNap \in 0..vTimeout /\ vBg \in {"objs", "snaps"} \cup {"sleep", "released"}
    BY DEF VehicleInv, V!TypeOK
  <2>2. \A i \in vIds : vEvents[i].age \in -1..(2 * vTimeout + 1)
    BY DEF VehicleInv, V!TypeOK, V!Ages
  <2>3. \A p \in vPlates : vSnaps[p] \in -1..(2 * vTimeout + 1)
    BY DEF VehicleInv, V!TypeOK, V!Ages
  <2> QED
    BY <2>1, <2>2, <2>3, PartsAssumption DEF VehicleInv, VehicleAges, Listing, V!EvidenceDies
<1>2. RedInv => R!EventHoldsTogether
  <2> SUFFICES ASSUME RedInv PROVE R!EventHoldsTogether
    OBVIOUS
  <2>1. \A i \in rIds : rEvents[i].age <= 2 * rTimeout /\ BestPicture(rEvents[i])
    BY RedTypes
  <2>2. \A e \in rReturned : e.age <= 2 * rTimeout /\ BestPicture(e)
    BY DEF RedInv
  <2> QED
    BY <2>1, <2>2 DEF R!EventHoldsTogether, BestPicture
<1>3. PartsInv => EvidenceHoldsTogether
  BY <1>1, <1>2 DEF PartsInv, EvidenceHoldsTogether
<1> QED
  BY <1>3, InitParts, StepParts, PTL DEF MCSpec

\* For any configuration, any length of days and months and any number of hours an alarm is
\* given at most once in an hour, and passed over only whole months after the last one
\* (chaoshi.go:72-74, chaoqi.go:46-48).
THEOREM AlarmsProven == MCSpec => []AlarmedOncePerHour
<1>1. AlarmInv => C!AlarmedOncePerHour
  <2> SUFFICES ASSUME AlarmInv, NEW k \in C!Kinds
               PROVE  /\ cAlarms[k] <= 1
                      /\ k \in cMissed =>
                           /\ cLast[k] # cHour
                           /\ (cHour - cLast[k]) % (cHours * cMonthDays) = 0
    BY DEF C!AlarmedOncePerHour
  <2>1. /\ cAlarms[k] \in {0, 1} /\ (cAlarms[k] = 1 <=> cLast[k] = cHour)
        /\ k \in cMissed => cAlarms[k] = 0 /\ cLast[k] # -1 /\ C!SameHour(cLast[k], cHour)
    BY DEF AlarmInv
  <2>2. cLast[k] \in -1..cMaxHour /\ cHour \in Nat
    BY PartsAssumption DEF AlarmInv, C!TypeOK
  <2>3. k \in cMissed => cLast[k] \in Nat
    BY <2>1, <2>2, PartsAssumption
  <2> QED
    BY <2>1, <2>2, <2>3, WholeMonths
<1>2. PartsInv => AlarmedOncePerHour
  BY <1>1 DEF PartsInv, AlarmedOncePerHour
<1> QED
  BY <1>2, InitParts, StepParts, PTL DEF MCSpec
=============================================================================
