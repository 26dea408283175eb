------------------------------- MODULE MCParts -------------------------------
(***************************************************************************)
(* The violations that decide by themselves, each on a small instance:     *)
(* they share no state. part says which of them a behaviour is about; the  *)
(* others keep their initial states.                                       *)
(***************************************************************************)
EXTENDS GridParking, Sequences

CONSTANTS
  vIds, vPlates, vTimeout,                           \* of VehicleEvidence
  rIds, rShots, rTimeout,                            \* of RedLight
  cConfigs, cHours, cMonthDays, cMaxHour, cEndHour   \* of ConstructionAlarm

VARIABLES
  part,
  vEvents, vSnaps, vResult, vBg, vNap, vObjs, vPlatesDue,
  rEvents, rReturned, rBg, rNap, rDue,
  cAvailable, cHour, cLast, cAlarms, cMissed, cDead

\* What the proofs about any vehicles, objects, boxes and times assume of the constants: a
\* timeout is a number of ticks, a box has two corners, a time is a number of hhmm.
ASSUME PartsAssumption ==
  /\ vTimeout \in Nat /\ rTimeout \in Nat
  /\ rShots \subseteq [pts : Seq(Seq(Int)), plate : [length : Nat, score : Int]]
  /\ \A s \in rShots : Len(s.pts) = 2 /\ \A n \in 1..2 : Len(s.pts[n]) = 2
  /\ cHours \in Nat \ {0} /\ cMonthDays \in Nat \ {0} /\ cMaxHour \in Nat
  /\ \A cfg \in cConfigs : cfg \in Seq(Nat)

V == INSTANCE VehicleEvidence WITH Ids <- vIds, Plates <- vPlates, Timeout <- vTimeout,
       objVioEvent <- vEvents, labelSnap <- vSnaps, result <- vResult, bg <- vBg,
       nap <- vNap, removeList <- vObjs, snapRemoveList <- vPlatesDue

R == INSTANCE RedLight WITH Ids <- rIds, Shots <- rShots, Timeout <- rTimeout,
       objVioEvent <- rEvents, events <- rReturned, bg <- rBg, nap <- rNap, removeList <- rDue

C == INSTANCE ConstructionAlarm WITH Configs <- cConfigs, Hours <- cHours,
       MonthDays <- cMonthDays, MaxHour <- cMaxHour, EndHour <- cEndHour,
       available <- cAvailable, hour <- cHour, last <- cLast, alarms <- cAlarms,
       missed <- cMissed, dead <- cDead

-----------------------------------------------------------------------------
(***************************************************************************)
(* Values of the constants.                                                *)
(***************************************************************************)
Times == {<<>>, <<7>>, <<1, 30>>, <<100, 130>>, <<100, 130, 230>>, <<130, 100>>, <<99, 100>>}

\* Boxes between the same edges, and one at the upper edge of the picture.
Plate(length, score) == [length |-> length, score |-> score]
Shots == {[pts |-> <<<<0, 1>>, <<2, 3>>>>, plate |-> Plate(5, 1)],
          [pts |-> <<<<0, 1>>, <<4, 3>>>>, plate |-> Plate(3, 2)],
          [pts |-> <<<<0, 1>>, <<1, 3>>>>, plate |-> Plate(0, 0)],
          [pts |-> <<<<0, 0>>, <<9, 9>>>>, plate |-> Plate(5, 2)]}

-----------------------------------------------------------------------------
vVars == <<vEvents, vSnaps, vResult, vBg, vNap, vObjs, vPlatesDue>>
rVars == <<rEvents, rReturned, rBg, rNap, rDue>>
cVars == <<cAvailable, cHour, cLast, cAlarms, cMissed, cDead>>
MCVars == <<part, vars, vVars, rVars, cVars>>

MCInit ==
  /\ part \in {"grid", "vehicle", "red", "construction"}
  /\ Init /\ V!Init /\ R!Init /\ C!Init
  /\ part # "construction" => cAvailable = C!New(<<>>)

MCNext ==
  /\ UNCHANGED part
  /\ \/ part = "grid" /\ Next /\ UNCHANGED <<vVars, rVars, cVars>>
     \/ part = "vehicle" /\ V!Next /\ UNCHANGED <<vars, rVars, cVars>>
     \/ part = "red" /\ R!Next /\ UNCHANGED <<vars, vVars, cVars>>
     \/ part = "construction" /\ C!Next /\ UNCHANGED <<vars, vVars, rVars>>

\* Time goes on, the scan wakes, and a vehicle that stays is in some frame of a tick.
Fairness ==
  /\ WF_vars(part = "grid" /\ Tick) /\ WF_vars(part = "grid" /\ Scan)
  /\ WF_vars(part = "grid" /\ Remove)
  /\ \A i \in Parked : WF_vars(part = "grid" /\ settled /\ Sees(i))

MCSpec == MCInit /\ [][MCNext]_MCVars /\ Fairness

-----------------------------------------------------------------------------
MCTypeOK ==
  /\ part = "grid" => TypeOK
  /\ part = "vehicle" => V!TypeOK
  /\ part = "red" => R!TypeOK
  /\ part = "construction" => C!TypeOK

\* The evidence for a turn or a red light holds together (dawanxiaozhuan.go:175-207,
\* chuanghongdeng.go:85-110, 150-170).
EvidenceHoldsTogether ==
  /\ part = "vehicle" => V!EvidenceDies
  /\ part = "red" => R!EventHoldsTogether

\* An alarm for a construction site is given once in an hour, and not passed over
\* (chaoshi.go:72-74, chaoqi.go:46-48).
AlarmedOncePerHour == part = "construction" => C!AlarmedOncePerHour
=============================================================================
