------------------------------ MODULE MCRequests ------------------------------
(***************************************************************************)
(* The requests of the dashboard's users, and the clients of the video and *)
(* the face service, each on a small instance: they share no state. part   *)
(* says which of them a behaviour is about; the others keep their initial  *)
(* states.                                                                 *)
(***************************************************************************)
EXTENDS Integers, Sequences, FiniteSets, TLC

CONSTANTS
  e1, e2, e3,                                        \* ids of events
  qEvents, qRequests, qIdLists,                      \* of EventRequests
  xExports, xEvents, xLastSecond,                    \* of EvidenceExport
  pEvents, pDates, pQueries, pPageSizes, pPerPage, pWrites,   \* of EventPages
  sEvents, sCameras, sKinds, sClasses, sStarts, sRequests,    \* of EventStatistics
  sHours, sLastTick,
  fWorkers, fEvents, fMaxFaces, fExpire, fDelay, fLastTick,   \* of FaceSearch
  mCallers, mExpire, mDelay, mLastTick               \* of VmsClient

VARIABLES
  part,
  qMarking, qReq,
  xNow, xMade, xDisk, xExp, xCrashed,
  pStored, pPager, pSteady, pLeft, pJoined, pDone,
  sNow, sEvent,
  fNow, fLast, fCookies, fLock, fW,
  mNow, mToken, mLast, mC

Q == INSTANCE EventRequests WITH Events <- qEvents, Requests <- qRequests,
       IdLists <- qIdLists, marking <- qMarking, req <- qReq

X == INSTANCE EvidenceExport WITH Exports <- xExports, Events <- xEvents,
       LastSecond <- xLastSecond, now <- xNow, made <- xMade, disk <- xDisk, exp <- xExp,
       crashed <- xCrashed

P == INSTANCE EventPages WITH Events <- pEvents, Dates <- pDates, Queries <- pQueries,
       PageSizes <- pPageSizes, DefaultPerPage <- pPerPage, MaxWrites <- pWrites,
       stored <- pStored, pager <- pPager, steady <- pSteady, left <- pLeft,
       joined <- pJoined, writes <- pDone

S == INSTANCE EventStatistics WITH Events <- sEvents, Cameras <- sCameras, Kinds <- sKinds,
       Classes <- sClasses, Starts <- sStarts, Requests <- sRequests, Hours <- sHours,
       LastTick <- sLastTick, now <- sNow, event <- sEvent

F == INSTANCE FaceSearch WITH Workers <- fWorkers, Events <- fEvents, MaxFaces <- fMaxFaces,
       Expire <- fExpire, Delay <- fDelay, LastTick <- fLastTick,
       now <- fNow, lastLogin <- fLast, cookies <- fCookies, loginLock <- fLock, w <- fW

M == INSTANCE VmsClient WITH Callers <- mCallers, Expire <- mExpire, Delay <- mDelay,
       LastTick <- mLastTick, now <- mNow, authtoken <- mToken, lastLogin <- mLast, c <- mC

\* Lists of ids are sequences; times are numbers.
ASSUME RequestsAssumption ==
  /\ qIdLists \subseteq Seq(Q!GivenIds)
  /\ xLastSecond \in Nat
  /\ IsFiniteSet(pEvents) /\ pDates \subseteq Int /\ pQueries # {} /\ pWrites \in Nat
  /\ pPageSizes \subseteq Int /\ pPerPage \in Nat \ {0}
  /\ sHours \in Nat \ {0} /\ sLastTick \in Nat /\ sKinds # {}
  /\ IsFiniteSet(sEvents)
  /\ sKinds \subseteq [type : S!Types, camera : sCameras, classes : Seq(Nat)]
  /\ sClasses \subseteq Nat /\ sStarts \subseteq S!Times
  /\ fEvents \subseteq Seq(BOOLEAN) /\ F!Free \notin fWorkers
  /\ fMaxFaces \in Nat /\ fExpire \in Nat \ {0} /\ fDelay \in Nat
  /\ fLastTick \in Nat /\ fExpire <= fLastTick
  /\ mExpire \in Nat /\ mDelay \in Nat /\ mLastTick \in Nat

-----------------------------------------------------------------------------
(***************************************************************************)
(* Values of the constants.                                                *)
(***************************************************************************)
\* One event, two in either order, one twice, and one that is not stored.
IdLists == {<<>>, <<e1>>, <<e1, e2>>, <<e2, e1>>, <<e1, e1>>, <<e3, e1>>, <<e1, e3>>}

Anything == [start |-> 0, end |-> 0, marking |-> "", hasLabel |-> 0, label |-> "", hasFace |-> 0]
Queries == {[Anything EXCEPT !.start = 2, !.marking = "init", !.hasLabel = 2],
            [Anything EXCEPT !.end = 2, !.label = "plate", !.hasFace = 2]}

Kinds == {[type |-> "niXing", camera |-> "c1", classes |-> <<1, 1, 2>>],
          [type |-> "chuangHongDeng", camera |-> "c2", classes |-> <<1, 0>>],
          [type |-> "daWanXiaoZhuan", camera |-> "c1", classes |-> <<>>]}
Asked == {[camera |-> "", typo |-> "", type |-> ""],
          [camera |-> "c1", typo |-> "vehicle", type |-> ""],
          [camera |-> "", typo |-> "non_motor", type |-> "chuangHongDeng"]}

\* Feature pictures of both snapshots, and of the second alone.
Pictures == {<<TRUE, TRUE>>, <<FALSE, TRUE>>}

\* Nothing tells one export, counted event, worker or caller from another.
Symmetry ==
  Permutations(xExports) \cup Permutations(sEvents) \cup Permutations(fWorkers)
    \cup Permutations(mCallers)

-----------------------------------------------------------------------------
qVars == <<qMarking, qReq>>
xVars == <<xNow, xMade, xDisk, xExp, xCrashed>>
pVars == <<pStored, pPager, pSteady, pLeft, pJoined, pDone>>
sVars == <<sNow, sEvent>>
fVars == <<fNow, fLast, fCookies, fLock, fW>>
mVars == <<mNow, mToken, mLast, mC>>
MCVars == <<part, qVars, xVars, pVars, sVars, fVars, mVars>>

MCInit ==
  /\ part \in {"requests", "export", "pages", "statistics", "faces", "vms"}
  /\ Q!Init /\ X!Init /\ P!Init /\ S!Init /\ F!Init /\ M!Init
  /\ part # "pages" => pStored = [e \in pEvents |-> P!Gone]

MCNext ==
  /\ UNCHANGED part
  /\ \/ part = "requests" /\ Q!Next /\ UNCHANGED <<xVars, pVars, sVars, fVars, mVars>>
     \/ part = "export" /\ X!Next /\ UNCHANGED <<qVars, pVars, sVars, fVars, mVars>>
     \/ part = "pages" /\ P!Next /\ UNCHANGED <<qVars, xVars, sVars, fVars, mVars>>
     \/ part = "statistics" /\ S!Next /\ UNCHANGED <<qVars, xVars, pVars, fVars, mVars>>
     \/ part = "faces" /\ F!Next /\ UNCHANGED <<qVars, xVars, pVars, sVars, mVars>>
     \/ part = "vms" /\ M!Next /\ UNCHANGED <<qVars, xVars, pVars, sVars, fVars>>

MCSpec == MCInit /\ [][MCNext]_MCVars

-----------------------------------------------------------------------------
MCTypeOK ==
  /\ part = "requests" => Q!TypeOK
  /\ part = "export" => X!TypeOK
  /\ part = "pages" => P!TypeOK
  /\ part = "statistics" => S!TypeOK
  /\ part = "faces" => F!TypeOK
  /\ part = "vms" => M!TypeOK

\* What the answers to requests for marks and deletions say is so (event.go:144, 634).
MarksAreAnswered == part = "requests" => Q!MarksAreAnswered

\* An export of a second of its own has its events, each with all its evidence, and no
\* others (export event.go:37, 152).
ExportIsOwn == part = "export" => X!ExportIsOwn

\* Exports that are over have left nothing on the disk (event.go:571).
NothingLeftBehind == part = "export" => X!NothingLeftBehind

\* The pages together miss no more than has moved while they were read (dao event.go:86).
PagesMissOnlyWhatMoved == part = "pages" => P!PagesMissOnlyWhatMoved

\* The hours of a day and the days of any range count the same events, but for those stored
\* after the range (event.go:187, 248-253, dao event.go:46-49, 123).
HoursAndDaysAgree == part = "statistics" => S!HoursAndDaysAgree

\* Days that are over gain no event (dao event.go:123, 149, 199, 242).
PastDaysOnlyShrink == S!PastDaysOnlyShrink

\* The persons of an event belong to its pictures (face_search.go:44, util/dashboard.go:55-111).
FacesMatchSnapshots == part = "faces" => F!FacesMatchSnapshots

\* Only a fault, or a login read while it was stored, makes a request to the face or the
\* video service fail (yitu.go:48-84, vms.go:46-87).
FailsOnlyOnFault ==
  /\ part = "faces" => F!FailsOnlyOnFault
  /\ part = "vms" => M!RefusedOnlyOnFault

\* The face service gets one login for each expiry of its session (yitu.go:50-76).
OneLoginPerExpiry == F!OneLoginPerExpiry
=============================================================================
