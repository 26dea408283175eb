----------------------------- MODULE StreamWorker ----------------------------
(***************************************************************************)
(* One run of VasWorker.Do over a stream, with the handlers it calls for   *)
(* each frame and the goroutine pools that upload what they report.        *)
(*                                                                         *)
(*   biz/analyzer/worker.go               Do, initHandler, releaseHandler  *)
(*   biz/analyzer/handler/vehicle.go      Handle, saveMsg, init, Release   *)
(*   biz/analyzer/handler/waimai.go       the same, and getEventTypes      *)
(*   biz/analyzer/handler/construction.go the same                         *)
(*   violations/nonmotor/zhanrenxingdao.go                                 *)
(*                                        Handle, backgroundWork, Release  *)
(*                                                                         *)
(* Handle sends every event of a frame to the handler's uploadCh and waits *)
(* until it is in. The pool of the handler has a context derived from the  *)
(* task's: it stops when the task is cancelled, not when Do has returned.  *)
(* An event is not told from another one; goroutines of a pool are counted.*)
(* The violation handlers of waimai.go run beside each other, and that of  *)
(* the sidewalk may wait for its background scan (SidewalkViolation says   *)
(* which events the two exchange). The others always come back.            *)
(***************************************************************************)
EXTENDS Integers

CONSTANTS
  Handlers,           \* those this configuration may have
  Cap,                \* capacity of each uploadCh (10, 20, 20)
  PoolSize,           \* uploading goroutines per handler (10)
  VehicleKinds,       \* violation handlers of vehicle.go (5)
  RedLights,          \* bound: events of a frame for chuanghongdeng and nixing of waimai.go
  EventTypes,         \* what getEventTypes returns, counted: 1 or 2
  ConstructionKinds,  \* those of construction.go (2)
  SaveCap,            \* capacity of saveCh (10)
  Due,                \* bound: expired events a scan finds
  Limit               \* StreamInferenceRetryLimit

ASSUME WorkerAssumption ==
  /\ Handlers \subseteq {"vehicle", "waimai", "construction"}
  /\ Cap \in [Handlers -> Nat] /\ PoolSize \in Nat \ {0}
  /\ VehicleKinds \in Nat /\ RedLights \in Nat /\ ConstructionKinds \in Nat
  /\ EventTypes \in {1, 2} /\ Limit \in Nat /\ SaveCap \in Nat /\ Due \in Nat

VARIABLES
  do,          \* where Do is
  retry,       \* inferenceRetryLimit
  handlerMap,  \* the handlers in use
  todo,        \* the handlers the current frame still goes to
  sending,     \* the handler whose Handle runs, and the events it has to send
  uploadCh,    \* how many events are in each channel
  pool,        \* how many goroutines of each pool wait, and upload
  cancelled,   \* the task's context is done
  sidewalk     \* its Handle, its scan, what that still has to send, and the length of saveCh

vars == <<do, retry, handlerMap, todo, sending, uploadCh, pool, cancelled, sidewalk>>

Nobody == [waits |-> 0, busy |-> 0]

TypeOK ==
  /\ do \in {"create", "request", "check", "infer", "frame", "send", "release", "net",
             "returned", "crashed"}
  /\ retry \in 0..Limit
  /\ handlerMap \in SUBSET Handlers /\ todo \in SUBSET handlerMap
  /\ sending \in [to : Handlers, n : Nat] \cup {[to |-> "none", n |-> 0]}
  /\ \A h \in Handlers : /\ uploadCh[h] \in 0..Cap[h]
                         /\ pool[h].waits \in Nat /\ pool[h].busy \in Nat
                         /\ pool[h].waits + pool[h].busy <= PoolSize
  /\ cancelled \in BOOLEAN
  /\ sidewalk \in [handle : {"idle", "lock", "receive"},
                   scan : {"none", "wait", "sends", "ended"},
                   due : 0..Due, saveCh : 0..SaveCap]

NoSend == [to |-> "none", n |-> 0]

Init ==
  /\ do = "create" /\ retry = 0
  /\ handlerMap = {} /\ todo = {} /\ sending = NoSend
  /\ uploadCh = [h \in Handlers |-> 0] /\ pool = [h \in Handlers |-> Nobody]
  /\ cancelled = FALSE
  /\ sidewalk = [handle |-> "idle", scan |-> "none", due |-> 0, saveCh |-> 0]

-----------------------------------------------------------------------------
\* NewLib and Create; nothing has to be given back when they fail.
Create(ok) ==
  /\ do = "create"
  /\ do' = IF ok THEN "request" ELSE "returned"
  /\ UNCHANGED <<retry, handlerMap, todo, sending, uploadCh, pool, cancelled, sidewalk>>

RequestFails ==
  /\ do = "request" /\ do' = "net"
  /\ UNCHANGED <<retry, handlerMap, todo, sending, uploadCh, pool, cancelled, sidewalk>>

\* initHandler makes the handlers S that are configured; when one of them cannot be
\* made it and the later ones are missing, and Do goes on with the others.
InitHandler(S) ==
  /\ do = "request" /\ do' = "check"
  /\ handlerMap' = S
  /\ pool' = [h \in Handlers |-> IF h \in S THEN [waits |-> PoolSize, busy |-> 0] ELSE Nobody]
  /\ retry' = Limit
  /\ sidewalk' = [sidewalk EXCEPT !.scan = IF "waimai" \in S THEN "wait" ELSE "none"]
  /\ UNCHANGED <<todo, sending, uploadCh, cancelled>>

\* The hours of a construction site are wrong: making its handler ends the process, or
\* gives nil, which the first frame that shows work calls (ConstructionAlarm).
ConstructionPanics ==
  /\ \/ do = "request" /\ "construction" \in Handlers
     \/ do = "frame" /\ "construction" \in todo
  /\ do' = "crashed"
  /\ UNCHANGED <<retry, handlerMap, todo, sending, uploadCh, pool, cancelled, sidewalk>>

\* Mutant: the context is not looked at.
CheckNothing ==
  /\ do = "check" /\ do' = "infer"
  /\ UNCHANGED <<retry, handlerMap, todo, sending, uploadCh, pool, cancelled, sidewalk>>

Check ==
  /\ do = "check"
  /\ do' = IF cancelled THEN "release" ELSE "infer"
  /\ UNCHANGED <<retry, handlerMap, todo, sending, uploadCh, pool, cancelled, sidewalk>>

\* FrameInference fails: reset the stream, sleep and try again, or give up.
InferFails ==
  /\ do = "infer"
  /\ IF retry <= 0 THEN do' = "release" /\ retry' = retry
     ELSE do' = "check" /\ retry' = retry - 1
  /\ UNCHANGED <<handlerMap, todo, sending, uploadCh, pool, cancelled, sidewalk>>

\* A result, for the handlers S: none when it is empty or does not parse.
InferYields(S) ==
  /\ do = "infer" /\ retry' = Limit
  /\ do' = IF S = {} THEN "check" ELSE "frame"
  /\ todo' = S
  /\ UNCHANGED <<handlerMap, sending, uploadCh, pool, cancelled, sidewalk>>

(***************************************************************************)
(* How many events one Handle may report. Without a picture vehicle.go and *)
(* construction.go skip the frame; in waimai.go the handlers still run,    *)
(* and that of the sidewalk passes on what its scan has sent.              *)
(***************************************************************************)
VehicleEvents(picture) == IF picture THEN 0..VehicleKinds ELSE {0}
WaimaiEvents(picture) == {EventTypes * k : k \in 0..(IF picture THEN RedLights ELSE 0)}
ConstructionEvents(picture) == IF picture THEN 0..ConstructionKinds ELSE {0}

Events(h, picture) ==
  CASE h = "vehicle" -> VehicleEvents(picture)
    [] h = "waimai" -> WaimaiEvents(picture)
    [] h = "construction" -> ConstructionEvents(picture)

Sidewalk(h, picture) ==
  IF h # "waimai" THEN sidewalk.handle ELSE IF picture THEN "lock" ELSE "receive"

Handle(h, picture) ==
  /\ do = "frame" /\ h \in todo
  /\ \E n \in Events(h, picture) : sending' = [to |-> h, n |-> n]
  /\ sidewalk' = [sidewalk EXCEPT !.handle = Sidewalk(h, picture)]
  /\ todo' = todo \ {h}
  /\ do' = "send"
  /\ UNCHANGED <<retry, handlerMap, uploadCh, pool, cancelled>>

\* The result for it does not parse: Handle returns an error, which Do logs.
HandleRefuses(h) ==
  /\ do = "frame" /\ h \in todo
  /\ todo' = todo \ {h}
  /\ do' = IF todo' = {} THEN "check" ELSE "frame"
  /\ UNCHANGED <<retry, handlerMap, sending, uploadCh, pool, cancelled, sidewalk>>

\* The sidewalk's Handle gets its lock when no scan holds it, and then takes an event out
\* of saveCh, if there is one.
SidewalkLocks ==
  /\ sidewalk.handle = "lock" /\ sidewalk.scan # "sends"
  /\ sidewalk' = [sidewalk EXCEPT !.handle = "receive"]
  /\ UNCHANGED <<do, retry, handlerMap, todo, sending, uploadCh, pool, cancelled>>

SidewalkReceives ==
  /\ sidewalk.handle = "receive"
  /\ IF sidewalk.saveCh = 0
     THEN sidewalk' = [sidewalk EXCEPT !.handle = "idle"] /\ UNCHANGED sending
     ELSE /\ sidewalk' = [sidewalk EXCEPT !.handle = "idle", !.saveCh = @ - 1]
          /\ sending' = [sending EXCEPT !.n = @ + EventTypes]
  /\ UNCHANGED <<do, retry, handlerMap, todo, uploadCh, pool, cancelled>>

SaveMsg ==
  /\ do = "send" /\ sending.n > 0
  /\ uploadCh[sending.to] < Cap[sending.to]
  /\ uploadCh' = [uploadCh EXCEPT ![sending.to] = @ + 1]
  /\ sending' = [sending EXCEPT !.n = @ - 1]
  /\ UNCHANGED <<do, retry, handlerMap, todo, pool, cancelled, sidewalk>>

HandleReturns ==
  /\ do = "send" /\ sending.n = 0 /\ sidewalk.handle = "idle"
  /\ sending' = NoSend
  /\ do' = IF todo = {} THEN "check" ELSE "frame"
  /\ UNCHANGED <<retry, handlerMap, todo, uploadCh, pool, cancelled, sidewalk>>

\* The deferred calls: releaseHandler, then NetRelease.
ReleaseHandler ==
  /\ do = "release" /\ do' = "net"
  /\ handlerMap' = {}
  /\ UNCHANGED <<retry, todo, sending, uploadCh, pool, cancelled, sidewalk>>

NetRelease ==
  /\ do = "net" /\ do' = "returned"
  /\ UNCHANGED <<retry, handlerMap, todo, sending, uploadCh, pool, cancelled, sidewalk>>

\* The task was stopped, or its KeepAlive failed.
Cancel ==
  /\ do # "crashed" /\ ~cancelled /\ cancelled' = TRUE
  /\ UNCHANGED <<do, retry, handlerMap, todo, sending, uploadCh, pool, sidewalk>>

-----------------------------------------------------------------------------
\* The sidewalk's scan: after its timeout it takes the read lock, sends what has expired
\* under it, and lets go of it. The removal that follows is in SidewalkViolation.
Closed == do \in {"net", "returned"}

ScanStarts(n) ==
  /\ do # "crashed" /\ sidewalk.scan = "wait"
  /\ sidewalk' = [sidewalk EXCEPT !.scan = "sends", !.due = n]
  /\ UNCHANGED <<do, retry, handlerMap, todo, sending, uploadCh, pool, cancelled>>

\* Mutant: it does not wait for room.
ScanSendsOrDrops ==
  /\ do # "crashed" /\ sidewalk.scan = "sends" /\ sidewalk.due > 0 /\ ~Closed
  /\ sidewalk' = [sidewalk EXCEPT !.due = @ - 1,
                                   !.saveCh = IF @ < SaveCap THEN @ + 1 ELSE @]
  /\ UNCHANGED <<do, retry, handlerMap, todo, sending, uploadCh, pool, cancelled>>

ScanSends ==
  /\ do # "crashed" /\ sidewalk.scan = "sends" /\ sidewalk.due > 0 /\ ~Closed
  /\ sidewalk.saveCh < SaveCap
  /\ sidewalk' = [sidewalk EXCEPT !.due = @ - 1, !.saveCh = @ + 1]
  /\ UNCHANGED <<do, retry, handlerMap, todo, sending, uploadCh, pool, cancelled>>

\* Release has closed saveCh: the send panics, and the process ends.
ScanPanics ==
  /\ sidewalk.scan = "sends" /\ sidewalk.due > 0 /\ Closed
  /\ do' = "crashed"
  /\ UNCHANGED <<retry, handlerMap, todo, sending, uploadCh, pool, cancelled, sidewalk>>

ScanEnds ==
  /\ do # "crashed" /\ sidewalk.scan = "sends" /\ sidewalk.due = 0
  /\ sidewalk' = [sidewalk EXCEPT !.scan = "wait"]
  /\ UNCHANGED <<do, retry, handlerMap, todo, sending, uploadCh, pool, cancelled>>

\* Its context, derived from the task's and cancelled by Release, is done.
ScanStops ==
  /\ do # "crashed" /\ sidewalk.scan = "wait"
  /\ cancelled \/ Closed
  /\ sidewalk' = [sidewalk EXCEPT !.scan = "ended"]
  /\ UNCHANGED <<do, retry, handlerMap, todo, sending, uploadCh, pool, cancelled>>

ScanGoesOn == ScanSends \/ ScanPanics \/ ScanEnds
Scan == ScanGoesOn \/ ScanStops \/ \E n \in 1..Due : ScanStarts(n)

-----------------------------------------------------------------------------
\* A goroutine of the pool: it takes an event, uploads its pictures and inserts it.
Takes(h) ==
  /\ do # "crashed" /\ pool[h].waits > 0 /\ uploadCh[h] > 0
  /\ uploadCh' = [uploadCh EXCEPT ![h] = @ - 1]
  /\ pool' = [pool EXCEPT ![h] = [waits |-> pool[h].waits - 1, busy |-> pool[h].busy + 1]]
  /\ UNCHANGED <<do, retry, handlerMap, todo, sending, cancelled, sidewalk>>

\* Mutant: a goroutine that could not upload ends.
UploadsOrEnds(h) ==
  /\ do # "crashed" /\ pool[h].busy > 0
  /\ \E n \in {0, 1} :
       pool' = [pool EXCEPT ![h] = [waits |-> pool[h].waits + n, busy |-> pool[h].busy - 1]]
  /\ UNCHANGED <<do, retry, handlerMap, todo, sending, uploadCh, cancelled, sidewalk>>

\* It is done with it, or an upload or the insert failed and the event is dropped.
Uploads(h) ==
  /\ do # "crashed" /\ pool[h].busy > 0
  /\ pool' = [pool EXCEPT ![h] = [waits |-> pool[h].waits + 1, busy |-> pool[h].busy - 1]]
  /\ UNCHANGED <<do, retry, handlerMap, todo, sending, uploadCh, cancelled, sidewalk>>

\* Its context, derived from the task's and cancelled by Release, is done.
Stops(h) ==
  /\ do # "crashed" /\ pool[h].waits > 0
  /\ cancelled \/ Closed
  /\ pool' = [pool EXCEPT ![h].waits = @ - 1]
  /\ UNCHANGED <<do, retry, handlerMap, todo, sending, uploadCh, cancelled, sidewalk>>

Saver(h) == Takes(h) \/ Uploads(h) \/ Stops(h)

VehicleSaver == "vehicle" \in Handlers /\ Saver("vehicle")
WaimaiSaver == "waimai" \in Handlers /\ Saver("waimai")
ConstructionSaver == "construction" \in Handlers /\ Saver("construction")

Frame ==
  \/ Check \/ InferFails \/ SidewalkReceives \/ SaveMsg \/ HandleReturns
  \/ \E S \in SUBSET handlerMap : InferYields(S)
  \/ \E h \in Handlers : HandleRefuses(h) \/ \E b \in BOOLEAN : Handle(h, b)

Do ==
  \/ \E b \in BOOLEAN : Create(b)
  \/ RequestFails
  \/ \E S \in SUBSET Handlers : InitHandler(S)
  \/ Frame \/ ConstructionPanics \/ ReleaseHandler \/ NetRelease

Next ==
  \/ Do \/ SidewalkLocks \/ Cancel \/ Scan
  \/ VehicleSaver \/ WaimaiSaver \/ ConstructionSaver

Spec == Init /\ [][Next]_vars

\* Calls to the library, the file server and the database return, and a mutex lets nobody
\* wait for ever. Once the context is done select may take the end whenever it likes.
Fairness ==
  /\ WF_vars(Do) /\ SF_vars(SidewalkLocks) /\ WF_vars(ScanGoesOn)
  /\ \A h \in Handlers : WF_vars(Takes(h) \/ Uploads(h))

FairSpec == Spec /\ Fairness

-----------------------------------------------------------------------------
\* The sidewalk's Handle waits for the lock of a scan that waits for room in saveCh, which
\* only that Handle could make.
Wedged ==
  /\ do = "send" /\ sidewalk.handle = "lock"
  /\ sidewalk.scan = "sends" /\ sidewalk.due > 0 /\ sidewalk.saveCh = SaveCap

\* Handle sends to a channel that is full and that nobody reads any more.
Stuck ==
  /\ do = "send" /\ sending.n > 0 /\ uploadCh[sending.to] = Cap[sending.to]
  /\ pool[sending.to] = Nobody

\* However many events a frame has and however slow the uploads are, Handle returns as
\* long as the task is not cancelled and the sidewalk is not wedged (vehicle.go:361, 367,
\* waimai.go:317, 364).
FrameIsHandled == (do = "send") ~> (do # "send" \/ cancelled \/ Wedged)

\* A cancelled Do returns, or its process ends, unless the pool of a handler that was
\* sending a burst of events to its full channel has stopped before it (vehicle.go:139,
\* 367), or its Handle waits for the sidewalk's for ever (waimai.go:364).
ReturnsUnlessStuck == cancelled ~> (do \in {"returned", "crashed"} \/ Stuck \/ Wedged)

\* There is no way out of these two, not even by cancelling the task: the lease's quota is
\* not given back before the process ends (vehicle.go:139, zhanrenxingdao.go:61, 148).
HangsForGood == [][(Stuck => Stuck') /\ (Wedged => Wedged')]_vars
=============================================================================
