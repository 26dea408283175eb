-------------------------- MODULE StreamWorkerProofs --------------------------
(***************************************************************************)
(* What the run StreamWorker checks, for any handlers, sizes and tasks.    *)
(* First the types of Do, its channels and its pools; then that the        *)
(* inference library is only called with a live context, and makes one     *)
(* context at a time.                                                      *)
(***************************************************************************)
EXTENDS MCStreamWorker, TLAPS

(***************************************************************************)
(* Do and the pools. A frame goes to handlers in use: those it still goes  *)
(* to are left over from no earlier frame, so that replacing the handlers  *)
(* in use leaves none behind.                                              *)
(***************************************************************************)
DoInv ==
  /\ do \in {"create", "request", "check", "infer", "frame", "send", "release", "net",
             "returned", "crashed"}
  /\ retry \in 0..Limit
  /\ handlerMap \in SUBSET Handlers /\ todo \in SUBSET handlerMap
  /\ todo # {} => do \in {"frame", "send", "crashed"}
  /\ sending \in [to : Handlers, n : Nat] \cup {NoSend}
  /\ cancelled \in BOOLEAN

ChannelsInv == uploadCh \in [Handlers -> Nat] /\ \A h \in Handlers : uploadCh[h] <= Cap[h]

PoolsInv ==
  /\ pool \in [Handlers -> [waits : Nat, busy : Nat]]
  /\ \A h \in Handlers : pool[h].waits + pool[h].busy <= PoolSize

\* The sidewalk's Handle runs within that of a frame.
SidewalkInv ==
  /\ sidewalk \in [handle : {"idle", "lock", "receive"},
                   scan : {"none", "wait", "sends", "ended"},
                   due : 0..Due, saveCh : 0..SaveCap]
  /\ sidewalk.handle # "idle" => do = "send" /\ sending \in [to : Handlers, n : Nat]

WorkerInv == DoInv /\ ChannelsInv /\ PoolsInv /\ SidewalkInv

LEMMA WorkerTypes == WorkerInv => TypeOK
  BY WorkerAssumption DEF WorkerInv, DoInv, ChannelsInv, PoolsInv, SidewalkInv, TypeOK, NoSend

LEMMA WorkerInvInit == Init => WorkerInv
<1> SUFFICES ASSUME Init PROVE WorkerInv
  OBVIOUS
<1>1. 0 \in 0..Limit
  BY WorkerAssumption
<1>2. DoInv
  BY <1>1 DEF Init, DoInv
<1>3. ChannelsInv
  BY WorkerAssumption DEF Init, ChannelsInv
<1>4. PoolsInv
  BY WorkerAssumption DEF Init, PoolsInv, Nobody
<1>5. SidewalkInv
  BY WorkerAssumption DEF Init, SidewalkInv
<1> QED
  BY <1>2, <1>3, <1>4, <1>5 DEF WorkerInv

\* However many events a frame has, it is a number of them.
LEMMA EventsAreCounted ==
  ASSUME NEW h, NEW picture \in BOOLEAN, h \in {"vehicle", "waimai", "construction"}
  PROVE  Events(h, picture) \subseteq Nat
<1>1. VehicleEvents(picture) \subseteq Nat /\ ConstructionEvents(picture) \subseteq Nat
  BY WorkerAssumption DEF VehicleEvents, ConstructionEvents
<1>2. WaimaiEvents(picture) \subseteq Nat
  <2>1. \A k \in 0..(IF picture THEN RedLights ELSE 0) : 1 * k \in Nat /\ 2 * k \in Nat
    BY WorkerAssumption
  <2> QED
    BY <2>1, WorkerAssumption DEF WaimaiEvents
<1> HIDE DEF VehicleEvents, WaimaiEvents, ConstructionEvents
<1>3. CASE h = "vehicle"
  <2>1. Events(h, picture) = VehicleEvents(picture)
    BY <1>3, Zenon DEF Events
  <2> QED
    BY <1>1, <2>1
<1>4. CASE h = "waimai"
  <2>1. h # "vehicle"
    BY <1>4
  <2>2. Events(h, picture) = WaimaiEvents(picture)
    BY <1>4, <2>1, Zenon DEF Events
  <2> QED
    BY <1>2, <2>2
<1>5. CASE h = "construction"
  <2>1. h # "vehicle" /\ h # "waimai"
    BY <1>5
  <2>2. Events(h, picture) = ConstructionEvents(picture)
    BY <1>5, <2>1, Zenon DEF Events
  <2> QED
    BY <1>1, <2>2
<1> QED
  BY <1>3, <1>4, <1>5

LEMMA WorkerInvStep == WorkerInv /\ [Next]_vars => WorkerInv'
<1> SUFFICES ASSUME WorkerInv, [Next]_vars PROVE WorkerInv'
  OBVIOUS
<1> USE WorkerAssumption DEF WorkerInv
<1>1. CASE UNCHANGED vars
  BY <1>1 DEF vars, DoInv, ChannelsInv, PoolsInv, SidewalkInv
<1>2. ASSUME NEW ok \in BOOLEAN, Create(ok) PROVE WorkerInv'
  BY <1>2 DEF Create, DoInv, ChannelsInv, PoolsInv, SidewalkInv
<1>3. CASE RequestFails
  BY <1>3 DEF RequestFails, DoInv, ChannelsInv, PoolsInv, SidewalkInv
<1>4. ASSUME NEW S \in SUBSET Handlers, InitHandler(S) PROVE WorkerInv'
  BY <1>4 DEF InitHandler, DoInv, ChannelsInv, PoolsInv, SidewalkInv, Nobody
<1>17. CASE ConstructionPanics
  BY <1>17 DEF ConstructionPanics, DoInv, ChannelsInv, PoolsInv, SidewalkInv
<1>5. CASE Check
  BY <1>5 DEF Check, DoInv, ChannelsInv, PoolsInv, SidewalkInv
<1>6. CASE InferFails
  BY <1>6 DEF InferFails, DoInv, ChannelsInv, PoolsInv, SidewalkInv
<1>7. ASSUME NEW S \in SUBSET handlerMap, InferYields(S) PROVE WorkerInv'
  <2>1. Limit \in 0..Limit
    OBVIOUS
  <2>2. /\ UNCHANGED <<handlerMap, sending, uploadCh, pool, cancelled, sidewalk>>
        /\ retry' = Limit /\ todo' = S
        /\ do = "infer"
    BY <1>7 DEF InferYields
  <2>3. CASE S = {}
    <3>1. do' = "check"
      BY <1>7, <2>3 DEF InferYields
    <3> QED
      BY <2>1, <2>2, <2>3, <3>1 DEF DoInv, ChannelsInv, PoolsInv, SidewalkInv
  <2>4. CASE S # {}
    <3>1. do' = "frame"
      BY <1>7, <2>4 DEF InferYields
    <3> QED
      BY <2>1, <2>2, <2>4, <3>1 DEF DoInv, ChannelsInv, PoolsInv, SidewalkInv
  <2> QED
    BY <2>3, <2>4
<1>8. ASSUME NEW h \in Handlers, NEW b \in BOOLEAN, Handle(h, b) PROVE WorkerInv'
  <2>1. PICK n \in Events(h, b) : sending' = [to |-> h, n |-> n]
    BY <1>8 DEF Handle
  <2>2. n \in Nat
    BY <2>1, EventsAreCounted
  <2>3. DoInv' /\ ChannelsInv' /\ PoolsInv'
    BY <1>8, <2>1, <2>2 DEF Handle, DoInv, ChannelsInv, PoolsInv
  <2>4. Sidewalk(h, b) \in {"idle", "lock", "receive"}
    BY DEF Sidewalk, SidewalkInv
  <2>5. SidewalkInv'
    BY <1>8, <2>1, <2>2, <2>4 DEF Handle, SidewalkInv
  <2> QED
    BY <2>3, <2>5
<1>9. CASE SaveMsg
  <2>1. sending \in [to : Handlers, n : Nat]
    BY <1>9 DEF SaveMsg, DoInv, NoSend
  <2> QED
    BY <1>9, <2>1 DEF SaveMsg, DoInv, ChannelsInv, PoolsInv, SidewalkInv
<1>18. ASSUME NEW h \in Handlers, HandleRefuses(h) PROVE WorkerInv'
  <2>1. CASE todo' = {}
    BY <1>18, <2>1 DEF HandleRefuses, DoInv, ChannelsInv, PoolsInv, SidewalkInv
  <2>2. CASE todo' # {}
    BY <1>18, <2>2 DEF HandleRefuses, DoInv, ChannelsInv, PoolsInv, SidewalkInv
  <2> QED
    BY <2>1, <2>2
<1>19. CASE SidewalkLocks
  BY <1>19 DEF SidewalkLocks, DoInv, ChannelsInv, PoolsInv, SidewalkInv
<1>20. CASE SidewalkReceives
  <2>1. sending \in [to : Handlers, n : Nat] /\ EventTypes \in Nat /\ do = "send"
    BY <1>20 DEF SidewalkReceives, SidewalkInv
  <2>2. CASE sidewalk.saveCh = 0
    BY <1>20, <2>1, <2>2 DEF SidewalkReceives, DoInv, ChannelsInv, PoolsInv, SidewalkInv
  <2>3. CASE sidewalk.saveCh # 0
    <3>1. sidewalk' = [sidewalk EXCEPT !.handle = "idle", !.saveCh = @ - 1]
      BY <1>20, <2>3 DEF SidewalkReceives
    <3>2. sidewalk.saveCh \in 0..SaveCap
      BY DEF SidewalkInv
    <3>3. sidewalk.saveCh - 1 \in 0..SaveCap
      BY <2>3, <3>2
    <3>4. SidewalkInv'
      BY <3>1, <3>3 DEF SidewalkInv
    <3>5. sending' = [sending EXCEPT !.n = @ + EventTypes]
          /\ UNCHANGED <<do, retry, handlerMap, todo, uploadCh, pool, cancelled>>
      BY <1>20, <2>3 DEF SidewalkReceives
    <3>6. sending' \in [to : Handlers, n : Nat]
      BY <2>1, <3>5
    <3>7. DoInv' /\ ChannelsInv' /\ PoolsInv'
      BY <3>5, <3>6 DEF DoInv, ChannelsInv, PoolsInv
    <3> QED
      BY <3>4, <3>7
  <2> QED
    BY <2>2, <2>3
<1>10. CASE HandleReturns
  BY <1>10 DEF HandleReturns, DoInv, ChannelsInv, PoolsInv, SidewalkInv
<1>11. CASE ReleaseHandler
  BY <1>11 DEF ReleaseHandler, DoInv, ChannelsInv, PoolsInv, SidewalkInv
<1>12. CASE NetRelease
  BY <1>12 DEF NetRelease, DoInv, ChannelsInv, PoolsInv, SidewalkInv
<1>13. CASE Cancel
  BY <1>13 DEF Cancel, DoInv, ChannelsInv, PoolsInv, SidewalkInv
<1>14. ASSUME NEW h \in Handlers, Takes(h) PROVE WorkerInv'
  BY <1>14 DEF Takes, DoInv, ChannelsInv, PoolsInv, SidewalkInv
<1>15. ASSUME NEW h \in Handlers, Uploads(h) PROVE WorkerInv'
  BY <1>15 DEF Uploads, DoInv, ChannelsInv, PoolsInv, SidewalkInv
<1>16. ASSUME NEW h \in Handlers, Stops(h) PROVE WorkerInv'
  BY <1>16 DEF Stops, DoInv, ChannelsInv, PoolsInv, SidewalkInv
<1>21. ASSUME NEW n \in 1..Due, ScanStarts(n) PROVE WorkerInv'
  <2>1. n \in 0..Due
    OBVIOUS
  <2>2. SidewalkInv'
    BY <1>21, <2>1 DEF ScanStarts, SidewalkInv
  <2> QED
    BY <1>21, <2>2 DEF ScanStarts, DoInv, ChannelsInv, PoolsInv
<1>22. CASE ScanSends
  <2>1. sidewalk' = [sidewalk EXCEPT !.due = @ - 1, !.saveCh = @ + 1]
        /\ UNCHANGED <<do, retry, handlerMap, todo, sending, uploadCh, pool, cancelled>>
    BY <1>22 DEF ScanSends
  <2>2. sidewalk.due \in 0..Due /\ sidewalk.saveCh \in 0..SaveCap
    BY DEF SidewalkInv
  <2>3. sidewalk.due - 1 \in 0..Due /\ sidewalk.saveCh + 1 \in 0..SaveCap
    BY <1>22, <2>2 DEF ScanSends
  <2>4. SidewalkInv'
    BY <2>1, <2>3 DEF SidewalkInv
  <2> QED
    BY <2>1, <2>4 DEF DoInv, ChannelsInv, PoolsInv
<1>23. CASE ScanPanics
  BY <1>23 DEF ScanPanics, Closed, DoInv, ChannelsInv, PoolsInv, SidewalkInv
<1>24. CASE ScanEnds
  BY <1>24 DEF ScanEnds, DoInv, ChannelsInv, PoolsInv, SidewalkInv
<1>25. CASE ScanStops
  BY <1>25 DEF ScanStops, DoInv, ChannelsInv, PoolsInv, SidewalkInv
<1> QED
  BY <1>1, <1>2, <1>3, <1>4, <1>5, <1>6, <1>7, <1>8, <1>9, <1>10, <1>11, <1>12, <1>13,
     <1>14, <1>15, <1>16, <1>17, <1>18, <1>19, <1>20, <1>21, <1>22, <1>23, <1>24, <1>25
     DEF Next, Do, Frame, Scan, ScanGoesOn, VehicleSaver, WaimaiSaver, ConstructionSaver, Saver

\* The worker keeps its type: the retries stay within their limit, the channels within
\* their capacity and the pools within their size, and a frame only goes to handlers in
\* use, for any handlers, limits and sizes (worker.go:139, vehicle.go:139, 361).
THEOREM WorkerTypeCorrect == MCSpec => []TypeOK
<1>1. MCInit => WorkerInv
  BY WorkerInvInit DEF MCInit
<1>2. WorkerInv /\ [MCNext]_MCVars => WorkerInv'
  <2>1. [MCNext]_MCVars => [Next]_vars
    BY DEF MCNext, MCVars
  <2> QED
    BY <2>1, WorkerInvStep
<1> QED
  BY <1>1, <1>2, WorkerTypes, PTL DEF MCSpec

\* A Handle that sends to a channel nobody reads, or waits for the lock of a scan that waits
\* for room in saveCh, never comes back, and cancelling the task does not change that, for
\* any handlers, capacities and pools (vehicle.go:139, zhanrenxingdao.go:61, 148).
THEOREM NoWayOut == MCSpec => HangsForGood
<1>1. MCInit => WorkerInv
  BY WorkerInvInit DEF MCInit
<1>2. [MCNext]_MCVars => [Next]_vars
  BY DEF MCNext, MCVars
<1>3. WorkerInv /\ [Next]_vars => WorkerInv'
  BY WorkerInvStep
<1>4. WorkerInv /\ [Next]_vars => [(Stuck => Stuck') /\ (Wedged => Wedged')]_vars
  <2> SUFFICES ASSUME WorkerInv, Next PROVE (Stuck => Stuck') /\ (Wedged => Wedged')
    OBVIOUS
  <2> USE WorkerAssumption
  <2>1. ASSUME Stuck PROVE Stuck'
    <3> USE <2>1 DEF Stuck
    <3>1. sending \in [to : Handlers, n : Nat]
      BY DEF WorkerInv, DoInv, NoSend
    <3>2. CASE Do
      <4>1. SidewalkReceives
        BY <3>1, <3>2 DEF Do, Frame, Create, RequestFails, InitHandler, Check, InferFails,
             SaveMsg, HandleReturns, InferYields, HandleRefuses, Handle, ConstructionPanics,
             ReleaseHandler, NetRelease
      <4> QED
        BY <3>1, <4>1 DEF SidewalkReceives
    <3>3. CASE SidewalkLocks \/ Cancel
      BY <3>3 DEF SidewalkLocks, Cancel
    <3>4. CASE Scan
      BY <3>4 DEF Scan, ScanGoesOn, ScanStarts, ScanSends, ScanPanics, ScanEnds, ScanStops,
           Closed
    <3>5. ASSUME NEW h \in Handlers, Saver(h) PROVE Stuck'
      <4>1. h # sending.to
        BY <3>5 DEF Saver, Takes, Uploads, Stops, Nobody
      <4> QED
        BY <3>1, <3>5, <4>1
          DEF Saver, Takes, Uploads, Stops, Nobody, WorkerInv, ChannelsInv, PoolsInv
    <3> QED
      BY <3>2, <3>3, <3>4, <3>5 DEF Next, VehicleSaver, WaimaiSaver, ConstructionSaver
  <2>2. ASSUME Wedged PROVE Wedged'
    <3> USE <2>2 DEF Wedged
    <3>1. CASE Do
      <4>1. SaveMsg
        BY <3>1 DEF Do, Frame, Create, RequestFails, InitHandler, Check, InferFails,
             SidewalkReceives, HandleReturns, InferYields, HandleRefuses, Handle,
             ConstructionPanics, ReleaseHandler, NetRelease
      <4> QED
        BY <4>1 DEF SaveMsg
    <3>2. CASE SidewalkLocks \/ Cancel
      BY <3>2 DEF SidewalkLocks, Cancel
    <3>3. CASE Scan
      BY <3>3 DEF Scan, ScanGoesOn, ScanStarts, ScanSends, ScanPanics, ScanEnds, ScanStops,
           Closed
    <3>4. ASSUME NEW h \in Handlers, Saver(h) PROVE Wedged'
      BY <3>4 DEF Saver, Takes, Uploads, Stops
    <3> QED
      BY <3>1, <3>2, <3>3, <3>4 DEF Next, VehicleSaver, WaimaiSaver, ConstructionSaver
  <2> QED
    BY <2>1, <2>2
<1> QED
  BY <1>1, <1>2, <1>3, <1>4, PTL DEF MCSpec, HangsForGood

-----------------------------------------------------------------------------
(***************************************************************************)
(* The instances of the library.                                           *)
(***************************************************************************)
\* Who is in L!Create holds the lock, and the goroutine that makes a context has a task
\* that waits for it in there.
Locked(t) ==
  /\ caller[t].at = "creates" => libMux = {t}
  /\ thread[t] = "create" => caller[t].at = "creates"

\* Where the goroutine is tells where the task is, and the other way round.
InStep(t) ==
  /\ caller[t].at = "start" => thread[t] = L!None
  /\ thread[t] = L!None => caller[t].at = "start"
  /\ caller[t].at = "creates" => thread[t] \in {"create", "range"}
  /\ caller[t].at \in {"ready", "calls"} => thread[t] = "range"
  /\ thread[t] \in {"run", "done"} => caller[t].at = "waits"
  /\ t \in closed => caller[t].at = "returned"

\* A task that may still call has a live context; the answer to netRelease is the last.
Live(t) ==
  /\ caller[t].at \in {"ready", "calls"} => ctx[t] = "live"
  /\ thread[t] = "run" => ctx[t] = "live"
  /\ thread[t] = "done" /\ caller[t].call # "netRelease" => ctx[t] = "live"

LibInv == L!TypeOK /\ \A t \in Tasks : Locked(t) /\ InStep(t) /\ Live(t)

LEMMA LibInvInit == L!Init => LibInv
  BY DEF L!Init, LibInv, L!TypeOK, Locked, InStep, Live, L!None, L!Calls

\* Every step keeps LibInv: the task that moves by the action, the others by the lock.
LEMMA LibInvStep == LibInv /\ [L!Next]_lVars => LibInv'
<1> SUFFICES ASSUME LibInv, [L!Next]_lVars PROVE LibInv'
  OBVIOUS
<1> USE DEF LibInv, L!TypeOK, Locked, InStep, Live, L!None, L!Calls
<1>1. CASE UNCHANGED lVars
  BY <1>1 DEF lVars
<1>2. ASSUME NEW t \in Tasks, L!Create(t) PROVE LibInv'
  BY <1>2 DEF L!Create, L!Moves, L!Goes
<1>3. ASSUME NEW t \in Tasks, NEW ok \in BOOLEAN, L!Creates(t, ok) PROVE LibInv'
  BY <1>3 DEF L!Creates, L!Goes
<1>4. ASSUME NEW t \in Tasks, L!CreateReturns(t) PROVE LibInv'
  <2>1. thread[t] = "range" /\ libMux' = {} /\ UNCHANGED <<thread, ctx, closed>>
    BY <1>4 DEF L!CreateReturns
  <2>2. \A u \in Tasks \ {t} : caller[u].at # "creates"
    <3>1. libMux = {t}
      BY <1>4 DEF L!CreateReturns
    <3> QED
      BY <3>1
  <2>3. CASE ctx[t] = "live"
    <3>1. caller' = [caller EXCEPT ![t].at = "ready"]
      BY <1>4, <2>3 DEF L!CreateReturns, L!Moves
    <3> QED
      BY <1>4, <2>1, <2>2, <2>3, <3>1 DEF L!CreateReturns
  <2>4. CASE ctx[t] # "live"
    <3>1. caller' = [caller EXCEPT ![t].at = "failed"]
      BY <1>4, <2>4 DEF L!CreateReturns, L!Moves
    <3> QED
      BY <1>4, <2>1, <2>2, <2>4, <3>1 DEF L!CreateReturns
  <2> QED
    BY <2>3, <2>4
<1>5. ASSUME NEW t \in Tasks, NEW call \in L!Calls, L!Calling(t, call) PROVE LibInv'
  BY <1>5 DEF L!Calling
<1>6. ASSUME NEW t \in Tasks, L!Invoke(t) PROVE LibInv'
  BY <1>6 DEF L!Invoke, L!Moves, L!Goes
<1>7. ASSUME NEW t \in Tasks, NEW panics \in BOOLEAN, L!Runs(t, panics) PROVE LibInv'
  BY <1>7 DEF L!Runs, L!Goes
<1>8. ASSUME NEW t \in Tasks, L!Answers(t) PROVE LibInv'
  BY <1>8 DEF L!Answers, L!Moves, L!Goes
<1>9. ASSUME NEW t \in Tasks, L!Close(t) PROVE LibInv'
  BY <1>9 DEF L!Close, L!Moves
<1>10. ASSUME NEW t \in Tasks, L!RangeEnds(t) PROVE LibInv'
  BY <1>10 DEF L!RangeEnds, L!Goes
<1> QED
  BY <1>1, <1>2, <1>3, <1>4, <1>5, <1>6, <1>7, <1>8, <1>9, <1>10 DEF L!Next, L!Proceeds

\* MCSpec starts as the library does, and steps as it does or leaves it alone.
LEMMA LibraryOfSpec == (MCInit => L!Init) /\ ([MCNext]_MCVars => [L!Next]_lVars)
<1>1. MCVars' = MCVars => lVars' = lVars
  BY DEF MCVars
<1> QED
  BY <1>1 DEF MCInit, MCNext

\* The instances keep their type, for any tasks (lib.go:274, 388, 452).
THEOREM InstanceTypeCorrect == MCSpec => []L!TypeOK
<1>1. LibInv => L!TypeOK
  BY DEF LibInv
<1> QED
  BY <1>1, LibraryOfSpec, LibInvInit, LibInvStep, PTL DEF MCSpec

\* The library is called with a context it has made and not released, and makes one at
\* a time, for any number of tasks (lib.go:274, 388, 452).
THEOREM ContextIsLive == MCSpec => []UsesLiveContext
<1>1. LibInv => UsesLiveContext
  <2> SUFFICES ASSUME LibInv PROVE UsesLiveContext
    OBVIOUS
  <2>1. ASSUME NEW t \in Tasks, thread[t] = "run" PROVE ctx[t] = "live"
    BY <2>1 DEF LibInv, Live
  <2>2. ASSUME NEW t \in Tasks, NEW u \in Tasks, thread[t] = "create", thread[u] = "create"
        PROVE t = u
    BY <2>2 DEF LibInv, Locked
  <2> QED
    BY <2>1, <2>2 DEF UsesLiveContext, L!UsesLiveContext
<1> QED
  BY <1>1, LibraryOfSpec, LibInvInit, LibInvStep, PTL DEF MCSpec
=============================================================================
