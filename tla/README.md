# vas-app, modelled in TLA+

`vas-app` watches traffic cameras. A dashboard keeps *tasks* (one video stream
each), analyzer processes gain tasks, run inference on their frames and store
*events* (violations), and deeper processes look up the faces of the people in
the events. The processes share nothing but a MongoDB, a file server and a few
remote services; inside a process goroutines share maps and channels.

This directory holds TLA+ modules translated from the Go code under
`src/vas-app`, TLC configurations that check them on small instances, and
proofs checked by TLAPS. All paths below are relative to `src/vas-app` unless
they start with another directory. `PROJECT.json` lists the runs, for every
definition the lines it models, the hazards and the findings.

## 1. The system

| component | state | operations | talks to |
|---|---|---|---|
| task lease (`biz/analyzer/tasks`) | the `vas_tasks` document (status, version, updatedAt), the copy each process holds, `Consumer.doing` | `Gain`, `Touch`, `Run`, `DoTask`, `KeepAlive` | MongoDB, `Worker.Do` (a context and a return) |
| dashboard tasks API (`biz/dashboard/service/task.go`, `dao/db/task.go`) | the same document | create, edit, delete, start, stop | MongoDB |
| deeper queue (`biz/deeper`) | `vas_event` documents as jobs, `heartbeatMap`, one pool per process | `Consume`/`acquire`, the workers, `crontHeartbeat`, `Finish`, `Stop` | MongoDB, face search |
| stream worker (`biz/analyzer/worker.go`) | retry counter, handlers, the library instance | `Do`, `initHandler`, `releaseHandler` | handlers (calls), inference library |
| vehicle, waimai, construction handlers (`biz/analyzer/handler`) | `uploadCh`, a pool of ten uploaders | `Handle`, `saveMsg`, `init`, `Release` | file server, `vas_event` |
| non-motor handler (`nonmotor.go`) | the map of tracked objects, `saverCh`, ten savers | `Handle`, the background scan, the savers, `Release` | the same |
| violations (`handler/violations`) | per tracked object the evidence so far | `Handle`, the background scan, `Release` | called by the handlers |
| inference instance (`biz/analyzer/inference/lib.go`) | one goroutine locked to a thread, a channel of calls | create, stream request, inference, reset, release | the C library |
| events and marking (`biz/dashboard/service/event.go`) | `vas_event` documents, their marks | pages, statistics, mark, edit, delete, export | MongoDB, VMS client |
| clients (`biz/dashboard/client/vms.go`, `biz/deeper/client/yitu.go`) | a login and its time, shared by all requests of a process | login, requests | remote services |
| face search (`biz/deeper/handler/face_search.go`) | the faces found so far | a detection per picture, a search per face | yitu client |
| evidence export (`biz/export/cmd/event.go`, `util/dashboard.go`, `app/export`) | a directory per export, a hundred workers | export, zip | MongoDB, files |

### What is hard in it, and what makes it correct

* **Lease.** `Gain` is a find followed by a touch; `Touch` is a compare-and-swap
  on `ver` that replaces the *whole* document by the caller's copy; dashboard
  writes put `ver` back to 0; KeepAlive runs beside `Do`, and its answers may be
  lost. Correct means: one process works on a task, a takeover happens only when
  the task was not renewed in time, an abandoned task is regained, and what the
  dashboard wrote is obeyed and not undone.
* **Deeper queue.** A job is taken by findAndModify and kept by heartbeats. The
  heartbeat goroutine and the worker write `Status` of one object without a
  lock; `heartbeatMap` is keyed by job, not by worker; `Stop` looks at the map
  only. Correct means: one worker per job while delays are bounded, the map tells
  who is at work, and every job gets its result.
* **Stream worker and handlers.** Bounded channels between the frame loop and
  pools that end on the *task's* context. Correct means: a frame is always
  handled, a cancelled `Do` returns, the retry limit is what it says.
* **Violations.** Each keeps a map under a lock and a goroutine that lists expired
  entries under the read lock and removes them under the write lock; two of them
  send on a channel meanwhile. Correct means: one report per event, made of
  evidence that belongs together, and nothing that is complete is lost.

* **Inference instance.** Every call is handed to the one thread that made the C
  context. Correct means: no call with a context that was not made or was
  released, every call answered, the thread gone when the task is.
* **Requests of the dashboard.** Lists of events are marked and deleted one by one,
  each mark in a read and a write; exports share directories and removals; pages are
  counted and found in two reads of a list that changes; events are stored after the
  hour or day they belong to. Correct means: the answer says what happened, an export
  holds its own events, the pages miss nothing that stayed where it was, and the
  statistics agree with each other.
* **Clients.** One login serves all requests of a process: the Yitu client renews it
  under a lock that most readers do not take, the VMS client without any. Correct
  means: a login that runs out fails no request, and is renewed once.

The hazards, line by line, are in `PROJECT.json` under `hazards`.

## 2. Modules

| module | models | notes |
|---|---|---|
| `TaskOwnership` | what the lease promises | abstract specification: owners and due tasks |
| `TaskLease` | task lease and dashboard tasks API | implements `TaskOwnership` (`Ownership == INSTANCE ...`) |
| `TaskLeaseProofs` | | proofs |
| `DeeperQueue`, `DeeperQueueProofs` | deeper queue | |
| `StreamWorker`, `StreamWorkerProofs` | `Do` and the three handlers with uploaders | |
| `NonMotorHandler`, `NonMotorProofs` | the fourth handler | |
| `SidewalkViolation`, `SidewalkProofs` | `zhanrenxingdao.go` | a violation that is reported on expiry, through a channel |
| `GridParking`, `GridParkingProofs` | `wanggexiantingche.go` | |
| `VehicleEvidence` | `dawanxiaozhuan.go` and the three types that reuse it | proofs in `PartsProofs` |
| `RedLight` | `chuanghongdeng.go`, `nixing.go` | proofs in `PartsProofs` |
| `ConstructionAlarm` | `chaoshi.go`, `chaoqi.go` | proofs in `PartsProofs` |
| `LibInstance` | inference instance | run beside `StreamWorker` by `MCStreamWorker`; proofs in `StreamWorkerProofs` |
| `EventRequests` | marking and deleting lists of events | proofs of this and the next five in `RequestsProofs` |
| `EvidenceExport` | exports of the dashboard, `ProcessEvents`, `Zip` | |
| `EventPages` | the list of events, page by page, with its writers | |
| `EventStatistics` | insertions, corrections and deletions of events, and the five statistics of them | |
| `FaceSearch` | the workers' search for faces, and the login of the Yitu client | |
| `VmsClient` | the requests that share the token of the VMS client | |
| `MC*` | | instances for TLC; `MCParts` holds the violations from `GridParking` on, `MCRequests` the modules from `EventRequests` on |

How they follow the code:

* **TaskLease.** `doc[t]` is the stored document; `updatedAt` is an age in ticks.
  `gain[p]` is `Run` between the Find and the Touch of `Gain`, with the copy it
  read. A DoTask invocation and its KeepAlive goroutine are one record in
  `lease`, with the copy of the task (`id`, `ver`, `cfg`), where each of the two
  is, and the context they share (`cancelled`). `Touch` is the selector and the
  replacement, with three outcomes: applied, not applied, and applied with the
  answer lost. Each dashboard handler is one action, but start and stop, which
  check and then write (`StatusCheck`, `StatusWrite`). The mongo driver's single
  operations are atomic. Two ghosts, `fresh` and `clean`, say whether the
  dashboard wrote the task since a copy was read.
* **DeeperQueue.** `worker[w]` follows a pool goroutine through `Store`, the
  handlers, `Delete`, and `Finish`, which is split where it shares memory: set
  the status, read it for the update, update. `heart[p]` does the same for
  `Heartbeat`. Two unsynchronised writes of the status string are `BothSet`: the
  outcome is either string, or a mix of the two ("torn"). `beats[p]` is
  `heartbeatMap`.
* **StreamWorker.** `do` is the program counter of `Do`. Events are counted, not
  told apart. `VehicleEvents`, `WaimaiEvents` and `ConstructionEvents` bound what
  one frame makes each handler send; what a violation decides is free here and
  modelled in the modules of the violations. One of them can keep `Handle`: that of the
  sidewalk in `waimai.go:317` takes a lock its background scan may hold. `sidewalk` is
  what that wait depends on: where its Handle is, where the scan is and what it still has
  to send, and how full `saveCh` is (`SidewalkLocks`, `SidewalkReceives`, `Scan`). The
  other handlers of waimai run beside it, so that `Handle` is over when all are. Which
  event is sent, and that an entry is removed after it, is in `SidewalkViolation`.
  `ConstructionPanics` and `ScanPanics` end the process.
* **NonMotorHandler.** The saver gets a shallow copy whose `msgs` map it shares
  with `h.m`; `heap` holds these maps by the number of the value. Writing to a
  map while a saver ranges over it either ends the process (`crashed`, the Go
  runtime's check) or lets the saver see the new entries.
* **SidewalkViolation, GridParking, VehicleEvidence, RedLight.** The two locks of
  the background scan are two steps, and `Handle` can come between them. Time
  read before a lock is waited for is modelled as the code does it in the first
  two (`Wake` before `ScanStarts` in `SidewalkViolation` and `NonMotorHandler`); in
  the others the scan reads the time and lists in one step. In `NonMotorHandler`
  and `SidewalkViolation` a box is dated when the lock is taken: the wait between
  `time.Now()` and the lock is left out.
* **GridParking.** A frame is the set of boxes that are looked at; at most one
  makes a report, since `Handle` returns with it. While the evidence is
  incomplete `EndTime` is the time of the first snapshot, so that one age is
  enough. Whether two boxes are at one place (`checkPos`) is a free choice.
* **ConstructionAlarm.** `New` is the constructor with its tests, and `Broken` a
  handler that was not made; the time of day is `Hour()*100 + Second()`, as the
  code has it.
* **LibInstance.** `caller[t]` is `Do` in a call and `thread[t]` the goroutine of
  the instance. `Invoke` and `Answers` are the two meetings of the unbuffered
  channels; `Runs` may panic and is answered all the same. `Follows` is the order
  in which `Do` calls. In `StreamWorker` each of these calls is one step.
* **EventRequests.** `req[r]` is a request at one of its ids; `GetYields` and `Update`
  are the two operations of a mark. A write may be applied and fail. `Proceed`
  has the two ways in which the loops end: only `DeleteEvents` returns the error
  of its last id.
* **EvidenceExport.** `made` and `disk` are the directories, one for each second;
  a worker makes again the one that another export removed (`os.MkdirAll`).
  `Zip` is two steps, the names and then the files. An event is a directory, two
  merged images and a description; `GiveUp` removes what is short of an image, and
  `MergePanics` is the picture that is none (`getImageObj`), which ends the process.
  The limiter is one of the reasons of `Refused`: it lets two requests through at
  once.
* **RedLight, VehicleEvidence, GridParking.** `Release` closes the channel the scan
  waits at: it ends between two scans, and the frames end with it. In `RedLight` a
  box has its corners and its plate; `Measure` is the measure of the code
  (`isBiggerRect`), and `own`, a ghost, the plate the best picture was taken with.
* **EventPages.** `Count` and `Find` are the two operations of `GetList`; the client
  asks for pages until the last count tells it to stop. A write is any of the five
  that can come in between. Three ghosts say which events stayed where they were
  (`steady`), and how many left the list or came into it.
* **EventStatistics.** An event begins (`Detect`) and is stored later by an analyzer
  (`Insert`), or is sent to the dashboard with any start (`PostEvents`), whose Insert
  keeps that start and dates the event by its own clock. A user corrects the class of the
  first snapshot (`PutEvents`) or deletes the event (`DeleteEvents`), on any day. The
  five answers are operators over what is stored, each with the selection, the
  range and the grouping of its pipeline; that of the cameras does not look at the camera
  of the request (`OfType`). Time runs in hours of short days.
* **FaceSearch.** `w[x]` is a worker of the deeper process at a picture and a face of
  its event, and where it is in `mustLogin` and the request. The slice of cookies
  is written and read without a common lock: a reader beside a writer gets the old
  one, the new one, a torn one that is refused, or crashes. `Faces` is what
  `ProcessNonMotorDeepInfo` shows of the result.
* **VmsClient.** `c[x]` is a request in `reqJson`. The token is a string of two words
  that are read and written without a lock; the list of cameras is two calls, of
  which the first does not look at a refusal.

## 3. Runs

| run | instance | shows |
|---|---|---|
| `TaskLease` | one task, two processes, one of which can have a second lease; any delays, crashes, lost answers | types, one current holder, quota, takeover only when due, and that `TaskLease` implements `TaskOwnership` |
| `TaskLeaseTimed` | two processes, two configurations, delays of one tick, due after two | no two `Do` on one task; a renewal never undoes an edit |
| `TaskLeaseLive` | two processes, two configurations, fair | an abandoned task is regained; a stop, delete or edit takes effect |
| `TaskEditLost` | one process | violated: `Gain`'s late Touch undoes an edit |
| `DeeperQueue` | one job, one process with two workers, fair | the map, the heartbeat and the workers agree; every job gets its result |
| `DeeperTimed` | one job, two processes, three workers, bounded delays | one worker per job; what is handled is renewed |
| `DeeperFinish` | one process with one worker | violated: a Finish stores "doing" |
| `Sidewalk` | three objects, a channel of two | reported once; a cancelled `Do` returns but for the wedge; expired events are reported |
| `StreamWorker` | three handlers, channels of one, one uploader each, a sidewalk channel of one and scans of up to two events | every frame is handled but for the wedge of the sidewalk, a cancelled `Do` returns unless a pool stopped under it or it is wedged, and from these two there is no way out; the library is called with a live context, and a released thread ends |
| `NonMotor` | two objects, one kind of violation, a channel of one, one saver | inserted once; recorded is saved; `Do` returns unless the savers stopped under the scan |
| `Parts` | `MCParts`: four violations | evidence holds together; reports are proven and made once; one alarm an hour, and none passed over; a vehicle that stays is reported |
| `Requests` | `MCRequests`: six kinds of requests | answers to marks and deletions are true; an export has its own events and leaves nothing behind; pages miss only what moved; the hours and days of the statistics agree and past days only shrink; faces match snapshots; a shared login is renewed once and fails nobody by running out |

**Bounds.** The instances have as many actors as a race needs: two processes
race for a task, two workers of one process for a job, and `Lingering` gives one
process an old KeepAlive beside a new lease. `MaxVer` stops successful touches at
version 2 or 3: a task is then taken, renewed, written by the dashboard (back to
0) and taken again by the same and by another process, which is all the
comparison of versions can confuse; `AbandonedIsRegained` excepts the bound by
name. Ages stop one above the limit they are compared with, so no behaviour is
cut off. Channels of one or two are full with the first burst; the code's 10
and 20 only need a longer one. Pools of one or two let every goroutine be busy. The
sidewalk's scan finds up to two events for a channel of one: one that fits and one that
does not.
`MaxGen` bounds how often an object can be seen anew after it was dropped: two
lets an old and a new event of an object be in the system together. In
`NonMotor` the timeout is 0 ticks: an object is expired one tick after it was
seen, and can be seen again before, while and after it is sent. In `Parts`
the parking time is the code's 5 s and the timeout 5 instead of 60 ticks (it must
not be shorter than the parking time); the construction clock has months of two
days of three hours, and `Times` has one configuration for every branch of the
constructor. A bicycle has four pictures to show, among them two of which the
larger one measures less. Two tasks contend for the lock under which instances are
made.

In `Requests`, two requests with lists of up to two ids (an id twice, an id of no
event) meet at every event; two exports in two seconds share one or do not. Three
events on pages of one or two move over every border of a page with two writes. Two
events in two and a half days of two hours begin and are stored on any two of them,
midnights included; what is sent to the dashboard says that it began at the first or at
the last of these hours, long ago or in the future. A deleted event can come again as
another one, so that two are enough for any order of insertions and deletions. Two workers, with events of one or two pictures of up to two
faces, and two requests to the VMS live through an expiry of their login and the
time it takes to renew it; the services keep a session for as long after the
client's limit as a login can take (`Accepted`), which the configuration must grant.

`MCParts` puts four modules into one run, and `MCRequests` six: they share no state
that matters to the other, so a behaviour is about one of them (`part`) and the
others keep their initial state.
`MCStreamWorker` does the same with `StreamWorker` and `LibInstance`.

`CHECK_DEADLOCK FALSE` stands where the system ends: a `Do` that has returned, a
process that crashed, the last hour of the calendar.

**Fairness.** In all specifications the goroutines run (weak fairness of their
steps), time passes, and a `Do` whose context is cancelled looks at it before its
next frame. Strong fairness stands for a `select` that does not pass over a ready
case for ever, for a writer that gets the lock between two scans (Go's RWMutex
keeps new readers back once a writer waits), and for a database that, called
again and again, answers now and then (`GainTouch(p, "ok")`,
`FinishUpdate(w, TRUE)`). In `StreamWorker` the only strong fairness is that of
`SidewalkLocks`, of a mutex nobody waits at for ever; a pool whose context is done
may stop or go on, as its `select` likes, and no fairness is asked of `Stops`. Nothing makes the dashboard act, a camera show an
object, or a process crash; a crashed process is restarted because the
deployment says so (`restart` in `deployment/*/docker-compose`). In `Parts`
a vehicle of `Parked` is seen in every tick once `settled`: that is the
assumption of `ParkedIsReported`, not a claim about cameras.

Every property has a mutant in `PROJECT.json`: a changed definition of the model,
as a plausible mistake in the code would change it, under which TLC finds the
property violated.

## 4. Proofs

All theorems hold for any sets and bounds that meet the named assumptions
(`LeaseAssumption`, `QueueAssumption`, `SidewalkAssumption`, `NonMotorAssumption`,
`PartsAssumption`, `RequestsAssumption`), which TLC evaluates on the instances.

* `TaskLeaseProofs`, in five parts. The first is of types and versions: `TypeCorrect`,
  `LeaseInvariant`, `OneCurrent`, `TakeoverDue`. `AtMostOneCurrent` says that of all
  leases whose copy the dashboard has not outdated at most one has the stored version.
  It is not inductive: a lease behind the store could catch up. `LeaseInv` adds what
  prevents it. `HeldBehindStore`: no held copy is ahead of the store, because a
  version grows in the store first. `DistinctVersions`: two holders of one task
  never have the same version, because a successful Touch makes its version
  larger than all others. `FoundIsDue`: between Find and Touch a found version
  that is still the stored one belongs to a document that is still due, because
  whatever makes it younger changes the version or outdates the copy. The last
  gives `TakeoverDue`: the touch of `Gain` succeeds only on a due task, though
  find and touch are two operations.

  `QuotaIsKept`: no process runs more than its quota, with the finite sets of the
  library. `QuotaKept` counts invocations of Do, the code a number (`doing`). `Counted`
  says that the two are equal at every step of every lease, and `RoomForFound` that a
  process between Find and Touch still has room: only the one goroutine that gains
  raises the number.

  `OneAtATime`: no two Do work on one task, from the assumption `DelaysBounded`: the
  longest time between two touches of a lease and the longest time a cancelled Do needs
  are together not longer than the time after which a task is due. The invariant ties
  ages to delays: while Do works its document is no older than the last renewal
  (`Recent`), so nobody finds it due, and the touch of a `Gain` that found it earlier
  fails, because the version it read has changed since (`LeaseInv`). The delay of `Gain`
  itself needs no bound.

  `EditsAreKept`: no KeepAlive overwrites an edit, from the assumption
  `RenewalsBounded`: neither the time between two touches nor that between Find and
  Touch is longer than the time after which a task is due. Versions alone do not show
  it, since every edit puts them back to 0 and they grow to the same numbers again.
  What does is that all copies of a task which may still be stored have one
  configuration (`CopiesAgree`): an edit makes the task young, only an old task is found
  anew, and until it is old the copies from before the edit are gone (`KeptIsYoung`,
  `FoundIsStored`). A kept copy with the stored version is then a copy of what is stored
  (`RenewsStored`), because the last that gave the document this version had the same
  configuration. Here the delay of `Gain` counts, and the bound is sharp: with one tick
  more and three processes TLC finds an edit undone by a KeepAlive, after a late `Gain`
  has brought an older configuration and with it the version.
  `TaskLeaseTimed` is an instance of both assumptions.

  `Refinement`: `TaskLease` implements `TaskOwnership`, with the owners of a task being
  the leases that can renew it. A successful `GainTouch` is `Acquire`, a successful
  `KeepAliveTouch` is `Renew`, a touch that was applied with its answer lost is `Lose`, a
  dashboard write is `Reset`, a tick is `Expire`, all else stutters. It needs `LeaseInv`.
* `DeeperQueueProofs`: `QueueTypeCorrect`, and `EntriesAreHandled`, that an entry
  of `heartbeatMap` always leads to a worker that handles that job. The entry is
  deleted by job and not by worker, so two workers of a process with one job
  interfere; the invariant holds since `Delete` precedes `Finish` in each of them
  and `Store` overwrites. `ObjectLeads`, about the object the heartbeat goroutine
  holds, is the part that makes it inductive. `OneWorkerPerJob` and `EntryStays` assume
  `QueueDelaysBounded`: the job timeout is longer than `Longest` (twice the time
  between two hands, two rounds of heartbeats) and the longer of the grace period and
  one more hand. `HeldYoung` bounds the age of a job by the delays of its holder so far,
  while it is in the channel, stored, handled and finished; `Pending` tells a job
  that the round is still to renew from one it has passed, which may have been stored
  just after and waits for the next. So `acquire`, which wants old jobs, wants none that
  is held (`HeldIsNotWanted`). `HeldOnce` counts the channels with the workers. The
  bound is sharp: with one tick less `DeeperTimed` fails. `deeper.conf` keeps to
  it (60 s, heartbeats of 3 s, a grace of 20 s); the least timeout the code
  accepts, 5 s (`dao.go:48`), does not, because the heartbeats end with the signal and
  the handlers up to 20 s later.
* `SidewalkProofs`: `EventsReportedOnce`, and the types. An entry is sent to the
  channel under the read lock and deleted later under the write lock; `Handle` may
  see its object in between. `SidewalkInv` adds what makes this safe: every event has
  a number smaller than the next to be given (`Numbered`), what was sent in this scan
  is on the list that will be removed (`SentIsRemoved`), what is still to be sent was
  not sent before (`DueIsUnsent`), and the lists are those of the scan's phase
  (`Phases`).
* `NonMotorProofs`: `EventsInsertedOnce`. `ScanInv` is the argument of `SidewalkInv`,
  for values instead of events. `PoolInv` follows a value from the channel to one saver
  and into `over`: what a saver has left is in the map of its value and not inserted
  yet (`LeftIsNotOver`), and all that was inserted is in the map (`OverIsRecorded`).
  So what Handle writes into a map a saver ranges over is new, and cannot be inserted
  a second time.
* `StreamWorkerProofs`: the types of both modules of the run, and `ContextIsLive`, that
  the library is called with a live context only and makes one at a time.
  `UsesLiveContext` speaks of the thread; `InStep` ties the place of the thread to that
  of the task, `Locked` the creation to `libMux`, and `Live` says who may still call. It
  needs no assumption on `Tasks`. `NoWayOut` proves `HangsForGood`, that `Wedged` and
  `Stuck` do not end: while Do is in a Handle nothing is released, a pool
  without goroutines gets none, and of the scan and the Handle of the sidewalk each
  waits for the other, which leaves every other step of Do for later (`SidewalkInv`).
* `GridParkingProofs`: types; `ReportsAreProven`, for `ReportIsProven`; and
  `ReportedOnceProven`, for `ReportedOncePerStay`. The first needs that the age of
  incomplete evidence is time the vehicle has stood (`StoodSince`), whatever came between
  the snapshots, and that the second snapshot was taken in its window
  (`SecondInWindow`). The second needs `ToldIsKept`: a vehicle that was reported and has
  not gone since still has its report, dated as it was last seen, and no scan has listed
  it; so it is in the way of another report.
* `PartsProofs`: the types and the two invariants of `MCParts`. For turns and red lights
  (`EvidenceProven`) the induction is on ages: the scan sleeps for one timeout after it
  removed all that was older than one, so nothing gets older than two (`VehicleAges`,
  `RedAges`); while it removes, whatever is older than one is on its list, although
  `Handle` comes between the two locks. `BestPicture` says what `Handle` keeps of the
  best picture and the plate of an entry, and what is sent keeps it. `AlarmInv` ties the
  number of alarms in this hour to the stored last alarm (`AlarmsProven`).
* `RequestsProofs`: the six modules of `MCRequests`. A step of the run is a step of one
  module (`StepOfOne`), so each has its own inductive invariant, and `RequestsInv` is
  their conjunction.
  - `MarksProven`. `MarksInv`: where a request is tells how many ids it has answered
    (`OnItsWay`), and the event of an id answered as a success is as some request left it
    that had this id (`SuccessIsTrue`): of two writers the last is one of them.
  - `ExportsProven`, `NothingLeftProven`. `ExportInv`: what is in a directory was written
    by exports that began in its second, and every directory has an export that will still
    remove it, unless the process ended (`DiskInv`); what an export alone in its
    directory has written follows from the stage of its workers (`OwnInv`, `Written`).
  - `PagesProven`. `PagesInv`: the place of an event in the list is the number of
    newer ones, which is what both reads of the code agree on. Of the events that were
    there all the time, those whose place has been passed without their being seen are
    no more than have left the list (`Passed`): one that leaves moves at most one event
    over the border of a page. What lies behind the last page is no more than what came
    after the count (`FewAtTheEnd`). The counting needs the finite sets of the library.
  - `PastDaysProven`. All answers but that of the hours select by the time an event was
    created at, which is the time it is stored: no event joins a day that is over
    (`NothingComes`), and one that is there is deleted or stays with all that is counted
    but its classes (`StoredStays`). So no count of these days grows (`FewerAreCounted`),
    and the row of a camera is no larger than before (`RowsFollow`). A class can gain
    when another is corrected to it, which the property allows; that it is the only way
    is the part of the classes. The counts of an hour do grow after its day is over, by
    events that are stored late.
  - `StatisticsProven`. `StatisticsInv`: an event is counted on no later day than it is
    stored (`CountedBefore`), whether an analyzer dated it by its start or the dashboard by
    its clock. So the events of a day by their hours are those created before the midnight
    that ends the list, which has them under that day, and those created after it
    (`HoursAddUp`). That a sum over counts is the number of things
    counted is an induction on a fold, which the library's theorems cannot be used for
    here. It is shown by the least counterexample instead (`Smallest`): a fold adds the
    element it picks to the fold of the rest (`AddsUpToAny`, `TotalAdds`), so no size is
    the least for which it does not count (`CountsAddUp`). That the cameras can be put
    in the order of their counts is shown in the same way (`CanBeSorted`).
    Assumption: finitely many events.
  - `FacesProven`, `FaultsProven`, `LoginsProven`. `FaceInv` and `VmsInv`: the pictures a
    worker has gone through have their entries, in order as long as none is missing
    (`Covers`, `Looks`, `Searches`); only the holder of the lock logs in, and only when
    the login has run out (`Login`); a stored session or token is no older than its date
    and the time a login takes (`Session`, `NoOlder`), which is what the services grant.

Only model-checked:

* Liveness: `AbandonedIsRegained`, `DashboardObeyed`, `JobGetsResult`,
  `ReturnsUnlessWedged`, `ExpiredIsReported`, `FrameIsHandled`, `ReturnsUnlessStuck`,
  `ReleasedThreadEnds`, `RecordedIsSaved`, `ParkedIsReported`. They are out of the
  prover's reach, as is `ENABLED`.

All other invariants and action properties of the passing runs are theorems. The types of
`MCRequests` are a theorem only (`RequestsTypeCorrect`), without a run.

## 5. Findings

Shown by a run:

1. `TaskEditLost`: `Gain` finds a task, the dashboard edits it (its version is 0
   before and after), `Touch` stores the old copy (`tasks.go:71`).
2. `DeeperFinish`: `Heartbeat` and `Finish` write one object's `Status`
   (`dao.go:151`, `156`); a finished job is stored as "doing" and handled again.
Seen in a model that allows for it, with the exception stated in a property:

3. `SidewalkViolation`, `ReturnsUnlessWedged`: the scan sends to a full channel under
   the read lock while its only reader waits for the write lock
   (`zhanrenxingdao.go:148`): neither goes on. The reader is a Handle that `waimai.go`
   waits for, so that Do hangs with it (`StreamWorker`, `Wedged`), cancelled or not.
4. `StreamWorker`, `Stuck`: uploaders stop on the cancelled context
   while `Handle` still sends to their full channel (`vehicle.go:139`). The same
   holds for the savers and the scan in `nonmotor.go:112`, `282`.
5. `GridParking`, `ReportedOncePerStay`: a vehicle reported between the two locks
   of a scan that listed it is reported again (`wanggexiantingche.go:193`).
6. `NonMotorHandler`, `late`: what is recorded between the two locks of the scan is
   deleted with the entry (`nonmotor.go:287`); `crashed`: the shared map.
7. `ConstructionAlarm`: the time of day is taken as hours and *seconds*
   (`chaoshi.go:65`, against "[hhmm,...]" in line 14); a configuration of a single
   time ends the process (`chaoshi.go:39` asks `len/2 != 0`); a handler that was
   refused is called all the same (`chaoshi.go:50`, `construction.go:65`); an
   alarm is silenced by one a month before at the same hour.
8. `EvidenceExport`, `Shared`: two exports that begin in one second have one
   directory (`biz/export/cmd/event.go:37`); each packs events of the other, and
   the first to end removes those of the second, whose answer then lacks them
   without an error.
9. `EventRequests`, `at = "error"`: when the last id of a deletion fails the answer
   has no lists (`event.go:145`, `156`), against `docs/dashboard.md:347`, `356`.
   `MarksAreAnswered` also allows two users to be told that they set one mark.
10. `LibInstance`: after a create function that failed the goroutine and its thread
   wait for ever (`lib.go:390`); `thread` stays "range".

11. `EvidenceExport`, `crashed`: a picture that is none ends the dashboard in the
   middle of its exports (`biz/export/cmd/event.go:443`); their directories stay.
12. `RedLight`, `Measure`: the width is multiplied by the product of the edges, not by
   the height (`zhanrenxingdao.go:179`): the biggest picture may lose.
13. `FaceSearch`, `FacesMatchSnapshots`: after a snapshot without a feature picture the
   persons stand one place too early (`face_search.go:44`, against
   `docs/dashboard.md:118`).
14. `FaceSearch`, `cause = "race"`: the time of a login is stored before its cookies
   (`yitu.go:75`), and whoever finds it fresh is refused. `VmsClient` stores them in
   the right order and is open to tearing only.
15. `EventStatistics`, `Late`: an event that began before midnight and was stored after
   it is not in the list of its day, and under a day outside the range in the next
   (`dao/db/event.go:123`); one created at midnight is counted in two ranges. An
   event that is sent to the dashboard is counted when it is created, whatever start it
   has (`dao/db/event.go:48`). Snapshots, not events, are counted by class. The count of
   the cameras ignores the camera that was asked for (`event.go:360`). Red lights, stops over the line and grid parking
   are of no kind (`proto/eventtype.go:51`).
16. `EventPages`, `joined`: an event that comes between the count and the page pushes
   another one off the last page (`dao/db/event.go:86`).

Read, and not modelled: `docs/dashboard.md:110` lists "init" and "finished" as the
values of a status that is also "doing"; `docs/dashboard.md:155` says that the daily
statistics are those of seven days by default, `parseDate` makes it one
(`event.go:159`).

## 6. Not modelled

* Inference results, the drawing, cutting out and uploading of pictures: what they
  decide is a free choice of the modules that use them.
* Reads of the dashboard that change nothing and are one operation of the database:
  the table of `GetEventsExport`, `GetEventsExportPrivate`, lists of constants and of
  tasks, the pictures of a camera. The pages and the statistics are modelled, because
  what several of them say must fit together.
* Ids that are no ids: `bson.ObjectIdHex` panics, and the request ends without an
  answer. Ids are model values here. Of an export, the picture of a face (`face.jpg`,
  `biz/export/cmd/event.go:158`): an event without it is exported all the same.
* The command line tool of the export, which calls `ProcessEvents` once and keeps the
  directory, and a crash in the middle of an export by other causes than its own.
* Configuration, formats, routing and the deployment but for its restart policy, and
  vendored code.

## 7. Plan

Done, in this order: `TaskLease` with `TaskOwnership`, then `DeeperQueue`, the core of
what several processes share; `SidewalkViolation`, `StreamWorker`,
`NonMotorHandler`; the other violations; `LibInstance`; the requests and the clients;
the proofs of section 4. What could follow:

1. `LibInstance` composed with `Do` step by step, and `StreamWorker` shown to be
   what is left when a call is one step; `FaceSearch` as the handlers of
   `DeeperQueue`.
2. Abstract specifications of marks (a mark is atomic) and of a violation (a stay of
   an object is reported at most once), and which modules implement them.
3. Proofs: the refinements of item 2. Of the properties that are checked now only
   liveness has none.
