----------------------------- MODULE DeeperQueue -----------------------------
(***************************************************************************)
(* The deeper service: the events of vas_event as a queue of face-search   *)
(* jobs, consumed by processes that each run one Consume goroutine, a pool *)
(* of workers and one heartbeat goroutine.                                 *)
(*                                                                         *)
(*   biz/deeper/dao/dao.go   acquire, patch, Consume, Heartbeat, Finish    *)
(*   biz/deeper/worker.go    Start, Stop, crontHeartbeat                   *)
(*   app/deeper/main.go      the grace period after a signal               *)
(*                                                                         *)
(* A job is taken by findAndModify, kept by heartbeats that renew its      *)
(* updatedAt, and taken again when no heartbeat came for Timeout ticks.    *)
(* The heartbeat goroutine and the worker share the job in memory, and     *)
(* both write its Status without a lock.                                   *)
(***************************************************************************)
EXTENDS Integers, FiniteSets

CONSTANTS
  Jobs,       \* the events
  Procs,      \* deeper processes
  Workers,    \* the goroutines of all pools
  Owner,      \* the process of each worker
  NoJob, NoWorker,
  Timeout,    \* JobTimeoutSecond, in ticks
  Timely,     \* TRUE: the database answers and three delays are bounded
  BeatGap,    \* longest time from one heartbeat round to the end of the next
  HandGap,    \* longest time a job is held outside heartbeatMap
  Grace       \* longest time from the signal to the exit of the process

ASSUME QueueAssumption ==
  /\ Owner \in [Workers -> Procs]
  /\ NoJob \notin Jobs /\ NoWorker \notin Workers
  /\ Timeout \in Nat /\ Timely \in BOOLEAN
  /\ BeatGap \in Nat /\ HandGap \in Nat /\ Grace \in Nat

VARIABLES
  job,        \* the stored event: its status, its age, its deeperInfo
  consumer,   \* the Consume goroutine and its channel
  worker,     \* the pool goroutines, each with the job object it holds
  beats,      \* heartbeatMap: for each job, the worker whose object is stored
  heart,      \* crontHeartbeat, with the object Range has handed to it
  proc        \* what each process is doing

vars == <<job, consumer, worker, beats, heart, proc>>

(***************************************************************************)
(* "torn" is what two unsynchronised writes of a two-word string can leave *)
(* behind: the pointer of one and the length of the other.                 *)
(***************************************************************************)
Status == {"init", "doing", "finished", "torn"}
Job == [st : Status \cup {"none", "deleted"}, age : 0..Timeout, done : BOOLEAN]
Consumer ==
  {c \in [at : {"stale", "waiting", "send", "gone"}, job : Jobs \cup {NoJob},
          retry : BOOLEAN, closed : BOOLEAN, wait : Nat] :
     c.at = "send" => c.job \in Jobs}
Worker ==
  {r \in [at : {"idle", "store", "handle", "set", "data", "update", "ended"},
          job : Jobs \cup {NoJob}, cell : Status, lag : Nat] :
     r.at \notin {"idle", "ended"} => r.job \in Jobs}
Heart ==
  {h \in [at : {"sleep", "range", "set", "data", "update"}, left : SUBSET Jobs,
          job : Jobs \cup {NoJob}, obj : Workers \cup {NoWorker}, cell : Status, gap : Nat] :
     h.at \notin {"sleep", "range"} => h.job \in Jobs}
Proc == [mode : {"up", "stopping", "down"}, since : Nat]

TypeOK ==
  /\ job \in [Jobs -> Job]
  /\ consumer \in [Procs -> Consumer]
  /\ worker \in [Workers -> Worker]
  /\ beats \in [Procs -> [Jobs -> Workers \cup {NoWorker}]]
  /\ heart \in [Procs -> Heart]
  /\ proc \in [Procs -> Proc]

NewConsumer == [at |-> "stale", job |-> NoJob, retry |-> FALSE, closed |-> FALSE, wait |-> 0]
NewWorker == [at |-> "idle", job |-> NoJob, cell |-> "doing", lag |-> 0]
NewHeart == [at |-> "sleep", left |-> {}, job |-> NoJob, obj |-> NoWorker,
             cell |-> "doing", gap |-> 0]
NoBeats == [j \in Jobs |-> NoWorker]

Init ==
  /\ job = [j \in Jobs |-> [st |-> "none", age |-> 0, done |-> FALSE]]
  /\ consumer = [p \in Procs |-> NewConsumer]
  /\ worker = [w \in Workers |-> NewWorker]
  /\ beats = [p \in Procs |-> NoBeats]
  /\ heart = [p \in Procs |-> NewHeart]
  /\ proc = [p \in Procs |-> [mode |-> "up", since |-> 0]]

Running(p) == proc[p].mode # "down"
Stored(j) == job[j].st \in Status

-----------------------------------------------------------------------------
(***************************************************************************)
(* The other writers of vas_event: the analyzer inserts, the dashboard     *)
(* edits (which renews updatedAt) and deletes.                             *)
(***************************************************************************)
Insert(j) ==
  /\ job[j].st = "none"
  /\ job' = [job EXCEPT ![j] = [st |-> "init", age |-> 0, done |-> FALSE]]
  /\ UNCHANGED <<consumer, worker, beats, heart, proc>>

Edit(j) ==
  /\ Stored(j) /\ job[j].age > 0
  /\ job' = [job EXCEPT ![j].age = 0]
  /\ UNCHANGED <<consumer, worker, beats, heart, proc>>

Delete(j) ==
  /\ Stored(j)
  /\ job' = [job EXCEPT ![j] = [st |-> "deleted", age |-> 0, done |-> FALSE]]
  /\ UNCHANGED <<consumer, worker, beats, heart, proc>>

-----------------------------------------------------------------------------
\* The process ends, by a panic, a signal or its own exit: what it held is gone.
Ends(p) ==
  /\ proc' = [proc EXCEPT ![p] = [mode |-> "down", since |-> 0]]
  /\ consumer' = [consumer EXCEPT ![p] = NewConsumer]
  /\ worker' = [w \in Workers |-> IF Owner[w] = p THEN NewWorker ELSE worker[w]]
  /\ beats' = [beats EXCEPT ![p] = NoBeats]
  /\ heart' = [heart EXCEPT ![p] = NewHeart]

Crash(p) == Running(p) /\ Ends(p) /\ UNCHANGED job

Restart(p) ==
  /\ ~Running(p)
  /\ proc' = [proc EXCEPT ![p].mode = "up"]
  /\ UNCHANGED <<job, consumer, worker, beats, heart>>

\* A signal: Stop cancels the context, which Consume and crontHeartbeat look at.
Stop(p) ==
  /\ proc[p].mode = "up"
  /\ proc' = [proc EXCEPT ![p].mode = "stopping"]
  /\ UNCHANGED <<job, consumer, worker, beats, heart>>

\* Stop saw an empty heartbeatMap, or the 20 s timer of main ran out.
Exit(p) ==
  /\ proc[p].mode = "stopping"
  /\ (Timely /\ proc[p].since < Grace) => beats[p] = NoBeats
  /\ Ends(p) /\ UNCHANGED job

-----------------------------------------------------------------------------
(***************************************************************************)
(* Consume: acquire asks for a job whose heartbeats have stopped, then for *)
(* one that waits. An acquire that failed is retried once; the second      *)
(* failure closes the channel, and the loop goes on.                       *)
(***************************************************************************)
Loop(p) ==
  consumer' = [consumer EXCEPT ![p] = [@ EXCEPT !.at = "stale", !.job = NoJob,
                                                !.retry = FALSE, !.wait = 0]]

ConsumeGone(p) ==
  /\ proc[p].mode = "stopping" /\ consumer[p].at = "stale" /\ ~consumer[p].retry
  /\ consumer' = [consumer EXCEPT ![p].at = "gone"]
  /\ UNCHANGED <<job, worker, beats, heart, proc>>

\* Mutant: a job whose consumer died is not asked for.
WantedWaiting(at) == IF at = "stale" THEN {} ELSE {j \in Jobs : job[j].st = "init"}

\* Mutant: jobs are taken from workers whose heartbeats go on.
WantedAnyAge(at) ==
  IF at = "stale" THEN {j \in Jobs : job[j].st = "doing"}
  ELSE {j \in Jobs : job[j].st = "init"}

Wanted(at) ==
  IF at = "stale" THEN {j \in Jobs : job[j].st = "doing" /\ job[j].age >= Timeout}
  ELSE {j \in Jobs : job[j].st = "init"}

Taken(j) == job' = [job EXCEPT ![j] = [@ EXCEPT !.st = "doing", !.age = 0]]

AcquireTakes(p, j) ==
  /\ Running(p) /\ consumer[p].at \in {"stale", "waiting"}
  /\ j \in Wanted(consumer[p].at)
  /\ Taken(j)
  /\ IF consumer[p].closed THEN Ends(p)     \* send on a closed channel: panic
     ELSE /\ consumer' = [consumer EXCEPT ![p] = [@ EXCEPT !.at = "send", !.job = j]]
          /\ UNCHANGED <<worker, beats, heart, proc>>

\* Mutant: the job is sent without a look whether there is one.
AcquireNothingSends(p) ==
  /\ Running(p) /\ consumer[p].at \in {"stale", "waiting"}
  /\ Wanted(consumer[p].at) = {}
  /\ consumer' = [consumer EXCEPT ![p].at =
                    IF consumer[p].at = "stale" THEN "waiting" ELSE "send"]
  /\ UNCHANGED <<job, worker, beats, heart, proc>>

AcquireNothing(p) ==
  /\ Running(p) /\ consumer[p].at \in {"stale", "waiting"}
  /\ Wanted(consumer[p].at) = {}
  /\ IF consumer[p].at = "stale" THEN consumer' = [consumer EXCEPT ![p].at = "waiting"]
     ELSE Loop(p)
  /\ UNCHANGED <<job, worker, beats, heart, proc>>

\* The database reports an error, having taken a job or not.
AcquireFails(p) ==
  /\ ~Timely /\ Running(p) /\ consumer[p].at \in {"stale", "waiting"}
  /\ UNCHANGED job \/ \E j \in Wanted(consumer[p].at) : Taken(j)
  /\ IF consumer[p].retry /\ consumer[p].closed THEN Ends(p)   \* closed twice: panic
     ELSE /\ consumer' = [consumer EXCEPT ![p] =
                           [@ EXCEPT !.at = "stale", !.retry = ~consumer[p].retry,
                                     !.closed = consumer[p].closed \/ consumer[p].retry]]
          /\ UNCHANGED <<worker, beats, heart, proc>>

-----------------------------------------------------------------------------
(***************************************************************************)
(* A pool goroutine: receive, Store, handlers, Delete, Finish.             *)
(***************************************************************************)
Receive(p, w) ==
  /\ Owner[w] = p /\ worker[w].at = "idle" /\ Running(p)
  /\ consumer[p].at = "send"
  /\ worker' = [worker EXCEPT ![w] = [at |-> "store", job |-> consumer[p].job,
                                      cell |-> "doing", lag |-> 0]]
  /\ Loop(p)
  /\ UNCHANGED <<job, beats, heart, proc>>

RangeEnds(w) ==
  /\ worker[w].at = "idle" /\ consumer[Owner[w]].closed
  /\ worker' = [worker EXCEPT ![w].at = "ended"]
  /\ UNCHANGED <<job, consumer, beats, heart, proc>>

Store(w) ==
  /\ worker[w].at = "store"
  /\ worker' = [worker EXCEPT ![w] = [@ EXCEPT !.at = "handle", !.lag = 0]]
  /\ beats' = [beats EXCEPT ![Owner[w]][worker[w].job] = w]
  /\ UNCHANGED <<job, consumer, heart, proc>>

\* Mutant: the entry stays until after Finish.
HandlersReturnEntryStays(w) ==
  /\ worker[w].at = "handle"
  /\ worker' = [worker EXCEPT ![w].at = "set"]
  /\ UNCHANGED <<job, consumer, beats, heart, proc>>

\* The handlers return; the entry deleted is the job's, whoever stored it.
HandlersReturn(w) ==
  /\ worker[w].at = "handle"
  /\ worker' = [worker EXCEPT ![w].at = "set"]
  /\ beats' = [beats EXCEPT ![Owner[w]][worker[w].job] = NoWorker]
  /\ UNCHANGED <<job, consumer, heart, proc>>

\* Does the heartbeat goroutine hold the object of worker w?
Shares(w) == heart[Owner[w]].obj = w

\* What a read of the cell may yield while the other goroutine writes new.
Racy(cell, writing, new) == {cell} \cup (IF writing /\ cell # new THEN {"torn"} ELSE {})

FinishSet(w) ==
  /\ worker[w].at = "set"
  /\ worker' = [worker EXCEPT ![w] = [@ EXCEPT !.at = "data", !.cell = "finished"]]
  /\ UNCHANGED <<job, consumer, beats, heart, proc>>

\* patch reads job.Status; from here on the worker leaves the object alone.
FinishData(w) ==
  /\ worker[w].at = "data"
  /\ LET h == heart[Owner[w]] IN
     \E s \in Racy(worker[w].cell, Shares(w) /\ h.at = "set", "doing") :
       worker' = [worker EXCEPT ![w] = [@ EXCEPT !.at = "update", !.cell = s]]
  /\ heart' = IF Shares(w)
              THEN [heart EXCEPT ![Owner[w]] =
                     [@ EXCEPT !.obj = NoWorker, !.cell = worker[w].cell]]
              ELSE heart
  /\ UNCHANGED <<job, consumer, beats, proc>>

\* The update is applied or not; the worker ignores the answer.
FinishUpdate(w, applied) ==
  /\ worker[w].at = "update"
  /\ LET j == worker[w].job IN
     IF applied /\ Stored(j)
     THEN job' = [job EXCEPT ![j] = [st |-> worker[w].cell, age |-> 0, done |-> TRUE]]
     ELSE UNCHANGED job
  /\ worker' = [worker EXCEPT ![w] = NewWorker]
  /\ UNCHANGED <<consumer, beats, heart, proc>>

-----------------------------------------------------------------------------
(***************************************************************************)
(* crontHeartbeat: a round ranges over heartbeatMap and renews each job.   *)
(***************************************************************************)
RoundStarts(p) ==
  /\ proc[p].mode = "up" /\ heart[p].at = "sleep"
  /\ heart' = [heart EXCEPT ![p] = [@ EXCEPT !.at = "range", !.left = Jobs]]
  /\ UNCHANGED <<job, consumer, worker, beats, proc>>

Visit(p, j) ==
  /\ heart[p].at = "range" /\ j \in heart[p].left
  /\ heart' = [heart EXCEPT ![p] =
       IF beats[p][j] = NoWorker THEN [@ EXCEPT !.left = heart[p].left \ {j}]
       ELSE [@ EXCEPT !.at = "set", !.left = heart[p].left \ {j},
                      !.job = j, !.obj = beats[p][j]]]
  /\ UNCHANGED <<job, consumer, worker, beats, proc>>

RoundEnds(p) ==
  /\ heart[p].at = "range" /\ heart[p].left = {}
  /\ heart' = [heart EXCEPT ![p] = [@ EXCEPT !.at = "sleep", !.gap = 0]]
  /\ UNCHANGED <<job, consumer, worker, beats, proc>>

\* Heartbeat writes job.Status in the object, which may be the worker's no longer.
HeartSet(p) ==
  /\ heart[p].at = "set"
  /\ IF heart[p].obj = NoWorker
     THEN /\ heart' = [heart EXCEPT ![p] = [@ EXCEPT !.at = "data", !.cell = "doing"]]
          /\ UNCHANGED worker
     ELSE /\ heart' = [heart EXCEPT ![p].at = "data"]
          /\ worker' = [worker EXCEPT ![heart[p].obj].cell = "doing"]
  /\ UNCHANGED <<job, consumer, beats, proc>>

\* Finish and Heartbeat write the same Status at the same time.
BothSet(w) ==
  /\ worker[w].at = "set" /\ Shares(w) /\ heart[Owner[w]].at = "set"
  /\ worker' = [worker EXCEPT ![w] = [@ EXCEPT !.at = "data", !.cell = "torn"]]
  /\ heart' = [heart EXCEPT ![Owner[w]].at = "data"]
  /\ UNCHANGED <<job, consumer, beats, proc>>

HeartData(p) ==
  /\ heart[p].at = "data"
  /\ LET w == heart[p].obj IN
     \E s \in IF w = NoWorker THEN {heart[p].cell}
              ELSE Racy(worker[w].cell, worker[w].at = "set", "finished") :
       heart' = [heart EXCEPT ![p] = [@ EXCEPT !.at = "update", !.obj = NoWorker,
                                               !.cell = s]]
  /\ UNCHANGED <<job, consumer, worker, beats, proc>>

HeartUpdate(p, applied) ==
  /\ heart[p].at = "update"
  /\ LET j == heart[p].job IN
     IF applied /\ Stored(j)
     THEN job' = [job EXCEPT ![j] = [@ EXCEPT !.st = heart[p].cell, !.age = 0]]
     ELSE UNCHANGED job
  /\ heart' = [heart EXCEPT ![p] = [@ EXCEPT !.at = "range", !.job = NoJob,
                                             !.cell = "doing"]]
  /\ UNCHANGED <<consumer, worker, beats, proc>>

-----------------------------------------------------------------------------
(***************************************************************************)
(* Time, and the delays that Timely bounds.                                *)
(***************************************************************************)
Handing(w) == worker[w].at \in {"store", "set", "data", "update"}

InTime ==
  /\ \A p \in Procs : /\ proc[p].mode = "up" => heart[p].gap < BeatGap
                      /\ consumer[p].at = "send" => consumer[p].wait < HandGap
                      /\ proc[p].mode = "stopping" => proc[p].since < Grace
  /\ \A w \in Workers : Handing(w) => worker[w].lag < HandGap

Count(on, n) == IF Timely /\ on THEN n + 1 ELSE n

Tick ==
  /\ Timely => InTime
  /\ job' = [j \in Jobs |-> IF ~Stored(j) \/ job[j].age = Timeout THEN job[j]
                            ELSE [job[j] EXCEPT !.age = job[j].age + 1]]
  /\ consumer' = [p \in Procs |-> [consumer[p] EXCEPT !.wait =
                    Count(consumer[p].at = "send", consumer[p].wait)]]
  /\ worker' = [w \in Workers |-> [worker[w] EXCEPT !.lag =
                    Count(Handing(w), worker[w].lag)]]
  /\ heart' = [p \in Procs |-> [heart[p] EXCEPT !.gap =
                    Count(proc[p].mode = "up", heart[p].gap)]]
  /\ proc' = [p \in Procs |-> [proc[p] EXCEPT !.since =
                    Count(proc[p].mode = "stopping", proc[p].since)]]
  /\ UNCHANGED beats

Applied == IF Timely THEN {TRUE} ELSE BOOLEAN

Others == \E j \in Jobs : Insert(j) \/ Edit(j) \/ Delete(j)

Process(p) ==
  \/ Crash(p) \/ Restart(p) \/ Stop(p) \/ Exit(p)
  \/ ConsumeGone(p) \/ AcquireNothing(p) \/ AcquireFails(p)
  \/ \E j \in Jobs : AcquireTakes(p, j)
  \/ \E w \in Workers : Receive(p, w)
  \/ RoundStarts(p) \/ RoundEnds(p) \/ HeartSet(p) \/ HeartData(p)
  \/ \E j \in Jobs : Visit(p, j)
  \/ \E b \in Applied : HeartUpdate(p, b)

Pool(w) ==
  \/ RangeEnds(w) \/ Store(w) \/ HandlersReturn(w) \/ FinishSet(w) \/ BothSet(w)
  \/ FinishData(w)
  \/ \E b \in Applied : FinishUpdate(w, b)

Next ==
  \/ Others
  \/ \E p \in Procs : Process(p)
  \/ \E w \in Workers : Pool(w)
  \/ Tick

Spec == Init /\ [][Next]_vars

(***************************************************************************)
(* Fairness: every goroutine runs, the compose file restarts a process     *)
(* (deployment/deeper/docker-compose: restart: always), a face search      *)
(* answers in the end, and an update that is tried again and again is      *)
(* applied now and then.                                                   *)
(***************************************************************************)
Consuming(p) == AcquireNothing(p) \/ \E j \in Jobs : AcquireTakes(p, j)

Beating(p) ==
  \/ RoundStarts(p) \/ RoundEnds(p) \/ HeartSet(p) \/ HeartData(p)
  \/ \E j \in Jobs : Visit(p, j)
  \/ \E b \in Applied : HeartUpdate(p, b)

Fairness ==
  /\ WF_vars(Tick)
  /\ \A p \in Procs : /\ WF_vars(Restart(p)) /\ WF_vars(Exit(p))
                      /\ WF_vars(Consuming(p))
                      /\ WF_vars(\E w \in Workers : Receive(p, w))
                      /\ WF_vars(Beating(p))
  /\ \A w \in Workers : WF_vars(Pool(w)) /\ SF_vars(FinishUpdate(w, TRUE))

FairSpec == Spec /\ Fairness

-----------------------------------------------------------------------------
Busy(w) == worker[w].at \notin {"idle", "ended"}

\* An entry leads to a worker of the process that handles the job.
EntryLeads(p, j) ==
  LET w == beats[p][j] IN
  w # NoWorker => Owner[w] = p /\ worker[w].at = "handle" /\ worker[w].job = j

\* The object crontHeartbeat holds is its worker's until the worker has read it for
\* the last time.
ObjectLeads(p) ==
  LET w == heart[p].obj IN
  w # NoWorker => /\ Owner[w] = p /\ worker[w].at \in {"handle", "set", "data"}
                  /\ heart[p].at \in {"set", "data"} /\ worker[w].job = heart[p].job

\* heartbeatMap, crontHeartbeat and the workers agree, whatever the order in which
\* two workers of a process that got the same job twice store and delete its entry
\* (worker.go:68, 73, 119).
EntryIsHandled ==
  /\ \A p \in Procs, j \in Jobs : EntryLeads(p, j)
  /\ \A p \in Procs : ObjectLeads(p)

\* With timely heartbeats every job being handled is in heartbeatMap: no other
\* worker's Delete takes its entry away, so its heartbeats go on (worker.go:73).
HandledIsRenewed ==
  \A w \in Workers :
    worker[w].at = "handle" => beats[Owner[w]][worker[w].job] = w

\* With timely heartbeats no two workers, of one process or of two, have the same
\* job at the same time, also while one of the processes is being stopped, when
\* its heartbeats have ended and its handlers have not (worker.go:113, main.go:97).
NoDoubleHandling ==
  \A v, w \in Workers :
    (Busy(v) /\ Busy(w) /\ worker[v].job = worker[w].job) => v = w

Trouble ==
  \/ \E j \in Jobs : Edit(j)
  \/ \E p \in Procs : Crash(p) \/ Stop(p) \/ AcquireFails(p)

\* Once crashes, signals, failed acquires and edits of the event end, every job
\* gets its result, whichever step they interrupted; left out are the jobs that
\* were deleted, or taken out of the queue by a Status that two goroutines wrote
\* at the same time (dao.go:75, 151, 156).
JobGetsResult ==
  <>[][~Trouble]_vars
    => \A j \in Jobs : (job[j].st = "init")
                         ~> (job[j].done \/ job[j].st \in {"deleted", "finished", "torn"})

\* A Finish that reaches the store leaves the job finished (dao_test.go:107).
FinishFinishes ==
  [][\A w \in Workers, j \in Jobs :
       (worker[w].at = "update" /\ worker[w].job = j /\ worker'[w].at = "idle"
          /\ job'[j] # job[j] /\ UNCHANGED proc)
         => job'[j].st = "finished"]_vars
=============================================================================
