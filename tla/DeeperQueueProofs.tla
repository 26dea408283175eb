-------------------------- MODULE DeeperQueueProofs --------------------------
(***************************************************************************)
(* Proofs about DeeperQueue, for any number of processes, workers and      *)
(* jobs.                                                                   *)
(***************************************************************************)
EXTENDS DeeperQueue, TLAPS

\* A process that ends leaves its parts as they are at the start.
LEMMA EndsType ==
  ASSUME TypeOK, NEW p \in Procs, Ends(p), job' \in [Jobs -> Job]
  PROVE  TypeOK'
<1> USE QueueAssumption
<1>1. NewConsumer \in Consumer /\ NewHeart \in Heart /\ NewWorker \in Worker
  BY DEF NewConsumer, NewHeart, NewWorker, Consumer, Heart, Worker, Status
<1>2. NoBeats \in [Jobs -> Workers \cup {NoWorker}]
  BY DEF NoBeats
<1>3. consumer' \in [Procs -> Consumer] /\ heart' \in [Procs -> Heart]
  BY <1>1 DEF Ends, TypeOK
<1>4. worker' \in [Workers -> Worker]
  BY <1>1 DEF Ends, TypeOK
<1>5. beats' \in [Procs -> [Jobs -> Workers \cup {NoWorker}]]
  BY <1>2 DEF Ends, TypeOK
<1>6. proc' \in [Procs -> Proc]
  BY DEF Ends, TypeOK, Proc
<1> QED BY <1>3, <1>4, <1>5, <1>6 DEF TypeOK

LEMMA TypeInit == Init => TypeOK
BY QueueAssumption
   DEF Init, TypeOK, Job, Consumer, Worker, Heart, Proc, Status,
       NewConsumer, NewWorker, NewHeart, NoBeats

\* The other writers of the collection.
LEMMA TypeOthers == TypeOK /\ Others => TypeOK'
<1> SUFFICES ASSUME TypeOK, NEW j \in Jobs, Insert(j) \/ Edit(j) \/ Delete(j) PROVE TypeOK'
  BY DEF Others
<1>1. job[j] \in Job /\ 0 \in 0..Timeout
  BY QueueAssumption DEF TypeOK
<1>2. [st |-> "init", age |-> 0, done |-> FALSE] \in Job
      /\ [st |-> "deleted", age |-> 0, done |-> FALSE] \in Job
      /\ [job[j] EXCEPT !.age = 0] \in Job
  BY <1>1 DEF Job, Status
<1>3. job' \in [Jobs -> Job]
  BY <1>2 DEF TypeOK, Insert, Edit, Delete
<1> QED BY <1>3 DEF TypeOK, Insert, Edit, Delete

LEMMA TakenType ==
  ASSUME TypeOK, NEW j \in Jobs, Taken(j) PROVE job' \in [Jobs -> Job]
<1>1. job[j] \in Job /\ 0 \in 0..Timeout
  BY QueueAssumption DEF TypeOK
<1>2. [job[j] EXCEPT !.st = "doing", !.age = 0] \in Job
  BY <1>1 DEF Job, Status
<1> QED BY <1>2 DEF Taken, TypeOK

LEMMA LoopType ==
  ASSUME TypeOK, NEW p \in Procs, Loop(p) PROVE consumer' \in [Procs -> Consumer]
<1>1. consumer[p] \in Consumer
  BY DEF TypeOK
<1>2. [consumer[p] EXCEPT !.at = "stale", !.job = NoJob, !.retry = FALSE, !.wait = 0]
        \in Consumer
  BY <1>1 DEF Consumer
<1> QED BY <1>2 DEF Loop, TypeOK

\* The process as a whole, and its Consume goroutine.
LEMMA TypeConsume ==
  ASSUME TypeOK, NEW p \in Procs,
         \/ Crash(p) \/ Restart(p) \/ Stop(p) \/ Exit(p)
         \/ ConsumeGone(p) \/ AcquireNothing(p) \/ AcquireFails(p)
         \/ \E j \in Jobs : AcquireTakes(p, j)
         \/ \E w \in Workers : Receive(p, w)
  PROVE  TypeOK'
<1>0. consumer[p] \in Consumer /\ proc[p] \in Proc
  BY DEF TypeOK
<1>1. CASE Crash(p)
  BY <1>1, EndsType DEF Crash, TypeOK
<1>2. CASE Restart(p)
  <2>1. [proc[p] EXCEPT !.mode = "up"] \in Proc
    BY <1>0 DEF Proc
  <2> QED BY <1>2, <2>1 DEF Restart, TypeOK
<1>3. CASE Stop(p)
  <2>1. [proc[p] EXCEPT !.mode = "stopping"] \in Proc
    BY <1>0 DEF Proc
  <2> QED BY <1>3, <2>1 DEF Stop, TypeOK
<1>4. CASE Exit(p)
  BY <1>4, EndsType DEF Exit, TypeOK
<1>5. CASE ConsumeGone(p)
  <2>1. [consumer[p] EXCEPT !.at = "gone"] \in Consumer
    BY <1>0 DEF Consumer
  <2> QED BY <1>5, <2>1 DEF ConsumeGone, TypeOK
<1>6. CASE AcquireNothing(p)
  <2>1. [consumer[p] EXCEPT !.at = "waiting"] \in Consumer
    BY <1>0 DEF Consumer
  <2>2. consumer' \in [Procs -> Consumer]
    BY <1>6, <2>1, LoopType DEF AcquireNothing, TypeOK
  <2> QED BY <1>6, <2>2 DEF AcquireNothing, TypeOK
<1>7. CASE AcquireFails(p)
  <2>1. job' \in [Jobs -> Job]
    BY <1>7, TakenType DEF AcquireFails, TypeOK, Wanted
  <2>2. CASE Ends(p)
    BY <2>1, <2>2, EndsType
  <2>3. CASE ~Ends(p)
    <3>1. [consumer[p] EXCEPT !.at = "stale", !.retry = ~consumer[p].retry,
             !.closed = consumer[p].closed \/ consumer[p].retry] \in Consumer
      BY <1>0 DEF Consumer
    <3> QED BY <1>7, <2>1, <2>3, <3>1 DEF AcquireFails, TypeOK
  <2> QED BY <2>2, <2>3
<1>8. ASSUME NEW j \in Jobs, AcquireTakes(p, j) PROVE TypeOK'
  <2>1. job' \in [Jobs -> Job]
    BY <1>8, TakenType DEF AcquireTakes
  <2>2. CASE Ends(p)
    BY <2>1, <2>2, EndsType
  <2>3. CASE ~Ends(p)
    <3>1. [consumer[p] EXCEPT !.at = "send", !.job = j] \in Consumer
      BY <1>0 DEF Consumer
    <3> QED BY <1>8, <2>1, <2>3, <3>1 DEF AcquireTakes, TypeOK
  <2> QED BY <2>2, <2>3
<1>9. ASSUME NEW w \in Workers, Receive(p, w) PROVE TypeOK'
  <2>1. consumer[p].job \in Jobs
    BY <1>0, <1>9 DEF Receive, Consumer
  <2>2. [at |-> "store", job |-> consumer[p].job, cell |-> "doing", lag |-> 0] \in Worker
    BY <2>1 DEF Worker, Status
  <2> QED BY <1>9, <2>2, LoopType DEF Receive, TypeOK
<1> QED BY <1>1, <1>2, <1>3, <1>4, <1>5, <1>6, <1>7, <1>8, <1>9

\* crontHeartbeat.
LEMMA TypeBeating == ASSUME TypeOK, NEW p \in Procs, Beating(p) PROVE TypeOK'
<1>0. heart[p] \in Heart
  BY DEF TypeOK
<1>1. CASE RoundStarts(p)
  <2>1. [heart[p] EXCEPT !.at = "range", !.left = Jobs] \in Heart
    BY <1>0 DEF Heart
  <2> QED BY <1>1, <2>1 DEF RoundStarts, TypeOK
<1>2. CASE RoundEnds(p)
  <2>1. [heart[p] EXCEPT !.at = "sleep", !.gap = 0] \in Heart
    BY <1>0 DEF Heart
  <2> QED BY <1>2, <2>1 DEF RoundEnds, TypeOK
<1>3. CASE HeartSet(p)
  <2>1. [heart[p] EXCEPT !.at = "data", !.cell = "doing"] \in Heart
        /\ [heart[p] EXCEPT !.at = "data"] \in Heart
    BY <1>0, <1>3 DEF HeartSet, Heart, Status
  <2>2. heart' \in [Procs -> Heart]
    BY <1>3, <2>1 DEF HeartSet, TypeOK
  <2>3. CASE heart[p].obj = NoWorker
    BY <1>3, <2>2, <2>3 DEF HeartSet, TypeOK
  <2>4. CASE heart[p].obj # NoWorker
    <3>1. heart[p].obj \in Workers
      BY <1>0, <2>4 DEF Heart
    <3>2. [worker[heart[p].obj] EXCEPT !.cell = "doing"] \in Worker
      BY <3>1 DEF TypeOK, Worker, Status
    <3>3. worker' = [worker EXCEPT ![heart[p].obj] =
                       [worker[heart[p].obj] EXCEPT !.cell = "doing"]]
      BY <1>3, <2>4 DEF HeartSet
    <3>4. worker' \in [Workers -> Worker]
      BY <3>2, <3>3 DEF TypeOK
    <3> QED BY <1>3, <2>2, <3>4 DEF HeartSet, TypeOK
  <2> QED BY <2>3, <2>4
<1>4. CASE HeartData(p)
  <2>1. PICK s \in Status :
          heart' = [heart EXCEPT ![p] = [@ EXCEPT !.at = "update", !.obj = NoWorker,
                                                  !.cell = s]]
    <3>1. heart[p].obj = NoWorker => heart[p].cell \in Status
      BY <1>0 DEF Heart
    <3>2. heart[p].obj # NoWorker => worker[heart[p].obj].cell \in Status
      BY <1>0 DEF Heart, Worker, TypeOK
    <3> QED BY <1>4, <3>1, <3>2 DEF HeartData, Racy, Status
  <2>2. [heart[p] EXCEPT !.at = "update", !.obj = NoWorker, !.cell = s] \in Heart
    BY <1>0, <1>4 DEF HeartData, Heart
  <2> QED BY <1>4, <2>1, <2>2 DEF HeartData, TypeOK
<1>5. ASSUME NEW j \in Jobs, Visit(p, j) PROVE TypeOK'
  <2>1. beats[p][j] \in Workers \cup {NoWorker}
    BY DEF TypeOK
  <2>2. [heart[p] EXCEPT !.left = heart[p].left \ {j}] \in Heart
        /\ [heart[p] EXCEPT !.at = "set", !.left = heart[p].left \ {j},
                            !.job = j, !.obj = beats[p][j]] \in Heart
    BY <1>0, <2>1 DEF Heart
  <2> QED BY <1>5, <2>2 DEF Visit, TypeOK
<1>6. ASSUME NEW b \in Applied, HeartUpdate(p, b) PROVE TypeOK'
  <2> DEFINE j == heart[p].job
  <2>1. j \in Jobs /\ heart[p].cell \in Status
    BY <1>0, <1>6 DEF HeartUpdate, Heart
  <2>2. job[j] \in Job /\ 0 \in 0..Timeout
    BY <2>1, QueueAssumption DEF TypeOK
  <2>3. [job[j] EXCEPT !.st = heart[p].cell, !.age = 0] \in Job
    BY <2>1, <2>2 DEF Job
  <2>4. [heart[p] EXCEPT !.at = "range", !.job = NoJob, !.cell = "doing"] \in Heart
    BY <1>0 DEF Heart, Status
  <2> QED BY <1>6, <2>3, <2>4 DEF HeartUpdate, TypeOK
<1> QED BY <1>1, <1>2, <1>3, <1>4, <1>5, <1>6 DEF Beating

\* The pool goroutines.
LEMMA TypePool ==
  ASSUME TypeOK, NEW w \in Workers, Pool(w) PROVE TypeOK'
<1>0. worker[w] \in Worker /\ Owner[w] \in Procs /\ heart[Owner[w]] \in Heart
  BY QueueAssumption DEF TypeOK
<1>1. CASE RangeEnds(w)
  <2>1. [worker[w] EXCEPT !.at = "ended"] \in Worker
    BY <1>0 DEF Worker
  <2> QED BY <1>1, <2>1 DEF RangeEnds, TypeOK
<1>2. CASE Store(w)
  <2>1. [worker[w] EXCEPT !.at = "handle", !.lag = 0] \in Worker
    BY <1>0, <1>2 DEF Store, Worker
  <2> QED BY <1>0, <1>2, <2>1 DEF Store, TypeOK
<1>3. CASE HandlersReturn(w)
  <2>1. [worker[w] EXCEPT !.at = "set"] \in Worker
    BY <1>0, <1>3 DEF HandlersReturn, Worker
  <2> QED BY <1>0, <1>3, <2>1 DEF HandlersReturn, TypeOK
<1>4. CASE FinishSet(w)
  <2>1. [worker[w] EXCEPT !.at = "data", !.cell = "finished"] \in Worker
    BY <1>0, <1>4 DEF FinishSet, Worker, Status
  <2> QED BY <1>4, <2>1 DEF FinishSet, TypeOK
<1>5. CASE BothSet(w)
  <2>1. [worker[w] EXCEPT !.at = "data", !.cell = "torn"] \in Worker
    BY <1>0, <1>5 DEF BothSet, Worker, Status
  <2>2. [heart[Owner[w]] EXCEPT !.at = "data"] \in Heart
    BY <1>0, <1>5 DEF BothSet, Heart
  <2> QED BY <1>0, <1>5, <2>1, <2>2 DEF BothSet, TypeOK
<1>6. CASE FinishData(w)
  <2>1. PICK s \in Status : worker' = [worker EXCEPT ![w] = [@ EXCEPT !.at = "update", !.cell = s]]
    BY <1>0, <1>6 DEF FinishData, Racy, Worker, Status
  <2>2. [worker[w] EXCEPT !.at = "update", !.cell = s] \in Worker
    BY <1>0, <1>6 DEF FinishData, Worker
  <2>3. [heart[Owner[w]] EXCEPT !.obj = NoWorker, !.cell = worker[w].cell] \in Heart
    BY <1>0 DEF Heart, Worker
  <2> QED BY <1>0, <1>6, <2>1, <2>2, <2>3 DEF FinishData, TypeOK
<1>7. ASSUME NEW b \in Applied, FinishUpdate(w, b) PROVE TypeOK'
  <2>1. worker[w].job \in Jobs /\ worker[w].cell \in Status
    BY <1>0, <1>7 DEF FinishUpdate, Worker
  <2>2. [st |-> worker[w].cell, age |-> 0, done |-> TRUE] \in Job /\ NewWorker \in Worker
    BY <2>1, QueueAssumption DEF Job, NewWorker, Worker, Status
  <2> QED BY <1>7, <2>1, <2>2 DEF FinishUpdate, TypeOK
<1> QED BY <1>1, <1>2, <1>3, <1>4, <1>5, <1>6, <1>7 DEF Pool

LEMMA CountType == ASSUME NEW on \in BOOLEAN, NEW n \in Nat PROVE Count(on, n) \in Nat
BY DEF Count

LEMMA TypeTick == TypeOK /\ Tick => TypeOK'
<1> SUFFICES ASSUME TypeOK, Tick PROVE TypeOK'
  OBVIOUS
<1>1. job' \in [Jobs -> Job]
  <2>1. ASSUME NEW j \in Jobs, job[j].age # Timeout
        PROVE  [job[j] EXCEPT !.age = job[j].age + 1] \in Job
    <3>1. job[j] \in Job /\ job[j].age \in 0..Timeout
      BY DEF TypeOK, Job
    <3> DEFINE n == job[j].age + 1
    <3>2. n \in 0..Timeout
      BY <2>1, <3>1, QueueAssumption
    <3> HIDE DEF n
    <3>3. [job[j] EXCEPT !.age = n] \in Job
      BY <3>1, <3>2 DEF Job
    <3> QED BY <3>3 DEF n
  <2> QED BY <2>1 DEF Tick, TypeOK
<1>2. consumer' \in [Procs -> Consumer]
  <2>1. \A p \in Procs, n \in Nat : [consumer[p] EXCEPT !.wait = n] \in Consumer
    BY DEF TypeOK, Consumer
  <2>2. \A p \in Procs : Count(consumer[p].at = "send", consumer[p].wait) \in Nat
    BY CountType DEF TypeOK, Consumer
  <2> QED BY <2>1, <2>2 DEF Tick
<1>3. worker' \in [Workers -> Worker]
  <2>1. \A w \in Workers, n \in Nat : [worker[w] EXCEPT !.lag = n] \in Worker
    BY DEF TypeOK, Worker
  <2>2. \A w \in Workers : Count(Handing(w), worker[w].lag) \in Nat
    <3>1. \A w \in Workers : worker[w].lag \in Nat /\ Handing(w) \in BOOLEAN
      BY DEF TypeOK, Worker, Handing
    <3> QED BY <3>1, CountType
  <2> QED BY <2>1, <2>2 DEF Tick
<1>4. heart' \in [Procs -> Heart]
  <2>1. \A p \in Procs, n \in Nat : [heart[p] EXCEPT !.gap = n] \in Heart
    BY DEF TypeOK, Heart
  <2>2. \A p \in Procs : Count(proc[p].mode = "up", heart[p].gap) \in Nat
    BY CountType DEF TypeOK, Heart
  <2> QED BY <2>1, <2>2 DEF Tick
<1>5. proc' \in [Procs -> Proc]
  <2>1. \A p \in Procs, n \in Nat : [proc[p] EXCEPT !.since = n] \in Proc
    BY DEF TypeOK, Proc
  <2>2. \A p \in Procs : Count(proc[p].mode = "stopping", proc[p].since) \in Nat
    BY CountType DEF TypeOK, Proc
  <2> QED BY <2>1, <2>2 DEF Tick
<1> QED BY <1>1, <1>2, <1>3, <1>4, <1>5 DEF Tick, TypeOK

LEMMA TypeStep == TypeOK /\ [Next]_vars => TypeOK'
<1> SUFFICES ASSUME TypeOK, [Next]_vars PROVE TypeOK'
  OBVIOUS
<1>1. CASE UNCHANGED vars
  BY <1>1 DEF TypeOK, vars
<1>2. ASSUME NEW p \in Procs, Process(p) PROVE TypeOK'
  BY <1>2, TypeConsume, TypeBeating DEF Process, Beating
<1> QED BY <1>1, <1>2, TypeOthers, TypePool, TypeTick DEF Next

\* Every stored job, goroutine and map entry keeps its type; in particular what is sent,
\* handled or renewed is a job, never nil (dao.go:140).
THEOREM QueueTypeCorrect == Spec => []TypeOK
BY TypeInit, TypeStep, PTL DEF Spec

-----------------------------------------------------------------------------
\* EntryIsHandled is inductive. A step that leaves beats and heart alone, and only
\* moves a worker no entry leads to, keeps it.
LEMMA EntryInit == Init => EntryIsHandled
BY DEF Init, EntryIsHandled, EntryLeads, ObjectLeads, NoBeats, NewHeart

LEMMA EntrySame ==
  EntryIsHandled /\ UNCHANGED <<worker, beats, heart>> => EntryIsHandled'
BY DEF EntryIsHandled, EntryLeads, ObjectLeads

LEMMA EntryEnds ==
  ASSUME TypeOK, EntryIsHandled, NEW p \in Procs, Ends(p) PROVE EntryIsHandled'
<1>1. ASSUME NEW q \in Procs, NEW j \in Jobs PROVE EntryLeads(q, j)'
  <2>1. CASE q = p
    BY <2>1 DEF Ends, TypeOK, EntryLeads, NoBeats
  <2>2. CASE q # p
    BY <2>2 DEF Ends, TypeOK, EntryIsHandled, EntryLeads
  <2> QED BY <2>1, <2>2
<1>2. ASSUME NEW q \in Procs PROVE ObjectLeads(q)'
  <2>1. CASE q = p
    BY <2>1 DEF Ends, TypeOK, ObjectLeads, NewHeart
  <2>2. CASE q # p
    <3>1. heart[q].obj \in Workers \cup {NoWorker}
      BY DEF TypeOK, Heart
    <3> QED BY <2>2, <3>1 DEF Ends, TypeOK, EntryIsHandled, ObjectLeads
  <2> QED BY <2>1, <2>2
<1> QED BY <1>1, <1>2 DEF EntryIsHandled

LEMMA EntryConsume ==
  ASSUME TypeOK, EntryIsHandled, NEW p \in Procs,
         \/ Crash(p) \/ Restart(p) \/ Stop(p) \/ Exit(p)
         \/ ConsumeGone(p) \/ AcquireNothing(p) \/ AcquireFails(p)
         \/ \E j \in Jobs : AcquireTakes(p, j)
         \/ \E w \in Workers : Receive(p, w)
  PROVE  EntryIsHandled'
<1>1. CASE Ends(p)
  BY <1>1, EntryEnds
<1>2. CASE UNCHANGED <<worker, beats, heart>>
  BY <1>2, EntrySame
<1>3. ASSUME NEW w \in Workers, Receive(p, w) PROVE EntryIsHandled'
  <2>1. \A v \in Workers : v # w => worker'[v] = worker[v]
    BY <1>3 DEF Receive, TypeOK
  <2>2. beats' = beats /\ heart' = heart /\ worker[w].at = "idle"
    BY <1>3 DEF Receive
  <2>3. ASSUME NEW q \in Procs, NEW j \in Jobs PROVE EntryLeads(q, j)'
    BY <2>1, <2>2 DEF TypeOK, EntryIsHandled, EntryLeads
  <2>4. ASSUME NEW q \in Procs PROVE ObjectLeads(q)'
    <3>1. heart[q].obj \in Workers \cup {NoWorker}
      BY DEF TypeOK, Heart
    <3> QED BY <2>1, <2>2, <3>1 DEF EntryIsHandled, ObjectLeads
  <2> QED BY <2>3, <2>4 DEF EntryIsHandled
<1> QED
  BY <1>1, <1>2, <1>3
     DEF Crash, Restart, Stop, Exit, ConsumeGone, AcquireNothing, AcquireFails, AcquireTakes

LEMMA EntryBeating ==
  ASSUME TypeOK, EntryIsHandled, NEW p \in Procs, Beating(p) PROVE EntryIsHandled'
<1>0. \A q \in Procs : heart[q] \in Heart
  BY DEF TypeOK
<1>1. beats' = beats
  BY DEF Beating, RoundStarts, RoundEnds, HeartSet, HeartData, Visit, HeartUpdate
<1>2. \A w \in Workers : worker'[w].at = worker[w].at /\ worker'[w].job = worker[w].job
  <2>1. CASE worker' = worker
    BY <2>1
  <2>2. CASE worker' = [worker EXCEPT ![heart[p].obj].cell = "doing"]
    BY <2>2 DEF TypeOK, Worker
  <2> QED
    BY <2>1, <2>2
       DEF Beating, RoundStarts, RoundEnds, HeartSet, HeartData, Visit, HeartUpdate
<1>3. ASSUME NEW q \in Procs, NEW j \in Jobs PROVE EntryLeads(q, j)'
  BY <1>1, <1>2 DEF TypeOK, EntryIsHandled, EntryLeads
<1>4. \A q \in Procs : q # p => heart'[q] = heart[q]
  BY DEF Beating, RoundStarts, RoundEnds, HeartSet, HeartData, Visit, HeartUpdate, TypeOK
<1>5. ASSUME NEW q \in Procs, q # p PROVE ObjectLeads(q)'
  BY <1>0, <1>2, <1>4, <1>5 DEF Heart, EntryIsHandled, ObjectLeads
<1>6. ObjectLeads(p)'
  <2>1. ObjectLeads(p) /\ heart[p].obj \in Workers \cup {NoWorker}
    BY <1>0 DEF EntryIsHandled, Heart
  <2>2. CASE heart'[p].obj = NoWorker
    BY <2>2 DEF ObjectLeads
  <2>3. CASE RoundStarts(p) \/ RoundEnds(p)
    <3>1. CASE RoundStarts(p)
      BY <1>0, <2>1, <2>2, <3>1 DEF RoundStarts, TypeOK, Heart, ObjectLeads
    <3>2. CASE RoundEnds(p)
      BY <1>0, <2>1, <2>2, <3>2 DEF RoundEnds, TypeOK, Heart, ObjectLeads
    <3> QED BY <2>3, <3>1, <3>2
  <2>4. CASE HeartSet(p)
    <3>1. CASE heart[p].obj = NoWorker
      <4>1. heart'[p] = [heart[p] EXCEPT !.at = "data", !.cell = "doing"]
        BY <2>4, <3>1 DEF HeartSet, TypeOK
      <4> QED BY <1>0, <2>2, <3>1, <4>1 DEF Heart
    <3>2. CASE heart[p].obj # NoWorker
      <4>1. heart'[p] = [heart[p] EXCEPT !.at = "data"]
        BY <2>4, <3>2 DEF HeartSet, TypeOK
      <4>2. /\ heart'[p].obj = heart[p].obj /\ heart'[p].job = heart[p].job
            /\ heart'[p].at = "data"
        BY <1>0, <4>1 DEF Heart
      <4> QED BY <1>2, <2>1, <4>2 DEF ObjectLeads
    <3> QED BY <3>1, <3>2
  <2>5. CASE HeartData(p)
    BY <1>0, <2>2, <2>5 DEF HeartData, TypeOK, Heart
  <2>6. ASSUME NEW j \in Jobs, Visit(p, j) PROVE ObjectLeads(p)'
    <3>1. CASE beats[p][j] = NoWorker
      <4>1. heart'[p].obj = heart[p].obj /\ heart[p].at = "range"
        BY <1>0, <2>6, <3>1 DEF Visit, TypeOK, Heart
      <4> QED BY <2>1, <2>2, <4>1 DEF ObjectLeads
    <3>2. CASE beats[p][j] # NoWorker
      <4>1. heart' = [heart EXCEPT ![p] = [@ EXCEPT !.at = "set",
                        !.left = heart[p].left \ {j}, !.job = j, !.obj = beats[p][j]]]
        BY <2>6, <3>2 DEF Visit
      <4>2. heart'[p].obj = beats[p][j] /\ heart'[p].job = j /\ heart'[p].at = "set"
        BY <1>0, <4>1 DEF TypeOK, Heart
      <4>3. beats[p][j] \in Workers /\ EntryLeads(p, j)
        BY <3>2 DEF TypeOK, EntryIsHandled
      <4> QED BY <1>2, <3>2, <4>2, <4>3 DEF ObjectLeads, EntryLeads
    <3> QED BY <3>1, <3>2
  <2>7. ASSUME NEW b \in Applied, HeartUpdate(p, b) PROVE ObjectLeads(p)'
    <3>1. heart'[p].obj = heart[p].obj /\ heart[p].at = "update"
      BY <1>0, <2>7 DEF HeartUpdate, TypeOK, Heart
    <3> QED BY <2>1, <2>2, <3>1 DEF ObjectLeads
  <2> QED BY <2>3, <2>4, <2>5, <2>6, <2>7 DEF Beating
<1> QED BY <1>3, <1>5, <1>6 DEF EntryIsHandled

\* The steps of worker w after which an entry or a held object may lead nowhere are
\* those that take w out of "handle" and out of "data".
LEMMA EntryPool ==
  ASSUME TypeOK, EntryIsHandled, NEW w \in Workers, Pool(w) PROVE EntryIsHandled'
<1> DEFINE o == Owner[w]
<1>0. /\ \A q \in Procs : heart[q] \in Heart
      /\ \A v \in Workers : worker[v] \in Worker
      /\ o \in Procs
  BY QueueAssumption DEF TypeOK
<1>1. /\ \A v \in Workers : v # w => worker'[v] = worker[v]
      /\ worker[w].at \in {"handle", "set", "data"} => worker'[w].job = worker[w].job
  <2>1. \A v \in Workers : v # w => worker'[v] = worker[v]
    <3>1. CASE FinishData(w)
      BY <3>1 DEF FinishData, TypeOK
    <3>2. CASE RangeEnds(w) \/ Store(w) \/ HandlersReturn(w)
      BY <3>2 DEF RangeEnds, Store, HandlersReturn, TypeOK
    <3>3. CASE FinishSet(w) \/ BothSet(w)
      BY <3>3 DEF FinishSet, BothSet, TypeOK
    <3>4. ASSUME NEW b \in Applied, FinishUpdate(w, b)
          PROVE  \A v \in Workers : v # w => worker'[v] = worker[v]
      BY <3>4 DEF FinishUpdate, TypeOK
    <3> QED BY <3>1, <3>2, <3>3, <3>4 DEF Pool
  <2>2. CASE HandlersReturn(w)
    BY <1>0, <2>1, <2>2 DEF HandlersReturn, TypeOK, Worker
  <2>3. CASE FinishSet(w)
    BY <1>0, <2>1, <2>3 DEF FinishSet, TypeOK, Worker
  <2>4. CASE BothSet(w)
    BY <1>0, <2>1, <2>4 DEF BothSet, TypeOK, Worker
  <2>5. CASE FinishData(w)
    BY <1>0, <2>1, <2>5 DEF FinishData, TypeOK, Worker
  <2>6. CASE worker[w].at \notin {"handle", "set", "data"}
    BY <2>1, <2>6 DEF TypeOK
  <2> QED
    BY <2>2, <2>3, <2>4, <2>5, <2>6 DEF Pool, RangeEnds, Store, FinishUpdate
<1>2. ASSUME NEW q \in Procs, NEW j \in Jobs PROVE EntryLeads(q, j)'
  <2>1. EntryLeads(q, j) /\ beats[q][j] \in Workers \cup {NoWorker}
    BY DEF EntryIsHandled, TypeOK
  <2>2. CASE Store(w)
    <3>1. worker'[w].at = "handle" /\ worker'[w].job = worker[w].job
          /\ worker[w].at = "store" /\ worker[w].job \in Jobs
      BY <1>0, <2>2 DEF Store, TypeOK, Worker
    <3>2. CASE q = o /\ j = worker[w].job
      BY <2>2, <3>1, <3>2 DEF Store, TypeOK, EntryLeads
    <3>3. CASE ~(q = o /\ j = worker[w].job)
      <4>1. beats'[q][j] = beats[q][j]
        BY <1>0, <2>2, <3>3 DEF Store, TypeOK
      <4> QED BY <1>1, <2>1, <3>1, <4>1 DEF EntryLeads
    <3> QED BY <3>2, <3>3
  <2>3. CASE HandlersReturn(w)
    <3>1. worker[w].job \in Jobs /\ worker[w].at = "handle"
      BY <1>0, <2>3 DEF HandlersReturn, Worker
    <3>2. CASE q = o /\ j = worker[w].job
      BY <2>3, <3>2, <1>0 DEF HandlersReturn, TypeOK, EntryLeads
    <3>3. CASE ~(q = o /\ j = worker[w].job)
      <4>1. beats'[q][j] = beats[q][j]
        BY <1>0, <2>3, <3>3 DEF HandlersReturn, TypeOK
      <4> QED BY <1>1, <2>1, <3>3, <4>1 DEF EntryLeads
    <3> QED BY <3>2, <3>3
  <2>4. CASE ~Store(w) /\ ~HandlersReturn(w)
    <3>1. beats' = beats /\ worker[w].at # "handle"
      BY <2>4 DEF Pool, RangeEnds, FinishSet, BothSet, FinishData, FinishUpdate
    <3> QED BY <1>1, <2>1, <3>1 DEF EntryLeads
  <2> QED BY <2>2, <2>3, <2>4
<1>3. ASSUME NEW q \in Procs PROVE ObjectLeads(q)'
  <2>1. ObjectLeads(q) /\ heart[q].obj \in Workers \cup {NoWorker}
    BY <1>0 DEF EntryIsHandled, Heart
  <2>2. CASE heart[q].obj # w
    <3>1. heart'[q] = heart[q]
      BY <1>0, <2>1, <2>2 DEF Pool, RangeEnds, Store, HandlersReturn, FinishSet, BothSet,
                              FinishData, FinishUpdate, Shares, TypeOK
    <3> QED BY <1>1, <2>1, <2>2, <3>1 DEF ObjectLeads
  <2>3. CASE heart[q].obj = w
    <3>1. q = o /\ worker[w].at \in {"handle", "set", "data"}
          /\ heart[q].at \in {"set", "data"} /\ worker[w].job = heart[q].job
      BY <2>1, <2>3, QueueAssumption DEF ObjectLeads
    <3>2. CASE HandlersReturn(w) \/ FinishSet(w)
      <4>1. CASE HandlersReturn(w)
        BY <1>0, <1>1, <2>3, <3>1, <4>1 DEF HandlersReturn, TypeOK, Worker, ObjectLeads
      <4>2. CASE FinishSet(w)
        BY <1>0, <1>1, <2>3, <3>1, <4>2 DEF FinishSet, TypeOK, Worker, ObjectLeads
      <4> QED BY <3>2, <4>1, <4>2
    <3>3. CASE BothSet(w)
      <4>1. /\ worker'[w].at = "data" /\ heart'[q].at = "data"
            /\ heart'[q].obj = w /\ heart'[q].job = heart[q].job
        BY <1>0, <2>3, <3>1, <3>3 DEF BothSet, TypeOK, Worker, Heart
      <4> QED BY <1>1, <3>1, <4>1 DEF ObjectLeads
    <3>4. CASE FinishData(w)
      <4>1. heart'[q].obj = NoWorker
        BY <1>0, <2>3, <3>1, <3>4 DEF FinishData, Shares, TypeOK, Heart
      <4> QED BY <4>1 DEF ObjectLeads
    <3> QED
      BY <3>1, <3>2, <3>3, <3>4 DEF Pool, RangeEnds, Store, FinishUpdate
  <2> QED BY <2>2, <2>3
<1> QED BY <1>2, <1>3 DEF EntryIsHandled

LEMMA EntryStep == TypeOK /\ EntryIsHandled /\ [Next]_vars => EntryIsHandled'
<1> SUFFICES ASSUME TypeOK, EntryIsHandled, [Next]_vars PROVE EntryIsHandled'
  OBVIOUS
<1>1. CASE UNCHANGED vars
  BY <1>1, EntrySame DEF vars
<1>2. CASE Others
  BY <1>2, EntrySame DEF Others, Insert, Edit, Delete
<1>3. ASSUME NEW p \in Procs, Process(p) PROVE EntryIsHandled'
  BY <1>3, EntryConsume, EntryBeating DEF Process, Beating
<1>4. CASE Tick
  <2>1. beats' = beats
    BY <1>4 DEF Tick
  <2>2. \A w \in Workers : worker'[w].at = worker[w].at /\ worker'[w].job = worker[w].job
    BY <1>4 DEF Tick, TypeOK, Worker
  <2>3. \A p \in Procs : /\ heart'[p].at = heart[p].at /\ heart'[p].job = heart[p].job
                         /\ heart'[p].obj = heart[p].obj
                         /\ heart[p].obj \in Workers \cup {NoWorker}
    BY <1>4 DEF Tick, TypeOK, Heart
  <2>4. ASSUME NEW p \in Procs, NEW j \in Jobs PROVE EntryLeads(p, j)'
    BY <2>1, <2>2 DEF TypeOK, EntryIsHandled, EntryLeads
  <2>5. ASSUME NEW p \in Procs PROVE ObjectLeads(p)'
    BY <2>2, <2>3 DEF EntryIsHandled, ObjectLeads
  <2> QED BY <2>4, <2>5 DEF EntryIsHandled
<1> QED BY <1>1, <1>2, <1>3, <1>4, EntryPool DEF Next

\* For any number of processes, workers and duplicate deliveries of a job, heartbeatMap
\* leads only to workers that handle it, and crontHeartbeat never holds the object of a
\* worker that has finished with it (worker.go:68, 73, 119).
THEOREM EntriesAreHandled == Spec => []EntryIsHandled
BY EntryInit, EntryStep, QueueTypeCorrect, PTL DEF Spec

-----------------------------------------------------------------------------
(***************************************************************************)
(* One worker per job: how old a job grows while somebody holds it.        *)
(***************************************************************************)
\* The longest a handled job goes without a renewal while its process is up: sent,
\* received and stored just after a round passed it, renewed at the end of the next.
Longest == 2 * HandGap + 2 * BeatGap

QueueDelaysBounded ==
  Timely = TRUE /\ Longest + HandGap < Timeout /\ Longest + Grace < Timeout

\* No delay has outgrown its bound, and one that is not running has not begun.
DelaysKept ==
  /\ \A p \in Procs : /\ heart[p].gap <= BeatGap
                      /\ consumer[p].wait <= HandGap /\ proc[p].since <= Grace
                      /\ consumer[p].at # "send" => consumer[p].wait = 0
                      /\ proc[p].mode # "stopping" => proc[p].since = 0
  /\ \A w \in Workers : worker[w].lag <= HandGap

\* A process that is down holds nothing; no channel is closed.
OpenAndRunning ==
  /\ \A p \in Procs : ~consumer[p].closed /\ (consumer[p].at = "send" => Running(p))
  /\ \A w \in Workers : Busy(w) => Running(Owner[w])

\* Nobody writes "init", and a job that is not stored does not age.
Written ==
  /\ \A w \in Workers : worker[w].cell # "init"
  /\ \A p \in Procs : heart[p].cell # "init"
  /\ \A j \in Jobs : ~Stored(j) => job[j].age = 0

Sent(p, j) == consumer[p].at = "send" /\ consumer[p].job = j
Has(w, j) == Busy(w) /\ worker[w].job = j

\* A job is in one channel or with one worker.
HeldOnce ==
  \A j \in Jobs :
    /\ \A v, w \in Workers : Has(v, j) /\ Has(w, j) => v = w
    /\ \A p, q \in Procs : Sent(p, j) /\ Sent(q, j) => p = q
    /\ \A p \in Procs, w \in Workers : ~(Sent(p, j) /\ Has(w, j))

\* The round that runs, or the next, is still to renew the job.
Pending(p, j) ==
  \/ heart[p].at = "sleep"
  \/ j \in heart[p].left
  \/ heart[p].at # "range" /\ heart[p].job = j

\* A job that is held is not older than its delays so far.
SentAge(p) == job[consumer[p].job].age <= consumer[p].wait

HandledAge(w) ==
  LET p == Owner[w]  age == job[worker[w].job].age IN
  IF proc[p].mode = "up"
  THEN /\ age <= 2 * HandGap + BeatGap + heart[p].gap
       /\ Pending(p, worker[w].job) \/ age <= 2 * HandGap + heart[p].gap
  ELSE age <= Longest + proc[p].since

HeldAge(w) ==
  LET p == Owner[w]  age == job[worker[w].job].age IN
  /\ worker[w].at = "store" => age <= HandGap + worker[w].lag
  /\ worker[w].at = "handle" => HandledAge(w)
  /\ worker[w].at \in {"set", "data", "update"} =>
       age <= Longest + worker[w].lag \/ age <= Longest + proc[p].since

SentYoung(p) ==
  consumer[p].at = "send" => job[consumer[p].job].st \notin {"none", "init"} /\ SentAge(p)

HeldYoung(w) ==
  Busy(w) => job[worker[w].job].st \notin {"none", "init"} /\ HeldAge(w)

HeldIsYoung == (\A p \in Procs : SentYoung(p)) /\ (\A w \in Workers : HeldYoung(w))

KeptInv == DelaysKept /\ OpenAndRunning /\ Written
HeldInv == HeldOnce /\ HandledIsRenewed /\ HeldIsYoung

LEMMA TimedTypes ==
  ASSUME TypeOK
  PROVE  /\ \A p \in Procs : /\ consumer[p] \in Consumer /\ heart[p] \in Heart /\ proc[p] \in Proc
                             /\ consumer[p].wait \in Nat /\ heart[p].gap \in Nat
                             /\ proc[p].since \in Nat
                             /\ consumer[p].at = "send" => consumer[p].job \in Jobs
         /\ \A w \in Workers : /\ worker[w] \in Worker /\ worker[w].lag \in Nat
                               /\ Owner[w] \in Procs
                               /\ Busy(w) => worker[w].job \in Jobs
         /\ \A j \in Jobs : job[j] \in Job /\ job[j].age \in Nat /\ job[j].age <= Timeout
         /\ HandGap \in Nat /\ BeatGap \in Nat /\ Grace \in Nat /\ Timeout \in Nat
<1>1. \A j \in Jobs : job[j] \in Job /\ job[j].age \in 0..Timeout
  BY DEF TypeOK, Job
<1>2. \A w \in Workers : worker[w] \in Worker /\ Owner[w] \in Procs
  BY QueueAssumption DEF TypeOK
<1> QED
  BY <1>1, <1>2, QueueAssumption DEF TypeOK, Consumer, Heart, Proc, Worker, Busy

LEMMA TimedTypesNext ==
  ASSUME TypeOK'
  PROVE  /\ \A p \in Procs : /\ consumer'[p].wait \in Nat /\ heart'[p].gap \in Nat
                             /\ proc'[p].since \in Nat
                             /\ consumer'[p].at = "send" => consumer'[p].job \in Jobs
         /\ \A w \in Workers : worker'[w].lag \in Nat /\ (Busy(w)' => worker'[w].job \in Jobs)
         /\ \A j \in Jobs : job'[j].age \in Nat
<1>1. \A j \in Jobs : job'[j].age \in 0..Timeout
  BY DEF TypeOK, Job
<1> QED
  BY <1>1, QueueAssumption DEF TypeOK, Consumer, Heart, Proc, Worker, Busy

\* A job that is held is not one acquire asks for.
LEMMA HeldIsNotWanted ==
  ASSUME QueueDelaysBounded, TypeOK, KeptInv, HeldInv, NEW j \in Jobs, NEW at, j \in Wanted(at)
  PROVE  (\A p \in Procs : ~Sent(p, j)) /\ (\A w \in Workers : ~Has(w, j))
<1>1. job[j].st = "init" \/ job[j].age >= Timeout
  BY DEF Wanted
<1>2. ASSUME NEW p \in Procs, Sent(p, j) PROVE FALSE
  <2>1. job[j].st # "init" /\ job[j].age <= consumer[p].wait /\ consumer[p].wait <= HandGap
    BY <1>2 DEF HeldInv, HeldIsYoung, SentYoung, SentAge, Sent, KeptInv, DelaysKept
  <2> QED  BY <1>1, <2>1, TimedTypes DEF QueueDelaysBounded, Longest
<1>3. ASSUME NEW w \in Workers, Has(w, j) PROVE FALSE
  <2> DEFINE p == Owner[w]
  <2>1. p \in Procs /\ job[j].st # "init" /\ HeldAge(w) /\ worker[w].job = j /\ Busy(w)
    BY <1>3, TimedTypes DEF HeldInv, HeldIsYoung, HeldYoung, Has
  <2>2. heart[p].gap <= BeatGap /\ worker[w].lag <= HandGap /\ proc[p].since <= Grace
    BY <2>1 DEF KeptInv, DelaysKept
  <2>3. /\ heart[p].gap \in Nat /\ worker[w].lag \in Nat /\ proc[p].since \in Nat
        /\ job[j].age \in Nat /\ HandGap \in Nat /\ BeatGap \in Nat /\ Grace \in Nat
        /\ Timeout \in Nat
    BY <2>1, TimedTypes
  <2>4. worker[w].at \in {"store", "handle", "set", "data", "update"}
    BY <2>1, TimedTypes DEF Busy, Worker
  <2> HIDE DEF p
  <2>5. job[j].age <= Longest + HandGap \/ job[j].age <= Longest + Grace
    <3>1. CASE worker[w].at = "store"
      BY <2>1, <2>2, <2>3, <3>1 DEF HeldAge, Longest
    <3>2. CASE worker[w].at = "handle"
      BY <2>1, <2>2, <2>3, <3>2 DEF HeldAge, HandledAge, Longest, p
    <3>3. CASE worker[w].at \in {"set", "data", "update"}
      BY <2>1, <2>2, <2>3, <3>3 DEF HeldAge, Longest, p
    <3> QED  BY <2>4, <3>1, <3>2, <3>3
  <2> QED  BY <1>1, <2>1, <2>3, <2>5 DEF QueueDelaysBounded, Longest
<1> QED  BY <1>2, <1>3

-----------------------------------------------------------------------------
\* Holders only leave: each job is still held once.
LEMMA HoldersLeave ==
  ASSUME HeldOnce,
         \A p \in Procs : consumer'[p].at = "send" =>
           consumer[p].at = "send" /\ consumer'[p].job = consumer[p].job,
         \A w \in Workers : Busy(w)' => Busy(w) /\ worker'[w].job = worker[w].job
  PROVE  HeldOnce'
BY DEF HeldOnce, Sent, Has

\* A step that does not take worker w any further leaves it its job, at most renewed.
StaysHeld(w) ==
  /\ Busy(w) /\ worker'[w].job = worker[w].job /\ worker'[w].lag = worker[w].lag
  /\ \/ worker'[w].at = worker[w].at
     \/ worker[w].at \in {"set", "data", "update"} /\ worker'[w].at \in {"set", "data", "update"}
  /\ heart'[Owner[w]].gap = heart[Owner[w]].gap
  /\ proc'[Owner[w]] = proc[Owner[w]]

Renewed(j) == job'[j].age = 0 \/ job'[j].age = job[j].age

StillYoung(j) ==
  /\ Renewed(j)
  /\ job[j].st \notin {"none", "init"} => job'[j].st \notin {"none", "init"}

LEMMA HeldStaysYoung ==
  ASSUME TypeOK, TypeOK', NEW w \in Workers, HeldYoung(w), StaysHeld(w),
         NEW j \in Jobs, j = worker[w].job, StillYoung(j),
         (worker[w].at = "handle" /\ Pending(Owner[w], j)) =>
           Pending(Owner[w], j)' \/ job'[j].age = 0
  PROVE  HeldYoung(w)'
<1> DEFINE p == Owner[w]
<1>1. /\ p \in Procs /\ HeldAge(w) /\ worker'[w].job = j
      /\ job[j].st \notin {"none", "init"} /\ job'[j].st \notin {"none", "init"}
  BY TimedTypes DEF StaysHeld, HeldYoung, StillYoung
<1>2. /\ heart[p].gap \in Nat /\ worker[w].lag \in Nat /\ proc[p].since \in Nat
      /\ HandGap \in Nat /\ BeatGap \in Nat
  BY <1>1, TimedTypes
<1>3. /\ heart'[p].gap = heart[p].gap /\ worker'[w].lag = worker[w].lag
      /\ proc'[p] = proc[p]
  BY DEF StaysHeld
<1> HIDE DEF p
<1>4. CASE job'[j].age = 0
  BY <1>1, <1>2, <1>3, <1>4 DEF HeldYoung, HeldAge, HandledAge, Longest, p
<1>5. CASE job'[j].age # 0 /\ job'[j].age = job[j].age
  BY <1>1, <1>3, <1>5 DEF HeldYoung, HeldAge, HandledAge, StaysHeld, p
<1> QED  BY <1>4, <1>5 DEF StillYoung, Renewed

\* A step in which nobody gets a job and nobody ends or starts to handle one.
LEMMA QuietHeld ==
  ASSUME TypeOK, TypeOK', HeldInv,
         \A p \in Procs : consumer'[p].at = "send" => consumer'[p] = consumer[p],
         \A w \in Workers : Busy(w)' =>
           /\ StaysHeld(w)
           /\ beats'[Owner[w]] = beats[Owner[w]]
           /\ \A j \in Jobs :
                (worker[w].at = "handle" /\ worker[w].job = j /\ Pending(Owner[w], j)) =>
                  Pending(Owner[w], j)' \/ job'[j].age = 0,
         \A j \in Jobs : StillYoung(j)
  PROVE  HeldInv'
<1>1. HeldOnce'
  BY HoldersLeave DEF HeldInv, StaysHeld
<1>2. HandledIsRenewed'
  BY DEF HandledIsRenewed, HeldInv, StaysHeld, Busy
<1>3. ASSUME NEW p \in Procs PROVE SentYoung(p)'
  <2> SUFFICES ASSUME consumer'[p].at = "send"
               PROVE  job'[consumer'[p].job].st \notin {"none", "init"} /\ SentAge(p)'
    BY DEF SentYoung
  <2> DEFINE j == consumer[p].job
  <2>1. consumer'[p] = consumer[p] /\ j \in Jobs /\ StillYoung(j) /\ SentYoung(p)
        /\ consumer[p].wait \in Nat
    BY TimedTypes DEF HeldInv, HeldIsYoung
  <2> QED  BY <2>1 DEF SentYoung, SentAge, StillYoung, Renewed
<1>4. ASSUME NEW w \in Workers PROVE HeldYoung(w)'
  <2>1. CASE ~Busy(w)'
    BY <2>1 DEF HeldYoung
  <2>2. CASE Busy(w)'
    <3> DEFINE j == worker[w].job
    <3>1. StaysHeld(w) /\ j \in Jobs /\ Has(w, j) /\ HeldYoung(w)
      BY <2>2, TimedTypes DEF StaysHeld, Has, HeldInv, HeldIsYoung
    <3> QED  BY <2>2, <3>1, HeldStaysYoung
  <2> QED  BY <2>1, <2>2
<1> QED  BY <1>1, <1>2, <1>3, <1>4 DEF HeldInv, HeldIsYoung

-----------------------------------------------------------------------------
LEMMA KeptInit == Init => KeptInv
BY QueueAssumption
   DEF Init, KeptInv, DelaysKept, OpenAndRunning, Written, NewConsumer, NewWorker, NewHeart,
       Busy, Stored, Status

\* No delay grows in a step that is not a Tick, other than to 0.
LEMMA QuietKept ==
  ASSUME TypeOK, TypeOK', KeptInv,
         \A p \in Procs :
           /\ heart'[p].gap \in {heart[p].gap, 0} /\ proc'[p].since \in {proc[p].since, 0}
           /\ consumer'[p].wait \in {consumer[p].wait, 0}
           /\ consumer'[p].at # "send" => consumer[p].at # "send" \/ consumer'[p].wait = 0
           /\ proc'[p].mode # "stopping" => proc[p].mode # "stopping" \/ proc'[p].since = 0
           /\ ~consumer'[p].closed
           /\ consumer'[p].at = "send" => Running(p)'
           /\ heart'[p].cell # "init",
         \A w \in Workers :
           /\ worker'[w].lag \in {worker[w].lag, 0} /\ worker'[w].cell # "init"
           /\ Busy(w)' => Running(Owner[w])',
         \A j \in Jobs : ~Stored(j)' => (~Stored(j) /\ job'[j].age = job[j].age)
                                         \/ job'[j].age = 0
  PROVE  KeptInv'
<1>1. DelaysKept'
  BY TimedTypes DEF KeptInv, DelaysKept
<1>2. OpenAndRunning' /\ Written'
  BY DEF KeptInv, OpenAndRunning, Written
<1> QED  BY <1>1, <1>2 DEF KeptInv

\* What a process that ends leaves of itself and of the others.
LEMMA EndsFields ==
  ASSUME TypeOK, NEW p \in Procs, Ends(p)
  PROVE  /\ \A q \in Procs \ {p} : /\ consumer'[q] = consumer[q] /\ heart'[q] = heart[q]
                                   /\ proc'[q] = proc[q] /\ beats'[q] = beats[q]
         /\ consumer'[p] = NewConsumer /\ heart'[p] = NewHeart
         /\ proc'[p] = [mode |-> "down", since |-> 0]
         /\ \A w \in Workers : worker'[w] = IF Owner[w] = p THEN NewWorker ELSE worker[w]
BY DEF Ends, TypeOK

LEMMA KeptEnds ==
  ASSUME TypeOK, TypeOK', KeptInv, NEW p \in Procs, Ends(p), UNCHANGED job
  PROVE  KeptInv'
<1>1. ASSUME NEW q \in Procs
      PROVE  /\ heart'[q].gap \in {heart[q].gap, 0} /\ proc'[q].since \in {proc[q].since, 0}
             /\ consumer'[q].wait \in {consumer[q].wait, 0}
             /\ consumer'[q].at # "send" => consumer[q].at # "send" \/ consumer'[q].wait = 0
             /\ proc'[q].mode # "stopping" => proc[q].mode # "stopping" \/ proc'[q].since = 0
             /\ ~consumer'[q].closed
             /\ consumer'[q].at = "send" => Running(q)'
             /\ heart'[q].cell # "init"
  <2>1. CASE q = p
    BY <2>1, EndsFields DEF NewConsumer, NewHeart
  <2>2. CASE q # p
    BY <2>2, EndsFields DEF KeptInv, OpenAndRunning, Written, Running
  <2> QED  BY <2>1, <2>2
<1>2. ASSUME NEW w \in Workers
      PROVE  /\ worker'[w].lag \in {worker[w].lag, 0} /\ worker'[w].cell # "init"
             /\ Busy(w)' => Running(Owner[w])'
  <2>1. CASE Owner[w] = p
    BY <2>1, EndsFields DEF NewWorker, Busy
  <2>2. CASE Owner[w] # p
    BY <2>2, EndsFields, TimedTypes DEF KeptInv, OpenAndRunning, Written, Running, Busy
  <2> QED  BY <2>1, <2>2
<1> QED  BY <1>1, <1>2, QuietKept DEF Stored

LEMMA KeptConsume ==
  ASSUME QueueDelaysBounded, TypeOK, TypeOK', KeptInv, NEW p \in Procs,
         \/ Restart(p) \/ Stop(p)
         \/ ConsumeGone(p) \/ AcquireNothing(p)
         \/ \E j \in Jobs : AcquireTakes(p, j)
         \/ \E w \in Workers : Receive(p, w)
  PROVE  KeptInv'
<1>0. consumer[p] \in Consumer /\ proc[p] \in Proc /\ ~consumer[p].closed
  BY TimedTypes DEF KeptInv, OpenAndRunning
<1>1. /\ heart' = heart
      /\ \A q \in Procs \ {p} : consumer'[q] = consumer[q] /\ proc'[q] = proc[q]
  BY <1>0 DEF Restart, Stop, ConsumeGone, AcquireNothing, AcquireTakes, Receive, Loop, TypeOK
<1>2. CASE Restart(p) \/ Stop(p)
  <2>1. /\ consumer' = consumer /\ worker' = worker /\ job' = job
        /\ proc'[p].since = proc[p].since /\ proc'[p].mode # "down"
        /\ proc'[p].mode # "stopping" => proc[p].mode # "stopping"
    BY <1>0, <1>2 DEF Restart, Stop, TypeOK, Proc, Running
  <2>2. /\ \A q \in Procs : Running(q) => Running(q)'
        /\ \A w \in Workers : Busy(w)' = Busy(w)
        /\ \A j \in Jobs : Stored(j)' = Stored(j)
    BY <1>1, <2>1 DEF Running, Busy, Stored
  <2> QED
    BY <1>1, <2>1, <2>2, TimedTypes, QuietKept DEF KeptInv, OpenAndRunning, Written
<1>3. CASE ConsumeGone(p) \/ AcquireNothing(p)
  <2>1. /\ proc' = proc /\ worker' = worker /\ job' = job
        /\ consumer[p].at # "send" /\ consumer'[p].at # "send" /\ ~consumer'[p].closed
        /\ consumer'[p].wait \in {consumer[p].wait, 0}
    <3>1. CASE ConsumeGone(p)
      BY <1>0, <3>1 DEF ConsumeGone, TypeOK, Consumer
    <3>2. CASE AcquireNothing(p) /\ consumer[p].at = "stale"
      <4>1. /\ consumer' = [consumer EXCEPT ![p].at = "waiting"]
            /\ UNCHANGED <<job, worker, proc>>
        BY <3>2 DEF AcquireNothing
      <4> QED  BY <1>0, <3>2, <4>1 DEF TypeOK, Consumer
    <3>3. CASE AcquireNothing(p) /\ consumer[p].at # "stale"
      <4>1. /\ consumer' = [consumer EXCEPT ![p] = [@ EXCEPT !.at = "stale", !.job = NoJob,
                                                            !.retry = FALSE, !.wait = 0]]
            /\ UNCHANGED <<job, worker, proc>> /\ consumer[p].at = "waiting"
        BY <3>3 DEF AcquireNothing, Loop
      <4> QED  BY <1>0, <4>1 DEF TypeOK, Consumer
    <3> QED  BY <1>3, <3>1, <3>2, <3>3
  <2>2. /\ \A q \in Procs : Running(q)' = Running(q)
        /\ \A w \in Workers : Busy(w)' = Busy(w)
        /\ \A j \in Jobs : Stored(j)' = Stored(j)
    BY <2>1 DEF Running, Busy, Stored
  <2> QED
    BY <1>1, <2>1, <2>2, TimedTypes, QuietKept DEF KeptInv, OpenAndRunning, Written
<1>4. ASSUME NEW k \in Jobs, AcquireTakes(p, k) PROVE KeptInv'
  <2>1. /\ proc' = proc /\ worker' = worker /\ Running(p)
        /\ consumer[p].at # "send" /\ ~consumer'[p].closed
        /\ consumer'[p].wait = consumer[p].wait
    <3>1. /\ consumer' = [consumer EXCEPT ![p] = [@ EXCEPT !.at = "send", !.job = k]]
          /\ UNCHANGED <<worker, proc>> /\ Running(p) /\ consumer[p].at # "send"
      BY <1>0, <1>4 DEF AcquireTakes
    <3> QED  BY <1>0, <3>1 DEF TypeOK, Consumer
  <2>2. \A j \in Jobs \ {k} : job'[j] = job[j]
    BY <1>4 DEF AcquireTakes, Taken, TypeOK
  <2>3. job'[k].st = "doing"
    BY <1>4, TimedTypes DEF AcquireTakes, Taken, TypeOK, Job
  <2>4. /\ \A q \in Procs : Running(q)' = Running(q)
        /\ \A w \in Workers : Busy(w)' = Busy(w)
        /\ \A j \in Jobs : ~Stored(j)' => ~Stored(j) /\ job'[j].age = job[j].age
    BY <2>1, <2>2, <2>3 DEF Running, Busy, Stored, Status
  <2> QED
    BY <1>1, <2>1, <2>4, TimedTypes, QuietKept DEF KeptInv, OpenAndRunning, Written
<1>5. ASSUME NEW v \in Workers, Receive(p, v) PROVE KeptInv'
  <2>1. /\ proc' = proc /\ job' = job /\ Running(p) /\ Owner[v] = p
        /\ consumer'[p].at = "stale" /\ consumer'[p].wait = 0 /\ ~consumer'[p].closed
    BY <1>0, <1>5 DEF Receive, Loop, TypeOK, Consumer
  <2>2. /\ worker'[v].lag = 0 /\ worker'[v].cell = "doing"
        /\ \A w \in Workers \ {v} : worker'[w] = worker[w]
    BY <1>5 DEF Receive, TypeOK
  <2>3. /\ \A q \in Procs : Running(q)' = Running(q)
        /\ \A w \in Workers \ {v} : Busy(w)' = Busy(w)
        /\ \A j \in Jobs : Stored(j)' = Stored(j)
    BY <2>1, <2>2 DEF Running, Busy, Stored
  <2> QED
    BY <1>1, <2>1, <2>2, <2>3, TimedTypes, QuietKept DEF KeptInv, OpenAndRunning, Written
<1> QED  BY <1>2, <1>3, <1>4, <1>5

\* A step of crontHeartbeat moves its own goroutine, and writes "doing" into an object
\* and what it read into a job.
LEMMA BeatingFields ==
  ASSUME TypeOK, Written, NEW p \in Procs, Beating(p)
  PROVE  /\ UNCHANGED <<consumer, beats, proc>>
         /\ \A q \in Procs \ {p} : heart'[q] = heart[q]
         /\ heart'[p].cell # "init"
         /\ heart'[p].gap = heart[p].gap \/ (RoundEnds(p) /\ heart'[p].gap = 0)
         /\ \A w \in Workers : /\ worker'[w].at = worker[w].at /\ worker'[w].job = worker[w].job
                               /\ worker'[w].lag = worker[w].lag /\ worker'[w].cell # "init"
         /\ \A j \in Jobs : \/ job'[j] = job[j]
                            \/ Stored(j) /\ job'[j].age = 0 /\ job'[j].st \in Status \ {"init"}
<1>0. heart[p] \in Heart /\ heart[p].cell # "init"
  BY TimedTypes DEF Written
<1>1. /\ UNCHANGED <<consumer, beats, proc>>
      /\ \A q \in Procs \ {p} : heart'[q] = heart[q]
  BY DEF Beating, RoundStarts, RoundEnds, HeartSet, HeartData, Visit, HeartUpdate, TypeOK
<1>2. ASSUME NEW w \in Workers
      PROVE  /\ worker'[w].at = worker[w].at /\ worker'[w].job = worker[w].job
             /\ worker'[w].lag = worker[w].lag /\ worker'[w].cell # "init"
  <2>1. CASE worker' = worker
    BY <2>1 DEF Written
  <2>2. CASE worker' = [worker EXCEPT ![heart[p].obj].cell = "doing"]
    BY <2>2 DEF TypeOK, Worker, Written
  <2> QED
    BY <2>1, <2>2
       DEF Beating, RoundStarts, RoundEnds, HeartSet, HeartData, Visit, HeartUpdate
<1>3. CASE RoundStarts(p)
  <2>1. heart'[p].gap = heart[p].gap /\ heart'[p].cell = heart[p].cell /\ job' = job
    BY <1>0, <1>3 DEF RoundStarts, TypeOK, Heart
  <2> QED  BY <1>0, <1>1, <1>2, <2>1
<1>4. CASE RoundEnds(p)
  <2>1. heart'[p].gap = 0 /\ heart'[p].cell = heart[p].cell /\ job' = job
    BY <1>0, <1>4 DEF RoundEnds, TypeOK, Heart
  <2> QED  BY <1>0, <1>1, <1>2, <1>4, <2>1
<1>5. CASE HeartSet(p)
  <2>1. /\ job' = job
        /\ \/ heart' = [heart EXCEPT ![p] = [@ EXCEPT !.at = "data", !.cell = "doing"]]
           \/ heart' = [heart EXCEPT ![p].at = "data"]
    BY <1>5 DEF HeartSet
  <2>2. heart'[p].gap = heart[p].gap /\ heart'[p].cell \in {"doing", heart[p].cell}
    <3>1. CASE heart' = [heart EXCEPT ![p] = [@ EXCEPT !.at = "data", !.cell = "doing"]]
      BY <1>0, <3>1 DEF TypeOK, Heart
    <3>2. CASE heart' = [heart EXCEPT ![p].at = "data"]
      BY <1>0, <3>2 DEF TypeOK, Heart
    <3> QED  BY <2>1, <3>1, <3>2
  <2> QED  BY <1>0, <1>1, <1>2, <2>1, <2>2
<1>6. CASE HeartData(p)
  <2>1. PICK s : /\ s # "init"
                 /\ heart' = [heart EXCEPT ![p] = [@ EXCEPT !.at = "update", !.obj = NoWorker,
                                                            !.cell = s]]
    BY <1>0, <1>6 DEF HeartData, Racy, Written, Heart
  <2>2. heart'[p].gap = heart[p].gap /\ heart'[p].cell = s /\ job' = job
    BY <1>0, <1>6, <2>1 DEF HeartData, TypeOK, Heart
  <2> QED  BY <1>1, <1>2, <2>1, <2>2
<1>7. ASSUME NEW j \in Jobs, Visit(p, j)
      PROVE  heart'[p].gap = heart[p].gap /\ heart'[p].cell = heart[p].cell /\ job' = job
  BY <1>0, <1>7 DEF Visit, TypeOK, Heart
<1>8. ASSUME NEW b \in Applied, HeartUpdate(p, b)
      PROVE  /\ heart'[p].gap = heart[p].gap /\ heart'[p].cell = "doing"
             /\ \A j \in Jobs :
                  \/ job'[j] = job[j]
                  \/ Stored(j) /\ job'[j].age = 0 /\ job'[j].st \in Status \ {"init"}
  <2>1. heart'[p].gap = heart[p].gap /\ heart'[p].cell = "doing"
    BY <1>0, <1>8 DEF HeartUpdate, TypeOK, Heart
  <2>2. ASSUME NEW j \in Jobs
        PROVE  \/ job'[j] = job[j]
               \/ Stored(j) /\ job'[j].age = 0 /\ job'[j].st \in Status \ {"init"}
    <3>1. CASE job' = job
      BY <3>1
    <3>2. CASE job' = [job EXCEPT ![heart[p].job] =
                         [@ EXCEPT !.st = heart[p].cell, !.age = 0]]
               /\ Stored(heart[p].job)
      BY <1>0, <3>2 DEF TypeOK, Job, Heart
    <3> QED  BY <1>8, <3>1, <3>2 DEF HeartUpdate
  <2> QED  BY <2>1, <2>2
<1> QED  BY <1>0, <1>1, <1>2, <1>3, <1>4, <1>5, <1>6, <1>7, <1>8 DEF Beating

LEMMA KeptBeating ==
  ASSUME TypeOK, TypeOK', KeptInv, NEW p \in Procs, Beating(p) PROVE KeptInv'
<1>1. /\ \A q \in Procs : Running(q)' = Running(q) /\ heart'[q].gap \in {heart[q].gap, 0}
                          /\ heart'[q].cell # "init"
      /\ \A w \in Workers : Busy(w)' = Busy(w)
      /\ \A j \in Jobs : ~Stored(j)' => ~Stored(j) /\ job'[j].age = job[j].age
  BY BeatingFields DEF KeptInv, Written, Running, Busy, Stored
<1> QED
  BY <1>1, BeatingFields, TimedTypes, QuietKept DEF KeptInv, OpenAndRunning, Written

\* A step of worker w moves w.
LEMMA PoolFields ==
  ASSUME TypeOK, Written, NEW w \in Workers, Pool(w)
  PROVE  /\ UNCHANGED <<consumer, proc>>
         /\ \A v \in Workers \ {w} : worker'[v] = worker[v]
         /\ worker'[w].lag \in {worker[w].lag, 0} /\ worker'[w].cell # "init"
         /\ Busy(w)' => Busy(w)
         /\ \A q \in Procs : /\ heart'[q].gap = heart[q].gap /\ heart'[q].cell # "init"
                             /\ heart'[q].left = heart[q].left /\ heart'[q].job = heart[q].job
                             /\ \/ heart'[q].at = heart[q].at
                                \/ heart[q].at = "set" /\ heart'[q].at = "data"
         /\ \A j \in Jobs : \/ job'[j] = job[j]
                            \/ Stored(j) /\ job'[j].age = 0 /\ job'[j].st \in Status \ {"init"}
<1>0. /\ worker[w] \in Worker /\ worker[w].cell # "init"
      /\ \A q \in Procs : heart[q] \in Heart /\ heart[q].cell # "init"
      /\ Owner[w] \in Procs
  BY TimedTypes DEF Written
<1>1. CASE RangeEnds(w)
  BY <1>0, <1>1 DEF RangeEnds, TypeOK, Worker, Busy
<1>2. CASE Store(w)
  BY <1>0, <1>2 DEF Store, TypeOK, Worker, Busy
<1>3. CASE HandlersReturn(w)
  BY <1>0, <1>3 DEF HandlersReturn, TypeOK, Worker, Busy
<1>4. CASE FinishSet(w)
  BY <1>0, <1>4 DEF FinishSet, TypeOK, Worker, Busy
<1>5. CASE BothSet(w)
  <2>1. /\ UNCHANGED <<consumer, proc, job>>
        /\ \A v \in Workers \ {w} : worker'[v] = worker[v]
        /\ worker'[w].lag = worker[w].lag /\ worker'[w].cell = "torn" /\ Busy(w)
    BY <1>0, <1>5 DEF BothSet, TypeOK, Worker, Busy
  <2>2. \A q \in Procs : /\ heart'[q].gap = heart[q].gap /\ heart'[q].cell = heart[q].cell
                         /\ heart'[q].left = heart[q].left /\ heart'[q].job = heart[q].job
                         /\ \/ heart'[q].at = heart[q].at
                            \/ heart[q].at = "set" /\ heart'[q].at = "data"
    BY <1>0, <1>5 DEF BothSet, TypeOK, Heart
  <2> QED  BY <1>0, <2>1, <2>2
<1>6. CASE FinishData(w)
  <2>1. PICK s : /\ s # "init"
                 /\ worker' = [worker EXCEPT ![w] = [@ EXCEPT !.at = "update", !.cell = s]]
    BY <1>0, <1>6 DEF FinishData, Racy
  <2>2. /\ UNCHANGED <<consumer, proc, job>>
        /\ \A v \in Workers \ {w} : worker'[v] = worker[v]
        /\ worker'[w].lag = worker[w].lag /\ worker'[w].cell = s /\ Busy(w)
    BY <1>0, <1>6, <2>1 DEF FinishData, TypeOK, Worker, Busy
  <2>3. \A q \in Procs : /\ heart'[q].gap = heart[q].gap /\ heart'[q].cell # "init"
                         /\ heart'[q].left = heart[q].left /\ heart'[q].job = heart[q].job
                         /\ heart'[q].at = heart[q].at
    BY <1>0, <1>6 DEF FinishData, TypeOK, Heart
  <2> QED  BY <2>1, <2>2, <2>3
<1>7. ASSUME NEW b \in Applied, FinishUpdate(w, b)
      PROVE  /\ UNCHANGED <<consumer, proc, heart>> /\ worker' = [worker EXCEPT ![w] = NewWorker]
             /\ Busy(w)
             /\ \A j \in Jobs :
                  \/ job'[j] = job[j]
                  \/ Stored(j) /\ job'[j].age = 0 /\ job'[j].st \in Status \ {"init"}
  <2>1. ASSUME NEW j \in Jobs
        PROVE  \/ job'[j] = job[j]
               \/ Stored(j) /\ job'[j].age = 0 /\ job'[j].st \in Status \ {"init"}
    <3>1. CASE job' = job
      BY <3>1
    <3>2. CASE job' = [job EXCEPT ![worker[w].job] =
                         [st |-> worker[w].cell, age |-> 0, done |-> TRUE]]
               /\ Stored(worker[w].job)
      BY <1>0, <3>2 DEF TypeOK, Worker
    <3> QED  BY <1>7, <3>1, <3>2 DEF FinishUpdate
  <2> QED  BY <1>7, <2>1 DEF FinishUpdate, Busy
<1>8. ASSUME NEW b \in Applied, FinishUpdate(w, b)
      PROVE  /\ \A v \in Workers \ {w} : worker'[v] = worker[v]
             /\ worker'[w].lag = 0 /\ worker'[w].cell = "doing"
  BY <1>7, <1>8 DEF TypeOK, NewWorker
<1> QED  BY <1>0, <1>1, <1>2, <1>3, <1>4, <1>5, <1>6, <1>7, <1>8 DEF Pool

LEMMA KeptPool ==
  ASSUME TypeOK, TypeOK', KeptInv, NEW w \in Workers, Pool(w) PROVE KeptInv'
<1>1. /\ \A q \in Procs : Running(q)' = Running(q)
      /\ \A v \in Workers : Busy(v)' => Busy(v)
      /\ \A j \in Jobs : ~Stored(j)' => ~Stored(j) /\ job'[j].age = job[j].age
  BY PoolFields DEF KeptInv, Running, Busy, Stored
<1>2. \A v \in Workers : worker'[v].lag \in {worker[v].lag, 0} /\ worker'[v].cell # "init"
  BY PoolFields DEF KeptInv, Written
<1> QED
  BY <1>1, <1>2, PoolFields, TimedTypes, QuietKept DEF KeptInv, OpenAndRunning, Written

\* What time does to the delays and the ages.
LEMMA TickFields ==
  ASSUME TypeOK, Tick, Timely = TRUE
  PROVE  /\ InTime /\ beats' = beats
         /\ \A p \in Procs :
              /\ consumer'[p].at = consumer[p].at /\ consumer'[p].job = consumer[p].job
              /\ consumer'[p].closed = consumer[p].closed
              /\ consumer'[p].wait = IF consumer[p].at = "send" THEN consumer[p].wait + 1
                                     ELSE consumer[p].wait
              /\ heart'[p].at = heart[p].at /\ heart'[p].job = heart[p].job
              /\ heart'[p].left = heart[p].left /\ heart'[p].cell = heart[p].cell
              /\ heart'[p].gap = IF proc[p].mode = "up" THEN heart[p].gap + 1 ELSE heart[p].gap
              /\ proc'[p].mode = proc[p].mode
              /\ proc'[p].since = IF proc[p].mode = "stopping" THEN proc[p].since + 1
                                  ELSE proc[p].since
         /\ \A w \in Workers :
              /\ worker'[w].at = worker[w].at /\ worker'[w].job = worker[w].job
              /\ worker'[w].cell = worker[w].cell
              /\ worker'[w].lag = IF Handing(w) THEN worker[w].lag + 1 ELSE worker[w].lag
         /\ \A j \in Jobs : /\ job'[j].st = job[j].st /\ job'[j].age <= job[j].age + 1
                            /\ ~Stored(j) => job'[j] = job[j]
<1>1. InTime /\ beats' = beats
  BY DEF Tick
<1>2. ASSUME NEW p \in Procs
      PROVE  /\ consumer'[p].at = consumer[p].at /\ consumer'[p].job = consumer[p].job
             /\ consumer'[p].closed = consumer[p].closed
             /\ consumer'[p].wait = IF consumer[p].at = "send" THEN consumer[p].wait + 1
                                    ELSE consumer[p].wait
  <2> DEFINE n == Count(consumer[p].at = "send", consumer[p].wait)
  <2>1. consumer[p] \in Consumer /\ consumer'[p] = [consumer[p] EXCEPT !.wait = n]
    BY TimedTypes DEF Tick
  <2> HIDE DEF n
  <2>2. /\ consumer'[p].at = consumer[p].at /\ consumer'[p].job = consumer[p].job
        /\ consumer'[p].closed = consumer[p].closed /\ consumer'[p].wait = n
    BY <2>1 DEF Consumer
  <2> QED  BY <2>2 DEF n, Count
<1>3. ASSUME NEW p \in Procs
      PROVE  /\ heart'[p].at = heart[p].at /\ heart'[p].job = heart[p].job
             /\ heart'[p].left = heart[p].left /\ heart'[p].cell = heart[p].cell
             /\ heart'[p].gap = IF proc[p].mode = "up" THEN heart[p].gap + 1 ELSE heart[p].gap
  <2> DEFINE n == Count(proc[p].mode = "up", heart[p].gap)
  <2>1. heart[p] \in Heart /\ heart'[p] = [heart[p] EXCEPT !.gap = n]
    BY TimedTypes DEF Tick
  <2> HIDE DEF n
  <2>2. /\ heart'[p].at = heart[p].at /\ heart'[p].job = heart[p].job
        /\ heart'[p].left = heart[p].left /\ heart'[p].cell = heart[p].cell
        /\ heart'[p].gap = n
    BY <2>1 DEF Heart
  <2> QED  BY <2>2 DEF n, Count
<1>4. ASSUME NEW p \in Procs
      PROVE  /\ proc'[p].mode = proc[p].mode
             /\ proc'[p].since = IF proc[p].mode = "stopping" THEN proc[p].since + 1
                                 ELSE proc[p].since
  <2> DEFINE n == Count(proc[p].mode = "stopping", proc[p].since)
  <2>1. proc[p] \in Proc /\ proc'[p] = [proc[p] EXCEPT !.since = n]
    BY TimedTypes DEF Tick
  <2> HIDE DEF n
  <2>2. proc'[p].mode = proc[p].mode /\ proc'[p].since = n
    BY <2>1 DEF Proc
  <2> QED  BY <2>2 DEF n, Count
<1>5. ASSUME NEW w \in Workers
      PROVE  /\ worker'[w].at = worker[w].at /\ worker'[w].job = worker[w].job
             /\ worker'[w].cell = worker[w].cell
             /\ worker'[w].lag = IF Handing(w) THEN worker[w].lag + 1 ELSE worker[w].lag
  <2> DEFINE n == Count(Handing(w), worker[w].lag)
  <2>1. worker[w] \in Worker /\ worker'[w] = [worker[w] EXCEPT !.lag = n]
    BY TimedTypes DEF Tick
  <2> HIDE DEF n
  <2>2. /\ worker'[w].at = worker[w].at /\ worker'[w].job = worker[w].job
        /\ worker'[w].cell = worker[w].cell /\ worker'[w].lag = n
    BY <2>1 DEF Worker
  <2> QED  BY <2>2 DEF n, Count
<1>6. ASSUME NEW j \in Jobs
      PROVE  /\ job'[j].st = job[j].st /\ job'[j].age <= job[j].age + 1
             /\ ~Stored(j) => job'[j] = job[j]
  <2> DEFINE n == job[j].age + 1
  <2>1. /\ job[j] \in Job /\ job[j].age \in Nat
        /\ job'[j] = IF ~Stored(j) \/ job[j].age = Timeout THEN job[j]
                     ELSE [job[j] EXCEPT !.age = n]
    BY TimedTypes DEF Tick
  <2> HIDE DEF n
  <2>2. job'[j].st = job[j].st /\ job'[j].age \in {job[j].age, n}
    BY <2>1 DEF Job
  <2> QED  BY <2>1, <2>2 DEF n
<1> QED  BY <1>1, <1>2, <1>3, <1>4, <1>5, <1>6

LEMMA KeptTick ==
  ASSUME Timely = TRUE, TypeOK, TypeOK', KeptInv, Tick PROVE KeptInv'
<1>1. ASSUME NEW p \in Procs
      PROVE  /\ heart'[p].gap <= BeatGap
             /\ consumer'[p].wait <= HandGap /\ proc'[p].since <= Grace
             /\ consumer'[p].at # "send" => consumer'[p].wait = 0
             /\ proc'[p].mode # "stopping" => proc'[p].since = 0
  <2>1. /\ heart[p].gap <= BeatGap /\ consumer[p].wait <= HandGap /\ proc[p].since <= Grace
        /\ consumer[p].at # "send" => consumer[p].wait = 0
        /\ proc[p].mode # "stopping" => proc[p].since = 0
    BY DEF KeptInv, DelaysKept
  <2>2. /\ proc[p].mode = "up" => heart[p].gap < BeatGap
        /\ consumer[p].at = "send" => consumer[p].wait < HandGap
        /\ proc[p].mode = "stopping" => proc[p].since < Grace
    BY TickFields DEF InTime
  <2>3. /\ heart[p].gap \in Nat /\ consumer[p].wait \in Nat /\ proc[p].since \in Nat
        /\ HandGap \in Nat /\ BeatGap \in Nat /\ Grace \in Nat
    BY TimedTypes
  <2> QED  BY <2>1, <2>2, <2>3, TickFields
<1>2. ASSUME NEW w \in Workers PROVE worker'[w].lag <= HandGap
  <2>1. /\ worker[w].lag <= HandGap /\ worker[w].lag \in Nat /\ HandGap \in Nat
        /\ Handing(w) => worker[w].lag < HandGap
    BY TickFields, TimedTypes DEF KeptInv, DelaysKept, InTime
  <2> QED  BY <2>1, TickFields
<1>3. OpenAndRunning'
  BY TickFields, TimedTypes DEF KeptInv, OpenAndRunning, Running, Busy
<1>4. Written'
  BY TickFields DEF KeptInv, Written, Stored
<1> QED  BY <1>1, <1>2, <1>3, <1>4 DEF KeptInv, DelaysKept

LEMMA KeptStep ==
  ASSUME QueueDelaysBounded, TypeOK, TypeOK', KeptInv, [Next]_vars PROVE KeptInv'
<1>1. ASSUME UNCHANGED <<consumer, worker, heart, proc>>,
             \A j \in Jobs : ~Stored(j)' => \/ ~Stored(j) /\ job'[j].age = job[j].age
                                            \/ job'[j].age = 0
      PROVE  KeptInv'
  BY <1>1 DEF KeptInv, DelaysKept, OpenAndRunning, Written, Running, Busy
<1>2. CASE UNCHANGED vars
  BY <1>1, <1>2 DEF vars, Stored
<1>3. ASSUME NEW k \in Jobs, Insert(k) \/ Edit(k) \/ Delete(k) PROVE KeptInv'
  <2>1. /\ \A j \in Jobs \ {k} : job'[j] = job[j]
        /\ job'[k].age = 0
    BY <1>3, TimedTypes DEF Insert, Edit, Delete, TypeOK, Job
  <2> QED  BY <1>1, <1>3, <2>1 DEF Insert, Edit, Delete, Stored
<1>4. ASSUME NEW p \in Procs, Process(p) PROVE KeptInv'
  <2>1. CASE Crash(p) \/ Exit(p)
    BY <2>1, KeptEnds DEF Crash, Exit
  <2>2. ~AcquireFails(p)
    BY DEF AcquireFails, QueueDelaysBounded
  <2> QED  BY <1>4, <2>1, <2>2, KeptConsume, KeptBeating DEF Process, Beating
<1>5. CASE Tick
  BY <1>5, KeptTick DEF QueueDelaysBounded
<1> QED  BY <1>2, <1>3, <1>4, <1>5, KeptPool DEF Next, Others

-----------------------------------------------------------------------------
LEMMA HeldInit == Init => HeldInv
BY DEF Init, HeldInv, HeldOnce, HandledIsRenewed, HeldIsYoung, SentYoung, HeldYoung, Sent, Has,
       Busy, NewConsumer, NewWorker

LEMMA HeldOthers ==
  ASSUME TypeOK, TypeOK', HeldInv, NEW k \in Jobs, Insert(k) \/ Edit(k) \/ Delete(k)
  PROVE  HeldInv'
<1>1. UNCHANGED <<consumer, worker, beats, heart, proc>>
  BY DEF Insert, Edit, Delete
<1>2. \A j \in Jobs \ {k} : job'[j] = job[j]
  BY DEF Insert, Edit, Delete, TypeOK
<1>3. job'[k].age = 0 /\ (job[k].st = "none" \/ job'[k].st \in {"deleted", job[k].st})
  BY TimedTypes DEF Insert, Edit, Delete, TypeOK, Job
<1>4. \A j \in Jobs : StillYoung(j)
  BY <1>2, <1>3 DEF StillYoung, Renewed
<1> QED  BY <1>1, <1>4, QuietHeld DEF StaysHeld, Busy, Pending

LEMMA HeldEnds ==
  ASSUME TypeOK, TypeOK', HeldInv, NEW p \in Procs, Ends(p), UNCHANGED job PROVE HeldInv'
<1>1. \A q \in Procs : consumer'[q].at = "send" => consumer'[q] = consumer[q]
  BY EndsFields DEF NewConsumer
<1>2. ASSUME NEW w \in Workers, Busy(w)'
      PROVE  StaysHeld(w) /\ beats'[Owner[w]] = beats[Owner[w]]
             /\ \A j \in Jobs : Pending(Owner[w], j) => Pending(Owner[w], j)'
  <2>1. Owner[w] # p
    BY <1>2, EndsFields DEF Busy, NewWorker
  <2> QED  BY <1>2, <2>1, EndsFields, TimedTypes DEF StaysHeld, Busy, Pending
<1>3. \A j \in Jobs : StillYoung(j)
  BY DEF StillYoung, Renewed
<1> QED  BY <1>1, <1>2, <1>3, QuietHeld

\* A signal: from now on the Grace bounds what the heartbeats did.
LEMMA HeldSignal ==
  ASSUME TypeOK, TypeOK', KeptInv, HeldInv, NEW p \in Procs, Restart(p) \/ Stop(p)
  PROVE  HeldInv'
<1>1. /\ UNCHANGED <<job, consumer, worker, beats, heart>>
      /\ \A q \in Procs \ {p} : proc'[q] = proc[q]
      /\ proc'[p].since = proc[p].since
  BY TimedTypes DEF Restart, Stop, TypeOK, Proc
<1>2. HeldOnce' /\ HandledIsRenewed' /\ \A q \in Procs : SentYoung(q)'
  BY <1>1 DEF HeldInv, HeldOnce, HandledIsRenewed, HeldIsYoung, SentYoung, SentAge, Sent, Has, Busy
<1>3. ASSUME NEW w \in Workers PROVE HeldYoung(w)'
  <2> SUFFICES ASSUME Busy(w) PROVE HeldYoung(w)'
    BY <1>1 DEF HeldYoung, Busy
  <2>1. HeldYoung(w) /\ Owner[w] \in Procs /\ worker[w].job \in Jobs
    BY TimedTypes DEF HeldInv, HeldIsYoung
  <2>2. CASE Owner[w] # p
    BY <1>1, <2>1, <2>2 DEF HeldYoung, HeldAge, HandledAge, Pending, Busy
  <2>3. CASE Owner[w] = p
    <3>1. proc[p].mode = "up" /\ proc'[p].mode = "stopping"
      BY <2>3, TimedTypes DEF Restart, Stop, TypeOK, Proc, KeptInv, OpenAndRunning
    <3>2. heart[p].gap <= BeatGap
      BY DEF KeptInv, DelaysKept
    <3>3. /\ heart[p].gap \in Nat /\ proc[p].since \in Nat /\ worker[w].lag \in Nat
          /\ job[worker[w].job].age \in Nat /\ HandGap \in Nat /\ BeatGap \in Nat
      BY <2>1, TimedTypes
    <3> QED
      BY <1>1, <2>1, <2>3, <3>1, <3>2, <3>3 DEF HeldYoung, HeldAge, HandledAge, Longest, Busy
  <2> QED  BY <2>2, <2>3
<1> QED  BY <1>2, <1>3 DEF HeldInv, HeldIsYoung

LEMMA HeldIdling ==
  ASSUME TypeOK, TypeOK', HeldInv, NEW p \in Procs, ConsumeGone(p) \/ AcquireNothing(p)
  PROVE  HeldInv'
<1>1. /\ UNCHANGED <<job, worker, beats, heart, proc>>
      /\ \A q \in Procs \ {p} : consumer'[q] = consumer[q]
  BY DEF ConsumeGone, AcquireNothing, Loop, TypeOK
<1>2. consumer'[p].at # "send"
  <2>1. CASE ConsumeGone(p)
    BY <2>1, TimedTypes DEF ConsumeGone, TypeOK, Consumer
  <2>2. CASE consumer' = [consumer EXCEPT ![p].at = "waiting"]
    BY <2>2, TimedTypes DEF TypeOK, Consumer
  <2>3. CASE Loop(p)
    BY <2>3, TimedTypes DEF Loop, TypeOK, Consumer
  <2> QED  BY <2>1, <2>2, <2>3 DEF AcquireNothing
<1> QED
  BY <1>1, <1>2, QuietHeld DEF StaysHeld, Busy, Pending, StillYoung, Renewed

\* acquire takes a job that is too old to be held by anybody.
LEMMA HeldAcquire ==
  ASSUME QueueDelaysBounded, TypeOK, TypeOK', KeptInv, HeldInv,
         NEW p \in Procs, NEW k \in Jobs, AcquireTakes(p, k)
  PROVE  HeldInv'
<1>1. /\ consumer' = [consumer EXCEPT ![p] = [@ EXCEPT !.at = "send", !.job = k]]
      /\ UNCHANGED <<worker, beats, heart, proc>>
      /\ consumer[p].at # "send"
  BY DEF AcquireTakes, KeptInv, OpenAndRunning
<1>2. /\ consumer'[p].at = "send" /\ consumer'[p].job = k /\ consumer'[p].wait = consumer[p].wait
      /\ \A q \in Procs \ {p} : consumer'[q] = consumer[q]
  BY <1>1, TimedTypes DEF TypeOK, Consumer
<1>3. (\A q \in Procs : ~Sent(q, k)) /\ (\A w \in Workers : ~Has(w, k))
  BY HeldIsNotWanted DEF AcquireTakes
<1>4. /\ \A j \in Jobs \ {k} : job'[j] = job[j]
      /\ job'[k].st = "doing" /\ job'[k].age = 0
  BY TimedTypes DEF AcquireTakes, Taken, TypeOK, Job
<1>5. HeldOnce'
  BY <1>1, <1>2, <1>3 DEF HeldInv, HeldOnce, Sent, Has, Busy
<1>6. HandledIsRenewed'
  BY <1>1 DEF HeldInv, HandledIsRenewed
<1>7. ASSUME NEW q \in Procs PROVE SentYoung(q)'
  <2>1. CASE q = p
    BY <1>2, <1>4, <2>1, TimedTypes DEF SentYoung, SentAge
  <2>2. CASE q # p
    BY <1>2, <1>3, <1>4, <2>2, TimedTypes
    DEF HeldInv, HeldIsYoung, SentYoung, SentAge, Sent
  <2> QED  BY <2>1, <2>2
<1>8. ASSUME NEW w \in Workers PROVE HeldYoung(w)'
  <2> SUFFICES ASSUME Busy(w) PROVE HeldYoung(w)'
    BY <1>1 DEF HeldYoung, Busy
  <2>1. job'[worker[w].job] = job[worker[w].job] /\ HeldYoung(w)
    BY <1>3, <1>4, TimedTypes DEF Has, HeldInv, HeldIsYoung
  <2> QED  BY <1>1, <2>1 DEF HeldYoung, HeldAge, HandledAge, Pending, Busy
<1> QED  BY <1>5, <1>6, <1>7, <1>8 DEF HeldInv, HeldIsYoung

LEMMA HeldReceive ==
  ASSUME TypeOK, TypeOK', KeptInv, HeldInv, NEW p \in Procs, NEW w \in Workers, Receive(p, w)
  PROVE  HeldInv'
<1> DEFINE k == consumer[p].job
<1>1. /\ Owner[w] = p /\ ~Busy(w) /\ Sent(p, k) /\ k \in Jobs
      /\ UNCHANGED <<job, beats, heart, proc>>
      /\ consumer[p].at = "send"
  BY TimedTypes DEF Receive, Busy, Sent
<1>2. /\ worker'[w].at = "store" /\ worker'[w].job = k /\ worker'[w].lag = 0
      /\ \A v \in Workers \ {w} : worker'[v] = worker[v]
  BY DEF Receive, TypeOK
<1>3. consumer'[p].at = "stale" /\ \A q \in Procs \ {p} : consumer'[q] = consumer[q]
  BY TimedTypes DEF Receive, Loop, TypeOK, Consumer
<1>4. job[k].st \notin {"none", "init"} /\ job[k].age <= consumer[p].wait
      /\ consumer[p].wait <= HandGap
  BY <1>1 DEF HeldInv, HeldIsYoung, SentYoung, SentAge, KeptInv, DelaysKept
<1> HIDE DEF k
<1>5. HeldOnce'
  <2> SUFFICES ASSUME NEW j \in Jobs
               PROVE  /\ \A u, v \in Workers : Has(u, j)' /\ Has(v, j)' => u = v
                      /\ \A q, r \in Procs : Sent(q, j)' /\ Sent(r, j)' => q = r
                      /\ \A q \in Procs, v \in Workers : ~(Sent(q, j)' /\ Has(v, j)')
    BY DEF HeldOnce
  <2>1. /\ \A v \in Workers : Has(v, j)' => Has(v, j) \/ (v = w /\ j = k)
        /\ \A q \in Procs : Sent(q, j)' => Sent(q, j) /\ q # p
    BY <1>2, <1>3 DEF Has, Sent, Busy
  <2>2. /\ \A u, v \in Workers : Has(u, j) /\ Has(v, j) => u = v
        /\ \A q, r \in Procs : Sent(q, j) /\ Sent(r, j) => q = r
        /\ \A q \in Procs, v \in Workers : ~(Sent(q, j) /\ Has(v, j))
    BY DEF HeldInv, HeldOnce
  <2> QED  BY <1>1, <2>1, <2>2
<1>6. HandledIsRenewed'
  BY <1>1, <1>2 DEF HeldInv, HandledIsRenewed
<1>7. \A q \in Procs : SentYoung(q)'
  BY <1>1, <1>3 DEF HeldInv, HeldIsYoung, SentYoung, SentAge
<1>8. ASSUME NEW v \in Workers PROVE HeldYoung(v)'
  <2>1. CASE v = w
    <3>1. job[k].age <= HandGap + 0
      BY <1>1, <1>4, TimedTypes
    <3> QED  BY <1>1, <1>2, <1>4, <2>1, <3>1 DEF HeldYoung, HeldAge
  <2>2. CASE v # w
    BY <1>1, <1>2, <2>2 DEF HeldInv, HeldIsYoung, HeldYoung, HeldAge, HandledAge, Pending, Busy
  <2> QED  BY <2>1, <2>2
<1> QED  BY <1>5, <1>6, <1>7, <1>8 DEF HeldInv, HeldIsYoung

\* A job whose worker is through the queue is handled, and renewed from now on.
LEMMA HeldStore ==
  ASSUME TypeOK, TypeOK', KeptInv, HeldInv, NEW w \in Workers, Store(w)
  PROVE  HeldInv'
<1> DEFINE k == worker[w].job  p == Owner[w]
<1>1. /\ Busy(w) /\ worker[w].at = "store" /\ k \in Jobs /\ p \in Procs /\ Has(w, k)
      /\ UNCHANGED <<job, consumer, heart, proc>>
  BY TimedTypes DEF Store, Busy, Has
<1>2. /\ worker'[w].at = "handle" /\ worker'[w].job = k /\ worker'[w].lag = 0
      /\ \A v \in Workers \ {w} : worker'[v] = worker[v]
  BY TimedTypes DEF Store, TypeOK, Worker
<1>3. /\ beats'[p][k] = w
      /\ \A q \in Procs, j \in Jobs : (q # p \/ j # k) => beats'[q][j] = beats[q][j]
  BY <1>1 DEF Store, TypeOK
<1>4. HeldOnce'
  BY <1>1, <1>2, HoldersLeave DEF HeldInv, Busy
<1>5. HandledIsRenewed'
  <2> SUFFICES ASSUME NEW v \in Workers, worker'[v].at = "handle"
               PROVE  beats'[Owner[v]][worker'[v].job] = v
    BY DEF HandledIsRenewed
  <2>1. CASE v = w
    BY <1>2, <1>3, <2>1
  <2>2. CASE v # w
    <3>1. worker'[v] = worker[v] /\ Busy(v) /\ worker[v].job \in Jobs /\ Owner[v] \in Procs
      BY <1>2, <2>2, TimedTypes DEF Busy
    <3>2. worker[v].job # k
      BY <1>1, <2>2, <3>1 DEF HeldInv, HeldOnce, Has
    <3> QED  BY <1>3, <3>1, <3>2 DEF HeldInv, HandledIsRenewed
  <2> QED  BY <2>1, <2>2
<1>6. \A q \in Procs : SentYoung(q)'
  BY <1>1 DEF HeldInv, HeldIsYoung, SentYoung, SentAge
<1>7. ASSUME NEW v \in Workers PROVE HeldYoung(v)'
  <2>1. CASE v = w
    <3>1. /\ job[k].st \notin {"none", "init"} /\ job[k].age <= HandGap + worker[w].lag
          /\ worker[w].lag <= HandGap
      BY <1>1 DEF HeldInv, HeldIsYoung, HeldYoung, HeldAge, KeptInv, DelaysKept
    <3>2. /\ job[k].age \in Nat /\ worker[w].lag \in Nat /\ HandGap \in Nat /\ BeatGap \in Nat
          /\ heart[p].gap \in Nat /\ proc[p].since \in Nat
      BY <1>1, TimedTypes
    <3>3. /\ job[k].age <= 2 * HandGap + heart[p].gap
          /\ job[k].age <= 2 * HandGap + BeatGap + heart[p].gap
          /\ job[k].age <= Longest + proc[p].since
      BY <3>1, <3>2 DEF Longest
    <3> QED  BY <1>1, <1>2, <2>1, <3>1, <3>3 DEF HeldYoung, HeldAge, HandledAge
  <2>2. CASE v # w
    BY <1>1, <1>2, <2>2 DEF HeldInv, HeldIsYoung, HeldYoung, HeldAge, HandledAge, Pending, Busy
  <2> QED  BY <2>1, <2>2
<1> QED  BY <1>4, <1>5, <1>6, <1>7 DEF HeldInv, HeldIsYoung

LEMMA HeldHandlersReturn ==
  ASSUME TypeOK, TypeOK', KeptInv, HeldInv, NEW w \in Workers, HandlersReturn(w)
  PROVE  HeldInv'
<1> DEFINE k == worker[w].job  p == Owner[w]
<1>1. /\ Busy(w) /\ worker[w].at = "handle" /\ k \in Jobs /\ p \in Procs /\ Has(w, k)
      /\ UNCHANGED <<job, consumer, heart, proc>>
  BY TimedTypes DEF HandlersReturn, Busy, Has
<1>2. /\ worker'[w].at = "set" /\ worker'[w].job = k /\ worker'[w].lag = worker[w].lag
      /\ \A v \in Workers \ {w} : worker'[v] = worker[v]
  BY TimedTypes DEF HandlersReturn, TypeOK, Worker
<1>3. \A q \in Procs, j \in Jobs : (q # p \/ j # k) => beats'[q][j] = beats[q][j]
  BY <1>1 DEF HandlersReturn, TypeOK
<1>4. HeldOnce'
  BY <1>1, <1>2, HoldersLeave DEF HeldInv, Busy
<1>5. HandledIsRenewed'
  <2> SUFFICES ASSUME NEW v \in Workers, worker'[v].at = "handle"
               PROVE  beats'[Owner[v]][worker'[v].job] = v
    BY DEF HandledIsRenewed
  <2>1. v # w
    BY <1>2
  <2>2. worker'[v] = worker[v] /\ Busy(v) /\ worker[v].job \in Jobs /\ Owner[v] \in Procs
    BY <1>2, <2>1, TimedTypes DEF Busy
  <2>3. worker[v].job # k
    BY <1>1, <2>1, <2>2 DEF HeldInv, HeldOnce, Has
  <2> QED  BY <1>3, <2>2, <2>3 DEF HeldInv, HandledIsRenewed
<1>6. \A q \in Procs : SentYoung(q)'
  BY <1>1 DEF HeldInv, HeldIsYoung, SentYoung, SentAge
<1>7. ASSUME NEW v \in Workers PROVE HeldYoung(v)'
  <2>1. CASE v = w
    <3>1. job[k].st \notin {"none", "init"} /\ HandledAge(w) /\ heart[p].gap <= BeatGap
      BY <1>1 DEF HeldInv, HeldIsYoung, HeldYoung, HeldAge, KeptInv, DelaysKept
    <3>2. /\ job[k].age \in Nat /\ worker[w].lag \in Nat /\ HandGap \in Nat /\ BeatGap \in Nat
          /\ heart[p].gap \in Nat /\ proc[p].since \in Nat
      BY <1>1, TimedTypes
    <3>3. job[k].age <= Longest + worker[w].lag \/ job[k].age <= Longest + proc[p].since
      BY <3>1, <3>2 DEF HandledAge, Longest
    <3> QED  BY <1>1, <1>2, <2>1, <3>1, <3>3 DEF HeldYoung, HeldAge
  <2>2. CASE v # w
    BY <1>1, <1>2, <2>2 DEF HeldInv, HeldIsYoung, HeldYoung, HeldAge, HandledAge, Pending, Busy
  <2> QED  BY <2>1, <2>2
<1> QED  BY <1>4, <1>5, <1>6, <1>7 DEF HeldInv, HeldIsYoung

\* The rest of the way of a worker; what it writes into the job makes the job young.
LEMMA HeldFinish ==
  ASSUME TypeOK, TypeOK', KeptInv, HeldInv, NEW w \in Workers, Pool(w),
         ~Store(w), ~HandlersReturn(w)
  PROVE  HeldInv'
<1>1. /\ UNCHANGED <<beats, consumer, proc>>
      /\ \A v \in Workers \ {w} : worker'[v] = worker[v]
  BY PoolFields DEF Pool, RangeEnds, FinishSet, BothSet, FinishData, FinishUpdate, KeptInv
<1>2. Busy(w)' => StaysHeld(w)
  <2>1. CASE FinishSet(w) \/ BothSet(w)
    <3>1. /\ worker[w].at = "set" /\ worker'[w].at = "data"
          /\ worker'[w].job = worker[w].job /\ worker'[w].lag = worker[w].lag
      <4>1. CASE FinishSet(w)
        BY <4>1, TimedTypes DEF FinishSet, TypeOK, Worker
      <4>2. CASE BothSet(w)
        BY <4>2, TimedTypes DEF BothSet, TypeOK, Worker
      <4> QED  BY <2>1, <4>1, <4>2
    <3> QED  BY <1>1, <3>1, PoolFields, TimedTypes DEF StaysHeld, Busy, KeptInv
  <2>2. CASE FinishData(w)
    <3>1. /\ worker[w].at = "data" /\ worker'[w].at = "update"
          /\ worker'[w].job = worker[w].job /\ worker'[w].lag = worker[w].lag
      BY <2>2, TimedTypes DEF FinishData, TypeOK, Worker
    <3> QED  BY <1>1, <3>1, PoolFields, TimedTypes DEF StaysHeld, Busy, KeptInv
  <2>3. CASE RangeEnds(w) \/ \E b \in Applied : FinishUpdate(w, b)
    <3>1. worker'[w].at \in {"idle", "ended"}
      BY <2>3, TimedTypes DEF RangeEnds, FinishUpdate, NewWorker, TypeOK, Worker
    <3> QED  BY <3>1 DEF Busy
  <2> QED  BY <2>1, <2>2, <2>3 DEF Pool
<1>3. ASSUME NEW v \in Workers, Busy(v)'
      PROVE  /\ StaysHeld(v)
             /\ \A j \in Jobs : Pending(Owner[v], j) => Pending(Owner[v], j)'
  <2>1. Owner[v] \in Procs
    BY TimedTypes
  <2>2. StaysHeld(v)
    <3>1. CASE v = w
      BY <1>2, <1>3, <3>1
    <3>2. CASE v # w
      BY <1>1, <1>3, <2>1, <3>2, PoolFields DEF StaysHeld, Busy, KeptInv
    <3> QED  BY <3>1, <3>2
  <2>3. \A j \in Jobs : Pending(Owner[v], j) => Pending(Owner[v], j)'
    BY <2>1, PoolFields DEF Pending, KeptInv
  <2> QED  BY <2>2, <2>3
<1>4. \A j \in Jobs : StillYoung(j)
  BY PoolFields DEF StillYoung, Renewed, KeptInv, Status
<1> QED  BY <1>1, <1>3, <1>4, QuietHeld

\* A round passes no job that is handled without a renewal.
LEMMA PendingStays ==
  ASSUME QueueDelaysBounded, TypeOK, Written, HandledIsRenewed,
         NEW p \in Procs, Beating(p), ~RoundEnds(p),
         NEW w \in Workers, worker[w].at = "handle", Owner[w] = p,
         NEW j \in Jobs, worker[w].job = j, Pending(p, j)
  PROVE  Pending(p, j)' \/ job'[j].age = 0
<1>0. heart[p] \in Heart
  BY TimedTypes
<1>1. CASE RoundStarts(p)
  BY <1>0, <1>1 DEF RoundStarts, TypeOK, Heart, Pending
<1>2. CASE HeartSet(p)
  <2>1. \/ heart' = [heart EXCEPT ![p] = [@ EXCEPT !.at = "data", !.cell = "doing"]]
        \/ heart' = [heart EXCEPT ![p].at = "data"]
    BY <1>2 DEF HeartSet
  <2>2. heart'[p].at = "data" /\ heart'[p].left = heart[p].left /\ heart'[p].job = heart[p].job
    <3>1. CASE heart' = [heart EXCEPT ![p] = [@ EXCEPT !.at = "data", !.cell = "doing"]]
      BY <1>0, <3>1 DEF TypeOK, Heart
    <3>2. CASE heart' = [heart EXCEPT ![p].at = "data"]
      BY <1>0, <3>2 DEF TypeOK, Heart
    <3> QED  BY <2>1, <3>1, <3>2
  <2> QED  BY <1>2, <2>2 DEF HeartSet, Pending
<1>3. CASE HeartData(p)
  <2>1. /\ heart[p].at = "data" /\ heart'[p].at = "update"
        /\ heart'[p].left = heart[p].left /\ heart'[p].job = heart[p].job
    BY <1>0, <1>3 DEF HeartData, TypeOK, Heart
  <2> QED  BY <2>1 DEF Pending
<1>4. ASSUME NEW k \in Jobs, Visit(p, k) PROVE Pending(p, j)'
  <2>1. heart[p].at = "range" /\ j \in heart[p].left
    BY <1>4 DEF Visit, Pending
  <2>2. CASE j = k
    <3>1. beats[p][k] # NoWorker
      BY <2>2, QueueAssumption DEF HandledIsRenewed
    <3>2. heart'[p].at = "set" /\ heart'[p].job = k
      BY <1>0, <1>4, <3>1 DEF Visit, TypeOK, Heart
    <3> QED  BY <2>2, <3>2 DEF Pending
  <2>3. CASE j # k
    <3>1. heart'[p].left = heart[p].left \ {k}
      BY <1>0, <1>4 DEF Visit, TypeOK, Heart
    <3> QED  BY <2>1, <2>3, <3>1 DEF Pending
  <2> QED  BY <2>2, <2>3
<1>5. ASSUME NEW b \in Applied, HeartUpdate(p, b) PROVE Pending(p, j)' \/ job'[j].age = 0
  <2>1. b = TRUE /\ heart[p].at = "update"
    BY <1>5 DEF HeartUpdate, Applied, QueueDelaysBounded
  <2>2. heart'[p].left = heart[p].left
    BY <1>0, <1>5 DEF HeartUpdate, TypeOK, Heart
  <2>3. CASE heart[p].job = j
    <3>1. CASE Stored(j)
      <4>1. job' = [job EXCEPT ![j] = [@ EXCEPT !.st = heart[p].cell, !.age = 0]]
        BY <1>5, <2>1, <2>3, <3>1 DEF HeartUpdate
      <4> QED  BY <4>1, TimedTypes DEF TypeOK, Job
    <3>2. CASE ~Stored(j)
      BY <1>5, <2>3, <3>2 DEF HeartUpdate, Written
    <3> QED  BY <3>1, <3>2
  <2>4. CASE heart[p].job # j
    BY <2>1, <2>2, <2>4 DEF Pending
  <2> QED  BY <2>3, <2>4
<1> QED  BY <1>1, <1>2, <1>3, <1>4, <1>5 DEF Beating

LEMMA HeldRoundEnds ==
  ASSUME TypeOK, TypeOK', KeptInv, HeldInv, NEW p \in Procs, RoundEnds(p) PROVE HeldInv'
<1>1. /\ UNCHANGED <<job, consumer, worker, beats, proc>>
      /\ \A q \in Procs \ {p} : heart'[q] = heart[q]
      /\ heart[p].at = "range" /\ heart[p].left = {}
      /\ heart'[p].at = "sleep" /\ heart'[p].gap = 0
  BY TimedTypes DEF RoundEnds, TypeOK, Heart
<1>2. HeldOnce' /\ HandledIsRenewed' /\ \A q \in Procs : SentYoung(q)'
  BY <1>1 DEF HeldInv, HeldOnce, HandledIsRenewed, HeldIsYoung, SentYoung, SentAge, Sent, Has, Busy
<1>3. ASSUME NEW w \in Workers PROVE HeldYoung(w)'
  <2> SUFFICES ASSUME Busy(w) PROVE HeldYoung(w)'
    BY <1>1 DEF HeldYoung, Busy
  <2>1. HeldYoung(w) /\ Owner[w] \in Procs /\ worker[w].job \in Jobs
    BY TimedTypes DEF HeldInv, HeldIsYoung
  <2>2. CASE Owner[w] # p
    BY <1>1, <2>1, <2>2 DEF HeldYoung, HeldAge, HandledAge, Pending, Busy
  <2>3. CASE Owner[w] = p
    <3>1. ~Pending(p, worker[w].job) /\ Pending(p, worker[w].job)'
      BY <1>1 DEF Pending
    <3>2. heart[p].gap <= BeatGap
      BY DEF KeptInv, DelaysKept
    <3>3. /\ heart[p].gap \in Nat /\ job[worker[w].job].age \in Nat
          /\ HandGap \in Nat /\ BeatGap \in Nat
      BY <2>1, TimedTypes
    <3>4. (worker[w].at = "handle" /\ HandledAge(w)) => HandledAge(w)'
      BY <1>1, <2>3, <3>1, <3>2, <3>3 DEF HandledAge
    <3> QED  BY <1>1, <2>1, <2>3, <3>4 DEF HeldYoung, HeldAge, Busy
  <2> QED  BY <2>2, <2>3
<1> QED  BY <1>2, <1>3 DEF HeldInv, HeldIsYoung

LEMMA HeldBeating ==
  ASSUME QueueDelaysBounded, TypeOK, TypeOK', KeptInv, HeldInv, NEW p \in Procs, Beating(p)
  PROVE  HeldInv'
<1>1. CASE RoundEnds(p)
  BY <1>1, HeldRoundEnds
<1>2. CASE ~RoundEnds(p)
  <2>1. UNCHANGED <<consumer, beats, proc>> /\ \A j \in Jobs : StillYoung(j)
    BY BeatingFields DEF KeptInv, StillYoung, Renewed, Status
  <2>2. ASSUME NEW w \in Workers, Busy(w)'
        PROVE  /\ StaysHeld(w)
               /\ \A j \in Jobs :
                    (worker[w].at = "handle" /\ worker[w].job = j /\ Pending(Owner[w], j)) =>
                      Pending(Owner[w], j)' \/ job'[j].age = 0
    <3>1. Owner[w] \in Procs
      BY TimedTypes
    <3>2. StaysHeld(w)
      BY <1>2, <2>1, <2>2, <3>1, BeatingFields DEF StaysHeld, Busy, KeptInv
    <3>3. CASE Owner[w] = p
      BY <1>2, <3>2, <3>3, PendingStays DEF KeptInv, HeldInv
    <3>4. CASE Owner[w] # p
      BY <3>1, <3>2, <3>4, BeatingFields DEF Pending, KeptInv
    <3> QED  BY <3>3, <3>4
  <2> QED  BY <2>1, <2>2, QuietHeld
<1> QED  BY <1>1, <1>2

LEMMA HeldTick ==
  ASSUME Timely = TRUE, TypeOK, TypeOK', KeptInv, HeldInv, Tick PROVE HeldInv'
<1>1. HeldOnce' /\ HandledIsRenewed'
  BY TickFields DEF HeldInv, HeldOnce, HandledIsRenewed, Sent, Has, Busy
<1>2. ASSUME NEW p \in Procs PROVE SentYoung(p)'
  <2> SUFFICES ASSUME consumer[p].at = "send"
               PROVE  job'[consumer'[p].job].st \notin {"none", "init"} /\ SentAge(p)'
    BY TickFields DEF SentYoung
  <2> DEFINE j == consumer[p].job
  <2>1. /\ j \in Jobs /\ consumer'[p].job = j /\ job'[j].st = job[j].st
        /\ job'[j].age <= job[j].age + 1 /\ consumer'[p].wait = consumer[p].wait + 1
    BY TickFields, TimedTypes
  <2>2. job[j].st \notin {"none", "init"} /\ job[j].age <= consumer[p].wait
    BY DEF HeldInv, HeldIsYoung, SentYoung, SentAge
  <2>3. job[j].age \in Nat /\ job'[j].age \in Nat /\ consumer[p].wait \in Nat
    BY <2>1, TimedTypes, TimedTypesNext
  <2> QED  BY <2>1, <2>2, <2>3 DEF SentAge
<1>3. ASSUME NEW w \in Workers PROVE HeldYoung(w)'
  <2> SUFFICES ASSUME Busy(w) PROVE HeldYoung(w)'
    BY TickFields DEF HeldYoung, Busy
  <2> DEFINE j == worker[w].job  p == Owner[w]
  <2>1. /\ j \in Jobs /\ p \in Procs /\ worker'[w].job = j /\ worker'[w].at = worker[w].at
        /\ job'[j].st = job[j].st /\ job'[j].age <= job[j].age + 1
        /\ worker'[w].lag = IF Handing(w) THEN worker[w].lag + 1 ELSE worker[w].lag
    BY TickFields, TimedTypes
  <2>2. job[j].st \notin {"none", "init"} /\ HeldAge(w) /\ proc[p].mode \in {"up", "stopping"}
    BY <2>1, TimedTypes
    DEF HeldInv, HeldIsYoung, HeldYoung, KeptInv, OpenAndRunning, Running, Proc
  <2>3. /\ job[j].age \in Nat /\ job'[j].age \in Nat /\ worker[w].lag \in Nat
        /\ heart[p].gap \in Nat /\ proc[p].since \in Nat /\ HandGap \in Nat /\ BeatGap \in Nat
    BY <2>1, TimedTypes, TimedTypesNext
  <2>4. /\ proc'[p].mode = proc[p].mode
        /\ proc[p].mode = "up" => /\ heart'[p].gap = heart[p].gap + 1
                                  /\ proc[p].since = 0 /\ proc'[p].since = 0
        /\ proc[p].mode = "stopping" => proc'[p].since = proc[p].since + 1
    BY <2>1, TickFields DEF KeptInv, DelaysKept
  <2>5. Pending(p, j)' = Pending(p, j)
    BY <2>1, TickFields DEF Pending
  <2> HIDE DEF j, p
  <2>6. CASE worker[w].at = "store"
    <3>1. worker'[w].lag = worker[w].lag + 1 /\ job[j].age <= HandGap + worker[w].lag
      BY <2>1, <2>2, <2>6 DEF Handing, HeldAge, j
    <3> QED  BY <2>1, <2>2, <2>3, <2>6, <3>1 DEF HeldYoung, HeldAge, j
  <2>7. CASE worker[w].at = "handle"
    <3>1. HandledAge(w)'
      <4>1. HandledAge(w)
        BY <2>2, <2>7 DEF HeldAge
      <4>2. CASE proc[p].mode = "up"
        BY <2>1, <2>2, <2>3, <2>4, <2>5, <4>1, <4>2 DEF HandledAge, j, p
      <4>3. CASE proc[p].mode = "stopping"
        BY <2>1, <2>2, <2>3, <2>4, <2>5, <4>1, <4>3 DEF HandledAge, Longest, j, p
      <4> QED  BY <2>2, <4>2, <4>3
    <3> QED  BY <2>1, <2>2, <2>7, <3>1 DEF HeldYoung, HeldAge, j
  <2>8. CASE worker[w].at \in {"set", "data", "update"}
    <3>1. /\ worker'[w].lag = worker[w].lag + 1
          /\ job[j].age <= Longest + worker[w].lag \/ job[j].age <= Longest + proc[p].since
      BY <2>1, <2>2, <2>8 DEF Handing, HeldAge, j, p
    <3>2. job'[j].age <= Longest + worker'[w].lag \/ job'[j].age <= Longest + proc'[p].since
      BY <2>1, <2>2, <2>3, <2>4, <3>1 DEF Longest
    <3> QED  BY <2>1, <2>2, <2>8, <3>2 DEF HeldYoung, HeldAge, j, p
  <2> QED  BY <2>6, <2>7, <2>8, TimedTypes DEF Busy, Worker
<1> QED  BY <1>1, <1>2, <1>3 DEF HeldInv, HeldIsYoung

LEMMA HeldStep ==
  ASSUME QueueDelaysBounded, TypeOK, TypeOK', KeptInv, HeldInv, [Next]_vars PROVE HeldInv'
<1>1. CASE UNCHANGED vars
  BY <1>1, QuietHeld DEF vars, StaysHeld, Busy, Pending, StillYoung, Renewed
<1>2. CASE Others
  BY <1>2, HeldOthers DEF Others
<1>3. ASSUME NEW p \in Procs, Process(p) PROVE HeldInv'
  <2>1. CASE Crash(p) \/ Exit(p)
    BY <2>1, HeldEnds DEF Crash, Exit
  <2>2. ~AcquireFails(p)
    BY DEF AcquireFails, QueueDelaysBounded
  <2> QED
    BY <1>3, <2>1, <2>2, HeldSignal, HeldIdling, HeldAcquire, HeldReceive, HeldBeating
    DEF Process, Beating
<1>4. ASSUME NEW w \in Workers, Pool(w) PROVE HeldInv'
  BY <1>4, HeldStore, HeldHandlersReturn, HeldFinish
<1>5. CASE Tick
  BY <1>5, HeldTick DEF QueueDelaysBounded
<1> QED  BY <1>1, <1>2, <1>3, <1>4, <1>5 DEF Next

LEMMA HeldCorrect ==
  ASSUME QueueDelaysBounded
  PROVE  Spec => []HeldInv
<1>1. KeptInv /\ HeldInv /\ TypeOK /\ TypeOK' /\ [Next]_vars => KeptInv' /\ HeldInv'
  BY KeptStep, HeldStep
<1> QED  BY <1>1, KeptInit, HeldInit, QueueTypeCorrect, PTL DEF Spec

(***************************************************************************)
(* When JobTimeoutSecond is longer than a job may go without a renewal, no *)
(* two workers have the same job, in any number of processes, crashed,     *)
(* stopped or started at any moment (worker.go:113, main.go:97): the time  *)
(* from acquire to the handlers, two rounds of heartbeats, and the longer  *)
(* of the grace period and the time of a Finish.                           *)
(***************************************************************************)
THEOREM OneWorkerPerJob ==
  ASSUME QueueDelaysBounded
  PROVE  Spec => []NoDoubleHandling
<1>1. TypeOK /\ HeldInv => NoDoubleHandling
  BY TimedTypes DEF HeldInv, HeldOnce, Has, NoDoubleHandling
<1> QED  BY <1>1, HeldCorrect, QueueTypeCorrect, PTL

\* With the same bounds heartbeatMap has every job from Store to the return of its
\* handlers, so that no round passes it: no other worker deletes its entry (worker.go:73).
THEOREM EntryStays ==
  ASSUME QueueDelaysBounded
  PROVE  Spec => []HandledIsRenewed
<1>1. HeldInv => HandledIsRenewed
  BY DEF HeldInv
<1> QED  BY <1>1, HeldCorrect, PTL
=============================================================================
