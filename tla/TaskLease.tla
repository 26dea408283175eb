------------------------------ MODULE TaskLease ------------------------------
(***************************************************************************)
(* The lease on a stream task: the vas_tasks collection, the analyzer      *)
(* processes that gain tasks from it and keep them alive, and the          *)
(* dashboard that creates, edits, starts, stops and deletes them.          *)
(*                                                                         *)
(*   biz/analyzer/tasks/tasks.go      Gain, Touch                          *)
(*   biz/analyzer/tasks/consumer.go   Run, DoTask, KeepAlive               *)
(*   biz/dashboard/dao/db/task.go     Insert, Update, UpdateStatus, Delete *)
(*   biz/dashboard/service/task.go    the handlers that call them          *)
(*                                                                         *)
(* A document is owned by compare-and-swap: Touch replaces the WHOLE       *)
(* document with the caller's in-memory copy, provided the stored version  *)
(* is still the copy's. Every dashboard write puts the version back to 0.  *)
(* updatedAt is kept as an age, in ticks, capped just above Due.           *)
(***************************************************************************)
EXTENDS Integers, FiniteSets

CONSTANTS
  Tasks,      \* the task ids the dashboard knows
  Procs,      \* analyzer processes, one Consumer each
  Leases,     \* DoTask invocations; an element is reused once it has ended
  Owner,      \* the process each element of Leases belongs to
  Configs,    \* what a dashboard edit can change in a task
  Quota,      \* Consumer.Quota
  Due,        \* ticks after which an untouched task may be gained
  MaxVer,     \* bound: no successful Touch beyond this version
  Timely,     \* TRUE: the three delays below bound the processes
  TouchGap,   \* longest delay between two Touch calls of one KeepAlive
  StopGap,    \* longest delay between a cancelled context and Do's return
  GainGap     \* longest delay between Gain's Find and its Touch

ASSUME LeaseAssumption ==
  /\ Tasks # {} /\ Configs # {}
  /\ Owner \in [Leases -> Procs]
  /\ Quota \in Nat \ {0} /\ Due \in Nat /\ MaxVer \in Nat
  /\ Timely \in BOOLEAN
  /\ TouchGap \in Nat /\ StopGap \in Nat /\ GainGap \in Nat

VARIABLES
  doc,      \* the stored document of each task
  gain,     \* where each Consumer.Run is, with the copy Gain has found
  doing,    \* Consumer.doing
  lease,    \* the DoTask / KeepAlive pair behind each element of Leases
  request,  \* start and stop requests between their check and their write
  up        \* the processes that are running

vars == <<doc, gain, doing, lease, request, up>>

Status == {"ON", "OFF"}
Results == {"ok", "failed", "unknown"}   \* "unknown": applied, but the caller got an error

(***************************************************************************)
(* Two ghosts: `fresh` is cleared in every copy of a task when the         *)
(* dashboard writes that task; `clean` says that the copy a lease was      *)
(* gained with was still fresh.                                            *)
(***************************************************************************)
Doc   == [st : Status \cup {"none"}, ver : Nat, age : 0..(Due + 1), cfg : Configs]
Gain  == [at : {"sleep", "found"}, id : Tasks, ver : Nat, cfg : Configs,
          fresh : BOOLEAN, wait : Nat]
Lease == [id : Tasks, ver : Nat, cfg : Configs, do : {"none", "work"},
          ka : {"none", "check", "touch", "sleep"}, cancelled : BOOLEAN,
          fresh : BOOLEAN, clean : BOOLEAN, gap : Nat, lag : Nat]

TypeOK ==
  /\ doc \in [Tasks -> Doc]
  /\ gain \in [Procs -> Gain]
  /\ doing \in [Procs -> Int]
  /\ lease \in [Leases -> Lease]
  /\ request \in SUBSET (Tasks \X Status)
  /\ up \in SUBSET Procs

AnyTask == CHOOSE t \in Tasks : TRUE
AnyConfig == CHOOSE c \in Configs : TRUE
NoGain  == [at |-> "sleep", id |-> AnyTask, ver |-> 0, cfg |-> AnyConfig,
            fresh |-> FALSE, wait |-> 0]
NoLease == [id |-> AnyTask, ver |-> 0, cfg |-> AnyConfig, do |-> "none", ka |-> "none",
            cancelled |-> TRUE, fresh |-> FALSE, clean |-> FALSE, gap |-> 0, lag |-> 0]

\* What is left of a lease record: nothing once both of its goroutines ended.
Left(r) == IF r.do = "none" /\ r.ka = "none" THEN NoLease ELSE r

Free(l) == lease[l].do = "none" /\ lease[l].ka = "none"
Working(l) == lease[l].do = "work"

-----------------------------------------------------------------------------
Init ==
  /\ doc = [t \in Tasks |-> [st |-> "none", ver |-> 0, age |-> 0, cfg |-> AnyConfig]]
  /\ gain = [p \in Procs |-> NoGain]
  /\ doing = [p \in Procs |-> 0]
  /\ lease = [l \in Leases |-> NoLease]
  /\ request = {}
  /\ up = Procs

(***************************************************************************)
(* Touch: {id, status ON, ver} selects, the whole copy replaces.           *)
(***************************************************************************)
MatchesAnyVersion(copy) == doc[copy.id].st = "ON"   \* mutant: no version in the selector
Matches(copy) == doc[copy.id].st = "ON" /\ doc[copy.id].ver = copy.ver

TouchedNotDated(copy) ==   \* mutant: updatedAt is not renewed
  [st |-> "ON", ver |-> copy.ver + 1, age |-> doc[copy.id].age, cfg |-> copy.cfg]
Touched(copy) == [st |-> "ON", ver |-> copy.ver + 1, age |-> 0, cfg |-> copy.cfg]

Touch(copy, res) ==
  \/ /\ res \in {"ok", "unknown"}
     /\ Matches(copy) /\ copy.ver < MaxVer
     /\ doc' = [doc EXCEPT ![copy.id] = Touched(copy)]
  \/ res = "failed" /\ doc' = doc     \* no match, or the database did not answer

\* Mutant: a task that is about to be due is found already.
GainFindEarly(p, t) ==
  /\ p \in up /\ gain[p].at = "sleep" /\ doing[p] < Quota
  /\ doc[t].st = "ON" /\ doc[t].age >= Due
  /\ \E l \in Leases : Owner[l] = p /\ Free(l)
  /\ gain' = [gain EXCEPT ![p] = [at |-> "found", id |-> t, ver |-> doc[t].ver,
                                  cfg |-> doc[t].cfg, fresh |-> TRUE, wait |-> 0]]
  /\ UNCHANGED <<doc, doing, lease, request, up>>

\* Run, below its quota, calls Gain: Find takes one ON document that is due.
GainFind(p, t) ==
  /\ p \in up /\ gain[p].at = "sleep" /\ doing[p] < Quota
  /\ doc[t].st = "ON" /\ doc[t].age > Due
  /\ \E l \in Leases : Owner[l] = p /\ Free(l)
  /\ gain' = [gain EXCEPT ![p] = [at |-> "found", id |-> t, ver |-> doc[t].ver,
                                  cfg |-> doc[t].cfg, fresh |-> TRUE, wait |-> 0]]
  /\ UNCHANGED <<doc, doing, lease, request, up>>

\* Gain's Touch answers; on success Run counts the task and starts DoTask,
\* which starts KeepAlive.
GainTouch(p, res) ==
  /\ p \in up /\ gain[p].at = "found"
  /\ Touch(gain[p], res)
  /\ gain' = [gain EXCEPT ![p] = NoGain]
  /\ IF res = "ok"
     THEN \E l \in Leases :
            /\ Owner[l] = p /\ Free(l)
            /\ lease' = [lease EXCEPT ![l] =
                 [id |-> gain[p].id, ver |-> gain[p].ver + 1, cfg |-> gain[p].cfg,
                  do |-> "work", ka |-> "check", cancelled |-> FALSE,
                  fresh |-> gain[p].fresh, clean |-> gain[p].fresh, gap |-> 0, lag |-> 0]]
            /\ doing' = [doing EXCEPT ![p] = @ + 1]
     ELSE UNCHANGED <<lease, doing>>
  /\ UNCHANGED <<request, up>>

\* KeepAlive looks at its context before each Touch.
KeepAliveCheck(l) ==
  /\ lease[l].ka = "check"
  /\ lease' = [lease EXCEPT ![l] =
       IF lease[l].cancelled THEN Left([@ EXCEPT !.ka = "none", !.gap = 0])
       ELSE [@ EXCEPT !.ka = "touch"]]
  /\ UNCHANGED <<doc, gain, doing, request, up>>

\* Mutant: the context is not cancelled when KeepAlive gives up.
KeepAliveTouchAlone(l, res) ==
  /\ lease[l].ka = "touch"
  /\ Touch(lease[l], res)
  /\ lease' = [lease EXCEPT ![l] =
       IF res = "ok" THEN [@ EXCEPT !.ka = "sleep", !.ver = lease[l].ver + 1, !.gap = 0]
       ELSE Left([@ EXCEPT !.ka = "none", !.gap = 0])]
  /\ UNCHANGED <<gain, doing, request, up>>

\* Mutant: the quota is given back when KeepAlive ends, and again by DoTask.
KeepAliveTouchFrees(l, res) ==
  /\ lease[l].ka = "touch"
  /\ Touch(lease[l], res)
  /\ lease' = [lease EXCEPT ![l] =
       IF res = "ok" THEN [@ EXCEPT !.ka = "sleep", !.ver = lease[l].ver + 1, !.gap = 0]
       ELSE Left([@ EXCEPT !.ka = "none", !.cancelled = TRUE, !.gap = 0])]
  /\ doing' = IF res = "ok" THEN doing ELSE [doing EXCEPT ![Owner[l]] = @ - 1]
  /\ UNCHANGED <<gain, request, up>>

\* KeepAlive's Touch answers; on any error it returns and cancels the context.
KeepAliveTouch(l, res) ==
  /\ lease[l].ka = "touch"
  /\ Touch(lease[l], res)
  /\ lease' = [lease EXCEPT ![l] =
       IF res = "ok" THEN [@ EXCEPT !.ka = "sleep", !.ver = lease[l].ver + 1, !.gap = 0]
       ELSE Left([@ EXCEPT !.ka = "none", !.cancelled = TRUE, !.gap = 0])]
  /\ UNCHANGED <<gain, doing, request, up>>

KeepAliveWake(l) ==
  /\ lease[l].ka = "sleep"
  /\ lease' = [lease EXCEPT ![l].ka = "check"]
  /\ UNCHANGED <<doc, gain, doing, request, up>>

\* Mutant: the quota of a Do that ended by itself is not given back.
DoReturnKeepsQuota(l) ==
  /\ Working(l)
  /\ lease' = [lease EXCEPT ![l] =
       Left([@ EXCEPT !.do = "none", !.cancelled = TRUE, !.lag = 0])]
  /\ doing' = IF lease[l].cancelled THEN [doing EXCEPT ![Owner[l]] = @ - 1] ELSE doing
  /\ UNCHANGED <<doc, gain, request, up>>

\* Worker.Do returns, by itself or because of its context; DoTask's deferred
\* function cancels the context and gives the quota back.
DoReturn(l) ==
  /\ Working(l)
  /\ lease' = [lease EXCEPT ![l] =
       Left([@ EXCEPT !.do = "none", !.cancelled = TRUE, !.lag = 0])]
  /\ doing' = [doing EXCEPT ![Owner[l]] = @ - 1]
  /\ UNCHANGED <<doc, gain, request, up>>

Crash(p) ==
  /\ p \in up
  /\ up' = up \ {p}
  /\ gain' = [gain EXCEPT ![p] = NoGain]
  /\ doing' = [doing EXCEPT ![p] = 0]
  /\ lease' = [l \in Leases |-> IF Owner[l] = p THEN NoLease ELSE lease[l]]
  /\ UNCHANGED <<doc, request>>

Restart(p) ==
  /\ p \notin up
  /\ up' = up \cup {p}
  /\ UNCHANGED <<doc, gain, doing, lease, request>>

-----------------------------------------------------------------------------
(***************************************************************************)
(* The dashboard. Each write outdates the copies the analyzers hold.       *)
(***************************************************************************)
Write(t, d) ==
  /\ doc' = [doc EXCEPT ![t] = d]
  /\ gain' = [p \in Procs |-> IF gain[p].id = t THEN [gain[p] EXCEPT !.fresh = FALSE]
                              ELSE gain[p]]
  /\ lease' = [l \in Leases |-> IF lease[l].id = t THEN [lease[l] EXCEPT !.fresh = FALSE]
                                ELSE lease[l]]
  /\ UNCHANGED <<doing, up>>

PostTasks(t, c, s) ==
  /\ doc[t].st = "none"
  /\ Write(t, [st |-> s, ver |-> 0, age |-> 0, cfg |-> c])
  /\ UNCHANGED request

\* Mutant: an edit leaves the version as it is.
PutTasksKeepsVer(t, c, s) ==
  /\ doc[t].st # "none"
  /\ Write(t, [st |-> s, ver |-> doc[t].ver, age |-> 0, cfg |-> c])
  /\ UNCHANGED request

PutTasks(t, c, s) ==
  /\ doc[t].st # "none"
  /\ Write(t, [st |-> s, ver |-> 0, age |-> 0, cfg |-> c])
  /\ UNCHANGED request

DeleteTasks(t) ==
  /\ doc[t].st # "none"
  /\ Write(t, [doc[t] EXCEPT !.st = "none"])
  /\ UNCHANGED request

\* updateTasksStatus reads the task and refuses a status it already has ...
StatusCheck(t, s) ==
  /\ doc[t].st \in Status \ {s}
  /\ request' = request \cup {<<t, s>>}
  /\ UNCHANGED <<doc, gain, doing, lease, up>>

\* ... and then writes, whatever the status has become meanwhile.
StatusWrite(t, s) ==
  /\ <<t, s>> \in request
  /\ request' = request \ {<<t, s>>}
  /\ IF doc[t].st = "none" THEN UNCHANGED <<doc, gain, doing, lease, up>>
     ELSE Write(t, [doc[t] EXCEPT !.st = s, !.ver = 0, !.age = 0])

-----------------------------------------------------------------------------
(***************************************************************************)
(* Time. Under Timely no delay may outgrow its bound: a tick waits for the *)
(* step that is due.                                                       *)
(***************************************************************************)
InTime ==
  /\ \A p \in Procs : gain[p].at = "found" => gain[p].wait < GainGap
  /\ \A l \in Leases : /\ lease[l].ka # "none" => lease[l].gap < TouchGap
                       /\ (Working(l) /\ lease[l].cancelled) => lease[l].lag < StopGap

\* Mutant: one tick too many.
AgedPastDue(d) == [d EXCEPT !.age = IF d.age > Due + 1 THEN d.age ELSE d.age + 1]

Aged(d) == [d EXCEPT !.age = IF d.age > Due THEN d.age ELSE d.age + 1]

Tick ==
  /\ Timely => InTime
  /\ doc' = [t \in Tasks |-> Aged(doc[t])]
  /\ gain' = [p \in Procs |->
       IF Timely /\ gain[p].at = "found" THEN [gain[p] EXCEPT !.wait = @ + 1] ELSE gain[p]]
  /\ lease' = [l \in Leases |->
       IF ~Timely THEN lease[l]
       ELSE [lease[l] EXCEPT
              !.gap = IF lease[l].ka # "none" THEN @ + 1 ELSE @,
              !.lag = IF Working(l) /\ lease[l].cancelled THEN @ + 1 ELSE @]]
  /\ UNCHANGED <<doing, request, up>>

Analyzer ==
  \/ \E p \in Procs, t \in Tasks : GainFind(p, t)
  \/ \E p \in Procs, r \in Results : GainTouch(p, r)
  \/ \E l \in Leases : KeepAliveCheck(l)
  \/ \E l \in Leases, r \in Results : KeepAliveTouch(l, r)
  \/ \E l \in Leases : KeepAliveWake(l)
  \/ \E l \in Leases : DoReturn(l)
  \/ \E p \in Procs : Crash(p)
  \/ \E p \in Procs : Restart(p)

Dashboard ==
  \E t \in Tasks :
    \/ \E c \in Configs, s \in Status : PostTasks(t, c, s)
    \/ \E c \in Configs, s \in Status : PutTasks(t, c, s)
    \/ DeleteTasks(t)
    \/ \E s \in Status : StatusCheck(t, s)
    \/ \E s \in Status : StatusWrite(t, s)

Next == Analyzer \/ Dashboard \/ Tick

Spec == Init /\ [][Next]_vars

(***************************************************************************)
(* Fairness: the Go scheduler runs every goroutine, a Worker.Do whose      *)
(* context is cancelled looks at it before its next frame, time passes,    *)
(* and a database that answers now and then lets a Touch succeed now and   *)
(* then. Nothing makes the dashboard act, a process crash, or a Do return  *)
(* that was not told to.                                                   *)
(***************************************************************************)
Fairness ==
  /\ WF_vars(Tick)
  /\ \A p \in Procs : /\ WF_vars(\E t \in Tasks : GainFind(p, t))
                      /\ SF_vars(GainTouch(p, "ok"))
                      /\ WF_vars(\E r \in Results : GainTouch(p, r))
                      /\ WF_vars(Restart(p))
  /\ \A l \in Leases : /\ WF_vars(KeepAliveCheck(l))
                       /\ WF_vars(\E r \in Results : KeepAliveTouch(l, r))
                       /\ WF_vars(KeepAliveWake(l))
                       /\ WF_vars(lease[l].cancelled /\ DoReturn(l))

FairSpec == Spec /\ Fairness

-----------------------------------------------------------------------------
\* A lease whose copy no dashboard write has outdated.
Holds(l) == lease[l].ka # "none" /\ lease[l].fresh

\* The lease whose next Touch will succeed.
Current(l) == Holds(l) /\ lease[l].ver = doc[lease[l].id].ver

\* However often processes crash, touches are lost and tasks are regained, at
\* most one KeepAlive can still renew a task, those whose task the dashboard
\* rewrote under them left out (tasks.go:67, the version in the selector).
AtMostOneCurrent ==
  \A l, m \in Leases :
    (Current(l) /\ Current(m) /\ lease[l].id = lease[m].id) => l = m

\* Why it holds, as an inductive invariant: no copy is ahead of the store, two
\* leases on one task never have the same version, and a found task whose version
\* is still the stored one is still due.
HeldBehindStore ==
  \A l \in Leases : Holds(l) => lease[l].ver <= doc[lease[l].id].ver

DistinctVersions ==
  \A l, m \in Leases :
    (Holds(l) /\ Holds(m) /\ lease[l].id = lease[m].id /\ lease[l].ver = lease[m].ver)
      => l = m

FoundIsDue ==
  \A p \in Procs :
    (gain[p].at = "found" /\ gain[p].fresh) =>
      /\ gain[p].ver <= doc[gain[p].id].ver
      /\ gain[p].ver = doc[gain[p].id].ver => doc[gain[p].id].age > Due

LeaseInv == HeldBehindStore /\ DistinctVersions /\ FoundIsDue

\* A task changes hands only after Due ticks without any touch, although Find and
\* Touch are two separate operations (tasks.go:46 and 53): no process takes a
\* task that its holder renewed in between.
TakeoverOnlyWhenDue ==
  [][\A l \in Leases :
       (lease[l].do = "none" /\ lease'[l].do = "work" /\ lease'[l].clean)
         => doc[lease'[l].id].age > Due]_vars

\* As long as delays keep their bounds, no two Do invocations process one task at
\* the same time, unless the dashboard wrote the task between some Gain's Find
\* and Touch (consumer.go:103; main.go:84 gives Due).
NoDoubleProcessing ==
  \A l, m \in Leases :
    (Working(l) /\ Working(m) /\ lease[l].clean /\ lease[m].clean
       /\ lease[l].id = lease[m].id) => l = m

\* As long as delays keep their bounds, KeepAlive, which stores the whole task it
\* read when it was gained, never overwrites an edit made since (tasks.go:71).
RenewalKeepsEdit ==
  [][\A l \in Leases :
       (lease[l].ka = "touch" /\ lease'[l].ka # "touch" /\ UNCHANGED gain)
         => doc'[lease[l].id].cfg = doc[lease[l].id].cfg]_vars

\* A process never runs more Do invocations than its quota, whatever the
\* interleaving of Run's check and DoTask's decrement (consumer.go:62, 98).
QuotaKept ==
  \A p \in Procs :
    Cardinality({l \in Leases : Owner[l] = p /\ Working(l)}) <= Quota

\* When a task stays stopped or deleted, or keeps a new configuration, then in
\* the end no Do works on it any longer, or on its old configuration.
DashboardObeyed ==
  \A t \in Tasks, c \in Configs, s \in Status \cup {"none"} :
    <>[](doc[t].st = s /\ doc[t].cfg = c)
      => <>[](\A l \in Leases : (Working(l) /\ lease[l].id = t)
                                  => (s = "ON" /\ lease[l].cfg = c))

\* Once the dashboard is quiet and some process stays up, a task that is ON and on
\* which nobody works is gained again, by the process that lost it or by another
\* one, unless the model's bound on versions is reached.
AbandonedIsRegained ==
  (<>[][~Dashboard]_vars /\ \E p \in Procs : <>[](p \in up))
    => \A t \in Tasks :
         (doc[t].st = "ON" /\ doc[t].ver < MaxVer)
           ~> (\/ doc[t].st # "ON" \/ doc[t].ver = MaxVer
               \/ \E l \in Leases : lease[l].id = t /\ Working(l))

\* The stored configuration changes only when the dashboard writes it, which puts
\* the version back to 0: no analyzer undoes an edit (docs/dashboard.md:574).
EditSurvives ==
  [][\A t \in Tasks : doc'[t].cfg # doc[t].cfg => doc'[t].ver = 0]_vars

(***************************************************************************)
(* Refinement: the owners of a task are the leases that can renew it.      *)
(***************************************************************************)
Owners(t) == {l \in Leases : Current(l) /\ lease[l].id = t}
DueTasks == {t \in Tasks : doc[t].age > Due}

Ownership == INSTANCE TaskOwnership WITH
  holders <- [t \in Tasks |-> Owners(t)],
  due     <- DueTasks

\* TaskLease implements the single-owner contract of TaskOwnership.
ImplementsOwnership == Ownership!OSpec
=============================================================================
