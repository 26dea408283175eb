-------------------------- MODULE SidewalkViolation --------------------------
(***************************************************************************)
(* The violation handler for vehicles on the pavement, between the frame   *)
(* loop of Worker.Do that calls it and its own background goroutine.       *)
(*                                                                         *)
(*   biz/analyzer/handler/violations/nonmotor/zhanrenxingdao.go            *)
(*                                                                         *)
(* Handle collects a violation event per object under the write lock. The  *)
(* background goroutine takes the read lock, sends the events older than   *)
(* Timeout to saveCh while it holds that lock, and removes them under the  *)
(* write lock. Handle takes at most one event out of saveCh per frame.     *)
(* Only the background goroutine reads under the lock, and it never blocks *)
(* under the write lock: the lock is free unless it is scanning.           *)
(***************************************************************************)
EXTENDS Integers, Sequences

CONSTANTS
  Objs,      \* the object ids the tracker reports
  Cap,       \* capacity of saveCh (10)
  Timeout,   \* cfg.Timeout, in ticks
  MaxGen     \* bound: events per object

ASSUME SidewalkAssumption == Cap \in Nat /\ Timeout \in Nat /\ MaxGen \in Nat

VARIABLES
  entry,      \* objVioEvent: the number of each object's event, 0 for none
  gen,        \* how many events each object has had
  age,        \* ticks since the StartTime of the object's event, capped
  saveCh,     \* the channel of expired events, <<object, number>>
  closed,     \* Release closed it
  taken,      \* ghost: the events Handle took out and returned
  do,         \* the frame loop
  bg,         \* backgroundWork
  due,        \* the expired objects the scan still has to send
  remove,     \* removeList
  cancelled,  \* the context of the handler is done
  crashed     \* a send on the closed channel ended the process

vars == <<entry, gen, age, saveCh, closed, taken, do, bg, due, remove, cancelled, crashed>>

TypeOK ==
  /\ entry \in [Objs -> Nat] /\ gen \in [Objs -> Nat]
  /\ age \in [Objs -> 0..(Timeout + 1)]
  /\ saveCh \in Seq(Objs \X Nat) /\ Len(saveCh) <= Cap /\ taken \in SUBSET (Objs \X Nat)
  /\ do \in {"ready", "lock", "receive", "released"}
  /\ bg \in {"wait", "rlock", "scan", "lock", "ended"}
  /\ due \in SUBSET Objs /\ remove \in SUBSET Objs
  /\ closed \in BOOLEAN /\ cancelled \in BOOLEAN /\ crashed \in BOOLEAN

Init ==
  /\ entry = [o \in Objs |-> 0] /\ gen = [o \in Objs |-> 0] /\ age = [o \in Objs |-> 0]
  /\ saveCh = <<>> /\ taken = {}
  /\ do = "ready" /\ bg = "wait"
  /\ due = {} /\ remove = {}
  /\ closed = FALSE /\ cancelled = FALSE /\ crashed = FALSE

-----------------------------------------------------------------------------
(***************************************************************************)
(* The frame loop: it looks at its context, gets a frame, with a picture   *)
(* or without, calls Handle, and releases the handler when it returns.     *)
(***************************************************************************)
Frame(picture) ==
  /\ ~crashed /\ do = "ready" /\ ~cancelled
  /\ do' = IF picture THEN "lock" ELSE "receive"
  /\ UNCHANGED <<entry, gen, age, saveCh, closed, taken, bg, due, remove, cancelled, crashed>>

\* Handle, under the lock: the objects seen get an event unless they have one.
HandleBoxes(seen) ==
  /\ ~crashed /\ do = "lock" /\ bg # "scan"
  /\ LET new == {o \in seen : entry[o] = 0 /\ gen[o] < MaxGen} IN
       /\ gen' = [o \in Objs |-> IF o \in new THEN gen[o] + 1 ELSE gen[o]]
       /\ entry' = [o \in Objs |-> IF o \in new THEN gen[o] + 1 ELSE entry[o]]
       /\ age' = [o \in Objs |-> IF o \in new THEN 0 ELSE age[o]]
  /\ do' = "receive"
  /\ UNCHANGED <<saveCh, closed, taken, bg, due, remove, cancelled, crashed>>

\* Handle, after the lock: one expired event, if there is one.
HandleReceive ==
  /\ ~crashed /\ do = "receive"
  /\ IF saveCh = <<>> THEN UNCHANGED <<saveCh, taken>>
     ELSE saveCh' = Tail(saveCh) /\ taken' = taken \cup {Head(saveCh)}
  /\ do' = "ready"
  /\ UNCHANGED <<entry, gen, age, closed, bg, due, remove, cancelled, crashed>>

\* The task is stopped, or its KeepAlive has failed.
Cancel ==
  /\ ~crashed /\ ~cancelled
  /\ cancelled' = TRUE
  /\ UNCHANGED <<entry, gen, age, saveCh, closed, taken, do, bg, due, remove, crashed>>

\* Do returns, cancelled or because it gives the stream up.
Release ==
  /\ ~crashed /\ do = "ready"
  /\ do' = "released" /\ cancelled' = TRUE /\ closed' = TRUE
  /\ UNCHANGED <<entry, gen, age, saveCh, taken, bg, due, remove, crashed>>

-----------------------------------------------------------------------------
(***************************************************************************)
(* backgroundWork. What is expired is decided by the time read before the  *)
(* read lock is taken.                                                     *)
(***************************************************************************)
Wake ==
  /\ ~crashed /\ bg = "wait"
  /\ bg' = "rlock"
  /\ due' = {o \in Objs : entry[o] # 0 /\ age[o] > Timeout}
  /\ UNCHANGED <<entry, gen, age, saveCh, closed, taken, do, remove, cancelled, crashed>>

Done ==
  /\ ~crashed /\ bg = "wait" /\ cancelled
  /\ bg' = "ended"
  /\ UNCHANGED <<entry, gen, age, saveCh, closed, taken, do, due, remove, cancelled, crashed>>

ScanStarts ==
  /\ ~crashed /\ bg = "rlock"
  /\ bg' = "scan"
  /\ UNCHANGED <<entry, gen, age, saveCh, closed, taken, do, due, remove, cancelled, crashed>>

Send(o) ==
  /\ ~crashed /\ bg = "scan" /\ o \in due /\ ~closed /\ Len(saveCh) < Cap
  /\ saveCh' = Append(saveCh, <<o, entry[o]>>)
  /\ due' = due \ {o} /\ remove' = remove \cup {o}
  /\ UNCHANGED <<entry, gen, age, closed, taken, do, bg, cancelled, crashed>>

SendPanics ==
  /\ ~crashed /\ bg = "scan" /\ due # {} /\ closed
  /\ crashed' = TRUE
  /\ UNCHANGED <<entry, gen, age, saveCh, closed, taken, do, bg, due, remove, cancelled>>

\* Mutant: what was sent is not removed.
ScanEndsKeeping ==
  /\ ~crashed /\ bg = "scan" /\ due = {}
  /\ bg' = "wait" /\ remove' = {}
  /\ UNCHANGED <<entry, gen, age, saveCh, closed, taken, do, due, cancelled, crashed>>

\* Mutant: the read lock is given back only when something was sent.
ScanEndsLocked ==
  /\ ~crashed /\ bg = "scan" /\ due = {} /\ remove # {}
  /\ bg' = "lock"
  /\ UNCHANGED <<entry, gen, age, saveCh, closed, taken, do, due, remove, cancelled, crashed>>

ScanEnds ==
  /\ ~crashed /\ bg = "scan" /\ due = {}
  /\ bg' = IF remove = {} THEN "wait" ELSE "lock"
  /\ UNCHANGED <<entry, gen, age, saveCh, closed, taken, do, due, remove, cancelled, crashed>>

\* Mutant: every event is removed.
RemoveAll ==
  /\ ~crashed /\ bg = "lock"
  /\ bg' = "wait" /\ remove' = {}
  /\ entry' = [o \in Objs |-> 0]
  /\ UNCHANGED <<gen, age, saveCh, closed, taken, do, due, cancelled, crashed>>

Remove ==
  /\ ~crashed /\ bg = "lock"
  /\ bg' = "wait" /\ remove' = {}
  /\ entry' = [o \in Objs |-> IF o \in remove THEN 0 ELSE entry[o]]
  /\ UNCHANGED <<gen, age, saveCh, closed, taken, do, due, cancelled, crashed>>

Tick ==
  /\ ~crashed
  /\ age' = [o \in Objs |-> IF entry[o] = 0 \/ age[o] > Timeout THEN age[o] ELSE age[o] + 1]
  /\ UNCHANGED <<entry, gen, saveCh, closed, taken, do, bg, due, remove, cancelled, crashed>>

Loop ==
  \/ \E b \in BOOLEAN : Frame(b)
  \/ \E seen \in SUBSET Objs : HandleBoxes(seen)
  \/ HandleReceive

Background ==
  \/ Wake \/ Done \/ ScanStarts \/ SendPanics \/ ScanEnds \/ Remove
  \/ \E o \in Objs : Send(o)

Next == Loop \/ Background \/ Cancel \/ Release \/ Tick

Spec == Init /\ [][Next]_vars

\* Both goroutines run, frames keep coming, and a cancelled Do that comes to the
\* top of its loop returns. A writer that waits for a RWMutex gets it between two
\* read locks, hence the strong fairness of HandleBoxes; Go's select picks one of
\* the ready cases at random, hence that of Done.
Fairness ==
  /\ WF_vars(Loop) /\ SF_vars(\E seen \in SUBSET Objs : HandleBoxes(seen))
  /\ WF_vars(cancelled /\ Release)
  /\ WF_vars(Wake \/ ScanStarts \/ SendPanics \/ ScanEnds \/ Remove \/ \E o \in Objs : Send(o))
  /\ SF_vars(Done) /\ WF_vars(Tick)

FairSpec == Spec /\ Fairness

-----------------------------------------------------------------------------
InQueue(e) == \E i \in 1..Len(saveCh) : saveCh[i] = e

\* However frames and scans interleave, an event leaves the handler at most once:
\* it is not sent again between the read lock under which it was sent and the
\* write lock under which it is removed (zhanrenxingdao.go:148, 158).
ReportedOnce ==
  /\ \A i, j \in 1..Len(saveCh) : saveCh[i] = saveCh[j] => i = j
  /\ \A e \in taken : ~InQueue(e)

Wedged == do = "lock" /\ bg = "scan" /\ due # {} /\ Len(saveCh) = Cap

\* A cancelled Do returns, unless it waits for the lock of a scan that waits for
\* room in saveCh, which only that Do could make.
ReturnsUnlessWedged ==
  cancelled ~> (do = "released" \/ crashed \/ Wedged)

\* An event that is older than Timeout is reported, or the frame loop has ended,
\* or both goroutines wait for each other.
ExpiredIsReported ==
  \A o \in Objs : \A g \in 1..MaxGen :
    (entry[o] = g) ~> (<<o, g>> \in taken \/ cancelled \/ crashed \/ Wedged)
=============================================================================
