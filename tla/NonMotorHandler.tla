---------------------------- MODULE NonMotorHandler ----------------------------
(***************************************************************************)
(* The handler for bicycles and the like: Handle collects, per tracked     *)
(* object, the violations it showed; a background scan hands the objects   *)
(* that were not seen for Timeout to a pool of savers, which upload the    *)
(* pictures and insert one event per violation.                            *)
(*                                                                         *)
(*   biz/analyzer/handler/nonmotor.go                                      *)
(*                                                                         *)
(* The scan sends a COPY of the value, but the copy shares its msgs map    *)
(* with the value in h.m: heap holds the maps, one for each number an      *)
(* object's value has had. Savers range over them without the lock.        *)
(***************************************************************************)
EXTENDS Integers, Sequences, FiniteSets

CONSTANTS
  Objs,      \* the object ids the tracker reports
  Kinds,     \* violation types
  Cap,       \* capacity of saverCh (20)
  PoolSize,  \* savers (10)
  Timeout,   \* cfg.Timeout, in ticks (7 s)
  MaxGen     \* bound: values of each object

ASSUME NonMotorAssumption ==
  Cap \in Nat /\ PoolSize \in Nat /\ Timeout \in Nat /\ MaxGen \in [Objs -> Nat]

VARIABLES
  entry,      \* h.m: the number of each object's value, 0 for none
  gen,        \* how many values each object has had
  unseen,     \* ticks since the endTime of the object's value, capped
  heap,       \* the msgs map of each value
  saverCh,    \* the channel of copies, <<object, number>>
  saving,     \* the copies the savers work on
  idle,       \* savers that wait for one
  over,       \* ghost: the events <<object, number, kind>> inserted, or given up
              \* because an upload or the insert failed
  late,       \* ghost: those recorded in a value already sent
  do,         \* the frame loop
  bg,         \* the background scan
  due,        \* the expired objects the scan still has to send
  remove,     \* removeList
  cancelled,  \* the context of the handler is done
  crashed     \* a concurrent iteration and write of a map ended the process

frame == <<entry, gen, unseen, heap, late, do>>
scan == <<bg, due, remove>>
pool == <<saving, idle, over>>
vars == <<frame, scan, pool, saverCh, cancelled, crashed>>

Values == UNION {{o} \X (1..MaxGen[o]) : o \in Objs}
Events == {<<v[1], v[2], k>> : v \in Values, k \in Kinds}
Saving == [of : Values, at : {"images", "range"}, left : SUBSET Kinds]

TypeOK ==
  /\ entry \in [Objs -> Nat] /\ \A o \in Objs : entry[o] <= gen[o]
  /\ gen \in [Objs -> Nat] /\ \A o \in Objs : gen[o] <= MaxGen[o]
  /\ unseen \in [Objs -> 0..(Timeout + 1)] /\ heap \in [Values -> SUBSET Kinds]
  /\ saverCh \in Seq(Values) /\ Len(saverCh) <= Cap
  /\ saving \in SUBSET Saving /\ idle \in Nat /\ idle + Cardinality(saving) <= PoolSize
  /\ over \in SUBSET Events /\ late \in SUBSET Events
  /\ do \in {"ready", "lock", "released"}
  /\ bg \in {"wait", "rlock", "scan", "lock", "ended"}
  /\ due \in SUBSET Objs /\ remove \in SUBSET Objs
  /\ cancelled \in BOOLEAN /\ crashed \in BOOLEAN

Init ==
  /\ entry = [o \in Objs |-> 0] /\ gen = [o \in Objs |-> 0]
  /\ unseen = [o \in Objs |-> 0] /\ heap = [v \in Values |-> {}]
  /\ saverCh = <<>> /\ saving = {} /\ idle = PoolSize
  /\ over = {} /\ late = {}
  /\ do = "ready" /\ bg = "wait" /\ due = {} /\ remove = {}
  /\ cancelled = FALSE /\ crashed = FALSE

-----------------------------------------------------------------------------
(***************************************************************************)
(* The frame loop. A frame without a picture is skipped.                   *)
(***************************************************************************)
Frame ==
  /\ do = "ready" /\ ~cancelled
  /\ do' = "lock"
  /\ UNCHANGED <<entry, gen, unseen, heap, late, scan, pool, saverCh, cancelled, crashed>>

\* The value of each object after a frame with the objects seen.
Numbers(seen) ==
  [o \in Objs |-> IF o \in seen /\ entry[o] = 0 THEN gen[o] + 1 ELSE entry[o]]

(***************************************************************************)
(* Handle, under the lock: an object without a value gets one with what    *)
(* its box shows; one with a value is dated, and what its box shows is     *)
(* recorded only when the box is bigger than the best so far. Writing to   *)
(* a map a saver ranges over ends the process, or the saver may see it.    *)
(***************************************************************************)
HandleBoxes(seen, shown, bigger) ==
  /\ do = "lock" /\ bg # "scan"
  /\ \A o \in seen : entry[o] = 0 => gen[o] < MaxGen[o]
  /\ LET number == Numbers(seen)
         written == {o \in seen : (entry[o] = 0 \/ o \in bigger) /\ shown[o] # {}}
         new == {e \in Events : /\ e[1] \in written /\ e[2] = number[e[1]]
                                /\ e[3] \in shown[e[1]] \ heap[<<e[1], e[2]>>]}
         ranged == {s \in saving : s.at = "range" /\ s.of[1] \in written
                                   /\ s.of[2] = number[s.of[1]]}
     IN /\ entry' = number
        /\ gen' = [o \in Objs |-> IF number[o] > gen[o] THEN number[o] ELSE gen[o]]
        /\ unseen' = [o \in Objs |-> IF o \in seen THEN 0 ELSE unseen[o]]
        /\ heap' = [v \in Values |->
             IF v[1] \in written /\ v[2] = number[v[1]] THEN heap[v] \cup shown[v[1]]
             ELSE heap[v]]
        /\ late' = late \cup {e \in new : bg = "lock" /\ e[1] \in remove /\ entry[e[1]] # 0}
        /\ \/ UNCHANGED <<saving, crashed>>
           \/ ranged # {} /\ crashed' = TRUE /\ UNCHANGED saving
           \/ /\ ranged # {} /\ UNCHANGED crashed
              /\ saving' = (saving \ ranged) \cup
                   {[s EXCEPT !.left = @ \cup
                       {e[3] : e \in {f \in new : <<f[1], f[2]>> = s.of}}] : s \in ranged}
  /\ due' = IF bg = "rlock" THEN due \ seen ELSE due   \* dated after the scan read its time
  /\ do' = "ready"
  /\ UNCHANGED <<bg, remove, idle, over, saverCh, cancelled>>

Cancel ==
  /\ ~cancelled /\ cancelled' = TRUE
  /\ UNCHANGED <<frame, scan, pool, saverCh, crashed>>

\* Do returns; what the values hold that were not sent is dropped.
Release ==
  /\ do = "ready"
  /\ do' = "released" /\ cancelled' = TRUE
  /\ UNCHANGED <<entry, gen, unseen, heap, late, scan, pool, saverCh, crashed>>

-----------------------------------------------------------------------------
(***************************************************************************)
(* The background scan. It reads the time, then takes the read lock.       *)
(***************************************************************************)
Wake ==
  /\ bg = "wait" /\ ~cancelled
  /\ bg' = "rlock" /\ due' = {o \in Objs : entry[o] # 0 /\ unseen[o] > Timeout}
  /\ UNCHANGED <<remove, frame, pool, saverCh, cancelled, crashed>>

Done ==
  /\ bg = "wait" /\ cancelled
  /\ bg' = "ended"
  /\ UNCHANGED <<due, remove, frame, pool, saverCh, cancelled, crashed>>

ScanStarts ==
  /\ bg = "rlock" /\ bg' = "scan"
  /\ UNCHANGED <<due, remove, frame, pool, saverCh, cancelled, crashed>>

Send(o) ==
  /\ bg = "scan" /\ o \in due /\ Len(saverCh) < Cap
  /\ saverCh' = Append(saverCh, <<o, entry[o]>>)
  /\ due' = due \ {o} /\ remove' = remove \cup {o}
  /\ UNCHANGED <<bg, frame, pool, cancelled, crashed>>

\* Mutant: the read lock is given back only when something was sent.
ScanEndsLocked ==
  /\ bg = "scan" /\ due = {} /\ remove # {}
  /\ bg' = "lock"
  /\ UNCHANGED <<due, remove, frame, pool, saverCh, cancelled, crashed>>

ScanEnds ==
  /\ bg = "scan" /\ due = {}
  /\ bg' = IF remove = {} THEN "wait" ELSE "lock"
  /\ UNCHANGED <<due, remove, frame, pool, saverCh, cancelled, crashed>>

\* Mutant: what was sent is not removed.
RemoveNothing ==
  /\ bg = "lock"
  /\ bg' = "wait" /\ remove' = {}
  /\ UNCHANGED <<due, entry, gen, unseen, heap, late, do, pool, saverCh, cancelled, crashed>>

Remove ==
  /\ bg = "lock"
  /\ bg' = "wait" /\ remove' = {}
  /\ entry' = [o \in Objs |-> IF o \in remove THEN 0 ELSE entry[o]]
  /\ UNCHANGED <<due, gen, unseen, heap, late, do, pool, saverCh, cancelled, crashed>>

-----------------------------------------------------------------------------
(***************************************************************************)
(* The savers: pictures first, then one event per violation in the map.    *)
(***************************************************************************)
Takes ==
  /\ idle > 0 /\ saverCh # <<>>
  /\ saverCh' = Tail(saverCh) /\ idle' = idle - 1
  /\ saving' = saving \cup {[of |-> Head(saverCh), at |-> "images", left |-> {}]}
  /\ UNCHANGED <<over, frame, scan, cancelled, crashed>>

ImagesFail(s) ==
  /\ s.at = "images"
  /\ saving' = saving \ {s} /\ idle' = idle + 1
  /\ over' = over \cup {e \in Events : <<e[1], e[2]>> = s.of /\ e[3] \in heap[s.of]}
  /\ UNCHANGED <<frame, scan, saverCh, cancelled, crashed>>

RangeStarts(s) ==
  /\ s.at = "images"
  /\ saving' = (saving \ {s}) \cup {[s EXCEPT !.at = "range", !.left = heap[s.of]]}
  /\ UNCHANGED <<idle, over, frame, scan, saverCh, cancelled, crashed>>

\* The pictures of one event are uploaded and it is inserted, or one of these fails.
Saves(s, k) ==
  /\ s.at = "range" /\ k \in s.left
  /\ saving' = (saving \ {s}) \cup {[s EXCEPT !.left = s.left \ {k}]}
  /\ over' = over \cup {<<s.of[1], s.of[2], k>>}
  /\ UNCHANGED <<idle, frame, scan, saverCh, cancelled, crashed>>

RangeEnds(s) ==
  /\ s.at = "range" /\ s.left = {}
  /\ saving' = saving \ {s} /\ idle' = idle + 1
  /\ UNCHANGED <<over, frame, scan, saverCh, cancelled, crashed>>

Stops ==
  /\ cancelled /\ idle > 0 /\ idle' = idle - 1
  /\ UNCHANGED <<saving, over, frame, scan, saverCh, cancelled, crashed>>

Tick ==
  /\ unseen' = [o \in Objs |-> IF entry[o] = 0 \/ unseen[o] > Timeout THEN unseen[o]
                               ELSE unseen[o] + 1]
  /\ UNCHANGED <<entry, gen, heap, late, do, scan, pool, saverCh, cancelled, crashed>>

Handles ==
  \E seen \in SUBSET Objs :
    \E shown \in [seen -> SUBSET Kinds], bigger \in SUBSET seen : HandleBoxes(seen, shown, bigger)

Background == Wake \/ Done \/ ScanStarts \/ ScanEnds \/ Remove \/ \E o \in Objs : Send(o)

Works ==
  \E s \in saving : \/ ImagesFail(s) \/ RangeStarts(s) \/ RangeEnds(s)
                    \/ \E k \in Kinds : Saves(s, k)

Next ==
  ~crashed /\ (Frame \/ Handles \/ Cancel \/ Release \/ Background \/ Takes \/ Works
               \/ Stops \/ Tick)

Spec == Init /\ [][Next]_vars

\* All goroutines run, uploads and inserts return, frames keep coming; select takes
\* each of its ready cases now and then; a writer gets the lock between two scans.
Fairness ==
  /\ WF_vars(~crashed /\ Frame) /\ SF_vars(~crashed /\ Handles)
  /\ WF_vars(~crashed /\ cancelled /\ Release)
  /\ WF_vars(~crashed /\ Background) /\ WF_vars(~crashed /\ Tick)
  /\ SF_vars(~crashed /\ Takes) /\ WF_vars(~crashed /\ Works) /\ SF_vars(~crashed /\ Stops)

FairSpec == Spec /\ Fairness

-----------------------------------------------------------------------------
EventsOf(v) == {e \in Events : <<e[1], e[2]>> = v}
InQueue(v) == \E i \in 1..Len(saverCh) : saverCh[i] = v
InPool(v) == \E s \in saving : s.of = v

\* However the scan, the savers and the frames interleave, a value goes to one saver
\* only, and an event that was inserted or given up is not inserted again: the scan
\* after a removal never meets the value it sent before (nonmotor.go:282, 293).
InsertedOnce ==
  /\ \A i, j \in 1..Len(saverCh) : saverCh[i] = saverCh[j] => i = j
  /\ \A v \in Values : InQueue(v) => ~InPool(v) /\ \A e \in EventsOf(v) : e \notin over
  /\ \A s, t \in saving : s.of = t.of => s = t
  /\ \A s \in saving : \A e \in EventsOf(s.of) : e[3] \in s.left => e \notin over

\* A violation that was recorded is inserted once its object is not seen any longer,
\* or an upload failed, or the task ended; the exception is what was recorded
\* between the read lock under which the value was sent and the write lock under
\* which it is removed (nonmotor.go:287-295).
RecordedIsSaved ==
  \A e \in Events :
    <>[](entry[e[1]] # 0 => unseen[e[1]] > 0)
      => (e[3] \in heap[<<e[1], e[2]>>]) ~> (e \in over \/ e \in late \/ cancelled \/ crashed)

\* The scan waits, under the read lock, for room that no saver will make any more,
\* and Handle for the lock.
Stuck ==
  /\ do = "lock" /\ bg = "scan" /\ due # {} /\ Len(saverCh) = Cap
  /\ idle = 0 /\ saving = {}

\* A cancelled Do returns, unless the savers stopped, on the same context, while the
\* scan still had values to send (nonmotor.go:100, 282).
ReturnsUnlessStuck == cancelled ~> (do = "released" \/ crashed \/ Stuck)
=============================================================================
