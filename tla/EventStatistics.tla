--------------------------- MODULE EventStatistics ---------------------------
(***************************************************************************)
(* The statistics of events, by hour, day, kind and camera.                *)
(*                                                                         *)
(*   biz/dashboard/service/event.go   PostEvents, PutEvents_, DeleteEvents *)
(*                                    and GetEventsAnalysis*               *)
(*   biz/dashboard/service/vms.go     getVmsDeviceSubIds                   *)
(*   biz/dashboard/dao/db/event.go    Insert, Update, Delete, Count*       *)
(*   biz/analyzer/dao/event.go        Insert                               *)
(*                                                                         *)
(* What an analyzer sees is inserted later, when its pictures are stored.  *)
(* The statistics select by the time of the insertion, and most of them    *)
(* say on which day or hour the event began. The clocks agree. Events of a *)
(* model are as many as are known at a time: a deleted one may come again, *)
(* as another event.                                                       *)
(***************************************************************************)
EXTENDS Integers, FiniteSets, SequencesExt, FiniteSetsExt

CONSTANTS
  Events, Cameras,
  Kinds,     \* what an event may be: its type, its camera, the classes of its snapshots
  Classes,   \* what a user may say a snapshot shows
  Starts,    \* when an event that is sent to the dashboard may say that it began
  Requests,  \* what a request may ask for: a camera, a kind of types, a type
  Hours,     \* in a day
  LastTick   \* bound on time

VARIABLES
  now,
  event      \* what is known of each event, by an analyzer and then by the store

vars == <<now, event>>

\* Types that the dashboard lists as those of vehicles and of bicycles, and others that it
\* does not list: red lights and construction sites.
Types == {"niXing", "chuangHongDeng", "daWanXiaoZhuan", "chaoshi"}
EventTypeMap == [vehicle |-> {"daWanXiaoZhuan"}, non_motor |-> {"niXing"}]

DateOf(t) == t \div Hours
HourOf(t) == t % Hours
Midnight(date) == date * Hours
Days == 0..DateOf(LastTick)
Times == 0..LastTick

Unseen == [at |-> "unseen", start |-> 0, createdAt |-> 0, date |-> 0, hour |-> 0,
           kind |-> CHOOSE k \in Kinds : TRUE]

TypeOK ==
  /\ now \in Times
  /\ event \in [Events -> [at : {"unseen", "seen", "stored"}, start : Times, createdAt : Times,
                           date : Days, hour : 0..(Hours - 1),
                           kind : [type : Types, camera : Cameras, classes : Seq(Nat)]]]

Init == now = 0 /\ event = [e \in Events |-> Unseen]

Tick == now < LastTick /\ now' = now + 1 /\ UNCHANGED event

\* A handler gives the event its time, and a saver begins to store its pictures.
Detect(e, kind) ==
  /\ event[e].at = "unseen"
  /\ event' = [event EXCEPT ![e] = [Unseen EXCEPT !.at = "seen", !.start = now, !.kind = kind]]
  /\ UNCHANGED now

\* The analyzer's Insert: created now, counted when it began.
Insert(e) ==
  /\ event[e].at = "seen"
  /\ event' = [event EXCEPT ![e].at = "stored", ![e].createdAt = now,
                            ![e].date = DateOf(event[e].start),
                            ![e].hour = HourOf(event[e].start)]
  /\ UNCHANGED now

\* A picture cannot be stored, or the insertion fails.
Lose(e) ==
  /\ event[e].at = "seen"
  /\ event' = [event EXCEPT ![e] = Unseen]
  /\ UNCHANGED now

\* Mutant: it is counted on the day its sender says it began.
PostEventsByStart(e, kind, start) ==
  /\ event[e].at = "unseen"
  /\ event' = [event EXCEPT ![e] =
                 [at |-> "stored", start |-> start, createdAt |-> now,
                  date |-> DateOf(start), hour |-> HourOf(start), kind |-> kind]]
  /\ UNCHANGED now

\* The dashboard's Insert, of an event that is sent to it. Whatever time it is sent with, it
\* is counted when it is created.
PostEvents(e, kind, start) ==
  /\ event[e].at = "unseen"
  /\ event' = [event EXCEPT ![e] =
                 [at |-> "stored", start |-> start, createdAt |-> now,
                  date |-> DateOf(now), hour |-> HourOf(now), kind |-> kind]]
  /\ UNCHANGED now

\* A user corrects the class of the first snapshot, which is made when there is none.
PutEvents(e, class) ==
  /\ event[e].at = "stored"
  /\ event' = [event EXCEPT ![e].kind.classes =
                 IF @ = <<>> THEN <<class>> ELSE [@ EXCEPT ![1] = class]]
  /\ UNCHANGED now

\* A user deletes it; a deletion that fails changes nothing.
DeleteEvents(e) ==
  /\ event[e].at = "stored"
  /\ event' = [event EXCEPT ![e] = Unseen]
  /\ UNCHANGED now

Next ==
  \/ Tick
  \/ \E e \in Events :
       \/ \E kind \in Kinds : Detect(e, kind) \/ \E start \in Starts : PostEvents(e, kind, start)
       \/ Insert(e) \/ Lose(e)
       \/ DeleteEvents(e) \/ \E class \in Classes : PutEvents(e, class)

Spec == Init /\ [][Next]_vars

-----------------------------------------------------------------------------
(***************************************************************************)
(* The answers. A request may leave the camera and the type open.          *)
(***************************************************************************)
Stored == {e \in Events : event[e].at = "stored"}

\* typo is the kind of events, type one of them, which takes precedence.
OfType(q) ==
  {e \in Stored : IF q.type # "" THEN event[e].kind.type = q.type
                 ELSE q.typo # "" => event[e].kind.type \in EventTypeMap[q.typo]}

\* The class that the days can be asked for as well is left out: the other answers do not
\* know it. The answer about the cameras does not look at the camera.
Selected(q) == {e \in OfType(q) : q.camera # "" => event[e].kind.camera = q.camera}

\* Mutant: the events that began between them.
BetweenStarts(S, from, to) == {e \in S : from <= event[e].start /\ event[e].start <= to}

\* Both ends are included.
Between(S, from, to) == {e \in S : from <= event[e].createdAt /\ event[e].createdAt <= to}

\* How many arguments of f have each of its values.
CountBy(f) == [v \in Range(f) |-> Cardinality({x \in DOMAIN f : f[x] = v})]

CountByHour(S, date) ==
  CountBy([e \in {e \in S : event[e].date = date} |-> event[e].hour])

CountByDate(S, from, to) == CountBy([e \in Between(S, from, to) |-> event[e].date])

CountEventTypeByDate(S, from, to) ==
  CountBy([e \in Between(S, from, to) |-> event[e].kind.type])

CountCameraByDate(S, from, to) ==
  CountBy([e \in Between(S, from, to) |-> event[e].kind.camera])

\* Snapshots, not events, are counted by class, and those of no class are left out.
CountClassByDate(S, from, to) ==
  LET classes(e) == event[e].kind.classes
      classed == {p \in Between(S, from, to) \X (1..3) :
                    p[2] \in DOMAIN classes(p[1]) /\ classes(p[1])[p[2]] # 0}
  IN CountBy([p \in classed |-> classes(p[1])[p[2]]])

\* An array of all hours, with nought where nothing is counted.
Hourly(S, date) ==
  LET counts == CountByHour(S, date)
  IN [h \in 0..(Hours - 1) |-> IF h \in DOMAIN counts THEN counts[h] ELSE 0]

\* The days of a request reach from the first midnight to the one after the last day.
Daily(q, from, to) == CountByDate(Selected(q), Midnight(from), Midnight(to + 1))
ByType(q, from, to) == CountEventTypeByDate(Selected(q), Midnight(from), Midnight(to + 1))
ByClass(q, from, to) == CountClassByDate(Selected(q), Midnight(from), Midnight(to + 1))

\* The names of the cameras come from the VMS: of all of them, or of none when it gives no
\* device and no error. The rows go from the busiest camera to the quietest,
\* and the sort, which is not stable, leaves the order of equals open.
CameraRows(counts, named) ==
  LET order == CHOOSE s \in SetToSeqs(DOMAIN counts) :
                 \A i, j \in DOMAIN s : i < j => counts[s[i]] >= counts[s[j]]
  IN [i \in DOMAIN order |->
        [cameraName |-> IF order[i] \in named THEN order[i] ELSE "",
         eventsNum |-> counts[order[i]]]]

ByCamera(q, from, to, named) ==
  CameraRows(CountCameraByDate(OfType(q), Midnight(from), Midnight(to + 1)), named)

-----------------------------------------------------------------------------
Total(counts) == FoldFunction(+, 0, counts)

\* Counted on day d, but stored too late for an answer that ends on day to.
Late(S, d, to) == {e \in S : event[e].date = d /\ event[e].createdAt > Midnight(to + 1)}

\* Whatever is asked for, the hours of a day add up to what the list of any days has for
\* it and what was stored too late for that list: nothing is counted on a day that is not
\* over by then, whatever time it was sent with (event.go:187, 248-253, dao event.go:46-49,
\* 123, analyzer event.go:42-46).
HoursAndDaysAgree ==
  \A q \in Requests, to \in Days : \A from \in 0..to : \A d \in from..to :
    LET days == Daily(q, from, to)
    IN Total(Hourly(Selected(q), d)) =
         Cardinality(Late(Selected(q), d, to)) + (IF d \in DOMAIN days THEN days[d] ELSE 0)

\* f counts nothing that g does not count as often.
NotMore(f, g) == \A x \in DOMAIN f : x \in DOMAIN g /\ f[x] <= g[x]

\* Each camera of rows has a row in others, with as many events.
RowsWithin(rows, others) ==
  \A i \in DOMAIN rows : \E j \in DOMAIN others :
    others[j].cameraName = rows[i].cameraName /\ rows[i].eventsNum <= others[j].eventsNum

\* The days, types and cameras of days that are over only lose events, by deletions, however
\* late the events of these days are stored, and their classes only gain by a correction
\* (event.go:122, 144, dao event.go:123, 149, 199, 242). Their hours do gain: see the README.
PastDaysOnlyShrink ==
  [][\A q \in Requests, to \in Days : \A from \in 0..to : Midnight(to + 1) < now =>
       /\ NotMore(Daily(q, from, to)', Daily(q, from, to))
       /\ NotMore(ByType(q, from, to)', ByType(q, from, to))
       /\ RowsWithin(ByCamera(q, from, to, Cameras)', ByCamera(q, from, to, Cameras))
       /\ \/ NotMore(ByClass(q, from, to)', ByClass(q, from, to))
          \/ \E e \in Events, class \in Classes : PutEvents(e, class)]_vars
=============================================================================
