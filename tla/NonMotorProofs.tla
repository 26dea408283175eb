---------------------------- MODULE NonMotorProofs ----------------------------
(***************************************************************************)
(* Proofs about NonMotorHandler, for any objects, kinds of violations,     *)
(* capacity of saverCh and number of savers.                               *)
(***************************************************************************)
EXTENDS NonMotorHandler, TLAPS

-----------------------------------------------------------------------------
(***************************************************************************)
(* The channel, seen as the set of values in it.                           *)
(***************************************************************************)
NoTwice(s) == \A i, j \in 1..Len(s) : s[i] = s[j] => i = j

Holds(s, v) == \E i \in 1..Len(s) : s[i] = v

LEMMA Appended ==
  ASSUME NEW s \in Seq(Values), NEW n \in Values, NoTwice(s), ~Holds(s, n)
  PROVE  /\ NoTwice(Append(s, n))
         /\ \A v : Holds(Append(s, n), v) <=> (Holds(s, v) \/ v = n)
<1>1. /\ Len(Append(s, n)) = Len(s) + 1 /\ Len(s) \in Nat
      /\ \A i \in 1..Len(s) : Append(s, n)[i] = s[i]
      /\ Append(s, n)[Len(s) + 1] = n
  OBVIOUS
<1> QED  BY <1>1 DEF NoTwice, Holds

LEMMA Received ==
  ASSUME NEW s \in Seq(Values), s # <<>>, NoTwice(s)
  PROVE  /\ Tail(s) \in Seq(Values) /\ Head(s) \in Values
         /\ NoTwice(Tail(s)) /\ Holds(s, Head(s)) /\ ~Holds(Tail(s), Head(s))
         /\ \A v : Holds(s, v) <=> (v = Head(s) \/ Holds(Tail(s), v))
<1>1. /\ Len(s) \in Nat \ {0} /\ Len(Tail(s)) = Len(s) - 1 /\ Head(s) = s[1]
      /\ \A i \in 1..Len(Tail(s)) : Tail(s)[i] = s[i + 1]
      /\ Tail(s) \in Seq(Values) /\ Head(s) \in Values
  OBVIOUS
<1>2. NoTwice(Tail(s)) /\ Holds(s, Head(s)) /\ ~Holds(Tail(s), Head(s))
  BY <1>1 DEF NoTwice, Holds
<1>3. ASSUME NEW v, Holds(s, v), v # Head(s) PROVE Holds(Tail(s), v)
  <2>1. PICK i \in 1..Len(s) : s[i] = v
    BY <1>3 DEF Holds
  <2>2. i - 1 \in 1..Len(Tail(s)) /\ Tail(s)[i - 1] = v
    BY <1>1, <1>3, <2>1
  <2> QED  BY <2>2 DEF Holds
<1>4. ASSUME NEW v, Holds(Tail(s), v) PROVE Holds(s, v)
  <2>1. PICK i \in 1..Len(Tail(s)) : Tail(s)[i] = v
    BY <1>4 DEF Holds
  <2>2. i + 1 \in 1..Len(s) /\ s[i + 1] = v
    BY <1>1, <2>1
  <2> QED  BY <2>2 DEF Holds
<1> QED  BY <1>1, <1>2, <1>3, <1>4

-----------------------------------------------------------------------------
(***************************************************************************)
(* The types the argument needs.                                           *)
(***************************************************************************)
Shape ==
  /\ entry \in [Objs -> Nat] /\ gen \in [Objs -> Nat]
  /\ \A o \in Objs : entry[o] <= gen[o] /\ gen[o] <= MaxGen[o]
  /\ heap \in [Values -> SUBSET Kinds]
  /\ saverCh \in Seq(Values) /\ saving \in SUBSET Saving
  /\ due \in SUBSET Objs /\ remove \in SUBSET Objs

LEMMA ValueForm ==
  /\ \A v \in Values : v[1] \in Objs /\ v[2] \in Nat /\ v[2] > 0 /\ v = <<v[1], v[2]>>
  /\ \A o \in Objs, g \in Nat : (0 < g /\ g <= MaxGen[o]) => <<o, g>> \in Values
BY NonMotorAssumption DEF Values

LEMMA EventForm ==
  /\ \A v \in Values, k \in Kinds : <<v[1], v[2], k>> \in Events
  /\ \A e \in Events : /\ <<e[1], e[2]>> \in Values /\ e[3] \in Kinds
                       /\ e = <<e[1], e[2], e[3]>>
<1>1. \A v \in Values, k \in Kinds : <<v[1], v[2], k>> \in Events
  BY DEF Events
<1>2. ASSUME NEW e \in Events
      PROVE  <<e[1], e[2]>> \in Values /\ e[3] \in Kinds /\ e = <<e[1], e[2], e[3]>>
  <2>1. PICK v \in Values, k \in Kinds : e = <<v[1], v[2], k>>
    BY DEF Events
  <2>2. v = <<v[1], v[2]>>
    BY ValueForm
  <2> QED  BY <2>1, <2>2
<1> QED  BY <1>1, <1>2

LEMMA InitShape == Init => Shape
BY NonMotorAssumption DEF Init, Shape

\* The maps after a frame.
LEMMA BoxesShape ==
  ASSUME Shape, NEW seen \in SUBSET Objs, NEW shown \in [seen -> SUBSET Kinds],
         NEW bigger \in SUBSET seen, HandleBoxes(seen, shown, bigger)
  PROVE  /\ entry' \in [Objs -> Nat] /\ gen' \in [Objs -> Nat]
         /\ \A o \in Objs : entry'[o] <= gen'[o] /\ gen'[o] <= MaxGen[o]
         /\ \A o \in Objs : \/ entry'[o] = entry[o] /\ gen'[o] = gen[o]
                            \/ entry'[o] = gen[o] + 1 /\ gen'[o] = gen[o] + 1
         /\ heap' \in [Values -> SUBSET Kinds]
         /\ \A v \in Values : heap[v] \subseteq heap'[v]
         /\ due' \in SUBSET due
<1> DEFINE number == Numbers(seen)
<1>1. /\ entry' = number
      /\ gen' = [o \in Objs |-> IF number[o] > gen[o] THEN number[o] ELSE gen[o]]
      /\ \A o \in seen : entry[o] = 0 => gen[o] < MaxGen[o]
      /\ due' \in SUBSET due
  BY DEF HandleBoxes
<1>2. /\ number \in [Objs -> Nat]
      /\ \A o \in Objs : number[o] = IF o \in seen /\ entry[o] = 0 THEN gen[o] + 1 ELSE entry[o]
  BY DEF Shape, Numbers
<1>3. /\ heap' \in [Values -> SUBSET Kinds]
      /\ \A v \in Values : heap[v] \subseteq heap'[v]
  <2> DEFINE written == {o \in seen : (entry[o] = 0 \/ o \in bigger) /\ shown[o] # {}}
             grown(v) == IF v[1] \in written /\ v[2] = number[v[1]]
                         THEN heap[v] \cup shown[v[1]] ELSE heap[v]
  <2>1. heap' = [v \in Values |-> grown(v)]
    BY DEF HandleBoxes
  <2>2. \A v \in Values : grown(v) \in SUBSET Kinds /\ heap[v] \subseteq grown(v)
    BY DEF Shape
  <2> HIDE DEF grown
  <2> QED  BY <2>1, <2>2
<1>4. \A o \in Objs : entry[o] \in Nat /\ gen[o] \in Nat /\ entry[o] <= gen[o]
                      /\ gen[o] <= MaxGen[o] /\ MaxGen[o] \in Nat
  BY NonMotorAssumption DEF Shape
<1> HIDE DEF number
<1>5. \A o \in Objs : \/ entry'[o] = entry[o] /\ gen'[o] = gen[o]
                      \/ entry'[o] = gen[o] + 1 /\ gen'[o] = gen[o] + 1 /\ gen[o] < MaxGen[o]
  BY <1>1, <1>2, <1>4
<1>6. entry' \in [Objs -> Nat] /\ gen' \in [Objs -> Nat]
  BY <1>1, <1>2, <1>4
<1> QED  BY <1>1, <1>3, <1>4, <1>5, <1>6

\* What the savers have to save after a frame: each goes on with the value it had, and
\* with no kind but those it had and those that are new in the map of this value.
LEMMA BoxesSaving ==
  ASSUME Shape, NEW seen \in SUBSET Objs, NEW shown \in [seen -> SUBSET Kinds],
         NEW bigger \in SUBSET seen, HandleBoxes(seen, shown, bigger)
  PROVE  /\ saving' \in SUBSET Saving
         /\ \A v \in Values : InPool(v)' => InPool(v)
         /\ \A t \in saving' : \E s \in saving :
              /\ t.of = s.of /\ t.at = s.at /\ s.left \subseteq t.left
              /\ t.left \subseteq s.left \cup (heap'[s.of] \ heap[s.of])
         /\ (\A s, t \in saving : s.of = t.of => s = t)
              => \A s, t \in saving' : s.of = t.of => s = t
<1> DEFINE number == Numbers(seen)
           written == {o \in seen : (entry[o] = 0 \/ o \in bigger) /\ shown[o] # {}}
           new == {e \in Events : /\ e[1] \in written /\ e[2] = number[e[1]]
                                  /\ e[3] \in shown[e[1]] \ heap[<<e[1], e[2]>>]}
           ranged == {s \in saving : /\ s.at = "range" /\ s.of[1] \in written
                                     /\ s.of[2] = number[s.of[1]]}
           more(s) == {e[3] : e \in {f \in new : <<f[1], f[2]>> = s.of}}
           grown(s) == IF s \in ranged THEN [s EXCEPT !.left = s.left \cup more(s)] ELSE s
<1>1. \/ saving' = saving
      \/ saving' = (saving \ ranged) \cup {[s EXCEPT !.left = s.left \cup more(s)] : s \in ranged}
  BY DEF HandleBoxes
<1>2. ASSUME NEW s \in saving
      PROVE  more(s) \subseteq heap'[s.of] \ heap[s.of] /\ more(s) \in SUBSET Kinds
  <2> SUFFICES ASSUME NEW e \in new, <<e[1], e[2]>> = s.of
               PROVE  e[3] \in heap'[s.of] \ heap[s.of] /\ e[3] \in Kinds
    OBVIOUS
  <2>1. e \in Events /\ s.of \in Values
    BY DEF Shape, Saving
  <2>2. s.of[1] = e[1] /\ s.of[2] = e[2]
    OBVIOUS
  <2>3. heap'[s.of] = heap[s.of] \cup shown[e[1]]
    BY <2>1, <2>2 DEF HandleBoxes
  <2> QED  BY <2>1, <2>3, EventForm
<1>3. ASSUME NEW s \in saving
      PROVE  /\ grown(s) \in Saving /\ grown(s).of = s.of /\ grown(s).at = s.at
             /\ s.left \subseteq grown(s).left
             /\ grown(s).left \subseteq s.left \cup (heap'[s.of] \ heap[s.of])
  <2> HIDE DEF more
  <2>1. s \in Saving
    BY DEF Shape
  <2> QED  BY <1>2, <2>1 DEF Saving
<1>4. saving' = saving \/ saving' = {grown(s) : s \in saving}
  <2> HIDE DEF more
  <2> QED  BY <1>1
<1> HIDE DEF grown
<1>5. CASE saving' = saving
  BY <1>5 DEF Shape, InPool
<1>6. CASE saving' = {grown(s) : s \in saving}
  BY <1>3, <1>6 DEF InPool
<1> QED  BY <1>4, <1>5, <1>6

-----------------------------------------------------------------------------
(***************************************************************************)
(* Why an event is inserted once. A value is in the channel, with a saver, *)
(* or with events of it inserted, and when it was sent from its entry the  *)
(* entry is about to be removed. What is left to a saver is in the map of  *)
(* its value and not inserted yet, and what was inserted is in the map: so *)
(* what comes into the map while a saver ranges over it is new.            *)
(***************************************************************************)
Over(v, k) == <<v[1], v[2], k>> \in over
Begun(v) == \E k \in Kinds : Over(v, k)
Sent(v) == InQueue(v) \/ InPool(v) \/ Begun(v)

Numbered == \A o \in Objs, g \in Nat : Sent(<<o, g>>) => 0 < g /\ g <= gen[o]
SentIsRemoved == \A o \in Objs : Sent(<<o, entry[o]>>) => o \in remove
DueIsUnsent == \A o \in due : entry[o] # 0 /\ o \notin remove
Phases ==
  /\ bg = "wait" => due = {}
  /\ bg \in {"wait", "rlock"} => remove = {}
  /\ bg = "lock" => due = {}
ScanInv == Numbered /\ SentIsRemoved /\ DueIsUnsent /\ Phases

QueuedOnce == NoTwice(saverCh) /\ \A v \in Values : InQueue(v) => ~InPool(v) /\ ~Begun(v)
OneSaver == \A s, t \in saving : s.of = t.of => s = t
LeftIsNotOver ==
  \A s \in saving : /\ s.left \subseteq heap[s.of]
                    /\ s.at = "images" => ~Begun(s.of)
                    /\ \A k \in s.left : ~Over(s.of, k)
OverIsRecorded == \A v \in Values, k \in Kinds : Over(v, k) => k \in heap[v]
PoolInv == over \in SUBSET Events /\ QueuedOnce /\ OneSaver /\ LeftIsNotOver /\ OverIsRecorded

NonMotorInv == Shape /\ ScanInv /\ PoolInv

LEMMA InvGivesOnce == NonMotorInv => InsertedOnce
<1> SUFFICES ASSUME NonMotorInv PROVE InsertedOnce
  OBVIOUS
<1>1. ASSUME NEW v, NEW e \in EventsOf(v) PROVE e = <<v[1], v[2], e[3]>> /\ e[3] \in Kinds
  <2>1. e \in Events /\ <<e[1], e[2]>> = v
    BY DEF EventsOf
  <2>2. v[1] = e[1] /\ v[2] = e[2]
    BY <2>1
  <2> QED  BY <2>1, <2>2, EventForm
<1>2. \A v \in Values : InQueue(v) => ~InPool(v) /\ \A e \in EventsOf(v) : e \notin over
  BY <1>1 DEF NonMotorInv, PoolInv, QueuedOnce, Begun, Over
<1>3. \A s \in saving : \A e \in EventsOf(s.of) : e[3] \in s.left => e \notin over
  BY <1>1 DEF NonMotorInv, PoolInv, LeftIsNotOver, Over
<1> QED
  BY <1>2, <1>3 DEF NonMotorInv, PoolInv, QueuedOnce, OneSaver, NoTwice, InsertedOnce

LEMMA InitInv == Init => NonMotorInv
<1> SUFFICES ASSUME Init PROVE NonMotorInv
  OBVIOUS
<1>1. Len(saverCh) = 0 /\ saving = {} /\ over = {}
  BY DEF Init
<1>2. \A v : ~Sent(v)
  BY <1>1 DEF Sent, InQueue, InPool, Begun, Over
<1>3. ScanInv
  BY <1>2 DEF Init, ScanInv, Numbered, SentIsRemoved, DueIsUnsent, Phases
<1>4. PoolInv
  BY <1>1, <1>2
  DEF PoolInv, QueuedOnce, OneSaver, LeftIsNotOver, OverIsRecorded, NoTwice, Sent, InQueue, Over
<1> QED  BY <1>3, <1>4, InitShape DEF NonMotorInv

\* A step that leaves the channel, the savers and the maps alone.
LEMMA PoolSame ==
  ASSUME NonMotorInv, UNCHANGED <<saverCh, saving, over, heap>>
  PROVE  PoolInv' /\ \A v : Sent(v)' <=> Sent(v)
<1>1. \A v : /\ InQueue(v)' <=> InQueue(v)
             /\ InPool(v)' <=> InPool(v)
             /\ Begun(v)' <=> Begun(v)
  BY DEF InQueue, InPool, Begun, Over
<1>2. \A v, k : Over(v, k)' <=> Over(v, k)
  BY DEF Over
<1> QED
  BY <1>1, <1>2
  DEF NonMotorInv, PoolInv, QueuedOnce, OneSaver, LeftIsNotOver, OverIsRecorded, Sent

\* A step of a saver sends no value.
LEMMA ScanSame ==
  ASSUME NonMotorInv, UNCHANGED <<entry, gen, bg, due, remove>>,
         \A v \in Objs \X Nat : Sent(v)' => Sent(v)
  PROVE  ScanInv'
BY DEF NonMotorInv, Shape, ScanInv, Numbered, SentIsRemoved, DueIsUnsent, Phases

LEMMA BoxesInv ==
  ASSUME NonMotorInv, NEW seen \in SUBSET Objs, NEW shown \in [seen -> SUBSET Kinds],
         NEW bigger \in SUBSET seen, HandleBoxes(seen, shown, bigger)
  PROVE  NonMotorInv'
<1> USE DEF NonMotorInv
<1>1. /\ entry' \in [Objs -> Nat] /\ gen' \in [Objs -> Nat]
      /\ \A o \in Objs : entry'[o] <= gen'[o] /\ gen'[o] <= MaxGen[o]
      /\ \A o \in Objs : \/ entry'[o] = entry[o] /\ gen'[o] = gen[o]
                         \/ entry'[o] = gen[o] + 1 /\ gen'[o] = gen[o] + 1
      /\ heap' \in [Values -> SUBSET Kinds]
      /\ \A v \in Values : heap[v] \subseteq heap'[v]
      /\ due' \in SUBSET due
  BY BoxesShape
<1>2. /\ saving' \in SUBSET Saving
      /\ \A v \in Values : InPool(v)' => InPool(v)
      /\ \A t \in saving' : \E s \in saving :
           /\ t.of = s.of /\ t.at = s.at /\ s.left \subseteq t.left
           /\ t.left \subseteq s.left \cup (heap'[s.of] \ heap[s.of])
      /\ (\A s, t \in saving : s.of = t.of => s = t)
           => \A s, t \in saving' : s.of = t.of => s = t
  BY BoxesSaving
<1>3. UNCHANGED <<bg, remove, over, saverCh>>
  BY DEF HandleBoxes
<1>4. Shape'
  BY <1>1, <1>2, <1>3 DEF Shape
<1>5. /\ \A v : (InQueue(v)' <=> InQueue(v)) /\ (Begun(v)' <=> Begun(v))
      /\ \A v, k : Over(v, k)' <=> Over(v, k)
  BY <1>3 DEF InQueue, Begun, Over
<1>6. \A v : InPool(v)' => InPool(v)
  BY <1>2 DEF InPool
<1>7. \A v : Sent(v)' => Sent(v)
  BY <1>5, <1>6 DEF Sent
<1>8. ScanInv'
  <2>1. \A o \in Objs : entry[o] \in Nat /\ gen[o] \in Nat /\ entry[o] <= gen[o]
    BY DEF Shape
  <2>2. Numbered'
    <3> SUFFICES ASSUME NEW o \in Objs, NEW g \in Nat, Sent(<<o, g>>) PROVE 0 < g /\ g <= gen'[o]
      BY <1>7 DEF Numbered
    <3>1. 0 < g /\ g <= gen[o]
      BY DEF ScanInv, Numbered
    <3> QED  BY <1>1, <2>1, <3>1
  <2>3. SentIsRemoved'
    <3> SUFFICES ASSUME NEW o \in Objs, Sent(<<o, entry'[o]>>) PROVE o \in remove
      BY <1>3, <1>7 DEF SentIsRemoved
    <3>1. entry'[o] <= gen[o]
      BY <1>1 DEF ScanInv, Numbered
    <3>2. entry'[o] = entry[o]
      BY <1>1, <2>1, <3>1
    <3> QED  BY <3>2 DEF ScanInv, SentIsRemoved
  <2>4. DueIsUnsent'
    <3> SUFFICES ASSUME NEW o \in due PROVE entry'[o] # 0 /\ o \notin remove
      BY <1>1, <1>3 DEF DueIsUnsent
    <3>1. o \in Objs /\ entry[o] # 0 /\ o \notin remove
      BY DEF Shape, ScanInv, DueIsUnsent
    <3> QED  BY <1>1, <2>1, <3>1
  <2>5. Phases'
    BY <1>1, <1>3 DEF ScanInv, Phases
  <2> QED  BY <2>2, <2>3, <2>4, <2>5 DEF ScanInv
<1>9. PoolInv'
  <2>1. (over \in SUBSET Events)' /\ QueuedOnce'
    BY <1>3, <1>5, <1>6 DEF PoolInv, QueuedOnce
  <2>2. OneSaver'
    BY <1>2 DEF PoolInv, OneSaver
  <2>3. LeftIsNotOver'
    <3> SUFFICES ASSUME NEW t \in saving'
                 PROVE  /\ t.left \subseteq heap'[t.of]
                        /\ t.at = "images" => ~Begun(t.of)
                        /\ \A k \in t.left : ~Over(t.of, k)
      BY <1>5 DEF LeftIsNotOver
    <3>1. PICK s \in saving : /\ t.of = s.of /\ t.at = s.at
                              /\ t.left \subseteq s.left \cup (heap'[s.of] \ heap[s.of])
      BY <1>2
    <3>2. /\ s.of \in Values /\ t.left \in SUBSET Kinds
      BY <1>2 DEF Shape, Saving
    <3>3. /\ s.left \subseteq heap[s.of]
          /\ s.at = "images" => ~Begun(s.of)
          /\ \A k \in s.left : ~Over(s.of, k)
      BY DEF PoolInv, LeftIsNotOver
    <3>4. \A k \in Kinds : Over(s.of, k) => k \in heap[s.of]
      BY <3>2 DEF PoolInv, OverIsRecorded
    <3>5. heap[s.of] \subseteq heap'[s.of]
      BY <1>1, <3>2
    <3> QED  BY <3>1, <3>2, <3>3, <3>4, <3>5
  <2>4. OverIsRecorded'
    BY <1>1, <1>5 DEF PoolInv, OverIsRecorded
  <2> QED  BY <2>1, <2>2, <2>3, <2>4 DEF PoolInv
<1> QED  BY <1>4, <1>8, <1>9

LEMMA SendInv ==
  ASSUME NonMotorInv, NEW o \in Objs, Send(o)
  PROVE  NonMotorInv'
<1> DEFINE n == <<o, entry[o]>>
<1> USE DEF NonMotorInv
<1>1. /\ saverCh' = Append(saverCh, n) /\ saverCh \in Seq(Values)
      /\ UNCHANGED <<entry, gen, heap, saving, over, bg>>
      /\ due' = due \ {o} /\ remove' = remove \cup {o} /\ o \in due /\ bg = "scan"
  BY DEF Send, frame, pool, Shape
<1>2. entry[o] \in Nat /\ entry[o] # 0 /\ entry[o] <= MaxGen[o] /\ ~Sent(n)
  <2>1. /\ entry[o] \in Nat /\ gen[o] \in Nat /\ MaxGen[o] \in Nat
        /\ entry[o] <= gen[o] /\ gen[o] <= MaxGen[o]
    BY NonMotorAssumption DEF Shape
  <2>2. entry[o] # 0 /\ ~Sent(n)
    BY <1>1 DEF ScanInv, DueIsUnsent, SentIsRemoved
  <2> QED  BY <2>1, <2>2
<1>3. n \in Values
  BY <1>2, ValueForm
<1> HIDE DEF n
<1>4. NoTwice(saverCh') /\ \A v : InQueue(v)' <=> (InQueue(v) \/ v = n)
  <2>1. NoTwice(saverCh) /\ ~Holds(saverCh, n)
    BY <1>2 DEF PoolInv, QueuedOnce, Sent, InQueue, Holds
  <2>2. \A v : (InQueue(v) <=> Holds(saverCh, v)) /\ (InQueue(v)' <=> Holds(saverCh', v))
    BY DEF InQueue, Holds
  <2> QED  BY <1>1, <1>3, <2>1, <2>2, Appended
<1>5. /\ \A v : (InPool(v)' <=> InPool(v)) /\ (Begun(v)' <=> Begun(v))
      /\ \A v, k : Over(v, k)' <=> Over(v, k)
  BY <1>1 DEF InPool, Begun, Over
<1>6. \A v : Sent(v)' <=> (Sent(v) \/ v = n)
  BY <1>4, <1>5 DEF Sent
<1>7. Shape'
  <2>1. saverCh' \in Seq(Values)
    BY <1>1, <1>3
  <2> QED  BY <1>1, <2>1 DEF Shape
<1>8. ScanInv'
  <2>1. Numbered'
    <3> SUFFICES ASSUME NEW q \in Objs, NEW g \in Nat, Sent(<<q, g>>) \/ <<q, g>> = n
                 PROVE  0 < g /\ g <= gen[q]
      BY <1>1, <1>6 DEF Numbered
    <3>1. CASE Sent(<<q, g>>)
      BY <3>1 DEF ScanInv, Numbered
    <3>2. CASE <<q, g>> = n
      BY <1>2, <3>2 DEF n, Shape
    <3> QED  BY <3>1, <3>2
  <2>2. SentIsRemoved'
    <3> SUFFICES ASSUME NEW q \in Objs, Sent(<<q, entry[q]>>) \/ <<q, entry[q]>> = n
                 PROVE  q \in remove \cup {o}
      BY <1>1, <1>6 DEF SentIsRemoved
    <3> QED  BY DEF ScanInv, SentIsRemoved, n
  <2>3. DueIsUnsent' /\ Phases'
    BY <1>1 DEF ScanInv, DueIsUnsent, Phases
  <2> QED  BY <2>1, <2>2, <2>3 DEF ScanInv
<1>9. PoolInv'
  <2>1. QueuedOnce'
    BY <1>2, <1>4, <1>5 DEF PoolInv, QueuedOnce, Sent
  <2> QED
    BY <1>1, <1>5, <2>1 DEF PoolInv, OneSaver, LeftIsNotOver, OverIsRecorded
<1> QED  BY <1>7, <1>8, <1>9

LEMMA RemoveInv ==
  ASSUME NonMotorInv, Remove
  PROVE  NonMotorInv'
<1> USE DEF NonMotorInv
<1>1. /\ UNCHANGED <<gen, heap, saving, over, saverCh, due>> /\ remove' = {}
      /\ bg = "lock" /\ bg' = "wait"
      /\ entry' = [o \in Objs |-> IF o \in remove THEN 0 ELSE entry[o]]
  BY DEF Remove, pool
<1>2. \A o \in Objs : entry[o] \in Nat /\ gen[o] \in Nat /\ entry[o] <= gen[o]
  BY DEF Shape
<1>3. PoolInv' /\ \A v : Sent(v)' <=> Sent(v)
  BY <1>1, PoolSame
<1>4. Shape'
  <2>1. entry' \in [Objs -> Nat] /\ \A o \in Objs : entry'[o] <= gen[o]
    BY <1>1, <1>2
  <2> QED  BY <1>1, <2>1 DEF Shape
<1>5. SentIsRemoved'
  <2> SUFFICES ASSUME NEW o \in Objs, Sent(<<o, entry'[o]>>) PROVE FALSE
    BY <1>3 DEF SentIsRemoved
  <2>1. CASE o \in remove
    BY <1>1, <2>1 DEF ScanInv, Numbered
  <2>2. CASE o \notin remove
    BY <1>1, <2>2 DEF ScanInv, SentIsRemoved
  <2> QED  BY <2>1, <2>2
<1>6. Numbered' /\ DueIsUnsent' /\ Phases'
  BY <1>1, <1>3 DEF ScanInv, Numbered, DueIsUnsent, Phases
<1> QED  BY <1>3, <1>4, <1>5, <1>6 DEF ScanInv

LEMMA TakesInv ==
  ASSUME NonMotorInv, Takes
  PROVE  NonMotorInv'
<1> DEFINE h == Head(saverCh)
           new == [of |-> h, at |-> "images", left |-> {}]
<1> USE DEF NonMotorInv
<1>1. /\ saverCh # <<>> /\ saverCh' = Tail(saverCh) /\ saverCh \in Seq(Values)
      /\ saving' = saving \cup {new}
      /\ UNCHANGED <<entry, gen, heap, over, bg, due, remove>>
  BY DEF Takes, frame, scan, Shape
<1>2. /\ Tail(saverCh) \in Seq(Values) /\ h \in Values
      /\ NoTwice(Tail(saverCh)) /\ Holds(saverCh, h) /\ ~Holds(Tail(saverCh), h)
      /\ \A v : Holds(saverCh, v) <=> (v = h \/ Holds(Tail(saverCh), v))
  BY <1>1, Received DEF PoolInv, QueuedOnce
<1>3. new \in Saving /\ new.of = h /\ new.at = "images" /\ new.left = {}
  BY <1>2 DEF Saving
<1> HIDE DEF h, new
<1>4. /\ InQueue(h) /\ \A v : v = h => ~InQueue(v)'
      /\ \A v : InQueue(v) <=> (v = h \/ InQueue(v)')
  <2>1. \A v : (InQueue(v) <=> Holds(saverCh, v)) /\ (InQueue(v)' <=> Holds(saverCh', v))
    BY DEF InQueue, Holds
  <2> QED  BY <1>1, <1>2, <2>1
<1>5. /\ \A v : (InPool(v)' <=> (InPool(v) \/ v = h)) /\ (Begun(v)' <=> Begun(v))
      /\ \A v, k : Over(v, k)' <=> Over(v, k)
  BY <1>1, <1>3 DEF InPool, Begun, Over
<1>6. ~InPool(h) /\ ~Begun(h)
  BY <1>2, <1>4 DEF PoolInv, QueuedOnce
<1>7. Shape'
  BY <1>1, <1>2, <1>3 DEF Shape
<1>8. ScanInv'
  <2>1. \A v : Sent(v)' => Sent(v)
    BY <1>4, <1>5 DEF Sent
  <2> QED  BY <1>1, <2>1, ScanSame
<1>9. PoolInv'
  <2>1. QueuedOnce'
    BY <1>1, <1>2, <1>4, <1>5 DEF PoolInv, QueuedOnce
  <2>2. OneSaver'
    BY <1>1, <1>3, <1>6 DEF PoolInv, OneSaver, InPool
  <2>3. LeftIsNotOver'
    BY <1>1, <1>3, <1>5, <1>6 DEF PoolInv, LeftIsNotOver
  <2>4. (over \in SUBSET Events)' /\ OverIsRecorded'
    BY <1>1, <1>5 DEF PoolInv, OverIsRecorded
  <2> QED  BY <2>1, <2>2, <2>3, <2>4 DEF PoolInv
<1> QED  BY <1>7, <1>8, <1>9

\* A saver's step on its value s.of: it is done with it, or goes on with t; what becomes
\* over is what it had left, or all of the map when nothing was over.
LEMMA SaverInv ==
  ASSUME NonMotorInv, NEW s \in saving, NEW t \in Saving, NEW W \in SUBSET Kinds,
         UNCHANGED <<entry, gen, heap, saverCh, bg, due, remove>>,
         t.of = s.of,
         (saving' = saving \ {s}) \/ (saving' = (saving \ {s}) \cup {t}),
         over' = over \cup {<<s.of[1], s.of[2], k>> : k \in W},
         W \subseteq heap[s.of],
         t \in saving' => /\ t.left \subseteq heap[s.of]
                          /\ t.at = "images" => W = {} /\ s.at = "images"
                          /\ \A k \in t.left : k \notin W /\ ~Over(s.of, k)
  PROVE  NonMotorInv'
<1> USE DEF NonMotorInv
<1>1. s \in Saving /\ s.of \in Values
  BY DEF Shape, Saving
<1>2. ASSUME NEW v \in Values, NEW k \in Kinds
      PROVE  Over(v, k)' <=> (Over(v, k) \/ (v = s.of /\ k \in W))
  <2>1. v = <<v[1], v[2]>> /\ s.of = <<s.of[1], s.of[2]>>
    BY <1>1, ValueForm
  <2>2. Over(v, k)' <=> (Over(v, k) \/ \E j \in W : <<v[1], v[2], k>> = <<s.of[1], s.of[2], j>>)
    BY DEF Over
  <2> QED  BY <2>1, <2>2
<1>3. \A v : (InQueue(v)' <=> InQueue(v)) /\ (InPool(v)' => InPool(v))
  BY DEF InQueue, InPool
<1>4. ASSUME NEW v \in Objs \X Nat, Sent(v)' PROVE Sent(v)
  <2>1. CASE Begun(v)'
    <3>1. PICK k \in Kinds : <<v[1], v[2], k>> \in over'
      BY <2>1 DEF Begun, Over
    <3>2. CASE <<v[1], v[2], k>> \in over
      BY <3>2 DEF Begun, Over, Sent
    <3>3. CASE <<v[1], v[2], k>> \notin over
      <4>1. PICK j \in W : <<v[1], v[2], k>> = <<s.of[1], s.of[2], j>>
        BY <3>1, <3>3
      <4>2. v = <<v[1], v[2]>> /\ s.of = <<s.of[1], s.of[2]>>
        BY <1>1, ValueForm
      <4>3. v = s.of
        BY <4>1, <4>2
      <4> QED  BY <4>3 DEF InPool, Sent
    <3> QED  BY <3>2, <3>3
  <2> QED  BY <1>3, <1>4, <2>1 DEF Sent
<1>5. Shape'
  BY DEF Shape
<1>6. ScanInv'
  BY <1>4, ScanSame
<1>7. PoolInv'
  <2>1. over' \in SUBSET Events
    BY <1>1, EventForm DEF PoolInv
  <2>2. QueuedOnce'
    <3>1. ASSUME NEW v \in Values, InQueue(v) PROVE ~Begun(v)'
      <4>1. ~InPool(v) /\ ~Begun(v) /\ v # s.of
        BY <3>1 DEF PoolInv, QueuedOnce, InPool
      <4>2. \A k \in Kinds : ~Over(v, k)'
        BY <1>2, <4>1 DEF Begun
      <4> QED  BY <4>2 DEF Begun
    <3>2. NoTwice(saverCh')
      BY DEF PoolInv, QueuedOnce
    <3> QED  BY <1>3, <3>1, <3>2 DEF PoolInv, QueuedOnce
  <2>3. OneSaver'
    BY DEF PoolInv, OneSaver
  <2>4. LeftIsNotOver'
    <3> SUFFICES ASSUME NEW r \in saving'
                 PROVE  /\ r.left \subseteq heap[r.of]
                        /\ r.at = "images" => ~Begun(r.of)'
                        /\ \A k \in r.left : ~Over(r.of, k)'
      BY DEF LeftIsNotOver
    <3>1. CASE r \in saving /\ r # s
      <4>1. r.of \in Values /\ r.left \in SUBSET Kinds /\ r.of # s.of
        BY <3>1 DEF Shape, Saving, PoolInv, OneSaver
      <4>2. \A k \in Kinds : Over(r.of, k)' <=> Over(r.of, k)
        BY <1>2, <4>1
      <4>3. /\ r.left \subseteq heap[r.of]
            /\ r.at = "images" => ~Begun(r.of)
            /\ \A k \in r.left : ~Over(r.of, k)
        BY <3>1 DEF PoolInv, LeftIsNotOver
      <4> QED  BY <4>1, <4>2, <4>3 DEF Begun
    <3>2. CASE r = t
      <4>1. t.left \in SUBSET Kinds
        BY DEF Saving
      <4>2. \A k \in Kinds : Over(s.of, k)' <=> (Over(s.of, k) \/ k \in W)
        BY <1>1, <1>2
      <4>3. s.at = "images" => ~Begun(s.of)
        BY DEF PoolInv, LeftIsNotOver
      <4> QED  BY <3>2, <4>1, <4>2, <4>3 DEF Begun
    <3> QED  BY <3>1, <3>2
  <2>5. OverIsRecorded'
    BY <1>2 DEF PoolInv, OverIsRecorded
  <2> QED  BY <2>1, <2>2, <2>3, <2>4, <2>5 DEF PoolInv
<1> QED  BY <1>5, <1>6, <1>7

LEMMA WorksInv ==
  ASSUME NonMotorInv, Works
  PROVE  NonMotorInv'
<1>1. PICK s \in saving : \/ ImagesFail(s) \/ RangeStarts(s) \/ RangeEnds(s)
                          \/ \E k \in Kinds : Saves(s, k)
  BY DEF Works
<1>2. /\ s \in Saving /\ s.of \in Values /\ heap[s.of] \in SUBSET Kinds
      /\ s.left \subseteq heap[s.of]
      /\ s.at = "images" => ~Begun(s.of)
      /\ \A k \in s.left : ~Over(s.of, k)
  BY DEF NonMotorInv, Shape, PoolInv, LeftIsNotOver, Saving
<1>3. CASE ImagesFail(s)
  <2>1. /\ UNCHANGED <<entry, gen, heap, saverCh, bg, due, remove>> /\ s.at = "images"
        /\ saving' = saving \ {s}
        /\ over' = over \cup {e \in Events : <<e[1], e[2]>> = s.of /\ e[3] \in heap[s.of]}
    BY <1>3 DEF ImagesFail, frame, scan
  <2>2. {e \in Events : <<e[1], e[2]>> = s.of /\ e[3] \in heap[s.of]}
          = {<<s.of[1], s.of[2], k>> : k \in heap[s.of]}
    <3>1. ASSUME NEW e \in Events, <<e[1], e[2]>> = s.of, e[3] \in heap[s.of]
          PROVE  e \in {<<s.of[1], s.of[2], k>> : k \in heap[s.of]}
      <4>1. e = <<e[1], e[2], e[3]>> /\ s.of[1] = e[1] /\ s.of[2] = e[2]
        BY <3>1, EventForm
      <4> QED  BY <3>1, <4>1
    <3>2. ASSUME NEW k \in heap[s.of]
          PROVE  /\ <<s.of[1], s.of[2], k>> \in Events
                 /\ <<<<s.of[1], s.of[2], k>>[1], <<s.of[1], s.of[2], k>>[2]>> = s.of
      BY <1>2, EventForm, ValueForm
    <3> QED  BY <3>1, <3>2
  <2>3. s \notin saving'
    BY <2>1
  <2> QED  BY <1>2, <2>1, <2>2, <2>3, SaverInv
<1> DEFINE none == {k \in Kinds : FALSE}
<1>4. /\ none \in SUBSET Kinds /\ none = {}
      /\ over = over \cup {<<s.of[1], s.of[2], k>> : k \in none}
  OBVIOUS
<1> HIDE DEF none
<1>5. CASE RangeStarts(s)
  <2> DEFINE t == [s EXCEPT !.at = "range", !.left = heap[s.of]]
  <2>1. /\ UNCHANGED <<entry, gen, heap, saverCh, bg, due, remove>> /\ s.at = "images"
        /\ saving' = (saving \ {s}) \cup {t}
        /\ over' = over
    BY <1>5 DEF RangeStarts, frame, scan
  <2>2. t \in Saving /\ t.of = s.of /\ t.at = "range" /\ t.left = heap[s.of]
    BY <1>2 DEF Saving
  <2>3. \A k \in heap[s.of] : ~Over(s.of, k)
    BY <1>2, <2>1 DEF Begun
  <2> HIDE DEF t
  <2> QED  BY <1>2, <1>4, <2>1, <2>2, <2>3, SaverInv
<1>6. CASE RangeEnds(s)
  <2>1. /\ UNCHANGED <<entry, gen, heap, saverCh, bg, due, remove>>
        /\ saving' = saving \ {s} /\ over' = over
    BY <1>6 DEF RangeEnds, frame, scan
  <2>2. s \notin saving'
    BY <2>1
  <2> QED  BY <1>2, <1>4, <2>1, <2>2, SaverInv
<1>7. ASSUME NEW j \in Kinds, Saves(s, j) PROVE NonMotorInv'
  <2> DEFINE t == [s EXCEPT !.left = s.left \ {j}]
  <2>1. /\ UNCHANGED <<entry, gen, heap, saverCh, bg, due, remove>> /\ s.at = "range"
        /\ saving' = (saving \ {s}) \cup {t} /\ j \in s.left
        /\ over' = over \cup {<<s.of[1], s.of[2], j>>}
    BY <1>7 DEF Saves, frame, scan
  <2>2. t \in Saving /\ t.of = s.of /\ t.at = "range" /\ t.left = s.left \ {j}
    BY <1>2, <2>1 DEF Saving
  <2>3. over' = over \cup {<<s.of[1], s.of[2], k>> : k \in {j}}
    BY <2>1
  <2>4. {j} \in SUBSET Kinds /\ {j} \subseteq heap[s.of]
    BY <1>2, <2>1
  <2> HIDE DEF t
  <2> QED  BY <1>2, <2>1, <2>2, <2>3, <2>4, SaverInv
<1> QED  BY <1>1, <1>3, <1>5, <1>6, <1>7

LEMMA StepInv == NonMotorInv /\ [Next]_vars => NonMotorInv'
<1> SUFFICES ASSUME NonMotorInv, [Next]_vars PROVE NonMotorInv'
  OBVIOUS
<1> USE DEF NonMotorInv
\* Steps that leave the channel, the savers and the values alone.
<1>1. ASSUME UNCHANGED <<entry, gen, heap, saverCh, saving, over>>,
             due' \in SUBSET Objs, remove' \in SUBSET Objs,
             SentIsRemoved => SentIsRemoved', DueIsUnsent', Phases'
      PROVE  NonMotorInv'
  <2>1. PoolInv' /\ \A v : Sent(v)' <=> Sent(v)
    BY <1>1, PoolSame
  <2>2. Shape'
    BY <1>1 DEF Shape
  <2>3. Numbered'
    BY <1>1, <2>1 DEF ScanInv, Numbered
  <2>4. SentIsRemoved'
    BY <1>1 DEF ScanInv
  <2> QED  BY <1>1, <2>1, <2>2, <2>3, <2>4 DEF ScanInv
<1>2. ASSUME UNCHANGED <<entry, gen, heap, saverCh, saving, over, due, remove>>, Phases'
      PROVE  NonMotorInv'
  <2>1. \A v : Sent(v)' <=> Sent(v)
    BY <1>2, PoolSame
  <2>2. SentIsRemoved' /\ DueIsUnsent'
    BY <1>2, <2>1 DEF ScanInv, SentIsRemoved, DueIsUnsent
  <2>3. due' \in SUBSET Objs /\ remove' \in SUBSET Objs
    BY <1>2 DEF Shape
  <2> QED  BY <1>1, <1>2, <2>2, <2>3
<1>3. CASE Frame
  BY <1>2, <1>3 DEF Frame, scan, pool, ScanInv, Phases
<1>4. CASE Cancel
  BY <1>2, <1>4 DEF Cancel, frame, scan, pool, ScanInv, Phases
<1>5. CASE Release
  BY <1>2, <1>5 DEF Release, scan, pool, ScanInv, Phases
<1>6. CASE Wake
  <2>1. /\ UNCHANGED <<entry, gen, heap, saverCh, saving, over, remove>>
        /\ bg = "wait" /\ bg' = "rlock"
        /\ due' = {o \in Objs : entry[o] # 0 /\ unseen[o] > Timeout}
    BY <1>6 DEF Wake, frame, pool
  <2>2. remove = {}
    BY <2>1 DEF ScanInv, Phases
  <2>3. \A v : Sent(v)' <=> Sent(v)
    BY <2>1, PoolSame
  <2>4. SentIsRemoved' /\ DueIsUnsent' /\ Phases'
    BY <2>1, <2>2, <2>3 DEF ScanInv, SentIsRemoved, DueIsUnsent, Phases
  <2>5. due' \in SUBSET Objs /\ remove' \in SUBSET Objs
    BY <2>1, <2>2
  <2> QED  BY <1>1, <2>1, <2>4, <2>5
<1>7. CASE Done
  BY <1>2, <1>7 DEF Done, frame, pool, ScanInv, Phases
<1>8. CASE ScanStarts
  BY <1>2, <1>8 DEF ScanStarts, frame, pool, ScanInv, Phases
<1>9. CASE ScanEnds
  BY <1>2, <1>9 DEF ScanEnds, frame, pool, ScanInv, Phases
<1>10. CASE Stops
  BY <1>2, <1>10 DEF Stops, frame, scan, ScanInv, Phases
<1>11. CASE Tick
  BY <1>2, <1>11 DEF Tick, scan, pool, ScanInv, Phases
<1>12. CASE UNCHANGED vars
  BY <1>2, <1>12 DEF vars, frame, scan, pool, ScanInv, Phases
<1>13. CASE Handles
  BY <1>13, BoxesInv DEF Handles
<1>14. CASE Background
  BY <1>6, <1>7, <1>8, <1>9, <1>14, SendInv, RemoveInv DEF Background
<1> QED
  BY <1>3, <1>4, <1>5, <1>10, <1>11, <1>12, <1>13, <1>14, TakesInv, WorksInv DEF Next

(***************************************************************************)
(* For any objects, kinds, capacity and number of savers, no value goes to *)
(* two savers and no event is inserted twice.                              *)
(***************************************************************************)
THEOREM EventsInsertedOnce == Spec => []InsertedOnce
BY InitInv, StepInv, InvGivesOnce, PTL DEF Spec
=============================================================================
