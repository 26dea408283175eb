---------------------------- MODULE SidewalkProofs ----------------------------
(***************************************************************************)
(* Proofs about SidewalkViolation, for any objects, any capacity of saveCh *)
(* and any timeout.                                                        *)
(***************************************************************************)
EXTENDS SidewalkViolation, TLAPS

-----------------------------------------------------------------------------
(***************************************************************************)
(* The channel, seen as the set of events in it.                           *)
(***************************************************************************)
Event == Objs \X Nat

NoTwice(s) == \A i, j \in 1..Len(s) : s[i] = s[j] => i = j

LEMMA AppendNoTwice ==
  ASSUME NEW s \in Seq(Event), NEW e \in Event, NoTwice(s), \A i \in 1..Len(s) : s[i] # e
  PROVE  NoTwice(Append(s, e))
BY DEF NoTwice

LEMMA TailNoTwice ==
  ASSUME NEW s \in Seq(Event), s # <<>>, NoTwice(s)
  PROVE  /\ NoTwice(Tail(s))
         /\ \A i \in 1..Len(Tail(s)) : Tail(s)[i] # Head(s)
<1>1. /\ Len(s) \in Nat \ {0} /\ Len(Tail(s)) = Len(s) - 1
      /\ \A i \in 1..Len(Tail(s)) : Tail(s)[i] = s[i + 1]
      /\ Head(s) = s[1]
  OBVIOUS
<1> QED  BY <1>1 DEF NoTwice

-----------------------------------------------------------------------------
(***************************************************************************)
(* The types.                                                              *)
(***************************************************************************)
LEMMA SidewalkInitType == Init => TypeOK
<1> SUFFICES ASSUME Init PROVE TypeOK
  OBVIOUS
<1>1. saveCh \in Seq(Event) /\ Len(saveCh) <= Cap
  <2>1. saveCh = <<>>
    BY DEF Init
  <2> QED  BY <2>1, SidewalkAssumption
<1>2. /\ entry \in [Objs -> Nat] /\ gen \in [Objs -> Nat]
      /\ age \in [Objs -> 0..(Timeout + 1)]
  BY SidewalkAssumption DEF Init
<1>3. taken \in SUBSET Event /\ due \in SUBSET Objs /\ remove \in SUBSET Objs
  BY DEF Init
<1>4. /\ do = "ready" /\ bg = "wait"
      /\ closed = FALSE /\ cancelled = FALSE /\ crashed = FALSE
  BY DEF Init
<1> QED  BY <1>1, <1>2, <1>3, <1>4 DEF TypeOK, Event

LEMMA SidewalkStepType == TypeOK /\ [Next]_vars => TypeOK'
<1> SUFFICES ASSUME TypeOK, [Next]_vars PROVE TypeOK'
  OBVIOUS
<1> USE SidewalkAssumption
<1>1. ASSUME NEW b \in BOOLEAN, Frame(b) PROVE TypeOK'
  BY <1>1 DEF Frame, TypeOK
<1>2. ASSUME NEW seen \in SUBSET Objs, HandleBoxes(seen) PROVE TypeOK'
  <2>1. entry' \in [Objs -> Nat] /\ gen' \in [Objs -> Nat] /\ age' \in [Objs -> 0..(Timeout + 1)]
    BY <1>2 DEF HandleBoxes, TypeOK
  <2> QED  BY <1>2, <2>1 DEF HandleBoxes, TypeOK
<1>3. CASE HandleReceive
  <2>1. CASE saveCh = <<>>
    BY <1>3, <2>1 DEF HandleReceive, TypeOK
  <2>2. CASE saveCh # <<>>
    <3>0. /\ saveCh \in Seq(Event) /\ Len(saveCh) <= Cap
          /\ saveCh' = Tail(saveCh) /\ taken' = taken \cup {Head(saveCh)}
      BY <1>3, <2>2 DEF HandleReceive, TypeOK, Event
    <3>1. Tail(saveCh) \in Seq(Event) /\ Len(Tail(saveCh)) <= Cap /\ Head(saveCh) \in Event
      BY <2>2, <3>0
    <3> QED  BY <1>3, <3>0, <3>1 DEF HandleReceive, TypeOK, Event
  <2> QED  BY <2>1, <2>2
<1>4. CASE Cancel
  BY <1>4 DEF Cancel, TypeOK
<1>5. CASE Release
  BY <1>5 DEF Release, TypeOK
<1>6. CASE Wake
  BY <1>6 DEF Wake, TypeOK
<1>7. CASE Done
  BY <1>7 DEF Done, TypeOK
<1>8. CASE ScanStarts
  BY <1>8 DEF ScanStarts, TypeOK
<1>9. ASSUME NEW o \in Objs, Send(o) PROVE TypeOK'
  <2>1. <<o, entry[o]>> \in Event
    BY DEF TypeOK, Event
  <2>2. saveCh' \in Seq(Event) /\ Len(saveCh') <= Cap
    BY <1>9, <2>1 DEF Send, TypeOK, Event
  <2> QED  BY <1>9, <2>2 DEF Send, TypeOK, Event
<1>10. CASE SendPanics
  BY <1>10 DEF SendPanics, TypeOK
<1>11. CASE ScanEnds
  BY <1>11 DEF ScanEnds, TypeOK
<1>12. CASE Remove
  BY <1>12 DEF Remove, TypeOK
<1>13. CASE Tick
  BY <1>13 DEF Tick, TypeOK
<1>14. CASE UNCHANGED vars
  BY <1>14 DEF vars, TypeOK
<1> QED
  BY <1>1, <1>2, <1>3, <1>4, <1>5, <1>6, <1>7, <1>8, <1>9, <1>10, <1>11, <1>12, <1>13, <1>14
  DEF Next, Loop, Background

(***************************************************************************)
(* Every reachable state has the declared types.                           *)
(***************************************************************************)
THEOREM SidewalkTypeCorrect == Spec => []TypeOK
BY SidewalkInitType, SidewalkStepType, PTL DEF Spec

-----------------------------------------------------------------------------
(***************************************************************************)
(* Why no event is sent twice. An event that was sent and is still in its  *)
(* entry is about to be removed; what is due has not been sent; and the    *)
(* number of a new event is beyond all that were sent.                     *)
(***************************************************************************)
Sent(e) == InQueue(e) \/ e \in taken

Numbered ==
  /\ \A o \in Objs : entry[o] <= gen[o]
  /\ \A o \in Objs, g \in Nat : Sent(<<o, g>>) => 0 < g /\ g <= gen[o]

SentIsRemoved == \A o \in Objs : Sent(<<o, entry[o]>>) => o \in remove

DueIsUnsent == \A o \in due : entry[o] # 0 /\ o \notin remove

Phases ==
  /\ bg = "wait" => due = {}
  /\ bg \in {"wait", "rlock"} => remove = {}
  /\ bg = "lock" => due = {}

SidewalkInv == ReportedOnce /\ Numbered /\ SentIsRemoved /\ DueIsUnsent /\ Phases

LEMMA SidewalkInitInv == Init => SidewalkInv
<1> SUFFICES ASSUME Init PROVE SidewalkInv
  OBVIOUS
<1>1. Len(saveCh) = 0 /\ taken = {}
  BY DEF Init
<1>2. \A e : ~Sent(e)
  BY <1>1 DEF Sent, InQueue
<1>3. ReportedOnce
  BY <1>1 DEF ReportedOnce
<1>4. Numbered
  BY <1>2 DEF Init, Numbered
<1>5. SentIsRemoved
  BY <1>2 DEF SentIsRemoved
<1> QED  BY <1>3, <1>4, <1>5 DEF Init, SidewalkInv, DueIsUnsent, Phases

\* A step that neither sends nor takes an event out of the channel.
LEMMA SameSent ==
  ASSUME saveCh' = saveCh, taken' = taken, ReportedOnce
  PROVE  ReportedOnce' /\ \A e : Sent(e)' <=> Sent(e)
BY DEF ReportedOnce, Sent, InQueue

LEMMA BoxesInv ==
  ASSUME TypeOK, SidewalkInv, NEW seen \in SUBSET Objs, HandleBoxes(seen)
  PROVE  SidewalkInv'
<1>1. ReportedOnce' /\ \A e : Sent(e)' <=> Sent(e)
  BY SameSent DEF HandleBoxes, SidewalkInv
<1>2. \A o \in Objs : \/ entry'[o] = entry[o] /\ gen'[o] = gen[o]
                      \/ entry[o] = 0 /\ entry'[o] = gen[o] + 1 /\ gen'[o] = gen[o] + 1
  BY DEF HandleBoxes, TypeOK
<1>3. \A o \in Objs : entry[o] \in Nat /\ gen[o] \in Nat /\ entry'[o] \in Nat /\ gen'[o] \in Nat
  <2>1. \A o \in Objs : entry[o] \in Nat /\ gen[o] \in Nat
    BY DEF TypeOK
  <2> QED  BY <1>2, <2>1
<1>4. Numbered'
  BY <1>1, <1>2, <1>3 DEF Numbered, SidewalkInv
<1>5. SentIsRemoved'
  <2> SUFFICES ASSUME NEW o \in Objs, Sent(<<o, entry'[o]>>) PROVE o \in remove
    BY <1>1 DEF SentIsRemoved, HandleBoxes
  <2>1. entry'[o] <= gen[o]
    BY <1>3 DEF SidewalkInv, Numbered
  <2>2. entry'[o] = entry[o]
    BY <1>2, <1>3, <2>1
  <2> QED  BY <2>2 DEF SidewalkInv, SentIsRemoved
<1>6. DueIsUnsent'
  <2> SUFFICES ASSUME NEW o \in due PROVE entry'[o] # 0 /\ o \notin remove
    BY DEF DueIsUnsent, HandleBoxes
  <2>1. o \in Objs /\ entry[o] # 0 /\ o \notin remove
    BY DEF TypeOK, SidewalkInv, DueIsUnsent
  <2> QED  BY <1>2, <2>1
<1>7. Phases'
  BY DEF Phases, SidewalkInv, HandleBoxes
<1> QED  BY <1>1, <1>4, <1>5, <1>6, <1>7 DEF SidewalkInv

LEMMA ReceiveInv ==
  ASSUME TypeOK, SidewalkInv, HandleReceive
  PROVE  SidewalkInv'
<1>1. ReportedOnce' /\ \A e : Sent(e)' <=> Sent(e)
  <2>1. CASE saveCh = <<>>
    BY <2>1, SameSent DEF HandleReceive, SidewalkInv
  <2>2. CASE saveCh # <<>>
    <3> DEFINE s == saveCh
    <3>1. saveCh' = Tail(s) /\ taken' = taken \cup {Head(s)} /\ s \in Seq(Event) /\ s # <<>>
      BY <2>2 DEF HandleReceive, TypeOK, Event
    <3>2. NoTwice(s) /\ \A e \in taken : ~InQueue(e)
      BY DEF SidewalkInv, ReportedOnce, NoTwice
    <3>3. NoTwice(Tail(s)) /\ \A i \in 1..Len(Tail(s)) : Tail(s)[i] # Head(s)
      BY <3>1, <3>2, TailNoTwice
    <3>4. /\ Len(s) \in Nat \ {0} /\ Len(Tail(s)) = Len(s) - 1 /\ Head(s) = s[1]
          /\ \A i \in 1..Len(Tail(s)) : Tail(s)[i] = s[i + 1]
      BY <3>1
    <3>5. ASSUME NEW e PROVE InQueue(e) <=> (e = Head(s) \/ InQueue(e)')
      <4>1. ASSUME InQueue(e), e # Head(s) PROVE InQueue(e)'
        <5>1. PICK i \in 1..Len(s) : s[i] = e
          BY <4>1 DEF InQueue
        <5>2. i # 1 /\ i - 1 \in 1..Len(Tail(s))
          BY <3>4, <4>1, <5>1
        <5>3. Tail(s)[i - 1] = e
          BY <3>4, <5>1, <5>2
        <5> QED  BY <3>1, <5>2, <5>3 DEF InQueue
      <4>2. ASSUME InQueue(e)' PROVE InQueue(e)
        <5>1. PICK i \in 1..Len(Tail(s)) : Tail(s)[i] = e
          BY <3>1, <4>2 DEF InQueue
        <5>2. i + 1 \in 1..Len(s) /\ s[i + 1] = e
          BY <3>4, <5>1
        <5> QED  BY <5>2 DEF InQueue
      <4>3. InQueue(Head(s))
        BY <3>4 DEF InQueue
      <4> QED  BY <4>1, <4>2, <4>3
    <3>6. ASSUME NEW e, e = Head(s) PROVE ~InQueue(e)'
      BY <3>1, <3>3, <3>6 DEF InQueue
    <3>7. ReportedOnce'
      <4>1. NoTwice(saveCh')
        BY <3>1, <3>3
      <4>2. ASSUME NEW e \in taken' PROVE ~InQueue(e)'
        <5>1. CASE e = Head(s)
          BY <3>6, <5>1
        <5>2. CASE e \in taken
          BY <3>2, <3>5, <5>2
        <5> QED  BY <3>1, <4>2, <5>1, <5>2
      <4> QED  BY <4>1, <4>2 DEF ReportedOnce, NoTwice
    <3> QED  BY <3>1, <3>5, <3>7 DEF Sent
  <2> QED  BY <2>1, <2>2
<1> QED
  BY <1>1 DEF HandleReceive, SidewalkInv, Numbered, SentIsRemoved, DueIsUnsent, Phases

LEMMA SendInv ==
  ASSUME TypeOK, SidewalkInv, NEW o \in Objs, Send(o)
  PROVE  SidewalkInv'
<1> DEFINE s == saveCh
           new == <<o, entry[o]>>
<1>1. /\ s \in Seq(Event) /\ new \in Event /\ saveCh' = Append(s, new)
      /\ entry[o] \in Nat /\ gen[o] \in Nat /\ due \in SUBSET Objs
  BY DEF Send, TypeOK, Event
<1>2. o \in due /\ ~Sent(new) /\ entry[o] # 0
  BY DEF Send, SidewalkInv, DueIsUnsent, SentIsRemoved
<1>3. /\ Len(Append(s, new)) = Len(s) + 1 /\ Len(s) \in Nat
      /\ \A i \in 1..Len(s) : Append(s, new)[i] = s[i]
      /\ Append(s, new)[Len(s) + 1] = new
  BY <1>1
<1> HIDE DEF new
<1>4. ASSUME NEW e PROVE Sent(e)' <=> (Sent(e) \/ e = new)
  <2>1. InQueue(e)' <=> (InQueue(e) \/ e = new)
    BY <1>1, <1>3 DEF InQueue
  <2> QED  BY <2>1 DEF Sent, Send
<1>5. ReportedOnce'
  <2>1. NoTwice(s) /\ \A i \in 1..Len(s) : s[i] # new
    BY <1>2 DEF SidewalkInv, ReportedOnce, NoTwice, Sent, InQueue
  <2>2. NoTwice(Append(s, new))
    BY <1>1, <2>1, AppendNoTwice
  <2>3. ASSUME NEW e \in taken PROVE ~InQueue(e)'
    <3>1. ~InQueue(e) /\ e # new
      BY <1>2 DEF SidewalkInv, ReportedOnce, Sent
    <3> QED  BY <1>1, <1>3, <3>1 DEF InQueue
  <2>4. taken' = taken
    BY DEF Send
  <2> QED  BY <1>1, <2>2, <2>3, <2>4 DEF ReportedOnce, NoTwice
<1>6. Numbered'
  <2>1. ASSUME NEW q \in Objs, NEW g \in Nat, Sent(<<q, g>>)' PROVE 0 < g /\ g <= gen[q]
    <3>1. CASE Sent(<<q, g>>)
      BY <3>1 DEF SidewalkInv, Numbered
    <3>2. CASE <<q, g>> = new
      BY <1>1, <1>2, <3>2 DEF SidewalkInv, Numbered, new
    <3> QED  BY <1>4, <2>1, <3>1, <3>2
  <2> QED  BY <2>1 DEF Numbered, SidewalkInv, Send
<1>7. SentIsRemoved'
  <2> SUFFICES ASSUME NEW q \in Objs, Sent(<<q, entry[q]>>)' PROVE q \in remove \cup {o}
    BY DEF SentIsRemoved, Send
  <2>1. entry' = entry
    BY DEF Send
  <2>2. Sent(<<q, entry[q]>>) \/ <<q, entry[q]>> = new
    BY <1>4, <2>1
  <2> QED  BY <2>2 DEF SidewalkInv, SentIsRemoved, new
<1>8. DueIsUnsent' /\ Phases'
  BY DEF Send, SidewalkInv, DueIsUnsent, Phases
<1> QED  BY <1>5, <1>6, <1>7, <1>8 DEF SidewalkInv

LEMMA RemoveInv ==
  ASSUME TypeOK, SidewalkInv, Remove
  PROVE  SidewalkInv'
<1>1. ReportedOnce' /\ \A e : Sent(e)' <=> Sent(e)
  BY SameSent DEF Remove, SidewalkInv
<1>2. \A o \in Objs : IF o \in remove THEN entry'[o] = 0 ELSE entry'[o] = entry[o]
  BY DEF Remove, TypeOK
<1>3. \A o \in Objs : entry[o] \in Nat /\ gen[o] \in Nat
  BY DEF TypeOK
<1>4. Numbered'
  BY <1>1, <1>2, <1>3 DEF Remove, SidewalkInv, Numbered
<1>5. SentIsRemoved'
  <2> SUFFICES ASSUME NEW o \in Objs, Sent(<<o, entry'[o]>>) PROVE FALSE
    BY <1>1 DEF SentIsRemoved
  <2>1. CASE o \in remove
    BY <1>2, <2>1 DEF SidewalkInv, Numbered
  <2>2. CASE o \notin remove
    BY <1>2, <2>2 DEF SidewalkInv, SentIsRemoved
  <2> QED  BY <2>1, <2>2
<1>6. DueIsUnsent' /\ Phases'
  BY DEF Remove, SidewalkInv, DueIsUnsent, Phases
<1> QED  BY <1>1, <1>4, <1>5, <1>6 DEF SidewalkInv

LEMMA SidewalkStepInv == TypeOK /\ SidewalkInv /\ [Next]_vars => SidewalkInv'
<1> SUFFICES ASSUME TypeOK, SidewalkInv, [Next]_vars PROVE SidewalkInv'
  OBVIOUS
<1> USE DEF SidewalkInv, Numbered, SentIsRemoved, DueIsUnsent, Phases
<1>1. ASSUME NEW b \in BOOLEAN, Frame(b) PROVE SidewalkInv'
  BY <1>1, SameSent DEF Frame
<1>2. CASE Cancel
  BY <1>2, SameSent DEF Cancel
<1>3. CASE Release
  BY <1>3, SameSent DEF Release
<1>4. CASE Wake
  BY <1>4, SameSent DEF Wake
<1>5. CASE Done
  BY <1>5, SameSent DEF Done
<1>6. CASE ScanStarts
  BY <1>6, SameSent DEF ScanStarts
<1>7. CASE SendPanics
  BY <1>7, SameSent DEF SendPanics
<1>8. CASE ScanEnds
  BY <1>8, SameSent DEF ScanEnds
<1>9. CASE Tick
  BY <1>9, SameSent DEF Tick
<1>10. CASE UNCHANGED vars
  BY <1>10, SameSent DEF vars
<1> QED
  BY <1>1, <1>2, <1>3, <1>4, <1>5, <1>6, <1>7, <1>8, <1>9, <1>10,
     BoxesInv, ReceiveInv, SendInv, RemoveInv DEF Next, Loop, Background

(***************************************************************************)
(* For any objects and any capacity, an event leaves the handler at most   *)
(* once.                                                                   *)
(***************************************************************************)
THEOREM EventsReportedOnce == Spec => []ReportedOnce
<1>1. SidewalkInv => ReportedOnce
  BY DEF SidewalkInv
<1> QED  BY <1>1, SidewalkInitInv, SidewalkStepInv, SidewalkTypeCorrect, PTL DEF Spec
=============================================================================
