--------------------------- MODULE TaskLeaseProofs ---------------------------
(***************************************************************************)
(* Proofs about TaskLease, for every set of tasks, processes and leases,   *)
(* and every value of its delays and bounds.                               *)
(***************************************************************************)
EXTENDS TaskLease, FiniteSetTheorems, TLAPS

USE DEF Status, Results

LEMMA IdleTypes == NoGain \in Gain /\ NoLease \in Lease
<1>1. AnyTask \in Tasks /\ AnyConfig \in Configs
  BY LeaseAssumption DEF AnyTask, AnyConfig
<1> QED  BY <1>1 DEF NoGain, NoLease, Gain, Lease

LEMMA LeftType ==
  ASSUME NEW r \in Lease
  PROVE  Left(r) \in Lease
BY IdleTypes DEF Left

LEMMA TouchType ==
  ASSUME TypeOK, NEW copy, copy.id \in Tasks, copy.ver \in Nat, copy.cfg \in Configs,
         NEW res, Touch(copy, res)
  PROVE  doc' \in [Tasks -> Doc]
<1>1. Touched(copy) \in Doc
  BY LeaseAssumption DEF Touched, Doc
<1> QED  BY <1>1 DEF Touch, TypeOK

LEMMA WriteType ==
  ASSUME TypeOK, NEW t \in Tasks, NEW d \in Doc, Write(t, d)
  PROVE  doc' \in [Tasks -> Doc] /\ gain' \in [Procs -> Gain] /\ lease' \in [Leases -> Lease]
         /\ doing' \in [Procs -> Int] /\ up' \in SUBSET Procs
<1>1. doc' \in [Tasks -> Doc] /\ doing' \in [Procs -> Int] /\ up' \in SUBSET Procs
  BY DEF Write, TypeOK
<1>2. gain' \in [Procs -> Gain]
  <2> SUFFICES ASSUME NEW p \in Procs PROVE [gain[p] EXCEPT !.fresh = FALSE] \in Gain
    BY DEF Write, TypeOK
  <2> QED  BY DEF TypeOK, Gain
<1>3. lease' \in [Leases -> Lease]
  <2> SUFFICES ASSUME NEW l \in Leases PROVE [lease[l] EXCEPT !.fresh = FALSE] \in Lease
    BY DEF Write, TypeOK
  <2> QED  BY DEF TypeOK, Lease
<1> QED  BY <1>1, <1>2, <1>3

LEMMA InitType == Init => TypeOK
<1> SUFFICES ASSUME Init PROVE TypeOK
  OBVIOUS
<1>1. AnyConfig \in Configs
  BY LeaseAssumption DEF AnyConfig
<1>2. [st |-> "none", ver |-> 0, age |-> 0, cfg |-> AnyConfig] \in Doc
  BY <1>1, LeaseAssumption DEF Doc
<1> QED  BY <1>2, IdleTypes DEF Init, TypeOK

LEMMA GainFindType ==
  ASSUME TypeOK, NEW p \in Procs, NEW t \in Tasks, GainFind(p, t)
  PROVE  TypeOK'
<1>1. doc[t] \in Doc
  BY DEF TypeOK
<1>2. [at |-> "found", id |-> t, ver |-> doc[t].ver, cfg |-> doc[t].cfg,
       fresh |-> TRUE, wait |-> 0] \in Gain
  BY <1>1 DEF Gain, Doc
<1> QED  BY <1>2 DEF GainFind, TypeOK

LEMMA GainTouchType ==
  ASSUME TypeOK, NEW p \in Procs, NEW r \in Results, GainTouch(p, r)
  PROVE  TypeOK'
<1>1. gain[p].id \in Tasks /\ gain[p].ver \in Nat /\ gain[p].cfg \in Configs
      /\ gain[p].fresh \in BOOLEAN
  BY DEF TypeOK, Gain
<1>2. doc' \in [Tasks -> Doc]
  BY <1>1, TouchType DEF GainTouch
<1>3. [id |-> gain[p].id, ver |-> gain[p].ver + 1, cfg |-> gain[p].cfg,
       do |-> "work", ka |-> "check", cancelled |-> FALSE,
       fresh |-> gain[p].fresh, clean |-> gain[p].fresh, gap |-> 0, lag |-> 0] \in Lease
  BY <1>1 DEF Lease
<1>4. gain' \in [Procs -> Gain]
  BY IdleTypes DEF GainTouch, TypeOK
<1>5. lease' \in [Leases -> Lease] /\ doing' \in [Procs -> Int]
  <2>1. CASE r = "ok"
    <3>1. PICK l \in Leases :
            /\ lease' = [lease EXCEPT ![l] =
                 [id |-> gain[p].id, ver |-> gain[p].ver + 1, cfg |-> gain[p].cfg,
                  do |-> "work", ka |-> "check", cancelled |-> FALSE,
                  fresh |-> gain[p].fresh, clean |-> gain[p].fresh, gap |-> 0, lag |-> 0]]
            /\ doing' = [doing EXCEPT ![p] = @ + 1]
      BY <2>1, Zenon DEF GainTouch
    <3>2. lease' \in [Leases -> Lease]
      BY <1>3, <3>1, Zenon DEF TypeOK
    <3>3. doing' \in [Procs -> Int]
      BY <3>1 DEF TypeOK
    <3> QED  BY <3>2, <3>3
  <2>2. CASE r # "ok"
    BY <2>2 DEF GainTouch, TypeOK
  <2> QED  BY <2>1, <2>2
<1> QED  BY <1>2, <1>4, <1>5 DEF GainTouch, TypeOK

LEMMA KeepAliveTouchType ==
  ASSUME TypeOK, NEW l \in Leases, NEW r \in Results, KeepAliveTouch(l, r)
  PROVE  TypeOK'
<1>1. lease[l] \in Lease
  BY DEF TypeOK
<1>2. doc' \in [Tasks -> Doc]
  BY <1>1, TouchType DEF KeepAliveTouch, Lease
<1>3. [lease[l] EXCEPT !.ka = "sleep", !.ver = @ + 1, !.gap = 0] \in Lease
  <2> DEFINE v == lease[l].ver + 1
  <2>1. v \in Nat
    BY <1>1 DEF Lease
  <2> HIDE DEF v
  <2>2. [lease[l] EXCEPT !.ka = "sleep", !.ver = v, !.gap = 0] \in Lease
    BY <1>1, <2>1 DEF Lease
  <2> QED  BY <2>2 DEF v
<1>4. Left([lease[l] EXCEPT !.ka = "none", !.cancelled = TRUE, !.gap = 0]) \in Lease
  <2>1. [lease[l] EXCEPT !.ka = "none", !.cancelled = TRUE, !.gap = 0] \in Lease
    BY <1>1 DEF Lease
  <2> QED  BY <2>1, LeftType
<1>5. lease' \in [Leases -> Lease]
  <2> DEFINE a == [lease[l] EXCEPT !.ka = "sleep", !.ver = @ + 1, !.gap = 0]
             b == Left([lease[l] EXCEPT !.ka = "none", !.cancelled = TRUE, !.gap = 0])
  <2>1. CASE r = "ok"
    <3>1. lease' = [lease EXCEPT ![l] = a]
      BY <2>1 DEF KeepAliveTouch
    <3>2. a \in Lease
      BY <1>3
    <3> QED  BY <3>1, <3>2, Zenon DEF TypeOK
  <2>2. CASE r # "ok"
    <3>1. lease' = [lease EXCEPT ![l] = b]
      BY <2>2 DEF KeepAliveTouch
    <3>2. b \in Lease
      BY <1>4
    <3> QED  BY <3>1, <3>2, Zenon DEF TypeOK
  <2> QED  BY <2>1, <2>2
<1> QED  BY <1>2, <1>5 DEF KeepAliveTouch, TypeOK

LEMMA TickType == TypeOK /\ Tick => TypeOK'
<1> SUFFICES ASSUME TypeOK, Tick PROVE TypeOK'
  OBVIOUS
<1>1. doc' \in [Tasks -> Doc]
  <2> SUFFICES ASSUME NEW t \in Tasks PROVE Aged(doc[t]) \in Doc
    BY DEF Tick
  <2>1. doc[t] \in Doc
    BY DEF TypeOK
  <2> QED  BY <2>1, LeaseAssumption DEF Aged, Doc
<1>2. gain' \in [Procs -> Gain]
  <2> SUFFICES ASSUME NEW p \in Procs PROVE [gain[p] EXCEPT !.wait = @ + 1] \in Gain
    BY DEF Tick, TypeOK
  <2>1. gain[p] \in Gain
    BY DEF TypeOK
  <2> QED  BY <2>1 DEF Gain
<1>3. lease' \in [Leases -> Lease]
  <2> DEFINE g(l) == IF lease[l].ka # "none" THEN lease[l].gap + 1 ELSE lease[l].gap
             h(l) == IF Working(l) /\ lease[l].cancelled THEN lease[l].lag + 1 ELSE lease[l].lag
  <2>1. ASSUME NEW l \in Leases PROVE [lease[l] EXCEPT !.gap = g(l), !.lag = h(l)] \in Lease
    <3>1. lease[l] \in Lease
      BY DEF TypeOK
    <3>2. g(l) \in Nat /\ h(l) \in Nat
      BY <3>1 DEF Lease
    <3> HIDE DEF g, h
    <3> QED  BY <3>1, <3>2 DEF Lease
  <2>2. lease' = [l \in Leases |-> IF ~Timely THEN lease[l]
                                   ELSE [lease[l] EXCEPT !.gap = g(l), !.lag = h(l)]]
    BY DEF Tick
  <2> HIDE DEF g, h
  <2> QED  BY <2>1, <2>2 DEF TypeOK
<1> QED  BY <1>1, <1>2, <1>3 DEF Tick, TypeOK

LEMMA DashboardType == TypeOK /\ Dashboard => TypeOK'
<1> SUFFICES ASSUME TypeOK, NEW t \in Tasks,
                    \/ \E c \in Configs, s \in Status : PostTasks(t, c, s)
                    \/ \E c \in Configs, s \in Status : PutTasks(t, c, s)
                    \/ DeleteTasks(t)
                    \/ \E s \in Status : StatusCheck(t, s)
                    \/ \E s \in Status : StatusWrite(t, s)
             PROVE  TypeOK'
  BY DEF Dashboard
<1>0. doc[t] \in Doc
  BY DEF TypeOK
<1>1. ASSUME NEW c \in Configs, NEW s \in Status, PostTasks(t, c, s) \/ PutTasks(t, c, s)
      PROVE  TypeOK'
  <2>1. [st |-> s, ver |-> 0, age |-> 0, cfg |-> c] \in Doc
    BY LeaseAssumption DEF Doc
  <2> QED  BY <1>1, <2>1, WriteType DEF PostTasks, PutTasks, TypeOK
<1>2. ASSUME DeleteTasks(t) PROVE TypeOK'
  <2>1. [doc[t] EXCEPT !.st = "none"] \in Doc
    BY <1>0 DEF Doc
  <2> QED  BY <1>2, <2>1, WriteType DEF DeleteTasks, TypeOK
<1>3. ASSUME NEW s \in Status, StatusCheck(t, s) PROVE TypeOK'
  BY <1>3 DEF StatusCheck, TypeOK
<1>4. ASSUME NEW s \in Status, StatusWrite(t, s) PROVE TypeOK'
  <2>1. [doc[t] EXCEPT !.st = s, !.ver = 0, !.age = 0] \in Doc
    <3>1. 0 \in 0..(Due + 1)
      BY LeaseAssumption
    <3> QED  BY <1>0, <3>1 DEF Doc
  <2> QED  BY <1>4, <2>1, WriteType DEF StatusWrite, TypeOK
<1> QED  BY <1>1, <1>2, <1>3, <1>4

LEMMA StepType == TypeOK /\ [Next]_vars => TypeOK'
<1> SUFFICES ASSUME TypeOK, [Next]_vars PROVE TypeOK'
  OBVIOUS
<1>1. ASSUME NEW l \in Leases PROVE lease[l] \in Lease
  BY DEF TypeOK
<1>2. ASSUME NEW l \in Leases, KeepAliveCheck(l) PROVE TypeOK'
  <2>1. [lease[l] EXCEPT !.ka = "none", !.gap = 0] \in Lease
        /\ [lease[l] EXCEPT !.ka = "touch"] \in Lease
    BY <1>1 DEF Lease
  <2> QED  BY <1>2, <2>1, LeftType DEF KeepAliveCheck, TypeOK
<1>3. ASSUME NEW l \in Leases, KeepAliveWake(l) PROVE TypeOK'
  <2>1. [lease[l] EXCEPT !.ka = "check"] \in Lease
    BY <1>1 DEF Lease
  <2> QED  BY <1>3, <2>1 DEF KeepAliveWake, TypeOK
<1>4. ASSUME NEW l \in Leases, DoReturn(l) PROVE TypeOK'
  <2>1. [lease[l] EXCEPT !.do = "none", !.cancelled = TRUE, !.lag = 0] \in Lease
    BY <1>1 DEF Lease
  <2>2. lease' \in [Leases -> Lease]
    BY <1>4, <2>1, LeftType DEF DoReturn, TypeOK
  <2>3. doing' \in [Procs -> Int]
    <3>1. doing' = [doing EXCEPT ![Owner[l]] = doing[Owner[l]] - 1]
      BY <1>4 DEF DoReturn
    <3>2. Owner[l] \in Procs
      BY LeaseAssumption
    <3> QED  BY <3>1, <3>2 DEF TypeOK
  <2> QED  BY <1>4, <2>2, <2>3 DEF DoReturn, TypeOK
<1>5. ASSUME NEW p \in Procs, Crash(p) PROVE TypeOK'
  BY <1>5, IdleTypes DEF Crash, TypeOK
<1>6. ASSUME NEW p \in Procs, Restart(p) PROVE TypeOK'
  BY <1>6 DEF Restart, TypeOK
<1>7. CASE UNCHANGED vars
  BY <1>7 DEF vars, TypeOK
<1> QED
  BY <1>2, <1>3, <1>4, <1>5, <1>6, <1>7, GainFindType, GainTouchType, KeepAliveTouchType,
     TickType, DashboardType DEF Next, Analyzer

(***************************************************************************)
(* Every reachable state has the declared types.                           *)
(***************************************************************************)
THEOREM TypeCorrect == Spec => []TypeOK
BY InitType, StepType, PTL DEF Spec

-----------------------------------------------------------------------------
(***************************************************************************)
(* A Touch either leaves the store alone or moves one task to the next     *)
(* version, from exactly the version of the copy.                          *)
(***************************************************************************)
LEMMA TouchStore ==
  ASSUME TypeOK, NEW copy, copy.id \in Tasks, copy.ver \in Nat,
         NEW res \in Results, Touch(copy, res)
  PROVE  /\ \A t \in Tasks :
              doc'[t] = doc[t] \/ (t = copy.id /\ doc[t].ver = copy.ver
                                   /\ doc'[t].ver = copy.ver + 1)
         /\ res = "ok" => /\ doc[copy.id].ver = copy.ver
                          /\ doc'[copy.id].ver = copy.ver + 1
BY DEF Touch, Touched, Matches, TypeOK

\* A step that lets no version decrease, and starts or changes no lease and no
\* found task, keeps the invariant.
LEMMA ShrinkInv ==
  ASSUME TypeOK, TypeOK', LeaseInv,
         \A t \in Tasks : doc'[t].ver = doc[t].ver /\ doc'[t].age >= doc[t].age,
         \A l \in Leases : Holds(l)' => /\ Holds(l) /\ lease'[l].id = lease[l].id
                                        /\ lease'[l].ver = lease[l].ver,
         \A p \in Procs : (gain'[p].at = "found" /\ gain'[p].fresh) =>
              /\ gain[p].at = "found" /\ gain[p].fresh
              /\ gain'[p].id = gain[p].id /\ gain'[p].ver = gain[p].ver
  PROVE  LeaseInv'
<1>1. /\ \A t \in Tasks : doc[t].ver \in Nat /\ doc[t].age \in Int
      /\ \A l \in Leases : lease[l].id \in Tasks /\ lease[l].ver \in Nat
      /\ \A p \in Procs : gain[p].id \in Tasks /\ gain[p].ver \in Nat
  BY LeaseAssumption DEF TypeOK, Doc, Lease, Gain
<1>2. HeldBehindStore'
  BY <1>1 DEF HeldBehindStore, LeaseInv
<1>3. DistinctVersions'
  BY DEF DistinctVersions, LeaseInv
<1>4. FoundIsDue'
  <2> SUFFICES ASSUME NEW p \in Procs, gain'[p].at = "found", gain'[p].fresh
               PROVE  /\ gain'[p].ver <= doc'[gain'[p].id].ver
                      /\ gain'[p].ver = doc'[gain'[p].id].ver => doc'[gain'[p].id].age > Due
    BY DEF FoundIsDue
  <2>1. /\ gain'[p].id = gain[p].id /\ gain'[p].ver = gain[p].ver
        /\ gain[p].ver <= doc[gain[p].id].ver
        /\ gain[p].ver = doc[gain[p].id].ver => doc[gain[p].id].age > Due
    BY DEF FoundIsDue, LeaseInv
  <2>2. doc'[gain[p].id].age \in Int
    BY <1>1, LeaseAssumption DEF TypeOK, Doc
  <2> QED  BY <1>1, <2>1, <2>2, LeaseAssumption
<1> QED  BY <1>2, <1>3, <1>4 DEF LeaseInv

LEMMA GainFindInv ==
  ASSUME TypeOK, LeaseInv, NEW p \in Procs, NEW t \in Tasks, GainFind(p, t)
  PROVE  LeaseInv'
<1>1. doc' = doc /\ lease' = lease /\ doc[t].age > Due /\ doc[t].ver \in Nat
  BY DEF GainFind, TypeOK, Doc
<1>2. \A q \in Procs : gain'[q] = gain[q]
        \/ (gain'[q].id = t /\ gain'[q].ver = doc[t].ver)
  BY DEF GainFind, TypeOK
<1>3. FoundIsDue'
  BY <1>1, <1>2 DEF FoundIsDue, LeaseInv
<1> QED  BY <1>1, <1>3 DEF LeaseInv, HeldBehindStore, DistinctVersions, Holds

\* What a Touch does to the copies other than the toucher's.
LEMMA TouchOthers ==
  ASSUME TypeOK, LeaseInv, NEW copy, copy.id \in Tasks, copy.ver \in Nat,
         NEW res \in Results, Touch(copy, res)
  PROVE  /\ \A l \in Leases : Holds(l) =>
              /\ lease[l].ver <= doc'[lease[l].id].ver
              /\ (res = "ok" /\ lease[l].id = copy.id) => lease[l].ver < copy.ver + 1
         /\ \A p \in Procs : (gain[p].at = "found" /\ gain[p].fresh) =>
              /\ gain[p].ver <= doc'[gain[p].id].ver
              /\ gain[p].ver = doc'[gain[p].id].ver => doc'[gain[p].id].age > Due
<1>1. /\ \A t \in Tasks : doc[t].ver \in Nat
      /\ \A l \in Leases : lease[l].id \in Tasks /\ lease[l].ver \in Nat
      /\ \A p \in Procs : gain[p].id \in Tasks /\ gain[p].ver \in Nat
  BY DEF TypeOK, Doc, Lease, Gain
<1>2. \A t \in Tasks : doc'[t] = doc[t] \/ (t = copy.id /\ doc[t].ver = copy.ver
                                   /\ doc'[t].ver = copy.ver + 1)
  BY TouchStore
<1>3. res = "ok" => doc[copy.id].ver = copy.ver
  BY TouchStore
<1> QED  BY <1>1, <1>2, <1>3 DEF LeaseInv, HeldBehindStore, FoundIsDue

LEMMA GainTouchInv ==
  ASSUME TypeOK, LeaseInv, NEW p \in Procs, NEW r \in Results, GainTouch(p, r)
  PROVE  LeaseInv'
<1> DEFINE c == gain[p]
<1>1. c.id \in Tasks /\ c.ver \in Nat /\ Touch(c, r)
  BY DEF GainTouch, TypeOK, Gain
<1>2. /\ \A l \in Leases : Holds(l) =>
              /\ lease[l].ver <= doc'[lease[l].id].ver
              /\ (r = "ok" /\ lease[l].id = c.id) => lease[l].ver < c.ver + 1
      /\ \A q \in Procs : (gain[q].at = "found" /\ gain[q].fresh) =>
              /\ gain[q].ver <= doc'[gain[q].id].ver
              /\ gain[q].ver = doc'[gain[q].id].ver => doc'[gain[q].id].age > Due
  BY <1>1, TouchOthers
<1>3. FoundIsDue'
  <2>1. \A q \in Procs : gain'[q] = gain[q] \/ gain'[q].at = "sleep"
    BY DEF GainTouch, TypeOK, NoGain
  <2> QED  BY <1>2, <2>1 DEF FoundIsDue
<1>4. HeldBehindStore' /\ DistinctVersions'
  <2>1. CASE r = "ok"
    <3>1. PICK n \in Leases : Free(n) /\ lease' = [lease EXCEPT ![n] =
                 [id |-> gain[p].id, ver |-> gain[p].ver + 1, cfg |-> gain[p].cfg,
                  do |-> "work", ka |-> "check", cancelled |-> FALSE,
                  fresh |-> gain[p].fresh, clean |-> gain[p].fresh, gap |-> 0, lag |-> 0]]
      BY <2>1, Zenon DEF GainTouch
    <3>2. doc'[c.id].ver = c.ver + 1
      BY <1>1, <2>1, TouchStore
    <3>3. \A l \in Leases \ {n} : lease'[l] = lease[l]
      BY <3>1 DEF TypeOK
    <3>4. lease'[n].id = c.id /\ lease'[n].ver = c.ver + 1
      BY <3>1 DEF TypeOK
    <3> HIDE DEF c
    <3>5. HeldBehindStore'
      BY <1>1, <1>2, <3>2, <3>3, <3>4 DEF HeldBehindStore, Holds
    <3>6. ASSUME NEW l \in Leases \ {n}, Holds(l)' PROVE Holds(l)
      BY <3>3, <3>6 DEF Holds
    <3>7. ASSUME NEW l \in Leases \ {n}, Holds(l)', lease'[l].id = c.id
          PROVE  lease'[l].ver # c.ver + 1
      <4>1. lease[l].ver < c.ver + 1 /\ lease[l].ver \in Nat
        BY <1>2, <2>1, <3>3, <3>6, <3>7 DEF TypeOK, Lease
      <4> QED  BY <1>1, <3>3, <4>1
    <3>8. DistinctVersions'
      BY <3>3, <3>4, <3>6, <3>7 DEF DistinctVersions, LeaseInv
    <3> QED  BY <3>5, <3>8
  <2>2. CASE r # "ok"
    <3>1. lease' = lease
      BY <2>2 DEF GainTouch
    <3> QED  BY <1>2, <3>1 DEF HeldBehindStore, DistinctVersions, Holds, LeaseInv
  <2> QED  BY <2>1, <2>2
<1> QED  BY <1>3, <1>4 DEF LeaseInv

LEMMA KeepAliveTouchInv ==
  ASSUME TypeOK, LeaseInv, NEW n \in Leases, NEW r \in Results, KeepAliveTouch(n, r)
  PROVE  LeaseInv'
<1> DEFINE c == lease[n]
<1>1. c.id \in Tasks /\ c.ver \in Nat /\ Touch(c, r)
  BY DEF KeepAliveTouch, TypeOK, Lease
<1>2. /\ \A l \in Leases : Holds(l) =>
              /\ lease[l].ver <= doc'[lease[l].id].ver
              /\ (r = "ok" /\ lease[l].id = c.id) => lease[l].ver < c.ver + 1
      /\ \A q \in Procs : (gain[q].at = "found" /\ gain[q].fresh) =>
              /\ gain[q].ver <= doc'[gain[q].id].ver
              /\ gain[q].ver = doc'[gain[q].id].ver => doc'[gain[q].id].age > Due
  BY <1>1, TouchOthers
<1>3. FoundIsDue'
  BY <1>2 DEF FoundIsDue, KeepAliveTouch
<1>4. \A l \in Leases \ {n} : lease'[l] = lease[l]
  BY DEF KeepAliveTouch, TypeOK
<1>5. HeldBehindStore' /\ DistinctVersions'
  <2>1. CASE r = "ok"
    <3>1. lease' = [lease EXCEPT ![n] =
                     [@ EXCEPT !.ka = "sleep", !.ver = lease[n].ver + 1, !.gap = 0]]
      BY <2>1 DEF KeepAliveTouch
    <3>2. doc'[c.id].ver = c.ver + 1
      BY <1>1, <2>1, TouchStore
    <3>3. lease'[n].id = c.id /\ lease'[n].ver = c.ver + 1
      BY <3>1 DEF TypeOK, Lease
    <3> HIDE DEF c
    <3>4. HeldBehindStore'
      BY <1>1, <1>2, <1>4, <3>2, <3>3 DEF HeldBehindStore, Holds
    <3>5. ASSUME NEW l \in Leases \ {n}, Holds(l)' PROVE Holds(l)
      BY <1>4, <3>5 DEF Holds
    <3>6. ASSUME NEW l \in Leases \ {n}, Holds(l)', lease'[l].id = c.id
          PROVE  lease'[l].ver # c.ver + 1
      <4>1. lease[l].ver < c.ver + 1 /\ lease[l].ver \in Nat
        BY <1>2, <1>4, <2>1, <3>5, <3>6 DEF TypeOK, Lease
      <4> QED  BY <1>1, <1>4, <4>1
    <3>7. DistinctVersions'
      BY <1>4, <3>3, <3>5, <3>6 DEF DistinctVersions, LeaseInv
    <3> QED  BY <3>4, <3>7
  <2>2. CASE r # "ok"
    <3>1. lease'[n].ka = "none" \/ ~lease'[n].fresh
      <4>1. lease' = [lease EXCEPT ![n] =
                       Left([@ EXCEPT !.ka = "none", !.cancelled = TRUE, !.gap = 0])]
        BY <2>2 DEF KeepAliveTouch
      <4> QED  BY <4>1 DEF Left, NoLease, TypeOK, Lease
    <3> QED  BY <1>2, <1>4, <3>1 DEF HeldBehindStore, DistinctVersions, Holds, LeaseInv
  <2> QED  BY <2>1, <2>2
<1> QED  BY <1>3, <1>5 DEF LeaseInv

\* A dashboard write touches no fresh copy: it outdates those of the task it writes.
LEMMA WriteInv ==
  ASSUME TypeOK, LeaseInv, NEW t \in Tasks, NEW d, Write(t, d)
  PROVE  LeaseInv'
<1>1. \A s \in Tasks : s # t => doc'[s] = doc[s]
  BY DEF Write, TypeOK
<1>2. \A l \in Leases : Holds(l)' => Holds(l) /\ lease'[l] = lease[l] /\ lease[l].id # t
  BY DEF Write, TypeOK, Lease, Holds
<1>3. \A p \in Procs : gain'[p].fresh => gain'[p] = gain[p] /\ gain[p].id # t
  BY DEF Write, TypeOK, Gain
<1>4. /\ \A l \in Leases : lease[l].id \in Tasks
      /\ \A p \in Procs : gain[p].id \in Tasks
  BY DEF TypeOK, Lease, Gain
<1> QED
  BY <1>1, <1>2, <1>3, <1>4 DEF LeaseInv, HeldBehindStore, DistinctVersions, FoundIsDue

LEMMA TickInv ==
  ASSUME TypeOK, TypeOK', LeaseInv, Tick
  PROVE  LeaseInv'
<1>1. \A t \in Tasks : doc'[t].ver = doc[t].ver /\ doc'[t].age >= doc[t].age
  <2> SUFFICES ASSUME NEW t \in Tasks
               PROVE  Aged(doc[t]).ver = doc[t].ver /\ Aged(doc[t]).age >= doc[t].age
    BY DEF Tick
  <2>1. doc[t] \in Doc /\ doc[t].age \in Int
    BY LeaseAssumption DEF TypeOK, Doc
  <2> QED  BY <2>1 DEF Aged, Doc
<1>2. \A l \in Leases : Holds(l)' => /\ Holds(l) /\ lease'[l].id = lease[l].id
                                     /\ lease'[l].ver = lease[l].ver
  <2> SUFFICES ASSUME NEW l \in Leases
               PROVE  /\ lease'[l].id = lease[l].id /\ lease'[l].ver = lease[l].ver
                      /\ lease'[l].ka = lease[l].ka /\ lease'[l].fresh = lease[l].fresh
    BY DEF Holds
  <2>1. lease[l] \in Lease
    BY DEF TypeOK
  <2> QED  BY <2>1 DEF Tick, Lease
<1>3. \A p \in Procs : /\ gain'[p].at = gain[p].at /\ gain'[p].fresh = gain[p].fresh
                       /\ gain'[p].id = gain[p].id /\ gain'[p].ver = gain[p].ver
  <2> SUFFICES ASSUME NEW p \in Procs
               PROVE  /\ gain'[p].at = gain[p].at /\ gain'[p].fresh = gain[p].fresh
                      /\ gain'[p].id = gain[p].id /\ gain'[p].ver = gain[p].ver
    OBVIOUS
  <2>1. gain[p] \in Gain
    BY DEF TypeOK
  <2> QED  BY <2>1 DEF Tick, Gain
<1> QED  BY <1>1, <1>2, <1>3, ShrinkInv

\* Any step that leaves the store and the found tasks alone, and at most ends or
\* wakes KeepAlives, keeps the invariant.
LEMMA QuietInv ==
  ASSUME TypeOK, TypeOK', LeaseInv, doc' = doc,
         \A p \in Procs : gain'[p] = gain[p] \/ gain'[p].at = "sleep",
         \A l \in Leases : \/ lease'[l].ka = "none"
                           \/ /\ lease[l].ka # "none" /\ lease'[l].fresh = lease[l].fresh
                              /\ lease'[l].id = lease[l].id /\ lease'[l].ver = lease[l].ver
  PROVE  LeaseInv'
<1>1. \A t \in Tasks : doc'[t].ver = doc[t].ver /\ doc'[t].age >= doc[t].age
  BY LeaseAssumption DEF TypeOK, Doc
<1> QED  BY <1>1, ShrinkInv DEF Holds

\* The steps that leave the store alone and at most end or wake KeepAlives.
Quiet ==
  \/ \E l \in Leases : KeepAliveCheck(l) \/ KeepAliveWake(l) \/ DoReturn(l)
  \/ \E p \in Procs : Crash(p) \/ Restart(p)

LEMMA QuietSteps ==
  ASSUME TypeOK, Quiet
  PROVE  /\ doc' = doc
         /\ \A p \in Procs : gain'[p] = gain[p] \/ gain'[p].at = "sleep"
         /\ \A l \in Leases : \/ lease'[l].ka = "none"
                              \/ /\ lease[l].ka # "none" /\ lease'[l].fresh = lease[l].fresh
                                 /\ lease'[l].id = lease[l].id /\ lease'[l].ver = lease[l].ver
<1>1. ASSUME NEW l \in Leases, KeepAliveCheck(l) \/ KeepAliveWake(l) \/ DoReturn(l)
      PROVE  /\ doc' = doc /\ gain' = gain
             /\ \A m \in Leases :
                  \/ lease'[m].ka = "none"
                  \/ /\ lease[m].ka # "none" /\ lease'[m].fresh = lease[m].fresh
                     /\ lease'[m].id = lease[m].id /\ lease'[m].ver = lease[m].ver
  <2>1. doc' = doc /\ gain' = gain /\ \A m \in Leases \ {l} : lease'[m] = lease[m]
    BY <1>1 DEF KeepAliveCheck, KeepAliveWake, DoReturn, TypeOK
  <2>2. lease[l] \in Lease
    BY DEF TypeOK
  <2>3. \/ lease'[l] = NoLease
        \/ /\ lease'[l].fresh = lease[l].fresh /\ lease'[l].id = lease[l].id
           /\ lease'[l].ver = lease[l].ver
           /\ lease'[l].ka # "none" => lease[l].ka # "none"
    <3>1. CASE KeepAliveCheck(l)
      BY <2>2, <3>1 DEF KeepAliveCheck, Left, TypeOK, Lease
    <3>2. CASE KeepAliveWake(l)
      BY <2>2, <3>2 DEF KeepAliveWake, TypeOK, Lease
    <3>3. CASE DoReturn(l)
      BY <2>2, <3>3 DEF DoReturn, Left, TypeOK, Lease
    <3> QED  BY <1>1, <3>1, <3>2, <3>3
  <2> QED  BY <2>1, <2>3 DEF NoLease
<1>2. ASSUME NEW p \in Procs, Crash(p)
      PROVE  /\ doc' = doc /\ \A q \in Procs : gain'[q] = gain[q] \/ gain'[q].at = "sleep"
             /\ \A m \in Leases : lease'[m].ka = "none" \/ lease'[m] = lease[m]
  BY <1>2 DEF Crash, NoGain, NoLease, TypeOK
<1>3. ASSUME NEW p \in Procs, Restart(p) PROVE doc' = doc /\ gain' = gain /\ lease' = lease
  BY <1>3 DEF Restart
<1> QED  BY <1>1, <1>2, <1>3 DEF Quiet

LEMMA StepInv == TypeOK /\ TypeOK' /\ LeaseInv /\ [Next]_vars => LeaseInv'
<1> SUFFICES ASSUME TypeOK, TypeOK', LeaseInv, [Next]_vars PROVE LeaseInv'
  OBVIOUS
<1>1. ASSUME Quiet PROVE LeaseInv'
  BY <1>1, QuietSteps, QuietInv
<1>2. CASE Dashboard
  <2>1. PICK t \in Tasks :
          \/ \E c \in Configs, s \in Status : PostTasks(t, c, s)
          \/ \E c \in Configs, s \in Status : PutTasks(t, c, s)
          \/ DeleteTasks(t)
          \/ \E s \in Status : StatusCheck(t, s)
          \/ \E s \in Status : StatusWrite(t, s)
    BY <1>2 DEF Dashboard
  <2>2. (\E d : Write(t, d)) \/ UNCHANGED <<doc, gain, lease>>
    BY <2>1 DEF PostTasks, PutTasks, DeleteTasks, StatusCheck, StatusWrite
  <2>3. CASE \E d : Write(t, d)
    BY <2>3, WriteInv
  <2>4. CASE UNCHANGED <<doc, gain, lease>>
    BY <2>4, QuietInv
  <2> QED  BY <2>2, <2>3, <2>4
<1>3. CASE UNCHANGED vars
  BY <1>3, QuietInv DEF vars
<1> QED
  BY <1>1, <1>2, <1>3, GainFindInv, GainTouchInv, KeepAliveTouchInv, TickInv
  DEF Next, Analyzer, Quiet

LEMMA InitInv == Init => LeaseInv
BY DEF Init, LeaseInv, HeldBehindStore, DistinctVersions, FoundIsDue, Holds, NoLease, NoGain

(***************************************************************************)
(* The strengthening of AtMostOneCurrent is an invariant.                  *)
(***************************************************************************)
THEOREM LeaseInvariant == Spec => []LeaseInv
<1>1. Spec => []TypeOK
  BY TypeCorrect
<1> QED  BY <1>1, InitInv, StepInv, PTL DEF Spec

(***************************************************************************)
(* At most one KeepAlive can renew a task, however many processes compete  *)
(* for it, crash, or lose the answers of the database.                     *)
(***************************************************************************)
THEOREM OneCurrent == Spec => []AtMostOneCurrent
<1>1. LeaseInv => AtMostOneCurrent
  BY DEF LeaseInv, DistinctVersions, AtMostOneCurrent, Current
<1> QED  BY <1>1, LeaseInvariant, PTL

-----------------------------------------------------------------------------
\* Only Gain starts a Do, with the freshness of the copy it found.
LEMMA StartIsGain ==
  ASSUME TypeOK, Next, NEW l \in Leases, lease[l].do = "none", lease'[l].do = "work"
  PROVE  \E p \in Procs : /\ GainTouch(p, "ok") /\ lease'[l].id = gain[p].id
                          /\ lease'[l].clean = gain[p].fresh
<1>0. lease[l] \in Lease
  BY DEF TypeOK
<1>1. ASSUME NEW p \in Procs, NEW r \in Results, GainTouch(p, r)
      PROVE  r = "ok" /\ lease'[l].id = gain[p].id /\ lease'[l].clean = gain[p].fresh
  <2>1. r = "ok"
    BY <1>1 DEF GainTouch
  <2>2. PICK n \in Leases : lease' = [lease EXCEPT ![n] =
                 [id |-> gain[p].id, ver |-> gain[p].ver + 1, cfg |-> gain[p].cfg,
                  do |-> "work", ka |-> "check", cancelled |-> FALSE,
                  fresh |-> gain[p].fresh, clean |-> gain[p].fresh, gap |-> 0, lag |-> 0]]
    BY <1>1, <2>1, Zenon DEF GainTouch
  <2>3. l = n
    BY <2>2 DEF TypeOK
  <2> QED  BY <2>1, <2>2, <2>3 DEF TypeOK
<1>2. ASSUME NEW m \in Leases,
             \/ KeepAliveCheck(m) \/ KeepAliveWake(m) \/ DoReturn(m)
             \/ \E r \in Results : KeepAliveTouch(m, r)
      PROVE  FALSE
  <2>1. lease'[l] # lease[l]
    OBVIOUS
  <2>2. m = l
    BY <1>2, <2>1 DEF KeepAliveCheck, KeepAliveWake, DoReturn, KeepAliveTouch, TypeOK
  <2>3. ASSUME NEW r, r.do = "none" PROVE Left(r).do = "none"
    BY <2>3 DEF Left, NoLease
  <2>4. CASE KeepAliveCheck(l)
    BY <1>0, <2>3, <2>4 DEF KeepAliveCheck, TypeOK, Lease
  <2>5. CASE KeepAliveWake(l) \/ DoReturn(l)
    BY <1>0, <2>5 DEF KeepAliveWake, DoReturn, Working, TypeOK, Lease
  <2>6. CASE \E r \in Results : KeepAliveTouch(l, r)
    <3>1. PICK r \in Results : KeepAliveTouch(l, r)
      BY <2>6
    <3>2. CASE r = "ok"
      BY <1>0, <3>1, <3>2 DEF KeepAliveTouch, TypeOK, Lease
    <3>3. CASE r # "ok"
      <4>1. lease'[l] = Left([lease[l] EXCEPT !.ka = "none", !.cancelled = TRUE, !.gap = 0])
        BY <3>1, <3>3 DEF KeepAliveTouch, TypeOK
      <4>2. [lease[l] EXCEPT !.ka = "none", !.cancelled = TRUE, !.gap = 0].do = "none"
        BY <1>0 DEF Lease
      <4> QED  BY <2>3, <4>1, <4>2
    <3> QED  BY <3>2, <3>3
  <2> QED  BY <1>2, <2>2, <2>4, <2>5, <2>6
<1>3. ASSUME NEW p \in Procs, Crash(p) \/ Restart(p) \/ \E t \in Tasks : GainFind(p, t)
      PROVE  FALSE
  BY <1>3 DEF Crash, Restart, GainFind, NoLease
<1>4. ASSUME Dashboard PROVE FALSE
  BY <1>0, <1>4 DEF Dashboard, PostTasks, PutTasks, DeleteTasks, StatusCheck, StatusWrite,
                    Write, Lease
<1>5. ASSUME Tick PROVE FALSE
  BY <1>0, <1>5 DEF Tick, Lease
<1> QED  BY <1>1, <1>2, <1>3, <1>4, <1>5 DEF Next, Analyzer

(***************************************************************************)
(* A task passes to another Do only after a whole Due without a Touch: the *)
(* gap between Gain's Find and its Touch lets nobody steal a renewed task. *)
(***************************************************************************)
THEOREM TakeoverDue == Spec => TakeoverOnlyWhenDue
<1>1. ASSUME TypeOK, LeaseInv, [Next]_vars
      PROVE  [\A l \in Leases :
                (lease[l].do = "none" /\ lease'[l].do = "work" /\ lease'[l].clean)
                  => doc[lease'[l].id].age > Due]_vars
  <2> SUFFICES ASSUME Next, NEW l \in Leases, lease[l].do = "none",
                      lease'[l].do = "work", lease'[l].clean
               PROVE  doc[lease'[l].id].age > Due
    BY <1>1
  <2>1. PICK p \in Procs : /\ GainTouch(p, "ok") /\ lease'[l].id = gain[p].id
                           /\ gain[p].fresh
    BY <1>1, StartIsGain
  <2>2. gain[p].at = "found" /\ doc[gain[p].id].ver = gain[p].ver
    BY <2>1 DEF GainTouch, Touch, Matches
  <2> QED  BY <1>1, <2>1, <2>2 DEF LeaseInv, FoundIsDue
<1> QED  BY <1>1, TypeCorrect, LeaseInvariant, PTL DEF Spec, TakeoverOnlyWhenDue

-----------------------------------------------------------------------------
(***************************************************************************)
(* The quota of an analyzer process, for any number of processes, leases   *)
(* and tasks.                                                              *)
(***************************************************************************)
HIDE DEF Status, Results

(***************************************************************************)
(* doing is the number of Do invocations of a process at any moment, and   *)
(* between Run's check and its increment come only decrements.             *)
(***************************************************************************)
Invocations(p) == {l \in Leases : Owner[l] = p /\ Working(l)}

Counted ==
  \A p \in Procs : /\ IsFiniteSet(Invocations(p))
                   /\ doing[p] = Cardinality(Invocations(p))
                   /\ doing[p] <= Quota

RoomForFound == \A p \in Procs : gain[p].at = "found" => doing[p] < Quota

QuotaInv == Counted /\ RoomForFound

LEMMA InitQuota == Init => QuotaInv
<1> SUFFICES ASSUME Init PROVE QuotaInv
  OBVIOUS
<1>1. ASSUME NEW p \in Procs
      PROVE  Invocations(p) = {} /\ doing[p] = 0 /\ gain[p].at = "sleep"
  BY DEF Init, Invocations, Working, NoLease, NoGain
<1>2. IsFiniteSet({}) /\ Cardinality({}) = 0 /\ 0 <= Quota
  BY FS_EmptySet, LeaseAssumption
<1> QED  BY <1>1, <1>2 DEF QuotaInv, Counted, RoomForFound

\* A step that starts and ends no Do, and finds nothing.
LEMMA SameQuota ==
  ASSUME QuotaInv, doing' = doing,
         \A l \in Leases : Working(l)' <=> Working(l),
         \A p \in Procs : gain'[p].at = "found" => gain[p].at = "found"
  PROVE  QuotaInv'
<1>1. ASSUME NEW p \in Procs PROVE Invocations(p)' = Invocations(p)
  BY DEF Invocations
<1> QED  BY <1>1 DEF QuotaInv, Counted, RoomForFound

LEMMA GainFindQuota ==
  ASSUME TypeOK, QuotaInv, NEW p \in Procs, NEW t \in Tasks, GainFind(p, t)
  PROVE  QuotaInv'
<1>1. ASSUME NEW q \in Procs PROVE Invocations(q)' = Invocations(q)
  BY DEF GainFind, Invocations, Working
<1>2. doing' = doing /\ doing[p] < Quota /\ \A q \in Procs \ {p} : gain'[q] = gain[q]
  BY DEF GainFind, TypeOK
<1> QED  BY <1>1, <1>2 DEF QuotaInv, Counted, RoomForFound

LEMMA GainTouchQuota ==
  ASSUME TypeOK, QuotaInv, NEW p \in Procs, NEW r \in Results, GainTouch(p, r)
  PROVE  QuotaInv'
<1>1. CASE r = "ok"
  <2>1. PICK n \in Leases :
          /\ Owner[n] = p /\ Free(n)
          /\ lease' = [lease EXCEPT ![n] =
               [id |-> gain[p].id, ver |-> gain[p].ver + 1, cfg |-> gain[p].cfg,
                do |-> "work", ka |-> "check", cancelled |-> FALSE,
                fresh |-> gain[p].fresh, clean |-> gain[p].fresh, gap |-> 0, lag |-> 0]]
          /\ doing' = [doing EXCEPT ![p] = @ + 1]
    BY <1>1, Zenon DEF GainTouch
  <2>2. lease'[n].do = "work" /\ \A l \in Leases \ {n} : lease'[l] = lease[l]
    BY <2>1 DEF TypeOK
  <2>3. n \notin Invocations(p) /\ Invocations(p)' = Invocations(p) \cup {n}
    BY <2>1, <2>2 DEF Invocations, Working, Free
  <2>4. ASSUME NEW q \in Procs \ {p} PROVE Invocations(q)' = Invocations(q)
    BY <2>1, <2>2 DEF Invocations, Working
  <2>5. /\ doing'[p] = doing[p] + 1 /\ doing[p] \in Int
        /\ \A q \in Procs \ {p} : doing'[q] = doing[q] /\ gain'[q] = gain[q]
        /\ gain[p].at = "found" /\ gain'[p].at = "sleep"
    BY <2>1 DEF GainTouch, TypeOK, NoGain
  <2>6. doing[p] < Quota /\ IsFiniteSet(Invocations(p))
        /\ doing[p] = Cardinality(Invocations(p))
    BY <2>5 DEF QuotaInv, Counted, RoomForFound
  <2>7. IsFiniteSet(Invocations(p)') /\ Cardinality(Invocations(p)') = doing[p] + 1
    BY <2>3, <2>6, FS_AddElement
  <2>8. Counted'
    <3> SUFFICES ASSUME NEW q \in Procs
                 PROVE  /\ IsFiniteSet(Invocations(q)')
                        /\ doing'[q] = Cardinality(Invocations(q)')
                        /\ doing'[q] <= Quota
      BY DEF Counted
    <3>1. CASE q = p
      BY <2>5, <2>6, <2>7, <3>1, LeaseAssumption
    <3>2. CASE q # p
      BY <2>4, <2>5, <3>2 DEF QuotaInv, Counted
    <3> QED  BY <3>1, <3>2
  <2> QED  BY <2>5, <2>8 DEF QuotaInv, RoomForFound
<1>2. CASE r # "ok"
  <2>1. lease' = lease /\ doing' = doing /\ \A q \in Procs : gain'[q] = gain[q] \/ gain'[q].at = "sleep"
    BY <1>2 DEF GainTouch, TypeOK, NoGain
  <2> QED  BY <2>1, SameQuota DEF Working
<1> QED  BY <1>1, <1>2

LEMMA DoReturnQuota ==
  ASSUME TypeOK, QuotaInv, NEW n \in Leases, DoReturn(n)
  PROVE  QuotaInv'
<1> DEFINE p == Owner[n]
<1>1. /\ p \in Procs /\ doing[p] \in Int /\ n \in Invocations(p)
      /\ doing'[p] = doing[p] - 1 /\ gain' = gain
      /\ \A q \in Procs \ {p} : doing'[q] = doing[q]
  BY LeaseAssumption DEF DoReturn, TypeOK, Invocations
<1>2. lease'[n].do = "none" /\ \A l \in Leases \ {n} : lease'[l] = lease[l]
  <2>1. lease' = [lease EXCEPT ![n] =
                   Left([lease[n] EXCEPT !.do = "none", !.cancelled = TRUE, !.lag = 0])]
    BY DEF DoReturn
  <2>2. Left([lease[n] EXCEPT !.do = "none", !.cancelled = TRUE, !.lag = 0]).do = "none"
    BY DEF Left, NoLease, TypeOK, Lease
  <2> QED  BY <2>1, <2>2 DEF TypeOK
<1>3. Invocations(p)' = Invocations(p) \ {n}
  BY <1>2 DEF Invocations, Working
<1>4. ASSUME NEW q \in Procs \ {p} PROVE Invocations(q)' = Invocations(q)
  BY <1>2 DEF Invocations, Working
<1> HIDE DEF p
<1>5. IsFiniteSet(Invocations(p)) /\ doing[p] = Cardinality(Invocations(p)) /\ doing[p] <= Quota
  BY <1>1 DEF QuotaInv, Counted
<1>6. IsFiniteSet(Invocations(p)') /\ Cardinality(Invocations(p)') = doing[p] - 1
  BY <1>1, <1>3, <1>5, FS_RemoveElement
<1>7. Counted'
  <2> SUFFICES ASSUME NEW q \in Procs
               PROVE  /\ IsFiniteSet(Invocations(q)')
                      /\ doing'[q] = Cardinality(Invocations(q)')
                      /\ doing'[q] <= Quota
    BY DEF Counted
  <2>1. CASE q = p
    BY <1>1, <1>5, <1>6, <2>1, LeaseAssumption
  <2>2. CASE q # p
    BY <1>1, <1>4, <2>2 DEF QuotaInv, Counted
  <2> QED  BY <2>1, <2>2
<1>8. RoomForFound'
  <2>1. \A q \in Procs : doing[q] \in Int /\ doing'[q] <= doing[q]
    BY <1>1 DEF TypeOK
  <2>2. \A q \in Procs : doing'[q] \in Int
    BY <1>1 DEF TypeOK
  <2> QED  BY <1>1, <2>1, <2>2, LeaseAssumption DEF QuotaInv, RoomForFound
<1> QED  BY <1>7, <1>8 DEF QuotaInv

LEMMA CrashQuota ==
  ASSUME TypeOK, QuotaInv, NEW p \in Procs, Crash(p)
  PROVE  QuotaInv'
<1>1. /\ doing'[p] = 0 /\ gain'[p].at = "sleep"
      /\ \A q \in Procs \ {p} : doing'[q] = doing[q] /\ gain'[q] = gain[q]
  BY DEF Crash, TypeOK, NoGain
<1>2. Invocations(p)' = {}
  BY DEF Crash, Invocations, Working, NoLease
<1>3. ASSUME NEW q \in Procs \ {p} PROVE Invocations(q)' = Invocations(q)
  BY DEF Crash, Invocations, Working
<1>4. Counted'
  <2> SUFFICES ASSUME NEW q \in Procs
               PROVE  /\ IsFiniteSet(Invocations(q)')
                      /\ doing'[q] = Cardinality(Invocations(q)')
                      /\ doing'[q] <= Quota
    BY DEF Counted
  <2>1. CASE q = p
    BY <1>1, <1>2, <2>1, FS_EmptySet, LeaseAssumption
  <2>2. CASE q # p
    BY <1>1, <1>3, <2>2 DEF QuotaInv, Counted
  <2> QED  BY <2>1, <2>2
<1> QED  BY <1>1, <1>4 DEF QuotaInv, RoomForFound

\* The steps that leave the do of every lease as it is.
LEMMA DoKept ==
  ASSUME TypeOK, NEW l \in Leases
  PROVE  /\ KeepAliveCheck(l) \/ KeepAliveWake(l) => \A m \in Leases : lease'[m].do = lease[m].do
         /\ \A r \in Results : KeepAliveTouch(l, r) =>
              \A m \in Leases : lease'[m].do = lease[m].do
<1>0. lease \in [Leases -> Lease] /\ lease[l] \in Lease
  BY DEF TypeOK
<1>1. ASSUME KeepAliveCheck(l) PROVE \A m \in Leases : lease'[m].do = lease[m].do
  <2>1. CASE lease[l].cancelled
    <3>1. lease' = [lease EXCEPT ![l] = Left([lease[l] EXCEPT !.ka = "none", !.gap = 0])]
      BY <1>1, <2>1 DEF KeepAliveCheck
    <3>2. Left([lease[l] EXCEPT !.ka = "none", !.gap = 0]).do = lease[l].do
      BY <1>0 DEF Left, NoLease, Lease
    <3> QED  BY <1>0, <3>1, <3>2
  <2>2. CASE ~lease[l].cancelled
    <3>1. lease' = [lease EXCEPT ![l] = [lease[l] EXCEPT !.ka = "touch"]]
      BY <1>1, <2>2 DEF KeepAliveCheck
    <3> QED  BY <1>0, <3>1 DEF Lease
  <2> QED  BY <2>1, <2>2
<1>2. ASSUME KeepAliveWake(l) PROVE \A m \in Leases : lease'[m].do = lease[m].do
  BY <1>0, <1>2 DEF KeepAliveWake, Lease
<1>3. ASSUME NEW r \in Results, KeepAliveTouch(l, r)
      PROVE  \A m \in Leases : lease'[m].do = lease[m].do
  <2>1. CASE r = "ok"
    <3>1. lease' = [lease EXCEPT ![l] =
                     [lease[l] EXCEPT !.ka = "sleep", !.ver = lease[l].ver + 1, !.gap = 0]]
      BY <1>3, <2>1 DEF KeepAliveTouch
    <3> QED  BY <1>0, <3>1 DEF Lease
  <2>2. CASE r # "ok"
    <3>1. lease' = [lease EXCEPT ![l] =
                 Left([lease[l] EXCEPT !.ka = "none", !.cancelled = TRUE, !.gap = 0])]
      BY <1>3, <2>2 DEF KeepAliveTouch
    <3>2. Left([lease[l] EXCEPT !.ka = "none", !.cancelled = TRUE, !.gap = 0]).do = lease[l].do
      BY <1>0 DEF Left, NoLease, Lease
    <3> QED  BY <1>0, <3>1, <3>2
  <2> QED  BY <2>1, <2>2
<1> QED  BY <1>1, <1>2, <1>3

LEMMA DashboardKeeps ==
  ASSUME TypeOK, Dashboard
  PROVE  /\ doing' = doing
         /\ \A l \in Leases : lease'[l].do = lease[l].do
         /\ \A p \in Procs : gain'[p].at = gain[p].at
<1>1. ASSUME NEW t \in Tasks, NEW d, Write(t, d)
      PROVE  /\ doing' = doing
             /\ \A l \in Leases : lease'[l].do = lease[l].do
             /\ \A p \in Procs : gain'[p].at = gain[p].at
  BY <1>1 DEF Write, TypeOK, Lease, Gain
<1> QED
  BY <1>1 DEF Dashboard, PostTasks, PutTasks, DeleteTasks, StatusCheck, StatusWrite

LEMMA TickKeeps ==
  ASSUME TypeOK, Tick
  PROVE  /\ doing' = doing
         /\ \A l \in Leases : lease'[l].do = lease[l].do
         /\ \A p \in Procs : gain'[p].at = gain[p].at
<1>1. ASSUME NEW l \in Leases PROVE lease'[l].do = lease[l].do
  <2>1. lease[l] \in Lease
    BY DEF TypeOK
  <2> QED  BY <2>1 DEF Tick, Lease
<1>2. ASSUME NEW p \in Procs PROVE gain'[p].at = gain[p].at
  <2>1. gain[p] \in Gain
    BY DEF TypeOK
  <2> QED  BY <2>1 DEF Tick, Gain
<1> QED  BY <1>1, <1>2 DEF Tick

LEMMA StepQuota == TypeOK /\ QuotaInv /\ [Next]_vars => QuotaInv'
<1> SUFFICES ASSUME TypeOK, QuotaInv, [Next]_vars PROVE QuotaInv'
  OBVIOUS
<1>1. ASSUME NEW l \in Leases,
             KeepAliveCheck(l) \/ KeepAliveWake(l) \/ \E r \in Results : KeepAliveTouch(l, r)
      PROVE  QuotaInv'
  <2>1. \A m \in Leases : lease'[m].do = lease[m].do
    BY <1>1, DoKept
  <2>2. doing' = doing /\ gain' = gain
    BY <1>1 DEF KeepAliveCheck, KeepAliveWake, KeepAliveTouch
  <2> QED  BY <2>1, <2>2, SameQuota DEF Working
<1>2. ASSUME NEW p \in Procs, Restart(p) PROVE QuotaInv'
  BY <1>2, SameQuota DEF Restart, Working
<1>3. CASE Dashboard
  BY <1>3, DashboardKeeps, SameQuota DEF Working
<1>4. CASE Tick
  BY <1>4, TickKeeps, SameQuota DEF Working
<1>5. CASE UNCHANGED vars
  BY <1>5, SameQuota DEF vars, Working
<1> QED
  BY <1>1, <1>2, <1>3, <1>4, <1>5, GainFindQuota, GainTouchQuota, DoReturnQuota, CrashQuota
  DEF Next, Analyzer

(***************************************************************************)
(* However crashes, gains and returning Do invocations interleave, no      *)
(* process runs more of them than its quota.                               *)
(***************************************************************************)
THEOREM QuotaIsKept == Spec => []QuotaKept
<1>1. QuotaInv => QuotaKept
  <2> SUFFICES ASSUME QuotaInv, NEW p \in Procs PROVE Cardinality(Invocations(p)) <= Quota
    BY DEF QuotaKept, Invocations
  <2>1. doing[p] = Cardinality(Invocations(p)) /\ doing[p] <= Quota
    BY DEF QuotaInv, Counted
  <2> QED  BY <2>1
<1> QED  BY <1>1, InitQuota, StepQuota, TypeCorrect, PTL DEF Spec

-----------------------------------------------------------------------------
(***************************************************************************)
(* What the delays of the analyzers must keep to for a task to be worked   *)
(* on once at a time: from a Touch to the next, and from a cancelled       *)
(* context to the return of Do, no longer than a task must rest before it  *)
(* is gained (consumer.go:113 and 128, main.go:84). The delay between      *)
(* Find and Touch of Gain does not matter.                                 *)
(***************************************************************************)

DelaysBounded == Timely = TRUE /\ TouchGap + StopGap <= Due

\* No delay has outgrown its bound.
WithinGaps == \A l \in Leases : lease[l].gap <= TouchGap /\ lease[l].lag <= StopGap

\* KeepAlive ends after a context that is not cancelled no sooner than Do.
KeptWhileWorking ==
  \A l \in Leases : (Working(l) /\ ~lease[l].cancelled) => lease[l].ka # "none"

\* A task somebody works on was touched, or written, not longer ago than this.
Recent(l) ==
  doc[lease[l].id].age <= IF lease[l].cancelled THEN TouchGap + lease[l].lag ELSE lease[l].gap

WorkedIsRecent ==
  \A l \in Leases : (Working(l) /\ doc[lease[l].id].st = "ON") => Recent(l)

TimesInv == WithinGaps /\ KeptWhileWorking /\ WorkedIsRecent /\ NoDoubleProcessing

LEMMA TimesTypes ==
  ASSUME TypeOK
  PROVE  /\ \A l \in Leases : /\ lease[l] \in Lease /\ lease[l].id \in Tasks
                              /\ lease[l].gap \in Nat /\ lease[l].lag \in Nat
                              /\ lease[l].cancelled \in BOOLEAN
         /\ \A t \in Tasks : doc[t] \in Doc /\ doc[t].age \in Nat
         /\ TouchGap \in Nat /\ StopGap \in Nat /\ Due \in Nat
<1>1. \A t \in Tasks : doc[t] \in Doc /\ doc[t].age \in 0..(Due + 1)
  BY DEF TypeOK, Doc
<1> QED  BY <1>1, LeaseAssumption DEF TypeOK, Lease

LEMMA TimesTypesNext ==
  ASSUME TypeOK'
  PROVE  /\ \A l \in Leases : lease'[l].gap \in Nat
         /\ \A t \in Tasks : doc'[t].age \in Nat
<1>1. \A t \in Tasks : doc'[t].age \in 0..(Due + 1)
  BY DEF TypeOK, Doc
<1> QED  BY <1>1, LeaseAssumption DEF TypeOK, Lease

LEMMA InitTimes == Init => TimesInv
<1> SUFFICES ASSUME Init, NEW l \in Leases
             PROVE  ~Working(l) /\ lease[l].gap = 0 /\ lease[l].lag = 0
  BY LeaseAssumption
  DEF TimesInv, WithinGaps, KeptWhileWorking, WorkedIsRecent, NoDoubleProcessing
<1> QED  BY DEF Init, Working, NoLease

\* A step in which no task grows older and no Do starts, no lease changes its task, its
\* bounds hold, and a context is cancelled only by the end of a KeepAlive.
LEMMA SameTimes ==
  ASSUME TypeOK, TypeOK', TimesInv,
         \A t \in Tasks : doc'[t].st = "ON" =>
           (doc'[t].age = 0 \/ (doc[t].st = "ON" /\ doc'[t].age = doc[t].age)),
         \A l \in Leases :
           /\ lease'[l].gap <= TouchGap /\ lease'[l].lag <= StopGap
           /\ Working(l)' =>
                /\ Working(l) /\ lease'[l].id = lease[l].id /\ lease'[l].clean = lease[l].clean
                /\ ~lease'[l].cancelled => lease'[l].ka # "none" /\ ~lease[l].cancelled
                /\ \/ lease'[l].gap = lease[l].gap
                   \/ lease'[l].cancelled
                   \/ doc'[lease[l].id].age = 0
                /\ lease'[l].lag = lease[l].lag
  PROVE  TimesInv'
<1>1. WithinGaps' /\ KeptWhileWorking'
  BY DEF WithinGaps, KeptWhileWorking
<1>2. NoDoubleProcessing'
  BY DEF NoDoubleProcessing, TimesInv
<1>3. WorkedIsRecent'
  <2> SUFFICES ASSUME NEW l \in Leases, Working(l)', doc'[lease'[l].id].st = "ON"
               PROVE  Recent(l)'
    BY DEF WorkedIsRecent
  <2> DEFINE t == lease[l].id
  <2>1. /\ Working(l) /\ lease'[l].id = t /\ t \in Tasks /\ lease'[l].lag = lease[l].lag
        /\ ~lease'[l].cancelled => ~lease[l].cancelled
        /\ lease'[l].gap = lease[l].gap \/ lease'[l].cancelled \/ doc'[t].age = 0
    BY TimesTypes
  <2>2. /\ lease[l].gap \in Nat /\ lease[l].lag \in Nat /\ lease'[l].gap \in Nat
        /\ doc[t].age \in Nat /\ doc'[t].age \in Nat /\ TouchGap \in Nat
    BY <2>1, TimesTypes, TimesTypesNext
  <2>3. CASE doc'[t].age = 0
    BY <2>1, <2>2, <2>3 DEF Recent
  <2>4. CASE doc'[t].age # 0
    <3>1. doc[t].st = "ON" /\ doc'[t].age = doc[t].age
      BY <2>1, <2>4
    <3>2. Recent(l) /\ lease[l].gap <= TouchGap
      BY <2>1, <3>1 DEF TimesInv, WorkedIsRecent, WithinGaps
    <3> QED  BY <2>1, <2>2, <2>4, <3>1, <3>2 DEF Recent
  <2> QED  BY <2>3, <2>4
<1> QED  BY <1>1, <1>2, <1>3 DEF TimesInv

\* What a Touch does to the age of a task.
LEMMA TouchAge ==
  ASSUME TypeOK, NEW copy, copy.id \in Tasks, NEW res \in Results, Touch(copy, res)
  PROVE  /\ \A t \in Tasks :
              doc'[t] = doc[t] \/ (t = copy.id /\ doc'[t].age = 0 /\ doc[t].st = "ON")
         /\ res = "ok" => doc'[copy.id].age = 0 /\ doc[copy.id].st = "ON"
                          /\ doc[copy.id].ver = copy.ver
BY DEF Touch, Touched, Matches, TypeOK

LEMMA GainTouchTimes ==
  ASSUME DelaysBounded, TypeOK, TypeOK', LeaseInv, TimesInv,
         NEW p \in Procs, NEW r \in Results, GainTouch(p, r)
  PROVE  TimesInv'
<1> DEFINE c == gain[p]
<1>1. c.id \in Tasks /\ Touch(c, r) /\ c.at = "found"
  BY DEF GainTouch, TypeOK, Gain
<1>2. /\ \A t \in Tasks :
           doc'[t] = doc[t] \/ (t = c.id /\ doc'[t].age = 0 /\ doc[t].st = "ON")
      /\ r = "ok" => doc'[c.id].age = 0 /\ doc[c.id].st = "ON" /\ doc[c.id].ver = c.ver
  BY <1>1, TouchAge
<1>3. CASE r # "ok"
  <2>1. lease' = lease
    BY <1>3 DEF GainTouch
  <2> QED
    BY <1>2, <2>1, SameTimes DEF TimesInv, WithinGaps, KeptWhileWorking, Working
<1>4. CASE r = "ok"
  <2>1. PICK n \in Leases :
          /\ Free(n)
          /\ lease' = [lease EXCEPT ![n] =
               [id |-> gain[p].id, ver |-> gain[p].ver + 1, cfg |-> gain[p].cfg,
                do |-> "work", ka |-> "check", cancelled |-> FALSE,
                fresh |-> gain[p].fresh, clean |-> gain[p].fresh, gap |-> 0, lag |-> 0]]
    BY <1>4, Zenon DEF GainTouch
  <2>2. /\ lease'[n].id = c.id /\ lease'[n].clean = c.fresh /\ lease'[n].ka = "check"
        /\ lease'[n].gap = 0 /\ lease'[n].lag = 0 /\ lease'[n].cancelled = FALSE
        /\ \A l \in Leases \ {n} : lease'[l] = lease[l]
    BY <2>1 DEF TypeOK
  <2> HIDE DEF c
  <2>3. WithinGaps' /\ KeptWhileWorking'
    BY <2>2, LeaseAssumption DEF TimesInv, WithinGaps, KeptWhileWorking, Working
  <2>4. WorkedIsRecent'
    <3> SUFFICES ASSUME NEW l \in Leases, Working(l)', doc'[lease'[l].id].st = "ON"
                 PROVE  Recent(l)'
      BY DEF WorkedIsRecent
    <3>1. CASE l = n
      BY <1>2, <1>4, <2>2, <3>1 DEF Recent
    <3>2. CASE l # n
      <4>1. lease'[l] = lease[l] /\ Working(l) /\ lease[l].id \in Tasks
        BY <2>2, <3>2, TimesTypes DEF Working
      <4>2. CASE doc'[lease[l].id] = doc[lease[l].id]
        BY <4>1, <4>2 DEF TimesInv, WorkedIsRecent, Recent
      <4>3. CASE doc'[lease[l].id].age = 0
        BY <4>1, <4>3, TimesTypes DEF Recent
      <4> QED  BY <1>2, <4>1, <4>2, <4>3
    <3> QED  BY <3>1, <3>2
  <2>5. NoDoubleProcessing'
    <3>1. ASSUME c.fresh, NEW l \in Leases, Working(l), lease[l].id = c.id PROVE FALSE
      <4>1. doc[c.id].age > Due /\ doc[c.id].st = "ON"
        BY <1>1, <1>2, <1>4, <3>1 DEF LeaseInv, FoundIsDue, c
      <4>2. Recent(l) /\ lease[l].gap <= TouchGap /\ lease[l].lag <= StopGap
        BY <3>1, <4>1 DEF TimesInv, WorkedIsRecent, WithinGaps
      <4>3. doc[c.id].age <= TouchGap + StopGap
        <5>1. doc[c.id].age \in Nat /\ lease[l].gap \in Nat /\ lease[l].lag \in Nat
              /\ TouchGap \in Nat /\ StopGap \in Nat
          BY <1>1, TimesTypes
        <5> QED  BY <3>1, <4>2, <5>1 DEF Recent
      <4> QED  BY <1>1, <4>1, <4>3, TimesTypes DEF DelaysBounded
    <3> QED  BY <2>2, <3>1 DEF TimesInv, NoDoubleProcessing, Working
  <2> QED  BY <2>3, <2>4, <2>5 DEF TimesInv
<1> QED  BY <1>3, <1>4

LEMMA KeepAliveTouchTimes ==
  ASSUME TypeOK, TypeOK', TimesInv, NEW n \in Leases, NEW r \in Results, KeepAliveTouch(n, r)
  PROVE  TimesInv'
<1>1. lease \in [Leases -> Lease] /\ lease[n] \in Lease /\ Touch(lease[n], r)
  BY DEF KeepAliveTouch, TypeOK
<1>2. /\ \A t \in Tasks : doc'[t] = doc[t] \/ (doc'[t].age = 0 /\ doc[t].st = "ON")
      /\ r = "ok" => doc'[lease[n].id].age = 0
  BY <1>1, TouchAge DEF Lease
<1>3. \A l \in Leases \ {n} : lease'[l] = lease[l]
  BY <1>1 DEF KeepAliveTouch
<1>4. /\ lease'[n].gap <= TouchGap /\ lease'[n].lag <= StopGap
      /\ Working(n)' =>
           /\ Working(n) /\ lease'[n].id = lease[n].id /\ lease'[n].clean = lease[n].clean
           /\ ~lease'[n].cancelled => lease'[n].ka # "none" /\ ~lease[n].cancelled
           /\ lease'[n].gap = lease[n].gap \/ lease'[n].cancelled \/ r = "ok"
           /\ lease'[n].lag = lease[n].lag
  <2>1. CASE r = "ok"
    <3>1. lease'[n] = [lease[n] EXCEPT !.ka = "sleep", !.ver = lease[n].ver + 1, !.gap = 0]
      BY <1>1, <2>1 DEF KeepAliveTouch
    <3>2. /\ lease'[n].ka = "sleep" /\ lease'[n].gap = 0 /\ lease'[n].lag = lease[n].lag
          /\ lease'[n].do = lease[n].do /\ lease'[n].id = lease[n].id
          /\ lease'[n].clean = lease[n].clean /\ lease'[n].cancelled = lease[n].cancelled
      BY <1>1, <3>1 DEF Lease
    <3> QED  BY <2>1, <3>2, LeaseAssumption DEF TimesInv, WithinGaps, Working
  <2>2. CASE r # "ok"
    <3>1. lease'[n] = Left([lease[n] EXCEPT !.ka = "none", !.cancelled = TRUE, !.gap = 0])
      BY <1>1, <2>2 DEF KeepAliveTouch
    <3>2. CASE lease[n].do = "none"
      <4>1. lease'[n] = NoLease
        BY <1>1, <3>1, <3>2 DEF Left, Lease
      <4> QED  BY <4>1, LeaseAssumption DEF NoLease, Working
    <3>3. CASE lease[n].do # "none"
      <4>1. /\ lease'[n].gap = 0 /\ lease'[n].lag = lease[n].lag
            /\ lease'[n].do = lease[n].do /\ lease'[n].id = lease[n].id
            /\ lease'[n].clean = lease[n].clean /\ lease'[n].cancelled = TRUE
        BY <1>1, <3>1, <3>3 DEF Left, Lease
      <4> QED  BY <4>1, LeaseAssumption DEF TimesInv, WithinGaps, Working
    <3> QED  BY <3>2, <3>3
  <2> QED  BY <2>1, <2>2
<1>5. \A l \in Leases \ {n} :
        /\ lease'[l].gap <= TouchGap /\ lease'[l].lag <= StopGap
        /\ Working(l)' => Working(l) /\ (~lease'[l].cancelled => lease'[l].ka # "none")
  BY <1>3 DEF TimesInv, WithinGaps, KeptWhileWorking, Working
<1> QED  BY <1>2, <1>3, <1>4, <1>5, SameTimes

LEMMA QuietTimes ==
  ASSUME TypeOK, TypeOK', TimesInv, NEW n \in Leases,
         KeepAliveCheck(n) \/ KeepAliveWake(n) \/ DoReturn(n)
  PROVE  TimesInv'
<1>1. /\ lease \in [Leases -> Lease] /\ lease[n] \in Lease /\ doc' = doc
      /\ \A l \in Leases \ {n} : lease'[l] = lease[l]
  BY DEF KeepAliveCheck, KeepAliveWake, DoReturn, TypeOK
<1>2. /\ lease'[n].gap <= TouchGap /\ lease'[n].lag <= StopGap
      /\ Working(n)' =>
           /\ Working(n) /\ lease'[n].id = lease[n].id /\ lease'[n].clean = lease[n].clean
           /\ ~lease'[n].cancelled => lease'[n].ka # "none" /\ ~lease[n].cancelled
           /\ lease'[n].gap = lease[n].gap \/ lease'[n].cancelled
           /\ lease'[n].lag = lease[n].lag
  <2>1. lease[n].gap <= TouchGap /\ lease[n].lag <= StopGap /\ 0 <= TouchGap /\ 0 <= StopGap
    BY LeaseAssumption DEF TimesInv, WithinGaps
  <2>2. CASE KeepAliveWake(n) \/ (KeepAliveCheck(n) /\ ~lease[n].cancelled)
    <3>1. /\ lease'[n].gap = lease[n].gap /\ lease'[n].lag = lease[n].lag
          /\ lease'[n].do = lease[n].do /\ lease'[n].id = lease[n].id
          /\ lease'[n].clean = lease[n].clean /\ lease'[n].cancelled = lease[n].cancelled
          /\ lease'[n].ka # "none"
      BY <1>1, <2>2 DEF KeepAliveCheck, KeepAliveWake, Lease
    <3> QED  BY <2>1, <3>1 DEF Working
  <2>3. CASE KeepAliveCheck(n) /\ lease[n].cancelled
    <3>1. lease'[n] = Left([lease[n] EXCEPT !.ka = "none", !.gap = 0])
      BY <1>1, <2>3 DEF KeepAliveCheck
    <3>2. CASE lease[n].do = "none"
      <4>1. lease'[n] = NoLease
        BY <1>1, <3>1, <3>2 DEF Left, Lease
      <4> QED  BY <2>1, <4>1 DEF NoLease, Working
    <3>3. CASE lease[n].do # "none"
      <4>1. /\ lease'[n].gap = 0 /\ lease'[n].lag = lease[n].lag
            /\ lease'[n].do = lease[n].do /\ lease'[n].id = lease[n].id
            /\ lease'[n].clean = lease[n].clean /\ lease'[n].cancelled = lease[n].cancelled
        BY <1>1, <3>1, <3>3 DEF Left, Lease
      <4> QED  BY <2>1, <2>3, <4>1 DEF Working
    <3> QED  BY <3>2, <3>3
  <2>4. CASE DoReturn(n)
    <3>1. lease'[n] = Left([lease[n] EXCEPT !.do = "none", !.cancelled = TRUE, !.lag = 0])
      BY <1>1, <2>4 DEF DoReturn
    <3>2. CASE lease[n].ka = "none"
      <4>1. lease'[n] = NoLease
        BY <1>1, <3>1, <3>2 DEF Left, Lease
      <4> QED  BY <2>1, <4>1 DEF NoLease, Working
    <3>3. CASE lease[n].ka # "none"
      <4>1. lease'[n].gap = lease[n].gap /\ lease'[n].lag = 0 /\ lease'[n].do = "none"
        BY <1>1, <3>1, <3>3 DEF Left, Lease
      <4> QED  BY <2>1, <4>1 DEF Working
    <3> QED  BY <3>2, <3>3
  <2> QED  BY <2>2, <2>3, <2>4
<1>3. \A l \in Leases \ {n} :
        /\ lease'[l].gap <= TouchGap /\ lease'[l].lag <= StopGap
        /\ Working(l)' => Working(l) /\ (~lease'[l].cancelled => lease'[l].ka # "none")
  BY <1>1 DEF TimesInv, WithinGaps, KeptWhileWorking, Working
<1> QED  BY <1>1, <1>2, <1>3, SameTimes

LEMMA WriteTimes ==
  ASSUME TypeOK, TypeOK', TimesInv, NEW t \in Tasks, NEW d, Write(t, d),
         d.st = "ON" => d.age = 0
  PROVE  TimesInv'
<1>1. \A u \in Tasks : doc'[u] = doc[u] \/ (u = t /\ doc'[u] = d)
  BY DEF Write, TypeOK
<1>2. ASSUME NEW l \in Leases
      PROVE  /\ lease'[l].gap = lease[l].gap /\ lease'[l].lag = lease[l].lag
             /\ lease'[l].do = lease[l].do /\ lease'[l].id = lease[l].id
             /\ lease'[l].clean = lease[l].clean /\ lease'[l].cancelled = lease[l].cancelled
             /\ lease'[l].ka = lease[l].ka
  BY DEF Write, TypeOK, Lease
<1> QED  BY <1>1, <1>2, SameTimes DEF TimesInv, WithinGaps, KeptWhileWorking, Working

LEMMA DashboardTimes ==
  ASSUME TypeOK, TypeOK', TimesInv, Dashboard
  PROVE  TimesInv'
<1> SUFFICES ASSUME NEW t \in Tasks,
                    \/ \E c \in Configs, s \in Status : PostTasks(t, c, s) \/ PutTasks(t, c, s)
                    \/ DeleteTasks(t)
                    \/ \E s \in Status : StatusCheck(t, s) \/ StatusWrite(t, s)
             PROVE  TimesInv'
  BY DEF Dashboard
<1>1. doc[t] \in Doc
  BY DEF TypeOK
<1>2. ASSUME UNCHANGED <<doc, lease>> PROVE TimesInv'
  BY <1>2, SameTimes DEF TimesInv, WithinGaps, KeptWhileWorking, Working
<1>3. CASE \E c \in Configs, s \in Status : PostTasks(t, c, s) \/ PutTasks(t, c, s)
  <2>1. PICK c \in Configs, s \in Status :
          Write(t, [st |-> s, ver |-> 0, age |-> 0, cfg |-> c])
    BY <1>3 DEF PostTasks, PutTasks
  <2> QED  BY <2>1, WriteTimes
<1>4. CASE DeleteTasks(t)
  <2>1. Write(t, [doc[t] EXCEPT !.st = "none"]) /\ [doc[t] EXCEPT !.st = "none"].st # "ON"
    BY <1>1, <1>4 DEF DeleteTasks, Doc
  <2> QED  BY <2>1, WriteTimes
<1>5. ASSUME NEW s \in Status, StatusCheck(t, s) PROVE TimesInv'
  BY <1>2, <1>5 DEF StatusCheck
<1>6. ASSUME NEW s \in Status, StatusWrite(t, s) PROVE TimesInv'
  <2>1. CASE doc[t].st = "none"
    BY <1>2, <1>6, <2>1 DEF StatusWrite
  <2>2. CASE doc[t].st # "none"
    <3>1. /\ Write(t, [doc[t] EXCEPT !.st = s, !.ver = 0, !.age = 0])
          /\ [doc[t] EXCEPT !.st = s, !.ver = 0, !.age = 0].age = 0
      BY <1>1, <1>6, <2>2 DEF StatusWrite, Doc
    <3> QED  BY <3>1, WriteTimes
  <2> QED  BY <2>1, <2>2
<1> QED  BY <1>3, <1>4, <1>5, <1>6

LEMMA TickTimes ==
  ASSUME DelaysBounded, TypeOK, TypeOK', TimesInv, Tick
  PROVE  TimesInv'
<1>1. /\ InTime
      /\ \A t \in Tasks : doc'[t] = Aged(doc[t])
      /\ \A l \in Leases : lease'[l] = [lease[l] EXCEPT
              !.gap = IF lease[l].ka # "none" THEN lease[l].gap + 1 ELSE lease[l].gap,
              !.lag = IF Working(l) /\ lease[l].cancelled THEN lease[l].lag + 1
                      ELSE lease[l].lag]
  BY DEF Tick, DelaysBounded
<1>2. ASSUME NEW l \in Leases
      PROVE  /\ lease'[l].gap = IF lease[l].ka # "none" THEN lease[l].gap + 1 ELSE lease[l].gap
             /\ lease'[l].lag = IF Working(l) /\ lease[l].cancelled THEN lease[l].lag + 1
                                ELSE lease[l].lag
             /\ lease'[l].do = lease[l].do /\ lease'[l].id = lease[l].id
             /\ lease'[l].clean = lease[l].clean /\ lease'[l].cancelled = lease[l].cancelled
             /\ lease'[l].ka = lease[l].ka
  <2> DEFINE g == IF lease[l].ka # "none" THEN lease[l].gap + 1 ELSE lease[l].gap
             h == IF Working(l) /\ lease[l].cancelled THEN lease[l].lag + 1 ELSE lease[l].lag
  <2>1. lease'[l] = [lease[l] EXCEPT !.gap = g, !.lag = h] /\ lease[l] \in Lease
    BY <1>1, TimesTypes
  <2> HIDE DEF g, h
  <2>2. /\ lease'[l].gap = g /\ lease'[l].lag = h
        /\ lease'[l].do = lease[l].do /\ lease'[l].id = lease[l].id
        /\ lease'[l].clean = lease[l].clean /\ lease'[l].cancelled = lease[l].cancelled
        /\ lease'[l].ka = lease[l].ka
    BY <2>1 DEF Lease
  <2> QED  BY <2>2 DEF g, h
<1>3. ASSUME NEW t \in Tasks
      PROVE  doc'[t].st = doc[t].st /\ doc'[t].age <= doc[t].age + 1 /\ doc'[t].age \in Nat
  <2>1. doc[t] \in Doc /\ doc[t].age \in Nat /\ doc'[t] = Aged(doc[t]) /\ doc'[t].age \in Nat
    BY <1>1, TimesTypes, TimesTypesNext
  <2> DEFINE a == IF doc[t].age > Due THEN doc[t].age ELSE doc[t].age + 1
  <2>2. doc'[t] = [doc[t] EXCEPT !.age = a]
    BY <2>1 DEF Aged
  <2>3. a <= doc[t].age + 1
    BY <2>1, LeaseAssumption
  <2> HIDE DEF a
  <2> QED  BY <2>1, <2>2, <2>3 DEF Doc
<1>4. WithinGaps'
  <2> SUFFICES ASSUME NEW l \in Leases
               PROVE  lease'[l].gap <= TouchGap /\ lease'[l].lag <= StopGap
    BY DEF WithinGaps
  <2>1. /\ lease[l].gap <= TouchGap /\ lease[l].lag <= StopGap
        /\ lease[l].ka # "none" => lease[l].gap < TouchGap
        /\ (Working(l) /\ lease[l].cancelled) => lease[l].lag < StopGap
    BY <1>1 DEF InTime, TimesInv, WithinGaps
  <2> QED  BY <1>2, <2>1, TimesTypes
<1>5. KeptWhileWorking' /\ NoDoubleProcessing'
  BY <1>2 DEF TimesInv, KeptWhileWorking, NoDoubleProcessing, Working
<1>6. WorkedIsRecent'
  <2> SUFFICES ASSUME NEW l \in Leases, Working(l)', doc'[lease'[l].id].st = "ON"
               PROVE  Recent(l)'
    BY DEF WorkedIsRecent
  <2> DEFINE t == lease[l].id
  <2>1. t \in Tasks /\ lease'[l].id = t /\ Working(l) /\ lease'[l].cancelled = lease[l].cancelled
    BY <1>2, TimesTypes DEF Working
  <2>2. /\ doc[t].st = "ON" /\ doc'[t].age <= doc[t].age + 1 /\ doc'[t].age \in Nat
        /\ doc[t].age \in Nat
    BY <1>3, <2>1, TimesTypes
  <2>3. Recent(l)
    BY <2>1, <2>2 DEF TimesInv, WorkedIsRecent
  <2>4. lease[l].gap \in Nat /\ lease[l].lag \in Nat /\ TouchGap \in Nat
    BY TimesTypes
  <2>5. CASE lease[l].cancelled
    <3>1. lease'[l].lag = lease[l].lag + 1
      BY <1>2, <2>1, <2>5
    <3> QED  BY <2>1, <2>2, <2>3, <2>4, <2>5, <3>1 DEF Recent
  <2>6. CASE ~lease[l].cancelled
    <3>1. lease'[l].gap = lease[l].gap + 1
      BY <1>2, <2>1, <2>6 DEF TimesInv, KeptWhileWorking
    <3> QED  BY <2>1, <2>2, <2>3, <2>4, <2>6, <3>1 DEF Recent
  <2> QED  BY <2>5, <2>6
<1> QED  BY <1>4, <1>5, <1>6 DEF TimesInv

LEMMA StepTimes ==
  ASSUME DelaysBounded
  PROVE  TypeOK /\ TypeOK' /\ LeaseInv /\ TimesInv /\ [Next]_vars => TimesInv'
<1> SUFFICES ASSUME TypeOK, TypeOK', LeaseInv, TimesInv, [Next]_vars PROVE TimesInv'
  OBVIOUS
<1>1. ASSUME UNCHANGED <<doc, lease>> PROVE TimesInv'
  BY <1>1, SameTimes DEF TimesInv, WithinGaps, KeptWhileWorking, Working
<1>2. ASSUME NEW p \in Procs, Restart(p) \/ \E t \in Tasks : GainFind(p, t) PROVE TimesInv'
  BY <1>1, <1>2 DEF Restart, GainFind
<1>3. ASSUME NEW p \in Procs, Crash(p) PROVE TimesInv'
  <2>1. doc' = doc /\ \A l \in Leases : lease'[l] = lease[l] \/ lease'[l] = NoLease
    BY <1>3 DEF Crash
  <2> QED
    BY <2>1, SameTimes, LeaseAssumption
    DEF TimesInv, WithinGaps, KeptWhileWorking, Working, NoLease
<1>4. CASE UNCHANGED vars
  BY <1>1, <1>4 DEF vars
<1> QED
  BY <1>2, <1>3, <1>4, GainTouchTimes, KeepAliveTouchTimes, QuietTimes, DashboardTimes,
     TickTimes DEF Next, Analyzer

(***************************************************************************)
(* When a KeepAlive touches its task, and a cancelled Do returns, together *)
(* within the time a task must rest, no two Do invocations work on one     *)
(* task, in any number of processes, however long Gain takes between its   *)
(* Find and its Touch.                                                     *)
(***************************************************************************)
THEOREM OneAtATime ==
  ASSUME DelaysBounded
  PROVE  Spec => []NoDoubleProcessing
<1>1. TimesInv => NoDoubleProcessing
  BY DEF TimesInv
<1>2. TypeOK /\ TypeOK' /\ LeaseInv /\ TimesInv /\ [Next]_vars => TimesInv'
  BY StepTimes
<1> QED  BY <1>1, <1>2, InitTimes, TypeCorrect, LeaseInvariant, PTL DEF Spec

-----------------------------------------------------------------------------
(***************************************************************************)
(* A KeepAlive stores the whole task it was started with, so an edit of    *)
(* the dashboard survives only if no copy of before has its version again  *)
(* when it is touched. An edit makes a task young, and a copy is found of  *)
(* an old one only (tasks.go:46): with both delays below the time a task   *)
(* must rest, all copies of before are gone when the task is found again.  *)
(***************************************************************************)

RenewalsBounded == Timely = TRUE /\ TouchGap <= Due /\ GainGap <= Due

Keeps(l) == lease[l].ka # "none"
Found(p) == gain[p].at = "found"

\* A kept task was touched or written since its KeepAlive last touched it.
KeptIsYoung ==
  \A l \in Leases : Keeps(l) =>
    /\ doc[lease[l].id].age <= lease[l].gap
    /\ lease[l].gap <= TouchGap
    /\ lease[l].ver > 0

\* A found copy is as stored, or the task was touched or written since.
FoundIsStored ==
  \A p \in Procs : Found(p) =>
    /\ gain[p].wait <= GainGap
    /\ gain[p].cfg = doc[gain[p].id].cfg \/ doc[gain[p].id].age <= gain[p].wait

\* All copies of a task that may still be stored are of one configuration ...
CopiesAgree ==
  /\ \A l, m \in Leases :
       (Keeps(l) /\ Keeps(m) /\ lease[l].id = lease[m].id) => lease[l].cfg = lease[m].cfg
  /\ \A l \in Leases, p \in Procs :
       (Keeps(l) /\ Found(p) /\ lease[l].id = gain[p].id) => lease[l].cfg = gain[p].cfg
  /\ \A p, q \in Procs :
       (Found(p) /\ Found(q) /\ gain[p].id = gain[q].id) => gain[p].cfg = gain[q].cfg

\* ... and a kept copy of the stored version is of the stored configuration.
RenewsStored ==
  \A l \in Leases :
    (Keeps(l) /\ lease[l].ver = doc[lease[l].id].ver) => lease[l].cfg = doc[lease[l].id].cfg

EditInv == KeptIsYoung /\ FoundIsStored /\ CopiesAgree /\ RenewsStored

LEMMA EditTypes ==
  ASSUME TypeOK
  PROVE  /\ \A l \in Leases : /\ lease[l] \in Lease /\ lease[l].id \in Tasks
                              /\ lease[l].gap \in Nat /\ lease[l].ver \in Nat
         /\ \A p \in Procs : /\ gain[p] \in Gain /\ gain[p].id \in Tasks
                             /\ gain[p].wait \in Nat /\ gain[p].ver \in Nat
         /\ \A t \in Tasks : doc[t] \in Doc /\ doc[t].age \in Nat /\ doc[t].ver \in Nat
         /\ TouchGap \in Nat /\ GainGap \in Nat /\ Due \in Nat
<1>1. \A t \in Tasks : doc[t].ver \in Nat
  BY DEF TypeOK, Doc
<1> QED  BY <1>1, TimesTypes, LeaseAssumption DEF TypeOK, Lease, Gain

LEMMA InitEdit == Init => EditInv
<1> SUFFICES ASSUME Init
             PROVE  (\A l \in Leases : ~Keeps(l)) /\ (\A p \in Procs : ~Found(p))
  BY DEF EditInv, KeptIsYoung, FoundIsStored, CopiesAgree, RenewsStored
<1> QED  BY DEF Init, Keeps, Found, NoLease, NoGain

\* A step that makes no copy, and writes a task only with age and version 0.
LEMMA SameEdits ==
  ASSUME TypeOK, EditInv,
         \A t \in Tasks :
           \/ doc'[t].age = 0 /\ doc'[t].ver = 0
           \/ /\ doc'[t].age = doc[t].age /\ doc'[t].ver = doc[t].ver
              /\ doc'[t].cfg = doc[t].cfg,
         \A l \in Leases : Keeps(l)' =>
           /\ Keeps(l) /\ lease'[l].id = lease[l].id /\ lease'[l].ver = lease[l].ver
           /\ lease'[l].cfg = lease[l].cfg /\ lease'[l].gap = lease[l].gap,
         \A p \in Procs : Found(p)' =>
           /\ Found(p) /\ gain'[p].id = gain[p].id /\ gain'[p].cfg = gain[p].cfg
           /\ gain'[p].wait = gain[p].wait
  PROVE  EditInv'
<1>1. KeptIsYoung'
  <2> SUFFICES ASSUME NEW l \in Leases, Keeps(l)'
               PROVE  /\ doc'[lease'[l].id].age <= lease'[l].gap
                      /\ lease'[l].gap <= TouchGap /\ lease'[l].ver > 0
    BY DEF KeptIsYoung
  <2>1. /\ doc[lease[l].id].age <= lease[l].gap /\ lease[l].gap <= TouchGap
        /\ lease[l].ver > 0 /\ lease[l].id \in Tasks /\ lease[l].gap \in Nat
    BY EditTypes DEF EditInv, KeptIsYoung
  <2> QED  BY <2>1
<1>2. FoundIsStored'
  <2> SUFFICES ASSUME NEW p \in Procs, Found(p)'
               PROVE  /\ gain'[p].wait <= GainGap
                      /\ gain'[p].cfg = doc'[gain'[p].id].cfg
                           \/ doc'[gain'[p].id].age <= gain'[p].wait
    BY DEF FoundIsStored
  <2>1. /\ gain[p].wait <= GainGap /\ gain[p].id \in Tasks /\ gain[p].wait \in Nat
        /\ gain[p].cfg = doc[gain[p].id].cfg \/ doc[gain[p].id].age <= gain[p].wait
    BY EditTypes DEF EditInv, FoundIsStored
  <2> QED  BY <2>1
<1>3. CopiesAgree'
  BY DEF EditInv, CopiesAgree
<1>4. RenewsStored'
  <2> SUFFICES ASSUME NEW l \in Leases, Keeps(l)', lease'[l].ver = doc'[lease'[l].id].ver
               PROVE  lease'[l].cfg = doc'[lease'[l].id].cfg
    BY DEF RenewsStored
  <2>1. lease[l].ver > 0 /\ lease[l].id \in Tasks
    BY EditTypes DEF EditInv, KeptIsYoung
  <2> QED  BY <2>1 DEF EditInv, RenewsStored
<1> QED  BY <1>1, <1>2, <1>3, <1>4 DEF EditInv

\* An old task is kept by nobody, and whoever found it has it as it is.
LEMMA GainFindEdit ==
  ASSUME RenewalsBounded, TypeOK, EditInv, NEW p \in Procs, NEW t \in Tasks, GainFind(p, t)
  PROVE  EditInv'
<1>1. /\ doc' = doc /\ lease' = lease /\ doc[t].age > Due
      /\ gain'[p].id = t /\ gain'[p].cfg = doc[t].cfg /\ gain'[p].wait = 0
      /\ \A q \in Procs \ {p} : gain'[q] = gain[q]
  BY DEF GainFind, TypeOK
<1>2. \A l \in Leases : Keeps(l) => lease[l].id # t
  <2> SUFFICES ASSUME NEW l \in Leases, Keeps(l), lease[l].id = t PROVE FALSE
    OBVIOUS
  <2>1. doc[t].age <= lease[l].gap /\ lease[l].gap <= TouchGap /\ lease[l].gap \in Nat
    BY EditTypes DEF EditInv, KeptIsYoung
  <2> QED  BY <1>1, <2>1, EditTypes DEF RenewalsBounded
<1>3. \A q \in Procs : (Found(q) /\ gain[q].id = t) => gain[q].cfg = doc[t].cfg
  <2> SUFFICES ASSUME NEW q \in Procs, Found(q), gain[q].id = t, gain[q].cfg # doc[t].cfg
               PROVE  FALSE
    OBVIOUS
  <2>1. doc[t].age <= gain[q].wait /\ gain[q].wait <= GainGap /\ gain[q].wait \in Nat
    BY EditTypes DEF EditInv, FoundIsStored
  <2> QED  BY <1>1, <2>1, EditTypes DEF RenewalsBounded
<1>4. KeptIsYoung' /\ RenewsStored'
  BY <1>1 DEF EditInv, KeptIsYoung, RenewsStored, Keeps
<1>5. FoundIsStored'
  BY <1>1, EditTypes DEF EditInv, FoundIsStored, Found
<1>6. CopiesAgree'
  BY <1>1, <1>2, <1>3 DEF EditInv, CopiesAgree, Keeps, Found
<1> QED  BY <1>4, <1>5, <1>6 DEF EditInv

\* What a Touch leaves in the store.
LEMMA TouchCopy ==
  ASSUME TypeOK, NEW copy, copy.id \in Tasks, NEW res \in Results, Touch(copy, res)
  PROVE  /\ \A t \in Tasks :
              \/ doc'[t] = doc[t]
              \/ /\ t = copy.id /\ doc[t].ver = copy.ver
                 /\ doc'[t].age = 0 /\ doc'[t].cfg = copy.cfg
         /\ res = "ok" => doc'[copy.id].age = 0 /\ doc'[copy.id].cfg = copy.cfg
BY DEF Touch, Touched, Matches, TypeOK

\* A step that stores a copy all others agree with, and makes at most a copy of it.
LEMMA StoredEdits ==
  ASSUME TypeOK, TypeOK', EditInv, NEW t \in Tasks, NEW c,
         \A u \in Tasks :
           doc'[u] = doc[u] \/ (u = t /\ doc'[u].age = 0 /\ doc'[u].cfg = c),
         \A l \in Leases : (Keeps(l) /\ lease[l].id = t) => lease[l].cfg = c,
         \A p \in Procs : (Found(p) /\ gain[p].id = t) => gain[p].cfg = c,
         \A l \in Leases : Keeps(l)' =>
           \/ Keeps(l) /\ lease'[l] = lease[l]
           \/ /\ lease'[l].id = t /\ lease'[l].cfg = c /\ lease'[l].gap = 0
              /\ lease'[l].ver > 0 /\ doc'[t].age = 0 /\ doc'[t].cfg = c,
         \A p \in Procs : Found(p)' => Found(p) /\ gain'[p] = gain[p]
  PROVE  EditInv'
<1>1. KeptIsYoung'
  <2> SUFFICES ASSUME NEW l \in Leases, Keeps(l)'
               PROVE  /\ doc'[lease'[l].id].age <= lease'[l].gap
                      /\ lease'[l].gap <= TouchGap /\ lease'[l].ver > 0
    BY DEF KeptIsYoung
  <2>1. CASE Keeps(l) /\ lease'[l] = lease[l]
    <3>1. /\ doc[lease[l].id].age <= lease[l].gap /\ lease[l].gap <= TouchGap
          /\ lease[l].ver > 0 /\ lease[l].id \in Tasks /\ lease[l].gap \in Nat
      BY <2>1, EditTypes DEF EditInv, KeptIsYoung
    <3>2. doc'[lease[l].id] = doc[lease[l].id] \/ doc'[lease[l].id].age = 0
      BY <3>1
    <3> QED  BY <2>1, <3>1, <3>2
  <2>2. CASE ~(Keeps(l) /\ lease'[l] = lease[l])
    BY <2>2, EditTypes
  <2> QED  BY <2>1, <2>2
<1>2. FoundIsStored'
  <2> SUFFICES ASSUME NEW p \in Procs, Found(p)'
               PROVE  /\ gain'[p].wait <= GainGap
                      /\ gain'[p].cfg = doc'[gain'[p].id].cfg
                           \/ doc'[gain'[p].id].age <= gain'[p].wait
    BY DEF FoundIsStored
  <2>1. /\ gain'[p] = gain[p] /\ gain[p].wait <= GainGap /\ gain[p].id \in Tasks
        /\ gain[p].wait \in Nat
        /\ gain[p].cfg = doc[gain[p].id].cfg \/ doc[gain[p].id].age <= gain[p].wait
    BY EditTypes DEF EditInv, FoundIsStored
  <2>2. doc'[gain[p].id] = doc[gain[p].id] \/ doc'[gain[p].id].age = 0
    BY <2>1
  <2> QED  BY <2>1, <2>2
<1>3. /\ \A l \in Leases : (Keeps(l)' /\ lease'[l].id = t) => lease'[l].cfg = c
      /\ \A l \in Leases : (Keeps(l)' /\ lease'[l].id # t) => Keeps(l) /\ lease'[l] = lease[l]
      /\ \A p \in Procs : Found(p)' => Found(p) /\ gain'[p] = gain[p]
  OBVIOUS
<1>4. CopiesAgree'
  <2>1. ASSUME NEW l \in Leases, NEW m \in Leases,
               Keeps(l)', Keeps(m)', lease'[l].id = lease'[m].id
        PROVE  lease'[l].cfg = lease'[m].cfg
    BY <1>3, <2>1 DEF EditInv, CopiesAgree
  <2>2. ASSUME NEW l \in Leases, NEW p \in Procs,
               Keeps(l)', Found(p)', lease'[l].id = gain'[p].id
        PROVE  lease'[l].cfg = gain'[p].cfg
    BY <1>3, <2>2 DEF EditInv, CopiesAgree
  <2>3. ASSUME NEW p \in Procs, NEW q \in Procs,
               Found(p)', Found(q)', gain'[p].id = gain'[q].id
        PROVE  gain'[p].cfg = gain'[q].cfg
    BY <1>3, <2>3 DEF EditInv, CopiesAgree
  <2> QED  BY <2>1, <2>2, <2>3 DEF CopiesAgree
<1>5. RenewsStored'
  <2> SUFFICES ASSUME NEW l \in Leases, Keeps(l)', lease'[l].ver = doc'[lease'[l].id].ver
               PROVE  lease'[l].cfg = doc'[lease'[l].id].cfg
    BY DEF RenewsStored
  <2>1. CASE Keeps(l) /\ lease'[l] = lease[l]
    <3>1. lease[l].id \in Tasks
      BY EditTypes
    <3>2. CASE doc'[lease[l].id] = doc[lease[l].id]
      BY <2>1, <3>2 DEF EditInv, RenewsStored
    <3>3. CASE doc'[lease[l].id] # doc[lease[l].id]
      BY <2>1, <3>1, <3>3
    <3> QED  BY <3>2, <3>3
  <2>2. CASE ~(Keeps(l) /\ lease'[l] = lease[l])
    BY <2>2
  <2> QED  BY <2>1, <2>2
<1> QED  BY <1>1, <1>2, <1>4, <1>5 DEF EditInv

LEMMA GainTouchEdit ==
  ASSUME TypeOK, TypeOK', EditInv, NEW p \in Procs, NEW r \in Results, GainTouch(p, r)
  PROVE  EditInv'
<1> DEFINE c == gain[p]
<1>1. c.id \in Tasks /\ c.ver \in Nat /\ Touch(c, r) /\ Found(p)
  BY EditTypes DEF GainTouch, Found
<1>2. /\ \A t \in Tasks :
           doc'[t] = doc[t] \/ (t = c.id /\ doc'[t].age = 0 /\ doc'[t].cfg = c.cfg)
      /\ r = "ok" => doc'[c.id].age = 0 /\ doc'[c.id].cfg = c.cfg
  BY <1>1, TouchCopy
<1>3. \A q \in Procs : Found(q)' => Found(q) /\ gain'[q] = gain[q]
  BY DEF GainTouch, TypeOK, Found, NoGain
<1>4. /\ \A l \in Leases : (Keeps(l) /\ lease[l].id = c.id) => lease[l].cfg = c.cfg
      /\ \A q \in Procs : (Found(q) /\ gain[q].id = c.id) => gain[q].cfg = c.cfg
  BY <1>1 DEF EditInv, CopiesAgree
<1>5. \A l \in Leases : Keeps(l)' =>
        \/ Keeps(l) /\ lease'[l] = lease[l]
        \/ /\ lease'[l].id = c.id /\ lease'[l].cfg = c.cfg /\ lease'[l].gap = 0
           /\ lease'[l].ver > 0 /\ doc'[c.id].age = 0 /\ doc'[c.id].cfg = c.cfg
  <2>1. CASE r # "ok"
    <3>1. lease' = lease
      BY <2>1 DEF GainTouch
    <3> QED  BY <3>1 DEF Keeps
  <2>2. CASE r = "ok"
    <3>1. PICK n \in Leases :
            lease' = [lease EXCEPT ![n] =
              [id |-> gain[p].id, ver |-> gain[p].ver + 1, cfg |-> gain[p].cfg,
               do |-> "work", ka |-> "check", cancelled |-> FALSE,
               fresh |-> gain[p].fresh, clean |-> gain[p].fresh, gap |-> 0, lag |-> 0]]
      BY <2>2, Zenon DEF GainTouch
    <3>2. /\ lease'[n].id = c.id /\ lease'[n].ver = c.ver + 1 /\ lease'[n].cfg = c.cfg
          /\ lease'[n].gap = 0
          /\ \A l \in Leases \ {n} : lease'[l] = lease[l]
      BY <3>1 DEF TypeOK
    <3> HIDE DEF c
    <3>3. lease'[n].ver > 0
      BY <1>1, <3>2
    <3> QED  BY <1>2, <2>2, <3>2, <3>3 DEF Keeps
  <2> QED  BY <2>1, <2>2
<1> HIDE DEF c
<1> QED  BY <1>1, <1>2, <1>3, <1>4, <1>5, StoredEdits

LEMMA KeepAliveTouchEdit ==
  ASSUME TypeOK, TypeOK', EditInv, NEW n \in Leases, NEW r \in Results, KeepAliveTouch(n, r)
  PROVE  EditInv'
<1> DEFINE c == lease[n]
<1>1. /\ c.id \in Tasks /\ c.ver \in Nat /\ c \in Lease /\ lease \in [Leases -> Lease]
      /\ Touch(c, r) /\ Keeps(n) /\ gain' = gain
  BY EditTypes DEF KeepAliveTouch, Keeps, TypeOK
<1>2. /\ \A t \in Tasks :
           doc'[t] = doc[t] \/ (t = c.id /\ doc'[t].age = 0 /\ doc'[t].cfg = c.cfg)
      /\ r = "ok" => doc'[c.id].age = 0 /\ doc'[c.id].cfg = c.cfg
  BY <1>1, TouchCopy
<1>3. \A q \in Procs : Found(q)' => Found(q) /\ gain'[q] = gain[q]
  BY <1>1 DEF Found
<1>4. /\ \A l \in Leases : (Keeps(l) /\ lease[l].id = c.id) => lease[l].cfg = c.cfg
      /\ \A q \in Procs : (Found(q) /\ gain[q].id = c.id) => gain[q].cfg = c.cfg
  BY <1>1 DEF EditInv, CopiesAgree
<1>5. Keeps(n)' =>
        /\ lease'[n].id = c.id /\ lease'[n].cfg = c.cfg /\ lease'[n].gap = 0
        /\ lease'[n].ver > 0 /\ doc'[c.id].age = 0 /\ doc'[c.id].cfg = c.cfg
  <2>1. CASE r = "ok"
    <3>1. lease'[n] = [c EXCEPT !.ka = "sleep", !.ver = c.ver + 1, !.gap = 0]
      BY <1>1, <2>1 DEF KeepAliveTouch
    <3> HIDE DEF c
    <3>2. /\ lease'[n].id = c.id /\ lease'[n].cfg = c.cfg /\ lease'[n].gap = 0
          /\ lease'[n].ver = c.ver + 1
      BY <1>1, <3>1 DEF Lease
    <3> QED  BY <1>1, <1>2, <2>1, <3>2
  <2>2. CASE r # "ok"
    <3>1. lease'[n] = Left([c EXCEPT !.ka = "none", !.cancelled = TRUE, !.gap = 0])
      BY <1>1, <2>2 DEF KeepAliveTouch
    <3> HIDE DEF c
    <3> QED  BY <1>1, <3>1 DEF Left, Lease, NoLease, Keeps
  <2> QED  BY <2>1, <2>2
<1>6. \A l \in Leases \ {n} : lease'[l] = lease[l]
  BY <1>1 DEF KeepAliveTouch
<1>7. \A l \in Leases : Keeps(l)' =>
        \/ Keeps(l) /\ lease'[l] = lease[l]
        \/ /\ lease'[l].id = c.id /\ lease'[l].cfg = c.cfg /\ lease'[l].gap = 0
           /\ lease'[l].ver > 0 /\ doc'[c.id].age = 0 /\ doc'[c.id].cfg = c.cfg
  BY <1>5, <1>6 DEF Keeps
<1> HIDE DEF c
<1> QED  BY <1>1, <1>2, <1>3, <1>4, <1>7, StoredEdits

\* A KeepAlive that looks at its context, sleeps or ends, or whose Do returns.
LEMMA QuietEdit ==
  ASSUME TypeOK, EditInv, NEW n \in Leases,
         KeepAliveCheck(n) \/ KeepAliveWake(n) \/ DoReturn(n)
  PROVE  EditInv'
<1>1. /\ lease \in [Leases -> Lease] /\ lease[n] \in Lease /\ doc' = doc /\ gain' = gain
      /\ \A l \in Leases \ {n} : lease'[l] = lease[l]
  BY DEF KeepAliveCheck, KeepAliveWake, DoReturn, TypeOK
<1>2. Keeps(n)' =>
        /\ Keeps(n) /\ lease'[n].id = lease[n].id /\ lease'[n].ver = lease[n].ver
        /\ lease'[n].cfg = lease[n].cfg /\ lease'[n].gap = lease[n].gap
  <2>1. CASE KeepAliveWake(n) \/ (KeepAliveCheck(n) /\ ~lease[n].cancelled)
    BY <1>1, <2>1 DEF KeepAliveWake, KeepAliveCheck, Lease, Keeps
  <2>2. CASE KeepAliveCheck(n) /\ lease[n].cancelled
    BY <1>1, <2>2 DEF KeepAliveCheck, Left, Lease, NoLease, Keeps
  <2>3. CASE DoReturn(n)
    <3>1. lease'[n] = Left([lease[n] EXCEPT !.do = "none", !.cancelled = TRUE, !.lag = 0])
      BY <1>1, <2>3 DEF DoReturn
    <3>2. CASE lease[n].ka = "none"
      BY <1>1, <3>1, <3>2 DEF Left, Lease, NoLease, Keeps
    <3>3. CASE lease[n].ka # "none"
      BY <1>1, <3>1, <3>3 DEF Left, Lease, Keeps
    <3> QED  BY <3>2, <3>3
  <2> QED  BY <2>1, <2>2, <2>3
<1> QED  BY <1>1, <1>2, SameEdits DEF Keeps, Found

LEMMA WriteEdit ==
  ASSUME TypeOK, EditInv, NEW t \in Tasks, NEW d, Write(t, d),
         \/ d.age = 0 /\ d.ver = 0
         \/ d.age = doc[t].age /\ d.ver = doc[t].ver /\ d.cfg = doc[t].cfg
  PROVE  EditInv'
<1>1. \A u \in Tasks : doc'[u] = doc[u] \/ (u = t /\ doc'[u] = d)
  BY DEF Write, TypeOK
<1>2. \A l \in Leases :
        /\ lease'[l].id = lease[l].id /\ lease'[l].ver = lease[l].ver
        /\ lease'[l].cfg = lease[l].cfg /\ lease'[l].gap = lease[l].gap
        /\ lease'[l].ka = lease[l].ka
  BY DEF Write, TypeOK, Lease
<1>3. \A p \in Procs :
        /\ gain'[p].at = gain[p].at /\ gain'[p].id = gain[p].id
        /\ gain'[p].cfg = gain[p].cfg /\ gain'[p].wait = gain[p].wait
  BY DEF Write, TypeOK, Gain
<1>4. \A u \in Tasks :
        \/ doc'[u].age = 0 /\ doc'[u].ver = 0
        \/ /\ doc'[u].age = doc[u].age /\ doc'[u].ver = doc[u].ver
           /\ doc'[u].cfg = doc[u].cfg
  BY <1>1
<1> QED  BY <1>2, <1>3, <1>4, SameEdits DEF Keeps, Found

LEMMA DashboardEdit ==
  ASSUME TypeOK, EditInv, Dashboard
  PROVE  EditInv'
<1> SUFFICES ASSUME NEW t \in Tasks,
                    \/ \E c \in Configs, s \in Status : PostTasks(t, c, s) \/ PutTasks(t, c, s)
                    \/ DeleteTasks(t)
                    \/ \E s \in Status : StatusCheck(t, s) \/ StatusWrite(t, s)
             PROVE  EditInv'
  BY DEF Dashboard
<1>1. doc[t] \in Doc
  BY DEF TypeOK
<1>2. ASSUME UNCHANGED <<doc, gain, lease>> PROVE EditInv'
  BY <1>2, SameEdits DEF Keeps, Found
<1>3. CASE \E c \in Configs, s \in Status : PostTasks(t, c, s) \/ PutTasks(t, c, s)
  <2>1. PICK c \in Configs, s \in Status :
          Write(t, [st |-> s, ver |-> 0, age |-> 0, cfg |-> c])
    BY <1>3 DEF PostTasks, PutTasks
  <2> QED  BY <2>1, WriteEdit
<1>4. CASE DeleteTasks(t)
  <2> DEFINE d == [doc[t] EXCEPT !.st = "none"]
  <2>1. Write(t, d) /\ d.age = doc[t].age /\ d.ver = doc[t].ver /\ d.cfg = doc[t].cfg
    BY <1>1, <1>4 DEF DeleteTasks, Doc
  <2> QED  BY <2>1, WriteEdit
<1>5. ASSUME NEW s \in Status, StatusCheck(t, s) PROVE EditInv'
  BY <1>2, <1>5 DEF StatusCheck
<1>6. ASSUME NEW s \in Status, StatusWrite(t, s) PROVE EditInv'
  <2>1. CASE doc[t].st = "none"
    BY <1>2, <1>6, <2>1 DEF StatusWrite
  <2>2. CASE doc[t].st # "none"
    <3> DEFINE d == [doc[t] EXCEPT !.st = s, !.ver = 0, !.age = 0]
    <3>1. Write(t, d) /\ d.age = 0 /\ d.ver = 0
      BY <1>1, <1>6, <2>2 DEF StatusWrite, Doc
    <3> HIDE DEF d
    <3> QED  BY <3>1, WriteEdit
  <2> QED  BY <2>1, <2>2
<1> QED  BY <1>3, <1>4, <1>5, <1>6

LEMMA TickEdit ==
  ASSUME RenewalsBounded, TypeOK, TypeOK', EditInv, Tick
  PROVE  EditInv'
<1>1. InTime
  BY DEF Tick, RenewalsBounded
<1>2. \A t \in Tasks : doc'[t] = Aged(doc[t])
  BY DEF Tick
<1>3. \A p \in Procs :
        gain'[p] = IF Found(p) THEN [gain[p] EXCEPT !.wait = gain[p].wait + 1] ELSE gain[p]
  BY DEF Tick, RenewalsBounded, Found
<1>4. \A l \in Leases : lease'[l] = [lease[l] EXCEPT
              !.gap = IF lease[l].ka # "none" THEN lease[l].gap + 1 ELSE lease[l].gap,
              !.lag = IF Working(l) /\ lease[l].cancelled THEN lease[l].lag + 1
                      ELSE lease[l].lag]
  BY DEF Tick, RenewalsBounded
<1>5. ASSUME NEW t \in Tasks
      PROVE  /\ doc'[t].ver = doc[t].ver /\ doc'[t].cfg = doc[t].cfg
             /\ doc'[t].age <= doc[t].age + 1
  <2>1. doc[t] \in Doc /\ doc[t].age \in Nat /\ doc'[t] = Aged(doc[t])
    BY <1>2, EditTypes
  <2> DEFINE a == IF doc[t].age > Due THEN doc[t].age ELSE doc[t].age + 1
  <2>2. doc'[t] = [doc[t] EXCEPT !.age = a]
    BY <2>1 DEF Aged
  <2>3. a <= doc[t].age + 1
    BY <2>1, LeaseAssumption
  <2> HIDE DEF a
  <2> QED  BY <2>1, <2>2, <2>3 DEF Doc
<1>6. ASSUME NEW l \in Leases
      PROVE  /\ lease'[l].id = lease[l].id /\ lease'[l].ver = lease[l].ver
             /\ lease'[l].cfg = lease[l].cfg /\ lease'[l].ka = lease[l].ka
             /\ Keeps(l) => lease'[l].gap = lease[l].gap + 1
  <2> DEFINE g == IF lease[l].ka # "none" THEN lease[l].gap + 1 ELSE lease[l].gap
             h == IF Working(l) /\ lease[l].cancelled THEN lease[l].lag + 1 ELSE lease[l].lag
  <2>1. lease'[l] = [lease[l] EXCEPT !.gap = g, !.lag = h] /\ lease[l] \in Lease
    BY <1>4, EditTypes
  <2> HIDE DEF g, h
  <2>2. /\ lease'[l].gap = g /\ lease'[l].id = lease[l].id /\ lease'[l].ver = lease[l].ver
        /\ lease'[l].cfg = lease[l].cfg /\ lease'[l].ka = lease[l].ka
    BY <2>1 DEF Lease
  <2> QED  BY <2>2 DEF g, Keeps
<1>7. ASSUME NEW p \in Procs
      PROVE  /\ gain'[p].id = gain[p].id /\ gain'[p].cfg = gain[p].cfg
             /\ gain'[p].at = gain[p].at
             /\ Found(p) => gain'[p].wait = gain[p].wait + 1
  BY <1>3, EditTypes DEF Gain, Found
<1>8. KeptIsYoung'
  <2> SUFFICES ASSUME NEW l \in Leases, Keeps(l)
               PROVE  /\ doc'[lease[l].id].age <= lease[l].gap + 1
                      /\ lease[l].gap + 1 <= TouchGap /\ lease[l].ver > 0
    BY <1>6 DEF KeptIsYoung, Keeps
  <2>1. /\ doc[lease[l].id].age <= lease[l].gap /\ lease[l].ver > 0
        /\ lease[l].gap < TouchGap
    BY <1>1 DEF InTime, Keeps, EditInv, KeptIsYoung
  <2>2. /\ lease[l].id \in Tasks /\ lease[l].gap \in Nat /\ doc[lease[l].id].age \in Nat
        /\ doc'[lease[l].id].age \in Nat /\ TouchGap \in Nat
    BY EditTypes, TimesTypesNext
  <2> QED  BY <1>5, <2>1, <2>2
<1>9. FoundIsStored'
  <2> SUFFICES ASSUME NEW p \in Procs, Found(p)
               PROVE  /\ gain[p].wait + 1 <= GainGap
                      /\ gain[p].cfg = doc'[gain[p].id].cfg
                           \/ doc'[gain[p].id].age <= gain[p].wait + 1
    BY <1>7 DEF FoundIsStored, Found
  <2>1. /\ gain[p].wait < GainGap
        /\ gain[p].cfg = doc[gain[p].id].cfg \/ doc[gain[p].id].age <= gain[p].wait
    BY <1>1 DEF InTime, Found, EditInv, FoundIsStored
  <2>2. /\ gain[p].id \in Tasks /\ gain[p].wait \in Nat /\ doc[gain[p].id].age \in Nat
        /\ doc'[gain[p].id].age \in Nat /\ GainGap \in Nat
    BY EditTypes, TimesTypesNext
  <2> QED  BY <1>5, <2>1, <2>2
<1>10. CopiesAgree' /\ RenewsStored'
  BY <1>5, <1>6, <1>7, EditTypes
  DEF EditInv, CopiesAgree, RenewsStored, Keeps, Found
<1> QED  BY <1>8, <1>9, <1>10 DEF EditInv

LEMMA StepEdit ==
  ASSUME RenewalsBounded
  PROVE  TypeOK /\ TypeOK' /\ EditInv /\ [Next]_vars => EditInv'
<1> SUFFICES ASSUME TypeOK, TypeOK', EditInv, [Next]_vars PROVE EditInv'
  OBVIOUS
<1>1. CASE UNCHANGED vars
  BY <1>1, SameEdits DEF vars, Keeps, Found
<1>2. ASSUME NEW p \in Procs, Restart(p) PROVE EditInv'
  BY <1>2, SameEdits DEF Restart, Keeps, Found
<1>3. ASSUME NEW p \in Procs, Crash(p) PROVE EditInv'
  <2>1. /\ doc' = doc
        /\ \A l \in Leases : lease'[l] = lease[l] \/ lease'[l] = NoLease
        /\ \A q \in Procs : gain'[q] = gain[q] \/ gain'[q] = NoGain
    BY <1>3 DEF Crash, TypeOK
  <2> QED  BY <2>1, SameEdits DEF Keeps, Found, NoLease, NoGain
<1> QED
  BY <1>1, <1>2, <1>3, GainFindEdit, GainTouchEdit, KeepAliveTouchEdit, QuietEdit,
     DashboardEdit, TickEdit DEF Next, Analyzer

\* Of the steps that answer a Touch, KeepAlive's stores the copy if anything.
LEMMA AnswerKeepsEdit ==
  ASSUME TypeOK, EditInv, [Next]_vars, NEW l \in Leases,
         lease[l].ka = "touch", lease'[l].ka # "touch", UNCHANGED gain
  PROVE  doc'[lease[l].id].cfg = doc[lease[l].id].cfg
<1>1. CASE \E n \in Leases, r \in Results : KeepAliveTouch(n, r)
  <2>1. PICK n \in Leases, r \in Results : KeepAliveTouch(n, r)
    BY <1>1
  <2>2. n = l
    BY <2>1 DEF KeepAliveTouch, TypeOK
  <2>3. Keeps(l) /\ Touch(lease[l], r) /\ lease[l].id \in Tasks
    BY <2>1, <2>2, EditTypes DEF KeepAliveTouch, Keeps
  <2>4. \/ doc'[lease[l].id] = doc[lease[l].id]
        \/ /\ doc[lease[l].id].ver = lease[l].ver
           /\ doc'[lease[l].id].cfg = lease[l].cfg
    BY <2>3, TouchCopy
  <2> QED  BY <2>3, <2>4 DEF EditInv, RenewsStored
<1>2. ASSUME Dashboard PROVE FALSE
  <2>1. ASSUME NEW t \in Tasks, NEW d, Write(t, d) PROVE lease'[l].ka = "touch"
    BY <2>1, EditTypes DEF Write, Lease
  <2>2. CASE UNCHANGED lease
    BY <2>2
  <2>3. CASE ~UNCHANGED lease
    <3>1. PICK t \in Tasks : \E d : Write(t, d)
      BY <1>2, <2>3
      DEF Dashboard, PostTasks, PutTasks, DeleteTasks, StatusCheck, StatusWrite
    <3> QED  BY <2>1, <3>1
  <2> QED  BY <2>2, <2>3
<1>3. CASE Tick
  <2> DEFINE t == lease[l].id
  <2>1. t \in Tasks
    BY EditTypes
  <2>2. doc'[t] = Aged(doc[t])
    BY <1>3, <2>1 DEF Tick
  <2>3. doc[t] \in Doc
    BY <2>1 DEF TypeOK
  <2> QED  BY <2>2, <2>3 DEF Aged, Doc
<1>4. ASSUME NEW p \in Procs, NEW r \in Results, GainTouch(p, r) PROVE FALSE
  BY <1>4 DEF GainTouch, NoGain, TypeOK
<1>5. ASSUME doc' = doc PROVE doc'[lease[l].id].cfg = doc[lease[l].id].cfg
  BY <1>5
<1>6. CASE \/ \E p \in Procs, t \in Tasks : GainFind(p, t)
           \/ \E n \in Leases : KeepAliveCheck(n) \/ KeepAliveWake(n) \/ DoReturn(n)
           \/ \E p \in Procs : Crash(p) \/ Restart(p)
           \/ UNCHANGED vars
  <2>1. doc' = doc
    BY <1>6 DEF GainFind, KeepAliveCheck, KeepAliveWake, DoReturn, Crash, Restart, vars
  <2> QED  BY <1>5, <2>1
<1> QED  BY <1>1, <1>2, <1>3, <1>4, <1>6 DEF Next, Analyzer

(***************************************************************************)
(* When a KeepAlive touches its task, and Gain the one it found, within    *)
(* the time a task must rest, no KeepAlive overwrites an edit of the       *)
(* dashboard (consumer.go:128, tasks.go:71), however often the dashboard   *)
(* writes and processes crash. Gain may: TaskEditLost.                     *)
(***************************************************************************)
THEOREM EditsAreKept ==
  ASSUME RenewalsBounded
  PROVE  Spec => RenewalKeepsEdit
<1>1. TypeOK /\ TypeOK' /\ EditInv /\ [Next]_vars => EditInv'
  BY StepEdit
<1>2. TypeOK /\ EditInv /\ [Next]_vars
        => [\A l \in Leases :
              (lease[l].ka = "touch" /\ lease'[l].ka # "touch" /\ UNCHANGED gain)
                => doc'[lease[l].id].cfg = doc[lease[l].id].cfg]_vars
  BY AnswerKeepsEdit
<1> QED  BY <1>1, <1>2, InitEdit, TypeCorrect, PTL DEF Spec, RenewalKeepsEdit

-----------------------------------------------------------------------------
(***************************************************************************)
(* TaskLease implements the single-owner contract of TaskOwnership.        *)
(***************************************************************************)

\* At most one owner.
LEMMA SingleOwner ==
  ASSUME LeaseInv, NEW t \in Tasks, NEW l \in Owners(t)
  PROVE  Owners(t) = {l}
BY DEF LeaseInv, DistinctVersions, Owners, Current

LEMMA MapInit == Init => Ownership!OInit
<1> SUFFICES ASSUME Init PROVE Ownership!OInit
  OBVIOUS
<1>1. \A t \in Tasks : Owners(t) = {}
  BY DEF Init, Owners, Current, Holds, NoLease
<1>2. DueTasks = {}
  BY LeaseAssumption DEF Init, DueTasks
<1> QED  BY <1>1, <1>2 DEF Ownership!OInit

\* Owners that only disappear, in any number of tasks.
LEMMA MapLose ==
  ASSUME LeaseInv, DueTasks' = DueTasks, \A t \in Tasks : Owners(t)' \subseteq Owners(t)
  PROVE  Ownership!ONext
<1>1. \A t \in Tasks : Owners(t)' = {} \/ Owners(t)' = Owners(t)
  <2>1. ASSUME NEW t \in Tasks, NEW l \in Owners(t)' PROVE Owners(t)' = Owners(t)
    <3>1. Owners(t) = {l}
      BY <2>1, SingleOwner
    <3> QED  BY <2>1, <3>1
  <2> QED  BY <2>1
<1>2. PICK S \in SUBSET Tasks : \A t \in Tasks : t \in S <=> Owners(t)' = {}
  <2>1. {t \in Tasks : Owners(t)' = {}} \in SUBSET Tasks
    OBVIOUS
  <2> QED  BY <2>1
<1>3. \A t \in Tasks : Owners(t)' = IF t \in S THEN {} ELSE Owners(t)
  BY <1>1, <1>2
<1>4. Ownership!Lose(S)
  BY <1>3 DEF Ownership!Lose
<1> QED  BY <1>4 DEF Ownership!ONext

\* One task loses its owner, if any, and is no longer due.
LEMMA MapReset ==
  ASSUME NEW t \in Tasks, Owners(t)' = {}, DueTasks' = DueTasks \ {t},
         \A s \in Tasks \ {t} : Owners(s)' = Owners(s)
  PROVE  Ownership!ONext
<1>1. Ownership!Reset(t)
  BY DEF Ownership!Reset
<1> QED  BY <1>1 DEF Ownership!ONext

\* The effect of a Touch on what is due, and on the owners that take no part in it.
LEMMA MapTouch ==
  ASSUME TypeOK, LeaseInv, NEW copy, copy.id \in Tasks, copy.ver \in Nat,
         NEW res \in Results, Touch(copy, res)
  PROVE  \/ doc' = doc /\ DueTasks' = DueTasks /\ res = "failed"
         \/ /\ res # "failed" /\ doc[copy.id].ver = copy.ver /\ doc[copy.id].st = "ON"
            /\ doc'[copy.id].ver = copy.ver + 1
            /\ \A s \in Tasks \ {copy.id} : doc'[s] = doc[s]
            /\ DueTasks' = DueTasks \ {copy.id}
            /\ \A l \in Leases : (Holds(l) /\ lease[l].id = copy.id)
                                   => lease[l].ver # copy.ver + 1
<1>1. CASE res = "failed"
  BY <1>1 DEF Touch, DueTasks
<1>2. CASE res # "failed"
  <2>1. /\ Matches(copy)
        /\ doc' = [doc EXCEPT ![copy.id] = Touched(copy)]
    BY <1>2 DEF Touch
  <2>2. /\ doc[copy.id].ver = copy.ver /\ doc[copy.id].st = "ON"
        /\ doc'[copy.id].ver = copy.ver + 1 /\ doc'[copy.id].age = 0
        /\ \A s \in Tasks \ {copy.id} : doc'[s] = doc[s]
    BY <2>1 DEF Matches, Touched, TypeOK
  <2>3. DueTasks' = DueTasks \ {copy.id}
    BY <2>2, LeaseAssumption DEF DueTasks
  <2>4. \A l \in Leases : (Holds(l) /\ lease[l].id = copy.id) => lease[l].ver # copy.ver + 1
    <3>1. \A l \in Leases : lease[l].ver \in Nat
      BY DEF TypeOK, Lease
    <3> QED  BY <2>2, <3>1 DEF LeaseInv, HeldBehindStore
  <2> QED  BY <1>2, <2>2, <2>3, <2>4
<1> QED  BY <1>1, <1>2

\* The owners after a Touch that reached the store: among the leases only the
\* toucher's, n, can own the task, those of the other tasks are what they were.
LEMMA OwnersAfterTouch ==
  ASSUME NEW i \in Tasks, NEW v \in Nat, NEW n \in Leases,
         doc'[i].ver = v + 1, doc[i].ver = v, \A s \in Tasks \ {i} : doc'[s] = doc[s],
         \A l \in Leases : (Holds(l) /\ lease[l].id = i) => lease[l].ver # v + 1,
         \A l \in Leases \ {n} : lease'[l] = lease[l],
         lease[n].ka = "none" \/ lease[n].id = i,
         lease'[n].ka = "none" \/ lease'[n].id = i
  PROVE  /\ \A s \in Tasks \ {i} : Owners(s)' = Owners(s)
         /\ Owners(i)' \subseteq {n}
         /\ n \in Owners(i)' <=> (Holds(n)' /\ lease'[n].ver = v + 1)
<1>1. ASSUME NEW s \in Tasks \ {i} PROVE Owners(s)' = Owners(s)
  BY <1>1 DEF Owners, Current, Holds
<1>2. Owners(i)' \subseteq {n}
  BY DEF Owners, Current, Holds
<1>3. n \in Owners(i)' <=> (Holds(n)' /\ lease'[n].ver = v + 1)
  BY DEF Owners, Current, Holds
<1> QED  BY <1>1, <1>2, <1>3

LEMMA MapGainTouch ==
  ASSUME TypeOK, LeaseInv, NEW p \in Procs, NEW r \in Results, GainTouch(p, r)
  PROVE  Ownership!ONext
<1>0. gain[p].id \in Tasks /\ gain[p].ver \in Nat /\ Touch(gain[p], r) /\ gain[p].at = "found"
  BY DEF GainTouch, TypeOK, Gain
<1>1. PICK i \in Tasks, v \in Nat : i = gain[p].id /\ v = gain[p].ver
  BY <1>0
<1>2. \/ doc' = doc /\ DueTasks' = DueTasks /\ r = "failed"
      \/ /\ r # "failed" /\ doc[i].ver = v /\ doc[i].st = "ON"
         /\ doc'[i].ver = v + 1
         /\ \A s \in Tasks \ {i} : doc'[s] = doc[s]
         /\ DueTasks' = DueTasks \ {i}
         /\ \A l \in Leases : (Holds(l) /\ lease[l].id = i) => lease[l].ver # v + 1
  <2> DEFINE c == gain[p]
  <2>1. c.id \in Tasks /\ c.ver \in Nat /\ Touch(c, r)
    BY <1>0
  <2> HIDE DEF c
  <2>2. \/ doc' = doc /\ DueTasks' = DueTasks /\ r = "failed"
        \/ /\ r # "failed" /\ doc[c.id].ver = c.ver /\ doc[c.id].st = "ON"
           /\ doc'[c.id].ver = c.ver + 1
           /\ \A s \in Tasks \ {c.id} : doc'[s] = doc[s]
           /\ DueTasks' = DueTasks \ {c.id}
           /\ \A l \in Leases : (Holds(l) /\ lease[l].id = c.id) => lease[l].ver # c.ver + 1
    BY <2>1, MapTouch
  <2>3. c.id = i /\ c.ver = v
    BY <1>1 DEF c
  <2> QED  BY <2>2, <2>3
<1>3. CASE r = "failed"
  <2>1. doc' = doc /\ lease' = lease
    BY <1>2, <1>3 DEF GainTouch
  <2> QED  BY <1>2, <1>3, <2>1, MapLose DEF Owners, Current, Holds
<1>4. CASE r = "unknown"
  <2>1. lease' = lease
    BY <1>4 DEF GainTouch
  <2>2. Owners(i)' = {}
    BY <1>2, <1>4, <2>1 DEF Owners, Current, Holds
  <2>3. \A s \in Tasks \ {i} : Owners(s)' = Owners(s)
    BY <1>2, <1>4, <2>1 DEF Owners, Current, Holds
  <2> QED  BY <1>2, <1>4, <2>2, <2>3, MapReset
<1>5. CASE r = "ok"
  <2>1. PICK n \in Leases : Free(n) /\ lease' = [lease EXCEPT ![n] =
               [id |-> gain[p].id, ver |-> gain[p].ver + 1, cfg |-> gain[p].cfg,
                do |-> "work", ka |-> "check", cancelled |-> FALSE,
                fresh |-> gain[p].fresh, clean |-> gain[p].fresh, gap |-> 0, lag |-> 0]]
    BY <1>5, Zenon DEF GainTouch
  <2>2. /\ \A l \in Leases \ {n} : lease'[l] = lease[l]
        /\ lease'[n].id = i /\ lease'[n].ver = v + 1 /\ lease'[n].ka = "check"
        /\ lease'[n].fresh = gain[p].fresh /\ lease[n].ka = "none"
    BY <1>1, <2>1 DEF TypeOK, Free
  <2>3. /\ \A s \in Tasks \ {i} : Owners(s)' = Owners(s)
        /\ Owners(i)' \subseteq {n}
        /\ n \in Owners(i)' <=> gain[p].fresh
    <3>1. Holds(n)' <=> gain[p].fresh
      BY <2>2 DEF Holds
    <3>2. /\ doc'[i].ver = v + 1 /\ doc[i].ver = v
          /\ \A s \in Tasks \ {i} : doc'[s] = doc[s]
          /\ \A l \in Leases : (Holds(l) /\ lease[l].id = i) => lease[l].ver # v + 1
      BY <1>2, <1>5
    <3>3. /\ \A s \in Tasks \ {i} : Owners(s)' = Owners(s)
          /\ Owners(i)' \subseteq {n}
          /\ n \in Owners(i)' <=> (Holds(n)' /\ lease'[n].ver = v + 1)
      <4>1. \A l \in Leases \ {n} : lease'[l] = lease[l]
        BY <2>2
      <4>2. (lease[n].ka = "none" \/ lease[n].id = i) /\ (lease'[n].ka = "none" \/ lease'[n].id = i)
        BY <2>2
      <4> QED  BY <3>2, <4>1, <4>2, OwnersAfterTouch
    <3> QED  BY <2>2, <3>1, <3>3
  <2>4. CASE gain[p].fresh
    <3>1. Owners(i)' = {n}
      BY <2>3, <2>4
    <3>2. i \in DueTasks
      BY <1>0, <1>1, <1>2, <1>5, <2>4 DEF LeaseInv, FoundIsDue, DueTasks
    <3>3. Ownership!Acquire(i, n)
      BY <1>2, <1>5, <2>3, <3>1, <3>2 DEF Ownership!Acquire
    <3> QED  BY <3>3 DEF Ownership!ONext
  <2>5. CASE ~gain[p].fresh
    <3>1. Owners(i)' = {}
      BY <2>3, <2>5
    <3> QED  BY <1>2, <1>5, <2>3, <3>1, MapReset
  <2> QED  BY <2>4, <2>5
<1> QED  BY <1>3, <1>4, <1>5 DEF Results

LEMMA MapKeepAliveTouch ==
  ASSUME TypeOK, LeaseInv, NEW n \in Leases, NEW r \in Results, KeepAliveTouch(n, r)
  PROVE  Ownership!ONext
<1>0. lease[n].id \in Tasks /\ lease[n].ver \in Nat /\ Touch(lease[n], r)
      /\ lease[n].ka = "touch"
  BY DEF KeepAliveTouch, TypeOK, Lease
<1>1. PICK i \in Tasks, v \in Nat : i = lease[n].id /\ v = lease[n].ver
  BY <1>0
<1>2. \/ doc' = doc /\ DueTasks' = DueTasks /\ r = "failed"
      \/ /\ r # "failed" /\ doc[i].ver = v /\ doc[i].st = "ON"
         /\ doc'[i].ver = v + 1
         /\ \A s \in Tasks \ {i} : doc'[s] = doc[s]
         /\ DueTasks' = DueTasks \ {i}
         /\ \A l \in Leases : (Holds(l) /\ lease[l].id = i) => lease[l].ver # v + 1
  <2> DEFINE c == lease[n]
  <2>1. c.id \in Tasks /\ c.ver \in Nat /\ Touch(c, r)
    BY <1>0
  <2> HIDE DEF c
  <2>2. \/ doc' = doc /\ DueTasks' = DueTasks /\ r = "failed"
        \/ /\ r # "failed" /\ doc[c.id].ver = c.ver /\ doc[c.id].st = "ON"
           /\ doc'[c.id].ver = c.ver + 1
           /\ \A s \in Tasks \ {c.id} : doc'[s] = doc[s]
           /\ DueTasks' = DueTasks \ {c.id}
           /\ \A l \in Leases : (Holds(l) /\ lease[l].id = c.id) => lease[l].ver # c.ver + 1
    BY <2>1, MapTouch
  <2>3. c.id = i /\ c.ver = v
    BY <1>1 DEF c
  <2> QED  BY <2>2, <2>3
<1>3. \A l \in Leases \ {n} : lease'[l] = lease[l]
  BY DEF KeepAliveTouch, TypeOK
<1>4. CASE r # "ok"
  <2>1. lease' = [lease EXCEPT ![n] =
                   Left([@ EXCEPT !.ka = "none", !.cancelled = TRUE, !.gap = 0])]
    BY <1>4 DEF KeepAliveTouch
  <2>2. lease'[n].ka = "none"
    BY <2>1 DEF Left, NoLease, TypeOK, Lease
  <2>3. CASE r = "failed"
    <3>1. \A s \in Tasks : Owners(s)' \subseteq Owners(s)
      BY <1>2, <1>3, <2>2, <2>3 DEF Owners, Current, Holds
    <3> QED  BY <1>2, <2>3, <3>1, MapLose
  <2>4. CASE r # "failed"
    <3>1. /\ \A s \in Tasks \ {i} : Owners(s)' = Owners(s)
          /\ Owners(i)' \subseteq {n}
          /\ n \in Owners(i)' <=> (Holds(n)' /\ lease'[n].ver = v + 1)
      BY <1>1, <1>2, <1>3, <2>2, <2>4, OwnersAfterTouch
    <3>2. Owners(i)' = {}
      BY <2>2, <3>1 DEF Holds
    <3> QED  BY <1>2, <2>4, <3>1, <3>2, MapReset
  <2> QED  BY <2>3, <2>4
<1>5. CASE r = "ok"
  <2>1. lease' = [lease EXCEPT ![n] =
                   [@ EXCEPT !.ka = "sleep", !.ver = lease[n].ver + 1, !.gap = 0]]
    BY <1>5 DEF KeepAliveTouch
  <2>2. /\ lease'[n].id = i /\ lease'[n].ver = v + 1 /\ lease'[n].ka = "sleep"
        /\ lease'[n].fresh = lease[n].fresh
    BY <1>1, <2>1 DEF TypeOK, Lease
  <2>3. /\ \A s \in Tasks \ {i} : Owners(s)' = Owners(s)
        /\ Owners(i)' \subseteq {n}
        /\ n \in Owners(i)' <=> lease[n].fresh
    <3>1. Holds(n)' <=> lease[n].fresh
      BY <2>2 DEF Holds
    <3> QED  BY <1>1, <1>2, <1>3, <1>5, <2>2, <3>1, OwnersAfterTouch
  <2>4. CASE lease[n].fresh
    <3>1. Owners(i)' = {n}
      BY <2>3, <2>4
    <3>2. n \in Owners(i)
      BY <1>0, <1>1, <1>2, <1>5, <2>4 DEF Owners, Current, Holds
    <3>3. Owners(i) = {n}
      BY <3>2, SingleOwner
    <3>4. \A s \in Tasks : Owners(s)' = Owners(s)
      BY <2>3, <3>1, <3>3
    <3>5. Ownership!Renew(i, n)
      BY <1>2, <1>5, <3>3, <3>4 DEF Ownership!Renew
    <3> QED  BY <3>5 DEF Ownership!ONext
  <2>5. CASE ~lease[n].fresh
    <3>1. Owners(i)' = {}
      BY <2>3, <2>5
    <3> QED  BY <1>2, <1>5, <2>3, <3>1, MapReset
  <2> QED  BY <2>4, <2>5
<1> QED  BY <1>4, <1>5

\* A dashboard write leaves the task without an owner.
LEMMA WriteOwners ==
  ASSUME TypeOK, NEW t \in Tasks, NEW d, Write(t, d)
  PROVE  Owners(t)' = {} /\ \A s \in Tasks \ {t} : Owners(s)' = Owners(s)
<1>1. \A s \in Tasks \ {t} : doc'[s] = doc[s]
  BY DEF Write, TypeOK
<1>2. \A l \in Leases : IF lease[l].id = t THEN lease'[l].id = t /\ ~lease'[l].fresh
                        ELSE lease'[l] = lease[l]
  BY DEF Write, TypeOK, Lease
<1>3. Owners(t)' = {}
  BY <1>2 DEF Owners, Current, Holds
<1>4. ASSUME NEW s \in Tasks \ {t} PROVE Owners(s)' = Owners(s)
  BY <1>1, <1>2, <1>4 DEF Owners, Current, Holds
<1> QED  BY <1>3, <1>4

LEMMA MapDashboard ==
  ASSUME TypeOK, LeaseInv, Dashboard
  PROVE  Ownership!ONext
<1>1. PICK t \in Tasks :
        \/ \E c \in Configs, s \in Status : PostTasks(t, c, s)
        \/ \E c \in Configs, s \in Status : PutTasks(t, c, s)
        \/ DeleteTasks(t)
        \/ \E s \in Status : StatusCheck(t, s)
        \/ \E s \in Status : StatusWrite(t, s)
  BY DEF Dashboard
<1>2. doc[t] \in Doc
  BY DEF TypeOK
<1>3. \/ \E d : d.age = 0 /\ Write(t, d)
      \/ \E d : d.age = doc[t].age /\ Write(t, d)
      \/ UNCHANGED <<doc, gain, lease>>
  <2>1. ASSUME NEW c \in Configs, NEW s \in Status, PostTasks(t, c, s) \/ PutTasks(t, c, s)
        PROVE  \E d : d.age = 0 /\ Write(t, d)
    <3>1. [st |-> s, ver |-> 0, age |-> 0, cfg |-> c].age = 0
      OBVIOUS
    <3> QED  BY <2>1, <3>1 DEF PostTasks, PutTasks
  <2>2. ASSUME DeleteTasks(t) PROVE \E d : d.age = doc[t].age /\ Write(t, d)
    <3>1. [doc[t] EXCEPT !.st = "none"].age = doc[t].age
      BY <1>2 DEF Doc
    <3> QED  BY <2>2, <3>1 DEF DeleteTasks
  <2>3. ASSUME NEW s \in Status, StatusWrite(t, s)
        PROVE  (\E d : d.age = 0 /\ Write(t, d)) \/ UNCHANGED <<doc, gain, lease>>
    <3>1. [doc[t] EXCEPT !.st = s, !.ver = 0, !.age = 0].age = 0
      BY <1>2 DEF Doc
    <3> QED  BY <2>3, <3>1 DEF StatusWrite
  <2>4. ASSUME NEW s \in Status, StatusCheck(t, s) PROVE UNCHANGED <<doc, gain, lease>>
    BY <2>4 DEF StatusCheck
  <2> QED  BY <1>1, <2>1, <2>2, <2>3, <2>4
<1>4. ASSUME NEW d, Write(t, d) PROVE doc'[t] = d /\ \A s \in Tasks \ {t} : doc'[s] = doc[s]
  BY <1>4 DEF Write, TypeOK
<1>5. ASSUME NEW d, d.age = 0, Write(t, d) PROVE Ownership!ONext
  <2>1. DueTasks' = DueTasks \ {t}
    BY <1>4, <1>5, LeaseAssumption DEF DueTasks
  <2> QED  BY <1>5, <2>1, WriteOwners, MapReset
<1>6. ASSUME NEW d, d.age = doc[t].age, Write(t, d) PROVE Ownership!ONext
  <2>1. DueTasks' = DueTasks
    BY <1>4, <1>6 DEF DueTasks
  <2>2. \A s \in Tasks : Owners(s)' \subseteq Owners(s)
    BY <1>6, WriteOwners
  <2> QED  BY <2>1, <2>2, MapLose
<1>7. CASE UNCHANGED <<doc, gain, lease>>
  BY <1>7, MapLose DEF DueTasks, Owners, Current, Holds
<1> QED  BY <1>3, <1>5, <1>6, <1>7

LEMMA MapTick ==
  ASSUME TypeOK, Tick
  PROVE  Ownership!ONext
<1>1. \A t \in Tasks : doc'[t].ver = doc[t].ver /\ doc'[t].age >= doc[t].age
                       /\ doc[t].age \in Int /\ doc'[t].age \in Int
  <2> SUFFICES ASSUME NEW t \in Tasks
               PROVE  /\ Aged(doc[t]).ver = doc[t].ver /\ Aged(doc[t]).age >= doc[t].age
                      /\ doc[t].age \in Int /\ Aged(doc[t]).age \in Int
    BY DEF Tick
  <2>1. doc[t] \in Doc /\ doc[t].age \in Int
    BY LeaseAssumption DEF TypeOK, Doc
  <2> QED  BY <2>1 DEF Aged, Doc
<1>2. \A l \in Leases : /\ lease'[l].id = lease[l].id /\ lease'[l].ver = lease[l].ver
                        /\ lease'[l].ka = lease[l].ka /\ lease'[l].fresh = lease[l].fresh
  <2> SUFFICES ASSUME NEW l \in Leases
               PROVE  /\ lease'[l].id = lease[l].id /\ lease'[l].ver = lease[l].ver
                      /\ lease'[l].ka = lease[l].ka /\ lease'[l].fresh = lease[l].fresh
    OBVIOUS
  <2>1. lease[l] \in Lease
    BY DEF TypeOK
  <2> QED  BY <2>1 DEF Tick, Lease
<1>3. \A s \in Tasks : Owners(s)' = Owners(s)
  BY <1>1, <1>2 DEF Owners, Current, Holds
<1>4. PICK S \in SUBSET Tasks : S = DueTasks'
  <2>1. DueTasks' \in SUBSET Tasks
    BY DEF DueTasks
  <2> QED  BY <2>1
<1>5. DueTasks \subseteq S
  BY <1>1, <1>4, LeaseAssumption DEF DueTasks
<1>6. Ownership!Expire(S)
  BY <1>3, <1>4, <1>5 DEF Ownership!Expire
<1> QED  BY <1>6 DEF Ownership!ONext

\* The steps that leave the store alone only make owners disappear.
LEMMA MapQuiet ==
  ASSUME TypeOK, LeaseInv, Quiet
  PROVE  Ownership!ONext
<1>1. /\ doc' = doc
      /\ \A l \in Leases : \/ lease'[l].ka = "none"
                           \/ /\ lease[l].ka # "none" /\ lease'[l].fresh = lease[l].fresh
                              /\ lease'[l].id = lease[l].id /\ lease'[l].ver = lease[l].ver
  BY QuietSteps
<1>2. \A t \in Tasks : Owners(t)' \subseteq Owners(t)
  BY <1>1 DEF Owners, Current, Holds
<1> QED  BY <1>1, <1>2, MapLose DEF DueTasks

LEMMA MapStep == TypeOK /\ LeaseInv /\ [Next]_vars => [Ownership!ONext]_(Ownership!ovars)
<1> SUFFICES ASSUME TypeOK, LeaseInv, [Next]_vars
             PROVE  Ownership!ONext \/ UNCHANGED Ownership!ovars
  OBVIOUS
<1>1. ASSUME NEW p \in Procs, NEW t \in Tasks, GainFind(p, t) PROVE Ownership!ONext
  BY <1>1, MapLose DEF GainFind, DueTasks, Owners, Current, Holds
<1>2. CASE UNCHANGED vars
  BY <1>2 DEF vars, Ownership!ovars, DueTasks, Owners, Current, Holds
<1> QED
  BY <1>1, <1>2, MapGainTouch, MapKeepAliveTouch, MapDashboard, MapTick, MapQuiet
  DEF Next, Analyzer, Quiet

(***************************************************************************)
(* The lease protocol implements single ownership: a KeepAlive that can    *)
(* renew its task is its only owner, took it when it was due, and loses it *)
(* to a dashboard write, to another process or by ending.                  *)
(***************************************************************************)
THEOREM Refinement == Spec => ImplementsOwnership
<1>1. Init => Ownership!OInit
  BY MapInit
<1>2. TypeOK /\ LeaseInv /\ [Next]_vars => [Ownership!ONext]_(Ownership!ovars)
  BY MapStep
<1>3. Spec => []TypeOK
  BY TypeCorrect
<1>4. Spec => []LeaseInv
  BY LeaseInvariant
<1> QED  BY <1>1, <1>2, <1>3, <1>4, PTL DEF Spec, ImplementsOwnership, Ownership!OSpec
=============================================================================
