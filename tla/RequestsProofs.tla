---------------------------- MODULE RequestsProofs ----------------------------
(***************************************************************************)
(* What the run Requests checks of the requests of the dashboard and the   *)
(* clients of its services, for any requests, exports, events and times.   *)
(* The components share no state: each has an inductive invariant of its   *)
(* own, under the part of MCSpec it is.                                    *)
(***************************************************************************)
EXTENDS MCRequests, FiniteSetTheorems, SequenceTheorems, TLAPS

(***************************************************************************)
(* Facts of numbers and finite sets.                                       *)
(***************************************************************************)
\* The smallest of some numbers.
LEMMA Smallest ==
  ASSUME NEW T \in SUBSET Nat, T # {}
  PROVE  \E m \in T : \A n \in T : m <= n
<1> DEFINE R == {p \in Nat \X Nat : p[1] < p[2]}
<1>1. IsWellFoundedOn(R, Nat)
  BY NatLessThanWellFounded DEF OpToRel
<1> HIDE DEF R
<1>2. PICK m \in T : \A n \in T : ~(<<n, m>> \in R)
  BY <1>1, WFMin
<1>3. ASSUME NEW n \in T PROVE m <= n
  <2>1. ~(<<n, m>> \in R) /\ n \in Nat /\ m \in Nat
    BY <1>2
  <2>2. ~(n < m)
    BY <2>1 DEF R
  <2> QED
    BY <2>1, <2>2
<1> QED
  BY <1>3

\* An instance has operators of its own on finite sets: they are the same.
LEMMA PCardinality == \A T : P!Cardinality(T) = Cardinality(T)
BY DEF P!Cardinality, Cardinality

-----------------------------------------------------------------------------
(***************************************************************************)
(* Marks and deletions. A request has answered as many ids as it has gone  *)
(* through, and every id it has told as a success has been left as a       *)
(* request that has answered it would leave it. An update never brings an  *)
(* event back, so a deleted one stays so.                                  *)
(***************************************************************************)
RequestTypes ==
  [kind : Q!Kinds \cup {"none"},
   at : {"idle", "get", "update", "delete", "ok", "error"},
   ids : qIdLists \cup {<<>>}, success : Seq(Q!GivenIds), fail : Seq(Q!GivenIds)]

Marks == {"init", "illegal", "discard", "gone"}

Answering(q) == q.at \in {"get", "update", "delete"}
AnsweredIds(q) == Q!ToSet(q.success) \cup Q!ToSet(q.fail)

\* Where a request is tells what it is and how many ids it has answered.
OnItsWay(q) ==
  /\ q.at = "idle" => q.success = <<>> /\ q.fail = <<>>
  /\ q.at \in {"get", "update"} => q.kind \in {"illegal", "discard"}
  /\ q.at = "delete" => q.kind = "delete"
  /\ Answering(q) => Len(q.success) + Len(q.fail) < Len(q.ids)
  /\ q.at = "ok" => Len(q.success) + Len(q.fail) = Len(q.ids)

\* What a request tells of an event is so.
SuccessIsTrue(r, e) ==
  e \in Q!ToSet(qReq[r].success) =>
    /\ qReq[r].kind = "delete" => qMarking[e] = "gone"
    /\ \E s \in qRequests : /\ Q!Left(qReq[s].kind) = qMarking[e]
                            /\ e \in AnsweredIds(qReq[s])

MarksInv ==
  /\ qMarking \in [qEvents -> Marks]
  /\ qReq \in [qRequests -> RequestTypes]
  /\ \A r \in qRequests : OnItsWay(qReq[r])
  /\ \A r \in qRequests, e \in qEvents : SuccessIsTrue(r, e)

\* A list with an id more has that id more.
LEMMA AppendAdds ==
  ASSUME NEW T, NEW s \in Seq(T), NEW x \in T
  PROVE  /\ Append(s, x) \in Seq(T) /\ Len(Append(s, x)) = Len(s) + 1
         /\ Q!ToSet(Append(s, x)) = Q!ToSet(s) \cup {x}
<1> DEFINE t == Append(s, x)
<1>1. t \in Seq(T) /\ Len(t) = Len(s) + 1 /\ Len(s) \in Nat /\ t[Len(s) + 1] = x
      /\ \A i \in 1..Len(s) : t[i] = s[i]
  OBVIOUS
<1>2. DOMAIN s = 1..Len(s) /\ DOMAIN t = 1..Len(t)
  BY <1>1
<1> HIDE DEF t
<1>3. ASSUME NEW e \in Q!ToSet(t) PROVE e \in Q!ToSet(s) \cup {x}
  <2>1. PICK i \in 1..Len(t) : e = t[i]
    BY <1>2, <1>3 DEF Q!ToSet
  <2>2. CASE i = Len(s) + 1
    BY <1>1, <2>1, <2>2
  <2>3. CASE i # Len(s) + 1
    <3>1. i \in 1..Len(s)
      BY <1>1, <2>1, <2>3
    <3> QED
      BY <1>1, <1>2, <2>1, <3>1 DEF Q!ToSet
  <2> QED
    BY <2>2, <2>3
<1>4. ASSUME NEW e \in Q!ToSet(s) PROVE e \in Q!ToSet(t)
  <2>1. PICK i \in 1..Len(s) : e = s[i]
    BY <1>2, <1>4 DEF Q!ToSet
  <2>2. i \in 1..Len(t) /\ e = t[i]
    BY <1>1, <2>1
  <2> QED
    BY <1>2, <2>2 DEF Q!ToSet
<1>5. x \in Q!ToSet(t)
  <2>1. Len(s) + 1 \in 1..Len(t)
    BY <1>1
  <2> QED
    BY <1>1, <1>2, <2>1 DEF Q!ToSet
<1>6. Q!ToSet(t) = Q!ToSet(s) \cup {x}
  BY <1>3, <1>4, <1>5
<1> QED
  BY <1>1, <1>6 DEF t

\* The id a request works on is one it was given.
LEMMA IdIsGiven ==
  ASSUME NEW q \in RequestTypes, OnItsWay(q), Answering(q)
  PROVE  /\ Q!Id(q) \in Q!GivenIds /\ q.ids \in Seq(Q!GivenIds)
         /\ Len(q.success) \in Nat /\ Len(q.fail) \in Nat /\ Len(q.ids) \in Nat
<1>1. q.ids \in Seq(Q!GivenIds) /\ q.success \in Seq(Q!GivenIds) /\ q.fail \in Seq(Q!GivenIds)
  <2>1. <<>> \in Seq(Q!GivenIds)
    OBVIOUS
  <2>2. q.ids \in qIdLists \cup {<<>>} /\ q.success \in Seq(Q!GivenIds) /\ q.fail \in Seq(Q!GivenIds)
    BY DEF RequestTypes
  <2> QED
    BY <2>1, <2>2, RequestsAssumption
<1>2. Len(q.success) \in Nat /\ Len(q.fail) \in Nat /\ Len(q.ids) \in Nat
  BY <1>1
<1>3. Q!Index(q) \in 1..Len(q.ids)
  <2>1. Q!Index(q) = Len(q.success) + Len(q.fail) + 1
    BY DEF Q!Index
  <2>2. Len(q.success) + Len(q.fail) < Len(q.ids)
    BY DEF OnItsWay
  <2>3. \A a, b, n \in Nat : a + b < n => a + b + 1 \in 1..n
    OBVIOUS
  <2> QED
    BY <1>2, <2>1, <2>2, <2>3, Zenon
<1> QED
  BY <1>1, <1>2, <1>3 DEF Q!Id

\* Proceed answers the id, in one of the lists, and keeps the request on its way.
LEMMA ProceedAnswers ==
  ASSUME NEW q \in RequestTypes, OnItsWay(q), Answering(q), NEW ok \in BOOLEAN
  PROVE  /\ Q!Proceed(q, ok) \in RequestTypes /\ OnItsWay(Q!Proceed(q, ok))
         /\ Q!Proceed(q, ok).kind = q.kind
         /\ AnsweredIds(Q!Proceed(q, ok)) = AnsweredIds(q) \cup {Q!Id(q)}
         /\ Q!ToSet(Q!Proceed(q, ok).success)
              = Q!ToSet(q.success) \cup (IF ok THEN {Q!Id(q)} ELSE {})
<1> DEFINE p == Q!Proceed(q, ok)
           id == Q!Id(q)
           succeeded == IF ok THEN Append(q.success, id) ELSE q.success
           failed == IF ok THEN q.fail ELSE Append(q.fail, id)
           at == IF Q!Index(q) < Len(q.ids) THEN IF q.kind = "delete" THEN "delete" ELSE "get"
                 ELSE IF q.kind = "delete" /\ ~ok THEN "error" ELSE "ok"
           done == [q EXCEPT !.success = succeeded, !.fail = failed]
<1>1. /\ id \in Q!GivenIds /\ q.ids \in Seq(Q!GivenIds)
      /\ Len(q.success) \in Nat /\ Len(q.fail) \in Nat /\ Len(q.ids) \in Nat
  BY IdIsGiven
<1>2. q.success \in Seq(Q!GivenIds) /\ q.fail \in Seq(Q!GivenIds)
  BY DEF RequestTypes
<1>3. /\ succeeded \in Seq(Q!GivenIds) /\ failed \in Seq(Q!GivenIds)
      /\ Len(succeeded) + Len(failed) = Len(q.success) + Len(q.fail) + 1
      /\ Q!ToSet(succeeded) = Q!ToSet(q.success) \cup (IF ok THEN {id} ELSE {})
      /\ Q!ToSet(failed) = Q!ToSet(q.fail) \cup (IF ok THEN {} ELSE {id})
  <2>1. /\ Append(q.success, id) \in Seq(Q!GivenIds)
        /\ Len(Append(q.success, id)) = Len(q.success) + 1
        /\ Q!ToSet(Append(q.success, id)) = Q!ToSet(q.success) \cup {id}
    BY <1>1, <1>2, AppendAdds
  <2>2. /\ Append(q.fail, id) \in Seq(Q!GivenIds)
        /\ Len(Append(q.fail, id)) = Len(q.fail) + 1
        /\ Q!ToSet(Append(q.fail, id)) = Q!ToSet(q.fail) \cup {id}
    BY <1>1, <1>2, AppendAdds
  <2> HIDE DEF id
  <2>3. CASE ok
    <3>1. succeeded = Append(q.success, id) /\ failed = q.fail
      BY <2>3
    <3> HIDE DEF succeeded, failed
    <3>2. succeeded \in Seq(Q!GivenIds) /\ failed \in Seq(Q!GivenIds)
      BY <1>2, <2>1, <3>1
    <3>3. Len(succeeded) + Len(failed) = Len(q.success) + Len(q.fail) + 1
      <4>1. \A a, b \in Nat : (a + 1) + b = a + b + 1
        OBVIOUS
      <4> QED
        BY <1>1, <2>1, <3>1, <4>1, Zenon
    <3>4. /\ Q!ToSet(succeeded) = Q!ToSet(q.success) \cup {id}
          /\ Q!ToSet(failed) = Q!ToSet(q.fail)
      BY <2>1, <3>1
    <3> QED
      BY <2>3, <3>2, <3>3, <3>4
  <2>4. CASE ~ok
    <3>1. succeeded = q.success /\ failed = Append(q.fail, id)
      BY <2>4
    <3> HIDE DEF succeeded, failed
    <3>2. succeeded \in Seq(Q!GivenIds) /\ failed \in Seq(Q!GivenIds)
      BY <1>2, <2>2, <3>1
    <3>3. Len(succeeded) + Len(failed) = Len(q.success) + Len(q.fail) + 1
      <4>1. \A a, b \in Nat : a + (b + 1) = a + b + 1
        OBVIOUS
      <4> QED
        BY <1>1, <2>2, <3>1, <4>1, Zenon
    <3>4. /\ Q!ToSet(succeeded) = Q!ToSet(q.success)
          /\ Q!ToSet(failed) = Q!ToSet(q.fail) \cup {id}
      BY <2>2, <3>1
    <3> QED
      BY <2>4, <3>2, <3>3, <3>4
  <2> QED
    BY <2>3, <2>4
<1>4. p = [done EXCEPT !.at = at]
  BY DEF Q!Proceed
<1>5. at \in {"get", "delete", "ok", "error"}
  OBVIOUS
<1> HIDE DEF p, succeeded, failed, at
<1>6. done \in RequestTypes /\ done.success = succeeded /\ done.fail = failed
      /\ done.kind = q.kind /\ done.ids = q.ids
  BY <1>3 DEF RequestTypes
<1> HIDE DEF done
<1>7. /\ p \in RequestTypes /\ p.success = succeeded /\ p.fail = failed
      /\ p.kind = q.kind /\ p.ids = q.ids /\ p.at = at
  BY <1>4, <1>5, <1>6 DEF RequestTypes
<1>8. OnItsWay(p)
  <2> DEFINE answered == Len(p.success) + Len(p.fail)
  <2>1. answered = Q!Index(q)
    BY <1>3, <1>7 DEF Q!Index
  <2>6. answered \in Nat /\ answered <= Len(q.ids) /\ Len(p.ids) = Len(q.ids)
    <3>1. \A a, b, n \in Nat : a + b < n => a + b + 1 \in Nat /\ a + b + 1 <= n
      OBVIOUS
    <3>2. Len(q.success) + Len(q.fail) < Len(q.ids)
      BY DEF OnItsWay
    <3>3. answered = Len(q.success) + Len(q.fail) + 1
      BY <2>1 DEF Q!Index
    <3> HIDE DEF answered
    <3> QED
      BY <1>1, <1>7, <3>1, <3>2, <3>3, Zenon
  <2>2. q.kind \in {"illegal", "discard", "delete"}
    BY DEF OnItsWay, Answering
  <2>3. at \in {"get", "delete"} => Q!Index(q) < Len(q.ids)
    BY DEF at
  <2>4. at = "ok" => ~(Q!Index(q) < Len(q.ids))
    BY DEF at
  <2>5. (at = "get" => q.kind # "delete") /\ (at = "delete" => q.kind = "delete")
    BY DEF at
  <2>7. /\ p.at \in {"get", "delete"} => answered < Len(p.ids)
        /\ p.at = "ok" => answered = Len(p.ids)
    <3> HIDE DEF answered
    <3> QED
      BY <1>1, <1>7, <2>1, <2>3, <2>4, <2>6
  <2>8. p.at = "get" => p.kind \in {"illegal", "discard"}
    BY <1>7, <2>2, <2>5
  <2>9. p.at = "delete" => p.kind = "delete"
    BY <1>7, <2>5
  <2>10. p.at \in {"get", "delete", "ok", "error"}
    BY <1>5, <1>7
  <2> QED
    BY <2>7, <2>8, <2>9, <2>10 DEF OnItsWay, Answering
<1>9. AnsweredIds(p) = AnsweredIds(q) \cup {id}
  BY <1>3, <1>7 DEF AnsweredIds
<1> QED
  BY <1>3, <1>7, <1>8, <1>9 DEF p

LEMMA NothingAnswered == AnsweredIds(Q!NoRequest) = {} /\ Q!ToSet(<<>>) = {}
  BY DEF AnsweredIds, Q!NoRequest, Q!ToSet

LEMMA MarksInvInit == Q!Init => MarksInv
<1> SUFFICES ASSUME Q!Init PROVE MarksInv
  OBVIOUS
<1>1. Q!NoRequest \in RequestTypes
  <2>1. <<>> \in Seq(Q!GivenIds)
    OBVIOUS
  <2> QED
    BY <2>1 DEF Q!NoRequest, RequestTypes, Q!Kinds
<1>2. OnItsWay(Q!NoRequest)
  BY DEF OnItsWay, Answering, Q!NoRequest
<1>3. Q!NoRequest.success = <<>>
  BY DEF Q!NoRequest
<1>4. \A r \in qRequests, e \in qEvents : SuccessIsTrue(r, e)
  BY <1>3, NothingAnswered DEF Q!Init, SuccessIsTrue
<1> QED
  BY <1>1, <1>2, <1>4 DEF Q!Init, MarksInv, Marks

\* A request answers an id: it leaves the marks alone and has failed, or it marks the id.
LEMMA AnswerKeepsMarks ==
  ASSUME MarksInv, NEW r \in qRequests, Answering(qReq[r]), NEW ok \in BOOLEAN,
         Q!Answered(r, ok),
         \/ ~ok /\ UNCHANGED qMarking
         \/ /\ Q!Stored(Q!Id(qReq[r]))
            /\ qMarking' = [qMarking EXCEPT ![Q!Id(qReq[r])] = Q!Left(qReq[r].kind)]
  PROVE  MarksInv'
<1> DEFINE q == qReq[r]
           id == Q!Id(q)
           p == Q!Proceed(q, ok)
<1>1. q \in RequestTypes /\ OnItsWay(q)
  BY DEF MarksInv
<1>2. /\ p \in RequestTypes /\ OnItsWay(p) /\ p.kind = q.kind
      /\ AnsweredIds(p) = AnsweredIds(q) \cup {id}
      /\ Q!ToSet(p.success) = Q!ToSet(q.success) \cup (IF ok THEN {id} ELSE {})
  BY <1>1, ProceedAnswers
<1>3. qReq' = [qReq EXCEPT ![r] = p]
  BY DEF Q!Answered
<1>4. q.kind \in {"illegal", "discard", "delete"}
  BY <1>1 DEF OnItsWay, Answering
<1>5. Q!Left(q.kind) \in Marks /\ (q.kind = "delete" => Q!Left(q.kind) = "gone")
  BY <1>4 DEF Q!Left, Marks
<1> HIDE DEF p
<1>6. /\ qReq' \in [qRequests -> RequestTypes]
      /\ \A s \in qRequests : OnItsWay(qReq'[s])
      /\ qReq'[r] = p /\ \A s \in qRequests \ {r} : qReq'[s] = qReq[s]
  BY <1>2, <1>3 DEF MarksInv
<1>7. \A s \in qRequests : /\ qReq'[s].kind = qReq[s].kind
                           /\ AnsweredIds(qReq[s]) \subseteq AnsweredIds(qReq'[s])
  BY <1>2, <1>6
<1>8. qMarking' \in [qEvents -> Marks]
  BY <1>5 DEF MarksInv
<1>9. ASSUME NEW s \in qRequests, NEW e \in qEvents, e \in Q!ToSet(qReq'[s].success)
      PROVE  /\ qReq'[s].kind = "delete" => qMarking'[e] = "gone"
             /\ \E t \in qRequests : /\ Q!Left(qReq'[t].kind) = qMarking'[e]
                                     /\ e \in AnsweredIds(qReq'[t])
  <2>1. CASE e = id /\ qMarking' # qMarking
    <3>1. Q!Stored(id) /\ qMarking' = [qMarking EXCEPT ![id] = Q!Left(q.kind)]
      BY <2>1
    <3>2. qMarking'[e] = Q!Left(q.kind) /\ qMarking[e] # "gone"
      BY <2>1, <3>1 DEF MarksInv, Q!Stored
    <3>3. e \in AnsweredIds(qReq'[r]) /\ qReq'[r].kind = q.kind
      BY <1>2, <1>6, <2>1
    <3>4. qReq'[s].kind = "delete" => qMarking'[e] = "gone"
      <4>1. CASE s = r
        BY <1>5, <3>2, <3>3, <4>1
      <4>2. CASE s # r
        <5>1. e \in Q!ToSet(qReq[s].success) /\ qReq'[s] = qReq[s]
          BY <1>6, <1>9, <4>2
        <5>2. SuccessIsTrue(s, e)
          BY DEF MarksInv
        <5> QED
          BY <3>2, <5>1, <5>2 DEF SuccessIsTrue
      <4> QED
        BY <4>1, <4>2
    <3> QED
      BY <3>2, <3>3, <3>4
  <2>2. CASE ~(e = id /\ qMarking' # qMarking)
    <3>1. qMarking'[e] = qMarking[e]
      BY <2>2 DEF MarksInv
    <3>2. CASE e \in Q!ToSet(qReq[s].success)
      <4>1. SuccessIsTrue(s, e)
        BY DEF MarksInv
      <4> QED
        BY <1>7, <3>1, <3>2, <4>1 DEF SuccessIsTrue
    <3>3. CASE e \notin Q!ToSet(qReq[s].success)
      \* The mark it has written was there already.
      <4>1. s = r /\ ok /\ e = id
        BY <1>2, <1>6, <1>9, <3>3
      <4>2. Q!Stored(id) /\ qMarking' = [qMarking EXCEPT ![id] = Q!Left(q.kind)]
        BY <4>1
      <4>3. qMarking'[e] = Q!Left(q.kind)
        BY <4>1, <4>2 DEF MarksInv
      <4>4. e \in AnsweredIds(qReq'[r]) /\ qReq'[r].kind = q.kind
        BY <1>2, <1>6, <4>1
      <4> QED
        BY <1>5, <4>1, <4>3, <4>4
    <3> QED
      BY <3>2, <3>3
  <2> QED
    BY <2>1, <2>2
<1>10. \A s \in qRequests, e \in qEvents : SuccessIsTrue(s, e)'
  BY <1>9 DEF SuccessIsTrue
<1> QED
  BY <1>6, <1>8, <1>10 DEF MarksInv

\* A request that has answered nothing is none of those a mark may come from, and one
\* that has not answered another id tells nothing new.
LEMMA MovesKeepMarks ==
  ASSUME MarksInv, NEW r \in qRequests, NEW q \in RequestTypes, OnItsWay(q),
         qReq' = [qReq EXCEPT ![r] = q], UNCHANGED qMarking,
         Q!ToSet(q.success) = Q!ToSet(qReq[r].success),
         AnsweredIds(q) = AnsweredIds(qReq[r]),
         q.kind = qReq[r].kind \/ AnsweredIds(qReq[r]) = {}
  PROVE  MarksInv'
<1>1. /\ qReq' \in [qRequests -> RequestTypes]
      /\ \A s \in qRequests : OnItsWay(qReq'[s])
      /\ qReq'[r] = q /\ \A s \in qRequests \ {r} : qReq'[s] = qReq[s]
  BY DEF MarksInv
<1>2. \A s \in qRequests : /\ Q!ToSet(qReq'[s].success) = Q!ToSet(qReq[s].success)
                           /\ AnsweredIds(qReq'[s]) = AnsweredIds(qReq[s])
                           /\ qReq'[s].kind = qReq[s].kind \/ AnsweredIds(qReq[s]) = {}
  BY <1>1
<1>3. \A s \in qRequests : Q!ToSet(qReq[s].success) \subseteq AnsweredIds(qReq[s])
  BY DEF AnsweredIds
<1>4. \A s \in qRequests, e \in qEvents : SuccessIsTrue(s, e)
  BY DEF MarksInv
<1>5. \A s \in qRequests, e \in qEvents : SuccessIsTrue(s, e)'
  BY <1>2, <1>3, <1>4 DEF SuccessIsTrue
<1> QED
  BY <1>1, <1>5 DEF MarksInv

LEMMA MarksInvStep == MarksInv /\ [Q!Next]_qVars => MarksInv'
<1> SUFFICES ASSUME MarksInv, [Q!Next]_qVars PROVE MarksInv'
  OBVIOUS
<1>0. \A r \in qRequests : qReq[r] \in RequestTypes /\ OnItsWay(qReq[r])
  BY DEF MarksInv
<1>1. CASE UNCHANGED qVars
  BY <1>1 DEF qVars, MarksInv, SuccessIsTrue
<1>2. ASSUME NEW r \in qRequests, NEW kind \in Q!Kinds, NEW ids \in qIdLists,
             Q!Post(r, kind, ids)
      PROVE  MarksInv'
  <2> DEFINE at == IF ids = <<>> THEN "error" ELSE IF kind = "delete" THEN "delete" ELSE "get"
             q == [Q!NoRequest EXCEPT !.kind = kind, !.ids = ids, !.at = at]
  <2>1. qReq[r].at = "idle" /\ qReq' = [qReq EXCEPT ![r] = q] /\ UNCHANGED qMarking
    BY <1>2 DEF Q!Post
  <2>2. /\ at \in {"error", "delete", "get"}
        /\ at \in {"delete", "get"} => ids # <<>>
        /\ (at = "get" => kind \in {"illegal", "discard"}) /\ (at = "delete" => kind = "delete")
    BY DEF Q!Kinds
  <2> HIDE DEF at
  <2>3. Q!NoRequest \in RequestTypes /\ Q!NoRequest.success = <<>> /\ Q!NoRequest.fail = <<>>
    <3>1. <<>> \in Seq(Q!GivenIds)
      OBVIOUS
    <3> QED
      BY <3>1 DEF Q!NoRequest, RequestTypes, Q!Kinds
  <2>4. /\ q \in RequestTypes /\ q.kind = kind /\ q.ids = ids /\ q.at = at
        /\ q.success = <<>> /\ q.fail = <<>>
    BY <2>2, <2>3 DEF RequestTypes
  <2> HIDE DEF q
  <2>5. OnItsWay(q)
    <3>1. ids \in Seq(Q!GivenIds)
      BY RequestsAssumption
    <3>2. ids # <<>> => 0 < Len(ids)
      BY <3>1
    <3>3. Len(<<>>) = 0 /\ 0 + 0 = 0
      OBVIOUS
    <3> QED
      BY <2>2, <2>4, <3>2, <3>3 DEF OnItsWay, Answering
  <2>6. qReq[r].success = <<>> /\ qReq[r].fail = <<>>
    BY <1>0, <2>1 DEF OnItsWay
  <2>7. /\ AnsweredIds(qReq[r]) = {} /\ AnsweredIds(q) = {}
        /\ Q!ToSet(q.success) = Q!ToSet(qReq[r].success)
    BY <2>4, <2>6, NothingAnswered DEF AnsweredIds
  <2> QED
    BY <2>1, <2>4, <2>5, <2>7, MovesKeepMarks
<1>3. ASSUME NEW r \in qRequests, Q!GetRefuses(r) PROVE MarksInv'
  BY <1>3, AnswerKeepsMarks DEF Q!GetRefuses, Answering
<1>4. ASSUME NEW r \in qRequests, Q!GetYields(r) PROVE MarksInv'
  <2> DEFINE q == [qReq[r] EXCEPT !.at = "update"]
  <2>1. qReq[r].at = "get" /\ qReq' = [qReq EXCEPT ![r] = q] /\ UNCHANGED qMarking
    BY <1>4 DEF Q!GetYields
  <2>2. /\ q \in RequestTypes /\ q.at = "update" /\ q.kind = qReq[r].kind /\ q.ids = qReq[r].ids
        /\ q.success = qReq[r].success /\ q.fail = qReq[r].fail
    BY <1>0 DEF RequestTypes
  <2> HIDE DEF q
  <2>3. OnItsWay(q)
    BY <1>0, <2>1, <2>2 DEF OnItsWay, Answering
  <2> QED
    BY <2>1, <2>2, <2>3, MovesKeepMarks DEF AnsweredIds
<1>5. ASSUME NEW r \in qRequests, Q!Update(r) PROVE MarksInv'
  <2>1. PICK ok \in BOOLEAN : Q!Answered(r, ok)
    BY <1>5 DEF Q!Update
  <2>2. Q!Left(qReq[r].kind) = qReq[r].kind
    BY <1>0, <1>5 DEF Q!Update, OnItsWay, Q!Left
  <2> QED
    BY <1>5, <2>1, <2>2, AnswerKeepsMarks DEF Q!Update, Answering
<1>6. ASSUME NEW r \in qRequests, Q!UpdateFails(r) PROVE MarksInv'
  BY <1>6, AnswerKeepsMarks DEF Q!UpdateFails, Answering
<1>7. ASSUME NEW r \in qRequests, Q!Delete(r) PROVE MarksInv'
  <2>1. PICK ok \in BOOLEAN : Q!Answered(r, ok)
    BY <1>7 DEF Q!Delete
  <2>2. Q!Left(qReq[r].kind) = "gone"
    BY <1>0, <1>7 DEF Q!Delete, OnItsWay, Q!Left
  <2> QED
    BY <1>7, <2>1, <2>2, AnswerKeepsMarks DEF Q!Delete, Answering
<1>8. ASSUME NEW r \in qRequests, Q!DeleteFails(r) PROVE MarksInv'
  BY <1>8, AnswerKeepsMarks DEF Q!DeleteFails, Answering
<1> QED
  BY <1>1, <1>2, <1>3, <1>4, <1>5, <1>6, <1>7, <1>8 DEF Q!Next

LEMMA MarksInvShows == MarksInv => Q!TypeOK /\ Q!MarksAreAnswered
<1> SUFFICES ASSUME MarksInv PROVE Q!TypeOK /\ Q!MarksAreAnswered
  OBVIOUS
<1>1. Q!TypeOK
  BY DEF MarksInv, Q!TypeOK, RequestTypes, Marks
<1>2. ASSUME NEW r \in qRequests, NEW e \in qEvents, Q!Told(r, e)
      PROVE  /\ qReq[r].kind = "delete" => qMarking[e] = "gone"
             /\ \E s \in qRequests : /\ Q!Left(qReq[s].kind) = qMarking[e]
                                     /\ Q!MayHaveDone(s, e)
  BY <1>2 DEF MarksInv, SuccessIsTrue, Q!Told, Q!MayHaveDone, AnsweredIds
<1>3. ASSUME NEW r \in qRequests, qReq[r].at = "ok"
      PROVE  Q!Index(qReq[r]) = Len(qReq[r].ids) + 1
  BY <1>3 DEF MarksInv, OnItsWay, Q!Index
<1> QED
  BY <1>1, <1>2, <1>3 DEF Q!MarksAreAnswered

-----------------------------------------------------------------------------
(***************************************************************************)
(* Exports. What lies in a directory belongs to exports that are named by  *)
(* that second and have made it; one that is alone in it finds of each of  *)
(* its events what its worker has written so far, and nothing else. Every  *)
(* directory has an export that is still to remove it.                     *)
(***************************************************************************)
ExportTypes ==
  [at : {"query", "mkdir", "write", "walk", "remove", "done"},
   dir : X!Seconds \cup {X!None}, job : [xEvents -> X!Jobs], images : [xEvents -> 0..2],
   found : SUBSET X!Entries, answer : {"none", "refused", "zip"}]

\* The stage an export is at, its directory and its answer.
Staged(q) ==
  /\ q.at = "query" => q = X!NoExport
  /\ q.at \in {"mkdir", "write", "walk", "remove"} => q.dir \in X!Seconds
  /\ q.at \in {"mkdir", "write", "walk"} => q.answer = "none"
  /\ q.at = "mkdir" => q.images = [e \in xEvents |-> 0] /\ \A e \in xEvents : q.job[e] \in {"todo", "nothing"}
  /\ q.answer = "zip" => q.at \in {"remove", "done"} /\ q.dir \in X!Seconds

\* No image before its turn.
Counted(q, e) ==
  /\ q.job[e] \in {"todo", "first"} => q.images[e] = 0
  /\ q.job[e] = "second" => q.images[e] \in 0..1

\* What the worker of an event has written when it is where q says.
Written(q, e, files) ==
  /\ q.job[e] \in {"todo", "nothing"} => files = {}
  /\ q.job[e] = "first" => files = {"dir"}
  /\ q.job[e] = "second" => files = IF q.images[e] = 1 THEN {"dir", "first"} ELSE {"dir"}
  /\ q.job[e] = "ini" /\ q.images[e] = 2 => files = {"dir", "first", "second"}
  /\ q.job[e] = "bare" => files = {"dir", "first", "second"}
  /\ q.job[e] = "complete" => files = X!Files

FilesIn(entries, x, e) == {f \in X!Files : <<x, e, f>> \in entries}

Alone(x) == \A y \in xExports \ {x} : xExp[y].dir # xExp[x].dir

Evidence(x) == UNION {{x} \X {e} \X X!Wrote(x, e) : e \in xEvents}

ExportTypesInv ==
  /\ xNow \in X!Seconds /\ xMade \subseteq X!Seconds /\ xCrashed \in BOOLEAN
  /\ xDisk \in [X!Seconds -> SUBSET X!Entries]
  /\ xExp \in [xExports -> ExportTypes]
  /\ \A x \in xExports : Staged(xExp[x]) /\ \A e \in xEvents : Counted(xExp[x], e)

DiskInv ==
  /\ \A s \in X!Seconds : xDisk[s] # {} => s \in xMade
  /\ \A s \in X!Seconds : \A p \in xDisk[s] :
       xExp[p[1]].dir = s /\ xExp[p[1]].at \notin {"query", "mkdir"}
  /\ ~xCrashed => \A s \in xMade : \E x \in xExports :
       xExp[x].dir = s /\ xExp[x].at \in {"write", "walk", "remove"}

\* An export that is alone in its directory.
OwnInv(x) ==
  Alone(x) =>
    /\ xExp[x].at = "write" => \A e \in xEvents :
         Written(xExp[x], e, FilesIn(xDisk[xExp[x].dir], x, e))
    /\ xExp[x].at = "walk" \/ xExp[x].answer = "zip" => xExp[x].found = Evidence(x)

ExportInv == ExportTypesInv /\ DiskInv /\ \A x \in xExports : OwnInv(x)

LEMMA WroteByJob ==
  ASSUME NEW x, NEW e
  PROVE  /\ xExp[x].job[e] = "complete" => X!Wrote(x, e) = X!Files
         /\ xExp[x].job[e] = "bare" => X!Wrote(x, e) = X!Files \ {"ini"}
         /\ xExp[x].job[e] \notin {"complete", "bare"} => X!Wrote(x, e) = {}
<1>1. CASE xExp[x].job[e] = "complete"
  BY <1>1, Zenon DEF X!Wrote
<1>2. CASE xExp[x].job[e] = "bare"
  <2>1. xExp[x].job[e] # "complete"
    BY <1>2
  <2> QED
    BY <1>2, <2>1, Zenon DEF X!Wrote
<1>3. CASE xExp[x].job[e] \notin {"complete", "bare"}
  <2>1. xExp[x].job[e] # "complete" /\ xExp[x].job[e] # "bare"
    BY <1>3
  <2> QED
    BY <1>3, <2>1, Zenon DEF X!Wrote
<1> QED
  BY <1>1, <1>2, <1>3

LEMMA NoExportType == X!NoExport \in ExportTypes
  BY DEF X!NoExport, ExportTypes, X!Jobs, X!Images

LEMMA ExportInvInit == X!Init => ExportInv
<1> SUFFICES ASSUME X!Init PROVE ExportInv
  OBVIOUS
<1>1. \A x \in xExports : xExp[x] = X!NoExport
  BY DEF X!Init
<1>2. 0 \in X!Seconds
  BY RequestsAssumption DEF X!Seconds
<1>3. Staged(X!NoExport) /\ \A e \in xEvents : Counted(X!NoExport, e)
  BY DEF Staged, Counted, X!NoExport
<1>4. ExportTypesInv
  BY <1>1, <1>2, <1>3, NoExportType DEF X!Init, ExportTypesInv
<1>5. DiskInv
  BY DEF X!Init, DiskInv
<1>6. \A x \in xExports : OwnInv(x)
  BY <1>1 DEF OwnInv, X!NoExport
<1> QED
  BY <1>4, <1>5, <1>6 DEF ExportInv

-----------------------------------------------------------------------------
\* The worker of an event writes or removes what is its own.
LEMMA WorkKeeps ==
  ASSUME ExportInv, NEW x \in xExports, NEW e \in xEvents, xExp[x].at = "write",
         NEW q \in ExportTypes, q.at = "write", q.dir = xExp[x].dir,
         q.answer = xExp[x].answer, \A d \in xEvents \ {e} :
           q.job[d] = xExp[x].job[d] /\ q.images[d] = xExp[x].images[d],
         Counted(q, e), NEW D \in SUBSET X!Entries,
         \A p \in X!Entries : p[1] # x \/ p[2] # e => (p \in D <=> p \in xDisk[q.dir]),
         Alone(x) => Written(q, e, FilesIn(D, x, e)),
         xExp' = [xExp EXCEPT ![x] = q], xDisk' = [xDisk EXCEPT ![q.dir] = D],
         xMade' = xMade \/ xMade' = xMade \cup {q.dir}, D # {} => q.dir \in xMade',
         UNCHANGED <<xNow, xCrashed>>
  PROVE  ExportInv'
<1>0. /\ q.dir \in X!Seconds /\ q.answer = "none"
      /\ xDisk' \in [X!Seconds -> SUBSET X!Entries] /\ xDisk'[q.dir] = D
      /\ \A s \in X!Seconds \ {q.dir} : xDisk'[s] = xDisk[s]
      /\ xExp' \in [xExports -> ExportTypes] /\ xExp'[x] = q
      /\ \A y \in xExports \ {x} : xExp'[y] = xExp[y]
  BY DEF ExportInv, ExportTypesInv, Staged
<1>1. ExportTypesInv'
  <2>1. Staged(q)
    BY <1>0 DEF Staged
  <2>2. \A d \in xEvents : Counted(q, d)
    BY DEF ExportInv, ExportTypesInv, Counted
  <2> QED
    BY <1>0, <2>1, <2>2 DEF ExportInv, ExportTypesInv
<1>2. DiskInv'
  <2>1. \A s \in X!Seconds : xDisk'[s] # {} => s \in xMade'
    BY <1>0 DEF ExportInv, DiskInv
  <2>2. ASSUME NEW s \in X!Seconds, NEW p \in xDisk'[s]
        PROVE  xExp'[p[1]].dir = s /\ xExp'[p[1]].at \notin {"query", "mkdir"}
    <3>1. p \in X!Entries /\ p[1] \in xExports
      BY <1>0, <2>2 DEF X!Entries
    <3>2. CASE p[1] = x
      <4>1. s = q.dir
        BY <1>0, <2>2, <3>2 DEF ExportInv, DiskInv
      <4> QED
        BY <1>0, <3>2, <4>1
    <3>3. CASE p[1] # x
      <4>1. p \in xDisk[s]
        BY <1>0, <2>2, <3>1, <3>3
      <4> QED
        BY <1>0, <3>1, <3>3, <4>1 DEF ExportInv, DiskInv
    <3> QED
      BY <3>2, <3>3
  <2>3. ASSUME ~xCrashed, NEW s \in xMade'
        PROVE  \E y \in xExports : xExp'[y].dir = s /\ xExp'[y].at \in {"write", "walk", "remove"}
    <3>1. CASE s = q.dir
      BY <1>0, <3>1
    <3>2. CASE s # q.dir
      <4>1. PICK y \in xExports : xExp[y].dir = s /\ xExp[y].at \in {"write", "walk", "remove"}
        BY <2>3, <3>2 DEF ExportInv, DiskInv
      <4> QED
        BY <1>0, <3>2, <4>1
    <3> QED
      BY <3>1, <3>2
  <2> QED
    BY <2>1, <2>2, <2>3 DEF DiskInv
<1>3. ASSUME NEW y \in xExports, Alone(y)' PROVE OwnInv(y)'
  <2>1. Alone(y)
    BY <1>0, <1>3 DEF Alone
  <2>2. CASE y = x
    <3>1. ASSUME NEW d \in xEvents PROVE Written(q, d, FilesIn(D, x, d))
      <4>1. CASE d = e
        BY <2>1, <2>2, <4>1
      <4>2. CASE d # e
        <5>1. Written(xExp[x], d, FilesIn(xDisk[q.dir], x, d))
          BY <2>1, <2>2 DEF ExportInv, OwnInv
        <5>2. FilesIn(D, x, d) = FilesIn(xDisk[q.dir], x, d)
          <6>1. \A f \in X!Files : <<x, d, f>> \in X!Entries
            BY DEF X!Entries
          <6>2. \A f \in X!Files : <<x, d, f>> \in D <=> <<x, d, f>> \in xDisk[q.dir]
            BY <4>2, <6>1
          <6> QED
            BY <6>2 DEF FilesIn
        <5>3. q.job[d] = xExp[x].job[d] /\ q.images[d] = xExp[x].images[d]
          BY <4>2
        <5> QED
          BY <5>1, <5>2, <5>3 DEF Written
      <4> QED
        BY <4>1, <4>2
    <3> QED
      BY <1>0, <2>2, <3>1 DEF OwnInv
  <2>3. CASE y # x
    <3>1. xExp'[y] = xExp[y] /\ xExp[y].dir # q.dir
      BY <1>0, <2>1, <2>3 DEF Alone
    <3>2. xExp[y].at = "write" => xDisk'[xExp[y].dir] = xDisk[xExp[y].dir]
      BY <1>0, <3>1 DEF ExportInv, ExportTypesInv, Staged
    <3>3. Evidence(y)' = Evidence(y)
      BY <3>1 DEF Evidence, X!Wrote
    <3>4. OwnInv(y)
      BY DEF ExportInv
    <3> QED
      BY <2>1, <3>1, <3>2, <3>3, <3>4 DEF OwnInv
  <2> QED
    BY <2>2, <2>3
<1> QED
  BY <1>1, <1>2, <1>3 DEF ExportInv, OwnInv

\* An export goes on to another stage and leaves the disk as it is. Only one that has no
\* directory yet gets one.
LEMMA MoveKeeps ==
  ASSUME ExportInv, NEW x \in xExports, NEW q \in ExportTypes, Staged(q),
         \A e \in xEvents : Counted(q, e),
         xExp' = [xExp EXCEPT ![x] = q], UNCHANGED <<xNow, xDisk, xCrashed>>,
         q.dir = xExp[x].dir \/ xExp[x].at = "query",
         q.at \in {"query", "mkdir"} => xExp[x].at \in {"query", "mkdir"},
         xExp[x].at \in {"write", "walk", "remove"} => q.at \in {"write", "walk", "remove"},
         xMade' = xMade \/ (xMade' = xMade \cup {q.dir} /\ q.at = "write"),
         OwnInv(x)'
  PROVE  ExportInv'
<1>0. /\ xExp' \in [xExports -> ExportTypes] /\ xExp'[x] = q
      /\ \A y \in xExports \ {x} : xExp'[y] = xExp[y]
      /\ q.at = "write" => q.dir \in X!Seconds
  BY DEF ExportInv, ExportTypesInv, Staged
<1>1. ExportTypesInv'
  BY <1>0 DEF ExportInv, ExportTypesInv
<1>2. DiskInv'
  <2>1. \A s \in X!Seconds : xDisk'[s] # {} => s \in xMade'
    BY DEF ExportInv, DiskInv
  <2>2. ASSUME NEW s \in X!Seconds, NEW p \in xDisk'[s]
        PROVE  xExp'[p[1]].dir = s /\ xExp'[p[1]].at \notin {"query", "mkdir"}
    <3>1. p \in xDisk[s] /\ p[1] \in xExports
      BY <2>2 DEF ExportInv, ExportTypesInv, X!Entries
    <3>2. xExp[p[1]].dir = s /\ xExp[p[1]].at \notin {"query", "mkdir"}
      BY <3>1 DEF ExportInv, DiskInv
    <3> QED
      BY <1>0, <3>1, <3>2
  <2>3. ASSUME ~xCrashed, NEW s \in xMade'
        PROVE  \E y \in xExports : xExp'[y].dir = s /\ xExp'[y].at \in {"write", "walk", "remove"}
    <3>1. CASE s \in xMade
      <4>1. PICK y \in xExports : xExp[y].dir = s /\ xExp[y].at \in {"write", "walk", "remove"}
        BY <2>3, <3>1 DEF ExportInv, DiskInv
      <4> QED
        BY <1>0, <4>1
    <3>2. CASE s \notin xMade
      <4>1. s = q.dir /\ q.at = "write"
        BY <3>2
      <4> QED
        BY <1>0, <4>1
    <3> QED
      BY <3>1, <3>2
  <2> QED
    BY <2>1, <2>2, <2>3 DEF DiskInv
<1>3. ASSUME NEW y \in xExports \ {x} PROVE OwnInv(y)'
  <2> SUFFICES ASSUME Alone(y)', xExp[y].at \in {"write", "walk"} \/ xExp[y].answer = "zip"
               PROVE  OwnInv(y)'
    BY <1>0 DEF OwnInv
  <2>1. Alone(y)
    <3>1. xExp[y].dir \in X!Seconds
      BY DEF ExportInv, ExportTypesInv, Staged
    <3>2. xExp[x].dir # xExp[y].dir
      <4>1. CASE xExp[x].at = "query"
        <5>1. xExp[x].dir = X!None
          BY <4>1 DEF ExportInv, ExportTypesInv, Staged, X!NoExport
        <5>2. X!None \notin X!Seconds
          BY RequestsAssumption DEF X!None, X!Seconds
        <5> QED
          BY <3>1, <5>1, <5>2
      <4>2. CASE q.dir = xExp[x].dir
        BY <1>0, <4>2 DEF Alone
      <4> QED
        BY <4>1, <4>2
    <3> QED
      BY <1>0, <3>2 DEF Alone
  <2>2. OwnInv(y)
    BY DEF ExportInv
  <2>3. xExp'[y] = xExp[y]
    BY <1>0
  <2>4. Evidence(y)' = Evidence(y)
    BY <2>3 DEF Evidence, X!Wrote
  <2> QED
    BY <2>1, <2>2, <2>3, <2>4 DEF OwnInv
<1> QED
  BY <1>1, <1>2, <1>3 DEF ExportInv

\* An export that is alone, with all its workers done, finds its evidence.
LEMMA EvidenceOnDisk ==
  ASSUME ExportInv, NEW x \in xExports, xExp[x].at = "write", X!AllOver(x), Alone(x)
  PROVE  xDisk[xExp[x].dir] = Evidence(x)
<1> DEFINE entries == xDisk[xExp[x].dir]
<1>1. entries \subseteq X!Entries /\ xExp[x].dir \in X!Seconds
  BY DEF ExportInv, ExportTypesInv, Staged
<1>2. ASSUME NEW p \in entries PROVE p[1] = x
  <2>1. xExp[p[1]].dir = xExp[x].dir /\ p[1] \in xExports
    BY <1>1, <1>2 DEF ExportInv, DiskInv, X!Entries
  <2> QED
    BY <2>1 DEF Alone
<1>3. ASSUME NEW e \in xEvents PROVE FilesIn(entries, x, e) = X!Wrote(x, e)
  <2>1. Written(xExp[x], e, FilesIn(entries, x, e))
    BY DEF ExportInv, OwnInv
  <2>2. xExp[x].job[e] \in {"nothing", "bare", "complete"}
    BY DEF X!AllOver, X!Over
  <2>3. X!Files \ {"ini"} = {"dir", "first", "second"}
    BY DEF X!Files, X!Images
  <2> QED
    BY <2>1, <2>2, <2>3, WroteByJob DEF Written
<1> HIDE DEF entries
<1>4. ASSUME NEW p \in entries PROVE p \in Evidence(x)
  <2>1. PICK e \in xEvents : \E f \in X!Files : p = <<x, e, f>>
    BY <1>1, <1>2, <1>4 DEF X!Entries
  <2>2. PICK f \in X!Files : p = <<x, e, f>>
    BY <2>1
  <2>3. f \in X!Wrote(x, e)
    BY <1>3, <1>4, <2>2 DEF FilesIn
  <2> QED
    BY <2>2, <2>3 DEF Evidence
<1>5. ASSUME NEW p \in Evidence(x) PROVE p \in entries
  <2>1. PICK e \in xEvents : p \in {x} \X {e} \X X!Wrote(x, e)
    BY <1>5 DEF Evidence
  <2>2. PICK f \in X!Wrote(x, e) : p = <<x, e, f>>
    BY <2>1
  <2> QED
    BY <1>3, <2>2 DEF FilesIn
<1>6. entries = Evidence(x)
  BY <1>4, <1>5
<1> QED
  BY <1>6 DEF entries

\* The steps of a worker: the next stage of its event, with what it writes.
LEMMA WorkersKeep ==
  ASSUME ExportInv, NEW x \in xExports, NEW e \in xEvents, X!Work(x, e)
  PROVE  ExportInv'
<1> DEFINE dir == xExp[x].dir
           files == X!Here(x, e)
<1>0. /\ xExp[x] \in ExportTypes /\ xExp[x].at = "write" /\ xExp[x].answer = "none"
      /\ dir \in X!Seconds /\ xDisk[dir] \subseteq X!Entries /\ Counted(xExp[x], e)
      /\ xDisk[dir] # {} => dir \in xMade
      /\ Alone(x) => Written(xExp[x], e, FilesIn(xDisk[dir], x, e))
      /\ xDisk \in [X!Seconds -> SUBSET X!Entries]
  <2>1. xExp[x].at = "write"
    BY DEF X!Work, X!EventDir, X!EventDirFails, X!MergeImage, X!MergeFails, X!MergePanics,
           X!GiveUp, X!Describe, X!DescribeFails
  <2>2. /\ xExp[x] \in ExportTypes /\ xDisk \in [X!Seconds -> SUBSET X!Entries]
        /\ Counted(xExp[x], e)
    BY DEF ExportInv, ExportTypesInv
  <2>3. xExp[x].answer = "none" /\ dir \in X!Seconds
    BY <2>1 DEF ExportInv, ExportTypesInv, Staged
  <2>4. Alone(x) => Written(xExp[x], e, FilesIn(xDisk[dir], x, e))
    BY <2>1 DEF ExportInv, OwnInv
  <2>5. xDisk[dir] # {} => dir \in xMade
    BY <2>3 DEF ExportInv, DiskInv
  <2> QED
    BY <2>1, <2>2, <2>3, <2>4, <2>5
<1>1. \A f \in X!Files : <<x, e, f>> \in X!Entries
  BY DEF X!Entries
<1>2. xDisk = [xDisk EXCEPT ![dir] = xDisk[dir]]
  BY <1>0
<1>3. files = FilesIn(xDisk[dir], x, e)
  BY DEF X!Here, FilesIn
\* A file more or none of the event's, and the others as they are.
<1>4. ASSUME NEW f \in X!Files
      PROVE  /\ xDisk[dir] \cup {<<x, e, f>>} \in SUBSET X!Entries
             /\ \A p \in X!Entries : p[1] # x \/ p[2] # e =>
                  (p \in xDisk[dir] \cup {<<x, e, f>>} <=> p \in xDisk[dir])
             /\ FilesIn(xDisk[dir] \cup {<<x, e, f>>}, x, e) = files \cup {f}
  <2>1. <<x, e, f>>[1] = x /\ <<x, e, f>>[2] = e
    OBVIOUS
  <2>2. xDisk[dir] \cup {<<x, e, f>>} \in SUBSET X!Entries
    BY <1>0, <1>1
  <2>3. ASSUME NEW p \in X!Entries, p[1] # x \/ p[2] # e
        PROVE  p \in xDisk[dir] \cup {<<x, e, f>>} <=> p \in xDisk[dir]
    BY <2>1, <2>3
  <2>4. \A g \in X!Files : <<x, e, g>> = <<x, e, f>> <=> g = f
    OBVIOUS
  <2>5. FilesIn(xDisk[dir] \cup {<<x, e, f>>}, x, e) = files \cup {f}
    BY <1>3, <2>4 DEF FilesIn
  <2> QED
    BY <2>2, <2>3, <2>5
<1>5. "dir" \in X!Files /\ "ini" \in X!Files /\ "first" \in X!Files /\ "second" \in X!Files
  BY DEF X!Files, X!Images
<1>6. X!Files = {"dir", "ini", "first", "second"}
  BY DEF X!Files, X!Images
<1>7. "dir" \in files => dir \in xMade
  BY <1>0, <1>3 DEF FilesIn
<1> HIDE DEF files
<1>8. CASE X!EventDir(x, e)
  <2> DEFINE q == [xExp[x] EXCEPT !.job[e] = "first"]
             D == xDisk[dir] \cup {<<x, e, "dir">>}
  <2>1. /\ xExp[x].job[e] = "todo" /\ xExp' = [xExp EXCEPT ![x] = q]
        /\ xDisk' = [xDisk EXCEPT ![dir] = D]
        /\ xMade' = xMade \cup {dir} /\ UNCHANGED <<xNow, xCrashed>>
    BY <1>8 DEF X!EventDir
  <2>2. /\ q \in ExportTypes /\ q.at = "write" /\ q.dir = dir /\ q.answer = xExp[x].answer
        /\ q.job[e] = "first" /\ q.images = xExp[x].images
        /\ \A d \in xEvents \ {e} : q.job[d] = xExp[x].job[d]
    BY <1>0 DEF ExportTypes, X!Jobs, X!Images
  <2> HIDE DEF q
  <2>3. Counted(q, e)
    BY <1>0, <2>1, <2>2 DEF Counted
  <2>4. /\ D \in SUBSET X!Entries /\ FilesIn(D, x, e) = files \cup {"dir"}
        /\ \A p \in X!Entries : p[1] # x \/ p[2] # e => (p \in D <=> p \in xDisk[dir])
    BY <1>4, <1>5
  <2> HIDE DEF D
  <2>5. Alone(x) => Written(q, e, FilesIn(D, x, e))
    BY <1>0, <1>3, <2>1, <2>2, <2>4 DEF Written
  <2>6. dir \in xMade'
    BY <2>1
  <2> QED
    BY <1>0, <2>1, <2>2, <2>3, <2>4, <2>5, <2>6, WorkKeeps
<1>9. CASE X!EventDirFails(x, e)
  <2> DEFINE q == [xExp[x] EXCEPT !.job[e] = "nothing"]
  <2>1. /\ xExp[x].job[e] = "todo" /\ xExp' = [xExp EXCEPT ![x] = q]
        /\ UNCHANGED <<xNow, xMade, xDisk, xCrashed>>
    BY <1>9 DEF X!EventDirFails
  <2>2. /\ q \in ExportTypes /\ q.at = "write" /\ q.dir = dir /\ q.answer = xExp[x].answer
        /\ q.job[e] = "nothing" /\ q.images = xExp[x].images
        /\ \A d \in xEvents \ {e} : q.job[d] = xExp[x].job[d]
    BY <1>0 DEF ExportTypes, X!Jobs
  <2> HIDE DEF q
  <2>3. Counted(q, e)
    BY <2>2 DEF Counted
  <2>4. Alone(x) => Written(q, e, files)
    BY <1>0, <1>3, <2>1, <2>2 DEF Written
  <2> DEFINE D == xDisk[dir]
  <2>5. D \in SUBSET X!Entries /\ (D # {} => dir \in xMade) /\ FilesIn(D, x, e) = files
        /\ xDisk' = [xDisk EXCEPT ![dir] = D]
        /\ \A p \in X!Entries : p[1] # x \/ p[2] # e => (p \in D <=> p \in xDisk[dir])
    BY <1>0, <1>2, <1>3, <2>1
  <2>6. /\ xExp' = [xExp EXCEPT ![x] = q] /\ xMade' = xMade /\ UNCHANGED <<xNow, xCrashed>>
        /\ Alone(x) => Written(q, e, FilesIn(D, x, e))
    BY <2>1, <2>4, <2>5
  <2> HIDE DEF D
  <2>7. /\ D \in SUBSET X!Entries /\ (D # {} => q.dir \in xMade)
        /\ xDisk' = [xDisk EXCEPT ![q.dir] = D]
        /\ \A p \in X!Entries : p[1] # x \/ p[2] # e => (p \in D <=> p \in xDisk[q.dir])
    BY <2>2, <2>5, <2>6
  <2>8. /\ q.dir = xExp[x].dir /\ q.answer = xExp[x].answer
        /\ \A d \in xEvents \ {e} :
             q.job[d] = xExp[x].job[d] /\ q.images[d] = xExp[x].images[d]
    BY <2>2
  <2> HIDE DEF dir, files
  <2> QED
    BY <1>0, <2>2, <2>3, <2>6, <2>7, <2>8, WorkKeeps
<1>10. CASE X!MergeImage(x, e)
  <2> DEFINE image == xExp[x].job[e]
             next == X!After(image)
             n == xExp[x].images[e] + 1
             q == [xExp[x] EXCEPT !.job[e] = next, !.images[e] = n]
             D == xDisk[dir] \cup {<<x, e, image>>}
  <2>1. /\ image \in {"first", "second"} /\ xExp' = [xExp EXCEPT ![x] = q] /\ "dir" \in files
        /\ xDisk' = [xDisk EXCEPT ![dir] = D]
        /\ UNCHANGED <<xNow, xMade, xCrashed>>
    BY <1>10 DEF X!MergeImage, X!Images, files
  <2>2. image \in {"first", "second"} /\ next = IF image = "first" THEN "second" ELSE "ini"
    BY <2>1 DEF X!After
  <2> HIDE DEF next
  <2>3. xExp[x].images[e] \in 0..1 /\ (image = "first" => xExp[x].images[e] = 0)
    BY <1>0, <2>1 DEF Counted
  <2>4. n \in 0..2 /\ next \in X!Jobs /\ n = xExp[x].images[e] + 1
    BY <2>2, <2>3 DEF X!Jobs, X!Images
  <2> HIDE DEF n
  <2>5. /\ q \in ExportTypes /\ q.at = "write" /\ q.dir = dir /\ q.answer = xExp[x].answer
        /\ q.job[e] = next /\ q.images[e] = n
        /\ \A d \in xEvents \ {e} : q.job[d] = xExp[x].job[d] /\ q.images[d] = xExp[x].images[d]
    BY <1>0, <2>4 DEF ExportTypes
  <2> HIDE DEF q
  <2>6. Counted(q, e)
    BY <2>2, <2>3, <2>5, <2>4 DEF Counted
  <2>7. Alone(x) => Written(q, e, files \cup {image})
    <3>1. CASE image = "first"
      <4>1. next = "second" /\ q.images[e] = 1
        BY <2>2, <2>3, <2>5, <2>4, <3>1
      <4> QED
        BY <1>0, <1>3, <2>5, <3>1, <4>1 DEF Written
    <3>2. CASE image = "second"
      <4>1. next = "ini" /\ (q.images[e] = 2 => xExp[x].images[e] = 1)
        BY <2>2, <2>3, <2>5, <2>4, <3>2
      <4> QED
        BY <1>0, <1>3, <2>5, <3>2, <4>1 DEF Written
    <3> QED
      BY <2>1, <3>1, <3>2
  <2> HIDE DEF image
  <2>8. image \in X!Files
    BY <1>5, <2>1
  <2>9. /\ D \in SUBSET X!Entries /\ FilesIn(D, x, e) = files \cup {image}
        /\ \A p \in X!Entries : p[1] # x \/ p[2] # e => (p \in D <=> p \in xDisk[dir])
    BY <1>4, <2>8
  <2> HIDE DEF D
  <2>10. dir \in xMade'
    BY <1>7, <2>1
  <2>11. /\ xExp' = [xExp EXCEPT ![x] = q] /\ xMade' = xMade /\ UNCHANGED <<xNow, xCrashed>>
         /\ xDisk' = [xDisk EXCEPT ![dir] = D]
         /\ Alone(x) => Written(q, e, FilesIn(D, x, e))
    BY <2>1, <2>7, <2>9
  <2> QED
    BY <1>0, <2>5, <2>6, <2>9, <2>10, <2>11, WorkKeeps
<1>11. CASE X!MergeFails(x, e)
  <2> DEFINE image == xExp[x].job[e]
             next == X!After(image)
             q == [xExp[x] EXCEPT !.job[e] = next]
  <2>1. /\ image \in {"first", "second"} /\ xExp' = [xExp EXCEPT ![x] = q]
        /\ UNCHANGED <<xNow, xMade, xDisk, xCrashed>>
    BY <1>11 DEF X!MergeFails, X!Images
  <2>2. next = IF image = "first" THEN "second" ELSE "ini"
    BY DEF X!After
  <2> HIDE DEF next
  <2>3. xExp[x].images[e] \in 0..1 /\ (image = "first" => xExp[x].images[e] = 0)
    BY <1>0, <2>1 DEF Counted
  <2>4. /\ q \in ExportTypes /\ q.at = "write" /\ q.dir = dir /\ q.answer = xExp[x].answer
        /\ q.job[e] = next /\ q.images = xExp[x].images
        /\ \A d \in xEvents \ {e} : q.job[d] = xExp[x].job[d] /\ q.images[d] = xExp[x].images[d]
    BY <1>0, <2>2 DEF ExportTypes, X!Jobs, X!Images
  <2> HIDE DEF q
  <2>5. Counted(q, e)
    BY <2>1, <2>2, <2>3, <2>4 DEF Counted
  <2>6. Alone(x) => Written(q, e, files)
    BY <1>0, <1>3, <2>1, <2>2, <2>3, <2>4 DEF Written
  <2> DEFINE D == xDisk[dir]
  <2>7. D \in SUBSET X!Entries /\ (D # {} => dir \in xMade) /\ FilesIn(D, x, e) = files
        /\ xDisk' = [xDisk EXCEPT ![dir] = D]
        /\ \A p \in X!Entries : p[1] # x \/ p[2] # e => (p \in D <=> p \in xDisk[dir])
    BY <1>0, <1>2, <1>3, <2>1
  <2>8. /\ xExp' = [xExp EXCEPT ![x] = q] /\ xMade' = xMade /\ UNCHANGED <<xNow, xCrashed>>
        /\ Alone(x) => Written(q, e, FilesIn(D, x, e))
    BY <2>1, <2>6, <2>7
  <2> HIDE DEF D
  <2> QED
    BY <1>0, <2>4, <2>5, <2>7, <2>8, WorkKeeps
<1>12. CASE X!MergePanics(x, e)
  <2>1. /\ xCrashed' = TRUE /\ UNCHANGED <<xNow, xMade, xDisk>>
        /\ xExp' = [y \in xExports |-> IF xExp[y].at \in {"query", "done"} THEN xExp[y]
                                       ELSE [X!NoExport EXCEPT !.at = "done", !.dir = xExp[y].dir]]
    BY <1>12 DEF X!MergePanics
  <2>2. ASSUME NEW y \in xExports
        PROVE  /\ xExp'[y] \in ExportTypes /\ Staged(xExp'[y])
               /\ \A d \in xEvents : Counted(xExp'[y], d)
               /\ xExp'[y].dir = xExp[y].dir /\ (xExp'[y].at # "done" => xExp'[y].at = "query")
               /\ xExp'[y].at = "query" => xExp[y].at = "query"
               /\ xExp'[y].answer = "zip" => xExp'[y] = xExp[y]
    <3>1. xExp[y] \in ExportTypes /\ Staged(xExp[y]) /\ \A d \in xEvents : Counted(xExp[y], d)
      BY DEF ExportInv, ExportTypesInv
    <3>2. CASE xExp[y].at \in {"query", "done"}
      <4>1. xExp'[y] = xExp[y]
        BY <2>1, <3>2
      <4> QED
        BY <3>1, <3>2, <4>1
    <3>3. CASE xExp[y].at \notin {"query", "done"}
      <4> DEFINE q == [X!NoExport EXCEPT !.at = "done", !.dir = xExp[y].dir]
      <4>1. xExp'[y] = q
        BY <2>1, <3>3
      <4>2. /\ X!NoExport \in ExportTypes /\ X!NoExport.images = [d \in xEvents |-> 0]
            /\ X!NoExport.answer = "none" /\ xExp[y].dir \in X!Seconds \cup {X!None}
        BY <3>1, NoExportType DEF X!NoExport, ExportTypes
      <4>3. /\ q \in ExportTypes /\ q.at = "done" /\ q.dir = xExp[y].dir /\ q.answer = "none"
            /\ q.images = [d \in xEvents |-> 0]
        BY <4>2 DEF ExportTypes
      <4> HIDE DEF q
      <4>4. Staged(q) /\ \A d \in xEvents : Counted(q, d)
        BY <4>3 DEF Staged, Counted
      <4> QED
        BY <4>1, <4>3, <4>4
    <3> QED
      BY <3>2, <3>3
  <2>3. ExportTypesInv'
    BY <2>1, <2>2 DEF ExportInv, ExportTypesInv
  <2>4. DiskInv'
    <3>1. ASSUME NEW s \in X!Seconds, NEW p \in xDisk[s]
          PROVE  xExp'[p[1]].dir = s /\ xExp'[p[1]].at \notin {"query", "mkdir"}
      <4>1. p[1] \in xExports
        BY <1>0, <3>1 DEF X!Entries
      <4>2. xExp[p[1]].dir = s /\ xExp[p[1]].at \notin {"query", "mkdir"}
        BY <3>1 DEF ExportInv, DiskInv
      <4> QED
        BY <2>2, <4>1, <4>2
    <3> QED
      BY <2>1, <3>1 DEF ExportInv, DiskInv
  <2>5. ASSUME NEW y \in xExports PROVE OwnInv(y)'
    <3>1. Alone(y)' => Alone(y)
      BY <2>2 DEF Alone
    <3>2. xExp'[y] = xExp[y] => Evidence(y)' = Evidence(y)
      BY DEF Evidence, X!Wrote
    <3>3. xExp'[y].at \notin {"write", "walk"}
      BY <2>2
    <3> QED
      BY <2>2, <3>1, <3>2, <3>3 DEF ExportInv, OwnInv
  <2> QED
    BY <2>3, <2>4, <2>5 DEF ExportInv
<1>13. CASE X!GiveUp(x, e)
  <2> DEFINE q == [xExp[x] EXCEPT !.job[e] = "nothing"]
             D == xDisk[dir] \ {<<x, e, f>> : f \in X!Files}
  <2>1. /\ xExp' = [xExp EXCEPT ![x] = q] /\ xDisk' = [xDisk EXCEPT ![dir] = D]
        /\ UNCHANGED <<xNow, xMade, xCrashed>>
    BY <1>13 DEF X!GiveUp
  <2>2. /\ q \in ExportTypes /\ q.at = "write" /\ q.dir = dir /\ q.answer = xExp[x].answer
        /\ q.job[e] = "nothing" /\ q.images = xExp[x].images
        /\ \A d \in xEvents \ {e} : q.job[d] = xExp[x].job[d]
    BY <1>0 DEF ExportTypes, X!Jobs
  <2> HIDE DEF q
  <2>3. Counted(q, e)
    BY <2>2 DEF Counted
  <2>4. FilesIn(D, x, e) = {}
    BY DEF FilesIn
  <2>5. ASSUME NEW p \in X!Entries, p[1] # x \/ p[2] # e PROVE p \in D <=> p \in xDisk[dir]
    <3>1. \A f \in X!Files : <<x, e, f>>[1] = x /\ <<x, e, f>>[2] = e
      OBVIOUS
    <3> QED
      BY <2>5, <3>1
  <2>6. D \in SUBSET X!Entries /\ (D # {} => dir \in xMade)
    BY <1>0
  <2> HIDE DEF D
  <2>7. Written(q, e, FilesIn(D, x, e))
    BY <2>2, <2>4 DEF Written
  <2>8. /\ q.dir = xExp[x].dir /\ q.answer = xExp[x].answer
        /\ Alone(x) => Written(q, e, FilesIn(D, x, e))
        /\ \A d \in xEvents \ {e} :
             q.job[d] = xExp[x].job[d] /\ q.images[d] = xExp[x].images[d]
    BY <2>2, <2>7
  <2>9. /\ D \in SUBSET X!Entries /\ (D # {} => q.dir \in xMade)
        /\ xDisk' = [xDisk EXCEPT ![q.dir] = D]
        /\ \A p \in X!Entries : p[1] # x \/ p[2] # e => (p \in D <=> p \in xDisk[q.dir])
    BY <2>1, <2>2, <2>5, <2>6
  <2>10. /\ xExp' = [xExp EXCEPT ![x] = q] /\ xMade' = xMade /\ UNCHANGED <<xNow, xCrashed>>
    BY <2>1
  <2> HIDE DEF dir, files
  <2> QED
    BY <1>0, <2>2, <2>3, <2>8, <2>9, <2>10, WorkKeeps
<1>14. CASE X!Describe(x, e)
  <2> DEFINE q == [xExp[x] EXCEPT !.job[e] = "complete"]
             D == xDisk[dir] \cup {<<x, e, "ini">>}
  <2>1. /\ xExp[x].job[e] = "ini" /\ xExp[x].images[e] = 2 /\ xExp' = [xExp EXCEPT ![x] = q]
        /\ xDisk' = [xDisk EXCEPT ![dir] = D]
        /\ "dir" \in files /\ UNCHANGED <<xNow, xMade, xCrashed>>
    BY <1>14 DEF X!Describe, X!Short, files
  <2>2. /\ q \in ExportTypes /\ q.at = "write" /\ q.dir = dir /\ q.answer = xExp[x].answer
        /\ q.job[e] = "complete" /\ q.images = xExp[x].images
        /\ \A d \in xEvents \ {e} : q.job[d] = xExp[x].job[d]
    BY <1>0 DEF ExportTypes, X!Jobs
  <2> HIDE DEF q
  <2>3. Counted(q, e)
    BY <2>2 DEF Counted
  <2>4. /\ D \in SUBSET X!Entries /\ FilesIn(D, x, e) = files \cup {"ini"}
        /\ \A p \in X!Entries : p[1] # x \/ p[2] # e => (p \in D <=> p \in xDisk[dir])
    BY <1>4, <1>5
  <2> HIDE DEF D
  <2>5. Alone(x) => Written(q, e, FilesIn(D, x, e))
    BY <1>0, <1>3, <1>6, <2>1, <2>2, <2>4 DEF Written
  <2>6. dir \in xMade'
    BY <1>7, <2>1
  <2> QED
    BY <1>0, <2>1, <2>2, <2>3, <2>4, <2>5, <2>6, WorkKeeps
<1>15. CASE X!DescribeFails(x, e)
  <2> DEFINE q == [xExp[x] EXCEPT !.job[e] = "bare"]
  <2>1. /\ xExp[x].job[e] = "ini" /\ xExp[x].images[e] = 2 /\ xExp' = [xExp EXCEPT ![x] = q]
        /\ UNCHANGED <<xNow, xMade, xDisk, xCrashed>>
    BY <1>15 DEF X!DescribeFails, X!Short
  <2>2. /\ q \in ExportTypes /\ q.at = "write" /\ q.dir = dir /\ q.answer = xExp[x].answer
        /\ q.job[e] = "bare" /\ q.images = xExp[x].images
        /\ \A d \in xEvents \ {e} : q.job[d] = xExp[x].job[d]
    BY <1>0 DEF ExportTypes, X!Jobs
  <2> HIDE DEF q
  <2>3. Counted(q, e)
    BY <2>2 DEF Counted
  <2>4. Alone(x) => Written(q, e, files)
    BY <1>0, <1>3, <2>1, <2>2 DEF Written
  <2> DEFINE D == xDisk[dir]
  <2>5. D \in SUBSET X!Entries /\ (D # {} => dir \in xMade) /\ FilesIn(D, x, e) = files
        /\ xDisk' = [xDisk EXCEPT ![dir] = D]
        /\ \A p \in X!Entries : p[1] # x \/ p[2] # e => (p \in D <=> p \in xDisk[dir])
    BY <1>0, <1>2, <1>3, <2>1
  <2>6. /\ xExp' = [xExp EXCEPT ![x] = q] /\ xMade' = xMade /\ UNCHANGED <<xNow, xCrashed>>
        /\ Alone(x) => Written(q, e, FilesIn(D, x, e))
    BY <2>1, <2>4, <2>5
  <2> HIDE DEF D
  <2>7. /\ D \in SUBSET X!Entries /\ (D # {} => q.dir \in xMade')
        /\ xDisk' = [xDisk EXCEPT ![q.dir] = D]
        /\ \A p \in X!Entries : p[1] # x \/ p[2] # e => (p \in D <=> p \in xDisk[q.dir])
    BY <2>2, <2>5, <2>6
  <2>8. /\ q.dir = xExp[x].dir /\ q.answer = xExp[x].answer
        /\ \A d \in xEvents \ {e} :
             q.job[d] = xExp[x].job[d] /\ q.images[d] = xExp[x].images[d]
    BY <2>2
  <2> HIDE DEF dir, files
  <2> QED
    BY <1>0, <2>2, <2>3, <2>6, <2>7, <2>8, WorkKeeps
<1> QED
  BY <1>8, <1>9, <1>10, <1>11, <1>12, <1>13, <1>14, <1>15 DEF X!Work

\* The directory is removed, with whatever is in it by now.
LEMMA RemoveKeeps ==
  ASSUME ExportInv, NEW x \in xExports, X!Remove(x)
  PROVE  ExportInv'
<1> DEFINE dir == xExp[x].dir
           q == [xExp[x] EXCEPT !.at = "done"]
<1>1. /\ xExp[x].at = "remove" /\ xExp' = [xExp EXCEPT ![x] = q] /\ xMade' = xMade \ {dir}
      /\ xDisk' = [xDisk EXCEPT ![dir] = {}] /\ UNCHANGED <<xNow, xCrashed>>
  BY DEF X!Remove, X!RemoveAll
<1>2. /\ xExp[x] \in ExportTypes /\ dir \in X!Seconds
      /\ \A e \in xEvents : Counted(xExp[x], e)
  BY <1>1 DEF ExportInv, ExportTypesInv, Staged
<1>3. /\ q \in ExportTypes /\ q.at = "done" /\ q.answer = xExp[x].answer /\ q.dir = dir
      /\ q.job = xExp[x].job /\ q.images = xExp[x].images /\ q.found = xExp[x].found
  BY <1>2 DEF ExportTypes
<1> HIDE DEF q
<1>4. Staged(q) /\ \A e \in xEvents : Counted(q, e)
  BY <1>2, <1>3 DEF Staged, Counted
<1>5. /\ xExp' \in [xExports -> ExportTypes] /\ xExp'[x] = q
      /\ \A y \in xExports \ {x} : xExp'[y] = xExp[y]
      /\ xDisk' \in [X!Seconds -> SUBSET X!Entries] /\ xDisk'[dir] = {}
      /\ \A s \in X!Seconds \ {dir} : xDisk'[s] = xDisk[s]
  BY <1>1, <1>2, <1>3 DEF ExportInv, ExportTypesInv
<1>6. ExportTypesInv'
  BY <1>1, <1>4, <1>5 DEF ExportInv, ExportTypesInv
<1>7. DiskInv'
  <2>1. \A s \in X!Seconds : xDisk'[s] # {} => s \in xMade'
    BY <1>1, <1>5 DEF ExportInv, DiskInv
  <2>2. ASSUME NEW s \in X!Seconds, NEW p \in xDisk'[s]
        PROVE  xExp'[p[1]].dir = s /\ xExp'[p[1]].at \notin {"query", "mkdir"}
    <3>1. p \in xDisk[s] /\ p[1] \in xExports
      BY <1>5, <2>2 DEF ExportInv, ExportTypesInv, X!Entries
    <3>2. xExp[p[1]].dir = s /\ xExp[p[1]].at \notin {"query", "mkdir"}
      BY <3>1 DEF ExportInv, DiskInv
    <3> QED
      BY <1>3, <1>5, <3>1, <3>2
  <2>3. ASSUME ~xCrashed, NEW s \in xMade'
        PROVE  \E y \in xExports : xExp'[y].dir = s /\ xExp'[y].at \in {"write", "walk", "remove"}
    <3>1. PICK y \in xExports : xExp[y].dir = s /\ xExp[y].at \in {"write", "walk", "remove"}
      BY <1>1, <2>3 DEF ExportInv, DiskInv
    <3>2. y # x
      BY <1>1, <2>3, <3>1
    <3> QED
      BY <1>5, <3>1, <3>2
  <2> QED
    BY <1>1, <2>1, <2>2, <2>3 DEF DiskInv
<1>8. ASSUME NEW y \in xExports PROVE OwnInv(y)'
  <2>1. Alone(y)' => Alone(y)
    BY <1>3, <1>5 DEF Alone
  <2>2. Evidence(y)' = Evidence(y)
    BY <1>3, <1>5 DEF Evidence, X!Wrote
  <2>3. OwnInv(y)
    BY DEF ExportInv
  <2>4. CASE y = x
    BY <1>3, <1>5, <2>1, <2>2, <2>3, <2>4 DEF OwnInv
  <2>5. CASE y # x
    <3>1. xExp'[y] = xExp[y]
      BY <1>5, <2>5
    <3>2. Alone(y) => xExp[y].dir # dir
      BY <2>5 DEF Alone
    <3>3. xExp[y].at = "write" => xExp[y].dir \in X!Seconds
      BY DEF ExportInv, ExportTypesInv, Staged
    <3>4. Alone(y) /\ xExp[y].at = "write" => xDisk'[xExp[y].dir] = xDisk[xExp[y].dir]
      BY <1>5, <3>2, <3>3
    <3> QED
      BY <2>1, <2>2, <2>3, <3>1, <3>4 DEF OwnInv
  <2> QED
    BY <2>4, <2>5
<1> QED
  BY <1>6, <1>7, <1>8 DEF ExportInv

LEMMA ExportInvStep == ExportInv /\ [X!Next]_xVars => ExportInv'
<1> SUFFICES ASSUME ExportInv, [X!Next]_xVars PROVE ExportInv'
  OBVIOUS
<1>0. \A x \in xExports :
        /\ xExp[x] \in ExportTypes /\ Staged(xExp[x]) /\ OwnInv(x)
        /\ \A e \in xEvents : Counted(xExp[x], e)
        /\ xExp[x].at \in {"mkdir", "write", "walk", "remove"} =>
             xExp[x].dir \in X!Seconds /\ xDisk[xExp[x].dir] \subseteq X!Entries
  BY DEF ExportInv, ExportTypesInv, Staged
<1>1. CASE UNCHANGED xVars
  BY <1>1 DEF xVars, ExportInv, ExportTypesInv, DiskInv, OwnInv, Alone, Evidence, X!Wrote
<1>2. ASSUME NEW x \in xExports, X!Refused(x) PROVE ExportInv'
  <2> DEFINE q == [xExp[x] EXCEPT !.at = "done", !.answer = "refused"]
  <2>1. xExp[x].at = "query" /\ xExp' = [xExp EXCEPT ![x] = q] /\ UNCHANGED <<xNow, xMade, xDisk, xCrashed>>
    BY <1>2 DEF X!Refused
  <2>2. /\ q \in ExportTypes /\ q.at = "done" /\ q.answer = "refused" /\ q.dir = xExp[x].dir
        /\ q.job = xExp[x].job /\ q.images = xExp[x].images
    BY <1>0 DEF ExportTypes
  <2> HIDE DEF q
  <2>3. Staged(q) /\ (\A e \in xEvents : Counted(q, e)) /\ xExp'[x] = q
    BY <1>0, <2>1, <2>2 DEF Staged, Counted, ExportInv, ExportTypesInv
  <2>4. OwnInv(x)'
    BY <2>2, <2>3 DEF OwnInv
  <2> QED
    BY <2>1, <2>2, <2>3, <2>4, MoveKeeps
<1>3. ASSUME NEW x \in xExports, NEW S0 \in SUBSET xEvents, X!Query(x, S0) PROVE ExportInv'
  <2> DEFINE job == [e \in xEvents |-> IF e \in S0 THEN "todo" ELSE "nothing"]
             q == [xExp[x] EXCEPT !.at = "mkdir", !.dir = xNow, !.job = job]
  <2>1. xExp[x].at = "query" /\ xExp' = [xExp EXCEPT ![x] = q] /\ UNCHANGED <<xNow, xMade, xDisk, xCrashed>>
    BY <1>3 DEF X!Query
  <2>2. job \in [xEvents -> X!Jobs] /\ \A e \in xEvents : job[e] \in {"todo", "nothing"}
    BY DEF X!Jobs
  <2> HIDE DEF job
  <2>3. xNow \in X!Seconds /\ xExp[x] = X!NoExport
    BY <1>0, <2>1 DEF Staged, ExportInv, ExportTypesInv
  <2>4. xExp[x].images = [e \in xEvents |-> 0] /\ xExp[x].answer = "none"
    BY <2>3 DEF X!NoExport
  <2>5. /\ q \in ExportTypes /\ q.at = "mkdir" /\ q.dir = xNow /\ q.job = job
        /\ q.images = xExp[x].images /\ q.answer = xExp[x].answer
    BY <1>0, <2>2, <2>3 DEF ExportTypes
  <2> HIDE DEF q
  <2>6. Staged(q) /\ (\A e \in xEvents : Counted(q, e)) /\ xExp'[x] = q
    BY <1>0, <2>1, <2>2, <2>3, <2>4, <2>5 DEF Staged, Counted, ExportInv, ExportTypesInv
  <2>7. OwnInv(x)'
    BY <2>4, <2>5, <2>6 DEF OwnInv
  <2> QED
    BY <2>1, <2>5, <2>6, <2>7, MoveKeeps
<1>4. ASSUME NEW x \in xExports, X!Mkdir(x) PROVE ExportInv'
  <2> DEFINE q == [xExp[x] EXCEPT !.at = "write"]
  <2>1. /\ xExp[x].at = "mkdir" /\ xExp' = [xExp EXCEPT ![x] = q]
        /\ UNCHANGED <<xNow, xDisk, xCrashed>> /\ xMade' = xMade \cup {xExp[x].dir}
    BY <1>4 DEF X!Mkdir
  <2>2. /\ q \in ExportTypes /\ q.at = "write" /\ q.dir = xExp[x].dir /\ q.answer = xExp[x].answer
        /\ q.job = xExp[x].job /\ q.images = xExp[x].images
    BY <1>0 DEF ExportTypes
  <2> HIDE DEF q
  <2>3. Staged(q) /\ (\A e \in xEvents : Counted(q, e)) /\ xExp'[x] = q
    BY <1>0, <2>1, <2>2 DEF Staged, Counted, ExportInv, ExportTypesInv
  \* It has not written anything before it has made the directory.
  <2>4. ASSUME NEW e \in xEvents PROVE Written(q, e, FilesIn(xDisk[q.dir], x, e))
    <3>1. xExp[x].job[e] \in {"todo", "nothing"}
      BY <1>0, <2>1 DEF Staged
    <3>2. ASSUME NEW f \in X!Files, <<x, e, f>> \in xDisk[q.dir] PROVE FALSE
      <4>1. q.dir \in X!Seconds
        BY <1>0, <2>1, <2>2
      <4>2. <<x, e, f>>[1] = x
        OBVIOUS
      <4> QED
        BY <2>1, <3>2, <4>1, <4>2 DEF ExportInv, DiskInv
    <3>3. FilesIn(xDisk[q.dir], x, e) = {}
      BY <3>2 DEF FilesIn
    <3> QED
      BY <2>2, <3>1, <3>3 DEF Written
  <2>5. OwnInv(x)'
    <3>1. xExp'[x].answer = "none"
      BY <1>0, <2>1, <2>2, <2>3 DEF Staged
    <3>2. xDisk' = xDisk
      BY <2>1
    <3> QED
      BY <2>2, <2>3, <2>4, <3>1, <3>2 DEF OwnInv
  <2> QED
    BY <2>1, <2>2, <2>3, <2>5, MoveKeeps
<1>5. ASSUME NEW x \in xExports, X!MkdirFails(x) PROVE ExportInv'
  <2> DEFINE q == [xExp[x] EXCEPT !.at = "done", !.answer = "refused"]
  <2>1. xExp[x].at = "mkdir" /\ xExp' = [xExp EXCEPT ![x] = q] /\ UNCHANGED <<xNow, xMade, xDisk, xCrashed>>
    BY <1>5 DEF X!MkdirFails
  <2>2. /\ q \in ExportTypes /\ q.at = "done" /\ q.answer = "refused" /\ q.dir = xExp[x].dir
        /\ q.job = xExp[x].job /\ q.images = xExp[x].images
    BY <1>0 DEF ExportTypes
  <2> HIDE DEF q
  <2>3. Staged(q) /\ (\A e \in xEvents : Counted(q, e)) /\ xExp'[x] = q
    BY <1>0, <2>1, <2>2 DEF Staged, Counted, ExportInv, ExportTypesInv
  <2>4. OwnInv(x)'
    BY <2>2, <2>3 DEF OwnInv
  <2> QED
    BY <2>1, <2>2, <2>3, <2>4, MoveKeeps
<1>6. ASSUME NEW x \in xExports, X!ZipStarts(x) PROVE ExportInv'
  <2> DEFINE q == [xExp[x] EXCEPT !.at = "walk", !.found = xDisk[xExp[x].dir]]
  <2>1. xExp[x].at = "write" /\ xExp' = [xExp EXCEPT ![x] = q] /\ UNCHANGED <<xNow, xMade, xDisk, xCrashed>>
    BY <1>6 DEF X!ZipStarts
  <2>2. /\ q \in ExportTypes /\ q.at = "walk" /\ q.answer = xExp[x].answer /\ q.dir = xExp[x].dir
        /\ q.job = xExp[x].job /\ q.images = xExp[x].images /\ q.found = xDisk[xExp[x].dir]
    BY <1>0, <2>1 DEF ExportTypes
  <2> HIDE DEF q
  <2>3. Staged(q) /\ (\A e \in xEvents : Counted(q, e)) /\ xExp'[x] = q
    BY <1>0, <2>1, <2>2 DEF Staged, Counted, ExportInv, ExportTypesInv
  <2>4. Alone(x)' => Alone(x)
    BY <2>1, <2>2, <2>3 DEF Alone, ExportInv, ExportTypesInv
  <2>5. Evidence(x)' = Evidence(x)
    BY <2>2, <2>3 DEF Evidence, X!Wrote
  <2>6. OwnInv(x)'
    BY <1>6, <2>1, <2>2, <2>3, <2>4, <2>5, EvidenceOnDisk DEF OwnInv, X!ZipStarts
  <2> QED
    BY <2>1, <2>2, <2>3, <2>6, MoveKeeps
<1>7. ASSUME NEW x \in xExports, X!ZipEnds(x) PROVE ExportInv'
  <2> DEFINE q == [xExp[x] EXCEPT !.at = "remove", !.answer = "zip"]
  <2>1. xExp[x].at = "walk" /\ xExp' = [xExp EXCEPT ![x] = q] /\ UNCHANGED <<xNow, xMade, xDisk, xCrashed>>
    BY <1>7 DEF X!ZipEnds
  <2>2. /\ q \in ExportTypes /\ q.at = "remove" /\ q.answer = "zip" /\ q.dir = xExp[x].dir
        /\ q.job = xExp[x].job /\ q.images = xExp[x].images /\ q.found = xExp[x].found
    BY <1>0, <2>1 DEF ExportTypes
  <2> HIDE DEF q
  <2>3. Staged(q) /\ (\A e \in xEvents : Counted(q, e)) /\ xExp'[x] = q
    BY <1>0, <2>1, <2>2 DEF Staged, Counted, ExportInv, ExportTypesInv
  <2>4. Alone(x)' => Alone(x)
    BY <2>1, <2>2, <2>3 DEF Alone, ExportInv, ExportTypesInv
  <2>5. Evidence(x)' = Evidence(x)
    BY <2>2, <2>3 DEF Evidence, X!Wrote
  <2>6. OwnInv(x)'
    BY <1>0, <2>1, <2>2, <2>3, <2>4, <2>5 DEF OwnInv
  <2> QED
    BY <2>1, <2>2, <2>3, <2>6, MoveKeeps
<1>8. ASSUME NEW x \in xExports, X!ZipFails(x) PROVE ExportInv'
  <2> DEFINE q == [xExp[x] EXCEPT !.at = "remove", !.answer = "refused"]
  <2>1. xExp[x].at \in {"write", "walk"} /\ xExp' = [xExp EXCEPT ![x] = q] /\ UNCHANGED <<xNow, xMade, xDisk, xCrashed>>
    BY <1>8 DEF X!ZipFails
  <2>2. /\ q \in ExportTypes /\ q.at = "remove" /\ q.answer = "refused" /\ q.dir = xExp[x].dir
        /\ q.job = xExp[x].job /\ q.images = xExp[x].images
    BY <1>0, <2>1 DEF ExportTypes
  <2> HIDE DEF q
  <2>3. Staged(q) /\ (\A e \in xEvents : Counted(q, e)) /\ xExp'[x] = q
    BY <1>0, <2>1, <2>2 DEF Staged, Counted, ExportInv, ExportTypesInv
  <2>4. OwnInv(x)'
    BY <2>2, <2>3 DEF OwnInv
  <2> QED
    BY <2>1, <2>2, <2>3, <2>4, MoveKeeps
<1>9. ASSUME NEW x \in xExports, X!Remove(x) PROVE ExportInv'
  BY <1>9, RemoveKeeps
<1>10. ASSUME NEW x \in xExports, NEW e \in xEvents, X!Work(x, e) PROVE ExportInv'
  BY <1>10, WorkersKeep
<1>11. CASE X!Tick
  <2>1. xNow' \in X!Seconds
    BY <1>11, RequestsAssumption DEF X!Tick, X!Seconds, ExportInv, ExportTypesInv
  <2> QED
    BY <1>11, <2>1 DEF X!Tick, ExportInv, ExportTypesInv, DiskInv, OwnInv, Alone, Evidence, X!Wrote
<1> QED
  BY <1>1, <1>2, <1>3, <1>4, <1>5, <1>6, <1>7, <1>8, <1>9, <1>10, <1>11 DEF X!Next

LEMMA ExportInvShows == ExportInv => X!TypeOK /\ X!ExportIsOwn /\ X!NothingLeftBehind
<1> SUFFICES ASSUME ExportInv PROVE X!TypeOK /\ X!ExportIsOwn /\ X!NothingLeftBehind
  OBVIOUS
<1>1. X!TypeOK
  BY DEF ExportInv, ExportTypesInv, ExportTypes, DiskInv, X!TypeOK
<1>2. X!ExportIsOwn
  <2> SUFFICES ASSUME NEW x \in xExports, xExp[x].answer = "zip", ~X!Shared(x)
               PROVE  xExp[x].found = Evidence(x)
    BY DEF X!ExportIsOwn, Evidence
  <2>1. Alone(x)
    BY DEF Alone, X!Shared
  <2> QED
    BY <2>1 DEF ExportInv, OwnInv
<1>3. X!NothingLeftBehind
  BY DEF ExportInv, DiskInv, X!NothingLeftBehind
<1> QED
  BY <1>1, <1>2, <1>3

-----------------------------------------------------------------------------
(***************************************************************************)
(* The pages. The place of an event is the number of those in the list     *)
(* that are newer. An event of a date of its own is found on the page of   *)
(* its place; as long as none leaves the list no place gets smaller, and   *)
(* one that leaves lets at most one event slip from behind the pages that  *)
(* have been read to before their end.                                     *)
(***************************************************************************)
Listed(docs, q) == {e \in pEvents : P!Matches(docs[e], q)}

Newer(L, docs, e) == {f \in L : docs[f].createdAt > docs[e].createdAt}

Place(L, docs, e) == Cardinality(Newer(L, docs, e))

HasOwnDate(L, docs, e) == \A f \in L \ {e} : docs[f].createdAt # docs[e].createdAt

Dated(L, docs) == IsFiniteSet(L) /\ \A f \in L : docs[f].createdAt \in Int

\* Those of T that should have been on the pages with the first n places.
Passed(L, docs, T, n) == {e \in T : Place(L, docs, e) < n}

LEMMA PlaceIsNat ==
  ASSUME NEW L, NEW docs, Dated(L, docs), NEW e
  PROVE  /\ Place(L, docs, e) \in Nat /\ IsFiniteSet(Newer(L, docs, e))
         /\ Newer(L, docs, e) \subseteq L
<1>1. Newer(L, docs, e) \in SUBSET L
  BY DEF Newer
<1>2. IsFiniteSet(Newer(L, docs, e))
  BY <1>1, FS_Subset DEF Dated
<1> QED
  BY <1>1, <1>2, FS_CardinalityType DEF Place

LEMMA NewerComesFirst ==
  ASSUME NEW L, NEW docs, Dated(L, docs), NEW e \in L, NEW f \in Newer(L, docs, e)
  PROVE  Place(L, docs, f) < Place(L, docs, e)
<1>1. Newer(L, docs, f) \in SUBSET Newer(L, docs, e)
  BY DEF Newer, Dated
<1>2. f \notin Newer(L, docs, f)
  BY DEF Newer, Dated
<1>3. Newer(L, docs, f) # Newer(L, docs, e)
  BY <1>2
<1>4. /\ Place(L, docs, e) \in Nat /\ Place(L, docs, f) \in Nat
      /\ IsFiniteSet(Newer(L, docs, e))
  BY PlaceIsNat
<1>5. Place(L, docs, f) <= Place(L, docs, e) /\ Place(L, docs, f) # Place(L, docs, e)
  BY <1>1, <1>3, <1>4, FS_Subset DEF Place
<1> QED
  BY <1>4, <1>5

AtPlace(L, docs, T, n) == {e \in T : Place(L, docs, e) = n}

\* No two events of their own dates have one place.
LEMMA OneForAPlace ==
  ASSUME NEW L, NEW docs, Dated(L, docs), NEW T \in SUBSET L,
         \A e \in T : HasOwnDate(L, docs, e), NEW n \in Nat
  PROVE  /\ IsFiniteSet(AtPlace(L, docs, T, n))
         /\ Cardinality(AtPlace(L, docs, T, n)) <= 1
<1> DEFINE H == {e \in T : Place(L, docs, e) = n}
<1>0. AtPlace(L, docs, T, n) = H
  BY DEF AtPlace
<1>1. CASE H = {}
  BY <1>0, <1>1, FS_EmptySet
<1>2. CASE H # {}
  <2>1. PICK a \in H : TRUE
    BY <1>2
  <2>2. ASSUME NEW b \in H, b # a PROVE FALSE
    <3>1. docs[a].createdAt # docs[b].createdAt
      BY <2>1, <2>2 DEF HasOwnDate
    <3>2. docs[a].createdAt \in Int /\ docs[b].createdAt \in Int /\ a \in L /\ b \in L
      BY <2>1, <2>2 DEF Dated
    <3>3. a \in Newer(L, docs, b) \/ b \in Newer(L, docs, a)
      BY <3>1, <3>2 DEF Newer
    <3>4. n < n
      BY <2>1, <2>2, <3>2, <3>3, NewerComesFirst
    <3> QED
      BY <3>4
  <2>3. H \in SUBSET {a}
    BY <2>2
  <2>4. IsFiniteSet({a}) /\ Cardinality({a}) = 1
    BY FS_Singleton
  <2> HIDE DEF H
  <2>5. IsFiniteSet(H) /\ Cardinality(H) <= 1
    BY <2>3, <2>4, FS_Subset
  <2> QED
    BY <1>0, <2>5
<1> QED
  BY <1>1, <1>2

\* Where the list K has all of L no place is smaller than it was; and where it lacks one
\* event, at most by one.
LEMMA PlacesMove ==
  ASSUME NEW L, NEW K, NEW docs, NEW new, Dated(L, docs), Dated(K, new),
         \A f \in L \cap K : new[f].createdAt = docs[f].createdAt,
         NEW g, L \ {g} \subseteq K, NEW e \in L \cap K
  PROVE  /\ L \subseteq K => Place(L, docs, e) <= Place(K, new, e)
         /\ Place(L, docs, e) <= Place(K, new, e) + 1
<1>1. /\ Place(L, docs, e) \in Nat /\ IsFiniteSet(Newer(L, docs, e))
      /\ Place(K, new, e) \in Nat /\ IsFiniteSet(Newer(K, new, e))
  BY PlaceIsNat
<1>2. ASSUME L \subseteq K PROVE Place(L, docs, e) <= Place(K, new, e)
  <2>1. Newer(L, docs, e) \in SUBSET Newer(K, new, e)
    BY <1>2 DEF Newer
  <2> QED
    BY <1>1, <2>1, FS_Subset DEF Place
<1>3. Place(L, docs, e) <= Place(K, new, e) + 1
  <2> DEFINE N == Newer(L, docs, e) \ {g}
  <2>1. N \in SUBSET Newer(K, new, e)
    BY DEF Newer
  <2>2. IsFiniteSet(N) /\ Place(L, docs, e) <= Cardinality(N) + 1
    <3>1. /\ IsFiniteSet(N)
          /\ Cardinality(N) = IF g \in Newer(L, docs, e) THEN Place(L, docs, e) - 1
                              ELSE Place(L, docs, e)
      BY <1>1, FS_RemoveElement DEF Place
    <3> QED
      BY <1>1, <3>1
  <2>3. Cardinality(N) <= Place(K, new, e)
    BY <1>1, <2>1, FS_Subset DEF Place
  <2>4. Cardinality(N) \in Nat
    BY <2>2, FS_CardinalityType
  <2> QED
    BY <1>1, <2>2, <2>3, <2>4
<1> QED
  BY <1>2, <1>3

\* In any order of the list by date, an event of a date of its own is at its place.
LEMMA FoundAtItsPlace ==
  ASSUME NEW L, NEW docs, Dated(L, docs), NEW order \in P!SetToSeqs(L),
         \A i, j \in 1..Len(order) : i < j =>
            docs[order[i]].createdAt >= docs[order[j]].createdAt,
         NEW e \in L, HasOwnDate(L, docs, e)
  PROVE  \E i \in DOMAIN order : order[i] = e /\ i = Place(L, docs, e) + 1
<1> DEFINE n == Cardinality(L)
           D == 1..n
<1>1. n \in Nat /\ IsFiniteSet(L)
  BY FS_CardinalityType DEF Dated
<1>2. order \in [D -> L] /\ \A i, j \in D : i # j => order[i] # order[j]
  BY PCardinality DEF P!SetToSeqs
<1>3. order \in Injection(D, L)
  BY <1>2 DEF Injection, IsInjective
<1>4. IsFiniteSet(D) /\ Cardinality(D) = n
  BY <1>1, FS_Interval
<1>5. order \in Surjection(D, L)
  BY <1>1, <1>3, <1>4, FS_Injection
<1>6. PICK i \in D : order[i] = e
  BY <1>5 DEF Surjection
<1>7. Len(order) = n /\ DOMAIN order = D
  <2>1. order \in Seq(L)
    BY <1>1, <1>2
  <2> QED
    BY <1>1, <1>2, <2>1
<1>8. \A j \in D : order[j] \in Newer(L, docs, e) <=> j < i
  <2>1. ASSUME NEW j \in D, j < i PROVE order[j] \in Newer(L, docs, e)
    <3>1. docs[order[j]].createdAt >= docs[e].createdAt
      BY <1>6, <1>7, <2>1
    <3>2. order[j] \in L \ {e}
      BY <1>1, <1>2, <1>6, <2>1
    <3>3. docs[order[j]].createdAt \in Int /\ docs[e].createdAt \in Int
      BY <3>2 DEF Dated
    <3> QED
      BY <3>1, <3>2, <3>3 DEF HasOwnDate, Newer
  <2>2. ASSUME NEW j \in D, ~(j < i) PROVE order[j] \notin Newer(L, docs, e)
    <3>1. CASE j = i
      BY <1>6, <3>1 DEF Newer, Dated
    <3>2. CASE j # i
      <4>1. i < j
        BY <1>1, <1>6, <2>2, <3>2
      <4>2. docs[e].createdAt >= docs[order[j]].createdAt
        BY <1>6, <1>7, <4>1
      <4>3. docs[order[j]].createdAt \in Int /\ docs[e].createdAt \in Int
        BY <1>2 DEF Dated
      <4> QED
        BY <4>2, <4>3 DEF Newer
    <3> QED
      BY <3>1, <3>2
  <2> QED
    BY <2>1, <2>2
<1> DEFINE before == 1..(i - 1)
           first == [j \in before |-> order[j]]
<1>9. i \in Nat \ {0} /\ before \subseteq D /\ \A j \in D : j < i <=> j \in before
  BY <1>1, <1>6
<1>10. first \in [before -> Newer(L, docs, e)]
  BY <1>8, <1>9
<1>11. \A f \in Newer(L, docs, e) : \E j \in before : first[j] = f
  <2> SUFFICES ASSUME NEW f \in Newer(L, docs, e) PROVE \E j \in before : first[j] = f
    OBVIOUS
  <2>1. f \in L
    BY DEF Newer
  <2>2. PICK j \in D : order[j] = f
    BY <1>5, <2>1 DEF Surjection
  <2> QED
    BY <1>8, <1>9, <2>2
<1>12. first \in Surjection(before, Newer(L, docs, e))
  BY <1>10, <1>11 DEF Surjection
<1>13. first \in Injection(before, Newer(L, docs, e))
  BY <1>2, <1>9, <1>10 DEF Injection, IsInjective
<1>14. IsFiniteSet(before) /\ Cardinality(before) = i - 1
  BY <1>9, FS_Interval
<1> HIDE DEF first, before
<1>15. Cardinality(Newer(L, docs, e)) = Cardinality(before)
  BY <1>12, <1>13, <1>14, FS_Surjection
<1> QED
  BY <1>6, <1>7, <1>9, <1>14, <1>15 DEF Place

\* Of a list of at most t + j events no more than j have the places from t on.
LEMMA FewAtTheEnd ==
  ASSUME NEW L, NEW docs, Dated(L, docs), NEW t \in Nat, NEW j \in Nat,
         Cardinality(L) <= t + j, NEW U \in SUBSET L,
         \A e \in U : Place(L, docs, e) >= t
  PROVE  IsFiniteSet(U) /\ Cardinality(U) <= j
<1>0. IsFiniteSet(L) /\ IsFiniteSet(U) /\ Cardinality(U) \in Nat /\ Cardinality(L) \in Nat
  BY FS_Subset, FS_CardinalityType DEF Dated
<1>1. CASE U = {}
  BY <1>0, <1>1, FS_EmptySet
<1>2. CASE U # {}
  <2> DEFINE Places == {Place(L, docs, e) : e \in U}
  <2>1. Places \in SUBSET Nat /\ Places # {}
    BY <1>2, PlaceIsNat
  <2>2. PICK m \in Places : \A n \in Places : m <= n
    BY <2>1, Smallest
  <2>3. PICK e \in U : \A f \in U : Place(L, docs, e) <= Place(L, docs, f)
    BY <2>2
  <2> DEFINE N == Newer(L, docs, e)
  <2>4. /\ Place(L, docs, e) \in Nat /\ IsFiniteSet(N) /\ N \subseteq L
        /\ Cardinality(N) = Place(L, docs, e) /\ Place(L, docs, e) >= t
    BY <2>3, PlaceIsNat DEF Place
  <2>5. N \cap U = {}
    <3> SUFFICES ASSUME NEW f \in N, f \in U PROVE FALSE
      OBVIOUS
    <3>1. Place(L, docs, f) < Place(L, docs, e)
      BY <2>3, NewerComesFirst
    <3>2. Place(L, docs, f) \in Nat
      BY PlaceIsNat
    <3> QED
      BY <2>3, <2>4, <3>1, <3>2
  <2> HIDE DEF N
  <2>6. Cardinality(N \cup U) = Cardinality(N) + Cardinality(U) - Cardinality({})
    BY <1>0, <2>4, <2>5, FS_Union
  <2>7. Cardinality({}) = 0
    BY FS_EmptySet
  <2>8. Cardinality(N \cup U) <= Cardinality(L)
    BY <1>0, <2>4, FS_Subset
  <2> QED
    BY <1>0, <2>4, <2>6, <2>7, <2>8
<1> QED
  BY <1>1, <1>2

Stock == [pEvents -> P!Docs \cup {P!Gone}]

Pagers ==
  [at : {"idle", "count", "find", "done", "error"}, query : pQueries,
   perPage : {k \in pPageSizes \cup {pPerPage} : k > 0},
   page : 1..(Cardinality(pEvents) + 1), total : 0..Cardinality(pEvents),
   seen : SUBSET pEvents]

PageTypes ==
  /\ pStored \in Stock /\ pPager \in Pagers /\ pSteady \subseteq pEvents
  /\ pDone \in 0..pWrites /\ pLeft \in 0..pDone /\ pJoined \in 0..pDone

List == Listed(pStored, pPager.query)

\* The places on the pages that have been read.
Before == (pPager.page - 1) * pPager.perPage

PagesInv ==
  /\ PageTypes
  /\ pPager.at = "idle" => pSteady = {}
  /\ pPager.at \in {"count", "find"} =>
       /\ pSteady \subseteq List /\ \A e \in pSteady : HasOwnDate(List, pStored, e)
       /\ Cardinality(Passed(List, pStored, pSteady \ pPager.seen, Before)) <= pLeft
  /\ pPager.at = "find" => Cardinality(List) <= pPager.total + pJoined
  /\ pPager.at = "done" => Cardinality(pSteady \ pPager.seen) <= pLeft + pJoined

LEMMA PagesArePositive ==
  ASSUME NEW r \in Pagers
  PROVE  r.perPage \in Nat \ {0}
<1>1. r.perPage \in {k \in pPageSizes \cup {pPerPage} : k > 0}
  BY DEF Pagers
<1>2. \A k \in pPageSizes \cup {pPerPage} : k \in Int
  BY RequestsAssumption
<1> QED
  BY <1>1, <1>2

LEMMA ListIsDated ==
  ASSUME NEW docs \in Stock, NEW q
  PROVE  /\ Dated(Listed(docs, q), docs) /\ Listed(docs, q) \in SUBSET pEvents
         /\ IsFiniteSet(Listed(docs, q))
         /\ Cardinality(Listed(docs, q)) \in 0..Cardinality(pEvents)
         /\ Cardinality(pEvents) \in Nat /\ IsFiniteSet(pEvents)
<1>1. IsFiniteSet(pEvents) /\ Cardinality(pEvents) \in Nat
  BY RequestsAssumption, FS_CardinalityType
<1>2. Listed(docs, q) \in SUBSET pEvents
  BY DEF Listed
<1>3. IsFiniteSet(Listed(docs, q)) /\ Cardinality(Listed(docs, q)) <= Cardinality(pEvents)
  BY <1>1, <1>2, FS_Subset
<1>4. Cardinality(Listed(docs, q)) \in Nat
  BY <1>3, FS_CardinalityType
<1>5. ASSUME NEW e \in Listed(docs, q) PROVE docs[e].createdAt \in Int
  <2>1. docs[e] \in P!Docs
    BY <1>5 DEF Listed, P!Matches, Stock
  <2> QED
    BY <2>1, RequestsAssumption DEF P!Docs
<1> QED
  BY <1>1, <1>2, <1>3, <1>4, <1>5 DEF Dated

LEMMA PagesInvInit == P!Init => PagesInv
<1> SUFFICES ASSUME P!Init PROVE PagesInv
  OBVIOUS
<1>1. pStored \in Stock
  BY DEF P!Init, Stock
<1>2. Cardinality(pEvents) \in Nat
  BY RequestsAssumption, FS_CardinalityType
<1>3. P!NoPager \in Pagers
  <2>1. 1 \in 1..(Cardinality(pEvents) + 1) /\ 0 \in 0..Cardinality(pEvents)
    BY <1>2
  <2>2. (CHOOSE q \in pQueries : TRUE) \in pQueries
    BY RequestsAssumption
  <2>3. pPerPage \in {k \in pPageSizes \cup {pPerPage} : k > 0}
    BY RequestsAssumption
  <2> QED
    BY <2>1, <2>2, <2>3 DEF P!NoPager, Pagers
<1>4. PageTypes /\ pSteady = {}
  BY <1>1, <1>3, RequestsAssumption DEF P!Init, PageTypes
<1>5. pPager.at = "idle"
  BY DEF P!Init, P!NoPager
<1> QED
  BY <1>4, <1>5 DEF PagesInv

\* A write changes one event, and the date of none.
LEMMA WriteKeeps ==
  ASSUME PagesInv, NEW g \in pEvents, NEW doc \in P!Docs \cup {P!Gone},
         doc = P!Gone \/ pStored[g] = P!Gone \/ doc.createdAt = pStored[g].createdAt,
         P!Write([pStored EXCEPT ![g] = doc])
  PROVE  PagesInv'
<1> DEFINE q == pPager.query
           new == [pStored EXCEPT ![g] = doc]
           L == Listed(pStored, q)
           K == Listed(new, q)
           left == IF pPager.page = 1 THEN 0 ELSE Cardinality(L \ K)
           joined == IF pPager.at = "find" THEN Cardinality(K \ L) ELSE 0
<1>1. new \in Stock /\ pStored \in Stock
  BY DEF PagesInv, PageTypes, Stock
<1>2. /\ pStored' = new /\ pPager' = pPager /\ pDone' = pDone + 1 /\ pDone < pWrites
      /\ pSteady' = {e \in pSteady \cap K : HasOwnDate(K, new, e)}
      /\ pLeft' = pLeft + left /\ pJoined' = pJoined + joined
      /\ pPager.at \in {"count", "find"}
  BY PCardinality DEF P!Write, P!Found, P!OwnDate, HasOwnDate, Listed
<1>3. new[g] = doc /\ \A e \in pEvents \ {g} : new[e] = pStored[e]
  BY <1>1 DEF Stock
<1> HIDE DEF new
<1>4. /\ Dated(L, pStored) /\ L \in SUBSET pEvents /\ IsFiniteSet(L)
      /\ Dated(K, new) /\ K \in SUBSET pEvents /\ IsFiniteSet(K)
      /\ Cardinality(L) \in Nat /\ Cardinality(K) \in Nat
  BY <1>1, ListIsDated
<1>5. L \ {g} \subseteq K /\ K \ {g} \subseteq L
  BY <1>3, <1>4 DEF Listed
<1>6. \A f \in L \cap K : new[f].createdAt = pStored[f].createdAt
  <2> SUFFICES ASSUME NEW f \in L \cap K PROVE new[f].createdAt = pStored[f].createdAt
    OBVIOUS
  <2>1. pStored[f] # P!Gone /\ new[f] # P!Gone /\ f \in pEvents
    BY DEF Listed, P!Matches
  <2> QED
    BY <1>3, <2>1
<1>7. /\ IsFiniteSet(L \ K) /\ Cardinality(L \ K) \in 0..1 /\ (Cardinality(L \ K) = 0 => L \subseteq K)
      /\ IsFiniteSet(K \ L) /\ Cardinality(K \ L) \in 0..1
  <2>1. IsFiniteSet({g}) /\ Cardinality({g}) = 1
    BY FS_Singleton
  <2>2. L \ K \in SUBSET {g} /\ K \ L \in SUBSET {g}
    BY <1>5
  <2>3. /\ IsFiniteSet(L \ K) /\ Cardinality(L \ K) <= 1
        /\ IsFiniteSet(K \ L) /\ Cardinality(K \ L) <= 1
    BY <2>1, <2>2, FS_Subset
  <2>4. Cardinality(L \ K) \in Nat /\ Cardinality(K \ L) \in Nat
    BY <2>3, FS_CardinalityType
  <2>5. Cardinality(L \ K) = 0 => L \ K = {}
    BY <2>3, FS_EmptySet
  <2> QED
    BY <2>3, <2>4, <2>5
<1>8. left \in 0..1 /\ joined \in 0..1
  BY <1>7
<1> HIDE DEF left, joined
<1>9. PageTypes'
  <2>1. pDone + 1 \in 0..pWrites /\ pLeft + left \in 0..(pDone + 1)
        /\ pJoined + joined \in 0..(pDone + 1)
    <3>1. pDone \in Nat /\ pLeft \in 0..pDone /\ pJoined \in 0..pDone
      BY RequestsAssumption DEF PagesInv, PageTypes
    <3>2. \A n \in Nat : \A l \in 0..n, i \in 0..1 : l + i \in 0..(n + 1)
      OBVIOUS
    <3>3. pDone + 1 \in 0..pWrites
      BY <1>2, <3>1, RequestsAssumption
    <3> QED
      BY <1>8, <3>1, <3>2, <3>3
  <2> QED
    BY <1>1, <1>2, <2>1 DEF PagesInv, PageTypes
<1>10. List' = K /\ Before' = Before /\ List = L
  BY <1>2 DEF List, Before
<1>11. pSteady' \subseteq K /\ \A e \in pSteady' : HasOwnDate(K, new, e)
  BY <1>2
<1> DEFINE T == pSteady \ pPager.seen
           U == pSteady' \ pPager.seen
           was == Passed(L, pStored, T, Before)
           is == Passed(K, new, U, Before)
           edge == AtPlace(L, pStored, T, Before)
<1>12. /\ T \in SUBSET L /\ U \in SUBSET T /\ U \subseteq K
       /\ \A e \in T : HasOwnDate(L, pStored, e)
       /\ Cardinality(was) <= pLeft /\ pLeft \in Nat
  BY <1>2, <1>10 DEF PagesInv, PageTypes
<1>13. Before \in Nat /\ (pPager.page = 1 => Before = 0)
  <2>1. pPager.page \in Nat \ {0} /\ pPager.perPage \in Nat
    BY PagesArePositive DEF PagesInv, PageTypes, Pagers
  <2> QED
    BY <2>1 DEF Before
<1> HIDE DEF L, K, q, T, U
<1>14. /\ IsFiniteSet(was) /\ Cardinality(was) \in Nat
       /\ IsFiniteSet(edge) /\ Cardinality(edge) <= 1 /\ Cardinality(edge) \in Nat
       /\ Cardinality(was \cap edge) = 0
  <2>1. was \in SUBSET L /\ edge \in SUBSET L
    BY <1>12 DEF Passed, AtPlace
  <2>2. IsFiniteSet(was) /\ IsFiniteSet(edge)
    BY <1>4, <2>1, FS_Subset
  <2>3. was \cap edge = {}
    <3>1. ~(Before < Before)
      BY <1>13
    <3> QED
      BY <3>1 DEF Passed, AtPlace
  <2>4. Cardinality(edge) <= 1
    BY <1>4, <1>12, <1>13, OneForAPlace
  <2> QED
    BY <2>2, <2>3, <2>4, FS_CardinalityType, FS_EmptySet
<1>15. ASSUME NEW e \in is
       PROVE  e \in T /\ Place(L, pStored, e) <= Before
              /\ (L \subseteq K => Place(L, pStored, e) < Before)
  <2>1. e \in U /\ Place(K, new, e) < Before /\ e \in T /\ e \in L \cap K
    BY <1>12, <1>15 DEF Passed
  <2>2. /\ L \subseteq K => Place(L, pStored, e) <= Place(K, new, e)
        /\ Place(L, pStored, e) <= Place(K, new, e) + 1
    BY <1>4, <1>5, <1>6, <2>1, PlacesMove
  <2>3. Place(L, pStored, e) \in Nat /\ Place(K, new, e) \in Nat
    BY <1>4, PlaceIsNat
  <2> QED
    BY <1>13, <2>1, <2>2, <2>3
<1>16. Cardinality(is) <= pLeft'
  <2>1. CASE L \subseteq K
    <3>1. is \in SUBSET was
      BY <1>15, <2>1 DEF Passed
    <3>2. Cardinality(is) <= Cardinality(was) /\ IsFiniteSet(is)
      BY <1>14, <3>1, FS_Subset
    <3>3. Cardinality(is) \in Nat
      BY <3>2, FS_CardinalityType
    <3> QED
      BY <1>2, <1>8, <1>12, <1>14, <3>2, <3>3
  <2>2. CASE pPager.page = 1
    <3>1. is = {}
      <4>1. \A e : Place(K, new, e) \in Nat
        BY <1>4, PlaceIsNat
      <4>2. \A n \in Nat : ~(n < Before)
        BY <1>13, <2>2
      <4> QED
        BY <4>1, <4>2 DEF Passed
    <3>2. Cardinality(is) = 0
      BY <3>1, FS_EmptySet
    <3> QED
      BY <1>2, <1>8, <1>12, <3>2
  <2>3. CASE ~(L \subseteq K) /\ pPager.page # 1
    <3>1. is \in SUBSET (was \cup edge)
      <4> SUFFICES ASSUME NEW e \in is PROVE e \in was \/ e \in edge
        OBVIOUS
      <4>1. Place(L, pStored, e) \in Nat
        BY <1>4, PlaceIsNat
      <4> QED
        BY <1>13, <1>15, <4>1 DEF Passed, AtPlace
    <3>2. left = 1
      BY <1>7, <2>3 DEF left
    <3>3. /\ IsFiniteSet(was \cup edge)
          /\ Cardinality(was \cup edge)
               = Cardinality(was) + Cardinality(edge) - Cardinality(was \cap edge)
      BY <1>14, FS_Union
    <3>4. Cardinality(is) <= Cardinality(was \cup edge) /\ IsFiniteSet(is)
      BY <3>1, <3>3, FS_Subset
    <3>5. Cardinality(is) \in Nat
      BY <3>4, FS_CardinalityType
    <3> HIDE DEF was, is, edge
    <3> QED
      BY <1>2, <1>12, <1>14, <3>2, <3>3, <3>4, <3>5
  <2> QED
    BY <2>1, <2>2, <2>3
<1>17. pPager.at = "find" => Cardinality(K) <= pPager.total + pJoined'
  <2> SUFFICES ASSUME pPager.at = "find" PROVE Cardinality(K) <= pPager.total + pJoined'
    OBVIOUS
  <2>1. joined = Cardinality(K \ L)
    BY DEF joined
  <2>2. Cardinality(L) <= pPager.total + pJoined
    BY <1>10 DEF PagesInv
  <2>3. /\ IsFiniteSet(L \cup (K \ L))
        /\ Cardinality(L \cup (K \ L))
             = Cardinality(L) + Cardinality(K \ L) - Cardinality(L \cap (K \ L))
    BY <1>4, <1>7, FS_Union
  <2>4. L \cap (K \ L) = {} /\ Cardinality({}) = 0
    BY FS_EmptySet
  <2>5. Cardinality(K) <= Cardinality(L \cup (K \ L))
    <3>1. K \in SUBSET (L \cup (K \ L))
      OBVIOUS
    <3> QED
      BY <2>3, <3>1, FS_Subset
  <2>6. pPager.total \in Nat /\ pJoined \in Nat
    BY ListIsDated, <1>1 DEF PagesInv, PageTypes, Pagers
  <2>7. Cardinality(K) <= Cardinality(L) + joined
    <3>1. \A a, b, c, d \in Nat : b = c + d - 0 /\ a <= b => a <= c + d
      OBVIOUS
    <3>2. Cardinality(L \cup (K \ L)) \in Nat /\ Cardinality(K \ L) \in Nat
      BY <1>7, <2>3, FS_CardinalityType
    <3>3. Cardinality(L \cup (K \ L)) = Cardinality(L) + Cardinality(K \ L) - 0
      BY <2>3, <2>4
    <3> QED
      BY <1>4, <2>1, <2>5, <3>1, <3>2, <3>3, Zenon
  <2>8. \A a, b, t, j \in Nat, i \in 0..1 : a <= b + i /\ b <= t + j => a <= t + (j + i)
    OBVIOUS
  <2> QED
    BY <1>2, <1>4, <1>8, <2>2, <2>6, <2>7, <2>8
<1> QED
  BY <1>2, <1>9, <1>10, <1>11, <1>16, <1>17 DEF PagesInv, U

\* The number of pages: all of them hold the list, and none is without an event.
LEMMA PagesHoldAll ==
  ASSUME NEW t \in Nat, NEW k \in Nat \ {0}, NEW p \in Nat
  PROVE  /\ P!TotalPage(t, k) <= t /\ P!TotalPage(t, k) \in Nat
         /\ ~(p < P!TotalPage(t, k)) => t <= p * k
<1>1. ((t + k - 1) \div k) <= t /\ ((t + k - 1) \div k) \in Nat
  OBVIOUS
<1>2. ~(p < ((t + k - 1) \div k)) => t <= p * k
  OBVIOUS
<1> QED
  BY <1>1, <1>2 DEF P!TotalPage

LEMMA FindKeeps ==
  ASSUME PagesInv, pPager.at = "find", NEW order \in P!Orders, P!Find(order)
  PROVE  PagesInv'
<1> DEFINE L == List
           p == pPager.page
           k == pPager.perPage
           total == pPager.total
           page == P!PageOf(order)
           seen == pPager.seen \cup page
           T == pSteady \ seen
           was == Passed(L, pStored, pSteady \ pPager.seen, Before)
           is == Passed(L, pStored, T, p * k)
<1>1. /\ pStored \in Stock /\ pPager \in Pagers /\ p \in Nat \ {0} /\ k \in Nat \ {0}
      /\ total \in Nat /\ total <= Cardinality(pEvents) /\ Cardinality(pEvents) \in Nat
      /\ pLeft \in Nat /\ pJoined \in Nat /\ pSteady \in SUBSET L
      /\ p <= Cardinality(pEvents) + 1
  <2>1. pStored \in Stock /\ pPager \in Pagers
    BY DEF PagesInv, PageTypes
  <2>2. Cardinality(pEvents) \in Nat
    BY <2>1, ListIsDated
  <2>3. p \in 1..(Cardinality(pEvents) + 1) /\ total \in 0..Cardinality(pEvents)
    BY <2>1 DEF Pagers
  <2>4. k \in Nat \ {0}
    BY <2>1, PagesArePositive
  <2> QED
    BY <2>1, <2>2, <2>3, <2>4, RequestsAssumption DEF PagesInv, PageTypes
<1>2. /\ Dated(L, pStored) /\ L \in SUBSET pEvents /\ IsFiniteSet(L)
      /\ \A e \in pSteady : HasOwnDate(L, pStored, e)
      /\ Cardinality(was) <= pLeft /\ Cardinality(L) <= total + pJoined
  BY <1>1, ListIsDated DEF PagesInv, List
<1>3. /\ order \in P!SetToSeqs(L)
      /\ \A i, j \in 1..Len(order) : i < j =>
            pStored[order[i]].createdAt >= pStored[order[j]].createdAt
  BY DEF P!Orders, P!Found, List, Listed
<1>4. page \subseteq pEvents
  BY <1>2, <1>3, PCardinality DEF P!PageOf, P!SetToSeqs
<1>5. Before \in Nat /\ p * k = Before + k /\ p * k \in Nat
  BY <1>1 DEF Before
<1> HIDE DEF L, p, k, total, page
<1>6. ASSUME NEW e \in T, Place(L, pStored, e) < p * k
      PROVE  e \in was
  <2>1. /\ e \in pSteady \ pPager.seen /\ e \notin page /\ e \in L
        /\ HasOwnDate(L, pStored, e) /\ Place(L, pStored, e) \in Nat
    BY <1>1, <1>2, PlaceIsNat
  <2>2. PICK i \in DOMAIN order : order[i] = e /\ i = Place(L, pStored, e) + 1
    BY <1>2, <1>3, <2>1, FoundAtItsPlace
  <2>3. ~(Before < i /\ i <= Before + k)
    BY <2>1, <2>2 DEF page, P!PageOf, P!Skip, Before, k
  <2>4. Place(L, pStored, e) < Before
    BY <1>1, <1>5, <1>6, <2>1, <2>2, <2>3
  <2> QED
    BY <2>1, <2>4 DEF Passed
<1>7. IsFiniteSet(was) /\ Cardinality(was) \in Nat
  <2>1. was \in SUBSET L
    BY <1>1 DEF Passed
  <2> QED
    BY <1>2, <2>1, FS_Subset, FS_CardinalityType
<1>8. UNCHANGED <<pStored, pSteady, pLeft, pJoined, pDone>>
  BY DEF P!Find
<1>9. CASE P!HasMore
  <2> DEFINE q == [pPager EXCEPT !.at = "count", !.page = @ + 1, !.seen = @ \cup page]
  <2>1. pPager' = q
    BY <1>9 DEF P!Find, page
  <2>2. p + 1 \in 1..(Cardinality(pEvents) + 1)
    <3>1. p < P!TotalPage(total, k)
      BY <1>9 DEF P!HasMore, p, total, k
    <3>2. P!TotalPage(total, k) <= total /\ P!TotalPage(total, k) \in Nat
      BY <1>1, PagesHoldAll
    <3> QED
      BY <1>1, <3>1, <3>2
  <2>3. /\ q \in Pagers /\ q.at = "count" /\ q.page = p + 1 /\ q.perPage = k
        /\ q.seen = seen /\ q.query = pPager.query
    BY <1>1, <1>4, <2>2 DEF Pagers, p, k
  <2> HIDE DEF q
  <2>4. List' = L /\ Before' = p * k
    <3>1. pPager'.page = p + 1 /\ pPager'.perPage = k
      BY <2>1, <2>3
    <3>2. pPager'.page - 1 = p
      BY <1>1, <3>1
    <3>3. Before' = (pPager'.page - 1) * pPager'.perPage
      BY DEF Before
    <3>4. Before' = p * k
      BY <3>1, <3>2, <3>3, Zenon
    <3> QED
      BY <1>8, <2>1, <2>3, <3>4 DEF L, List
  <2>5. Cardinality(is) <= pLeft
    <3>1. is \in SUBSET was
      BY <1>6 DEF Passed
    <3>2. IsFiniteSet(is) /\ Cardinality(is) <= Cardinality(was)
      BY <1>7, <3>1, FS_Subset
    <3>3. Cardinality(is) \in Nat
      BY <3>2, FS_CardinalityType
    <3> HIDE DEF is, was
    <3> QED
      BY <1>1, <1>2, <1>7, <3>2, <3>3
  <2>6. PageTypes'
    BY <1>8, <2>1, <2>3 DEF PagesInv, PageTypes
  <2> HIDE DEF was
  <2> QED
    BY <1>1, <1>2, <1>8, <2>1, <2>3, <2>4, <2>5, <2>6 DEF PagesInv
<1>10. CASE ~P!HasMore
  <2> DEFINE q == [pPager EXCEPT !.at = "done", !.seen = @ \cup page]
             U == {e \in T : Place(L, pStored, e) >= p * k}
  <2>1. pPager' = q
    BY <1>10 DEF P!Find, page
  <2>2. q \in Pagers /\ q.at = "done" /\ q.seen = seen
    BY <1>1, <1>4 DEF Pagers
  <2> HIDE DEF q
  <2>3. total <= p * k
    <3>1. ~(p < P!TotalPage(total, k))
      BY <1>10 DEF P!HasMore, p, total, k
    <3> QED
      BY <1>1, <3>1, PagesHoldAll
  <2>4. IsFiniteSet(U) /\ Cardinality(U) <= pJoined
    <3>1. U \in SUBSET L
      BY <1>1
    <3>2. \A e \in U : Place(L, pStored, e) >= total
      <4> SUFFICES ASSUME NEW e \in U PROVE Place(L, pStored, e) >= total
        OBVIOUS
      <4>1. Place(L, pStored, e) \in Nat /\ Place(L, pStored, e) >= p * k
        BY <1>2, PlaceIsNat
      <4> HIDE DEF U
      <4> QED
        BY <1>1, <1>5, <2>3, <4>1
    <3> HIDE DEF U
    <3> QED
      BY <1>1, <1>2, <3>1, <3>2, FewAtTheEnd
  <2>5. T \in SUBSET (was \cup U)
    <3> SUFFICES ASSUME NEW e \in T PROVE e \in was \/ e \in U
      OBVIOUS
    <3>1. Place(L, pStored, e) \in Nat
      BY <1>2, PlaceIsNat
    <3>2. Place(L, pStored, e) < p * k \/ Place(L, pStored, e) >= p * k
      BY <1>5, <3>1
    <3> HIDE DEF was
    <3> QED
      BY <1>6, <3>2
  <2> HIDE DEF was, U, T
  <2>6. /\ IsFiniteSet(was \cup U)
        /\ Cardinality(was \cup U) = Cardinality(was) + Cardinality(U) - Cardinality(was \cap U)
    BY <1>7, <2>4, FS_Union
  <2>7. /\ IsFiniteSet(was \cap U) /\ IsFiniteSet(T) /\ Cardinality(T) <= Cardinality(was \cup U)
    BY <1>7, <2>5, <2>6, FS_Subset, FS_Intersection
  <2>8. /\ Cardinality(was \cap U) \in Nat /\ Cardinality(T) \in Nat /\ Cardinality(U) \in Nat
    BY <2>4, <2>7, FS_CardinalityType
  <2>9. Cardinality(T) <= pLeft + pJoined
    BY <1>1, <1>2, <1>7, <2>4, <2>6, <2>7, <2>8
  <2>10. PageTypes'
    BY <1>8, <2>1, <2>2 DEF PagesInv, PageTypes
  <2> QED
    BY <1>8, <2>1, <2>2, <2>9, <2>10 DEF PagesInv, T
<1> QED
  BY <1>9, <1>10

LEMMA PagesInvStep == PagesInv /\ [P!Next]_pVars => PagesInv'
<1> SUFFICES ASSUME PagesInv, [P!Next]_pVars PROVE PagesInv'
  OBVIOUS
<1>0. pStored \in Stock /\ pPager \in Pagers
  BY DEF PagesInv, PageTypes
<1>1. ASSUME NEW e \in pEvents, NEW date \in pDates, NEW label \in P!Labels,
             P!Insert(e, date, label)
      PROVE  PagesInv'
  <2>1. [createdAt |-> date, marking |-> "init", label |-> label, face |-> FALSE] \in P!Docs
    BY DEF P!Docs
  <2> QED
    BY <1>1, <2>1, WriteKeeps DEF P!Insert
<1>2. ASSUME NEW e \in pEvents, NEW doc \in P!Docs, pStored[e] # P!Gone,
             doc.createdAt = pStored[e].createdAt, P!Write([pStored EXCEPT ![e] = doc])
      PROVE  PagesInv'
  BY <1>2, WriteKeeps
<1>3. \A e \in pEvents : pStored[e] # P!Gone => pStored[e] \in P!Docs
  BY <1>0 DEF Stock
<1>4. ASSUME NEW e \in pEvents, NEW marking \in {"illegal", "discard"},
             P!UpdateMarking(e, marking)
      PROVE  PagesInv'
  <2> DEFINE doc == [pStored[e] EXCEPT !.marking = marking]
  <2>1. pStored[e] # P!Gone /\ P!Write([pStored EXCEPT ![e] = doc])
    BY <1>0, <1>4 DEF P!UpdateMarking, Stock
  <2>2. doc \in P!Docs /\ doc.createdAt = pStored[e].createdAt
    BY <1>3, <2>1 DEF P!Docs
  <2> QED
    BY <1>2, <2>1, <2>2
<1>5. ASSUME NEW e \in pEvents, NEW label \in P!Labels, P!PutEvents(e, label)
      PROVE  PagesInv'
  <2> DEFINE doc == [pStored[e] EXCEPT !.label = label]
  <2>1. pStored[e] # P!Gone /\ P!Write([pStored EXCEPT ![e] = doc])
    BY <1>0, <1>5 DEF P!PutEvents, Stock
  <2>2. doc \in P!Docs /\ doc.createdAt = pStored[e].createdAt
    BY <1>3, <2>1 DEF P!Docs
  <2> QED
    BY <1>2, <2>1, <2>2
<1>6. ASSUME NEW e \in pEvents, P!FaceIsFound(e) PROVE PagesInv'
  <2> DEFINE doc == [pStored[e] EXCEPT !.face = TRUE]
  <2>1. pStored[e] # P!Gone /\ P!Write([pStored EXCEPT ![e] = doc])
    BY <1>0, <1>6 DEF P!FaceIsFound, Stock
  <2>2. doc \in P!Docs /\ doc.createdAt = pStored[e].createdAt
    BY <1>3, <2>1 DEF P!Docs
  <2> QED
    BY <1>2, <2>1, <2>2
<1>7. ASSUME NEW e \in pEvents, P!Delete(e) PROVE PagesInv'
  BY <1>7, WriteKeeps DEF P!Delete
<1>8. ASSUME NEW q \in pQueries, NEW size \in pPageSizes, P!Ask(q, size) PROVE PagesInv'
  <2> DEFINE k == P!PerPage(size)
             r == [P!NoPager EXCEPT !.at = "count", !.query = q, !.perPage = k]
  <2>1. k \in {i \in pPageSizes \cup {pPerPage} : i > 0}
    BY RequestsAssumption DEF P!PerPage
  <2>2. 1 \in 1..(Cardinality(pEvents) + 1) /\ 0 \in 0..Cardinality(pEvents)
    BY RequestsAssumption, FS_CardinalityType
  <2>3. pPager' = r /\ UNCHANGED <<pStored, pSteady, pLeft, pJoined, pDone>> /\ pPager.at = "idle"
    BY <1>8 DEF P!Ask
  <2> HIDE DEF k
  <2>4. r \in Pagers /\ r.at = "count" /\ r.seen = {}
    BY <2>1, <2>2 DEF Pagers, P!NoPager
  <2> HIDE DEF r
  <2>5. pSteady = {} /\ PageTypes'
    BY <2>3, <2>4 DEF PagesInv, PageTypes
  <2>6. pLeft \in Nat
    BY RequestsAssumption DEF PagesInv, PageTypes
  <2>7. \A K, n : Passed(K, pStored, {} \ {}, n) = {}
    BY DEF Passed
  <2>8. Cardinality(Passed(List', pStored', pSteady' \ pPager'.seen, Before')) <= pLeft'
    BY <2>3, <2>4, <2>5, <2>6, <2>7, FS_EmptySet
  <2> QED
    BY <2>3, <2>4, <2>5, <2>8 DEF PagesInv
<1>9. CASE P!Count
  <2> DEFINE total == Cardinality(List)
             r == [pPager EXCEPT !.at = "find", !.total = total]
  <2>1. /\ pPager' = r /\ pPager.at = "count" /\ pJoined' = 0
        /\ UNCHANGED <<pStored, pLeft, pDone>>
        /\ pSteady' = IF pPager.page = 1 THEN {e \in List : HasOwnDate(List, pStored, e)}
                      ELSE pSteady
    BY <1>9, PCardinality DEF P!Count, P!Found, P!OwnDate, HasOwnDate, List, Listed
  <2>2. /\ total \in 0..Cardinality(pEvents) /\ List \in SUBSET pEvents
        /\ Dated(List, pStored)
    BY <1>0, ListIsDated DEF List
  <2> HIDE DEF total
  <2>3. /\ r \in Pagers /\ r.at = "find" /\ r.total = total /\ r.page = pPager.page
        /\ r.perPage = pPager.perPage /\ r.query = pPager.query /\ r.seen = pPager.seen
    BY <1>0, <2>2 DEF Pagers
  <2> HIDE DEF r
  <2>4. List' = List /\ Before' = Before
    BY <2>1, <2>3 DEF List, Before
  <2>5. PageTypes'
    <3>1. 0 \in 0..pDone
      BY RequestsAssumption DEF PagesInv, PageTypes
    <3> QED
      BY <2>1, <2>2, <2>3, <3>1 DEF PagesInv, PageTypes
  <2>6. /\ pSteady' \subseteq List /\ \A e \in pSteady' : HasOwnDate(List, pStored, e)
        /\ Cardinality(Passed(List, pStored, pSteady' \ pPager.seen, Before)) <= pLeft
    <3>1. CASE pPager.page = 1
      <4>1. Before = 0
        <5>1. pPager.perPage \in Nat \ {0}
          BY <1>0, PagesArePositive
        <5> QED
          BY <3>1, <5>1 DEF Before
      <4>2. Passed(List, pStored, pSteady' \ pPager.seen, Before) = {}
        <5>1. \A e : Place(List, pStored, e) \in Nat
          BY <2>2, PlaceIsNat
        <5>2. \A n \in Nat : ~(n < 0)
          OBVIOUS
        <5> QED
          BY <4>1, <5>1, <5>2 DEF Passed
      <4>3. pLeft \in Nat
        BY RequestsAssumption DEF PagesInv, PageTypes
      <4> QED
        BY <2>1, <3>1, <4>2, <4>3, FS_EmptySet
    <3>2. CASE pPager.page # 1
      BY <2>1, <3>2 DEF PagesInv
    <3> QED
      BY <3>1, <3>2
  <2>7. Cardinality(List) <= total + 0
    BY <2>2, <1>0, ListIsDated DEF total
  <2> QED
    BY <2>1, <2>3, <2>4, <2>5, <2>6, <2>7 DEF PagesInv
<1>10. CASE P!Fails
  <2> DEFINE r == [P!NoPager EXCEPT !.at = "error"]
  <2>1. pPager' = r /\ UNCHANGED <<pStored, pSteady, pLeft, pJoined, pDone>>
    BY <1>10 DEF P!Fails
  <2>2. r \in Pagers /\ r.at = "error"
    <3>1. 1 \in 1..(Cardinality(pEvents) + 1) /\ 0 \in 0..Cardinality(pEvents)
      BY RequestsAssumption, FS_CardinalityType
    <3>2. (CHOOSE q \in pQueries : TRUE) \in pQueries
      BY RequestsAssumption
    <3>3. pPerPage \in {k \in pPageSizes \cup {pPerPage} : k > 0}
      BY RequestsAssumption
    <3> QED
      BY <3>1, <3>2, <3>3 DEF P!NoPager, Pagers
  <2> HIDE DEF r
  <2> QED
    BY <2>1, <2>2 DEF PagesInv, PageTypes
<1>11. ASSUME pPager.at = "find", NEW order \in P!Orders, P!Find(order) PROVE PagesInv'
  BY <1>11, FindKeeps
<1>12. CASE UNCHANGED pVars
  <2>1. /\ UNCHANGED <<pStored, pPager, pSteady, pLeft, pJoined, pDone>>
        /\ UNCHANGED <<List, Before>>
    BY <1>12 DEF pVars, List, Before
  <2> QED
    BY <2>1 DEF PagesInv, PageTypes
<1> QED
  BY <1>1, <1>4, <1>5, <1>6, <1>7, <1>8, <1>9, <1>10, <1>11, <1>12 DEF P!Next

LEMMA PagesInvShows == PagesInv => P!TypeOK /\ P!PagesMissOnlyWhatMoved
<1> SUFFICES ASSUME PagesInv PROVE P!TypeOK /\ P!PagesMissOnlyWhatMoved
  OBVIOUS
<1>1. P!PagesMissOnlyWhatMoved
  BY PCardinality DEF PagesInv, P!PagesMissOnlyWhatMoved
<1>2. /\ pLeft \in 0..pWrites /\ pJoined \in 0..pWrites
  BY RequestsAssumption DEF PagesInv, PageTypes
<1> QED
  BY <1>1, <1>2, PCardinality DEF PagesInv, PageTypes, Pagers, Stock, P!TypeOK

-----------------------------------------------------------------------------
(***************************************************************************)
(* Sums. The fold of the library is a recursive function on the sets of    *)
(* arguments that are left; that there is one is shown by size, the least  *)
(* size for which there is none being that of a set from which one element *)
(* is taken.                                                               *)
(***************************************************************************)
Pick(s) == CHOOSE x \in s : TRUE

\* What the function it makes of s from what it makes of s without the element picked.
Added(g, it, s) == IF s = {} THEN 0 ELSE g[Pick(s)] + it[s \ {Pick(s)}]

\* it adds up the sets of up to n arguments.
AddsUpTo(D, g, it, n) ==
  /\ it = [s \in SUBSET D |-> it[s]]
  /\ \A s \in SUBSET D : Cardinality(s) <= n => it[s] = Added(g, it, s)

LEMMA PickOne ==
  ASSUME NEW s, s # {}, IsFiniteSet(s)
  PROVE  /\ Pick(s) \in s /\ IsFiniteSet(s \ {Pick(s)})
         /\ Cardinality(s) \in Nat \ {0}
         /\ Cardinality(s \ {Pick(s)}) = Cardinality(s) - 1
<1>1. Pick(s) \in s
  BY DEF Pick
<1>2. Cardinality(s) \in Nat /\ Cardinality(s) # 0
  BY FS_CardinalityType, FS_EmptySet
<1> QED
  BY <1>1, <1>2, FS_RemoveElement

LEMMA AddsUpToAny ==
  ASSUME NEW D, IsFiniteSet(D), NEW g, NEW n \in Nat
  PROVE  \E it : AddsUpTo(D, g, it, n)
<1> DEFINE Adds(k) == \E it : AddsUpTo(D, g, it, k)
<1>1. Adds(0)
  <2> DEFINE it == [s \in SUBSET D |-> 0]
  <2>1. it = [s \in SUBSET D |-> it[s]]
    OBVIOUS
  <2>2. ASSUME NEW s \in SUBSET D, Cardinality(s) <= 0 PROVE it[s] = Added(g, it, s)
    <3>1. s = {}
      BY <2>2, FS_Subset, FS_CardinalityType, FS_EmptySet
    <3> QED
      BY <3>1 DEF Added
  <2> HIDE DEF it
  <2> QED
    BY <2>1, <2>2 DEF AddsUpTo
<1>2. ASSUME NEW k \in Nat, Adds(k) PROVE Adds(k + 1)
  <2>1. PICK it : AddsUpTo(D, g, it, k)
    BY <1>2
  <2> DEFINE up == [s \in SUBSET D |-> IF Cardinality(s) <= k THEN it[s] ELSE Added(g, it, s)]
  <2>2. up = [s \in SUBSET D |-> up[s]]
    OBVIOUS
  <2>3. \A s \in SUBSET D : Cardinality(s) <= k => up[s] = it[s]
    OBVIOUS
  <2>4. \A s \in SUBSET D : up[s] = Added(g, it, s)
    BY <2>1 DEF AddsUpTo
  <2> HIDE DEF up
  <2>5. ASSUME NEW s \in SUBSET D, Cardinality(s) <= k + 1 PROVE up[s] = Added(g, up, s)
    <3>1. CASE s = {}
      BY <2>4, <3>1 DEF Added
    <3>2. CASE s # {}
      <4> DEFINE r == s \ {Pick(s)}
      <4>1. r \in SUBSET D /\ Cardinality(r) = Cardinality(s) - 1 /\ Cardinality(s) \in Nat
        BY <3>2, FS_Subset, PickOne
      <4>2. up[r] = it[r]
        <5>1. Cardinality(r) <= k
          BY <2>5, <4>1
        <5> QED
          BY <2>3, <4>1, <5>1
      <4> QED
        BY <2>4, <3>2, <4>2 DEF Added
    <3> QED
      BY <3>1, <3>2
  <2> QED
    BY <2>2, <2>5 DEF AddsUpTo
<1> HIDE DEF Adds
<1>3. ASSUME ~Adds(n) PROVE FALSE
  <2> DEFINE Fails == {k \in Nat : ~Adds(k)}
  <2>1. Fails \in SUBSET Nat /\ Fails # {}
    BY <1>3
  <2>2. PICK m \in Fails : \A k \in Fails : m <= k
    BY <2>1, Smallest
  <2>3. m \in Nat /\ m # 0 /\ ~Adds(m)
    BY <1>1, <2>2
  <2>4. m - 1 \in Nat /\ m - 1 \notin Fails
    BY <2>2, <2>3
  <2>5. Adds(m - 1)
    BY <2>4
  <2>6. Adds((m - 1) + 1)
    BY <1>2, <2>4, <2>5
  <2>7. (m - 1) + 1 = m
    BY <2>3
  <2> QED
    BY <2>3, <2>6, <2>7
<1> QED
  BY <1>3 DEF Adds

\* The fold of the library, as it is used for totals.
LEMMA TotalAdds ==
  ASSUME NEW g, IsFiniteSet(DOMAIN g)
  PROVE  \E it : /\ S!Total(g) = it[DOMAIN g]
                 /\ \A s \in SUBSET DOMAIN g : it[s] = Added(g, it, s)
<1> DEFINE D == DOMAIN g
           Step(it) == [s \in SUBSET D |->
             IF s = {} THEN 0
             ELSE g[CHOOSE x \in s : TRUE] + it[s \ {CHOOSE x \in s : TRUE}]]
           sum == CHOOSE it : it = Step(it)
<1>1. S!Total(g) = sum[D]
  BY DEF S!Total, S!FoldFunction, S!FoldFunctionOnSet, S!MapThenFoldSet
<1>2. PICK it : AddsUpTo(D, g, it, Cardinality(D))
  BY FS_CardinalityType, AddsUpToAny
<1>3. \A s \in SUBSET D : it[s] = Added(g, it, s)
  BY <1>2, FS_Subset DEF AddsUpTo
<1>4. it = [s \in SUBSET D |-> Added(g, it, s)]
  BY <1>2, <1>3 DEF AddsUpTo
<1>5. \A f : Step(f) = [s \in SUBSET D |-> Added(g, f, s)]
  BY DEF Added, Pick
<1> HIDE DEF Step
<1>6. it = Step(it)
  BY <1>4, <1>5
<1>7. sum = Step(sum)
  BY <1>6
<1>8. \A s \in SUBSET D : sum[s] = Added(g, sum, s)
  BY <1>5, <1>7
<1> HIDE DEF sum
<1> QED
  BY <1>1, <1>8

\* Counts of the elements of A by what w makes of them add up to the size of A.
LEMMA CountsAddUp ==
  ASSUME NEW A, IsFiniteSet(A), NEW w, NEW g, IsFiniteSet(DOMAIN g),
         \A x \in A : w[x] \in DOMAIN g,
         \A v \in DOMAIN g : g[v] = Cardinality({x \in A : w[x] = v})
  PROVE  S!Total(g) = Cardinality(A)
<1> DEFINE D == DOMAIN g
           In(s) == {x \in A : w[x] \in s}
<1>1. PICK it : S!Total(g) = it[D] /\ \A s \in SUBSET D : it[s] = Added(g, it, s)
  BY TotalAdds
<1> DEFINE Right(s) == it[s] = Cardinality(In(s))
<1>2. \A s : IsFiniteSet(In(s))
  BY FS_Subset
<1>3. ASSUME NEW s \in SUBSET D, s # {}, Right(s \ {Pick(s)}) PROVE Right(s)
  <2> DEFINE p == Pick(s)
             B == {x \in A : w[x] = p}
             C == In(s \ {p})
  <2>1. p \in s /\ p \in D
    BY <1>3, FS_Subset, PickOne
  <2>2. it[s] = g[p] + it[s \ {p}]
    BY <1>1, <1>3 DEF Added
  <2>3. g[p] = Cardinality(B)
    BY <2>1
  <2>4. In(s) = B \cup C /\ B \cap C = {} /\ IsFiniteSet(B) /\ IsFiniteSet(C)
    BY <1>2, <2>1, FS_Subset
  <2> HIDE DEF p, B, C
  <2>5. Cardinality(B \cup C) = Cardinality(B) + Cardinality(C)
    <3>1. Cardinality(B \cup C) = Cardinality(B) + Cardinality(C) - 0
      BY <2>4, FS_Union, FS_EmptySet
    <3>2. Cardinality(B) \in Nat /\ Cardinality(C) \in Nat
      BY <2>4, FS_CardinalityType
    <3> QED
      BY <3>1, <3>2
  <2>6. it[s \ {p}] = Cardinality(C)
    BY <1>3 DEF p, C
  <2> QED
    BY <2>2, <2>3, <2>4, <2>5, <2>6
<1>4. Right({})
  BY <1>1, FS_EmptySet DEF Added
<1> HIDE DEF Right
<1>5. ASSUME ~Right(D) PROVE FALSE
  <2> DEFINE Wrong == {s \in SUBSET D : ~Right(s)}
             Sizes == {Cardinality(s) : s \in Wrong}
  <2>1. \A s \in SUBSET D : IsFiniteSet(s) /\ Cardinality(s) \in Nat
    BY FS_Subset, FS_CardinalityType
  <2>2. Sizes \in SUBSET Nat /\ Sizes # {}
    BY <1>5, <2>1
  <2>3. PICK m \in Sizes : \A k \in Sizes : m <= k
    BY <2>2, Smallest
  <2>4. PICK s \in Wrong : m = Cardinality(s)
    BY <2>3
  <2>5. s \in SUBSET D /\ ~Right(s) /\ s # {}
    BY <1>4, <2>4
  <2> DEFINE r == s \ {Pick(s)}
  <2>6. r \in SUBSET D /\ Cardinality(r) = Cardinality(s) - 1 /\ Cardinality(s) \in Nat
    BY <2>1, <2>5, PickOne
  <2>7. r \notin Wrong
    <3> SUFFICES ASSUME r \in Wrong PROVE FALSE
      OBVIOUS
    <3>1. Cardinality(s) <= Cardinality(r)
      BY <2>3, <2>4
    <3> QED
      BY <2>6, <3>1
  <2>8. Right(r)
    BY <2>6, <2>7
  <2> QED
    BY <1>3, <2>5, <2>8
<1>6. In(D) = A
  OBVIOUS
<1> QED
  BY <1>1, <1>5, <1>6 DEF Right

\* The names the instance has for what the library knows.
LEMMA SCardinality == \A T : S!Cardinality(T) = Cardinality(T)
BY DEF S!Cardinality, Cardinality

\* What CountBy makes of a function.
LEMMA CountsOf ==
  ASSUME NEW A, IsFiniteSet(A), NEW w, DOMAIN w = A
  PROVE  LET c == S!CountBy(w)
         IN  /\ IsFiniteSet(DOMAIN c)
             /\ \A x \in A : w[x] \in DOMAIN c
             /\ \A v \in DOMAIN c : c[v] = Cardinality({x \in A : w[x] = v})
             /\ \A v : v \notin DOMAIN c => {x \in A : w[x] = v} = {}
<1> DEFINE c == S!CountBy(w)
           R == {w[x] : x \in A}
<1>1. /\ DOMAIN c = R
      /\ \A v \in R : c[v] = Cardinality({x \in A : w[x] = v})
  BY SCardinality DEF S!CountBy, S!Range
<1>2. IsFiniteSet(R)
  <2> DEFINE f == [x \in A |-> w[x]]
  <2>1. f \in Surjection(A, R)
    BY DEF Surjection
  <2> QED
    BY <2>1, FS_Surjection
<1> QED
  BY <1>1, <1>2

-----------------------------------------------------------------------------
(***************************************************************************)
(* Sorting. A finite set can be put into the order of its counts: without  *)
(* the element of the least count it can, and that one goes to the end.    *)
(***************************************************************************)
Sorts(t, C, counts, n) ==
  /\ t \in Surjection(1..n, C)
  /\ \A i, j \in 1..n : i < j => counts[t[i]] >= counts[t[j]]

LEMMA SortedOnce ==
  ASSUME NEW C, IsFiniteSet(C), NEW counts, \A x \in C : counts[x] \in Nat,
         NEW B \in SUBSET C, NEW m \in B, \A x \in B : counts[m] <= counts[x],
         NEW u, Sorts(u, B \ {m}, counts, Cardinality(B \ {m}))
  PROVE  \E t : Sorts(t, B, counts, Cardinality(B))
<1> DEFINE n == Cardinality(B)
           t == [i \in 1..n |-> IF i = n THEN m ELSE u[i]]
<1>1. n \in Nat /\ n # 0 /\ Cardinality(B \ {m}) = n - 1
  BY FS_Subset, FS_CardinalityType, FS_EmptySet, FS_RemoveElement
<1> HIDE DEF n
<1>2. /\ u \in [1..(n - 1) -> B \ {m}]
      /\ \A x \in B \ {m} : \E i \in 1..(n - 1) : u[i] = x
      /\ \A i, j \in 1..(n - 1) : i < j => counts[u[i]] >= counts[u[j]]
  BY <1>1 DEF Sorts, Surjection
<1>3. \A i \in 1..n : i = n \/ i \in 1..(n - 1)
  BY <1>1
<1>4. n \in 1..n /\ \A i \in 1..(n - 1) : i \in 1..n /\ i # n
  BY <1>1
<1>5. t \in [1..n -> B]
  BY <1>2, <1>3
<1>6. \A x \in B : \E i \in 1..n : t[i] = x
  <2> SUFFICES ASSUME NEW x \in B PROVE \E i \in 1..n : t[i] = x
    OBVIOUS
  <2>1. CASE x = m
    BY <1>4, <2>1
  <2>2. CASE x # m
    <3>1. PICK i \in 1..(n - 1) : u[i] = x
      BY <1>2, <2>2
    <3> QED
      BY <1>4, <3>1
  <2> QED
    BY <2>1, <2>2
<1>7. ASSUME NEW i \in 1..n, NEW j \in 1..n, i < j PROVE counts[t[i]] >= counts[t[j]]
  <2>1. i \in 1..(n - 1) /\ i # n
    BY <1>1, <1>7
  <2>2. t[i] = u[i] /\ u[i] \in B
    BY <1>2, <2>1
  <2>3. CASE j = n
    <3>1. t[j] = m
      BY <2>3
    <3>2. counts[m] \in Nat /\ counts[u[i]] \in Nat /\ counts[m] <= counts[u[i]]
      BY <2>2
    <3> QED
      BY <2>2, <3>1, <3>2
  <2>4. CASE j # n
    <3>1. j \in 1..(n - 1) /\ t[j] = u[j]
      BY <1>3, <2>4
    <3> QED
      BY <1>2, <1>7, <2>1, <2>2, <3>1
  <2> QED
    BY <2>3, <2>4
<1> HIDE DEF t
<1>8. Sorts(t, B, counts, n)
  BY <1>5, <1>6, <1>7 DEF Sorts, Surjection
<1> QED
  BY <1>8 DEF n

LEMMA LeastOfCounts ==
  ASSUME NEW B, B # {}, NEW counts, \A x \in B : counts[x] \in Nat
  PROVE  \E m \in B : \A x \in B : counts[m] <= counts[x]
<1> DEFINE V == {counts[x] : x \in B}
<1>1. V \in SUBSET Nat /\ V # {}
  OBVIOUS
<1>2. PICK k \in V : \A v \in V : k <= v
  BY <1>1, Smallest
<1> QED
  BY <1>2

LEMMA CanBeSorted ==
  ASSUME NEW C, IsFiniteSet(C), NEW counts, \A x \in C : counts[x] \in Nat
  PROVE  \E t : Sorts(t, C, counts, Cardinality(C))
<1> DEFINE Can(B) == \E t : Sorts(t, B, counts, Cardinality(B))
<1>1. Can({})
  <2>1. Cardinality({}) = 0 /\ 1..0 = {}
    BY FS_EmptySet
  <2> DEFINE t == [i \in 1..0 |-> 0]
  <2>2. Sorts(t, {}, counts, 0)
    BY <2>1 DEF Sorts, Surjection
  <2> QED
    BY <2>1, <2>2
<1>2. ASSUME NEW B \in SUBSET C, NEW m \in B, \A x \in B : counts[m] <= counts[x],
             Can(B \ {m})
      PROVE  Can(B)
  BY <1>2, SortedOnce
<1> HIDE DEF Can
<1>3. ASSUME ~Can(C) PROVE FALSE
  <2> DEFINE Wrong == {B \in SUBSET C : ~Can(B)}
             Sizes == {Cardinality(B) : B \in Wrong}
  <2>1. \A B \in SUBSET C : IsFiniteSet(B) /\ Cardinality(B) \in Nat
    BY FS_Subset, FS_CardinalityType
  <2>2. Sizes \in SUBSET Nat /\ Sizes # {}
    BY <1>3, <2>1
  <2>3. PICK k \in Sizes : \A j \in Sizes : k <= j
    BY <2>2, Smallest
  <2>4. PICK B \in Wrong : k = Cardinality(B)
    BY <2>3
  <2>5. B \in SUBSET C /\ ~Can(B) /\ B # {}
    BY <1>1, <2>4
  <2>6. PICK m \in B : \A x \in B : counts[m] <= counts[x]
    BY <2>5, LeastOfCounts
  <2> DEFINE r == B \ {m}
  <2>7. r \in SUBSET C /\ Cardinality(r) = Cardinality(B) - 1 /\ Cardinality(B) \in Nat
    BY <2>1, <2>5, FS_RemoveElement
  <2>8. r \notin Wrong
    <3> SUFFICES ASSUME r \in Wrong PROVE FALSE
      OBVIOUS
    <3>1. Cardinality(B) <= Cardinality(r)
      BY <2>3, <2>4
    <3> QED
      BY <2>7, <3>1
  <2>9. Can(r)
    BY <2>7, <2>8
  <2> QED
    BY <1>2, <2>5, <2>6, <2>9
<1> QED
  BY <1>3 DEF Can

\* The rows have every camera once.
LEMMA RowsAreSorted ==
  ASSUME NEW C, IsFiniteSet(C), NEW counts, \A x \in C : counts[x] \in Nat
  PROVE  LET order == CHOOSE s \in S!SetToSeqs(C) :
                        \A i, j \in DOMAIN s : i < j => counts[s[i]] >= counts[s[j]]
         IN  order \in Bijection(1..Cardinality(C), C)
<1> DEFINE n == Cardinality(C)
           Down(s) == \A i, j \in DOMAIN s : i < j => counts[s[i]] >= counts[s[j]]
<1>1. S!SetToSeqs(C) = {s \in [1..n -> C] : \A i, j \in 1..n : i # j => s[i] # s[j]}
  BY SCardinality DEF S!SetToSeqs
<1>2. n \in Nat /\ IsFiniteSet(1..n) /\ Cardinality(1..n) = n
  BY FS_CardinalityType, FS_Interval
<1>3. PICK t : Sorts(t, C, counts, n)
  BY CanBeSorted
<1>4. t \in Injection(1..n, C)
  BY <1>2, <1>3, FS_SurjSameCardinalityImpliesInj DEF Sorts
<1> HIDE DEF n
<1>5. t \in S!SetToSeqs(C) /\ Down(t)
  BY <1>1, <1>3, <1>4 DEF Sorts, Surjection, Injection, IsInjective
<1> DEFINE order == CHOOSE s \in S!SetToSeqs(C) : Down(s)
<1>6. order \in S!SetToSeqs(C)
  BY <1>5
<1> HIDE DEF order
<1>7. order \in Injection(1..n, C)
  BY <1>1, <1>6 DEF Injection, IsInjective
<1>8. order \in Surjection(1..n, C)
  BY <1>2, <1>7, FS_Injection DEF n
<1> QED
  BY <1>7, <1>8 DEF order, n, Bijection

-----------------------------------------------------------------------------
(***************************************************************************)
(* The statistics. No event is counted on a day that begins after the      *)
(* event was created, so that a list of days that reaches a day only lacks *)
(* of it what was created after the list ends. An event that is stored     *)
(* gets the present time, which is after a day that is over: among the     *)
(* events of that day there are only those that were there, with the same  *)
(* day, type and camera.                                                   *)
(***************************************************************************)
Facts ==
  [at : {"unseen", "seen", "stored"}, start : S!Times, createdAt : S!Times, date : S!Days,
   hour : 0..(sHours - 1),
   kind : [type : S!Types, camera : sCameras, classes : Seq(Nat)]]

\* An event that is seen has begun; one that is stored is counted on no later day than that
\* of its creation.
CountedBefore(r, time) ==
  /\ r.at = "seen" => r.start <= time
  /\ r.at = "stored" => S!Midnight(r.date) <= r.createdAt

StatisticsInv ==
  /\ sNow \in S!Times /\ sEvent \in [sEvents -> Facts]
  /\ \A e \in sEvents : CountedBefore(sEvent[e], sNow)

\* The day and the hour of a time.
LEMMA Calendar ==
  ASSUME NEW t \in S!Times
  PROVE  t \in Nat /\ S!DateOf(t) \in S!Days /\ S!HourOf(t) \in 0..(sHours - 1)
<1>1. t \in Nat /\ t <= sLastTick /\ sHours \in Nat \ {0} /\ sLastTick \in Nat
  BY RequestsAssumption DEF S!Times
<1>2. (t \div sHours) \in Nat /\ (sLastTick \div sHours) \in Nat
  BY <1>1
<1>3. (t \div sHours) <= (sLastTick \div sHours)
  BY <1>1
<1>4. (t % sHours) \in 0..(sHours - 1)
  BY <1>1
<1> QED
  BY <1>1, <1>2, <1>3, <1>4 DEF S!DateOf, S!HourOf, S!Days

\* A day begins no later than any time of it.
LEMMA DayBegins ==
  ASSUME NEW t \in S!Times
  PROVE  S!Midnight(S!DateOf(t)) <= t
<1>1. t \in Nat /\ sHours \in Nat \ {0}
  BY Calendar, RequestsAssumption
<1>2. (t \div sHours) * sHours <= t
  BY <1>1
<1> QED
  BY <1>2 DEF S!Midnight, S!DateOf

LEMMA UnseenIsKnown == S!Unseen \in Facts
<1>1. (CHOOSE k \in sKinds : TRUE) \in sKinds
  BY RequestsAssumption
<1>2. (CHOOSE k \in sKinds : TRUE) \in [type : S!Types, camera : sCameras, classes : Seq(Nat)]
  BY <1>1, RequestsAssumption
<1>3. 0 \in S!Times /\ 0 \in S!Days /\ 0 \in 0..(sHours - 1)
  <2>1. 0 \in S!Times
    BY RequestsAssumption DEF S!Times
  <2>2. S!DateOf(0) = 0 /\ S!HourOf(0) = 0
    BY RequestsAssumption DEF S!DateOf, S!HourOf
  <2> QED
    BY <2>1, <2>2, Calendar
<1> QED
  BY <1>2, <1>3 DEF S!Unseen, Facts

LEMMA UnseenIsCounted == \A time : CountedBefore(S!Unseen, time)
BY DEF CountedBefore, S!Unseen

LEMMA StatisticsInvInit == S!Init => StatisticsInv
<1> SUFFICES ASSUME S!Init PROVE StatisticsInv
  OBVIOUS
<1>1. sNow \in S!Times
  BY RequestsAssumption DEF S!Init, S!Times
<1> QED
  BY <1>1, UnseenIsKnown, UnseenIsCounted DEF S!Init, StatisticsInv

\* A step that says something else of one event.
LEMMA OneIsKnown ==
  ASSUME StatisticsInv, NEW e \in sEvents, NEW q \in Facts, CountedBefore(q, sNow),
         sEvent' = [sEvent EXCEPT ![e] = q], sNow' = sNow
  PROVE  StatisticsInv'
BY DEF StatisticsInv

\* A correction keeps what is known of an event, but for the classes.
LEMMA Corrected ==
  ASSUME StatisticsInv, NEW e \in sEvents, NEW class \in sClasses, S!PutEvents(e, class)
  PROVE  /\ sNow' = sNow /\ sEvent[e].at = "stored"
         /\ \E classes \in Seq(Nat) :
              sEvent' = [sEvent EXCEPT ![e].kind.classes = classes]
<1> DEFINE old == sEvent[e].kind.classes
           new == IF old = <<>> THEN <<class>> ELSE [old EXCEPT ![1] = class]
<1>1. sEvent[e] \in Facts
  BY DEF StatisticsInv
<1>2. class \in Nat /\ old \in Seq(Nat)
  BY <1>1, RequestsAssumption DEF Facts
<1> HIDE DEF old
<1>3. new \in Seq(Nat)
  <2>1. CASE old = <<>>
    BY <1>2, <2>1
  <2>2. CASE old # <<>>
    <3>1. 1 \in 1..Len(old)
      BY <1>2, <2>2
    <3>2. [old EXCEPT ![1] = class] \in Seq(Nat)
      BY <1>2, <3>1, ExceptSeq
    <3> QED
      BY <2>2, <3>2
  <2> QED
    BY <2>1, <2>2
<1>4. sEvent' = [sEvent EXCEPT ![e].kind.classes =
                   IF @ = <<>> THEN <<class>> ELSE [@ EXCEPT ![1] = class]]
  BY DEF S!PutEvents
<1>5. sEvent' = [sEvent EXCEPT ![e].kind.classes = new]
  BY <1>4, Zenon DEF old
<1> HIDE DEF new
<1> QED
  BY <1>3, <1>5 DEF S!PutEvents

LEMMA StatisticsInvStep == StatisticsInv /\ [S!Next]_sVars => StatisticsInv'
<1> SUFFICES ASSUME StatisticsInv, [S!Next]_sVars PROVE StatisticsInv'
  OBVIOUS
<1>0. /\ sNow \in S!Times /\ sEvent \in [sEvents -> Facts]
      /\ \A e \in sEvents : CountedBefore(sEvent[e], sNow)
  BY DEF StatisticsInv
<1>1. CASE S!Tick
  <2>1. sEvent' = sEvent /\ sNow' = sNow + 1 /\ sNow' \in S!Times
    BY <1>0, <1>1, RequestsAssumption DEF S!Tick, S!Times
  <2>2. ASSUME NEW e \in sEvents PROVE CountedBefore(sEvent[e], sNow')
    <3>1. sEvent[e].start \in Nat /\ sNow \in Nat
      BY <1>0, Calendar DEF Facts
    <3> QED
      BY <1>0, <2>1, <3>1 DEF CountedBefore
  <2> QED
    BY <1>0, <2>1, <2>2 DEF StatisticsInv
<1>2. ASSUME NEW e \in sEvents, NEW kind \in sKinds, S!Detect(e, kind) PROVE StatisticsInv'
  <2> DEFINE q == [S!Unseen EXCEPT !.at = "seen", !.start = sNow, !.kind = kind]
  <2>1. kind \in [type : S!Types, camera : sCameras, classes : Seq(Nat)]
    BY RequestsAssumption
  <2>2. q \in Facts /\ q.at = "seen" /\ q.start = sNow
    BY <1>0, <2>1, UnseenIsKnown DEF Facts
  <2>3. sEvent' = [sEvent EXCEPT ![e] = q] /\ sNow' = sNow
    BY <1>2 DEF S!Detect
  <2> HIDE DEF q
  <2>4. CountedBefore(q, sNow)
    BY <1>0, <2>2, Calendar DEF CountedBefore
  <2> QED
    BY <2>2, <2>3, <2>4, OneIsKnown
<1>3. ASSUME NEW e \in sEvents, NEW kind \in sKinds, NEW start \in sStarts,
             S!PostEvents(e, kind, start)
      PROVE  StatisticsInv'
  <2> DEFINE q == [at |-> "stored", start |-> start, createdAt |-> sNow,
                   date |-> S!DateOf(sNow), hour |-> S!HourOf(sNow), kind |-> kind]
  <2>1. kind \in [type : S!Types, camera : sCameras, classes : Seq(Nat)] /\ start \in S!Times
    BY RequestsAssumption
  <2>2. q \in Facts
    BY <1>0, <2>1, Calendar DEF Facts
  <2>3. sEvent' = [sEvent EXCEPT ![e] = q] /\ sNow' = sNow
    BY <1>3 DEF S!PostEvents
  <2>4. CountedBefore(q, sNow)
    BY <1>0, DayBegins DEF CountedBefore
  <2> HIDE DEF q
  <2> QED
    BY <2>2, <2>3, <2>4, OneIsKnown
<1>4. ASSUME NEW e \in sEvents, S!Insert(e) PROVE StatisticsInv'
  <2> DEFINE d == S!DateOf(sEvent[e].start)
             h == S!HourOf(sEvent[e].start)
             q == [sEvent[e] EXCEPT !.at = "stored", !.createdAt = sNow, !.date = d, !.hour = h]
  <2>1. /\ sEvent[e] \in Facts /\ sEvent[e].start \in S!Times
        /\ d \in S!Days /\ h \in 0..(sHours - 1)
    <3>1. sEvent[e] \in Facts /\ sEvent[e].start \in S!Times
      BY <1>0 DEF Facts
    <3> QED
      BY <3>1, Calendar
  <2>2. sEvent' = [sEvent EXCEPT ![e] = q] /\ sNow' = sNow
    BY <1>0, <1>4 DEF S!Insert
  <2>3. sEvent[e].start <= sNow /\ S!Midnight(d) <= sEvent[e].start
    BY <1>0, <1>4, <2>1, DayBegins DEF S!Insert, CountedBefore
  <2>4. S!Midnight(d) \in Int /\ sEvent[e].start \in Int /\ sNow \in Int
    BY <1>0, <2>1, Calendar, RequestsAssumption DEF S!Midnight, S!Days
  <2>5. S!Midnight(d) <= sNow
    BY <2>3, <2>4
  <2>6. q.at = "stored" /\ q.createdAt = sNow /\ q.date = d
    BY <2>1 DEF Facts
  <2> HIDE DEF d, h
  <2>7. q \in Facts
    BY <1>0, <2>1 DEF Facts
  <2> HIDE DEF q
  <2>8. CountedBefore(q, sNow)
    BY <2>5, <2>6 DEF CountedBefore
  <2> QED
    BY <2>2, <2>7, <2>8, OneIsKnown
<1>5. ASSUME NEW e \in sEvents, S!Lose(e) \/ S!DeleteEvents(e) PROVE StatisticsInv'
  <2>1. sEvent' = [sEvent EXCEPT ![e] = S!Unseen] /\ sNow' = sNow
    BY <1>5 DEF S!Lose, S!DeleteEvents
  <2> QED
    BY <2>1, UnseenIsKnown, UnseenIsCounted, OneIsKnown
<1>6. ASSUME NEW e \in sEvents, NEW class \in sClasses, S!PutEvents(e, class)
      PROVE  StatisticsInv'
  <2>1. /\ sNow' = sNow /\ sEvent[e].at = "stored"
        /\ \E classes \in Seq(Nat) : sEvent' = [sEvent EXCEPT ![e].kind.classes = classes]
    BY <1>6, Corrected
  <2>2. PICK classes \in Seq(Nat) : sEvent' = [sEvent EXCEPT ![e].kind.classes = classes]
    BY <2>1
  <2> DEFINE k == [sEvent[e].kind EXCEPT !.classes = classes]
             q == [sEvent[e] EXCEPT !.kind = k]
  <2>3. sEvent[e] \in Facts /\ CountedBefore(sEvent[e], sNow)
    BY <1>0
  <2>4. k \in [type : S!Types, camera : sCameras, classes : Seq(Nat)]
    BY <2>3 DEF Facts
  <2>5. sEvent' = [sEvent EXCEPT ![e] = q]
    BY <1>0, <2>2
  <2> HIDE DEF k
  <2>6. /\ q \in Facts /\ q.at = sEvent[e].at /\ q.date = sEvent[e].date
        /\ q.createdAt = sEvent[e].createdAt /\ q.start = sEvent[e].start
    BY <2>3, <2>4 DEF Facts
  <2> HIDE DEF q
  <2>7. CountedBefore(q, sNow)
    BY <2>3, <2>6 DEF CountedBefore
  <2> QED
    BY <2>1, <2>5, <2>6, <2>7, OneIsKnown
<1>7. CASE UNCHANGED sVars
  BY <1>0, <1>7 DEF sVars, StatisticsInv
<1> QED
  BY <1>1, <1>2, <1>3, <1>4, <1>5, <1>6, <1>7 DEF S!Next

LEMMA StatisticsInvShows == StatisticsInv => S!TypeOK
BY DEF StatisticsInv, S!TypeOK, Facts

\* What a step leaves of an event that is stored after it: the event was stored now, or was
\* there, with the same times, type and camera, and the same classes but for a correction.
Stays(e) ==
  /\ sEvent[e].at = "stored" /\ sEvent'[e].createdAt = sEvent[e].createdAt
  /\ sEvent'[e].date = sEvent[e].date
  /\ sEvent'[e].kind.type = sEvent[e].kind.type
  /\ sEvent'[e].kind.camera = sEvent[e].kind.camera

Corrects == \E e \in sEvents, class \in sClasses : S!PutEvents(e, class)

LEMMA StoredStays ==
  ASSUME StatisticsInv, [S!Next]_sVars, NEW e \in sEvents, sEvent'[e].at = "stored"
  PROVE  \/ sEvent'[e].createdAt = sNow
         \/ Stays(e) /\ (Corrects \/ sEvent'[e].kind.classes = sEvent[e].kind.classes)
<1> DEFINE Same == Stays(e) /\ (Corrects \/ sEvent'[e].kind.classes = sEvent[e].kind.classes)
<1>0. sEvent \in [sEvents -> Facts]
  BY DEF StatisticsInv
<1>1. ASSUME sEvent'[e] = sEvent[e] PROVE Same
  BY <1>1 DEF Stays
<1> SUFFICES ASSUME sEvent'[e] # sEvent[e] PROVE sEvent'[e].createdAt = sNow \/ Same
  BY <1>1
<1>2. CASE S!Tick \/ UNCHANGED sVars
  BY <1>2 DEF S!Tick, sVars
<1>3. ASSUME NEW f \in sEvents, NEW kind \in sKinds, S!Detect(f, kind) PROVE FALSE
  BY <1>0, <1>3 DEF S!Detect, S!Unseen
<1>4. ASSUME NEW f \in sEvents, NEW kind \in sKinds, NEW start \in sStarts,
             S!PostEvents(f, kind, start)
      PROVE  sEvent'[e].createdAt = sNow
  BY <1>0, <1>4 DEF S!PostEvents
<1>5. ASSUME NEW f \in sEvents, S!Insert(f) PROVE sEvent'[e].createdAt = sNow
  BY <1>0, <1>5 DEF S!Insert, Facts
<1>6. ASSUME NEW f \in sEvents, S!Lose(f) \/ S!DeleteEvents(f) PROVE FALSE
  BY <1>0, <1>6 DEF S!Lose, S!DeleteEvents, S!Unseen
<1>7. ASSUME NEW f \in sEvents, NEW class \in sClasses, S!PutEvents(f, class) PROVE Same
  <2>1. Corrects
    BY <1>7 DEF Corrects
  <2>2. sEvent[f].at = "stored"
        /\ \E classes \in Seq(Nat) : sEvent' = [sEvent EXCEPT ![f].kind.classes = classes]
    BY <1>7, Corrected
  <2>3. PICK classes \in Seq(Nat) : sEvent' = [sEvent EXCEPT ![f].kind.classes = classes]
    BY <2>2
  <2>4. e = f
    BY <1>0, <2>3
  <2>5. Stays(e)
    BY <1>0, <2>2, <2>3, <2>4 DEF Stays, Facts
  <2> QED
    BY <2>1, <2>5
<1> QED
  BY <1>2, <1>3, <1>4, <1>5, <1>6, <1>7 DEF S!Next

\* Nothing comes to what has been stored by a time that has passed.
LEMMA NothingComes ==
  ASSUME StatisticsInv, [S!Next]_sVars, NEW from \in Nat, NEW to \in Nat, to < sNow,
         NEW e \in S!Between(S!Stored, from, to)'
  PROVE  /\ e \in S!Between(S!Stored, from, to) /\ Stays(e)
         /\ Corrects \/ sEvent'[e].kind.classes = sEvent[e].kind.classes
<1>1. /\ e \in sEvents /\ sEvent'[e].at = "stored"
      /\ from <= sEvent'[e].createdAt /\ sEvent'[e].createdAt <= to
  BY DEF S!Between, S!Stored
<1>2. sEvent'[e].createdAt # sNow
  BY <1>1, Calendar DEF StatisticsInv
<1>3. Stays(e) /\ (Corrects \/ sEvent'[e].kind.classes = sEvent[e].kind.classes)
  BY <1>1, <1>2, StoredStays
<1> QED
  BY <1>1, <1>3 DEF Stays, S!Between, S!Stored

\* Fewer elements are counted less often, by whatever they are counted.
LEMMA FewerAreCounted ==
  ASSUME NEW A, IsFiniteSet(A), NEW w, DOMAIN w = A,
         NEW B \in SUBSET A, NEW v, DOMAIN v = B, \A x \in B : v[x] = w[x]
  PROVE  S!NotMore(S!CountBy(v), S!CountBy(w))
<1> DEFINE c == S!CountBy(w)
           b == S!CountBy(v)
<1>1. /\ \A x \in A : w[x] \in DOMAIN c
      /\ \A k \in DOMAIN c : c[k] = Cardinality({x \in A : w[x] = k})
  BY CountsOf
<1>2. IsFiniteSet(B)
  BY FS_Subset
<1>3. \A k \in DOMAIN b : b[k] = Cardinality({x \in B : v[x] = k})
  BY <1>2, CountsOf
<1>4. DOMAIN b = {v[x] : x \in B}
  BY DEF S!CountBy, S!Range
<1> HIDE DEF b, c
<1>5. ASSUME NEW k \in DOMAIN b PROVE k \in DOMAIN c /\ b[k] <= c[k]
  <2>1. k \in DOMAIN c
    BY <1>1, <1>4
  <2> DEFINE Few == {x \in B : v[x] = k}
             Many == {x \in A : w[x] = k}
  <2>2. Few \in SUBSET Many /\ Many \in SUBSET A
    OBVIOUS
  <2>3. b[k] = Cardinality(Few) /\ c[k] = Cardinality(Many)
    BY <1>1, <1>3, <2>1
  <2> HIDE DEF Few, Many
  <2>4. IsFiniteSet(Many)
    BY <2>2, FS_Subset
  <2>5. Cardinality(Few) <= Cardinality(Many)
    BY <2>2, <2>4, FS_Subset
  <2> QED
    BY <2>1, <2>3, <2>5
<1>6. S!NotMore(b, c)
  BY <1>5 DEF S!NotMore
<1> QED
  BY <1>6 DEF b, c

\* Counts of a finite set are numbers.
LEMMA CountsAreNumbers ==
  ASSUME NEW A, IsFiniteSet(A), NEW w, DOMAIN w = A
  PROVE  /\ IsFiniteSet(DOMAIN S!CountBy(w))
         /\ \A k \in DOMAIN S!CountBy(w) : S!CountBy(w)[k] \in Nat
<1>1. /\ IsFiniteSet(DOMAIN S!CountBy(w))
      /\ \A k \in DOMAIN S!CountBy(w) : S!CountBy(w)[k] = Cardinality({x \in A : w[x] = k})
  BY CountsOf
<1>2. ASSUME NEW k PROVE Cardinality({x \in A : w[x] = k}) \in Nat
  <2>1. {x \in A : w[x] = k} \in SUBSET A
    OBVIOUS
  <2> QED
    BY <2>1, FS_Subset, FS_CardinalityType
<1> QED
  BY <1>1, <1>2

\* Where no count is larger, each row of a camera is within its row.
LEMMA RowsFollow ==
  ASSUME NEW f, IsFiniteSet(DOMAIN f), \A x \in DOMAIN f : f[x] \in Nat,
         NEW g, IsFiniteSet(DOMAIN g), \A x \in DOMAIN g : g[x] \in Nat,
         S!NotMore(f, g), NEW named
  PROVE  S!RowsWithin(S!CameraRows(f, named), S!CameraRows(g, named))
<1> DEFINE Order(h) == CHOOSE s \in S!SetToSeqs(DOMAIN h) :
                         \A i, j \in DOMAIN s : i < j => h[s[i]] >= h[s[j]]
           Row(h, x) == [cameraName |-> IF x \in named THEN x ELSE "", eventsNum |-> h[x]]
           n(h) == Cardinality(DOMAIN h)
<1>1. Order(f) \in Bijection(1..n(f), DOMAIN f) /\ Order(g) \in Bijection(1..n(g), DOMAIN g)
  BY RowsAreSorted
<1>2. /\ S!CameraRows(f, named) = [i \in DOMAIN Order(f) |-> Row(f, Order(f)[i])]
      /\ S!CameraRows(g, named) = [i \in DOMAIN Order(g) |-> Row(g, Order(g)[i])]
  BY DEF S!CameraRows
<1> HIDE DEF Order, n
<1>3. /\ Order(f) \in [1..n(f) -> DOMAIN f] /\ Order(g) \in [1..n(g) -> DOMAIN g]
      /\ \A x \in DOMAIN g : \E j \in 1..n(g) : Order(g)[j] = x
  BY <1>1 DEF Bijection, Injection, Surjection
<1>4. ASSUME NEW i \in DOMAIN Order(f)
      PROVE  \E j \in DOMAIN Order(g) :
               /\ Row(g, Order(g)[j]).cameraName = Row(f, Order(f)[i]).cameraName
               /\ Row(f, Order(f)[i]).eventsNum <= Row(g, Order(g)[j]).eventsNum
  <2> DEFINE x == Order(f)[i]
  <2>1. x \in DOMAIN f
    BY <1>3
  <2>2. x \in DOMAIN g /\ f[x] <= g[x]
    BY <2>1 DEF S!NotMore
  <2>3. PICK j \in 1..n(g) : Order(g)[j] = x
    BY <1>3, <2>2
  <2>4. j \in DOMAIN Order(g)
    BY <1>3
  <2> QED
    BY <2>2, <2>3, <2>4
<1> HIDE DEF Row
<1> QED
  BY <1>2, <1>4 DEF S!RowsWithin

\* The snapshots of an event.
LEMMA PlacesAreFinite == IsFiniteSet(1..3)
<1>1. \A n \in Int : IsFiniteSet(1..n)
  BY FS_Interval
<1>2. 3 \in Int
  OBVIOUS
<1> QED
  BY <1>1, <1>2, Zenon

LEMMA PastOnlyShrinks ==
  ASSUME StatisticsInv, [S!Next]_sVars, NEW q \in sRequests, NEW to \in S!Days,
         NEW from \in 0..to, S!Midnight(to + 1) < sNow
  PROVE  /\ S!NotMore(S!Daily(q, from, to)', S!Daily(q, from, to))
         /\ S!NotMore(S!ByType(q, from, to)', S!ByType(q, from, to))
         /\ S!RowsWithin(S!ByCamera(q, from, to, sCameras)', S!ByCamera(q, from, to, sCameras))
         /\ \/ S!NotMore(S!ByClass(q, from, to)', S!ByClass(q, from, to))
            \/ \E e \in sEvents, class \in sClasses : S!PutEvents(e, class)
<1> DEFINE a == S!Midnight(from)
           z == S!Midnight(to + 1)
           B == S!Between(S!Selected(q), a, z)
           C == S!Between(S!OfType(q), a, z)
<1>1. a \in Nat /\ z \in Nat /\ z < sNow
  BY RequestsAssumption DEF S!Midnight, S!Days
<1>2. \A e \in S!Between(S!Stored, a, z)' :
        /\ e \in S!Between(S!Stored, a, z) /\ Stays(e)
        /\ Corrects \/ sEvent'[e].kind.classes = sEvent[e].kind.classes
  BY <1>1, NothingComes
<1>3. C' \subseteq C /\ \A e \in C' : Stays(e)
  <2>1. ASSUME NEW e \in C' PROVE e \in C /\ Stays(e)
    <3>1. e \in S!Between(S!Stored, a, z)' /\ e \in S!OfType(q)'
      BY DEF S!Between, S!OfType
    <3>2. e \in S!Between(S!Stored, a, z) /\ Stays(e)
      BY <1>2, <3>1
    <3>3. e \in S!OfType(q)
      BY <3>1, <3>2 DEF S!OfType, S!Between, Stays
    <3> QED
      BY <3>2, <3>3 DEF S!Between
  <2> QED
    BY <2>1
<1>4. B' \subseteq B
      /\ \A e \in B' : Stays(e) /\ (Corrects \/ sEvent'[e].kind.classes = sEvent[e].kind.classes)
  <2>1. ASSUME NEW e \in B'
        PROVE  /\ e \in B /\ Stays(e)
               /\ Corrects \/ sEvent'[e].kind.classes = sEvent[e].kind.classes
    <3>1. e \in S!Between(S!Stored, a, z)' /\ e \in C' /\ e \in S!Selected(q)'
      BY DEF S!Between, S!Selected, S!OfType
    <3>2. e \in C /\ Stays(e)
          /\ (Corrects \/ sEvent'[e].kind.classes = sEvent[e].kind.classes)
      BY <1>2, <1>3, <3>1
    <3>3. e \in S!Selected(q)
      BY <3>1, <3>2 DEF S!Selected, S!Between, Stays
    <3> QED
      BY <3>2, <3>3 DEF S!Between
  <2> QED
    BY <2>1
<1>5. IsFiniteSet(B) /\ IsFiniteSet(C)
  BY RequestsAssumption, FS_Subset DEF S!Stored, S!OfType, S!Selected, S!Between
<1> HIDE DEF a, z, B, C
<1>6. S!NotMore(S!Daily(q, from, to)', S!Daily(q, from, to))
  <2> DEFINE w == [e \in B |-> sEvent[e].date]
             v == [e \in B' |-> sEvent'[e].date]
  <2>1. \A e \in B' : v[e] = w[e]
    BY <1>4 DEF Stays
  <2>2. DOMAIN w = B /\ DOMAIN v = B'
    OBVIOUS
  <2>3. S!Daily(q, from, to) = S!CountBy(w) /\ S!Daily(q, from, to)' = S!CountBy(v)
    BY DEF S!Daily, S!CountByDate, B, a, z
  <2> HIDE DEF w, v
  <2>4. S!NotMore(S!CountBy(v), S!CountBy(w))
    BY <1>4, <1>5, <2>1, <2>2, FewerAreCounted
  <2> QED
    BY <2>3, <2>4
<1>7. S!NotMore(S!ByType(q, from, to)', S!ByType(q, from, to))
  <2> DEFINE w == [e \in B |-> sEvent[e].kind.type]
             v == [e \in B' |-> sEvent'[e].kind.type]
  <2>1. \A e \in B' : v[e] = w[e]
    BY <1>4 DEF Stays
  <2>2. DOMAIN w = B /\ DOMAIN v = B'
    OBVIOUS
  <2>3. S!ByType(q, from, to) = S!CountBy(w) /\ S!ByType(q, from, to)' = S!CountBy(v)
    BY DEF S!ByType, S!CountEventTypeByDate, B, a, z
  <2> HIDE DEF w, v
  <2>4. S!NotMore(S!CountBy(v), S!CountBy(w))
    BY <1>4, <1>5, <2>1, <2>2, FewerAreCounted
  <2> QED
    BY <2>3, <2>4
<1>8. S!RowsWithin(S!ByCamera(q, from, to, sCameras)', S!ByCamera(q, from, to, sCameras))
  <2> DEFINE w == [e \in C |-> sEvent[e].kind.camera]
             v == [e \in C' |-> sEvent'[e].kind.camera]
  <2>1. \A e \in C' : v[e] = w[e]
    BY <1>3 DEF Stays
  <2>2. DOMAIN w = C /\ DOMAIN v = C' /\ IsFiniteSet(C')
    BY <1>3, <1>5, FS_Subset
  <2>3. /\ S!ByCamera(q, from, to, sCameras) = S!CameraRows(S!CountBy(w), sCameras)
        /\ S!ByCamera(q, from, to, sCameras)' = S!CameraRows(S!CountBy(v), sCameras)
    BY DEF S!ByCamera, S!CountCameraByDate, C, a, z
  <2> HIDE DEF w, v
  <2>4. S!NotMore(S!CountBy(v), S!CountBy(w))
    BY <1>3, <1>5, <2>1, <2>2, FewerAreCounted
  <2>5. /\ IsFiniteSet(DOMAIN S!CountBy(w)) /\ IsFiniteSet(DOMAIN S!CountBy(v))
        /\ \A k \in DOMAIN S!CountBy(w) : S!CountBy(w)[k] \in Nat
        /\ \A k \in DOMAIN S!CountBy(v) : S!CountBy(v)[k] \in Nat
    BY <1>5, <2>2, CountsAreNumbers
  <2>6. S!RowsWithin(S!CameraRows(S!CountBy(v), sCameras), S!CameraRows(S!CountBy(w), sCameras))
    BY <2>4, <2>5, RowsFollow
  <2> QED
    BY <2>3, <2>6
<1>9. CASE Corrects
  BY <1>6, <1>7, <1>8, <1>9 DEF Corrects
<1>10. CASE ~Corrects
  <2> DEFINE D == {p \in B \X (1..3) : /\ p[2] \in DOMAIN sEvent[p[1]].kind.classes
                                       /\ sEvent[p[1]].kind.classes[p[2]] # 0}
             E == {p \in B' \X (1..3) : /\ p[2] \in DOMAIN sEvent'[p[1]].kind.classes
                                        /\ sEvent'[p[1]].kind.classes[p[2]] # 0}
             w == [p \in D |-> sEvent[p[1]].kind.classes[p[2]]]
             v == [p \in E |-> sEvent'[p[1]].kind.classes[p[2]]]
  <2>1. \A e \in B' : e \in B /\ sEvent'[e].kind.classes = sEvent[e].kind.classes
    BY <1>4, <1>10
  <2>2. \A p \in E : p \in D /\ sEvent'[p[1]].kind.classes = sEvent[p[1]].kind.classes
    <3> SUFFICES ASSUME NEW p \in E
                 PROVE  p \in D /\ sEvent'[p[1]].kind.classes = sEvent[p[1]].kind.classes
      OBVIOUS
    <3>1. p[1] \in B' /\ p \in B' \X (1..3)
      OBVIOUS
    <3>2. p[1] \in B /\ sEvent'[p[1]].kind.classes = sEvent[p[1]].kind.classes
      BY <2>1, <3>1
    <3>3. p \in B \X (1..3)
      BY <3>1, <3>2
    <3> QED
      BY <3>2, <3>3
  <2>3. \A p \in E : v[p] = w[p]
    BY <2>2
  <2>4. DOMAIN w = D /\ DOMAIN v = E /\ E \in SUBSET D
    BY <2>2
  <2>5. IsFiniteSet(D)
    <3>1. \A U : IsFiniteSet(U) => IsFiniteSet(B \X U)
      BY <1>5, FS_Product, Zenon
    <3>2. IsFiniteSet(B \X (1..3))
      BY <3>1, PlacesAreFinite, Zenon
    <3>3. D \in SUBSET (B \X (1..3))
      OBVIOUS
    <3> HIDE DEF D
    <3> QED
      BY <3>2, <3>3, FS_Subset, Zenon
  <2>6. S!ByClass(q, from, to) = S!CountBy(w) /\ S!ByClass(q, from, to)' = S!CountBy(v)
    BY DEF S!ByClass, S!CountClassByDate, B, a, z
  <2> HIDE DEF w, v, D, E
  <2>7. S!NotMore(S!CountBy(v), S!CountBy(w))
    BY <2>3, <2>4, <2>5, FewerAreCounted
  <2> QED
    BY <1>6, <1>7, <1>8, <2>6, <2>7
<1> QED
  BY <1>9, <1>10

-----------------------------------------------------------------------------
(***************************************************************************)
(* The hours and the days: both are sizes of sets of events of one day,    *)
(* that of the days without those that were created after the list.        *)
(***************************************************************************)

\* An event was not created before the day it is counted on.
LEMMA CreatedNoEarlier ==
  ASSUME StatisticsInv, NEW e \in S!Stored
  PROVE  /\ sEvent[e].createdAt \in Nat /\ S!Midnight(sEvent[e].date) <= sEvent[e].createdAt
         /\ sEvent[e].hour \in 0..(sHours - 1)
<1>1. /\ e \in sEvents /\ sEvent[e] \in Facts /\ CountedBefore(sEvent[e], sNow)
      /\ sEvent[e].at = "stored"
  BY DEF StatisticsInv, S!Stored
<1>2. sEvent[e].createdAt \in Nat /\ sEvent[e].hour \in 0..(sHours - 1)
  BY <1>1, Calendar DEF Facts
<1> QED
  BY <1>1, <1>2 DEF CountedBefore

\* A day by its hours is that day among any days and what came too late for these.
LEMMA HoursAddUp ==
  ASSUME StatisticsInv, NEW q \in sRequests, NEW to \in S!Days, NEW from \in 0..to,
         NEW d \in from..to
  PROVE  LET days == S!Daily(q, from, to)
         IN  S!Total(S!Hourly(S!Selected(q), d))
               = Cardinality(S!Late(S!Selected(q), d, to))
                   + (IF d \in DOMAIN days THEN days[d] ELSE 0)
<1> DEFINE T == S!Selected(q)
           A == {e \in T : sEvent[e].date = d}
           L == S!Late(T, d, to)
           a == S!Midnight(from)
           z == S!Midnight(to + 1)
           B == S!Between(T, a, z)
           days == S!Daily(q, from, to)
           O == {e \in B : sEvent[e].date = d}
<1>0. /\ a \in Int /\ z \in Int /\ S!Midnight(d) \in Int /\ a <= S!Midnight(d)
  <2>1. from \in Nat /\ to \in Nat /\ d \in Nat /\ from <= d /\ sHours \in Nat
    BY RequestsAssumption DEF S!Days
  <2> QED
    BY <2>1 DEF S!Midnight
<1>1. /\ IsFiniteSet(A) /\ IsFiniteSet(L) /\ IsFiniteSet(B) /\ IsFiniteSet(O)
      /\ T \subseteq S!Stored
  BY RequestsAssumption, FS_Subset DEF S!Stored, S!OfType, S!Selected, S!Late, S!Between
<1> HIDE DEF T
<1>2. \A e \in T : sEvent[e].date = d =>
        /\ sEvent[e].createdAt \in Nat /\ a <= sEvent[e].createdAt
        /\ sEvent[e].hour \in 0..(sHours - 1)
  <2> SUFFICES ASSUME NEW e \in T, sEvent[e].date = d
               PROVE  /\ sEvent[e].createdAt \in Nat /\ a <= sEvent[e].createdAt
                      /\ sEvent[e].hour \in 0..(sHours - 1)
    OBVIOUS
  <2>1. /\ sEvent[e].createdAt \in Nat /\ S!Midnight(d) <= sEvent[e].createdAt
        /\ sEvent[e].hour \in 0..(sHours - 1)
    BY <1>1, CreatedNoEarlier
  <2> QED
    BY <1>0, <2>1
<1>4. S!Total(S!Hourly(T, d)) = Cardinality(A)
  <2> DEFINE w == [e \in A |-> sEvent[e].hour]
             c == S!CountBy(w)
             g == S!Hourly(T, d)
  <2>0. DOMAIN w = A
    OBVIOUS
  <2> HIDE DEF w
  <2>1. /\ \A v \in DOMAIN c : c[v] = Cardinality({e \in A : w[e] = v})
        /\ \A v : v \notin DOMAIN c => {e \in A : w[e] = v} = {}
    BY <1>1, <2>0, CountsOf
  <2>2. g = [h \in 0..(sHours - 1) |-> IF h \in DOMAIN c THEN c[h] ELSE 0]
    BY DEF S!Hourly, S!CountByHour, w
  <2>3. \A e \in A : w[e] \in 0..(sHours - 1)
    BY <1>2 DEF w
  <2> HIDE DEF c, g, A
  <2>4. \A h \in 0..(sHours - 1) : g[h] = Cardinality({e \in A : w[e] = h})
    BY <2>1, <2>2, FS_EmptySet
  <2>5. DOMAIN g = 0..(sHours - 1) /\ IsFiniteSet(DOMAIN g)
    BY <2>2, RequestsAssumption, FS_Interval
  <2>6. S!Total(g) = Cardinality(A)
    BY <1>1, <2>3, <2>4, <2>5, CountsAddUp
  <2> QED
    BY <2>6 DEF g
<1>5. (IF d \in DOMAIN days THEN days[d] ELSE 0) = Cardinality(O)
  <2> DEFINE w == [e \in B |-> sEvent[e].date]
             c == S!CountBy(w)
  <2>1. /\ \A v \in DOMAIN c : c[v] = Cardinality({e \in B : w[e] = v})
        /\ \A v : v \notin DOMAIN c => {e \in B : w[e] = v} = {}
    BY <1>1, CountsOf
  <2>2. days = c
    BY DEF S!Daily, S!CountByDate, T
  <2>3. O = {e \in B : w[e] = d}
    OBVIOUS
  <2> HIDE DEF c, w, B, O, days
  <2> QED
    BY <2>1, <2>2, <2>3, FS_EmptySet
<1>6. A = L \cup O /\ L \cap O = {}
  <2>1. \A e \in T : e \in L <=> (sEvent[e].date = d /\ sEvent[e].createdAt > z)
    BY DEF S!Late
  <2>2. \A e \in T : e \in O <=> (/\ sEvent[e].date = d
                                  /\ a <= sEvent[e].createdAt /\ sEvent[e].createdAt <= z)
    BY DEF S!Between
  <2>3. L \subseteq T /\ O \subseteq T
    BY DEF S!Late, S!Between
  <2>4. \A e \in T : sEvent[e].date = d =>
          (sEvent[e].createdAt > z <=> ~(sEvent[e].createdAt <= z))
    BY <1>0, <1>2
  <2>5. \A e \in T : e \in A <=> (e \in L \/ e \in O)
    BY <1>2, <2>1, <2>2, <2>4
  <2>6. \A e \in T : ~(e \in L /\ e \in O)
    BY <2>1, <2>2, <2>4
  <2>7. A \subseteq T
    OBVIOUS
  <2> HIDE DEF A, L, O
  <2> QED
    BY <2>3, <2>5, <2>6, <2>7
<1> HIDE DEF A, L, O, days
<1>7. Cardinality(A) = Cardinality(L) + Cardinality(O)
  <2>1. Cardinality(L \cup O) = Cardinality(L) + Cardinality(O) - 0
    BY <1>1, <1>6, FS_Union, FS_EmptySet
  <2>2. Cardinality(L) \in Nat /\ Cardinality(O) \in Nat
    BY <1>1, FS_CardinalityType
  <2> QED
    BY <1>6, <2>1, <2>2
<1> QED
  BY <1>4, <1>5, <1>7 DEF L, days, T

LEMMA HoursMatchDays == StatisticsInv => S!HoursAndDaysAgree
BY HoursAddUp, SCardinality DEF S!HoursAndDaysAgree

-----------------------------------------------------------------------------
(***************************************************************************)
(* The face search. Of the pictures a worker has gone through, each that   *)
(* is there has its entry, in their order; so as long as no picture is     *)
(* missing the place of an entry is that of its picture. A login is        *)
(* fetched by the one worker that holds the lock: a session that is stored *)
(* is no older than a login takes, and a worker that need not log in or    *)
(* has just done so finds one the service still accepts.                   *)
(***************************************************************************)
People == [snap : Nat, first : F!First]

WorkerTypes ==
  [pc : F!Steps, pics : fEvents \cup {<<>>}, i : Nat, faces : F!None..fMaxFaces,
   searched : 0..fMaxFaces, first : F!First, people : Seq(People), err : BOOLEAN,
   cookie : {F!None, F!Torn} \cup 0..fLastTick, wait : 0..fDelay,
   cause : {"none", "fault", "race"}]

\* The first n pictures are all there.
AllThere(r, n) == \A j \in 1..n : r.pics[j]

Snaps(r) == {r.people[k].snap : k \in DOMAIN r.people}

\* The pictures up to n have been gone through.
Covers(r, n) ==
  /\ n \in 0..Len(r.pics) /\ Len(r.people) <= n
  /\ Snaps(r) = {j \in 1..n : r.pics[j]}
  /\ \A m \in 1..n : AllThere(r, m) => m <= Len(r.people)
  /\ \A k \in 1..Len(r.people) : AllThere(r, k) => r.people[k].snap = k

\* The picture at hand is there, and those before it have been gone through.
Looks(r) ==
  r.i \in 1..Len(r.pics) /\ r.pics[r.i] /\ Covers(r, r.i - 1) /\ ~r.err

\* No more faces are searched than were found.
Searches(r) == IF r.faces = F!None THEN r.searched = 0 ELSE r.searched < r.faces

\* A worker looks at a picture, or is done: without an error, only with all of them.
Walks(r) ==
  /\ r.i \in 0..Len(r.pics) /\ Len(r.people) <= Len(r.pics)
  /\ r.pc = "idle" => r = F!Idle
  /\ r.pc = "done" => r.err \/ Covers(r, Len(r.pics))
  /\ r.pc \notin {"idle", "done"} => Looks(r) /\ Searches(r)

LEMMA PicsAreSeq ==
  ASSUME NEW r \in WorkerTypes
  PROVE  /\ r.pics \in Seq(BOOLEAN) /\ Len(r.pics) \in Nat /\ DOMAIN r.pics = 1..Len(r.pics)
         /\ \A j \in 1..Len(r.pics) : r.pics[j] \in BOOLEAN
         /\ r.people \in Seq(People) /\ Len(r.people) \in Nat
         /\ DOMAIN r.people = 1..Len(r.people)
         /\ \A k \in 1..Len(r.people) : r.people[k] \in People
<1>1. r.pics \in Seq(BOOLEAN)
  <2>1. <<>> \in Seq(BOOLEAN)
    OBVIOUS
  <2>2. r.pics \in fEvents \cup {<<>>}
    BY DEF WorkerTypes
  <2> QED
    BY <2>1, <2>2, RequestsAssumption
<1>2. r.people \in Seq(People)
  BY DEF WorkerTypes
<1> QED
  BY <1>1, <1>2

\* Advance goes on to the next picture that is there, or is done.
LEMMA AdvanceWalks ==
  ASSUME NEW r \in WorkerTypes, r.i \in 0..Len(r.pics), Covers(r, r.i), ~r.err
  PROVE  /\ F!Advance(r) \in WorkerTypes /\ Walks(F!Advance(r))
         /\ F!Advance(r).pc \in {"check", "done"}
         /\ F!Advance(r).err = r.err /\ F!Advance(r).cause = r.cause
<1> DEFINE rest == {j \in DOMAIN r.pics : j > r.i /\ r.pics[j]}
           q == F!Advance(r)
<1>0. /\ Len(r.pics) \in Nat /\ DOMAIN r.pics = 1..Len(r.pics) /\ r.i \in Nat
      /\ Len(r.people) \in Nat /\ DOMAIN r.people = 1..Len(r.people)
      /\ \A j \in 1..Len(r.pics) : r.pics[j] \in BOOLEAN
      /\ Len(r.people) <= r.i
  BY PicsAreSeq DEF Covers
<1>1. CASE rest = {}
  <2>1. q = [r EXCEPT !.pc = "done"]
    BY <1>1 DEF F!Advance
  <2> HIDE DEF q, rest
  <2>2. /\ q \in WorkerTypes /\ q.pc = "done" /\ q.pics = r.pics /\ q.people = r.people
        /\ q.i = r.i /\ q.err = r.err /\ q.cause = r.cause
    BY <2>1 DEF WorkerTypes, F!Steps
  <2>3. \A j \in 1..Len(r.pics) : r.pics[j] => j \in 1..r.i
    BY <1>0, <1>1 DEF rest
  <2>4. Covers(r, Len(r.pics))
    <3>1. Snaps(r) = {j \in 1..Len(r.pics) : r.pics[j]}
      <4>1. Snaps(r) = {j \in 1..r.i : r.pics[j]}
        BY DEF Covers
      <4>2. 1..r.i \subseteq 1..Len(r.pics)
        BY <1>0
      <4> QED
        BY <2>3, <4>1, <4>2
    <3>2. ASSUME NEW m \in 1..Len(r.pics), AllThere(r, m) PROVE m <= Len(r.people)
      <4>1. r.pics[m]
        BY <1>0, <3>2 DEF AllThere
      <4> QED
        BY <2>3, <3>2, <4>1 DEF Covers
    <3> QED
      BY <1>0, <3>1, <3>2 DEF Covers
  <2>5. Covers(q, Len(q.pics))
    BY <2>2, <2>4 DEF Covers, Snaps, AllThere
  <2>6. Walks(q)
    BY <1>0, <2>2, <2>5 DEF Walks
  <2> QED
    BY <2>2, <2>6 DEF q
<1>2. CASE rest # {}
  <2> DEFINE next == CHOOSE j \in rest : \A k \in rest : j <= k
  <2>1. next \in rest /\ \A k \in rest : next <= k
    <3>1. rest \in SUBSET Nat
      BY <1>0
    <3>2. \E j \in rest : \A k \in rest : j <= k
      BY <1>2, <3>1, Smallest
    <3> QED
      BY <3>2
  <2>2. q = [r EXCEPT !.pc = "check", !.faces = F!None, !.searched = 0, !.first = "nobody",
                      !.i = next]
    BY <1>2 DEF F!Advance
  <2> HIDE DEF q, next
  <2>3. next \in 1..Len(r.pics) /\ next > r.i /\ r.pics[next]
    BY <1>0, <2>1
  <2>4. \A j \in 1..(next - 1) : r.pics[j] => j \in 1..r.i
    <3> SUFFICES ASSUME NEW j \in 1..(next - 1), r.pics[j], ~(j \in 1..r.i) PROVE FALSE
      OBVIOUS
    <3>1. j \in rest
      BY <1>0, <2>3
    <3> QED
      BY <1>0, <2>1, <2>3, <3>1
  <2> HIDE DEF rest
  <2>5. F!None \in F!None..fMaxFaces /\ 0 \in 0..fMaxFaces /\ next \in Nat
    BY <2>3, RequestsAssumption DEF F!None
  <2>6. /\ q \in WorkerTypes /\ q.pc = "check" /\ q.pics = r.pics /\ q.people = r.people
        /\ q.i = next /\ q.err = r.err /\ q.cause = r.cause /\ q.faces = F!None
        /\ q.searched = 0
    BY <2>2, <2>5 DEF WorkerTypes, F!Steps, F!First
  <2>7. Covers(r, next - 1)
    <3>1. Snaps(r) = {j \in 1..(next - 1) : r.pics[j]}
      <4>1. Snaps(r) = {j \in 1..r.i : r.pics[j]}
        BY DEF Covers
      <4>2. 1..r.i \subseteq 1..(next - 1)
        BY <1>0, <2>3
      <4> QED
        BY <2>4, <4>1, <4>2
    <3>2. ASSUME NEW m \in 1..(next - 1), AllThere(r, m) PROVE m <= Len(r.people)
      <4>1. r.pics[m]
        BY <2>3, <3>2 DEF AllThere
      <4> QED
        BY <2>4, <3>2, <4>1 DEF Covers
    <3>3. next - 1 \in 0..Len(r.pics) /\ Len(r.people) <= next - 1
      BY <1>0, <2>3
    <3> QED
      BY <3>1, <3>2, <3>3 DEF Covers
  <2>8. Covers(q, q.i - 1)
    BY <2>6, <2>7 DEF Covers, Snaps, AllThere
  <2>9. Walks(q)
    BY <1>0, <2>3, <2>6, <2>8 DEF Walks, Looks, Searches
  <2> QED
    BY <2>6, <2>9 DEF q
<1> QED
  BY <1>1, <1>2

\* With the entry of its picture the worker has gone through that one too.
LEMMA PictureDoneWalks ==
  ASSUME NEW r \in WorkerTypes, Looks(r)
  PROVE  /\ F!PictureDone(r) \in WorkerTypes /\ Walks(F!PictureDone(r))
         /\ F!PictureDone(r).pc \in {"check", "done"}
         /\ F!PictureDone(r).err = r.err /\ F!PictureDone(r).cause = r.cause
<1> DEFINE entry == [snap |-> r.i, first |-> r.first]
           people == Append(r.people, entry)
           q == [r EXCEPT !.people = people]
           n == Len(r.people)
<1>0. /\ Len(r.pics) \in Nat /\ r.i \in 1..Len(r.pics) /\ r.pics[r.i] /\ ~r.err
      /\ r.people \in Seq(People) /\ n \in Nat /\ DOMAIN r.people = 1..n
      /\ Covers(r, r.i - 1) /\ n <= r.i - 1
  BY PicsAreSeq DEF Looks, Covers
<1>1. entry \in People /\ entry.snap = r.i
  BY DEF People, WorkerTypes
<1> HIDE DEF entry
<1>2. /\ people \in Seq(People) /\ Len(people) = n + 1 /\ DOMAIN people = 1..(n + 1)
      /\ people[n + 1] = entry /\ \A k \in 1..n : people[k] = r.people[k]
  BY <1>0, <1>1
<1> HIDE DEF people
<1>3. /\ q \in WorkerTypes /\ q.people = people /\ q.pics = r.pics /\ q.i = r.i
      /\ q.err = r.err /\ q.cause = r.cause
  BY <1>2 DEF WorkerTypes
<1>4. F!PictureDone(r) = F!Advance(q)
  BY DEF F!PictureDone, people, entry
<1> HIDE DEF q, n
<1>5. Covers(q, r.i)
  <2>1. Snaps(q) = Snaps(r) \cup {r.i}
    <3>1. Snaps(q) = {people[k].snap : k \in 1..(n + 1)}
      BY <1>2, <1>3 DEF Snaps
    <3>2. Snaps(r) = {r.people[k].snap : k \in 1..n}
      BY <1>0 DEF Snaps
    <3>3. \A k \in 1..(n + 1) : k \in 1..n \/ k = n + 1
      BY <1>0
    <3>4. n + 1 \in 1..(n + 1) /\ 1..n \subseteq 1..(n + 1)
      BY <1>0
    <3> QED
      BY <1>1, <1>2, <3>1, <3>2, <3>3, <3>4
  <2>2. Snaps(q) = {j \in 1..r.i : r.pics[j]}
    <3>1. Snaps(r) = {j \in 1..(r.i - 1) : r.pics[j]}
      BY <1>0 DEF Covers
    <3>2. \A j \in 1..r.i : j \in 1..(r.i - 1) \/ j = r.i
      BY <1>0
    <3>3. r.i \in 1..r.i /\ 1..(r.i - 1) \subseteq 1..r.i
      BY <1>0
    <3> QED
      BY <1>0, <2>1, <3>1, <3>2, <3>3
  <2>3. ASSUME NEW m \in 1..r.i, AllThere(r, m) PROVE m <= n + 1
    <3>1. CASE m = 1
      BY <1>0, <3>1
    <3>2. CASE m # 1
      <4>1. m - 1 \in 1..(r.i - 1)
        BY <1>0, <3>2
      <4>2. AllThere(r, m - 1)
        BY <2>3, <4>1 DEF AllThere
      <4>3. m - 1 <= n
        BY <1>0, <4>1, <4>2 DEF Covers, n
      <4> QED
        BY <1>0, <4>1, <4>3
    <3> QED
      BY <3>1, <3>2
  <2>4. ASSUME NEW k \in 1..(n + 1), AllThere(r, k) PROVE people[k].snap = k
    <3>1. CASE k \in 1..n
      BY <1>0, <1>2, <2>4, <3>1 DEF Covers, n
    <3>2. CASE k = n + 1
      <4>1. CASE n + 1 <= r.i - 1
        <5>1. n + 1 \in 1..(r.i - 1)
          BY <1>0, <4>1
        <5>2. n + 1 <= n
          BY <1>0, <2>4, <3>2, <5>1 DEF Covers, n
        <5> QED
          BY <1>0, <5>2
      <4>2. CASE ~(n + 1 <= r.i - 1)
        <5>1. n + 1 = r.i
          BY <1>0, <4>2
        <5> QED
          BY <1>1, <1>2, <3>2, <5>1
      <4> QED
        BY <4>1, <4>2
    <3> QED
      BY <1>0, <3>1, <3>2
  <2>5. r.i \in 0..Len(r.pics) /\ n + 1 <= r.i
    BY <1>0
  <2> QED
    BY <1>2, <1>3, <2>2, <2>3, <2>4, <2>5 DEF Covers, AllThere
<1>6. q.i \in 0..Len(q.pics) /\ ~q.err
  BY <1>0, <1>3
<1> QED
  BY <1>3, <1>4, <1>5, <1>6, AdvanceWalks

-----------------------------------------------------------------------------
\* Where worker x stands in its login: only the one with the lock logs in, and only when
\* the last login has expired; the session it has got is no older than it has waited; one
\* that is about to send found a login that has not expired.
Login(x, r, time, last, lock) ==
  /\ r.pc \in {"post", "answer", "cookies"} => lock = x
  /\ lock = x => r.pc \in {"post", "answer", "cookies", "send"}
  /\ r.pc \in {"post", "answer"} => time - last >= fExpire
  /\ r.pc = "answer" => r.cookie >= 0 /\ r.cookie + r.wait >= time
  /\ r.pc = "cookies" => r.cookie >= 0 /\ r.cookie + fDelay >= time /\ last = time
  /\ r.pc = "send" => time - last < fExpire
  /\ r.pc = "refused" => r.cause # "none"
  /\ r.err => r.cause # "none"

\* Unless it is just being stored, the session belongs to the last login.
Session == F!Storing = {} /\ fLast > 0 => fCookies >= 0 /\ fCookies + fDelay >= fLast

LoginTypes ==
  /\ fNow \in fExpire..fLastTick /\ fLast \in 0..fLastTick /\ fLast <= fNow
  /\ fCookies \in {F!None} \cup 0..fLastTick /\ fLock \in fWorkers \cup {F!Free}

FaceInv ==
  /\ LoginTypes /\ Session /\ fW \in [fWorkers -> WorkerTypes]
  /\ \A x \in fWorkers : Walks(fW[x]) /\ Login(x, fW[x], fNow, fLast, fLock)

LEMMA IdleWalks ==
  /\ F!Idle \in WorkerTypes /\ Walks(F!Idle)
  /\ \A x, time, last, lock : lock # x => Login(x, F!Idle, time, last, lock)
<1>1. 0 \in 0..fMaxFaces /\ 0 \in 0..fDelay /\ F!None \in F!None..fMaxFaces
  BY RequestsAssumption DEF F!None
<1>2. <<>> \in Seq(People) /\ Len(<<>>) = 0
  OBVIOUS
<1>3. F!Idle \in WorkerTypes
  BY <1>1, <1>2 DEF F!Idle, WorkerTypes, F!Steps, F!First
<1>4. Walks(F!Idle)
  BY DEF Walks, F!Idle
<1>5. \A x, time, last, lock : lock # x => Login(x, F!Idle, time, last, lock)
  BY DEF Login, F!Idle
<1> QED
  BY <1>3, <1>4, <1>5

LEMMA CookieIsNumber ==
  ASSUME NEW r \in WorkerTypes
  PROVE  r.cookie \in Int
<1>1. r.cookie \in {F!None, F!Torn} \cup 0..fLastTick
  BY DEF WorkerTypes
<1>2. F!None \in Int /\ F!Torn \in Int /\ 0..fLastTick \subseteq Int
  BY DEF F!None, F!Torn
<1> QED
  BY <1>1, <1>2

LEMMA FaceInvInit == F!Init => FaceInv
<1> SUFFICES ASSUME F!Init PROVE FaceInv
  OBVIOUS
<1>1. LoginTypes /\ Session
  BY RequestsAssumption DEF F!Init, LoginTypes, Session
<1>2. \A x \in fWorkers : fW[x] = F!Idle /\ fLock # x
  BY RequestsAssumption DEF F!Init
<1>3. fW \in [fWorkers -> WorkerTypes]
  BY IdleWalks DEF F!Init
<1> QED
  BY <1>1, <1>2, <1>3, IdleWalks DEF FaceInv

\* A worker that goes on with the same picture still has gone through those before it.
LEMMA StillWalks ==
  ASSUME NEW r \in WorkerTypes, NEW q \in WorkerTypes, Walks(r),
         r.pc \notin {"idle", "done"}, q.pc \notin {"idle", "done"}, q.err = r.err,
         q.pics = r.pics, q.i = r.i, q.people = r.people,
         Searches(q)
  PROVE  Walks(q)
BY DEF Walks, Looks, Covers, Snaps, AllThere

\* The first error ends it.
LEMMA FailedWalks ==
  ASSUME NEW r \in WorkerTypes, Walks(r), NEW cause \in {"none", "fault", "race"},
         cause # "none", NEW x, NEW time, NEW last, NEW lock, lock # x
  PROVE  /\ F!Failed(r, cause) \in WorkerTypes /\ Walks(F!Failed(r, cause))
         /\ F!Failed(r, cause).pc = "done" /\ Login(x, F!Failed(r, cause), time, last, lock)
<1> DEFINE q == [r EXCEPT !.pc = "done", !.err = TRUE, !.cause = cause]
<1>1. /\ q \in WorkerTypes /\ q.pc = "done" /\ q.err /\ q.cause = cause /\ q.pics = r.pics
      /\ q.i = r.i /\ q.people = r.people
  BY DEF WorkerTypes, F!Steps
<1>2. F!Failed(r, cause) = q
  BY DEF F!Failed
<1> HIDE DEF q
<1>3. Walks(q)
  BY <1>1 DEF Walks
<1>4. Login(x, q, time, last, lock)
  BY <1>1 DEF Login
<1> QED
  BY <1>1, <1>2, <1>3, <1>4

\* One worker moves.
LEMMA WorkerMoves ==
  ASSUME FaceInv, NEW x \in fWorkers, NEW q \in WorkerTypes, Walks(q),
         fW' = [fW EXCEPT ![x] = q], LoginTypes', Session', fNow' = fNow,
         Login(x, q, fNow, fLast', fLock'),
         \A y \in fWorkers \ {x} : Login(y, fW[y], fNow, fLast', fLock')
  PROVE  FaceInv'
<1>1. fW' \in [fWorkers -> WorkerTypes]
  BY DEF FaceInv
<1>2. fW'[x] = q /\ \A y \in fWorkers \ {x} : fW'[y] = fW[y]
  BY DEF FaceInv
<1>3. ASSUME NEW y \in fWorkers
      PROVE  Walks(fW'[y]) /\ Login(y, fW'[y], fNow', fLast', fLock')
  <2>1. CASE y = x
    BY <1>2, <2>1
  <2>2. CASE y # x
    BY <1>2, <2>2 DEF FaceInv
  <2> QED
    BY <2>1, <2>2
<1> QED
  BY <1>1, <1>3 DEF FaceInv, Login, Walks, Looks, Searches, Covers, Snaps, AllThere

\* One worker moves, and neither the login nor its lock does.
LEMMA WorkerMovesAlone ==
  ASSUME FaceInv, NEW x \in fWorkers, NEW q \in WorkerTypes, Walks(q),
         fW' = [fW EXCEPT ![x] = q], fNow' = fNow, fLast' = fLast, fCookies' = fCookies,
         fLock' = fLock, fW[x].pc # "cookies", q.pc # "cookies",
         Login(x, q, fNow, fLast, fLock)
  PROVE  FaceInv'
<1>1. LoginTypes'
  BY DEF FaceInv, LoginTypes
<1>2. Session'
  <2>1. \A y \in fWorkers : fW'[y].pc = "cookies" <=> fW[y].pc = "cookies"
    BY DEF FaceInv
  <2>2. F!Storing' = F!Storing
    BY <2>1 DEF F!Storing
  <2> QED
    BY <2>2 DEF FaceInv, Session
<1>3. \A y \in fWorkers \ {x} : Login(y, fW[y], fNow, fLast', fLock')
  BY DEF FaceInv
<1> QED
  BY <1>1, <1>2, <1>3, WorkerMoves

LEMMA FaceTick ==
  ASSUME FaceInv, F!Tick
  PROVE  FaceInv'
<1> DEFINE Next(x) == IF fW[x].pc \in {"post", "answer"}
                      THEN [fW[x] EXCEPT !.wait = @ + 1] ELSE fW[x]
<1>1. fW' = [x \in fWorkers |-> Next(x)] /\ fNow' = fNow + 1 /\ fNow < fLastTick
  BY DEF F!Tick
<1>2. UNCHANGED <<fLast, fCookies, fLock>>
  BY DEF F!Tick
<1>3. LoginTypes'
  BY <1>1, <1>2, RequestsAssumption DEF FaceInv, LoginTypes
<1>4. ASSUME NEW x \in fWorkers
      PROVE  /\ Next(x) \in WorkerTypes /\ Walks(Next(x)) /\ Next(x).pc = fW[x].pc
             /\ Login(x, Next(x), fNow + 1, fLast, fLock)
  <2>1. /\ fW[x] \in WorkerTypes /\ Walks(fW[x]) /\ Login(x, fW[x], fNow, fLast, fLock)
        /\ fW[x].pc \notin {"cookies", "send"} /\ fNow \in Nat /\ fLast \in Nat
    BY RequestsAssumption DEF F!Tick, FaceInv, LoginTypes
  <2>2. CASE fW[x].pc \in {"post", "answer"}
    <3> DEFINE q == [fW[x] EXCEPT !.wait = @ + 1]
    <3>1. fW[x].wait \in 0..fDelay /\ fW[x].wait < fDelay
      BY <2>1, <2>2 DEF F!Tick, WorkerTypes
    <3>2. fW[x].wait + 1 \in 0..fDelay
      BY <3>1, RequestsAssumption
    <3>3. /\ q \in WorkerTypes /\ q.wait = fW[x].wait + 1 /\ q.pc = fW[x].pc
          /\ q.pics = fW[x].pics /\ q.i = fW[x].i /\ q.people = fW[x].people
          /\ q.faces = fW[x].faces /\ q.searched = fW[x].searched /\ q.err = fW[x].err
          /\ q.cookie = fW[x].cookie /\ q.cause = fW[x].cause
      BY <2>1, <3>2 DEF WorkerTypes
    <3>4. Next(x) = q
      BY <2>2
    <3> HIDE DEF q, Next
    <3>5. Walks(q)
      <4>1. Searches(q)
        BY <2>1, <2>2, <3>3 DEF Walks, Searches
      <4> QED
        BY <2>1, <2>2, <3>3, <4>1, StillWalks
    <3>6. Login(x, q, fNow + 1, fLast, fLock)
      <4>1. /\ fNow - fLast >= fExpire => fNow + 1 - fLast >= fExpire
        BY <2>1, RequestsAssumption
      <4>2. ASSUME q.pc = "answer" PROVE q.cookie >= 0 /\ q.cookie + q.wait >= fNow + 1
        <5>1. fW[x].cookie >= 0 /\ fW[x].cookie + fW[x].wait >= fNow
          BY <2>1, <3>3, <4>2 DEF Login
        <5>2. fW[x].cookie \in Int
          BY <2>1, CookieIsNumber
        <5>3. \A a, b \in Int : a + b >= fNow => a + (b + 1) >= fNow + 1
          BY <2>1
        <5> QED
          BY <3>1, <3>3, <5>1, <5>2, <5>3
      <4> QED
        BY <2>1, <2>2, <3>3, <4>1, <4>2 DEF Login
    <3> QED
      BY <3>3, <3>4, <3>5, <3>6
  <2>3. CASE fW[x].pc \notin {"post", "answer"}
    <3>1. Next(x) = fW[x]
      BY <2>3
    <3>2. Login(x, fW[x], fNow + 1, fLast, fLock)
      BY <2>1, <2>3 DEF Login
    <3> QED
      BY <2>1, <3>1, <3>2
  <2> QED
    BY <2>2, <2>3
<1> HIDE DEF Next
<1>5. fW' \in [fWorkers -> WorkerTypes]
  BY <1>1, <1>4
<1>6. F!Storing' = F!Storing
  <2>1. \A x \in fWorkers : fW'[x].pc = fW[x].pc
    BY <1>1, <1>4
  <2> QED
    BY <2>1 DEF F!Storing
<1>7. Session'
  BY <1>2, <1>6 DEF FaceInv, Session
<1>8. ASSUME NEW x \in fWorkers
      PROVE  Walks(fW'[x]) /\ Login(x, fW'[x], fNow', fLast', fLock')
  <2>1. fW'[x] = Next(x)
    BY <1>1
  <2> QED
    BY <1>1, <1>2, <1>4, <2>1
<1> QED
  BY <1>3, <1>5, <1>7, <1>8 DEF FaceInv, Walks, Looks, Searches, Login, Covers, Snaps, AllThere

\* The steps of a worker that do not touch the login.
LEMMA FaceAlone ==
  ASSUME FaceInv, NEW x \in fWorkers, F!Worker(x),
         ~F!Lock(x), ~F!LoginFails(x), ~F!StoreTime(x), ~F!StoreCookies(x), ~F!Send(x),
         ~F!SendCrashes(x)
  PROVE  FaceInv'
<1> DEFINE r == fW[x]
           OnItsOwn == /\ UNCHANGED <<fNow, fLast, fCookies, fLock>>
                       /\ r.pc # "cookies"
                       /\ \E q \in WorkerTypes :
                            /\ fW' = [fW EXCEPT ![x] = q] /\ Walks(q)
                            /\ q.pc # "cookies" /\ Login(x, q, fNow, fLast, fLock)
<1>0. /\ r \in WorkerTypes /\ Walks(r) /\ Login(x, r, fNow, fLast, fLock)
      /\ fNow \in Nat /\ fLast \in Nat /\ fNow \in 0..fLastTick /\ fNow >= fExpire
      /\ fLast <= fNow
  BY RequestsAssumption DEF FaceInv, LoginTypes
<1>a. SUFFICES OnItsOwn
  BY WorkerMovesAlone
<1>1. ASSUME NEW event \in fEvents, F!Takes(x, event) PROVE OnItsOwn
  <2> DEFINE i == [F!Idle EXCEPT !.pics = event]
             q == F!Advance(i)
  <2>1. /\ i \in WorkerTypes /\ i.pics = event /\ i.i = 0 /\ i.people = <<>> /\ ~i.err
        /\ i.cause = "none" /\ i.err = FALSE
    BY IdleWalks DEF WorkerTypes, F!Idle
  <2>2. event \in Seq(BOOLEAN) /\ Len(event) \in Nat
    BY RequestsAssumption
  <2> HIDE DEF i
  <2>3. Covers(i, i.i) /\ i.i \in 0..Len(i.pics)
    BY <2>1, <2>2 DEF Covers, Snaps, AllThere
  <2>4. q \in WorkerTypes /\ Walks(q) /\ q.pc \in {"check", "done"} /\ ~q.err
    BY <2>1, <2>3, AdvanceWalks
  <2>5. fW' = [fW EXCEPT ![x] = q] /\ r.pc \in {"idle", "done"}
    BY <1>1 DEF F!Takes, i
  <2> HIDE DEF q
  <2>6. Login(x, q, fNow, fLast, fLock)
    BY <1>0, <2>4, <2>5 DEF Login
  <2> QED
    BY <1>1, <2>4, <2>5, <2>6 DEF F!Takes
<1>2. CASE F!LoadFails(x) \/ F!CallFails(x) \/ F!Refused(x)
  <2>1. PICK cause \in {"fault", "race"} :
          fW' = [fW EXCEPT ![x] = F!Failed(r, cause)] /\ r.pc \in {"check", "call", "refused"}
    <3>1. CASE F!LoadFails(x) \/ F!CallFails(x)
      BY <1>0, <3>1 DEF F!LoadFails, F!CallFails, FaceInv
    <3>2. CASE F!Refused(x)
      <4>1. r.pc = "refused" /\ r.cause \in {"fault", "race"}
        BY <1>0, <3>2 DEF F!Refused, Login, WorkerTypes
      <4>2. fW' = [fW EXCEPT ![x] = F!Failed(r, r.cause)]
        BY <3>2 DEF F!Refused, FaceInv
      <4> QED
        BY <4>1, <4>2
    <3> QED
      BY <1>2, <3>1, <3>2
  <2>2. fLock # x
    BY <1>0, <2>1 DEF Login
  <2>3. /\ F!Failed(r, cause) \in WorkerTypes /\ Walks(F!Failed(r, cause))
        /\ F!Failed(r, cause).pc = "done"
        /\ Login(x, F!Failed(r, cause), fNow, fLast, fLock)
    <3>1. cause \in {"none", "fault", "race"} /\ cause # "none"
      BY <2>1
    <3> QED
      BY <1>0, <2>2, <3>1, FailedWalks
  <2> QED
    BY <1>2, <2>1, <2>3 DEF F!LoadFails, F!CallFails, F!Refused
<1>3. CASE F!Check(x)
  <2> DEFINE pc == IF F!HasExpired THEN "lock" ELSE "send"
             q == [r EXCEPT !.pc = pc]
  <2>1. pc \in {"lock", "send"} /\ (pc = "send" => fNow - fLast < fExpire)
    BY <1>0, RequestsAssumption DEF F!HasExpired
  <2>2. fW' = [fW EXCEPT ![x] = q] /\ r.pc = "check"
    BY <1>3 DEF F!Check, FaceInv
  <2> HIDE DEF pc
  <2>3. /\ q \in WorkerTypes /\ q.pc = pc /\ q.pics = r.pics /\ q.i = r.i
        /\ q.people = r.people /\ q.faces = r.faces /\ q.searched = r.searched
        /\ q.err = r.err /\ q.cause = r.cause
    BY <1>0, <2>1 DEF WorkerTypes, F!Steps
  <2> HIDE DEF q
  <2>4. Walks(q)
    <3>1. Searches(q)
      BY <1>0, <2>2, <2>3 DEF Walks, Searches
    <3> QED
      BY <1>0, <2>1, <2>2, <2>3, <3>1, StillWalks
  <2>5. Login(x, q, fNow, fLast, fLock)
    BY <1>0, <2>1, <2>2, <2>3 DEF Login
  <2> QED
    BY <1>3, <2>1, <2>2, <2>3, <2>4, <2>5 DEF F!Check
<1>4. CASE F!Opens(x)
  <2> DEFINE q == [r EXCEPT !.pc = "answer", !.cookie = fNow]
  <2>1. fW' = [fW EXCEPT ![x] = q] /\ r.pc = "post"
    BY <1>4 DEF F!Opens, FaceInv
  <2>2. fNow \in {F!None, F!Torn} \cup 0..fLastTick
    BY <1>0
  <2>3. r.wait \in Nat
    BY <1>0, RequestsAssumption DEF WorkerTypes
  <2>4. /\ q \in WorkerTypes /\ q.pc = "answer" /\ q.pics = r.pics /\ q.i = r.i
        /\ q.people = r.people /\ q.faces = r.faces /\ q.searched = r.searched
        /\ q.err = r.err /\ q.cause = r.cause /\ q.cookie = fNow /\ q.wait = r.wait
    BY <1>0, <2>2 DEF WorkerTypes, F!Steps
  <2> HIDE DEF q
  <2>5. Walks(q)
    <3>1. Searches(q)
      BY <1>0, <2>1, <2>4 DEF Walks, Searches
    <3> QED
      BY <1>0, <2>1, <2>4, <3>1, StillWalks
  <2>6. \A a \in Nat : fNow >= 0 /\ fNow + a >= fNow
    BY <1>0
  <2>7. Login(x, q, fNow, fLast, fLock)
    BY <1>0, <2>1, <2>4, <2>6, <2>3 DEF Login
  <2> QED
    BY <1>4, <2>1, <2>4, <2>5, <2>7 DEF F!Opens
<1>5. ASSUME NEW n \in 0..fMaxFaces, F!DetectFace(x, n) PROVE OnItsOwn
  <2> DEFINE t == [r EXCEPT !.pc = "check", !.faces = n]
             q == IF n = 0 THEN F!PictureDone(r) ELSE t
  <2>1. fW' = [fW EXCEPT ![x] = q] /\ r.pc = "call"
    BY <1>5 DEF F!DetectFace, FaceInv
  <2>2. fLock # x /\ ~r.err /\ Looks(r)
    BY <1>0, <2>1 DEF Login, Walks, Looks
  <2>3. CASE n = 0
    <3>1. /\ q \in WorkerTypes /\ Walks(q) /\ q.pc \in {"check", "done"} /\ ~q.err
      BY <1>0, <2>1, <2>2, <2>3, PictureDoneWalks
    <3> HIDE DEF q
    <3>2. Login(x, q, fNow, fLast, fLock)
      BY <2>2, <3>1 DEF Login
    <3> QED
      BY <1>5, <2>1, <3>1, <3>2 DEF F!DetectFace
  <2>4. CASE n # 0
    <3>1. n \in F!None..fMaxFaces /\ n \in Nat /\ n > 0
      BY <2>4, RequestsAssumption DEF F!None
    <3>2. /\ t \in WorkerTypes /\ t.pc = "check" /\ t.pics = r.pics /\ t.i = r.i
          /\ t.people = r.people /\ t.faces = n /\ t.searched = r.searched
          /\ t.err = r.err
      BY <1>0, <3>1 DEF WorkerTypes, F!Steps
    <3>3. q = t
      BY <2>4
    <3>4. Searches(t)
      <4>1. r.searched = 0
        BY <1>0, <1>5, <2>1 DEF F!DetectFace, Walks, Searches
      <4> QED
        BY <3>1, <3>2, <4>1 DEF Searches
    <3> HIDE DEF q, t
    <3>5. Walks(t)
      BY <1>0, <2>1, <3>2, <3>4, StillWalks
    <3>6. Login(x, t, fNow, fLast, fLock)
      BY <2>2, <3>2 DEF Login
    <3> QED
      BY <1>5, <2>1, <3>2, <3>3, <3>5, <3>6 DEF F!DetectFace
  <2> QED
    BY <2>3, <2>4
<1>6. ASSUME NEW who \in F!First \ {"nobody"}, F!SearchFace(x, who) PROVE OnItsOwn
  <2> DEFINE first == IF r.searched = 0 THEN who ELSE r.first
             t == [r EXCEPT !.searched = @ + 1, !.first = first]
             u == [t EXCEPT !.pc = "check"]
             q == IF t.searched = t.faces THEN F!PictureDone(t) ELSE u
  <2>1. r.pc = "call" /\ r.faces # F!None
    BY <1>6 DEF F!SearchFace
  <2>2. fW' = [fW EXCEPT ![x] = q]
    BY <1>6 DEF F!SearchFace, FaceInv
  <2>3. fLock # x /\ ~r.err /\ Looks(r)
    BY <1>0, <2>1 DEF Login, Walks, Looks
  <2>4. /\ r.searched \in Nat /\ r.faces \in Int /\ r.searched < r.faces
        /\ r.faces <= fMaxFaces
    BY <1>0, <2>1, RequestsAssumption DEF WorkerTypes, Walks, Searches, F!None
  <2>5. \A a \in Nat, b \in Int : a < b /\ b <= fMaxFaces =>
          /\ a + 1 \in 0..fMaxFaces /\ (a + 1 # b => a + 1 < b)
    BY RequestsAssumption
  <2>6. r.searched + 1 \in 0..fMaxFaces
        /\ (r.searched + 1 # r.faces => r.searched + 1 < r.faces)
    BY <2>4, <2>5
  <2>7. first \in F!First
    BY <1>0 DEF WorkerTypes
  <2> HIDE DEF first
  <2>8. /\ t \in WorkerTypes /\ t.pc = r.pc /\ t.pics = r.pics /\ t.i = r.i
        /\ t.people = r.people /\ t.faces = r.faces /\ t.searched = r.searched + 1
        /\ t.err = r.err
    BY <1>0, <2>6, <2>7 DEF WorkerTypes
  <2> HIDE DEF t
  <2>9. /\ u \in WorkerTypes /\ u.pc = "check" /\ u.pics = r.pics /\ u.i = r.i
        /\ u.people = r.people /\ u.faces = r.faces /\ u.searched = r.searched + 1
        /\ u.err = r.err
    BY <2>8 DEF WorkerTypes, F!Steps
  <2> HIDE DEF u
  <2>10. CASE t.searched = t.faces
    <3>1. Looks(t)
      BY <2>3, <2>8 DEF Looks, Covers, Snaps, AllThere
    <3>2. /\ F!PictureDone(t) \in WorkerTypes /\ Walks(F!PictureDone(t))
          /\ F!PictureDone(t).pc \in {"check", "done"} /\ F!PictureDone(t).err = t.err
      BY <2>8, <3>1, PictureDoneWalks
    <3>3. q = F!PictureDone(t)
      BY <2>10
    <3> HIDE DEF q
    <3>4. Login(x, q, fNow, fLast, fLock)
      BY <2>3, <2>8, <3>2, <3>3 DEF Login
    <3> QED
      BY <1>6, <2>1, <2>2, <3>2, <3>3, <3>4 DEF F!SearchFace
  <2>11. CASE t.searched # t.faces
    <3>1. Searches(u)
      BY <2>1, <2>6, <2>8, <2>9, <2>11 DEF Searches
    <3>2. Walks(u)
      BY <1>0, <2>1, <2>9, <3>1, StillWalks
    <3>3. Login(x, u, fNow, fLast, fLock)
      BY <2>3, <2>9 DEF Login
    <3>4. q = u
      BY <2>11
    <3> HIDE DEF q
    <3> QED
      BY <1>6, <2>1, <2>2, <2>9, <3>2, <3>3, <3>4 DEF F!SearchFace
  <2> QED
    BY <2>10, <2>11
<1> QED
  BY <1>1, <1>2, <1>3, <1>4, <1>5, <1>6 DEF F!Worker

\* The worker that logs in holds the lock until its request is on its way.
LEMMA FaceLogsIn ==
  ASSUME FaceInv, NEW x \in fWorkers,
         F!Lock(x) \/ F!LoginFails(x) \/ F!StoreTime(x) \/ F!StoreCookies(x)
  PROVE  FaceInv'
<1> DEFINE r == fW[x]
<1>0. /\ r \in WorkerTypes /\ Walks(r) /\ Login(x, r, fNow, fLast, fLock)
      /\ fNow \in Nat /\ fLast \in Nat /\ fNow >= fExpire /\ fNow <= fLastTick
      /\ fLast <= fNow /\ F!Free \notin fWorkers
  BY RequestsAssumption DEF FaceInv, LoginTypes
<1>1. CASE F!Lock(x)
  <2> DEFINE pc == IF F!HasExpired THEN "post" ELSE "send"
             q == [r EXCEPT !.pc = pc, !.wait = 0]
  <2>1. /\ pc \in {"post", "send"} /\ (pc = "send" => fNow - fLast < fExpire)
        /\ (pc = "post" => fNow - fLast >= fExpire)
    BY <1>0, RequestsAssumption DEF F!HasExpired
  <2>2. fW' = [fW EXCEPT ![x] = q] /\ r.pc = "lock" /\ fLock = F!Free /\ fLock' = x
    BY <1>1 DEF F!Lock, FaceInv
  <2> HIDE DEF pc
  <2>3. 0 \in 0..fDelay
    BY RequestsAssumption
  <2>4. /\ q \in WorkerTypes /\ q.pc = pc /\ q.pics = r.pics /\ q.i = r.i
        /\ q.people = r.people /\ q.faces = r.faces /\ q.searched = r.searched
        /\ q.err = r.err /\ q.cause = r.cause
    BY <1>0, <2>1, <2>3 DEF WorkerTypes, F!Steps
  <2> HIDE DEF q
  <2>5. Walks(q)
    <3>1. Searches(q)
      BY <1>0, <2>2, <2>4 DEF Walks, Searches
    <3> QED
      BY <1>0, <2>1, <2>2, <2>4, <3>1, StillWalks
  <2>6. UNCHANGED <<fNow, fLast, fCookies>>
    BY <1>1 DEF F!Lock
  <2>7. Login(x, q, fNow, fLast', fLock')
    BY <1>0, <2>1, <2>2, <2>4, <2>6 DEF Login
  <2>8. \A y \in fWorkers \ {x} : Login(y, fW[y], fNow, fLast', fLock')
    BY <1>0, <2>2, <2>6 DEF Login, FaceInv
  <2>9. LoginTypes'
    BY <2>2, <2>6 DEF FaceInv, LoginTypes
  <2>10. Session'
    <3>1. \A y \in fWorkers : fW'[y].pc = "cookies" <=> fW[y].pc = "cookies"
      BY <2>1, <2>2, <2>4 DEF FaceInv
    <3>2. F!Storing' = F!Storing
      BY <3>1 DEF F!Storing
    <3> QED
      BY <2>6, <3>2 DEF FaceInv, Session
  <2> QED
    BY <2>2, <2>4, <2>5, <2>6, <2>7, <2>8, <2>9, <2>10, WorkerMoves
<1>2. CASE F!LoginFails(x)
  <2> DEFINE q == F!Failed(r, "fault")
  <2>1. /\ fW' = [fW EXCEPT ![x] = q] /\ r.pc \in {"post", "answer"} /\ fLock' = F!Free
        /\ UNCHANGED <<fNow, fLast, fCookies>>
    BY <1>2 DEF F!LoginFails, FaceInv
  <2>2. fLock = x /\ F!Free # x
    BY <1>0, <2>1 DEF Login
  <2>3. /\ q \in WorkerTypes /\ Walks(q) /\ q.pc = "done"
        /\ Login(x, q, fNow, fLast, F!Free)
    BY <1>0, <2>2, FailedWalks
  <2> HIDE DEF q
  <2>4. \A y \in fWorkers \ {x} : Login(y, fW[y], fNow, fLast', fLock')
    BY <1>0, <2>1, <2>2 DEF Login, FaceInv
  <2>5. LoginTypes'
    BY <2>1 DEF FaceInv, LoginTypes
  <2>6. Session'
    <3>1. \A y \in fWorkers : fW'[y].pc = "cookies" <=> fW[y].pc = "cookies"
      BY <2>1, <2>3 DEF FaceInv
    <3>2. F!Storing' = F!Storing
      BY <3>1 DEF F!Storing
    <3> QED
      BY <2>1, <3>2 DEF FaceInv, Session
  <2> QED
    BY <2>1, <2>3, <2>4, <2>5, <2>6, WorkerMoves
<1>3. CASE F!StoreTime(x)
  <2> DEFINE q == [r EXCEPT !.pc = "cookies"]
  <2>1. /\ fW' = [fW EXCEPT ![x] = q] /\ r.pc = "answer" /\ fLast' = fNow
        /\ UNCHANGED <<fNow, fLock, fCookies>>
    BY <1>3 DEF F!StoreTime, FaceInv
  <2>2. /\ q \in WorkerTypes /\ q.pc = "cookies" /\ q.pics = r.pics /\ q.i = r.i
        /\ q.people = r.people /\ q.faces = r.faces /\ q.searched = r.searched
        /\ q.err = r.err /\ q.cause = r.cause /\ q.cookie = r.cookie
    BY <1>0 DEF WorkerTypes, F!Steps
  <2> HIDE DEF q
  <2>3. Walks(q)
    <3>1. Searches(q)
      BY <1>0, <2>1, <2>2 DEF Walks, Searches
    <3> QED
      BY <1>0, <2>1, <2>2, <3>1, StillWalks
  <2>4. fLock = x
    BY <1>0, <2>1 DEF Login
  <2>5. r.cookie >= 0 /\ r.cookie + fDelay >= fNow
    <3>1. r.cookie >= 0 /\ r.cookie + r.wait >= fNow
      BY <1>0, <2>1 DEF Login
    <3>2. r.cookie \in Int /\ r.wait \in Nat /\ r.wait <= fDelay
      BY <1>0, CookieIsNumber, RequestsAssumption DEF WorkerTypes
    <3>3. \A a \in Int, b \in Nat : a + b >= fNow /\ b <= fDelay => a + fDelay >= fNow
      BY <1>0, RequestsAssumption
    <3> QED
      BY <3>1, <3>2, <3>3
  <2>6. Login(x, q, fNow, fLast', fLock')
    BY <1>0, <2>1, <2>2, <2>4, <2>5 DEF Login
  <2>7. ASSUME NEW y \in fWorkers \ {x} PROVE Login(y, fW[y], fNow, fLast', fLock')
    <3>1. Login(y, fW[y], fNow, fLast, fLock)
      BY DEF FaceInv
    <3>2. fW[y].pc \notin {"post", "answer", "cookies"}
      BY <2>4, <3>1 DEF Login
    <3>3. fNow - fNow < fExpire
      BY <1>0, RequestsAssumption
    <3> QED
      BY <2>1, <3>1, <3>2, <3>3 DEF Login
  <2>8. LoginTypes'
    BY <1>0, <2>1 DEF FaceInv, LoginTypes
  <2>9. Session'
    <3>1. fW'[x].pc = "cookies"
      BY <2>1, <2>2 DEF FaceInv
    <3>2. x \in F!Storing'
      BY <3>1 DEF F!Storing
    <3> QED
      BY <3>2 DEF Session
  <2> QED
    BY <2>1, <2>2, <2>3, <2>6, <2>7, <2>8, <2>9, WorkerMoves
<1>4. CASE F!StoreCookies(x)
  <2> DEFINE q == [r EXCEPT !.pc = "send"]
  <2>1. /\ fW' = [fW EXCEPT ![x] = q] /\ r.pc = "cookies" /\ fCookies' = r.cookie
        /\ UNCHANGED <<fNow, fLast, fLock>>
    BY <1>4 DEF F!StoreCookies, FaceInv
  <2>2. /\ q \in WorkerTypes /\ q.pc = "send" /\ q.pics = r.pics /\ q.i = r.i
        /\ q.people = r.people /\ q.faces = r.faces /\ q.searched = r.searched
        /\ q.err = r.err /\ q.cause = r.cause /\ q.cookie = r.cookie
    BY <1>0 DEF WorkerTypes, F!Steps
  <2> HIDE DEF q
  <2>3. Walks(q)
    <3>1. Searches(q)
      BY <1>0, <2>1, <2>2 DEF Walks, Searches
    <3> QED
      BY <1>0, <2>1, <2>2, <3>1, StillWalks
  <2>4. fLock = x /\ r.cookie >= 0 /\ r.cookie + fDelay >= fNow /\ fLast = fNow
    BY <1>0, <2>1 DEF Login
  <2>5. Login(x, q, fNow, fLast', fLock')
    <3>1. fNow - fNow < fExpire
      BY <1>0, RequestsAssumption
    <3> QED
      BY <1>0, <2>1, <2>2, <2>4, <3>1 DEF Login
  <2>6. \A y \in fWorkers \ {x} : Login(y, fW[y], fNow, fLast', fLock')
    BY <2>1 DEF FaceInv
  <2>7. r.cookie \in 0..fLastTick
    BY <1>0, <2>4 DEF WorkerTypes, F!None, F!Torn
  <2>8. LoginTypes'
    BY <2>1, <2>7 DEF FaceInv, LoginTypes
  <2>9. Session'
    BY <2>1, <2>4 DEF Session
  <2> QED
    BY <2>1, <2>2, <2>3, <2>5, <2>6, <2>8, <2>9, WorkerMoves
<1> QED
  BY <1>1, <1>2, <1>3, <1>4

\* A worker that sends while nobody stores finds a session the service accepts.
LEMMA FaceSends ==
  ASSUME FaceInv, NEW x \in fWorkers, F!Send(x)
  PROVE  FaceInv'
<1> DEFINE r == fW[x]
<1>0. /\ r \in WorkerTypes /\ Walks(r) /\ Login(x, r, fNow, fLast, fLock)
      /\ fNow \in Nat /\ fLast \in Nat /\ fNow >= fExpire /\ fNow <= fLastTick
      /\ fLast <= fNow /\ F!Free \notin fWorkers /\ r.pc = "send"
      /\ UNCHANGED <<fNow, fLast, fCookies>>
  BY RequestsAssumption DEF FaceInv, LoginTypes, F!Send
<1>1. PICK cookie \in F!Readable :
        fW' = [fW EXCEPT ![x].pc = IF F!Accepted(cookie) THEN "call" ELSE "refused",
                         ![x].cookie = F!None,
                         ![x].cause = IF F!Storing = {} THEN @ ELSE "race"]
  BY DEF F!Send
<1> DEFINE pc == IF F!Accepted(cookie) THEN "call" ELSE "refused"
           cause == IF F!Storing = {} THEN r.cause ELSE "race"
           q == [r EXCEPT !.pc = pc, !.cookie = F!None, !.cause = cause]
<1>2. fW' = [fW EXCEPT ![x] = q]
  BY <1>1 DEF FaceInv
<1>3. pc \in {"call", "refused"} /\ cause \in {"none", "fault", "race"}
  BY <1>0 DEF WorkerTypes
<1>4. pc = "refused" => cause # "none"
  <2>1. CASE F!Storing # {}
    BY <2>1
  <2>2. CASE F!Storing = {}
    <3>1. cookie = fCookies
      BY <2>2 DEF F!Readable
    <3>2. fNow - fLast < fExpire
      BY <1>0 DEF Login
    <3>3. fLast > 0
      BY <1>0, <3>2, RequestsAssumption
    <3>4. fCookies >= 0 /\ fCookies + fDelay >= fLast
      BY <2>2, <3>3 DEF FaceInv, Session
    <3>5. fCookies \in Int
      BY RequestsAssumption DEF FaceInv, LoginTypes, F!None
    <3>6. fNow - fCookies < fExpire + fDelay
      BY <1>0, <3>2, <3>4, <3>5, RequestsAssumption
    <3>7. F!Accepted(cookie)
      BY <3>1, <3>4, <3>6 DEF F!Accepted
    <3> QED
      BY <3>7
  <2> QED
    BY <2>1, <2>2
<1> HIDE DEF pc, cause
<1>5. /\ q \in WorkerTypes /\ q.pc = pc /\ q.pics = r.pics /\ q.i = r.i
      /\ q.people = r.people /\ q.faces = r.faces /\ q.searched = r.searched
      /\ q.err = r.err /\ q.cause = cause
  BY <1>0, <1>3 DEF WorkerTypes, F!Steps
<1> HIDE DEF q
<1>6. Walks(q) /\ ~q.err
  <2>1. Searches(q)
    BY <1>0, <1>5 DEF Walks, Searches
  <2>2. ~q.err
    BY <1>0, <1>5 DEF Walks, Looks
  <2> QED
    BY <1>0, <1>3, <1>5, <2>1, <2>2, StillWalks
<1>7. fLock' = IF fLock = x THEN F!Free ELSE fLock
  BY DEF F!Send
<1>8. Login(x, q, fNow, fLast', fLock')
  BY <1>0, <1>3, <1>4, <1>5, <1>6, <1>7 DEF Login
<1>9. \A y \in fWorkers \ {x} : Login(y, fW[y], fNow, fLast', fLock')
  BY <1>0, <1>7 DEF Login, FaceInv
<1>10. LoginTypes'
  BY <1>0, <1>7 DEF FaceInv, LoginTypes
<1>11. Session'
  <2>1. \A y \in fWorkers : fW'[y].pc = "cookies" <=> fW[y].pc = "cookies"
    BY <1>0, <1>2, <1>3, <1>5 DEF FaceInv
  <2>2. F!Storing' = F!Storing
    BY <2>1 DEF F!Storing
  <2> QED
    BY <1>0, <2>2 DEF FaceInv, Session
<1> QED
  BY <1>0, <1>2, <1>5, <1>6, <1>8, <1>9, <1>10, <1>11, WorkerMoves

LEMMA FaceCrashes ==
  ASSUME FaceInv, NEW x \in fWorkers, F!SendCrashes(x)
  PROVE  FaceInv'
<1>1. /\ fLast' = 0 /\ fCookies' = F!None /\ fLock' = F!Free /\ fNow' = fNow
      /\ fW' = [y \in fWorkers |-> F!Idle]
  BY DEF F!SendCrashes
<1>2. LoginTypes' /\ Session'
  BY <1>1, RequestsAssumption DEF FaceInv, LoginTypes, Session
<1>3. fW' \in [fWorkers -> WorkerTypes]
  BY <1>1, IdleWalks
<1>4. \A y \in fWorkers : fW'[y] = F!Idle /\ fLock' # y
  BY <1>1, RequestsAssumption
<1>5. \A y \in fWorkers : Walks(fW'[y]) /\ Login(y, fW'[y], fNow', fLast', fLock')
  BY <1>4, IdleWalks
<1> QED
  BY <1>2, <1>3, <1>5 DEF FaceInv, Walks, Looks, Searches, Login, Covers, Snaps, AllThere

LEMMA FaceInvStep == FaceInv /\ [F!Next]_fVars => FaceInv'
<1> SUFFICES ASSUME FaceInv, [F!Next]_fVars PROVE FaceInv'
  OBVIOUS
<1>1. CASE F!Tick
  BY <1>1, FaceTick
<1>2. ASSUME NEW x \in fWorkers, F!Worker(x) PROVE FaceInv'
  BY <1>2, FaceAlone, FaceLogsIn, FaceSends, FaceCrashes
<1>3. CASE UNCHANGED fVars
  BY <1>3 DEF FaceInv, LoginTypes, Session, F!Storing, Walks, Looks, Searches, Login, Covers,
              Snaps, AllThere, fVars
<1> QED
  BY <1>1, <1>2, <1>3 DEF F!Next

LEMMA FaceInvShows ==
  FaceInv => F!TypeOK /\ F!FacesMatchSnapshots /\ F!FailsOnlyOnFault
<1> SUFFICES ASSUME FaceInv PROVE F!TypeOK /\ F!FacesMatchSnapshots /\ F!FailsOnlyOnFault
  OBVIOUS
<1>1. F!FailsOnlyOnFault
  BY DEF FaceInv, Login, F!FailsOnlyOnFault
<1>2. ASSUME NEW x \in fWorkers, fW[x].pc = "done"
      PROVE  /\ \A k \in DOMAIN F!Faces(fW[x]) :
                  (\A j \in 1..k : fW[x].pics[j]) => F!Faces(fW[x])[k] \in {F!None, k}
             /\ ~fW[x].err => {fW[x].people[k].snap : k \in DOMAIN fW[x].people}
                                = {j \in DOMAIN fW[x].pics : fW[x].pics[j]}
  <2> DEFINE r == fW[x]
  <2>1. r \in WorkerTypes /\ Walks(r) /\ r.pc = "done"
    BY <1>2 DEF FaceInv
  <2>2. DOMAIN r.pics = 1..Len(r.pics) /\ DOMAIN r.people = 1..Len(r.people)
    BY <2>1, PicsAreSeq
  <2> HIDE DEF r
  <2>3. CASE r.err
    <3>1. DOMAIN F!Faces(r) = {}
      BY <2>3 DEF F!Faces
    <3> QED
      BY <2>3, <3>1 DEF r
  <2>4. CASE ~r.err
    <3>1. Covers(r, Len(r.pics))
      BY <2>1, <2>4 DEF Walks
    <3>2. ASSUME NEW k \in DOMAIN F!Faces(r), \A j \in 1..k : r.pics[j]
          PROVE  F!Faces(r)[k] \in {F!None, k}
      <4>1. k \in 1..Len(r.people)
        BY <2>2, <2>4, <3>2 DEF F!Faces
      <4>2. r.people[k].snap = k
        BY <3>1, <3>2, <4>1 DEF Covers, AllThere
      <4> QED
        BY <2>2, <2>4, <4>1, <4>2 DEF F!Faces
    <3>3. Snaps(r) = {j \in DOMAIN r.pics : r.pics[j]}
      BY <2>2, <3>1 DEF Covers
    <3> QED
      BY <3>2, <3>3 DEF Snaps, r
  <2> QED
    BY <2>3, <2>4
<1>3. F!TypeOK
  <2>1. ASSUME NEW x \in fWorkers
        PROVE  /\ fW[x].pc \in F!Steps /\ fW[x].pics \in fEvents \cup {<<>>}
               /\ fW[x].err \in BOOLEAN /\ fW[x].i \in 0..Len(fW[x].pics)
               /\ fW[x].faces \in F!None..fMaxFaces /\ fW[x].searched \in 0..fMaxFaces
               /\ fW[x].first \in F!First /\ Len(fW[x].people) <= Len(fW[x].pics)
               /\ fW[x].cookie \in {F!None, F!Torn} \cup 0..fLastTick
               /\ fW[x].wait \in 0..fDelay /\ fW[x].cause \in {"none", "fault", "race"}
               /\ fLock = x => fW[x].pc \in {"post", "answer", "cookies", "send"}
    <3>1. fW[x] \in WorkerTypes /\ Walks(fW[x]) /\ Login(x, fW[x], fNow, fLast, fLock)
      BY DEF FaceInv
    <3> QED
      BY <3>1 DEF WorkerTypes, Walks, Login
  <2> QED
    BY <2>1 DEF F!TypeOK, FaceInv, LoginTypes
<1>4. F!FacesMatchSnapshots
  BY <1>2 DEF F!FacesMatchSnapshots
<1> QED
  BY <1>1, <1>3, <1>4

\* Whoever stores a login found one that had expired.
LEMMA OnlyExpiredLogins ==
  ASSUME FaceInv, NEW x \in fWorkers, fW[x].pc = "answer"
  PROVE  fNow - fLast >= fExpire
BY DEF FaceInv, Login

-----------------------------------------------------------------------------
(***************************************************************************)
(* The client of the video service. A token that is stored is no older     *)
(* than a login takes, and lastLogin is set in the tick it is stored in:   *)
(* a caller that need not log in, or has just done so, finds a token the   *)
(* service still accepts, whoever has stored it, or none or a torn one.    *)
(***************************************************************************)
CallerTypes ==
  [pc : M!Steps, call : 1..2, token : M!Tokens, wait : 0..mDelay, device : BOOLEAN,
   err : BOOLEAN, cause : {"none", "fault", "garbage", "race"}]

\* A token that is none, or not older than this.
NoOlder(token, age) == token < 0 \/ token + age >= mNow

\* What a caller has or will read is good enough for the call it makes in the same tick.
InTime(r) ==
  /\ r.pc = "answer" => NoOlder(r.token, r.wait)
  /\ r.pc = "store" => NoOlder(r.token, mDelay)
  /\ r.pc = "time" => NoOlder(mToken, mDelay)
  /\ r.pc = "auth" => mLast + mExpire >= mNow

\* What a request is refused for has a cause.
Caused(r) ==
  /\ r.pc = "call" => M!Accepted(r.token) \/ r.cause # "none"
  /\ r.err \/ ~r.device => r.cause # "none"

VmsInv ==
  /\ mNow \in 0..mLastTick /\ mToken \in M!Tokens /\ mLast \in 0..mLastTick
  /\ mC \in [mCallers -> CallerTypes]
  /\ mLast <= mNow
  /\ mToken < 0 \/ mToken + mDelay >= mLast
  /\ \A x \in mCallers : InTime(mC[x]) /\ Caused(mC[x])

LEMMA TokenTypes ==
  /\ M!Tokens \subseteq Int /\ M!None \in M!Tokens /\ M!Torn \in M!Tokens
  /\ M!None = -1 /\ M!Torn = -2
  /\ \A token \in M!Tokens : token < 0 <=> token \in {M!None, M!Torn}
  BY RequestsAssumption DEF M!Tokens, M!None, M!Torn

LEMMA ReadableTokens ==
  ASSUME VmsInv, NEW token \in M!Readable
  PROVE  /\ token \in M!Tokens
         /\ token = mToken \/ token < 0 \/ token + mDelay >= mNow
<1>1. CASE token = mToken
  BY <1>1 DEF VmsInv
<1>2. ASSUME NEW y \in M!Storing, token = mC[y].token
      PROVE  token \in M!Tokens /\ (token < 0 \/ token + mDelay >= mNow)
  BY <1>2 DEF M!Storing, VmsInv, CallerTypes, InTime, NoOlder
<1>3. CASE token = M!Torn
  BY <1>3, TokenTypes
<1> QED
  BY <1>1, <1>2, <1>3 DEF M!Readable

LEMMA BlameCause ==
  ASSUME NEW r \in CallerTypes, NEW token \in M!Tokens
  PROVE  /\ M!Blame(r, token) \in {"none", "fault", "garbage", "race"}
         /\ token < 0 \/ r.cause # "none" => M!Blame(r, token) # "none"
<1>0. /\ r.cause \in {"none", "fault", "garbage", "race"} /\ M!None # M!Torn
      /\ token < 0 <=> token = M!None \/ token = M!Torn
  BY TokenTypes DEF CallerTypes
<1> HIDE DEF M!None, M!Torn
<1>1. CASE r.cause # "none"
  <2>1. M!Blame(r, token) = r.cause
    BY <1>1 DEF M!Blame
  <2> QED
    BY <1>0, <1>1, <2>1
<1>2. CASE r.cause = "none" /\ token = M!None
  <2>1. token = M!None /\ token # M!Torn /\ r.cause = "none"
    BY <1>0, <1>2
  <2>2. M!Blame(r, token) = "garbage"
    BY <2>1, Zenon DEF M!Blame
  <2> QED
    BY <2>2
<1>3. CASE r.cause = "none" /\ token = M!Torn
  <2>1. M!Blame(r, token) = "race"
    BY <1>0, <1>3, Zenon DEF M!Blame
  <2> QED
    BY <2>1
<1>4. CASE r.cause = "none" /\ token # M!None /\ token # M!Torn
  <2>1. M!Blame(r, token) = "none"
    BY <1>4, Zenon DEF M!Blame
  <2> QED
    BY <1>0, <1>4, <2>1
<1> QED
  BY <1>1, <1>2, <1>3, <1>4

LEMMA VmsInvInit == M!Init => VmsInv
<1> SUFFICES ASSUME M!Init PROVE VmsInv
  OBVIOUS
<1>1. 0 \in 0..mLastTick /\ 0 \in 0..mDelay
  BY RequestsAssumption
<1>2. M!Idle \in CallerTypes
  BY <1>1, TokenTypes DEF M!Idle, CallerTypes, M!Steps
<1>3. InTime(M!Idle) /\ Caused(M!Idle)
  BY DEF M!Idle, InTime, Caused
<1> QED
  BY <1>1, <1>2, <1>3, TokenTypes DEF M!Init, VmsInv

\* A step of one caller leaves the others as they are when no token is stored.
LEMMA CallerMoves ==
  ASSUME VmsInv, NEW x \in mCallers, NEW q \in CallerTypes, mC' = [mC EXCEPT ![x] = q],
         UNCHANGED <<mNow, mToken, mLast>>, InTime(q), Caused(q)
  PROVE  VmsInv'
<1>1. /\ mC' \in [mCallers -> CallerTypes] /\ mC'[x] = q
      /\ \A y \in mCallers \ {x} : mC'[y] = mC[y]
  BY DEF VmsInv
<1>2. \A y \in mCallers : InTime(mC'[y]) /\ Caused(mC'[y])
  BY <1>1 DEF VmsInv
<1>3. \A y \in mCallers : InTime(mC[y])' /\ Caused(mC[y])'
  BY <1>2 DEF InTime, NoOlder, Caused, M!Accepted
<1> QED
  BY <1>1, <1>3 DEF VmsInv

LEMMA VmsInvStep == VmsInv /\ [M!Next]_mVars => VmsInv'
<1> SUFFICES ASSUME VmsInv, [M!Next]_mVars PROVE VmsInv'
  OBVIOUS
<1>0. /\ mNow \in 0..mLastTick /\ mToken \in Int /\ mLast \in Int /\ mNow \in Int
      /\ mLast <= mNow /\ mLastTick \in Nat /\ mExpire \in Nat /\ mDelay \in Nat
      /\ \A x \in mCallers : /\ mC[x] \in CallerTypes /\ InTime(mC[x]) /\ Caused(mC[x])
                             /\ mC[x].token \in M!Tokens /\ mC[x].token \in Int
                             /\ mC[x].wait \in 0..mDelay
  <2>1. /\ mExpire \in Nat /\ mDelay \in Nat /\ mLastTick \in Nat
        /\ mNow \in 0..mLastTick /\ mLast \in 0..mLastTick /\ mLast <= mNow
        /\ mToken \in M!Tokens
    BY RequestsAssumption DEF VmsInv
  <2>2. mNow \in Int /\ mLast \in Int /\ mToken \in Int
    BY <2>1, TokenTypes
  <2>3. ASSUME NEW x \in mCallers
        PROVE  /\ mC[x] \in CallerTypes /\ InTime(mC[x]) /\ Caused(mC[x])
               /\ mC[x].token \in M!Tokens /\ mC[x].wait \in 0..mDelay
    BY DEF VmsInv, CallerTypes
  <2>4. \A x \in mCallers : mC[x].token \in Int
    BY <2>3, TokenTypes
  <2> QED
    BY <2>1, <2>2, <2>3, <2>4
<1>1. CASE UNCHANGED mVars
  BY <1>1 DEF mVars, VmsInv, InTime, NoOlder, Caused, M!Accepted
<1>2. ASSUME NEW x \in mCallers, NEW call \in 1..2, M!Asks(x, call) PROVE VmsInv'
  <2> DEFINE q == [M!Idle EXCEPT !.pc = "check", !.call = call]
  <2>1. mC' = [mC EXCEPT ![x] = q] /\ UNCHANGED <<mNow, mToken, mLast>>
    BY <1>2 DEF M!Asks
  <2>2. 0 \in 0..mDelay
    BY RequestsAssumption
  <2>3. M!Idle \in CallerTypes /\ ~M!Idle.err /\ M!Idle.device
    BY <2>2, TokenTypes DEF M!Idle, CallerTypes, M!Steps
  <2>4. q \in CallerTypes /\ q.pc = "check" /\ ~q.err /\ q.device
    BY <2>3 DEF CallerTypes, M!Steps
  <2> HIDE DEF q
  <2>5. InTime(q) /\ Caused(q)
    BY <2>4 DEF InTime, Caused
  <2> QED
    BY <2>1, <2>4, <2>5, CallerMoves
<1>3. ASSUME NEW x \in mCallers, M!Check(x) PROVE VmsInv'
  <2>1. PICK token \in M!Readable :
          mC' = [mC EXCEPT ![x].pc = IF M!MustLogin(token) THEN "post" ELSE "auth", ![x].wait = 0]
    BY <1>3 DEF M!Check
  <2> DEFINE pc == IF M!MustLogin(token) THEN "post" ELSE "auth"
             q == [mC[x] EXCEPT !.pc = pc, !.wait = 0]
  <2>2. mC' = [mC EXCEPT ![x] = q] /\ UNCHANGED <<mNow, mToken, mLast>> /\ mC[x].pc = "check"
    BY <1>3, <2>1 DEF M!Check
  <2>3. pc \in {"post", "auth"} /\ (pc = "auth" => mLast + mExpire >= mNow)
    BY <1>0 DEF M!MustLogin
  <2> HIDE DEF pc
  <2>4. 0 \in 0..mDelay
    BY RequestsAssumption
  <2>5. /\ q \in CallerTypes /\ q.pc = pc /\ q.err = mC[x].err /\ q.device = mC[x].device
        /\ q.cause = mC[x].cause
    BY <1>0, <2>3, <2>4 DEF CallerTypes, M!Steps
  <2> HIDE DEF q
  <2>6. InTime(q) /\ Caused(q)
    BY <1>0, <2>3, <2>5 DEF InTime, Caused
  <2> QED
    BY <2>2, <2>5, <2>6, CallerMoves
<1>4. ASSUME NEW x \in mCallers, M!Issues(x) PROVE VmsInv'
  <2>1. PICK token \in {mNow, M!None} : mC' = [mC EXCEPT ![x].pc = "answer", ![x].token = token]
    BY <1>4 DEF M!Issues
  <2> DEFINE q == [mC[x] EXCEPT !.pc = "answer", !.token = token]
  <2>2. mC' = [mC EXCEPT ![x] = q] /\ UNCHANGED <<mNow, mToken, mLast>>
    BY <1>4, <2>1 DEF M!Issues
  <2>3. token \in M!Tokens /\ (token < 0 \/ token = mNow)
    BY <1>0, TokenTypes DEF M!Tokens
  <2>4. /\ q \in CallerTypes /\ q.pc = "answer" /\ q.token = token /\ q.wait = mC[x].wait
        /\ q.err = mC[x].err /\ q.device = mC[x].device /\ q.cause = mC[x].cause
    BY <1>0, <2>3 DEF CallerTypes, M!Steps
  <2> HIDE DEF q
  <2>5. InTime(q) /\ Caused(q)
    BY <1>0, <2>3, <2>4 DEF InTime, NoOlder, Caused
  <2> QED
    BY <2>2, <2>4, <2>5, CallerMoves
<1>5. ASSUME NEW x \in mCallers, M!LoginFails(x) \/ M!CallFails(x) PROVE VmsInv'
  <2> DEFINE q == [mC[x] EXCEPT !.pc = "done", !.err = TRUE, !.cause = "fault"]
  <2>1. mC' = [mC EXCEPT ![x] = q] /\ UNCHANGED <<mNow, mToken, mLast>>
    BY <1>5 DEF M!LoginFails, M!CallFails
  <2>2. q \in CallerTypes /\ q.pc = "done" /\ q.cause = "fault"
    BY <1>0 DEF CallerTypes, M!Steps
  <2> HIDE DEF q
  <2>3. InTime(q) /\ Caused(q)
    BY <2>2 DEF InTime, Caused
  <2> QED
    BY <2>1, <2>2, <2>3, CallerMoves
<1>6. ASSUME NEW x \in mCallers, M!StoreStarts(x) PROVE VmsInv'
  <2> DEFINE q == [mC[x] EXCEPT !.pc = "store"]
  <2>1. mC' = [mC EXCEPT ![x] = q] /\ UNCHANGED <<mNow, mToken, mLast>> /\ mC[x].pc = "answer"
    BY <1>6 DEF M!StoreStarts
  <2>2. /\ q \in CallerTypes /\ q.pc = "store" /\ q.token = mC[x].token
        /\ q.err = mC[x].err /\ q.device = mC[x].device /\ q.cause = mC[x].cause
    BY <1>0 DEF CallerTypes, M!Steps
  <2> HIDE DEF q
  <2>3. NoOlder(mC[x].token, mDelay)
    BY <1>0, <2>1 DEF InTime, NoOlder
  <2>4. InTime(q) /\ Caused(q)
    BY <1>0, <2>2, <2>3 DEF InTime, Caused
  <2> QED
    BY <2>1, <2>2, <2>4, CallerMoves
<1>7. ASSUME NEW x \in mCallers, M!StoreEnds(x) PROVE VmsInv'
  <2> DEFINE q == [mC[x] EXCEPT !.pc = "time"]
  <2>1. /\ mC' = [mC EXCEPT ![x] = q] /\ UNCHANGED <<mNow, mLast>> /\ mC[x].pc = "store"
        /\ mToken' = mC[x].token \/ mToken' = M!Torn
    BY <1>7 DEF M!StoreEnds
  <2>2. /\ q \in CallerTypes /\ q.pc = "time"
        /\ q.err = mC[x].err /\ q.device = mC[x].device /\ q.cause = mC[x].cause
    BY <1>0 DEF CallerTypes, M!Steps
  <2> HIDE DEF q
  <2>3. mToken' \in M!Tokens /\ mToken' \in Int /\ (mToken' < 0 \/ mToken' + mDelay >= mNow)
    BY <1>0, <2>1, TokenTypes DEF InTime, NoOlder
  <2>4. /\ mC' \in [mCallers -> CallerTypes] /\ mC'[x] = q
        /\ \A y \in mCallers \ {x} : mC'[y] = mC[y]
    BY <2>1, <2>2 DEF VmsInv
  <2>5. ASSUME NEW y \in mCallers PROVE InTime(mC[y])' /\ Caused(mC[y])'
    BY <1>0, <2>1, <2>2, <2>3, <2>4 DEF InTime, NoOlder, Caused, M!Accepted
  <2>6. mToken' < 0 \/ mToken' + mDelay >= mLast'
    <3>1. mLast' = mLast
      BY <2>1
    <3>2. \A t, l, n \in Int : t + mDelay >= n /\ l <= n => t + mDelay >= l
      BY <1>0
    <3> QED
      BY <1>0, <2>3, <3>1, <3>2
  <2> QED
    BY <2>1, <2>3, <2>4, <2>5, <2>6 DEF VmsInv
<1>8. ASSUME NEW x \in mCallers, M!StoreTime(x) PROVE VmsInv'
  <2> DEFINE q == [mC[x] EXCEPT !.pc = "auth"]
  <2>1. /\ mC' = [mC EXCEPT ![x] = q] /\ UNCHANGED <<mNow, mToken>> /\ mC[x].pc = "time"
        /\ mLast' = mNow
    BY <1>8 DEF M!StoreTime
  <2>2. /\ q \in CallerTypes /\ q.pc = "auth"
        /\ q.err = mC[x].err /\ q.device = mC[x].device /\ q.cause = mC[x].cause
    BY <1>0 DEF CallerTypes, M!Steps
  <2> HIDE DEF q
  <2>3. /\ mC' \in [mCallers -> CallerTypes] /\ mC'[x] = q
        /\ \A y \in mCallers \ {x} : mC'[y] = mC[y]
    BY <2>1, <2>2 DEF VmsInv
  <2>4. ASSUME NEW y \in mCallers PROVE InTime(mC[y])' /\ Caused(mC[y])'
    BY <1>0, <2>1, <2>2, <2>3 DEF InTime, NoOlder, Caused, M!Accepted
  <2>5. mToken' < 0 \/ mToken' + mDelay >= mLast'
    BY <1>0, <2>1 DEF InTime, NoOlder
  <2>6. mLast' \in 0..mLastTick /\ mLast' <= mNow'
    BY <1>0, <2>1
  <2> QED
    BY <2>1, <2>3, <2>4, <2>5, <2>6 DEF VmsInv
\* The token it reads was stored in time for the login it relies on.
<1>9. ASSUME NEW x \in mCallers, M!Auth(x) PROVE VmsInv'
  <2>1. PICK token \in M!Readable :
          mC' = [mC EXCEPT ![x].pc = "call", ![x].token = token,
                           ![x].cause = M!Blame(mC[x], token)]
    BY <1>9 DEF M!Auth
  <2> DEFINE cause == M!Blame(mC[x], token)
             q == [mC[x] EXCEPT !.pc = "call", !.token = token, !.cause = cause]
  <2>2. mC' = [mC EXCEPT ![x] = q] /\ UNCHANGED <<mNow, mToken, mLast>> /\ mC[x].pc = "auth"
    BY <1>9, <2>1 DEF M!Auth
  <2>3. /\ token \in M!Tokens /\ token \in Int
        /\ token = mToken \/ token < 0 \/ token + mDelay >= mNow
    BY ReadableTokens, TokenTypes
  <2>4. /\ cause \in {"none", "fault", "garbage", "race"}
        /\ token < 0 \/ mC[x].cause # "none" => cause # "none"
    BY <1>0, <2>3, BlameCause
  <2> HIDE DEF cause
  <2>5. /\ q \in CallerTypes /\ q.pc = "call" /\ q.token = token /\ q.cause = cause
        /\ q.err = mC[x].err /\ q.device = mC[x].device
    BY <1>0, <2>3, <2>4 DEF CallerTypes, M!Steps
  <2> HIDE DEF q
  <2>6. token >= 0 => M!Accepted(token)
    <3>1. mLast + mExpire >= mNow
      BY <1>0, <2>2 DEF InTime
    <3>2. mToken < 0 \/ mToken + mDelay >= mLast
      BY DEF VmsInv
    <3> QED
      BY <1>0, <2>3, <3>1, <3>2 DEF M!Accepted
  <2>7. InTime(q) /\ Caused(q)
    BY <1>0, <2>3, <2>4, <2>5, <2>6 DEF InTime, Caused
  <2> QED
    BY <2>2, <2>5, <2>7, CallerMoves
<1>10. ASSUME NEW x \in mCallers, M!FirstCall(x) PROVE VmsInv'
  <2> DEFINE device == M!Accepted(mC[x].token)
             q == [mC[x] EXCEPT !.pc = "check", !.call = 2, !.device = device]
  <2>1. mC' = [mC EXCEPT ![x] = q] /\ UNCHANGED <<mNow, mToken, mLast>> /\ mC[x].pc = "call"
    BY <1>10 DEF M!FirstCall
  <2>2. device \in BOOLEAN /\ (device \/ mC[x].cause # "none") /\ 2 \in 1..2
    BY <1>0, <2>1 DEF Caused, M!Accepted
  <2> HIDE DEF device
  <2>3. /\ q \in CallerTypes /\ q.pc = "check" /\ q.device = device
        /\ q.err = mC[x].err /\ q.cause = mC[x].cause
    BY <1>0, <2>2 DEF CallerTypes, M!Steps
  <2> HIDE DEF q
  <2>4. InTime(q) /\ Caused(q)
    BY <1>0, <2>2, <2>3 DEF InTime, Caused
  <2> QED
    BY <2>1, <2>3, <2>4, CallerMoves
<1>11. ASSUME NEW x \in mCallers, M!SecondCall(x) PROVE VmsInv'
  <2> DEFINE err == ~M!Accepted(mC[x].token)
             q == [mC[x] EXCEPT !.pc = "done", !.err = err]
  <2>1. mC' = [mC EXCEPT ![x] = q] /\ UNCHANGED <<mNow, mToken, mLast>> /\ mC[x].pc = "call"
    BY <1>11 DEF M!SecondCall
  <2>2. err \in BOOLEAN /\ (err => mC[x].cause # "none")
    BY <1>0, <2>1 DEF Caused, M!Accepted
  <2> HIDE DEF err
  <2>3. /\ q \in CallerTypes /\ q.pc = "done" /\ q.err = err
        /\ q.device = mC[x].device /\ q.cause = mC[x].cause
    BY <1>0, <2>2 DEF CallerTypes, M!Steps
  <2> HIDE DEF q
  <2>4. InTime(q) /\ Caused(q)
    BY <1>0, <2>2, <2>3 DEF InTime, Caused
  <2> QED
    BY <2>1, <2>3, <2>4, CallerMoves
<1>12. CASE M!Tick
  <2>1. /\ mNow < mLastTick /\ mNow' = mNow + 1 /\ UNCHANGED <<mToken, mLast>>
        /\ mC' = [x \in mCallers |-> IF mC[x].pc \in {"post", "answer"}
                                     THEN [mC[x] EXCEPT !.wait = @ + 1] ELSE mC[x]]
    BY <1>12 DEF M!Tick
  <2>2. ASSUME NEW x \in mCallers
        PROVE  mC'[x] \in CallerTypes /\ InTime(mC[x])' /\ Caused(mC[x])'
    <3>1. /\ mC[x].pc \in {"idle", "post", "answer", "done"}
          /\ mC[x].pc \in {"post", "answer"} => mC[x].wait < mDelay
      BY <1>12 DEF M!Tick
    <3>2. CASE mC[x].pc \in {"post", "answer"}
      <4> DEFINE q == [mC[x] EXCEPT !.wait = mC[x].wait + 1]
      <4>1. mC'[x] = q
        BY <2>1, <3>2
      <4>2. mC[x].wait + 1 \in 0..mDelay
        BY <1>0, <3>1, <3>2
      <4>3. /\ q \in CallerTypes /\ q.pc = mC[x].pc /\ q.wait = mC[x].wait + 1
            /\ q.token = mC[x].token
            /\ q.err = mC[x].err /\ q.device = mC[x].device /\ q.cause = mC[x].cause
        BY <1>0, <4>2 DEF CallerTypes
      <4> HIDE DEF q
      <4>4. mC[x].pc = "answer" => mC[x].token < 0 \/ mC[x].token + (mC[x].wait + 1) >= mNow + 1
        BY <1>0 DEF InTime, NoOlder
      <4> QED
        BY <1>0, <2>1, <3>2, <4>1, <4>3, <4>4 DEF InTime, NoOlder, Caused
    <3>3. CASE mC[x].pc \notin {"post", "answer"}
      <4>1. mC'[x] = mC[x]
        BY <2>1, <3>3
      <4> QED
        BY <1>0, <3>1, <3>3, <4>1 DEF InTime, Caused
    <3> QED
      BY <3>2, <3>3
  <2>3. mNow' \in 0..mLastTick /\ mLast' <= mNow'
    BY <1>0, <2>1
  <2>4. mC' \in [mCallers -> CallerTypes]
    BY <2>1, <2>2
  <2> QED
    BY <2>1, <2>2, <2>3, <2>4 DEF VmsInv
<1> QED
  BY <1>1, <1>2, <1>3, <1>4, <1>5, <1>6, <1>7, <1>8, <1>9, <1>10, <1>11, <1>12
     DEF M!Next, M!Caller

LEMMA VmsInvShows == VmsInv => M!TypeOK /\ M!RefusedOnlyOnFault
  BY DEF VmsInv, CallerTypes, Caused, M!TypeOK, M!RefusedOnlyOnFault

-----------------------------------------------------------------------------
(***************************************************************************)
(* The requests and the clients side by side: a step is one of a part, and *)
(* leaves the others as they are.                                          *)
(***************************************************************************)
RequestsInv ==
  MarksInv /\ ExportInv /\ PagesInv /\ StatisticsInv /\ FaceInv /\ VmsInv

LEMMA StepOfOne ==
  [MCNext]_MCVars => /\ [Q!Next]_qVars /\ [X!Next]_xVars /\ [P!Next]_pVars
                     /\ [S!Next]_sVars /\ [F!Next]_fVars /\ [M!Next]_mVars
<1>1. MCVars' = MCVars => UNCHANGED <<qVars, xVars, pVars, sVars, fVars, mVars>>
  BY DEF MCVars
<1> QED
  BY <1>1 DEF MCNext

LEMMA RequestsInvInit == MCInit => RequestsInv
BY MarksInvInit, ExportInvInit, PagesInvInit, StatisticsInvInit, FaceInvInit, VmsInvInit
   DEF MCInit, RequestsInv

LEMMA RequestsInvStep == RequestsInv /\ [MCNext]_MCVars => RequestsInv'
BY StepOfOne, MarksInvStep, ExportInvStep, PagesInvStep, StatisticsInvStep, FaceInvStep,
   VmsInvStep DEF RequestsInv

LEMMA RequestsInvShows ==
  RequestsInv => /\ MCTypeOK /\ MarksAreAnswered /\ ExportIsOwn /\ NothingLeftBehind
                 /\ PagesMissOnlyWhatMoved /\ HoursAndDaysAgree /\ FacesMatchSnapshots
                 /\ FailsOnlyOnFault
BY MarksInvShows, ExportInvShows, PagesInvShows, StatisticsInvShows, HoursMatchDays,
   FaceInvShows, VmsInvShows
   DEF RequestsInv, MCTypeOK, MarksAreAnswered, ExportIsOwn, NothingLeftBehind,
       PagesMissOnlyWhatMoved, HoursAndDaysAgree, FacesMatchSnapshots, FailsOnlyOnFault

\* Every part keeps its type, for any instance of it.
THEOREM RequestsTypeCorrect == MCSpec => []MCTypeOK
BY RequestsInvInit, RequestsInvStep, RequestsInvShows, PTL DEF MCSpec

\* What the answers to any number of requests for marks and deletions say is so, in
\* whatever order their steps are taken (event.go:144, 634).
THEOREM MarksProven == MCSpec => []MarksAreAnswered
BY RequestsInvInit, RequestsInvStep, RequestsInvShows, PTL DEF MCSpec

\* An export of a second of its own has its events, each with all its evidence, and no
\* others, for any number of exports and events (export event.go:37, 152).
THEOREM ExportsProven == MCSpec => []ExportIsOwn
BY RequestsInvInit, RequestsInvStep, RequestsInvShows, PTL DEF MCSpec

\* Exports that are over have left nothing on the disk (event.go:571).
THEOREM NothingLeftProven == MCSpec => []NothingLeftBehind
BY RequestsInvInit, RequestsInvStep, RequestsInvShows, PTL DEF MCSpec

\* The pages together miss no more than has moved while they were read, for any number of
\* events and writes, and pages of any size (dao event.go:86, service event.go:78).
THEOREM PagesProven == MCSpec => []PagesMissOnlyWhatMoved
BY RequestsInvInit, RequestsInvStep, RequestsInvShows, PTL DEF MCSpec

\* Whatever time events are sent with and however late they are stored, the hours of a day
\* add up to what the list of any days has for it and what was stored after that list, for
\* any number of events, days and hours (event.go:187, 248-253, dao event.go:46-49, 123).
THEOREM StatisticsProven == MCSpec => []HoursAndDaysAgree
BY RequestsInvInit, RequestsInvStep, RequestsInvShows, PTL DEF MCSpec

\* The persons of an event belong to its pictures, for any number of workers, pictures and
\* faces (face_search.go:44, util/dashboard.go:55-111).
THEOREM FacesProven == MCSpec => []FacesMatchSnapshots
BY RequestsInvInit, RequestsInvStep, RequestsInvShows, PTL DEF MCSpec

\* Only a fault, or a login read while it was stored, makes a request to the face or the
\* video service fail, however many clients of it share the login (yitu.go:48-84,
\* vms.go:46-87).
THEOREM FaultsProven == MCSpec => []FailsOnlyOnFault
BY RequestsInvInit, RequestsInvStep, RequestsInvShows, PTL DEF MCSpec

\* The face service gets one login for each expiry of its session (yitu.go:50-76).
THEOREM LoginsProven == MCSpec => OneLoginPerExpiry
<1> DEFINE Expired == \A x \in fWorkers :
                        fW[x].pc = "answer" /\ fW'[x].pc = "cookies" => fNow - fLast >= fExpire
<1>1. RequestsInv /\ [MCNext]_MCVars => [Expired]_fVars
  BY OnlyExpiredLogins DEF RequestsInv
<1> QED
  BY <1>1, RequestsInvInit, RequestsInvStep, PTL DEF MCSpec, OneLoginPerExpiry, F!OneLoginPerExpiry,
     F!vars, fVars

\* Days that are over gain no event, type or camera whatever is stored later, and no class
\* but by a correction (event.go:122, 144, dao event.go:123, 149, 199, 242).
THEOREM PastDaysProven == MCSpec => PastDaysOnlyShrink
<1> DEFINE Shrinks ==
             \A q \in sRequests, to \in S!Days : \A from \in 0..to : S!Midnight(to + 1) < sNow =>
               /\ S!NotMore(S!Daily(q, from, to)', S!Daily(q, from, to))
               /\ S!NotMore(S!ByType(q, from, to)', S!ByType(q, from, to))
               /\ S!RowsWithin(S!ByCamera(q, from, to, sCameras)',
                               S!ByCamera(q, from, to, sCameras))
               /\ \/ S!NotMore(S!ByClass(q, from, to)', S!ByClass(q, from, to))
                  \/ \E e \in sEvents, class \in sClasses : S!PutEvents(e, class)
<1>1. RequestsInv /\ [MCNext]_MCVars => [Shrinks]_sVars
  BY StepOfOne, PastOnlyShrinks DEF RequestsInv
<1> QED
  BY <1>1, RequestsInvInit, RequestsInvStep, PTL
     DEF MCSpec, PastDaysOnlyShrink, S!PastDaysOnlyShrink, S!vars, sVars
=============================================================================
