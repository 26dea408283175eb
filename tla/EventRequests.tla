---------------------------- MODULE EventRequests ----------------------------
(***************************************************************************)
(* Requests of the dashboard that mark or delete several events.           *)
(*                                                                         *)
(*   biz/dashboard/service/event.go   DeleteEvents, PostMarkIllegal,       *)
(*                                    PostMarkDiscard, updateMarking       *)
(*   biz/dashboard/dao/db/event.go    GetByID, UpdateMarking, Delete       *)
(*                                                                         *)
(* A request goes through its ids one by one: it reads an event, compares  *)
(* its mark and writes it in a second operation of the database. Other     *)
(* requests come between. An operation may fail, and one that writes may   *)
(* fail after it was applied.                                              *)
(***************************************************************************)
EXTENDS Naturals, SequencesExt

CONSTANTS
  Events,    \* ids of stored events
  Requests,
  IdLists    \* the ids of a request, some of them of no event

VARIABLES
  marking,  \* the mark of each event, or "gone"
  req       \* what each request does, where it is, and the ids it has answered so far

vars == <<marking, req>>

Kinds == {"illegal", "discard", "delete"}
GivenIds == UNION {ToSet(ids) : ids \in IdLists}

NoRequest ==
  [kind |-> "none", at |-> "idle", ids |-> <<>>, success |-> <<>>, fail |-> <<>>]

TypeOK ==
  /\ marking \in [Events -> {"init", "illegal", "discard", "gone"}]
  /\ \A r \in Requests :
       /\ req[r].at \in {"idle", "get", "update", "delete", "ok", "error"}
       /\ req[r].kind \in Kinds \cup {"none"} /\ req[r].ids \in IdLists \cup {<<>>}
       /\ req[r].success \in Seq(GivenIds) /\ req[r].fail \in Seq(GivenIds)

Init ==
  /\ marking = [e \in Events |-> "init"]
  /\ req = [r \in Requests |-> NoRequest]

\* The position of the id a request works on.
Index(q) == Len(q.success) + Len(q.fail) + 1
Id(q) == q.ids[Index(q)]

\* The request after its id succeeded or failed: it goes on with the next one, and with
\* none left it answers. Only DeleteEvents keeps the error of its last id: the err of
\* updateMarking is another variable inside the loop (event.go:145, 635).
Proceed(q, ok) ==
  LET done == [q EXCEPT !.success = IF ok THEN Append(@, Id(q)) ELSE @,
                        !.fail = IF ok THEN @ ELSE Append(@, Id(q))]
  IN [done EXCEPT !.at = IF Index(q) < Len(q.ids)
                         THEN IF q.kind = "delete" THEN "delete" ELSE "get"
                       ELSE IF q.kind = "delete" /\ ~ok THEN "error" ELSE "ok"]

Answered(r, ok) == req' = [req EXCEPT ![r] = Proceed(@, ok)]

-----------------------------------------------------------------------------
\* DeleteEvents or updateMarking; without ids the answer is an error.
Post(r, kind, ids) ==
  /\ req[r].at = "idle"
  /\ req' = [req EXCEPT ![r] =
       [NoRequest EXCEPT !.kind = kind, !.ids = ids,
                         !.at = IF ids = <<>> THEN "error"
                                ELSE IF kind = "delete" THEN "delete" ELSE "get"]]
  /\ UNCHANGED marking

Stored(id) == id \in Events /\ marking[id] # "gone"

\* GetByID fails, or the event has the mark already.
GetRefuses(r) ==
  /\ req[r].at = "get"
  /\ Answered(r, FALSE)
  /\ UNCHANGED marking

GetYields(r) ==
  /\ req[r].at = "get" /\ Stored(Id(req[r])) /\ marking[Id(req[r])] # req[r].kind
  /\ req' = [req EXCEPT ![r].at = "update"]
  /\ UNCHANGED marking

\* UpdateMarking: the mark is written whatever it is now, and not if the event is gone.
Update(r) ==
  /\ req[r].at = "update" /\ Stored(Id(req[r]))
  /\ marking' = [marking EXCEPT ![Id(req[r])] = req[r].kind]
  /\ \E ok \in BOOLEAN : Answered(r, ok)

\* Mutant: an error of UpdateMarking is logged and the id is a success all the same.
UpdateFailsUnseen(r) ==
  /\ req[r].at = "update"
  /\ Answered(r, TRUE)
  /\ UNCHANGED marking

UpdateFails(r) ==
  /\ req[r].at = "update"
  /\ Answered(r, FALSE)
  /\ UNCHANGED marking

Delete(r) ==
  /\ req[r].at = "delete" /\ Stored(Id(req[r]))
  /\ marking' = [marking EXCEPT ![Id(req[r])] = "gone"]
  /\ \E ok \in BOOLEAN : Answered(r, ok)

DeleteFails(r) ==
  /\ req[r].at = "delete"
  /\ Answered(r, FALSE)
  /\ UNCHANGED marking

Next ==
  \E r \in Requests :
    \/ \E kind \in Kinds, ids \in IdLists : Post(r, kind, ids)
    \/ GetRefuses(r) \/ GetYields(r) \/ Update(r) \/ UpdateFails(r)
    \/ Delete(r) \/ DeleteFails(r)

Spec == Init /\ [][Next]_vars

-----------------------------------------------------------------------------
Left(kind) == IF kind = "delete" THEN "gone" ELSE kind
Told(r, id) == id \in ToSet(req[r].success)
MayHaveDone(r, id) == Told(r, id) \/ id \in ToSet(req[r].fail)

\* However requests interleave, an event reported as a success is as some request that
\* was sent for it left it, and a deleted event stays deleted; and an answer that is ok
\* tells of every id, in one of its two lists (event.go:144-156, 634-661).
MarksAreAnswered ==
  /\ \A r \in Requests, e \in Events : Told(r, e) =>
       /\ req[r].kind = "delete" => marking[e] = "gone"
       /\ \E s \in Requests : Left(req[s].kind) = marking[e] /\ MayHaveDone(s, e)
  /\ \A r \in Requests : req[r].at = "ok" => Index(req[r]) = Len(req[r].ids) + 1
=============================================================================
