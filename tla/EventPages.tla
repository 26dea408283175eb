----------------------------- MODULE EventPages -----------------------------
(***************************************************************************)
(* The list of events, read page by page while it changes.                 *)
(*                                                                         *)
(*   biz/dashboard/service/event.go   GetEvents, getEventsCommonQuery,     *)
(*                                    PutEvents_                           *)
(*   biz/dashboard/dao/db/event.go    GetList and the writes               *)
(*   biz/analyzer/dao/event.go        Insert                               *)
(*                                                                         *)
(* A page is counted and then found, in two operations of the database.    *)
(* The client asks for one page after the other until it has had as many   *)
(* as the last answer says there are.                                      *)
(***************************************************************************)
EXTENDS Integers, FiniteSets, SequencesExt, FiniteSetsExt

CONSTANTS
  Events,
  Dates,          \* the clocks of several processes date the events: any order
  Queries,        \* what the client asks for
  PageSizes,      \* as the client gives them
  DefaultPerPage,
  MaxWrites       \* bound: writes while the client goes through the pages

VARIABLES
  stored,   \* what the collection holds of each event
  pager,    \* the client and its present request
  steady,   \* ghost: events that matched all the time, with a date no other one has
  left,     \* ghost: how often an event stopped to match since the first page was found
  joined,   \* ghost: how often one began to, between the last count and its page
  writes    \* since the client began

vars == <<stored, pager, steady, left, joined, writes>>

Labels == {"", "plate"}
Docs == [createdAt : Dates, marking : {"init", "illegal", "discard"}, label : Labels,
         face : BOOLEAN]
Gone == [createdAt |-> 0, marking |-> "gone", label |-> "", face |-> FALSE]

NoPager == [at |-> "idle", query |-> CHOOSE q \in Queries : TRUE, perPage |-> DefaultPerPage,
            page |-> 1, total |-> 0, seen |-> {}]

TypeOK ==
  /\ stored \in [Events -> Docs \cup {Gone}]
  /\ pager.at \in {"idle", "count", "find", "done", "error"} /\ pager.query \in Queries
  /\ pager.perPage \in PageSizes \cup {DefaultPerPage} /\ pager.perPage > 0
  /\ pager.page \in 1..(Cardinality(Events) + 1) /\ pager.total \in 0..Cardinality(Events)
  /\ pager.seen \subseteq Events /\ steady \subseteq Events
  /\ left \in 0..MaxWrites /\ joined \in 0..MaxWrites /\ writes \in 0..MaxWrites

-----------------------------------------------------------------------------
\* Of hasLabel and hasFace 1 wants one and 2 wants none; a label is only looked for when
\* none is not wanted. An empty or zero field asks for nothing.
Wants(has, there) == (has = 1 => there) /\ (has = 2 => ~there)

Matches(doc, q) ==
  /\ doc # Gone
  /\ q.start # 0 => q.start <= doc.createdAt
  /\ q.end # 0 => doc.createdAt <= q.end
  /\ q.marking # "" => doc.marking = q.marking
  /\ Wants(q.hasLabel, doc.label # "")
  /\ q.hasLabel # 2 /\ q.label # "" => doc.label = q.label
  /\ Wants(q.hasFace, doc.face)

Found(docs) == {e \in Events : Matches(docs[e], pager.query)}

OwnDate(docs, e) == \A f \in Found(docs) \ {e} : docs[f].createdAt # docs[e].createdAt

Init ==
  /\ stored \in [Events -> {Gone} \cup {d \in Docs : d.marking = "init" /\ ~d.face}]
  /\ pager = NoPager /\ steady = {} /\ left = 0 /\ joined = 0 /\ writes = 0

-----------------------------------------------------------------------------
(***************************************************************************)
(* The writers.                                                            *)
(***************************************************************************)
Write(docs) ==
  /\ pager.at \in {"count", "find"} /\ writes < MaxWrites
  /\ stored' = docs /\ writes' = writes + 1
  /\ steady' = {e \in steady \cap Found(docs) : OwnDate(docs, e)}
  /\ left' = left + (IF pager.page = 1 THEN 0 ELSE Cardinality(Found(stored) \ Found(docs)))
  /\ joined' = joined + (IF pager.at = "find" THEN Cardinality(Found(docs) \ Found(stored)) ELSE 0)
  /\ UNCHANGED pager

\* An analyzer or the dashboard inserts a new event, dated by its own clock.
Insert(e, date, label) ==
  /\ stored[e] = Gone
  /\ Write([stored EXCEPT ![e] = [createdAt |-> date, marking |-> "init", label |-> label,
                                  face |-> FALSE]])

UpdateMarking(e, marking) ==
  /\ stored[e] # Gone
  /\ Write([stored EXCEPT ![e].marking = marking])

\* The label of the first snapshot is edited; an empty one edits nothing.
PutEvents(e, label) ==
  /\ stored[e] # Gone /\ label # ""
  /\ Write([stored EXCEPT ![e].label = label])

\* A deeper worker has finished the event and found somebody.
FaceIsFound(e) ==
  /\ stored[e] # Gone
  /\ Write([stored EXCEPT ![e].face = TRUE])

Delete(e) ==
  /\ stored[e] # Gone
  /\ Write([stored EXCEPT ![e] = Gone])

-----------------------------------------------------------------------------
(***************************************************************************)
(* The pages.                                                              *)
(***************************************************************************)
PerPage(size) == IF size <= 0 THEN DefaultPerPage ELSE size

\* Mutant: the last page is not counted when it is not full.
TotalPageOfFull(total, perPage) == total \div perPage

TotalPage(total, perPage) == (total + perPage - 1) \div perPage

Skip(page, perPage) == (page - 1) * perPage

Ask(q, size) ==
  /\ pager.at = "idle"
  /\ pager' = [NoPager EXCEPT !.at = "count", !.query = q, !.perPage = PerPage(size)]
  /\ UNCHANGED <<stored, steady, left, joined, writes>>

\* The first request of its kind makes the list that the client wants to see in full.
Count ==
  /\ pager.at = "count"
  /\ pager' = [pager EXCEPT !.at = "find", !.total = Cardinality(Found(stored))]
  /\ steady' = IF pager.page = 1
               THEN {e \in Found(stored) : OwnDate(stored, e)} ELSE steady
  /\ joined' = 0
  /\ UNCHANGED <<stored, left, writes>>

\* The newest first, and events of one date in any order.
Orders ==
  {s \in SetToSeqs(Found(stored)) :
     \A i, j \in 1..Len(s) : i < j => stored[s[i]].createdAt >= stored[s[j]].createdAt}

PageOf(order) ==
  LET from == Skip(pager.page, pager.perPage)
  IN {order[i] : i \in {j \in DOMAIN order : from < j /\ j <= from + pager.perPage}}

HasMore == pager.page < TotalPage(pager.total, pager.perPage)

\* The client asks for the next page, or has the list.
Find(order) ==
  /\ pager.at = "find"
  /\ pager' = IF HasMore
              THEN [pager EXCEPT !.at = "count", !.page = @ + 1,
                                 !.seen = @ \cup PageOf(order)]
              ELSE [pager EXCEPT !.at = "done", !.seen = @ \cup PageOf(order)]
  /\ UNCHANGED <<stored, steady, left, joined, writes>>

\* An error of either operation is the answer.
Fails ==
  /\ pager.at \in {"count", "find"}
  /\ pager' = [NoPager EXCEPT !.at = "error"]
  /\ UNCHANGED <<stored, steady, left, joined, writes>>

Next ==
  \/ \E e \in Events :
       \/ \E date \in Dates, label \in Labels : Insert(e, date, label)
       \/ \E marking \in {"illegal", "discard"} : UpdateMarking(e, marking)
       \/ \E label \in Labels : PutEvents(e, label)
       \/ FaceIsFound(e) \/ Delete(e)
  \/ \E q \in Queries, size \in PageSizes : Ask(q, size)
  \/ Count \/ Fails
  \/ pager.at = "find" /\ \E order \in Orders : Find(order)

Spec == Init /\ [][Next]_vars

-----------------------------------------------------------------------------
\* A client that goes through all the pages misses no more of the events that were there
\* all the time than have left the list behind its back (deleted, marked, edited), or have
\* come into it between the count and the page of its last answer: that count is the only
\* thing that tells it to stop (dao event.go:86-91, service event.go:78).
PagesMissOnlyWhatMoved ==
  pager.at = "done" => Cardinality(steady \ pager.seen) <= left + joined
=============================================================================
