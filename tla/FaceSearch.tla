------------------------------ MODULE FaceSearch ------------------------------
(***************************************************************************)
(* Who is seen in an event: each worker of a deeper process finds the      *)
(* faces in the feature pictures of an event and searches a person for     *)
(* each of them. All workers use one client and share its login.           *)
(*                                                                         *)
(*   biz/deeper/handler/face_search.go   Handle                            *)
(*   biz/deeper/client/yitu.go           mustLogin, DetectFace, SearchFace *)
(*   util/dashboard.go                   what the dashboard shows of it    *)
(***************************************************************************)
EXTENDS Integers, Sequences

CONSTANTS
  Workers,
  Events,    \* of an event: which of its snapshots have a feature picture; an event
             \* of a type up to 30, no traffic violation, has none that is looked at
  MaxFaces,  \* bound: faces in a picture
  Expire,    \* config.ExpireSecond, in ticks
  Delay,     \* the longest time a login takes
  LastTick   \* bound on time

VARIABLES
  now,
  lastLogin, \* when the client says it logged in last
  cookies,   \* the session it sends: the tick the service opened it at
  loginLock, \* the worker that holds it
  w          \* per worker: its event, its request and what it has found

vars == <<now, lastLogin, cookies, loginLock, w>>

None == -1     \* no session
Torn == -2     \* half of one and half of another, read while it was being written
Free == "free"

\* pc: idle; check to post the steps of mustLogin, send and call those of a request,
\* done with the event. cause: why it may have failed.
Idle == [pc |-> "idle", pics |-> <<>>, i |-> 0, faces |-> None, searched |-> 0,
         first |-> "nobody", people |-> <<>>, err |-> FALSE, cookie |-> None, wait |-> 0,
         cause |-> "none"]

\* Of the faces in a picture the dashboard looks at the first: there is none, nobody is
\* like it, or somebody is.
First == {"nobody", "stranger", "person"}

Steps == {"idle", "check", "lock", "post", "answer", "cookies", "send", "call", "refused",
          "done"}

TypeOK ==
  /\ now \in Expire..LastTick /\ lastLogin \in 0..LastTick
  /\ cookies \in {None} \cup 0..LastTick
  /\ loginLock \in Workers \cup {Free}
  /\ \A x \in Workers :
       /\ w[x].pc \in Steps /\ w[x].pics \in Events \cup {<<>>} /\ w[x].err \in BOOLEAN
       /\ w[x].i \in 0..Len(w[x].pics) /\ w[x].faces \in None..MaxFaces
       /\ w[x].searched \in 0..MaxFaces /\ w[x].first \in First
       /\ Len(w[x].people) <= Len(w[x].pics)
       /\ w[x].cookie \in {None, Torn} \cup 0..LastTick /\ w[x].wait \in 0..Delay
       /\ w[x].cause \in {"none", "fault", "race"}
       /\ loginLock = x => w[x].pc \in {"post", "answer", "cookies", "send"}

\* Time has run on past the first expiry: a client that never logged in is due.
Init ==
  /\ now = Expire /\ lastLogin = 0 /\ cookies = None /\ loginLock = Free
  /\ w = [x \in Workers |-> Idle]

-----------------------------------------------------------------------------
(***************************************************************************)
(* Handle: the pictures one after the other, a detection for each and a    *)
(* search for each face. The first error ends it, with what is there.      *)
(***************************************************************************)
\* The worker goes on to the next snapshot that has a feature picture.
Advance(r) ==
  LET rest == {j \in DOMAIN r.pics : j > r.i /\ r.pics[j]}
  IN IF rest = {} THEN [r EXCEPT !.pc = "done"]
     ELSE [r EXCEPT !.pc = "check", !.faces = None, !.searched = 0, !.first = "nobody",
                    !.i = CHOOSE j \in rest : \A k \in rest : j <= k]

\* Mutant: a picture in which nobody is found is passed over.
PictureDoneUnlessEmpty(r) ==
  Advance(IF r.first = "nobody" THEN r
          ELSE [r EXCEPT !.people = Append(@, [snap |-> r.i, first |-> r.first])])

PictureDone(r) == Advance([r EXCEPT !.people = Append(@, [snap |-> r.i, first |-> r.first])])

\* Every error is reported with the event; cause says where it came from.
Failed(r, cause) == [r EXCEPT !.pc = "done", !.err = TRUE, !.cause = cause]

Takes(x, event) ==
  /\ w[x].pc \in {"idle", "done"}
  /\ w' = [w EXCEPT ![x] = Advance([Idle EXCEPT !.pics = event])]
  /\ UNCHANGED <<now, lastLogin, cookies, loginLock>>

\* The picture cannot be fetched, or no client is configured.
LoadFails(x) ==
  /\ w[x].pc = "check" /\ w[x].faces = None
  /\ w' = [w EXCEPT ![x] = Failed(@, "fault")]
  /\ UNCHANGED <<now, lastLogin, cookies, loginLock>>

-----------------------------------------------------------------------------
(***************************************************************************)
(* mustLogin: the age of the login is looked at without the lock and, when *)
(* it has expired, again with it. The lock is held until the cookies have  *)
(* been added to the request.                                              *)
(***************************************************************************)
\* Mutant: > for >=.
HasExpiredLate == now - lastLogin > Expire

HasExpired == now - lastLogin >= Expire

Check(x) ==
  /\ w[x].pc = "check"
  /\ w' = [w EXCEPT ![x].pc = IF HasExpired THEN "lock" ELSE "send"]
  /\ UNCHANGED <<now, lastLogin, cookies, loginLock>>

\* Mutant: the second look is missing.
LockAndLogin(x) ==
  /\ w[x].pc = "lock" /\ loginLock = Free
  /\ loginLock' = x
  /\ w' = [w EXCEPT ![x].pc = "post", ![x].wait = 0]
  /\ UNCHANGED <<now, lastLogin, cookies>>

Lock(x) ==
  /\ w[x].pc = "lock" /\ loginLock = Free
  /\ loginLock' = x
  /\ w' = [w EXCEPT ![x].pc = IF HasExpired THEN "post" ELSE "send", ![x].wait = 0]
  /\ UNCHANGED <<now, lastLogin, cookies>>

\* The service opens a session; its answer is on the way.
Opens(x) ==
  /\ w[x].pc = "post"
  /\ w' = [w EXCEPT ![x].pc = "answer", ![x].cookie = now]
  /\ UNCHANGED <<now, lastLogin, cookies, loginLock>>

\* The request or its answer is lost, or the answer is no success.
LoginFails(x) ==
  /\ w[x].pc \in {"post", "answer"}
  /\ w' = [w EXCEPT ![x] = Failed(@, "fault")] /\ loginLock' = Free
  /\ UNCHANGED <<now, lastLogin, cookies>>

\* The time is stored before the cookies.
StoreTime(x) ==
  /\ w[x].pc = "answer"
  /\ lastLogin' = now /\ w' = [w EXCEPT ![x].pc = "cookies"]
  /\ UNCHANGED <<now, cookies, loginLock>>

StoreCookies(x) ==
  /\ w[x].pc = "cookies"
  /\ cookies' = w[x].cookie /\ w' = [w EXCEPT ![x].pc = "send"]
  /\ UNCHANGED <<now, lastLogin, loginLock>>

-----------------------------------------------------------------------------
(***************************************************************************)
(* The request itself. A session is good for longer than Expire by what a  *)
(* login may take: the configuration leaves that much room.                *)
(***************************************************************************)
Accepted(session) == session >= 0 /\ now - session < Expire + Delay

\* Who adds the cookies while another worker stores new ones may read either or a part of
\* each: neither holds a lock the other knows of.
Storing == {y \in Workers : w[y].pc = "cookies"}
Readable == {cookies} \cup {w[y].cookie : y \in Storing}
                      \cup (IF Storing = {} THEN {} ELSE {Torn})

Send(x) ==
  /\ w[x].pc = "send"
  /\ \E c \in Readable :
       w' = [w EXCEPT ![x].pc = IF Accepted(c) THEN "call" ELSE "refused", ![x].cookie = None,
                      ![x].cause = IF Storing = {} THEN @ ELSE "race"]
  /\ loginLock' = IF loginLock = x THEN Free ELSE loginLock
  /\ UNCHANGED <<now, lastLogin, cookies>>

\* A torn slice may also point nowhere, which ends the process; it is started again.
SendCrashes(x) ==
  /\ w[x].pc = "send" /\ Storing # {}
  /\ lastLogin' = 0 /\ cookies' = None /\ loginLock' = Free
  /\ w' = [y \in Workers |-> Idle]
  /\ UNCHANGED now

Refused(x) ==
  /\ w[x].pc = "refused"
  /\ w' = [w EXCEPT ![x] = Failed(@, @.cause)]
  /\ UNCHANGED <<now, lastLogin, cookies, loginLock>>

CallFails(x) ==
  /\ w[x].pc = "call"
  /\ w' = [w EXCEPT ![x] = Failed(@, "fault")]
  /\ UNCHANGED <<now, lastLogin, cookies, loginLock>>

DetectFace(x, n) ==
  /\ w[x].pc = "call" /\ w[x].faces = None
  /\ w' = [w EXCEPT ![x] = IF n = 0 THEN PictureDone(@)
                           ELSE [@ EXCEPT !.pc = "check", !.faces = n]]
  /\ UNCHANGED <<now, lastLogin, cookies, loginLock>>

\* who: whether somebody is like the face.
SearchFace(x, who) ==
  /\ w[x].pc = "call" /\ w[x].faces # None
  /\ w[x].searched > 0 => who = "stranger"     \* only the first is told apart
  /\ LET r == [w[x] EXCEPT !.searched = @ + 1,
                           !.first = IF w[x].searched = 0 THEN who ELSE @]
     IN w' = [w EXCEPT ![x] = IF r.searched = r.faces THEN PictureDone(r)
                              ELSE [r EXCEPT !.pc = "check"]]
  /\ UNCHANGED <<now, lastLogin, cookies, loginLock>>

\* Steps that wait for nothing take no time, and a login no longer than Delay.
Tick ==
  /\ now < LastTick /\ now' = now + 1
  /\ \A x \in Workers : /\ w[x].pc \notin {"check", "cookies", "send"}
                        /\ w[x].pc = "lock" => loginLock # Free
                        /\ w[x].pc \in {"post", "answer"} => w[x].wait < Delay
  /\ w' = [x \in Workers |-> IF w[x].pc \in {"post", "answer"}
                             THEN [w[x] EXCEPT !.wait = @ + 1] ELSE w[x]]
  /\ UNCHANGED <<lastLogin, cookies, loginLock>>

Worker(x) ==
  \/ \E event \in Events : Takes(x, event)
  \/ LoadFails(x) \/ Check(x) \/ Lock(x) \/ Opens(x) \/ LoginFails(x)
  \/ StoreTime(x) \/ StoreCookies(x) \/ Send(x) \/ SendCrashes(x)
  \/ Refused(x) \/ CallFails(x)
  \/ \E n \in 0..MaxFaces : DetectFace(x, n)
  \/ \E who \in First \ {"nobody"} : SearchFace(x, who)

Next == Tick \/ \E x \in Workers : Worker(x)

Spec == Init /\ [][Next]_vars

-----------------------------------------------------------------------------
\* What the dashboard shows, by the places in people: the snapshot the person of the
\* first face was found in, or None (ProcessNonMotorDeepInfo).
Faces(r) ==
  IF r.err THEN <<>>
  ELSE [k \in DOMAIN r.people |->
          IF r.people[k].first = "person" THEN r.people[k].snap ELSE None]

\* The faces of an event belong to its snapshots one by one, as docs/dashboard.md:118 and
\* deeper/proto/deeper.go:46 say, up to the first snapshot that has no feature picture;
\* and none that has one is missing.
FacesMatchSnapshots ==
  \A x \in Workers : w[x].pc = "done" =>
    /\ \A k \in DOMAIN Faces(w[x]) :
         (\A j \in 1..k : w[x].pics[j]) => Faces(w[x])[k] \in {None, k}
    /\ ~w[x].err => {w[x].people[k].snap : k \in DOMAIN w[x].people}
                      = {j \in DOMAIN w[x].pics : w[x].pics[j]}

\* An event fails only when a call failed, or its request read the cookies at the moment
\* another worker stored them; never because the session had run out (yitu.go:50, 75).
FailsOnlyOnFault == \A x \in Workers : w[x].err => w[x].cause # "none"

\* Whoever logs in finds a login that has expired: workers that come for an expired login
\* together use one (yitu.go:53).
OneLoginPerExpiry ==
  [][\A x \in Workers : w[x].pc = "answer" /\ w'[x].pc = "cookies" => now - lastLogin >= Expire]_vars
=============================================================================
