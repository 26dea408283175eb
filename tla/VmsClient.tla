------------------------------- MODULE VmsClient -------------------------------
(***************************************************************************)
(* The dashboard's client of the video management system. The requests of  *)
(* all users share its token, which the first to miss it, or to find it    *)
(* old, fetches anew. There is no lock.                                    *)
(*                                                                         *)
(*   biz/dashboard/client/vms.go    reqJson and the calls made of it       *)
(*   biz/dashboard/service/vms.go   getVmsDeviceSubIds: two calls in a row *)
(***************************************************************************)
EXTENDS Integers

CONSTANTS
  Callers,   \* requests to the dashboard that need the VMS
  Expire,    \* the 86400 s of reqJson, in ticks
  Delay,     \* the longest time a login takes
  LastTick   \* bound on time

VARIABLES
  now,
  authtoken, \* the tick the VMS issued it at
  lastLogin,
  c          \* per caller: its step, the call it makes, the token it has

vars == <<now, authtoken, lastLogin, c>>

None == -1     \* the empty string
Torn == -2     \* pointer and length of two strings
Tokens == {None, Torn} \cup 0..LastTick

\* last: a list of cameras is asked for, and call is the first (the device) or the
\* second (its channels); any other request makes the second call alone.
Idle == [pc |-> "idle", call |-> 2, token |-> None, wait |-> 0, device |-> TRUE,
         err |-> FALSE, cause |-> "none"]

Steps == {"idle", "check", "post", "answer", "store", "time", "auth", "call", "done"}

TypeOK ==
  /\ now \in 0..LastTick /\ authtoken \in Tokens /\ lastLogin \in 0..LastTick
  /\ c \in [Callers -> [pc : Steps, call : 1..2, token : Tokens, wait : 0..Delay,
                        device : BOOLEAN, err : BOOLEAN,
                        cause : {"none", "fault", "garbage", "race"}]]

Init ==
  /\ now = 0 /\ authtoken = None /\ lastLogin = 0
  /\ c = [x \in Callers |-> Idle]

\* The token is two words, read and written in one step each: while others store one,
\* a reader may get the old, the new, or a word of each.
Storing == {y \in Callers : c[y].pc = "store"}
Readable == {authtoken} \cup {c[y].token : y \in Storing}
                        \cup (IF Storing = {} THEN {} ELSE {Torn})

\* Some caller may have put a wrong token there: by a login whose answer held none, or
\* by a race. It stays the cause of what comes of it.
Blame(r, token) ==
  IF r.cause # "none" THEN r.cause
  ELSE CASE token = None -> "garbage" [] token = Torn -> "race" [] OTHER -> "none"

-----------------------------------------------------------------------------
Asks(x, call) ==
  /\ c[x].pc \in {"idle", "done"}
  /\ c' = [c EXCEPT ![x] = [Idle EXCEPT !.pc = "check", !.call = call]]
  /\ UNCHANGED <<now, authtoken, lastLogin>>

MustLogin(token) == token = None \/ lastLogin + Expire < now

Check(x) ==
  /\ c[x].pc = "check"
  /\ \E token \in Readable :
       c' = [c EXCEPT ![x].pc = IF MustLogin(token) THEN "post" ELSE "auth", ![x].wait = 0]
  /\ UNCHANGED <<now, authtoken, lastLogin>>

\* The VMS issues a token, or an answer is no JSON and read as a success without one.
Issues(x) ==
  /\ c[x].pc = "post"
  /\ \E token \in {now, None} : c' = [c EXCEPT ![x].pc = "answer", ![x].token = token]
  /\ UNCHANGED <<now, authtoken, lastLogin>>

LoginFails(x) ==
  /\ c[x].pc \in {"post", "answer"}
  /\ c' = [c EXCEPT ![x].pc = "done", ![x].err = TRUE, ![x].cause = "fault"]
  /\ UNCHANGED <<now, authtoken, lastLogin>>

StoreStarts(x) ==
  /\ c[x].pc = "answer" /\ c' = [c EXCEPT ![x].pc = "store"]
  /\ UNCHANGED <<now, authtoken, lastLogin>>

\* Two callers that store at the same time may leave a word of each.
StoreEnds(x) ==
  /\ c[x].pc = "store"
  /\ authtoken' \in {c[x].token} \cup (IF Storing = {x} THEN {} ELSE {Torn})
  /\ c' = [c EXCEPT ![x].pc = "time"]
  /\ UNCHANGED <<now, lastLogin>>

StoreTime(x) ==
  /\ c[x].pc = "time"
  /\ lastLogin' = now /\ c' = [c EXCEPT ![x].pc = "auth"]
  /\ UNCHANGED <<now, authtoken>>

\* The token of the client, which need no longer be the one this caller has fetched.
Auth(x) ==
  /\ c[x].pc = "auth"
  /\ \E token \in Readable :
       c' = [c EXCEPT ![x].pc = "call", ![x].token = token, ![x].cause = Blame(c[x], token)]
  /\ UNCHANGED <<now, authtoken, lastLogin>>

\* A token is good for longer than Expire by what a login takes. The call arrives at once.
Accepted(token) == token >= 0 /\ now - token <= Expire + Delay

\* The first call asks for the device. That its answer is a refusal is not looked at: the
\* cameras of the second are then named without their device.
FirstCall(x) ==
  /\ c[x].pc = "call" /\ c[x].call = 1
  /\ c' = [c EXCEPT ![x].pc = "check", ![x].call = 2, ![x].device = Accepted(c[x].token)]
  /\ UNCHANGED <<now, authtoken, lastLogin>>

\* The second is refused by its code; what the other requests get is handed on as it is.
SecondCall(x) ==
  /\ c[x].pc = "call" /\ c[x].call = 2
  /\ c' = [c EXCEPT ![x].pc = "done", ![x].err = ~Accepted(c[x].token)]
  /\ UNCHANGED <<now, authtoken, lastLogin>>

CallFails(x) ==
  /\ c[x].pc = "call"
  /\ c' = [c EXCEPT ![x].pc = "done", ![x].err = TRUE, ![x].cause = "fault"]
  /\ UNCHANGED <<now, authtoken, lastLogin>>

\* Steps that wait for nothing take no time, and a login no longer than Delay.
Tick ==
  /\ now < LastTick /\ now' = now + 1
  /\ \A x \in Callers : /\ c[x].pc \in {"idle", "post", "answer", "done"}
                        /\ c[x].pc \in {"post", "answer"} => c[x].wait < Delay
  /\ c' = [x \in Callers |-> IF c[x].pc \in {"post", "answer"}
                             THEN [c[x] EXCEPT !.wait = @ + 1] ELSE c[x]]
  /\ UNCHANGED <<authtoken, lastLogin>>

Caller(x) ==
  \/ \E call \in 1..2 : Asks(x, call)
  \/ Check(x) \/ Issues(x) \/ LoginFails(x) \/ StoreStarts(x) \/ StoreEnds(x)
  \/ StoreTime(x) \/ Auth(x) \/ FirstCall(x) \/ SecondCall(x) \/ CallFails(x)

Next == Tick \/ \E x \in Callers : Caller(x)

Spec == Init /\ [][Next]_vars

-----------------------------------------------------------------------------
\* A request is refused, and cameras come without their device, only after a call failed,
\* a login was answered without a token, or two requests met in storing one; never
\* because the token had run out, although nothing orders the requests that renew it
\* (vms.go:51, 71; service/vms.go:155-164).
RefusedOnlyOnFault ==
  \A x \in Callers :
    c[x].pc = "done" /\ (c[x].err \/ ~c[x].device) => c[x].cause # "none"
=============================================================================
