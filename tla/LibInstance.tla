----------------------------- MODULE LibInstance -----------------------------
(***************************************************************************)
(* The instances of the inference library, one for each running task.      *)
(*                                                                         *)
(*   biz/analyzer/inference/lib.go   Create, newLibInstance, invoke and    *)
(*                                   the calls, NetRelease                 *)
(*   biz/analyzer/worker.go          the order in which Do calls them      *)
(*                                                                         *)
(* An instance has a goroutine locked to its thread, which creates the     *)
(* context of the C library and then runs, one by one, the functions that  *)
(* come through the channel ch. Whoever sends one waits for it on done.    *)
(***************************************************************************)
CONSTANT Tasks

None == "none"

VARIABLES
  libMux,  \* the tasks that hold it, at most one
  caller,  \* where Do is, and the call it makes or has made last
  thread,  \* where the goroutine of the instance is
  ctx,     \* the C context
  closed   \* the instances whose ch is closed

vars == <<libMux, caller, thread, ctx, closed>>

Calls == {"streamRequest", "frameInference", "resetStream", "netRelease"}

TypeOK ==
  /\ libMux \subseteq Tasks
  /\ caller \in [Tasks -> [at : {"start", "creates", "failed", "calls", "waits", "ready",
                                 "closes", "returned"},
                           call : Calls \cup {"create"}]]
  /\ thread \in [Tasks -> {None, "create", "range", "run", "done", "ended"}]
  /\ ctx \in [Tasks -> {None, "live", "released"}]
  /\ closed \subseteq Tasks

Init ==
  /\ libMux = {}
  /\ caller = [t \in Tasks |-> [at |-> "start", call |-> "create"]]
  /\ thread = [t \in Tasks |-> None]
  /\ ctx = [t \in Tasks |-> None]
  /\ closed = {}

Moves(t, at) == caller' = [caller EXCEPT ![t].at = at]
Goes(t, to) == thread' = [thread EXCEPT ![t] = to]

-----------------------------------------------------------------------------
\* Create takes libMux, and newLibInstance starts the goroutine and waits for it.
Create(t) ==
  /\ caller[t].at = "start" /\ libMux = {}
  /\ libMux' = {t}
  /\ Moves(t, "creates") /\ Goes(t, "create")
  /\ UNCHANGED <<ctx, closed>>

\* The create function of the library; without a context when it fails.
Creates(t, ok) ==
  /\ thread[t] = "create"
  /\ ctx' = [ctx EXCEPT ![t] = IF ok THEN "live" ELSE None]
  /\ Goes(t, "range")
  /\ UNCHANGED <<libMux, caller, closed>>

\* Mutant: the code the create function gave is not looked at.
CreateReturnsAlways(t) ==
  /\ caller[t].at = "creates" /\ thread[t] # "create"
  /\ Moves(t, "ready")
  /\ libMux' = {}
  /\ UNCHANGED <<thread, ctx, closed>>

\* Create returns and gives the lock back. After an error nobody has the instance,
\* and its goroutine waits for a call for ever.
CreateReturns(t) ==
  /\ caller[t].at = "creates" /\ thread[t] # "create"
  /\ Moves(t, IF ctx[t] = "live" THEN "ready" ELSE "failed")
  /\ libMux' = {}
  /\ UNCHANGED <<thread, ctx, closed>>

\* Do: what may follow a call. NetRelease is deferred, so it may follow any.
Follows(call) ==
  {"netRelease"} \cup
  CASE call = "create" -> {"streamRequest"}
    [] call = "frameInference" -> {"frameInference", "resetStream"}
    [] OTHER -> {"frameInference"}

Calling(t, call) ==
  /\ caller[t].at = "ready" /\ call \in Follows(caller[t].call)
  /\ caller' = [caller EXCEPT ![t] = [at |-> "calls", call |-> call]]
  /\ UNCHANGED <<libMux, thread, ctx, closed>>

\* invoke sends the function and the goroutine receives it: ch has no buffer.
Invoke(t) ==
  /\ caller[t].at = "calls" /\ thread[t] = "range"
  /\ Moves(t, "waits") /\ Goes(t, "run")
  /\ UNCHANGED <<libMux, ctx, closed>>

\* Mutant: done is sent after the function, not by the deferred function.
RunsAndEnds(t, panics) ==
  /\ thread[t] = "run"
  /\ ctx' = [ctx EXCEPT ![t] = IF caller[t].call = "netRelease" /\ ~panics THEN "released" ELSE @]
  /\ Goes(t, IF panics THEN "range" ELSE "done")
  /\ UNCHANGED <<libMux, caller, closed>>

\* The function runs; a panic is recovered from and answered all the same.
Runs(t, panics) ==
  /\ thread[t] = "run"
  /\ ctx' = [ctx EXCEPT ![t] = IF caller[t].call = "netRelease" /\ ~panics THEN "released" ELSE @]
  /\ Goes(t, "done")
  /\ UNCHANGED <<libMux, caller, closed>>

\* done: invoke returns; after NetRelease the channel is closed next.
Answers(t) ==
  /\ thread[t] = "done" /\ caller[t].at = "waits"
  /\ Moves(t, IF caller[t].call = "netRelease" THEN "closes" ELSE "ready")
  /\ Goes(t, "range")
  /\ UNCHANGED <<libMux, ctx, closed>>

Close(t) ==
  /\ caller[t].at = "closes"
  /\ closed' = closed \cup {t}
  /\ Moves(t, "returned")
  /\ UNCHANGED <<libMux, thread, ctx>>

RangeEnds(t) ==
  /\ thread[t] = "range" /\ t \in closed
  /\ Goes(t, "ended")
  /\ UNCHANGED <<libMux, caller, ctx, closed>>

\* Steps that are taken once they can be; a call is made when Do has a reason to.
Proceeds(t) ==
  \/ Create(t) \/ CreateReturns(t) \/ Invoke(t) \/ Answers(t) \/ Close(t) \/ RangeEnds(t)
  \/ \E ok \in BOOLEAN : Creates(t, ok)
  \/ \E panics \in BOOLEAN : Runs(t, panics)

Next == \E t \in Tasks : Proceeds(t) \/ \E call \in Calls : Calling(t, call)

Spec == Init /\ [][Next]_vars

Fairness == \A t \in Tasks : WF_vars(Proceeds(t))

-----------------------------------------------------------------------------
\* The library is only called with a context it has made and not released, and makes
\* one context at a time, whatever the calls of two tasks do meanwhile (lib.go:274,
\* 388, 452).
UsesLiveContext ==
  /\ \A t \in Tasks : thread[t] = "run" => ctx[t] = "live"
  /\ \A t, u \in Tasks : thread[t] = "create" /\ thread[u] = "create" => t = u

\* A task that gives its instance back gets its answer and the thread ends, also when
\* the function panics (lib.go:372-378, 452).
ReleasedThreadEnds ==
  \A t \in Tasks : (caller[t].at = "calls" /\ caller[t].call = "netRelease")
                     ~> thread[t] = "ended"
=============================================================================
