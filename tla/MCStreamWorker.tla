--------------------------- MODULE MCStreamWorker ----------------------------
(***************************************************************************)
(* StreamWorker on a small instance, and beside it the instances of the    *)
(* inference library with the tasks that call them: part says which of the *)
(* two a behaviour is about. A call is one step in StreamWorker; in        *)
(* LibInstance it is the exchange with the thread, in the order Do calls.  *)
(***************************************************************************)
EXTENDS StreamWorker

CONSTANTS
  Room,   \* the capacity of every channel
  Tasks   \* of LibInstance

VARIABLES part, libMux, caller, thread, ctx, closed

L == INSTANCE LibInstance

MCCap == [h \in Handlers |-> Room]

lVars == <<libMux, caller, thread, ctx, closed>>
MCVars == <<part, vars, lVars>>

MCInit == part \in {"worker", "library"} /\ Init /\ L!Init

MCNext ==
  /\ UNCHANGED part
  /\ \/ part = "worker" /\ Next /\ UNCHANGED lVars
     \/ part = "library" /\ L!Next /\ UNCHANGED vars

\* The fairness of StreamWorker and of LibInstance, each of its own part.
MCSpec ==
  /\ MCInit /\ [][MCNext]_MCVars
  /\ WF_vars(part = "worker" /\ Do)
  /\ SF_vars(part = "worker" /\ SidewalkLocks) /\ WF_vars(part = "worker" /\ ScanGoesOn)
  /\ \A h \in Handlers : WF_vars(part = "worker" /\ (Takes(h) \/ Uploads(h)))
  /\ \A t \in Tasks : WF_lVars(part = "library" /\ L!Proceeds(t))

\* The library is called with a context it has made and not released (lib.go:388, 452).
UsesLiveContext == L!UsesLiveContext

\* A task that gives its instance back is answered and the thread ends (lib.go:377, 452).
ReleasedThreadEnds == L!ReleasedThreadEnds
=============================================================================
