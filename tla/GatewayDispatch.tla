--------------------------- MODULE GatewayDispatch ---------------------------
(* The stand-alone gateway application: dispatch permits                   *)
(* (gateway/admission.py), the executor (gateway/execution.py), the chat   *)
(* endpoint (gateway/routes.py) and the registry that owns the observation *)
(* tasks and drains them at shutdown (gateway/observer.py).                *)
(*                                                                         *)
(* Each await of a request is a step; at any of them it may be cancelled.  *)
EXTENDS Integers, FiniteSets

CONSTANTS
  Calls,      \* requests to /v1/chat/completions
  MaxTotal,   \* max_concurrent_dispatches
  MaxMemory,  \* max_concurrent_memory_requests
  MaxPending  \* _MAX_PENDING of the registry

ASSUME GatewayDispatchAssumption ==
  /\ IsFiniteSet(Calls) /\ {MaxTotal, MaxMemory, MaxPending} \subseteq Nat

VARIABLES
  dq,           \* step of each request
  withMemory,   \* requests whose plan has memory_mode "active"
  total, inMemory,  \* _current_total and _current_memory
  observing,    \* _tasks
  shutdown,     \* _shutdown_started
  drain,        \* "no", "waiting", "cancelling", "done"
  doomed        \* tasks the drain waits for

dispatchVars == <<dq, withMemory, total, inMemory, observing, shutdown, drain, doomed>>
Registry == <<observing, shutdown, drain, doomed>>

WithPermit == {c \in Calls : dq[c] \in {"injecting", "sending"}}

DispatchInit ==
  /\ dq = [c \in Calls |-> "new"] /\ withMemory = {} /\ total = 0 /\ inMemory = 0
  /\ observing = {} /\ shutdown = FALSE /\ drain = "no" /\ doomed = {}

(* The body is read and validated and the route planned; a stream is       *)
(* refused, and a plan that is not dispatched is only shown.               *)
PlanCall(c) ==
  /\ dq[c] = "new"
  /\ \/ dq' = [dq EXCEPT ![c] = "over"] /\ UNCHANGED withMemory
     \/ /\ dq' = [dq EXCEPT ![c] = "admitting"]
        /\ withMemory' \in {withMemory, withMemory \union {c}}
  /\ UNCHANGED <<total, inMemory, Registry>>

(* try_acquire: no queue, and a request with memory needs both counters.   *)
TryAcquire(c) ==
  LET active == c \in withMemory
      full == total >= MaxTotal \/ (active /\ inMemory >= MaxMemory) IN
  /\ dq[c] = "admitting"
  /\ \/ full /\ dq' = [dq EXCEPT ![c] = "over"] /\ UNCHANGED <<total, inMemory>>
     \/ /\ ~full /\ total' = total + 1
        /\ inMemory' = IF active THEN inMemory + 1 ELSE inMemory
        /\ dq' = [dq EXCEPT ![c] = IF active THEN "injecting" ELSE "sending"]
  /\ UNCHANGED <<withMemory, Registry>>

(* DispatchPermit.__aexit__, on every way out of the async with.           *)
ReleasePermit(c) ==
  /\ total' = total - 1
  /\ inMemory' = IF c \in withMemory THEN inMemory - 1 ELSE inMemory

(* Memory is needed by an active plan: none, a blank or an overlong text,  *)
(* or an error, ends the request; so does its cancellation.                *)
InjectMemory(c) ==
  /\ dq[c] = "injecting"
  /\ \/ dq' = [dq EXCEPT ![c] = "sending"] /\ UNCHANGED <<total, inMemory>>
     \/ dq' = [dq EXCEPT ![c] = "over"] /\ ReleasePermit(c)
  /\ UNCHANGED <<withMemory, Registry>>

(* The provider fails, its answer is not valid, or the request is cancelled.*)
SendFails(c) ==
  /\ dq[c] = "sending" /\ dq' = [dq EXCEPT ![c] = "over"] /\ ReleasePermit(c)
  /\ UNCHANGED <<withMemory, Registry>>

(* Fault model: the registry schedules during a drain.                     *)
ScheduleLate(c) == observing' = observing \union {c}

(* registry.schedule: refused after shutdown and when the backlog is full. *)
Schedule(c) ==
  \/ (shutdown \/ Cardinality(observing) >= MaxPending) /\ UNCHANGED observing
  \/ /\ ~shutdown /\ Cardinality(observing) < MaxPending
     /\ observing' = observing \union {c}

(* The answer is returned; its observation, if the mode and the texts      *)
(* allow one, is scheduled in the same step.                               *)
Answer(c) ==
  /\ dq[c] = "sending" /\ dq' = [dq EXCEPT ![c] = "over"] /\ ReleasePermit(c)
  /\ \/ Schedule(c)
     \/ UNCHANGED observing
  /\ UNCHANGED <<withMemory, shutdown, drain, doomed>>

(* An observation ends, fails or times out, and leaves the set.            *)
ObservationEnds(c) ==
  /\ c \in observing /\ observing' = observing \ {c} /\ doomed' = doomed \ {c}
  /\ UNCHANGED <<dq, withMemory, total, inMemory, shutdown, drain>>

(* The lifespan ends: drain() refuses new tasks and waits for those it     *)
(* finds; after the timeout it cancels them and waits again.               *)
DrainBegins ==
  /\ drain = "no" /\ shutdown' = TRUE /\ doomed' = observing
  /\ drain' = IF observing = {} THEN "done" ELSE "waiting"
  /\ UNCHANGED <<dq, withMemory, total, inMemory, observing>>

DrainTimesOut ==
  /\ drain = "waiting" /\ doomed # {} /\ drain' = "cancelling"
  /\ UNCHANGED <<dq, withMemory, total, inMemory, observing, shutdown, doomed>>

DrainEnds ==
  /\ drain \in {"waiting", "cancelling"} /\ doomed = {}
  /\ drain' = "done" /\ observing' = {}
  /\ UNCHANGED <<dq, withMemory, total, inMemory, shutdown, doomed>>

DispatchNext ==
  \/ \E c \in Calls : \/ PlanCall(c) \/ TryAcquire(c) \/ InjectMemory(c) \/ SendFails(c)
                      \/ Answer(c) \/ ObservationEnds(c)
  \/ DrainBegins \/ DrainTimesOut \/ DrainEnds

-----------------------------------------------------------------------------
DispatchTypeOK ==
  /\ dq \in [Calls -> {"new", "admitting", "injecting", "sending", "over"}]
  /\ total \in 0..MaxTotal /\ inMemory \in 0..MaxMemory
  /\ UNION {withMemory, observing, doomed} \subseteq Calls
  /\ shutdown \in BOOLEAN /\ drain \in {"no", "waiting", "cancelling", "done"}

(* A permit is out exactly while its request is between acquire and exit,  *)
(* in both counters; when drain() has returned no observation runs, and    *)
(* none that it did not wait for has begun meanwhile.                      *)
DispatchSound ==
  /\ total = Cardinality(WithPermit) /\ inMemory = Cardinality(WithPermit \intersect withMemory)
  /\ Cardinality(observing) <= MaxPending
  /\ drain # "no" => observing = doomed
  /\ drain = "done" => observing = {}
=============================================================================
