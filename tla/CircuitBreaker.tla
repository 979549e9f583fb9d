-------------------------- MODULE CircuitBreaker --------------------------
(***************************************************************************)
(* CircuitBreaker.call used by concurrent request handlers of the HTTP     *)
(* proxy.  A call reads the breaker's state before it awaits the wrapped   *)
(* function and writes it after, so the state it acts on may be old.       *)
(***************************************************************************)
EXTENDS Integers

CONSTANTS
  Callers,      (* request handlers                                        *)
  Threshold,    (* failure_threshold                                       *)
  MaxFailures,  (* bound: failed calls in a behaviour                      *)
  MaxCancels    (* bound: cancelled calls in a behaviour                   *)

ASSUME ThresholdAssumption == Threshold \in Nat \ {0}
ASSUME BreakerBounds == MaxFailures \in Nat /\ MaxCancels \in Nat

VARIABLES
  state,      (* _state: closed, open or half_open                         *)
  failures,   (* _failures                                                 *)
  recovered,  (* recovery_timeout has passed since _opened_at              *)
  call,       (* each caller: idle, normal or trial (half-open, 5 s limit) *)
  healthy,    (* the daemon answers, and within the trial's limit          *)
  failed,     (* failed calls so far                                       *)
  breakerCancels     (* cancelled calls so far                                    *)

breakerVars == <<state, failures, recovered, call, healthy, failed, breakerCancels>>

BreakerInit ==
  /\ state = "closed" /\ failures = 0 /\ recovered = FALSE
  /\ call = [c \in Callers |-> "idle"]
  /\ healthy \in BOOLEAN
  /\ failed = 0 /\ breakerCancels = 0

(* Reading the state property turns an open breaker whose recovery time    *)
(* has passed half-open.                                                   *)
Observed == IF state = "open" /\ recovered THEN "half_open" ELSE state

(* Fault model: only a closed breaker lets calls through.                  *)
StartWhenClosed(c) ==
  /\ call[c] = "idle" /\ Observed = "closed"
  /\ call' = [call EXCEPT ![c] = "normal"]
  /\ UNCHANGED <<state, failures, recovered, healthy, failed, breakerCancels>>

(* An open breaker returns the fallback and changes nothing.               *)
Start(c) ==
  /\ call[c] = "idle" /\ Observed # "open"
  /\ state' = Observed
  /\ call' = [call EXCEPT ![c] = IF Observed = "half_open" THEN "trial" ELSE "normal"]
  /\ UNCHANGED <<failures, recovered, healthy, failed, breakerCancels>>

(* Success resets the breaker, whatever has become of it meanwhile.        *)
Succeed(c) ==
  /\ call[c] # "idle"
  /\ call' = [call EXCEPT ![c] = "idle"]
  /\ state' = "closed" /\ failures' = 0
  /\ UNCHANGED <<recovered, healthy, failed, breakerCancels>>

(* Fault models: a threshold that has to be exceeded; _opened_at that      *)
(* keeps the time the breaker opened first.                                *)
FailAboveThreshold(c) ==
  /\ call[c] # "idle" /\ ~healthy /\ failed < MaxFailures
  /\ failed' = failed + 1
  /\ call' = [call EXCEPT ![c] = "idle"]
  /\ failures' = failures + 1
  /\ IF failures + 1 > Threshold
     THEN state' = "open" /\ recovered' = FALSE
     ELSE UNCHANGED <<state, recovered>>
  /\ UNCHANGED <<healthy, breakerCancels>>

FailKeepsOpenedAt(c) ==
  /\ call[c] # "idle" /\ ~healthy /\ failed < MaxFailures
  /\ failed' = failed + 1
  /\ call' = [call EXCEPT ![c] = "idle"]
  /\ failures' = failures + 1
  /\ state' = IF failures + 1 >= Threshold THEN "open" ELSE state
  /\ UNCHANGED <<healthy, recovered, breakerCancels>>

Fail(c) ==
  /\ call[c] # "idle" /\ ~healthy /\ failed < MaxFailures
  /\ failed' = failed + 1
  /\ call' = [call EXCEPT ![c] = "idle"]
  /\ failures' = failures + 1
  /\ IF failures + 1 >= Threshold
     THEN state' = "open" /\ recovered' = FALSE
     ELSE UNCHANGED <<state, recovered>>
  /\ UNCHANGED <<healthy, breakerCancels>>

(* A cancelled call ends without a word to the breaker: CancelledError is  *)
(* no Exception.  A cancelled trial leaves the breaker half-open.          *)
Cancel(c) ==
  /\ call[c] # "idle" /\ breakerCancels < MaxCancels
  /\ breakerCancels' = breakerCancels + 1
  /\ call' = [call EXCEPT ![c] = "idle"]
  /\ UNCHANGED <<state, failures, recovered, healthy, failed>>

RecoveryPasses ==
  /\ state = "open" /\ ~recovered
  /\ recovered' = TRUE
  /\ UNCHANGED <<state, failures, call, healthy, failed, breakerCancels>>

(* The daemon goes away or comes back.                                     *)
DaemonChanges ==
  /\ healthy' = ~healthy
  /\ UNCHANGED <<state, failures, recovered, call, failed, breakerCancels>>

BreakerNext ==
  \/ \E c \in Callers : Start(c) \/ Succeed(c) \/ Fail(c) \/ Cancel(c)
  \/ RecoveryPasses \/ DaemonChanges

BreakerSpec == BreakerInit /\ [][BreakerNext]_breakerVars

-----------------------------------------------------------------------------
BreakerTypeOK ==
  /\ state \in {"closed", "open", "half_open"}
  /\ failures \in Nat /\ failed \in Nat /\ breakerCancels \in Nat
  /\ recovered \in BOOLEAN /\ healthy \in BOOLEAN
  /\ call \in [Callers -> {"idle", "normal", "trial"}]

(* However calls overlap, state and counter agree: the breaker lets normal *)
(* calls through exactly while it has seen fewer failures since the last   *)
(* success than the threshold.                                             *)
StateMatchesCount == (state = "closed") <=> (failures < Threshold)

(* A breaker whose failed trial is counted opens again at once: no failure *)
(* leaves it half-open, so it never lets calls through while they fail.    *)
FailedTrialReopens ==
  [][(failed' > failed /\ state # "closed") => (state' = "open" /\ ~recovered')]_breakerVars

(* If the daemon is healthy for good, the breaker closes for good.         *)
RecoversWhenHealthy == <>[]healthy => <>[](state = "closed")
=============================================================================
