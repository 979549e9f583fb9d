--------------------------- MODULE WindowsService ---------------------------
(* The supervisor of the daemon under the Windows service manager          *)
(* (windows_service.py): a thread runs an event loop in which bootstrap()  *)
(* is awaited and, when it raises, awaited again after a pause.            *)
(*                                                                         *)
(* bootstrap() returns only by raising (run_background_workers never ends),*)
(* so what follows it in _supervisor - the watchdog loop, the reset of the *)
(* failure counter, Conductor.stop - is code no step reaches.  A conductor *)
(* whose bootstrap raised is not stopped: its tasks stay in the loop.      *)
EXTENDS Integers

CONSTANT MaxRestarts  \* _MAX_RESTARTS

ASSUME WindowsServiceAssumption == MaxRestarts \in Nat \ {0}

VARIABLES
  supervisor,  \* "top", "bootstrap", "backoff", "failed", "stopped"
  svcFailures,    \* raises so far, never reset
  conductors,  \* conductors whose tasks the loop holds
  stopAsked,   \* stop_event and the event of the service manager
  joined       \* SvcDoRun has returned, and the process is over

svcVars == <<supervisor, svcFailures, conductors, stopAsked, joined>>

SvcInit == supervisor = "top" /\ svcFailures = 0 /\ conductors = 0 /\ stopAsked = FALSE /\ joined = FALSE

StartAttempt ==
  /\ ~joined /\ supervisor = "top" /\ ~stopAsked /\ svcFailures < MaxRestarts
  /\ supervisor' = "bootstrap" /\ conductors' = conductors + 1
  /\ UNCHANGED <<svcFailures, stopAsked, joined>>

GiveUp ==
  /\ ~joined /\ supervisor = "top" /\ ~stopAsked /\ svcFailures >= MaxRestarts
  /\ supervisor' = "failed"
  /\ UNCHANGED <<svcFailures, conductors, stopAsked, joined>>

LeaveLoop ==
  /\ ~joined /\ supervisor = "top" /\ stopAsked
  /\ supervisor' = "stopped"
  /\ UNCHANGED <<svcFailures, conductors, stopAsked, joined>>

(* At start-up or after days of service: the counter does not tell.        *)
BootstrapRaises ==
  /\ ~joined /\ supervisor = "bootstrap"
  /\ supervisor' = "backoff" /\ svcFailures' = svcFailures + 1
  /\ UNCHANGED <<conductors, stopAsked, joined>>

(* The pause ends by itself or because a stop is asked for.                *)
BackoffEnds ==
  /\ ~joined /\ supervisor = "backoff" /\ supervisor' = "top"
  /\ UNCHANGED <<svcFailures, conductors, stopAsked, joined>>

SvcStop ==
  /\ ~stopAsked /\ stopAsked' = TRUE
  /\ UNCHANGED <<supervisor, svcFailures, conductors, joined>>

(* SvcDoRun waits for the stop event, then 30 seconds for the thread, which*)
(* is a daemon thread and dies with the process.                           *)
Join ==
  /\ stopAsked /\ ~joined /\ joined' = TRUE
  /\ UNCHANGED <<supervisor, svcFailures, conductors, stopAsked>>

SvcNext ==
  \/ StartAttempt \/ GiveUp \/ LeaveLoop \/ BootstrapRaises \/ BackoffEnds \/ SvcStop \/ Join

-----------------------------------------------------------------------------
SvcTypeOK ==
  /\ supervisor \in {"top", "bootstrap", "backoff", "failed", "stopped"}
  /\ svcFailures \in 0..MaxRestarts /\ conductors \in 0..MaxRestarts
  /\ {stopAsked, joined} \subseteq BOOLEAN

(* A stop ends the process although the thread may be inside bootstrap(),  *)
(* where nothing tells it to stop.                                         *)
ServiceEnds == stopAsked ~> joined
=============================================================================
