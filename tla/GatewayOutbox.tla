--------------------------- MODULE GatewayOutbox ---------------------------
(***************************************************************************)
(* The gateway's durable outbox: request handlers enqueue observation      *)
(* events (ObserverBridge, GatewayOutbox.enqueue), one worker task of      *)
(* GatewayServer delivers them to the observer pipeline and marks them,    *)
(* and a cleanup task deletes old delivered rows.  All of them, and the    *)
(* rest of the process, share one aiosqlite connection and therefore one   *)
(* transaction, which any of them may commit or roll back between two      *)
(* awaits of another.                                                      *)
(***************************************************************************)
EXTENDS Integers, Sequences, FiniteSets, SequencesExt

CONSTANTS
  Events,        (* observation events; request ids are fresh uuids, so no  *)
                 (* two events ever have the same dedupe key                *)
  MaxAttempts,   (* config.outbox.max_attempts                              *)
  BatchLimit,    (* config.outbox.batch_size                                *)
  MaxOutboxMishaps,    (* bound: observer pipeline runs that raise, SQLite errors *)
                 (* and crashes, together                                   *)
  MaxFaults      (* bound: SQLite errors                                    *)

ASSUME EventsAssumption == IsFiniteSet(Events)
ASSUME AttemptsAssumption == MaxAttempts \in Nat \ {0} /\ BatchLimit \in Nat \ {0}
ASSUME OutboxBounds == MaxOutboxMishaps \in Nat /\ MaxFaults \in Nat

Row == [state : {"absent", "pending", "delivered", "dead_letter"}, attempts : 0..MaxAttempts]
Absent == [state |-> "absent", attempts |-> 0]

VARIABLES
  view,        (* gateway_observer_outbox as the connection sees it         *)
  disk,        (* the same table as last committed                          *)
  backedOff,     (* events whose next_attempt_at is still in the future       *)
  epc,         (* enqueue() of each event: new, inserted, failed, or        *)
               (* returned: stored or dropped                               *)
  wpc,         (* the worker: fetch, deliver, observed, marked, failed,     *)
               (* retried or stopped                                        *)
  todo,        (* what is left of its batch; the event in hand is the first *)
  draining,    (* stop() has been called                                    *)
  observed,    (* how often the observer pipeline took in each event        *)
  mishapsObserved, faults, workerCancels, restarts  (* what went wrong so far; bounds    *)

outsideVars == <<draining, mishapsObserved, workerCancels, restarts>>
outboxVars == <<view, disk, backedOff, epc, wpc, todo, draining, observed,
          mishapsObserved, faults, workerCancels, restarts>>

OutboxInit ==
  /\ view = [e \in Events |-> Absent] /\ disk = view
  /\ backedOff = {}
  /\ epc = [e \in Events |-> "new"]
  /\ wpc = "fetch" /\ todo = <<>> /\ draining = FALSE
  /\ observed = [e \in Events |-> 0]
  /\ mishapsObserved = 0 /\ faults = 0 /\ workerCancels = 0 /\ restarts = 0

-----------------------------------------------------------------------------
Mishap == mishapsObserved + faults + restarts < MaxOutboxMishaps
Fault == Mishap /\ faults < MaxFaults /\ faults' = faults + 1

(* A commit makes durable whatever anyone has executed.  One that raises   *)
(* leaves the transaction open or has rolled it back.                      *)
Commit == disk' = view /\ UNCHANGED <<view, faults>>
CommitFails == Fault /\ view' \in {view, disk} /\ UNCHANGED disk

(* enqueue: INSERT, commit; any exception ends in a rollback - of the      *)
(* shared transaction, taken to succeed - and a normal return.             *)
OutboxInsert(e) ==
  /\ epc[e] = "new"
  /\ \/ /\ view' = [view EXCEPT ![e] = [state |-> "pending", attempts |-> 0]]
        /\ epc' = [epc EXCEPT ![e] = "inserted"]
        /\ UNCHANGED faults
     \/ Fault /\ epc' = [epc EXCEPT ![e] = "failed"] /\ UNCHANGED view
  /\ UNCHANGED <<disk, backedOff, wpc, todo, observed, outsideVars>>

InsertCommit(e) ==
  /\ epc[e] = "inserted"
  /\ \/ Commit /\ epc' = [epc EXCEPT ![e] = "stored"]
     \/ CommitFails /\ epc' = [epc EXCEPT ![e] = "failed"]
  /\ UNCHANGED <<backedOff, wpc, todo, observed, outsideVars>>

Rollback(e) ==
  /\ epc[e] = "failed"
  /\ view' = disk
  /\ epc' = [epc EXCEPT ![e] = "dropped"]
  /\ UNCHANGED <<disk, backedOff, wpc, todo, observed, faults, outsideVars>>

-----------------------------------------------------------------------------
(* Fault model: the query does not tell dead letters from pending rows.    *)
ReadyWithDeadLetters ==
  {e \in Events : view[e].state \in {"pending", "dead_letter"} /\ e \notin backedOff}

(* fetch_ready_batch, in whatever order next_attempt_at gives.             *)
Ready == {e \in Events : view[e].state = "pending" /\ e \notin backedOff}

Batches ==
  LET n == IF Cardinality(Ready) < BatchLimit THEN Cardinality(Ready) ELSE BatchLimit
  IN  UNION {SetToSeqs(S) : S \in kSubset(n, Ready)}

Fetch ==
  /\ wpc = "fetch" /\ ~draining /\ Ready # {}
  /\ todo' \in Batches
  /\ wpc' = "deliver"
  /\ UNCHANGED <<view, disk, backedOff, epc, observed, faults, outsideVars>>

(* The loop's condition is read only between two batches.                  *)
Exit ==
  /\ wpc = "fetch" /\ draining
  /\ wpc' = "stopped"
  /\ UNCHANGED <<view, disk, backedOff, epc, todo, observed, faults, outsideVars>>

NextRow ==
  /\ todo' = Tail(todo)
  /\ wpc' = IF Len(todo) = 1 THEN "fetch" ELSE "deliver"

(* An exception that leaves _deliver_one ends the whole batch.             *)
AbandonBatch == todo' = <<>> /\ wpc' = "fetch"

Observes(e) == observed' = [observed EXCEPT ![e] = @ + 1]

(* The pipeline succeeds, or raises before or after it took the event in.  *)
Pipeline ==
  /\ wpc = "deliver"
  /\ \/ Observes(Head(todo)) /\ wpc' = "observed" /\ UNCHANGED mishapsObserved
     \/ /\ Mishap /\ mishapsObserved' = mishapsObserved + 1
        /\ Observes(Head(todo)) \/ UNCHANGED observed
        /\ wpc' = "failed"
  /\ UNCHANGED <<view, disk, backedOff, epc, todo, faults, draining, workerCancels, restarts>>

(* An UPDATE of the row of e, which does nothing when there is none.       *)
Update(e, state, attempts) ==
  view' = IF view[e].state = "absent" THEN view
          ELSE [view EXCEPT ![e] = [state |-> state, attempts |-> attempts]]

(* Fault model: delivered_at is set, the state is left alone.              *)
MarkDeliveredKeepsState ==
  /\ wpc = "observed" /\ wpc' = "marked"
  /\ UNCHANGED <<view, faults, disk, backedOff, epc, todo, observed, outsideVars>>

MarkDelivered ==
  /\ wpc = "observed"
  /\ LET e == Head(todo) IN
     \/ Update(e, "delivered", view[e].attempts) /\ wpc' = "marked" /\ UNCHANGED faults
     \/ Fault /\ wpc' = "failed" /\ UNCHANGED view
  /\ UNCHANGED <<disk, backedOff, epc, todo, observed, outsideVars>>

MarkCommit ==
  /\ wpc = "marked"
  /\ \/ Commit /\ NextRow
     \/ CommitFails /\ wpc' = "failed" /\ UNCHANGED todo
  /\ UNCHANGED <<backedOff, epc, observed, outsideVars>>

(* Fault models of mark_retry: the dead letter comes one attempt early;    *)
(* the row is parked in a state that no fetch selects.                     *)
MarkRetryEarly ==
  /\ wpc = "failed" /\ wpc' = "retried"
  /\ LET e == Head(todo)
         n == view[e].attempts + 1
     IN /\ Update(e, IF n + 1 >= MaxAttempts THEN "dead_letter" ELSE "pending", n)
        /\ backedOff' = backedOff \union {e}
  /\ UNCHANGED <<todo, faults, disk, epc, observed, outsideVars>>

MarkRetryParks ==
  /\ wpc = "failed" /\ wpc' = "retried"
  /\ LET e == Head(todo)
     IN Update(e, "failed", view[e].attempts + 1) /\ backedOff' = backedOff \union {e}
  /\ UNCHANGED <<todo, faults, disk, epc, observed, outsideVars>>

(* mark_retry: its SELECT and UPDATE are one step here, only the worker    *)
(* writes attempts.                                                        *)
MarkRetry ==
  /\ wpc = "failed"
  /\ \/ LET e == Head(todo)
            n == view[e].attempts + 1
        IN /\ Update(e, IF n >= MaxAttempts THEN "dead_letter" ELSE "pending", n)
           /\ backedOff' = backedOff \union {e}
           /\ wpc' = "retried" /\ UNCHANGED <<todo, faults>>
     \/ Fault /\ AbandonBatch /\ UNCHANGED <<view, backedOff>>
  /\ UNCHANGED <<disk, epc, observed, outsideVars>>

RetryCommit ==
  /\ wpc = "retried"
  /\ \/ Commit /\ NextRow
     \/ CommitFails /\ AbandonBatch
  /\ UNCHANGED <<backedOff, epc, observed, outsideVars>>

(* The back-off of e has passed.                                           *)
BackoffOver(e) ==
  /\ e \in backedOff
  /\ backedOff' = backedOff \ {e}
  /\ UNCHANGED <<view, disk, epc, wpc, todo, observed, faults, outsideVars>>

-----------------------------------------------------------------------------
(* cleanup_delivered deletes the rows delivered long enough ago.  Its loop *)
(* looks at _draining before it sleeps, so it may still delete while the   *)
(* worker drains; stop() cancels it after the worker.                      *)
Cleanup ==
  /\ wpc # "stopped"
  /\ \E S \in SUBSET {e \in Events : view[e].state = "delivered"} :
       S # {} /\ view' = [e \in Events |-> IF e \in S THEN Absent ELSE view[e]]
  /\ UNCHANGED <<disk, backedOff, epc, wpc, todo, observed, faults, outsideVars>>

(* Cleanup's own commit, or that of any other user of the connection.      *)
OtherCommit ==
  /\ view # disk
  /\ Commit
  /\ UNCHANGED <<backedOff, epc, wpc, todo, observed, outsideVars>>

StopServer ==
  /\ ~draining
  /\ draining' = TRUE
  /\ UNCHANGED <<view, disk, backedOff, epc, wpc, todo, observed, mishapsObserved, faults,
                 workerCancels, restarts>>

(* The pipeline may have taken in the event in hand when it is cut off.    *)
CutOff ==
  /\ wpc' = "stopped" /\ todo' = <<>>
  /\ \/ UNCHANGED observed
     \/ wpc = "deliver" /\ Observes(Head(todo))

(* stop() gives the worker 5 s and then cancels it wherever it is.         *)
CancelWorker ==
  /\ draining /\ wpc # "stopped"
  /\ workerCancels' = workerCancels + 1
  /\ CutOff
  /\ UNCHANGED <<view, disk, backedOff, epc, draining, mishapsObserved, faults, restarts>>

(* The process dies, cutting every handler off.                            *)
OutboxCrash ==
  /\ Mishap
  /\ restarts' = restarts + 1
  /\ \/ UNCHANGED observed
     \/ wpc = "deliver" /\ Observes(Head(todo))
  /\ view' = disk
  /\ epc' = [e \in Events |-> IF epc[e] \in {"inserted", "failed"} THEN "dropped" ELSE epc[e]]
  /\ wpc' = "fetch" /\ todo' = <<>> /\ draining' = FALSE
  /\ UNCHANGED <<disk, backedOff, mishapsObserved, faults, workerCancels>>

Worker == Fetch \/ Exit \/ Pipeline \/ MarkDelivered \/ MarkCommit \/ MarkRetry \/ RetryCommit

OutboxNext ==
  \/ \E e \in Events : OutboxInsert(e) \/ InsertCommit(e) \/ Rollback(e) \/ BackoffOver(e)
  \/ Worker
  \/ Cleanup \/ OtherCommit \/ StopServer \/ CancelWorker \/ OutboxCrash

-----------------------------------------------------------------------------
OutboxTypeOK ==
  /\ view \in [Events -> Row] /\ disk \in [Events -> Row]
  /\ backedOff \subseteq Events
  /\ epc \in [Events -> {"new", "inserted", "failed", "stored", "dropped"}]
  /\ wpc \in {"fetch", "deliver", "observed", "marked", "failed", "retried", "stopped"}
  /\ todo \in Seq(Events)
  /\ (todo = <<>>) <=> (wpc \in {"fetch", "stopped"})
  /\ draining \in BOOLEAN
  /\ observed \in [Events -> Nat]
  /\ mishapsObserved \in Nat /\ faults \in Nat /\ workerCancels \in Nat /\ restarts \in Nat

(* An event whose enqueue() reported success waits on disk, was taken in   *)
(* by the observer, or was given up after the full number of attempts:     *)
(* whatever crashes, is cancelled or raises in the pipeline.               *)
Kept(e) ==
  \/ disk[e].state = "pending"
  \/ observed[e] > 0
  \/ disk[e].state = "dead_letter" /\ disk[e].attempts = MaxAttempts

(* It holds as long as SQLite does not fail.                               *)
StoredIsKept == faults = 0 => \A e \in Events : epc[e] = "stored" => Kept(e)

(* The observer sees an event again only because something went wrong:     *)
(* every failure, cancellation or crash accounts for at most one duplicate *)
(* of an event, an SQLite error for two (a commit that fails may roll the  *)
(* worker's mark back, and enqueue() then rolls back once more).           *)
DuplicatesBounded ==
  \A e \in Events : observed[e] <= 1 + mishapsObserved + 2 * faults + workerCancels + restarts

(* Stored events are kept until they are settled, and repeated no more     *)
(* often than something went wrong.                                        *)
OutboxSound == StoredIsKept /\ DuplicatesBounded

(* As long as SQLite does not fail, a delivered row is only ever deleted   *)
(* and a dead letter stays what it is: neither is delivered again, even by *)
(* a batch fetched before.                                                 *)
SettledIsFinal ==
  [][faults' = 0 =>
       \A e \in Events :
         /\ disk[e].state = "dead_letter" => disk'[e] = disk[e]
         /\ disk[e].state = "delivered" => disk'[e].state \in {"delivered", "absent"}]_disk

(* Every event on disk is taken in by the observer or becomes a dead       *)
(* letter, if the gateway is not being stopped: no failing neighbour in    *)
(* its batch, crash or SQLite error keeps it waiting for ever.  (The mark  *)
(* of a dead letter may itself wait in the open transaction for a commit.) *)
EventuallySettled ==
  \A e \in Events :
    (disk[e].state = "pending")
      ~> (observed[e] > 0 \/ view[e].state = "dead_letter" \/ draining)
=============================================================================
