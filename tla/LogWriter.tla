------------------------------- MODULE LogWriter ------------------------------
(* The writer of logs.db (storage/log_writer.py): a bounded queue, a loop  *)
(* that writes batches, and a stop() that lets the loop finish and cancels *)
(* it after five seconds.  Entries are numbers, in the order of the calls. *)
EXTENDS Naturals, Sequences, SequencesExt, FiniteSetsExt

CONSTANTS
  QueueSize, BatchSize,     \* 1000 and 100
  MaxEntries, MaxLogFaults  \* bounds: entries, errors of SQLite

ASSUME LogWriterAssumption ==
  {QueueSize, BatchSize, MaxEntries} \subseteq Nat \ {0} /\ MaxLogFaults \in Nat

VARIABLES
  logged,   \* entries that log_nowait has been called with
  refused,  \* those dropped because the queue was full
  pipe,     \* queue
  batch,    \* batch of the loop
  txn,      \* inserted and not committed
  logRows,  \* onnx_logs
  loop,     \* where _flush_loop is
  writer,   \* "runs", "stops" while stop() waits, "closed"
  spoiled,  \* an error, the cancellation of the loop or the end of the process
  logFaults

logVars == <<logged, refused, pipe, batch, txn, logRows, loop, writer, spoiled, logFaults>>

LogInit ==
  /\ logged = 0 /\ refused = {} /\ pipe = <<>> /\ batch = <<>> /\ txn = <<>> /\ logRows = <<>>
  /\ loop = "get" /\ writer = "runs" /\ spoiled = FALSE /\ logFaults = 0

LogNowait ==
  /\ writer = "runs" /\ logged < MaxEntries /\ logged' = logged + 1
  /\ IF Len(pipe) < QueueSize THEN pipe' = Append(pipe, logged') /\ UNCHANGED refused
     ELSE refused' = refused \union {logged'} /\ UNCHANGED pipe
  /\ UNCHANGED <<batch, txn, logRows, loop, writer, spoiled, logFaults>>

-----------------------------------------------------------------------------
LoopTakes ==
  LET n == Min({BatchSize, Len(pipe)}) IN
  /\ loop = "get" /\ pipe # <<>> /\ loop' = "insert"
  /\ batch' = SubSeq(pipe, 1, n) /\ pipe' = SubSeq(pipe, n + 1, Len(pipe))
  /\ UNCHANGED <<logged, refused, txn, logRows, writer, spoiled, logFaults>>

(* Two seconds without an entry: the loop ends when stop() was called.     *)
LoopTimesOut ==
  /\ loop = "get" /\ pipe = <<>> /\ writer = "stops" /\ loop' = "ended"
  /\ UNCHANGED <<logged, refused, pipe, batch, txn, logRows, writer, spoiled, logFaults>>

LoopInserts ==
  /\ loop = "insert" /\ loop' = "commit" /\ txn' = txn \o batch
  /\ UNCHANGED <<logged, refused, pipe, batch, logRows, writer, spoiled, logFaults>>

(* After a batch the loop ends when stop() was called and nothing is left. *)
GoesOnUnlessStopped == IF writer = "runs" THEN "get" ELSE "ended"

GoesOn == IF writer = "runs" \/ pipe # <<>> THEN "get" ELSE "ended"

LoopCommits ==
  /\ loop = "commit" /\ loop' = GoesOn
  /\ logRows' = logRows \o txn /\ txn' = <<>> /\ batch' = <<>>
  /\ UNCHANGED <<logged, refused, pipe, writer, spoiled, logFaults>>

(* An error is reported and slept off; the batch is not tried again.  What *)
(* was inserted before it stays in the open transaction.                   *)
LoopFails ==
  /\ logFaults < MaxLogFaults /\ logFaults' = logFaults + 1 /\ spoiled' = TRUE
  /\ \/ loop = "insert" /\ \E n \in 0..(Len(batch) - 1) : txn' = txn \o SubSeq(batch, 1, n)
     \/ loop = "commit" /\ UNCHANGED txn
  /\ loop' = "sleep" /\ batch' = <<>>
  /\ UNCHANGED <<logged, refused, pipe, logRows, writer>>

LoopWakes ==
  /\ loop = "sleep" /\ loop' = "get"
  /\ UNCHANGED <<logged, refused, pipe, batch, txn, logRows, writer, spoiled, logFaults>>

-----------------------------------------------------------------------------
StopCalled ==
  /\ writer = "runs" /\ writer' = "stops"
  /\ UNCHANGED <<logged, refused, pipe, batch, txn, logRows, loop, spoiled, logFaults>>

(* wait_for's five seconds are over.  What was submitted to the connection *)
(* is carried out all the same, but an insert is not followed by a commit; *)
(* a loop that sleeps off an error ends without draining the queue.        *)
StopCancels ==
  /\ writer = "stops" /\ loop \in {"get", "insert", "commit", "sleep"} /\ spoiled' = TRUE
  /\ loop' = IF loop = "sleep" \/ pipe = <<>> THEN "ended" ELSE "drain"
  /\ txn' = CASE loop = "insert" -> txn \o batch [] loop = "commit" -> <<>> [] OTHER -> txn
  /\ logRows' = IF loop = "commit" THEN logRows \o txn ELSE logRows
  /\ batch' = <<>> /\ UNCHANGED <<logged, refused, pipe, writer, logFaults>>

(* _drain_remaining: one insert of all that is left, and its commit.       *)
Drains ==
  /\ loop = "drain" /\ loop' = "ended" /\ pipe' = <<>>
  /\ \/ logRows' = logRows \o txn \o pipe /\ txn' = <<>> /\ UNCHANGED logFaults
     \/ logFaults < MaxLogFaults /\ logFaults' = logFaults + 1 /\ UNCHANGED <<txn, logRows>>
  /\ UNCHANGED <<logged, refused, batch, writer, spoiled>>

(* close() rolls an open transaction back.                                 *)
Closes ==
  /\ writer = "stops" /\ loop = "ended" /\ writer' = "closed" /\ txn' = <<>>
  /\ UNCHANGED <<logged, refused, pipe, batch, logRows, loop, spoiled, logFaults>>

LogDies ==
  /\ writer # "closed" /\ writer' = "closed" /\ loop' = "ended" /\ spoiled' = TRUE
  /\ pipe' = <<>> /\ batch' = <<>> /\ txn' = <<>>
  /\ UNCHANGED <<logged, refused, logRows, logFaults>>

LogLoop ==
  LoopTakes \/ LoopTimesOut \/ LoopInserts \/ LoopCommits \/ LoopFails \/ LoopWakes \/ Drains \/ Closes
LogNext == LogNowait \/ LogLoop \/ StopCalled \/ StopCancels \/ LogDies

-----------------------------------------------------------------------------
LogTypeOK ==
  /\ logged \in 0..MaxEntries /\ refused \subseteq 1..logged /\ Len(pipe) <= QueueSize
  /\ ToSet(pipe \o batch \o txn \o logRows) \subseteq 1..logged /\ Len(batch) <= BatchSize
  /\ writer \in {"runs", "stops", "closed"} /\ logFaults \in 0..MaxLogFaults

(* The log keeps the order of the calls and has no entry twice, and a      *)
(* stop() that was neither disturbed nor cut short has written every entry *)
(* that log_nowait accepted.                                               *)
LogsSound ==
  /\ \A j, k \in DOMAIN logRows : j < k => logRows[j] < logRows[k]
  /\ writer = "closed" /\ ~spoiled => ToSet(logRows) \union refused = 1..logged

(* stop() comes to its end, whatever it finds.                             *)
LogStopEnds == writer = "stops" ~> writer = "closed"
=============================================================================
