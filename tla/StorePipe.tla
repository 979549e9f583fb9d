----------------------------- MODULE StorePipe -----------------------------
(***************************************************************************)
(* The write-behind path of the memory store: DatabaseManager's queue, its *)
(* background worker, flush() and stop(), PersistenceLayer.sync(), the     *)
(* dissolver's eviction and the consolidation worker's urgency flush that  *)
(* rely on them, all interleaved at the awaits of one asyncio event loop   *)
(* and sharing one aiosqlite connection.                                   *)
(*                                                                         *)
(* A write is a session and the object that was queued for it.  Every      *)
(* observation of a session builds a new object, so objects are numbered   *)
(* in the order in which they were built; the queue holds references, so   *)
(* an object that is changed in place while it is queued stays the same    *)
(* write.                                                                  *)
(***************************************************************************)
EXTENDS Integers, Sequences, FiniteSets

CONSTANTS
  Sessions,     (* session ids                                             *)
  Flushers,     (* coroutines that may call flush(): dissolver, backup,    *)
                (* consolidation, admin tool, signal handler               *)
  Syncers,      (* coroutines that may call sync()                         *)
  Stop,         (* the sentinel None that stop() puts on the queue         *)
  NoWrite,      (* a flush() call that is not an urgency flush             *)
  BatchSize,    (* config.batch_flush_size                                 *)
  MaxWrites,    (* bound: objects built in a behaviour                     *)
  MaxRequeues,  (* bound: times an object is queued again                  *)
  MaxFaults,    (* bound: SQLite errors                                    *)
  MaxRestarts   (* bound: crashes or exits followed by a restart           *)

Versions == 1..MaxWrites
Writes == [sid : Sessions, ver : Versions]

ASSUME BatchSizeAssumption == BatchSize \in Nat \ {0}
ASSUME SentinelAssumption  == Stop \notin Writes /\ NoWrite \notin Writes
ASSUME BoundsAssumption ==
  /\ MaxWrites \in Nat
  /\ MaxRequeues \in Nat
  /\ MaxFaults \in Nat
  /\ MaxRestarts \in Nat

VARIABLES
  ram,          (* ram_index: the object a session has in RAM, 0 if none   *)
  queue,        (* DatabaseManager.queue                                   *)
  unfinished,   (* the queue's count of items without a task_done()        *)
  wpc,          (* where the worker task is: get, exec or exited           *)
  batch,        (* the worker's local batch                                *)
  wpos,         (* the item of batch the worker executes next              *)
  closing,      (* the worker took the sentinel and flushes for it         *)
  fpc,          (* where each flush() call is: idle, exec or done          *)
  fbatch,       (* the batch each flush() call drained                     *)
  fpos,         (* the item of fbatch it executes next                     *)
  goal,         (* the write an urgency flush has to see on disk           *)
  stopper,      (* stop(): running (not called), waiting or stopped        *)
  joiner,       (* where each sync() call is: idle, joining or drained     *)
  rows,         (* sessions table as the connection sees it: object per row*)
  disk,         (* sessions table as last committed                        *)
  dirty,        (* writes executed in the open transaction                 *)
  accepted,     (* history: writes queued in this process or on disk       *)
  committed,    (* history: writes that a commit has covered               *)
  lost,         (* history: writes given up and logged, or raised, as an   *)
                (* error                                                   *)
  undone,       (* history: writes that somebody else's rollback undid     *)
  stopOwed,     (* history: writes accepted when stop() was called         *)
  joinOwed,     (* history: writes accepted when sync() was called         *)
  built, requeues, faults, restarts  (* counters that bound a behaviour    *)

workerVars  == <<wpc, batch, wpos, closing>>
flushVars   == <<fpc, fbatch, fpos, goal>>
dbVars      == <<rows, disk, dirty, committed, lost, undone, faults>>
callerVars  == <<ram, accepted, built, requeues>>
stopVars    == <<stopper, stopOwed>>
vars == <<ram, queue, unfinished, wpc, batch, wpos, closing, fpc, fbatch, fpos,
          goal, stopper, joiner, rows, disk, dirty, accepted, committed, lost,
          undone, stopOwed, joinOwed, built, requeues, faults, restarts>>

(* The writes at or after position p of batch b.                           *)
From(b, p) == {b[i] : i \in p..Len(b)}

Init ==
  /\ ram = [s \in Sessions |-> 0]
  /\ queue = <<>> /\ unfinished = 0
  /\ wpc = "get" /\ batch = <<>> /\ wpos = 1 /\ closing = FALSE
  /\ fpc = [f \in Flushers |-> "idle"]
  /\ fbatch = [f \in Flushers |-> <<>>]
  /\ fpos = [f \in Flushers |-> 1]
  /\ goal = [f \in Flushers |-> NoWrite]
  /\ stopper = "running"
  /\ joiner = [c \in Syncers |-> "idle"]
  /\ rows = [s \in Sessions |-> 0]
  /\ disk = [s \in Sessions |-> 0]
  /\ dirty = {}
  /\ accepted = {} /\ committed = {} /\ lost = {} /\ undone = {}
  /\ stopOwed = {}
  /\ joinOwed = [c \in Syncers |-> {}]
  /\ built = 0 /\ requeues = 0 /\ faults = 0 /\ restarts = 0

-----------------------------------------------------------------------------
(* The queue's unfinished count becomes n: at 0 it wakes every join().     *)
SetUnfinished(n) ==
  /\ unfinished' = n
  /\ joiner' = [c \in Syncers |->
                  IF n = 0 /\ joiner[c] = "joining" THEN "drained" ELSE joiner[c]]

(* queue_write: put_nowait on an unbounded queue, which never fails.  It   *)
(* does not look at _running, so it also accepts writes after stop().      *)
QueueWrite(w) ==
  /\ queue' = Append(queue, w)
  /\ SetUnfinished(unfinished + 1)
  /\ accepted' = accepted \union {w}

(* An observation builds a new object for s, stores it and queues it.      *)
Observe(s) ==
  /\ built < MaxWrites
  /\ built' = built + 1
  /\ ram' = [ram EXCEPT ![s] = built + 1]
  /\ QueueWrite([sid |-> s, ver |-> built + 1])
  /\ UNCHANGED <<workerVars, flushVars, dbVars, stopVars, joinOwed, requeues, restarts>>

(* Consolidation queues the object that RAM holds once more.               *)
Requeue(s) ==
  /\ ram[s] # 0 /\ requeues < MaxRequeues
  /\ requeues' = requeues + 1
  /\ QueueWrite([sid |-> s, ver |-> ram[s]])
  /\ UNCHANGED <<workerVars, flushVars, dbVars, stopVars, ram, joinOwed, built, restarts>>

-----------------------------------------------------------------------------
(* A statement fails, or preparing it does; the writes given are given up. *)
Raise(given) ==
  /\ faults < MaxFaults
  /\ faults' = faults + 1
  /\ lost' = lost \union given
  /\ UNCHANGED <<rows, disk, dirty, committed, undone>>

(* Fault model: an autocommit connection, each statement durable at once.  *)
ExecUpsertAutocommit(w) ==
  /\ rows' = [rows EXCEPT ![w.sid] = w.ver]
  /\ disk' = [disk EXCEPT ![w.sid] = w.ver]
  /\ dirty' = dirty \union {w}
  /\ UNCHANGED <<committed, lost, undone, faults>>

(* Statements on the shared connection.  The first statement opens a       *)
(* transaction; whoever commits, commits what everyone has executed.       *)
ExecUpsert(w) ==
  \/ /\ rows' = [rows EXCEPT ![w.sid] = w.ver]
     /\ dirty' = dirty \union {w}
     /\ UNCHANGED <<disk, committed, lost, undone, faults>>
  \/ Raise({w})                     \* aiosqlite.Error: logged, next item

Commit ==
  /\ disk' = rows
  /\ committed' = committed \union dirty
  /\ dirty' = {}
  /\ UNCHANGED <<rows, lost, undone, faults>>

(* A commit that raises leaves the transaction open (SQLITE_BUSY) or has   *)
(* rolled it back (SQLITE_FULL, SQLITE_IOERR).  retried: the writes that   *)
(* the caller keeps for another attempt.                                   *)
CommitFails(retried) ==
  /\ faults < MaxFaults
  /\ faults' = faults + 1
  /\ \/ UNCHANGED <<rows, dirty, lost>>
     \/ rows' = disk /\ dirty' = {} /\ lost' = lost \union (dirty \ retried)
  /\ UNCHANGED <<disk, committed, undone>>

(* Anchors, experience, chunk vectors, the gateway's outbox and others     *)
(* write and commit on the same connection; the outbox also rolls back     *)
(* when an insert of its own fails.                                        *)
OtherCommit ==
  /\ dirty # {}
  /\ Commit
  /\ UNCHANGED <<queue, unfinished, joiner, workerVars, flushVars, callerVars,
                 stopVars, joinOwed, restarts>>

OtherRollback ==
  /\ faults < MaxFaults
  /\ faults' = faults + 1
  /\ rows' = disk /\ dirty' = {}
  /\ undone' = undone \union dirty
  /\ UNCHANGED <<disk, committed, lost, queue, unfinished, joiner, workerVars,
                 flushVars, callerVars, stopVars, joinOwed, restarts>>

-----------------------------------------------------------------------------
(* The worker takes an item and calls task_done() at once: from here on    *)
(* only its local batch holds the write.  It flushes when the batch is     *)
(* full or the flush interval has elapsed, which may be at any item.       *)
WorkerTake ==
  /\ wpc = "get" /\ queue # <<>> /\ Head(queue) # Stop
  /\ queue' = Tail(queue)
  /\ SetUnfinished(unfinished - 1)
  /\ batch' = Append(batch, Head(queue))
  /\ wpc' \in IF Len(batch) + 1 >= BatchSize THEN {"exec"} ELSE {"get", "exec"}
  /\ UNCHANGED <<wpos, closing, flushVars, dbVars, callerVars, stopVars, joinOwed, restarts>>

(* Fault model: only a full batch is flushed when nothing arrives.         *)
WorkerTimeoutWhenFull ==
  /\ wpc = "get" /\ queue = <<>> /\ Len(batch) >= BatchSize
  /\ wpc' = "exec"
  /\ UNCHANGED <<queue, unfinished, joiner, batch, wpos, closing, flushVars, dbVars,
                 callerVars, stopVars, joinOwed, restarts>>

(* Nothing arrived for a whole interval.                                   *)
WorkerTimeout ==
  /\ wpc = "get" /\ queue = <<>> /\ batch # <<>>
  /\ wpc' = "exec"
  /\ UNCHANGED <<queue, unfinished, joiner, batch, wpos, closing, flushVars, dbVars,
                 callerVars, stopVars, joinOwed, restarts>>

(* Fault models of the sentinel: the worker returns without its last       *)
(* flush; it reports task_done() before that flush; it does not return     *)
(* when it has nothing to flush.                                           *)
WorkerTakeStopNoFlush ==
  /\ wpc = "get" /\ queue # <<>> /\ Head(queue) = Stop
  /\ queue' = Tail(queue)
  /\ wpc' = "exited" /\ closing' = FALSE /\ SetUnfinished(unfinished - 1)
  /\ UNCHANGED <<batch, wpos, flushVars, dbVars, callerVars, stopVars, joinOwed, restarts>>

WorkerTakeStopDoneFirst ==
  /\ wpc = "get" /\ queue # <<>> /\ Head(queue) = Stop
  /\ queue' = Tail(queue)
  /\ SetUnfinished(unfinished - 1)
  /\ IF batch = <<>> THEN wpc' = "exited" /\ closing' = FALSE
                     ELSE wpc' = "exec" /\ closing' = TRUE
  /\ UNCHANGED <<batch, wpos, flushVars, dbVars, callerVars, stopVars, joinOwed, restarts>>

WorkerTakeStopGoesOn ==
  /\ wpc = "get" /\ queue # <<>> /\ Head(queue) = Stop
  /\ queue' = Tail(queue)
  /\ IF batch = <<>>
     THEN UNCHANGED <<wpc, closing>> /\ SetUnfinished(unfinished - 1)
     ELSE wpc' = "exec" /\ closing' = TRUE /\ UNCHANGED <<unfinished, joiner>>
  /\ UNCHANGED <<batch, wpos, flushVars, dbVars, callerVars, stopVars, joinOwed, restarts>>

(* The sentinel: task_done() comes only after the last flush.              *)
WorkerTakeStop ==
  /\ wpc = "get" /\ queue # <<>> /\ Head(queue) = Stop
  /\ queue' = Tail(queue)
  /\ IF batch = <<>>
     THEN wpc' = "exited" /\ closing' = FALSE /\ SetUnfinished(unfinished - 1)
     ELSE wpc' = "exec" /\ closing' = TRUE /\ UNCHANGED <<unfinished, joiner>>
  /\ UNCHANGED <<batch, wpos, flushVars, dbVars, callerVars, stopVars, joinOwed, restarts>>

WorkerExec ==
  /\ wpc = "exec" /\ wpos <= Len(batch)
  /\ ExecUpsert(batch[wpos])
  /\ wpos' = wpos + 1
  /\ UNCHANGED <<queue, unfinished, joiner, wpc, batch, closing, flushVars,
                 callerVars, stopVars, joinOwed, restarts>>

(* Fault model: task_done() once more after every flush.                   *)
WorkerCommitDoneTwice ==
  /\ wpc = "exec" /\ wpos = Len(batch) + 1
  /\ Commit
  /\ batch' = <<>> /\ wpos' = 1 /\ closing' = FALSE
  /\ wpc' = IF closing THEN "exited" ELSE "get"
  /\ SetUnfinished(unfinished - 1)
  /\ UNCHANGED <<queue, flushVars, callerVars, stopVars, joinOwed, restarts>>

WorkerCommit ==
  /\ wpc = "exec" /\ wpos = Len(batch) + 1
  /\ Commit
  /\ batch' = <<>> /\ wpos' = 1 /\ closing' = FALSE
  /\ IF closing THEN wpc' = "exited" /\ SetUnfinished(unfinished - 1)
                ELSE wpc' = "get" /\ UNCHANGED <<unfinished, joiner>>
  /\ UNCHANGED <<queue, flushVars, callerVars, stopVars, joinOwed, restarts>>

(* Fault models of a failed commit: the batch is cleared like after a good *)
(* one; the batch goes back to the end of the queue.                       *)
WorkerCommitFailsClears ==
  /\ wpc = "exec" /\ wpos = Len(batch) + 1
  /\ CommitFails(From(batch, 1))
  /\ wpc' = "get" /\ batch' = <<>> /\ wpos' = 1 /\ closing' = FALSE
  /\ UNCHANGED <<queue, unfinished, joiner, flushVars, callerVars, stopVars,
                 joinOwed, restarts>>

WorkerCommitFailsRequeues ==
  /\ wpc = "exec" /\ wpos = Len(batch) + 1
  /\ CommitFails(From(batch, 1))
  /\ queue' = queue \o batch
  /\ SetUnfinished(unfinished + Len(batch))
  /\ wpc' = "get" /\ batch' = <<>> /\ wpos' = 1 /\ closing' = FALSE
  /\ UNCHANGED <<flushVars, callerVars, stopVars, joinOwed, restarts>>

(* The exception handlers of the loop log and go round again: the batch is *)
(* kept, but a sentinel that was being handled is gone.                    *)
WorkerCommitFails ==
  /\ wpc = "exec" /\ wpos = Len(batch) + 1
  /\ CommitFails(From(batch, 1))
  /\ wpc' = "get" /\ wpos' = 1 /\ closing' = FALSE
  /\ UNCHANGED <<queue, unfinished, joiner, batch, flushVars, callerVars, stopVars,
                 joinOwed, restarts>>

(* An item that is no valid row raises something other than an SQLite      *)
(* error: the batch is kept as well.                                       *)
WorkerRaises ==
  /\ wpc = "exec" /\ wpos <= Len(batch)
  /\ Raise({})
  /\ wpc' = "get" /\ wpos' = 1 /\ closing' = FALSE
  /\ UNCHANGED <<queue, unfinished, joiner, batch, flushVars, callerVars, stopVars,
                 joinOwed, restarts>>

-----------------------------------------------------------------------------
(* flush() drains a queue q up to the sentinel, which it puts back at the  *)
(* end: writes queued behind the sentinel come to stand before it.         *)
StopAt(q)  == {i \in DOMAIN q : q[i] = Stop}
FirstStop(q) == CHOOSE i \in StopAt(q) : \A j \in StopAt(q) : i <= j
Drained(q) == IF StopAt(q) = {} THEN q ELSE SubSeq(q, 1, FirstStop(q) - 1)
(* Fault model: what is queued behind the sentinel is dropped.             *)
LeftOnlyStop(q) == IF StopAt(q) = {} THEN <<>> ELSE <<Stop>>

Left(q)    == IF StopAt(q) = {} THEN <<>>
              ELSE Append(SubSeq(q, FirstStop(q) + 1, Len(q)), Stop)

(* The synchronous part of flush() on a queue q with n unfinished items.   *)
(* With nothing to write it returns without an await.                      *)
FlushStart(f, q, n, w) ==
  /\ queue' = Left(q)
  /\ SetUnfinished(n - Len(Drained(q)))
  /\ fbatch' = [fbatch EXCEPT ![f] = Drained(q)]
  /\ fpos' = [fpos EXCEPT ![f] = 1]
  /\ fpc' = [fpc EXCEPT ![f] = IF Drained(q) # <<>> THEN "exec"
                               ELSE IF w = NoWrite THEN "idle" ELSE "done"]
  /\ goal' = [goal EXCEPT ![f] = w]

(* The dissolver drops any sessions from RAM; other callers drop none.     *)
Evict ==
  \E S \in SUBSET {s \in Sessions : ram[s] # 0} :
    ram' = [s \in Sessions |-> IF s \in S THEN 0 ELSE ram[s]]

Flush(f) ==
  /\ fpc[f] = "idle"
  /\ FlushStart(f, queue, unfinished, NoWrite)
  /\ IF Drained(queue) = <<>> THEN Evict ELSE UNCHANGED ram
  /\ UNCHANGED <<workerVars, dbVars, accepted, built, requeues, stopVars, joinOwed, restarts>>

(* Consolidation finds an expired deadline: it queues the session and      *)
(* flushes without an await in between.                                    *)
UrgencyFlush(f, s) ==
  LET w == [sid |-> s, ver |-> ram[s]] IN
  /\ fpc[f] = "idle" /\ ram[s] # 0 /\ requeues < MaxRequeues
  /\ requeues' = requeues + 1
  /\ accepted' = accepted \union {w}
  /\ FlushStart(f, Append(queue, w), unfinished + 1, w)
  /\ UNCHANGED <<workerVars, dbVars, stopVars, ram, joinOwed, built, restarts>>

FlushExec(f) ==
  /\ fpc[f] = "exec" /\ fpos[f] <= Len(fbatch[f])
  /\ ExecUpsert(fbatch[f][fpos[f]])
  /\ fpos' = [fpos EXCEPT ![f] = @ + 1]
  /\ UNCHANGED <<queue, unfinished, joiner, workerVars, fpc, fbatch, goal,
                 callerVars, stopVars, joinOwed, restarts>>

(* Fault model: flush() leaves the commit to others.                       *)
FlushWithoutCommit(f) ==
  /\ fpc[f] = "exec" /\ fpos[f] = Len(fbatch[f]) + 1
  /\ fpc' = [fpc EXCEPT ![f] = "done"]
  /\ UNCHANGED <<queue, unfinished, joiner, workerVars, fbatch, fpos, goal, dbVars,
                 callerVars, stopVars, joinOwed, restarts>>

FlushCommit(f) ==
  /\ fpc[f] = "exec" /\ fpos[f] = Len(fbatch[f]) + 1
  /\ Commit
  /\ fpc' = [fpc EXCEPT ![f] = "done"]
  /\ UNCHANGED <<queue, unfinished, joiner, workerVars, fbatch, fpos, goal,
                 callerVars, stopVars, joinOwed, restarts>>

EndFlush(f) ==
  /\ fpc' = [fpc EXCEPT ![f] = "idle"]
  /\ fbatch' = [fbatch EXCEPT ![f] = <<>>]
  /\ fpos' = [fpos EXCEPT ![f] = 1]
  /\ goal' = [goal EXCEPT ![f] = NoWrite]

(* The commit's exception leaves flush(), and its batch with it.           *)
FlushCommitFails(f) ==
  /\ fpc[f] = "exec" /\ fpos[f] = Len(fbatch[f]) + 1
  /\ CommitFails({})
  /\ EndFlush(f)
  /\ UNCHANGED <<queue, unfinished, joiner, workerVars, callerVars, stopVars,
                 joinOwed, restarts>>

(* So does an exception raised by an item.                                 *)
FlushRaises(f) ==
  /\ fpc[f] = "exec" /\ fpos[f] <= Len(fbatch[f])
  /\ Raise(From(fbatch[f], fpos[f]))
  /\ EndFlush(f)
  /\ UNCHANGED <<queue, unfinished, joiner, workerVars, callerVars, stopVars,
                 joinOwed, restarts>>

(* The caller runs on: consolidation reads its row back, others may evict. *)
FlushDone(f) ==
  /\ fpc[f] = "done"
  /\ EndFlush(f)
  /\ IF goal[f] = NoWrite THEN Evict ELSE UNCHANGED ram
  /\ UNCHANGED <<queue, unfinished, joiner, workerVars, dbVars, stopVars,
                 joinOwed, accepted, built, requeues, restarts>>

-----------------------------------------------------------------------------
StopCall ==
  /\ stopper = "running"
  /\ queue' = Append(queue, Stop)
  /\ SetUnfinished(unfinished + 1)
  /\ stopper' = "waiting"
  /\ stopOwed' = accepted
  /\ UNCHANGED <<workerVars, flushVars, dbVars, callerVars, joinOwed, restarts>>

StopReturn ==
  /\ stopper = "waiting" /\ wpc = "exited"
  /\ stopper' = "stopped"
  /\ UNCHANGED <<queue, unfinished, joiner, workerVars, flushVars, dbVars,
                 callerVars, stopOwed, joinOwed, restarts>>

(* queue.join() returns at once when nothing is unfinished.                *)
SyncCall(c) ==
  /\ joiner[c] = "idle"
  /\ joiner' = [joiner EXCEPT ![c] = IF unfinished = 0 THEN "drained" ELSE "joining"]
  /\ joinOwed' = [joinOwed EXCEPT ![c] = accepted]
  /\ UNCHANGED <<queue, unfinished, workerVars, flushVars, dbVars, callerVars,
                 stopVars, restarts>>

(* sync() returns: after the join, or after its 10 s timeout, which is     *)
(* logged as a partial flush.                                              *)
SyncReturn(c) ==
  /\ joiner[c] \in {"joining", "drained"}
  /\ joiner' = [joiner EXCEPT ![c] = "idle"]
  /\ joinOwed' = [joinOwed EXCEPT ![c] = {}]
  /\ UNCHANGED <<queue, unfinished, workerVars, flushVars, dbVars, callerVars,
                 stopVars, restarts>>

(* The process dies, or exits after stop(), and starts again: all it held  *)
(* in memory and in the open transaction is gone, RAM is read from disk.   *)
Restart ==
  /\ restarts < MaxRestarts
  /\ restarts' = restarts + 1
  /\ ram' = disk /\ rows' = disk /\ dirty' = {}
  /\ queue' = <<>> /\ unfinished' = 0
  /\ wpc' = "get" /\ batch' = <<>> /\ wpos' = 1 /\ closing' = FALSE
  /\ fpc' = [f \in Flushers |-> "idle"]
  /\ fbatch' = [f \in Flushers |-> <<>>]
  /\ fpos' = [f \in Flushers |-> 1]
  /\ goal' = [f \in Flushers |-> NoWrite]
  /\ stopper' = "running" /\ stopOwed' = {}
  /\ joiner' = [c \in Syncers |-> "idle"]
  /\ joinOwed' = [c \in Syncers |-> {}]
  /\ accepted' = committed
  /\ UNCHANGED <<disk, committed, lost, undone, built, requeues, faults>>

Worker == WorkerTake \/ WorkerTimeout \/ WorkerTakeStop \/ WorkerExec
          \/ WorkerCommit \/ WorkerCommitFails \/ WorkerRaises
FlushStep(f) == FlushExec(f) \/ FlushCommit(f) \/ FlushCommitFails(f) \/ FlushRaises(f)
                \/ FlushDone(f)

Next ==
  \/ \E s \in Sessions : Observe(s) \/ Requeue(s)
  \/ Worker
  \/ \E f \in Flushers : \/ Flush(f) \/ FlushStep(f)
                         \/ \E s \in Sessions : UrgencyFlush(f, s)
  \/ StopCall \/ StopReturn \/ OtherCommit \/ OtherRollback
  \/ \E c \in Syncers : SyncCall(c) \/ SyncReturn(c)
  \/ Restart

Spec == Init /\ [][Next]_vars

(* The event loop keeps running the worker and every flush() in progress;  *)
(* nobody is obliged to observe, flush, stop or sync.                      *)
Fairness ==
  /\ WF_vars(Worker)
  /\ WF_vars(StopReturn)
  /\ \A f \in Flushers : WF_vars(FlushStep(f))

FairSpec == Spec /\ Fairness

-----------------------------------------------------------------------------
(* Every variable has its type; the worker's position never passes the end *)
(* of its batch by more than one.                                          *)
TypeOK ==
  /\ ram \in [Sessions -> {0} \union Versions]
  /\ rows \in [Sessions -> {0} \union Versions] /\ disk \in [Sessions -> {0} \union Versions]
  /\ queue \in Seq(Writes \union {Stop}) /\ unfinished \in Nat
  /\ wpc \in {"get", "exec", "exited"} /\ closing \in BOOLEAN
  /\ batch \in Seq(Writes) /\ wpos \in 1..(Len(batch) + 1)
  /\ fpc \in [Flushers -> {"idle", "exec", "done"}]
  /\ fbatch \in [Flushers -> Seq(Writes)]
  /\ fpos \in [Flushers -> Nat \ {0}]
  /\ goal \in [Flushers -> Writes \union {NoWrite}]
  /\ stopper \in {"running", "waiting", "stopped"}
  /\ joiner \in [Syncers -> {"idle", "joining", "drained"}]
  /\ dirty \subseteq Writes /\ accepted \subseteq Writes
  /\ committed \subseteq Writes /\ lost \subseteq Writes /\ undone \subseteq Writes
  /\ stopOwed \subseteq Writes
  /\ joinOwed \in [Syncers -> SUBSET Writes]
  /\ built \in 0..MaxWrites /\ requeues \in Nat /\ faults \in Nat /\ restarts \in Nat

(* The writes somebody still has to execute.                               *)
Carried ==
  (From(queue, 1) \ {Stop}) \union From(batch, wpos)
     \union UNION {From(fbatch[f], fpos[f]) : f \in Flushers}

(* Within one process life a write that queue_write accepted is committed, *)
(* executed in the open transaction, still held by the queue, the worker   *)
(* or a flush() call, or was given up with an error: no hand-over between  *)
(* them drops one.  What is left is a rollback by somebody else.           *)
NoSilentLoss ==
  accepted \subseteq committed \union dirty \union lost \union undone \union Carried

(* task_done() never runs ahead of the queue: join() cannot return while   *)
(* an item is queued or the sentinel's flush is running.                   *)
JoinCounterSound == unfinished >= Len(queue) + (IF closing THEN 1 ELSE 0)

(* A flush() call's batch: empty between calls, executed to its end when   *)
(* the call is done.                                                       *)
FlushBatches ==
  \A f \in Flushers :
    /\ fpos[f] \in 1..(Len(fbatch[f]) + 1)
    /\ fpc[f] = "idle" => fbatch[f] = <<>>
    /\ fpc[f] = "done" => fpos[f] = Len(fbatch[f]) + 1

(* The inductive invariant behind NoSilentLoss and JoinCounterSound: the   *)
(* count stays a natural number only because it covers the queue and the   *)
(* sentinel, and a batch may be dropped only where it has been executed.   *)
PipeInv ==
  /\ TypeOK
  /\ FlushBatches
  /\ closing => wpc = "exec"
  /\ JoinCounterSound
  /\ NoSilentLoss

(* When stop() has returned and SQLite has not failed, every write         *)
(* accepted before it was called is on disk or in the hands of a flush()   *)
(* call that is still running.                                             *)
StopDrains ==
  (stopper = "stopped" /\ faults = 0) =>
    stopOwed \subseteq
      committed \union UNION {From(fbatch[f], 1) : f \in {g \in Flushers : fpc[g] = "exec"}}

(* What sync() can count on when queue.join() has returned: no write it    *)
(* was called for is still waiting in the queue.  It may not be on disk:   *)
(* the worker or a flush() call may hold it.                               *)
SyncEmptiesQueue ==
  \A c \in Syncers :
    joiner[c] = "drained" =>
      joinOwed[c] \subseteq committed \union dirty \union lost \union undone
        \union From(batch, wpos) \union UNION {From(fbatch[f], fpos[f]) : f \in Flushers}

(* An urgency flush that ends commits the write it was called for, unless  *)
(* its statement failed, somebody else's failure rolled it back (then it   *)
(* is undone, or the worker holds it for another attempt), or a stop() is  *)
(* under way (the drain ends at the sentinel).                             *)
FlushCoversOwn ==
  \A f \in Flushers :
    (fpc[f] = "done" /\ goal[f] # NoWrite /\ stopper = "running")
      => goal[f] \in committed \union lost \union undone \union From(batch, 1)

(* What the store promises its callers: stop() drains, sync() empties the  *)
(* queue, and an urgency flush covers the write it was called for.         *)
PromisesKept == StopDrains /\ SyncEmptiesQueue /\ FlushCoversOwn

(* Within a process life the worker alone leaves the newest object of a    *)
(* session on disk once it has nothing left to write, whatever commit      *)
(* failed before and was tried again.                                      *)
NewestWins ==
  (queue = <<>> /\ batch = <<>> /\ lost \union undone = {})
    => \A w \in accepted : disk[w.sid] >= w.ver

(* stop() returns.                                                         *)
StopReturns == (stopper = "waiting") ~> (stopper = "stopped")

(* A write accepted while the worker lives reaches the disk or the error   *)
(* log: no item waits for another one to arrive.                           *)
EventuallyDurable ==
  \A w \in Writes :
    (w \in accepted)
      ~> (w \in committed \union lost \/ wpc = "exited")

(* The pipe is a write-behind store: only accepted writes become durable,  *)
(* a commit makes a whole set of them durable and gives each row one of    *)
(* its own, and a restart forgets exactly what is not durable.             *)
Abstract == INSTANCE WriteBehind WITH durable <- committed, failed <- lost, row <- disk
ImplementsWriteBehind == Abstract!Spec

-----------------------------------------------------------------------------
(* What comments, docstrings and an assertion of the code claim, and its   *)
(* behaviour does not keep.                                                *)

(* memory/dissolver.py: "flush pending writes before eviction - guarantee  *)
(* SQLite persistence".  A session that is not in RAM has its newest       *)
(* accepted object on disk (asked here only while no stop() runs).         *)
EvictedIsDurable ==
  \A w \in accepted :
    (ram[w.sid] = 0 /\ stopper = "running") => disk[w.sid] >= w.ver
=============================================================================
