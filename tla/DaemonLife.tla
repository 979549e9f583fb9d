----------------------------- MODULE DaemonLife -----------------------------
(* The life of one Conductor (conductor.py) in either of its hosts: the    *)
(* daemon's main coroutine (cli/commands.py _run_daemon, core/bootstrap,   *)
(* core/lifecycle, core/monitoring) and the in-process MCP server          *)
(* (integration/mcp_server.py main).  It has the durable observe outbox    *)
(* (storage/persistence.py) with its worker, observations that come over   *)
(* a tool call, and what every way to end does to work in RAM.             *)
(*                                                                         *)
(* A pipeline is a number in flight, the write queue a set (StorePipe and  *)
(* SessionIndex have their insides); a row's insert or update is one step  *)
(* with its commit (GatewayOutbox shows what the shared transaction does). *)
EXTENDS Integers, FiniteSets

CONSTANTS
  Observations,  \* each comes through the outbox table or the observe tool
  Hosts,         \* subset of {"daemon", "mcp"}
  OutboxBatch,   \* limit of outbox_pending
  MaxRetry,      \* MAX_RETRY of the outbox worker
  MaxSqlFaults,  \* bound: failing statements
  MaxLives       \* bound: processes after the first

ASSUME DaemonLifeAssumption ==
  /\ Hosts \subseteq {"daemon", "mcp"}
  /\ {OutboxBatch, MaxRetry} \subseteq Nat \ {0}
  /\ {MaxSqlFaults, MaxLives} \subseteq Nat

VARIABLES
  host,      \* what runs the conductor
  main,      \* "down", "serving", or the part of Conductor.stop it is in:
             \* "grace" (transports, last pass of the outbox worker),
             \* "drained" (persistence stopped), "closed" (database closed)
  row,       \* the outbox table: row -> "none", "pending", "done", "failed"
  retry,     \* its retry column
  hand,      \* rows of the batch the worker has not looked at yet
  marking,   \* the row it has scheduled and must mark, or none: a set
  failedMark,\* the mark "done" raised
  flight,    \* pipelines running, by observation
  unsaved,   \* observations in the write queue
  saved,     \* observations in SQLite
  lives,     \* processes started after the first
  sqlFaults, \* failing statements so far
  scheduled, \* history: observe() calls, by observation
  dropped,   \* history: observations a pipeline decided not to keep
  late,      \* history: observations not yet queued when the store stopped
  cut,       \* history: observations in flight when a process ended
  spilled,   \* history: observations queued when a process was told to end
  crashed    \* history: a process was killed

lifeVars == <<host, main, row, retry, hand, marking, failedMark, flight, unsaved, saved,
              lives, sqlFaults, scheduled, dropped, late, cut, spilled, crashed>>

Alive == main # "down"
DbOpen == Alive /\ main # "closed"
InFlight == {x \in Observations : flight[x] > 0}

LifeInit ==
  /\ host \in Hosts /\ main = "down"
  /\ row = [x \in Observations |-> "none"] /\ retry = [x \in Observations |-> 0]
  /\ hand = {} /\ marking = {} /\ failedMark = FALSE
  /\ flight = [x \in Observations |-> 0] /\ unsaved = {} /\ saved = {}
  /\ lives = 0 /\ sqlFaults = 0
  /\ scheduled = [x \in Observations |-> 0]
  /\ dropped = {} /\ late = {} /\ cut = {} /\ spilled = {} /\ crashed = FALSE

Table == <<row, retry>>
OutboxTask == <<hand, marking, failedMark>>
Ram == <<flight, unsaved>>
Blame == <<scheduled, dropped, late, cut, spilled, crashed>>

-----------------------------------------------------------------------------
(* Conductor.start: storage, migrations, hydration, workers and the outbox *)
(* worker, whose first pass sees what earlier processes left.              *)
StartConductor ==
  /\ main = "down" /\ lives < MaxLives
  /\ main' = "serving" /\ lives' = lives + 1
  /\ UNCHANGED <<host, Table, OutboxTask, Ram, saved, sqlFaults, Blame>>

(* dispatch("observe"): the reply does not wait for the pipeline.          *)
ScheduleObserve(x) ==
  /\ flight' = [flight EXCEPT ![x] = @ + 1]
  /\ scheduled' = [scheduled EXCEPT ![x] = @ + 1]

ObserveTool(x) ==
  /\ main \in {"serving", "grace"} /\ row[x] = "none" /\ scheduled[x] = 0
  /\ ScheduleObserve(x)
  /\ UNCHANGED <<host, main, Table, OutboxTask, unsaved, saved, lives, sqlFaults,
                 dropped, late, cut, spilled, crashed>>

(* dispatch("outbox_put").                                                 *)
OutboxPut(x) ==
  /\ main \in {"serving", "grace"} /\ row[x] = "none" /\ scheduled[x] = 0
  /\ row' = [row EXCEPT ![x] = "pending"]
  /\ UNCHANGED <<host, main, retry, OutboxTask, Ram, saved, lives, sqlFaults, Blame>>

-----------------------------------------------------------------------------
SqlFault == sqlFaults < MaxSqlFaults /\ sqlFaults' = sqlFaults + 1

TakeBatch(pending) ==
  /\ DbOpen /\ hand = {} /\ marking = {} /\ pending # {}
  /\ hand' \in SUBSET pending
  /\ Cardinality(hand') =
       (IF Cardinality(pending) < OutboxBatch THEN Cardinality(pending) ELSE OutboxBatch)
  /\ UNCHANGED <<host, main, Table, marking, failedMark, Ram, saved, lives, sqlFaults, Blame>>

Pending == {x \in Observations : row[x] = "pending"}

(* Fault model: only rows without a retry are fetched.                     *)
OutboxFetchFresh == TakeBatch({x \in Pending : retry[x] = 0})

(* The worker's pass: the oldest pending rows.                             *)
OutboxFetch == TakeBatch(Pending)

(* A row that has used up its retries; if the update raises, the rest of   *)
(* the batch waits for the next pass.                                      *)
OutboxGiveUp(x) ==
  /\ DbOpen /\ marking = {} /\ x \in hand /\ retry[x] >= MaxRetry
  /\ \/ row' = [row EXCEPT ![x] = "failed"] /\ hand' = hand \ {x} /\ UNCHANGED sqlFaults
     \/ SqlFault /\ hand' = {} /\ UNCHANGED row
  /\ UNCHANGED <<host, main, retry, marking, failedMark, Ram, saved, lives, Blame>>

(* Fault model: the row is marked before it is handed to observe().        *)
OutboxObserveMarksFirst(x) ==
  /\ DbOpen /\ marking = {} /\ x \in hand /\ retry[x] < MaxRetry
  /\ hand' = hand \ {x} /\ marking' = {} /\ failedMark' = FALSE
  /\ row' = [row EXCEPT ![x] = "done"]
  /\ UNCHANGED <<host, main, retry, Ram, saved, lives, sqlFaults, Blame>>

(* observe() only creates the task; then the row is marked.                *)
OutboxObserve(x) ==
  /\ DbOpen /\ marking = {} /\ x \in hand /\ retry[x] < MaxRetry
  /\ hand' = hand \ {x} /\ marking' = {x} /\ failedMark' = FALSE
  /\ ScheduleObserve(x)
  /\ UNCHANGED <<host, main, Table, unsaved, saved, lives, sqlFaults,
                 dropped, late, cut, spilled, crashed>>

OutboxMarkDone ==
  /\ DbOpen /\ marking # {} /\ ~failedMark
  /\ \/ /\ row' = [x \in Observations |-> IF x \in marking THEN "done" ELSE row[x]]
        /\ marking' = {} /\ UNCHANGED <<failedMark, sqlFaults>>
     \/ SqlFault /\ failedMark' = TRUE /\ UNCHANGED <<row, marking>>
  /\ UNCHANGED <<host, main, retry, hand, Ram, saved, lives, Blame>>

(* The except clause: one retry more; if this raises too, the outer clause *)
(* ends the pass and the row is observed again with its old count.         *)
OutboxMarkRetry ==
  /\ DbOpen /\ failedMark
  /\ failedMark' = FALSE /\ marking' = {}
  /\ \/ retry' = [x \in Observations |-> IF x \in marking THEN retry[x] + 1 ELSE retry[x]]
        /\ UNCHANGED <<hand, sqlFaults>>
     \/ SqlFault /\ hand' = {} /\ UNCHANGED retry
  /\ UNCHANGED <<host, main, row, Ram, saved, lives, Blame>>

-----------------------------------------------------------------------------
(* A pipeline ends: dropped by a filter or an error, or queued for SQLite. *)
PipelineEnds(x) ==
  /\ Alive /\ flight[x] > 0
  /\ flight' = [flight EXCEPT ![x] = @ - 1]
  /\ \/ dropped' = dropped \union {x} /\ UNCHANGED unsaved
     \/ unsaved' = unsaved \union {x} /\ UNCHANGED dropped
  /\ UNCHANGED <<host, main, Table, OutboxTask, saved, lives, sqlFaults, scheduled, late, cut, spilled,
                 crashed>>

(* The worker of the write queue, and after it has stopped the flush of a  *)
(* dissolver that is not stopped yet.                                      *)
WriteQueue ==
  /\ DbOpen /\ unsaved # {}
  /\ saved' = saved \union unsaved /\ unsaved' = {}
  /\ UNCHANGED <<host, main, Table, OutboxTask, flight, lives, sqlFaults, Blame>>

-----------------------------------------------------------------------------
(* Conductor.stop, which only the MCP host reaches: transports are stopped *)
(* and the outbox worker gets its second, while everything else runs on.   *)
StopBegins ==
  /\ host = "mcp" /\ main = "serving"
  /\ main' = "grace"
  /\ UNCHANGED <<host, Table, OutboxTask, Ram, saved, lives, sqlFaults, Blame>>

(* persistence.stop: the queue is written to its end.  Pipelines and the   *)
(* outbox worker are neither awaited nor cancelled.                        *)
StopStore ==
  /\ main = "grace" /\ main' = "drained"
  /\ saved' = saved \union unsaved /\ unsaved' = {}
  /\ late' = late \union InFlight \union {x \in Observations : row[x] = "pending"}
  /\ UNCHANGED <<host, Table, OutboxTask, flight, lives, sqlFaults, scheduled, dropped, cut, spilled,
                 crashed>>

(* Dissolver, consolidation, dreamer and log writer stop; db.close().      *)
CloseDb ==
  /\ main = "drained" /\ main' = "closed"
  /\ UNCHANGED <<host, Table, OutboxTask, Ram, saved, lives, sqlFaults, Blame>>

(* What the end of a process does to its RAM.                              *)
ProcessEnds ==
  /\ main' = "down"
  /\ hand' = {} /\ marking' = {} /\ failedMark' = FALSE
  /\ flight' = [x \in Observations |-> 0] /\ unsaved' = {}
  /\ cut' = cut \union InFlight \union unsaved

ExitAfterStop ==
  /\ main = "closed" /\ ProcessEnds
  /\ UNCHANGED <<host, Table, saved, lives, sqlFaults, scheduled, dropped, late, spilled, crashed>>

(* SIGTERM to the daemon: the main task is cancelled inside bootstrap(),   *)
(* whose last call, run_background_workers, never returns.  So _run_daemon *)
(* has no local conductor, its finally clause skips Conductor.stop, and    *)
(* asyncio.run cancels every other task.                                   *)
Terminate ==
  /\ host = "daemon" /\ main = "serving" /\ ProcessEnds
  /\ spilled' = spilled \union unsaved
  /\ UNCHANGED <<host, Table, saved, lives, sqlFaults, scheduled, dropped, late, crashed>>

(* Killed: by the loop monitor, the watchdog, `off` after five seconds.    *)
KillProcess ==
  /\ Alive /\ ProcessEnds /\ crashed' = TRUE
  /\ UNCHANGED <<host, Table, saved, lives, sqlFaults, scheduled, dropped, late, spilled>>

OutboxWorker ==
  \/ OutboxFetch \/ OutboxMarkDone \/ OutboxMarkRetry
  \/ \E x \in Observations : OutboxGiveUp(x) \/ OutboxObserve(x)

LifeNext ==
  \/ StartConductor \/ StopBegins \/ StopStore \/ CloseDb \/ ExitAfterStop \/ Terminate \/ KillProcess
  \/ \E x \in Observations : ObserveTool(x) \/ OutboxPut(x) \/ PipelineEnds(x)
  \/ OutboxWorker
  \/ WriteQueue

LifeSpec == LifeInit /\ [][LifeNext]_lifeVars

-----------------------------------------------------------------------------
LifeTypeOK ==
  /\ host \in Hosts /\ main \in {"down", "serving", "grace", "drained", "closed"}
  /\ row \in [Observations -> {"none", "pending", "done", "failed"}]
  /\ retry \in [Observations -> 0..MaxRetry]
  /\ hand \subseteq Observations /\ marking \subseteq Observations /\ Cardinality(marking) <= 1
  /\ failedMark \in BOOLEAN
  /\ flight \in [Observations -> Nat] /\ scheduled \in [Observations -> Nat]
  /\ lives \in 0..MaxLives /\ sqlFaults \in 0..MaxSqlFaults /\ crashed \in BOOLEAN
  /\ UNION {unsaved, saved, dropped, late, cut, spilled} \subseteq Observations

Accepted(x) == row[x] = "done" \/ (row[x] = "none" /\ scheduled[x] > 0)

(* An observation that was taken over - its row marked done, its tool call *)
(* answered - is in SQLite, on its way there, or a pipeline refused it;    *)
(* what Conductor.stop loses was not queued yet when the store stopped,    *)
(* and a row is observed twice only for a failed statement or a process    *)
(* that ended.                                                             *)
ObservationsAccounted ==
  /\ \A x \in Observations :
       Accepted(x) => x \in saved \union unsaved \union InFlight \union dropped \union cut
  /\ (host = "mcp" /\ ~crashed) => cut \subseteq late
  /\ \A x \in Observations : scheduled[x] <= lives + sqlFaults

(* While the process serves, the outbox worker settles every row, whatever *)
(* statements fail.                                                        *)
RowsSettle ==
  \A x \in Observations :
    (row[x] = "pending") ~> (row[x] \in {"done", "failed"} \/ main \in {"down", "closed"})

(* docs/mcp/SPEC_sse_daemon_embed_v1.1.md:140-151 gives the order of       *)
(* SIGTERM: _run_daemon's finally clause awaits conductor.stop, which      *)
(* flushes.  Nothing that was queued is lost by terminating the daemon.    *)
TerminationFlushes == spilled = {}
=============================================================================
