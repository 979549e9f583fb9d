------------------------------ MODULE Backups ------------------------------
(* What keeps the memory when the daemon is switched off, or its embedder  *)
(* is changed: the backups of core/backup.py, and the checks of the stored *)
(* embeddings at every start (storage/sqlite.py).  A tick is half of a     *)
(* backup interval, in which at most one session is observed; a backup     *)
(* takes less than that.                                                   *)
EXTENDS Integers, FiniteSets

CONSTANTS
  Embedders, Dim,             \* model keys, and the dimension of their vectors
  Stamp,                      \* the model that every row is said to be of
  Never,                      \* no model
  Interval,                   \* ticks of backup_interval_hours
  MaxTicks, MaxObserved, MaxStarts, MaxDiskFaults    \* bounds

ASSUME BackupAssumption ==
  /\ Dim \in [Embedders -> Nat] /\ Stamp \in Embedders
  /\ Never \notin Embedders /\ Interval \in Nat \ {0}
  /\ {MaxTicks, MaxObserved, MaxStarts, MaxDiskFaults} \subseteq Nat

VARIABLES
  tick, starts, diskFaults,
  active,      \* the embedder of the running daemon, or Never
  registry,     \* the one embedding_model_registry has as current, or Never
  kept,        \* sessions: the rows
  waiting,     \* sessions in the queue
  taken,       \* sessions in the worker's batch
  doing, due,  \* BackupWorker: what it does; when its sleep ends
  copied,      \* what the thread has copied
  lastCopy,    \* the newest ts of db_snapshots
  covered,     \* history: rows and queue when the running backup had flushed
  since,       \* history: when the daemon started
  recorded,    \* history: sessions that a recorded backup holds
  missed,         \* history: the daemon saw a backup fail since its start
  undecided    \* history: a start has found another embedder, and texts

backupVars == <<tick, starts, diskFaults, active, registry, kept, waiting, taken, doing, due, copied,
                lastCopy, covered, since, recorded, missed, undecided>>
memory == <<kept, waiting, taken>>
embedding == <<active, registry>>
backup == <<doing, due, copied, lastCopy, covered>>
fate == <<since, recorded, missed, undecided>>
counts == <<tick, starts, diskFaults>>

(* An old database has rows without content_full, and no registry.         *)
BackupInit ==
  /\ tick = 1 /\ starts = 0 /\ diskFaults = 0 /\ active = Never /\ registry = Never
  /\ \E old \in SUBSET [created : {0}, embedder : {Stamp}, text : {FALSE}] : kept = old
  /\ waiting = {} /\ taken = {} /\ doing = "off" /\ due = 0 /\ copied = {} /\ lastCopy = 0
  /\ covered = {} /\ since = 0 /\ recorded = {} /\ missed = FALSE
  /\ undecided = FALSE

-----------------------------------------------------------------------------
(* check_embedding_dim looks at one vector, and wipes the tables if it is  *)
(* of another dimension.                                                   *)
AfterDim(rows, e) == IF \E r \in rows : Dim[r.embedder] # Dim[e] THEN {} ELSE rows

(* check_embedding_model: the registered model, or what a row says of its  *)
(* own, which is always Stamp; when it is another one the rows go, unless  *)
(* one of them has a text.                                                 *)
Registered(rows) == IF registry # Never \/ rows = {} THEN registry ELSE Stamp

(* Fault model: it registers the new model and leaves the vectors.         *)
WipesNever(rows, registered, e) == FALSE

Wipes(rows, registered, e) ==
  registered \notin {Never, e} /\ \A r \in rows : ~r.text

(* _check_unbackedup_records compares the oldest row of all with the last  *)
(* backup.                                                                 *)
Oldest(rows) == CHOOSE t \in {r.created : r \in rows} : \A r \in rows : t <= r.created
Overdue(rows) ==
  rows # {} /\ Oldest(rows) > lastCopy /\ tick - Oldest(rows) >= Interval

BackupStarts(e) ==
  LET same == AfterDim(kept, e)
      registered == Registered(same)
      asks == registered \notin {Never, e} /\ \E r \in same : r.text
      left == IF Wipes(same, registered, e) THEN {} ELSE same IN
  /\ active = Never /\ starts < MaxStarts /\ starts' = starts + 1
  /\ kept' = left /\ registry' = IF asks THEN registry ELSE e
  /\ undecided' = (undecided \/ asks)
  /\ doing' = "asleep" /\ due' = IF Overdue(left) THEN tick ELSE tick + Interval
  /\ active' = e /\ since' = tick /\ missed' = FALSE
  /\ UNCHANGED <<tick, diskFaults, waiting, taken, copied, lastCopy, covered, recorded>>

(* The start ends after the first wipe, before the model is registered.    *)
StartEndsEarly(e) ==
  /\ active = Never /\ starts < MaxStarts /\ starts' = starts + 1
  /\ kept' = AfterDim(kept, e)
  /\ UNCHANGED <<tick, diskFaults, embedding, waiting, taken, backup, since, recorded, missed,
                 undecided>>

-----------------------------------------------------------------------------
SessionObserved ==
  LET r == [created |-> tick, embedder |-> active, text |-> TRUE] IN
  /\ active # Never /\ Cardinality(kept \union waiting \union taken) < MaxObserved
  /\ \A o \in kept \union waiting \union taken : o.created # tick
  /\ waiting' = waiting \union {r} /\ UNCHANGED <<counts, embedding, kept, taken, backup, fate>>

WorkerTakes ==
  /\ waiting # {} /\ taken = {} /\ taken' = waiting /\ waiting' = {}
  /\ UNCHANGED <<counts, embedding, kept, backup, fate>>

WorkerFlushes ==
  /\ taken # {} /\ kept' = kept \union taken /\ taken' = {}
  /\ UNCHANGED <<counts, embedding, waiting, backup, fate>>

-----------------------------------------------------------------------------
(* _do_backup: flush, copy in a thread, record.                            *)
BackupFlushes ==
  /\ doing = "asleep" /\ tick >= due
  /\ kept' = kept \union waiting /\ waiting' = {} /\ covered' = kept'
  /\ doing' = "copying" /\ UNCHANGED <<counts, embedding, taken, due, copied, lastCopy, fate>>

ThreadCopies ==
  /\ doing = "copying" /\ copied' = kept /\ doing' = "recording"
  /\ UNCHANGED <<counts, embedding, memory, due, lastCopy, covered, fate>>

BackupRecords ==
  /\ doing = "recording" /\ lastCopy' = tick /\ recorded' = recorded \union copied
  /\ copied' = {} /\ covered' = {}
  /\ doing' = "asleep" /\ due' = tick + Interval
  /\ UNCHANGED <<counts, embedding, memory, since, missed, undecided>>

(* The copy fails, or its snapshot is not recorded: the error is logged.   *)
BackupFails ==
  /\ doing \in {"copying", "recording"} /\ diskFaults < MaxDiskFaults
  /\ diskFaults' = diskFaults + 1
  /\ doing' = "asleep" /\ due' = tick + Interval /\ missed' = TRUE
  /\ copied' = {} /\ covered' = {}
  /\ UNCHANGED <<tick, starts, embedding, memory, lastCopy, since, recorded, undecided>>

-----------------------------------------------------------------------------
(* The daemon stops, or crashes with what is queued; a copy under way ends *)
(* without a record.                                                       *)
BackupStops ==
  /\ active # Never /\ active' = Never /\ doing' = "off"
  /\ \/ kept' = kept \union waiting \union taken
     \/ kept' = kept
  /\ waiting' = {} /\ taken' = {} /\ copied' = {} /\ covered' = {} /\ due' = 0
  /\ UNCHANGED <<counts, registry, lastCopy, fate>>

BackupTick ==
  /\ tick < MaxTicks /\ tick' = tick + 1
  /\ doing \in {"off", "asleep"} /\ (doing = "asleep" => tick < due)
  /\ taken = {}
  /\ UNCHANGED <<starts, diskFaults, embedding, memory, backup, fate>>

BackupNext ==
  \/ \E e \in Embedders : BackupStarts(e) \/ StartEndsEarly(e)
  \/ SessionObserved \/ WorkerTakes \/ WorkerFlushes
  \/ BackupFlushes \/ ThreadCopies \/ BackupRecords \/ BackupFails
  \/ BackupStops \/ BackupTick

-----------------------------------------------------------------------------
Rows == [created : 0..MaxTicks, embedder : Embedders, text : BOOLEAN]

BackupTypeOK ==
  /\ tick \in 1..MaxTicks /\ starts \in 0..MaxStarts /\ diskFaults \in 0..MaxDiskFaults
  /\ {active, registry} \subseteq Embedders \union {Never}
  /\ kept \union waiting \union taken \union copied \union covered \subseteq Rows
  /\ doing \in {"off", "asleep", "copying", "recording"} /\ lastCopy \in 0..MaxTicks
  /\ recorded \subseteq Rows /\ {missed, undecided} \subseteq BOOLEAN

(* A backup holds all that was written or queued when it began, the batch  *)
(* of the worker apart.  A daemon that ran for the interval, and saw no    *)
(* backup fail, leaves no row of before its start outside every backup.    *)
(* The vectors of the rows are of one dimension and comparable, with those *)
(* of the running embedder too, unless a start has asked for the texts to  *)
(* be embedded again.                                                      *)
BackupsSound ==
  /\ doing = "recording" => covered \subseteq copied
  /\ active # Never /\ tick > since + Interval /\ ~missed =>
       \A r \in kept : r.created < since => r \in recorded
  /\ ~undecided => \A r, s \in kept : r.embedder = s.embedder
  /\ active # Never /\ ~undecided => \A r \in kept : r.embedder = active
  /\ active # Never => \A r \in kept : Dim[r.embedder] = Dim[active]
=============================================================================
