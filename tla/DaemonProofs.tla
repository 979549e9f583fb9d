--------------------------- MODULE DaemonProofs ---------------------------
(***************************************************************************)
(* The daemon, for any number of processes, observations, steps and log    *)
(* entries: who runs, what becomes of observations, step logs and log      *)
(* entries, and how long a queued write can wait for the worker's timer.   *)
(***************************************************************************)
EXTENDS FlushTimer, DaemonLife, Processes, LogWriter, StepLogs, FiniteSetTheorems,
        SequenceTheorems, TLAPS

-----------------------------------------------------------------------------
(* The flush timer (storage/sqlite.py, _worker), for every interval.       *)
(* TimerInv holds at start and every step of the worker and of the clock   *)
(* keeps it.                                                               *)
LEMMA TimerInvInit == TimerInit => TimerInv
  BY IntervalAssumption DEF TimerInit, TimerInv, TimerTypeOK

LEMMA TimerInvStep == TimerInv /\ [TimerNext]_timerVars => TimerInv'
<1> SUFFICES ASSUME TimerInv, [TimerNext]_timerVars
             PROVE  TimerInv'
  OBVIOUS
<1> USE IntervalAssumption DEF TimerInv, TimerTypeOK
<1>1. CASE TakeWrite
  <2>1. CASE FlushHeld /\ waiting' = clock /\ UNCHANGED clock
    BY <2>1 DEF FlushHeld
  <2>2. CASE /\ ~Due /\ heldSince' = heldSince \union {clock}
             /\ UNCHANGED lastFlush /\ waiting' = clock /\ UNCHANGED clock
    BY <2>2 DEF Due
  <2>3. QED
    BY <1>1, <2>1, <2>2 DEF TakeWrite
<1>2. CASE TimerTimeout
  <2>1. heldSince # {} => Due
    BY <1>2 DEF TimerTimeout, Due
  <2>2. CASE heldSince # {}
    BY <1>2, <2>1, <2>2 DEF TimerTimeout, FlushHeld
  <2>3. CASE heldSince = {}
    BY <1>2, <2>3 DEF TimerTimeout
  <2>4. QED
    BY <2>2, <2>3
<1>3. CASE TimerTick
  BY <1>3, MaxTimeAssumption DEF TimerTick
<1>4. CASE UNCHANGED timerVars
  BY <1>4 DEF timerVars
<1>5. QED
  BY <1>1, <1>2, <1>3, <1>4 DEF TimerNext

(* The timer's invariant holds of every behaviour of the worker.           *)
THEOREM TimerInvariant == TimerSpec => []TimerInv
  BY TimerInvInit, TimerInvStep, PTL DEF TimerSpec

(* No write in the worker's batch is ever two flush intervals old: the     *)
(* real bound on what a crash can take, for any interval (_worker).        *)
THEOREM LossWindowBound == TimerSpec => []LossWindow
<1>1. TimerInv => LossWindow
  BY IntervalAssumption DEF TimerInv, TimerTypeOK, LossWindow
<1>2. QED
  BY <1>1, TimerInvariant, PTL

-----------------------------------------------------------------------------
(* Observations through the life of the daemon (conductor.py).             *)
TakenCareOf(x) == x \in saved \union unsaved \union InFlight \union dropped \union cut

(* The worker of the outbox has its rows in hand only while the daemon     *)
(* runs, and marks what it has scheduled; all that was scheduled is        *)
(* somewhere; and each further scheduling of a row has cost a life or a    *)
(* failure.                                                                *)
LifeInv ==
  /\ LifeTypeOK
  /\ hand \subseteq Pending /\ marking \subseteq Pending /\ hand \intersect marking = {}
  /\ \A x \in marking : scheduled[x] > 0 /\ retry[x] < MaxRetry
  /\ main = "down" => hand = {} /\ marking = {}
  /\ main # "down" => lives > 0
  /\ \A x \in Observations :
       /\ row[x] = "done" => scheduled[x] > 0
       /\ scheduled[x] > 0 => TakenCareOf(x)
  /\ main \in {"drained", "closed"} => InFlight \union unsaved \union Pending \subseteq late
  /\ (host = "mcp" /\ ~crashed) => cut \subseteq late
  /\ \A x \in Observations :
       /\ scheduled[x] <= lives + sqlFaults
       /\ (row[x] = "pending" /\ main # "down" /\ (x \in marking => failedMark))
            => scheduled[x] < lives + sqlFaults

(* The worker has at most one row to mark.                                 *)
LEMMA AtMostOne == ASSUME NEW S, S = {} \/ \E x : S = {x} PROVE Cardinality(S) \in 0..1
<1>1. CASE S = {}
  BY <1>1, FS_EmptySet
<1>2. ASSUME NEW x, S = {x} PROVE Cardinality(S) \in 0..1
  <2>1. Cardinality({x}) = 1
    BY FS_Singleton
  <2>2. QED
    BY <1>2, <2>1
<1>3. QED
  BY <1>1, <1>2

LEMMA LifeInitial == LifeInit => LifeInv
<1> SUFFICES ASSUME LifeInit PROVE LifeInv
  OBVIOUS
<1>1. Cardinality(marking) \in 0..1
  BY AtMostOne DEF LifeInit
<1>2. LifeTypeOK
  <2>1. failedMark \in BOOLEAN /\ crashed \in BOOLEAN
    BY Zenon DEF LifeInit
  <2>2. QED
    BY <1>1, <2>1, DaemonLifeAssumption DEF LifeInit, LifeTypeOK
<1>3. QED
  <2>1. InFlight = {} /\ Pending = {} /\ MaxSqlFaults \in Nat /\ MaxLives \in Nat
    BY DaemonLifeAssumption DEF LifeInit, InFlight, Pending
  <2>2. QED
    BY <1>2, <2>1 DEF LifeInit, LifeInv

LEMMA LifeStep == LifeInv /\ [LifeNext]_lifeVars => LifeInv'
<1> SUFFICES ASSUME LifeInv, [LifeNext]_lifeVars PROVE LifeInv'
  OBVIOUS
<1> USE DaemonLifeAssumption
<1>1. CASE StartConductor
  BY <1>1 DEF StartConductor, LifeInv, LifeTypeOK, InFlight, Pending, TakenCareOf, Table, OutboxTask, Ram, Blame
<1>2. ASSUME NEW x \in Observations, ObserveTool(x) PROVE LifeInv'
  BY <1>2 DEF ObserveTool, ScheduleObserve, LifeInv, LifeTypeOK, InFlight, Pending, TakenCareOf, Table, OutboxTask
<1>3. ASSUME NEW x \in Observations, OutboxPut(x) PROVE LifeInv'
  BY <1>3 DEF OutboxPut, LifeInv, LifeTypeOK, InFlight, Pending, TakenCareOf, OutboxTask, Ram, Blame
<1>4. CASE OutboxFetch
  BY <1>4 DEF OutboxFetch, TakeBatch, DbOpen, Alive, LifeInv, LifeTypeOK, InFlight, Pending, TakenCareOf, Table, Ram, Blame
<1>5. ASSUME NEW x \in Observations, OutboxGiveUp(x) PROVE LifeInv'
  BY <1>5 DEF OutboxGiveUp, SqlFault, DbOpen, Alive, LifeInv, LifeTypeOK, InFlight, Pending, TakenCareOf, Ram, Blame
<1>6. ASSUME NEW x \in Observations, OutboxObserve(x) PROVE LifeInv'
  <2>1. Cardinality(marking') <= 1
    BY <1>6, AtMostOne DEF OutboxObserve, LifeInv, LifeTypeOK
  <2>2. failedMark' \in BOOLEAN /\ crashed' \in BOOLEAN
    BY <1>6, Zenon DEF OutboxObserve, LifeInv, LifeTypeOK
  <2>3. LifeTypeOK'
    BY <1>6, <2>1, <2>2 DEF OutboxObserve, ScheduleObserve, DbOpen, Alive, LifeInv, LifeTypeOK, Pending, Table
  <2>4. QED
    BY <2>3, <1>6 DEF OutboxObserve, ScheduleObserve, DbOpen, Alive, LifeInv, LifeTypeOK, InFlight, Pending, TakenCareOf, Table
<1>7. CASE OutboxMarkDone
  <2>1. Cardinality(marking') <= 1
    <3>1. marking' = {} \/ marking' = marking
      BY <1>7 DEF OutboxMarkDone
    <3>2. Cardinality(marking) <= 1
      BY DEF LifeInv, LifeTypeOK
    <3>3. QED
      BY <3>1, <3>2, AtMostOne
  <2>2. failedMark' \in BOOLEAN /\ crashed' \in BOOLEAN
    BY <1>7, Zenon DEF OutboxMarkDone, LifeInv, LifeTypeOK, Blame
  <2>3. LifeTypeOK'
    BY <1>7, <2>1, <2>2 DEF OutboxMarkDone, SqlFault, DbOpen, Alive, LifeInv, LifeTypeOK, Pending, Ram, Blame
  <2>4. QED
    BY <2>3, <1>7 DEF OutboxMarkDone, SqlFault, DbOpen, Alive, LifeInv, LifeTypeOK, InFlight, Pending, TakenCareOf, Ram, Blame
<1>8. CASE OutboxMarkRetry
  <2>1. Cardinality(marking') <= 1
    BY <1>8, AtMostOne DEF OutboxMarkRetry, LifeInv, LifeTypeOK
  <2>2. failedMark' \in BOOLEAN /\ crashed' \in BOOLEAN
    BY <1>8, Zenon DEF OutboxMarkRetry, LifeInv, LifeTypeOK, Blame
  <2>3. LifeTypeOK'
    BY <1>8, <2>1, <2>2 DEF OutboxMarkRetry, SqlFault, DbOpen, Alive, LifeInv, LifeTypeOK, Pending, Ram, Blame
  <2>4. QED
    BY <2>3, <1>8 DEF OutboxMarkRetry, SqlFault, DbOpen, Alive, LifeInv, LifeTypeOK, InFlight, Pending, TakenCareOf, Ram, Blame
<1>9. ASSUME NEW x \in Observations, PipelineEnds(x) PROVE LifeInv'
  BY <1>9 DEF PipelineEnds, Alive, LifeInv, LifeTypeOK, InFlight, Pending, TakenCareOf, Table, OutboxTask
<1>10. CASE WriteQueue
  BY <1>10 DEF WriteQueue, DbOpen, Alive, LifeInv, LifeTypeOK, InFlight, Pending, TakenCareOf, Table, OutboxTask, Blame
<1>11. CASE StopBegins
  BY <1>11 DEF StopBegins, LifeInv, LifeTypeOK, InFlight, Pending, TakenCareOf, Table, OutboxTask, Ram, Blame
<1>12. CASE StopStore
  BY <1>12 DEF StopStore, LifeInv, LifeTypeOK, InFlight, Pending, TakenCareOf, Table, OutboxTask
<1>13. CASE CloseDb
  BY <1>13 DEF CloseDb, LifeInv, LifeTypeOK, InFlight, Pending, TakenCareOf, Table, OutboxTask, Ram, Blame
<1>14. CASE ExitAfterStop
  <2>1. Cardinality(marking') <= 1
    BY <1>14, AtMostOne DEF ExitAfterStop, ProcessEnds, LifeInv, LifeTypeOK
  <2>2. failedMark' \in BOOLEAN /\ crashed' \in BOOLEAN
    BY <1>14, Zenon DEF ExitAfterStop, ProcessEnds, LifeInv, LifeTypeOK
  <2>3. LifeTypeOK'
    BY <1>14, <2>1, <2>2 DEF ExitAfterStop, ProcessEnds, LifeInv, LifeTypeOK, Pending, Table
  <2>4. QED
    BY <2>3, <1>14 DEF ExitAfterStop, ProcessEnds, LifeInv, LifeTypeOK, InFlight, Pending, TakenCareOf, Table
<1>15. CASE Terminate
  <2>1. Cardinality(marking') <= 1
    BY <1>15, AtMostOne DEF Terminate, ProcessEnds, LifeInv, LifeTypeOK
  <2>2. failedMark' \in BOOLEAN /\ crashed' \in BOOLEAN
    BY <1>15, Zenon DEF Terminate, ProcessEnds, LifeInv, LifeTypeOK
  <2>3. UNION {unsaved', saved', dropped', late', cut', spilled'} \subseteq Observations
    BY <1>15 DEF Terminate, ProcessEnds, InFlight, LifeInv, LifeTypeOK
  <2>4. LifeTypeOK'
    BY <1>15, <2>1, <2>2, <2>3 DEF Terminate, ProcessEnds, LifeInv, LifeTypeOK, Table
  <2>5. QED
    BY <2>4, <1>15 DEF Terminate, ProcessEnds, LifeInv, LifeTypeOK, InFlight, Pending, TakenCareOf, Table
<1>16. CASE KillProcess
  <2>1. Cardinality(marking') <= 1
    BY <1>16, AtMostOne DEF KillProcess, ProcessEnds, LifeInv, LifeTypeOK
  <2>2. failedMark' \in BOOLEAN /\ crashed' \in BOOLEAN
    BY <1>16, Zenon DEF KillProcess, ProcessEnds, LifeInv, LifeTypeOK
  <2>3. UNION {unsaved', saved', dropped', late', cut', spilled'} \subseteq Observations
    BY <1>16 DEF KillProcess, ProcessEnds, InFlight, LifeInv, LifeTypeOK
  <2>4. LifeTypeOK'
    BY <1>16, <2>1, <2>2, <2>3 DEF KillProcess, ProcessEnds, LifeInv, LifeTypeOK, Table
  <2>5. QED
    BY <2>4, <1>16 DEF KillProcess, ProcessEnds, LifeInv, LifeTypeOK, InFlight, Pending, TakenCareOf, Table
<1>17. CASE UNCHANGED lifeVars
  BY <1>17 DEF lifeVars, LifeInv, LifeTypeOK, InFlight, Pending, TakenCareOf
<1>18. QED
  BY <1>1, <1>2, <1>3, <1>4, <1>5, <1>6, <1>7, <1>8, <1>9, <1>10, <1>11, <1>12, <1>13, <1>14, <1>15, <1>16, <1>17
  DEF LifeNext, OutboxWorker

(* An observation that the daemon has taken over is saved, on its way, or  *)
(* refused by a pipeline, through stops, kills and failed statements; and  *)
(* none is scheduled more often than the daemon lived and SQLite failed    *)
(* (conductor.py).                                                         *)
THEOREM ObservationsAreAccounted == LifeSpec => []ObservationsAccounted
<1>1. LifeInv => ObservationsAccounted
  BY DEF LifeInv, LifeTypeOK, ObservationsAccounted, Accepted, TakenCareOf
<1>2. QED
  BY <1>1, LifeInitial, LifeStep, PTL DEF LifeSpec

(* The outbox worker has at most one row to mark, and no row is retried    *)
(* beyond its limit (storage/persistence.py, conductor.py).                *)
THEOREM LifeTyped == LifeSpec => []LifeTypeOK
<1>1. LifeInv => LifeTypeOK
  BY DEF LifeInv
<1>2. QED
  BY <1>1, LifeInitial, LifeStep, PTL DEF LifeSpec

-----------------------------------------------------------------------------
(* Processes, watchdog and commands.                                       *)
ProcSpec == ProcInit /\ [][ProcNext]_procVars

(* Whoever may come past the killing of the others has every other process *)
(* on its list, or is on the list that the other has or will make.         *)
Succession ==
  \A p, q \in Procs :
    p # q /\ q \in Running =>
      /\ p \in Owners => ps[q] = "spawned" \/ (ps[q] = "listing" /\ p \in seen[q])
      /\ ps[p] = "listing" /\ ps[q] = "listing" => p \in seen[q] \/ q \in seen[p]

ProcTypes ==
  /\ ProcTypeOK
  /\ cli \in [does : {"nothing", "off", "restore", "judge", "cleanup", "on", "on, kept", "launch", "launch, kept"},
              whom : SUBSET Procs]

(* The pid file names whoever is past the killing; nobody is shot or read  *)
(* as dead unless a heartbeat was late.                                    *)
PidFileTrue == \A p \in Owners : pidFile = p \/ erased

LatenessCounted ==
  /\ Beating # {} /\ beat # "fresh" => lags > 0
  /\ readers # {} => lags > 0
  /\ shot # {} => lags > 0

ProcInv == ProcTypes /\ Succession /\ PidFileTrue /\ LatenessCounted /\ (culled # {} => erased)

LEMMA BoundsNat == MaxLags \in Nat /\ MaxCrashes \in Nat
  BY ProcessesAssumption

LEMMA ProcInitial == ProcInit => ProcInv
<1> SUFFICES ASSUME ProcInit PROVE ProcInv
  OBVIOUS
<1>1. {ready, erased} \subseteq BOOLEAN
  BY Zenon DEF ProcInit
<1>2. ProcTypes
  BY <1>1, ProcessesAssumption DEF ProcInit, ProcTypes, ProcTypeOK, NoCommand, Stages
<1>3. QED
  BY <1>2 DEF ProcInit, ProcInv, Succession, PidFileTrue, LatenessCounted, Running, Owners, Beating

(* What a step does to the stages of the processes.                        *)
Ages ==
  /\ ps' \in [Procs -> Stages]
  /\ \A p \in Procs :
       \/ ps'[p] = ps[p]
       \/ ps'[p] = "dead"
       \/ ps[p] \in {"beating", "serving"} /\ ps'[p] \in {"serving", "ending"}

LEMMA TermAges ==
  ASSUME NEW p \in Procs, ps \in [Procs -> Stages], NEW after \in AfterTerm(p), ps' = [ps EXCEPT ![p] = after]
  PROVE  Ages
<1>1. CASE ps[p] \in {"spawned", "listing", "claimed"}
  BY <1>1 DEF AfterTerm, Ages, Stages
<1>2. CASE ps[p] = "beating"
  BY <1>2 DEF AfterTerm, Ages, Stages
<1>3. CASE ps[p] = "serving"
  BY <1>3 DEF AfterTerm, Ages, Stages
<1>4. CASE ps[p] \notin {"spawned", "listing", "claimed", "beating", "serving"}
  BY <1>4 DEF AfterTerm, Ages, Stages
<1>5. QED
  BY <1>1, <1>2, <1>3, <1>4

LEMMA KilledAges ==
  ASSUME NEW K, ps \in [Procs -> Stages], ps' = Killed(K)
  PROVE  Ages
  BY DEF Killed, Ages, Stages

LEMMA Stays == ASSUME ProcTypes, UNCHANGED ps PROVE Ages
  BY DEF ProcTypes, ProcTypeOK, Ages

(* The actions that start no process and claim nothing.                    *)
Aging ==
  \/ \E p \in Procs : Serve(p) \/ BootFails(p) \/ Finish(p) \/ Crash(p)
  \/ SystemdStops \/ WriteHeartbeat \/ HeartbeatAges
  \/ WatchdogBoots \/ WatchdogGivesUp \/ Sweep \/ CheckHeartbeat \/ Probe
  \/ Off \/ OffEnds \/ StatusLooks \/ StatusRestores \/ StatusJudges
  \/ CleanupLooks \/ CleanupKills \/ AlreadyOn
  \/ UNCHANGED procVars

LEMMA AgingAges == ASSUME ProcTypes, Aging PROVE Ages /\ UNCHANGED seen
<1> USE DEF ProcTypes, ProcTypeOK
<1>1. ASSUME NEW p \in Procs, Serve(p) \/ BootFails(p) \/ Finish(p) PROVE Ages /\ UNCHANGED seen
  BY <1>1 DEF Serve, BootFails, Finish, Ages, Stages
<1>2. ASSUME NEW p \in Procs, Crash(p) PROVE Ages /\ UNCHANGED seen
  BY <1>2, KilledAges DEF Crash
<1>3. CASE SystemdStops
  BY <1>3, TermAges DEF SystemdStops, Running
<1>4. CASE Off
  BY <1>4, TermAges DEF Off, Running
<1>5. CASE WatchdogGivesUp \/ Sweep \/ OffEnds \/ CleanupKills
  BY <1>5, KilledAges DEF WatchdogGivesUp, Sweep, OffEnds, CleanupKills
<1>6. CASE Probe
  BY <1>6, KilledAges, Stays DEF Probe
<1>7. CASE WriteHeartbeat \/ HeartbeatAges \/ WatchdogBoots \/ CheckHeartbeat \/ StatusLooks \/ StatusRestores
             \/ StatusJudges \/ CleanupLooks \/ AlreadyOn \/ UNCHANGED procVars
  BY <1>7, Stays
  DEF WriteHeartbeat, HeartbeatAges, WatchdogBoots, CheckHeartbeat, StatusLooks, StatusRestores, StatusJudges,
      CleanupLooks, AlreadyOn, procVars
<1>8. QED
  BY <1>1, <1>2, <1>3, <1>4, <1>5, <1>6, <1>7 DEF Aging

LEMMA SuccessionStep == ASSUME ProcInv, [ProcNext]_procVars PROVE Succession'
<1> SUFFICES ASSUME NEW p \in Procs, NEW q \in Procs, p # q, (q \in Running)'
             PROVE  /\ p \in Owners' => ps'[q] = "spawned" \/ (ps'[q] = "listing" /\ p \in seen'[q])
                    /\ ps'[p] = "listing" /\ ps'[q] = "listing" => p \in seen'[q] \/ q \in seen'[p]
  BY DEF Succession
<1> USE DEF ProcInv, ProcTypes, ProcTypeOK, Running, Owners
<1>0. q \in Running =>
        /\ p \in Owners => ps[q] = "spawned" \/ (ps[q] = "listing" /\ p \in seen[q])
        /\ ps[p] = "listing" /\ ps[q] = "listing" => p \in seen[q] \/ q \in seen[p]
  BY DEF Succession
<1>a. p \in Running /\ q \in Owners => ps[p] = "spawned" \/ (ps[p] = "listing" /\ q \in seen[p])
  BY DEF Succession
<1>1. CASE Aging
  <2>1. Ages /\ UNCHANGED seen
    BY <1>1, AgingAges
  <2>2. (ps'[q] = ps[q] \/ ps[q] \in {"beating", "serving"}) /\ q \in Running
    BY <2>1 DEF Ages
  <2>3. p \in Owners' => p \in Owners
    BY <2>1 DEF Ages
  <2>4. ps'[p] = "listing" => ps[p] = "listing"
    BY <2>1 DEF Ages
  <2>5. ps'[q] = "listing" => ps[q] = "listing"
    BY <2>1 DEF Ages
  <2>6. ps[q] \in {"spawned", "listing"} => ps'[q] = ps[q]
    BY <2>2
  <2>7. QED
    BY <1>0, <2>1, <2>2, <2>3, <2>4, <2>5, <2>6
<1>2. ASSUME NEW r \in Procs, SystemdStarts(r) \/ Launch(r)
      PROVE  /\ p \in Owners' => ps'[q] = "spawned" \/ (ps'[q] = "listing" /\ p \in seen'[q])
             /\ ps'[p] = "listing" /\ ps'[q] = "listing" => p \in seen'[q] \/ q \in seen'[p]
  <2>1. ps[r] = "unborn" /\ ps' = [ps EXCEPT ![r] = "spawned"] /\ UNCHANGED seen
    BY <1>2 DEF SystemdStarts, Launch
  <2>2. QED
    BY <1>0, <2>1
<1>3. ASSUME NEW r \in Procs, ListOthers(r)
      PROVE  /\ p \in Owners' => ps'[q] = "spawned" \/ (ps'[q] = "listing" /\ p \in seen'[q])
             /\ ps'[p] = "listing" /\ ps'[q] = "listing" => p \in seen'[q] \/ q \in seen'[p]
  <2>1. ps[r] = "spawned" /\ ps' = [ps EXCEPT ![r] = "listing"] /\ seen' = [seen EXCEPT ![r] = Running \ {r}]
    BY <1>3 DEF ListOthers
  <2>2. CASE p = r
    BY <1>0, <2>1, <2>2
  <2>3. CASE q = r
    BY <1>0, <2>1, <2>3
  <2>4. CASE p # r /\ q # r
    BY <1>0, <2>1, <2>4
  <2>5. QED
    BY <2>2, <2>3, <2>4
<1>4. ASSUME NEW r \in Procs, KillListed(r)
      PROVE  /\ p \in Owners' => ps'[q] = "spawned" \/ (ps'[q] = "listing" /\ p \in seen'[q])
             /\ ps'[p] = "listing" /\ ps'[q] = "listing" => p \in seen'[q] \/ q \in seen'[p]
  <2>1. PICK t \in seen[r] : ps' = Killed({t}) /\ seen' = [seen EXCEPT ![r] = @ \ {t}]
    BY <1>4 DEF KillListed
  <2>2. ps'[t] \in {"dead", "unborn"} /\ \A x \in Procs : x # t => ps'[x] = ps[x]
    BY <2>1 DEF Killed
  <2>3. q # t /\ ps'[q] = ps[q]
    BY <2>2
  <2>4. p # t \/ ps'[p] \in {"dead", "unborn"}
    BY <2>2
  <2>5. p # t => ps'[p] = ps[p] /\ (p \in seen[q] => p \in seen'[q]) /\ (q \in seen[p] => q \in seen'[p])
    BY <2>1, <2>2, <2>3
  <2>6. QED
    BY <1>0, <2>3, <2>4, <2>5
<1>5. ASSUME NEW r \in Procs, Claim(r)
      PROVE  /\ p \in Owners' => ps'[q] = "spawned" \/ (ps'[q] = "listing" /\ p \in seen'[q])
             /\ ps'[p] = "listing" /\ ps'[q] = "listing" => p \in seen'[q] \/ q \in seen'[p]
  <2>1. ps[r] = "listing" /\ seen[r] = {} /\ ps' = [ps EXCEPT ![r] = "claimed"] /\ UNCHANGED seen
    BY <1>5 DEF Claim
  <2>2. CASE p = r
    BY <1>0, <1>a, <2>1, <2>2 DEF Stages
  <2>3. CASE p # r
    BY <1>0, <1>a, <2>1, <2>3
  <2>4. QED
    BY <2>2, <2>3
<1>6. ASSUME NEW r \in Procs, StartBeating(r)
      PROVE  /\ p \in Owners' => ps'[q] = "spawned" \/ (ps'[q] = "listing" /\ p \in seen'[q])
             /\ ps'[p] = "listing" /\ ps'[q] = "listing" => p \in seen'[q] \/ q \in seen'[p]
  BY <1>0, <1>6 DEF StartBeating
<1>7. QED
  BY <1>1, <1>2, <1>3, <1>4, <1>5, <1>6 DEF ProcNext, Aging

LEMMA BooleansStep == ASSUME ProcInv, [ProcNext]_procVars PROVE {ready', erased'} \subseteq BOOLEAN
<1>1. {ready, erased} \subseteq BOOLEAN
  BY DEF ProcInv, ProcTypes, ProcTypeOK
<1>2. ready' = ready \/ ready' = TRUE \/ ready' = FALSE
  BY DEF ProcNext, procVars, SystemdStarts, ListOthers, KillListed, Claim, StartBeating, Serve, BindSocket, BootFails, Finish, Crash,
     Launch, SystemdStops, WriteHeartbeat, HeartbeatAges, WatchdogBoots, WatchdogGivesUp, Sweep, CheckHeartbeat,
     Probe, Off, OffEnds, StatusLooks, StatusRestores, StatusJudges, CleanupLooks, CleanupKills, AlreadyOn, Files
<1>3. erased' \in BOOLEAN
  <2>1. CASE OffEnds
    BY <1>1, <2>1, Zenon DEF OffEnds
  <2>2. CASE StatusRestores
    BY <1>1, <2>2, Zenon DEF StatusRestores
  <2>3. CASE StatusJudges
    BY <1>1, <2>3, Zenon DEF StatusJudges
  <2>4. CASE ~(OffEnds \/ StatusRestores \/ StatusJudges)
    <3>1. UNCHANGED erased
      BY <2>4 DEF ProcNext, procVars, SystemdStarts, ListOthers, KillListed, Claim, StartBeating, Serve, BootFails, Finish,
         Crash, Launch, SystemdStops, WriteHeartbeat, HeartbeatAges, WatchdogBoots, WatchdogGivesUp, Sweep, CheckHeartbeat,
         Probe, Off, StatusLooks, CleanupLooks, CleanupKills, AlreadyOn
    <3>2. QED
      BY <1>1, <3>1
  <2>5. QED
    BY <2>1, <2>2, <2>3, <2>4
<1>4. QED
  BY <1>1, <1>2, <1>3, Zenon

LEMMA BoundsStep ==
  ASSUME ProcInv, [ProcNext]_procVars
  PROVE  /\ lags' \in 0..MaxLags /\ crashes' \in 0..MaxCrashes
         /\ lags' >= lags
<1>1. lags \in 0..MaxLags /\ crashes \in 0..MaxCrashes
  BY DEF ProcInv, ProcTypes, ProcTypeOK
<1>2. /\ lags' = lags \/ (lags < MaxLags /\ lags' = lags + 1)
      /\ crashes' = crashes \/ (crashes < MaxCrashes /\ crashes' = crashes + 1)
  BY DEF ProcNext, procVars, SystemdStarts, ListOthers, KillListed, Claim, StartBeating, Serve, BindSocket, BootFails, Finish, Crash,
     Launch, SystemdStops, WriteHeartbeat, HeartbeatAges, WatchdogBoots, WatchdogGivesUp, Sweep, CheckHeartbeat,
     Probe, Off, OffEnds, StatusLooks, StatusRestores, StatusJudges, CleanupLooks, CleanupKills, AlreadyOn, Bounds
<1>3. QED
  BY <1>1, <1>2, BoundsNat

(* What a command has decided, and about whom.                             *)
Commands == [does : {"nothing", "off", "restore", "judge", "cleanup", "on", "on, kept", "launch", "launch, kept"},
             whom : SUBSET Procs]

LEMMA CommandOf ==
  ASSUME NEW d \in {"nothing", "off", "restore", "judge", "cleanup", "on", "on, kept", "launch", "launch, kept"},
         NEW S \in SUBSET Procs
  PROVE  [does |-> d, whom |-> S] \in Commands
  BY DEF Commands

LEMMA CommandStep == ASSUME ProcInv, [ProcNext]_procVars PROVE cli' \in Commands
<1>1. cli \in Commands
  BY DEF ProcInv, ProcTypes, Commands
<1>2. NoCommand \in Commands
  BY DEF NoCommand, Commands
<1>3. CASE Off
  BY <1>3 DEF Off, Running, Commands
<1>4. CASE StatusLooks
  <2>1. PICK q \in Procs : cli' \in {[does |-> "restore", whom |-> {q}], [does |-> "judge", whom |-> {q}]}
    BY <1>4 DEF StatusLooks, Running, ProcInv, ProcTypes, ProcTypeOK
  <2>2. QED
    BY <2>1, CommandOf
<1>5. CASE StatusRestores
  BY <1>1, <1>5 DEF StatusRestores, Commands
<1>6. CASE CleanupLooks
  <2>1. PICK S \in SUBSET Procs : cli' \in {[does |-> d, whom |-> S] : d \in {"cleanup", "on", "on, kept"}}
    BY <1>6 DEF CleanupLooks, Running
  <2>2. QED
    BY <2>1, CommandOf
<1>7. CASE CleanupKills
  <2>1. cli' \in {[does |-> d, whom |-> {}] : d \in {"nothing", "launch", "launch, kept"}}
    BY <1>7 DEF CleanupKills
  <2>2. QED
    BY <2>1, CommandOf
<1>8. CASE ~(Off \/ StatusLooks \/ StatusRestores \/ CleanupLooks \/ CleanupKills)
  <2>1. cli' = cli \/ cli' = NoCommand
    BY <1>8 DEF ProcNext, procVars, SystemdStarts, ListOthers, KillListed, Claim, StartBeating, Serve, BindSocket, BootFails,
       Finish, Crash, Launch, SystemdStops, WriteHeartbeat, HeartbeatAges, WatchdogBoots, WatchdogGivesUp, Sweep, CheckHeartbeat,
       Probe, OffEnds, StatusJudges, AlreadyOn
  <2>2. QED
    BY <1>1, <1>2, <2>1
<1>9. QED
  BY <1>3, <1>4, <1>5, <1>6, <1>7, <1>8

StagesAndFiles ==
  /\ ps \in [Procs -> Stages] /\ seen \in [Procs -> SUBSET Procs]
  /\ {pidFile, sock, unit} \subseteq Procs \union {None}
  /\ beat \in {"none", "fresh", "stale"} /\ wd \in {"boot", "idle", "probe", "gone"}
  /\ UNION {readers, culled, shot} \subseteq Procs

LEMMA StagesAndFilesStep == ASSUME ProcInv, [ProcNext]_procVars PROVE StagesAndFiles'
<1>1. StagesAndFiles /\ cli.whom \subseteq Procs
  BY DEF ProcInv, ProcTypes, ProcTypeOK, StagesAndFiles
<1> USE <1>1 DEF StagesAndFiles
<1>2. ASSUME NEW p \in Procs, SystemdStarts(p) \/ Launch(p) PROVE StagesAndFiles'
  BY <1>2 DEF SystemdStarts, Launch, Files, Watch, Stages
<1>3. ASSUME NEW p \in Procs, ListOthers(p) PROVE StagesAndFiles'
  BY <1>3 DEF ListOthers, Files, Watch, Stages, Running
<1>4. ASSUME NEW p \in Procs, KillListed(p) PROVE StagesAndFiles'
  BY <1>4 DEF KillListed, Killed, Files, Watch, Stages
<1>5. ASSUME NEW p \in Procs, Claim(p) \/ StartBeating(p) PROVE StagesAndFiles'
  BY <1>5 DEF Claim, StartBeating, Watch, Stages
<1>6. ASSUME NEW p \in Procs, Serve(p) \/ BootFails(p) PROVE StagesAndFiles'
  BY <1>6 DEF Serve, BootFails, BindSocket, Files, Watch, Stages
<1>7. ASSUME NEW p \in Procs, Finish(p) PROVE StagesAndFiles'
  BY <1>7 DEF Finish, Watch, Stages
<1>8. CASE Aging
  <2>1. ps' \in [Procs -> Stages] /\ UNCHANGED seen
    BY <1>8, AgingAges DEF ProcInv, Ages
  <2>2. ASSUME NEW p \in Procs, Crash(p) PROVE StagesAndFiles'
    BY <2>1, <2>2 DEF Crash, Files, Watch
  <2>3. CASE SystemdStops \/ WriteHeartbeat \/ HeartbeatAges
    BY <2>1, <2>3 DEF SystemdStops, WriteHeartbeat, HeartbeatAges, Files, Watch
  <2>4. CASE WatchdogBoots \/ WatchdogGivesUp \/ Sweep
    BY <2>1, <2>4 DEF WatchdogBoots, WatchdogGivesUp, Sweep, Files, Owners
  <2>5. CASE CheckHeartbeat \/ Probe
    BY <2>1, <2>5 DEF CheckHeartbeat, Probe, Files, Beating
  <2>6. CASE Off \/ OffEnds
    BY <2>1, <2>6 DEF Off, OffEnds, Files, Watch
  <2>7. CASE StatusLooks \/ StatusRestores \/ StatusJudges
    BY <2>1, <2>7 DEF StatusLooks, StatusRestores, StatusJudges, Files, Watch
  <2>8. CASE CleanupLooks \/ CleanupKills \/ AlreadyOn
    BY <2>1, <2>8 DEF CleanupLooks, CleanupKills, AlreadyOn, Files, Watch
  <2>9. CASE UNCHANGED procVars
    BY <2>1, <2>9 DEF procVars
  <2>10. QED
    BY <1>6, <1>7, <1>8, <2>2, <2>3, <2>4, <2>5, <2>6, <2>7, <2>8, <2>9 DEF Aging
<1>9. QED
  BY <1>2, <1>3, <1>4, <1>5, <1>8 DEF ProcNext, Aging

LEMMA ProcTypesStep == ASSUME ProcInv, [ProcNext]_procVars PROVE ProcTypes'
<1>1. cli'.whom \subseteq Procs
      /\ cli'.does \in {"nothing", "off", "restore", "judge", "cleanup", "on", "on, kept", "launch", "launch, kept"}
  BY CommandStep DEF Commands
<1>2. QED
  BY <1>1, BooleansStep, BoundsStep, CommandStep, StagesAndFilesStep DEF ProcTypes, ProcTypeOK, StagesAndFiles, Commands

LEMMA PidFileStep == ASSUME ProcInv, [ProcNext]_procVars PROVE PidFileTrue'
<1> SUFFICES ASSUME NEW p \in Procs, p \in Owners' PROVE pidFile' = p \/ erased'
  BY DEF PidFileTrue, Owners
<1> USE DEF ProcInv, ProcTypes, ProcTypeOK
<1>1. p \in Owners => pidFile = p \/ erased
  BY DEF PidFileTrue
<1>2. \A q \in Owners : p \in Owners => p = q
  BY DEF Succession, Owners, Running
<1>3. CASE Aging
  <2>1. Ages
    BY <1>3, AgingAges
  <2>2. p \in Owners
    BY <2>1 DEF Ages, Owners
  <2>3. CASE OffEnds
    <3>1. p \in cli.whom => p \notin Owners'
      BY <2>3 DEF OffEnds, Killed, Owners, Running
    <3>2. QED
      BY <1>1, <2>2, <2>3, <3>1 DEF OffEnds
  <2>4. CASE StatusRestores
    BY <1>1, <2>2, <2>4 DEF StatusRestores
  <2>5. CASE StatusJudges
    <3>1. p \in Running
      BY <2>2 DEF Owners, Running
    <3>2. QED
      BY <1>1, <2>2, <2>5, <3>1 DEF StatusJudges
  <2>6. ASSUME NEW q \in Procs, Finish(q) PROVE pidFile' = p \/ erased'
    <3>1. q \in Owners /\ q \notin Owners'
      BY <2>6 DEF Finish, Owners
    <3>2. QED
      BY <1>2, <2>2, <3>1
  <2>7. CASE ~(OffEnds \/ StatusRestores \/ StatusJudges \/ \E q \in Procs : Finish(q))
    <3>1. UNCHANGED <<pidFile, erased>>
      BY <1>3, <2>7 DEF Aging, procVars, Serve, BindSocket, BootFails, Crash, SystemdStops, WriteHeartbeat, HeartbeatAges,
         WatchdogBoots, WatchdogGivesUp, Sweep, CheckHeartbeat, Probe, Off, StatusLooks, CleanupLooks, CleanupKills,
         AlreadyOn, Files
    <3>2. QED
      BY <1>1, <2>2, <3>1
  <2>8. QED
    BY <2>3, <2>4, <2>5, <2>6, <2>7
<1>4. ASSUME NEW q \in Procs, SystemdStarts(q) \/ Launch(q) \/ ListOthers(q) \/ KillListed(q) \/ StartBeating(q)
      PROVE  pidFile' = p \/ erased'
  <2>1. UNCHANGED <<pidFile, erased>>
    BY <1>4 DEF SystemdStarts, Launch, ListOthers, KillListed, StartBeating, Files
  <2>2. p \in Owners
    BY <1>4 DEF SystemdStarts, Launch, ListOthers, KillListed, Killed, StartBeating, Owners
  <2>3. QED
    BY <1>1, <2>1, <2>2
<1>5. ASSUME NEW q \in Procs, Claim(q) PROVE pidFile' = p \/ erased'
  <2>1. ps[q] = "listing" /\ seen[q] = {} /\ pidFile' = q /\ ps' = [ps EXCEPT ![q] = "claimed"]
    BY <1>5 DEF Claim
  <2>2. CASE p # q
    <3>1. p \in Owners
      BY <2>1, <2>2 DEF Owners
    <3>2. q \in Running
      BY <2>1 DEF Running
    <3>3. p \in seen[q]
      BY <2>1, <2>2, <3>1, <3>2 DEF Succession
    <3>4. QED
      BY <2>1, <3>3
  <2>3. QED
    BY <2>1, <2>2
<1>6. QED
  BY <1>3, <1>4, <1>5 DEF ProcNext, Aging

LEMMA LatenessStep == ASSUME ProcInv, [ProcNext]_procVars PROVE LatenessCounted'
<1> USE DEF ProcInv, LatenessCounted
<1>1. lags \in Nat /\ lags' \in Nat /\ lags' >= lags
  <2>1. lags \in 0..MaxLags /\ lags' \in 0..MaxLags /\ lags' >= lags
    BY BoundsStep DEF ProcTypes, ProcTypeOK
  <2>2. QED
    BY <2>1, BoundsNat
<1>2. (Beating' # {} /\ beat' # "fresh") => lags' > 0
  <2>1. CASE Aging
    <3>1. Beating' # {} => Beating # {}
      BY <2>1, AgingAges DEF Ages, Beating
    <3>2. CASE HeartbeatAges
      BY <1>1, <3>1, <3>2 DEF HeartbeatAges
    <3>3. CASE ~HeartbeatAges
      <4>1. beat' = beat \/ beat' = "fresh"
        BY <2>1, <3>3 DEF Aging, procVars, Serve, BootFails, Finish, Crash, SystemdStops, WriteHeartbeat, WatchdogBoots,
           WatchdogGivesUp, Sweep, CheckHeartbeat, Probe, Off, OffEnds, StatusLooks, StatusRestores, StatusJudges,
           CleanupLooks, CleanupKills, AlreadyOn, Files
      <4>2. QED
        BY <1>1, <3>1, <4>1
    <3>4. QED
      BY <3>2, <3>3
  <2>2. ASSUME NEW p \in Procs, SystemdStarts(p) \/ Launch(p) \/ ListOthers(p) \/ KillListed(p) \/ Claim(p)
        PROVE  Beating' # {} /\ beat' # "fresh" => lags' > 0
    <3>1. Beating' # {} => Beating # {}
      <4>1. \A q \in Procs : ps'[q] = ps[q] \/ ps'[q] \in {"spawned", "listing", "dead", "claimed"}
        BY <2>2 DEF SystemdStarts, Launch, ListOthers, KillListed, Killed, Claim, ProcTypes, ProcTypeOK
      <4>2. QED
        BY <4>1 DEF Beating
    <3>2. UNCHANGED beat
      BY <2>2 DEF SystemdStarts, Launch, ListOthers, KillListed, Claim, Files
    <3>3. QED
      BY <1>1, <3>1, <3>2
  <2>3. ASSUME NEW p \in Procs, StartBeating(p) PROVE beat' = "fresh"
    BY <2>3 DEF StartBeating
  <2>4. QED
    BY <2>1, <2>2, <2>3 DEF ProcNext, Aging
<1>3. readers' # {} => lags' > 0
  <2>1. CASE CheckHeartbeat
    BY <1>1, <2>1 DEF CheckHeartbeat
  <2>2. CASE ~CheckHeartbeat
    <3>1. readers' = readers \/ readers' = {}
      BY <2>2 DEF ProcNext, procVars, SystemdStarts, ListOthers, KillListed, Claim, StartBeating, Serve, BootFails, Finish,
         Crash, Launch, SystemdStops, WriteHeartbeat, HeartbeatAges, WatchdogBoots, WatchdogGivesUp, Sweep, Probe, Off,
         OffEnds, StatusLooks, StatusRestores, StatusJudges, CleanupLooks, CleanupKills, AlreadyOn, Watch
    <3>2. QED
      BY <1>1, <3>1
  <2>3. QED
    BY <2>1, <2>2
<1>4. shot' # {} => lags' > 0
  <2>1. CASE Probe
    BY <1>1, <2>1 DEF Probe
  <2>2. CASE ~Probe
    <3>1. shot' = shot
      BY <2>2 DEF ProcNext, procVars, SystemdStarts, ListOthers, KillListed, Claim, StartBeating, Serve, BootFails, Finish,
         Crash, Launch, SystemdStops, WriteHeartbeat, HeartbeatAges, WatchdogBoots, WatchdogGivesUp, Sweep, CheckHeartbeat, Off,
         OffEnds, StatusLooks, StatusRestores, StatusJudges, CleanupLooks, CleanupKills, AlreadyOn, Watch
    <3>2. QED
      BY <1>1, <3>1
  <2>3. QED
    BY <2>1, <2>2
<1>5. QED
  BY <1>2, <1>3, <1>4

LEMMA CulledStep == ASSUME ProcInv, [ProcNext]_procVars PROVE culled' # {} => erased'
<1> USE DEF ProcInv
<1>1. erased => erased'
  BY DEF ProcNext, procVars, SystemdStarts, ListOthers, KillListed, Claim, StartBeating, Serve, BootFails, Finish, Crash,
     Launch, SystemdStops, WriteHeartbeat, HeartbeatAges, WatchdogBoots, WatchdogGivesUp, Sweep, CheckHeartbeat, Probe,
     Off, OffEnds, StatusLooks, StatusRestores, StatusJudges, CleanupLooks, CleanupKills, AlreadyOn
<1>2. CASE Sweep
  <2>1. CASE Cardinality(Running) = 1 /\ Owners # {}
    <3>1. PICK p \in Owners : TRUE
      BY <2>1
    <3>2. IsFiniteSet(Running)
      BY ProcessesAssumption, FS_Subset DEF Running
    <3>3. Running = {p}
      <4>1. PICK q : Running = {q}
        BY <2>1, <3>2, FS_Singleton
      <4>2. QED
        BY <4>1 DEF Owners, Running
    <3>4. pidFile # p
      BY <1>2, <3>3 DEF Sweep
    <3>5. erased
      BY <3>4 DEF PidFileTrue
    <3>6. QED
      BY <1>1, <3>5
  <2>2. CASE ~(Cardinality(Running) = 1 /\ Owners # {})
    <3>1. culled' = culled
      BY <1>2, <2>2 DEF Sweep
    <3>2. QED
      BY <1>1, <3>1
  <2>3. QED
    BY <2>1, <2>2
<1>3. CASE ~Sweep
  <2>1. culled' = culled
    BY <1>3 DEF ProcNext, procVars, SystemdStarts, ListOthers, KillListed, Claim, StartBeating, Serve, BootFails, Finish,
       Crash, Launch, SystemdStops, WriteHeartbeat, HeartbeatAges, WatchdogBoots, WatchdogGivesUp, CheckHeartbeat, Probe, Off,
       OffEnds, StatusLooks, StatusRestores, StatusJudges, CleanupLooks, CleanupKills, AlreadyOn, Watch
  <2>2. QED
    BY <1>1, <2>1
<1>4. QED
  BY <1>2, <1>3

(* However many daemons are started, whatever the watchdog and the         *)
(* commands do: at most one is past the killing of the others, and no pid  *)
(* but its own is in the file unless a command has erased it               *)
(* (core/lifecycle.py, watchdog.py, cli/commands.py).                      *)
THEOREM OneDaemonAtATime == ProcSpec => []OneDaemon
<1>1. ProcInv /\ [ProcNext]_procVars => ProcInv'
  BY ProcTypesStep, SuccessionStep, PidFileStep, LatenessStep, CulledStep DEF ProcInv
<1>2. ProcInv => OneDaemon
  <2> SUFFICES ASSUME ProcInv PROVE OneDaemon
    OBVIOUS
  <2>1. \A p, q \in Owners : p = q
    BY DEF ProcInv, Succession, Owners, Running
  <2>2. Owners = {} \/ \E p : Owners = {p}
    BY <2>1
  <2>3. Cardinality(Owners) \in 0..1
    BY <2>2, AtMostOne
  <2>4. QED
    BY <2>3 DEF OneDaemon, ProcInv, PidFileTrue, LatenessCounted
<1>3. QED
  BY <1>1, <1>2, ProcInitial, PTL DEF ProcSpec

(* The pid file, the socket and the unit name processes or nobody, and the *)
(* commands act on processes only, for any processes (core/lifecycle.py,   *)
(* watchdog.py, cli/commands.py).                                          *)
THEOREM ProcessesTyped == ProcSpec => []ProcTypeOK
<1>1. ProcInv /\ [ProcNext]_procVars => ProcInv'
  BY ProcTypesStep, SuccessionStep, PidFileStep, LatenessStep, CulledStep DEF ProcInv
<1>2. ProcInv => ProcTypeOK
  BY DEF ProcInv, ProcTypes
<1>3. QED
  BY <1>1, <1>2, ProcInitial, PTL DEF ProcSpec

-----------------------------------------------------------------------------
(* The structured log (storage/log_writer.py).                             *)
LogSpec == LogInit /\ [][LogNext]_logVars

(* Entries are numbered in the order of their calls.                       *)
Rising(s) == \A j, k \in DOMAIN s : j < k => s[j] < s[k]
Before(S, T) == \A x \in S, y \in T : x < y

LEMMA NoEntries == <<>> \in Seq(Nat) /\ ToSet(<<>>) = {} /\ Rising(<<>>) /\ Len(<<>>) = 0
  BY DEF ToSet, Rising

LEMMA Joined ==
  ASSUME NEW s \in Seq(Nat), NEW t \in Seq(Nat)
  PROVE  /\ s \o t \in Seq(Nat) /\ ToSet(s \o t) = ToSet(s) \union ToSet(t)
         /\ Rising(s) /\ Rising(t) /\ Before(ToSet(s), ToSet(t)) => Rising(s \o t)
<1> DEFINE c == s \o t
<1>1. /\ c \in Seq(Nat) /\ Len(c) = Len(s) + Len(t)
      /\ \A i \in 1..(Len(s) + Len(t)) : c[i] = IF i <= Len(s) THEN s[i] ELSE t[i - Len(s)]
  BY ConcatProperties
<1> HIDE DEF c
<1>2. DOMAIN s = 1..Len(s) /\ DOMAIN t = 1..Len(t) /\ DOMAIN c = 1..(Len(s) + Len(t)) /\ Len(s) \in Nat /\ Len(t) \in Nat
  BY <1>1, LenProperties
<1>3. ToSet(c) = ToSet(s) \union ToSet(t)
  <2>1. ASSUME NEW i \in 1..(Len(s) + Len(t)) PROVE c[i] \in ToSet(s) \union ToSet(t)
    <3>1. CASE i <= Len(s)
      <4>1. c[i] = s[i] /\ i \in DOMAIN s
        BY <1>1, <1>2, <3>1
      <4>2. QED
        BY <4>1 DEF ToSet
    <3>2. CASE i > Len(s)
      <4>1. c[i] = t[i - Len(s)] /\ i - Len(s) \in DOMAIN t
        BY <1>1, <1>2, <3>2
      <4>2. QED
        BY <4>1 DEF ToSet
    <3>3. QED
      BY <1>2, <3>1, <3>2
  <2>2. ASSUME NEW i \in 1..Len(s) PROVE s[i] \in ToSet(c)
    <3>1. i \in DOMAIN c /\ c[i] = s[i]
      BY <1>1, <1>2
    <3>2. QED
      BY <3>1 DEF ToSet
  <2>3. ASSUME NEW i \in 1..Len(t) PROVE t[i] \in ToSet(c)
    <3>0. i + Len(s) \in 1..(Len(s) + Len(t)) /\ ~(i + Len(s) <= Len(s)) /\ (i + Len(s)) - Len(s) = i
      BY <1>2
    <3>1. i + Len(s) \in DOMAIN c /\ c[i + Len(s)] = t[i]
      BY <1>1, <1>2, <3>0
    <3>2. QED
      BY <3>1 DEF ToSet
  <2>4. QED
    BY <1>2, <2>1, <2>2, <2>3 DEF ToSet
<1>4. ASSUME Rising(s), Rising(t), Before(ToSet(s), ToSet(t)) PROVE Rising(c)
  <2> SUFFICES ASSUME NEW j \in 1..(Len(s) + Len(t)), NEW k \in 1..(Len(s) + Len(t)), j < k
               PROVE  c[j] < c[k]
    BY <1>2 DEF Rising
  <2>1. CASE k <= Len(s)
    <3>1. c[j] = s[j] /\ c[k] = s[k] /\ j \in DOMAIN s /\ k \in DOMAIN s
      BY <1>1, <1>2, <2>1
    <3>2. QED
      BY <1>4, <3>1 DEF Rising
  <2>2. CASE j > Len(s)
    <3>1. c[j] = t[j - Len(s)] /\ c[k] = t[k - Len(s)]
      BY <1>1, <1>2, <2>2
    <3>2. j - Len(s) \in DOMAIN t /\ k - Len(s) \in DOMAIN t /\ j - Len(s) < k - Len(s)
      BY <1>2, <2>2
    <3>3. QED
      BY <1>4, <3>1, <3>2 DEF Rising
  <2>3. CASE j <= Len(s) /\ k > Len(s)
    <3>1. c[j] \in ToSet(s) /\ c[k] \in ToSet(t)
      <4>1. c[j] = s[j] /\ j \in DOMAIN s
        BY <1>1, <1>2, <2>3
      <4>2. c[k] = t[k - Len(s)] /\ k - Len(s) \in DOMAIN t
        BY <1>1, <1>2, <2>3
      <4>3. QED
        BY <4>1, <4>2 DEF ToSet
    <3>2. QED
      BY <1>4, <3>1 DEF Before
  <2>4. QED
    BY <1>2, <2>1, <2>2, <2>3
<1>5. QED
  BY <1>1, <1>3, <1>4 DEF c

LEMMA Parted ==
  ASSUME NEW s \in Seq(Nat), NEW n \in 0..Len(s), Rising(s)
  PROVE  /\ SubSeq(s, 1, n) \in Seq(Nat) /\ SubSeq(s, n + 1, Len(s)) \in Seq(Nat)
         /\ Rising(SubSeq(s, 1, n)) /\ Rising(SubSeq(s, n + 1, Len(s)))
         /\ Len(SubSeq(s, 1, n)) = n /\ Len(SubSeq(s, n + 1, Len(s))) <= Len(s)
         /\ ToSet(SubSeq(s, 1, n)) \union ToSet(SubSeq(s, n + 1, Len(s))) = ToSet(s)
         /\ Before(ToSet(SubSeq(s, 1, n)), ToSet(SubSeq(s, n + 1, Len(s))))
<1> DEFINE a == SubSeq(s, 1, n)  b == SubSeq(s, n + 1, Len(s))
<1>0. Len(s) \in Nat /\ DOMAIN s = 1..Len(s)
  BY LenProperties
<1>1. a \in Seq(Nat) /\ Len(a) = n /\ DOMAIN a = 1..n /\ \A i \in 1..n : a[i] = s[i]
  BY <1>0
<1>2. b \in Seq(Nat) /\ Len(b) = Len(s) - n /\ DOMAIN b = 1..(Len(s) - n) /\ \A i \in 1..(Len(s) - n) : b[i] = s[n + i]
  <2>1. \A i \in (n + 1)..Len(s) : s[i] \in Nat
    BY <1>0
  <2>2. b \in Seq(Nat) /\ Len(b) = (IF n + 1 <= Len(s) THEN Len(s) - (n + 1) + 1 ELSE 0)
        /\ \A i \in 1..(Len(s) - (n + 1) + 1) : b[i] = s[(n + 1) + i - 1]
    BY <1>0, <2>1, SubSeqProperties
  <2> HIDE DEF b
  <2>3. QED
    <3>1. Len(b) = Len(s) - n
      <4>1. Len(b) = IF n + 1 <= Len(s) THEN Len(s) - (n + 1) + 1 ELSE 0
        BY <2>2
      <4>2. CASE n + 1 <= Len(s)
        BY <1>0, <4>1, <4>2
      <4>3. CASE n = Len(s)
        BY <1>0, <4>1, <4>3
      <4>4. n + 1 <= Len(s) \/ n = Len(s)
        <5>1. n \in Nat /\ n <= Len(s) /\ Len(s) \in Nat
          BY <1>0
        <5>2. QED
          BY <5>1
      <4>5. QED
        BY <4>2, <4>3, <4>4
    <3>2. ASSUME NEW i \in 1..(Len(s) - n) PROVE b[i] = s[n + i]
      <4>1. i \in 1..(Len(s) - (n + 1) + 1) /\ (n + 1) + i - 1 = n + i
        BY <1>0
      <4>2. QED
        BY <2>2, <4>1
    <3>3. QED
      BY <2>2, <3>1, <3>2, LenProperties
<1> HIDE DEF a, b
<1>3. Rising(a)
  BY <1>0, <1>1 DEF Rising
<1>4. Rising(b)
  <2> SUFFICES ASSUME NEW j \in 1..(Len(s) - n), NEW k \in 1..(Len(s) - n), j < k PROVE b[j] < b[k]
    BY <1>2 DEF Rising
  <2>1. n + j \in DOMAIN s /\ n + k \in DOMAIN s /\ n + j < n + k
    BY <1>0
  <2>2. s[n + j] < s[n + k]
    BY <2>1 DEF Rising
  <2>3. QED
    BY <1>2, <2>2
<1>5. s = a \o b
  <2>1. SubSeq(s, 1, Len(s)) = s
    BY SubSeqFull
  <2>2. SubSeq(s, 1, n) \o SubSeq(s, n + 1, Len(s)) = SubSeq(s, 1, Len(s))
    <3>1. 1 \in 1..(Len(s) + 1) /\ n \in (1 - 1)..Len(s) /\ Len(s) \in n..Len(s)
      BY <1>0
    <3>2. QED
      BY <3>1, ConcatAdjacentSubSeq
  <2>3. QED
    BY <2>1, <2>2 DEF a, b
<1>6. ToSet(a) \union ToSet(b) = ToSet(s)
  BY <1>1, <1>2, <1>5, Joined
<1>7. Before(ToSet(a), ToSet(b))
  <2> SUFFICES ASSUME NEW j \in 1..n, NEW k \in 1..(Len(s) - n) PROVE a[j] < b[k]
    BY <1>1, <1>2 DEF Before, ToSet
  <2>1. j \in DOMAIN s /\ n + k \in DOMAIN s /\ j < n + k
    BY <1>0
  <2>2. s[j] < s[n + k]
    BY <2>1 DEF Rising
  <2>3. QED
    BY <1>1, <1>2, <2>2
<1>8. Len(b) <= Len(s)
  BY <1>0, <1>2
<1>9. QED
  BY <1>1, <1>2, <1>3, <1>4, <1>6, <1>7, <1>8 DEF a, b

LEMMA Appended ==
  ASSUME NEW s \in Seq(Nat), NEW x \in Nat
  PROVE  /\ Append(s, x) \in Seq(Nat) /\ ToSet(Append(s, x)) = ToSet(s) \union {x}
         /\ Len(Append(s, x)) = Len(s) + 1
         /\ Rising(s) /\ Before(ToSet(s), {x}) => Rising(Append(s, x))
<1>1. <<x>> \in Seq(Nat) /\ ToSet(<<x>>) = {x} /\ Rising(<<x>>) /\ Append(s, x) = s \o <<x>>
  BY DEF ToSet, Rising
<1>2. Len(Append(s, x)) = Len(s) + 1
  OBVIOUS
<1>3. QED
  BY <1>1, <1>2, Joined

LEMMA SmallerOf == ASSUME NEW a \in Nat, NEW b \in Nat PROVE Min({a, b}) \in 0..a /\ Min({a, b}) <= b /\ Min({a, b}) \in {a, b}
<1>1. \E x \in {a, b} : \A y \in {a, b} : x <= y
  OBVIOUS
<1>2. Min({a, b}) \in {a, b} /\ \A y \in {a, b} : Min({a, b}) <= y
  BY <1>1 DEF Min
<1>3. QED
  BY <1>2

(* What the loop has taken and not inserted.                               *)
LinesHeld == IF loop = "insert" THEN batch ELSE <<>>

(* The entries in the log, the open transaction, the loop's hands and the  *)
(* queue: those of an earlier place were logged before those of a later.   *)
Ordered(R, T, H, P, n) ==
  /\ Before(R, T) /\ Before(R, H) /\ Before(R, P) /\ Before(T, H) /\ Before(T, P) /\ Before(H, P)
  /\ R \subseteq 1..n /\ T \subseteq 1..n /\ H \subseteq 1..n /\ P \subseteq 1..n

LEMMA OrderedWhenLogged ==
  ASSUME NEW R, NEW T, NEW H, NEW P, NEW n \in Nat, Ordered(R, T, H, P, n)
  PROVE  /\ Ordered(R, T, H, P, n + 1) /\ Ordered(R, T, H, P \union {n + 1}, n + 1)
         /\ 1..(n + 1) = (1..n) \union {n + 1}
<1>1. 1..(n + 1) = (1..n) \union {n + 1} /\ \A i \in 1..n : i < n + 1
  OBVIOUS
<1>2. QED
  BY <1>1 DEF Ordered, Before

LEMMA OrderedWhenTaken ==
  ASSUME NEW R, NEW T, NEW P, NEW A, NEW B, NEW n, Ordered(R, T, {}, P, n), A \union B = P, Before(A, B)
  PROVE  Ordered(R, T, A, B, n)
  BY DEF Ordered, Before

LEMMA OrderedWhenInserted ==
  ASSUME NEW R, NEW T, NEW H, NEW P, NEW A, NEW n, Ordered(R, T, H, P, n), A \subseteq H
  PROVE  Ordered(R, T \union A, {}, P, n)
  BY DEF Ordered, Before

LEMMA OrderedWhenCommitted ==
  ASSUME NEW R, NEW T, NEW P, NEW n, Ordered(R, T, {}, P, n)
  PROVE  Ordered(R \union T, {}, {}, P, n) /\ Ordered((R \union T) \union P, {}, {}, {}, n)
  BY DEF Ordered, Before

LEMMA OrderedWhenLost ==
  ASSUME NEW R, NEW T, NEW H, NEW P, NEW n, Ordered(R, T, H, P, n)
  PROVE  Ordered(R, T, {}, P, n) /\ Ordered(R, T, {}, {}, n) /\ Ordered(R, {}, {}, P, n) /\ Ordered(R, {}, {}, {}, n)
  BY DEF Ordered, Before

(* Every place has its entries in the order of the calls, and together,    *)
(* unless a stop was disturbed, they have all that were accepted.          *)
LogInv ==
  /\ logged \in Nat /\ refused \subseteq 1..logged
  /\ loop \in {"get", "insert", "commit", "sleep", "drain", "ended"}
  /\ writer \in {"runs", "stops", "closed"}
  /\ logRows \in Seq(Nat) /\ txn \in Seq(Nat) /\ batch \in Seq(Nat) /\ pipe \in Seq(Nat)
  /\ Rising(logRows) /\ Rising(txn) /\ Rising(batch) /\ Rising(pipe)
  /\ Ordered(ToSet(logRows), ToSet(txn), ToSet(LinesHeld), ToSet(pipe), logged)
  /\ loop \in {"ended", "drain"} => writer # "runs"
  /\ writer = "closed" => loop = "ended"
  /\ ~spoiled =>
       /\ ToSet(logRows) \union ToSet(txn) \union ToSet(LinesHeld) \union ToSet(pipe) \union refused = 1..logged
       /\ loop \in {"get", "insert", "commit", "ended"}
       /\ loop # "commit" => txn = <<>>
       /\ loop = "ended" => pipe = <<>>

LEMMA LogInitial == LogInit => LogInv
  BY NoEntries DEF LogInit, LogInv, LinesHeld, Ordered, Before

LEMMA LogStep == LogInv /\ [LogNext]_logVars => LogInv'
<1> SUFFICES ASSUME LogInv, [LogNext]_logVars PROVE LogInv'
  OBVIOUS
<1>1. CASE LogNowait
  <2>0. logged' = logged + 1 /\ LinesHeld' = LinesHeld /\ writer = "runs" /\ UNCHANGED <<batch, txn, logRows, loop, writer, spoiled>>
    BY <1>1 DEF LogNowait, LinesHeld
  <2>1. CASE pipe' = Append(pipe, logged') /\ UNCHANGED refused
    <3>1. Before(ToSet(pipe), {logged'})
      BY <2>0 DEF LogInv, Ordered, Before
    <3>2. ToSet(pipe') = ToSet(pipe) \union {logged'} /\ Rising(pipe') /\ pipe' \in Seq(Nat)
      <4>1. logged' \in Nat /\ pipe \in Seq(Nat) /\ Rising(pipe)
        BY <2>0 DEF LogInv
      <4>2. QED
        BY <2>1, <3>1, <4>1, Appended
    <3>3. Ordered(ToSet(logRows), ToSet(txn), ToSet(LinesHeld), ToSet(pipe'), logged') /\ 1..logged' = (1..logged) \union {logged'}
      BY <2>0, <3>2, OrderedWhenLogged DEF LogInv
    <3>4. QED
      BY <2>0, <2>1, <3>2, <3>3 DEF LogInv
  <2>2. CASE refused' = refused \union {logged'} /\ UNCHANGED pipe
    <3>1. Ordered(ToSet(logRows), ToSet(txn), ToSet(LinesHeld), ToSet(pipe), logged') /\ 1..logged' = (1..logged) \union {logged'}
      BY <2>0, OrderedWhenLogged DEF LogInv
    <3>2. QED
      BY <2>0, <2>2, <3>1 DEF LogInv
  <2>3. QED
    BY <1>1, <2>1, <2>2 DEF LogNowait
<1>2. CASE LoopTakes
  <2> DEFINE n == Min({BatchSize, Len(pipe)})
  <2>0. /\ loop = "get" /\ loop' = "insert" /\ UNCHANGED <<logged, refused, txn, logRows, writer, spoiled>>
        /\ batch' = SubSeq(pipe, 1, n) /\ pipe' = SubSeq(pipe, n + 1, Len(pipe))
    BY <1>2 DEF LoopTakes
  <2>1. n \in 0..Len(pipe)
    <3>1. BatchSize \in Nat /\ Len(pipe) \in Nat
      BY LogWriterAssumption, LenProperties DEF LogInv
    <3>2. n \in 0..BatchSize /\ n <= Len(pipe)
      BY <3>1, SmallerOf
    <3>3. QED
      BY <3>1, <3>2
  <2> HIDE DEF n
  <2>2. /\ batch' \in Seq(Nat) /\ pipe' \in Seq(Nat) /\ Rising(batch') /\ Rising(pipe')
        /\ ToSet(batch') \union ToSet(pipe') = ToSet(pipe) /\ Before(ToSet(batch'), ToSet(pipe'))
    BY <2>0, <2>1, Parted DEF LogInv
  <2>3. ToSet(LinesHeld) = {} /\ ToSet(LinesHeld') = ToSet(batch')
    BY <2>0, NoEntries DEF LinesHeld
  <2>4. Ordered(ToSet(logRows), ToSet(txn), ToSet(LinesHeld'), ToSet(pipe'), logged)
    BY <2>2, <2>3, OrderedWhenTaken DEF LogInv
  <2>5. ToSet(LinesHeld') \union ToSet(pipe') = ToSet(LinesHeld) \union ToSet(pipe)
    BY <2>2, <2>3
  <2>6. QED
    BY <2>0, <2>2, <2>4, <2>5 DEF LogInv
<1>3. CASE LoopTimesOut
  BY <1>3 DEF LoopTimesOut, LinesHeld, LogInv
<1>4. CASE LoopInserts
  <2>0. /\ loop = "insert" /\ loop' = "commit" /\ txn' = txn \o batch
        /\ UNCHANGED <<logged, refused, pipe, batch, logRows, writer, spoiled>>
    BY <1>4 DEF LoopInserts
  <2>1. LinesHeld = batch /\ LinesHeld' = <<>>
    BY <2>0 DEF LinesHeld
  <2>2. Before(ToSet(txn), ToSet(batch))
    BY <2>1 DEF LogInv, Ordered
  <2>3. txn' \in Seq(Nat) /\ ToSet(txn') = ToSet(txn) \union ToSet(batch) /\ Rising(txn')
    BY <2>0, <2>2, Joined DEF LogInv
  <2>4. Ordered(ToSet(logRows), ToSet(txn'), ToSet(LinesHeld'), ToSet(pipe), logged)
    <3>1. Ordered(ToSet(logRows), ToSet(txn) \union ToSet(batch), {}, ToSet(pipe), logged)
      BY <2>1, OrderedWhenInserted DEF LogInv
    <3>2. QED
      BY <3>1, <2>1, <2>3, NoEntries
  <2>5. QED
    BY <2>0, <2>1, <2>3, <2>4, NoEntries DEF LogInv
<1>5. CASE LoopCommits
  <2>0. /\ loop = "commit" /\ loop' \in {"get", "ended"} /\ logRows' = logRows \o txn /\ txn' = <<>> /\ batch' = <<>>
        /\ UNCHANGED <<logged, refused, pipe, writer, spoiled>> /\ (loop' = "ended" => writer # "runs" /\ pipe = <<>>)
    BY <1>5 DEF LoopCommits, GoesOn
  <2>1. LinesHeld = <<>> /\ LinesHeld' = <<>>
    BY <2>0 DEF LinesHeld
  <2>2. Before(ToSet(logRows), ToSet(txn))
    BY DEF LogInv, Ordered
  <2>3. logRows' \in Seq(Nat) /\ ToSet(logRows') = ToSet(logRows) \union ToSet(txn) /\ Rising(logRows')
    BY <2>0, <2>2, Joined DEF LogInv
  <2>4. Ordered(ToSet(logRows'), ToSet(txn'), ToSet(LinesHeld'), ToSet(pipe), logged)
    <3>1. Ordered(ToSet(logRows) \union ToSet(txn), {}, {}, ToSet(pipe), logged)
      BY <2>1, NoEntries, OrderedWhenCommitted DEF LogInv
    <3>2. QED
      BY <3>1, <2>0, <2>1, <2>3, NoEntries
  <2>5. QED
    BY <2>0, <2>1, <2>3, <2>4, NoEntries DEF LogInv
<1>6. CASE LoopFails
  <2>0. /\ spoiled' /\ loop' = "sleep" /\ batch' = <<>> /\ UNCHANGED <<logged, refused, pipe, logRows, writer>>
        /\ loop \in {"insert", "commit"}
    BY <1>6 DEF LoopFails
  <2>1. LinesHeld' = <<>>
    BY <2>0 DEF LinesHeld
  <2>2. CASE loop = "insert"
    <3>1. PICK n \in 0..(Len(batch) - 1) : txn' = txn \o SubSeq(batch, 1, n)
      BY <1>6, <2>2 DEF LoopFails
    <3>2. n \in 0..Len(batch)
      BY LenProperties DEF LogInv
    <3> DEFINE c == SubSeq(batch, 1, n)
    <3>3. c \in Seq(Nat) /\ Rising(c) /\ ToSet(c) \subseteq ToSet(batch)
      BY <3>2, Parted DEF LogInv
    <3> HIDE DEF c
    <3>4. LinesHeld = batch
      BY <2>2 DEF LinesHeld
    <3>5. Before(ToSet(txn), ToSet(c))
      BY <3>3, <3>4 DEF LogInv, Ordered, Before
    <3>6. txn' \in Seq(Nat) /\ ToSet(txn') = ToSet(txn) \union ToSet(c) /\ Rising(txn')
      BY <3>1, <3>3, <3>5, Joined DEF LogInv, c
    <3>7. Ordered(ToSet(logRows), ToSet(txn'), ToSet(LinesHeld'), ToSet(pipe), logged)
      <4>1. Ordered(ToSet(logRows), ToSet(txn) \union ToSet(c), {}, ToSet(pipe), logged)
        BY <3>3, <3>4, OrderedWhenInserted DEF LogInv
      <4>2. QED
        BY <4>1, <2>1, <3>6, NoEntries
    <3>8. QED
      BY <2>0, <3>6, <3>7, NoEntries DEF LogInv
  <2>3. CASE loop = "commit"
    <3>1. UNCHANGED txn
      BY <1>6, <2>3 DEF LoopFails
    <3>2. Ordered(ToSet(logRows), ToSet(txn), ToSet(LinesHeld'), ToSet(pipe), logged)
      BY <2>1, NoEntries, OrderedWhenLost DEF LogInv
    <3>3. QED
      BY <2>0, <3>1, <3>2, NoEntries DEF LogInv
  <2>4. QED
    BY <2>0, <2>2, <2>3
<1>7. CASE LoopWakes
  BY <1>7 DEF LoopWakes, LinesHeld, LogInv
<1>8. CASE StopCalled
  BY <1>8 DEF StopCalled, LinesHeld, LogInv
<1>9. CASE StopCancels
  <2>0. /\ spoiled' /\ loop' \in {"ended", "drain"} /\ batch' = <<>> /\ writer = "stops"
        /\ UNCHANGED <<logged, refused, pipe, writer>>
    BY <1>9 DEF StopCancels
  <2>1. LinesHeld' = <<>>
    BY <2>0 DEF LinesHeld
  <2>2. CASE loop = "insert"
    <3>1. txn' = txn \o batch /\ logRows' = logRows /\ LinesHeld = batch
      BY <1>9, <2>2 DEF StopCancels, LinesHeld
    <3>2. Before(ToSet(txn), ToSet(batch))
      BY <3>1 DEF LogInv, Ordered
    <3>3. txn' \in Seq(Nat) /\ ToSet(txn') = ToSet(txn) \union ToSet(batch) /\ Rising(txn')
      BY <3>1, <3>2, Joined DEF LogInv
    <3>4. Ordered(ToSet(logRows), ToSet(txn'), ToSet(LinesHeld'), ToSet(pipe), logged)
      <4>1. Ordered(ToSet(logRows), ToSet(txn) \union ToSet(batch), {}, ToSet(pipe), logged)
        BY <3>1, OrderedWhenInserted DEF LogInv
      <4>2. QED
        BY <4>1, <2>1, <3>1, <3>3, NoEntries
    <3>5. QED
      BY <2>0, <3>1, <3>3, <3>4, NoEntries DEF LogInv
  <2>3. CASE loop = "commit"
    <3>1. txn' = <<>> /\ logRows' = logRows \o txn /\ LinesHeld = <<>>
      BY <1>9, <2>3 DEF StopCancels, LinesHeld
    <3>2. Before(ToSet(logRows), ToSet(txn))
      BY DEF LogInv, Ordered
    <3>3. logRows' \in Seq(Nat) /\ ToSet(logRows') = ToSet(logRows) \union ToSet(txn) /\ Rising(logRows')
      BY <3>1, <3>2, Joined DEF LogInv
    <3>4. Ordered(ToSet(logRows'), ToSet(txn'), ToSet(LinesHeld'), ToSet(pipe), logged)
      <4>1. Ordered(ToSet(logRows) \union ToSet(txn), {}, {}, ToSet(pipe), logged)
        BY <3>1, NoEntries, OrderedWhenCommitted DEF LogInv
      <4>2. QED
        BY <4>1, <2>1, <3>1, <3>3, NoEntries
    <3>5. QED
      BY <2>0, <3>1, <3>3, <3>4, NoEntries DEF LogInv
  <2>4. CASE loop \notin {"insert", "commit"}
    <3>1. UNCHANGED <<txn, logRows>> /\ LinesHeld = <<>>
      BY <1>9, <2>4 DEF StopCancels, LinesHeld
    <3>2. QED
      BY <2>0, <2>1, <3>1, NoEntries DEF LogInv
  <2>5. QED
    BY <2>2, <2>3, <2>4
<1>10. CASE Drains
  <2>0. /\ loop = "drain" /\ loop' = "ended" /\ pipe' = <<>> /\ spoiled /\ writer # "runs"
        /\ UNCHANGED <<logged, refused, batch, writer, spoiled>>
    <3>1. loop = "drain" => spoiled /\ writer # "runs"
      BY DEF LogInv
    <3>2. QED
      BY <1>10, <3>1 DEF Drains
  <2>1. LinesHeld = <<>> /\ LinesHeld' = <<>>
    BY <2>0 DEF LinesHeld
  <2>2. CASE logRows' = logRows \o txn \o pipe /\ txn' = <<>>
    <3> DEFINE c == logRows \o txn
    <3>1. c \in Seq(Nat) /\ ToSet(c) = ToSet(logRows) \union ToSet(txn) /\ Rising(c)
      BY Joined DEF LogInv, Ordered
    <3>2. Before(ToSet(c), ToSet(pipe))
      BY <3>1 DEF LogInv, Ordered, Before
    <3>3. logRows' = c \o pipe
      BY <2>2
    <3> HIDE DEF c
    <3>4. logRows' \in Seq(Nat) /\ ToSet(logRows') = ToSet(c) \union ToSet(pipe) /\ Rising(logRows')
      BY <3>1, <3>2, <3>3, Joined DEF LogInv
    <3>5. Ordered(ToSet(logRows'), ToSet(txn'), ToSet(LinesHeld'), ToSet(pipe'), logged)
      <4>1. Ordered((ToSet(logRows) \union ToSet(txn)) \union ToSet(pipe), {}, {}, {}, logged)
        BY <2>1, NoEntries, OrderedWhenCommitted DEF LogInv
      <4>2. QED
        BY <4>1, <2>0, <2>1, <2>2, <3>1, <3>4, NoEntries
    <3>6. QED
      BY <2>0, <2>2, <3>4, <3>5, NoEntries DEF LogInv
  <2>3. CASE UNCHANGED <<txn, logRows>>
    <3>1. Ordered(ToSet(logRows), ToSet(txn), ToSet(LinesHeld'), ToSet(pipe'), logged)
      BY <2>0, <2>1, NoEntries, OrderedWhenLost DEF LogInv
    <3>2. QED
      BY <2>0, <2>3, <3>1, NoEntries DEF LogInv
  <2>4. QED
    BY <1>10, <2>2, <2>3 DEF Drains
<1>11. CASE Closes
  <2>0. /\ loop = "ended" /\ writer' = "closed" /\ txn' = <<>> /\ UNCHANGED <<logged, refused, pipe, batch, logRows, loop, spoiled>>
        /\ LinesHeld = <<>> /\ LinesHeld' = <<>>
    BY <1>11 DEF Closes, LinesHeld
  <2>1. Ordered(ToSet(logRows), ToSet(txn'), ToSet(LinesHeld'), ToSet(pipe), logged)
    BY <2>0, NoEntries, OrderedWhenLost DEF LogInv
  <2>2. QED
    BY <2>0, <2>1, NoEntries DEF LogInv
<1>12. CASE LogDies
  <2>0. /\ writer' = "closed" /\ loop' = "ended" /\ spoiled' /\ pipe' = <<>> /\ batch' = <<>> /\ txn' = <<>>
        /\ UNCHANGED <<logged, refused, logRows>> /\ LinesHeld' = <<>>
    BY <1>12 DEF LogDies, LinesHeld
  <2>1. Ordered(ToSet(logRows), ToSet(txn'), ToSet(LinesHeld'), ToSet(pipe'), logged)
    BY <2>0, NoEntries, OrderedWhenLost DEF LogInv
  <2>2. QED
    BY <2>0, <2>1, NoEntries DEF LogInv
<1>13. CASE UNCHANGED logVars
  BY <1>13 DEF logVars, LinesHeld, LogInv
<1>14. QED
  BY <1>1, <1>2, <1>3, <1>4, <1>5, <1>6, <1>7, <1>8, <1>9, <1>10, <1>11, <1>12, <1>13 DEF LogNext, LogLoop

(* The log keeps the order of the calls, has no entry twice, and is whole  *)
(* after a stop that nothing disturbed, for any number of calls and any    *)
(* batch size (storage/log_writer.py).                                     *)
THEOREM LogsAreSound == LogSpec => []LogsSound
<1>1. LogInv => LogsSound
  <2> SUFFICES ASSUME LogInv PROVE LogsSound
    OBVIOUS
  <2>1. ASSUME writer = "closed", ~spoiled PROVE ToSet(logRows) \union refused = 1..logged
    <3>1. ToSet(txn) = {} /\ ToSet(pipe) = {} /\ ToSet(LinesHeld) = {}
      BY <2>1, NoEntries DEF LogInv, LinesHeld
    <3>2. QED
      BY <2>1, <3>1 DEF LogInv
  <2>2. QED
    BY <2>1 DEF LogInv, LogsSound, Rising
<1>2. QED
  BY <1>1, LogInitial, LogStep, PTL DEF LogSpec

-----------------------------------------------------------------------------
(* Step logs (session logger and dreamer).                                 *)
StepSpec == StepInit /\ [][StepNext]_stepVars

(* An entry of a list, whatever its numbers.                               *)
AnyEntry == [session : Sessions, index : Nat, step : Nat]

(* An entry has a step that was made in its session, and an index that the *)
(* table has a place for.                                                  *)
EntrySound(m, e) ==
  e \in AnyEntry /\ e.index \in 1..MaxSteps /\ e.step \in 1..Len(m) /\ m[e.step] = e.session

(* Entries that INSERT OR IGNORE does not take for one another.            *)
Apart(S) == \A e, f \in S : e.session = f.session /\ e.index = f.index => e = f

Insertable(m, S) == Apart(S) /\ \A e \in S : EntrySound(m, e)

(* A row has a step of its session.                                        *)
RowsSound ==
  /\ rows \in [Sessions -> [1..MaxSteps -> Nat]]
  /\ \A s \in Sessions, i \in 1..MaxSteps :
       rows[s][i] # 0 => rows[s][i] \in Steps /\ made[rows[s][i]] = s

(* The steps in RAM and in the hands of tasks; their lists are insertable, *)
(* and a list in RAM has no index that its session has not given out.      *)
Listed == AllIn(tasks \union {ram[s] : s \in Sessions})

ListsSound ==
  /\ made \in Seq(Sessions) /\ Len(made) <= MaxSteps
  /\ counter \in [Sessions -> Nat] /\ \A s \in Sessions : counter[s] <= Len(made)
  /\ ram \in [Sessions -> Seq(AnyEntry)] /\ tasks \subseteq Seq(AnyEntry)
  /\ \A s \in Sessions :
       /\ Insertable(made, ToSet(ram[s]))
       /\ \A e \in ToSet(ram[s]) : e.session = s /\ e.index <= counter[s]
  /\ \A b \in tasks : Insertable(made, ToSet(b))
  /\ quiet \subseteq Sessions

StepInv == RowsSound /\ ListsSound /\ Steps \subseteq Stored \union Listed \union excused

LEMMA StepBounds == MaxSteps \in Nat \ {0} /\ FlushEvery \in Nat \ {0}
  BY StepLogsAssumption

LEMMA Numbers == ASSUME NEW b PROVE NumberOf(b) = {e.step : e \in ToSet(b)}
  BY DEF NumberOf, ToSet

LEMMA Empty == ToSet(<<>>) = {} /\ NumberOf(<<>>) = {} /\ <<>> \in Seq(AnyEntry)
  BY DEF ToSet, NumberOf

LEMMA StepInitial == StepInit => StepInv
<1> SUFFICES ASSUME StepInit PROVE StepInv
  OBVIOUS
<1>1. RowsSound
  BY DEF StepInit, RowsSound
<1>2. ListsSound
  <2>1. \A s \in Sessions : ram[s] = <<>>
    BY DEF StepInit
  <2>2. \A s \in Sessions : Insertable(made, ToSet(ram[s])) /\ ToSet(ram[s]) = {}
    BY <2>1, Empty DEF Insertable, Apart
  <2>3. ram \in [Sessions -> Seq(AnyEntry)] /\ tasks \subseteq Seq(AnyEntry) /\ tasks = {} /\ quiet \subseteq Sessions
    BY Empty DEF StepInit
  <2>4. made = <<>> /\ made \in Seq(Sessions) /\ Len(made) = 0
    BY DEF StepInit
  <2>5. counter \in [Sessions -> Nat] /\ \A s \in Sessions : counter[s] <= Len(made)
    BY <2>4 DEF StepInit
  <2>6. QED
    BY <2>2, <2>3, <2>4, <2>5, StepBounds DEF ListsSound
<1>3. Steps = {}
  BY DEF StepInit, Steps
<1>4. QED
  BY <1>1, <1>2, <1>3 DEF StepInv

(* What INSERT OR IGNORE does with entries that it can tell apart: each is *)
(* in the table or excused.                                                *)
LEMMA Inserted ==
  ASSUME RowsSound, NEW S, Insertable(made, S), Insert(S), UNCHANGED made
  PROVE  /\ RowsSound' /\ Stored \subseteq Stored' /\ excused \subseteq excused'
         /\ \A e \in S : e.step \in Stored' \union excused'
<1> DEFINE new == {e \in S : ~(rows[e.session][e.index] # 0)}
           at(s, i) == \E e \in new : e.session = s /\ e.index = i
           one(s, i) == CHOOSE e \in new : e.session = s /\ e.index = i
<1>1. /\ rows' = [s \in Sessions |-> [i \in 1..MaxSteps |-> IF at(s, i) THEN one(s, i).step ELSE rows[s][i]]]
      /\ excused' = excused \union ({e.step : e \in S \ new} \ Stored)
  BY DEF Insert
<1>2. ASSUME NEW s \in Sessions, NEW i \in 1..MaxSteps, at(s, i)
      PROVE  one(s, i) \in new /\ one(s, i).session = s /\ one(s, i).index = i
  BY <1>2
<1> HIDE DEF one
<1>3. \A e \in new : e \in S /\ EntrySound(made, e) /\ rows[e.session][e.index] = 0
  BY DEF Insertable
<1>4. ASSUME NEW s \in Sessions, NEW i \in 1..MaxSteps
      PROVE  /\ rows'[s][i] \in Nat
             /\ rows'[s][i] # 0 => rows'[s][i] \in Steps /\ made[rows'[s][i]] = s
             /\ rows[s][i] # 0 => rows'[s][i] = rows[s][i]
  <2>1. CASE at(s, i)
    <3>1. one(s, i) \in new /\ one(s, i).session = s /\ one(s, i).index = i
      BY <1>2, <2>1
    <3>2. rows'[s][i] = one(s, i).step
      BY <1>1, <2>1
    <3>3. rows[s][i] = 0
      BY <1>3, <3>1
    <3>4. EntrySound(made, one(s, i))
      BY <1>3, <3>1
    <3>5. QED
      BY <3>1, <3>2, <3>3, <3>4 DEF EntrySound, AnyEntry, Steps
  <2>2. CASE ~at(s, i)
    <3>1. rows'[s][i] = rows[s][i]
      BY <1>1, <2>2
    <3>2. QED
      BY <3>1 DEF RowsSound
  <2>3. QED
    BY <2>1, <2>2
<1>5. rows' \in [Sessions -> [1..MaxSteps -> Nat]]
  <2>1. ASSUME NEW s \in Sessions PROVE rows'[s] \in [1..MaxSteps -> Nat]
    <3>1. rows'[s] = [i \in 1..MaxSteps |-> IF at(s, i) THEN one(s, i).step ELSE rows[s][i]]
      BY <1>1
    <3> HIDE DEF at
    <3>2. QED
      BY <1>4, <3>1
  <2>2. rows' = [s \in Sessions |-> rows'[s]]
    BY <1>1
  <2>3. QED
    BY <2>1, <2>2
<1>6. RowsSound'
  BY <1>4, <1>5 DEF RowsSound, Steps
<1>7. Stored \subseteq Stored'
  <2> SUFFICES ASSUME NEW n \in Stored PROVE n \in Stored'
    OBVIOUS
  <2>1. PICK s \in Sessions, i \in 1..MaxSteps : n = rows[s][i] /\ n # 0
    BY DEF Stored
  <2>2. rows'[s][i] = n
    BY <1>4, <2>1
  <2>3. QED
    BY <2>1, <2>2 DEF Stored
<1>8. ASSUME NEW e \in S PROVE e.step \in Stored' \union excused'
  <2>1. CASE e \in new
    <3>1. e.session \in Sessions /\ e.index \in 1..MaxSteps /\ e.step # 0
      BY <2>1, <1>3 DEF EntrySound, AnyEntry, Steps
    <3>2. at(e.session, e.index)
      BY <2>1
    <3>3. one(e.session, e.index) \in new /\ one(e.session, e.index).session = e.session
          /\ one(e.session, e.index).index = e.index
      BY <1>2, <3>1, <3>2
    <3>4. one(e.session, e.index) = e
      BY <3>3, <1>3 DEF Insertable, Apart
    <3>5. rows'[e.session][e.index] = e.step
      BY <1>1, <3>1, <3>2, <3>4
    <3>6. QED
      BY <3>1, <3>5 DEF Stored
  <2>2. CASE e \notin new
    BY <1>1, <1>7, <2>2
  <2>3. QED
    BY <2>1, <2>2
<1>9. QED
  BY <1>1, <1>6, <1>7, <1>8

LEMMA NotInserted ==
  ASSUME NEW S, InsertFails(S)
  PROVE  /\ UNCHANGED rows /\ excused \subseteq excused'
         /\ \A e \in S : e.step \in Stored \union excused'
  BY DEF InsertFails, table

LEMMA ListedIs ==
  \A n : n \in Listed <=> (\E b \in tasks : n \in NumberOf(b)) \/ (\E s \in Sessions : n \in NumberOf(ram[s]))
  BY DEF Listed, AllIn

LEMMA ListedWillBe ==
  \A n : n \in Listed' <=> (\E b \in tasks' : n \in NumberOf(b)) \/ (\E s \in Sessions : n \in NumberOf(ram'[s]))
  BY DEF Listed, AllIn, NumberOf

(* Nothing but the rows and the excuses changed, and for the better.       *)
LEMMA RowsFill ==
  ASSUME StepInv, RowsSound', Stored \subseteq Stored', excused \subseteq excused',
         UNCHANGED <<made, counter, ram, tasks>>, quiet' \subseteq Sessions
  PROVE  StepInv'
<1>1. Listed' = Listed /\ Steps' = Steps
  BY DEF Listed, AllIn, NumberOf, Steps
<1>2. ListsSound'
  BY DEF StepInv, ListsSound, Insertable, EntrySound, Steps
<1>3. QED
  BY <1>1, <1>2 DEF StepInv

(* Lists and tasks go away whose steps are in the table or excused.        *)
LEMMA ListsShrink ==
  ASSUME StepInv, RowsSound', Stored \subseteq Stored', excused \subseteq excused', UNCHANGED <<made, quiet>>,
         tasks' \subseteq tasks, counter' \in [Sessions -> Nat], ram' \in [Sessions -> Seq(AnyEntry)],
         \A s \in Sessions : (ram'[s] = ram[s] /\ counter'[s] = counter[s]) \/ (ram'[s] = <<>> /\ counter'[s] = 0),
         \A b \in tasks \ tasks' : NumberOf(b) \subseteq Stored' \union excused',
         \A s \in Sessions : ram'[s] # ram[s] => NumberOf(ram[s]) \subseteq Stored' \union excused'
  PROVE  StepInv'
<1>1. \A S : Insertable(made, S) => Insertable(made', S)
  BY DEF Insertable, EntrySound, Apart
<1>2. ASSUME NEW s \in Sessions
      PROVE  /\ counter'[s] <= Len(made)
             /\ Insertable(made', ToSet(ram'[s]))
             /\ \A e \in ToSet(ram'[s]) : e.session = s /\ e.index <= counter'[s]
  <2>1. CASE ram'[s] = ram[s] /\ counter'[s] = counter[s]
    BY <1>1, <2>1 DEF StepInv, ListsSound
  <2>2. CASE ram'[s] = <<>> /\ counter'[s] = 0
    <3>1. ToSet(ram'[s]) = {} /\ Len(made) \in Nat
      BY <2>2, Empty, LenProperties DEF StepInv, ListsSound
    <3>2. QED
      BY <2>2, <3>1 DEF Insertable, Apart
  <2>3. QED
    BY <2>1, <2>2
<1>3. ListsSound'
  <2>1. \A b \in tasks' : Insertable(made', ToSet(b))
    BY <1>1 DEF StepInv, ListsSound
  <2>2. made' = made /\ made \in Seq(Sessions) /\ Len(made) <= MaxSteps
    BY DEF StepInv, ListsSound
  <2>3. QED
    BY <1>2, <2>1, <2>2 DEF StepInv, ListsSound
<1>4. Steps' \subseteq Stored' \union Listed' \union excused'
  <2> SUFFICES ASSUME NEW n \in Steps, n \notin Stored', n \notin excused' PROVE n \in Listed'
    BY DEF Steps
  <2>1. n \in Listed
    BY DEF StepInv
  <2>2. CASE \E b \in tasks : n \in NumberOf(b)
    BY <2>2, ListedWillBe
  <2>3. CASE \E s \in Sessions : n \in NumberOf(ram[s])
    BY <2>3, ListedWillBe
  <2>4. QED
    BY <2>1, <2>2, <2>3, ListedIs
<1>5. QED
  BY <1>3, <1>4 DEF StepInv

LEMMA StepAdded == ASSUME StepInv, NEW s \in Sessions, AddStep(s) PROVE StepInv'
<1> DEFINE n == Len(made) + 1
           full == counter[s] = 0 /\ Cardinality(Held) >= SessionsCap
           i == counter[s] + 1
           list == Append(ram[s], Entry(s, i, n))
           flushed == i % FlushEvery = 0
           kept == [ram EXCEPT ![s] = IF flushed THEN <<>> ELSE list]
<1>1. PICK o \in IF full THEN Oldest ELSE {s} :
        /\ counter' = [[counter EXCEPT ![s] = i] EXCEPT ![o] = IF o = s THEN i ELSE 0]
        /\ ram' = IF o = s THEN kept ELSE [kept EXCEPT ![o] = <<>>]
        /\ tasks' = tasks \union (IF full /\ ram[o] # <<>> THEN {ram[o]} ELSE {})
                         \union (IF flushed THEN {list} ELSE {})
  BY DEF AddStep, Batch
<1>2. n <= MaxSteps /\ made' = Append(made, s) /\ quiet' = quiet \ {s} /\ UNCHANGED <<rows, excused>>
  BY DEF AddStep
<1>3. made \in Seq(Sessions) /\ Len(made) \in Nat /\ i \in 1..n /\ ram[s] \in Seq(AnyEntry) /\ counter[s] \in Nat
  BY LenProperties DEF StepInv, ListsSound
<1>4. made' \in Seq(Sessions) /\ Len(made') = n /\ made'[n] = s /\ \A k \in Steps : made'[k] = made[k]
  BY <1>2, <1>3 DEF Steps
<1>5. Steps' = Steps \union {n}
  BY <1>3, <1>4 DEF Steps
<1>6. o \in Sessions /\ (o # s => full)
  BY <1>1 DEF Oldest, Held
<1>7. \A e : EntrySound(made, e) => EntrySound(made', e)
  BY <1>3, <1>4, <1>5 DEF EntrySound, Steps
<1>8. \A S : Insertable(made, S) => Insertable(made', S)
  BY <1>7 DEF Insertable, Apart
<1>9. Entry(s, i, n) \in AnyEntry /\ EntrySound(made', Entry(s, i, n)) /\ Entry(s, i, n).session = s /\ Entry(s, i, n).index = i
      /\ Entry(s, i, n).step = n
  <2>1. n \in Nat /\ i \in Nat /\ i \in 1..MaxSteps
    BY <1>2, <1>3, StepBounds
  <2>2. QED
    BY <2>1, <1>4, <1>5 DEF Entry, EntrySound, AnyEntry
<1>10. list \in Seq(AnyEntry) /\ ToSet(list) = ToSet(ram[s]) \union {Entry(s, i, n)}
  <2> DEFINE x == Entry(s, i, n)
             r == ram[s]
  <2>1. x \in AnyEntry /\ r \in Seq(AnyEntry)
    BY <1>3, <1>9
  <2> HIDE DEF x, r
  <2>2. Append(r, x) \in Seq(AnyEntry) /\ ToSet(Append(r, x)) = ToSet(r) \union {x}
    <3>1. Append(r, x) \in Seq(AnyEntry) /\ DOMAIN Append(r, x) = 1..(Len(r) + 1) /\ DOMAIN r = 1..Len(r) /\ Len(r) \in Nat
          /\ Append(r, x)[Len(r) + 1] = x /\ \A k \in 1..Len(r) : Append(r, x)[k] = r[k]
      BY <2>1
    <3> DEFINE q == Append(r, x)
    <3> HIDE DEF q
    <3>2. ToSet(q) = ToSet(r) \union {x}
      BY <3>1 DEF ToSet, q
    <3>3. QED
      BY <3>1, <3>2 DEF q
  <2>3. QED
    BY <2>2 DEF x, r
<1> HIDE DEF list
<1>11. Insertable(made', ToSet(list)) /\ \A e \in ToSet(list) : e.session = s /\ e.index <= i
  <2>1. \A e \in ToSet(ram[s]) : e.session = s /\ e.index < i /\ e.index <= i /\ EntrySound(made, e)
    <3>1. ASSUME NEW e \in ToSet(ram[s]) PROVE e.session = s /\ e.index < i /\ e.index <= i /\ EntrySound(made, e)
      <4>1. e.session = s /\ e.index <= counter[s] /\ EntrySound(made, e)
        BY DEF StepInv, ListsSound, Insertable
      <4>2. e.index \in Nat
        BY <4>1 DEF EntrySound, AnyEntry
      <4>3. QED
        BY <1>3, <4>1, <4>2
    <3>2. QED
      BY <3>1
  <2>2. Apart(ToSet(ram[s]))
    BY DEF StepInv, ListsSound, Insertable
  <2>3. Apart(ToSet(list))
    <3> SUFFICES ASSUME NEW e \in ToSet(list), NEW f \in ToSet(list), e.session = f.session, e.index = f.index
                 PROVE  e = f
      BY DEF Apart
    <3>1. CASE e \in ToSet(ram[s]) /\ f \in ToSet(ram[s])
      BY <2>2, <3>1 DEF Apart
    <3>2. ASSUME NEW g \in ToSet(ram[s]) PROVE g.index # i
      <4>1. g.index \in Nat /\ g.index < i
        BY <2>1 DEF EntrySound, AnyEntry
      <4>2. QED
        BY <1>3, <4>1
    <3>3. QED
      BY <1>9, <1>10, <3>1, <3>2
  <2>4. \A e \in ToSet(list) : EntrySound(made', e)
    BY <1>7, <1>9, <1>10, <2>1
  <2>5. \A e \in ToSet(list) : e.session = s /\ e.index <= i
    BY <1>3, <1>9, <1>10, <2>1
  <2>6. QED
    BY <2>3, <2>4, <2>5 DEF Insertable, Apart
<1>12. /\ ram'[s] = IF flushed THEN <<>> ELSE list
       /\ o # s => ram'[o] = <<>> /\ counter'[o] = 0
       /\ \A r \in Sessions : r # s /\ r # o => ram'[r] = ram[r] /\ counter'[r] = counter[r]
       /\ counter'[s] = i
       /\ counter' \in [Sessions -> Nat] /\ ram' \in [Sessions -> Seq(AnyEntry)]
  <2>1. counter \in [Sessions -> Nat] /\ ram \in [Sessions -> Seq(AnyEntry)]
    BY DEF StepInv, ListsSound
  <2>2. <<>> \in Seq(AnyEntry)
    OBVIOUS
  <2>3. CASE o = s
    BY <1>1, <1>3, <1>10, <2>1, <2>2, <2>3
  <2>4. CASE o # s
    <3>1. ram' = [[ram EXCEPT ![s] = IF flushed THEN <<>> ELSE list] EXCEPT ![o] = <<>>]
          /\ counter' = [[counter EXCEPT ![s] = i] EXCEPT ![o] = 0]
      BY <1>1, <2>4
    <3>2. (IF flushed THEN <<>> ELSE list) \in Seq(AnyEntry) /\ i \in Nat
      BY <1>3, <1>10, <2>2
    <3> HIDE DEF i, flushed
    <3>3. QED
      BY <3>1, <3>2, <1>6, <2>1, <2>2, <2>4
  <2>5. QED
    BY <2>3, <2>4
<1>13. tasks' \subseteq Seq(AnyEntry) /\ \A b \in tasks' : Insertable(made', ToSet(b))
  <2>1. tasks \subseteq Seq(AnyEntry) /\ ram[o] \in Seq(AnyEntry) /\ Insertable(made, ToSet(ram[o]))
        /\ \A b \in tasks : Insertable(made, ToSet(b))
    BY <1>6 DEF StepInv, ListsSound
  <2>2. \A b \in tasks' : b \in tasks \/ b = ram[o] \/ b = list
    BY <1>1
  <2>3. QED
    BY <2>1, <2>2, <1>8, <1>10, <1>11
<1>14. ListsSound'
  <2>1. ASSUME NEW r \in Sessions
        PROVE  /\ counter'[r] <= Len(made')
               /\ Insertable(made', ToSet(ram'[r]))
               /\ \A e \in ToSet(ram'[r]) : e.session = r /\ e.index <= counter'[r]
    <3>1. Insertable(made', ToSet(<<>>)) /\ ToSet(<<>>) = {}
      BY Empty DEF Insertable, Apart
    <3>2. CASE r = s
      <4>1. counter'[r] <= Len(made')
        BY <1>3, <1>4, <1>12, <3>2
      <4>2. CASE flushed
        BY <4>1, <4>2, <1>12, <3>1, <3>2
      <4>3. CASE ~flushed
        BY <4>1, <4>3, <1>11, <1>12, <3>2
      <4>4. QED
        BY <4>2, <4>3
    <3>3. CASE r # s /\ r = o
      BY <1>3, <1>4, <1>12, <3>1, <3>3
    <3>4. CASE r # s /\ r # o
      <4>1. /\ counter[r] <= Len(made) /\ Insertable(made, ToSet(ram[r])) /\ counter[r] \in Nat
            /\ \A e \in ToSet(ram[r]) : e.session = r /\ e.index <= counter[r]
        BY DEF StepInv, ListsSound
      <4>2. counter'[r] = counter[r] /\ ram'[r] = ram[r]
        BY <1>12, <3>4
      <4>3. counter[r] <= Len(made')
        BY <4>1, <1>3, <1>4
      <4>4. QED
        BY <4>1, <4>2, <4>3, <1>8
    <3>5. QED
      BY <3>2, <3>3, <3>4
  <2>2. quiet' \subseteq Sessions
    BY <1>2 DEF StepInv, ListsSound
  <2>3. QED
    BY <2>1, <2>2, <1>2, <1>4, <1>12, <1>13 DEF ListsSound
<1>15. RowsSound'
  BY <1>2, <1>4, <1>5 DEF StepInv, RowsSound
<1>16. Steps' \subseteq Stored' \union Listed' \union excused'
  <2>0. Stored' = Stored
    BY <1>2 DEF Stored
  <2>1. ASSUME NEW k \in NumberOf(list) PROVE k \in Listed'
    <3>1. CASE flushed
      <4>1. list \in tasks'
        BY <1>1, <3>1
      <4>2. QED
        BY <4>1, <2>1, ListedWillBe
    <3>2. CASE ~flushed
      BY <2>1, <3>2, <1>12, ListedWillBe
    <3>3. QED
      BY <3>1, <3>2
  <2>2. n \in Listed' /\ NumberOf(ram[s]) \subseteq Listed'
    <3>1. NumberOf(list) = {e.step : e \in ToSet(list)} /\ NumberOf(ram[s]) = {e.step : e \in ToSet(ram[s])}
      BY Numbers
    <3>2. QED
      BY <3>1, <1>9, <1>10, <2>1
  <2>3. ASSUME NEW k \in Listed PROVE k \in Listed'
    <3>1. CASE \E b \in tasks : k \in NumberOf(b)
      <4>1. tasks \subseteq tasks'
        BY <1>1
      <4>2. QED
        BY <3>1, <4>1, ListedWillBe
    <3>2. CASE \E r \in Sessions : k \in NumberOf(ram[r])
      <4>1. PICK r \in Sessions : k \in NumberOf(ram[r])
        BY <3>2
      <4>2. CASE r = s
        BY <4>1, <4>2, <2>2
      <4>3. CASE r # s /\ r # o
        BY <4>1, <4>3, <1>12, ListedWillBe
      <4>4. CASE r # s /\ r = o
        <5>1. ram[o] # <<>>
          BY <4>1, <4>4, Empty
        <5>2. ram[o] \in tasks'
          BY <5>1, <1>1, <1>6, <4>4
        <5>3. QED
          BY <5>2, <4>1, <4>4, ListedWillBe
      <4>5. QED
        BY <4>2, <4>3, <4>4
    <3>3. QED
      BY <2>3, <3>1, <3>2, ListedIs
  <2>4. QED
    BY <1>2, <1>5, <2>0, <2>2, <2>3 DEF StepInv
<1>17. QED
  BY <1>14, <1>15, <1>16 DEF StepInv

LEMMA StepStep == StepInv /\ [StepNext]_stepVars => StepInv'
<1> SUFFICES ASSUME StepInv, [StepNext]_stepVars PROVE StepInv'
  OBVIOUS
<1>a. RowsSound /\ quiet \subseteq Sessions /\ ram \in [Sessions -> Seq(AnyEntry)] /\ counter \in [Sessions -> Nat]
  BY DEF StepInv, ListsSound
<1>b. ASSUME UNCHANGED <<made, rows>> PROVE RowsSound' /\ Stored' = Stored
  BY <1>a, <1>b DEF RowsSound, Stored, Steps
<1>1. ASSUME NEW s \in Sessions, AddStep(s) PROVE StepInv'
  BY <1>1, StepAdded
<1>2. CASE TaskRuns
  <2>1. PICK b \in tasks : tasks' = tasks \ {b} /\ (Insert(ToSet(b)) \/ InsertFails(ToSet(b)))
    BY <1>2 DEF TaskRuns
  <2>2. UNCHANGED <<made, counter, ram, quiet>>
    BY <1>2 DEF TaskRuns
  <2>3. Insertable(made, ToSet(b))
    BY DEF StepInv, ListsSound
  <2>4. RowsSound' /\ Stored \subseteq Stored' /\ excused \subseteq excused'
        /\ \A e \in ToSet(b) : e.step \in Stored' \union excused'
    <3>1. CASE Insert(ToSet(b))
      BY <1>a, <2>2, <2>3, <3>1, Inserted
    <3>2. CASE InsertFails(ToSet(b))
      BY <1>b, <2>2, <3>2, NotInserted
    <3>3. QED
      BY <2>1, <3>1, <3>2
  <2>5. NumberOf(b) \subseteq Stored' \union excused'
    BY <2>4, Numbers
  <2>6. QED
    BY <1>a, <2>1, <2>2, <2>4, <2>5, ListsShrink
<1>3. CASE Lull \/ RestoreTick \/ FlushTick \/ FlushMark \/ FlushAborts \/ UNCHANGED stepVars
  <2>1. UNCHANGED <<made, counter, ram, tasks, rows, excused>> /\ quiet' \subseteq Sessions
    BY <1>3, <1>a DEF Lull, RestoreTick, FlushTick, FlushMark, FlushAborts, stepVars, table
  <2>2. QED
    BY <1>b, <2>1, RowsFill
<1>4. CASE FlushOne
  <2>1. UNCHANGED <<made, counter, ram, tasks, quiet>>
    BY <1>4 DEF FlushOne
  <2>2. RowsSound' /\ Stored \subseteq Stored' /\ excused \subseteq excused'
    <3>1. ASSUME NEW s \in quiet, Insert(ToSet(ram[s])) PROVE RowsSound' /\ Stored \subseteq Stored' /\ excused \subseteq excused'
      <4>1. Insertable(made, ToSet(ram[s]))
        BY <1>a DEF StepInv, ListsSound
      <4>2. QED
        BY <1>a, <2>1, <3>1, <4>1, Inserted
    <3>2. ASSUME NEW s \in quiet, InsertFails(ToSet(ram[s])) PROVE RowsSound' /\ Stored \subseteq Stored' /\ excused \subseteq excused'
      BY <1>b, <2>1, <3>2, NotInserted
    <3>3. CASE UNCHANGED <<rows, excused>>
      BY <1>b, <2>1, <3>3
    <3>4. QED
      BY <1>4, <3>1, <3>2, <3>3 DEF FlushOne, table
  <2>3. QED
    BY <1>a, <2>1, <2>2, RowsFill
<1>5. CASE FlushEnds
  <2> DEFINE U == AllIn({ram[s] : s \in dreamPass.done})
  <2>1. /\ UNCHANGED <<made, tasks, rows, quiet>>
        /\ ram' = [s \in Sessions |-> IF s \in dreamPass.done THEN <<>> ELSE ram[s]]
        /\ counter' = [s \in Sessions |-> IF s \in dreamPass.done THEN 0 ELSE counter[s]]
        /\ excused' = excused \union (U \ Stored)
    BY <1>5 DEF FlushEnds, table
  <2> HIDE DEF U
  <2>2. RowsSound' /\ Stored' = Stored
    BY <1>b, <2>1
  <2>3. counter' \in [Sessions -> Nat] /\ ram' \in [Sessions -> Seq(AnyEntry)]
    BY <1>a, <2>1, Empty
  <2>4. \A s \in Sessions : ram'[s] # ram[s] => NumberOf(ram[s]) \subseteq Stored' \union excused'
    <3> SUFFICES ASSUME NEW s \in Sessions, ram'[s] # ram[s], NEW n \in NumberOf(ram[s])
                 PROVE  n \in Stored' \union excused'
      OBVIOUS
    <3>1. s \in dreamPass.done
      BY <2>1
    <3>2. n \in U
      BY <3>1 DEF U, AllIn
    <3>3. QED
      BY <2>1, <2>2, <3>2
  <2>5. QED
    BY <2>1, <2>2, <2>3, <2>4, ListsShrink
<1>6. CASE StopWrites
  <2> DEFINE all == UNION {ToSet(ram[s]) : s \in Sessions}
  <2>1. /\ UNCHANGED <<made, tasks, quiet>> /\ Insert(all)
        /\ ram' = [s \in Sessions |-> <<>>] /\ counter' = [s \in Sessions |-> 0]
    BY <1>6 DEF StopWrites
  <2>2. Insertable(made, all)
    <3>1. \A s \in Sessions : Insertable(made, ToSet(ram[s])) /\ \A e \in ToSet(ram[s]) : e.session = s
      BY DEF StepInv, ListsSound
    <3>2. QED
      BY <3>1 DEF Insertable, Apart
  <2> HIDE DEF all
  <2>3. RowsSound' /\ Stored \subseteq Stored' /\ excused \subseteq excused'
        /\ \A e \in all : e.step \in Stored' \union excused'
    BY <1>a, <2>1, <2>2, Inserted
  <2>4. \A s \in Sessions : NumberOf(ram[s]) \subseteq Stored' \union excused'
    BY <2>3, Numbers DEF all
  <2>5. counter' \in [Sessions -> Nat] /\ ram' \in [Sessions -> Seq(AnyEntry)]
    BY <2>1, Empty
  <2>6. QED
    BY <2>1, <2>3, <2>4, <2>5, ListsShrink
<1>7. CASE StepKilled
  <2>1. /\ UNCHANGED <<made, rows, quiet>> /\ tasks' = {}
        /\ ram' = [s \in Sessions |-> <<>>] /\ counter' = [s \in Sessions |-> 0]
        /\ excused' = excused \union (Listed \ Stored)
    BY <1>7 DEF StepKilled, table, Listed
  <2>2. RowsSound' /\ Stored' = Stored
    BY <1>b, <2>1
  <2>3. counter' \in [Sessions -> Nat] /\ ram' \in [Sessions -> Seq(AnyEntry)]
    BY <2>1, Empty
  <2>4. /\ \A b \in tasks : NumberOf(b) \subseteq Stored' \union excused'
        /\ \A s \in Sessions : NumberOf(ram[s]) \subseteq Stored' \union excused'
    BY <2>1, <2>2, ListedIs
  <2>5. QED
    BY <2>1, <2>2, <2>3, <2>4, ListsShrink
<1>8. QED
  BY <1>1, <1>2, <1>3, <1>4, <1>5, <1>6, <1>7 DEF StepNext

(* No step disappears between log_step, the flush tasks, the dreamer and   *)
(* the table but for the recorded excuses, and no row has a step of        *)
(* another session (persist_step.py, subconscious/dreamer.py,              *)
(* storage/sqlite.py).                                                     *)
THEOREM StepsAreAccounted == StepSpec => []StepsAccounted
<1>1. StepInv => StepsAccounted
  BY DEF StepInv, RowsSound, StepsAccounted, Listed
<1>2. QED
  BY <1>1, StepInitial, StepStep, PTL DEF StepSpec
=============================================================================
