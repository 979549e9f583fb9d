------------------------------ MODULE Processes ------------------------------
(* The operating-system processes of the daemon and the files by which     *)
(* they know each other: daemon.pid, daemon.sock, daemon.heartbeat and     *)
(* daemon.ready.  Daemons start and end (cli/commands.py _run_daemon,      *)
(* core/bootstrap.py), the watchdog looks after them (watchdog.py), and    *)
(* the command line and the tray run off, status, cleanup and on.          *)
(*                                                                         *)
(* Processes interleave at every file access and every signal.  A listing  *)
(* of processes is one step; a SIGKILL takes effect at once.               *)
EXTENDS Integers, FiniteSets

CONSTANTS
  Procs,      \* processes that ever run "mnemostroma run"
  None,       \* no process
  MaxLags,    \* bound: heartbeats that are late though their writer lives
  MaxCrashes  \* bound: crashes that are nobody's signal

ASSUME ProcessesAssumption ==
  /\ IsFiniteSet(Procs) /\ None \notin Procs
  /\ {MaxLags, MaxCrashes} \subseteq Nat

VARIABLES
  ps,       \* stage of each process
  seen,     \* duplicates a starting daemon has listed and will kill
  pidFile,  \* daemon.pid
  sock,     \* who bound daemon.sock, or None when the path is free
  ready,    \* daemon.ready exists
  beat,     \* daemon.heartbeat: "none", "fresh", "stale"
  unit,     \* main process of the systemd unit
  wd,       \* watchdog: "boot", "idle", "probe", "gone"
  readers,  \* daemons writing heartbeats when the watchdog read a stale one
  cli,      \* the running command: what it does next and to whom
  lags, crashes, \* bounds
  erased,   \* history: a command removed or rewrote another daemon's pid file
  culled,   \* history: daemons the sweep took for orphans
  shot      \* history: daemons shot for a heartbeat they were writing

procVars == <<ps, seen, pidFile, sock, ready, beat, unit, wd, readers, cli, lags, crashes,
              erased, culled, shot>>
Files == <<pidFile, sock, ready, beat>>
Watch == <<wd, readers, culled, shot>>
Bounds == <<lags, crashes>>

Stages == {"unborn", "spawned", "listing", "claimed", "beating", "serving", "ending", "dead"}
Running == {p \in Procs : ps[p] \notin {"unborn", "dead"}}
Owners == {p \in Procs : ps[p] \in {"claimed", "beating", "serving", "ending"}}
Beating == {p \in Procs : ps[p] \in {"beating", "serving", "ending"}}
Killed(K) == [p \in Procs |-> IF p \in K \intersect Running THEN "dead" ELSE ps[p]]
NoCommand == [does |-> "nothing", whom |-> {}]

ProcInit ==
  /\ ps = [p \in Procs |-> "unborn"] /\ seen = [p \in Procs |-> {}]
  /\ pidFile = None /\ sock = None /\ ready = FALSE /\ beat = "none"
  /\ unit = None /\ wd = "boot" /\ readers = {} /\ cli = NoCommand
  /\ lags = 0 /\ crashes = 0 /\ erased = FALSE /\ culled = {} /\ shot = {}

-----------------------------------------------------------------------------
(* Starting.  systemd starts its unit whenever that has no process.        *)
SystemdStarts(p) ==
  /\ ps[p] = "unborn" /\ unit \notin Running
  /\ ps' = [ps EXCEPT ![p] = "spawned"] /\ unit' = p
  /\ UNCHANGED <<seen, Files, Watch, cli, Bounds, erased>>

(* Fault model: only the instance the pid file names is listed.            *)
ListOthersByPidFile(p) ==
  /\ ps[p] = "spawned"
  /\ ready' = FALSE
  /\ ps' = [ps EXCEPT ![p] = "listing"]
  /\ seen' = [seen EXCEPT ![p] = {pidFile} \ {None, p}]
  /\ UNCHANGED <<pidFile, sock, beat, unit, Watch, cli, Bounds, erased>>

(* _run_daemon: the ready file goes, then every other instance is listed.  *)
ListOthers(p) ==
  /\ ps[p] = "spawned"
  /\ ready' = FALSE
  /\ ps' = [ps EXCEPT ![p] = "listing"]
  /\ seen' = [seen EXCEPT ![p] = Running \ {p}]
  /\ UNCHANGED <<pidFile, sock, beat, unit, Watch, cli, Bounds, erased>>

KillListed(p) ==
  /\ ps[p] = "listing"
  /\ \E q \in seen[p] :
       /\ ps' = Killed({q})
       /\ seen' = [seen EXCEPT ![p] = @ \ {q}]
  /\ UNCHANGED <<Files, unit, Watch, cli, Bounds, erased>>

(* The old socket is unlinked and the pid file written.                    *)
Claim(p) ==
  /\ ps[p] = "listing" /\ seen[p] = {}
  /\ ps' = [ps EXCEPT ![p] = "claimed"]
  /\ sock' = None /\ pidFile' = p
  /\ UNCHANGED <<seen, ready, beat, unit, Watch, cli, Bounds, erased>>

(* Conductor.start: the heartbeat thread comes first.                      *)
StartBeating(p) ==
  /\ ps[p] = "claimed"
  /\ ps' = [ps EXCEPT ![p] = "beating"] /\ beat' = "fresh"
  /\ UNCHANGED <<seen, pidFile, sock, ready, unit, Watch, cli, Bounds, erased>>

(* The background workers; IPCServer.serve binds, then says ready.         *)
BindSocket(p) == sock' = p /\ ready' = TRUE

Serve(p) ==
  /\ ps[p] = "beating"
  /\ ps' = [ps EXCEPT ![p] = "serving"] /\ BindSocket(p)
  /\ UNCHANGED <<seen, pidFile, beat, unit, Watch, cli, Bounds, erased>>

(* bootstrap() raises.                                                     *)
BootFails(p) ==
  /\ ps[p] \in {"beating", "serving"} /\ crashes < MaxCrashes
  /\ ps' = [ps EXCEPT ![p] = "ending"] /\ crashes' = crashes + 1
  /\ UNCHANGED <<seen, Files, unit, Watch, cli, lags, erased>>

(* The finally clause of _run_daemon: both files go, whoever wrote them.   *)
Finish(p) ==
  /\ ps[p] = "ending"
  /\ ps' = [ps EXCEPT ![p] = "dead"]
  /\ ready' = FALSE /\ pidFile' = None
  /\ UNCHANGED <<seen, sock, beat, unit, Watch, cli, Bounds, erased>>

(* SIGTERM: the handlers are registered when Conductor.start has returned; *)
(* before that the signal ends the process on the spot.                    *)
AfterTerm(p) ==
  CASE ps[p] \in {"spawned", "listing", "claimed"} -> {"dead"}
    [] ps[p] = "beating" -> {"dead", "ending"}
    [] ps[p] = "serving" -> {"ending"}
    [] OTHER -> {ps[p]}

SystemdStops ==
  /\ unit \in Running
  /\ \E after \in AfterTerm(unit) : ps' = [ps EXCEPT ![unit] = after]
  /\ UNCHANGED <<seen, Files, unit, Watch, cli, Bounds, erased>>

(* Out of memory, a power cut, the loop monitor's _exit, systemd's own     *)
(* SIGKILL.                                                                *)
Crash(p) ==
  /\ p \in Running /\ crashes < MaxCrashes
  /\ crashes' = crashes + 1 /\ ps' = Killed({p})
  /\ UNCHANGED <<seen, Files, unit, Watch, cli, lags, erased>>

(* The heartbeat file and the clock.  A thread writes it, so a hung event  *)
(* loop does not age it; a suspended machine does.                         *)
WriteHeartbeat ==
  /\ Beating # {} /\ beat # "fresh" /\ beat' = "fresh"
  /\ UNCHANGED <<ps, seen, pidFile, sock, ready, unit, Watch, cli, Bounds, erased>>

HeartbeatAges ==
  /\ beat = "fresh" /\ beat' = "stale"
  /\ \/ Beating = {} /\ UNCHANGED lags
     \/ Beating # {} /\ lags < MaxLags /\ lags' = lags + 1
  /\ UNCHANGED <<ps, seen, pidFile, sock, ready, unit, Watch, cli, crashes, erased>>

-----------------------------------------------------------------------------
(* The watchdog, phase 1: a fresh heartbeat ends it; at the failsafe the   *)
(* socket decides, and without one the watchdog kills what the pid file    *)
(* names and returns: exit status 0, after which systemd leaves it down.   *)
Responsive == sock \in Procs /\ ps[sock] = "serving"

WatchdogBoots ==
  /\ wd = "boot" /\ (beat = "fresh" \/ Responsive) /\ wd' = "idle"
  /\ UNCHANGED <<ps, seen, Files, unit, readers, culled, shot, cli, Bounds, erased>>

WatchdogGivesUp ==
  /\ wd = "boot" /\ beat # "fresh" /\ ~Responsive /\ wd' = "gone"
  /\ ps' = Killed({pidFile})
  /\ UNCHANGED <<seen, Files, unit, readers, culled, shot, cli, Bounds, erased>>

(* Phase 2, every fourth pass: a lone instance the pid file does not name  *)
(* is an orphan, several are duplicates.                                   *)
Sweep ==
  /\ wd = "idle" /\ Running \notin {{}, {pidFile}}
  /\ ps' = Killed(Running) /\ sock' = None
  /\ culled' = culled \union (IF Cardinality(Running) = 1 THEN Owners ELSE {})
  /\ UNCHANGED <<seen, pidFile, ready, beat, unit, wd, readers, shot, cli, Bounds, erased>>

(* _check_daemon returns on a fresh heartbeat; a stale or missing one is   *)
(* followed by a probe of the socket, of up to two seconds.                *)
CheckHeartbeat ==
  /\ wd = "idle" /\ beat # "fresh"
  /\ wd' = "probe" /\ readers' = Beating
  /\ UNCHANGED <<ps, seen, Files, unit, culled, shot, cli, Bounds, erased>>

(* The verdict, with every instance pgrep finds now; a socket that answers *)
(* without a heartbeat file is only worth a warning.                       *)
Probe ==
  /\ wd = "probe" /\ wd' = "idle" /\ readers' = {}
  /\ \/ /\ Responsive /\ beat = "none"
        /\ UNCHANGED <<ps, sock, shot>>
     \/ /\ ~Responsive \/ beat # "none"
        /\ ps' = Killed(Running \union {pidFile}) /\ sock' = None
        /\ shot' = shot \union (readers \intersect Running)
  /\ UNCHANGED <<seen, pidFile, ready, beat, unit, culled, cli, Bounds, erased>>

-----------------------------------------------------------------------------
(* Commands, one at a time.  `off` signals what the pid file names ...     *)
Off ==
  /\ cli = NoCommand /\ pidFile \in Running
  /\ \E after \in AfterTerm(pidFile) : ps' = [ps EXCEPT ![pidFile] = after]
  /\ cli' = [does |-> "off", whom |-> {pidFile}]
  /\ UNCHANGED <<seen, Files, unit, Watch, Bounds, erased>>

(* ... and when that is dead, by itself or after five seconds by SIGKILL,  *)
(* removes the pid file, whatever it names by now; a zombie keeps it.      *)
OffEnds ==
  /\ cli.does = "off"
  /\ ps' = Killed(cli.whom) /\ ready' = FALSE /\ cli' = NoCommand
  /\ \/ pidFile' = None /\ erased' = (erased \/ pidFile \in Procs \ cli.whom)
     \/ cli.whom \subseteq Running /\ UNCHANGED <<pidFile, erased>>
  /\ UNCHANGED <<seen, sock, beat, unit, Watch, Bounds>>

(* get_daemon_status: a missing pid file is restored from the first process*)
(* whose command line looks right ...                                      *)
StatusLooks ==
  /\ cli = NoCommand
  /\ \/ pidFile = None /\ \E q \in Running : cli' = [does |-> "restore", whom |-> {q}]
     \/ pidFile # None /\ cli' = [does |-> "judge", whom |-> {pidFile}]
  /\ UNCHANGED <<ps, seen, Files, unit, Watch, Bounds, erased>>

StatusRestores ==
  /\ cli.does = "restore"
  /\ \E q \in cli.whom : pidFile' = q
  /\ erased' = (erased \/ \E q \in cli.whom : Owners \ {q} # {})
  /\ cli' = [cli EXCEPT !.does = "judge"]
  /\ UNCHANGED <<ps, seen, sock, ready, beat, unit, Watch, Bounds>>

(* ... and one whose process is dead by now is removed.                    *)
StatusJudges ==
  /\ cli.does = "judge"
  /\ \/ cli.whom \subseteq Running /\ UNCHANGED <<pidFile, erased>>
     \/ /\ cli.whom \intersect Running = {}
        /\ pidFile' = None /\ erased' = (erased \/ pidFile \in Procs \ cli.whom)
  /\ cli' = NoCommand
  /\ UNCHANGED <<ps, seen, sock, ready, beat, unit, Watch, Bounds>>

(* cleanup, alone or as the first step of `on`: the oldest with a bound    *)
(* socket is kept, and without one every instance is stale.                *)
CleanupLooks ==
  /\ cli = NoCommand /\ Running # {}
  /\ \/ \E m \in Running, then \in {"cleanup", "on, kept"} :
          ps[m] = "serving" /\ cli' = [does |-> then, whom |-> Running \ {m}]
     \/ \E then \in {"cleanup", "on"} :
          (\A m \in Running : ps[m] # "serving") /\ cli' = [does |-> then, whom |-> Running]
  /\ UNCHANGED <<ps, seen, Files, unit, Watch, Bounds, erased>>

CleanupKills ==
  /\ cli.does \in {"cleanup", "on", "on, kept"}
  /\ ps' = Killed(cli.whom)
  /\ cli' = [does |-> CASE cli.does = "cleanup" -> "nothing" [] cli.does = "on" -> "launch" [] OTHER -> "launch, kept",
             whom |-> {}]
  /\ UNCHANGED <<seen, Files, unit, Watch, Bounds, erased>>

(* `on` starts a daemon, unless cleanup kept one and the pid file names a  *)
(* live process.                                                           *)
AlreadyOn ==
  /\ cli.does = "launch, kept" /\ pidFile \in Running
  /\ cli' = NoCommand
  /\ UNCHANGED <<ps, seen, Files, unit, Watch, Bounds, erased>>

Launch(p) ==
  /\ \/ cli.does = "launch" \/ (cli = NoCommand /\ Running = {})
     \/ cli.does = "launch, kept" /\ pidFile \notin Running
  /\ ps[p] = "unborn" /\ ps' = [ps EXCEPT ![p] = "spawned"]
  /\ ready' = FALSE /\ cli' = NoCommand
  /\ UNCHANGED <<seen, pidFile, sock, beat, unit, Watch, Bounds, erased>>

ProcNext ==
  \/ \E p \in Procs : \/ SystemdStarts(p) \/ ListOthers(p) \/ KillListed(p) \/ Claim(p)
                      \/ StartBeating(p) \/ Serve(p) \/ BootFails(p) \/ Finish(p) \/ Crash(p)
                      \/ Launch(p)
  \/ SystemdStops \/ WriteHeartbeat \/ HeartbeatAges
  \/ WatchdogBoots \/ WatchdogGivesUp \/ Sweep \/ CheckHeartbeat \/ Probe
  \/ Off \/ OffEnds \/ StatusLooks \/ StatusRestores \/ StatusJudges
  \/ CleanupLooks \/ CleanupKills \/ AlreadyOn

-----------------------------------------------------------------------------
ProcTypeOK ==
  /\ ps \in [Procs -> Stages] /\ seen \in [Procs -> SUBSET Procs]
  /\ {pidFile, sock, unit} \subseteq Procs \union {None}
  /\ beat \in {"none", "fresh", "stale"} /\ wd \in {"boot", "idle", "probe", "gone"}
  /\ {ready, erased} \subseteq BOOLEAN
  /\ cli.does \in {"nothing", "off", "restore", "judge", "cleanup", "on", "on, kept", "launch", "launch, kept"}
  /\ UNION {readers, culled, shot, cli.whom} \subseteq Procs
  /\ lags \in 0..MaxLags /\ crashes \in 0..MaxCrashes

(* However starts, stops, the watchdog and commands interleave, at most    *)
(* one process is past the killing of the others; it is the one the pid    *)
(* file names, and the sweep spares it, unless a command that held an old  *)
(* pid has overwritten the file; and the watchdog shoots a daemon that was *)
(* writing heartbeats only if one of them was late.                        *)
OneDaemon ==
  /\ Cardinality(Owners) <= 1
  /\ \A p \in Owners : pidFile = p \/ erased
  /\ culled # {} => erased
  /\ shot # {} => lags > 0
=============================================================================
