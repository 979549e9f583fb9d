-------------------------------- MODULE Tunnel --------------------------------
(* The public tunnel: the manager that owns the link (an ssh to serveo, or *)
(* cloudflared) and the OAuth adapter behind it                            *)
(* (integration/tunnel/manager.py, providers/), the files pid and url that *)
(* tell the user interface of it (state.py), and the commands that stop it *)
(* from outside (cli/commands.py, tools/tray_pyqt.py).                     *)
(*                                                                         *)
(* Manager, reconnect thread, processes and user interface interleave at   *)
(* every call.  The respawn window is a count that time lowers.            *)
EXTENDS Integers, FiniteSets

CONSTANTS
  MaxLinks,     \* bound: links started
  MaxAdapters,  \* bound: adapters started
  MaxRespawn    \* ADAPTER_RESPAWN_MAX

ASSUME TunnelAssumption == {MaxLinks, MaxAdapters, MaxRespawn} \subseteq Nat \ {0}

VARIABLES
  provider,     \* "serveo", "cloudflare" (own process) or "attached" (foreign one)
  mgr,          \* step of the manager process
  askedToStop,  \* stop_event: SIGTERM or SIGINT was delivered
  conn,         \* reconnect thread: "off", "top", "spawn", "wait", "backoff"
  connStop,     \* _stop_event of the ServeoTunnelManager
  link,         \* state of each link process
  held,         \* _proc: the link that stop() would end; 0 none
  adapter,      \* state of each adapter process
  cur,          \* the adapter under supervision; 0 none
  recent,       \* respawns within the window
  gotUrl,       \* _url_event
  tunnelPid,      \* the process serveo_tunnel.pid names
  urlFile,      \* tunnel_url exists
  snap,         \* what read_snapshot found: "none" or "dead"
  sweep         \* processes a sweep has found and not yet ended

files == <<tunnelPid, urlFile>>
thread == <<conn, connStop, held, gotUrl>>
outside == <<snap, sweep>>
tunnelVars == <<provider, mgr, askedToStop, thread, link, adapter, cur, recent, files, outside>>

Links == 1..MaxLinks
Adapters == 1..MaxAdapters
LinkPid(l) == <<"link", l>>
AdapterPid(a) == <<"adapter", a>>
NoPid == <<"none", 0>>
ManagerPid == <<"manager", 0>>
UpLinks == {l \in Links : link[l] = "up"}
UpAdapters == {a \in Adapters : adapter[a] \in {"up", "hung"}}
AlivePids == {LinkPid(l) : l \in UpLinks} \union {AdapterPid(a) : a \in UpAdapters}
Fresh(f) == {i \in DOMAIN f : f[i] = "none" /\ \A j \in DOMAIN f : f[j] = "none" => i <= j}

TunnelInit ==
  /\ provider \in {"serveo", "cloudflare", "attached"} /\ mgr = "start" /\ askedToStop = FALSE
  /\ conn = "off" /\ connStop = FALSE /\ held = 0 /\ gotUrl = FALSE
  /\ link = [l \in Links |-> "none"] /\ adapter = [a \in Adapters |-> "none"]
  /\ cur = 0 /\ recent = 0 /\ tunnelPid = NoPid /\ urlFile = FALSE
  /\ snap = "none" /\ sweep = {}

-----------------------------------------------------------------------------
(* The manager, from run() to the end of the process.                      *)

StartServeo ==
  /\ mgr = "start" /\ provider = "serveo" /\ mgr' = "connecting" /\ conn' = "top"
  /\ UNCHANGED <<provider, askedToStop, connStop, held, gotUrl, link, adapter, cur, recent,
                 files, outside>>

ConnectSucceeds ==
  /\ mgr = "connecting" /\ gotUrl /\ mgr' = "clearPort" /\ urlFile' = TRUE
  /\ UNCHANGED <<provider, askedToStop, thread, link, adapter, cur, recent, tunnelPid, outside>>

ConnectTimesOut ==
  /\ mgr = "connecting" /\ ~gotUrl /\ mgr' = "stopThread"
  /\ UNCHANGED <<provider, askedToStop, thread, link, adapter, cur, recent, files, outside>>

(* start_tunnel of the cloudflare provider: the process, then its url, or  *)
(* an error that ends the manager and leaves the process.                  *)
StartCloudflare ==
  /\ mgr = "start"
  /\ \/ /\ provider = "attached" /\ mgr' = "clearPort" /\ urlFile' = TRUE /\ UNCHANGED link
     \/ /\ provider = "cloudflare"
        /\ \E l \in Fresh(link) : link' = [link EXCEPT ![l] = "up"]
        /\ \/ mgr' = "clearPort" /\ urlFile' = TRUE
           \/ mgr' = "gone" /\ UNCHANGED urlFile
  /\ UNCHANGED <<provider, askedToStop, thread, adapter, cur, recent, tunnelPid, outside>>

(* _spawn_adapter_proc.                                                    *)
SpawnAdapter ==
  \E a \in Fresh(adapter) : adapter' = [adapter EXCEPT ![a] = "up"] /\ cur' = a

(* Who listens on the adapter's port is killed first; with cloudflare the  *)
(* pid file names the adapter, and keeps the name after a respawn.         *)
FirstAdapter ==
  /\ mgr = "clearPort" /\ mgr' = "supervise" /\ SpawnAdapter
  /\ tunnelPid' = IF provider = "serveo" THEN tunnelPid ELSE AdapterPid(cur')
  /\ UNCHANGED <<provider, askedToStop, thread, link, recent, urlFile, outside>>

(* Fault model: the adapter that does not answer is left running.          *)
AdapterFailsUnkilled ==
  /\ mgr = "supervise" /\ ~askedToStop /\ adapter[cur] \in {"hung", "dead"}
  /\ \/ recent < MaxRespawn /\ Fresh(adapter) # {} /\ mgr' = "respawn" /\ recent' = recent + 1
     \/ recent >= MaxRespawn /\ mgr' = "stopThread" /\ UNCHANGED recent
  /\ UNCHANGED <<provider, askedToStop, thread, link, adapter, cur, files, outside>>

(* _supervise_adapter sees that its adapter has exited, or after the       *)
(* interval that it does not answer: it kills what is left of it, or gives *)
(* up when the window is full.                                             *)
AdapterFails ==
  /\ mgr = "supervise" /\ ~askedToStop /\ adapter[cur] \in {"hung", "dead"}
  /\ \/ /\ recent < MaxRespawn /\ Fresh(adapter) # {} /\ mgr' = "respawn" /\ recent' = recent + 1
        /\ adapter' = [adapter EXCEPT ![cur] = "dead"]
     \/ /\ recent >= MaxRespawn /\ mgr' = "stopThread" /\ UNCHANGED <<recent, adapter>>
  /\ UNCHANGED <<provider, askedToStop, thread, link, cur, files, outside>>

Respawn ==
  /\ mgr = "respawn" /\ mgr' = "supervise" /\ SpawnAdapter
  /\ UNCHANGED <<provider, askedToStop, thread, link, recent, files, outside>>

WindowMoves ==
  /\ mgr = "supervise" /\ recent > 0 /\ recent' = recent - 1
  /\ UNCHANGED <<provider, mgr, askedToStop, thread, link, adapter, cur, files, outside>>

StopNoticed ==
  /\ mgr = "supervise" /\ askedToStop /\ mgr' = "stopThread"
  /\ UNCHANGED <<provider, askedToStop, thread, link, adapter, cur, recent, files, outside>>

(* ServeoTunnelManager.stop in three steps, the reconnect thread beside it;*)
(* with cloudflare the pid file goes and the link stays.                   *)
StopThread ==
  /\ mgr = "stopThread"
  /\ IF provider = "serveo"
     THEN mgr' = "stopLink" /\ connStop' = TRUE /\ UNCHANGED tunnelPid
     ELSE mgr' = "stopAdapter" /\ tunnelPid' = NoPid /\ UNCHANGED connStop
  /\ UNCHANGED <<provider, askedToStop, conn, held, gotUrl, link, adapter, cur, recent, urlFile,
                 outside>>

StopLink ==
  /\ mgr = "stopLink" /\ mgr' = "stopFiles" /\ held' = 0
  /\ link' = IF held \in UpLinks THEN [link EXCEPT ![held] = "down"] ELSE link
  /\ UNCHANGED <<provider, askedToStop, conn, connStop, gotUrl, adapter, cur, recent, files,
                 outside>>

StopFiles ==
  /\ mgr = "stopFiles" /\ tunnelPid' = NoPid /\ urlFile' = FALSE
  /\ mgr' = IF cur = 0 THEN "gone" ELSE "stopAdapter"
  /\ conn' = IF cur = 0 THEN "off" ELSE conn
  /\ UNCHANGED <<provider, askedToStop, connStop, held, gotUrl, link, adapter, cur, recent,
                 outside>>

(* terminate(), or kill() after five seconds; then the process ends, and   *)
(* the reconnect thread, a daemon thread, with it.                         *)
StopAdapter ==
  /\ mgr = "stopAdapter" /\ mgr' = "gone" /\ conn' = "off"
  /\ adapter' = [adapter EXCEPT ![cur] = "dead"]
  /\ UNCHANGED <<provider, askedToStop, connStop, held, gotUrl, link, cur, recent, files, outside>>

-----------------------------------------------------------------------------
(* The reconnect thread of serveo, _tunnel_loop, and its reader.           *)

LoopTop ==
  /\ conn = "top" /\ conn' = IF connStop THEN "off" ELSE "spawn"
  /\ UNCHANGED <<provider, mgr, askedToStop, connStop, held, gotUrl, link, adapter, cur, recent,
                 files, outside>>

LoopSpawn ==
  /\ conn = "spawn" /\ conn' = "wait"
  /\ \E l \in Fresh(link) :
       link' = [link EXCEPT ![l] = "up"] /\ held' = l /\ tunnelPid' = LinkPid(l)
  /\ UNCHANGED <<provider, mgr, askedToStop, connStop, gotUrl, adapter, cur, recent, urlFile,
                 outside>>

ReadUrl ==
  /\ conn = "wait" /\ UpLinks # {} /\ urlFile' = TRUE /\ gotUrl' = TRUE
  /\ UNCHANGED <<provider, mgr, askedToStop, conn, connStop, held, link, adapter, cur, recent,
                 tunnelPid, outside>>

LoopWaitEnds ==
  /\ conn = "wait" /\ UpLinks = {} /\ conn' = IF connStop THEN "off" ELSE "backoff"
  /\ UNCHANGED <<provider, mgr, askedToStop, connStop, held, gotUrl, link, adapter, cur, recent,
                 files, outside>>

LoopBackoffEnds ==
  /\ conn = "backoff" /\ conn' = "top"
  /\ UNCHANGED <<provider, mgr, askedToStop, connStop, held, gotUrl, link, adapter, cur, recent,
                 files, outside>>

-----------------------------------------------------------------------------
(* What happens to the processes.                                          *)

LinkDies ==
  /\ \E l \in UpLinks : link' = [link EXCEPT ![l] = "down"]
  /\ UNCHANGED <<provider, mgr, askedToStop, thread, adapter, cur, recent, files, outside>>

AdapterBreaks ==
  /\ \E a \in UpAdapters, to \in {"hung", "dead"} : adapter' = [adapter EXCEPT ![a] = to]
  /\ adapter' # adapter
  /\ UNCHANGED <<provider, mgr, askedToStop, thread, link, cur, recent, files, outside>>

(* SIGTERM: the handler exists from FirstAdapter on; before it the process *)
(* dies at once.                                                           *)
TermManager ==
  IF mgr \in {"start", "connecting", "clearPort"}
  THEN mgr' = "gone" /\ conn' = "off" /\ UNCHANGED askedToStop
  ELSE askedToStop' = TRUE /\ UNCHANGED <<mgr, conn>>

Signal ==
  /\ mgr # "gone" /\ ~askedToStop /\ TermManager
  /\ UNCHANGED <<provider, connStop, held, gotUrl, link, adapter, cur, recent, files, outside>>

(* read_snapshot, polled by the tray: a pid file that names a dead process *)
(* is found in one step, both files are removed in the next.               *)
SnapRead ==
  /\ snap = "none" /\ tunnelPid # NoPid /\ tunnelPid \notin AlivePids /\ snap' = "dead"
  /\ UNCHANGED <<provider, mgr, askedToStop, thread, link, adapter, cur, recent, files, sweep>>

SnapClean ==
  /\ snap = "dead" /\ snap' = "none" /\ tunnelPid' = NoPid /\ urlFile' = FALSE
  /\ UNCHANGED <<provider, mgr, askedToStop, thread, link, adapter, cur, recent, sweep>>

(* "tunnel stop" and the force kill of the tray: the processes found are   *)
(* ended one after the other, the manager by SIGTERM or, three seconds     *)
(* later, for good.  A process that starts meanwhile is not among them.    *)
SweepBegins ==
  /\ sweep = {} /\ sweep' = AlivePids \union (IF mgr = "gone" THEN {} ELSE {ManagerPid})
  /\ sweep' # {}
  /\ UNCHANGED <<provider, mgr, askedToStop, thread, link, adapter, cur, recent, files, snap>>

SweepOne ==
  /\ \E p \in sweep :
       /\ sweep' = sweep \ {p}
       /\ link' = [l \in Links |-> IF p = LinkPid(l) THEN "down" ELSE link[l]]
       /\ adapter' = [a \in Adapters |-> IF p = AdapterPid(a) THEN "dead" ELSE adapter[a]]
       /\ \/ p # ManagerPid /\ UNCHANGED <<mgr, conn, askedToStop>>
          \/ p = ManagerPid /\ mgr # "gone" /\ TermManager
          \/ p = ManagerPid /\ mgr' = "gone" /\ conn' = "off" /\ UNCHANGED askedToStop
  /\ urlFile' = IF sweep' = {} THEN FALSE ELSE urlFile
  /\ tunnelPid' \in IF sweep' = {} THEN {tunnelPid, NoPid} ELSE {tunnelPid}
  /\ UNCHANGED <<provider, connStop, held, gotUrl, cur, recent, snap>>

ManagerStep ==
  \/ StartServeo \/ ConnectSucceeds \/ ConnectTimesOut \/ StartCloudflare \/ FirstAdapter
  \/ AdapterFails \/ Respawn \/ StopNoticed \/ StopThread \/ StopLink \/ StopFiles \/ StopAdapter

TunnelNext ==
  \/ ManagerStep \/ WindowMoves
  \/ LoopTop \/ LoopSpawn \/ ReadUrl \/ LoopWaitEnds \/ LoopBackoffEnds
  \/ LinkDies \/ AdapterBreaks \/ Signal \/ SnapRead \/ SnapClean \/ SweepBegins \/ SweepOne

-----------------------------------------------------------------------------
TunnelTypeOK ==
  /\ provider \in {"serveo", "cloudflare", "attached"}
  /\ mgr \in {"start", "connecting", "clearPort", "supervise", "respawn", "stopThread",
              "stopLink", "stopFiles", "stopAdapter", "gone"}
  /\ {askedToStop, connStop, gotUrl, urlFile} \subseteq BOOLEAN
  /\ conn \in {"off", "top", "spawn", "wait", "backoff"}
  /\ link \in [Links -> {"none", "up", "down"}] /\ held \in 0..MaxLinks
  /\ adapter \in [Adapters -> {"none", "up", "hung", "dead"}] /\ cur \in 0..MaxAdapters
  /\ recent \in 0..MaxRespawn /\ snap \in {"none", "dead"}
  /\ tunnelPid \in {NoPid} \union {LinkPid(l) : l \in Links} \union {AdapterPid(a) : a \in Adapters}

(* However often the adapter was replaced, and wherever in that the stop   *)
(* came: only the adapter under supervision runs, so the shutdown, which   *)
(* ends that one, leaves none on the port.                                 *)
OneAdapter == UpAdapters \subseteq {cur}

(* A stop that was delivered to the supervising manager is carried out.    *)
TunnelStops == askedToStop ~> (mgr = "gone")
=============================================================================
