------------------------------- MODULE MCHandlers -------------------------------
(* Root of the run Handlers: processes, request handlers and workers,      *)
(* checked for safety on larger instances than in MCWorkers, again as      *)
(* machines that share no state.                                           *)
EXTENDS Processes, DaemonLife, WindowsService, FlushTimer, IpcPool,
        StepLogs, Anchors, Signals, LogWriter, GatewayRequests,
        GatewayDispatch, GatewayOutbox, Tunnel, ConnectProxy,
        CircuitBreaker

(* What anchors differ in: an ordinary one without a verdict, found in more *)
(* than one session, and a pinned milestone that failed.                   *)
Shapes1 == {[kind |-> "plain", outcome |-> "pending", multi |-> TRUE, pin |-> FALSE],
            [kind |-> "milestone", outcome |-> "failure", multi |-> FALSE, pin |-> TRUE]}

(* With and without the guardian.                                          *)
Configs1 == {{"guard", "surface", "loop"}, {"surface", "loop"}}

VARIABLE machine
vars == <<machine, procVars, lifeVars, svcVars, timerVars, poolVars,
          stepVars, anchorVars, signalVars, logVars, gwVars, dispatchVars,
          outboxVars, tunnelVars, proxyVars, breakerVars>>

Machines == {"processes", "life", "service", "timer", "pool", "steps",
             "anchors", "signals", "log", "gateway", "dispatch", "outbox",
             "tunnel", "proxy", "breaker"}

Init ==
  /\ machine \in Machines
  /\ ProcInit
  /\ LifeInit
  /\ SvcInit
  /\ TimerInit
  /\ PoolInit
  /\ StepInit
  /\ AnchorInit
  /\ SignalInit
  /\ LogInit
  /\ GwInit
  /\ DispatchInit
  /\ OutboxInit
  /\ TunnelInit
  /\ ProxyInit
  /\ BreakerInit
  /\ machine # "life" => host = "daemon"
  /\ machine # "pool" => pool = SetToSeq(Conns)
  /\ machine # "signals" => "guard" \in enabled
  /\ machine # "tunnel" => provider = "serveo"
  /\ machine # "breaker" => healthy
  /\ machine # "proxy" => \A c \in Tunnels : mode[c] = "reject"
  /\ Cardinality({c \in Tunnels : mode[c] = "intercept"}) <= 1

Next ==
  /\ UNCHANGED machine
  /\ machine # "processes" => UNCHANGED procVars
  /\ machine # "life" => UNCHANGED lifeVars
  /\ machine # "service" => UNCHANGED svcVars
  /\ machine # "timer" => UNCHANGED timerVars
  /\ machine # "pool" => UNCHANGED poolVars
  /\ machine # "steps" => UNCHANGED stepVars
  /\ machine # "anchors" => UNCHANGED anchorVars
  /\ machine # "signals" => UNCHANGED signalVars
  /\ machine # "log" => UNCHANGED logVars
  /\ machine # "gateway" => UNCHANGED gwVars
  /\ machine # "dispatch" => UNCHANGED dispatchVars
  /\ machine # "outbox" => UNCHANGED outboxVars
  /\ machine # "tunnel" => UNCHANGED tunnelVars
  /\ machine # "proxy" => UNCHANGED proxyVars
  /\ machine # "breaker" => UNCHANGED breakerVars
  /\ \/ machine = "processes" /\ ProcNext
     \/ machine = "life" /\ LifeNext
     \/ machine = "service" /\ SvcNext
     \/ machine = "timer" /\ TimerNext
     \/ machine = "pool" /\ PoolNext
     \/ machine = "steps" /\ StepNext
     \/ machine = "anchors" /\ AnchorNext
     \/ machine = "signals" /\ SignalNext
     \/ machine = "log" /\ LogNext
     \/ machine = "gateway" /\ GwNext
     \/ machine = "dispatch" /\ DispatchNext
     \/ machine = "outbox" /\ OutboxNext
     \/ machine = "tunnel" /\ TunnelNext
     \/ machine = "proxy" /\ ProxyNext
     \/ machine = "breaker" /\ BreakerNext

Spec == Init /\ [][Next]_vars

-----------------------------------------------------------------------------
TypeOK ==
  CASE machine = "processes" -> ProcTypeOK
    [] machine = "life" -> LifeTypeOK
    [] machine = "service" -> SvcTypeOK
    [] machine = "timer" -> TimerTypeOK
    [] machine = "pool" -> PoolTypeOK
    [] machine = "steps" -> StepTypeOK
    [] machine = "anchors" -> AnchorTypeOK
    [] machine = "signals" -> SignalTypeOK
    [] machine = "log" -> LogTypeOK
    [] machine = "gateway" -> GwTypeOK
    [] machine = "dispatch" -> DispatchTypeOK
    [] machine = "outbox" -> OutboxTypeOK
    [] machine = "tunnel" -> TunnelTypeOK
    [] machine = "proxy" -> ProxyTypeOK
    [] machine = "breaker" -> BreakerTypeOK

=============================================================================
