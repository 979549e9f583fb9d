------------------------------- MODULE MCWorkers -------------------------------
(* Root of the run Workers: the background workers, which must make       *)
(* progress, as machines that share no state.  A behaviour belongs to one  *)
(* of them, named at the start, and the others rest in their first state:  *)
(* the state spaces add up, they do not multiply.                          *)
EXTENDS DaemonLife, WindowsService, IpcPool, Anchors, LogWriter, Tunnel,
        GatewayOutbox, CircuitBreaker

(* What anchors differ in: an ordinary one without a verdict, found in more *)
(* than one session, and a pinned milestone that failed.                   *)
Shapes1 == {[kind |-> "plain", outcome |-> "pending", multi |-> TRUE, pin |-> FALSE],
            [kind |-> "milestone", outcome |-> "failure", multi |-> FALSE, pin |-> TRUE]}

VARIABLE machine
vars == <<machine, lifeVars, svcVars, poolVars, anchorVars, logVars,
          tunnelVars, outboxVars, breakerVars>>

Machines == {"life", "service", "pool", "anchors", "log", "tunnel",
             "outbox", "breaker"}

Init ==
  /\ machine \in Machines
  /\ LifeInit
  /\ SvcInit
  /\ PoolInit
  /\ AnchorInit
  /\ LogInit
  /\ TunnelInit
  /\ OutboxInit
  /\ BreakerInit
  /\ machine # "life" => host = "daemon"
  /\ machine # "pool" => pool = SetToSeq(Conns)
  /\ machine # "tunnel" => provider = "serveo"
  /\ machine # "breaker" => healthy

Next ==
  /\ UNCHANGED machine
  /\ machine # "life" => UNCHANGED lifeVars
  /\ machine # "service" => UNCHANGED svcVars
  /\ machine # "pool" => UNCHANGED poolVars
  /\ machine # "anchors" => UNCHANGED anchorVars
  /\ machine # "log" => UNCHANGED logVars
  /\ machine # "tunnel" => UNCHANGED tunnelVars
  /\ machine # "outbox" => UNCHANGED outboxVars
  /\ machine # "breaker" => UNCHANGED breakerVars
  /\ \/ machine = "life" /\ LifeNext
     \/ machine = "service" /\ SvcNext
     \/ machine = "pool" /\ PoolNext
     \/ machine = "anchors" /\ AnchorNext
     \/ machine = "log" /\ LogNext
     \/ machine = "tunnel" /\ TunnelNext
     \/ machine = "outbox" /\ OutboxNext
     \/ machine = "breaker" /\ BreakerNext

(* The event loop runs the workers' tasks and time passes; calls of the    *)
(* pool and of the breaker end, their transports have timeouts; requests   *)
(* keep coming; the service's main thread waits with a timeout.            *)
Fairness ==
  /\ WF_lifeVars(machine = "life" /\ OutboxWorker)
  /\ WF_svcVars(machine = "service" /\ Join)
  /\ \A c \in Clients : WF_poolVars(machine = "pool" /\ CallStep(c))
  /\ WF_anchorVars(machine = "anchors" /\ Dreaming)
  /\ WF_logVars(machine = "log" /\ LogLoop)
  /\ WF_tunnelVars(machine = "tunnel" /\ ManagerStep)
  /\ WF_outboxVars(machine = "outbox" /\ Worker)
  /\ \A e \in Events : WF_outboxVars(machine = "outbox" /\ BackoffOver(e))
  /\ WF_breakerVars(machine = "breaker" /\ RecoveryPasses)
  /\ \A c \in Callers :
       /\ WF_breakerVars(machine = "breaker" /\ Start(c))
       /\ WF_breakerVars(machine = "breaker" /\ (Succeed(c) \/ Fail(c)))
Spec == Init /\ [][Next]_vars /\ Fairness

-----------------------------------------------------------------------------
TypeOK ==
  CASE machine = "life" -> LifeTypeOK
    [] machine = "service" -> SvcTypeOK
    [] machine = "pool" -> PoolTypeOK
    [] machine = "anchors" -> AnchorTypeOK
    [] machine = "log" -> LogTypeOK
    [] machine = "tunnel" -> TunnelTypeOK
    [] machine = "outbox" -> OutboxTypeOK
    [] machine = "breaker" -> BreakerTypeOK

(* What must happen in the end, of every machine: outbox rows settle, a    *)
(* service that is stopped ends, pool calls return their connection, the   *)
(* dreamer reaches every row that waits for a verdict, stopping the log    *)
(* writer and the tunnel ends, gateway events are delivered or become dead *)
(* letters, and a breaker whose daemon is healthy for good closes.         *)
Progress ==
  /\ RowsSettle /\ ServiceEnds /\ CallsEnd /\ RowsFindVerdicts /\ LogStopEnds
  /\ TunnelStops /\ EventuallySettled
  /\ (machine = "breaker") => RecoversWhenHealthy
=============================================================================
