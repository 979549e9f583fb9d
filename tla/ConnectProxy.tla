----------------------------- MODULE ConnectProxy -----------------------------
(* The CONNECT proxy: accept, routing by the client registry, the limit on *)
(* concurrent tunnels, the transparent relay (proxy/tunnel.py) and the     *)
(* intercepting pipes that observe what they carry                         *)
(* (integration/mnemo_mitm_proxy.py).                                      *)
(*                                                                         *)
(* A step ends at an await.  Bytes are chunks, counted per direction; an   *)
(* observation is a task that carries the chunks of one full buffer.       *)
EXTENDS Integers, FiniteSets

CONSTANTS
  Tunnels,      \* client connections
  MaxTunnels, \* max_concurrent_tunnels
  MaxChunks,  \* bound: chunks a direction carries
  BufLimit    \* chunks that fill _MAX_OBSERVE_BUF

ASSUME ConnectProxyAssumption ==
  IsFiniteSet(Tunnels) /\ {MaxTunnels, MaxChunks, BufLimit} \subseteq Nat \ {0}

VARIABLES
  mode,      \* what the registry says of the host: "reject", "tunnel", "intercept"
  at,        \* step of the handler
  active,    \* _active_tunnels
  answers,   \* status lines written to the client, as a set; "twice" if one followed another
  upstream,  \* connections whose upstream writer is open
  flow,      \* state of each direction
  written, buffered, underWay, taken  \* chunks of each direction

proxyVars == <<mode, at, active, answers, upstream, flow, written, buffered, underWay, taken>>
counters == <<written, buffered, underWay, taken>>

Dirs == {"request", "response"}
Flow == {"off", "read", "drain", "flush", "over", "broken"}
Ended(c) == {d \in Dirs : flow[c][d] \in {"over", "broken"}}

ProxyInit ==
  /\ mode \in [Tunnels -> {"reject", "tunnel", "intercept"}]
  /\ at = [c \in Tunnels |-> "line"] /\ active = 0 /\ answers = [c \in Tunnels |-> {}]
  /\ upstream = {} /\ flow = [c \in Tunnels |-> [d \in Dirs |-> "off"]]
  /\ written = [c \in Tunnels |-> [d \in Dirs |-> 0]]
  /\ buffered = written /\ underWay = written /\ taken = written

Step(c, from, to) == at[c] = from /\ at' = [at EXCEPT ![c] = to]
Write(c, status) ==
  answers' = [answers EXCEPT ![c] = @ \union {status} \union (IF @ = {} THEN {} ELSE {"twice"})]

-----------------------------------------------------------------------------
(* handle_client and handle_connect.                                       *)

(* The first line: none, an error, or something that is not CONNECT.       *)
Refuse(c) ==
  /\ Step(c, "line", "closed")
  /\ \/ UNCHANGED answers
     \/ Write(c, "405")
  /\ UNCHANGED <<mode, active, upstream, flow, counters>>

Reject(c) ==
  /\ mode[c] = "reject" /\ Step(c, "line", "closed") /\ Write(c, "502")
  /\ UNCHANGED <<mode, active, upstream, flow, counters>>

(* _try_acquire_slot.                                                      *)
SlotFree == active < MaxTunnels

EnterTunnel(c) ==
  /\ mode[c] = "tunnel"
  /\ \/ /\ SlotFree /\ active' = active + 1
        /\ Step(c, "line", "connect") /\ UNCHANGED answers
     \/ /\ ~SlotFree /\ Step(c, "line", "closed") /\ Write(c, "503") /\ UNCHANGED active
  /\ UNCHANGED <<mode, upstream, flow, counters>>

(* The finally of _run_tunnel.                                             *)
ReleaseSlot == active' = active - 1

CloseUpstream(c) == upstream' = upstream \ {c}

ConnectFails(c) ==
  /\ Step(c, "connect", "closed") /\ ReleaseSlot
  /\ \E status \in {"502", "504"} : Write(c, status)
  /\ UNCHANGED <<mode, upstream, flow, counters>>

Connected(c) ==
  /\ Step(c, "connect", "head") /\ upstream' = upstream \union {c}
  /\ UNCHANGED <<mode, active, answers, flow, counters>>

(* raw_tcp_tunnel swallows every error after the connection to the         *)
(* upstream: here the head of the request cannot be read.                  *)
HeadBroken(c) ==
  /\ Step(c, "head", "closed") /\ CloseUpstream(c) /\ ReleaseSlot
  /\ UNCHANGED <<mode, answers, flow, counters>>

HeadRead(c) ==
  /\ Step(c, "head", "relay") /\ Write(c, "200")
  /\ flow' = [flow EXCEPT ![c] = [d \in Dirs |-> "read"]]
  /\ UNCHANGED <<mode, active, upstream, counters>>

-----------------------------------------------------------------------------
(* _run_relays.  A relay that ends by EOF or a reset leaves its sibling    *)
(* running; one that fails otherwise ends it, and so does the watchdog     *)
(* when neither direction has moved a byte.                                *)

RelayEnds(c, d) ==
  /\ at[c] = "relay" /\ flow[c][d] = "read"
  /\ \/ flow' = [flow EXCEPT ![c][d] = "over"]
     \/ flow' = [flow EXCEPT ![c] = [e \in Dirs |-> IF e \in Ended(c) THEN @[e] ELSE "broken"]]
  /\ UNCHANGED <<mode, at, active, answers, upstream, counters>>

RelayIdle(c) ==
  /\ at[c] = "relay" /\ Ended(c) # Dirs
  /\ flow' = [flow EXCEPT ![c] = [e \in Dirs |-> IF e \in Ended(c) THEN @[e] ELSE "broken"]]
  /\ UNCHANGED <<mode, at, active, answers, upstream, counters>>

(* Fault model: an error of a relay is answered like one of the connection.*)
TunnelClosesLoud(c) ==
  /\ Ended(c) = Dirs /\ Step(c, "relay", "closed") /\ CloseUpstream(c) /\ ReleaseSlot
  /\ IF \E d \in Dirs : flow[c][d] = "broken" THEN Write(c, "502") ELSE UNCHANGED answers
  /\ UNCHANGED <<mode, flow, counters>>

TunnelCloses(c) ==
  /\ Ended(c) = Dirs /\ Step(c, "relay", "closed") /\ CloseUpstream(c) /\ ReleaseSlot
  /\ UNCHANGED <<mode, answers, flow, counters>>

-----------------------------------------------------------------------------
(* handle_connect_mitm: 200 first, then the certificate, the handshake     *)
(* with the client and the connection to the upstream, any of which may    *)
(* end the connection.                                                     *)

Intercept(c) ==
  /\ mode[c] = "intercept" /\ Step(c, "line", "tls") /\ Write(c, "200")
  /\ UNCHANGED <<mode, active, upstream, flow, counters>>

InterceptFails(c) ==
  /\ at[c] \in {"tls", "dial"} /\ at' = [at EXCEPT ![c] = "closed"]
  /\ UNCHANGED <<mode, active, answers, upstream, flow, counters>>

Handshake(c) ==
  /\ Step(c, "tls", "dial") /\ UNCHANGED <<mode, active, answers, upstream, flow, counters>>

Dialled(c) ==
  /\ Step(c, "dial", "pipe") /\ upstream' = upstream \union {c}
  /\ flow' = [flow EXCEPT ![c] = [d \in Dirs |-> "read"]]
  /\ UNCHANGED <<mode, active, answers, counters>>

(* _pipe_and_observe: a chunk is written, drained and then buffered; a full*)
(* buffer goes to a task of its own.                                       *)
PipeRead(c, d) ==
  /\ at[c] = "pipe" /\ flow[c][d] = "read" /\ written[c][d] < MaxChunks
  /\ flow' = [flow EXCEPT ![c][d] = "drain"] /\ written' = [written EXCEPT ![c][d] = @ + 1]
  /\ UNCHANGED <<mode, at, active, answers, upstream, buffered, underWay, taken>>

PipeDrained(c, d) ==
  LET n == buffered[c][d] + 1 IN
  /\ flow[c][d] = "drain" /\ flow' = [flow EXCEPT ![c][d] = "read"]
  /\ buffered' = [buffered EXCEPT ![c][d] = IF n >= BufLimit THEN 0 ELSE n]
  /\ underWay' = [underWay EXCEPT ![c][d] = IF n >= BufLimit THEN @ + n ELSE @]
  /\ UNCHANGED <<mode, at, active, answers, upstream, written, taken>>

(* EOF, a reset, an error, or the cancellation by the idle watchdog: the   *)
(* finally clause waits for the tasks and then observes the rest.          *)
PipeStops(c, d) ==
  /\ at[c] = "pipe" /\ flow[c][d] \in {"read", "drain"}
  /\ flow' = [flow EXCEPT ![c][d] = "flush"]
  /\ UNCHANGED <<mode, at, active, answers, upstream, counters>>

PipesIdle(c) ==
  /\ at[c] = "pipe" /\ \E d \in Dirs : flow[c][d] \in {"read", "drain"}
  /\ flow' = [flow EXCEPT ![c] =
                [d \in Dirs |-> IF @[d] \in {"read", "drain"} THEN "flush" ELSE @[d]]]
  /\ UNCHANGED <<mode, at, active, answers, upstream, counters>>

ObserveEnds(c, d) ==
  /\ underWay[c][d] >= BufLimit
  /\ underWay' = [underWay EXCEPT ![c][d] = @ - BufLimit]
  /\ taken' = [taken EXCEPT ![c][d] = @ + BufLimit]
  /\ UNCHANGED <<mode, at, active, answers, upstream, flow, written, buffered>>

(* Fault model: the rest is observed without waiting for the tasks.        *)
FlushUnwaited(c, d) ==
  /\ flow[c][d] = "flush" /\ flow' = [flow EXCEPT ![c][d] = "over"]
  /\ buffered' = [buffered EXCEPT ![c][d] = 0]
  /\ taken' = [taken EXCEPT ![c][d] = @ + buffered[c][d]]
  /\ UNCHANGED <<mode, at, active, answers, upstream, written, underWay>>

Flush(c, d) ==
  /\ flow[c][d] = "flush" /\ underWay[c][d] = 0
  /\ flow' = [flow EXCEPT ![c][d] = "over"]
  /\ buffered' = [buffered EXCEPT ![c][d] = 0]
  /\ taken' = [taken EXCEPT ![c][d] = @ + buffered[c][d]]
  /\ UNCHANGED <<mode, at, active, answers, upstream, written, underWay>>

(* gather waits for both pipes, whatever ended the first.                  *)
PipesClose(c) ==
  /\ Ended(c) = Dirs /\ Step(c, "pipe", "closed") /\ CloseUpstream(c)
  /\ UNCHANGED <<mode, active, answers, flow, counters>>

ProxyNext ==
  \E c \in Tunnels :
    \/ Refuse(c) \/ Reject(c) \/ EnterTunnel(c) \/ ConnectFails(c) \/ Connected(c)
    \/ HeadBroken(c) \/ HeadRead(c) \/ RelayIdle(c) \/ TunnelCloses(c)
    \/ Intercept(c) \/ InterceptFails(c) \/ Handshake(c) \/ Dialled(c) \/ PipesIdle(c)
    \/ PipesClose(c)
    \/ \E d \in Dirs : \/ RelayEnds(c, d) \/ PipeRead(c, d) \/ PipeDrained(c, d)
                       \/ PipeStops(c, d) \/ ObserveEnds(c, d) \/ Flush(c, d)

-----------------------------------------------------------------------------
ProxyTypeOK ==
  /\ mode \in [Tunnels -> {"reject", "tunnel", "intercept"}]
  /\ at \in [Tunnels -> {"line", "connect", "head", "relay", "tls", "dial", "pipe", "closed"}]
  /\ active \in 0..MaxTunnels /\ upstream \subseteq Tunnels
  /\ answers \in [Tunnels -> SUBSET {"200", "405", "502", "503", "504", "twice"}]
  /\ flow \in [Tunnels -> [Dirs -> Flow]]
  /\ \A n \in {written, buffered, underWay, taken} : n \in [Tunnels -> [Dirs -> 0..MaxChunks]]

(* A slot is taken exactly while its tunnel runs; a client gets at most one*)
(* status line, so no error text is mixed into a tunnelled stream; and no  *)
(* upstream connection outlives its handler.                               *)
TunnelsSound ==
  /\ active = Cardinality({c \in Tunnels : at[c] \in {"connect", "head", "relay"}})
  /\ \A c \in Tunnels : "twice" \notin answers[c] /\ (at[c] = "closed" => c \notin upstream)

(* What an intercepted direction carried has been handed to the observer   *)
(* when the connection closes, but for a chunk that was being drained; and *)
(* nothing is handed over twice.                                           *)
CarriedIsObserved ==
  \A c \in Tunnels, d \in Dirs :
    /\ taken[c][d] + underWay[c][d] + buffered[c][d] \in {written[c][d] - 1, written[c][d]}
    /\ at[c] = "closed" => underWay[c][d] + buffered[c][d] = 0

(* Slots, connections, answers and observations of the forward and the     *)
(* MITM proxy are accounted for, however a tunnel ends.                    *)
ProxySound == TunnelsSound /\ CarriedIsObserved
=============================================================================
