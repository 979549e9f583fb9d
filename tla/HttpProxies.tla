----------------------------- MODULE HttpProxies -----------------------------
(* The two proxies between a client and its provider that feed the         *)
(* observer: the reverse proxy (integration/http_proxy.py), which puts     *)
(* memory into the prompt and queues the answer in the daemon's outbox,    *)
(* and the passthrough proxy (integration/proxy_passthrough.py), which     *)
(* only observes.  Both take the text from the answer as it goes by.       *)
(* What a provider sends is counted in chunks of text.                     *)
EXTENDS Integers, FiniteSets

CONSTANTS
  Exchanges,   \* requests of clients
  Instances,   \* processes of the reverse proxy, on one port by SO_REUSEPORT
  MaxText,     \* chunks of an answer
  Attempts,    \* times a request is sent
  Enough       \* chunks below which the reverse proxy does not observe

ASSUME HttpProxiesAssumption ==
  /\ IsFiniteSet(Exchanges) /\ IsFiniteSet(Instances)
  /\ MaxText \in Nat /\ Attempts \in Nat \ {0} /\ Enough \in Nat

VARIABLES
  instance,   \* step of each process
  proxyPid,   \* content of proxy.pid
  daemonUp,   \* the daemon answers on its socket
  route, onInstance, session, streamed,  \* of each exchange
  phase,      \* and its step
  remembers,  \* memory was put into the prompt
  tries,      \* requests sent to the provider
  passed,     \* chunks that have reached the client
  collected,  \* chunks taken for the observer
  whole,      \* the answer came to its end
  note,       \* its observation
  lastSession \* session file of the MCP adapter, for the passthrough

httpVars == <<instance, proxyPid, daemonUp, route, onInstance, session, streamed, phase, remembers,
              tries, passed, collected, whole, note, lastSession>>
processes == <<instance, proxyPid>>
request == <<route, onInstance, session, streamed>>
answer == <<tries, passed, collected, whole>>

NoNote == [step |-> "none", text |-> 0, session |-> "none"]
NoInstance == "none"
TwoSessions == {"A", "B"}
ReverseProxy == {"anthropic", "gemini"}
Observed == ReverseProxy \union {"messages"}

HttpInit ==
  /\ instance = [i \in Instances |-> "off"] /\ proxyPid = NoInstance /\ daemonUp = FALSE
  /\ route = [x \in Exchanges |-> "none"] /\ onInstance = [x \in Exchanges |-> NoInstance]
  /\ session = route /\ streamed = [x \in Exchanges |-> FALSE]
  /\ phase = [x \in Exchanges |-> "new"] /\ remembers = streamed
  /\ tries = [x \in Exchanges |-> 0] /\ passed = tries /\ collected = tries
  /\ whole = streamed /\ note = [x \in Exchanges |-> NoNote] /\ lastSession = "A"

-----------------------------------------------------------------------------
(* lifespan: the pid file, at most half a minute for the daemon's socket,  *)
(* then requests are served, with or without the daemon.                   *)

InstanceStarts(i) ==
  /\ instance[i] = "off" /\ instance' = [instance EXCEPT ![i] = "waiting"] /\ proxyPid' = i
  /\ UNCHANGED <<daemonUp, request, phase, remembers, answer, note, lastSession>>

InstanceServes(i) ==
  /\ instance[i] = "waiting" /\ instance' = [instance EXCEPT ![i] = "serving"]
  /\ UNCHANGED <<proxyPid, daemonUp, request, phase, remembers, answer, note, lastSession>>

(* The server stops when its connections are done; what its tasks have not *)
(* sent by then is lost.  The pid file goes, whoever wrote it last.        *)
InstanceStops(i) ==
  /\ instance[i] = "serving" /\ \A x \in Exchanges : onInstance[x] = i => phase[x] = "done"
  /\ instance' = [instance EXCEPT ![i] = "ended"] /\ proxyPid' = NoInstance
  /\ note' = [x \in Exchanges |-> IF onInstance[x] = i /\ note[x].step = "scheduled"
                                  THEN [note[x] EXCEPT !.step = "abandoned"] ELSE note[x]]
  /\ UNCHANGED <<daemonUp, request, phase, remembers, answer, lastSession>>

-----------------------------------------------------------------------------
(* proxy_messages, proxy_gemini, proxy_gemini_oai, handle_request.         *)
Accept(x) ==
  /\ phase[x] = "new"
  /\ \E r \in Observed \union {"other"}, stream \in BOOLEAN :
       /\ route' = [route EXCEPT ![x] = r] /\ streamed' = [streamed EXCEPT ![x] = stream]
       /\ IF r \in ReverseProxy
          THEN \E i \in Instances, s \in TwoSessions :
                 /\ instance[i] = "serving" /\ onInstance' = [onInstance EXCEPT ![x] = i]
                 /\ session' = [session EXCEPT ![x] = s]
          ELSE UNCHANGED <<onInstance, session>>
       /\ phase' = [phase EXCEPT ![x] = IF r = "anthropic" THEN "inject" ELSE "send"]
  /\ UNCHANGED <<processes, daemonUp, remembers, answer, note, lastSession>>

(* _inject_memory: without the daemon, or with an open breaker, the prompt *)
(* goes on as it is.                                                       *)
InjectMemory(x) ==
  /\ phase[x] = "inject" /\ phase' = [phase EXCEPT ![x] = "send"]
  /\ \E got \in BOOLEAN : (got => daemonUp) /\ remembers' = [remembers EXCEPT ![x] = got]
  /\ UNCHANGED <<processes, daemonUp, request, answer, note, lastSession>>

(* A task for the observer.                                                *)
Schedule(x, text) ==
  [note EXCEPT ![x] = [step |-> IF text > 0 THEN "scheduled" ELSE "none", text |-> text,
                       session |-> session[x]]]

(* One attempt.  The reverse proxy sends again after a server error, twice *)
(* at most; the passthrough proxy does not, and its failover to another    *)
(* provider is dead code, for it asks first whether the key has been read  *)
(* that only the failover reads.                                           *)
Send(x) ==
  /\ phase[x] = "send" /\ tries' = [tries EXCEPT ![x] = @ + 1]
  /\ \E outcome \in {"answer", "error"} :
       phase' = [phase EXCEPT ![x] =
         CASE outcome = "error" /\ route[x] \in ReverseProxy /\ tries[x] + 1 < Attempts -> "send"
           [] outcome = "error" /\ (route[x] \notin ReverseProxy \/ tries[x] + 1 >= Attempts) -> "error"
           [] OTHER -> IF streamed[x] THEN "stream" ELSE "body"]
  /\ UNCHANGED <<processes, daemonUp, request, remembers, passed, collected, whole, note,
                 lastSession>>

(* A status, or no connection: nothing to observe.                         *)
AnswersError(x) ==
  /\ phase[x] = "error" /\ phase' = [phase EXCEPT ![x] = "done"]
  /\ UNCHANGED <<processes, daemonUp, request, remembers, answer, note, lastSession>>

(* _handle_simple, _respond_with: the text of the body; a body that is not *)
(* what was expected has none.                                             *)
AnswersBody(x) ==
  /\ phase[x] = "body" /\ phase' = [phase EXCEPT ![x] = "done"]
  /\ \E n \in 0..MaxText :
       /\ collected' = [collected EXCEPT ![x] = n] /\ passed' = [passed EXCEPT ![x] = n]
       /\ note' = IF route[x] \in Observed THEN Schedule(x, n) ELSE note
  /\ whole' = [whole EXCEPT ![x] = TRUE]
  /\ UNCHANGED <<processes, daemonUp, request, remembers, tries, lastSession>>

(* The reverse proxy takes the text of a chunk and then passes it on, the  *)
(* passthrough proxy takes it when the client asks for the next.           *)
Chunk(x) ==
  /\ phase[x] = "stream" /\ passed[x] < MaxText
  /\ passed' = [passed EXCEPT ![x] = @ + 1]
  /\ collected' = CASE route[x] \in ReverseProxy -> [collected EXCEPT ![x] = @ + 1]
                    [] route[x] = "messages" -> [collected EXCEPT ![x] = passed[x]]
                    [] OTHER -> collected
  /\ UNCHANGED <<processes, daemonUp, request, phase, remembers, tries, whole, note, lastSession>>

StreamEnds(x) ==
  /\ phase[x] = "stream" /\ phase' = [phase EXCEPT ![x] = "done"]
  /\ whole' = [whole EXCEPT ![x] = TRUE]
  /\ collected' = IF route[x] = "messages" THEN [collected EXCEPT ![x] = passed[x]] ELSE collected
  /\ note' = IF route[x] \in Observed THEN Schedule(x, passed[x]) ELSE note
  /\ UNCHANGED <<processes, daemonUp, request, remembers, tries, passed, lastSession>>

(* Fault model: the reverse proxy observes whole answers only.             *)
StreamBreaksUnobserved(x) ==
  /\ phase[x] = "stream" /\ phase' = [phase EXCEPT ![x] = "done"]
  /\ UNCHANGED <<processes, daemonUp, request, remembers, answer, note, lastSession>>

(* The client leaves, or the provider breaks off.  The generator of the    *)
(* reverse proxy observes in a finally clause, that of the passthrough     *)
(* proxy only after the loop.                                              *)
StreamBreaks(x) ==
  /\ phase[x] = "stream" /\ phase' = [phase EXCEPT ![x] = "done"]
  /\ note' = IF route[x] \in ReverseProxy THEN Schedule(x, collected[x]) ELSE note
  /\ UNCHANGED <<processes, daemonUp, request, remembers, answer, lastSession>>

(* _observe of the reverse proxy: outbox_put behind a breaker, fail-open;  *)
(* short texts are not worth it.  Of the passthrough proxy: observe, under *)
(* the session that is current by now.                                     *)
Deliver(x) ==
  /\ note[x].step = "scheduled"
  /\ note' = [note EXCEPT ![x] =
       [@ EXCEPT !.step = CASE route[x] \in ReverseProxy /\ note[x].text < Enough -> "short"
                            [] daemonUp /\ (route[x] \in ReverseProxy => note[x].text >= Enough) -> "sent"
                            [] OTHER -> "daemon down",
                 !.session = IF route[x] \in ReverseProxy THEN note[x].session ELSE lastSession]]
  /\ UNCHANGED <<processes, daemonUp, request, phase, remembers, answer, lastSession>>

(* capture: acknowledged before it is sent.                                *)
Capture(x) ==
  /\ phase[x] = "new" /\ phase' = [phase EXCEPT ![x] = "done"]
  /\ \E i \in Instances, s \in TwoSessions, n \in 1..MaxText :
       /\ instance[i] = "serving" /\ onInstance' = [onInstance EXCEPT ![x] = i]
       /\ session' = [session EXCEPT ![x] = s] /\ route' = [route EXCEPT ![x] = "anthropic"]
       /\ collected' = [collected EXCEPT ![x] = n] /\ passed' = [passed EXCEPT ![x] = n]
       /\ note' = [note EXCEPT ![x] = [step |-> "scheduled", text |-> n, session |-> s]]
  /\ whole' = [whole EXCEPT ![x] = TRUE]
  /\ UNCHANGED <<processes, daemonUp, streamed, remembers, tries, lastSession>>

-----------------------------------------------------------------------------
DaemonTurns ==
  /\ daemonUp' = ~daemonUp
  /\ UNCHANGED <<processes, request, phase, remembers, answer, note, lastSession>>
AdapterStarts ==
  /\ lastSession = "A" /\ lastSession' = "B"
  /\ UNCHANGED <<processes, daemonUp, request, phase, remembers, answer, note>>

HttpNext ==
  \/ \E i \in Instances : InstanceStarts(i) \/ InstanceServes(i) \/ InstanceStops(i)
  \/ \E x \in Exchanges :
       \/ Accept(x) \/ InjectMemory(x) \/ Send(x) \/ AnswersError(x) \/ AnswersBody(x)
       \/ Chunk(x) \/ StreamEnds(x) \/ StreamBreaks(x) \/ Deliver(x) \/ Capture(x)
  \/ DaemonTurns \/ AdapterStarts

-----------------------------------------------------------------------------
HttpTypeOK ==
  /\ instance \in [Instances -> {"off", "waiting", "serving", "ended"}]
  /\ proxyPid \in Instances \union {NoInstance} /\ daemonUp \in BOOLEAN /\ lastSession \in TwoSessions
  /\ route \in [Exchanges -> Observed \union {"other", "none"}]
  /\ onInstance \in [Exchanges -> Instances \union {NoInstance}]
  /\ session \in [Exchanges -> TwoSessions \union {"none"}]
  /\ phase \in [Exchanges -> {"new", "inject", "send", "error", "body", "stream", "done"}]
  /\ {streamed, remembers, whole} \subseteq [Exchanges -> BOOLEAN]
  /\ tries \in [Exchanges -> 0..Attempts] /\ {passed, collected} \subseteq [Exchanges -> 0..MaxText]
  /\ \A x \in Exchanges : note[x].text \in 0..MaxText

(* Whatever text of a model the reverse proxy has let through is handed to *)
(* the observer once the exchange is over, however it ended, under the     *)
(* session the client was given; it is lost only if it is short, the       *)
(* daemon is away or the proxy itself ends.  The passthrough proxy hands   *)
(* over whole answers only.  A request is sent again only while the client *)
(* has nothing of an answer.  The pid file never names an ended process.   *)
AnswersObserved ==
  /\ proxyPid # NoInstance => instance[proxyPid] # "ended"
  /\ \A x \in Exchanges :
      LET n == note[x] IN
      /\ phase[x] = "done" /\ route[x] \in ReverseProxy =>
           /\ n.text = passed[x] /\ (passed[x] > 0 => n.step # "none" /\ n.session = session[x])
           /\ n.step = "abandoned" => instance[onInstance[x]] = "ended"
      /\ n.step # "none" /\ route[x] = "messages" => whole[x] /\ n.text = passed[x]
      /\ phase[x] \in {"inject", "send"} => passed[x] = 0 /\ n.step = "none"
      /\ n.step = "sent" /\ route[x] \in ReverseProxy => n.text >= Enough
=============================================================================
