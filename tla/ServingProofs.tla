-------------------------- MODULE ServingProofs ---------------------------
(***************************************************************************)
(* What is served to clients and kept for them: injected context, observed *)
(* answers, content versions, backups and what set-up installs, for any    *)
(* number of conversations, exchanges, blocks, rows and bundles.           *)
(***************************************************************************)
EXTENDS Inject, HttpProxies, Content, Backups, Setup, SequenceTheorems, TLAPS

-----------------------------------------------------------------------------
(* Context injection and its verdicts (ConductorProxy.inject,              *)
(* implicit.py).                                                           *)
InjectSpec == InjectInit /\ [][InjectNext]_injectVars

(* What the next verdict will be about still has its claim; and the cached *)
(* part names nobody who was out of RAM when a block was asked for, or, as *)
(* long as it is fresh, when the cache last expired.                       *)
Claimed == Of(lastReturned, "query") \union Of(lastInjected, "prompt") \subseteq claims
CacheKnown ==
  /\ gone \intersect inRam = {}
  /\ fresh => staticCache \intersect gone = {}
  /\ \A p \in Prompts : knownGone[p] \intersect (inRam \union staticCache) = {}
InjectInv == InjectTypeOK /\ Claimed /\ CacheKnown /\ InjectSound

LEMMA InjectInitial == InjectInit => InjectInv
<1> SUFFICES ASSUME InjectInit PROVE InjectInv
  OBVIOUS
<1>1. fresh \in BOOLEAN
  BY Zenon DEF InjectInit
<1>2. InjectTypeOK
  <2>1. \A f \in {hitsOf, knownGone} : f \in [Prompts -> SUBSET Remembered]
    BY DEF InjectInit
  <2>2. asking \in [Prompts -> {"no", "embed", "rerank"}]
    BY DEF InjectInit
  <2>3. QED
    BY <1>1, <2>1, <2>2 DEF InjectInit, InjectTypeOK
<1>3. Claimed /\ CacheKnown /\ InjectSound
  BY DEF InjectInit, Claimed, CacheKnown, InjectSound, Of
<1>4. QED
  BY <1>2, <1>3 DEF InjectInv

(* The tracker's verdicts are about what was returned last.                *)
LEMMA NewQuery ==
  ASSUME InjectInv, NEW found \in SUBSET Remembered, OnSemanticQuery(found)
  PROVE  /\ unearned' = {} /\ lastReturned' = found /\ sinceQuery' = "short"
         /\ credited' \subseteq Remembered
BY DEF InjectInv, InjectTypeOK, Claimed, InjectSound, OnSemanticQuery, Credit

LEMMA InjectTypesStep ==
  ASSUME InjectInv, [InjectNext]_injectVars
  PROVE  InjectTypeOK' /\ Claimed' /\ unearned' = {}
<1> USE InjectAssumption DEF InjectInv, InjectTypeOK, InjectSound, Claimed, Of
<1>1. ASSUME NEW p \in Prompts, StartInject(p) PROVE InjectTypeOK' /\ Claimed' /\ unearned' = {}
  <2>1. fresh' \in BOOLEAN
    BY <1>1, Zenon DEF StartInject
  <2>2. QED
    BY <1>1, <2>1 DEF StartInject, Ask, verdicts, StaticPart
<1>2. ASSUME NEW p \in Prompts, Search(p) \/ SearchFails(p) PROVE InjectTypeOK' /\ Claimed' /\ unearned' = {}
  BY <1>2 DEF Search, SearchFails, Ask, verdicts, cacheVars
<1>3. ASSUME NEW p \in Prompts, FinishInject(p) PROVE InjectTypeOK' /\ Claimed' /\ unearned' = {}
  <2> DEFINE found == hitsOf[p]
  <2>1. /\ found \in SUBSET Remembered
        /\ unearned' = {} /\ lastReturned' = found /\ sinceQuery' = "short" /\ credited' \subseteq Remembered
    BY <1>3, NewQuery DEF FinishInject
  <2>2. QED
    BY <1>3, <2>1 DEF FinishInject, Ask, cacheVars
<1>4. CASE Query
  <2>1. PICK found \in SUBSET inRam :
          OnSemanticQuery(found) /\ claims' = (claims \ Of(Remembered, "query")) \union Of(found, "query")
    BY <1>4 DEF Query
  <2>2. /\ found \in SUBSET Remembered
        /\ unearned' = {} /\ lastReturned' = found /\ sinceQuery' = "short" /\ credited' \subseteq Remembered
    BY <2>1, NewQuery
  <2>3. QED
    BY <1>4, <2>1, <2>2 DEF Query, cacheVars
<1>5. ASSUME NEW s \in Remembered, CtxGet(s) \/ ForgetSession(s) PROVE InjectTypeOK' /\ Claimed' /\ unearned' = {}
  BY <1>5 DEF CtxGet, ForgetSession, cacheVars
<1>6. CASE Feel
  BY <1>6 DEF Feel, cacheVars, verdicts
<1>7. CASE Respond
  BY <1>7 DEF Respond, cacheVars, Credit
<1>8. CASE CacheExpires
  <2>1. fresh' \in BOOLEAN
    BY <1>8, Zenon DEF CacheExpires
  <2>2. QED
    BY <1>8, <2>1 DEF CacheExpires, verdicts
<1>9. CASE WindowPasses \/ UNCHANGED injectVars
  BY <1>9 DEF WindowPasses, injectVars, cacheVars
<1>10. QED
  BY <1>1, <1>2, <1>3, <1>4, <1>5, <1>6, <1>7, <1>8, <1>9 DEF InjectNext

LEMMA CacheStep ==
  ASSUME InjectInv, [InjectNext]_injectVars
  PROVE  CacheKnown' /\ misled' = {}
<1> /\ gone \intersect inRam = {} /\ (fresh => staticCache \intersect gone = {}) /\ misled = {}
    /\ \A p \in Prompts : knownGone[p] \intersect (inRam \union staticCache) = {}
  BY Zenon DEF InjectInv, InjectSound, CacheKnown
<1> knownGone \in [Prompts -> SUBSET Remembered]
  BY DEF InjectInv, InjectTypeOK
<1> USE DEF CacheKnown
<1>1. ASSUME NEW p \in Prompts, StartInject(p) PROVE CacheKnown' /\ misled' = {}
  <2>1. gone' = gone /\ inRam' = inRam /\ misled' = {}
    BY <1>1 DEF StartInject
  <2> staticCache' \intersect gone = {}
    BY <1>1 DEF StartInject, StaticPart
  <2>2. \A q \in Prompts : knownGone'[q] = IF q = p THEN gone ELSE knownGone[q]
    BY <1>1 DEF StartInject
  <2>3. staticCache' \subseteq inRam \union staticCache
    BY <1>1 DEF StartInject, StaticPart
  <2>4. QED
    BY <2>1, <2>2, <2>3
<1>2. ASSUME NEW p \in Prompts, Search(p) \/ SearchFails(p) \/ FinishInject(p) PROVE CacheKnown' /\ misled' = {}
  <2>1. /\ UNCHANGED <<inRam, cacheVars>> /\ misled' \subseteq misled \union (staticCache \intersect knownGone[p])
        /\ \A q \in Prompts : knownGone'[q] \subseteq knownGone[q]
    BY <1>2 DEF Search, SearchFails, FinishInject
  <2>2. QED
    BY <2>1 DEF cacheVars
<1>3. ASSUME NEW s \in Remembered, CtxGet(s) PROVE CacheKnown' /\ misled' = {}
  <2>1. \A q \in Prompts : knownGone'[q] = knownGone[q] \ {s}
    BY <1>3 DEF CtxGet
  <2>2. /\ inRam' = inRam \union {s} /\ gone' = gone \ {s} /\ UNCHANGED <<staticCache, fresh, misled>>
    BY <1>3 DEF CtxGet
  <2>3. QED
    BY <2>1, <2>2
<1>4. ASSUME NEW s \in Remembered, ForgetSession(s) PROVE CacheKnown' /\ misled' = {}
  <2>1. inRam' = inRam \ {s} /\ UNCHANGED <<gone, fresh, staticCache, knownGone, misled>>
    BY <1>4 DEF ForgetSession, cacheVars
  <2>2. QED
    BY <2>1
<1>5. CASE Query \/ Feel \/ Respond \/ WindowPasses \/ UNCHANGED injectVars
  BY <1>5 DEF Query, Feel, Respond, WindowPasses, injectVars, cacheVars
<1>6. CASE CacheExpires
  BY <1>6 DEF CacheExpires
<1>7. QED
  BY <1>1, <1>2, <1>3, <1>4, <1>5, <1>6 DEF InjectNext

(* A result and an injection get at most one verdict, and no block names a *)
(* session known to have left RAM, for any number of conversations that    *)
(* share the tracker and the cache (ConductorProxy.inject, implicit.py).   *)
THEOREM InjectIsSound == InjectSpec => []InjectSound
<1>1. InjectInv /\ [InjectNext]_injectVars => InjectInv'
  BY InjectTypesStep, CacheStep DEF InjectInv, InjectSound
<1>2. InjectInv => InjectSound
  BY DEF InjectInv
<1>3. QED
  BY InjectInitial, <1>1, <1>2, PTL DEF InjectSpec

(* Cache, tracker and prompts hold sessions that were remembered, for any  *)
(* conversations (ConductorProxy.inject, implicit.py).                     *)
THEOREM InjectTyped == InjectSpec => []InjectTypeOK
<1>1. InjectInv /\ [InjectNext]_injectVars => InjectInv'
  BY InjectTypesStep, CacheStep DEF InjectInv, InjectSound
<1>2. InjectInv => InjectTypeOK
  BY DEF InjectInv
<1>3. QED
  BY InjectInitial, <1>1, <1>2, PTL DEF InjectSpec

-----------------------------------------------------------------------------
(* Observing proxies (integration/http_proxy.py,                           *)
(* integration/proxy_passthrough.py).                                      *)
HttpSpec == HttpInit /\ [][HttpNext]_httpVars

HttpTypes ==
  /\ instance \in [Instances -> {"off", "waiting", "serving", "ended"}]
  /\ proxyPid \in Instances \union {NoInstance}
  /\ proxyPid # NoInstance => instance[proxyPid] # "ended"
  /\ DOMAIN route = Exchanges /\ DOMAIN onInstance = Exchanges
  /\ session \in [Exchanges -> TwoSessions \union {"none"}] /\ lastSession \in TwoSessions
  /\ DOMAIN phase = Exchanges /\ DOMAIN whole = Exchanges /\ DOMAIN note = Exchanges
  /\ passed \in [Exchanges -> Nat] /\ collected \in [Exchanges -> Nat]

(* Where each exchange is, and what its observation says of it: there is   *)
(* none before it ends, and the reverse proxy has collected by then what   *)
(* it has let through.                                                     *)
ExchangeSound(x) ==
  /\ phase[x] \in {"new", "inject", "send", "error", "body", "stream", "done"}
  /\ phase[x] # "done" => note[x] = NoNote
  /\ phase[x] \notin {"stream", "done"} => passed[x] = 0 /\ collected[x] = 0
  /\ phase[x] = "stream" /\ route[x] \in ReverseProxy => collected[x] = passed[x]
  /\ phase[x] = "done" /\ route[x] \in ReverseProxy =>
       /\ note[x].text = passed[x] /\ (passed[x] > 0 => note[x].step # "none" /\ note[x].session = session[x])
       /\ note[x].step = "abandoned" => instance[onInstance[x]] = "ended"
  /\ note[x].step # "none" /\ route[x] = "messages" => whole[x] /\ note[x].text = passed[x]
  /\ note[x].step = "sent" /\ route[x] \in ReverseProxy => note[x].text >= Enough
  /\ route[x] \in ReverseProxy => onInstance[x] \in Instances

(* What an observation may be.                                             *)
Notes == [step : {"none", "scheduled", "abandoned", "short", "sent", "daemon down"}, text : Nat,
          session : TwoSessions \union {"none"}]
NoteTyped(x) == note[x] \in Notes

HttpInv == HttpTypes /\ (\A x \in Exchanges : NoteTyped(x)) /\ \A x \in Exchanges : ExchangeSound(x)

(* A step that is none of x.                                               *)
Untouched(x) ==
  /\ route'[x] = route[x] /\ onInstance'[x] = onInstance[x] /\ session'[x] = session[x] /\ phase'[x] = phase[x]
  /\ passed'[x] = passed[x] /\ collected'[x] = collected[x] /\ whole'[x] = whole[x] /\ note'[x] = note[x]

LEMMA HttpInitial == HttpInit => HttpInv
<1> SUFFICES ASSUME HttpInit PROVE HttpInv
  OBVIOUS
<1>1. HttpTypes
  BY DEF HttpInit, HttpTypes, TwoSessions
<1>2. ASSUME NEW x \in Exchanges PROVE ExchangeSound(x)
  <2>1. phase[x] = "new" /\ note[x] = NoNote /\ passed[x] = 0 /\ collected[x] = 0 /\ route[x] = "none"
    BY DEF HttpInit
  <2>2. QED
    BY <2>1 DEF ExchangeSound, NoNote, ReverseProxy, TwoSessions
<1>3. ASSUME NEW x \in Exchanges PROVE NoteTyped(x)
  <2>1. note[x] = NoNote
    BY DEF HttpInit
  <2>2. QED
    BY <2>1 DEF NoteTyped, Notes, NoNote, TwoSessions
<1>4. QED
  BY <1>1, <1>2, <1>3 DEF HttpInv

(* An instance that has ended does not come back.                          *)
LEMMA Ended ==
  ASSUME HttpInv, [HttpNext]_httpVars
  PROVE  \A i \in Instances : instance[i] = "ended" => instance'[i] = "ended"
<1>1. CASE instance' = instance
  BY <1>1
<1>2. CASE \E i \in Instances : InstanceStarts(i) \/ InstanceServes(i) \/ InstanceStops(i)
  BY <1>2 DEF HttpInv, HttpTypes, InstanceStarts, InstanceServes, InstanceStops
<1>3. QED
  BY <1>1, <1>2 DEF HttpNext, Accept, InjectMemory, Send, AnswersError, AnswersBody, Chunk, StreamEnds, StreamBreaks,
     Deliver, Capture, DaemonTurns, AdapterStarts, processes, httpVars

LEMMA HttpTypesStep ==
  ASSUME HttpInv, [HttpNext]_httpVars
  PROVE  HttpTypes'
<1> USE DEF HttpInv, HttpTypes, TwoSessions
<1>1. CASE \E i \in Instances : InstanceStarts(i) \/ InstanceServes(i) \/ InstanceStops(i)
  BY <1>1 DEF InstanceStarts, InstanceServes, InstanceStops, request, answer
<1>2. CASE \E x \in Exchanges : Accept(x) \/ InjectMemory(x) \/ Send(x) \/ AnswersError(x)
  BY <1>2 DEF Accept, InjectMemory, Send, AnswersError, processes, request, answer
<1>3. CASE \E x \in Exchanges : AnswersBody(x)
  BY <1>3, HttpProxiesAssumption DEF AnswersBody, Schedule, processes, request
<1>4. CASE \E x \in Exchanges : Chunk(x) \/ StreamEnds(x) \/ StreamBreaks(x)
  BY <1>4 DEF Chunk, StreamEnds, StreamBreaks, Schedule, processes, request, answer
<1>5. CASE \E x \in Exchanges : Deliver(x) \/ Capture(x)
  BY <1>5, HttpProxiesAssumption DEF Deliver, Capture, processes, request, answer
<1>6. CASE DaemonTurns \/ AdapterStarts \/ UNCHANGED httpVars
  BY <1>6 DEF DaemonTurns, AdapterStarts, httpVars, processes, request, answer
<1>7. QED
  BY <1>1, <1>2, <1>3, <1>4, <1>5, <1>6 DEF HttpNext

LEMMA SameExchange ==
  ASSUME HttpInv, NEW x \in Exchanges, Untouched(x),
         \A i \in Instances : instance[i] = "ended" => instance'[i] = "ended"
  PROVE  ExchangeSound(x)'
BY DEF HttpInv, ExchangeSound, Untouched

LEMMA NoteAbandoned ==
  ASSUME NEW n \in Notes
  PROVE  /\ [n EXCEPT !.step = "abandoned"] \in Notes
         /\ [n EXCEPT !.step = "abandoned"].step = "abandoned" /\ [n EXCEPT !.step = "abandoned"].text = n.text
         /\ [n EXCEPT !.step = "abandoned"].session = n.session
BY DEF Notes

(* What becomes of a note that is delivered.                               *)
LEMMA NoteDelivered ==
  ASSUME HttpInv, NEW x \in Exchanges, Deliver(x)
  PROVE  /\ note'[x] \in Notes /\ note'[x].text = note[x].text
         /\ route[x] \in ReverseProxy => note'[x].session = note[x].session
         /\ note'[x].step \in {"short", "sent", "daemon down"}
         /\ note'[x].step = "sent" /\ route[x] \in ReverseProxy => note[x].text >= Enough
<1> DEFINE n == note[x]
           s == CASE route[x] \in ReverseProxy /\ n.text < Enough -> "short"
                  [] daemonUp /\ (route[x] \in ReverseProxy => n.text >= Enough) -> "sent"
                  [] OTHER -> "daemon down"
           u == IF route[x] \in ReverseProxy THEN n.session ELSE lastSession
<1>1. n \in Notes /\ x \in DOMAIN note /\ lastSession \in TwoSessions /\ n.session \in TwoSessions \union {"none"}
      /\ n.text \in Nat
  BY DEF HttpInv, HttpTypes, NoteTyped, Notes
<1>2. note' = [note EXCEPT ![x] = [n EXCEPT !.step = s, !.session = u]]
  BY Zenon DEF Deliver
<1>3. s \in {"short", "sent", "daemon down"} /\ (s = "sent" /\ route[x] \in ReverseProxy => n.text >= Enough)
  OBVIOUS
<1>4. u \in TwoSessions \union {"none"} /\ (route[x] \in ReverseProxy => u = n.session)
  BY <1>1
<1> HIDE DEF n, s, u
<1>5. note'[x] = [n EXCEPT !.step = s, !.session = u]
  BY <1>1, <1>2
<1>6. note'[x].step = s /\ note'[x].session = u /\ note'[x].text = n.text /\ note'[x] \in Notes
  BY <1>1, <1>3, <1>4, <1>5 DEF Notes
<1>7. QED
  BY <1>3, <1>4, <1>6 DEF n

LEMMA ExchangeStep ==
  ASSUME HttpInv, [HttpNext]_httpVars, NEW x \in Exchanges
  PROVE  ExchangeSound(x)'
<1>1. /\ \A i \in Instances : instance[i] = "ended" => instance'[i] = "ended"
      /\ ExchangeSound(x) /\ HttpTypes /\ NoteTyped(x)
  BY Ended DEF HttpInv
<1>2. CASE Untouched(x)
  BY <1>1, <1>2, SameExchange
<1>3. CASE \E i \in Instances : InstanceStarts(i) \/ InstanceServes(i)
  BY <1>2, <1>3 DEF InstanceStarts, InstanceServes, request, answer, Untouched
<1>4. ASSUME NEW i \in Instances, InstanceStops(i) PROVE ExchangeSound(x)'
  <2>1. /\ UNCHANGED <<route, onInstance, session, phase, passed, collected, whole>>
        /\ instance'[i] = "ended"
        /\ note'[x] = IF onInstance[x] = i /\ note[x].step = "scheduled"
                     THEN [note[x] EXCEPT !.step = "abandoned"] ELSE note[x]
    BY <1>1, <1>4 DEF InstanceStops, request, answer, HttpTypes
  <2>2. CASE onInstance[x] = i /\ note[x].step = "scheduled"
    <3>1. note'[x] = [note[x] EXCEPT !.step = "abandoned"] /\ note[x] # NoNote /\ phase[x] = "done"
      BY <1>1, <2>1, <2>2 DEF ExchangeSound, NoNote
    <3>2. note'[x].step = "abandoned" /\ note'[x].text = note[x].text /\ note'[x].session = note[x].session
      BY <1>1, <3>1, NoteAbandoned DEF NoteTyped
    <3>3. QED
      BY <1>1, <2>1, <2>2, <3>1, <3>2 DEF ExchangeSound
  <2>3. CASE ~(onInstance[x] = i /\ note[x].step = "scheduled")
    BY <1>2, <2>1, <2>3 DEF Untouched
  <2>4. QED
    BY <2>2, <2>3
<1>5. ASSUME NEW y \in Exchanges, y # x,
             Accept(y) \/ InjectMemory(y) \/ Send(y) \/ AnswersError(y) \/ AnswersBody(y)
      PROVE  ExchangeSound(x)'
  BY <1>1, <1>2, <1>5 DEF Accept, InjectMemory, Send, AnswersError, AnswersBody, Schedule, request, answer, Untouched, HttpTypes
<1>6. ASSUME NEW y \in Exchanges, y # x,
             Chunk(y) \/ StreamEnds(y) \/ StreamBreaks(y) \/ Deliver(y) \/ Capture(y)
      PROVE  ExchangeSound(x)'
  BY <1>1, <1>2, <1>6 DEF Chunk, StreamEnds, StreamBreaks, Deliver, Capture, Schedule, request, answer, Untouched, HttpTypes
<1>7. CASE Accept(x)
  <2>1. /\ phase[x] = "new" /\ phase'[x] \in {"inject", "send"}
        /\ route'[x] \in ReverseProxy => onInstance'[x] \in Instances
        /\ UNCHANGED <<passed, collected, note>>
    BY <1>1, <1>7 DEF Accept, answer, HttpTypes
  <2>2. QED
    BY <1>1, <2>1 DEF ExchangeSound, NoNote, TwoSessions
<1>8. CASE InjectMemory(x) \/ AnswersError(x) \/ Send(x)
  <2>1. /\ phase[x] \in {"inject", "error", "send"} /\ phase'[x] \in {"send", "error", "stream", "body", "done"}
        /\ UNCHANGED <<passed, collected, whole, note, route, onInstance, session>>
    BY <1>1, <1>8 DEF InjectMemory, AnswersError, Send, request, answer, HttpTypes
  <2>2. QED
    BY <1>1, <2>1 DEF ExchangeSound, NoNote
<1>9. CASE AnswersBody(x)
  <2>1. PICK n \in 0..MaxText :
          /\ collected' = [collected EXCEPT ![x] = n] /\ passed' = [passed EXCEPT ![x] = n]
          /\ note' = IF route[x] \in Observed THEN Schedule(x, n) ELSE note
    BY <1>9 DEF AnswersBody
  <2>2. /\ phase[x] = "body" /\ phase'[x] = "done" /\ whole'[x] = TRUE /\ passed'[x] = n
        /\ UNCHANGED <<route, onInstance, session>> /\ n \in Nat /\ note[x] = NoNote
    BY <1>1, <1>9, <2>1, HttpProxiesAssumption DEF AnswersBody, request, HttpTypes, ExchangeSound
  <2>3. CASE route[x] \in Observed
    <3>1. note'[x] = [step |-> IF n > 0 THEN "scheduled" ELSE "none", text |-> n, session |-> session[x]]
      BY <1>1, <2>1, <2>3 DEF Schedule, HttpTypes
    <3>2. QED
      BY <1>1, <2>2, <3>1 DEF ExchangeSound, HttpTypes
  <2>4. CASE route[x] \notin Observed
    <3>1. note'[x] = NoNote
      BY <2>1, <2>2, <2>4
    <3>2. QED
      BY <1>1, <2>2, <2>4, <3>1 DEF ExchangeSound, NoNote, Observed
  <2>5. QED
    BY <2>3, <2>4
<1>10. CASE Chunk(x)
  <2>1. /\ phase[x] = "stream" /\ passed'[x] = passed[x] + 1 /\ passed[x] \in Nat /\ collected[x] \in Nat
        /\ route[x] \in ReverseProxy => collected'[x] = collected[x] + 1
        /\ UNCHANGED <<route, onInstance, session, phase, whole, note>>
    <3>1. passed[x] \in Nat /\ collected[x] \in Nat /\ x \in DOMAIN passed /\ x \in DOMAIN collected
      BY <1>1 DEF HttpTypes
    <3>2. passed'[x] = passed[x] + 1 /\ phase[x] = "stream"
      BY <1>10, <3>1 DEF Chunk
    <3>3. route[x] \in ReverseProxy => collected'[x] = collected[x] + 1
      BY <1>10, <3>1 DEF Chunk, ReverseProxy
    <3>4. QED
      BY <1>10, <3>1, <3>2, <3>3 DEF Chunk, request
  <2>2. QED
    BY <1>1, <2>1 DEF ExchangeSound, NoNote
<1>11. CASE StreamEnds(x) \/ StreamBreaks(x)
  <2>1. /\ phase[x] = "stream" /\ phase'[x] = "done" /\ passed'[x] = passed[x] /\ passed[x] \in Nat /\ note[x] = NoNote
        /\ UNCHANGED <<route, onInstance, session>>
        /\ \/ note'[x] = NoNote /\ route[x] \notin ReverseProxy
           \/ /\ whole'[x] \/ route[x] \in ReverseProxy
              /\ note'[x] = [step |-> IF passed[x] > 0 THEN "scheduled" ELSE "none", text |-> passed[x],
                            session |-> session[x]]
    BY <1>1, <1>11 DEF StreamEnds, StreamBreaks, Schedule, request, answer, HttpTypes, ExchangeSound, Observed
  <2>2. route[x] \in ReverseProxy => route[x] # "messages"
    BY DEF ReverseProxy
  <2>3. CASE note'[x] = NoNote /\ route[x] \notin ReverseProxy
    BY <1>1, <2>1, <2>3 DEF ExchangeSound, NoNote
  <2>4. CASE /\ whole'[x] \/ route[x] \in ReverseProxy
             /\ note'[x] = [step |-> IF passed[x] > 0 THEN "scheduled" ELSE "none", text |-> passed[x],
                           session |-> session[x]]
    BY <1>1, <2>1, <2>2, <2>4 DEF ExchangeSound, HttpTypes
  <2>5. QED
    BY <2>1, <2>3, <2>4
<1>12. CASE Deliver(x)
  <2>1. /\ note[x].step = "scheduled" /\ note[x] # NoNote /\ phase[x] = "done"
        /\ UNCHANGED <<route, onInstance, session, phase, passed, collected, whole>>
    BY <1>1, <1>12 DEF Deliver, request, answer, ExchangeSound, NoNote
  <2>2. QED
    BY <1>1, <1>12, <2>1, NoteDelivered DEF ExchangeSound
<1>13. CASE Capture(x)
  <2>1. PICK i \in Instances, s \in TwoSessions, n \in 1..MaxText :
          /\ onInstance' = [onInstance EXCEPT ![x] = i]
          /\ session' = [session EXCEPT ![x] = s] /\ route' = [route EXCEPT ![x] = "anthropic"]
          /\ passed' = [passed EXCEPT ![x] = n]
          /\ note' = [note EXCEPT ![x] = [step |-> "scheduled", text |-> n, session |-> s]]
    BY <1>13 DEF Capture
  <2>2. /\ phase'[x] = "done" /\ onInstance'[x] = i /\ session'[x] = s /\ route'[x] = "anthropic" /\ passed'[x] = n
        /\ note'[x] = [step |-> "scheduled", text |-> n, session |-> s] /\ n \in Nat
    BY <1>1, <1>13, <2>1, HttpProxiesAssumption DEF Capture, HttpTypes
  <2>3. QED
    BY <2>2 DEF ExchangeSound
<1>14. CASE DaemonTurns \/ AdapterStarts \/ UNCHANGED httpVars
  BY <1>2, <1>14 DEF DaemonTurns, AdapterStarts, httpVars, request, answer, Untouched
<1>15. QED
  BY <1>3, <1>4, <1>5, <1>6, <1>7, <1>8, <1>9, <1>10, <1>11, <1>12, <1>13, <1>14 DEF HttpNext

LEMMA NotesStep ==
  ASSUME HttpInv, [HttpNext]_httpVars, NEW x \in Exchanges
  PROVE  NoteTyped(x)'
<1>1. HttpTypes /\ NoteTyped(x) /\ note[x] \in Notes
  BY DEF HttpInv, NoteTyped
<1>2. session[x] \in TwoSessions \union {"none"} /\ passed[x] \in Nat /\ collected[x] \in Nat /\ lastSession \in TwoSessions
      /\ note[x].session \in TwoSessions \union {"none"} /\ x \in DOMAIN note
  BY <1>1 DEF HttpTypes, Notes
<1>3. CASE note'[x] = note[x]
  BY <1>1, <1>3 DEF NoteTyped
<1>4. ASSUME NEW i \in Instances, InstanceStops(i) PROVE NoteTyped(x)'
  <2>1. note'[x] = note[x] \/ note'[x] = [note[x] EXCEPT !.step = "abandoned"]
    BY <1>4 DEF InstanceStops
  <2>2. QED
    BY <1>1, <1>3, <2>1, NoteAbandoned DEF NoteTyped
<1>5. ASSUME NEW n \in Nat, note' = Schedule(x, n) PROVE NoteTyped(x)'
  <2>1. note'[x] = [step |-> IF n > 0 THEN "scheduled" ELSE "none", text |-> n, session |-> session[x]]
    BY <1>2, <1>5 DEF Schedule
  <2>2. QED
    BY <1>2, <2>1 DEF NoteTyped, Notes
<1>6. CASE Deliver(x)
  BY <1>6, NoteDelivered DEF NoteTyped
<1>7. CASE Capture(x)
  <2>1. PICK i \in Instances, s \in TwoSessions, n \in 1..MaxText :
          note' = [note EXCEPT ![x] = [step |-> "scheduled", text |-> n, session |-> s]]
    BY <1>7 DEF Capture
  <2>2. note'[x] = [step |-> "scheduled", text |-> n, session |-> s] /\ n \in Nat
    BY <1>2, <2>1, HttpProxiesAssumption
  <2>3. QED
    BY <2>2 DEF NoteTyped, Notes
<1>8. ASSUME NEW y \in Exchanges, y # x,
             AnswersBody(y) \/ StreamEnds(y) \/ StreamBreaks(y) \/ Deliver(y) \/ Capture(y)
      PROVE  note'[x] = note[x]
  BY <1>2, <1>8 DEF AnswersBody, StreamEnds, StreamBreaks, Schedule, Deliver, Capture
<1>9. CASE AnswersBody(x)
  <2>1. \/ note' = note
        \/ \E n \in 0..MaxText : note' = Schedule(x, n)
    BY <1>9 DEF AnswersBody
  <2>2. 0..MaxText \subseteq Nat
    BY HttpProxiesAssumption
  <2>3. QED
    BY <1>3, <1>5, <2>1, <2>2
<1>10. CASE StreamEnds(x) \/ StreamBreaks(x)
  <2>1. note' = note \/ note' = Schedule(x, passed[x]) \/ note' = Schedule(x, collected[x])
    BY <1>10 DEF StreamEnds, StreamBreaks
  <2>2. QED
    BY <1>2, <1>3, <1>5, <2>1
<1>11. CASE UNCHANGED note
  BY <1>3, <1>11
<1>12. QED
  BY <1>3, <1>4, <1>6, <1>7, <1>8, <1>9, <1>10, <1>11 DEF HttpNext, InstanceStarts, InstanceServes, Accept, InjectMemory,
     Send, AnswersError, Chunk, DaemonTurns, AdapterStarts, httpVars

(* What the reverse proxy has let through is observed under the session    *)
(* its client was given, the passthrough proxy observes whole answers      *)
(* only, and nothing is sent again under an answer: for any exchanges and  *)
(* instances (integration/http_proxy.py,                                   *)
(* integration/proxy_passthrough.py).                                      *)
THEOREM AnswersAreObserved == HttpSpec => []AnswersObserved
<1>1. HttpInv /\ [HttpNext]_httpVars => HttpInv'
  <2> SUFFICES ASSUME HttpInv, [HttpNext]_httpVars PROVE HttpInv'
    OBVIOUS
  <2>1. \A x \in Exchanges : NoteTyped(x)' /\ ExchangeSound(x)'
    BY NotesStep, ExchangeStep
  <2>2. Exchanges' = Exchanges
    OBVIOUS
  <2>3. QED
    BY <2>1, <2>2, HttpTypesStep DEF HttpInv
<1>2. HttpInv => AnswersObserved
  <2> SUFFICES ASSUME HttpInv PROVE AnswersObserved
    OBVIOUS
  <2>1. ASSUME NEW x \in Exchanges, phase[x] \in {"inject", "send"} PROVE passed[x] = 0 /\ note[x].step = "none"
    BY <2>1 DEF HttpInv, ExchangeSound, NoNote
  <2>2. QED
    BY <2>1 DEF HttpInv, HttpTypes, ExchangeSound, AnswersObserved
<1>3. QED
  BY HttpInitial, <1>1, <1>2, PTL DEF HttpSpec

-----------------------------------------------------------------------------
(* Content versions (storage/content_manager.py).                          *)
ContentSpec == ContentInit /\ [][ContentNext]_contentVars

(* A version of a block and a queued write, whatever their numbers.        *)
AnyVersion == [block : Blocks, version : Nat, text : Texts]
AnyItem == [kind : {"content_block", "content_version"}, of : AnyVersion]

ContentTypes ==
  /\ blocks \in [Blocks -> Seq(AnyVersion)] /\ writes \in Seq(AnyItem)
  /\ authoring \in [Authors -> {NoSave} \union [block : Blocks, text : Texts, last : Nat]]
  /\ stored \union vectors \union promised \union told \subseteq AnyVersion
  /\ \A b \in Blocks : \A i \in DOMAIN blocks[b] : blocks[b][i].block = b

(* What is queued or stored, and every version that anybody knows of.      *)
Queued(k) == {i.of : i \in {j \in ToSet(writes) : j.kind = k}}
Kept == stored \union Queued("content_version")
Mentioned == Kept \union Queued("content_block") \union vectors \union promised \union told

(* A block that was saved in this life of the daemon only, and never by    *)
(* two at once: its versions are numbered without a gap in RAM, nobody     *)
(* knows of another, and none is lost.                                     *)
Numbered(b) ==
  \A i \in DOMAIN blocks[b] : blocks[b][i].version = i /\ blocks[b][i].block = b
AuthorsKnow(b) ==
  \A a \in Authors :
    authoring[a] # NoSave /\ authoring[a].block = b =>
      /\ authoring[a].last = Len(blocks[b])
      /\ \A o \in Authors \ {a} : authoring[o] # NoSave => authoring[o].block # b
Held(b) ==
  /\ \A v \in Mentioned : v.block = b => v \in ToSet(blocks[b])
  /\ ToSet(blocks[b]) \subseteq Kept
SteadyBlocks == \A b \in Blocks \ (mixed \union aged) : Numbered(b) /\ AuthorsKnow(b) /\ Held(b)

(* A block of an earlier life has a version in the tables, and the row of  *)
(* a block is written before its versions are.                             *)
AgedStored == \A b \in aged : \E v \in stored : v.block = b
ListedFirst ==
  /\ \A v \in stored : v.block \in listed
  /\ \A i \in DOMAIN writes :
       writes[i].kind = "content_version" =>
         \/ writes[i].of.block \in listed
         \/ \E j \in DOMAIN writes :
              j < i /\ writes[j].kind = "content_block" /\ writes[j].of.block = writes[i].of.block

ContentInv == ContentTypes /\ SteadyBlocks /\ AgedStored /\ ListedFirst

-----------------------------------------------------------------------------
LEMMA TwoQueued ==
  ASSUME NEW S, NEW s \in Seq(S), NEW x \in S, NEW y \in S
  PROVE  /\ s \o <<x, y>> \in Seq(S) /\ ToSet(s \o <<x, y>>) = ToSet(s) \union {x, y}
         /\ Len(s) \in Nat /\ DOMAIN s = 1..Len(s) /\ DOMAIN (s \o <<x, y>>) = 1..(Len(s) + 2)
         /\ \A i \in 1..Len(s) : (s \o <<x, y>>)[i] = s[i]
         /\ (s \o <<x, y>>)[Len(s) + 1] = x /\ (s \o <<x, y>>)[Len(s) + 2] = y
<1> DEFINE t == <<x, y>>
           c == s \o t
<1>1. t \in Seq(S) /\ Len(t) = 2 /\ t[1] = x /\ t[2] = y
  OBVIOUS
<1> HIDE DEF t
<1>2. /\ c \in Seq(S) /\ Len(c) = Len(s) + Len(t)
      /\ \A i \in 1..(Len(s) + Len(t)) : c[i] = IF i <= Len(s) THEN s[i] ELSE t[i - Len(s)]
  BY <1>1, ConcatProperties
<1>3. Len(s) \in Nat /\ DOMAIN s = 1..Len(s)
  BY LenProperties
<1> HIDE DEF c
<1>4. DOMAIN c = 1..(Len(s) + 2)
  BY <1>1, <1>2, LenProperties
<1>5. \A i \in 1..Len(s) : c[i] = s[i]
  BY <1>1, <1>2, <1>3
<1>6. c[Len(s) + 1] = x /\ c[Len(s) + 2] = y
  <2>1. /\ Len(s) + 1 \in 1..(Len(s) + Len(t)) /\ ~(Len(s) + 1 <= Len(s)) /\ Len(s) + 1 - Len(s) = 1
        /\ Len(s) + 2 \in 1..(Len(s) + Len(t)) /\ ~(Len(s) + 2 <= Len(s)) /\ Len(s) + 2 - Len(s) = 2
    BY <1>1, <1>3
  <2>2. c[Len(s) + 1] = t[Len(s) + 1 - Len(s)] /\ c[Len(s) + 2] = t[Len(s) + 2 - Len(s)]
    BY <1>2, <2>1
  <2>3. QED
    BY <1>1, <2>1, <2>2
<1>7. ToSet(c) = ToSet(s) \union {x, y}
  <2>1. Len(s) + 1 \in DOMAIN c /\ Len(s) + 2 \in DOMAIN c /\ (\A i \in 1..Len(s) : i \in DOMAIN c)
        /\ (\A i \in DOMAIN c : i \in 1..Len(s) \/ i = Len(s) + 1 \/ i = Len(s) + 2)
    BY <1>3, <1>4
  <2>2. QED
    BY <1>3, <1>5, <1>6, <2>1 DEF ToSet
<1>8. QED
  BY <1>1, <1>2, <1>3, <1>4, <1>5, <1>6, <1>7 DEF c, t

LEMMA OneMore ==
  ASSUME NEW S, NEW s \in Seq(S), NEW x \in S
  PROVE  /\ Append(s, x) \in Seq(S) /\ ToSet(Append(s, x)) = ToSet(s) \union {x}
         /\ Len(s) \in Nat /\ DOMAIN Append(s, x) = 1..(Len(s) + 1) /\ DOMAIN s = 1..Len(s)
         /\ Len(Append(s, x)) = Len(s) + 1
         /\ \A i \in 1..Len(s) : Append(s, x)[i] = s[i]
         /\ Append(s, x)[Len(s) + 1] = x
<1> DEFINE c == Append(s, x)
<1>1. /\ c \in Seq(S) /\ Len(c) = Len(s) + 1 /\ (\A i \in 1..Len(s) : c[i] = s[i]) /\ c[Len(s) + 1] = x
  BY AppendProperties
<1> HIDE DEF c
<1>2. Len(s) \in Nat /\ DOMAIN s = 1..Len(s) /\ DOMAIN c = 1..(Len(s) + 1)
  BY <1>1, LenProperties
<1>3. ToSet(c) = ToSet(s) \union {x}
  <2>1. Len(s) + 1 \in DOMAIN c /\ (\A i \in 1..Len(s) : i \in DOMAIN c)
        /\ (\A i \in DOMAIN c : i \in 1..Len(s) \/ i = Len(s) + 1)
    BY <1>2
  <2>2. QED
    BY <1>1, <1>2, <2>1 DEF ToSet
<1>4. QED
  BY <1>1, <1>2, <1>3 DEF c

LEMMA OneLess ==
  ASSUME NEW S, NEW s \in Seq(S), s # <<>>
  PROVE  /\ Tail(s) \in Seq(S) /\ Head(s) \in S /\ Head(s) = s[1] /\ Len(s) \in Nat \ {0}
         /\ ToSet(s) = {Head(s)} \union ToSet(Tail(s)) /\ DOMAIN s = 1..Len(s)
         /\ DOMAIN Tail(s) = 1..(Len(s) - 1)
         /\ \A i \in 1..(Len(s) - 1) : Tail(s)[i] = s[i + 1]
<1>1. /\ Tail(s) \in Seq(S) /\ Head(s) \in S /\ Head(s) = s[1] /\ Len(Tail(s)) = Len(s) - 1
      /\ \A i \in 1..(Len(s) - 1) : Tail(s)[i] = s[i + 1]
  BY HeadTailProperties
<1>2. Len(s) \in Nat \ {0} /\ DOMAIN s = 1..Len(s) /\ DOMAIN Tail(s) = 1..(Len(s) - 1)
  BY <1>1, LenProperties, EmptySeq
<1>3. ToSet(s) = {Head(s)} \union ToSet(Tail(s))
  <2>1. 1 \in DOMAIN s /\ (\A i \in 1..(Len(s) - 1) : i + 1 \in DOMAIN s)
    BY <1>2
  <2>2. {Head(s)} \union ToSet(Tail(s)) \subseteq ToSet(s)
    BY <1>1, <1>2, <2>1 DEF ToSet
  <2>3. ASSUME NEW i \in DOMAIN s PROVE s[i] \in {Head(s)} \union ToSet(Tail(s))
    <3>1. CASE i = 1
      BY <1>1, <3>1
    <3>2. CASE i # 1
      <4>1. i - 1 \in DOMAIN Tail(s) /\ i - 1 + 1 = i /\ i - 1 \in 1..(Len(s) - 1)
        BY <1>2, <3>2
      <4>2. Tail(s)[i - 1] = s[i]
        BY <1>1, <4>1
      <4>3. QED
        BY <4>1, <4>2 DEF ToSet
    <3>3. QED
      BY <3>1, <3>2
  <2>4. QED
    BY <2>2, <2>3 DEF ToSet
<1>4. QED
  BY <1>1, <1>2, <1>3

LEMMA Nobody == ToSet(<<>>) = {} /\ DOMAIN <<>> = {} /\ Len(<<>>) = 0
BY DEF ToSet

-----------------------------------------------------------------------------
LEMMA ContentInitial == ContentInit => ContentInv
<1> SUFFICES ASSUME ContentInit PROVE ContentInv
  OBVIOUS
<1>1. ContentTypes
  BY DEF ContentInit, ContentTypes
<1>2. Mentioned = {}
  BY Nobody DEF ContentInit, Mentioned, Kept, Queued
<1>3. ASSUME NEW b \in Blocks PROVE Numbered(b) /\ AuthorsKnow(b) /\ Held(b)
  <2>1. blocks[b] = <<>> /\ \A a \in Authors : authoring[a] = NoSave
    BY DEF ContentInit
  <2>2. QED
    BY <1>2, <2>1, Nobody DEF Numbered, AuthorsKnow, Held
<1>4. AgedStored /\ ListedFirst
  BY Nobody DEF ContentInit, AgedStored, ListedFirst
<1>5. QED
  BY <1>1, <1>3, <1>4 DEF ContentInv, SteadyBlocks

(* The last version's number is that of all versions.                      *)
LEMMA LastNumber ==
  ASSUME ContentTypes, NEW b \in Blocks
  PROVE  /\ LastOf(b) \in Nat /\ blocks[b] \in Seq(AnyVersion) /\ Len(blocks[b]) \in Nat
         /\ blocks[b] # <<>> => Last(blocks[b]) \in ToSet(blocks[b])
         /\ Numbered(b) => LastOf(b) = Len(blocks[b])
<1>1. blocks[b] \in Seq(AnyVersion) /\ Len(blocks[b]) \in Nat /\ DOMAIN blocks[b] = 1..Len(blocks[b])
  BY LenProperties DEF ContentTypes
<1>2. CASE blocks[b] = <<>>
  BY <1>1, <1>2, Nobody DEF LastOf
<1>3. CASE blocks[b] # <<>>
  <2>1. Len(blocks[b]) \in DOMAIN blocks[b]
    BY <1>1, <1>3, EmptySeq
  <2>2. Last(blocks[b]) = blocks[b][Len(blocks[b])] /\ Last(blocks[b]) \in AnyVersion
    BY <1>1, <2>1, ElementOfSeq DEF Last
  <2>3. QED
    BY <1>1, <1>3, <2>1, <2>2 DEF LastOf, ToSet, AnyVersion, Numbered
<1>4. QED
  BY <1>2, <1>3

(* The blocks and their authors are as before, and no version is new.      *)
LEMMA SteadySame ==
  ASSUME ContentInv, UNCHANGED <<blocks, authoring, mixed, aged>>,
         Mentioned' \subseteq Mentioned \union UNION {ToSet(blocks[b]) : b \in Blocks}, 
         \A b \in Blocks, v \in Mentioned' : v.block = b => v \in Mentioned \/ v \in ToSet(blocks[b]),
         \A b \in Blocks \ (mixed \union aged) : ToSet(blocks[b]) \subseteq Kept'
  PROVE  SteadyBlocks'
BY DEF ContentInv, SteadyBlocks, Numbered, AuthorsKnow, Held

LEMMA BeginsStep ==
  ASSUME ContentInv, NEW a \in Authors, NEW b \in Blocks, NEW t \in Texts, SaveBegins(a, b, t)
  PROVE  ContentInv'
<1> DEFINE r == [block |-> b, text |-> t, last |-> LastOf(b)]
<1>1. /\ authoring[a] = NoSave /\ authoring' = [authoring EXCEPT ![a] = r]
      /\ UNCHANGED <<blocks, vectors, writes, listed, stored, promised, aged, told>>
      /\ mixed' = IF \E o \in Authors \ {a} : authoring[o].block = b THEN mixed \union {b} ELSE mixed
  BY DEF SaveBegins, contentDisk
<1>2. ContentTypes /\ LastOf(b) \in Nat
  BY LastNumber DEF ContentInv
<1>3. r \in [block : Blocks, text : Texts, last : Nat] /\ r.block = b /\ r.last = LastOf(b)
  BY <1>2
<1> HIDE DEF r
<1>4. ContentTypes'
  BY <1>1, <1>2, <1>3 DEF ContentTypes
<1>5. /\ \A o \in Authors : authoring'[o] = IF o = a THEN r ELSE authoring[o]
      /\ mixed \subseteq mixed'
  BY <1>1, <1>2 DEF ContentTypes
<1>6. ASSUME NEW c \in Blocks \ (mixed' \union aged') PROVE Numbered(c)' /\ AuthorsKnow(c)' /\ Held(c)'
  <2>1. c \in Blocks \ (mixed \union aged) /\ Numbered(c) /\ AuthorsKnow(c) /\ Held(c)
    BY <1>1, <1>5, <1>6 DEF ContentInv, SteadyBlocks
  <2>2. Numbered(c)'
    BY <1>1, <2>1 DEF Numbered
  <2>3. Held(c)'
    BY <1>1, <2>1 DEF Held, Mentioned, Kept, Queued
  <2>4. CASE c = b
    <3>1. \A o \in Authors \ {a} : authoring[o].block # b
      BY <1>1, <1>6, <2>4
    <3>2. LastOf(b) = Len(blocks[b])
      BY <1>2, <2>1, <2>4, LastNumber
    <3>3. AuthorsKnow(c)'
      BY <1>1, <1>3, <1>5, <2>4, <3>1, <3>2 DEF AuthorsKnow
    <3>4. QED
      BY <2>2, <2>3, <3>3
  <2>5. CASE c # b
    <3>1. AuthorsKnow(c)'
      BY <1>1, <1>3, <1>5, <2>1, <2>5 DEF AuthorsKnow
    <3>2. QED
      BY <2>2, <2>3, <3>1
  <2>6. QED
    BY <2>4, <2>5
<1>7. AgedStored' /\ ListedFirst'
  BY <1>1 DEF ContentInv, AgedStored, ListedFirst
<1>8. QED
  BY <1>4, <1>6, <1>7 DEF ContentInv, SteadyBlocks

LEMMA FailsStep ==
  ASSUME ContentInv, NEW a \in Authors, EmbeddingFails(a)
  PROVE  ContentInv'
<1>1. /\ authoring' = [authoring EXCEPT ![a] = NoSave]
      /\ UNCHANGED <<blocks, vectors, writes, listed, stored, mixed, promised, aged, told>>
  BY DEF EmbeddingFails, contentDisk, contentPast
<1>2. ContentTypes' /\ \A o \in Authors : authoring'[o] = IF o = a THEN NoSave ELSE authoring[o]
  BY <1>1 DEF ContentInv, ContentTypes
<1>3. ASSUME NEW c \in Blocks \ (mixed' \union aged') PROVE Numbered(c)' /\ AuthorsKnow(c)' /\ Held(c)'
  <2>1. Numbered(c) /\ AuthorsKnow(c) /\ Held(c)
    BY <1>1, <1>3 DEF ContentInv, SteadyBlocks
  <2>2. Numbered(c)' /\ Held(c)'
    BY <1>1, <2>1 DEF Numbered, Held, Mentioned, Kept, Queued
  <2>3. AuthorsKnow(c)'
    BY <1>1, <1>2, <2>1 DEF AuthorsKnow
  <2>4. QED
    BY <2>2, <2>3
<1>4. AgedStored' /\ ListedFirst'
  BY <1>1 DEF ContentInv, AgedStored, ListedFirst
<1>5. QED
  BY <1>2, <1>3, <1>4 DEF ContentInv, SteadyBlocks

LEMMA EndsStep ==
  ASSUME ContentInv, NEW a \in Authors, SaveEnds(a)
  PROVE  ContentInv'
<1> DEFINE b == authoring[a].block
           n == authoring[a].last + 1
           v == Version(b, n, authoring[a].text)
           x == Item("content_block", v)
           y == Item("content_version", v)
<1>1. /\ authoring[a] # NoSave /\ authoring' = [authoring EXCEPT ![a] = NoSave]
      /\ blocks' = [blocks EXCEPT ![b] = Append(@, v)] /\ writes' = writes \o <<x, y>>
      /\ vectors' = vectors \union {v} /\ promised' = promised \union {v}
      /\ UNCHANGED <<listed, stored, mixed, aged, told>>
  BY DEF SaveEnds, Finished, contentDisk
<1>2. ContentTypes /\ writes \in Seq(AnyItem)
  BY DEF ContentInv, ContentTypes
<1>3. authoring[a] \in [block : Blocks, text : Texts, last : Nat]
  BY <1>1, <1>2 DEF ContentTypes
<1>4. b \in Blocks /\ n \in Nat /\ v \in AnyVersion /\ v.block = b /\ v.version = n
  BY <1>3 DEF Version, AnyVersion
<1> HIDE DEF v
<1>5. x \in AnyItem /\ y \in AnyItem /\ x.kind = "content_block" /\ y.kind = "content_version" /\ x.of = v /\ y.of = v
  BY <1>4 DEF Item, AnyItem
<1> HIDE DEF x, y
<1> DEFINE k == Len(writes)
<1>6. /\ writes' \in Seq(AnyItem) /\ ToSet(writes') = ToSet(writes) \union {x, y}
      /\ k \in Nat /\ DOMAIN writes = 1..k /\ DOMAIN writes' = 1..(k + 2)
      /\ \A i \in 1..k : writes'[i] = writes[i]
      /\ writes'[k + 1] = x /\ writes'[k + 2] = y
  BY <1>1, <1>2, <1>5, TwoQueued
<1> HIDE DEF k
<1>7. /\ blocks[b] \in Seq(AnyVersion) /\ Append(blocks[b], v) \in Seq(AnyVersion)
      /\ ToSet(Append(blocks[b], v)) = ToSet(blocks[b]) \union {v}
      /\ Len(blocks[b]) \in Nat /\ DOMAIN Append(blocks[b], v) = 1..(Len(blocks[b]) + 1)
      /\ DOMAIN blocks[b] = 1..Len(blocks[b])
      /\ Len(Append(blocks[b], v)) = Len(blocks[b]) + 1
      /\ \A i \in 1..Len(blocks[b]) : Append(blocks[b], v)[i] = blocks[b][i]
      /\ Append(blocks[b], v)[Len(blocks[b]) + 1] = v
  <2>1. blocks[b] \in Seq(AnyVersion)
    BY <1>2, <1>4 DEF ContentTypes
  <2>2. QED
    BY <1>4, <2>1, OneMore
<1>8. /\ \A o \in Authors : authoring'[o] = IF o = a THEN NoSave ELSE authoring[o]
      /\ \A c \in Blocks : blocks'[c] = IF c = b THEN Append(blocks[b], v) ELSE blocks[c]
  BY <1>1, <1>2, <1>4 DEF ContentTypes
<1>9. ContentTypes'
  <2>1. blocks' \in [Blocks -> Seq(AnyVersion)]
    BY <1>1, <1>2, <1>4, <1>7 DEF ContentTypes
  <2>2. authoring' \in [Authors -> {NoSave} \union [block : Blocks, text : Texts, last : Nat]]
    BY <1>1, <1>2 DEF ContentTypes
  <2>3. ASSUME NEW c \in Blocks, NEW i \in DOMAIN blocks'[c] PROVE blocks'[c][i].block = c
    <3>1. CASE c = b
      <4> DEFINE q == Append(blocks[b], v)
      <4>1. blocks'[c] = q
        BY <1>8, <3>1
      <4>2. i \in 1..(Len(blocks[b]) + 1) /\ Len(blocks[b]) \in Nat
        BY <1>7, <2>3, <4>1
      <4>3. \A j \in 1..Len(blocks[b]) : q[j] = blocks[b][j] /\ blocks[b][j].block = b
        BY <1>2, <1>4, <1>7 DEF ContentTypes
      <4>4. q[Len(blocks[b]) + 1] = v
        BY <1>7
      <4> HIDE DEF q
      <4>5. CASE i \in 1..Len(blocks[b])
        BY <3>1, <4>1, <4>3, <4>5
      <4>6. CASE i = Len(blocks[b]) + 1
        BY <1>4, <3>1, <4>1, <4>4, <4>6
      <4>7. QED
        BY <4>2, <4>5, <4>6
    <3>2. CASE c # b
      BY <1>2, <1>8, <3>2 DEF ContentTypes
    <3>3. QED
      BY <3>1, <3>2
  <2>4. QED
    BY <1>1, <1>2, <1>4, <1>6, <2>1, <2>2, <2>3 DEF ContentTypes
<1>10. Kept' = Kept \union {v} /\ Mentioned' = Mentioned \union {v}
  <2>1. Queued("content_version")' = Queued("content_version") \union {v}
    BY <1>5, <1>6 DEF Queued
  <2>2. Queued("content_block")' = Queued("content_block") \union {v}
    BY <1>5, <1>6 DEF Queued
  <2>3. QED
    BY <1>1, <2>1, <2>2 DEF Kept, Mentioned
<1>11. ASSUME NEW c \in Blocks \ (mixed' \union aged') PROVE Numbered(c)' /\ AuthorsKnow(c)' /\ Held(c)'
  <2>1. Numbered(c) /\ AuthorsKnow(c) /\ Held(c)
    BY <1>1, <1>11 DEF ContentInv, SteadyBlocks
  <2>2. CASE c = b
    <3>1. /\ n = Len(blocks[b]) + 1
          /\ \A o \in Authors \ {a} : authoring[o] # NoSave => authoring[o].block # b
      BY <1>1, <2>1, <2>2 DEF AuthorsKnow
    <3>2. AuthorsKnow(c)'
      BY <1>8, <2>2, <3>1 DEF AuthorsKnow
    <3>3. Numbered(c)'
      <4> DEFINE q == Append(blocks[b], v)
      <4>1. blocks'[c] = q /\ DOMAIN q = 1..(Len(blocks[b]) + 1)
        BY <1>7, <1>8, <2>2
      <4>2. ASSUME NEW i \in 1..(Len(blocks[b]) + 1) PROVE q[i].version = i /\ q[i].block = b
        <5>1. CASE i \in 1..Len(blocks[b])
          BY <1>7, <2>1, <2>2, <5>1 DEF Numbered
        <5>2. CASE i = Len(blocks[b]) + 1
          BY <1>4, <1>7, <3>1, <5>2
        <5>3. i \in 1..Len(blocks[b]) \/ i = Len(blocks[b]) + 1
          <6>1. Len(blocks[b]) \in Nat
            BY <1>7
          <6> HIDE DEF q
          <6>2. QED
            BY <6>1
        <5> HIDE DEF q
        <5>4. QED
          BY <5>1, <5>2, <5>3, Zenon
      <4> HIDE DEF q
      <4>3. QED
        BY <2>2, <4>1, <4>2 DEF Numbered
    <3>4. Held(c)'
      BY <1>7, <1>8, <1>10, <2>1, <2>2 DEF Held
    <3>5. QED
      BY <3>2, <3>3, <3>4
  <2>3. CASE c # b
    <3>1. blocks'[c] = blocks[c]
      BY <1>8, <2>3
    <3>2. AuthorsKnow(c)'
      BY <1>8, <2>1, <3>1 DEF AuthorsKnow
    <3>3. Numbered(c)' /\ Held(c)'
      BY <1>4, <1>10, <2>1, <2>3, <3>1 DEF Numbered, Held
    <3>4. QED
      BY <3>2, <3>3
  <2>4. QED
    BY <2>2, <2>3
<1>12. ListedFirst'
  <2>1. ASSUME NEW i \in DOMAIN writes', writes'[i].kind = "content_version"
        PROVE  \/ writes'[i].of.block \in listed'
               \/ \E j \in DOMAIN writes' :
                    j < i /\ writes'[j].kind = "content_block" /\ writes'[j].of.block = writes'[i].of.block
    <3>1. CASE i \in 1..k
      <4>1. writes'[i] = writes[i] /\ i \in DOMAIN writes
        BY <1>6, <3>1
      <4>2. \/ writes[i].of.block \in listed
            \/ \E j \in DOMAIN writes :
                 j < i /\ writes[j].kind = "content_block" /\ writes[j].of.block = writes[i].of.block
        BY <2>1, <4>1 DEF ContentInv, ListedFirst
      <4>3. QED
        BY <1>1, <1>6, <4>1, <4>2
    <3>2. CASE i = k + 1
      BY <1>5, <1>6, <2>1, <3>2
    <3>3. CASE i = k + 2
      <4>1. k + 1 \in DOMAIN writes' /\ k + 1 < i
        BY <1>6, <3>3
      <4>2. QED
        BY <1>5, <1>6, <3>3, <4>1
    <3>4. QED
      BY <1>6, <3>1, <3>2, <3>3
  <2>2. QED
    BY <1>1, <2>1 DEF ContentInv, ListedFirst
<1>13. AgedStored'
  BY <1>1 DEF ContentInv, AgedStored
<1>14. QED
  BY <1>9, <1>11, <1>12, <1>13 DEF ContentInv, SteadyBlocks

LEMMA FlushStep ==
  ASSUME ContentInv, FlushContent
  PROVE  ContentInv'
<1> DEFINE h == Head(writes)
           k == Len(writes)
<1>1. /\ writes # <<>> /\ writes' = Tail(writes)
      /\ UNCHANGED <<blocks, authoring, vectors, promised, mixed, aged, told>>
  BY DEF FlushContent, contentRam, contentPast
<1>2. \/ /\ h.kind = "content_block" /\ listed' = listed \union {h.of.block} /\ UNCHANGED stored
      \/ /\ h.kind = "content_version" /\ UNCHANGED listed
         /\ stored' = IF NumberTaken(h.of.block, h.of.version) THEN stored ELSE stored \union {h.of}
  BY DEF FlushContent
<1>3. ContentTypes /\ writes \in Seq(AnyItem)
  BY DEF ContentInv, ContentTypes
<1>4. /\ writes' \in Seq(AnyItem) /\ h \in AnyItem /\ h = writes[1] /\ k \in Nat \ {0}
      /\ ToSet(writes) = {h} \union ToSet(writes') /\ DOMAIN writes = 1..k /\ DOMAIN writes' = 1..(k - 1)
      /\ \A i \in 1..(k - 1) : writes'[i] = writes[i + 1]
  BY <1>1, <1>3, OneLess
<1> HIDE DEF h, k
<1>5. ContentTypes'
  <2>1. stored' \subseteq stored \union {h.of} /\ h.of \in AnyVersion
    BY <1>2, <1>4 DEF AnyItem
  <2>2. QED
    BY <1>1, <1>3, <1>4, <2>1 DEF ContentTypes
<1>6. Mentioned' \subseteq Mentioned
  <2>1. /\ Queued("content_version")' \subseteq Queued("content_version")
        /\ Queued("content_block")' \subseteq Queued("content_block")
    BY <1>4 DEF Queued
  <2>2. stored' \subseteq Kept
    BY <1>2, <1>4 DEF Kept, Queued
  <2>3. QED
    BY <1>1, <2>1, <2>2 DEF Mentioned, Kept
<1>7. ASSUME NEW b \in Blocks \ (mixed \union aged), NEW v \in ToSet(blocks[b]) PROVE v \in Kept'
  <2>1. Numbered(b) /\ Held(b) /\ v \in Kept
    BY <1>7 DEF ContentInv, SteadyBlocks, Held
  <2>2. CASE v \in stored
    BY <1>2, <2>2 DEF Kept
  <2>3. CASE v \notin stored
    <3>1. PICK i \in ToSet(writes) : i.kind = "content_version" /\ i.of = v
      BY <2>1, <2>3 DEF Kept, Queued
    <3>2. CASE i \in ToSet(writes')
      BY <3>1, <3>2 DEF Kept, Queued
    <3>3. CASE i = h
      <4>1. ASSUME NumberTaken(v.block, v.version) PROVE v \in stored
        <5>1. PICK w \in stored : w.block = v.block /\ w.version = v.version
          BY <4>1 DEF NumberTaken
        <5>2. PICK m \in DOMAIN blocks[b] : v = blocks[b][m]
          BY <1>7 DEF ToSet
        <5>3. v.block = b /\ v.version = m
          BY <2>1, <5>2 DEF Numbered
        <5>4. w \in ToSet(blocks[b])
          BY <2>1, <5>1, <5>3 DEF Held, Mentioned, Kept
        <5>5. PICK l \in DOMAIN blocks[b] : w = blocks[b][l]
          BY <5>4 DEF ToSet
        <5>6. w.version = l
          BY <2>1, <5>5 DEF Numbered
        <5>7. QED
          BY <5>1, <5>2, <5>3, <5>5, <5>6
      <4>2. h.of = v /\ h.kind = "content_version"
        BY <3>1, <3>3
      <4>3. v \in stored'
        BY <1>2, <4>1, <4>2
      <4>4. QED
        BY <4>3 DEF Kept
    <3>4. QED
      BY <1>4, <3>1, <3>2, <3>3
  <2>4. QED
    BY <2>2, <2>3
<1>8. SteadyBlocks'
  BY <1>1, <1>6, <1>7, SteadySame
<1>9. AgedStored'
  BY <1>1, <1>2 DEF ContentInv, AgedStored
<1>10. ListedFirst'
  <2>1. ASSUME NEW v \in stored' PROVE v.block \in listed'
    <3>1. CASE v \in stored
      BY <1>2, <3>1 DEF ContentInv, ListedFirst
    <3>2. CASE v \notin stored
      <4>1. h.kind = "content_version" /\ v = h.of /\ listed' = listed
        BY <1>2, <2>1, <3>2
      <4>2. 1 \in DOMAIN writes /\ ~(\E j \in DOMAIN writes : j < 1)
        BY <1>4
      <4>3. QED
        BY <1>4, <4>1, <4>2 DEF ContentInv, ListedFirst
    <3>3. QED
      BY <3>1, <3>2
  <2>2. ASSUME NEW i \in DOMAIN writes', writes'[i].kind = "content_version"
        PROVE  \/ writes'[i].of.block \in listed'
               \/ \E j \in DOMAIN writes' :
                    j < i /\ writes'[j].kind = "content_block" /\ writes'[j].of.block = writes'[i].of.block
    <3>1. i \in Nat /\ i + 1 \in DOMAIN writes /\ writes'[i] = writes[i + 1]
      BY <1>4
    <3>2. CASE writes[i + 1].of.block \in listed
      BY <1>2, <3>1, <3>2
    <3>3. CASE writes[i + 1].of.block \notin listed
      <4>1. PICK j \in DOMAIN writes :
              j < i + 1 /\ writes[j].kind = "content_block" /\ writes[j].of.block = writes[i + 1].of.block
        BY <2>2, <3>1, <3>3 DEF ContentInv, ListedFirst
      <4>2. CASE j = 1
        BY <1>2, <1>4, <3>1, <4>1, <4>2
      <4>3. CASE j # 1
        <5>1. j - 1 \in DOMAIN writes' /\ j - 1 < i /\ j - 1 + 1 = j /\ j - 1 \in 1..(k - 1)
          BY <1>4, <3>1, <4>1, <4>3
        <5>2. writes'[j - 1] = writes[j]
          BY <1>4, <5>1
        <5>3. QED
          BY <3>1, <4>1, <5>1, <5>2
      <4>4. QED
        BY <4>2, <4>3
    <3>4. QED
      BY <3>2, <3>3
  <2>3. QED
    BY <2>1, <2>2 DEF ListedFirst
<1>11. QED
  BY <1>5, <1>8, <1>9, <1>10 DEF ContentInv

LEMMA StartedStep ==
  ASSUME ContentInv, NEW left \in SUBSET stored, Started(left),
         promised' \subseteq promised, told' \subseteq told,
         \A b \in Blocks : (~\E v \in left : v.block = b) /\ b \notin mixed =>
           \A v \in promised' \union told' : v.block # b,
         \A v \in left : v.block \in listed'
  PROVE  ContentInv'
<1>1. /\ blocks' = [b \in Blocks |-> <<>>] /\ authoring' = [a \in Authors |-> NoSave]
      /\ writes' = <<>> /\ stored' = left /\ vectors' = left /\ mixed' = mixed
      /\ aged' = {v.block : v \in left}
  BY DEF Started
<1>2. ContentTypes'
  BY <1>1 DEF ContentInv, ContentTypes
<1>3. Mentioned' = left \union promised' \union told'
  BY <1>1, Nobody DEF Mentioned, Kept, Queued
<1>4. ASSUME NEW b \in Blocks \ (mixed' \union aged') PROVE Numbered(b)' /\ AuthorsKnow(b)' /\ Held(b)'
  <2>1. \A v \in Mentioned' : v.block # b
    BY <1>1, <1>3, <1>4
  <2>2. blocks'[b] = <<>> /\ (\A a \in Authors : authoring'[a] = NoSave)
    BY <1>1, <1>4
  <2>3. QED
    BY <2>1, <2>2, Nobody DEF Numbered, AuthorsKnow, Held
<1>5. AgedStored' /\ ListedFirst'
  BY <1>1, Nobody DEF AgedStored, ListedFirst
<1>6. QED
  BY <1>2, <1>4, <1>5 DEF ContentInv, SteadyBlocks

LEMMA RestartsStep ==
  ASSUME ContentInv, ContentRestarts \/ ContentCrashes \/ EmbeddingsWiped
  PROVE  ContentInv'
<1>1. \A v \in stored : v.block \in listed
  BY DEF ContentInv, ListedFirst
<1>2. ASSUME NEW b \in Blocks, ~\E v \in stored : v.block = b, b \notin mixed,
             NEW v \in promised \union told, v.block = b
      PROVE  v \in Queued("content_version")
  <2>1. b \notin aged
    BY <1>2 DEF ContentInv, AgedStored
  <2>2. Held(b)
    BY <1>2, <2>1 DEF ContentInv, SteadyBlocks
  <2>3. QED
    BY <1>2, <2>2 DEF Held, Mentioned, Kept
<1>3. CASE ContentRestarts
  <2>1. Queued("content_version") = {}
    BY <1>3, Nobody DEF ContentRestarts, Queued
  <2>2. Started(stored) /\ UNCHANGED <<listed, promised, told>>
    BY <1>3 DEF ContentRestarts
  <2>3. QED
    BY <1>1, <1>2, <2>1, <2>2, StartedStep
<1>4. CASE ContentCrashes
  <2>1. /\ Started(stored) /\ listed' = listed
        /\ promised' = promised \ Queued("content_version") /\ told' = told \ Queued("content_version")
    BY <1>4 DEF ContentCrashes, Queued
  <2>2. QED
    BY <1>1, <1>2, <2>1, StartedStep
<1>5. CASE EmbeddingsWiped
  <2>1. Started({}) /\ promised' = {} /\ told' = {}
    BY <1>5 DEF EmbeddingsWiped
  <2>2. QED
    BY <2>1, StartedStep
<1>6. QED
  BY <1>3, <1>4, <1>5

LEMMA ReadStep ==
  ASSUME ContentInv, NEW b \in Blocks, ContentRead(b)
  PROVE  ContentInv'
<1>1. /\ UNCHANGED <<blocks, authoring, vectors, writes, listed, stored, promised, mixed, aged>>
      /\ \E v \in Answers(b, TRUE) \union Answers(b, FALSE) \union Found(b) \union AllVersions(b) :
           told' = told \union {v}
  BY DEF ContentRead, contentRam, contentDisk
<1>2. PICK v \in Answers(b, TRUE) \union Answers(b, FALSE) \union Found(b) \union AllVersions(b) :
        told' = told \union {v}
  BY <1>1
<1>3. v \in stored \/ v \in ToSet(blocks[b])
  <2>1. blocks[b] # <<>> => Last(blocks[b]) \in ToSet(blocks[b])
    BY LastNumber DEF ContentInv
  <2>2. blocks[b] \in Seq(AnyVersion) /\ DOMAIN blocks[b] = 1..Len(blocks[b])
    BY LenProperties DEF ContentInv, ContentTypes
  <2>3. ToSet(blocks[b]) # {} => blocks[b] # <<>>
    BY Nobody
  <2>4. Answers(b, TRUE) \subseteq ToSet(blocks[b])
    BY <2>1, <2>3 DEF Answers
  <2>5. Answers(b, FALSE) \subseteq ToSet(blocks[b]) \union stored
    BY <2>2 DEF Answers, InTables, ToSet
  <2>6. QED
    BY <1>2, <2>4, <2>5 DEF Found, AllVersions, InTables
<1>4. ToSet(blocks[b]) \subseteq AnyVersion
  <2>1. blocks[b] \in Seq(AnyVersion)
    BY DEF ContentInv, ContentTypes
  <2>2. QED
    BY <2>1, ElementOfSeq, LenProperties DEF ToSet
<1>5. ContentTypes'
  BY <1>1, <1>2, <1>3, <1>4 DEF ContentInv, ContentTypes
<1>6. Mentioned' = Mentioned \union {v} /\ Kept' = Kept
  BY <1>1, <1>2 DEF Mentioned, Kept, Queued
<1>7. ASSUME NEW c \in Blocks \ (mixed' \union aged') PROVE Numbered(c)' /\ AuthorsKnow(c)' /\ Held(c)'
  <2>1. Numbered(c) /\ AuthorsKnow(c) /\ Held(c)
    BY <1>1, <1>7 DEF ContentInv, SteadyBlocks
  <2>2. Numbered(c)' /\ AuthorsKnow(c)'
    BY <1>1, <2>1 DEF Numbered, AuthorsKnow
  <2>3. v.block = c => v \in ToSet(blocks[c])
    <3>1. CASE v \in stored
      BY <2>1, <3>1 DEF Held, Mentioned, Kept
    <3>2. CASE v \in ToSet(blocks[b])
      <4>1. v.block = b
        BY <3>2 DEF ContentInv, ContentTypes, ToSet
      <4>2. QED
        BY <3>2, <4>1
    <3>3. QED
      BY <1>3, <3>1, <3>2
  <2>4. QED
    BY <1>1, <1>6, <2>1, <2>2, <2>3 DEF Held
<1>8. AgedStored' /\ ListedFirst'
  BY <1>1 DEF ContentInv, AgedStored, ListedFirst
<1>9. QED
  BY <1>5, <1>7, <1>8 DEF ContentInv, SteadyBlocks

-----------------------------------------------------------------------------
(* What a save returned stays, under a number that is its own, in any      *)
(* number of blocks and lives, as long as no two saves of the block        *)
(* overlap and it was not saved before the last start                      *)
(* (storage/content_manager.py).                                           *)
THEOREM ContentIsSound == ContentSpec => []ContentSound
<1>1. ContentInv /\ [ContentNext]_contentVars => ContentInv'
  <2> SUFFICES ASSUME ContentInv, [ContentNext]_contentVars PROVE ContentInv'
    OBVIOUS
  <2>1. CASE UNCHANGED contentVars
    <3>1. UNCHANGED <<blocks, authoring, vectors, writes, listed, stored, promised, mixed, aged, told>>
      BY <2>1 DEF contentVars
    <3>2. Mentioned' = Mentioned /\ Kept' = Kept
      BY <3>1 DEF Mentioned, Kept, Queued
    <3>3. QED
      BY <3>1, <3>2 DEF ContentInv, ContentTypes, SteadyBlocks, Numbered, AuthorsKnow, Held, AgedStored, ListedFirst
  <2>2. QED
    BY <2>1, BeginsStep, FailsStep, EndsStep, FlushStep, RestartsStep, ReadStep DEF ContentNext
<1>2. ContentInv => ContentSound
  <2> SUFFICES ASSUME ContentInv PROVE ContentSound
    OBVIOUS
  <2>1. ASSUME NEW b \in Blocks \ (mixed \union aged), NEW v \in promised \union told \union vectors, v.block = b
        PROVE  v \in ToSet(blocks[b]) /\ v \in Kept
    BY <2>1 DEF ContentInv, SteadyBlocks, Held, Mentioned
  <2>2. ASSUME NEW b \in Blocks \ (mixed \union aged), NEW v \in ToSet(blocks[b]), NEW w \in ToSet(blocks[b]),
               v.version = w.version
        PROVE  v = w
    BY <2>2 DEF ContentInv, SteadyBlocks, Numbered, ToSet
  <2>3. ASSUME NEW v \in Queued("content_version") PROVE \E i \in ToSet(writes) : i = Item("content_version", v)
    <3>1. PICK i \in ToSet(writes) : i.kind = "content_version" /\ i.of = v
      BY <2>3 DEF Queued
    <3>2. i \in AnyItem
      <4>1. writes \in Seq(AnyItem)
        BY DEF ContentInv, ContentTypes
      <4>2. QED
        BY <4>1, ElementOfSeq, LenProperties DEF ToSet
    <3>3. QED
      BY <3>1, <3>2 DEF AnyItem, Item
  <2>4. \A v \in promised \union told \union vectors : v.block \in Blocks
    BY DEF ContentInv, ContentTypes, AnyVersion
  <2>5. QED
    BY <2>1, <2>2, <2>3, <2>4 DEF ContentSound, ContentInv, ListedFirst, Kept
<1>3. QED
  BY ContentInitial, <1>1, <1>2, PTL DEF ContentSpec

-----------------------------------------------------------------------------
(* Backups and embedder checks (core/backup.py, storage/sqlite.py).        *)
BackupSpec == BackupInit /\ [][BackupNext]_backupVars

(* Rows in the table, the queue and the worker's hands; those in the table *)
(* that are older than the daemon.                                         *)
AllRows == kept \union waiting \union taken
OldRows == {r \in kept : r.created < since}

BackupTypes ==
  /\ tick \in Nat /\ since \in Nat /\ due \in Nat /\ since <= tick
  /\ active \in Embedders \union {Never} /\ registry \in Embedders \union {Never}
  /\ \A r \in AllRows : r.created \in Nat /\ r.embedder \in Embedders

(* The worker's and the backup's steps need a daemon, and what has not     *)
(* reached the rows was observed in its life.                              *)
DaemonSound ==
  /\ active = Never <=> doing = "off"
  /\ active = Never => waiting = {} /\ taken = {}
  /\ active # Never => \A r \in waiting \union taken : since <= r.created

(* A backup under way holds what was there when the daemon started, and    *)
(* until there has been one it is at most an interval old.                 *)
CopySound ==
  /\ doing = "copying" => covered \subseteq kept
  /\ doing = "recording" => covered \subseteq copied /\ OldRows \subseteq copied
  /\ active # Never /\ ~missed =>
       OldRows \subseteq recorded \/ (tick <= since + Interval /\ due <= since + Interval)

(* Rows are of the registered model, before the first start of Stamp; and  *)
(* a running embedder is the registered one.                               *)
ModelOfRows == IF registry = Never THEN Stamp ELSE registry
EmbedderSound ==
  /\ ~undecided => /\ \A r \in AllRows : r.embedder = ModelOfRows
                   /\ active # Never => registry = active
  /\ active # Never => \A r \in AllRows : Dim[r.embedder] = Dim[active]

BackupInv == BackupTypes /\ DaemonSound /\ CopySound /\ EmbedderSound

LEMMA BackupInitial == BackupInit => BackupInv
<1> SUFFICES ASSUME BackupInit PROVE BackupInv
  OBVIOUS
<1>1. \A r \in AllRows : r.created = 0 /\ r.embedder = Stamp
  <2>1. PICK old \in SUBSET [created : {0}, embedder : {Stamp}, text : {FALSE}] : kept = old
    BY DEF BackupInit
  <2>2. AllRows = old
    BY <2>1 DEF BackupInit, AllRows
  <2>3. QED
    BY <2>2
<1>2. BackupTypes /\ DaemonSound /\ EmbedderSound
  BY <1>1, BackupAssumption DEF BackupInit, BackupTypes, DaemonSound, EmbedderSound, ModelOfRows
<1>3. CopySound
  BY DEF BackupInit, CopySound
<1>4. QED
  BY <1>2, <1>3 DEF BackupInv

(* What a start leaves of the rows is of one model, or undecided.          *)
LEMMA BackupStartsStep ==
  ASSUME BackupInv, NEW e \in Embedders, BackupStarts(e)
  PROVE  BackupInv'
<1> DEFINE same == AfterDim(kept, e)
           registered == Registered(same)
           asks == registered \notin {Never, e} /\ \E r \in same : r.text
           left == IF Wipes(same, registered, e) THEN {} ELSE same
<1>1. /\ active = Never /\ kept' = left /\ registry' = IF asks THEN registry ELSE e
      /\ undecided' = (undecided \/ asks)
      /\ doing' = "asleep" /\ due' = IF Overdue(left) THEN tick ELSE tick + Interval
      /\ active' = e /\ since' = tick
      /\ UNCHANGED <<tick, waiting, taken, copied, covered, recorded>>
  BY DEF BackupStarts
<1>2. waiting = {} /\ taken = {} /\ e # Never /\ Interval \in Nat
  BY <1>1, BackupAssumption DEF BackupInv, DaemonSound
<1>3. same \subseteq kept /\ \A r \in same : Dim[r.embedder] = Dim[e]
  BY DEF AfterDim
<1>4. registered \in Embedders \union {Never} /\ (registered = Never => same = {})
  BY BackupAssumption DEF Registered, BackupInv, BackupTypes
<1>5. ~undecided => \A r \in same : r.embedder = registered
  BY <1>3, BackupAssumption DEF Registered, BackupInv, EmbedderSound, ModelOfRows, AllRows
<1>6. ~asks /\ registered \notin {Never, e} => left = {}
  BY DEF Wipes
<1>7. left \subseteq same
  OBVIOUS
<1> HIDE DEF same, registered, left
<1>8. AllRows' = left /\ left \subseteq AllRows
  BY <1>1, <1>2, <1>3, <1>7 DEF AllRows
<1>9. BackupTypes'
  BY <1>1, <1>2, <1>8 DEF BackupInv, BackupTypes
<1>10. DaemonSound' /\ CopySound'
  BY <1>1, <1>2, <1>9 DEF DaemonSound, CopySound, BackupTypes
<1>11. EmbedderSound'
  <2>1. ~undecided' => ~undecided /\ ~asks /\ registry' = e
    BY <1>1
  <2>2. ~undecided' => \A r \in left : r.embedder = e
    BY <1>4, <1>5, <1>6, <1>7, <2>1
  <2>3. QED
    BY <1>1, <1>2, <1>3, <1>7, <1>8, <2>1, <2>2 DEF EmbedderSound, ModelOfRows
<1>12. QED
  BY <1>9, <1>10, <1>11 DEF BackupInv

LEMMA BackupStep ==
  ASSUME BackupInv, [BackupNext]_backupVars
  PROVE  BackupInv'
<1> USE BackupAssumption
<1>1. CASE \E e \in Embedders : BackupStarts(e)
  BY <1>1, BackupStartsStep
<1>2. CASE \E e \in Embedders : StartEndsEarly(e)
  <2>1. /\ active = Never /\ kept' \subseteq kept
        /\ UNCHANGED <<tick, active, registry, waiting, taken, doing, due, copied, covered, since, recorded, missed,
                       undecided>>
    BY <1>2 DEF StartEndsEarly, AfterDim, embedding, backup
  <2>2. QED
    BY <2>1 DEF BackupInv, BackupTypes, DaemonSound, CopySound, EmbedderSound, AllRows, OldRows, ModelOfRows
<1>3. CASE SessionObserved
  <2> DEFINE r == [created |-> tick, embedder |-> active, text |-> TRUE]
  <2>1. /\ active # Never /\ waiting' = waiting \union {r}
        /\ UNCHANGED <<tick, active, registry, kept, taken, doing, due, copied, covered, since, recorded, missed,
                       undecided>>
    BY <1>3 DEF SessionObserved, embedding, backup, counts, fate
  <2>2. r.created = tick /\ r.embedder = active
    OBVIOUS
  <2> HIDE DEF r
  <2>3. AllRows' = AllRows \union {r} /\ OldRows' = OldRows
    BY <2>1 DEF AllRows, OldRows
  <2>4. BackupTypes' /\ DaemonSound'
    BY <2>1, <2>2, <2>3 DEF BackupInv, BackupTypes, DaemonSound
  <2>5. CopySound' /\ EmbedderSound'
    BY <2>1, <2>2, <2>3 DEF BackupInv, CopySound, EmbedderSound, ModelOfRows
  <2>6. QED
    BY <2>4, <2>5 DEF BackupInv
<1>4. CASE WorkerTakes \/ WorkerFlushes \/ BackupFlushes
  <2>1. active # Never
    BY <1>4 DEF WorkerTakes, WorkerFlushes, BackupFlushes, BackupInv, DaemonSound
  <2>2. /\ AllRows' = AllRows /\ kept \subseteq kept' /\ kept' \subseteq kept \union waiting \union taken
        /\ waiting' \union taken' \subseteq waiting \union taken
        /\ UNCHANGED <<tick, active, registry, due, copied, since, recorded, missed, undecided>>
    BY <1>4 DEF WorkerTakes, WorkerFlushes, BackupFlushes, AllRows, embedding, backup, counts, fate
  <2>3. \/ covered' = covered /\ doing' = doing
        \/ covered' = kept' /\ doing' = "copying"
    BY <1>4 DEF WorkerTakes, WorkerFlushes, BackupFlushes, backup
  <2>4. OldRows' = OldRows
    BY <2>1, <2>2 DEF OldRows, BackupInv, BackupTypes, DaemonSound, AllRows
  <2>5. BackupTypes' /\ DaemonSound' /\ EmbedderSound'
    BY <2>1, <2>2, <2>3 DEF BackupInv, BackupTypes, DaemonSound, EmbedderSound, ModelOfRows
  <2>6. CopySound'
    BY <2>2, <2>3, <2>4 DEF BackupInv, CopySound
  <2>7. QED
    BY <2>5, <2>6 DEF BackupInv
<1>5. CASE ThreadCopies
  BY <1>5 DEF ThreadCopies, BackupInv, BackupTypes, DaemonSound, CopySound, EmbedderSound, AllRows, OldRows, ModelOfRows,
     counts, embedding, memory, fate
<1>6. CASE BackupRecords
  BY <1>6 DEF BackupRecords, BackupInv, BackupTypes, DaemonSound, CopySound, EmbedderSound, AllRows, OldRows, ModelOfRows,
     counts, embedding, memory
<1>7. CASE BackupFails
  BY <1>7 DEF BackupFails, BackupInv, BackupTypes, DaemonSound, CopySound, EmbedderSound, AllRows, OldRows, ModelOfRows,
     embedding, memory
<1>8. CASE BackupStops
  <2>1. /\ active' = Never /\ doing' = "off" /\ AllRows' \subseteq AllRows /\ waiting' = {} /\ taken' = {} /\ due' = 0
        /\ UNCHANGED <<tick, registry, since, undecided>>
    BY <1>8 DEF BackupStops, AllRows, counts, fate
  <2>2. QED
    BY <2>1 DEF BackupInv, BackupTypes, DaemonSound, CopySound, EmbedderSound, ModelOfRows
<1>9. CASE BackupTick
  <2>1. /\ tick' = tick + 1 /\ doing \in {"off", "asleep"} /\ (doing = "asleep" => tick < due)
        /\ UNCHANGED <<active, registry, kept, waiting, taken, doing, due, copied, covered, since, recorded, missed,
                       undecided>>
    BY <1>9 DEF BackupTick, embedding, memory, backup, fate
  <2>2. active # Never => doing # "off"
    BY DEF BackupInv, DaemonSound
  <2>3. QED
    BY <2>1, <2>2 DEF BackupInv, BackupTypes, DaemonSound, CopySound, EmbedderSound, AllRows, OldRows, ModelOfRows
<1>10. CASE UNCHANGED backupVars
  BY <1>10 DEF backupVars, BackupInv, BackupTypes, DaemonSound, CopySound, EmbedderSound, AllRows, OldRows, ModelOfRows
<1>11. QED
  BY <1>1, <1>2, <1>3, <1>4, <1>5, <1>6, <1>7, <1>8, <1>9, <1>10 DEF BackupNext

(* A backup holds what it should, a daemon that ran for the interval       *)
(* leaves no older row outside every backup, and vectors of two models     *)
(* never meet unless a start has asked for a new embedding: for any        *)
(* models, rows and restarts (core/backup.py, storage/sqlite.py).          *)
THEOREM BackupsAreSound == BackupSpec => []BackupsSound
<1>1. BackupInv => BackupsSound
  <2> SUFFICES ASSUME BackupInv PROVE BackupsSound
    OBVIOUS
  <2>1. active # Never /\ tick > since + Interval /\ ~missed => OldRows \subseteq recorded
    BY BackupAssumption DEF BackupInv, BackupTypes, CopySound
  <2>2. doing = "recording" => covered \subseteq copied
    BY DEF BackupInv, CopySound
  <2>3. ~undecided => \A r, s \in kept : r.embedder = s.embedder
    BY DEF BackupInv, EmbedderSound, AllRows
  <2>4. active # Never /\ ~undecided => \A r \in kept : r.embedder = active
    BY DEF BackupInv, EmbedderSound, AllRows, ModelOfRows
  <2>5. active # Never => \A r \in kept : Dim[r.embedder] = Dim[active]
    BY DEF BackupInv, EmbedderSound, AllRows
  <2>6. QED
    BY <2>1, <2>2, <2>3, <2>4, <2>5 DEF OldRows, BackupsSound
<1>2. QED
  BY BackupInitial, BackupStep, <1>1, PTL DEF BackupSpec

-----------------------------------------------------------------------------
(* Installation: models and certificates (cli/commands.py, setup/tls.py,   *)
(* setup/mitm_ca.py).                                                      *)
SetupSpec == SetupInit /\ [][SetupNext]_setupVars

(* The files of a kind are written in one order, the last one only when    *)
(* the others are whole.                                                   *)
FileState == Nat \union {NoFile, Cut}
PemSound ==
  /\ pem \in [PemFiles -> FileState] /\ generations \in Nat
  /\ \/ pem["key"] = NoFile
     \/ pem["key"] = Cut /\ pem["ca"] # NoFile /\ pem["cert"] # NoFile
     \/ pem["key"] \in Nat /\ pem["ca"] = pem["key"] /\ pem["cert"] = pem["key"]
  /\ \/ pem["mitm-key"] = NoFile
     \/ pem["mitm-key"] = Cut /\ pem["mitm-ca"] # NoFile
     \/ pem["mitm-key"] \in Nat /\ pem["mitm-ca"] = pem["mitm-key"]
  /\ \/ pem["leaf-key"] = NoFile
     \/ pem["leaf-key"] = Cut /\ pem["leaf-cert"] # NoFile
     \/ pem["leaf-key"] \in Nat /\ pem["leaf-cert"] = pem["leaf-key"]

(* A job, with the files it has left, and the file it writes next.         *)
JobAt(job, left, gen, open) == job = [left |-> left, gen |-> gen, open |-> open]
LastIs(f, open) == pem[f] = IF open THEN Cut ELSE NoFile

IssuingSound ==
  issuing # NoJob =>
    \E g \in Nat, o \in BOOLEAN :
      \/ JobAt(issuing, Authority, g, o) /\ pem["key"] = NoFile
      \/ JobAt(issuing, <<"cert", "key">>, g, o) /\ pem["key"] = NoFile /\ pem["ca"] = g
      \/ JobAt(issuing, <<"key">>, g, o) /\ LastIs("key", o) /\ pem["ca"] = g /\ pem["cert"] = g
      \/ JobAt(issuing, MitmAuthority, g, o) /\ pem["mitm-key"] = NoFile
      \/ JobAt(issuing, <<"mitm-key">>, g, o) /\ LastIs("mitm-key", o) /\ pem["mitm-ca"] = g

SigningSound ==
  signing # NoJob =>
    \E g \in Nat, o \in BOOLEAN :
      \/ JobAt(signing, Leaf, g, o) /\ pem["leaf-key"] = NoFile
      \/ JobAt(signing, <<"leaf-key">>, g, o) /\ LastIs("leaf-key", o) /\ pem["leaf-cert"] = g

(* A leaf is signed by an authority that is whole, and will not change.    *)
IssuerSound ==
  (signing # NoJob \/ pem["leaf-key"] # NoFile) => (pem["mitm-key"] \in Nat /\ issuer = pem["mitm-key"])

CertInv == PemSound /\ IssuingSound /\ SigningSound /\ IssuerSound

LEMMA FileStates == NoFile # Cut /\ NoFile \notin Nat /\ Cut \notin Nat
  BY SetupAssumption

LEMMA PemNames ==
  PemFiles = {"ca", "cert", "key", "mitm-ca", "mitm-key", "leaf-cert", "leaf-key"}
<1>1. ToSet(Authority) = {"ca", "cert", "key"}
  BY DEF ToSet, Authority
<1>2. ToSet(MitmAuthority) = {"mitm-ca", "mitm-key"} /\ ToSet(Leaf) = {"leaf-cert", "leaf-key"}
  BY DEF ToSet, MitmAuthority, Leaf
<1>3. QED
  BY <1>1, <1>2 DEF PemFiles, PemKinds

LEMMA KindParts ==
  /\ Head(Authority) = "ca" /\ Tail(Authority) = <<"cert", "key">> /\ Len(Authority) = 3
  /\ Head(<<"cert", "key">>) = "cert" /\ Tail(<<"cert", "key">>) = <<"key">> /\ Len(<<"cert", "key">>) = 2
  /\ Head(<<"key">>) = "key" /\ Len(<<"key">>) = 1
  /\ Head(MitmAuthority) = "mitm-ca" /\ Tail(MitmAuthority) = <<"mitm-key">> /\ Len(MitmAuthority) = 2
  /\ Head(<<"mitm-key">>) = "mitm-key" /\ Len(<<"mitm-key">>) = 1
  /\ Head(Leaf) = "leaf-cert" /\ Tail(Leaf) = <<"leaf-key">> /\ Len(Leaf) = 2
  /\ Head(<<"leaf-key">>) = "leaf-key" /\ Len(<<"leaf-key">>) = 1
  BY DEF Authority, MitmAuthority, Leaf

LEMMA AllThere ==
  /\ AllExist(Authority) <=> (pem["ca"] # NoFile /\ pem["cert"] # NoFile /\ pem["key"] # NoFile)
  /\ AllExist(MitmAuthority) <=> (pem["mitm-ca"] # NoFile /\ pem["mitm-key"] # NoFile)
  /\ AllExist(Leaf) <=> (pem["leaf-cert"] # NoFile /\ pem["leaf-key"] # NoFile)
  BY DEF AllExist, Authority, MitmAuthority, Leaf

LEMMA WrittenIs ==
  ASSUME NEW job, NEW s, NEW g, NEW o \in BOOLEAN, JobAt(job, s, g, o)
  PROVE  /\ ~o => JobAt(Written(job), s, g, TRUE)
         /\ o /\ Len(s) = 1 => Written(job) = NoJob
         /\ o /\ Len(s) # 1 => JobAt(Written(job), Tail(s), g, FALSE)
         /\ Pem(job) = [pem EXCEPT ![Head(s)] = IF o THEN g ELSE Cut]
  BY DEF JobAt, Written, Pem

LEMMA JobIs ==
  ASSUME NEW job, NEW s, NEW g, NEW o, JobAt(job, s, g, o), s # <<>>
  PROVE  job # NoJob
  BY DEF JobAt, NoJob

(* A file is written: the others stay.                                     *)
LEMMA PutFile ==
  ASSUME PemSound, NEW f \in PemFiles, NEW v, pem' = [pem EXCEPT ![f] = v]
  PROVE  pem'[f] = v /\ \A h \in PemFiles \ {f} : pem'[h] = pem[h]
  BY DEF PemSound

LEMMA CertStart == SetupInit => CertInv
  BY FileStates, PemNames DEF SetupInit, CertInv, PemSound, IssuingSound, SigningSound, IssuerSound, FileState

LEMMA Starts ==
  ASSUME PemSound
  PROVE  /\ ToGenerate(Authority) # <<>> => ToGenerate(Authority) = Authority /\ pem["key"] = NoFile
         /\ ToGenerate(MitmAuthority) # <<>> => ToGenerate(MitmAuthority) = MitmAuthority /\ pem["mitm-key"] = NoFile
         /\ ToGenerate(Leaf) # <<>> => ToGenerate(Leaf) = Leaf /\ pem["leaf-key"] = NoFile
  BY AllThere, FileStates DEF ToGenerate, PemSound

LEMMA CertIssue ==
  ASSUME CertInv, IssuePassthrough \/ IssueMitm
  PROVE  CertInv'
<1> USE DEF CertInv
<1>1. UNCHANGED <<pem, issuer, signing>> /\ generations' \in Nat
  BY DEF IssuePassthrough, IssueMitm, Issue, PemSound
<1>2. PemSound' /\ SigningSound' /\ IssuerSound'
  BY <1>1 DEF PemSound, SigningSound, IssuerSound, LastIs
<1>3. CASE issuing' = issuing
  BY <1>1, <1>2, <1>3 DEF IssuingSound, LastIs
<1>4. CASE ToGenerate(Authority) # <<>> /\ issuing' = Job(Authority)
  <2>1. ToGenerate(Authority) = Authority /\ pem["key"] = NoFile
    BY <1>4, Starts
  <2>2. JobAt(issuing', Authority, generations + 1, FALSE)
    BY <2>1, <1>4 DEF Job, JobAt
  <2>3. pem'["key"] = NoFile /\ generations + 1 \in Nat
    BY <2>1, <1>1 DEF PemSound
  <2>4. QED
    BY <2>2, <2>3, <1>2 DEF IssuingSound
<1>5. CASE ToGenerate(MitmAuthority) # <<>> /\ issuing' = Job(MitmAuthority)
  <2>1. ToGenerate(MitmAuthority) = MitmAuthority /\ pem["mitm-key"] = NoFile
    BY <1>5, Starts
  <2>2. JobAt(issuing', MitmAuthority, generations + 1, FALSE)
    BY <2>1, <1>5 DEF Job, JobAt
  <2>3. pem'["mitm-key"] = NoFile /\ generations + 1 \in Nat
    BY <2>1, <1>1 DEF PemSound
  <2>4. QED
    BY <2>2, <2>3, <1>2 DEF IssuingSound
<1>6. QED
  BY <1>3, <1>4, <1>5 DEF IssuePassthrough, IssueMitm, Issue

LEMMA CertSign ==
  ASSUME CertInv, SignLeaf
  PROVE  CertInv'
<1> USE DEF CertInv
<1>1. UNCHANGED <<pem, issuing>> /\ generations' \in Nat
  BY DEF SignLeaf, PemSound
<1>2. PemSound' /\ IssuingSound'
  BY <1>1 DEF PemSound, IssuingSound, LastIs
<1>3. JobAt(signing', Leaf, generations + 1, FALSE) /\ pem'["leaf-key"] = NoFile /\ generations + 1 \in Nat
  BY <1>1, Starts DEF SignLeaf, Job, JobAt, PemSound
<1>4. pem["mitm-key"] \in Nat
  <2>1. pem["mitm-key"] \notin {NoFile, Cut}
    BY DEF SignLeaf, MitmAuthority
  <2>2. QED
    BY <2>1, PemNames DEF PemSound, FileState
<1>5. SigningSound'
  BY <1>3 DEF SigningSound
<1>6. IssuerSound'
  BY <1>1, <1>4 DEF IssuerSound, SignLeaf
<1>7. QED
  BY <1>2, <1>5, <1>6

LEMMA CertWriteLeaf ==
  ASSUME CertInv, WriteLeaf
  PROVE  CertInv'
<1> USE DEF CertInv
<1>1. UNCHANGED <<issuing, issuer, generations>> /\ signing # NoJob /\ signing' = Written(signing) /\ pem' = Pem(signing)
  BY DEF WriteLeaf
<1>2. PICK g \in Nat, o \in BOOLEAN :
        \/ JobAt(signing, Leaf, g, o) /\ pem["leaf-key"] = NoFile
        \/ JobAt(signing, <<"leaf-key">>, g, o) /\ LastIs("leaf-key", o) /\ pem["leaf-cert"] = g
  BY <1>1 DEF SigningSound
<1>3. pem["mitm-key"] \in Nat /\ issuer = pem["mitm-key"]
  BY <1>1 DEF IssuerSound
<1> DEFINE v == IF o THEN g ELSE Cut
<1>4. v \in FileState /\ v # NoFile
  BY FileStates DEF FileState
<1>5. ASSUME JobAt(signing, Leaf, g, o), pem["leaf-key"] = NoFile
      PROVE  PemSound' /\ SigningSound' /\ pem' = [pem EXCEPT !["leaf-cert"] = v]
  <2>1. pem' = [pem EXCEPT !["leaf-cert"] = v]
    <3>1. Pem(signing) = [pem EXCEPT ![Head(Leaf)] = v]
      BY <1>5 DEF JobAt, Pem
    <3>2. QED
      BY <1>1, <3>1, KindParts
  <2>2. pem'["leaf-cert"] = v /\ \A h \in PemFiles \ {"leaf-cert"} : pem'[h] = pem[h]
    BY <2>1, PemNames, PutFile
  <2>3. pem' \in [PemFiles -> FileState]
    BY <2>1, <1>4 DEF PemSound
  <2>4. PemSound'
    BY <2>2, <2>3, <1>1, <1>5, PemNames DEF PemSound
  <2>5. CASE ~o
    <3>1. JobAt(signing', Leaf, g, TRUE)
      BY <1>1, <1>5, <2>5, WrittenIs
    <3>2. QED
      BY <3>1, <2>1, <2>2, <2>4, <1>5, PemNames DEF SigningSound
  <2>6. CASE o
    <3>1. JobAt(signing', <<"leaf-key">>, g, FALSE)
      <4>1. o /\ Len(Leaf) # 1 => JobAt(Written(signing), Tail(Leaf), g, FALSE)
        BY <1>5, WrittenIs
      <4>2. Len(Leaf) # 1 /\ Tail(Leaf) = <<"leaf-key">>
        BY KindParts
      <4>3. QED
        BY <1>1, <2>6, <4>1, <4>2, Zenon
    <3>2. LastIs("leaf-key", FALSE)'
      BY <2>2, <1>5, PemNames DEF LastIs
    <3>3. pem'["leaf-cert"] = g
      BY <2>2, <2>6
    <3>4. QED
      BY <3>1, <3>2, <3>3, <2>1, <2>4 DEF SigningSound
  <2>7. QED
    BY <2>5, <2>6
<1>6. ASSUME JobAt(signing, <<"leaf-key">>, g, o), LastIs("leaf-key", o), pem["leaf-cert"] = g
      PROVE  PemSound' /\ SigningSound' /\ pem' = [pem EXCEPT !["leaf-key"] = v]
  <2>1. pem' = [pem EXCEPT !["leaf-key"] = v]
    <3>1. Pem(signing) = [pem EXCEPT ![Head(<<"leaf-key">>)] = v]
      BY <1>6 DEF JobAt, Pem
    <3>2. QED
      BY <1>1, <3>1, KindParts
  <2>2. pem'["leaf-key"] = v /\ \A h \in PemFiles \ {"leaf-key"} : pem'[h] = pem[h]
    BY <2>1, PemNames, PutFile
  <2>3. pem' \in [PemFiles -> FileState]
    BY <2>1, <1>4 DEF PemSound
  <2>4. PemSound'
    BY <2>2, <2>3, <1>1, <1>6, PemNames, FileStates DEF PemSound
  <2>5. CASE ~o
    <3>1. JobAt(signing', <<"leaf-key">>, g, TRUE)
      BY <1>1, <1>6, <2>5, WrittenIs
    <3>2. LastIs("leaf-key", TRUE)'
      BY <2>2, <2>5 DEF LastIs
    <3>3. pem'["leaf-cert"] = g
      BY <2>2, <1>6, PemNames
    <3>4. QED
      BY <3>1, <3>2, <3>3, <2>1, <2>4 DEF SigningSound
  <2>6. CASE o
    <3>1. signing' = NoJob
      BY <1>1, <1>6, <2>6, WrittenIs, KindParts
    <3>2. QED
      BY <3>1, <2>1, <2>4 DEF SigningSound
  <2>7. QED
    BY <2>5, <2>6
<1>7. PemSound' /\ SigningSound' /\ \A h \in PemFiles \ {"leaf-cert", "leaf-key"} : pem'[h] = pem[h]
  BY <1>2, <1>5, <1>6, PemNames, PutFile
<1>8. IssuingSound'
  BY <1>1, <1>7, PemNames DEF IssuingSound, LastIs
<1>9. IssuerSound'
  BY <1>1, <1>3, <1>7, PemNames DEF IssuerSound
<1>10. QED
  BY <1>7, <1>8, <1>9

LEMMA PutNextFile ==
  ASSUME PemSound, NEW job, NEW s, NEW g \in Nat, NEW o \in BOOLEAN, JobAt(job, s, g, o),
         NEW f, f = Head(s), f \in PemFiles, pem' = Pem(job)
  PROVE  /\ pem'[f] = IF o THEN g ELSE Cut
         /\ \A h \in PemFiles \ {f} : pem'[h] = pem[h]
         /\ pem' \in [PemFiles -> FileState]
<1>1. pem' = [pem EXCEPT ![f] = IF o THEN g ELSE Cut]
  BY DEF JobAt, Pem
<1>2. (IF o THEN g ELSE Cut) \in FileState
  BY DEF FileState
<1>3. QED
  BY <1>1, <1>2 DEF PemSound

LEMMA WritesOn ==
  ASSUME NEW job, NEW s, NEW g, NEW o \in BOOLEAN, JobAt(job, s, g, o), Len(s) # 1
  PROVE  (JobAt(Written(job), s, g, TRUE) /\ ~o) \/ (JobAt(Written(job), Tail(s), g, FALSE) /\ o)
<1>1. /\ ~o => JobAt(Written(job), s, g, TRUE)
      /\ o /\ Len(s) # 1 => JobAt(Written(job), Tail(s), g, FALSE)
  BY WrittenIs
<1>2. QED
  BY <1>1, Zenon

LEMMA WritesLast ==
  ASSUME NEW job, NEW s, NEW g, NEW o \in BOOLEAN, JobAt(job, s, g, o), Len(s) = 1
  PROVE  (JobAt(Written(job), s, g, TRUE) /\ ~o) \/ (Written(job) = NoJob /\ o)
<1>1. /\ ~o => JobAt(Written(job), s, g, TRUE)
      /\ o /\ Len(s) = 1 => Written(job) = NoJob
  BY WrittenIs
<1>2. QED
  BY <1>1, Zenon

LEMMA CertWriteAuthority ==
  ASSUME CertInv, WriteAuthority
  PROVE  CertInv'
<1> USE DEF CertInv
<1>1. /\ UNCHANGED <<signing, issuer, generations>> /\ issuing # NoJob
      /\ issuing' = Written(issuing) /\ pem' = Pem(issuing)
  BY DEF WriteAuthority
<1>2. PICK g \in Nat, o \in BOOLEAN :
        \/ JobAt(issuing, Authority, g, o) /\ pem["key"] = NoFile
        \/ JobAt(issuing, <<"cert", "key">>, g, o) /\ pem["key"] = NoFile /\ pem["ca"] = g
        \/ JobAt(issuing, <<"key">>, g, o) /\ LastIs("key", o) /\ pem["ca"] = g /\ pem["cert"] = g
        \/ JobAt(issuing, MitmAuthority, g, o) /\ pem["mitm-key"] = NoFile
        \/ JobAt(issuing, <<"mitm-key">>, g, o) /\ LastIs("mitm-key", o) /\ pem["mitm-ca"] = g
  BY <1>1 DEF IssuingSound
<1> DEFINE v == IF o THEN g ELSE Cut
           PutOne(f) == pem'[f] = v /\ \A h \in PemFiles \ {f} : pem'[h] = pem[h]
<1>3. v # NoFile
  BY FileStates
<1>4. generations' \in Nat
  BY <1>1 DEF PemSound
<1>5. ASSUME JobAt(issuing, Authority, g, o), pem["key"] = NoFile
      PROVE  PemSound' /\ IssuingSound' /\ PutOne("ca")
  <2>1. PutOne("ca") /\ pem' \in [PemFiles -> FileState]
    <3>1. "ca" = Head(Authority) /\ "ca" \in PemFiles
      BY KindParts, PemNames
    <3>2. QED
      BY <1>1, <1>5, <3>1, PutNextFile
  <2>2. PemSound'
    BY <1>3, <1>4, <1>5, <2>1, PemNames, FileStates DEF PemSound, LastIs
  <2>3. (JobAt(issuing', Authority, g, TRUE) /\ ~o) \/ (JobAt(issuing', <<"cert", "key">>, g, FALSE) /\ o)
    <3>1. Tail(Authority) = <<"cert", "key">> /\ Len(Authority) # 1
      BY KindParts
    <3>2. (JobAt(Written(issuing), Authority, g, TRUE) /\ ~o) \/ (JobAt(Written(issuing), <<"cert", "key">>, g, FALSE) /\ o)
      <4> HIDE DEF v, PutOne
      <4>1. JobAt(issuing, Authority, g, o)
        BY <1>5
      <4>2. (JobAt(Written(issuing), Authority, g, TRUE) /\ ~o) \/ (JobAt(Written(issuing), Tail(Authority), g, FALSE) /\ o)
        BY <4>1, <3>1, WritesOn
      <4>3. QED
        BY <4>2, <3>1
    <3>3. QED
      BY <1>1, <3>2
  <2>4. pem'["key"] = NoFile
    BY <1>5, <2>1, PemNames
  <2>5. QED
    BY <1>5, <2>1, <2>2, <2>3, <2>4, PemNames DEF IssuingSound, LastIs
<1>6. ASSUME JobAt(issuing, <<"cert", "key">>, g, o), pem["key"] = NoFile, pem["ca"] = g
      PROVE  PemSound' /\ IssuingSound' /\ PutOne("cert")
  <2>1. PutOne("cert") /\ pem' \in [PemFiles -> FileState]
    <3>1. "cert" = Head(<<"cert", "key">>) /\ "cert" \in PemFiles
      BY KindParts, PemNames
    <3>2. QED
      BY <1>1, <1>6, <3>1, PutNextFile
  <2>2. PemSound'
    BY <1>3, <1>4, <1>6, <2>1, PemNames, FileStates DEF PemSound, LastIs
  <2>3. (JobAt(issuing', <<"cert", "key">>, g, TRUE) /\ ~o) \/ (JobAt(issuing', <<"key">>, g, FALSE) /\ o)
    <3>1. Tail(<<"cert", "key">>) = <<"key">> /\ Len(<<"cert", "key">>) # 1
      BY KindParts
    <3>2. (JobAt(Written(issuing), <<"cert", "key">>, g, TRUE) /\ ~o) \/ (JobAt(Written(issuing), <<"key">>, g, FALSE) /\ o)
      <4> HIDE DEF v, PutOne
      <4>1. JobAt(issuing, <<"cert", "key">>, g, o)
        BY <1>6
      <4>2. (JobAt(Written(issuing), <<"cert", "key">>, g, TRUE) /\ ~o) \/ (JobAt(Written(issuing), Tail(<<"cert", "key">>), g, FALSE) /\ o)
        BY <4>1, <3>1, WritesOn
      <4>3. QED
        BY <4>2, <3>1
    <3>3. QED
      BY <1>1, <3>2
  <2>4. pem'["key"] = NoFile
    BY <1>6, <2>1, PemNames
  <2>5. QED
    BY <1>6, <2>1, <2>2, <2>3, <2>4, PemNames DEF IssuingSound, LastIs
<1>7. ASSUME JobAt(issuing, <<"key">>, g, o), LastIs("key", o), pem["ca"] = g, pem["cert"] = g
      PROVE  PemSound' /\ IssuingSound' /\ PutOne("key")
  <2>1. PutOne("key") /\ pem' \in [PemFiles -> FileState]
    <3>1. "key" = Head(<<"key">>) /\ "key" \in PemFiles
      BY KindParts, PemNames
    <3>2. QED
      BY <1>1, <1>7, <3>1, PutNextFile
  <2>2. PemSound'
    BY <1>3, <1>4, <1>7, <2>1, PemNames, FileStates DEF PemSound, LastIs
  <2>3. (JobAt(issuing', <<"key">>, g, TRUE) /\ ~o) \/ (issuing' = NoJob /\ o)
    <3>1. Len(<<"key">>) = 1
      BY KindParts
    <3>2. QED
      BY <1>1, <1>7, <3>1, WritesLast
  <2>4. QED
    BY <1>7, <2>1, <2>2, <2>3, PemNames DEF IssuingSound, LastIs
<1>8. ASSUME JobAt(issuing, MitmAuthority, g, o), pem["mitm-key"] = NoFile
      PROVE  PemSound' /\ IssuingSound' /\ PutOne("mitm-ca")
  <2>1. PutOne("mitm-ca") /\ pem' \in [PemFiles -> FileState]
    <3>1. "mitm-ca" = Head(MitmAuthority) /\ "mitm-ca" \in PemFiles
      BY KindParts, PemNames
    <3>2. QED
      BY <1>1, <1>8, <3>1, PutNextFile
  <2>2. PemSound'
    BY <1>3, <1>4, <1>8, <2>1, PemNames, FileStates DEF PemSound, LastIs
  <2>3. (JobAt(issuing', MitmAuthority, g, TRUE) /\ ~o) \/ (JobAt(issuing', <<"mitm-key">>, g, FALSE) /\ o)
    <3>1. Tail(MitmAuthority) = <<"mitm-key">> /\ Len(MitmAuthority) # 1
      BY KindParts
    <3>2. (JobAt(Written(issuing), MitmAuthority, g, TRUE) /\ ~o) \/ (JobAt(Written(issuing), <<"mitm-key">>, g, FALSE) /\ o)
      <4> HIDE DEF v, PutOne
      <4>1. JobAt(issuing, MitmAuthority, g, o)
        BY <1>8
      <4>2. (JobAt(Written(issuing), MitmAuthority, g, TRUE) /\ ~o) \/ (JobAt(Written(issuing), Tail(MitmAuthority), g, FALSE) /\ o)
        BY <4>1, <3>1, WritesOn
      <4>3. QED
        BY <4>2, <3>1
    <3>3. QED
      BY <1>1, <3>2
  <2>4. pem'["mitm-key"] = NoFile
    BY <1>8, <2>1, PemNames
  <2>5. QED
    BY <1>8, <2>1, <2>2, <2>3, <2>4, PemNames DEF IssuingSound, LastIs
<1>9. ASSUME JobAt(issuing, <<"mitm-key">>, g, o), LastIs("mitm-key", o), pem["mitm-ca"] = g
      PROVE  PemSound' /\ IssuingSound' /\ PutOne("mitm-key")
  <2>1. PutOne("mitm-key") /\ pem' \in [PemFiles -> FileState]
    <3>1. "mitm-key" = Head(<<"mitm-key">>) /\ "mitm-key" \in PemFiles
      BY KindParts, PemNames
    <3>2. QED
      BY <1>1, <1>9, <3>1, PutNextFile
  <2>2. PemSound'
    BY <1>3, <1>4, <1>9, <2>1, PemNames, FileStates DEF PemSound, LastIs
  <2>3. (JobAt(issuing', <<"mitm-key">>, g, TRUE) /\ ~o) \/ (issuing' = NoJob /\ o)
    <3>1. Len(<<"mitm-key">>) = 1
      BY KindParts
    <3>2. QED
      BY <1>1, <1>9, <3>1, WritesLast
  <2>4. QED
    BY <1>9, <2>1, <2>2, <2>3, PemNames DEF IssuingSound, LastIs
<1>10. PemSound' /\ IssuingSound'
  BY <1>2, <1>5, <1>6, <1>7, <1>8, <1>9
<1>11. /\ pem'["leaf-key"] = pem["leaf-key"] /\ pem'["leaf-cert"] = pem["leaf-cert"]
       /\ pem["mitm-key"] \in Nat => pem'["mitm-key"] = pem["mitm-key"]
  BY <1>2, <1>5, <1>6, <1>7, <1>8, <1>9, PemNames, FileStates DEF LastIs
<1>12. SigningSound'
  BY <1>1, <1>11 DEF SigningSound, LastIs
<1>13. IssuerSound'
  BY <1>1, <1>11 DEF IssuerSound
<1>14. QED
  BY <1>10, <1>12, <1>13

LEMMA CertRest ==
  ASSUME CertInv, UNCHANGED <<pem, issuer>>, generations' = generations,
         issuing' \in {issuing, NoJob}, signing' \in {signing, NoJob}
  PROVE  CertInv'
  BY DEF CertInv, PemSound, IssuingSound, SigningSound, IssuerSound, LastIs

LEMMA CertStep ==
  ASSUME CertInv, [SetupNext]_setupVars
  PROVE  CertInv'
<1>1. CASE IssuePassthrough \/ IssueMitm
  BY <1>1, CertIssue
<1>2. CASE SignLeaf
  BY <1>2, CertSign
<1>3. CASE WriteLeaf
  BY <1>3, CertWriteLeaf
<1>4. CASE WriteAuthority
  BY <1>4, CertWriteAuthority
<1>5. CASE UNCHANGED certificates \/ KillCommand \/ KillDaemon \/ StartDaemon
  BY <1>5, CertRest DEF certificates, KillCommand, KillDaemon, StartDaemon
<1>6. CASE RunSetup \/ InstallExtension \/ \E force \in BOOLEAN : InstallModels(force)
  BY <1>5, <1>6 DEF RunSetup, InstallExtension, InstallModels, Begins
<1>7. CASE CopyConfig \/ EnsureManifest \/ ReadManifest \/ SkipBundle \/ Fetch \/ BundleDone \/ ModelsDone
  BY <1>5, <1>7 DEF CopyConfig, EnsureManifest, ReadManifest, SkipBundle, Fetch, BundleDone, ModelsDone
<1>8. CASE CopyExtension \/ Upgrade \/ UNCHANGED setupVars
  BY <1>5, <1>8 DEF CopyExtension, Upgrade, setupVars, certificates
<1>9. QED
  BY <1>1, <1>2, <1>3, <1>4, <1>5, <1>6, <1>7, <1>8 DEF SetupNext, InstallStep

LEMMA CertMatch == CertInv => CertificatesMatch
<1> SUFFICES ASSUME CertInv PROVE CertificatesMatch
  OBVIOUS
<1>1. ASSUME Usable(Authority) PROVE \A i \in DOMAIN Authority : pem[Authority[i]] = pem[Authority[1]]
  BY <1>1 DEF CertInv, PemSound, Usable, Authority
<1>2. ASSUME Usable(MitmAuthority) PROVE \A i \in DOMAIN MitmAuthority : pem[MitmAuthority[i]] = pem[MitmAuthority[1]]
  BY <1>2 DEF CertInv, PemSound, Usable, MitmAuthority
<1>3. ASSUME Usable(Leaf)
      PROVE  (\A i \in DOMAIN Leaf : pem[Leaf[i]] = pem[Leaf[1]]) /\ issuer = pem["mitm-key"]
  BY <1>3 DEF CertInv, PemSound, IssuerSound, Usable, Leaf
<1>4. QED
  BY <1>1, <1>2, <1>3 DEF CertificatesMatch, PemKinds

-----------------------------------------------------------------------------
(* Models.  What a run has behind it is there, was half there, or failed;  *)
(* what is half there of the rest was so when the run began.               *)
BundleKept(b) == command.failed \/ FilesOf(b) \subseteq models \/ (b \in halves /\ ~command.force)
FileGot(b, j) == command.failed \/ <<b.name, b.files[j]>> \in models

ModelsHeld ==
  /\ release \in Releases /\ manifest \in Releases \union {NoFile, Cut}
  /\ command = [name |-> command.name, step |-> command.step, bundle |-> command.bundle,
                file |-> command.file, force |-> command.force, failed |-> command.failed]
Early ==
  command.step \in {"config", "manifest", "read manifest"} => command.bundle = 1 /\ command.file = 1
Chosen == command.step = "read manifest" => manifest # NoFile

Behind == \A i \in DOMAIN Package[manifest] : i < command.bundle => BundleKept(Package[manifest][i])
Ahead ==
  \A i \in DOMAIN Package[manifest] :
    (i > command.bundle \/ (i = command.bundle /\ command.file = 1)) /\ HalfThere(Package[manifest][i])
      => Package[manifest][i] \in halves
InHand ==
  \A i \in DOMAIN Package[manifest] : i = command.bundle =>
    \A j \in DOMAIN Package[manifest][i].files : j < command.file => FileGot(Package[manifest][i], j)
Installing ==
  command.step = "models" =>
    /\ manifest \in Releases /\ command.bundle \in Nat \ {0} /\ command.file \in Nat \ {0}
    /\ Behind /\ Ahead /\ InHand

ModelsInv == ModelsHeld /\ Early /\ Chosen /\ Installing

LEMMA Manifests ==
  /\ Releases \subseteq Nat /\ 1 \in Releases
  /\ \A r \in Releases :
       /\ Len(Package[r]) \in Nat /\ DOMAIN Package[r] = 1..Len(Package[r])
       /\ \A i \in DOMAIN Package[r] :
            /\ Len(Package[r][i].files) \in Nat
            /\ DOMAIN Package[r][i].files = 1..Len(Package[r][i].files)
<1>1. ASSUME NEW s, List(s) PROVE Len(s) \in Nat /\ DOMAIN s = 1..Len(s) /\ 1 \in DOMAIN s
  <2>1. s \in Seq(ToSet(s)) /\ s # <<>>
    BY <1>1 DEF List
  <2>2. Len(s) \in Nat /\ DOMAIN s = 1..Len(s)
    BY <2>1, LenProperties
  <2>3. Len(s) # 0
    BY <2>1, EmptySeq
  <2>4. QED
    BY <2>2, <2>3
<1>2. Releases \subseteq Nat /\ 1 \in Releases
  BY <1>1, SetupAssumption DEF Releases
<1>3. QED
  BY <1>1, <1>2, SetupAssumption DEF Releases

LEMMA ModelsStart == SetupInit => ModelsInv
  BY Manifests DEF SetupInit, Shell, ModelsInv, ModelsHeld, Early, Chosen, Installing

(* Outside the installation of models, a step changes only what the        *)
(* invariant does not tell apart.                                          *)
LEMMA OutsideModels ==
  ASSUME ModelsInv, release' \in Releases, manifest' \in Releases \union {NoFile, Cut},
         NEW name, NEW step, NEW bundle, NEW file, NEW force, NEW failed,
         command' = [name |-> name, step |-> step, bundle |-> bundle,
                     file |-> file, force |-> force, failed |-> failed],
         step # "models", step = "read manifest" => manifest' # NoFile,
         step \in {"config", "manifest", "read manifest"} => bundle = 1 /\ file = 1
  PROVE  ModelsInv'
  BY DEF ModelsInv, ModelsHeld, Early, Chosen, Installing

LEMMA ModelsSame ==
  ASSUME ModelsInv, UNCHANGED <<release, manifest, models, command, halves>>
  PROVE  ModelsInv'
  BY DEF ModelsInv, ModelsHeld, Early, Chosen, Installing, Behind, Ahead, InHand, BundleKept, FileGot, HalfThere

LEMMA CommandBegins ==
  ASSUME ModelsInv, NEW name, NEW force, NEW step, step \notin {"models", "read manifest"},
         Begins(name, force, step)
  PROVE  ModelsInv'
<1>1. UNCHANGED <<release, manifest>>
  BY DEF Begins, onDisk, setupFaults
<1>2. command' = [name |-> name, step |-> step, bundle |-> 1, file |-> 1, force |-> force, failed |-> FALSE]
  BY DEF Begins, Shell
<1>3. release' \in Releases /\ manifest' \in Releases \union {NoFile, Cut}
  BY <1>1 DEF ModelsInv, ModelsHeld
<1>4. QED
  BY <1>2, <1>3, OutsideModels

(* The steps of a command: what they leave of it.                          *)
LEMMA Stepped ==
  ASSUME ModelsInv, NEW step
  PROVE  [command EXCEPT !.step = step] =
           [name |-> command.name, step |-> step, bundle |-> command.bundle,
            file |-> command.file, force |-> command.force, failed |-> command.failed]
  BY DEF ModelsInv, ModelsHeld

LEMMA CommandEnds ==
  ASSUME ModelsInv, release' \in Releases, manifest' \in Releases \union {NoFile, Cut}, Ends
  PROVE  ModelsInv'
<1>1. command' = [name |-> "none", step |-> "none", bundle |-> 1, file |-> 1, force |-> FALSE, failed |-> FALSE]
  BY DEF Ends, Shell
<1>2. QED
  BY <1>1, OutsideModels

LEMMA CommandGoesOn ==
  ASSUME ModelsInv, release' \in Releases, manifest' \in Releases \union {NoFile, Cut},
         NEW step, GoOn(step), step # "models", step = "read manifest" => manifest' # NoFile,
         step \in {"config", "manifest", "read manifest"} => command.bundle = 1 /\ command.file = 1
  PROVE  ModelsInv'
<1>1. command' = [name |-> command.name, step |-> step, bundle |-> command.bundle,
                  file |-> command.file, force |-> command.force, failed |-> command.failed]
  BY Stepped DEF GoOn
<1>2. QED
  BY <1>1, OutsideModels

LEMMA ConfigStep == ModelsInv /\ CopyConfig => ModelsInv'
<1> SUFFICES ASSUME ModelsInv, CopyConfig PROVE ModelsInv'
  OBVIOUS
<1>1. release' \in Releases /\ manifest' \in Releases \union {NoFile, Cut}
  BY DEF ModelsInv, ModelsHeld, CopyConfig
<1>2. CASE GoOn("manifest")
  <2>1. command.bundle = 1 /\ command.file = 1
    BY DEF ModelsInv, Early, CopyConfig
  <2>2. QED
    BY <1>1, <1>2, <2>1, CommandGoesOn
<1>3. CASE Ends
  BY <1>1, <1>3, CommandEnds
<1>4. QED
  BY <1>2, <1>3 DEF CopyConfig, Killed, Ends

LEMMA ManifestStep == ModelsInv /\ EnsureManifest => ModelsInv'
<1> SUFFICES ASSUME ModelsInv, EnsureManifest PROVE ModelsInv'
  OBVIOUS
<1>1. release' \in Releases /\ manifest' \in Releases \union {NoFile, Cut}
  BY DEF ModelsInv, ModelsHeld, EnsureManifest
<1>2. CASE GoOn("read manifest") /\ manifest' # NoFile
  <2>1. command.bundle = 1 /\ command.file = 1
    BY DEF ModelsInv, Early, EnsureManifest
  <2>2. QED
    BY <1>1, <1>2, <2>1, CommandGoesOn
<1>3. CASE Ends
  BY <1>1, <1>3, CommandEnds
<1>4. (GoOn("read manifest") /\ manifest' # NoFile) \/ Ends
  BY FileStates, Manifests DEF ModelsInv, ModelsHeld, EnsureManifest, Killed, Ends
<1>5. QED
  BY <1>2, <1>3, <1>4

LEMMA ReadManifestStep == ModelsInv /\ ReadManifest => ModelsInv'
<1> SUFFICES ASSUME ModelsInv, ReadManifest PROVE ModelsInv'
  OBVIOUS
<1>1. release' \in Releases /\ manifest' \in Releases \union {NoFile, Cut} /\ UNCHANGED <<manifest, models>>
  BY DEF ModelsInv, ModelsHeld, ReadManifest, onDisk, setupFaults
<1>2. CASE Ends
  BY <1>1, <1>2, CommandEnds
<1>3. CASE manifest # Cut /\ GoOn("models") /\ halves' = {b \in ToSet(Package[manifest]) : HalfThere(b)}
  <2>1. command' = [name |-> command.name, step |-> "models", bundle |-> command.bundle,
                    file |-> command.file, force |-> command.force, failed |-> command.failed]
    BY <1>3, Stepped DEF GoOn
  <2>2. command.bundle = 1 /\ command.file = 1 /\ manifest \in Releases
    BY <1>3 DEF ModelsInv, ModelsHeld, Early, Chosen, ReadManifest
  <2>3. Behind' /\ InHand'
    BY <1>1, <2>1, <2>2, Manifests DEF Behind, InHand
  <2>4. Ahead'
    <3>1. ASSUME NEW i \in DOMAIN Package[manifest], HalfThere(Package[manifest][i])'
          PROVE  Package[manifest][i] \in halves'
      <4>1. HalfThere(Package[manifest][i])
        BY <1>1, <3>1 DEF HalfThere, Key, FilesOf
      <4>2. Package[manifest][i] \in ToSet(Package[manifest])
        BY DEF ToSet
      <4>3. QED
        BY <1>3, <4>1, <4>2
    <3>2. QED
      BY <1>1, <3>1 DEF Ahead
  <2>5. ModelsHeld' /\ Early' /\ Chosen'
    BY <1>1, <2>1 DEF ModelsHeld, Early, Chosen
  <2>6. Installing'
    BY <1>1, <2>1, <2>2, <2>3, <2>4 DEF Installing
  <2>7. QED
    BY <2>5, <2>6 DEF ModelsInv
<1>4. QED
  BY <1>2, <1>3 DEF ReadManifest

(* A bundle is behind: the run goes on with the next one.                  *)
LEMMA NextBundleStep ==
  ASSUME ModelsInv, InModels, NextBundle, BundleKept(Current),
         UNCHANGED <<release, manifest, models, halves>>
  PROVE  ModelsInv'
<1>1. command' = [name |-> command.name, step |-> "models", bundle |-> command.bundle + 1,
                  file |-> 1, force |-> command.force, failed |-> command.failed]
  BY DEF ModelsInv, ModelsHeld, InModels, NextBundle
<1>2. /\ manifest \in Releases /\ command.bundle \in Nat \ {0} /\ command.file \in Nat \ {0}
      /\ Behind /\ Ahead /\ InHand
  BY DEF ModelsInv, Installing, InModels
<1>3. DOMAIN Package[manifest] \subseteq Nat
  BY <1>2, Manifests
<1>4. Behind'
  <2>1. ASSUME NEW i \in DOMAIN Package[manifest], i < command.bundle + 1
        PROVE  BundleKept(Package[manifest][i])'
    <3>1. BundleKept(Package[manifest][i])
      BY <1>2, <1>3, <2>1 DEF Behind, Current
    <3>2. QED
      BY <1>1, <3>1 DEF BundleKept, FilesOf
  <2>2. QED
    BY <1>1, <2>1 DEF Behind
<1>5. Ahead'
  <2>1. ASSUME NEW i \in DOMAIN Package[manifest], i > command.bundle, HalfThere(Package[manifest][i])'
        PROVE  Package[manifest][i] \in halves
    <3>1. HalfThere(Package[manifest][i])
      BY <2>1 DEF HalfThere, Key, FilesOf
    <3>2. QED
      BY <1>2, <2>1, <3>1 DEF Ahead
  <2>2. \A i \in DOMAIN Package[manifest] : i > command'.bundle \/ i = command'.bundle => i > command.bundle
    BY <1>1, <1>2, <1>3
  <2>3. QED
    BY <2>1, <2>2 DEF Ahead
<1>6. InHand'
  <2>1. \A i \in DOMAIN Package[manifest] : \A j \in DOMAIN Package[manifest][i].files : ~(j < 1)
    BY <1>2, Manifests
  <2>2. QED
    BY <1>1, <2>1 DEF InHand
<1>7. Installing'
  BY <1>1, <1>2, <1>4, <1>5, <1>6 DEF Installing
<1>8. ModelsHeld' /\ Early' /\ Chosen'
  BY <1>1 DEF ModelsInv, ModelsHeld, Early, Chosen
<1>9. QED
  BY <1>7, <1>8 DEF ModelsInv

LEMMA InPackage ==
  ASSUME ModelsInv, InModels
  PROVE  command.bundle \in DOMAIN Package[manifest]
<1>1. manifest \in Releases /\ command.bundle \in Nat \ {0}
  BY DEF ModelsInv, Installing, InModels
<1>2. QED
  BY <1>1, Manifests DEF InModels

LEMMA SkipStep == ModelsInv /\ SkipBundle => ModelsInv'
<1> SUFFICES ASSUME ModelsInv, SkipBundle PROVE ModelsInv'
  OBVIOUS
<1>1. UNCHANGED <<release, manifest, models, halves>> /\ InModels /\ NextBundle
  BY DEF SkipBundle, onDisk, setupFaults
<1>2. BundleKept(Current)
  <2>1. CASE HalfThere(Current)
    <3>1. Ahead
      BY <1>1 DEF ModelsInv, Installing, InModels
    <3>2. Current \in halves
      BY <1>1, <2>1, <3>1, InPackage DEF Ahead, SkipBundle, Current
    <3>3. QED
      BY <3>2 DEF BundleKept, SkipBundle
  <2>2. CASE ~HalfThere(Current)
    BY <2>2 DEF HalfThere, BundleKept, SkipBundle, InstalledBundle
  <2>3. QED
    BY <2>1, <2>2
<1>3. QED
  BY <1>1, <1>2, NextBundleStep

LEMMA DoneStep == ModelsInv /\ BundleDone => ModelsInv'
<1> SUFFICES ASSUME ModelsInv, BundleDone PROVE ModelsInv'
  OBVIOUS
<1>1. UNCHANGED <<release, manifest, models, halves>> /\ InModels /\ NextBundle
  BY DEF BundleDone, onDisk, setupFaults
<1>2. manifest \in Releases /\ command.file \in Nat \ {0} /\ InHand
  BY <1>1 DEF ModelsInv, Installing, InModels
<1>3. \A j \in DOMAIN Current.files : j < command.file
  BY <1>1, <1>2, InPackage, Manifests DEF BundleDone, Current
<1>4. \A j \in DOMAIN Current.files : FileGot(Current, j)
  BY <1>1, <1>2, <1>3, InPackage DEF InHand, Current
<1>5. BundleKept(Current)
  <2>1. ASSUME ~command.failed, NEW x \in FilesOf(Current) PROVE x \in models
    <3>1. PICK f \in ToSet(Current.files) : x = <<Current.name, f>>
      BY DEF FilesOf
    <3>2. PICK j \in DOMAIN Current.files : f = Current.files[j]
      BY DEF ToSet
    <3>3. QED
      BY <1>4, <2>1, <3>1, <3>2 DEF FileGot
  <2>2. QED
    BY <2>1 DEF BundleKept
<1>6. QED
  BY <1>1, <1>5, NextBundleStep

LEMMA FetchStep == ModelsInv /\ Fetch => ModelsInv'
<1> SUFFICES ASSUME ModelsInv, Fetch PROVE ModelsInv'
  OBVIOUS
<1> DEFINE k == command.bundle
           wanted == <<Current.name, Current.files[command.file]>>
<1>1. UNCHANGED <<release, manifest, halves>> /\ InModels /\ k \in DOMAIN Package[manifest]
  BY InPackage DEF Fetch
<1>2. /\ manifest \in Releases /\ command.file \in Nat \ {0}
      /\ Behind /\ Ahead /\ InHand /\ k \in Nat \ {0}
  BY <1>1 DEF ModelsInv, Installing, InModels
<1>3. /\ command' = [name |-> command.name, step |-> "models", bundle |-> command.bundle,
                     file |-> command.file + 1, force |-> command.force, failed |-> command'.failed]
      /\ command'.failed = command.failed \/ command'.failed = TRUE
      /\ command'.failed = TRUE \/ wanted \in models'
      /\ models' = models \/ models' = models \union {wanted}
  BY <1>1 DEF Fetch, ModelsInv, ModelsHeld, InModels, NextFile, Setback
<1>4. models \subseteq models' /\ (command.failed => command'.failed)
  BY <1>3
<1>5. manifest' = manifest /\ k' = k
  BY <1>1, <1>3
<1>6. Behind'
  <2>1. ASSUME NEW i \in DOMAIN Package[manifest], i < command.bundle
        PROVE  BundleKept(Package[manifest][i])'
    <3>1. BundleKept(Package[manifest][i])
      BY <1>2, <2>1 DEF Behind
    <3>2. QED
      BY <1>1, <1>3, <1>4, <3>1 DEF BundleKept, FilesOf
  <2>2. QED
    BY <1>1, <1>3, <2>1 DEF Behind
<1>7. Ahead'
  <2>1. ASSUME NEW i \in DOMAIN Package[manifest], i > k, HalfThere(Package[manifest][i])'
        PROVE  Package[manifest][i] \in halves
    <3>1. Package[manifest][i].name # Package[manifest][k].name
      BY <1>1, <1>2, <2>1, SetupAssumption DEF Releases
    <3>2. Key(Package[manifest][i]) \in models
      BY <1>1, <1>3, <2>1, <3>1 DEF HalfThere, Key, Current
    <3>3. HalfThere(Package[manifest][i])
      BY <1>1, <1>4, <2>1, <3>2 DEF HalfThere, FilesOf
    <3>4. QED
      BY <1>2, <2>1, <3>3 DEF Ahead
  <2>2. QED
    BY <1>1, <1>2, <1>3, <2>1 DEF Ahead
<1>8. InHand'
  <2>1. ASSUME NEW j \in DOMAIN Package[manifest][k].files, j < command.file + 1
        PROVE  FileGot(Package[manifest][k], j)'
    <3>1. CASE j = command.file
      BY <1>1, <1>3, <3>1 DEF FileGot, Current
    <3>2. CASE j < command.file
      <4>1. FileGot(Package[manifest][k], j)
        BY <1>1, <1>2, <2>1, <3>2 DEF InHand
      <4>2. QED
        BY <1>4, <1>5, <4>1, Zenon DEF FileGot
    <3>3. QED
      BY <1>1, <1>2, <2>1, <3>1, <3>2, Manifests
  <2>2. QED
    BY <1>1, <1>3, <2>1 DEF InHand
<1>9. Installing'
  BY <1>1, <1>2, <1>3, <1>6, <1>7, <1>8 DEF Installing
<1>10. ModelsHeld' /\ Early' /\ Chosen'
  <2>1. ModelsHeld'
    BY <1>1, <1>3 DEF ModelsInv, ModelsHeld
  <2>2. Early' /\ Chosen'
    <3>1. command'.step = "models"
      BY <1>3
    <3>2. QED
      BY <3>1 DEF Early, Chosen
  <2>3. QED
    BY <2>1, <2>2
<1>11. QED
  BY <1>9, <1>10 DEF ModelsInv

LEMMA EndStep == ModelsInv /\ ModelsDone => ModelsInv'
<1> SUFFICES ASSUME ModelsInv, ModelsDone PROVE ModelsInv'
  OBVIOUS
<1>1. release' \in Releases /\ manifest' \in Releases \union {NoFile, Cut}
  BY DEF ModelsDone, ModelsInv, ModelsHeld, onDisk, setupFaults
<1>2. CASE Ends
  BY <1>1, <1>2, CommandEnds
<1>3. CASE GoOn("tls")
  BY <1>1, <1>3, CommandGoesOn
<1>4. QED
  BY <1>2, <1>3 DEF ModelsDone

LEMMA LateStep ==
  ASSUME ModelsInv,
         IssuePassthrough \/ IssueMitm \/ StartDaemon \/ CopyExtension \/ KillCommand \/ Upgrade
  PROVE  ModelsInv'
<1>1. release' \in Releases /\ manifest' \in Releases \union {NoFile, Cut}
  BY DEF ModelsInv, ModelsHeld, IssuePassthrough, IssueMitm, Issue, StartDaemon, CopyExtension, KillCommand,
         Upgrade, onDisk, setupFaults
<1>2. CASE Ends
  BY <1>1, <1>2, CommandEnds
<1>3. ASSUME NEW step \in {"opencode", "start", "extension"}, GoOn(step) PROVE ModelsInv'
  BY <1>1, <1>3, CommandGoesOn
<1>4. CASE IssuePassthrough \/ IssueMitm \/ StartDaemon
  BY <1>2, <1>3, <1>4 DEF IssuePassthrough, IssueMitm, Issue, StartDaemon
<1>5. CASE CopyExtension \/ KillCommand
  BY <1>2, <1>5 DEF CopyExtension, KillCommand, Killed, Ends
<1>6. CASE Upgrade
  BY <1>1, <1>6, CommandEnds DEF Upgrade, Ends
<1>7. QED
  BY <1>4, <1>5, <1>6

LEMMA ModelsStep ==
  ASSUME ModelsInv, [SetupNext]_setupVars
  PROVE  ModelsInv'
<1>1. CASE RunSetup \/ InstallExtension \/ \E force \in BOOLEAN : InstallModels(force)
  <2>1. CASE RunSetup
    BY <2>1, CommandBegins DEF RunSetup
  <2>2. CASE InstallExtension
    BY <2>2, CommandBegins DEF InstallExtension
  <2>3. ASSUME NEW force \in BOOLEAN, InstallModels(force) PROVE ModelsInv'
    BY <2>3, CommandBegins DEF InstallModels
  <2>4. QED
    BY <1>1, <2>1, <2>2, <2>3
<1>2. CASE CopyConfig \/ EnsureManifest \/ ReadManifest \/ SkipBundle \/ Fetch \/ BundleDone \/ ModelsDone
  BY <1>2, ConfigStep, ManifestStep, ReadManifestStep, SkipStep, FetchStep, DoneStep, EndStep
<1>3. CASE IssuePassthrough \/ IssueMitm \/ StartDaemon \/ CopyExtension \/ KillCommand \/ Upgrade
  BY <1>3, LateStep
<1>4. CASE WriteAuthority \/ SignLeaf \/ WriteLeaf \/ KillDaemon \/ UNCHANGED setupVars
  <2>1. UNCHANGED <<release, manifest, models, command, halves>>
    BY <1>4 DEF WriteAuthority, SignLeaf, WriteLeaf, KillDaemon, setupVars, onDisk, setupFaults
  <2>2. QED
    BY <2>1, ModelsSame
<1>5. QED
  BY <1>1, <1>2, <1>3, <1>4 DEF SetupNext, InstallStep

LEMMA ModelsAllWhole == ModelsInv => ModelsWhole
<1> SUFFICES ASSUME ModelsInv, command.step = "models", command.bundle > Len(Package[manifest]),
                    ~command.failed, NEW b \in ToSet(Package[manifest]), ~(FilesOf(b) \subseteq models)
             PROVE  b \in halves /\ ~command.force
  BY DEF ModelsWhole
<1>1. manifest \in Releases /\ command.bundle \in Nat /\ Behind
  BY DEF ModelsInv, Installing
<1>2. PICK i \in DOMAIN Package[manifest] : b = Package[manifest][i]
  BY DEF ToSet
<1>3. i < command.bundle
  BY <1>1, Manifests
<1>4. BundleKept(b)
  BY <1>1, <1>2, <1>3 DEF Behind
<1>5. QED
  BY <1>4 DEF BundleKept

(* Whatever is killed, and whatever download fails, in whatever order: a   *)
(* run that ends without a failure leaves no bundle cut that it was not    *)
(* handed so, and certificates that are whole belong to their keys.        *)
THEOREM SetupLeavesWhole == SetupSpec => []SetupSound
<1>1. SetupInit => CertInv /\ ModelsInv
  BY CertStart, ModelsStart
<1>2. CertInv /\ ModelsInv /\ [SetupNext]_setupVars => (CertInv /\ ModelsInv)'
  BY CertStep, ModelsStep
<1>3. CertInv /\ ModelsInv => SetupSound
  BY CertMatch, ModelsAllWhole DEF SetupSound
<1>4. QED
  BY <1>1, <1>2, <1>3, PTL DEF SetupSpec
=============================================================================
