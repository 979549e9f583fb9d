-------------------------- MODULE GatewayProofs ---------------------------
(***************************************************************************)
(* The gateway for any number of requests and events: permits and records  *)
(* of requests, permits of the dispatcher, and the outbox of observations. *)
(***************************************************************************)
EXTENDS GatewayRequests, GatewayDispatch, GatewayOutbox, FiniteSetTheorems, SequenceTheorems, TLAPS

-----------------------------------------------------------------------------
(* Requests and their permits (gateway/server.py, openai_facade.py).       *)
GwSpec == GwInit /\ [][GwNext]_gwVars

Ends == {"open", "refused", "rejected", "misread", "upstreamError", "raised", "answered", "unstarted",
         "streamed", "cut"}

(* The requests for which a permit is out.                                 *)
Out == {r \in Requests : rq[r] \in HoldsPermit \/ how[r] \in {"misread", "unstarted"}}

GwTypes ==
  /\ rq \in [Requests -> {"new", "over"} \union HoldsPermit] /\ how \in [Requests -> Ends]
  /\ got \in [Requests -> Nat] /\ heard \subseteq Requests
  /\ said \in [Requests -> {"none", "partial", "complete"}]
  /\ audit \in [Requests -> {"none", "complete", "failed", "cancelled"}]
  /\ writeFaults \in Nat

(* Where a request is says what is known of it: how it ended, that its     *)
(* message was recorded, that there is an answer to record.                *)
GwFlow ==
  \A r \in Requests :
    /\ how[r] = "open" <=> rq[r] # "over"
    /\ rq[r] \in HoldsPermit \ {"reading", "recording"} => r \in heard \/ writeFaults > 0
    /\ rq[r] \in {"answering", "auditing"} => got[r] > 0
    /\ said[r] # "none" => rq[r] \notin {"new", "reading", "recording"}

Permits == semTaken = Cardinality(Out)

GwInv == GwTypes /\ GwFlow /\ Permits /\ AuditTrue

LEMMA GwInvInit == GwInit => GwInv
<1> SUFFICES ASSUME GwInit PROVE GwInv
  OBVIOUS
<1>1. GwTypes /\ GwFlow /\ AuditTrue
  BY GatewayRequestsAssumption DEF GwInit, GwTypes, GwFlow, AuditTrue, Ends, HoldsPermit
<1>2. Out = {}
  BY DEF GwInit, Out, HoldsPermit
<1>3. Permits
  BY <1>2, FS_EmptySet DEF Permits, GwInit
<1>4. QED
  BY <1>1, <1>3 DEF GwInv

-----------------------------------------------------------------------------
LEMMA OutFinite == IsFiniteSet(Out)
  BY FS_Subset, GatewayRequestsAssumption DEF Out

LEMMA PermitKept ==
  ASSUME Permits, semTaken' = semTaken, Out' = Out
  PROVE  Permits'
  BY DEF Permits

LEMMA PermitTaken ==
  ASSUME Permits, NEW r \in Requests, r \notin Out, semTaken' = semTaken + 1, Out' = Out \union {r}
  PROVE  Permits'
<1>1. Cardinality(Out \union {r}) = Cardinality(Out) + 1
  BY OutFinite, FS_AddElement
<1>2. QED
  BY <1>1 DEF Permits

LEMMA PermitReturned ==
  ASSUME Permits, NEW r \in Requests, r \in Out, semTaken' = semTaken - 1, Out' = Out \ {r}
  PROVE  Permits'
<1>1. Cardinality(Out \ {r}) = Cardinality(Out) - 1
  BY OutFinite, FS_RemoveElement
<1>2. QED
  BY <1>1 DEF Permits

(* A request that goes on keeps what it holds, and one that ends releases  *)
(* it or ends in one of the two ways that do not.                          *)
LEMMA GoesOn ==
  ASSUME GwTypes, Permits, NEW r \in Requests, rq[r] \in HoldsPermit,
         NEW step \in HoldsPermit, Goto(r, step), semTaken' = semTaken
  PROVE  Permits'
<1>1. Out' = Out
  BY DEF Out, Goto, GwTypes
<1>2. QED
  BY <1>1, PermitKept

LEMMA EndsReleasing ==
  ASSUME GwTypes, Permits, NEW r \in Requests, rq[r] \in HoldsPermit,
         NEW outcome \in Ends \ {"misread", "unstarted"}, EndAndRelease(r, outcome)
  PROVE  Permits'
<1>1. r \in Out /\ "over" \notin HoldsPermit
  BY DEF Out, HoldsPermit
<1>2. Out' = Out \ {r}
  BY <1>1 DEF Out, EndAndRelease, End, GwTypes
<1>3. QED
  BY <1>1, <1>2, PermitReturned DEF EndAndRelease, Release

LEMMA EndsKeeping ==
  ASSUME GwTypes, Permits, NEW r \in Requests, rq[r] \in HoldsPermit,
         NEW outcome \in {"misread", "unstarted"}, End(r, outcome), semTaken' = semTaken
  PROVE  Permits'
<1>1. Out' = Out
  BY DEF Out, End, GwTypes
<1>2. QED
  BY <1>1, PermitKept

LEMMA PermitsStep == GwInv /\ [GwNext]_gwVars => Permits'
<1> SUFFICES ASSUME GwTypes, GwFlow, Permits, [GwNext]_gwVars
             PROVE  Permits'
  BY DEF GwInv
<1>1. CASE \/ GatewayStarts \/ GatewayBinds \/ GatewayReady \/ GatewayStops \/ GatewayStopped
           \/ UNCHANGED gwVars
  <2>1. semTaken' = semTaken /\ Out' = Out
    BY <1>1 DEF GatewayStarts, GatewayBinds, GatewayReady, GatewayStops, GatewayStopped, gwVars, Out
  <2>2. QED
    BY <2>1, PermitKept
<1>2. ASSUME NEW r \in Requests, Accept(r)
      PROVE  Permits'
  <2>1. rq[r] = "new" /\ how[r] = "open" /\ r \notin Out
    BY <1>2 DEF Accept, GwFlow, Out, HoldsPermit
  <2>2. CASE semTaken' = semTaken /\ End(r, "refused")
    <3>1. Out' = Out
      BY <2>1, <2>2 DEF End, Out, GwTypes, HoldsPermit
    <3>2. QED
      BY <2>2, <3>1, PermitKept
  <2>3. CASE semTaken' = semTaken + 1 /\ Goto(r, "reading")
    <3>1. Out' = Out \union {r}
      BY <2>3 DEF Goto, Out, GwTypes, HoldsPermit
    <3>2. QED
      BY <2>1, <2>3, <3>1, PermitTaken
  <2>4. QED
    BY <1>2, <2>2, <2>3 DEF Accept
<1>3. ASSUME NEW r \in Requests, ReadBody(r)
      PROVE  Permits'
  <2>1. rq[r] \in HoldsPermit /\ "recording" \in HoldsPermit /\ "rejected" \in Ends
    BY <1>3 DEF ReadBody, HoldsPermit, Ends
  <2>2. QED
    BY <1>3, <2>1, GoesOn, EndsKeeping, EndsReleasing DEF ReadBody
<1>4. ASSUME NEW r \in Requests, RecordUser(r)
      PROVE  Permits'
  BY <1>4, GoesOn DEF RecordUser, HoldsPermit
<1>5. ASSUME NEW r \in Requests, Inject(r)
      PROVE  Permits'
  BY <1>5, GoesOn DEF Inject, HoldsPermit, Goto
<1>6. ASSUME NEW r \in Requests, DispatchJson(r)
      PROVE  Permits'
  <2>1. /\ rq[r] \in HoldsPermit /\ "answering" \in HoldsPermit
        /\ {"upstreamError", "raised"} \subseteq Ends \ {"misread", "unstarted"}
    BY <1>6 DEF DispatchJson, HoldsPermit, Ends
  <2>2. QED
    BY <1>6, <2>1, GoesOn, EndsReleasing DEF DispatchJson
<1>7. ASSUME NEW r \in Requests, RecordAnswer(r)
      PROVE  Permits'
  BY <1>7, GoesOn DEF RecordAnswer, HoldsPermit
<1>8. ASSUME NEW r \in Requests, AuditAnswer(r)
      PROVE  Permits'
  BY <1>8, EndsReleasing DEF AuditAnswer, HoldsPermit, Ends
<1>9. ASSUME NEW r \in Requests, StreamStarts(r)
      PROVE  Permits'
  BY <1>9, GoesOn, EndsKeeping DEF StreamStarts, HoldsPermit
<1>10. ASSUME NEW r \in Requests, StreamChunk(r)
       PROVE  Permits'
  <2>1. semTaken' = semTaken /\ Out' = Out
    BY <1>10 DEF StreamChunk, Out
  <2>2. QED
    BY <2>1, PermitKept
<1>11. ASSUME NEW r \in Requests,
              StreamEnds(r) \/ StreamDispatchError(r) \/ StreamRaises(r) \/ StreamCut(r)
       PROVE  Permits'
  <2>1. /\ rq[r] \in HoldsPermit
        /\ \E outcome \in Ends \ {"misread", "unstarted"} : EndAndRelease(r, outcome)
    BY <1>11 DEF StreamEnds, StreamDispatchError, StreamRaises, StreamCut, HoldsPermit, Ends
  <2>2. QED
    BY <2>1, EndsReleasing
<1>12. QED
  BY <1>1, <1>2, <1>3, <1>4, <1>5, <1>6, <1>7, <1>8, <1>9, <1>10, <1>11 DEF GwNext

-----------------------------------------------------------------------------
LEMMA TypesStep == GwInv /\ [GwNext]_gwVars => GwTypes'
<1> SUFFICES ASSUME GwTypes, [GwNext]_gwVars
             PROVE  GwTypes'
  BY DEF GwInv
<1> USE GatewayRequestsAssumption
    DEF GwTypes, HoldsPermit, Ends, Goto, End, EndAndRelease, Server, Tables, WriteFails
<1>1. CASE \/ GatewayStarts \/ GatewayBinds \/ GatewayReady \/ GatewayStops \/ GatewayStopped
           \/ UNCHANGED gwVars
  BY <1>1 DEF GatewayStarts, GatewayBinds, GatewayReady, GatewayStops, GatewayStopped, gwVars
<1>2. ASSUME NEW r \in Requests,
             \/ Accept(r) \/ ReadBody(r) \/ RecordUser(r) \/ Inject(r) \/ RecordAnswer(r)
             \/ StreamStarts(r) \/ StreamChunk(r)
      PROVE  GwTypes'
  BY <1>2 DEF Accept, ReadBody, RecordUser, Inject, RecordAnswer, StreamStarts, StreamChunk
<1>3. ASSUME NEW r \in Requests, DispatchJson(r) \/ AuditAnswer(r)
      PROVE  GwTypes'
  BY <1>3 DEF DispatchJson, AuditAnswer, WriteAudit
<1>4. ASSUME NEW r \in Requests,
             StreamEnds(r) \/ StreamDispatchError(r) \/ StreamRaises(r) \/ StreamCut(r)
      PROVE  GwTypes'
  BY <1>4
     DEF StreamEnds, StreamDispatchError, StreamRaises, StreamCut, WriteBoth, WriteAudit, Finalize
<1>5. QED
  BY <1>1, <1>2, <1>3, <1>4 DEF GwNext

LEMMA FlowStep == GwInv /\ [GwNext]_gwVars => GwFlow'
<1> SUFFICES ASSUME GwTypes, GwFlow, [GwNext]_gwVars
             PROVE  GwFlow'
  BY DEF GwInv
<1> USE GatewayRequestsAssumption
    DEF GwTypes, GwFlow, HoldsPermit, Ends, Goto, End, EndAndRelease, Server, Tables, WriteFails
<1>1. CASE \/ GatewayStarts \/ GatewayBinds \/ GatewayReady \/ GatewayStops \/ GatewayStopped
           \/ UNCHANGED gwVars
  BY <1>1 DEF GatewayStarts, GatewayBinds, GatewayReady, GatewayStops, GatewayStopped, gwVars
<1>2. ASSUME NEW r \in Requests,
             \/ Accept(r) \/ ReadBody(r) \/ RecordUser(r) \/ Inject(r) \/ RecordAnswer(r)
             \/ StreamStarts(r) \/ StreamChunk(r)
      PROVE  GwFlow'
  BY <1>2 DEF Accept, ReadBody, RecordUser, Inject, RecordAnswer, StreamStarts, StreamChunk
<1>3. ASSUME NEW r \in Requests, DispatchJson(r) \/ AuditAnswer(r)
      PROVE  GwFlow'
  BY <1>3 DEF DispatchJson, AuditAnswer, WriteAudit
<1>4. ASSUME NEW r \in Requests,
             StreamEnds(r) \/ StreamDispatchError(r) \/ StreamRaises(r) \/ StreamCut(r)
      PROVE  GwFlow'
  BY <1>4
     DEF StreamEnds, StreamDispatchError, StreamRaises, StreamCut, WriteBoth, WriteAudit, Finalize
<1>5. QED
  BY <1>1, <1>2, <1>3, <1>4 DEF GwNext

LEMMA AuditStep == GwInv /\ [GwNext]_gwVars => AuditTrue'
<1> SUFFICES ASSUME GwTypes, GwFlow, AuditTrue, [GwNext]_gwVars
             PROVE  AuditTrue'
  BY DEF GwInv
<1> USE GatewayRequestsAssumption
    DEF GwTypes, GwFlow, AuditTrue, HoldsPermit, Ends, Goto, End, EndAndRelease, Server, Tables,
        WriteFails
<1>1. CASE \/ GatewayStarts \/ GatewayBinds \/ GatewayReady \/ GatewayStops \/ GatewayStopped
           \/ UNCHANGED gwVars
  BY <1>1 DEF GatewayStarts, GatewayBinds, GatewayReady, GatewayStops, GatewayStopped, gwVars
<1>2. ASSUME NEW r \in Requests,
             \/ Accept(r) \/ ReadBody(r) \/ RecordUser(r) \/ Inject(r) \/ RecordAnswer(r)
             \/ StreamStarts(r) \/ StreamChunk(r)
      PROVE  AuditTrue'
  BY <1>2 DEF Accept, ReadBody, RecordUser, Inject, RecordAnswer, StreamStarts, StreamChunk
<1>3. ASSUME NEW r \in Requests, DispatchJson(r) \/ AuditAnswer(r)
      PROVE  AuditTrue'
  BY <1>3 DEF DispatchJson, AuditAnswer, WriteAudit
<1>4. ASSUME NEW r \in Requests,
             StreamEnds(r) \/ StreamDispatchError(r) \/ StreamRaises(r) \/ StreamCut(r)
      PROVE  AuditTrue'
  BY <1>4
     DEF StreamEnds, StreamDispatchError, StreamRaises, StreamCut, WriteBoth, WriteAudit, Finalize
<1>5. QED
  BY <1>1, <1>2, <1>3, <1>4 DEF GwNext

LEMMA GwInvariant == GwSpec => []GwInv
<1>1. GwInv /\ [GwNext]_gwVars => GwInv'
  BY TypesStep, FlowStep, PermitsStep, AuditStep DEF GwInv
<1>2. QED
  BY <1>1, GwInvInit, PTL DEF GwSpec

(* Whatever bodies, providers, clients and tables do, a permit is out      *)
(* exactly for a request between acquire and release, or for one of the    *)
(* two ends that keep it, and the tables tell of a request what became of  *)
(* it (gateway/server.py, gateway/openai_facade.py).                       *)
THEOREM RequestsAlwaysSound == GwSpec => []RequestsSound
<1>1. GwInv => RequestsSound
  BY DEF GwInv, RequestsSound, PermitsConserved, Permits, Out
<1>2. QED
  BY <1>1, GwInvariant, PTL

-----------------------------------------------------------------------------
(* Dispatch permits (gateway/admission.py, execution.py, observer.py).     *)
DispatchSpec == DispatchInit /\ [][DispatchNext]_dispatchVars

MemoryPermits == WithPermit \intersect withMemory

DispatchTypes ==
  /\ dq \in [Calls -> {"new", "admitting", "injecting", "sending", "over"}]
  /\ withMemory \subseteq Calls /\ observing \subseteq Calls
  /\ drain \in {"no", "waiting", "cancelling", "done"}

Counters == total = Cardinality(WithPermit) /\ inMemory = Cardinality(MemoryPermits)

(* Once the drain has begun nothing is scheduled, and what it waits for is *)
(* all there is.                                                           *)
Registered ==
  /\ Cardinality(observing) <= MaxPending
  /\ drain # "no" => shutdown /\ observing = doomed
  /\ drain = "done" => observing = {}

DispatchInv == DispatchTypes /\ Counters /\ Registered

LEMMA DispatchInvInit == DispatchInit => DispatchInv
<1> SUFFICES ASSUME DispatchInit PROVE DispatchInv
  OBVIOUS
<1>1. WithPermit = {} /\ MemoryPermits = {}
  BY DEF DispatchInit, WithPermit, MemoryPermits
<1>2. Counters
  BY <1>1, FS_EmptySet DEF Counters, DispatchInit
<1>3. Registered
  BY FS_EmptySet, GatewayDispatchAssumption DEF Registered, DispatchInit
<1>4. QED
  BY <1>2, <1>3 DEF DispatchInv, DispatchInit, DispatchTypes

-----------------------------------------------------------------------------
LEMMA SetsFinite ==
  ASSUME DispatchTypes
  PROVE  /\ IsFiniteSet(WithPermit) /\ IsFiniteSet(MemoryPermits) /\ IsFiniteSet(observing)
         /\ Cardinality(observing) \in Nat
<1>1. WithPermit \subseteq Calls /\ MemoryPermits \subseteq Calls /\ observing \subseteq Calls
  BY DEF WithPermit, MemoryPermits, DispatchTypes
<1>2. QED
  BY <1>1, FS_Subset, FS_CardinalityType, GatewayDispatchAssumption

LEMMA CountersKept ==
  ASSUME Counters, UNCHANGED <<total, inMemory, WithPermit, MemoryPermits>>
  PROVE  Counters'
  BY DEF Counters

(* A request gets its permit in one or both of the counters it is counted  *)
(* in afterwards.                                                          *)
LEMMA DispatchTaken ==
  ASSUME DispatchTypes, Counters, NEW c \in Calls, dq[c] = "admitting",
         total' = total + 1, inMemory' = IF c \in withMemory THEN inMemory + 1 ELSE inMemory,
         withMemory' = withMemory, NEW step \in {"injecting", "sending"},
         dq' = [dq EXCEPT ![c] = step]
  PROVE  Counters'
<1>1. /\ c \notin WithPermit /\ WithPermit' = WithPermit \union {c}
      /\ c \notin MemoryPermits
      /\ MemoryPermits' = IF c \in withMemory THEN MemoryPermits \union {c} ELSE MemoryPermits
  BY DEF WithPermit, MemoryPermits, DispatchTypes
<1>2. /\ Cardinality(WithPermit \union {c}) = Cardinality(WithPermit) + 1
      /\ Cardinality(MemoryPermits \union {c}) = Cardinality(MemoryPermits) + 1
  BY <1>1, SetsFinite, FS_AddElement
<1>3. QED
  BY <1>1, <1>2 DEF Counters

LEMMA PermitReleased ==
  ASSUME DispatchTypes, Counters, NEW c \in Calls, dq[c] \in {"injecting", "sending"},
         ReleasePermit(c), withMemory' = withMemory, dq' = [dq EXCEPT ![c] = "over"]
  PROVE  Counters'
<1>1. /\ c \in WithPermit /\ WithPermit' = WithPermit \ {c}
      /\ c \in withMemory => c \in MemoryPermits
      /\ MemoryPermits' = IF c \in withMemory THEN MemoryPermits \ {c} ELSE MemoryPermits
  BY DEF WithPermit, MemoryPermits, DispatchTypes
<1>2. /\ Cardinality(WithPermit \ {c}) = Cardinality(WithPermit) - 1
      /\ c \in withMemory => Cardinality(MemoryPermits \ {c}) = Cardinality(MemoryPermits) - 1
  BY <1>1, SetsFinite, FS_RemoveElement
<1>3. QED
  BY <1>1, <1>2 DEF Counters, ReleasePermit

LEMMA CountersStep == DispatchInv /\ [DispatchNext]_dispatchVars => Counters'
<1> SUFFICES ASSUME DispatchTypes, Counters, [DispatchNext]_dispatchVars
             PROVE  Counters'
  BY DEF DispatchInv
<1>1. CASE UNCHANGED <<dq, withMemory, total, inMemory>>
  BY <1>1, CountersKept DEF WithPermit, MemoryPermits
<1>2. ASSUME NEW c \in Calls, PlanCall(c)
      PROVE  Counters'
  <2>1. /\ dq[c] = "new" /\ withMemory' \in {withMemory, withMemory \union {c}}
        /\ \E step \in {"over", "admitting"} : dq' = [dq EXCEPT ![c] = step]
        /\ UNCHANGED <<total, inMemory>>
    BY <1>2 DEF PlanCall
  <2>2. UNCHANGED <<WithPermit, MemoryPermits>>
    BY <2>1 DEF WithPermit, MemoryPermits, DispatchTypes
  <2>3. QED
    BY <2>1, <2>2, CountersKept
<1>3. ASSUME NEW c \in Calls, TryAcquire(c)
      PROVE  Counters'
  <2>1. CASE dq' = [dq EXCEPT ![c] = "over"] /\ UNCHANGED <<total, inMemory>>
    <3>1. dq[c] = "admitting" /\ withMemory' = withMemory
      BY <1>3 DEF TryAcquire
    <3>2. UNCHANGED <<WithPermit, MemoryPermits>>
      BY <2>1, <3>1 DEF WithPermit, MemoryPermits, DispatchTypes
    <3>3. QED
      BY <2>1, <3>2, CountersKept
  <2>2. CASE total' = total + 1
    BY <1>3, <2>2, DispatchTaken DEF TryAcquire, DispatchTypes
  <2>3. QED
    BY <1>3, <2>1, <2>2 DEF TryAcquire
<1>4. ASSUME NEW c \in Calls, InjectMemory(c)
      PROVE  Counters'
  <2>1. CASE dq' = [dq EXCEPT ![c] = "sending"] /\ UNCHANGED <<total, inMemory>>
    <3>1. dq[c] = "injecting" /\ withMemory' = withMemory
      BY <1>4 DEF InjectMemory
    <3>2. UNCHANGED <<WithPermit, MemoryPermits>>
      BY <2>1, <3>1 DEF WithPermit, MemoryPermits, DispatchTypes
    <3>3. QED
      BY <2>1, <3>2, CountersKept
  <2>2. CASE ReleasePermit(c) /\ dq' = [dq EXCEPT ![c] = "over"]
    BY <1>4, <2>2, PermitReleased DEF InjectMemory
  <2>3. QED
    BY <1>4, <2>1, <2>2 DEF InjectMemory
<1>5. ASSUME NEW c \in Calls, SendFails(c) \/ Answer(c)
      PROVE  Counters'
  BY <1>5, PermitReleased DEF SendFails, Answer
<1>6. CASE \/ DrainBegins \/ DrainTimesOut \/ DrainEnds \/ (\E c \in Calls : ObservationEnds(c))
           \/ UNCHANGED dispatchVars
  BY <1>1, <1>6 DEF DrainBegins, DrainTimesOut, DrainEnds, ObservationEnds, dispatchVars
<1>7. QED
  BY <1>2, <1>3, <1>4, <1>5, <1>6 DEF DispatchNext

-----------------------------------------------------------------------------
LEMMA DispatchTypesStep == DispatchInv /\ [DispatchNext]_dispatchVars => DispatchTypes'
<1> SUFFICES ASSUME DispatchTypes, [DispatchNext]_dispatchVars
             PROVE  DispatchTypes'
  BY DEF DispatchInv
<1>1. ASSUME NEW c \in Calls,
             PlanCall(c) \/ TryAcquire(c) \/ InjectMemory(c) \/ SendFails(c) \/ Answer(c)
      PROVE  DispatchTypes'
  BY <1>1 DEF DispatchTypes, PlanCall, TryAcquire, InjectMemory, SendFails, Answer, Schedule,
              Registry
<1>2. CASE \/ DrainBegins \/ DrainTimesOut \/ DrainEnds \/ (\E c \in Calls : ObservationEnds(c))
           \/ UNCHANGED dispatchVars
  BY <1>2 DEF DispatchTypes, DrainBegins, DrainTimesOut, DrainEnds, ObservationEnds, dispatchVars
<1>3. QED
  BY <1>1, <1>2 DEF DispatchNext

LEMMA RegisteredStep == DispatchInv /\ [DispatchNext]_dispatchVars => Registered'
<1> SUFFICES ASSUME DispatchTypes, Registered, [DispatchNext]_dispatchVars
             PROVE  Registered'
  BY DEF DispatchInv
<1>1. CASE UNCHANGED Registry
  BY <1>1 DEF Registered, Registry
<1>2. ASSUME NEW c \in Calls, PlanCall(c) \/ TryAcquire(c) \/ InjectMemory(c) \/ SendFails(c)
      PROVE  Registered'
  BY <1>1, <1>2 DEF PlanCall, TryAcquire, InjectMemory, SendFails
<1>3. ASSUME NEW c \in Calls, Answer(c)
      PROVE  Registered'
  <2>1. UNCHANGED <<shutdown, drain, doomed>>
    BY <1>3 DEF Answer
  <2>2. CASE observing' = observing
    BY <2>1, <2>2 DEF Registered
  <2>3. CASE ~shutdown /\ Cardinality(observing) < MaxPending /\ observing' = observing \union {c}
    <3>1. Cardinality(observing') \in {Cardinality(observing), Cardinality(observing) + 1}
      BY <2>3, SetsFinite, FS_AddElement
    <3>2. Cardinality(observing') <= MaxPending
      BY <2>3, <3>1, SetsFinite, GatewayDispatchAssumption
    <3>3. QED
      BY <2>1, <2>3, <3>2 DEF Registered
  <2>4. QED
    BY <1>3, <2>2, <2>3 DEF Answer, Schedule
<1>4. ASSUME NEW c \in Calls, ObservationEnds(c)
      PROVE  Registered'
  <2>1. Cardinality(observing \ {c}) = Cardinality(observing) - 1
    BY <1>4, SetsFinite, FS_RemoveElement DEF ObservationEnds
  <2>2. Cardinality(observing') <= MaxPending
    BY <1>4, <2>1, SetsFinite, GatewayDispatchAssumption DEF ObservationEnds, Registered
  <2>3. QED
    BY <1>4, <2>2 DEF ObservationEnds, Registered
<1>5. CASE DrainBegins \/ DrainTimesOut
  BY <1>5 DEF DrainBegins, DrainTimesOut, Registered
<1>6. CASE DrainEnds
  BY <1>6, FS_EmptySet, GatewayDispatchAssumption DEF DrainEnds, Registered
<1>7. CASE UNCHANGED dispatchVars
  BY <1>1, <1>7 DEF dispatchVars, Registry
<1>8. QED
  BY <1>2, <1>3, <1>4, <1>5, <1>6, <1>7 DEF DispatchNext

(* A dispatch permit is out exactly while its request is between acquire   *)
(* and exit, in both counters, however requests end or are cancelled; and  *)
(* no observation outlives drain() (gateway/admission.py, execution.py,    *)
(* observer.py).                                                           *)
THEOREM DispatchAlwaysSound == DispatchSpec => []DispatchSound
<1>1. DispatchInv /\ [DispatchNext]_dispatchVars => DispatchInv'
  BY DispatchTypesStep, CountersStep, RegisteredStep DEF DispatchInv
<1>2. DispatchInv => DispatchSound
  BY DEF DispatchInv, DispatchSound, Counters, MemoryPermits, Registered
<1>3. QED
  BY <1>1, <1>2, DispatchInvInit, PTL DEF DispatchSpec

-----------------------------------------------------------------------------
(* The outbox and its worker (gateway/outbox.py).                          *)
OutboxSpec == OutboxInit /\ [][OutboxNext]_outboxVars

(* A batch has a row once.                                                 *)
OutboxTypes ==
  /\ OutboxTypeOK
  /\ \A j, k \in DOMAIN todo : todo[j] = todo[k] => j = k

(* A row is a dead letter when its attempts are used up and not before,    *)
(* which a row that waits for the worker has not done yet.                 *)
RowsSound ==
  \A e \in Events :
    /\ epc[e] = "new" => view[e] = Absent /\ disk[e] = Absent /\ e \notin ToSet(todo)
    /\ view[e].state = "dead_letter" <=> view[e].attempts = MaxAttempts
    /\ disk[e].state = "dead_letter" <=> disk[e].attempts = MaxAttempts
    /\ disk[e].state = "dead_letter" => view[e].state = "dead_letter"
    /\ e \in ToSet(todo) /\ view[e].state = "dead_letter" => wpc = "retried" /\ e = Head(todo)
    /\ e \in ToSet(todo) /\ e = Head(todo) /\ wpc \in {"observed", "marked"} => observed[e] > 0

(* What a row of e may be without the event having been lost.              *)
Fine(row, e) == row.state = "pending" \/ observed[e] > 0 \/ row.state = "dead_letter"

(* As long as SQLite does not fail.                                        *)
Calm ==
  faults = 0 =>
    \A e \in Events :
      /\ epc[e] # "failed"
      /\ epc[e] \in {"inserted", "stored"} => Fine(view[e], e)
      /\ epc[e] = "stored" => Fine(disk[e], e)
      /\ disk[e].state = "delivered" => view[e].state \in {"delivered", "absent"}
      /\ e \in ToSet(todo) =>
           view[e].state = "pending" \/ (wpc \in {"marked", "retried"} /\ e = Head(todo))

(* What went wrong and has not been used up by a duplicate: a rollback     *)
(* that enqueue() still owes is not counted.                               *)
Failing == {e \in Events : epc[e] = "failed"}
Credit == mishapsObserved + 2 * faults + workerCancels + restarts - Cardinality(Failing)

(* The worker has shown e to the observer and has marked its row, or is    *)
(* about to: it does not show e again unless something goes wrong.         *)
JustShown(e) ==
  e \in ToSet(todo) /\ e = Head(todo) /\ (wpc = "observed" \/ (wpc = "marked" /\ view[e].state # "pending"))

(* Nothing need go wrong for the observer to see e once more.              *)
MayBeShown(e) ==
  ~JustShown(e) /\ (epc[e] = "new" \/ e \in ToSet(todo) \/ view[e].state = "pending")

ShownOnCredit ==
  \A e \in Events :
    /\ observed[e] <= 1 + Credit
    /\ MayBeShown(e) => observed[e] <= Credit

OutboxInv == OutboxTypes /\ RowsSound /\ Calm /\ ShownOnCredit

LEMMA OutboxNumbers == MaxAttempts \in Nat \ {0} /\ BatchLimit \in Nat \ {0}
  BY AttemptsAssumption

LEMMA NoRows == ToSet(<<>>) = {} /\ <<>> \in Seq(Events) /\ \A j, k \in DOMAIN <<>> : <<>>[j] = <<>>[k] => j = k
  BY DEF ToSet

LEMMA FrontOfBatch ==
  ASSUME OutboxTypes, todo # <<>>
  PROVE  /\ Head(todo) \in Events /\ Head(todo) \in ToSet(todo)
         /\ Tail(todo) \in Seq(Events) /\ ToSet(Tail(todo)) = ToSet(todo) \ {Head(todo)}
         /\ \A j, k \in DOMAIN Tail(todo) : Tail(todo)[j] = Tail(todo)[k] => j = k
         /\ Tail(todo) = <<>> <=> Len(todo) = 1
<1> DEFINE s == todo  t == Tail(todo)
<1>1. s \in Seq(Events) /\ s # <<>> /\ \A j, k \in DOMAIN s : s[j] = s[k] => j = k
  BY DEF OutboxTypes, OutboxTypeOK
<1>2. Head(s) = s[1]
  OBVIOUS
<1>3. t \in Seq(Events) /\ Len(t) = Len(s) - 1 /\ \A i \in 1..Len(t) : t[i] = s[i + 1]
  BY <1>1, HeadTailProperties
<1> HIDE DEF s, t
<1>4. DOMAIN s = 1..Len(s) /\ DOMAIN t = 1..Len(t) /\ Len(s) \in Nat /\ Len(t) \in Nat /\ Len(s) # 0 /\ \A i \in 1..Len(s) : s[i] \in Events
  BY <1>1, <1>3, LenProperties
<1>5. 1 \in DOMAIN s /\ s[1] \in Events
  BY <1>4
<1>6. Head(s) \in ToSet(s)
  BY <1>2, <1>5 DEF ToSet
<1>7. ToSet(t) = ToSet(s) \ {s[1]}
  <2>1. ASSUME NEW i \in 1..Len(t) PROVE t[i] \in ToSet(s) \ {s[1]}
    <3>1. i + 1 \in DOMAIN s /\ i + 1 # 1 /\ t[i] = s[i + 1]
      BY <1>3, <1>4
    <3>2. QED
      BY <1>1, <1>5, <3>1 DEF ToSet
  <2>2. ASSUME NEW i \in 1..Len(s), s[i] # s[1] PROVE s[i] \in ToSet(t)
    <3>1. i - 1 \in 1..Len(t) /\ (i - 1) + 1 = i
      BY <1>3, <1>4, <2>2
    <3>2. t[i - 1] = s[i] /\ i - 1 \in DOMAIN t
      BY <1>3, <1>4, <3>1
    <3>3. QED
      BY <3>2 DEF ToSet
  <2>3. QED
    BY <1>4, <2>1, <2>2 DEF ToSet
<1>8. ASSUME NEW j \in DOMAIN t, NEW k \in DOMAIN t, t[j] = t[k] PROVE j = k
  <2>1. j + 1 \in DOMAIN s /\ k + 1 \in DOMAIN s /\ s[j + 1] = s[k + 1] /\ j \in Nat /\ k \in Nat
    BY <1>3, <1>4, <1>8
  <2>2. j + 1 = k + 1
    BY <1>1, <2>1
  <2>3. QED
    BY <2>1, <2>2
<1>9. t = <<>> <=> Len(s) = 1
  BY <1>3, <1>4
<1>10. QED
  BY <1>2, <1>3, <1>5, <1>6, <1>7, <1>8, <1>9 DEF s, t

LEMMA RowDone ==
  ASSUME OutboxTypes, todo # <<>>, NextRow
  PROVE  /\ todo' \in Seq(Events) /\ ToSet(todo') = ToSet(todo) \ {Head(todo)}
         /\ \A j, k \in DOMAIN todo' : todo'[j] = todo'[k] => j = k
         /\ wpc' \in {"fetch", "deliver"} /\ (todo' = <<>> <=> wpc' = "fetch")
  BY FrontOfBatch DEF NextRow

LEMMA BatchFetched ==
  ASSUME OutboxTypes, Ready # {}, NEW s \in Batches
  PROVE  /\ s \in Seq(Events) /\ s # <<>> /\ ToSet(s) \subseteq Ready
         /\ \A j, k \in DOMAIN s : s[j] = s[k] => j = k
<1> DEFINE n == IF Cardinality(Ready) < BatchLimit THEN Cardinality(Ready) ELSE BatchLimit
<1>1. PICK S \in kSubset(n, Ready) : s \in SetToSeqs(S)
  BY DEF Batches
<1>2. IsFiniteSet(Ready) /\ Cardinality(Ready) \in Nat \ {0}
  <2>1. IsFiniteSet(Ready)
    BY EventsAssumption, FS_Subset DEF Ready
  <2>2. QED
    BY <2>1, FS_CardinalityType, FS_EmptySet
<1>3. n \in Nat \ {0}
  BY <1>2, OutboxNumbers
<1> HIDE DEF n
<1>4. S \subseteq Ready /\ Cardinality(S) = n
  BY <1>1 DEF kSubset
<1>5. s \in [1..n -> S] /\ \A i, j \in 1..n : i # j => s[i] # s[j]
  BY <1>1, <1>4 DEF SetToSeqs
<1>6. s \in Seq(Events) /\ DOMAIN s = 1..n
  <2>1. S \subseteq Events
    BY <1>4 DEF Ready
  <2>2. QED
    BY <1>3, <1>5, <2>1
<1>7. s # <<>>
  BY <1>3, <1>6
<1>8. ToSet(s) \subseteq Ready
  BY <1>4, <1>5, <1>6 DEF ToSet
<1>9. QED
  BY <1>5, <1>6, <1>7, <1>8

LEMMA OutboxInitial == OutboxInit => OutboxInv
<1> SUFFICES ASSUME OutboxInit PROVE OutboxInv
  OBVIOUS
<1>1. Absent \in Row /\ Absent.state = "absent" /\ Absent.attempts # MaxAttempts
  BY OutboxNumbers DEF Absent, Row
<1>2. OutboxTypes
  <2>1. draining \in BOOLEAN
    BY Zenon DEF OutboxInit
  <2>2. QED
    BY <1>1, <2>1 DEF OutboxInit, OutboxTypes, OutboxTypeOK
<1>3. RowsSound
  BY <1>1, NoRows DEF OutboxInit, RowsSound
<1>4. Calm
  BY <1>1, NoRows DEF OutboxInit, Calm
<1>5. Credit = 0
  <2>1. Failing = {}
    BY DEF OutboxInit, Failing
  <2>2. QED
    BY <2>1, FS_EmptySet DEF OutboxInit, Credit
<1>6. ShownOnCredit
  BY <1>5 DEF OutboxInit, ShownOnCredit
<1>7. QED
  BY <1>2, <1>3, <1>4, <1>6 DEF OutboxInv

-----------------------------------------------------------------------------
(* The row of e in the hands of the worker is not a dead letter, so the    *)
(* attempt that just failed may be counted.                                *)
LEMMA AnotherAttempt ==
  ASSUME OutboxInv, wpc = "failed"
  PROVE  /\ Head(todo) \in Events /\ Head(todo) \in ToSet(todo)
         /\ view[Head(todo)].state # "dead_letter" /\ disk[Head(todo)].state # "dead_letter"
         /\ view[Head(todo)].attempts + 1 \in 0..MaxAttempts
<1>1. todo # <<>>
  BY DEF OutboxInv, OutboxTypes, OutboxTypeOK
<1>2. Head(todo) \in Events /\ Head(todo) \in ToSet(todo)
  BY <1>1, FrontOfBatch DEF OutboxInv
<1>3. view[Head(todo)].state # "dead_letter" /\ disk[Head(todo)].state # "dead_letter" /\ view[Head(todo)].attempts # MaxAttempts
  BY <1>2 DEF OutboxInv, RowsSound
<1>4. view[Head(todo)].attempts \in 0..MaxAttempts
  BY <1>2 DEF OutboxInv, OutboxTypes, OutboxTypeOK, Row
<1>5. QED
  BY <1>2, <1>3, <1>4, OutboxNumbers

LEMMA RowUpdated ==
  ASSUME OutboxTypes, NEW e \in Events, NEW state \in {"pending", "delivered", "dead_letter"}, NEW n \in 0..MaxAttempts,
         Update(e, state, n)
  PROVE  /\ view' \in [Events -> Row]
         /\ view[e].state = "absent" => view' = view
         /\ view[e].state # "absent" => view'[e].state = state /\ view'[e].attempts = n
         /\ \A f \in Events : f # e => view'[f] = view[f]
<1>1. view \in [Events -> Row] /\ [state |-> state, attempts |-> n] \in Row
  BY DEF OutboxTypes, OutboxTypeOK, Row
<1>2. QED
  BY <1>1 DEF Update

LEMMA OutboxTypesStep == ASSUME OutboxInv, [OutboxNext]_outboxVars PROVE OutboxTypes'
<1> USE DEF OutboxInv
<1>0. OutboxTypes /\ OutboxTypeOK
  BY DEF OutboxTypes
<1>1. view' \in [Events -> Row] /\ disk' \in [Events -> Row]
  <2>0. view \in [Events -> Row] /\ disk \in [Events -> Row] /\ Absent \in Row
    BY <1>0, OutboxNumbers DEF OutboxTypeOK, Absent, Row
  <2>1. ASSUME NEW e \in Events, OutboxInsert(e) PROVE view' \in [Events -> Row] /\ disk' \in [Events -> Row]
    <3>1. [state |-> "pending", attempts |-> 0] \in Row
      BY OutboxNumbers DEF Row
    <3>2. QED
      BY <2>0, <2>1, <3>1 DEF OutboxInsert
  <2>2. CASE MarkDelivered
    <3>1. wpc = "observed" /\ disk' = disk /\ (view' = view \/ Update(Head(todo), "delivered", view[Head(todo)].attempts))
      BY <2>2 DEF MarkDelivered
    <3>2. Head(todo) \in Events
      BY <1>0, <3>1, FrontOfBatch DEF OutboxTypeOK
    <3>3. view[Head(todo)].attempts \in 0..MaxAttempts
      BY <2>0, <3>2 DEF Row
    <3>4. QED
      BY <1>0, <2>0, <3>1, <3>2, <3>3, RowUpdated
  <2>3. CASE MarkRetry
    <3> DEFINE n == view[Head(todo)].attempts + 1
    <3>1. wpc = "failed" /\ disk' = disk
          /\ (view' = view \/ Update(Head(todo), IF n >= MaxAttempts THEN "dead_letter" ELSE "pending", n))
      BY <2>3 DEF MarkRetry
    <3>2. Head(todo) \in Events /\ n \in 0..MaxAttempts
      BY <3>1, AnotherAttempt
    <3> HIDE DEF n
    <3>3. QED
      BY <1>0, <2>0, <3>1, <3>2, RowUpdated
  <2>4. CASE Cleanup
    BY <2>0, <2>4 DEF Cleanup
  <2>5. CASE ~(MarkDelivered \/ MarkRetry \/ Cleanup \/ \E e \in Events : OutboxInsert(e))
    <3>1. view' \in {view, disk} /\ disk' \in {view, disk}
      BY <2>5 DEF OutboxNext, Worker, outboxVars, outsideVars, InsertCommit, Rollback, BackoffOver, Fetch, Exit, Pipeline,
         MarkCommit, RetryCommit, OtherCommit, StopServer, CancelWorker, OutboxCrash, Commit, CommitFails
    <3>2. QED
      BY <2>0, <3>1
  <2>6. QED
    BY <2>1, <2>2, <2>3, <2>4, <2>5
<1>2. draining' \in BOOLEAN
  <2>1. draining' = draining \/ draining' = TRUE \/ draining' = FALSE
    BY DEF OutboxNext, Worker, outboxVars, outsideVars, OutboxInsert, InsertCommit, Rollback, BackoffOver, Fetch, Exit, Pipeline,
       MarkDelivered, MarkCommit, MarkRetry, RetryCommit, Cleanup, OtherCommit, StopServer, CancelWorker, OutboxCrash
  <2>2. draining \in BOOLEAN
    BY <1>0 DEF OutboxTypeOK
  <2>3. QED
    BY <2>1, <2>2, Zenon
<1>3. /\ mishapsObserved' \in Nat /\ faults' \in Nat /\ workerCancels' \in Nat /\ restarts' \in Nat
  <2>1. /\ mishapsObserved' \in {mishapsObserved, mishapsObserved + 1} /\ faults' \in {faults, faults + 1}
        /\ workerCancels' \in {workerCancels, workerCancels + 1} /\ restarts' \in {restarts, restarts + 1}
    BY DEF OutboxNext, Worker, outboxVars, outsideVars, OutboxInsert, InsertCommit, Rollback, BackoffOver, Fetch, Exit, Pipeline,
       MarkDelivered, MarkCommit, MarkRetry, RetryCommit, Cleanup, OtherCommit, StopServer, CancelWorker, OutboxCrash,
       Fault, Commit, CommitFails
  <2>2. QED
    BY <1>0, <2>1 DEF OutboxTypeOK
<1>4. observed' \in [Events -> Nat]
  <2>1. observed' = observed \/ (wpc = "deliver" /\ Observes(Head(todo)))
    BY DEF OutboxNext, Worker, outboxVars, outsideVars, OutboxInsert, InsertCommit, Rollback, BackoffOver, Fetch, Exit, Pipeline,
       MarkDelivered, MarkCommit, MarkRetry, RetryCommit, Cleanup, OtherCommit, StopServer, CancelWorker, OutboxCrash, CutOff
  <2>2. QED
    BY <1>0, <2>1 DEF OutboxTypeOK, Observes
<1>5. backedOff' \subseteq Events
  <2>1. CASE MarkRetry
    BY <1>0, <2>1, AnotherAttempt DEF MarkRetry, OutboxTypeOK
  <2>2. CASE ~MarkRetry
    <3>1. backedOff' \subseteq backedOff
      BY <2>2 DEF OutboxNext, Worker, outboxVars, outsideVars, OutboxInsert, InsertCommit, Rollback, BackoffOver, Fetch, Exit,
         Pipeline, MarkDelivered, MarkCommit, RetryCommit, Cleanup, OtherCommit, StopServer, CancelWorker, OutboxCrash
    <3>2. QED
      BY <1>0, <3>1 DEF OutboxTypeOK
  <2>3. QED
    BY <2>1, <2>2
<1>6. epc' \in [Events -> {"new", "inserted", "failed", "stored", "dropped"}]
  <2>1. CASE OutboxCrash
    BY <1>0, <2>1 DEF OutboxCrash, OutboxTypeOK
  <2>2. ASSUME NEW e \in Events, OutboxInsert(e) \/ InsertCommit(e) \/ Rollback(e)
        PROVE  epc' \in [Events -> {"new", "inserted", "failed", "stored", "dropped"}]
    BY <1>0, <2>2 DEF OutboxInsert, InsertCommit, Rollback, OutboxTypeOK
  <2>3. CASE ~(OutboxCrash \/ \E e \in Events : OutboxInsert(e) \/ InsertCommit(e) \/ Rollback(e))
    <3>1. epc' = epc
      BY <2>3 DEF OutboxNext, Worker, outboxVars, outsideVars, BackoffOver, Fetch, Exit, Pipeline,
         MarkDelivered, MarkCommit, MarkRetry, RetryCommit, Cleanup, OtherCommit, StopServer, CancelWorker
    <3>2. QED
      BY <1>0, <3>1 DEF OutboxTypeOK
  <2>4. QED
    BY <2>1, <2>2, <2>3
<1>7. /\ wpc' \in {"fetch", "deliver", "observed", "marked", "failed", "retried", "stopped"}
      /\ todo' \in Seq(Events) /\ (todo' = <<>> <=> wpc' \in {"fetch", "stopped"})
      /\ \A j, k \in DOMAIN todo' : todo'[j] = todo'[k] => j = k
  <2>0. /\ wpc \in {"fetch", "deliver", "observed", "marked", "failed", "retried", "stopped"}
        /\ todo \in Seq(Events) /\ (todo = <<>> <=> wpc \in {"fetch", "stopped"})
        /\ \A j, k \in DOMAIN todo : todo[j] = todo[k] => j = k
    BY DEF OutboxTypes, OutboxTypeOK
  <2>1. CASE Fetch
    BY <1>0, <2>1, BatchFetched DEF Fetch
  <2>2. CASE todo' = <<>> /\ wpc' \in {"fetch", "stopped"}
    BY <2>2, NoRows
  <2>3. CASE todo # <<>> /\ NextRow
    BY <1>0, <2>3, RowDone
  <2>4. CASE todo' = todo /\ wpc' = wpc
    BY <2>0, <2>4
  <2>5. CASE todo' = todo /\ wpc \notin {"fetch", "stopped"} /\ wpc' \in {"observed", "marked", "failed", "retried"}
    BY <2>0, <2>5
  <2>6. CASE todo' = todo /\ wpc = "fetch" /\ wpc' = "stopped"
    BY <2>0, <2>6
  <2>7. CASE MarkCommit \/ RetryCommit
    <3>1. todo # <<>> /\ wpc \in {"marked", "retried"}
      BY <2>0, <2>7 DEF MarkCommit, RetryCommit
    <3>2. NextRow \/ (wpc' = "failed" /\ todo' = todo) \/ (todo' = <<>> /\ wpc' = "fetch")
      BY <2>7 DEF MarkCommit, RetryCommit, AbandonBatch
    <3>3. QED
      BY <2>2, <2>3, <2>5, <3>1, <3>2
  <2>8. CASE ~(Fetch \/ MarkCommit \/ RetryCommit)
    <3>1. \/ todo' = <<>> /\ wpc' \in {"fetch", "stopped"}
          \/ todo' = todo /\ wpc' = wpc
          \/ todo' = todo /\ wpc \notin {"fetch", "stopped"} /\ wpc' \in {"observed", "marked", "failed", "retried"}
          \/ todo' = todo /\ wpc = "fetch" /\ wpc' = "stopped"
      BY <2>8 DEF OutboxNext, Worker, outboxVars, outsideVars, OutboxInsert, InsertCommit, Rollback, BackoffOver, Exit, Pipeline,
       MarkDelivered, MarkRetry, Cleanup, OtherCommit, StopServer, CancelWorker, OutboxCrash, CutOff, AbandonBatch
    <3>2. QED
      BY <2>2, <2>4, <2>5, <2>6, <3>1
  <2>9. QED
    BY <2>1, <2>7, <2>8
<1>8. QED
  BY <1>1, <1>2, <1>3, <1>4, <1>5, <1>6, <1>7 DEF OutboxTypes, OutboxTypeOK

(* What may become of the two views of the table by commits and rollbacks. *)
Settles == <<view', disk'>> \in {<<view, disk>>, <<view, view>>, <<disk, disk>>}

LEMMA RowsSoundWhenSettled ==
  ASSUME OutboxInv, Settles, observed' = observed,
         \A e \in Events : epc'[e] = "new" => epc[e] = "new",
         todo' = <<>> \/ (todo' = todo /\ (wpc' = wpc \/ wpc \in {"fetch", "stopped"}))
  PROVE  RowsSound'
<1>1. CASE todo' = <<>>
  BY <1>1, NoRows DEF OutboxInv, RowsSound, Settles
<1>2. CASE todo' = todo /\ wpc' = wpc
  BY <1>2 DEF OutboxInv, RowsSound, Settles
<1>3. CASE todo' = todo /\ wpc \in {"fetch", "stopped"}
  <2>1. ToSet(todo) = {}
    BY <1>3, NoRows DEF OutboxInv, OutboxTypes, OutboxTypeOK
  <2>2. QED
    BY <1>3, <2>1 DEF OutboxInv, RowsSound, Settles
<1>4. QED
  BY <1>1, <1>2, <1>3

LEMMA RowsSoundStep == ASSUME OutboxInv, [OutboxNext]_outboxVars PROVE RowsSound'
<1>0. OutboxTypes /\ OutboxTypeOK /\ RowsSound
  BY DEF OutboxInv, OutboxTypes
<1>1. ASSUME NEW e \in Events, OutboxInsert(e) PROVE RowsSound'
  <2>0. UNCHANGED <<disk, wpc, todo, observed>> /\ epc[e] = "new" /\ view[e] = Absent /\ disk[e] = Absent /\ e \notin ToSet(todo)
        /\ epc' \in [Events -> {"new", "inserted", "failed", "stored", "dropped"}]
        /\ \A f \in Events : (f # e => epc'[f] = epc[f]) /\ epc'[e] # "new"
    BY <1>0, <1>1 DEF OutboxInsert, RowsSound, outsideVars, OutboxTypeOK
  <2>1. CASE view' = [view EXCEPT ![e] = [state |-> "pending", attempts |-> 0]]
    <3>1. /\ view'[e].state = "pending" /\ view'[e].attempts = 0 /\ disk[e].state = "absent" /\ 0 # MaxAttempts
          /\ \A f \in Events : f # e => view'[f] = view[f]
      BY <1>0, <2>0, <2>1, OutboxNumbers DEF OutboxTypeOK, Absent
    <3>2. QED
      BY <1>0, <2>0, <3>1 DEF RowsSound, Absent
  <2>2. CASE view' = view
    BY <1>0, <2>0, <2>2 DEF RowsSound
  <2>3. QED
    BY <1>1, <2>1, <2>2 DEF OutboxInsert
<1>2. ASSUME NEW e \in Events, InsertCommit(e) \/ Rollback(e) \/ BackoffOver(e) PROVE RowsSound'
  BY <1>0, <1>2, RowsSoundWhenSettled
  DEF InsertCommit, Rollback, BackoffOver, Commit, CommitFails, Settles, OutboxTypeOK, outsideVars
<1>3. CASE Exit \/ OtherCommit \/ StopServer \/ UNCHANGED outboxVars
  BY <1>0, <1>3, RowsSoundWhenSettled DEF Exit, OtherCommit, StopServer, Commit, Settles, OutboxTypeOK, outboxVars, outsideVars
<1>4. CASE Fetch
  <2>1. todo' \in Batches /\ Ready # {} /\ wpc' = "deliver" /\ UNCHANGED <<view, disk, epc, observed>>
    BY <1>4 DEF Fetch
  <2>2. \A e \in ToSet(todo') : view[e].state = "pending"
    BY <1>0, <2>1, BatchFetched DEF Ready
  <2>3. Absent.state # "pending"
    BY DEF Absent
  <2>4. QED
    BY <1>0, <2>1, <2>2, <2>3 DEF RowsSound
<1>5. CASE Pipeline
  <2>1. wpc = "deliver" /\ UNCHANGED <<view, disk, epc, todo>> /\ wpc' \in {"observed", "failed"}
        /\ (observed' = observed \/ Observes(Head(todo))) /\ (wpc' = "observed" => Observes(Head(todo)))
    BY <1>5 DEF Pipeline
  <2>2. Head(todo) \in Events
    BY <1>0, <2>1, FrontOfBatch DEF OutboxTypeOK
  <2>3. wpc' = "observed" => observed'[Head(todo)] > 0
    BY <1>0, <2>1, <2>2 DEF Observes, OutboxTypeOK
  <2>4. QED
    BY <1>0, <2>1, <2>3 DEF RowsSound
<1>6. CASE MarkDelivered
  <2>1. wpc = "observed" /\ UNCHANGED <<disk, epc, todo, observed>> /\ wpc' \in {"marked", "failed"}
    BY <1>6 DEF MarkDelivered
  <2>2. Head(todo) \in Events /\ Head(todo) \in ToSet(todo)
    BY <1>0, <2>1, FrontOfBatch DEF OutboxTypeOK
  <2>3. CASE view' = view
    BY <1>0, <2>1, <2>2, <2>3 DEF RowsSound
  <2>4. CASE Update(Head(todo), "delivered", view[Head(todo)].attempts)
    <3> DEFINE h == Head(todo)
    <3>1. view[h].attempts \in 0..MaxAttempts
      BY <1>0, <2>2 DEF OutboxTypeOK, Row
    <3>2. view[h].state # "dead_letter" /\ disk[h].state # "dead_letter" /\ epc[h] # "new"
      BY <1>0, <2>1, <2>2 DEF RowsSound
    <3>3. view'[h].state # "dead_letter" /\ view'[h].attempts = view[h].attempts
          /\ \A f \in Events : f # h => view'[f] = view[f]
      BY <1>0, <2>2, <2>4, <3>1, <3>2, RowUpdated
    <3> HIDE DEF h
    <3>4. h \in Events /\ h = Head(todo)
      BY <2>2 DEF h
    <3>5. QED
      BY <1>0, <2>1, <3>2, <3>3, <3>4 DEF RowsSound
  <2>5. QED
    BY <1>6, <2>3, <2>4 DEF MarkDelivered
<1>7. CASE MarkRetry
  <2> DEFINE h == Head(todo)
             n == view[h].attempts + 1
  <2>1. wpc = "failed" /\ UNCHANGED <<disk, epc, observed>>
    BY <1>7 DEF MarkRetry
  <2>2. h \in Events /\ h \in ToSet(todo) /\ view[h].state # "dead_letter" /\ disk[h].state # "dead_letter" /\ n \in 0..MaxAttempts
    BY <2>1, AnotherAttempt
  <2>3. CASE todo' = <<>> /\ view' = view
    BY <1>0, <2>1, <2>3, NoRows DEF RowsSound
  <2>4. CASE Update(h, IF n >= MaxAttempts THEN "dead_letter" ELSE "pending", n) /\ wpc' = "retried" /\ todo' = todo
    <3>1. epc[h] # "new" /\ (view[h].state = "absent" => view[h].attempts # MaxAttempts)
      BY <1>0, <2>2 DEF RowsSound
    <3>2. h = Head(todo) /\ (n >= MaxAttempts <=> n = MaxAttempts)
      BY <2>2, OutboxNumbers
    <3> HIDE DEF h, n
    <3>3. /\ view'[h].state = "dead_letter" <=> view'[h].attempts = MaxAttempts
          /\ \A f \in Events : f # h => view'[f] = view[f]
      BY <1>0, <2>2, <2>4, <3>1, <3>2, RowUpdated
    <3>4. QED
      BY <1>0, <2>1, <2>2, <2>4, <3>1, <3>2, <3>3 DEF RowsSound
  <2>5. QED
    BY <1>7, <2>3, <2>4 DEF MarkRetry, AbandonBatch
<1>8. CASE MarkCommit \/ RetryCommit
  <2>1. todo # <<>> /\ UNCHANGED <<epc, observed>> /\ Settles
    BY <1>0, <1>8 DEF MarkCommit, RetryCommit, Commit, CommitFails, Settles, OutboxTypeOK
  <2>2. CASE NextRow
    <3>1. ToSet(todo') = ToSet(todo) \ {Head(todo)} /\ wpc' \in {"fetch", "deliver"}
      BY <1>0, <2>1, <2>2, RowDone
    <3>2. QED
      BY <1>0, <2>1, <3>1 DEF RowsSound, Settles
  <2>3. CASE AbandonBatch
    BY <1>0, <2>1, <2>3, RowsSoundWhenSettled DEF AbandonBatch
  <2>4. CASE wpc = "marked" /\ wpc' = "failed" /\ todo' = todo
    BY <1>0, <2>1, <2>4 DEF RowsSound, Settles
  <2>5. QED
    BY <1>8, <2>2, <2>3, <2>4 DEF MarkCommit, RetryCommit
<1>9. CASE Cleanup
  <2>1. UNCHANGED <<disk, epc, wpc, todo, observed>>
    BY <1>9 DEF Cleanup
  <2>2. \A e \in Events : view'[e] = view[e] \/ (view'[e] = Absent /\ view[e].state = "delivered")
    BY <1>9 DEF Cleanup
  <2>3. Absent.state = "absent" /\ Absent.attempts # MaxAttempts
    BY OutboxNumbers DEF Absent
  <2>4. QED
    BY <1>0, <2>1, <2>2, <2>3 DEF RowsSound
<1>10. CASE CancelWorker \/ OutboxCrash
  <2>0. todo' = <<>> /\ Settles /\ \A e \in Events : epc'[e] = "new" => epc[e] = "new"
    BY <1>0, <1>10 DEF CancelWorker, OutboxCrash, CutOff, Settles, OutboxTypeOK
  <2>1. QED
    BY <1>0, <2>0, NoRows DEF RowsSound, Settles
<1>11. QED
  BY <1>1, <1>2, <1>3, <1>4, <1>5, <1>6, <1>7, <1>8, <1>9, <1>10 DEF OutboxNext, Worker

(* Without errors of SQLite a step does not take that branch.              *)
LEMMA FaultsGrow ==
  ASSUME OutboxInv, [OutboxNext]_outboxVars
  PROVE  /\ faults' \in {faults, faults + 1} /\ (faults' = 0 => faults = 0 /\ ~Fault)
         /\ \A e \in Events : observed'[e] >= observed[e]
<1>0. faults \in Nat /\ observed \in [Events -> Nat]
  BY DEF OutboxInv, OutboxTypes, OutboxTypeOK
<1>1. faults' \in {faults, faults + 1}
  BY DEF OutboxNext, Worker, outboxVars, outsideVars, OutboxInsert, InsertCommit, Rollback, BackoffOver, Fetch, Exit, Pipeline,
     MarkDelivered, MarkCommit, MarkRetry, RetryCommit, Cleanup, OtherCommit, StopServer, CancelWorker, OutboxCrash,
     Fault, Commit, CommitFails
<1>2. observed' = observed \/ (wpc = "deliver" /\ Observes(Head(todo)))
  BY DEF OutboxNext, Worker, outboxVars, outsideVars, OutboxInsert, InsertCommit, Rollback, BackoffOver, Fetch, Exit, Pipeline,
     MarkDelivered, MarkCommit, MarkRetry, RetryCommit, Cleanup, OtherCommit, StopServer, CancelWorker, OutboxCrash, CutOff
<1>3. QED
  BY <1>0, <1>1, <1>2 DEF Observes, Fault

LEMMA CalmStep == ASSUME OutboxInv, [OutboxNext]_outboxVars PROVE Calm'
<1> SUFFICES ASSUME faults' = 0
             PROVE  \A e \in Events :
                      /\ epc'[e] # "failed"
                      /\ epc'[e] \in {"inserted", "stored"} => Fine(view[e], e)'
                      /\ epc'[e] = "stored" => Fine(disk[e], e)'
                      /\ disk'[e].state = "delivered" => view'[e].state \in {"delivered", "absent"}
                      /\ e \in ToSet(todo') =>
                           view'[e].state = "pending" \/ (wpc' \in {"marked", "retried"} /\ e = Head(todo'))
  BY DEF Calm
<1> DEFINE Goal == \A e \in Events :
                      /\ epc'[e] # "failed"
                      /\ epc'[e] \in {"inserted", "stored"} => Fine(view[e], e)'
                      /\ epc'[e] = "stored" => Fine(disk[e], e)'
                      /\ disk'[e].state = "delivered" => view'[e].state \in {"delivered", "absent"}
                      /\ e \in ToSet(todo') =>
                           view'[e].state = "pending" \/ (wpc' \in {"marked", "retried"} /\ e = Head(todo'))
<1>0. OutboxTypes /\ OutboxTypeOK /\ RowsSound /\ ~Fault /\ \A e \in Events : observed[e] \in Nat /\ observed'[e] \in Nat /\ observed'[e] >= observed[e]
  <2>1. observed \in [Events -> Nat] /\ observed' \in [Events -> Nat]
    BY OutboxTypesStep DEF OutboxInv, OutboxTypes, OutboxTypeOK
  <2>2. QED
    BY <2>1, FaultsGrow DEF OutboxInv, OutboxTypes
<1>a. \A e \in Events :
      /\ epc[e] # "failed"
      /\ epc[e] \in {"inserted", "stored"} => Fine(view[e], e)
      /\ epc[e] = "stored" => Fine(disk[e], e)
      /\ disk[e].state = "delivered" => view[e].state \in {"delivered", "absent"}
      /\ e \in ToSet(todo) =>
           view[e].state = "pending" \/ (wpc \in {"marked", "retried"} /\ e = Head(todo))
  BY FaultsGrow DEF OutboxInv, Calm
<1>1. ASSUME NEW e \in Events, OutboxInsert(e) PROVE Goal
  <2>0. /\ UNCHANGED <<disk, wpc, todo, observed>> /\ epc[e] = "new" /\ view[e] = Absent /\ disk[e] = Absent /\ e \notin ToSet(todo)
        /\ view' = [view EXCEPT ![e] = [state |-> "pending", attempts |-> 0]] /\ epc' = [epc EXCEPT ![e] = "inserted"]
    BY <1>0, <1>1 DEF OutboxInsert, RowsSound, outsideVars
  <2>1. /\ view'[e].state = "pending" /\ epc'[e] = "inserted" /\ disk[e].state = "absent"
        /\ \A f \in Events : f # e => view'[f] = view[f] /\ epc'[f] = epc[f]
    BY <1>0, <2>0 DEF OutboxTypeOK, Absent
  <2>2. QED
    BY <1>a, <2>0, <2>1 DEF Fine
<1>2. ASSUME NEW e \in Events, InsertCommit(e) PROVE Goal
  <2>1. /\ UNCHANGED <<view, wpc, todo, observed>> /\ disk' = view /\ epc[e] = "inserted" /\ epc' = [epc EXCEPT ![e] = "stored"]
    BY <1>0, <1>2 DEF InsertCommit, Commit, CommitFails, outsideVars
  <2>2. epc'[e] = "stored" /\ \A f \in Events : f # e => epc'[f] = epc[f]
    BY <1>0, <2>1 DEF OutboxTypeOK
  <2>3. QED
    BY <1>a, <2>1, <2>2 DEF Fine
<1>3. ASSUME NEW e \in Events, Rollback(e) PROVE Goal
  BY <1>3, <1>a DEF Rollback
<1>4. ASSUME NEW e \in Events, BackoffOver(e) PROVE Goal
  BY <1>4, <1>a DEF BackoffOver, Fine, outsideVars
<1>5. CASE StopServer \/ UNCHANGED outboxVars
  BY <1>5, <1>a DEF StopServer, Fine, outboxVars
<1>6. CASE Exit \/ OtherCommit
  <2>1. UNCHANGED <<view, epc, todo, observed>> /\ disk' \in {disk, view} /\ (wpc' = wpc \/ todo = <<>>)
    BY <1>0, <1>6 DEF Exit, OtherCommit, Commit, outsideVars, OutboxTypeOK
  <2>2. QED
    BY <1>a, <2>1, NoRows DEF Fine
<1>7. CASE Fetch
  <2>1. todo' \in Batches /\ Ready # {} /\ UNCHANGED <<view, disk, epc, observed>>
    BY <1>7 DEF Fetch
  <2>2. \A e \in ToSet(todo') : view[e].state = "pending"
    BY <1>0, <2>1, BatchFetched DEF Ready
  <2>3. QED
    BY <1>a, <2>1, <2>2 DEF Fine
<1>8. CASE Pipeline
  <2>1. wpc = "deliver" /\ UNCHANGED <<view, disk, epc, todo>>
    BY <1>8 DEF Pipeline
  <2>2. QED
    BY <1>0, <1>a, <2>1 DEF Fine
<1>9. CASE MarkDelivered
  <2> DEFINE h == Head(todo)
  <2>1. wpc = "observed" /\ wpc' = "marked" /\ UNCHANGED <<disk, epc, todo, observed>> /\ Update(h, "delivered", view[h].attempts)
    BY <1>0, <1>9 DEF MarkDelivered, outsideVars
  <2>2. h \in Events /\ h \in ToSet(todo) /\ h = Head(todo)
    BY <1>0, <2>1, FrontOfBatch DEF OutboxTypeOK
  <2>3. view[h].attempts \in 0..MaxAttempts
    BY <1>0, <2>2 DEF OutboxTypeOK, Row
  <2>4. view'[h].state \in {"delivered", "absent"} /\ \A f \in Events : f # h => view'[f] = view[f]
    BY <1>0, <2>1, <2>2, <2>3, RowUpdated
  <2>5. observed[h] > 0
    BY <1>0, <2>1, <2>2 DEF RowsSound
  <2> HIDE DEF h
  <2>6. QED
    BY <1>0, <1>a, <2>1, <2>2, <2>4, <2>5 DEF Fine
<1>10. CASE MarkRetry
  <2> DEFINE h == Head(todo)
             n == view[h].attempts + 1
  <2>1. wpc = "failed" /\ wpc' = "retried" /\ UNCHANGED <<disk, epc, todo, observed>>
        /\ Update(h, IF n >= MaxAttempts THEN "dead_letter" ELSE "pending", n)
    BY <1>0, <1>10 DEF MarkRetry, outsideVars
  <2>2. h \in Events /\ h \in ToSet(todo) /\ n \in 0..MaxAttempts /\ h = Head(todo)
    BY <2>1, AnotherAttempt
  <2>3. view[h].state = "pending"
    BY <1>a, <2>1, <2>2
  <2> HIDE DEF n, h
  <2>4. view'[h].state \in {"dead_letter", "pending"} /\ \A f \in Events : f # h => view'[f] = view[f]
    BY <1>0, <2>1, <2>2, <2>3, RowUpdated
  <2>5. QED
    BY <1>0, <1>a, <2>1, <2>2, <2>3, <2>4 DEF Fine
<1>11. CASE MarkCommit \/ RetryCommit
  <2>1. todo # <<>> /\ UNCHANGED <<view, epc, observed>> /\ disk' = view /\ NextRow
    BY <1>0, <1>11 DEF MarkCommit, RetryCommit, Commit, CommitFails, OutboxTypeOK, outsideVars
  <2>2. ToSet(todo') = ToSet(todo) \ {Head(todo)}
    BY <1>0, <2>1, RowDone
  <2>3. QED
    BY <1>a, <2>1, <2>2 DEF Fine
<1>12. CASE Cleanup
  <2>1. UNCHANGED <<disk, epc, wpc, todo, observed>>
    BY <1>12 DEF Cleanup, outsideVars
  <2>2. \A e \in Events : view'[e] = view[e] \/ (view'[e] = Absent /\ view[e].state = "delivered")
    BY <1>12 DEF Cleanup
  <2>3. Absent.state = "absent"
    BY DEF Absent
  <2>4. QED
    BY <1>a, <2>1, <2>2, <2>3 DEF Fine
<1>13. CASE CancelWorker
  <2>1. UNCHANGED <<view, disk, epc>> /\ todo' = <<>>
    BY <1>13 DEF CancelWorker, CutOff
  <2>2. QED
    BY <1>0, <1>a, <2>1, NoRows DEF Fine
<1>14. CASE OutboxCrash
  <2>1. /\ view' = disk /\ disk' = disk /\ todo' = <<>>
        /\ \A e \in Events : epc'[e] \notin {"inserted", "failed"} /\ (epc'[e] = "stored" => epc[e] = "stored")
    BY <1>0, <1>14 DEF OutboxCrash, OutboxTypeOK
  <2>2. QED
    BY <1>0, <1>a, <2>1, NoRows DEF Fine
<1>15. QED
  BY <1>1, <1>2, <1>3, <1>4, <1>5, <1>6, <1>7, <1>8, <1>9, <1>10, <1>11, <1>12, <1>13, <1>14 DEF OutboxNext, Worker

-----------------------------------------------------------------------------
LEMMA FailingFinite == IsFiniteSet(Failing) /\ Cardinality(Failing) \in Nat
  BY EventsAssumption, FS_Subset, FS_CardinalityType DEF Failing

LEMMA FailingJoined ==
  ASSUME OutboxTypes, NEW e \in Events, epc[e] # "failed", epc' = [epc EXCEPT ![e] = "failed"]
  PROVE  Cardinality(Failing') = Cardinality(Failing) + 1
<1>1. Failing' = Failing \union {e} /\ e \notin Failing
  BY DEF Failing, OutboxTypes, OutboxTypeOK
<1>2. QED
  BY <1>1, FailingFinite, FS_AddElement

LEMMA FailingLeft ==
  ASSUME OutboxTypes, NEW e \in Events, epc[e] = "failed", epc' = [epc EXCEPT ![e] = "dropped"]
  PROVE  Cardinality(Failing') = Cardinality(Failing) - 1
<1>1. Failing' = Failing \ {e} /\ e \in Failing
  BY DEF Failing, OutboxTypes, OutboxTypeOK
<1>2. QED
  BY <1>1, FailingFinite, FS_RemoveElement

LEMMA FailingSame ==
  ASSUME \A e \in Events : epc'[e] = "failed" <=> epc[e] = "failed"
  PROVE  Cardinality(Failing') = Cardinality(Failing)
<1>1. Failing' = Failing
  BY DEF Failing
<1>2. QED
  BY <1>1

LEMMA CreditCounted ==
  ASSUME OutboxInv
  PROVE  /\ Credit \in Int
         /\ Credit <= mishapsObserved + 2 * faults + workerCancels + restarts
<1>1. mishapsObserved \in Nat /\ faults \in Nat /\ workerCancels \in Nat /\ restarts \in Nat
  BY DEF OutboxInv, OutboxTypes, OutboxTypeOK
<1>2. QED
  BY <1>1, FailingFinite DEF Credit

(* Something went wrong: that pays for every event to be shown once more.  *)
LEMMA PaidFor ==
  ASSUME OutboxInv, Credit' \in Int, Credit' >= Credit + 1,
         observed' = observed \/ (wpc = "deliver" /\ Observes(Head(todo)))
  PROVE  ShownOnCredit'
<1>0. Credit \in Int /\ OutboxTypes /\ observed \in [Events -> Nat] /\ \A e \in Events : observed[e] <= 1 + Credit
  BY CreditCounted DEF OutboxInv, ShownOnCredit, OutboxTypes, OutboxTypeOK
<1> DEFINE d == Credit'
<1>a. d \in Int /\ d >= Credit + 1
  OBVIOUS
<1>1. ASSUME NEW e \in Events PROVE observed'[e] <= d
  <2>1. CASE observed' = observed
    BY <1>0, <1>a, <2>1
  <2>2. CASE wpc = "deliver" /\ Observes(Head(todo))
    <3>1. todo # <<>> /\ Head(todo) \in Events /\ Head(todo) \in ToSet(todo)
      BY <1>0, <2>2, FrontOfBatch DEF OutboxTypes, OutboxTypeOK
    <3>2. MayBeShown(Head(todo))
      BY <2>2, <3>1 DEF MayBeShown, JustShown
    <3>3. observed[Head(todo)] <= Credit
      BY <3>1, <3>2 DEF OutboxInv, ShownOnCredit
    <3>4. CASE e = Head(todo)
      <4>1. observed'[e] = observed[e] + 1
        BY <1>0, <2>2, <3>1, <3>4 DEF Observes
      <4>2. QED
        BY <1>0, <1>a, <3>3, <3>4, <4>1
    <3>5. CASE e # Head(todo)
      <4>1. observed'[e] = observed[e]
        BY <1>0, <2>2, <3>1, <3>5 DEF Observes
      <4>2. QED
        BY <1>0, <1>a, <4>1
    <3>6. QED
      BY <3>4, <3>5
  <2>3. QED
    BY <2>1, <2>2
<1>2. \A e \in Events : observed'[e] \in Nat
  <2>1. CASE observed' = observed
    BY <1>0, <2>1
  <2>2. CASE Observes(Head(todo))
    BY <1>0, <2>2 DEF Observes
  <2>3. QED
    BY <2>1, <2>2
<1> HIDE DEF d
<1>3. \A e \in Events : observed'[e] <= 1 + d /\ observed'[e] <= d
  BY <1>a, <1>1, <1>2
<1>4. QED
  BY <1>3 DEF ShownOnCredit, d

(* Nothing went wrong, and no event may be shown that might not before.    *)
LEMMA NotPaidFor ==
  ASSUME OutboxInv, Credit' = Credit, observed' = observed,
         \A e \in Events : MayBeShown(e)' => MayBeShown(e)
  PROVE  ShownOnCredit'
  BY DEF OutboxInv, ShownOnCredit

LEMMA CreditStep == ASSUME OutboxInv, [OutboxNext]_outboxVars PROVE ShownOnCredit'
<1>0. /\ OutboxTypes /\ OutboxTypeOK /\ RowsSound
      /\ mishapsObserved \in Nat /\ faults \in Nat /\ workerCancels \in Nat /\ restarts \in Nat
      /\ Cardinality(Failing) \in Nat /\ Cardinality(Failing') \in Nat
  <2>1. Cardinality(Failing') \in Nat
    BY EventsAssumption, FS_Subset, FS_CardinalityType DEF Failing
  <2>2. QED
    BY <2>1, FailingFinite DEF OutboxInv, OutboxTypes, OutboxTypeOK
<1> DEFINE Same == Credit' = Credit /\ observed' = observed
           Paid == /\ Credit' \in Int /\ Credit' >= Credit + 1
                   /\ observed' = observed \/ (wpc = "deliver" /\ Observes(Head(todo)))
<1>1. ASSUME NEW e \in Events, OutboxInsert(e) PROVE ShownOnCredit'
  <2>0. epc[e] = "new" /\ e \notin ToSet(todo) /\ UNCHANGED <<wpc, todo, observed, mishapsObserved, workerCancels, restarts>>
    BY <1>0, <1>1 DEF OutboxInsert, RowsSound, outsideVars
  <2>1. CASE /\ view' = [view EXCEPT ![e] = [state |-> "pending", attempts |-> 0]]
             /\ epc' = [epc EXCEPT ![e] = "inserted"] /\ UNCHANGED faults
    <3>1. \A f \in Events : (f # e => epc'[f] = epc[f] /\ view'[f] = view[f]) /\ epc'[e] = "inserted"
      BY <1>0, <2>1 DEF OutboxTypeOK
    <3>2. Cardinality(Failing') = Cardinality(Failing)
      BY <2>0, <3>1, FailingSame
    <3>3. Same
      BY <1>0, <2>0, <2>1, <3>2 DEF Credit
    <3>4. \A f \in Events : MayBeShown(f)' => MayBeShown(f)
      BY <2>0, <3>1 DEF MayBeShown, JustShown
    <3>5. QED
      BY <3>3, <3>4, NotPaidFor
  <2>2. CASE faults' = faults + 1 /\ epc' = [epc EXCEPT ![e] = "failed"]
    <3>1. Cardinality(Failing') = Cardinality(Failing) + 1
      BY <1>0, <2>0, <2>2, FailingJoined
    <3>2. Paid
      BY <1>0, <2>0, <2>2, <3>1 DEF Credit
    <3>3. QED
      BY <3>2, PaidFor
  <2>3. QED
    BY <1>1, <2>1, <2>2 DEF OutboxInsert, Fault
<1>2. ASSUME NEW e \in Events, InsertCommit(e) PROVE ShownOnCredit'
  <2>0. epc[e] = "inserted" /\ UNCHANGED <<wpc, todo, observed, mishapsObserved, workerCancels, restarts>>
    BY <1>2 DEF InsertCommit, outsideVars
  <2>1. CASE epc' = [epc EXCEPT ![e] = "stored"] /\ UNCHANGED <<view, faults>>
    <3>1. \A f \in Events : (f # e => epc'[f] = epc[f]) /\ epc'[e] = "stored"
      BY <1>0, <2>1 DEF OutboxTypeOK
    <3>2. Cardinality(Failing') = Cardinality(Failing)
      BY <2>0, <3>1, FailingSame
    <3>3. Same
      BY <1>0, <2>0, <2>1, <3>2 DEF Credit
    <3>4. \A f \in Events : MayBeShown(f)' => MayBeShown(f)
      BY <2>0, <2>1, <3>1 DEF MayBeShown, JustShown
    <3>5. QED
      BY <3>3, <3>4, NotPaidFor
  <2>2. CASE faults' = faults + 1 /\ epc' = [epc EXCEPT ![e] = "failed"]
    <3>1. Cardinality(Failing') = Cardinality(Failing) + 1
      BY <1>0, <2>0, <2>2, FailingJoined
    <3>2. Paid
      BY <1>0, <2>0, <2>2, <3>1 DEF Credit
    <3>3. QED
      BY <3>2, PaidFor
  <2>3. QED
    BY <1>2, <2>1, <2>2 DEF InsertCommit, Commit, CommitFails, Fault
<1>3. ASSUME NEW e \in Events, Rollback(e) PROVE ShownOnCredit'
  <2>1. Cardinality(Failing') = Cardinality(Failing) - 1
    BY <1>0, <1>3, FailingLeft DEF Rollback
  <2>2. UNCHANGED <<observed, mishapsObserved, faults, workerCancels, restarts>>
    BY <1>3 DEF Rollback, outsideVars
  <2>3. Paid
    BY <1>0, <2>1, <2>2 DEF Credit
  <2>4. QED
    BY <2>3, PaidFor
<1>4. CASE Exit \/ OtherCommit \/ StopServer \/ Cleanup \/ UNCHANGED outboxVars \/ \E e \in Events : BackoffOver(e)
  <2>1. UNCHANGED <<epc, todo, observed, mishapsObserved, faults, workerCancels, restarts>> /\ (wpc' = wpc \/ wpc = "fetch")
    BY <1>4 DEF Exit, OtherCommit, StopServer, Cleanup, BackoffOver, Commit, outboxVars, outsideVars
  <2>2. \A e \in Events : view'[e] = view[e] \/ (view'[e].state = "absent" /\ view[e].state = "delivered")
    BY <1>4 DEF Exit, OtherCommit, StopServer, Cleanup, BackoffOver, Commit, outboxVars, outsideVars, Absent
  <2>3. Same
    BY <1>0, <2>1, FailingSame DEF Credit
  <2>4. \A e \in Events : MayBeShown(e)' => MayBeShown(e)
    <3>1. wpc = "fetch" => ToSet(todo) = {}
      BY <1>0, NoRows DEF OutboxTypeOK
    <3>2. QED
      BY <2>1, <2>2, <3>1 DEF MayBeShown, JustShown
  <2>5. QED
    BY <2>3, <2>4, NotPaidFor
<1>5. CASE Fetch
  <2>1. todo' \in Batches /\ Ready # {} /\ wpc' = "deliver" /\ wpc = "fetch"
        /\ UNCHANGED <<view, epc, observed, mishapsObserved, faults, workerCancels, restarts>>
    BY <1>5 DEF Fetch, outsideVars
  <2>2. \A e \in ToSet(todo') : view[e].state = "pending"
    BY <1>0, <2>1, BatchFetched DEF Ready
  <2>3. Same
    BY <1>0, <2>1, FailingSame DEF Credit
  <2>4. \A e \in Events : MayBeShown(e)' => MayBeShown(e)
    BY <2>1, <2>2 DEF MayBeShown, JustShown
  <2>5. QED
    BY <2>3, <2>4, NotPaidFor
<1>6. CASE Pipeline
  <2>0. wpc = "deliver" /\ UNCHANGED <<view, epc, todo, faults, workerCancels, restarts>>
        /\ Cardinality(Failing') = Cardinality(Failing)
    BY <1>6, FailingSame DEF Pipeline
  <2>1. CASE Observes(Head(todo)) /\ wpc' = "observed" /\ UNCHANGED mishapsObserved
    <3> DEFINE h == Head(todo)
    <3>1. h \in Events /\ h \in ToSet(todo)
      BY <1>0, <2>0, FrontOfBatch DEF OutboxTypeOK
    <3>2. MayBeShown(h) /\ JustShown(h)'
      BY <2>0, <2>1, <3>1 DEF MayBeShown, JustShown
    <3>3. Credit' = Credit /\ Credit \in Int
      BY <1>0, <2>0, <2>1, CreditCounted DEF Credit
    <3>4. observed'[h] = observed[h] + 1 /\ (\A f \in Events : f # h => observed'[f] = observed[f]) /\ observed[h] \in Nat
      BY <1>0, <2>1, <3>1 DEF Observes, OutboxTypeOK
    <3>5. observed[h] <= Credit
      BY <3>1, <3>2 DEF OutboxInv, ShownOnCredit
    <3>6. observed'[h] <= 1 + Credit
      BY <3>3, <3>4, <3>5
    <3> HIDE DEF h
    <3>7. \A f \in Events : f # h /\ MayBeShown(f)' => MayBeShown(f)
      BY <2>0 DEF MayBeShown, JustShown
    <3>8. \A f \in Events : MayBeShown(f)' => f # h
      <4> SUFFICES ASSUME NEW f \in Events, f = h PROVE JustShown(f)'
        BY DEF MayBeShown
      <4>1. f \in ToSet(todo) /\ f = Head(todo) /\ todo' = todo /\ wpc' = "observed"
        BY <2>0, <2>1, <3>1 DEF h
      <4>2. QED
        BY <4>1 DEF JustShown
    <3>9. QED
      <4> SUFFICES ASSUME NEW f \in Events
                   PROVE  observed'[f] <= 1 + Credit /\ (MayBeShown(f)' => observed'[f] <= Credit)
        BY <3>3 DEF ShownOnCredit
      <4>1. CASE f = h
        BY <3>6, <3>8, <4>1
      <4>2. CASE f # h
        BY <3>4, <3>7, <4>2 DEF OutboxInv, ShownOnCredit
      <4>3. QED
        BY <4>1, <4>2
  <2>2. CASE mishapsObserved' = mishapsObserved + 1 /\ (Observes(Head(todo)) \/ UNCHANGED observed)
    <3>1. Paid
      BY <1>0, <2>0, <2>2 DEF Credit
    <3>2. QED
      BY <3>1, PaidFor
  <2>3. QED
    BY <1>6, <2>1, <2>2 DEF Pipeline
<1>7. CASE MarkDelivered
  <2> DEFINE h == Head(todo)
  <2>0. /\ wpc = "observed" /\ UNCHANGED <<epc, todo, observed, mishapsObserved, workerCancels, restarts>>
        /\ Cardinality(Failing') = Cardinality(Failing)
    BY <1>7, FailingSame DEF MarkDelivered, outsideVars
  <2>1. CASE Update(h, "delivered", view[h].attempts) /\ wpc' = "marked" /\ UNCHANGED faults
    <3>1. h \in Events /\ h \in ToSet(todo) /\ h = Head(todo)
      BY <1>0, <2>0, FrontOfBatch DEF OutboxTypeOK
    <3>2. view[h].attempts \in 0..MaxAttempts
      BY <1>0, <3>1 DEF OutboxTypeOK, Row
    <3>3. view'[h].state \in {"delivered", "absent"} /\ \A f \in Events : f # h => view'[f] = view[f]
      BY <1>0, <2>1, <3>1, <3>2, RowUpdated
    <3>4. Same
      BY <1>0, <2>0, <2>1 DEF Credit
    <3> HIDE DEF h
    <3>5. \A e \in Events : MayBeShown(e)' => MayBeShown(e)
      BY <2>0, <2>1, <3>1, <3>3 DEF MayBeShown, JustShown
    <3>6. QED
      BY <3>4, <3>5, NotPaidFor
  <2>2. CASE faults' = faults + 1
    <3>1. Paid
      BY <1>0, <2>0, <2>2 DEF Credit
    <3>2. QED
      BY <3>1, PaidFor
  <2>3. QED
    BY <1>7, <2>1, <2>2 DEF MarkDelivered, Fault
<1>8. CASE MarkCommit \/ RetryCommit
  <2>0. /\ todo # <<>> /\ wpc \in {"marked", "retried"} /\ UNCHANGED <<epc, observed, mishapsObserved, workerCancels, restarts>>
        /\ Cardinality(Failing') = Cardinality(Failing)
    BY <1>0, <1>8, FailingSame DEF MarkCommit, RetryCommit, outsideVars, OutboxTypeOK
  <2>1. CASE UNCHANGED <<view, faults>> /\ NextRow
    <3>1. ToSet(todo') = ToSet(todo) \ {Head(todo)} /\ wpc' \in {"fetch", "deliver"}
      BY <1>0, <2>0, <2>1, RowDone
    <3>2. Same
      BY <1>0, <2>0, <2>1 DEF Credit
    <3>3. \A e \in Events : MayBeShown(e)' => MayBeShown(e)
      BY <1>0, <2>0, <2>1, <3>1 DEF MayBeShown, JustShown, RowsSound
    <3>4. QED
      BY <3>2, <3>3, NotPaidFor
  <2>2. CASE faults' = faults + 1
    <3>1. Paid
      BY <1>0, <2>0, <2>2 DEF Credit
    <3>2. QED
      BY <3>1, PaidFor
  <2>3. QED
    BY <1>8, <2>1, <2>2 DEF MarkCommit, RetryCommit, Commit, CommitFails, Fault
<1>9. CASE MarkRetry
  <2> DEFINE h == Head(todo)
             n == view[h].attempts + 1
  <2>0. /\ wpc = "failed" /\ UNCHANGED <<epc, observed, mishapsObserved, workerCancels, restarts>>
        /\ Cardinality(Failing') = Cardinality(Failing)
    BY <1>9, FailingSame DEF MarkRetry, outsideVars
  <2>1. CASE Update(h, IF n >= MaxAttempts THEN "dead_letter" ELSE "pending", n) /\ wpc' = "retried" /\ UNCHANGED <<todo, faults>>
    <3>1. h \in Events /\ h \in ToSet(todo) /\ n \in 0..MaxAttempts
      BY <2>0, AnotherAttempt
    <3>2. Same
      BY <1>0, <2>0, <2>1 DEF Credit
    <3> HIDE DEF h, n
    <3>3. \A f \in Events : f # h => view'[f] = view[f]
      BY <1>0, <2>1, <3>1, RowUpdated
    <3>4. \A e \in Events : MayBeShown(e)' => MayBeShown(e)
      BY <2>0, <2>1, <3>1, <3>3 DEF MayBeShown, JustShown
    <3>5. QED
      BY <3>2, <3>4, NotPaidFor
  <2>2. CASE faults' = faults + 1
    <3>1. Paid
      BY <1>0, <2>0, <2>2 DEF Credit
    <3>2. QED
      BY <3>1, PaidFor
  <2>3. QED
    BY <1>9, <2>1, <2>2 DEF MarkRetry, Fault
<1>10. CASE CancelWorker
  <2>1. /\ UNCHANGED <<mishapsObserved, faults, restarts>> /\ workerCancels' = workerCancels + 1
        /\ Cardinality(Failing') = Cardinality(Failing)
        /\ observed' = observed \/ (wpc = "deliver" /\ Observes(Head(todo)))
    BY <1>10, FailingSame DEF CancelWorker, CutOff
  <2>2. Paid
    BY <1>0, <2>1 DEF Credit
  <2>3. QED
    BY <2>2, PaidFor
<1>11. CASE OutboxCrash
  <2>1. /\ UNCHANGED <<mishapsObserved, faults, workerCancels>> /\ restarts' = restarts + 1
        /\ observed' = observed \/ (wpc = "deliver" /\ Observes(Head(todo)))
        /\ Failing' = {}
    BY <1>11 DEF OutboxCrash, Failing
  <2>2. Cardinality(Failing') = 0
    BY <2>1, FS_EmptySet
  <2>3. Paid
    BY <1>0, <2>1, <2>2 DEF Credit
  <2>4. QED
    BY <2>3, PaidFor
<1>12. QED
  BY <1>1, <1>2, <1>3, <1>4, <1>5, <1>6, <1>7, <1>8, <1>9, <1>10, <1>11 DEF OutboxNext, Worker

LEMMA OutboxInvariant == OutboxSpec => []OutboxInv
<1>1. OutboxInv /\ [OutboxNext]_outboxVars => OutboxInv'
  BY OutboxTypesStep, RowsSoundStep, CalmStep, CreditStep DEF OutboxInv
<1>2. QED
  BY <1>1, OutboxInitial, PTL DEF OutboxSpec

(* What enqueue() has stored is kept until it is settled, and the observer *)
(* is shown an event again only for something that went wrong, for any     *)
(* events, attempts and bounds (gateway/outbox.py).                        *)
THEOREM OutboxIsSound == OutboxSpec => []OutboxSound
<1>1. OutboxInv => OutboxSound
  <2> SUFFICES ASSUME OutboxInv PROVE OutboxSound
    OBVIOUS
  <2>1. StoredIsKept
    BY DEF OutboxInv, Calm, Fine, RowsSound, StoredIsKept, Kept
  <2>2. DuplicatesBounded
    <3> SUFFICES ASSUME NEW e \in Events
                 PROVE  observed[e] <= 1 + mishapsObserved + 2 * faults + workerCancels + restarts
      BY DEF DuplicatesBounded
    <3>1. observed[e] \in Nat /\ observed[e] <= 1 + Credit /\ Credit \in Int
          /\ Credit <= mishapsObserved + 2 * faults + workerCancels + restarts
      BY CreditCounted DEF OutboxInv, ShownOnCredit, OutboxTypes, OutboxTypeOK
    <3>2. mishapsObserved \in Nat /\ faults \in Nat /\ workerCancels \in Nat /\ restarts \in Nat
      BY DEF OutboxInv, OutboxTypes, OutboxTypeOK
    <3>3. QED
      BY <3>1, <3>2
  <2>3. QED
    BY <2>1, <2>2 DEF OutboxSound
<1>2. QED
  BY <1>1, OutboxInvariant, PTL

(* The rows of the gateway's outbox are rows, and its worker has a batch   *)
(* exactly while it delivers one (gateway/outbox.py).                      *)
THEOREM OutboxTyped == OutboxSpec => []OutboxTypeOK
<1>1. OutboxInv => OutboxTypeOK
  BY DEF OutboxInv, OutboxTypes
<1>2. QED
  BY <1>1, OutboxInvariant, PTL

(* A settled row is final while SQLite does not fail: nothing delivers a   *)
(* delivered row or a dead letter again, whichever batch still has it      *)
(* (deliver_pending, _mark and recover in gateway/outbox.py).              *)
THEOREM SettledRowsAreFinal == OutboxSpec => SettledIsFinal
<1> DEFINE Final ==
      faults' = 0 =>
        \A e \in Events :
          /\ disk[e].state = "dead_letter" => disk'[e] = disk[e]
          /\ disk[e].state = "delivered" => disk'[e].state \in {"delivered", "absent"}
<1>1. OutboxInv /\ [OutboxNext]_outboxVars => [Final]_disk
  <2> SUFFICES ASSUME OutboxInv, [OutboxNext]_outboxVars, faults' = 0, disk' # disk, NEW e \in Events
               PROVE  /\ disk[e].state = "dead_letter" => disk'[e] = disk[e]
                      /\ disk[e].state = "delivered" => disk'[e].state \in {"delivered", "absent"}
    BY DEF Final
  <2>1. faults = 0
    BY FaultsGrow
  <2>2. disk' = view
    BY DEF OutboxNext, Worker, outboxVars, outsideVars, OutboxInsert, InsertCommit, Rollback, BackoffOver, Fetch, Exit, Pipeline,
       MarkDelivered, MarkCommit, MarkRetry, RetryCommit, Cleanup, OtherCommit, StopServer, CancelWorker, OutboxCrash,
       Commit, CommitFails
  <2>3. view[e] \in Row /\ disk[e] \in Row
    BY DEF OutboxInv, OutboxTypes, OutboxTypeOK
  <2>4. disk[e].state = "dead_letter" => view[e].state = "dead_letter" /\ view[e].attempts = disk[e].attempts
    BY DEF OutboxInv, RowsSound
  <2>5. disk[e].state = "delivered" => view[e].state \in {"delivered", "absent"}
    BY <2>1 DEF OutboxInv, Calm
  <2>6. QED
    BY <2>2, <2>3, <2>4, <2>5 DEF Row
<1>2. OutboxSpec => [][OutboxNext]_outboxVars
  BY DEF OutboxSpec
<1>3. QED
  BY <1>1, <1>2, OutboxInvariant, PTL DEF SettledIsFinal
=============================================================================
