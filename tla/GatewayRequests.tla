--------------------------- MODULE GatewayRequests ---------------------------
(* Chat requests through the gateway server: the semaphore of streams      *)
(* (gateway/server.py), the OpenAI facade with its audit rows and the two  *)
(* events it leaves for the observer (gateway/openai_facade.py), and the   *)
(* server's start and stop.  GatewayOutbox has the tables behind them.     *)
(*                                                                         *)
(* Bodies, texts and provider answers are the outcomes they lead to.  Every*)
(* await of the handler is a step; a table write is one step that may fail.*)
EXTENDS Integers, FiniteSets

CONSTANTS
  Requests,       \* chat requests
  StreamLimit,    \* limits.max_concurrent_streams
  CaptureChunks,  \* bound: text chunks of a stream; one alone is 20 characters or less
  MaxWriteFaults  \* bound: failing table writes

ASSUME GatewayRequestsAssumption ==
  /\ IsFiniteSet(Requests)
  /\ StreamLimit \in Nat \ {0} /\ CaptureChunks \in Nat \ {0} /\ MaxWriteFaults \in Nat

VARIABLES
  gateway,     \* "off", "binding", "listening", "draining", "stopped", "failed"
  readyEvent,  \* _ready_event
  rq,          \* step of each request
  semTaken,    \* permits of _concurrent_sem that are out
  got,         \* text chunks of the answer so far
  heard,       \* user event recorded
  said,        \* assistant event: "none", "partial", "complete"
  audit,       \* the request's audit row: "none", "complete", "failed", "cancelled"
  how,         \* history: how the request ended
  writeFaults

gwVars == <<gateway, readyEvent, rq, semTaken, got, heard, said, audit, how, writeFaults>>
Server == <<gateway, readyEvent>>
Tables == <<heard, said, audit>>

\* From the acquire to the release.
HoldsPermit == {"reading", "recording", "injecting", "dispatching", "answering", "auditing",
                "streamReady", "streaming"}

GwInit ==
  /\ gateway = "off" /\ readyEvent = FALSE
  /\ rq = [r \in Requests |-> "new"] /\ semTaken = 0
  /\ got = [r \in Requests |-> 0] /\ heard = {} /\ said = [r \in Requests |-> "none"]
  /\ audit = [r \in Requests |-> "none"]
  /\ how = [r \in Requests |-> "open"] /\ writeFaults = 0

-----------------------------------------------------------------------------
(* Start: probes, then the HTTP server and the outbox worker as tasks.  It *)
(* polls 50 times for the listener and says ready whether it came or not.  *)
GatewayStarts ==
  /\ gateway = "off" /\ gateway' = "binding"
  /\ UNCHANGED <<readyEvent, rq, semTaken, got, Tables, how, writeFaults>>

GatewayBinds ==
  /\ gateway = "binding" /\ gateway' \in {"listening", "failed"}
  /\ UNCHANGED <<readyEvent, rq, semTaken, got, Tables, how, writeFaults>>

GatewayReady ==
  /\ gateway \in {"binding", "listening"} /\ ~readyEvent /\ readyEvent' = TRUE
  /\ UNCHANGED <<gateway, rq, semTaken, got, Tables, how, writeFaults>>

(* Stop: the outbox worker is drained first, then the listener is closed   *)
(* and requests get five seconds.                                          *)
GatewayStops ==
  /\ gateway = "listening" /\ readyEvent
  /\ gateway' = "draining" /\ readyEvent' = FALSE
  /\ UNCHANGED <<rq, semTaken, got, Tables, how, writeFaults>>

GatewayStopped ==
  /\ gateway = "draining" /\ gateway' = "stopped"
  /\ UNCHANGED <<readyEvent, rq, semTaken, got, Tables, how, writeFaults>>

-----------------------------------------------------------------------------
Goto(r, step) == rq' = [rq EXCEPT ![r] = step] /\ UNCHANGED how
End(r, outcome) == rq' = [rq EXCEPT ![r] = "over"] /\ how' = [how EXCEPT ![r] = outcome]
Release == semTaken' = semTaken - 1
EndAndRelease(r, outcome) == End(r, outcome) /\ Release

(* The bridge and record_audit log an error of the table and go on; the    *)
(* audit row has the request's id as key and is replaced.                  *)
WriteFails == writeFaults < MaxWriteFaults /\ writeFaults' = writeFaults + 1

WriteAudit(r, status) ==
  \/ audit' = [audit EXCEPT ![r] = status] /\ UNCHANGED writeFaults
  \/ WriteFails /\ UNCHANGED audit

(* Refused without a permit (401, 503), or one permit more; a body that is *)
(* declared too large gives it back at once.                               *)
Accept(r) ==
  /\ gateway = "listening" /\ rq[r] = "new"
  /\ \/ semTaken >= StreamLimit /\ End(r, "refused") /\ UNCHANGED semTaken
     \/ semTaken < StreamLimit /\ semTaken' = semTaken + 1 /\ Goto(r, "reading")
     \/ End(r, "refused") /\ UNCHANGED semTaken
  /\ UNCHANGED <<Server, got, Tables, writeFaults>>

(* Fault model: the path of an unknown model forgets the release.          *)
ReadBodyKeeps(r) ==
  /\ rq[r] = "reading"
  /\ \/ End(r, "rejected") /\ UNCHANGED semTaken
     \/ Goto(r, "recording") /\ UNCHANGED semTaken
  /\ UNCHANGED <<Server, got, Tables, writeFaults>>

(* The body: unreadable, a refused field, an unknown model: the permit is  *)
(* given back on each of these paths.  A body that is no object, or whose  *)
(* messages are null, raises outside every try and keeps the permit.       *)
ReadBody(r) ==
  /\ rq[r] = "reading"
  /\ \/ EndAndRelease(r, "rejected")
     \/ End(r, "misread") /\ UNCHANGED semTaken
     \/ Goto(r, "recording") /\ UNCHANGED semTaken
  /\ UNCHANGED <<Server, got, Tables, writeFaults>>

(* handle_chat_completions: the user's message is left for the observer.   *)
RecordUser(r) ==
  /\ rq[r] = "recording" /\ Goto(r, "injecting")
  /\ \/ heard' = heard \union {r} /\ UNCHANGED writeFaults
     \/ WriteFails /\ UNCHANGED heard
  /\ UNCHANGED <<Server, semTaken, got, said, audit>>

(* Memory is added, absent, or failed and left out (fail_mode is "open").  *)
Inject(r) ==
  /\ rq[r] = "injecting"
  /\ \/ Goto(r, "dispatching") \/ Goto(r, "streamReady")
  /\ UNCHANGED <<Server, semTaken, got, Tables, how, writeFaults>>

-----------------------------------------------------------------------------
(* Without a stream: the answer is recorded, audited and returned; a       *)
(* dispatch error is audited as failed; another exception is not audited.  *)
DispatchJson(r) ==
  /\ rq[r] = "dispatching"
  /\ \/ /\ Goto(r, "answering") /\ got' = [got EXCEPT ![r] = CaptureChunks]
        /\ UNCHANGED <<semTaken, audit, writeFaults>>
     \/ EndAndRelease(r, "upstreamError") /\ WriteAudit(r, "failed") /\ UNCHANGED got
     \/ EndAndRelease(r, "raised") /\ UNCHANGED <<got, audit, writeFaults>>
  /\ UNCHANGED <<Server, heard, said>>

RecordAnswer(r) ==
  /\ rq[r] = "answering" /\ Goto(r, "auditing")
  /\ \/ said' = [said EXCEPT ![r] = "complete"] /\ UNCHANGED writeFaults
     \/ WriteFails /\ UNCHANGED said
  /\ UNCHANGED <<Server, semTaken, got, heard, audit>>

AuditAnswer(r) ==
  /\ rq[r] = "auditing"
  /\ WriteAudit(r, "complete") /\ EndAndRelease(r, "answered")
  /\ UNCHANGED <<Server, got, heard, said>>

-----------------------------------------------------------------------------
(* The response of a stream is wrapped; its permit is given back by the    *)
(* wrapper's finally clause, which only runs if the body was iterated.     *)
StreamStarts(r) ==
  /\ rq[r] = "streamReady"
  /\ \/ Goto(r, "streaming")
     \/ End(r, "unstarted")
  /\ UNCHANGED <<Server, semTaken, got, Tables, writeFaults>>

StreamChunk(r) ==
  /\ rq[r] = "streaming" /\ got[r] < CaptureChunks
  /\ got' = [got EXCEPT ![r] = @ + 1]
  /\ UNCHANGED <<Server, rq, semTaken, Tables, how, writeFaults>>

(* The assistant event: not without text, and "partial" not for a short one.*)
Finalize(r, status) ==
  said' = [said EXCEPT ![r] = IF got[r] = 0 \/ (status = "partial" /\ got[r] < 2) THEN @ ELSE status]

WriteBoth(r, auditStatus, saidStatus) ==
  \/ WriteAudit(r, auditStatus) /\ Finalize(r, saidStatus)
  \/ WriteFails /\ audit' = [audit EXCEPT ![r] = auditStatus] /\ UNCHANGED said

(* The end of the answer: the audit row, then the assistant event.         *)
StreamEnds(r) ==
  /\ rq[r] = "streaming"
  /\ WriteBoth(r, "complete", "complete") /\ EndAndRelease(r, "streamed")
  /\ UNCHANGED <<Server, got, heard>>

(* Fault model: the row of the dispatch error is left to the finally clause.*)
StreamDispatchErrorLate(r) ==
  /\ rq[r] = "streaming"
  /\ WriteBoth(r, "complete", "complete") /\ EndAndRelease(r, "upstreamError")
  /\ UNCHANGED <<Server, got, heard>>

(* A dispatch error is audited as failed; the finally clause still finds   *)
(* the status it began with and records what came as the complete answer.  *)
StreamDispatchError(r) ==
  /\ rq[r] = "streaming"
  /\ WriteBoth(r, "failed", "complete") /\ EndAndRelease(r, "upstreamError")
  /\ UNCHANGED <<Server, got, heard>>

(* Another exception: "cancelled", and a partial answer if it is long.     *)
StreamRaises(r) ==
  /\ rq[r] = "streaming"
  /\ WriteBoth(r, "cancelled", "partial") /\ EndAndRelease(r, "raised")
  /\ UNCHANGED <<Server, got, heard>>

(* The client goes away: GeneratorExit or CancelledError is no Exception,  *)
(* so the status is still "complete"; a cancelled scope also cancels the   *)
(* awaits of the finally clause, at the first or the second of them.       *)
StreamCut(r) ==
  /\ rq[r] = "streaming" /\ EndAndRelease(r, "cut")
  /\ \/ WriteBoth(r, "complete", "complete")
     \/ WriteAudit(r, "complete") /\ UNCHANGED said
     \/ UNCHANGED <<audit, said, writeFaults>>
  /\ UNCHANGED <<Server, got, heard>>

GwNext ==
  \/ GatewayStarts \/ GatewayBinds \/ GatewayReady \/ GatewayStops \/ GatewayStopped
  \/ \E r \in Requests :
       \/ Accept(r) \/ ReadBody(r) \/ RecordUser(r) \/ Inject(r)
       \/ DispatchJson(r) \/ RecordAnswer(r) \/ AuditAnswer(r)
       \/ StreamStarts(r) \/ StreamChunk(r) \/ StreamEnds(r) \/ StreamDispatchError(r)
       \/ StreamRaises(r) \/ StreamCut(r)

-----------------------------------------------------------------------------
GwTypeOK ==
  /\ gateway \in {"off", "binding", "listening", "draining", "stopped", "failed"}
  /\ readyEvent \in BOOLEAN
  /\ rq \in [Requests -> {"new", "over"} \union HoldsPermit]
  /\ semTaken \in 0..StreamLimit /\ got \in [Requests -> 0..CaptureChunks]
  /\ heard \subseteq Requests /\ said \in [Requests -> {"none", "partial", "complete"}]
  /\ audit \in [Requests -> {"none", "complete", "failed", "cancelled"}]
  /\ writeFaults \in 0..MaxWriteFaults

(* A permit is out for each request between its acquire and its release,   *)
(* and for no other than those two ends that keep theirs: a body that is   *)
(* misread, and a stream nobody began to iterate.                          *)
PermitsConserved ==
  semTaken = Cardinality({r \in Requests : rq[r] \in HoldsPermit \/ how[r] \in {"misread", "unstarted"}})

(* What the tables say of a request: its audit row is that of its end      *)
(* unless a write failed - "complete" for an answer that was complete or   *)
(* cut by the client, "failed" for a provider's error; there is no row for *)
(* a request that is not over, and no answer is recorded without text or,  *)
(* unless a write failed, without the message it answers.                  *)
AuditTrue ==
  \A r \in Requests :
    /\ how[r] \in {"answered", "streamed"} => audit[r] = "complete" \/ (audit[r] = "none" /\ writeFaults > 0)
    /\ how[r] = "upstreamError" => audit[r] = "failed" \/ (audit[r] = "none" /\ writeFaults > 0)
    /\ audit[r] = "complete" => how[r] \in {"answered", "streamed", "cut"}
    /\ rq[r] # "over" => audit[r] = "none"
    /\ said[r] # "none" => got[r] > 0 /\ (r \in heard \/ writeFaults > 0)

(* Whatever becomes of a request, its permit and its record agree with it. *)
RequestsSound == PermitsConserved /\ AuditTrue
=============================================================================
