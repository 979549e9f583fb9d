------------------------------ MODULE IpcPool ------------------------------
(***************************************************************************)
(* IPCPool: a fixed number of persistent connections to the daemon, handed *)
(* to concurrent callers.  Requests and replies on a connection are lines  *)
(* without a checked id: a reply belongs to the request before it only     *)
(* because nothing else is under way on that connection.                   *)
(***************************************************************************)
EXTENDS Integers, Sequences, FiniteSets

CONSTANTS
  Clients,      (* coroutines that call pool.call()                        *)
  Conns,        (* the pool's connections                                  *)
  NoConn, NoReply,
  MaxCalls,     (* bound: requests sent in a behaviour                     *)
  MaxPoolCancels,   (* bound: calls cancelled from outside (wait_for of a      *)
                (* half-open circuit breaker, a client that disconnects)   *)
  MaxPoolCrashes    (* bound: daemon crashes                                   *)

PoolRequests == 1..MaxCalls

ASSUME NamesAssumption == NoConn \notin Conns /\ NoReply \notin PoolRequests
ASSUME ConnsAssumption == IsFiniteSet(Conns)
ASSUME BoundsAssumption == MaxCalls \in Nat /\ MaxPoolCancels \in Nat /\ MaxPoolCrashes \in Nat

VARIABLES
  pool,      (* the queue of idle connections                              *)
  socket,      (* each connection: up, broken (peer gone) or closed          *)
  wire,      (* requests the daemon has yet to answer, per connection      *)
  inbox,     (* replies received but not read, per connection              *)
  pc,        (* each caller: idle, reading or failing                      *)
  heldConn,      (* the connection a caller holds                              *)
  asked,     (* the request a caller sent last                             *)
  replyGot,       (* the request whose reply its last call returned             *)
  daemonUp,    (* the daemon is running                                      *)
  sent, cancelled, poolCrashes

callVars == <<asked, replyGot, sent>>
poolVars == <<pool, socket, wire, inbox, pc, heldConn, asked, replyGot, daemonUp, sent,
              cancelled, poolCrashes>>

(* start(): one connection each, all queued.                               *)
PoolInit ==
  /\ pool \in [1..Cardinality(Conns) -> Conns]
  /\ \A k \in Conns : \E i \in DOMAIN pool : pool[i] = k
  /\ socket = [k \in Conns |-> "up"]
  /\ wire = [k \in Conns |-> <<>>] /\ inbox = [k \in Conns |-> <<>>]
  /\ pc = [c \in Clients |-> "idle"]
  /\ heldConn = [c \in Clients |-> NoConn]
  /\ asked = [c \in Clients |-> NoReply] /\ replyGot = [c \in Clients |-> NoReply]
  /\ daemonUp = TRUE
  /\ sent = 0 /\ cancelled = 0 /\ poolCrashes = 0

(* A new socket: whatever was under way on the old one never arrives.      *)
FreshSocket(k, state) ==
  /\ socket' = [socket EXCEPT ![k] = state]
  /\ wire' = [wire EXCEPT ![k] = <<>>]
  /\ inbox' = [inbox EXCEPT ![k] = <<>>]

(* Fault model: the variable is cleared before it is put back.             *)
PutBackCleared(c) ==
  /\ heldConn' = [heldConn EXCEPT ![c] = NoConn]
  /\ pool' = Append(pool, heldConn'[c])
  /\ pc' = [pc EXCEPT ![c] = "idle"]

PutBack(c) ==
  /\ pool' = Append(pool, heldConn[c])
  /\ heldConn' = [heldConn EXCEPT ![c] = NoConn]
  /\ pc' = [pc EXCEPT ![c] = "idle"]

-----------------------------------------------------------------------------
(* Take the connection that was idle longest.                              *)
TakeConn(c, state) ==
  /\ pc[c] = "idle" /\ pool # <<>> /\ sent < MaxCalls
  /\ pool' = Tail(pool)
  /\ heldConn' = [heldConn EXCEPT ![c] = Head(pool)]
  /\ pc' = [pc EXCEPT ![c] = state]
  /\ sent' = sent + 1
  /\ asked' = [asked EXCEPT ![c] = sent + 1]
  /\ replyGot' = [replyGot EXCEPT ![c] = NoReply]
  /\ UNCHANGED <<daemonUp, cancelled, poolCrashes>>

SendOnOpen(c) ==
  /\ TakeConn(c, "reading")
  /\ socket[Head(pool)] = "up"
  /\ wire' = [wire EXCEPT ![Head(pool)] = Append(@, sent + 1)]
  /\ UNCHANGED <<socket, inbox>>

(* A closed connection is opened first.                                    *)
SendOnNew(c) ==
  /\ TakeConn(c, "reading")
  /\ socket[Head(pool)] = "closed" /\ daemonUp
  /\ socket' = [socket EXCEPT ![Head(pool)] = "up"]
  /\ wire' = [wire EXCEPT ![Head(pool)] = <<sent + 1>>]
  /\ inbox' = [inbox EXCEPT ![Head(pool)] = <<>>]

(* The write or the connect fails.                                         *)
SendBroken(c) ==
  /\ TakeConn(c, "failing")
  /\ socket[Head(pool)] = "broken" \/ (socket[Head(pool)] = "closed" /\ ~daemonUp)
  /\ FreshSocket(Head(pool), "closed")

(* readline() returns the first line in the buffer.                        *)
Read(c) ==
  /\ pc[c] = "reading" /\ inbox[heldConn[c]] # <<>>
  /\ inbox' = [inbox EXCEPT ![heldConn[c]] = Tail(@)]
  /\ replyGot' = [replyGot EXCEPT ![c] = Head(inbox[heldConn[c]])]
  /\ PutBack(c)
  /\ UNCHANGED <<socket, wire, asked, sent, daemonUp, cancelled, poolCrashes>>

(* The line is an error reply: the call raises, the handler closes.        *)
ReadError(c) ==
  /\ pc[c] = "reading" /\ inbox[heldConn[c]] # <<>>
  /\ FreshSocket(heldConn[c], "closed")
  /\ pc' = [pc EXCEPT ![c] = "failing"]
  /\ UNCHANGED <<pool, heldConn, callVars, daemonUp, cancelled, poolCrashes>>

(* Fault models: a timeout that no handler catches, so that only the       *)
(* finally clause runs; a read without a timeout.                          *)
ReadFailsUncaught(c) ==
  /\ pc[c] = "reading" /\ inbox[heldConn[c]] = <<>>
  /\ PutBack(c)
  /\ UNCHANGED <<socket, wire, inbox, callVars, daemonUp, cancelled, poolCrashes>>

ReadFailsAtEof(c) ==
  /\ pc[c] = "reading" /\ inbox[heldConn[c]] = <<>> /\ socket[heldConn[c]] = "broken"
  /\ FreshSocket(heldConn[c], "closed")
  /\ pc' = [pc EXCEPT ![c] = "failing"]
  /\ UNCHANGED <<pool, heldConn, callVars, daemonUp, cancelled, poolCrashes>>

(* No line within 10 s, or end of file: the connection is closed.          *)
ReadFails(c) ==
  /\ pc[c] = "reading" /\ inbox[heldConn[c]] = <<>>
  /\ FreshSocket(heldConn[c], "closed")
  /\ pc' = [pc EXCEPT ![c] = "failing"]
  /\ UNCHANGED <<pool, heldConn, callVars, daemonUp, cancelled, poolCrashes>>

(* pool.call's handler has closed it, tries to reconnect and puts it back. *)
Repair(c) ==
  /\ pc[c] = "failing"
  /\ FreshSocket(heldConn[c], IF daemonUp THEN "up" ELSE "closed")
  /\ PutBack(c)
  /\ UNCHANGED <<callVars, daemonUp, cancelled, poolCrashes>>

(* Fault model: without a finally clause a cancelled call keeps its        *)
(* connection for good.                                                    *)
CancelLeaks(c) ==
  /\ pc[c] # "idle" /\ cancelled < MaxPoolCancels
  /\ cancelled' = cancelled + 1
  /\ heldConn' = [heldConn EXCEPT ![c] = NoConn] /\ pc' = [pc EXCEPT ![c] = "idle"]
  /\ UNCHANGED <<pool, socket, wire, inbox, callVars, daemonUp, poolCrashes>>

(* CancelledError is no Exception: only the finally clause runs.           *)
CancelCall(c) ==
  /\ pc[c] # "idle" /\ cancelled < MaxPoolCancels
  /\ cancelled' = cancelled + 1
  /\ PutBack(c)
  /\ UNCHANGED <<socket, wire, inbox, callVars, daemonUp, poolCrashes>>

-----------------------------------------------------------------------------
(* The daemon answers the requests of a connection one after the other.    *)
DaemonAnswers(k) ==
  /\ daemonUp /\ socket[k] = "up" /\ wire[k] # <<>>
  /\ inbox' = [inbox EXCEPT ![k] = Append(@, Head(wire[k]))]
  /\ wire' = [wire EXCEPT ![k] = Tail(@)]
  /\ UNCHANGED <<pool, socket, pc, heldConn, callVars, daemonUp, cancelled, poolCrashes>>

DaemonCrash ==
  /\ daemonUp /\ poolCrashes < MaxPoolCrashes
  /\ poolCrashes' = poolCrashes + 1
  /\ daemonUp' = FALSE
  /\ socket' = [k \in Conns |-> IF socket[k] = "up" THEN "broken" ELSE socket[k]]
  /\ wire' = [k \in Conns |-> <<>>]
  /\ UNCHANGED <<pool, inbox, pc, heldConn, callVars, cancelled>>

DaemonStart ==
  /\ ~daemonUp
  /\ daemonUp' = TRUE
  /\ UNCHANGED <<pool, socket, wire, inbox, pc, heldConn, callVars, cancelled, poolCrashes>>

CallStep(c) == Read(c) \/ ReadError(c) \/ ReadFails(c) \/ Repair(c)

PoolNext ==
  \/ \E c \in Clients : SendOnOpen(c) \/ SendOnNew(c) \/ SendBroken(c) \/ CallStep(c) \/ CancelCall(c)
  \/ \E k \in Conns : DaemonAnswers(k)
  \/ DaemonCrash \/ DaemonStart

PoolSpec == PoolInit /\ [][PoolNext]_poolVars

-----------------------------------------------------------------------------
PoolTypeOK ==
  /\ pool \in Seq(Conns)
  /\ socket \in [Conns -> {"up", "broken", "closed"}]
  /\ wire \in [Conns -> Seq(PoolRequests)] /\ inbox \in [Conns -> Seq(PoolRequests)]
  /\ pc \in [Clients -> {"idle", "reading", "failing"}]
  /\ heldConn \in [Clients -> Conns \union {NoConn}]
  /\ asked \in [Clients -> PoolRequests \union {NoReply}]
  /\ replyGot \in [Clients -> PoolRequests \union {NoReply}]
  /\ daemonUp \in BOOLEAN
  /\ sent \in 0..MaxCalls /\ cancelled \in Nat /\ poolCrashes \in Nat

(* Every connection is in the pool once or held by one caller: none leaks, *)
(* none is shared, even when calls are cancelled.                          *)
ConnsConserved ==
  \A k \in Conns :
    Cardinality({i \in DOMAIN pool : pool[i] = k})
      + Cardinality({c \in Clients : heldConn[c] = k}) = 1

(* While no call has been cancelled, a call returns the reply to its own   *)
(* request.                                                                *)
OwnReplyUncancelled ==
  cancelled = 0 => \A c \in Clients : replyGot[c] # NoReply => replyGot[c] = asked[c]

(* Calls share connections without losing one or mixing replies up.        *)
PoolSound == ConnsConserved /\ OwnReplyUncancelled

(* A call that has its connection ends and gives it back.                  *)
CallsEnd == \A c \in Clients : (pc[c] # "idle") ~> (pc[c] = "idle")

(* ipc_pool.py closes a connection whose reply never arrived: "protocol is *)
(* desynced. Must close so the pool does not reuse this connection".  Then *)
(* every call returns the reply to its own request.                        *)
OwnReply == \A c \in Clients : replyGot[c] # NoReply => replyGot[c] = asked[c]
=============================================================================
