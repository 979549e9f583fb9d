--------------------------- MODULE ClientProofs ---------------------------
(***************************************************************************)
(* The clients' side of the daemon: the pool of IPC connections, the       *)
(* circuit breaker, the tunnel manager, the forward and MITM proxy and the *)
(* adapters of the clients, for any number of callers, connections,        *)
(* adapters, tunnels, observations and requests.                           *)
(***************************************************************************)
EXTENDS IpcPool, CircuitBreaker, Tunnel, ConnectProxy, Adapters, FiniteSetTheorems,
        SequenceTheorems, TLAPS

-----------------------------------------------------------------------------
(* The pool of IPC connections (ipc_pool.py).                              *)
(* A connection is at one place: once in the queue, or with one caller,    *)
(* and a caller that is at work has one.                                   *)
OnePlace ==
  /\ \A i, j \in DOMAIN pool : pool[i] = pool[j] => i = j
  /\ \A i \in DOMAIN pool, c \in Clients : pool[i] # heldConn[c]
  /\ \A c, d \in Clients : heldConn[c] = heldConn[d] => c = d \/ heldConn[c] = NoConn
  /\ \A k \in Conns : (\E i \in DOMAIN pool : pool[i] = k) \/ (\E c \in Clients : heldConn[c] = k)
  /\ \A c \in Clients : pc[c] = "idle" <=> heldConn[c] = NoConn

(* Nothing is under way on a connection but the request of the caller that *)
(* reads from it, or the reply to that request.                            *)
Quiet(k) == wire[k] = <<>> /\ inbox[k] = <<>>
Reading(c, k) == pc[c] = "reading" /\ heldConn[c] = k
OnlyOwn ==
  /\ \A k \in Conns : (\A c \in Clients : ~ Reading(c, k)) => Quiet(k)
  /\ \A c \in Clients, k \in Conns :
       Reading(c, k) => \/ Quiet(k)
                        \/ wire[k] = <<asked[c]>> /\ inbox[k] = <<>>
                        \/ wire[k] = <<>> /\ inbox[k] = <<asked[c]>>

PoolInv == PoolTypeOK /\ OnePlace /\ (cancelled = 0 => OnlyOwn) /\ OwnReplyUncancelled

-----------------------------------------------------------------------------
(* As many places as connections, all connections in them: each once.      *)
LEMMA StartsWithEach ==
  ASSUME PoolInit
  PROVE  pool \in Seq(Conns) /\ \A i, j \in DOMAIN pool : pool[i] = pool[j] => i = j
<1> DEFINE n == Cardinality(Conns)
<1>1. n \in Nat
  BY FS_CardinalityType, ConnsAssumption
<1>2. pool \in [1..n -> Conns] /\ \A k \in Conns : \E i \in 1..n : pool[i] = k
  BY DEF PoolInit
<1>3. IsFiniteSet(1..n) /\ Cardinality(1..n) = n
  BY <1>1, FS_Interval
<1>4. pool \in Surjection(1..n, Conns)
  BY <1>2 DEF Surjection
<1>5. pool \in Injection(1..n, Conns)
  BY <1>3, <1>4, FS_Surjection
<1>6. pool \in Seq(Conns)
  BY <1>1, <1>2
<1>7. QED
  BY <1>2, <1>5, <1>6 DEF Injection, IsInjective

LEMMA PoolInvInit == PoolInit => PoolInv
<1> SUFFICES ASSUME PoolInit PROVE PoolInv
  OBVIOUS
<1>1. PoolTypeOK
  BY StartsWithEach, BoundsAssumption, EmptySeq DEF PoolInit, PoolTypeOK
<1>2. OnePlace
  <2>1. NoConn \notin Conns /\ \A i \in DOMAIN pool : pool[i] \in Conns
    BY NamesAssumption, StartsWithEach, ElementOfSeq, LenProperties
  <2>2. QED
    BY <2>1, StartsWithEach DEF PoolInit, OnePlace
<1>3. OnlyOwn /\ OwnReplyUncancelled
  BY DEF PoolInit, OnlyOwn, Quiet, Reading, OwnReplyUncancelled
<1>4. QED
  BY <1>1, <1>2, <1>3 DEF PoolInv

-----------------------------------------------------------------------------
(* Taking the first connection and putting one back.                       *)
LEMMA TakeConnOnePlace ==
  ASSUME PoolTypeOK, OnePlace, NEW c \in Clients, NEW place \in {"reading", "failing"},
         TakeConn(c, place)
  PROVE  /\ OnePlace' /\ Head(pool) \in Conns /\ pool' \in Seq(Conns)
         /\ \A d \in Clients : heldConn[d] # Head(pool)
         /\ heldConn' = [heldConn EXCEPT ![c] = Head(pool)]
<1>1. /\ pool \in Seq(Conns) /\ pool # <<>> /\ pool' = Tail(pool)
      /\ heldConn' = [heldConn EXCEPT ![c] = Head(pool)]
      /\ pc' = [pc EXCEPT ![c] = place] /\ pc[c] = "idle"
  BY DEF TakeConn, PoolTypeOK
<1>2. /\ Len(pool) \in Nat \ {0} /\ DOMAIN pool = 1..Len(pool)
      /\ Head(pool) = pool[1] /\ Head(pool) \in Conns /\ Tail(pool) \in Seq(Conns)
      /\ DOMAIN pool' = 1..(Len(pool) - 1)
      /\ \A i \in DOMAIN pool' : pool'[i] = pool[i + 1]
  BY <1>1, HeadTailProperties, EmptySeq, LenProperties
<1>3. heldConn[c] = NoConn /\ Head(pool) # NoConn
  BY <1>1, <1>2, NamesAssumption DEF OnePlace
<1>4. \A i \in DOMAIN pool' : i + 1 \in DOMAIN pool /\ i + 1 # 1
  BY <1>2
<1>5. \A i, j \in DOMAIN pool' : pool'[i] = pool'[j] => i = j
  <2> SUFFICES ASSUME NEW i \in DOMAIN pool', NEW j \in DOMAIN pool', pool'[i] = pool'[j]
               PROVE  i = j
    OBVIOUS
  <2>1. i + 1 = j + 1
    BY <1>2, <1>4 DEF OnePlace
  <2>2. QED
    BY <1>2, <2>1
<1>6. \A i \in DOMAIN pool' : pool'[i] # pool[1]
  <2>1. 1 \in DOMAIN pool
    BY <1>2
  <2>2. QED
    BY <1>2, <1>4, <2>1 DEF OnePlace
<1>7. \A d \in Clients : heldConn[d] # Head(pool)
  <2>1. 1 \in DOMAIN pool
    BY <1>2
  <2>2. QED
    BY <1>2, <2>1 DEF OnePlace
<1>8. \A i \in DOMAIN pool', d \in Clients : pool'[i] # heldConn'[d]
  BY <1>1, <1>2, <1>4, <1>6 DEF OnePlace, PoolTypeOK
<1>9. \A d, e \in Clients : heldConn'[d] = heldConn'[e] => d = e \/ heldConn'[d] = NoConn
  BY <1>1, <1>7 DEF OnePlace, PoolTypeOK
<1>10. ASSUME NEW k \in Conns
       PROVE  (\E i \in DOMAIN pool' : pool'[i] = k) \/ (\E d \in Clients : heldConn'[d] = k)
  <2>1. CASE \E d \in Clients : heldConn[d] = k
    BY <1>1, <1>3, <2>1, NamesAssumption DEF PoolTypeOK
  <2>2. ASSUME NEW i \in DOMAIN pool, pool[i] = k, i # 1
        PROVE  \E j \in DOMAIN pool' : pool'[j] = k
    <3>1. i - 1 \in DOMAIN pool' /\ (i - 1) + 1 = i
      BY <1>2, <2>2
    <3>2. QED
      BY <1>2, <2>2, <3>1
  <2>3. CASE pool[1] = k
    BY <1>1, <1>2, <2>3 DEF PoolTypeOK
  <2>4. QED
    BY <2>1, <2>2, <2>3 DEF OnePlace
<1>11. \A d \in Clients : pc'[d] = "idle" <=> heldConn'[d] = NoConn
  BY <1>1, <1>3 DEF OnePlace, PoolTypeOK
<1>12. QED
  BY <1>1, <1>2, <1>5, <1>7, <1>8, <1>9, <1>10, <1>11 DEF OnePlace

LEMMA PutBackOnePlace ==
  ASSUME PoolTypeOK, OnePlace, NEW c \in Clients, pc[c] # "idle", PutBack(c)
  PROVE  OnePlace' /\ pool' \in Seq(Conns)
<1>1. /\ pool \in Seq(Conns) /\ heldConn[c] \in Conns
      /\ pool' = Append(pool, heldConn[c])
      /\ heldConn' = [heldConn EXCEPT ![c] = NoConn] /\ pc' = [pc EXCEPT ![c] = "idle"]
  BY DEF PutBack, PoolTypeOK, OnePlace
<1>2. /\ Len(pool) \in Nat /\ DOMAIN pool = 1..Len(pool)
      /\ pool' \in Seq(Conns) /\ DOMAIN pool' = 1..(Len(pool) + 1)
      /\ \A i \in DOMAIN pool : pool'[i] = pool[i] /\ i \in DOMAIN pool'
      /\ pool'[Len(pool) + 1] = heldConn[c]
  BY <1>1, AppendProperties, LenProperties
<1>3. \A i \in DOMAIN pool' : i \in DOMAIN pool \/ i = Len(pool) + 1
  BY <1>2
<1>4. NoConn \notin Conns /\ \A i \in DOMAIN pool' : pool'[i] \in Conns
  BY <1>2, NamesAssumption, ElementOfSeq, LenProperties
<1>5. \A i, j \in DOMAIN pool' : pool'[i] = pool'[j] => i = j
  BY <1>2, <1>3 DEF OnePlace
<1>6. \A i \in DOMAIN pool', d \in Clients : pool'[i] # heldConn'[d]
  BY <1>1, <1>2, <1>3, <1>4 DEF OnePlace, PoolTypeOK
<1>7. \A d, e \in Clients : heldConn'[d] = heldConn'[e] => d = e \/ heldConn'[d] = NoConn
  BY <1>1 DEF OnePlace, PoolTypeOK
<1>8. ASSUME NEW k \in Conns
      PROVE  (\E i \in DOMAIN pool' : pool'[i] = k) \/ (\E d \in Clients : heldConn'[d] = k)
  <2>1. Len(pool) + 1 \in DOMAIN pool'
    BY <1>2
  <2>2. CASE k = heldConn[c]
    BY <1>2, <2>1, <2>2
  <2>3. ASSUME NEW i \in DOMAIN pool, pool[i] = k
        PROVE  \E j \in DOMAIN pool' : pool'[j] = k
    BY <1>2, <2>3
  <2>4. ASSUME NEW d \in Clients, heldConn[d] = k, k # heldConn[c]
        PROVE  heldConn'[d] = k
    BY <1>1, <2>4 DEF PoolTypeOK
  <2>5. QED
    BY <2>2, <2>3, <2>4 DEF OnePlace
<1>9. \A d \in Clients : pc'[d] = "idle" <=> heldConn'[d] = NoConn
  BY <1>1 DEF OnePlace, PoolTypeOK
<1>10. QED
  BY <1>2, <1>5, <1>6, <1>7, <1>8, <1>9 DEF OnePlace

LEMMA OnePlaceStep == PoolInv /\ [PoolNext]_poolVars => OnePlace'
<1> SUFFICES ASSUME PoolTypeOK, OnePlace, [PoolNext]_poolVars
             PROVE  OnePlace'
  BY DEF PoolInv
<1>1. CASE UNCHANGED <<pool, heldConn, pc>>
  BY <1>1 DEF OnePlace
<1>2. ASSUME NEW c \in Clients, SendOnOpen(c) \/ SendOnNew(c) \/ SendBroken(c)
      PROVE  OnePlace'
  BY <1>2, TakeConnOnePlace DEF SendOnOpen, SendOnNew, SendBroken
<1>3. ASSUME NEW c \in Clients, Read(c) \/ Repair(c) \/ CancelCall(c)
      PROVE  OnePlace'
  BY <1>3, PutBackOnePlace DEF Read, Repair, CancelCall
<1>4. ASSUME NEW c \in Clients, ReadError(c) \/ ReadFails(c)
      PROVE  OnePlace'
  <2>1. /\ pool' = pool /\ heldConn' = heldConn /\ pc[c] = "reading"
        /\ pc' = [pc EXCEPT ![c] = "failing"]
    BY <1>4 DEF ReadError, ReadFails
  <2>2. \A d \in Clients : pc'[d] = "idle" <=> pc[d] = "idle"
    BY <2>1 DEF PoolTypeOK
  <2>3. QED
    BY <2>1, <2>2 DEF OnePlace
<1>5. CASE DaemonCrash \/ DaemonStart \/ (\E k \in Conns : DaemonAnswers(k)) \/ UNCHANGED poolVars
  BY <1>1, <1>5 DEF DaemonCrash, DaemonStart, DaemonAnswers, poolVars
<1>6. QED
  BY <1>2, <1>3, <1>4, <1>5 DEF PoolNext, CallStep

-----------------------------------------------------------------------------
LEMMA FreshSocketType ==
  ASSUME PoolTypeOK, NEW k \in Conns, NEW place \in {"up", "broken", "closed"},
         FreshSocket(k, place)
  PROVE  /\ socket' \in [Conns -> {"up", "broken", "closed"}]
         /\ wire' \in [Conns -> Seq(PoolRequests)] /\ inbox' \in [Conns -> Seq(PoolRequests)]
  BY EmptySeq DEF PoolTypeOK, FreshSocket

LEMMA TakeConnType ==
  ASSUME PoolTypeOK, OnePlace, NEW c \in Clients, NEW place \in {"reading", "failing"},
         TakeConn(c, place)
  PROVE  /\ pool' \in Seq(Conns) /\ heldConn' \in [Clients -> Conns \union {NoConn}]
         /\ pc' \in [Clients -> {"idle", "reading", "failing"}]
         /\ asked' \in [Clients -> PoolRequests \union {NoReply}]
         /\ replyGot' \in [Clients -> PoolRequests \union {NoReply}]
         /\ sent + 1 \in PoolRequests /\ sent' \in 0..MaxCalls
         /\ daemonUp' \in BOOLEAN /\ cancelled' \in Nat /\ poolCrashes' \in Nat
<1>1. sent + 1 \in PoolRequests /\ sent' \in 0..MaxCalls
  BY BoundsAssumption DEF PoolTypeOK, TakeConn, PoolRequests
<1>2. QED
  BY <1>1, TakeConnOnePlace DEF PoolTypeOK, TakeConn

LEMMA PutBackType ==
  ASSUME PoolTypeOK, OnePlace, NEW c \in Clients, pc[c] # "idle", PutBack(c)
  PROVE  /\ pool' \in Seq(Conns) /\ heldConn' \in [Clients -> Conns \union {NoConn}]
         /\ pc' \in [Clients -> {"idle", "reading", "failing"}]
  BY PutBackOnePlace DEF PoolTypeOK, PutBack

LEMMA PoolTypeStep == PoolInv /\ [PoolNext]_poolVars => PoolTypeOK'
<1> SUFFICES ASSUME PoolTypeOK, OnePlace, [PoolNext]_poolVars
             PROVE  PoolTypeOK'
  BY DEF PoolInv
<1>1. ASSUME NEW c \in Clients, SendOnOpen(c)
      PROVE  PoolTypeOK'
  <2>1. TakeConn(c, "reading") /\ Head(pool) \in Conns /\ sent + 1 \in PoolRequests
    BY <1>1, TakeConnOnePlace, TakeConnType DEF SendOnOpen
  <2>2. wire' \in [Conns -> Seq(PoolRequests)]
    BY <1>1, <2>1, AppendProperties DEF SendOnOpen, PoolTypeOK
  <2>3. socket' = socket /\ inbox' = inbox
    BY <1>1 DEF SendOnOpen
  <2>4. QED
    BY <2>1, <2>2, <2>3, TakeConnType DEF PoolTypeOK
<1>2. ASSUME NEW c \in Clients, SendOnNew(c)
      PROVE  PoolTypeOK'
  <2>1. TakeConn(c, "reading") /\ Head(pool) \in Conns /\ sent + 1 \in PoolRequests
    BY <1>2, TakeConnOnePlace, TakeConnType DEF SendOnNew
  <2>2. <<sent + 1>> \in Seq(PoolRequests) /\ <<>> \in Seq(PoolRequests)
    BY <2>1
  <2>3. /\ socket' \in [Conns -> {"up", "broken", "closed"}]
        /\ wire' \in [Conns -> Seq(PoolRequests)] /\ inbox' \in [Conns -> Seq(PoolRequests)]
    BY <1>2, <2>1, <2>2 DEF SendOnNew, PoolTypeOK
  <2>4. QED
    BY <2>1, <2>3, TakeConnType DEF PoolTypeOK
<1>3. ASSUME NEW c \in Clients, SendBroken(c)
      PROVE  PoolTypeOK'
  <2>1. TakeConn(c, "failing") /\ Head(pool) \in Conns /\ FreshSocket(Head(pool), "closed")
    BY <1>3, TakeConnOnePlace DEF SendBroken
  <2>2. QED
    BY <2>1, TakeConnType, FreshSocketType DEF PoolTypeOK
<1>4. ASSUME NEW c \in Clients, Read(c)
      PROVE  PoolTypeOK'
  <2>1. heldConn[c] \in Conns /\ pc[c] = "reading" /\ PutBack(c)
    BY <1>4 DEF Read, OnePlace, PoolTypeOK
  <2>2. /\ Head(inbox[heldConn[c]]) \in PoolRequests
        /\ Tail(inbox[heldConn[c]]) \in Seq(PoolRequests)
    BY <1>4, <2>1, HeadTailProperties DEF Read, PoolTypeOK
  <2>3. /\ inbox' \in [Conns -> Seq(PoolRequests)]
        /\ replyGot' \in [Clients -> PoolRequests \union {NoReply}]
        /\ UNCHANGED <<socket, wire, asked, sent, daemonUp, cancelled, poolCrashes>>
    BY <1>4, <2>1, <2>2 DEF Read, PoolTypeOK
  <2>4. QED
    BY <2>1, <2>3, PutBackType DEF PoolTypeOK
<1>5. ASSUME NEW c \in Clients, ReadError(c) \/ ReadFails(c)
      PROVE  PoolTypeOK'
  <2>1. heldConn[c] \in Conns /\ FreshSocket(heldConn[c], "closed")
    BY <1>5 DEF ReadError, ReadFails, OnePlace, PoolTypeOK
  <2>2. /\ pc' \in [Clients -> {"idle", "reading", "failing"}]
        /\ UNCHANGED <<pool, heldConn, asked, replyGot, sent, daemonUp, cancelled, poolCrashes>>
    BY <1>5 DEF ReadError, ReadFails, PoolTypeOK, callVars
  <2>3. QED
    BY <2>1, <2>2, FreshSocketType DEF PoolTypeOK
<1>6. ASSUME NEW c \in Clients, Repair(c)
      PROVE  PoolTypeOK'
  <2>1. /\ heldConn[c] \in Conns /\ pc[c] = "failing" /\ PutBack(c)
        /\ \E place \in {"up", "broken", "closed"} : FreshSocket(heldConn[c], place)
        /\ UNCHANGED <<asked, replyGot, sent, daemonUp, cancelled, poolCrashes>>
    BY <1>6 DEF Repair, OnePlace, PoolTypeOK, callVars
  <2>2. QED
    BY <2>1, PutBackType, FreshSocketType DEF PoolTypeOK
<1>7. ASSUME NEW c \in Clients, CancelCall(c)
      PROVE  PoolTypeOK'
  <2>1. /\ pc[c] # "idle" /\ PutBack(c) /\ cancelled' \in Nat
        /\ UNCHANGED <<socket, wire, inbox, asked, replyGot, sent, daemonUp, poolCrashes>>
    BY <1>7 DEF CancelCall, PoolTypeOK, callVars
  <2>2. QED
    BY <2>1, PutBackType DEF PoolTypeOK
<1>8. ASSUME NEW k \in Conns, DaemonAnswers(k)
      PROVE  PoolTypeOK'
  <2>1. Head(wire[k]) \in PoolRequests /\ Tail(wire[k]) \in Seq(PoolRequests)
    BY <1>8, HeadTailProperties DEF DaemonAnswers, PoolTypeOK
  <2>2. Append(inbox[k], Head(wire[k])) \in Seq(PoolRequests)
    BY <2>1, AppendProperties DEF PoolTypeOK
  <2>3. QED
    BY <1>8, <2>1, <2>2 DEF DaemonAnswers, PoolTypeOK, callVars
<1>9. CASE DaemonCrash
  <2>1. socket' \in [Conns -> {"up", "broken", "closed"}] /\ wire' \in [Conns -> Seq(PoolRequests)]
    BY <1>9, EmptySeq DEF DaemonCrash, PoolTypeOK
  <2>2. /\ UNCHANGED <<pool, inbox, pc, heldConn, asked, replyGot, sent, cancelled>>
        /\ poolCrashes' = poolCrashes + 1
    BY <1>9 DEF DaemonCrash, callVars
  <2>3. daemonUp' = FALSE
    BY <1>9, Zenon DEF DaemonCrash
  <2>4. daemonUp' \in BOOLEAN
    BY <2>3
  <2>5. QED
    BY <2>1, <2>2, <2>4 DEF PoolTypeOK
<1>10. CASE DaemonStart \/ UNCHANGED poolVars
  BY <1>10 DEF DaemonStart, poolVars, PoolTypeOK, callVars
<1>11. QED
  BY <1>1, <1>2, <1>3, <1>4, <1>5, <1>6, <1>7, <1>8, <1>9, <1>10 DEF PoolNext, CallStep

-----------------------------------------------------------------------------
(* What may be under way on the connection c reads from.                   *)
Own(c, k) == \/ Quiet(k)
             \/ wire[k] = <<asked[c]>> /\ inbox[k] = <<>>
             \/ wire[k] = <<>> /\ inbox[k] = <<asked[c]>>

(* A connection a caller takes was quiet; the others keep their callers.   *)
LEMMA TakenWasQuiet ==
  ASSUME PoolTypeOK, OnePlace, OnlyOwn, NEW c \in Clients, NEW place \in {"reading", "failing"},
         TakeConn(c, place)
  PROVE  /\ Head(pool) \in Conns /\ Quiet(Head(pool))
         /\ \A d \in Clients, k \in Conns :
              Reading(d, k)' <=> IF d = c THEN place = "reading" /\ k = Head(pool)
                                          ELSE Reading(d, k)
         /\ \A d \in Clients : ~ Reading(d, Head(pool)) /\ (d # c => asked'[d] = asked[d])
         /\ ~ \E k \in Conns : Reading(c, k)
<1>1. /\ Head(pool) \in Conns /\ \A d \in Clients : heldConn[d] # Head(pool)
      /\ heldConn' = [heldConn EXCEPT ![c] = Head(pool)] /\ pc' = [pc EXCEPT ![c] = place]
      /\ pc[c] = "idle" /\ asked' = [asked EXCEPT ![c] = sent + 1]
  BY TakeConnOnePlace DEF TakeConn
<1>2. QED
  BY <1>1 DEF OnlyOwn, Reading, PoolTypeOK

LEMMA OnlyOwnStep ==
  ASSUME PoolTypeOK, OnePlace, OnlyOwn, cancelled' = cancelled, [PoolNext]_poolVars
  PROVE  OnlyOwn'
<1>1. ASSUME NEW c \in Clients, SendOnOpen(c) \/ SendOnNew(c)
      PROVE  OnlyOwn'
  <2> DEFINE h == Head(pool)
  <2>1. TakeConn(c, "reading")
    BY <1>1 DEF SendOnOpen, SendOnNew
  <2>2. asked'[c] = sent + 1
    BY <2>1 DEF TakeConn, PoolTypeOK
  <2>3. wire'[h] = <<sent + 1>> /\ inbox'[h] = <<>>
    <3>1. h \in Conns /\ wire[h] = <<>> /\ inbox[h] = <<>>
      BY <2>1, TakenWasQuiet DEF Quiet
    <3>2. Append(<<>>, sent + 1) = <<sent + 1>>
      OBVIOUS
    <3>3. QED
      BY <1>1, <3>1, <3>2 DEF SendOnOpen, SendOnNew, PoolTypeOK
  <2>4. \A k \in Conns : k # h => wire'[k] = wire[k] /\ inbox'[k] = inbox[k]
    BY <1>1 DEF SendOnOpen, SendOnNew, PoolTypeOK
  <2>5. ASSUME NEW k \in Conns, \A d \in Clients : ~ Reading(d, k)'
        PROVE  Quiet(k)'
    <3>1. k # h /\ \A d \in Clients : ~ Reading(d, k)
      BY <2>1, <2>5, TakenWasQuiet
    <3>2. QED
      BY <2>4, <3>1 DEF OnlyOwn, Quiet
  <2>6. ASSUME NEW d \in Clients, NEW k \in Conns, Reading(d, k)'
        PROVE  Own(d, k)'
    <3>1. CASE d = c
      <4>1. k = h
        BY <2>1, <2>6, <3>1, TakenWasQuiet
      <4>2. QED
        BY <2>2, <2>3, <3>1, <4>1 DEF Own
    <3>2. CASE d # c
      <4>1. Reading(d, k) /\ k # h /\ asked'[d] = asked[d]
        BY <2>1, <2>6, <3>2, TakenWasQuiet
      <4>2. QED
        BY <2>4, <4>1 DEF Own, OnlyOwn, Quiet
    <3>3. QED
      BY <3>1, <3>2
  <2>7. QED
    BY <2>5, <2>6 DEF OnlyOwn, Own
<1>2. ASSUME NEW c \in Clients, SendBroken(c)
      PROVE  OnlyOwn'
  <2> DEFINE h == Head(pool)
  <2>1. TakeConn(c, "failing") /\ FreshSocket(h, "closed")
    BY <1>2 DEF SendBroken
  <2>2. wire' = wire /\ inbox' = inbox
    <3>1. h \in Conns /\ wire[h] = <<>> /\ inbox[h] = <<>>
      BY <2>1, TakenWasQuiet DEF Quiet
    <3>2. QED
      BY <2>1, <3>1 DEF FreshSocket, PoolTypeOK
  <2>3. \A d \in Clients, k \in Conns :
          (Reading(d, k)' <=> Reading(d, k)) /\ (Reading(d, k) => asked'[d] = asked[d])
    BY <2>1, TakenWasQuiet
  <2>4. QED
    BY <2>2, <2>3 DEF OnlyOwn, Quiet
<1>3. ASSUME NEW c \in Clients, Read(c) \/ ReadError(c) \/ ReadFails(c) \/ Repair(c)
      PROVE  OnlyOwn'
  <2> DEFINE h == heldConn[c]
  <2>1. h \in Conns /\ pc[c] \in {"reading", "failing"}
    BY <1>3 DEF Read, ReadError, ReadFails, Repair, OnePlace, PoolTypeOK
  <2>2. wire'[h] = <<>> /\ inbox'[h] = <<>>
    <3>1. CASE Read(c)
      <4>1. inbox[h] = <<asked[c]>> /\ wire[h] = <<>>
        BY <2>1, <3>1 DEF Read, OnlyOwn, Reading, Quiet
      <4>2. Tail(<<asked[c]>>) = <<>>
        OBVIOUS
      <4>3. QED
        BY <2>1, <3>1, <4>1, <4>2 DEF Read, PoolTypeOK
    <3>2. CASE ReadError(c) \/ ReadFails(c) \/ Repair(c)
      BY <2>1, <3>2 DEF ReadError, ReadFails, Repair, FreshSocket, PoolTypeOK
    <3>3. QED
      BY <1>3, <3>1, <3>2
  <2>3. \A k \in Conns : k # h => wire'[k] = wire[k] /\ inbox'[k] = inbox[k]
    BY <1>3, <2>1 DEF Read, ReadError, ReadFails, Repair, FreshSocket, PoolTypeOK
  <2>4. asked' = asked
    BY <1>3 DEF Read, ReadError, ReadFails, Repair, callVars
  <2>5. \A d \in Clients, k \in Conns : Reading(d, k)' <=> d # c /\ Reading(d, k)
    BY <1>3, <2>1, NamesAssumption
       DEF Read, ReadError, ReadFails, Repair, PutBack, Reading, PoolTypeOK
  <2>6. \A d \in Clients : Reading(d, h) => d = c
    BY <2>1, NamesAssumption DEF Reading, OnePlace
  <2>7. \A k \in Conns : k # h => ~ Reading(c, k)
    BY DEF Reading
  <2>8. ASSUME NEW k \in Conns, \A d \in Clients : ~ Reading(d, k)'
        PROVE  Quiet(k)'
    BY <2>2, <2>3, <2>5, <2>7, <2>8 DEF OnlyOwn, Quiet
  <2>9. ASSUME NEW d \in Clients, NEW k \in Conns, Reading(d, k)'
        PROVE  Own(d, k)'
    BY <2>2, <2>3, <2>4, <2>5, <2>6, <2>9 DEF OnlyOwn, Quiet, Own
  <2>10. QED
    BY <2>8, <2>9 DEF OnlyOwn, Own
<1>4. ASSUME NEW h \in Conns, DaemonAnswers(h)
      PROVE  OnlyOwn'
  <2>1. /\ \A d \in Clients, k \in Conns : Reading(d, k)' <=> Reading(d, k)
        /\ asked' = asked
        /\ \A k \in Conns : k # h => wire'[k] = wire[k] /\ inbox'[k] = inbox[k]
        /\ wire[h] # <<>> /\ wire'[h] = Tail(wire[h]) /\ inbox'[h] = Append(inbox[h], Head(wire[h]))
    BY <1>4 DEF DaemonAnswers, Reading, callVars, PoolTypeOK
  <2>2. ASSUME NEW d \in Clients, Reading(d, h)
        PROVE  wire'[h] = <<>> /\ inbox'[h] = <<asked[d]>>
    <3>1. wire[h] = <<asked[d]>> /\ inbox[h] = <<>>
      BY <2>1, <2>2 DEF OnlyOwn, Quiet
    <3>2. /\ Tail(<<asked[d]>>) = <<>> /\ Head(<<asked[d]>>) = asked[d]
          /\ Append(<<>>, asked[d]) = <<asked[d]>>
      OBVIOUS
    <3>3. QED
      BY <2>1, <3>1, <3>2
  <2>3. ASSUME NEW k \in Conns, \A d \in Clients : ~ Reading(d, k)'
        PROVE  Quiet(k)'
    BY <2>1, <2>3 DEF OnlyOwn, Quiet
  <2>4. ASSUME NEW d \in Clients, NEW k \in Conns, Reading(d, k)'
        PROVE  Own(d, k)'
    BY <2>1, <2>2, <2>4 DEF OnlyOwn, Quiet, Own
  <2>5. QED
    BY <2>3, <2>4 DEF OnlyOwn, Own
<1>5. CASE DaemonCrash
  <2>1. UNCHANGED <<inbox, pc, heldConn, asked>> /\ \A k \in Conns : wire'[k] = <<>>
    BY <1>5 DEF DaemonCrash, callVars
  <2>2. QED
    BY <2>1 DEF OnlyOwn, Quiet, Reading
<1>6. CASE DaemonStart \/ UNCHANGED poolVars
  BY <1>6 DEF DaemonStart, poolVars, callVars, OnlyOwn, Quiet, Reading
<1>7. ASSUME NEW c \in Clients, CancelCall(c)
      PROVE  FALSE
  BY <1>7 DEF CancelCall, PoolTypeOK
<1>8. QED
  BY <1>1, <1>2, <1>3, <1>4, <1>5, <1>6, <1>7 DEF PoolNext, CallStep

-----------------------------------------------------------------------------
LEMMA OwnReplyStep ==
  ASSUME PoolTypeOK, OnePlace, OnlyOwn, OwnReplyUncancelled, cancelled = 0, cancelled' = 0,
         [PoolNext]_poolVars
  PROVE  OwnReplyUncancelled'
<1>1. ASSUME NEW c \in Clients, SendOnOpen(c) \/ SendOnNew(c) \/ SendBroken(c)
      PROVE  OwnReplyUncancelled'
  <2>1. /\ asked' = [asked EXCEPT ![c] = sent + 1]
        /\ replyGot' = [replyGot EXCEPT ![c] = NoReply]
    BY <1>1 DEF SendOnOpen, SendOnNew, SendBroken, TakeConn
  <2>2. QED
    BY <2>1 DEF OwnReplyUncancelled, PoolTypeOK
<1>2. ASSUME NEW c \in Clients, Read(c)
      PROVE  OwnReplyUncancelled'
  <2>1. heldConn[c] \in Conns /\ Reading(c, heldConn[c]) /\ inbox[heldConn[c]] # <<>>
    BY <1>2 DEF Read, OnePlace, PoolTypeOK, Reading
  <2>2. inbox[heldConn[c]] = <<asked[c]>>
    BY <2>1 DEF OnlyOwn, Quiet
  <2>3. asked' = asked /\ replyGot' = [replyGot EXCEPT ![c] = asked[c]]
    <3>1. Head(<<asked[c]>>) = asked[c]
      OBVIOUS
    <3>2. QED
      BY <1>2, <2>2, <3>1 DEF Read
  <2>4. QED
    BY <2>3 DEF OwnReplyUncancelled, PoolTypeOK
<1>3. CASE UNCHANGED <<asked, replyGot>>
  BY <1>3 DEF OwnReplyUncancelled
<1>4. ASSUME NEW c \in Clients, ReadError(c) \/ ReadFails(c) \/ Repair(c) \/ CancelCall(c)
      PROVE  UNCHANGED <<asked, replyGot>>
  BY <1>4 DEF ReadError, ReadFails, Repair, CancelCall, callVars
<1>5. CASE DaemonCrash \/ DaemonStart \/ (\E k \in Conns : DaemonAnswers(k)) \/ UNCHANGED poolVars
  BY <1>3, <1>5 DEF DaemonCrash, DaemonStart, DaemonAnswers, callVars, poolVars
<1>6. QED
  BY <1>1, <1>2, <1>3, <1>4, <1>5 DEF PoolNext, CallStep

LEMMA CancelledGrows ==
  ASSUME PoolTypeOK, [PoolNext]_poolVars
  PROVE  cancelled' = cancelled \/ cancelled' = cancelled + 1
<1>1. ASSUME NEW c \in Clients, SendOnOpen(c) \/ SendOnNew(c) \/ SendBroken(c)
      PROVE  cancelled' = cancelled
  BY <1>1 DEF SendOnOpen, SendOnNew, SendBroken, TakeConn
<1>2. ASSUME NEW c \in Clients, CallStep(c)
      PROVE  cancelled' = cancelled
  BY <1>2 DEF CallStep, Read, ReadError, ReadFails, Repair
<1>3. ASSUME NEW c \in Clients, CancelCall(c)
      PROVE  cancelled' = cancelled + 1
  BY <1>3 DEF CancelCall
<1>4. CASE DaemonCrash \/ DaemonStart \/ (\E k \in Conns : DaemonAnswers(k)) \/ UNCHANGED poolVars
  BY <1>4 DEF DaemonCrash, DaemonStart, DaemonAnswers, poolVars
<1>5. QED
  BY <1>1, <1>2, <1>3, <1>4 DEF PoolNext

LEMMA PoolStep == PoolInv /\ [PoolNext]_poolVars => PoolInv'
<1> SUFFICES ASSUME PoolInv, [PoolNext]_poolVars
             PROVE  PoolInv'
  OBVIOUS
<1>1. PoolTypeOK' /\ OnePlace'
  BY PoolTypeStep, OnePlaceStep
<1>2. CASE cancelled' = 0
  <2>1. cancelled = 0
    BY <1>2, CancelledGrows DEF PoolInv, PoolTypeOK
  <2>2. PoolTypeOK /\ OnePlace /\ OnlyOwn /\ OwnReplyUncancelled
    BY <2>1 DEF PoolInv
  <2>3. QED
    BY <1>1, <1>2, <2>1, <2>2, OnlyOwnStep, OwnReplyStep DEF PoolInv
<1>3. CASE cancelled' # 0
  BY <1>1, <1>3 DEF PoolInv, OwnReplyUncancelled
<1>4. QED
  BY <1>2, <1>3

LEMMA OnePlaceConserves ==
  ASSUME PoolTypeOK, OnePlace
  PROVE  ConnsConserved
<1> SUFFICES ASSUME NEW k \in Conns
             PROVE  Cardinality({i \in DOMAIN pool : pool[i] = k})
                      + Cardinality({c \in Clients : heldConn[c] = k}) = 1
  BY DEF ConnsConserved
<1> DEFINE Places  == {i \in DOMAIN pool : pool[i] = k}
           Holders == {c \in Clients : heldConn[c] = k}
<1>1. \/ \E i : Places = {i} /\ Holders = {}
      \/ \E c : Holders = {c} /\ Places = {}
  <2>1. CASE \E i \in DOMAIN pool : pool[i] = k
    <3>1. PICK i \in DOMAIN pool : pool[i] = k
      BY <2>1
    <3>2. Places = {i} /\ Holders = {}
      BY <3>1 DEF OnePlace
    <3>3. QED
      BY <3>2
  <2>2. CASE ~ \E i \in DOMAIN pool : pool[i] = k
    <3>1. PICK c \in Clients : heldConn[c] = k
      BY <2>2 DEF OnePlace
    <3>2. Holders = {c} /\ Places = {}
      BY <2>2, <3>1, NamesAssumption DEF OnePlace
    <3>3. QED
      BY <3>2
  <2>3. QED
    BY <2>1, <2>2
<1> HIDE DEF Places, Holders
<1>2. Cardinality({}) = 0 /\ \A x : Cardinality({x}) = 1
  BY FS_EmptySet, FS_Singleton
<1>3. \/ Cardinality(Places) = 1 /\ Cardinality(Holders) = 0
      \/ Cardinality(Places) = 0 /\ Cardinality(Holders) = 1
  BY <1>1, <1>2, Zenon
<1>4. QED
  BY <1>3 DEF Places, Holders

(* No connection of the pool leaks or is shared, however calls fail, time  *)
(* out or are cancelled; and as long as none is cancelled, every reply is  *)
(* returned to the call that asked for it (ipc_pool.py, call and _send).   *)
THEOREM PoolAlwaysSound == PoolSpec => []PoolSound
<1>1. PoolInv => PoolSound
  BY OnePlaceConserves DEF PoolInv, PoolSound
<1>2. QED
  BY <1>1, PoolInvInit, PoolStep, PTL DEF PoolSpec

(* What is queued and held are connections of the pool, and what travels   *)
(* on them are requests that were made, for any callers and connections    *)
(* (core/ipc.py).                                                          *)
THEOREM PoolTyped == PoolSpec => []PoolTypeOK
<1>1. PoolInv => PoolTypeOK
  BY DEF PoolInv
<1>2. QED
  BY <1>1, PoolInvInit, PoolStep, PTL DEF PoolSpec

-----------------------------------------------------------------------------
(* The circuit breaker (circuit_breaker.py).                               *)
(* StateMatchesCount is inductive once the counter is known to be a        *)
(* natural number.                                                         *)
BreakerInv == BreakerTypeOK /\ StateMatchesCount

LEMMA BreakerInvInit == BreakerInit => BreakerInv
<1>1. BreakerInit => recovered \in BOOLEAN
  BY Zenon DEF BreakerInit
<1>2. BreakerInit => BreakerTypeOK
  BY <1>1 DEF BreakerInit, BreakerTypeOK
<1>3. BreakerInit => StateMatchesCount
  BY ThresholdAssumption DEF BreakerInit, StateMatchesCount
<1>4. QED
  BY <1>2, <1>3 DEF BreakerInv

LEMMA BreakerInvStep == BreakerInv /\ [BreakerNext]_breakerVars => BreakerInv'
<1> SUFFICES ASSUME BreakerInv, [BreakerNext]_breakerVars
             PROVE  BreakerInv'
  OBVIOUS
<1> USE ThresholdAssumption DEF BreakerInv, BreakerTypeOK, StateMatchesCount
<1>1. ASSUME NEW c \in Callers, Start(c)
      PROVE  BreakerInv'
  BY <1>1 DEF Start, Observed
<1>2. ASSUME NEW c \in Callers, Succeed(c)
      PROVE  BreakerInv'
  BY <1>2 DEF Succeed
<1>3. ASSUME NEW c \in Callers, Fail(c)
      PROVE  BreakerInv'
  <2>1. failures' = failures + 1 /\ failed' = failed + 1
    BY <1>3 DEF Fail
  <2>2. CASE failures + 1 >= Threshold
    <3>1. state' = "open" /\ recovered' \in BOOLEAN
      BY <1>3, <2>2, Zenon DEF Fail
    <3>2. call' = [call EXCEPT ![c] = "idle"] /\ UNCHANGED <<healthy, breakerCancels>>
      BY <1>3 DEF Fail
    <3>3. QED
      BY <2>1, <2>2, <3>1, <3>2
  <2>3. CASE failures + 1 < Threshold
    <3>1. ~ (failures + 1 >= Threshold)
      BY <2>3
    <3>2. UNCHANGED <<state, recovered>>
      BY <1>3, <3>1 DEF Fail
    <3>3. QED
      BY <1>3, <2>1, <2>3, <3>2 DEF Fail
  <2>4. QED
    BY <2>2, <2>3
<1>4. ASSUME NEW c \in Callers, Cancel(c)
      PROVE  BreakerInv'
  BY <1>4 DEF Cancel
<1>5. CASE RecoveryPasses
  BY <1>5 DEF RecoveryPasses
<1>6. CASE DaemonChanges
  BY <1>6 DEF DaemonChanges
<1>7. CASE UNCHANGED breakerVars
  BY <1>7 DEF breakerVars
<1>8. QED
  BY <1>1, <1>2, <1>3, <1>4, <1>5, <1>6, <1>7 DEF BreakerNext

LEMMA BreakerInvariant == BreakerSpec => []BreakerInv
  BY BreakerInvInit, BreakerInvStep, PTL DEF BreakerSpec

(* The breaker lets normal calls through exactly while it has counted      *)
(* fewer failures than the threshold (CircuitBreaker.call).                *)
THEOREM StateAgreesWithCount == BreakerSpec => []StateMatchesCount
<1>1. BreakerInv => StateMatchesCount
  BY DEF BreakerInv
<1>2. QED
  BY <1>1, BreakerInvariant, PTL

(* The breaker is closed, open or half open, and its failures never fall   *)
(* below zero, for any callers and threshold (circuit_breaker.py).         *)
THEOREM BreakerTyped == BreakerSpec => []BreakerTypeOK
<1>1. BreakerInv => BreakerTypeOK
  BY DEF BreakerInv
<1>2. QED
  BY <1>1, BreakerInvariant, PTL

(* No failure is counted on a breaker that is not closed without opening   *)
(* it for a full recovery time: the counter is past the threshold then.    *)
THEOREM FailedTrialAlwaysReopens == BreakerSpec => FailedTrialReopens
<1> DEFINE Reopens == (failed' > failed /\ state # "closed") => (state' = "open" /\ ~recovered')
<1>1. BreakerInv /\ [BreakerNext]_breakerVars => [Reopens]_breakerVars
  <2> SUFFICES ASSUME BreakerInv, [BreakerNext]_breakerVars, failed' > failed, state # "closed"
               PROVE  state' = "open" /\ ~recovered'
    OBVIOUS
  <2> USE ThresholdAssumption DEF BreakerInv, BreakerTypeOK, StateMatchesCount
  <2>1. PICK c \in Callers : Fail(c)
    BY DEF BreakerNext, Start, Succeed, Cancel, RecoveryPasses, DaemonChanges, breakerVars
  <2>2. failures + 1 >= Threshold
    OBVIOUS
  <2>3. QED
    BY <2>1, <2>2 DEF Fail
<1>2. QED
  BY <1>1, BreakerInvariant, PTL DEF BreakerSpec, FailedTrialReopens

-----------------------------------------------------------------------------
(* The tunnel manager (integration/tunnel/manager.py).                     *)
TunnelSpec == TunnelInit /\ [][TunnelNext]_tunnelVars

AdapterStates == {"none", "up", "hung", "dead"}

(* Whenever the manager is about to start an adapter, none runs.           *)
TunnelInv ==
  /\ adapter \in [Adapters -> AdapterStates]
  /\ OneAdapter
  /\ mgr \in {"start", "connecting", "clearPort", "respawn"} => UpAdapters = {}

LEMMA TunnelInitial == TunnelInit => TunnelInv
  BY DEF TunnelInit, TunnelInv, OneAdapter, UpAdapters, AdapterStates

LEMMA AdaptersAlone ==
  ASSUME TunnelInv, UNCHANGED <<adapter, cur>>, mgr' = mgr \/ mgr' \notin {"start", "connecting", "clearPort", "respawn"}
                                                \/ mgr \in {"start", "connecting"}
  PROVE  TunnelInv'
  BY DEF TunnelInv, OneAdapter, UpAdapters

LEMMA AdapterSpawned ==
  ASSUME TunnelInv, mgr \in {"clearPort", "respawn"}, mgr' = "supervise", SpawnAdapter
  PROVE  TunnelInv'
<1>1. PICK a \in Adapters : adapter' = [adapter EXCEPT ![a] = "up"] /\ cur' = a
  BY DEF SpawnAdapter, Fresh, TunnelInv
<1>2. QED
  BY <1>1 DEF TunnelInv, OneAdapter, UpAdapters, AdapterStates

LEMMA TunnelStep == TunnelInv /\ [TunnelNext]_tunnelVars => TunnelInv'
<1> SUFFICES ASSUME TunnelInv, [TunnelNext]_tunnelVars PROVE TunnelInv'
  OBVIOUS
<1>1. CASE StartServeo \/ ConnectSucceeds \/ ConnectTimesOut \/ StartCloudflare
  BY <1>1, AdaptersAlone DEF StartServeo, ConnectSucceeds, ConnectTimesOut, StartCloudflare
<1>2. CASE StopNoticed \/ StopThread \/ StopLink \/ StopFiles
  BY <1>2, AdaptersAlone DEF StopNoticed, StopThread, StopLink, StopFiles
<1>3. CASE WindowMoves \/ LoopTop \/ LoopSpawn \/ ReadUrl \/ LoopWaitEnds \/ LoopBackoffEnds \/ LinkDies
  BY <1>3, AdaptersAlone DEF WindowMoves, LoopTop, LoopSpawn, ReadUrl, LoopWaitEnds, LoopBackoffEnds, LinkDies
<1>4. CASE Signal \/ SnapRead \/ SnapClean \/ SweepBegins
  BY <1>4, AdaptersAlone DEF Signal, TermManager, SnapRead, SnapClean, SweepBegins
<1>5. CASE FirstAdapter \/ Respawn
  BY <1>5, AdapterSpawned DEF FirstAdapter, Respawn
<1>6. CASE AdapterFails
  BY <1>6 DEF AdapterFails, TunnelInv, OneAdapter, UpAdapters, AdapterStates
<1>7. CASE StopAdapter
  BY <1>7 DEF StopAdapter, TunnelInv, OneAdapter, UpAdapters, AdapterStates
<1>8. CASE AdapterBreaks
  <2>1. PICK a \in UpAdapters, to \in {"hung", "dead"} : adapter' = [adapter EXCEPT ![a] = to]
    BY <1>8 DEF AdapterBreaks
  <2>2. UNCHANGED <<mgr, cur>>
    BY <1>8 DEF AdapterBreaks
  <2>3. QED
    BY <2>1, <2>2 DEF TunnelInv, OneAdapter, UpAdapters, AdapterStates
<1>9. CASE SweepOne
  <2>1. PICK p \in sweep : adapter' = [a \in Adapters |-> IF p = AdapterPid(a) THEN "dead" ELSE adapter[a]]
    BY <1>9 DEF SweepOne
  <2>2. UNCHANGED cur /\ (mgr' = mgr \/ mgr' = "gone")
    BY <1>9 DEF SweepOne, TermManager
  <2>3. adapter' \in [Adapters -> AdapterStates] /\ UpAdapters' \subseteq UpAdapters
    BY <2>1 DEF TunnelInv, UpAdapters, AdapterStates
  <2>4. QED
    BY <2>2, <2>3 DEF TunnelInv, OneAdapter
<1>10. CASE UNCHANGED tunnelVars
  BY <1>10, AdaptersAlone DEF tunnelVars
<1>11. QED
  BY <1>1, <1>2, <1>3, <1>4, <1>5, <1>6, <1>7, <1>8, <1>9, <1>10 DEF TunnelNext, ManagerStep

(* However often the adapter is replaced and wherever the stop comes, no   *)
(* adapter runs but the one under supervision, for any number of adapters  *)
(* (integration/tunnel/manager.py).                                        *)
THEOREM OneAdapterAtATime == TunnelSpec => []OneAdapter
<1>1. TunnelInv => OneAdapter
  BY DEF TunnelInv
<1>2. QED
  BY <1>1, TunnelInitial, TunnelStep, PTL DEF TunnelSpec

-----------------------------------------------------------------------------
(* The forward and the MITM proxy (proxy/tunnel.py, mnemo_mitm_proxy.py).  *)
ProxySpec == ProxyInit /\ [][ProxyNext]_proxyVars

(* The connections that hold one of the tunnels.                           *)
Slots == {c \in Tunnels : at[c] \in {"connect", "head", "relay"}}

(* A handler's step tells what its client and its upstream have.           *)
HandlerSound(c) ==
  /\ at[c] \in {"line", "connect", "head"} => answers[c] = {}
  /\ "twice" \notin answers[c]
  /\ c \in upstream => at[c] \in {"head", "relay", "pipe"}

(* A direction's state tells where its chunks are.                         *)
DirectionSound(c, d) ==
  LET handed == taken[c][d] + underWay[c][d] + buffered[c][d] IN
  /\ handed \in {written[c][d] - 1, written[c][d]}
  /\ flow[c][d] \in {"off", "read"} => handed = written[c][d]
  /\ flow[c][d] = "drain" => handed = written[c][d] - 1
  /\ (flow[c][d] = "over" \/ at[c] # "pipe") => underWay[c][d] + buffered[c][d] = 0
  /\ at[c] \in {"line", "connect", "head", "tls", "dial"} => flow[c][d] = "off"
  /\ at[c] = "relay" => flow[c][d] \in {"read", "over", "broken"}
  /\ at[c] = "pipe" => flow[c][d] \in {"read", "drain", "flush", "over"}
  /\ at[c] = "closed" => flow[c][d] \in {"off", "over", "broken"}

ProxyInv ==
  /\ ProxyTypeOK
  /\ active = Cardinality(Slots)
  /\ \A c \in Tunnels : HandlerSound(c)
  /\ \A c \in Tunnels, d \in Dirs : DirectionSound(c, d)

LEMMA ProxyBounds == MaxTunnels \in Nat \ {0} /\ MaxChunks \in Nat \ {0} /\ BufLimit \in Nat \ {0} /\ IsFiniteSet(Tunnels)
  BY ConnectProxyAssumption

LEMMA ProxyInitial == ProxyInit => ProxyInv
<1> SUFFICES ASSUME ProxyInit PROVE ProxyInv
  OBVIOUS
<1>1. Slots = {} /\ active = Cardinality(Slots)
  BY FS_EmptySet DEF ProxyInit, Slots
<1>2. ProxyTypeOK
  BY ProxyBounds DEF ProxyInit, ProxyTypeOK, Flow
<1>3. QED
  BY <1>1, <1>2 DEF ProxyInit, ProxyInv, HandlerSound, DirectionSound

(* What the handler of one connection does to the slots.                   *)
LEMMA SlotStep ==
  ASSUME ProxyInv, NEW c \in Tunnels, NEW to, at' = [at EXCEPT ![c] = to]
  PROVE  /\ IsFiniteSet(Slots) /\ Cardinality(Slots) \in Nat
         /\ (c \in Slots /\ to \in {"connect", "head", "relay"}) => Slots' = Slots
         /\ (c \notin Slots /\ to \notin {"connect", "head", "relay"}) => Slots' = Slots
         /\ (c \in Slots /\ to \notin {"connect", "head", "relay"}) => Cardinality(Slots') = Cardinality(Slots) - 1
                                                                      /\ Cardinality(Slots) > 0
         /\ (c \notin Slots /\ to \in {"connect", "head", "relay"}) => Cardinality(Slots') = Cardinality(Slots) + 1
<1>1. at \in [Tunnels -> {"line", "connect", "head", "relay", "tls", "dial", "pipe", "closed"}]
  BY DEF ProxyInv, ProxyTypeOK
<1>2. IsFiniteSet(Slots) /\ Cardinality(Slots) \in Nat
  BY ProxyBounds, FS_Subset, FS_CardinalityType DEF Slots
<1>3. to \in {"connect", "head", "relay"} => Slots' = Slots \union {c}
  BY <1>1 DEF Slots
<1>4. to \notin {"connect", "head", "relay"} => Slots' = Slots \ {c}
  BY <1>1 DEF Slots
<1>5. c \notin Slots => Cardinality(Slots \union {c}) = Cardinality(Slots) + 1 /\ Slots \ {c} = Slots
  <2>1. c \notin Slots => Cardinality(Slots \union {c}) = Cardinality(Slots) + 1
    BY <1>2, FS_AddElement
  <2>2. c \notin Slots => Slots \ {c} = Slots
    OBVIOUS
  <2>3. QED
    BY <2>1, <2>2
<1>6. c \in Slots => Cardinality(Slots \ {c}) = Cardinality(Slots) - 1 /\ Cardinality(Slots \ {c}) \in Nat /\ Slots \union {c} = Slots
  BY <1>2, FS_RemoveElement, FS_CardinalityType
<1>7. c \in Slots => Cardinality(Slots) > 0
  BY <1>2, <1>6
<1> HIDE DEF Slots
<1>8. QED
  BY <1>2, <1>3, <1>4, <1>5, <1>6, <1>7

LEMMA SlotFreed ==
  ASSUME ProxyInv, NEW c \in Tunnels, c \in Slots, at' = [at EXCEPT ![c] = "closed"]
  PROVE  Cardinality(Slots') = Cardinality(Slots) - 1 /\ Cardinality(Slots) > 0
<1>1. Slots' = Slots \ {c}
  BY DEF Slots, ProxyInv, ProxyTypeOK
<1>2. IsFiniteSet(Slots) /\ Cardinality(Slots) \in Nat
  BY ProxyBounds, FS_Subset, FS_CardinalityType DEF Slots
<1>3. Cardinality(Slots \ {c}) = Cardinality(Slots) - 1 /\ Cardinality(Slots \ {c}) \in Nat
  BY <1>2, FS_RemoveElement, FS_CardinalityType
<1>4. QED
  BY <1>1, <1>2, <1>3

(* What does not concern another connection leaves it as it is.            *)
Apart(c) ==
  \A e \in Tunnels \ {c} :
    /\ at'[e] = at[e] /\ answers'[e] = answers[e] /\ flow'[e] = flow[e]
    /\ written'[e] = written[e] /\ buffered'[e] = buffered[e] /\ underWay'[e] = underWay[e] /\ taken'[e] = taken[e]
    /\ e \in upstream' <=> e \in upstream

LEMMA OthersSound ==
  ASSUME ProxyInv, NEW c \in Tunnels, Apart(c), ProxyTypeOK', active' = Cardinality(Slots'),
         HandlerSound(c)', \A d \in Dirs : DirectionSound(c, d)'
  PROVE  ProxyInv'
<1>1. ASSUME NEW e \in Tunnels, e # c PROVE HandlerSound(e)'
  BY <1>1 DEF ProxyInv, Apart, HandlerSound
<1>2. ASSUME NEW e \in Tunnels, e # c, NEW d \in Dirs PROVE DirectionSound(e, d)'
  <2>1. DirectionSound(e, d)
    BY DEF ProxyInv
  <2>2. at'[e] = at[e] /\ flow'[e] = flow[e]
        /\ written'[e] = written[e] /\ buffered'[e] = buffered[e] /\ underWay'[e] = underWay[e] /\ taken'[e] = taken[e]
    BY <1>2 DEF Apart
  <2>3. QED
    BY <2>1, <2>2 DEF DirectionSound
<1>3. QED
  BY <1>1, <1>2 DEF ProxyInv

(* The first status line is the only one.                                  *)
LEMMA Answered ==
  ASSUME ProxyInv, NEW c \in Tunnels, NEW status \in {"200", "405", "502", "503", "504"}, Write(c, status)
  PROVE  /\ answers' \in [Tunnels -> SUBSET {"200", "405", "502", "503", "504", "twice"}]
         /\ answers[c] = {} => answers'[c] = {status}
         /\ \A e \in Tunnels \ {c} : answers'[e] = answers[e]
<1>1. answers \in [Tunnels -> SUBSET {"200", "405", "502", "503", "504", "twice"}]
  BY DEF ProxyInv, ProxyTypeOK
<1>2. CASE answers[c] = {}
  BY <1>1, <1>2 DEF Write
<1>3. CASE answers[c] # {}
  BY <1>1, <1>3 DEF Write
<1>4. QED
  BY <1>2, <1>3

LEMMA ProxyStep == ProxyInv /\ [ProxyNext]_proxyVars => ProxyInv'
<1> SUFFICES ASSUME ProxyInv, [ProxyNext]_proxyVars PROVE ProxyInv'
  OBVIOUS
<1>1. ASSUME NEW c \in Tunnels, Refuse(c) PROVE ProxyInv'
  <2>0. answers' \in [Tunnels -> SUBSET {"200", "405", "502", "503", "504", "twice"}] /\ "twice" \notin answers'[c]
    <3>1. CASE UNCHANGED answers
      BY <3>1 DEF ProxyInv, ProxyTypeOK, HandlerSound
    <3>2. CASE Write(c, "405")
      BY <1>1, <3>2, Answered DEF Refuse, Step, ProxyInv, HandlerSound
    <3>3. QED
      BY <1>1, <3>1, <3>2 DEF Refuse
  <2>1. active' = Cardinality(Slots')
    BY <1>1, SlotStep DEF Refuse, Step, Slots, ProxyInv, ProxyTypeOK
  <2>2. ProxyTypeOK'
    BY <1>1, <2>0, <2>1, ProxyBounds, SlotStep DEF Refuse, Step, counters, ProxyInv, ProxyTypeOK, Flow
  <2>3. Apart(c)
    BY <1>1 DEF Refuse, Step, Write, counters, ProxyInv, ProxyTypeOK, Apart
  <2>4. HandlerSound(c)'
    BY <1>1, <2>0 DEF Refuse, Step, counters, ProxyInv, ProxyTypeOK, HandlerSound
  <2>5. ASSUME NEW d \in Dirs PROVE DirectionSound(c, d)'
    BY <1>1 DEF Refuse, Step, Write, counters, ProxyInv, ProxyTypeOK, DirectionSound
  <2>6. QED
    BY <2>1, <2>2, <2>3, <2>4, <2>5, OthersSound
<1>2. ASSUME NEW c \in Tunnels, Reject(c) PROVE ProxyInv'
  <2>1. active' = Cardinality(Slots')
    BY <1>2, SlotStep DEF Reject, Step, Write, Slots, ProxyInv
  <2>2. ProxyTypeOK'
    BY <1>2, ProxyBounds DEF Reject, Step, Write, counters, ProxyInv, ProxyTypeOK, Flow
  <2>3. Apart(c)
    BY <1>2 DEF Reject, Step, Write, counters, ProxyInv, ProxyTypeOK, Apart
  <2>4. HandlerSound(c)'
    BY <1>2 DEF Reject, Step, Write, counters, ProxyInv, ProxyTypeOK, HandlerSound
  <2>5. ASSUME NEW d \in Dirs PROVE DirectionSound(c, d)'
    BY <1>2 DEF Reject, Step, Write, counters, ProxyInv, ProxyTypeOK, DirectionSound
  <2>6. QED
    BY <2>1, <2>2, <2>3, <2>4, <2>5, OthersSound
<1>3. ASSUME NEW c \in Tunnels, EnterTunnel(c) PROVE ProxyInv'
  <2>0. /\ answers' \in [Tunnels -> SUBSET {"200", "405", "502", "503", "504", "twice"}]
        /\ "twice" \notin answers'[c] /\ (at'[c] # "closed" => answers'[c] = {})
    <3>1. CASE UNCHANGED answers
      BY <1>3, <3>1 DEF EnterTunnel, Step, ProxyInv, ProxyTypeOK, HandlerSound
    <3>2. CASE Write(c, "503") /\ at' = [at EXCEPT ![c] = "closed"]
      BY <1>3, <3>2, Answered DEF EnterTunnel, Step, ProxyInv, ProxyTypeOK, HandlerSound
    <3>3. QED
      BY <1>3, <3>1, <3>2 DEF EnterTunnel, Step
  <2>1. active' = Cardinality(Slots')
    <3>1. CASE active' = active + 1 /\ at' = [at EXCEPT ![c] = "connect"]
      BY <1>3, <3>1, SlotStep DEF EnterTunnel, Step, Slots, ProxyInv
    <3>2. CASE UNCHANGED active /\ at' = [at EXCEPT ![c] = "closed"]
      <4>1. c \notin Slots
        BY <1>3 DEF EnterTunnel, Step, Slots
      <4>2. Slots' = Slots
        BY <3>2, <4>1, SlotStep DEF Slots
      <4>3. QED
        BY <3>2, <4>2 DEF ProxyInv
    <3>3. QED
      BY <1>3, <3>1, <3>2 DEF EnterTunnel, Step
  <2>a. active' \in 0..MaxTunnels
    <3>1. active \in 0..MaxTunnels
      BY DEF ProxyInv, ProxyTypeOK
    <3>2. active' = active \/ (active < MaxTunnels /\ active' = active + 1)
      BY <1>3 DEF EnterTunnel, SlotFree
    <3>3. QED
      BY <3>1, <3>2, ProxyBounds
  <2>2. ProxyTypeOK'
    BY <1>3, <2>0, <2>a DEF EnterTunnel, Step, counters, ProxyInv, ProxyTypeOK
  <2>3. Apart(c)
    BY <1>3 DEF EnterTunnel, Step, Write, SlotFree, counters, ProxyInv, ProxyTypeOK, Apart
  <2>4. HandlerSound(c)'
    BY <1>3, <2>0 DEF EnterTunnel, Step, SlotFree, counters, ProxyInv, ProxyTypeOK, HandlerSound
  <2>5. ASSUME NEW d \in Dirs PROVE DirectionSound(c, d)'
    BY <1>3 DEF EnterTunnel, Step, Write, SlotFree, counters, ProxyInv, ProxyTypeOK, DirectionSound
  <2>6. QED
    BY <2>1, <2>2, <2>3, <2>4, <2>5, OthersSound
<1>4. ASSUME NEW c \in Tunnels, ConnectFails(c) PROVE ProxyInv'
  <2>0. answers' \in [Tunnels -> SUBSET {"200", "405", "502", "503", "504", "twice"}] /\ "twice" \notin answers'[c]
    BY <1>4, Answered DEF ConnectFails, Step, ProxyInv, HandlerSound
  <2>1. active' = Cardinality(Slots') /\ active' \in 0..MaxTunnels
    <3>1. c \in Slots /\ at' = [at EXCEPT ![c] = "closed"] /\ active' = active - 1
      BY <1>4 DEF ConnectFails, Step, ReleaseSlot, Slots
    <3>2. Cardinality(Slots') = Cardinality(Slots) - 1 /\ Cardinality(Slots) > 0
      BY <3>1, SlotFreed
    <3>3. active = Cardinality(Slots) /\ active \in 0..MaxTunnels
      BY DEF ProxyInv, ProxyTypeOK
    <3>4. QED
      BY <3>1, <3>2, <3>3, ProxyBounds
  <2>2. ProxyTypeOK'
    BY <1>4, <2>0, <2>1 DEF ConnectFails, Step, CloseUpstream, counters, ProxyInv, ProxyTypeOK
  <2>3. Apart(c)
    BY <1>4 DEF ConnectFails, Step, Write, ReleaseSlot, counters, ProxyInv, ProxyTypeOK, Apart
  <2>4. HandlerSound(c)'
    BY <1>4, <2>0 DEF ConnectFails, Step, ReleaseSlot, counters, ProxyInv, ProxyTypeOK, HandlerSound
  <2>5. ASSUME NEW d \in Dirs PROVE DirectionSound(c, d)'
    BY <1>4 DEF ConnectFails, Step, Write, ReleaseSlot, counters, ProxyInv, ProxyTypeOK, DirectionSound
  <2>6. QED
    BY <2>1, <2>2, <2>3, <2>4, <2>5, OthersSound
<1>5. ASSUME NEW c \in Tunnels, Connected(c) PROVE ProxyInv'
  <2>1. active' = Cardinality(Slots')
    BY <1>5, SlotStep DEF Connected, Step, Slots, ProxyInv
  <2>2. ProxyTypeOK'
    BY <1>5, ProxyBounds DEF Connected, Step, counters, ProxyInv, ProxyTypeOK, Flow
  <2>3. Apart(c)
    BY <1>5 DEF Connected, Step, counters, ProxyInv, ProxyTypeOK, Apart
  <2>4. HandlerSound(c)'
    BY <1>5 DEF Connected, Step, counters, ProxyInv, ProxyTypeOK, HandlerSound
  <2>5. ASSUME NEW d \in Dirs PROVE DirectionSound(c, d)'
    BY <1>5 DEF Connected, Step, counters, ProxyInv, ProxyTypeOK, DirectionSound
  <2>6. QED
    BY <2>1, <2>2, <2>3, <2>4, <2>5, OthersSound
<1>6. ASSUME NEW c \in Tunnels, HeadBroken(c) PROVE ProxyInv'
  <2>1. active' = Cardinality(Slots') /\ active' \in 0..MaxTunnels
    <3>1. c \in Slots /\ at' = [at EXCEPT ![c] = "closed"] /\ active' = active - 1
      BY <1>6 DEF HeadBroken, Step, ReleaseSlot, Slots
    <3>2. Cardinality(Slots') = Cardinality(Slots) - 1 /\ Cardinality(Slots) > 0
      BY <3>1, SlotFreed
    <3>3. active = Cardinality(Slots) /\ active \in 0..MaxTunnels
      BY DEF ProxyInv, ProxyTypeOK
    <3>4. QED
      BY <3>1, <3>2, <3>3, ProxyBounds
  <2>2. ProxyTypeOK'
    BY <1>6, <2>1 DEF HeadBroken, Step, CloseUpstream, counters, ProxyInv, ProxyTypeOK
  <2>3. Apart(c)
    BY <1>6 DEF HeadBroken, Step, CloseUpstream, ReleaseSlot, counters, ProxyInv, ProxyTypeOK, Apart
  <2>4. HandlerSound(c)'
    BY <1>6 DEF HeadBroken, Step, CloseUpstream, ReleaseSlot, counters, ProxyInv, ProxyTypeOK, HandlerSound
  <2>5. ASSUME NEW d \in Dirs PROVE DirectionSound(c, d)'
    BY <1>6 DEF HeadBroken, Step, CloseUpstream, ReleaseSlot, counters, ProxyInv, ProxyTypeOK, DirectionSound
  <2>6. QED
    BY <2>1, <2>2, <2>3, <2>4, <2>5, OthersSound
<1>7. ASSUME NEW c \in Tunnels, HeadRead(c) PROVE ProxyInv'
  <2>1. active' = Cardinality(Slots')
    BY <1>7, SlotStep DEF HeadRead, Step, Write, Slots, ProxyInv
  <2>2. ProxyTypeOK'
    BY <1>7, ProxyBounds DEF HeadRead, Step, Write, counters, ProxyInv, ProxyTypeOK, Flow
  <2>3. Apart(c)
    BY <1>7 DEF HeadRead, Step, Write, counters, ProxyInv, ProxyTypeOK, Apart
  <2>4. HandlerSound(c)'
    BY <1>7 DEF HeadRead, Step, Write, counters, ProxyInv, ProxyTypeOK, HandlerSound
  <2>5. ASSUME NEW d \in Dirs PROVE DirectionSound(c, d)'
    BY <1>7 DEF HeadRead, Step, Write, counters, ProxyInv, ProxyTypeOK, DirectionSound
  <2>6. QED
    BY <2>1, <2>2, <2>3, <2>4, <2>5, OthersSound
<1>8. ASSUME NEW c \in Tunnels, RelayIdle(c) PROVE ProxyInv'
  <2>1. active' = Cardinality(Slots')
    BY <1>8 DEF RelayIdle, Slots, ProxyInv
  <2>2. ProxyTypeOK'
    BY <1>8, ProxyBounds DEF RelayIdle, Ended, counters, ProxyInv, ProxyTypeOK, Flow
  <2>3. Apart(c)
    BY <1>8 DEF RelayIdle, Ended, counters, ProxyInv, ProxyTypeOK, Apart
  <2>4. HandlerSound(c)'
    BY <1>8 DEF RelayIdle, Ended, counters, ProxyInv, ProxyTypeOK, HandlerSound
  <2>5. ASSUME NEW d \in Dirs PROVE DirectionSound(c, d)'
    BY <1>8 DEF RelayIdle, Ended, counters, ProxyInv, ProxyTypeOK, DirectionSound
  <2>6. QED
    BY <2>1, <2>2, <2>3, <2>4, <2>5, OthersSound
<1>9. ASSUME NEW c \in Tunnels, TunnelCloses(c) PROVE ProxyInv'
  <2>1. active' = Cardinality(Slots') /\ active' \in 0..MaxTunnels
    <3>1. c \in Slots /\ at' = [at EXCEPT ![c] = "closed"] /\ active' = active - 1
      BY <1>9 DEF TunnelCloses, Step, ReleaseSlot, Slots
    <3>2. Cardinality(Slots') = Cardinality(Slots) - 1 /\ Cardinality(Slots) > 0
      BY <3>1, SlotFreed
    <3>3. active = Cardinality(Slots) /\ active \in 0..MaxTunnels
      BY DEF ProxyInv, ProxyTypeOK
    <3>4. QED
      BY <3>1, <3>2, <3>3, ProxyBounds
  <2>2. ProxyTypeOK'
    BY <1>9, <2>1 DEF TunnelCloses, Step, CloseUpstream, counters, ProxyInv, ProxyTypeOK
  <2>3. Apart(c)
    BY <1>9 DEF TunnelCloses, Step, Ended, CloseUpstream, ReleaseSlot, counters, ProxyInv, ProxyTypeOK, Apart
  <2>4. HandlerSound(c)'
    BY <1>9 DEF TunnelCloses, Step, Ended, CloseUpstream, ReleaseSlot, counters, ProxyInv, ProxyTypeOK, HandlerSound
  <2>5. ASSUME NEW d \in Dirs PROVE DirectionSound(c, d)'
    BY <1>9 DEF TunnelCloses, Step, Ended, CloseUpstream, ReleaseSlot, counters, ProxyInv, ProxyTypeOK, DirectionSound
  <2>6. QED
    BY <2>1, <2>2, <2>3, <2>4, <2>5, OthersSound
<1>10. ASSUME NEW c \in Tunnels, Intercept(c) PROVE ProxyInv'
  <2>1. active' = Cardinality(Slots')
    BY <1>10, SlotStep DEF Intercept, Step, Write, Slots, ProxyInv
  <2>2. ProxyTypeOK'
    BY <1>10, ProxyBounds DEF Intercept, Step, Write, counters, ProxyInv, ProxyTypeOK, Flow
  <2>3. Apart(c)
    BY <1>10 DEF Intercept, Step, Write, counters, ProxyInv, ProxyTypeOK, Apart
  <2>4. HandlerSound(c)'
    BY <1>10 DEF Intercept, Step, Write, counters, ProxyInv, ProxyTypeOK, HandlerSound
  <2>5. ASSUME NEW d \in Dirs PROVE DirectionSound(c, d)'
    BY <1>10 DEF Intercept, Step, Write, counters, ProxyInv, ProxyTypeOK, DirectionSound
  <2>6. QED
    BY <2>1, <2>2, <2>3, <2>4, <2>5, OthersSound
<1>11. ASSUME NEW c \in Tunnels, InterceptFails(c) PROVE ProxyInv'
  <2>1. active' = Cardinality(Slots')
    BY <1>11, SlotStep DEF InterceptFails, Slots, ProxyInv
  <2>2. ProxyTypeOK'
    BY <1>11, ProxyBounds DEF InterceptFails, counters, ProxyInv, ProxyTypeOK, Flow
  <2>3. Apart(c)
    BY <1>11 DEF InterceptFails, counters, ProxyInv, ProxyTypeOK, Apart
  <2>4. HandlerSound(c)'
    BY <1>11 DEF InterceptFails, counters, ProxyInv, ProxyTypeOK, HandlerSound
  <2>5. ASSUME NEW d \in Dirs PROVE DirectionSound(c, d)'
    BY <1>11 DEF InterceptFails, counters, ProxyInv, ProxyTypeOK, DirectionSound
  <2>6. QED
    BY <2>1, <2>2, <2>3, <2>4, <2>5, OthersSound
<1>12. ASSUME NEW c \in Tunnels, Handshake(c) PROVE ProxyInv'
  <2>1. active' = Cardinality(Slots')
    BY <1>12, SlotStep DEF Handshake, Step, Slots, ProxyInv
  <2>2. ProxyTypeOK'
    BY <1>12, ProxyBounds DEF Handshake, Step, counters, ProxyInv, ProxyTypeOK, Flow
  <2>3. Apart(c)
    BY <1>12 DEF Handshake, Step, counters, ProxyInv, ProxyTypeOK, Apart
  <2>4. HandlerSound(c)'
    BY <1>12 DEF Handshake, Step, counters, ProxyInv, ProxyTypeOK, HandlerSound
  <2>5. ASSUME NEW d \in Dirs PROVE DirectionSound(c, d)'
    BY <1>12 DEF Handshake, Step, counters, ProxyInv, ProxyTypeOK, DirectionSound
  <2>6. QED
    BY <2>1, <2>2, <2>3, <2>4, <2>5, OthersSound
<1>13. ASSUME NEW c \in Tunnels, Dialled(c) PROVE ProxyInv'
  <2>1. active' = Cardinality(Slots')
    BY <1>13, SlotStep DEF Dialled, Step, Slots, ProxyInv
  <2>2. ProxyTypeOK'
    BY <1>13, ProxyBounds DEF Dialled, Step, counters, ProxyInv, ProxyTypeOK, Flow
  <2>3. Apart(c)
    BY <1>13 DEF Dialled, Step, counters, ProxyInv, ProxyTypeOK, Apart
  <2>4. HandlerSound(c)'
    BY <1>13 DEF Dialled, Step, counters, ProxyInv, ProxyTypeOK, HandlerSound
  <2>5. ASSUME NEW d \in Dirs PROVE DirectionSound(c, d)'
    BY <1>13 DEF Dialled, Step, counters, ProxyInv, ProxyTypeOK, DirectionSound
  <2>6. QED
    BY <2>1, <2>2, <2>3, <2>4, <2>5, OthersSound
<1>14. ASSUME NEW c \in Tunnels, PipesIdle(c) PROVE ProxyInv'
  <2>1. active' = Cardinality(Slots')
    BY <1>14 DEF PipesIdle, Slots, ProxyInv
  <2>2. ProxyTypeOK'
    BY <1>14, ProxyBounds DEF PipesIdle, counters, ProxyInv, ProxyTypeOK, Flow
  <2>3. Apart(c)
    BY <1>14 DEF PipesIdle, counters, ProxyInv, ProxyTypeOK, Apart
  <2>4. HandlerSound(c)'
    BY <1>14 DEF PipesIdle, counters, ProxyInv, ProxyTypeOK, HandlerSound
  <2>5. ASSUME NEW d \in Dirs PROVE DirectionSound(c, d)'
    BY <1>14 DEF PipesIdle, counters, ProxyInv, ProxyTypeOK, DirectionSound
  <2>6. QED
    BY <2>1, <2>2, <2>3, <2>4, <2>5, OthersSound
<1>15. ASSUME NEW c \in Tunnels, PipesClose(c) PROVE ProxyInv'
  <2>1. active' = Cardinality(Slots')
    BY <1>15, SlotStep DEF PipesClose, Step, Ended, CloseUpstream, Slots, ProxyInv
  <2>2. ProxyTypeOK'
    BY <1>15, ProxyBounds DEF PipesClose, Step, Ended, CloseUpstream, counters, ProxyInv, ProxyTypeOK, Flow
  <2>3. Apart(c)
    BY <1>15 DEF PipesClose, Step, Ended, CloseUpstream, counters, ProxyInv, ProxyTypeOK, Apart
  <2>4. HandlerSound(c)'
    BY <1>15 DEF PipesClose, Step, Ended, CloseUpstream, counters, ProxyInv, ProxyTypeOK, HandlerSound
  <2>5. ASSUME NEW d \in Dirs PROVE DirectionSound(c, d)'
    BY <1>15 DEF PipesClose, Step, Ended, CloseUpstream, counters, ProxyInv, ProxyTypeOK, DirectionSound
  <2>6. QED
    BY <2>1, <2>2, <2>3, <2>4, <2>5, OthersSound
<1>16. ASSUME NEW c \in Tunnels, NEW d \in Dirs, RelayEnds(c, d) PROVE ProxyInv'
  <2>1. active' = Cardinality(Slots')
    BY <1>16 DEF RelayEnds, Slots, ProxyInv
  <2>2. ProxyTypeOK'
    <3>1. flow' \in [Tunnels -> [Dirs -> Flow]]
      <4>1. flow[c] \in [Dirs -> Flow] /\ "over" \in Flow /\ "broken" \in Flow
        BY DEF ProxyInv, ProxyTypeOK, Flow
      <4>2. CASE flow' = [flow EXCEPT ![c][d] = "over"]
        BY <4>1, <4>2 DEF ProxyInv, ProxyTypeOK
      <4>3. CASE flow' = [flow EXCEPT ![c] = [e \in Dirs |-> IF e \in Ended(c) THEN @[e] ELSE "broken"]]
        BY <4>1, <4>3 DEF ProxyInv, ProxyTypeOK
      <4>4. QED
        BY <1>16, <4>2, <4>3 DEF RelayEnds
    <3>2. QED
      BY <1>16, <3>1 DEF RelayEnds, counters, ProxyInv, ProxyTypeOK
  <2>3. Apart(c)
    BY <1>16 DEF RelayEnds, Ended, counters, ProxyInv, ProxyTypeOK, Apart
  <2>4. HandlerSound(c)'
    BY <1>16 DEF RelayEnds, Ended, counters, ProxyInv, ProxyTypeOK, HandlerSound
  <2>5. ASSUME NEW e \in Dirs PROVE DirectionSound(c, e)'
    BY <1>16, ProxyBounds DEF RelayEnds, Ended, counters, ProxyInv, ProxyTypeOK, DirectionSound
  <2>6. QED
    BY <2>1, <2>2, <2>3, <2>4, <2>5, OthersSound
<1>17. ASSUME NEW c \in Tunnels, NEW d \in Dirs, PipeRead(c, d) PROVE ProxyInv'
  <2>1. active' = Cardinality(Slots')
    BY <1>17 DEF PipeRead, Slots, ProxyInv
  <2>2. ProxyTypeOK'
    BY <1>17, ProxyBounds DEF PipeRead, counters, ProxyInv, ProxyTypeOK, Flow, DirectionSound
  <2>3. Apart(c)
    BY <1>17 DEF PipeRead, counters, ProxyInv, ProxyTypeOK, Apart
  <2>4. HandlerSound(c)'
    BY <1>17 DEF PipeRead, counters, ProxyInv, ProxyTypeOK, HandlerSound
  <2>5. ASSUME NEW e \in Dirs PROVE DirectionSound(c, e)'
    BY <1>17, ProxyBounds DEF PipeRead, counters, ProxyInv, ProxyTypeOK, DirectionSound
  <2>6. QED
    BY <2>1, <2>2, <2>3, <2>4, <2>5, OthersSound
<1>18. ASSUME NEW c \in Tunnels, NEW d \in Dirs, PipeDrained(c, d) PROVE ProxyInv'
  <2>1. active' = Cardinality(Slots')
    BY <1>18 DEF PipeDrained, Slots, ProxyInv
  <2>2. ProxyTypeOK'
    BY <1>18, ProxyBounds DEF PipeDrained, counters, ProxyInv, ProxyTypeOK, Flow, DirectionSound
  <2>3. Apart(c)
    BY <1>18 DEF PipeDrained, counters, ProxyInv, ProxyTypeOK, Apart
  <2>4. HandlerSound(c)'
    BY <1>18 DEF PipeDrained, counters, ProxyInv, ProxyTypeOK, HandlerSound
  <2>5. ASSUME NEW e \in Dirs PROVE DirectionSound(c, e)'
    <3>1. DirectionSound(c, e) /\ DirectionSound(c, d)
      BY DEF ProxyInv
    <3>2. CASE e = d
      <4>1. /\ flow[c][d] = "drain" /\ flow'[c][d] = "read" /\ at'[c] = at[c] /\ written'[c][d] = written[c][d]
            /\ taken'[c][d] = taken[c][d]
            /\ \/ buffered'[c][d] = 0 /\ underWay'[c][d] = underWay[c][d] + (buffered[c][d] + 1)
               \/ buffered'[c][d] = buffered[c][d] + 1 /\ underWay'[c][d] = underWay[c][d]
        BY <1>18 DEF PipeDrained, ProxyInv, ProxyTypeOK
      <4>2. {taken[c][d], underWay[c][d], buffered[c][d], written[c][d]} \subseteq 0..MaxChunks
        BY DEF ProxyInv, ProxyTypeOK
      <4>3. QED
        <5>1. at[c] = "pipe"
          BY <3>1, <4>1 DEF DirectionSound, ProxyInv, ProxyTypeOK
        <5>2. taken[c][d] + underWay[c][d] + buffered[c][d] = written[c][d] - 1
          BY <3>1, <4>1 DEF DirectionSound
        <5>3. taken'[c][d] + underWay'[c][d] + buffered'[c][d] = written'[c][d]
          BY <4>1, <4>2, <5>2
        <5>4. written'[c][d] \in Int
          BY <4>1, <4>2
        <5>5. QED
          BY <3>2, <4>1, <5>1, <5>3, <5>4 DEF DirectionSound
    <3>3. CASE e # d
      <4>1. /\ flow'[c][e] = flow[c][e] /\ written'[c][e] = written[c][e] /\ buffered'[c][e] = buffered[c][e]
            /\ underWay'[c][e] = underWay[c][e] /\ taken'[c][e] = taken[c][e] /\ at'[c] = at[c]
        BY <1>18, <3>3 DEF PipeDrained, ProxyInv, ProxyTypeOK
      <4>2. QED
        BY <3>1, <4>1 DEF DirectionSound
    <3>4. QED
      BY <3>2, <3>3
  <2>6. QED
    BY <2>1, <2>2, <2>3, <2>4, <2>5, OthersSound
<1>19. ASSUME NEW c \in Tunnels, NEW d \in Dirs, PipeStops(c, d) PROVE ProxyInv'
  <2>1. active' = Cardinality(Slots')
    BY <1>19 DEF PipeStops, Slots, ProxyInv
  <2>2. ProxyTypeOK'
    BY <1>19, ProxyBounds DEF PipeStops, counters, ProxyInv, ProxyTypeOK, Flow, DirectionSound
  <2>3. Apart(c)
    BY <1>19 DEF PipeStops, counters, ProxyInv, ProxyTypeOK, Apart
  <2>4. HandlerSound(c)'
    BY <1>19 DEF PipeStops, counters, ProxyInv, ProxyTypeOK, HandlerSound
  <2>5. ASSUME NEW e \in Dirs PROVE DirectionSound(c, e)'
    BY <1>19, ProxyBounds DEF PipeStops, counters, ProxyInv, ProxyTypeOK, DirectionSound
  <2>6. QED
    BY <2>1, <2>2, <2>3, <2>4, <2>5, OthersSound
<1>20. ASSUME NEW c \in Tunnels, NEW d \in Dirs, ObserveEnds(c, d) PROVE ProxyInv'
  <2>1. active' = Cardinality(Slots')
    BY <1>20 DEF ObserveEnds, Slots, ProxyInv
  <2>2. ProxyTypeOK'
    BY <1>20, ProxyBounds DEF ObserveEnds, counters, ProxyInv, ProxyTypeOK, Flow, DirectionSound
  <2>3. Apart(c)
    BY <1>20 DEF ObserveEnds, counters, ProxyInv, ProxyTypeOK, Apart
  <2>4. HandlerSound(c)'
    BY <1>20 DEF ObserveEnds, counters, ProxyInv, ProxyTypeOK, HandlerSound
  <2>5. ASSUME NEW e \in Dirs PROVE DirectionSound(c, e)'
    <3>1. DirectionSound(c, e) /\ DirectionSound(c, d)
      BY DEF ProxyInv
    <3>2. CASE e = d
      BY <1>20, <3>1, <3>2, ProxyBounds DEF ObserveEnds, ProxyInv, ProxyTypeOK, DirectionSound
    <3>3. CASE e # d
      <4>1. /\ flow'[c][e] = flow[c][e] /\ written'[c][e] = written[c][e] /\ buffered'[c][e] = buffered[c][e]
            /\ underWay'[c][e] = underWay[c][e] /\ taken'[c][e] = taken[c][e] /\ at'[c] = at[c]
        BY <1>20, <3>3 DEF ObserveEnds, ProxyInv, ProxyTypeOK
      <4>2. QED
        BY <3>1, <4>1 DEF DirectionSound
    <3>4. QED
      BY <3>2, <3>3
  <2>6. QED
    BY <2>1, <2>2, <2>3, <2>4, <2>5, OthersSound
<1>21. ASSUME NEW c \in Tunnels, NEW d \in Dirs, Flush(c, d) PROVE ProxyInv'
  <2>1. active' = Cardinality(Slots')
    BY <1>21 DEF Flush, Slots, ProxyInv
  <2>2. ProxyTypeOK'
    <3>1. DirectionSound(c, d) /\ \A n \in {written, buffered, underWay, taken} : n \in [Tunnels -> [Dirs -> 0..MaxChunks]]
      BY DEF ProxyInv, ProxyTypeOK
    <3>2. taken[c][d] + buffered[c][d] \in 0..MaxChunks
      BY <1>21, <3>1, ProxyBounds DEF Flush, DirectionSound
    <3>3. taken' \in [Tunnels -> [Dirs -> 0..MaxChunks]] /\ buffered' \in [Tunnels -> [Dirs -> 0..MaxChunks]]
      BY <1>21, <3>1, <3>2, ProxyBounds DEF Flush
    <3>4. QED
      BY <1>21, <3>3 DEF Flush, Flow, ProxyInv, ProxyTypeOK
  <2>3. Apart(c)
    BY <1>21 DEF Flush, counters, ProxyInv, ProxyTypeOK, Apart
  <2>4. HandlerSound(c)'
    BY <1>21 DEF Flush, counters, ProxyInv, ProxyTypeOK, HandlerSound
  <2>5. ASSUME NEW e \in Dirs PROVE DirectionSound(c, e)'
    BY <1>21, ProxyBounds DEF Flush, counters, ProxyInv, ProxyTypeOK, DirectionSound
  <2>6. QED
    BY <2>1, <2>2, <2>3, <2>4, <2>5, OthersSound
<1>22. CASE UNCHANGED proxyVars
  BY <1>22 DEF proxyVars, ProxyInv, ProxyTypeOK, Slots, HandlerSound, DirectionSound
<1>23. QED
  BY <1>1, <1>2, <1>3, <1>4, <1>5, <1>6, <1>7, <1>8, <1>9, <1>10, <1>11, <1>12, <1>13, <1>14, <1>15, <1>16, <1>17, <1>18, <1>19, <1>20, <1>21, <1>22 DEF ProxyNext

(* Slots, upstream connections, answers and the chunks handed to the       *)
(* observer are accounted for in any number of tunnels, however each ends  *)
(* (proxy/tunnel.py, integration/mnemo_mitm_proxy.py).                     *)
THEOREM ProxyIsSound == ProxySpec => []ProxySound
<1>1. ProxyInv => ProxySound
  BY DEF ProxyInv, HandlerSound, DirectionSound, ProxySound, TunnelsSound, CarriedIsObserved, Slots
<1>2. QED
  BY <1>1, ProxyInitial, ProxyStep, PTL DEF ProxySpec

(* There are never more tunnels than the limit, whatever fails or is       *)
(* refused, and a handler is at one of its steps (proxy/tunnel.py,         *)
(* mnemo_mitm_proxy.py).                                                   *)
THEOREM ProxyTyped == ProxySpec => []ProxyTypeOK
<1>1. ProxyInv => ProxyTypeOK
  BY DEF ProxyInv
<1>2. QED
  BY <1>1, ProxyInitial, ProxyStep, PTL DEF ProxySpec

-----------------------------------------------------------------------------
(* Adapters of clients and their observations (integration/, the browser   *)
(* extension's daemon, mnemo-hand).                                        *)
AdapterSpec == AdapterInit /\ [][AdapterNext]_adapterVars

(* Unless two make the token at once, one makes it while there is none, in *)
(* a temporary file of its own; and nobody is further without it.          *)
TokensAgree ==
  ~crowded =>
    /\ \A a \in Running : up[a] \in {"loaded", "binding", "serving"} => token[a] = tokenFile /\ tokenFile # NoOne
    /\ \A a \in Running : up[a] \in {"making", "written"} => tokenFile = NoOne
    /\ \A a, b \in Running : up[a] \in {"making", "written"} /\ up[b] \in {"making", "written"} => a = b
    /\ \A a \in Running : up[a] = "written" => tokenTmp = a

(* The daemon is asked only for what an adapter was able to read, and what *)
(* it returned it has done; an attempt follows one that failed.            *)
AttemptsSound ==
  /\ \A t \in Tries :
       /\ t[2] > posted[t[1]] => handling[t] = "none"
       /\ t[2] < posted[t[1]] => handling[t] \in {"error", "gone", "late"}
       /\ handling[t] \in {"none", "read", "bad"} => job[t] = "none"
       /\ handling[t] = "ok" => job[t] = "done"
       /\ handling[t] = "error" => job[t] \in {"none", "lost"}
       /\ t[1] \in malformed => job[t] = "none"
  /\ \A x \in Posts : delivered[x] = "true" => Taken(x) # {}

RepliesSound ==
  /\ {replies[i][1] : i \in DOMAIN replies} = {n \in 1..line : Lines[n] = "call"}
  /\ \A i, j \in DOMAIN replies : i < j => replies[i][1] < replies[j][1]

ReceiverServes == receiver # NoOne => up[receiver] = "serving"

AdapterInv == AdapterTypeOK /\ TokensAgree /\ AttemptsSound /\ RepliesSound /\ ReceiverServes

LEMMA AdapterStart == AdapterInit => AdapterInv
<1> SUFFICES ASSUME AdapterInit PROVE AdapterInv
  OBVIOUS
<1> USE AdaptersAssumption DEF AdapterInit, Tries
<1>1. daemonRuns \in BOOLEAN /\ crowded \in BOOLEAN
  BY Zenon
<1>2. AdapterTypeOK
  BY <1>1 DEF AdapterTypeOK
<1>3. TokensAgree /\ ReceiverServes
  BY DEF TokensAgree, ReceiverServes
<1>4. AttemptsSound
  BY DEF AttemptsSound
<1>5. RepliesSound
  BY DEF RepliesSound
<1>6. QED
  BY <1>2, <1>3, <1>4, <1>5 DEF AdapterInv

LEMMA StartingStep ==
  ASSUME AdapterInv, NEW a \in Running, Starting(a), UNCHANGED <<malformed, daemonRuns, daemonEnds, stdioVars>>
  PROVE  AdapterInv'
<1> USE AdaptersAssumption DEF AdapterInv, AdapterTypeOK, Goes
<1> DEFINE kept == UNCHANGED <<postVars, malformed, daemonRuns, daemonEnds, stdioVars>>
<1>0. CASE kept /\ (LoadToken(a) \/ WriteToken(a) \/ ReplaceToken(a) \/ LooksForPort(a) \/ Binds(a))
  <2>1. AttemptsSound' /\ RepliesSound'
    <3>1. posted' = posted /\ handling' = handling /\ job' = job /\ delivered' = delivered /\ malformed' = malformed
      BY <1>0 DEF postVars
    <3>2. \A x : Taken(x)' = Taken(x)
      BY <3>1 DEF Taken
    <3>3. AttemptsSound'
      BY <3>1, <3>2 DEF AttemptsSound
    <3>4. RepliesSound'
      BY DEF RepliesSound, stdioVars
    <3>5. QED
      BY <3>3, <3>4
  <2>2. AdapterTypeOK' /\ TokensAgree' /\ ReceiverServes'
    <3>1. CASE LoadToken(a)
      <4>1. crowded' \in BOOLEAN
        BY <3>1, Zenon DEF LoadToken
      <4>2. CASE tokenFile = NoOne /\ up' = [up EXCEPT ![a] = "making"] /\ crowded' = (crowded \/ Making # {}) /\ UNCHANGED token
        <5>1. AdapterTypeOK' /\ ReceiverServes'
          BY <1>0, <3>1, <4>1, <4>2 DEF LoadToken, ReceiverServes, postVars, stdioVars
        <5>2. ~crowded' => ~crowded /\ Making = {}
          BY <4>2
        <5>3. TokensAgree'
          BY <3>1, <4>2, <5>2 DEF LoadToken, TokensAgree, Making
        <5>4. QED
          BY <5>1, <5>3
      <4>3. CASE tokenFile # NoOne /\ up' = [up EXCEPT ![a] = "loaded"] /\ token' = [token EXCEPT ![a] = tokenFile] /\ UNCHANGED crowded
        <5>1. AdapterTypeOK' /\ ReceiverServes'
          BY <1>0, <3>1, <4>1, <4>3 DEF LoadToken, ReceiverServes, postVars, stdioVars
        <5>2. TokensAgree'
          BY <3>1, <4>3 DEF LoadToken, TokensAgree
        <5>3. QED
          BY <5>1, <5>2
      <4>4. QED
        BY <3>1, <4>2, <4>3 DEF LoadToken
    <3>2. CASE WriteToken(a)
      <4>1. crowded' \in BOOLEAN
        BY <3>2, Zenon DEF WriteToken
      <4>2. AdapterTypeOK' /\ ReceiverServes'
        BY <1>0, <3>2, <4>1 DEF WriteToken, ReceiverServes, postVars, stdioVars
      <4>3. TokensAgree'
        BY <3>2 DEF WriteToken, TokensAgree
      <4>4. QED
        BY <4>2, <4>3
    <3>3. CASE ReplaceToken(a)
      <4>1. crowded' \in BOOLEAN
        BY <3>3, Zenon DEF ReplaceToken
      <4>2. AdapterTypeOK' /\ ReceiverServes'
        BY <1>0, <3>3, <4>1 DEF ReplaceToken, ReceiverServes, postVars, stdioVars
      <4>3. TokensAgree'
        <5>1. CASE tokenTmp # NoOne /\ tokenFile' = tokenTmp /\ tokenTmp' = NoOne /\ token' = [token EXCEPT ![a] = a] /\ up' = [up EXCEPT ![a] = "loaded"]
          <6>1. ~crowded => tokenFile = NoOne /\ tokenTmp = a /\ \A b \in Running : up[b] \in {"making", "written"} => b = a
            BY <3>3 DEF ReplaceToken, TokensAgree
          <6>2. ~crowded => \A b \in Running : ~(up[b] \in {"loaded", "binding", "serving"})
            BY <6>1 DEF TokensAgree
          <6>3. crowded' = crowded
            BY <3>3 DEF ReplaceToken
          <6>4. QED
            BY <5>1, <6>1, <6>2, <6>3 DEF TokensAgree
        <5>2. CASE up' = [up EXCEPT ![a] = "dead"] /\ UNCHANGED <<tokenFile, tokenTmp, token, crowded>>
          BY <5>2 DEF TokensAgree
        <5>3. QED
          BY <3>3, <5>1, <5>2 DEF ReplaceToken
      <4>4. QED
        BY <4>2, <4>3
    <3>4. CASE LooksForPort(a)
      <4>1. crowded' \in BOOLEAN
        BY <3>4, Zenon DEF LooksForPort
      <4>2. AdapterTypeOK' /\ ReceiverServes'
        BY <1>0, <3>4, <4>1 DEF LooksForPort, ReceiverServes, postVars, stdioVars
      <4>3. TokensAgree'
        BY <3>4 DEF LooksForPort, TokensAgree
      <4>4. QED
        BY <4>2, <4>3
    <3>5. CASE Binds(a)
      <4>1. crowded' \in BOOLEAN
        BY <3>5, Zenon DEF Binds
      <4>2. AdapterTypeOK' /\ ReceiverServes'
        <5>1. CASE receiver = NoOne /\ receiver' = a /\ up' = [up EXCEPT ![a] = "serving"]
          BY <1>0, <3>5, <4>1, <5>1 DEF Binds, ReceiverServes, postVars, stdioVars
        <5>2. CASE receiver # NoOne /\ up' = [up EXCEPT ![a] = "dead"] /\ UNCHANGED receiver
          BY <1>0, <3>5, <4>1, <5>2 DEF Binds, ReceiverServes, postVars, stdioVars
        <5>3. QED
          BY <3>5, <5>1, <5>2 DEF Binds
      <4>3. TokensAgree'
        BY <3>5 DEF Binds, TokensAgree
      <4>4. QED
        BY <4>2, <4>3
    <3>6. QED
      BY <1>0, <3>1, <3>2, <3>3, <3>4, <3>5
  <2>3. QED
    BY <2>1, <2>2
<1>1. CASE AdapterEnds(a)
  <2>1. crowded' \in BOOLEAN
    BY <1>1, Zenon DEF AdapterEnds
  <2>2. \A t \in Tries : handling'[t] = handling[t] \/ (handling'[t] = "gone" /\ handling[t] \in {"read", "asking"})
    BY <1>1 DEF AdapterEnds
  <2>3. AdapterTypeOK' /\ ReceiverServes'
    BY <1>1, <2>1, <2>2 DEF AdapterEnds, ReceiverServes, stdioVars
  <2>4. TokensAgree'
    BY <1>1 DEF AdapterEnds, TokensAgree
  <2>5. \A x : Taken(x)' = Taken(x)
    BY <1>1 DEF AdapterEnds, Taken
  <2>6. AttemptsSound'
    BY <1>1, <2>2, <2>5 DEF AdapterEnds, AttemptsSound
  <2>7. RepliesSound'
    BY DEF RepliesSound, stdioVars
  <2>8. QED
    BY <2>3, <2>4, <2>6, <2>7
<1>2. QED
  BY <1>0, <1>1 DEF Starting

(* What a handler and a call can be.                                       *)
Handlings == {"none", "read", "asking", "ok", "bad", "error", "late", "gone"}
Calls == {"none", "queued", "done", "lost"}

(* A step that concerns one attempt.                                       *)
LEMMA AttemptStep ==
  ASSUME AdapterInv, NEW t \in Tries, UNCHANGED <<posted, delivered, malformed>>,
         NEW h \in Handlings, NEW j \in Calls,
         handling' = [handling EXCEPT ![t] = h], job' = [job EXCEPT ![t] = j],
         h = handling[t] \/ (handling[t] \in {"read", "asking"} /\ h \notin {"none", "read"}),
         job[t] = "done" => j = "done",
         t[1] \in malformed => j = "none",
         h \in {"none", "read", "bad"} => j = "none",
         h = "ok" => j = "done",
         h = "error" => j \in {"none", "lost"}
  PROVE  AttemptsSound' /\ handling' \in [Tries -> Handlings] /\ job' \in [Tries -> Calls]
<1> USE AdaptersAssumption DEF AdapterInv, AdapterTypeOK
<1>1. /\ \A u \in Tries : u # t => handling'[u] = handling[u] /\ job'[u] = job[u]
      /\ job'[t] = j /\ handling'[t] = h
      /\ handling' \in [Tries -> Handlings] /\ job' \in [Tries -> Calls]
  BY DEF Handlings, Calls
<1>2. \A x \in Posts : Taken(x) # {} => Taken(x)' # {}
  <2>1. SUFFICES ASSUME NEW x \in Posts, NEW n \in 1..MaxPosts, job[<<x, n>>] = "done"
                 PROVE  job'[<<x, n>>] = "done"
    BY DEF Taken
  <2>2. <<x, n>> \in Tries
    BY DEF Tries
  <2>3. QED
    BY <1>1, <2>1, <2>2
<1>3. t[1] \in Posts /\ t[2] \in Nat /\ posted[t[1]] \in Nat
  BY DEF Tries
<1>4. h # handling[t] => t[2] = posted[t[1]]
  <2>1. /\ t[2] > posted[t[1]] => handling[t] = "none"
        /\ t[2] < posted[t[1]] => handling[t] \in {"error", "gone", "late"}
    BY DEF AttemptsSound
  <2>2. h # handling[t] => handling[t] \in {"read", "asking"}
    OBVIOUS
  <2>3. h # handling[t] => ~(t[2] > posted[t[1]]) /\ ~(t[2] < posted[t[1]])
    BY <2>1, <2>2
  <2>4. QED
    BY <1>3, <2>3
<1>5. \A u \in Tries :
        /\ u[2] > posted[u[1]] => handling'[u] = "none"
        /\ u[2] < posted[u[1]] => handling'[u] \in {"error", "gone", "late"}
  <2>1. ASSUME NEW u \in Tries
        PROVE  /\ u[2] > posted[u[1]] => handling'[u] = "none"
               /\ u[2] < posted[u[1]] => handling'[u] \in {"error", "gone", "late"}
    <3>1. /\ u[2] > posted[u[1]] => handling[u] = "none"
          /\ u[2] < posted[u[1]] => handling[u] \in {"error", "gone", "late"}
      BY DEF AttemptsSound
    <3>2. CASE handling'[u] = handling[u]
      BY <3>1, <3>2
    <3>3. CASE u = t /\ h # handling[t]
      BY <1>3, <1>4, <3>3
    <3>4. QED
      BY <1>1, <3>2, <3>3
  <2>2. QED
    BY <2>1
<1>6. \A u \in Tries :
        /\ handling'[u] \in {"none", "read", "bad"} => job'[u] = "none"
        /\ handling'[u] = "ok" => job'[u] = "done"
        /\ handling'[u] = "error" => job'[u] \in {"none", "lost"}
        /\ u[1] \in malformed => job'[u] = "none"
  BY <1>1 DEF AttemptsSound
<1>7. \A x \in Posts : delivered'[x] = "true" => Taken(x)' # {}
  BY <1>2 DEF AttemptsSound
<1>8. posted' = posted /\ malformed' = malformed
  OBVIOUS
<1>9. QED
  BY <1>1, <1>5, <1>6, <1>7, <1>8 DEF AttemptsSound

LEMMA OthersKept ==
  ASSUME AdapterInv, UNCHANGED <<startVars, stdioVars, malformed>>
  PROVE  TokensAgree' /\ RepliesSound' /\ ReceiverServes'
<1>1. tokenFile' = tokenFile /\ tokenTmp' = tokenTmp /\ token' = token /\ up' = up /\ crowded' = crowded /\ receiver' = receiver
  BY DEF startVars
<1>2. line' = line /\ replies' = replies
  BY DEF stdioVars
<1>3. QED
  BY <1>1, <1>2 DEF AdapterInv, TokensAgree, RepliesSound, ReceiverServes

LEMMA PostStep ==
  ASSUME AdapterInv, NEW x \in Posts, Post(x), UNCHANGED malformed
  PROVE  AttemptsSound' /\ posted' \in [Posts -> 0..MaxPosts] /\ handling' \in [Tries -> Handlings]
<1> USE AdaptersAssumption DEF AdapterInv, AdapterTypeOK, Post, Handles
<1> DEFINE n == posted[x] + 1
           t == <<x, n>>
<1>1. posted[x] \in 0..MaxPosts /\ n \in 1..MaxPosts /\ t \in Tries /\ t[1] = x /\ t[2] = n
  BY DEF Tries
<1>2. PICK h \in {"gone", "read"} : handling' = [handling EXCEPT ![t] = h]
  OBVIOUS
<1>3. /\ posted' \in [Posts -> 0..MaxPosts] /\ posted'[x] = n
      /\ \A y \in Posts : y # x => posted'[y] = posted[y]
  BY <1>1
<1>4. handling' \in [Tries -> Handlings] /\ handling'[t] = h /\ \A u \in Tries : u # t => handling'[u] = handling[u]
  BY <1>1, <1>2 DEF Handlings
<1>5. handling[t] = "none"
  BY <1>1 DEF AttemptsSound
<1>6. job[t] = "none"
  BY <1>1, <1>5 DEF AttemptsSound
<1>7. posted[x] > 0 => <<x, posted[x]>> \in Tries /\ handling[<<x, posted[x]>>] \in {"error", "gone", "late"}
  BY <1>1 DEF Tries
<1>8. \A u \in Tries :
        /\ u[2] > posted'[u[1]] => handling'[u] = "none"
        /\ u[2] < posted'[u[1]] => handling'[u] \in {"error", "gone", "late"}
  <2>1. ASSUME NEW u \in Tries
        PROVE  /\ u[2] > posted'[u[1]] => handling'[u] = "none"
               /\ u[2] < posted'[u[1]] => handling'[u] \in {"error", "gone", "late"}
    <3>1. /\ u[2] > posted[u[1]] => handling[u] = "none"
          /\ u[2] < posted[u[1]] => handling[u] \in {"error", "gone", "late"}
          /\ u[1] \in Posts /\ u[2] \in Nat /\ u = <<u[1], u[2]>>
      BY DEF AttemptsSound, Tries
    <3>2. CASE u = t
      BY <1>1, <1>3, <3>2
    <3>3. CASE u # t /\ u[1] # x
      BY <1>3, <1>4, <3>1, <3>3
    <3>4. CASE u # t /\ u[1] = x
      <4>1. u[2] # n /\ handling'[u] = handling[u] /\ posted'[x] = posted[x] + 1
        BY <1>3, <1>4, <3>1, <3>4
      <4>2. CASE u[2] = posted[x]
        <5>1. u = <<x, posted[x]>> /\ posted[x] > 0
          BY <3>1, <3>4, <4>2 DEF Tries
        <5>2. handling[u] \in {"error", "gone", "late"}
          BY <1>7, <5>1
        <5>3. QED
          BY <1>1, <3>4, <4>1, <4>2, <5>2
      <4>3. CASE u[2] # posted[x]
        BY <1>1, <3>1, <3>4, <4>1, <4>3
      <4>4. QED
        BY <4>2, <4>3
    <3>5. QED
      BY <3>2, <3>3, <3>4
  <2>2. QED
    BY <2>1
<1>9. \A u \in Tries :
        /\ handling'[u] \in {"none", "read", "bad"} => job[u] = "none"
        /\ handling'[u] = "ok" => job[u] = "done"
        /\ handling'[u] = "error" => job[u] \in {"none", "lost"}
        /\ u[1] \in malformed => job[u] = "none"
  BY <1>2, <1>4, <1>6 DEF AttemptsSound
<1>10. job' = job /\ delivered' = delivered /\ malformed' = malformed
  OBVIOUS
<1>11. \A y \in Posts : delivered'[y] = "true" => Taken(y)' # {}
  BY <1>10 DEF AttemptsSound, Taken
<1>12. QED
  BY <1>3, <1>4, <1>8, <1>9, <1>10, <1>11 DEF AttemptsSound

LEMMA SettleStep ==
  ASSUME AdapterInv, NEW x \in Posts, Settle(x), UNCHANGED malformed
  PROVE  AttemptsSound' /\ delivered' \in [Posts -> {"open", "true", "false"}]
<1> USE AdaptersAssumption DEF AdapterInv, AdapterTypeOK
<1>1. posted' = posted /\ handling' = handling /\ job' = job /\ malformed' = malformed
  BY DEF Settle
<1>2. delivered' \in [Posts -> {"open", "true", "false"}] /\ \A y \in Posts : y # x => delivered'[y] = delivered[y]
  BY DEF Settle
<1>3. \A y : Taken(y)' = Taken(y)
  BY <1>1 DEF Taken
<1>4. delivered'[x] = "true" => Taken(x) # {}
  <2>1. SUFFICES ASSUME delivered'[x] = "true" PROVE Taken(x) # {}
    OBVIOUS
  <2>2. posted[x] > 0 /\ handling[<<x, posted[x]>>] = "ok"
    BY <2>1 DEF Settle
  <2>3. posted[x] \in 1..MaxPosts /\ <<x, posted[x]>> \in Tries
    BY <2>2 DEF Tries
  <2>4. job[<<x, posted[x]>>] = "done"
    BY <2>2, <2>3 DEF AttemptsSound
  <2>5. QED
    BY <2>3, <2>4 DEF Taken
<1>5. \A y \in Posts : delivered'[y] = "true" => Taken(y)' # {}
  BY <1>2, <1>3, <1>4 DEF AttemptsSound
<1>6. QED
  BY <1>1, <1>2, <1>5 DEF AttemptsSound

(* The handlers and the daemon.                                            *)
LEMMA HandlingStep ==
  ASSUME AdapterInv, NEW t \in Tries, UNCHANGED malformed,
         HandleObserve(t) \/ Dispatched(t) \/ CallReturns(t) \/ FetchTimesOut(t)
  PROVE  /\ AttemptsSound' /\ handling' \in [Tries -> Handlings] /\ job' \in [Tries -> Calls]
         /\ UNCHANGED <<posted, delivered>>
<1> USE AdaptersAssumption
<1>1. /\ handling \in [Tries -> Handlings] /\ job \in [Tries -> Calls] /\ handling[t] \in Handlings /\ job[t] \in Calls
      /\ handling = [handling EXCEPT ![t] = handling[t]] /\ job = [job EXCEPT ![t] = job[t]]
  BY DEF AdapterInv, AdapterTypeOK, Handlings, Calls
<1>2. /\ handling[t] \in {"none", "read", "bad"} => job[t] = "none"
      /\ handling[t] = "ok" => job[t] = "done"
      /\ handling[t] = "error" => job[t] \in {"none", "lost"}
      /\ t[1] \in malformed => job[t] = "none"
  BY DEF AdapterInv, AttemptsSound
<1>3. UNCHANGED <<posted, delivered>>
  BY DEF HandleObserve, Dispatched, CallReturns, FetchTimesOut
<1>4. \E h \in Handlings, j \in Calls :
        /\ handling' = [handling EXCEPT ![t] = h] /\ job' = [job EXCEPT ![t] = j]
        /\ h = handling[t] \/ (handling[t] \in {"read", "asking"} /\ h \notin {"none", "read"})
        /\ job[t] = "done" => j = "done"
        /\ t[1] \in malformed => j = "none"
        /\ h \in {"none", "read", "bad"} => j = "none"
        /\ h = "ok" => j = "done"
        /\ h = "error" => j \in {"none", "lost"}
  <2>1. CASE HandleObserve(t)
    <3>1. CASE t[1] \in malformed /\ handling' = [handling EXCEPT ![t] = "bad"] /\ UNCHANGED job
      BY <1>1, <1>2, <2>1, <3>1 DEF HandleObserve, Handlings
    <3>2. CASE handling' = [handling EXCEPT ![t] = "error"] /\ UNCHANGED job
      BY <1>1, <1>2, <2>1, <3>2 DEF HandleObserve, Handlings
    <3>3. CASE t[1] \notin malformed /\ handling' = [handling EXCEPT ![t] = "asking"] /\ job' = [job EXCEPT ![t] = "queued"]
      BY <1>1, <1>2, <2>1, <3>3 DEF HandleObserve, Handlings, Calls
    <3>4. QED
      BY <2>1, <3>1, <3>2, <3>3 DEF HandleObserve, Handles
  <2>2. CASE Dispatched(t)
    <3>1. job[t] = "queued" /\ job' = [job EXCEPT ![t] = "done"] /\ handling' = handling
      BY <2>2 DEF Dispatched
    <3>2. QED
      BY <1>1, <1>2, <3>1 DEF Calls
  <2>3. CASE CallReturns(t)
    <3>1. handling[t] = "asking" /\ job' = job
      BY <2>3 DEF CallReturns
    <3>2. CASE job[t] = "done" /\ handling' = [handling EXCEPT ![t] = "ok"]
      BY <1>1, <1>2, <3>1, <3>2 DEF Handlings
    <3>3. CASE job[t] = "lost" /\ handling' = [handling EXCEPT ![t] = "error"]
      BY <1>1, <1>2, <3>1, <3>3 DEF Handlings
    <3>4. CASE handling' = [handling EXCEPT ![t] = "late"]
      BY <1>1, <1>2, <3>1, <3>4 DEF Handlings
    <3>5. QED
      BY <2>3, <3>2, <3>3, <3>4 DEF CallReturns, Handles
  <2>4. CASE FetchTimesOut(t)
    <3>1. handling[t] \in {"read", "asking"} /\ handling' = [handling EXCEPT ![t] = "late"]
      BY <2>4 DEF FetchTimesOut, Handles
    <3>2. CASE job' = [job EXCEPT ![t] = "queued"] /\ handling[t] = "read" /\ t[1] \notin malformed
      BY <1>1, <1>2, <3>1, <3>2 DEF Handlings, Calls
    <3>3. CASE job' = [job EXCEPT ![t] = job[t]]
      BY <1>1, <1>2, <3>1, <3>3 DEF Handlings
    <3>4. QED
      BY <2>4, <3>2, <3>3 DEF FetchTimesOut
  <2>5. QED
    BY <2>1, <2>2, <2>3, <2>4
<1>5. QED
  BY <1>3, <1>4, AttemptStep

LEMMA PostingStep ==
  ASSUME AdapterInv, Posting, UNCHANGED <<startVars, malformed, daemonRuns, daemonEnds, stdioVars>>
  PROVE  AdapterInv'
<1> USE AdaptersAssumption
<1>1. TokensAgree' /\ RepliesSound' /\ ReceiverServes'
  BY OthersKept
<1>2. crowded' \in BOOLEAN /\ daemonRuns' \in BOOLEAN
  BY Zenon DEF AdapterInv, AdapterTypeOK, startVars
<1> DEFINE goal == /\ AttemptsSound' /\ posted' \in [Posts -> 0..MaxPosts]
                   /\ delivered' \in [Posts -> {"open", "true", "false"}]
                   /\ handling' \in [Tries -> Handlings] /\ job' \in [Tries -> Calls]
<1>3. goal
  <2>1. posted \in [Posts -> 0..MaxPosts] /\ delivered \in [Posts -> {"open", "true", "false"}]
          /\ handling \in [Tries -> Handlings] /\ job \in [Tries -> Calls]
    BY DEF AdapterInv, AdapterTypeOK, Handlings, Calls
  <2>2. ASSUME NEW x \in Posts, Post(x) PROVE goal
    BY <2>1, <2>2, PostStep DEF Post
  <2>3. ASSUME NEW x \in Posts, Settle(x) PROVE goal
    BY <2>1, <2>3, SettleStep DEF Settle
  <2>4. ASSUME NEW t \in Tries, HandleObserve(t) \/ Dispatched(t) \/ CallReturns(t) \/ FetchTimesOut(t) PROVE goal
    BY <2>1, <2>4, HandlingStep
  <2>5. QED
    BY <2>2, <2>3, <2>4 DEF Posting
<1>4. AdapterTypeOK'
  <2>1. tokenFile' = tokenFile /\ tokenTmp' = tokenTmp /\ token' = token /\ up' = up /\ receiver' = receiver /\ ended' = ended
    BY DEF startVars
  <2>2. line' = line /\ replies' = replies /\ malformed' = malformed /\ daemonEnds' = daemonEnds
    BY DEF stdioVars
  <2>3. QED
    BY <1>2, <1>3, <2>1, <2>2 DEF AdapterInv, AdapterTypeOK, Handlings, Calls
<1>5. QED
  BY <1>1, <1>3, <1>4 DEF AdapterInv

LEMMA StdioStep ==
  ASSUME AdapterInv, StdioRequest
  PROVE  RepliesSound' /\ line' \in 0..Len(Lines) /\ replies' \in Seq((1..Len(Lines)) \X {"result", "error"})
<1> USE AdaptersAssumption DEF StdioRequest, ReadsOn
<1>1. /\ line \in 0..Len(Lines) /\ line < Len(Lines) /\ line' = line + 1
      /\ Len(Lines) \in Nat /\ line + 1 \in 1..Len(Lines)
      /\ replies \in Seq((1..Len(Lines)) \X {"result", "error"})
  BY DEF AdapterInv, AdapterTypeOK
<1>2. /\ {replies[i][1] : i \in DOMAIN replies} = {n \in 1..line : Lines[n] = "call"}
      /\ \A i, j \in DOMAIN replies : i < j => replies[i][1] < replies[j][1]
  BY DEF AdapterInv, RepliesSound
<1>3. CASE Lines[line + 1] = "call"
  <2>1. PICK verdict \in {"result", "error"} : replies' = Append(replies, <<line + 1, verdict>>)
    BY <1>3
  <2>2. /\ Len(replies) \in Nat /\ DOMAIN replies = 1..Len(replies)
        /\ DOMAIN replies' = 1..(Len(replies) + 1)
        /\ \A i \in 1..Len(replies) : replies'[i] = replies[i]
        /\ replies'[Len(replies) + 1] = <<line + 1, verdict>>
        /\ replies' \in Seq((1..Len(Lines)) \X {"result", "error"})
    BY <1>1, <2>1
  <2>3. \A i \in 1..Len(replies) : replies[i][1] \in 1..line
    BY <1>2, <2>2
  <2>4. \A i, j \in DOMAIN replies' : i < j => replies'[i][1] < replies'[j][1]
    <3>1. SUFFICES ASSUME NEW i \in 1..(Len(replies) + 1), NEW j \in 1..(Len(replies) + 1), i < j
                   PROVE  replies'[i][1] < replies'[j][1]
      BY <2>2
    <3>2. CASE j = Len(replies) + 1
      <4>1. i \in 1..Len(replies) /\ replies'[i] = replies[i] /\ replies[i][1] \in 1..line
        BY <2>2, <2>3, <3>1, <3>2
      <4>2. replies'[j][1] = line + 1
        BY <2>2, <3>2
      <4>3. QED
        BY <1>1, <4>1, <4>2
    <3>3. CASE j # Len(replies) + 1
      <4>1. /\ i \in DOMAIN replies /\ replies'[i] = replies[i]
            /\ j \in DOMAIN replies /\ replies'[j] = replies[j]
        BY <2>2, <3>1, <3>3
      <4>2. QED
        BY <1>2, <3>1, <4>1
    <3>4. QED
      BY <3>2, <3>3
  <2>5. {replies'[i][1] : i \in DOMAIN replies'} = {n \in 1..line' : Lines[n] = "call"}
    <3>1. ASSUME NEW i \in DOMAIN replies' PROVE replies'[i][1] \in {n \in 1..line' : Lines[n] = "call"}
      <4>1. CASE i = Len(replies) + 1
        BY <1>1, <1>3, <2>2, <4>1
      <4>2. CASE i # Len(replies) + 1
        <5>1. i \in DOMAIN replies /\ replies'[i] = replies[i]
          BY <2>2, <4>2
        <5>2. replies[i][1] \in {n \in 1..line : Lines[n] = "call"}
          BY <1>2, <5>1
        <5>3. QED
          BY <1>1, <5>1, <5>2
      <4>3. QED
        BY <4>1, <4>2
    <3>2. ASSUME NEW n \in 1..line', Lines[n] = "call" PROVE \E i \in DOMAIN replies' : replies'[i][1] = n
      <4>1. CASE n = line + 1
        BY <2>2, <4>1
      <4>2. CASE n # line + 1
        <5>1. n \in {m \in 1..line : Lines[m] = "call"}
          BY <1>1, <3>2, <4>2
        <5>2. PICK i \in DOMAIN replies : replies[i][1] = n
          BY <1>2, <5>1
        <5>3. QED
          BY <2>2, <5>2
      <4>3. QED
        BY <4>1, <4>2
    <3>3. QED
      BY <3>1, <3>2
  <2>6. QED
    BY <1>1, <2>2, <2>4, <2>5 DEF RepliesSound
<1>4. CASE Lines[line + 1] # "call"
  <2>1. replies' = replies
    BY <1>4
  <2>2. {n \in 1..line' : Lines[n] = "call"} = {n \in 1..line : Lines[n] = "call"}
    BY <1>1, <1>4
  <2>3. QED
    BY <1>1, <1>2, <2>1, <2>2 DEF RepliesSound
<1>5. QED
  BY <1>3, <1>4

LEMMA DaemonStep ==
  ASSUME AdapterInv, DaemonStops \/ DaemonStarts, UNCHANGED malformed
  PROVE  AdapterInv'
<1> USE AdaptersAssumption
<1>1. UNCHANGED <<startVars, stdioVars, malformed, posted, delivered, handling>>
  BY DEF DaemonStops, DaemonStarts, postVars
<1>2. TokensAgree' /\ RepliesSound' /\ ReceiverServes'
  BY <1>1, OthersKept
<1>3. daemonRuns' \in BOOLEAN /\ daemonEnds' \in 0..MaxDaemonEnds
  <2>1. daemonEnds \in 0..MaxDaemonEnds /\ MaxDaemonEnds \in Nat
    BY DEF AdapterInv, AdapterTypeOK
  <2>2. CASE DaemonStops
    <3>1. daemonRuns' = FALSE /\ daemonEnds < MaxDaemonEnds /\ daemonEnds' = daemonEnds + 1
      BY <2>2 DEF DaemonStops
    <3>2. daemonEnds' \in 0..MaxDaemonEnds
      BY <2>1, <3>1
    <3>3. daemonRuns' \in BOOLEAN
      BY <3>1
    <3>4. QED
      BY <3>2, <3>3
  <2>3. CASE DaemonStarts
    <3>1. daemonRuns' = TRUE /\ daemonEnds' = daemonEnds
      BY <2>3 DEF DaemonStarts
    <3>2. QED
      BY <2>1, <3>1
  <2>4. QED
    BY <2>2, <2>3
<1>4. crowded' \in BOOLEAN
  BY <1>1, Zenon DEF AdapterInv, AdapterTypeOK, startVars
<1>5. job' \in [Tries -> Calls] /\ \A t \in Tries : job'[t] = job[t] \/ (job[t] = "queued" /\ job'[t] = "lost")
  BY DEF DaemonStops, DaemonStarts, AdapterInv, AdapterTypeOK, Calls, postVars
<1>6. \A x \in Posts : Taken(x) # {} => Taken(x)' # {}
  <2>1. SUFFICES ASSUME NEW x \in Posts, NEW n \in 1..MaxPosts, job[<<x, n>>] = "done"
                 PROVE  job'[<<x, n>>] = "done"
    BY DEF Taken
  <2>2. <<x, n>> \in Tries
    BY DEF Tries
  <2>3. QED
    BY <1>5, <2>1, <2>2
<1>7. AttemptsSound'
  BY <1>1, <1>5, <1>6 DEF AdapterInv, AttemptsSound
<1>8. AdapterTypeOK'
  BY <1>1, <1>3, <1>4, <1>5 DEF AdapterInv, AdapterTypeOK, Calls, startVars, stdioVars
<1>9. QED
  BY <1>2, <1>7, <1>8 DEF AdapterInv

LEMMA AdapterStep ==
  ASSUME AdapterInv, [AdapterNext]_adapterVars
  PROVE  AdapterInv'
<1>1. CASE UNCHANGED adapterVars
  <2>1. UNCHANGED <<startVars, stdioVars, malformed>> /\ crowded' = crowded /\ daemonRuns' = daemonRuns
    BY <1>1 DEF adapterVars, startVars
  <2>2. TokensAgree' /\ RepliesSound' /\ ReceiverServes'
    BY <2>1, OthersKept
  <2>3. \A x : Taken(x)' = Taken(x)
    BY <1>1 DEF Taken, adapterVars, postVars
  <2>4. AttemptsSound'
    BY <1>1, <2>3 DEF AdapterInv, AttemptsSound, adapterVars, postVars
  <2>5. crowded' \in BOOLEAN /\ daemonRuns' \in BOOLEAN
    BY <2>1, Zenon DEF AdapterInv, AdapterTypeOK
  <2>6. AdapterTypeOK'
    BY <1>1, <2>5 DEF AdapterInv, AdapterTypeOK, adapterVars, startVars, postVars, stdioVars
  <2>7. QED
    BY <2>2, <2>4, <2>6 DEF AdapterInv
<1>2. ASSUME NEW a \in Running, Starting(a), UNCHANGED <<malformed, daemonRuns, daemonEnds, stdioVars>> PROVE AdapterInv'
  BY <1>2, StartingStep
<1>3. CASE Posting /\ UNCHANGED <<startVars, malformed, daemonRuns, daemonEnds, stdioVars>>
  BY <1>3, PostingStep
<1>4. CASE StdioRequest /\ UNCHANGED <<startVars, malformed, daemonRuns, daemonEnds, postVars>>
  <2>1. RepliesSound' /\ line' \in 0..Len(Lines) /\ replies' \in Seq((1..Len(Lines)) \X {"result", "error"})
    BY <1>4, StdioStep
  <2>2. /\ tokenFile' = tokenFile /\ tokenTmp' = tokenTmp /\ token' = token /\ up' = up /\ crowded' = crowded
        /\ receiver' = receiver /\ ended' = ended /\ daemonRuns' = daemonRuns
    BY <1>4 DEF startVars
  <2>3. \A x : Taken(x)' = Taken(x)
    BY <1>4 DEF Taken, postVars
  <2>4. AttemptsSound'
    BY <1>4, <2>3 DEF AdapterInv, AttemptsSound, postVars
  <2>5. TokensAgree' /\ ReceiverServes'
    BY <2>2 DEF AdapterInv, TokensAgree, ReceiverServes
  <2>6. crowded' \in BOOLEAN /\ daemonRuns' \in BOOLEAN
    BY <2>2, Zenon DEF AdapterInv, AdapterTypeOK
  <2>7. AdapterTypeOK'
    BY <1>4, <2>1, <2>2, <2>6 DEF AdapterInv, AdapterTypeOK, postVars
  <2>8. QED
    BY <2>1, <2>4, <2>5, <2>7 DEF AdapterInv
<1>5. CASE UNCHANGED malformed /\ (DaemonStops \/ DaemonStarts)
  BY <1>5, DaemonStep
<1>6. QED
  BY <1>1, <1>2, <1>3, <1>4, <1>5 DEF AdapterNext

(* Of the attempts for an observation that the daemon took, only the last  *)
(* may have been answered.                                                 *)
LEMMA TakenOnce ==
  ASSUME AdapterInv, NEW x \in Posts
  PROVE  Cardinality(Taken(x) \ {n \in 1..MaxPosts : handling[<<x, n>>] \in {"late", "gone"}}) <= 1
<1> DEFINE S == Taken(x) \ {n \in 1..MaxPosts : handling[<<x, n>>] \in {"late", "gone"}}
<1>1. posted[x] \in Nat
  BY DEF AdapterInv, AdapterTypeOK
<1>2. S \subseteq {posted[x]}
  <2>1. SUFFICES ASSUME NEW n \in S PROVE n = posted[x]
    OBVIOUS
  <2>2. n \in 1..MaxPosts /\ job[<<x, n>>] = "done" /\ handling[<<x, n>>] \notin {"late", "gone"}
    BY DEF Taken
  <2>3. <<x, n>> \in Tries /\ n \in Nat
    BY <2>2, AdaptersAssumption DEF Tries
  <2>4. /\ n > posted[x] => handling[<<x, n>>] = "none"
        /\ n < posted[x] => handling[<<x, n>>] \in {"error", "gone", "late"}
        /\ handling[<<x, n>>] \in {"none", "read", "bad"} => job[<<x, n>>] = "none"
        /\ handling[<<x, n>>] = "error" => job[<<x, n>>] \in {"none", "lost"}
    BY <2>3 DEF AdapterInv, AttemptsSound
  <2>5. ~(n > posted[x]) /\ ~(n < posted[x])
    BY <2>2, <2>4
  <2>6. QED
    BY <1>1, <2>3, <2>5
<1> DEFINE One == {posted[x]}
<1>3. IsFiniteSet(One) /\ Cardinality(One) = 1
  BY FS_Singleton
<1>4. S \in SUBSET One
  BY <1>2
<1> HIDE DEF S, One
<1>5. Cardinality(S) <= Cardinality(One)
  BY ONLY <1>3, <1>4, FS_Subset
<1>6. Cardinality(S) <= 1
  BY ONLY <1>3, <1>5
<1>7. QED
  BY <1>6 DEF S

(* The token, the port, the observations and the replies, for any number   *)
(* of adapters, observations, attempts and requests and however often the  *)
(* adapters and the daemon end (integration/common.py, transport.js).      *)
THEOREM AdaptersAreSound == AdapterSpec => []AdaptersSound
<1>1. AdapterInit => AdapterInv
  BY AdapterStart
<1>2. AdapterInv /\ [AdapterNext]_adapterVars => AdapterInv'
  BY AdapterStep
<1>3. AdapterInv => AdaptersSound
  <2>1. SUFFICES ASSUME AdapterInv PROVE AdaptersSound
    OBVIOUS
  <2>2. \A x \in Posts :
          /\ (delivered[x] = "true") => (Taken(x) # {})
          /\ x \in malformed => (Taken(x) = {})
    <3>1. ASSUME NEW x \in Posts, x \in malformed PROVE Taken(x) = {}
      <4>1. \A n \in 1..MaxPosts : <<x, n>> \in Tries /\ <<x, n>>[1] = x
        BY DEF Tries
      <4>2. \A t \in Tries : t[1] \in malformed => job[t] = "none"
        BY <2>1 DEF AdapterInv, AttemptsSound
      <4>3. \A n \in 1..MaxPosts : job[<<x, n>>] = "none"
        BY <3>1, <4>1, <4>2
      <4>4. QED
        BY <4>3 DEF Taken
    <3>2. QED
      BY <2>1, <3>1 DEF AdapterInv, AttemptsSound
  <2>3. \A x \in Posts : Cardinality(Taken(x) \ {n \in 1..MaxPosts : handling[<<x, n>>] \in {"late", "gone"}}) <= 1
    BY <2>1, TakenOnce
  <2>4. QED
    BY <2>1, <2>2, <2>3 DEF AdapterInv, TokensAgree, ReceiverServes, RepliesSound, AdaptersSound
<1>4. QED
  BY <1>1, <1>2, <1>3, PTL DEF AdapterSpec

(* An observation is attempted no more often than transport.js allows, the *)
(* token is that of an adapter, and replies answer lines that were read    *)
(* (integration/common.py, transport.js).                                  *)
THEOREM AdaptersTyped == AdapterSpec => []AdapterTypeOK
<1>1. AdapterInv => AdapterTypeOK
  BY DEF AdapterInv
<1>2. QED
  BY <1>1, AdapterStart, AdapterStep, PTL DEF AdapterSpec
=============================================================================
