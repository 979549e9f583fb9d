------------------------- MODULE StorePipeProofs -------------------------
(***************************************************************************)
(* The hand-overs between the store's queue, its worker and flush() lose   *)
(* no accepted write and never run the join counter ahead of the queue,    *)
(* for any sets of sessions and callers, any batch size and any number of  *)
(* writes, SQLite errors and restarts; and together they are the           *)
(* write-behind store of WriteBehind.                                      *)
(***************************************************************************)
EXTENDS StorePipe, TLAPS, SequenceTheorems, WellFoundedInduction

Items == Writes \union {Stop}

-----------------------------------------------------------------------------
(* What remains of a batch as it is filled, executed and finished.         *)
LEMMA FromAppend ==
  ASSUME NEW S, NEW b \in Seq(S), NEW w \in S, NEW p \in 1..(Len(b) + 1)
  PROVE  From(Append(b, w), p) = From(b, p) \union {w}
<1>1. /\ Len(Append(b, w)) = Len(b) + 1
      /\ \A i \in 1..Len(b) : Append(b, w)[i] = b[i]
      /\ Append(b, w)[Len(b) + 1] = w
  BY AppendProperties
<1>2. Len(b) \in Nat
  BY LenProperties
<1>3. p..(Len(b) + 1) = (p..Len(b)) \union {Len(b) + 1}
  BY <1>2
<1>4. \A i \in p..Len(b) : Append(b, w)[i] = b[i]
  BY <1>1, <1>2
<1>5. QED
  BY <1>1, <1>3, <1>4, Zenon DEF From

LEMMA FromStep ==
  ASSUME NEW S, NEW b \in Seq(S), NEW p \in 1..Len(b)
  PROVE  From(b, p) = {b[p]} \union From(b, p + 1)
<1>1. p..Len(b) = {p} \union ((p + 1)..Len(b))
  BY LenProperties
<1>2. QED
  BY <1>1, Zenon DEF From

LEMMA FromEnd ==
  ASSUME NEW S, NEW b \in Seq(S)
  PROVE  From(b, Len(b) + 1) = {}
<1>1. (Len(b) + 1)..Len(b) = {}
  BY LenProperties
<1>2. QED
  BY <1>1, Zenon DEF From

LEMMA FromEmpty == \A p \in Nat \ {0} : From(<<>>, p) = {}
<1>1. \A p \in Nat \ {0} : p..Len(<<>>) = {}
  BY EmptySeq
<1>2. QED
  BY <1>1, Zenon DEF From

LEMMA FromStart ==
  ASSUME NEW b, NEW p \in Nat \ {0}, Len(b) \in Nat
  PROVE  From(b, p) \subseteq From(b, 1)
<1>1. p..Len(b) \subseteq 1..Len(b)
  OBVIOUS
<1>2. QED
  BY <1>1, Zenon DEF From

LEMMA FromHeadTail ==
  ASSUME NEW S, NEW q \in Seq(S), q # <<>>
  PROVE  From(q, 1) \subseteq {Head(q)} \union From(Tail(q), 1)
<1>1. /\ Len(Tail(q)) = Len(q) - 1
      /\ \A i \in 1..Len(Tail(q)) : Tail(q)[i] = q[i + 1]
      /\ Len(q) \in Nat \ {0}
      /\ Head(q) = q[1]
  BY HeadTailProperties, EmptySeq
<1> SUFFICES ASSUME NEW i \in 1..Len(q), i # 1
             PROVE  q[i] \in From(Tail(q), 1)
  BY <1>1 DEF From
<1>2. i - 1 \in 1..Len(Tail(q)) /\ (i - 1) + 1 = i
  BY <1>1
<1>3. Tail(q)[i - 1] = q[i]
  BY <1>1, <1>2
<1>4. QED
  BY <1>2, <1>3, Zenon DEF From

-----------------------------------------------------------------------------
(* A non-empty set of natural numbers has a least element.                 *)
LEMMA LeastExists ==
  ASSUME NEW T \in SUBSET Nat, T # {}
  PROVE  \E i \in T : \A j \in T : i <= j
<1> DEFINE R == OpToRel(<, Nat)
<1>1. IsWellFoundedOn(R, Nat)
  BY NatLessThanWellFounded
<1> HIDE DEF R
<1>2. PICK i \in T : \A j \in T : ~ (<<j, i>> \in R)
  BY <1>1, WFMin, Zenon
<1>3. ASSUME NEW j \in T, j < i
      PROVE  <<j, i>> \in R
  BY <1>3 DEF R, OpToRel
<1>5. \A j \in T : ~ (j < i)
  BY <1>2, <1>3, Zenon
<1>4. QED
  BY <1>5

LEMMA FirstStopIsFirst ==
  ASSUME NEW q \in Seq(Items), StopAt(q) # {}
  PROVE  /\ FirstStop(q) \in 1..Len(q)
         /\ q[FirstStop(q)] = Stop
         /\ \A i \in 1..(FirstStop(q) - 1) : q[i] # Stop
<1>1. StopAt(q) \in SUBSET Nat
  BY LenProperties DEF StopAt
<1>2. \E i \in StopAt(q) : \A j \in StopAt(q) : i <= j
  BY <1>1, LeastExists, Zenon
<1>3. FirstStop(q) \in StopAt(q) /\ \A j \in StopAt(q) : FirstStop(q) <= j
  BY <1>2, Zenon DEF FirstStop
<1>4. QED
  <2>1. DOMAIN q = 1..Len(q) /\ Len(q) \in Nat
    BY LenProperties
  <2>2. QED
    BY <1>3, <2>1 DEF StopAt

LEMMA DrainWhole ==
  ASSUME NEW q \in Seq(Items), StopAt(q) = {}
  PROVE  /\ Drained(q) = q /\ Drained(q) \in Seq(Writes)
         /\ Left(q) = <<>>
<1>1. Len(q) \in Nat /\ q \in [1..Len(q) -> Items] /\ DOMAIN q = 1..Len(q)
  BY LenProperties
<1>2. \A i \in 1..Len(q) : q[i] \in Writes
  BY <1>1 DEF StopAt, Items
<1>3. SubSeq(q, 1, Len(q)) = q
  BY SubSeqFull
<1>4. q \in Seq(Writes)
  BY <1>1, <1>2, <1>3, SubSeqProperties
<1>5. QED
  BY <1>4 DEF Drained, Left

(* flush() takes what stands before the sentinel and leaves what stands    *)
(* behind it: nothing is dropped or taken twice, and its own batch holds   *)
(* no sentinel.                                                            *)
LEMMA DrainSplit ==
  ASSUME NEW q \in Seq(Items)
  PROVE  /\ Drained(q) \in Seq(Writes)
         /\ Left(q) \in Seq(Items)
         /\ Len(Drained(q)) + Len(Left(q)) = Len(q)
         /\ From(q, 1) \subseteq From(Drained(q), 1) \union From(Left(q), 1)
<1>0. Len(q) \in Nat /\ \A i \in 1..Len(q) : q[i] \in Items
  BY LenProperties, ElementOfSeq
<1>1. CASE StopAt(q) = {}
  <2>1. Left(q) \in Seq(Items) /\ Len(Left(q)) = 0
    BY <1>1, DrainWhole, EmptySeq
  <2>2. QED
    BY <1>0, <1>1, <2>1, DrainWhole
<1>2. CASE StopAt(q) # {}
  <2> DEFINE k == FirstStop(q)
             before == SubSeq(q, 1, k - 1)
             behind == SubSeq(q, k + 1, Len(q))
  <2>1. /\ k \in 1..Len(q)
        /\ q[k] = Stop
        /\ \A i \in 1..(k - 1) : q[i] # Stop
    BY <1>2, FirstStopIsFirst DEF Items
  <2>2. Drained(q) = before /\ Left(q) = Append(behind, Stop)
    BY <1>2, Zenon DEF Drained, Left
  <2> HIDE DEF k
  <2>3. \A i \in 1..(k - 1) : q[i] \in Writes
    BY <1>0, <2>1 DEF Items
  <2>4. /\ before \in Seq(Writes) /\ Len(before) = k - 1
        /\ \A i \in 1..(k - 1) : before[i] = q[i]
    BY <1>0, <2>1, <2>3, SubSeqProperties
  <2>5. /\ behind \in Seq(Items) /\ Len(behind) = Len(q) - k
        /\ \A i \in 1..(Len(q) - k) : behind[i] = q[k + i]
    BY <1>0, <2>1, SubSeqProperties
  <2> HIDE DEF before, behind
  <2>6. Stop \in Items
    BY DEF Items
  <2>7. /\ Append(behind, Stop) \in Seq(Items)
        /\ Len(Append(behind, Stop)) = Len(q) - k + 1
        /\ \A i \in 1..(Len(q) - k) : Append(behind, Stop)[i] = q[k + i]
        /\ Append(behind, Stop)[Len(q) - k + 1] = Stop
    BY <2>5, <2>6, AppendProperties
  <2>8. ASSUME NEW i \in 1..Len(q)
        PROVE  q[i] \in From(before, 1) \union From(Append(behind, Stop), 1)
    <3>1. CASE i < k
      <4>1. i \in 1..Len(before) /\ before[i] = q[i]
        BY <1>0, <2>1, <2>4, <3>1
      <4>2. QED
        BY <4>1, Zenon DEF From
    <3>2. CASE i = k
      <4>1. /\ Len(q) - k + 1 \in 1..Len(Append(behind, Stop))
            /\ Append(behind, Stop)[Len(q) - k + 1] = q[i]
        BY <1>0, <2>1, <2>7, <3>2
      <4>2. QED
        BY <4>1, Zenon DEF From
    <3>3. CASE i > k
      <4>1. i - k \in 1..Len(Append(behind, Stop)) /\ k + (i - k) = i
        BY <1>0, <2>1, <2>7, <3>3
      <4>2. Append(behind, Stop)[i - k] = q[i]
        <5>1. i - k \in 1..(Len(q) - k)
          BY <1>0, <2>1, <3>3
        <5>2. QED
          BY <2>7, <4>1, <5>1, Zenon
      <4>3. QED
        BY <4>1, <4>2, Zenon DEF From
    <3>4. QED
      BY <1>0, <2>1, <3>1, <3>2, <3>3
  <2>9. From(q, 1) \subseteq From(before, 1) \union From(Append(behind, Stop), 1)
    BY <2>8, Zenon DEF From
  <2>10. QED
    BY <1>0, <2>1, <2>2, <2>4, <2>7, <2>9
<1>3. QED
  BY <1>1, <1>2

-----------------------------------------------------------------------------
(* Types.  What the statements on the connection and the queue's counter   *)
(* leave of the right type, and then every action.                         *)
DbTypeOK ==
  /\ rows \in [Sessions -> {0} \union Versions] /\ disk \in [Sessions -> {0} \union Versions]
  /\ dirty \subseteq Writes /\ committed \subseteq Writes /\ lost \subseteq Writes
  /\ undone \subseteq Writes /\ faults \in Nat

LEMMA RaiseType ==
  ASSUME TypeOK, NEW W \in SUBSET Writes, Raise(W)
  PROVE  DbTypeOK'
  BY DEF TypeOK, Raise, DbTypeOK

LEMMA ExecUpsertType ==
  ASSUME TypeOK, NEW w \in Writes, ExecUpsert(w)
  PROVE  DbTypeOK'
<1>1. w.sid \in Sessions /\ w.ver \in Versions
  BY DEF Writes
<1>2. CASE Raise({w})
  BY <1>2, RaiseType
<1>3. CASE /\ rows' = [rows EXCEPT ![w.sid] = w.ver] /\ dirty' = dirty \union {w}
           /\ UNCHANGED <<disk, committed, lost, undone, faults>>
  <2>1. rows' \in [Sessions -> {0} \union Versions]
    BY <1>1, <1>3 DEF TypeOK
  <2>2. QED
    BY <1>3, <2>1 DEF TypeOK, DbTypeOK
<1>4. QED
  BY <1>2, <1>3 DEF ExecUpsert

LEMMA CommitType ==
  ASSUME TypeOK, Commit \/ \E r : CommitFails(r)
  PROVE  DbTypeOK'
  BY BoundsAssumption DEF TypeOK, Commit, CommitFails, DbTypeOK

LEMMA CounterType ==
  ASSUME TypeOK, NEW n \in Nat, SetUnfinished(n)
  PROVE  /\ unfinished' \in Nat
         /\ joiner' \in [Syncers -> {"idle", "joining", "drained"}]
  BY DEF TypeOK, SetUnfinished

LEMMA EvictType ==
  ASSUME TypeOK, Evict \/ UNCHANGED ram
  PROVE  ram' \in [Sessions -> {0} \union Versions]
  BY DEF TypeOK, Evict

LEMMA WriteType ==
  /\ \A s \in Sessions, v \in Versions : [sid |-> s, ver |-> v] \in Writes
  /\ Writes \subseteq Items /\ Stop \in Items /\ Stop \notin Writes /\ NoWrite \notin Writes
  BY SentinelAssumption DEF Writes, Items

LEMMA InitType == Init => TypeOK
<1> SUFFICES ASSUME Init PROVE TypeOK
  OBVIOUS
<1>1. /\ queue \in Seq(Items) /\ batch \in Seq(Writes) /\ wpos \in 1..(Len(batch) + 1)
      /\ fbatch \in [Flushers -> Seq(Writes)]
  BY EmptySeq DEF Init
<1>2. /\ ram \in [Sessions -> {0} \union Versions]
      /\ rows \in [Sessions -> {0} \union Versions]
      /\ disk \in [Sessions -> {0} \union Versions]
      /\ dirty \subseteq Writes /\ accepted \subseteq Writes
      /\ committed \subseteq Writes /\ lost \subseteq Writes /\ stopOwed \subseteq Writes
      /\ undone \subseteq Writes /\ joinOwed \in [Syncers -> SUBSET Writes]
  BY DEF Init
<1>3. /\ fpc \in [Flushers -> {"idle", "exec", "done"}]
      /\ fpos \in [Flushers -> Nat \ {0}]
      /\ goal \in [Flushers -> Writes \union {NoWrite}]
      /\ joiner \in [Syncers -> {"idle", "joining", "drained"}]
  BY DEF Init
<1>4. built \in 0..MaxWrites
  BY BoundsAssumption DEF Init
<1>5. QED
  BY <1>1, <1>2, <1>3, <1>4 DEF Init, TypeOK, Items

(* The head of the queue is a write or the sentinel, and is counted.       *)
LEMMA HeadOfQueue ==
  ASSUME PipeInv, queue # <<>>
  PROVE  /\ Head(queue) \in Items /\ Tail(queue) \in Seq(Items)
         /\ Len(Tail(queue)) = Len(queue) - 1
         /\ unfinished - 1 \in Nat
         /\ Len(queue) \in Nat \ {0}
<1>1. queue \in Seq(Items)
  BY DEF PipeInv, TypeOK, Items
<1>2. /\ Head(queue) \in Items /\ Tail(queue) \in Seq(Items)
      /\ Len(Tail(queue)) = Len(queue) - 1 /\ Len(queue) \in Nat \ {0}
  BY <1>1, HeadTailProperties, EmptySeq
<1>3. QED
  BY <1>2 DEF PipeInv, TypeOK, JoinCounterSound

LEMMA QueueWriteType ==
  ASSUME TypeOK, NEW w \in Writes, QueueWrite(w)
  PROVE  /\ queue' \in Seq(Items) /\ Len(queue') = Len(queue) + 1
         /\ unfinished' \in Nat
         /\ joiner' \in [Syncers -> {"idle", "joining", "drained"}]
         /\ accepted' \subseteq Writes
<1>1. queue' \in Seq(Items) /\ Len(queue') = Len(queue) + 1
  BY WriteType, AppendProperties DEF QueueWrite, TypeOK, Items
<1>2. unfinished + 1 \in Nat
  BY DEF TypeOK
<1>3. QED
  BY <1>1, <1>2, CounterType DEF QueueWrite, TypeOK

(* FlushStart on a queue whose items are all counted.                      *)
LEMMA FlushStartType ==
  ASSUME TypeOK, NEW f \in Flushers, NEW q \in Seq(Items), NEW n \in Nat,
         NEW w \in Writes \union {NoWrite}, n >= Len(q), FlushStart(f, q, n, w)
  PROVE  /\ queue' \in Seq(Items)
         /\ unfinished' \in Nat /\ unfinished' = n - Len(Drained(q))
         /\ joiner' \in [Syncers -> {"idle", "joining", "drained"}]
         /\ fpc' \in [Flushers -> {"idle", "exec", "done"}]
         /\ fbatch' \in [Flushers -> Seq(Writes)]
         /\ fpos' \in [Flushers -> Nat \ {0}]
         /\ goal' \in [Flushers -> Writes \union {NoWrite}]
<1>1. /\ Drained(q) \in Seq(Writes) /\ Left(q) \in Seq(Items)
      /\ Len(Drained(q)) + Len(Left(q)) = Len(q)
  BY DrainSplit
<1>2. Len(Drained(q)) \in Nat /\ Len(Left(q)) \in Nat
  BY <1>1, LenProperties
<1>3. n - Len(Drained(q)) \in Nat
  BY <1>1, <1>2
<1>4. unfinished' = n - Len(Drained(q))
  BY DEF FlushStart, SetUnfinished
<1>5. joiner' \in [Syncers -> {"idle", "joining", "drained"}]
  BY <1>3, CounterType DEF FlushStart
<1>6. QED
  BY <1>1, <1>3, <1>4, <1>5 DEF FlushStart, TypeOK

LEMMA EndFlushType ==
  ASSUME TypeOK, NEW f \in Flushers, EndFlush(f)
  PROVE  /\ fpc' \in [Flushers -> {"idle", "exec", "done"}]
         /\ fbatch' \in [Flushers -> Seq(Writes)]
         /\ fpos' \in [Flushers -> Nat \ {0}]
         /\ goal' \in [Flushers -> Writes \union {NoWrite}]
  BY EmptySeq DEF EndFlush, TypeOK

LEMMA TypeStep ==
  ASSUME PipeInv, [Next]_vars
  PROVE  TypeOK'
<1> USE DEF Items
<1>0. TypeOK /\ FlushBatches
  BY DEF PipeInv
<1>1. ASSUME NEW s \in Sessions, Observe(s)
      PROVE  TypeOK'
  <2>1. built + 1 \in Versions /\ built' \in 0..MaxWrites
    BY <1>0, <1>1, BoundsAssumption DEF Observe, TypeOK, Versions
  <2>2. [sid |-> s, ver |-> built + 1] \in Writes
    BY <2>1, WriteType
  <2>3. QED
    BY <1>0, <1>1, <2>1, <2>2, QueueWriteType
       DEF Observe, TypeOK, workerVars, flushVars, dbVars, stopVars
<1>2. ASSUME NEW s \in Sessions, Requeue(s)
      PROVE  TypeOK'
  <2>1. [sid |-> s, ver |-> ram[s]] \in Writes
    BY <1>0, <1>2, WriteType DEF Requeue, TypeOK
  <2>2. QED
    BY <1>0, <1>2, <2>1, QueueWriteType
       DEF Requeue, TypeOK, workerVars, flushVars, dbVars, stopVars
<1>3. CASE WorkerTake
  <2>1. /\ Head(queue) \in Writes /\ Tail(queue) \in Seq(Items) /\ unfinished - 1 \in Nat
    BY <1>3, HeadOfQueue DEF WorkerTake
  <2>2. batch' \in Seq(Writes) /\ Len(batch') = Len(batch) + 1 /\ Len(batch) \in Nat
    BY <1>0, <1>3, <2>1, AppendProperties, LenProperties DEF WorkerTake, TypeOK
  <2>3. unfinished' \in Nat /\ joiner' \in [Syncers -> {"idle", "joining", "drained"}]
    BY <1>0, <1>3, <2>1, CounterType DEF WorkerTake
  <2>4. wpos' \in 1..(Len(batch') + 1)
    BY <1>0, <1>3, <2>2 DEF WorkerTake, TypeOK
  <2>5. wpc' \in {"get", "exec", "exited"}
    BY <1>3 DEF WorkerTake
  <2>6. QED
    BY <1>0, <1>3, <2>1, <2>2, <2>3, <2>4, <2>5
       DEF WorkerTake, TypeOK, flushVars, dbVars, callerVars, stopVars
<1>4. CASE WorkerTimeout
  BY <1>0, <1>4 DEF WorkerTimeout, TypeOK, flushVars, dbVars, callerVars, stopVars
<1>5. CASE WorkerTakeStop
  <2>1. Tail(queue) \in Seq(Items) /\ unfinished - 1 \in Nat
    BY <1>5, HeadOfQueue DEF WorkerTakeStop
  <2>2. /\ unfinished' \in Nat /\ joiner' \in [Syncers -> {"idle", "joining", "drained"}]
        /\ wpc' \in {"get", "exec", "exited"} /\ closing' \in BOOLEAN
    BY <1>0, <1>5, <2>1, CounterType DEF WorkerTakeStop, TypeOK
  <2>3. QED
    BY <1>0, <1>5, <2>1, <2>2
       DEF WorkerTakeStop, TypeOK, flushVars, dbVars, callerVars, stopVars
<1>6. CASE WorkerExec
  <2>1. batch[wpos] \in Writes /\ wpos + 1 \in 1..(Len(batch) + 1)
    BY <1>0, <1>6, ElementOfSeq, LenProperties DEF WorkerExec, TypeOK
  <2>2. DbTypeOK'
    BY <1>0, <1>6, <2>1, ExecUpsertType DEF WorkerExec
  <2>3. QED
    BY <1>0, <1>6, <2>1, <2>2
       DEF WorkerExec, TypeOK, DbTypeOK, flushVars, callerVars, stopVars
<1>7. CASE WorkerCommit
  <2>1. DbTypeOK'
    BY <1>0, <1>7, CommitType DEF WorkerCommit
  <2>2. closing => unfinished - 1 \in Nat
    BY <1>0, LenProperties DEF PipeInv, JoinCounterSound, TypeOK
  <2>3. /\ unfinished' \in Nat /\ joiner' \in [Syncers -> {"idle", "joining", "drained"}]
        /\ wpc' \in {"get", "exec", "exited"}
    BY <1>0, <1>7, <2>2, CounterType DEF WorkerCommit, TypeOK
  <2>4. batch' \in Seq(Writes) /\ wpos' \in 1..(Len(batch') + 1)
    BY <1>7, EmptySeq DEF WorkerCommit
  <2>5. QED
    BY <1>0, <1>7, <2>1, <2>3, <2>4
       DEF WorkerCommit, TypeOK, DbTypeOK, flushVars, callerVars, stopVars
<1>8. CASE WorkerCommitFails
  <2>1. DbTypeOK'
    BY <1>0, <1>8, CommitType DEF WorkerCommitFails
  <2>2. 1 \in 1..(Len(batch) + 1)
    BY <1>0, LenProperties DEF TypeOK
  <2>3. QED
    BY <1>0, <1>8, <2>1, <2>2
       DEF WorkerCommitFails, TypeOK, DbTypeOK, flushVars, callerVars, stopVars
<1>9. ASSUME NEW f \in Flushers, Flush(f)
      PROVE  TypeOK'
  <2>1. unfinished >= Len(queue) /\ queue \in Seq(Items) /\ unfinished \in Nat
    BY <1>0, LenProperties DEF PipeInv, TypeOK, JoinCounterSound
  <2>2. FlushStart(f, queue, unfinished, NoWrite) /\ (Evict \/ UNCHANGED ram)
    BY <1>9 DEF Flush
  <2>3. QED
    BY <1>0, <1>9, <2>1, <2>2, FlushStartType, EvictType
       DEF Flush, TypeOK, workerVars, dbVars, stopVars
<1>10. ASSUME NEW f \in Flushers, NEW s \in Sessions, UrgencyFlush(f, s)
       PROVE  TypeOK'
  <2> DEFINE w == [sid |-> s, ver |-> ram[s]]
  <2>1. w \in Writes
    BY <1>0, <1>10, WriteType DEF UrgencyFlush, TypeOK
  <2>2. FlushStart(f, Append(queue, w), unfinished + 1, w) /\ accepted' = accepted \union {w}
    BY <1>10 DEF UrgencyFlush
  <2> HIDE DEF w
  <2>3. Append(queue, w) \in Seq(Items) /\ Len(Append(queue, w)) = Len(queue) + 1
    BY <1>0, <2>1, AppendProperties DEF TypeOK
  <2>4. unfinished + 1 >= Len(Append(queue, w)) /\ unfinished + 1 \in Nat
    BY <1>0, <2>3, LenProperties DEF PipeInv, TypeOK, JoinCounterSound
  <2>5. /\ requeues' = requeues + 1
        /\ UNCHANGED <<workerVars, dbVars, stopVars, ram, joinOwed, built, restarts>>
    BY <1>10 DEF UrgencyFlush
  <2>6. accepted' \subseteq Writes /\ w \in Writes \union {NoWrite}
    BY <1>0, <2>1, <2>2 DEF TypeOK
  <2>7. /\ queue' \in Seq(Items) /\ unfinished' \in Nat
        /\ joiner' \in [Syncers -> {"idle", "joining", "drained"}]
        /\ fpc' \in [Flushers -> {"idle", "exec", "done"}]
        /\ fbatch' \in [Flushers -> Seq(Writes)]
        /\ fpos' \in [Flushers -> Nat \ {0}]
        /\ goal' \in [Flushers -> Writes \union {NoWrite}]
    BY <1>0, <2>2, <2>3, <2>4, <2>6, FlushStartType
  <2>8. QED
    BY <1>0, <2>5, <2>6, <2>7 DEF TypeOK, workerVars, dbVars, stopVars
<1>11. ASSUME NEW f \in Flushers, FlushExec(f)
       PROVE  TypeOK'
  <2>1. fbatch[f][fpos[f]] \in Writes /\ fpos[f] + 1 \in Nat \ {0}
    BY <1>0, <1>11, ElementOfSeq, LenProperties DEF FlushExec, TypeOK
  <2>2. DbTypeOK'
    BY <1>0, <1>11, <2>1, ExecUpsertType DEF FlushExec
  <2>3. QED
    BY <1>0, <1>11, <2>1, <2>2
       DEF FlushExec, TypeOK, DbTypeOK, workerVars, callerVars, stopVars
<1>12. ASSUME NEW f \in Flushers, FlushCommit(f)
       PROVE  TypeOK'
  <2>1. DbTypeOK'
    BY <1>0, <1>12, CommitType DEF FlushCommit
  <2>2. QED
    BY <1>0, <1>12, <2>1
       DEF FlushCommit, TypeOK, DbTypeOK, workerVars, callerVars, stopVars
<1>13. ASSUME NEW f \in Flushers, FlushCommitFails(f)
       PROVE  TypeOK'
  <2>1. DbTypeOK'
    BY <1>0, <1>13, CommitType DEF FlushCommitFails
  <2>2. QED
    BY <1>0, <1>13, <2>1, EndFlushType
       DEF FlushCommitFails, TypeOK, DbTypeOK, workerVars, callerVars, stopVars
<1>14. ASSUME NEW f \in Flushers, FlushDone(f)
       PROVE  TypeOK'
  BY <1>0, <1>14, EndFlushType, EvictType
     DEF FlushDone, TypeOK, workerVars, dbVars, stopVars
<1>15. CASE StopCall
  <2>1. queue' \in Seq(Items)
    BY <1>0, <1>15, AppendProperties DEF StopCall, TypeOK
  <2>2. unfinished + 1 \in Nat
    BY <1>0 DEF TypeOK
  <2>3. QED
    BY <1>0, <1>15, <2>1, <2>2, CounterType
       DEF StopCall, TypeOK, workerVars, flushVars, dbVars, callerVars
<1>16. CASE StopReturn
  BY <1>0, <1>16
     DEF StopReturn, TypeOK, workerVars, flushVars, dbVars, callerVars
<1>17. ASSUME NEW c \in Syncers, SyncCall(c) \/ SyncReturn(c)
       PROVE  TypeOK'
  BY <1>0, <1>17
     DEF SyncCall, SyncReturn, TypeOK, workerVars, flushVars, dbVars, callerVars, stopVars
<1>18. CASE Restart
  <2>1. batch' \in Seq(Writes) /\ queue' \in Seq(Items) /\ wpos' \in 1..(Len(batch') + 1)
    BY <1>18, EmptySeq DEF Restart
  <2>2. fbatch' \in [Flushers -> Seq(Writes)]
    BY <1>18, EmptySeq DEF Restart
  <2>3. /\ fpc' \in [Flushers -> {"idle", "exec", "done"}]
        /\ fpos' \in [Flushers -> Nat \ {0}]
        /\ goal' \in [Flushers -> Writes \union {NoWrite}]
        /\ joiner' \in [Syncers -> {"idle", "joining", "drained"}]
        /\ joinOwed' \in [Syncers -> SUBSET Writes]
    BY <1>18 DEF Restart
  <2>4. /\ ram' \in [Sessions -> {0} \union Versions]
        /\ rows' \in [Sessions -> {0} \union Versions]
        /\ disk' \in [Sessions -> {0} \union Versions]
        /\ dirty' \subseteq Writes /\ accepted' \subseteq Writes
        /\ committed' \subseteq Writes /\ lost' \subseteq Writes /\ stopOwed' \subseteq Writes
        /\ undone' \subseteq Writes
    BY <1>0, <1>18 DEF Restart, TypeOK
  <2>5. /\ unfinished' \in Nat /\ wpc' \in {"get", "exec", "exited"} /\ closing' \in BOOLEAN
        /\ stopper' \in {"running", "waiting", "stopped"}
        /\ built' = built /\ requeues' = requeues /\ faults' = faults /\ restarts' = restarts + 1
    BY <1>18 DEF Restart
  <2>6. QED
    BY <1>0, <2>1, <2>2, <2>3, <2>4, <2>5 DEF TypeOK
<1>19. CASE WorkerRaises
  <2>1. DbTypeOK'
    BY <1>0, <1>19, RaiseType DEF WorkerRaises
  <2>2. 1 \in 1..(Len(batch) + 1)
    BY <1>0, LenProperties DEF TypeOK
  <2>3. QED
    BY <1>0, <1>19, <2>1, <2>2
       DEF WorkerRaises, TypeOK, DbTypeOK, flushVars, callerVars, stopVars
<1>20. ASSUME NEW f \in Flushers, FlushRaises(f)
       PROVE  TypeOK'
  <2>1. From(fbatch[f], fpos[f]) \subseteq Writes
    BY <1>0, ElementOfSeq, LenProperties DEF TypeOK, From
  <2>2. DbTypeOK'
    BY <1>0, <1>20, <2>1, RaiseType DEF FlushRaises
  <2>3. QED
    BY <1>0, <1>20, <2>2, EndFlushType
       DEF FlushRaises, TypeOK, DbTypeOK, workerVars, callerVars, stopVars
<1>21. CASE OtherCommit
  <2>1. DbTypeOK'
    BY <1>0, <1>21, CommitType DEF OtherCommit
  <2>2. QED
    BY <1>0, <1>21, <2>1
       DEF OtherCommit, TypeOK, DbTypeOK, workerVars, flushVars, callerVars, stopVars
<1>22. CASE OtherRollback
  BY <1>0, <1>22
     DEF OtherRollback, TypeOK, workerVars, flushVars, callerVars, stopVars
<1>23. CASE UNCHANGED vars
  BY <1>0, <1>23 DEF vars, TypeOK
<1>24. QED
  BY <1>1, <1>2, <1>3, <1>4, <1>5, <1>6, <1>7, <1>8, <1>9, <1>10, <1>11, <1>12,
     <1>13, <1>14, <1>15, <1>16, <1>17, <1>18, <1>19, <1>20, <1>21, <1>22, <1>23
     DEF Next, Worker, FlushStep

-----------------------------------------------------------------------------
(* Only flush() touches the flush() batches: it fills one when its call    *)
(* begins, and empties it when the call ends.                              *)
LEMMA EndFlushBatches ==
  ASSUME TypeOK, FlushBatches, NEW f \in Flushers, EndFlush(f)
  PROVE  FlushBatches'
<1> SUFFICES ASSUME NEW g \in Flushers
             PROVE  /\ fpos'[g] \in 1..(Len(fbatch'[g]) + 1)
                    /\ fpc'[g] = "idle" => fbatch'[g] = <<>>
                    /\ fpc'[g] = "done" => fpos'[g] = Len(fbatch'[g]) + 1
  BY DEF FlushBatches
<1>1. CASE g = f
  <2>1. fpos'[g] = 1 /\ fbatch'[g] = <<>> /\ fpc'[g] = "idle"
    BY <1>1 DEF EndFlush, TypeOK
  <2>2. QED
    BY <2>1, EmptySeq
<1>2. CASE g # f
  BY <1>2 DEF EndFlush, TypeOK, FlushBatches
<1>3. QED
  BY <1>1, <1>2

LEMMA FlushStartBatches ==
  ASSUME TypeOK, FlushBatches, NEW f \in Flushers, NEW q \in Seq(Items), NEW n, NEW w,
         FlushStart(f, q, n, w)
  PROVE  FlushBatches'
<1>1. Drained(q) \in Seq(Writes) /\ Len(Drained(q)) \in Nat
  BY DrainSplit, LenProperties
<1> SUFFICES ASSUME NEW g \in Flushers
             PROVE  /\ fpos'[g] \in 1..(Len(fbatch'[g]) + 1)
                    /\ fpc'[g] = "idle" => fbatch'[g] = <<>>
                    /\ fpc'[g] = "done" => fpos'[g] = Len(fbatch'[g]) + 1
  BY DEF FlushBatches
<1>2. CASE g = f
  <2>1. /\ fpos'[g] = 1 /\ fbatch'[g] = Drained(q)
        /\ fpc'[g] \in {"idle", "done"} => Drained(q) = <<>>
    BY <1>2 DEF FlushStart, TypeOK
  <2>2. Len(<<>>) = 0
    BY EmptySeq
  <2>3. QED
    BY <1>1, <2>1, <2>2
<1>3. CASE g # f
  BY <1>3 DEF FlushStart, TypeOK, FlushBatches
<1>4. QED
  BY <1>2, <1>3

LEMMA BatchesStep ==
  ASSUME PipeInv, [Next]_vars
  PROVE  FlushBatches'
<1>0. TypeOK /\ FlushBatches
  BY DEF PipeInv
<1>1. CASE UNCHANGED <<fpc, fbatch, fpos>>
  BY <1>0, <1>1 DEF FlushBatches
<1>2. ASSUME NEW f \in Flushers, Flush(f)
      PROVE  FlushBatches'
  <2>1. FlushStart(f, queue, unfinished, NoWrite) /\ queue \in Seq(Items)
    BY <1>0, <1>2 DEF Flush, TypeOK, Items
  <2>2. QED
    BY <1>0, <2>1, FlushStartBatches
<1>3. ASSUME NEW f \in Flushers, NEW s \in Sessions, UrgencyFlush(f, s)
      PROVE  FlushBatches'
  <2> DEFINE w == [sid |-> s, ver |-> ram[s]]
  <2>1. FlushStart(f, Append(queue, w), unfinished + 1, w)
    BY <1>3 DEF UrgencyFlush
  <2>2. w \in Writes
    BY <1>0, <1>3, WriteType DEF UrgencyFlush, TypeOK
  <2> HIDE DEF w
  <2>3. Append(queue, w) \in Seq(Items)
    BY <1>0, <2>2, AppendProperties DEF TypeOK, Items
  <2>4. QED
    BY <1>0, <2>1, <2>3, FlushStartBatches
<1>4. ASSUME NEW f \in Flushers, FlushExec(f)
      PROVE  FlushBatches'
  <2> SUFFICES ASSUME NEW g \in Flushers
               PROVE  /\ fpos'[g] \in 1..(Len(fbatch'[g]) + 1)
                      /\ fpc'[g] = "idle" => fbatch'[g] = <<>>
                      /\ fpc'[g] = "done" => fpos'[g] = Len(fbatch'[g]) + 1
    BY DEF FlushBatches
  <2>1. Len(fbatch[f]) \in Nat /\ fpos[f] \in Nat \ {0}
    BY <1>0, LenProperties DEF TypeOK
  <2>2. CASE g = f
    BY <1>0, <1>4, <2>1, <2>2 DEF FlushExec, TypeOK
  <2>3. CASE g # f
    BY <1>0, <1>4, <2>3 DEF FlushExec, TypeOK, FlushBatches
  <2>4. QED
    BY <2>2, <2>3
<1>5. ASSUME NEW f \in Flushers, FlushCommit(f)
      PROVE  FlushBatches'
  BY <1>0, <1>5 DEF FlushCommit, TypeOK, FlushBatches
<1>6. ASSUME NEW f \in Flushers, FlushCommitFails(f) \/ FlushRaises(f) \/ FlushDone(f)
      PROVE  FlushBatches'
  BY <1>0, <1>6, EndFlushBatches DEF FlushCommitFails, FlushRaises, FlushDone
<1>7. CASE Restart
  <2>1. \A f \in Flushers : fpc'[f] = "idle" /\ fbatch'[f] = <<>> /\ fpos'[f] = 1
    BY <1>7 DEF Restart
  <2>2. QED
    BY <2>1, EmptySeq DEF FlushBatches
<1>8. CASE \/ \E s \in Sessions : Observe(s) \/ Requeue(s)
           \/ Worker \/ StopCall \/ StopReturn \/ OtherCommit \/ OtherRollback
           \/ \E c \in Syncers : SyncCall(c) \/ SyncReturn(c)
  BY <1>1, <1>8 DEF Observe, Requeue, Worker, WorkerTake, WorkerTimeout, WorkerTakeStop,
     WorkerExec, WorkerCommit, WorkerCommitFails, WorkerRaises, StopCall, StopReturn,
     SyncCall, SyncReturn, OtherCommit, OtherRollback, flushVars
<1>9. CASE UNCHANGED vars
  BY <1>1, <1>9 DEF vars
<1>10. QED
  BY <1>2, <1>3, <1>4, <1>5, <1>6, <1>7, <1>8, <1>9 DEF Next, FlushStep

-----------------------------------------------------------------------------
(* The join counter covers the queue and the sentinel's flush.             *)
LEMMA FlushStartCount ==
  ASSUME NEW f \in Flushers, NEW q \in Seq(Items), NEW n \in Nat, NEW w,
         n >= Len(q) + (IF closing THEN 1 ELSE 0),
         FlushStart(f, q, n, w), UNCHANGED closing
  PROVE  JoinCounterSound'
<1>1. /\ queue' = Left(q) /\ unfinished' = n - Len(Drained(q)) /\ closing' = closing
  BY DEF FlushStart, SetUnfinished
<1>2. Len(Drained(q)) \in Nat /\ Len(Left(q)) \in Nat /\ Len(Drained(q)) + Len(Left(q)) = Len(q)
  BY DrainSplit, LenProperties
<1>3. QED
  BY <1>1, <1>2 DEF JoinCounterSound

LEMMA CountStep ==
  ASSUME PipeInv, [Next]_vars
  PROVE  JoinCounterSound' /\ (closing => wpc = "exec")'
<1>0. /\ TypeOK /\ JoinCounterSound /\ (closing => wpc = "exec")
      /\ Len(queue) \in Nat /\ unfinished \in Nat
  BY LenProperties DEF PipeInv, TypeOK
<1>1. CASE UNCHANGED <<queue, unfinished, wpc, closing>>
  BY <1>0, <1>1 DEF JoinCounterSound
<1>2. ASSUME UNCHANGED <<wpc, closing>>, NEW w \in Items, queue' = Append(queue, w),
             unfinished' = unfinished + 1
      PROVE  JoinCounterSound' /\ (closing => wpc = "exec")'
  <2>1. Len(queue') = Len(queue) + 1
    BY <1>0, <1>2, AppendProperties DEF TypeOK, Items
  <2>2. QED
    BY <1>0, <1>2, <2>1 DEF JoinCounterSound
<1>3. ASSUME NEW s \in Sessions, Observe(s) \/ Requeue(s)
      PROVE  JoinCounterSound' /\ (closing => wpc = "exec")'
  <2>1. PICK w \in Writes : QueueWrite(w)
    <3>1. CASE Observe(s)
      <4>1. built + 1 \in Versions
        BY <1>0, <3>1, BoundsAssumption DEF Observe, TypeOK, Versions
      <4>2. [sid |-> s, ver |-> built + 1] \in Writes
        BY <4>1, WriteType
      <4>3. QED
        BY <3>1, <4>2 DEF Observe
    <3>2. CASE Requeue(s)
      <4>1. [sid |-> s, ver |-> ram[s]] \in Writes
        BY <1>0, <3>2, WriteType DEF Requeue, TypeOK
      <4>2. QED
        BY <3>2, <4>1 DEF Requeue
    <3>3. QED
      BY <1>3, <3>1, <3>2
  <2>2. UNCHANGED <<wpc, closing>>
    BY <1>3 DEF Observe, Requeue, workerVars
  <2>3. QED
    BY <1>2, <2>1, <2>2, WriteType DEF QueueWrite, SetUnfinished
<1>4. CASE WorkerTake
  BY <1>0, <1>4, HeadOfQueue DEF WorkerTake, SetUnfinished, JoinCounterSound
<1>5. CASE WorkerTakeStop
  BY <1>0, <1>5, HeadOfQueue DEF WorkerTakeStop, SetUnfinished, JoinCounterSound
<1>6. CASE \/ WorkerTimeout \/ WorkerExec \/ WorkerCommit \/ WorkerCommitFails
           \/ WorkerRaises
  BY <1>0, <1>6 DEF WorkerTimeout, WorkerExec, WorkerCommit, WorkerCommitFails,
     WorkerRaises, SetUnfinished, JoinCounterSound
<1>7. ASSUME NEW f \in Flushers, Flush(f)
      PROVE  JoinCounterSound' /\ (closing => wpc = "exec")'
  <2>1. FlushStart(f, queue, unfinished, NoWrite) /\ UNCHANGED <<wpc, closing>>
    BY <1>7 DEF Flush, workerVars
  <2>2. queue \in Seq(Items) /\ unfinished >= Len(queue) + (IF closing THEN 1 ELSE 0)
    BY <1>0 DEF TypeOK, Items, JoinCounterSound
  <2>3. QED
    BY <1>0, <2>1, <2>2, FlushStartCount
<1>8. ASSUME NEW f \in Flushers, NEW s \in Sessions, UrgencyFlush(f, s)
      PROVE  JoinCounterSound' /\ (closing => wpc = "exec")'
  <2> DEFINE w == [sid |-> s, ver |-> ram[s]]
  <2>1. /\ FlushStart(f, Append(queue, w), unfinished + 1, w) /\ UNCHANGED <<wpc, closing>>
    BY <1>8 DEF UrgencyFlush, workerVars
  <2>2. w \in Writes
    BY <1>0, <1>8, WriteType DEF UrgencyFlush, TypeOK
  <2> HIDE DEF w
  <2>3. Append(queue, w) \in Seq(Items) /\ Len(Append(queue, w)) = Len(queue) + 1
    BY <1>0, <2>2, AppendProperties DEF TypeOK, Items
  <2>4. unfinished + 1 >= Len(Append(queue, w)) + (IF closing THEN 1 ELSE 0)
    BY <1>0, <2>3 DEF JoinCounterSound
  <2>5. JoinCounterSound'
    <3>1. unfinished + 1 \in Nat /\ UNCHANGED closing
      BY <1>0, <2>1
    <3>2. QED
      BY <2>1, <2>3, <2>4, <3>1, FlushStartCount
  <2>6. QED
    BY <1>0, <2>1, <2>5
<1>9. CASE StopCall
  <2>1. /\ queue' = Append(queue, Stop) /\ unfinished' = unfinished + 1
        /\ UNCHANGED <<wpc, closing>>
    BY <1>9 DEF StopCall, SetUnfinished, workerVars
  <2>2. QED
    BY <1>2, <2>1, WriteType
<1>10. CASE Restart
  <2>1. queue' = <<>> /\ unfinished' = 0 /\ closing' = FALSE
    BY <1>10 DEF Restart
  <2>2. QED
    BY <2>1, EmptySeq DEF JoinCounterSound
<1>11. CASE \/ \E f \in Flushers : FlushStep(f)
            \/ StopReturn \/ OtherCommit \/ OtherRollback
            \/ \E c \in Syncers : SyncCall(c) \/ SyncReturn(c)
            \/ UNCHANGED vars
  BY <1>1, <1>11 DEF FlushStep, FlushExec, FlushCommit, FlushCommitFails, FlushRaises,
     FlushDone, StopReturn, OtherCommit, OtherRollback, SyncCall, SyncReturn,
     workerVars, vars
<1>12. QED
  BY <1>3, <1>4, <1>5, <1>6, <1>7, <1>8, <1>9, <1>10, <1>11 DEF Next, Worker

-----------------------------------------------------------------------------
(* Where a write is: settled by the connection, queued, or ahead of the    *)
(* position of the worker or of a flush() call.                            *)
Settled == committed \union dirty \union lost \union undone
InFlush(w) == \E f \in Flushers : w \in From(fbatch[f], fpos[f])
Held(w) == w \in Settled \/ w \in From(queue, 1) \/ w \in From(batch, wpos) \/ InFlush(w)

LEMMA NoSilentLossHeld ==
  ASSUME TypeOK
  PROVE  NoSilentLoss <=> \A w \in accepted : Held(w)
<1>1. \A w \in accepted : w # Stop
  BY SentinelAssumption DEF TypeOK
<1>2. QED
  BY <1>1 DEF NoSilentLoss, Carried, Held, InFlush, Settled

LEMMA NoSilentLossHeldNext ==
  ASSUME TypeOK', \A w \in accepted' : Held(w)'
  PROVE  NoSilentLoss'
<1>1. \A w \in accepted' : w # Stop
  BY SentinelAssumption DEF TypeOK
<1>2. QED
  BY <1>1 DEF NoSilentLoss, Carried, Held, InFlush, Settled

(* A statement settles its write, a commit keeps what was executed, and    *)
(* what a failed commit rolls back is given up or kept by the caller.      *)
LEMMA ExecKeeps ==
  ASSUME NEW w, ExecUpsert(w)
  PROVE  Settled \union {w} \subseteq Settled'
  BY DEF ExecUpsert, Raise, Settled

LEMMA RaiseKeeps ==
  ASSUME NEW W, Raise(W)
  PROVE  Settled \union W \subseteq Settled'
  BY DEF Raise, Settled

LEMMA CommitKeeps ==
  ASSUME Commit
  PROVE  Settled \subseteq Settled'
  BY DEF Commit, Settled

LEMMA CommitFailsKeeps ==
  ASSUME NEW r, CommitFails(r)
  PROVE  Settled \subseteq Settled' \union r
  BY DEF CommitFails, Settled

LEMMA DbKeeps ==
  ASSUME UNCHANGED dbVars
  PROVE  Settled' = Settled
  BY DEF dbVars, Settled

LEMMA FlushStartKeeps ==
  ASSUME TypeOK, FlushBatches, NEW f \in Flushers, fpc[f] = "idle",
         NEW q \in Seq(Items), NEW n, NEW w, FlushStart(f, q, n, w)
  PROVE  \A x : x \in From(q, 1) \/ InFlush(x) => x \in From(queue', 1) \/ InFlush(x)'
<1>1. /\ queue' = Left(q)
      /\ fbatch' = [fbatch EXCEPT ![f] = Drained(q)]
      /\ fpos' = [fpos EXCEPT ![f] = 1]
  BY DEF FlushStart
<1>2. From(q, 1) \subseteq From(Drained(q), 1) \union From(queue', 1)
  BY <1>1, DrainSplit
<1>3. fbatch'[f] = Drained(q) /\ fpos'[f] = 1
  BY <1>1 DEF TypeOK
<1>4. \A g \in Flushers : g # f => fbatch'[g] = fbatch[g] /\ fpos'[g] = fpos[g]
  BY <1>1 DEF TypeOK
<1>5. From(fbatch[f], fpos[f]) = {}
  BY FromEmpty DEF FlushBatches, TypeOK
<1>6. QED
  BY <1>2, <1>3, <1>4, <1>5, Zenon DEF InFlush

LEMMA EndFlushDrops ==
  ASSUME TypeOK, NEW f \in Flushers, EndFlush(f)
  PROVE  \A x : InFlush(x) => InFlush(x)' \/ x \in From(fbatch[f], fpos[f])
<1>1. \A g \in Flushers : g # f => fbatch'[g] = fbatch[g] /\ fpos'[g] = fpos[g]
  BY DEF EndFlush, TypeOK
<1>2. QED
  BY <1>1, Zenon DEF InFlush

LEMMA EndFlushKeeps ==
  ASSUME TypeOK, NEW f \in Flushers, fpos[f] = Len(fbatch[f]) + 1, EndFlush(f)
  PROVE  \A x : InFlush(x) => InFlush(x)'
<1>1. From(fbatch[f], fpos[f]) = {}
  BY FromEnd DEF TypeOK
<1>2. QED
  BY <1>1, EndFlushDrops

LEMMA QueueWriteKeeps ==
  ASSUME TypeOK, NEW w \in Writes, QueueWrite(w)
  PROVE  From(queue', 1) = From(queue, 1) \union {w} /\ accepted' = accepted \union {w}
<1>1. queue \in Seq(Items) /\ w \in Items /\ 1 \in 1..(Len(queue) + 1)
  BY WriteType, LenProperties DEF TypeOK, Items
<1>2. QED
  BY <1>1, FromAppend DEF QueueWrite

LEMMA LossStep ==
  ASSUME PipeInv, [Next]_vars
  PROVE  \A w \in accepted' : Held(w)'
<1>0. TypeOK /\ FlushBatches /\ (\A w \in accepted : Held(w)) /\ TypeOK'
  BY NoSilentLossHeld, TypeStep DEF PipeInv
<1>1. ASSUME NEW w \in Writes, QueueWrite(w), UNCHANGED <<workerVars, flushVars, dbVars>>
      PROVE  \A x \in accepted' : Held(x)'
  BY <1>0, <1>1, QueueWriteKeeps, DbKeeps
     DEF Held, InFlush, workerVars, flushVars
<1>2. ASSUME NEW s \in Sessions, Observe(s)
      PROVE  \A x \in accepted' : Held(x)'
  <2>1. built + 1 \in Versions
    BY <1>0, <1>2, BoundsAssumption DEF Observe, TypeOK, Versions
  <2>2. [sid |-> s, ver |-> built + 1] \in Writes
    BY <2>1, WriteType
  <2>3. QED
    BY <1>1, <1>2, <2>2 DEF Observe
<1>3. ASSUME NEW s \in Sessions, Requeue(s)
      PROVE  \A x \in accepted' : Held(x)'
  <2>1. [sid |-> s, ver |-> ram[s]] \in Writes
    BY <1>0, <1>3, WriteType DEF Requeue, TypeOK
  <2>2. QED
    BY <1>1, <1>3, <2>1 DEF Requeue
<1>4. CASE WorkerTake
  <2>1. /\ queue \in Seq(Items) /\ queue # <<>> /\ queue' = Tail(queue)
        /\ Head(queue) \in Writes /\ batch \in Seq(Writes) /\ wpos \in 1..(Len(batch) + 1)
        /\ batch' = Append(batch, Head(queue)) /\ wpos' = wpos
    BY <1>0, <1>4, HeadOfQueue DEF WorkerTake, TypeOK, Items
  <2>2. From(queue, 1) \subseteq {Head(queue)} \union From(queue', 1)
    BY <2>1, FromHeadTail
  <2>3. From(batch', wpos') = From(batch, wpos) \union {Head(queue)}
    BY <2>1, FromAppend
  <2>4. accepted' = accepted /\ Settled' = Settled /\ UNCHANGED <<fbatch, fpos>>
    BY <1>4, DbKeeps DEF WorkerTake, callerVars, flushVars
  <2>5. QED
    BY <1>0, <2>2, <2>3, <2>4 DEF Held, InFlush
<1>5. CASE WorkerTakeStop
  <2>1. /\ queue \in Seq(Items) /\ queue # <<>> /\ queue' = Tail(queue)
        /\ Head(queue) = Stop
    BY <1>0, <1>5 DEF WorkerTakeStop, TypeOK, Items
  <2>2. From(queue, 1) \subseteq {Stop} \union From(queue', 1)
    BY <2>1, FromHeadTail
  <2>3. accepted' = accepted /\ Settled' = Settled /\ UNCHANGED <<fbatch, fpos, batch, wpos>>
    BY <1>5, DbKeeps DEF WorkerTakeStop, callerVars, flushVars
  <2>4. Stop \notin accepted
    BY <1>0, SentinelAssumption DEF TypeOK
  <2>5. QED
    BY <1>0, <2>2, <2>3, <2>4 DEF Held, InFlush
<1>6. CASE WorkerExec
  <2>1. From(batch, wpos) = {batch[wpos]} \union From(batch, wpos + 1)
    <3>1. batch \in Seq(Writes) /\ wpos \in 1..Len(batch)
      BY <1>0, <1>6, LenProperties DEF WorkerExec, TypeOK
    <3>2. QED
      BY <3>1, FromStep
  <2>2. Settled \union {batch[wpos]} \subseteq Settled'
    BY <1>6, ExecKeeps DEF WorkerExec
  <2>3. UNCHANGED <<accepted, queue, batch, fbatch, fpos>> /\ wpos' = wpos + 1
    BY <1>6 DEF WorkerExec, callerVars, flushVars
  <2>4. QED
    BY <1>0, <2>1, <2>2, <2>3 DEF Held, InFlush
<1>7. CASE WorkerCommit
  <2>1. From(batch, wpos) = {}
    BY <1>0, <1>7, FromEnd DEF WorkerCommit, TypeOK
  <2>2. Settled \subseteq Settled' /\ UNCHANGED <<accepted, queue, fbatch, fpos>>
    BY <1>7, CommitKeeps DEF WorkerCommit, callerVars, flushVars
  <2>3. QED
    BY <1>0, <2>1, <2>2 DEF Held, InFlush
<1>8. CASE WorkerCommitFails
  <2>1. From(batch, wpos) \subseteq From(batch, 1)
    BY <1>0, LenProperties, FromStart DEF TypeOK
  <2>2. Settled \subseteq Settled' \union From(batch, 1)
    BY <1>8, CommitFailsKeeps DEF WorkerCommitFails
  <2>3. UNCHANGED <<accepted, queue, batch, fbatch, fpos>> /\ wpos' = 1
    BY <1>8 DEF WorkerCommitFails, callerVars, flushVars
  <2>4. QED
    BY <1>0, <2>1, <2>2, <2>3 DEF Held, InFlush
<1>9. ASSUME NEW f \in Flushers, Flush(f)
      PROVE  \A x \in accepted' : Held(x)'
  <2>1. /\ fpc[f] = "idle" /\ FlushStart(f, queue, unfinished, NoWrite)
        /\ queue \in Seq(Items)
        /\ UNCHANGED <<accepted, batch, wpos>> /\ Settled' = Settled
    BY <1>0, <1>9, DbKeeps DEF Flush, workerVars, TypeOK, Items
  <2>2. \A x : x \in From(queue, 1) \/ InFlush(x) => x \in From(queue', 1) \/ InFlush(x)'
    BY <1>0, <2>1, FlushStartKeeps
  <2>3. QED
    BY <1>0, <2>1, <2>2 DEF Held
<1>10. ASSUME NEW f \in Flushers, NEW s \in Sessions, UrgencyFlush(f, s)
       PROVE  \A x \in accepted' : Held(x)'
  <2> DEFINE w == [sid |-> s, ver |-> ram[s]]
  <2>1. /\ fpc[f] = "idle" /\ FlushStart(f, Append(queue, w), unfinished + 1, w)
        /\ accepted' = accepted \union {w}
        /\ UNCHANGED <<batch, wpos>> /\ Settled' = Settled
    BY <1>10, DbKeeps DEF UrgencyFlush, workerVars
  <2>2. w \in Items
    BY <1>0, <1>10, WriteType DEF UrgencyFlush, TypeOK
  <2> HIDE DEF w
  <2>3. queue \in Seq(Items) /\ 1 \in 1..(Len(queue) + 1)
    BY <1>0, LenProperties DEF TypeOK, Items
  <2>4. /\ Append(queue, w) \in Seq(Items)
        /\ From(Append(queue, w), 1) = From(queue, 1) \union {w}
    BY <2>2, <2>3, FromAppend, AppendProperties
  <2>5. \A x : x \in From(Append(queue, w), 1) \/ InFlush(x)
                 => x \in From(queue', 1) \/ InFlush(x)'
    BY <1>0, <2>1, <2>4, FlushStartKeeps
  <2>6. QED
    BY <1>0, <2>1, <2>4, <2>5 DEF Held
<1>11. ASSUME NEW f \in Flushers, FlushExec(f)
       PROVE  \A x \in accepted' : Held(x)'
  <2>1. From(fbatch[f], fpos[f]) = {fbatch[f][fpos[f]]} \union From(fbatch[f], fpos[f] + 1)
    <3>1. fbatch[f] \in Seq(Writes) /\ fpos[f] \in 1..Len(fbatch[f])
      BY <1>0, <1>11, LenProperties DEF FlushExec, TypeOK
    <3>2. QED
      BY <3>1, FromStep
  <2>2. Settled \union {fbatch[f][fpos[f]]} \subseteq Settled'
    BY <1>11, ExecKeeps DEF FlushExec
  <2>3. /\ UNCHANGED <<accepted, queue, batch, wpos, fbatch>>
        /\ fpos'[f] = fpos[f] + 1
        /\ \A g \in Flushers : g # f => fpos'[g] = fpos[g]
    BY <1>0, <1>11 DEF FlushExec, callerVars, workerVars, TypeOK
  <2>4. \A x : InFlush(x) => InFlush(x)' \/ x \in Settled'
    BY <2>1, <2>2, <2>3, Zenon DEF InFlush
  <2>5. QED
    BY <1>0, <2>2, <2>3, <2>4 DEF Held
<1>12. ASSUME NEW f \in Flushers, FlushCommit(f)
       PROVE  \A x \in accepted' : Held(x)'
  <2>1. Settled \subseteq Settled' /\ UNCHANGED <<accepted, queue, batch, wpos, fbatch, fpos>>
    BY <1>12, CommitKeeps DEF FlushCommit, callerVars, workerVars
  <2>2. QED
    BY <1>0, <2>1 DEF Held, InFlush
<1>13. ASSUME NEW f \in Flushers, FlushCommitFails(f)
       PROVE  \A x \in accepted' : Held(x)'
  <2>1. Settled \subseteq Settled' \union {} /\ UNCHANGED <<accepted, queue, batch, wpos>>
    BY <1>13, CommitFailsKeeps DEF FlushCommitFails, callerVars, workerVars
  <2>2. \A x : InFlush(x) => InFlush(x)'
    BY <1>0, <1>13, EndFlushKeeps DEF FlushCommitFails
  <2>3. QED
    BY <1>0, <2>1, <2>2 DEF Held
<1>14. ASSUME NEW f \in Flushers, FlushDone(f)
       PROVE  \A x \in accepted' : Held(x)'
  <2>1. Settled' = Settled /\ UNCHANGED <<accepted, queue, batch, wpos>>
    BY <1>14, DbKeeps DEF FlushDone, workerVars
  <2>2. fpos[f] = Len(fbatch[f]) + 1
    BY <1>0, <1>14 DEF FlushDone, FlushBatches
  <2>3. \A x : InFlush(x) => InFlush(x)'
    BY <1>0, <1>14, <2>2, EndFlushKeeps DEF FlushDone
  <2>4. QED
    BY <1>0, <2>1, <2>3 DEF Held
<1>15. CASE StopCall
  <2>1. Settled' = Settled /\ UNCHANGED <<accepted, batch, wpos, fbatch, fpos>>
    BY <1>15, DbKeeps DEF StopCall, workerVars, flushVars, callerVars
  <2>2. From(queue', 1) = From(queue, 1) \union {Stop}
    <3>1. queue \in Seq(Items) /\ Stop \in Items /\ 1 \in 1..(Len(queue) + 1)
      BY <1>0, WriteType, LenProperties DEF TypeOK, Items
    <3>2. QED
      BY <1>15, <3>1, FromAppend DEF StopCall
  <2>3. QED
    BY <1>0, <2>1, <2>2 DEF Held, InFlush
<1>16. CASE Restart
  BY <1>16 DEF Restart, Held, Settled
<1>17. CASE \/ WorkerTimeout \/ StopReturn
            \/ \E c \in Syncers : SyncCall(c) \/ SyncReturn(c)
            \/ UNCHANGED vars
  <2>1. UNCHANGED <<accepted, queue, batch, wpos, fbatch, fpos, dbVars>>
    BY <1>17 DEF WorkerTimeout, StopReturn, SyncCall, SyncReturn, vars, workerVars,
       flushVars, callerVars, dbVars
  <2>2. QED
    BY <1>0, <2>1, DbKeeps DEF Held, InFlush
<1>18. CASE WorkerRaises
  <2>1. From(batch, wpos) \subseteq From(batch, 1)
    BY <1>0, LenProperties, FromStart DEF TypeOK
  <2>2. Settled \subseteq Settled' /\ wpos' = 1
        /\ UNCHANGED <<accepted, queue, batch, fbatch, fpos>>
    BY <1>18, RaiseKeeps DEF WorkerRaises, callerVars, flushVars
  <2>3. QED
    BY <1>0, <2>1, <2>2 DEF Held, InFlush
<1>19. ASSUME NEW f \in Flushers, FlushRaises(f)
       PROVE  \A x \in accepted' : Held(x)'
  <2>1. /\ Settled \union From(fbatch[f], fpos[f]) \subseteq Settled'
        /\ UNCHANGED <<accepted, queue, batch, wpos>>
    BY <1>19, RaiseKeeps DEF FlushRaises, callerVars, workerVars
  <2>2. \A x : InFlush(x) => InFlush(x)' \/ x \in From(fbatch[f], fpos[f])
    BY <1>0, <1>19, EndFlushDrops DEF FlushRaises
  <2>3. QED
    BY <1>0, <2>1, <2>2 DEF Held
<1>20. CASE OtherCommit \/ OtherRollback
  <2>1. Settled \subseteq Settled'
    BY <1>20, CommitKeeps DEF OtherCommit, OtherRollback, Settled
  <2>2. UNCHANGED <<accepted, queue, batch, wpos, fbatch, fpos>>
    BY <1>20 DEF OtherCommit, OtherRollback, callerVars, workerVars, flushVars
  <2>3. QED
    BY <1>0, <2>1, <2>2 DEF Held, InFlush
<1>21. QED
  BY <1>2, <1>3, <1>4, <1>5, <1>6, <1>7, <1>8, <1>9, <1>10, <1>11, <1>12, <1>13,
     <1>14, <1>15, <1>16, <1>17, <1>18, <1>19, <1>20 DEF Next, Worker, FlushStep

-----------------------------------------------------------------------------
LEMMA PipeInvInit == Init => PipeInv
<1> SUFFICES ASSUME Init PROVE PipeInv
  OBVIOUS
<1>1. TypeOK
  BY InitType
<1>2. FlushBatches /\ (closing => wpc = "exec") /\ JoinCounterSound
  BY EmptySeq DEF Init, FlushBatches, JoinCounterSound
<1>3. NoSilentLoss
  BY DEF Init, NoSilentLoss
<1>4. QED
  BY <1>1, <1>2, <1>3 DEF PipeInv

(* The pipe's invariant holds of every behaviour: the queue, the worker    *)
(* and the flush() calls hand every write on (_worker, flush, stop).       *)
THEOREM PipeInvariant == Spec => []PipeInv
<1>1. PipeInv /\ [Next]_vars => PipeInv'
  BY TypeStep, BatchesStep, CountStep, LossStep, NoSilentLossHeldNext DEF PipeInv
<1>2. QED
  BY <1>1, PipeInvInit, PTL DEF Spec

(* Every variable keeps its type; that the join counter stays a natural    *)
(* number is queue.task_done() never raising ValueError.                   *)
THEOREM TypeCorrect == Spec => []TypeOK
<1>1. PipeInv => TypeOK
  BY DEF PipeInv
<1>2. QED
  BY <1>1, PipeInvariant, PTL

(* No accepted write disappears between queue_write, the worker, flush()   *)
(* and stop() within a process life.                                       *)
THEOREM NothingLostSilently == Spec => []NoSilentLoss
<1>1. PipeInv => NoSilentLoss
  BY DEF PipeInv
<1>2. QED
  BY <1>1, PipeInvariant, PTL

(* queue.join() never returns while an item is queued or while the         *)
(* sentinel's flush runs (task_done in _worker and flush).                 *)
THEOREM JoinNeverEarly == Spec => []JoinCounterSound
<1>1. PipeInv => JoinCounterSound
  BY DEF PipeInv
<1>2. QED
  BY <1>1, PipeInvariant, PTL

-----------------------------------------------------------------------------
(* The refinement: queue, worker, flush() and the shared connection        *)
(* together are a write-behind store.                                      *)

(* Whatever is on its way to the disk was accepted in this process life.   *)
OnlyAccepted ==
  /\ From(queue, 1) \subseteq accepted \union {Stop}
  /\ From(batch, 1) \subseteq accepted
  /\ \A f \in Flushers : From(fbatch[f], 1) \subseteq accepted
  /\ dirty \subseteq accepted /\ committed \subseteq accepted

(* A row of the connection differs from the row on disk by a write of the  *)
(* open transaction.                                                       *)
RowsFromDirty ==
  \A s \in Sessions :
    \/ rows[s] = disk[s] /\ \A w \in dirty : w.sid # s
    \/ \E w \in dirty : w.sid = s /\ w.ver = rows[s]

(* What a step does to the connection.                                     *)
Unexecuted == UNCHANGED <<rows, disk, dirty, committed, lost>>
RolledBack == rows' = disk /\ dirty' = {} /\ UNCHANGED <<disk, committed, lost>>
Executed   == \E w \in accepted : ExecUpsert(w)
GivenUp    == \E W \in SUBSET accepted : Raise(W)
NotCommitted == \E kept : CommitFails(kept)
DbStep == Unexecuted \/ RolledBack \/ Executed \/ GivenUp \/ Commit \/ NotCommitted

AcceptStep == Unexecuted /\ \E w \in Writes : accepted' = accepted \union {w}

-----------------------------------------------------------------------------
LEMMA FromWithin ==
  ASSUME NEW S, NEW q \in Seq(S), NEW i \in 1..Len(q)
  PROVE  q[i] \in From(q, 1)
  BY DEF From

LEMMA FromTail ==
  ASSUME NEW S, NEW q \in Seq(S), q # <<>>
  PROVE  Head(q) \in From(q, 1) /\ From(Tail(q), 1) \subseteq From(q, 1)
<1>1. /\ Len(Tail(q)) = Len(q) - 1
      /\ \A i \in 1..Len(Tail(q)) : Tail(q)[i] = q[i + 1]
      /\ Len(q) \in Nat \ {0}
      /\ Head(q) = q[1]
  BY HeadTailProperties, EmptySeq
<1>2. Head(q) \in From(q, 1)
  BY <1>1, FromWithin
<1>3. ASSUME NEW i \in 1..Len(Tail(q))
      PROVE  Tail(q)[i] \in From(q, 1)
  <2>1. i + 1 \in 1..Len(q)
    BY <1>1
  <2>2. QED
    BY <1>1, <2>1, Zenon DEF From
<1>4. QED
  BY <1>2, <1>3, Zenon DEF From

(* flush() writes nothing that was not queued, and leaves nothing that was *)
(* not but the sentinel.                                                   *)
LEMMA DrainWithin ==
  ASSUME NEW q \in Seq(Items)
  PROVE  /\ From(Drained(q), 1) \subseteq From(q, 1)
         /\ From(Left(q), 1) \subseteq From(q, 1) \union {Stop}
<1>0. Len(q) \in Nat
  BY LenProperties
<1>1. CASE StopAt(q) = {}
  <2>1. Drained(q) = q /\ Left(q) = <<>>
    BY <1>1, DrainWhole
  <2>2. QED
    BY <2>1, FromEmpty
<1>2. CASE StopAt(q) # {}
  <2> DEFINE k == FirstStop(q)
             before == SubSeq(q, 1, k - 1)
             behind == SubSeq(q, k + 1, Len(q))
  <2>1. k \in 1..Len(q)
    BY <1>2, FirstStopIsFirst
  <2>2. Drained(q) = before /\ Left(q) = Append(behind, Stop)
    BY <1>2, Zenon DEF Drained, Left
  <2> HIDE DEF k
  <2>3. \A i \in 1..Len(q) : q[i] \in Items
    BY <1>0, ElementOfSeq
  <2>4. /\ before \in Seq(Items) /\ Len(before) = k - 1
        /\ \A i \in 1..(k - 1) : before[i] = q[i]
    BY <1>0, <2>1, <2>3, SubSeqProperties
  <2>5. /\ behind \in Seq(Items) /\ Len(behind) = Len(q) - k
        /\ \A i \in 1..(Len(q) - k) : behind[i] = q[k + i]
    BY <1>0, <2>1, <2>3, SubSeqProperties
  <2> HIDE DEF before, behind
  <2>6. \A i \in 1..Len(before) : i \in 1..Len(q) /\ before[i] = q[i]
    BY <1>0, <2>1, <2>4
  <2>7. \A i \in 1..Len(behind) : k + i \in 1..Len(q) /\ behind[i] = q[k + i]
    BY <1>0, <2>1, <2>5
  <2>8. From(before, 1) \subseteq From(q, 1) /\ From(behind, 1) \subseteq From(q, 1)
    BY <2>6, <2>7, Zenon DEF From
  <2>9. From(Append(behind, Stop), 1) = From(behind, 1) \union {Stop}
    <3>1. Stop \in Items /\ 1 \in 1..(Len(behind) + 1)
      BY <1>0, <2>1, <2>5, WriteType
    <3>2. QED
      BY <2>5, <3>1, FromAppend
  <2>10. QED
    BY <2>2, <2>8, <2>9
<1>3. QED
  BY <1>1, <1>2

-----------------------------------------------------------------------------
(* Every step of the pipe works on the connection in one of these ways,    *)
(* accepts one write, or is a restart.                                     *)
LEMMA ConnectionSteps ==
  ASSUME PipeInv, OnlyAccepted,
         \/ Worker \/ \E f \in Flushers : Flush(f) \/ FlushStep(f)
         \/ StopCall \/ StopReturn \/ OtherCommit \/ OtherRollback
         \/ \E c \in Syncers : SyncCall(c) \/ SyncReturn(c)
         \/ UNCHANGED vars
  PROVE  DbStep /\ accepted' = accepted
<1>0. TypeOK /\ FlushBatches
  BY DEF PipeInv
<1>1. CASE WorkerExec
  <2>1. batch \in Seq(Writes) /\ wpos \in 1..Len(batch)
    BY <1>0, <1>1, LenProperties DEF WorkerExec, TypeOK
  <2>2. batch[wpos] \in accepted
    BY <2>1, FromWithin DEF OnlyAccepted
  <2>3. QED
    BY <1>1, <2>2 DEF WorkerExec, DbStep, Executed, callerVars
<1>2. ASSUME NEW f \in Flushers, FlushExec(f)
      PROVE  DbStep /\ accepted' = accepted
  <2>1. fbatch[f] \in Seq(Writes) /\ fpos[f] \in 1..Len(fbatch[f])
    BY <1>0, <1>2, LenProperties DEF FlushExec, TypeOK, FlushBatches
  <2>2. fbatch[f][fpos[f]] \in accepted
    BY <2>1, FromWithin DEF OnlyAccepted
  <2>3. QED
    BY <1>2, <2>2 DEF FlushExec, DbStep, Executed, callerVars
<1>3. ASSUME NEW f \in Flushers, FlushRaises(f)
      PROVE  DbStep /\ accepted' = accepted
  <2>1. From(fbatch[f], fpos[f]) \subseteq accepted
    BY <1>0, FromStart, LenProperties DEF TypeOK, OnlyAccepted
  <2>2. QED
    BY <1>3, <2>1 DEF FlushRaises, DbStep, GivenUp, callerVars
<1>4. CASE WorkerRaises
  <2>1. {} \subseteq accepted
    OBVIOUS
  <2>2. QED
    BY <1>4, <2>1 DEF WorkerRaises, DbStep, GivenUp, callerVars
<1>5. CASE WorkerCommitFails \/ \E f \in Flushers : FlushCommitFails(f)
  BY <1>5 DEF WorkerCommitFails, FlushCommitFails, DbStep, NotCommitted, callerVars
<1>6. CASE WorkerCommit \/ OtherCommit \/ \E f \in Flushers : FlushCommit(f)
  BY <1>6 DEF WorkerCommit, OtherCommit, FlushCommit, DbStep, callerVars
<1>7. CASE OtherRollback
  BY <1>7 DEF OtherRollback, DbStep, RolledBack, callerVars
<1>8. CASE \/ WorkerTake \/ WorkerTimeout \/ WorkerTakeStop \/ StopCall \/ StopReturn
           \/ (\E c \in Syncers : SyncCall(c) \/ SyncReturn(c)) \/ UNCHANGED vars
  BY <1>8
     DEF WorkerTake, WorkerTimeout, WorkerTakeStop, StopCall, StopReturn, SyncCall, SyncReturn,
         vars, dbVars, callerVars, DbStep, Unexecuted
<1>9. CASE \E f \in Flushers : Flush(f) \/ FlushDone(f)
  BY <1>9 DEF Flush, FlushDone, dbVars, DbStep, Unexecuted
<1>10. QED
  BY <1>1, <1>2, <1>3, <1>4, <1>5, <1>6, <1>7, <1>8, <1>9 DEF Worker, FlushStep

LEMMA AcceptSteps ==
  ASSUME PipeInv, NEW s \in Sessions,
         Observe(s) \/ Requeue(s) \/ \E f \in Flushers : UrgencyFlush(f, s)
  PROVE  AcceptStep
<1>0. TypeOK
  BY DEF PipeInv
<1>1. CASE Observe(s)
  <2>1. built + 1 \in Versions
    BY <1>0, <1>1, BoundsAssumption DEF Observe, TypeOK, Versions
  <2>2. [sid |-> s, ver |-> built + 1] \in Writes
    BY <2>1, WriteType
  <2>3. QED
    BY <1>1, <2>2 DEF Observe, QueueWrite, AcceptStep, Unexecuted, dbVars
<1>2. CASE ram[s] # 0
  <2>1. [sid |-> s, ver |-> ram[s]] \in Writes
    BY <1>0, <1>2, WriteType DEF TypeOK
  <2>2. QED
    BY <1>1, <2>1
       DEF Requeue, UrgencyFlush, QueueWrite, AcceptStep, Unexecuted, dbVars
<1>3. QED
  BY <1>1, <1>2 DEF Requeue, UrgencyFlush

LEMMA StepKinds ==
  ASSUME PipeInv, OnlyAccepted, [Next]_vars
  PROVE  \/ DbStep /\ accepted' = accepted
         \/ AcceptStep
         \/ Restart
  BY ConnectionSteps, AcceptSteps DEF Next

-----------------------------------------------------------------------------
(* OnlyAccepted: nothing gets into the queue, a batch or the transaction   *)
(* that was not accepted, and a restart, which forgets what was, leaves    *)
(* nothing there.                                                          *)
LEMMA QueueWriteHeld ==
  ASSUME TypeOK, OnlyAccepted, NEW w \in Writes, QueueWrite(w),
         UNCHANGED <<workerVars, flushVars, dbVars>>
  PROVE  OnlyAccepted'
<1>1. queue \in Seq(Items) /\ w \in Items /\ 1 \in 1..(Len(queue) + 1)
  BY LenProperties, WriteType DEF TypeOK, Items
<1>2. From(queue', 1) = From(queue, 1) \union {w} /\ accepted' = accepted \union {w}
  BY <1>1, FromAppend DEF QueueWrite
<1>3. UNCHANGED <<batch, fbatch, dirty, committed>>
  BY DEF workerVars, flushVars, dbVars
<1>4. QED
  BY <1>2, <1>3 DEF OnlyAccepted

LEMMA FlushStartHeld ==
  ASSUME TypeOK, NEW f \in Flushers, NEW q \in Seq(Items), NEW n, NEW w, FlushStart(f, q, n, w),
         From(q, 1) \subseteq accepted' \union {Stop}, accepted \subseteq accepted',
         OnlyAccepted, UNCHANGED <<batch, dirty, committed>>
  PROVE  OnlyAccepted'
<1>1. From(queue', 1) \subseteq accepted' \union {Stop}
  BY DrainWithin DEF FlushStart
<1>2. From(Drained(q), 1) \subseteq accepted'
  <2>1. Drained(q) \in Seq(Writes)
    BY DrainSplit
  <2>2. Stop \notin From(Drained(q), 1)
    BY <2>1, ElementOfSeq, WriteType DEF From
  <2>3. QED
    BY <2>2, DrainWithin
<1>3. ASSUME NEW g \in Flushers
      PROVE  From(fbatch'[g], 1) \subseteq accepted'
  <2>1. CASE g = f
    BY <1>2, <2>1 DEF FlushStart, TypeOK
  <2>2. CASE g # f
    BY <2>2 DEF FlushStart, TypeOK, OnlyAccepted
  <2>3. QED
    BY <2>1, <2>2
<1>4. QED
  BY <1>1, <1>3 DEF OnlyAccepted

LEMMA EndFlushHeld ==
  ASSUME TypeOK, OnlyAccepted, NEW f \in Flushers, EndFlush(f)
  PROVE  \A g \in Flushers : From(fbatch'[g], 1) \subseteq accepted
<1>1. ASSUME NEW g \in Flushers
      PROVE  fbatch'[g] = <<>> \/ fbatch'[g] = fbatch[g]
  BY DEF EndFlush, TypeOK
<1>2. QED
  BY <1>1, FromEmpty DEF OnlyAccepted

(* What a step leaves in the transaction and on disk was in it before.     *)
LEMMA DbStepHeld ==
  ASSUME OnlyAccepted, DbStep
  PROVE  dirty' \subseteq accepted /\ committed' \subseteq accepted
  BY DEF OnlyAccepted, DbStep, Unexecuted, RolledBack, Executed, GivenUp, NotCommitted,
         ExecUpsert, Raise, Commit, CommitFails

LEMMA HeldStep ==
  ASSUME PipeInv, OnlyAccepted, [Next]_vars
  PROVE  OnlyAccepted'
<1>0. TypeOK /\ queue \in Seq(Items)
  BY DEF PipeInv, TypeOK, Items
<1>1. ASSUME NEW s \in Sessions, Observe(s)
      PROVE  OnlyAccepted'
  <2>1. built + 1 \in Versions
    BY <1>0, <1>1, BoundsAssumption DEF Observe, TypeOK, Versions
  <2>2. [sid |-> s, ver |-> built + 1] \in Writes
    BY <2>1, WriteType
  <2>3. QED
    BY <1>0, <1>1, <2>2, QueueWriteHeld DEF Observe
<1>2. ASSUME NEW s \in Sessions, Requeue(s)
      PROVE  OnlyAccepted'
  <2>1. [sid |-> s, ver |-> ram[s]] \in Writes
    BY <1>0, <1>2, WriteType DEF Requeue, TypeOK
  <2>2. QED
    BY <1>0, <1>2, <2>1, QueueWriteHeld DEF Requeue
<1>3. CASE WorkerTake
  <2>1. /\ queue # <<>> /\ queue' = Tail(queue) /\ batch' = Append(batch, Head(queue))
        /\ Head(queue) # Stop /\ Head(queue) \in Writes
        /\ batch \in Seq(Writes) /\ 1 \in 1..(Len(batch) + 1)
    BY <1>0, <1>3, HeadOfQueue, LenProperties DEF WorkerTake, TypeOK, Items
  <2>2. Head(queue) \in accepted /\ From(queue', 1) \subseteq accepted \union {Stop}
    BY <1>0, <2>1, FromTail DEF OnlyAccepted
  <2>3. From(batch', 1) = From(batch, 1) \union {Head(queue)}
    BY <2>1, FromAppend
  <2>4. UNCHANGED <<fbatch, dirty, committed, accepted>>
    BY <1>3 DEF WorkerTake, flushVars, dbVars, callerVars
  <2>5. QED
    BY <2>2, <2>3, <2>4 DEF OnlyAccepted
<1>4. CASE WorkerTakeStop
  <2>1. queue # <<>> /\ queue' = Tail(queue)
    BY <1>4 DEF WorkerTakeStop
  <2>2. From(queue', 1) \subseteq From(queue, 1)
    BY <1>0, <2>1, FromTail
  <2>3. UNCHANGED <<batch, fbatch, dirty, committed, accepted>>
    BY <1>4 DEF WorkerTakeStop, flushVars, dbVars, callerVars
  <2>4. QED
    BY <2>2, <2>3 DEF OnlyAccepted
<1>5. CASE StopCall
  <2>1. 1 \in 1..(Len(queue) + 1) /\ Stop \in Items
    BY <1>0, LenProperties, WriteType
  <2>2. From(queue', 1) = From(queue, 1) \union {Stop}
    BY <1>0, <1>5, <2>1, FromAppend DEF StopCall
  <2>3. UNCHANGED <<batch, fbatch, dirty, committed, accepted>>
    BY <1>5 DEF StopCall, workerVars, flushVars, dbVars, callerVars
  <2>4. QED
    BY <2>2, <2>3 DEF OnlyAccepted
<1>6. ASSUME NEW f \in Flushers, Flush(f)
      PROVE  OnlyAccepted'
  <2>1. /\ FlushStart(f, queue, unfinished, NoWrite)
        /\ UNCHANGED <<batch, dirty, committed, accepted>>
    BY <1>6 DEF Flush, workerVars, dbVars
  <2>2. QED
    BY <1>0, <2>1, FlushStartHeld DEF OnlyAccepted
<1>7. ASSUME NEW f \in Flushers, NEW s \in Sessions, UrgencyFlush(f, s)
      PROVE  OnlyAccepted'
  <2> DEFINE w == [sid |-> s, ver |-> ram[s]]
  <2>1. w \in Items /\ 1 \in 1..(Len(queue) + 1)
    BY <1>0, <1>7, WriteType, LenProperties DEF UrgencyFlush, TypeOK
  <2>2. /\ FlushStart(f, Append(queue, w), unfinished + 1, w)
        /\ accepted' = accepted \union {w} /\ UNCHANGED <<batch, dirty, committed>>
    BY <1>7 DEF UrgencyFlush, workerVars, dbVars
  <2> HIDE DEF w
  <2>3. /\ Append(queue, w) \in Seq(Items)
        /\ From(Append(queue, w), 1) = From(queue, 1) \union {w}
    BY <1>0, <2>1, FromAppend, AppendProperties
  <2>4. From(Append(queue, w), 1) \subseteq accepted' \union {Stop}
    BY <2>2, <2>3 DEF OnlyAccepted
  <2>5. QED
    BY <1>0, <2>2, <2>3, <2>4, FlushStartHeld
<1>8. CASE Restart
  BY <1>8, FromEmpty DEF Restart, OnlyAccepted
<1>9. CASE WorkerCommit
  <2>1. batch' = <<>> /\ UNCHANGED <<queue, fbatch, accepted>> /\ DbStep
    BY <1>9 DEF WorkerCommit, DbStep, flushVars, callerVars
  <2>2. QED
    BY <2>1, FromEmpty, DbStepHeld DEF OnlyAccepted
<1>10. ASSUME NEW f \in Flushers, FlushCommitFails(f) \/ FlushRaises(f) \/ FlushDone(f)
       PROVE  OnlyAccepted'
  <2>1. EndFlush(f) /\ UNCHANGED <<queue, batch>>
    BY <1>10 DEF FlushCommitFails, FlushRaises, FlushDone, workerVars
  <2>2. DbStep /\ accepted' = accepted
    BY <1>10, ConnectionSteps DEF FlushStep
  <2>3. QED
    BY <1>0, <2>1, <2>2, EndFlushHeld, DbStepHeld DEF OnlyAccepted
<1>11. CASE \/ WorkerTimeout \/ WorkerExec \/ WorkerCommitFails \/ WorkerRaises
            \/ (\E f \in Flushers : FlushExec(f) \/ FlushCommit(f)) \/ StopReturn
            \/ OtherCommit \/ OtherRollback \/ (\E c \in Syncers : SyncCall(c) \/ SyncReturn(c))
            \/ UNCHANGED vars
  <2>1. UNCHANGED <<queue, batch, fbatch>>
    BY <1>11
       DEF WorkerTimeout, WorkerExec, WorkerCommitFails, WorkerRaises, FlushExec, FlushCommit,
           StopReturn, OtherCommit, OtherRollback, SyncCall, SyncReturn, vars, workerVars,
           flushVars
  <2>2. DbStep /\ accepted' = accepted
    BY <1>11, ConnectionSteps DEF Worker, FlushStep
  <2>3. QED
    BY <2>1, <2>2, DbStepHeld DEF OnlyAccepted
<1>12. QED
  BY <1>1, <1>2, <1>3, <1>4, <1>5, <1>6, <1>7, <1>8, <1>9, <1>10, <1>11
     DEF Next, Worker, FlushStep

-----------------------------------------------------------------------------
(* RowsFromDirty: a statement, a commit and both kinds of rollback keep    *)
(* rows, disk and transaction in agreement.                                *)
LEMMA RowsStep ==
  ASSUME PipeInv, OnlyAccepted, RowsFromDirty, [Next]_vars
  PROVE  RowsFromDirty'
<1>0. TypeOK
  BY DEF PipeInv
<1>1. CASE Unexecuted
  BY <1>1 DEF Unexecuted, RowsFromDirty
<1>2. CASE rows' = disk' /\ dirty' = {}
  BY <1>2 DEF RowsFromDirty
<1>3. ASSUME NEW w \in accepted, rows' = [rows EXCEPT ![w.sid] = w.ver],
             dirty' = dirty \union {w}, disk' = disk
      PROVE  RowsFromDirty'
  <2>1. w.sid \in Sessions /\ rows' = [s \in Sessions |-> IF s = w.sid THEN w.ver ELSE rows[s]]
    BY <1>0, <1>3 DEF TypeOK, Writes
  <2>2. QED
    BY <1>3, <2>1 DEF RowsFromDirty
<1>4. CASE DbStep
  <2>1. CASE RolledBack \/ Commit
    BY <1>2, <2>1 DEF RolledBack, Commit
  <2>2. CASE GivenUp
    BY <2>2 DEF GivenUp, Raise, RowsFromDirty
  <2>3. CASE Executed
    <3>1. PICK w \in accepted : ExecUpsert(w)
      BY <2>3 DEF Executed
    <3>2. CASE Raise({w})
      BY <3>2 DEF Raise, RowsFromDirty
    <3>3. QED
      BY <1>3, <3>1, <3>2 DEF ExecUpsert
  <2>4. CASE NotCommitted
    <3>1. (rows' = disk' /\ dirty' = {}) \/ UNCHANGED <<rows, dirty, disk>>
      BY <2>4 DEF NotCommitted, CommitFails
    <3>2. QED
      BY <1>2, <3>1 DEF RowsFromDirty
  <2>5. QED
    BY <1>1, <1>4, <2>1, <2>2, <2>3, <2>4 DEF DbStep
<1>5. CASE Restart
  BY <1>2, <1>5 DEF Restart
<1>6. QED
  BY <1>1, <1>4, <1>5, StepKinds DEF AcceptStep

RefinementInv == PipeInv /\ OnlyAccepted /\ RowsFromDirty

LEMMA RefinementInvInit == Init => RefinementInv
<1> SUFFICES ASSUME Init PROVE RefinementInv
  OBVIOUS
<1>1. OnlyAccepted
  BY FromEmpty DEF Init, OnlyAccepted
<1>2. RowsFromDirty
  BY DEF Init, RowsFromDirty
<1>3. QED
  BY <1>1, <1>2, PipeInvInit DEF RefinementInv

LEMMA RefinementInvariant == Spec => []RefinementInv
<1>1. PipeInv /\ OnlyAccepted /\ RowsFromDirty /\ [Next]_vars => OnlyAccepted' /\ RowsFromDirty'
  BY HeldStep, RowsStep
<1>2. QED
  BY <1>1, RefinementInvInit, PipeInvariant, PTL DEF Spec, RefinementInv

-----------------------------------------------------------------------------
(* The steps of the pipe as steps of the write-behind store.               *)
LEMMA CommitPersists ==
  ASSUME TypeOK, OnlyAccepted, RowsFromDirty, Commit, accepted' = accepted
  PROVE  Abstract!Persist
<1>1. dirty \in SUBSET accepted /\ committed' = committed \union dirty
  BY DEF OnlyAccepted, Commit
<1>2. disk' \in [Sessions -> {0} \union Versions] /\ lost' = lost
  BY DEF Commit, TypeOK
<1>3. ASSUME NEW s \in Sessions
      PROVE  IF Abstract!Objects(dirty, s) = {} THEN disk'[s] = disk[s]
                                               ELSE disk'[s] \in Abstract!Objects(dirty, s)
  BY DEF Commit, RowsFromDirty, Abstract!Objects
<1>4. QED
  BY <1>1, <1>2, <1>3 DEF Abstract!Persist

LEMMA DbStepRefines ==
  ASSUME TypeOK, OnlyAccepted, RowsFromDirty, DbStep, accepted' = accepted
  PROVE  Abstract!Persist \/ Abstract!Fail \/ UNCHANGED <<accepted, committed, lost, disk>>
<1>1. CASE Commit
  BY <1>1, CommitPersists
<1>2. CASE UNCHANGED <<disk, committed, lost>>
  BY <1>2
<1>3. ASSUME NEW W \in SUBSET accepted, lost' = lost \union W, UNCHANGED <<disk, committed>>
      PROVE  Abstract!Fail
  BY <1>3 DEF Abstract!Fail
<1>4. CASE GivenUp
  BY <1>3, <1>4 DEF GivenUp, Raise
<1>5. CASE Executed
  <2>1. \A w \in accepted : {w} \in SUBSET accepted
    OBVIOUS
  <2>2. QED
    BY <1>2, <1>3, <1>5, <2>1 DEF Executed, ExecUpsert, Raise
<1>6. CASE NotCommitted
  <2>1. \A kept : dirty \ kept \in SUBSET accepted
    BY DEF OnlyAccepted
  <2>2. QED
    BY <1>2, <1>3, <1>6, <2>1 DEF NotCommitted, CommitFails
<1>7. QED
  BY <1>1, <1>2, <1>4, <1>5, <1>6 DEF DbStep, Unexecuted, RolledBack

LEMMA StepRefines ==
  ASSUME RefinementInv, [Next]_vars
  PROVE  [Abstract!Next]_<<accepted, committed, lost, disk>>
<1>1. PipeInv /\ OnlyAccepted /\ RowsFromDirty /\ TypeOK
  BY DEF RefinementInv, PipeInv
<1>2. CASE DbStep /\ accepted' = accepted
  BY <1>1, <1>2, DbStepRefines DEF Abstract!Next
<1>3. CASE AcceptStep
  BY <1>3 DEF AcceptStep, Unexecuted, Abstract!Next, Abstract!Accept, Abstract!Writes, Writes
<1>4. CASE Restart
  BY <1>4 DEF Restart, Abstract!Next, Abstract!Forget
<1>5. QED
  BY <1>1, <1>2, <1>3, <1>4, StepKinds

(* Whatever the event loop interleaves, the pipe is a write-behind store:  *)
(* only accepted writes become durable, a commit by anybody makes a whole  *)
(* set of them durable with one object of its own in every row it touches, *)
(* and a restart forgets exactly what is not durable (queue_write, _worker,*)
(* flush and the shared connection in storage/sqlite.py).                  *)
THEOREM PipeIsWriteBehind == Spec => ImplementsWriteBehind
<1>1. Init => Abstract!Init
  BY DEF Init, Abstract!Init
<1>2. RefinementInv /\ [Next]_vars => [Abstract!Next]_<<accepted, committed, lost, disk>>
  BY StepRefines
<1>3. QED
  BY <1>1, <1>2, RefinementInvariant, PTL DEF Spec, ImplementsWriteBehind, Abstract!Spec


-----------------------------------------------------------------------------
(* The promises of stop(), sync() and an urgency flush.                    *)
(* x stands in q with no sentinel before it.                               *)
Clear(q, x) == \E i \in DOMAIN q : q[i] = x /\ \A j \in 1..i : q[j] # Stop

LEMMA DrainedIsClear ==
  ASSUME NEW q \in Seq(Items), NEW x
  PROVE  x \in From(Drained(q), 1) <=> Clear(q, x)
<1>0. Len(q) \in Nat /\ DOMAIN q = 1..Len(q)
  BY LenProperties
<1>1. CASE StopAt(q) = {}
  <2>1. Drained(q) = q /\ \A j \in 1..Len(q) : q[j] # Stop
    BY <1>0, <1>1, DrainWhole DEF StopAt
  <2>2. QED
    BY <1>0, <2>1 DEF From, Clear
<1>2. CASE StopAt(q) # {}
  <2> DEFINE k == FirstStop(q)
  <2>1. /\ k \in 1..Len(q) /\ q[k] = Stop
        /\ \A i \in 1..(k - 1) : q[i] # Stop
    BY <1>2, FirstStopIsFirst
  <2>2. Drained(q) = SubSeq(q, 1, k - 1)
    BY <1>2 DEF Drained
  <2> HIDE DEF k
  <2>3. 1 \in Int /\ k - 1 \in Int /\ \A i \in 1..(k - 1) : q[i] \in Items
    BY <1>0, <2>1
  <2>4. /\ Len(SubSeq(q, 1, k - 1)) = k - 1
        /\ \A i \in 1..(k - 1) : SubSeq(q, 1, k - 1)[i] = q[i]
    BY <1>0, <2>1, <2>3, SubSeqProperties
  <2>5. From(Drained(q), 1) = {q[i] : i \in 1..(k - 1)}
    BY <2>2, <2>4 DEF From
  <2>6. ASSUME Clear(q, x) PROVE \E i \in 1..(k - 1) : q[i] = x
    <3>1. PICK i \in 1..Len(q) : q[i] = x /\ \A j \in 1..i : q[j] # Stop
      BY <1>0, <2>6 DEF Clear
    <3>2. ~(k <= i)
      BY <1>0, <2>1, <3>1
    <3>3. QED
      BY <1>0, <2>1, <3>1, <3>2
  <2>7. ASSUME NEW i \in 1..(k - 1), q[i] = x PROVE Clear(q, x)
    BY <1>0, <2>1, <2>7 DEF Clear
  <2>8. QED
    BY <2>5, <2>6, <2>7
<1>3. QED
  BY <1>1, <1>2

LEMMA ClearOfTail ==
  ASSUME NEW q \in Seq(Items), q # <<>>, NEW x
  PROVE  /\ Clear(q, x) => Head(q) # Stop /\ (x = Head(q) \/ Clear(Tail(q), x))
         /\ (StopAt(Tail(q)) = {}) <=> (StopAt(q) \ {1} = {})
         /\ (\A i, j \in StopAt(q) : i = j) => \A i, j \in StopAt(Tail(q)) : i = j
<1>1. /\ Len(q) \in Nat \ {0} /\ Head(q) = q[1] /\ Len(Tail(q)) = Len(q) - 1
      /\ \A i \in 1..Len(Tail(q)) : Tail(q)[i] = q[i + 1]
      /\ DOMAIN q = 1..Len(q) /\ DOMAIN Tail(q) = 1..(Len(q) - 1)
  BY HeadTailProperties, LenProperties, EmptySeq
<1>2. ASSUME Clear(q, x) PROVE Head(q) # Stop /\ (x = Head(q) \/ Clear(Tail(q), x))
  <2>1. PICK i \in 1..Len(q) : q[i] = x /\ \A j \in 1..i : q[j] # Stop
    BY <1>1, <1>2 DEF Clear
  <2>2. Head(q) # Stop
    BY <1>1, <2>1
  <2>3. CASE i = 1
    BY <1>1, <2>1, <2>2, <2>3
  <2>4. CASE i # 1
    <3>1. i - 1 \in 1..(Len(q) - 1) /\ Tail(q)[i - 1] = x
      BY <1>1, <2>1, <2>4
    <3>2. \A j \in 1..(i - 1) : Tail(q)[j] # Stop
      BY <1>1, <2>1, <2>4
    <3>3. QED
      BY <1>1, <2>2, <3>1, <3>2 DEF Clear
  <2>5. QED
    BY <2>3, <2>4
<1>3. \A i : i \in StopAt(Tail(q)) <=> i \in 1..(Len(q) - 1) /\ i + 1 \in StopAt(q)
  BY <1>1 DEF StopAt
<1>4. \A i \in StopAt(q) : i \in 1..Len(q)
  BY <1>1 DEF StopAt
<1>5. (StopAt(Tail(q)) = {}) <=> (StopAt(q) \ {1} = {})
  <2>1. ASSUME NEW i \in StopAt(Tail(q)) PROVE StopAt(q) \ {1} # {}
    <3>1. i \in 1..(Len(q) - 1) /\ i + 1 \in StopAt(q)
      BY <1>3
    <3>2. i + 1 # 1
      BY <1>1, <3>1
    <3>3. QED
      BY <3>1, <3>2
  <2>2. ASSUME NEW i \in StopAt(q), i # 1 PROVE StopAt(Tail(q)) # {}
    <3>1. i - 1 \in 1..(Len(q) - 1) /\ (i - 1) + 1 = i
      BY <1>1, <1>4, <2>2
    <3>2. i - 1 \in StopAt(Tail(q))
      BY <1>3, <3>1
    <3>3. QED
      BY <3>2
  <2>3. QED
    BY <2>1, <2>2
<1>6. ASSUME \A i, j \in StopAt(q) : i = j, NEW i \in StopAt(Tail(q)), NEW j \in StopAt(Tail(q))
      PROVE  i = j
  <2>1. i \in 1..(Len(q) - 1) /\ j \in 1..(Len(q) - 1) /\ i + 1 = j + 1
    BY <1>3, <1>6
  <2>2. QED
    BY <1>1, <2>1
<1>7. QED
  BY <1>2, <1>5, <1>6

LEMMA ClearOfAppend ==
  ASSUME NEW q \in Seq(Items), NEW y \in Items, NEW x
  PROVE  /\ Clear(q, x) => Clear(Append(q, y), x)
         /\ StopAt(q) = {} /\ x \in From(q, 1) => Clear(Append(q, y), x)
         /\ StopAt(q) = {} /\ y # Stop => Clear(Append(q, y), y)
         /\ y # Stop => StopAt(Append(q, y)) = StopAt(q)
         /\ StopAt(Append(q, Stop)) = StopAt(q) \union {Len(q) + 1}
<1> Stop \in Items
  BY WriteType
<1>1. /\ Len(q) \in Nat /\ DOMAIN q = 1..Len(q)
      /\ \A z \in Items : /\ DOMAIN Append(q, z) = 1..(Len(q) + 1)
                          /\ \A i \in 1..Len(q) : Append(q, z)[i] = q[i]
                          /\ Append(q, z)[Len(q) + 1] = z
  BY LenProperties, AppendProperties
<1>2. ASSUME NEW i \in 1..Len(q), q[i] = x, \A j \in 1..i : q[j] # Stop PROVE Clear(Append(q, y), x)
  <2>1. i \in DOMAIN Append(q, y) /\ Append(q, y)[i] = x
    BY <1>1, <1>2
  <2>2. \A j \in 1..i : Append(q, y)[j] # Stop
    BY <1>1, <1>2
  <2>3. QED
    BY <2>1, <2>2 DEF Clear
<1>3. Clear(q, x) => Clear(Append(q, y), x)
  BY <1>1, <1>2 DEF Clear
<1>4. ASSUME StopAt(q) = {} PROVE \A j \in 1..Len(q) : q[j] # Stop
  BY <1>1, <1>4 DEF StopAt
<1>5. StopAt(q) = {} /\ x \in From(q, 1) => Clear(Append(q, y), x)
  <2>1. SUFFICES ASSUME StopAt(q) = {}, NEW i \in 1..Len(q), q[i] = x PROVE Clear(Append(q, y), x)
    BY DEF From
  <2>2. \A j \in 1..i : q[j] # Stop
    BY <1>1, <1>4, <2>1
  <2>3. QED
    BY <1>2, <2>1, <2>2
<1>6. StopAt(q) = {} /\ y # Stop => Clear(Append(q, y), y)
  <2>1. SUFFICES ASSUME StopAt(q) = {}, y # Stop PROVE Clear(Append(q, y), y)
    OBVIOUS
  <2>2. \A j \in 1..(Len(q) + 1) : Append(q, y)[j] # Stop
    BY <1>1, <1>4, <2>1
  <2>3. Len(q) + 1 \in DOMAIN Append(q, y) /\ Append(q, y)[Len(q) + 1] = y
    BY <1>1
  <2>4. QED
    BY <2>2, <2>3 DEF Clear
<1>7. y # Stop => StopAt(Append(q, y)) = StopAt(q)
  BY <1>1 DEF StopAt
<1>8. StopAt(Append(q, Stop)) = StopAt(q) \union {Len(q) + 1}
  BY <1>1 DEF StopAt
<1>9. QED
  BY <1>3, <1>5, <1>6, <1>7, <1>8

(* flush() leaves the one sentinel it met.                                 *)
LEMMA StopLeft ==
  ASSUME NEW q \in Seq(Items), \A i, j \in StopAt(q) : i = j
  PROVE  /\ (StopAt(Left(q)) = {}) <=> (StopAt(q) = {})
         /\ \A i, j \in StopAt(Left(q)) : i = j
<1>0. Len(q) \in Nat /\ DOMAIN q = 1..Len(q)
  BY LenProperties
<1>1. CASE StopAt(q) = {}
  <2>1. Left(q) = <<>>
    BY <1>1 DEF Left
  <2>2. StopAt(Left(q)) = {}
    BY <2>1 DEF StopAt
  <2>3. QED
    BY <1>1, <2>2
<1>2. CASE StopAt(q) # {}
  <2> DEFINE k == FirstStop(q)
             r == SubSeq(q, k + 1, Len(q))
  <2>1. k \in 1..Len(q) /\ q[k] = Stop
    BY <1>2, FirstStopIsFirst
  <2>2. Left(q) = Append(r, Stop)
    BY <1>2 DEF Left
  <2> HIDE DEF k
  <2>3. \A i \in (k + 1)..Len(q) : q[i] \in Items /\ q[i] # Stop
    BY <1>0, <2>1 DEF StopAt
  <2>4. k + 1 \in Int /\ Len(q) \in Int
    BY <1>0, <2>1
  <2>5. /\ r \in Seq(Items) /\ Len(r) = Len(q) - k
        /\ \A i \in 1..(Len(q) - k) : r[i] = q[k + i]
    <3>1. /\ r \in Seq(Items) /\ Len(r) = (IF k + 1 <= Len(q) THEN Len(q) - (k + 1) + 1 ELSE 0)
          /\ \A i \in 1..(Len(q) - (k + 1) + 1) : r[i] = q[k + 1 + i - 1]
      BY <2>3, <2>4, SubSeqProperties
    <3>2. Len(q) - (k + 1) + 1 = Len(q) - k /\ (~(k + 1 <= Len(q)) => Len(q) - k = 0)
      <4>1. \A a, b \in Int : a - (b + 1) + 1 = a - b
        OBVIOUS
      <4>2. \A a, b \in Int : b <= a /\ ~(b + 1 <= a) => a - b = 0
        OBVIOUS
      <4>3. k \in Int /\ Len(q) \in Int /\ k <= Len(q)
        BY <1>0, <2>1
      <4>4. Len(q) - (k + 1) + 1 = Len(q) - k
        BY <4>1, <4>3
      <4>5. ~(k + 1 <= Len(q)) => Len(q) - k = 0
        BY <4>2, <4>3
      <4>6. QED
        BY <4>4, <4>5
    <3>3. \A i \in 1..(Len(q) - k) : k + 1 + i - 1 = k + i
      BY <1>0, <2>1
    <3>4. QED
      BY <3>1, <3>2, <3>3
  <2> HIDE DEF r
  <2>6. StopAt(r) = {}
    <3>1. DOMAIN r = 1..(Len(q) - k)
      BY <2>5, LenProperties
    <3>2. \A i \in 1..(Len(q) - k) : k + i \in (k + 1)..Len(q)
      BY <1>0, <2>1
    <3>3. QED
      BY <2>3, <2>5, <3>1, <3>2 DEF StopAt
  <2>7. StopAt(Left(q)) = {Len(r) + 1}
    <3>1. Stop \in Items
      BY WriteType
    <3>2. QED
      BY <2>2, <2>5, <2>6, <3>1, ClearOfAppend
  <2>8. QED
    BY <1>2, <2>7
<1>3. QED
  BY <1>1, <1>2

-----------------------------------------------------------------------------
(* A write that the flush of stop() has yet to take, one in the hands of a *)
(* flush() call, one that somebody holds or that is settled.               *)
Ahead(w) == StopAt(queue) # {} /\ Clear(queue, w)
Flushing(w) == \E f \in Flushers : fpc[f] = "exec" /\ w \in From(fbatch[f], 1)
InHands(w) == w \in Settled \/ w \in From(batch, wpos) \/ InFlush(w)
(* What became of a write for good.                                        *)
Sealed == committed \union lost \union undone

(* The sentinel is on the queue at most once, between the call of stop()   *)
(* and the moment the worker takes it.                                     *)
SentinelSound ==
  /\ \A i, j \in StopAt(queue) : i = j
  /\ StopAt(queue) # {} => stopper = "waiting" /\ ~closing /\ wpc # "exited"
  /\ closing => stopper # "running"
  /\ wpc = "exited" => batch = <<>> /\ stopper # "running"
  /\ stopper = "stopped" => wpc = "exited"

(* What a batch holds before its position has been executed; the worker's  *)
(* failed commit may have rolled back what a flush() call executed.        *)
ExecutedSound ==
  /\ From(batch, 1) \subseteq From(batch, wpos) \union Settled
  /\ \A f \in Flushers :
       From(fbatch[f], 1) \subseteq From(fbatch[f], fpos[f]) \union Settled \union From(batch, 1)

(* An urgency flush drains the write it was called for.                    *)
OwnSound ==
  \A f \in Flushers :
    (fpc[f] # "idle" /\ goal[f] # NoWrite /\ stopper = "running") => goal[f] \in From(fbatch[f], 1)

(* Without errors of SQLite nothing is given up, what was executed is held *)
(* until it is committed, and what stop() owes is ahead of the sentinel,   *)
(* in a batch or committed.                                                *)
FaultlessSound ==
  faults = 0 =>
    /\ lost = {} /\ undone = {}
    /\ \A w \in dirty : w \in committed \/ w \in From(batch, 1) \/ Flushing(w)
    /\ stopper # "running" =>
         \A w \in stopOwed : w \in committed \/ w \in From(batch, 1) \/ Flushing(w) \/ Ahead(w)

(* What a sync() call waits for was accepted.                              *)
OwedSound == \A c \in Syncers : joinOwed[c] \subseteq accepted

SyncSound ==
  \A c \in Syncers : joiner[c] = "drained" => \A w \in joinOwed[c] : InHands(w)

PromiseInv ==
  /\ SentinelSound /\ ExecutedSound /\ OwnSound /\ FaultlessSound /\ OwedSound
  /\ SyncSound /\ FlushCoversOwn

LEMMA SentinelAppended ==
  ASSUME TypeOK, SentinelSound, NEW w \in Writes, queue' = Append(queue, w),
         UNCHANGED <<stopper, closing, wpc, batch>>
  PROVE  SentinelSound'
<1>1. queue \in Seq(Items) /\ w \in Items /\ w # Stop
  BY WriteType DEF TypeOK, Items
<1>2. StopAt(queue') = StopAt(queue)
  BY <1>1, ClearOfAppend
<1>3. QED
  BY <1>2 DEF SentinelSound

LEMMA SentinelFlushed ==
  ASSUME TypeOK, SentinelSound, NEW q \in Seq(Items), StopAt(q) = StopAt(queue), queue' = Left(q),
         UNCHANGED <<stopper, closing, wpc, batch>>
  PROVE  SentinelSound'
<1>1. /\ (StopAt(queue') = {}) <=> (StopAt(q) = {})
      /\ \A i, j \in StopAt(queue') : i = j
  BY StopLeft DEF SentinelSound
<1>2. QED
  BY <1>1 DEF SentinelSound

LEMMA SentinelStep ==
  ASSUME PipeInv, SentinelSound, [Next]_vars
  PROVE  SentinelSound'
<1>0. TypeOK /\ queue \in Seq(Items) /\ (closing => wpc = "exec")
  BY DEF PipeInv, TypeOK, Items
<1>1. ASSUME NEW s \in Sessions, Observe(s) PROVE SentinelSound'
  <2>1. built + 1 \in Versions
    BY <1>0, <1>1, BoundsAssumption DEF Observe, TypeOK, Versions
  <2>2. [sid |-> s, ver |-> built + 1] \in Writes
    BY <2>1, WriteType
  <2>3. QED
    BY <1>0, <1>1, <2>2, SentinelAppended DEF Observe, QueueWrite, workerVars, stopVars
<1>2. ASSUME NEW s \in Sessions, Requeue(s) PROVE SentinelSound'
  <2>1. [sid |-> s, ver |-> ram[s]] \in Writes
    BY <1>0, <1>2, WriteType DEF Requeue, TypeOK
  <2>2. QED
    BY <1>0, <1>2, <2>1, SentinelAppended DEF Requeue, QueueWrite, workerVars, stopVars
<1>3. CASE WorkerTake
  <2>1. /\ queue # <<>> /\ Head(queue) # Stop /\ queue' = Tail(queue) /\ wpc = "get"
        /\ wpc' \in {"get", "exec"} /\ UNCHANGED <<stopper, closing>>
    BY <1>3 DEF WorkerTake, stopVars
  <2>2. 1 \notin StopAt(queue)
    BY <1>0, <2>1, HeadTailProperties DEF StopAt
  <2>3. /\ (StopAt(queue') = {}) <=> (StopAt(queue) = {})
        /\ \A i, j \in StopAt(queue') : i = j
    BY <1>0, <2>1, <2>2, ClearOfTail DEF SentinelSound
  <2>4. QED
    BY <2>1, <2>3 DEF SentinelSound
<1>4. CASE WorkerTakeStop
  <2>1. /\ queue # <<>> /\ Head(queue) = Stop /\ queue' = Tail(queue) /\ wpc = "get"
        /\ UNCHANGED <<stopper, batch>>
        /\ \/ batch = <<>> /\ wpc' = "exited" /\ closing' = FALSE
           \/ wpc' = "exec" /\ closing' = TRUE
    BY <1>4 DEF WorkerTakeStop, stopVars
  <2>2. 1 \in StopAt(queue)
    BY <1>0, <2>1, HeadTailProperties, EmptySeq, LenProperties DEF StopAt
  <2>3. StopAt(queue) \ {1} = {}
    BY <2>2 DEF SentinelSound
  <2>4. StopAt(queue') = {}
    BY <1>0, <2>1, <2>3, ClearOfTail
  <2>5. stopper = "waiting"
    BY <2>2 DEF SentinelSound
  <2>6. QED
    BY <2>1, <2>4, <2>5 DEF SentinelSound
<1>5. CASE WorkerCommit
  <2>1. /\ wpc = "exec" /\ UNCHANGED <<queue, stopper>> /\ batch' = <<>> /\ closing' = FALSE
        /\ \/ closing /\ wpc' = "exited"
           \/ wpc' = "get"
    BY <1>5 DEF WorkerCommit, stopVars
  <2>2. QED
    BY <2>1 DEF SentinelSound
<1>6. CASE WorkerTimeout \/ WorkerExec \/ WorkerCommitFails \/ WorkerRaises
  <2>1. /\ UNCHANGED <<queue, stopper, batch>> /\ wpc # "exited" /\ wpc' # "exited"
        /\ closing' = FALSE \/ closing' = closing
    BY <1>6 DEF WorkerTimeout, WorkerExec, WorkerCommitFails, WorkerRaises, stopVars
  <2>2. QED
    BY <2>1 DEF SentinelSound
<1>7. ASSUME NEW f \in Flushers, Flush(f) PROVE SentinelSound'
  BY <1>0, <1>7, SentinelFlushed DEF Flush, FlushStart, workerVars, stopVars
<1>8. ASSUME NEW f \in Flushers, NEW s \in Sessions, UrgencyFlush(f, s) PROVE SentinelSound'
  <2> DEFINE w == [sid |-> s, ver |-> ram[s]]
  <2>1. w \in Items /\ w # Stop
    BY <1>0, <1>8, WriteType DEF UrgencyFlush, TypeOK
  <2>2. queue' = Left(Append(queue, w)) /\ UNCHANGED <<stopper, closing, wpc, batch>>
    BY <1>8 DEF UrgencyFlush, FlushStart, workerVars, stopVars
  <2> HIDE DEF w
  <2>3. Append(queue, w) \in Seq(Items) /\ StopAt(Append(queue, w)) = StopAt(queue)
    BY <1>0, <2>1, ClearOfAppend, AppendProperties
  <2>4. QED
    BY <1>0, <2>2, <2>3, SentinelFlushed
<1>9. CASE StopCall
  <2>1. queue' = Append(queue, Stop) /\ stopper = "running" /\ stopper' = "waiting" /\ UNCHANGED <<wpc, batch, closing>>
    BY <1>9 DEF StopCall, workerVars
  <2>2. StopAt(queue) = {} /\ ~closing /\ wpc # "exited"
    BY <2>1 DEF SentinelSound
  <2>3. StopAt(queue') = {Len(queue) + 1}
    BY <1>0, <2>1, <2>2, WriteType, ClearOfAppend
  <2>4. QED
    BY <2>1, <2>2, <2>3 DEF SentinelSound
<1>10. CASE StopReturn
  BY <1>10 DEF StopReturn, workerVars, SentinelSound
<1>11. CASE Restart
  <2>1. StopAt(queue') = {}
    BY <1>11 DEF Restart, StopAt
  <2>2. QED
    BY <1>11, <2>1 DEF Restart, SentinelSound
<1>12. CASE \/ \E f \in Flushers : FlushStep(f)
            \/ OtherCommit \/ OtherRollback
            \/ \E c \in Syncers : SyncCall(c) \/ SyncReturn(c)
            \/ UNCHANGED vars
  <2>1. UNCHANGED <<queue, stopper, closing, wpc, batch>>
    BY <1>12 DEF FlushStep, FlushExec, FlushCommit, FlushCommitFails, FlushRaises,
       FlushDone, OtherCommit, OtherRollback, SyncCall, SyncReturn, workerVars, stopVars, vars
  <2>2. QED
    BY <2>1 DEF SentinelSound
<1>13. QED
  BY <1>1, <1>2, <1>3, <1>4, <1>5, <1>6, <1>7, <1>8, <1>9, <1>10, <1>11, <1>12 DEF Next, Worker

-----------------------------------------------------------------------------
(* The kinds of step, by what they do to the batches.                      *)
Calm ==
  /\ UNCHANGED <<batch, wpos, fbatch, fpos, fpc, goal>>
  /\ Settled \subseteq Settled' /\ Sealed \subseteq Sealed'
Again ==
  /\ UNCHANGED <<batch, fbatch, fpos, fpc, goal>> /\ wpos' = 1
  /\ Settled \subseteq Settled' \union From(batch, 1) /\ Sealed \subseteq Sealed'
Starts(f) ==
  /\ UNCHANGED <<batch, wpos>> /\ Settled \subseteq Settled' /\ Sealed \subseteq Sealed'
  /\ fpc[f] = "idle" /\ stopper' = stopper
  /\ \E q \in Seq(Items) : \E n, w :
       FlushStart(f, q, n, w) /\ (w # NoWrite => w \in Writes /\ q = Append(queue, w))
Finishes(f) ==
  /\ EndFlush(f) /\ UNCHANGED <<batch, wpos>> /\ Sealed \subseteq Sealed'
  /\ Settled \union From(fbatch[f], fpos[f]) \subseteq Settled'
  /\ fpc[f] = "done" \/ faults' = faults + 1

LEMMA Kinds ==
  ASSUME PipeInv, [Next]_vars
  PROVE  \/ Calm \/ Again \/ WorkerTake \/ WorkerExec \/ WorkerCommit \/ Restart
         \/ \E f \in Flushers : Starts(f) \/ FlushExec(f) \/ FlushCommit(f) \/ Finishes(f)
<1>0. TypeOK /\ FlushBatches /\ queue \in Seq(Items)
  BY DEF PipeInv, TypeOK, Items
<1>1. CASE \/ \E s \in Sessions : Observe(s) \/ Requeue(s)
           \/ WorkerTimeout \/ WorkerTakeStop \/ StopCall \/ StopReturn
           \/ \E c \in Syncers : SyncCall(c) \/ SyncReturn(c)
           \/ UNCHANGED vars
  <2>1. UNCHANGED <<batch, wpos, fbatch, fpos, fpc, goal, dirty, committed, lost, undone>>
    BY <1>1 DEF Observe, Requeue, WorkerTimeout, WorkerTakeStop, StopCall, StopReturn, SyncCall,
       SyncReturn, vars, workerVars, flushVars, dbVars
  <2>2. QED
    BY <2>1 DEF Calm, Settled, Sealed
<1>2. CASE OtherCommit \/ OtherRollback
  <2>1. UNCHANGED <<batch, wpos, fbatch, fpos, fpc, goal>>
    BY <1>2 DEF OtherCommit, OtherRollback, workerVars, flushVars
  <2>2. Settled \subseteq Settled' /\ Sealed \subseteq Sealed'
    BY <1>2 DEF OtherCommit, OtherRollback, Commit, Settled, Sealed
  <2>3. QED
    BY <2>1, <2>2 DEF Calm
<1>3. CASE WorkerCommitFails \/ WorkerRaises
  <2>1. UNCHANGED <<batch, fbatch, fpos, fpc, goal>> /\ wpos' = 1
    BY <1>3 DEF WorkerCommitFails, WorkerRaises, flushVars
  <2>2. Settled \subseteq Settled' \union From(batch, 1) /\ Sealed \subseteq Sealed'
    BY <1>3 DEF WorkerCommitFails, WorkerRaises, CommitFails, Raise, Settled, Sealed
  <2>3. QED
    BY <2>1, <2>2 DEF Again
<1>4. ASSUME NEW f \in Flushers, Flush(f) PROVE Starts(f)
  <2>1. /\ UNCHANGED <<batch, wpos, dirty, committed, lost, undone>>
        /\ fpc[f] = "idle" /\ FlushStart(f, queue, unfinished, NoWrite)
        /\ stopper' = stopper
    BY <1>4 DEF Flush, workerVars, dbVars, stopVars
  <2>2. QED
    BY <1>0, <2>1 DEF Starts, Settled, Sealed
<1>5. ASSUME NEW f \in Flushers, NEW s \in Sessions, UrgencyFlush(f, s) PROVE Starts(f)
  <2> DEFINE w == [sid |-> s, ver |-> ram[s]]
  <2>1. w \in Items /\ w \in Writes
    BY <1>0, <1>5, WriteType DEF UrgencyFlush, TypeOK
  <2>2. /\ UNCHANGED <<batch, wpos, dirty, committed, lost, undone>>
        /\ fpc[f] = "idle" /\ FlushStart(f, Append(queue, w), unfinished + 1, w)
        /\ stopper' = stopper
    BY <1>5 DEF UrgencyFlush, workerVars, dbVars, stopVars
  <2> HIDE DEF w
  <2>3. Append(queue, w) \in Seq(Items)
    BY <1>0, <2>1, AppendProperties
  <2>4. QED
    BY <2>1, <2>2, <2>3 DEF Starts, Settled, Sealed
<1>6. ASSUME NEW f \in Flushers, FlushCommitFails(f) \/ FlushRaises(f) \/ FlushDone(f) PROVE Finishes(f)
  <2>1. EndFlush(f) /\ UNCHANGED <<batch, wpos>> /\ (fpc[f] = "done" \/ faults' = faults + 1)
    BY <1>6 DEF FlushCommitFails, FlushRaises, FlushDone, CommitFails, Raise, workerVars
  <2>2. CASE FlushRaises(f)
    <3>1. Settled \union From(fbatch[f], fpos[f]) \subseteq Settled' /\ Sealed \subseteq Sealed'
      BY <2>2 DEF FlushRaises, Raise, Settled, Sealed
    <3>2. QED
      BY <2>1, <3>1 DEF Finishes
  <2>3. CASE FlushCommitFails(f) \/ FlushDone(f)
    <3>1. fpos[f] = Len(fbatch[f]) + 1
      BY <1>0, <2>3 DEF FlushCommitFails, FlushDone, FlushBatches
    <3>2. From(fbatch[f], fpos[f]) = {}
      BY <1>0, <3>1, FromEnd DEF TypeOK
    <3>3. Settled \subseteq Settled' /\ Sealed \subseteq Sealed'
      BY <2>3 DEF FlushCommitFails, FlushDone, CommitFails, dbVars, Settled, Sealed
    <3>4. QED
      BY <2>1, <3>2, <3>3 DEF Finishes
  <2>4. QED
    BY <1>6, <2>2, <2>3
<1>7. QED
  BY <1>1, <1>2, <1>3, <1>4, <1>5, <1>6 DEF Next, Worker, FlushStep

(* What each kind of step does to the sets of writes the batches hold.     *)
LEMMA Takes ==
  ASSUME PipeInv, WorkerTake
  PROVE  /\ Head(queue) \in Writes
         /\ From(batch', 1) = From(batch, 1) \union {Head(queue)}
         /\ From(batch', wpos') = From(batch, wpos) \union {Head(queue)}
         /\ UNCHANGED <<fbatch, fpos, fpc, goal>> /\ Settled' = Settled /\ Sealed' = Sealed
<1>1. /\ Head(queue) \in Writes /\ batch \in Seq(Writes) /\ wpos \in 1..(Len(batch) + 1)
      /\ batch' = Append(batch, Head(queue)) /\ wpos' = wpos
  BY HeadOfQueue DEF PipeInv, WorkerTake, TypeOK, Items
<1>2. 1 \in 1..(Len(batch) + 1)
  BY <1>1, LenProperties
<1>3. UNCHANGED <<fbatch, fpos, fpc, goal, dirty, committed, lost, undone>>
  BY DEF WorkerTake, flushVars, dbVars
<1>4. QED
  BY <1>1, <1>2, <1>3, FromAppend DEF Settled, Sealed

LEMMA Executes ==
  ASSUME PipeInv, WorkerExec
  PROVE  /\ batch' = batch /\ From(batch, wpos) \subseteq From(batch, wpos') \union Settled'
         /\ From(batch, wpos') \subseteq From(batch, wpos)
         /\ UNCHANGED <<fbatch, fpos, fpc, goal>>
         /\ Settled \subseteq Settled' /\ Sealed \subseteq Sealed'
<1>1. batch \in Seq(Writes) /\ wpos \in 1..Len(batch)
  BY LenProperties DEF PipeInv, WorkerExec, TypeOK
<1>2. From(batch, wpos) = {batch[wpos]} \union From(batch, wpos + 1)
  BY <1>1, FromStep
<1>3. Settled \union {batch[wpos]} \subseteq Settled'
  BY ExecKeeps DEF WorkerExec
<1>4. UNCHANGED <<batch, fbatch, fpos, fpc, goal>> /\ wpos' = wpos + 1
  BY DEF WorkerExec, flushVars
<1>5. Sealed \subseteq Sealed'
  BY DEF WorkerExec, ExecUpsert, Raise, Sealed
<1>6. QED
  BY <1>2, <1>3, <1>4, <1>5

LEMMA Commits ==
  ASSUME PipeInv, WorkerCommit
  PROVE  /\ From(batch, wpos) = {} /\ From(batch', 1) = {} /\ From(batch', wpos') = {}
         /\ UNCHANGED <<fbatch, fpos, fpc, goal>>
         /\ Settled \subseteq Settled' /\ Settled \subseteq Sealed'
<1>1. From(batch, wpos) = {}
  BY FromEnd DEF PipeInv, WorkerCommit, TypeOK
<1>2. batch' = <<>> /\ wpos' = 1 /\ UNCHANGED <<fbatch, fpos, fpc, goal>>
  BY DEF WorkerCommit, flushVars
<1>3. Settled \subseteq Settled' /\ Settled \subseteq Sealed'
  BY DEF WorkerCommit, Commit, Settled, Sealed
<1>4. QED
  BY <1>1, <1>2, <1>3, FromEmpty

LEMMA StartsIs ==
  ASSUME PipeInv, NEW f \in Flushers, Starts(f)
  PROVE  /\ From(fbatch[f], 1) = {} /\ From(fbatch[f], fpos[f]) = {}
         /\ fpos'[f] = 1 /\ fpc[f] = "idle"
         /\ \A g \in Flushers \ {f} :
              fbatch'[g] = fbatch[g] /\ fpos'[g] = fpos[g] /\ fpc'[g] = fpc[g] /\ goal'[g] = goal[g]
<1>1. fpc[f] = "idle" /\ fbatch[f] = <<>> /\ fpos[f] \in Nat \ {0}
  BY DEF PipeInv, TypeOK, FlushBatches, Starts
<1>2. PICK q, n, w : FlushStart(f, q, n, w)
  BY DEF Starts
<1>3. /\ fpos'[f] = 1
      /\ \A g \in Flushers \ {f} :
           fbatch'[g] = fbatch[g] /\ fpos'[g] = fpos[g] /\ fpc'[g] = fpc[g] /\ goal'[g] = goal[g]
  BY <1>2 DEF FlushStart, PipeInv, TypeOK
<1>4. QED
  BY <1>1, <1>3, FromEmpty

LEMMA FlushExecutes ==
  ASSUME PipeInv, NEW f \in Flushers, FlushExec(f)
  PROVE  /\ From(fbatch[f], fpos[f]) \subseteq From(fbatch[f], fpos'[f]) \union Settled'
         /\ From(fbatch[f], fpos'[f]) \subseteq From(fbatch[f], fpos[f])
         /\ UNCHANGED <<batch, wpos, fbatch, fpc, goal>>
         /\ \A g \in Flushers \ {f} : fpos'[g] = fpos[g]
         /\ Settled \subseteq Settled' /\ Sealed \subseteq Sealed'
<1>1. fbatch[f] \in Seq(Writes) /\ fpos[f] \in 1..Len(fbatch[f])
  BY LenProperties DEF PipeInv, FlushExec, TypeOK
<1>2. From(fbatch[f], fpos[f]) = {fbatch[f][fpos[f]]} \union From(fbatch[f], fpos[f] + 1)
  BY <1>1, FromStep
<1>3. Settled \union {fbatch[f][fpos[f]]} \subseteq Settled'
  BY ExecKeeps DEF FlushExec
<1>4. /\ UNCHANGED <<batch, wpos, fbatch, fpc, goal>> /\ fpos'[f] = fpos[f] + 1
      /\ \A g \in Flushers \ {f} : fpos'[g] = fpos[g]
  BY DEF FlushExec, workerVars, PipeInv, TypeOK
<1>5. Sealed \subseteq Sealed'
  BY DEF FlushExec, ExecUpsert, Raise, Sealed
<1>6. QED
  BY <1>2, <1>3, <1>4, <1>5

LEMMA FlushCommits ==
  ASSUME PipeInv, NEW f \in Flushers, FlushCommit(f)
  PROVE  /\ From(fbatch[f], fpos[f]) = {} /\ fpc[f] = "exec" /\ fpc'[f] = "done"
         /\ UNCHANGED <<batch, wpos, fbatch, fpos, goal>>
         /\ \A g \in Flushers \ {f} : fpc'[g] = fpc[g]
         /\ Settled \subseteq Settled' /\ Settled \subseteq Sealed'
<1>1. From(fbatch[f], fpos[f]) = {}
  BY FromEnd DEF PipeInv, FlushCommit, TypeOK
<1>2. /\ UNCHANGED <<batch, wpos, fbatch, fpos, goal>> /\ fpc[f] = "exec" /\ fpc'[f] = "done"
      /\ \A g \in Flushers \ {f} : fpc'[g] = fpc[g]
  BY DEF FlushCommit, workerVars, PipeInv, TypeOK
<1>3. Settled \subseteq Settled' /\ Settled \subseteq Sealed'
  BY DEF FlushCommit, Commit, Settled, Sealed
<1>4. QED
  BY <1>1, <1>2, <1>3

LEMMA FinishesIs ==
  ASSUME PipeInv, NEW f \in Flushers, Finishes(f)
  PROVE  /\ From(fbatch'[f], 1) = {} /\ From(fbatch'[f], fpos'[f]) = {} /\ fpc'[f] = "idle"
         /\ \A g \in Flushers \ {f} :
              fbatch'[g] = fbatch[g] /\ fpos'[g] = fpos[g] /\ fpc'[g] = fpc[g] /\ goal'[g] = goal[g]
<1>1. fbatch'[f] = <<>> /\ fpos'[f] = 1 /\ fpc'[f] = "idle"
  BY DEF Finishes, EndFlush, PipeInv, TypeOK
<1>2. \A g \in Flushers \ {f} :
        fbatch'[g] = fbatch[g] /\ fpos'[g] = fpos[g] /\ fpc'[g] = fpc[g] /\ goal'[g] = goal[g]
  BY DEF Finishes, EndFlush, PipeInv, TypeOK
<1>3. QED
  BY <1>1, <1>2, FromEmpty

-----------------------------------------------------------------------------
(* What is in hands stays there until it is settled.                       *)
LEMMA HandsStep ==
  ASSUME PipeInv, [Next]_vars, ~Restart, NEW w, InHands(w)
  PROVE  InHands(w)'
<1>1. CASE Calm
  BY <1>1 DEF Calm, InHands, InFlush
<1>2. CASE Again
  <2>1. From(batch, wpos) \subseteq From(batch, 1)
    BY LenProperties, FromStart DEF PipeInv, TypeOK
  <2>2. QED
    BY <1>2, <2>1 DEF Again, InHands, InFlush
<1>3. CASE WorkerTake
  BY <1>3, Takes DEF InHands, InFlush
<1>4. CASE WorkerExec
  BY <1>4, Executes DEF InHands, InFlush
<1>5. CASE WorkerCommit
  BY <1>5, Commits DEF InHands, InFlush
<1>6. ASSUME NEW f \in Flushers, Starts(f) PROVE InHands(w)'
  BY <1>6, StartsIs DEF InHands, InFlush, Starts
<1>7. ASSUME NEW f \in Flushers, FlushExec(f) PROVE InHands(w)'
  BY <1>7, FlushExecutes DEF InHands, InFlush
<1>8. ASSUME NEW f \in Flushers, FlushCommit(f) PROVE InHands(w)'
  BY <1>8, FlushCommits DEF InHands, InFlush
<1>9. ASSUME NEW f \in Flushers, Finishes(f) PROVE InHands(w)'
  BY <1>9, FinishesIs DEF InHands, InFlush, Finishes
<1>10. QED
  BY <1>1, <1>2, <1>3, <1>4, <1>5, <1>6, <1>7, <1>8, <1>9, Kinds

LEMMA ExecutedStep ==
  ASSUME PipeInv, ExecutedSound, [Next]_vars
  PROVE  ExecutedSound'
<1>1. CASE Calm
  BY <1>1 DEF Calm, ExecutedSound
<1>2. CASE Again
  BY <1>2 DEF Again, ExecutedSound
<1>3. CASE WorkerTake
  BY <1>3, Takes DEF ExecutedSound
<1>4. CASE WorkerExec
  BY <1>4, Executes DEF ExecutedSound
<1>5. CASE WorkerCommit
  BY <1>5, Commits DEF ExecutedSound
<1>6. ASSUME NEW f \in Flushers, Starts(f) PROVE ExecutedSound'
  BY <1>6, StartsIs DEF ExecutedSound, Starts
<1>7. ASSUME NEW f \in Flushers, FlushExec(f) PROVE ExecutedSound'
  BY <1>7, FlushExecutes DEF ExecutedSound
<1>8. ASSUME NEW f \in Flushers, FlushCommit(f) PROVE ExecutedSound'
  BY <1>8, FlushCommits DEF ExecutedSound
<1>9. ASSUME NEW f \in Flushers, Finishes(f) PROVE ExecutedSound'
  BY <1>9, FinishesIs DEF ExecutedSound, Finishes
<1>10. CASE Restart
  <2>1. batch' = <<>> /\ \A f \in Flushers : fbatch'[f] = <<>>
    BY <1>10 DEF Restart
  <2>2. QED
    BY <2>1, FromEmpty DEF ExecutedSound
<1>11. QED
  BY <1>1, <1>2, <1>3, <1>4, <1>5, <1>6, <1>7, <1>8, <1>9, <1>10, Kinds

(* Once stop() was called only a restart takes it back.                    *)
LEMMA StopperStep ==
  ASSUME [Next]_vars, ~Restart, stopper' = "running"
  PROVE  stopper = "running"
  BY DEF Next, Observe, Requeue, Worker, WorkerTake, WorkerTimeout, WorkerTakeStop, WorkerExec,
     WorkerCommit, WorkerCommitFails, WorkerRaises, Flush, UrgencyFlush, FlushStep, FlushExec,
     FlushCommit, FlushCommitFails, FlushRaises, FlushDone, StopCall, StopReturn, OtherCommit,
     OtherRollback, SyncCall, SyncReturn, stopVars, vars

LEMMA OwnStarts ==
  ASSUME PipeInv, SentinelSound, NEW f \in Flushers, Starts(f), goal'[f] # NoWrite, stopper' = "running"
  PROVE  goal'[f] \in From(fbatch'[f], 1) /\ fpc'[f] = "exec"
<1>0. TypeOK /\ queue \in Seq(Items)
  BY DEF PipeInv, TypeOK, Items
<1>a. PICK q \in Seq(Items) : \E n, w :
        FlushStart(f, q, n, w) /\ (w # NoWrite => w \in Writes /\ q = Append(queue, w))
  BY DEF Starts
<1>1. PICK n, w : FlushStart(f, q, n, w) /\ (w # NoWrite => w \in Writes /\ q = Append(queue, w))
  BY <1>a
<1>2. goal'[f] = w /\ fbatch'[f] = Drained(q)
  BY <1>0, <1>1 DEF FlushStart, TypeOK
<1>3. w \in Writes /\ w \in Items /\ w # Stop /\ q = Append(queue, w)
  BY <1>1, <1>2, WriteType
<1>4. StopAt(queue) = {}
  BY DEF Starts, SentinelSound
<1>5. Clear(q, w)
  BY <1>0, <1>3, <1>4, ClearOfAppend
<1>6. w \in From(Drained(q), 1)
  BY <1>5, DrainedIsClear
<1>7. Drained(q) # <<>>
  BY <1>6, FromEmpty
<1>8. fpc'[f] = "exec"
  BY <1>0, <1>1, <1>7 DEF FlushStart, TypeOK
<1>9. QED
  BY <1>2, <1>6, <1>8

LEMMA OwnStep ==
  ASSUME PipeInv, SentinelSound, OwnSound, [Next]_vars
  PROVE  OwnSound'
<1>0. SUFFICES ASSUME ~Restart, NEW g \in Flushers, fpc'[g] # "idle", goal'[g] # NoWrite, stopper' = "running"
               PROVE  goal'[g] \in From(fbatch'[g], 1)
  <2>1. CASE Restart
    BY <2>1 DEF Restart, OwnSound
  <2>2. QED
    BY <2>1 DEF OwnSound
<1>1. stopper = "running"
  BY <1>0, StopperStep
<1>2. CASE Calm \/ Again \/ WorkerTake \/ WorkerExec \/ WorkerCommit
  <2>1. UNCHANGED <<fbatch, fpc, goal>>
    BY <1>2, Takes, Executes, Commits DEF Calm, Again
  <2>2. QED
    BY <1>0, <1>1, <2>1 DEF OwnSound
<1>3. ASSUME NEW f \in Flushers, Starts(f) PROVE goal'[g] \in From(fbatch'[g], 1)
  <2>1. CASE g = f
    BY <1>0, <1>3, <2>1, OwnStarts
  <2>2. CASE g # f
    BY <1>0, <1>1, <1>3, <2>2, StartsIs DEF OwnSound
  <2>3. QED
    BY <2>1, <2>2
<1>4. ASSUME NEW f \in Flushers, FlushExec(f) PROVE goal'[g] \in From(fbatch'[g], 1)
  BY <1>0, <1>1, <1>4, FlushExecutes DEF OwnSound
<1>5. ASSUME NEW f \in Flushers, FlushCommit(f) PROVE goal'[g] \in From(fbatch'[g], 1)
  <2>1. CASE g = f
    BY <1>0, <1>1, <1>5, <2>1, FlushCommits DEF OwnSound
  <2>2. CASE g # f
    BY <1>0, <1>1, <1>5, <2>2, FlushCommits DEF OwnSound
  <2>3. QED
    BY <2>1, <2>2
<1>6. ASSUME NEW f \in Flushers, Finishes(f) PROVE goal'[g] \in From(fbatch'[g], 1)
  BY <1>0, <1>1, <1>6, FinishesIs DEF OwnSound
<1>7. QED
  BY <1>0, <1>2, <1>3, <1>4, <1>5, <1>6, Kinds

LEMMA CoversStep ==
  ASSUME PipeInv, SentinelSound, ExecutedSound, OwnSound, FlushCoversOwn, [Next]_vars
  PROVE  FlushCoversOwn'
<1>0. SUFFICES ASSUME ~Restart, NEW g \in Flushers, fpc'[g] = "done", goal'[g] # NoWrite, stopper' = "running"
               PROVE  goal'[g] \in Sealed' \union From(batch', 1)
  <2>1. CASE Restart
    BY <2>1 DEF Restart, FlushCoversOwn
  <2>2. QED
    BY <2>1 DEF FlushCoversOwn, Sealed
<1>1. stopper = "running"
  BY <1>0, StopperStep
<1>a. ASSUME fpc[g] = "done", goal[g] # NoWrite PROVE goal[g] \in Sealed \union From(batch, 1)
  BY <1>1, <1>a DEF FlushCoversOwn, Sealed
<1>2. CASE Calm
  BY <1>0, <1>2, <1>a DEF Calm
<1>3. CASE Again
  BY <1>0, <1>3, <1>a DEF Again
<1>4. CASE WorkerTake
  BY <1>0, <1>4, <1>a, Takes
<1>5. CASE WorkerExec
  BY <1>0, <1>5, <1>a, Executes
<1>6. CASE WorkerCommit
  <2>1. Sealed \union From(batch, 1) \subseteq Sealed'
    BY <1>6, Commits DEF ExecutedSound, Settled, Sealed
  <2>2. QED
    BY <1>0, <1>6, <1>a, <2>1, Commits
<1>7. ASSUME NEW f \in Flushers, Starts(f) PROVE goal'[g] \in Sealed' \union From(batch', 1)
  <2>1. CASE g = f
    BY <1>0, <1>7, <2>1, OwnStarts
  <2>2. CASE g # f
    BY <1>0, <1>7, <1>a, <2>2, StartsIs DEF Starts
  <2>3. QED
    BY <2>1, <2>2
<1>8. ASSUME NEW f \in Flushers, FlushExec(f) PROVE goal'[g] \in Sealed' \union From(batch', 1)
  BY <1>0, <1>8, <1>a, FlushExecutes
<1>9. ASSUME NEW f \in Flushers, FlushCommit(f) PROVE goal'[g] \in Sealed' \union From(batch', 1)
  <2>1. CASE g = f
    <3>1. goal[f] \in From(fbatch[f], 1)
      BY <1>0, <1>1, <1>9, <2>1, FlushCommits DEF OwnSound
    <3>2. From(fbatch[f], 1) \subseteq Settled \union From(batch, 1)
      BY <1>9, FlushCommits DEF ExecutedSound
    <3>3. QED
      BY <1>9, <2>1, <3>1, <3>2, FlushCommits
  <2>2. CASE g # f
    <3>1. Sealed \subseteq Sealed'
      BY <1>9, FlushCommits DEF Settled, Sealed
    <3>2. QED
      BY <1>0, <1>9, <1>a, <2>2, <3>1, FlushCommits
  <2>3. QED
    BY <2>1, <2>2
<1>10. ASSUME NEW f \in Flushers, Finishes(f) PROVE goal'[g] \in Sealed' \union From(batch', 1)
  BY <1>0, <1>10, <1>a, FinishesIs DEF Finishes
<1>11. QED
  BY <1>0, <1>2, <1>3, <1>4, <1>5, <1>6, <1>7, <1>8, <1>9, <1>10, Kinds

-----------------------------------------------------------------------------
LEMMA OwedStep ==
  ASSUME TypeOK, OwedSound, [Next]_vars
  PROVE  OwedSound'
<1>1. CASE Restart
  BY <1>1 DEF Restart, OwedSound
<1>2. ASSUME NEW c \in Syncers, SyncCall(c) \/ SyncReturn(c) PROVE OwedSound'
  BY <1>2 DEF SyncCall, SyncReturn, callerVars, OwedSound, TypeOK
<1>3. CASE ~Restart /\ ~\E c \in Syncers : SyncCall(c) \/ SyncReturn(c)
  <2>1. joinOwed' = joinOwed /\ accepted \subseteq accepted'
    BY <1>3 DEF Next, Observe, Requeue, QueueWrite, Worker, WorkerTake, WorkerTimeout, WorkerTakeStop, WorkerExec,
       WorkerCommit, WorkerCommitFails, WorkerRaises, Flush, UrgencyFlush, FlushStep, FlushExec,
       FlushCommit, FlushCommitFails, FlushRaises, FlushDone, StopCall, StopReturn, OtherCommit,
       OtherRollback, callerVars, vars
  <2>2. QED
    BY <2>1 DEF OwedSound
<1>4. QED
  BY <1>1, <1>2, <1>3

(* With nothing unfinished nothing is queued.                              *)
LEMMA Emptied == PipeInv => (unfinished = 0 => \A w \in accepted : InHands(w))
<1> SUFFICES ASSUME PipeInv, unfinished = 0, NEW w \in accepted PROVE InHands(w)
  OBVIOUS
<1>1. queue \in Seq(Items) /\ Held(w)
  BY NoSilentLossHeld DEF PipeInv, TypeOK, Items
<1>2. Len(queue) = 0
  BY <1>1, LenProperties DEF PipeInv, JoinCounterSound
<1>3. From(queue, 1) = {}
  <2>1. From(queue, Len(queue) + 1) = {}
    BY <1>1, FromEnd
  <2>2. Len(queue) + 1 = 1
    BY <1>2
  <2>3. QED
    BY <2>1, <2>2
<1>4. QED
  BY <1>1, <1>3 DEF Held, InHands

(* A join() returns only when nothing is unfinished.                       *)
LEMMA JoinerStep ==
  ASSUME TypeOK, [Next]_vars, NEW c \in Syncers, joiner'[c] = "drained"
  PROVE  \/ unfinished' = 0
         \/ ~Restart /\ joiner[c] = "drained" /\ joinOwed'[c] = joinOwed[c]
<1>1. ASSUME NEW n, SetUnfinished(n), joinOwed' = joinOwed, ~Restart
      PROVE  unfinished' = 0 \/ (joiner[c] = "drained" /\ joinOwed'[c] = joinOwed[c])
  BY <1>1 DEF SetUnfinished
<1>2. CASE Restart
  BY <1>2 DEF Restart
<1>3. ASSUME ~Restart, NEW d \in Syncers, SyncCall(d) \/ SyncReturn(d)
      PROVE  unfinished' = 0 \/ (joiner[c] = "drained" /\ joinOwed'[c] = joinOwed[c])
  BY <1>3 DEF SyncCall, SyncReturn, TypeOK
<1>4. ASSUME ~Restart, joiner' = joiner /\ joinOwed' = joinOwed
      PROVE  unfinished' = 0 \/ (joiner[c] = "drained" /\ joinOwed'[c] = joinOwed[c])
  BY <1>4
<1>5. ASSUME ~Restart, ~\E d \in Syncers : SyncCall(d) \/ SyncReturn(d)
      PROVE  joinOwed' = joinOwed /\ (joiner' = joiner \/ \E n : SetUnfinished(n))
  <2>1. CASE \/ \E s \in Sessions : Observe(s) \/ Requeue(s)
             \/ Worker \/ StopCall \/ StopReturn \/ OtherCommit \/ OtherRollback \/ UNCHANGED vars
    BY <2>1 DEF Observe, Requeue, QueueWrite, Worker, WorkerTake, WorkerTimeout, WorkerTakeStop, WorkerExec,
       WorkerCommit, WorkerCommitFails, WorkerRaises, StopCall, StopReturn, OtherCommit, OtherRollback, vars
  <2>2. CASE \E f \in Flushers : \/ Flush(f) \/ FlushStep(f)
                                \/ \E s \in Sessions : UrgencyFlush(f, s)
    BY <2>2 DEF Flush, UrgencyFlush, FlushStart, FlushStep, FlushExec, FlushCommit, FlushCommitFails,
       FlushRaises, FlushDone
  <2>3. QED
    BY <1>5, <2>1, <2>2 DEF Next
<1>6. QED
  BY <1>1, <1>2, <1>3, <1>4, <1>5

LEMMA EmptiedNext == (PipeInv => (unfinished = 0 => \A w \in accepted : InHands(w)))'
  BY Emptied, PTL

LEMMA SyncStep ==
  ASSUME PipeInv, PipeInv', OwedSound, SyncSound, [Next]_vars
  PROVE  SyncSound'
<1>1. SUFFICES ASSUME NEW c \in Syncers, joiner'[c] = "drained", NEW w \in joinOwed'[c]
               PROVE  InHands(w)'
  BY DEF SyncSound
<1>2. CASE unfinished' = 0
  <2>1. \A x \in accepted' : InHands(x)'
    BY <1>2, EmptiedNext
  <2>2. w \in accepted'
    BY OwedStep DEF PipeInv, OwedSound
  <2>3. QED
    BY <2>1, <2>2
<1>3. CASE joiner[c] = "drained" /\ joinOwed'[c] = joinOwed[c] /\ ~Restart
  BY <1>1, <1>3, HandsStep DEF SyncSound
<1>4. QED
  BY <1>1, <1>2, <1>3, JoinerStep DEF PipeInv

-----------------------------------------------------------------------------
(* Where a write is that no fault of SQLite has taken: see FaultlessSound. *)
Kept(w) == w \in committed \/ w \in From(batch, 1) \/ Flushing(w)

LEMMA FaultsStep ==
  ASSUME TypeOK, [Next]_vars
  PROVE  /\ faults' = faults \/ faults' = faults + 1
         /\ faults' = faults => UNCHANGED <<lost, undone>>
         /\ committed \subseteq committed'
<1>1. CASE ~(WorkerExec \/ \E f \in Flushers : FlushExec(f))
  <2>1. \/ UNCHANGED <<faults, lost, undone, committed>>
        \/ Commit \/ (\E r : CommitFails(r)) \/ (\E g : Raise(g)) \/ OtherRollback
    BY <1>1 DEF Next, Observe, Requeue, Worker, WorkerTake, WorkerTimeout, WorkerTakeStop,
       WorkerCommit, WorkerCommitFails, WorkerRaises, Flush, UrgencyFlush, FlushStep,
       FlushCommit, FlushCommitFails, FlushRaises, FlushDone, StopCall, StopReturn, OtherCommit,
       SyncCall, SyncReturn, Restart, dbVars, vars
  <2>2. faults \in Nat
    BY DEF TypeOK
  <2>3. QED
    BY <2>1, <2>2 DEF Commit, CommitFails, Raise, OtherRollback
<1>2. ASSUME NEW w, ExecUpsert(w)
      PROVE  /\ faults' = faults \/ faults' = faults + 1
             /\ faults' = faults => UNCHANGED <<lost, undone>>
             /\ committed \subseteq committed'
  BY <1>2 DEF ExecUpsert, Raise, TypeOK
<1>3. QED
  BY <1>1, <1>2 DEF WorkerExec, FlushExec

LEMMA DirtyStep ==
  ASSUME [Next]_vars, NEW w \in dirty', w \notin dirty
  PROVE  \/ WorkerExec /\ w = batch[wpos]
         \/ \E f \in Flushers : FlushExec(f) /\ w = fbatch[f][fpos[f]]
<1>1. CASE ~(WorkerExec \/ \E f \in Flushers : FlushExec(f))
  BY <1>1 DEF Next, Observe, Requeue, Worker, WorkerTake, WorkerTimeout, WorkerTakeStop,
     WorkerCommit, WorkerCommitFails, WorkerRaises, Flush, UrgencyFlush, FlushStep,
     FlushCommit, FlushCommitFails, FlushRaises, FlushDone, StopCall, StopReturn, OtherCommit,
     OtherRollback, SyncCall, SyncReturn, Restart, Commit, CommitFails, Raise, dbVars, vars
<1>2. ASSUME NEW x, ExecUpsert(x) PROVE w = x
  BY <1>2 DEF ExecUpsert, Raise
<1>3. CASE WorkerExec
  BY <1>2, <1>3 DEF WorkerExec
<1>4. ASSUME NEW f \in Flushers, FlushExec(f) PROVE w = fbatch[f][fpos[f]]
  BY <1>2, <1>4 DEF FlushExec
<1>5. QED
  BY <1>1, <1>3, <1>4

LEMMA KeptStep ==
  ASSUME PipeInv, ExecutedSound, FaultlessSound, [Next]_vars, ~Restart, faults' = 0, faults = 0,
         NEW w, Kept(w)
  PROVE  Kept(w)'
<1>0. committed \subseteq committed' /\ lost' = {} /\ undone' = {} /\ lost = {} /\ undone = {}
  BY FaultsStep DEF PipeInv, FaultlessSound
<1>1. Settled = committed \union dirty /\ Sealed' = committed'
  BY <1>0 DEF Settled, Sealed
<1>2. CASE Calm \/ Again
  BY <1>0, <1>2 DEF Calm, Again, Kept, Flushing
<1>3. CASE WorkerTake
  BY <1>0, <1>3, Takes DEF Kept, Flushing
<1>4. CASE WorkerExec
  BY <1>0, <1>4, Executes DEF Kept, Flushing
<1>5. CASE WorkerCommit
  <2>1. From(batch, 1) \subseteq committed'
    BY <1>1, <1>5, Commits DEF ExecutedSound
  <2>2. QED
    BY <1>0, <1>5, <2>1, Commits DEF Kept, Flushing
<1>6. ASSUME NEW f \in Flushers, Starts(f) PROVE Kept(w)'
  BY <1>0, <1>6, StartsIs DEF Kept, Flushing, Starts
<1>7. ASSUME NEW f \in Flushers, FlushExec(f) PROVE Kept(w)'
  BY <1>0, <1>7, FlushExecutes DEF Kept, Flushing
<1>8. ASSUME NEW f \in Flushers, FlushCommit(f) PROVE Kept(w)'
  <2>1. From(fbatch[f], 1) \subseteq Settled \union From(batch, 1)
    BY <1>8, FlushCommits DEF ExecutedSound
  <2>2. From(fbatch[f], 1) \subseteq committed' \union From(batch', 1)
    BY <1>1, <1>8, <2>1, FlushCommits
  <2>3. QED
    BY <1>0, <1>8, <2>2, FlushCommits DEF Kept, Flushing
<1>9. ASSUME NEW f \in Flushers, Finishes(f) PROVE Kept(w)'
  <2>1. fpc[f] = "done"
    BY <1>9 DEF Finishes
  <2>2. QED
    BY <1>0, <1>9, <2>1, FinishesIs DEF Kept, Flushing, Finishes
<1>10. QED
  BY <1>2, <1>3, <1>4, <1>5, <1>6, <1>7, <1>8, <1>9, Kinds

(* What is ahead of the sentinel is taken before it is.                    *)
LEMMA AheadFlushed ==
  ASSUME PipeInv, NEW f \in Flushers, NEW q \in Seq(Items), NEW n, NEW x, FlushStart(f, q, n, x),
         NEW w, Clear(q, w)
  PROVE  Kept(w)'
<1>1. w \in From(Drained(q), 1)
  BY DrainedIsClear
<1>2. Drained(q) # <<>>
  BY <1>1, FromEmpty
<1>3. fbatch'[f] = Drained(q) /\ fpc'[f] = "exec"
  BY <1>2 DEF FlushStart, PipeInv, TypeOK
<1>4. QED
  BY <1>1, <1>3 DEF Kept, Flushing

LEMMA AheadStep ==
  ASSUME PipeInv, [Next]_vars, ~Restart, ~StopCall, NEW w, Ahead(w)
  PROVE  Kept(w)' \/ Ahead(w)'
<1>0. TypeOK /\ queue \in Seq(Items)
  BY DEF PipeInv, TypeOK, Items
<1>1. ASSUME NEW x \in Writes, queue' = Append(queue, x) PROVE Ahead(w)'
  <2>1. x \in Items /\ x # Stop
    BY WriteType
  <2>2. Clear(queue', w) /\ StopAt(queue') = StopAt(queue)
    BY <1>0, <1>1, <2>1, ClearOfAppend DEF Ahead
  <2>3. QED
    BY <2>2 DEF Ahead
<1>2. ASSUME NEW s \in Sessions, Observe(s) PROVE Ahead(w)'
  <2>1. built + 1 \in Versions
    BY <1>0, <1>2, BoundsAssumption DEF Observe, TypeOK, Versions
  <2>2. [sid |-> s, ver |-> built + 1] \in Writes
    BY <2>1, WriteType
  <2>3. QED
    BY <1>1, <1>2, <2>2 DEF Observe, QueueWrite
<1>3. ASSUME NEW s \in Sessions, Requeue(s) PROVE Ahead(w)'
  <2>1. [sid |-> s, ver |-> ram[s]] \in Writes
    BY <1>0, <1>3, WriteType DEF Requeue, TypeOK
  <2>2. QED
    BY <1>1, <1>3, <2>1 DEF Requeue, QueueWrite
<1>4. CASE WorkerTake
  <2>1. queue # <<>> /\ Head(queue) # Stop /\ queue' = Tail(queue)
    BY <1>4 DEF WorkerTake
  <2>2. w = Head(queue) \/ Clear(queue', w)
    BY <1>0, <2>1, ClearOfTail DEF Ahead
  <2>3. 1 \notin StopAt(queue)
    BY <1>0, <2>1, HeadTailProperties DEF StopAt
  <2>4. StopAt(queue') # {}
    BY <1>0, <2>1, <2>3, ClearOfTail DEF Ahead
  <2>5. QED
    BY <1>4, <2>2, <2>4, Takes DEF Ahead, Kept
<1>5. CASE WorkerTakeStop
  <2>1. queue # <<>> /\ Head(queue) = Stop
    BY <1>5 DEF WorkerTakeStop
  <2>2. QED
    BY <1>0, <2>1, ClearOfTail DEF Ahead
<1>6. ASSUME NEW f \in Flushers, Flush(f) PROVE Kept(w)'
  BY <1>0, <1>6, AheadFlushed DEF Flush, Ahead
<1>7. ASSUME NEW f \in Flushers, NEW s \in Sessions, UrgencyFlush(f, s) PROVE Kept(w)'
  <2> DEFINE x == [sid |-> s, ver |-> ram[s]]
  <2>1. x \in Items
    BY <1>0, <1>7, WriteType DEF UrgencyFlush, TypeOK
  <2>2. FlushStart(f, Append(queue, x), unfinished + 1, x)
    BY <1>7 DEF UrgencyFlush
  <2> HIDE DEF x
  <2>3. Append(queue, x) \in Seq(Items) /\ Clear(Append(queue, x), w)
    BY <1>0, <2>1, ClearOfAppend, AppendProperties DEF Ahead
  <2>4. QED
    BY <2>2, <2>3, AheadFlushed
<1>8. CASE \/ WorkerTimeout \/ WorkerExec \/ WorkerCommit \/ WorkerCommitFails \/ WorkerRaises
           \/ \E f \in Flushers : FlushStep(f)
           \/ StopReturn \/ OtherCommit \/ OtherRollback
           \/ \E c \in Syncers : SyncCall(c) \/ SyncReturn(c)
           \/ UNCHANGED vars
  <2>1. queue' = queue
    BY <1>8 DEF WorkerTimeout, WorkerExec, WorkerCommit, WorkerCommitFails, WorkerRaises, FlushStep, FlushExec,
       FlushCommit, FlushCommitFails, FlushRaises, FlushDone, StopReturn, OtherCommit, OtherRollback,
       SyncCall, SyncReturn, vars
  <2>2. QED
    BY <2>1 DEF Ahead
<1>9. QED
  BY <1>2, <1>3, <1>4, <1>5, <1>6, <1>7, <1>8 DEF Next, Worker

LEMMA StopOwedStep ==
  ASSUME [Next]_vars, ~Restart, ~StopCall
  PROVE  stopOwed' = stopOwed /\ (stopper = "running" <=> stopper' = "running")
  BY DEF Next, Observe, Requeue, Worker, WorkerTake, WorkerTimeout, WorkerTakeStop, WorkerExec,
     WorkerCommit, WorkerCommitFails, WorkerRaises, Flush, UrgencyFlush, FlushStep, FlushExec,
     FlushCommit, FlushCommitFails, FlushRaises, FlushDone, StopReturn, OtherCommit,
     OtherRollback, SyncCall, SyncReturn, stopVars, vars

LEMMA FaultlessStep ==
  ASSUME PipeInv, SentinelSound, ExecutedSound, FaultlessSound, [Next]_vars
  PROVE  FaultlessSound'
<1>0. SUFFICES ASSUME faults' = 0
               PROVE  /\ lost' = {} /\ undone' = {}
                      /\ \A w \in dirty' : Kept(w)'
                      /\ stopper' # "running" => \A w \in stopOwed' : Kept(w)' \/ Ahead(w)'
  BY DEF FaultlessSound, Kept
<1>1. faults = 0 /\ UNCHANGED <<lost, undone>>
  BY <1>0, FaultsStep DEF PipeInv, TypeOK
<1>2. lost' = {} /\ undone' = {} /\ (\A w \in dirty : Kept(w))
  BY <1>1 DEF FaultlessSound, Kept
<1>3. CASE Restart
  BY <1>2, <1>3 DEF Restart
<1>4. CASE ~Restart
  <2>1. ASSUME NEW w \in dirty' PROVE Kept(w)'
    <3>1. CASE w \in dirty
      BY <1>0, <1>1, <1>2, <1>4, <3>1, KeptStep
    <3>2. CASE WorkerExec /\ w = batch[wpos]
      <4>1. batch \in Seq(Writes) /\ wpos \in 1..Len(batch)
        BY <3>2, LenProperties DEF PipeInv, WorkerExec, TypeOK
      <4>2. w \in From(batch, 1) /\ batch' = batch
        BY <3>2, <4>1 DEF From, WorkerExec
      <4>3. QED
        BY <4>2 DEF Kept
    <3>3. ASSUME NEW f \in Flushers, FlushExec(f), w = fbatch[f][fpos[f]] PROVE Kept(w)'
      <4>1. fbatch[f] \in Seq(Writes) /\ fpos[f] \in 1..Len(fbatch[f])
        BY <3>3, LenProperties DEF PipeInv, FlushExec, TypeOK
      <4>2. w \in From(fbatch[f], 1) /\ fbatch' = fbatch /\ fpc'[f] = "exec"
        BY <3>3, <4>1 DEF From, FlushExec
      <4>3. QED
        BY <4>2 DEF Kept, Flushing
    <3>4. QED
      BY <3>1, <3>2, <3>3, DirtyStep
  <2>2. ASSUME stopper' # "running", NEW w \in stopOwed' PROVE Kept(w)' \/ Ahead(w)'
    <3>1. CASE ~StopCall
      <4>1. stopper # "running" /\ w \in stopOwed
        BY <1>4, <2>2, <3>1, StopOwedStep
      <4>2. Kept(w) \/ Ahead(w)
        BY <1>1, <4>1 DEF FaultlessSound, Kept
      <4>3. QED
        BY <1>0, <1>1, <1>4, <3>1, <4>2, KeptStep, AheadStep
    <3>2. CASE StopCall
      <4>1. /\ queue' = Append(queue, Stop) /\ w \in accepted /\ stopper = "running"
            /\ UNCHANGED <<batch, fbatch, fpc, committed>>
        BY <2>2, <3>2 DEF StopCall, workerVars, flushVars, dbVars
      <4>2. Held(w) /\ queue \in Seq(Items) /\ StopAt(queue) = {}
        BY <4>1, NoSilentLossHeld DEF PipeInv, TypeOK, Items, SentinelSound
      <4>3. CASE w \in Settled
        <5>1. Kept(w)
          BY <1>1, <1>2, <4>3 DEF Settled, Kept
        <5>2. QED
          BY <4>1, <5>1 DEF Kept, Flushing
      <4>4. CASE w \in From(queue, 1)
        <5>1. Clear(queue', w) /\ StopAt(queue') = {Len(queue) + 1}
          BY <4>1, <4>2, <4>4, WriteType, ClearOfAppend
        <5>2. QED
          BY <5>1 DEF Ahead
      <4>5. CASE w \in From(batch, wpos)
        <5>1. w \in From(batch, 1)
          BY <4>5, LenProperties, FromStart DEF PipeInv, TypeOK
        <5>2. QED
          BY <4>1, <5>1 DEF Kept
      <4>6. CASE InFlush(w)
        <5>1. PICK f \in Flushers : w \in From(fbatch[f], fpos[f])
          BY <4>6 DEF InFlush
        <5>2. fbatch[f] \in Seq(Writes) /\ fpos[f] \in Nat \ {0} /\ fpc[f] \in {"idle", "exec", "done"}
          BY DEF PipeInv, TypeOK
        <5>3. w \in From(fbatch[f], 1)
          BY <5>1, <5>2, LenProperties, FromStart
        <5>4. fpc[f] = "exec"
          BY <5>1, <5>2, FromEmpty, FromEnd DEF PipeInv, FlushBatches
        <5>5. QED
          BY <4>1, <5>3, <5>4 DEF Kept, Flushing
      <4>7. QED
        BY <4>2, <4>3, <4>4, <4>5, <4>6 DEF Held
    <3>3. QED
      BY <3>1, <3>2
  <2>3. QED
    BY <1>2, <2>1, <2>2
<1>5. QED
  BY <1>3, <1>4

-----------------------------------------------------------------------------
(* The invariant holds of every behaviour.                                 *)
LEMMA PromiseInit == Init => PromiseInv
<1> SUFFICES ASSUME Init PROVE PromiseInv
  OBVIOUS
<1>1. queue = <<>> /\ batch = <<>> /\ \A f \in Flushers : fbatch[f] = <<>>
  BY DEF Init
<1>2. StopAt(queue) = {}
  BY <1>1 DEF StopAt
<1>3. ExecutedSound
  BY <1>1, FromEmpty DEF ExecutedSound
<1>4. QED
  BY <1>2, <1>3 DEF Init, PromiseInv, SentinelSound, OwnSound, FaultlessSound, OwedSound, SyncSound,
     FlushCoversOwn

LEMMA PromiseInvariant == Spec => []PromiseInv
<1>1. PipeInv /\ PipeInv' /\ PromiseInv /\ [Next]_vars => PromiseInv'
  BY SentinelStep, ExecutedStep, OwnStep, FaultlessStep, OwedStep, SyncStep, CoversStep DEF PromiseInv, PipeInv
<1>2. QED
  BY <1>1, PromiseInit, PipeInvariant, PTL DEF Spec

(* Whoever called stop(), sync() or an urgency flush is answered as it was *)
(* promised: what the answer stands for has been tried, unless the process *)
(* died or the connection failed (stop, sync and flush in sqlite.py).      *)
THEOREM PromisesAreKept == Spec => []PromisesKept
<1>1. PipeInv /\ PromiseInv => PromisesKept
  <2> SUFFICES ASSUME PipeInv, PromiseInv PROVE PromisesKept
    OBVIOUS
  <2>1. StopDrains
    <3>1. SUFFICES ASSUME stopper = "stopped", faults = 0, NEW w \in stopOwed
                   PROVE  w \in committed \/ Flushing(w)
      BY DEF StopDrains, Flushing
    <3>2. batch = <<>> /\ StopAt(queue) = {}
      BY <3>1 DEF PromiseInv, SentinelSound
    <3>3. From(batch, 1) = {} /\ ~Ahead(w)
      BY <3>2, FromEmpty DEF Ahead
    <3>4. QED
      BY <3>1, <3>3 DEF PromiseInv, FaultlessSound
  <2>2. SyncEmptiesQueue
    BY DEF PromiseInv, SyncSound, InHands, InFlush, Settled, SyncEmptiesQueue
  <2>3. QED
    BY <2>1, <2>2 DEF PromiseInv, PromisesKept
<1>2. QED
  BY <1>1, PipeInvariant, PromiseInvariant, PTL

-----------------------------------------------------------------------------
(* The order of the writes of a session.                                   *)
(* No batch was lost or rolled back, and the process lives.                *)
Alone == lost = {} /\ undone = {} /\ restarts = 0
Batched == From(batch, 1)
Queued == From(queue, 1) \ {Stop}

(* The writes of a session stand in the order of their objects.            *)
InOrder(q) ==
  \A i, j \in DOMAIN q :
    (i < j /\ q[i] # Stop /\ q[j] # Stop /\ q[i].sid = q[j].sid) => q[i].ver <= q[j].ver

(* RAM has the newest object, queue and batch have accepted ones in order; *)
(* an accepted write is on its way or has been overtaken; and what the     *)
(* worker has executed shows in the table.                                 *)
NewestInRam ==
  /\ \A w \in accepted : w.ver <= ram[w.sid]
  /\ \A s \in Sessions : ram[s] <= built
InLine ==
  /\ Batched \union Queued \subseteq accepted
  /\ InOrder(batch) /\ InOrder(queue)
  /\ \A x \in Batched, y \in Queued : x.sid = y.sid => x.ver <= y.ver
Placed ==
  \A w \in accepted :
    \/ w \in Batched \union Queued
    \/ /\ rows[w.sid] >= w.ver /\ disk[w.sid] >= w.ver
       /\ \A x \in Batched \union Queued : x.sid = w.sid => w.ver <= x.ver
Written ==
  /\ \A i \in 1..(wpos - 1) : rows[batch[i].sid] >= batch[i].ver
  /\ dirty = {} => rows = disk

OrderInv == Alone => NewestInRam /\ InLine /\ Placed /\ Written

LEMMA InOrderAppended ==
  ASSUME NEW q \in Seq(Items), InOrder(q), NEW y \in Items,
         \A x \in From(q, 1) \ {Stop} : y # Stop /\ x.sid = y.sid => x.ver <= y.ver
  PROVE  /\ InOrder(Append(q, y)) /\ Append(q, y) \in Seq(Items)
         /\ From(Append(q, y), 1) = From(q, 1) \union {y}
<1>1. /\ Len(q) \in Nat /\ DOMAIN q = 1..Len(q)
      /\ Append(q, y) \in Seq(Items) /\ DOMAIN Append(q, y) = 1..(Len(q) + 1)
      /\ \A i \in 1..Len(q) : Append(q, y)[i] = q[i]
      /\ Append(q, y)[Len(q) + 1] = y
  BY LenProperties, AppendProperties
<1>2. 1 \in 1..(Len(q) + 1)
  BY <1>1
<1>3. From(Append(q, y), 1) = From(q, 1) \union {y}
  BY <1>2, FromAppend
<1> DEFINE p == Append(q, y)
<1>4. InOrder(p)
  <2>1. SUFFICES ASSUME NEW i \in 1..(Len(q) + 1), NEW j \in 1..(Len(q) + 1), i < j,
                        p[i] # Stop, p[j] # Stop, p[i].sid = p[j].sid
                 PROVE  p[i].ver <= p[j].ver
    BY <1>1 DEF InOrder
  <2>2. i \in 1..Len(q) /\ p[i] = q[i]
    BY <1>1, <2>1
  <2>3. CASE j \in 1..Len(q)
    BY <1>1, <2>1, <2>2, <2>3 DEF InOrder
  <2>4. CASE j = Len(q) + 1
    <3>1. p[j] = y
      BY <1>1, <2>4
    <3>2. q[i] \in From(q, 1)
      BY <2>2 DEF From
    <3>3. QED
      BY <2>1, <2>2, <3>1, <3>2
  <2>5. QED
    BY <1>1, <2>3, <2>4
<1>5. QED
  BY <1>1, <1>3, <1>4

LEMMA InOrderTail ==
  ASSUME NEW q \in Seq(Items), q # <<>>, InOrder(q)
  PROVE  /\ InOrder(Tail(q)) /\ Tail(q) \in Seq(Items) /\ Head(q) \in Items
         /\ From(q, 1) = {Head(q)} \union From(Tail(q), 1)
         /\ Head(q) # Stop => \A y \in From(Tail(q), 1) \ {Stop} :
                                Head(q).sid = y.sid => Head(q).ver <= y.ver
<1>1. /\ Len(q) \in Nat \ {0} /\ Head(q) = q[1] /\ Len(Tail(q)) = Len(q) - 1 /\ Tail(q) \in Seq(Items)
      /\ \A i \in 1..(Len(q) - 1) : Tail(q)[i] = q[i + 1]
      /\ DOMAIN q = 1..Len(q) /\ DOMAIN Tail(q) = 1..(Len(q) - 1)
  BY HeadTailProperties, LenProperties, EmptySeq
<1>2. InOrder(Tail(q))
  <2>1. SUFFICES ASSUME NEW i \in 1..(Len(q) - 1), NEW j \in 1..(Len(q) - 1), i < j,
                        q[i + 1] # Stop, q[j + 1] # Stop, q[i + 1].sid = q[j + 1].sid
                 PROVE  q[i + 1].ver <= q[j + 1].ver
    BY <1>1 DEF InOrder
  <2>2. i + 1 \in 1..Len(q) /\ j + 1 \in 1..Len(q) /\ i + 1 < j + 1
    BY <1>1, <2>1
  <2>3. QED
    BY <1>1, <2>1, <2>2 DEF InOrder
<1>3. From(q, 1) \subseteq {Head(q)} \union From(Tail(q), 1)
  BY <1>1, FromHeadTail
<1>4. ASSUME NEW i \in 1..(Len(q) - 1) PROVE Tail(q)[i] = q[i + 1] /\ i + 1 \in 1..Len(q) /\ 1 < i + 1
  BY <1>1
<1>5. {Head(q)} \union From(Tail(q), 1) \subseteq From(q, 1)
  <2>1. Head(q) \in From(q, 1)
    BY <1>1 DEF From
  <2>2. From(Tail(q), 1) \subseteq From(q, 1)
    BY <1>1, <1>4 DEF From
  <2>3. QED
    BY <2>1, <2>2
<1>6. ASSUME Head(q) # Stop, NEW y \in From(Tail(q), 1) \ {Stop}, Head(q).sid = y.sid
      PROVE  Head(q).ver <= y.ver
  <2>1. PICK i \in 1..(Len(q) - 1) : y = q[i + 1]
    BY <1>1, <1>4 DEF From
  <2>2. 1 \in 1..Len(q) /\ i + 1 \in 1..Len(q) /\ 1 < i + 1
    BY <1>1, <1>4
  <2>3. QED
    BY <1>1, <1>6, <2>1, <2>2 DEF InOrder
<1>7. Head(q) \in Items
  BY <1>1
<1>8. QED
  BY <1>1, <1>2, <1>3, <1>5, <1>6, <1>7

-----------------------------------------------------------------------------
LEMMA OrderTypes ==
  ASSUME PipeInv
  PROVE  /\ queue \in Seq(Items) /\ batch \in Seq(Writes) /\ batch \in Seq(Items)
         /\ Len(batch) \in Nat /\ wpos \in 1..(Len(batch) + 1)
         /\ accepted \subseteq Writes /\ (\A w \in Writes : w # Stop /\ w.sid \in Sessions /\ w.ver \in Nat)
         /\ Batched \subseteq Writes /\ Queued \subseteq Writes
         /\ \A s \in Sessions : ram[s] \in Nat /\ rows[s] \in Nat /\ disk[s] \in Nat
<1>1. TypeOK /\ queue \in Seq(Items) /\ batch \in Seq(Writes)
  BY DEF PipeInv, TypeOK, Items
<1>2. Len(batch) \in Nat /\ (\A i \in 1..Len(batch) : batch[i] \in Writes)
      /\ Len(queue) \in Nat /\ (\A i \in 1..Len(queue) : queue[i] \in Items)
  BY <1>1, LenProperties
<1>3. batch \in Seq(Items)
  BY <1>1, <1>2, WriteType
<1>4. \A w \in Writes : w # Stop /\ w.sid \in Sessions /\ w.ver \in Nat
  BY WriteType, BoundsAssumption DEF Writes, Versions
<1>5. Batched \subseteq Writes /\ Queued \subseteq Writes
  BY <1>2 DEF Batched, Queued, From, Items
<1>6. \A s \in Sessions : ram[s] \in Nat /\ rows[s] \in Nat /\ disk[s] \in Nat
  BY <1>1, BoundsAssumption DEF TypeOK, Versions
<1>7. QED
  BY <1>1, <1>2, <1>3, <1>4, <1>5, <1>6 DEF TypeOK

(* A write that is no older than any accepted one of its session.          *)
LEMMA Written1 ==
  ASSUME PipeInv, NewestInRam, InLine, Placed, Written, NEW w \in Writes, QueueWrite(w),
         w.ver = ram'[w.sid], \A s \in Sessions : ram[s] <= ram'[s],
         \A s \in Sessions : ram'[s] \in Nat /\ ram'[s] <= built',
         UNCHANGED <<batch, wpos, rows, disk, dirty>>
  PROVE  NewestInRam' /\ InLine' /\ Placed' /\ Written'
<1> USE OrderTypes
<1>1. queue' = Append(queue, w) /\ accepted' = accepted \union {w} /\ Batched' = Batched
  BY DEF QueueWrite, Batched
<1>2. \A x \in accepted : x.sid = w.sid => x.ver <= w.ver
  BY DEF NewestInRam
<1>3. w \in Items /\ w # Stop
  BY WriteType
<1>4. InOrder(queue') /\ Queued' = Queued \union {w}
  <2>1. \A x \in From(queue, 1) \ {Stop} : w # Stop /\ x.sid = w.sid => x.ver <= w.ver
    BY <1>2 DEF InLine, Queued
  <2>2. InOrder(queue') /\ From(queue', 1) = From(queue, 1) \union {w}
    BY <1>1, <1>3, <2>1, InOrderAppended DEF InLine
  <2>3. QED
    BY <1>3, <2>2 DEF Queued
<1>5. NewestInRam'
  <2>1. ASSUME NEW x \in accepted PROVE x.ver <= ram'[x.sid]
    <3>1. x.ver <= ram[x.sid] /\ x.sid \in Sessions /\ x.ver \in Nat
      BY DEF NewestInRam
    <3>2. ram[x.sid] \in Nat /\ ram'[x.sid] \in Nat /\ ram[x.sid] <= ram'[x.sid]
      BY <3>1
    <3>3. QED
      BY <3>1, <3>2
  <2>2. w.ver <= ram'[w.sid]
    OBVIOUS
  <2>3. QED
    BY <1>1, <2>1, <2>2 DEF NewestInRam
<1>6. InLine'
  BY <1>1, <1>2, <1>4 DEF InLine
<1>7. Placed'
  BY <1>1, <1>2, <1>4 DEF Placed
<1>8. Written'
  BY DEF Written
<1>9. QED
  BY <1>5, <1>6, <1>7, <1>8

LEMMA OrderKept ==
  ASSUME NewestInRam, InLine, Placed, Written, UNCHANGED <<accepted, ram, built, batch, wpos, rows, disk, dirty>>,
         InOrder(queue'), Queued' = Queued
  PROVE  NewestInRam' /\ InLine' /\ Placed' /\ Written'
<1>1. Batched' = Batched
  BY DEF Batched
<1>2. QED
  BY <1>1 DEF NewestInRam, InLine, Placed, Written

LEMMA OrderTakes ==
  ASSUME PipeInv, NewestInRam, InLine, Placed, Written, WorkerTake
  PROVE  NewestInRam' /\ InLine' /\ Placed' /\ Written'
<1> USE OrderTypes
<1> DEFINE h == Head(queue)
<1>1. /\ queue # <<>> /\ h # Stop /\ queue' = Tail(queue) /\ batch' = Append(batch, h)
      /\ UNCHANGED <<accepted, ram, built, wpos, rows, disk, dirty>>
  BY DEF WorkerTake, callerVars, dbVars
<1>2. /\ InOrder(queue') /\ h \in Items /\ From(queue, 1) = {h} \union From(queue', 1)
      /\ \A y \in From(queue', 1) \ {Stop} : h.sid = y.sid => h.ver <= y.ver
  BY <1>1, InOrderTail DEF InLine
<1> HIDE DEF h
<1>3. h \in Queued /\ Queued = {h} \union Queued' /\ h \in Writes
  BY <1>1, <1>2 DEF Queued, Items
<1>4. InOrder(batch') /\ Batched' = Batched \union {h}
  <2>1. \A x \in From(batch, 1) \ {Stop} : h # Stop /\ x.sid = h.sid => x.ver <= h.ver
    BY <1>3 DEF InLine, Batched
  <2>2. QED
    BY <1>1, <1>2, <2>1, InOrderAppended DEF InLine, Batched
<1>5. \A y \in Queued' : h.sid = y.sid => h.ver <= y.ver
  BY <1>2 DEF Queued
<1>6. Batched' \union Queued' = Batched \union Queued
  BY <1>3, <1>4
<1>7. NewestInRam'
  BY <1>1 DEF NewestInRam
<1>8. InLine'
  BY <1>1, <1>2, <1>3, <1>4, <1>5 DEF InLine
<1>9. Placed'
  BY <1>1, <1>6 DEF Placed
<1>10. Written'
  <2>1. \A i \in 1..Len(batch) : batch'[i] = batch[i]
    BY <1>1, <1>2, AppendProperties
  <2>2. QED
    BY <1>1, <2>1 DEF Written
<1>11. QED
  BY <1>7, <1>8, <1>9, <1>10

LEMMA OrderExecutes ==
  ASSUME PipeInv, NewestInRam, InLine, Placed, Written, WorkerExec, faults' = faults
  PROVE  NewestInRam' /\ InLine' /\ Placed' /\ Written'
<1> USE OrderTypes
<1> DEFINE w == batch[wpos]
<1>1. /\ wpos <= Len(batch) /\ wpos' = wpos + 1
      /\ rows' = [rows EXCEPT ![w.sid] = w.ver] /\ dirty' = dirty \union {w}
      /\ UNCHANGED <<accepted, ram, built, batch, queue, disk>>
  <2>1. faults \in Nat
    BY DEF PipeInv, TypeOK
  <2>2. QED
    BY <2>1 DEF WorkerExec, ExecUpsert, Raise, callerVars
<1>2. w \in Writes /\ w \in Batched
  BY <1>1 DEF Batched, From
<1>3. \A i \in 1..Len(batch) : batch[i] \in Writes
  BY LenProperties
<1> HIDE DEF w
<1>4. \A s \in Sessions : rows'[s] = IF s = w.sid THEN w.ver ELSE rows[s]
  BY <1>1 DEF PipeInv, TypeOK
<1>5. Batched' = Batched /\ Queued' = Queued
  BY <1>1 DEF Batched, Queued
<1>6. NewestInRam' /\ InLine'
  BY <1>1, <1>5 DEF NewestInRam, InLine
<1>7. Placed'
  BY <1>1, <1>2, <1>4, <1>5 DEF Placed
<1>8. ASSUME NEW i \in 1..wpos PROVE rows'[batch[i].sid] >= batch[i].ver
  <2>1. i \in 1..Len(batch) /\ batch[i] \in Writes
    BY <1>1, <1>3
  <2>2. CASE batch[i].sid = w.sid
    <3>1. batch[i].ver <= w.ver
      <4>1. CASE i = wpos
        BY <2>1, <4>1 DEF w
      <4>2. CASE i < wpos
        <5>1. i \in DOMAIN batch /\ wpos \in DOMAIN batch
          BY <1>1, <2>1, LenProperties
        <5>2. batch[i] # Stop /\ batch[wpos] # Stop
          BY <1>2, <2>1 DEF w
        <5>3. QED
          BY <2>2, <4>2, <5>1, <5>2 DEF InLine, InOrder, w
      <4>3. QED
        BY <4>1, <4>2
    <3>2. QED
      BY <1>2, <1>4, <2>1, <2>2, <3>1
  <2>3. CASE batch[i].sid # w.sid
    <3>1. i \in 1..(wpos - 1)
      BY <2>3 DEF w
    <3>2. QED
      BY <1>4, <2>1, <2>3, <3>1 DEF Written
  <2>4. QED
    BY <2>2, <2>3
<1>9. Written'
  <2>1. wpos' - 1 = wpos /\ dirty' # {}
    BY <1>1
  <2>2. QED
    BY <1>1, <1>8, <2>1 DEF Written
<1>10. QED
  BY <1>6, <1>7, <1>9

LEMMA OrderCommits ==
  ASSUME PipeInv, NewestInRam, InLine, Placed, Written, WorkerCommit
  PROVE  NewestInRam' /\ InLine' /\ Placed' /\ Written'
<1> USE OrderTypes
<1>1. /\ wpos = Len(batch) + 1 /\ batch' = <<>> /\ wpos' = 1
      /\ disk' = rows /\ rows' = rows /\ dirty' = {}
      /\ UNCHANGED <<accepted, ram, built, queue>>
  BY DEF WorkerCommit, Commit, callerVars
<1>2. Batched' = {} /\ Queued' = Queued
  BY <1>1, FromEmpty DEF Batched, Queued
<1>3. \A w \in Batched : rows[w.sid] >= w.ver
  BY <1>1 DEF Written, Batched, From
<1>4. NewestInRam'
  BY <1>1 DEF NewestInRam
<1>5. InLine'
  <2>1. InOrder(batch')
    BY <1>1 DEF InOrder
  <2>2. QED
    BY <1>1, <1>2, <2>1 DEF InLine
<1>6. Placed'
  BY <1>1, <1>2, <1>3 DEF Placed, InLine
<1>7. Written'
  BY <1>1 DEF Written
<1>8. QED
  BY <1>4, <1>5, <1>6, <1>7

(* The rows go back to the disk or stay, and so does the position.         *)
LEMMA OrderUndone ==
  ASSUME PipeInv, NewestInRam, InLine, Placed, Written,
         UNCHANGED <<accepted, ram, built, batch, queue, disk>>, wpos' = 1,
         rows' = disk \/ UNCHANGED <<rows, dirty>>
  PROVE  NewestInRam' /\ InLine' /\ Placed' /\ Written'
<1> USE OrderTypes
<1>1. Batched' = Batched /\ Queued' = Queued
  BY DEF Batched, Queued
<1>2. NewestInRam' /\ InLine'
  BY <1>1 DEF NewestInRam, InLine
<1>3. Placed'
  BY <1>1 DEF Placed
<1>4. Written'
  BY DEF Written
<1>5. QED
  BY <1>2, <1>3, <1>4

LEMMA AloneStep ==
  ASSUME PipeInv, [Next]_vars, Alone'
  PROVE  Alone /\ ~Restart
<1>1. faults \in Nat /\ restarts \in Nat
  BY DEF PipeInv, TypeOK
<1>2. ~Restart
  BY <1>1 DEF Alone, Restart
<1>3. restarts' = restarts
  BY <1>2 DEF Next, Observe, Requeue, Worker, WorkerTake, WorkerTimeout, WorkerTakeStop, WorkerExec,
     WorkerCommit, WorkerCommitFails, WorkerRaises, Flush, UrgencyFlush, FlushStep, FlushExec,
     FlushCommit, FlushCommitFails, FlushRaises, FlushDone, StopCall, StopReturn, OtherCommit,
     OtherRollback, SyncCall, SyncReturn, vars
<1>4. lost \subseteq lost' /\ undone \subseteq undone'
  <2>1. \/ UNCHANGED <<lost, undone>>
        \/ Commit \/ (\E r : CommitFails(r)) \/ (\E g : Raise(g)) \/ OtherRollback
        \/ (\E w : ExecUpsert(w))
    BY <1>2 DEF Next, Observe, Requeue, Worker, WorkerTake, WorkerTimeout, WorkerTakeStop, WorkerExec,
       WorkerCommit, WorkerCommitFails, WorkerRaises, Flush, UrgencyFlush, FlushStep, FlushExec,
       FlushCommit, FlushCommitFails, FlushRaises, FlushDone, StopCall, StopReturn, OtherCommit,
       SyncCall, SyncReturn, dbVars, vars
  <2>2. QED
    BY <2>1 DEF Commit, CommitFails, Raise, OtherRollback, ExecUpsert
<1>5. QED
  BY <1>2, <1>3, <1>4 DEF Alone

LEMMA OrderStep ==
  ASSUME Flushers = {}, PipeInv, OrderInv, [Next]_vars
  PROVE  OrderInv'
<1>0. SUFFICES ASSUME Alone' PROVE NewestInRam' /\ InLine' /\ Placed' /\ Written'
  BY DEF OrderInv
<1>1. Alone /\ ~Restart
  BY <1>0, AloneStep
<1>2. NewestInRam /\ InLine /\ Placed /\ Written
  BY <1>1 DEF OrderInv
<1>3. TypeOK /\ ram \in [Sessions -> {0} \union Versions] /\ Versions \subseteq Nat
  BY BoundsAssumption DEF PipeInv, TypeOK, Versions
<1>4. ASSUME NEW s \in Sessions, Observe(s) PROVE NewestInRam' /\ InLine' /\ Placed' /\ Written'
  <2> DEFINE w == [sid |-> s, ver |-> built + 1]
  <2>1. built + 1 \in Versions
    BY <1>3, <1>4, BoundsAssumption DEF Observe, TypeOK, Versions
  <2>2. w \in Writes /\ w.sid = s /\ w.ver = built + 1
    BY <2>1, WriteType
  <2>3. QueueWrite(w) /\ ram' = [ram EXCEPT ![s] = built + 1]
        /\ UNCHANGED <<batch, wpos, rows, disk, dirty>>
    BY <1>4 DEF Observe, workerVars, dbVars
  <2>4. ram'[s] = built + 1 /\ (\A t \in Sessions : t # s => ram'[t] = ram[t]) /\ built \in Nat /\ built' = built + 1
    BY <1>3, <1>4, <2>3 DEF Observe, TypeOK
  <2>5. ASSUME NEW t \in Sessions PROVE ram[t] <= ram'[t] /\ ram'[t] \in Nat /\ ram'[t] <= built'
    <3>1. ram[t] \in Nat /\ ram[t] <= built
      BY <1>2, OrderTypes DEF NewestInRam
    <3>2. CASE t = s
      BY <2>4, <3>1, <3>2
    <3>3. CASE t # s
      BY <2>4, <3>1, <3>3
    <3>4. QED
      BY <3>2, <3>3
  <2> HIDE DEF w
  <2>6. QED
    BY <1>2, <2>2, <2>3, <2>4, <2>5, Written1
<1>5. ASSUME NEW s \in Sessions, Requeue(s) PROVE NewestInRam' /\ InLine' /\ Placed' /\ Written'
  <2> DEFINE w == [sid |-> s, ver |-> ram[s]]
  <2>1. w \in Writes /\ w.sid = s /\ w.ver = ram[s]
    BY <1>3, <1>5, WriteType DEF Requeue
  <2>2. QueueWrite(w) /\ UNCHANGED <<ram, built, batch, wpos, rows, disk, dirty>>
    BY <1>5 DEF Requeue, workerVars, dbVars
  <2> HIDE DEF w
  <2>3. ASSUME NEW t \in Sessions PROVE ram[t] <= ram'[t] /\ ram'[t] \in Nat /\ ram'[t] <= built'
    <3>1. ram[t] \in Nat /\ ram[t] <= built
      BY <1>2, OrderTypes DEF NewestInRam
    <3>2. ram'[t] = ram[t] /\ built' = built
      BY <2>2
    <3>3. QED
      BY <3>1, <3>2
  <2> w.ver = ram'[w.sid]
    BY <2>1, <2>2
  <2>4. QED
    BY <1>2, <2>1, <2>2, <2>3, Written1
<1>6. CASE WorkerTake
  BY <1>2, <1>6, OrderTakes
<1>7. CASE WorkerTakeStop
  <2>1. /\ queue # <<>> /\ Head(queue) = Stop /\ queue' = Tail(queue)
        /\ UNCHANGED <<accepted, ram, built, batch, wpos, rows, disk, dirty>>
    BY <1>7 DEF WorkerTakeStop, callerVars, dbVars
  <2> queue \in Seq(Items) /\ InOrder(queue)
    BY <1>2, OrderTypes DEF InLine
  <2>2. InOrder(queue') /\ From(queue, 1) = {Stop} \union From(queue', 1)
    BY <2>1, InOrderTail
  <2>3. Queued' = Queued
    BY <2>2 DEF Queued
  <2>4. QED
    BY <1>2, <2>1, <2>2, <2>3, OrderKept
<1>8. CASE WorkerExec
  <2>1. faults' = faults
    <3>1. CASE Raise({batch[wpos]})
      BY <1>0, <3>1 DEF Raise, Alone
    <3>2. QED
      BY <1>8, <3>1 DEF WorkerExec, ExecUpsert
  <2>2. QED
    BY <1>2, <1>8, <2>1, OrderExecutes
<1>9. CASE WorkerCommit
  BY <1>2, <1>9, OrderCommits
<1>10. CASE WorkerCommitFails \/ WorkerRaises
  <2>1. /\ UNCHANGED <<accepted, ram, built, batch, queue, disk>> /\ wpos' = 1
        /\ rows' = disk \/ UNCHANGED <<rows, dirty>>
    BY <1>10 DEF WorkerCommitFails, WorkerRaises, CommitFails, Raise, callerVars
  <2>2. QED
    BY <1>2, <2>1, OrderUndone
<1>11. CASE StopCall
  <2>1. /\ queue' = Append(queue, Stop)
        /\ UNCHANGED <<accepted, ram, built, batch, wpos, rows, disk, dirty>>
    BY <1>11 DEF StopCall, workerVars, callerVars, dbVars
  <2>2. Stop \in Items
    BY WriteType
  <2> queue \in Seq(Items) /\ InOrder(queue)
    BY <1>2, OrderTypes DEF InLine
  <2> \A x \in From(queue, 1) \ {Stop} : Stop # Stop /\ x.sid = Stop.sid => x.ver <= Stop.ver
    OBVIOUS
  <2>3. InOrder(queue') /\ From(queue', 1) = From(queue, 1) \union {Stop}
    BY <2>1, <2>2, InOrderAppended
  <2>4. Queued' = Queued
    BY <2>3 DEF Queued
  <2>5. QED
    BY <1>2, <2>1, <2>3, <2>4, OrderKept
<1>12. CASE OtherCommit
  <2>1. /\ UNCHANGED <<accepted, ram, built, batch, queue, wpos, rows>> /\ disk' = rows
    BY <1>12 DEF OtherCommit, Commit, callerVars, workerVars
  <2>2. Batched' = Batched /\ Queued' = Queued
    BY <2>1 DEF Batched, Queued
  <2>3. QED
    BY <1>2, <2>1, <2>2 DEF NewestInRam, InLine, Placed, Written
<1>13. CASE OtherRollback
  <2>1. dirty = {}
    BY <1>0, <1>13 DEF OtherRollback, Alone
  <2>2. UNCHANGED <<accepted, ram, built, batch, wpos, queue, rows, disk, dirty>>
    BY <1>2, <1>13, <2>1 DEF OtherRollback, Written, callerVars, workerVars
  <2>3. QED
    BY <1>2, <2>2, OrderKept DEF InLine, Queued
<1>14. CASE \/ WorkerTimeout \/ StopReturn
            \/ \E c \in Syncers : SyncCall(c) \/ SyncReturn(c)
            \/ UNCHANGED vars
  <2>1. UNCHANGED <<accepted, ram, built, batch, wpos, queue, rows, disk, dirty>>
    BY <1>14 DEF WorkerTimeout, StopReturn, SyncCall, SyncReturn, vars, callerVars, workerVars, dbVars
  <2>2. QED
    BY <1>2, <2>1, OrderKept DEF InLine, Queued
<1>15. QED
  BY <1>1, <1>4, <1>5, <1>6, <1>7, <1>8, <1>9, <1>10, <1>11, <1>12, <1>13, <1>14 DEF Next, Worker

(* While no flush() call overtakes the worker and the process lives, rows  *)
(* never go back: once queue and batch are empty, every session whose      *)
(* writes were neither lost nor undone has its newest object on disk,      *)
(* whatever failed and was tried again (_worker and _execute_batch).       *)
THEOREM NewestObjectWins ==
  ASSUME Flushers = {}
  PROVE  Spec => [](restarts = 0 => NewestWins)
<1>1. Init => OrderInv
  <2> SUFFICES ASSUME Init PROVE OrderInv
    OBVIOUS
  <2>1. From(queue, 1) = {} /\ From(batch, 1) = {} /\ InOrder(queue) /\ InOrder(batch) /\ wpos = 1
    BY FromEmpty DEF Init, InOrder
  <2>2. QED
    BY <2>1 DEF Init, OrderInv, NewestInRam, InLine, Placed, Written, Batched, Queued
<1>2. PipeInv /\ OrderInv /\ [Next]_vars => OrderInv'
  BY OrderStep
<1>3. PipeInv /\ OrderInv => (restarts = 0 => NewestWins)
  <2> SUFFICES ASSUME PipeInv, OrderInv, restarts = 0, queue = <<>>, batch = <<>>, lost \union undone = {},
                      NEW w \in accepted
               PROVE  disk[w.sid] >= w.ver
    BY DEF NewestWins
  <2>1. Alone /\ From(queue, 1) = {} /\ From(batch, 1) = {}
    BY FromEmpty DEF Alone
  <2>2. QED
    BY <2>1 DEF OrderInv, Placed, Batched, Queued
<1>4. QED
  BY <1>1, <1>2, <1>3, PipeInvariant, PTL DEF Spec
=============================================================================
