--------------------------- MODULE MemoryProofs ---------------------------
(***************************************************************************)
(* Anchors and the signals about them, contested sessions, the weights of  *)
(* the score and what is learnt of topics, for any topics, sessions,       *)
(* persist steps, configurations and numbers of passes.                    *)
(***************************************************************************)
EXTENDS Anchors, Signals, Ranking, Experience, FiniteSetTheorems, SequenceTheorems,
        WellFoundedInduction, TLAPS

-----------------------------------------------------------------------------
(* Anchors in RAM and on disk (subconscious/anchor.py, anchor_index.py).   *)
AnchorSpec == AnchorInit /\ [][AnchorNext]_anchorVars

(* A save under way.                                                       *)
Ongoing == [id : Topics, next : Topics \union {Nothing}, shape : Shapes]

(* A row has its own key; objects are never thrown away, the index names   *)
(* some of them; and what the loops hold are objects that exist.           *)
ShelfSound ==
  /\ shelf \in [Topics -> AnchorRecords \union {Nothing}]
  /\ \A a \in OnDisk : shelf[a].id = a

HeapSound ==
  /\ heap \in Seq(AnchorRecords)
  /\ index \in [Topics -> 0..Len(heap)]

HandsSound ==
  /\ observingTopic \subseteq Ongoing
  /\ dream \in [at : {"asleep", "ram", "disk"}, todo : Seq(1..Len(heap)), page : Seq(AnchorRecords), offset : Nat]
  /\ decaying \in Seq(1..Len(heap))
  /\ now \in Nat

AnchorInv == ShelfSound /\ HeapSound /\ HandsSound /\ AnchorsKept

LEMMA AnchorBounds ==
  /\ IsFiniteSet(Topics) /\ Nothing \notin Topics /\ Nothing \notin AnchorRecords
  /\ Shapes \subseteq [kind : STRING, outcome : Outcomes, multi : BOOLEAN, pin : BOOLEAN]
  /\ IndexCap \in Nat /\ MaxCandidates \in Nat /\ PageSize \in Nat /\ ResurfaceAt \in Nat /\ Bedrock \in Nat
  BY AnchorsAssumption

LEMMA LeastNumber ==
  ASSUME NEW S \in SUBSET Nat, S # {}
  PROVE  Min(S) \in S /\ \A x \in S : Min(S) <= x
<1> DEFINE Less == {ss \in Nat \X Nat : ss[1] < ss[2]}
<1>1. IsWellFoundedOn(Less, Nat)
  BY NatLessThanWellFounded, Zenon DEF OpToRel
<1>2. \A x, y \in Nat : y < x => <<y, x>> \in Less
  OBVIOUS
<1> HIDE DEF Less
<1>3. PICK x \in S : \A y \in S : ~(<<y, x>> \in Less)
  BY <1>1, WFMin
<1>4. ASSUME NEW y \in S PROVE x <= y
  <2>1. ~(y < x)
    BY <1>2, <1>3
  <2>2. QED
    BY <2>1
<1>5. QED
  BY <1>4 DEF Min

(* A finite set has an enumeration.                                        *)
LEMMA Enumerated ==
  ASSUME NEW S, IsFiniteSet(S)
  PROVE  SetToSeq(S) \in Seq(S) /\ SetToSeq(S) \in SetToSeqs(S)
<1> DEFINE n == Cardinality(S)
<1>1. n \in Nat /\ ExistsBijection(1..n, S)
  BY FS_CardinalityType
<1>2. PICK f \in [1..n -> S] : IsInjective(f)
  BY <1>1, Zenon DEF ExistsBijection, Bijection, Injection, IsInjective
<1>3. SetToSeq(S) \in [1..n -> S] /\ IsInjective(SetToSeq(S))
  BY <1>2 DEF SetToSeq
<1> DEFINE q == SetToSeq(S)
<1> HIDE DEF q, n
<1>4. q \in Seq(S)
  BY <1>1, <1>3 DEF q
<1>5. \A i, j \in 1..n : i # j => q[i] # q[j]
  BY <1>3 DEF IsInjective, q
<1>6. QED
  BY <1>3, <1>4, <1>5 DEF SetToSeqs, q, n

(* And one that goes by a number that its elements have, highest first.    *)
Falling(q, f) == \A j, k \in DOMAIN q : j < k => f[q[j]] >= f[q[k]]

LEMMA Sorted ==
  ASSUME NEW T, IsFiniteSet(T), NEW f \in [T -> Nat], NEW S \in SUBSET T
  PROVE  \E q \in SetToSeqs(S) : Falling(q, f)
<1> DEFINE Bad == {m \in Nat : \E R \in SUBSET T : Cardinality(R) = m /\ ~\E q \in SetToSeqs(R) : Falling(q, f)}
<1>0. \A R \in SUBSET T : IsFiniteSet(R) /\ Cardinality(R) \in Nat
  BY FS_Subset, FS_CardinalityType
<1>1. CASE Bad = {}
  BY <1>0, <1>1
<1>2. CASE Bad # {}
  <2> DEFINE n == Min(Bad)
  <2>1. n \in Bad /\ \A m \in Bad : n <= m
    BY <1>2, LeastNumber
  <2> HIDE DEF n
  <2>2. PICK R \in SUBSET T : Cardinality(R) = n /\ ~\E q \in SetToSeqs(R) : Falling(q, f)
    BY <2>1
  <2>3. R # {}
    <3>1. SUFFICES ASSUME R = {} PROVE FALSE
      OBVIOUS
    <3>2. Cardinality(R) = 0
      BY <3>1, FS_EmptySet
    <3>3. <<>> \in SetToSeqs(R) /\ Falling(<<>>, f)
      BY <3>2 DEF SetToSeqs, Falling
    <3>4. QED
      BY <3>3, <2>2
  <2>4. PICK a \in R : \A b \in R : f[a] <= f[b]
    <3> DEFINE V == {f[b] : b \in R}
    <3>1. V \in SUBSET Nat /\ V # {}
      BY <2>3
    <3>2. Min(V) \in V /\ \A x \in V : Min(V) <= x
      BY <3>1, LeastNumber
    <3>3. QED
      BY <3>2
  <2>5. Cardinality(R \ {a}) = n - 1 /\ n \in Nat \ {0}
    BY <1>0, <2>2, <2>3, FS_RemoveElement, FS_EmptySet
  <2>6. PICK q \in SetToSeqs(R \ {a}) : Falling(q, f)
    <3>1. n - 1 \notin Bad
      BY <2>1, <2>5
    <3>2. QED
      BY <3>1, <2>5
  <2>7. q \in [1..(n - 1) -> R \ {a}] /\ \A i, j \in 1..(n - 1) : i # j => q[i] # q[j]
    BY <2>5, <2>6 DEF SetToSeqs
  <2> DEFINE p == [i \in 1..n |-> IF i = n THEN a ELSE q[i]]
  <2>8. p \in SetToSeqs(R)
    <3>1. p \in [1..n -> R] /\ \A i, j \in 1..n : i # j => p[i] # p[j]
      BY <2>5, <2>7
    <3>2. QED
      BY <3>1, <2>2 DEF SetToSeqs
  <2>9. Falling(p, f)
    <3> SUFFICES ASSUME NEW j \in 1..n, NEW k \in 1..n, j < k PROVE f[p[j]] >= f[p[k]]
      BY DEF Falling
    <3>0. j \in 1..(n - 1) /\ p[j] = q[j] /\ q[j] \in R /\ f[q[j]] \in Nat /\ f[a] \in Nat
      BY <2>5, <2>7
    <3>1. CASE k = n
      BY <2>4, <3>0, <3>1
    <3>2. CASE k # n
      <4>1. k \in 1..(n - 1) /\ p[k] = q[k]
        BY <2>5, <3>2
      <4>2. QED
        BY <2>6, <2>7, <3>0, <4>1 DEF Falling
    <3>3. QED
      BY <3>1, <3>2
  <2>10. QED
    BY <2>2, <2>8, <2>9
<1>3. QED
  BY <1>1, <1>2

-----------------------------------------------------------------------------
LEMMA Fields ==
  ASSUME NEW o \in AnchorRecords
  PROVE  o.decay \in Nat /\ o.hits \in Nat /\ o.seen \in Nat /\ o.id \in Topics
  BY DEF AnchorRecords

LEMMA Accessed ==
  ASSUME NEW o \in AnchorRecords, NEW h \in Nat, NEW s \in Nat
  PROVE  [o EXCEPT !.hits = h, !.seen = s] \in AnchorRecords
  BY DEF AnchorRecords

LEMMA AnchorFades ==
  ASSUME NEW o \in AnchorRecords
  PROVE  [o EXCEPT !.decay = @ + 1] \in AnchorRecords /\ [o EXCEPT !.decay = @ + 1].id = o.id
  BY DEF AnchorRecords

LEMMA Settled ==
  ASSUME NEW o \in AnchorRecords, NEW v \in Outcomes
  PROVE  [o EXCEPT !.outcome = v] \in AnchorRecords /\ [o EXCEPT !.outcome = v].id = o.id
  BY DEF AnchorRecords

LEMMA TouchedIs ==
  ASSUME NEW o \in AnchorRecords, now \in Nat
  PROVE  Touched(o) \in AnchorRecords /\ Touched(o).id = o.id
<1>1. o.hits \in Nat /\ o.hits + 1 \in Nat
  BY Fields
<1> DEFINE h == IF o.hits < ResurfaceAt THEN o.hits + 1 ELSE o.hits
<1>2. h \in Nat
  BY <1>1
<1>3. Touched(o) = [o EXCEPT !.hits = h, !.seen = now]
  BY DEF Touched, AnchorRecords
<1> HIDE DEF h
<1>4. Touched(o) \in AnchorRecords
  BY <1>2, <1>3, Accessed
<1>5. QED
  BY <1>3, <1>4 DEF AnchorRecords

LEMMA NewAnchorIs ==
  ASSUME NEW t \in Ongoing, now \in Nat
  PROVE  NewAnchor(t) \in AnchorRecords /\ NewAnchor(t).id = t.id
<1>1. /\ t.id \in Topics /\ t.next \in Topics \union {Nothing}
      /\ t.shape.kind \in STRING /\ t.shape.outcome \in Outcomes
  BY AnchorBounds DEF Ongoing
<1>2. t.shape \in [kind : STRING, outcome : Outcomes, multi : BOOLEAN, pin : BOOLEAN]
  BY AnchorBounds DEF Ongoing
<1>3. t.shape.multi \in BOOLEAN /\ t.shape.pin \in BOOLEAN
  BY <1>2, Zenon
<1>4. (t.shape.multi \/ t.next # Nothing) \in BOOLEAN
  BY Zenon
<1>5. 0 \in Nat
  OBVIOUS
<1>6. NewAnchor(t) \in AnchorRecords
  BY <1>1, <1>3, <1>4, <1>5, Zenon DEF NewAnchor, AnchorRecords
<1>7. QED
  BY <1>6 DEF NewAnchor

(* A save, successful or not, leaves the shelf sound; the object's topic   *)
(* is on it or among the failed saves.                                     *)
LEMMA Saved ==
  ASSUME ShelfSound, NEW o \in AnchorRecords, Save(o)
  PROVE  /\ ShelfSound'
         /\ OnDisk \subseteq OnDisk' /\ lostSaves \subseteq lostSaves'
         /\ o.id \in OnDisk' \union lostSaves'
<1>1. o.id \in Topics /\ o # Nothing
  BY AnchorBounds DEF AnchorRecords
<1>2. CASE shelf' = [shelf EXCEPT ![o.id] = o] /\ UNCHANGED <<lostSaves, mishaps>>
  BY <1>1, <1>2 DEF ShelfSound, OnDisk
<1>3. CASE lostSaves' = lostSaves \union {o.id} /\ UNCHANGED shelf
  BY <1>1, <1>3 DEF ShelfSound, OnDisk
<1>4. QED
  BY <1>2, <1>3 DEF Save

LEMMA NotSaved ==
  ASSUME ShelfSound, UNCHANGED <<shelf, lostSaves>>
  PROVE  ShelfSound' /\ OnDisk' = OnDisk /\ lostSaves' = lostSaves
  BY DEF ShelfSound, OnDisk

LEMMA PutIs ==
  ASSUME HeapSound, NEW id \in Topics, Put(Len(heap) + 1, id)
  PROVE  index' \in [Topics -> 0..(Len(heap) + 1)]
<1>0. Len(heap) \in Nat
  BY DEF HeapSound
<1>1. index \in [Topics -> 0..(Len(heap) + 1)]
  BY <1>0 DEF HeapSound
<1>2. QED
  BY <1>0, <1>1 DEF Put, InRam

LEMMA FirstIs ==
  ASSUME NEW X, NEW list \in Seq(X), NEW D \in SUBSET DOMAIN list
  PROVE  LET k == Min(D \union {Len(list) + 1}) IN
         k \in 1..(Len(list) + 1) /\ (k <= Len(list) => k \in D)
<1>1. Len(list) \in Nat /\ DOMAIN list = 1..Len(list)
  BY LenProperties
<1>2. D \union {Len(list) + 1} \in SUBSET Nat /\ D \union {Len(list) + 1} # {}
  BY <1>1
<1>3. QED
  BY <1>1, <1>2, LeastNumber

LEMMA Longer ==
  ASSUME NEW m \in Nat, NEW n \in Nat, m <= n, NEW q \in Seq(1..m)
  PROVE  q \in Seq(1..n)
  OBVIOUS

LEMMA Rest ==
  ASSUME NEW X, NEW q \in Seq(X), NEW k \in 1..(Len(q) + 2)
  PROVE  ButFirst(q, k) \in Seq(X)
  BY SubSeqProperties, LenProperties DEF ButFirst

LEMMA Part ==
  ASSUME NEW X, NEW q \in Seq(X), NEW m \in Nat \ {0}, NEW n \in Nat
  PROVE  SubSeq(q, m, Min({n, Len(q)})) \in Seq(X)
<1>1. Len(q) \in Nat /\ \A i \in 1..Len(q) : q[i] \in X
  BY LenProperties
<1> DEFINE l == Min({n, Len(q)})
<1>2. l \in Nat /\ l <= Len(q)
  BY <1>1, LeastNumber
<1> HIDE DEF l
<1>3. l \in Int /\ m \in Int /\ \A i \in m..l : q[i] \in X
  BY <1>1, <1>2
<1>4. SubSeq(q, m, l) \in Seq(X)
  BY <1>3, SubSeqProperties
<1>5. QED
  BY <1>4 DEF l

LEMMA NewestFirstIs ==
  ASSUME ShelfSound, NEW S \in SUBSET OnDisk
  PROVE  NewestFirst(S) \in Seq(S) /\ NewestFirst(S) \in SetToSeqs(S)
<1>1. IsFiniteSet(OnDisk) /\ S \subseteq Topics
  BY AnchorBounds, FS_Subset DEF OnDisk
<1> DEFINE f == [a \in OnDisk |-> shelf[a].seen]
<1>2. f \in [OnDisk -> Nat]
  BY DEF ShelfSound, OnDisk, AnchorRecords
<1>3. PICK q \in SetToSeqs(S) : Falling(q, f)
  <2> HIDE DEF f
  <2>1. QED
    BY <1>1, <1>2, Sorted
<1>4. q \in [1..Cardinality(S) -> S]
  BY <1>3 DEF SetToSeqs
<1>5. \A j, k \in DOMAIN q : j < k => shelf[q[j]].seen >= shelf[q[k]].seen
  BY <1>3, <1>4 DEF Falling
<1>6. NewestFirst(S) \in SetToSeqs(S)
  BY <1>3, <1>5 DEF NewestFirst
<1>7. NewestFirst(S) \in [1..Cardinality(S) -> S]
  BY <1>6 DEF SetToSeqs
<1>8. Cardinality(S) \in Nat
  BY <1>1, FS_Subset, FS_CardinalityType
<1>9. QED
  BY <1>6, <1>7, <1>8

LEMMA ResurfacedIs ==
  ASSUME heap \in Seq(AnchorRecords), now \in Nat, NEW ns
  PROVE  /\ Resurfaced(ns) \in Seq(AnchorRecords) /\ Len(Resurfaced(ns)) = Len(heap)
         /\ DOMAIN Resurfaced(ns) = DOMAIN heap
         /\ \A n \in DOMAIN heap : Resurfaced(ns)[n].id = heap[n].id
<1>1. \A n \in DOMAIN heap : Touched(heap[n]) \in AnchorRecords /\ Touched(heap[n]).id = heap[n].id
  BY TouchedIs
<1>2. DOMAIN heap = 1..Len(heap) /\ Len(heap) \in Nat
  BY LenProperties
<1>3. \A n \in DOMAIN heap : Resurfaced(ns)[n] \in AnchorRecords /\ Resurfaced(ns)[n].id = heap[n].id
  BY <1>1 DEF Resurfaced
<1>4. Resurfaced(ns) \in [1..Len(heap) -> AnchorRecords]
  BY <1>2, <1>3 DEF Resurfaced
<1>5. QED
  BY <1>2, <1>3, <1>4

(* Verdicts are strings, and only pending objects of an heir have any.     *)
LEMMA VerdictsAre ==
  ASSUME NEW o, NEW v \in Verdicts(o)
  PROVE  v \in Outcomes
<1> DEFINE heirs == {heap[index[a]] : a \in {b \in awake \intersect InRam : heap[index[b]].next = o.id}}
           Verdict(d) == IF d.kind = "milestone" THEN "success" ELSE "failure"
           deciding == {h \in heirs : h.kind = "milestone" \/ h.outcome = "failure"}
<1>1. Verdicts(o) = IF o.outcome # "pending" THEN {} ELSE {Verdict(d) : d \in deciding}
  BY Zenon DEF Verdicts
<1>2. \A d : Verdict(d) \in Outcomes
  BY DEF Outcomes
<1> HIDE DEF Verdict, deciding
<1>3. QED
  BY <1>1, <1>2

-----------------------------------------------------------------------------
(* An object that changes without changing its topic.                      *)
LEMMA SameObjects ==
  ASSUME AnchorsKept, heap' \in Seq(AnchorRecords), index' = index, HeapSound,
         DOMAIN heap' = DOMAIN heap, Len(heap') = Len(heap),
         \A n \in DOMAIN heap : heap'[n].id = heap[n].id,
         OnDisk \subseteq OnDisk', lostSaves \subseteq lostSaves'
  PROVE  HeapSound' /\ AnchorsKept'
<1>1. HeapSound'
  BY DEF HeapSound
<1>2. AnchorsKept'
  BY DEF AnchorsKept
<1>3. QED
  BY <1>1, <1>2

LEMMA OneObject ==
  ASSUME heap \in Seq(AnchorRecords), NEW n \in DOMAIN heap, NEW o \in AnchorRecords,
         o.id = heap[n].id, heap' = [heap EXCEPT ![n] = o]
  PROVE  /\ heap' \in Seq(AnchorRecords) /\ DOMAIN heap' = DOMAIN heap /\ Len(heap') = Len(heap)
         /\ \A m \in DOMAIN heap : heap'[m].id = heap[m].id
<1>1. DOMAIN heap = 1..Len(heap) /\ Len(heap) \in Nat
  BY LenProperties
<1>2. heap \in [1..Len(heap) -> AnchorRecords]
  BY <1>1
<1>3. heap' \in [1..Len(heap) -> AnchorRecords]
  BY <1>1, <1>2
<1>4. heap' \in Seq(AnchorRecords) /\ DOMAIN heap' = DOMAIN heap /\ Len(heap') = Len(heap)
  BY <1>1, <1>3
<1>5. \A m \in DOMAIN heap : heap'[m].id = heap[m].id
  BY <1>1
<1>6. QED
  BY <1>4, <1>5

LEMMA SameHands ==
  ASSUME HeapSound, HandsSound, Len(heap') \in Nat, Len(heap) <= Len(heap'),
         dream' = dream, decaying' = decaying, now' \in Nat, observingTopic' \subseteq Ongoing
  PROVE  HandsSound'
<1>1. Len(heap) \in Nat
  BY LenProperties DEF HeapSound
<1>2. decaying' \in Seq(1..Len(heap'))
  BY <1>1, Longer DEF HandsSound
<1>3. dream.todo \in Seq(1..Len(heap'))
  BY <1>1, Longer DEF HandsSound
<1>4. dream' \in [at : {"asleep", "ram", "disk"}, todo : Seq(1..Len(heap')), page : Seq(AnchorRecords),
                  offset : Nat]
  BY <1>3 DEF HandsSound
<1>5. QED
  BY <1>2, <1>4 DEF HandsSound

LEMMA Added ==
  ASSUME AnchorInv, NEW t \in Ongoing, Add(t)
  PROVE  ShelfSound' /\ HeapSound' /\ AnchorsKept' /\ Len(heap') = Len(heap) + 1 /\ Len(heap) \in Nat
<1> USE DEF AnchorInv
<1> DEFINE o == NewAnchor(t)
<1>1. o \in AnchorRecords /\ o.id = t.id /\ t.id \in Topics
  BY NewAnchorIs DEF HandsSound, Ongoing
<1>2. heap' = Append(heap, o) /\ Put(Len(heap) + 1, t.id) /\ Save(o)
  BY DEF Add
<1> HIDE DEF o
<1>3. /\ ShelfSound' /\ OnDisk \subseteq OnDisk' /\ lostSaves \subseteq lostSaves'
      /\ o.id \in OnDisk' \union lostSaves'
  BY <1>1, <1>2, Saved
<1>4. /\ heap' \in Seq(AnchorRecords) /\ Len(heap') = Len(heap) + 1 /\ Len(heap) \in Nat
      /\ DOMAIN heap = 1..Len(heap) /\ DOMAIN heap' = 1..(Len(heap) + 1)
      /\ \A n \in 1..Len(heap) : heap'[n] = heap[n]
      /\ heap'[Len(heap) + 1] = o
  BY <1>1, <1>2, AppendProperties, LenProperties DEF HeapSound
<1>5. HeapSound'
  BY <1>1, <1>2, <1>4, PutIs DEF HeapSound
<1>6. ASSUME NEW n \in DOMAIN heap' PROVE heap'[n].id \in OnDisk' \union lostSaves'
  <2>1. CASE n \in 1..Len(heap)
    BY <1>3, <1>4, <2>1 DEF AnchorsKept
  <2>2. CASE n = Len(heap) + 1
    BY <1>3, <1>4, <2>2
  <2>3. QED
    BY <1>4, <2>1, <2>2
<1>7. QED
  BY <1>3, <1>4, <1>5, <1>6 DEF AnchorsKept

LEMMA ObserveBeginsStep ==
  ASSUME AnchorInv, NEW t \in Ongoing, ObserveBegins(t)
  PROVE  AnchorInv'
<1> USE DEF AnchorInv
<1>1. CASE t.next \in InRam
  <2> DEFINE n == index[t.next]
             o == Touched(heap[n])
  <2>1. n \in 1..Len(heap) /\ DOMAIN heap = 1..Len(heap) /\ Len(heap) \in Nat
    BY <1>1, LenProperties DEF HeapSound, InRam
  <2>2. o \in AnchorRecords /\ o.id = heap[n].id
    BY <2>1, TouchedIs DEF HeapSound, HandsSound
  <2>3. heap' = [heap EXCEPT ![n] = o] /\ Save(o) /\ index' = index
    BY <1>1 DEF ObserveBegins
  <2> HIDE DEF n, o
  <2>4. ShelfSound' /\ OnDisk \subseteq OnDisk' /\ lostSaves \subseteq lostSaves'
    BY <2>2, <2>3, Saved
  <2>5. /\ heap' \in Seq(AnchorRecords) /\ DOMAIN heap' = DOMAIN heap /\ Len(heap') = Len(heap)
        /\ \A m \in DOMAIN heap : heap'[m].id = heap[m].id
    BY <2>1, <2>2, <2>3, OneObject DEF HeapSound
  <2>6. HeapSound' /\ AnchorsKept'
    BY <2>3, <2>4, <2>5, SameObjects
  <2>7. HandsSound'
    BY <1>1, <2>1, <2>5, SameHands DEF ObserveBegins, HandsSound
  <2>8. QED
    BY <2>4, <2>6, <2>7
<1>2. CASE t.next \notin InRam
  <2>1. Add(t) /\ UNCHANGED <<observingTopic, dream, decaying, now>>
    BY <1>2 DEF ObserveBegins
  <2>2. ShelfSound' /\ HeapSound' /\ AnchorsKept' /\ Len(heap') = Len(heap) + 1 /\ Len(heap) \in Nat
    BY <2>1, Added
  <2>3. HandsSound'
    BY <2>1, <2>2, SameHands DEF HandsSound
  <2>4. QED
    BY <2>2, <2>3
<1>3. QED
  BY <1>1, <1>2

LEMMA ObserveEndsStep ==
  ASSUME AnchorInv, AnchorObserveEnds
  PROVE  AnchorInv'
<1> USE DEF AnchorInv
<1>1. PICK t \in observingTopic : observingTopic' = observingTopic \ {t} /\ Add(t)
  BY DEF AnchorObserveEnds
<1>2. ShelfSound' /\ HeapSound' /\ AnchorsKept' /\ Len(heap') = Len(heap) + 1 /\ Len(heap) \in Nat
  BY <1>1, Added DEF HandsSound
<1>3. HandsSound'
  BY <1>1, <1>2, SameHands DEF HandsSound, AnchorObserveEnds
<1>4. QED
  BY <1>2, <1>3

LEMMA DreamStep ==
  ASSUME AnchorInv, NEW todo \in Seq(1..Len(heap)), DreamOn(todo),
         UNCHANGED <<index, awake, observingTopic, decaying, now>>
  PROVE  AnchorInv'
<1> USE DEF AnchorInv
<1> DEFINE D == {j \in DOMAIN todo : Verdicts(heap[todo[j]]) # {}}
           k == Min(D \union {Len(todo) + 1})
           passed == {todo[j] : j \in 1..(k - 1)}
           q == NewestFirst(Unsettled)
           page == SubSeq(q, dream.offset + 1, Min({dream.offset + PageSize, Len(q)}))
           H == Resurfaced(passed)
<1>1. k \in 1..(Len(todo) + 1) /\ (k <= Len(todo) => k \in D)
  <2>1. D \in SUBSET DOMAIN todo
    OBVIOUS
  <2> HIDE DEF D
  <2>2. QED
    BY <2>1, FirstIs
<1>2. /\ H \in Seq(AnchorRecords) /\ Len(H) = Len(heap) /\ DOMAIN H = DOMAIN heap
      /\ \A n \in DOMAIN heap : H[n].id = heap[n].id
  BY ResurfacedIs DEF HeapSound, HandsSound
<1>3. Len(heap) \in Nat /\ DOMAIN heap = 1..Len(heap) /\ Len(todo) \in Nat /\ DOMAIN todo = 1..Len(todo)
  BY LenProperties DEF HeapSound
<1>4. k = FirstOf(todo, LAMBDA n : Verdicts(heap[n]) # {})
  BY DEF FirstOf
<1>5. CASE k <= Len(todo)
  <2>1. PICK v \in Verdicts(heap[todo[k]]) :
          LET settled == [heap[todo[k]] EXCEPT !.outcome = v] IN
          /\ heap' = [H EXCEPT ![todo[k]] = settled] /\ Save(settled)
          /\ dream' = [dream EXCEPT !.at = "ram", !.todo = ButFirst(todo, k)]
    BY <1>4, <1>5 DEF DreamOn
  <2> DEFINE n == todo[k]
             o == [heap[n] EXCEPT !.outcome = v]
  <2>2. n \in 1..Len(heap) /\ heap[n] \in AnchorRecords
    BY <1>1, <1>3, <1>5 DEF HeapSound
  <2>3. o \in AnchorRecords /\ o.id = heap[n].id
    BY <2>2, VerdictsAre, Settled
  <2>4. heap' = [H EXCEPT ![n] = o] /\ Save(o)
    BY <2>1
  <2>5. dream' = [dream EXCEPT !.at = "ram", !.todo = ButFirst(todo, k)]
    BY <2>1
  <2>6. ButFirst(todo, k) \in Seq(1..Len(heap))
    <3>1. k \in 1..(Len(todo) + 2)
      BY <1>1, <1>3
    <3> HIDE DEF k
    <3>2. QED
      BY <3>1, Rest
  <2> HIDE DEF n, o, k, H
  <2>7. ShelfSound' /\ OnDisk \subseteq OnDisk' /\ lostSaves \subseteq lostSaves'
    BY <2>3, <2>4, Saved
  <2>8. /\ heap' \in Seq(AnchorRecords) /\ DOMAIN heap' = DOMAIN heap /\ Len(heap') = Len(heap)
        /\ \A m \in DOMAIN heap : heap'[m].id = heap[m].id
    <3>1. heap' \in [1..Len(heap) -> AnchorRecords]
      BY <1>2, <1>3, <2>2, <2>3, <2>4
    <3>2. heap' \in Seq(AnchorRecords) /\ DOMAIN heap' = DOMAIN heap /\ Len(heap') = Len(heap)
      BY <1>3, <3>1
    <3>3. \A m \in DOMAIN heap : heap'[m].id = heap[m].id
      BY <1>2, <1>3, <2>2, <2>3, <2>4
    <3>4. QED
      BY <3>2, <3>3
  <2>9. HeapSound' /\ AnchorsKept'
    BY <2>7, <2>8, SameObjects
  <2>10. HandsSound'
    BY <2>5, <2>6, <2>8 DEF HandsSound
  <2>11. QED
    BY <2>7, <2>9, <2>10
<1>6. CASE ~(k <= Len(todo))
  <2>1. /\ heap' = H /\ UNCHANGED saves
        /\ dream' = [at |-> IF page = <<>> THEN "asleep" ELSE "disk", todo |-> <<>>,
                     page |-> [j \in DOMAIN page |-> shelf[page[j]]], offset |-> NextOffset(page)]
    BY <1>4, <1>6 DEF DreamOn
  <2>2. page \in Seq(OnDisk)
    <3>1. Unsettled \subseteq OnDisk /\ dream.offset \in Nat
      BY DEF Unsettled, HandsSound
    <3>2. q \in Seq(Unsettled)
      BY <3>1, NewestFirstIs
    <3> HIDE DEF q
    <3>3. q \in Seq(OnDisk)
      BY <3>1, <3>2
    <3>4. dream.offset + 1 \in Nat \ {0} /\ dream.offset + PageSize \in Nat
      BY <3>1, AnchorBounds
    <3>5. QED
      BY <3>3, <3>4, Part
  <2> HIDE DEF page, H
  <2>3. [j \in DOMAIN page |-> shelf[page[j]]] \in Seq(AnchorRecords)
    <3>1. DOMAIN page = 1..Len(page) /\ Len(page) \in Nat
      BY <2>2, LenProperties
    <3>2. \A j \in DOMAIN page : shelf[page[j]] \in AnchorRecords
      BY <2>2 DEF ShelfSound, OnDisk
    <3>3. QED
      BY <3>1, <3>2
  <2>4. NextOffset(page) \in Nat
    BY AnchorBounds DEF NextOffset, HandsSound
  <2>5. ShelfSound' /\ OnDisk' = OnDisk /\ lostSaves' = lostSaves
    BY <2>1, NotSaved DEF saves
  <2>6. HeapSound' /\ AnchorsKept'
    BY <1>2, <2>1, <2>5, SameObjects
  <2>7. dream' \in [at : {"asleep", "ram", "disk"}, todo : Seq(1..Len(heap')), page : Seq(AnchorRecords),
                    offset : Nat]
    BY <2>1, <2>3, <2>4
  <2>8. HandsSound'
    BY <1>2, <2>1, <2>7 DEF HandsSound
  <2>9. QED
    BY <2>5, <2>6, <2>8
<1>7. QED
  BY <1>5, <1>6

LEMMA Numbered ==
  ASSUME HeapSound, NEW S \in SUBSET InRam
  PROVE  SetToSeq({index[a] : a \in S}) \in Seq(1..Len(heap))
<1> DEFINE N == {index[a] : a \in S}
<1>1. Len(heap) \in Nat
  BY LenProperties DEF HeapSound
<1>2. N \subseteq 1..Len(heap)
  BY <1>1 DEF InRam, HeapSound
<1> HIDE DEF N
<1>3. IsFiniteSet(N)
  <2>1. IsFiniteSet(1..Len(heap))
    BY <1>1, FS_Interval
  <2>2. N \in SUBSET (1..Len(heap))
    BY <1>2
  <2>3. QED
    BY <2>1, <2>2, FS_Subset, Zenon
<1>4. SetToSeq(N) \in Seq(N)
  BY <1>3, Enumerated
<1>5. SetToSeq(N) \in Seq(1..Len(heap))
  <2> DEFINE q == SetToSeq(N)
  <2>1. q \in Seq(N)
    BY <1>4
  <2> HIDE DEF q
  <2>2. Len(q) \in Nat /\ q \in [1..Len(q) -> N]
    BY <2>1, LenProperties
  <2>3. q \in [1..Len(q) -> 1..Len(heap)]
    BY <1>2, <2>2
  <2>4. q \in Seq(1..Len(heap))
    BY <2>2, <2>3
  <2>5. QED
    BY <2>4 DEF q
<1>6. QED
  BY <1>5 DEF N

LEMMA DreamOfRamStep ==
  ASSUME AnchorInv, DreamOfRam
  PROVE  AnchorInv'
<1>1. UNCHANGED <<index, awake, observingTopic, decaying, now>>
  BY DEF DreamOfRam
<1>2. PICK todo \in Seq(1..Len(heap)) : DreamOn(todo)
  <2>1. CASE \E todo \in Candidates : DreamOn(todo)
    BY <2>1, Numbered DEF Candidates, AnchorInv
  <2>2. CASE DreamOn(dream.todo)
    BY <2>2 DEF AnchorInv, HandsSound
  <2>3. QED
    BY <2>1, <2>2 DEF DreamOfRam
<1>3. QED
  BY <1>1, <1>2, DreamStep

LEMMA DreamOfDiskStep ==
  ASSUME AnchorInv, DreamOfDisk
  PROVE  AnchorInv'
<1> USE DEF AnchorInv
<1> DEFINE D == {j \in DOMAIN dream.page : dream.page[j].id \notin InRam /\ Verdicts(dream.page[j]) # {}}
           k == Min(D \union {Len(dream.page) + 1})
<1>1. dream.page \in Seq(AnchorRecords)
  BY DEF HandsSound
<1>2. k \in 1..(Len(dream.page) + 1) /\ (k <= Len(dream.page) => k \in D)
  <2>1. D \in SUBSET DOMAIN dream.page
    OBVIOUS
  <2> HIDE DEF D
  <2>2. QED
    BY <1>1, <2>1, FirstIs
<1>3. k = FirstOf(dream.page, LAMBDA o : o.id \notin InRam /\ Verdicts(o) # {})
  BY DEF FirstOf
<1>4. UNCHANGED <<heap, index, observingTopic, decaying, now>>
  BY DEF DreamOfDisk
<1>5. CASE k <= Len(dream.page)
  <2>1. /\ \E v \in Verdicts(dream.page[k]) : Save([dream.page[k] EXCEPT !.outcome = v])
        /\ dream' = [dream EXCEPT !.page = ButFirst(@, k + 1)]
    BY <1>3, <1>5 DEF DreamOfDisk
  <2>2. Len(dream.page) \in Nat /\ DOMAIN dream.page = 1..Len(dream.page)
    BY <1>1, LenProperties
  <2>3. dream.page[k] \in AnchorRecords
    <3>1. k \in 1..Len(dream.page)
      BY <1>2, <1>5, <2>2
    <3> HIDE DEF k
    <3>2. QED
      BY <1>1, <3>1
  <2>4. ButFirst(dream.page, k + 1) \in Seq(AnchorRecords)
    <3>1. k + 1 \in 1..(Len(dream.page) + 2)
      BY <1>2, <2>2
    <3> HIDE DEF k
    <3>2. QED
      BY <1>1, <3>1, Rest
  <2> HIDE DEF k
  <2>5. PICK v \in Verdicts(dream.page[k]) : Save([dream.page[k] EXCEPT !.outcome = v])
    BY <2>1
  <2>6. [dream.page[k] EXCEPT !.outcome = v] \in AnchorRecords
    BY <2>3, VerdictsAre, Settled
  <2>7. ShelfSound' /\ OnDisk \subseteq OnDisk' /\ lostSaves \subseteq lostSaves'
    BY <2>5, <2>6, Saved
  <2>8. HeapSound' /\ AnchorsKept'
    BY <1>4, <2>7 DEF HeapSound, AnchorsKept
  <2>9. HandsSound'
    BY <1>4, <2>1, <2>4 DEF HandsSound
  <2>10. QED
    BY <2>7, <2>8, <2>9
<1>6. CASE ~(k <= Len(dream.page))
  <2>1. dream' = [dream EXCEPT !.at = "asleep", !.page = <<>>] /\ UNCHANGED saves
    BY <1>3, <1>6 DEF DreamOfDisk
  <2>2. ShelfSound' /\ OnDisk' = OnDisk /\ lostSaves' = lostSaves
    BY <2>1, NotSaved DEF saves
  <2>3. HeapSound' /\ AnchorsKept'
    BY <1>4, <2>2 DEF HeapSound, AnchorsKept
  <2>4. dream' \in [at : {"asleep", "ram", "disk"}, todo : Seq(1..Len(heap)), page : Seq(AnchorRecords),
                    offset : Nat]
    <3>1. <<>> \in Seq(AnchorRecords)
      OBVIOUS
    <3>2. QED
      BY <2>1, <3>1 DEF HandsSound
  <2>5. HandsSound'
    BY <1>4, <2>4 DEF HandsSound
  <2>6. QED
    BY <2>2, <2>3, <2>5
<1>7. QED
  BY <1>5, <1>6

LEMMA DecayStep ==
  ASSUME AnchorInv, NEW list \in Seq(1..Len(heap)), DecayOn(list),
         UNCHANGED <<index, awake, observingTopic, dream, now>>
  PROVE  AnchorInv'
<1> USE DEF AnchorInv
<1> DEFINE D == {j \in DOMAIN list : Fades(heap[list[j]])}
           k == Min(D \union {Len(list) + 1})
           n == list[k]
           o == [heap[n] EXCEPT !.decay = @ + 1]
<1>1. k \in 1..(Len(list) + 1) /\ (k <= Len(list) => k \in D)
  <2>1. D \in SUBSET DOMAIN list
    OBVIOUS
  <2> HIDE DEF D
  <2>2. QED
    BY <2>1, FirstIs
<1>2. k = FirstOf(list, LAMBDA m : Fades(heap[m]))
  BY DEF FirstOf
<1>3. /\ decaying' = ButFirst(list, k + 1)
      /\ IF k <= Len(list) THEN heap' = [heap EXCEPT ![n] = o] /\ Save(o) ELSE UNCHANGED <<heap, saves>>
  BY <1>2 DEF DecayOn
<1>4. Len(list) \in Nat /\ DOMAIN list = 1..Len(list) /\ Len(heap) \in Nat /\ DOMAIN heap = 1..Len(heap)
  BY LenProperties DEF HeapSound
<1>5. decaying' \in Seq(1..Len(heap))
  <2>1. k + 1 \in 1..(Len(list) + 2)
    BY <1>1, <1>4
  <2> HIDE DEF k
  <2>2. QED
    BY <1>3, <2>1, Rest
<1>6. CASE k <= Len(list)
  <2>1. n \in 1..Len(heap) /\ heap[n] \in AnchorRecords
    BY <1>1, <1>4, <1>6 DEF HeapSound
  <2>2. o \in AnchorRecords /\ o.id = heap[n].id
    BY <2>1, AnchorFades
  <2>3. heap' = [heap EXCEPT ![n] = o] /\ Save(o)
    BY <1>3, <1>6
  <2> HIDE DEF n, o, k
  <2>4. ShelfSound' /\ OnDisk \subseteq OnDisk' /\ lostSaves \subseteq lostSaves'
    BY <2>2, <2>3, Saved
  <2>5. /\ heap' \in Seq(AnchorRecords) /\ DOMAIN heap' = DOMAIN heap /\ Len(heap') = Len(heap)
        /\ \A m \in DOMAIN heap : heap'[m].id = heap[m].id
    BY <1>4, <2>1, <2>2, <2>3, OneObject DEF HeapSound
  <2>6. HeapSound' /\ AnchorsKept'
    BY <2>4, <2>5, SameObjects
  <2>7. HandsSound'
    BY <1>5, <2>5 DEF HandsSound
  <2>8. QED
    BY <2>4, <2>6, <2>7
<1>7. CASE ~(k <= Len(list))
  <2>1. UNCHANGED <<heap, saves>>
    BY <1>3, <1>7
  <2>2. ShelfSound' /\ OnDisk' = OnDisk /\ lostSaves' = lostSaves
    BY <2>1, NotSaved DEF saves
  <2>3. HeapSound' /\ AnchorsKept'
    BY <2>1, <2>2 DEF HeapSound, AnchorsKept
  <2>4. HandsSound'
    BY <1>5, <2>1 DEF HandsSound
  <2>5. QED
    BY <2>2, <2>3, <2>4
<1>8. QED
  BY <1>6, <1>7

LEMMA DecaysStep ==
  ASSUME AnchorInv, Decays
  PROVE  AnchorInv'
<1>1. UNCHANGED <<index, awake, observingTopic, dream, now>>
  BY DEF Decays
<1>2. PICK list \in Seq(1..Len(heap)) : DecayOn(list)
  <2>1. CASE DecayOn(decaying)
    BY <2>1 DEF AnchorInv, HandsSound
  <2>2. CASE DecayOn(SetToSeq({index[a] : a \in InRam}))
    BY <2>2, Numbered DEF AnchorInv
  <2>3. QED
    BY <2>1, <2>2 DEF Decays
<1>3. QED
  BY <1>1, <1>2, DecayStep

LEMMA ReloadStep ==
  ASSUME AnchorInv, Reload
  PROVE  AnchorInv'
<1> USE DEF AnchorInv
<1> DEFINE q == NewestFirst(OnDisk)
           kept == SubSeq(q, 1, Min({IndexCap, Len(q)}))
<1>1. /\ heap' = [k \in DOMAIN kept |-> shelf[kept[k]]]
      /\ index' = [a \in Topics |-> IF \E k \in DOMAIN kept : kept[k] = a
                                    THEN CHOOSE k \in DOMAIN kept : kept[k] = a ELSE 0]
  BY DEF Reload
<1>2. /\ observingTopic' = {} /\ dream' = Drowsy /\ decaying' = <<>>
      /\ UNCHANGED <<shelf, now, lostSaves>>
  BY DEF Reload
<1>3. kept \in Seq(OnDisk)
  <2>1. q \in Seq(OnDisk)
    BY NewestFirstIs
  <2> HIDE DEF q
  <2>2. QED
    BY <2>1, AnchorBounds, Part
<1> HIDE DEF kept
<1>4. DOMAIN kept = 1..Len(kept) /\ Len(kept) \in Nat
  BY <1>3, LenProperties
<1>5. \A k \in DOMAIN kept : shelf[kept[k]] \in AnchorRecords /\ shelf[kept[k]].id \in OnDisk
  <2>1. \A k \in DOMAIN kept : kept[k] \in OnDisk
    BY <1>3
  <2>2. QED
    BY <2>1 DEF ShelfSound, OnDisk
<1>6. heap' \in Seq(AnchorRecords) /\ Len(heap') = Len(kept) /\ DOMAIN heap' = 1..Len(kept)
  BY <1>1, <1>4, <1>5
<1>7. index' \in [Topics -> 0..Len(heap')]
  BY <1>1, <1>4, <1>6
<1>8. ShelfSound' /\ OnDisk' = OnDisk /\ lostSaves' = lostSaves
  BY <1>2, NotSaved
<1>9. AnchorsKept'
  BY <1>1, <1>4, <1>5, <1>8 DEF AnchorsKept
<1>10. HandsSound'
  BY <1>2 DEF HandsSound, Drowsy
<1>11. QED
  BY <1>6, <1>7, <1>8, <1>9, <1>10 DEF HeapSound

LEMMA AnchorInvariant == AnchorSpec => []AnchorInv
<1>1. AnchorInit => AnchorInv
  BY AnchorBounds DEF AnchorInit, AnchorInv, ShelfSound, HeapSound, HandsSound, AnchorsKept, OnDisk, Drowsy
<1>2. AnchorInv /\ [AnchorNext]_anchorVars => AnchorInv'
  <2> SUFFICES ASSUME AnchorInv, [AnchorNext]_anchorVars PROVE AnchorInv'
    OBVIOUS
  <2>1. ASSUME NEW a \in Topics, NEW next \in Topics \union {Nothing}, NEW shape \in Shapes,
               ObserveBegins([id |-> a, next |-> next, shape |-> shape])
        PROVE  AnchorInv'
    <3>1. [id |-> a, next |-> next, shape |-> shape] \in Ongoing
      BY DEF Ongoing
    <3>2. QED
      BY <2>1, <3>1, ObserveBeginsStep
  <2>2. CASE AnchorObserveEnds
    BY <2>2, ObserveEndsStep
  <2>3. CASE Dreaming
    BY <2>3, DreamOfRamStep, DreamOfDiskStep DEF Dreaming
  <2>4. CASE Decays
    BY <2>4, DecaysStep
  <2>5. CASE TimePasses
    BY <2>5 DEF TimePasses, cores, saves, AnchorInv, ShelfSound, HeapSound, HandsSound, AnchorsKept, OnDisk
  <2>6. CASE Dissolves
    BY <2>6 DEF Dissolves, cores, saves, AnchorInv, ShelfSound, HeapSound, HandsSound, AnchorsKept, OnDisk
  <2>7. CASE Reload
    BY <2>7, ReloadStep
  <2>8. CASE UNCHANGED anchorVars
    BY <2>8 DEF anchorVars, AnchorInv, ShelfSound, HeapSound, HandsSound, AnchorsKept, OnDisk
  <2>9. QED
    BY <2>1, <2>2, <2>3, <2>4, <2>5, <2>6, <2>7, <2>8 DEF AnchorNext
<1>3. QED
  BY <1>1, <1>2, PTL DEF AnchorSpec

(* An anchor outlives its place in the index: every object that saving,    *)
(* dreaming or decaying may still hold has a row of its topic, unless a    *)
(* save of it failed (subconscious/anchor.py, anchor_index.py).            *)
THEOREM AnchorsAreKept == AnchorSpec => []AnchorsKept
<1>1. AnchorInv => AnchorsKept
  BY DEF AnchorInv
<1>2. QED
  BY <1>1, AnchorInvariant, PTL

-----------------------------------------------------------------------------
(* Warnings, cooldowns and queues (guardian.py, pipeline.py, ctx_active).  *)
SignalSpec == SignalInit /\ [][SignalNext]_signalVars

SignalTypes ==
  /\ {cooling, queued, cutOff} \subseteq [Topic -> SUBSET Warners]
  /\ told \in [Topic -> [Warners -> Nat]]
  /\ open \subseteq Warners /\ lastText \subseteq Warners

(* What waits in a queue during its cooldown has not been reported in it.  *)
QueuedUntold == \A t \in Topic : \A a \in queued[t] \intersect cooling[t] : told[t][a] = 0

SignalInv == SignalTypes /\ QueuedUntold /\ SilenceEarned

LEMMA SignalInitial == SignalInit => SignalInv
<1> SUFFICES ASSUME SignalInit PROVE SignalInv
  OBVIOUS
<1>1. SignalTypes
  <2>1. told \in [Topic -> [Warners -> Nat]]
    BY DEF SignalInit
  <2>2. cooling \in [Topic -> SUBSET Warners] /\ queued \in [Topic -> SUBSET Warners]
        /\ cutOff \in [Topic -> SUBSET Warners]
    BY DEF SignalInit
  <2>3. QED
    BY <2>1, <2>2, SignalsAssumption DEF SignalInit, SignalTypes
<1>2. QED
  BY <1>1 DEF SignalInit, SignalInv, QueuedUntold, SilenceEarned

(* One topic: newly found anchors begin their cooldown, some anchors are   *)
(* reported, and those that wait no more were reported or cut off.         *)
LEMMA Silence ==
  ASSUME SignalInv, NEW t \in Topic, NEW found \in SUBSET Warners, NEW said \in SUBSET Warners,
         found \intersect cooling[t] = {}, said \subseteq found \union queued[t],
         cooling'[t] = cooling[t] \union found,
         \A a \in Warners : told'[t][a] = IF a \in said THEN Stamped(t, found)[a] + 1 ELSE Stamped(t, found)[a],
         queued'[t] \intersect said = {}, queued'[t] \subseteq queued[t] \union found,
         ((cutOff[t] \union found \union queued[t]) \ said) \subseteq cutOff'[t] \union queued'[t]
  PROVE  \A a \in Warners :
           a \in cooling'[t] => /\ told'[t][a] <= 1
                                /\ told'[t][a] = 1 \/ a \in queued'[t] \union cutOff'[t]
                                /\ a \in queued'[t] => told'[t][a] = 0
<1> SUFFICES ASSUME NEW a \in Warners, a \in cooling'[t]
             PROVE  /\ told'[t][a] <= 1
                    /\ told'[t][a] = 1 \/ a \in queued'[t] \union cutOff'[t]
                    /\ a \in queued'[t] => told'[t][a] = 0
  OBVIOUS
<1>1. told[t][a] \in Nat
  BY DEF SignalInv, SignalTypes
<1>2. Stamped(t, found)[a] = IF a \in found \ cooling[t] THEN 0 ELSE told[t][a]
  BY DEF Stamped
<1>3. CASE a \in found
  <2>1. Stamped(t, found)[a] = 0
    BY <1>2, <1>3
  <2>2. QED
    BY <1>3, <2>1
<1>4. CASE a \notin found
  <2>1. a \in cooling[t] /\ Stamped(t, found)[a] = told[t][a]
    BY <1>2, <1>4
  <2>2. told[t][a] <= 1 /\ (told[t][a] = 1 \/ a \in queued[t] \union cutOff[t])
    BY <2>1 DEF SignalInv, SilenceEarned
  <2>3. a \in queued[t] => told[t][a] = 0
    BY <2>1 DEF SignalInv, QueuedUntold
  <2>4. CASE a \in said
    BY <1>1, <1>4, <2>1, <2>3, <2>4
  <2>5. CASE a \notin said
    BY <1>1, <1>4, <2>1, <2>2, <2>3, <2>5
  <2>6. QED
    BY <2>4, <2>5
<1>5. QED
  BY <1>3, <1>4

LEMMA SilenceFound ==
  ASSUME SignalInv, NEW t \in Topic, NEW found \in SUBSET Warners,
         found \intersect cooling[t] = {}, cooling'[t] = cooling[t] \union found,
         told'[t] = Stamped(t, found), queued'[t] \subseteq queued[t] \union found,
         cutOff[t] \union found \union queued[t] \subseteq cutOff'[t] \union queued'[t]
  PROVE  \A a \in Warners :
           a \in cooling'[t] => /\ told'[t][a] <= 1
                                /\ told'[t][a] = 1 \/ a \in queued'[t] \union cutOff'[t]
                                /\ a \in queued'[t] => told'[t][a] = 0
<1> DEFINE said == {}
<1>1. /\ said \in SUBSET Warners /\ said \subseteq found \union queued[t] /\ queued'[t] \intersect said = {}
      /\ ((cutOff[t] \union found \union queued[t]) \ said) \subseteq cutOff'[t] \union queued'[t]
      /\ \A a \in Warners : told'[t][a] = IF a \in said THEN Stamped(t, found)[a] + 1 ELSE Stamped(t, found)[a]
  OBVIOUS
<1> HIDE DEF said
<1>2. QED
  BY <1>1, Silence

(* A topic that a step leaves alone.                                       *)
LEMMA StillSilent ==
  ASSUME SignalInv, NEW t \in Topic, cooling'[t] = cooling[t], told'[t] = told[t], queued'[t] = queued[t],
         cutOff'[t] = cutOff[t]
  PROVE  \A a \in Warners :
           a \in cooling'[t] => /\ told'[t][a] <= 1
                                /\ told'[t][a] = 1 \/ a \in queued'[t] \union cutOff'[t]
                                /\ a \in queued'[t] => told'[t][a] = 0
BY DEF SignalInv, SilenceEarned, QueuedUntold

LEMMA SignalTypesStep ==
  ASSUME SignalInv, [SignalNext]_signalVars
  PROVE  SignalTypes'
<1> USE SignalsAssumption DEF SignalInv, SignalTypes
<1>1. CASE UserSpeaks \/ AnchorChanges \/ UNCHANGED signalVars
  BY <1>1 DEF UserSpeaks, AnchorChanges, signalVars, anchorsSay
<1>2. ASSUME NEW near \in SUBSET Warners, Scan(near) PROVE SignalTypes'
  BY <1>2 DEF Scan, Near, Loops, Best, Stamped, Arrives, anchorsSay, Topic
<1>3. CASE CtxActive
  BY <1>3 DEF CtxActive, KeywordWarnings, KeywordLoops, Best, Stamped, Reported, anchorsSay, Topic
<1>4. CASE CtxActiveRaises
  BY <1>4 DEF CtxActiveRaises, KeywordWarnings, Stamped, anchorsSay, Topic
<1>5. CASE CooldownEnds
  BY <1>5 DEF CooldownEnds, anchorsSay
<1>6. QED
  BY <1>1, <1>2, <1>3, <1>4, <1>5 DEF SignalNext

LEMMA SignalStep ==
  ASSUME SignalInv, [SignalNext]_signalVars, NEW t \in Topic
  PROVE  \A a \in Warners :
           a \in cooling'[t] => /\ told'[t][a] <= 1
                                /\ told'[t][a] = 1 \/ a \in queued'[t] \union cutOff'[t]
                                /\ a \in queued'[t] => told'[t][a] = 0
<1> DEFINE Silent == \A a \in Warners :
             a \in cooling'[t] => /\ told'[t][a] <= 1
                                  /\ told'[t][a] = 1 \/ a \in queued'[t] \union cutOff'[t]
                                  /\ a \in queued'[t] => told'[t][a] = 0
<1> SUFFICES Silent
  OBVIOUS
<1>0. /\ \A f \in {cooling, queued, cutOff} : f \in [Topic -> SUBSET Warners]
      /\ told \in [Topic -> [Warners -> Nat]] /\ open \subseteq Warners /\ lastText \subseteq Warners
  BY DEF SignalInv, SignalTypes
<1>00. \A s \in Topic : s = "warn" \/ s = "loop"
  BY DEF Topic
<1>1. CASE UserSpeaks \/ AnchorChanges \/ UNCHANGED signalVars
  <2>1. UNCHANGED <<cooling, told, queued, cutOff>>
    BY <1>1 DEF UserSpeaks, AnchorChanges, signalVars
  <2>2. QED
    BY <2>1, StillSilent
<1>2. ASSUME NEW near \in SUBSET Warners, Scan(near) PROVE Silent
  <2>1. PICK warns \in {IF "guard" \in enabled THEN Near(near) ELSE {}},
             loops \in IF "loop" \in enabled THEN Best(Loops(near), LoopsCap) ELSE {{}} :
          /\ cooling' = [cooling EXCEPT !["warn"] = @ \union warns, !["loop"] = @ \union loops]
          /\ told' = [s \in Topic |-> Stamped(s, IF s = "warn" THEN warns ELSE loops)]
          /\ LET home == Arrives("loop", 3) IN
             /\ queued' = [queued EXCEPT !["warn"] = @ \union warns,
                                         !["loop"] = @ \union (IF home THEN loops ELSE {})]
             /\ astray' = astray \union (IF Arrives("surface", 2) THEN loops ELSE {})
             /\ cutOff' = [cutOff EXCEPT !["warn"] = @ \ warns,
                                   !["loop"] = (@ \ loops) \union (IF home THEN {} ELSE loops)]
          /\ UNCHANGED <<anchorsSay, lastText>>
    BY <1>2, Zenon DEF Scan
  <2>2. warns \subseteq Warners \ cooling["warn"] /\ loops \subseteq Warners \ cooling["loop"]
    <3>1. Near(near) \subseteq Warners \ cooling["warn"]
      BY DEF Near
    <3>2. warns \subseteq Near(near) /\ warns \subseteq Warners \ cooling["warn"]
      BY <3>1
    <3>3. Loops(near) \subseteq Warners \ cooling["loop"]
      BY DEF Loops
    <3>4. loops \subseteq Loops(near)
      BY DEF Best
    <3>5. QED
      BY <3>2, <3>3, <3>4
  <2> DEFINE found == IF t = "warn" THEN warns ELSE loops
  <2>3. /\ found \in SUBSET Warners /\ found \intersect cooling[t] = {}
        /\ cooling'[t] = cooling[t] \union found
        /\ told'[t] = Stamped(t, found)
        /\ queued'[t] \subseteq queued[t] \union found
        /\ cutOff[t] \union found \union queued[t] \subseteq cutOff'[t] \union queued'[t]
    <3>1. CASE t = "warn"
      BY <1>0, <2>1, <2>2, <3>1 DEF Topic
    <3>2. CASE t = "loop"
      BY <1>0, <2>1, <2>2, <3>2 DEF Topic
    <3>3. QED
      BY <1>00, <3>1, <3>2
  <2> HIDE DEF found
  <2>4. QED
    BY <2>3, SilenceFound
<1>3. CASE CtxActive
  <2> DEFINE found == IF t = "warn" THEN KeywordWarnings ELSE KeywordLoops
  <2>1. PICK kw \in Best(KeywordWarnings, HitsCap), kl \in Best(KeywordLoops, HitsCap) :
        \E loops \in Best(queued["loop"] \union kl, LoopsCap) :
          LET warns == queued["warn"] \union kw
              said(s) == IF s = "warn" THEN warns ELSE loops
              hits(s) == IF s = "warn" THEN KeywordWarnings ELSE KeywordLoops IN
          /\ told' = [s \in Topic |-> Reported(Stamped(s, hits(s)), said(s))]
          /\ cutOff' = [s \in Topic |-> (cutOff[s] \union hits(s) \union queued[s]) \ said(s)]
          /\ cooling' = [s \in Topic |-> cooling[s] \union hits(s)]
    BY <1>3 DEF CtxActive
  <2>2. PICK loops \in Best(queued["loop"] \union kl, LoopsCap) :
          LET warns == queued["warn"] \union kw
              said(s) == IF s = "warn" THEN warns ELSE loops
              hits(s) == IF s = "warn" THEN KeywordWarnings ELSE KeywordLoops IN
          /\ told' = [s \in Topic |-> Reported(Stamped(s, hits(s)), said(s))]
          /\ cutOff' = [s \in Topic |-> (cutOff[s] \union hits(s) \union queued[s]) \ said(s)]
          /\ cooling' = [s \in Topic |-> cooling[s] \union hits(s)]
    BY <2>1
  <2> DEFINE said == IF t = "warn" THEN queued["warn"] \union kw ELSE loops
  <2>3. kw \subseteq KeywordWarnings /\ kl \subseteq KeywordLoops /\ loops \subseteq queued["loop"] \union kl
    BY DEF Best
  <2>4. found \in SUBSET Warners /\ found \intersect cooling[t] = {} /\ said \subseteq found \union queued[t]
    <3>1. CASE t = "warn"
      BY <1>0, <2>3, <3>1 DEF KeywordWarnings, Topic
    <3>2. CASE t = "loop"
      BY <1>0, <2>3, <3>2 DEF KeywordLoops, Topic
    <3>3. QED
      BY <1>00, <3>1, <3>2
  <2>5. /\ told'[t] = Reported(Stamped(t, found), said)
        /\ cutOff'[t] = (cutOff[t] \union found \union queued[t]) \ said
        /\ cooling'[t] = cooling[t] \union found
    BY <2>2
  <2>6. queued'[t] = {} /\ said \in SUBSET Warners
    BY <1>0, <1>3, <2>4 DEF CtxActive
  <2> HIDE DEF found, said
  <2>7. \A a \in Warners : told'[t][a] = IF a \in said THEN Stamped(t, found)[a] + 1 ELSE Stamped(t, found)[a]
    BY <2>5 DEF Reported
  <2>8. QED
    BY <2>4, <2>5, <2>6, <2>7, Silence
<1>4. CASE CtxActiveRaises
  <2>1. CASE t = "warn"
    <3> DEFINE found == KeywordWarnings
    <3>1. /\ cooling'[t] = cooling[t] \union found /\ told'[t] = Stamped(t, found) /\ queued'[t] = {}
          /\ cutOff'[t] = cutOff[t] \union found \union queued[t]
      BY <1>0, <1>4, <2>1 DEF CtxActiveRaises, Topic
    <3>2. found \in SUBSET Warners /\ found \intersect cooling[t] = {}
      BY <1>0, <2>1 DEF KeywordWarnings
    <3> HIDE DEF found
    <3>3. QED
      BY <3>1, <3>2, SilenceFound
  <2>2. CASE t # "warn"
    <3>1. cooling'[t] = cooling[t] /\ told'[t] = told[t] /\ queued'[t] = queued[t] /\ cutOff'[t] = cutOff[t]
      BY <1>0, <1>4, <2>2 DEF CtxActiveRaises
    <3>2. QED
      BY <3>1, StillSilent
  <2>3. QED
    BY <2>1, <2>2
<1>5. CASE CooldownEnds
  <2>1. PICK s \in Topic : \E a \in cooling[s] :
          /\ cooling' = [cooling EXCEPT ![s] = @ \ {a}] /\ cutOff' = [cutOff EXCEPT ![s] = @ \ {a}]
          /\ told' = [told EXCEPT ![s][a] = 0]
    BY <1>5 DEF CooldownEnds
  <2>2. PICK a \in cooling[s] :
          /\ cooling' = [cooling EXCEPT ![s] = @ \ {a}] /\ cutOff' = [cutOff EXCEPT ![s] = @ \ {a}]
          /\ told' = [told EXCEPT ![s][a] = 0]
    BY <2>1
  <2>3. queued' = queued
    BY <1>5 DEF CooldownEnds
  <2>4. CASE t # s
    <3>1. cooling'[t] = cooling[t] /\ told'[t] = told[t] /\ queued'[t] = queued[t] /\ cutOff'[t] = cutOff[t]
      BY <1>0, <2>2, <2>3, <2>4
    <3>2. QED
      BY <3>1, StillSilent
  <2>5. CASE t = s
    <3>1. /\ cooling'[t] = cooling[t] \ {a} /\ cutOff'[t] = cutOff[t] \ {a} /\ queued'[t] = queued[t]
          /\ \A b \in Warners \ {a} : told'[t][b] = told[t][b]
      BY <1>0, <2>2, <2>3, <2>5
    <3>2. QED
      BY <3>1 DEF SignalInv, SilenceEarned, QueuedUntold
  <2>6. QED
    BY <2>4, <2>5
<1>6. QED
  BY <1>1, <1>2, <1>3, <1>4, <1>5 DEF SignalNext

(* In a cooldown an anchor is reported once at most, and one that keeps    *)
(* silent was reported, waits in a queue or was found beyond a cap: for    *)
(* any anchors and configurations, whichever layers find them (guardian.py,*)
(* pipeline.py, ctx_active).                                               *)
THEOREM SilenceIsEarned == SignalSpec => []SilenceEarned
<1>1. SignalInv /\ [SignalNext]_signalVars => SignalInv'
  <2> SUFFICES ASSUME SignalInv, [SignalNext]_signalVars PROVE SignalInv'
    OBVIOUS
  <2>1. SignalTypes'
    BY SignalTypesStep
  <2>2. QED
    BY <2>1, SignalStep DEF SignalInv, SilenceEarned, QueuedUntold, SignalTypes
<1>2. SignalInv => SilenceEarned
  BY DEF SignalInv
<1>3. QED
  BY SignalInitial, <1>1, <1>2, PTL DEF SignalSpec

-----------------------------------------------------------------------------
(* Sessions that contradict each other (conflict.py, consolidation.py,     *)
(* dissolver.py).                                                          *)
RetentionSpec == RetentionInit /\ [][RetentionNext]_retentionVars

(* A brief, which no absent one is.                                        *)
Brief(b) ==
  /\ b = [importance |-> b.importance, deadline |-> b.deadline, expired |-> b.expired,
          flag |-> b.flag, created |-> b.created]
  /\ b.importance # "none"
BriefsIn(f) == f = [s \in Entries |-> f[s]] /\ \A s \in Entries : f[s] = Absent \/ Brief(f[s])
RecordsSound ==
  /\ BriefsIn(held) /\ BriefsIn(coming) /\ BriefsIn(entryRows) /\ BriefsIn(former)
  /\ visiting \in [Entries -> {"no", "held", "former"}] /\ known \subseteq Entries
  /\ raised \subseteq Entries /\ sealed \subseteq Entries

(* What the consolidation has in hand is a brief; a flag that is saved is  *)
(* in RAM too, or the session is not.                                      *)
Visited ==
  \A s \in Entries :
    /\ visiting[s] = "held" => held[s] # Absent
    /\ visiting[s] = "former" => former[s] # Absent
SealsShown == \A s \in sealed : held[s] # Absent => held[s].flag

RetentionInv == RecordsSound /\ Visited /\ SealsShown /\ ContestedStay

LEMMA BriefsStay ==
  ASSUME NEW b, Brief(b)
  PROVE  /\ b # Absent
         /\ Brief(Aged(b)) /\ Aged(b).flag = b.flag
         /\ Brief([b EXCEPT !.flag = TRUE]) /\ [b EXCEPT !.flag = TRUE].flag
<1>1. b # Absent /\ b.importance # "none"
  BY DEF Brief, Absent
<1>2. ASSUME NEW v
      PROVE  /\ Brief([b EXCEPT !.expired = v]) /\ [b EXCEPT !.expired = v].flag = b.flag
             /\ Brief([b EXCEPT !.flag = v]) /\ [b EXCEPT !.flag = v].flag = v
  <2>1. [b EXCEPT !.expired = v] =
          [importance |-> b.importance, deadline |-> b.deadline, expired |-> v,
           flag |-> b.flag, created |-> b.created]
    BY DEF Brief
  <2>2. [b EXCEPT !.flag = v] =
          [importance |-> b.importance, deadline |-> b.deadline, expired |-> b.expired,
           flag |-> v, created |-> b.created]
    BY DEF Brief
  <2>3. QED
    BY <1>1, <2>1, <2>2 DEF Brief
<1>3. Brief([b EXCEPT !.expired = TRUE]) /\ [b EXCEPT !.expired = TRUE].flag = b.flag
  BY <1>2
<1>4. Brief([b EXCEPT !.flag = TRUE]) /\ [b EXCEPT !.flag = TRUE].flag = TRUE
  BY <1>2
<1>5. QED
  BY <1>1, <1>3, <1>4 DEF Aged

LEMMA NewBrief ==
  ASSUME NEW importance \in Importances, NEW deadline, NEW expired, NEW flag, NEW created, NEW f
  PROVE  Brief([[importance |-> importance, deadline |-> deadline, expired |-> expired,
                 flag |-> flag, created |-> created] EXCEPT !.flag = f])
  BY RetentionAssumption DEF Brief

LEMMA RetentionStart == RetentionInit => RetentionInv
  BY DEF RetentionInit, RetentionInv, RecordsSound, BriefsIn, Visited, SealsShown, ContestedStay, HeldInRam

LEMMA PersistBeginsStep ==
  ASSUME RetentionInv, NEW s \in Entries, PersistBegins(s)
  PROVE  RetentionInv'
<1> USE DEF RetentionInv
<1>1. UNCHANGED <<entryRows, visiting, former, sealed>> /\ known' = known \union {s}
  BY DEF PersistBegins, worker
<1>2. PICK importance \in Importances, deadline \in {NotDue, clock + 1} :
        LET b == [importance |-> importance, deadline |-> deadline, expired |-> FALSE,
                  flag |-> FALSE, created |-> clock] IN
        /\ Flag(Against(s, b))
        /\ coming' = [coming EXCEPT ![s] = [b EXCEPT !.flag = (Against(s, b) # {})]]
  BY DEF PersistBegins
<1> DEFINE b == [importance |-> importance, deadline |-> deadline, expired |-> FALSE,
                 flag |-> FALSE, created |-> clock]
           A == Against(s, b)
<1>3. A \subseteq HeldInRam
  BY DEF Against
<1>4. /\ held' = [n \in Entries |-> IF n \in A THEN [held[n] EXCEPT !.flag = TRUE] ELSE held[n]]
      /\ raised' = raised \union A
  BY <1>2 DEF Flag
<1>5. Brief([b EXCEPT !.flag = (A # {})])
  BY NewBrief
<1>6. BriefsIn(coming')
  BY <1>2, <1>5 DEF RecordsSound, BriefsIn
<1> HIDE DEF A
<1>7. \A n \in A : Brief(held[n]) /\ Brief(held'[n]) /\ held'[n].flag
  BY <1>3, <1>4, BriefsStay DEF RecordsSound, BriefsIn, HeldInRam
<1>8. \A n \in Entries \ A : held'[n] = held[n]
  BY <1>4
<1>9. BriefsIn(held')
  BY <1>4, <1>7, <1>8 DEF RecordsSound, BriefsIn
<1>10. RecordsSound'
  BY <1>1, <1>3, <1>4, <1>6, <1>9 DEF RecordsSound, BriefsIn, HeldInRam
<1>11. \A n \in Entries : (held'[n] # Absent) <=> (held[n] # Absent)
  BY <1>3, <1>7, <1>8, BriefsStay DEF HeldInRam
<1>12. Visited'
  BY <1>1, <1>11 DEF Visited
<1>13. SealsShown'
  BY <1>1, <1>7, <1>8 DEF SealsShown, RecordsSound
<1>14. ContestedStay'
  <2>1. \A n \in raised' : n \in HeldInRam' /\ held'[n].flag
    BY <1>3, <1>4, <1>7, <1>8, <1>11 DEF ContestedStay, HeldInRam, RecordsSound
  <2>2. QED
    BY <1>1, <1>11, <2>1 DEF ContestedStay, HeldInRam
<1>15. QED
  BY <1>10, <1>12, <1>13, <1>14

LEMMA PersistEndsStep ==
  ASSUME RetentionInv, NEW s \in Entries, PersistEnds(s)
  PROVE  RetentionInv'
<1> USE DEF RetentionInv
<1> DEFINE b == coming[s]
<1>1. /\ b # Absent /\ coming' = [coming EXCEPT ![s] = Absent]
      /\ held' = [held EXCEPT ![s] = b] /\ Orphaned({s})
      /\ entryRows' = [entryRows EXCEPT ![s] = b] /\ known' = known
      /\ raised' = IF b.flag THEN raised \union {s} ELSE raised \ {s}
      /\ sealed' = IF b.flag /\ visiting[s] = "no" THEN sealed \union {s} ELSE sealed \ {s}
  BY DEF PersistEnds
<1>2. Brief(b)
  BY <1>1 DEF RecordsSound, BriefsIn
<1> HIDE DEF b
<1>3. /\ visiting' = [n \in Entries |-> IF n \in {s} /\ visiting[n] = "held" THEN "former" ELSE visiting[n]]
      /\ former' = [n \in Entries |-> IF n \in {s} /\ visiting[n] = "held" THEN held[n] ELSE former[n]]
  BY <1>1 DEF Orphaned
<1>4. held'[s] = b /\ entryRows'[s] = b
      /\ \A n \in Entries \ {s} : held'[n] = held[n] /\ entryRows'[n] = entryRows[n]
  BY <1>1 DEF RecordsSound, BriefsIn
<1>5. RecordsSound'
  <2>1. BriefsIn(held') /\ BriefsIn(coming') /\ BriefsIn(entryRows')
    BY <1>1, <1>2 DEF RecordsSound, BriefsIn
  <2>2. BriefsIn(former')
    BY <1>3 DEF RecordsSound, BriefsIn
  <2>3. visiting' \in [Entries -> {"no", "held", "former"}] /\ raised' \subseteq Entries /\ sealed' \subseteq Entries
    BY <1>1, <1>3 DEF RecordsSound
  <2>4. QED
    BY <1>1, <2>1, <2>2, <2>3 DEF RecordsSound
<1>6. Visited'
  BY <1>1, <1>3, <1>4 DEF Visited
<1>7. SealsShown'
  BY <1>1, <1>4 DEF SealsShown, RecordsSound
<1>8. ContestedStay'
  <2>1. \A n \in raised' : held'[n] # Absent /\ held'[n].flag
    BY <1>1, <1>4 DEF ContestedStay, HeldInRam, RecordsSound
  <2>2. \A n \in sealed' : entryRows'[n] # Absent /\ entryRows'[n].flag
    BY <1>1, <1>4 DEF ContestedStay, RecordsSound
  <2>3. \A n \in Entries : held'[n] # Absent => entryRows'[n] # Absent
    BY <1>1, <1>4 DEF ContestedStay, HeldInRam
  <2>4. QED
    BY <1>5, <2>1, <2>2, <2>3 DEF ContestedStay, HeldInRam, RecordsSound
<1>9. QED
  BY <1>5, <1>6, <1>7, <1>8

LEMMA LoadsRowStep ==
  ASSUME RetentionInv, NEW s \in Entries, LoadsRow(s)
  PROVE  RetentionInv'
<1> USE DEF RetentionInv
<1>1. /\ entryRows[s] # Absent /\ held' = [held EXCEPT ![s] = entryRows[s]] /\ Orphaned({s})
      /\ raised' = raised \ ({s} \ sealed)
      /\ UNCHANGED <<coming, known, entryRows, sealed>>
  BY DEF LoadsRow
<1>2. Brief(entryRows[s])
  BY <1>1 DEF RecordsSound, BriefsIn
<1>3. /\ visiting' = [n \in Entries |-> IF n \in {s} /\ visiting[n] = "held" THEN "former" ELSE visiting[n]]
      /\ former' = [n \in Entries |-> IF n \in {s} /\ visiting[n] = "held" THEN held[n] ELSE former[n]]
  BY <1>1 DEF Orphaned
<1>4. held'[s] = entryRows[s] /\ \A n \in Entries \ {s} : held'[n] = held[n]
  BY <1>1 DEF RecordsSound, BriefsIn
<1>5. RecordsSound'
  <2>1. BriefsIn(held')
    BY <1>1, <1>2 DEF RecordsSound, BriefsIn
  <2>2. BriefsIn(former')
    BY <1>3 DEF RecordsSound, BriefsIn
  <2>3. visiting' \in [Entries -> {"no", "held", "former"}] /\ raised' \subseteq Entries
    BY <1>1, <1>3 DEF RecordsSound
  <2>4. QED
    BY <1>1, <2>1, <2>2, <2>3 DEF RecordsSound, BriefsIn
<1>6. Visited'
  BY <1>1, <1>3, <1>4 DEF Visited
<1>7. SealsShown'
  BY <1>1, <1>4 DEF SealsShown, RecordsSound, ContestedStay
<1>8. ContestedStay'
  BY <1>1, <1>4 DEF ContestedStay, HeldInRam, RecordsSound
<1>9. QED
  BY <1>5, <1>6, <1>7, <1>8

LEMMA RestartHydratesStep ==
  ASSUME RetentionInv, RestartHydrates
  PROVE  RetentionInv'
<1> USE DEF RetentionInv
<1>1. PICK S \in SUBSET {s \in Entries : entryRows[s] # Absent} :
        /\ held' = [s \in Entries |-> IF s \in S THEN entryRows[s] ELSE Absent]
        /\ known' = S /\ raised' = raised \intersect sealed \intersect S
  BY DEF RestartHydrates
<1>2. /\ coming' = [s \in Entries |-> Absent] /\ former' = coming' /\ visiting' = [s \in Entries |-> "no"]
      /\ UNCHANGED <<entryRows, sealed>>
  BY DEF RestartHydrates
<1>3. RecordsSound'
  <2>1. BriefsIn(held')
    BY <1>1 DEF RecordsSound, BriefsIn
  <2>2. BriefsIn(coming') /\ BriefsIn(former')
    BY <1>2 DEF BriefsIn
  <2>3. QED
    BY <1>1, <1>2, <2>1, <2>2 DEF RecordsSound, BriefsIn
<1>4. Visited' /\ SealsShown' /\ ContestedStay'
  BY <1>1, <1>2 DEF Visited, SealsShown, ContestedStay, HeldInRam, RecordsSound
<1>5. QED
  BY <1>3, <1>4

LEMMA DissolveStep ==
  ASSUME RetentionInv, Dissolve
  PROVE  RetentionInv'
<1> USE DEF RetentionInv
<1>1. PICK tight \in BOOLEAN : \E S \in SUBSET {s \in HeldInRam : CanEvict(held[s], tight)} :
        /\ held' = [s \in Entries |-> IF s \in S THEN Absent ELSE held[s]] /\ Orphaned(S)
        /\ known' = HeldInRam \ S
  BY DEF Dissolve
<1>2. PICK S \in SUBSET {s \in HeldInRam : CanEvict(held[s], tight)} :
        /\ held' = [s \in Entries |-> IF s \in S THEN Absent ELSE held[s]] /\ Orphaned(S)
        /\ known' = HeldInRam \ S
  BY <1>1
<1>3. UNCHANGED <<coming, entryRows, raised, sealed>>
  BY DEF Dissolve, marks
<1>4. \A s \in S : s \in HeldInRam /\ ~held[s].flag
  BY DEF CanEvict
<1>5. /\ visiting' = [n \in Entries |-> IF n \in S /\ visiting[n] = "held" THEN "former" ELSE visiting[n]]
      /\ former' = [n \in Entries |-> IF n \in S /\ visiting[n] = "held" THEN held[n] ELSE former[n]]
  BY <1>2 DEF Orphaned
<1>6. RecordsSound'
  <2>1. BriefsIn(held')
    BY <1>2 DEF RecordsSound, BriefsIn
  <2>2. BriefsIn(former')
    BY <1>5 DEF RecordsSound, BriefsIn
  <2>3. visiting' \in [Entries -> {"no", "held", "former"}] /\ known' \subseteq Entries
    BY <1>2, <1>5 DEF HeldInRam, RecordsSound
  <2>4. QED
    BY <1>3, <2>1, <2>2, <2>3 DEF RecordsSound, BriefsIn
<1>7. Visited'
  BY <1>2, <1>5 DEF Visited
<1>8. SealsShown' /\ ContestedStay'
  BY <1>2, <1>3, <1>4 DEF SealsShown, ContestedStay, HeldInRam, RecordsSound
<1>9. QED
  BY <1>6, <1>7, <1>8

LEMMA ConsolidateOnStep ==
  ASSUME RetentionInv, ConsolidateOn
  PROVE  RetentionInv'
<1> USE DEF RetentionInv
<1>1. PICK S \in SUBSET {s \in Entries : visiting[s] # "no"} :
        /\ held' = [s \in Entries |-> IF s \in S /\ visiting[s] = "held" THEN Aged(held[s]) ELSE held[s]]
        /\ entryRows' = [s \in Entries |-> IF s \in S THEN Aged(Object(s)) ELSE entryRows[s]]
        /\ visiting' = [s \in Entries |-> IF s \in S THEN "no" ELSE visiting[s]]
        /\ former' = [s \in Entries |-> IF s \in S THEN Absent ELSE former[s]]
        /\ sealed' = (sealed \ {s \in S : visiting[s] = "former"})
                       \union {s \in S : visiting[s] = "held" /\ held[s].flag}
  BY DEF ConsolidateOn
<1>2. UNCHANGED <<coming, known, raised>>
  BY DEF ConsolidateOn
<1>3. \A s \in S : Brief(Object(s)) /\ (visiting[s] = "held" => Object(s) = held[s])
  BY DEF Visited, RecordsSound, BriefsIn, Object
<1>4. \A s \in S : Brief(Aged(Object(s))) /\ Aged(Object(s)).flag = Object(s).flag
  BY <1>3, BriefsStay
<1> DEFINE Now(s) == Aged(Object(s))
<1>5. /\ \A s \in S : entryRows'[s] = Now(s) /\ Now(s) # Absent /\ Now(s).flag = Object(s).flag
      /\ \A s \in S : visiting[s] = "held" => held'[s] = Now(s) /\ Now(s).flag = held[s].flag
      /\ \A s \in Entries \ S : entryRows'[s] = entryRows[s]
      /\ \A s \in Entries : ~(s \in S /\ visiting[s] = "held") => held'[s] = held[s]
  BY <1>1, <1>3, <1>4, BriefsStay
<1>6. RecordsSound'
  <2>1. BriefsIn(held')
    BY <1>1, <1>3, <1>4 DEF RecordsSound, BriefsIn
  <2>2. BriefsIn(entryRows')
    BY <1>1, <1>4 DEF RecordsSound, BriefsIn
  <2>3. BriefsIn(former')
    BY <1>1 DEF RecordsSound, BriefsIn
  <2>4. visiting' \in [Entries -> {"no", "held", "former"}] /\ sealed' \subseteq Entries
    BY <1>1 DEF RecordsSound
  <2>5. QED
    BY <1>2, <2>1, <2>2, <2>3, <2>4 DEF RecordsSound, BriefsIn
<1> HIDE DEF Now
<1>7. \A s \in Entries : (held'[s] # Absent <=> held[s] # Absent) /\ (held[s] # Absent => held'[s].flag = held[s].flag)
  <2>1. ASSUME NEW s \in Entries, s \in S, visiting[s] = "held"
        PROVE  held[s] # Absent /\ held'[s] # Absent /\ held'[s].flag = held[s].flag
    BY <1>5, <2>1 DEF Visited
  <2>2. QED
    BY <1>5, <2>1
<1>8. Visited'
  BY <1>1, <1>7 DEF Visited
<1>9. SealsShown'
  BY <1>1, <1>7 DEF SealsShown, RecordsSound
<1>10. ContestedStay'
  <2>1. \A s \in raised' : held'[s] # Absent /\ held'[s].flag
    BY <1>2, <1>7 DEF ContestedStay, HeldInRam, RecordsSound
  <2>2. ASSUME NEW s \in sealed' PROVE entryRows'[s] # Absent /\ entryRows'[s].flag
    <3>1. CASE s \notin S
      BY <1>1, <1>5, <2>2, <3>1 DEF ContestedStay, RecordsSound
    <3>2. CASE s \in S /\ visiting[s] = "held"
      <4>1. held[s].flag
        BY <1>1, <2>2, <3>2 DEF SealsShown, Visited
      <4>2. QED
        BY <1>5, <3>2, <4>1
    <3>3. s \in S => visiting[s] = "held"
      BY <1>1, <2>2 DEF RecordsSound
    <3>4. QED
      BY <3>1, <3>2, <3>3
  <2>3. \A s \in Entries : held'[s] # Absent => entryRows'[s] # Absent
    BY <1>5, <1>7 DEF ContestedStay, HeldInRam
  <2>4. QED
    BY <1>6, <2>1, <2>2, <2>3 DEF ContestedStay, HeldInRam, RecordsSound
<1>11. QED
  BY <1>6, <1>8, <1>9, <1>10

LEMMA OtherRetentionStep ==
  ASSUME RetentionInv, ConsolidationBegins \/ TimePassesBy \/ UNCHANGED retentionVars
  PROVE  RetentionInv'
<1> USE DEF RetentionInv
<1>1. UNCHANGED <<held, coming, entryRows, former, known, raised, sealed>>
  BY DEF ConsolidationBegins, TimePassesBy, retentionVars, worker, marks
<1>2. visiting' = visiting \/ visiting' = [s \in Entries |-> IF s \in HeldInRam THEN "held" ELSE "no"]
  BY DEF ConsolidationBegins, TimePassesBy, retentionVars, worker
<1>3. RecordsSound'
  BY <1>1, <1>2 DEF RecordsSound, BriefsIn
<1>4. Visited'
  BY <1>1, <1>2 DEF Visited, HeldInRam
<1>5. SealsShown' /\ ContestedStay'
  BY <1>1 DEF SealsShown, ContestedStay, HeldInRam
<1>6. QED
  BY <1>3, <1>4, <1>5

(* Both sides of a contradiction that was found stay in RAM, flagged, and  *)
(* a flag that a consolidation has saved survives loads and restarts, for  *)
(* any sessions and contradictions, and whatever the dissolver, the        *)
(* consolidation and the loaders do in between.                            *)
THEOREM ContestedAlwaysStay == RetentionSpec => []ContestedStay
<1>1. RetentionInit => RetentionInv
  BY RetentionStart
<1>2. RetentionInv /\ [RetentionNext]_retentionVars => RetentionInv'
  <2> SUFFICES ASSUME RetentionInv, [RetentionNext]_retentionVars PROVE RetentionInv'
    OBVIOUS
  <2>1. ASSUME NEW s \in Entries, PersistBegins(s) \/ PersistEnds(s) \/ LoadsRow(s)
        PROVE  RetentionInv'
    BY <2>1, PersistBeginsStep, PersistEndsStep, LoadsRowStep
  <2>2. QED
    BY <2>1, ConsolidateOnStep, DissolveStep, RestartHydratesStep, OtherRetentionStep DEF RetentionNext
<1>3. RetentionInv => ContestedStay
  BY DEF RetentionInv
<1>4. QED
  BY <1>1, <1>2, <1>3, PTL DEF RetentionSpec

-----------------------------------------------------------------------------
(* The weights under the auto-recalibrator (feedback/recalibrator.py).     *)
CalibrationSpec == CalibrationInit /\ [][CalibrationNext]_calibrationVars

Dimensions == {"alpha", "beta", "gamma"}
TopSum == 10000 + Rate
HalfStep == Rate \div 2
WeightsInv == weights \in [Dimensions -> Nat] /\ WeightsSound

-----------------------------------------------------------------------------
(* Products and quotients.                                                 *)
LEMMA Quotient ==
  ASSUME NEW a \in Nat, NEW t \in Nat \ {0}
  PROVE  a \div t \in Nat /\ (a \div t) * t <= a /\ a < (a \div t + 1) * t
  OBVIOUS

LEMMA ProductMono == ASSUME NEW a \in Nat, NEW b \in Nat, NEW c \in Nat, a <= b PROVE a * c <= b * c
  OBVIOUS

LEMMA ProductCancel == ASSUME NEW a \in Int, NEW b \in Int, NEW c \in Nat \ {0}, a * c <= b * c PROVE a <= b
  OBVIOUS

LEMMA ProductCancelStrict == ASSUME NEW a \in Int, NEW b \in Int, NEW c \in Nat \ {0}, a * c < b * c PROVE a < b
  OBVIOUS

LEMMA CodeRates == /\ Rate \in Nat /\ HalfStep \in Nat /\ TopSum \in Nat \ {0} /\ Floor \in Nat \ {0} /\ Ceiling \in Nat
               /\ Rate - 1 <= 2 * HalfStep /\ 2 * HalfStep <= Rate /\ 4 * Floor <= 10000 /\ Floor <= Ceiling
  BY RecalibrationAssumption DEF HalfStep, TopSum

(* A weight that keeps its floor, but for the division, is at most half a  *)
(* step below it.                                                          *)
LEMMA NearFloor ==
  ASSUME NEW x \in Nat, (x + 1) * TopSum >= Floor * 10000
  PROVE  Floor <= x + HalfStep
<1> SUFFICES ASSUME x + 1 + HalfStep <= Floor PROVE FALSE
  BY CodeRates
<1> DEFINE d == Floor - HalfStep
<1>1. d \in Nat /\ x + 1 <= d
  BY CodeRates
<1>2. (x + 1) * TopSum <= d * TopSum
  BY <1>1, CodeRates, ProductMono
<1>3. d * TopSum = Floor * 10000 + Floor * Rate - HalfStep * 10000 - HalfStep * Rate
  BY CodeRates DEF TopSum
<1>4. Floor * Rate <= 2500 * Rate
  BY CodeRates, ProductMono
<1>5. HalfStep * Rate >= 0
  BY CodeRates
<1>6. HalfStep * 10000 > 2500 * Rate
  BY CodeRates, RecalibrationAssumption
<1>7. Floor * 10000 \in Nat /\ Floor * Rate \in Nat /\ HalfStep * Rate \in Nat /\ (x + 1) * TopSum \in Nat /\ d * TopSum \in Int
  BY <1>1, CodeRates
<1> HIDE DEF d
<1>8. QED
  BY <1>2, <1>3, <1>4, <1>5, <1>6, <1>7, CodeRates

(* The sum of the clamped weights.                                         *)
LEMMA ClampedRoom ==
  ASSUME NEW x \in Nat, NEW y \in Nat, NEW z \in Nat, x + y + z <= 10000,
         Floor <= x + HalfStep, Floor <= y + HalfStep, Floor <= z + HalfStep
  PROVE  Clip(x + Rate) + Clip(y - HalfStep) + Clip(z - HalfStep) <= TopSum
  BY CodeRates, RecalibrationAssumption DEF Clip, TopSum

LEMMA Clipped ==
  ASSUME NEW x \in Int
  PROVE  Clip(x) \in Nat /\ Floor <= Clip(x) /\ Clip(x) <= Ceiling
  BY CodeRates DEF Clip

(* A share of the sum.                                                     *)
LEMMA ClampedShare ==
  ASSUME NEW p \in Nat, NEW t \in Nat, Floor <= p, p <= Ceiling, p + 2 * Floor <= t, t <= TopSum,
         NEW w, w = (p * 10000) \div t
  PROVE  /\ w \in Nat /\ w * t <= p * 10000 /\ p * 10000 < (w + 1) * t
         /\ (w + 1) * TopSum >= Floor * 10000
         /\ w * (Ceiling + 2 * Floor) <= Ceiling * 10000
<1>1. w \in Nat /\ w * t <= p * 10000 /\ p * 10000 < (w + 1) * t /\ t \in Nat \ {0}
  BY CodeRates, Quotient
<1>2. (w + 1) * TopSum >= Floor * 10000
  <2>1. t * (w + 1) <= TopSum * (w + 1)
    BY <1>1, CodeRates, ProductMono
  <2>2. t * (w + 1) = (w + 1) * t /\ TopSum * (w + 1) = (w + 1) * TopSum
    BY <1>1, CodeRates
  <2>3. Floor * 10000 <= p * 10000
    BY CodeRates
  <2>4. (w + 1) * t \in Nat /\ (w + 1) * TopSum \in Nat
    BY <1>1, CodeRates
  <2>5. QED
    BY <1>1, <2>1, <2>2, <2>3, <2>4, CodeRates
<1>3. w * (Ceiling + 2 * Floor) <= Ceiling * 10000
  <2> DEFINE d == Ceiling - p
             s == p + 2 * Floor
  <2>1. d \in Nat /\ s \in Nat \ {0} /\ s <= t
    BY CodeRates
  <2>2. w * s <= p * 10000
    <3>1. s * w <= t * w
      BY <1>1, <2>1, ProductMono
    <3>2. s * w = w * s /\ t * w = w * t /\ w * s \in Nat /\ w * t \in Nat
      BY <1>1, <2>1
    <3>3. QED
      BY <1>1, <3>1, <3>2
  <2>3. w <= 10000
    <3>1. p * 10000 <= s * 10000 /\ s * 10000 = 10000 * s
      BY <2>1, CodeRates
    <3>2. w * s <= 10000 * s
      BY <2>2, <3>1, <1>1, <2>1
    <3>3. QED
      BY <1>1, <2>1, <3>2, ProductCancel
  <2>4. w * d <= 10000 * d
    BY <1>1, <2>1, <2>3, ProductMono
  <2>5. w * (Ceiling + 2 * Floor) = w * s + w * d
    <3>1. Ceiling + 2 * Floor = s + d
      BY CodeRates
    <3>2. w * (s + d) = w * s + w * d
      BY <1>1, <2>1
    <3>3. QED
      BY <3>1, <3>2
  <2>6. Ceiling * 10000 = p * 10000 + 10000 * d
    BY CodeRates
  <2>7. w * s \in Nat /\ w * d \in Nat
    BY <1>1, <2>1
  <2> HIDE DEF s, d
  <2>8. QED
    BY <1>1, <2>1, <2>2, <2>4, <2>5, <2>6, <2>7, CodeRates
<1>4. QED
  BY <1>1, <1>2, <1>3

(* What rounding down takes of three shares.                               *)
LEMMA SharesSum ==
  ASSUME NEW p \in Nat, NEW q \in Nat, NEW r \in Nat, NEW u \in Nat, NEW v \in Nat, NEW w \in Nat,
         NEW t \in Nat \ {0}, t = p + q + r,
         u * t <= p * 10000, p * 10000 < (u + 1) * t,
         v * t <= q * 10000, q * 10000 < (v + 1) * t,
         w * t <= r * 10000, r * 10000 < (w + 1) * t
  PROVE  9997 <= u + v + w /\ u + v + w <= 10000
<1>1. (u + v + w) * t = u * t + v * t + w * t
  OBVIOUS
<1>2. (u + 1) * t = u * t + t /\ (v + 1) * t = v * t + t /\ (w + 1) * t = w * t + t
  OBVIOUS
<1>3. (u + v + w + 3) * t = u * t + v * t + w * t + 3 * t
  OBVIOUS
<1>4. 10000 * t = p * 10000 + q * 10000 + r * 10000
  OBVIOUS
<1>5. u * t \in Nat /\ v * t \in Nat /\ w * t \in Nat
  OBVIOUS
<1>6. (u + v + w) * t <= 10000 * t
  BY <1>1, <1>4, <1>5
<1>7. 10000 * t < (u + v + w + 3) * t
  BY <1>2, <1>3, <1>4, <1>5
<1>8. u + v + w <= 10000
  BY <1>6, ProductCancel
<1>9. 10000 < u + v + w + 3
  BY <1>7, ProductCancelStrict
<1>10. QED
  BY <1>8, <1>9

-----------------------------------------------------------------------------
LEMMA NudgedUp ==
  ASSUME NEW w, w \in [Dimensions -> Int]
  PROVE  Nudged(w, 1) =
           [k \in Dimensions |-> IF k = "alpha" THEN w["alpha"] + Rate
                          ELSE IF k = "beta" THEN w["beta"] - HalfStep ELSE w["gamma"] - HalfStep]
<1>1. Nudged(w, 1) = [k \in Dimensions |-> IF k = "alpha" THEN w[k] + 1 * Rate ELSE w[k] - 1 * (Rate \div 2)]
  BY DEF Nudged, Dimensions
<1>2. 1 * Rate = Rate /\ 1 * (Rate \div 2) = HalfStep
  BY CodeRates DEF HalfStep
<1>3. QED
  BY <1>1, <1>2 DEF Dimensions

LEMMA CalibrationStart == CalibrationInit => WeightsInv
<1> SUFFICES ASSUME CalibrationInit PROVE WeightsInv
  OBVIOUS
<1>1. weights \in [Dimensions -> Nat] /\ DOMAIN weights = Dimensions
  BY DEF CalibrationInit, Dimensions
<1>2. weights["alpha"] = 5000 /\ weights["beta"] = 3000 /\ weights["gamma"] = 2000
  BY DEF CalibrationInit
<1>3. ASSUME NEW n \in {2000, 3000, 5000}
      PROVE (n + 1) * TopSum >= Floor * 10000 /\ n * (Ceiling + 2 * Floor) <= Ceiling * 10000
  <2>1. CASE n = 2000
    BY <2>1, CodeRates, RecalibrationAssumption DEF TopSum
  <2>2. CASE n = 3000
    BY <2>2, CodeRates, RecalibrationAssumption DEF TopSum
  <2>3. CASE n = 5000
    <3>1. 5001 * (10000 + Rate) >= Floor * 10000
      BY CodeRates
    <3>2. 5000 * (Ceiling + 2 * Floor) <= Ceiling * 10000
      BY CodeRates, RecalibrationAssumption
    <3>3. QED
      BY <2>3, <3>1, <3>2 DEF TopSum
  <2>4. QED
    BY <2>1, <2>2, <2>3
<1>4. QED
  BY <1>1, <1>2, <1>3 DEF WeightsInv, WeightsSound, Dimensions, TopSum

LEMMA ProjectStep ==
  ASSUME WeightsInv
  PROVE  LET w == Project(Nudged(weights, 1)) IN
         /\ w \in [Dimensions -> Nat]
         /\ 9997 <= w["alpha"] + w["beta"] + w["gamma"] /\ w["alpha"] + w["beta"] + w["gamma"] <= 10000
         /\ \A k \in Dimensions : /\ (w[k] + 1) * TopSum >= Floor * 10000
                           /\ w[k] * (Ceiling + 2 * Floor) <= Ceiling * 10000
<1> DEFINE x == weights["alpha"]
           y == weights["beta"]
           z == weights["gamma"]
<1>1. x \in Nat /\ y \in Nat /\ z \in Nat /\ x + y + z <= 10000 /\ DOMAIN weights = Dimensions
  BY DEF WeightsInv, WeightsSound, Dimensions
<1>2. Floor <= x + HalfStep /\ Floor <= y + HalfStep /\ Floor <= z + HalfStep
  <2>1. \A k \in Dimensions : (weights[k] + 1) * TopSum >= Floor * 10000
    BY <1>1 DEF WeightsInv, WeightsSound, TopSum
  <2>2. \A k \in Dimensions : Floor <= weights[k] + HalfStep
    BY <2>1, NearFloor DEF WeightsInv
  <2>3. QED
    BY <2>2 DEF Dimensions
<1> DEFINE n == [k \in Dimensions |-> IF k = "alpha" THEN x + Rate ELSE IF k = "beta" THEN y - HalfStep ELSE z - HalfStep]
<1>3. Nudged(weights, 1) = n
  <2>1. weights \in [Dimensions -> Int]
    BY DEF WeightsInv
  <2>2. QED
    BY <2>1, NudgedUp
<1> DEFINE p == Clip(x + Rate)
           q == Clip(y - HalfStep)
           r == Clip(z - HalfStep)
           t == p + q + r
<1>4. /\ p \in Nat /\ q \in Nat /\ r \in Nat /\ t \in Nat \ {0}
      /\ Floor <= p /\ Floor <= q /\ Floor <= r /\ p <= Ceiling /\ q <= Ceiling /\ r <= Ceiling
  <2>1. x + Rate \in Int /\ y - HalfStep \in Int /\ z - HalfStep \in Int
    BY <1>1, CodeRates
  <2>2. QED
    BY <2>1, Clipped, CodeRates
<1>5. t <= TopSum
  BY <1>1, <1>2, ClampedRoom
<1> DEFINE c == [k \in Dimensions |-> IF k = "alpha" THEN p ELSE IF k = "beta" THEN q ELSE r]
<1>6. Project(Nudged(weights, 1)) = [k \in Dimensions |-> (c[k] * 10000) \div t]
  <2>1. DOMAIN n = Dimensions /\ [k \in Dimensions |-> Clip(n[k])] = c
    BY DEF Dimensions
  <2>2. Project(n) = LET e == [k \in Dimensions |-> Clip(n[k])] IN
                     [k \in Dimensions |-> (e[k] * 10000) \div (e["alpha"] + e["beta"] + e["gamma"])]
    BY <2>1 DEF Project
  <2>3. c["alpha"] = p /\ c["beta"] = q /\ c["gamma"] = r
    BY DEF Dimensions
  <2>4. QED
    BY <1>3, <2>1, <2>2, <2>3
<1> DEFINE f == Project(Nudged(weights, 1))
<1> HIDE DEF n, p, q, r, x, y, z
<1>7. \A k \in Dimensions : c[k] \in Nat /\ Floor <= c[k] /\ c[k] <= Ceiling /\ c[k] + 2 * Floor <= t
  BY <1>4, CodeRates DEF Dimensions
<1>8. c["alpha"] = p /\ c["beta"] = q /\ c["gamma"] = r /\ \A k \in Dimensions : f[k] = (c[k] * 10000) \div t
  BY <1>6 DEF Dimensions
<1> HIDE DEF c, t
<1>9. ASSUME NEW k \in Dimensions
      PROVE  /\ f[k] \in Nat /\ f[k] * t <= c[k] * 10000 /\ c[k] * 10000 < (f[k] + 1) * t
             /\ (f[k] + 1) * TopSum >= Floor * 10000 /\ f[k] * (Ceiling + 2 * Floor) <= Ceiling * 10000
  <2>1. c[k] \in Nat /\ Floor <= c[k] /\ c[k] <= Ceiling /\ c[k] + 2 * Floor <= t
    BY <1>7
  <2>2. f[k] = (c[k] * 10000) \div t
    BY <1>8
  <2>3. t \in Nat /\ t <= TopSum
    BY <1>4, <1>5
  <2> HIDE DEF f
  <2>4. QED
    BY <2>1, <2>2, <2>3, ClampedShare
<1>10. f \in [Dimensions -> Nat]
  BY <1>6, <1>8, <1>9
<1> HIDE DEF f
<1>11. 9997 <= f["alpha"] + f["beta"] + f["gamma"] /\ f["alpha"] + f["beta"] + f["gamma"] <= 10000
  <2>1. "alpha" \in Dimensions /\ "beta" \in Dimensions /\ "gamma" \in Dimensions
    BY DEF Dimensions
  <2>2. t = p + q + r
    BY DEF t
  <2>3. f["alpha"] \in Nat /\ f["alpha"] * t <= p * 10000 /\ p * 10000 < (f["alpha"] + 1) * t
    BY <1>8, <1>9, <2>1
  <2>4. f["beta"] \in Nat /\ f["beta"] * t <= q * 10000 /\ q * 10000 < (f["beta"] + 1) * t
    BY <1>8, <1>9, <2>1
  <2>5. f["gamma"] \in Nat /\ f["gamma"] * t <= r * 10000 /\ r * 10000 < (f["gamma"] + 1) * t
    BY <1>8, <1>9, <2>1
  <2>6. p \in Nat /\ q \in Nat /\ r \in Nat /\ t \in Nat \ {0}
    BY <1>4
  <2>7. QED
    BY <2>2, <2>3, <2>4, <2>5, <2>6, SharesSum
<1>12. QED
  BY <1>9, <1>10, <1>11 DEF f

LEMMA CalibrationStep ==
  ASSUME WeightsInv, [CalibrationNext]_calibrationVars
  PROVE  WeightsInv'
<1>1. weights' = weights \/ weights' = Project(Nudged(weights, 1))
  BY DEF CalibrationNext, RunRecalibration, calibrationVars, Direction
<1>2. CASE weights' = weights
  BY <1>2 DEF WeightsInv, WeightsSound
<1>3. CASE weights' = Project(Nudged(weights, 1))
  <2> DEFINE w == Project(Nudged(weights, 1))
  <2>1. /\ w \in [Dimensions -> Nat]
        /\ 9997 <= w["alpha"] + w["beta"] + w["gamma"] /\ w["alpha"] + w["beta"] + w["gamma"] <= 10000
        /\ \A k \in Dimensions : /\ (w[k] + 1) * TopSum >= Floor * 10000
                          /\ w[k] * (Ceiling + 2 * Floor) <= Ceiling * 10000
    BY ProjectStep
  <2>2. weights' = w
    BY <1>3
  <2> HIDE DEF w
  <2>3. QED
    BY <2>1, <2>2 DEF WeightsInv, WeightsSound, TopSum, Dimensions
<1>4. QED
  BY <1>1, <1>2, <1>3

(* However often the recalibrator runs, the weights stay a division of one *)
(* and none is lost, for any rates the assumption allows.                  *)
THEOREM WeightsAlwaysSound == CalibrationSpec => []WeightsSound
<1>1. WeightsInv => WeightsSound
  BY DEF WeightsInv
<1>2. QED
  BY CalibrationStart, CalibrationStep, <1>1, PTL DEF CalibrationSpec

(* Together: contested sessions stay, and the weights stay within bounds.  *)
THEOREM RankingIsSound == RetentionSpec /\ CalibrationSpec => []RankingSound
<1>1. ContestedStay /\ WeightsSound => RankingSound
  BY DEF RankingSound
<1>2. QED
  BY <1>1, ContestedAlwaysStay, WeightsAlwaysSound, PTL

-----------------------------------------------------------------------------
(* What is learnt of topics (memory/experience.py).                        *)
ExpSpec == ExpInit /\ [][ExpNext]_expVars

LEMMA ExpBounds ==
  /\ IsFiniteSet(Tags) /\ Practised \in Nat /\ Expert \in Nat /\ Practised <= Expert
  /\ VecsCap \in Nat /\ VecsCap > 0 /\ Losses \subseteq Nat
  /\ MaxRecords \in Nat /\ MaxVectors \in Nat /\ MaxSaveFaults \in Nat
  BY ExperienceAssumption

(* The time stamps that a list with room for VecsCap keeps.                *)
Later(S, x) == {u \in S : u > x}
Top(S) == {x \in S : Cardinality(Later(S, x)) < VecsCap}
Rising(list) == \A i, j \in DOMAIN list : i < j => list[i] < list[j]
Distinct(list) == \A i, j \in DOMAIN list : list[i] = list[j] => i = j

LEMMA TopIsEnough ==
  ASSUME NEW X \in SUBSET (1..MaxVectors), NEW Y \in SUBSET (1..MaxVectors)
  PROVE  Top(Top(X) \union Y) = Top(X \union Y)
<1> USE ExpBounds
<1> DEFINE Z == X \union Y
           W == Top(X) \union Y
<1>1. /\ Top(X) \subseteq X /\ W \subseteq Z /\ Z \subseteq 1..MaxVectors
  BY DEF Top
<1>2. \A S \in SUBSET (1..MaxVectors) : IsFiniteSet(S) /\ Cardinality(S) \in Nat
  <2>1. IsFiniteSet(1..MaxVectors)
    BY FS_Interval
  <2>2. \A S \in SUBSET (1..MaxVectors) : IsFiniteSet(S)
    BY <2>1, FS_Subset
  <2>3. QED
    BY <2>2, FS_CardinalityType
<1>3. \A S, T \in SUBSET (1..MaxVectors) : S \subseteq T => Cardinality(S) <= Cardinality(T)
  BY <1>2, FS_Subset
<1>4. \A x : \A S \in SUBSET (1..MaxVectors) : Later(S, x) \in SUBSET (1..MaxVectors)
  BY DEF Later
<1>5. Top(Z) \subseteq Top(W)
  <2>1. SUFFICES ASSUME NEW x \in Top(Z) PROVE x \in Top(W)
    OBVIOUS
  <2>2. x \in Z /\ Cardinality(Later(Z, x)) < VecsCap
    BY DEF Top
  <2>3. Later(X, x) \subseteq Later(Z, x) /\ Later(W, x) \subseteq Later(Z, x)
    BY <1>1 DEF Later
  <2>4. Cardinality(Later(X, x)) <= Cardinality(Later(Z, x)) /\ Cardinality(Later(W, x)) <= Cardinality(Later(Z, x))
    BY <1>1, <1>3, <1>4, <2>3
  <2>5. Cardinality(Later(X, x)) \in Nat /\ Cardinality(Later(W, x)) \in Nat /\ Cardinality(Later(Z, x)) \in Nat
    BY <1>1, <1>2, <1>4
  <2>6. Cardinality(Later(X, x)) < VecsCap /\ Cardinality(Later(W, x)) < VecsCap
    BY <2>2, <2>4, <2>5
  <2>7. x \in W
    BY <2>2, <2>6 DEF Top
  <2>8. QED
    BY <2>6, <2>7 DEF Top
<1>6. Top(W) \subseteq Top(Z)
  <2>1. SUFFICES ASSUME NEW x \in Top(W), x \notin Top(Z) PROVE FALSE
    OBVIOUS
  <2>2. x \in W /\ x \in Z /\ Cardinality(Later(W, x)) < VecsCap /\ x \in Nat
    BY <1>1 DEF Top
  <2>3. \E u \in X : u > x /\ u \notin Top(X)
    <3>1. SUFFICES ASSUME \A u \in X : u > x => u \in Top(X) PROVE FALSE
      OBVIOUS
    <3>2. Later(Z, x) \subseteq Later(W, x)
      BY <3>1 DEF Later
    <3>3. Later(Z, x) = Later(W, x)
      BY <1>1, <3>2 DEF Later
    <3>4. QED
      BY <2>1, <2>2, <3>3 DEF Top
  <2> DEFINE D == {m \in Nat : \E u \in X : u > x /\ u \notin Top(X) /\ m = MaxVectors - u}
  <2>4. D \in SUBSET Nat /\ D # {}
    BY <2>3
  <2>5. Min(D) \in D /\ \A m \in D : Min(D) <= m
    BY <2>4, LeastNumber
  <2>6. PICK u \in X : u > x /\ u \notin Top(X) /\ Min(D) = MaxVectors - u
    BY <2>5
  <2>7. \A w \in X : w > x /\ w \notin Top(X) => w <= u
    <3>1. SUFFICES ASSUME NEW w \in X, w > x, w \notin Top(X) PROVE w <= u
      OBVIOUS
    <3>2. w \in 1..MaxVectors /\ u \in 1..MaxVectors /\ MaxVectors - w \in D
      BY <3>1
    <3>3. MaxVectors - u <= MaxVectors - w
      BY <2>5, <2>6, <3>2
    <3>4. QED
      BY <3>2, <3>3
  <2> HIDE DEF D
  <2>8. Later(X, u) \subseteq Later(W, x)
    <3>1. SUFFICES ASSUME NEW w \in X, w > u PROVE w \in W /\ w > x
      BY DEF Later
    <3>2. w \in 1..MaxVectors /\ u \in 1..MaxVectors
      OBVIOUS
    <3>5. w > x /\ ~(w <= u)
      BY <2>2, <2>6, <3>1, <3>2
    <3>3. w \in Top(X)
      BY <2>7, <3>5
    <3>4. QED
      BY <3>3, <3>5
  <2>9. Cardinality(Later(X, u)) >= VecsCap
    BY <1>2, <1>4, <2>6 DEF Top
  <2>10. Cardinality(Later(X, u)) <= Cardinality(Later(W, x))
    BY <1>1, <1>3, <1>4, <2>8
  <2>11. Cardinality(Later(X, u)) \in Nat /\ Cardinality(Later(W, x)) \in Nat
    BY <1>1, <1>2, <1>4
  <2>12. QED
    BY <2>2, <2>9, <2>10, <2>11
<1>7. QED
  BY <1>5, <1>6

LEMMA CountTo ==
  ASSUME NEW n \in Nat
  PROVE  IsFiniteSet(1..n) /\ Cardinality(1..n) = n
<1>1. IsFiniteSet(1..n) /\ Cardinality(1..n) = IF 1 > n THEN 0 ELSE n - 1 + 1
  BY FS_Interval
<1>2. QED
  BY <1>1

(* A list within the cap loses nothing.                                    *)
LEMMA ListSize ==
  ASSUME NEW list \in Seq(Nat)
  PROVE  IsFiniteSet(ToSet(list)) /\ Cardinality(ToSet(list)) \in Nat /\ Cardinality(ToSet(list)) <= Len(list)
<1>1. list \in Surjection(1..Len(list), ToSet(list))
  BY DEF ToSet, Surjection
<1>2. IsFiniteSet(1..Len(list)) /\ Cardinality(1..Len(list)) = Len(list)
  BY CountTo
<1>3. IsFiniteSet(ToSet(list)) /\ Cardinality(ToSet(list)) <= Cardinality(1..Len(list))
  BY <1>1, <1>2, FS_Surjection
<1>4. QED
  BY <1>2, <1>3, FS_CardinalityType

LEMMA WithinCap ==
  ASSUME NEW list \in Seq(Nat), Len(list) <= VecsCap
  PROVE  Top(ToSet(list)) = ToSet(list)
<1> USE ExpBounds
<1> DEFINE S == ToSet(list)
<1>1. IsFiniteSet(S) /\ Cardinality(S) \in Nat /\ Cardinality(S) <= VecsCap
  BY ListSize
<1>2. S \subseteq Nat
  BY DEF ToSet
<1> HIDE DEF S
<1>3. ASSUME NEW x \in S PROVE Cardinality(Later(S, x)) < VecsCap
  <2>1. Later(S, x) \in SUBSET S /\ x \notin Later(S, x)
    BY <1>2 DEF Later
  <2>2. IsFiniteSet(Later(S, x)) /\ Cardinality(Later(S, x)) <= Cardinality(S) /\ Cardinality(Later(S, x)) # Cardinality(S)
    BY <1>1, <2>1, FS_Subset
  <2>3. Cardinality(Later(S, x)) \in Nat
    BY <2>2, FS_CardinalityType
  <2>4. QED
    BY <1>1, <2>2, <2>3
<1>4. QED
  BY <1>3 DEF Top, S

(* The list without one of its entries.                                    *)
LEMMA Without ==
  ASSUME NEW list \in Seq(Nat), NEW k \in DOMAIN list
  PROVE  /\ RemoveAt(list, k) \in Seq(Nat) /\ Len(RemoveAt(list, k)) = Len(list) - 1
         /\ \A i \in 1..(Len(list) - 1) : RemoveAt(list, k)[i] = IF i < k THEN list[i] ELSE list[i + 1]
<1> DEFINE a == SubSeq(list, 1, k - 1)
           b == SubSeq(list, k + 1, Len(list))
<1>1. Len(list) \in Nat /\ k \in 1..Len(list) /\ DOMAIN list = 1..Len(list)
  OBVIOUS
<1>2. a \in Seq(Nat) /\ Len(a) = k - 1 /\ \A i \in 1..(k - 1) : a[i] = list[i]
  BY <1>1
<1>3. b \in Seq(Nat) /\ Len(b) = Len(list) - k /\ \A i \in 1..(Len(list) - k) : b[i] = list[k + i]
  <2> DEFINE m == k + 1
             n == Len(list)
  <2>1. m \in Int /\ n \in Int /\ \A i \in m..n : list[i] \in Nat
    BY <1>1
  <2>2. /\ SubSeq(list, m, n) \in Seq(Nat) /\ Len(SubSeq(list, m, n)) = IF m <= n THEN n - m + 1 ELSE 0
        /\ \A i \in 1..(n - m + 1) : SubSeq(list, m, n)[i] = list[m + i - 1]
    <3> HIDE DEF m, n
    <3>1. QED
      BY <2>1, SubSeqProperties
  <2>3. Len(b) = Len(list) - k
    BY <1>1, <2>2
  <2>4. ASSUME NEW i \in 1..(Len(list) - k) PROVE b[i] = list[k + i]
    <3>1. i \in 1..(n - m + 1) /\ m + i - 1 = k + i
      BY <1>1
    <3>2. QED
      BY <2>2, <3>1
  <2>5. QED
    BY <2>2, <2>3, <2>4
<1> HIDE DEF a, b
<1>4. /\ a \o b \in Seq(Nat) /\ Len(a \o b) = Len(a) + Len(b)
      /\ \A i \in 1..(Len(a) + Len(b)) : (a \o b)[i] = IF i <= Len(a) THEN a[i] ELSE b[i - Len(a)]
  BY <1>2, <1>3, ConcatProperties
<1>5. RemoveAt(list, k) = a \o b
  BY DEF RemoveAt, a, b
<1>6. ASSUME NEW i \in 1..(Len(list) - 1) PROVE (a \o b)[i] = IF i < k THEN list[i] ELSE list[i + 1]
  <2>1. (a \o b)[i] = IF i <= Len(a) THEN a[i] ELSE b[i - Len(a)]
    <3>1. Len(a) + Len(b) = Len(list) - 1
      BY <1>1, <1>2, <1>3
    <3>2. i \in 1..(Len(a) + Len(b))
      BY <3>1
    <3>3. QED
      BY <1>4, <3>2
  <2>2. CASE i < k
    BY <1>1, <1>2, <2>1, <2>2
  <2>3. CASE ~(i < k)
    <3>1. i - Len(a) \in 1..(Len(list) - k) /\ k + (i - Len(a)) = i + 1 /\ ~(i <= Len(a))
      BY <1>1, <1>2, <2>3
    <3>2. QED
      BY <1>3, <2>1, <2>3, <3>1
  <2>4. QED
    BY <2>2, <2>3
<1>7. Len(a \o b) = Len(list) - 1
  BY <1>1, <1>2, <1>3, <1>4
<1>8. QED
  BY <1>4, <1>5, <1>6, <1>7

LEMMA OldestIs ==
  ASSUME NEW list \in Seq(Nat), list # <<>>
  PROVE  Earliest(list) \in DOMAIN list /\ \A j \in DOMAIN list : list[Earliest(list)] <= list[j]
<1>1. ToSet(list) \in SUBSET Nat /\ ToSet(list) # {}
  BY DEF ToSet
<1>2. Min(ToSet(list)) \in ToSet(list) /\ \A x \in ToSet(list) : Min(ToSet(list)) <= x
  BY <1>1, LeastNumber
<1>3. PICK i \in DOMAIN list : \A j \in DOMAIN list : list[i] <= list[j]
  BY <1>2 DEF ToSet
<1>4. QED
  BY <1>3, Zenon DEF Earliest

LEMMA LatestIs ==
  ASSUME NEW list \in Seq(Nat), Len(list) <= VecsCap + 1, Distinct(list)
  PROVE  /\ Latest(list) \in Seq(Nat) /\ Len(Latest(list)) <= VecsCap
         /\ ToSet(Latest(list)) \subseteq ToSet(list) /\ Distinct(Latest(list))
<1> USE ExpBounds
<1>1. CASE Len(list) > VecsCap
  <2>1. list # <<>> /\ Latest(list) = RemoveAt(list, Earliest(list))
    BY <1>1 DEF Latest
  <2>2. Earliest(list) \in DOMAIN list
    BY <2>1, OldestIs
  <2> DEFINE k == Earliest(list)
             r == RemoveAt(list, k)
  <2>3. /\ r \in Seq(Nat) /\ Len(r) = Len(list) - 1
        /\ \A i \in 1..(Len(list) - 1) : r[i] = IF i < k THEN list[i] ELSE list[i + 1]
    BY <2>2, Without
  <2> HIDE DEF k, r
  <2>4. Len(list) \in Nat /\ DOMAIN list = 1..Len(list) /\ DOMAIN r = 1..(Len(list) - 1) /\ k \in 1..Len(list)
    BY <2>2, <2>3 DEF k
  <2>5. ToSet(r) \subseteq ToSet(list)
    <3>1. ASSUME NEW i \in 1..(Len(list) - 1) PROVE \E j \in DOMAIN list : r[i] = list[j]
      <4>1. i \in DOMAIN list /\ i + 1 \in DOMAIN list
        BY <2>4
      <4>2. QED
        BY <2>3, <4>1
    <3>2. QED
      BY <2>4, <3>1 DEF ToSet
  <2>6. Distinct(r)
    <3>1. SUFFICES ASSUME NEW i \in 1..(Len(list) - 1), NEW j \in 1..(Len(list) - 1), r[i] = r[j] PROVE i = j
      BY <2>4 DEF Distinct
    <3> DEFINE at(n) == IF n < k THEN n ELSE n + 1
    <3>2. \A n \in 1..(Len(list) - 1) : at(n) \in DOMAIN list /\ r[n] = list[at(n)]
      <4>1. SUFFICES ASSUME NEW n \in 1..(Len(list) - 1) PROVE at(n) \in DOMAIN list /\ r[n] = list[at(n)]
        OBVIOUS
      <4>2. n \in DOMAIN list /\ n + 1 \in DOMAIN list
        BY <2>4
      <4>3. QED
        BY <2>3, <4>2
    <3>3. at(i) = at(j)
      BY <3>1, <3>2 DEF Distinct
    <3>4. QED
      BY <2>4, <3>3
  <2>7. QED
    BY <2>1, <2>3, <2>4, <2>5, <2>6 DEF k, r
<1>2. CASE ~(Len(list) > VecsCap)
  BY <1>2 DEF Latest
<1>3. QED
  BY <1>1, <1>2

LEMMA KeptIs ==
  ASSUME NEW list \in Seq(Nat), Len(list) <= VecsCap + 1
  PROVE  /\ Kept(list) \in Seq(Nat) /\ Len(Kept(list)) <= VecsCap
         /\ ToSet(Kept(list)) \subseteq ToSet(list)
<1> USE ExpBounds
<1>1. CASE Len(list) > VecsCap
  <2>1. Kept(list) = SubSeq(list, 2, Len(list)) /\ Len(list) = VecsCap + 1
    BY <1>1 DEF Kept
  <2>2. /\ Kept(list) \in Seq(Nat) /\ Len(Kept(list)) = VecsCap
        /\ \A i \in 1..VecsCap : Kept(list)[i] = list[i + 1] /\ i + 1 \in DOMAIN list
    BY <2>1
  <2>3. QED
    BY <2>2 DEF ToSet
<1>2. CASE ~(Len(list) > VecsCap)
  <2>1. Kept(list) = SubSeq(list, 1, Len(list))
    BY <1>2 DEF Kept
  <2>2. Kept(list) = list
    BY <2>1
  <2>3. QED
    BY <1>2, <2>2
<1>3. QED
  BY <1>1, <1>2

(* Both lists keep the latest of a list in the order of time.              *)
LEMMA InOrder ==
  ASSUME NEW list \in Seq(Nat), Len(list) <= VecsCap + 1, Rising(list)
  PROVE  Latest(list) = Kept(list) /\ Rising(Kept(list)) /\ ToSet(Kept(list)) = Top(ToSet(list))
<1> USE ExpBounds
<1>1. CASE Len(list) > VecsCap
  <2> DEFINE n == Len(list)
             q == SubSeq(list, 2, n)
  <2>1. Kept(list) = q /\ n = VecsCap + 1 /\ n \in Nat /\ DOMAIN list = 1..n
    BY <1>1 DEF Kept
  <2>2. q \in Seq(Nat) /\ Len(q) = n - 1 /\ DOMAIN q = 1..(n - 1) /\ \A i \in 1..(n - 1) : q[i] = list[i + 1] /\ i + 1 \in 1..n
    BY <2>1
  <2> HIDE DEF n, q
  <2>3. Earliest(list) = 1
    <3>1. Earliest(list) \in 1..n /\ \A j \in 1..n : list[Earliest(list)] <= list[j]
      BY <1>1, <2>1, OldestIs DEF n
    <3>2. 1 \in 1..n /\ \A i \in 1..n : list[i] \in Nat
      BY <2>1
    <3>3. ~(1 < Earliest(list))
      <4>1. 1 < Earliest(list) => list[1] < list[Earliest(list)]
        BY <2>1, <3>1, <3>2 DEF Rising
      <4>2. QED
        BY <3>1, <3>2, <4>1
    <3>4. QED
      BY <3>1, <3>3
  <2>4. Latest(list) = q
    <3>1. Latest(list) = RemoveAt(list, 1) /\ 1 \in DOMAIN list
      BY <1>1, <2>1, <2>3 DEF Latest
    <3>2. /\ RemoveAt(list, 1) \in Seq(Nat) /\ Len(RemoveAt(list, 1)) = n - 1
          /\ \A i \in 1..(n - 1) : RemoveAt(list, 1)[i] = list[i + 1]
      <4>1. /\ RemoveAt(list, 1) \in Seq(Nat) /\ Len(RemoveAt(list, 1)) = n - 1
            /\ \A i \in 1..(n - 1) : RemoveAt(list, 1)[i] = IF i < 1 THEN list[i] ELSE list[i + 1]
        BY <3>1, Without DEF n
      <4>2. QED
        BY <2>1, <4>1
    <3>3. Len(RemoveAt(list, 1)) = Len(q) /\ \A i \in 1..Len(q) : RemoveAt(list, 1)[i] = q[i]
      BY <2>2, <3>2
    <3>4. RemoveAt(list, 1) = q
      BY <2>2, <3>2, <3>3, SeqEqual
    <3>5. QED
      BY <3>1, <3>4
  <2>5. Rising(q)
    <3>1. SUFFICES ASSUME NEW i \in 1..(n - 1), NEW j \in 1..(n - 1), i < j PROVE q[i] < q[j]
      BY <2>2 DEF Rising
    <3>2. i + 1 \in DOMAIN list /\ j + 1 \in DOMAIN list /\ i + 1 < j + 1
      BY <2>1, <2>2, <3>1
    <3>3. list[i + 1] < list[j + 1]
      BY <3>2 DEF Rising
    <3>4. QED
      BY <2>2, <3>3
  <2> DEFINE S == ToSet(list)
  <2>6. ToSet(q) \subseteq Top(S)
    <3>1. SUFFICES ASSUME NEW i \in 1..(n - 1) PROVE q[i] \in Top(S)
      BY <2>2 DEF ToSet
    <3>2. q[i] = list[i + 1] /\ i + 1 \in DOMAIN list /\ q[i] \in S
      BY <2>1, <2>2 DEF ToSet
    <3>3. Later(S, q[i]) \subseteq ToSet(SubSeq(list, 3, n))
      <4>1. SUFFICES ASSUME NEW j \in 1..n, list[j] > list[i + 1] PROVE list[j] \in ToSet(SubSeq(list, 3, n))
        BY <2>1, <3>2 DEF Later, ToSet
      <4>2. ~(j <= i + 1)
        <5>1. list[j] \in Nat /\ list[i + 1] \in Nat
          BY <2>1, <3>2
        <5>2. j < i + 1 => list[j] < list[i + 1]
          BY <2>1, <3>2 DEF Rising
        <5>3. QED
          BY <3>2, <4>1, <5>1, <5>2
      <4>3. j - 2 \in 1..(n - 2) /\ Len(SubSeq(list, 3, n)) = n - 2 /\ SubSeq(list, 3, n)[j - 2] = list[j]
        BY <2>1, <4>2
      <4>4. DOMAIN SubSeq(list, 3, n) = 1..(n - 2)
        BY <2>1, <4>3
      <4>5. QED
        BY <4>3, <4>4 DEF ToSet
    <3>4. SubSeq(list, 3, n) \in Seq(Nat) /\ Len(SubSeq(list, 3, n)) < VecsCap
      BY <2>1
    <3>5. /\ IsFiniteSet(ToSet(SubSeq(list, 3, n))) /\ Cardinality(ToSet(SubSeq(list, 3, n))) \in Nat
          /\ Cardinality(ToSet(SubSeq(list, 3, n))) <= Len(SubSeq(list, 3, n))
      BY <3>4, ListSize
    <3>6. IsFiniteSet(Later(S, q[i])) /\ Cardinality(Later(S, q[i])) <= Cardinality(ToSet(SubSeq(list, 3, n)))
      BY <3>3, <3>5, FS_Subset
    <3>7. Cardinality(Later(S, q[i])) \in Nat
      BY <3>6, FS_CardinalityType
    <3>8. QED
      BY <3>2, <3>4, <3>5, <3>6, <3>7 DEF Top
  <2>7. Top(S) \subseteq ToSet(q)
    <3>1. SUFFICES ASSUME NEW j \in 1..n, list[j] \notin ToSet(q) PROVE list[j] \notin Top(S)
      BY <2>1 DEF ToSet, Top
    <3>2. j = 1
      <4>1. j # 1 => j - 1 \in 1..(n - 1) /\ q[j - 1] = list[j]
        BY <2>1, <2>2
      <4>2. QED
        BY <2>2, <3>1, <4>1 DEF ToSet
    <3>3. q \in [1..(n - 1) -> ToSet(q)] /\ q \in Surjection(1..(n - 1), ToSet(q)) /\ q \in Injection(1..(n - 1), ToSet(q))
      <4>1. q \in Surjection(1..(n - 1), ToSet(q))
        BY <2>2 DEF ToSet, Surjection
      <4>2. \A i, m \in 1..(n - 1) : q[i] = q[m] => i = m
        <5>1. ASSUME NEW i \in 1..(n - 1), NEW m \in 1..(n - 1), i < m PROVE q[i] # q[m]
          <6>1. q[i] \in Nat /\ q[m] \in Nat
            BY <2>2
          <6>2. q[i] < q[m]
            BY <2>2, <2>5, <5>1 DEF Rising
          <6>3. QED
            BY <6>1, <6>2
        <5>2. QED
          BY <2>1, <5>1
      <4>3. QED
        BY <2>2, <4>1, <4>2 DEF Surjection, Injection, IsInjective
    <3>4. IsFiniteSet(1..(n - 1)) /\ Cardinality(1..(n - 1)) = n - 1
      <4>1. n - 1 \in Nat
        BY <2>1
      <4>2. QED
        BY <4>1, CountTo
    <3>5. IsFiniteSet(ToSet(q)) /\ Cardinality(ToSet(q)) = n - 1
      BY <3>3, <3>4, FS_Surjection
    <3>6. ToSet(q) \subseteq Later(S, list[j])
      <4>1. SUFFICES ASSUME NEW i \in 1..(n - 1) PROVE q[i] \in Later(S, list[1])
        BY <2>2, <3>2 DEF ToSet
      <4>2. 1 \in DOMAIN list /\ i + 1 \in DOMAIN list /\ 1 < i + 1
        BY <2>1, <2>2
      <4>3. list[1] < list[i + 1] /\ list[1] \in Nat /\ list[i + 1] \in Nat
        BY <4>2 DEF Rising
      <4>4. QED
        BY <2>2, <4>2, <4>3 DEF Later, ToSet
    <3>7. IsFiniteSet(Later(S, list[j]))
      <4>1. IsFiniteSet(S)
        BY ListSize
      <4>2. Later(S, list[j]) \in SUBSET S
        BY DEF Later
      <4>3. QED
        BY <4>1, <4>2, FS_Subset
    <3>8. n - 1 <= Cardinality(Later(S, list[j])) /\ Cardinality(Later(S, list[j])) \in Nat
      BY <3>5, <3>6, <3>7, FS_Subset, FS_CardinalityType
    <3>9. QED
      BY <2>1, <3>8 DEF Top
  <2>8. QED
    BY <2>1, <2>4, <2>5, <2>6, <2>7
<1>2. CASE ~(Len(list) > VecsCap)
  <2>1. Kept(list) = SubSeq(list, 1, Len(list)) /\ Latest(list) = list /\ Len(list) <= VecsCap
    BY <1>2 DEF Kept, Latest
  <2>2. Kept(list) = list
    BY <2>1
  <2>3. Top(ToSet(list)) = ToSet(list)
    BY <2>1, WithinCap
  <2>4. QED
    BY <2>1, <2>2, <2>3
<1>3. QED
  BY <1>1, <1>2

(* Two lists in order of time with the same entries are the same.          *)
LEMMA SameStart ==
  ASSUME NEW p \in Seq(Nat), NEW q \in Seq(Nat), Rising(p), Rising(q), ToSet(p) = ToSet(q)
  PROVE  \A i \in DOMAIN p : i \in DOMAIN q /\ p[i] = q[i]
<1> DEFINE Bad == {i \in DOMAIN p : ~(i \in DOMAIN q /\ p[i] = q[i])}
<1>1. /\ DOMAIN p = 1..Len(p) /\ DOMAIN q = 1..Len(q) /\ Len(p) \in Nat /\ Len(q) \in Nat
      /\ \A i \in DOMAIN p : p[i] \in Nat
      /\ \A i \in DOMAIN q : q[i] \in Nat
  OBVIOUS
<1>2. SUFFICES ASSUME Bad # {} PROVE FALSE
  OBVIOUS
<1>3. Bad \in SUBSET Nat
  BY <1>1
<1> DEFINE i == Min(Bad)
<1>4. i \in Bad /\ \A m \in Bad : i <= m
  BY <1>2, <1>3, LeastNumber
<1> HIDE DEF i
<1>5. i \in DOMAIN p /\ \A m \in DOMAIN p : m < i => m \in DOMAIN q /\ p[m] = q[m]
  BY <1>1, <1>3, <1>4
<1>6. PICK j \in DOMAIN q : q[j] = p[i]
  BY <1>5 DEF ToSet
<1>7. ~(j < i)
  <2>1. SUFFICES ASSUME j < i PROVE FALSE
    OBVIOUS
  <2>2. j \in DOMAIN p /\ p[j] = p[i]
    BY <1>1, <1>5, <1>6, <2>1
  <2>3. p[j] < p[i]
    BY <1>5, <2>1, <2>2 DEF Rising
  <2>4. QED
    BY <1>1, <1>5, <2>2, <2>3
<1>8. i < j /\ i \in DOMAIN q
  BY <1>1, <1>4, <1>5, <1>6, <1>7
<1>9. q[i] < p[i]
  BY <1>6, <1>8 DEF Rising
<1>10. PICK m \in DOMAIN p : p[m] = q[i]
  BY <1>8 DEF ToSet
<1>11. m < i
  <2>1. m # i
    BY <1>1, <1>5, <1>9, <1>10
  <2>2. i < m => p[i] < p[m]
    BY <1>5 DEF Rising
  <2>3. p[i] \in Nat /\ q[i] \in Nat
    BY <1>1, <1>5, <1>8
  <2>4. QED
    BY <1>1, <1>5, <1>9, <1>10, <2>1, <2>2, <2>3
<1>12. m \in DOMAIN q /\ q[m] = q[i]
  BY <1>5, <1>10, <1>11
<1>13. q[m] < q[i]
  BY <1>8, <1>11, <1>12 DEF Rising
<1>14. QED
  BY <1>1, <1>8, <1>12, <1>13

LEMMA OneOrder ==
  ASSUME NEW p \in Seq(Nat), NEW q \in Seq(Nat), Rising(p), Rising(q), ToSet(p) = ToSet(q)
  PROVE  p = q
<1>1. \A i \in DOMAIN p : i \in DOMAIN q /\ p[i] = q[i]
  BY SameStart
<1>2. \A i \in DOMAIN q : i \in DOMAIN p
  BY SameStart
<1>3. DOMAIN p = 1..Len(p) /\ DOMAIN q = 1..Len(q) /\ Len(p) \in Nat /\ Len(q) \in Nat
  OBVIOUS
<1>4. Len(p) <= Len(q)
  BY <1>1, <1>3
<1>5. Len(q) <= Len(p)
  BY <1>2, <1>3
<1>6. Len(p) = Len(q)
  <2>1. \A m, n \in Nat : m <= n /\ n <= m => m = n
    OBVIOUS
  <2>2. QED
    BY <1>3, <1>4, <1>5, <2>1
<1>7. QED
  BY <1>1, <1>3, <1>6, SeqEqual

(* A vector arrives in a list.                                             *)
LEMMA VectorArrives ==
  ASSUME NEW list \in Seq(Nat), Len(list) <= VecsCap, NEW x \in Nat
  PROVE  /\ Append(list, x) \in Seq(Nat) /\ Len(Append(list, x)) <= VecsCap + 1
         /\ ToSet(Append(list, x)) = ToSet(list) \union {x}
         /\ Kept(Append(list, x)) \in Seq(Nat) /\ Len(Kept(Append(list, x))) <= VecsCap
         /\ ToSet(Kept(Append(list, x))) \subseteq ToSet(list) \union {x}
<1> USE ExpBounds
<1> DEFINE a == Append(list, x)
<1>1. /\ a \in Seq(Nat) /\ Len(a) = Len(list) + 1 /\ Len(list) \in Nat
      /\ \A i \in 1..Len(list) : a[i] = list[i]
      /\ a[Len(list) + 1] = x
  OBVIOUS
<1> HIDE DEF a
<1>2. ToSet(a) = ToSet(list) \union {x}
  <2>1. DOMAIN a = 1..(Len(list) + 1) /\ DOMAIN list = 1..Len(list)
    BY <1>1
  <2>2. ASSUME NEW i \in DOMAIN a PROVE a[i] \in ToSet(list) \union {x}
    <3>1. i \in DOMAIN list \/ i = Len(list) + 1
      BY <1>1, <2>1
    <3>2. QED
      BY <1>1, <2>1, <3>1 DEF ToSet
  <2>3. ASSUME NEW i \in DOMAIN list PROVE list[i] \in ToSet(a)
    <3>1. i \in DOMAIN a /\ a[i] = list[i]
      BY <1>1, <2>1
    <3>2. QED
      BY <3>1 DEF ToSet
  <2>4. x \in ToSet(a)
    BY <1>1, <2>1 DEF ToSet
  <2>5. QED
    BY <2>2, <2>3, <2>4 DEF ToSet
<1>3. Len(a) <= VecsCap + 1
  BY <1>1
<1>4. Kept(a) \in Seq(Nat) /\ Len(Kept(a)) <= VecsCap /\ ToSet(Kept(a)) \subseteq ToSet(a)
  BY <1>1, <1>3, KeptIs
<1>5. QED
  BY <1>1, <1>2, <1>3, <1>4 DEF a

LEMMA ArrivesNew ==
  ASSUME NEW list \in Seq(Nat), Distinct(list), NEW x \in Nat, x \notin ToSet(list)
  PROVE  Distinct(Append(list, x))
<1>1. /\ DOMAIN Append(list, x) = 1..(Len(list) + 1) /\ DOMAIN list = 1..Len(list) /\ Len(list) \in Nat
      /\ \A i \in 1..Len(list) : Append(list, x)[i] = list[i]
      /\ Append(list, x)[Len(list) + 1] = x
  OBVIOUS
<1>2. \A i \in 1..Len(list) : list[i] # x
  BY <1>1 DEF ToSet
<1>3. QED
  BY <1>1, <1>2 DEF Distinct

LEMMA RisingIsDistinct ==
  ASSUME NEW list \in Seq(Nat), Rising(list)
  PROVE  Distinct(list)
<1>1. SUFFICES ASSUME NEW i \in DOMAIN list, NEW j \in DOMAIN list, list[i] = list[j], i # j PROVE FALSE
  BY DEF Distinct
<1>2. i \in Nat /\ j \in Nat /\ list[i] \in Nat
  OBVIOUS
<1>3. i < j \/ j < i
  BY <1>1, <1>2
<1>4. QED
  BY <1>1, <1>2, <1>3 DEF Rising

LEMMA InTime ==
  ASSUME NEW list \in Seq(Nat), Distinct(list), NEW t, NEW c, <<t, c>> \notin Upset(t, c, list)
  PROVE  Rising(list)
<1>1. SUFFICES ASSUME NEW i \in DOMAIN list, NEW j \in DOMAIN list, i < j PROVE list[i] < list[j]
  BY DEF Rising
<1>2. ~(list[i] > list[j])
  BY <1>1 DEF Upset
<1>3. list[i] # list[j] /\ list[i] \in Nat /\ list[j] \in Nat
  <2>1. i # j
    BY <1>1
  <2>2. QED
    BY <2>1 DEF Distinct
<1>4. QED
  BY <1>2, <1>3

LEMMA ArrivesInTime ==
  ASSUME NEW list \in Seq(Nat), Distinct(list), Len(list) <= VecsCap, NEW x \in Nat, x \notin ToSet(list),
         NEW t, NEW c, <<t, c>> \notin Upset(t, c, Append(list, x))
  PROVE  /\ Latest(Append(list, x)) = Kept(Append(list, x)) /\ Rising(Kept(Append(list, x)))
         /\ ToSet(Kept(Append(list, x))) = Top(ToSet(list) \union {x})
<1>1. Append(list, x) \in Seq(Nat) /\ Len(Append(list, x)) <= VecsCap + 1 /\ ToSet(Append(list, x)) = ToSet(list) \union {x}
  BY VectorArrives
<1>2. Distinct(Append(list, x))
  BY ArrivesNew
<1>3. Rising(Append(list, x))
  BY <1>1, <1>2, InTime
<1>4. QED
  BY <1>1, <1>3, InOrder

-----------------------------------------------------------------------------
(* What a persist step or the dreamer has in hand.                         *)
Pendings == [tag : Tags, charge : Charges, ts : 1..MaxVectors]
InHand(t, c) ==
  {x \in 1..MaxVectors : \E k \in Steps : [tag |-> t, charge |-> c, ts |-> x] \in step[k].vector}
Dreamt(t) == {v \in dreaming : v.tag = t}

StepsKnown ==
  /\ step \in [Steps -> [vector : SUBSET Pendings, rows : SUBSET Tags]]
  /\ \A k \in Steps : \A v \in step[k].vector : v.charge \in {"positive", "negative"} /\ v.ts \in stamps
  /\ \A k \in Steps : \A v, w \in step[k].vector : v = w
  /\ \A k, l \in Steps : \A v \in step[k].vector, w \in step[l].vector : v.ts = w.ts => k = l
  /\ dreaming \in SUBSET Pendings
  /\ \A v \in dreaming : v.charge = "process" /\ v.ts \in stamps
  /\ \A v, w \in dreaming : v = w
  /\ stamps \subseteq 1..MaxVectors

ListsKnown ==
  /\ vecs \in [Tags -> [Charges -> Seq(Nat)]] /\ store \in [Tags -> [Charges -> Seq(Nat)]]
  /\ \A t \in Tags, c \in Charges :
       /\ Len(vecs[t][c]) <= VecsCap /\ ToSet(vecs[t][c]) \subseteq stamps
       /\ Len(store[t][c]) <= VecsCap /\ ToSet(store[t][c]) \subseteq stamps
       /\ Distinct(store[t][c]) /\ InHand(t, c) \intersect ToSet(store[t][c]) = {}
  /\ disordered \subseteq Tags \X Charges

(* The latest vectors of the table and of what is still to be inserted are *)
(* those in RAM; the dreamer goes about it the other way round.            *)
InOrderAt(t, c) ==
  /\ Rising(vecs[t][c]) /\ Rising(store[t][c])
  /\ c # "process" => ToSet(vecs[t][c]) = Top(ToSet(store[t][c]) \union InHand(t, c))
  /\ c = "process" /\ Dreamt(t) = {} => store[t][c] = vecs[t][c]
  /\ c = "process" => \A v \in Dreamt(t) : store[t][c] = Kept(Append(vecs[t][c], v.ts))

VectorInv ==
  /\ StepsKnown /\ ListsKnown
  /\ \A t \in Tags, c \in Charges : <<t, c>> \notin disordered => InOrderAt(t, c)

LEMMA VectorsQuiet ==
  ASSUME VectorInv, UNCHANGED <<vecs, store, dreaming, stamps, disordered>>,
         step' \in [Steps -> [vector : SUBSET Pendings, rows : SUBSET Tags]],
         \A k \in Steps : step'[k].vector = step[k].vector
  PROVE  VectorInv'
<1>1. \A t, c : InHand(t, c)' = InHand(t, c) /\ Dreamt(t)' = Dreamt(t)
  BY DEF InHand, Dreamt
<1>2. StepsKnown'
  BY DEF VectorInv, StepsKnown
<1>3. ListsKnown'
  BY <1>1 DEF VectorInv, ListsKnown
<1>4. ASSUME NEW t \in Tags, NEW c \in Charges, InOrderAt(t, c) PROVE InOrderAt(t, c)'
  <2>1. vecs' = vecs /\ store' = store
    OBVIOUS
  <2>2. QED
    BY <1>1, <1>4, <2>1 DEF InOrderAt
<1>5. disordered' = disordered
  OBVIOUS
<1>6. QED
  BY <1>2, <1>3, <1>4, <1>5 DEF VectorInv

LEMMA OneList ==
  ASSUME NEW f \in [Tags -> [Charges -> Seq(Nat)]], NEW t \in Tags, NEW c \in Charges, NEW z \in Seq(Nat),
         NEW g, g = [f EXCEPT ![t][c] = z]
  PROVE  /\ g \in [Tags -> [Charges -> Seq(Nat)]] /\ g[t][c] = z
         /\ \A u \in Tags, d \in Charges : <<u, d>> # <<t, c>> => g[u][d] = f[u][d]
OBVIOUS

LEMMA VectorUpdate ==
  ASSUME NEW f \in [Steps -> [vector : SUBSET Pendings, rows : SUBSET Tags]], NEW k \in Steps,
         NEW z \in SUBSET Pendings, NEW g, g = [f EXCEPT ![k].vector = z]
  PROVE  /\ g \in [Steps -> [vector : SUBSET Pendings, rows : SUBSET Tags]]
         /\ g[k].vector = z /\ g[k].rows = f[k].rows /\ \A l \in Steps : l # k => g[l] = f[l]
OBVIOUS

LEMMA RowsUpdate ==
  ASSUME NEW f \in [Steps -> [vector : SUBSET Pendings, rows : SUBSET Tags]], NEW k \in Steps,
         NEW z \in SUBSET Tags, NEW g, g = [f EXCEPT ![k].rows = z]
  PROVE  /\ g \in [Steps -> [vector : SUBSET Pendings, rows : SUBSET Tags]]
         /\ g[k].vector = f[k].vector /\ g[k].rows = z /\ \A l \in Steps : l # k => g[l] = f[l]
OBVIOUS

LEMMA PolarityIs ==
  ASSUME NEW continuation, NEW conflict, NEW emotion
  PROVE  Polarity(continuation, conflict, emotion) \subseteq {"positive", "negative"}
BY DEF Polarity

(* A step records a vector: it is in RAM, and in hand.                     *)
LEMMA VectorRecorded ==
  ASSUME VectorInv, NEW k \in Steps, step[k].vector = {}, NEW t \in Tags, NEW c \in {"positive", "negative"},
         NEW ts \in (1..MaxVectors) \ stamps, UNCHANGED <<store, dreaming>>,
         stamps' = stamps \union {ts}, vecs' = [vecs EXCEPT ![t][c] = Kept(Append(@, ts))],
         disordered' = disordered \union Upset(t, c, Append(vecs[t][c], ts)),
         step' = [step EXCEPT ![k] = [vector |-> {[tag |-> t, charge |-> c, ts |-> ts]}, rows |-> {t}]]
  PROVE  VectorInv'
<1> USE ExpBounds
<1> DEFINE v == [tag |-> t, charge |-> c, ts |-> ts]
           list == vecs[t][c]
           z == Kept(Append(list, ts))
<1>1. c \in Charges /\ v \in Pendings /\ ts \in Nat /\ ts \in 1..MaxVectors /\ c # "process"
  BY DEF Charges, Pendings
<1>2. /\ step' \in [Steps -> [vector : SUBSET Pendings, rows : SUBSET Tags]]
      /\ step'[k].vector = {v} /\ \A l \in Steps : l # k => step'[l].vector = step[l].vector
  BY <1>1 DEF VectorInv, StepsKnown
<1>3. v.ts = ts /\ v.charge = c /\ v.tag = t
  OBVIOUS
<1> HIDE DEF v
<1>4. StepsKnown'
  <2>1. \A l \in Steps : \A w \in step[l].vector : w.ts # ts
    BY DEF VectorInv, StepsKnown
  <2>2. \A l \in Steps : \A w \in step'[l].vector : w.charge \in {"positive", "negative"} /\ w.ts \in stamps'
    BY <1>2, <1>3 DEF VectorInv, StepsKnown
  <2>3. /\ \A l, m \in Steps : \A w \in step'[l].vector, x \in step'[m].vector : w.ts = x.ts => l = m
        /\ \A l \in Steps : \A w, x \in step'[l].vector : w = x
    BY <1>2, <1>3, <2>1 DEF VectorInv, StepsKnown
  <2>4. QED
    BY <1>1, <1>2, <2>2, <2>3 DEF VectorInv, StepsKnown
<1>5. \A u \in Tags, d \in Charges : InHand(u, d)' = IF <<u, d>> = <<t, c>> THEN InHand(t, c) \union {ts} ELSE InHand(u, d)
  <2>1. ASSUME NEW u \in Tags, NEW d \in Charges, NEW x \in 1..MaxVectors
        PROVE  (x \in InHand(u, d)') <=> (x \in InHand(u, d) \/ (u = t /\ d = c /\ x = ts))
    <3> DEFINE w == [tag |-> u, charge |-> d, ts |-> x]
    <3>1. w = v <=> u = t /\ d = c /\ x = ts
      BY DEF v
    <3> HIDE DEF w
    <3>2. (\E l \in Steps : w \in step'[l].vector) <=> ((\E l \in Steps : w \in step[l].vector) \/ w = v)
      BY <1>2
    <3>3. QED
      BY <3>1, <3>2 DEF InHand, w
  <2>2. \A u, d : InHand(u, d) \subseteq 1..MaxVectors /\ InHand(u, d)' \subseteq 1..MaxVectors
    BY DEF InHand
  <2>3. QED
    BY <1>1, <2>1, <2>2
<1>6. /\ list \in Seq(Nat) /\ Len(list) <= VecsCap /\ ToSet(list) \subseteq stamps /\ ts \notin ToSet(list)
      /\ vecs \in [Tags -> [Charges -> Seq(Nat)]] /\ disordered \subseteq Tags \X Charges
  BY <1>1 DEF VectorInv, ListsKnown
<1>7. z \in Seq(Nat) /\ Len(z) <= VecsCap /\ ToSet(z) \subseteq ToSet(list) \union {ts}
  BY <1>1, <1>6, VectorArrives
<1>8. /\ vecs' \in [Tags -> [Charges -> Seq(Nat)]] /\ vecs'[t][c] = z
      /\ \A u \in Tags, d \in Charges : <<u, d>> # <<t, c>> => vecs'[u][d] = vecs[u][d]
  <2>1. vecs' = [vecs EXCEPT ![t][c] = z]
    OBVIOUS
  <2> HIDE DEF z, list
  <2>2. QED
    BY <1>1, <1>6, <1>7, <2>1, OneList
<1>9. disordered' \subseteq Tags \X Charges
  BY <1>1, <1>6 DEF Upset
<1> HIDE DEF z, list
<1>10. ListsKnown'
  <2>1. ASSUME NEW u \in Tags, NEW d \in Charges
        PROVE  /\ Len(vecs'[u][d]) <= VecsCap /\ ToSet(vecs'[u][d]) \subseteq stamps'
               /\ Len(store[u][d]) <= VecsCap /\ ToSet(store[u][d]) \subseteq stamps'
               /\ Distinct(store[u][d]) /\ InHand(u, d)' \intersect ToSet(store[u][d]) = {}
    <3>1. /\ Len(vecs[u][d]) <= VecsCap /\ ToSet(vecs[u][d]) \subseteq stamps
          /\ Len(store[u][d]) <= VecsCap /\ ToSet(store[u][d]) \subseteq stamps
          /\ Distinct(store[u][d]) /\ InHand(u, d) \intersect ToSet(store[u][d]) = {}
      BY DEF VectorInv, ListsKnown
    <3>2. CASE <<u, d>> = <<t, c>>
      BY <1>5, <1>6, <1>7, <1>8, <3>1, <3>2
    <3>3. CASE <<u, d>> # <<t, c>>
      BY <1>5, <1>8, <3>1, <3>3
    <3>4. QED
      BY <3>2, <3>3
  <2>2. store' = store /\ store \in [Tags -> [Charges -> Seq(Nat)]]
    BY DEF VectorInv, ListsKnown
  <2>3. QED
    BY <1>8, <1>9, <2>1, <2>2 DEF ListsKnown
<1>11. ASSUME NEW u \in Tags, NEW d \in Charges, <<u, d>> \notin disordered' PROVE InOrderAt(u, d)'
  <2>1. InOrderAt(u, d)
    BY <1>11 DEF VectorInv
  <2>2. Dreamt(u)' = Dreamt(u) /\ store'[u][d] = store[u][d]
    BY DEF Dreamt
  <2>3. CASE <<u, d>> # <<t, c>>
    BY <1>5, <1>8, <2>1, <2>2, <2>3 DEF InOrderAt
  <2>4. CASE u = t /\ d = c
    <3>1. Rising(list) /\ Rising(store[t][c]) /\ ToSet(list) = Top(ToSet(store[t][c]) \union InHand(t, c))
      BY <1>1, <2>1, <2>4 DEF InOrderAt, list
    <3>2. Distinct(list)
      BY <1>6, <3>1, RisingIsDistinct
    <3>3. <<t, c>> \notin Upset(t, c, Append(list, ts))
      BY <1>11, <2>4 DEF list
    <3>4. Rising(z) /\ ToSet(z) = Top(ToSet(list) \union {ts})
      BY <1>1, <1>6, <3>2, <3>3, ArrivesInTime DEF z
    <3>5. ToSet(store[t][c]) \union InHand(t, c) \in SUBSET (1..MaxVectors) /\ {ts} \in SUBSET (1..MaxVectors)
      BY <1>1 DEF VectorInv, ListsKnown, StepsKnown, InHand
    <3>6. ToSet(z) = Top((ToSet(store[t][c]) \union InHand(t, c)) \union {ts})
      BY <3>1, <3>4, <3>5, TopIsEnough
    <3>7. InHand(t, c)' = InHand(t, c) \union {ts}
      BY <1>1, <1>5
    <3>8. ToSet(z) = Top(ToSet(store[t][c]) \union InHand(t, c)')
      <4>1. (ToSet(store[t][c]) \union InHand(t, c)) \union {ts} = ToSet(store[t][c]) \union InHand(t, c)'
        BY <3>7
      <4>2. QED
        BY <3>6, <4>1
    <3>9. QED
      BY <1>1, <1>8, <2>2, <2>4, <3>1, <3>4, <3>8 DEF InOrderAt
  <2>5. QED
    BY <2>3, <2>4
<1>12. QED
  BY <1>4, <1>10, <1>11 DEF VectorInv

(* It is inserted, and no longer in hand.                                  *)
LEMMA VectorSaved ==
  ASSUME VectorInv, NEW k \in Steps, NEW v \in step[k].vector, Insert(v), UNCHANGED <<vecs, dreaming, stamps>>,
         step' = [step EXCEPT ![k].vector = {}]
  PROVE  VectorInv'
<1> USE ExpBounds
<1> DEFINE t == v.tag
           c == v.charge
           ts == v.ts
           list == store[t][c]
           z == Latest(Append(list, ts))
<1>1. /\ v \in Pendings /\ t \in Tags /\ c \in Charges /\ c # "process" /\ ts \in 1..MaxVectors /\ ts \in stamps /\ ts \in Nat
      /\ v = [tag |-> t, charge |-> c, ts |-> ts]
  BY DEF VectorInv, StepsKnown, Pendings
<1> HIDE DEF t, c, ts
<1>2. /\ step' \in [Steps -> [vector : SUBSET Pendings, rows : SUBSET Tags]]
      /\ step'[k].vector = {} /\ \A l \in Steps : l # k => step'[l].vector = step[l].vector
  <2>1. step \in [Steps -> [vector : SUBSET Pendings, rows : SUBSET Tags]] /\ {} \in SUBSET Pendings
    BY DEF VectorInv, StepsKnown
  <2>2. QED
    BY <2>1, VectorUpdate
<1>3. StepsKnown'
  <2>1. \A l \in Steps : \A w \in step'[l].vector : w \in step[l].vector
    BY <1>2
  <2>2. /\ \A l, m \in Steps : \A w \in step'[l].vector, x \in step'[m].vector : w.ts = x.ts => l = m
        /\ \A l \in Steps : \A w, x \in step'[l].vector : w = x
    BY <2>1 DEF VectorInv, StepsKnown
  <2>3. \A l \in Steps : \A w \in step'[l].vector : w.charge \in {"positive", "negative"} /\ w.ts \in stamps
    BY <2>1 DEF VectorInv, StepsKnown
  <2>4. dreaming' = dreaming /\ stamps' = stamps
    OBVIOUS
  <2>5. QED
    BY <1>2, <2>2, <2>3, <2>4 DEF VectorInv, StepsKnown
<1>4. \A w \in step[k].vector : w = v
  BY DEF VectorInv, StepsKnown
<1>5. \A u \in Tags, d \in Charges : InHand(u, d)' = IF <<u, d>> = <<t, c>> THEN InHand(t, c) \ {ts} ELSE InHand(u, d)
  <2>1. ASSUME NEW u \in Tags, NEW d \in Charges, NEW x \in 1..MaxVectors
        PROVE  (x \in InHand(u, d)') <=> (x \in InHand(u, d) /\ ~(u = t /\ d = c /\ x = ts))
    <3> DEFINE w == [tag |-> u, charge |-> d, ts |-> x]
    <3>1. w = v <=> u = t /\ d = c /\ x = ts
      BY <1>1
    <3>2. \A l \in Steps : v \in step[l].vector => l = k
      BY DEF VectorInv, StepsKnown
    <3> HIDE DEF w
    <3>3. (\E l \in Steps : w \in step'[l].vector) <=> ((\E l \in Steps : w \in step[l].vector) /\ w # v)
      BY <1>2, <1>4, <3>2
    <3>4. QED
      BY <3>1, <3>3 DEF InHand, w
  <2>2. \A u, d : InHand(u, d) \subseteq 1..MaxVectors /\ InHand(u, d)' \subseteq 1..MaxVectors
    BY DEF InHand
  <2>3. ASSUME NEW u \in Tags, NEW d \in Charges
        PROVE  InHand(u, d)' = IF <<u, d>> = <<t, c>> THEN InHand(t, c) \ {ts} ELSE InHand(u, d)
    BY <2>1, <2>2
  <2>4. QED
    BY <2>3
<1>6. ts \in InHand(t, c)
  BY <1>1 DEF InHand
<1>7. /\ list \in Seq(Nat) /\ Len(list) <= VecsCap /\ ToSet(list) \subseteq stamps /\ ts \notin ToSet(list) /\ Distinct(list)
      /\ store \in [Tags -> [Charges -> Seq(Nat)]] /\ disordered \subseteq Tags \X Charges
  BY <1>1, <1>6 DEF VectorInv, ListsKnown
<1>8. z \in Seq(Nat) /\ Len(z) <= VecsCap /\ ToSet(z) \subseteq ToSet(list) \union {ts} /\ Distinct(z)
  <2>1. Append(list, ts) \in Seq(Nat) /\ Len(Append(list, ts)) <= VecsCap + 1 /\ ToSet(Append(list, ts)) = ToSet(list) \union {ts}
    BY <1>1, <1>7, VectorArrives
  <2>2. Distinct(Append(list, ts))
    BY <1>1, <1>7, ArrivesNew
  <2>3. QED
    BY <2>1, <2>2, LatestIs
<1>9. \/ store' = [store EXCEPT ![t][c] = z] /\ disordered' = disordered \union Upset(t, c, Append(list, ts))
      \/ store' = store /\ disordered' = disordered \union {<<t, c>>}
  BY DEF Insert, t, c, ts
<1> HIDE DEF z, list
<1>10. /\ store' \in [Tags -> [Charges -> Seq(Nat)]] /\ (store'[t][c] = z \/ store'[t][c] = list)
       /\ \A u \in Tags, d \in Charges : <<u, d>> # <<t, c>> => store'[u][d] = store[u][d]
       /\ <<t, c>> \notin disordered' => store'[t][c] = z
  <2>1. CASE store' = [store EXCEPT ![t][c] = z]
    BY <1>1, <1>7, <1>8, <2>1, OneList
  <2>2. CASE store' = store /\ disordered' = disordered \union {<<t, c>>}
    BY <1>7, <2>2 DEF list
  <2>3. QED
    BY <1>9, <2>1, <2>2
<1>11. disordered' \subseteq Tags \X Charges /\ disordered \subseteq disordered'
  BY <1>1, <1>7, <1>9 DEF Upset
<1>12. ListsKnown'
  <2>1. ASSUME NEW u \in Tags, NEW d \in Charges
        PROVE  /\ Len(vecs[u][d]) <= VecsCap /\ ToSet(vecs[u][d]) \subseteq stamps
               /\ Len(store'[u][d]) <= VecsCap /\ ToSet(store'[u][d]) \subseteq stamps
               /\ Distinct(store'[u][d]) /\ InHand(u, d)' \intersect ToSet(store'[u][d]) = {}
    <3>1. /\ Len(vecs[u][d]) <= VecsCap /\ ToSet(vecs[u][d]) \subseteq stamps
          /\ Len(store[u][d]) <= VecsCap /\ ToSet(store[u][d]) \subseteq stamps
          /\ Distinct(store[u][d]) /\ InHand(u, d) \intersect ToSet(store[u][d]) = {}
      BY DEF VectorInv, ListsKnown
    <3>2. CASE u = t /\ d = c
      <4>1. InHand(t, c)' = InHand(t, c) \ {ts}
        BY <1>1, <1>5
      <4>2. ToSet(z) \subseteq ToSet(list) \union {ts} /\ ToSet(list) \subseteq stamps /\ ts \in stamps /\ InHand(t, c) \intersect ToSet(list) = {}
        BY <1>1, <1>7, <1>8, <3>1, <3>2 DEF list
      <4>3. CASE store'[t][c] = z
        BY <1>8, <3>1, <3>2, <4>1, <4>2, <4>3
      <4>4. CASE store'[t][c] = list
        BY <1>7, <3>1, <3>2, <4>1, <4>2, <4>4
      <4>5. QED
        BY <1>10, <4>3, <4>4
    <3>3. CASE <<u, d>> # <<t, c>>
      BY <1>5, <1>10, <3>1, <3>3
    <3>4. QED
      BY <3>2, <3>3
  <2>2. vecs' = vecs /\ vecs \in [Tags -> [Charges -> Seq(Nat)]] /\ stamps' = stamps
    BY DEF VectorInv, ListsKnown
  <2>3. QED
    BY <1>10, <1>11, <2>1, <2>2 DEF ListsKnown
<1>13. ASSUME NEW u \in Tags, NEW d \in Charges, <<u, d>> \notin disordered' PROVE InOrderAt(u, d)'
  <2>1. InOrderAt(u, d)
    BY <1>11, <1>13 DEF VectorInv
  <2>2. Dreamt(u)' = Dreamt(u) /\ vecs'[u][d] = vecs[u][d]
    BY DEF Dreamt
  <2>3. CASE <<u, d>> # <<t, c>>
    BY <1>5, <1>10, <2>1, <2>2, <2>3 DEF InOrderAt
  <2>4. CASE u = t /\ d = c
    <3>1. Rising(vecs[t][c]) /\ ToSet(vecs[t][c]) = Top(ToSet(list) \union InHand(t, c))
      BY <1>1, <2>1, <2>4 DEF InOrderAt, list
    <3>2. <<t, c>> \notin Upset(t, c, Append(list, ts)) /\ store'[t][c] = z
      BY <1>9, <1>10, <1>13, <2>4
    <3>3. Rising(z) /\ ToSet(z) = Top(ToSet(list) \union {ts})
      BY <1>1, <1>7, <3>2, ArrivesInTime DEF z
    <3>4. ToSet(list) \union {ts} \in SUBSET (1..MaxVectors) /\ InHand(t, c)' \in SUBSET (1..MaxVectors)
      BY <1>1, <1>7 DEF VectorInv, StepsKnown, InHand
    <3>5. Top(ToSet(z) \union InHand(t, c)') = Top((ToSet(list) \union {ts}) \union InHand(t, c)')
      BY <3>3, <3>4, TopIsEnough
    <3>6. InHand(t, c)' = InHand(t, c) \ {ts}
      BY <1>1, <1>5
    <3>7. (ToSet(list) \union {ts}) \union InHand(t, c)' = ToSet(list) \union InHand(t, c)
      BY <1>6, <3>6
    <3>8. ToSet(vecs[t][c]) = Top(ToSet(z) \union InHand(t, c)')
      BY <3>1, <3>5, <3>7
    <3>9. QED
      BY <1>1, <2>2, <2>4, <3>1, <3>2, <3>3, <3>8 DEF InOrderAt
  <2>5. QED
    BY <2>3, <2>4
<1>14. QED
  BY <1>3, <1>12, <1>13 DEF VectorInv

(* The dreamer has stored a vector.                                        *)
LEMMA VectorDreamt ==
  ASSUME VectorInv, dreaming = {}, NEW t \in Tags, NEW ts \in (1..MaxVectors) \ stamps,
         NEW v, v = [tag |-> t, charge |-> "process", ts |-> ts],
         Insert(v), dreaming' = {v}, stamps' = stamps \union {ts}, UNCHANGED <<vecs, step>>
  PROVE  VectorInv'
<1> USE ExpBounds
<1> DEFINE c == "process"
           list == store[t][c]
           z == Latest(Append(list, ts))
<1>1. c \in Charges /\ v \in Pendings /\ ts \in 1..MaxVectors /\ ts \in Nat /\ v.tag = t /\ v.charge = c /\ v.ts = ts
  BY DEF Charges, Pendings
<1>2. StepsKnown'
  <2>1. dreaming' \in SUBSET Pendings /\ \A w \in dreaming' : w.charge = "process" /\ w.ts \in stamps'
    BY <1>1
  <2>2. \A w, x \in dreaming' : w = x
    OBVIOUS
  <2>3. step' = step /\ stamps \subseteq stamps' /\ stamps' \subseteq 1..MaxVectors
    BY <1>1 DEF VectorInv, StepsKnown
  <2>4. QED
    BY <2>1, <2>2, <2>3 DEF VectorInv, StepsKnown
<1>3. \A u, d : InHand(u, d)' = InHand(u, d)
  BY DEF InHand
<1>4. /\ list \in Seq(Nat) /\ Len(list) <= VecsCap /\ ToSet(list) \subseteq stamps /\ ts \notin ToSet(list) /\ Distinct(list)
      /\ store \in [Tags -> [Charges -> Seq(Nat)]] /\ disordered \subseteq Tags \X Charges
  BY <1>1 DEF VectorInv, ListsKnown
<1>5. z \in Seq(Nat) /\ Len(z) <= VecsCap /\ ToSet(z) \subseteq ToSet(list) \union {ts} /\ Distinct(z)
  <2>1. Append(list, ts) \in Seq(Nat) /\ Len(Append(list, ts)) <= VecsCap + 1 /\ ToSet(Append(list, ts)) = ToSet(list) \union {ts}
    BY <1>1, <1>4, VectorArrives
  <2>2. Distinct(Append(list, ts))
    BY <1>1, <1>4, ArrivesNew
  <2>3. QED
    BY <2>1, <2>2, LatestIs
<1>6. \/ store' = [store EXCEPT ![t][c] = z] /\ disordered' = disordered \union Upset(t, c, Append(list, ts))
      \/ store' = store /\ disordered' = disordered \union {<<t, c>>}
  BY <1>1 DEF Insert
<1> HIDE DEF z, list
<1>7. /\ store' \in [Tags -> [Charges -> Seq(Nat)]] /\ (store'[t][c] = z \/ store'[t][c] = list)
      /\ \A u \in Tags, d \in Charges : <<u, d>> # <<t, c>> => store'[u][d] = store[u][d]
      /\ <<t, c>> \notin disordered' => store'[t][c] = z
  <2>1. CASE store' = [store EXCEPT ![t][c] = z]
    BY <1>1, <1>4, <1>5, <2>1, OneList
  <2>2. CASE store' = store /\ disordered' = disordered \union {<<t, c>>}
    BY <1>4, <2>2 DEF list
  <2>3. QED
    BY <1>6, <2>1, <2>2
<1>8. disordered' \subseteq Tags \X Charges /\ disordered \subseteq disordered'
  BY <1>1, <1>4, <1>6 DEF Upset
<1>9. ListsKnown'
  <2>1. ASSUME NEW u \in Tags, NEW d \in Charges
        PROVE  /\ Len(vecs[u][d]) <= VecsCap /\ ToSet(vecs[u][d]) \subseteq stamps'
               /\ Len(store'[u][d]) <= VecsCap /\ ToSet(store'[u][d]) \subseteq stamps'
               /\ Distinct(store'[u][d]) /\ InHand(u, d) \intersect ToSet(store'[u][d]) = {}
    <3>1. /\ Len(vecs[u][d]) <= VecsCap /\ ToSet(vecs[u][d]) \subseteq stamps
          /\ Len(store[u][d]) <= VecsCap /\ ToSet(store[u][d]) \subseteq stamps
          /\ Distinct(store[u][d]) /\ InHand(u, d) \intersect ToSet(store[u][d]) = {}
      BY DEF VectorInv, ListsKnown
    <3>2. CASE u = t /\ d = c
      <4>1. InHand(t, c) \subseteq stamps
        <5>1. \A x \in InHand(t, c) : \E k \in Steps : \E w \in step[k].vector : w.ts = x
          BY DEF InHand
        <5>2. QED
          BY <5>1 DEF VectorInv, StepsKnown
      <4>2. ToSet(z) \subseteq ToSet(list) \union {ts} /\ ToSet(list) \subseteq stamps /\ ts \notin InHand(t, c) /\ InHand(t, c) \intersect ToSet(list) = {}
        BY <1>4, <1>5, <3>1, <3>2, <4>1 DEF list
      <4>3. CASE store'[t][c] = z
        BY <1>5, <3>1, <3>2, <4>2, <4>3
      <4>4. CASE store'[t][c] = list
        BY <1>4, <3>1, <3>2, <4>2, <4>4
      <4>5. QED
        BY <1>7, <4>3, <4>4
    <3>3. CASE <<u, d>> # <<t, c>>
      BY <1>7, <3>1, <3>3
    <3>4. QED
      BY <3>2, <3>3
  <2>2. vecs' = vecs /\ vecs \in [Tags -> [Charges -> Seq(Nat)]]
    BY DEF VectorInv, ListsKnown
  <2>3. QED
    BY <1>3, <1>7, <1>8, <2>1, <2>2 DEF ListsKnown
<1>10. ASSUME NEW u \in Tags, NEW d \in Charges, <<u, d>> \notin disordered' PROVE InOrderAt(u, d)'
  <2>1. InOrderAt(u, d)
    BY <1>8, <1>10 DEF VectorInv
  <2>2. Dreamt(u) = {} /\ vecs'[u][d] = vecs[u][d] /\ Dreamt(u)' = IF u = t THEN {v} ELSE {}
    BY <1>1 DEF Dreamt
  <2>3. CASE d # c
    BY <1>3, <1>7, <2>1, <2>2, <2>3 DEF InOrderAt
  <2>4. CASE u # t /\ d = c
    BY <1>3, <1>7, <2>1, <2>2, <2>4 DEF InOrderAt
  <2>5. CASE u = t /\ d = c
    <3>1. Rising(vecs[t][c]) /\ list = vecs[t][c]
      BY <2>1, <2>2, <2>5 DEF InOrderAt, list
    <3>2. <<t, c>> \notin Upset(t, c, Append(list, ts)) /\ store'[t][c] = z
      BY <1>6, <1>7, <1>10, <2>5
    <3>3. z = Kept(Append(list, ts)) /\ Rising(z)
      BY <1>1, <1>4, <3>2, ArrivesInTime DEF z
    <3>4. store'[t][c] = Kept(Append(vecs[t][c], v.ts))
      BY <1>1, <3>1, <3>2, <3>3
    <3>5. QED
      BY <2>2, <2>5, <3>1, <3>2, <3>3, <3>4 DEF InOrderAt
  <2>6. QED
    BY <2>3, <2>4, <2>5
<1>11. QED
  BY <1>2, <1>9, <1>10 DEF VectorInv

LEMMA VectorOfDream ==
  ASSUME VectorInv, NEW v \in dreaming, UNCHANGED <<store, step, stamps, disordered>>, dreaming' = {},
         NEW t, t = v.tag, NEW ts, ts = v.ts, NEW c, c = "process",
         vecs' = [vecs EXCEPT ![t][c] = Kept(Append(@, ts))]
  PROVE  VectorInv'
<1> USE ExpBounds
<1> DEFINE list == vecs[t][c]
           z == Kept(Append(list, ts))
<1>1. t \in Tags /\ c \in Charges /\ ts \in 1..MaxVectors /\ ts \in Nat /\ ts \in stamps
  BY DEF VectorInv, StepsKnown, Pendings, Charges
<1>2. StepsKnown'
  BY DEF VectorInv, StepsKnown
<1>3. \A u, d : InHand(u, d)' = InHand(u, d)
  BY DEF InHand
<1>4. /\ list \in Seq(Nat) /\ Len(list) <= VecsCap /\ ToSet(list) \subseteq stamps
      /\ vecs \in [Tags -> [Charges -> Seq(Nat)]]
  BY <1>1 DEF VectorInv, ListsKnown
<1>5. z \in Seq(Nat) /\ Len(z) <= VecsCap /\ ToSet(z) \subseteq ToSet(list) \union {ts}
  BY <1>1, <1>4, VectorArrives
<1>6. /\ vecs' \in [Tags -> [Charges -> Seq(Nat)]] /\ vecs'[t][c] = z
      /\ \A u \in Tags, d \in Charges : <<u, d>> # <<t, c>> => vecs'[u][d] = vecs[u][d]
  <2>1. vecs' = [vecs EXCEPT ![t][c] = z]
    OBVIOUS
  <2> HIDE DEF z, list
  <2>2. QED
    BY <1>1, <1>4, <1>5, <2>1, OneList
<1>7. Dreamt(t) = {v} /\ \A u \in Tags : u # t => Dreamt(u) = {}
  BY DEF VectorInv, StepsKnown, Dreamt
<1>8. \A u \in Tags : Dreamt(u)' = {}
  BY DEF Dreamt
<1> HIDE DEF z, list
<1>9. ListsKnown'
  <2>1. ASSUME NEW u \in Tags, NEW d \in Charges
        PROVE  Len(vecs'[u][d]) <= VecsCap /\ ToSet(vecs'[u][d]) \subseteq stamps
    <3>1. Len(vecs[u][d]) <= VecsCap /\ ToSet(vecs[u][d]) \subseteq stamps
      BY DEF VectorInv, ListsKnown
    <3>2. CASE <<u, d>> = <<t, c>>
      BY <1>1, <1>4, <1>5, <1>6, <3>2
    <3>3. CASE <<u, d>> # <<t, c>>
      BY <1>6, <3>1, <3>3
    <3>4. QED
      BY <3>2, <3>3
  <2>2. store' = store /\ stamps' = stamps /\ disordered' = disordered
    OBVIOUS
  <2>3. QED
    BY <1>3, <1>6, <2>1, <2>2 DEF VectorInv, ListsKnown
<1>10. ASSUME NEW u \in Tags, NEW d \in Charges, <<u, d>> \notin disordered PROVE InOrderAt(u, d)'
  <2>1. InOrderAt(u, d)
    BY <1>10 DEF VectorInv
  <2>2. store' = store
    OBVIOUS
  <2>3. CASE d # c
    BY <1>3, <1>6, <2>1, <2>2, <2>3 DEF InOrderAt
  <2>4. CASE u # t /\ d = c
    BY <1>3, <1>6, <1>7, <1>8, <2>1, <2>2, <2>4 DEF InOrderAt
  <2>5. CASE u = t /\ d = c
    <3>1. Rising(store[t][c]) /\ store[t][c] = z
      BY <1>7, <2>1, <2>5 DEF InOrderAt, z, list
    <3>2. QED
      BY <1>6, <1>8, <2>2, <2>5, <3>1 DEF InOrderAt
  <2>6. QED
    BY <2>3, <2>4, <2>5
<1>11. disordered' = disordered
  OBVIOUS
<1>12. QED
  BY <1>2, <1>9, <1>10, <1>11 DEF VectorInv

LEMMA VectorsLoaded ==
  ASSUME VectorInv, vecs' = store, store' = store, stamps' = stamps, dreaming' = {},
         step' = [k \in Steps |-> Rested],
         disordered' = UNION {UNION {Upset(t, c, store[t][c]) : c \in Charges} : t \in Tags}
  PROVE  VectorInv'
<1> USE ExpBounds
<1>1. /\ step' \in [Steps -> [vector : SUBSET Pendings, rows : SUBSET Tags]]
      /\ \A k \in Steps : step'[k].vector = {}
  BY DEF Rested
<1>2. StepsKnown'
  BY <1>1 DEF VectorInv, StepsKnown
<1>3. \A u, d : InHand(u, d)' = {} /\ Dreamt(u)' = {}
  BY <1>1 DEF InHand, Dreamt
<1>4. disordered' \subseteq Tags \X Charges /\ \A t \in Tags, c \in Charges : Upset(t, c, store[t][c]) \subseteq disordered'
  BY DEF Upset
<1>5. ListsKnown'
  BY <1>3, <1>4 DEF VectorInv, ListsKnown
<1>6. ASSUME NEW t \in Tags, NEW c \in Charges, <<t, c>> \notin disordered' PROVE InOrderAt(t, c)'
  <2>1. store[t][c] \in Seq(Nat) /\ Distinct(store[t][c]) /\ Len(store[t][c]) <= VecsCap
    BY DEF VectorInv, ListsKnown
  <2>2. Rising(store[t][c])
    BY <1>4, <1>6, <2>1, InTime
  <2>3. Top(ToSet(store[t][c])) = ToSet(store[t][c])
    BY <2>1, WithinCap
  <2>4. ToSet(store[t][c]) \union InHand(t, c)' = ToSet(store[t][c])
    BY <1>3
  <2>5. ToSet(store[t][c]) = Top(ToSet(store[t][c]) \union InHand(t, c)')
    BY <2>3, <2>4
  <2>6. QED
    BY <1>3, <2>2, <2>5 DEF InOrderAt
<1>7. QED
  BY <1>2, <1>5, <1>6 DEF VectorInv

-----------------------------------------------------------------------------
(* Without the forgetting curve, a record adds one on average, less what   *)
(* contradictions take off: an average below zero has many of those.       *)
Counted(c) ==
  c.conflicts <= c.n /\ c.positive <= c.n /\ c.negative <= c.n
Earned(c) == 2 * c.n <= c.sum + 3 * c.conflicts
AsSaved(a, b) ==
  a.n = b.n /\ a.sum = b.sum /\ a.conflicts = b.conflicts /\ a.positive = b.positive /\ a.negative = b.negative

ClusterInv ==
  /\ cluster \in [Tags -> Counts] /\ saved \in [Tags -> Counts]
  /\ {toDecay, withered, unsaved} \subseteq SUBSET Tags /\ saveFaults \in 0..MaxSaveFaults
  /\ \A t \in Tags :
       /\ Counted(cluster[t]) /\ Counted(saved[t])
       /\ t \notin withered => Earned(cluster[t]) /\ Earned(saved[t])
       /\ SavingRow(t) \/ t \in unsaved \/ AsSaved(saved[t], cluster[t])

LEMMA RecordedIs ==
  ASSUME NEW c \in Counts, Counted(c), c.n < MaxRecords, NEW continuation \in BOOLEAN, NEW conflict \in BOOLEAN, NEW emotion,
         NEW d, d = Recorded(c, continuation, conflict, emotion)
  PROVE  d \in Counts /\ Counted(d) /\ (Earned(c) => Earned(d))
<1> USE ExpBounds
<1>1. /\ c.n \in 0..MaxRecords /\ c.sum \in Int /\ c.conflicts \in 0..MaxRecords /\ c.positive \in 0..MaxRecords
      /\ c.negative \in 0..MaxRecords
      /\ c.conflicts <= c.n /\ c.positive <= c.n /\ c.negative <= c.n
  BY DEF Counts, Counted
<1> DEFINE s == c.sum + (IF continuation THEN 5 ELSE 2) - (IF conflict THEN 3 ELSE 0)
           x == c.conflicts + (IF conflict THEN 1 ELSE 0)
           p == c.positive + (IF emotion = "positive" THEN 1 ELSE 0)
           m == c.negative + (IF emotion = "negative" THEN 1 ELSE 0)
<1>2. d = [n |-> c.n + 1, sum |-> s, conflicts |-> x, positive |-> p, negative |-> m, idle |-> FALSE]
  <2>1. c = [n |-> c.n, sum |-> c.sum, conflicts |-> c.conflicts, positive |-> c.positive, negative |-> c.negative, idle |-> c.idle]
    BY DEF Counts
  <2>2. QED
    BY <2>1 DEF Recorded
<1>3. s \in Int /\ x \in 0..(c.n + 1) /\ p \in 0..(c.n + 1) /\ m \in 0..(c.n + 1) /\ c.n + 1 \in 0..MaxRecords
  BY <1>1
<1>4. c.sum + 3 * c.conflicts + 2 <= s + 3 * x
  BY <1>1
<1> HIDE DEF s, x, p, m
<1>5. d.n = c.n + 1 /\ d.sum = s /\ d.conflicts = x /\ d.positive = p /\ d.negative = m /\ d.idle = FALSE
  BY <1>2
<1>6. Counted(d)
  BY <1>1, <1>3, <1>5 DEF Counted
<1>7. d \in Counts
  <2>1. x \in 0..MaxRecords /\ p \in 0..MaxRecords /\ m \in 0..MaxRecords
    BY <1>1, <1>3
  <2>2. FALSE \in BOOLEAN
    OBVIOUS
  <2>3. QED
    BY <1>2, <1>3, <2>1, <2>2 DEF Counts
<1>8. Earned(c) => Earned(d)
  BY <1>1, <1>3, <1>4, <1>5 DEF Earned
<1>9. QED
  BY <1>6, <1>7, <1>8

LEMMA ClusterLearns ==
  ASSUME ClusterInv, NEW k \in Steps, NEW t \in Tags, NEW continuation \in BOOLEAN, NEW conflict \in BOOLEAN, NEW emotion,
         cluster[t].n < MaxRecords, cluster' = [cluster EXCEPT ![t] = Recorded(@, continuation, conflict, emotion)],
         step[k].rows = {}, step'[k].rows = {t}, \A l \in Steps : l # k => step'[l].rows = step[l].rows,
         UNCHANGED <<saved, toDecay, saveFaults, withered, unsaved>>
  PROVE  ClusterInv'
<1> USE ExpBounds
<1> DEFINE d == Recorded(cluster[t], continuation, conflict, emotion)
<1>1. cluster[t] \in Counts /\ Counted(cluster[t]) /\ cluster \in [Tags -> Counts]
  BY DEF ClusterInv
<1>2. d \in Counts /\ Counted(d) /\ (Earned(cluster[t]) => Earned(d))
  BY <1>1, RecordedIs
<1> HIDE DEF d
<1>3. cluster' \in [Tags -> Counts] /\ cluster'[t] = d /\ \A u \in Tags : u # t => cluster'[u] = cluster[u]
  BY <1>1, <1>2 DEF d
<1>4. \A u \in Tags : SavingRow(u)' <=> (SavingRow(u) \/ u = t)
  BY DEF SavingRow
<1>5. saved' = saved /\ toDecay' = toDecay /\ withered' = withered /\ unsaved' = unsaved /\ saveFaults' = saveFaults
  OBVIOUS
<1>6. ASSUME NEW u \in Tags
      PROVE  /\ Counted(cluster'[u]) /\ Counted(saved'[u])
             /\ u \notin withered' => Earned(cluster'[u]) /\ Earned(saved'[u])
             /\ SavingRow(u)' \/ u \in unsaved' \/ AsSaved(saved'[u], cluster'[u])
  <2>1. /\ Counted(cluster[u]) /\ Counted(saved[u])
        /\ u \notin withered => Earned(cluster[u]) /\ Earned(saved[u])
        /\ SavingRow(u) \/ u \in unsaved \/ AsSaved(saved[u], cluster[u])
    BY DEF ClusterInv
  <2>2. CASE u = t
    BY <1>2, <1>3, <1>4, <1>5, <2>1, <2>2
  <2>3. CASE u # t
    BY <1>3, <1>4, <1>5, <2>1, <2>3
  <2>4. QED
    BY <2>2, <2>3
<1>7. QED
  BY <1>3, <1>5, <1>6 DEF ClusterInv

(* A row is saved, or is not.                                              *)
LEMMA ClusterSaved ==
  ASSUME ClusterInv, NEW t \in Tags, UpsertExperience(t), UNCHANGED <<cluster, withered>>, toDecay' \subseteq toDecay,
         \A u \in Tags : u # t /\ SavingRow(u) => SavingRow(u)'
  PROVE  ClusterInv'
<1> USE ExpBounds
<1>1. cluster' = cluster /\ withered' = withered /\ toDecay' \in SUBSET Tags
  BY DEF ClusterInv
<1>2. CASE saved' = [saved EXCEPT ![t] = cluster[t]] /\ unsaved' = unsaved \ {t} /\ UNCHANGED saveFaults
  <2>1. /\ saved' \in [Tags -> Counts] /\ saved'[t] = cluster[t] /\ \A u \in Tags : u # t => saved'[u] = saved[u]
        /\ unsaved' \in SUBSET Tags /\ saveFaults' \in 0..MaxSaveFaults
    BY <1>2 DEF ClusterInv
  <2>2. AsSaved(cluster[t], cluster[t])
    BY DEF AsSaved
  <2>3. ASSUME NEW u \in Tags
        PROVE  /\ Counted(cluster'[u]) /\ Counted(saved'[u])
               /\ u \notin withered' => Earned(cluster'[u]) /\ Earned(saved'[u])
               /\ SavingRow(u)' \/ u \in unsaved' \/ AsSaved(saved'[u], cluster'[u])
    <3>1. /\ Counted(cluster[u]) /\ Counted(saved[u])
          /\ u \notin withered => Earned(cluster[u]) /\ Earned(saved[u])
          /\ SavingRow(u) \/ u \in unsaved \/ AsSaved(saved[u], cluster[u])
      BY DEF ClusterInv
    <3>2. CASE u = t
      BY <1>1, <2>1, <2>2, <3>1, <3>2
    <3>3. CASE u # t
      BY <1>1, <1>2, <2>1, <3>1, <3>3
    <3>4. QED
      BY <3>2, <3>3
  <2>4. QED
    BY <1>1, <2>1, <2>3 DEF ClusterInv
<1>3. CASE saveFaults < MaxSaveFaults /\ saveFaults' = saveFaults + 1 /\ UNCHANGED saved /\ unsaved' = unsaved \union {t}
  <2>1. unsaved' \in SUBSET Tags /\ saveFaults' \in 0..MaxSaveFaults /\ saved' = saved
    BY <1>3 DEF ClusterInv
  <2>2. ASSUME NEW u \in Tags
        PROVE  /\ Counted(cluster'[u]) /\ Counted(saved'[u])
               /\ u \notin withered' => Earned(cluster'[u]) /\ Earned(saved'[u])
               /\ SavingRow(u)' \/ u \in unsaved' \/ AsSaved(saved'[u], cluster'[u])
    <3>1. /\ Counted(cluster[u]) /\ Counted(saved[u])
          /\ u \notin withered => Earned(cluster[u]) /\ Earned(saved[u])
          /\ SavingRow(u) \/ u \in unsaved \/ AsSaved(saved[u], cluster[u])
      BY DEF ClusterInv
    <3>2. QED
      BY <1>1, <1>3, <2>1, <3>1
  <2>3. QED
    BY <1>1, <2>1, <2>2 DEF ClusterInv
<1>4. QED
  BY <1>2, <1>3 DEF UpsertExperience

LEMMA FadedIs ==
  ASSUME NEW sum \in Int, NEW loss \in Nat
  PROVE  Faded(sum, loss) \in Int
BY DEF Faded

LEMMA SumIs ==
  ASSUME NEW c \in Counts, Counted(c), NEW s \in Int, NEW b \in BOOLEAN, NEW d, d = [c EXCEPT !.sum = s, !.idle = b]
  PROVE  d \in Counts /\ Counted(d)
<1>1. c = [n |-> c.n, sum |-> c.sum, conflicts |-> c.conflicts, positive |-> c.positive, negative |-> c.negative, idle |-> c.idle]
  BY DEF Counts
<1>2. d = [n |-> c.n, sum |-> s, conflicts |-> c.conflicts, positive |-> c.positive, negative |-> c.negative, idle |-> b]
  BY <1>1
<1>3. d \in Counts
  BY <1>2 DEF Counts
<1>4. d.n = c.n /\ d.conflicts = c.conflicts /\ d.positive = c.positive /\ d.negative = c.negative
  BY <1>2
<1>5. QED
  BY <1>3, <1>4 DEF Counted

(* The forgetting curve.                                                   *)
LEMMA ClusterFades ==
  ASSUME ClusterInv, Decay
  PROVE  ClusterInv'
<1> USE ExpBounds
<1> DEFINE idle == {t \in Tags : cluster[t].idle}
<1>1. PICK loss \in Losses :
        cluster' = [t \in Tags |-> IF t \in idle
                                   THEN [cluster[t] EXCEPT !.sum = Faded(@, loss), !.idle = FALSE] ELSE cluster[t]]
  BY DEF Decay
<1>2. /\ toDecay = {} /\ toDecay' = idle /\ withered' = withered \union idle
      /\ saved' = saved /\ unsaved' = unsaved /\ saveFaults' = saveFaults /\ step' = step
  BY DEF Decay
<1>3. ASSUME NEW t \in Tags PROVE cluster'[t] \in Counts /\ Counted(cluster'[t]) /\ (t \notin idle => cluster'[t] = cluster[t])
  <2> DEFINE c == cluster[t]
             s == Faded(c.sum, loss)
  <2>1. c \in Counts /\ Counted(c)
    BY DEF ClusterInv
  <2> HIDE DEF c
  <2>2. s \in Int
    BY <2>1, FadedIs DEF Counts
  <2> HIDE DEF s
  <2>3. CASE t \in idle
    <3> DEFINE d == [c EXCEPT !.sum = s, !.idle = FALSE]
    <3>1. cluster'[t] = d
      BY <1>1, <2>3 DEF c, s
    <3>2. d \in Counts /\ Counted(d)
      <4>1. FALSE \in BOOLEAN
        OBVIOUS
      <4>2. QED
        BY <2>1, <2>2, <4>1, SumIs
    <3>3. QED
      BY <2>3, <3>1, <3>2
  <2>4. CASE t \notin idle
    BY <1>1, <2>1, <2>4 DEF c
  <2>5. QED
    BY <2>3, <2>4
<1>4. cluster' \in [Tags -> Counts]
  BY <1>1, <1>3
<1>5. \A t \in Tags : SavingRow(t)' <=> SavingRow(t) \/ t \in idle
  BY <1>2 DEF SavingRow
<1> HIDE DEF idle
<1>6. ASSUME NEW u \in Tags
      PROVE  /\ Counted(cluster'[u]) /\ Counted(saved'[u])
             /\ u \notin withered' => Earned(cluster'[u]) /\ Earned(saved'[u])
             /\ SavingRow(u)' \/ u \in unsaved' \/ AsSaved(saved'[u], cluster'[u])
  <2>1. /\ Counted(cluster[u]) /\ Counted(saved[u])
        /\ u \notin withered => Earned(cluster[u]) /\ Earned(saved[u])
        /\ SavingRow(u) \/ u \in unsaved \/ AsSaved(saved[u], cluster[u])
    BY DEF ClusterInv
  <2>2. QED
    BY <1>2, <1>3, <1>5, <2>1
<1>7. {toDecay', withered', unsaved'} \subseteq SUBSET Tags
  BY <1>2 DEF ClusterInv, idle
<1>8. QED
  BY <1>2, <1>4, <1>6, <1>7 DEF ClusterInv

(* A cluster is idle or no longer so.                                      *)
LEMMA IdleIs ==
  ASSUME NEW c \in Counts, NEW b \in BOOLEAN, NEW d, d = [c EXCEPT !.idle = b]
  PROVE  /\ d \in Counts /\ AsSaved(d, c) /\ AsSaved(c, d) /\ (Counted(c) => Counted(d)) /\ (Earned(c) => Earned(d))
<1>1. c = [n |-> c.n, sum |-> c.sum, conflicts |-> c.conflicts, positive |-> c.positive, negative |-> c.negative, idle |-> c.idle]
  BY DEF Counts
<1>2. d = [n |-> c.n, sum |-> c.sum, conflicts |-> c.conflicts, positive |-> c.positive, negative |-> c.negative, idle |-> b]
  BY <1>1
<1>3. d \in Counts
  BY <1>2 DEF Counts
<1>4. d.n = c.n /\ d.sum = c.sum /\ d.conflicts = c.conflicts /\ d.positive = c.positive /\ d.negative = c.negative
  BY <1>2
<1>5. QED
  BY <1>3, <1>4 DEF AsSaved, Counted, Earned

LEMMA ClusterIdle ==
  ASSUME ClusterInv, NEW t \in Tags,
         cluster'[t] \in Counts, AsSaved(cluster'[t], cluster[t]), Counted(cluster'[t]), Earned(cluster[t]) => Earned(cluster'[t]),
         saved'[t] \in Counts, AsSaved(saved'[t], saved[t]), Counted(saved'[t]), Earned(saved[t]) => Earned(saved'[t]),
         NEW a \in Counts, cluster' = [cluster EXCEPT ![t] = a], NEW b \in Counts, saved' = [saved EXCEPT ![t] = b],
         UNCHANGED <<toDecay, saveFaults, withered, unsaved>>, \A k \in Steps : step'[k].rows = step[k].rows
  PROVE  ClusterInv'
<1>1. /\ cluster' \in [Tags -> Counts] /\ saved' \in [Tags -> Counts]
      /\ \A u \in Tags : u # t => cluster'[u] = cluster[u] /\ saved'[u] = saved[u]
  BY DEF ClusterInv
<1>2. \A u : SavingRow(u)' <=> SavingRow(u)
  BY DEF SavingRow
<1>3. withered' = withered /\ unsaved' = unsaved /\ toDecay' = toDecay /\ saveFaults' = saveFaults
  OBVIOUS
<1>4. ASSUME NEW u \in Tags
      PROVE  /\ Counted(cluster'[u]) /\ Counted(saved'[u])
             /\ u \notin withered' => Earned(cluster'[u]) /\ Earned(saved'[u])
             /\ SavingRow(u)' \/ u \in unsaved' \/ AsSaved(saved'[u], cluster'[u])
  <2>1. /\ Counted(cluster[u]) /\ Counted(saved[u])
        /\ u \notin withered => Earned(cluster[u]) /\ Earned(saved[u])
        /\ SavingRow(u) \/ u \in unsaved \/ AsSaved(saved[u], cluster[u])
    BY DEF ClusterInv
  <2>2. CASE u = t
    <3>1. AsSaved(saved[t], cluster[t]) => AsSaved(saved'[t], cluster'[t])
      BY DEF AsSaved
    <3>2. QED
      BY <1>2, <1>3, <2>1, <2>2, <3>1
  <2>3. CASE u # t
    BY <1>1, <1>2, <1>3, <2>1, <2>3
  <2>4. QED
    BY <2>2, <2>3
<1>5. QED
  BY <1>1, <1>3, <1>4 DEF ClusterInv

LEMMA IdleUpdate ==
  ASSUME NEW f \in [Tags -> Counts], NEW t \in Tags, NEW b \in BOOLEAN, NEW g, g = [f EXCEPT ![t].idle = b]
  PROVE  g = [f EXCEPT ![t] = g[t]] /\ g[t] = [f[t] EXCEPT !.idle = b]
OBVIOUS

LEMMA IdleOne ==
  ASSUME NEW f \in [Tags -> Counts], \A u \in Tags : Counted(f[u]), NEW t \in Tags, NEW b \in BOOLEAN,
         NEW g, g = [f EXCEPT ![t].idle = b]
  PROVE  /\ g = [f EXCEPT ![t] = g[t]] /\ g[t] \in Counts /\ AsSaved(g[t], f[t])
         /\ Counted(g[t]) /\ (Earned(f[t]) => Earned(g[t]))
<1>1. g = [f EXCEPT ![t] = g[t]] /\ g[t] = [f[t] EXCEPT !.idle = b]
  BY IdleUpdate
<1>2. f[t] \in Counts /\ Counted(f[t])
  OBVIOUS
<1>3. /\ g[t] \in Counts /\ AsSaved(g[t], f[t]) /\ AsSaved(f[t], g[t]) /\ (Counted(f[t]) => Counted(g[t]))
      /\ (Earned(f[t]) => Earned(g[t]))
  BY <1>1, <1>2, IdleIs
<1>4. QED
  BY <1>1, <1>2, <1>3

(* The clusters are loaded from their rows.                                *)
LEMMA ClusterLoaded ==
  ASSUME ClusterInv, cluster' = saved, toDecay' = {}, unsaved' = {}, UNCHANGED <<saved, saveFaults, withered>>,
         step' = [k \in Steps |-> Rested]
  PROVE  ClusterInv'
<1>1. saved' = saved /\ withered' = withered /\ saveFaults' = saveFaults
  OBVIOUS
<1>2. ASSUME NEW u \in Tags
      PROVE  /\ Counted(cluster'[u]) /\ Counted(saved'[u])
             /\ u \notin withered' => Earned(cluster'[u]) /\ Earned(saved'[u])
             /\ SavingRow(u)' \/ u \in unsaved' \/ AsSaved(saved'[u], cluster'[u])
  <2>1. Counted(saved[u]) /\ (u \notin withered => Earned(saved[u]))
    BY DEF ClusterInv
  <2>2. QED
    BY <1>1, <2>1 DEF AsSaved
<1>3. QED
  BY <1>1, <1>2 DEF ClusterInv

-----------------------------------------------------------------------------
ExpInv == VectorInv /\ ClusterInv

LEMMA ExpStart ==
  ASSUME ExpInit
  PROVE  ExpInv
<1> USE ExpBounds
<1>1. /\ cluster = [t \in Tags |-> NewCluster] /\ saved = cluster
      /\ vecs = [t \in Tags |-> [c \in Charges |-> <<>>]] /\ store = vecs
      /\ step = [k \in Steps |-> Rested] /\ dreaming = {} /\ toDecay = {} /\ stamps = {}
      /\ saveFaults = 0 /\ withered = {} /\ unsaved = {} /\ disordered = {}
  BY DEF ExpInit
<1>2. NewCluster \in Counts /\ Counted(NewCluster) /\ Earned(NewCluster)
  <2>1. 0 \in 0..MaxRecords /\ 0 \in Int /\ FALSE \in BOOLEAN
    OBVIOUS
  <2>2. NewCluster \in Counts
    BY <2>1 DEF NewCluster, Counts
  <2>3. QED
    BY <2>2 DEF NewCluster, Counted, Earned
<1>3. ClusterInv
  <2>1. cluster \in [Tags -> Counts] /\ \A t \in Tags : cluster[t] = NewCluster /\ saved[t] = cluster[t]
    BY <1>1, <1>2
  <2>2. QED
    BY <1>1, <1>2, <2>1 DEF ClusterInv, AsSaved
<1>4. step \in [Steps -> [vector : SUBSET Pendings, rows : SUBSET Tags]] /\ \A k \in Steps : step[k].vector = {}
  BY <1>1 DEF Rested
<1>5. StepsKnown
  BY <1>1, <1>4 DEF StepsKnown
<1>6. /\ vecs \in [Tags -> [Charges -> Seq(Nat)]] /\ store = vecs
      /\ \A t \in Tags, c \in Charges : vecs[t][c] = <<>>
  BY <1>1
<1>7. <<>> \in Seq(Nat) /\ Len(<<>>) = 0 /\ ToSet(<<>>) = {} /\ Rising(<<>>) /\ Distinct(<<>>)
  BY DEF ToSet, Rising, Distinct
<1>8. \A t, c : InHand(t, c) = {} /\ Dreamt(t) = {}
  BY <1>1, <1>4 DEF InHand, Dreamt
<1>9. ListsKnown
  BY <1>1, <1>6, <1>7, <1>8 DEF ListsKnown
<1>10. ASSUME NEW t \in Tags, NEW c \in Charges PROVE InOrderAt(t, c)
  <2>1. Top({} \union {}) = {}
    BY DEF Top
  <2>2. QED
    BY <1>6, <1>7, <1>8, <2>1 DEF InOrderAt
<1>11. QED
  BY <1>3, <1>5, <1>9, <1>10 DEF ExpInv, VectorInv

LEMMA LearningStep ==
  ASSUME ExpInv, NEW k \in Steps, PersistLearns(k)
  PROVE  ExpInv'
<1>1. /\ step[k] = Rested
      /\ UNCHANGED <<saved, store, dreaming, toDecay, saveFaults, withered, unsaved>>
  BY DEF PersistLearns
<1>2. PICK t \in Tags, continuation \in BOOLEAN, conflict \in BOOLEAN, emotion \in {"none", "positive", "negative"} :
        /\ cluster[t].n < MaxRecords
        /\ cluster' = [cluster EXCEPT ![t] = Recorded(@, continuation, conflict, emotion)]
        /\ IF Polarity(continuation, conflict, emotion) = {}
           THEN /\ UNCHANGED <<vecs, stamps, disordered>>
                /\ step' = [step EXCEPT ![k] = [vector |-> {}, rows |-> {t}]]
           ELSE \E c \in Polarity(continuation, conflict, emotion), ts \in (1..MaxVectors) \ stamps :
                  /\ stamps' = stamps \union {ts}
                  /\ vecs' = [vecs EXCEPT ![t][c] = Kept(Append(@, ts))]
                  /\ disordered' = disordered \union Upset(t, c, Append(vecs[t][c], ts))
                  /\ step' = [step EXCEPT ![k] =
                                [vector |-> {[tag |-> t, charge |-> c, ts |-> ts]}, rows |-> {t}]]
  BY DEF PersistLearns
<1>3. step \in [Steps -> [vector : SUBSET Pendings, rows : SUBSET Tags]]
  BY DEF ExpInv, VectorInv, StepsKnown
<1>4. step[k].vector = {} /\ step[k].rows = {}
  BY <1>1 DEF Rested
<1>5. VectorInv' /\ step'[k].rows = {t} /\ \A l \in Steps : l # k => step'[l].rows = step[l].rows
  <2>1. CASE Polarity(continuation, conflict, emotion) = {}
    <3>1. /\ UNCHANGED <<vecs, store, dreaming, stamps, disordered>>
          /\ step' = [step EXCEPT ![k] = [vector |-> {}, rows |-> {t}]]
      BY <1>1, <1>2, <2>1
    <3>2. [vector |-> {}, rows |-> {t}] \in [vector : SUBSET Pendings, rows : SUBSET Tags]
      OBVIOUS
    <3>3. /\ step' \in [Steps -> [vector : SUBSET Pendings, rows : SUBSET Tags]]
          /\ step'[k].vector = {} /\ step'[k].rows = {t} /\ \A l \in Steps : l # k => step'[l] = step[l]
      BY <1>3, <3>1, <3>2
    <3>4. \A l \in Steps : step'[l].vector = step[l].vector
      BY <1>4, <3>3
    <3>5. VectorInv
      BY DEF ExpInv
    <3>6. VectorInv'
      BY <3>1, <3>3, <3>4, <3>5, VectorsQuiet
    <3>7. QED
      BY <3>3, <3>6
  <2>2. CASE Polarity(continuation, conflict, emotion) # {}
    <3>1. PICK c \in Polarity(continuation, conflict, emotion), ts \in (1..MaxVectors) \ stamps :
            /\ stamps' = stamps \union {ts}
            /\ vecs' = [vecs EXCEPT ![t][c] = Kept(Append(@, ts))]
            /\ disordered' = disordered \union Upset(t, c, Append(vecs[t][c], ts))
            /\ step' = [step EXCEPT ![k] = [vector |-> {[tag |-> t, charge |-> c, ts |-> ts]}, rows |-> {t}]]
      BY <1>2, <2>2
    <3>2. c \in {"positive", "negative"}
      BY PolarityIs
    <3>3. VectorInv /\ UNCHANGED <<store, dreaming>>
      BY <1>1 DEF ExpInv
    <3>4. VectorInv'
      BY <1>4, <3>1, <3>2, <3>3, VectorRecorded
    <3>5. QED
      BY <1>3, <3>1, <3>4
  <2>3. QED
    BY <2>1, <2>2
<1>6. ClusterInv /\ UNCHANGED <<saved, toDecay, saveFaults, withered, unsaved>>
  BY <1>1 DEF ExpInv
<1>7. ClusterInv'
  BY <1>2, <1>4, <1>5, <1>6, ClusterLearns
<1>8. QED
  BY <1>5, <1>7 DEF ExpInv

(* What does not touch the clusters nor the rows to be saved.              *)
LEMMA ClustersQuiet ==
  ASSUME ClusterInv, UNCHANGED <<cluster, saved, toDecay, withered, unsaved>>,
         saveFaults' \in 0..MaxSaveFaults, \A k \in Steps : step'[k].rows = step[k].rows
  PROVE  ClusterInv'
<1>1. \A u : SavingRow(u)' <=> SavingRow(u)
  BY DEF SavingRow
<1>2. QED
  BY <1>1 DEF ClusterInv

LEMMA InsertFaults ==
  ASSUME ClusterInv, NEW v, Insert(v)
  PROVE  saveFaults' \in 0..MaxSaveFaults
BY ExpBounds DEF ClusterInv, Insert

LEMMA SavingStep ==
  ASSUME ExpInv, NEW k \in Steps, SaveVector(k) \/ SaveRow(k)
  PROVE  ExpInv'
<1>1. VectorInv /\ ClusterInv /\ step \in [Steps -> [vector : SUBSET Pendings, rows : SUBSET Tags]]
  BY DEF ExpInv, VectorInv, StepsKnown
<1>2. CASE SaveVector(k)
  <2>1. PICK v \in step[k].vector : Insert(v)
    BY <1>2 DEF SaveVector
  <2>2. /\ step' = [step EXCEPT ![k].vector = {}] /\ UNCHANGED <<vecs, dreaming, stamps>>
        /\ UNCHANGED <<cluster, saved, toDecay, withered, unsaved>>
    BY <1>2 DEF SaveVector, ramPart
  <2>3. VectorInv'
    BY <1>1, <2>1, <2>2, VectorSaved
  <2>4. \A l \in Steps : step'[l].rows = step[l].rows
    <3>1. {} \in SUBSET Pendings
      OBVIOUS
    <3>2. step'[k].rows = step[k].rows /\ \A l \in Steps : l # k => step'[l] = step[l]
      BY <1>1, <2>2, <3>1, VectorUpdate
    <3>3. QED
      BY <3>2
  <2>5. saveFaults' \in 0..MaxSaveFaults
    BY <1>1, <2>1, InsertFaults
  <2>6. ClusterInv'
    BY <1>1, <2>2, <2>4, <2>5, ClustersQuiet
  <2>7. QED
    BY <2>3, <2>6 DEF ExpInv
<1>3. CASE SaveRow(k)
  <2>1. PICK t \in step[k].rows : UpsertExperience(t) /\ step' = [step EXCEPT ![k].rows = @ \ {t}]
    BY <1>3 DEF SaveRow
  <2>2. UNCHANGED <<vecs, store, dreaming, stamps, disordered>> /\ UNCHANGED <<cluster, withered>> /\ toDecay' = toDecay
    BY <1>3 DEF SaveRow, ramPart
  <2>3. t \in Tags /\ step[k].rows \ {t} \in SUBSET Tags
    BY <1>1
  <2>4. /\ step' \in [Steps -> [vector : SUBSET Pendings, rows : SUBSET Tags]]
        /\ step'[k].vector = step[k].vector /\ step'[k].rows = step[k].rows \ {t} /\ \A l \in Steps : l # k => step'[l] = step[l]
    BY <1>1, <2>1, <2>3, RowsUpdate
  <2>5. \A l \in Steps : step'[l].vector = step[l].vector
    BY <2>4
  <2>6. VectorInv'
    BY <1>1, <2>2, <2>4, <2>5, VectorsQuiet
  <2>7. \A u \in Tags : u # t /\ SavingRow(u) => SavingRow(u)'
    BY <2>2, <2>4 DEF SavingRow
  <2>8. ClusterInv'
    BY <1>1, <2>1, <2>2, <2>3, <2>7, ClusterSaved
  <2>9. QED
    BY <2>6, <2>8 DEF ExpInv
<1>4. QED
  BY <1>2, <1>3

LEMMA DreamingStep ==
  ASSUME ExpInv, DreamStores \/ DreamRecords
  PROVE  ExpInv'
<1>1. VectorInv /\ ClusterInv /\ step \in [Steps -> [vector : SUBSET Pendings, rows : SUBSET Tags]]
  BY DEF ExpInv, VectorInv, StepsKnown
<1>2. CASE DreamStores
  <2>1. PICK t \in Tags, ts \in (1..MaxVectors) \ stamps :
          /\ Insert([tag |-> t, charge |-> "process", ts |-> ts])
          /\ dreaming' = {[tag |-> t, charge |-> "process", ts |-> ts]} /\ stamps' = stamps \union {ts}
    BY <1>2 DEF DreamStores
  <2>2. dreaming = {} /\ UNCHANGED <<vecs, step>> /\ UNCHANGED <<cluster, saved, toDecay, withered, unsaved>>
    BY <1>2 DEF DreamStores, ramPart
  <2>3. VectorInv'
    BY <1>1, <2>1, <2>2, VectorDreamt
  <2>4. saveFaults' \in 0..MaxSaveFaults
    BY <1>1, <2>1, InsertFaults
  <2>5. \A l \in Steps : step'[l].rows = step[l].rows
    BY <2>2
  <2>6. ClusterInv'
    BY <1>1, <2>2, <2>4, <2>5, ClustersQuiet
  <2>7. QED
    BY <2>3, <2>6 DEF ExpInv
<1>3. CASE DreamRecords
  <2>1. PICK v \in dreaming :
          /\ vecs' = [vecs EXCEPT ![v.tag]["process"] = Kept(Append(@, v.ts))]
          /\ cluster' = [cluster EXCEPT ![v.tag].idle = FALSE]
    BY <1>3 DEF DreamRecords
  <2>2. dreaming' = {} /\ UNCHANGED <<saved, store, step, toDecay, stamps, saveFaults, withered, unsaved, disordered>>
    BY <1>3 DEF DreamRecords, histories
  <2> DEFINE t == v.tag
             ts == v.ts
             c == "process"
  <2>3. t \in Tags
    BY <1>1 DEF VectorInv, StepsKnown, Pendings
  <2>4. VectorInv'
    <3>1. vecs' = [vecs EXCEPT ![t][c] = Kept(Append(@, ts))]
      BY <2>1
    <3>2. UNCHANGED <<store, step, stamps, disordered>>
      BY <2>2
    <3> HIDE DEF t, ts, c
    <3>3. t = v.tag /\ ts = v.ts /\ c = "process"
      BY DEF t, ts, c
    <3>4. QED
      BY <1>1, <2>2, <3>1, <3>2, <3>3, VectorOfDream
  <2>5. /\ cluster' = [cluster EXCEPT ![t] = cluster'[t]] /\ cluster'[t] \in Counts /\ AsSaved(cluster'[t], cluster[t])
        /\ Counted(cluster'[t]) /\ (Earned(cluster[t]) => Earned(cluster'[t]))
    <3> DEFINE b == FALSE
    <3>1. b \in BOOLEAN
      OBVIOUS
    <3>2. cluster' = [cluster EXCEPT ![t].idle = b]
      BY <2>1
    <3>3. cluster \in [Tags -> Counts] /\ \A u \in Tags : Counted(cluster[u])
      BY <1>1 DEF ClusterInv
    <3> HIDE DEF b, t
    <3>4. PICK x \in BOOLEAN : cluster' = [cluster EXCEPT ![t].idle = x]
      BY <3>1, <3>2, Zenon
    <3>5. QED
      BY <2>3, <3>3, <3>4, IdleOne
  <2>6. /\ saved' = [saved EXCEPT ![t] = saved'[t]] /\ saved'[t] \in Counts /\ AsSaved(saved'[t], saved[t])
        /\ Counted(saved'[t]) /\ (Earned(saved[t]) => Earned(saved'[t]))
    BY <1>1, <2>2, <2>3 DEF ClusterInv, AsSaved
  <2>7. UNCHANGED <<toDecay, saveFaults, withered, unsaved>> /\ \A l \in Steps : step'[l].rows = step[l].rows
    BY <2>2
  <2> HIDE DEF t
  <2>8. ClusterInv'
    BY <1>1, <2>3, <2>5, <2>6, <2>7, ClusterIdle
  <2>9. QED
    BY <2>4, <2>8 DEF ExpInv
<1>4. QED
  BY <1>2, <1>3

LEMMA FadingStep ==
  ASSUME ExpInv, Decay \/ SaveDecayed
  PROVE  ExpInv'
<1>1. VectorInv /\ ClusterInv /\ step \in [Steps -> [vector : SUBSET Pendings, rows : SUBSET Tags]]
  BY DEF ExpInv, VectorInv, StepsKnown
<1>2. UNCHANGED <<vecs, store, dreaming, stamps, disordered>> /\ step' = step
  BY DEF Decay, SaveDecayed, ramPart
<1>3. VectorInv'
  <2>1. step' \in [Steps -> [vector : SUBSET Pendings, rows : SUBSET Tags]] /\ \A l \in Steps : step'[l].vector = step[l].vector
    BY <1>1, <1>2
  <2>2. QED
    BY <1>1, <1>2, <2>1, VectorsQuiet
<1>4. CASE Decay
  <2>1. ClusterInv'
    BY <1>1, <1>4, ClusterFades
  <2>2. QED
    BY <1>3, <2>1 DEF ExpInv
<1>5. CASE SaveDecayed
  <2>1. PICK t \in toDecay : UpsertExperience(t) /\ toDecay' = toDecay \ {t}
    BY <1>5 DEF SaveDecayed
  <2>2. UNCHANGED <<cluster, withered>>
    BY <1>5 DEF SaveDecayed, ramPart
  <2>3. t \in Tags /\ toDecay' \subseteq toDecay
    BY <1>1, <2>1 DEF ClusterInv
  <2>4. \A u \in Tags : u # t /\ SavingRow(u) => SavingRow(u)'
    BY <1>2, <2>1 DEF SavingRow
  <2>5. ClusterInv'
    BY <1>1, <2>1, <2>2, <2>3, <2>4, ClusterSaved
  <2>6. QED
    BY <1>3, <2>5 DEF ExpInv
<1>6. QED
  BY <1>4, <1>5

LEMMA IdlingStep ==
  ASSUME ExpInv, GrowsIdle
  PROVE  ExpInv'
<1>1. VectorInv /\ ClusterInv /\ step \in [Steps -> [vector : SUBSET Pendings, rows : SUBSET Tags]]
  BY DEF ExpInv, VectorInv, StepsKnown
<1>2. PICK t \in Tags : /\ cluster' = [cluster EXCEPT ![t].idle = TRUE]
                        /\ saved' = [saved EXCEPT ![t].idle = (saved[t].n > 0)]
  BY DEF GrowsIdle
<1>3. UNCHANGED <<vecs, store, dreaming, stamps, disordered>> /\ step' = step
  BY DEF GrowsIdle, histories
<1>4. UNCHANGED <<toDecay, saveFaults, withered, unsaved>>
  BY DEF GrowsIdle, histories
<1>5. VectorInv'
  <2>1. step' \in [Steps -> [vector : SUBSET Pendings, rows : SUBSET Tags]] /\ \A l \in Steps : step'[l].vector = step[l].vector
    BY <1>1, <1>3
  <2>2. QED
    BY <1>1, <1>3, <2>1, VectorsQuiet
<1>6. /\ cluster' = [cluster EXCEPT ![t] = cluster'[t]] /\ cluster'[t] \in Counts /\ AsSaved(cluster'[t], cluster[t])
      /\ Counted(cluster'[t]) /\ (Earned(cluster[t]) => Earned(cluster'[t]))
  <2> DEFINE b == TRUE
  <2>1. b \in BOOLEAN
    OBVIOUS
  <2>2. cluster' = [cluster EXCEPT ![t].idle = b]
    BY <1>2
  <2>3. cluster \in [Tags -> Counts] /\ \A u \in Tags : Counted(cluster[u])
    BY <1>1 DEF ClusterInv
  <2> HIDE DEF b
  <2>4. PICK x \in BOOLEAN : cluster' = [cluster EXCEPT ![t].idle = x]
    BY <2>1, <2>2, Zenon
  <2>5. QED
    BY <2>3, <2>4, IdleOne
<1>7. /\ saved' = [saved EXCEPT ![t] = saved'[t]] /\ saved'[t] \in Counts /\ AsSaved(saved'[t], saved[t])
      /\ Counted(saved'[t]) /\ (Earned(saved[t]) => Earned(saved'[t]))
  <2> DEFINE b == saved[t].n > 0
  <2>1. b \in BOOLEAN
    <3>1. saved[t].n \in Int
      BY <1>1 DEF ClusterInv, Counts
    <3>2. \A n \in Int : (n > 0) \in BOOLEAN
      BY SMT
    <3>3. QED
      BY <3>1, <3>2
  <2>2. saved' = [saved EXCEPT ![t].idle = b] /\ saved \in [Tags -> Counts] /\ \A u \in Tags : Counted(saved[u])
    BY <1>1, <1>2 DEF ClusterInv
  <2> HIDE DEF b
  <2>3. QED
    BY <2>1, <2>2, IdleOne
<1>8. \A l \in Steps : step'[l].rows = step[l].rows
  BY <1>3
<1>9. ClusterInv'
  BY <1>1, <1>4, <1>6, <1>7, <1>8, ClusterIdle
<1>10. QED
  BY <1>5, <1>9 DEF ExpInv

LEMMA TablesLoadStep ==
  ASSUME ExpInv, RestartLoads
  PROVE  ExpInv'
<1>1. VectorInv /\ ClusterInv
  BY DEF ExpInv
<1>2. /\ cluster' = saved /\ vecs' = store /\ step' = [k \in Steps |-> Rested] /\ dreaming' = {} /\ toDecay' = {}
      /\ unsaved' = {} /\ disordered' = UNION {UNION {Upset(t, c, store[t][c]) : c \in Charges} : t \in Tags}
      /\ store' = store /\ stamps' = stamps /\ UNCHANGED <<saved, saveFaults, withered>>
  BY DEF RestartLoads
<1>3. VectorInv'
  BY <1>1, <1>2, VectorsLoaded
<1>4. ClusterInv'
  BY <1>1, <1>2, ClusterLoaded
<1>5. QED
  BY <1>3, <1>4 DEF ExpInv

(* No step of a persist step, the dreamer, the consolidation worker or a   *)
(* restart breaks it.                                                      *)
LEMMA ExpStep ==
  ASSUME ExpInv, [ExpNext]_expVars
  PROVE  ExpInv'
<1>1. ASSUME NEW k \in Steps, PersistLearns(k) \/ SaveVector(k) \/ SaveRow(k) PROVE ExpInv'
  BY <1>1, LearningStep, SavingStep
<1>2. CASE DreamStores \/ DreamRecords
  BY <1>2, DreamingStep
<1>3. CASE Decay \/ SaveDecayed
  BY <1>3, FadingStep
<1>4. CASE GrowsIdle
  BY <1>4, IdlingStep
<1>5. CASE RestartLoads
  BY <1>5, TablesLoadStep
<1>6. CASE UNCHANGED expVars
  <2>1. /\ UNCHANGED <<vecs, store, dreaming, stamps, disordered>> /\ step' = step
        /\ UNCHANGED <<cluster, saved, toDecay, withered, unsaved>> /\ saveFaults' = saveFaults
    BY <1>6 DEF expVars
  <2>2. VectorInv /\ ClusterInv /\ step' \in [Steps -> [vector : SUBSET Pendings, rows : SUBSET Tags]]
    BY <2>1 DEF ExpInv, VectorInv, StepsKnown
  <2>3. \A k \in Steps : step'[k].vector = step[k].vector /\ step'[k].rows = step[k].rows
    BY <2>1
  <2>4. saveFaults' \in 0..MaxSaveFaults
    BY <2>1, <2>2 DEF ClusterInv
  <2>5. VectorInv'
    BY <2>1, <2>2, <2>3, VectorsQuiet
  <2>6. ClusterInv'
    BY <2>1, <2>2, <2>3, <2>4, ClustersQuiet
  <2>7. QED
    BY <2>5, <2>6 DEF ExpInv
<1>7. QED
  BY <1>1, <1>2, <1>3, <1>4, <1>5, <1>6 DEF ExpNext

(* A topic to avoid has a bad average and few contradictions.              *)
LEMMA AvoidedWithered ==
  ASSUME ClusterInv, NEW t \in Tags, Intuition(t) = "AVOID_THIS"
  PROVE  t \in withered
<1> USE ExpBounds
<1> DEFINE c == cluster[t]
           seen == Level(c) # "novice"
           tense == seen /\ 10 * c.conflicts > 3 * c.n
<1>1. seen /\ ~tense /\ c.sum < 0
  <2>1. CASE tense
    BY <2>1 DEF Intuition
  <2>2. CASE ~tense /\ ~(seen /\ c.sum < 0)
    BY <2>2 DEF Intuition
  <2>3. QED
    BY <2>1, <2>2
<1>2. c \in Counts /\ (t \notin withered => Earned(c))
  BY DEF ClusterInv
<1>3. c.n \in Nat /\ c.sum \in Int /\ c.conflicts \in Nat
  BY <1>2 DEF Counts
<1>4. ~(10 * c.conflicts > 3 * c.n)
  BY <1>1
<1>5. ~Earned(c)
  BY <1>1, <1>3, <1>4 DEF Earned
<1>6. QED
  BY <1>2, <1>5

(* A cluster and its row agree but for how long ago it was used.           *)
LEMMA RowAgrees ==
  ASSUME NEW a \in Counts, NEW b \in Counts, AsSaved(a, b)
  PROVE  [a EXCEPT !.idle = b.idle] = b
<1>1. a = [n |-> a.n, sum |-> a.sum, conflicts |-> a.conflicts, positive |-> a.positive, negative |-> a.negative, idle |-> a.idle]
  BY DEF Counts
<1>2. b = [n |-> b.n, sum |-> b.sum, conflicts |-> b.conflicts, positive |-> b.positive, negative |-> b.negative, idle |-> b.idle]
  BY DEF Counts
<1>3. [a EXCEPT !.idle = b.idle] = [n |-> a.n, sum |-> a.sum, conflicts |-> a.conflicts, positive |-> a.positive, negative |-> a.negative, idle |-> b.idle]
  BY <1>1
<1>4. QED
  BY <1>2, <1>3 DEF AsSaved

LEMMA ListsAgree ==
  ASSUME VectorInv, NEW t \in Tags, NEW c \in Charges, ~SavingVector(t, c), <<t, c>> \notin disordered
  PROVE  vecs[t][c] = store[t][c]
<1>1. InOrderAt(t, c)
  BY DEF VectorInv
<1>2. InHand(t, c) = {}
  <2>1. ASSUME NEW k \in Steps, NEW x \in 1..MaxVectors PROVE [tag |-> t, charge |-> c, ts |-> x] \notin step[k].vector
    BY DEF SavingVector
  <2>2. QED
    BY <2>1 DEF InHand
<1>3. CASE c = "process"
  <2>1. Dreamt(t) = {}
    BY <1>3 DEF VectorInv, StepsKnown, Dreamt, SavingVector
  <2>2. QED
    BY <1>1, <1>3, <2>1 DEF InOrderAt
<1>4. CASE c # "process"
  <2>1. /\ store[t][c] \in Seq(Nat) /\ vecs[t][c] \in Seq(Nat) /\ Len(store[t][c]) <= VecsCap
    BY DEF VectorInv, ListsKnown
  <2>2. ToSet(store[t][c]) \union InHand(t, c) = ToSet(store[t][c])
    BY <1>2
  <2>3. Top(ToSet(store[t][c])) = ToSet(store[t][c])
    BY <2>1, WithinCap
  <2>4. ToSet(vecs[t][c]) = ToSet(store[t][c]) /\ Rising(vecs[t][c]) /\ Rising(store[t][c])
    BY <1>1, <1>4, <2>2, <2>3 DEF InOrderAt
  <2>5. QED
    BY <2>1, <2>4, OneOrder
<1>5. QED
  BY <1>3, <1>4

(* What an agent is told of a topic, and what a restart would load.        *)
THEOREM ExperienceIsSound == ExpSpec => []ExperienceSound
<1>1. ExpInit => ExpInv
  BY ExpStart
<1>2. ExpInv /\ [ExpNext]_expVars => ExpInv'
  BY ExpStep
<1>3. ExpInv => ExperienceSound
  <2>1. SUFFICES ASSUME ExpInv PROVE ExperienceSound
    OBVIOUS
  <2>2. VectorInv /\ ClusterInv
    BY <2>1 DEF ExpInv
  <2>3. \A t \in Tags : Intuition(t) = "AVOID_THIS" => t \in withered
    BY <2>2, AvoidedWithered
  <2>4. ASSUME NEW t \in Tags
        PROVE  SavingRow(t) \/ t \in unsaved \/ [saved[t] EXCEPT !.idle = cluster[t].idle] = cluster[t]
    <3>1. saved[t] \in Counts /\ cluster[t] \in Counts /\ (SavingRow(t) \/ t \in unsaved \/ AsSaved(saved[t], cluster[t]))
      BY <2>2 DEF ClusterInv
    <3>2. AsSaved(saved[t], cluster[t]) => [saved[t] EXCEPT !.idle = cluster[t].idle] = cluster[t]
      BY <3>1, RowAgrees
    <3>3. QED
      BY <3>1, <3>2
  <2>5. \A t \in Tags, c \in Charges : SavingVector(t, c) \/ <<t, c>> \in disordered \/ vecs[t][c] = store[t][c]
    BY <2>2, ListsAgree
  <2>6. QED
    BY <2>3, <2>4, <2>5 DEF ExperienceSound
<1>4. QED
  BY <1>1, <1>2, <1>3, PTL DEF ExpSpec
=============================================================================
