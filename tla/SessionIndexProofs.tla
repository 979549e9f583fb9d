------------------------- MODULE SessionIndexProofs -------------------------
(***************************************************************************)
(* What the observer's pipelines, the dissolver, consolidation, the two    *)
(* ctx_load tools and hydration keep of the sessions' memory - in RAM, in  *)
(* the vector matrix, in the write queue and on disk - for any finite set  *)
(* of sessions, any loaders, any window and any bounds.                    *)
(***************************************************************************)
EXTENDS SessionIndex, FiniteSetTheorems, SequenceTheorems, WellFoundedInduction, TLAPS

(* What is queued, and the last position of a session in a queue.          *)
Queued == [sid : Sessions, brief : Briefs]
LastOf(q, s, i) == i \in DOMAIN q /\ q[i].sid = s /\ \A j \in DOMAIN q : j > i => q[j].sid # s

-----------------------------------------------------------------------------
(* A nonempty set of positions of a sequence has a last one.               *)
LEMMA GreatestPosition ==
  ASSUME NEW n \in Nat, NEW S \in SUBSET (1..n), S # {}
  PROVE  Max(S) \in S /\ \A x \in S : x <= Max(S)
<1> DEFINE Less == {ss \in Nat \X Nat : ss[1] < ss[2]}
<1> DEFINE D == {n - i : i \in S}
<1>1. IsWellFoundedOn(Less, Nat)
  BY NatLessThanWellFounded, Zenon DEF OpToRel
<1>2. \A x, y \in Nat : y < x => <<y, x>> \in Less
  OBVIOUS
<1>3. D \in SUBSET Nat /\ D # {}
  <2>1. \A i \in S : n - i \in Nat
    OBVIOUS
  <2>2. QED
    BY <2>1
<1> HIDE DEF Less
<1>4. PICK d \in D : \A e \in D : ~(<<e, d>> \in Less)
  BY <1>1, <1>3, WFMin, Zenon
<1>5. PICK i \in S : d = n - i
  BY <1>4
<1>6. ASSUME NEW x \in S PROVE x <= i
  <2>1. n - x \in D /\ n - x \in Nat /\ d \in Nat
    BY <1>3
  <2>2. ~(n - x < d)
    BY <1>2, <1>4, <2>1
  <2>3. QED
    BY <1>5, <2>1, <2>2
<1>7. \E y \in S : \A x \in S : y >= x
  BY <1>6
<1>8. Max(S) \in S /\ \A x \in S : Max(S) >= x
  BY <1>7, Zenon DEF Max
<1>9. QED
  BY <1>8

(* What an upsert of a sequence leaves: the last brief of each session, or *)
(* what the table had.                                                     *)
LEMMA UpsertNone ==
  ASSUME NEW q \in Seq(Queued), NEW s \in Sessions, NEW t, \A i \in DOMAIN q : q[i].sid # s
  PROVE  Upsert(t, q)[s] = t[s]
  BY DEF Upsert

LEMMA NoneOrSome ==
  ASSUME NEW q \in Seq(Queued), NEW s \in Sessions
  PROVE  (\A i \in DOMAIN q : q[i].sid # s) \/ \E i : LastOf(q, s, i)
<1> DEFINE mine == {i \in DOMAIN q : q[i].sid = s}
<1> DEFINE m == Max(mine)
<1>1. Len(q) \in Nat /\ DOMAIN q = 1..Len(q)
  BY LenProperties
<1>2. ASSUME mine # {} PROVE LastOf(q, s, m)
  <2>1. m \in mine /\ \A x \in mine : x <= m
    BY <1>1, <1>2, GreatestPosition
  <2> HIDE DEF m
  <2>2. \A j \in DOMAIN q : j > m => j \notin mine
    BY <1>1, <2>1
  <2>3. QED
    BY <2>1, <2>2 DEF LastOf
<1>3. QED
  BY <1>2

LEMMA UpsertSome ==
  ASSUME NEW q \in Seq(Queued), NEW s \in Sessions, NEW t, NEW k, LastOf(q, s, k)
  PROVE  Upsert(t, q)[s] = q[k].brief
<1> DEFINE mine == {i \in DOMAIN q : q[i].sid = s}
<1> DEFINE m == Max(mine)
<1>1. Len(q) \in Nat /\ DOMAIN q = 1..Len(q)
  BY LenProperties
<1>2. k \in mine /\ \A j \in DOMAIN q : j > k => j \notin mine
  BY DEF LastOf
<1>3. m \in mine /\ \A x \in mine : x <= m
  BY <1>1, <1>2, GreatestPosition
<1>4. Upsert(t, q)[s] = q[m].brief
  BY <1>2 DEF Upsert
<1> HIDE DEF m
<1>5. m = k
  BY <1>1, <1>2, <1>3
<1>6. QED
  BY <1>4, <1>5

LEMMA UpsertIs ==
  ASSUME NEW q \in Seq(Queued), NEW s \in Sessions, NEW t
  PROVE  Upsert(t, q)[s] = t[s] \/ \E i \in DOMAIN q : q[i].sid = s /\ Upsert(t, q)[s] = q[i].brief
  BY UpsertNone, NoneOrSome, UpsertSome DEF LastOf

LEMMA UpsertType ==
  ASSUME NEW q \in Seq(Queued), NEW t \in [Sessions -> Briefs]
  PROVE  Upsert(t, q) \in [Sessions -> Briefs]
<1>1. ASSUME NEW s \in Sessions PROVE Upsert(t, q)[s] \in Briefs
  <2>1. \A i \in DOMAIN q : q[i].brief \in Briefs
    <3>1. \A i \in DOMAIN q : q[i] \in Queued
      BY LenProperties
    <3>2. QED
      BY <3>1 DEF Queued
  <2>2. QED
    BY <2>1, UpsertIs
<1>2. QED
  BY <1>1 DEF Upsert

LEMMA UpsertAppended ==
  ASSUME NEW q \in Seq(Queued), NEW x \in Queued, NEW s \in Sessions, NEW t
  PROVE  /\ x.sid = s => Upsert(t, Append(q, x))[s] = x.brief
         /\ x.sid # s => Upsert(t, Append(q, x))[s] = Upsert(t, q)[s]
<1> DEFINE p == Append(q, x)
<1>1. /\ p \in Seq(Queued) /\ Len(q) \in Nat /\ DOMAIN q = 1..Len(q) /\ DOMAIN p = 1..(Len(q) + 1)
      /\ \A i \in 1..Len(q) : p[i] = q[i]
      /\ p[Len(q) + 1] = x
  BY AppendProperties, LenProperties
<1>5. p \in Seq(Queued)
  BY <1>1
<1> HIDE DEF p
<1>2. ASSUME x.sid = s PROVE Upsert(t, p)[s] = x.brief
  <2>1. LastOf(p, s, Len(q) + 1)
    BY <1>1, <1>2 DEF LastOf
  <2>2. Upsert(t, p)[s] = p[Len(q) + 1].brief
    BY <1>5, <2>1, UpsertSome
  <2>3. QED
    BY <1>1, <2>2
<1>3. ASSUME x.sid # s PROVE Upsert(t, p)[s] = Upsert(t, q)[s]
  <2>1. CASE \A i \in DOMAIN q : q[i].sid # s
    <3>1. \A i \in DOMAIN p : p[i].sid # s
      BY <1>1, <1>3, <2>1
    <3>2. Upsert(t, p)[s] = t[s]
      BY <1>5, <3>1, UpsertNone
    <3>3. Upsert(t, q)[s] = t[s]
      BY <2>1, UpsertNone
    <3>4. QED
      BY <3>2, <3>3
  <2>2. ASSUME NEW i, LastOf(q, s, i) PROVE Upsert(t, p)[s] = Upsert(t, q)[s]
    <3>1. LastOf(p, s, i) /\ p[i] = q[i]
      BY <1>1, <1>3, <2>2 DEF LastOf
    <3>2. QED
      <4>1. Upsert(t, q)[s] = q[i].brief
        BY <2>2, UpsertSome
      <4>2. Upsert(t, p)[s] = p[i].brief
        BY <1>5, <3>1, UpsertSome
      <4>3. QED
        BY <3>1, <4>1, <4>2
  <2>3. QED
    BY <2>1, <2>2, NoneOrSome
<1>4. QED
  BY <1>2, <1>3 DEF p

(* Writing the first of a queue and then the rest is writing the queue.    *)
LEMMA UpsertHead ==
  ASSUME NEW q \in Seq(Queued), q # <<>>, NEW s \in Sessions, NEW t
  PROVE  Upsert(Upsert(t, <<Head(q)>>), Tail(q))[s] = Upsert(t, q)[s]
<1> DEFINE r == Tail(q)
<1> DEFINE h == <<Head(q)>>
<1>1. /\ r \in Seq(Queued) /\ Len(q) \in Nat \ {0} /\ DOMAIN q = 1..Len(q) /\ DOMAIN r = 1..(Len(q) - 1)
      /\ \A i \in 1..(Len(q) - 1) : r[i] = q[i + 1]
      /\ Head(q) = q[1] /\ q[1] \in Queued
  BY HeadTailProperties, LenProperties, EmptySeq
<1>2. h \in Seq(Queued) /\ DOMAIN h = {1} /\ h[1] = q[1]
  BY <1>1
<1>7. r \in Seq(Queued)
  BY <1>1
<1>8. h \in Seq(Queued)
  BY <1>2
<1> HIDE DEF r, h
<1>3. ASSUME \A i \in DOMAIN r : r[i].sid # s PROVE Upsert(Upsert(t, h), r)[s] = Upsert(t, q)[s]
  <2>1. Upsert(Upsert(t, h), r)[s] = Upsert(t, h)[s]
    BY <1>7, <1>3, UpsertNone
  <2>2. \A i \in 2..Len(q) : q[i].sid # s
    <3>1. \A i \in 2..Len(q) : i - 1 \in 1..(Len(q) - 1) /\ r[i - 1] = q[i]
      BY <1>1
    <3>2. QED
      BY <1>1, <1>3, <3>1
  <2>3. CASE q[1].sid = s
    <3>1. LastOf(q, s, 1) /\ LastOf(h, s, 1)
      BY <1>1, <1>2, <2>2, <2>3 DEF LastOf
    <3>2. Upsert(t, q)[s] = q[1].brief
      BY <3>1, UpsertSome
    <3>3. Upsert(t, h)[s] = h[1].brief
      BY <1>8, <3>1, UpsertSome
    <3>4. QED
      BY <1>2, <2>1, <3>2, <3>3
  <2>4. CASE q[1].sid # s
    <3>1. (\A i \in DOMAIN q : q[i].sid # s) /\ \A i \in DOMAIN h : h[i].sid # s
      BY <1>1, <1>2, <2>2, <2>4
    <3>2. Upsert(t, q)[s] = t[s]
      BY <3>1, UpsertNone
    <3>3. Upsert(t, h)[s] = t[s]
      BY <1>8, <3>1, UpsertNone
    <3>4. QED
      BY <2>1, <3>2, <3>3
  <2>5. QED
    BY <2>3, <2>4
<1>4. ASSUME NEW i, LastOf(r, s, i) PROVE Upsert(Upsert(t, h), r)[s] = Upsert(t, q)[s]
  <2>1. i \in 1..(Len(q) - 1) /\ \A j \in 1..(Len(q) - 1) : j > i => r[j].sid # s
    BY <1>1, <1>4 DEF LastOf
  <2>2. ASSUME NEW j \in 1..Len(q), j > i + 1 PROVE q[j].sid # s
    <3>1. j - 1 \in 1..(Len(q) - 1) /\ j - 1 > i /\ r[j - 1] = q[j]
      BY <1>1, <2>1, <2>2
    <3>2. QED
      BY <2>1, <3>1
  <2>3. LastOf(q, s, i + 1) /\ q[i + 1] = r[i]
    BY <1>1, <1>4, <2>1, <2>2 DEF LastOf
  <2>4. Upsert(t, q)[s] = q[i + 1].brief
    BY <2>3, UpsertSome
  <2>5. Upsert(Upsert(t, h), r)[s] = r[i].brief
    BY <1>7, <1>4, UpsertSome
  <2>6. QED
    BY <2>3, <2>4, <2>5
<1>5. Upsert(Upsert(t, h), r)[s] = Upsert(t, q)[s]
  BY <1>7, <1>3, <1>4, NoneOrSome
<1>6. QED
  BY <1>5 DEF r, h

(* Writing the later part of a queue first changes nothing for a session   *)
(* that is in one part only.                                               *)
LEMMA UpsertSplit ==
  ASSUME NEW q \in Seq(Queued), NEW k \in 0..Len(q), NEW s \in Sessions, NEW t,
         ~\E i \in 1..k, j \in (k + 1)..Len(q) : q[i].sid = s /\ q[j].sid = s
  PROVE  Upsert(Upsert(t, SubSeq(q, k + 1, Len(q))), SubSeq(q, 1, k))[s] = Upsert(t, q)[s]
<1> DEFINE a == SubSeq(q, 1, k)
<1> DEFINE b == SubSeq(q, k + 1, Len(q))
<1>1. Len(q) \in Nat /\ DOMAIN q = 1..Len(q) /\ \A i \in 1..Len(q) : q[i] \in Queued
  BY LenProperties
<1>2. a \in Seq(Queued) /\ DOMAIN a = 1..k /\ \A i \in 1..k : a[i] = q[i]
  BY <1>1, SubSeqProperties
<1>3. b \in Seq(Queued) /\ DOMAIN b = 1..(Len(q) - k) /\ \A i \in 1..(Len(q) - k) : b[i] = q[k + i]
  <2>1. k + 1 \in Int /\ Len(q) \in Int /\ \A i \in (k + 1)..Len(q) : q[i] \in Queued
    BY <1>1
  <2>2. /\ b \in Seq(Queued)
        /\ Len(b) = IF k + 1 <= Len(q) THEN Len(q) - (k + 1) + 1 ELSE 0
        /\ \A i \in 1..(Len(q) - (k + 1) + 1) : b[i] = q[(k + 1) + i - 1]
    BY <1>1, <2>1, SubSeqProperties
  <2> HIDE DEF b
  <2>3. Len(b) = Len(q) - k
    <3>1. Len(b) = IF k + 1 <= Len(q) THEN Len(q) - (k + 1) + 1 ELSE 0
      BY <2>2
    <3>2. k \in Nat /\ k <= Len(q) /\ Len(q) \in Nat
      BY <1>1
    <3>3. QED
      BY <3>1, <3>2
  <2>4. \A i \in 1..(Len(q) - k) : (k + 1) + i - 1 = k + i /\ i \in 1..(Len(q) - (k + 1) + 1)
    BY <1>1
  <2>5. QED
    BY <2>2, <2>3, <2>4, LenProperties
<1>8. a \in Seq(Queued)
  BY <1>2
<1>9. b \in Seq(Queued)
  BY <1>3
<1> HIDE DEF a, b
<1>4. ASSUME \A i \in DOMAIN a : a[i].sid # s PROVE Upsert(Upsert(t, b), a)[s] = Upsert(t, q)[s]
  <2>1. Upsert(Upsert(t, b), a)[s] = Upsert(t, b)[s]
    BY <1>8, <1>4, UpsertNone
  <2>2. CASE \A i \in DOMAIN b : b[i].sid # s
    <3>1. ASSUME NEW i \in 1..Len(q) PROVE q[i].sid # s
      <4>1. CASE i \in 1..k
        BY <1>2, <1>4, <4>1
      <4>2. CASE i \notin 1..k
        <5>1. i - k \in 1..(Len(q) - k) /\ k + (i - k) = i
          BY <1>1, <4>2
        <5>2. QED
          BY <1>3, <2>2, <5>1
      <4>3. QED
        BY <4>1, <4>2
    <3>2. Upsert(t, q)[s] = t[s]
      BY <1>1, <3>1, UpsertNone
    <3>3. Upsert(t, b)[s] = t[s]
      BY <1>9, <2>2, UpsertNone
    <3>4. QED
      BY <2>1, <3>2, <3>3
  <2>3. ASSUME NEW i, LastOf(b, s, i) PROVE Upsert(t, b)[s] = Upsert(t, q)[s]
    <3>1. i \in 1..(Len(q) - k) /\ b[i] = q[k + i] /\ \A j \in 1..(Len(q) - k) : j > i => b[j].sid # s
      BY <1>3, <2>3 DEF LastOf
    <3>2. ASSUME NEW j \in 1..Len(q), j > k + i PROVE q[j].sid # s
      <4>1. j - k \in 1..(Len(q) - k) /\ j - k > i /\ k + (j - k) = j
        BY <1>1, <3>1, <3>2
      <4>2. QED
        BY <1>3, <3>1, <4>1
    <3>3. LastOf(q, s, k + i)
      BY <1>1, <2>3, <3>1, <3>2 DEF LastOf
    <3>4. Upsert(t, q)[s] = q[k + i].brief
      BY <3>3, UpsertSome
    <3>5. Upsert(t, b)[s] = b[i].brief
      BY <1>9, <2>3, UpsertSome
    <3>6. QED
      BY <3>1, <3>4, <3>5
  <2>4. QED
    BY <1>9, <2>1, <2>2, <2>3, NoneOrSome
<1>5. ASSUME NEW i, LastOf(a, s, i) PROVE Upsert(Upsert(t, b), a)[s] = Upsert(t, q)[s]
  <2>1. i \in 1..k /\ a[i] = q[i] /\ q[i].sid = s /\ \A j \in 1..k : j > i => q[j].sid # s
    BY <1>2, <1>5 DEF LastOf
  <2>2. \A j \in 1..Len(q) : j > i => q[j].sid # s
    <3>1. ASSUME NEW j \in 1..Len(q), j > i PROVE q[j].sid # s
      <4>1. CASE j \in 1..k
        BY <2>1, <3>1, <4>1
      <4>2. CASE j \notin 1..k
        <5>1. j \in (k + 1)..Len(q)
          BY <1>1, <4>2
        <5>2. QED
          BY <2>1, <5>1
      <4>3. QED
        BY <4>1, <4>2
    <3>2. QED
      BY <3>1
  <2>3. LastOf(q, s, i)
    BY <1>1, <2>1, <2>2 DEF LastOf
  <2>4. Upsert(t, q)[s] = q[i].brief
    BY <2>3, UpsertSome
  <2>5. Upsert(Upsert(t, b), a)[s] = a[i].brief
    BY <1>8, <1>5, UpsertSome
  <2>6. QED
    BY <2>1, <2>4, <2>5
<1>6. Upsert(Upsert(t, b), a)[s] = Upsert(t, q)[s]
  BY <1>8, <1>4, <1>5, NoneOrSome
<1>7. QED
  BY <1>6 DEF a, b
-----------------------------------------------------------------------------
(* Observations are made in turn.                                          *)
Started == \A v \in Obs : v > made => pipe[v] = Idle

(* A brief of a session is the text of one of its observations, whose      *)
(* pipeline got as far as ram_index, with the deadline that was found in   *)
(* it - unless dispatch's ctx_load has read the session.                   *)
Sound(s, b) ==
  b # NoBrief =>
    /\ b.ver \in Obs /\ pipe[b.ver].sid = s /\ pipe[b.ver].pc \in {"inram", "done", "lost"}
    /\ pipe[b.ver].deadline => (b.deadline \/ s \in thinned)
RamSound == \A s \in Sessions : Sound(s, ram[s])
DiskSound == \A s \in Sessions : Sound(s, disk[s])
SoundQueue(q) == \A i \in DOMAIN q : Sound(q[i].sid, q[i].brief)
PendingSound == SoundQueue(pending)
LoadersSound == \A l \in Loaders : loader[l].pc = "read" => Sound(loader[l].sid, loader[l].row)

(* The row an embedded pipeline added is there until it reaches ram_index. *)
RowOf(s, v) == \E r \in rows : r.sid = s /\ r.ver = v
IndexedRows ==
  \A v \in Obs : (pipe[v].pc = "indexed" /\ pipe[v].emb) => (RowOf(pipe[v].sid, v) \/ pipe[v].sid \in raced)

(* RAM holds the newest text that got there, and what the queue leaves of  *)
(* the table once it is written is the newest finished.                    *)
NewestInRam ==
  \A v \in Obs : (pipe[v].pc \in {"inram", "done"} /\ pipe[v].sid \notin crossed /\ InRam(pipe[v].sid))
                   => ram[pipe[v].sid].ver >= v
Final == Upsert(disk, pending)
NewestQueued ==
  \A v \in Obs : (pipe[v].pc = "done" /\ pipe[v].sid \notin crossed) => Final[pipe[v].sid].ver >= v

IndexInv ==
  /\ IndexTypeOK
  /\ Started
  /\ RamSound /\ DiskSound /\ PendingSound /\ LoadersSound
  /\ LabelsSound /\ SearchableUnlessRaced /\ IndexedRows
  /\ NewestInRam /\ NewestQueued

(* The types, variable by variable.                                        *)
Pcs == {"none", "new", "scored", "indexed", "inram", "done", "dropped", "raised", "lost"}
Task == [pc : Pcs, sid : Sessions, emb : BOOLEAN, deadline : BOOLEAN]
PipeType == pipe \in [Obs -> Task]
TablesType == ram \in [Sessions -> Briefs] /\ disk \in [Sessions -> Briefs]
MapsType ==
  /\ rows \subseteq [label : Nat, sid : Sessions, ver : Obs]
  /\ sidTo \in [Sessions -> Nat \union {NoLabel}]
  /\ idTo \in [DOMAIN idTo -> Sessions] /\ DOMAIN idTo \subseteq Nat /\ next \in Nat
QueueType == pending \in Seq(Queued)
LoaderType == loader \in [Loaders -> [pc : {"free", "read"}, sid : Sessions, row : Briefs]]
CountType ==
  /\ made \in 0..MaxObs /\ evictor \in {"idle", "flushed"}
  /\ requeues \in 0..MaxRequeues /\ loads \in 0..MaxLoads /\ crashes \in 0..MaxCrashes
HistoryType == raced \subseteq Sessions /\ crossed \subseteq Sessions /\ thinned \subseteq Sessions

LEMMA Types ==
  IndexTypeOK <=> (/\ PipeType /\ TablesType /\ MapsType /\ QueueType /\ LoaderType /\ CountType /\ HistoryType)
  BY DEF IndexTypeOK, PipeType, TablesType, MapsType, QueueType, LoaderType, CountType, HistoryType, Pcs, Task, Queued

LEMMA TypesNext ==
  (IndexTypeOK <=> (/\ PipeType /\ TablesType /\ MapsType /\ QueueType /\ LoaderType /\ CountType /\ HistoryType))'
  BY Types, PTL

LEMMA NoBriefFacts == /\ NoBrief \in Briefs /\ NoBrief.ver = 0 /\ ~NoBrief.emb
<1>1. 0 \in 0..MaxObs
  BY SessionIndexAssumption
<1>2. NoBrief \in Briefs
  BY <1>1 DEF NoBrief, Brief, Briefs
<1>3. QED
  BY <1>2 DEF NoBrief, Brief

LEMMA IdleFacts == Idle \in Task /\ Idle.pc = "none" /\ Idle.sid \in Sessions
<1>1. (CHOOSE s \in Sessions : TRUE) \in Sessions
  BY SessionIndexAssumption
<1>2. Idle.sid \in Sessions
  BY <1>1 DEF Idle
<1>3. QED
  BY <1>1, <1>2 DEF Idle, Task, Pcs

LEMMA FreeFacts == Free \in [pc : {"free", "read"}, sid : Sessions, row : Briefs] /\ Free.pc = "free"
  BY IdleFacts, NoBriefFacts DEF Free

(* One task moves to another step.                                         *)
Moved(v, c) ==
  \A w \in Obs : /\ pipe'[w].sid = pipe[w].sid /\ pipe'[w].emb = pipe[w].emb
                 /\ pipe'[w].deadline = pipe[w].deadline
                 /\ pipe'[w].pc = IF w = v THEN c ELSE pipe[w].pc
                 /\ w # v => pipe'[w] = pipe[w]

LEMMA PcMoves ==
  ASSUME PipeType, NEW v \in Obs, NEW c \in Pcs, pipe' = [pipe EXCEPT ![v].pc = c]
  PROVE  PipeType' /\ Moved(v, c)
<1>1. pipe' = [pipe EXCEPT ![v] = [pipe[v] EXCEPT !.pc = c]]
  OBVIOUS
<1>2. [pipe[v] EXCEPT !.pc = c] \in Task
  BY DEF PipeType, Task
<1>3. PipeType'
  BY <1>1, <1>2 DEF PipeType
<1>4. QED
  BY <1>1, <1>3 DEF PipeType, Task, Moved

(* Briefs stay sound as long as what their text came from does.            *)
Reached == {"inram", "done", "lost"}
LEMMA StaySound ==
  ASSUME thinned \subseteq thinned',
         \A w \in Obs : pipe[w].pc \in Reached =>
            /\ pipe'[w].pc \in Reached /\ pipe'[w].sid = pipe[w].sid /\ pipe'[w].deadline = pipe[w].deadline
  PROVE  \A s, b : Sound(s, b) => (Sound(s, b))'
  BY DEF Sound, Reached

LEMMA SoundVersions ==
  ASSUME NEW s \in Sessions, NEW b \in Briefs, Sound(s, b), b.emb
  PROVE  b.ver \in Obs
  BY NoBriefFacts DEF Sound

(* The order in which a rebuild numbers the sessions names each once.      *)
LEMMA OrderOf ==
  ASSUME NEW S, IsFiniteSet(S)
  PROVE  LET o == SetToSeq(S) IN
         /\ o \in Seq(S) /\ Len(o) \in Nat /\ DOMAIN o = 1..Len(o)
         /\ \A i \in 1..Len(o) : o[i] \in S
         /\ \A i, j \in 1..Len(o) : o[i] = o[j] => i = j
         /\ \A s \in S : \E i \in 1..Len(o) : o[i] = s
<1> DEFINE n == Cardinality(S)
<1> DEFINE o == SetToSeq(S)
<1>1. n \in Nat /\ \E f \in [1..n -> S] : IsInjective(f)
  BY FS_CardinalityType DEF ExistsBijection, Bijection, Injection
<1>2. o \in [1..n -> S] /\ IsInjective(o)
  BY <1>1 DEF SetToSeq
<1>3. IsFiniteSet(1..n) /\ Cardinality(1..n) = n
  BY <1>1, FS_Interval
<1> HIDE DEF o
<1>4. o \in Surjection(1..n, S)
  <2>1. o \in Injection(1..n, S)
    BY <1>2 DEF Injection
  <2>2. QED
    BY <1>3, <2>1, FS_Injection
<1> HIDE DEF n
<1>5. o \in Seq(S) /\ Len(o) = n /\ DOMAIN o = 1..n
  BY <1>1, <1>2
<1>6. \A s \in S : \E i \in 1..n : o[i] = s
  BY <1>4 DEF Surjection
<1>7. QED
  BY <1>1, <1>2, <1>5, <1>6 DEF IsInjective, o

-----------------------------------------------------------------------------
(* Giving a session its label, with or without a row for it.               *)
LEMMA LabelFacts ==
  ASSUME MapsType, LabelsSound, NEW s \in Sessions, NEW v \in Obs, Label(s),
         rows' \subseteq rows \union {[label |-> LabelOf(s), sid |-> s, ver |-> v]}
  PROVE  MapsType' /\ LabelsSound'
<1>1. LabelOf(s) \in Nat /\ NoLabel \notin Nat
  BY DEF MapsType, LabelOf, NoLabel
<1>2. \A l \in DOMAIN idTo : l = LabelOf(s) => idTo[l] = s
  BY DEF MapsType, LabelsSound, LabelOf
<1>3. rows' \subseteq [label : Nat, sid : Sessions, ver : Obs]
  BY <1>1 DEF MapsType
<1>4. /\ DOMAIN idTo' = DOMAIN idTo \union {LabelOf(s)}
      /\ \A l \in DOMAIN idTo : idTo'[l] = idTo[l]
      /\ idTo'[LabelOf(s)] = s
  BY <1>2 DEF Label
<1>5. idTo' \in [DOMAIN idTo' -> Sessions] /\ DOMAIN idTo' \subseteq Nat
  <2>1. \A l \in DOMAIN idTo' : idTo'[l] \in Sessions
    BY <1>4 DEF MapsType
  <2>2. idTo' = [l \in DOMAIN idTo' |-> idTo'[l]]
    BY DEF Label
  <2>3. QED
    BY <1>1, <1>4, <2>1, <2>2 DEF MapsType
<1>6. /\ sidTo' \in [Sessions -> Nat \union {NoLabel}] /\ next' \in Nat /\ next <= next'
      /\ sidTo'[s] = LabelOf(s) /\ \A t \in Sessions \ {s} : sidTo'[t] = sidTo[t]
      /\ LabelOf(s) < next'
  BY <1>1 DEF MapsType, Label, LabelOf, LabelsSound
<1>7. MapsType'
  BY <1>3, <1>5, <1>6 DEF MapsType
<1>8. LabelsSound'
  <2>1. \A r \in rows' : r.label \in DOMAIN idTo' /\ idTo'[r.label] = r.sid
    BY <1>4 DEF LabelsSound
  <2>2. \A t \in Sessions : sidTo'[t] # NoLabel => (sidTo'[t] \in DOMAIN idTo' /\ idTo'[sidTo'[t]] = t)
    BY <1>4, <1>6 DEF LabelsSound
  <2>3. \A l \in DOMAIN idTo' : l < next'
    <3>1. \A l \in DOMAIN idTo : l \in Nat /\ l < next
      BY DEF MapsType, LabelsSound
    <3>2. QED
      BY <1>4, <1>6, <3>1 DEF MapsType
  <2>4. QED
    BY <2>1, <2>2, <2>3 DEF LabelsSound
<1>9. QED
  BY <1>7, <1>8

(* A rebuild numbers its sessions from nothing and has a row for each.     *)
LEMMA FillFacts ==
  ASSUME NEW S \in SUBSET Sessions, NEW b, \A s \in S : b[s].ver \in Obs, Fill(S, b)
  PROVE  /\ MapsType' /\ LabelsSound'
         /\ \A s \in S : \E r \in rows' : r.sid = s /\ r.ver = b[s].ver
<1> DEFINE o == SetToSeq(S)
<1> DEFINE at(s) == CHOOSE i \in 1..Len(o) : o[i] = s
<1>1. /\ rows' = {[label |-> at(s) - 1, sid |-> s, ver |-> b[s].ver] : s \in S}
      /\ sidTo' = [s \in Sessions |-> IF s \in S THEN at(s) - 1 ELSE NoLabel]
      /\ idTo' = [l \in 0..(Len(o) - 1) |-> o[l + 1]]
      /\ next' = Len(o)
  BY DEF Fill
<1>2. IsFiniteSet(S)
  BY SessionIndexAssumption, FS_Subset
<1>3. /\ Len(o) \in Nat
      /\ \A i \in 1..Len(o) : o[i] \in S
      /\ \A i, j \in 1..Len(o) : o[i] = o[j] => i = j
      /\ \A s \in S : \E i \in 1..Len(o) : o[i] = s
  BY <1>2, OrderOf
<1> HIDE DEF o
<1>4. \A s \in S : at(s) \in 1..Len(o) /\ o[at(s)] = s
  BY <1>3
<1> HIDE DEF at
<1>5. \A s \in S : at(s) - 1 \in 0..(Len(o) - 1) /\ o[(at(s) - 1) + 1] = s
  BY <1>3, <1>4
<1>6. \A l \in 0..(Len(o) - 1) : l \in Nat /\ l < Len(o) /\ o[l + 1] \in S
  BY <1>3
<1>7. DOMAIN idTo' = 0..(Len(o) - 1) /\ \A s \in S : idTo'[at(s) - 1] = s
  BY <1>1, <1>5
<1>8. MapsType'
  <2>1. rows' \subseteq [label : Nat, sid : Sessions, ver : Obs]
    BY <1>1, <1>5, <1>6
  <2>2. sidTo' \in [Sessions -> Nat \union {NoLabel}]
    BY <1>1, <1>5, <1>6
  <2>3. idTo' \in [DOMAIN idTo' -> Sessions] /\ DOMAIN idTo' \subseteq Nat /\ next' \in Nat
    BY <1>1, <1>3, <1>6
  <2>4. QED
    BY <2>1, <2>2, <2>3 DEF MapsType
<1>9. LabelsSound'
  <2>1. \A r \in rows' : r.label \in DOMAIN idTo' /\ idTo'[r.label] = r.sid
    BY <1>1, <1>5, <1>7
  <2>2. \A s \in Sessions : sidTo'[s] # NoLabel => (sidTo'[s] \in DOMAIN idTo' /\ idTo'[sidTo'[s]] = s)
    BY <1>1, <1>5, <1>7
  <2>3. \A l \in DOMAIN idTo' : l < next'
    BY <1>1, <1>6, <1>7
  <2>4. QED
    BY <2>1, <2>2, <2>3 DEF LabelsSound
<1>10. ASSUME NEW s \in S PROVE \E r \in rows' : r.sid = s /\ r.ver = b[s].ver
  <2> DEFINE r == [label |-> at(s) - 1, sid |-> s, ver |-> b[s].ver]
  <2>1. r \in rows' /\ r.sid = s /\ r.ver = b[s].ver
    BY <1>1
  <2> HIDE DEF r
  <2>2. QED
    BY <2>1
<1>11. QED
  BY <1>8, <1>9, <1>10

-----------------------------------------------------------------------------
(* The parts of the invariant that a step leaves alone, by what it leaves. *)
LEMMA MapsAlone ==
  ASSUME UNCHANGED Maps, MapsType, LabelsSound
  PROVE  MapsType' /\ LabelsSound'
  BY DEF Maps, MapsType, LabelsSound

LEMMA SameFinal ==
  ASSUME disk' = disk, pending' = pending
  PROVE  Final' = Final
  BY DEF Final, Upsert

(* A task that moves before it reaches ram_index moves alone.              *)
LEMMA TaskOnly ==
  ASSUME IndexInv, PipeType', made' \in 0..MaxObs, Started',
         UNCHANGED <<ram, Maps, pending, disk, evictor, loader, Bounds, History>>,
         \A w \in Obs : \/ pipe'[w] = pipe[w]
                        \/ /\ pipe[w].pc \in {"none", "new", "scored"}
                           /\ pipe'[w].pc \in {"new", "scored", "dropped", "raised"}
  PROVE  IndexInv'
<1>1. IndexTypeOK'
  <2>1. /\ PipeType /\ TablesType /\ MapsType /\ QueueType /\ LoaderType /\ CountType /\ HistoryType
    BY Types DEF IndexInv
  <2>2. TablesType' /\ QueueType' /\ LoaderType'
    BY <2>1 DEF TablesType, QueueType, LoaderType
  <2>3. CountType' /\ HistoryType'
    BY <2>1 DEF CountType, HistoryType, Bounds, History
  <2>4. MapsType'
    BY <2>1, MapsAlone DEF IndexInv
  <2>5. QED
    BY <2>2, <2>3, <2>4, TypesNext
<1>2. \A s, b : Sound(s, b) => (Sound(s, b))'
  <2>1. \A w \in Obs : pipe[w].pc \in Reached => pipe'[w] = pipe[w]
    BY DEF Reached
  <2>2. thinned \subseteq thinned'
    BY DEF History
  <2>3. \A w \in Obs : pipe[w].pc \in Reached =>
            /\ pipe'[w].pc \in Reached /\ pipe'[w].sid = pipe[w].sid /\ pipe'[w].deadline = pipe[w].deadline
    BY <2>1
  <2>4. QED
    BY <2>2, <2>3, StaySound
<1>3. RamSound' /\ DiskSound' /\ PendingSound' /\ LoadersSound'
  <2>1. RamSound' /\ DiskSound'
    BY <1>2 DEF IndexInv, RamSound, DiskSound
  <2>2. PendingSound' /\ LoadersSound'
    BY <1>2 DEF IndexInv, PendingSound, SoundQueue, LoadersSound
  <2>3. QED
    BY <2>1, <2>2
<1>4. LabelsSound'
  BY MapsAlone, Types DEF IndexInv
<1>5. SearchableUnlessRaced'
  BY DEF IndexInv, SearchableUnlessRaced, InRam, Maps, History
<1>6. IndexedRows'
  BY DEF IndexInv, IndexedRows, RowOf, Maps, History
<1>7. NewestInRam'
  BY DEF IndexInv, NewestInRam, InRam, History
<1>8. NewestQueued'
  BY SameFinal DEF IndexInv, NewestQueued, History
<1>9. QED
  BY <1>1, <1>3, <1>4, <1>5, <1>6, <1>7, <1>8 DEF IndexInv

LEMMA ObserveKeeps ==
  ASSUME IndexInv, NEW s \in Sessions, Observe(s)
  PROVE  IndexInv'
<1> DEFINE task == [Idle EXCEPT !.pc = "new", !.sid = s]
<1>1. PipeType /\ made \in 0..MaxObs /\ made < MaxObs /\ made' = made + 1 /\ pipe' = [pipe EXCEPT ![made + 1] = task]
  BY Types DEF IndexInv, Observe, CountType
<1>2. made + 1 \in Obs /\ MaxObs \in Nat
  BY <1>1, SessionIndexAssumption DEF Obs
<1>3. task \in Task /\ task.pc = "new"
  BY IdleFacts DEF Task, Pcs
<1> HIDE DEF task
<1>4. PipeType' /\ \A w \in Obs : pipe'[w] = IF w = made + 1 THEN task ELSE pipe[w]
  BY <1>1, <1>2, <1>3 DEF PipeType
<1>5. pipe[made + 1] = Idle
  BY <1>1, <1>2 DEF IndexInv, Started
<1>6. Started'
  <2>1. \A w \in Obs : w > made + 1 => w > made /\ w # made + 1
    BY <1>1 DEF Obs
  <2>2. QED
    BY <1>1, <1>4, <2>1 DEF IndexInv, Started
<1>7. made' \in 0..MaxObs
  BY <1>1, <1>2 DEF Obs
<1>8. \A w \in Obs : \/ pipe'[w] = pipe[w]
                     \/ /\ pipe[w].pc \in {"none", "new", "scored"}
                        /\ pipe'[w].pc \in {"new", "scored", "dropped", "raised"}
  BY <1>3, <1>4, <1>5, IdleFacts
<1>9. QED
  BY <1>4, <1>6, <1>7, <1>8, TaskOnly DEF Observe

(* The tasks that have moved were started.                                 *)
LEMMA StillStarted ==
  ASSUME IndexInv, NEW v \in Obs, pipe[v].pc # "none", made' = made,
         \A w \in Obs : w # v => pipe'[w] = pipe[w]
  PROVE  Started'
<1>1. ~(v > made)
  BY IdleFacts DEF IndexInv, Started
<1>2. QED
  BY <1>1 DEF IndexInv, Started

LEMMA PrepareKeeps ==
  ASSUME IndexInv, NEW v \in Obs, Prepare(v)
  PROVE  IndexInv'
<1>1. PipeType /\ made \in 0..MaxObs /\ made' = made
  BY Types DEF IndexInv, Prepare, CountType
<1>2. PipeType' /\ (\A w \in Obs : w # v => pipe'[w] = pipe[w]) /\ pipe'[v].pc \in {"scored", "dropped"}
  <2>1. CASE pipe' = [pipe EXCEPT ![v].pc = "dropped"]
    <3>1. "dropped" \in Pcs
      BY DEF Pcs
    <3>2. PipeType' /\ Moved(v, "dropped")
      BY <1>1, <2>1, <3>1, PcMoves
    <3>3. QED
      BY <3>2 DEF Moved
  <2>2. ASSUME NEW emb \in BOOLEAN, NEW deadline \in BOOLEAN,
               pipe' = [pipe EXCEPT ![v] = [@ EXCEPT !.pc = "scored", !.emb = emb, !.deadline = deadline]]
        PROVE  PipeType' /\ (\A w \in Obs : w # v => pipe'[w] = pipe[w]) /\ pipe'[v].pc \in {"scored", "dropped"}
    <3> DEFINE task == [pipe[v] EXCEPT !.pc = "scored", !.emb = emb, !.deadline = deadline]
    <3>1. task \in Task /\ task.pc = "scored"
      BY <1>1 DEF PipeType, Task, Pcs
    <3>2. pipe' = [pipe EXCEPT ![v] = task]
      BY <2>2
    <3> HIDE DEF task
    <3>3. QED
      BY <1>1, <3>1, <3>2 DEF PipeType
  <2>3. QED
    BY <2>1, <2>2 DEF Prepare
<1>3. pipe[v].pc = "new"
  BY DEF Prepare
<1>4. Started'
  BY <1>1, <1>2, <1>3, StillStarted
<1>5. \A w \in Obs : \/ pipe'[w] = pipe[w]
                     \/ /\ pipe[w].pc \in {"none", "new", "scored"}
                        /\ pipe'[w].pc \in {"new", "scored", "dropped", "raised"}
  BY <1>2, <1>3
<1>6. made' \in 0..MaxObs
  BY <1>1
<1>7. QED
  BY <1>2, <1>4, <1>5, <1>6, TaskOnly DEF Prepare

LEMMA IndexRaisesKeeps ==
  ASSUME IndexInv, NEW v \in Obs, IndexRaises(v)
  PROVE  IndexInv'
<1>1. /\ PipeType /\ made \in 0..MaxObs /\ made' = made
      /\ pipe[v].pc = "scored" /\ pipe' = [pipe EXCEPT ![v].pc = "raised"]
  BY Types DEF IndexInv, IndexRaises, CountType
<1>2. PipeType' /\ (\A w \in Obs : w # v => pipe'[w] = pipe[w]) /\ pipe'[v].pc = "raised"
  <2>1. "raised" \in Pcs
    BY DEF Pcs
  <2>2. PipeType' /\ Moved(v, "raised")
    BY <1>1, <2>1, PcMoves
  <2>3. QED
    BY <2>2 DEF Moved
<1>3. Started'
  BY <1>1, <1>2, StillStarted
<1>4. \A w \in Obs : \/ pipe'[w] = pipe[w]
                     \/ /\ pipe[w].pc \in {"none", "new", "scored"}
                        /\ pipe'[w].pc \in {"new", "scored", "dropped", "raised"}
  BY <1>1, <1>2
<1>5. made' \in 0..MaxObs
  BY <1>1
<1>6. QED
  BY <1>2, <1>3, <1>4, <1>5, TaskOnly DEF IndexRaises

(* What the other parts of the state keep of their types.                  *)
LEMMA SameTypes ==
  ASSUME IndexTypeOK, PipeType', TablesType', MapsType', QueueType', LoaderType', CountType', HistoryType'
  PROVE  IndexTypeOK'
  BY TypesNext

LEMMA IndexStepKeeps ==
  ASSUME IndexInv, NEW v \in Obs, IndexStep(v)
  PROVE  IndexInv'
<1> DEFINE s == pipe[v].sid
<1>1. /\ PipeType /\ TablesType /\ MapsType /\ QueueType /\ LoaderType /\ CountType /\ HistoryType
      /\ IndexTypeOK
  BY Types DEF IndexInv
<1>2. /\ pipe[v].pc = "scored" /\ pipe' = [pipe EXCEPT ![v].pc = "indexed"] /\ s \in Sessions
      /\ UNCHANGED <<made, ram, pending, disk, evictor, loader, Bounds, History>>
  BY <1>1 DEF IndexStep, PipeType, Task
<1>3. PipeType' /\ Moved(v, "indexed")
  <2>1. "indexed" \in Pcs
    BY DEF Pcs
  <2>2. QED
    BY <1>1, <1>2, <2>1, PcMoves
<1> HIDE DEF s
<1>4. MapsType' /\ LabelsSound' /\ rows \subseteq rows' /\ (pipe[v].emb => (RowOf(s, v))')
  <2>1. CASE pipe[v].emb
    <3>1. AddRow(s, v) /\ Label(s)
      BY <2>1 DEF IndexStep, s
    <3>2. rows' = rows \union {[label |-> LabelOf(s), sid |-> s, ver |-> v]}
      BY <3>1 DEF AddRow
    <3>3. MapsType' /\ LabelsSound'
      BY <1>1, <1>2, <3>1, <3>2, LabelFacts DEF IndexInv
    <3>4. (RowOf(s, v))'
      <4> DEFINE r == [label |-> LabelOf(s), sid |-> s, ver |-> v]
      <4>1. r \in rows' /\ r.sid = s /\ r.ver = v
        BY <3>2
      <4>2. s' = s
        BY <1>3 DEF Moved, s
      <4> HIDE DEF r
      <4>3. QED
        BY <4>1, <4>2 DEF RowOf
    <3>5. QED
      BY <3>2, <3>3, <3>4
  <2>2. CASE ~pipe[v].emb
    <3>1. UNCHANGED Maps
      BY <2>2 DEF IndexStep
    <3>2. QED
      BY <1>1, <2>2, <3>1, MapsAlone DEF IndexInv, Maps
  <2>3. QED
    BY <2>1, <2>2
<1>5. s' = s
  BY <1>3 DEF Moved, s
<1>6. IndexTypeOK'
  <2>1. TablesType' /\ QueueType' /\ LoaderType'
    BY <1>1, <1>2 DEF TablesType, QueueType, LoaderType
  <2>2. CountType' /\ HistoryType'
    BY <1>1, <1>2 DEF CountType, HistoryType, Bounds, History
  <2>3. QED
    BY <1>1, <1>3, <1>4, <2>1, <2>2, SameTypes
<1>7. Started'
  <2>1. \A w \in Obs : w # v => pipe'[w] = pipe[w]
    BY <1>3 DEF Moved
  <2>2. QED
    BY <1>2, <2>1, StillStarted
<1>8. \A t, b : Sound(t, b) => (Sound(t, b))'
  <2>1. thinned \subseteq thinned'
    BY <1>2 DEF History
  <2>2. \A w \in Obs : pipe[w].pc \in Reached =>
            /\ pipe'[w].pc \in Reached /\ pipe'[w].sid = pipe[w].sid /\ pipe'[w].deadline = pipe[w].deadline
    BY <1>2, <1>3 DEF Moved, Reached
  <2>3. QED
    BY <2>1, <2>2, StaySound
<1>9. RamSound' /\ DiskSound' /\ PendingSound' /\ LoadersSound'
  <2>1. RamSound' /\ DiskSound'
    BY <1>2, <1>8 DEF IndexInv, RamSound, DiskSound
  <2>2. PendingSound' /\ LoadersSound'
    BY <1>2, <1>8 DEF IndexInv, PendingSound, SoundQueue, LoadersSound
  <2>3. QED
    BY <2>1, <2>2
<1>10. SearchableUnlessRaced'
  BY <1>2, <1>4 DEF IndexInv, SearchableUnlessRaced, InRam, History
<1>11. IndexedRows'
  <2>1. ASSUME NEW w \in Obs, pipe'[w].pc = "indexed", pipe'[w].emb
        PROVE  (\E r \in rows' : r.sid = pipe'[w].sid /\ r.ver = w) \/ pipe'[w].sid \in raced'
    <3>1. CASE w = v
      BY <1>3, <1>4, <1>5, <2>1, <3>1 DEF Moved, RowOf, s
    <3>2. CASE w # v
      BY <1>2, <1>3, <1>4, <2>1, <3>2 DEF Moved, IndexInv, IndexedRows, RowOf, History
    <3>3. QED
      BY <3>1, <3>2
  <2>2. QED
    BY <2>1 DEF IndexedRows, RowOf
<1>12. \A w \in Obs : /\ pipe'[w].sid = pipe[w].sid
                      /\ pipe'[w].pc \in {"inram", "done"} => pipe'[w].pc = pipe[w].pc
  BY <1>3 DEF Moved
<1>13. NewestInRam'
  BY <1>2, <1>12 DEF IndexInv, NewestInRam, InRam, History
<1>14. NewestQueued'
  BY <1>2, <1>12, SameFinal DEF IndexInv, NewestQueued, History
<1>15. QED
  BY <1>4, <1>6, <1>7, <1>9, <1>10, <1>11, <1>13, <1>14 DEF IndexInv

LEMMA InsertRamKeeps ==
  ASSUME IndexInv, NEW v \in Obs, InsertRam(v)
  PROVE  IndexInv'
<1>1. /\ PipeType /\ TablesType /\ MapsType /\ QueueType /\ LoaderType /\ CountType /\ HistoryType
      /\ IndexTypeOK
  BY Types DEF IndexInv
<1>2. PICK s \in Sessions, b \in Briefs :
        /\ s = pipe[v].sid /\ b.ver = v /\ b.emb = pipe[v].emb /\ b.deadline = pipe[v].deadline
        /\ pipe[v].pc = "indexed" /\ pipe' = [pipe EXCEPT ![v].pc = "inram"]
        /\ ram' = [ram EXCEPT ![s] = b]
        /\ crossed \subseteq crossed' /\ crossed' \subseteq Sessions
        /\ \A w \in Obs : (w > v /\ pipe[w].sid = s /\ pipe[w].pc \in {"inram", "done"}) => s \in crossed'
        /\ UNCHANGED <<made, Maps, pending, disk, evictor, loader, Bounds, raced, thinned>>
  <2> DEFINE s == pipe[v].sid
  <2> DEFINE b == Brief(v, pipe[v].emb, pipe[v].deadline)
  <2>1. s \in Sessions
    BY <1>1 DEF PipeType, Task
  <2>2. pipe[v].emb \in BOOLEAN /\ pipe[v].deadline \in BOOLEAN
    BY <1>1 DEF PipeType, Task
  <2>3. v \in 0..MaxObs
    BY SessionIndexAssumption DEF Obs
  <2>4. b \in Briefs /\ b.ver = v /\ b.emb = pipe[v].emb /\ b.deadline = pipe[v].deadline
    BY <2>2, <2>3 DEF Briefs, Brief
  <2>5. /\ crossed \subseteq crossed' /\ crossed' \subseteq Sessions
        /\ \A w \in Obs : (w > v /\ pipe[w].sid = s /\ pipe[w].pc \in {"inram", "done"}) => s \in crossed'
    BY <1>1, <2>1 DEF InsertRam, HistoryType
  <2>6. /\ pipe[v].pc = "indexed" /\ pipe' = [pipe EXCEPT ![v].pc = "inram"] /\ ram' = [ram EXCEPT ![s] = b]
        /\ UNCHANGED <<made, Maps, pending, disk, evictor, loader, Bounds, raced, thinned>>
    BY DEF InsertRam
  <2> HIDE DEF s, b
  <2>7. s = pipe[v].sid
    BY DEF s
  <2>8. QED
    BY <2>1, <2>4, <2>5, <2>6, <2>7
<1>3. PipeType' /\ Moved(v, "inram")
  <2>1. "inram" \in Pcs
    BY DEF Pcs
  <2>2. QED
    BY <1>1, <1>2, <2>1, PcMoves
<1>4. ram'[s] = b /\ (\A t \in Sessions : t # s => ram'[t] = ram[t]) /\ ram' \in [Sessions -> Briefs]
  BY <1>1, <1>2 DEF TablesType
<1>5. IndexTypeOK'
  <2>1. TablesType' /\ QueueType' /\ LoaderType'
    BY <1>1, <1>2, <1>4 DEF TablesType, QueueType, LoaderType
  <2>2. CountType' /\ HistoryType'
    BY <1>1, <1>2 DEF CountType, HistoryType, Bounds
  <2>3. MapsType'
    BY <1>1, <1>2, MapsAlone DEF IndexInv
  <2>4. QED
    BY <1>1, <1>3, <2>1, <2>2, <2>3, SameTypes
<1>6. Started'
  <2>1. \A w \in Obs : w # v => pipe'[w] = pipe[w]
    BY <1>3 DEF Moved
  <2>2. QED
    BY <1>2, <2>1, StillStarted
<1>7. \A t, c : Sound(t, c) => (Sound(t, c))'
  <2>1. thinned \subseteq thinned'
    BY <1>2
  <2>2. \A w \in Obs : pipe[w].pc \in Reached =>
            /\ pipe'[w].pc \in Reached /\ pipe'[w].sid = pipe[w].sid /\ pipe'[w].deadline = pipe[w].deadline
    BY <1>2, <1>3 DEF Moved, Reached
  <2>3. QED
    BY <2>1, <2>2, StaySound
<1>8. DiskSound' /\ PendingSound' /\ LoadersSound'
  BY <1>2, <1>7 DEF IndexInv, DiskSound, PendingSound, SoundQueue, LoadersSound
<1>9. RamSound'
  <2>1. (Sound(s, b))'
    BY <1>2, <1>3 DEF Sound, Moved
  <2>2. QED
    BY <1>4, <1>7, <2>1 DEF IndexInv, RamSound
<1>10. LabelsSound'
  BY <1>1, <1>2, MapsAlone DEF IndexInv
<1>11. SearchableUnlessRaced'
  <2>1. b.emb => ((\E r \in rows : r.sid = s /\ r.ver = b.ver) \/ s \in raced)
    BY <1>2 DEF IndexInv, IndexedRows, RowOf
  <2>2. rows' = rows /\ raced' = raced
    BY <1>2 DEF Maps
  <2>3. QED
    BY <1>4, <2>1, <2>2 DEF IndexInv, SearchableUnlessRaced, InRam
<1>12. IndexedRows'
  <2>1. \A w \in Obs : pipe'[w].pc = "indexed" => pipe'[w] = pipe[w]
    BY <1>3 DEF Moved
  <2>2. rows' = rows /\ raced' = raced
    BY <1>2 DEF Maps
  <2>3. QED
    BY <2>1, <2>2 DEF IndexInv, IndexedRows, RowOf
<1>13. NewestInRam'
  <2>1. ASSUME NEW w \in Obs, pipe'[w].pc \in {"inram", "done"}, pipe'[w].sid \notin crossed', ram'[pipe'[w].sid] # NoBrief
        PROVE  ram'[pipe'[w].sid].ver >= w
    <3>1. CASE pipe'[w].sid = s
      <4>1. w = v \/ ~(w > v)
        BY <1>2, <1>3, <2>1, <3>1 DEF Moved
      <4>2. w <= v
        BY <4>1 DEF Obs
      <4>3. QED
        BY <1>2, <1>4, <3>1, <4>2 DEF Obs
    <3>2. CASE pipe'[w].sid # s
      <4>1. w # v /\ pipe'[w] = pipe[w] /\ pipe[w].sid \in Sessions
        BY <1>1, <1>2, <1>3, <3>2 DEF Moved, PipeType, Task
      <4>2. QED
        BY <1>2, <1>4, <2>1, <3>2, <4>1 DEF IndexInv, NewestInRam, InRam
    <3>3. QED
      BY <3>1, <3>2
  <2>2. QED
    BY <2>1 DEF NewestInRam, InRam
<1>14. NewestQueued'
  <2>1. \A w \in Obs : pipe'[w].pc = "done" => pipe'[w] = pipe[w]
    BY <1>3 DEF Moved
  <2>2. QED
    BY <1>2, <2>1, SameFinal DEF IndexInv, NewestQueued
<1>15. QED
  BY <1>5, <1>6, <1>8, <1>9, <1>10, <1>11, <1>12, <1>13, <1>14 DEF IndexInv

(* A brief at the end of the queue decides what is left of its session.    *)
LEMMA FinalAppended ==
  ASSUME QueueType, NEW x \in Queued, disk' = disk, pending' = Append(pending, x)
  PROVE  /\ QueueType'
         /\ Final'[x.sid] = x.brief
         /\ \A t \in Sessions : t # x.sid => Final'[t] = Final[t]
<1>1. x.sid \in Sessions
  BY DEF Queued
<1>2. Upsert(disk, Append(pending, x))[x.sid] = x.brief
  BY <1>1, UpsertAppended DEF QueueType
<1>3. \A t \in Sessions : t # x.sid => Upsert(disk, Append(pending, x))[t] = Upsert(disk, pending)[t]
  BY UpsertAppended DEF QueueType
<1>4. Final' = Upsert(disk, Append(pending, x))
  BY DEF Final, Upsert
<1>5. QueueType'
  BY DEF QueueType
<1>6. QED
  BY <1>2, <1>3, <1>4, <1>5 DEF Final

LEMMA EnqueueKeeps ==
  ASSUME IndexInv, NEW v \in Obs, Enqueue(v)
  PROVE  IndexInv'
<1>1. /\ PipeType /\ TablesType /\ MapsType /\ QueueType /\ LoaderType /\ CountType /\ HistoryType
      /\ IndexTypeOK
  BY Types DEF IndexInv
<1>2. PICK s \in Sessions, b \in Briefs :
        /\ s = pipe[v].sid /\ b.ver = v /\ b.emb = pipe[v].emb /\ b.deadline = pipe[v].deadline
        /\ pipe[v].pc = "inram" /\ pipe' = [pipe EXCEPT ![v].pc = "done"]
        /\ pending' = Append(pending, [sid |-> s, brief |-> b])
        /\ crossed \subseteq crossed' /\ crossed' \subseteq Sessions
        /\ \A w \in Obs : (w > v /\ pipe[w].sid = s /\ pipe[w].pc = "done") => s \in crossed'
        /\ UNCHANGED <<made, ram, Maps, disk, evictor, loader, Bounds, raced, thinned>>
  <2> DEFINE s == pipe[v].sid
  <2> DEFINE b == Brief(v, pipe[v].emb, pipe[v].deadline)
  <2>1. s \in Sessions
    BY <1>1 DEF PipeType, Task
  <2>2. pipe[v].emb \in BOOLEAN /\ pipe[v].deadline \in BOOLEAN
    BY <1>1 DEF PipeType, Task
  <2>3. v \in 0..MaxObs
    BY SessionIndexAssumption DEF Obs
  <2>4. b \in Briefs /\ b.ver = v /\ b.emb = pipe[v].emb /\ b.deadline = pipe[v].deadline
    BY <2>2, <2>3 DEF Briefs, Brief
  <2>5. /\ crossed \subseteq crossed' /\ crossed' \subseteq Sessions
        /\ \A w \in Obs : (w > v /\ pipe[w].sid = s /\ pipe[w].pc = "done") => s \in crossed'
    BY <1>1, <2>1 DEF Enqueue, HistoryType
  <2>6. /\ pipe[v].pc = "inram" /\ pipe' = [pipe EXCEPT ![v].pc = "done"]
        /\ pending' = Append(pending, [sid |-> s, brief |-> b])
        /\ UNCHANGED <<made, ram, Maps, disk, evictor, loader, Bounds, raced, thinned>>
    BY DEF Enqueue
  <2> HIDE DEF s, b
  <2>7. s = pipe[v].sid
    BY DEF s
  <2>8. QED
    BY <2>1, <2>4, <2>5, <2>6, <2>7
<1>3. PipeType' /\ Moved(v, "done")
  <2>1. "done" \in Pcs
    BY DEF Pcs
  <2>2. QED
    BY <1>1, <1>2, <2>1, PcMoves
<1> DEFINE x == [sid |-> s, brief |-> b]
<1>4. x \in Queued /\ x.sid = s /\ x.brief = b /\ pending' = Append(pending, x)
  BY <1>2 DEF Queued
<1> HIDE DEF x
<1>5. QueueType' /\ Final'[s] = b /\ \A t \in Sessions : t # s => Final'[t] = Final[t]
  BY <1>1, <1>2, <1>4, FinalAppended
<1>6. IndexTypeOK'
  <2>1. TablesType' /\ LoaderType'
    BY <1>1, <1>2 DEF TablesType, LoaderType
  <2>2. CountType' /\ HistoryType'
    BY <1>1, <1>2 DEF CountType, HistoryType, Bounds
  <2>3. MapsType'
    BY <1>1, <1>2, MapsAlone DEF IndexInv
  <2>4. QED
    BY <1>1, <1>3, <1>5, <2>1, <2>2, <2>3, SameTypes
<1>7. Started'
  <2>1. \A w \in Obs : w # v => pipe'[w] = pipe[w]
    BY <1>3 DEF Moved
  <2>2. QED
    BY <1>2, <2>1, StillStarted
<1>8. \A t, c : Sound(t, c) => (Sound(t, c))'
  <2>1. thinned \subseteq thinned'
    BY <1>2
  <2>2. \A w \in Obs : pipe[w].pc \in Reached =>
            /\ pipe'[w].pc \in Reached /\ pipe'[w].sid = pipe[w].sid /\ pipe'[w].deadline = pipe[w].deadline
    BY <1>2, <1>3 DEF Moved, Reached
  <2>3. QED
    BY <2>1, <2>2, StaySound
<1>9. RamSound' /\ DiskSound' /\ LoadersSound'
  BY <1>2, <1>8 DEF IndexInv, RamSound, DiskSound, LoadersSound
<1>10. PendingSound'
  <2>1. (Sound(s, b))'
    BY <1>2, <1>3 DEF Sound, Moved
  <2>2. /\ Len(pending) \in Nat /\ DOMAIN pending = 1..Len(pending) /\ DOMAIN pending' = 1..(Len(pending) + 1)
        /\ \A i \in 1..Len(pending) : pending'[i] = pending[i]
        /\ pending'[Len(pending) + 1] = x
    BY <1>1, <1>4, AppendProperties, LenProperties DEF QueueType
  <2>3. ASSUME NEW i \in DOMAIN pending', NEW t, NEW c, t = pending'[i].sid, c = pending'[i].brief
        PROVE  (Sound(t, c))'
    <3>1. CASE i = Len(pending) + 1
      BY <1>4, <2>1, <2>2, <2>3, <3>1
    <3>2. CASE i \in 1..Len(pending)
      <4>1. i \in DOMAIN pending /\ pending[i].sid = t /\ pending[i].brief = c
        BY <2>2, <2>3, <3>2
      <4>2. Sound(t, c)
        BY <4>1 DEF IndexInv, PendingSound, SoundQueue
      <4>3. QED
        BY <1>8, <4>2
    <3>3. QED
      BY <2>2, <3>1, <3>2
  <2>4. QED
    BY <2>3 DEF PendingSound, SoundQueue, Sound
<1>11. LabelsSound'
  BY <1>1, <1>2, MapsAlone DEF IndexInv
<1>12. SearchableUnlessRaced'
  BY <1>2 DEF IndexInv, SearchableUnlessRaced, InRam, Maps
<1>13. IndexedRows'
  <2>1. \A w \in Obs : pipe'[w].pc = "indexed" => pipe'[w] = pipe[w]
    BY <1>3 DEF Moved
  <2>2. rows' = rows /\ raced' = raced
    BY <1>2 DEF Maps
  <2>3. QED
    BY <2>1, <2>2 DEF IndexInv, IndexedRows, RowOf
<1>14. NewestInRam'
  <2>1. \A w \in Obs : pipe'[w].sid = pipe[w].sid /\ (pipe'[w].pc \in {"inram", "done"} => pipe[w].pc \in {"inram", "done"})
    BY <1>2, <1>3 DEF Moved
  <2>2. QED
    BY <1>2, <2>1 DEF IndexInv, NewestInRam, InRam
<1>15. NewestQueued'
  <2>1. ASSUME NEW w \in Obs, pipe'[w].pc = "done", pipe'[w].sid \notin crossed'
        PROVE  Final'[pipe'[w].sid].ver >= w
    <3>1. CASE pipe'[w].sid = s
      <4>1. w = v \/ ~(w > v)
        BY <1>2, <1>3, <2>1, <3>1 DEF Moved
      <4>2. w <= v
        BY <4>1 DEF Obs
      <4>3. QED
        BY <1>2, <1>5, <3>1, <4>2 DEF Obs
    <3>2. CASE pipe'[w].sid # s
      <4>1. w # v /\ pipe'[w] = pipe[w] /\ pipe[w].sid \in Sessions
        BY <1>1, <1>2, <1>3, <3>2 DEF Moved, PipeType, Task
      <4>2. QED
        BY <1>2, <1>5, <2>1, <3>2, <4>1 DEF IndexInv, NewestQueued
    <3>3. QED
      BY <3>1, <3>2
  <2>2. QED
    BY <2>1 DEF NewestQueued
<1>16. QED
  BY <1>6, <1>7, <1>9, <1>10, <1>11, <1>12, <1>13, <1>14, <1>15 DEF IndexInv

-----------------------------------------------------------------------------
(* The steps of the write queue: the tasks, RAM and the matrix stand still.*)
LEMMA UpsertConcat ==
  ASSUME NEW q \in Seq(Queued), NEW c \in Seq(Queued), NEW s \in Sessions, NEW t
  PROVE  Upsert(t, q \o c)[s] = Upsert(Upsert(t, q), c)[s]
<1> DEFINE p == q \o c
<1> DEFINE u == Upsert(t, q)
<1>1. Len(q) \in Nat /\ DOMAIN q = 1..Len(q) /\ Len(c) \in Nat /\ DOMAIN c = 1..Len(c)
  BY LenProperties
<1>2. /\ p \in Seq(Queued) /\ DOMAIN p = 1..(Len(q) + Len(c))
      /\ \A i \in 1..Len(q) : p[i] = q[i]
      /\ \A i \in 1..Len(c) : p[Len(q) + i] = c[i]
  <2>1. p \in Seq(Queued) /\ Len(p) = Len(q) + Len(c)
    BY ConcatProperties
  <2>2. \A i \in 1..(Len(q) + Len(c)) : p[i] = IF i <= Len(q) THEN q[i] ELSE c[i - Len(q)]
    BY ConcatProperties
  <2> HIDE DEF p
  <2>3. \A i \in 1..Len(q) : i \in 1..(Len(q) + Len(c)) /\ i <= Len(q)
    BY <1>1
  <2>4. \A i \in 1..Len(c) : /\ Len(q) + i \in 1..(Len(q) + Len(c)) /\ ~(Len(q) + i <= Len(q))
                             /\ (Len(q) + i) - Len(q) = i
    BY <1>1
  <2>5. QED
    BY <2>1, <2>2, <2>3, <2>4, LenProperties
<1>3. p \in Seq(Queued)
  BY <1>2
<1> HIDE DEF p
<1>4. ASSUME \A i \in DOMAIN c : c[i].sid # s PROVE Upsert(t, p)[s] = Upsert(t, q)[s]
  <2>1. ASSUME NEW j \in 1..(Len(q) + Len(c)), ~(j <= Len(q)) PROVE p[j].sid # s
    <3>1. j - Len(q) \in 1..Len(c) /\ Len(q) + (j - Len(q)) = j
      BY <1>1, <2>1
    <3>2. QED
      BY <1>1, <1>2, <1>4, <3>1
  <2>2. CASE \A i \in DOMAIN q : q[i].sid # s
    <3>1. \A i \in DOMAIN p : p[i].sid # s
      BY <1>1, <1>2, <2>1, <2>2
    <3>2. Upsert(t, p)[s] = t[s]
      BY <1>3, <3>1, UpsertNone
    <3>3. Upsert(t, q)[s] = t[s]
      BY <2>2, UpsertNone
    <3>4. QED
      BY <3>2, <3>3
  <2>3. ASSUME NEW i, LastOf(q, s, i) PROVE Upsert(t, p)[s] = Upsert(t, q)[s]
    <3>1. i \in 1..Len(q) /\ p[i] = q[i] /\ q[i].sid = s /\ \A j \in 1..Len(q) : j > i => q[j].sid # s
      BY <1>1, <1>2, <2>3 DEF LastOf
    <3>2. \A j \in DOMAIN p : j > i => p[j].sid # s
      BY <1>1, <1>2, <2>1, <3>1
    <3>3. LastOf(p, s, i)
      BY <1>1, <1>2, <3>1, <3>2 DEF LastOf
    <3>4. Upsert(t, p)[s] = p[i].brief
      BY <1>3, <3>3, UpsertSome
    <3>5. Upsert(t, q)[s] = q[i].brief
      BY <2>3, UpsertSome
    <3>6. QED
      BY <3>1, <3>4, <3>5
  <2>4. QED
    BY <2>2, <2>3, NoneOrSome
<1>5. ASSUME \A i \in DOMAIN c : c[i].sid # s PROVE Upsert(u, c)[s] = u[s]
  BY <1>5, UpsertNone
<1>6. ASSUME NEW i, LastOf(c, s, i) PROVE Upsert(t, p)[s] = Upsert(u, c)[s]
  <2>1. i \in 1..Len(c) /\ c[i].sid = s /\ \A j \in 1..Len(c) : j > i => c[j].sid # s
    BY <1>1, <1>6 DEF LastOf
  <2>2. ASSUME NEW j \in 1..(Len(q) + Len(c)), j > Len(q) + i PROVE p[j].sid # s
    <3>1. j - Len(q) \in 1..Len(c) /\ j - Len(q) > i /\ Len(q) + (j - Len(q)) = j
      BY <1>1, <2>1, <2>2
    <3>2. QED
      BY <1>2, <2>1, <3>1
  <2>3. LastOf(p, s, Len(q) + i) /\ p[Len(q) + i] = c[i]
    <3>1. Len(q) + i \in 1..(Len(q) + Len(c)) /\ p[Len(q) + i] = c[i]
      BY <1>1, <1>2, <2>1
    <3>2. QED
      BY <1>2, <2>1, <2>2, <3>1 DEF LastOf
  <2>4. Upsert(t, p)[s] = p[Len(q) + i].brief
    <3>1. PICK k : k = Len(q) + i /\ LastOf(p, s, k)
      BY <2>3
    <3>2. LastOf(p, s, k)
      BY <3>1
    <3>3. Upsert(t, p)[s] = p[k].brief
      BY <1>3, <3>2, UpsertSome
    <3>4. QED
      BY <3>1, <3>3
  <2>5. Upsert(u, c)[s] = c[i].brief
    BY <1>6, UpsertSome
  <2>6. QED
    BY <2>3, <2>4, <2>5
<1>7. Upsert(t, p)[s] = Upsert(u, c)[s]
  <2>1. CASE \A i \in DOMAIN c : c[i].sid # s
    BY <1>4, <1>5, <2>1
  <2>2. QED
    BY <1>6, <2>1, NoneOrSome
<1>8. QED
  BY <1>7 DEF p

LEMMA QueueOnly ==
  ASSUME IndexInv, UNCHANGED <<pipe, made, ram, Maps, loader, raced, thinned>>,
         TablesType', QueueType', CountType', crossed \subseteq crossed', crossed' \subseteq Sessions,
         \A s \in Sessions : Sound(s, disk'[s]), SoundQueue(pending'),
         \A s \in Sessions, v \in Obs :
            (s \notin crossed' /\ pipe[v].sid = s /\ pipe[v].pc = "done" /\ Final[s].ver >= v) => Final'[s].ver >= v
  PROVE  IndexInv'
<1>1. IndexTypeOK'
  <2>1. PipeType /\ MapsType /\ LoaderType /\ HistoryType /\ IndexTypeOK
    BY Types DEF IndexInv
  <2>2. PipeType' /\ LoaderType' /\ HistoryType'
    BY <2>1 DEF PipeType, LoaderType, HistoryType
  <2>3. MapsType'
    BY <2>1, MapsAlone DEF IndexInv
  <2>4. QED
    BY <2>1, <2>2, <2>3, SameTypes
<1>2. Started'
  BY DEF IndexInv, Started
<1>3. \A s, b : Sound(s, b) => (Sound(s, b))'
  BY DEF Sound
<1>4. RamSound' /\ LoadersSound'
  BY <1>3 DEF IndexInv, RamSound, LoadersSound
<1>5. DiskSound' /\ PendingSound'
  <2>1. DiskSound'
    BY DEF DiskSound, Sound
  <2>2. PendingSound'
    BY DEF PendingSound, SoundQueue, Sound
  <2>3. QED
    BY <2>1, <2>2
<1>6. LabelsSound'
  BY MapsAlone, Types DEF IndexInv
<1>7. SearchableUnlessRaced' /\ IndexedRows'
  <2>1. SearchableUnlessRaced'
    BY DEF IndexInv, SearchableUnlessRaced, InRam, Maps
  <2>2. IndexedRows'
    BY DEF IndexInv, IndexedRows, RowOf, Maps
  <2>3. QED
    BY <2>1, <2>2
<1>8. NewestInRam'
  BY DEF IndexInv, NewestInRam, InRam
<1>9. NewestQueued'
  <2>1. ASSUME NEW v \in Obs, pipe[v].pc = "done", pipe[v].sid \notin crossed' PROVE Final'[pipe[v].sid].ver >= v
    <3>1. pipe[v].sid \in Sessions
      BY Types DEF IndexInv, PipeType, Task
    <3>2. Final[pipe[v].sid].ver >= v
      BY <2>1 DEF IndexInv, NewestQueued
    <3>3. QED
      BY <2>1, <3>1, <3>2
  <2>2. QED
    BY <2>1 DEF NewestQueued
<1>10. QED
  BY <1>1, <1>2, <1>4, <1>5, <1>6, <1>7, <1>8, <1>9 DEF IndexInv

(* What a sound table is after the upserts of a sound queue.               *)
LEMMA UpsertSound ==
  ASSUME NEW q \in Seq(Queued), SoundQueue(q), DiskSound, NEW s \in Sessions
  PROVE  Sound(s, Upsert(disk, q)[s])
<1>1. CASE Upsert(disk, q)[s] = disk[s]
  BY <1>1 DEF DiskSound
<1>2. CASE \E i \in DOMAIN q : q[i].sid = s /\ Upsert(disk, q)[s] = q[i].brief
  BY <1>2 DEF SoundQueue
<1>3. QED
  BY <1>1, <1>2, UpsertIs

LEMMA WriteOneKeeps ==
  ASSUME IndexInv, WriteOne
  PROVE  IndexInv'
<1> DEFINE h == <<Head(pending)>>
<1>1. /\ pending # <<>> /\ disk' = Upsert(disk, h) /\ pending' = Tail(pending)
      /\ UNCHANGED <<pipe, made, ram, Maps, evictor, loader, Bounds, History>>
  BY DEF WriteOne
<1>2. TablesType /\ QueueType /\ CountType /\ HistoryType /\ PendingSound /\ DiskSound
  BY Types DEF IndexInv
<1>3. /\ Len(pending) \in Nat \ {0} /\ DOMAIN pending = 1..Len(pending) /\ pending' \in Seq(Queued)
      /\ DOMAIN pending' = 1..(Len(pending) - 1) /\ \A i \in 1..(Len(pending) - 1) : pending'[i] = pending[i + 1]
      /\ Head(pending) = pending[1] /\ pending[1] \in Queued
  BY <1>1, <1>2, HeadTailProperties, LenProperties, EmptySeq DEF QueueType
<1>4. h \in Seq(Queued) /\ DOMAIN h = {1} /\ h[1] = pending[1]
  BY <1>3
<1> HIDE DEF h
<1>5. SoundQueue(h)
  <2>1. 1 \in DOMAIN pending
    BY <1>3
  <2>2. Sound(h[1].sid, h[1].brief)
    BY <1>2, <1>4, <2>1 DEF PendingSound, SoundQueue
  <2>3. QED
    BY <1>4, <2>2 DEF SoundQueue
<1>6. TablesType' /\ QueueType' /\ CountType'
  <2>1. TablesType'
    BY <1>1, <1>2, <1>4, UpsertType DEF TablesType
  <2>2. QED
    BY <1>1, <1>2, <1>3, <2>1 DEF QueueType, CountType, Bounds
<1>7. \A s \in Sessions : Sound(s, disk'[s])
  BY <1>1, <1>2, <1>4, <1>5, UpsertSound
<1>8. SoundQueue(pending')
  <2>1. ASSUME NEW i \in DOMAIN pending' PROVE Sound(pending'[i].sid, pending'[i].brief)
    <3>1. pending'[i] = pending[i + 1] /\ i + 1 \in DOMAIN pending
      BY <1>3
    <3>2. QED
      BY <1>2, <3>1 DEF PendingSound, SoundQueue
  <2>2. QED
    BY <2>1 DEF SoundQueue
<1>9. \A s \in Sessions : Final'[s] = Final[s]
  <2>1. Final' = Upsert(disk', pending')
    BY DEF Final, Upsert
  <2>2. \A s \in Sessions : Upsert(disk', pending')[s] = Upsert(disk, pending)[s]
    BY <1>1, <1>2, UpsertHead DEF QueueType, h
  <2>3. QED
    BY <2>1, <2>2 DEF Final
<1>10. crossed \subseteq crossed' /\ crossed' \subseteq Sessions
  BY <1>1, <1>2 DEF History, HistoryType
<1>11. UNCHANGED <<pipe, made, ram, Maps, loader, raced, thinned>>
  BY <1>1 DEF History
<1>12. QED
  BY <1>6, <1>7, <1>8, <1>9, <1>10, <1>11, QueueOnly

LEMMA EvictFlushKeeps ==
  ASSUME IndexInv, EvictFlush
  PROVE  IndexInv'
<1>1. TablesType /\ QueueType /\ CountType /\ HistoryType /\ PendingSound /\ DiskSound
  BY Types DEF IndexInv
<1>2. PICK held \in 0..Len(pending) :
        /\ disk' = Upsert(disk, SubSeq(pending, held + 1, Len(pending)))
        /\ pending' = SubSeq(pending, 1, held)
        /\ crossed' = crossed \union
             {s \in Sessions : \E i \in 1..held, j \in (held + 1)..Len(pending) :
                                 pending[i].sid = s /\ pending[j].sid = s}
  BY DEF EvictFlush
<1>3. evictor' = "flushed" /\ UNCHANGED <<pipe, made, ram, Maps, loader, Bounds, raced, thinned>>
  BY DEF EvictFlush
<1>4. /\ Len(pending) \in Nat /\ DOMAIN pending = 1..Len(pending) /\ \A i \in 1..Len(pending) : pending[i] \in Queued
      /\ held \in Nat /\ held <= Len(pending)
  BY <1>1, <1>2, LenProperties DEF QueueType
<1>5. PICK b \in Seq(Queued) : /\ b = SubSeq(pending, held + 1, Len(pending))
                               /\ \A i \in DOMAIN b : i \in Nat /\ held + i \in DOMAIN pending /\ b[i] = pending[held + i]
  <2> DEFINE b == SubSeq(pending, held + 1, Len(pending))
  <2>1. held + 1 \in Int /\ Len(pending) \in Int /\ \A i \in (held + 1)..Len(pending) : pending[i] \in Queued
    BY <1>4
  <2>2. /\ b \in Seq(Queued)
        /\ Len(b) = IF held + 1 <= Len(pending) THEN Len(pending) - (held + 1) + 1 ELSE 0
        /\ \A i \in 1..(Len(pending) - (held + 1) + 1) : b[i] = pending[(held + 1) + i - 1]
    BY <2>1, SubSeqProperties
  <2> HIDE DEF b
  <2>3. Len(b) = Len(pending) - held
    <3>1. Len(b) = IF held + 1 <= Len(pending) THEN Len(pending) - (held + 1) + 1 ELSE 0
      BY <2>2
    <3>2. held \in Nat /\ held <= Len(pending) /\ Len(pending) \in Nat
      BY <1>4
    <3>3. QED
      BY <3>1, <3>2
  <2>4. DOMAIN b = 1..(Len(pending) - held)
    BY <2>2, <2>3, LenProperties
  <2>5. \A i \in 1..(Len(pending) - held) : /\ (held + 1) + i - 1 = held + i /\ i \in 1..(Len(pending) - (held + 1) + 1)
                                            /\ i \in Nat /\ held + i \in 1..Len(pending)
    BY <1>4
  <2>6. b = SubSeq(pending, held + 1, Len(pending))
    BY DEF b
  <2>7. QED
    BY <1>4, <2>2, <2>4, <2>5, <2>6
<1>6. pending' \in Seq(Queued) /\ DOMAIN pending' = 1..held /\ \A i \in 1..held : pending'[i] = pending[i]
  BY <1>2, <1>4, SubSeqProperties
<1>7. SoundQueue(b) /\ SoundQueue(pending')
  <2>1. SoundQueue(b)
    BY <1>1, <1>5 DEF PendingSound, SoundQueue
  <2>2. 1..held \subseteq DOMAIN pending
    BY <1>4
  <2>3. SoundQueue(pending')
    BY <1>1, <1>6, <2>2 DEF PendingSound, SoundQueue
  <2>4. QED
    BY <2>1, <2>3
<1>8. disk' = Upsert(disk, b)
  BY <1>2, <1>5
<1>9. TablesType' /\ QueueType' /\ CountType'
  <2>1. TablesType'
    BY <1>1, <1>3, <1>8, UpsertType DEF TablesType
  <2>2. QED
    BY <1>1, <1>3, <1>6, <2>1 DEF QueueType, CountType, Bounds
<1>10. \A s \in Sessions : Sound(s, disk'[s])
  BY <1>1, <1>7, <1>8, UpsertSound
<1>11. ASSUME NEW s \in Sessions, s \notin crossed' PROVE Final'[s] = Final[s]
  <2>1. ~\E i \in 1..held, j \in (held + 1)..Len(pending) : pending[i].sid = s /\ pending[j].sid = s
    BY <1>2, <1>11
  <2>2. Upsert(disk', pending')[s] = Upsert(disk, pending)[s]
    BY <1>1, <1>2, <2>1, UpsertSplit DEF QueueType
  <2>3. Final' = Upsert(disk', pending')
    BY DEF Final, Upsert
  <2>4. QED
    BY <2>2, <2>3 DEF Final
<1>12. crossed \subseteq crossed' /\ crossed' \subseteq Sessions
  BY <1>1, <1>2 DEF HistoryType
<1>13. QED
  BY <1>3, <1>7, <1>9, <1>10, <1>11, <1>12, QueueOnly

(* Consolidation queues every brief in RAM once more.                      *)
LEMMA ConsolidateKeeps ==
  ASSUME IndexInv, Consolidate
  PROVE  IndexInv'
<1>1. TablesType /\ QueueType /\ CountType /\ HistoryType /\ PendingSound /\ DiskSound /\ RamSound
  BY Types DEF IndexInv
<1> DEFINE S == {s \in Sessions : InRam(s)}
<1> DEFINE o == SetToSeq(S)
<1>2. IsFiniteSet(S)
  BY SessionIndexAssumption, FS_Subset
<1>3. /\ o \in Seq(S) /\ Len(o) \in Nat /\ DOMAIN o = 1..Len(o)
      /\ \A i \in 1..Len(o) : o[i] \in S
      /\ \A i, j \in 1..Len(o) : o[i] = o[j] => i = j
      /\ \A s \in S : \E i \in 1..Len(o) : o[i] = s
  BY <1>2, OrderOf
<1>4. /\ pending' = pending \o [i \in DOMAIN o |-> [sid |-> o[i], brief |-> ram[o[i]]]]
      /\ requeues < MaxRequeues /\ requeues' = requeues + 1
      /\ crossed' = crossed \union
           {s \in Sessions : InRam(s) /\ \E v \in Obs : v > ram[s].ver /\ pipe[v].sid = s /\ pipe[v].pc = "done"}
      /\ UNCHANGED <<pipe, made, ram, Maps, disk, evictor, loader, loads, crashes, raced, thinned>>
  BY DEF Consolidate
<1> HIDE DEF o
<1>5. PICK more : /\ more = [i \in DOMAIN o |-> [sid |-> o[i], brief |-> ram[o[i]]]]
                  /\ more \in Seq(Queued) /\ DOMAIN more = 1..Len(o)
                  /\ \A i \in 1..Len(o) : more[i].sid = o[i] /\ more[i].brief = ram[o[i]]
  <2> DEFINE more == [i \in DOMAIN o |-> [sid |-> o[i], brief |-> ram[o[i]]]]
  <2>1. \A i \in 1..Len(o) : [sid |-> o[i], brief |-> ram[o[i]]] \in Queued
    BY <1>1, <1>3 DEF TablesType, Queued
  <2>2. more \in [1..Len(o) -> Queued]
    BY <1>3, <2>1
  <2>3. more \in Seq(Queued)
    BY <1>3, <2>2
  <2>4. \A i \in 1..Len(o) : more[i].sid = o[i] /\ more[i].brief = ram[o[i]]
    BY <1>3
  <2>5. QED
    BY <2>2, <2>3, <2>4
<1>15. more \in Seq(Queued)
  BY <1>5
<1>6. pending' = pending \o more
  BY <1>4, <1>5
<1>7. QueueType' /\ SoundQueue(more)
  <2>1. QueueType'
    BY <1>1, <1>5, <1>6, ConcatProperties DEF QueueType
  <2>2. SoundQueue(more)
    BY <1>1, <1>3, <1>5 DEF RamSound, SoundQueue
  <2>3. QED
    BY <2>1, <2>2
<1>8. SoundQueue(pending')
  <2>1. /\ Len(pending) \in Nat /\ DOMAIN pending = 1..Len(pending) /\ Len(more) \in Nat /\ DOMAIN more = 1..Len(more)
        /\ DOMAIN pending' = 1..(Len(pending) + Len(more))
        /\ \A i \in 1..(Len(pending) + Len(more)) :
             pending'[i] = IF i <= Len(pending) THEN pending[i] ELSE more[i - Len(pending)]
    BY <1>1, <1>5, <1>6, ConcatProperties, LenProperties DEF QueueType
  <2>2. ASSUME NEW i \in 1..(Len(pending) + Len(more)) PROVE Sound(pending'[i].sid, pending'[i].brief)
    <3>1. CASE i <= Len(pending)
      <4>1. i \in DOMAIN pending /\ pending'[i] = pending[i]
        BY <2>1, <3>1
      <4>2. QED
        BY <1>1, <4>1 DEF PendingSound, SoundQueue
    <3>2. CASE ~(i <= Len(pending))
      <4>1. i - Len(pending) \in DOMAIN more /\ pending'[i] = more[i - Len(pending)]
        BY <2>1, <3>2
      <4>2. QED
        BY <1>7, <4>1 DEF SoundQueue
    <3>3. QED
      BY <3>1, <3>2
  <2>3. QED
    BY <2>1, <2>2 DEF SoundQueue
<1>9. \A s \in Sessions : Final'[s] = Upsert(Final, more)[s]
  <2>1. \A s \in Sessions : Upsert(disk, pending \o more)[s] = Upsert(Upsert(disk, pending), more)[s]
    <3>1. pending \in Seq(Queued)
      BY <1>1 DEF QueueType
    <3>2. QED
      BY <1>15, <3>1, UpsertConcat
  <2>2. Final' = Upsert(disk, pending \o more)
    BY <1>4, <1>6 DEF Final, Upsert
  <2>3. QED
    BY <2>1, <2>2 DEF Final
<1>10. ASSUME NEW s \in Sessions, NEW v \in Obs, s \notin crossed', pipe[v].sid = s, pipe[v].pc = "done", Final[s].ver >= v
       PROVE  Final'[s].ver >= v
  <2>1. CASE s \in S
    <3>1. PICK i \in 1..Len(o) : o[i] = s
      BY <1>3, <2>1
    <3>2. more[i].sid = s /\ more[i].brief = ram[s] /\ \A j \in DOMAIN more : j > i => more[j].sid # s
      BY <1>3, <1>5, <3>1
    <3>3. LastOf(more, s, i)
      BY <1>5, <3>1, <3>2 DEF LastOf
    <3>4. Final'[s] = ram[s]
      <4>1. Upsert(Final, more)[s] = more[i].brief
        BY <1>15, <3>3, UpsertSome
      <4>2. QED
        BY <1>9, <3>2, <4>1
    <3>5. ~(v > ram[s].ver)
      BY <1>4, <1>10, <2>1
    <3>6. ram[s].ver \in Int /\ v \in Int
      BY <1>1, SessionIndexAssumption DEF TablesType, Briefs, Obs
    <3>7. QED
      BY <3>4, <3>5, <3>6
  <2>2. CASE s \notin S
    <3>1. \A i \in DOMAIN more : more[i].sid # s
      BY <1>3, <1>5, <2>2
    <3>2. Final'[s] = Final[s]
      <4>1. Upsert(Final, more)[s] = Final[s]
        BY <1>15, <3>1, UpsertNone
      <4>2. QED
        BY <1>9, <4>1
    <3>3. QED
      BY <1>10, <3>2
  <2>3. QED
    BY <2>1, <2>2
<1>11. TablesType' /\ CountType'
  <2>1. requeues' \in 0..MaxRequeues
    BY <1>1, <1>4, SessionIndexAssumption DEF CountType
  <2>2. QED
    BY <1>1, <1>4, <2>1 DEF TablesType, CountType
<1>12. \A s \in Sessions : Sound(s, disk'[s])
  BY <1>1, <1>4 DEF DiskSound
<1>13. crossed \subseteq crossed' /\ crossed' \subseteq Sessions
  BY <1>1, <1>4 DEF HistoryType
<1>14. QED
  BY <1>4, <1>7, <1>8, <1>10, <1>11, <1>12, <1>13, QueueOnly

-----------------------------------------------------------------------------
(* The steps that change what is in RAM and in the matrix, and no task.    *)
LEMMA RamOnly ==
  ASSUME IndexInv, UNCHANGED <<pipe, made, disk, pending, thinned>>, TablesType', LoaderType', CountType', HistoryType',
         crossed \subseteq crossed', MapsType', LabelsSound', SearchableUnlessRaced', IndexedRows',
         \A s \in Sessions : Sound(s, ram'[s]),
         \A l \in Loaders : loader'[l].pc = "read" => loader'[l] = loader[l],
         \A s \in Sessions, v \in Obs :
            (s \notin crossed' /\ pipe[v].sid = s /\ pipe[v].pc \in {"inram", "done"} /\ ram'[s] # NoBrief)
              => (ram'[s].ver >= v \/ ram'[s] = ram[s])
  PROVE  IndexInv'
<1>1. IndexTypeOK'
  <2>1. PipeType /\ QueueType /\ IndexTypeOK
    BY Types DEF IndexInv
  <2>2. PipeType' /\ QueueType'
    BY <2>1 DEF PipeType, QueueType
  <2>3. QED
    BY <2>1, <2>2, SameTypes
<1>2. Started'
  BY DEF IndexInv, Started
<1>3. \A s, b : Sound(s, b) => (Sound(s, b))'
  BY DEF Sound
<1>4. RamSound'
  BY DEF RamSound, Sound
<1>5. DiskSound' /\ PendingSound' /\ LoadersSound'
  <2>1. DiskSound' /\ PendingSound'
    BY <1>3 DEF IndexInv, DiskSound, PendingSound, SoundQueue
  <2>2. LoadersSound'
    BY <1>3 DEF IndexInv, LoadersSound
  <2>3. QED
    BY <2>1, <2>2
<1>6. NewestInRam'
  <2>1. ASSUME NEW v \in Obs, pipe[v].pc \in {"inram", "done"}, pipe[v].sid \notin crossed', ram'[pipe[v].sid] # NoBrief
        PROVE  ram'[pipe[v].sid].ver >= v
    <3>1. pipe[v].sid \in Sessions
      BY Types DEF IndexInv, PipeType, Task
    <3>2. CASE ram'[pipe[v].sid] = ram[pipe[v].sid]
      BY <2>1, <3>1, <3>2 DEF IndexInv, NewestInRam, InRam
    <3>3. QED
      BY <2>1, <3>1, <3>2
  <2>2. QED
    BY <2>1 DEF NewestInRam, InRam
<1>7. NewestQueued'
  BY SameFinal DEF IndexInv, NewestQueued
<1>8. QED
  BY <1>1, <1>2, <1>4, <1>5, <1>6, <1>7 DEF IndexInv

LEMMA EvictKeeps ==
  ASSUME IndexInv, Evict
  PROVE  IndexInv'
<1>1. /\ PipeType /\ TablesType /\ MapsType /\ LoaderType /\ CountType /\ HistoryType /\ LabelsSound
      /\ RamSound
  BY Types DEF IndexInv
<1>2. PICK out \in SUBSET {s \in Sessions : InRam(s)}, stay \in SUBSET Sessions :
        /\ stay = {s \in Sessions : InRam(s)} \ out
        /\ ram' = [s \in Sessions |-> IF s \in stay THEN ram[s] ELSE NoBrief]
        /\ IF out = {} THEN UNCHANGED <<Maps, raced>>
           ELSE /\ Fill({s \in stay : ram[s].emb}, ram)
                /\ raced' = {pipe[v].sid : v \in {w \in Obs : pipe[w].pc = "indexed"}}
        /\ crossed' = crossed \union {s \in out : \E i \in 1..Len(pending) : pending[i].sid = s}
  BY DEF Evict
<1>3. evictor' = "idle" /\ UNCHANGED <<pipe, made, pending, disk, loader, Bounds, thinned>>
  BY DEF Evict
<1>4. TablesType' /\ LoaderType' /\ CountType'
  <2>1. TablesType'
    BY <1>1, <1>2, <1>3, NoBriefFacts DEF TablesType
  <2>2. LoaderType' /\ CountType'
    BY <1>1, <1>3 DEF LoaderType, CountType, Bounds
  <2>3. QED
    BY <2>1, <2>2
<1>5. \A s \in Sessions : ram'[s] = ram[s] \/ ram'[s] = NoBrief
  BY <1>2
<1>6. crossed \subseteq crossed' /\ crossed' \subseteq Sessions
  BY <1>1, <1>2 DEF HistoryType
<1>7. MapsType' /\ LabelsSound' /\ raced' \subseteq Sessions /\ SearchableUnlessRaced' /\ IndexedRows'
  <2>1. CASE out = {}
    <3>1. UNCHANGED Maps /\ raced' = raced
      BY <1>2, <2>1
    <3>2. MapsType' /\ LabelsSound' /\ raced' \subseteq Sessions
      BY <1>1, <3>1, MapsAlone DEF HistoryType
    <3>3. SearchableUnlessRaced'
      BY <1>5, <3>1, NoBriefFacts DEF IndexInv, SearchableUnlessRaced, InRam, Maps
    <3>4. IndexedRows'
      BY <1>3, <3>1 DEF IndexInv, IndexedRows, RowOf, Maps
    <3>5. QED
      BY <3>2, <3>3, <3>4
  <2>2. CASE out # {}
    <3> DEFINE S == {s \in stay : ram[s].emb}
    <3>1. Fill(S, ram) /\ raced' = {pipe[v].sid : v \in {w \in Obs : pipe[w].pc = "indexed"}}
      BY <1>2, <2>2
    <3>2. S \in SUBSET Sessions /\ \A s \in S : ram[s].ver \in Obs
      BY <1>1, SoundVersions DEF RamSound, TablesType
    <3>3. \A s \in stay : ram[s].emb => s \in S
      OBVIOUS
    <3> HIDE DEF S
    <3>4. /\ MapsType' /\ LabelsSound'
          /\ \A s \in S : \E r \in rows' : r.sid = s /\ r.ver = ram[s].ver
      BY <3>1, <3>2, FillFacts
    <3>5. raced' \subseteq Sessions
      BY <1>1, <3>1 DEF PipeType, Task
    <3>6. SearchableUnlessRaced'
      BY <1>2, <3>3, <3>4 DEF SearchableUnlessRaced, InRam
    <3>7. IndexedRows'
      BY <1>3, <3>1 DEF IndexedRows
    <3>8. QED
      BY <3>4, <3>5, <3>6, <3>7
  <2>3. QED
    BY <2>1, <2>2
<1>8. HistoryType'
  BY <1>1, <1>3, <1>6, <1>7 DEF HistoryType
<1>9. \A s \in Sessions : Sound(s, ram'[s])
  <2>1. \A s : Sound(s, NoBrief)
    BY DEF Sound
  <2>2. QED
    BY <1>1, <1>5, <2>1 DEF RamSound
<1>10. QED
  BY <1>3, <1>4, <1>5, <1>6, <1>7, <1>8, <1>9, RamOnly

-----------------------------------------------------------------------------
(* The two ctx_load tools.                                                 *)
LEMMA LoadReadKeeps ==
  ASSUME IndexInv, NEW l \in Loaders, NEW s \in Sessions, LoadRead(l, s)
  PROVE  IndexInv'
<1>1. /\ PipeType /\ TablesType /\ MapsType /\ QueueType /\ LoaderType /\ CountType /\ HistoryType
      /\ IndexTypeOK /\ DiskSound
  BY Types DEF IndexInv
<1>2. PICK b \in Briefs :
        /\ b.ver = disk[s].ver /\ (b = disk[s] \/ s \in thinned')
        /\ loader' = [loader EXCEPT ![l] = [pc |-> "read", sid |-> s, row |-> b]]
  <2> DEFINE b == IF l \in ThinLoaders THEN [disk[s] EXCEPT !.deadline = FALSE] ELSE disk[s]
  <2>1. b \in Briefs /\ b.ver = disk[s].ver
    BY <1>1 DEF TablesType, Briefs
  <2>2. b = disk[s] \/ s \in thinned'
    BY DEF LoadRead
  <2>3. loader' = [loader EXCEPT ![l] = [pc |-> "read", sid |-> s, row |-> b]]
    BY DEF LoadRead
  <2> HIDE DEF b
  <2>4. QED
    BY <2>1, <2>2, <2>3
<1>3. /\ disk[s] # NoBrief /\ loads < MaxLoads /\ loads' = loads + 1
      /\ thinned \subseteq thinned' /\ thinned' \subseteq Sessions
      /\ UNCHANGED <<pipe, made, ram, Maps, pending, disk, evictor, requeues, crashes, raced, crossed>>
  BY <1>1 DEF LoadRead, OnDisk, HistoryType
<1>4. \A t, c : Sound(t, c) => (Sound(t, c))'
  BY <1>3, StaySound
<1>5. (Sound(s, b))'
  <2>1. disk[s].ver \in Obs /\ pipe[disk[s].ver].sid = s /\ pipe[disk[s].ver].pc \in {"inram", "done", "lost"}
    BY <1>1, <1>3 DEF DiskSound, Sound
  <2>2. CASE b = disk[s]
    BY <1>1, <1>4, <2>2 DEF DiskSound
  <2>3. CASE s \in thinned'
    BY <1>2, <1>3, <2>1, <2>3 DEF Sound
  <2>4. QED
    BY <1>2, <2>2, <2>3
<1>6. LoaderType' /\ LoadersSound'
  <2>1. [pc |-> "read", sid |-> s, row |-> b] \in [pc : {"free", "read"}, sid : Sessions, row : Briefs]
    OBVIOUS
  <2>2. LoaderType'
    BY <1>1, <1>2, <2>1 DEF LoaderType
  <2>3. /\ loader'[l].sid = s /\ loader'[l].row = b
        /\ \A k \in Loaders : k # l => loader'[k] = loader[k]
    BY <1>1, <1>2 DEF LoaderType
  <2>4. ASSUME NEW k \in Loaders, loader'[k].pc = "read", NEW t, NEW c, t = loader'[k].sid, c = loader'[k].row
        PROVE  (Sound(t, c))'
    <3>1. CASE k = l
      BY <1>5, <2>3, <2>4, <3>1
    <3>2. CASE k # l
      <4>1. Sound(t, c)
        BY <2>3, <2>4, <3>2 DEF IndexInv, LoadersSound
      <4>2. QED
        BY <1>4, <4>1
    <3>3. QED
      BY <3>1, <3>2
  <2>5. LoadersSound'
    BY <2>4 DEF LoadersSound, Sound
  <2>6. QED
    BY <2>2, <2>5
<1>7. IndexTypeOK'
  <2>1. PipeType' /\ TablesType' /\ QueueType' /\ HistoryType'
    BY <1>1, <1>3 DEF PipeType, TablesType, QueueType, HistoryType
  <2>2. CountType'
    <3>1. loads' \in 0..MaxLoads
      BY <1>1, <1>3, SessionIndexAssumption DEF CountType
    <3>2. QED
      BY <1>1, <1>3, <3>1 DEF CountType
  <2>3. MapsType'
    BY <1>1, <1>3, MapsAlone DEF IndexInv
  <2>4. QED
    BY <1>1, <1>6, <2>1, <2>2, <2>3, SameTypes
<1>8. Started'
  BY <1>3 DEF IndexInv, Started
<1>9. RamSound' /\ DiskSound' /\ PendingSound'
  BY <1>3, <1>4 DEF IndexInv, RamSound, DiskSound, PendingSound, SoundQueue
<1>10. LabelsSound'
  BY <1>1, <1>3, MapsAlone DEF IndexInv
<1>11. SearchableUnlessRaced'
  BY <1>3 DEF IndexInv, SearchableUnlessRaced, InRam, Maps
<1>12. IndexedRows'
  BY <1>3 DEF IndexInv, IndexedRows, RowOf, Maps
<1>13. NewestInRam'
  BY <1>3 DEF IndexInv, NewestInRam, InRam
<1>14. NewestQueued'
  BY <1>3, SameFinal DEF IndexInv, NewestQueued
<1>15. QED
  BY <1>6, <1>7, <1>8, <1>9, <1>10, <1>11, <1>12, <1>13, <1>14 DEF IndexInv

(* A call that ends frees its loader.                                      *)
LEMMA LoaderFreed ==
  ASSUME LoaderType, NEW l \in Loaders, loader' = [loader EXCEPT ![l] = Free]
  PROVE  LoaderType' /\ \A k \in Loaders : loader'[k].pc = "read" => loader'[k] = loader[k]
<1>1. LoaderType'
  BY FreeFacts DEF LoaderType
<1>2. loader'[l] = Free /\ \A k \in Loaders : k # l => loader'[k] = loader[k]
  BY DEF LoaderType
<1>3. QED
  BY <1>1, <1>2, FreeFacts

LEMMA NotOvertaken ==
  ASSUME PipeType, NEW s \in Sessions, NEW b \in Briefs, ~Overtakes(s, b)
  PROVE  \A v \in Obs : (pipe[v].sid = s /\ pipe[v].pc \in {"inram", "done"}) => b.ver >= v
<1>1. b.ver \in Int /\ \A v \in Obs : v \in Int
  BY SessionIndexAssumption DEF Briefs, Obs
<1>2. QED
  BY <1>1 DEF Overtakes

LEMMA ThinLoadFinishKeeps ==
  ASSUME IndexInv, NEW l \in Loaders, ThinLoadFinish(l)
  PROVE  IndexInv'
<1>1. /\ PipeType /\ TablesType /\ MapsType /\ LoaderType /\ CountType /\ HistoryType /\ LabelsSound /\ RamSound
  BY Types DEF IndexInv
<1>2. PICK s \in Sessions, b \in Briefs :
        /\ s = loader[l].sid /\ b = loader[l].row /\ Sound(s, b)
        /\ ram' = [ram EXCEPT ![s] = b]
        /\ Label(s) /\ rows' = rows
        /\ raced' = raced \union {s}
        /\ crossed' = IF Overtakes(s, b) THEN crossed \union {s} ELSE crossed
  <2>1. loader[l].sid \in Sessions /\ loader[l].row \in Briefs /\ loader[l].pc = "read"
    BY <1>1 DEF LoaderType, ThinLoadFinish
  <2>2. Sound(loader[l].sid, loader[l].row)
    BY <2>1 DEF IndexInv, LoadersSound
  <2>3. QED
    BY <2>1, <2>2 DEF ThinLoadFinish
<1>3. /\ loader' = [loader EXCEPT ![l] = Free]
      /\ UNCHANGED <<pipe, made, pending, disk, evictor, Bounds, thinned>>
  BY DEF ThinLoadFinish
<1>4. ram'[s] = b /\ (\A t \in Sessions : t # s => ram'[t] = ram[t]) /\ TablesType'
  BY <1>1, <1>2, <1>3 DEF TablesType
<1>5. LoaderType' /\ \A k \in Loaders : loader'[k].pc = "read" => loader'[k] = loader[k]
  BY <1>1, <1>3, LoaderFreed
<1>6. MapsType' /\ LabelsSound'
  <2>1. 1 \in Obs
    BY SessionIndexAssumption DEF Obs
  <2>2. rows' \subseteq rows \union {[label |-> LabelOf(s), sid |-> s, ver |-> 1]}
    BY <1>2
  <2>3. QED
    BY <1>1, <1>2, <2>1, <2>2, LabelFacts
<1>7. CountType' /\ HistoryType' /\ crossed \subseteq crossed'
  BY <1>1, <1>2, <1>3 DEF CountType, HistoryType, Bounds
<1>8. SearchableUnlessRaced'
  BY <1>2, <1>4 DEF IndexInv, SearchableUnlessRaced, InRam
<1>9. IndexedRows'
  BY <1>2, <1>3 DEF IndexInv, IndexedRows, RowOf
<1>10. \A t \in Sessions : Sound(t, ram'[t])
  BY <1>1, <1>2, <1>4 DEF RamSound
<1>11. ASSUME NEW t \in Sessions, NEW v \in Obs, t \notin crossed', pipe[v].sid = t, pipe[v].pc \in {"inram", "done"}
       PROVE  ram'[t].ver >= v \/ ram'[t] = ram[t]
  <2>1. CASE t = s
    <3>1. ~Overtakes(s, b)
      BY <1>2, <1>11, <2>1
    <3>2. QED
      BY <1>1, <1>4, <1>11, <2>1, <3>1, NotOvertaken
  <2>2. CASE t # s
    BY <1>4, <2>2
  <2>3. QED
    BY <2>1, <2>2
<1>12. QED
  BY <1>3, <1>4, <1>5, <1>6, <1>7, <1>8, <1>9, <1>10, <1>11, RamOnly

LEMMA LoadFinishKeeps ==
  ASSUME IndexInv, NEW l \in Loaders, LoadFinish(l)
  PROVE  IndexInv'
<1>1. /\ PipeType /\ TablesType /\ MapsType /\ LoaderType /\ CountType /\ HistoryType /\ LabelsSound /\ RamSound
  BY Types DEF IndexInv
<1>2. loader[l].sid \in Sessions /\ loader[l].row \in Briefs /\ Sound(loader[l].sid, loader[l].row)
  <2>1. loader[l].sid \in Sessions /\ loader[l].row \in Briefs /\ loader[l].pc = "read"
    BY <1>1 DEF LoaderType, LoadFinish
  <2>2. QED
    BY <2>1 DEF IndexInv, LoadersSound
<1>3. PICK s \in Sessions, b \in Briefs, out \in SUBSET Sessions :
        /\ s = loader[l].sid /\ b = loader[l].row /\ Sound(s, b)
        /\ ram' = [t \in Sessions |-> IF t = s THEN b ELSE IF t \in out THEN NoBrief ELSE ram[t]]
        /\ crossed' = crossed \union (IF Overtakes(s, b) THEN {s} ELSE {})
             \union {t \in out : \E v \in Obs : pipe[v].sid = t /\
                                  (pipe[v].pc = "inram" \/ (pipe[v].pc = "done" /\ disk[t].ver < v))}
        /\ IF b.emb THEN AddRow(s, b.ver) /\ Label(s) ELSE UNCHANGED Maps
  <2>1. CASE Cardinality({t \in Sessions : InRam(t)}) >= Window
    <3>1. \E out \in {{t} : t \in {u \in Sessions : InRam(u)}} :
            /\ ram' = [t \in Sessions |-> IF t = loader[l].sid THEN loader[l].row
                                          ELSE IF t \in out THEN NoBrief ELSE ram[t]]
            /\ crossed' = crossed \union (IF Overtakes(loader[l].sid, loader[l].row) THEN {loader[l].sid} ELSE {})
                 \union {t \in out : \E v \in Obs : pipe[v].sid = t /\
                                      (pipe[v].pc = "inram" \/ (pipe[v].pc = "done" /\ disk[t].ver < v))}
      BY <2>1 DEF LoadFinish
    <3>2. {{t} : t \in {u \in Sessions : InRam(u)}} \subseteq SUBSET Sessions
      OBVIOUS
    <3>3. IF loader[l].row.emb THEN AddRow(loader[l].sid, loader[l].row.ver) /\ Label(loader[l].sid) ELSE UNCHANGED Maps
      BY DEF LoadFinish
    <3>4. QED
      BY <1>2, <3>1, <3>2, <3>3
  <2>2. CASE ~(Cardinality({t \in Sessions : InRam(t)}) >= Window)
    BY <1>2, <2>2 DEF LoadFinish
  <2>3. QED
    BY <2>1, <2>2
<1>4. /\ loader' = [loader EXCEPT ![l] = Free]
      /\ UNCHANGED <<pipe, made, pending, disk, evictor, Bounds, raced, thinned>>
  BY DEF LoadFinish
<1>5. /\ ram'[s] = b /\ \A t \in Sessions : t # s => (ram'[t] = ram[t] \/ ram'[t] = NoBrief)
      /\ TablesType'
  BY <1>1, <1>3, <1>4, NoBriefFacts DEF TablesType
<1>6. LoaderType' /\ \A k \in Loaders : loader'[k].pc = "read" => loader'[k] = loader[k]
  BY <1>1, <1>4, LoaderFreed
<1>7. MapsType' /\ LabelsSound' /\ rows \subseteq rows' /\ (b.emb => \E r \in rows' : r.sid = s /\ r.ver = b.ver)
  <2>1. CASE b.emb
    <3>1. b.ver \in Obs
      BY <1>3, <2>1, SoundVersions
    <3> DEFINE r == [label |-> LabelOf(s), sid |-> s, ver |-> b.ver]
    <3>2. Label(s) /\ rows' = rows \union {r}
      BY <1>3, <2>1 DEF AddRow
    <3>3. MapsType' /\ LabelsSound'
      BY <1>1, <3>1, <3>2, LabelFacts
    <3>4. r \in rows' /\ r.sid = s /\ r.ver = b.ver
      BY <3>2
    <3> HIDE DEF r
    <3>5. QED
      BY <3>2, <3>3, <3>4
  <2>2. CASE ~b.emb
    BY <1>1, <1>3, <2>2, MapsAlone DEF Maps
  <2>3. QED
    BY <2>1, <2>2
<1>8. CountType' /\ HistoryType' /\ crossed \subseteq crossed' /\ (Overtakes(s, b) => s \in crossed')
  <2>1. CountType'
    BY <1>1, <1>4 DEF CountType, Bounds
  <2>2. crossed \subseteq crossed' /\ crossed' \subseteq Sessions /\ (Overtakes(s, b) => s \in crossed')
    BY <1>1, <1>3 DEF HistoryType
  <2>3. QED
    BY <1>1, <1>4, <2>1, <2>2 DEF HistoryType
<1>9. SearchableUnlessRaced'
  BY <1>4, <1>5, <1>7, NoBriefFacts DEF IndexInv, SearchableUnlessRaced, InRam
<1>10. IndexedRows'
  BY <1>4, <1>7 DEF IndexInv, IndexedRows, RowOf
<1>11. \A t \in Sessions : Sound(t, ram'[t])
  <2>1. \A t : Sound(t, NoBrief)
    BY DEF Sound
  <2>2. QED
    BY <1>1, <1>3, <1>5, <2>1 DEF RamSound
<1>12. ASSUME NEW t \in Sessions, NEW v \in Obs, t \notin crossed', pipe[v].sid = t, pipe[v].pc \in {"inram", "done"},
              ram'[t] # NoBrief
       PROVE  ram'[t].ver >= v \/ ram'[t] = ram[t]
  <2>1. CASE t = s
    <3>1. ~Overtakes(s, b)
      BY <1>8, <1>12, <2>1
    <3>2. QED
      BY <1>1, <1>5, <1>12, <2>1, <3>1, NotOvertaken
  <2>2. CASE t # s
    BY <1>5, <1>12, <2>2
  <2>3. QED
    BY <2>1, <2>2
<1>13. QED
  BY <1>4, <1>5, <1>6, <1>7, <1>8, <1>9, <1>10, <1>11, <1>12, RamOnly

-----------------------------------------------------------------------------
(* A start knows what is on disk and nothing else.                         *)
LEMMA RestartKeeps ==
  ASSUME IndexInv, Restart
  PROVE  IndexInv'
<1> DEFINE S == {s \in Sessions : OnDisk(s) /\ disk[s].emb}
<1>1. /\ PipeType /\ TablesType /\ QueueType /\ LoaderType /\ CountType /\ HistoryType /\ DiskSound /\ PendingSound
      /\ IndexTypeOK
  BY Types DEF IndexInv
<1>2. PICK hot \in SUBSET {s \in Sessions : OnDisk(s)} :
        ram' = [s \in Sessions |-> IF s \in hot THEN disk[s] ELSE NoBrief]
  BY DEF Restart
<1>3. /\ crashes < MaxCrashes /\ crashes' = crashes + 1 /\ Fill(S, disk)
      /\ crossed' = crossed \union {pending[i].sid : i \in DOMAIN pending}
      /\ pipe' = [v \in Obs |-> IF pipe[v].pc \in {"new", "scored", "indexed", "inram"}
                                THEN [pipe[v] EXCEPT !.pc = "lost"] ELSE pipe[v]]
      /\ pending' = <<>> /\ evictor' = "idle" /\ loader' = [l \in Loaders |-> Free] /\ raced' = {}
      /\ UNCHANGED <<made, disk, requeues, loads, thinned>>
  BY DEF Restart
<1>4. PipeType' /\ \A w \in Obs :
        /\ pipe'[w].sid = pipe[w].sid /\ pipe'[w].deadline = pipe[w].deadline
        /\ pipe'[w].pc = IF pipe[w].pc \in {"new", "scored", "indexed", "inram"} THEN "lost" ELSE pipe[w].pc
        /\ pipe[w].pc = "none" => pipe'[w] = pipe[w]
  <2>1. \A w \in Obs : pipe[w] \in Task /\ [pipe[w] EXCEPT !.pc = "lost"] \in Task
    BY <1>1 DEF PipeType, Task, Pcs
  <2>2. PipeType'
    BY <1>3, <2>1 DEF PipeType
  <2>3. QED
    BY <1>3, <2>1, <2>2 DEF Task
<1>5. \A s \in S : disk[s].ver \in Obs
  BY <1>1, SoundVersions DEF DiskSound, TablesType
<1>6. \A s \in Sessions : (disk[s] # NoBrief /\ disk[s].emb) => s \in S
  BY DEF OnDisk
<1>7. S \in SUBSET Sessions
  OBVIOUS
<1> HIDE DEF S
<1>8. /\ MapsType' /\ LabelsSound'
      /\ \A s \in S : \E r \in rows' : r.sid = s /\ r.ver = disk[s].ver
  BY <1>3, <1>5, <1>7, FillFacts
<1>9. \A s \in Sessions : ram'[s] = NoBrief \/ ram'[s] = disk[s]
  BY <1>2
<1>10. IndexTypeOK'
  <2>1. TablesType'
    BY <1>1, <1>2, <1>3, NoBriefFacts DEF TablesType
  <2>2. QueueType'
    BY <1>3 DEF QueueType
  <2>3. LoaderType'
    BY <1>3, FreeFacts DEF LoaderType
  <2>4. CountType'
    <3>1. crashes' \in 0..MaxCrashes
      BY <1>1, <1>3, SessionIndexAssumption DEF CountType
    <3>2. QED
      BY <1>1, <1>3, <3>1 DEF CountType
  <2>5. HistoryType'
    <3>1. \A i \in DOMAIN pending : pending[i].sid \in Sessions
      <4>1. \A i \in DOMAIN pending : pending[i] \in Queued
        BY <1>1, LenProperties DEF QueueType
      <4>2. QED
        BY <4>1 DEF Queued
    <3>2. QED
      BY <1>1, <1>3, <3>1 DEF HistoryType
  <2>6. QED
    BY <1>1, <1>4, <1>8, <2>1, <2>2, <2>3, <2>4, <2>5, SameTypes
<1>11. Started'
  BY <1>3, <1>4, IdleFacts DEF IndexInv, Started
<1>12. \A t, c : Sound(t, c) => (Sound(t, c))'
  <2>1. thinned \subseteq thinned'
    BY <1>3
  <2>2. \A w \in Obs : pipe[w].pc \in Reached =>
            /\ pipe'[w].pc \in Reached /\ pipe'[w].sid = pipe[w].sid /\ pipe'[w].deadline = pipe[w].deadline
    BY <1>4 DEF Reached
  <2>3. QED
    BY <2>1, <2>2, StaySound
<1>13. DiskSound' /\ PendingSound' /\ LoadersSound'
  <2>1. DiskSound'
    BY <1>1, <1>3, <1>12 DEF DiskSound
  <2>2. PendingSound'
    BY <1>3 DEF PendingSound, SoundQueue
  <2>3. LoadersSound'
    BY <1>3, FreeFacts DEF LoadersSound
  <2>4. QED
    BY <2>1, <2>2, <2>3
<1>14. RamSound'
  <2>1. ASSUME NEW t \in Sessions, NEW c, c = ram'[t] PROVE (Sound(t, c))'
    <3>1. \A u : Sound(u, NoBrief)
      BY DEF Sound
    <3>2. Sound(t, c)
      BY <1>1, <1>9, <2>1, <3>1 DEF DiskSound
    <3>3. QED
      BY <1>12, <3>2
  <2>2. QED
    BY <2>1 DEF RamSound, Sound
<1>15. SearchableUnlessRaced'
  BY <1>6, <1>8, <1>9 DEF SearchableUnlessRaced, InRam
<1>16. IndexedRows'
  BY <1>4 DEF IndexedRows
<1>17. ASSUME NEW v \in Obs, pipe'[v].pc \in {"inram", "done"}, pipe'[v].sid \notin crossed'
       PROVE  disk[pipe'[v].sid].ver >= v /\ pipe'[v].sid \in Sessions
  <2>1. pipe[v].pc = "done" /\ pipe'[v].sid = pipe[v].sid /\ pipe[v].sid \in Sessions /\ pipe[v].sid \notin crossed
    BY <1>1, <1>3, <1>4, <1>17 DEF PipeType, Task
  <2>2. \A i \in DOMAIN pending : pending[i].sid # pipe[v].sid
    BY <1>3, <1>4, <1>17
  <2>3. Final[pipe[v].sid].ver >= v
    BY <2>1 DEF IndexInv, NewestQueued
  <2>4. Final[pipe[v].sid] = disk[pipe[v].sid]
    <3>1. PICK s \in Sessions : s = pipe[v].sid
      BY <2>1
    <3>2. Upsert(disk, pending)[s] = disk[s]
      BY <1>1, <2>2, <3>1, UpsertNone DEF QueueType
    <3>3. QED
      BY <3>1, <3>2 DEF Final
  <2>5. QED
    BY <2>1, <2>3, <2>4
<1>18. NewestInRam'
  BY <1>9, <1>17 DEF NewestInRam, InRam
<1>19. NewestQueued'
  <2>1. \A s \in Sessions : Final'[s] = disk[s]
    <3>1. Final' = Upsert(disk, <<>>)
      BY <1>3 DEF Final, Upsert
    <3>2. QED
      BY <3>1 DEF Upsert
  <2>2. QED
    BY <1>17, <2>1 DEF NewestQueued
<1>20. QED
  BY <1>8, <1>10, <1>11, <1>13, <1>14, <1>15, <1>16, <1>18, <1>19 DEF IndexInv

-----------------------------------------------------------------------------
LEMMA IndexInvInit == IndexInit => IndexInv
<1> SUFFICES ASSUME IndexInit PROVE IndexInv
  OBVIOUS
<1>1. /\ pipe = [v \in Obs |-> Idle] /\ made = 0
      /\ ram = [s \in Sessions |-> NoBrief] /\ disk = [s \in Sessions |-> NoBrief]
      /\ rows = {} /\ sidTo = [s \in Sessions |-> NoLabel]
      /\ idTo = [l \in {} |-> 0] /\ next = 0
      /\ pending = <<>> /\ evictor = "idle" /\ loader = [l \in Loaders |-> Free]
      /\ requeues = 0 /\ loads = 0 /\ crashes = 0 /\ raced = {} /\ crossed = {} /\ thinned = {}
  BY DEF IndexInit
<1>2. IndexTypeOK
  <2>1. PipeType /\ TablesType
    BY <1>1, IdleFacts, NoBriefFacts DEF PipeType, TablesType
  <2>2. MapsType /\ QueueType
    BY <1>1 DEF MapsType, QueueType
  <2>3. LoaderType
    BY <1>1, FreeFacts DEF LoaderType
  <2>4. CountType /\ HistoryType
    BY <1>1, SessionIndexAssumption DEF CountType, HistoryType
  <2>5. QED
    BY <2>1, <2>2, <2>3, <2>4, Types
<1>3. Started
  BY <1>1 DEF Started
<1>4. RamSound /\ DiskSound /\ PendingSound /\ LoadersSound
  BY <1>1, FreeFacts DEF RamSound, DiskSound, PendingSound, SoundQueue, LoadersSound, Sound
<1>5. LabelsSound
  BY <1>1 DEF LabelsSound
<1>6. SearchableUnlessRaced
  BY <1>1 DEF SearchableUnlessRaced, InRam
<1>7. IndexedRows /\ NewestInRam /\ NewestQueued
  BY <1>1, IdleFacts DEF IndexedRows, NewestInRam, NewestQueued
<1>8. QED
  BY <1>2, <1>3, <1>4, <1>5, <1>6, <1>7 DEF IndexInv

LEMMA IndexInvStep == IndexInv /\ [IndexNext]_indexVars => IndexInv'
<1> SUFFICES ASSUME IndexInv, [IndexNext]_indexVars PROVE IndexInv'
  OBVIOUS
<1>1. CASE UNCHANGED indexVars
  <2>1. UNCHANGED <<ram, Maps, pending, disk, evictor, loader, Bounds, History>> /\ pipe' = pipe /\ made' = made
    BY <1>1 DEF indexVars, Maps, Bounds, History
  <2>2. PipeType' /\ made' \in 0..MaxObs /\ Started'
    BY <2>1, Types DEF IndexInv, PipeType, CountType, Started
  <2>3. QED
    BY <2>1, <2>2, TaskOnly
<1>2. ASSUME NEW s \in Sessions, Observe(s) PROVE IndexInv'
  BY <1>2, ObserveKeeps
<1>3. ASSUME NEW v \in Obs, Prepare(v) \/ IndexRaises(v) \/ IndexStep(v) \/ InsertRam(v) \/ Enqueue(v) PROVE IndexInv'
  BY <1>3, PrepareKeeps, IndexRaisesKeeps, IndexStepKeeps, InsertRamKeeps, EnqueueKeeps
<1>4. CASE WriteOne \/ Consolidate \/ EvictFlush \/ Evict \/ Restart
  BY <1>4, WriteOneKeeps, ConsolidateKeeps, EvictFlushKeeps, EvictKeeps, RestartKeeps
<1>5. ASSUME NEW l \in Loaders, ThinLoadFinish(l) \/ LoadFinish(l) PROVE IndexInv'
  BY <1>5, ThinLoadFinishKeeps, LoadFinishKeeps
<1>6. ASSUME NEW l \in Loaders, NEW s \in Sessions, LoadRead(l, s) PROVE IndexInv'
  BY <1>6, LoadReadKeeps
<1>7. QED
  BY <1>1, <1>2, <1>3, <1>4, <1>5, <1>6 DEF IndexNext

LEMMA IndexInvAlways == IndexSpec => []IndexInv
  BY IndexInvInit, IndexInvStep, PTL DEF IndexSpec

(* Every variable of the session index keeps its type.                     *)
THEOREM IndexTypes == IndexSpec => []IndexTypeOK
<1>1. IndexInv => IndexTypeOK
  BY DEF IndexInv
<1>2. QED
  BY <1>1, IndexInvAlways, PTL

(* Whatever pipelines, loads, evictions, rebuilds and starts do in between:*)
(* every label of the matrix resolves to the session whose vector it is,   *)
(* and a session in RAM is found by its embedding unless a rebuild or a    *)
(* load of dispatch raced with it.                                         *)
THEOREM SearchIsSound == IndexSpec => []SearchSound
<1>1. IndexInv => SearchSound
  BY DEF IndexInv, SearchSound
<1>2. QED
  BY <1>1, IndexInvAlways, PTL

(* The newest finished text of a session is the one in RAM and on disk or  *)
(* queued, and an observed deadline stays with its text, for all sessions  *)
(* nothing passed on the way.                                              *)
THEOREM MemoryIsKept == IndexSpec => []MemoryKept
<1>1. IndexInv => MemoryKept
  <2> SUFFICES ASSUME IndexInv PROVE NewestKept /\ DeadlineKept
    BY DEF MemoryKept
  <2>1. NewestKept
    <3>1. ASSUME NEW v \in Obs, pipe[v].pc = "done", pipe[v].sid \notin crossed
          PROVE  /\ InRam(pipe[v].sid) => ram[pipe[v].sid].ver >= v
                 /\ \/ disk[pipe[v].sid].ver >= v
                    \/ \E i \in DOMAIN pending : pending[i].sid = pipe[v].sid /\ pending[i].brief.ver >= v
      <4>1. PICK s \in Sessions : s = pipe[v].sid
        BY Types DEF IndexInv, PipeType, Task
      <4>2. InRam(s) => ram[s].ver >= v
        BY <3>1, <4>1 DEF IndexInv, NewestInRam
      <4>3. Upsert(disk, pending)[s].ver >= v
        BY <3>1, <4>1 DEF IndexInv, NewestQueued, Final
      <4>4. \/ Upsert(disk, pending)[s] = disk[s]
            \/ \E i \in DOMAIN pending : pending[i].sid = s /\ Upsert(disk, pending)[s] = pending[i].brief
        BY Types, UpsertIs DEF IndexInv, QueueType
      <4>5. QED
        BY <4>1, <4>2, <4>3, <4>4
    <3>2. QED
      BY <3>1 DEF NewestKept
  <2>2. DeadlineKept
    BY DEF IndexInv, DiskSound, Sound, DeadlineKept, OnDisk
  <2>3. QED
    BY <2>1, <2>2
<1>2. QED
  BY <1>1, IndexInvAlways, PTL
=============================================================================
