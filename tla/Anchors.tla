------------------------------- MODULE Anchors --------------------------------
(* The subconscious layer: the index of anchors in RAM                     *)
(* (subconscious/anchor_index.py), the table anchors                       *)
(* (storage/sqlite.py), and the three that change them across awaits: the  *)
(* persist step, the dreamer's cycle (subconscious/dreamer.py) and the     *)
(* decay of the consolidation worker (memory/consolidation.py).            *)
(*                                                                         *)
(* The workers hold objects, not names: an object observed anew or evicted *)
(* meanwhile is still theirs to change and to save.  heap is the objects.  *)
EXTENDS Integers, FiniteSets, Sequences, SequencesExt, FiniteSetsExt

CONSTANTS
  Topics,        \* anchor_id, which is the session's
  Shapes,        \* what an observation says: [kind, outcome, multi, pin]
  Nothing,       \* no anchor
  IndexCap,      \* AnchorIndex._max_capacity
  MaxCandidates, \* max_anchors_per_cycle
  PageSize,      \* disk_scan_page_size
  ResurfaceAt,   \* 3 accesses; hits are not counted further
  Bedrock,       \* 3, the last decay_level
  IdleTicks,     \* anchor_decay.threshold_days
  MaxObserved, MaxNow, MaxMishaps \* bounds: observations, clock, failed saves and restarts

Outcomes == {"pending", "success", "failure", "neutral", "abandoned"}
AnchorRecords ==
  [id : Topics, kind : STRING, outcome : Outcomes, next : Topics \union {Nothing}, multi : BOOLEAN,
   pin : BOOLEAN, decay : Nat, hits : Nat, seen : Nat]

ASSUME AnchorsAssumption ==
  /\ IsFiniteSet(Topics) /\ Nothing \notin Topics \union AnchorRecords
  /\ Shapes \subseteq [kind : STRING, outcome : Outcomes, multi : BOOLEAN, pin : BOOLEAN]
  /\ {IndexCap, MaxCandidates, PageSize, ResurfaceAt, Bedrock, IdleTicks} \subseteq Nat \ {0}
  /\ {MaxObserved, MaxNow, MaxMishaps} \subseteq Nat

VARIABLES
  heap,       \* objects, by number
  index,      \* anchor_index._anchors: number of a topic's object, 0 for none
  shelf,      \* rows of the table anchors
  awake,      \* sessions in ram_index
  observingTopic,  \* persist steps between the save of the predecessor and their own
  dream,      \* the dreamer: [at, todo, page, offset]
  decaying,   \* objects consolidation has still to look at
  now,        \* int(time.time())
  lostSaves,  \* topics one of whose saves failed
  mishaps

anchorVars == <<heap, index, shelf, awake, observingTopic, dream, decaying, now, lostSaves, mishaps>>
saves == <<shelf, lostSaves, mishaps>>
cores == <<heap, index, saves>>

InRam == {a \in Topics : index[a] # 0}
OnDisk == {a \in Topics : shelf[a] # Nothing}
Drowsy == [at |-> "asleep", todo |-> <<>>, page |-> <<>>, offset |-> 0]

AnchorInit ==
  /\ heap = <<>> /\ index = [a \in Topics |-> 0] /\ shelf = [a \in Topics |-> Nothing]
  /\ awake = {} /\ observingTopic = {} /\ dream = Drowsy /\ decaying = <<>>
  /\ now = 0 /\ lostSaves = {} /\ mishaps = 0

(* save_anchor replaces the row by the object as it is at the call, or     *)
(* reports an error to the log only.  aiosqlite keeps the order of calls.  *)
Save(o) ==
  \/ shelf' = [shelf EXCEPT ![o.id] = o] /\ UNCHANGED <<lostSaves, mishaps>>
  \/ /\ mishaps < MaxMishaps /\ mishaps' = mishaps + 1
     /\ lostSaves' = lostSaves \union {o.id} /\ UNCHANGED shelf

Touched(o) == [o EXCEPT !.hits = IF @ < ResurfaceAt THEN @ + 1 ELSE @, !.seen = now]

(* put evicts the object accessed longest ago when a topic joins a full    *)
(* index.  Nobody saves the evicted one.                                   *)
Put(n, id) ==
  IF index[id] # 0 \/ Cardinality(InRam) < IndexCap THEN index' = [index EXCEPT ![id] = n]
  ELSE \E e \in {e \in InRam : \A f \in InRam : heap[index[e]].seen <= heap[index[f]].seen} :
         index' = [index EXCEPT ![e] = 0, ![id] = n]

-----------------------------------------------------------------------------
(* The session's anchor is always a new object, with nothing of the old.   *)
NewAnchor(t) ==
  [id |-> t.id, kind |-> t.shape.kind, outcome |-> t.shape.outcome, next |-> t.next,
   multi |-> t.shape.multi \/ t.next # Nothing, pin |-> t.shape.pin, decay |-> 0, hits |-> 0,
   seen |-> now]

(* Fault model: an anchor that makes another leave the index is not saved. *)
AddUnsaved(t) ==
  /\ heap' = Append(heap, NewAnchor(t)) /\ Put(Len(heap) + 1, t.id)
  /\ IF \E e \in InRam : index'[e] = 0 THEN UNCHANGED saves ELSE Save(NewAnchor(t))

Add(t) ==
  /\ heap' = Append(heap, NewAnchor(t)) /\ Put(Len(heap) + 1, t.id) /\ Save(NewAnchor(t))

(* A continuation touches its predecessor in RAM and awaits its save first.*)
ObserveBegins(t) ==
  /\ Len(heap) + Cardinality(observingTopic) < MaxObserved
  /\ awake' = awake \union {t.id}
  /\ IF t.next \in InRam
     THEN LET o == Touched(heap[index[t.next]]) IN
          /\ heap' = [heap EXCEPT ![index[t.next]] = o] /\ Save(o)
          /\ observingTopic' = observingTopic \union {t} /\ UNCHANGED index
     ELSE Add(t) /\ UNCHANGED observingTopic
  /\ UNCHANGED <<dream, decaying, now>>

AnchorObserveEnds ==
  /\ \E t \in observingTopic : observingTopic' = observingTopic \ {t} /\ Add(t)
  /\ UNCHANGED <<awake, dream, decaying, now>>

-----------------------------------------------------------------------------
(* A later anchor in RAM that continues o has ended: o's outcome is known. *)
Verdicts(o) ==
  LET heirs == {heap[index[a]] : a \in {b \in awake \intersect InRam : heap[index[b]].next = o.id}} IN
  IF o.outcome # "pending" THEN {}
  ELSE {IF d.kind = "milestone" THEN "success" ELSE "failure" :
          d \in {h \in heirs : h.kind = "milestone" \/ h.outcome = "failure"}}

(* dream() takes the objects accessed most, whatever their outcome.        *)
Candidates ==
  {SetToSeq({index[a] : a \in S}) : S \in {T \in SUBSET InRam :
     /\ Cardinality(T) = Min({MaxCandidates, Cardinality(InRam)})
     /\ \A a \in T, b \in InRam \ T : heap[index[a]].hits >= heap[index[b]].hits}}

(* The first of a list that holds P, after its end when there is none.     *)
FirstOf(list, P(_)) == Min({k \in DOMAIN list : P(list[k])} \union {Len(list) + 1})
ButFirst(list, k) == SubSeq(list, k, Len(list))

(* Objects accessed often are accessed once more, which nobody saves.      *)
Resurfaced(ns) ==
  [n \in DOMAIN heap |-> IF n \in ns /\ heap[n].hits >= ResurfaceAt /\ heap[n].decay < Bedrock
                         THEN Touched(heap[n]) ELSE heap[n]]

(* find_anchors_by_flags(outcome="pending", multi_session, decay_level_max *)
(* = 2) in the order of the last access, newest first.                     *)
Unsettled == {a \in OnDisk : /\ shelf[a].outcome = "pending" /\ shelf[a].multi
                             /\ shelf[a].decay < Bedrock}
NewestFirst(S) ==
  CHOOSE q \in SetToSeqs(S) : \A j, k \in DOMAIN q : j < k => shelf[q[j]].seen >= shelf[q[k]].seen

(* One page a cycle; an empty page starts the next pass at the beginning.  *)
NextOffsetKept(page) == dream.offset + (IF page = <<>> THEN 0 ELSE PageSize)

NextOffset(page) == IF page = <<>> THEN 0 ELSE dream.offset + PageSize

(* The cycle runs to the next save, for which it waits, or to the query of *)
(* the disk scan.  A settled object waits for its touch at the list's head.*)
DreamOn(todo) ==
  LET k == FirstOf(todo, LAMBDA n : Verdicts(heap[n]) # {})
      passed == {todo[j] : j \in 1..(k - 1)}
      q == NewestFirst(Unsettled)
      page == SubSeq(q, dream.offset + 1, Min({dream.offset + PageSize, Len(q)})) IN
  IF k <= Len(todo)
  THEN \E v \in Verdicts(heap[todo[k]]) :
         LET settled == [heap[todo[k]] EXCEPT !.outcome = v] IN
         /\ heap' = [Resurfaced(passed) EXCEPT ![todo[k]] = settled] /\ Save(settled)
         /\ dream' = [dream EXCEPT !.at = "ram", !.todo = ButFirst(todo, k)]
  ELSE /\ heap' = Resurfaced(passed) /\ UNCHANGED saves
       /\ dream' = [at |-> IF page = <<>> THEN "asleep" ELSE "disk", todo |-> <<>>,
                    page |-> [j \in DOMAIN page |-> shelf[page[j]]], offset |-> NextOffset(page)]

DreamOfRam ==
  /\ \/ dream.at = "asleep" /\ \E todo \in Candidates : DreamOn(todo)
     \/ dream.at = "ram" /\ DreamOn(dream.todo)
  /\ UNCHANGED <<index, awake, observingTopic, decaying, now>>

(* A row whose topic is in RAM by now is left to the first phase.          *)
DreamOfDisk ==
  LET k == FirstOf(dream.page, LAMBDA o : o.id \notin InRam /\ Verdicts(o) # {}) IN
  /\ dream.at = "disk"
  /\ IF k <= Len(dream.page)
     THEN /\ \E v \in Verdicts(dream.page[k]) : Save([dream.page[k] EXCEPT !.outcome = v])
          /\ dream' = [dream EXCEPT !.page = ButFirst(@, k + 1)]
     ELSE dream' = [dream EXCEPT !.at = "asleep", !.page = <<>>] /\ UNCHANGED saves
  /\ UNCHANGED <<heap, index, awake, observingTopic, decaying, now>>

-----------------------------------------------------------------------------
Fades(o) == ~o.pin /\ o.decay < Bedrock /\ now - o.seen >= IdleTicks

(* _run_anchor_decay: one level for an object that is neither pinned nor   *)
(* accessed lately, which is then saved, though another may have its place *)
(* since all() was copied.  A round that changes nothing is left out.      *)
DecayOn(list) ==
  LET k == FirstOf(list, LAMBDA n : Fades(heap[n]))
      o == [heap[list[k]] EXCEPT !.decay = @ + 1] IN
  /\ decaying' = ButFirst(list, k + 1)
  /\ IF k <= Len(list) THEN heap' = [heap EXCEPT ![list[k]] = o] /\ Save(o)
     ELSE UNCHANGED <<heap, saves>>

Decays ==
  /\ \/ decaying # <<>> /\ DecayOn(decaying)
     \/ /\ decaying = <<>> /\ \E a \in InRam : Fades(heap[index[a]])
        /\ DecayOn(SetToSeq({index[a] : a \in InRam}))
  /\ UNCHANGED <<index, awake, observingTopic, dream, now>>

TimePasses ==
  /\ now < MaxNow /\ now' = now + 1
  /\ UNCHANGED <<cores, awake, observingTopic, dream, decaying>>

(* The dissolver takes a session out of ram_index; its anchor stays.       *)
Dissolves ==
  /\ \E a \in awake : awake' = awake \ {a}
  /\ UNCHANGED <<cores, observingTopic, dream, decaying, now>>

(* A new process loads the rows accessed last into an empty index.         *)
Reload ==
  /\ mishaps < MaxMishaps /\ mishaps' = mishaps + 1
  /\ LET q == NewestFirst(OnDisk)
         kept == SubSeq(q, 1, Min({IndexCap, Len(q)})) IN
       /\ heap' = [k \in DOMAIN kept |-> shelf[kept[k]]]
       /\ index' = [a \in Topics |-> IF \E k \in DOMAIN kept : kept[k] = a
                                     THEN CHOOSE k \in DOMAIN kept : kept[k] = a ELSE 0]
  /\ observingTopic' = {} /\ dream' = Drowsy /\ decaying' = <<>>
  /\ UNCHANGED <<awake, shelf, now, lostSaves>>

Dreaming == DreamOfRam \/ DreamOfDisk
AnchorNext ==
  \/ \E a \in Topics, next \in Topics \union {Nothing}, shape \in Shapes :
       next # a /\ ObserveBegins([id |-> a, next |-> next, shape |-> shape])
  \/ AnchorObserveEnds \/ Dreaming \/ Decays \/ TimePasses \/ Dissolves \/ Reload

-----------------------------------------------------------------------------
AnchorTypeOK ==
  /\ index \in [Topics -> 0..Len(heap)] /\ Cardinality(InRam) <= IndexCap
  /\ \A a \in InRam : heap[index[a]].id = a
  /\ \A n \in DOMAIN heap : heap[n].decay \in 0..Bedrock /\ heap[n].hits \in 0..ResurfaceAt
  /\ OnDisk = {a \in Topics : shelf[a] # Nothing /\ shelf[a].id = a}
  /\ awake \subseteq Topics /\ lostSaves \subseteq Topics /\ now \in 0..MaxNow

(* An anchor outlives its place in the index ("the anchor itself persists  *)
(* forever", anchor.py): every object of the heap, the evicted and the     *)
(* replaced included, has a row of its topic unless a save of it failed.   *)
AnchorsKept == \A n \in DOMAIN heap : heap[n].id \in OnDisk \union lostSaves

(* What the disk scan is for: a pending row that RAM can settle and that   *)
(* left RAM is settled in the end, whatever the offsets of its pages.      *)
RowsFindVerdicts ==
  \A a \in Topics :
    []<>(a \in InRam \/ a \notin Unsettled \/ Verdicts(shelf[a]) = {})
=============================================================================
