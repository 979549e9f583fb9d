------------------------------ MODULE Experience ------------------------------
(* What memory learns of a topic over time: the clusters of the experience *)
(* layer with their scores, emotions and vectors (memory/experience.py),   *)
(* as persist steps (observer/steps/persist_step.py), the dreamer and the  *)
(* decay of the consolidation worker change them in RAM and then save them,*)
(* as a restart loads them back, and the signals an agent gets of them.    *)
(* Scores are counted in halves.                                           *)
EXTENDS Integers, Sequences, FiniteSets, SequencesExt

CONSTANTS
  Tags, Steps,   \* topics; persist steps that may run at the same time
  Practised, Expert,  \* session counts above which a topic is at that level
  VecsCap,       \* evaluator_vecs_cap
  Losses,        \* what a decay takes off, depending on the time without use
  MaxRecords, MaxVectors, MaxSaveFaults  \* bounds

ASSUME ExperienceAssumption ==
  /\ IsFiniteSet(Tags) /\ IsFiniteSet(Steps)
  /\ Practised \in Nat /\ Expert \in Nat /\ Practised <= Expert
  /\ VecsCap \in Nat \ {0} /\ Losses \subseteq Nat \ {0}
  /\ {MaxRecords, MaxVectors, MaxSaveFaults} \subseteq Nat

VARIABLES
  cluster,   \* the clusters in RAM
  vecs,      \* their vectors: the time stamps of each charge, oldest entry first
  saved,     \* experience_metrics
  store,     \* experience_vectors
  step,      \* what each persist step has still to save
  dreaming,  \* process vector the dreamer has stored and not yet put in RAM
  toDecay,   \* decayed topics the consolidation worker has still to save
  stamps,    \* time stamps given out
  saveFaults,
  withered,  \* history: topics that decayed
  unsaved,   \* history: topics whose last save failed
  disordered \* history: vector lists with a failed insert, or not in order of time

expVars == <<cluster, vecs, saved, store, step, dreaming, toDecay, stamps, saveFaults, withered,
             unsaved, disordered>>
ramPart == <<cluster, vecs>>
histories == <<withered, unsaved, disordered>>

Charges == {"positive", "negative", "process"}
Rested == [vector |-> {}, rows |-> {}]
NewCluster == [n |-> 0, sum |-> 0, conflicts |-> 0, positive |-> 0, negative |-> 0,
               idle |-> FALSE]

ExpInit ==
  /\ cluster = [t \in Tags |-> NewCluster] /\ saved = cluster
  /\ vecs = [t \in Tags |-> [c \in Charges |-> <<>>]] /\ store = vecs
  /\ step = [k \in Steps |-> Rested] /\ dreaming = {} /\ toDecay = {} /\ stamps = {}
  /\ saveFaults = 0 /\ withered = {} /\ unsaved = {} /\ disordered = {}

-----------------------------------------------------------------------------
(* The index.                                                              *)

(* record and update_emotion.                                              *)
Recorded(c, continuation, conflict, emotion) ==
  [c EXCEPT !.n = @ + 1, !.idle = FALSE,
            !.sum = @ + (IF continuation THEN 5 ELSE 2) - (IF conflict THEN 3 ELSE 0),
            !.conflicts = @ + (IF conflict THEN 1 ELSE 0),
            !.positive = @ + (IF emotion = "positive" THEN 1 ELSE 0),
            !.negative = @ + (IF emotion = "negative" THEN 1 ELSE 0)]

(* The polarity matrix of the persist step.                                *)
Polarity(continuation, conflict, emotion) ==
  CASE emotion = "negative" \/ conflict -> {"negative"}
    [] ~conflict /\ emotion # "negative" /\ (emotion = "positive" \/ continuation) -> {"positive"}
    [] OTHER -> {}

(* record_vec: a list in order of arrival, the oldest entries dropped.     *)
Kept(list) == SubSeq(list, IF Len(list) > VecsCap THEN Len(list) - VecsCap + 1 ELSE 1, Len(list))

(* insert_experience_vector: of the rows, which were at most as many as    *)
(* the cap before, the one with the earliest time stamp is deleted.        *)
Earliest(list) == CHOOSE i \in DOMAIN list : \A j \in DOMAIN list : list[i] <= list[j]

(* Fault model: one row more than the cap stays.                           *)
LatestOneMore(list) == IF Len(list) > VecsCap + 1 THEN RemoveAt(list, Earliest(list)) ELSE list

Latest(list) == IF Len(list) > VecsCap THEN RemoveAt(list, Earliest(list)) ELSE list

Upset(t, c, list) ==
  IF \E i, j \in DOMAIN list : i < j /\ list[i] > list[j] THEN {<<t, c>>} ELSE {}

(* decay of a cluster nothing was recorded in for long.                    *)
Faded(sum, loss) ==
  LET floor == IF sum > 0 THEN -sum ELSE sum IN IF sum - loss > floor THEN sum - loss ELSE floor

Level(c) == IF c.n > Expert THEN "expert" ELSE IF c.n > Practised THEN "practitioner" ELSE "novice"

(* Fault model: a bad average is looked at before contradictions.          *)
IntuitionAvoidFirst(t) ==
  LET c == cluster[t] IN
  CASE Level(c) # "novice" /\ c.sum < 0 -> "AVOID_THIS"
    [] Level(c) # "novice" /\ c.sum >= 0 /\ 10 * c.conflicts > 3 * c.n -> "TENSION"
    [] OTHER -> "none"

(* intuition_signals; an average of 0.75 is the threshold.                 *)
Intuition(t) ==
  LET c == cluster[t]
      tense == Level(c) # "novice" /\ 10 * c.conflicts > 3 * c.n IN
  CASE tense -> "TENSION"
    [] ~tense /\ Level(c) = "expert" /\ 2 * c.sum >= 3 * c.n -> "DO_THIS"
    [] ~tense /\ Level(c) # "novice" /\ c.sum < 0 -> "AVOID_THIS"
    [] OTHER -> "none"

-----------------------------------------------------------------------------
(* A persist step changes the clusters at once, and saves its vector and   *)
(* then the row of each tag, whatever they are by then.                    *)

PersistLearns(k) ==
  /\ step[k] = Rested
  /\ \E t \in Tags, continuation, conflict \in BOOLEAN,
        emotion \in {"none", "positive", "negative"} :
       LET charge == Polarity(continuation, conflict, emotion) IN
       /\ cluster[t].n < MaxRecords
       /\ cluster' = [cluster EXCEPT ![t] = Recorded(@, continuation, conflict, emotion)]
       /\ IF charge = {}
          THEN /\ UNCHANGED <<vecs, stamps, disordered>>
               /\ step' = [step EXCEPT ![k] = [vector |-> {}, rows |-> {t}]]
          ELSE \E c \in charge, ts \in (1..MaxVectors) \ stamps :
                 /\ stamps' = stamps \union {ts}
                 /\ vecs' = [vecs EXCEPT ![t][c] = Kept(Append(@, ts))]
                 /\ disordered' = disordered \union Upset(t, c, Append(vecs[t][c], ts))
                 /\ step' = [step EXCEPT ![k] =
                               [vector |-> {[tag |-> t, charge |-> c, ts |-> ts]}, rows |-> {t}]]
  /\ UNCHANGED <<saved, store, dreaming, toDecay, saveFaults, withered, unsaved>>

Insert(v) ==
  LET list == Append(store[v.tag][v.charge], v.ts) IN
  \/ /\ store' = [store EXCEPT ![v.tag][v.charge] = Latest(list)] /\ UNCHANGED saveFaults
     /\ disordered' = disordered \union Upset(v.tag, v.charge, list)
  \/ /\ saveFaults < MaxSaveFaults /\ saveFaults' = saveFaults + 1 /\ UNCHANGED store
     /\ disordered' = disordered \union {<<v.tag, v.charge>>}

SaveVector(k) ==
  /\ \E v \in step[k].vector : Insert(v)
  /\ step' = [step EXCEPT ![k].vector = {}]
  /\ UNCHANGED <<ramPart, saved, dreaming, toDecay, stamps, withered, unsaved>>

UpsertExperience(t) ==
  \/ saved' = [saved EXCEPT ![t] = cluster[t]] /\ unsaved' = unsaved \ {t} /\ UNCHANGED saveFaults
  \/ /\ saveFaults < MaxSaveFaults /\ saveFaults' = saveFaults + 1
     /\ UNCHANGED saved /\ unsaved' = unsaved \union {t}

SaveRow(k) ==
  /\ step[k].vector = {}
  /\ \E t \in step[k].rows : UpsertExperience(t) /\ step' = [step EXCEPT ![k].rows = @ \ {t}]
  /\ UNCHANGED <<ramPart, store, dreaming, toDecay, stamps, withered, disordered>>

(* The dreamer stores the vector of a session's steps, and records it then;*)
(* the row is not saved.                                                   *)
DreamStores ==
  /\ dreaming = {}
  /\ \E t \in Tags, ts \in (1..MaxVectors) \ stamps :
       LET v == [tag |-> t, charge |-> "process", ts |-> ts] IN
       Insert(v) /\ dreaming' = {v} /\ stamps' = stamps \union {ts}
  /\ UNCHANGED <<ramPart, saved, step, toDecay, withered, unsaved>>

DreamRecords ==
  /\ \E v \in dreaming :
       /\ vecs' = [vecs EXCEPT ![v.tag]["process"] = Kept(Append(@, v.ts))]
       /\ cluster' = [cluster EXCEPT ![v.tag].idle = FALSE]
  /\ dreaming' = {}
  /\ UNCHANGED <<saved, store, step, toDecay, stamps, saveFaults, histories>>

(* apply_decay, and the saves of the consolidation worker.                 *)
Decay ==
  LET idle == {t \in Tags : cluster[t].idle} IN
  /\ toDecay = {} /\ idle # {} /\ toDecay' = idle /\ withered' = withered \union idle
  /\ \E loss \in Losses :
       cluster' = [t \in Tags |->
                     IF t \in idle
                     THEN [cluster[t] EXCEPT !.sum = Faded(@, loss), !.idle = FALSE]
                     ELSE cluster[t]]
  /\ UNCHANGED <<vecs, saved, store, step, dreaming, stamps, saveFaults, unsaved, disordered>>

SaveDecayed ==
  /\ \E t \in toDecay : UpsertExperience(t) /\ toDecay' = toDecay \ {t}
  /\ UNCHANGED <<ramPart, store, step, dreaming, stamps, withered, disordered>>

-----------------------------------------------------------------------------
(* Months without a session of the topic; nothing else runs that long.     *)
GrowsIdle ==
  /\ \A k \in Steps : step[k] = Rested
  /\ dreaming = {} /\ toDecay = {}
  /\ \E t \in Tags :
       /\ cluster[t].n > 0 /\ ~cluster[t].idle
       /\ cluster' = [cluster EXCEPT ![t].idle = TRUE]
       /\ saved' = [saved EXCEPT ![t].idle = (saved[t].n > 0)]
  /\ UNCHANGED <<vecs, store, step, dreaming, toDecay, stamps, saveFaults, histories>>

(* The daemon ends in whatever state and loads the tables.                 *)
RestartLoads ==
  /\ cluster' = saved /\ vecs' = store
  /\ step' = [k \in Steps |-> Rested] /\ dreaming' = {} /\ toDecay' = {}
  /\ unsaved' = {}
  /\ disordered' = UNION {UNION {Upset(t, c, store[t][c]) : c \in Charges} : t \in Tags}
  /\ UNCHANGED <<saved, store, stamps, saveFaults, withered>>

ExpNext ==
  \/ \E k \in Steps : PersistLearns(k) \/ SaveVector(k) \/ SaveRow(k)
  \/ DreamStores \/ DreamRecords \/ Decay \/ SaveDecayed \/ GrowsIdle \/ RestartLoads

-----------------------------------------------------------------------------
Counts == [n : 0..MaxRecords, sum : Int, conflicts : 0..MaxRecords, positive : 0..MaxRecords,
           negative : 0..MaxRecords, idle : BOOLEAN]

ExpTypeOK ==
  /\ cluster \in [Tags -> Counts] /\ saved \in [Tags -> Counts]
  /\ \A f \in {vecs, store} : \A t \in Tags, c \in Charges :
       Len(f[t][c]) <= VecsCap /\ ToSet(f[t][c]) \subseteq stamps
  /\ \A k \in Steps : step[k].rows \subseteq Tags /\ Cardinality(step[k].vector) <= 1
  /\ Cardinality(dreaming) <= 1 /\ stamps \subseteq 1..MaxVectors
  /\ {toDecay, withered, unsaved} \subseteq SUBSET Tags
  /\ saveFaults \in 0..MaxSaveFaults /\ disordered \subseteq Tags \X Charges

SavingRow(t) == t \in toDecay \/ \E k \in Steps : t \in step[k].rows
SavingVector(t, c) ==
  \E v \in dreaming \union UNION {step[k].vector : k \in Steps} : v.tag = t /\ v.charge = c

(* A topic is called one to avoid only once the forgetting curve has been  *)
(* at it, never for what was recorded: contradictions are reported first.  *)
(* What a restart would load is what RAM holds, but for what is being      *)
(* saved, failed to be saved or reached the two in a different order.      *)
ExperienceSound ==
  /\ \A t \in Tags : Intuition(t) = "AVOID_THIS" => t \in withered
  /\ \A t \in Tags : SavingRow(t) \/ t \in unsaved
                       \/ [saved[t] EXCEPT !.idle = cluster[t].idle] = cluster[t]
  /\ \A t \in Tags, c \in Charges :
       SavingVector(t, c) \/ <<t, c>> \in disordered \/ vecs[t][c] = store[t][c]
=============================================================================
