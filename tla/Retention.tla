------------------------------ MODULE Retention ------------------------------
(* How long a session stays in RAM, and what decides it: the conflict      *)
(* check of a new session (tuner/conflict.py), which flags the session it  *)
(* contradicts as well, the deadlines that the consolidation worker        *)
(* declares expired (memory/consolidation.py), and the dissolver           *)
(* (memory/dissolver.py), which must spare both, among the sessions that   *)
(* are observed again or loaded from their rows.  Queued writes reach      *)
(* their rows at once here; StorePipe has the delay.                       *)
EXTENDS Integers, FiniteSets

CONSTANTS
  Entries,       \* session ids
  Importances,   \* those that are observed
  Contradicts,   \* pairs of them on one subject with different conclusions
  Horizon,       \* age at which recency is zero
  MaxClock, MaxRenewals, MaxReloads  \* bounds

ASSUME RetentionAssumption ==
  /\ Importances \subseteq {"principle", "critical", "important", "background"}
  /\ IsFiniteSet(Entries) /\ Contradicts \subseteq Entries \X Entries
  /\ Horizon \in Nat /\ {MaxClock, MaxRenewals, MaxReloads} \subseteq Nat

VARIABLES
  held,      \* ram_index: the brief of each session in RAM, or Absent
  coming,    \* briefs of persist steps that have not yet put them in RAM
  known,     \* sessions with a vector in the index
  entryRows, \* their rows
  visiting,  \* of the consolidation: what it has captured of each session
  former,    \* captured objects that are no longer the ones in RAM
  clock,     \* ticks of more than conflict_min_age_sec
  renewals, reloads,
  raised,    \* history: sessions flagged, and not observed again since
  sealed     \* history: those of them that a consolidation has saved last

retentionVars == <<held, coming, known, entryRows, visiting, former, clock, renewals, reloads,
                   raised, sealed>>
worker == <<visiting, former>>
spent == <<renewals, reloads>>
marks == <<raised, sealed>>

Absent == [importance |-> "none"]
Weighty == {"critical", "important"}
Worth(importance) ==
  CASE importance = "principle" -> 10 [] importance = "critical" -> 9
    [] importance = "important" -> 6 [] OTHER -> 3

HeldInRam == {s \in Entries : held[s] # Absent}
NotDue == 0

RetentionInit ==
  /\ held = [s \in Entries |-> Absent] /\ coming = held /\ entryRows = held /\ former = held
  /\ known = {} /\ visiting = [s \in Entries |-> "no"] /\ clock = 1
  /\ renewals = 0 /\ reloads = 0 /\ raised = {} /\ sealed = {}

-----------------------------------------------------------------------------
(* An object that leaves RAM while the consolidation holds it.             *)
Orphaned(S) ==
  /\ visiting' = [s \in Entries |-> IF s \in S /\ visiting[s] = "held" THEN "former"
                                                                       ELSE visiting[s]]
  /\ former' = [s \in Entries |-> IF s \in S /\ visiting[s] = "held" THEN held[s] ELSE former[s]]

(* check_conflict: sessions with a vector and in RAM, on the same subject  *)
(* and as weighty, not of the same dialog, that conclude differently.      *)
Against(s, b) ==
  {n \in (known \intersect HeldInRam) \ {s} :
     /\ <<s, n>> \in Contradicts
     /\ {b.importance, held[n].importance} \subseteq Weighty
     /\ b.created # held[n].created}

(* Fault model: only the new session is flagged.                           *)
FlagNewOnly(S) == UNCHANGED held /\ raised' = raised \union S

Flag(S) ==
  /\ held' = [n \in Entries |-> IF n \in S THEN [held[n] EXCEPT !.flag = TRUE] ELSE held[n]]
  /\ raised' = raised \union S

(* A persist step makes a new brief, without flag, whatever the session's  *)
(* old one had; it is checked and indexed before it is in RAM.             *)
PersistBegins(s) ==
  /\ coming[s] = Absent
  /\ IF entryRows[s] = Absent THEN UNCHANGED renewals
     ELSE renewals < MaxRenewals /\ renewals' = renewals + 1
  /\ \E importance \in Importances,
        deadline \in {NotDue, clock + 1} :
       LET b == [importance |-> importance, deadline |-> deadline, expired |-> FALSE,
                 flag |-> FALSE, created |-> clock]
           against == Against(s, b) IN
       /\ Flag(against)
       /\ coming' = [coming EXCEPT ![s] = [b EXCEPT !.flag = (against # {})]]
  /\ known' = known \union {s}
  /\ UNCHANGED <<entryRows, worker, clock, reloads, sealed>>

PersistEnds(s) ==
  LET b == coming[s] IN
  /\ b # Absent /\ coming' = [coming EXCEPT ![s] = Absent]
  /\ held' = [held EXCEPT ![s] = b] /\ Orphaned({s})
  /\ entryRows' = [entryRows EXCEPT ![s] = b]
  /\ raised' = IF b.flag THEN raised \union {s} ELSE raised \ {s}
  /\ sealed' = IF b.flag /\ visiting[s] = "no" THEN sealed \union {s} ELSE sealed \ {s}
  /\ UNCHANGED <<known, clock, spent>>

-----------------------------------------------------------------------------
(* consolidate: every session of RAM at its start is looked at and saved.  *)

ConsolidationBegins ==
  /\ \A s \in Entries : visiting[s] = "no"
  /\ HeldInRam # {} /\ visiting' = [s \in Entries |-> IF s \in HeldInRam THEN "held" ELSE "no"]
  /\ UNCHANGED <<held, coming, known, entryRows, former, clock, spent, marks>>

Object(s) == IF visiting[s] = "held" THEN held[s] ELSE former[s]

Aged(b) == IF b.deadline # NotDue /\ b.deadline < clock THEN [b EXCEPT !.expired = TRUE] ELSE b

(* The loop waits only after a session whose deadline has expired, for the *)
(* flush of its row.                                                       *)
ConsolidateOn ==
  LET todo == {s \in Entries : visiting[s] # "no"} IN
  /\ todo # {}
  /\ \E S \in SUBSET todo :
       LET late == {s \in S : Aged(Object(s)).expired} IN
       /\ Cardinality(late) <= 1 /\ (late = {} => S = todo) /\ S # {}
       /\ held' = [s \in Entries |-> IF s \in S /\ visiting[s] = "held" THEN Aged(held[s])
                                                                        ELSE held[s]]
       /\ entryRows' = [s \in Entries |-> IF s \in S THEN Aged(Object(s)) ELSE entryRows[s]]
       /\ visiting' = [s \in Entries |-> IF s \in S THEN "no" ELSE visiting[s]]
       /\ former' = [s \in Entries |-> IF s \in S THEN Absent ELSE former[s]]
       /\ sealed' = (sealed \ {s \in S : visiting[s] = "former"})
                      \union {s \in S : visiting[s] = "held" /\ held[s].flag}
  /\ UNCHANGED <<coming, known, clock, spent, raised>>

-----------------------------------------------------------------------------
(* evict_n_oldest, after its flush.                                        *)

(* tight: RAM is above nine tenths of the hard limit.                       *)
CanEvict(b, tight) ==
  /\ b.importance # "principle"
  /\ ~(b.deadline # NotDue /\ ~b.expired /\ b.deadline > clock)
  /\ ~b.flag
  /\ b.importance = "critical" => tight

Priority(b) ==
  Worth(b.importance) * (IF clock - b.created < Horizon THEN Horizon - (clock - b.created) ELSE 0)

Dissolve ==
  /\ \E tight \in BOOLEAN :
     LET evictable == {s \in HeldInRam : CanEvict(held[s], tight)} IN
     \E S \in SUBSET evictable :
       /\ S # {} /\ \A s \in S, t \in evictable \ S : Priority(held[s]) <= Priority(held[t])
       /\ held' = [s \in Entries |-> IF s \in S THEN Absent ELSE held[s]] /\ Orphaned(S)
       /\ known' = HeldInRam \ S
  /\ UNCHANGED <<coming, entryRows, clock, spent, marks>>

-----------------------------------------------------------------------------
(* ctx_load and ctx_get: the row becomes the brief in RAM, though another  *)
(* may be there by now.                                                    *)
LoadsRow(s) ==
  /\ reloads < MaxReloads /\ reloads' = reloads + 1
  /\ entryRows[s] # Absent /\ held' = [held EXCEPT ![s] = entryRows[s]] /\ Orphaned({s})
  /\ raised' = raised \ ({s} \ sealed)
  /\ UNCHANGED <<coming, known, entryRows, clock, renewals, sealed>>

(* The daemon ends, and hydrates from some of the rows.                    *)
RestartHydrates ==
  /\ reloads < MaxReloads /\ reloads' = reloads + 1
  /\ \E S \in SUBSET {s \in Entries : entryRows[s] # Absent} :
       /\ held' = [s \in Entries |-> IF s \in S THEN entryRows[s] ELSE Absent]
       /\ known' = S /\ raised' = raised \intersect sealed \intersect S
  /\ coming' = [s \in Entries |-> Absent] /\ former' = coming'
  /\ visiting' = [s \in Entries |-> "no"]
  /\ UNCHANGED <<entryRows, clock, renewals, sealed>>

TimePassesBy ==
  /\ clock < MaxClock /\ clock' = clock + 1 
  /\ UNCHANGED <<held, coming, known, entryRows, worker, spent, marks>>
RetentionNext ==
  \/ \E s \in Entries : PersistBegins(s) \/ PersistEnds(s) \/ LoadsRow(s)
  \/ ConsolidationBegins \/ ConsolidateOn \/ Dissolve \/ RestartHydrates
  \/ TimePassesBy

-----------------------------------------------------------------------------
RetentionBriefs ==
  [importance : Importances, deadline : 0..MaxClock + 1,
   expired : BOOLEAN, flag : BOOLEAN, created : 1..MaxClock]

RetentionTypeOK ==
  /\ \A f \in {held, coming, entryRows, former} : f \in [Entries -> RetentionBriefs \union {Absent}]
  /\ known \subseteq Entries /\ visiting \in [Entries -> {"no", "held", "former"}]
  /\ clock \in 1..MaxClock
  /\ renewals \in 0..MaxRenewals /\ reloads \in 0..MaxReloads /\ raised \union sealed \subseteq Entries

(* Both sides of a contradiction that was found stay in RAM, flagged, until *)
(* the session is observed again, or loaded from a row written before; and *)
(* once a consolidation has saved the flag, loads and restarts keep it.    *)
(* Every session in RAM has its row.                                       *)
ContestedStay ==
  /\ \A s \in raised : s \in HeldInRam /\ held[s].flag
  /\ \A s \in sealed : entryRows[s] # Absent /\ entryRows[s].flag
  /\ \A s \in HeldInRam : entryRows[s] # Absent
=============================================================================
