------------------------------- MODULE Signals --------------------------------
(* What the agent is told without asking: warnings about load-bearing      *)
(* anchors and open loops (subconscious/guardian.py), found by keywords in *)
(* the last message when the agent calls ctx_active (tools/read.py) and by *)
(* similarity in the observer's pipeline (observer/pipeline.py), which     *)
(* leaves them in queues for the next call.  An anchor that was found      *)
(* keeps silent for a cooldown.                                            *)
EXTENDS Naturals, FiniteSets, Sequences, SequencesExt, FiniteSetsExt

CONSTANTS
  Warners,   \* anchors of a type the guardian guards
  Decisions, \* those of type decision, the only ones that are open loops
  Configs,   \* the configurations: which of "guard", "surface", "loop" are enabled
  HitsCap,   \* 3 keyword hits returned
  LoopsCap   \* open_loop.max_results

ASSUME SignalsAssumption ==
  /\ IsFiniteSet(Warners) /\ Decisions \subseteq Warners
  /\ Configs \subseteq SUBSET {"guard", "surface", "loop"}
  /\ {HitsCap, LoopsCap} \subseteq Nat \ {0}

VARIABLES
  enabled,  \* the configuration
  lastText, \* anchors a word of whose brief is in last_message_text
  open,     \* decisions whose outcome is pending
  faded,    \* decisions with decay_level > 0
  cooling,  \* recently_warned and recently_looped: anchors in their cooldown
  queued,   \* conflict_warnings and open_loops_queue
  astray,   \* open loops in surfaced_queue
  told,     \* reports of an anchor since its cooldown began
  cutOff       \* anchors found and not reported: above a cap, or dropped

signalVars == <<enabled, lastText, open, faded, cooling, queued, astray, told, cutOff>>
anchorsSay == <<enabled, open, faded>>
Topic == {"warn", "loop"}

SignalInit ==
  /\ enabled \in Configs /\ lastText = {} /\ open = Decisions /\ faded = {} /\ astray = {}
  /\ cooling = [t \in Topic |-> {}] /\ queued = [t \in Topic |-> {}]
  /\ told = [t \in Topic |-> [a \in Warners |-> 0]] /\ cutOff = [t \in Topic |-> {}]

(* The k best of a set, whichever they are.                                *)
Best(S, k) == {T \in SUBSET S : Cardinality(T) = Min({k, Cardinality(S)})}

(* A cooldown that begins starts the count of reports anew.                *)
Stamped(t, S) == [a \in Warners |-> IF a \in S \ cooling[t] THEN 0 ELSE told[t][a]]
Reported(counts, S) == [a \in Warners |-> IF a \in S THEN counts[a] + 1 ELSE counts[a]]

-----------------------------------------------------------------------------
(* observe_user keeps the newest message only.                             *)
UserSpeaks ==
  /\ lastText' \in SUBSET Warners /\ lastText' # lastText
  /\ UNCHANGED <<anchorsSay, cooling, queued, astray, told, cutOff>>

(* anchor_guardian stamps all it finds; scan_open_loops what it returns.   *)
Near(near) == (near \ faded) \ cooling["warn"]
Loops(near) == (near \intersect open) \ cooling["loop"]

(* The scans that are enabled run in this order, and the pipeline takes    *)
(* the results by their position.                                          *)
LoopPosition == Cardinality(enabled)
Arrives(queue, position) == {"loop", queue} \subseteq enabled /\ LoopPosition = position

Scan(near) ==
  \E warns \in {IF "guard" \in enabled THEN Near(near) ELSE {}},
     loops \in IF "loop" \in enabled THEN Best(Loops(near), LoopsCap) ELSE {{}} :
    /\ cooling' = [cooling EXCEPT !["warn"] = @ \union warns, !["loop"] = @ \union loops]
    /\ told' = [t \in Topic |-> Stamped(t, IF t = "warn" THEN warns ELSE loops)]
    /\ LET home == Arrives("loop", 3) IN
       /\ queued' = [queued EXCEPT !["warn"] = @ \union warns,
                                   !["loop"] = @ \union (IF home THEN loops ELSE {})]
       /\ astray' = astray \union (IF Arrives("surface", 2) THEN loops ELSE {})
       /\ cutOff' = [cutOff EXCEPT !["warn"] = @ \ warns,
                             !["loop"] = (@ \ loops) \union (IF home THEN {} ELSE loops)]
    /\ UNCHANGED <<anchorsSay, lastText>>

(* The keyword checks stamp every hit and return the first few.  Fault     *)
(* model: those of the first layer do not look at the cooldown.            *)
KeywordWarningsAll == IF "guard" \in enabled THEN lastText ELSE {}

KeywordWarnings == IF "guard" \in enabled THEN lastText \ cooling["warn"] ELSE {}
KeywordLoops == IF "loop" \in enabled THEN (lastText \intersect open) \ cooling["loop"] ELSE {}

(* ctx_active: keyword hits and queued findings, merged by anchor.  A loop *)
(* that strayed into surfaced_queue has no "id", and the call raises when  *)
(* it has emptied the first two queues.                                    *)
CtxActive ==
  /\ astray = {}
  /\ \E kw \in Best(KeywordWarnings, HitsCap), kl \in Best(KeywordLoops, HitsCap) :
     \E loops \in Best(queued["loop"] \union kl, LoopsCap) :
       LET warns == queued["warn"] \union kw
           said(t) == IF t = "warn" THEN warns ELSE loops
           hits(t) == IF t = "warn" THEN KeywordWarnings ELSE KeywordLoops IN
       /\ told' = [t \in Topic |-> Reported(Stamped(t, hits(t)), said(t))]
       /\ cutOff' = [t \in Topic |-> (cutOff[t] \union hits(t) \union queued[t]) \ said(t)]
       /\ cooling' = [t \in Topic |-> cooling[t] \union hits(t)]
  /\ queued' = [t \in Topic |-> {}] /\ lastText' = {} /\ UNCHANGED <<anchorsSay, astray>>

CtxActiveRaises ==
  /\ astray # {} /\ "surface" \in enabled
  /\ told' = [told EXCEPT !["warn"] = Stamped("warn", KeywordWarnings)]
  /\ cutOff' = [cutOff EXCEPT !["warn"] = @ \union KeywordWarnings \union queued["warn"]]
  /\ cooling' = [cooling EXCEPT !["warn"] = @ \union KeywordWarnings]
  /\ queued' = [queued EXCEPT !["warn"] = {}] /\ astray' = {}
  /\ UNCHANGED <<anchorsSay, lastText>>

-----------------------------------------------------------------------------
CooldownEnds ==
  /\ \E t \in Topic : \E a \in cooling[t] :
       /\ cooling' = [cooling EXCEPT ![t] = @ \ {a}] /\ cutOff' = [cutOff EXCEPT ![t] = @ \ {a}]
       /\ told' = [told EXCEPT ![t][a] = 0]
  /\ UNCHANGED <<anchorsSay, lastText, queued, astray>>

(* The dreamer settles an outcome; the consolidation worker lets one fade. *)
AnchorChanges ==
  /\ \E a \in Decisions : \/ a \in open /\ open' = open \ {a} /\ UNCHANGED faded
                          \/ a \notin faded /\ faded' = faded \union {a} /\ UNCHANGED open
  /\ UNCHANGED <<enabled, lastText, cooling, queued, astray, told, cutOff>>

SignalNext ==
  \/ UserSpeaks \/ \E near \in SUBSET Warners : Scan(near)
  \/ CtxActive \/ CtxActiveRaises \/ CooldownEnds \/ AnchorChanges

-----------------------------------------------------------------------------
SignalTypeOK ==
  /\ enabled \in Configs /\ lastText \subseteq Warners /\ astray \subseteq Decisions
  /\ open \subseteq Decisions /\ faded \subseteq Decisions
  /\ \A t \in Topic : cooling[t] \union queued[t] \union cutOff[t] \subseteq Warners

(* Layers, queues and cooldowns agree: an anchor is reported once at most  *)
(* in a cooldown, and one that keeps silent was reported, waits in a queue *)
(* or was found beyond a cap.                                              *)
SilenceEarned ==
  \A t \in Topic, a \in Warners :
    a \in cooling[t] => /\ told[t][a] <= 1
                        /\ told[t][a] = 1 \/ a \in queued[t] \union cutOff[t]
=============================================================================
