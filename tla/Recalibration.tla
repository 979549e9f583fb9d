----------------------------- MODULE Recalibration -----------------------------
(* The weights of the score formula under the auto-recalibrator            *)
(* (feedback/recalibrator.py), which the consolidation worker runs once a  *)
(* day: a nudge, a clamp of each weight, and a division by their sum.      *)
(* Weights are counted in ten-thousandths.  calculate_score does not read  *)
(* them: its profiles have weights of their own.                           *)
EXTENDS Integers, FiniteSets

CONSTANTS
  Rate,           \* _LEARNING_RATE
  Floor, Ceiling, \* _WEIGHT_MIN, _WEIGHT_MAX
  MinSessions,    \* sessions that a correlation takes
  Windows,        \* numbers of sessions in RAM
  MaxCycles       \* bound

(* No weight starts below the floor, a ceiling over two floors fits into   *)
(* the whole, and the step is more than what rounding takes: see           *)
(* _LEARNING_RATE, _WEIGHT_MIN and _WEIGHT_MAX.                            *)
ASSUME RecalibrationAssumption ==
  /\ Rate \in Nat /\ Rate >= 3
  /\ Floor \in 1..2000 /\ Ceiling \in Nat
  /\ 2 * Floor <= Ceiling /\ Ceiling + 2 * Floor <= 10000
  /\ MinSessions \in Nat /\ Windows \subseteq Nat /\ MaxCycles \in Nat

VARIABLES
  weights,  \* relevance, temporal, importance: what the configuration has now
  cycles    \* runs of the recalibrator, one every recalibrate_every_hours

calibrationVars == <<weights, cycles>>

CalibrationInit ==
  weights = [alpha |-> 5000, beta |-> 3000, gamma |-> 2000] /\ cycles = 0

Clip(w) == IF w < Floor THEN Floor ELSE IF w > Ceiling THEN Ceiling ELSE w

(* Fault model: weights are not clamped before they are divided.           *)
ProjectUnclamped(w) ==
  LET total == w.alpha + w.beta + w.gamma IN [k \in DOMAIN w |-> (w[k] * 10000) \div total]

(* _project_weights.                                                       *)
Project(w) ==
  LET c == [k \in DOMAIN w |-> Clip(w[k])]
      total == c.alpha + c.beta + c.gamma IN
  [k \in DOMAIN w |-> (c[k] * 10000) \div total]

Nudged(w, direction) ==
  [w EXCEPT !.alpha = @ + direction * Rate, !.beta = @ - direction * (Rate \div 2),
            !.gamma = @ - direction * (Rate \div 2)]

(* Sign of a correlation that is above the threshold, which is positive:   *)
(* the branch for an anti-correlated formula cannot be taken.              *)
Direction(r) == IF r > 0 THEN 1 ELSE -1

(* A correlation, in tenths, against the threshold of 0.4; zero if it has  *)
(* too few sessions or no variance.                                        *)
RunRecalibration ==
  /\ cycles < MaxCycles /\ cycles' = cycles + 1
  /\ \E n \in Windows, r \in {-9, 0, 5} :
       weights' = IF n >= MinSessions /\ r > 4 THEN Project(Nudged(weights, Direction(r)))
                                               ELSE weights

CalibrationNext == RunRecalibration

-----------------------------------------------------------------------------
CalibrationTypeOK ==
  /\ weights \in [{"alpha", "beta", "gamma"} -> Int] /\ cycles \in 0..MaxCycles

(* However often it runs, the weights stay a division of one, but for what *)
(* rounding takes, and no dimension is lost: each keeps the floor, less    *)
(* what the division by a clamped sum takes, and none takes more than the  *)
(* ceiling over what the floors leave, which is above the ceiling itself.  *)
WeightsSound ==
  LET total == weights.alpha + weights.beta + weights.gamma IN
  /\ 9997 <= total /\ total <= 10000
  /\ \A k \in DOMAIN weights :
       /\ (weights[k] + 1) * (10000 + Rate) >= Floor * 10000
       /\ weights[k] * (Ceiling + 2 * Floor) <= Ceiling * 10000
=============================================================================
