-------------------------------- MODULE Ranking --------------------------------
(* Which sessions stay within reach: what keeps them in RAM (Retention)    *)
(* and the weights their scores are configured with (Recalibration).       *)
EXTENDS Retention, Recalibration

(* What is ranked is ranked as the rules say: facts that contradict each   *)
(* other are kept for the user, and the weights stay within their bounds.  *)
RankingSound == ContestedStay /\ WeightsSound
=============================================================================
