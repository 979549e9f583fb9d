---------------------------- MODULE MCSessionIndex ----------------------------
(* Root of the runs of SessionIndex.  Sessions are not interchangeable     *)
(* (Idle names one), so no symmetry.                                       *)
EXTENDS SessionIndex
=============================================================================
