---------------------------- MODULE MCStorePipe ----------------------------
(* StorePipe on small sets of sessions and callers.  Sessions and callers  *)
(* are interchangeable: no definition tells two of them apart.             *)
EXTENDS StorePipe, TLC

Symmetry == Permutations(Sessions) \union Permutations(Flushers)
=============================================================================
