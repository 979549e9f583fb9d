---------------------------- MODULE WriteBehind ----------------------------
(***************************************************************************)
(* What the memory store promises of its queued writes ("path 1" of        *)
(* PersistenceLayer), without queue, worker or transaction: a write is     *)
(* accepted, later becomes durable together with others in one atomic      *)
(* step or is logged as failed, and a restart forgets what is not durable. *)
(***************************************************************************)
EXTENDS Integers

CONSTANTS Sessions, Versions

VARIABLES
  accepted,   (* writes accepted in this process life, and durable ones    *)
  durable,    (* writes a commit has covered                               *)
  failed,     (* writes reported as failed at least once                   *)
  row         (* the object each session's row holds, 0 if there is none   *)

Writes == [sid : Sessions, ver : Versions]

Init ==
  /\ accepted = {} /\ durable = {} /\ failed = {}
  /\ row = [s \in Sessions |-> 0]

Accept ==
  /\ \E w \in Writes : accepted' = accepted \union {w}
  /\ UNCHANGED <<durable, failed, row>>

(* The objects that the writes W carry for session s.                      *)
Objects(W, s) == {w.ver : w \in {x \in W : x.sid = s}}

Persist ==
  \E W \in SUBSET accepted :
    /\ durable' = durable \union W
    /\ row' \in [Sessions -> {0} \union Versions]
    /\ \A s \in Sessions :
         IF Objects(W, s) = {} THEN row'[s] = row[s] ELSE row'[s] \in Objects(W, s)
    /\ UNCHANGED <<accepted, failed>>

Fail ==
  /\ \E W \in SUBSET accepted : failed' = failed \union W
  /\ UNCHANGED <<accepted, durable, row>>

Forget == accepted' = durable /\ UNCHANGED <<durable, failed, row>>

Next == Accept \/ Persist \/ Fail \/ Forget

Spec == Init /\ [][Next]_<<accepted, durable, failed, row>>
=============================================================================
