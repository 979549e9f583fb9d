---------------------------- MODULE FlushTimer ----------------------------
(***************************************************************************)
(* DatabaseManager._worker against the clock: how old can a queued write   *)
(* become before the worker's own timer flushes it?  Time is counted in    *)
(* seconds; the event loop is prompt (an item is taken, and a timeout      *)
(* fires, at the instant it is due) and time spent inside SQLite is not    *)
(* counted, so the ages found here are those of the timer alone.           *)
(***************************************************************************)
EXTENDS Integers

CONSTANTS
  Interval,   (* config.async_flush_interval_sec                           *)
  MaxTime     (* bound: seconds in a behaviour                             *)

ASSUME IntervalAssumption == Interval \in Nat \ {0}
ASSUME MaxTimeAssumption == MaxTime \in Nat

VARIABLES
  clock,      (* time.time()                                               *)
  lastFlush,  (* last_flush                                                *)
  waiting,    (* when the current wait_for(queue.get()) began              *)
  heldSince   (* when each write in the worker's batch was queued          *)

timerVars == <<clock, lastFlush, waiting, heldSince>>

TimerInit == clock = 0 /\ lastFlush = 0 /\ waiting = 0 /\ heldSince = {}

(* should_flush, when it is decided by the clock.                          *)
Due == clock - lastFlush >= Interval

FlushHeld == lastFlush' = clock /\ heldSince' = {}

(* Fault model: every item restarts the flush interval.                    *)
TakeRestartsInterval ==
  /\ waiting' = clock /\ lastFlush' = clock
  /\ heldSince' \in {{}, heldSince \union {clock}}
  /\ UNCHANGED clock

(* A write arrives and is taken.  A full batch is flushed whatever the     *)
(* time; otherwise the clock decides.                                      *)
TakeWrite ==
  /\ waiting' = clock
  /\ \/ FlushHeld
     \/ ~Due /\ heldSince' = heldSince \union {clock} /\ UNCHANGED lastFlush
  /\ UNCHANGED clock

(* wait_for gives up after a whole interval without an item.               *)
TimerTimeout ==
  /\ clock - waiting = Interval
  /\ waiting' = clock
  /\ IF heldSince # {} /\ Due THEN FlushHeld ELSE UNCHANGED <<lastFlush, heldSince>>
  /\ UNCHANGED clock

TimerTick ==
  /\ clock < MaxTime /\ clock - waiting < Interval
  /\ clock' = clock + 1
  /\ UNCHANGED <<lastFlush, waiting, heldSince>>

TimerNext == TakeWrite \/ TimerTimeout \/ TimerTick

TimerSpec == TimerInit /\ [][TimerNext]_timerVars

-----------------------------------------------------------------------------
TimerTypeOK ==
  /\ clock \in Nat /\ lastFlush \in Nat /\ waiting \in Nat
  /\ heldSince \in SUBSET Nat

(* What the timer guarantees: a write waits less than two intervals.  The  *)
(* wait for the next item restarts with every item, so one that came just  *)
(* before an interval is over starts a wait of a full interval more.       *)
LossWindow == \A t \in heldSince : clock - t < 2 * Interval

(* The invariant behind it: everything held came after the last flush, and *)
(* the current wait began while that flush was not yet an interval old.    *)
TimerInv ==
  /\ TimerTypeOK
  /\ lastFlush <= waiting /\ waiting <= clock /\ clock - waiting <= Interval
  /\ \A t \in heldSince : lastFlush <= t /\ t <= clock
  /\ heldSince # {} => waiting - lastFlush < Interval
=============================================================================
