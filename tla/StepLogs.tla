------------------------------- MODULE StepLogs -------------------------------
(* The log of steps of every session: collected by the persist step of the *)
(* observer (observer/steps/persist_step.py), written in the background    *)
(* every few steps, closed by the dreamer when a session is quiet          *)
(* (subconscious/dreamer.py), flushed by Conductor.stop, kept in the table *)
(* session_steps (storage/sqlite.py).                                      *)
(*                                                                         *)
(* A step is the number under which it was made; its index is the counter  *)
(* of its session, which a restart and the dreamer set back to nothing.    *)
EXTENDS Integers, FiniteSets, Sequences, SequencesExt

CONSTANTS
  Sessions,
  FlushEvery,   \* process_vec_step_flush_every_n
  SessionsCap,  \* step_log_sessions_cap
  MaxSteps,     \* bound: steps made
  MaxStepFaults \* bound: inserts that fail

ASSUME StepLogsAssumption ==
  /\ IsFiniteSet(Sessions) /\ MaxStepFaults \in Nat
  /\ {FlushEvery, SessionsCap, MaxSteps} \subseteq Nat \ {0}

VARIABLES
  made,       \* session of every step made, by number
  counter,    \* step_counters; 0 for a session that has none
  ram,        \* step_logs of the sessions that have a counter
  tasks,      \* batches on their way to insert_session_steps
  rows,       \* session_steps: the step stored for a session and an index, 0 for none
  processed,  \* rows with processed = 1
  excused,    \* steps lost to an error, an index already used, a restart or a late step
  quiet,      \* sessions without a step for closure_idle_sec
  dreamPass,      \* step of the dreamer: [at, todo, done, steps]
  stepFaults

stepVars == <<made, counter, ram, tasks, rows, processed, excused, quiet, dreamPass, stepFaults>>
table == <<rows, processed>>

Steps == 1..Len(made)
Entry(s, i, n) == [session |-> s, index |-> i, step |-> n]
NumberOf(batch) == {batch[k].step : k \in DOMAIN batch}
Held == {s \in Sessions : counter[s] > 0}
Sleeping == [at |-> "asleep", todo |-> {}, done |-> {}, keys |-> {}]
AllIn(bs) == UNION {NumberOf(b) : b \in bs}
Stored == {rows[s][i] : s \in Sessions, i \in 1..MaxSteps} \ {0}

StepInit ==
  /\ made = <<>> /\ counter = [s \in Sessions |-> 0] /\ ram = [s \in Sessions |-> <<>>]
  /\ tasks = {} /\ rows = [s \in Sessions |-> [i \in 1..MaxSteps |-> 0]]
  /\ processed = [s \in Sessions |-> {}] /\ excused = {} /\ quiet = {}
  /\ dreamPass = Sleeping /\ stepFaults = 0

(* At the cap of sessions the one that wrote last longest ago is dropped,  *)
(* its steps handed to a task; one whose list is empty goes first.         *)
Oldest == {s \in Held : IF \E e \in Held : ram[e] = <<>> THEN ram[s] = <<>>
                        ELSE \A e \in Held : Last(ram[s]).step <= Last(ram[e]).step}

(* Fault model: the task is given the list itself, which is then cleared.  *)
BatchAliased(list) == {}

Batch(list) == {list}

AddStep(s) ==
  LET n == Len(made) + 1
      full == counter[s] = 0 /\ Cardinality(Held) >= SessionsCap IN
  /\ n <= MaxSteps
  /\ \E o \in IF full THEN Oldest ELSE {s} :
       LET dropped == IF full /\ ram[o] # <<>> THEN Batch(ram[o]) ELSE {}
           i == counter[s] + 1
           list == Append(ram[s], Entry(s, i, n))
           flushed == i % FlushEvery = 0
           kept == [ram EXCEPT ![s] = IF flushed THEN <<>> ELSE list] IN
       /\ counter' = [[counter EXCEPT ![s] = i] EXCEPT ![o] = IF o = s THEN i ELSE 0]
       /\ ram' = IF o = s THEN kept ELSE [kept EXCEPT ![o] = <<>>]
       /\ tasks' = tasks \union dropped \union (IF flushed THEN Batch(list) ELSE {})
  /\ made' = Append(made, s) /\ quiet' = quiet \ {s}
  /\ UNCHANGED <<rows, processed, excused, dreamPass, stepFaults>>

(* INSERT OR IGNORE: a row that has the index already stays as it is.      *)
Insert(entries) ==
  LET taken(e) == rows[e.session][e.index] # 0
      new == {e \in entries : ~taken(e)} IN
  /\ rows' = [s \in Sessions |-> [i \in 1..MaxSteps |->
                IF \E e \in new : e.session = s /\ e.index = i
                THEN (CHOOSE e \in new : e.session = s /\ e.index = i).step ELSE rows[s][i]]]
  /\ excused' = excused \union ({e.step : e \in entries \ new} \ Stored)
  /\ UNCHANGED <<processed, stepFaults>>

(* insert_session_steps reports an error to the log only.                  *)
InsertFails(entries) ==
  /\ stepFaults < MaxStepFaults /\ stepFaults' = stepFaults + 1
  /\ excused' = excused \union ({e.step : e \in entries} \ Stored) /\ UNCHANGED table

TaskRuns ==
  \E b \in tasks :
    /\ tasks' = tasks \ {b} /\ (Insert(ToSet(b)) \/ InsertFails(ToSet(b)))
    /\ UNCHANGED <<made, counter, ram, quiet, dreamPass>>

(* Time passes without a step: every session is quiet and is_idle holds.   *)
Lull ==
  /\ quiet # Sessions /\ quiet' = Sessions
  /\ UNCHANGED <<made, counter, ram, tasks, table, excused, dreamPass, stepFaults>>

-----------------------------------------------------------------------------
(* _restore_step_logs, at the first idle tick: unprocessed sessions of the *)
(* table get their vector and are marked.                                  *)
RestoreTick ==
  LET open == {s \in quiet : \E i \in 1..MaxSteps : rows[s][i] # 0 /\ i \notin processed[s]} IN
  /\ dreamPass.at = "asleep" /\ quiet = Sessions
  /\ processed' = [s \in Sessions |->
       IF s \in open THEN {i \in 1..MaxSteps : rows[s][i] # 0} ELSE processed[s]]
  /\ dreamPass' = [Sleeping EXCEPT !.at = "idle"]
  /\ UNCHANGED <<made, counter, ram, tasks, rows, excused, quiet, stepFaults>>

(* _idle_flush_step_logs iterates over the dictionary and awaits inside:   *)
(* it ends by an error when a session has joined or left meanwhile.        *)
FlushTick ==
  /\ dreamPass.at \in {"idle", "again"} /\ quiet = Sessions /\ Held # {}
  /\ dreamPass' = [at |-> "flush", todo |-> Held, done |-> {}, keys |-> Held]
  /\ UNCHANGED <<made, counter, ram, tasks, table, excused, quiet, stepFaults>>

FlushOne ==
  /\ dreamPass.at = "flush" /\ dreamPass.keys = Held
  /\ \E s \in dreamPass.todo :
       IF s \in quiet
       THEN /\ dreamPass' = [dreamPass EXCEPT !.at = "mark", !.todo = @ \ {s}, !.done = @ \union {s}]
            /\ \/ ram[s] = <<>> /\ UNCHANGED <<table, excused, stepFaults>>
               \/ ram[s] # <<>> /\ (Insert(ToSet(ram[s])) \/ InsertFails(ToSet(ram[s])))
       ELSE /\ dreamPass' = [dreamPass EXCEPT !.todo = @ \ {s}]
             /\ UNCHANGED <<table, excused, stepFaults>>
  /\ UNCHANGED <<made, counter, ram, tasks, quiet>>

(* mark_steps_processed marks what the table holds by then.                *)
FlushMark ==
  /\ dreamPass.at = "mark" /\ dreamPass' = [dreamPass EXCEPT !.at = "flush"]
  /\ processed' = [s \in Sessions |->
       IF s \in dreamPass.done THEN processed[s] \union {i \in 1..MaxSteps : rows[s][i] # 0}
       ELSE processed[s]]
  /\ UNCHANGED <<made, counter, ram, tasks, rows, excused, quiet, stepFaults>>

FlushAborts ==
  /\ dreamPass.at = "flush" /\ dreamPass.keys # Held /\ dreamPass' = [Sleeping EXCEPT !.at = "again"]
  /\ UNCHANGED <<made, counter, ram, tasks, table, excused, quiet, stepFaults>>

(* Lists and counters of the sessions flushed are dropped, and with them   *)
(* the steps that came after the copy was made.                            *)
FlushEnds ==
  /\ dreamPass.at = "flush" /\ dreamPass.keys = Held /\ dreamPass.todo = {}
  /\ ram' = [s \in Sessions |-> IF s \in dreamPass.done THEN <<>> ELSE ram[s]]
  /\ counter' = [s \in Sessions |-> IF s \in dreamPass.done THEN 0 ELSE counter[s]]
  /\ excused' = excused \union (AllIn({ram[s] : s \in dreamPass.done}) \ Stored)
  /\ dreamPass' = [Sleeping EXCEPT !.at = "again"]
  /\ UNCHANGED <<made, tasks, table, quiet, stepFaults>>

-----------------------------------------------------------------------------
(* Conductor.stop writes every list, and the process ends; tasks that have *)
(* not run die with it.                                                    *)
StopWrites ==
  /\ Held # {}
  /\ Insert(UNION {ToSet(ram[s]) : s \in Sessions})
  /\ ram' = [s \in Sessions |-> <<>>] /\ counter' = [s \in Sessions |-> 0]
  /\ dreamPass' = Sleeping
  /\ UNCHANGED <<made, tasks, quiet>>

StepKilled ==
  /\ excused' = excused \union (AllIn(tasks \union {ram[s] : s \in Sessions}) \ Stored)
  /\ ram' = [s \in Sessions |-> <<>>] /\ counter' = [s \in Sessions |-> 0] /\ tasks' = {}
  /\ dreamPass' = Sleeping
  /\ UNCHANGED <<made, table, quiet, stepFaults>>

StepNext ==
  \/ \E s \in Sessions : AddStep(s)
  \/ TaskRuns \/ Lull \/ RestoreTick \/ FlushTick \/ FlushOne \/ FlushMark \/ FlushAborts
  \/ FlushEnds \/ StopWrites \/ StepKilled

-----------------------------------------------------------------------------
StepTypeOK ==
  /\ made \in Seq(Sessions) /\ Len(made) <= MaxSteps
  /\ counter \in [Sessions -> 0..MaxSteps]
  /\ \A s \in Sessions : NumberOf(ram[s]) \subseteq Steps /\ (ram[s] # <<>> => counter[s] > 0)
  /\ rows \in [Sessions -> [1..MaxSteps -> 0..MaxSteps]]
  /\ processed \in [Sessions -> SUBSET (1..MaxSteps)]
  /\ excused \subseteq Steps /\ quiet \subseteq Sessions /\ stepFaults \in 0..MaxStepFaults

(* A step is stored, in a list, or in a task; if not, an error, a used     *)
(* index, a kill or a step after the dreamer's copy took it.  And a row    *)
(* stores a step of its own session.                                       *)
StepsAccounted ==
  /\ Steps \subseteq Stored \union AllIn(tasks \union {ram[s] : s \in Sessions}) \union excused
  /\ \A s \in Sessions, i \in 1..MaxSteps : rows[s][i] # 0 => made[rows[s][i]] = s
=============================================================================
