---------------------------- MODULE SessionIndex ----------------------------
(* The memory of sessions between an observation and the disk: the steps   *)
(* of the observer pipeline (observer/pipeline.py, steps/persist_step.py), *)
(* ram_index and the vector matrix with its label maps (core/__init__.py,  *)
(* memory/hnsw.py), the dissolver's eviction and rebuild, the two ctx_load *)
(* tools, hydration at start, and the write queue as a sequence of briefs. *)
(*                                                                         *)
(* One event loop runs everything: an action is the code between two       *)
(* awaits.  index_lock is never held over a suspension (nothing under it   *)
(* waits), so it orders nothing an action does not order, and is left out. *)
(* The pipeline hands PersistStep no chunk vectors (pipeline.py:81-90      *)
(* merges embedding_f32 alone), so the matrix holds summary rows only.     *)
EXTENDS Integers, Sequences, FiniteSets, SequencesExt

CONSTANTS
  Sessions,      \* session ids
  Loaders,       \* concurrent ctx_load calls
  ThinLoaders,   \* those of them that come through dispatch (tools/admin.py)
  Window,        \* resources.session_window_size
  MaxObs,        \* bound: observations in a run
  MaxRequeues,   \* bound: consolidation passes
  MaxLoads,      \* bound: ctx_load calls
  MaxCrashes     \* bound: crashes of the daemon

ASSUME SessionIndexAssumption ==
  /\ IsFiniteSet(Sessions) /\ Sessions # {}
  /\ ThinLoaders \subseteq Loaders
  /\ {Window, MaxObs} \subseteq Nat \ {0}
  /\ {MaxRequeues, MaxLoads, MaxCrashes} \subseteq Nat

VARIABLES
  pipe,     \* observation -> its task: [pc, sid, emb, deadline]
  made,     \* observations scheduled so far; observation v is the v-th
  ram,      \* ram_index: session -> brief, or NoBrief
  rows,     \* the matrix: set of [label, sid, ver]
  sidTo,    \* sid_to_id: session -> label, or NoLabel
  idTo,     \* id_to_sid: a function from the labels in use to sessions
  next,     \* _next_session_label
  pending,  \* briefs enqueued and not yet in SQLite
  disk,     \* the sessions table: session -> brief, or NoBrief
  evictor,  \* dissolver: "idle", or "flushed" after its await of flush()
  loader,   \* ctx_load call -> [pc, sid, row]
  requeues, loads, crashes,   \* bounds
  raced,    \* history: sessions whose row a rebuild may have taken from a
            \* pipeline on its way to ram_index, or that a thin load put there
  crossed,  \* history: sessions for which an older brief overtook a newer one
  thinned   \* history: sessions that dispatch's ctx_load has read

indexVars == <<pipe, made, ram, rows, sidTo, idTo, next, pending, disk, evictor, loader,
          requeues, loads, crashes, raced, crossed, thinned>>

NoLabel == -1
Obs == 1..MaxObs
Brief(v, emb, deadline) == [ver |-> v, emb |-> emb, deadline |-> deadline]
NoBrief == Brief(0, FALSE, FALSE)
Idle == [pc |-> "none", sid |-> CHOOSE s \in Sessions : TRUE, emb |-> FALSE, deadline |-> FALSE]
Free == [pc |-> "free", sid |-> Idle.sid, row |-> NoBrief]

InRam(s) == ram[s] # NoBrief
OnDisk(s) == disk[s] # NoBrief

IndexInit ==
  /\ pipe = [v \in Obs |-> Idle] /\ made = 0
  /\ ram = [s \in Sessions |-> NoBrief] /\ disk = [s \in Sessions |-> NoBrief]
  /\ rows = {} /\ sidTo = [s \in Sessions |-> NoLabel]
  /\ idTo = [l \in {} |-> 0] /\ next = 0
  /\ pending = <<>>
  /\ evictor = "idle" /\ loader = [l \in Loaders |-> Free]
  /\ requeues = 0 /\ loads = 0 /\ crashes = 0
  /\ raced = {} /\ crossed = {} /\ thinned = {}

Maps == <<rows, sidTo, idTo, next>>
History == <<raced, crossed, thinned>>
Bounds == <<requeues, loads, crashes>>

-----------------------------------------------------------------------------
(* The label of a session: the one it has, or the next number.             *)
LabelOf(s) == IF sidTo[s] # NoLabel THEN sidTo[s] ELSE next

(* Fault model: id_to_sid is written under the label read before allocating. *)
LabelLate(s) ==
  /\ sidTo' = [sidTo EXCEPT ![s] = LabelOf(s)]
  /\ idTo' = [l \in DOMAIN idTo \union {sidTo[s]} |-> IF l = sidTo[s] THEN s ELSE idTo[l]]
  /\ next' = IF sidTo[s] # NoLabel THEN next ELSE next + 1

(* get_session_label and the two map entries written after it.             *)
Label(s) ==
  /\ sidTo' = [sidTo EXCEPT ![s] = LabelOf(s)]
  /\ idTo' = [l \in DOMAIN idTo \union {LabelOf(s)} |-> IF l = LabelOf(s) THEN s ELSE idTo[l]]
  /\ next' = IF sidTo[s] # NoLabel THEN next ELSE next + 1

(* add_items: the matrix only ever grows by appending.                     *)
AddRow(s, v) == rows' = rows \union {[label |-> LabelOf(s), sid |-> s, ver |-> v]}

(* Fault model: a rebuild that does not clear sid_to_id.                   *)
FillKeepsLabels(S, brief) ==
  LET order == SetToSeq(S)
      at(s) == CHOOSE i \in 1..Len(order) : order[i] = s
  IN /\ rows' = {[label |-> at(s) - 1, sid |-> s, ver |-> brief[s].ver] : s \in S}
     /\ sidTo' = [s \in Sessions |-> IF s \in S THEN at(s) - 1 ELSE sidTo[s]]
     /\ idTo' = [l \in 0..(Len(order) - 1) |-> order[l + 1]]
     /\ next' = Len(order)

(* A matrix filled from nothing with one row for each session of S.        *)
Fill(S, brief) ==
  LET order == SetToSeq(S)
      at(s) == CHOOSE i \in 1..Len(order) : order[i] = s
  IN /\ rows' = {[label |-> at(s) - 1, sid |-> s, ver |-> brief[s].ver] : s \in S}
     /\ sidTo' = [s \in Sessions |-> IF s \in S THEN at(s) - 1 ELSE NoLabel]
     /\ idTo' = [l \in 0..(Len(order) - 1) |-> order[l + 1]]
     /\ next' = Len(order)

-----------------------------------------------------------------------------
(* Conductor.observe: the pipeline is only scheduled.                      *)
Observe(s) ==
  /\ made < MaxObs /\ made' = made + 1
  /\ pipe' = [pipe EXCEPT ![made + 1] = [Idle EXCEPT !.pc = "new", !.sid = s]]
  /\ UNCHANGED <<ram, Maps, pending, disk, evictor, loader, Bounds, History>>

(* Filter, NER and embedding, marker, urgency, score: the text may be      *)
(* dropped, the embedder may fail (embedding None), a deadline be found.   *)
Prepare(v) ==
  /\ pipe[v].pc = "new"
  /\ \/ pipe' = [pipe EXCEPT ![v].pc = "dropped"]
     \/ \E emb, deadline \in BOOLEAN :
          pipe' = [pipe EXCEPT ![v] = [@ EXCEPT !.pc = "scored", !.emb = emb, !.deadline = deadline]]
  /\ UNCHANGED <<made, ram, Maps, pending, disk, evictor, loader, Bounds, History>>

(* Continuation, conflict check and the new row.  detect_continuation      *)
(* returns at once on an empty index and reads the embedding otherwise:    *)
(* without one it raises and the task ends there.                          *)
IndexRaises(v) ==
  /\ pipe[v].pc = "scored" /\ ~pipe[v].emb /\ rows # {}
  /\ pipe' = [pipe EXCEPT ![v].pc = "raised"]
  /\ UNCHANGED <<made, ram, Maps, pending, disk, evictor, loader, Bounds, History>>

(* Fault model: a session that has a label is taken for indexed.           *)
IndexStepOnce(v) ==
  /\ pipe[v].pc = "scored" /\ (pipe[v].emb \/ rows = {})
  /\ pipe' = [pipe EXCEPT ![v].pc = "indexed"]
  /\ IF pipe[v].emb /\ sidTo[pipe[v].sid] = NoLabel
     THEN AddRow(pipe[v].sid, v) /\ Label(pipe[v].sid) ELSE UNCHANGED Maps
  /\ UNCHANGED <<made, ram, pending, disk, evictor, loader, Bounds, History>>

IndexStep(v) ==
  /\ pipe[v].pc = "scored" /\ (pipe[v].emb \/ rows = {})
  /\ pipe' = [pipe EXCEPT ![v].pc = "indexed"]
  /\ IF pipe[v].emb THEN AddRow(pipe[v].sid, v) /\ Label(pipe[v].sid) ELSE UNCHANGED Maps
  /\ UNCHANGED <<made, ram, pending, disk, evictor, loader, Bounds, History>>

(* After the anchor writes: ram_index[session_id] = pctx.sb.               *)
InsertRam(v) ==
  LET s == pipe[v].sid IN
  /\ pipe[v].pc = "indexed"
  /\ pipe' = [pipe EXCEPT ![v].pc = "inram"]
  /\ ram' = [ram EXCEPT ![s] = Brief(v, pipe[v].emb, pipe[v].deadline)]
  /\ crossed' = IF \E w \in Obs : w > v /\ pipe[w].sid = s /\ pipe[w].pc \in {"inram", "done"}
                THEN crossed \union {s} ELSE crossed
  /\ UNCHANGED <<made, Maps, pending, disk, evictor, loader, Bounds, raced, thinned>>

(* After the experience writes: enqueue_session(pctx.sb).  Two pipelines   *)
(* of one session may arrive here in the wrong order.                      *)
Enqueue(v) ==
  LET s == pipe[v].sid IN
  /\ pipe[v].pc = "inram"
  /\ pipe' = [pipe EXCEPT ![v].pc = "done"]
  /\ pending' = Append(pending, [sid |-> s, brief |-> Brief(v, pipe[v].emb, pipe[v].deadline)])
  /\ crossed' = IF \E w \in Obs : w > v /\ pipe[w].sid = s /\ pipe[w].pc = "done"
                THEN crossed \union {s} ELSE crossed
  /\ UNCHANGED <<made, ram, Maps, disk, evictor, loader, Bounds, raced, thinned>>

-----------------------------------------------------------------------------
(* What the upserts of a sequence of briefs leave of the table: of every   *)
(* session the last.                                                       *)
Upsert(table, items) ==
  [s \in Sessions |->
     LET mine == {i \in DOMAIN items : items[i].sid = s}
     IN IF mine = {} THEN table[s] ELSE items[Max(mine)].brief]

(* The worker of the write queue (StorePipe has its batches and errors).   *)
WriteOne ==
  /\ pending # <<>>
  /\ disk' = Upsert(disk, <<Head(pending)>>) /\ pending' = Tail(pending)
  /\ UNCHANGED <<pipe, made, ram, Maps, evictor, loader, Bounds, History>>

(* ConsolidationWorker.consolidate: every brief in RAM is queued again.    *)
Consolidate ==
  /\ requeues < MaxRequeues /\ requeues' = requeues + 1
  /\ LET order == SetToSeq({s \in Sessions : InRam(s)})
     IN pending' = pending \o [i \in DOMAIN order |-> [sid |-> order[i], brief |-> ram[order[i]]]]
  /\ crossed' = crossed \union
       {s \in Sessions : InRam(s) /\ \E v \in Obs : v > ram[s].ver /\ pipe[v].sid = s /\ pipe[v].pc = "done"}
  /\ UNCHANGED <<pipe, made, ram, Maps, disk, evictor, loader, loads, crashes, raced, thinned>>

(* Fault model: what could not be written at once is dropped.              *)
EvictFlushDrops ==
  /\ evictor = "idle" /\ \E s \in Sessions : InRam(s)
  /\ evictor' = "flushed"
  /\ \E held \in 0..Len(pending) :
       /\ disk' = Upsert(disk, SubSeq(pending, 1, held)) /\ pending' = <<>>
  /\ UNCHANGED <<pipe, made, ram, Maps, loader, Bounds, History>>

(* evict_n_oldest, up to its await of flush(): the queue is written, the   *)
(* briefs the worker has already taken from it are not.                    *)
EvictFlush ==
  /\ evictor = "idle" /\ \E s \in Sessions : InRam(s)
  /\ evictor' = "flushed"
  /\ \E held \in 0..Len(pending) :
       /\ disk' = Upsert(disk, SubSeq(pending, held + 1, Len(pending)))
       /\ pending' = SubSeq(pending, 1, held)
       /\ crossed' = crossed \union
            {s \in Sessions : \E i \in 1..held, j \in (held + 1)..Len(pending) :
                                pending[i].sid = s /\ pending[j].sid = s}
  /\ UNCHANGED <<pipe, made, ram, Maps, loader, Bounds, raced, thinned>>

(* The rest of it: sessions leave RAM with their labels (the priority      *)
(* order and can_evict only say which) and the matrix is rebuilt from      *)
(* what stays.  Nothing evictable: only a log line.                        *)
Evict ==
  /\ evictor = "flushed" /\ evictor' = "idle"
  /\ \E out \in SUBSET {s \in Sessions : InRam(s)} :
       LET stay == {s \in Sessions : InRam(s)} \ out IN
       /\ ram' = [s \in Sessions |-> IF s \in stay THEN ram[s] ELSE NoBrief]
       /\ IF out = {} THEN UNCHANGED <<Maps, raced>>
          ELSE /\ Fill({s \in stay : ram[s].emb}, ram)
               /\ raced' = {pipe[v].sid : v \in {w \in Obs : pipe[w].pc = "indexed"}}
       /\ crossed' = crossed \union
            {s \in out : \E i \in 1..Len(pending) : pending[i].sid = s}
  /\ UNCHANGED <<pipe, made, pending, disk, loader, Bounds, thinned>>

-----------------------------------------------------------------------------
(* Fault model: get_session_by_id reads the same six columns.              *)
LoadReadThin(l, s) ==
  /\ loads < MaxLoads /\ loads' = loads + 1
  /\ loader[l].pc = "free" /\ ~InRam(s) /\ OnDisk(s)
  /\ loader' = [loader EXCEPT ![l] =
       [pc |-> "read", sid |-> s, row |-> [disk[s] EXCEPT !.deadline = FALSE]]]
  /\ thinned' = IF l \in ThinLoaders THEN thinned \union {s} ELSE thinned
  /\ UNCHANGED <<pipe, made, ram, Maps, pending, disk, evictor, requeues, crashes, raced, crossed>>

(* ctx_load, up to its await of the SELECT: a RAM hit or an unknown        *)
(* session ends the call.  lazy_load_session reads six columns only.       *)
LoadRead(l, s) ==
  /\ loads < MaxLoads /\ loads' = loads + 1
  /\ loader[l].pc = "free" /\ ~InRam(s) /\ OnDisk(s)
  /\ loader' = [loader EXCEPT ![l] =
       [pc |-> "read", sid |-> s,
        row |-> IF l \in ThinLoaders THEN [disk[s] EXCEPT !.deadline = FALSE] ELSE disk[s]]]
  /\ thinned' = IF l \in ThinLoaders THEN thinned \union {s} ELSE thinned
  /\ UNCHANGED <<pipe, made, ram, Maps, pending, disk, evictor, requeues, crashes, raced, crossed>>

(* The rest: whatever is in RAM by now is replaced.                        *)
Overtakes(s, row) == \E v \in Obs : v > row.ver /\ pipe[v].sid = s /\ pipe[v].pc \in {"inram", "done"}

(* tools/admin.py: RAM and label maps, no row in the matrix.               *)
ThinLoadFinish(l) ==
  LET s == loader[l].sid IN
  /\ loader[l].pc = "read" /\ l \in ThinLoaders
  /\ ram' = [ram EXCEPT ![s] = loader[l].row]
  /\ Label(s) /\ rows' = rows
  /\ loader' = [loader EXCEPT ![l] = Free]
  /\ raced' = raced \union {s}
  /\ crossed' = IF Overtakes(s, loader[l].row) THEN crossed \union {s} ELSE crossed
  /\ UNCHANGED <<pipe, made, pending, disk, evictor, Bounds, thinned>>

(* tools/bridge.py: a full window gives up one session (by score, unless   *)
(* pinned) without touching its labels; then row, maps and RAM.            *)
LoadFinish(l) ==
  LET s == loader[l].sid
      full == Cardinality({t \in Sessions : InRam(t)}) >= Window
  IN
  /\ loader[l].pc = "read" /\ l \notin ThinLoaders
  /\ \E out \in IF full THEN {{t} : t \in {u \in Sessions : InRam(u)}} ELSE {{}} :
       /\ ram' = [t \in Sessions |-> IF t = s THEN loader[l].row
                                     ELSE IF t \in out THEN NoBrief ELSE ram[t]]
       /\ crossed' = crossed \union (IF Overtakes(s, loader[l].row) THEN {s} ELSE {})
            \union {t \in out : \E v \in Obs : pipe[v].sid = t /\
                                 (pipe[v].pc = "inram" \/ (pipe[v].pc = "done" /\ disk[t].ver < v))}
  /\ IF loader[l].row.emb THEN AddRow(s, loader[l].row.ver) /\ Label(s) ELSE UNCHANGED Maps
  /\ loader' = [loader EXCEPT ![l] = Free]
  /\ UNCHANGED <<pipe, made, pending, disk, evictor, Bounds, raced, thinned>>

-----------------------------------------------------------------------------
(* A crash and the next start: _hydrate_indices loads at most a window of  *)
(* briefs and the vectors of all sessions.                                 *)
Restart ==
  /\ crashes < MaxCrashes /\ crashes' = crashes + 1
  /\ \E hot \in SUBSET {s \in Sessions : OnDisk(s)} :
       /\ Cardinality(hot) <= Window
       /\ Cardinality(hot) = Window \/ hot = {s \in Sessions : OnDisk(s)}
       /\ ram' = [s \in Sessions |-> IF s \in hot THEN disk[s] ELSE NoBrief]
  /\ Fill({s \in Sessions : OnDisk(s) /\ disk[s].emb}, disk)
  /\ crossed' = crossed \union {pending[i].sid : i \in DOMAIN pending}
  /\ pipe' = [v \in Obs |-> IF pipe[v].pc \in {"new", "scored", "indexed", "inram"}
                            THEN [pipe[v] EXCEPT !.pc = "lost"] ELSE pipe[v]]
  /\ pending' = <<>> /\ evictor' = "idle" /\ loader' = [l \in Loaders |-> Free]
  /\ raced' = {}
  /\ UNCHANGED <<made, disk, requeues, loads, thinned>>

IndexNext ==
  \/ \E s \in Sessions : Observe(s)
  \/ \E v \in Obs : Prepare(v) \/ IndexRaises(v) \/ IndexStep(v) \/ InsertRam(v) \/ Enqueue(v)
  \/ WriteOne \/ Consolidate \/ EvictFlush \/ Evict \/ Restart
  \/ \E l \in Loaders : ThinLoadFinish(l) \/ LoadFinish(l) \/ \E s \in Sessions : LoadRead(l, s)

IndexSpec == IndexInit /\ [][IndexNext]_indexVars

-----------------------------------------------------------------------------
Briefs == [ver : 0..MaxObs, emb : BOOLEAN, deadline : BOOLEAN]

(* Every variable has its type.                                            *)
IndexTypeOK ==
  /\ pipe \in [Obs -> [pc : {"none", "new", "scored", "indexed", "inram", "done", "dropped", "raised", "lost"},
                       sid : Sessions, emb : BOOLEAN, deadline : BOOLEAN]]
  /\ made \in 0..MaxObs
  /\ ram \in [Sessions -> Briefs] /\ disk \in [Sessions -> Briefs]
  /\ rows \subseteq [label : Nat, sid : Sessions, ver : Obs]
  /\ sidTo \in [Sessions -> Nat \union {NoLabel}]
  /\ idTo \in [DOMAIN idTo -> Sessions] /\ DOMAIN idTo \subseteq Nat /\ next \in Nat
  /\ pending \in Seq([sid : Sessions, brief : Briefs])
  /\ evictor \in {"idle", "flushed"}
  /\ loader \in [Loaders -> [pc : {"free", "read"}, sid : Sessions, row : Briefs]]
  /\ requeues \in 0..MaxRequeues /\ loads \in 0..MaxLoads /\ crashes \in 0..MaxCrashes
  /\ raced \subseteq Sessions /\ crossed \subseteq Sessions /\ thinned \subseteq Sessions

(* A hit in the matrix is never attributed to another session: through     *)
(* rebuilds that restart the numbering, hydration and loads, every row's   *)
(* label resolves to the session whose vector it is, and no label is       *)
(* given out twice.                                                        *)
LabelsSound ==
  /\ \A r \in rows : r.label \in DOMAIN idTo /\ idTo[r.label] = r.sid
  /\ \A s \in Sessions : sidTo[s] # NoLabel => (sidTo[s] \in DOMAIN idTo /\ idTo[sidTo[s]] = s)
  /\ \A l \in DOMAIN idTo : l < next

(* A session in RAM with an embedding can be found by it: the matrix has   *)
(* the row of its text.  The two ways to lose the row are a rebuild        *)
(* between a pipeline's add_items and its ram_index entry, and the load    *)
(* tool of dispatch, which adds none; the next rebuild repairs both.       *)
SearchableUnlessRaced ==
  \A s \in Sessions :
    (InRam(s) /\ ram[s].emb) =>
      (\E r \in rows : r.sid = s /\ r.ver = ram[s].ver) \/ s \in raced

(* What is found is what is stored: labels resolve, and sessions in RAM    *)
(* are in the matrix.                                                      *)
SearchSound == LabelsSound /\ SearchableUnlessRaced

(* The newest text of a session that a pipeline finished is the one in     *)
(* RAM, if the session is there, and it is on disk or queued.  What can    *)
(* set it back: pipelines of one session that pass each other, a load      *)
(* whose read was overtaken, an eviction before the write was done, and a  *)
(* crash with the write still queued.                                      *)
NewestKept ==
  \A v \in Obs :
    (pipe[v].pc = "done" /\ pipe[v].sid \notin crossed) =>
      LET s == pipe[v].sid IN
      /\ InRam(s) => ram[s].ver >= v
      /\ disk[s].ver >= v \/ \E i \in DOMAIN pending : pending[i].sid = s /\ pending[i].brief.ver >= v

(* A deadline that was observed stays in the session's row for as long as  *)
(* the row holds that text, unless dispatch's ctx_load read the session:   *)
(* what it puts in RAM has no deadline, and consolidation writes it back.  *)
DeadlineKept ==
  \A s \in Sessions :
    (OnDisk(s) /\ pipe[disk[s].ver].deadline) => (disk[s].deadline \/ s \in thinned)

(* Newest text and deadline survive pipelines, loads, evictions and starts.*)
MemoryKept == NewestKept /\ DeadlineKept

(* observer/pipeline.py says of a failed embedding: "The session is still  *)
(* persisted (text, tags, brief) and gets re-indexed later."  No pipeline  *)
(* ends half way because there is no embedding.                            *)
UnembeddedIsPersisted == \A v \in Obs : pipe[v].pc # "raised"
=============================================================================
