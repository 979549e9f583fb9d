------------------------------ MODULE Content ------------------------------
(* The content branch: storage/content_manager.py numbers and remembers    *)
(* the versions of a block of text, storage/sqlite.py stores them, and     *)
(* tools/content.py answers from RAM first and then from the tables.  A    *)
(* content id names a technology or a function as often as a session, so   *)
(* the persist steps of several sessions save versions of one block.       *)
EXTENDS Integers, Sequences, SequencesExt

CONSTANTS
  Blocks, Texts, Authors,                  \* content ids; texts; concurrent saves
  MaxSaves, MaxContentLoads \* bounds

ASSUME ContentAssumption == {MaxSaves, MaxContentLoads} \subseteq Nat

VARIABLES
  blocks,      \* ContentManager.blocks: the versions of each block, oldest first
  authoring,   \* what each save works on, or NoSave
  writes,      \* the rows that are queued
  listed,      \* content_blocks
  stored,      \* content_versions, by content_id and version
  vectors,     \* what content_index holds
  saves, contentLoads,
  promised,    \* history: versions that a save returned and no crash lost
  mixed,       \* history: blocks two saves of which have overlapped
  aged,        \* history: blocks saved before the last start of the daemon
  told         \* history: versions that readers have seen

contentVars == <<blocks, authoring, writes, listed, stored, vectors, saves, contentLoads, promised, mixed,
                 aged, told>>
contentRam == <<blocks, authoring, vectors>>
contentDisk == <<listed, stored>>
contentPast == <<promised, mixed, aged, told>>

NoSave == [block |-> "none"]
Version(b, n, t) == [block |-> b, version |-> n, text |-> t]
Item(kind, v) == [kind |-> kind, of |-> v]

ContentInit ==
  /\ blocks = [b \in Blocks |-> <<>>] /\ authoring = [a \in Authors |-> NoSave]
  /\ writes = <<>> /\ listed = {} /\ stored = {} /\ vectors = {}
  /\ saves = 0 /\ contentLoads = 0
  /\ promised = {} /\ mixed = {} /\ aged = {} /\ told = {}

-----------------------------------------------------------------------------
(* save: a text that is the last version's returns it; otherwise the last  *)
(* version is remembered while the text is embedded.                       *)
LastOf(b) == IF blocks[b] = <<>> THEN 0 ELSE Last(blocks[b]).version
LastText(b) == IF blocks[b] = <<>> THEN "none" ELSE Last(blocks[b]).text

SaveBegins(a, b, t) ==
  /\ authoring[a] = NoSave /\ saves < MaxSaves
  /\ t # LastText(b)
  /\ authoring' = [authoring EXCEPT ![a] = [block |-> b, text |-> t, last |-> LastOf(b)]]
  /\ mixed' = IF \E o \in Authors \ {a} : authoring[o].block = b THEN mixed \union {b} ELSE mixed
  /\ saves' = saves + 1
  /\ UNCHANGED <<blocks, vectors, writes, contentDisk, contentLoads, promised, aged, told>>

(* The model fails: the step logs it, and the session goes on.             *)
EmbeddingFails(a) ==
  /\ authoring[a] # NoSave /\ authoring' = [authoring EXCEPT ![a] = NoSave]
  /\ UNCHANGED <<blocks, vectors, writes, contentDisk, saves, contentLoads, contentPast>>

Finished(a, n) ==
  LET b == authoring[a].block
      v == Version(b, n, authoring[a].text) IN
  /\ authoring[a] # NoSave /\ authoring' = [authoring EXCEPT ![a] = NoSave]
  /\ blocks' = [blocks EXCEPT ![b] = Append(@, v)]
  /\ writes' = writes \o <<Item("content_block", v), Item("content_version", v)>>
  /\ vectors' = vectors \union {v}
  /\ promised' = promised \union {v}
  /\ UNCHANGED <<contentDisk, saves, contentLoads, mixed, aged, told>>

(* Fault model: the number is that of the version before.                  *)
SaveEndsNumberedLow(a) ==
  Finished(a, IF authoring[a].last = 0 THEN 1 ELSE authoring[a].last)

SaveEnds(a) == Finished(a, authoring[a].last + 1)

-----------------------------------------------------------------------------
(* The flush: a block's row is replaced; a version whose number is taken   *)
(* fails on the primary key, which is logged, and the batch goes on.       *)
NumberTaken(b, n) == \E v \in stored : v.block = b /\ v.version = n

FlushContent ==
  LET i == Head(writes) IN
  /\ writes # <<>> /\ writes' = Tail(writes)
  /\ \/ /\ i.kind = "content_block"
        /\ listed' = listed \union {i.of.block} /\ UNCHANGED stored
     \/ /\ i.kind = "content_version"
        /\ stored' = IF NumberTaken(i.of.block, i.of.version) THEN stored ELSE stored \union {i.of}
        /\ UNCHANGED listed
  /\ UNCHANGED <<contentRam, saves, contentLoads, contentPast>>

-----------------------------------------------------------------------------
(* The daemon ends, its queue flushed or lost, and starts again: the index *)
(* is hydrated from the rows, the blocks are not ("stub for lazy load").   *)
Started(left) ==
  /\ contentLoads < MaxContentLoads /\ contentLoads' = contentLoads + 1
  /\ blocks' = [b \in Blocks |-> <<>>] /\ authoring' = [a \in Authors |-> NoSave]
  /\ writes' = <<>> /\ stored' = left /\ vectors' = left
  /\ aged' = {v.block : v \in left}
  /\ UNCHANGED <<saves, mixed>>

ContentRestarts == writes = <<>> /\ Started(stored) /\ UNCHANGED <<listed, promised, told>>

ContentCrashes ==
  LET lost == {i.of : i \in {j \in ToSet(writes) : j.kind = "content_version"}} IN
  /\ writes # <<>> /\ Started(stored) /\ promised' = promised \ lost
  /\ told' = told \ lost /\ UNCHANGED listed

(* check_embedding_dim and check_embedding_model, when the model changed   *)
(* and no text can be embedded again.                                      *)
EmbeddingsWiped == Started({}) /\ listed' = {} /\ promised' = {} /\ told' = {}

-----------------------------------------------------------------------------
(* content_raw and content_get: a version by its number, or the latest     *)
(* active one.  Every version in RAM is active; the rows' status is never  *)
(* written, so the tables have no active version.                          *)
InTables(b) == {v \in stored : v.block = b /\ b \in listed}

Answers(b, any) ==
  LET held == ToSet(blocks[b]) IN
  IF any THEN IF held = {} THEN {} ELSE {Last(blocks[b])}
  ELSE {blocks[b][i] : i \in {j \in 1..Len(blocks[b]) :
                                \A k \in 1..j - 1 : blocks[b][k].version # blocks[b][j].version}}
         \union {v \in InTables(b) : \A h \in held : h.version # v.version}

(* content_search finds blocks by their vectors, and with status "all" its *)
(* rows; content_history lists the rows of a block.                        *)
Found(b) == IF \E v \in vectors : v.block = b THEN InTables(b) ELSE {}
AllVersions(b) == {v \in stored : v.block = b}

ContentRead(b) ==
  /\ \E v \in Answers(b, TRUE) \union Answers(b, FALSE) \union Found(b) \union AllVersions(b) :
       v \notin told /\ told' = told \union {v}
  /\ UNCHANGED <<contentRam, writes, contentDisk, saves, contentLoads, promised, mixed, aged>>

ContentNext ==
  \/ \E a \in Authors : \/ \E b \in Blocks, t \in Texts : SaveBegins(a, b, t)
                        \/ SaveEnds(a) \/ EmbeddingFails(a)
  \/ FlushContent \/ ContentRestarts \/ ContentCrashes \/ EmbeddingsWiped
  \/ \E b \in Blocks : ContentRead(b)

-----------------------------------------------------------------------------
Versions == [block : Blocks, version : 1..MaxSaves, text : Texts]

ContentTypeOK ==
  /\ \A b \in Blocks : ToSet(blocks[b]) \subseteq Versions
  /\ ToSet(writes) \subseteq [kind : {"content_block", "content_version"}, of : Versions]
  /\ stored \union vectors \union promised \union told \subseteq Versions
  /\ listed \union mixed \union aged \subseteq Blocks
  /\ saves \in 0..MaxSaves /\ contentLoads \in 0..MaxContentLoads

(* A version that a save returned is queued or in the tables, with its     *)
(* text, and its number names one text to every reader, as long as no two  *)
(* saves of its block overlapped and the block was not saved before the    *)
(* last start.  A version in the tables has its block there, and what the  *)
(* index finds after its flush is stored.                                  *)
ContentSound ==
  LET Kept(v) == v \in stored \/ \E i \in ToSet(writes) : i = Item("content_version", v)
      steady == Blocks \ (mixed \union aged) IN
  /\ \A v \in promised : v.block \in steady => Kept(v)
  /\ \A v, w \in told \union promised :
       v.block = w.block /\ v.version = w.version /\ v.block \in steady => v = w
  /\ \A v \in stored : v.block \in listed
  /\ \A v \in vectors : v.block \in steady => Kept(v)
=============================================================================
