# Mnemostroma in TLA+

Mnemostroma is a local memory daemon for language-model clients. It observes
conversations, keeps recent sessions in RAM, writes them to one SQLite file in the
background, puts what it remembers in front of prompts, and serves its memory to
adapters over a local socket. Almost all of its own logic runs in one `asyncio` event
loop over one `aiosqlite` connection: its hard behaviour is what other coroutines do
between two awaits of one. Around the daemon run other processes (watchdog, command
line, tray, proxies, gateway, adapters, a tunnel) which know each other through files,
ports and signals.

Paths below are relative to `src/src/mnemostroma/`. Each module's header says what
it models; the file and line of every definition are in `PROJECT.json` ("map").

## 1. The system

| Part | State it keeps | Operations | Module |
|---|---|---|---|
| Write-behind store, `storage/sqlite.py`, `persistence.py` | `queue`, its unfinished count, the worker's batch; the shared connection's transaction | `queue_write`, worker, `flush`, `sync`, `stop`; immediate writes of others | StorePipe, WriteBehind, FlushTimer |
| Observer pipeline, index, dissolver, `observer/`, `memory/` | `ram_index`, vector matrix and label maps | persist step, search, eviction, rebuild, `ctx_load`, hydration | SessionIndex |
| Conductor, `conductor.py`, `core/` | tasks, observe outbox | start, observe, outbox worker, heartbeat, stop | DaemonLife |
| Processes, `watchdog.py`, `cli/commands.py`, `tools/cleanup.py` | pid file, socket, heartbeat, ready file | on, off, status, cleanup, restart | Processes |
| Windows service, `windows_service.py` | thread, loop, failure counter | start, restart, stop | WindowsService |
| Dreamer and step logs, `subconscious/dreamer.py` | step buffers and indexes, `session_steps` | collect, flush, idle flush | StepLogs |
| Anchors, `subconscious/anchor_index.py` | index in RAM, table | add, evict, verdicts, decay, bridges | Anchors |
| Guardian, `subconscious/guardian.py` | cooldowns, queues of hits and loops | warnings in two layers, `ctx_active` | Signals |
| Injection and feedback, `integration/proxy.py`, `feedback/implicit.py` | cached block, last results, injected list | inject, search, verdicts | Inject |
| Experience, `memory/experience.py` | clusters and their rows | record, decay, save, load, signals | Experience |
| Contradictions and retention, `tuner/conflict.py`, `memory/` | flags and deadlines of sessions | conflict check, expiry, eviction order | Retention |
| Recalibrator, `feedback/recalibrator.py` | three weights | nudge, clamp, renormalise | Recalibration |
| Content branch, `storage/content_manager.py` | versions in RAM and tables | save, number, list, load | Content |
| Chunking, `models/embedding_utils.py` | none | split, pack, overlap, cut, truncate | Chunks |
| Backups and embedder checks, `core/backup.py`, `storage/sqlite.py` | backups, registered embedder, vectors | interval, trigger, copy, start-up checks | Backups |
| Log writer, `storage/log_writer.py` | bounded queue, batch | log, write, stop | LogWriter |
| Circuit breaker, IPC pool | state and counter; idle connections | `call` | CircuitBreaker, IpcPool |
| Gateway, `gateway/` | semaphore, records, events, permits, pending observations | requests, streams, delivery, drain, translation | GatewayRequests, GatewayOutbox, GatewayDispatch, GatewayTranslation |
| HTTP proxies, `integration/http_proxy.py`, `proxy_passthrough.py` | streams, pid file | forward, capture, observe | HttpProxies |
| Forward and MITM proxy, `proxy/`, `integration/mnemo_mitm_proxy.py` | slots, pipes, buffers | accept, route, relay, flush | ConnectProxy |
| Adapters, `integration/` | token file, port, calls | load token, bind, forward, answer | Adapters |
| Tunnel, `integration/tunnel/` | link, adapter process, state files | spawn, respawn, health, shutdown | Tunnel |
| Setup, `cli/commands.py`, `setup/` | model files, certificates | install, repair, upgrade | Setup |

How they interact. A request reaches the daemon over a tool call, a proxy, an adapter
or the gateway's outbox. The pipeline makes a session of it, which enters `ram_index`
and the vector matrix and is queued with `queue_write`; anchors, steps, experience and
content go to the same connection directly, so anyone's commit commits, and anyone's
rollback undoes, what everybody has executed. The dissolver flushes and then evicts;
consolidation queues sessions again, expires deadlines, decays anchors and experience;
the dreamer closes step logs and gives verdicts on anchors. A prompt gets a block of
memory from the proxy, which leaves the list of what it injected for the pipeline that
observes the answer. The HTTP proxy reaches the daemon through a breaker and a pool of
connections; the daemon answers the requests of one connection in order. Outside, the
watchdog reads heartbeats and pid files that daemons and commands write.

What is hard. Interleavings at awaits (flush against worker, late answers of
overlapping calls, objects saved after their row was replaced), one transaction shared
by all writers, errors half way through a batch, the stop sentinel, cancellation
(`CancelledError` is no `Exception`, so most handlers do not see it), crashes between
a delivery and its mark, callers that give up while the callee goes on, timers that
restart, files that name an earlier process, installations that were interrupted. The
list with lines and the properties that cover each is in `PROJECT.json` ("hazards").

What makes each part correct. The properties in section 3 say it per part. In one
line: what was accepted is written, delivered or reported as failed; what was forgotten
was written first; shared things (connections, permits, slots, ports, processes) are
given back exactly once, by their holder; what is reported (a delivery, a verdict, a
warning, a backup, a status) is true; what was started ends.

## 2. The modules

Common ground. An action is the code between two awaits (for processes: between two
file accesses or signals), with everything it changes. Texts, embeddings and scores are
model values or numbers as far as a property tells them apart; similarities, model
outputs and random choices are inputs. History variables (named in the VARIABLES of
each module) are read by properties only. Every bound is a constant `Max...`, and a
guard of the action it bounds.

### Store

**StorePipe.** `queue`, `unfinished` and `joiner` are the `asyncio.Queue` with
`join()`; `wpc`, `batch`, `wpos`, `closing` the worker task; `fpc`, `fbatch`, `fpos`,
`goal` each running `flush()`; `rows`, `disk`, `dirty` the connection's view, the
committed file and the open transaction. A row is the number of the object it was made
from; "newer" is a comparison. Actions: `WorkerTake`, `WorkerTimeout`,
`WorkerTakeStop`, one `WorkerExec` per item, `WorkerCommit`, the two `except` clauses;
`Flush`, `UrgencyFlush`, `FlushExec`, `FlushCommit` and their failures; stop, sync,
other users of the connection, death or restart of the process.

**WriteBehind** is the abstract specification: writes are accepted, become durable
together in one step or are reported as failed, and a restart forgets what is not
durable. StorePipe refines it with `durable <- committed, failed <- lost, row <- disk`
(property `ImplementsWriteBehind`).

**FlushTimer** is the worker's loop against the clock: `wait_for(queue.get(),
interval)` restarts with every item. StorePipe lets the timer fire at any item; this
module says how late it can be.

### Memory of sessions

**SessionIndex** - the pipeline's persist step with its awaits, `ram_index`, the matrix
with both label maps, eviction and rebuild, both `ctx_load` tools, deadlines, hydration
and restart. The pipeline hands the persist step no chunk vectors, so the matrix holds
summary rows only. `index_lock` is never held over a suspension and orders nothing.

**Retention** - a new session is checked against its neighbours; a contradiction flags
both sides in RAM; flagged, important and recent sessions are spared by the dissolver.
**Experience** - clusters of topics: recorded, decayed, saved row by row, loaded.
**Recalibration** - fixed-point arithmetic in ten-thousandths; the correlation that
decides a nudge is an input.
**Inject** - the cached part, the search, the tracker's verdicts, and the list of
injected sessions that all conversations share.
**Content** - versions numbered from what RAM holds, stored across awaits, and read
from RAM, tables and the content index.
**Chunks** - a pure algorithm: all texts of up to `MaxWords` words of the given sizes
and separators are split, packed, overlapped and truncated.
**Backups** - ticks of half an interval; the copy runs in a thread that stop does not
end; starts with one of several embedders check the vectors and wipe or keep them.

### Subconscious

**Anchors** - `heap` is the objects, because the workers hold objects and not names;
the persist step, the dreamer's paged scan and decay change and save them.
**StepLogs** - lists, background tasks and the table; the counter of a session goes
back to nothing on a restart or when the dreamer closes it.
**Signals** - keyword and vector layers, capped queues, cooldowns.

### Processes

**DaemonLife** - one Conductor in the daemon or in the MCP server, all ways to end.
**Processes** - daemons, the watchdog and the commands around the four files.
**WindowsService** - the service's main thread, the runner thread and its loop.
**Tunnel** - manager, reconnect thread, link, adapter processes, files and commands.
**LogWriter** - queue, batches, errors, the five seconds of `stop()`.
**Setup** - install commands, certificates and leaf certificates over files that may be
cut short.

### Requests

**CircuitBreaker** - `call()` split at its await: `Start` reads the state, `Succeed`,
`Fail` and `Cancel` write it later. **IpcPool** - take the connection that was idle
longest, (re)connect, write, read one line, put it back on every path; `asked` and
`got` record which request a reply was made for.
**Adapters** - token, port 8766, repeated posts, calls given up, the stdio loop.
**HttpProxies** - both proxies, streams that break or whose client leaves, retries,
several instances and their pid file. **ConnectProxy** - routing, tunnel slots, both
pipes, capture buffers and their observations.
**GatewayRequests** - semaphore, body, records, memory, dispatch, stream and its end;
the server's start and stop. **GatewayOutbox** - the table, `enqueue()` split at its
awaits, the worker's fetch/deliver/mark/retry, clean-up, drain, cancellation, crash.
**GatewayDispatch** - permits, memory budget, the registry of observations and its
drain. **GatewayTranslation** - what a turn becomes: content, system text with memory,
conversation id, model; the stand-alone application's requests and statuses.

### Proofs and roots

**StorePipeProofs** (the store, its refinement, its promises and the order of writes),
**SessionIndexProofs** (the sessions' memory), **DaemonProofs** (FlushTimer, DaemonLife,
Processes, LogWriter, StepLogs), **ClientProofs** (IpcPool, CircuitBreaker, Tunnel,
ConnectProxy, Adapters), **GatewayProofs** (GatewayRequests, GatewayDispatch,
GatewayOutbox), **TextProofs** (GatewayTranslation, Chunks), **MemoryProofs** (Anchors,
Signals, Ranking, Experience) and **ServingProofs** (Inject, HttpProxies, Content,
Backups, Setup) hold the theorems.
**Ranking** joins Retention and Recalibration.
`MCStorePipe`, `MCSessionIndex` and `MCIpcPool` give constants; `MCStorePipe` declares
sessions and callers interchangeable. `MCWorkers`, `MCHandlers` and `MCServing` are
portfolios: each EXTENDS many modules as *machines that share no state*. A behaviour
belongs to one machine, named by `machine` in the first state, and the others rest in
their first state; the state spaces add up and do not multiply. Where a resting machine
has several first states, one is fixed. Nothing is lost by this: a property of one
machine is checked in all behaviours of this machine; what two parts do to each other
is modelled inside one module. Components that do interact are composed there
(store, dissolver, consolidation and foreign writers in StorePipe; pipeline, index,
dissolver, loaders and queue in SessionIndex; host, conductor, outbox and store in
DaemonLife; daemon and pool in IpcPool; adapters, IPC server and extension in Adapters).

Definitions commented "Fault model" are plausible mistakes in the definition they
stand next to (a dropped flush, an off-by-one, a missing reset). Nothing uses
them in the specifications; for each property one of them, put in the place of the
real definition, makes TLC report that property. They show that the properties
depend on the code.

## 3. The runs

| Run | Question | Size |
|---|---|---|
| `StorePipe_safety` | Does any hand-over drop a write; what do `sync`, `flush` and `stop` guarantee; is it a write-behind store? | 2 sessions, 2 objects + 1 queued again, one `flush()` and one `sync()` caller, batches of 2, 1 SQLite error, 1 restart |
| `StorePipe_order` | Does the newest object win through failed and repeated commits? | 2 sessions, 4 objects + 1 again, 2 errors |
| `StorePipe_live` | Does `stop()` return, does every write get written? | 1 session, 3 objects + 1 again |
| `SessionIndex_memory` | Does the index find what is stored, and does RAM keep the newest? | 2 sessions, eviction, both loaders, failure, restart |
| `Workers` | Do the background workers make progress? | 8 machines, 75 thousand |
| `Handlers` | Are processes, handlers and workers safe? | 15 machines, 875 thousand |
| `Serving` | Is what is injected, learnt, kept, translated, backed up and installed sound? | 11 machines, 1.18 million |
| `StorePipe_evict`, `StorePipe_stophang`, `SessionIndex_unembedded`, `IpcPool_desync`, `DaemonLife_sigterm` | Five claims that fail, below | smallest that shows it |

What the properties say, in the words of the modules:

| Property | Says |
|---|---|
| `NoSilentLoss`, `PipeInv` | every accepted write is queued, carried, in the transaction, durable, reported or undone by another's rollback; the join counter covers the queue |
| `PromisesKept` | `stop()` drains, `sync()` empties the queue, an urgency flush covers its own write |
| `NewestWins`, `StopReturns`, `EventuallyDurable`, `LossWindow` | order, termination, progress, and less than two intervals of waiting |
| `SearchSound`, `MemoryKept` | label maps, matrix and RAM agree, and what is in RAM is found unless a race that is named prevents it; newer data and reached deadlines are not overwritten |
| `ObservationsAccounted` | an observation that was taken over is in SQLite or on its way there, or refused; repeated only after an error or crash |
| `OneDaemon`, `OneAdapter` | at most one process past the killing of the others, and the files name it; only the supervised adapter runs |
| `StepsAccounted`, `AnchorsKept`, `LogsSound` | nothing leaves RAM unwritten but for named errors; no order is broken |
| `SilenceEarned` | an anchor is reported once per cooldown and none keeps silent for nothing |
| `InjectSound`, `ExperienceSound`, `RankingSound` | one verdict per result; saved and held experience agree; contradictions stay for the user, weights stay within bounds |
| `ContentSound`, `ChunksSound`, `BackupsSound` | version numbers name one text; chunks are the text; a backup holds what was written, and vectors are comparable |
| `PoolSound`, `StateMatchesCount`, `FailedTrialReopens` | connections are conserved and replies are the caller's; the breaker's state agrees with its counter |
| `RequestsSound`, `DispatchSound`, `ProxySound` | permits and slots are held exactly by those who run; records, answers and observations are true |
| `OutboxSound`, `SettledIsFinal` | events are kept until settled, repeated only for mishaps, and settled rows stay settled |
| `AnswersObserved`, `AdaptersSound` | what a client saw of an answer is observed; what is reported as delivered was taken |
| `RequestsTranslated` | a provider is sent the conversation, with one block of memory in its place; conversations neither merge nor fall apart; only usable answers are successes |
| `SetupSound` | what setup takes for installed is whole; keys, certificates and authority match |
| `Progress` | rows settle, calls end, stops return, waiting anchors get their verdict, the breaker recovers |

Several of them are conjunctions of properties of one module, which its text states
one by one (`PromisesKept`, `SearchSound`, `MemoryKept`, `PoolSound`, `OutboxSound`,
`RequestsSound`, `ProxySound`, `RequestsTranslated`, `SetupSound`).

Why these bounds. Two sessions and two objects let a newer and an older object of one
session be in different hands, next to a neighbour in the same batch; a batch of two
leaves one full, one partial and one empty batch; an object can be queued again, so
the same write can be in two places. Two events, rows or exchanges give a batch in which
one fails and the other does not. Caps of one (`IndexCap`, `HitsCap`, `SessionsCap`,
`MaxTunnels`, `StreamLimit`) make the second of two arrivals meet a full structure.
Three callers on two connections make one wait and reuse; three callers exceed a
threshold of two, so late results arrive after the breaker opened. One fault of each
kind, two where a retry or a dead letter needs them, and one crash or restart, put each
failure at every point. `MaxTime` is more than three flush intervals; `MaxTicks`
more than two backup intervals; `MaxCycles` is many times what the weights need to
reach their extremes. Chunk sizes of 1, 3 and 6 tokens stand below, near and above a
target of 4. Three windows of a client are all ways to name a conversation; three
turns reach a tool call, its answer and one more.

Deadlock is not checked where the bounds (no more objects, calls or events) let a
behaviour end; `Progress` and the store's liveness properties say what must not stop.

Conditions in the properties. `PromisesKept` speaks of `stop()` in behaviours without
SQLite errors, and leaves out what a running `flush()` took before `stop()`, which does
not wait for it; `sync()` gives an empty queue only, since `task_done()` is called when
an item is taken. `NewestWins` has no `flush()` callers: with one, an older object in
the worker's batch overtakes. `PoolSound` speaks of replies in behaviours without
cancelled calls (`IpcPool_desync` shows why), `OutboxSound` of behaviours without
errors of the shared transaction. `LossWindow` gives twice the interval, not the 5 s
that `storage/persistence.py:6-7` names. The other exceptions stand in the properties
themselves, each with the history variable that records it.

### Where the code does not do what it says

Shown by runs:

- `StorePipe_evict`: `memory/dissolver.py:66` "flush pending writes before eviction -
  guarantee SQLite persistence". `flush()` sees only the queue; a write in the
  worker's batch is not there, and its session is evicted while only the batch has it.
- `StorePipe_stophang`: `storage/sqlite.py:226` "Gracefully stop the worker and flush
  remaining data". If the flush for the sentinel raises, the loop catches it and waits
  for another item; the sentinel is gone and `stop()` waits for ever.
- `IpcPool_desync`: `ipc_pool.py:57-58` a desynced connection "must" be closed. A
  cancelled call is not caught by the handler; the `finally` clause pools the
  connection with a reply under way, and the next caller reads it.
- `SessionIndex_unembedded`: `observer/pipeline.py:92` "The session is still persisted
  (text, tags, brief) and gets re-indexed later". With a non-empty index the detection
  of continuations fails on the missing embedding before the session enters RAM or
  queue, and the observation is lost.
- `DaemonLife_sigterm`: `bootstrap()` never returns, so the conductor that
  `_run_daemon` would stop is never assigned; SIGTERM ends the daemon without
  `Conductor.stop`, against `docs/mcp/SPEC_sse_daemon_embed_v1.1.md:140`.

Met while modelling, and part of the models as the code has it, without a run:

- Gateway. One failed `enqueue` rolls back another's insert on the shared transaction
  (`gateway/outbox.py:177`). A body that is no object, or a stream that is never
  iterated, keeps its permit. An upstream error in a stream is recorded as complete.
  Two ids make a conversation whichever two they are, so a workspace and a conversation
  of the same name fall together (`request_normalizer.py:65`). Memory is cut with the
  system text, so its closing tag can be lost. A turn without text records the previous
  text of the user again.
- Memory. Chunk vectors never reach the index. A deadline's row can be written by the
  worker after its read-back (`memory/consolidation.py:113`). The recalibrated weights
  are read by nobody, and can exceed their ceiling. `inject` raises a `NameError` for a
  pending subconscious signal (`integration/proxy.py:226`).
- Content. Numbering restarts at 1 with the daemon, and new versions up to the old
  number are dropped by the insert. Versions have no active status, so look-ups by it
  find nothing.
- Subconscious. Pending anchors beyond the twenty best can wait for as long as those
  stay pending; decay and dreamer save stale objects over newer rows. Renumbered steps
  are dropped by `INSERT OR IGNORE`.
- Backups. `_check_unbackedup_records` compares the earliest session of all, so a daemon
  that restarts more often than the interval never backs up. Switching the embedder and
  back is not noticed.
- Processes. The sweep kills a healthy daemon whose pid file `off` or `status` erased.
  The Windows service's loop waits in a bootstrap that never returns. The pid file of
  the cloudflare provider keeps the first adapter's pid.
- Setup. A bundle whose first file exists is taken for whole until `--force`.
- Adapters. A call given up after 5 s goes on in the daemon, and the extension posts
  again at once: the observation is kept twice. Two processes that make the token at
  once share a temporary file (`integration/common.py:35`).

## 4. Fairness

`StorePipe`: weak fairness of the worker, of a running `flush()` and of `stop()`'s
return: the event loop runs every ready task, and the worker is never without a
timeout. Nobody is obliged to observe, flush, stop or sync. Error branches are part of
the fair action, so an error is a way to take the step; the bound on errors
is what keeps them from going on for ever (without it nothing would become durable,
which is also true of the code).

`MCWorkers` gives weak fairness to: the observe outbox worker, the dreamer, the log
loop and the tunnel manager's next step (tasks and threads that are scheduled and have
timeouts); the service's `join` with its limit; a call of the pool (`readline()` has a
10 s limit; the daemon need not answer); the gateway's worker and the end of each
back-off; calls through the breaker (requests keep coming, transports have timeouts)
and the passing of its recovery time. Observations, requests, stops, faults and
crashes are never fair.

## 5. What is proved

TLAPS checks, for all values of the constants that satisfy the named assumptions:

| Theorem | Property | Module | Assumed |
|---|---|---|---|
| `PipeInvariant`, `TypeCorrect`, `NothingLostSilently`, `JoinNeverEarly` | `PipeInv`, `TypeOK`, `NoSilentLoss`, `JoinCounterSound` | StorePipeProofs | `BatchSizeAssumption`, `SentinelAssumption` (the sentinel is no write), `BoundsAssumption` |
| `PromisesAreKept` | `PromisesKept` | StorePipeProofs | the same |
| `NewestObjectWins` | `NewestWins` | StorePipeProofs | the same, and `Flushers = {}`; until the first restart |
| `PipeIsWriteBehind` | `ImplementsWriteBehind` | StorePipeProofs | the same |
| `IndexTypes`, `SearchIsSound`, `MemoryIsKept` | `IndexTypeOK`, `SearchSound`, `MemoryKept` | SessionIndexProofs | `SessionIndexAssumption` (a finite set of sessions) |
| `TimerInvariant`, `LossWindowBound` | `TimerInv`, `LossWindow` | DaemonProofs | any interval |
| `ObservationsAreAccounted` | `ObservationsAccounted` | DaemonProofs | `DaemonLifeAssumption` |
| `OneDaemonAtATime` | `OneDaemon` | DaemonProofs | `ProcessesAssumption` |
| `LogsAreSound` | `LogsSound` | DaemonProofs | `LogWriterAssumption` |
| `StepsAreAccounted` | `StepsAccounted` | DaemonProofs | `StepLogsAssumption` |
| `PoolAlwaysSound` | `PoolSound` | ClientProofs | a finite set of connections, `NamesAssumption` (the two "none" values are no connection and no request), `BoundsAssumption` |
| `StateAgreesWithCount`, `FailedTrialAlwaysReopens` | `StateMatchesCount`, `FailedTrialReopens` | ClientProofs | any callers and threshold |
| `OneAdapterAtATime` | `OneAdapter` | ClientProofs | `TunnelAssumption` |
| `ProxyIsSound` | `ProxySound` | ClientProofs | a finite set of tunnels, `ConnectProxyAssumption` |
| `AdaptersAreSound` | `AdaptersSound` | ClientProofs | `AdaptersAssumption` |
| `RequestsAlwaysSound` | `RequestsSound` | GatewayProofs | a finite set of requests, `GatewayRequestsAssumption` |
| `DispatchAlwaysSound` | `DispatchSound` | GatewayProofs | a finite set of requests, `GatewayDispatchAssumption` |
| `OutboxIsSound`, `SettledRowsAreFinal` | `OutboxSound`, `SettledIsFinal` | GatewayProofs | a finite set of events, `AttemptsAssumption`, `OutboxBounds` |
| `RequestsAreTranslated` | `RequestsTranslated` | TextProofs | `TranslationAssumption`, `NewIdAssumption`: a new id is no id made of names |
| `ChunksAreSound` | `ChunksSound` | TextProofs | `ChunkAssumption`: positive sizes, an overlap below the target, a window of at least the target |
| `AnchorsAreKept` | `AnchorsKept` | MemoryProofs | a finite set of topics, `AnchorsAssumption` |
| `SilenceIsEarned` | `SilenceEarned` | MemoryProofs | `SignalsAssumption` |
| `ExperienceIsSound` | `ExperienceSound` | MemoryProofs | `ExperienceAssumption` |
| `InjectIsSound` | `InjectSound` | ServingProofs | `InjectAssumption` |
| `AnswersAreObserved` | `AnswersObserved` | ServingProofs | `HttpProxiesAssumption` |
| `ContentIsSound` | `ContentSound` | ServingProofs | `ContentAssumption` |
| `BackupsAreSound` | `BackupsSound` | ServingProofs | `BackupAssumption` |
| `SetupLeavesWhole` | `SetupSound` | ServingProofs | `SetupAssumption`: finite manifests that name files for each bundle, bundles with directories of their own |
| `ContestedAlwaysStay`, `WeightsAlwaysSound`, `RankingIsSound` | `RankingSound` (together) | MemoryProofs | `RetentionAssumption`; `RecalibrationAssumption`: initial weights above the floor, `Ceiling + 2 * Floor <= 10000`, `2 * Floor <= Ceiling`, `Rate >= 3` (the code has 500, 8500, 200) |
| `PoolTyped`, `BreakerTyped`, `ProxyTyped`, `AdaptersTyped`, `LifeTyped`, `ProcessesTyped`, `OutboxTyped`, `InjectTyped`, `ChunksTyped` | the type invariant of the machine | with the theorem of the machine | the same as that theorem |

Each theorem of a machine of a portfolio is about its own specification
(`LifeSpec`, `StepSpec`, ...: the machine's Init and Next). The assumptions are those
that every run evaluates; they fix kinds of values and never sizes. `Flushers = {}` in
`NewestObjectWins` is the condition of its run, and necessary: a `flush()` call
overtakes the worker.

### The store

`NoSilentLoss` is not inductive: dropping a `flush()`
call's batch when it ends loses nothing only because the batch has been executed to
its end (`FlushBatches`), and clearing the worker's batch after a commit only because
`wpos` is one past its end. `unfinished \in Nat` is not inductive either: it goes down
with every take, so it must cover the queue (`JoinCounterSound`), plus one while the
worker flushes for the sentinel, which needs `closing => wpc = "exec"`. `PipeInv` is
the conjunction of these; TLC checks it in `StorePipe_safety`. The proof has
one step per action for each conjunct (`TypeStep`, `BatchesStep`, `CountStep`,
`LossStep`). Two groups of lemmas carry the data: what `From` gives for appended,
shortened and split sequences, and that `flush()`'s split of the queue at the first
sentinel keeps every item (`DrainWhole`, `DrainSplit`, on `LeastExists`). `LossStep`
rests on monotonicity: every step keeps or enlarges the union of what is committed, in
the transaction, lost, undone or carried.

*Promises.* What `stop()` owes must be in front of the sentinel (`Clear`), in a batch or
committed; the sentinel is queued at most once and only while somebody waits for it
(`SentinelSound`). A batch contains what has been executed of it (`ExecutedSound`), an
urgency flush its own write (`OwnSound`). What a `sync()` call waits for is in
somebody's hands or settled once the queue was empty, and every step but a restart
keeps it there (`HandsStep`). `Kinds` sorts all actions by what they do to the batches,
so that each of these is argued once per kind.

*Order.* `OrderInv` holds until something is lost or undone: the queue and the batch
have a session's writes in the order of their objects, the batch before the queue
(`InLine`); a write that is in neither has been overtaken in both views of its row, and
by everything still in line (`Placed`); the worker's executed prefix shows in the
table (`Written`). A failed commit that keeps the transaction goes back to the
batch's start: rows may show an older object for a moment, but the whole batch follows.

*Refinement.* Two more facts are invariant: what is queued, batched
or executed was accepted in this process life (`OnlyAccepted`; a restart, which forgets
accepted writes, empties all three), and a row differs from the one on disk only by a
write of the open transaction (`RowsFromDirty`). `StepKinds` reduces all actions to
three kinds: one write is accepted; the connection executes, gives up, commits or rolls
back; restart. `DbStepRefines` and `CommitPersists` map these to the abstract steps.

*Timer.* Everything held came after the last flush, and the
current wait began less than one interval after it; a wait lasts at most one interval.

### The sessions' memory

`IndexInv` (TLC checks it on the constants of `SessionIndex_memory`) adds to the three
properties what makes them inductive. *Search.* A row added before a pipeline reaches
`ram_index` is still there when it does, or its session is `raced` (`IndexedRows`); a
rebuild numbers its sessions from nothing, each once (`OrderOf`, `FillFacts`), and a
label given out in between is the next number, above all in use (`LabelFacts`).
*Deadlines.* Every brief anywhere - RAM, disk, queue, a loader's hands - is the text of
an observation of its session whose pipeline got as far as `ram_index`, with its
deadline unless dispatch's `ctx_load` has read the session (`Sound`). *Newest text.*
"On disk or queued" is not inductive: a queued newest text may be overwritten by an
older one behind it. What is: the table *as the queue will leave it*, `Final`, has the
newest finished text (`NewestQueued`), and RAM has nothing older than what reached it
(`NewestInRam`). Each step of the queue is a lemma on `Upsert`: writing the head and
then the rest is writing the whole (`UpsertHead`), a queue behind a queue
(`UpsertConcat`, `UpsertAppended`), and writing the later part first, which changes
nothing for a session that is in one part only (`UpsertSplit`). `TaskOnly`, `QueueOnly`
and `RamOnly` sort the actions by what they leave alone.

### The daemon

*Observations* (`LifeInv`). That no observation is scheduled too often needs credit: a
row that is pending, and not about to be marked, has been scheduled less often than
there were lives and failed statements, so the next scheduling is paid for.

*Processes* (`ProcInv`). At most one owner is not inductive; what makes it so is
`Succession`: of two processes, one past the killing of the others and one not, the
first is on the list of victims the second has or will make; of two that
are choosing victims, one has seen the other. The pid file's owner and the lateness of
heartbeats follow from that.

*Log* (`LogInv`). Four places - log, open transaction, the loop's hands, queue - each
rise, and all entries of an earlier place are older than those of a later (`Ordered`);
taking, inserting, committing and losing are four lemmas about it.

*Steps* (`StepInv`). Lists and tasks may be inserted one after another because no two
entries of one list share an index and each has the session its step was made in
(`Insertable`).

### Clients and gateway

*Pool.* `OnePlace` says that a connection is once in the queue or
with one caller, without counting; `OnePlaceConserves` derives the count from it. As
long as no call was cancelled, `OnlyOwn`: nothing is under way on a connection but the
request, or the reply, of the caller that reads from it. This is what a cancellation
breaks (run `IpcPool_desync`).

*Tunnel and forward proxy.* Whenever the manager is about to start an adapter none runs.
The slots are the cardinality of the connections between accept and end (`Slots`); the
chunks of a direction are handed over, under way or buffered, off by the one that the
pipe has written and not yet observed, as the state of the direction tells
(`DirectionSound`).

*Adapters.* Unless two adapters made the token at once, one makes it while there is
none, in a temporary file of its own, and whoever is further has it (`TokensAgree`).
A call that returned success was taken by the daemon, and an attempt follows only one
that failed (`AttemptsSound`); of the attempts that were taken only the last may have been
answered, so that their number is bounded by the failures (`TakenOnce`, an injection
into the attempts). The replies of the stdio adapter are in a bijection with the calls
read so far, in their order (`RepliesSound`).

*Requests and permits.* The semaphore's counter is the cardinality of
a set, the requests between acquire and release together with those that ended in one
of the two ways that keep a permit (`Out`, `Permits`); each action leaves that set
alone, adds one request it did not hold or removes one it did (`PermitKept`,
`PermitTaken`, `PermitReturned`). That, and what the tables say of a request
(`AuditTrue`), is not inductive alone: an end is only reached once, and an audit row
only written at an end, because the step a request is at and the way it ended agree;
`GwFlow` says so, and also where a request must have been recorded or answered. The
dispatch permits are conserved in the same way, in two counters at once; the registry's
`Registered` adds that a drain has all observations in `doomed` from its first step on.

*Outbox.* A row is a dead letter exactly when its attempts are used up, in the
connection's view and on disk (`RowsSound`). That repetitions are bounded is a
conservation law: `Credit` is what went wrong minus the rollbacks still owed, and
an event that may be shown once more needs no credit, one just shown needs one
(`ShownOnCredit`); every action keeps the balance (`CreditStep`). `SettledRowsAreFinal`
needs in addition that a batch fetched earlier has no settled row (`Calm`).

*Translation.* The invariant has three parts that do not depend on each other. Of a window
(`Window`): what it shows is well formed, an answer to a tool follows its call, the
request of a turn is the normal form of what is shown, and what is sent is the payload of
that request with one of the memories that may be injected. `TurnsFaithful` and
`OneMemory` are then facts about operators. Of the ids (`ConversationsInv`): those a
window has to do with, in its answered turns, in the client's hands and in the turn in
progress, are its names or new ids of its own; a turn that was begun and failed has used
one up as well. Of the direct request (`Direct`): where it is, and that what is sent is
its body with the memory. The lemmas on operators are inductions over sequences: a set
that holds `<<>>` and with each sequence all that are one longer holds every sequence
(`BySequence`: otherwise a shortest one would be missing). By it a selection, a joined
list, a text without its control characters and the text of a list of parts are known by
what one more element adds (`SelectedMore`, `FlattenMore`, `StripConcat`, `TextOfMore`),
and `PartsKeepText`: normalising drops audio, unknown blocks and control characters and
no other word. The system text has one shape (`OneBlock`: the client's word first, then
nothing or a block that is opened second and closed last); cutting it at the limit
leaves at most one memory, in an opened block (`CutText`).

*Chunks.* A sequence of pieces is a `Run` from word i to word j if each piece follows the
one before, inside a word or at the next word's start. The atoms are a run of the words up
to the cursor (`CutInv`): the words of a sentence are one, a word cut by characters is one
(`CutUpIs`), gathering keeps one (`GatheredMore`), and two that meet are one
(`RunConcat`). Packing keeps (`Packing`) that the chunks without what they repeat,
followed by what is new in the chunk being filled, are the atoms taken, and that each
chunk is as large as it may be: what is repeated is at most the overlap or one atom, and an
atom that is not long adds at most the target (`WithinStarted`). Whatever a chunk within
the target has is in its vector's window (`PieceSeen`), and a run from the first word to
the last has every token (`RunCovers`, which counts them too: a text that is one chunk is
encoded itself, word by word, and is as large as its atoms). Sums are determined by their
steps (`TotalIs`), and a function given by its steps exists (`GivenExists`), which stands
in for induction.

### Memory and serving

*Anchors.* `heap` only grows, and what index, saves, dreams and decay hold are
positions in it (`HandsSound`); a row keeps its key (`ShelfSound`). The order in which
the index evicts, and the pages of the scan, are choices of which only membership is
used. *Signals.* What waits in a queue during its cooldown has not been reported in it
(`QueuedUntold`); `Silence` is the one lemma for both layers and for `ctx_active`.

*Injection.* What the next verdict will be about still has its claim (`Claimed`), and
the cached part names nobody who was gone when it last expired (`CacheKnown`).
*Proxies.* One invariant per exchange (`ExchangeSound`): there is no observation
before the end, and until then the reverse proxy has collected what it let through.
*Content.* For a block that was saved in this life only and never by two at once: its
versions in RAM are numbered without a gap, an author's next number is the length, and
nobody knows of any other version (`SteadyBlocks`). *Backups.* A backup under way holds
what was there when the daemon started (`CopySound`); rows are of the registered model
unless a start has asked for a new embedding (`EmbedderSound`).

*Set-up.* Certificates: the last file of a kind is there, cut or whole, only after the
others (`PemSound`), which a job under way respects at each of its stages
(`IssuingSound`, `SigningSound`); a leaf is signed with a key that is whole and hence
never made again (`IssuerSound`). Models: what a run has behind it is there, was half
there when it began, or failed (`Behind`), what is half there ahead of it was so then
(`Ahead`), and of the bundle in hand the files before the current one are there or
failed (`InHand`); that another bundle's download leaves a bundle alone needs the
directories to differ.

*Ranking.* That a saved flag survives a second pass of the consolidation needs more than
its row: whenever such a session is in RAM, the brief there is flagged (`SealsShown`),
and what a pass has in hand exists (`Visited`). `WeightsSound` is inductive by itself,
given room: a weight that keeps its floor but for the division is at most half a
step below it (`NearFloor`), so the clamp adds no more than the step took
(`ClampedRoom`), and the share of such a sum keeps both bounds (`ClampedShare`).

*Experience.* Two machines that share a persist step. What is recorded of a topic adds
one to its sum on average, less what contradictions take off (`Earned`), so an average
below zero without the forgetting curve has more contradictions than the 30% at which
they are reported first. RAM and table drop vectors by different rules, the oldest
entry and the earliest time stamp, and each at its own time: as long as a list is in order of
time, what is in RAM is the latest of what is in the table together with what
is still in the hands of persist steps (`InOrderAt`). That is kept because taking the
latest twice is taking them once (`TopIsEnough`), both rules take the latest of a list
that rises (`InOrder`), and two such lists with the same entries are one (`OneOrder`). The
dreamer goes the other way, table first, and has at most one vector in hand.

Some models were changed for the proofs, without a change of their behaviour:
SessionIndex says of an upsert of many briefs that the last of each session stays,
instead of folding over them, and assumes finitely many sessions and at least one; StepLogs
inserts the set of a batch's entries and not its sequence (the batch has no two
entries for one place), Anchors chooses one order among rows of the same age as
SQLite does, and HttpProxies writes a nested update out; Adapters compares the numbers of requests
and replies by their positions, and Experience deletes the earliest row by its time
stamp, where both had filtered a sequence; GatewayTranslation keeps what a comprehension
keeps by positions (`Selected`), has the content of a message as a set of at most one
text, and gives new ids a name (`NewId`); Chunks adds sizes and gathers words by recursive
functions on positions (`Total`, `Oversized`) where it had folded. Anchors and GatewayOutbox
gained assumptions on the kinds of their constants, Setup on the shape of a package
and Recalibration on the numbers of the code.

### Only model-checked

- Liveness (`Progress`, `StopReturns`, `EventuallyDurable`): no prover here handles
  fairness or ENABLED.
- The three conjunctions of type invariants of the portfolios (`TypeOK`) as a whole: a
  portfolio chooses one machine, and its theorem would be the machines' in one module.
  The type invariants of nine machines, and of StorePipe, SessionIndex and FlushTimer, are
  theorems; the proofs of the others carry what they need of types in their own
  invariants, record by record, without the bounds.

Every other property that a run expects to hold is a theorem. Where a proof needs an
induction over data, it is made by hand, as a shortest counterexample (`LeastNumber`,
`BySequence`): the library's induction theorems take an operator, which the provers
cannot instantiate.

## 6. Not modelled

`PROJECT.json` ("components") gives every part with its status. Left out:

- numerical inference (embedding, NER, reranking), similarity, relevance and retention
  scores as numbers: the models keep the comparisons they decide;
- the text rules of the observer (regular expressions and scores on one text), HTTP
  parsing and rewriting, TLS, wording and layout of blocks, reports and status output;
- configuration readers and URL and credential checks of the gateway, the translation
  of protocols other than the OpenAI one, counters and metrics;
- schema creation and column migrations, the resource governor and memory forecast;
- onboarding calibration, whose recorder has no caller; the repository layer behind a
  mode that is off; edits of other programs' settings; the tray, which runs the commands
  that Processes models; the extension beyond its posting; offline tools.

Parts that are "partly" modelled have every operation that changes shared state as an
action; what their note names as left out has no effect on the state of the models.
