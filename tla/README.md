# TLA+ models of metallix serving

metallix serves language models over HTTP on Apple Silicon. `mx serve` runs a
front process that owns the sockets and one child process per model; a batching
child runs an engine thread that decodes many turns together over a paged KV
pool, a serial child runs one turn at a time and keeps prompt prefixes in memory
and on disk. The numerics (model crates, Metal kernels) are checked in the
repository against reference outputs. What tests reach badly is the bookkeeping
around them: who owns which block of device memory, in which order steps of
several turns, writers, timers, threads and processes happen, what is left on
disk when one of them is killed, and whether what was streamed before a turn was
understood agrees with what it turned out to be. That is what this directory
models.

## Inventory

Paths are relative to `src/`; those without a directory are in
`crates/app/cli/src/`.

| Component | State | Operations | Hard because | Correct when |
|---|---|---|---|---|
| Block manager (`crates/core/engine/src/blocks/manager.rs`, `hash.rs`) | block tables, reference counts, block keys, prefix map, free queue | lookup_prefix, admit, allocate, allocate_unresolved, resolve, commit(_through), fork, free | calls of many sequences interleave; hits go stale; slots are reserved before anything is written | every sequence reads its own K/V; counts exact; nothing unwritten or foreign is published |
| Free queue (`blocks/free_queue.rs`) | links in arrays, head, tail, length | push_back, push_front, pop_front, remove | removal from the middle | it is a sequence of distinct blocks |
| Paged session (`crates/models/qwen/src/forward/paged.rs`) | the manager plus device arrays | prefill_chunk, decode_batch, queue_decode, finish_decode, fork, free | a step is queued before the previous one is read back; failures half-way | manager calls and device writes agree |
| Engine loop (`engine_loop.rs`) | waiting, running, partly prefilled turn, queued step, retired rows | step: sweep, admit, decode (pipelined or not), preempt | writers leave and deadlines pass at any time; rows in flight outlive their turns; the pool runs out | no turn lost or ended twice; blocks held until readback; turns end |
| Admission queue (`admission_queue.rs`) | line of tickets, running count, condition variable | admit, drop of Admitted | wakeups, timeouts and departures race | exact slots, nobody overtaken, no lost wakeup, everyone answered |
| Front proxy (`serve_proxy.rs`, `serve_registry.rs`) | child per model, in-flight counts, residency lock, use order, memory budget | route, acquire, make_room, start_child, connect, relay, fail, cancel, drain | children die, stall and are replaced; late reports; eviction races routing | budget kept; faults stay in their model; a request never finds its model busy; every forward ends |
| Child server (`serving.rs`) | admitted turns, busy flag, worker | reserve, run_job, route_to_engine, release | it counts differently from the front | capacity given back before the front's permit |
| Prefix cache and store (`qwen_prefix_cache.rs`, `prefix_store.rs`) | entries with parents, roles and use order; an index, a directory of files, a queue of writes | lookup, restore, insert, evict, save, open | writes are queued; kills between file operations; tenants share tokens | K/V of one computation only; own tenant's only; bytes counted exactly |
| Row packs (`range_fetch/row_pack.rs`, `range_fetch.rs`) | a data file, an index of lines, rows in memory | read_rows, append, replay, rewrite | torn appends; readers racing | a row reads as what was recorded, or is fetched again with its digest |
| Weight store (`range_fetch.rs`, `crates/models/deepseek/src/checkpoint/range_cache.rs`) | payloads, receipts, journal of uses, bytes per expert | read_range, fetch, evict, touch, open | several threads; kills part-way; eviction decided before a download | within its envelope; receipts name payloads; pins stay; recency survives |
| KV admission pool (`crates/core/engine/src/admission.rs`) | reservations, used pages, next ID | reserve_tokens, release | IDs wrap | pages exact, an ID in use is never given again |
| Chat generation (`chat_generation.rs`, `crates/core/engine/src/speculative.rs`) | KV length, queued step, draft under verification, sampler draws | settle, run ahead, propose, verify, roll back | steps run before their token is settled | a turn gets the tokens plain decoding gives, and leaves their K/V |
| Chat format (`crates/core/chat-format/src/stream.rs`, `turn.rs`) | what was released of a raw turn | push, finish | markers arrive in pieces | what was sent is a prefix of what is parsed |
| Protocol streams (`responses.rs`, `anthropic_messages.rs`, `sse.rs`, `web_search/turn.rs`) | open items or blocks, indexes, segments | delta, segment, search, complete, fail | live and finished items share one numbering; a turn may fail before its first event | the events add up to the final message |
| DeepSeek request session (`crates/models/deepseek/src/generation.rs`, `reduced/`, `attention/`, `compressor.rs`) | per layer: a ring of the last keys, a compressor's open group, a prefix of compressed keys, positions and call numbers; the keys of the last ratio-one owner; two marks of failure | append, prefill in chunks, step through the layers, reset | queries of a chunk need keys its end overwrites; groups span calls; layers read what others published in the same or the step before; a stage fails when some layers have advanced | each query reads its own past however the request was cut; layers in step or refused |
| Sampling and constraints, DeepSeek numerics, model crates, codecs, media, kernels, vendored bindings, scripts | listed in PROJECT.json | | | |

How they interact. The front process routes a request to its model, waits in the
model's `ModelQueue` for a permit, finds or starts the child under the residency
lock, and relays. The child reserves engine capacity and a writer thread submits
the turn to the engine thread over a channel. The engine loop decides admission
by asking the paged session for `prefill_cost` and `free_blocks`; the session
calls the block manager and issues device work. Events go back over a bounded
channel; a writer that drops its receiver sets a cancel flag and blocks until the
engine has dropped the turn's cleanup sender. A serial child looks the prompt up
in its prefix cache, which looks on disk if that may hold more, decodes, and
hands the cache's new entries to the writer thread of the store. The text of a
turn passes through the incremental parser to one of the protocol streams, which
may run searches and generate again. A model larger than the disk budget reads
its tensors and rows through the fetching source.

`PROJECT.json` lists all components, also those not modelled, and the hazards at
their lines with the properties that cover them.

## Modules

| Module | Models | Lines of the source |
|---|---|---|
| `BlockPool` | the block manager's operations, as operators on a manager record | `blocks/manager.rs`, `hash.rs` |
| `BlockManager` (+ `MCBlockManager`) | one manager driven by a paged session, with the device memory its block IDs stand for | `manager.rs`, `paged.rs` |
| `BlockLedger` | what the pool promises, on sets: the abstract specification of `BlockManager` | |
| `Lines` | what is left of a queue when some of it leaves, and what stands at some places of it | |
| `BlockLedgerProofs`, `BlockPoolProofs`, `BlockManagerProofs`, `EngineLoopProofs`, `AdmissionQueueProofs`, `ServeProxyProofs`, `ComponentProofs` (on the components that stand alone), `CollectionTheorems` | theorems and proofs, see Proofs | |
| `FreeQueue`, `FreeOrder` | the intrusive list, and the sequence it implements | `free_queue.rs` |
| `EngineLoop` (+ `MCEngineLoop`) | the engine thread, its writers and the clock | `engine_loop.rs` |
| `AdmissionQueue` (+ `MCAdmissionQueue`) | threads around one `ModelQueue` | `admission_queue.rs` |
| `ModelPermits` | what the proxy relies on: permits per model; implemented by `AdmissionQueue`, used by `ServeProxy` | |
| `ServeProxy` (+ `MCServeProxy`) | the front process, its forward threads and the acceptors of the children | `serve_proxy.rs`, `serving.rs` |
| `PrefixReuse` | prefix cache, its store on disk and the writer thread, over restarts | `qwen_prefix_cache.rs`, `prefix_store.rs` |
| `RowPack` | a row pack and its readers, over restarts | `row_pack.rs`, `range_fetch.rs` |
| `WeightStore` | the weights directory, its eviction and its journal, over restarts | `range_fetch.rs`, `range_cache.rs` |
| `KvAdmission` | reservations of KV pages | `admission.rs` |
| `TurnDecode` | the decode loop of a serial turn | `chat_generation.rs`, `speculative.rs` |
| `PlainDecode` | what that loop must amount to: one token at a time | |
| `TurnStream` | the incremental stream of a turn against its final parse | `stream.rs`, `turn.rs` |
| `SearchTurn` | a turn of up to a bounded number of searches, as both protocols see it | `web_search/turn.rs` |
| `ResponseEvents`, `MessageBlocks` | the event streams of the Responses and the Messages protocol | `responses.rs`, `anthropic_messages.rs` |
| `RequestSession` | one request of the DeepSeek decoder: facade, steps, layers and what they keep | `generation.rs`, `reduced/request/session.rs`, `layer_one.rs`, `attention/`, `compressor.rs` |
| `MCParts` | runs the components that stand alone, one to a behaviour | |

Definitions introduced as "a mutated ..." are deliberate faults, one or more per
property; they are in no next-state relation. Replacing the original by the
mutated form makes TLC report the property violated.

### BlockPool and BlockManager

`mgr` is the `BlockManager` struct (sequences, ref_counts, block_hashes, free,
cached). An operation of the code checks all its errors before it changes
anything, so it is a guard (`CanAdmit`) and a successor (`Admit`). SHA-256 over
a length-prefixed encoding is taken to be injective: a block key is the list of
what was hashed from the first block on. `hit` is the `PrefixHit` a caller holds
between `lookup_prefix` and `admit`; other calls may happen in between, so it
may be stale. `text`, `written` and `kv` are the device side: a K/V cell holds
the tokens up to its own and the extra keys, since that is what it depends on.
`Forward` writes; `CommitThroughStep` may only claim what is written, as
`PagedQwen3Session::run` and `finish_decode` do. A copy-on-write is issued by
the session right after the reservation and is part of that step. Metric
counters and clones of a manager are left out.

`BlockLedger` forgets token values, positions, the block size and the order of
the free queue. What remains is who holds which block, which block is each
sequence's partial tail (`open`), which blocks have reserved but unwritten
positions (`dirty`), counts, keys and the free set. `ImplementsLedger` is the
refinement, checked by TLC and proved.

### EngineLoop

`engine` is the `Engine` struct between steps. An iteration of `run` is `Sweep`
(the start of `step`), then `CostFails`, `AdmitChunk` and `AdmitEnds` (the loop
of `admit`), then `Decode`; writers and the clock act between them, which is
where the code reads the cancel flags, deadlines and channels. The wall clock
decides how large a prefill chunk is; the model allows every size the code could
choose. The pool is reduced to the number of positions of each sequence ID:
turns in this model share no blocks, and the cost of re-admitting one's own
cached blocks equals that of computing them, so the prefix cache changes only
the number of chunks. `FreshId` reuses an ID that nothing refers to any more
(the code counts up). Exclusive jobs run between iterations and touch none of
this state. A turn's outcome is its last event, or "dropped" when it was let
go without one.

### FreeQueue

`FreeQueue` is the array-linked list; `FreeOrder` the sequence, in which form
`BlockPool` keeps it. Both record the last call, so that the list must do what
that call does (`ImplementsOrder`).

### AdmissionQueue and ModelPermits

`AdmissionQueue` has one thread per request; a step is what happens under the
lock or between two holds of it, so `notify_all` (after the unlock) and the probe
of the client (outside the lock) are steps of their own. `ModelPermits` says what
a caller of `admit` may rely on: a bounded number of permits, each granted and
given back once. `ImplementsPermits` maps tickets and wakeups to it.

### ServeProxy

Each routed request has a forward thread (`pc`): it waits for a permit
(`ModelPermits`, instantiated with one limit per model), acquires a child or
locks residency, makes room from a snapshot of candidates in the order of their
use (`Victims`, `StopVictim`, `VictimBecameBusy`), starts the child, connects,
relays and gives back, in the code's order, its count (`inFlight`), its permit
and its place. A process of a model is numbered in the order of starts, which
stands for the address it announced: `address` is the one a thread read, and may
be that of a process already replaced. `Fail` stops whatever the model runs at
that moment, as `ChildModel::fail` does. `ChildAccepts`, `ChildReleases` and
`ChildCloses` are the child's acceptor and worker: admitted or answered "busy",
and released before the connection closes. A process may exit by itself
(`MayDie`), miss a deadline (`MayStall`, an outcome of waiting for a relay or
for the close of a cancelled one) or fail to start (`MayNotStart`). `faulty`
is history: the processes that did either of the first two.

### PrefixReuse

`turns` records what each turn was asked and the K/V it ended with. The K/V of a
position is the number of the turn that computed it, so an entry that joins the
values of two computations is visible (`OneComputation`). `cache` has the
entries with their role, parent and number of children; `index`, `files`, `jobs`
and `writer` are the store: `WriterTakes`, `WriterRenames`, `WriterCommits` and
`WriterFails` are the stages of one write. `KillAndOpen` ends the process at any
of them and opens the directory again, possibly as another identity of the
model and with a smaller budget. A temporary file is no entry: the next open
removes it, so only the rename shows.

### RowPack and WeightStore

In `RowPack` a cell is one row and the version of it the host served. `Get`
copies a record under the lock, `Acquire` takes the fetch lock, and
`FetchAndAppend` appends data and index lines; `StopAppending` stops the process
at any point of that append, also inside a line. `Open` replays up to the first
torn line, marks rows whose bytes are gone, and rewrites the index.

In `WeightStore` a tensor belongs to a routed expert or to none. A miss takes the
fetch lock and is refused if no room can be made (`BeginFetch`); with the bytes
in hand `StorePayload` makes the room by unlinking the longest unused experts and
writes, then come `WriteReceipt` and `Reread`. Receipts outlive payloads: a
second download must reproduce the digest. `Touch` appends to the journal or
compacts it. `Restart` stops the process between any two steps, or part-way
through the unlinks of an eviction, and replays the journal.

### KvAdmission

Pages are counted, IDs wrap at `MaxId` (2^64 - 1 in the code), and `answer` is
what the last call returned. `PagesAreReserved` joins the count and what a call
may do to the reservations of others.

### TurnDecode, PlainDecode, TurnStream

`TurnDecode` keeps the tokens in the KV cache, the step queued ahead with the
device's own pick, the draft under verification and the sampler's count of
draws. The logits are uninterpreted: a row is named by its context, and a pick
by row and draw, so that a pick made from the wrong context or with the wrong
draw differs. `PlainDecode` generates one token per step from the context and
the next draw; `ImplementsPlain` says that queueing, drafts and rollback change
nothing but when a token appears. `TurnStream` works on letters: markers are two
letters long, so that they arrive in pieces; `Push` releases what can no longer
become part of a marker, and `Finish` parses the whole and sends the rest.

### SearchTurn, ResponseEvents, MessageBlocks

`SearchTurn` is what a protocol stream is driven by: pieces of reasoning and
text, calls, searches that start and are answered, completion and failure.
`ResponseEvents` and `MessageBlocks` extend it with the state and the writes of
`EventStream`/`HostedReply` and `LiveBlocks`/`SearchReply`. The run shows the
same turn to both: every step of `SearchTurn` is taken by both.

### RequestSession

A value is named by the token it was computed from and the construction of the
request it belongs to, `<<built, position>>`; a compressed key is the sequence of
tokens pooled into it. `layers` has for each layer of `Schedule` (the startup is
layer 0) its ring, next position and call number, and for an owner its
compressor (`held`), prefix (`keys`), position and publication number. `step` is
the chunk being run: `RunLayer` is one layer, with its Engram, owner and
attention, and `outs` what the layers of this step published, read and scored.
`WindowRead` and `WindowIndices` are the three ways a call reads its window
(whole sequence, one token, chunk); `ReadBy` puts window and prefix together and
follows the indices as the sparse attention does. `StageFails` stops a layer
before it, behind its Engram, behind the commit of its owner or behind its
attention, and leaves the request poisoned. Scores are abstract: selection takes
every reachable key, as the code does up to `index_topk` keys. `Accepts` gathers
the checks of the stages; that none of them ever refuses what the session itself
hands on is part of `ReadsOwnPast`. What `SessionAssumption` asks of a schedule is
what `validate_schedule` checks, and an owner of ratio one, which the released
schedule has.

## Runs

| Run | Instance | Shows |
|---|---|---|
| block_cache | 2 sequences, 3 blocks of 2, length 4, caching | map and keys agree and only written blocks are published; unkeyed blocks are reused first; `BlockLedger` implemented |
| block_reuse | 3 sequences under different salts, 2 blocks of 2, 2 tokens, caching | accounting exact over forks, copy-on-write and failed calls; eviction and reuse under a held hit never mixes tokens or tenants |
| block_eviction | as block_cache with one full-block prompt | violation: see Findings |
| engine_batch | 3 turns (one sampled), batch 2, 4 blocks of 2, device failures, a leaver, a deadline | no turn lost or in two places; blocks follow turns and queued rows; refusals justified; order kept by preemption; a lone turn keeps its blocks |
| engine_turns | 3 turns, batch 2, 5 blocks (the batch fits) | every turn ends; writers released |
| engine_livelock | 2 turns, 3 blocks | violation: see Findings |
| queue | 5 requests, 2 slots, depth 2, any may time out, one may leave | line sound (exact slots, the first is awake or will be woken); nobody overtaken; everyone answered; `ModelPermits` implemented |
| proxy | 3 models under a budget of 3 MiB (one resident, one that needs another stopped), 3 of 4 requests | budget kept at every moment; only a model with a faulty process sees a fault; no busy answer; a dead child is replaced; every forward ends |
| proxy_busy | 3 requests for a serial generating model | violation: see Findings |
| proxy_fail | 3 requests for one batched model that may die | violation: see Findings |
| parts | the ten components that stand alone | below |
| response_blank | Responses stream with one search and two calls | violation: see Findings |

`parts` runs one of its components in each behaviour, chosen by `part`, while the
others stay as they start; the states add up and do not multiply. Per part:

| Part | Instance | Properties |
|---|---|---|
| ledger | 3 blocks, 3 sequences, 2 keys | `LedgerInv`, the invariant that is proved |
| queue | 4 blocks | `LinksAgree`, `ImplementsOrder` |
| reuse | 3 turns from four chats (two of one conversation, one with the same preamble, one of another tenant), a cache of 7 bytes, a store of 4 and 3, 2 identities, a kill, a fault | `ReusesOwnValues`, `BytesExact`, `RestartKeepsNewest` |
| rows | 2 readers, 2 rows, one served in two versions, 2 fetches, 2 restarts, a fault | `RowsReadBack`, `RowsSurvive` |
| weights | 2 threads, 4 tensors of 3 experts, one pinned, one tensor in two versions, room for two, 3 downloads, a restart | `WithinEnvelope`, `EvictionFollowsUse` |
| pages | 3 pages of 2 tokens, IDs up to 5 | `PagesAreReserved` |
| decode | 2 prompts, 3 tokens, limit 6, drafts up to 3, the three ways to pick | `KvIsTheTurns`, `ImplementsPlain` |
| stream | up to 6 letters, with and without a call format | `WithholdsMarkersOnly` |
| protocols | one search, 2 pieces a segment, 2 calls | `OutputMatchesEvents`, `EarlyFailureIsHttp`, `StreamedMessageIsWhole` |
| session | 7 layers with each kind and two ratio-one owners, 2 Engrams, a ring of 3, up to 9 tokens in steps of at most 4, appends of 0 to 6, any stage may fail, one rebuild | `ReadsOwnPast`, `LayersInStep` |

Several of the properties are conjunctions of named parts: `BytesExact` is the
accounting of cache and store, that no stray file is left, and the type
invariant; `WithinEnvelope` that the bytes and receipts of the weight store are
those of its files; `WithholdsMarkersOnly` that the stream of a turn never
diverges from its parse, never shows a call, and waits no longer than it must;
`RowsSurvive` is what a lost row and a restart keep; and so on. The
comment before each part says what it is about.

Bounds. Two positions per block give partial, full and spilling tails; three
blocks give a chain of two with a private duplicate beside it; length 3 or 4
gives a full block, a continuation and a fork in the middle of a block. Three
sequences are the least in which two siblings and a parent share a tail. In the
engine, a batch of two beside a third waiting turn has every position a turn can
be in, and the pools are chosen one block above and below what the batch needs.
In the queue, five requests fill two slots and two places in line and leave one
to refuse. In the proxy, the two models that are not resident do not fit
together beside the resident one, so that each start evicts; two processes of a
model are one to fail and one to replace it; the instance lets either the two
requests of the serial model or the two of the batched one arrive
(`TwoAndOneSpec`), with one of the other: the races the properties are about
have two requests of one model beside one of another. In the prefix cache, three entries do not fit and the store is
one entry smaller after the restart. Three downloads are the least that evict
and then fetch again; two fetches of a row, two restarts and one cut are the
least in which a lost row is fetched after a torn append. IDs up to 5 for 3
pages wrap while up to three are held. In the request session nine
tokens wrap a ring of three twice, a chunk of four is longer than the ring, and
appends of odd length leave ratio-two groups open across calls. A marker is two
letters long, and six letters hold a marker, text and the beginning of another. `MaxTokens`, `MaxNew`,
`Limit`, `MaxText`, `MaxPieces` bound lengths as the context limit and the
token budget do; `MaxTurns`, `MaxKills`, `MaxStops`, `MaxRestarts`, `MaxRebuilds`,
`MaxStarts`,
`MaxFetches`, `MaxDownloads`, `MaxRowFaults` and `MaxStoreFaults` bound how
often a thing happens.

Symmetry is used for sequence IDs in the block runs and for the two threads or
readers in `parts`, in safety runs only. `CHECK_DEADLOCK FALSE` is set where
the system really stops: the engine blocks in `recv` when every turn has ended,
the queue and the proxy stop when every request is answered, and a part stops at
its bounds.

Fairness. `EngineLoop!FairSpec` assumes only that the engine thread keeps
iterating while it has work: `run` never blocks otherwise. Nothing is assumed of
writers, clocks or of the device. `AdmissionQueue!FairSpec` assumes that a
parked thread wakes (`wait_timeout` is bounded by the probe interval), that a
thread gets the lock, that a notification about to be sent is sent, and that
time passes. It does not assume that running requests end. `ServeProxy!
ProxyFairness` assumes that forward threads take their steps (each waits at most
for a lock, a bounded wait or a system call with a deadline) and that a child
which cannot stall answers; a stalled child is not assumed to do anything.

## Findings

1. `BlockManager::free` (manager.rs:630-634) says that a chain is evicted from
   its tail. Two sequences that computed the same first block, because a prompt
   that is an exact multiple of the block size never hits its last block, build
   a chain across two tables; freeing the owner of the first block first puts
   the head of the chain before its tail. Run `block_eviction`. The effect is
   lost cache, never wrong K/V: `ReadsOwnTokens` holds.
2. `next_admission` (engine_loop.rs:829-850) keeps a block of headroom for each
   running turn but none for the one it admits. When the newcomer and a running
   turn are both at a block boundary and one block is free, the newcomer is
   preempted before any row decodes, and admitted again in the next iteration.
   Run `engine_livelock` shows the cycle: no turn advances until a deadline
   passes or a writer leaves. `engine_turns` and `LoneTurnKeepsItsBlocks` show
   what does hold.
3. The front gives every generating model `max_num_seqs` permits
   (serve_registry.rs:108), but a generating model whose worker has no engine is
   serial, so the second of two permitted requests is answered 503
   "server_busy" although serving.rs:334-336 says that a front never finds the
   model still busy. Run `proxy_busy`; `NeverBusy` holds in `proxy`, where kind
   and worker agree.
4. `ChildModel::fail` "stops a child that failed a request"
   (serve_proxy.rs:159), but stops whichever child runs when it is called. Of
   two failures of one dead child the later may stop its replacement. Run
   `proxy_fail`. `FaultsStayInTheirModel` shows how far the effect goes: never
   to another model.
5. `response_value` (responses.rs:1123) leaves text that is only whitespace out
   of the output when the turn has calls, after `EventStream::delta` has streamed
   it; the item is never closed, and the first call is added at its index.
   Run `response_blank`. The Messages protocol and hosted searches keep the
   text.

Noted and not run as findings: `PrefixStore::open` makes room for a file before
it looks at whether that file could ever fit; an append whose index write failed
after some of its lines reached the disk leaves them there, and the next append
writes other rows over their bytes (`RowsReadBack` excepts the lines of an
append that reported an error, `doubtful`); two readers that both found a row missing both fetch and append it,
which the second line then supersedes; a tensor evicted between its receipt and
its reread is reported as not local.

Exceptions inside properties. `OpenKeepsRows` speaks of the lines before a torn
one: replay stops there, and the rows behind it are fetched again.
`OutputMatchesEvents` excepts the item of finding 5 (`BlankLeftOut`), so that it
still says everything else of such a reply. `KvIsTheTurns` says that a finished turn
leaves the K/V of all its tokens but the last, and excepts a turn that a grammar
closed at a visible token with a step queued on it: that token is then in the
cache as well.

## Proofs

TLAPS proves the following for every value of the constants that satisfies the
assumptions stated in the modules. A run checks the same definitions on its
instance.

| Module | Theorem | Says |
|---|---|---|
| `BlockLedgerProofs` | `LedgerInvariant`, and its parts `LedgerCountsExact`, `LedgerDirtyIsPrivate`, `LedgerKeysUnique` | what the abstract pool promises |
| `BlockManagerProofs` | `PoolInvariant` | the inductive invariant of the block manager |
| | `PoolAccounts`, `CacheIsConsistent`, `SequencesReadTheirOwn`, `UnkeyedGoFirst` | `Accounting`, `CacheConsistent`, `ReadsOwnTokens`, `UnkeyedReusedFirst` |
| | `ManagerImplementsLedger` | `ImplementsLedger`: every call is a step of the ledger or changes nothing in it |
| `EngineLoopProofs` | `EngineInvariant` | the inductive invariant of the engine loop |
| | `TurnsHeldOnce`, `BlocksFollow` | `HeldOnce`, `BlocksFollowTurns` |
| | `OnlyTooBigRefused`, `LoneTurnStays`, `OrderStays` | `RefusedOnlyIfTooBig`, `LoneTurnKeepsItsBlocks`, `OrderKept` |
| `AdmissionQueueProofs` | `LineSound`, `FirstComeFirstServed` | `LineIsSound` (slots, and the first in line is awake or will be woken), `NoOvertaking` |
| | `QueueImplementsPermits` | `ImplementsPermits` |
| `ServeProxyProofs` | `BudgetIsKept`, `FaultsStay`, `DeadChildrenAreReplaced` | `WithinBudget`, `FaultsStayInTheirModel`, `DeadChildIsReplaced` |
| | `ChildIsNeverBusy` | `NeverBusy`, under `QueueFitsChild` |
| `ComponentProofs` | `LinksStayConsistent`, `QueueKeepsOrder` | `LinksAgree` of the intrusive free list; `ImplementsOrder` |
| | `LeavesOwnKv`, `DecodesPlainly` | `KvIsTheTurns` of the serial decode loop; `ImplementsPlain` |
| | `FailuresAnswerEarly` | `EarlyFailureIsHttp` |
| | `PagesReserved`, `AllocateIdEnds` | `PagesAreReserved`; the search for a free reservation ID ends |
| | `StoreWithinEnvelope`, `EvictsByUse` | `WithinEnvelope` and `EvictionFollowsUse` of the weight store |
| | `SessionLayersInStep`, `SessionReadsOwnPast` | `LayersInStep` and `ReadsOwnPast` of the request session |
| `BlockPoolProofs`, `CollectionTheorems` | lemmas | what the operations of a manager record and the helpers on sets, sums and lines compute |

**Assumptions.** Beside types and finiteness: `ManagerAssumption` says that a
prompt is not empty and not longer than a sequence may get, that hash keys are
records of a salt and extra keys, and that `None` is no block, no block key and
no copy (in the code it is an `Option`). `ProxyAssumption` says that the registry lists a model
once and that a model with an engine generates; `BudgetAssumption`, which
`check_budget` of the registry checks before the front starts, that each model
and all resident ones together fit the budget. `KvAssumption` has more IDs than pages.
`DecodeAssumption` says that prompts are sequences of tokens and that the
bounds of a draft are numbers in their order. `WeightAssumption` says that a
checkpoint has finitely many tensors, that experts are numbered, and that no
content is the mark of an absent one. `SessionAssumption` says that a schedule
names the kinds of layers there are and that each layer that reads compressed
keys reads those of the latest owner, of its own ratio (`validate_schedule`), and
that there is an owner of ratio one, without which an append could not score an
incomplete group. `QueueFitsChild` is a hypothesis of
`ChildIsNeverBusy` alone: each request is for a model that runs one at a time,
or is a generation for a model with an engine. It excludes the requests for which the queue's
limit and the child's capacity differ; run `proxy_busy` shows such a request
turned away (finding 3), and run `proxy` has both kinds that the hypothesis
allows.

**The ledger.** That an append in place dirties a
private block needs the count of the open block to be the number of its
holders (`CountsExact`), and that the open block is unpublished and is the
partial tail of everyone who holds it (`OpenIsPartial`): otherwise a sharer that
sees it as full could publish it. `Shape` says that dead sequences hold nothing
and that open and dirty blocks are held.

**The block manager.** `PoolInv` has the invariant of the ledger under the
refinement mapping as one of its parts, and beside it what the ledger forgot.
`SharedAgree`: two sequences that hold a block hold it at the same place of
their tables, under the same hash keys, with the same tokens up to its end. Sharing arises
from a fork, where this is plain, and from a hit, where it rests on two more
parts. `KeyedByText`: a block's key names the tokens of whoever holds it.
`HitIsSound`: a hit names the keys of its own prompt, whatever became of its blocks since; so
`CanAdmit`, which compares the blocks' keys with those of the hit, admits a
stale hit only when the blocks hold what it was made for. `HostView` ties
the hash chain and the unhashed tokens the host keeps to the sequence's text,
which makes the key a commit publishes the right one; `OwnContents` ties the written cells to the
text, and is preserved because a block one writes to is nobody else's (ledger:
`DirtyIsPrivate`) and an unwritten block is never shared. `Lengths` orders
computed, written and reserved, so that a commit claims only what is written
(`PublishedIsWritten`). `MapAgrees` and `Queue` are about the prefix map and the
free queue, where unkeyed blocks stand before keyed ones. The proof has one
lemma per operation and part; all operations that reserve a slot share one
(`Grows`: in place, in a new block, or in a copy of the shared tail).

The step simulation is in the same module: each `Step` of the manager, under
`PoolInv`, is a step of `BlockLedger` or leaves its variables alone, with `Admit`
as the one that joins a lookup's blocks, new blocks and the dirty ones. So the
theorems about the ledger hold of the manager.

**The engine loop.** `Sound` relates the engine to the outcomes of its turns:
each turn that is live is in one place (`Places`), sequence IDs are used by one
turn each and every ID with slots has an owner that will free it, a running
turn, the one being prefilled or the retired list (`Owned`), what the slots take
is within the pool (`Fits`), and a running turn has slots for just the tokens
before its next input, one more if it is in the queued step (`Context`). A step of the loop is
several calls, and between two of them turns have left the lines that still own
blocks, or rows are ahead of their turns: `EngineOK` is parametrised by the
turns that are `leaving` and `Context` by the IDs that are `ahead`, so that
each call (`Release`, `ReleaseRetired`, `Requeue`, `Accept`, `Extend`) has a lemma that says how it
changes both. `Goes` is what each phase of an iteration does to engine and outcomes, and is
transitive (`GoesTwice`): soundness is kept, turns only leave, those that stay
stand in the same order (`SoonerKept`), a turn that is refused for its size needs more than the pool
(`RefusedBig`), and one that runs alone keeps its slots (`LoneStays`). The two
refusals rest on the sum of what is taken being what the other turns hold: when
nobody else holds a block, only the turn's own need can exceed the pool.

**The queue.** `QueueInv` counts running threads, says that the line has each
waiting thread once, and that a first in line with a free slot is awake, about
to be notified, or about to look (`FirstIsWoken`).

**The proxy.** The invariant is proved in layers, each using those before it:
`Counts` (in-flight counts are the threads that hold them) and `PermitsHeld`
(who has left the queue holds a permit); `OneStarts` (who clears or starts holds
residency, and the child it is about to start is absent); `RoomIsMade` (the
models left running by the snapshot of victims, and the one to start, fit: a
victim that became busy makes the thread give up, and nobody else starts anything while it holds the lock);
`Addresses` (an address is older than a starting process), `Faults` (a broken connection
means that a process of that model was faulty), `Admissions` (a child works only
for requests that hold their permits; hence `NeverBusy`).

**The free list.** `QueueInv` says that some sequence of distinct blocks is
`Linked`: its neighbours are the links both ways, its ends are head and tail, its
elements are the queued ones. Each operation then has a lemma that names the
sequence it leaves (`Append(w, b)`, `<<b>> \o w`, `Keep(w, Blocks \ {b})`).
`WalkIs` shows that following the links reaches just that sequence, which gives
`LinksAgree`, and the refinement of `FreeOrder` from the lemmas.

**The decode loop.** `DecodeInv` says for each phase of an iteration what the
cache holds: the prompt, the tokens kept, and behind them the steps that were
queued ahead of their readback or the rows of a draft, which are tokens that
plain decoding would pick (`Steps`, `Propose`) as far as they are accepted. With
it, each settled pick or verified row is a step of `PlainDecode`, and a rollback
cuts what was not accepted.

**The weight store.** `WeightInv` says that the store counts what is on disk
(`StoreFits`: bytes per expert, and a line of use with each stored expert once),
what each reader is doing and that the one that fetches is alone (`ReadersFit`),
and that the line of use is the order of last uses in the journal (`OrderFits`).
The last of these does not hold of an expert whose payload was just written or
read and whose use is not yet: it excepts those in a reader's hand (`InHand`).
An expert that is evicted leaves the line and stays in the journal, so the order
is compared only among stored experts; and one that is stored again goes to the
end of the line while the journal still has its old use, which is why it counts
as in hand until it is touched, or its payload is evicted once more. `last` is
the end of the journal, because `touch` writes no line for an expert used twice
in a row. Room is made under the lock with the counts of that moment
(`VictimsIs`), which keeps the envelope whatever was decided before the
download. At a restart both lines, the one in memory and the one replayed
(`OpenedIs`), follow the same journal, so they agree on all experts
whose use was written (`KeepAlike`).

**The request session.** `SessionInv` says in full what each layer holds when it
has taken the tokens before `end` in `count` calls (`LayerOf`): the history of an
Engram, the prefix of an owner, which is the sequence of its complete groups
(`KeysOf`), the open group's one token in the compressor, and in the ring the
last `Window` tokens, each at its residue. While the request is not poisoned all
layers are at `nextStart` and at one call (`LayersAgree`), which the publication
kept for incomplete groups names as well (`PriorIs`). While a step runs, the
layers before the one whose turn it is are a step further, the others are not,
and what the step put out so far is right (`RunFits`): reads, scores, and the
publication a later layer of the same step takes. Of the layers of a poisoned
request nothing is said, and nothing need be: both marks refuse every call until
all is built anew (`MarksAgree`), and `<<built, p>>` tells what a rebuilt request reads
from what the old one left. The lemmas are arithmetic on residues: a ring
written by a chunk holds the last `Window` tokens again, whether the chunk is
shorter or longer than the ring; each of the three index computations names the
slots of a query's window in order; groups and held slot continue the
prefix at any length, odd or even. That the checks of the stages never refuse
follows from the same facts, so a step can be stopped only from outside. The
first append takes two tokens or more and a later chunk may take one: the
ring is read as a ring only for the latter, which is why the invariant has
`nextStart # 1`.

**Replies.** `ReplyInv` says that while nothing was said, nothing was written
and the request is not answered, in every phase of the turn.

**Sums, lines and counts.** Memory budgets and pages are sums over finite sets.
The library proves nothing of folds, and its induction theorems take
a predicate as a parameter, which the installed provers cannot instantiate;
`CollectionTheorems` does the induction on the set of subsets that satisfy the
statement, of which a smallest exception is taken. The models write sums with
`SumFunctionOnSet`, and what `retain` or a filter leaves of a queue with `Keep`
and `AtPlaces` (module `Lines`), defined by the places that are kept, because
nothing can be proved of the recursive functions behind `SelectSeq`,
`SetToSortSeq` and `MapThenSumSet`. `Opened` keeps of the journal the last place
of each expert, which is what moving each to the end in turn leaves.

**Only model-checked.** All liveness properties (`EveryTurnEnds`,
`WritersReleased`, that everyone in the queue is answered, that every forward
ends), which need fairness and `ENABLED` and are out of the prover's reach. The
prefix cache (`ReusesOwnValues`, `BytesExact`, `RestartKeepsNewest`) and row packs
(`RowsReadBack`, `RowsSurvive`), whose invariants relate directories, queues of writes and
logs to what was read from them; and `OutputMatchesEvents`, `StreamedMessageIsWhole` and
`WithholdsMarkersOnly`, which compare an incremental result with one computed by
recursion over all of the events: induction over data, which cannot be done
here. The violations of the five findings are of course TLC's.
`PlainDecode`, `FreeOrder` and `ModelPermits` are small enough to be read.

## Plan

Done: the modules above. Next:

1. Proofs: `RowsReadBack` of `RowPack`, `BytesExact` of `PrefixReuse`.
2. SMC particles over forks of one sequence, and the adaptive length of drafts.
3. The recent prompt prefixes a serial child remembers for chats.
4. `migrate_legacy` of row packs and the header manifest of the range cache.
5. Exclusive jobs beside batched turns inside a child.

## Not modelled

Of the DeepSeek session: which keys the scores pick once there are more than
`index_topk`, candidate sets of the ratio-one indexers, resets of single layers
with their epochs (a request rebuilds everything), and batches of more than one
(its sessions have one). Numeric code (model crates, codecs, media, kernels): tensor shapes, quantization
and Metal kernels, checked by the repository against reference outputs; most of
its lines compute values whose correctness is not a matter of order. The
sampling arithmetic and the grammar automata, whose states an external library
builds: a pick is any token. HTTP parsing, request validation, bodies that are
not streamed, templates and the tool dialects other than tagged JSON, telemetry,
command-line front ends, vendored bindings and scripts: pure functions or pure
I/O. In modelled components: metrics and retry hints; the branch of a
`BlockManager` without prefix caching is modelled and no run turns caching off;
the encoding of a stored file; a client that leaves in the middle of a stream
(it ends like one that leaves before, `ClientLeaves`); the interplay of a first
segment that only searches with the moment the 200 of a Messages reply is
opened.
