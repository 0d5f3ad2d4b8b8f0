# Verification of the DeepSeek-V4 serving path

This directory holds TLA+ models of the serving path this repository adds to
`tpu-inference` (under `src/work/tpu-inference/tpu_inference/`) so that
DeepSeek-V4 runs on TPUs, and of the stateful protocols around it (KV offload,
the two forms of disaggregated serving), with the TLC configurations that check
them and TLAPS proofs about the attention layer and its packed buffer, the
serving step, the persistent batch, the data-parallel scheduler, the free queue
with the engines that allocate from it, and the transfer between servers. Paths below are relative to
`tpu_inference/` unless they start with `vllm/` (the vLLM checkout in
`src/work/vllm/`) or `src/`.

The one question behind everything is: *is every token sampled from exactly
the tokens of its own request?* V4 answers it with an unusual amount of state.
Each attention layer keeps a ring of recent keys, a cache of compressed blocks
and a half-finished compression block, and all of it must follow the right
request at the right position through padding, wraparound, preemption,
asynchronous scheduling and several schedulers. Most failures are silent: the
model produces fluent text from the wrong context.

## 1. Inventory

| Component | State | Operations | Talks to |
|---|---|---|---|
| **V4 attention layer** `layers/jax/attention/deepseek_v4_attention.py`, state seeding and stepping in `models/jax/deepseek_v4.py` | per layer: sliding-window ring, compressed cache, compressor state, indexer cache and state | seed from a padded prefill, one decode step | the model entry passes it slices of the packed buffer |
| **V4 model entry and packed buffer** `models/jax/deepseek_v4.py`, `runner/kv_cache_manager.py` | one packed array per layer, one sequence long | prefill from position 0, decode from `start_pos`, per-row output | runner (`attn_metadata`), attention layer |
| **Model runner, inputs** `runner/tpu_runner.py` | id and position buffers reused between steps, `_pre_async_results` | lay out the ranks' tokens, pad, gate prefill/decode, pick logits rows, sample | scheduler output, model entry |
| **Persistent batch** `runner/persistent_batch_manager.py`, `input_batch.py`, `block_table.py` | cached requests; dense rows of tokens, counts and blocks | apply a scheduler output, add, remove, condense, swap, reorder | scheduler output, runner |
| **DPScheduler** `core/sched/dp_scheduler.py` | `assigned_dp_rank`, cached outputs, two pipes and a process per rank | `add_request`, `schedule`, `update_from_output`, `finish_requests`, `reset_prefix_cache`, counts, `shutdown` | the engine loop (`vllm/v1/engine/core.py`), one vLLM scheduler per rank |
| **Checkpoint loader** `models/jax/deepseek_v4_loader.py` | stashes of partial tensors | stream shards, consolidate, place | checkpoint files, device mesh |
| **KV offload** `offload/` | host chunks with reference counts and an LRU order, staging slots, a tracker per request, saves and loads under way | match a prefix, reserve, commit, evict, load before a step, save after it, report | vLLM's scheduler, the worker and its copying threads, by two queues |
| **Contiguous free queue** `runner/continuous_block_pool.py` | the free blocks, as a set and as sorted intervals | take one or many, remove, return | block pools of `core_tpu.py` |
| **Disaggregated serving in one process** `core/core_tpu.py` | Request objects and `_requests` shared by all threads, a transfer backlog, a decode backlog per engine | add, prefill, gather, transfer, insert, decode | one prefill and several decode engines |
| **Disaggregated serving across servers** `distributed/tpu_connector.py`, `host_kv_pool.py` | on P: requests to send, `reqs_wait_pull`, host buffers; on D: requests to load, pulls under way | offer, copy to host, pull, insert, notify, expire | two vLLM engines, a side channel, JAX's transfer server |
| **Ray executor** `executors/ray_distributed_executor.py` | compiled DAG, in-flight batches | execute | workers |
| **Speculative decoding** `spec_decode/`, `runner/speculative_decoding_manager.py` | draft tokens | propose, verify | runner |
| **MoE, quantisation, kernels, other models** | none that outlives a step | | |

What is hard, and what has to hold:

* *Attention layer.* Index arithmetic modulo the window and the compression
  ratio; padding that must not leak into the state; stale slots left after a
  shift; a buffer that is never cleared between requests. It has to read exactly
  the last `window_size` positions and exactly the complete blocks, and a state
  built by decode steps has to agree with one built by a prefill.
* *Serving step.* One state and one row of ids for all data-parallel ranks; the
  decode gate looks at rank 0; requests queue, are preempted and aborted, and up
  to two batches are under way. Every sampled row has to have attended to its
  own request, all of it and nothing else.
* *Persistent batch.* A difference protocol: the scheduler sends changes, and the
  runner must reconstruct tokens, counts and block tables exactly, while the
  latest tokens are still on the device.
* *DPScheduler.* Distributed calls over pipes with no request ids, workers that
  raise or die, aborts between scheduled and reported batches, shutdown. Results
  must belong to the command they are taken for, every client must be answered,
  no process may be left.
* *Packed buffer.* Allocator, layout and attention layer each compute the shapes
  of the state for themselves; one disagreement slices a field into the next.
* *KV offload.* Scheduler and worker keep two records of one cache and meet only
  through queues, up to two steps late. Slots, pins and pending chunks must be
  released once each whatever happened to the request in between, and a chunk that
  can be loaded must hold what its hash says.
* *Disaggregation in one process.* Three kinds of threads, bounded queues, no
  locks. No queue may leave all threads waiting, no thread may read a Request
  object that another is still updating, and scattered blocks must receive the
  right pieces of the KV.
* *Disaggregation across servers.* Lost notifications, expiry and aborts race with
  the pull. P may free KV only after D has it or time is up, each host buffer has
  one owner, D never runs on blocks that were promised and not yet filled.

`PROJECT.json` lists the hazards line by line with the properties aimed at each.

## 2. Plan

Done, in this order:

1. the attention arithmetic and the layer's state machine with its proofs
   (`V4Attention`, `V4DecodeState`, `Lemmas`, `V4DecodeStateProofs`) and the
   abstract attention they implement (`V4Context`);
2. the data-parallel scheduler (`DPScheduler`);
3. the serving step that composes runner, model entry and state (`V4Serving`,
   which implements `V4Context` too);
4. the persistent batch (`RunnerBatch`);
5. the packed buffer (`V4Layout`, which extends `V4DecodeState`, with its proof in
   `V4DecodeStateProofs`);
6. the offload cache (`OffloadManager`, pure operators) and the connector with the
   scheduler and the worker around it (`OffloadConnector`);
7. the contiguous free queue (`ContinuousFreeQueue`, pure operators) and the
   orchestrator whose engines allocate from it (`DisaggEngine`);
8. the connector between a prefill and a decode server (`KVTransfer`);
9. proofs of the serving step (`V4ServingProofs`), the scheduler without faults
   (`DPSchedulerProofs`) and the transfer between servers (`KVTransferProofs`), with
   `Filtering`, the removal of requests from a queue that five modules share;
10. proofs of the free queue and of the orchestrator around it
   (`DisaggEngineProofs`);
11. proofs of the persistent batch (`RunnerBatchProofs`), the tokens of
   asynchronous scheduling last;
12. the proof of what the blocks of the decode engines hold (`DisaggKVProofs`).

Next:

1. Proofs: which of `PinsExact` and `CacheExact` of `OffloadConnector` survive when
   `StagingBacked` does not hold.
2. `V4Loader`: the streaming and consolidation protocol (which shards may be
   dropped when), across hosts.
3. Several workers behind one offload connector.

## 3. The modules

### V4Attention: the cache arithmetic

Pure operators, one per index computation of `deepseek_v4_attention.py`. A
key/value vector is abstracted to the token it was computed from, `<<request,
position>>`, and a compressed vector to the slots it was pooled from and its
rotary position. `Empty` (weight zero in the softmax), `Pad` (a zeroed input,
which *does* get weight) and `Zero` (never written) are told apart because the
difference decides whether a stale slot does harm. `Exact(r, p)` is the
reference: what a query at position `p` has to see.

JAX's conventions are part of the model: an out-of-range scatter is dropped,
`dynamic_slice` clamps its start, and a negative start counts from the end
first. (A comment in the compressor says the rotary start is clamped; it wraps
to the end of the table. The value is never used: it belongs to an incomplete
block, which the mask hides.) The choice of the indexer is a free choice of
`IndexTopK` of the visible blocks, because the scores are data.

### V4DecodeState: one layer's state

| Variable / action | Code |
|---|---|
| `swa`, `comp` | `kv_cache[:win]`, `kv_cache[win:]` |
| `cst`, `icomp`, `ist` | compressor and indexer states and the indexer's cache |
| `attn` | what the last query read |
| `Prefill(r, T, nr)` | `attention_prefill` on a bucket of `T` rows of which `nr` are real, and the closed-form seeding of the state |
| `PrefillRaises` | the seeding slice is longer than the bucket: tracing fails |
| `Decode` | `attention_decode_step` at `start_pos = len`: all writes, then the reads |
| `Leave` | the request ends or is preempted; nothing clears the buffer |

`V4Context` is the abstract specification: an attention that keeps no cache.
`RefinesContext` says `V4DecodeState` implements it.

### V4Layout: the packed buffer

The arrays of `V4DecodeState` travel between steps as one flat array per layer.
`Arrays` is what the attention layer builds, `Layout`'s shapes and offsets are
what the model slices by, `Allocated` the size the KV-cache manager computes from
the configuration alone. `PackedExact` says that the packed state fills the
allocated array and that unpacking it gives back every field. An element is its
array, the contents of its row and its column.

### V4Serving: a step of the engine

Each rank queues requests and runs one (`--max-num-seqs=1`). `Execute` is a whole
step: `Schedule` (the DP scheduler's choice), `InputIds` (rank `k`'s tokens start
at `k * P`; the rows of an idle rank keep what an earlier batch left, `Dirty`),
`IsDecode` (`_maybe_set_v4_decode_start_pos`), `Run` (state and the rows that
are sampled). The layer's state is abstracted to the sequence of tokens it
stands for, which is what `V4DecodeState` establishes. `Update`, `Preempt`, `Abort` and
`AddRequest` are the scheduler's other operations. `run_model` is jitted, so the
per-sequence loop of `__call__` sees tracers, gives up and is never taken; it is
not modelled.

### RunnerBatch: the persistent batch

`Step` is `schedule`, `update_states`, `_prepare_inputs` and sampling in one:
`UpdatedCache` and `UpdatedRows` apply the scheduler output, `AddRequests` fills
holes, `Condense` closes the rest, `Reorder` moves single-token rows to the
front, `Inputs` gathers ids and substitutes tokens still on the device, and
`Append1` or `Placeholders` record what was sampled. `fed` remembers what the
step ran (`got`) beside what the scheduler meant (`due`), and `back` whether a
request was ever preempted (`num_preemptions`). vLLM's FCFS scheduler
is the environment: queues, token budget, block pool, preemption from the tail,
`reset_prefix_cache`. Prefix-cache hits and the priority policy are left out: they
change which tokens are scheduled, not how the runner follows. The scheduler
takes the lowest free blocks; which ones are free is all the runner can see.

### DPScheduler: ranks behind pipes

A call is three kinds of steps: `Invoke` sends the commands, `Receive` (or
`ReceiveEof`) takes one rank's result, `CallReturns` and the like continue. In
between the workers run (`WorkerSchedule`, `WorkerUpdate`, `WorkerFinish`,
`WorkerReset`, ...), die (`Crash`) or raise. The engine loop's order of calls
(input, step, batch queue, pause, shutdown) comes from `vllm/v1/engine/core.py`.
`shutdown()` is modelled pass by pass, with `is_alive` and the send as separate
steps. Calls that always go together are merged (see the module's header), and
KV connector metadata, statistics and structured output are left out. The class
docstring still says that a rank is freed when its request is "completed or
preempted"; the code keeps it through preemption, and so does the model.

### OffloadManager and OffloadConnector: KV in host memory

`OffloadManager` has the two bookkeepers of `offload_manager.py` as operators on a
record: `LRUCacheManager` with its chunk pool (`Lookup`, `Evict`, the allocation
of chunks for a save, pins for a load, `MarkCompletion`) and
`StagingBufferManager` (`Take`, `Give`).

`OffloadConnector` is the protocol. A scheduler step is taken in parts, in the
order of `schedule()`: running requests (`RunNext`), waiting ones (`Admit`,
`Refuse`: `get_num_new_matched_tokens`, then `update_state_after_alloc`), then
`build_connector_meta` (`DropFinished`, `BuildReq`, `Emit`). `Execute` is the
worker's `start_load_kv`, forward pass and `wait_for_save`; `Transfer` and
`TransferFails` are its background threads, `Report` is `get_finished`, and
`Update` the scheduler's `update_from_output` with `update_connector_output`. A
block of KV is `[key, n]`: the hash of the tokens it was computed from and how
many of them it holds, which is what tells right KV from wrong.

Abstractions: vLLM hands out the lowest free HBM block (in the code the least
recently freed); worker, thread and update steps are taken between two
schedules, since a schedule touches nothing they touch; a request id is recycled
when nothing refers to it any more.

### ContinuousFreeQueue and DisaggEngine: one process

`ContinuousFreeQueue` is the free list of `continuous_block_pool.py`, one
operator per method, on a record of the set and the intervals.
`IntervalsOf` is the reference: the maximal runs of the set.

`DisaggEngine` is the orchestrator of `core_tpu.py`. The prefill thread's loop is
`PBegin` ... `POutput`, with a step wherever another thread can see a difference:
between gathering the KV (`PGather`), the blocking put (`PPut`), the scheduler's
update (`PUpdate`) and the removal of the request (`PRemove`). `TGet` and `TPush`
are the transfer thread, `DBegin` ... `DExecute` a decode thread (`DInsert` takes
blocks and inserts the KV run by run; `DLose` is the path with no room).
Aborts are left out because the handler in the code is `pass`. `Overtake` says
whether a thread may get ahead of the rest of another's step; see below.

### KVTransfer: two servers

P's scheduler and engine thread (`PStep`, `PVisit`, `PReturn`, `PDelete`,
`PUpdate`), its copying threads (`CopyBegin`, `CopyEnd`), the listener (`Listen`,
`ListenReturn`, `ListenMark`), the channel (`Lose`), D's scheduler pass
(`DBegin`, `DPassOver`, `DPull`, `DRun`, `DNoRoom`, `DPassEnd`), D's worker
(`DWork`: insert, run, notify, start pulls, collect) and the pulling threads
(`PullEnd`). Expiry is a set of requests whose time has passed. A request on D
keeps to the blocks of its prompt: growth by decoding and preemption on D are not
modelled. What a pull does once P has dropped the KV cannot be seen in this
repository; in the model it waits for ever.

## 4. The runs

Each run checks one module with a `.cfg`; no definition is replaced. Where a
constant is a function (prompts, lengths, block hashes per request) a module
`MCOffload`, `MCDisaggEngine` or `MCKVTransfer` defines its value. `csa` and `hca`
check `V4Layout`, and with it `V4DecodeState`, whose specification it shares.

| Run | Bounds | Shows |
|---|---|---|
| `csa` | window 5, ratio 4 with overlap and indexer, 22 positions, buckets 4 to 32, two requests | the window wraps four times, five blocks complete, top-k is exceeded, and every prefill length meets a decode. All properties of the layer and its packed form (head dimensions 3 and 2), the inductive invariant (with the type invariant) and the refinement |
| `hca` | window 3, ratio 8, 27 positions | no overlap and no indexer; buckets shorter than a block raise, and the blocks that are read are exact all the same |
| `serve` | 1 rank, 3 requests open, 5 tokens, two batches | every sample is exact, the engine drives it as `V4Context`, all requests end |
| `rb_sync` | 3 requests, prompts 1 and 3, 5 tokens, budget 4, 3 blocks of 2, resets | tokens, order and counts under chunking, preemption, resets and aborts |
| `rb_async` | 6 tokens, 4 blocks, two batches | what requests that are not preempted run while their tokens are on the device, block tables through preemption and return |
| `dp_engine` | 2 ranks, 2 requests of 2 tokens, batch queue of 2, prefix hits, pauses | results and batches stay paired, lookups never miss, the table is reclaimed, shutdown completes |
| `dp_faults` | synchronous engine; crashes and raising resets | no call blocks for ever; clients are answered or the engine is down |
| `offload` | 2 requests, 3 HBM blocks and 3 chunks of 2 tokens, 2 staging slots, two steps in flight; aborts, failing transfers, decode saves | slots, pins and pending chunks are exactly what is under way; what can be loaded is right; no read of wrong KV; nothing raises but a failed transfer |
| `disagg_engine` | 3 requests (two share a block), 2 decode engines, 6 blocks each, backlogs of 1 | intervals and block ownership, KV of every decode step, outputs in order, no thread dies, no circle of waiting threads |
| `kv_transfer` | 3 requests (two share a block), 4 blocks on each side, 1 host buffer; lost notifications, expiry, an abort | buffers have one owner, P releases after D's insert, D reads right KV, no assertion fails, both sides keep admitting |

The windows, ratios and lengths are the smallest at which every branch of the
index arithmetic is taken at least twice (wrap, boundary, stale slot, truncation
by `index_topk`); two requests suffice for leftovers, as the buffer only remembers
the last one before the running one. A layer with ratio 0 has no run of its own:
its ring is that of `hca`, and the theorems below cover every ratio. Three rows are the least at which condense
moves a row over another and the two pointers of the reorder meet in every way.
Two ranks show every disagreement between ranks; the order among more adds none.
In the three modules of KV protocols the pools are too small for all requests
together and large enough for each alone, so that blocks are reused, chunks
evicted and requests preempted or made to wait, and at least two prompts compete
for (or share) a block.
Deadlock checking is off where the system may be idle with all requests done, or
where a step has raised. `SYMMETRY` is used in `RunnerBatch` only, where requests
are interchangeable and no liveness is checked.

Each module but `RunnerBatch` also states `TypeOK`, the shape of its state. It is
proved for `V4DecodeState` (as part of `IndInv`) and `KVTransfer`; the others are
documentation of the variables, true in the instances above.

Runs that end in a violation each state something the repository says, and what
TLC shows instead (`findings` in `PROJECT.json` quotes the lines):

| Run | What happens |
|---|---|
| `rb_preempt` | async: a request preempted while its token is on the device keeps the placeholder 0 and is prefilled again with it |
| `offload_holes` | the middle block of a prompt is in the host cache already, so the blocks to save are not contiguous: `_prepare_save_plan` raises, the worker logs it and goes on, and the staging slots and chunks stay reserved |

More disagreements of this kind can be reproduced by changing constants of the
configurations; `serve`, `rb_sync`, `rb_async`, `dp_engine`, `dp_faults`,
`disagg_engine` and `kv_transfer` show that the same properties hold where these
cases are avoided.

* `V4Serving`, `DpSize = 2`, two requests, `MaxModelLen = MaxBatchedTokens = 4`,
  paddings 2 and 4, `BatchQueueSize = 1` violates `ServedExact`: `max_num_seqs=1`
  holds per rank ("The total number of requests is dp_size * max_num_seqs",
  `runner/tpu_runner.py:465`), so two requests share the one state that "Hits only
  the V4 single-active-seq decode shape" (`:1385`).
* `V4Serving`, one request, `MaxBatchedTokens = 2`, paddings 2 and 4 violates
  `ServedExact`: a prompt that is split loses all but its last chunk.
* `RunnerBatch`, `Async = FALSE`, `Resets = TRUE`, two requests, `NumBlocks = 6`
  violates `BlockTablesExact`: a request preempted by `reset_prefix_cache` and
  resumed at once has its new blocks appended to its old row, where the scheduler
  says "new_block_ids will be used as the request's block IDs instead of appending
  to the existing block IDs" (`vllm/v1/core/sched/output.py:112`).
* `RunnerBatch` with `Async` and `Resets` both TRUE violates `TokensExact`: a token
  the scheduler discards after a reset replaces the last token of the request's
  next prefill, since the request is still in `placeholder_req_id_to_index`. If it
  has no output token yet, `output_token_ids[-1]` raises (`Raises`).
* `DPScheduler`, `Events = {"pause"}`, `BatchQueueSize = 2` violates
  `ClientsAnswered`: the interface says "Returns: Tuple of (req_id, client_index)
  for requests that were aborted." (`vllm/v1/core/sched/interface.py:154`), and
  `finish_requests` of `DPScheduler` returns nothing.
* `DPScheduler`, `Events = {"reset_error"}`, `BatchQueueSize = 1` violates
  `PipesInStep`: a reset that raises on one rank leaves the later results in their
  pipes, and the next call takes them for its own.
* `DPScheduler`, `Events = {"crash"}` violates `WorkersGone`: a worker that dies
  between `is_alive` and the send aborts `shutdown()`, and the others stay.
* `OffloadConnector`, `Batched = TRUE`, `Faults = TRUE` violates `CacheExact`: a
  batched save whose transfer raised counts as done, and its chunks are offered.
* `DisaggEngine`, `Overtake = TRUE` violates `NeverKilled` and `OutputsExact`. The
  prefill thread hands a request on before the scheduler has recorded the step
  and looks it up again afterwards. If a decode thread inserts it first, the lookup
  raises and `JetThread` kills the process, or decoding starts from the state before
  prefill, against "request: The vLLM request object, containing the state after
  prefill.".
* `KVTransfer`, `Overlap = TRUE` violates `PoolExclusive`: listener and engine thread
  meet on one entry of `reqs_wait_pull` and both return its buffer, while `get_buffer`
  says "Checks out an exclusive buffer from the pool.".
* `KVTransfer`, `DBlocks = 3` violates `DServes`: a request whose KV has arrived
  waits at the head of the queue for one more block, and the requests behind it
  hold the blocks they were given for their own pulls.
* `KVTransfer`, two prompts of the same single block with `Rest` 1, the first aborted,
  violates `ReadsExact`: promotion files the blocks in the prefix cache ("Now that
  the blocks are ready, actually cache them.") before the KV is inserted; after an
  abort in between, the next request hits blocks that were never written.

Smaller things seen while modelling, which no run is about: after a full local hit
D never notifies P, though a comment says "In both cases we need to send
notification to let P free memory", and P waits for expiry; the uuid map keeps
its entry when a request expires, and `reqs_pulling` the KV of a request aborted
after its pull; an idle server collects neither expired entries nor the pull of
an aborted request; `core_tpu.py` decodes a request of `max_tokens = 1` once more,
drops one for which a decode engine has no blocks (`lost`), and chooses the decode
engine with the fewest requests in its scheduler where its docstring speaks of
the least full backlog.

**Fairness.** `V4Serving` assumes weak fairness of `Execute` and `Update`: the
engine's busy loop runs as long as it has work. `DPScheduler` assumes weak
fairness of the engine's own continuation and of every worker loop, and strong
fairness of `Step`, because client calls interrupt its being enabled but the loop
steps after it has drained its input queue. Clients, aborts, preemption, pauses
and crashes are never assumed to happen. `DisaggEngine` assumes that each thread
goes on whenever its queue or its engine lets it, and `KVTransfer` that threads keep
running, time passes (so that a request expires if nobody frees it) and the
proxy forwards P's answers; notifications may all be lost and clients need not
come or abort. Both write weak fairness out as `[]<>` formulas with each thread's
own condition in place of `ENABLED`, which TLC evaluates much faster. `RunnerBatch`
and `OffloadConnector` state safety only: whether a save happens at all is a
matter of room, and a lost transfer stops the worker.

## 5. The proofs

### The attention layer and its packed buffer

`V4DecodeStateProofs` proves, for every window, ratio, bucket set, length, top-k
and set of requests:

| Theorem | Statement |
|---|---|
| `IndInvariant` | `Spec => []IndInv` |
| `TypeCorrect` | `Spec => []TypeOK` |
| `WindowCorrect` | `Spec => []WindowExact` |
| `BlocksCorrect` | `Spec => []BlocksExact` |
| `SeedParityCorrect` | `Spec => []SeedParity` |
| `VisibleBlocksStableCorrect` | `Spec => VisibleBlocksStable` |
| `Refinement` | `Spec => RefinesContext` |
| `PackedCorrect` | `Spec => []PackedExact` |

*Assumptions* (in the modules that declare the constants, evaluated by every
run): `SizesAssumption` (positive sizes), `BucketsAssumption` (a bucket at least as
long as a block is a whole number of blocks: buckets are powers of two from 16,
ratios 0, 4 and 128), `ContentsAssumption` (the special contents are no tokens),
`EngineAssumption` (the state is sized for `MaxModelLen` and some bucket holds the
longest prompt), `DimsAssumption` (positive head dimensions).

*Argument.* The properties speak of what the last query read. That is not
inductive: the next read depends on slots the last one did not show. `IndInv` adds
what every later read needs while a request runs: the ring holds the last `Win`
positions in their slots (`RingHolds`), the compressor holds the open block and,
with overlap, the block before it (`OpenHolds`, `FrontHolds`), and the caches hold
every complete block (`CacheHolds`). It says nothing of slots behind the open
block, which really are stale. Lemmas cover each operator: a write keeps the ring
(`RingWrite`), seeding establishes it from a padded bucket (`RingSeed`), the index
set reads exactly the window (`WindowRead`), an emission on a boundary is the
canonical block (`EmitCanonical`), a step advances the compressor
(`CompressorAdvance`), seeding builds it (`StateSeed`, `CacheSeed`), and what
prefill and decode read is in `Exact` (`PrefillReads`, `DecodeReads`).
`Lemmas` supplies the facts on quotients and remainders they use, which the
SMT backend does not find with a symbolic divisor. `PrefillInd` and `DecodeInd`
put them together; the theorems follow. TLC checks `IndInv` in run `csa` as well.

*The packed buffer.* `PackedExact` needs only `TypeOK`: it fixes the domains of
the arrays, so the rows and columns the layer builds are those of the layout
(`ShapesAgree`), their products add up to what the allocator computed (`SizesSum`),
each field's slice lies within the array (`Within`) and holds that field
(`PackedParts`, through `TwoParts` and `FlatLength` on concatenation). It covers
every kind of layer: with and without overlap, compressor and indexer.

### The serving step

`V4ServingProofs` proves, for every set of requests, length, padding and depth of
the batch queue, **if `OneRank`**: one data-parallel rank, and a token budget that
holds the longest request, so that no prompt is cut into chunks. That is how V4 is
served so far; without it the properties are false (section 4).

| Theorem | Statement |
|---|---|
| `ServingInvariant` | `OneRank => (Spec => []ServingInv)` |
| `ServedExactCorrect` | `OneRank => (Spec => []ServedExact)` |
| `ServingRefinement` | `OneRank => (Spec => RefinesContext)` |

*Argument.* `ServedExact` speaks of the rows of the last step. `ServingInv` adds what
the next one needs: a waiting request has nothing computed and waits once
(`Placed`), so that it starts with a prefill from position 0 whatever the state
holds; of a running one all tokens but the last are computed, the state stands for
exactly those and the last row sampled was its own (`StateOwned`). Then `RunExact`
shows that the gate takes the decode branch exactly where that state is there to
be extended, and that a prefill replaces all of it. The refinement maps each
`Execute` to the prefill or decode step of `V4Context` by the same case split.

### The persistent batch

`RunnerBatchProofs` proves, for every number of requests, rows and blocks, any
prompts, block size and token budget, in which **preemption and aborts may happen
at any time**:

| Theorem | Statement | Condition |
|---|---|---|
| `RowsCorrect` | `Spec => [](up => DecodesFirst)` | |
| `RowsAlwaysCorrect` | `Spec => [](up /\ DecodesFirst)` | `~(Async /\ Resets)` |
| `CountsCorrect` | `Spec => []CountsAgree` | `~(Async /\ Resets)` |
| `BlockTablesCorrect` | `Spec => []BlockTablesExact` | `~Resets` |
| `TokensCorrect` | `Spec => []TokensExact` | `~Async` |
| `UnpreemptedCorrect` | `Spec => []UnpreemptedExact` | `~(Async /\ Resets)` |

`up` is false once a step has raised. The conditions of the first five cannot be
dropped: where they do not hold, TLC finds a raise, counts that differ, an old
block table and a placeholder that is run (section 4). `UnpreemptedCorrect` takes
its condition from `Counted`, on which it rests; whether it holds without is open.

*Assumption.* `RunnerAssumption`: positive sizes and length limit, prompts shorter
than that limit, and room in the block pool for the longest request alone, which vLLM
checks when it starts.

*Argument, the rows.* The rows of a step come from those of the last one by five
operations, and nothing relates two steps but the scheduler output. So the
lemmas are about the operations, for lists of any length: what update_states takes
out leaves holes (`UpdatedRowsProperties`), new requests fill the lowest holes and
then the end, each its own (`SlotProperties`, `AddRequestsProperties`), condensing
fills the lowest hole from the highest row until there is none and keeps every row
once (`CondenseProperties`, by counting the rows below a position), and the two
pointers of the reorder meet with the single-token rows before them
(`RoundSwept`, `SweepSwept`, `SwapProperties`, `ReorderProperties`).
`PreparedProperties` puts them together: *whatever was in the batch*, the rows of
a step are the scheduled requests, and the first `ndec` have one token.

*Argument, the rest.* What the scheduler does to a request is one lemma per action
(`ScheduledEffect`, `UpdateEffect`, `AbortEffect`, `ResetEffect`). On top of `Rowed`
three invariants say what a row and a cached state hold between two steps, each
conditional on the state the scheduler has the request in, since a request that
waits is written anew when it returns:

* `Counted`: the cached tokens are as many as the scheduler counts, plus one for
  each batch the request is under way in; with asynchronous scheduling this is also
  its number of placeholders. `CountsAgree` alone is not inductive, because the
  truncation in `update_states` uses the scheduler's count with placeholders, and
  it needs that a token is only reported for a batch that is under way.
* `Tabled`: while a request runs, the blocks of its row and of its cached state
  are the scheduler's. A reset breaks it: the request is taken from the queue while its
  row stays.
* `Exact`: the cached tokens are the request's own, and those of its row are the
  same. A placeholder breaks it.

*Argument, asynchronous tokens.* `UnpreemptedCorrect` follows from `TokensCorrect`
when scheduling is synchronous. When it is not, a placeholder is replaced by the
very next step or never, so a request must not be left out of a step while it has
a token to compute, and that is a fact about the budget that all requests share:

* `Budgeted`: whoever stands before a running request has at most one token left,
  and fewer of them need one than the budget holds. Budget is given out in the
  order of the queue, so each running request is given one (`BudgetReaches`,
  `OutputAfforded`); and all ahead of a request that is given less than it has left
  were given all they had, whatever is preempted, admitted, stopped or aborted
  around them (`BudgetedStep`, `BudgetedNext`). It also says that a request at the
  length limit has been stopped, without which the scheduler's count of what is
  left could grow when a token is reported (`LeftReported`).
* `Tokened`: of a running request that was never preempted and has tokens left, the
  cached tokens and those of its row are its own, but for one that may be on the
  device; that one is the last, the only one left to compute, and the device's
  value for it is the request's. Hence the substitution puts the right token at
  the right index (`PutSettles`, `TokenedInputs`), and the next placeholder is
  again the only one (`TokenedAfter`).

TLC checks `Counted`, `Tabled`, `Exact`, `Budgeted` and `Tokened` in the instances
of `rb_sync` and `rb_async` under their conditions too.

### The data-parallel scheduler

`DPSchedulerProofs` proves, for every number of ranks and requests, any token
limit, `max_num_seqs` and depth of the batch queue, **if `NoFaults`**: no worker dies
and no reset raises (aborts, pauses, prefix-cache resets and shutdown may happen
at any time). With a fault `PipesInStep` is false (section 4).

| Theorem | Statement |
|---|---|
| `SchedulerInvariant` | `NoFaults => (Spec => []SchedulerInv)` |
| `PipesCorrect` | `NoFaults => (Spec => []PipesInStep)` |
| `BatchesCorrect` | `NoFaults => (Spec => []BatchesPaired)` |
| `PlacesCorrect` | `NoFaults => (Spec => []LivesWhereAssigned)` |

*Argument.* The messages carry no identifiers, so that a result is the right one has
to follow from counting: a rank whose result is due has exactly one message in one
of its two pipes and every other rank none (`Pipes`). From that follows what each
worker has cached: the engine's batch queue restricted to the rank, with the batch
just scheduled if its answer is not collected yet, and without the one just
updated (`Caches`, `Cached`). A request is kept in `assigned_dp_rank` until its
end is reported in a scheduled batch *and* that batch is processed; `Gone` is the
set of those in between, and `Places` says that none of them is with a worker any
more while every other request is with the worker of its rank or with none. The
arguments of the command in progress (`Loads`) connect the two. There is one lemma
per action, and the lemmas `InvokeCall`, `TakeCall`, `AnswerCall` and `CallOver` for
the four moves of a call that the actions share.

### The free queue and the engines of one process

`DisaggEngineProofs` and `DisaggKVProofs` prove, for every set of requests and prompts, any number of
decode engines, any block size, pool size, token budget and backlog capacity, **if
`~Overtake`** (no decode thread takes a request up before the prefill thread is done
with it; with `Overtake` two of the properties are false, section 4):

| Theorem | Statement |
|---|---|
| `DisaggInvariant` | `~Overtake => (Spec => []Inv)` |
| `IntervalsCorrect` | `~Overtake => (Spec => []IntervalsExact)` |
| `BlocksCorrect` | `~Overtake => (Spec => []BlocksAccounted)` |
| `OutputsCorrect` | `~Overtake => (Spec => []OutputsExact)` |
| `NoThreadRaises` | `~Overtake => (Spec => []NeverKilled)` |
| `KVCorrect` (in `DisaggKVProofs`) | `~Overtake => (Spec => []KVExact)` |

*Assumptions.* `DisaggAssumption`: positive sizes; a prompt has a token and a
request asks for one more; a request has one hash per block, the hashes of one
request differ (each is a hash of all tokens up to its block), and each engine has
room for the longest request alone, which vLLM checks when it starts.

*Argument, the queue.* `QueueOK` is `IntervalsOf` in the form an induction needs: the
intervals are sorted, apart by at least one block, and cover exactly the free
set. Freeing a block merges it with neither, either or both neighbours
(`AddToIntervals`), taking one shortens or splits its interval; the four cases of
each are one lemma about replacing, inserting or dropping an interval
(`ReplaceRuns`, `CoversSplit` and their neighbours), so that position arithmetic is
done once. Of the allocators it is shown that they return as many different free
blocks as were asked for (`PoppedNFree`), by the best fit as well as one by one, and
of `Free` that exactly the blocks no other request holds come back. The loops over
blocks and stopped requests are recursive functions on the number of steps
done, and the inductions over them use the least step at which the claim fails.

*Argument, the threads.* The blocks alone are not enough: an engine may only admit a
request whose object is in no other queue, so `Inv` says where every request is.
`TrackedAt` gives each one home (the client, a scheduler queue, the transfer
backlog, the transfer thread's hand, a decode backlog, a decode engine, gone), with
one exception that the code really has: a request just put is still in the
prefill scheduler until `PRemove`. `ProgressAt` says what its object and its client
have at each home, `Prefilling` and `Decoding` that a request in a scheduler has
exactly the blocks of the tokens it is computed to, plus those scheduled in the
running step. A prompt that was admitted finds the blocks for its later chunks,
because the admission checked the room for all of it and only one prompt at a time
is incomplete (`Short`); that is why `PContinue` never preempts. There is one lemma
per action. `Inv` is no property of the run, since its types are infinite sets;
its other parts hold in the instance of `disagg_engine` too.

*Argument, the KV.* `KVExact` is about the blocks a decode step reads. `Inv` says how
many blocks a request has and which are whose, not what they contain, and blocks are
shared, evicted and filled by two different routes. What makes an induction hard is
that vLLM files a block in the prefix cache when it is allocated, before its KV
is computed: in the middle of a step a hash can point at a block that still holds
another request's KV, and a request admitted later in the same step may hit it.
So `Cached` describes an engine between *two* counts of each request, `from` (the
tokens whose KV is there) and `at` (those the step is going to compute): the blocks
that are full at `at` are filed under the request's keys and no others
(`FiledTo`), a block computed in part holds that part (`PartHeld`), a filed block
holds the KV of its key or is about to be written with it by a request that has it
(`Backed`), and no two requests write to the same block (`OneWriter`). Admission and
growth keep `Cached` and move `at` forward; running the step, or inserting the KV
that the prefill engine gathered, moves `from` up to `at`. `CarriedExact` is what
lies between the engines: the KV gathered by `PGather` and carried through the
backlogs is that of the whole prompt. The theorem is the conjunction of these,
`KVInv`, with `Inv`.

### The transfer between servers

`KVTransferProofs` proves, for every set of prompts and requests, any number of
blocks on either side and of host buffers, with lost notifications, expiry and
aborts:

| Theorem | Statement |
|---|---|
| `TransferInvariant` | `Spec => []TransferInv` |
| `TransferTypeOK` | `Spec => []TypeOK` |
| `NoAssertionFails` | `Spec => []NeverFails` |
| `ReleaseCorrect` | `Spec => []ReleasedAfterInsert` |
| `PoolCorrect` | `~Overlap => (Spec => []PoolExclusive)` |

The first four hold whether or not listener and engine thread of P meet on an entry
of `reqs_wait_pull`; the last one only if they do not (section 4).

*Argument.* `PLife` puts every prompt of P at one place of its path (queue, step,
to send, copy, entry, sent), so that it is released once; `DLife` relates the state
D's scheduler has a request in to what its worker does for it, which is what the
assertions of both are about; `Released` follows the permission to free a prompt
from D's insert through the channel, the listener and the entry to P's report. P's
step never takes more blocks than it has (`PFits`; `SumProperties` and
`AdmittedProperties` reason about the blocks of a set of prompts by counting
pairs). For the pool, `PoolInv` adds that a buffer is in the free list, with one
copying thread or with one entry, where an entry whose buffer a thread has
returned and which it has not yet deleted counts for nothing (`EntryBuf`).

### What is only model-checked

* All liveness (`ENABLED` and fairness are out of the prover's reach).
* `DPScheduler` with crashes and raising resets, of which the runs check liveness.
* `ReadsExact` of `KVTransfer`: it is true of the prompts of the run and false of
  others (section 4), so there is no assumption on the constants under which
  it would say more than the run.
* `OffloadConnector`, all five invariants. They hold together or not at all: a pin
  is taken for a load (`PinsExact`) and given back when the load is reported, which
  a load whose chunk has no data never is (`CacheExact`); the data of a chunk is
  what the worker had in HBM (`ReadsExact`); and a second load of a request that
  has one on record raises (`StagingBacked`, `NeverFails`). `StagingBacked` is false
  for other prompts (`offload_holes`), so a theorem would need an assumption on
  which blocks the host cache can hold, which nothing in the code ensures. The
  operators also fold over lists of chunks, and a fold's value needs an induction
  over an operator, which the installed provers cannot instantiate. Where an
  induction is over a number, `LeastNat` of `Lemmas` (every non-empty set of
  naturals has a least element) replaces it; that is how `RemoveAllProperties`, the
  loops over blocks of `DisaggEngineProofs` and the sweep of `_reorder_batch` are
  shown.

`Lemmas` also holds the facts on queues without repetitions and on the n-th
element of a set of numbers that several proofs use.

## 6. Not modelled

* Values: scores, softmax, rotary arithmetic, quantisation, MoE routing and the
  kernels. They have no state that outlives a step. The other model families
  and the vendored vLLM beyond what the modules above use.
* The checkpoint loader: one pass over the shards with stashes keyed by tensor
  name and no concurrency of its own; its correctness is that of reshapes and
  concatenations of data, which the models abstract from. The order in which
  stashes are dropped is the part worth modelling next.
* Offload with several workers: `aggregate` keeps one worker's report, and nothing in
  the code relates the shards. Multi-host pulls and the ZMQ sockets of the
  connector: the channel is a set of messages that may be lost.
* A prefill bucket shorter than a compression block raises while it is traced
  (`PrefillRaises`). The smallest bucket is configuration, so no property says
  that it cannot happen.
* The Ray executor: batches are assumed to be executed in the order scheduled.
* Speculative decoding, LoRA, multimodal inputs, pipeline parallelism, sampling
  parameters, prompt logprobs: refused or unused on the V4 path.
* Compilation, profiling and the launch scripts.
