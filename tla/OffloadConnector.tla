-------------------------- MODULE OffloadConnector --------------------------
(***************************************************************************)
(* The KV-cache offload connector (offload/tpu_offload_connector.py) with  *)
(* the two sides that call it: the vLLM scheduler, which asks it for       *)
(* prefix hits and collects its work orders, and the TPU worker, which     *)
(* loads chunks before the forward pass and saves blocks after it.         *)
(*                                                                         *)
(* A scheduler step is taken in parts, in the order of schedule(): first   *)
(* the running requests, then the waiting ones, then build_connector_meta  *)
(* over the finished, the new and the cached requests. The result goes to  *)
(* the worker in a queue; the worker answers in a queue; up to Depth steps *)
(* are under way (2 under async scheduling). Background threads copy what  *)
(* a save gathered to the host and register it. schedule() touches nothing *)
(* the worker or the threads touch, so their steps are taken between two   *)
(* schedules.                                                              *)
(*                                                                         *)
(* A block of KV is what it was computed from: [key, n], the hash of the   *)
(* full block of tokens it belongs to and how many of those tokens it      *)
(* holds. Request ids are recycled once nothing refers to them any more.   *)
(***************************************************************************)
EXTENDS OffloadManager

CONSTANTS Reqs,          \* request ids
          Key,           \* Key[r]: the block hashes of r's tokens, in order
          PromptLen,     \* PromptLen[r]: prompt tokens of r
          TotalLen,      \* TotalLen[r]: tokens of r when it stops
          NumBlocks,     \* HBM blocks of the vLLM block pool
          NumStaging,    \* TPU_OFFLOAD_NUM_STAGING_BLOCKS
          BlockSize,     \* tokens per block and per chunk
          Budget,        \* max_num_scheduled_tokens
          Depth,         \* scheduler steps under way at once
          Threads,       \* TPU_OFFLOAD_SAVE_THREADS
          DecodeSave,    \* TPU_OFFLOAD_DECODE_SAVE
          Batched,       \* TPU_OFFLOAD_BATCHED_SAVE
          Aborts,        \* the requests whose clients may abort them
          Faults         \* device-to-host transfers may raise

Blocks == 0 .. NumBlocks - 1
Keys   == UNION {Range(Key[r]) : r \in Reqs}
Empty  == [key |-> None, n |-> 0]

ASSUME OffloadAssumption ==
  /\ None \notin Keys
  /\ BlockSize \in Nat \ {0} /\ Depth \in Nat \ {0} /\ Threads \in Nat \ {0}
  /\ Chunks = 0 .. Cardinality(Chunks) - 1
  /\ \A r \in Reqs : /\ PromptLen[r] \in 1 .. TotalLen[r] - 1
                     /\ TotalLen[r] - 1 <= NumBlocks * BlockSize
                     /\ Len(Key[r]) = TotalLen[r] \div BlockSize

VARIABLES
  req,        \* the scheduler's requests
  running, waiting, finished,   \* its two queues and finished_req_ids
  hashOf,     \* vLLM's own prefix cache: the hash each HBM block is filed under
  step,       \* the SchedulerOutput under construction
  cache, stg, \* LRUCacheManager and StagingBufferManager
  pre,        \* _pre_load_specs
  loadSpec,   \* load_specs
  tracker,    \* _request_trackers
  saving, loading,  \* _reqs_being_saved, _reqs_being_loaded
  metas, outs,      \* work orders to the worker, its reports
  hbm,        \* the KV in the HBM blocks
  backend,    \* LocalCPUBackend.cache
  futures,    \* _pending_save_futures
  wstep,      \* the work order the worker is executing
  wrong,      \* requests whose forward pass read KV that is not theirs
  failed      \* the side on which an exception escaped

engine == <<req, running, waiting, finished, hashOf, step>>
sched  == <<cache, stg, pre, loadSpec, tracker, saving, loading>>
worker == <<hbm, backend, futures, wstep, wrong>>
vars   == <<engine, sched, worker, metas, outs, failed>>

NoTracker == None
Idle == [phase |-> "idle", idx |-> 0, new |-> <<>>, cached |-> <<>>,
         resumed |-> {}, num |-> [r \in Reqs |-> 0], got |-> [r \in Reqs |-> <<>>],
         budget |-> 0, preempted |-> FALSE, hits |-> [r \in Reqs |-> 0],
         draft |-> <<>>]

Gone == [st |-> "out", comp |-> 0, tok |-> 0, held |-> 0, blocks |-> <<>>]

Init ==
  /\ req = [r \in Reqs |-> Gone]
  /\ running = <<>> /\ waiting = <<>> /\ finished = {}
  /\ hashOf = [b \in Blocks |-> None]
  /\ step = Idle
  /\ cache = EmptyCache
  /\ stg = EmptyStaging(Reqs, NumStaging)
  /\ pre = [r \in Reqs |-> None] /\ loadSpec = [r \in Reqs |-> None]
  /\ tracker = [r \in Reqs |-> NoTracker]
  /\ saving = [r \in Reqs |-> {}] /\ loading = [r \in Reqs |-> {}]
  /\ metas = <<>> /\ outs = <<>>
  /\ hbm = [b \in Blocks |-> Empty]
  /\ backend = [c \in Chunks |-> Empty]
  /\ futures = <<>> /\ wstep = None
  /\ wrong = {} /\ failed = "no"

---------------------------------------------------------------------------
(* The scheduler's block pool.                                             *)

Least(a, b) == IF a <= b THEN a ELSE b
Most(a, b)  == IF a >= b THEN a ELSE b
BlocksFor(n) == (n + BlockSize - 1) \div BlockSize

\* request.block_hashes: the full blocks of the tokens known so far.
BlockHashes(r) == SubSeq(Key[r], 1, req[r].tok \div BlockSize)

FreeBlocks == Blocks \ UNION {Range(req[r].blocks) : r \in Reqs}

\* n free blocks. Which ones does not matter to the connector: it gets the
\* lowest ids, so that freed blocks are reused at once.
Fresh(n, from) == SubSeq(SetToSortSeq(from, <), 1, n)

\* get_computed_blocks: the cached prefix, never the whole request.
LocalHit(r) ==
  LET Filed(h) == \E b \in Blocks : hashOf[b] = h
      most     == (req[r].tok - 1) \div BlockSize
      n == CHOOSE n \in 0..most : /\ \A i \in 1..n : Filed(Key[r][i])
                                  /\ n < most => ~Filed(Key[r][n + 1])
  IN  [i \in 1..n |-> CHOOSE b \in Blocks : hashOf[b] = Key[r][i]]

\* cache_blocks: the full blocks among the first n tokens are filed; the
\* blocks taken from the free list lose what they were filed under.
File(r, blocks, fresh, n) ==
  [b \in Blocks |->
     IF \E i \in 1..(n \div BlockSize) : blocks[i] = b
     THEN Key[r][CHOOSE i \in 1..(n \div BlockSize) : blocks[i] = b]
     ELSE IF b \in Range(fresh) THEN None ELSE hashOf[b]]

---------------------------------------------------------------------------
(* Requests come and go.                                                   *)

\* Nothing anywhere refers to request id r.
Forgotten(r) ==
  /\ req[r].st = "out" /\ r \notin finished /\ tracker[r] = NoTracker
  /\ saving[r] = {} /\ loading[r] = {} /\ stg.save[r] = 0 /\ stg.load[r] = 0
  /\ \A i \in DOMAIN metas : \A j \in DOMAIN metas[i].run : metas[i].run[j].r # r
  /\ \A i \in DOMAIN outs : r \notin outs[i].sampled
  /\ wstep # None => \A j \in DOMAIN wstep.run : wstep.run[j].r # r

Arrive(r) ==
  /\ failed = "no"
  /\ step.phase = "idle" /\ Forgotten(r)
  /\ req' = [req EXCEPT ![r] = [Gone EXCEPT !.st = "new", !.tok = PromptLen[r]]]
  /\ waiting' = Append(waiting, r)
  /\ UNCHANGED <<running, finished, hashOf, step, sched, worker, metas, outs, failed>>

\* finish_requests: request_finished never delays the free.
Abort(r) ==
  /\ failed = "no"
  /\ r \in Aborts /\ step.phase = "idle" /\ req[r].st # "out"
  /\ req' = [req EXCEPT ![r] = Gone]
  /\ running' = SelectSeq(running, LAMBDA q : q # r)
  /\ waiting' = SelectSeq(waiting, LAMBDA q : q # r)
  /\ finished' = finished \cup {r}
  /\ UNCHANGED <<hashOf, step, sched, worker, metas, outs, failed>>

---------------------------------------------------------------------------
(* schedule(): the running requests, then the waiting ones.                *)

UnderWay == Len(metas) + Len(outs) + (IF wstep = None THEN 0 ELSE 1)

BeginStep ==
  /\ failed = "no"
  /\ step.phase = "idle" /\ UnderWay < Depth
  /\ running # <<>> \/ waiting # <<>> \/ finished # {}
  /\ step' = [Idle EXCEPT !.phase = "running", !.idx = 1, !.budget = Budget]
  /\ UNCHANGED <<req, running, waiting, finished, hashOf, sched, worker, metas,
                 outs, failed>>

\* Tokens of running request r to schedule; none once the step under way
\* is known to be its last.
TokensToRun(r) ==
  IF req[r].held > 0 /\ req[r].comp + 2 - req[r].held >= TotalLen[r]
  THEN 0
  ELSE Least(req[r].tok + req[r].held - req[r].comp, step.budget)

RunNext ==
  /\ failed = "no"
  /\ step.phase = "running"
  /\ step.idx <= Len(running) /\ step.budget > 0
  /\ LET r     == running[step.idx]
         n     == TokensToRun(r)
         need  == BlocksFor(req[r].comp + n) - Len(req[r].blocks)
         fresh == Fresh(need, FreeBlocks)
         last  == running[Len(running)]
     IN  \/ /\ n = 0
            /\ step' = [step EXCEPT !.idx = @ + 1]
            /\ UNCHANGED <<req, running, waiting, hashOf>>
         \/ /\ n > 0 /\ need <= Cardinality(FreeBlocks)
            /\ req' = [req EXCEPT ![r].blocks = @ \o fresh]
            /\ hashOf' = File(r, req[r].blocks \o fresh, fresh,
                              Least(req[r].comp + n, req[r].tok))
            /\ step' = [step EXCEPT !.idx = @ + 1, !.budget = @ - n, !.num[r] = n,
                                    !.got[r] = fresh, !.cached = Append(@, r)]
            /\ UNCHANGED <<running, waiting>>
         \/ \* no room: the last running request is preempted
            /\ n > 0 /\ need > Cardinality(FreeBlocks)
            /\ req' = [req EXCEPT ![last].st = "preempted", ![last].comp = 0,
                                  ![last].blocks = <<>>]
            /\ running' = Front(running)
            /\ waiting' = <<last>> \o waiting
            /\ step' = [step EXCEPT !.preempted = TRUE]
            /\ UNCHANGED hashOf
  /\ UNCHANGED <<finished, sched, worker, metas, outs, failed>>

RunningDone ==
  /\ failed = "no"
  /\ step.phase = "running"
  /\ step.idx > Len(running) \/ step.budget = 0
  /\ step' = [step EXCEPT !.phase = IF step.preempted THEN "finished" ELSE "waiting"]
  /\ UNCHANGED <<req, running, waiting, finished, hashOf, sched, worker, metas,
                 outs, failed>>

\* A variant that forgets to lower the match when staging slots are short.
MatchUnstaged(r, local) ==
  LET hits == Lookup(cache, BlockHashes(r))
  IN  [load |-> Least(Most(hits - local, 0), stg.free), matched |-> hits]

\* get_num_new_matched_tokens: the blocks of r that the host cache offers
\* (matched) and how many of them have to be loaded, as far as there are
\* staging slots, when the first local ones are already in HBM.
Match(r, local) ==
  LET hits == Lookup(cache, BlockHashes(r))
      want == Most(hits - local, 0)
      load == Least(want, stg.free)
  IN  [load |-> load, matched |-> IF load < want THEN local + load ELSE hits]

\* What the scheduler is told: of a full hit, all tokens but the last.
External(r, local, matched) ==
  LET n == matched * BlockSize
  IN  Most(0, (IF n = req[r].tok THEN n - 1 ELSE n) - local * BlockSize)

\* The first waiting request, with what both caches know of it.
Candidate ==
  LET r     == Head(waiting)
      local == LocalHit(r)
      m     == Match(r, Len(local))
      comp  == Len(local) * BlockSize + External(r, Len(local), m.matched)
      n     == Least(req[r].tok - comp, step.budget)
      free  == FreeBlocks \ Range(local)
  IN  [r |-> r, local |-> local, m |-> m, comp |-> comp, n |-> n, free |-> free,
       fits  |-> BlocksFor(req[r].tok) - Len(local) <= Cardinality(free),
       fresh |-> BlocksFor(comp + n) - Len(local)]

\* The lookup leaves traces whether or not the request fits: the touched
\* hashes, the provisional load and its staging slots. A load that is still
\* on record for the request makes the staging manager raise.
Looked(c) ==
  [cache |-> Touch(cache, BlockHashes(c.r)),
   stg   |-> IF c.m.load > 0 THEN Take(stg, c.r, c.m.load, "load") ELSE stg,
   pre   |-> IF c.m.load > 0 THEN [pre EXCEPT ![c.r] = c.m.load] ELSE pre,
   hits  |-> [step.hits EXCEPT ![c.r] = c.m.matched * BlockSize],
   failed |-> IF TakeFails(stg, c.r, c.m.load, "load") THEN "scheduler" ELSE failed]

Admitting == step.phase = "waiting" /\ waiting # <<>> /\ step.budget > 0

Admit ==
  /\ failed = "no"
  /\ Admitting
  /\ LET c   == Candidate
         k   == Looked(c)
         r   == c.r
         ext == c.comp > Len(c.local) * BlockSize /\ c.m.load > 0
         fresh  == Fresh(c.fresh, c.free)
         blocks == c.local \o fresh
         hs     == SubSeq(BlockHashes(r), Len(c.local) + 1, Len(c.local) + c.m.load)
         src    == [i \in DOMAIN hs |-> ChunkOf(k.cache, hs[i])]
         dst    == SubSeq(blocks, Len(c.local) + 1, Len(c.local) + c.m.load)
     IN  /\ c.fits
         /\ failed' = k.failed
         /\ stg' = k.stg
         /\ cache' = IF ext THEN PrepareLoad(k.cache, hs) ELSE k.cache
         /\ pre' = IF ext THEN pre ELSE k.pre
         /\ loadSpec' = IF ext THEN [loadSpec EXCEPT ![r] = [src |-> src, dst |-> dst]]
                               ELSE loadSpec
         /\ loading' = IF ext THEN [loading EXCEPT ![r] = @ \cup Range(src)] ELSE loading
         /\ req' = [req EXCEPT ![r].st = "running", ![r].comp = c.comp,
                               ![r].blocks = blocks]
         /\ hashOf' = File(r, blocks, fresh, c.comp + c.n)
         /\ running' = Append(running, r)
         /\ waiting' = Tail(waiting)
         /\ step' = [step EXCEPT
              !.new = IF req[r].st = "new" THEN Append(@, r) ELSE @,
              !.cached = IF req[r].st = "new" THEN @ ELSE Append(@, r),
              !.resumed = IF req[r].st = "new" THEN @ ELSE @ \cup {r},
              !.num[r] = c.n, !.got[r] = blocks, !.budget = @ - c.n, !.hits = k.hits]
  /\ UNCHANGED <<finished, tracker, saving, worker, metas, outs>>

\* No room for the first waiting request: the loop ends.
Refuse ==
  /\ failed = "no"
  /\ Admitting /\ ~Candidate.fits
  /\ LET k == Looked(Candidate)
     IN  /\ failed' = k.failed
         /\ cache' = k.cache /\ stg' = k.stg /\ pre' = k.pre
         /\ step' = [step EXCEPT !.phase = "finished", !.hits = k.hits]
  /\ UNCHANGED <<req, running, waiting, finished, hashOf, loadSpec, tracker, saving,
                 loading, worker, metas, outs>>

---------------------------------------------------------------------------
(* build_connector_meta.                                                   *)

\* Phase 1.
DropFinished ==
  /\ failed = "no"
  /\ \/ step.phase = "finished"
     \/ step.phase = "waiting" /\ ~Admitting
  /\ tracker' = [r \in Reqs |-> IF r \in finished THEN NoTracker ELSE tracker[r]]
  /\ loadSpec' = [r \in Reqs |-> IF r \in finished /\ tracker[r] # NoTracker
                                 THEN None ELSE loadSpec[r]]
  /\ step' = [step EXCEPT !.phase = "build", !.idx = 1]
  /\ UNCHANGED <<req, running, waiting, finished, hashOf, cache, stg, pre, saving,
                 loading, worker, metas, outs, failed>>

\* The tracker of a newly scheduled request: its watermark starts behind
\* whatever either cache already has.
NewTracker(r) ==
  [tok    |-> Least(req[r].comp + step.num[r], PromptLen[r]),
   mark   |-> Most(req[r].comp, step.hits[r]),
   blocks |-> step.got[r],
   decode |-> FALSE]

\* A variant whose reset forgets the block list.
NextTrackerOldBlocks(r) ==
  LET old == IF r \in step.resumed
             THEN [tracker[r] EXCEPT !.tok = 0, !.decode = FALSE]
             ELSE tracker[r]
      tok == Most(old.tok, Least(req[r].comp + step.num[r], req[r].tok))
  IN  [old EXCEPT !.tok = tok, !.blocks = @ \o step.got[r],
                  !.decode = @ \/ tok = old.tok + 1]

\* update, after reset_after_preempt when the request was resumed.
NextTracker(r) ==
  LET old == IF r \in step.resumed
             THEN [tracker[r] EXCEPT !.tok = 0, !.blocks = <<>>, !.decode = FALSE]
             ELSE tracker[r]
      tok == Most(old.tok, Least(req[r].comp + step.num[r], req[r].tok))
  IN  [old EXCEPT !.tok = tok, !.blocks = @ \o step.got[r],
                  !.decode = @ \/ tok = old.tok + 1]

\* _prepare_save_spec: [cache, spec, mark].
PrepareSave(r, t) ==
  LET full    == t.tok \div BlockSize
      hs      == BlockHashes(r)
      touched == Touch(cache, SubSeq(hs, 1, full))
      skip    == t.mark \div BlockSize
      due     == /\ full * BlockSize > t.mark
                 /\ ~t.decode \/ (DecodeSave /\ full = skip + 1)
      n       == Least(full - skip, stg.free)
      got     == IF due /\ n > 0
                 THEN AllocateForSave(touched, SubSeq(hs, skip + 1, skip + n))
                 ELSE None
  IN  IF got = None
      THEN [cache |-> touched, spec |-> None, mark |-> t.mark]
      ELSE [cache |-> got.cache,
            spec  |-> [src |-> [i \in DOMAIN got.idxs |-> t.blocks[skip + got.idxs[i]]],
                       dst |-> got.got],
            mark  |-> Most(t.mark, (skip + n) * BlockSize)]

\* Phases 2 and 3: one scheduled request, the new ones first.
BuildReq ==
  LET order == step.new \o step.cached
      r     == order[step.idx]
      t     == IF step.idx <= Len(step.new) THEN NewTracker(r) ELSE NextTracker(r)
      s     == PrepareSave(r, t)
  IN  /\ failed = "no"
      /\ step.phase = "build" /\ step.idx <= Len(order)
      /\ IF t.tok \div BlockSize > Len(t.blocks)
         THEN /\ failed' = "scheduler"
              /\ UNCHANGED <<cache, tracker, saving, stg, loadSpec, step>>
         ELSE /\ cache' = s.cache
              /\ tracker' = [tracker EXCEPT ![r] = [t EXCEPT !.mark = s.mark]]
              /\ saving' = IF s.spec = None THEN saving
                           ELSE [saving EXCEPT ![r] = @ \cup Range(s.spec.dst)]
              /\ stg' = IF s.spec = None THEN stg
                        ELSE Take(stg, r, Len(s.spec.dst), "save")
              /\ loadSpec' = [loadSpec EXCEPT ![r] = None]
              /\ step' = [step EXCEPT
                   !.idx = @ + 1,
                   !.draft = IF s.spec = None /\ loadSpec[r] = None THEN @
                             ELSE Append(@, [r |-> r, blocks |-> t.blocks,
                                             save |-> s.spec, load |-> loadSpec[r]])]
              /\ UNCHANGED failed
      /\ UNCHANGED <<req, running, waiting, finished, hashOf, pre, loading, worker,
                     metas, outs>>

\* The provisional loads of requests that were not scheduled are returned,
\* the work order is sent, and the scheduled tokens count as computed.
Emit ==
  LET order == step.new \o step.cached
      Samples(r) == req[r].comp + step.num[r] >= req[r].tok + req[r].held
  IN  /\ failed = "no"
      /\ step.phase = "build" /\ step.idx > Len(order)
      /\ IF \E r \in Reqs : loadSpec[r] # None
         THEN failed' = "scheduler" /\ UNCHANGED <<stg, pre, metas, req, finished, step>>
         ELSE /\ stg' = [stg EXCEPT
                   !.free = @ + SumFunctionOnSet(stg.load, {r \in Reqs : pre[r] # None}),
                   !.load = [r \in Reqs |-> IF pre[r] # None THEN 0 ELSE @[r]]]
              /\ pre' = [r \in Reqs |-> None]
              /\ metas' = Append(metas,
                   [draft |-> step.draft,
                    run |-> [i \in DOMAIN order |->
                      LET r == order[i]
                      IN  [r |-> r, from |-> req[r].comp, to |-> req[r].comp + step.num[r],
                           blocks |-> req[r].blocks, sample |-> Samples(r)]]])
              /\ req' = [r \in Reqs |->
                   IF \E i \in DOMAIN order : order[i] = r
                   THEN [req[r] EXCEPT !.comp = @ + step.num[r],
                                       !.held = IF Samples(r) THEN @ + 1 ELSE @]
                   ELSE req[r]]
              /\ finished' = {}
              /\ step' = Idle
              /\ UNCHANGED failed
      /\ UNCHANGED <<running, waiting, hashOf, cache, loadSpec, tracker, saving,
                     loading, worker, outs>>

---------------------------------------------------------------------------
(* The worker: one execute_model per work order.                           *)

\* The hash of the full block that position i of r's table will hold; the
\* last, never filled block is r's own.
KeyAt(r, i) == IF i <= Len(Key[r]) THEN Key[r][i] ELSE r

\* part is a contiguous run of whole, as the index arithmetic of the code
\* tests it.
Contiguous(part, whole) ==
  LET At(b) == CHOOSE i \in DOMAIN whole : whole[i] = b /\ \A j \in 1..(i - 1) : whole[j] # b
  IN  /\ {part[1], Last(part)} \subseteq Range(whole)
      /\ At(Last(part)) - At(part[1]) + 1 = Len(part)

Loads(w) == SelectSeq(w.draft, LAMBDA d : d.load # None)
Saves(w) == SelectSeq(w.draft, LAMBDA d : d.save # None)

\* start_load_kv stops for good at the first load with a missing chunk.
LoadsDone(w) ==
  LET Present(d) == \A i \in DOMAIN d.load.src : backend[d.load.src[i]] # Empty
      ls == Loads(w)
      n  == CHOOSE n \in 0..Len(ls) : /\ \A i \in 1..n : Present(ls[i])
                                      /\ n < Len(ls) => ~Present(ls[n + 1])
  IN  SubSeq(ls, 1, n)

\* HBM after the loads of ls.
AfterLoads(ls) ==
  LET Put(kv, d) ==
        [b \in Blocks |->
           IF b \in Range(d.load.dst)
           THEN backend[d.load.src[CHOOSE i \in DOMAIN d.load.dst : d.load.dst[i] = b]]
           ELSE kv[b]]
  IN  FoldLeft(Put, hbm, ls)

\* The KV of tokens [x.from, x.to) is written. A block is good up to n only
\* if what lies before the first written token was its own already.
AfterForward(kv, run) ==
  LET Put(m, x) ==
        LET first == (x.from \div BlockSize) + 1
            Write(i) ==
              LET lo  == Most(x.from - (i - 1) * BlockSize, 0)
                  hi  == Least(x.to - (i - 1) * BlockSize, BlockSize)
                  old == m[x.blocks[i]]
                  own == old.key = KeyAt(x.r, i)
              IN  IF lo > 0 /\ ~(own /\ old.n >= lo) THEN Empty
                  ELSE [key |-> KeyAt(x.r, i), n |-> IF own THEN Most(old.n, hi) ELSE hi]
        IN  [b \in Blocks |->
               IF \E i \in first .. BlocksFor(x.to) : x.blocks[i] = b
               THEN Write(CHOOSE i \in first .. BlocksFor(x.to) : x.blocks[i] = b)
               ELSE m[b]]
  IN  FoldLeft(Put, kv, run)

\* Every block that x attends to holds the KV of x's own tokens.
Reads(kv, x) ==
  \A i \in 1 .. BlocksFor(x.to) :
    LET got == kv[x.blocks[i]]
    IN  got.key = KeyAt(x.r, i) /\ got.n >= Least(x.to - (i - 1) * BlockSize, BlockSize)

\* start_save_kv: what is gathered, as one task per request or one for all.
\* A request whose source blocks are not contiguous is logged and skipped.
Gathered(kv, saves) ==
  LET good == SelectSeq(saves, LAMBDA d : Contiguous(d.save.src, d.blocks))
      Task(ds) == [info |-> [i \in DOMAIN ds |-> [r |-> ds[i].r, dst |-> ds[i].save.dst]],
                   data |-> [i \in DOMAIN ds |->
                               [j \in DOMAIN ds[i].save.src |-> kv[ds[i].save.src[j]]]],
                   done |-> FALSE, ok |-> TRUE]
  IN  IF good = <<>> THEN <<>>
      ELSE IF Batched THEN <<Task(good)>>
      ELSE [i \in DOMAIN good |-> Task(<<good[i]>>)]

\* execute_model up to the submission of the saves.
Execute ==
  /\ failed = "no"
  /\ step.phase = "idle" /\ wstep = None /\ metas # <<>>
  /\ LET w  == Head(metas)
         ls == LoadsDone(w)
         kv == AfterForward(AfterLoads(ls), w.run)
     IN  IF \/ \E i \in DOMAIN Loads(w) :
                 ~Contiguous(Loads(w)[i].load.dst, Loads(w)[i].blocks)
            \/ Batched /\ \E i \in DOMAIN Saves(w) :
                 ~Contiguous(Saves(w)[i].save.src, Saves(w)[i].blocks)
         THEN failed' = "worker" /\ UNCHANGED <<hbm, wrong, futures, wstep, metas>>
         ELSE /\ hbm' = kv
              /\ wrong' = wrong \cup {w.run[i].r : i \in {j \in DOMAIN w.run :
                                                          ~Reads(kv, w.run[j])}}
              /\ futures' = futures \o Gathered(kv, Saves(w))
              /\ wstep' = [w EXCEPT !.draft = ls]
              /\ metas' = Tail(metas)
              /\ UNCHANGED failed
  /\ UNCHANGED <<engine, sched, backend, outs>>

\* get_finished and get_kv_connector_stats: completed saves are collected,
\* the completed loads were recorded on the way.
Report ==
  /\ failed = "no"
  /\ step.phase = "idle" /\ wstep # None
  /\ LET done == SelectSeq(futures, LAMBDA f : f.done)
         Of(r) == {i \in DOMAIN done : \E j \in DOMAIN done[i].info : done[i].info[j].r = r}
     IN  IF \E i \in DOMAIN done : ~done[i].ok
         THEN failed' = "worker" /\ UNCHANGED <<outs, futures, wstep>>
         ELSE /\ outs' = Append(outs,
                   [saved |-> [r \in Reqs |->
                      UNION {UNION {Range(done[i].info[j].dst) : j \in
                                      {k \in DOMAIN done[i].info : done[i].info[k].r = r}}
                             : i \in Of(r)}],
                    loaded |-> [r \in Reqs |->
                      UNION {Range(wstep.draft[i].load.src) : i \in
                               {j \in DOMAIN wstep.draft : wstep.draft[j].r = r}}],
                    sampled |-> {wstep.run[i].r : i \in
                                   {j \in DOMAIN wstep.run : wstep.run[j].sample}}])
              /\ futures' = SelectSeq(futures, LAMBDA f : ~f.done)
              /\ wstep' = None
              /\ UNCHANGED failed
  /\ UNCHANGED <<engine, sched, hbm, backend, wrong, metas>>

---------------------------------------------------------------------------
(* The transfer threads: tasks start in the order of submission.           *)

Running(i) ==
  /\ i \in DOMAIN futures /\ ~futures[i].done
  /\ Cardinality({j \in 1..(i - 1) : ~futures[j].done}) < Threads

Transfer(i) ==
  /\ failed = "no"
  /\ step.phase = "idle" /\ Running(i)
  /\ LET f == futures[i]
     IN  backend' = [c \in Chunks |->
           IF \E k \in DOMAIN f.info : c \in Range(f.info[k].dst)
           THEN LET k == CHOOSE k \in DOMAIN f.info : c \in Range(f.info[k].dst)
                    j == CHOOSE j \in DOMAIN f.info[k].dst : f.info[k].dst[j] = c
                IN  f.data[k][j]
           ELSE backend[c]]
  /\ futures' = [futures EXCEPT ![i].done = TRUE]
  /\ UNCHANGED <<engine, sched, hbm, wstep, wrong, metas, outs, failed>>

\* The copy raises: a single save's future keeps the exception, a batched
\* one has it logged and counts as done.
TransferFails(i) ==
  /\ failed = "no"
  /\ Faults /\ step.phase = "idle" /\ Running(i)
  /\ futures' = [futures EXCEPT ![i].done = TRUE, ![i].ok = Batched]
  /\ UNCHANGED <<engine, sched, hbm, backend, wstep, wrong, metas, outs, failed>>

---------------------------------------------------------------------------
(* update_from_output.                                                     *)

Update ==
  /\ failed = "no"
  /\ step.phase = "idle" /\ outs # <<>>
  /\ LET o     == Head(outs)
         live  == {r \in o.sampled : req[r].st # "out"}
         ends  == {r \in live : req[r].tok + 1 >= TotalLen[r]}
         Known(r) == (req[r].comp - (req[r].held - 1)) \div BlockSize
         Files(r, b) == {i \in 1..Known(r) : req[r].blocks[i] = b}
         Freed(s, r) == Give(Give(s, r, Cardinality(o.saved[r]), "save"),
                             r, Cardinality(o.loaded[r]), "load")
     IN     IF \/ \E r \in Reqs : ~(o.saved[r] \subseteq saving[r])
               \/ \E r \in Reqs : ~(o.loaded[r] \subseteq loading[r])
               \/ CompletionFails(cache, o.saved, o.loaded)
            THEN failed' = "scheduler" /\ UNCHANGED <<engine, sched, outs>>
            ELSE /\ outs' = Tail(outs)
                 /\ req' = [r \in Reqs |->
                      IF r \in ends THEN Gone
                      ELSE IF r \in live
                           THEN [req[r] EXCEPT !.tok = @ + 1, !.held = @ - 1]
                           ELSE req[r]]
                 /\ hashOf' = [b \in Blocks |->
                      LET fs == {r \in live : req[r].st = "running" /\ Files(r, b) # {}}
                      IN  IF fs = {} THEN hashOf[b]
                          ELSE LET r == CHOOSE r \in fs : TRUE
                               IN  Key[r][CHOOSE i \in Files(r, b) : TRUE]]
                 /\ running' = SelectSeq(running, LAMBDA r : r \notin ends)
                 /\ waiting' = SelectSeq(waiting, LAMBDA r : r \notin ends)
                 /\ finished' = finished \cup ends
                 /\ stg' = FoldLeft(Freed, stg, SetToSeq(Reqs))
                 /\ saving' = [r \in Reqs |-> saving[r] \ o.saved[r]]
                 /\ loading' = [r \in Reqs |-> loading[r] \ o.loaded[r]]
                 /\ cache' = MarkCompletion(cache, o.saved, o.loaded)
                 /\ UNCHANGED <<step, pre, loadSpec, tracker, failed>>
  /\ UNCHANGED <<worker, metas>>

---------------------------------------------------------------------------
Schedule == \/ BeginStep \/ RunNext \/ RunningDone \/ Admit \/ Refuse
            \/ DropFinished \/ BuildReq \/ Emit

Next ==
  \/ \E r \in Reqs : Arrive(r) \/ Abort(r)
  \/ Schedule
  \/ Execute \/ Report \/ Update
  \/ \E i \in DOMAIN futures : Transfer(i) \/ TransferFails(i)

Spec == Init /\ [][Next]_vars

---------------------------------------------------------------------------
(* Properties.                                                             *)

\* Shapes and ranges of the state; the free list and the LRU map split the
\* chunks between them.
TypeOK ==
  /\ \A r \in Reqs : /\ req[r].st \in {"out", "new", "running", "preempted"}
                     /\ req[r].comp \in Nat /\ req[r].held \in 0..Depth
                     /\ Range(req[r].blocks) \subseteq Blocks
  /\ {r \in Reqs : req[r].st = "running"} = Range(running)
  /\ {r \in Reqs : req[r].st \in {"new", "preempted"}} = Range(waiting)
  /\ finished \subseteq Reqs /\ wrong \subseteq Reqs
  /\ hashOf \in [Blocks -> Keys \cup {None}]
  /\ Range(cache.free) = {c \in Chunks : cache.chunk[c].hash = None}
  /\ Len(cache.free) + Len(cache.lru) = Cardinality(Chunks)
  /\ \A i \in DOMAIN cache.lru : \E c \in Chunks : cache.chunk[c].hash = cache.lru[i]
  /\ stg.free \in 0..NumStaging
  /\ failed \in {"no", "scheduler", "worker"}

\* The orders and answers under way, and what a request has in them.
DraftsUnderWay == UNION ({Range(step.draft)} \cup {Range(metas[i].draft) : i \in DOMAIN metas})

SavesUnderWay(r) ==
  UNION ({Range(d.save.dst) : d \in {e \in DraftsUnderWay : e.r = r /\ e.save # None}}
    \cup UNION {{Range(f.info[k].dst) : k \in {j \in DOMAIN f.info : f.info[j].r = r}}
                : f \in Range(futures)}
    \cup {outs[i].saved[r] : i \in DOMAIN outs})

LoadsUnderWay(r) ==
  LET worked == IF wstep = None THEN {} ELSE Range(wstep.draft)
  IN  UNION ({Range(d.load.src) : d \in {e \in DraftsUnderWay \cup worked :
                                           e.r = r /\ e.load # None}}
        \cup {outs[i].loaded[r] : i \in DOMAIN outs})
      \cup (IF loadSpec[r] = None THEN {} ELSE Range(loadSpec[r].src))

\* _reqs_being_saved, _reqs_being_loaded and the staging slots on record are
\* exactly what is planned, queued, being copied or reported but not yet
\* acknowledged: no order or answer is lost, counted twice or charged to
\* another request, over aborts, preemptions and two steps in flight.
StagingBacked ==
  /\ \A r \in Reqs :
       /\ saving[r] = SavesUnderWay(r) /\ loading[r] = LoadsUnderWay(r)
       /\ stg.save[r] = Cardinality(saving[r])
       /\ stg.load[r] = IF pre[r] # None THEN pre[r] ELSE Cardinality(loading[r])
  /\ stg.free = NumStaging - SumFunctionOnSet(stg.save, Reqs)
                           - SumFunctionOnSet(stg.load, Reqs)

\* The reference count of a chunk is what the two records say: -1 with one
\* saver, otherwise the number of requests loading it.
PinsExact ==
  \A c \in {d \in Chunks : cache.chunk[d].hash # None} :
    LET savers  == {r \in Reqs : c \in saving[r]}
        loaders == {r \in Reqs : c \in loading[r]}
    IN  IF cache.chunk[c].ref = -1 THEN Cardinality(savers) = 1 /\ loaders = {}
        ELSE savers = {} /\ cache.chunk[c].ref = Cardinality(loaders)

\* A chunk that can be loaded holds the whole KV block of its hash in the
\* worker's backend: the scheduler's map and the worker's store agree though
\* they meet only through the two queues.
CacheExact ==
  \A c \in Chunks : cache.chunk[c].hash # None /\ cache.chunk[c].ref >= 0 =>
    backend[c] = [key |-> cache.chunk[c].hash, n |-> BlockSize]

\* No forward pass attends to KV other than that of the request's tokens.
ReadsExact == wrong = {}

\* No assertion or exception of the connector stops the scheduler, and the
\* worker stops only because a transfer failed.
NeverFails ==
  failed # "no" => failed = "worker" /\ \E i \in DOMAIN futures : ~futures[i].ok
=============================================================================
