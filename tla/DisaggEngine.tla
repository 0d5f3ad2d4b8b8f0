---------------------------- MODULE DisaggEngine ----------------------------
(***************************************************************************)
(* Disaggregated serving inside one process (_DisaggOrchestrator in        *)
(* core/core_tpu.py): a prefill engine, one or more decode engines, and    *)
(* the threads that drive them. The prefill thread runs a step, gathers    *)
(* the KV of the requests it has finished into a bounded backlog, lets the *)
(* scheduler record the step and then takes those requests out of it. The  *)
(* transfer thread moves them to the bounded backlog of a decode engine,   *)
(* whose thread allocates blocks, inserts the KV and from then on decodes  *)
(* the request. The three threads share the Request objects and the map    *)
(* _requests with no lock.                                                 *)
(*                                                                         *)
(* Both engines allocate from a ContinuousFreeQueue and cache prefixes. A  *)
(* block of KV is [key, n]: the tokens it was computed from and how many   *)
(* of them it holds. Output token i is the number i; Bad is any other.     *)
(***************************************************************************)
EXTENDS ContinuousFreeQueue, Filtering, TLC

CONSTANTS Reqs,        \* request ids
          Key,         \* Key[r]: what identifies each block of r's tokens
          PromptLen,   \* PromptLen[r]: prompt tokens of r
          TotalLen,    \* TotalLen[r]: tokens of r when it stops
          Decoders,    \* decode engines, 1 .. their number
          BlockSize,   \* tokens per block
          PBlocks,     \* blocks of the prefill engine, the null block included
          DBlocks,     \* blocks of a decode engine, the null block included
          Budget,      \* max_num_batched_tokens
          MaxSeqs,     \* max_num_seqs
          TransferCap, \* capacity of a transfer backlog
          DecodeCap,   \* capacity of a decode backlog
          Overtake,    \* a thread may get ahead of the rest of another's step
          None, Bad

Least(a, b) == IF a <= b THEN a ELSE b
BlocksFor(n) == (n + BlockSize - 1) \div BlockSize

\* A block's key stands for all the tokens up to its end, so a request has no
\* key twice.
ASSUME DisaggAssumption ==
  /\ BlockSize \in Nat \ {0} /\ Budget \in Nat \ {0} /\ MaxSeqs \in Nat \ {0}
  /\ PBlocks \in Nat \ {0} /\ DBlocks \in Nat \ {0}
  /\ Decoders \in SUBSET Nat /\ Decoders # {}
  /\ \A r \in Reqs : /\ TotalLen[r] \in Nat /\ PromptLen[r] \in 1 .. TotalLen[r] - 1
                     /\ Key[r] \in Seq(Range(Key[r])) /\ IsInjective(Key[r])
                     /\ None \notin Range(Key[r])
                     /\ Len(Key[r]) = BlocksFor(TotalLen[r])
                     /\ BlocksFor(PromptLen[r]) < PBlocks
                     /\ BlocksFor(TotalLen[r]) < DBlocks

VARIABLES
  obj,      \* the Request objects, shared by all threads
  known,    \* the keys of _requests
  adding,   \* the request that add_request has given to the prefill scheduler
  pre,      \* the prefill engine
  pstep,    \* the prefill thread
  tq,       \* its transfer backlog
  hand,     \* the transfer thread: what it still has to push
  dq,       \* the decode backlogs
  dec,      \* the decode engines
  dstep,    \* the decode threads
  sent,     \* the output tokens sent to the client of each request
  done,     \* the requests whose last output says they are finished
  lost,     \* requests dropped because a decode engine had no room
  killed    \* a thread has raised, and with it the process has died

vars == <<obj, known, adding, pre, pstep, tq, hand, dq, dec, dstep, sent, done, lost, killed>>

---------------------------------------------------------------------------
(* An engine: its scheduler's queues and its KV cache.                     *)

Empty == [key |-> None, n |-> 0]

\* The pool after core_tpu has replaced its queue and taken null_block.
Engine(size) ==
  LET q == FullQueue(size)
  IN  [size |-> size, run |-> <<>>, wait |-> <<>>, fin |-> FALSE, batch |-> {},
       pool |-> RemoveBlock(q, Popped(q, size)),
       hash |-> [b \in 0 .. size - 1 |-> None],
       kv   |-> [b \in 0 .. size - 1 |-> Empty],
       blk  |-> [r \in Reqs |-> <<>>]]

HasRequests(e) == e.run # <<>> \/ e.wait # <<>> \/ e.fin

\* get_computed_blocks for a request with n tokens.
Hit(e, r, n) ==
  LET Filed(h) == \E b \in DOMAIN e.hash : e.hash[b] = h
      most     == (n - 1) \div BlockSize
      k == CHOOSE k \in 0..most : /\ \A i \in 1..k : Filed(Key[r][i])
                                  /\ k < most => ~Filed(Key[r][k + 1])
  IN  [i \in 1..k |-> CHOOSE b \in DOMAIN e.hash : e.hash[b] = Key[r][i]]

\* Blocks that allocate_slots has to find for the first n tokens of r.
Need(e, r, hit, n) == BlocksFor(n) - Len(e.blk[r]) - Len(hit)

Fits(e, r, hit, n) ==
  Need(e, r, hit, n) <= Cardinality(e.pool.free \ Range(hit))

\* allocate_slots: the hits are touched, the rest comes from the free queue
\* and loses what it was filed under; the full blocks among the first
\* filed tokens are filed.
Allocate(e, r, hit, n, filed) ==
  LET q     == RemoveN(e.pool, hit)
      fresh == PoppedN(q, Need(e, r, hit, n), e.size)
      blk   == e.blk[r] \o hit \o fresh
      full  == filed \div BlockSize
  IN  [e EXCEPT
         !.pool   = RemoveN(q, fresh),
         !.blk[r] = blk,
         !.hash   = [b \in DOMAIN e.hash |->
                       IF \E i \in 1..full : blk[i] = b
                       THEN Key[r][CHOOSE i \in 1..full : blk[i] = b]
                       ELSE IF b \in Range(fresh) THEN None ELSE e.hash[b]]]

\* A block goes back although another request still holds it.
FreeAll(e, r) ==
  [e EXCEPT !.pool = AppendN(e.pool, Reverse(e.blk[r])), !.blk[r] = <<>>]

\* kv_cache_manager.free: the last block first; a block another request
\* holds stays.
Free(e, r) ==
  LET shared == UNION {Range(e.blk[q]) : q \in Reqs \ {r}}
  IN  [e EXCEPT !.pool   = AppendN(e.pool, RemoveAll(Reverse(e.blk[r]), shared)),
                !.blk[r] = <<>>]

\* Tokens from[r]+1 .. to[r] of every r \in ran go through the model at once:
\* their KV is written to <<r, i>>, the i-th block of r.
Computed(e, ran, from, to) ==
  LET Writes(b) == {w \in ran \X (1 .. e.size) :
                      /\ w[2] \in (from[w[1]] \div BlockSize) + 1 .. BlocksFor(to[w[1]])
                      /\ e.blk[w[1]][w[2]] = b}
  IN  [e EXCEPT !.kv = [b \in DOMAIN e.kv |->
         IF Writes(b) = {} THEN e.kv[b]
         ELSE LET w == CHOOSE w \in Writes(b) : TRUE
              IN  [key |-> Key[w[1]][w[2]],
                   n   |-> Least(to[w[1]] - (w[2] - 1) * BlockSize, BlockSize)]]]

\* The blocks of r hold the KV of its first n tokens.
Holds(e, r, n) ==
  \A i \in 1 .. BlocksFor(n) :
    /\ i <= Len(e.blk[r])
    /\ e.kv[e.blk[r][i]].key = Key[r][i]
    /\ e.kv[e.blk[r][i]].n >= Least(n - (i - 1) * BlockSize, BlockSize)

\* Every run of adjacent blocks is filled from the start of the slices.
InsertedFromStart(e, r, slices) ==
  LET blk    == e.blk[r]
      starts == {i \in DOMAIN blk : i = 1 \/ blk[i] # blk[i - 1] + 1}
      RunOf(i) == CHOOSE s \in starts : s <= i /\ \A t \in starts : t <= i => t <= s
      Src(b) == LET i == CHOOSE i \in DOMAIN blk : blk[i] = b IN slices[1 + i - RunOf(i)]
  IN  [e EXCEPT !.kv = [b \in DOMAIN e.kv |->
                          IF b \in Range(blk) THEN Src(b) ELSE e.kv[b]]]

\* insert_request_with_kv_cache: one copy per run of adjacent block ids, from
\* the slices at the position where the run starts.
Inserted(e, r, slices) ==
  LET blk    == e.blk[r]
      starts == {i \in DOMAIN blk : i = 1 \/ blk[i] # blk[i - 1] + 1}
      RunOf(i) == CHOOSE s \in starts : s <= i /\ \A t \in starts : t <= i => t <= s
      Src(b) == LET i == CHOOSE i \in DOMAIN blk : blk[i] = b
                IN  slices[RunOf(i) + (b - blk[RunOf(i)])]
  IN  [e EXCEPT !.kv = [b \in DOMAIN e.kv |->
                          IF b \in Range(blk) THEN Src(b) ELSE e.kv[b]]]

---------------------------------------------------------------------------
PIdle == [pc |-> "top", sched |-> <<>>, num |-> [r \in Reqs |-> 0], budget |-> 0,
          sampled |-> <<>>, map |-> <<>>, over |-> {}]
DIdle == [pc |-> "top", block |-> FALSE, idx |-> 0, preempted |-> FALSE, budget |-> 0,
          num |-> [r \in Reqs |-> 0]]

Init ==
  /\ obj = [r \in Reqs |-> [st |-> "away", comp |-> 0, out |-> <<>>, ok |-> TRUE]]
  /\ known = {} /\ adding = None
  /\ pre = Engine(PBlocks) /\ pstep = PIdle
  /\ tq = <<>> /\ hand = <<>>
  /\ dq = [d \in Decoders |-> <<>>]
  /\ dec = [d \in Decoders |-> Engine(DBlocks)]
  /\ dstep = [d \in Decoders |-> DIdle]
  /\ sent = [r \in Reqs |-> <<>>] /\ done = {} /\ lost = {} /\ killed = FALSE

NumTokens(r) == PromptLen[r] + Len(obj[r].out)

\* add_request gives the request to the scheduler, which the prefill thread
\* reads, and only then enters it in _requests.
AddRequest(r) ==
  /\ obj[r].st = "away" /\ adding = None
  /\ obj' = [obj EXCEPT ![r].st = "new"]
  /\ pre' = [pre EXCEPT !.wait = Append(@, r)]
  /\ adding' = r
  /\ UNCHANGED <<known, pstep, tq, hand, dq, dec, dstep, sent, done, lost, killed>>

TrackRequest ==
  /\ adding # None
  /\ known' = known \cup {adding} /\ adding' = None
  /\ UNCHANGED <<obj, pre, pstep, tq, hand, dq, dec, dstep, sent, done, lost, killed>>

---------------------------------------------------------------------------
(* The prefill thread.                                                     *)

PBegin ==
  /\ pstep.pc = "top" /\ HasRequests(pre)
  /\ pstep' = [PIdle EXCEPT !.pc = "schedule", !.budget = Budget, !.sched = pre.run]
  /\ UNCHANGED <<obj, known, adding, pre, tq, hand, dq, dec, dstep, sent, done, lost, killed>>

\* The tokens of r that fit in the budget.
Chunk(r, comp) == Least(PromptLen[r] - comp, pstep.budget)

\* A prompt of which an earlier step computed a part goes on.
PContinue ==
  /\ pstep.pc = "schedule" /\ pstep.budget > 0
  /\ \E i \in DOMAIN pre.run :
       LET r == pre.run[i]
           n == Chunk(r, obj[r].comp)
       IN  /\ pstep.num[r] = 0
           /\ \A j \in 1 .. i - 1 : pstep.num[pre.run[j]] > 0
           /\ pre' = Allocate(pre, r, <<>>, obj[r].comp + n, obj[r].comp + n)
           /\ pstep' = [pstep EXCEPT !.num[r] = n, !.budget = @ - n]
  /\ UNCHANGED <<obj, known, adding, tq, hand, dq, dec, dstep, sent, done, lost, killed>>

Started == \A i \in DOMAIN pre.run : pstep.num[pre.run[i]] > 0

CanAdmit ==
  /\ pre.wait # <<>> /\ pstep.budget > 0 /\ Len(pre.run) < MaxSeqs
  /\ LET r == Head(pre.wait) IN Fits(pre, r, Hit(pre, r, PromptLen[r]), PromptLen[r])

PAdmit ==
  /\ pstep.pc = "schedule" /\ Started /\ CanAdmit
  /\ LET r    == Head(pre.wait)
         hit  == Hit(pre, r, PromptLen[r])
         comp == Len(hit) * BlockSize
         n    == Chunk(r, comp)
     IN  /\ obj' = [obj EXCEPT ![r].st = "running", ![r].comp = comp]
         /\ pre' = [Allocate(pre, r, hit, comp + n, comp + n)
                      EXCEPT !.wait = Tail(@), !.run = Append(@, r)]
         /\ pstep' = [pstep EXCEPT !.num[r] = n, !.budget = @ - n]
  /\ UNCHANGED <<known, adding, tq, hand, dq, dec, dstep, sent, done, lost, killed>>

\* The model runs; a request is sampled once its whole prompt is computed.
PExecute ==
  /\ pstep.pc = "schedule" /\ (Started \/ pstep.budget = 0) /\ ~CanAdmit
  /\ LET ran == {r \in Range(pre.run) : pstep.num[r] > 0}
         to  == [r \in Reqs |-> obj[r].comp + pstep.num[r]]
     IN  /\ pre' = [Computed(pre, ran, [r \in Reqs |-> obj[r].comp], to) EXCEPT !.fin = FALSE]
         /\ obj' = [r \in Reqs |-> IF r \in ran THEN [obj[r] EXCEPT !.comp = to[r]]
                                   ELSE obj[r]]
         /\ pstep' = IF ran = {} THEN PIdle
                     ELSE [pstep EXCEPT !.pc = "gather", !.sampled =
                             RemoveAll(pre.run, {r \in Reqs : r \notin ran \/ to[r] # PromptLen[r]})]
  /\ UNCHANGED <<known, adding, tq, hand, dq, dec, dstep, sent, done, lost, killed>>

\* kv_cache_map: the KV in the blocks of every sampled request.
PGather ==
  /\ pstep.pc = "gather"
  /\ Overtake \/ Range(pstep.sampled) \subseteq known
  /\ killed' = (killed \/ ~(Range(pstep.sampled) \subseteq known))
  /\ pstep' = [pstep EXCEPT !.pc = "put", !.map =
       [i \in DOMAIN pstep.sampled |->
          LET r == pstep.sampled[i]
          IN  [r |-> r, kv |-> [j \in DOMAIN pre.blk[r] |-> pre.kv[pre.blk[r][j]]]]]]
  /\ UNCHANGED <<obj, known, adding, pre, tq, hand, dq, dec, dstep, sent, done, lost>>

\* The put blocks while the backlog is full. A step that sampled nothing
\* puts an empty map.
PPut ==
  /\ pstep.pc = "put" /\ Len(tq) < TransferCap
  /\ tq' = Append(tq, pstep.map)
  /\ pstep' = [pstep EXCEPT !.pc = "update", !.map = <<>>]
  /\ UNCHANGED <<obj, known, adding, pre, hand, dq, dec, dstep, sent, done, lost, killed>>

\* The request leaves the scheduler with its blocks.
Dropped(e, r) == [Free(e, r) EXCEPT !.run = RemoveAll(@, {r})]

\* Several requests leave, one after the other.
DroppedN(e, reqs) ==
  LET after[i \in 0 .. Len(reqs)] == IF i = 0 THEN e ELSE Dropped(after[i - 1], reqs[i])
  IN  after[Len(reqs)]

\* The next output token of r is its last.
Stops(r) == NumTokens(r) + 1 >= TotalLen[r]

\* update_from_output: the sampled tokens reach the Request objects. A
\* request that stops here is finished and leaves the scheduler.
PUpdate ==
  /\ pstep.pc = "update"
  /\ obj' = [r \in Reqs |->
               IF r \in Range(pstep.sampled)
               THEN [obj[r] EXCEPT !.out = Append(@, 1)] ELSE obj[r]]
  /\ LET over == RemoveAll(pstep.sampled, {r \in Reqs : ~Stops(r)})
     IN  pre' = [DroppedN(pre, over) EXCEPT !.fin = over # <<>>]
  /\ pstep' = [pstep EXCEPT !.pc = "remove", !.sched = pstep.sampled,
                           !.over = {r \in Range(pstep.sampled) : Stops(r)}]
  /\ UNCHANGED <<known, adding, tq, hand, dq, dec, dstep, sent, done, lost, killed>>

\* The loop over the sampled requests looks each up in _requests again and
\* takes it out of the scheduler.
PRemove ==
  /\ pstep.pc = "remove" /\ pstep.sched # <<>>
  /\ LET r == Head(pstep.sched)
     IN  /\ killed' = (killed \/ r \notin known)
         /\ pre' = IF r \in Range(pre.run) THEN Dropped(pre, r) ELSE pre
  /\ pstep' = [pstep EXCEPT !.sched = Tail(@)]
  /\ UNCHANGED <<obj, known, adding, tq, hand, dq, dec, dstep, sent, done, lost>>

POutput ==
  /\ pstep.pc = "remove" /\ pstep.sched = <<>>
  /\ sent' = [r \in Reqs |-> IF r \in Range(pstep.sampled) THEN Append(sent[r], 1)
                             ELSE sent[r]]
  /\ done' = done \cup pstep.over
  /\ pstep' = PIdle
  /\ UNCHANGED <<obj, known, adding, pre, tq, hand, dq, dec, dstep, lost, killed>>

---------------------------------------------------------------------------
(* The transfer thread.                                                    *)

Load(d) == Len(dec[d].run) + Len(dec[d].wait)

\* The decode engine with the fewest requests, the first of several.
Target == CHOOSE d \in Decoders : \A e \in Decoders :
            Load(d) < Load(e) \/ (Load(d) = Load(e) /\ d <= e)

\* The transfer thread takes the requests out of _requests.
TGetPops ==
  /\ hand = <<>> /\ tq # <<>>
  /\ hand' = [i \in DOMAIN Head(tq) |-> [d |-> Target, it |-> Head(tq)[i]]]
  /\ tq' = Tail(tq)
  /\ known' = known \ {Head(tq)[i].r : i \in DOMAIN Head(tq)}
  /\ UNCHANGED <<obj, adding, pre, pstep, dq, dec, dstep, sent, done, lost, killed>>

\* The targets of a whole map are chosen before anything is pushed.
TGet ==
  /\ hand = <<>> /\ tq # <<>>
  /\ hand' = [i \in DOMAIN Head(tq) |-> [d |-> Target, it |-> Head(tq)[i]]]
  /\ tq' = Tail(tq)
  /\ UNCHANGED <<obj, known, adding, pre, pstep, dq, dec, dstep, sent, done, lost, killed>>

TPush ==
  /\ hand # <<>> /\ Len(dq[Head(hand).d]) < DecodeCap
  /\ dq' = [dq EXCEPT ![Head(hand).d] = Append(@, Head(hand).it)]
  /\ hand' = Tail(hand)
  /\ UNCHANGED <<obj, known, adding, pre, pstep, tq, dec, dstep, sent, done, lost, killed>>

---------------------------------------------------------------------------
(* A decode thread: take what the backlog holds, then one step.            *)

\* It waits for the backlog even when it has requests of its own.
DBeginBlocking(d) ==
  /\ dstep[d].pc = "top"
  /\ dstep' = [dstep EXCEPT ![d] = [DIdle EXCEPT !.pc = "take", !.block = TRUE]]
  /\ UNCHANGED <<obj, known, adding, pre, pstep, tq, hand, dq, dec, sent, done, lost, killed>>

DBegin(d) ==
  /\ dstep[d].pc = "top"
  /\ dstep' = [dstep EXCEPT ![d] = [DIdle EXCEPT !.pc = "take",
                                                 !.block = ~HasRequests(dec[d])]]
  /\ UNCHANGED <<obj, known, adding, pre, pstep, tq, hand, dq, dec, sent, done, lost, killed>>

\* The batch of the runner forgets a finished request one step later.
Room(d) == Load(d) < MaxSeqs /\ Cardinality(dec[d].batch) < MaxSeqs

\* The prefill thread is done with request r.
Released(r) == r \notin Range(pstep.sampled)

\* allocate_slots finds no room: the entry is gone from the backlog, and
\* with it the request.
DLose(d) ==
  /\ dstep[d].pc = "take" /\ Room(d) /\ dq[d] # <<>>
  /\ Overtake \/ Released(Head(dq[d]).r)
  /\ LET r == Head(dq[d]).r
     IN  /\ ~Fits(dec[d], r, <<>>, obj[r].comp)
         /\ lost' = lost \cup {r}
  /\ dq' = [dq EXCEPT ![d] = Tail(@)]
  /\ dstep' = [dstep EXCEPT ![d].pc = "run", ![d].idx = 1, ![d].budget = Budget]
  /\ UNCHANGED <<obj, known, adding, pre, pstep, tq, hand, dec, sent, done, killed>>

\* The request is built from the Request object as it is now: its last
\* token is the one the decode engine goes on from.
DInsert(d) ==
  /\ dstep[d].pc = "take" /\ Room(d) /\ dq[d] # <<>>
  /\ Overtake \/ Released(Head(dq[d]).r)
  /\ LET r == Head(dq[d]).r
         n == obj[r].comp
     IN  /\ Fits(dec[d], r, <<>>, n)
         /\ dec' = [dec EXCEPT ![d] =
                      [Inserted(Allocate(dec[d], r, <<>>, n, n), r, Head(dq[d]).kv)
                         EXCEPT !.run = Append(@, r), !.batch = @ \cup {r}]]
         /\ obj' = [obj EXCEPT ![r].st = "running", ![r].ok = obj[r].out # <<>>]
         /\ known' = known \ {r}
  /\ dq' = [dq EXCEPT ![d] = Tail(@)]
  /\ dstep' = [dstep EXCEPT ![d].block = FALSE]
  /\ UNCHANGED <<adding, pre, pstep, tq, hand, sent, done, lost, killed>>

DTakeNoMore(d) ==
  /\ dstep[d].pc = "take"
  /\ ~Room(d) \/ (dq[d] = <<>> /\ ~dstep[d].block)
  /\ dstep' = [dstep EXCEPT ![d].pc = "run", ![d].idx = 1, ![d].budget = Budget]
  /\ UNCHANGED <<obj, known, adding, pre, pstep, tq, hand, dq, dec, sent, done, lost, killed>>

\* A preempted request starts again from its prompt.
DRunNextRestart(d) ==
  /\ dstep[d].pc = "run" /\ dstep[d].idx <= Len(dec[d].run)
  /\ LET e == dec[d]
         r == e.run[dstep[d].idx]
         n == Least(NumTokens(r) - obj[r].comp, dstep[d].budget)
         v == e.run[Len(e.run)]
     IN  IF Fits(e, r, <<>>, obj[r].comp + n)
         THEN /\ dec' = [dec EXCEPT ![d] = Allocate(@, r, <<>>, obj[r].comp + n,
                                                    obj[r].comp + n)]
              /\ dstep' = [dstep EXCEPT ![d].idx = @ + 1, ![d].num[r] = n,
                                        ![d].budget = @ - n]
              /\ UNCHANGED obj
         ELSE /\ dec' = [dec EXCEPT ![d] = [Dropped(e, v) EXCEPT !.wait = <<v>> \o @]]
              /\ dstep' = [dstep EXCEPT ![d].preempted = TRUE]
              /\ obj' = [obj EXCEPT ![v].st = "preempted", ![v].comp = 0, ![v].out = <<>>]
  /\ UNCHANGED <<known, adding, pre, pstep, tq, hand, dq, sent, done, lost, killed>>

\* schedule(): the next running request gets its tokens and, if they need
\* one, a block; if there is none the last running request is preempted.
DRunNext(d) ==
  /\ dstep[d].pc = "run" /\ dstep[d].idx <= Len(dec[d].run)
  /\ LET e == dec[d]
         r == e.run[dstep[d].idx]
         n == Least(NumTokens(r) - obj[r].comp, dstep[d].budget)
         v == e.run[Len(e.run)]
     IN  IF Fits(e, r, <<>>, obj[r].comp + n)
         THEN /\ dec' = [dec EXCEPT ![d] = Allocate(@, r, <<>>, obj[r].comp + n,
                                                    obj[r].comp + n)]
              /\ dstep' = [dstep EXCEPT ![d].idx = @ + 1, ![d].num[r] = n,
                                        ![d].budget = @ - n]
              /\ UNCHANGED obj
         ELSE /\ dec' = [dec EXCEPT ![d] = [Dropped(e, v) EXCEPT !.wait = <<v>> \o @]]
              /\ dstep' = [dstep EXCEPT ![d].preempted = TRUE]
              /\ obj' = [obj EXCEPT ![v].st = "preempted", ![v].comp = 0]
  /\ UNCHANGED <<known, adding, pre, pstep, tq, hand, dq, sent, done, lost, killed>>

CanResume(d) ==
  /\ dec[d].wait # <<>> /\ ~dstep[d].preempted /\ dstep[d].budget > 0
  /\ Len(dec[d].run) < MaxSeqs
  /\ LET r == Head(dec[d].wait) IN Fits(dec[d], r, Hit(dec[d], r, NumTokens(r)), NumTokens(r))

\* A preempted request is prefilled again, here, from the prefix still cached.
DResume(d) ==
  /\ dstep[d].pc = "run" /\ dstep[d].idx > Len(dec[d].run) /\ CanResume(d)
  /\ LET r    == Head(dec[d].wait)
         hit  == Hit(dec[d], r, NumTokens(r))
         comp == Len(hit) * BlockSize
         n    == Least(NumTokens(r) - comp, dstep[d].budget)
     IN  /\ dec' = [dec EXCEPT ![d] = [Allocate(dec[d], r, hit, comp + n, comp + n)
                                         EXCEPT !.wait = Tail(@), !.run = Append(@, r)]]
         /\ obj' = [obj EXCEPT ![r].st = "running", ![r].comp = comp]
         /\ dstep' = [dstep EXCEPT ![d].idx = @ + 1, ![d].num[r] = n, ![d].budget = @ - n]
  /\ UNCHANGED <<known, adding, pre, pstep, tq, hand, dq, sent, done, lost, killed>>

\* execute_model and update_from_output. A token sampled after a wrong one
\* is wrong; a request that stops leaves with its blocks.
DExecute(d) ==
  /\ dstep[d].pc = "run" /\ dstep[d].idx > Len(dec[d].run) /\ ~CanResume(d)
  /\ LET e     == dec[d]
         ran   == {r \in Range(e.run) : dstep[d].num[r] > 0}
         to    == [r \in Reqs |-> obj[r].comp + dstep[d].num[r]]
         last  == {r \in ran : to[r] = NumTokens(r)}
         Tok(r) == IF obj[r].ok THEN Len(obj[r].out) + 1 ELSE Bad
         over  == RemoveAll(e.run, {r \in Reqs : r \notin last \/ ~Stops(r)})
     IN  /\ dec' = [dec EXCEPT ![d] =
                      [DroppedN(Computed(e, ran, [r \in Reqs |-> obj[r].comp], to), over)
                         EXCEPT !.fin = over # <<>>, !.batch = ran]]
         /\ obj' = [r \in Reqs |->
                      IF r \notin ran THEN obj[r]
                      ELSE [obj[r] EXCEPT !.comp = to[r],
                                          !.out = IF r \in last THEN Append(@, Tok(r)) ELSE @,
                                          !.st = IF r \in Range(over) THEN "finished" ELSE @]]
         /\ sent' = [r \in Reqs |-> IF r \in last THEN Append(sent[r], Tok(r)) ELSE sent[r]]
         /\ done' = done \cup Range(over)
  /\ dstep' = [dstep EXCEPT ![d] = DIdle]
  /\ UNCHANGED <<known, adding, pre, pstep, tq, hand, dq, lost, killed>>

---------------------------------------------------------------------------
Prefill  == PBegin \/ PContinue \/ PAdmit \/ PExecute \/ PGather \/ PPut \/ PUpdate
            \/ PRemove \/ POutput
Transfer == TGet \/ TPush
Decode(d) == DBegin(d) \/ DLose(d) \/ DInsert(d) \/ DTakeNoMore(d) \/ DRunNext(d)
             \/ DResume(d) \/ DExecute(d)

\* What follows a step that kills the process is of no interest.
Next ==
  \/ \E r \in Reqs : AddRequest(r)
  \/ TrackRequest
  \/ Prefill
  \/ Transfer
  \/ \E d \in Decoders : Decode(d)

\* When a thread can go on.
PrefillReady ==
  CASE pstep.pc = "top"    -> HasRequests(pre)
    [] pstep.pc = "gather" -> Overtake \/ Range(pstep.sampled) \subseteq known
    [] pstep.pc = "put"    -> Len(tq) < TransferCap
    [] OTHER               -> TRUE
DecodeReady(d) ==
  dstep[d].pc = "take" /\ Room(d) =>
    IF dq[d] = <<>> THEN ~dstep[d].block ELSE Overtake \/ Released(Head(dq[d]).r)

\* Every thread keeps running, and add_request returns; a client is free
\* never to send a request. Weak fairness of the prefill thread and of the
\* decode threads is written out with the conditions above in place of
\* ENABLED: each of their steps changes the thread's own state or the engine
\* it alone schedules.
Fairness ==
  /\ WF_vars(TrackRequest) /\ WF_vars(Transfer)
  /\ []<>~PrefillReady \/ []<><<pstep' # pstep>>_vars
  /\ \A d \in Decoders :
       \/ []<>~DecodeReady(d)
       \/ []<><<dstep'[d] # dstep[d] \/ dec'[d] # dec[d]>>_vars

Spec == Init /\ [][Next]_vars /\ Fairness
---------------------------------------------------------------------------
(* Properties.                                                             *)

Engines == {pre} \cup {dec[d] : d \in Decoders}

\* The backlogs keep to their capacity and every thread is at a step of its
\* loop.
TypeOK ==
  /\ known \subseteq Reqs /\ adding \in Reqs \cup {None}
  /\ Len(tq) <= TransferCap /\ \A d \in Decoders : Len(dq[d]) <= DecodeCap
  /\ done \subseteq Reqs /\ lost \subseteq Reqs /\ killed \in BOOLEAN
  /\ pstep.pc \in {"top", "schedule", "gather", "put", "update", "remove"}
  /\ \A d \in Decoders : dstep[d].pc \in {"top", "take", "run"}

\* The intervals of every free queue are the maximal runs of its free
\* blocks, whatever was allocated, touched and freed in whatever order.
IntervalsExact == \A e \in Engines : IntervalsOf(e.pool)

\* No block is both free and held, none is neither, and the null block is
\* never handed out.
BlocksAccounted ==
  \A e \in Engines :
    /\ 0 \notin e.pool.free /\ \A r \in Reqs : 0 \notin Range(e.blk[r])
    /\ e.pool.free = (1 .. e.size - 1) \ UNION {Range(e.blk[r]) : r \in Reqs}

\* A decode engine never computes a token of a request on KV that is not
\* that request's: inserted run by run into the blocks it was given,
\* computed here, or found in the prefix cache after a preemption.
KVExact ==
  \A d \in Decoders : \A r \in Range(dec[d].run) :
    dstep[d].pc # "run" => Holds(dec[d], r, obj[r].comp)

\* The client gets the tokens of its request in order, each once, and a
\* decode engine goes on from the token that the prefill engine sampled: a
\* request changes engines while both threads hold its Request object.
OutputsExact == \A r \in Reqs : \A i \in DOMAIN sent[r] : sent[r][i] = i

\* No thread raises: a request is in _requests whenever a thread looks it
\* up there, until the decode thread takes it out.
NeverKilled == ~killed

\* A request that was added is finished, unless a decode engine dropped it:
\* the bounded backlogs never leave every thread waiting for another.
Answered == \A r \in Reqs : r \in known ~> (r \in done \/ r \in lost)

=============================================================================
