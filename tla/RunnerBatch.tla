----------------------------- MODULE RunnerBatch -----------------------------
(***************************************************************************)
(* The model runner's persistent batch: the rows of cached tokens and      *)
(* block tables that it updates from the difference each scheduler output  *)
(* describes, the order it keeps them in, and the placeholders that stand  *)
(* for tokens still on the device when scheduling is asynchronous.  Last   *)
(* pipeline rank, no speculative decoding, one KV cache group.             *)
(*                                                                         *)
(* vLLM's FCFS scheduler is the environment, modelled by what the runner   *)
(* sees of it: its queues, token budget and block pool, preemption of the  *)
(* latest requests, and reset_prefix_cache.                                *)
(***************************************************************************)
EXTENDS Filtering, FiniteSetsExt, SequencesExt

CONSTANTS
    Reqs, NoReq,
    Async,              \* async_scheduling: two batches under way, not one
    Resets,             \* reset_prefix_cache(reset_running_requests) is called
    Prompts,            \* bound: the prompt lengths
    MaxLen,             \* bound: tokens a request grows to
    MaxNumSeqs, MaxBatchedTokens,
    NumBlocks, BlockSize,
    Zero, Stale         \* the placeholder id; a cell that was not written

ASSUME RunnerAssumption ==
    /\ Async \in BOOLEAN /\ Resets \in BOOLEAN
    /\ Prompts \subseteq 1 .. MaxLen - 1
    /\ {MaxLen, MaxNumSeqs, MaxBatchedTokens, NumBlocks, BlockSize} \subseteq Nat \ {0}
    /\ NumBlocks * BlockSize >= MaxLen   \* vLLM refuses to start otherwise
    /\ NoReq \notin Reqs

VARIABLES
    sch,        \* the scheduler's view of each request (back: num_preemptions > 0)
    run, wait,  \* its queues
    finished,   \* finished_req_ids for the next scheduler output
    inflight,   \* the batches not yet reported: the requests that sampled
    cache,      \* runner.requests: tokens, num_computed_tokens and block_ids
    rows,       \* input_batch: the same, by index, as the device gets them
    ndec,       \* request_distribution[0]
    pre,        \* _pre_async_results: the sampled token of each request
    fed,        \* what the last step ran, and what it had to run
    up          \* no step has raised

schedulerVars == <<sch, run, wait, finished, inflight>>
runnerVars == <<cache, rows, ndec, pre, fed, up>>
vars == <<schedulerVars, runnerVars>>

Token(r, p) == <<r, p>>
Own(r, from, to) == [i \in 1 .. to - from |-> Token(r, from + i)]
Hole == [req |-> NoReq]
Nth(S, k) == CHOOSE x \in S : Cardinality({y \in S : y < x}) = k - 1
Live(r) == sch[r].st \in {"waiting", "running", "preempted"}

Init ==
    /\ sch = [r \in Reqs |-> [st |-> "new", prompt |-> 0, ntok |-> 0, ph |-> 0,
                              comp |-> 0, blk |-> <<>>, discard |-> FALSE, back |-> FALSE]]
    /\ run = <<>> /\ wait = <<>> /\ finished = {} /\ inflight = <<>>
    /\ cache = <<>> /\ rows = <<>> /\ ndec = 0 /\ pre = <<>> /\ fed = <<>>
    /\ up = TRUE

-----------------------------------------------------------------------------
(* The scheduler's decision *)

\* Tokens of r that are not computed; none when its last one is on its way.
Left(r) ==
    LET s == sch[r]
    IN CASE s.st # "running" -> s.ntok
         [] s.st = "running" /\ s.ph > 0 /\ s.comp + 2 - s.ph >= MaxLen -> 0
         [] OTHER -> s.ntok + s.ph - s.comp

\* The token budget, given out in order.
Quotas(order) ==
    LET quota(i, left) == Min({Left(order[i]), left})
        left[i \in 0 .. Len(order)] == IF i = 0 THEN MaxBatchedTokens
                                       ELSE left[i - 1] - quota(i, left[i - 1])
    IN [i \in DOMAIN order |-> quota(i, left[i - 1])]

\* The blocks that the i-th request of the order needs on top of its own.
Need(order, i) ==
    LET s == sch[order[i]]
        q == Quotas(order)[i]
    IN IF q = 0 THEN 0
       ELSE ((s.comp + q + BlockSize - 1) \div BlockSize) - Len(s.blk)
NeedUpTo(order, n) ==
    LET sum[i \in 0 .. n] == IF i = 0 THEN 0 ELSE sum[i - 1] + Need(order, i)
    IN sum[n]

FreeBlocks(keep) == (1 .. NumBlocks) \ UNION {ToSet(sch[r].blk) : r \in ToSet(keep)}
Fits(order, keep) == NeedUpTo(order, Len(order)) <= Cardinality(FreeBlocks(keep))

\* The latest running requests are preempted until the others fit; waiting
\* ones are admitted only in a step that preempts none.
Remaining == LET keep(p) == SubSeq(run, 1, Len(run) - p)
        IN keep(Min({p \in 0 .. Len(run) : Fits(keep(p), keep(p))}))
Admitted(a) == run \o SubSeq(wait, 1, a)
Order ==
    IF Remaining # run THEN Remaining
    ELSE Admitted(Max({a \in 0 .. Len(wait) :
            /\ a = 0 \/ Len(run) + a <= MaxNumSeqs
            /\ \A i \in Len(run) + 1 .. Len(run) + a : Quotas(Admitted(a))[i] > 0
            /\ a = 0 \/ Fits(Admitted(a), run)}))

\* The scheduler output: who is scheduled in which order, how many tokens, and
\* the blocks that are new (all of them for a new or a resumed request).
Output ==
    LET order == Order
        pool == FreeBlocks(order)
        at(r) == CHOOSE i \in DOMAIN order : order[i] = r
        q(r) == Quotas(order)[at(r)]
        S == {r \in ToSet(order) : q(r) > 0}
    IN [order |-> RemoveAll(order, Reqs \ S),
        queue |-> order,
        q     |-> [r \in S |-> q(r)],
        blk   |-> [r \in S |-> [i \in 1 .. Need(order, at(r)) |->
                                  Nth(pool, NeedUpTo(order, at(r) - 1) + i)]]]

Fresh(o) == RemoveAll(o.order, {r \in Reqs : sch[r].st # "waiting"})
Resumed(o) == {r \in DOMAIN o.q : sch[r].st = "preempted"}
NumTokens(r) == sch[r].ntok + sch[r].ph

\* What the scheduler notes of the step it has just decided on.
Scheduled(o) ==
    /\ run' = o.queue
    /\ wait' = RemoveAll(run, ToSet(o.queue)) \o RemoveAll(wait, ToSet(o.queue))
    /\ finished' = {}
    /\ sch' = [r \in Reqs |->
          IF r \in DOMAIN o.q
          THEN [sch[r] EXCEPT !.st = "running", !.comp = @ + o.q[r],
                              !.blk = @ \o o.blk[r],
                              !.ph = IF Async /\ sch[r].comp + o.q[r] >= NumTokens(r)
                                     THEN @ + 1 ELSE @]
          ELSE IF r \in ToSet(run) \ ToSet(o.queue)
          THEN [sch[r] EXCEPT !.st = "preempted", !.comp = 0, !.blk = <<>>, !.back = TRUE]
          ELSE sch[r]]

-----------------------------------------------------------------------------
(* update_states *)

\* The scheduler counts fewer output tokens than are cached: cut them off.
Cut(toks, r) == SubSeq(toks, 1, Min({Len(toks), NumTokens(r)}))

\* A plausible bug: the blocks of a resumed request are appended too.
UpdatedCacheAppends(o) ==
    [r \in (DOMAIN cache \ finished) \cup DOMAIN o.q |->
        IF r \in ToSet(Fresh(o))
        THEN [toks |-> Own(r, 0, sch[r].ntok), comp |-> sch[r].comp, blk |-> o.blk[r]]
        ELSE IF r \in DOMAIN o.q
        THEN [toks |-> Cut(cache[r].toks, r), comp |-> sch[r].comp,
              blk |-> cache[r].blk \o o.blk[r]]
        ELSE cache[r]]

\* The cached states: finished requests are dropped, new ones added; the blocks
\* of a resumed request replace the ones it had.
UpdatedCache(o) ==
    [r \in (DOMAIN cache \ finished) \cup DOMAIN o.q |->
        IF r \in ToSet(Fresh(o))
        THEN [toks |-> Own(r, 0, sch[r].ntok), comp |-> sch[r].comp, blk |-> o.blk[r]]
        ELSE IF r \in DOMAIN o.q
        THEN [toks |-> Cut(cache[r].toks, r), comp |-> sch[r].comp,
              blk |-> IF r \in Resumed(o) THEN o.blk[r] ELSE cache[r].blk \o o.blk[r]]
        ELSE cache[r]]

\* Rows of requests that finished or are not scheduled become holes; the others
\* take the new count and append the new blocks.
UpdatedRows(o) ==
    [i \in DOMAIN rows |->
        LET r == rows[i].req
        IN IF r \in finished \/ r \notin DOMAIN o.q THEN Hole
           ELSE [rows[i] EXCEPT !.toks = Cut(@, r), !.comp = sch[r].comp,
                                !.blk = @ \o o.blk[r]]]

Holes(rs) == {i \in DOMAIN rs : rs[i] = Hole}

\* A plausible bug: a request that returns is added with its prompt alone.
NewRowPrompt(c, r) == [req |-> r, toks |-> SubSeq(c[r].toks, 1, sch[r].prompt),
                       comp |-> c[r].comp, blk |-> c[r].blk]
NewRow(c, r) == [req |-> r, toks |-> c[r].toks, comp |-> c[r].comp, blk |-> c[r].blk]

\* New and returning requests take the smallest holes first, then the end.
AddRequests(rs, c, o) ==
    LET here == {rs[i].req : i \in DOMAIN rs}
        adds == Fresh(o) \o RemoveAll(o.order, ToSet(Fresh(o)) \cup here)
        h == Holes(rs)
        slot(k) == IF k <= Cardinality(h) THEN Nth(h, k) ELSE Len(rs) + k - Cardinality(h)
    IN [i \in DOMAIN rs \cup {slot(k) : k \in DOMAIN adds} |->
          IF \E k \in DOMAIN adds : slot(k) = i
          THEN NewRow(c, adds[CHOOSE k \in DOMAIN adds : slot(k) = i]) ELSE rs[i]]

\* The remaining holes, smallest first, are filled with the last rows.
Condense(rs) ==
    LET n == Len(rs) - Cardinality(Holes(rs))
        tail == (n + 1 .. Len(rs)) \ Holes(rs)
        above(i) == Cardinality({h \in Holes(rs) : i < h /\ h <= n})
    IN [i \in 1 .. n |-> IF i \in Holes(rs) THEN rs[Nth(tail, above(i) + 1)] ELSE rs[i]]

\* The two pointers of _reorder_batch, i from the front and j from the end: the
\* pairs they swap and where i stops.  A swapped pair is never looked at again.
\* Each round brings them closer, so that Len(rs) rounds are enough.
Sweep(rs, q) ==
    LET One(i) == q[rs[i].req] = 1
        round(w) == IF w.i >= w.j THEN w
                    ELSE IF One(w.i) THEN [w EXCEPT !.i = @ + 1]
                    ELSE IF ~One(w.j) THEN [w EXCEPT !.j = @ - 1]
                    ELSE [i |-> w.i + 1, j |-> w.j - 1,
                          swaps |-> w.swaps \cup {<<w.i, w.j>>, <<w.j, w.i>>}]
        after[n \in 0 .. Len(rs)] == IF n = 0 THEN [i |-> 1, j |-> Len(rs), swaps |-> {}]
                                     ELSE round(after[n - 1])
    IN after[Len(rs)]

Swap(rs, swaps) ==
    [i \in DOMAIN rs |-> IF \E e \in swaps : e[1] = i
                         THEN rs[(CHOOSE e \in swaps : e[1] = i)[2]] ELSE rs[i]]

\* A plausible bug: the row the pointers stop at always counts as a decode.
ReorderCounts(rs, q) ==
    IF \A i \in DOMAIN rs : q[rs[i].req] = 1
    THEN [rows |-> rs, ndec |-> IF rs = <<>> THEN ndec ELSE Len(rs)]
    ELSE LET w == Sweep(rs, q)
         IN [rows |-> Swap(rs, w.swaps), ndec |-> w.i]

\* Requests with one scheduled token to the front, and their number.
Reorder(rs, q) ==
    IF \A i \in DOMAIN rs : q[rs[i].req] = 1
    THEN [rows |-> rs, ndec |-> IF rs = <<>> THEN ndec ELSE Len(rs)]
    ELSE LET w == Sweep(rs, q)
             new == Swap(rs, w.swaps)
         IN [rows |-> new,
             ndec |-> IF q[new[w.i].req] = 1 THEN w.i ELSE w.i - 1]

-----------------------------------------------------------------------------
(* _prepare_inputs and sampling *)

RowOf(rs, r) == rs[CHOOSE i \in DOMAIN rs : rs[i].req = r]

\* The tokens of r in input_ids.  A token that the previous step left on the
\* device replaces the last one.
Inputs(rs, q, r) ==
    LET row == RowOf(rs, r)
        last == row.comp + q[r]
        cell(p) == IF p \in DOMAIN row.toks THEN row.toks[p] ELSE Stale
    IN [i \in 1 .. q[r] |-> IF row.comp + i = last /\ r \in DOMAIN pre
                            THEN pre[r] ELSE cell(row.comp + i)]

\* A prefill that is not complete samples nothing.
Sampled(c, q) == {r \in DOMAIN q : c[r].comp + q[r] >= Len(c[r].toks)}

SetLast(toks, x) == [toks EXCEPT ![Len(toks)] = x]
MapRows(rs, R, F(_, _)) ==
    [i \in DOMAIN rs |-> IF rs[i].req \in R
                         THEN [rs[i] EXCEPT !.toks = F(@, rs[i].req)] ELSE rs[i]]
MapCache(c, R, F(_, _)) ==
    [r \in DOMAIN c |-> IF r \in R THEN [c[r] EXCEPT !.toks = F(@, r)] ELSE c[r]]

\* A plausible bug: the sampled tokens are appended to the rows alone.
Append1Rows(rs, c, q) ==
    LET add(toks, r) == Append(toks, Token(r, Len(toks) + 1))
    IN [rows |-> MapRows(rs, Sampled(c, q), add), cache |-> c, pre |-> <<>>]

\* Synchronous: the sampled tokens are appended to the rows and the cache.
Append1(rs, c, q) ==
    LET S == Sampled(c, q)
        add(toks, r) == Append(toks, Token(r, Len(toks) + 1))
    IN [rows |-> MapRows(rs, S, add), cache |-> MapCache(c, S, add), pre |-> <<>>]

\* The requests whose placeholder _modify_prev_results replaces: those of the
\* previous step that are in the batch now.
Replaced(rs) == {r \in DOMAIN pre : \E i \in DOMAIN rs : rs[i].req = r}

\* A plausible bug: a prefill that is not complete gets a placeholder too.
PlaceholdersPartial(rs, c, q) ==
    LET put(toks, r) == SetLast(toks, pre[r])
        cell(toks, r) == Append(toks, Stale)
        zero(toks, r) == Append(toks, Zero)
        R == Replaced(rs)
    IN [rows  |-> MapRows(MapRows(rs, R, put), DOMAIN q, cell),
        cache |-> MapCache(MapCache(c, R, put), DOMAIN q, zero),
        pre   |-> [r \in DOMAIN q |-> Token(r, Len(c[r].toks) + 1)]]

\* Asynchronous: the previous step's tokens replace the placeholders, then the
\* tokens of this step get theirs; the cell of the row is not written.
Placeholders(rs, c, q) ==
    LET S == Sampled(c, q)
        put(toks, r) == SetLast(toks, pre[r])
        cell(toks, r) == Append(toks, Stale)
        zero(toks, r) == Append(toks, Zero)
        R == Replaced(rs)
    IN [rows  |-> MapRows(MapRows(rs, R, put), S, cell),
        cache |-> MapCache(MapCache(c, R, put), S, zero),
        pre   |-> [r \in S |-> Token(r, Len(c[r].toks) + 1)]]

\* output_token_ids[-1] of a request that has no output token raises.
Raises(rs, c) == Async /\ \E r \in Replaced(rs) : Len(c[r].toks) = sch[r].prompt

-----------------------------------------------------------------------------
(* Actions *)

\* schedule, execute_model and sample_tokens.  With nothing scheduled only the
\* batch is updated.
Step ==
    /\ up
    /\ Len(inflight) < IF Async THEN 2 ELSE 1
    /\ run # <<>> \/ wait # <<>> \/ finished # {}
    /\ \E o \in {Output} :
       LET c == UpdatedCache(o)
           b == Reorder(Condense(AddRequests(UpdatedRows(o), c, o)), o.q)
           new == IF Async THEN Placeholders(b.rows, c, o.q) ELSE Append1(b.rows, c, o.q)
           got(r) == [toks |-> Inputs(b.rows, o.q, r), from |-> RowOf(b.rows, r).comp,
                      blk |-> RowOf(b.rows, r).blk]
           due(r) == [toks |-> Own(r, sch[r].comp, sch[r].comp + o.q[r]),
                      from |-> sch[r].comp, blk |-> sch[r].blk \o o.blk[r]]
       IN /\ Scheduled(o)
          /\ ndec' = b.ndec
          /\ fed' = [r \in DOMAIN o.q |-> [got |-> got(r), due |-> due(r)]]
          /\ IF o.order = <<>>
             THEN /\ cache' = c
                  /\ rows' = b.rows
                  /\ inflight' = Append(inflight, {})
                  /\ UNCHANGED <<pre, up>>
             ELSE IF Raises(b.rows, c)
             THEN up' = FALSE /\ UNCHANGED <<cache, rows, pre, inflight>>
             ELSE /\ cache' = new.cache
                  /\ rows' = new.rows
                  /\ pre' = new.pre
                  /\ inflight' = Append(inflight, Sampled(c, o.q))
                  /\ UNCHANGED up

\* Requests the scheduler forgets.
Finish(s, S) ==
    /\ sch' = [r \in Reqs |-> IF r \in S THEN [s[r] EXCEPT !.st = "done", !.blk = <<>>]
                              ELSE s[r]]
    /\ run' = RemoveAll(run, S)
    /\ wait' = RemoveAll(wait, S)
    /\ finished' = finished \cup S

\* update_from_output: the oldest batch's tokens are reported, unless a reset
\* asked to discard them, and requests stop.
Update ==
    /\ up
    /\ inflight # <<>>
    /\ LET got == {r \in Head(inflight) : Live(r)}
           s == [r \in Reqs |->
                   IF r \notin got THEN sch[r]
                   ELSE IF Async /\ sch[r].discard THEN [sch[r] EXCEPT !.discard = FALSE]
                   ELSE [sch[r] EXCEPT !.ntok = @ + 1, !.ph = IF Async THEN @ - 1 ELSE @]]
       IN \E stop \in SUBSET {r \in got : s[r].ntok > sch[r].ntok} :
             /\ \A r \in got : s[r].ntok = MaxLen => r \in stop
             /\ Finish(s, stop)
    /\ inflight' = Tail(inflight)
    /\ UNCHANGED runnerVars

AddRequest(r, m) ==
    /\ up
    /\ sch[r].st = "new"
    /\ sch' = [sch EXCEPT ![r].st = "waiting", ![r].prompt = m, ![r].ntok = m]
    /\ wait' = Append(wait, r)
    /\ UNCHANGED <<run, finished, inflight, runnerVars>>

Abort(r) ==
    /\ up
    /\ Live(r)
    /\ Finish(sch, {r})
    /\ UNCHANGED <<inflight, runnerVars>>

\* reset_prefix_cache(reset_running_requests=True), between two steps.
Reset ==
    /\ up
    /\ Resets
    /\ run # <<>>
    /\ Len(inflight) < IF Async THEN 2 ELSE 1
    /\ sch' = [r \in Reqs |->
                 IF r \in ToSet(run)
                 THEN [sch[r] EXCEPT !.st = "preempted", !.comp = 0, !.blk = <<>>,
                                     !.ph = 0, !.discard = TRUE, !.back = TRUE]
                 ELSE sch[r]]
    /\ wait' = run \o wait
    /\ run' = <<>>
    /\ UNCHANGED <<finished, inflight, runnerVars>>

Next ==
    \/ Step
    \/ Update
    \/ \E r \in Reqs, m \in Prompts : AddRequest(r, m)
    \/ \E r \in Reqs : Abort(r)
    \/ Reset

Spec == Init /\ [][Next]_vars

\* Requests are interchangeable: they only differ by when they arrive.
Symmetry == Permutations(Reqs)

-----------------------------------------------------------------------------
(* Properties *)

\* Every token the model runs is the request's own token of that position:
\* preemption, re-adding, compaction, swapping and the placeholders of
\* asynchronous scheduling never lose, shift or mix up a token.
TokensExact ==
    \A r \in DOMAIN fed : /\ fed[r].got.toks = fed[r].due.toks
                          /\ fed[r].got.from = fed[r].due.from

\* The same for the requests that were never preempted (num_preemptions = 0),
\* while requests around them are: the rows they leave, take and swap never
\* disturb the token that is substituted on the device for a placeholder.
UnpreemptedExact ==
    \A r \in DOMAIN fed : ~sch[r].back => /\ fed[r].got.toks = fed[r].due.toks
                                         /\ fed[r].got.from = fed[r].due.from

\* Every step runs with the block table the scheduler allocated.
BlockTablesExact == \A r \in DOMAIN fed : fed[r].got.blk = fed[r].due.blk

\* The rows are the scheduled requests, each once and with no hole, and exactly
\* the first request_distribution[0] of them run a single token.
DecodesFirst ==
    /\ \A i, j \in DOMAIN rows : i # j => rows[i].req # rows[j].req
    /\ fed # <<>> =>
        /\ {rows[i].req : i \in DOMAIN rows} = DOMAIN fed
        /\ \A i \in DOMAIN rows :
              (i <= ndec) <=> (Len(fed[rows[i].req].due.toks) = 1)

\* The runner caches as many tokens of a request as the scheduler counts,
\* tokens that are not reported yet included.
CountsAgree ==
    \A r \in DOMAIN cache : Live(r) =>
        Len(cache[r].toks) =
            sch[r].ntok + Cardinality({i \in DOMAIN inflight : r \in inflight[i]})
=============================================================================
