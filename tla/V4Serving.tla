------------------------------ MODULE V4Serving ------------------------------
(***************************************************************************)
(* The engine around the decode state.  Every data-parallel rank runs one  *)
(* request (--max-num-seqs=1) and queues the others; a step lays the       *)
(* scheduled tokens of all the ranks out in one padded row of ids; the     *)
(* runner looks at the first request of rank 0 to call the step a prefill  *)
(* or a decode; and the model runs the row as ONE sequence against the one *)
(* packed state.  The state stands for the tokens whose keys and values it *)
(* holds (module V4DecodeState says that it does hold them).               *)
(*                                                                         *)
(* run_model is jitted, so _extract_seq_segments sees tracers, fails to    *)
(* make lists of them and returns None: the per-sequence loop of __call__  *)
(* is not reached while serving.                                           *)
(***************************************************************************)
EXTENDS Filtering, FiniteSetsExt, SequencesExt

CONSTANTS
    DpSize,             \* sharding_config.total_dp_size
    Reqs, NoReq,
    MaxModelLen,
    MaxBatchedTokens,   \* max_num_batched_tokens, of each rank
    TokenPaddings,      \* num_tokens_paddings_per_dp
    BatchQueueSize,     \* 1: synchronous engine; 2: async scheduling
    MaxOutstanding,     \* bound: requests the clients have open at a time
    Pad, Dirty,         \* a zeroed id; an id left by an earlier batch
    Garbage             \* contents no request's tokens explain

ASSUME ServingAssumption ==
    /\ DpSize \in Nat \ {0}
    /\ MaxModelLen \in Nat \ {0, 1}
    /\ MaxBatchedTokens \in Nat \ {0}
    /\ IsFiniteSet(TokenPaddings) /\ TokenPaddings \subseteq Nat \ {0}
    /\ \E P \in TokenPaddings : P >= MaxBatchedTokens
    /\ BatchQueueSize \in {1, 2}
    /\ MaxOutstanding \in Nat \ {0}
    /\ NoReq \notin Reqs
    /\ \A r \in Reqs, m \in 0 .. MaxModelLen : Garbage # [i \in 1 .. m |-> <<r, i>>]

Ranks == 0 .. DpSize - 1

VARIABLES
    status,     \* of each request: "new", "live" or "done"
    waiting,    \* of each rank: its queue
    running,    \* of each rank: its request, or NoReq
    tokens,     \* num_tokens of each request, tokens not yet reported included
    computed,   \* num_computed_tokens
    state,      \* the tokens the packed kv_caches stand for, or Garbage
    rows,       \* the rows the last step sampled from
    inflight    \* the batches executed and not yet reported: requests sampled

vars == <<status, waiting, running, tokens, computed, state, rows, inflight>>

Init ==
    /\ status = [r \in Reqs |-> "new"]
    /\ waiting = [k \in Ranks |-> <<>>]
    /\ running = [k \in Ranks |-> NoReq]
    /\ tokens = [r \in Reqs |-> 0]
    /\ computed = [r \in Reqs |-> 0]
    /\ state = <<>>
    /\ rows = {}
    /\ inflight = <<>>

Token(r, i) == <<r, i>>
Live == {r \in Reqs : status[r] = "live"}

-----------------------------------------------------------------------------
(* Requests come and go *)

Reported(r) == tokens[r] - Cardinality({i \in DOMAIN inflight : r \in inflight[i]})
RankRequests(k) == ToSet(waiting[k]) \cup ({running[k]} \ {NoReq})
RankTokens(k) == MapThenSumSet(Reported, RankRequests(k))

\* No prefix hit (--no-enable-prefix-caching): the first rank of least load.
BestRank == CHOOSE k \in Ranks :
    \A j \in Ranks : RankTokens(k) < RankTokens(j)
                     \/ (RankTokens(k) = RankTokens(j) /\ k <= j)

AddRequest(r, m) ==
    /\ status[r] = "new"
    /\ Cardinality(Live) < MaxOutstanding
    /\ status' = [status EXCEPT ![r] = "live"]
    /\ tokens' = [tokens EXCEPT ![r] = m]
    /\ waiting' = [waiting EXCEPT ![BestRank] = Append(@, r)]
    /\ UNCHANGED <<running, computed, state, rows, inflight>>

\* The scheduler forgets requests that finished or were aborted.
Free(S) ==
    /\ status' = [r \in Reqs |-> IF r \in S THEN "done" ELSE status[r]]
    /\ running' = [k \in Ranks |-> IF running[k] \in S THEN NoReq ELSE running[k]]
    /\ waiting' = [k \in Ranks |-> RemoveAll(waiting[k], S)]

Abort(r) ==
    /\ status[r] = "live"
    /\ Free({r})
    /\ UNCHANGED <<tokens, computed, state, rows, inflight>>

\* A plausible bug: the preempted request is not put back.
PreemptDrops(k) ==
    /\ running[k] # NoReq
    /\ inflight = <<>>
    /\ computed' = [computed EXCEPT ![running[k]] = 0]
    /\ running' = [running EXCEPT ![k] = NoReq]
    /\ UNCHANGED <<status, tokens, waiting, state, rows, inflight>>

\* Preemption: the request goes to the head of its queue with nothing computed
\* and will be prefilled with all its tokens.  Bound: with no batch in flight.
Preempt(k) ==
    /\ running[k] # NoReq
    /\ inflight = <<>>
    /\ waiting' = [waiting EXCEPT ![k] = <<running[k]>> \o @]
    /\ computed' = [computed EXCEPT ![running[k]] = 0]
    /\ running' = [running EXCEPT ![k] = NoReq]
    /\ UNCHANGED <<status, tokens, state, rows, inflight>>

-----------------------------------------------------------------------------
(* One step of the engine *)

\* A rank schedules its running request, or the head of its queue when none
\* runs; a request whose last token is on its way is not scheduled again.
Candidate(k) ==
    CASE running[k] # NoReq -> running[k]
      [] running[k] = NoReq /\ waiting[k] # <<>> -> Head(waiting[k])
      [] OTHER -> NoReq
Idle == [req |-> NoReq, q |-> 0, len |-> 0]

Entry(r) ==
    IF r = NoReq \/ tokens[r] = MaxModelLen THEN Idle
    ELSE LET q == Min({tokens[r] - computed[r], MaxBatchedTokens})
         IN [req |-> r, q |-> q, len |-> computed[r] + q]

\* The scheduler output: of each rank its request, the number of tokens that
\* are scheduled of it and its seq_len.
Schedule == [k \in Ranks |-> Entry(Candidate(k))]
Busy(b) == {k \in Ranks : b[k].req # NoReq}

\* The sampled token of a partial prefill is discarded.
Sampling(b) == {k \in Busy(b) : b[k].len >= tokens[b[k].req]}

\* get_padded_token_len of the busiest rank.
IsPaddedLen(P, b) ==
    /\ \A k \in Ranks : P >= b[k].q
    /\ \A U \in TokenPaddings : (\A k \in Ranks : U >= b[k].q) => P <= U

\* input_ids: rank k's tokens from k * P on, then zeros; the rows of a rank
\* that has no request are not written at all.
InputId(b, P, i) ==
    LET e == b[(i - 1) \div P]
        o == ((i - 1) % P) + 1
    IN CASE e.req = NoReq -> Dirty
         [] e.req # NoReq /\ o <= e.q -> Token(e.req, e.len - e.q + o)
         [] OTHER -> Pad
InputIds(b, P, m) == [i \in 1 .. m |-> InputId(b, P, i)]

\* logits_indices: the last scheduled row of the rank's request.
LogitsRow(b, P, k) == k * P + b[k].q

\* A plausible bug: the gate forgets that a prompt of one token is a prefill.
IsDecodeAnyOne(b) == b[0].q = 1
\* query_start_loc[1] and seq_lens[0] are those of rank 0 alone.
IsDecode(b) == b[0].q = 1 /\ b[0].len > 1

\* A plausible bug: the state is seeded from the whole padded row.
PrefillStatePadded(b, P) == InputIds(b, P, DpSize * P)
\* The seed is built from the first n_real = seq_lens[0] rows.
PrefillState(b, P) ==
    IF b[0].len <= DpSize * P THEN InputIds(b, P, b[0].len) ELSE Garbage

\* ids[:, 0:1] at start_pos = seq_lens[0] - 1.
DecodeState(b, P) ==
    IF state # Garbage /\ Len(state) = b[0].len - 1
    THEN Append(state, InputId(b, P, 1)) ELSE Garbage

\* What row i attends to.  A prefill masks the rows from n_real on; a decode
\* pads its one row of hidden states with zeros.
RowContext(b, P, i) ==
    CASE IsDecode(b) /\ i = 1 -> DecodeState(b, P)
      [] IsDecode(b) /\ i # 1 -> <<>>
      [] ~IsDecode(b) /\ i <= b[0].len -> InputIds(b, P, i)
      [] OTHER -> Garbage

Run(b, P) ==
    /\ state' = IF IsDecode(b) THEN DecodeState(b, P) ELSE PrefillState(b, P)
    /\ rows' = {[req |-> b[k].req, at |-> b[k].len,
                 seen |-> RowContext(b, P, LogitsRow(b, P, k))] : k \in Sampling(b)}
    /\ LET sampled == {b[k].req : k \in Sampling(b)}
       IN /\ tokens' = [r \in Reqs |-> IF r \in sampled THEN tokens[r] + 1 ELSE tokens[r]]
          /\ inflight' = Append(inflight, sampled)

Execute ==
    /\ Len(inflight) < BatchQueueSize
    /\ \E b \in {Schedule}, P \in TokenPaddings :
          /\ Busy(b) # {}
          /\ IsPaddedLen(P, b)
          /\ running' = [k \in Ranks |->
                            IF k \in Busy(b) THEN b[k].req ELSE running[k]]
          /\ waiting' = [k \in Ranks |->
                            IF k \in Busy(b) /\ running[k] = NoReq
                            THEN Tail(waiting[k]) ELSE waiting[k]]
          /\ computed' = [r \in Reqs |->
                IF \E k \in Busy(b) : b[k].req = r
                THEN (CHOOSE e \in Range(b) : e.req = r).len ELSE computed[r]]
          /\ Run(b, P)
    /\ UNCHANGED status

\* update_from_output: requests of the oldest batch stop on a stop token, or
\* because the last token they may have was reported.
Update ==
    /\ inflight # <<>>
    /\ inflight' = Tail(inflight)
    /\ \E stop \in SUBSET (Head(inflight) \cap Live) :
          /\ \A r \in Head(inflight) \cap Live :
                (tokens[r] = MaxModelLen /\ r \notin UNION ToSet(Tail(inflight)))
                    => r \in stop
          /\ Free(stop)
    /\ UNCHANGED <<tokens, computed, state, rows>>

Next ==
    \/ \E r \in Reqs, m \in 1 .. MaxModelLen - 1 : AddRequest(r, m)
    \/ \E r \in Reqs : Abort(r)
    \/ \E k \in Ranks : Preempt(k)
    \/ Execute
    \/ Update

\* The busy loop steps as long as there is work.
Spec == Init /\ [][Next]_vars /\ WF_vars(Execute) /\ WF_vars(Update)

-----------------------------------------------------------------------------
(* Properties *)

\* Lengths stay within max_model_len and the batch queue within its size.
TypeOK ==
    /\ status \in [Reqs -> {"new", "live", "done"}]
    /\ \A k \in Ranks : waiting[k] \in Seq(Reqs)
    /\ running \in [Ranks -> Reqs \cup {NoReq}]
    /\ tokens \in [Reqs -> 0 .. MaxModelLen]
    /\ computed \in [Reqs -> 0 .. MaxModelLen]
    /\ Len(inflight) <= BatchQueueSize

Own(r, m) == [i \in 1 .. m |-> Token(r, i)]

\* Every token is sampled from a row that attended to exactly the request's own
\* tokens, in order, from the first to the last: no other request, no padding,
\* nothing missing.
ServedExact == \A x \in rows : x.seen = Own(x.req, x.at)

\* Every request is served to its end, through preemptions and behind others.
Completes == \A r \in Reqs : (status[r] = "live") ~> (status[r] = "done")

\* With one request open at a time the engine drives the state as the attention
\* without a cache of V4Context: a request begins with a prefill, is extended
\* one token at a time and ends before the next one begins.
Active ==
    IF \E k \in Ranks : running[k] # NoReq /\ computed[running[k]] > 0
    THEN LET k == CHOOSE k \in Ranks : running[k] # NoReq IN running[k]
    ELSE NoReq
LastRow == CHOOSE x \in rows : TRUE
Exact(r, p) == {Own(r, p + 1)}
Context == INSTANCE V4Context WITH
    seq <- Active,
    n <- IF rows = {} THEN 0 ELSE LastRow.at,
    seen <- IF rows = {} THEN <<>> ELSE LastRow.seen,
    Nothing <- <<>>
RefinesContext == Context!Spec
=============================================================================
