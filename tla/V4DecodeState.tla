---------------------------- MODULE V4DecodeState ----------------------------
(***************************************************************************)
(* The decode state of one attention layer as the engine drives it with a  *)
(* single active sequence: a prefill builds the state in closed form from  *)
(* a padded bucket, every decode step advances it by one position, and a   *)
(* request that leaves (finished, aborted, preempted) leaves its contents  *)
(* in the buffer for the next prefill to replace.                          *)
(***************************************************************************)
EXTENDS V4Attention

CONSTANTS
    MaxModelLen,   \* max_model_len: the longest a sequence grows
    NoReq

ASSUME EngineAssumption ==
    /\ MaxModelLen \in Nat \ {0}
    /\ MaxModelLen <= MaxSeqLen
    /\ \E T \in Buckets : T >= MaxModelLen
    /\ NoReq \notin Reqs

VARIABLES
    req,     \* the active request, or NoReq
    len,     \* its tokens whose keys and values are in the state
    swa,     \* kv_cache[:win]: the sliding-window ring
    comp,    \* kv_cache[win:]: the compressed cache
    cst,     \* compressor_kv_state / compressor_score_state
    icomp,   \* indexer_kv_cache
    ist,     \* indexer_kv_state / indexer_score_state
    attn,    \* what the last query read
    up       \* no step has raised

vars == <<req, len, swa, comp, cst, icomp, ist, attn, up>>

HasIndexer == Overlap
NothingRead == [window |-> {}, blocks |-> <<>>, ranked |-> <<>>]

\* get_padded_token_len: the first bucket that is large enough.
IsBucketOf(T, nr) == T >= nr /\ \A U \in Buckets : U >= nr => T <= U

\* The allocator's buffers are zeros.
Init ==
    /\ req = NoReq
    /\ len = 0
    /\ swa = [i \in Ring |-> Zero]
    /\ comp = [j \in CompSlots |-> Zero]
    /\ cst = [i \in StateSlots |-> Zero]
    /\ icomp = [j \in CompSlots |-> Zero]
    /\ ist = [i \in StateSlots |-> Zero]
    /\ attn = NothingRead
    /\ up = TRUE

\* attention_prefill's reads for the last real position s: its inputs are the
\* padded activations themselves, not the state.
PrefillValid(T, s) ==
    {j \in 0 .. (IF Ratio > 0 THEN T \div Ratio ELSE 0) - 1 : j < ValidBlocks(s)}

\* A plausible bug: the logits are taken at the bucket's last row.
PrefillAttnLastRow(r, T, nr, sel) ==
    LET s == T - 1
        lo == IF s - Win + 1 > 0 THEN s - Win + 1 ELSE 0
        x(p) == SeedInput(r, nr, p)
    IN [window |-> {x(q) : q \in {q \in lo .. lo + Win - 1 : q <= s}},
        blocks |-> [j \in sel |-> PooledBlock(r, nr, j)],
        ranked |-> IF HasIndexer
                   THEN [j \in PrefillValid(T, s) |-> PooledBlock(r, nr, j)] ELSE <<>>]

PrefillAttn(r, T, nr, sel) ==
    LET s == nr - 1
        lo == IF s - Win + 1 > 0 THEN s - Win + 1 ELSE 0
        x(p) == SeedInput(r, nr, p)
    IN [window |-> {x(q) : q \in {q \in lo .. lo + Win - 1 : q <= s}},
        blocks |-> [j \in sel |-> PooledBlock(r, nr, j)],
        ranked |-> IF HasIndexer
                   THEN [j \in PrefillValid(T, s) |-> PooledBlock(r, nr, j)] ELSE <<>>]

Prefill(r, T, nr) ==
    /\ up
    /\ req = NoReq
    /\ IsBucketOf(T, nr)
    /\ T >= Ratio
    /\ req' = r
    /\ len' = nr
    /\ swa' = SwaFromPrefill(r, T, nr)
    /\ IF Ratio > 0
       THEN /\ comp' = CompFromPrefill(r, T, nr)
            /\ cst' = StateFromPrefill(r, T, nr)
       ELSE UNCHANGED <<comp, cst>>
    /\ IF HasIndexer
       THEN /\ icomp' = CompFromPrefill(r, T, nr)
            /\ ist' = StateFromPrefill(r, T, nr)
       ELSE UNCHANGED <<icomp, ist>>
    /\ \E sel \in BlockChoices(PrefillValid(T, nr - 1)) :
          attn' = PrefillAttn(r, T, nr, sel)
    /\ UNCHANGED up

\* The seed slices Ratio entries out of T: JAX rejects a slice longer than the
\* array when it traces the step, and the engine dies on the exception.
PrefillRaises(T, nr) ==
    /\ up
    /\ req = NoReq
    /\ IsBucketOf(T, nr)
    /\ T < Ratio
    /\ up' = FALSE
    /\ UNCHANGED <<req, len, swa, comp, cst, icomp, ist, attn>>

\* attention_decode_step's reads at position p, from the updated caches.
DecodeValid(p) == {j \in CompSlots : j < ValidBlocks(p)}
DecodeAttn(ring, cache, icache, p, sel) ==
    [window |-> {ring[i] : i \in WindowIdxsDecode(p)},
     blocks |-> [j \in sel |-> cache[j]],
     ranked |-> IF HasIndexer THEN [j \in DecodeValid(p) |-> icache[j]] ELSE <<>>]

\* attention_decode_step at start_pos = len: every write precedes the reads.
Decode ==
    /\ up
    /\ req # NoReq
    /\ len < MaxModelLen
    /\ len' = len + 1
    /\ swa' = SwaWrite(swa, req, len)
    /\ IF Ratio > 0
       THEN /\ cst' = CompressorStep(cst, req, len)
            /\ comp' = CompWrite(comp, len, CompressorEmit(cst, req, len))
       ELSE UNCHANGED <<comp, cst>>
    /\ IF HasIndexer
       THEN /\ ist' = CompressorStep(ist, req, len)
            /\ icomp' = CompWrite(icomp, len, CompressorEmit(ist, req, len))
       ELSE UNCHANGED <<icomp, ist>>
    /\ \E sel \in BlockChoices(DecodeValid(len)) :
          attn' = DecodeAttn(swa', comp', icomp', len, sel)
    /\ UNCHANGED <<req, up>>

\* The request leaves; nothing clears the buffer.
Leave ==
    /\ up
    /\ req # NoReq
    /\ req' = NoReq
    /\ UNCHANGED <<len, swa, comp, cst, icomp, ist, attn, up>>

Next ==
    \/ \E r \in Reqs, T \in Buckets, nr \in 1 .. MaxModelLen : Prefill(r, T, nr)
    \/ \E T \in Buckets, nr \in 1 .. MaxModelLen : PrefillRaises(T, nr)
    \/ Decode
    \/ Leave

Spec == Init /\ [][Next]_vars

-----------------------------------------------------------------------------
(* Properties *)

CacheEntry == Pooled \cup {Zero}

\* Every buffer of the layer keeps its shape and holds contents of its kind.
TypeOK ==
    /\ req \in Reqs \cup {NoReq}
    /\ len \in 0 .. MaxModelLen
    /\ swa \in [Ring -> Content]
    /\ comp \in [CompSlots -> CacheEntry]
    /\ icomp \in [CompSlots -> CacheEntry]
    /\ cst \in [StateSlots -> Content]
    /\ ist \in [StateSlots -> Content]
    /\ up \in BOOLEAN

\* Every query, of a prefill or of a decode step, reads exactly the last Win
\* positions of its own request: the ring never returns a stale, padded or
\* foreign entry, and never misses one (attention_decode_step's wraparound).
WindowExact ==
    req # NoReq => attn.window = CausalWindow(req, len - 1)

\* The compressed blocks a query reads are complete blocks of its own request,
\* each pooled from the right tokens with the right overlap and rotary position,
\* as many as the causal mask and index_topk allow; and the indexer ranks
\* exactly the blocks that may be read.
BlocksExact ==
    req # NoReq =>
        LET valid == 0 .. ValidBlocks(len - 1) - 1
        IN /\ DOMAIN attn.blocks \in BlockChoices(valid)
           /\ \A j \in DOMAIN attn.blocks : attn.blocks[j] = CanonBlock(req, j)
           /\ HasIndexer => attn.ranked = [j \in valid |-> CanonBlock(req, j)]

\* The state reached by any mix of one prefill and decode steps agrees, on
\* every slot a later step can read before it is overwritten, with the state a
\* prefill of the whole sequence would build (TestPrefillToDecodeStateParity).
LiveStateSlots == {i \in StateSlots : i < Offset + (len % Ratio)}
SeedParity ==
    (req # NoReq /\ Ratio > 0) =>
        \A T \in Buckets : (T >= len /\ T >= Ratio) =>
            \A i \in LiveStateSlots :
                /\ cst[i] = StateFromPrefill(req, T, len)[i]
                /\ HasIndexer => ist[i] = StateFromPrefill(req, T, len)[i]

\* While a request runs, a block that queries can already see never changes:
\* the unconditional write at start_pos // ratio only hits the open block.
VisibleBlocksStable ==
    [][(req # NoReq /\ req' = req) =>
          \A j \in 0 .. ValidBlocks(len - 1) - 1 : comp'[j] = comp[j]]_vars

-----------------------------------------------------------------------------
(* The inductive invariant behind the properties above *)

\* The ring holds the last Win of the n positions of r, each in its slot.
RingHolds(ring, r, n) ==
    \A p \in 0 .. n - 1 : p >= n - Win => ring[p % Win] = Token(r, p)

\* A compressor state holds the tokens of the open block and, with overlap,
\* those of the block before it.
FrontHolds(st, r, n) ==
    Overlap => \A i \in InBlock :
        st[i] = IF n \div Ratio > 0
                THEN Token(r, ((n \div Ratio) - 1) * Ratio + i) ELSE Empty
OpenHolds(st, r, n) ==
    \A i \in InBlock : i < n % Ratio =>
        st[Offset + i] = Token(r, (n \div Ratio) * Ratio + i)

\* A compressed cache holds the complete blocks.
CacheHolds(cache, r, n) ==
    \A j \in CompSlots : j < n \div Ratio => cache[j] = CanonBlock(r, j)

CompressorHolds(st, cache, r, n) ==
    FrontHolds(st, r, n) /\ OpenHolds(st, r, n) /\ CacheHolds(cache, r, n)

\* While a request runs, the ring, the compressors and their caches hold its
\* tokens wherever a later step reads them (attention_decode_step's state).
IndInv ==
    /\ TypeOK
    /\ req # NoReq =>
        /\ len >= 1
        /\ attn \in Exact(req, len - 1)
        /\ RingHolds(swa, req, len)
        /\ Ratio > 0 => CompressorHolds(cst, comp, req, len)
        /\ HasIndexer => CompressorHolds(ist, icomp, req, len)

\* The layer, prefill seeding and decode steps together, implements an attention
\* with no cache at all.
Context == INSTANCE V4Context
    WITH seq <- req, n <- len, seen <- attn, Nothing <- NothingRead
RefinesContext == Context!Spec
=============================================================================
