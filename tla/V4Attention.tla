----------------------------- MODULE V4Attention -----------------------------
(***************************************************************************)
(* The cache arithmetic of one DeepSeek-V4 attention layer, as pure        *)
(* operators: which token each slot of the layer's decode state holds and  *)
(* which slots an attention step reads.  Source:                           *)
(* tpu_inference/layers/jax/attention/deepseek_v4_attention.py.            *)
(*                                                                         *)
(* A key/value vector is abstracted to the token it was computed from,     *)
(* <<request, position>>.  Three further contents are told apart:          *)
(*   Empty  the initial compressor slot: zero kv and a -inf score, so the  *)
(*          softmax gives it no weight;                                    *)
(*   Pad    what a padding position of a prefill bucket yields: a zeroed   *)
(*          input, whose score is finite, so the softmax does weigh it;    *)
(*   Zero   memory that was allocated as zeros and never written.          *)
(* A pooled (compressed) vector is abstracted to the slots it was pooled   *)
(* from and the position its rotary embedding was taken at.                *)
(***************************************************************************)
EXTENDS Integers, FiniteSets

CONSTANTS
    Reqs,        \* request identities
    Win,         \* params.window_size: slots of the sliding-window ring
    Ratio,       \* params.compress_ratio: 0 (pure window), 4 (overlap), other
    MaxSeqLen,   \* state_max_seq_len: positions the state is sized for
    IndexTopK,   \* params.index_topk: blocks the indexer keeps per query
    Buckets,     \* num_tokens_paddings: the padded prefill lengths
    Empty, Pad, Zero

ASSUME SizesAssumption ==
    /\ Win \in Nat \ {0}
    /\ Ratio \in Nat
    /\ MaxSeqLen \in Nat \ {0}
    /\ IndexTopK \in Nat \ {0}

(***************************************************************************)
(* A bucket that can hold a compression block is a whole number of them.   *)
(* The serving configuration gives this: the buckets are the powers of two *)
(* from max(16, dp_size * kv_packing) up and the ratios are 0, 4 and 128.  *)
(***************************************************************************)
ASSUME BucketsAssumption ==
    /\ Buckets \subseteq Nat \ {0}
    /\ Ratio > 0 => \A T \in Buckets : T >= Ratio => T % Ratio = 0

ASSUME ContentsAssumption ==
    /\ Empty \notin Reqs \X Nat
    /\ Pad \notin Reqs \X Nat
    /\ Zero \notin Reqs \X Nat

Overlap == Ratio = 4

\* Slots of the ring, of one compression block, of the compressor state and of
\* the compressed cache (extra = cfg_max_seq_len // ratio, 0 for ratio 0).
Ring == 0 .. Win - 1
InBlock == 0 .. Ratio - 1
Offset == IF Overlap THEN Ratio ELSE 0
StateSlots == 0 .. Offset + Ratio - 1
Extra == IF Ratio > 0 THEN MaxSeqLen \div Ratio ELSE 0
CompSlots == 0 .. Extra - 1

Token(r, p) == <<r, p>>
Content == (Reqs \X Nat) \cup {Empty, Pad, Zero}
NoBlock == [i \in InBlock |-> Empty]

\* What compression produces: the two groups of slots it pools (prev is all
\* Empty without overlap) and the position of its rotary embedding.
Pooled == [prev : [InBlock -> Content], cur : [InBlock -> Content], rope : Nat]

-----------------------------------------------------------------------------
(* Decode: one token at position p *)

SwaWrite(swa, r, p) == [swa EXCEPT ![p % Win] = Token(r, p)]

\* A plausible bug: the wrapped window stops one slot short, at the oldest.
WindowIdxsDecodeShort(p) ==
    IF p >= Win - 1 THEN {((p % Win) + 1 + i) % Win : i \in 0 .. Win - 2} ELSE 0 .. p

\* get_window_topk_idxs_decode without its -1 sentinels.
WindowIdxsDecode(p) ==
    IF p >= Win - 1 THEN {((p % Win) + 1 + i) % Win : i \in Ring} ELSE 0 .. p

\* A plausible bug: the overlapping state's new token goes to the front half.
CompressorWriteFront(st, r, p) == [st EXCEPT ![p % Ratio] = Token(r, p)]

\* The compressor state with the new token in its slot, before any shift.
CompressorWrite(st, r, p) == [st EXCEPT ![Offset + (p % Ratio)] = Token(r, p)]

\* The row dynamic_slice_in_dim takes of the MaxSeqLen rows of freqs_cis: JAX
\* counts a negative start from the end and clamps what is still out of range.
RopeRow(s) ==
    IF s >= 0 THEN s ELSE IF MaxSeqLen + s >= 0 THEN MaxSeqLen + s ELSE 0

\* softmax-pool over the slots.
CompressorPool(st, p) ==
    [prev |-> IF Overlap THEN [i \in InBlock |-> st[i]] ELSE NoBlock,
     cur  |-> [i \in InBlock |-> st[Offset + i]],
     rope |-> RopeRow(p + 1 - Ratio)]

\* A plausible bug: the state is never scrolled at a block boundary.
CompressorShiftNever(st, p) == st

\* On a block boundary the overlapping state scrolls up by one block.
CompressorShift(st, p) ==
    IF Overlap /\ (p + 1) % Ratio = 0
    THEN [i \in StateSlots |-> IF i < Ratio THEN st[Ratio + i] ELSE st[i]]
    ELSE st

\* compressor_decode_step: the state it returns and the vector it emits.
CompressorStep(st, r, p) == CompressorShift(CompressorWrite(st, r, p), p)
CompressorEmit(st, r, p) == CompressorPool(CompressorWrite(st, r, p), p)

\* A plausible bug: the slot is computed from the number of tokens, p + 1.
CompWriteAhead(cache, p, pooled) ==
    IF (p + 1) \div Ratio \in CompSlots
    THEN [cache EXCEPT ![(p + 1) \div Ratio] = pooled]
    ELSE cache

\* The emitted vector is stored at p // ratio on every step; JAX drops a
\* scatter outside the array.
CompWrite(cache, p, pooled) ==
    IF p \div Ratio \in CompSlots
    THEN [cache EXCEPT ![p \div Ratio] = pooled]
    ELSE cache

\* A plausible bug: the open block already counts as complete.
ValidBlocksOpen(p) == IF Ratio > 0 THEN (p \div Ratio) + 1 ELSE 0

\* Blocks complete after position p; both index helpers mask the others.
ValidBlocks(p) == IF Ratio > 0 THEN (p + 1) \div Ratio ELSE 0

\* The sets of block indices a query may read of the valid ones.  With an
\* indexer (ratio 4) it is any IndexTopK of them, all when there are fewer: the
\* scores are data.  Without, every one.
BlockChoices(valid) ==
    IF Overlap
    THEN {s \in SUBSET valid :
            Cardinality(s) = IF Cardinality(valid) < IndexTopK
                             THEN Cardinality(valid) ELSE IndexTopK}
    ELSE {valid}

-----------------------------------------------------------------------------
(* Prefill of a bucket of T positions of which the first nr are real *)

\* Inputs at positions >= n_real are zeroed before the state is built.
SeedInput(r, nr, p) == IF p < nr THEN Token(r, p) ELSE Pad

\* _swa_kv_cache_from_prefill, the path with n_real.
SwaFromPrefill(r, T, nr) ==
    LET k(i) == (IF nr - 1 - i > 0 THEN nr - 1 - i ELSE 0) \div Win
        p(i) == IF i + k(i) * Win > T - 1 THEN T - 1 ELSE i + k(i) * Win
    IN [i \in Ring |-> IF i < nr THEN SeedInput(r, nr, p(i)) ELSE Zero]

\* lax.dynamic_slice_in_dim(a, start, Ratio) over T entries clamps its start.
SliceStart(T, start) ==
    IF start > T - Ratio THEN T - Ratio ELSE IF start < 0 THEN 0 ELSE start

\* A plausible bug: the open block starts where the bucket's last block ends.
StateFromPrefillPadded(r, T, nr) ==
    LET remainder == T % Ratio
        cutoff == T - remainder
        prev == SliceStart(T, IF cutoff > Ratio THEN cutoff - Ratio ELSE 0)
        inprog == SliceStart(T, cutoff)
    IN [i \in StateSlots |->
          IF i < Offset
          THEN IF cutoff >= Ratio THEN SeedInput(r, nr, prev + i) ELSE Empty
          ELSE IF i - Offset < remainder
               THEN SeedInput(r, nr, inprog + (i - Offset)) ELSE Empty]

\* _compressor_state_from_prefill, the path with n_real.
StateFromPrefill(r, T, nr) ==
    LET remainder == nr % Ratio
        cutoff == nr - remainder
        prev == SliceStart(T, IF cutoff > Ratio THEN cutoff - Ratio ELSE 0)
        inprog == SliceStart(T, cutoff)
    IN [i \in StateSlots |->
          IF i < Offset
          THEN IF cutoff >= Ratio THEN SeedInput(r, nr, prev + i) ELSE Empty
          ELSE IF i - Offset < remainder
               THEN SeedInput(r, nr, inprog + (i - Offset)) ELSE Empty]

\* Block j of compressor_prefill over those inputs.
PooledBlock(r, nr, j) ==
    LET x(p) == SeedInput(r, nr, p)
    IN [prev |-> IF Overlap /\ j > 0
                 THEN [i \in InBlock |-> x((j - 1) * Ratio + i)] ELSE NoBlock,
        cur  |-> [i \in InBlock |-> x(j * Ratio + i)],
        rope |-> j * Ratio]

\* The compressed cache after prefill: T // ratio blocks, cut or padded with
\* zeros to the size of the cache.
CompFromPrefill(r, T, nr) ==
    [j \in CompSlots |-> IF j < T \div Ratio THEN PooledBlock(r, nr, j) ELSE Zero]

-----------------------------------------------------------------------------
(* The reference: what a query at position p has to see *)

\* The block of positions j*Ratio .. j*Ratio + Ratio-1 of request r, overlapping
\* with the one before it.
CanonBlock(r, j) ==
    [prev |-> IF Overlap /\ j > 0
              THEN [i \in InBlock |-> Token(r, (j - 1) * Ratio + i)] ELSE NoBlock,
     cur  |-> [i \in InBlock |-> Token(r, j * Ratio + i)],
     rope |-> j * Ratio]

\* The last Win positions up to p.
CausalWindow(r, p) == {Token(r, q) : q \in {q \in 0 .. p : q > p - Win}}

\* The contexts a query at position p of request r may see: the last Win
\* positions and the complete compression blocks (those the indexer picked).
Exact(r, p) ==
    LET valid == 0 .. ValidBlocks(p) - 1
    IN {[window |-> CausalWindow(r, p),
         blocks |-> [j \in sel |-> CanonBlock(r, j)],
         ranked |-> IF Overlap THEN [j \in valid |-> CanonBlock(r, j)] ELSE <<>>]
            : sel \in BlockChoices(valid)}
=============================================================================
