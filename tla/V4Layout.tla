------------------------------ MODULE V4Layout ------------------------------
(***************************************************************************)
(* How the decode state of a layer travels between steps: packed into one  *)
(* flat array per layer that the KV-cache allocator has sized and that     *)
(* every step unpacks, replaces and donates back                           *)
(* (models/jax/deepseek_v4.py 523-708).                                    *)
(*                                                                         *)
(* Three pieces of code compute the same shapes, each for itself: the      *)
(* attention layer that builds the arrays, the layout that slices them,    *)
(* and the allocator, which has the configuration but no parameters yet.   *)
(* A batch is one sequence. An element is told apart by its array, the     *)
(* contents of its row and its column.                                     *)
(***************************************************************************)
EXTENDS V4DecodeState, Sequences

CONSTANTS
    HeadDim,        \* head_dim
    IndexHeadDim    \* index_head_dim

ASSUME DimsAssumption == HeadDim \in Nat \ {0} /\ IndexHeadDim \in Nat \ {0}

\* _DECODE_STATE_FIELD_NAMES, by position: kv_cache, compressor_kv_state,
\* compressor_score_state, indexer_kv_state, indexer_score_state,
\* indexer_kv_cache.
Fields == 1 .. 6

\* The arrays of the attention layer: the contents of their rows, as a prefill
\* or a decode step has left them, and the number of their columns.
NoArray == [row |-> <<>>, cols |-> 0]
Arrays ==
    LET kvc  == [i \in 0 .. Cardinality(DOMAIN swa) + Cardinality(DOMAIN comp) - 1 |->
                   IF i < Cardinality(DOMAIN swa) THEN swa[i]
                   ELSE comp[i - Cardinality(DOMAIN swa)]]
        cs   == IF Ratio > 0
                THEN [row |-> cst, cols |-> IF Overlap THEN 2 * HeadDim ELSE HeadDim]
                ELSE NoArray
        is   == IF HasIndexer THEN [row |-> ist, cols |-> 2 * IndexHeadDim] ELSE NoArray
        ic   == IF HasIndexer THEN [row |-> icomp, cols |-> IndexHeadDim] ELSE NoArray
    IN  <<[row |-> kvc, cols |-> HeadDim], cs, cs, is, is, ic>>

Rows(i) == Cardinality(DOMAIN Arrays[i].row)
Cols(i) == Arrays[i].cols

-----------------------------------------------------------------------------
(* The layout and the allocator *)

Coff == IF Ratio = 4 THEN 2 ELSE 1
NoField == [rows |-> 0, cols |-> 0]

\* _layer_decode_state_layout.
Layout ==
    LET extra == IF Ratio > 0 THEN MaxSeqLen \div Ratio ELSE 0
        cs == IF Ratio > 0 THEN [rows |-> Coff * Ratio, cols |-> Coff * HeadDim] ELSE NoField
        is == IF Ratio = 4 THEN [rows |-> Coff * Ratio, cols |-> Coff * IndexHeadDim]
                           ELSE NoField
        ic == IF Ratio = 4 THEN [rows |-> MaxSeqLen \div Ratio, cols |-> IndexHeadDim]
                           ELSE NoField
    IN  <<[rows |-> Win + extra, cols |-> HeadDim], cs, cs, is, is, ic>>

Size(i) == Layout[i].rows * Layout[i].cols

\* A plausible bug: the allocator counts a partly filled block.
AllocatedRoundedUp ==
    LET extra == IF Ratio > 0 THEN (MaxSeqLen + Ratio - 1) \div Ratio ELSE 0
    IN  (Win + extra) * HeadDim
        + (IF Ratio > 0 THEN 2 * ((Coff * Ratio) * (Coff * HeadDim)) ELSE 0)
        + (IF Ratio = 4 THEN 2 * ((Coff * Ratio) * (Coff * IndexHeadDim))
                              + extra * IndexHeadDim
           ELSE 0)

\* v4_layer_packed_sizes_from_cfg.
Allocated ==
    LET extra == IF Ratio > 0 THEN MaxSeqLen \div Ratio ELSE 0
    IN  (Win + extra) * HeadDim
        + (IF Ratio > 0 THEN 2 * ((Coff * Ratio) * (Coff * HeadDim)) ELSE 0)
        + (IF Ratio = 4 THEN 2 * ((Coff * Ratio) * (Coff * IndexHeadDim))
                              + (MaxSeqLen \div Ratio) * IndexHeadDim
           ELSE 0)

-----------------------------------------------------------------------------
(* Packing and unpacking *)

\* arr.reshape(-1).
Flat(i) ==
    [k \in 1 .. Rows(i) * Cols(i) |->
       <<i, Arrays[i].row[(k - 1) \div Cols(i)], (k - 1) % Cols(i)>>]

\* _pack_layer_state: what a step puts into kv_caches[layer].
Packed == Flat(1) \o Flat(2) \o Flat(3) \o Flat(4) \o Flat(5) \o Flat(6)

\* The offset of each field: offset += n.
OffsetOf ==
    <<0, Size(1), Size(1) + Size(2), Size(1) + Size(2) + Size(3),
      Size(1) + Size(2) + Size(3) + Size(4),
      Size(1) + Size(2) + Size(3) + Size(4) + Size(5)>>

\* _unpack_layer_state: dynamic_slice_in_dim moves a slice that would run over
\* the end back into the array.
Unpacked(packed, i) ==
    LET start == IF OffsetOf[i] + Size(i) > Len(packed) THEN Len(packed) - Size(i)
                 ELSE OffsetOf[i]
    IN  [k \in 1 .. Size(i) |-> packed[start + k]]

-----------------------------------------------------------------------------
(* Properties *)

\* Whatever prefill or decode step built the state, the array that goes back
\* into kv_caches has the length that the allocator gave it, so that the
\* buffers can be donated, and the next step unpacks from it every field as it
\* was packed, in its own shape.
PackedExact ==
    LET p == Packed
    IN  /\ Len(p) = Allocated
        /\ \A i \in Fields : /\ Layout[i] = [rows |-> Rows(i), cols |-> Cols(i)]
                             /\ Unpacked(p, i) = Flat(i)
=============================================================================
