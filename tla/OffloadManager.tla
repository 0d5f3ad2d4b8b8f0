--------------------------- MODULE OffloadManager ---------------------------
(***************************************************************************)
(* The bookkeeping of the host KV cache (offload/offload_manager.py), as   *)
(* operators on two values:                                                *)
(*                                                                         *)
(*   a cache  [lru, chunk, free]   LRUCacheManager and its CPUChunkPool:   *)
(*     lru    the keys of cpu_cache, least recently used first             *)
(*     chunk  for every chunk id its hash (None when free) and ref_cnt     *)
(*     free   free_chunk_list, taken from and returned to at its end       *)
(*   a staging buffer  [free, load, save]   StagingBufferManager:          *)
(*     load, save   slots on record per request, 0 when it has no record   *)
(*                                                                         *)
(* ref_cnt is -1 while a chunk waits for its data, 0 when it is saved and  *)
(* idle, and the number of loads that pin it otherwise.                    *)
(***************************************************************************)
EXTENDS Integers, FiniteSets, SequencesExt

CONSTANTS Chunks,       \* the chunk ids, 0 .. num_cpu_chunks - 1
          None          \* "no hash", "no spec", "no tracker"

LOCAL MostOf(a, b)  == IF a >= b THEN a ELSE b

---------------------------------------------------------------------------
(* The chunk pool and the LRU map.                                         *)

FreeChunk == [hash |-> None, ref |-> -1]

EmptyCache ==
  [lru   |-> <<>>,
   chunk |-> [c \in Chunks |-> FreeChunk],
   free  |-> Reverse(SetToSortSeq(Chunks, <))]

\* The chunk that stores hash h: cpu_cache[h].
ChunkOf(cache, h) == CHOOSE c \in Chunks : cache.chunk[c].hash = h

InCache(cache, h) == \E i \in DOMAIN cache.lru : cache.lru[i] = h

ReadyToLoad(cache, h) ==
  InCache(cache, h) /\ cache.chunk[ChunkOf(cache, h)].ref >= 0

ReadyToEvict(cache, h) == cache.chunk[ChunkOf(cache, h)].ref = 0

\* How many of the leading hashes can be loaded.
Lookup(cache, hs) ==
  CHOOSE n \in 0..Len(hs) :
    /\ \A i \in 1..n : ReadyToLoad(cache, hs[i])
    /\ n < Len(hs) => ~ReadyToLoad(cache, hs[n + 1])

\* The cached ones among hs move to the recent end, the first hash last.
Touch(cache, hs) ==
  LET Named(h) == \E i \in DOMAIN hs : hs[i] = h
  IN  [cache EXCEPT !.lru =
         SelectSeq(@, LAMBDA h : ~Named(h))
           \o Reverse(SelectSeq(hs, LAMBDA h : InCache(cache, h)))]

\* The positions in hs that no chunk stores yet.
NewIdxs(cache, hs) ==
  SelectSeq([i \in 1..Len(hs) |-> i], LAMBDA i : ~InCache(cache, hs[i]))

\* The idle chunks that make room for n new ones, least recently used first;
\* None when there are not enough of them.
Victims(cache, n) ==
  LET short == MostOf(0, n - Len(cache.free))
      idle  == SelectSeq(cache.lru, LAMBDA h : ReadyToEvict(cache, h))
  IN  IF short > Len(idle) THEN None ELSE SubSeq(idle, 1, short)

Evict(cache, hs) ==
  LET gone == {ChunkOf(cache, hs[i]) : i \in DOMAIN hs}
  IN  [lru   |-> SelectSeq(cache.lru,
                           LAMBDA h : \A i \in DOMAIN hs : hs[i] # h),
       chunk |-> [c \in Chunks |-> IF c \in gone THEN FreeChunk
                                                 ELSE cache.chunk[c]],
       free  |-> cache.free \o [i \in DOMAIN hs |-> ChunkOf(cache, hs[i])]]

\* Chunks for hs, taken from the end of the free list, waiting for data.
Allocate(cache, hs) ==
  LET got == [i \in DOMAIN hs |-> cache.free[Len(cache.free) + 1 - i]]
  IN  [cache |-> [lru   |-> cache.lru \o hs,
                  chunk |-> [c \in Chunks |->
                               IF \E i \in DOMAIN got : got[i] = c
                               THEN [hash |-> hs[CHOOSE i \in DOMAIN got : got[i] = c],
                                     ref  |-> -1]
                               ELSE cache.chunk[c]],
                  free  |-> SubSeq(cache.free, 1, Len(cache.free) - Len(hs))],
       got   |-> got]

\* allocate_for_save: [cache, got, idxs], or None when nothing is new or no
\* room can be made.
AllocateForSave(cache, hs) ==
  LET idxs == NewIdxs(cache, hs)
      out  == Victims(cache, Len(idxs))
      new  == [i \in DOMAIN idxs |-> hs[idxs[i]]]
  IN  IF idxs = <<>> \/ out = None
      THEN None
      ELSE Allocate(Evict(cache, out), new) @@ [idxs |-> idxs]

\* A variant that pins nothing.
PrepareLoadUnpinned(cache, hs) == cache

\* prepare_load: every hash of hs gets one more pin.
PrepareLoad(cache, hs) ==
  [cache EXCEPT !.chunk =
     [c \in Chunks |-> IF \E i \in DOMAIN hs : ChunkOf(cache, hs[i]) = c
                       THEN [@[c] EXCEPT !.ref = @ + 1] ELSE @[c]]]

\* mark_completion of the saves and loads of one worker report: saved and
\* loaded give every request's finished chunks.
MarkCompletion(cache, saved, loaded) ==
  [cache EXCEPT !.chunk =
     [c \in Chunks |->
        [@[c] EXCEPT !.ref =
           @ + Cardinality({r \in DOMAIN saved : c \in saved[r]})
             - Cardinality({r \in DOMAIN loaded : c \in loaded[r]})]]]

\* A variant that tests a load's pin after it was released.
CompletionFailsLate(cache, saved, loaded) ==
  \E r \in DOMAIN saved :
    \/ \E c \in saved[r]  : cache.chunk[c].hash = None \/ cache.chunk[c].ref >= 0
    \/ \E c \in loaded[r] : cache.chunk[c].ref - 1 < 1

\* The assertions of mark_completion, complete_save and complete_load.
CompletionFails(cache, saved, loaded) ==
  \E r \in DOMAIN saved :
    \/ \E c \in saved[r]  : cache.chunk[c].hash = None \/ cache.chunk[c].ref >= 0
    \/ \E c \in loaded[r] :
         \/ cache.chunk[c].hash = None
         \/ cache.chunk[c].ref < Cardinality({q \in DOMAIN loaded : c \in loaded[q]})

---------------------------------------------------------------------------
(* The staging buffer.                                                     *)

EmptyStaging(reqs, n) ==
  [free |-> n, load |-> [r \in reqs |-> 0], save |-> [r \in reqs |-> 0]]

\* allocate: nothing is taken when there is no room for all n.
Take(stg, r, n, usage) ==
  IF n > stg.free THEN stg
  ELSE [stg EXCEPT !.free = @ - n, ![usage][r] = @ + n]

\* A second load of a request that still has one on record raises.
TakeFails(stg, r, n, usage) ==
  n > 0 /\ n <= stg.free /\ usage = "load" /\ stg.load[r] > 0

\* A variant that takes every completion for the last one of its request.
GiveAll(stg, r, n, usage) ==
  IF n = 0 THEN stg ELSE [stg EXCEPT !.free = @ + stg[usage][r], ![usage][r] = 0]

\* free: without a record nothing happens; a record that is too small is
\* deleted, but all n slots are added to the free ones.
Give(stg, r, n, usage) ==
  IF stg[usage][r] = 0 THEN stg
  ELSE [stg EXCEPT !.free = @ + n, ![usage][r] = MostOf(0, @ - n)]
=============================================================================
