------------------------- MODULE V4DecodeStateProofs -------------------------
(***************************************************************************)
(* V4DecodeState is proved for every window, ratio, bucket set and bound:  *)
(* the inductive invariant, what a query reads, and the refinement of      *)
(* V4Context.  The lemmas take one cache at a time (ring, compressor,      *)
(* compressed cache), for one decode write and for one prefill seed.       *)
(* The packed buffer of V4Layout keeps its length and gives every field    *)
(* back, for all windows, ratios, lengths and head sizes.                  *)
(***************************************************************************)
EXTENDS V4Layout, Lemmas

-----------------------------------------------------------------------------
(* The ring *)

\* attention_decode_step's write keeps the last Win positions in the ring.
LEMMA RingWrite ==
    ASSUME NEW ring \in [Ring -> Content], NEW r \in Reqs, NEW n \in Nat,
           RingHolds(ring, r, n)
    PROVE  /\ SwaWrite(ring, r, n) \in [Ring -> Content]
           /\ RingHolds(SwaWrite(ring, r, n), r, n + 1)
  <1>0. Win \in Nat \ {0}
    BY SizesAssumption
  <1>1. n % Win \in Ring
    BY <1>0, DivMod DEF Ring
  <1>2. SwaWrite(ring, r, n) \in [Ring -> Content]
    BY <1>1 DEF SwaWrite, Token, Content
  <1>3. ASSUME NEW p \in 0 .. n, p >= n + 1 - Win
        PROVE  SwaWrite(ring, r, n)[p % Win] = Token(r, p)
    <2>1. CASE p = n
      BY <2>1, <1>1 DEF SwaWrite
    <2>2. CASE p < n
      <3>1. p % Win # n % Win
        <4>1. p \in Nat /\ n < p + Win
          BY <1>3, <1>0
        <4> QED
          BY <2>2, <4>1, <1>0, ModDistinct
      <3>2. p % Win \in Ring
        BY <1>0, DivMod DEF Ring
      <3>3. ring[p % Win] = Token(r, p)
        BY <2>2, <1>3, <1>0 DEF RingHolds
      <3> QED
        BY <3>1, <3>2, <3>3 DEF SwaWrite
    <2> QED
      BY <2>1, <2>2
  <1> QED
    BY <1>0, <1>2, <1>3 DEF RingHolds

\* _swa_kv_cache_from_prefill puts every one of the last Win real positions in
\* the slot a decode step will look it up in.
LEMMA RingSeed ==
    ASSUME NEW r \in Reqs, NEW T \in Nat, NEW nr \in Nat \ {0}, nr <= T
    PROVE  /\ SwaFromPrefill(r, T, nr) \in [Ring -> Content]
           /\ RingHolds(SwaFromPrefill(r, T, nr), r, nr)
  <1>0. Win \in Nat \ {0}
    BY SizesAssumption
  <1> DEFINE k(i) == (IF nr - 1 - i > 0 THEN nr - 1 - i ELSE 0) \div Win
             p(i) == IF i + k(i) * Win > T - 1 THEN T - 1 ELSE i + k(i) * Win
  <1>1. SwaFromPrefill(r, T, nr) =
          [i \in Ring |-> IF i < nr THEN SeedInput(r, nr, p(i)) ELSE Zero]
    BY DEF SwaFromPrefill
  <1>2. ASSUME NEW i \in Ring
        PROVE  p(i) \in Nat
    <2>1. i \in Nat /\ k(i) \in Nat
      BY <1>0, DivMod DEF Ring
    <2> HIDE DEF k
    <2>2. k(i) * Win \in Nat
      BY <2>1, <1>0
    <2> QED
      BY <2>1, <2>2
  <1>3. SwaFromPrefill(r, T, nr) \in [Ring -> Content]
    <2> HIDE DEF p
    <2>1. \A i \in Ring : (IF i < nr THEN SeedInput(r, nr, p(i)) ELSE Zero) \in Content
      BY <1>2 DEF SeedInput, Token, Content
    <2> QED
      BY <2>1, <1>1
  <1>4. ASSUME NEW q \in 0 .. nr - 1, q >= nr - Win
        PROVE  SwaFromPrefill(r, T, nr)[q % Win] = Token(r, q)
    <2> DEFINE i == q % Win
    <2>1. /\ q \div Win \in Nat /\ i \in 0 .. Win - 1
          /\ q = Win * (q \div Win) + i
      BY <1>0, DivMod, q \in Nat
    <2> HIDE DEF i
    <2>2. i \in Ring /\ i <= q
      BY <2>1, <1>0, Z3 DEF Ring
    <2>3. nr - 1 - i = Win * (q \div Win) + (nr - 1 - q)
      BY <2>1, <1>0, Z3
    <2>4. nr - 1 - i \in Nat /\ nr - 1 - q \in 0 .. Win - 1
      BY <1>4, <2>1, <2>2, <1>0
    <2>5. (nr - 1 - i) \div Win = q \div Win
      <3> DEFINE a == nr - 1 - i
                 b == nr - 1 - q
      <3>1. a \in Nat /\ b \in 0 .. Win - 1 /\ a = Win * (q \div Win) + b
        BY <2>3, <2>4
      <3> HIDE DEF a, b
      <3>2. a \div Win = q \div Win
        BY <3>1, <2>1, <1>0, DivModUnique
      <3> QED
        BY <3>2 DEF a
    <2>6. k(i) = q \div Win
      <3>1. (IF nr - 1 - i > 0 THEN nr - 1 - i ELSE 0) = nr - 1 - i
        BY <2>4
      <3> QED
        BY <3>1, <2>5
    <2>7. p(i) = q
      <3> HIDE DEF k
      <3>1. i + k(i) * Win = q
        BY <2>1, <2>6, <1>0, Z3
      <3> QED
        BY <3>1, <1>4
    <2>8. i < nr
      BY <2>2, <1>4, <2>1
    <2> HIDE DEF p
    <2>9. SwaFromPrefill(r, T, nr)[i] = SeedInput(r, nr, p(i))
      BY <1>1, <2>2, <2>8
    <2> QED
      BY <2>7, <2>9, <1>4 DEF SeedInput, i
  <1> QED
    BY <1>3, <1>4 DEF RingHolds

\* get_window_topk_idxs_decode reads the whole window out of such a ring.
LEMMA WindowRead ==
    ASSUME NEW ring, NEW r \in Reqs, NEW n \in Nat, RingHolds(ring, r, n + 1)
    PROVE  {ring[i] : i \in WindowIdxsDecode(n)} = CausalWindow(r, n)
  <1>0. Win \in Nat \ {0}
    BY SizesAssumption
  <1>1. CASE n >= Win - 1
    <2>1. ASSUME NEW i \in Ring
          PROVE  /\ ((n % Win) + 1 + i) % Win = (n + 1 + i - Win) % Win
                 /\ n + 1 + i - Win \in 0 .. n
      <3>1. i \in Nat /\ i <= Win - 1
        BY <1>0 DEF Ring
      <3>2. n + 1 + i - Win \in 0 .. n
        BY <3>1, <1>0, <1>1
      <3>3. ((n % Win) + (1 + i)) % Win = (n + (1 + i)) % Win
        BY <3>1, <1>0, ModShift, 1 + i \in Nat
      <3>4. (n % Win) + (1 + i) = (n % Win) + 1 + i
        BY <3>1, <1>0, DivMod
      <3>5. ((n + 1 + i - Win) + Win) % Win = (n + 1 + i - Win) % Win
        BY <3>2, <1>0, ModAddSelf, n + 1 + i - Win \in Nat
      <3>6. (n + 1 + i - Win) + Win = n + (1 + i)
        BY <3>1, <1>0
      <3> QED
        BY <3>2, <3>3, <3>4, <3>5, <3>6
    <2>2. ASSUME NEW i \in Ring
          PROVE  ring[((n % Win) + 1 + i) % Win] = Token(r, n + 1 + i - Win)
      <3>1. n + 1 + i - Win \in 0 .. (n + 1) - 1 /\ n + 1 + i - Win >= (n + 1) - Win
        BY <2>1, <1>0 DEF Ring
      <3> QED
        BY <2>1, <3>1 DEF RingHolds
    <2>3. ASSUME NEW q \in 0 .. n, q > n - Win
          PROVE  q - n - 1 + Win \in Ring /\ n + 1 + (q - n - 1 + Win) - Win = q
      BY <2>3, <1>0 DEF Ring
    <2>4. WindowIdxsDecode(n) = {((n % Win) + 1 + i) % Win : i \in Ring}
      BY <1>1 DEF WindowIdxsDecode
    <2>5. ASSUME NEW i \in Ring
          PROVE  Token(r, n + 1 + i - Win) \in CausalWindow(r, n)
      <3>1. n + 1 + i - Win \in {q \in 0 .. n : q > n - Win}
        BY <2>1, <1>0 DEF Ring
      <3> QED
        BY <3>1 DEF CausalWindow
    <2>6. \A i \in WindowIdxsDecode(n) : ring[i] \in CausalWindow(r, n)
      BY <2>2, <2>4, <2>5
    <2>7. ASSUME NEW q \in 0 .. n, q > n - Win
          PROVE  \E i \in WindowIdxsDecode(n) : ring[i] = Token(r, q)
      <3> DEFINE i == q - n - 1 + Win
      <3>1. i \in Ring /\ n + 1 + i - Win = q
        BY <2>3, <2>7
      <3> HIDE DEF i
      <3>2. ring[((n % Win) + 1 + i) % Win] = Token(r, q)
        BY <3>1, <2>2
      <3> QED
        BY <3>1, <3>2, <2>4
    <2> QED
      BY <2>6, <2>7 DEF CausalWindow
  <1>2. CASE n < Win - 1
    <2>1. WindowIdxsDecode(n) = 0 .. n
      BY <1>2, <1>0 DEF WindowIdxsDecode
    <2>2. ASSUME NEW q \in 0 .. n
          PROVE  ring[q] = Token(r, q) /\ q > n - Win
      <3>1. q % Win = q
        BY <1>0, <1>2, ModSmall, q \in 0 .. Win - 1
      <3>2. q \in 0 .. (n + 1) - 1 /\ q >= (n + 1) - Win
        BY <1>0, <1>2
      <3> QED
        BY <3>1, <3>2, <1>0, <1>2 DEF RingHolds
    <2> QED
      BY <2>1, <2>2 DEF CausalWindow
  <1> QED
    BY <1>0, <1>1, <1>2

-----------------------------------------------------------------------------
(* The compressor *)

\* The new token lands in its slot of the open block and nowhere else.
LEMMA CompressorWriteHolds ==
    ASSUME Ratio > 0, NEW st \in [StateSlots -> Content], NEW r \in Reqs,
           NEW n \in Nat, FrontHolds(st, r, n), OpenHolds(st, r, n)
    PROVE  LET w == CompressorWrite(st, r, n)
           IN /\ w \in [StateSlots -> Content]
              /\ FrontHolds(w, r, n)
              /\ \A i \in InBlock : i <= n % Ratio =>
                    w[Offset + i] = Token(r, (n \div Ratio) * Ratio + i)
  <1> DEFINE w == CompressorWrite(st, r, n)
             s0 == Offset + (n % Ratio)
  <1>0. Ratio \in Nat \ {0}
    BY SizesAssumption
  <1>1. /\ n \div Ratio \in Nat /\ n % Ratio \in 0 .. Ratio - 1
        /\ n = Ratio * (n \div Ratio) + (n % Ratio)
    BY <1>0, DivMod
  <1>2. Offset \in {0, Ratio} /\ (Overlap => Offset = Ratio)
    BY DEF Offset
  <1>3. s0 \in StateSlots
    BY <1>0, <1>1, <1>2 DEF StateSlots
  <1>4. w = [st EXCEPT ![s0] = Token(r, n)]
    BY DEF CompressorWrite
  <1>5. Token(r, n) \in Content
    BY DEF Token, Content
  <1> HIDE DEF w, s0
  <1>6. w \in [StateSlots -> Content]
    BY <1>4, <1>5
  <1>7. ASSUME NEW i \in StateSlots, i # s0
        PROVE  w[i] = st[i]
    BY <1>4, <1>7
  <1>8. FrontHolds(w, r, n)
    <2>1. ASSUME Overlap, NEW i \in InBlock
          PROVE  w[i] = st[i]
      <3>1. i \in StateSlots /\ i # s0
        BY <2>1, <1>0, <1>1, <1>2 DEF InBlock, StateSlots, s0
      <3> QED
        BY <3>1, <1>7
    <2> QED
      BY <2>1 DEF FrontHolds
  <1>9. ASSUME NEW i \in InBlock, i <= n % Ratio
        PROVE  w[Offset + i] = Token(r, (n \div Ratio) * Ratio + i)
    <2>1. Offset + i \in StateSlots
      BY <1>0, <1>2 DEF InBlock, StateSlots
    <2>2. CASE i = n % Ratio
      <3>1. (n \div Ratio) * Ratio + i = n
        BY <2>2, <1>0, <1>1, Z3
      <3> QED
        BY <3>1, <2>1, <2>2, <1>4 DEF s0
    <2>3. CASE i < n % Ratio
      <3>1. Offset + i # s0
        BY <2>3, <1>0, <1>1, <1>2 DEF s0, InBlock
      <3> QED
        BY <3>1, <2>1, <2>3, <1>7 DEF OpenHolds
    <2> QED
      BY <2>2, <2>3, <1>9, <1>0, <1>1 DEF InBlock
  <1> QED
    BY <1>6, <1>8, <1>9 DEF w

\* On a block boundary the pooled vector is the block's canonical one.
LEMMA EmitCanonical ==
    ASSUME Ratio > 0, NEW st \in [StateSlots -> Content], NEW r \in Reqs,
           NEW n \in Nat, FrontHolds(st, r, n), OpenHolds(st, r, n),
           n % Ratio = Ratio - 1
    PROVE  CompressorEmit(st, r, n) = CanonBlock(r, n \div Ratio)
  <1> DEFINE w == CompressorWrite(st, r, n)
             b == n \div Ratio
  <1>0. Ratio \in Nat \ {0}
    BY SizesAssumption
  <1>1. /\ b \in Nat
        /\ n = Ratio * b + (Ratio - 1)
    BY <1>0, DivMod
  <1>2. /\ FrontHolds(w, r, n)
        /\ \A i \in InBlock : i <= n % Ratio =>
              w[Offset + i] = Token(r, b * Ratio + i)
    BY CompressorWriteHolds
  <1> HIDE DEF w, b
  <1>3. n + 1 >= Ratio /\ n + 1 - Ratio = b * Ratio
    BY <1>0, <1>1, Z3
  <1>3a. RopeRow(n + 1 - Ratio) = b * Ratio
    BY <1>0, <1>3 DEF RopeRow
  <1>4. \A i \in InBlock : w[Offset + i] = Token(r, b * Ratio + i)
    BY <1>0, <1>2 DEF InBlock
  <1>5. (IF Overlap THEN [i \in InBlock |-> w[i]] ELSE NoBlock)
          = (IF Overlap /\ b > 0
             THEN [i \in InBlock |-> Token(r, (b - 1) * Ratio + i)] ELSE NoBlock)
    <2>1. CASE Overlap /\ b > 0
      BY <2>1, <1>2 DEF FrontHolds, b
    <2>2. CASE Overlap /\ ~(b > 0)
      BY <2>2, <1>2 DEF FrontHolds, NoBlock, b
    <2>3. CASE ~Overlap
      BY <2>3
    <2> QED
      BY <2>1, <2>2, <2>3
  <1>6. CompressorEmit(st, r, n) =
          [prev |-> IF Overlap THEN [i \in InBlock |-> w[i]] ELSE NoBlock,
           cur  |-> [i \in InBlock |-> w[Offset + i]],
           rope |-> RopeRow(n + 1 - Ratio)]
    BY DEF CompressorEmit, CompressorPool, w
  <1>7. CanonBlock(r, b) =
          [prev |-> IF Overlap /\ b > 0
                    THEN [i \in InBlock |-> Token(r, (b - 1) * Ratio + i)] ELSE NoBlock,
           cur  |-> [i \in InBlock |-> Token(r, b * Ratio + i)],
           rope |-> b * Ratio]
    BY DEF CanonBlock
  <1> QED
    BY <1>3a, <1>4, <1>5, <1>6, <1>7 DEF b

\* What compression emits is always a pooled vector.
LEMMA EmitType ==
    ASSUME Ratio > 0, NEW st \in [StateSlots -> Content], NEW r \in Reqs,
           NEW n \in Nat, FrontHolds(st, r, n), OpenHolds(st, r, n)
    PROVE  CompressorEmit(st, r, n) \in Pooled
  <1> DEFINE w == CompressorWrite(st, r, n)
  <1>0. Ratio \in Nat \ {0}
    BY SizesAssumption
  <1>1. w \in [StateSlots -> Content]
    BY CompressorWriteHolds
  <1> HIDE DEF w
  <1>2. \A i \in InBlock : Offset + i \in StateSlots /\ (Overlap => i \in StateSlots)
    BY <1>0 DEF InBlock, StateSlots, Offset
  <1>3. [i \in InBlock |-> w[Offset + i]] \in [InBlock -> Content]
    BY <1>1, <1>2
  <1>4. (IF Overlap THEN [i \in InBlock |-> w[i]] ELSE NoBlock) \in [InBlock -> Content]
    BY <1>1, <1>2 DEF NoBlock, Content
  <1>5. RopeRow(n + 1 - Ratio) \in Nat
    BY <1>0, SizesAssumption DEF RopeRow
  <1>6. CompressorEmit(st, r, n) =
          [prev |-> IF Overlap THEN [i \in InBlock |-> w[i]] ELSE NoBlock,
           cur  |-> [i \in InBlock |-> w[Offset + i]],
           rope |-> RopeRow(n + 1 - Ratio)]
    BY DEF CompressorEmit, CompressorPool, w
  <1> QED
    BY <1>3, <1>4, <1>5, <1>6 DEF Pooled

\* compressor_decode_step and the unconditional cache write keep a compressor
\* and its cache consistent with one more position.
LEMMA CompressorAdvance ==
    ASSUME Ratio > 0, NEW st \in [StateSlots -> Content],
           NEW cache \in [CompSlots -> CacheEntry], NEW r \in Reqs, NEW n \in Nat,
           CompressorHolds(st, cache, r, n)
    PROVE  LET st2 == CompressorStep(st, r, n)
               cache2 == CompWrite(cache, n, CompressorEmit(st, r, n))
           IN /\ st2 \in [StateSlots -> Content]
              /\ cache2 \in [CompSlots -> CacheEntry]
              /\ CompressorHolds(st2, cache2, r, n + 1)
  <1> DEFINE w == CompressorWrite(st, r, n)
             st2 == CompressorStep(st, r, n)
             e == CompressorEmit(st, r, n)
             cache2 == CompWrite(cache, n, e)
             b == n \div Ratio
             m == n + 1
  <1>0. Ratio \in Nat \ {0}
    BY SizesAssumption
  <1>1. /\ FrontHolds(st, r, n) /\ OpenHolds(st, r, n)
        /\ \A j \in CompSlots : j < b => cache[j] = CanonBlock(r, j)
    BY DEF CompressorHolds, CacheHolds
  <1>2. /\ b \in Nat /\ n % Ratio \in 0 .. Ratio - 1 /\ m \in Nat
    BY <1>0, DivMod
  <1>3. /\ w \in [StateSlots -> Content]
        /\ FrontHolds(w, r, n)
        /\ \A i \in InBlock : i <= n % Ratio => w[Offset + i] = Token(r, b * Ratio + i)
    BY <1>1, CompressorWriteHolds
  <1>4. /\ n % Ratio = Ratio - 1 => m \div Ratio = b + 1 /\ m % Ratio = 0
        /\ n % Ratio # Ratio - 1 => m \div Ratio = b /\ m % Ratio = (n % Ratio) + 1
    BY <1>0, DivModSucc
  <1>5. e \in Pooled /\ (n % Ratio = Ratio - 1 => e = CanonBlock(r, b))
    BY <1>1, EmitType, EmitCanonical
  <1>6. st2 = IF Overlap /\ m % Ratio = 0
              THEN [i \in StateSlots |-> IF i < Ratio THEN w[Ratio + i] ELSE w[i]]
              ELSE w
    BY DEF CompressorStep, CompressorShift
  <1>7. cache2 = IF b \in CompSlots THEN [cache EXCEPT ![b] = e] ELSE cache
    BY DEF CompWrite
  <1> HIDE DEF w, st2, e, cache2, b, m
  <1>8. st2 \in [StateSlots -> Content]
    <2>1. Overlap => \A i \in StateSlots : i < Ratio => Ratio + i \in StateSlots
      BY <1>0 DEF StateSlots, Offset
    <2> QED
      BY <1>3, <1>6, <2>1
  <1>9. cache2 \in [CompSlots -> CacheEntry]
    BY <1>5, <1>7 DEF CacheEntry
  <1>10. FrontHolds(st2, r, m)
    <2> SUFFICES ASSUME Overlap, NEW i \in InBlock
                 PROVE  st2[i] = IF m \div Ratio > 0
                                 THEN Token(r, ((m \div Ratio) - 1) * Ratio + i) ELSE Empty
      BY DEF FrontHolds
    <2>1. Offset = Ratio /\ i \in StateSlots /\ i < Ratio
      BY <1>0 DEF Offset, StateSlots, InBlock
    <2>2. CASE n % Ratio = Ratio - 1
      <3>1. st2[i] = w[Ratio + i]
        BY <2>1, <2>2, <1>4, <1>6
      <3>2. w[Ratio + i] = Token(r, b * Ratio + i)
        BY <2>1, <2>2, <1>0, <1>3 DEF InBlock
      <3>3. m \div Ratio > 0 /\ (m \div Ratio) - 1 = b
        BY <2>2, <1>2, <1>4
      <3> QED
        BY <3>1, <3>2, <3>3
    <2>3. CASE n % Ratio # Ratio - 1
      <3>1. m % Ratio # 0 /\ m \div Ratio = b
        BY <2>3, <1>2, <1>4
      <3>2. st2[i] = w[i]
        BY <3>1, <1>6
      <3> QED
        BY <3>1, <3>2, <1>3 DEF FrontHolds, b
    <2> QED
      BY <2>2, <2>3
  <1>11. OpenHolds(st2, r, m)
    <2> SUFFICES ASSUME NEW i \in InBlock, i < m % Ratio
                 PROVE  st2[Offset + i] = Token(r, (m \div Ratio) * Ratio + i)
      BY DEF OpenHolds
    <2>1. n % Ratio # Ratio - 1
      BY <1>0, <1>4 DEF InBlock
    <2>2. m % Ratio # 0 /\ m \div Ratio = b /\ i <= n % Ratio
      BY <2>1, <1>2, <1>4 DEF InBlock
    <2> QED
      BY <2>2, <1>3, <1>6
  <1>12. CacheHolds(cache2, r, m)
    <2> SUFFICES ASSUME NEW j \in CompSlots, j < m \div Ratio
                 PROVE  cache2[j] = CanonBlock(r, j)
      BY DEF CacheHolds
    <2>1. j \in Int
      BY DEF CompSlots
    <2>2. CASE j = b
      <3>1. n % Ratio = Ratio - 1
        BY <2>1, <2>2, <1>2, <1>4
      <3> QED
        BY <3>1, <2>2, <1>5, <1>7
    <2>3. CASE j # b
      <3>1. j < b
        BY <2>1, <2>3, <1>2, <1>4
      <3> QED
        BY <3>1, <2>3, <1>1, <1>7
    <2> QED
      BY <2>2, <2>3
  <1> QED
    BY <1>8, <1>9, <1>10, <1>11, <1>12 DEF CompressorHolds, st2, cache2, e, m

-----------------------------------------------------------------------------
(* The seed *)

\* A block of real positions is pooled from tokens only, never from padding.
LEMMA SeedBlock ==
    ASSUME Ratio > 0, NEW r \in Reqs, NEW nr \in Nat, NEW j \in Nat,
           j < nr \div Ratio
    PROVE  PooledBlock(r, nr, j) = CanonBlock(r, j)
  <1> DEFINE x(p) == SeedInput(r, nr, p)
             y(p) == Token(r, p)
  <1>0. Ratio \in Nat \ {0}
    BY SizesAssumption
  <1>1. /\ nr \div Ratio \in Nat /\ nr % Ratio \in 0 .. Ratio - 1
        /\ nr = Ratio * (nr \div Ratio) + (nr % Ratio)
    BY <1>0, DivMod
  <1>2. j * Ratio + Ratio <= nr
    <2> DEFINE k == (nr \div Ratio) - 1 - j
    <2>1. k \in Nat
      BY <1>1
    <2>2. nr = Ratio * j + Ratio + Ratio * k + (nr % Ratio)
      BY <1>0, <1>1, Z3
    <2> HIDE DEF k
    <2>3. Ratio * k >= 0
      BY <1>0, <2>1, Z3
    <2> QED
      BY <1>0, <1>1, <2>2, <2>3, Z3
  <1>3. ASSUME NEW i \in InBlock
        PROVE  x(j * Ratio + i) = y(j * Ratio + i)
    <2>1. j * Ratio + i < nr
      BY <1>0, <1>2 DEF InBlock
    <2> QED
      BY <2>1 DEF SeedInput
  <1>4. ASSUME NEW i \in InBlock
        PROVE  x((j - 1) * Ratio + i) = y((j - 1) * Ratio + i)
    <2>1. (j - 1) * Ratio + i < nr
      BY <1>0, <1>2, Z3 DEF InBlock
    <2> QED
      BY <2>1 DEF SeedInput
  <1>5. PooledBlock(r, nr, j) =
          [prev |-> IF Overlap /\ j > 0
                    THEN [i \in InBlock |-> x((j - 1) * Ratio + i)] ELSE NoBlock,
           cur  |-> [i \in InBlock |-> x(j * Ratio + i)],
           rope |-> j * Ratio]
    BY DEF PooledBlock
  <1>6. CanonBlock(r, j) =
          [prev |-> IF Overlap /\ j > 0
                    THEN [i \in InBlock |-> y((j - 1) * Ratio + i)] ELSE NoBlock,
           cur  |-> [i \in InBlock |-> y(j * Ratio + i)],
           rope |-> j * Ratio]
    BY DEF CanonBlock
  <1> HIDE DEF x, y
  <1> QED
    BY <1>3, <1>4, <1>5, <1>6

\* _compressor_state_from_prefill leaves the state decode continues from: its
\* clamped slices start where they should.
LEMMA StateSeed ==
    ASSUME Ratio > 0, NEW r \in Reqs, NEW T \in Nat, NEW nr \in Nat \ {0},
           nr <= T, T >= Ratio, T % Ratio = 0
    PROVE  LET st == StateFromPrefill(r, T, nr)
           IN /\ st \in [StateSlots -> Content]
              /\ FrontHolds(st, r, nr)
              /\ OpenHolds(st, r, nr)
  <1> DEFINE st == StateFromPrefill(r, T, nr)
             b == nr \div Ratio
             rem == nr % Ratio
             cutoff == nr - rem
             prev == SliceStart(T, IF cutoff > Ratio THEN cutoff - Ratio ELSE 0)
             inprog == SliceStart(T, cutoff)
  <1>0. Ratio \in Nat \ {0}
    BY SizesAssumption
  <1>1. b \in Nat /\ rem \in 0 .. Ratio - 1 /\ nr = Ratio * b + rem
    BY <1>0, DivMod
  <1>2. T \div Ratio \in Nat /\ T = Ratio * (T \div Ratio)
    BY <1>0, DivMod
  <1>3. st = [i \in StateSlots |->
                IF i < Offset
                THEN IF cutoff >= Ratio THEN SeedInput(r, nr, prev + i) ELSE Empty
                ELSE IF i - Offset < rem
                     THEN SeedInput(r, nr, inprog + (i - Offset)) ELSE Empty]
    BY DEF StateFromPrefill
  <1>4. Offset \in Nat /\ (Overlap => Offset = Ratio) /\ (~Overlap => Offset = 0)
    BY <1>0 DEF Offset
  <1>5. prev \in Nat /\ inprog \in Nat
    BY <1>0, <1>1 DEF SliceStart
  <1>6. cutoff = b * Ratio /\ cutoff \in Nat
    BY <1>0, <1>1, Z3
  <1>7. ASSUME cutoff >= Ratio
        PROVE  prev = cutoff - Ratio /\ b > 0 /\ cutoff - Ratio = (b - 1) * Ratio
    <2>1. prev = cutoff - Ratio
      BY <1>0, <1>1, <1>7 DEF SliceStart
    <2> HIDE DEF prev, b, cutoff
    <2> QED
      BY <2>1, <1>0, <1>1, <1>6, <1>7, Z3
  <1>8. ASSUME rem > 0
        PROVE  inprog = cutoff
    <2> DEFINE t == T \div Ratio
               k == t - b
    <2>1. Ratio * k = T - nr + rem
      BY <1>0, <1>1, <1>2, Z3
    <2>2. k \in Int
      BY <1>1, <1>2
    <2>3. Ratio * k > 0
      BY <2>1, <1>1, <1>8
    <2> HIDE DEF k
    <2>4. Ratio * k >= Ratio
      BY <2>2, <2>3, <1>0, MultipleBound
    <2>5. cutoff <= T - Ratio
      BY <2>1, <2>4, <1>0, <1>1
    <2> QED
      BY <2>5, <1>0, <1>6 DEF SliceStart
  <1> HIDE DEF prev, inprog, cutoff, rem, st
  <1>9. st \in [StateSlots -> Content]
    <2>1. ASSUME NEW i \in StateSlots
          PROVE  (IF i < Offset
                  THEN IF cutoff >= Ratio THEN SeedInput(r, nr, prev + i) ELSE Empty
                  ELSE IF i - Offset < rem
                       THEN SeedInput(r, nr, inprog + (i - Offset)) ELSE Empty)
                 \in Content
      <3>1. i \in Nat /\ prev + i \in Nat /\ (~(i < Offset) => inprog + (i - Offset) \in Nat)
        BY <1>0, <1>4, <1>5 DEF StateSlots
      <3> QED
        BY <3>1 DEF SeedInput, Token, Content
    <2> QED
      BY <2>1, <1>3
  <1>10. FrontHolds(st, r, nr)
    <2> SUFFICES ASSUME Overlap, NEW i \in InBlock
                 PROVE  st[i] = IF b > 0 THEN Token(r, (b - 1) * Ratio + i) ELSE Empty
      BY DEF FrontHolds
    <2>1. i \in StateSlots /\ i < Offset
      BY <1>0, <1>4 DEF StateSlots, InBlock
    <2>2. CASE cutoff >= Ratio
      <3>1. st[i] = SeedInput(r, nr, (b - 1) * Ratio + i)
        BY <2>1, <2>2, <1>3, <1>7
      <3>2. (b - 1) * Ratio + i < nr
        <4>1. (b - 1) * Ratio = cutoff - Ratio
          BY <1>7, <2>2
        <4> HIDE DEF b
        <4> QED
          BY <4>1, <1>0, <1>1, <1>6 DEF InBlock, cutoff
      <3> QED
        BY <3>1, <3>2, <1>7, <2>2 DEF SeedInput
    <2>3. CASE ~(cutoff >= Ratio)
      <3>1. st[i] = Empty
        BY <2>1, <2>3, <1>3
      <3>2. ~(b > 0)
        <4> HIDE DEF b
        <4>1. SUFFICES ASSUME b > 0 PROVE FALSE
          OBVIOUS
        <4>2. b * Ratio >= Ratio
          BY <4>1, <1>0, <1>1, Z3
        <4> QED
          BY <4>2, <2>3, <1>6
      <3> QED
        BY <3>1, <3>2
    <2> QED
      BY <2>2, <2>3
  <1>11. OpenHolds(st, r, nr)
    <2> SUFFICES ASSUME NEW i \in InBlock, i < rem
                 PROVE  st[Offset + i] = Token(r, b * Ratio + i)
      BY DEF OpenHolds, rem
    <2>1. /\ Offset + i \in StateSlots /\ ~(Offset + i < Offset)
          /\ (Offset + i) - Offset = i /\ rem > 0
      BY <1>0, <1>1, <1>4 DEF StateSlots, InBlock
    <2>2. st[Offset + i] = SeedInput(r, nr, inprog + i)
      BY <2>1, <1>3
    <2>3. inprog + i = b * Ratio + i /\ b * Ratio + i < nr
      <3> HIDE DEF b
      <3> QED
        BY <2>1, <1>0, <1>1, <1>6, <1>8 DEF InBlock, cutoff
    <2> QED
      BY <2>2, <2>3 DEF SeedInput
  <1> QED
    BY <1>9, <1>10, <1>11 DEF st

\* The cache a prefill builds holds every complete block of the prompt.
LEMMA CacheSeed ==
    ASSUME Ratio > 0, NEW r \in Reqs, NEW T \in Nat, NEW nr \in Nat \ {0}, nr <= T
    PROVE  LET cache == CompFromPrefill(r, T, nr)
           IN /\ cache \in [CompSlots -> CacheEntry]
              /\ CacheHolds(cache, r, nr)
  <1> DEFINE cache == CompFromPrefill(r, T, nr)
             x(p) == SeedInput(r, nr, p)
  <1>0. Ratio \in Nat \ {0}
    BY SizesAssumption
  <1>1. cache = [j \in CompSlots |-> IF j < T \div Ratio THEN PooledBlock(r, nr, j) ELSE Zero]
    BY DEF CompFromPrefill
  <1>2. nr \div Ratio <= T \div Ratio /\ nr \div Ratio \in Nat /\ T \div Ratio \in Nat
    BY <1>0, DivMonotone, DivMod
  <1>3. ASSUME NEW j \in CompSlots
        PROVE  j \in Nat /\ PooledBlock(r, nr, j) \in Pooled
    <2>1. j \in Nat
      BY DEF CompSlots
    <2>2. j * Ratio \in Nat /\ (j > 0 => (j - 1) * Ratio \in Nat)
      BY <2>1, <1>0, Z3
    <2>3. \A i \in InBlock : x(j * Ratio + i) \in Content
      BY <2>2, <1>0 DEF SeedInput, Content, Token, InBlock
    <2>4. j > 0 => \A i \in InBlock : x((j - 1) * Ratio + i) \in Content
      BY <2>2, <1>0 DEF SeedInput, Content, Token, InBlock
    <2>5. PooledBlock(r, nr, j) =
          [prev |-> IF Overlap /\ j > 0
                    THEN [i \in InBlock |-> x((j - 1) * Ratio + i)] ELSE NoBlock,
           cur  |-> [i \in InBlock |-> x(j * Ratio + i)],
           rope |-> j * Ratio]
      BY DEF PooledBlock
    <2>6. NoBlock \in [InBlock -> Content]
      BY DEF NoBlock, Content
    <2> HIDE DEF x
    <2>7. (IF Overlap /\ j > 0
           THEN [i \in InBlock |-> x((j - 1) * Ratio + i)] ELSE NoBlock)
          \in [InBlock -> Content]
      BY <2>4, <2>6
    <2>8. [i \in InBlock |-> x(j * Ratio + i)] \in [InBlock -> Content]
      BY <2>3
    <2> QED
      BY <2>1, <2>2, <2>5, <2>7, <2>8 DEF Pooled
  <1>4. cache \in [CompSlots -> CacheEntry]
    <2> HIDE DEF x
    <2> QED
      BY <1>1, <1>3 DEF CacheEntry
  <1>5. ASSUME NEW j \in CompSlots, j < nr \div Ratio
        PROVE  cache[j] = CanonBlock(r, j)
    <2>1. PooledBlock(r, nr, j) = CanonBlock(r, j)
      BY <1>3, <1>5, SeedBlock
    <2> HIDE DEF x
    <2>2. j < T \div Ratio
      BY <1>2, <1>3, <1>5
    <2> QED
      BY <2>1, <2>2, <1>1
  <1> QED
    BY <1>4, <1>5 DEF CacheHolds

-----------------------------------------------------------------------------
(* What a query reads *)

\* Both index helpers offer exactly the complete blocks: the cache and the
\* bucket are long enough for all of them.
LEMMA DecodeValidExact ==
    ASSUME NEW n \in Nat, n < MaxModelLen
    PROVE  DecodeValid(n) = 0 .. ValidBlocks(n) - 1
  <1>1. CASE Ratio > 0
    <2>1. Ratio \in Nat \ {0} /\ MaxSeqLen \in Nat /\ n + 1 \in Nat /\ n + 1 <= MaxSeqLen
      BY <1>1, SizesAssumption, EngineAssumption
    <2>2. /\ (n + 1) \div Ratio <= MaxSeqLen \div Ratio
          /\ (n + 1) \div Ratio \in Nat /\ MaxSeqLen \div Ratio \in Nat
      BY <2>1, DivMonotone, DivMod
    <2>3. ValidBlocks(n) = (n + 1) \div Ratio /\ CompSlots = 0 .. (MaxSeqLen \div Ratio) - 1
      BY <1>1 DEF ValidBlocks, CompSlots, Extra
    <2> QED
      BY <2>2, <2>3 DEF DecodeValid
  <1>2. CASE ~(Ratio > 0)
    BY <1>2 DEF DecodeValid, ValidBlocks, CompSlots, Extra
  <1> QED
    BY <1>1, <1>2

\* The same for the blocks a prefill computes.
LEMMA PrefillValidExact ==
    ASSUME NEW T \in Nat, NEW nr \in Nat \ {0}, nr <= T
    PROVE  PrefillValid(T, nr - 1) = 0 .. ValidBlocks(nr - 1) - 1
  <1>1. CASE Ratio > 0
    <2>1. Ratio \in Nat \ {0}
      BY <1>1, SizesAssumption
    <2>2. /\ nr \div Ratio <= T \div Ratio
          /\ nr \div Ratio \in Nat /\ T \div Ratio \in Nat
      BY <2>1, DivMonotone, DivMod
    <2>3. (nr - 1) + 1 = nr
      OBVIOUS
    <2>4. ValidBlocks(nr - 1) = nr \div Ratio
      BY <1>1, <2>3 DEF ValidBlocks
    <2> QED
      BY <1>1, <2>2, <2>4 DEF PrefillValid
  <1>2. CASE ~(Ratio > 0)
    BY <1>2 DEF PrefillValid, ValidBlocks
  <1> QED
    BY <1>1, <1>2

\* A prefill's last real query reads an exact context.
LEMMA PrefillReads ==
    ASSUME NEW r \in Reqs, NEW T \in Nat, NEW nr \in Nat \ {0}, nr <= T,
           NEW sel \in BlockChoices(PrefillValid(T, nr - 1))
    PROVE  PrefillAttn(r, T, nr, sel) \in Exact(r, nr - 1)
  <1> DEFINE s == nr - 1
             lo == IF s - Win + 1 > 0 THEN s - Win + 1 ELSE 0
             x(p) == SeedInput(r, nr, p)
             valid == 0 .. ValidBlocks(s) - 1
  <1>0. Win \in Nat \ {0} /\ Ratio \in Nat
    BY SizesAssumption
  <1>1. PrefillValid(T, s) = valid
    BY PrefillValidExact
  <1>2. sel \in BlockChoices(valid) /\ sel \subseteq valid
    BY <1>1 DEF BlockChoices
  <1>3. ASSUME NEW j \in valid
        PROVE  PooledBlock(r, nr, j) = CanonBlock(r, j)
    <2>1. Ratio > 0
      BY <1>0 DEF ValidBlocks
    <2>2. ValidBlocks(s) = nr \div Ratio /\ nr \div Ratio \in Nat
      <3>1. (nr - 1) + 1 = nr
        OBVIOUS
      <3> QED
        BY <2>1, <3>1, <1>0, DivMod DEF ValidBlocks
    <2>3. j \in Nat /\ j < nr \div Ratio
      BY <2>2
    <2> QED
      BY <2>1, <2>3, SeedBlock
  <1>4. {x(q) : q \in {q \in lo .. lo + Win - 1 : q <= s}} = CausalWindow(r, s)
    <2>1. {q \in lo .. lo + Win - 1 : q <= s} = {q \in 0 .. s : q > s - Win}
      BY <1>0
    <2>2. \A q \in 0 .. s : x(q) = Token(r, q)
      BY DEF SeedInput
    <2> HIDE DEF s, lo, x
    <2> QED
      BY <2>1, <2>2 DEF CausalWindow
  <1>5. PrefillAttn(r, T, nr, sel) =
          [window |-> {x(q) : q \in {q \in lo .. lo + Win - 1 : q <= s}},
           blocks |-> [j \in sel |-> PooledBlock(r, nr, j)],
           ranked |-> IF HasIndexer
                      THEN [j \in PrefillValid(T, s) |-> PooledBlock(r, nr, j)] ELSE <<>>]
    BY DEF PrefillAttn
  <1> HIDE DEF s, lo, x, valid
  <1>6. [j \in sel |-> PooledBlock(r, nr, j)] = [j \in sel |-> CanonBlock(r, j)]
    BY <1>2, <1>3
  <1>7. [j \in PrefillValid(T, s) |-> PooledBlock(r, nr, j)] = [j \in valid |-> CanonBlock(r, j)]
    BY <1>1, <1>3
  <1>8. PrefillAttn(r, T, nr, sel) =
          [window |-> CausalWindow(r, s),
           blocks |-> [j \in sel |-> CanonBlock(r, j)],
           ranked |-> IF Overlap THEN [j \in valid |-> CanonBlock(r, j)] ELSE <<>>]
    BY <1>4, <1>5, <1>6, <1>7 DEF HasIndexer
  <1> QED
    BY <1>2, <1>8 DEF Exact, s, valid

\* A decode step's query reads an exact context out of a state that holds one
\* position more.
LEMMA DecodeReads ==
    ASSUME NEW r \in Reqs, NEW n \in Nat, n < MaxModelLen,
           NEW ring, NEW cache, NEW icache,
           RingHolds(ring, r, n + 1),
           Ratio > 0 => CacheHolds(cache, r, n + 1),
           HasIndexer => CacheHolds(icache, r, n + 1),
           NEW sel \in BlockChoices(DecodeValid(n))
    PROVE  DecodeAttn(ring, cache, icache, n, sel) \in Exact(r, n)
  <1> DEFINE valid == 0 .. ValidBlocks(n) - 1
  <1>1. DecodeValid(n) = valid
    BY DecodeValidExact
  <1>2. sel \in BlockChoices(valid) /\ sel \subseteq valid
    BY <1>1 DEF BlockChoices
  <1>3. {ring[i] : i \in WindowIdxsDecode(n)} = CausalWindow(r, n)
    BY WindowRead
  <1>4. ASSUME NEW j \in valid
        PROVE  /\ cache[j] = CanonBlock(r, j)
               /\ HasIndexer => icache[j] = CanonBlock(r, j)
    <2>1. j \in CompSlots /\ j < ValidBlocks(n)
      BY <1>1 DEF DecodeValid
    <2>2. Ratio > 0
      BY <2>1, SizesAssumption DEF ValidBlocks
    <2>3. ValidBlocks(n) = (n + 1) \div Ratio
      BY <2>2 DEF ValidBlocks
    <2> QED
      BY <2>1, <2>2, <2>3 DEF CacheHolds
  <1> HIDE DEF valid
  <1>5. [j \in sel |-> cache[j]] = [j \in sel |-> CanonBlock(r, j)]
    BY <1>2, <1>4
  <1>6. (IF HasIndexer THEN [j \in DecodeValid(n) |-> icache[j]] ELSE <<>>)
          = (IF Overlap THEN [j \in valid |-> CanonBlock(r, j)] ELSE <<>>)
    BY <1>1, <1>4 DEF HasIndexer
  <1> QED
    BY <1>2, <1>3, <1>5, <1>6 DEF Exact, DecodeAttn, valid

-----------------------------------------------------------------------------
(* The invariant *)

\* The allocator's zero buffers satisfy the invariant: nothing is active.
LEMMA InitInd == Init => IndInv
  <1> SUFFICES ASSUME Init
               PROVE  IndInv
    OBVIOUS
  <1>1. 0 \in 0 .. MaxModelLen
    BY EngineAssumption
  <1> QED
    BY <1>1 DEF Init, IndInv, TypeOK, Content, CacheEntry

\* A prefill, whatever an earlier request left in the buffers, establishes it.
LEMMA PrefillInd ==
    ASSUME IndInv, NEW r \in Reqs, NEW T \in Buckets, NEW nr \in 1 .. MaxModelLen,
           Prefill(r, T, nr)
    PROVE  IndInv'
  <1>1. /\ T \in Nat /\ nr \in Nat \ {0} /\ nr <= T /\ T >= Ratio
        /\ Ratio > 0 => T % Ratio = 0
    BY BucketsAssumption, EngineAssumption DEF Prefill, IsBucketOf
  <1>2. req' = r /\ len' = nr /\ r # NoReq /\ nr \in 0 .. MaxModelLen /\ up' = up
    BY EngineAssumption DEF Prefill
  <1>3. swa' \in [Ring -> Content] /\ RingHolds(swa', r, nr)
    <2>1. swa' = SwaFromPrefill(r, T, nr)
      BY DEF Prefill
    <2> QED
      BY <2>1, <1>1, RingSeed
  <1>4. /\ comp' \in [CompSlots -> CacheEntry] /\ cst' \in [StateSlots -> Content]
        /\ Ratio > 0 => CompressorHolds(cst', comp', r, nr)
    <2>1. CASE Ratio > 0
      <3>1. comp' = CompFromPrefill(r, T, nr) /\ cst' = StateFromPrefill(r, T, nr)
        BY <2>1 DEF Prefill
      <3> QED
        BY <2>1, <3>1, <1>1, StateSeed, CacheSeed DEF CompressorHolds
    <2>2. CASE ~(Ratio > 0)
      BY <2>2 DEF Prefill, IndInv, TypeOK
    <2> QED
      BY <2>1, <2>2
  <1>5. /\ icomp' \in [CompSlots -> CacheEntry] /\ ist' \in [StateSlots -> Content]
        /\ HasIndexer => CompressorHolds(ist', icomp', r, nr)
    <2>1. CASE HasIndexer
      <3>1. icomp' = CompFromPrefill(r, T, nr) /\ ist' = StateFromPrefill(r, T, nr)
        BY <2>1 DEF Prefill
      <3>2. Ratio > 0
        BY <2>1 DEF HasIndexer, Overlap
      <3> QED
        BY <3>1, <3>2, <1>1, StateSeed, CacheSeed DEF CompressorHolds
    <2>2. CASE ~HasIndexer
      BY <2>2 DEF Prefill, IndInv, TypeOK
    <2> QED
      BY <2>1, <2>2
  <1>6. attn' \in Exact(r, nr - 1)
    <2>1. PICK sel \in BlockChoices(PrefillValid(T, nr - 1)) :
             attn' = PrefillAttn(r, T, nr, sel)
      BY DEF Prefill
    <2> QED
      BY <2>1, <1>1, PrefillReads
  <1>7. TypeOK'
    BY <1>2, <1>3, <1>4, <1>5 DEF TypeOK, IndInv
  <1> QED
    BY <1>1, <1>2, <1>3, <1>4, <1>5, <1>6, <1>7 DEF IndInv

\* A decode step preserves it, and its query reads an exact context.
LEMMA DecodeInd ==
    ASSUME IndInv, Decode
    PROVE  IndInv' /\ attn' \in Exact(req, len)
  <1>1. /\ req \in Reqs /\ req' = req /\ len' = len + 1 /\ up' = up
        /\ len \in Nat /\ len < MaxModelLen /\ len + 1 \in 0 .. MaxModelLen
        /\ (len + 1) - 1 = len
    BY EngineAssumption DEF Decode, IndInv, TypeOK
  <1>2. swa' \in [Ring -> Content] /\ RingHolds(swa', req, len + 1)
    <2>1. swa' = SwaWrite(swa, req, len)
      BY DEF Decode
    <2>2. swa \in [Ring -> Content] /\ RingHolds(swa, req, len)
      BY DEF Decode, IndInv, TypeOK
    <2> QED
      BY <2>1, <2>2, <1>1, RingWrite
  <1>3. /\ comp' \in [CompSlots -> CacheEntry] /\ cst' \in [StateSlots -> Content]
        /\ Ratio > 0 => CompressorHolds(cst', comp', req, len + 1)
    <2>0. /\ comp \in [CompSlots -> CacheEntry] /\ cst \in [StateSlots -> Content]
          /\ Ratio > 0 => CompressorHolds(cst, comp, req, len)
      BY DEF Decode, IndInv, TypeOK
    <2>1. CASE Ratio > 0
      <3>1. /\ cst' = CompressorStep(cst, req, len)
            /\ comp' = CompWrite(comp, len, CompressorEmit(cst, req, len))
        BY <2>1 DEF Decode
      <3> QED
        BY <2>0, <2>1, <3>1, <1>1, CompressorAdvance
    <2>2. CASE ~(Ratio > 0)
      BY <2>0, <2>2 DEF Decode
    <2> QED
      BY <2>1, <2>2
  <1>4. /\ icomp' \in [CompSlots -> CacheEntry] /\ ist' \in [StateSlots -> Content]
        /\ HasIndexer => CompressorHolds(ist', icomp', req, len + 1)
    <2>0. /\ icomp \in [CompSlots -> CacheEntry] /\ ist \in [StateSlots -> Content]
          /\ HasIndexer => CompressorHolds(ist, icomp, req, len)
      BY DEF Decode, IndInv, TypeOK
    <2>1. CASE HasIndexer
      <3>1. /\ ist' = CompressorStep(ist, req, len)
            /\ icomp' = CompWrite(icomp, len, CompressorEmit(ist, req, len))
        BY <2>1 DEF Decode
      <3>2. Ratio > 0
        BY <2>1 DEF HasIndexer, Overlap
      <3> QED
        BY <2>0, <2>1, <3>1, <3>2, <1>1, CompressorAdvance
    <2>2. CASE ~HasIndexer
      BY <2>0, <2>2 DEF Decode
    <2> QED
      BY <2>1, <2>2
  <1>5. attn' \in Exact(req, len)
    <2>1. PICK sel \in BlockChoices(DecodeValid(len)) :
             attn' = DecodeAttn(swa', comp', icomp', len, sel)
      BY DEF Decode
    <2>2. /\ Ratio > 0 => CacheHolds(comp', req, len + 1)
          /\ HasIndexer => CacheHolds(icomp', req, len + 1)
      BY <1>3, <1>4 DEF CompressorHolds
    <2> QED
      BY <2>1, <2>2, <1>1, <1>2, DecodeReads
  <1>6. TypeOK'
    BY <1>1, <1>2, <1>3, <1>4 DEF TypeOK, IndInv
  <1> QED
    BY <1>1, <1>2, <1>3, <1>4, <1>5, <1>6 DEF IndInv

\* The caches of the layer hold, at every point, exactly what the next query
\* needs: the inductive invariant of the prefill seed and the decode step.
THEOREM IndInvariant == Spec => []IndInv
  <1>1. IndInv /\ [Next]_vars => IndInv'
    <2> SUFFICES ASSUME IndInv, [Next]_vars
                 PROVE  IndInv'
      OBVIOUS
    <2>1. ASSUME NEW r \in Reqs, NEW T \in Buckets, NEW nr \in 1 .. MaxModelLen,
                 Prefill(r, T, nr)
          PROVE  IndInv'
      BY <2>1, PrefillInd
    <2>2. ASSUME NEW T \in Buckets, NEW nr \in 1 .. MaxModelLen, PrefillRaises(T, nr)
          PROVE  IndInv'
      BY <2>2 DEF PrefillRaises, IndInv, TypeOK
    <2>3. CASE Decode
      BY <2>3, DecodeInd
    <2>4. CASE Leave
      BY <2>4 DEF Leave, IndInv, TypeOK
    <2>5. CASE UNCHANGED vars
      BY <2>5 DEF vars, IndInv, TypeOK
    <2> QED
      BY <2>1, <2>2, <2>3, <2>4, <2>5 DEF Next
  <1> QED
    BY <1>1, InitInd, PTL DEF Spec

\* Every buffer of the layer keeps its shape and contents.
THEOREM TypeCorrect == Spec => []TypeOK
  <1>1. IndInv => TypeOK
    BY DEF IndInv
  <1> QED
    BY <1>1, IndInvariant, PTL

\* For every window size: a query reads exactly the last Win positions of its
\* own request, across wraparound, padding and a predecessor's leftovers.
THEOREM WindowCorrect == Spec => []WindowExact
  <1>1. IndInv => WindowExact
    BY DEF IndInv, WindowExact, Exact
  <1> QED
    BY <1>1, IndInvariant, PTL

\* For every ratio: a query reads, and the indexer ranks, complete and correctly
\* pooled blocks of its own request.
THEOREM BlocksCorrect == Spec => []BlocksExact
  <1>1. IndInv => BlocksExact
    <2> SUFFICES ASSUME IndInv, req # NoReq
                 PROVE  LET valid == 0 .. ValidBlocks(len - 1) - 1
                        IN /\ DOMAIN attn.blocks \in BlockChoices(valid)
                           /\ \A j \in DOMAIN attn.blocks :
                                 attn.blocks[j] = CanonBlock(req, j)
                           /\ HasIndexer =>
                                 attn.ranked = [j \in valid |-> CanonBlock(req, j)]
      BY DEF BlocksExact
    <2> DEFINE valid == 0 .. ValidBlocks(len - 1) - 1
    <2>1. attn \in Exact(req, len - 1)
      BY DEF IndInv
    <2>2. PICK sel \in BlockChoices(valid) :
             attn = [window |-> CausalWindow(req, len - 1),
                     blocks |-> [j \in sel |-> CanonBlock(req, j)],
                     ranked |-> IF Overlap THEN [j \in valid |-> CanonBlock(req, j)]
                                ELSE <<>>]
      BY <2>1 DEF Exact
    <2> HIDE DEF valid
    <2>3. /\ attn.blocks = [j \in sel |-> CanonBlock(req, j)]
          /\ Overlap => attn.ranked = [j \in valid |-> CanonBlock(req, j)]
      BY <2>2
    <2>4. DOMAIN attn.blocks = sel
      BY <2>3
    <2>5. \A j \in DOMAIN attn.blocks : attn.blocks[j] = CanonBlock(req, j)
      BY <2>3, <2>4
    <2> QED
      BY <2>2, <2>3, <2>4, <2>5 DEF valid, HasIndexer
  <1> QED
    BY <1>1, IndInvariant, PTL

\* A slot that two consistent states agree on.
LEMMA LiveSlotsAgree ==
    ASSUME Ratio > 0, NEW r \in Reqs, NEW n \in Nat, NEW s1, NEW s2,
           FrontHolds(s1, r, n), OpenHolds(s1, r, n),
           FrontHolds(s2, r, n), OpenHolds(s2, r, n),
           NEW i \in StateSlots, i < Offset + (n % Ratio)
    PROVE  s1[i] = s2[i]
  <1>0. Ratio \in Nat \ {0} /\ n % Ratio \in 0 .. Ratio - 1
    BY SizesAssumption, DivMod
  <1>1. CASE i < Offset
    <2>1. Overlap /\ i \in InBlock
      BY <1>0, <1>1 DEF Offset, StateSlots, InBlock
    <2> QED
      BY <2>1 DEF FrontHolds
  <1>2. CASE ~(i < Offset)
    <2>1. i - Offset \in InBlock /\ i - Offset < n % Ratio /\ Offset + (i - Offset) = i
      BY <1>0, <1>2 DEF Offset, StateSlots, InBlock
    <2> QED
      BY <2>1 DEF OpenHolds
  <1> QED
    BY <1>1, <1>2

\* Seeding by a prefill and stepping by decodes lead to the same live state.
THEOREM SeedParityCorrect == Spec => []SeedParity
  <1>1. IndInv => SeedParity
    <2> SUFFICES ASSUME IndInv, req # NoReq, Ratio > 0,
                        NEW T \in Buckets, T >= len, T >= Ratio,
                        NEW i \in LiveStateSlots
                 PROVE  /\ cst[i] = StateFromPrefill(req, T, len)[i]
                        /\ HasIndexer => ist[i] = StateFromPrefill(req, T, len)[i]
      BY DEF SeedParity
    <2> DEFINE seed == StateFromPrefill(req, T, len)
    <2>1. /\ req \in Reqs /\ len \in Nat \ {0} /\ T \in Nat /\ T % Ratio = 0
          /\ len <= T
      BY BucketsAssumption, EngineAssumption DEF IndInv, TypeOK
    <2>2. FrontHolds(seed, req, len) /\ OpenHolds(seed, req, len)
      BY <2>1, StateSeed
    <2>3. /\ FrontHolds(cst, req, len) /\ OpenHolds(cst, req, len)
          /\ HasIndexer => FrontHolds(ist, req, len) /\ OpenHolds(ist, req, len)
      BY DEF IndInv, CompressorHolds
    <2>4. i \in StateSlots /\ i < Offset + (len % Ratio)
      BY DEF LiveStateSlots
    <2> HIDE DEF seed
    <2>5. cst[i] = seed[i]
      BY <2>1, <2>2, <2>3, <2>4, LiveSlotsAgree
    <2>6. HasIndexer => ist[i] = seed[i]
      BY <2>1, <2>2, <2>3, <2>4, LiveSlotsAgree
    <2> QED
      BY <2>5, <2>6 DEF seed
  <1> QED
    BY <1>1, IndInvariant, PTL

\* A block that queries can see never changes while its request runs.
THEOREM VisibleBlocksStableCorrect == Spec => VisibleBlocksStable
  <1>1. IndInv /\ IndInv' /\ [Next]_vars =>
          [(req # NoReq /\ req' = req) =>
             \A j \in 0 .. ValidBlocks(len - 1) - 1 : comp'[j] = comp[j]]_vars
    <2> SUFFICES ASSUME IndInv, IndInv', Next, req # NoReq, req' = req,
                        NEW j \in 0 .. ValidBlocks(len - 1) - 1
                 PROVE  comp'[j] = comp[j]
      OBVIOUS
    <2>1. CASE Decode
      <3>1. Ratio > 0 /\ req \in Reqs /\ len \in Nat \ {0} /\ len + 1 \in Nat
        BY SizesAssumption DEF IndInv, TypeOK, ValidBlocks
      <3>2. ValidBlocks(len - 1) = len \div Ratio
        <4>1. (len - 1) + 1 = len
          BY <3>1
        <4> QED
          BY <3>1, <4>1 DEF ValidBlocks
      <3>3. /\ CacheHolds(comp, req, len) /\ CacheHolds(comp', req, len')
            /\ len' = len + 1 /\ len < MaxModelLen
        BY <2>1, <3>1 DEF Decode, IndInv, CompressorHolds
      <3>4. len \div Ratio <= (len + 1) \div Ratio /\ len \div Ratio \in Nat
            /\ (len + 1) \div Ratio \in Nat
        <4>1. Ratio \in Nat \ {0} /\ len \in Nat /\ len <= len + 1
          BY <3>1, SizesAssumption
        <4>2. len \div Ratio <= (len + 1) \div Ratio
          BY <4>1, <3>1, DivMonotone
        <4> QED
          BY <4>1, <4>2, <3>1, DivMod
      <3>5. j \in CompSlots
        <4>1. ValidBlocks(len) = (len + 1) \div Ratio
          BY <3>1 DEF ValidBlocks
        <4>2. j \in 0 .. ValidBlocks(len) - 1
          BY <4>1, <3>2, <3>4
        <4>3. j \in DecodeValid(len)
          BY <4>2, <3>1, <3>3, DecodeValidExact
        <4> QED
          BY <4>3 DEF DecodeValid
      <3>6. j < len \div Ratio /\ j < (len + 1) \div Ratio
        BY <3>2, <3>4
      <3> QED
        BY <3>3, <3>5, <3>6 DEF CacheHolds
    <2>2. CASE Leave
      BY <2>2 DEF Leave
    <2>3. ASSUME NEW T \in Buckets, NEW nr \in 1 .. MaxModelLen, PrefillRaises(T, nr)
          PROVE  comp'[j] = comp[j]
      BY <2>3 DEF PrefillRaises
    <2>4. ASSUME NEW r \in Reqs, NEW T \in Buckets, NEW nr \in 1 .. MaxModelLen,
                 Prefill(r, T, nr)
          PROVE  comp'[j] = comp[j]
      BY <2>4 DEF Prefill
    <2> QED
      BY <2>1, <2>2, <2>3, <2>4 DEF Next
  <1> QED
    BY <1>1, IndInvariant, PTL DEF Spec, VisibleBlocksStable

\* The layer with its caches implements the attention without any: every prefill
\* is a Begin, every decode step an Extend, every departure an End.
THEOREM Refinement == Spec => RefinesContext
  <1>1. Init => Context!Init
    BY DEF Init, Context!Init
  <1>2. IndInv /\ [Next]_vars => [Context!Next]_(Context!cvars)
    <2> SUFFICES ASSUME IndInv, [Next]_vars
                 PROVE  [Context!Next]_(Context!cvars)
      OBVIOUS
    <2>1. ASSUME NEW r \in Reqs, NEW T \in Buckets, NEW nr \in 1 .. MaxModelLen,
                 Prefill(r, T, nr)
          PROVE  Context!Next
      <3>1. IndInv'
        BY <2>1, PrefillInd
      <3>2. req = NoReq /\ req' = r /\ len' = nr /\ r # NoReq
        BY <2>1, EngineAssumption DEF Prefill
      <3>3. attn' \in Exact(r, nr - 1)
        BY <3>1, <3>2 DEF IndInv
      <3> QED
        BY <3>2, <3>3 DEF Context!Next, Context!Begin
    <2>2. ASSUME NEW T \in Buckets, NEW nr \in 1 .. MaxModelLen, PrefillRaises(T, nr)
          PROVE  UNCHANGED Context!cvars
      BY <2>2 DEF PrefillRaises, Context!cvars
    <2>3. CASE Decode
      <3>1. attn' \in Exact(req, len)
        BY <2>3, DecodeInd
      <3> QED
        BY <2>3, <3>1 DEF Decode, Context!Next, Context!Extend
    <2>4. CASE Leave
      BY <2>4 DEF Leave, Context!Next, Context!End
    <2>5. CASE UNCHANGED vars
      BY <2>5 DEF vars, Context!cvars
    <2> QED
      BY <2>1, <2>2, <2>3, <2>4, <2>5 DEF Next
  <1> QED
    BY <1>1, <1>2, IndInvariant, PTL DEF Spec, RefinesContext, Context!Spec

-----------------------------------------------------------------------------
(* Sizes *)

\* The slots 0 .. n - 1 are n.
LEMMA SlotCount ==
    ASSUME NEW n \in Nat
    PROVE  Cardinality(0 .. n - 1) = n
  BY FS_Interval

\* The compressed cache has a natural number of slots.
LEMMA ExtraNat == Extra \in Nat
  <1>1. CASE Ratio > 0
    BY <1>1, SizesAssumption, DivMod DEF Extra
  <1>2. CASE ~(Ratio > 0)
    BY <1>2 DEF Extra
  <1>. QED BY <1>1, <1>2

\* A product of naturals is one.
LEMMA ProductNat ==
    ASSUME NEW a \in Nat, NEW b \in Nat
    PROVE  a * b \in Nat
  OBVIOUS

\* The layout with the names of the attention layer.
LEMMA LayoutFields ==
    /\ Layout[1] = [rows |-> Win + Extra, cols |-> HeadDim]
    /\ \A i \in {2, 3} :
          Layout[i] = IF Ratio > 0 THEN [rows |-> Coff * Ratio, cols |-> Coff * HeadDim]
                      ELSE NoField
    /\ \A i \in {4, 5} :
          Layout[i] = IF Ratio = 4 THEN [rows |-> Coff * Ratio, cols |-> Coff * IndexHeadDim]
                      ELSE NoField
    /\ Layout[6] = IF Ratio = 4 THEN [rows |-> Extra, cols |-> IndexHeadDim] ELSE NoField
  <1>1. Extra = IF Ratio > 0 THEN MaxSeqLen \div Ratio ELSE 0
    BY DEF Extra
  <1>2. Ratio = 4 => Extra = MaxSeqLen \div Ratio
    BY <1>1
  <1>. QED BY <1>1, <1>2 DEF Layout

\* Every size of the layout is a natural number.
LEMMA LayoutNat ==
    \A i \in Fields : Layout[i].rows \in Nat /\ Layout[i].cols \in Nat /\ Size(i) \in Nat
  <1>1. /\ Ratio \in Nat /\ Coff \in Nat /\ Win \in Nat
        /\ HeadDim \in Nat /\ IndexHeadDim \in Nat /\ Extra \in Nat
    BY SizesAssumption, DimsAssumption, ExtraNat DEF Coff
  <1>2. /\ Coff * Ratio \in Nat /\ Coff * HeadDim \in Nat /\ Coff * IndexHeadDim \in Nat
    BY <1>1, ProductNat
  <1>3. \A i \in Fields : Layout[i].rows \in Nat /\ Layout[i].cols \in Nat
    BY <1>1, <1>2, LayoutFields DEF Fields, NoField
  <1>. QED BY <1>3, ProductNat DEF Size

\* The allocator asks for the sum of the sizes that the layout slices.
LEMMA SizesSum ==
    Size(1) + Size(2) + Size(3) + Size(4) + Size(5) + Size(6) = Allocated
  <1> DEFINE a == (Win + Extra) * HeadDim
             b == (Coff * Ratio) * (Coff * HeadDim)
             c == (Coff * Ratio) * (Coff * IndexHeadDim)
             d == Extra * IndexHeadDim
  <1>1. /\ a \in Nat /\ b \in Nat /\ c \in Nat /\ d \in Nat
    <2>1. /\ Ratio \in Nat /\ Coff \in Nat /\ Win + Extra \in Nat
          /\ HeadDim \in Nat /\ IndexHeadDim \in Nat /\ Extra \in Nat
      BY SizesAssumption, DimsAssumption, ExtraNat DEF Coff
    <2>2. /\ Coff * Ratio \in Nat /\ Coff * HeadDim \in Nat /\ Coff * IndexHeadDim \in Nat
      BY <2>1, ProductNat
    <2>. QED BY <2>1, <2>2, ProductNat
  <1>2. /\ Size(1) = a
        /\ Size(2) = (IF Ratio > 0 THEN b ELSE 0) /\ Size(3) = (IF Ratio > 0 THEN b ELSE 0)
        /\ Size(4) = (IF Ratio = 4 THEN c ELSE 0) /\ Size(5) = (IF Ratio = 4 THEN c ELSE 0)
        /\ Size(6) = (IF Ratio = 4 THEN d ELSE 0)
    BY LayoutFields DEF Size, NoField
  <1>3. Allocated = a + (IF Ratio > 0 THEN 2 * b ELSE 0)
                      + (IF Ratio = 4 THEN 2 * c + d ELSE 0)
    BY DEF Allocated, Extra
  <1>. HIDE DEF a, b, c, d
  <1>. QED BY <1>1, <1>2, <1>3

\* The arrays of the attention layer have the shapes of the layout.
LEMMA ShapesAgree ==
    ASSUME TypeOK
    PROVE  \A i \in Fields : Layout[i] = [rows |-> Rows(i), cols |-> Cols(i)]
  <1>1. /\ DOMAIN swa = Ring /\ DOMAIN comp = CompSlots /\ DOMAIN icomp = CompSlots
        /\ DOMAIN cst = StateSlots /\ DOMAIN ist = StateSlots
    BY DEF TypeOK
  <1>2. /\ Cardinality(Ring) = Win /\ Cardinality(CompSlots) = Extra
    BY SlotCount, ExtraNat, SizesAssumption DEF Ring, CompSlots
  <1>3. Ratio > 0 => Cardinality(StateSlots) = Coff * Ratio
    <2>1. Coff * Ratio = Offset + Ratio /\ Offset + Ratio \in Nat
      BY SizesAssumption DEF Offset, Coff, Overlap
    <2>2. Offset + Ratio - 1 \in Int /\ Offset + Ratio - 1 = (Offset + Ratio) - 1
      BY SizesAssumption DEF Offset
    <2>3. Cardinality(0 .. (Offset + Ratio) - 1) = Offset + Ratio
      BY <2>1, SlotCount
    <2>. QED BY <2>1, <2>2, <2>3, Zenon DEF StateSlots
  <1>4. Cardinality(0 .. Win + Extra - 1) = Win + Extra
    BY SlotCount, ExtraNat, SizesAssumption
  <1>5. Cardinality(DOMAIN <<>>) = 0
    BY FS_EmptySet
  <1>6. Rows(1) = Win + Extra /\ Cols(1) = HeadDim
    BY <1>1, <1>2, <1>4 DEF Rows, Cols, Arrays
  <1>7. \A i \in {2, 3} :
          /\ Rows(i) = IF Ratio > 0 THEN Coff * Ratio ELSE 0
          /\ Cols(i) = IF Ratio > 0 THEN Coff * HeadDim ELSE 0
    <2>1. \A i \in {2, 3} : Arrays[i] =
            IF Ratio > 0
            THEN [row |-> cst, cols |-> IF Overlap THEN 2 * HeadDim ELSE HeadDim]
            ELSE NoArray
      BY DEF Arrays
    <2>2. (IF Overlap THEN 2 * HeadDim ELSE HeadDim) = Coff * HeadDim
      BY DimsAssumption DEF Overlap, Coff
    <2>. QED BY <2>1, <2>2, <1>1, <1>3, <1>5 DEF Rows, Cols, NoArray
  <1>8. \A i \in {4, 5} :
          /\ Rows(i) = IF Ratio = 4 THEN Coff * Ratio ELSE 0
          /\ Cols(i) = IF Ratio = 4 THEN Coff * IndexHeadDim ELSE 0
    <2>1. \A i \in {4, 5} : Arrays[i] =
            IF Ratio = 4 THEN [row |-> ist, cols |-> 2 * IndexHeadDim] ELSE NoArray
      BY DEF Arrays, HasIndexer, Overlap
    <2>2. Ratio = 4 => Coff = 2
      BY DEF Coff
    <2>. QED BY <2>1, <2>2, <1>1, <1>3, <1>5 DEF Rows, Cols, NoArray
  <1>9. /\ Rows(6) = IF Ratio = 4 THEN Extra ELSE 0
        /\ Cols(6) = IF Ratio = 4 THEN IndexHeadDim ELSE 0
    <2>1. Arrays[6] = IF Ratio = 4 THEN [row |-> icomp, cols |-> IndexHeadDim] ELSE NoArray
      BY DEF Arrays, HasIndexer, Overlap
    <2>. QED BY <2>1, <1>1, <1>2, <1>5 DEF Rows, Cols, NoArray
  <1>. QED BY <1>6, <1>7, <1>8, <1>9, LayoutFields DEF Fields, NoField

-----------------------------------------------------------------------------
(* Slices *)

\* The elements of the arrays.
Elements == {Flat(j)[k] : j \in Fields, k \in Nat}

\* c has n elements; c is a followed by b; c holds the n elements of b behind
\* its first o.
Sized(c, n) == c \in Seq(Elements) /\ Len(c) = n
Joins(c, a, b) == c = a \o b
HoldsAt(c, o, b, n) == \A k \in 1 .. n : c[o + k] = b[k]

\* A concatenation has both parts in it, each at its offset.
LEMMA TwoParts ==
    ASSUME NEW c, NEW a, NEW b, Joins(c, a, b), NEW la \in Nat, NEW lb \in Nat,
           Sized(a, la), Sized(b, lb)
    PROVE  Sized(c, la + lb) /\ HoldsAt(c, 0, a, la) /\ HoldsAt(c, la, b, lb)
  <1>1. a \in Seq(Elements) /\ b \in Seq(Elements) /\ Len(a) = la /\ Len(b) = lb
    BY DEF Sized
  <1>2. a \o b \in Seq(Elements) /\ Len(a \o b) = Len(a) + Len(b)
    BY <1>1, ConcatProperties, Zenon
  <1>3. Sized(c, la + lb)
    BY <1>1, <1>2, Zenon DEF Joins, Sized
  <1>4. ASSUME NEW k \in 1 .. la
        PROVE  c[0 + k] = a[k]
    BY <1>1 DEF Joins
  <1>5. ASSUME NEW k \in 1 .. lb
        PROVE  c[la + k] = b[k]
    BY <1>1 DEF Joins
  <1>. QED BY <1>3, <1>4, <1>5 DEF HoldsAt

\* What a part holds, the whole holds.
LEMMA Within ==
    ASSUME NEW c, NEW p, NEW m \in Nat, HoldsAt(c, 0, p, m),
           NEW b, NEW o \in Nat, NEW n \in Nat, HoldsAt(p, o, b, n), o + n <= m
    PROVE  HoldsAt(c, o, b, n)
  <1>1. ASSUME NEW k \in 1 .. n
        PROVE  c[o + k] = b[k]
    <2>1. o + k \in 1 .. m /\ 0 + (o + k) = o + k
      OBVIOUS
    <2>2. c[0 + (o + k)] = p[o + k]
      BY <2>1, Zenon DEF HoldsAt
    <2>3. p[o + k] = b[k]
      BY Zenon DEF HoldsAt
    <2>. QED BY <2>1, <2>2, <2>3, Zenon
  <1>. QED BY <1>1 DEF HoldsAt

\* Flattened, an array has the length that the layout slices.
LEMMA FlatLength ==
    ASSUME TypeOK, NEW i \in Fields
    PROVE  /\ Sized(Flat(i), Size(i))
           /\ Flat(i) = [k \in 1 .. Size(i) |-> Flat(i)[k]]
  <1>1. Rows(i) * Cols(i) = Size(i) /\ Size(i) \in Nat
    <2>1. Layout[i] = [rows |-> Rows(i), cols |-> Cols(i)]
      BY ShapesAgree, Zenon
    <2>2. Layout[i].rows = Rows(i) /\ Layout[i].cols = Cols(i)
      BY <2>1
    <2>. QED BY <2>2, LayoutNat, Zenon DEF Size
  <1>2. /\ DOMAIN Flat(i) = 1 .. Size(i)
        /\ Flat(i) = [k \in 1 .. Size(i) |-> Flat(i)[k]]
    BY <1>1 DEF Flat
  <1>3. \A k \in 1 .. Size(i) : Flat(i)[k] \in Elements
    BY <1>1 DEF Elements
  <1>4. Flat(i) \in Seq(Elements) /\ Len(Flat(i)) = Size(i)
    BY <1>1, <1>2, <1>3
  <1>. QED BY <1>2, <1>4, Zenon DEF Sized

\* A packed state has its fields at the offsets of the layout.
LEMMA PackedParts ==
    ASSUME TypeOK
    PROVE  /\ Sized(Packed, OffsetOf[6] + Size(6))
           /\ \A i \in Fields : HoldsAt(Packed, OffsetOf[i], Flat(i), Size(i))
  <1>1. /\ Size(1) \in Nat /\ Size(2) \in Nat /\ Size(3) \in Nat
        /\ Size(4) \in Nat /\ Size(5) \in Nat /\ Size(6) \in Nat
    BY LayoutNat DEF Fields
  <1>2. /\ Sized(Flat(1), Size(1)) /\ Sized(Flat(2), Size(2)) /\ Sized(Flat(3), Size(3))
        /\ Sized(Flat(4), Size(4)) /\ Sized(Flat(5), Size(5)) /\ Sized(Flat(6), Size(6))
    BY FlatLength DEF Fields
  <1> DEFINE p2 == Flat(1) \o Flat(2)
             p3 == p2 \o Flat(3)
             p4 == p3 \o Flat(4)
             p5 == p4 \o Flat(5)
             m2 == Size(1) + Size(2)
             m3 == m2 + Size(3)
             m4 == m3 + Size(4)
             m5 == m4 + Size(5)
  <1>3. /\ Joins(p2, Flat(1), Flat(2)) /\ Joins(p3, p2, Flat(3)) /\ Joins(p4, p3, Flat(4))
        /\ Joins(p5, p4, Flat(5)) /\ Joins(Packed, p5, Flat(6))
    BY Zenon DEF Packed, Joins
  <1>4. OffsetOf = <<0, Size(1), m2, m3, m4, m5>>
    BY Zenon DEF OffsetOf
  <1>5. /\ m2 \in Nat /\ m3 \in Nat /\ m4 \in Nat /\ m5 \in Nat
        /\ Size(1) <= m2 /\ m2 <= m3 /\ m3 <= m4 /\ m4 <= m5
        /\ m2 = Size(1) + Size(2) /\ m3 = m2 + Size(3)
        /\ m4 = m3 + Size(4) /\ m5 = m4 + Size(5)
    BY <1>1
  <1>. HIDE DEF p2, p3, p4, p5, m2, m3, m4, m5
  <1>6. Sized(p2, m2) /\ HoldsAt(p2, 0, Flat(1), Size(1)) /\ HoldsAt(p2, Size(1), Flat(2), Size(2))
    BY <1>1, <1>2, <1>3, <1>5, TwoParts
  <1>7. Sized(p3, m3) /\ HoldsAt(p3, 0, p2, m2) /\ HoldsAt(p3, m2, Flat(3), Size(3))
    BY <1>1, <1>2, <1>3, <1>5, <1>6, TwoParts
  <1>8. Sized(p4, m4) /\ HoldsAt(p4, 0, p3, m3) /\ HoldsAt(p4, m3, Flat(4), Size(4))
    BY <1>1, <1>2, <1>3, <1>5, <1>7, TwoParts
  <1>9. Sized(p5, m5) /\ HoldsAt(p5, 0, p4, m4) /\ HoldsAt(p5, m4, Flat(5), Size(5))
    BY <1>1, <1>2, <1>3, <1>5, <1>8, TwoParts
  <1>10. Sized(Packed, m5 + Size(6)) /\ HoldsAt(Packed, 0, p5, m5) /\ HoldsAt(Packed, m5, Flat(6), Size(6))
    BY <1>1, <1>2, <1>3, <1>5, <1>9, TwoParts
  <1>11. HoldsAt(Packed, 0, p4, m4)
    BY <1>5, <1>9, <1>10, Within
  <1>12. HoldsAt(Packed, 0, p3, m3)
    BY <1>5, <1>8, <1>11, Within
  <1>13. HoldsAt(Packed, 0, p2, m2)
    BY <1>5, <1>7, <1>12, Within
  <1>14. HoldsAt(Packed, 0, Flat(1), Size(1))
    BY <1>1, <1>5, <1>6, <1>13, Within
  <1>15. HoldsAt(Packed, Size(1), Flat(2), Size(2))
    BY <1>1, <1>5, <1>6, <1>13, Within
  <1>16. HoldsAt(Packed, m2, Flat(3), Size(3))
    BY <1>1, <1>5, <1>7, <1>12, Within
  <1>17. HoldsAt(Packed, m3, Flat(4), Size(4))
    BY <1>1, <1>5, <1>8, <1>11, Within
  <1>18. HoldsAt(Packed, m4, Flat(5), Size(5))
    BY <1>1, <1>5, <1>9, <1>10, Within
  <1>19. /\ OffsetOf[1] = 0 /\ OffsetOf[2] = Size(1) /\ OffsetOf[3] = m2
         /\ OffsetOf[4] = m3 /\ OffsetOf[5] = m4 /\ OffsetOf[6] = m5
    BY <1>4
  <1>20. \A i \in Fields : HoldsAt(Packed, OffsetOf[i], Flat(i), Size(i))
    BY <1>10, <1>14, <1>15, <1>16, <1>17, <1>18, <1>19 DEF Fields
  <1>. QED BY <1>10, <1>19, <1>20

\* A field ends before the next one, the last at the end.
LEMMA OffsetsNat ==
    ASSUME NEW i \in Fields
    PROVE  OffsetOf[i] \in Nat /\ OffsetOf[i] + Size(i) <= OffsetOf[6] + Size(6)
  <1>1. /\ Size(1) \in Nat /\ Size(2) \in Nat /\ Size(3) \in Nat
        /\ Size(4) \in Nat /\ Size(5) \in Nat /\ Size(6) \in Nat
    BY LayoutNat DEF Fields
  <1>. QED BY <1>1 DEF OffsetOf, Fields

\* A state with the shapes of the layout is packed into the buffer of the
\* allocator and comes back from it.
LEMMA PackedType ==
    ASSUME TypeOK
    PROVE  PackedExact
  <1>1. ASSUME NEW i \in Fields
        PROVE  Unpacked(Packed, i) = Flat(i)
    <2>1. ~(OffsetOf[i] + Size(i) > Len(Packed))
      <3>1. Len(Packed) = OffsetOf[6] + Size(6)
        BY PackedParts, Zenon DEF Sized
      <3>2. /\ OffsetOf[i] \in Nat /\ Size(i) \in Nat
            /\ OffsetOf[i] + Size(i) <= OffsetOf[6] + Size(6)
        BY OffsetsNat, LayoutNat
      <3>3. OffsetOf[6] \in Nat /\ Size(6) \in Nat
        BY OffsetsNat, LayoutNat DEF Fields
      <3>4. ~(OffsetOf[i] + Size(i) > OffsetOf[6] + Size(6))
        BY <3>2, <3>3
      <3>. QED BY <3>1, <3>4, Zenon
    <2>2. Unpacked(Packed, i) = [k \in 1 .. Size(i) |-> Packed[OffsetOf[i] + k]]
      BY <2>1 DEF Unpacked
    <2>3. \A k \in 1 .. Size(i) : Packed[OffsetOf[i] + k] = Flat(i)[k]
      BY PackedParts, Zenon DEF HoldsAt
    <2>4. Flat(i) = [k \in 1 .. Size(i) |-> Flat(i)[k]]
      BY FlatLength
    <2>. QED BY <2>2, <2>3, <2>4
  <1>2. Len(Packed) = Allocated
    <2>1. OffsetOf[6] = Size(1) + Size(2) + Size(3) + Size(4) + Size(5)
      BY DEF OffsetOf
    <2>2. Len(Packed) = OffsetOf[6] + Size(6)
      BY PackedParts, Zenon DEF Sized
    <2>. QED BY <2>1, <2>2, SizesSum, Zenon
  <1>. QED BY <1>1, <1>2, ShapesAgree, Zenon DEF PackedExact

-----------------------------------------------------------------------------

\* For every window, ratio, sequence bound and head size, the buffer that a
\* step hands back has the length that the allocator gave it and unpacks into
\* the fields it was packed from (_pack_layer_state, _unpack_layer_state,
\* v4_layer_packed_sizes_from_cfg).
THEOREM PackedCorrect == Spec => []PackedExact
  <1>1. TypeOK => PackedExact
    BY PackedType
  <1>. QED BY <1>1, TypeCorrect, PTL
=============================================================================
