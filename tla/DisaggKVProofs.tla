--------------------------- MODULE DisaggKVProofs ---------------------------
(***************************************************************************)
(* What the blocks of the prefill and of the decode engines of             *)
(* core_tpu.py hold, and that no decode step computes on KV that is not    *)
(* its request's.                                                          *)
(***************************************************************************)
EXTENDS DisaggEngineProofs

-----------------------------------------------------------------------------
(* What the blocks hold                                                    *)
(*                                                                         *)
(* Inside a step the tokens of r are computed up to from[r], and its       *)
(* blocks are already filed for the tokens up to at[r] that the step is    *)
(* going to compute: a request admitted later in the same step can hit     *)
(* them. A block filed under a key therefore holds the KV of that key or   *)
(* is about to be written with it, and no two requests write the same one. *)

Full(n, i) == i <= n \div BlockSize
Content(r, i, n) == [key |-> Key[r][i], n |-> Least(n - (i - 1) * BlockSize, BlockSize)]

\* The blocks of full tokens are filed, the last one is not until it is full.
FiledTo(e, at) ==
    \A r \in Reqs : \A i \in DOMAIN e.blk[r] :
        e.hash[e.blk[r][i]] = IF Full(at[r], i) THEN Key[r][i] ELSE None

\* A block in part computed holds that part.
PartHeld(e, from) ==
    \A r \in Reqs : \A i \in DOMAIN e.blk[r] :
        ~Full(from[r], i) /\ i <= BlocksFor(from[r]) => e.kv[e.blk[r][i]] = Content(r, i, from[r])

ToFill(e, from, at, b) ==
    \E r \in Reqs : \E i \in DOMAIN e.blk[r] :
        e.blk[r][i] = b /\ ~Full(from[r], i) /\ Full(at[r], i)
Backed(e, from, at) ==
    \A b \in DOMAIN e.hash :
        e.hash[b] # None => e.kv[b] = [key |-> e.hash[b], n |-> BlockSize] \/ ToFill(e, from, at, b)

OneWriter(e, from) ==
    \A r, q \in Reqs : \A i \in DOMAIN e.blk[r] : \A j \in DOMAIN e.blk[q] :
        r # q /\ ~Full(from[r], i) /\ ~Full(from[q], j) => e.blk[r][i] # e.blk[q][j]

Cached(e, from, at) ==
    FiledTo(e, at) /\ PartHeld(e, from) /\ Backed(e, from, at) /\ OneWriter(e, from)

\* A request has the blocks of the tokens it is filed to, and no others.
Sized(e, from, at) ==
    \A r \in Reqs :
        /\ from[r] \in Nat /\ at[r] \in Nat /\ from[r] <= at[r]
        /\ e.blk[r] # <<>> => Len(e.blk[r]) = BlocksFor(at[r]) /\ at[r] <= TotalLen[r]

-----------------------------------------------------------------------------
\* Of the blocks for n tokens all are full but, at most, the last.
LEMMA FullBlocks ==
    ASSUME NEW n \in Nat, NEW i \in Nat \ {0}
    PROVE  /\ Full(n, i) => i <= BlocksFor(n) /\ Least(n - (i - 1) * BlockSize, BlockSize) = BlockSize
           /\ \A m \in Nat : m <= n /\ Full(m, i) => Full(n, i)
           /\ i <= BlocksFor(n) /\ ~Full(n, i) => i = (n \div BlockSize) + 1
           /\ Full(i * BlockSize, i)
           /\ n \div BlockSize \in Nat
  <1> DEFINE k == n \div BlockSize
             j == n % BlockSize
             B == BlockSize
  <1>1. B \in Nat \ {0}
    BY DisaggAssumption
  <1>2. k \in Nat /\ j \in 0 .. B - 1 /\ n = B * k + j
    BY <1>1, DivMod
  <1>3. BlocksFor(n) \in Nat /\ k <= BlocksFor(n)
    BY BlocksForOK
  <1>4. BlocksFor(n) <= k + 1
    <2>1. CASE n = 0
      BY <2>1, <1>2, BlocksForOK
    <2>2. CASE n > 0
      <3>1. BlocksFor(n) = ((n - 1) \div B) + 1
        BY <2>2, BlocksForOK
      <3>2. n - 1 \in Nat /\ n - 1 <= n
        BY <2>2
      <3>3. (n - 1) \div B <= n \div B /\ (n - 1) \div B \in Nat
        BY <3>2, <1>1, DivMonotone, DivMod
      <3> QED
        BY <3>1, <3>3, <1>2
    <2> QED
      BY <2>1, <2>2
  <1>5. ASSUME NEW m \in Nat, m <= n, Full(m, i)
        PROVE  Full(n, i)
    <2>1. m \div B <= n \div B /\ m \div B \in Nat
      BY <1>1, <1>5, DivMonotone, DivMod
    <2> QED
      BY <2>1, <1>2, <1>5 DEF Full
  <1>6. (i * B) \div B = i
    <2>1. i * B \in Nat /\ i * B = B * i + 0 /\ 0 \in 0 .. B - 1
      BY <1>1, Z3
    <2> QED
      BY <1>1, <2>1, DivModUnique
  <1>7. Full(n, i) => Least(n - (i - 1) * B, B) = B
    <2> SUFFICES ASSUME i <= k
                 PROVE  Least(n - (i - 1) * B, B) = B
      BY DEF Full
    <2> HIDE DEF k, j, B
    <2>1. PICK m \in Nat : k = i + m
      <3>1. k - i \in Nat /\ k = i + (k - i)
        BY <1>2
      <3> QED
        BY <3>1
    <2>2. n - (i - 1) * B = B * m + B + j
      BY <1>1, <1>2, <2>1, Z3
    <2>3. B * m \in Nat
      BY <1>1, Z3
    <2>4. B <= n - (i - 1) * B
      BY <2>2, <2>3, <1>1, <1>2
    <2>5. B * m + B + j = B \/ ~(B * m + B + j <= B)
      BY <2>3, <1>1, <1>2
    <2> QED
      BY <2>2, <2>4, <2>5 DEF Least
  <1>8. Full(i * B, i)
    BY <1>6 DEF Full
  <1> HIDE DEF k
  <1> QED
    BY <1>2, <1>3, <1>4, <1>5, <1>7, <1>8 DEF Full, k

\* Every block of a request's tokens has a key.
LEMMA KeyAt ==
    ASSUME NEW r \in Reqs, NEW n \in Nat, n <= TotalLen[r], NEW i \in Nat \ {0}, i <= BlocksFor(n)
    PROVE  /\ i \in DOMAIN Key[r] /\ Key[r][i] # None
  <1>1. BlocksFor(n) <= BlocksFor(TotalLen[r]) /\ BlocksFor(n) \in Nat /\ BlocksFor(TotalLen[r]) \in Nat
    BY KeyOK, BlocksForMonotone, BlocksForOK
  <1>2. Len(Key[r]) = BlocksFor(TotalLen[r]) /\ Key[r] \in Seq(Keys)
    BY KeyOK
  <1>3. i \in 1 .. Len(Key[r]) /\ DOMAIN Key[r] = 1 .. Len(Key[r])
    BY <1>1, <1>2
  <1> QED
    BY <1>3, KeyOK

\* Blocks filed as a request's are distinct.
LEMMA FiledDistinct ==
    ASSUME NEW hash, NEW r \in Reqs, NEW p, NEW n \in Nat, n <= TotalLen[r],
           DOMAIN p = 1 .. BlocksFor(n),
           \A i \in DOMAIN p : hash[p[i]] = IF Full(n, i) THEN Key[r][i] ELSE None
    PROVE  IsInjective(p)
  <1> SUFFICES ASSUME NEW i \in DOMAIN p, NEW j \in DOMAIN p, p[i] = p[j]
               PROVE  i = j
    BY DEF IsInjective
  <1>0. BlocksFor(n) \in Nat
    BY BlocksForOK
  <1>1. i \in Nat \ {0} /\ j \in Nat \ {0} /\ i <= BlocksFor(n) /\ j <= BlocksFor(n)
    BY <1>0
  <1>2. i \in DOMAIN Key[r] /\ j \in DOMAIN Key[r] /\ Key[r][i] # None /\ Key[r][j] # None
    BY <1>1, KeyAt
  <1>3. Key[r][i] = Key[r][j] => i = j
    BY <1>2, KeyOK DEF IsInjective
  <1>4. CASE Full(n, i)
    BY <1>2, <1>3, <1>4
  <1>5. CASE ~Full(n, i)
    <2>1. ~Full(n, j)
      BY <1>2, <1>5
    <2> QED
      BY <2>1, <1>1, <1>5, FullBlocks
  <1> QED
    BY <1>4, <1>5

\* A request has no block twice in its table.
LEMMA DistinctBlocks ==
    ASSUME NEW size \in Nat \ {0}, NEW e, EngineOK(e, size), NEW from, NEW at,
           FiledTo(e, at), Sized(e, from, at), NEW r \in Reqs
    PROVE  IsInjective(e.blk[r])
  <1>1. e.blk[r] \in Seq(1 .. size - 1)
    <2>1. e.blk \in [Reqs -> Seq(1 .. size - 1)]
      BY EngineFields
    <2> QED
      BY <2>1
  <1>2. CASE e.blk[r] = <<>>
    BY <1>2 DEF IsInjective
  <1>3. CASE e.blk[r] # <<>>
    <2>1. at[r] \in Nat /\ Len(e.blk[r]) = BlocksFor(at[r]) /\ at[r] <= TotalLen[r]
      BY <1>3 DEF Sized
    <2>2. DOMAIN e.blk[r] = 1 .. BlocksFor(at[r])
      BY <2>1, <1>1
    <2> QED
      BY <2>1, <2>2, FiledDistinct DEF FiledTo
  <1> QED
    BY <1>2, <1>3

\* The blocks p, the first of request r's, hold its first c tokens.
Ready(e, from, at, r, p, c) ==
    /\ Len(p) = BlocksFor(c)
    /\ \A i \in DOMAIN p :
         /\ e.hash[p[i]] = IF Full(c, i) THEN Key[r][i] ELSE None
         /\ ~Full(c, i) => e.kv[p[i]] = Content(r, i, c)
         /\ \A q \in Reqs : \A j \in DOMAIN e.blk[q] :
              q # r /\ ~Full(c, i) /\ ~Full(from[q], j) => p[i] # e.blk[q][j]
    /\ \A i \in DOMAIN e.blk[r] : Full(at[r], i) => Full(from[r], i)

\* The prefix of r has blocks p, those it holds and those it found.
Grows(f, e, r, p, fresh, n, size) ==
    /\ Lists(fresh, e.pool.free \ Range(p), BlocksFor(n) - Len(p))
    /\ f.kv = e.kv /\ f.blk = [e.blk EXCEPT ![r] = p \o fresh] /\ f.blk[r] = p \o fresh
    /\ Len(f.blk[r]) = BlocksFor(n)
    /\ f.hash = [b \in 0 .. size - 1 |->
                    IF \E i \in 1 .. n \div BlockSize : f.blk[r][i] = b
                    THEN Key[r][CHOOSE i \in 1 .. n \div BlockSize : f.blk[r][i] = b]
                    ELSE IF b \in Range(fresh) THEN None ELSE e.hash[b]]

\* The positions of a concatenation.
LEMMA ConcatAt ==
    ASSUME NEW T, NEW s \in Seq(T), NEW t \in Seq(T)
    PROVE  /\ DOMAIN (s \o t) = 1 .. Len(s) + Len(t)
           /\ \A i \in 1 .. Len(s) : (s \o t)[i] = s[i]
           /\ \A i \in Len(s) + 1 .. Len(s) + Len(t) : (s \o t)[i] = t[i - Len(s)]
  OBVIOUS

\* from2 and at2 are from and at but for request r.
Reset(from, at, from2, at2, r, c, n) ==
    /\ from2[r] = c /\ at2[r] = n
    /\ \A q \in Reqs : q # r => from2[q] = from[q] /\ at2[q] = at[q]

\* allocate_slots gives r blocks for its first n tokens.
LEMMA GrownCached ==
    ASSUME NEW size \in Nat \ {0}, NEW e, EngineOK(e, size), NEW from, NEW at, NEW from2, NEW at2,
           Cached(e, from, at), Sized(e, from, at), NEW r \in Reqs,
           NEW p \in Seq(1 .. size - 1), NEW c \in Nat, NEW n \in Nat, c <= n, n <= TotalLen[r],
           Ready(e, from, at, r, p, c), NEW f, NEW fresh, Grows(f, e, r, p, fresh, n, size),
           Reset(from, at, from2, at2, r, c, n)
    PROVE  Cached(f, from2, at2)
  <1>0. /\ from2[r] = c /\ at2[r] = n
        /\ \A q \in Reqs : q # r => from2[q] = from[q] /\ at2[q] = at[q]
    BY DEF Reset
  <1> DEFINE T == 1 .. size - 1
             K == Len(p)
             full == n \div BlockSize
             blk == f.blk[r]
  <1>1. /\ e.blk \in [Reqs -> Seq(T)] /\ e.hash \in [0 .. size - 1 -> Keys]
        /\ e.pool.free = T \ Held(e)
    BY EngineFields
  <1>2. DOMAIN p = 1 .. K /\ K \in Nat /\ \A i \in 1 .. K : p[i] \in T
    OBVIOUS
  <1>3. K = BlocksFor(c) /\ BlocksFor(n) \in Nat /\ BlocksFor(c) <= BlocksFor(n)
    BY BlocksForOK, BlocksForMonotone DEF Ready
  <1>4. /\ fresh \in Seq(T) /\ Len(fresh) = BlocksFor(n) - K /\ IsInjective(fresh)
        /\ Range(fresh) \subseteq (e.pool.free \ Range(p))
    <2> DEFINE S == e.pool.free \ Range(p)
               k == BlocksFor(n) - K
    <2>1. Lists(fresh, S, k)
      BY DEF Grows
    <2>2. k \in Nat
      BY <1>2, <1>3
    <2>3. S \subseteq T /\ S \subseteq (e.pool.free \ Range(p))
      BY <1>1
    <2> HIDE DEF S, k, K
    <2>4. fresh \in Seq(S) /\ IsInjective(fresh) /\ Len(fresh) = k
      BY <2>1, <2>2 DEF Lists
    <2>5. fresh \in Seq(T)
      <3>1. fresh \in [1 .. Len(fresh) -> S] /\ Len(fresh) \in Nat
        BY <2>4
      <3>2. fresh \in [1 .. Len(fresh) -> T]
        BY <3>1, <2>3
      <3> HIDE DEF T
      <3> QED
        BY <3>1, <3>2
    <2>6. Range(fresh) \subseteq S
      BY <2>4 DEF Range
    <2> QED
      BY <2>3, <2>4, <2>5, <2>6 DEF k
  <1>5. /\ DOMAIN fresh = 1 .. Len(fresh)
        /\ \A i \in 1 .. Len(fresh) : fresh[i] \in T /\ fresh[i] \in Range(fresh)
    <2> HIDE DEF T
    <2>1. fresh \in Seq(T) /\ DOMAIN fresh = 1 .. Len(fresh)
      BY <1>4
    <2>2. \A i \in 1 .. Len(fresh) : fresh[i] \in T
      BY <2>1
    <2>3. \A i \in 1 .. Len(fresh) : fresh[i] \in Range(fresh)
      BY <2>1 DEF Range
    <2> QED
      BY <2>1, <2>2, <2>3
  <1>6. /\ DOMAIN blk = 1 .. BlocksFor(n)
        /\ \A i \in 1 .. K : blk[i] = p[i]
        /\ \A i \in 1 .. BlocksFor(n) : i \notin 1 .. K =>
             i - K \in 1 .. Len(fresh) /\ blk[i] = fresh[i - K]
    <2>1. blk = p \o fresh
      BY DEF Grows
    <2>2. DOMAIN (p \o fresh) = 1 .. K + Len(fresh)
      BY <1>4, ConcatAt
    <2>3. /\ \A i \in 1 .. K : (p \o fresh)[i] = p[i]
          /\ \A i \in K + 1 .. K + Len(fresh) : (p \o fresh)[i] = fresh[i - K]
      BY <1>4, ConcatAt
    <2>4. K + Len(fresh) = BlocksFor(n)
      BY <1>2, <1>3, <1>4
    <2> HIDE DEF blk, K
    <2> QED
      BY <2>1, <2>2, <2>3, <2>4, <1>2, <1>3, <1>4, SMTT(30) DEF K
  <1>7. IsInjective(p)
    <2>1. DOMAIN p = 1 .. BlocksFor(c) /\ c <= TotalLen[r]
      BY <1>2, <1>3, KeyOK
    <2> QED
      BY <2>1, FiledDistinct DEF Ready
  <1>8. \A i, j \in DOMAIN blk : blk[i] = blk[j] => i = j
    <2> SUFFICES ASSUME NEW i \in DOMAIN blk, NEW j \in DOMAIN blk, blk[i] = blk[j]
                 PROVE  i = j
      OBVIOUS
    <2> HIDE DEF blk, K
    <2>1. \A k \in 1 .. K : p[k] \in Range(p)
      BY <1>2 DEF Range
    <2>2. CASE i \in 1 .. K /\ j \in 1 .. K
      BY <2>2, <1>2, <1>6, <1>7 DEF IsInjective
    <2>3. CASE i \in 1 .. K /\ j \notin 1 .. K
      BY <2>1, <2>3, <1>4, <1>5, <1>6
    <2>4. CASE i \notin 1 .. K /\ j \in 1 .. K
      BY <2>1, <2>4, <1>4, <1>5, <1>6
    <2>5. CASE i \notin 1 .. K /\ j \notin 1 .. K
      <3>1. i - K \in DOMAIN fresh /\ j - K \in DOMAIN fresh /\ fresh[i - K] = fresh[j - K]
        BY <2>5, <1>5, <1>6
      <3>2. i - K = j - K
        BY <3>1, <1>4 DEF IsInjective
      <3>3. i \in Int /\ j \in Int /\ K \in Int
        BY <1>2, <1>3, <1>6
      <3> QED
        BY <3>2, <3>3
    <2> QED
      BY <2>2, <2>3, <2>4, <2>5
  <1>9. \A q \in Reqs : \A j \in DOMAIN e.blk[q] : e.blk[q][j] \in T /\ e.blk[q][j] \notin Range(fresh)
    <2> SUFFICES ASSUME NEW q \in Reqs, NEW j \in DOMAIN e.blk[q]
                 PROVE  e.blk[q][j] \in T /\ e.blk[q][j] \notin Range(fresh)
      OBVIOUS
    <2>1. e.blk[q] \in Seq(T)
      BY <1>1
    <2>2. e.blk[q][j] \in T /\ e.blk[q][j] \in Range(e.blk[q])
      BY <2>1 DEF Range
    <2>3. e.blk[q][j] \in Held(e)
      BY <2>2 DEF Held
    <2> QED
      BY <2>2, <2>3, <1>1, <1>4
  <1>10. full \in Nat /\ full <= BlocksFor(n)
    BY BlocksForOK
  <1>11. \A i \in DOMAIN blk : blk[i] \in T /\ blk[i] \in 0 .. size - 1 /\ i \in Nat \ {0} /\ i <= BlocksFor(n)
    <2> HIDE DEF blk, K
    <2>1. \A b \in T : b \in 0 .. size - 1
      OBVIOUS
    <2> QED
      BY <2>1, <1>2, <1>3, <1>5, <1>6
  <1>12. DOMAIN f.hash = 0 .. size - 1 /\ f.kv = e.kv
    BY DEF Grows
  <1>13. \A i \in 1 .. full : i \in DOMAIN blk /\ f.hash[blk[i]] = Key[r][i]
    <2> SUFFICES ASSUME NEW i \in 1 .. full
                 PROVE  i \in DOMAIN blk /\ f.hash[blk[i]] = Key[r][i]
      OBVIOUS
    <2>1. \A j \in 1 .. full : j \in DOMAIN blk
      BY <1>3, <1>6, <1>10
    <2> DEFINE j == CHOOSE j \in 1 .. full : blk[j] = blk[i]
    <2>2. j \in 1 .. full /\ blk[j] = blk[i]
      OBVIOUS
    <2>3. f.hash[blk[i]] = Key[r][j]
      BY <2>1, <1>11 DEF Grows
    <2> HIDE DEF j
    <2> QED
      BY <2>1, <2>2, <2>3, <1>8
  <1>14. \A b \in 0 .. size - 1 : (\A i \in 1 .. full : blk[i] # b) =>
           f.hash[b] = IF b \in Range(fresh) THEN None ELSE e.hash[b]
    <2> SUFFICES ASSUME NEW b \in 0 .. size - 1, \A i \in 1 .. full : blk[i] # b
                 PROVE  f.hash[b] = IF b \in Range(fresh) THEN None ELSE e.hash[b]
      OBVIOUS
    <2>1. ~\E i \in 1 .. n \div BlockSize : f.blk[r][i] = b
      OBVIOUS
    <2> QED
      BY <2>1 DEF Grows
  <1> HIDE DEF blk, full, K
  <1>15. \A i \in DOMAIN p :
           /\ i \in 1 .. K /\ i \in Nat \ {0} /\ i \in DOMAIN blk /\ blk[i] = p[i] /\ p[i] \in Range(p)
           /\ p[i] \notin Range(fresh)
    <2> SUFFICES ASSUME NEW i \in DOMAIN p
                 PROVE  /\ i \in 1 .. K /\ i \in Nat \ {0} /\ i \in DOMAIN blk /\ blk[i] = p[i]
                        /\ p[i] \in Range(p) /\ p[i] \notin Range(fresh)
      OBVIOUS
    <2>1. i \in 1 .. K /\ i \in Nat \ {0}
      BY <1>2
    <2>2. i \in 1 .. BlocksFor(n)
      BY <2>1, <1>2, <1>3
    <2>3. p[i] \in Range(p)
      BY DEF Range
    <2> QED
      BY <2>1, <2>2, <2>3, <1>4, <1>6
  <1>16. \A i \in DOMAIN blk : i \notin 1 .. K => ~Full(c, i) /\ blk[i] \in Range(fresh)
    <2> SUFFICES ASSUME NEW i \in DOMAIN blk, i \notin 1 .. K
                 PROVE  ~Full(c, i) /\ blk[i] \in Range(fresh)
      OBVIOUS
    <2>1. i \in Nat \ {0} /\ ~(i <= BlocksFor(c))
      BY <1>2, <1>3, <1>11
    <2> QED
      BY <2>1, <1>5, <1>6, FullBlocks
  <1>17. \A i \in DOMAIN blk : Full(n, i) <=> i \in 1 .. full
    BY <1>10, <1>11 DEF Full, full
  <1>18. \A i \in Nat \ {0} : Full(c, i) => Full(n, i)
    BY FullBlocks
  <1>19. /\ \A i \in DOMAIN p : e.hash[p[i]] = IF Full(c, i) THEN Key[r][i] ELSE None
         /\ \A i \in DOMAIN p : ~Full(c, i) => e.kv[p[i]] = Content(r, i, c)
         /\ \A i \in DOMAIN p : \A q \in Reqs : \A j \in DOMAIN e.blk[q] :
              q # r /\ ~Full(c, i) /\ ~Full(from[q], j) => p[i] # e.blk[q][j]
         /\ \A i \in DOMAIN e.blk[r] : Full(at[r], i) => Full(from[r], i)
    BY DEF Ready
  <1>20. ASSUME NEW b \in 0 .. size - 1, b \notin Range(fresh),
                \A i \in DOMAIN p : p[i] = b => Full(c, i)
         PROVE  f.hash[b] = e.hash[b]
    <2>1. CASE \E i \in 1 .. full : blk[i] = b
      <3>1. PICK i \in 1 .. full : blk[i] = b
        BY <2>1
      <3>2. i \in DOMAIN blk /\ f.hash[b] = Key[r][i]
        BY <3>1, <1>13
      <3>3. i \in DOMAIN p /\ p[i] = b
        BY <3>1, <3>2, <1>2, <1>15, <1>16, <1>20
      <3> QED
        BY <3>2, <3>3, <1>19, <1>20
    <2>2. CASE ~\E i \in 1 .. full : blk[i] = b
      BY <2>2, <1>14, <1>20
    <2> QED
      BY <2>1, <2>2
  <1>21. \A q \in Reqs : q # r => f.blk[q] = e.blk[q]
    BY <1>1 DEF Grows
  <1>22. \A q \in Reqs : \A j \in DOMAIN e.blk[q] :
           /\ j \in Nat \ {0} /\ from[q] \in Nat /\ at[q] \in Nat /\ at[q] <= TotalLen[q]
           /\ (Full(from[q], j) => Full(at[q], j)) /\ Key[q][j] # None
    <2> SUFFICES ASSUME NEW q \in Reqs, NEW j \in DOMAIN e.blk[q]
                 PROVE  /\ j \in Nat \ {0} /\ from[q] \in Nat /\ at[q] \in Nat /\ at[q] <= TotalLen[q]
                        /\ (Full(from[q], j) => Full(at[q], j)) /\ Key[q][j] # None
      OBVIOUS
    <2>1. e.blk[q] \in Seq(T) /\ DOMAIN e.blk[q] = 1 .. Len(e.blk[q]) /\ Len(e.blk[q]) \in Nat
      BY <1>1
    <2>2. from[q] \in Nat /\ at[q] \in Nat /\ from[q] <= at[q]
          /\ Len(e.blk[q]) = BlocksFor(at[q]) /\ at[q] <= TotalLen[q]
      BY <2>1 DEF Sized
    <2>3. j \in Nat \ {0} /\ j <= BlocksFor(at[q])
      BY <2>1, <2>2
    <2> QED
      BY <2>2, <2>3, KeyAt, FullBlocks
  <1>23. /\ \A q \in Reqs : \A j \in DOMAIN e.blk[q] :
              e.hash[e.blk[q][j]] = IF Full(at[q], j) THEN Key[q][j] ELSE None
         /\ \A b \in T : b \in 0 .. size - 1
    BY DEF Cached, FiledTo
  <1>24. FiledTo(f, at2)
    <2> SUFFICES ASSUME NEW q \in Reqs, NEW i \in DOMAIN f.blk[q]
                 PROVE  f.hash[f.blk[q][i]] = IF Full(at2[q], i) THEN Key[q][i] ELSE None
      BY DEF FiledTo
    <2>1. CASE q = r
      <3>1. i \in DOMAIN blk /\ f.blk[q][i] = blk[i] /\ at2[q] = n
        BY <2>1, <1>0 DEF blk
      <3>2. CASE Full(n, i)
        BY <2>1, <3>1, <3>2, <1>13, <1>17
      <3>3. CASE ~Full(n, i)
        <4>1. \A j \in 1 .. full : blk[j] # blk[i]
          BY <3>1, <3>3, <1>8, <1>13, <1>17
        <4>2. f.hash[blk[i]] = IF blk[i] \in Range(fresh) THEN None ELSE e.hash[blk[i]]
          BY <3>1, <4>1, <1>11, <1>14
        <4>3. CASE i \in 1 .. K
          BY <3>1, <3>3, <4>2, <4>3, <1>2, <1>15, <1>18, <1>19
        <4>4. CASE i \notin 1 .. K
          BY <3>1, <3>3, <4>2, <4>4, <1>16
        <4> QED
          BY <4>3, <4>4
      <3> QED
        BY <3>2, <3>3
    <2>2. CASE q # r
      <3> DEFINE b == e.blk[q][i]
      <3>1. i \in DOMAIN e.blk[q] /\ f.blk[q][i] = b /\ at2[q] = at[q]
        BY <2>2, <1>0, <1>21
      <3>2. b \in 0 .. size - 1 /\ b \notin Range(fresh)
            /\ e.hash[b] = IF Full(at[q], i) THEN Key[q][i] ELSE None
        BY <3>1, <1>9, <1>23
      <3>3. ASSUME NEW j \in DOMAIN p, p[j] = b, ~Full(c, j)
            PROVE  FALSE
        <4>1. e.hash[b] = None
          BY <3>3, <1>19
        <4>2. ~Full(at[q], i)
          BY <3>1, <3>2, <4>1, <1>22
        <4> QED
          BY <3>1, <3>3, <4>2, <2>2, <1>19, <1>22
      <3> HIDE DEF b
      <3> QED
        BY <3>1, <3>2, <3>3, <1>20
    <2> QED
      BY <2>1, <2>2
  <1>25. PartHeld(f, from2)
    <2> SUFFICES ASSUME NEW q \in Reqs, NEW i \in DOMAIN f.blk[q],
                        ~Full(from2[q], i), i <= BlocksFor(from2[q])
                 PROVE  f.kv[f.blk[q][i]] = Content(q, i, from2[q])
      BY DEF PartHeld
    <2>1. CASE q = r
      <3>1. i \in DOMAIN blk /\ f.blk[q][i] = blk[i] /\ from2[q] = c
        BY <2>1, <1>0 DEF blk
      <3>2. i \in DOMAIN p
        BY <3>1, <1>2, <1>3, <1>11
      <3> QED
        BY <2>1, <3>1, <3>2, <1>12, <1>15, <1>19
    <2>2. CASE q # r
      BY <2>2, <1>0, <1>12, <1>21 DEF Cached, PartHeld
    <2> QED
      BY <2>1, <2>2
  <1>26. Backed(f, from2, at2)
    <2> SUFFICES ASSUME NEW b \in 0 .. size - 1, f.hash[b] # None, ~ToFill(f, from2, at2, b)
                 PROVE  f.kv[b] = [key |-> f.hash[b], n |-> BlockSize]
      BY <1>12 DEF Backed
    <2>1. ASSUME NEW i \in 1 .. full, blk[i] = b
          PROVE  Full(c, i)
      <3>1. i \in DOMAIN f.blk[r] /\ f.blk[r][i] = b /\ Full(at2[r], i)
        BY <2>1, <1>0, <1>13, <1>17 DEF blk
      <3> QED
        BY <3>1, <1>0 DEF ToFill
    <2>2. b \notin Range(fresh)
      <3>1. CASE \E i \in 1 .. full : blk[i] = b
        <4>1. PICK i \in 1 .. full : blk[i] = b
          BY <3>1
        <4>2. i \in DOMAIN blk /\ Full(c, i)
          BY <4>1, <2>1, <1>13
        <4> QED
          BY <4>1, <4>2, <1>2, <1>15, <1>16
      <3>2. CASE ~\E i \in 1 .. full : blk[i] = b
        BY <3>2, <1>14
      <3> QED
        BY <3>1, <3>2
    <2>3. f.hash[b] = e.hash[b]
      <3>1. ASSUME NEW i \in DOMAIN p, p[i] = b, ~Full(c, i)
            PROVE  FALSE
        <4>1. \A j \in 1 .. full : blk[j] # b
          <5> SUFFICES ASSUME NEW j \in 1 .. full, blk[j] = b
                       PROVE  FALSE
            OBVIOUS
          <5>1. i = j
            BY <3>1, <1>8, <1>13, <1>15
          <5> QED
            BY <5>1, <3>1, <2>1
        <4>2. f.hash[b] = e.hash[b]
          BY <4>1, <2>2, <1>14
        <4> QED
          BY <3>1, <4>2, <1>19
      <3> QED
        BY <3>1, <2>2, <1>20
    <2>4. b \in DOMAIN e.hash
      BY <1>1
    <2>5. ~ToFill(e, from, at, b)
      <3> SUFFICES ASSUME NEW q \in Reqs, NEW i \in DOMAIN e.blk[q], e.blk[q][i] = b,
                          ~Full(from[q], i), Full(at[q], i)
                   PROVE  FALSE
        BY DEF ToFill
      <3>1. q # r
        BY <1>19
      <3>2. i \in DOMAIN f.blk[q] /\ f.blk[q][i] = b /\ ~Full(from2[q], i) /\ Full(at2[q], i)
        BY <3>1, <1>0, <1>21
      <3> QED
        BY <3>2 DEF ToFill
    <2> QED
      BY <2>3, <2>4, <2>5, <1>12 DEF Cached, Backed
  <1>27. ASSUME NEW i \in DOMAIN blk, NEW q \in Reqs, q # r, NEW j \in DOMAIN e.blk[q],
                ~Full(c, i), ~Full(from[q], j)
         PROVE  blk[i] # e.blk[q][j]
    <2>1. CASE i \in 1 .. K
      BY <2>1, <1>2, <1>15, <1>19, <1>27
    <2>2. CASE i \notin 1 .. K
      BY <2>2, <1>9, <1>16, <1>27
    <2> QED
      BY <2>1, <2>2
  <1>28. OneWriter(f, from2)
    <2> SUFFICES ASSUME NEW q1 \in Reqs, NEW q2 \in Reqs, NEW i \in DOMAIN f.blk[q1],
                        NEW j \in DOMAIN f.blk[q2], q1 # q2, ~Full(from2[q1], i), ~Full(from2[q2], j)
                 PROVE  f.blk[q1][i] # f.blk[q2][j]
      BY DEF OneWriter
    <2>1. CASE q1 = r
      BY <2>1, <1>0, <1>21, <1>27, SMTT(30) DEF blk
    <2>2. CASE q2 = r
      BY <2>2, <1>0, <1>21, <1>27 DEF blk
    <2>3. CASE q1 # r /\ q2 # r
      <3>1. /\ f.blk[q1] = e.blk[q1] /\ from2[q1] = from[q1]
            /\ f.blk[q2] = e.blk[q2] /\ from2[q2] = from[q2]
        BY <2>3, <1>0, <1>21
      <3>2. i \in DOMAIN e.blk[q1] /\ j \in DOMAIN e.blk[q2] /\ ~Full(from[q1], i) /\ ~Full(from[q2], j)
        BY <3>1
      <3>3. OneWriter(e, from)
        BY DEF Cached
      <3>4. e.blk[q1][i] # e.blk[q2][j]
        BY <3>2, <3>3 DEF OneWriter
      <3> QED
        BY <3>1, <3>4
    <2> QED
      BY <2>1, <2>2, <2>3
  <1> QED
    BY <1>24, <1>25, <1>26, <1>28 DEF Cached

\* A request goes on with the blocks it has.
LEMMA ContinuedCached ==
    ASSUME NEW size \in Nat \ {0}, NEW e, EngineOK(e, size), NEW from, NEW at, NEW from2, NEW at2,
           Cached(e, from, at), Sized(e, from, at), NEW r \in Reqs,
           at[r] = from[r], Len(e.blk[r]) = BlocksFor(from[r]),
           NEW n \in Nat, from[r] <= n, n <= TotalLen[r],
           NEW f, NEW fresh, Allocated(f, e, r, <<>>, fresh, n, size),
           Reset(from, at, from2, at2, r, from[r], n)
    PROVE  Cached(f, from2, at2)
  <1> DEFINE p == e.blk[r]
             c == from[r]
  <1>1. e.blk \in [Reqs -> Seq(1 .. size - 1)] /\ e.pool.free = (1 .. size - 1) \ Held(e)
    BY EngineFields
  <1>2. p \in Seq(1 .. size - 1) /\ DOMAIN p = 1 .. Len(p) /\ Len(p) \in Nat /\ c \in Nat
    BY <1>1 DEF Sized
  <1>3. Ready(e, from, at, r, p, c)
    <2> SUFFICES ASSUME NEW i \in DOMAIN p
                 PROVE  /\ e.hash[p[i]] = IF Full(c, i) THEN Key[r][i] ELSE None
                        /\ ~Full(c, i) => e.kv[p[i]] = Content(r, i, c)
                        /\ \A q \in Reqs : \A j \in DOMAIN e.blk[q] :
                             q # r /\ ~Full(c, i) /\ ~Full(from[q], j) => p[i] # e.blk[q][j]
      BY DEF Ready
    <2>1. i <= BlocksFor(c)
      BY <1>2
    <2> QED
      BY <2>1 DEF Cached, FiledTo, PartHeld, OneWriter
  <1>4. Grows(f, e, r, p, fresh, n, size)
    <2>1. Range(<<>>) = {} /\ Len(<<>>) = 0
      BY DEF Range
    <2>2. Range(p) \subseteq Held(e)
      BY DEF Held
    <2>3. e.pool.free \ Range(<<>>) = e.pool.free \ Range(p)
      BY <2>1, <2>2, <1>1
    <2>4. p \o <<>> = p
      BY <1>2
    <2>5. BlocksFor(n) - Len(p) - Len(<<>>) = BlocksFor(n) - Len(p)
      <3>1. BlocksFor(n) \in Nat
        BY BlocksForOK
      <3> QED
        BY <2>1, <3>1, <1>2
    <2> HIDE DEF p
    <2> QED
      BY <2>3, <2>4, <2>5 DEF Allocated, Grows, p
  <1>5. Reset(from, at, from2, at2, r, c, n) /\ c <= n
    OBVIOUS
  <1> HIDE DEF p, c
  <1> QED
    BY <1>2, <1>3, <1>4, <1>5, GrownCached

\* The tokens of k full blocks take k blocks.
LEMMA BlocksOfHits ==
    ASSUME NEW k \in Nat
    PROVE  k * BlockSize \in Nat /\ BlocksFor(k * BlockSize) = k
  <1>1. BlockSize \in Nat \ {0}
    BY DisaggAssumption
  <1>2. k * BlockSize \in Nat
    BY <1>1, Z3
  <1>3. k * BlockSize + BlockSize - 1 = BlockSize * k + (BlockSize - 1)
        /\ k * BlockSize + BlockSize - 1 \in Nat /\ BlockSize - 1 \in 0 .. BlockSize - 1
    BY <1>1, <1>2, Z3
  <1>4. (k * BlockSize + BlockSize - 1) \div BlockSize = k
    BY <1>1, <1>3, DivModUnique
  <1> QED
    BY <1>2, <1>4 DEF BlocksFor

\* A request starts with the blocks found in the prefix cache.
LEMMA StartedCached ==
    ASSUME NEW size \in Nat \ {0}, NEW e, EngineOK(e, size), NEW from, NEW at, NEW from2, NEW at2,
           Cached(e, from, at), Sized(e, from, at), NEW r \in Reqs, e.blk[r] = <<>>,
           NEW hit \in Seq(1 .. size - 1), \A i \in 1 .. Len(hit) : e.hash[hit[i]] = Key[r][i],
           NEW c, c = Len(hit) * BlockSize, NEW n \in Nat, c <= n, n <= TotalLen[r],
           NEW f, NEW fresh, Allocated(f, e, r, hit, fresh, n, size),
           Reset(from, at, from2, at2, r, c, n)
    PROVE  Cached(f, from2, at2)
  <1>1. DOMAIN hit = 1 .. Len(hit) /\ Len(hit) \in Nat
    OBVIOUS
  <1>2. c \in Nat /\ BlocksFor(c) = Len(hit)
    BY <1>1, BlocksOfHits
  <1>3. \A i \in DOMAIN hit : Full(c, i)
    <2> SUFFICES ASSUME NEW i \in DOMAIN hit
                 PROVE  Full(c, i)
      OBVIOUS
    <2>1. i \in Nat \ {0} /\ i <= Len(hit)
      BY <1>1
    <2>2. Full(i * BlockSize, i)
      BY <2>1, FullBlocks
    <2>3. i * BlockSize \in Nat /\ i * BlockSize <= c
      <3>1. BlockSize \in Nat
        BY DisaggAssumption
      <3> DEFINE k == Len(hit)
      <3>2. k \in Nat /\ i <= k /\ c = k * BlockSize
        BY <2>1, <1>1
      <3> HIDE DEF k
      <3> QED
        BY <3>1, <3>2, <2>1, Z3
    <2> QED
      BY <2>1, <2>2, <2>3, <1>2, FullBlocks
  <1>4. Ready(e, from, at, r, hit, c)
    BY <1>1, <1>2, <1>3 DEF Ready
  <1>5. Grows(f, e, r, hit, fresh, n, size)
    <2>1. e.blk[r] \o hit = hit /\ Len(e.blk[r]) = 0
      OBVIOUS
    <2>2. BlocksFor(n) - Len(e.blk[r]) - Len(hit) = BlocksFor(n) - Len(hit)
      <3>1. BlocksFor(n) \in Nat
        BY BlocksForOK
      <3> QED
        BY <2>1, <3>1, <1>1
    <2> QED
      BY <2>1, <2>2 DEF Allocated, Grows
  <1> QED
    BY <1>2, <1>4, <1>5, GrownCached

\* The blocks of the requests ran are filled with what they are filed for.
Filled(f, e, ran, from, at) ==
    /\ f.hash = e.hash /\ f.blk = e.blk /\ DOMAIN f.kv = DOMAIN e.kv
    /\ \A r \in ran : \A i \in DOMAIN e.blk[r] :
         ~Full(from[r], i) => f.kv[e.blk[r][i]] = Content(r, i, at[r])
    /\ \A b \in DOMAIN e.kv :
         (\A r \in ran : \A i \in DOMAIN e.blk[r] : e.blk[r][i] = b => Full(from[r], i))
           => f.kv[b] = e.kv[b]

\* execute_model: the KV of the tokens of a step is written.
LEMMA FilledCached ==
    ASSUME NEW size \in Nat \ {0}, NEW e, EngineOK(e, size), NEW from, NEW at, NEW at2,
           Cached(e, from, at), Sized(e, from, at), NEW ran \in SUBSET Reqs,
           \A r \in Reqs \ ran : e.blk[r] = <<>> \/ from[r] = at[r],
           \A r \in Reqs : e.blk[r] = <<>> \/ at2[r] = at[r],
           NEW f, Filled(f, e, ran, from, at)
    PROVE  Cached(f, at2, at2)
  <1>1. /\ e.blk \in [Reqs -> Seq(1 .. size - 1)] /\ DOMAIN e.hash = 0 .. size - 1
        /\ DOMAIN e.kv = 0 .. size - 1
    BY EngineFields
  <1>2. ASSUME NEW r \in Reqs, NEW i \in DOMAIN e.blk[r]
        PROVE  /\ i \in Nat \ {0} /\ from[r] \in Nat /\ at[r] \in Nat /\ at[r] <= TotalLen[r]
               /\ (Full(from[r], i) => Full(at[r], i)) /\ Key[r][i] # None
               /\ at2[r] = at[r] /\ (r \notin ran => from[r] = at[r])
               /\ e.blk[r][i] \in DOMAIN e.kv
    <2>1. e.blk[r] \in Seq(1 .. size - 1) /\ DOMAIN e.blk[r] = 1 .. Len(e.blk[r]) /\ Len(e.blk[r]) \in Nat
      BY <1>1
    <2>2. from[r] \in Nat /\ at[r] \in Nat /\ from[r] <= at[r]
          /\ Len(e.blk[r]) = BlocksFor(at[r]) /\ at[r] <= TotalLen[r]
      BY <2>1, <1>2 DEF Sized
    <2>3. i \in Nat \ {0} /\ i <= BlocksFor(at[r])
      BY <2>1, <2>2, <1>2
    <2>4. e.blk[r][i] \in DOMAIN e.kv
      BY <2>1, <1>1, <1>2
    <2>5. e.blk[r] # <<>>
      BY <2>1, <1>2
    <2> QED
      BY <2>2, <2>3, <2>4, <2>5, KeyAt, FullBlocks
  <1>3. /\ f.hash = e.hash /\ f.blk = e.blk
        /\ \A r \in ran : \A i \in DOMAIN e.blk[r] :
             ~Full(from[r], i) => f.kv[e.blk[r][i]] = Content(r, i, at[r])
        /\ \A b \in DOMAIN e.kv :
             (\A r \in ran : \A i \in DOMAIN e.blk[r] : e.blk[r][i] = b => Full(from[r], i))
               => f.kv[b] = e.kv[b]
    BY DEF Filled
  <1>4. FiledTo(e, at) /\ PartHeld(e, from) /\ Backed(e, from, at) /\ OneWriter(e, from)
    BY DEF Cached
  <1>5. FiledTo(f, at2)
    BY <1>2, <1>3, <1>4 DEF FiledTo
  <1>6. PartHeld(f, at2)
    <2> SUFFICES ASSUME NEW r \in Reqs, NEW i \in DOMAIN e.blk[r], ~Full(at[r], i), i <= BlocksFor(at[r])
                 PROVE  f.kv[e.blk[r][i]] = Content(r, i, at[r])
      BY <1>2, <1>3 DEF PartHeld
    <2>1. ~Full(from[r], i)
      BY <1>2
    <2>2. CASE r \in ran
      BY <2>1, <2>2, <1>3
    <2>3. CASE r \notin ran
      <3>1. from[r] = at[r] /\ e.blk[r][i] \in DOMAIN e.kv
        BY <2>3, <1>2
      <3>2. e.kv[e.blk[r][i]] = Content(r, i, at[r])
        BY <3>1, <1>4 DEF PartHeld
      <3>3. \A q \in ran : \A j \in DOMAIN e.blk[q] : e.blk[q][j] = e.blk[r][i] => Full(from[q], j)
        BY <2>1, <2>3, <1>4 DEF OneWriter
      <3> QED
        BY <3>1, <3>2, <3>3, <1>3
    <2> QED
      BY <2>2, <2>3
  <1>7. Backed(f, at2, at2)
    <2> SUFFICES ASSUME NEW b \in DOMAIN e.hash, e.hash[b] # None
                 PROVE  f.kv[b] = [key |-> e.hash[b], n |-> BlockSize]
      BY <1>3 DEF Backed
    <2>1. CASE \E r \in ran : \E i \in DOMAIN e.blk[r] : e.blk[r][i] = b /\ ~Full(from[r], i)
      <3>1. PICK r \in ran : \E i \in DOMAIN e.blk[r] : e.blk[r][i] = b /\ ~Full(from[r], i)
        BY <2>1
      <3>2. PICK i \in DOMAIN e.blk[r] : e.blk[r][i] = b /\ ~Full(from[r], i)
        BY <3>1
      <3>3. Full(at[r], i) /\ e.hash[b] = Key[r][i]
        BY <3>2, <1>4 DEF FiledTo
      <3>4. Content(r, i, at[r]) = [key |-> e.hash[b], n |-> BlockSize]
        BY <3>2, <3>3, <1>2, FullBlocks DEF Content
      <3> QED
        BY <3>2, <3>4, <1>3
    <2>2. CASE ~\E r \in ran : \E i \in DOMAIN e.blk[r] : e.blk[r][i] = b /\ ~Full(from[r], i)
      <3>1. b \in DOMAIN e.kv /\ f.kv[b] = e.kv[b]
        BY <2>2, <1>1, <1>3
      <3>2. ~ToFill(e, from, at, b)
        <4> SUFFICES ASSUME NEW r \in Reqs, NEW i \in DOMAIN e.blk[r], e.blk[r][i] = b,
                            ~Full(from[r], i), Full(at[r], i)
                     PROVE  FALSE
          BY DEF ToFill
        <4> QED
          BY <2>2, <1>2
      <3> QED
        BY <3>1, <3>2, <1>4 DEF Backed
    <2> QED
      BY <2>1, <2>2
  <1>8. OneWriter(f, at2)
    <2> SUFFICES ASSUME NEW r \in Reqs, NEW q \in Reqs, NEW i \in DOMAIN e.blk[r], NEW j \in DOMAIN e.blk[q],
                        r # q, ~Full(at2[r], i), ~Full(at2[q], j)
                 PROVE  e.blk[r][i] # e.blk[q][j]
      BY <1>3 DEF OneWriter
    <2>1. ~Full(from[r], i) /\ ~Full(from[q], j)
      BY <1>2
    <2> QED
      BY <2>1, <1>4 DEF OneWriter
  <1> QED
    BY <1>5, <1>6, <1>7, <1>8 DEF Cached

\* Requests leave, and nothing else changes.
LEMMA KeptCached ==
    ASSUME NEW e, NEW from, NEW at, Cached(e, from, at), NEW f, NEW from2, NEW at2,
           f.hash = e.hash, f.kv = e.kv,
           \A r \in Reqs : \/ f.blk[r] = <<>> /\ (e.blk[r] = <<>> \/ from[r] = at[r])
                           \/ f.blk[r] = e.blk[r] /\ from2[r] = from[r] /\ at2[r] = at[r]
    PROVE  Cached(f, from2, at2)
  <1>0. FiledTo(e, at) /\ PartHeld(e, from) /\ Backed(e, from, at) /\ OneWriter(e, from)
    BY DEF Cached
  <1>1. ASSUME NEW r \in Reqs, NEW i \in DOMAIN f.blk[r]
        PROVE  f.blk[r] = e.blk[r] /\ from2[r] = from[r] /\ at2[r] = at[r] /\ i \in DOMAIN e.blk[r]
    BY <1>1
  <1>2. FiledTo(f, at2)
    BY <1>0, <1>1 DEF FiledTo
  <1>3. PartHeld(f, from2)
    BY <1>0, <1>1 DEF PartHeld
  <1>4. OneWriter(f, from2)
    <2> SUFFICES ASSUME NEW r \in Reqs, NEW q \in Reqs, NEW i \in DOMAIN f.blk[r], NEW j \in DOMAIN f.blk[q],
                        r # q, ~Full(from2[r], i), ~Full(from2[q], j)
                 PROVE  f.blk[r][i] # f.blk[q][j]
      BY DEF OneWriter
    <2>1. /\ f.blk[r] = e.blk[r] /\ from2[r] = from[r] /\ i \in DOMAIN e.blk[r]
          /\ f.blk[q] = e.blk[q] /\ from2[q] = from[q] /\ j \in DOMAIN e.blk[q]
      BY <1>1
    <2>2. ~Full(from[r], i) /\ ~Full(from[q], j)
      BY <2>1
    <2>3. e.blk[r][i] # e.blk[q][j]
      BY <2>1, <2>2, <1>0 DEF OneWriter
    <2> QED
      BY <2>1, <2>3
  <1>5. ASSUME NEW b, ToFill(e, from, at, b)
        PROVE  ToFill(f, from2, at2, b)
    <2>1. PICK r \in Reqs : \E i \in DOMAIN e.blk[r] :
            e.blk[r][i] = b /\ ~Full(from[r], i) /\ Full(at[r], i)
      BY <1>5 DEF ToFill
    <2>2. e.blk[r] # <<>> /\ from[r] # at[r]
      BY <2>1
    <2>3. f.blk[r] = e.blk[r] /\ from2[r] = from[r] /\ at2[r] = at[r]
      BY <2>2
    <2> QED
      BY <2>1, <2>3 DEF ToFill
  <1>6. Backed(f, from2, at2)
    BY <1>0, <1>5 DEF Backed
  <1> QED
    BY <1>2, <1>3, <1>4, <1>6 DEF Cached

\* The model fills the blocks of the requests it runs: no two of them write
\* the same one.
LEMMA ComputedFills ==
    ASSUME NEW size \in Nat \ {0}, NEW e, EngineOK(e, size), NEW from, NEW at,
           Cached(e, from, at), Sized(e, from, at), NEW ran \in SUBSET Reqs,
           \A r \in ran : Len(e.blk[r]) = BlocksFor(at[r]) /\ BlocksFor(at[r]) <= size,
           NEW kv, Computed(e, ran, from, at) = [e EXCEPT !.kv = kv]
    PROVE  Filled(Computed(e, ran, from, at), e, ran, from, at)
  <1> DEFINE Writes(b) == {w \in ran \X (1 .. e.size) :
                      /\ w[2] \in (from[w[1]] \div BlockSize) + 1 .. BlocksFor(at[w[1]])
                      /\ e.blk[w[1]][w[2]] = b}
             New(b) == LET w == CHOOSE w \in Writes(b) : TRUE
                       IN  [key |-> Key[w[1]][w[2]],
                            n   |-> Least(at[w[1]] - (w[2] - 1) * BlockSize, BlockSize)]
             kv2 == [b \in DOMAIN e.kv |-> IF Writes(b) = {} THEN e.kv[b] ELSE New(b)]
             f == [e EXCEPT !.kv = kv2]
  <1>1. Computed(e, ran, from, at) = f
    BY DEF Computed
  <1>2. /\ e \in EngineType(size) /\ e.size = size /\ e.blk \in [Reqs -> Seq(1 .. size - 1)]
        /\ e.kv \in [0 .. size - 1 -> KVs]
    BY EngineFields
  <1>3. ASSUME NEW r \in ran, NEW i
        PROVE  /\ i \in 1 .. e.size /\ i \in (from[r] \div BlockSize) + 1 .. BlocksFor(at[r])
                 <=> i \in DOMAIN e.blk[r] /\ ~Full(from[r], i)
    <2>1. e.blk[r] \in Seq(1 .. size - 1) /\ from[r] \in Nat /\ at[r] \in Nat
      BY <1>2 DEF Sized
    <2>2. Len(e.blk[r]) = BlocksFor(at[r]) /\ BlocksFor(at[r]) <= size
      BY <1>3
    <2>3. DOMAIN e.blk[r] = 1 .. BlocksFor(at[r])
      BY <2>1, <2>2
    <2>4. from[r] \div BlockSize \in Nat /\ BlocksFor(at[r]) \in Nat
      BY <2>1, BlocksForOK
    <2> QED
      BY <1>2, <2>2, <2>3, <2>4 DEF Full
  <1>4. \A r \in Reqs : IsInjective(e.blk[r])
    BY DistinctBlocks DEF Cached
  <1>5. ASSUME NEW b, NEW w \in Writes(b)
        PROVE  w[1] \in ran /\ w[2] \in DOMAIN e.blk[w[1]] /\ ~Full(from[w[1]], w[2]) /\ e.blk[w[1]][w[2]] = b
    <2>1. /\ w[1] \in ran /\ w[2] \in 1 .. e.size /\ e.blk[w[1]][w[2]] = b
          /\ w[2] \in (from[w[1]] \div BlockSize) + 1 .. BlocksFor(at[w[1]])
      BY <1>5
    <2> QED
      BY <2>1, <1>3
  <1>6. ASSUME NEW r \in ran, NEW i \in DOMAIN e.blk[r], ~Full(from[r], i)
        PROVE  <<r, i>> \in Writes(e.blk[r][i])
    BY <1>3, <1>6
  <1> HIDE DEF Writes
  <1>7. ASSUME NEW r \in ran, NEW i \in DOMAIN e.blk[r], ~Full(from[r], i)
        PROVE  kv2[e.blk[r][i]] = Content(r, i, at[r])
    <2> DEFINE b == e.blk[r][i]
               w == CHOOSE w \in Writes(b) : TRUE
    <2>1. w \in Writes(b) /\ Writes(b) # {}
      BY <1>6, <1>7
    <2>2. b \in DOMAIN e.kv
      <3>1. e.blk[r] \in Seq(1 .. size - 1)
        BY <1>2
      <3>2. b \in 1 .. size - 1
        BY <3>1, SMTT(30)
      <3> HIDE DEF b
      <3> QED
        BY <3>2, <1>2
    <2>3. kv2[b] = [key |-> Key[w[1]][w[2]], n |-> Least(at[w[1]] - (w[2] - 1) * BlockSize, BlockSize)]
      BY <2>1, <2>2
    <2> HIDE DEF w, b
    <2>4. w[1] \in ran /\ w[2] \in DOMAIN e.blk[w[1]] /\ ~Full(from[w[1]], w[2]) /\ e.blk[w[1]][w[2]] = b
      BY <2>1, <1>5
    <2>5. w[1] = r
      BY <2>4, <1>7 DEF b, Cached, OneWriter
    <2>6. w[2] = i
      <3>1. w[2] \in DOMAIN e.blk[r] /\ e.blk[r][w[2]] = e.blk[r][i]
        BY <2>4, <2>5 DEF b
      <3> QED
        BY <3>1, <1>4, <1>7 DEF IsInjective
    <2> QED
      BY <2>3, <2>5, <2>6 DEF b, Content
  <1>8. ASSUME NEW b \in DOMAIN e.kv,
               \A r \in ran : \A i \in DOMAIN e.blk[r] : e.blk[r][i] = b => Full(from[r], i)
        PROVE  kv2[b] = e.kv[b]
    <2>1. Writes(b) = {}
      BY <1>5, <1>8
    <2> QED
      BY <2>1
  <1>9. DOMAIN kv2 = DOMAIN e.kv
    OBVIOUS
  <1> HIDE DEF kv2
  <1>10. f.hash = e.hash /\ f.blk = e.blk /\ f.kv = kv2
    BY <1>2 DEF EngineType
  <1> HIDE DEF f
  <1> QED
    BY <1>1, <1>7, <1>8, <1>9, <1>10 DEF Filled

\* Outside a step every block of a request holds its tokens.
LEMMA HeldContent ==
    ASSUME NEW size \in Nat \ {0}, NEW e, EngineOK(e, size), NEW from, NEW at,
           Cached(e, from, at), Sized(e, from, at), \A q \in Reqs : at[q] = from[q],
           NEW r \in Reqs
    PROVE  \A i \in DOMAIN e.blk[r] : e.kv[e.blk[r][i]] = Content(r, i, from[r])
  <1> SUFFICES ASSUME NEW i \in DOMAIN e.blk[r]
               PROVE  e.kv[e.blk[r][i]] = Content(r, i, from[r])
    OBVIOUS
  <1> DEFINE b == e.blk[r][i]
  <1>1. e.blk[r] \in Seq(1 .. size - 1) /\ DOMAIN e.hash = 0 .. size - 1
    <2>1. e.blk \in [Reqs -> Seq(1 .. size - 1)] /\ e.hash \in [0 .. size - 1 -> Keys]
      BY EngineFields
    <2> QED
      BY <2>1
  <1>2. e.blk[r] # <<>> /\ from[r] \in Nat /\ Len(e.blk[r]) = BlocksFor(from[r]) /\ from[r] <= TotalLen[r]
    <2>1. e.blk[r] # <<>>
      OBVIOUS
    <2> QED
      BY <2>1 DEF Sized
  <1>3. i \in Nat \ {0} /\ i <= BlocksFor(from[r])
    <2>1. DOMAIN e.blk[r] = 1 .. Len(e.blk[r]) /\ Len(e.blk[r]) \in Nat
      BY <1>1
    <2> QED
      BY <2>1, <1>2
  <1>4. CASE ~Full(from[r], i)
    BY <1>3, <1>4 DEF Cached, PartHeld
  <1>5. CASE Full(from[r], i)
    <2>1. b \in DOMAIN e.hash
      <3>1. b \in 1 .. size - 1
        BY <1>1
      <3> HIDE DEF b
      <3> QED
        BY <3>1, <1>1
    <2>2. e.hash[b] = Key[r][i] /\ Key[r][i] # None
      BY <1>2, <1>3, <1>5, KeyAt DEF Cached, FiledTo
    <2>3. ~ToFill(e, from, at, b)
      BY DEF ToFill
    <2>4. e.kv[b] = [key |-> e.hash[b], n |-> BlockSize]
      BY <2>1, <2>2, <2>3 DEF Cached, Backed
    <2> QED
      BY <2>2, <2>4, <1>2, <1>3, <1>5, FullBlocks DEF Content
  <1> QED
    BY <1>4, <1>5

-----------------------------------------------------------------------------
(* The KV caches of the engines and of the items between them              *)

\* The tokens of each request that are computed, and those the engine's step
\* is going to have computed.
DTo(d) == [r \in Reqs |-> obj[r].comp + dstep[d].num[r]]

\* An item carries the KV of its request's prompt.
ExactItems ==
    {it \in Items :
       it.kv = [i \in 1 .. BlocksFor(PromptLen[it.r]) |-> Content(it.r, i, PromptLen[it.r])]}
CarriedExact ==
    /\ pstep.map \in Seq(ExactItems) /\ tq \in Seq(Seq(ExactItems))
    /\ hand \in Seq([d : Decoders, it : ExactItems]) /\ dq \in [Decoders -> Seq(ExactItems)]

PCached    == Cached(pre, From, PTo)
DCached(d) == Cached(dec[d], From, DTo(d))
KVInv == PCached /\ (\A d \in Decoders : DCached(d)) /\ CarriedExact

\* In the prefill engine a request has the blocks of the tokens scheduled.
LEMMA SizedPre ==
    ASSUME Inv
    PROVE  /\ EngineOK(pre, PBlocks) /\ PBlocks \in Nat \ {0} /\ Sized(pre, From, PTo)
           /\ \A r \in Reqs : r \notin Range(pre.run) => pre.blk[r] = <<>>
           /\ \A r \in Reqs : r \in Range(pre.run) =>
                Len(pre.blk[r]) = BlocksFor(PTo[r]) /\ BlocksFor(PTo[r]) <= PBlocks
  <1>1. /\ PBlocks \in Nat \ {0} /\ EngineOK(pre, PBlocks) /\ obj \in Objects /\ pstep \in PSteps /\ Prefilling
    BY DisaggAssumption DEF Inv, Typed
  <1>2. ASSUME NEW r \in Reqs
        PROVE  obj[r].comp \in Nat /\ Reach(r) \in Nat /\ obj[r].comp <= Reach(r)
               /\ From[r] = obj[r].comp /\ PTo[r] = Reach(r)
    <2>1. obj[r].comp \in Nat /\ pstep.num[r] \in Nat
      BY <1>1 DEF Objects, PSteps
    <2> QED
      BY <2>1 DEF Reach, From, PTo
  <1>3. ASSUME NEW r \in Reqs, r \in Range(pre.run)
        PROVE  Len(pre.blk[r]) = BlocksFor(PTo[r]) /\ PTo[r] <= TotalLen[r] /\ BlocksFor(PTo[r]) <= PBlocks
    <2>1. Len(pre.blk[r]) = BlocksFor(Reach(r)) /\ Reach(r) <= PromptLen[r]
      BY <1>1, <1>3 DEF Prefilling, PrefillOne
    <2>2. PromptLen[r] \in Nat /\ TotalLen[r] \in Nat /\ PromptLen[r] < TotalLen[r]
          /\ BlocksFor(PromptLen[r]) < PBlocks
      BY KeyOK, DisaggAssumption
    <2>3. BlocksFor(Reach(r)) <= BlocksFor(PromptLen[r]) /\ BlocksFor(Reach(r)) \in Nat
          /\ BlocksFor(PromptLen[r]) \in Nat
      BY <1>2, <2>1, <2>2, BlocksForMonotone, BlocksForOK
    <2> QED
      BY <1>1, <1>2, <2>1, <2>2, <2>3
  <1>4. \A r \in Reqs : r \notin Range(pre.run) => pre.blk[r] = <<>>
    BY <1>1 DEF Prefilling
  <1>5. Sized(pre, From, PTo)
    BY <1>2, <1>3, <1>4 DEF Sized
  <1> QED
    BY <1>1, <1>3, <1>4, <1>5

\* So it has in a decode engine.
LEMMA SizedDec ==
    ASSUME Inv, NEW d \in Decoders
    PROVE  /\ EngineOK(dec[d], DBlocks) /\ DBlocks \in Nat \ {0} /\ Sized(dec[d], From, DTo(d))
           /\ \A r \in Reqs : r \notin Range(dec[d].run) => dec[d].blk[r] = <<>>
           /\ \A r \in Reqs : r \in Range(dec[d].run) =>
                Len(dec[d].blk[r]) = BlocksFor(DTo(d)[r]) /\ BlocksFor(DTo(d)[r]) <= DBlocks
  <1>1. /\ DBlocks \in Nat \ {0} /\ EngineOK(dec[d], DBlocks) /\ obj \in Objects /\ dstep[d] \in DSteps
        /\ DecodingAt(d)
    BY DisaggAssumption, DecodeBegins DEF DecodeFacts
  <1>2. ASSUME NEW r \in Reqs
        PROVE  From[r] \in Nat /\ DTo(d)[r] \in Nat /\ From[r] <= DTo(d)[r]
               /\ DTo(d)[r] = obj[r].comp + dstep[d].num[r]
    <2>1. obj[r].comp \in Nat /\ dstep[d].num[r] \in Nat
      BY <1>1 DEF Objects, DSteps
    <2> QED
      BY <2>1 DEF From, DTo
  <1>3. ASSUME NEW r \in Reqs, r \in Range(dec[d].run)
        PROVE  Len(dec[d].blk[r]) = BlocksFor(DTo(d)[r]) /\ DTo(d)[r] <= TotalLen[r]
               /\ BlocksFor(DTo(d)[r]) <= DBlocks
    <2>1. DecodeOne(d, r)
      BY <1>1, <1>3 DEF DecodingAt
    <2>2. NumTokens(r) <= TotalLen[r]
      BY <1>3, InDecoder DEF Inv
    <2>3. NumTokens(r) \in Nat /\ TotalLen[r] \in Nat /\ BlocksFor(TotalLen[r]) < DBlocks
      <3>1. obj[r].out \in Seq(Nat) /\ PromptLen[r] \in Nat
        BY <1>1, KeyOK DEF Objects
      <3>2. Len(obj[r].out) \in Nat
        BY <3>1
      <3> QED
        BY <3>1, <3>2, KeyOK, DisaggAssumption DEF NumTokens
    <2>4. DTo(d)[r] <= TotalLen[r]
      BY <1>2, <2>1, <2>2, <2>3 DEF DecodeOne
    <2>5. BlocksFor(DTo(d)[r]) <= BlocksFor(TotalLen[r]) /\ BlocksFor(DTo(d)[r]) \in Nat
          /\ BlocksFor(TotalLen[r]) \in Nat
      BY <1>2, <2>3, <2>4, BlocksForMonotone, BlocksForOK
    <2> QED
      BY <1>1, <1>2, <2>1, <2>3, <2>4, <2>5 DEF DecodeOne
  <1>4. \A r \in Reqs : r \notin Range(dec[d].run) => dec[d].blk[r] = <<>>
    BY <1>1 DEF DecodingAt
  <1>5. Sized(dec[d], From, DTo(d))
    BY <1>2, <1>3, <1>4 DEF Sized
  <1> QED
    BY <1>1, <1>3, <1>4, <1>5

\* A step that leaves an engine's blocks alone, and the progress of the
\* requests that have some.
LEMMA PreSame ==
    ASSUME Inv, PCached, pre'.hash = pre.hash, pre'.kv = pre.kv, pre'.blk = pre.blk,
           \A q \in Reqs : q \in Range(pre.run) => obj'[q].comp = obj[q].comp /\ Reach(q)' = Reach(q)
    PROVE  PCached'
  <1>1. \A q \in Reqs : q \notin Range(pre.run) => pre.blk[q] = <<>>
    BY SizedPre
  <1>2. \A q \in Reqs : /\ From[q] = obj[q].comp /\ PTo[q] = Reach(q)
                        /\ From'[q] = obj'[q].comp /\ PTo'[q] = Reach(q)'
    BY DEF From, PTo
  <1>3. \A q \in Reqs : \/ pre'.blk[q] = <<>> /\ (pre.blk[q] = <<>> \/ From[q] = PTo[q])
                        \/ pre'.blk[q] = pre.blk[q] /\ From'[q] = From[q] /\ PTo'[q] = PTo[q]
    BY <1>1, <1>2
  <1>4. Cached(pre', From', PTo')
    BY <1>3, KeptCached DEF PCached
  <1> QED
    BY <1>4 DEF PCached

\* A decode engine that keeps its blocks, with the tokens of its requests.
LEMMA DecSame ==
    ASSUME Inv, NEW d \in Decoders, DCached(d),
           dec'[d].hash = dec[d].hash, dec'[d].kv = dec[d].kv, dec'[d].blk = dec[d].blk,
           \A q \in Reqs : q \in Range(dec[d].run) =>
             obj'[q].comp = obj[q].comp /\ dstep'[d].num[q] = dstep[d].num[q]
    PROVE  DCached(d)'
  <1>1. \A q \in Reqs : q \notin Range(dec[d].run) => dec[d].blk[q] = <<>>
    BY SizedDec
  <1>2. \A q \in Reqs : /\ From[q] = obj[q].comp /\ DTo(d)[q] = obj[q].comp + dstep[d].num[q]
                        /\ From'[q] = obj'[q].comp /\ (DTo(d)')[q] = obj'[q].comp + dstep'[d].num[q]
    BY DEF From, DTo
  <1>3. \A q \in Reqs :
          \/ dec'[d].blk[q] = <<>> /\ (dec[d].blk[q] = <<>> \/ From[q] = DTo(d)[q])
          \/ dec'[d].blk[q] = dec[d].blk[q] /\ From'[q] = From[q] /\ (DTo(d)')[q] = DTo(d)[q]
    BY <1>1, <1>2
  <1>4. Cached(dec'[d], From', DTo(d)')
    BY <1>3, KeptCached DEF DCached
  <1> QED
    BY <1>4 DEF DCached

\* Nothing is filed at first.
LEMMA KVInit ==
    ASSUME Init
    PROVE  KVInv
  <1>1. /\ pre = Engine(PBlocks) /\ PBlocks \in Nat \ {0} /\ DBlocks \in Nat \ {0}
        /\ dec = [d \in Decoders |-> Engine(DBlocks)]
        /\ pstep.map = <<>> /\ tq = <<>> /\ hand = <<>> /\ dq = [d \in Decoders |-> <<>>]
    BY DisaggAssumption DEF Init, PIdle
  <1>2. ASSUME NEW size \in Nat \ {0}, NEW from, NEW at
        PROVE  Cached(Engine(size), from, at)
    <2>1. Engine(size).blk = [r \in Reqs |-> <<>>] /\ Engine(size).hash = [b \in 0 .. size - 1 |-> None]
      BY EngineInit
    <2>2. \A r \in Reqs : Engine(size).blk[r] = <<>> /\ DOMAIN Engine(size).blk[r] = {}
      BY <2>1
    <2>3. \A b \in DOMAIN Engine(size).hash : Engine(size).hash[b] = None
      BY <2>1
    <2> QED
      BY <2>2, <2>3 DEF Cached, FiledTo, PartHeld, Backed, OneWriter
  <1>3. PCached /\ \A d \in Decoders : DCached(d)
    BY <1>1, <1>2 DEF PCached, DCached
  <1>4. CarriedExact
    <2>1. <<>> \in Seq(ExactItems) /\ <<>> \in Seq(Seq(ExactItems))
          /\ <<>> \in Seq([d : Decoders, it : ExactItems])
      OBVIOUS
    <2> QED
      BY <1>1, <2>1 DEF CarriedExact
  <1> QED
    BY <1>3, <1>4 DEF KVInv

\* A step that computes nothing and gives no blocks away.
LEMMA KVFrame ==
    ASSUME Inv, KVInv, pre'.hash = pre.hash, pre'.kv = pre.kv, pre'.blk = pre.blk, dec' = dec,
           \A q \in Reqs : obj'[q].comp = obj[q].comp,
           \A q \in Reqs : q \in Range(pre.run) => Reach(q)' = Reach(q),
           \A d \in Decoders : dstep'[d].num = dstep[d].num, CarriedExact'
    PROVE  KVInv'
  <1>1. PCached'
    BY PreSame DEF KVInv
  <1>2. \A d \in Decoders : DCached(d)'
    BY DecSame DEF KVInv
  <1> QED
    BY <1>1, <1>2 DEF KVInv

\* The client's thread puts a request in the prefill engine's queue.
LEMMA AddRequestKV ==
    ASSUME Inv, KVInv, NEW r \in Reqs, AddRequest(r)
    PROVE  KVInv'
  <1>1. /\ obj' = [obj EXCEPT ![r].st = "new"] /\ pre' = [pre EXCEPT !.wait = Append(@, r)]
        /\ pstep' = pstep /\ tq' = tq /\ hand' = hand /\ dq' = dq /\ dec' = dec /\ dstep' = dstep
    BY DEF AddRequest
  <1>2. obj \in Objects /\ pre \in EngineType(PBlocks)
    BY DEF Inv, Typed, EngineOK
  <1>3. \A q \in Reqs : obj'[q].comp = obj[q].comp
    BY <1>1, <1>2 DEF Objects
  <1>4. pre'.hash = pre.hash /\ pre'.kv = pre.kv /\ pre'.blk = pre.blk
    BY <1>1, <1>2 DEF EngineType
  <1>5. CarriedExact'
    BY <1>1 DEF KVInv, CarriedExact
  <1>6. \A q \in Reqs : Reach(q)' = Reach(q)
    BY <1>1, <1>3 DEF Reach
  <1> QED
    BY <1>1, <1>3, <1>4, <1>5, <1>6, KVFrame

\* The client's thread enters it in _requests.
LEMMA TrackRequestKV ==
    ASSUME Inv, KVInv, TrackRequest
    PROVE  KVInv'
  <1>1. /\ obj' = obj /\ pre' = pre /\ pstep' = pstep /\ tq' = tq /\ hand' = hand /\ dq' = dq
        /\ dec' = dec /\ dstep' = dstep
    BY DEF TrackRequest
  <1>2. CarriedExact'
    BY <1>1 DEF KVInv, CarriedExact
  <1>3. \A q \in Reqs : Reach(q)' = Reach(q)
    BY <1>1 DEF Reach
  <1> QED
    BY <1>1, <1>2, <1>3, KVFrame

\* A prefill step begins.
LEMMA PBeginKV ==
    ASSUME Inv, KVInv, PBegin
    PROVE  KVInv'
  <1>1. /\ pstep.pc = "top" /\ obj' = obj /\ pre' = pre /\ tq' = tq /\ hand' = hand /\ dq' = dq
        /\ dec' = dec /\ dstep' = dstep
        /\ pstep'.num = [r \in Reqs |-> 0] /\ pstep'.map = <<>>
    BY DEF PBegin, PIdle
  <1>2. obj \in Objects
    BY DEF Inv, Typed
  <1>3. CarriedExact'
    BY <1>1 DEF KVInv, CarriedExact
  <1>4. ASSUME NEW q \in Reqs
        PROVE  Reach(q)' = Reach(q)
    <2>1. obj[q].comp \in Nat
      BY <1>2 DEF Objects
    <2> QED
      BY <1>1, <2>1 DEF Reach
  <1> QED
    BY <1>1, <1>3, <1>4, KVFrame

\* The prefill thread goes back to the top of its loop.
LEMMA POutputKV ==
    ASSUME Inv, KVInv, POutput
    PROVE  KVInv'
  <1>1. /\ pstep.pc = "remove" /\ obj' = obj /\ pre' = pre /\ tq' = tq /\ hand' = hand /\ dq' = dq
        /\ dec' = dec /\ dstep' = dstep
        /\ pstep'.pc = "top" /\ pstep'.map = <<>>
    BY DEF POutput, PIdle
  <1>2. obj \in Objects
    BY DEF Inv, Typed
  <1>3. CarriedExact'
    BY <1>1 DEF KVInv, CarriedExact
  <1>4. \A q \in Reqs : Reach(q)' = Reach(q)
    BY <1>1, <1>2 DEF Reach, Objects
  <1> QED
    BY <1>1, <1>3, <1>4, KVFrame

\* kv_cache_map carries what the blocks of the sampled requests hold.
LEMMA PGatherKV ==
    ASSUME Inv, KVInv, PGather
    PROVE  KVInv'
  <1> DEFINE N == Len(pstep.sampled)
             Item(i) == [r |-> pstep.sampled[i], kv |-> Gathered(pre, pstep.sampled[i])]
  <1>1. /\ pstep.pc = "gather" /\ obj' = obj /\ pre' = pre /\ tq' = tq /\ hand' = hand /\ dq' = dq
        /\ dec' = dec /\ dstep' = dstep
        /\ pstep' = [pstep EXCEPT !.pc = "put", !.map = [i \in DOMAIN pstep.sampled |-> Item(i)]]
    BY DEF PGather, Gathered
  <1>2. pstep \in PSteps /\ pstep.sampled \in Seq(Reqs) /\ PCached /\ CarriedExact /\ Tracked /\ obj \in Objects
    BY DEF Inv, Typed, PSteps, KVInv
  <1>3. DOMAIN pstep.sampled = 1 .. N /\ N \in Nat /\ \A i \in 1 .. N : pstep.sampled[i] \in Reqs
    BY <1>2
  <1>4. \A q \in Reqs : PTo[q] = From[q]
    BY <1>1, <1>2 DEF PTo, From, Reach, Objects
  <1>5. ASSUME NEW i \in 1 .. N
        PROVE  Item(i) \in ExactItems
    <2> DEFINE r == pstep.sampled[i]
               n == PromptLen[r]
    <2>1. r \in Reqs /\ Sampled(r)
      BY <1>3 DEF Sampled, Range
    <2> HIDE DEF r
    <2>2. r \in Range(pre.run) /\ From[r] = n
      BY <2>1, <1>1, <1>2 DEF Tracked, TrackedAt, LeavingAt, From
    <2>3. pre.blk[r] \in Seq(1 .. PBlocks - 1) /\ Len(pre.blk[r]) = BlocksFor(n)
      <3>1. pre.blk \in [Reqs -> Seq(1 .. PBlocks - 1)]
        BY SizedPre, EngineFields
      <3>2. Len(pre.blk[r]) = BlocksFor(PTo[r])
        BY <2>1, <2>2, SizedPre
      <3> QED
        BY <3>1, <3>2, <2>1, <2>2, <1>4
    <2>4. DOMAIN pre.blk[r] = 1 .. BlocksFor(n)
      BY <2>3
    <2>5. \A j \in 1 .. BlocksFor(n) : pre.kv[pre.blk[r][j]] = Content(r, j, n)
      <3>1. Cached(pre, From, PTo) /\ Sized(pre, From, PTo) /\ EngineOK(pre, PBlocks) /\ PBlocks \in Nat \ {0}
        BY <1>2, SizedPre DEF PCached
      <3>2. \A j \in DOMAIN pre.blk[r] : pre.kv[pre.blk[r][j]] = Content(r, j, From[r])
        BY <3>1, <2>1, <1>4, HeldContent
      <3> QED
        BY <3>2, <2>2, <2>4
    <2>6. Gathered(pre, r) = [j \in 1 .. BlocksFor(n) |-> Content(r, j, n)]
      BY <2>4, <2>5 DEF Gathered
    <2>7. Gathered(pre, r) \in Seq(KVs)
      BY <2>1, SizedPre, GatheredOK
    <2> DEFINE it == [r |-> r, kv |-> Gathered(pre, r)]
    <2>8. it \in Items /\ it.r = r /\ it.kv = Gathered(pre, r) /\ Item(i) = it
      BY <2>1, <2>7 DEF Items, r
    <2> HIDE DEF it, n, Item
    <2> QED
      BY <2>6, <2>8 DEF ExactItems, n
  <1> DEFINE map == [i \in 1 .. N |-> Item(i)]
  <1>6. map \in Seq(ExactItems)
    <2> HIDE DEF Item
    <2>1. map \in [1 .. N -> ExactItems]
      BY <1>5
    <2> HIDE DEF map
    <2> QED
      BY <2>1, <1>3
  <1>7. pstep' = [pstep EXCEPT !.pc = "put", !.map = map]
    BY <1>1, <1>3
  <1> HIDE DEF map, Item
  <1>8. pstep'.pc = "put" /\ pstep'.map = map
    BY <1>2, <1>7 DEF PSteps
  <1>9. CarriedExact'
    BY <1>1, <1>2, <1>6, <1>8 DEF CarriedExact
  <1>10. \A q \in Reqs : Reach(q)' = Reach(q)
    BY <1>1, <1>8 DEF Reach
  <1> QED
    BY <1>1, <1>9, <1>10, KVFrame

\* The prefill thread hands kv_cache_map to the transfer thread.
LEMMA PPutKV ==
    ASSUME Inv, KVInv, PPut
    PROVE  KVInv'
  <1>1. /\ pstep.pc = "put" /\ tq' = Append(tq, pstep.map)
        /\ pstep' = [pstep EXCEPT !.pc = "update", !.map = <<>>]
        /\ obj' = obj /\ pre' = pre /\ hand' = hand /\ dq' = dq /\ dec' = dec /\ dstep' = dstep
    BY DEF PPut
  <1>2. pstep \in PSteps /\ CarriedExact
    BY DEF Inv, Typed, KVInv
  <1>3. pstep'.pc = "update" /\ pstep'.map = <<>>
    BY <1>1, <1>2 DEF PSteps
  <1>4. tq' \in Seq(Seq(ExactItems))
    <2>1. tq \in Seq(Seq(ExactItems)) /\ pstep.map \in Seq(ExactItems)
      BY <1>2 DEF CarriedExact
    <2> QED
      BY <2>1, <1>1, AppendProperties
  <1>5. CarriedExact'
    <2>1. <<>> \in Seq(ExactItems)
      OBVIOUS
    <2> QED
      BY <2>1, <1>1, <1>2, <1>3, <1>4 DEF CarriedExact
  <1>6. \A q \in Reqs : Reach(q)' = Reach(q)
    BY <1>1, <1>3 DEF Reach
  <1> QED
    BY <1>1, <1>5, <1>6, KVFrame

\* The transfer thread takes a kv_cache_map and chooses the decode engine.
LEMMA TGetKV ==
    ASSUME Inv, KVInv, TGet
    PROVE  KVInv'
  <1>1. /\ tq # <<>> /\ tq' = Tail(tq)
        /\ hand' = [i \in DOMAIN Head(tq) |-> [d |-> Target, it |-> Head(tq)[i]]]
        /\ obj' = obj /\ pre' = pre /\ pstep' = pstep /\ dq' = dq /\ dec' = dec /\ dstep' = dstep
    BY DEF TGet
  <1>2. tq \in Seq(Seq(ExactItems)) /\ CarriedExact
    BY DEF KVInv, CarriedExact
  <1>3. Head(tq) \in Seq(ExactItems) /\ Tail(tq) \in Seq(Seq(ExactItems))
    BY <1>1, <1>2, ItemsTail
  <1>4. PICK t, m : t = Target /\ m = Head(tq)
    OBVIOUS
  <1>5. t \in Decoders
    BY <1>4, TargetOK DEF Inv
  <1>6. hand' = [i \in DOMAIN m |-> [d |-> t, it |-> m[i]]] /\ m \in Seq(ExactItems)
    BY <1>1, <1>3, <1>4
  <1>7. hand' \in Seq([d : Decoders, it : ExactItems])
    <2>1. DOMAIN m = 1 .. Len(m) /\ Len(m) \in Nat /\ \A i \in 1 .. Len(m) : m[i] \in ExactItems
      BY <1>6
    <2> DEFINE S == [d : Decoders, it : ExactItems]
               k == Len(m)
    <2>2. hand' \in [1 .. k -> S] /\ k \in Nat
      BY <2>1, <1>5, <1>6
    <2> HIDE DEF S, k
    <2>3. hand' \in Seq(S)
      BY <2>2
    <2> QED
      BY <2>3 DEF S
  <1>8. CarriedExact'
    BY <1>1, <1>2, <1>3, <1>7 DEF CarriedExact
  <1>9. \A q \in Reqs : Reach(q)' = Reach(q)
    BY <1>1 DEF Reach
  <1> QED
    BY <1>1, <1>8, <1>9, KVFrame

\* The transfer thread puts an entry in that engine's backlog.
LEMMA TPushKV ==
    ASSUME Inv, KVInv, TPush
    PROVE  KVInv'
  <1>1. /\ hand # <<>> /\ hand' = Tail(hand)
        /\ obj' = obj /\ pre' = pre /\ pstep' = pstep /\ tq' = tq /\ dec' = dec /\ dstep' = dstep
    BY DEF TPush
  <1>2. hand \in Seq([d : Decoders, it : ExactItems]) /\ dq \in [Decoders -> Seq(ExactItems)] /\ CarriedExact
    BY DEF KVInv, CarriedExact
  <1>3. PICK t, it : t = Head(hand).d /\ it = Head(hand).it /\ dq' = [dq EXCEPT ![t] = Append(@, it)]
    BY Zenon DEF TPush
  <1>4. Head(hand) \in [d : Decoders, it : ExactItems] /\ hand' \in Seq([d : Decoders, it : ExactItems])
    BY <1>1, <1>2, ItemsTail
  <1>5. t \in Decoders /\ it \in ExactItems
    BY <1>3, <1>4
  <1>6. Append(dq[t], it) \in Seq(ExactItems)
    BY <1>2, <1>5, AppendProperties
  <1>7. dq' \in [Decoders -> Seq(ExactItems)]
    BY <1>2, <1>3, <1>6
  <1>8. CarriedExact'
    BY <1>1, <1>2, <1>4, <1>7 DEF CarriedExact
  <1>9. \A q \in Reqs : Reach(q)' = Reach(q)
    BY <1>1 DEF Reach
  <1> QED
    BY <1>1, <1>8, <1>9, KVFrame

\* A decode step begins.
LEMMA DBeginKV ==
    ASSUME Inv, KVInv, NEW d \in Decoders, DBegin(d)
    PROVE  KVInv'
  <1>1. /\ dstep[d].pc = "top"
        /\ dstep' = [dstep EXCEPT ![d] = [DIdle EXCEPT !.pc = "take", !.block = ~HasRequests(dec[d])]]
        /\ obj' = obj /\ pre' = pre /\ pstep' = pstep /\ tq' = tq /\ hand' = hand /\ dq' = dq /\ dec' = dec
    BY DEF DBegin
  <1>2. dstep \in [Decoders -> DSteps] /\ CarriedExact /\ dstep[d].num = [r \in Reqs |-> 0]
    BY <1>1 DEF Inv, Typed, KVInv, Decoding, DecodingAt
  <1>3. \A c \in Decoders : dstep'[c].num = dstep[c].num
    <2>1. PICK s : s = [DIdle EXCEPT !.pc = "take", !.block = ~HasRequests(dec[d])]
      OBVIOUS
    <2>2. s.num = [r \in Reqs |-> 0]
      BY <2>1 DEF DIdle
    <2>3. dstep' = [dstep EXCEPT ![d] = s]
      BY <2>1, <1>1
    <2> QED
      BY <2>2, <2>3, <1>2
  <1>4. CarriedExact'
    BY <1>1, <1>2 DEF CarriedExact
  <1>5. \A q \in Reqs : Reach(q)' = Reach(q)
    BY <1>1 DEF Reach
  <1> QED
    BY <1>1, <1>3, <1>4, <1>5, KVFrame

\* The decode thread has taken what its backlog holds.
LEMMA DTakeNoMoreKV ==
    ASSUME Inv, KVInv, NEW d \in Decoders, DTakeNoMore(d)
    PROVE  KVInv'
  <1>1. /\ dstep' = [dstep EXCEPT ![d].pc = "run", ![d].idx = 1, ![d].budget = Budget]
        /\ obj' = obj /\ pre' = pre /\ pstep' = pstep /\ tq' = tq /\ hand' = hand /\ dq' = dq /\ dec' = dec
    BY DEF DTakeNoMore
  <1>2. dstep \in [Decoders -> DSteps] /\ CarriedExact
    BY DEF Inv, Typed, KVInv
  <1>3. \A c \in Decoders : dstep'[c].num = dstep[c].num
    BY <1>1, <1>2 DEF DSteps
  <1>4. CarriedExact'
    BY <1>1, <1>2 DEF CarriedExact
  <1>5. \A q \in Reqs : Reach(q)' = Reach(q)
    BY <1>1 DEF Reach
  <1> QED
    BY <1>1, <1>3, <1>4, <1>5, KVFrame

\* The first entry leaves a decode backlog.
LEMMA BacklogExact ==
    ASSUME KVInv, NEW d \in Decoders, dq[d] # <<>>, dq' = [dq EXCEPT ![d] = Tail(@)],
           pstep'.map = pstep.map, tq' = tq, hand' = hand
    PROVE  CarriedExact' /\ Head(dq[d]) \in ExactItems
  <1>1. dq \in [Decoders -> Seq(ExactItems)] /\ CarriedExact
    BY DEF KVInv, CarriedExact
  <1>2. Head(dq[d]) \in ExactItems /\ Tail(dq[d]) \in Seq(ExactItems)
    BY <1>1, ItemsTail
  <1>3. dq' \in [Decoders -> Seq(ExactItems)]
    BY <1>1, <1>2
  <1> QED
    BY <1>1, <1>2, <1>3 DEF CarriedExact

\* The decode thread takes an entry that finds no room, and loses it.
LEMMA DLoseKV ==
    ASSUME Inv, KVInv, NEW d \in Decoders, DLose(d)
    PROVE  KVInv'
  <1>1. /\ dstep' = [dstep EXCEPT ![d].pc = "run", ![d].idx = 1, ![d].budget = Budget]
        /\ dq[d] # <<>> /\ dq' = [dq EXCEPT ![d] = Tail(@)]
        /\ obj' = obj /\ pre' = pre /\ pstep' = pstep /\ tq' = tq /\ hand' = hand /\ dec' = dec
    BY DEF DLose
  <1>2. dstep \in [Decoders -> DSteps]
    BY DEF Inv, Typed
  <1>3. \A c \in Decoders : dstep'[c].num = dstep[c].num
    BY <1>1, <1>2 DEF DSteps
  <1>4. CarriedExact'
    BY <1>1, BacklogExact
  <1>5. \A q \in Reqs : Reach(q)' = Reach(q)
    BY <1>1 DEF Reach
  <1> QED
    BY <1>1, <1>3, <1>4, <1>5, KVFrame

-----------------------------------------------------------------------------
\* A step of the prefill engine leaves the decode engines' requests alone.
LEMMA DecsSame ==
    ASSUME Inv, KVInv, dec' = dec, dstep' = dstep,
           \A q \in Reqs : obj'[q].comp # obj[q].comp => \A d \in Decoders : q \notin Range(dec[d].run)
    PROVE  \A d \in Decoders : DCached(d)'
  <1> SUFFICES ASSUME NEW d \in Decoders
               PROVE  DCached(d)'
    OBVIOUS
  <1> QED
    BY DecSame DEF KVInv

\* A chunked prompt goes on: its next blocks are allocated and filed.
LEMMA PContinueKV ==
    ASSUME Inv, KVInv, PContinue
    PROVE  KVInv'
  <1>u. /\ pstep.pc = "schedule" /\ obj' = obj /\ tq' = tq /\ hand' = hand /\ dq' = dq
        /\ dec' = dec /\ dstep' = dstep
    BY DEF PContinue
  <1>1. PICK r, n, to, fresh : Continues(r, n, to, fresh)
    BY ContinueFacts
  <1>2. /\ r \in Reqs /\ r \in Range(pre.run) /\ obj[r].comp \in Nat /\ n \in Nat \ {0} /\ to = obj[r].comp + n
        /\ Reach(r) = obj[r].comp /\ to \in Nat /\ obj[r].comp <= to /\ to <= TotalLen[r]
        /\ pstep' = [pstep EXCEPT !.num[r] = n, !.budget = @ - n]
        /\ Allocated(pre', pre, r, <<>>, fresh, to, PBlocks)
    BY <1>1 DEF Continues
  <1>3. pstep \in PSteps /\ CarriedExact /\ PCached
    BY DEF Inv, Typed, KVInv
  <1>4. /\ pstep'.pc = "schedule" /\ pstep'.map = pstep.map /\ pstep'.num[r] = n
        /\ \A q \in Reqs : q # r => pstep'.num[q] = pstep.num[q]
    BY <1>u, <1>2, <1>3 DEF PSteps
  <1>5. /\ From[r] = obj[r].comp /\ PTo[r] = From[r] /\ From'[r] = From[r] /\ PTo'[r] = to
        /\ \A q \in Reqs : q # r => From'[q] = From[q] /\ PTo'[q] = PTo[q]
    BY <1>u, <1>2, <1>4 DEF From, PTo, Reach
  <1>6. Reset(From, PTo, From', PTo', r, From[r], to)
    BY <1>5 DEF Reset
  <1>7. PCached'
    <2>1. /\ EngineOK(pre, PBlocks) /\ PBlocks \in Nat \ {0} /\ Sized(pre, From, PTo)
          /\ Len(pre.blk[r]) = BlocksFor(From[r])
      BY <1>2, <1>5, SizedPre
    <2>2. From[r] <= to
      BY <1>2, <1>5
    <2>3. Cached(pre', From', PTo')
      BY <1>2, <1>3, <1>5, <1>6, <2>1, <2>2, ContinuedCached DEF PCached
    <2> QED
      BY <2>3 DEF PCached
  <1>8. \A d \in Decoders : DCached(d)'
    BY <1>u, DecsSame
  <1>9. CarriedExact'
    BY <1>u, <1>3, <1>4 DEF CarriedExact
  <1> QED
    BY <1>7, <1>8, <1>9 DEF KVInv

\* A request starts with the blocks of its prefix that were filed.
LEMMA AdmittedCached ==
    ASSUME NEW size \in Nat \ {0}, NEW e, EngineOK(e, size), NEW from, NEW at, NEW from2, NEW at2,
           Cached(e, from, at), Sized(e, from, at), NEW r \in Reqs, e.blk[r] = <<>>,
           NEW m \in 1 .. TotalLen[r], NEW hit, hit = Hit(e, r, m), NEW comp, comp = Len(hit) * BlockSize,
           NEW to \in Nat, comp <= to, to <= TotalLen[r],
           NEW f, NEW fresh, Allocated(f, e, r, hit, fresh, to, size),
           NEW g, g.hash = f.hash, g.kv = f.kv, g.blk = f.blk,
           Reset(from, at, from2, at2, r, comp, to)
    PROVE  Cached(g, from2, at2)
  <1>1. hit \in Seq(1 .. size - 1) /\ \A i \in 1 .. Len(hit) : e.hash[hit[i]] = Key[r][i]
    BY HitOK
  <1>2. Cached(f, from2, at2)
    BY <1>1, StartedCached
  <1>3. \A q \in Reqs : g.blk[q] = f.blk[q] /\ from2[q] = from2[q] /\ at2[q] = at2[q]
    OBVIOUS
  <1> QED
    BY <1>2, <1>3, KeptCached

\* A prompt is admitted with the blocks its prefix hits.
LEMMA PAdmitKV ==
    ASSUME Inv, KVInv, PAdmit
    PROVE  KVInv'
  <1>u. /\ pstep.pc = "schedule" /\ tq' = tq /\ hand' = hand /\ dq' = dq /\ dec' = dec /\ dstep' = dstep
    BY DEF PAdmit
  <1>1. PICK r, hit, comp, n, to, e, fresh : Starts(r, hit, comp, n, to, e, fresh)
    BY AdmitFacts
  <1>2. /\ r \in Reqs /\ r \in Range(pre.wait) /\ pre.blk[r] = <<>>
        /\ comp \in Nat /\ n \in Nat \ {0} /\ to \in Nat /\ to = comp + n /\ to <= PromptLen[r]
        /\ obj' = [obj EXCEPT ![r].st = "running", ![r].comp = comp]
        /\ pre' = [e EXCEPT !.wait = Tail(@), !.run = Append(@, r)]
        /\ pstep' = [pstep EXCEPT !.num[r] = n, !.budget = @ - n]
        /\ hit = Hit(pre, r, PromptLen[r]) /\ comp = Len(hit) * BlockSize
        /\ EngineOK(e, PBlocks) /\ Allocated(e, pre, r, hit, fresh, to, PBlocks)
    BY <1>1 DEF Starts, Admits
  <1>3. pstep \in PSteps /\ CarriedExact /\ PCached /\ obj \in Objects /\ Tracked
    BY DEF Inv, Typed, KVInv
  <1>4. /\ EngineOK(pre, PBlocks) /\ PBlocks \in Nat \ {0} /\ Sized(pre, From, PTo)
    BY SizedPre
  <1>5. pre'.hash = e.hash /\ pre'.kv = e.kv /\ pre'.blk = e.blk
    <2>1. e \in EngineType(PBlocks)
      BY <1>2, <1>4, EngineFields
    <2> QED
      BY <2>1, <1>2 DEF EngineType
  <1>6. /\ pstep'.pc = "schedule" /\ pstep'.map = pstep.map /\ pstep'.num[r] = n
        /\ \A q \in Reqs : q # r => pstep'.num[q] = pstep.num[q]
    BY <1>u, <1>2, <1>3 DEF PSteps
  <1>7. obj'[r].comp = comp /\ \A q \in Reqs : q # r => obj'[q].comp = obj[q].comp
    BY <1>2, <1>3 DEF Objects
  <1>8. Reset(From, PTo, From', PTo', r, comp, to)
    <2>1. From'[r] = comp /\ PTo'[r] = to
      BY <1>2, <1>6, <1>7 DEF From, PTo, Reach
    <2>2. \A q \in Reqs : q # r => From'[q] = From[q] /\ PTo'[q] = PTo[q]
      BY <1>u, <1>6, <1>7 DEF From, PTo, Reach
    <2> QED
      BY <2>1, <2>2 DEF Reset
  <1>9. PCached'
    <2>1. PromptLen[r] \in 1 .. TotalLen[r] /\ comp <= to /\ to <= TotalLen[r]
      BY <1>2, KeyOK
    <2>2. Cached(pre', From', PTo')
      BY <1>2, <1>3, <1>4, <1>5, <1>8, <2>1, AdmittedCached DEF PCached
    <2> QED
      BY <2>2 DEF PCached
  <1>10. \A d \in Decoders : DCached(d)'
    <2>1. \A d \in Decoders : r \notin Range(dec[d].run)
      BY <1>2, <1>3, InPrefill
    <2> QED
      BY <2>1, <1>u, <1>7, DecsSame
  <1>11. CarriedExact'
    BY <1>u, <1>3, <1>6 DEF CarriedExact
  <1> QED
    BY <1>9, <1>10, <1>11 DEF KVInv

\* What was filed for the tokens of the step is computed in it.
LEMMA PExecuteKV ==
    ASSUME Inv, KVInv, PExecute
    PROVE  KVInv'
  <1>u. /\ pstep.pc = "schedule" /\ tq' = tq /\ hand' = hand /\ dq' = dq /\ dec' = dec /\ dstep' = dstep
    BY DEF PExecute
  <1>1. PICK ran, kv : Executes(ran, kv)
    BY ExecuteFacts
  <1>2. /\ ran \in SUBSET Reqs /\ ran = Range(pre.run)
        /\ Computed(pre, ran, From, PTo) = [pre EXCEPT !.kv = kv]
        /\ pre'.kv = kv /\ pre'.blk = pre.blk /\ pre'.hash = pre.hash
        /\ \A r \in Reqs : Reach(r) \in Nat
        /\ obj' = [r \in Reqs |-> IF r \in ran THEN [obj[r] EXCEPT !.comp = Reach(r)] ELSE obj[r]]
        /\ pstep' = IF ran = {} THEN PIdle
                    ELSE [pstep EXCEPT !.pc = "gather", !.sampled =
                            RemoveAll(pre.run, {r \in Reqs : r \notin ran \/ Reach(r) # PromptLen[r]})]
    BY <1>1, Zenon DEF Executes
  <1>3. pstep \in PSteps /\ CarriedExact /\ PCached /\ obj \in Objects /\ Typed /\ Tracked /\ Stepping
    BY DEF Inv, Typed, KVInv
  <1>4. /\ EngineOK(pre, PBlocks) /\ PBlocks \in Nat \ {0} /\ Sized(pre, From, PTo)
        /\ \A r \in Reqs : r \notin ran => pre.blk[r] = <<>>
        /\ \A r \in ran : Len(pre.blk[r]) = BlocksFor(PTo[r]) /\ BlocksFor(PTo[r]) <= PBlocks
    BY <1>2, SizedPre
  <1>5. pstep'.pc \in {"top", "gather"} /\ pstep'.map \in {<<>>, pstep.map}
    BY <1>2, <1>3 DEF PSteps, PIdle
  <1>6. \A q \in Reqs : /\ q \in ran => obj'[q].comp = Reach(q)
                        /\ q \notin ran => obj'[q] = obj[q]
    BY <1>2, <1>3 DEF Objects
  <1>7. Filled(Computed(pre, ran, From, PTo), pre, ran, From, PTo)
    BY <1>2, <1>3, <1>4, ComputedFills DEF PCached
  <1>8. \A r \in Reqs : pre.blk[r] = <<>> \/ PTo'[r] = PTo[r]
    <2> SUFFICES ASSUME NEW r \in Reqs, r \in ran
                 PROVE  PTo'[r] = PTo[r]
      BY <1>4
    <2>1. PTo'[r] = obj'[r].comp + 0 /\ PTo[r] = Reach(r) /\ Reach(r) \in Nat
      BY <1>2, <1>5 DEF PTo, Reach
    <2> QED
      BY <2>1, <1>6
  <1>9. Cached(Computed(pre, ran, From, PTo), PTo', PTo')
    <2>1. \A r \in Reqs \ ran : pre.blk[r] = <<>> \/ From[r] = PTo[r]
      BY <1>4
    <2> QED
      BY <2>1, <1>2, <1>3, <1>4, <1>7, <1>8, FilledCached DEF PCached
  <1>10. PCached'
    <2>1. From' = PTo'
      <3>1. ASSUME NEW q \in Reqs
            PROVE  obj'[q].comp = Reach(q)'
        <4>1. obj'[q].comp \in Nat
          BY <1>2, <1>3, <1>6 DEF Objects
        <4> QED
          BY <4>1, <1>5 DEF Reach
      <3> QED
        BY <3>1 DEF From, PTo
    <2>2. PICK f : f = Computed(pre, ran, From, PTo)
      OBVIOUS
    <2>3. f = [pre EXCEPT !.kv = kv] /\ pre \in EngineType(PBlocks)
      BY <2>2, <1>2, <1>4, EngineFields
    <2>4. pre'.hash = f.hash /\ pre'.kv = f.kv /\ pre'.blk = f.blk
      BY <2>3, <1>2 DEF EngineType
    <2>5. \A r \in Reqs : pre'.blk[r] = f.blk[r] /\ From'[r] = PTo'[r] /\ PTo'[r] = PTo'[r]
      BY <2>1, <2>4
    <2>6. Cached(f, PTo', PTo')
      BY <1>9, <2>2
    <2>7. Cached(pre', From', PTo')
      BY <2>4, <2>5, <2>6, KeptCached
    <2> QED
      BY <2>7 DEF PCached
  <1>11. \A d \in Decoders : DCached(d)'
    <2>1. \A q \in Reqs : q \in ran => \A d \in Decoders : q \notin Range(dec[d].run)
      BY <1>2, <1>3, InDecoder
    <2> QED
      BY <2>1, <1>u, <1>6, DecsSame
  <1>12. CarriedExact'
    <2>1. <<>> \in Seq(ExactItems)
      OBVIOUS
    <2> QED
      BY <2>1, <1>u, <1>3, <1>5 DEF CarriedExact
  <1> QED
    BY <1>10, <1>11, <1>12 DEF KVInv

\* Outside schedule() a step of the prefill thread that lets requests go, and
\* computes nothing.
LEMMA PLeavesKV ==
    ASSUME Inv, KVInv, pstep.pc # "schedule", pstep'.pc # "schedule",
           \A q \in Reqs : obj'[q].comp = obj[q].comp,
           pre'.hash = pre.hash, pre'.kv = pre.kv,
           \A q \in Reqs : pre'.blk[q] = <<>> \/ pre'.blk[q] = pre.blk[q],
           dec' = dec, dstep' = dstep, tq' = tq, hand' = hand, dq' = dq, pstep'.map = pstep.map
    PROVE  KVInv'
  <1>1. CarriedExact /\ PCached /\ obj \in Objects
    BY DEF Inv, Typed, KVInv
  <1>2. ASSUME NEW q \in Reqs
        PROVE  PTo[q] = From[q] /\ PTo'[q] = PTo[q] /\ From'[q] = From[q]
    <2>1. obj[q].comp \in Nat /\ obj'[q].comp = obj[q].comp
      BY <1>1 DEF Objects
    <2> QED
      BY <2>1 DEF From, PTo, Reach
  <1>3. \A q \in Reqs : \/ pre'.blk[q] = <<>> /\ (pre.blk[q] = <<>> \/ From[q] = PTo[q])
                        \/ pre'.blk[q] = pre.blk[q] /\ From'[q] = From[q] /\ PTo'[q] = PTo[q]
    BY <1>2
  <1>4. PCached'
    <2>1. Cached(pre', From', PTo')
      BY <1>1, <1>3, KeptCached DEF PCached
    <2> QED
      BY <2>1 DEF PCached
  <1>5. \A d \in Decoders : DCached(d)'
    BY DecsSame
  <1>6. CarriedExact'
    BY <1>1 DEF CarriedExact
  <1> QED
    BY <1>4, <1>5, <1>6 DEF KVInv

\* update_from_output frees the requests whose token ended them.
LEMMA PUpdateKV ==
    ASSUME Inv, KVInv, PUpdate
    PROVE  KVInv'
  <1>u. /\ pstep.pc = "update" /\ tq' = tq /\ hand' = hand /\ dq' = dq /\ dec' = dec /\ dstep' = dstep
        /\ obj' = [r \in Reqs |-> IF r \in Range(pstep.sampled)
                                  THEN [obj[r] EXCEPT !.out = Append(@, 1)] ELSE obj[r]]
        /\ pstep' = [pstep EXCEPT !.pc = "remove", !.sched = pstep.sampled,
                                  !.over = {r \in Range(pstep.sampled) : Stops(r)}]
    BY DEF PUpdate
  <1>1. /\ PBlocks \in Nat \ {0} /\ EngineOK(pre, PBlocks) /\ pstep \in PSteps /\ obj \in Objects
        /\ pstep.sampled \in Seq(Reqs)
    BY DisaggAssumption DEF Inv, Typed, PSteps
  <1>2. PICK over, e : /\ over = RemoveAll(pstep.sampled, {r \in Reqs : ~Stops(r)})
                       /\ e = DroppedN(pre, over) /\ pre' = [e EXCEPT !.fin = over # <<>>]
    BY Zenon DEF PUpdate
  <1>3. over \in Seq(Reqs)
    <2> DEFINE S == {r \in Reqs : ~Stops(r)}
    <2>1. over = RemoveAll(pstep.sampled, S)
      BY <1>2
    <2> HIDE DEF S
    <2> QED
      BY <2>1, <1>1, RemoveAllProperties
  <1>4. EngineOK(e, PBlocks) /\ Left(e, pre, Range(over))
    BY <1>1, <1>2, <1>3, DroppedNOK
  <1>5. pre'.blk = e.blk /\ pre'.hash = e.hash /\ pre'.kv = e.kv
    <2>1. e \in EngineType(PBlocks) /\ pre' = [e EXCEPT !.fin = over # <<>>]
      BY <1>2, <1>4 DEF EngineOK
    <2> QED
      BY <2>1 DEF EngineType
  <1>6. /\ pre'.hash = pre.hash /\ pre'.kv = pre.kv
        /\ \A q \in Reqs : pre'.blk[q] = <<>> \/ pre'.blk[q] = pre.blk[q]
    BY <1>4, <1>5 DEF Left
  <1>7. pstep'.pc = "remove" /\ pstep'.map = pstep.map
    BY <1>u, <1>1 DEF PSteps
  <1>8. \A q \in Reqs : obj'[q].comp = obj[q].comp
    BY <1>u, <1>1 DEF Objects
  <1> QED
    BY <1>u, <1>6, <1>7, <1>8, PLeavesKV

\* A prompt whose KV was handed over leaves the prefill engine.
LEMMA PRemoveKV ==
    ASSUME Inv, KVInv, PRemove
    PROVE  KVInv'
  <1>u. /\ pstep.pc = "remove" /\ pstep.sched # <<>> /\ pstep' = [pstep EXCEPT !.sched = Tail(@)]
        /\ obj' = obj /\ tq' = tq /\ hand' = hand /\ dq' = dq /\ dec' = dec /\ dstep' = dstep
    BY DEF PRemove
  <1>1. PBlocks \in Nat \ {0} /\ EngineOK(pre, PBlocks) /\ pstep \in PSteps /\ pstep.sched \in Seq(Reqs)
    BY DisaggAssumption DEF Inv, Typed, PSteps
  <1>2. PICK r : r = Head(pstep.sched) /\ pre' = IF r \in Range(pre.run) THEN Dropped(pre, r) ELSE pre
    BY Zenon DEF PRemove
  <1>3. r \in Reqs
    BY <1>u, <1>1, <1>2
  <1>4. /\ pre'.hash = pre.hash /\ pre'.kv = pre.kv
        /\ \A q \in Reqs : pre'.blk[q] = <<>> \/ pre'.blk[q] = pre.blk[q]
    <2>1. Left(Dropped(pre, r), pre, {r})
      BY <1>1, <1>3, DroppedOK
    <2> QED
      BY <2>1, <1>2 DEF Left
  <1>5. pstep'.pc = "remove" /\ pstep'.map = pstep.map
    BY <1>u, <1>1 DEF PSteps
  <1> QED
    BY <1>u, <1>4, <1>5, PLeavesKV

\* A step of a decode thread that leaves the prefill engine and the other
\* decode engines alone.
LEMMA DecodeKV ==
    ASSUME Inv, KVInv, NEW d \in Decoders, pre' = pre, pstep' = pstep,
           \A c \in Decoders : c # d => dec'[c] = dec[c] /\ dstep'[c].num = dstep[c].num,
           \A q \in Reqs : obj'[q].comp # obj[q].comp => q \in Range(dec[d].run) \/ q \in Range(dec[d].wait),
           Cached(dec'[d], From', (DTo(d))'), CarriedExact'
    PROVE  KVInv'
  <1>1. Typed /\ Tracked /\ Stepping /\ PCached /\ obj \in Objects
    BY DEF Inv, Typed, KVInv
  <1>2. PCached'
    <2>1. ASSUME NEW q \in Reqs, q \in Range(pre.run)
          PROVE  obj'[q].comp = obj[q].comp
      BY <1>1, <2>1, InDecoder
    <2>2. \A q \in Reqs : q \in Range(pre.run) => obj'[q].comp = obj[q].comp /\ Reach(q)' = Reach(q)
      BY <2>1 DEF Reach
    <2> QED
      BY <1>1, <2>2, PreSame
  <1>3. ASSUME NEW c \in Decoders
        PROVE  DCached(c)'
    <2>1. CASE c = d
      BY <2>1 DEF DCached
    <2>2. CASE c # d
      <3>1. ASSUME NEW q \in Reqs, q \in Range(dec[c].run)
            PROVE  obj'[q].comp = obj[q].comp
        BY <1>1, <2>2, <3>1, InDecoder
      <3>2. DCached(c) /\ dec'[c] = dec[c] /\ dstep'[c].num = dstep[c].num
        BY <2>2 DEF KVInv
      <3> QED
        BY <3>1, <3>2, DecSame
    <2> QED
      BY <2>1, <2>2
  <1> QED
    BY <1>2, <1>3 DEF KVInv

\* The blocks of request r are filled with what the prefill engine computed.
LEMMA InsertedCached ==
    ASSUME NEW size \in Nat \ {0}, NEW f, EngineOK(f, size), NEW from, NEW at,
           Cached(f, from, at), Sized(f, from, at), NEW r \in Reqs, NEW n \in Nat,
           Len(f.blk[r]) = BlocksFor(n), IsInjective(f.blk[r]), from[r] = 0, at[r] = n,
           \A q \in Reqs : q # r => from[q] = at[q],
           NEW slices \in Seq(KVs), Len(slices) = BlocksFor(n),
           \A i \in 1 .. BlocksFor(n) : slices[i] = Content(r, i, n)
    PROVE  Cached(Inserted(f, r, slices), at, at)
  <1> DEFINE g == Inserted(f, r, slices)
  <1>1. PICK kv \in [0 .. size - 1 -> KVs] :
          /\ g = [f EXCEPT !.kv = kv]
          /\ \A i \in 1 .. Len(f.blk[r]) : kv[f.blk[r][i]] = slices[i]
          /\ \A b \in 0 .. size - 1 : b \notin Range(f.blk[r]) => kv[b] = f.kv[b]
    BY InsertedOK
  <1>2. f.blk[r] \in Seq(1 .. size - 1) /\ DOMAIN f.blk[r] = 1 .. BlocksFor(n)
        /\ DOMAIN f.kv = 0 .. size - 1 /\ f \in EngineType(size) /\ BlocksFor(n) \in Nat
    <2>1. f.blk \in [Reqs -> Seq(1 .. size - 1)] /\ f.kv \in [0 .. size - 1 -> KVs] /\ f \in EngineType(size)
      BY EngineFields DEF EngineOK, EngineType
    <2>2. f.blk[r] \in Seq(1 .. size - 1)
      BY <2>1
    <2>3. DOMAIN f.blk[r] = 1 .. BlocksFor(n)
      BY <2>2
    <2>4. DOMAIN f.kv = 0 .. size - 1 /\ BlocksFor(n) \in Nat
      BY <2>1, BlocksForOK
    <2> QED
      BY <2>1, <2>2, <2>3, <2>4
  <1>3. g.hash = f.hash /\ g.blk = f.blk /\ g.kv = kv
    BY <1>1, <1>2 DEF EngineType
  <1>4. \A i \in Nat \ {0} : ~Full(0, i)
    <2>1. BlockSize \in Nat \ {0} /\ 0 = BlockSize * 0 + 0 /\ 0 \in 0 .. BlockSize - 1
      BY DisaggAssumption, Z3
    <2>2. 0 \div BlockSize = 0
      BY <2>1, DivModUnique
    <2> QED
      BY <2>2 DEF Full
  <1> HIDE DEF g
  <1>5. ASSUME NEW i \in DOMAIN f.blk[r]
        PROVE  g.kv[f.blk[r][i]] = Content(r, i, at[r]) /\ ~Full(from[r], i)
    BY <1>1, <1>2, <1>3, <1>4
  <1>6. ASSUME NEW b \in DOMAIN f.kv, \A i \in DOMAIN f.blk[r] : f.blk[r][i] = b => Full(from[r], i)
        PROVE  g.kv[b] = f.kv[b]
    <2>1. b \notin Range(f.blk[r])
      BY <1>5, <1>6 DEF Range
    <2> QED
      BY <2>1, <1>1, <1>2, <1>3
  <1>7. DOMAIN g.kv = DOMAIN f.kv
    BY <1>1, <1>2, <1>3
  <1>8. Filled(g, f, {r}, from, at)
    BY <1>3, <1>5, <1>6, <1>7 DEF Filled
  <1>9. Cached(g, at, at)
    BY <1>8, FilledCached
  <1> QED
    BY <1>9 DEF g

\* A decode engine allocates for the prompt of a request.
LEMMA FirstCached ==
    ASSUME NEW size \in Nat \ {0}, NEW e, EngineOK(e, size), NEW from, NEW at, NEW from2, NEW at2,
           Cached(e, from, at), Sized(e, from, at), NEW r \in Reqs, e.blk[r] = <<>>,
           NEW n \in Nat, n <= TotalLen[r], Fits(e, r, <<>>, n),
           NEW f, f = Allocate(e, r, <<>>, n, n), Reset(from, at, from2, at2, r, 0, n)
    PROVE  Cached(f, from2, at2) /\ Sized(f, from2, at2)
  <1>0. <<>> \in Seq(1 .. size - 1) /\ Len(<<>>) = 0 /\ 0 \in Nat /\ 0 = Len(<<>>) * BlockSize /\ 0 <= n
        /\ \A i \in 1 .. Len(<<>>) : e.hash[(<<>>)[i]] = Key[r][i]
    BY DisaggAssumption
  <1>1. Len(f.blk[r]) = BlocksFor(n) /\ \A q \in Reqs : q # r => f.blk[q] = e.blk[q]
    BY FirstBlocks
  <1>2. PICK fresh : Allocated(f, e, r, <<>>, fresh, n, size)
    <2>1. Len(e.blk[r]) = 0
      OBVIOUS
    <2>2. BlocksFor(n) \in Nat /\ Len(<<>>) = 0
      BY BlocksForOK
    <2>3. Partway(e, r, <<>>, n)
      BY <2>1, <2>2 DEF Partway
    <2> QED
      BY <1>0, <2>3, AllocateOK
  <1>3. Cached(f, from2, at2)
    BY <1>0, <1>2, StartedCached
  <1>4. ASSUME NEW q \in Reqs
        PROVE  /\ from2[q] \in Nat /\ at2[q] \in Nat /\ from2[q] <= at2[q]
               /\ f.blk[q] # <<>> => Len(f.blk[q]) = BlocksFor(at2[q]) /\ at2[q] <= TotalLen[q]
    <2>1. /\ at[q] \in Nat /\ from[q] \in Nat /\ from[q] <= at[q]
          /\ e.blk[q] # <<>> => Len(e.blk[q]) = BlocksFor(at[q]) /\ at[q] <= TotalLen[q]
      BY DEF Sized
    <2>2. CASE q = r
      <3>1. from2[q] = 0 /\ at2[q] = n
        BY <2>2 DEF Reset
      <3> QED
        BY <3>1, <1>0, <1>1, <2>2
    <2>3. CASE q # r
      BY <1>1, <2>1, <2>3 DEF Reset
    <2> QED
      BY <2>2, <2>3
  <1>5. Sized(f, from2, at2)
    BY <1>4 DEF Sized
  <1> QED
    BY <1>3, <1>5

\* The decode thread allocates the blocks of a prompt and inserts its KV.
LEMMA DInsertKV ==
    ASSUME Inv, KVInv, NEW d \in Decoders, ~Overtake, DInsert(d)
    PROVE  KVInv'
  <1>s. /\ dstep[d].pc = "take" /\ dq[d] # <<>> /\ Released(Head(dq[d]).r)
        /\ dq' = [dq EXCEPT ![d] = Tail(@)] /\ dstep' = [dstep EXCEPT ![d].block = FALSE]
        /\ pre' = pre /\ pstep' = pstep /\ tq' = tq /\ hand' = hand
    BY Zenon DEF DInsert
  <1>u. /\ dstep[d].pc = "take" /\ dq[d] # <<>> /\ ~Sampled(Head(dq[d]).r)
        /\ dq' = [dq EXCEPT ![d] = Tail(@)] /\ dstep' = [dstep EXCEPT ![d].block = FALSE]
        /\ pre' = pre /\ pstep' = pstep /\ tq' = tq /\ hand' = hand
    BY <1>s DEF Released, Sampled
  <1>r. PICK r, kv : r = Head(dq[d]).r /\ kv = Head(dq[d]).kv
    OBVIOUS
  <1>f. PICK f, g : f = Allocate(dec[d], r, <<>>, obj[r].comp, obj[r].comp) /\ g = Inserted(f, r, kv)
    OBVIOUS
  <1>e. /\ dec' = [dec EXCEPT ![d] = [g EXCEPT !.run = Append(@, r), !.batch = @ \cup {r}]]
        /\ obj' = [obj EXCEPT ![r].st = "running", ![r].ok = obj[r].out # <<>>]
        /\ Fits(dec[d], r, <<>>, obj[r].comp)
    <2>1. /\ dec' = [dec EXCEPT ![d] =
                    [Inserted(Allocate(dec[d], Head(dq[d]).r, <<>>, obj[Head(dq[d]).r].comp, obj[Head(dq[d]).r].comp),
                              Head(dq[d]).r, Head(dq[d]).kv)
                       EXCEPT !.run = Append(@, Head(dq[d]).r), !.batch = @ \cup {Head(dq[d]).r}]]
          /\ obj' = [obj EXCEPT ![Head(dq[d]).r].st = "running", ![Head(dq[d]).r].ok = obj[Head(dq[d]).r].out # <<>>]
          /\ Fits(dec[d], Head(dq[d]).r, <<>>, obj[Head(dq[d]).r].comp)
      BY Zenon DEF DInsert
    <2> QED
      BY <2>1, <1>r, <1>f, Zenon
  <1>1. /\ Tracked /\ DCached(d) /\ DecodeFacts(d) /\ obj \in Objects
        /\ dec \in [Decoders -> EngineType(DBlocks)] /\ dstep \in [Decoders -> DSteps]
    BY DecodeBegins DEF Inv, Typed, KVInv, DecodeFacts
  <1>2. CarriedExact' /\ Head(dq[d]) \in ExactItems
    BY <1>u, BacklogExact
  <1>3. r \in Reqs /\ InDq(d, r) /\ ~Sampled(r)
    BY <1>u, <1>r, BacklogTail
  <1>4. /\ r \notin Range(pre.run) /\ \A c \in Decoders : r \notin Range(dec[c].run)
        /\ obj[r].comp = PromptLen[r]
    BY <1>1, <1>3, InBacklog
  <1>5. PromptLen[r] \in Nat /\ PromptLen[r] <= TotalLen[r]
    BY <1>3, KeyOK
  <1>6. /\ kv \in Seq(KVs) /\ Len(kv) = BlocksFor(PromptLen[r])
        /\ \A i \in 1 .. BlocksFor(PromptLen[r]) : kv[i] = Content(r, i, PromptLen[r])
    <2>1. PICK it : it = Head(dq[d])
      OBVIOUS
    <2>2. it \in ExactItems /\ kv = it.kv /\ r = it.r
      BY <2>1, <1>r, <1>2
    <2>3. it \in Items /\ kv = [i \in 1 .. BlocksFor(PromptLen[r]) |-> Content(r, i, PromptLen[r])]
      BY <2>2 DEF ExactItems
    <2>4. BlocksFor(PromptLen[r]) \in Nat
      BY <1>5, BlocksForOK
    <2> QED
      <3> DEFINE k == BlocksFor(PromptLen[r])
      <3>1. kv \in Seq(KVs)
        BY <2>2, <2>3 DEF Items
      <3>2. k \in Nat /\ kv = [i \in 1 .. k |-> Content(r, i, PromptLen[r])]
        BY <2>3, <2>4
      <3> HIDE DEF k
      <3>3. DOMAIN kv = 1 .. k /\ \A i \in 1 .. k : kv[i] = Content(r, i, PromptLen[r])
        BY <3>2
      <3>4. Len(kv) = k
        BY <3>1, <3>2, <3>3
      <3> QED
        BY <3>1, <3>3, <3>4 DEF k
  <1>7. /\ EngineOK(dec[d], DBlocks) /\ DBlocks \in Nat \ {0} /\ Sized(dec[d], From, DTo(d))
        /\ dec[d].blk[r] = <<>>
    BY <1>3, <1>4, SizedDec
  <1> DEFINE from2 == [q \in Reqs |-> IF q = r THEN 0 ELSE From[q]]
             at == DTo(d)
  <1>8. \A q \in Reqs : From[q] = at[q]
    <2>1. dstep[d].num = [q \in Reqs |-> 0]
      BY <1>u, <1>1 DEF DecodeFacts, DecodingAt
    <2> QED
      BY <2>1, <1>1 DEF From, DTo, Objects
  <1>9. at[r] = PromptLen[r]
    BY <1>3, <1>4, <1>8 DEF From
  <1>10. /\ from2[r] = 0 /\ \A q \in Reqs : q # r => from2[q] = From[q] /\ from2[q] = at[q]
    BY <1>3, <1>8
  <1> HIDE DEF from2, at
  <1>11. Reset(From, at, from2, at, r, 0, PromptLen[r])
    BY <1>9, <1>10 DEF Reset
  <1>12. f = Allocate(dec[d], r, <<>>, PromptLen[r], PromptLen[r]) /\ Fits(dec[d], r, <<>>, PromptLen[r])
    BY <1>e, <1>f, <1>4
  <1>13. Cached(f, from2, at) /\ Sized(f, from2, at)
    BY <1>1, <1>3, <1>5, <1>7, <1>11, <1>12, FirstCached DEF DCached, at
  <1>14. EngineOK(f, DBlocks) /\ f \in EngineType(DBlocks)
         /\ Len(f.blk[r]) = BlocksFor(PromptLen[r]) /\ IsInjective(f.blk[r])
    <2> DEFINE e == dec[d]
               n == PromptLen[r]
    <2>1. EngineOK(e, DBlocks) /\ DBlocks \in Nat \ {0} /\ e.blk[r] = <<>> /\ r \in Reqs /\ n \in Nat
          /\ n <= TotalLen[r] /\ Fits(e, r, <<>>, n) /\ f = Allocate(e, r, <<>>, n, n)
      BY <1>3, <1>5, <1>7, <1>12
    <2> HIDE DEF e, n
    <2>2. EngineOK(f, DBlocks) /\ f \in EngineType(DBlocks) /\ Len(f.blk[r]) = BlocksFor(n) /\ IsInjective(f.blk[r])
      BY <2>1, FirstBlocks
    <2> QED
      BY <2>2 DEF n
  <1>15. Cached(g, at, at) /\ EngineOK(g, DBlocks)
    <2>1. Cached(Inserted(f, r, kv), at, at)
      BY <1>3, <1>5, <1>6, <1>7, <1>9, <1>10, <1>13, <1>14, InsertedCached
    <2>2. EngineOK(Inserted(f, r, kv), DBlocks)
      BY <1>3, <1>6, <1>7, <1>14, InsertedOK
    <2> QED
      BY <2>1, <2>2, <1>f
  <1>16. dec'[d].hash = g.hash /\ dec'[d].kv = g.kv /\ dec'[d].blk = g.blk
    <2>1. g \in EngineType(DBlocks)
      BY <1>15 DEF EngineOK
    <2>2. dec'[d] = [g EXCEPT !.run = Append(@, r), !.batch = @ \cup {r}]
      BY <1>e, <1>1
    <2> QED
      BY <2>1, <2>2 DEF EngineType
  <1>17. \A c \in Decoders : /\ c # d => dec'[c] = dec[c]
                             /\ dstep'[c].num = dstep[c].num
    BY <1>e, <1>u, <1>1 DEF DSteps
  <1>18. \A q \in Reqs : obj'[q].comp = obj[q].comp
    BY <1>e, <1>1 DEF Objects
  <1>19. From' = From /\ DTo(d)' = at
    BY <1>17, <1>18 DEF From, DTo, at
  <1>20. Cached(dec'[d], From', (DTo(d))')
    <2>1. \A q \in Reqs : dec'[d].blk[q] = g.blk[q] /\ From[q] = at[q] /\ at[q] = at[q]
      BY <1>8, <1>16 DEF at
    <2> QED
      BY <2>1, <1>15, <1>16, <1>19, KeptCached
  <1> QED
    BY <1>u, <1>2, <1>17, <1>18, <1>20, DecodeKV

\* Allocation for a request whose blocks are those of its first n tokens.
LEMMA NextAllocated ==
    ASSUME NEW size \in Nat \ {0}, NEW e, EngineOK(e, size), NEW r \in Reqs,
           NEW n \in Nat, NEW to \in Nat, n <= to, to <= TotalLen[r],
           Len(e.blk[r]) = BlocksFor(n), Fits(e, r, <<>>, to), NEW f, f = Allocate(e, r, <<>>, to, to)
    PROVE  EngineOK(f, size) /\ \E fresh : Allocated(f, e, r, <<>>, fresh, to, size)
  <1>1. BlocksFor(n) \in Nat /\ BlocksFor(to) \in Nat
    BY BlocksForOK
  <1>m. BlocksFor(n) <= BlocksFor(to)
    BY BlocksForMonotone
  <1>0. <<>> \in Seq(1 .. size - 1) /\ Len(<<>>) = 0
    OBVIOUS
  <1>2. Partway(e, r, <<>>, to)
    <2>1. BlocksFor(n) + 0 <= BlocksFor(to)
      BY <1>1, <1>m
    <2> QED
      BY <2>1, <1>0 DEF Partway
  <1> QED
    BY <1>0, <1>2, AllocateOK

\* schedule() gives the next running request its blocks, or preempts the last.
LEMMA DRunNextKV ==
    ASSUME Inv, KVInv, NEW d \in Decoders, DRunNext(d)
    PROVE  KVInv'
  <1>u. /\ dstep[d].pc = "run" /\ dstep[d].idx <= Len(dec[d].run)
        /\ pre' = pre /\ pstep' = pstep /\ tq' = tq /\ hand' = hand /\ dq' = dq
    BY Zenon DEF DRunNext
  <1>1. /\ DCached(d) /\ DecodeFacts(d) /\ obj \in Objects
        /\ dec \in [Decoders -> EngineType(DBlocks)] /\ dstep \in [Decoders -> DSteps]
    BY DecodeBegins DEF Inv, Typed, KVInv, DecodeFacts
  <1>2. CarriedExact'
    BY <1>u DEF KVInv, CarriedExact
  <1>r. PICK r, n : /\ r = dec[d].run[dstep[d].idx]
                    /\ n = Least(NumTokens(r) - obj[r].comp, dstep[d].budget)
    OBVIOUS
  <1>t. PICK to : to = obj[r].comp + n
    OBVIOUS
  <1>v. PICK v : v = dec[d].run[Len(dec[d].run)]
    OBVIOUS
  <1>3. /\ r \in Reqs /\ r \in Range(dec[d].run) /\ dstep[d].num[r] = 0
        /\ dstep[d].idx \in 1 .. Len(dec[d].run) /\ obj[r].comp \in Nat /\ n \in Nat
        /\ dstep[d].budget - n \in Nat /\ to <= TotalLen[r] /\ TotalLen[r] \in Nat
        /\ Len(dec[d].blk[r]) = BlocksFor(obj[r].comp)
    <2>1. ComesTo(d, r, n)
      BY <1>u, <1>r DEF ComesTo
    <2> QED
      BY <2>1, <1>t, NextRunning
  <1>4. to \in Nat /\ obj[r].comp <= to
    BY <1>3, <1>t
  <1>5. EngineOK(dec[d], DBlocks) /\ DBlocks \in Nat \ {0} /\ Sized(dec[d], From, DTo(d))
    BY SizedDec
  <1>6. CASE Fits(dec[d], r, <<>>, to)
    <2>f. PICK f : f = Allocate(dec[d], r, <<>>, to, to)
      OBVIOUS
    <2>s. PICK s : s = [dstep[d] EXCEPT !.idx = @ + 1, !.num[r] = n, !.budget = @ - n]
      OBVIOUS
    <2>1. /\ dec' = [dec EXCEPT ![d] = f] /\ obj' = obj
          /\ dstep' = [dstep EXCEPT ![d].idx = @ + 1, ![d].num[r] = n, ![d].budget = @ - n]
      BY <1>6, <1>r, <1>t, <2>f DEF DRunNext
    <2>2. PICK fresh : Allocated(f, dec[d], r, <<>>, fresh, to, DBlocks)
      BY <1>3, <1>4, <1>5, <1>6, <2>f, NextAllocated, SMTT(30)
    <2>3. dec'[d] = f /\ \A c \in Decoders : c # d => dec'[c] = dec[c]
      BY <1>1, <2>1
    <2>4. s.num[r] = n /\ \A q \in Reqs : q # r => s.num[q] = dstep[d].num[q]
      <3>1. Scheduled(s, dstep[d], r, n)
        BY <2>s DEF Scheduled
      <3>2. dstep[d] \in DSteps /\ dstep[d].budget - n \in Nat /\ n \in Nat /\ r \in Reqs
        BY <1>1, <1>3
      <3> QED
        BY <3>1, <3>2, ScheduledStep
    <2>5. dstep'[d] = s /\ \A c \in Decoders : c # d => dstep'[c] = dstep[c]
      BY <1>1, <2>1, <2>s DEF DSteps
    <2>6. /\ From' = From /\ From[r] = obj[r].comp /\ DTo(d)[r] = From[r] /\ (DTo(d)')[r] = to
          /\ \A q \in Reqs : q # r => (DTo(d)')[q] = DTo(d)[q]
      <3>1. DTo(d)[r] = obj[r].comp + 0 /\ obj[r].comp + 0 = obj[r].comp
        BY <1>3 DEF DTo
      <3>2. From' = From /\ From[r] = obj[r].comp /\ DTo(d)[r] = From[r]
        BY <3>1, <1>3, <2>1 DEF From, DTo
      <3>3. (DTo(d)')[r] = obj[r].comp + n
        BY <1>3, <2>1, <2>4, <2>5 DEF DTo
      <3>4. \A q \in Reqs : q # r => (DTo(d)')[q] = DTo(d)[q]
        BY <2>1, <2>4, <2>5 DEF DTo
      <3> QED
        BY <3>2, <3>3, <3>4, <1>t
    <2>7. Reset(From, DTo(d), From', (DTo(d))', r, From[r], to)
      BY <2>6 DEF Reset
    <2>8. Cached(dec'[d], From', (DTo(d))')
      <3>1. /\ From[r] <= to /\ Len(dec[d].blk[r]) = BlocksFor(From[r]) /\ DTo(d)[r] = From[r]
            /\ Cached(dec[d], From, DTo(d))
        BY <1>1, <1>3, <1>4, <2>6 DEF DCached
      <3>2. Cached(f, From', (DTo(d))')
        BY <1>3, <1>4, <1>5, <2>2, <2>7, <3>1, ContinuedCached
      <3> QED
        BY <3>2, <2>3
    <2> QED
      BY <1>u, <1>2, <2>1, <2>3, <2>5, <2>8, DecodeKV
  <1>7. CASE ~Fits(dec[d], r, <<>>, to)
    <2>e. PICK e : e = Dropped(dec[d], v)
      OBVIOUS
    <2>h. PICK h : h = [e EXCEPT !.wait = <<v>> \o e.wait]
      OBVIOUS
    <2>1. /\ dstep' = [dstep EXCEPT ![d].preempted = TRUE]
          /\ obj' = [obj EXCEPT ![v].st = "preempted", ![v].comp = 0]
      BY <1>7, <1>r, <1>t, <1>v DEF DRunNext
    <2>2. dec' = [dec EXCEPT ![d] = h]
      BY <1>7, <1>r, <1>t, <1>v, <2>e, <2>h, Zenon DEF DRunNext
    <2>3. v \in Reqs /\ v \in Range(dec[d].run) /\ dstep[d].num[v] = 0
      <3>1. dec[d].run \in Seq(Reqs) /\ dstep[d].idx \in Nat
        BY <1>1 DEF DecodeFacts, DSteps
      <3>2. PICK s, k : s = dec[d].run /\ k = Len(s)
        OBVIOUS
      <3>3. s \in Seq(Reqs) /\ k \in Nat /\ DOMAIN s = 1 .. k /\ v = s[k] /\ dstep[d].idx \in 1 .. k
        BY <1>3, <3>1, <3>2, <1>v
      <3>4. k \in 1 .. k /\ k >= dstep[d].idx
        BY <3>3
      <3>5. v \in Reqs /\ v \in Range(s)
        BY <3>3, <3>4 DEF Range
      <3>6. \A i \in DOMAIN dec[d].run : i >= dstep[d].idx => dstep[d].num[dec[d].run[i]] = 0
        BY <1>u, <1>1 DEF DecodeFacts, DecodingAt
      <3> QED
        BY <3>2, <3>3, <3>4, <3>5, <3>6
    <2>4. Left(e, dec[d], {v}) /\ e \in EngineType(DBlocks)
      BY <1>5, <2>3, <2>e, DroppedOK DEF EngineOK
    <2>5. h.hash = dec[d].hash /\ h.kv = dec[d].kv /\ h.blk = [q \in Reqs |-> IF q \in {v} THEN <<>> ELSE dec[d].blk[q]]
      <3>1. h.blk = e.blk /\ h.hash = e.hash /\ h.kv = e.kv
        BY <2>4, <2>h DEF EngineType
      <3> QED
        BY <3>1, <2>4 DEF Left
    <2>6. /\ dec'[d] = h /\ \A c \in Decoders : c # d => dec'[c] = dec[c]
          /\ \A c \in Decoders : dstep'[c].num = dstep[c].num
          /\ \A q \in Reqs : q # v => obj'[q] = obj[q]
      <3>1. dec'[d] = h /\ \A c \in Decoders : c # d => dec'[c] = dec[c]
        BY <1>1, <2>2
      <3>2. \A c \in Decoders : dstep'[c].num = dstep[c].num
        BY <1>1, <2>1 DEF DSteps
      <3>3. \A q \in Reqs : q # v => obj'[q] = obj[q]
        BY <1>1, <2>1 DEF Objects
      <3> QED
        BY <3>1, <3>2, <3>3
    <2>7. /\ From[v] = DTo(d)[v]
          /\ \A q \in Reqs : q # v => From'[q] = From[q] /\ (DTo(d)')[q] = DTo(d)[q]
      <3>1. obj[v].comp + 0 = obj[v].comp
        BY <1>1, <2>3 DEF Objects
      <3> QED
        BY <3>1, <2>3, <2>6 DEF From, DTo
    <2>8. \A q \in Reqs : \/ h.blk[q] = <<>> /\ (dec[d].blk[q] = <<>> \/ From[q] = DTo(d)[q])
                          \/ h.blk[q] = dec[d].blk[q] /\ From'[q] = From[q] /\ (DTo(d)')[q] = DTo(d)[q]
      BY <2>5, <2>7
    <2>9. Cached(dec'[d], From', (DTo(d))')
      BY <1>1, <2>5, <2>6, <2>8, KeptCached DEF DCached
    <2> QED
      BY <1>u, <1>2, <2>3, <2>6, <2>9, DecodeKV
  <1> QED
    BY <1>6, <1>7

\* A preempted request comes back with the blocks its prefix still hits.
LEMMA DResumeKV ==
    ASSUME Inv, KVInv, NEW d \in Decoders, DResume(d)
    PROVE  KVInv'
  <1>u. /\ dstep[d].pc = "run" /\ CanResume(d)
        /\ pre' = pre /\ pstep' = pstep /\ tq' = tq /\ hand' = hand /\ dq' = dq
    BY Zenon DEF DResume
  <1>r. PICK r, hit : r = Head(dec[d].wait) /\ hit = Hit(dec[d], r, NumTokens(r))
    OBVIOUS
  <1>c. PICK comp : comp = Len(hit) * BlockSize
    OBVIOUS
  <1>n. PICK n, to : n = Least(NumTokens(r) - comp, dstep[d].budget) /\ to = comp + n
    OBVIOUS
  <1>f. PICK f : f = Allocate(dec[d], r, hit, to, to)
    OBVIOUS
  <1>g. PICK g : g = [f EXCEPT !.wait = Tail(f.wait), !.run = Append(f.run, r)]
    OBVIOUS
  <1>s. PICK s : s = [dstep[d] EXCEPT !.idx = @ + 1, !.num[r] = n, !.budget = @ - n]
    OBVIOUS
  <1>o. obj' = [obj EXCEPT ![r].st = "running", ![r].comp = comp]
    BY <1>r, <1>c, Zenon DEF DResume
  <1>e. dec' = [dec EXCEPT ![d] = g]
    BY <1>r, <1>c, <1>n, <1>f, <1>g, Zenon DEF DResume
  <1>y. dstep' = [dstep EXCEPT ![d].idx = @ + 1, ![d].num[r] = n, ![d].budget = @ - n]
    BY <1>r, <1>c, <1>n, Zenon DEF DResume
  <1>1. /\ Typed /\ Stepping /\ Tracked /\ DCached(d) /\ DecodeFacts(d) /\ obj \in Objects
        /\ dec \in [Decoders -> EngineType(DBlocks)] /\ dstep \in [Decoders -> DSteps]
    BY DecodeBegins DEF Inv, Typed, KVInv, DecodeFacts
  <1>2. CarriedExact'
    BY <1>u DEF KVInv, CarriedExact
  <1>3. dec[d].wait # <<>> /\ dstep[d].budget > 0 /\ Fits(dec[d], r, hit, NumTokens(r))
    BY <1>u, <1>r DEF CanResume
  <1>4. r \in Reqs /\ r \in Range(dec[d].wait)
    <2>1. dec[d].wait \in Seq(Reqs) /\ IsInjective(dec[d].wait)
      BY <1>1 DEF DecodeFacts
    <2> QED
      BY <2>1, <1>3, <1>r, InjectiveTail
  <1>5. r \notin Range(dec[d].run) /\ obj[r].out # <<>> /\ NumTokens(r) <= TotalLen[r]
    BY <1>1, <1>4, InDecoder
  <1>6. /\ EngineOK(dec[d], DBlocks) /\ DBlocks \in Nat \ {0} /\ Sized(dec[d], From, DTo(d))
        /\ dec[d].blk[r] = <<>>
    BY <1>4, <1>5, SizedDec
  <1>7. NumTokens(r) \in 1 .. TotalLen[r] /\ NumTokens(r) \in Nat
    <2>1. PromptLen[r] \in Nat \ {0} /\ TotalLen[r] \in Nat
      BY <1>4, KeyOK
    <2>2. obj[r].out \in Seq(Nat)
      BY <1>1, <1>4 DEF Objects
    <2>3. PICK a, b : a = PromptLen[r] /\ b = Len(obj[r].out)
      OBVIOUS
    <2>4. a \in Nat \ {0} /\ b \in Nat /\ NumTokens(r) = a + b
      BY <2>1, <2>2, <2>3 DEF NumTokens
    <2>5. NumTokens(r) \in Nat \ {0}
      BY <2>4
    <2> QED
      BY <2>1, <2>5, <1>5
  <1>8. dstep[d].budget \in Nat \ {0}
    <2>1. dstep[d].budget \in Nat
      BY <1>1 DEF DSteps
    <2> QED
      BY <2>1, <1>3
  <1>9. comp \in Nat /\ Chunked(NumTokens(r), comp, dstep[d].budget, n, to)
        /\ Admitted(f, dec[d], r, hit, to, NumTokens(r), DBlocks)
    <2>1. Admits(f, dec[d], r, hit, comp, to, NumTokens(r))
      BY <1>r, <1>3, <1>c, <1>f DEF Admits
    <2> QED
      BY <2>1, <1>4, <1>6, <1>7, <1>8, <1>n, AdmitOK
  <1>10. /\ n \in Nat /\ dstep[d].budget - n \in Nat /\ to <= NumTokens(r) /\ to \in Nat /\ comp <= to
         /\ f \in EngineType(DBlocks)
    BY <1>9 DEF Chunked, Admitted, EngineOK
  <1>11. PICK fresh : Allocated(f, dec[d], r, hit, fresh, to, DBlocks)
    BY <1>9 DEF Admitted
  <1>12. g.hash = f.hash /\ g.kv = f.kv /\ g.blk = f.blk
    BY <1>10, <1>g DEF EngineType
  <1>13. dec'[d] = g /\ \A c \in Decoders : c # d => dec'[c] = dec[c]
    BY <1>1, <1>e
  <1>14. s.num[r] = n /\ \A q \in Reqs : q # r => s.num[q] = dstep[d].num[q]
    <2>1. Scheduled(s, dstep[d], r, n)
      BY <1>s DEF Scheduled
    <2>2. dstep[d] \in DSteps
      BY <1>1
    <2> QED
      BY <2>1, <2>2, <1>4, <1>10, ScheduledStep
  <1>15. dstep'[d] = s /\ \A c \in Decoders : c # d => dstep'[c] = dstep[c]
    BY <1>1, <1>y, <1>s DEF DSteps
  <1>16. obj'[r].comp = comp /\ \A q \in Reqs : q # r => obj'[q].comp = obj[q].comp
    BY <1>1, <1>4, <1>o DEF Objects
  <1>17. Reset(From, DTo(d), From', (DTo(d))', r, comp, to)
    <2>1. From'[r] = comp /\ (DTo(d)')[r] = to
      BY <1>4, <1>n, <1>14, <1>15, <1>16 DEF From, DTo
    <2>2. \A q \in Reqs : q # r => From'[q] = From[q] /\ (DTo(d)')[q] = DTo(d)[q]
      BY <1>14, <1>15, <1>16 DEF From, DTo
    <2> QED
      BY <2>1, <2>2 DEF Reset
  <1>18. Cached(dec'[d], From', (DTo(d))')
    <2>1. to <= TotalLen[r]
      <3>1. TotalLen[r] \in Nat
        BY <1>4, KeyOK
      <3> QED
        BY <3>1, <1>5, <1>7, <1>10
    <2>2. Cached(dec[d], From, DTo(d))
      BY <1>1 DEF DCached
    <2>3. Cached(g, From', (DTo(d))')
      BY <1>4, <1>6, <1>7, <1>r, <1>c, <1>10, <1>11, <1>12, <1>17, <2>1, <2>2, AdmittedCached
    <2> QED
      BY <2>3, <1>13
  <1>19. \A q \in Reqs : obj'[q].comp # obj[q].comp => q \in Range(dec[d].run) \/ q \in Range(dec[d].wait)
    BY <1>4, <1>16
  <1>20. \A c \in Decoders : c # d => dec'[c] = dec[c] /\ dstep'[c].num = dstep[c].num
    BY <1>13, <1>15
  <1> QED
    BY <1>u, <1>2, <1>18, <1>19, <1>20, DecodeKV

\* A decode step computes its tokens and frees the requests that end.
LEMMA DExecuteKV ==
    ASSUME Inv, KVInv, NEW d \in Decoders, DExecute(d)
    PROVE  KVInv'
  <1>u. /\ pre' = pre /\ pstep' = pstep /\ tq' = tq /\ hand' = hand /\ dq' = dq
        /\ dstep' = [dstep EXCEPT ![d] = DIdle]
    BY Zenon DEF DExecute
  <1>r. PICK ran : ran = {r \in Range(dec[d].run) : dstep[d].num[r] > 0}
    OBVIOUS
  <1>l. PICK last : last = {r \in ran : DTo(d)[r] = NumTokens(r)}
    OBVIOUS
  <1>o. PICK over : over = RemoveAll(dec[d].run, {r \in Reqs : r \notin last \/ ~Stops(r)})
    OBVIOUS
  <1>h. PICK h : h = Computed(dec[d], ran, From, DTo(d))
    OBVIOUS
  <1>g. PICK g : g = DroppedN(h, over)
    OBVIOUS
  <1>f. PICK f : f = [g EXCEPT !.fin = over # <<>>, !.batch = ran]
    OBVIOUS
  <1>e. dec' = [dec EXCEPT ![d] = f]
    BY <1>r, <1>l, <1>o, <1>h, <1>g, <1>f, Zenon DEF DExecute, From, DTo
  <1>x. obj' = [r \in Reqs |->
                  IF r \notin ran THEN obj[r]
                  ELSE [obj[r] EXCEPT !.comp = DTo(d)[r],
                          !.out = IF r \in last THEN Append(@, Token(r)) ELSE @,
                          !.st = IF r \in Range(over) THEN "finished" ELSE @]]
    BY <1>r, <1>l, <1>o, Zenon DEF DExecute, Token, DTo
  <1>1. /\ DCached(d) /\ DecodeFacts(d) /\ obj \in Objects
        /\ dec \in [Decoders -> EngineType(DBlocks)] /\ dstep \in [Decoders -> DSteps]
    BY DecodeBegins DEF Inv, Typed, KVInv, DecodeFacts
  <1>2. CarriedExact'
    BY <1>u DEF KVInv, CarriedExact
  <1>3. /\ EngineOK(dec[d], DBlocks) /\ DBlocks \in Nat \ {0} /\ Sized(dec[d], From, DTo(d))
        /\ \A r \in Reqs : r \notin Range(dec[d].run) => dec[d].blk[r] = <<>>
        /\ \A r \in Reqs : r \in Range(dec[d].run) =>
             Len(dec[d].blk[r]) = BlocksFor(DTo(d)[r]) /\ BlocksFor(DTo(d)[r]) <= DBlocks
    BY SizedDec
  <1>4. /\ ran \in SUBSET Reqs /\ ran \subseteq Range(dec[d].run) /\ dec[d].run \in Seq(Reqs)
        /\ \A r \in Reqs : r \in Range(dec[d].run) /\ r \notin ran => dstep[d].num[r] = 0
    <2>1. dec[d].run \in Seq(Reqs) /\ dstep[d].num \in [Reqs -> Nat]
      BY <1>1 DEF DecodeFacts, DSteps
    <2>2. Range(dec[d].run) \subseteq Reqs
      BY <2>1 DEF Range
    <2>3. \A r \in Reqs : r \in Range(dec[d].run) /\ r \notin ran => dstep[d].num[r] = 0
      BY <2>1, <1>r
    <2> QED
      BY <2>1, <2>2, <2>3, <1>r
  <1>5. \A q \in Reqs : /\ q \in ran => obj'[q].comp = DTo(d)[q]
                        /\ q \notin ran => obj'[q] = obj[q]
    <2> SUFFICES ASSUME NEW q \in Reqs
                 PROVE  /\ q \in ran => obj'[q].comp = DTo(d)[q]
                        /\ q \notin ran => obj'[q] = obj[q]
      OBVIOUS
    <2>1. PICK a, b : obj'[q] = IF q \notin ran THEN obj[q]
                                ELSE [obj[q] EXCEPT !.comp = DTo(d)[q], !.out = a, !.st = b]
      BY <1>x
    <2> QED
      BY <2>1, <1>1 DEF Objects
  <1>6. \A q \in Reqs : /\ From[q] = obj[q].comp /\ DTo(d)[q] = obj[q].comp + dstep[d].num[q]
                        /\ obj[q].comp \in Nat /\ obj[q].comp + 0 = obj[q].comp
    BY <1>1 DEF From, DTo, Objects
  <1>7. \A q \in Reqs : q \notin ran => dec[d].blk[q] = <<>> \/ From[q] = DTo(d)[q]
    BY <1>3, <1>4, <1>6
  <1>8. dstep'[d].num = [q \in Reqs |-> 0] /\ \A c \in Decoders : c # d => dstep'[c] = dstep[c]
    BY <1>u, <1>1 DEF DIdle
  <1>9. \A q \in Reqs : dec[d].blk[q] = <<>> \/ (From'[q] = DTo(d)[q] /\ (DTo(d)')[q] = DTo(d)[q])
    <2> SUFFICES ASSUME NEW q \in Reqs, dec[d].blk[q] # <<>>
                 PROVE  From'[q] = DTo(d)[q] /\ (DTo(d)')[q] = DTo(d)[q]
      OBVIOUS
    <2>1. obj'[q].comp = DTo(d)[q]
      BY <1>5, <1>6, <1>7
    <2>2. DTo(d)[q] \in Nat
      BY <1>3 DEF Sized
    <2>3. (DTo(d)')[q] = obj'[q].comp + 0
      BY <1>8 DEF DTo
    <2> QED
      BY <2>1, <2>2, <2>3 DEF From
  <1>10. PICK kv : h = [dec[d] EXCEPT !.kv = kv] /\ EngineOK(h, DBlocks)
    <2>1. WritesWithin(ran, From, DTo(d))
      <3>1. ASSUME NEW q \in ran
            PROVE  DTo(d)[q] \in Nat /\ DTo(d)[q] <= TotalLen[q] /\ From[q] \in Nat
        <4>1. q \in Reqs /\ q \in Range(dec[d].run)
          BY <1>4
        <4>2. DTo(d)[q] \in Nat /\ From[q] \in Nat
          BY <4>1, <1>3 DEF Sized
        <4>3. DTo(d)[q] <= NumTokens(q)
          BY <4>1, <1>1, <1>6 DEF DecodeFacts, DecodingAt, DecodeOne
        <4>4. NumTokens(q) <= TotalLen[q] /\ obj[q].out \in Seq(Nat)
          BY <4>1, <1>1, InDecoder DEF Inv, Objects
        <4>5. NumTokens(q) \in Nat /\ TotalLen[q] \in Nat
          BY <4>1, <4>4, KeyOK DEF NumTokens
        <4> QED
          BY <4>2, <4>3, <4>4, <4>5
      <3> QED
        BY <3>1 DEF WritesWithin
    <2>2. /\ EngineOK(Computed(dec[d], ran, From, DTo(d)), DBlocks)
          /\ \E kv \in [0 .. DBlocks - 1 -> KVs] : Computed(dec[d], ran, From, DTo(d)) = [dec[d] EXCEPT !.kv = kv]
      <3> DEFINE e == dec[d]
                 to == DTo(d)
      <3>1. DBlocks \in Nat \ {0} /\ EngineOK(e, DBlocks) /\ ran \in SUBSET Reqs /\ WritesWithin(ran, From, to)
        BY <1>3, <1>4, <2>1
      <3> HIDE DEF e, to
      <3>2. /\ EngineOK(Computed(e, ran, From, to), DBlocks)
            /\ \E kv \in [0 .. DBlocks - 1 -> KVs] : Computed(e, ran, From, to) = [e EXCEPT !.kv = kv]
        BY <3>1, ComputedOK
      <3> QED
        BY <3>2 DEF e, to
    <2> QED
      BY <2>2, <1>h
  <1>11. Filled(h, dec[d], ran, From, DTo(d))
    <2>1. \A r \in ran : Len(dec[d].blk[r]) = BlocksFor(DTo(d)[r]) /\ BlocksFor(DTo(d)[r]) <= DBlocks
      BY <1>3, <1>4
    <2> QED
      BY <2>1, <1>1, <1>3, <1>4, <1>10, <1>h, ComputedFills DEF DCached
  <1> DEFINE at2 == (DTo(d))'
  <1>12. Cached(h, at2, at2)
    <2>1. \A r \in Reqs \ ran : dec[d].blk[r] = <<>> \/ From[r] = DTo(d)[r]
      BY <1>7
    <2>2. \A r \in Reqs : dec[d].blk[r] = <<>> \/ at2[r] = DTo(d)[r]
      BY <1>9
    <2> HIDE DEF at2
    <2> QED
      BY <2>1, <2>2, <1>1, <1>3, <1>4, <1>11, FilledCached DEF DCached
  <1>13. over \in Seq(Reqs)
    <2> DEFINE S == {r \in Reqs : r \notin last \/ ~Stops(r)}
    <2>1. over = RemoveAll(dec[d].run, S)
      BY <1>o
    <2> HIDE DEF S
    <2> QED
      BY <2>1, <1>4, RemoveAllProperties
  <1>14. Left(g, h, Range(over)) /\ g \in EngineType(DBlocks)
    BY <1>3, <1>g, <1>10, <1>13, DroppedNOK DEF EngineOK
  <1>15. /\ dec'[d].hash = h.hash /\ dec'[d].kv = h.kv
         /\ \A q \in Reqs : dec'[d].blk[q] = <<>> \/ dec'[d].blk[q] = h.blk[q]
         /\ h.blk = dec[d].blk
    <2>1. dec'[d] = f
      BY <1>1, <1>e
    <2>2. f.hash = g.hash /\ f.kv = g.kv /\ f.blk = g.blk
      BY <1>14, <1>f DEF EngineType
    <2>3. h.blk = dec[d].blk
      BY <1>11 DEF Filled
    <2> QED
      BY <2>1, <2>2, <2>3, <1>14 DEF Left
  <1>16. Cached(dec'[d], From', at2)
    <2>1. \A q \in Reqs : \/ dec'[d].blk[q] = <<>> /\ (h.blk[q] = <<>> \/ at2[q] = at2[q])
                          \/ dec'[d].blk[q] = h.blk[q] /\ From'[q] = at2[q] /\ at2[q] = at2[q]
      BY <1>9, <1>15
    <2> HIDE DEF at2
    <2> QED
      BY <2>1, <1>12, <1>15, KeptCached
  <1>17. \A c \in Decoders : c # d => dec'[c] = dec[c] /\ dstep'[c].num = dstep[c].num
    BY <1>1, <1>e, <1>8
  <1>18. \A q \in Reqs : obj'[q].comp # obj[q].comp => q \in Range(dec[d].run) \/ q \in Range(dec[d].wait)
    BY <1>4, <1>5
  <1> QED
    BY <1>u, <1>2, <1>16, <1>17, <1>18, DecodeKV

-----------------------------------------------------------------------------
(* What a decode engine reads *)

\* Nothing changes.
LEMMA StutterKV ==
    ASSUME Inv, KVInv, UNCHANGED vars
    PROVE  KVInv'
  <1>1. /\ obj' = obj /\ pre' = pre /\ pstep' = pstep /\ tq' = tq /\ hand' = hand /\ dq' = dq
        /\ dec' = dec /\ dstep' = dstep
    BY DEF vars
  <1>2. CarriedExact'
    BY <1>1 DEF KVInv, CarriedExact
  <1>3. \A q \in Reqs : Reach(q)' = Reach(q)
    BY <1>1 DEF Reach
  <1> QED
    BY <1>1, <1>2, <1>3, KVFrame

\* Whatever the threads do in whatever order, a filed block holds the KV of
\* its key or is about to be written with it by one request.
LEMMA KVNext ==
    ASSUME Inv, KVInv, ~Overtake, [Next]_vars
    PROVE  KVInv'
  <1>1. CASE \E r \in Reqs : AddRequest(r)
    BY <1>1, AddRequestKV
  <1>2. CASE TrackRequest
    BY <1>2, TrackRequestKV
  <1>3. CASE Prefill
    <2>1. PBegin => KVInv'
      BY PBeginKV
    <2>2. PContinue => KVInv'
      BY PContinueKV
    <2>3. PAdmit => KVInv'
      BY PAdmitKV
    <2>4. PExecute => KVInv'
      BY PExecuteKV
    <2>5. PGather => KVInv'
      BY PGatherKV
    <2>6. PPut => KVInv'
      BY PPutKV
    <2>7. PUpdate => KVInv'
      BY PUpdateKV
    <2>8. PRemove => KVInv'
      BY PRemoveKV
    <2>9. POutput => KVInv'
      BY POutputKV
    <2> QED
      BY <1>3, <2>1, <2>2, <2>3, <2>4, <2>5, <2>6, <2>7, <2>8, <2>9 DEF Prefill
  <1>4. CASE Transfer
    BY <1>4, TGetKV, TPushKV DEF Transfer
  <1>5. CASE \E d \in Decoders : Decode(d)
    <2>1. PICK d \in Decoders : Decode(d)
      BY <1>5
    <2>2. DBegin(d) => KVInv'
      BY DBeginKV
    <2>3. DLose(d) => KVInv'
      BY DLoseKV
    <2>4. DInsert(d) => KVInv'
      BY DInsertKV
    <2>5. DTakeNoMore(d) => KVInv'
      BY DTakeNoMoreKV
    <2>6. DRunNext(d) => KVInv'
      BY DRunNextKV
    <2>7. DResume(d) => KVInv'
      BY DResumeKV
    <2>8. DExecute(d) => KVInv'
      BY DExecuteKV
    <2> QED
      BY <2>1, <2>2, <2>3, <2>4, <2>5, <2>6, <2>7, <2>8 DEF Decode
  <1>6. CASE UNCHANGED vars
    BY <1>6, StutterKV
  <1> QED
    BY <1>1, <1>2, <1>3, <1>4, <1>5, <1>6 DEF Next

\* Between its steps a decode engine has the KV of the tokens computed.
LEMMA KVHeld ==
    ASSUME Inv, KVInv, NEW d \in Decoders, NEW r \in Range(dec[d].run), dstep[d].pc # "run"
    PROVE  Holds(dec[d], r, obj[r].comp)
  <1> DEFINE n == obj[r].comp
  <1>1. /\ DCached(d) /\ obj \in Objects /\ r \in Reqs /\ dstep[d].num = [q \in Reqs |-> 0]
    BY DecodeBegins DEF KVInv, DecodeFacts, DecodingAt
  <1>2. n \in Nat
    BY <1>1 DEF Objects
  <1>3. \A q \in Reqs : obj[q].comp \in Nat /\ From[q] = obj[q].comp /\ DTo(d)[q] = From[q]
    BY <1>1 DEF From, DTo, Objects
  <1>4. /\ EngineOK(dec[d], DBlocks) /\ DBlocks \in Nat \ {0} /\ Sized(dec[d], From, DTo(d))
        /\ Len(dec[d].blk[r]) = BlocksFor(n) /\ dec[d].blk[r] \in Seq(1 .. DBlocks - 1)
    BY <1>1, <1>3, SizedDec, EngineFields
  <1>5. \A i \in DOMAIN dec[d].blk[r] : dec[d].kv[dec[d].blk[r][i]] = Content(r, i, n)
    <2>1. Cached(dec[d], From, DTo(d)) /\ From[r] = n
      BY <1>1, <1>3 DEF DCached
    <2>2. \A i \in DOMAIN dec[d].blk[r] : dec[d].kv[dec[d].blk[r][i]] = Content(r, i, From[r])
      BY <2>1, <1>1, <1>3, <1>4, HeldContent
    <2> QED
      BY <2>1, <2>2
  <1> SUFFICES ASSUME NEW i \in 1 .. BlocksFor(n)
               PROVE  /\ i <= Len(dec[d].blk[r])
                      /\ dec[d].kv[dec[d].blk[r][i]].key = Key[r][i]
                      /\ dec[d].kv[dec[d].blk[r][i]].n >= Least(n - (i - 1) * BlockSize, BlockSize)
    BY DEF Holds
  <1>6. i \in DOMAIN dec[d].blk[r] /\ i <= Len(dec[d].blk[r])
    <2>1. PICK k : k = BlocksFor(n)
      OBVIOUS
    <2>2. k \in Nat /\ i \in 1 .. k /\ Len(dec[d].blk[r]) = k
      BY <1>2, <1>4, <2>1, BlocksForOK
    <2>3. DOMAIN dec[d].blk[r] = 1 .. k
      BY <1>4, <2>2
    <2> QED
      BY <2>2, <2>3
  <1>7. PICK m : m = Least(n - (i - 1) * BlockSize, BlockSize)
    OBVIOUS
  <1>8. m \in Int
    <2>1. BlockSize \in Nat /\ i \in Int
      BY DisaggAssumption, <1>2, BlocksForOK
    <2>2. (i - 1) * BlockSize \in Int
      BY <2>1
    <2> QED
      BY <2>1, <2>2, <1>2, <1>7 DEF Least
  <1>9. dec[d].kv[dec[d].blk[r][i]] = [key |-> Key[r][i], n |-> m]
    BY <1>5, <1>6, <1>7 DEF Content
  <1> QED
    BY <1>6, <1>7, <1>8, <1>9

\* A decode engine never computes a token of a request on KV that is not
\* that request's, though requests share the blocks of a common prefix, a
\* block is filed before its KV is written, and a preempted request comes
\* back to whatever the prefix cache still holds.
THEOREM KVCorrect ==
    ASSUME ~Overtake
    PROVE  Spec => []KVExact
  <1>1. Init => Inv /\ KVInv
    BY InvInit, KVInit
  <1>2. (Inv /\ KVInv) /\ [Next]_vars => (Inv /\ KVInv)'
    BY InvNext, KVNext
  <1>3. Inv /\ KVInv => KVExact
    BY KVHeld DEF KVExact
  <1> QED
    BY <1>1, <1>2, <1>3, PTL DEF Spec

=============================================================================
