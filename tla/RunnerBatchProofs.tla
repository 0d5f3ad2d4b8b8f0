-------------------------- MODULE RunnerBatchProofs --------------------------
(***************************************************************************)
(* The persistent batch of the model runner, for any number of requests,   *)
(* rows, tokens and blocks.  The rows of a step are the scheduled          *)
(* requests, each once and without a hole, with the single-token rows      *)
(* first (Rowed); unless batches under way meet a reset, the runner caches *)
(* the tokens that the scheduler counts (Counted); without resets, the     *)
(* rows have the scheduler's blocks (Tabled); and with synchronous         *)
(* scheduling every token that is run is the request's own (Exact).        *)
(***************************************************************************)
EXTENDS RunnerBatch, Lemmas

-----------------------------------------------------------------------------
(* The n-th element of a set of positions *)

\* There is one, with n - 1 elements below it,
LEMMA NthProperties ==
    ASSUME NEW N \in Nat, NEW K \in SUBSET (1 .. N), NEW n \in 1 .. Cardinality(K)
    PROVE  Nth(K, n) \in K /\ Cardinality({y \in K : y < Nth(K, n)}) = n - 1
  <1>1. PICK i \in K : Cardinality({j \in K : j <= i}) = n
    BY NthElement
  <1> DEFINE A == {y \in K : y < i}
  <1>2. \A y \in K : y \in Nat /\ (y <= i <=> y < i \/ y = i) /\ ~(i < i)
    OBVIOUS
  <1>3. {j \in K : j <= i} = A \cup {i} /\ i \notin A /\ A \in SUBSET (1 .. N)
    BY <1>2
  <1> HIDE DEF A
  <1>4. IsFiniteSet(A) /\ Cardinality(A) \in Nat
    BY <1>3, FiniteWithin, FS_CardinalityType
  <1>5. n = Cardinality(A) + 1
    BY <1>1, <1>3, <1>4, FS_AddElement
  <1>6. Cardinality(A) = n - 1
    BY <1>4, <1>5
  <1> QED
    BY <1>6 DEF A, Nth

\* and every element is the n-th for some n.
LEMMA NthOnto ==
    ASSUME NEW N \in Nat, NEW K \in SUBSET (1 .. N), NEW i \in K
    PROVE  \E n \in 1 .. Cardinality(K) : Nth(K, n) = i
  <1> DEFINE n == Cardinality({j \in K : j <= i})
  <1>1. IsFiniteSet(K) /\ Cardinality(K) \in Nat
    BY FiniteWithin, FS_CardinalityType
  <1>2. {j \in K : j <= i} \in SUBSET K /\ i \in {j \in K : j <= i}
    OBVIOUS
  <1>3. n \in 1 .. Cardinality(K)
    <2>1. n \in Nat /\ n <= Cardinality(K) /\ n # 0
      BY <1>1, <1>2, FS_Subset, FS_CardinalityType, FS_EmptySet
    <2> QED
      BY <2>1, <1>1
  <1> DEFINE m == Nth(K, n)
  <1>4. m \in K /\ Cardinality({y \in K : y < m}) = n - 1
    BY <1>3, NthProperties
  <1> HIDE DEF m
  <1> DEFINE B == {y \in K : y < m}
             A == {y \in K : y < i}
  <1>5. {j \in K : j <= i} = A \cup {i} /\ i \notin A /\ A \in SUBSET (1 .. N)
    <2>1. \A y \in K : y \in Nat /\ (y <= i <=> y < i \/ y = i) /\ ~(i < i)
      OBVIOUS
    <2> QED
      BY <2>1
  <1>6. n = Cardinality(A) + 1 /\ Cardinality(A) \in Nat
    <2> HIDE DEF A
    <2>1. IsFiniteSet(A) /\ Cardinality(A) \in Nat
      BY <1>5, FiniteWithin, FS_CardinalityType
    <2> QED
      BY <2>1, <1>5, FS_AddElement
  <1>7. Cardinality(A) = Cardinality(B)
    BY <1>4, <1>6
  <1>8. ASSUME NEW a \in K, NEW b \in K, a < b
        PROVE  Cardinality({y \in K : y < a}) # Cardinality({y \in K : y < b})
    <2>1. {y \in K : y < a} \in SUBSET {y \in K : y < b}
          /\ a \in {y \in K : y < b} /\ a \notin {y \in K : y < a}
          /\ {y \in K : y < b} \in SUBSET K
      <3>1. \A y \in K : (y < a => y < b) /\ ~(a < a)
        BY <1>8
      <3> QED
        BY <1>8, <3>1, Zenon
    <2>2. IsFiniteSet({y \in K : y < b})
      BY <2>1, <1>1, FS_Subset
    <2> QED
      BY <2>1, <2>2, FS_Subset
  <1>9. ~(m < i) /\ ~(i < m) /\ m \in Nat /\ i \in Nat
    BY <1>7, <1>8, <1>4
  <1> QED
    BY <1>3, <1>9 DEF m

\* Different n give different elements.
LEMMA NthDistinct ==
    ASSUME NEW N \in Nat, NEW K \in SUBSET (1 .. N),
           NEW m \in 1 .. Cardinality(K), NEW n \in 1 .. Cardinality(K), Nth(K, m) = Nth(K, n)
    PROVE  m = n
  <1>1. /\ Cardinality({y \in K : y < Nth(K, m)}) = m - 1
        /\ Cardinality({y \in K : y < Nth(K, n)}) = n - 1
    BY NthProperties, Zenon
  <1>2. m \in Int /\ n \in Int
    OBVIOUS
  <1> QED
    BY <1>1, <1>2

-----------------------------------------------------------------------------
(* The rows of the batch *)

IsRow(x) == x = [req |-> x.req, toks |-> x.toks, comp |-> x.comp, blk |-> x.blk]

\* Rows and holes by index, no request in two of them.
Batch(rs) ==
    /\ rs \in Seq(Range(rs))
    /\ \A i \in DOMAIN rs : rs[i] = Hole \/ (IsRow(rs[i]) /\ rs[i].req \in Reqs)
    /\ \A i, j \in DOMAIN rs : rs[i].req \in Reqs /\ rs[i].req = rs[j].req => i = j

\* The size of a range.
LEMMA Interval ==
    ASSUME NEW a \in Nat, NEW b \in Nat, a <= b
    PROVE  IsFiniteSet(a + 1 .. b) /\ Cardinality(a + 1 .. b) = b - a
           /\ IsFiniteSet(1 .. b) /\ Cardinality(1 .. b) = b
  BY FS_Interval, 1 \in Int, a + 1 \in Int

\* Filling the holes from the end keeps every row, and only the rows.
LEMMA CondenseProperties ==
    ASSUME NEW rs, Batch(rs)
    PROVE  /\ Batch(Condense(rs))
           /\ Range(Condense(rs)) = Range(rs) \ {Hole}
  <1> DEFINE N == Len(rs)
             H == Holes(rs)
             n == N - Cardinality(H)
             tail == (n + 1 .. N) \ H
             low == {h \in H : h <= n}
             high == {h \in H : h > n}
             A(i) == {h \in H : i < h /\ h <= n}
             g == [i \in 1 .. n |-> IF i \in H THEN Nth(tail, Cardinality(A(i)) + 1) ELSE i]
             out == Condense(rs)
             V == 1 .. N \ H
  <1>1. N \in Nat /\ DOMAIN rs = 1 .. N /\ H \in SUBSET (1 .. N)
        /\ \A i \in 1 .. N : i \in H <=> rs[i] = Hole
    BY DEF Batch, Holes
  <1>2. IsFiniteSet(H) /\ Cardinality(H) \in Nat /\ Cardinality(H) <= N
    <2> HIDE DEF N, H
    <2>1. IsFiniteSet(1 .. N) /\ Cardinality(1 .. N) = N
      BY <1>1, Interval
    <2>2. PICK I : I = 1 .. N
      OBVIOUS
    <2>3. H \in SUBSET I /\ IsFiniteSet(I) /\ Cardinality(I) = N
      BY <2>1, <2>2, <1>1
    <2>4. IsFiniteSet(H) /\ Cardinality(H) <= Cardinality(I)
      BY <2>3, FS_Subset
    <2> QED
      BY <2>3, <2>4, FS_CardinalityType
  <1>3. out = [i \in 1 .. n |-> IF i \in H THEN rs[Nth(tail, Cardinality(A(i)) + 1)] ELSE rs[i]]
    BY DEF Condense
  <1>4. n \in 0 .. N
    BY <1>1, <1>2
  <1> HIDE DEF N, H, out
  <1>5. Cardinality(tail) = Cardinality(low) /\ Cardinality(tail) \in Nat
        /\ IsFiniteSet(low) /\ IsFiniteSet(tail)
    <2> DEFINE I == n + 1 .. N
    <2>1. IsFiniteSet(I) /\ Cardinality(I) = N - n
      <3> HIDE DEF n
      <3> QED
        BY <1>1, <1>4, Interval
    <2>2. low \cup high = H /\ low \cap high = {} /\ low \in SUBSET H /\ high \in SUBSET H
      <3>1. \A h \in H : h \in Nat /\ (h > n <=> ~(h <= n))
        BY <1>1, <1>4
      <3> HIDE DEF n
      <3> QED
        BY <3>1
    <2>3. tail \cup high = I /\ tail \cap high = {} /\ tail \in SUBSET I
      <3>1. \A h \in H : h > n <=> h \in I
        BY <1>1, <1>4
      <3> HIDE DEF n, I
      <3>2. high = H \cap I
        BY <3>1
      <3> QED
        BY <3>2 DEF I
    <2> HIDE DEF low, high, tail, I
    <2>4. IsFiniteSet(low) /\ IsFiniteSet(high) /\ IsFiniteSet(tail)
      BY <2>1, <2>2, <2>3, <1>2, FS_Subset
    <2>5. Cardinality(low) \in Nat /\ Cardinality(high) \in Nat /\ Cardinality(tail) \in Nat
      BY <2>4, FS_CardinalityType
    <2>6. Cardinality(H) = Cardinality(low) + Cardinality(high) - Cardinality(low \cap high)
      BY <2>2, <2>4, FS_Union
    <2>7. Cardinality(I) = Cardinality(tail) + Cardinality(high) - Cardinality(tail \cap high)
      BY <2>3, <2>4, FS_Union
    <2>8. Cardinality(low \cap high) = 0 /\ Cardinality(tail \cap high) = 0
      BY <2>2, <2>3, FS_EmptySet
    <2> QED
      BY <2>1, <2>4, <2>5, <2>6, <2>7, <2>8, <1>1, <1>2 DEF n
  <1>6. ASSUME NEW i \in 1 .. n, i \in H
        PROVE  Cardinality(A(i)) \in Nat /\ Cardinality(A(i)) + 1 \in 1 .. Cardinality(tail)
    <2>1. A(i) \in SUBSET low /\ i \in low /\ i \notin A(i)
      BY <1>6, <1>4
    <2>2. IsFiniteSet(A(i)) /\ Cardinality(A(i)) \in Nat
      BY <2>1, <1>5, FS_Subset, FS_CardinalityType
    <2>3. Cardinality(A(i)) < Cardinality(low)
      <3> HIDE DEF A, low
      <3>1. Cardinality(A(i)) <= Cardinality(low) /\ Cardinality(A(i)) # Cardinality(low)
        BY <2>1, <1>5, FS_Subset
      <3> QED
        BY <3>1, <2>2, <1>5
    <2> QED
      BY <2>2, <2>3, <1>5
  <1>7. ASSUME NEW i \in 1 .. n, i \in H, NEW j \in 1 .. n, j \in H, i < j
        PROVE  Cardinality(A(i)) # Cardinality(A(j))
    <2>1. A(j) \in SUBSET A(i) /\ j \in A(i) /\ j \notin A(j) /\ A(i) \in SUBSET H
      <3>1. \A h \in H : h \in Nat /\ (j < h => i < h) /\ ~(j < j) /\ j <= n
        BY <1>1, <1>4, <1>7
      <3> HIDE DEF n
      <3> QED
        BY <1>7, <3>1
    <2>2. IsFiniteSet(A(i))
      BY <2>1, <1>2, FS_Subset
    <2> HIDE DEF A
    <2> QED
      BY <2>1, <2>2, FS_Subset
  <1>8. tail \in SUBSET V /\ tail \in SUBSET (1 .. N) /\ \A t \in tail : t \notin 1 .. n
    BY <1>4, <1>1
  <1> HIDE DEF A, tail, low, high
  <1>9. ASSUME NEW i \in 1 .. n
        PROVE  g[i] \in V /\ (i \in H => g[i] \in tail /\ g[i] = Nth(tail, Cardinality(A(i)) + 1))
                         /\ (i \notin H => g[i] = i)
    <2>1. CASE i \in H
      <3>1. Nth(tail, Cardinality(A(i)) + 1) \in tail
        BY <2>1, <1>6, <1>8, <1>1, NthProperties
      <3> QED
        BY <3>1, <2>1, <1>8
    <2>2. CASE i \notin H
      BY <2>2, <1>4, <1>1
    <2> QED
      BY <2>1, <2>2
  <1>10. out = [i \in 1 .. n |-> rs[g[i]]]
    BY <1>3
  <1>11. ASSUME NEW i \in 1 .. n, NEW j \in 1 .. n, g[i] = g[j]
         PROVE  i = j
    <2>1. CASE i \notin H /\ j \notin H
      BY <2>1, <1>9, <1>11
    <2>2. CASE i \in H /\ j \notin H
      BY <2>2, <1>9, <1>11, <1>8
    <2>3. CASE i \notin H /\ j \in H
      BY <2>3, <1>9, <1>11, <1>8
    <2>4. CASE i \in H /\ j \in H
      <3>1. Nth(tail, Cardinality(A(i)) + 1) = Nth(tail, Cardinality(A(j)) + 1)
        BY <2>4, <1>9, <1>11
      <3>2. Cardinality(A(i)) + 1 = Cardinality(A(j)) + 1
        <4>1. /\ Cardinality(A(i)) + 1 \in 1 .. Cardinality(tail)
              /\ Cardinality(A(j)) + 1 \in 1 .. Cardinality(tail)
          BY <2>4, <1>6
        <4>2. PICK a, b : a = Cardinality(A(i)) + 1 /\ b = Cardinality(A(j)) + 1
          OBVIOUS
        <4>3. a \in 1 .. Cardinality(tail) /\ b \in 1 .. Cardinality(tail)
              /\ Nth(tail, a) = Nth(tail, b)
          BY <3>1, <4>1, <4>2, Zenon
        <4>4. a = b
          BY <4>3, <1>8, <1>1, NthDistinct
        <4> QED
          BY <4>2, <4>4
      <3>3. Cardinality(A(i)) = Cardinality(A(j))
        BY <3>2, <2>4, <1>6
      <3>4. ~(i < j) /\ ~(j < i) /\ i \in Int /\ j \in Int
        BY <3>3, <2>4, <1>7
      <3> QED
        BY <3>4
    <2> QED
      BY <2>1, <2>2, <2>3, <2>4
  <1>12. g \in Injection(1 .. n, V)
    <2>1. g \in [1 .. n -> V]
      <3> HIDE DEF V
      <3>1. \A i \in 1 .. n : (IF i \in H THEN Nth(tail, Cardinality(A(i)) + 1) ELSE i) \in V
        BY <1>9, Zenon
      <3> QED
        BY <3>1, Zenon
    <2>2. \A a, b \in 1 .. n : g[a] = g[b] => a = b
      BY <1>11, Zenon
    <2> HIDE DEF g, V, n
    <2> QED
      BY <2>1, <2>2, Zenon DEF Injection, IsInjective
  <1>13. IsFiniteSet(V) /\ Cardinality(V) = n /\ Cardinality(1 .. n) = n
    <2>1. IsFiniteSet(1 .. N) /\ Cardinality(1 .. N) = N /\ Cardinality(1 .. n) = n
      <3> HIDE DEF n
      <3>1. 0 \in Nat /\ n \in Nat /\ 0 <= N /\ 0 <= n
        BY <1>1, <1>4
      <3> QED
        BY <3>1, <1>1, Interval
    <2>2. (1 .. N) \cap H = H
      BY <1>1
    <2>3. PICK I : I = 1 .. N
      OBVIOUS
    <2>4. IsFiniteSet(I \ H) /\ Cardinality(I \ H) = Cardinality(I) - Cardinality(I \cap H)
      BY <2>1, <2>3, FS_Difference
    <2>5. IsFiniteSet(V) /\ Cardinality(V) = Cardinality(1 .. N) - Cardinality(H)
      BY <2>2, <2>3, <2>4
    <2> QED
      BY <2>1, <2>5
  <1>14. g \in Surjection(1 .. n, V)
    <2> HIDE DEF g, V, n
    <2> QED
      BY <1>12, <1>13, FS_Injection
  <1> HIDE DEF g, n
  <1>15. \A v \in V : \E i \in 1 .. n : g[i] = v
    BY <1>14, Zenon DEF Surjection
  <1>16. n \in Nat /\ Len(out) = n /\ DOMAIN out = 1 .. n /\ out \in Seq(Range(out))
    <2>1. out \in [1 .. n -> Range(out)] /\ n \in Nat
      BY <1>10, <1>4 DEF Range
    <2> QED
      BY <2>1
  <1>17. \A i \in 1 .. n : out[i] = rs[g[i]] /\ g[i] \in 1 .. N /\ rs[g[i]] # Hole
    BY <1>10, <1>9, <1>1
  <1>18. Batch(out)
    BY <1>1, <1>11, <1>16, <1>17 DEF Batch
  <1>19. Range(out) = Range(rs) \ {Hole}
    <2>1. Range(out) \subseteq Range(rs) \ {Hole}
      BY <1>1, <1>16, <1>17 DEF Range
    <2>2. ASSUME NEW x \in Range(rs) \ {Hole}
          PROVE  x \in Range(out)
      <3>1. PICK v \in 1 .. N : x = rs[v]
        BY <1>1 DEF Range
      <3>2. v \in V
        BY <3>1, <1>1
      <3>3. PICK i \in 1 .. n : g[i] = v
        BY <3>2, <1>15
      <3> QED
        BY <3>1, <3>3, <1>16, <1>17 DEF Range
    <2> QED
      BY <2>1, <2>2
  <1> QED
    BY <1>18, <1>19 DEF out

-----------------------------------------------------------------------------
(* Loops: functions on 0 .. N that say what holds after each round *)

IsLoop(N, W, F) == F \in [1 .. N -> [W -> W]]
HasRounds(N, W, b, F) ==
    \E f \in [0 .. N -> W] : f[0] = b /\ \A i \in 1 .. N : f[i] = F[i][f[i - 1]]

\* A round is a function on W, so that the rounds have a result.
LEMMA Rounds ==
    ASSUME NEW N \in Nat, NEW W, NEW b \in W, NEW F, IsLoop(N, W, F)
    PROVE  HasRounds(N, W, b, F)
  <1> USE DEF IsLoop, HasRounds
  <1> DEFINE Up(n, f) == /\ f \in [0 .. n -> W] /\ f[0] = b
                         /\ \A i \in 1 .. n : f[i] = F[i][f[i - 1]]
             S == {n \in 0 .. N : \E f : Up(n, f)}
  <1>1. 0 \in S
    <2>1. Up(0, [i \in 0 .. 0 |-> b])
      OBVIOUS
    <2>2. 0 \in 0 .. N
      OBVIOUS
    <2> QED
      BY <2>1, <2>2
  <1>2. ASSUME NEW m \in 1 .. N, m - 1 \in S
        PROVE  m \in S
    <2>1. PICK f : Up(m - 1, f)
      BY <1>2
    <2>2. m \in Nat /\ m # 0 /\ m \in 0 .. N /\ m - 1 \in Nat /\ 0 \in 0 .. m - 1
          /\ m - 1 \in 0 .. m - 1 /\ m \notin 0 .. m - 1
          /\ \A i \in 0 .. m : i = m \/ i \in 0 .. m - 1
      OBVIOUS
    <2> DEFINE g == [i \in 0 .. m |-> IF i = m THEN F[m][f[m - 1]] ELSE f[i]]
    <2>3. f[m - 1] \in W /\ F[m][f[m - 1]] \in W
      BY <2>1, <2>2
    <2>4. g \in [0 .. m -> W]
      BY <2>1, <2>2, <2>3
    <2>5. g[0] = b
      BY <2>1, <2>2
    <2>6. ASSUME NEW i \in 1 .. m
          PROVE  g[i] = F[i][g[i - 1]]
      <3>1. i \in 0 .. m /\ i - 1 \in 0 .. m /\ i - 1 # m /\ (i # m => i \in 1 .. m - 1)
        OBVIOUS
      <3>2. g[i - 1] = f[i - 1]
        BY <3>1
      <3>3. CASE i = m
        BY <3>1, <3>2, <3>3
      <3>4. CASE i # m
        BY <3>1, <3>2, <3>4, <2>1
      <3> QED
        BY <3>3, <3>4
    <2>7. Up(m, g)
      BY <2>4, <2>5, <2>6
    <2> QED
      BY <2>7, <2>2
  <1>3. \A i \in 1 .. N : i - 1 \in S => i \in S
    BY <1>2
  <1> HIDE DEF S
  <1>4. \A i \in 0 .. N : i \in S
    BY <1>1, <1>3, RangeInduction
  <1>5. N \in S
    BY <1>4
  <1> QED
    BY <1>5 DEF S

-----------------------------------------------------------------------------
(* _reorder_batch *)

Partners(swaps, a, b) == <<a, b>> \in swaps

\* What the two pointers know: before i and after j everything is in place.
Swept(N, O, w) ==
    /\ w \in [i : Int, j : Int, swaps : SUBSET (Int \X Int)]
    /\ 1 <= w.i /\ w.j <= N /\ w.i <= w.j + 1
    /\ \A a, b \in Int : Partners(w.swaps, a, b) =>
          /\ 1 <= a /\ a <= N /\ 1 <= b /\ b <= N
          /\ ~(w.i <= a /\ a <= w.j)
          /\ Partners(w.swaps, b, a)
    /\ \A a, b, c \in Int : Partners(w.swaps, a, b) /\ Partners(w.swaps, a, c) => b = c
    /\ \A a \in Int : 1 <= a /\ a < w.i =>
          \/ \E b \in Int : Partners(w.swaps, a, b) /\ b \in O
          \/ a \in O /\ \A b \in Int : ~Partners(w.swaps, a, b)
    /\ \A a \in Int : w.j < a /\ a <= N =>
          \/ \E b \in Int : Partners(w.swaps, a, b) /\ b \notin O
          \/ a \notin O /\ \A b \in Int : ~Partners(w.swaps, a, b)

\* One round of them.
Round(O, w) ==
    IF w.i >= w.j THEN w
    ELSE IF w.i \in O THEN [w EXCEPT !.i = @ + 1]
    ELSE IF w.j \notin O THEN [w EXCEPT !.j = @ - 1]
    ELSE [i |-> w.i + 1, j |-> w.j - 1,
          swaps |-> w.swaps \cup {<<w.i, w.j>>, <<w.j, w.i>>}]

\* A round keeps this and brings the pointers closer until they meet.
LEMMA RoundSwept ==
    ASSUME NEW N \in Nat, NEW O \in SUBSET (1 .. N), NEW w, Swept(N, O, w)
    PROVE  /\ Swept(N, O, Round(O, w))
           /\ w.i < w.j => Round(O, w).j - Round(O, w).i < w.j - w.i
           /\ w.i >= w.j => Round(O, w).i >= Round(O, w).j
  <1> DEFINE x == Round(O, w)
  <1>1. w.i \in Int /\ w.j \in Int /\ w = [i |-> w.i, j |-> w.j, swaps |-> w.swaps]
        /\ w.swaps \in SUBSET (Int \X Int)
    BY DEF Swept
  <1>2. CASE w.i >= w.j
    <2>1. x = w
      BY <1>2 DEF Round
    <2> QED
      BY <2>1, <1>1, <1>2
  <1>3. CASE w.i < w.j /\ w.i \in O
    <2>1. x = [i |-> w.i + 1, j |-> w.j, swaps |-> w.swaps]
      <3>1. ~(w.i >= w.j)
        BY <1>1, <1>3
      <3>2. x = [w EXCEPT !.i = w.i + 1]
        BY <1>3, <3>1, <1>1 DEF Round
      <3> QED
        BY <3>2, <1>1
    <2>2. x.i = w.i + 1 /\ x.j = w.j /\ x.swaps = w.swaps
          /\ x \in [i : Int, j : Int, swaps : SUBSET (Int \X Int)]
      BY <2>1, <1>1
    <2>3. \A b \in Int : ~Partners(w.swaps, w.i, b)
      BY <1>1, <1>3 DEF Swept
    <2> HIDE DEF x
    <2>4. Swept(N, O, x)
      BY <2>2, <2>3, <1>1, <1>3 DEF Swept
    <2> QED
      BY <2>2, <2>4, <1>1, <1>3 DEF x
  <1>4. CASE w.i < w.j /\ w.i \notin O /\ w.j \notin O
    <2>1. x = [i |-> w.i, j |-> w.j - 1, swaps |-> w.swaps]
      <3>1. ~(w.i >= w.j)
        BY <1>1, <1>4
      <3>2. x = [w EXCEPT !.j = w.j - 1]
        BY <1>4, <3>1, <1>1 DEF Round
      <3> QED
        BY <3>2, <1>1
    <2>2. x.i = w.i /\ x.j = w.j - 1 /\ x.swaps = w.swaps
          /\ x \in [i : Int, j : Int, swaps : SUBSET (Int \X Int)]
      BY <2>1, <1>1
    <2>3. \A b \in Int : ~Partners(w.swaps, w.j, b)
      BY <1>1, <1>4 DEF Swept
    <2> HIDE DEF x
    <2>4. Swept(N, O, x)
      BY <2>2, <2>3, <1>1, <1>4 DEF Swept
    <2> QED
      BY <2>2, <2>4, <1>1, <1>4 DEF x
  <1>5. CASE w.i < w.j /\ w.i \notin O /\ w.j \in O
    <2> DEFINE new == w.swaps \cup {<<w.i, w.j>>, <<w.j, w.i>>}
    <2>1. x = [i |-> w.i + 1, j |-> w.j - 1, swaps |-> new]
      <3>1. ~(w.i >= w.j)
        BY <1>1, <1>5
      <3> QED
        BY <1>5, <3>1, <1>1 DEF Round
    <2>2. x.i = w.i + 1 /\ x.j = w.j - 1 /\ x.swaps = new
          /\ x \in [i : Int, j : Int, swaps : SUBSET (Int \X Int)]
      BY <2>1, <1>1
    <2>3. \A b \in Int : ~Partners(w.swaps, w.i, b) /\ ~Partners(w.swaps, w.j, b)
      BY <1>1, <1>5 DEF Swept
    <2>4. \A a, b \in Int : Partners(new, a, b) <=>
            Partners(w.swaps, a, b) \/ (a = w.i /\ b = w.j) \/ (a = w.j /\ b = w.i)
      BY <1>1 DEF Partners
    <2> HIDE DEF x, new
    <2>5. 1 <= w.i /\ w.i <= N /\ 1 <= w.j /\ w.j <= N
      BY <1>1, <1>5 DEF Swept
    <2>6. \A a, b \in Int : Partners(new, a, b) =>
            1 <= a /\ a <= N /\ 1 <= b /\ b <= N /\ ~(x.i <= a /\ a <= x.j)
            /\ Partners(new, b, a)
      BY <2>2, <2>4, <2>5, <1>1, <1>5 DEF Swept
    <2>7. \A a, b, c \in Int : Partners(new, a, b) /\ Partners(new, a, c) => b = c
      BY <2>3, <2>4, <1>1, <1>5 DEF Swept
    <2>8. ASSUME NEW a \in Int, 1 <= a, a < x.i
          PROVE  \/ \E b \in Int : Partners(new, a, b) /\ b \in O
                 \/ a \in O /\ \A b \in Int : ~Partners(new, a, b)
      <3>1. CASE a = w.i
        BY <3>1, <2>4, <1>1, <1>5
      <3>2. CASE a # w.i
        <4>1. 1 <= a /\ a < w.i /\ a # w.j
          BY <2>8, <3>2, <2>2, <1>1, <1>5
        <4> QED
          BY <4>1, <3>2, <2>4, <1>1 DEF Swept
      <3> QED
        BY <3>1, <3>2
    <2>9. ASSUME NEW a \in Int, x.j < a, a <= N
          PROVE  \/ \E b \in Int : Partners(new, a, b) /\ b \notin O
                 \/ a \notin O /\ \A b \in Int : ~Partners(new, a, b)
      <3>1. CASE a = w.j
        BY <3>1, <2>4, <1>1, <1>5
      <3>2. CASE a # w.j
        <4>1. w.j < a /\ a <= N /\ a # w.i
          BY <2>9, <3>2, <2>2, <1>1, <1>5
        <4> QED
          BY <4>1, <3>2, <2>4, <1>1 DEF Swept
      <3> QED
        BY <3>1, <3>2
    <2>10. Swept(N, O, x)
      BY <2>2, <2>5, <2>6, <2>7, <2>8, <2>9, <1>1, <1>5 DEF Swept
    <2> QED
      BY <2>2, <2>10, <1>1, <1>5 DEF x
  <1> QED
    BY <1>1, <1>2, <1>3, <1>4, <1>5

\* Len(rs) rounds are enough for the pointers to meet.
LEMMA SweepSwept ==
    ASSUME NEW rs, NEW N \in Nat, Len(rs) = N, NEW q,
           NEW O, O = {i \in 1 .. N : q[rs[i].req] = 1}
    PROVE  Swept(N, O, Sweep(rs, q)) /\ Sweep(rs, q).i >= Sweep(rs, q).j
  <1> DEFINE W == [i : Int, j : Int, swaps : SUBSET (Int \X Int)]
             start == [i |-> 1, j |-> N, swaps |-> {}]
             One(i) == q[rs[i].req] = 1
             round(w) == IF w.i >= w.j THEN w
                         ELSE IF One(w.i) THEN [w EXCEPT !.i = @ + 1]
                         ELSE IF ~One(w.j) THEN [w EXCEPT !.j = @ - 1]
                         ELSE [i |-> w.i + 1, j |-> w.j - 1,
                               swaps |-> w.swaps \cup {<<w.i, w.j>>, <<w.j, w.i>>}]
             Up(f) == f = [n \in 0 .. N |-> IF n = 0 THEN start ELSE round(f[n - 1])]
             F == [n \in 1 .. N |-> [w \in W |-> round(w)]]
             after == CHOOSE f : Up(f)
  <1>1. ASSUME NEW w \in W
        PROVE  round(w) \in W
    OBVIOUS
  <1>2. F \in [1 .. N -> [W -> W]] /\ start \in W
    <2> HIDE DEF round, W
    <2>1. F \in [1 .. N -> [W -> W]]
      BY <1>1
    <2> QED
      BY <2>1 DEF W
  <1>3. PICK f \in [0 .. N -> W] : f[0] = start /\ \A n \in 1 .. N : f[n] = F[n][f[n - 1]]
    <2>1. IsLoop(N, W, F) /\ start \in W
      BY <1>2 DEF IsLoop
    <2> HIDE DEF F, W, start
    <2>2. HasRounds(N, W, start, F)
      BY <2>1, Rounds
    <2> QED
      BY <2>2 DEF HasRounds
  <1> HIDE DEF start, W, round
  <1>4. Up(f)
    <2>1. ASSUME NEW n \in 0 .. N
          PROVE  f[n] = IF n = 0 THEN start ELSE round(f[n - 1])
      <3>1. CASE n = 0
        BY <3>1, <1>3
      <3>2. CASE n # 0
        <4>1. n \in 1 .. N /\ n - 1 \in 0 .. N
          BY <3>2
        <4>2. f[n - 1] \in W
          BY <4>1
        <4> QED
          BY <4>1, <4>2, <3>2, <1>3
      <3> QED
        BY <3>1, <3>2
    <2> QED
      BY <2>1
  <1>5. Up(after)
    <2> HIDE DEF Up
    <2> QED
      BY <1>4, Zenon
  <1>6. Sweep(rs, q) = after[N]
    BY DEF Sweep, start, round
  <1> HIDE DEF after
  <1>7. after[0] = start /\ \A n \in 1 .. N : after[n] = round(after[n - 1])
    <2>1. \A n \in 0 .. N : after[n] = IF n = 0 THEN start ELSE round(after[n - 1])
      BY <1>5
    <2>2. 0 \in 0 .. N /\ \A n \in 1 .. N : n \in 0 .. N /\ n # 0
      OBVIOUS
    <2> QED
      BY <2>1, <2>2
  <1>8. ASSUME NEW w, Swept(N, O, w)
        PROVE  round(w) = Round(O, w)
    <2>1. w.i \in Int /\ w.j \in Int /\ 1 <= w.i /\ w.j <= N
      BY <1>8 DEF Swept
    <2>2. ~(w.i >= w.j) => (One(w.i) <=> w.i \in O) /\ (One(w.j) <=> w.j \in O)
      <3>1. ~(w.i >= w.j) => w.i \in 1 .. N /\ w.j \in 1 .. N
        BY <2>1
      <3> QED
        BY <3>1
    <2> HIDE DEF One
    <2> QED
      BY <2>2, Zenon DEF round, Round
  <1> DEFINE S == {n \in 0 .. N : /\ Swept(N, O, after[n])
                                  /\ \/ after[n].i >= after[n].j
                                     \/ after[n].j - after[n].i <= N - 1 - n}
  <1>9. 0 \in S
    <2>1. start.i = 1 /\ start.j = N /\ start.swaps = {}
          /\ start \in [i : Int, j : Int, swaps : SUBSET (Int \X Int)]
      BY DEF start
    <2>2. \A a, b : ~Partners({}, a, b)
      BY DEF Partners
    <2>3. Swept(N, O, start)
      BY <2>1, <2>2 DEF Swept
    <2> QED
      BY <2>1, <2>3, <1>7
  <1>10. ASSUME NEW n \in 1 .. N, n - 1 \in S
         PROVE  n \in S
    <2> DEFINE v == after[n - 1]
               x == after[n]
    <2>1. Swept(N, O, v) /\ (v.i >= v.j \/ v.j - v.i <= N - 1 - (n - 1))
      BY <1>10
    <2>2. x = Round(O, v)
      BY <2>1, <1>7, <1>8
    <2> HIDE DEF x, v
    <2>3. /\ Swept(N, O, x)
          /\ v.i < v.j => x.j - x.i < v.j - v.i
          /\ v.i >= v.j => x.i >= x.j
      <3>1. O \in SUBSET (1 .. N)
        OBVIOUS
      <3> QED
        BY <3>1, <2>1, <2>2, RoundSwept
    <2>4. v.i \in Int /\ v.j \in Int /\ x.i \in Int /\ x.j \in Int
      BY <2>1, <2>3 DEF Swept
    <2>5. x.i >= x.j \/ x.j - x.i <= N - 1 - n
      BY <2>1, <2>3, <2>4
    <2>6. n \in 0 .. N
      OBVIOUS
    <2> QED
      BY <2>3, <2>5, <2>6 DEF x
  <1>11. \A n \in 1 .. N : n - 1 \in S => n \in S
    BY <1>10
  <1> HIDE DEF S
  <1>12. \A n \in 0 .. N : n \in S
    BY <1>9, <1>11, RangeInduction
  <1>13. N \in S
    BY <1>12
  <1>14. Swept(N, O, after[N]) /\ (after[N].i >= after[N].j \/ after[N].j - after[N].i <= 0 - 1)
    BY <1>13 DEF S
  <1>15. after[N].i \in Int /\ after[N].j \in Int
    BY <1>14 DEF Swept
  <1> QED
    BY <1>6, <1>14, <1>15

\* p exchanges positions.
Exchange(N, p) ==
    /\ p \in [1 .. N -> 1 .. N]
    /\ \A a \in 1 .. N : p[p[a]] = a

\* With p, the positions before w.i are in O and those after it are not.
Divides(N, O, w, p) ==
    /\ \A a \in 1 .. N : (a < w.i => p[a] \in O) /\ (a > w.i => p[a] \notin O)
    /\ w.i = w.j \/ \A a \in 1 .. N : a = w.i => p[a] \notin O

SwapDivides(N, O, w, rs) ==
    \E p : /\ Exchange(N, p) /\ Divides(N, O, w, p)
           /\ Swap(rs, w.swaps) = [a \in 1 .. N |-> rs[p[a]]]

\* The swaps exchange rows: what they leave at a position was at p[a], and the
\* other way round.  Before the pointers every row has one token, after them none.
LEMMA SwapProperties ==
    ASSUME NEW rs, NEW N \in Nat, DOMAIN rs = 1 .. N,
           NEW O \in SUBSET (1 .. N), NEW w, Swept(N, O, w), w.i >= w.j
    PROVE  SwapDivides(N, O, w, rs)
  <1> DEFINE P(a, b) == Partners(w.swaps, a, b)
             p == [a \in 1 .. N |-> IF \E e \in w.swaps : e[1] = a
                                    THEN (CHOOSE e \in w.swaps : e[1] = a)[2] ELSE a]
  <1>1. /\ w.i \in Int /\ w.j \in Int /\ w.swaps \in SUBSET (Int \X Int)
        /\ 1 <= w.i /\ w.j <= N /\ w.i <= w.j + 1
    BY DEF Swept
  <1>2. \A a, b \in Int : P(a, b) =>
          1 <= a /\ a <= N /\ 1 <= b /\ b <= N /\ ~(w.i <= a /\ a <= w.j) /\ P(b, a)
    BY DEF Swept
  <1>3. \A a, b, c \in Int : P(a, b) /\ P(a, c) => b = c
    BY DEF Swept
  <1>4. \A a \in Int : 1 <= a /\ a < w.i =>
          \/ \E b \in Int : P(a, b) /\ b \in O
          \/ a \in O /\ \A b \in Int : ~P(a, b)
    BY DEF Swept
  <1>5. \A a \in Int : w.j < a /\ a <= N =>
          \/ \E b \in Int : P(a, b) /\ b \notin O
          \/ a \notin O /\ \A b \in Int : ~P(a, b)
    BY DEF Swept
  <1>6. ASSUME NEW a \in 1 .. N
        PROVE  \/ p[a] \in Int /\ P(a, p[a])
               \/ p[a] = a /\ \A b \in Int : ~P(a, b)
    <2>1. CASE \E e \in w.swaps : e[1] = a
      <3> DEFINE e == CHOOSE e \in w.swaps : e[1] = a
      <3>1. e \in w.swaps /\ e[1] = a
        BY <2>1
      <3> HIDE DEF e
      <3>2. e = <<a, e[2]>> /\ e[2] \in Int
        BY <3>1, <1>1
      <3>3. p[a] = e[2]
        BY <2>1 DEF e
      <3> HIDE DEF p
      <3> QED
        BY <3>1, <3>2, <3>3 DEF Partners
    <2>2. CASE ~\E e \in w.swaps : e[1] = a
      <3>1. p[a] = a
        BY <2>2
      <3>2. \A b \in Int : ~P(a, b)
        BY <2>2 DEF Partners
      <3> QED
        BY <3>1, <3>2
    <2> QED
      BY <2>1, <2>2
  <1>7. Swap(rs, w.swaps) = [a \in 1 .. N |-> rs[p[a]]]
    <2>1. \A a \in 1 .. N : (IF \E e \in w.swaps : e[1] = a
                             THEN rs[(CHOOSE e \in w.swaps : e[1] = a)[2]] ELSE rs[a]) = rs[p[a]]
      OBVIOUS
    <2> HIDE DEF p
    <2> QED
      BY <2>1 DEF Swap
  <1>f. p = [a \in 1 .. N |-> p[a]]
    OBVIOUS
  <1> HIDE DEF p, P
  <1>8. ASSUME NEW a \in 1 .. N
        PROVE  p[a] \in 1 .. N
    <2>1. CASE p[a] \in Int /\ P(a, p[a])
      BY <2>1, <1>2
    <2>2. CASE p[a] = a
      BY <2>2
    <2> QED
      BY <2>1, <2>2, <1>6
  <1>9. ASSUME NEW a \in 1 .. N
        PROVE  p[p[a]] = a
    <2>0. p[a] \in 1 .. N /\ p[a] \in Int /\ a \in Int
      BY <1>8
    <2>1. CASE P(a, p[a])
      <3>1. P(p[a], a)
        BY <2>0, <2>1, <1>2
      <3>2. p[p[a]] \in Int /\ P(p[a], p[p[a]])
        BY <3>1, <2>0, <1>6
      <3> QED
        BY <3>1, <3>2, <2>0, <1>3
    <2>2. CASE ~P(a, p[a])
      BY <2>2, <1>6
    <2> QED
      BY <2>1, <2>2
  <1>10. ASSUME NEW a \in 1 .. N, a < w.i
         PROVE  p[a] \in O
    BY <1>10, <1>4, <1>6, <1>3
  <1>11. ASSUME NEW a \in 1 .. N, a > w.j
         PROVE  p[a] \notin O
    BY <1>11, <1>5, <1>6, <1>3
  <1>12. p \in [1 .. N -> 1 .. N]
    BY <1>8, <1>f
  <1>13. \A a \in 1 .. N : (a < w.i => p[a] \in O) /\ (a > w.i => p[a] \notin O)
    BY <1>10, <1>11, <1>1
  <1>14. w.i = w.j \/ \A a \in 1 .. N : a = w.i => p[a] \notin O
    BY <1>11, <1>1
  <1>15. Exchange(N, p) /\ Divides(N, O, w, p)
    BY <1>9, <1>12, <1>13, <1>14 DEF Exchange, Divides
  <1> QED
    BY <1>7, <1>15 DEF SwapDivides

\* Moving rows around keeps them.
LEMMA Permuted ==
    ASSUME NEW rs, NEW N \in Nat, Batch(rs), Len(rs) = N,
           NEW p, Exchange(N, p), NEW new, new = [a \in 1 .. N |-> rs[p[a]]]
    PROVE  /\ Batch(new) /\ Len(new) = N
           /\ Range(new) = Range(rs)
  <1> USE DEF Exchange
  <1>1. DOMAIN rs = 1 .. N
    BY DEF Batch
  <1>2. new \in Seq(Range(new)) /\ Len(new) = N /\ DOMAIN new = 1 .. N
    <2>1. new \in [1 .. N -> Range(new)]
      BY DEF Range
    <2> QED
      BY <2>1
  <1>3. \A a \in 1 .. N : new[a] = rs[p[a]] /\ p[a] \in 1 .. N
    OBVIOUS
  <1>4. \A a \in 1 .. N : rs[a] = new[p[a]] /\ p[a] \in 1 .. N
    BY <1>3
  <1>5. Range(new) = Range(rs)
    BY <1>1, <1>2, <1>3, <1>4 DEF Range
  <1>6. \A i, j \in 1 .. N : new[i].req \in Reqs /\ new[i].req = new[j].req => i = j
    <2> SUFFICES ASSUME NEW i \in 1 .. N, NEW j \in 1 .. N, new[i].req \in Reqs,
                        new[i].req = new[j].req
                 PROVE  i = j
      OBVIOUS
    <2>1. p[i] = p[j]
      BY <1>1, <1>3 DEF Batch
    <2> QED
      BY <2>1
  <1>7. Batch(new)
    BY <1>1, <1>2, <1>3, <1>6 DEF Batch
  <1> QED
    BY <1>2, <1>5, <1>7

\* Reordering keeps the rows, and request_distribution[0] says how many of them,
\* the first ones, have one scheduled token.
LEMMA ReorderProperties ==
    ASSUME NEW rs, Batch(rs), NEW q
    PROVE  /\ Batch(Reorder(rs, q).rows)
           /\ Range(Reorder(rs, q).rows) = Range(rs)
           /\ rs # <<>> => \A i \in DOMAIN Reorder(rs, q).rows :
                 (i <= Reorder(rs, q).ndec) <=> (q[Reorder(rs, q).rows[i].req] = 1)
  <1> DEFINE N == Len(rs)
             b == Reorder(rs, q)
             O == {i \in 1 .. N : q[rs[i].req] = 1}
  <1>1. N \in Nat /\ DOMAIN rs = 1 .. N
    BY DEF Batch
  <1>2. CASE \A i \in DOMAIN rs : q[rs[i].req] = 1
    <2>1. b.rows = rs /\ (rs # <<>> => b.ndec = N)
      BY <1>2 DEF Reorder
    <2> HIDE DEF b, N
    <2>2. \A i \in DOMAIN rs : i <= N
      BY <1>1
    <2> QED
      BY <1>2, <2>1, <2>2 DEF b
  <1>3. CASE ~\A i \in DOMAIN rs : q[rs[i].req] = 1
    <2> DEFINE w == Sweep(rs, q)
               new == Swap(rs, w.swaps)
    <2>1. b = [rows |-> new, ndec |-> IF q[new[w.i].req] = 1 THEN w.i ELSE w.i - 1]
      BY <1>3 DEF Reorder
    <2> HIDE DEF N, b
    <2>2. Swept(N, O, w) /\ w.i >= w.j
      BY <1>1, SweepSwept DEF N
    <2>3. O \in SUBSET (1 .. N)
      OBVIOUS
    <2>o. \A a \in 1 .. N : a \in O <=> q[rs[a].req] = 1
      OBVIOUS
    <2> HIDE DEF w, O
    <2>p. PICK p : /\ Exchange(N, p) /\ Divides(N, O, w, p)
                   /\ new = [a \in 1 .. N |-> rs[p[a]]]
      <3>1. SwapDivides(N, O, w, rs)
        BY <1>1, <2>2, <2>3, SwapProperties
      <3> QED
        BY <3>1 DEF SwapDivides
    <2> HIDE DEF new
    <2>5. Batch(new) /\ Len(new) = N /\ Range(new) = Range(rs)
      <3>1. N = Len(rs)
        BY DEF N
      <3> QED
        BY <1>1, <2>p, <3>1, Permuted
    <2>4. /\ p \in [1 .. N -> 1 .. N]
          /\ \A a \in 1 .. N : p[p[a]] = a
          /\ new = [a \in 1 .. N |-> rs[p[a]]]
          /\ \A a \in 1 .. N : (a < w.i => p[a] \in O) /\ (a > w.i => p[a] \notin O)
          /\ w.i = w.j \/ \A a \in 1 .. N : a = w.i => p[a] \notin O
      BY <2>p DEF Exchange, Divides
    <2>6. DOMAIN new = 1 .. N /\ \A a \in 1 .. N : q[new[a].req] = 1 <=> p[a] \in O
      BY <2>4, <2>o
    <2>7. w.i \in Int /\ w.j \in Int /\ 1 <= w.i /\ w.i <= w.j + 1 /\ w.j <= N
      BY <2>2 DEF Swept
    <2>8. w.i <= N
      <3>1. PICK i \in 1 .. N : i \notin O
        BY <1>1, <1>3, <2>o
      <3>2. p[i] \in 1 .. N /\ p[p[i]] = i
        BY <2>4
      <3>3. ~(p[i] < w.i)
        BY <3>1, <3>2, <2>4
      <3> QED
        BY <3>2, <3>3, <2>7, <1>1
    <2>9. w.i \in 1 .. N
      BY <2>7, <2>8, <1>1
    <2>10. ASSUME NEW a \in 1 .. N
           PROVE  (a <= b.ndec) <=> (q[new[a].req] = 1)
      <3>1. CASE p[w.i] \in O
        <4>1. b.ndec = w.i
          BY <3>1, <2>1, <2>6, <2>9
        <4>2. (a <= w.i) <=> p[a] \in O
          BY <3>1, <2>4, <2>7, <2>9
        <4> QED
          BY <4>1, <4>2, <2>6
      <3>2. CASE p[w.i] \notin O
        <4>1. b.ndec = w.i - 1
          BY <3>2, <2>1, <2>6, <2>9
        <4>2. (a <= w.i - 1) <=> p[a] \in O
          BY <3>2, <2>4, <2>7, <2>9
        <4> QED
          BY <4>1, <4>2, <2>6
      <3> QED
        BY <3>1, <3>2
    <2>11. b.rows = new
      BY <2>1
    <2> QED
      BY <2>5, <2>6, <2>10, <2>11 DEF b
  <1> QED
    BY <1>2, <1>3

-----------------------------------------------------------------------------
(* add_request *)

\* Two queues with no request in common, one after the other.
LEMMA InjectiveConcat ==
    ASSUME NEW T, NEW s \in Seq(T), NEW t \in Seq(T)
    PROVE  /\ s \o t \in Seq(T)
           /\ Range(s \o t) = Range(s) \cup Range(t)
           /\ IsInjective(s) /\ IsInjective(t) /\ Range(s) \cap Range(t) = {}
                 => IsInjective(s \o t)
  <1> DEFINE u == s \o t
  <1>1. /\ u \in Seq(T) /\ Len(s) \in Nat /\ Len(t) \in Nat /\ Len(u) = Len(s) + Len(t)
        /\ DOMAIN u = 1 .. Len(s) + Len(t) /\ DOMAIN s = 1 .. Len(s) /\ DOMAIN t = 1 .. Len(t)
        /\ \A i \in 1 .. Len(s) : u[i] = s[i]
        /\ \A i \in 1 .. Len(t) : u[Len(s) + i] = t[i]
    OBVIOUS
  <1> HIDE DEF u
  <1>2. \A i \in DOMAIN u : \/ i \in DOMAIN s /\ u[i] = s[i]
                            \/ i - Len(s) \in DOMAIN t /\ u[i] = t[i - Len(s)]
    <2>1. ASSUME NEW i \in DOMAIN u, i \notin DOMAIN s
          PROVE  i - Len(s) \in DOMAIN t /\ u[i] = t[i - Len(s)]
      <3>1. i - Len(s) \in 1 .. Len(t) /\ i = Len(s) + (i - Len(s))
        BY <2>1, <1>1
      <3> QED
        BY <3>1, <1>1
    <2> QED
      BY <2>1, <1>1
  <1>3. /\ \A i \in DOMAIN s : i \in DOMAIN u
        /\ \A i \in DOMAIN t : Len(s) + i \in DOMAIN u
    BY <1>1
  <1>4. Range(u) = Range(s) \cup Range(t)
    <2>1. Range(u) \subseteq Range(s) \cup Range(t)
      BY <1>2 DEF Range
    <2>2. Range(s) \subseteq Range(u) /\ Range(t) \subseteq Range(u)
      BY <1>1, <1>3 DEF Range
    <2> QED
      BY <2>1, <2>2
  <1>5. ASSUME IsInjective(s), IsInjective(t), Range(s) \cap Range(t) = {}
        PROVE  IsInjective(u)
    <2> SUFFICES ASSUME NEW i \in DOMAIN u, NEW j \in DOMAIN u, u[i] = u[j]
                 PROVE  i = j
      BY DEF IsInjective
    <2>1. i \in Int /\ j \in Int
      BY <1>1
    <2>2. \A a \in DOMAIN s, b \in DOMAIN t : s[a] # t[b]
      BY <1>5 DEF Range
    <2>3. CASE i \in DOMAIN s /\ u[i] = s[i] /\ j \in DOMAIN s /\ u[j] = s[j]
      BY <2>3, <1>5 DEF IsInjective
    <2>4. CASE /\ i - Len(s) \in DOMAIN t /\ u[i] = t[i - Len(s)]
               /\ j - Len(s) \in DOMAIN t /\ u[j] = t[j - Len(s)]
      <3>1. i - Len(s) = j - Len(s)
        BY <2>4, <1>5 DEF IsInjective
      <3> QED
        BY <3>1, <2>1, <1>1
    <2> QED
      BY <2>2, <2>3, <2>4, <1>2
  <1> QED
    BY <1>1, <1>4, <1>5 DEF u

IsSlots(N, M, H, slot) ==
    /\ slot \in [1 .. M -> Nat]
    /\ \A k \in 1 .. M : slot[k] = IF k <= Cardinality(H) THEN Nth(H, k)
                                   ELSE N + k - Cardinality(H)

Slotted(N, M, H, slot) ==
    /\ \A k \in 1 .. M : slot[k] \in H \/ slot[k] > N
    /\ \A k, l \in 1 .. M : slot[k] = slot[l] => k = l
    /\ \E L \in Nat : /\ N <= L
                      /\ 1 .. N \cup {slot[k] : k \in 1 .. M} = 1 .. L

\* Each request gets a row of its own: holes first, then at the end.
LEMMA SlotProperties ==
    ASSUME NEW N \in Nat, NEW M \in Nat, NEW H \in SUBSET (1 .. N),
           NEW slot, IsSlots(N, M, H, slot)
    PROVE  Slotted(N, M, H, slot)
  <1> USE DEF IsSlots, Slotted
  <1> DEFINE C == Cardinality(H)
  <1>1. IsFiniteSet(H) /\ C \in Nat
    BY FiniteWithin, FS_CardinalityType
  <1> HIDE DEF C
  <1>2. ASSUME NEW k \in 1 .. M, k <= C
        PROVE  slot[k] = Nth(H, k) /\ slot[k] \in H /\ slot[k] <= N /\ k \in 1 .. C
    <2>1. k \in 1 .. C
      BY <1>1, <1>2
    <2>2. Nth(H, k) \in H
      BY <2>1, NthProperties DEF C
    <2>3. slot[k] = Nth(H, k)
      BY <1>2 DEF C
    <2> QED
      BY <2>1, <2>2, <2>3
  <1>3. ASSUME NEW k \in 1 .. M, ~(k <= C)
        PROVE  slot[k] = N + k - C /\ slot[k] > N
    <2>1. slot[k] = N + k - C
      BY <1>3 DEF C
    <2> QED
      BY <2>1, <1>1, <1>3
  <1>4. ASSUME NEW k \in 1 .. M, NEW l \in 1 .. M, slot[k] = slot[l]
        PROVE  k = l
    <2>1. CASE k <= C /\ l <= C
      <3>1. k \in 1 .. Cardinality(H) /\ l \in 1 .. Cardinality(H) /\ Nth(H, k) = Nth(H, l)
        BY <2>1, <1>2, <1>4 DEF C
      <3> QED
        BY <3>1, NthDistinct
    <2>2. CASE ~(k <= C) /\ ~(l <= C)
      BY <2>2, <1>3, <1>4, <1>1
    <2>3. CASE k <= C /\ ~(l <= C)
      BY <2>3, <1>2, <1>3, <1>4, <1>1
    <2>4. CASE ~(k <= C) /\ l <= C
      BY <2>4, <1>2, <1>3, <1>4, <1>1
    <2> QED
      BY <2>1, <2>2, <2>3, <2>4
  <1> DEFINE L == IF M <= C THEN N ELSE N + M - C
             D == 1 .. N \cup {slot[k] : k \in 1 .. M}
  <1>5. L \in Nat /\ N <= L
    BY <1>1
  <1>6. ASSUME NEW i \in D
        PROVE  i \in 1 .. L
    <2>1. CASE i \in 1 .. N
      BY <2>1, <1>5
    <2>2. CASE \E k \in 1 .. M : i = slot[k]
      <3>1. PICK k \in 1 .. M : i = slot[k]
        BY <2>2
      <3>2. CASE k <= C
        <4>1. slot[k] \in 1 .. N
          BY <3>2, <1>2
        <4> QED
          BY <4>1, <3>1, <1>5
      <3>3. CASE ~(k <= C)
        BY <3>1, <3>3, <1>3, <1>1
      <3> QED
        BY <3>2, <3>3
    <2> QED
      BY <2>1, <2>2
  <1>7. ASSUME NEW i \in 1 .. L
        PROVE  i \in D
    <2>1. CASE i \in 1 .. N
      BY <2>1
    <2>2. CASE i \notin 1 .. N
      <3>1. i - N + C \in 1 .. M /\ ~(i - N + C <= C) /\ i = N + (i - N + C) - C
        BY <2>2, <1>1
      <3>2. slot[i - N + C] = i
        BY <3>1, <1>3
      <3> QED
        BY <3>1, <3>2
    <2> QED
      BY <2>1, <2>2
  <1>8. D = 1 .. L
    <2> HIDE DEF D, L
    <2> QED
      BY <1>6, <1>7
  <1>9. \A k \in 1 .. M : slot[k] \in H \/ slot[k] > N
    BY <1>2, <1>3
  <1> QED
    BY <1>4, <1>5, <1>8, <1>9

\* The rows there were, and one for each scheduled request that had none.
LEMMA AddRequestsProperties ==
    ASSUME NEW rs, Batch(rs), NEW c, NEW o,
           o.order \in Seq(Reqs), IsInjective(o.order),
           \A i \in DOMAIN rs : rs[i].req \notin Range(Fresh(o))
    PROVE  /\ Batch(AddRequests(rs, c, o))
           /\ Range(AddRequests(rs, c, o)) \ {Hole} =
                 (Range(rs) \ {Hole}) \cup
                 {NewRow(c, r) : r \in Range(o.order) \ {rs[i].req : i \in DOMAIN rs}}
  <1> DEFINE N == Len(rs)
             H == Holes(rs)
             here == {rs[i].req : i \in DOMAIN rs}
             rest == RemoveAll(o.order, ToSet(Fresh(o)) \cup here)
             adds == Fresh(o) \o rest
             M == Len(adds)
             slot == [k \in 1 .. M |-> IF k <= Cardinality(H) THEN Nth(H, k)
                                       ELSE N + k - Cardinality(H)]
             out == AddRequests(rs, c, o)
  <1>1. N \in Nat /\ DOMAIN rs = 1 .. N /\ H \in SUBSET (1 .. N)
        /\ \A i \in 1 .. N : i \in H <=> rs[i] = Hole
    BY DEF Batch, Holes
  <1>2. /\ Fresh(o) \in Seq(Reqs) /\ IsInjective(Fresh(o))
        /\ Range(Fresh(o)) \subseteq Range(o.order)
    BY RemoveAllProperties DEF Fresh
  <1>3. /\ rest \in Seq(Reqs) /\ IsInjective(rest)
        /\ Range(rest) = Range(o.order) \ (Range(Fresh(o)) \cup here)
    <2>1. ToSet(Fresh(o)) = Range(Fresh(o))
      BY DEF ToSet, Range
    <2> QED
      BY <2>1, RemoveAllProperties
  <1>4. here \cap Range(Fresh(o)) = {}
    OBVIOUS
  <1>5. /\ adds \in Seq(Reqs) /\ IsInjective(adds) /\ Range(adds) = Range(o.order) \ here
    <2> HIDE DEF rest, here
    <2>1. Range(Fresh(o)) \cap Range(rest) = {}
      BY <1>3
    <2>2. /\ adds \in Seq(Reqs) /\ IsInjective(adds)
          /\ Range(adds) = Range(Fresh(o)) \cup Range(rest)
      BY <1>2, <1>3, <2>1, InjectiveConcat
    <2>3. Range(adds) = Range(o.order) \ here
      BY <2>2, <1>2, <1>3, <1>4
    <2> QED
      BY <2>2, <2>3
  <1>6. M \in Nat /\ DOMAIN adds = 1 .. M
    BY <1>5
  <1>7. out = [i \in 1 .. N \cup {slot[k] : k \in 1 .. M} |->
                 IF \E k \in 1 .. M : slot[k] = i
                 THEN NewRow(c, adds[CHOOSE k \in 1 .. M : slot[k] = i]) ELSE rs[i]]
    <2> DEFINE sl(k) == IF k <= Cardinality(H) THEN Nth(H, k) ELSE Len(rs) + k - Cardinality(H)
    <2>1. out = [i \in DOMAIN rs \cup {sl(k) : k \in DOMAIN adds} |->
                 IF \E k \in DOMAIN adds : sl(k) = i
                 THEN NewRow(c, adds[CHOOSE k \in DOMAIN adds : sl(k) = i]) ELSE rs[i]]
      BY Zenon DEF AddRequests
    <2>2. \A k \in 1 .. M : sl(k) = slot[k]
      OBVIOUS
    <2> HIDE DEF sl, slot, M, adds, H, N, out
    <2>3. {sl(k) : k \in 1 .. M} = {slot[k] : k \in 1 .. M}
      BY <2>2
    <2>4. ASSUME NEW i
          PROVE  /\ (\E k \in 1 .. M : sl(k) = i) <=> (\E k \in 1 .. M : slot[k] = i)
                 /\ (CHOOSE k \in 1 .. M : sl(k) = i) = (CHOOSE k \in 1 .. M : slot[k] = i)
      <3>1. \A k \in 1 .. M : sl(k) = i <=> slot[k] = i
        BY <2>2
      <3> QED
        BY <3>1
    <2> QED
      BY <2>1, <2>3, <2>4, <1>1, <1>6
  <1>8. slot \in [1 .. M -> Nat]
    <2>1. IsFiniteSet(H) /\ Cardinality(H) \in Nat
      BY <1>1, FiniteWithin, FS_CardinalityType
    <2> HIDE DEF H, N, M
    <2>2. ASSUME NEW k \in 1 .. M
          PROVE  (IF k <= Cardinality(H) THEN Nth(H, k) ELSE N + k - Cardinality(H)) \in Nat
      <3>1. CASE k <= Cardinality(H)
        <4>1. k \in 1 .. Cardinality(H)
          BY <3>1, <2>1
        <4>2. Nth(H, k) \in H
          BY <4>1, <1>1, NthProperties
        <4>3. Nth(H, k) \in Nat
          <5>1. \A i \in H : i \in Nat
            BY <1>1
          <5> QED
            BY <4>2, <5>1, Zenon
        <4> QED
          BY <4>3, <3>1, Zenon
      <3>2. CASE ~(k <= Cardinality(H))
        BY <3>2, <2>1, <1>1
      <3> QED
        BY <3>1, <3>2
    <2> QED
      BY <2>2
  <1>9. \A k \in 1 .. M : slot[k] = IF k <= Cardinality(H) THEN Nth(H, k)
                                    ELSE N + k - Cardinality(H)
    OBVIOUS
  <1> HIDE DEF slot, M, adds, H, N, out, rest
  <1>10. /\ \A k \in 1 .. M : slot[k] \in H \/ slot[k] > N
         /\ \A k, l \in 1 .. M : slot[k] = slot[l] => k = l
         /\ \E L \in Nat : /\ N <= L
                           /\ 1 .. N \cup {slot[k] : k \in 1 .. M} = 1 .. L
    <2>1. IsSlots(N, M, H, slot)
      BY <1>8, <1>9 DEF IsSlots
    <2>2. Slotted(N, M, H, slot)
      BY <2>1, <1>1, <1>6, SlotProperties
    <2> QED
      BY <2>2 DEF Slotted
  <1>11. PICK L \in Nat : N <= L /\ 1 .. N \cup {slot[k] : k \in 1 .. M} = 1 .. L
    BY <1>10
  <1>12. out \in Seq(Range(out)) /\ DOMAIN out = 1 .. L
    <2>1. out \in [1 .. L -> Range(out)]
      BY <1>7, <1>11 DEF Range
    <2> QED
      BY <2>1
  <1>13. ASSUME NEW k \in 1 .. M
         PROVE  /\ slot[k] \in 1 .. L /\ out[slot[k]] = NewRow(c, adds[k])
                /\ adds[k] \in Reqs
    <2>1. slot[k] \in 1 .. L
      BY <1>11
    <2>2. (CHOOSE l \in 1 .. M : slot[l] = slot[k]) = k
      BY <1>10
    <2>3. adds[k] \in Reqs
      BY <1>5, <1>6
    <2> QED
      BY <2>1, <2>2, <2>3, <1>7, <1>11
  <1>14. ASSUME NEW i \in 1 .. L
         PROVE  \/ \E k \in 1 .. M : slot[k] = i
                \/ i \in 1 .. N /\ out[i] = rs[i]
    BY <1>7, <1>11
  <1>15. ASSUME NEW i \in 1 .. N, rs[i] # Hole
         PROVE  i \in 1 .. L /\ out[i] = rs[i]
    <2>1. \A k \in 1 .. M : slot[k] # i
      BY <1>15, <1>10, <1>1, <1>8
    <2>2. i \in 1 .. L
      BY <1>11
    <2> QED
      BY <2>1, <2>2, <1>14
  <1>16. ASSUME NEW r
         PROVE  NewRow(c, r).req = r /\ IsRow(NewRow(c, r))
    BY DEF NewRow, IsRow
  <1>17. \A k \in 1 .. M : adds[k] \notin here
    BY <1>5, <1>6 DEF Range
  <1>18. ASSUME NEW i \in 1 .. L
         PROVE  out[i] = Hole \/ (IsRow(out[i]) /\ out[i].req \in Reqs)
    <2>1. CASE \E k \in 1 .. M : slot[k] = i
      BY <2>1, <1>13, <1>16
    <2>2. CASE i \in 1 .. N /\ out[i] = rs[i]
      BY <2>2, <1>1 DEF Batch
    <2> QED
      BY <2>1, <2>2, <1>14
  <1>19. ASSUME NEW i \in 1 .. L, NEW j \in 1 .. L,
                out[i].req \in Reqs, out[i].req = out[j].req
         PROVE  i = j
    <2>1. CASE (\E k \in 1 .. M : slot[k] = i) /\ (\E k \in 1 .. M : slot[k] = j)
      <3>1. PICK k \in 1 .. M, l \in 1 .. M : slot[k] = i /\ slot[l] = j
        BY <2>1
      <3>2. adds[k] = adds[l]
        BY <3>1, <1>13, <1>16, <1>19
      <3>3. k = l
        BY <3>2, <1>5, <1>6 DEF IsInjective
      <3> QED
        BY <3>1, <3>3
    <2>2. CASE (\E k \in 1 .. M : slot[k] = i) /\ (j \in 1 .. N /\ out[j] = rs[j])
      BY <2>2, <1>1, <1>13, <1>16, <1>17, <1>19
    <2>3. CASE (i \in 1 .. N /\ out[i] = rs[i]) /\ (\E k \in 1 .. M : slot[k] = j)
      BY <2>3, <1>1, <1>13, <1>16, <1>17, <1>19
    <2>4. CASE (i \in 1 .. N /\ out[i] = rs[i]) /\ (j \in 1 .. N /\ out[j] = rs[j])
      BY <2>4, <1>1, <1>19 DEF Batch
    <2> QED
      BY <2>1, <2>2, <2>3, <2>4, <1>14
  <1>20. Batch(out)
    BY <1>12, <1>18, <1>19 DEF Batch
  <1>21. Range(out) \ {Hole} = (Range(rs) \ {Hole}) \cup
                 {NewRow(c, r) : r \in Range(o.order) \ here}
    <2>1. ASSUME NEW x \in Range(out), x # Hole
          PROVE  x \in Range(rs) \/ \E r \in Range(o.order) \ here : x = NewRow(c, r)
      <3>1. PICK i \in 1 .. L : x = out[i]
        BY <1>12 DEF Range
      <3>2. CASE \E k \in 1 .. M : slot[k] = i
        <4>1. PICK k \in 1 .. M : slot[k] = i
          BY <3>2
        <4>2. adds[k] \in Range(adds) /\ x = NewRow(c, adds[k])
          BY <4>1, <3>1, <1>6, <1>13 DEF Range
        <4> QED
          BY <4>2, <1>5
      <3>3. CASE i \in 1 .. N /\ out[i] = rs[i]
        BY <3>1, <3>3, <1>1 DEF Range
      <3> QED
        BY <3>2, <3>3, <1>14
    <2>2. ASSUME NEW x \in Range(rs), x # Hole
          PROVE  x \in Range(out)
      <3>1. PICK i \in 1 .. N : x = rs[i]
        BY <1>1 DEF Range
      <3> QED
        BY <2>2, <3>1, <1>12, <1>15 DEF Range
    <2>3. ASSUME NEW r \in Range(o.order) \ here
          PROVE  NewRow(c, r) \in Range(out) /\ NewRow(c, r) # Hole
      <3>1. PICK k \in 1 .. M : r = adds[k]
        BY <1>5, <1>6 DEF Range
      <3>2. NewRow(c, r) = out[slot[k]] /\ slot[k] \in 1 .. L /\ r \in Reqs
        BY <3>1, <1>13
      <3>3. NewRow(c, r) # Hole
        BY <3>2, <1>16, RunnerAssumption DEF Hole
      <3> QED
        BY <3>2, <3>3, <1>12 DEF Range
    <2> HIDE DEF here
    <2> QED
      BY <2>1, <2>2, <2>3
  <1> QED
    BY <1>20, <1>21 DEF out

-----------------------------------------------------------------------------
(* What the scheduler decides *)

States == {"new", "waiting", "running", "preempted", "done"}
Sched(B) == [st : States, prompt : Int, ntok : Int, ph : Int, comp : Int, blk : B,
             discard : BOOLEAN, back : BOOLEAN]
IsSched(s) == s \in Sched({s.blk})

\* Every request is in the queue its state says, once.
Queues ==
    /\ sch = [r \in Reqs |-> sch[r]]
    /\ \A r \in Reqs : IsSched(sch[r])
    /\ run \in Seq(Reqs) /\ IsInjective(run)
    /\ wait \in Seq(Reqs) /\ IsInjective(wait)
    /\ \A r \in Reqs : r \in Range(run) <=> sch[r].st = "running"
    /\ \A r \in Reqs : r \in Range(wait) <=> sch[r].st \in {"waiting", "preempted"}
    /\ finished \in SUBSET {r \in Reqs : sch[r].st = "done"}

\* The smaller of two numbers.
LEMMA MinPair ==
    ASSUME NEW a \in Int, NEW b \in Int
    PROVE  Min({a, b}) \in {a, b} /\ Min({a, b}) <= a /\ Min({a, b}) <= b
  <1>1. \E x \in {a, b} : \A y \in {a, b} : x <= y
    OBVIOUS
  <1> QED
    BY <1>1 DEF Min

\* What is left to compute is a number.
LEMMA LeftInt ==
    ASSUME Queues, NEW r \in Reqs
    PROVE  Left(r) \in Int
  BY DEF Queues, IsSched, Sched, Left

\* What remains of the budget before and after each request of the order.
Spent(order, left) ==
    /\ left[0] = MaxBatchedTokens
    /\ \A i \in 0 .. Len(order) : left[i] \in Int
    /\ \A i \in 1 .. Len(order) : /\ Quotas(order)[i] = Min({Left(order[i]), left[i - 1]})
                                  /\ left[i] = left[i - 1] - Quotas(order)[i]

\* Each quota is what is left to compute or what is left of the budget.
LEMMA QuotasSpent ==
    ASSUME Queues, NEW order \in Seq(Reqs)
    PROVE  DOMAIN Quotas(order) = DOMAIN order /\ \E left : Spent(order, left)
  <1> DEFINE N == Len(order)
             quota(i, left) == Min({Left(order[i]), left})
             Up(f) == f = [i \in 0 .. N |-> IF i = 0 THEN MaxBatchedTokens
                                            ELSE f[i - 1] - quota(i, f[i - 1])]
             F == [i \in 1 .. N |-> [x \in Int |-> x - quota(i, x)]]
             left == CHOOSE f : Up(f)
  <1>1. N \in Nat /\ DOMAIN order = 1 .. N /\ \A i \in 1 .. N : order[i] \in Reqs
    OBVIOUS
  <1>2. ASSUME NEW i \in 1 .. N, NEW x \in Int
        PROVE  quota(i, x) \in Int /\ quota(i, x) <= Left(order[i])
    <2>1. Left(order[i]) \in Int
      BY <1>1, LeftInt
    <2> QED
      BY <2>1, MinPair
  <1>0. Quotas(order) = [i \in DOMAIN order |-> quota(i, left[i - 1])]
    BY DEF Quotas
  <1> HIDE DEF quota, left, N
  <1>3. IsLoop(N, Int, F) /\ MaxBatchedTokens \in Int
    BY <1>2, RunnerAssumption, SMTT(30) DEF IsLoop
  <1>4. HasRounds(N, Int, MaxBatchedTokens, F)
    <2> HIDE DEF F
    <2> QED
      BY <1>1, <1>3, Rounds
  <1>5. PICK f \in [0 .. N -> Int] : /\ f[0] = MaxBatchedTokens
                                     /\ \A i \in 1 .. N : f[i] = F[i][f[i - 1]]
    <2> HIDE DEF F
    <2> QED
      BY <1>4, Zenon DEF HasRounds
  <1>6. ASSUME NEW i \in 0 .. N
        PROVE  f[i] = IF i = 0 THEN MaxBatchedTokens ELSE f[i - 1] - quota(i, f[i - 1])
    <2>1. CASE i = 0
      BY <2>1, <1>5
    <2>2. CASE i # 0
      <3>1. i \in 1 .. N /\ i - 1 \in 0 .. N
        BY <2>2, <1>1
      <3>2. f[i - 1] \in Int
        BY <3>1
      <3>3. F[i][f[i - 1]] = f[i - 1] - quota(i, f[i - 1])
        BY <3>1, <3>2
      <3> QED
        BY <3>1, <3>3, <2>2, <1>5
    <2> QED
      BY <2>1, <2>2
  <1>7. Up(f)
    BY <1>6
  <1>8. Up(left)
    <2> HIDE DEF Up
    <2> QED
      BY <1>7, Zenon DEF left
  <1>9. left[0] = MaxBatchedTokens
        /\ \A i \in 1 .. N : left[i] = left[i - 1] - quota(i, left[i - 1])
    <2>1. \A i \in 0 .. N : left[i] = IF i = 0 THEN MaxBatchedTokens
                                      ELSE left[i - 1] - quota(i, left[i - 1])
      BY <1>8
    <2>2. 0 \in 0 .. N /\ \A i \in 1 .. N : i \in 0 .. N /\ i # 0
      BY <1>1
    <2> QED
      BY <2>1, <2>2
  <1> HIDE DEF Up, F
  <1> DEFINE S == {i \in 0 .. N : left[i] \in Int}
  <1>10. 0 \in S
    BY <1>1, <1>3, <1>9
  <1>11. ASSUME NEW i \in 1 .. N, i - 1 \in S
         PROVE  i \in S
    <2>1. left[i - 1] \in Int /\ i \in 0 .. N
      BY <1>1, <1>11
    <2>2. left[i] = left[i - 1] - quota(i, left[i - 1]) /\ quota(i, left[i - 1]) \in Int
      BY <2>1, <1>2, <1>9
    <2> QED
      BY <2>1, <2>2
  <1>12. \A i \in 1 .. N : i - 1 \in S => i \in S
    BY <1>11
  <1>13. \A i \in 0 .. N : left[i] \in Int
    <2> HIDE DEF S
    <2>1. \A i \in 0 .. N : i \in S
      BY <1>1, <1>10, <1>12, RangeInduction
    <2> QED
      BY <2>1 DEF S
  <1>14. \A i \in 1 .. N : left[i - 1] \in Int
    <2>1. \A i \in 1 .. N : i - 1 \in 0 .. N
      BY <1>1
    <2> QED
      BY <2>1, <1>13
  <1>15. ASSUME NEW i \in 1 .. N
         PROVE  /\ Quotas(order)[i] = Min({Left(order[i]), left[i - 1]})
                /\ left[i] = left[i - 1] - Quotas(order)[i]
    <2>1. Quotas(order)[i] = quota(i, left[i - 1])
      BY <1>0, <1>1
    <2>2. left[i] = left[i - 1] - quota(i, left[i - 1])
      BY <1>9
    <2>3. quota(i, left[i - 1]) = Min({Left(order[i]), left[i - 1]})
      BY DEF quota
    <2> QED
      BY <2>1, <2>2, <2>3
  <1>16. Spent(order, left)
    BY <1>9, <1>13, <1>15 DEF Spent, N
  <1> QED
    BY <1>0, <1>1, <1>16

\* So no request is given more than it has left.
LEMMA QuotasProperties ==
    ASSUME Queues, NEW order \in Seq(Reqs)
    PROVE  /\ DOMAIN Quotas(order) = DOMAIN order
           /\ \A i \in DOMAIN order : /\ Quotas(order)[i] \in Int
                                      /\ Quotas(order)[i] <= Left(order[i])
  <1>1. PICK left : Spent(order, left)
    BY QuotasSpent
  <1>2. DOMAIN Quotas(order) = DOMAIN order
    BY QuotasSpent
  <1>3. ASSUME NEW i \in DOMAIN order
        PROVE  Quotas(order)[i] \in Int /\ Quotas(order)[i] <= Left(order[i])
    <2>1. i \in 1 .. Len(order) /\ i - 1 \in 0 .. Len(order) /\ order[i] \in Reqs
      OBVIOUS
    <2>2. PICK a \in Int, b \in Int : a = Left(order[i]) /\ b = left[i - 1]
      BY <2>1, <1>1, LeftInt DEF Spent
    <2>3. Quotas(order)[i] = Min({a, b})
      BY <2>1, <2>2, <1>1 DEF Spent
    <2>4. Min({a, b}) \in {a, b} /\ Min({a, b}) <= a
      BY MinPair
    <2> QED
      BY <2>2, <2>3, <2>4
  <1> QED
    BY <1>2, <1>3

\* An empty order needs no block, so that it always fits.
LEMMA EmptyFits ==
    Fits(<<>>, <<>>)
  <1> DEFINE Up(f) == f = [i \in 0 .. 0 |-> IF i = 0 THEN 0 ELSE f[i - 1] + Need(<<>>, i)]
             sum == CHOOSE f : Up(f)
  <1>1. Up([i \in 0 .. 0 |-> 0])
    OBVIOUS
  <1>2. Up(sum)
    <2> HIDE DEF Up
    <2> QED
      BY <1>1, Zenon
  <1>3. NeedUpTo(<<>>, 0) = sum[0]
    BY DEF NeedUpTo
  <1> HIDE DEF sum
  <1>4. NeedUpTo(<<>>, 0) = 0
    BY <1>2, <1>3
  <1>5. Cardinality(FreeBlocks(<<>>)) \in Nat
    <2>1. FreeBlocks(<<>>) \in SUBSET (1 .. NumBlocks)
      BY DEF FreeBlocks
    <2>2. NumBlocks \in Nat
      BY RunnerAssumption
    <2> QED
      BY <2>1, <2>2, FiniteWithin, FS_CardinalityType
  <1>6. Len(<<>>) = 0
    OBVIOUS
  <1> QED
    BY <1>4, <1>5, <1>6 DEF Fits

\* A prefix of the running requests remains.
LEMMA RemainingPrefix ==
    ASSUME Queues
    PROVE  \E n \in 0 .. Len(run) : Remaining = SubSeq(run, 1, n)
  <1> DEFINE keep(p) == SubSeq(run, 1, Len(run) - p)
             P == {p \in 0 .. Len(run) : Fits(keep(p), keep(p))}
  <1>1. Len(run) \in Nat
    BY DEF Queues
  <1>2. Len(run) \in P
    <2>1. keep(Len(run)) = <<>>
      BY <1>1 DEF Queues
    <2>2. Fits(keep(Len(run)), keep(Len(run)))
      BY <2>1, EmptyFits
    <2> QED
      BY <1>1, <2>2
  <1>3. \E m \in P : \A n \in P : m <= n
    <2>1. P \in SUBSET Nat /\ P # {}
      BY <1>2
    <2> HIDE DEF P
    <2> QED
      BY <2>1, LeastNat
  <1>4. Min(P) \in P
    <2> HIDE DEF P
    <2> QED
      BY <1>3 DEF Min
  <1>5. Remaining = keep(Min(P))
    BY DEF Remaining
  <1>6. Min(P) \in 0 .. Len(run)
    BY <1>4
  <1> HIDE DEF P
  <1>7. Len(run) - Min(P) \in 0 .. Len(run)
    BY <1>1, <1>6
  <1> QED
    BY <1>5, <1>7

\* The order is what remains, or everything that runs and a prefix of the
\* waiting requests, each of which gets a token.
LEMMA OrderCases ==
    ASSUME Queues
    PROVE  \/ \E n \in 0 .. Len(run) : Order = SubSeq(run, 1, n)
           \/ \E a \in 0 .. Len(wait) :
                /\ Order = run \o SubSeq(wait, 1, a)
                /\ \A i \in Len(run) + 1 .. Len(run) + a : Quotas(Order)[i] > 0
  <1> DEFINE A == {a \in 0 .. Len(wait) :
                     /\ a = 0 \/ Len(run) + a <= MaxNumSeqs
                     /\ \A i \in Len(run) + 1 .. Len(run) + a : Quotas(Admitted(a))[i] > 0
                     /\ a = 0 \/ Fits(Admitted(a), run)}
  <1>1. CASE Remaining # run
    <2>1. Order = Remaining
      BY <1>1 DEF Order
    <2> QED
      BY <2>1, RemainingPrefix
  <1>2. CASE Remaining = run
    <2>1. Order = Admitted(Max(A))
      BY <1>2 DEF Order
    <2>2. Len(wait) \in Nat /\ Len(run) \in Nat
      BY DEF Queues
    <2>3. 0 \in A
      BY <2>2
    <2>4. Max(A) \in A
      <3>1. A \in SUBSET (0 .. Len(wait)) /\ A # {}
        BY <2>3
      <3> HIDE DEF A
      <3>2. PICK m \in A : \A n \in A : n <= m
        BY <2>2, <3>1, GreatestNat
      <3>3. \A n \in A : n \in Int /\ (n <= m => m >= n)
        BY <3>1, <2>2
      <3>4. \A n \in A : m >= n
        BY <3>2, <3>3
      <3> QED
        BY <3>4 DEF Max
    <2>5. Max(A) \in 0 .. Len(wait)
          /\ \A i \in Len(run) + 1 .. Len(run) + Max(A) : Quotas(Admitted(Max(A)))[i] > 0
      BY <2>4
    <2> HIDE DEF A
    <2>6. Order = run \o SubSeq(wait, 1, Max(A))
      BY <2>1 DEF Admitted
    <2> QED
      BY <2>1, <2>5, <2>6
  <1> QED
    BY <1>1, <1>2

\* A prefix of a queue.
LEMMA PrefixQueue ==
    ASSUME NEW T, NEW s \in Seq(T), IsInjective(s), NEW n \in 0 .. Len(s)
    PROVE  /\ SubSeq(s, 1, n) \in Seq(T) /\ IsInjective(SubSeq(s, 1, n))
           /\ Range(SubSeq(s, 1, n)) \subseteq Range(s)
           /\ Len(SubSeq(s, 1, n)) = n
  <1> DEFINE a == SubSeq(s, 1, n)
  <1>1. /\ a \in Seq(T) /\ Len(a) = n /\ DOMAIN a = 1 .. n /\ DOMAIN s = 1 .. Len(s)
        /\ \A i \in 1 .. n : a[i] = s[i] /\ i \in DOMAIN s
    OBVIOUS
  <1> HIDE DEF a
  <1>2. IsInjective(a)
    BY <1>1 DEF IsInjective
  <1>3. Range(a) \subseteq Range(s)
    BY <1>1 DEF Range
  <1> QED
    BY <1>1, <1>2, <1>3 DEF a

\* So nobody is scheduled twice, and whoever is admitted gets a token.
LEMMA OrderProperties ==
    ASSUME Queues
    PROVE  /\ Order \in Seq(Reqs) /\ IsInjective(Order)
           /\ Range(Order) \subseteq Range(run) \cup Range(wait)
           /\ \A i \in DOMAIN Order : Order[i] \notin Range(run) => Quotas(Order)[i] > 0
  <1>0. /\ run \in Seq(Reqs) /\ IsInjective(run) /\ wait \in Seq(Reqs) /\ IsInjective(wait)
        /\ Range(run) \cap Range(wait) = {}
    <2>1. Range(run) \subseteq Reqs
      BY DEF Queues, Range
    <2> QED
      BY <2>1 DEF Queues
  <1>1. CASE \E n \in 0 .. Len(run) : Order = SubSeq(run, 1, n)
    <2>1. /\ Order \in Seq(Reqs) /\ IsInjective(Order) /\ Range(Order) \subseteq Range(run)
      BY <1>0, <1>1, PrefixQueue
    <2> QED
      BY <2>1 DEF Range
  <1>2. CASE \E a \in 0 .. Len(wait) :
                /\ Order = run \o SubSeq(wait, 1, a)
                /\ \A i \in Len(run) + 1 .. Len(run) + a : Quotas(Order)[i] > 0
    <2>1. PICK a \in 0 .. Len(wait) :
                /\ Order = run \o SubSeq(wait, 1, a)
                /\ \A i \in Len(run) + 1 .. Len(run) + a : Quotas(Order)[i] > 0
      BY <1>2
    <2> DEFINE w == SubSeq(wait, 1, a)
    <2>2. w \in Seq(Reqs) /\ IsInjective(w) /\ Range(w) \subseteq Range(wait) /\ Len(w) = a
      BY <1>0, PrefixQueue
    <2> HIDE DEF w
    <2>3. /\ run \o w \in Seq(Reqs)
          /\ Range(run \o w) = Range(run) \cup Range(w)
          /\ IsInjective(run \o w)
      <3>1. Range(run) \cap Range(w) = {}
        BY <1>0, <2>2
      <3> QED
        BY <1>0, <2>2, <3>1, InjectiveConcat
    <2>4. ASSUME NEW i \in DOMAIN (run \o w), (run \o w)[i] \notin Range(run)
          PROVE  i \in Len(run) + 1 .. Len(run) + a
      <3>1. i \in 1 .. Len(run) + Len(w) /\ Len(run) \in Nat /\ DOMAIN run = 1 .. Len(run)
        BY <1>0, <2>2
      <3>2. i \in 1 .. Len(run) => (run \o w)[i] = run[i]
        BY <1>0, <2>2
      <3>3. i \notin 1 .. Len(run)
        BY <2>4, <3>1, <3>2 DEF Range
      <3> QED
        BY <3>1, <3>3, <2>2
    <2>5. Order = run \o w
      BY <2>1 DEF w
    <2> QED
      BY <2>1, <2>2, <2>3, <2>4, <2>5
  <1> QED
    BY <1>1, <1>2, OrderCases

\* A scheduler output: requests that run or wait, each with the tokens and
\* blocks that are new.  A request that waits is in it only if it runs.
OutputOK(o) ==
    /\ o.queue \in Seq(Reqs) /\ IsInjective(o.queue)
    /\ Range(o.queue) \subseteq Range(run) \cup Range(wait)
    /\ o.order \in Seq(Reqs) /\ IsInjective(o.order) /\ Range(o.order) = DOMAIN o.q
    /\ DOMAIN o.q \subseteq Range(o.queue)
    /\ Range(o.queue) \ Range(run) \subseteq DOMAIN o.q
    /\ \A r \in DOMAIN o.q : o.q[r] \in Nat \ {0} /\ o.q[r] <= Left(r)
    /\ DOMAIN o.blk = DOMAIN o.q

\* A request that is queued after a step has not ended.
LEMMA QueuedState ==
    ASSUME Queues, NEW o, OutputOK(o), NEW r \in Range(o.queue)
    PROVE  r \in Reqs /\ sch[r].st \in {"waiting", "running", "preempted"}
  <1>1. r \in Range(run) \/ r \in Range(wait)
    BY DEF OutputOK
  <1>2. r \in Reqs
    BY <1>1 DEF Queues, Range
  <1> QED
    BY <1>1, <1>2 DEF Queues

\* The scheduler output says this of every request it names.
LEMMA OutputProperties ==
    ASSUME Queues
    PROVE  OutputOK(Output)
  <1> DEFINE order == Order
             at(r) == CHOOSE i \in DOMAIN order : order[i] = r
             q(r) == Quotas(order)[at(r)]
             S == {r \in ToSet(order) : q(r) > 0}
             o == Output
  <1>1. /\ order \in Seq(Reqs) /\ IsInjective(order)
        /\ Range(order) \subseteq Range(run) \cup Range(wait)
        /\ \A i \in DOMAIN order : order[i] \notin Range(run) => Quotas(order)[i] > 0
    BY OrderProperties
  <1>2. /\ o.queue = order /\ o.order = RemoveAll(order, Reqs \ S)
        /\ o.q = [r \in S |-> q(r)] /\ DOMAIN o.blk = S
    BY DEF Output
  <1>3. DOMAIN Quotas(order) = DOMAIN order
        /\ \A i \in DOMAIN order : Quotas(order)[i] \in Int /\ Quotas(order)[i] <= Left(order[i])
    <2> HIDE DEF order
    <2> QED
      BY <1>1, QuotasProperties
  <1> HIDE DEF o, order
  <1>4. ASSUME NEW i \in DOMAIN order
        PROVE  at(order[i]) = i
    <2>1. at(order[i]) \in DOMAIN order /\ order[at(order[i])] = order[i]
      OBVIOUS
    <2> HIDE DEF at
    <2> QED
      BY <2>1, <1>1 DEF IsInjective
  <1>5. ToSet(order) = Range(order)
    BY DEF ToSet, Range
  <1> HIDE DEF at
  <1>6. S \subseteq Range(order) /\ Range(order) \subseteq Reqs
    BY <1>1, <1>5 DEF Range
  <1>7. ASSUME NEW r \in S
        PROVE  q(r) \in Nat \ {0} /\ q(r) <= Left(r)
    <2>1. PICK i \in DOMAIN order : r = order[i]
      BY <1>6 DEF Range
    <2>2. q(r) = Quotas(order)[i] /\ q(r) > 0
      BY <2>1, <1>4
    <2> QED
      BY <2>1, <2>2, <1>3
  <1>8. ASSUME NEW r \in Range(order), r \notin Range(run)
        PROVE  r \in S
    <2>1. PICK i \in DOMAIN order : r = order[i]
      BY DEF Range
    <2> QED
      BY <2>1, <1>1, <1>4, <1>5, <1>8
  <1> HIDE DEF q, S
  <1>9. /\ o.order \in Seq(Reqs) /\ IsInjective(o.order)
        /\ Range(o.order) = Range(order) \ (Reqs \ S)
    BY <1>1, <1>2, RemoveAllProperties
  <1>10. Range(o.order) = S
    BY <1>6, <1>9
  <1>11. DOMAIN o.q = S /\ \A r \in S : o.q[r] = q(r)
    BY <1>2
  <1>12. \A r \in DOMAIN o.q : o.q[r] \in Nat \ {0} /\ o.q[r] <= Left(r)
    BY <1>7, <1>11
  <1> QED
    BY <1>1, <1>2, <1>6, <1>8, <1>9, <1>10, <1>11, <1>12 DEF OutputOK, o

-----------------------------------------------------------------------------
(* The rows of a step *)

\* A row of a request that is scheduled again.
OldRow(x, o) == [req |-> x.req, toks |-> Cut(x.toks, x.req), comp |-> sch[x.req].comp,
                 blk |-> x.blk \o o.blk[x.req]]
OldRows(o) == {OldRow(x, o) : x \in {y \in Range(rows) : y.req \in DOMAIN o.q}}
NewRows(c, o) == {NewRow(c, r) : r \in DOMAIN o.q \ {y.req : y \in Range(rows)}}

\* No row is of a request that has not been scheduled.
Batched ==
    /\ Batch(rows) /\ Hole \notin Range(rows)
    /\ \A x \in Range(rows) : sch[x.req].st \notin {"new", "waiting"}

Prepared(o) ==
    Reorder(Condense(AddRequests(UpdatedRows(o), UpdatedCache(o), o)), o.q)

\* What update_states removes leaves holes; the other rows stay where they are.
LEMMA UpdatedRowsProperties ==
    ASSUME Queues, Batched, NEW o, OutputOK(o)
    PROVE  /\ Batch(UpdatedRows(o)) /\ Range(UpdatedRows(o)) \ {Hole} = OldRows(o)
           /\ \A i \in DOMAIN UpdatedRows(o) :
                 UpdatedRows(o)[i].req \in Reqs => \E x \in Range(rows) : x.req = UpdatedRows(o)[i].req
           /\ {UpdatedRows(o)[i].req : i \in DOMAIN UpdatedRows(o)} \cap DOMAIN o.q
                 = {y.req : y \in Range(rows)} \cap DOMAIN o.q
  <1> DEFINE N == Len(rows)
             rs == UpdatedRows(o)
             stays(i) == rows[i].req \in DOMAIN o.q
  <1>1. N \in Nat /\ DOMAIN rows = 1 .. N
        /\ \A i \in 1 .. N : IsRow(rows[i]) /\ rows[i].req \in Reqs /\ rows[i] \in Range(rows)
    BY DEF Batched, Batch, Range
  <1>2. \A r \in DOMAIN o.q : r \in Reqs /\ r \notin finished
    <2>1. \A r \in DOMAIN o.q : r \in Range(o.queue)
      BY DEF OutputOK
    <2> QED
      BY <2>1, QueuedState DEF Queues
  <1>3. ASSUME NEW i \in 1 .. N
        PROVE  rs[i] = IF stays(i) THEN OldRow(rows[i], o) ELSE Hole
    <2>1. CASE ~stays(i)
      BY <2>1, <1>1 DEF UpdatedRows
    <2>2. CASE stays(i)
      <3>1. rs[i] = [rows[i] EXCEPT !.toks = Cut(rows[i].toks, rows[i].req),
                                    !.comp = sch[rows[i].req].comp,
                                    !.blk = rows[i].blk \o o.blk[rows[i].req]]
        BY <2>2, <1>1, <1>2 DEF UpdatedRows
      <3>2. PICK x : x = rows[i]
        OBVIOUS
      <3>3. x = [req |-> x.req, toks |-> x.toks, comp |-> x.comp, blk |-> x.blk]
        BY <3>2, <1>1 DEF IsRow
      <3>4. PICK t, c, b : t = Cut(x.toks, x.req) /\ c = sch[x.req].comp
                           /\ b = x.blk \o o.blk[x.req]
        OBVIOUS
      <3>5. [x EXCEPT !.toks = t, !.comp = c, !.blk = b] =
              [req |-> x.req, toks |-> t, comp |-> c, blk |-> b]
        <4>1. PICK y : y = [x EXCEPT !.toks = t]
          OBVIOUS
        <4>2. PICK z : z = [y EXCEPT !.comp = c]
          OBVIOUS
        <4>3. [x EXCEPT !.toks = t, !.comp = c, !.blk = b] = [z EXCEPT !.blk = b]
          BY <4>1, <4>2
        <4>4. y = [req |-> x.req, toks |-> t, comp |-> x.comp, blk |-> x.blk]
          BY <3>3, <4>1
        <4>5. z = [req |-> x.req, toks |-> t, comp |-> c, blk |-> x.blk]
          BY <4>2, <4>4
        <4>6. [z EXCEPT !.blk = b] = [req |-> x.req, toks |-> t, comp |-> c, blk |-> b]
          BY <4>5
        <4> QED
          BY <4>3, <4>6
      <3> QED
        BY <3>1, <3>2, <3>4, <3>5, <2>2 DEF OldRow
    <2> QED
      BY <2>1, <2>2
  <1>4. DOMAIN rs = 1 .. N /\ rs \in Seq(Range(rs))
    <2>1. DOMAIN rs = 1 .. N /\ rs \in [1 .. N -> Range(rs)]
      BY <1>1 DEF UpdatedRows, Range
    <2> QED
      BY <2>1, <1>1
  <1> HIDE DEF rs, N
  <1>5. \A x : OldRow(x, o).req = x.req /\ IsRow(OldRow(x, o))
    BY DEF OldRow, IsRow
  <1>6. Hole.req = NoReq /\ NoReq \notin Reqs
    BY RunnerAssumption DEF Hole
  <1>7. \A i \in 1 .. N : rs[i].req \in Reqs => stays(i) /\ rs[i].req = rows[i].req
    BY <1>3, <1>5, <1>6
  <1>8. Batch(rs)
    <2>1. \A i \in 1 .. N : rs[i] = Hole \/ (IsRow(rs[i]) /\ rs[i].req \in Reqs)
      BY <1>3, <1>5, <1>1
    <2>2. \A i, j \in 1 .. N : rs[i].req \in Reqs /\ rs[i].req = rs[j].req => i = j
      BY <1>7, <1>1 DEF Batched, Batch
    <2> QED
      BY <2>1, <2>2, <1>4 DEF Batch
  <1>9. \A i \in 1 .. N : stays(i) => rs[i] # Hole /\ rs[i].req = rows[i].req
    BY <1>1, <1>3, <1>5, <1>6
  <1>10. Range(rs) \ {Hole} = OldRows(o)
    <2>1. ASSUME NEW x \in Range(rs), x # Hole
          PROVE  x \in OldRows(o)
      <3>1. PICK i \in 1 .. N : x = rs[i]
        BY <1>4 DEF Range
      <3>2. stays(i) /\ x = OldRow(rows[i], o)
        BY <2>1, <3>1, <1>3
      <3> QED
        BY <3>2, <1>1 DEF OldRows
    <2>2. ASSUME NEW x \in OldRows(o)
          PROVE  x \in Range(rs) /\ x # Hole
      <3>1. PICK y \in Range(rows) : y.req \in DOMAIN o.q /\ x = OldRow(y, o)
        BY DEF OldRows
      <3>2. PICK i \in 1 .. N : y = rows[i]
        BY <1>1 DEF Range
      <3>3. stays(i) /\ x = rs[i]
        BY <3>1, <3>2, <1>3
      <3> QED
        BY <3>3, <1>4, <1>9 DEF Range
    <2> QED
      BY <2>1, <2>2
  <1>11. \A i \in DOMAIN rs : rs[i].req \in Reqs => \E x \in Range(rows) : x.req = rs[i].req
    BY <1>1, <1>4, <1>7
  <1>12. {rs[i].req : i \in DOMAIN rs} \cap DOMAIN o.q
           = {y.req : y \in Range(rows)} \cap DOMAIN o.q
    <2>1. ASSUME NEW i \in 1 .. N, rs[i].req \in DOMAIN o.q
          PROVE  rs[i].req \in {y.req : y \in Range(rows)}
      BY <2>1, <1>1, <1>2, <1>7
    <2>2. ASSUME NEW y \in Range(rows), y.req \in DOMAIN o.q
          PROVE  y.req \in {rs[i].req : i \in DOMAIN rs}
      <3>1. PICK i \in 1 .. N : y = rows[i]
        BY <1>1 DEF Range
      <3>2. rs[i].req = y.req
        BY <2>2, <3>1, <1>9
      <3> QED
        BY <3>2, <1>4
    <2> QED
      BY <2>1, <2>2, <1>4
  <1> QED
    BY <1>8, <1>10, <1>11, <1>12 DEF rs

\* Whatever was in the batch, the rows of a step are the scheduled requests,
\* and their first request_distribution[0] have one token each.
LEMMA PreparedProperties ==
    ASSUME Queues, Batched, NEW o, OutputOK(o)
    PROVE  /\ Batch(Prepared(o).rows) /\ Hole \notin Range(Prepared(o).rows)
           /\ Range(Prepared(o).rows) = OldRows(o) \cup NewRows(UpdatedCache(o), o)
           /\ {x.req : x \in Range(Prepared(o).rows)} = DOMAIN o.q
           /\ \A i \in DOMAIN Prepared(o).rows :
                 (i <= Prepared(o).ndec) <=> (o.q[Prepared(o).rows[i].req] = 1)
  <1> DEFINE c == UpdatedCache(o)
             r1 == UpdatedRows(o)
             r2 == AddRequests(r1, c, o)
             r3 == Condense(r2)
             b == Reorder(r3, o.q)
             here == {y.req : y \in Range(rows)}
  <1> HIDE DEF c, r1, r2, r3, b
  <1>1. /\ Batch(r1) /\ Range(r1) \ {Hole} = OldRows(o)
        /\ \A i \in DOMAIN r1 : r1[i].req \in Reqs => \E x \in Range(rows) : x.req = r1[i].req
        /\ {r1[i].req : i \in DOMAIN r1} \cap DOMAIN o.q = here \cap DOMAIN o.q
    BY UpdatedRowsProperties DEF r1
  <1>2. o.order \in Seq(Reqs) /\ IsInjective(o.order) /\ Range(o.order) = DOMAIN o.q
        /\ DOMAIN o.q \subseteq Reqs
    BY DEF OutputOK, Range
  <1>3. \A r \in Range(Fresh(o)) : r \in Reqs /\ sch[r].st = "waiting"
    <2>1. Range(Fresh(o)) = Range(o.order) \ {r \in Reqs : sch[r].st # "waiting"}
      BY <1>2, RemoveAllProperties DEF Fresh
    <2> QED
      BY <2>1, <1>2
  <1>4. \A i \in DOMAIN r1 : r1[i].req \notin Range(Fresh(o))
    BY <1>1, <1>3 DEF Batched
  <1>5. /\ Batch(r2)
        /\ Range(r2) \ {Hole} = (Range(r1) \ {Hole}) \cup
              {NewRow(c, r) : r \in Range(o.order) \ {r1[i].req : i \in DOMAIN r1}}
    BY <1>1, <1>2, <1>4, AddRequestsProperties DEF r2
  <1>6. Range(o.order) \ {r1[i].req : i \in DOMAIN r1} = DOMAIN o.q \ here
    BY <1>1, <1>2
  <1>7. Range(r2) \ {Hole} = OldRows(o) \cup NewRows(c, o)
    BY <1>1, <1>5, <1>6 DEF NewRows
  <1>8. Batch(r3) /\ Range(r3) = OldRows(o) \cup NewRows(c, o)
    BY <1>5, <1>7, CondenseProperties DEF r3
  <1>9. /\ Batch(b.rows) /\ Range(b.rows) = Range(r3)
        /\ r3 # <<>> => \A i \in DOMAIN b.rows : (i <= b.ndec) <=> (o.q[b.rows[i].req] = 1)
    BY <1>8, ReorderProperties DEF b
  <1>10. Hole \notin Range(b.rows)
    BY <1>7, <1>8, <1>9
  <1>11. {x.req : x \in Range(b.rows)} = DOMAIN o.q
    <2>1. /\ \A x : OldRow(x, o).req = x.req
          /\ \A r : NewRow(c, r).req = r
      BY DEF OldRow, NewRow
    <2>2. \A x \in OldRows(o) : x.req \in DOMAIN o.q
      BY <2>1 DEF OldRows
    <2>3. \A x \in NewRows(c, o) : x.req \in DOMAIN o.q
      BY <2>1 DEF NewRows
    <2>4. ASSUME NEW r \in DOMAIN o.q
          PROVE  \E x \in Range(b.rows) : x.req = r
      <3>1. CASE r \in here
        <4>1. PICK y \in Range(rows) : y.req = r
          BY <3>1
        <4>2. OldRow(y, o) \in OldRows(o) /\ OldRow(y, o).req = r
          BY <4>1, <2>1 DEF OldRows
        <4> QED
          BY <4>2, <1>8, <1>9
      <3>2. CASE r \notin here
        <4>1. NewRow(c, r) \in NewRows(c, o) /\ NewRow(c, r).req = r
          BY <3>2, <2>1 DEF NewRows
        <4> QED
          BY <4>1, <1>8, <1>9
      <3> QED
        BY <3>1, <3>2
    <2> HIDE DEF here
    <2> QED
      BY <2>2, <2>3, <2>4, <1>8, <1>9
  <1>12. \A i \in DOMAIN b.rows : (i <= b.ndec) <=> (o.q[b.rows[i].req] = 1)
    <2>1. CASE r3 = <<>>
      <3>1. Range(r3) = {}
        BY <2>1 DEF Range
      <3>2. DOMAIN b.rows = {}
        BY <3>1, <1>9 DEF Range
      <3> QED
        BY <3>2
    <2> QED
      BY <2>1, <1>9
  <1>13. b = Prepared(o)
    BY DEF b, r3, r2, r1, c, Prepared
  <1> QED
    BY <1>8, <1>9, <1>10, <1>11, <1>12, <1>13 DEF c

-----------------------------------------------------------------------------
(* The scheduler's view of a request *)

\* The types of what the scheduler notes of a request.
LEMMA SchedTyped ==
    ASSUME NEW B, NEW s, s \in Sched(B)
    PROVE  IsSched(s)
  BY DEF IsSched, Sched

\* The set may be any that has the blocks.
LEMMA SchedWidened ==
    ASSUME NEW s, IsSched(s), NEW B, s.blk \in B
    PROVE  s \in Sched(B)
  BY DEF IsSched, Sched

AsRunning(s, c, b, p) == [s EXCEPT !.st = "running", !.comp = c, !.blk = b, !.ph = p]
AsPreempted(s) == [s EXCEPT !.st = "preempted", !.comp = 0, !.blk = <<>>, !.back = TRUE]
AsReset(s) == [s EXCEPT !.st = "preempted", !.comp = 0, !.blk = <<>>,
                        !.ph = 0, !.discard = TRUE, !.back = TRUE]
AsTold(s, p) == [s EXCEPT !.ntok = @ + 1, !.ph = p]
AsDiscarded(s) == [s EXCEPT !.discard = FALSE]
AsDone(s) == [s EXCEPT !.st = "done", !.blk = <<>>]

\* It is scheduled,
LEMMA SetRunning ==
    ASSUME NEW s, IsSched(s), NEW c \in Int, NEW b, NEW p \in Int,
           NEW t, t = AsRunning(s, c, b, p)
    PROVE  /\ IsSched(t) /\ t.st = "running" /\ t.comp = c /\ t.blk = b /\ t.ph = p
           /\ t.prompt = s.prompt /\ t.ntok = s.ntok /\ t.discard = s.discard /\ t.back = s.back
  <1> USE DEF AsRunning
  <1>1. PICK B : B = {s.blk, b}
    OBVIOUS
  <1>2. s \in Sched(B) /\ b \in B
    BY <1>1, SchedWidened
  <1>3. t \in Sched(B)
    BY <1>2 DEF Sched, States
  <1>4. /\ t.st = "running" /\ t.comp = c /\ t.blk = b /\ t.ph = p
        /\ t.prompt = s.prompt /\ t.ntok = s.ntok /\ t.discard = s.discard /\ t.back = s.back
    BY <1>2 DEF Sched
  <1> QED
    BY <1>3, <1>4, SchedTyped

\* preempted,
LEMMA SetPreempted ==
    ASSUME NEW s, IsSched(s),
           NEW t, t = AsPreempted(s)
    PROVE  /\ IsSched(t) /\ t.st = "preempted" /\ t.comp = 0 /\ t.blk = <<>> /\ t.ph = s.ph
           /\ t.prompt = s.prompt /\ t.ntok = s.ntok /\ t.discard = s.discard /\ t.back
  <1> USE DEF AsPreempted
  <1>1. PICK B : B = {s.blk, <<>>}
    OBVIOUS
  <1>2. s \in Sched(B) /\ <<>> \in B
    BY <1>1, SchedWidened
  <1>3. t \in Sched(B)
    <2>1. PICK b, c, d : b = <<>> /\ c = 0 /\ d = TRUE
      OBVIOUS
    <2>2. t = [s EXCEPT !.st = "preempted", !.comp = c, !.blk = b, !.back = d]
      BY <2>1
    <2>3. b \in B /\ c \in Int /\ d \in BOOLEAN
      BY <2>1, <1>2
    <2> QED
      BY <2>2, <2>3, <1>2 DEF Sched, States
  <1>4. /\ t.st = "preempted" /\ t.comp = 0 /\ t.blk = <<>> /\ t.ph = s.ph
        /\ t.prompt = s.prompt /\ t.ntok = s.ntok /\ t.discard = s.discard /\ t.back
    BY <1>2 DEF Sched
  <1> QED
    BY <1>3, <1>4, SchedTyped

\* taken out by a reset,
LEMMA SetReset ==
    ASSUME NEW s, IsSched(s),
           NEW t, t = AsReset(s)
    PROVE  /\ IsSched(t) /\ t.st = "preempted" /\ t.comp = 0 /\ t.blk = <<>> /\ t.ph = 0
           /\ t.prompt = s.prompt /\ t.ntok = s.ntok
  <1> USE DEF AsReset
  <1>1. PICK B : B = {s.blk, <<>>}
    OBVIOUS
  <1>2. s \in Sched(B) /\ <<>> \in B
    BY <1>1, SchedWidened
  <1>3. t \in Sched(B)
    <2>1. PICK b, c, d : b = <<>> /\ c = 0 /\ d = TRUE
      OBVIOUS
    <2>2. t = [s EXCEPT !.st = "preempted", !.comp = c, !.blk = b,
                        !.ph = c, !.discard = d, !.back = d]
      BY <2>1
    <2>3. b \in B /\ c \in Int /\ d \in BOOLEAN
      BY <2>1, <1>2
    <2> QED
      BY <2>2, <2>3, <1>2 DEF Sched, States
  <1>4. /\ t.st = "preempted" /\ t.comp = 0 /\ t.blk = <<>> /\ t.ph = 0
        /\ t.prompt = s.prompt /\ t.ntok = s.ntok
    BY <1>2 DEF Sched
  <1> QED
    BY <1>3, <1>4, SchedTyped

\* told of a token,
LEMMA SetToken ==
    ASSUME NEW s, IsSched(s), NEW p \in Int,
           NEW t, t = AsTold(s, p)
    PROVE  /\ IsSched(t) /\ t.ntok = s.ntok + 1 /\ t.ph = p
           /\ t.st = s.st /\ t.comp = s.comp /\ t.blk = s.blk
           /\ t.prompt = s.prompt /\ t.discard = s.discard /\ t.back = s.back
  <1> USE DEF AsTold
  <1>1. s \in Sched({s.blk}) /\ s.ntok \in Int
    BY DEF IsSched, Sched
  <1>2. PICK n \in Int : n = s.ntok + 1
    BY <1>1
  <1>3. t = [s EXCEPT !.ntok = n, !.ph = p]
    BY <1>2
  <1>4. t \in Sched({s.blk})
    BY <1>1, <1>3 DEF Sched, States
  <1>5. /\ t.ntok = n /\ t.ph = p
        /\ t.st = s.st /\ t.comp = s.comp /\ t.blk = s.blk
        /\ t.prompt = s.prompt /\ t.discard = s.discard /\ t.back = s.back
    BY <1>1, <1>3 DEF Sched
  <1> QED
    BY <1>2, <1>4, <1>5, SchedTyped

\* told of one that is discarded,
LEMMA SetDiscarded ==
    ASSUME NEW s, IsSched(s), NEW t, t = AsDiscarded(s)
    PROVE  /\ IsSched(t) /\ t.ntok = s.ntok /\ t.ph = s.ph
           /\ t.st = s.st /\ t.comp = s.comp /\ t.blk = s.blk
           /\ t.prompt = s.prompt /\ t.discard = FALSE /\ t.back = s.back
  <1> USE DEF AsDiscarded
  <1>1. s \in Sched({s.blk})
    BY DEF IsSched
  <1>2. t \in Sched({s.blk})
    BY <1>1 DEF Sched, States
  <1>3. /\ t.ntok = s.ntok /\ t.ph = s.ph
        /\ t.st = s.st /\ t.comp = s.comp /\ t.blk = s.blk
        /\ t.prompt = s.prompt /\ t.discard = FALSE /\ t.back = s.back
    BY <1>1 DEF Sched
  <1> QED
    BY <1>2, <1>3, SchedTyped

\* finished.
LEMMA SetDone ==
    ASSUME NEW s, IsSched(s), NEW t, t = AsDone(s)
    PROVE  /\ IsSched(t) /\ t.st = "done" /\ t.blk = <<>>
           /\ t.ntok = s.ntok /\ t.ph = s.ph /\ t.comp = s.comp
           /\ t.prompt = s.prompt /\ t.discard = s.discard /\ t.back = s.back
  <1> USE DEF AsDone
  <1>1. PICK B : B = {s.blk, <<>>}
    OBVIOUS
  <1>2. s \in Sched(B) /\ <<>> \in B
    BY <1>1, SchedWidened
  <1>3. t \in Sched(B)
    BY <1>2 DEF Sched, States
  <1>4. /\ t.st = "done" /\ t.blk = <<>>
        /\ t.ntok = s.ntok /\ t.ph = s.ph /\ t.comp = s.comp
        /\ t.prompt = s.prompt /\ t.discard = s.discard /\ t.back = s.back
    BY <1>2 DEF Sched
  <1> QED
    BY <1>3, <1>4, SchedTyped

-----------------------------------------------------------------------------
(* The queues *)

\* What a scheduler output changes.
ScheduledReq(o, r) ==
    LET s == sch[r]
        t == sch'[r]
    IN /\ r \in DOMAIN o.q =>
            /\ t.st = "running" /\ t.comp = s.comp + o.q[r] /\ t.blk = s.blk \o o.blk[r]
            /\ t.ph = IF Async /\ s.comp + o.q[r] >= NumTokens(r) THEN s.ph + 1 ELSE s.ph
            /\ t.prompt = s.prompt /\ t.ntok = s.ntok /\ t.discard = s.discard
            /\ t.back = s.back
       /\ r \in Range(run) \ Range(o.queue) =>
            /\ t.st = "preempted" /\ t.comp = 0 /\ t.blk = <<>> /\ t.ph = s.ph
            /\ t.prompt = s.prompt /\ t.ntok = s.ntok /\ t.discard = s.discard /\ t.back
       /\ r \notin DOMAIN o.q /\ r \notin Range(run) \ Range(o.queue) => t = s

\* What schedule() does to each request, and that the queues stay queues.
LEMMA ScheduledEffect ==
    ASSUME Queues, NEW o, OutputOK(o), Scheduled(o)
    PROVE  Queues' /\ \A r \in Reqs : ScheduledReq(o, r)
  <1>1. ToSet(run) = Range(run) /\ ToSet(o.queue) = Range(o.queue)
    BY DEF ToSet, Range
  <1>2. /\ run' = o.queue /\ finished' = {}
        /\ wait' = RemoveAll(run, Range(o.queue)) \o RemoveAll(wait, Range(o.queue))
        /\ sch' = [r \in Reqs |-> sch'[r]]
    BY <1>1 DEF Scheduled
  <1>o. DOMAIN o.q \subseteq Range(o.queue)
    BY DEF OutputOK
  <1>3. ASSUME NEW r \in Reqs, r \in DOMAIN o.q
        PROVE  IsSched(sch'[r]) /\ ScheduledReq(o, r)
    <2>1. IsSched(sch[r]) /\ sch[r].comp \in Int /\ sch[r].ph \in Int /\ o.q[r] \in Int
      BY <1>3 DEF Queues, IsSched, Sched, OutputOK
    <2>2. PICK c \in Int : c = sch[r].comp + o.q[r]
      BY <2>1
    <2>3. PICK p \in Int : p = IF Async /\ sch[r].comp + o.q[r] >= NumTokens(r)
                               THEN sch[r].ph + 1 ELSE sch[r].ph
      BY <2>1
    <2>4. PICK b : b = sch[r].blk \o o.blk[r]
      OBVIOUS
    <2>5. sch'[r] = [sch[r] EXCEPT !.st = "running", !.comp = c, !.blk = b, !.ph = p]
      BY <1>3, <2>2, <2>3, <2>4 DEF Scheduled
    <2>6. /\ IsSched(sch'[r]) /\ sch'[r].st = "running" /\ sch'[r].comp = c /\ sch'[r].blk = b
          /\ sch'[r].ph = p /\ sch'[r].prompt = sch[r].prompt /\ sch'[r].ntok = sch[r].ntok
          /\ sch'[r].discard = sch[r].discard /\ sch'[r].back = sch[r].back
      <3>1. PICK x, y : x = sch[r] /\ y = sch'[r]
        OBVIOUS
      <3>2. IsSched(x) /\ y = AsRunning(x, c, b, p)
        BY <2>1, <2>5, <3>1 DEF AsRunning
      <3> QED
        BY <3>1, <3>2, SetRunning
    <2>7. r \notin Range(run) \ Range(o.queue)
      BY <1>3, <1>o
    <2> QED
      BY <1>3, <2>2, <2>3, <2>4, <2>6, <2>7 DEF ScheduledReq
  <1>4. ASSUME NEW r \in Reqs, r \notin DOMAIN o.q, r \in Range(run) \ Range(o.queue)
        PROVE  IsSched(sch'[r]) /\ ScheduledReq(o, r)
    <2>1. IsSched(sch[r])
      BY DEF Queues
    <2>2. sch'[r] = [sch[r] EXCEPT !.st = "preempted", !.comp = 0, !.blk = <<>>, !.back = TRUE]
      BY <1>1, <1>4 DEF Scheduled
    <2>3. /\ IsSched(sch'[r]) /\ sch'[r].st = "preempted" /\ sch'[r].comp = 0
          /\ sch'[r].blk = <<>> /\ sch'[r].ph = sch[r].ph
          /\ sch'[r].prompt = sch[r].prompt /\ sch'[r].ntok = sch[r].ntok
          /\ sch'[r].discard = sch[r].discard /\ sch'[r].back
      <3>1. PICK x, y : x = sch[r] /\ y = sch'[r]
        OBVIOUS
      <3>2. IsSched(x) /\ y = AsPreempted(x)
        BY <2>1, <2>2, <3>1 DEF AsPreempted
      <3> QED
        BY <3>1, <3>2, SetPreempted
    <2> QED
      BY <1>4, <2>3 DEF ScheduledReq
  <1>5. ASSUME NEW r \in Reqs, r \notin DOMAIN o.q, r \notin Range(run) \ Range(o.queue)
        PROVE  IsSched(sch'[r]) /\ ScheduledReq(o, r) /\ sch'[r] = sch[r]
    <2>1. sch'[r] = sch[r]
      BY <1>1, <1>5 DEF Scheduled
    <2> QED
      BY <1>5, <2>1 DEF ScheduledReq, Queues
  <1>6. \A r \in Reqs : IsSched(sch'[r]) /\ ScheduledReq(o, r)
    BY <1>3, <1>4, <1>5
  <1>7. /\ run \in Seq(Reqs) /\ IsInjective(run) /\ wait \in Seq(Reqs) /\ IsInjective(wait)
        /\ \A r \in Reqs : r \in Range(run) <=> sch[r].st = "running"
        /\ \A r \in Reqs : r \in Range(wait) <=> sch[r].st \in {"waiting", "preempted"}
    BY DEF Queues
  <1>r. Range(run) \subseteq Reqs /\ Range(wait) \subseteq Reqs
    BY <1>7 DEF Range
  <1>8. /\ wait' \in Seq(Reqs) /\ IsInjective(wait')
        /\ Range(wait') = (Range(run) \cup Range(wait)) \ Range(o.queue)
    <2> DEFINE a == RemoveAll(run, Range(o.queue))
               b == RemoveAll(wait, Range(o.queue))
    <2>1. /\ a \in Seq(Reqs) /\ IsInjective(a) /\ Range(a) = Range(run) \ Range(o.queue)
          /\ b \in Seq(Reqs) /\ IsInjective(b) /\ Range(b) = Range(wait) \ Range(o.queue)
      BY <1>7, RemoveAllProperties
    <2> HIDE DEF a, b
    <2>2. Range(a) \cap Range(b) = {}
      BY <2>1, <1>7, <1>r
    <2>3. /\ a \o b \in Seq(Reqs) /\ IsInjective(a \o b)
          /\ Range(a \o b) = Range(a) \cup Range(b)
      BY <2>1, <2>2, InjectiveConcat
    <2> QED
      BY <2>1, <2>3, <1>2 DEF a, b
  <1>9. /\ run' \in Seq(Reqs) /\ IsInjective(run') /\ Range(run') = Range(o.queue)
        /\ Range(o.queue) \subseteq Range(run) \cup Range(wait)
        /\ Range(o.queue) \ Range(run) \subseteq DOMAIN o.q
    BY <1>2 DEF OutputOK
  <1>10. ASSUME NEW r \in Reqs
         PROVE  /\ r \in Range(run') <=> sch'[r].st = "running"
                /\ r \in Range(wait') <=> sch'[r].st \in {"waiting", "preempted"}
    <2>1. CASE r \in DOMAIN o.q
      BY <2>1, <1>o, <1>6, <1>8, <1>9 DEF ScheduledReq
    <2>2. CASE r \in Range(run) \ Range(o.queue)
      BY <2>2, <1>6, <1>8, <1>9 DEF ScheduledReq
    <2>3. CASE r \notin DOMAIN o.q /\ r \notin Range(run) \ Range(o.queue)
      <3>1. sch'[r] = sch[r]
        BY <2>3, <1>5
      <3>2. r \in Range(run') <=> r \in Range(run)
        BY <2>3, <1>9
      <3>3. r \in Range(wait') <=> r \in Range(wait)
        BY <2>3, <1>7, <1>8, <1>9
      <3> QED
        BY <3>1, <3>2, <3>3, <1>7
    <2> QED
      BY <2>1, <2>2, <2>3
  <1>11. Queues'
    BY <1>2, <1>6, <1>8, <1>9, <1>10 DEF Queues
  <1> QED
    BY <1>6, <1>11

\* Requests that finish leave their queue.
LEMMA FinishEffect ==
    ASSUME Queues, NEW s, s = [r \in Reqs |-> s[r]], \A r \in Reqs : IsSched(s[r]) /\ s[r].st = sch[r].st,
           NEW S \in SUBSET Reqs, Finish(s, S)
    PROVE  /\ Queues' /\ finished' = finished \cup S
           /\ \A r \in Reqs : /\ r \notin S => sch'[r] = s[r]
                              /\ r \in S => /\ sch'[r].st = "done" /\ sch'[r].blk = <<>>
                                            /\ sch'[r].ntok = s[r].ntok /\ sch'[r].ph = s[r].ph
                                            /\ sch'[r].back = s[r].back
  <1>1. /\ sch' = [r \in Reqs |-> sch'[r]] /\ finished' = finished \cup S
        /\ run' = RemoveAll(run, S) /\ wait' = RemoveAll(wait, S)
    BY DEF Finish
  <1>2. ASSUME NEW r \in Reqs, r \in S
        PROVE  /\ IsSched(sch'[r]) /\ sch'[r].st = "done" /\ sch'[r].blk = <<>>
               /\ sch'[r].ntok = s[r].ntok /\ sch'[r].ph = s[r].ph
               /\ sch'[r].back = s[r].back
    <2>1. sch'[r] = [s[r] EXCEPT !.st = "done", !.blk = <<>>]
      BY <1>2 DEF Finish
    <2>2. PICK x, y : x = s[r] /\ y = sch'[r]
      OBVIOUS
    <2>3. IsSched(x) /\ y = AsDone(x)
      BY <2>1, <2>2 DEF AsDone
    <2> QED
      BY <2>2, <2>3, SetDone
  <1>3. ASSUME NEW r \in Reqs, r \notin S
        PROVE  sch'[r] = s[r]
    BY <1>3 DEF Finish
  <1>4. /\ run \in Seq(Reqs) /\ IsInjective(run) /\ wait \in Seq(Reqs) /\ IsInjective(wait)
        /\ \A r \in Reqs : r \in Range(run) <=> sch[r].st = "running"
        /\ \A r \in Reqs : r \in Range(wait) <=> sch[r].st \in {"waiting", "preempted"}
        /\ finished \in SUBSET {r \in Reqs : sch[r].st = "done"}
    BY DEF Queues
  <1>5. /\ run' \in Seq(Reqs) /\ IsInjective(run') /\ Range(run') = Range(run) \ S
        /\ wait' \in Seq(Reqs) /\ IsInjective(wait') /\ Range(wait') = Range(wait) \ S
    BY <1>1, <1>4, RemoveAllProperties
  <1>6. ASSUME NEW r \in Reqs
        PROVE  /\ IsSched(sch'[r])
               /\ r \in Range(run') <=> sch'[r].st = "running"
               /\ r \in Range(wait') <=> sch'[r].st \in {"waiting", "preempted"}
    <2>1. CASE r \in S
      BY <2>1, <1>2, <1>5
    <2>2. CASE r \notin S
      <3>1. IsSched(sch'[r]) /\ sch'[r].st = sch[r].st
        BY <2>2, <1>3
      <3> QED
        BY <2>2, <3>1, <1>4, <1>5
    <2> QED
      BY <2>1, <2>2
  <1>7. ASSUME NEW r \in finished'
        PROVE  r \in Reqs /\ sch'[r].st = "done"
    <2>1. CASE r \in S
      BY <1>2, <2>1
    <2>2. CASE r \notin S
      <3>1. r \in Reqs /\ sch[r].st = "done"
        BY <1>1, <1>4, <1>7, <2>2
      <3> QED
        BY <1>3, <2>2, <3>1
    <2> QED
      BY <2>1, <2>2
  <1>8. Queues'
    BY <1>1, <1>5, <1>6, <1>7 DEF Queues
  <1> QED
    BY <1>1, <1>2, <1>3, <1>8

\* What a reported batch changes.
UpdatedReq(r) ==
    LET s == sch[r]
        t == sch'[r]
        got == r \in Head(inflight) /\ Live(r)
        drop == Async /\ s.discard
    IN /\ ~got => t = s
       /\ got /\ drop => /\ t.st = s.st /\ t.comp = s.comp /\ t.blk = s.blk /\ t.ph = s.ph
                         /\ t.prompt = s.prompt /\ t.ntok = s.ntok /\ t.back = s.back
       /\ got /\ ~drop => /\ t.ntok = s.ntok + 1 /\ t.ph = IF Async THEN s.ph - 1 ELSE s.ph
                          /\ t.back = s.back
                          /\ t.st # s.st => t.st = "done"
                          /\ t.st # "done" => /\ t.comp = s.comp /\ t.blk = s.blk
                                              /\ t.prompt = s.prompt
                                              /\ t.discard = s.discard

\* What update_from_output does to each request of the oldest batch.
LEMMA UpdateEffect ==
    ASSUME Queues, inflight \in Seq(SUBSET Reqs), Update
    PROVE  /\ Queues' /\ inflight # <<>> /\ inflight' = Tail(inflight)
           /\ UNCHANGED runnerVars /\ finished \subseteq finished'
           /\ \A r \in finished' \ finished : sch'[r].st = "done"
           /\ \A r \in Reqs : UpdatedReq(r)
  <1> DEFINE got == {r \in Head(inflight) : Live(r)}
             s == [r \in Reqs |->
                   IF r \notin got THEN sch[r]
                   ELSE IF Async /\ sch[r].discard THEN [sch[r] EXCEPT !.discard = FALSE]
                   ELSE [sch[r] EXCEPT !.ntok = @ + 1, !.ph = IF Async THEN @ - 1 ELSE @]]
  <1>1. /\ inflight # <<>> /\ inflight' = Tail(inflight) /\ UNCHANGED runnerVars
        /\ \E stop \in SUBSET {r \in got : s[r].ntok > sch[r].ntok} : Finish(s, stop)
    BY Zenon DEF Update
  <1>2. got \in SUBSET Reqs
    <2>1. Head(inflight) \in SUBSET Reqs
      <3>1. inflight # <<>> /\ inflight \in Seq(SUBSET Reqs)
        BY <1>1, Zenon
      <3> QED
        BY <3>1, InjectiveTail
    <2> QED
      BY <2>1
  <1>3. PICK S \in SUBSET got : Finish(s, S) /\ \A r \in S : s[r].ntok > sch[r].ntok
    BY <1>1, Zenon
  <1>f. s = [r \in Reqs |-> s[r]]
    OBVIOUS
  <1>4. ASSUME NEW r \in Reqs, r \notin got
        PROVE  s[r] = sch[r]
    BY <1>4
  <1>5. ASSUME NEW r \in Reqs, r \in got, Async /\ sch[r].discard
        PROVE  s[r] = AsDiscarded(sch[r])
    BY <1>5 DEF AsDiscarded
  <1>6. ASSUME NEW r \in Reqs, r \in got, ~(Async /\ sch[r].discard)
        PROVE  s[r] = AsTold(sch[r], IF Async THEN sch[r].ph - 1 ELSE sch[r].ph)
    <2>1. s[r] = [sch[r] EXCEPT !.ntok = @ + 1, !.ph = IF Async THEN @ - 1 ELSE @]
      BY <1>6
    <2> HIDE DEF s
    <2> QED
      BY <2>1 DEF AsTold
  <1> HIDE DEF s
  <1>7. ASSUME NEW r \in Reqs
        PROVE  IsSched(sch[r]) /\ sch[r].ph \in Int /\ sch[r].ntok \in Int
    BY DEF Queues, IsSched, Sched
  <1>8. ASSUME NEW r \in Reqs, r \in got, Async /\ sch[r].discard
        PROVE  /\ IsSched(s[r]) /\ s[r].st = sch[r].st /\ s[r].comp = sch[r].comp
               /\ s[r].blk = sch[r].blk /\ s[r].ph = sch[r].ph /\ s[r].prompt = sch[r].prompt
               /\ s[r].ntok = sch[r].ntok /\ s[r].back = sch[r].back
    <2>1. PICK x, y : x = sch[r] /\ y = s[r]
      OBVIOUS
    <2>2. IsSched(x) /\ y = AsDiscarded(x)
      BY <2>1, <1>5, <1>7, <1>8
    <2>3. /\ IsSched(y) /\ y.st = x.st /\ y.comp = x.comp /\ y.blk = x.blk /\ y.ph = x.ph
          /\ y.prompt = x.prompt /\ y.ntok = x.ntok /\ y.back = x.back
      <3> HIDE DEF got
      <3> QED
        BY ONLY <2>2, SetDiscarded
    <2> QED
      BY <2>1, <2>3
  <1>9. ASSUME NEW r \in Reqs, r \in got, ~(Async /\ sch[r].discard)
        PROVE  /\ IsSched(s[r]) /\ s[r].st = sch[r].st /\ s[r].comp = sch[r].comp
               /\ s[r].blk = sch[r].blk /\ s[r].prompt = sch[r].prompt
               /\ s[r].ph = IF Async THEN sch[r].ph - 1 ELSE sch[r].ph
               /\ s[r].ntok = sch[r].ntok + 1 /\ s[r].back = sch[r].back
               /\ s[r].discard = sch[r].discard
    <2>1. PICK x, y : x = sch[r] /\ y = s[r]
      OBVIOUS
    <2>2. PICK p \in Int : p = IF Async THEN sch[r].ph - 1 ELSE sch[r].ph
      BY <1>7
    <2>3. IsSched(x) /\ y = AsTold(x, p)
      BY <2>1, <2>2, <1>6, <1>7, <1>9
    <2>4. /\ IsSched(y) /\ y.st = x.st /\ y.comp = x.comp /\ y.blk = x.blk /\ y.ph = p
          /\ y.prompt = x.prompt /\ y.ntok = x.ntok + 1 /\ y.back = x.back
          /\ y.discard = x.discard
      BY ONLY <2>3, p \in Int, SetToken
    <2> QED
      BY <2>1, <2>2, <2>4
  <1>10. \A r \in Reqs : IsSched(s[r]) /\ s[r].st = sch[r].st
    BY <1>4, <1>7, <1>8, <1>9
  <1>11. /\ Queues' /\ finished' = finished \cup S
         /\ \A r \in Reqs : /\ r \notin S => sch'[r] = s[r]
                            /\ r \in S => /\ sch'[r].st = "done" /\ sch'[r].blk = <<>>
                                          /\ sch'[r].ntok = s[r].ntok /\ sch'[r].ph = s[r].ph
                                          /\ sch'[r].back = s[r].back
    <2>1. S \in SUBSET Reqs
      BY <1>2
    <2> QED
      BY <2>1, <1>3, <1>f, <1>10, FinishEffect
  <1>12. ASSUME NEW r \in Reqs
         PROVE  UpdatedReq(r)
    <2>0. r \in got <=> r \in Head(inflight) /\ Live(r)
      OBVIOUS
    <2> HIDE DEF got
    <2>1. CASE r \notin got
      BY <2>0, <2>1, <1>3, <1>4, <1>11 DEF UpdatedReq
    <2>2. CASE r \in got /\ Async /\ sch[r].discard
      <3>1. r \notin S
        BY <2>2, <1>3, <1>7, <1>8
      <3> QED
        BY <2>0, <2>2, <3>1, <1>8, <1>11 DEF UpdatedReq
    <2>3. CASE r \in got /\ ~(Async /\ sch[r].discard)
      <3>1. CASE r \in S
        BY <2>0, <2>3, <3>1, <1>9, <1>11 DEF UpdatedReq
      <3>2. CASE r \notin S
        BY <2>0, <2>3, <3>2, <1>9, <1>11 DEF UpdatedReq
      <3> QED
        BY <3>1, <3>2
    <2> QED
      BY <2>1, <2>2, <2>3
  <1>13. finished \subseteq finished' /\ \A r \in finished' \ finished : sch'[r].st = "done"
    BY <1>2, <1>3, <1>11
  <1> QED
    BY <1>1, <1>11, <1>12, <1>13

\* A request that is aborted is reported as finished; the others stay as they are.
LEMMA AbortEffect ==
    ASSUME Queues, NEW r \in Reqs, Abort(r)
    PROVE  /\ Queues' /\ sch'[r].st = "done" /\ sch'[r].back = sch[r].back
           /\ finished' = finished \cup {r}
           /\ \A q \in Reqs \ {r} : sch'[q] = sch[q]
           /\ UNCHANGED <<inflight, runnerVars>>
  <1>1. Finish(sch, {r}) /\ UNCHANGED <<inflight, runnerVars>>
    BY DEF Abort
  <1>2. PICK s : s = sch
    OBVIOUS
  <1>3. s = [q \in Reqs |-> s[q]] /\ \A q \in Reqs : IsSched(s[q]) /\ s[q].st = sch[q].st
    BY <1>2 DEF Queues
  <1>4. Finish(s, {r}) /\ {r} \in SUBSET Reqs
    BY <1>1, <1>2
  <1> QED
    BY <1>1, <1>2, <1>3, <1>4, FinishEffect

\* A new request waits with its prompt.
LEMMA AddRequestEffect ==
    ASSUME Queues, NEW r \in Reqs, NEW m \in Prompts, AddRequest(r, m)
    PROVE  /\ Queues' /\ sch[r].st = "new" /\ sch'[r].st = "waiting"
           /\ sch'[r].prompt = m /\ sch'[r].ntok = m /\ sch'[r].comp = sch[r].comp
           /\ sch'[r].ph = sch[r].ph /\ sch'[r].blk = sch[r].blk
           /\ sch'[r].back = sch[r].back
           /\ \A q \in Reqs \ {r} : sch'[q] = sch[q]
           /\ UNCHANGED <<run, finished, inflight, runnerVars>>
  <1>1. /\ sch[r].st = "new" /\ wait' = Append(wait, r)
        /\ sch' = [sch EXCEPT ![r].st = "waiting", ![r].prompt = m, ![r].ntok = m]
        /\ UNCHANGED <<run, finished, inflight, runnerVars>>
    BY DEF AddRequest
  <1>2. /\ sch = [q \in Reqs |-> sch[q]] /\ \A q \in Reqs : IsSched(sch[q])
        /\ wait \in Seq(Reqs) /\ IsInjective(wait)
        /\ \A q \in Reqs : q \in Range(run) <=> sch[q].st = "running"
        /\ \A q \in Reqs : q \in Range(wait) <=> sch[q].st \in {"waiting", "preempted"}
    BY DEF Queues
  <1>m. m \in Int
    BY RunnerAssumption
  <1>3. /\ sch' = [q \in Reqs |-> sch'[q]]
        /\ \A q \in Reqs \ {r} : sch'[q] = sch[q]
        /\ sch'[r] = [sch[r] EXCEPT !.st = "waiting", !.prompt = m, !.ntok = m]
    BY <1>1, <1>2
  <1>4. /\ IsSched(sch'[r]) /\ sch'[r].st = "waiting"
        /\ sch'[r].prompt = m /\ sch'[r].ntok = m /\ sch'[r].comp = sch[r].comp
        /\ sch'[r].ph = sch[r].ph /\ sch'[r].blk = sch[r].blk /\ sch'[r].back = sch[r].back
    <2>1. PICK x, y : x = sch[r] /\ y = sch'[r]
      OBVIOUS
    <2>2. x \in Sched({x.blk}) /\ y = [x EXCEPT !.st = "waiting", !.prompt = m, !.ntok = m]
      BY <2>1, <1>2, <1>3 DEF IsSched
    <2>3. y \in Sched({x.blk})
      BY <2>2, <1>m DEF Sched, States
    <2>4. y.st = "waiting" /\ y.prompt = m /\ y.ntok = m /\ y.comp = x.comp
          /\ y.ph = x.ph /\ y.blk = x.blk /\ y.back = x.back
      BY <2>2 DEF Sched
    <2> QED
      BY <2>1, <2>3, <2>4, SchedTyped
  <1>5. /\ wait' \in Seq(Reqs) /\ IsInjective(wait') /\ Range(wait') = Range(wait) \cup {r}
    <2>1. r \notin Range(wait)
      BY <1>1, <1>2
    <2> QED
      BY <2>1, <1>1, <1>2, InjectiveAppend
  <1>6. ASSUME NEW q \in Reqs
        PROVE  /\ IsSched(sch'[q])
               /\ q \in Range(run) <=> sch'[q].st = "running"
               /\ q \in Range(wait') <=> sch'[q].st \in {"waiting", "preempted"}
    BY <1>1, <1>2, <1>3, <1>4, <1>5
  <1>7. Queues'
    BY <1>1, <1>3, <1>4, <1>5, <1>6 DEF Queues
  <1> QED
    BY <1>1, <1>3, <1>4, <1>7

\* A reset preempts everything that runs and nothing else.
LEMMA ResetEffect ==
    ASSUME Queues, Reset
    PROVE  /\ Queues' /\ Resets /\ UNCHANGED <<finished, inflight, runnerVars>>
           /\ \A r \in Reqs :
                /\ r \in Range(run) => /\ sch'[r].st = "preempted" /\ sch'[r].comp = 0
                                       /\ sch'[r].blk = <<>> /\ sch'[r].ph = 0
                                       /\ sch'[r].prompt = sch[r].prompt
                                       /\ sch'[r].ntok = sch[r].ntok
                /\ r \notin Range(run) => sch'[r] = sch[r]
  <1>0. ToSet(run) = Range(run)
    BY DEF ToSet, Range
  <1>1. /\ Resets /\ UNCHANGED <<finished, inflight, runnerVars>>
        /\ wait' = run \o wait /\ run' = <<>> /\ sch' = [r \in Reqs |-> sch'[r]]
    BY DEF Reset
  <1>2. /\ \A q \in Reqs : IsSched(sch[q])
        /\ run \in Seq(Reqs) /\ IsInjective(run) /\ wait \in Seq(Reqs) /\ IsInjective(wait)
        /\ \A q \in Reqs : q \in Range(run) <=> sch[q].st = "running"
        /\ \A q \in Reqs : q \in Range(wait) <=> sch[q].st \in {"waiting", "preempted"}
        /\ finished \in SUBSET {r \in Reqs : sch[r].st = "done"}
    BY DEF Queues
  <1>r. Range(run) \subseteq Reqs /\ Range(wait) \subseteq Reqs
    BY <1>2 DEF Range
  <1>3. ASSUME NEW r \in Reqs, r \in Range(run)
        PROVE  /\ IsSched(sch'[r]) /\ sch'[r].st = "preempted" /\ sch'[r].comp = 0
               /\ sch'[r].blk = <<>> /\ sch'[r].ph = 0
               /\ sch'[r].prompt = sch[r].prompt /\ sch'[r].ntok = sch[r].ntok
    <2>1. PICK x, y : x = sch[r] /\ y = sch'[r]
      OBVIOUS
    <2>2. y = AsReset(x)
      BY <1>0, <1>3, <2>1 DEF Reset, AsReset
    <2> QED
      BY <2>1, <2>2, <1>2, SetReset
  <1>4. ASSUME NEW r \in Reqs, r \notin Range(run)
        PROVE  sch'[r] = sch[r]
    BY <1>0, <1>4 DEF Reset
  <1>5. /\ wait' \in Seq(Reqs) /\ IsInjective(wait') /\ Range(wait') = Range(run) \cup Range(wait)
    <2>1. Range(run) \cap Range(wait) = {}
      BY <1>2, <1>r
    <2> QED
      BY <2>1, <1>1, <1>2, InjectiveConcat
  <1>6. run' \in Seq(Reqs) /\ IsInjective(run') /\ Range(run') = {}
    BY <1>1 DEF IsInjective, Range
  <1>7. ASSUME NEW q \in Reqs
        PROVE  /\ IsSched(sch'[q])
               /\ q \in Range(run') <=> sch'[q].st = "running"
               /\ q \in Range(wait') <=> sch'[q].st \in {"waiting", "preempted"}
    <2>1. CASE q \in Range(run)
      BY <2>1, <1>3, <1>5, <1>6
    <2>2. CASE q \notin Range(run)
      BY <2>2, <1>2, <1>4, <1>5, <1>6
    <2> QED
      BY <2>1, <2>2
  <1>8. \A r \in finished' : r \in Reqs /\ sch'[r].st = "done"
    BY <1>1, <1>2, <1>4
  <1>9. Queues'
    BY <1>1, <1>5, <1>6, <1>7, <1>8 DEF Queues
  <1> QED
    BY <1>1, <1>3, <1>4, <1>9

-----------------------------------------------------------------------------
(* A step *)

\* The same requests in the same rows.
SameRows(rs, t) ==
    /\ t \in Seq(Range(t)) /\ DOMAIN t = DOMAIN rs
    /\ \A i \in DOMAIN rs : /\ IsRow(t[i]) /\ t[i].req = rs[i].req
                            /\ t[i].comp = rs[i].comp /\ t[i].blk = rs[i].blk

\* A row whose tokens change is the same row.
LEMMA SetToks ==
    ASSUME NEW x, IsRow(x), NEW t, NEW y, y = [x EXCEPT !.toks = t]
    PROVE  IsRow(y) /\ y.req = x.req /\ y.comp = x.comp /\ y.blk = x.blk /\ y.toks = t
  BY DEF IsRow

\* The layout of the batch does not depend on the tokens in its rows.
LEMMA SameRowsKept ==
    ASSUME NEW rs, Batch(rs), Hole \notin Range(rs), NEW t, SameRows(rs, t)
    PROVE  /\ Batch(t) /\ Hole \notin Range(t)
           /\ {x.req : x \in Range(t)} = {x.req : x \in Range(rs)}
  <1>1. \A i \in DOMAIN rs : t[i].req = rs[i].req /\ IsRow(t[i]) /\ rs[i].req \in Reqs
    BY DEF Batch, SameRows, Range
  <1>2. \A i \in DOMAIN t : t[i] # Hole
    BY <1>1, RunnerAssumption DEF SameRows, Hole
  <1>3. Batch(t)
    BY <1>1 DEF Batch, SameRows
  <1> QED
    BY <1>1, <1>2, <1>3 DEF SameRows, Range

\* t is rs with g for the tokens of the requests in R.
Mapped(rs, R, g, t) ==
    t = [i \in DOMAIN rs |-> IF rs[i].req \in R THEN [rs[i] EXCEPT !.toks = g[i]] ELSE rs[i]]

\* Changing the tokens of some requests changes those of their rows.
LEMMA MappedProperties ==
    ASSUME NEW rs, Batch(rs), Hole \notin Range(rs), NEW R, NEW g, NEW t, Mapped(rs, R, g, t)
    PROVE  /\ SameRows(rs, t)
           /\ \A i \in DOMAIN rs : t[i].toks = IF rs[i].req \in R THEN g[i] ELSE rs[i].toks
  <1>1. \A i \in DOMAIN rs : IsRow(rs[i])
    BY DEF Batch, Range
  <1>2. /\ t = [i \in DOMAIN rs |-> t[i]]
        /\ \A i \in DOMAIN rs :
              t[i] = IF rs[i].req \in R THEN [rs[i] EXCEPT !.toks = g[i]] ELSE rs[i]
    BY DEF Mapped
  <1>3. DOMAIN rs = 1 .. Len(rs) /\ Len(rs) \in Nat
    BY DEF Batch
  <1>4. t \in Seq(Range(t)) /\ DOMAIN t = DOMAIN rs
    BY <1>2, <1>3 DEF Range
  <1>5. ASSUME NEW i \in DOMAIN rs
        PROVE  /\ IsRow(t[i]) /\ t[i].req = rs[i].req
               /\ t[i].comp = rs[i].comp /\ t[i].blk = rs[i].blk
               /\ t[i].toks = IF rs[i].req \in R THEN g[i] ELSE rs[i].toks
    <2>1. PICK x, y, z : x = rs[i] /\ y = t[i] /\ z = g[i]
      OBVIOUS
    <2>2. CASE rs[i].req \in R
      <3>1. IsRow(x) /\ y = [x EXCEPT !.toks = z]
        BY <1>1, <1>2, <2>1, <2>2
      <3>2. IsRow(y) /\ y.req = x.req /\ y.comp = x.comp /\ y.blk = x.blk /\ y.toks = z
        BY ONLY <3>1, SetToks
      <3> QED
        BY <2>1, <2>2, <3>2
    <2>3. CASE rs[i].req \notin R
      BY <1>1, <1>2, <2>3
    <2> QED
      BY <2>2, <2>3
  <1> QED
    BY <1>4, <1>5 DEF SameRows

\* The tokens that a synchronous step leaves in the rows,
LEMMA AppendedRows ==
    ASSUME NEW rs, NEW c, NEW q
    PROVE  Mapped(rs, Sampled(c, q),
                  [i \in DOMAIN rs |-> Append(rs[i].toks, Token(rs[i].req, Len(rs[i].toks) + 1))],
                  Append1(rs, c, q).rows)
  <1>1. Append1(rs, c, q).rows =
            [i \in DOMAIN rs |-> IF rs[i].req \in Sampled(c, q)
                 THEN [rs[i] EXCEPT !.toks = Append(@, Token(rs[i].req, Len(@) + 1))] ELSE rs[i]]
    BY Zenon DEF Append1, MapRows
  <1> QED
    BY <1>1 DEF Mapped

\* and an asynchronous one.
LEMMA PlaceholderRows ==
    ASSUME NEW rs, NEW c, NEW q
    PROVE  \E t : /\ Mapped(rs, Replaced(rs),
                            [i \in DOMAIN rs |-> SetLast(rs[i].toks, pre[rs[i].req])], t)
                  /\ Mapped(t, Sampled(c, q), [i \in DOMAIN t |-> Append(t[i].toks, Stale)],
                            Placeholders(rs, c, q).rows)
  <1> DEFINE t == [i \in DOMAIN rs |-> IF rs[i].req \in Replaced(rs)
                         THEN [rs[i] EXCEPT !.toks = SetLast(@, pre[rs[i].req])] ELSE rs[i]]
  <1>1. Mapped(rs, Replaced(rs), [i \in DOMAIN rs |-> SetLast(rs[i].toks, pre[rs[i].req])], t)
    BY DEF Mapped
  <1>2. Placeholders(rs, c, q).rows =
            [i \in DOMAIN t |-> IF t[i].req \in Sampled(c, q)
                                THEN [t[i] EXCEPT !.toks = Append(@, Stale)] ELSE t[i]]
    BY Zenon DEF Placeholders, MapRows
  <1> HIDE DEF t
  <1>3. Mapped(t, Sampled(c, q), [i \in DOMAIN t |-> Append(t[i].toks, Stale)],
               Placeholders(rs, c, q).rows)
    BY <1>2 DEF Mapped
  <1> QED
    BY <1>1, <1>3

\* Either way the rows are of the same requests.
LEMMA SampledRows ==
    ASSUME NEW rs, Batch(rs), Hole \notin Range(rs), NEW c, NEW q
    PROVE  SameRows(rs, Append1(rs, c, q).rows) /\ SameRows(rs, Placeholders(rs, c, q).rows)
  <1>1. SameRows(rs, Append1(rs, c, q).rows)
    <2>1. PICK g, t : /\ g = [i \in DOMAIN rs |-> Append(rs[i].toks,
                                                Token(rs[i].req, Len(rs[i].toks) + 1))]
                      /\ t = Append1(rs, c, q).rows
      OBVIOUS
    <2>2. Mapped(rs, Sampled(c, q), g, t)
      BY <2>1, AppendedRows
    <2> QED
      BY <2>1, <2>2, MappedProperties
  <1>2. SameRows(rs, Placeholders(rs, c, q).rows)
    <2>1. PICK t : /\ Mapped(rs, Replaced(rs),
                             [i \in DOMAIN rs |-> SetLast(rs[i].toks, pre[rs[i].req])], t)
                   /\ Mapped(t, Sampled(c, q), [i \in DOMAIN t |-> Append(t[i].toks, Stale)],
                             Placeholders(rs, c, q).rows)
      BY PlaceholderRows
    <2>2. PICK g, h, u : /\ g = [i \in DOMAIN rs |-> SetLast(rs[i].toks, pre[rs[i].req])]
                         /\ h = [i \in DOMAIN t |-> Append(t[i].toks, Stale)]
                         /\ u = Placeholders(rs, c, q).rows
      OBVIOUS
    <2>3. Mapped(rs, Replaced(rs), g, t) /\ Mapped(t, Sampled(c, q), h, u)
      BY <2>1, <2>2
    <2>4. SameRows(rs, t)
      BY ONLY <2>3, Batch(rs), Hole \notin Range(rs), MappedProperties
    <2>5. Batch(t) /\ Hole \notin Range(t)
      BY ONLY <2>4, Batch(rs), Hole \notin Range(rs), SameRowsKept
    <2>6. SameRows(t, u)
      BY ONLY <2>3, <2>5, MappedProperties
    <2> QED
      BY <2>2, <2>4, <2>6 DEF SameRows
  <1> QED
    BY <1>1, <1>2

\* The step that the scheduler output o makes.
Stepped(o) ==
    LET c == UpdatedCache(o)
        b == Prepared(o)
        new == IF Async THEN Placeholders(b.rows, c, o.q) ELSE Append1(b.rows, c, o.q)
    IN /\ up /\ Len(inflight) < IF Async THEN 2 ELSE 1
       /\ Scheduled(o)
       /\ ndec' = b.ndec
       /\ fed' = [r \in DOMAIN o.q |->
             [got |-> [toks |-> Inputs(b.rows, o.q, r), from |-> RowOf(b.rows, r).comp,
                       blk |-> RowOf(b.rows, r).blk],
              due |-> [toks |-> Own(r, sch[r].comp, sch[r].comp + o.q[r]),
                       from |-> sch[r].comp, blk |-> sch[r].blk \o o.blk[r]]]]
       /\ \/ /\ o.order = <<>> /\ cache' = c /\ rows' = b.rows
             /\ inflight' = Append(inflight, {}) /\ UNCHANGED <<pre, up>>
          \/ Raises(b.rows, c) /\ up' = FALSE /\ UNCHANGED <<cache, rows, pre, inflight>>
          \/ /\ ~Raises(b.rows, c) /\ UNCHANGED up
             /\ cache' = new.cache /\ rows' = new.rows /\ pre' = new.pre
             /\ inflight' = Append(inflight, Sampled(c, o.q))

\* Step as the proofs use it.
LEMMA StepStepped ==
    ASSUME Queues, Step
    PROVE  OutputOK(Output) /\ Stepped(Output)
  <1>1. OutputOK(Output)
    BY OutputProperties
  <1>2. Stepped(Output)
    <2>1. \E o \in {Output} : Stepped(o)
      BY ZenonT(60) DEF Step, Stepped, Prepared
    <2> QED
      BY <2>1, Zenon
  <1> QED
    BY <1>1, <1>2

-----------------------------------------------------------------------------
(* The rows are the scheduled requests *)

\* The tokens that are due: as many as are scheduled.
LEMMA OwnProperties ==
    ASSUME NEW r, NEW a \in Int, NEW n \in Nat
    PROVE  /\ Own(r, a, a + n) = [i \in 1 .. n |-> Token(r, a + i)]
           /\ Own(r, a, a + n) \in Seq(Range(Own(r, a, a + n))) /\ Len(Own(r, a, a + n)) = n
  <1> DEFINE s == Own(r, a, a + n)
  <1>1. s = [i \in 1 .. n |-> Token(r, a + i)]
    <2>1. (a + n) - a = n
      OBVIOUS
    <2> QED
      BY <2>1, Zenon DEF Own
  <1> HIDE DEF s
  <1>2. s \in Seq(Range(s)) /\ Len(s) = n
    <2>1. s = [i \in 1 .. n |-> s[i]] /\ \A i \in 1 .. n : s[i] \in Range(s)
      BY <1>1 DEF Range
    <2> QED
      BY <2>1
  <1> QED
    BY <1>1, <1>2 DEF s

\* What holds of the queues, of the batches under way and of the rows.
Rowed ==
    /\ Queues
    /\ inflight \in Seq(SUBSET Reqs)
    /\ up => Batched /\ DecodesFirst

\* At first there are no rows, no queues and no batches.
LEMMA RowedInit == Init => Rowed
  <1> SUFFICES ASSUME Init PROVE Rowed
    OBVIOUS
  <1>1. ASSUME NEW r \in Reqs
        PROVE  IsSched(sch[r]) /\ sch[r].st = "new"
    <2>1. sch[r] = [st |-> "new", prompt |-> 0, ntok |-> 0, ph |-> 0, comp |-> 0,
                    blk |-> <<>>, discard |-> FALSE, back |-> FALSE]
      BY DEF Init
    <2> QED
      BY <2>1 DEF IsSched, Sched, States
  <1>2. sch = [r \in Reqs |-> sch[r]] /\ run = <<>> /\ wait = <<>> /\ finished = {}
        /\ inflight = <<>> /\ rows = <<>> /\ fed = <<>>
    BY DEF Init
  <1>3. Queues
    BY <1>1, <1>2 DEF Queues, IsInjective, Range
  <1>4. Batched /\ DecodesFirst
    BY <1>2 DEF Batched, Batch, DecodesFirst, Range
  <1> QED
    BY <1>2, <1>3, <1>4 DEF Rowed

\* A step that does not raise leaves the rows of the scheduled requests.
LEMMA SteppedRows ==
    ASSUME Queues, Batched, NEW o, OutputOK(o), Stepped(o), up'
    PROVE  SameRows(Prepared(o).rows, rows')
  <1> DEFINE b == Prepared(o)
             c == UpdatedCache(o)
  <1>1. Batch(b.rows) /\ Hole \notin Range(b.rows)
    BY PreparedProperties
  <1>2. rows' = b.rows \/ rows' = Append1(b.rows, c, o.q).rows
        \/ rows' = Placeholders(b.rows, c, o.q).rows
    BY Zenon DEF Stepped
  <1> HIDE DEF b, c
  <1>3. SameRows(b.rows, b.rows)
    BY <1>1 DEF SameRows, Batch, Range
  <1>4. /\ SameRows(b.rows, Append1(b.rows, c, o.q).rows)
        /\ SameRows(b.rows, Placeholders(b.rows, c, o.q).rows)
    BY <1>1, SampledRows
  <1> QED
    BY <1>2, <1>3, <1>4, Zenon DEF b

\* So a step that begins with well-formed rows ends with them.
LEMMA RowedStep ==
    ASSUME Rowed, Step
    PROVE  Rowed'
  <1> DEFINE o == Output
             b == Prepared(o)
  <1>1. Queues /\ inflight \in Seq(SUBSET Reqs) /\ OutputOK(o) /\ Stepped(o)
    BY StepStepped DEF Rowed
  <1> HIDE DEF o
  <1>2. up /\ Batched
    BY <1>1 DEF Rowed, Stepped
  <1>3. Queues' /\ \A r \in Reqs : ScheduledReq(o, r)
    BY <1>1, ScheduledEffect DEF Stepped
  <1>4. DOMAIN o.q \subseteq Reqs /\ \A r \in DOMAIN o.q : o.q[r] \in Nat
    BY <1>1 DEF OutputOK, Range
  <1>5. inflight' \in Seq(SUBSET Reqs)
    <2>1. Sampled(UpdatedCache(o), o.q) \in SUBSET Reqs
      BY <1>4 DEF Sampled
    <2>2. \/ inflight' = Append(inflight, {}) \/ inflight' = inflight
          \/ inflight' = Append(inflight, Sampled(UpdatedCache(o), o.q))
      BY <1>1, Zenon DEF Stepped
    <2> QED
      BY <1>1, <2>1, <2>2
  <1>6. ASSUME up'
        PROVE  Batched' /\ DecodesFirst'
    <2>1. /\ Batch(b.rows) /\ Hole \notin Range(b.rows)
          /\ {x.req : x \in Range(b.rows)} = DOMAIN o.q
          /\ \A i \in DOMAIN b.rows : (i <= b.ndec) <=> (o.q[b.rows[i].req] = 1)
      BY <1>1, <1>2, PreparedProperties
    <2>2. SameRows(b.rows, rows')
      BY <1>1, <1>2, <1>6, SteppedRows
    <2>3. ndec' = b.ndec
      BY <1>1, Zenon DEF Stepped
    <2>f. /\ DOMAIN fed' = DOMAIN o.q
          /\ \A r \in DOMAIN o.q : fed'[r].due.toks = Own(r, sch[r].comp, sch[r].comp + o.q[r])
      BY <1>1, Zenon DEF Stepped
    <2> HIDE DEF b
    <2>4. /\ Batch(rows') /\ Hole \notin Range(rows')
          /\ {x.req : x \in Range(rows')} = DOMAIN o.q
      BY <2>1, <2>2, SameRowsKept
    <2>5. \A x \in Range(rows') : x.req \in DOMAIN o.q
      BY <2>4
    <2>6. \A r \in DOMAIN o.q : sch'[r].st = "running"
      BY <1>3, <1>4 DEF ScheduledReq
    <2>7. Batched'
      BY <2>4, <2>5, <2>6 DEF Batched, Batch, Range, Hole
    <2>8. \A r \in DOMAIN o.q : Len(fed'[r].due.toks) = o.q[r]
      <3> SUFFICES ASSUME NEW r \in DOMAIN o.q
                   PROVE  Len(fed'[r].due.toks) = o.q[r]
        OBVIOUS
      <3>1. sch[r].comp \in Int /\ o.q[r] \in Nat
        BY <1>1, <1>4 DEF Queues, IsSched, Sched
      <3>2. PICK a \in Int, n \in Nat : a = sch[r].comp /\ n = o.q[r]
        BY <3>1
      <3>3. Len(Own(r, a, a + n)) = n
        BY OwnProperties
      <3> QED
        BY <3>2, <3>3, <2>f
    <2>9. \A i \in DOMAIN rows' : rows'[i].req \in DOMAIN o.q /\ rows'[i].req \in Reqs
      BY <2>5, <1>4 DEF Range
    <2>10. \A i, j \in DOMAIN rows' : i # j => rows'[i].req # rows'[j].req
      BY <2>4, <2>9 DEF Batch
    <2>11. {rows'[i].req : i \in DOMAIN rows'} = DOMAIN fed'
      BY <2>4, <2>f DEF Range
    <2>12. \A i \in DOMAIN rows' : (i <= ndec') <=> (Len(fed'[rows'[i].req].due.toks) = 1)
      <3>1. \A i \in DOMAIN rows' : i \in DOMAIN b.rows /\ rows'[i].req = b.rows[i].req
        BY <2>2 DEF SameRows
      <3> SUFFICES ASSUME NEW i \in DOMAIN rows'
                   PROVE  (i <= ndec') <=> (Len(fed'[rows'[i].req].due.toks) = 1)
        OBVIOUS
      <3>2. PICK r : r = rows'[i].req /\ r = b.rows[i].req /\ r \in DOMAIN o.q
        BY <3>1, <2>9
      <3>3. Len(fed'[r].due.toks) = o.q[r] /\ ((i <= ndec') <=> (o.q[r] = 1))
        BY <3>1, <3>2, <2>1, <2>3, <2>8
      <3> QED
        BY <3>2, <3>3
    <2>13. DecodesFirst'
      BY <2>10, <2>11, <2>12 DEF DecodesFirst
    <2> QED
      BY <2>7, <2>13
  <1> QED
    BY <1>3, <1>5, <1>6 DEF Rowed

\* Nothing else touches the rows, and a request that was scheduled is never
\* new again.
LEMMA RowedKept ==
    ASSUME Rowed, Queues', inflight' \in Seq(SUBSET Reqs), UNCHANGED runnerVars,
           \A r \in Reqs : sch'[r].st \in {"new", "waiting"} => sch[r].st \in {"new", "waiting"}
    PROVE  Rowed'
  <1> SUFFICES ASSUME up' PROVE Batched' /\ DecodesFirst'
    BY DEF Rowed
  <1>1. Batched /\ DecodesFirst /\ rows' = rows /\ fed' = fed /\ ndec' = ndec
    BY DEF Rowed, runnerVars
  <1>2. \A x \in Range(rows) : x.req \in Reqs
    BY <1>1 DEF Batched, Batch, Range
  <1>3. Batched'
    BY <1>1, <1>2 DEF Batched, Batch
  <1> QED
    BY <1>1, <1>3 DEF DecodesFirst

\* Every step keeps the rows in order.
LEMMA RowedNext == Rowed /\ [Next]_vars => Rowed'
  <1> SUFFICES ASSUME Rowed, [Next]_vars PROVE Rowed'
    OBVIOUS
  <1>0. Queues /\ inflight \in Seq(SUBSET Reqs)
    BY DEF Rowed
  <1>1. CASE Step
    BY <1>1, RowedStep
  <1>2. CASE Update
    <2>1. /\ Queues' /\ inflight # <<>> /\ inflight' = Tail(inflight) /\ UNCHANGED runnerVars
          /\ \A r \in Reqs : UpdatedReq(r)
      BY <1>0, <1>2, UpdateEffect
    <2>2. inflight' \in Seq(SUBSET Reqs)
      BY <1>0, <2>1, InjectiveTail
    <2>3. \A r \in Reqs : sch'[r].st = sch[r].st \/ sch'[r].st = "done"
      BY <2>1 DEF UpdatedReq
    <2> QED
      BY <2>1, <2>2, <2>3, RowedKept
  <1>3. ASSUME NEW r \in Reqs, NEW m \in Prompts, AddRequest(r, m)
        PROVE  Rowed'
    <2>1. /\ Queues' /\ sch[r].st = "new" /\ inflight' = inflight /\ UNCHANGED runnerVars
          /\ \A q \in Reqs \ {r} : sch'[q] = sch[q]
      BY <1>0, <1>3, AddRequestEffect
    <2> QED
      BY <2>1, <1>0, RowedKept
  <1>4. ASSUME NEW r \in Reqs, Abort(r)
        PROVE  Rowed'
    <2>1. /\ Queues' /\ sch'[r].st = "done" /\ inflight' = inflight /\ UNCHANGED runnerVars
          /\ \A q \in Reqs \ {r} : sch'[q] = sch[q]
      BY <1>0, <1>4, AbortEffect
    <2> QED
      BY <2>1, <1>0, RowedKept
  <1>5. CASE Reset
    <2>1. /\ Queues' /\ inflight' = inflight /\ UNCHANGED runnerVars
          /\ \A r \in Reqs : sch'[r].st = "preempted" \/ sch'[r] = sch[r]
      BY <1>0, <1>5, ResetEffect
    <2> QED
      BY <2>1, <1>0, RowedKept
  <1>6. CASE UNCHANGED vars
    <2>1. UNCHANGED <<sch, run, wait, finished, inflight>> /\ UNCHANGED runnerVars
      BY <1>6 DEF vars, schedulerVars
    <2>2. Queues'
      BY <1>0, <2>1 DEF Queues
    <2> QED
      BY <2>1, <2>2, <1>0, RowedKept
  <1> QED
    BY <1>1, <1>2, <1>3, <1>4, <1>5, <1>6 DEF Next

\* The queues, the batches under way and the rows are always well formed:
\* a request is in one queue and in it once, and as long as no step has raised
\* every row belongs to a different request.
THEOREM RowedAlways == Spec => []Rowed
  <1>1. Init => Rowed
    BY RowedInit
  <1>2. Rowed /\ [Next]_vars => Rowed'
    BY RowedNext
  <1> QED
    BY <1>1, <1>2, PTL DEF Spec

\* As long as no step has raised, the rows are the scheduled requests, each
\* once and without a hole, and exactly the first request_distribution[0] of
\* them run a single token: whatever order requests come, return, stop, are
\* preempted and are reset in, condense and _reorder_batch restore the layout
\* that the attention kernel is given.
THEOREM RowsCorrect == Spec => [](up => DecodesFirst)
  <1>1. Rowed => (up => DecodesFirst)
    BY DEF Rowed
  <1> QED
    BY <1>1, RowedAlways, PTL

-----------------------------------------------------------------------------
(* Lists of tokens, and the batches a request is in *)

IsList(s) == s \in Seq(Range(s))

\* One element more.
LEMMA ListAppend ==
    ASSUME NEW s, IsList(s), NEW x
    PROVE  IsList(Append(s, x)) /\ Len(Append(s, x)) = Len(s) + 1 /\ Len(s) \in Nat
  <1>1. PICK T : T = Range(s) \cup {x}
    OBVIOUS
  <1>2. s \in Seq(T) /\ x \in T
    <2>1. s \in Seq(Range(s))
      BY DEF IsList
    <2> QED
      BY <1>1, <2>1
  <1>3. PICK t : t = Append(s, x)
    OBVIOUS
  <1>4. t \in Seq(T) /\ Len(t) = Len(s) + 1 /\ Len(s) \in Nat
    BY <1>2, <1>3
  <1>5. IsList(t)
    <2>1. t = [i \in 1 .. Len(t) |-> t[i]] /\ Len(t) \in Nat
          /\ \A i \in 1 .. Len(t) : t[i] \in Range(t)
      BY <1>4 DEF Range
    <2> QED
      BY <2>1 DEF IsList
  <1> QED
    BY <1>3, <1>4, <1>5

\* Another last element.
LEMMA ListSetLast ==
    ASSUME NEW s, IsList(s), NEW x
    PROVE  IsList(SetLast(s, x)) /\ Len(SetLast(s, x)) = Len(s)
  <1>1. PICK t : t = SetLast(s, x)
    OBVIOUS
  <1>2. s = [i \in 1 .. Len(s) |-> s[i]] /\ Len(s) \in Nat
    BY DEF IsList
  <1>3. t = [i \in 1 .. Len(s) |-> t[i]]
    BY <1>1, <1>2 DEF SetLast
  <1>4. \A i \in 1 .. Len(s) : t[i] \in Range(t)
    BY <1>3 DEF Range
  <1>5. t \in Seq(Range(t)) /\ Len(t) = Len(s)
    BY <1>2, <1>3, <1>4
  <1> QED
    BY <1>1, <1>5 DEF IsList

\* The batches of s that r has sampled in.
In(s, r) == {i \in DOMAIN s : r \in s[i]}

\* A request is in finitely many batches,
LEMMA InFinite ==
    ASSUME NEW s \in Seq(SUBSET Reqs), NEW r
    PROVE  IsFiniteSet(In(s, r)) /\ Cardinality(In(s, r)) \in Nat
  <1>1. PICK N \in Nat : N = Len(s) /\ DOMAIN s = 1 .. N
    OBVIOUS
  <1>2. In(s, r) \in SUBSET (1 .. N)
    BY <1>1 DEF In
  <1> QED
    BY <1>2, FiniteWithin, FS_CardinalityType

\* in one more when it is sampled,
LEMMA InAppend ==
    ASSUME NEW s \in Seq(SUBSET Reqs), NEW S \in SUBSET Reqs, NEW r
    PROVE  Cardinality(In(Append(s, S), r)) = Cardinality(In(s, r)) + IF r \in S THEN 1 ELSE 0
  <1>1. PICK N, t : /\ N \in Nat /\ N = Len(s) /\ t = Append(s, S) /\ t \in Seq(SUBSET Reqs)
                    /\ DOMAIN s = 1 .. N /\ DOMAIN t = 1 .. N + 1
                    /\ t[N + 1] = S /\ \A i \in 1 .. N : t[i] = s[i]
    <2>1. PICK N, t : N = Len(s) /\ t = Append(s, S)
      OBVIOUS
    <2>2. /\ N \in Nat /\ DOMAIN s = 1 .. N /\ t \in Seq(SUBSET Reqs) /\ Len(t) = N + 1
          /\ t[N + 1] = S /\ \A i \in 1 .. N : t[i] = s[i]
      BY <2>1
    <2>3. DOMAIN t = 1 .. N + 1
      BY <2>2
    <2> QED
      BY <2>1, <2>2, <2>3
  <1>2. \A i \in 1 .. N + 1 : i \in 1 .. N \/ i = N + 1
    BY <1>1
  <1>3. N + 1 \notin 1 .. N /\ N + 1 \in 1 .. N + 1 /\ 1 .. N \subseteq 1 .. N + 1
    BY <1>1
  <1>4. IsFiniteSet(In(s, r)) /\ N + 1 \notin In(s, r) /\ Cardinality(In(s, r)) \in Nat
    BY <1>1, <1>3, InFinite DEF In
  <1>5. CASE r \in S
    <2>1. In(t, r) = In(s, r) \cup {N + 1}
      BY <1>1, <1>2, <1>3, <1>5 DEF In
    <2>2. Cardinality(In(t, r)) = Cardinality(In(s, r)) + 1
      BY <2>1, <1>4, FS_AddElement
    <2> QED
      BY <1>1, <1>5, <2>2
  <1>6. CASE r \notin S
    <2>1. In(t, r) = In(s, r)
      BY <1>1, <1>2, <1>3, <1>6 DEF In
    <2> QED
      BY <1>1, <1>4, <1>6, <2>1
  <1> QED
    BY <1>5, <1>6

\* and in one less when the oldest batch is reported.
LEMMA InTail ==
    ASSUME NEW s \in Seq(SUBSET Reqs), s # <<>>, NEW r
    PROVE  Cardinality(In(Tail(s), r)) = Cardinality(In(s, r)) - IF r \in Head(s) THEN 1 ELSE 0
  <1>1. PICK N, t : /\ N \in Nat /\ N + 1 = Len(s) /\ t = Tail(s) /\ t \in Seq(SUBSET Reqs)
                    /\ DOMAIN s = 1 .. N + 1 /\ DOMAIN t = 1 .. N
                    /\ Head(s) = s[1] /\ \A i \in 1 .. N : t[i] = s[i + 1]
    <2>1. Len(s) - 1 \in Nat
      OBVIOUS
    <2>2. PICK N \in Nat : N = Len(s) - 1
      BY <2>1
    <2>3. PICK t : t = Tail(s)
      OBVIOUS
    <2>4. /\ N + 1 = Len(s) /\ DOMAIN s = 1 .. N + 1 /\ t \in Seq(SUBSET Reqs) /\ Len(t) = N
          /\ Head(s) = s[1] /\ \A i \in 1 .. N : t[i] = s[i + 1]
      BY <2>2, <2>3
    <2>5. DOMAIN t = 1 .. N
      BY <2>4
    <2> QED
      BY <2>2, <2>3, <2>4, <2>5, ZenonT(60)
  <1> DEFINE A == In(s, r) \ {1}
             B == In(t, r)
             f == [i \in B |-> i + 1]
  <1>2. \A i \in 1 .. N : i + 1 \in 1 .. N + 1 /\ i + 1 # 1
    BY <1>1
  <1>3. \A i \in 1 .. N + 1 : i # 1 => i - 1 \in 1 .. N /\ (i - 1) + 1 = i
    BY <1>1
  <1>4. \A i \in B : i \in 1 .. N /\ r \in s[i + 1]
    BY <1>1 DEF In
  <1>5. \A i \in A : i \in 1 .. N + 1 /\ i # 1 /\ r \in s[i]
    BY <1>1 DEF In
  <1>6. \A i \in B : i + 1 \in A
    BY <1>1, <1>2, <1>4 DEF In
  <1>7. \A i \in A : i - 1 \in B /\ (i - 1) + 1 = i
    BY <1>1, <1>3, <1>5 DEF In
  <1>8. f \in Bijection(B, A)
    <2>1. f \in [B -> A]
      BY <1>6
    <2>2. \A i, j \in B : f[i] = f[j] => i = j
      BY <1>4
    <2>3. \A i \in A : \E j \in B : f[j] = i
      BY <1>7
    <2> HIDE DEF A, B, f
    <2> QED
      BY <2>1, <2>2, <2>3 DEF Bijection, Injection, Surjection, IsInjective
  <1>9. IsFiniteSet(B) /\ Cardinality(B) \in Nat /\ IsFiniteSet(In(s, r)) /\ Cardinality(In(s, r)) \in Nat
    BY <1>1, InFinite
  <1>10. Cardinality(A) = Cardinality(B)
    <2> HIDE DEF A, B, f
    <2> QED
      BY <1>8, <1>9, FS_Bijection DEF ExistsBijection
  <1>11. Cardinality(A) = Cardinality(In(s, r)) - IF 1 \in In(s, r) THEN 1 ELSE 0
    <2>1. CASE 1 \in In(s, r)
      BY <1>9, <2>1, FS_RemoveElement
    <2>2. CASE 1 \notin In(s, r)
      <3>1. A = In(s, r)
        BY <2>2
      <3> HIDE DEF A
      <3>2. Cardinality(A) = Cardinality(In(s, r)) /\ Cardinality(In(s, r)) \in Int
        BY <1>9, <3>1
      <3> QED
        BY <2>2, <3>2
    <2> QED
      BY <2>1, <2>2
  <1>12. 1 \in In(s, r) <=> r \in Head(s)
    BY <1>1 DEF In
  <1> QED
    BY <1>1, <1>9, <1>10, <1>11, <1>12

-----------------------------------------------------------------------------
(* The cached tokens are the counted ones *)

IsCached(x) ==
    /\ x = [toks |-> x.toks, comp |-> x.comp, blk |-> x.blk]
    /\ IsList(x.toks)

\* What the scheduler counts of a request, and what the runner keeps of it.
CountedReq(r) ==
    LET s == sch[r]
        n == Cardinality(In(inflight, r))
    IN /\ s.st # "done" => /\ s.prompt \in Nat /\ s.ntok >= s.prompt
                           /\ s.ph = IF Async THEN n ELSE 0
                           /\ Async => ~s.discard
       /\ s.st \in {"new", "waiting"} => n = 0 /\ r \notin DOMAIN cache /\ r \notin DOMAIN pre
       /\ s.st \in {"running", "preempted"} =>
             /\ r \in DOMAIN cache /\ Len(cache[r].toks) = s.ntok + n
             /\ r \in DOMAIN pre => s.ntok + n > s.prompt
       /\ r \in DOMAIN cache => IsCached(cache[r])

Counted ==
    /\ up
    /\ cache = [r \in DOMAIN cache |-> cache[r]] /\ DOMAIN cache \subseteq Reqs
    /\ DOMAIN pre \subseteq Reqs
    /\ \A r \in Reqs : CountedReq(r)

\* Nothing is cut off while the counts agree.
LEMMA CutWhole ==
    ASSUME NEW r, NEW toks, IsList(toks), Len(toks) = NumTokens(r)
    PROVE  Cut(toks, r) = toks
  <1>1. PICK n, t : n = Len(toks) /\ t = SubSeq(toks, 1, n)
    OBVIOUS
  <1>2. n \in Nat /\ toks \in Seq(Range(toks))
    BY <1>1 DEF IsList
  <1>3. Min({n, n}) = n
    <2>1. n \in Int
      BY <1>2
    <2>2. Min({n, n}) \in {n, n}
      BY <2>1, MinPair, Zenon
    <2> QED
      BY <2>2
  <1>4. Cut(toks, r) = t
    BY <1>1, <1>3 DEF Cut
  <1>5. t = toks
    <2>1. t \in Seq(Range(toks)) /\ Len(t) = n /\ \A i \in 1 .. n : t[i] = toks[i]
      BY <1>1, <1>2
    <2> QED
      BY <1>1, <1>2, <2>1
  <1> QED
    BY <1>4, <1>5

\* When a step begins, the scheduler's count of a request includes every token
\* that is on its way.
LEMMA NumTokensCounted ==
    ASSUME Queues, inflight \in Seq(SUBSET Reqs), Counted,
           Len(inflight) < IF Async THEN 2 ELSE 1, NEW r \in Reqs, sch[r].st # "done"
    PROVE  /\ NumTokens(r) = sch[r].ntok + Cardinality(In(inflight, r))
           /\ NumTokens(r) \in Nat /\ sch[r].ntok \in Nat
           /\ Cardinality(In(inflight, r)) \in Nat
           /\ ~Async => Cardinality(In(inflight, r)) = 0 /\ sch[r].ph = 0
  <1>1. /\ sch[r].prompt \in Nat /\ sch[r].ntok >= sch[r].prompt /\ sch[r].ntok \in Int
        /\ sch[r].ph = IF Async THEN Cardinality(In(inflight, r)) ELSE 0
    BY DEF Counted, CountedReq, Queues, IsSched, Sched
  <1>2. Cardinality(In(inflight, r)) \in Nat
    BY InFinite
  <1>3. ~Async => Cardinality(In(inflight, r)) = 0
    <2> SUFFICES ASSUME ~Async PROVE Cardinality(In(inflight, r)) = 0
      OBVIOUS
    <2>1. Len(inflight) = 0
      OBVIOUS
    <2>2. In(inflight, r) = {}
      BY <2>1 DEF In
    <2> QED
      BY <2>2, FS_EmptySet
  <1> QED
    BY <1>1, <1>2, <1>3 DEF NumTokens

\* The cache of a step: c has what the scheduler counts of every scheduled
\* request, and the rest is as it was.
CacheUpdated(o, c) ==
    /\ c = [r \in DOMAIN c |-> c[r]]
    /\ DOMAIN c = (DOMAIN cache \ finished) \cup DOMAIN o.q
    /\ \A r \in DOMAIN o.q :
          /\ r \in Reqs /\ IsCached(c[r]) /\ c[r].comp = sch[r].comp
          /\ Len(c[r].toks) = NumTokens(r)
          /\ sch[r].st = "waiting" => c[r].toks = Own(r, 0, sch[r].ntok)
          /\ sch[r].st # "waiting" => r \in DOMAIN cache /\ c[r].toks = cache[r].toks
          /\ c[r].blk = IF sch[r].st = "running" THEN cache[r].blk \o o.blk[r] ELSE o.blk[r]
    /\ \A r \in DOMAIN c \ DOMAIN o.q : c[r] = cache[r]

\* update_states leaves the cached states with the scheduler's counts.
LEMMA UpdatedCacheProperties ==
    ASSUME Queues, inflight \in Seq(SUBSET Reqs), Counted,
           Len(inflight) < IF Async THEN 2 ELSE 1, NEW o, OutputOK(o), NEW c, c = UpdatedCache(o)
    PROVE  CacheUpdated(o, c)
  <1>1. o.order \in Seq(Reqs) /\ Range(o.order) = DOMAIN o.q /\ DOMAIN o.q \subseteq Reqs
    BY DEF OutputOK, Range
  <1>2. \A r \in DOMAIN o.q : sch[r].st \in {"waiting", "running", "preempted"}
    BY QueuedState DEF OutputOK
  <1>3. \A r \in DOMAIN o.q : r \in ToSet(Fresh(o)) <=> sch[r].st = "waiting"
    <2>1. Range(Fresh(o)) = Range(o.order) \ {r \in Reqs : sch[r].st # "waiting"}
      BY <1>1, RemoveAllProperties DEF Fresh
    <2>2. ToSet(Fresh(o)) = Range(Fresh(o))
      BY DEF ToSet, Range
    <2> QED
      BY <1>1, <2>1, <2>2
  <1>4. ToSet(Fresh(o)) \subseteq DOMAIN o.q
    <2>1. Range(Fresh(o)) = Range(o.order) \ {r \in Reqs : sch[r].st # "waiting"}
      BY <1>1, RemoveAllProperties DEF Fresh
    <2>2. ToSet(Fresh(o)) = Range(Fresh(o))
      BY DEF ToSet, Range
    <2> QED
      BY <1>1, <2>1, <2>2
  <1>5. /\ c = [r \in DOMAIN c |-> c[r]]
        /\ DOMAIN c = (DOMAIN cache \ finished) \cup DOMAIN o.q
        /\ \A r \in DOMAIN c \ DOMAIN o.q : c[r] = cache[r]
    BY <1>4 DEF UpdatedCache
  <1>6. ASSUME NEW r \in DOMAIN o.q
        PROVE  /\ r \in Reqs /\ IsCached(c[r]) /\ c[r].comp = sch[r].comp
               /\ Len(c[r].toks) = NumTokens(r)
               /\ sch[r].st = "waiting" => c[r].toks = Own(r, 0, sch[r].ntok)
               /\ sch[r].st # "waiting" => r \in DOMAIN cache /\ c[r].toks = cache[r].toks
               /\ c[r].blk = IF sch[r].st = "running" THEN cache[r].blk \o o.blk[r]
                             ELSE o.blk[r]
    <2>1. /\ r \in Reqs /\ NumTokens(r) = sch[r].ntok + Cardinality(In(inflight, r))
          /\ sch[r].ntok \in Nat
      BY <1>1, <1>2, NumTokensCounted
    <2>2. CASE sch[r].st = "waiting"
      <3>1. c[r] = [toks |-> Own(r, 0, sch[r].ntok), comp |-> sch[r].comp, blk |-> o.blk[r]]
        BY <1>3, <2>2, Zenon DEF UpdatedCache
      <3>2. NumTokens(r) = sch[r].ntok
        BY <2>1, <2>2 DEF Counted, CountedReq
      <3>3. PICK n \in Nat : n = sch[r].ntok
        BY <2>1
      <3>4. PICK a \in Int : a = 0 /\ a + n = n
        OBVIOUS
      <3>5. IsList(Own(r, a, a + n)) /\ Len(Own(r, a, a + n)) = n
        BY OwnProperties, Zenon DEF IsList
      <3>6. IsList(Own(r, 0, sch[r].ntok)) /\ Len(Own(r, 0, sch[r].ntok)) = sch[r].ntok
        BY <3>3, <3>4, <3>5
      <3>7. PICK s : s = Own(r, 0, sch[r].ntok)
        OBVIOUS
      <3>8. c[r] = [toks |-> s, comp |-> sch[r].comp, blk |-> o.blk[r]] /\ IsList(s)
        BY <3>1, <3>6, <3>7
      <3> QED
        BY <2>1, <2>2, <3>2, <3>6, <3>7, <3>8 DEF IsCached
    <2>3. CASE sch[r].st # "waiting"
      <3>1. /\ sch[r].st \in {"running", "preempted"} /\ r \in DOMAIN cache
            /\ IsCached(cache[r]) /\ Len(cache[r].toks) = NumTokens(r)
        BY <1>2, <2>1, <2>3 DEF Counted, CountedReq
      <3>2. Cut(cache[r].toks, r) = cache[r].toks /\ IsList(cache[r].toks)
        BY <3>1, CutWhole DEF IsCached
      <3>3. c[r] = [toks |-> Cut(cache[r].toks, r), comp |-> sch[r].comp,
                    blk |-> IF r \in Resumed(o) THEN o.blk[r] ELSE cache[r].blk \o o.blk[r]]
        BY <1>3, <2>3, Zenon DEF UpdatedCache
      <3>4. r \in Resumed(o) <=> sch[r].st # "running"
        BY <3>1 DEF Resumed
      <3>5. PICK s, b : s = cache[r].toks /\ b = IF sch[r].st = "running"
                                                 THEN cache[r].blk \o o.blk[r] ELSE o.blk[r]
        OBVIOUS
      <3>6. c[r] = [toks |-> s, comp |-> sch[r].comp, blk |-> b] /\ IsList(s)
        BY <3>2, <3>3, <3>4, <3>5
      <3> QED
        BY <2>1, <2>3, <3>1, <3>5, <3>6 DEF IsCached
    <2> QED
      BY <2>2, <2>3
  <1> QED
    BY <1>5, <1>6 DEF CacheUpdated

\* A cached state with other tokens.
LEMMA CachedSet ==
    ASSUME NEW x, IsCached(x), NEW t, IsList(t), NEW y, y = [x EXCEPT !.toks = t]
    PROVE  IsCached(y) /\ y.toks = t /\ y.comp = x.comp /\ y.blk = x.blk
  BY DEF IsCached

\* A sampled token, or its placeholder, is one more; a placeholder that is
\* replaced is none more.
SampledCache(c, S, R, d) ==
    /\ d = [r \in DOMAIN c |-> d[r]]
    /\ \A r \in DOMAIN c :
          /\ r \notin S \cup R => d[r] = c[r]
          /\ IsCached(c[r]) => /\ IsCached(d[r]) /\ d[r].blk = c[r].blk
                               /\ Len(d[r].toks) = Len(c[r].toks) + IF r \in S THEN 1 ELSE 0

\* A synchronous step appends the sampled tokens,
LEMMA AppendedCache ==
    ASSUME NEW rs, NEW c, NEW q
    PROVE  /\ SampledCache(c, Sampled(c, q), {}, Append1(rs, c, q).cache)
           /\ \A r \in DOMAIN c : IsCached(c[r]) =>
                 Append1(rs, c, q).cache[r].toks =
                    IF r \in Sampled(c, q) THEN Append(c[r].toks, Token(r, Len(c[r].toks) + 1))
                    ELSE c[r].toks
  <1>1. PICK S, d : S = Sampled(c, q) /\ d = Append1(rs, c, q).cache
    OBVIOUS
  <1>2. d = [r \in DOMAIN c |-> IF r \in S
                 THEN [c[r] EXCEPT !.toks = Append(@, Token(r, Len(@) + 1))] ELSE c[r]]
    BY <1>1, Zenon DEF Append1, MapCache
  <1>3. ASSUME NEW r \in DOMAIN c, IsCached(c[r])
        PROVE  /\ IsCached(d[r]) /\ d[r].blk = c[r].blk
               /\ Len(d[r].toks) = Len(c[r].toks) + IF r \in S THEN 1 ELSE 0
               /\ d[r].toks = IF r \in S THEN Append(c[r].toks, Token(r, Len(c[r].toks) + 1))
                              ELSE c[r].toks
    <2>1. CASE r \in S
      <3>1. PICK x, y, t : /\ x = c[r] /\ y = d[r]
                           /\ t = Append(c[r].toks, Token(r, Len(c[r].toks) + 1))
        OBVIOUS
      <3>2. y = [x EXCEPT !.toks = t]
        BY <1>2, <2>1, <3>1
      <3>3. IsList(t) /\ Len(t) = Len(x.toks) + 1
        BY <1>3, <3>1, ListAppend DEF IsCached
      <3>4. IsCached(y) /\ y.toks = t /\ y.blk = x.blk
        <4>1. IsCached(x)
          BY <1>3, <3>1
        <4> QED
          BY ONLY <4>1, <3>2, <3>3, CachedSet
      <3> QED
        BY <2>1, <3>1, <3>3, <3>4
    <2>2. CASE r \notin S
      <3>1. d[r] = c[r]
        BY <1>2, <2>2
      <3>2. Len(c[r].toks) \in Nat
        BY <1>3 DEF IsCached, IsList
      <3> QED
        BY <2>2, <3>1, <3>2, <1>3
    <2> QED
      BY <2>1, <2>2
  <1>4. d = [r \in DOMAIN c |-> d[r]] /\ \A r \in DOMAIN c : r \notin S => d[r] = c[r]
    BY <1>2
  <1>5. SampledCache(c, S, {}, d)
    BY <1>3, <1>4 DEF SampledCache
  <1> QED
    BY <1>1, <1>3, <1>5

\* an asynchronous one placeholders, and replaces those of the step before.
LEMMA PlaceholderCache ==
    ASSUME NEW rs, NEW c, NEW q
    PROVE  /\ SampledCache(c, Sampled(c, q), Replaced(rs), Placeholders(rs, c, q).cache)
           /\ \A r \in DOMAIN c : IsCached(c[r]) =>
                 \E t : /\ t = IF r \in Replaced(rs) THEN SetLast(c[r].toks, pre[r]) ELSE c[r].toks
                       /\ Placeholders(rs, c, q).cache[r].toks =
                             IF r \in Sampled(c, q) THEN Append(t, Zero) ELSE t
  <1>0. PICK d : d = Placeholders(rs, c, q).cache
    OBVIOUS
  <1>1. PICK S, R : S = Sampled(c, q) /\ R = Replaced(rs) /\ d = Placeholders(rs, c, q).cache
    BY <1>0, Zenon
  <1>2. PICK e : e = [r \in DOMAIN c |-> IF r \in R
                            THEN [c[r] EXCEPT !.toks = SetLast(@, pre[r])] ELSE c[r]]
    BY Zenon
  <1>3. d = [r \in DOMAIN e |-> IF r \in S
                 THEN [e[r] EXCEPT !.toks = Append(@, Zero)] ELSE e[r]]
    BY <1>1, <1>2, Zenon DEF Placeholders, MapCache
  <1>4. DOMAIN e = DOMAIN c
    BY <1>2
  <1>5. ASSUME NEW r \in DOMAIN c, IsCached(c[r])
        PROVE  /\ IsCached(e[r]) /\ e[r].blk = c[r].blk /\ Len(e[r].toks) = Len(c[r].toks)
               /\ e[r].toks = IF r \in R THEN SetLast(c[r].toks, pre[r]) ELSE c[r].toks
    <2>1. CASE r \in R
      <3>1. PICK x, y, t : x = c[r] /\ y = e[r] /\ t = SetLast(c[r].toks, pre[r])
        OBVIOUS
      <3>2. y = [x EXCEPT !.toks = t]
        BY <1>2, <2>1, <3>1
      <3>3. IsList(t) /\ Len(t) = Len(x.toks)
        BY <1>5, <3>1, ListSetLast DEF IsCached
      <3>4. IsCached(y) /\ y.toks = t /\ y.blk = x.blk
        <4>1. IsCached(x)
          BY <1>5, <3>1
        <4> QED
          BY ONLY <4>1, <3>2, <3>3, CachedSet
      <3> QED
        BY <2>1, <3>1, <3>3, <3>4
    <2>2. CASE r \notin R
      BY <1>2, <1>5, <2>2
    <2> QED
      BY <2>1, <2>2
  <1>6. ASSUME NEW r \in DOMAIN c, IsCached(c[r])
        PROVE  /\ IsCached(d[r]) /\ d[r].blk = c[r].blk
               /\ Len(d[r].toks) = Len(c[r].toks) + IF r \in S THEN 1 ELSE 0
               /\ d[r].toks = IF r \in S THEN Append(e[r].toks, Zero) ELSE e[r].toks
    <2>0. IsCached(e[r]) /\ e[r].blk = c[r].blk /\ Len(e[r].toks) = Len(c[r].toks)
      BY <1>5, <1>6
    <2>1. CASE r \in S
      <3>1. PICK x, y, t : x = e[r] /\ y = d[r] /\ t = Append(e[r].toks, Zero)
        OBVIOUS
      <3>2. y = [x EXCEPT !.toks = t]
        BY <1>3, <1>4, <2>1, <3>1
      <3>3. IsList(t) /\ Len(t) = Len(x.toks) + 1
        BY <2>0, <3>1, ListAppend DEF IsCached
      <3>4. IsCached(y) /\ y.toks = t /\ y.blk = x.blk
        <4>1. IsCached(x)
          BY <2>0, <3>1
        <4> QED
          BY ONLY <4>1, <3>2, <3>3, CachedSet
      <3> QED
        BY <2>0, <2>1, <3>1, <3>3, <3>4
    <2>2. CASE r \notin S
      <3>1. d[r] = e[r]
        BY <1>3, <1>4, <2>2
      <3>2. Len(c[r].toks) \in Nat
        BY <1>6 DEF IsCached, IsList
      <3> QED
        BY <2>0, <2>2, <3>1, <3>2
    <2> QED
      BY <2>1, <2>2
  <1>7. d = [r \in DOMAIN c |-> d[r]] /\ \A r \in DOMAIN c : r \notin S \cup R => d[r] = c[r]
    BY <1>2, <1>3, <1>4
  <1>8. SampledCache(c, S, R, d)
    BY <1>6, <1>7 DEF SampledCache
  <1>9. ASSUME NEW r \in DOMAIN c, IsCached(c[r])
        PROVE  \E t : /\ t = IF r \in R THEN SetLast(c[r].toks, pre[r]) ELSE c[r].toks
                     /\ d[r].toks = IF r \in S THEN Append(t, Zero) ELSE t
    <2>1. /\ e[r].toks = IF r \in R THEN SetLast(c[r].toks, pre[r]) ELSE c[r].toks
          /\ d[r].toks = IF r \in S THEN Append(e[r].toks, Zero) ELSE e[r].toks
      BY <1>5, <1>6, <1>9
    <2> QED
      BY <2>1
  <1> QED
    BY <1>1, <1>8, <1>9

\* What replaces a placeholder is of a request in the batch.
LEMMA ReplacedScheduled ==
    ASSUME Queues, Batched, NEW o, OutputOK(o)
    PROVE  Replaced(Prepared(o).rows) = DOMAIN pre \cap DOMAIN o.q
  <1>1. PICK rs : rs = Prepared(o).rows
    OBVIOUS
  <1>2. {x.req : x \in Range(rs)} = DOMAIN o.q
    BY <1>1, PreparedProperties
  <1>3. \A r : (\E i \in DOMAIN rs : rs[i].req = r) <=> r \in DOMAIN o.q
    BY <1>2 DEF Range
  <1> QED
    BY <1>1, <1>3 DEF Replaced

\* A request has an output token by the time its placeholder is replaced.
LEMMA NeverRaises ==
    ASSUME Rowed, Batched, Counted, Len(inflight) < IF Async THEN 2 ELSE 1, NEW o, OutputOK(o)
    PROVE  ~Raises(Prepared(o).rows, UpdatedCache(o))
  <1>1. Queues /\ inflight \in Seq(SUBSET Reqs)
    BY DEF Rowed
  <1>2. PICK c, R : c = UpdatedCache(o) /\ R = Replaced(Prepared(o).rows)
    OBVIOUS
  <1>3. R = DOMAIN pre \cap DOMAIN o.q
    BY <1>1, <1>2, ReplacedScheduled
  <1>4. ASSUME NEW r \in R
        PROVE  Len(c[r].toks) # sch[r].prompt
    <2>1. r \in Reqs /\ Len(c[r].toks) = NumTokens(r)
      <3>1. CacheUpdated(o, c)
        BY <1>1, <1>2, UpdatedCacheProperties
      <3> QED
        BY <1>3, <3>1 DEF CacheUpdated
    <2>2. sch[r].st \in {"waiting", "running", "preempted"}
      BY <1>1, <1>3, QueuedState DEF OutputOK
    <2>3. NumTokens(r) = sch[r].ntok + Cardinality(In(inflight, r)) /\ NumTokens(r) \in Nat
      BY <1>1, <2>1, <2>2, NumTokensCounted
    <2>4. sch[r].ntok + Cardinality(In(inflight, r)) > sch[r].prompt /\ sch[r].prompt \in Nat
      BY <1>3, <2>1, <2>2 DEF Counted, CountedReq
    <2> QED
      BY <2>1, <2>3, <2>4
  <1> QED
    BY <1>2, <1>4 DEF Raises

\* How a step changes what is counted: S sampled, R had a placeholder replaced.
CountedStepped(o, c, S, R) ==
    /\ S \subseteq DOMAIN o.q /\ R \subseteq DOMAIN o.q
    /\ SampledCache(c, S, R, cache')
    /\ inflight' = Append(inflight, S)
    /\ (pre' = pre /\ DOMAIN o.q = {}) \/ DOMAIN pre' \subseteq S
    /\ \A r \in DOMAIN o.q : r \in S <=> c[r].comp + o.q[r] >= Len(c[r].toks)
    /\ up'

\* So a step lengthens the cached tokens of exactly the requests it samples.
LEMMA StepCounted ==
    ASSUME Rowed, Batched, Counted, NEW o, OutputOK(o), Stepped(o), NEW c, c = UpdatedCache(o)
    PROVE  \E S, R : CountedStepped(o, c, S, R)
  <1>0. up /\ Len(inflight) < IF Async THEN 2 ELSE 1
    BY Zenon DEF Stepped
  <1>1. Queues /\ inflight \in Seq(SUBSET Reqs)
    BY DEF Rowed
  <1>2. PICK b : b = Prepared(o)
    OBVIOUS
  <1>3. ~Raises(b.rows, c)
    BY <1>0, <1>2, NeverRaises
  <1>4. Replaced(b.rows) \subseteq DOMAIN o.q
    BY <1>1, <1>2, ReplacedScheduled
  <1>5. Sampled(c, o.q) \subseteq DOMAIN o.q
        /\ \A r \in DOMAIN o.q : r \in Sampled(c, o.q) <=> c[r].comp + o.q[r] >= Len(c[r].toks)
    BY DEF Sampled
  <1>6. /\ c = [r \in DOMAIN c |-> c[r]]
        /\ DOMAIN c = (DOMAIN cache \ finished) \cup DOMAIN o.q
        /\ \A r \in DOMAIN o.q : IsCached(c[r])
        /\ \A r \in DOMAIN c \ DOMAIN o.q : c[r] = cache[r]
    <2>1. CacheUpdated(o, c)
      BY <1>0, <1>1, UpdatedCacheProperties
    <2> QED
      BY <2>1 DEF CacheUpdated
  <1>7. CASE /\ o.order = <<>> /\ cache' = c
             /\ inflight' = Append(inflight, {}) /\ UNCHANGED <<pre, up>>
    <2>1. DOMAIN o.q = {}
      BY <1>7 DEF OutputOK, Range
    <2>2. \A r \in DOMAIN c : IsCached(c[r]) => Len(c[r].toks) \in Nat
      BY DEF IsCached, IsList
    <2>3. SampledCache(c, {}, {}, cache')
      BY <1>6, <1>7, <2>2 DEF SampledCache
    <2> QED
      BY <1>0, <1>7, <2>1, <2>3 DEF CountedStepped
  <1>8. CASE /\ ~Async /\ UNCHANGED up
             /\ cache' = Append1(b.rows, c, o.q).cache /\ pre' = Append1(b.rows, c, o.q).pre
             /\ inflight' = Append(inflight, Sampled(c, o.q))
    <2>1. pre' = <<>>
      BY <1>8, Zenon DEF Append1
    <2>2. SampledCache(c, Sampled(c, o.q), {}, cache')
      BY <1>8, AppendedCache
    <2> QED
      BY <1>0, <1>5, <1>8, <2>1, <2>2 DEF CountedStepped
  <1>9. CASE /\ Async /\ UNCHANGED up
             /\ cache' = Placeholders(b.rows, c, o.q).cache
             /\ pre' = Placeholders(b.rows, c, o.q).pre
             /\ inflight' = Append(inflight, Sampled(c, o.q))
    <2>1. pre' = [r \in Sampled(c, o.q) |-> Token(r, Len(c[r].toks) + 1)]
      BY <1>9, Zenon DEF Placeholders
    <2>2. DOMAIN pre' = Sampled(c, o.q)
      BY <2>1
    <2>3. SampledCache(c, Sampled(c, o.q), Replaced(b.rows), cache')
      BY <1>9, PlaceholderCache
    <2> QED
      BY <1>0, <1>4, <1>5, <1>9, <2>2, <2>3 DEF CountedStepped
  <1> QED
    BY <1>2, <1>3, <1>7, <1>8, <1>9, Zenon DEF Stepped

\* It also puts them into a batch, so that the counts still agree.
LEMMA CountedStep ==
    ASSUME Rowed, Counted, Step
    PROVE  Counted'
  <1>1. PICK o : OutputOK(o) /\ Stepped(o)
    BY StepStepped DEF Rowed
  <1>2. /\ Queues /\ inflight \in Seq(SUBSET Reqs) /\ Batched
        /\ Scheduled(o) /\ Len(inflight) < IF Async THEN 2 ELSE 1
    BY <1>1, Zenon DEF Rowed, Counted, Stepped
  <1>3. Queues' /\ \A r \in Reqs : ScheduledReq(o, r)
    BY <1>1, <1>2, ScheduledEffect
  <1>4. PICK c : c = UpdatedCache(o)
    OBVIOUS
  <1>5. CacheUpdated(o, c)
    BY <1>1, <1>2, <1>4, UpdatedCacheProperties
  <1>6. PICK S, R : CountedStepped(o, c, S, R)
    BY <1>1, <1>2, <1>4, StepCounted, Zenon
  <1>7. /\ DOMAIN o.q \subseteq Reqs /\ \A r \in DOMAIN o.q : o.q[r] \in Nat
        /\ \A r \in DOMAIN o.q : sch[r].st \in {"waiting", "running", "preempted"}
    <2>1. /\ DOMAIN o.q \subseteq Range(o.queue) /\ \A r \in DOMAIN o.q : o.q[r] \in Nat
      BY <1>1 DEF OutputOK
    <2>2. \A r \in Range(o.queue) : r \in Reqs /\ sch[r].st \in {"waiting", "running", "preempted"}
      BY <1>1, <1>2, QueuedState
    <2> QED
      BY <2>1, <2>2
  <1>8. finished \in SUBSET {r \in Reqs : sch[r].st = "done"}
        /\ \A r \in Reqs : r \in Range(run) => sch[r].st = "running"
    BY <1>2 DEF Queues
  <1>9. /\ S \in SUBSET Reqs /\ S \subseteq DOMAIN o.q /\ R \subseteq DOMAIN o.q
        /\ DOMAIN cache' = (DOMAIN cache \ finished) \cup DOMAIN o.q
        /\ cache' = [r \in DOMAIN cache' |-> cache'[r]]
    BY <1>5, <1>6, <1>7 DEF CountedStepped, SampledCache, CacheUpdated
  <1>10. ASSUME NEW r \in Reqs
         PROVE  /\ Cardinality(In(inflight, r)) \in Nat
                /\ Cardinality(In(inflight', r)) =
                      Cardinality(In(inflight, r)) + IF r \in S THEN 1 ELSE 0
    <2>1. inflight' = Append(inflight, S)
      BY <1>6 DEF CountedStepped
    <2>2. Cardinality(In(Append(inflight, S), r)) =
             Cardinality(In(inflight, r)) + IF r \in S THEN 1 ELSE 0
      BY <1>2, <1>9, InAppend
    <2> QED
      BY <1>2, <2>1, <2>2, InFinite
  <1>11. ASSUME NEW r \in Reqs, r \in DOMAIN o.q
         PROVE  CountedReq(r)'
    <2>1. /\ NumTokens(r) = sch[r].ntok + Cardinality(In(inflight, r))
          /\ NumTokens(r) \in Nat /\ sch[r].ntok \in Nat
          /\ ~Async => Cardinality(In(inflight, r)) = 0 /\ sch[r].ph = 0
      <3>1. sch[r].st # "done"
        BY <1>7, <1>11
      <3> QED
        BY <1>2, <3>1, NumTokensCounted
    <2>2. /\ sch'[r].st = "running" /\ sch'[r].prompt = sch[r].prompt /\ sch'[r].ntok = sch[r].ntok
          /\ sch'[r].discard = sch[r].discard
          /\ sch'[r].ph = IF Async /\ sch[r].comp + o.q[r] >= NumTokens(r)
                          THEN sch[r].ph + 1 ELSE sch[r].ph
      BY <1>3, <1>11 DEF ScheduledReq
    <2>3. IsCached(c[r]) /\ c[r].comp = sch[r].comp /\ Len(c[r].toks) = NumTokens(r)
      BY <1>5, <1>11 DEF CacheUpdated
    <2>4. r \in S <=> sch[r].comp + o.q[r] >= NumTokens(r)
      BY <1>6, <1>11, <2>3 DEF CountedStepped
    <2>5. /\ r \in DOMAIN cache' /\ IsCached(cache'[r])
          /\ Len(cache'[r].toks) = NumTokens(r) + IF r \in S THEN 1 ELSE 0
      <3>1. r \in DOMAIN c /\ r \in DOMAIN cache'
        BY <1>5, <1>9, <1>11 DEF CacheUpdated
      <3>2. SampledCache(c, S, R, cache')
        BY <1>6 DEF CountedStepped
      <3>3. /\ IsCached(cache'[r])
            /\ Len(cache'[r].toks) = Len(c[r].toks) + IF r \in S THEN 1 ELSE 0
        BY <2>3, <3>1, <3>2 DEF SampledCache
      <3> QED
        BY <2>3, <3>1, <3>3
    <2>6. r \in DOMAIN pre' => r \in S
      BY <1>6, <1>11 DEF CountedStepped
    <2>7. /\ sch[r].prompt \in Nat /\ sch[r].ntok >= sch[r].prompt
          /\ sch[r].ph = (IF Async THEN Cardinality(In(inflight, r)) ELSE 0)
          /\ Async => ~sch[r].discard
      BY <1>7, <1>11 DEF Counted, CountedReq
    <2>8. PICK n, m : /\ n \in Nat /\ n = Cardinality(In(inflight, r))
                      /\ m = Cardinality(In(inflight', r))
                      /\ m = n + IF r \in S THEN 1 ELSE 0
      BY <1>10
    <2>9. sch'[r].ph = IF Async THEN m ELSE 0
      BY <2>1, <2>2, <2>4, <2>7, <2>8
    <2>10. Len(cache'[r].toks) = sch'[r].ntok + m
      <3>1. CASE r \in S
        BY <2>1, <2>2, <2>5, <2>8, <3>1
      <3>2. CASE r \notin S
        BY <2>1, <2>2, <2>5, <2>8, <3>2
      <3> QED
        BY <3>1, <3>2
    <2>11. r \in DOMAIN pre' => sch'[r].ntok + m > sch'[r].prompt
      BY <2>1, <2>2, <2>6, <2>7, <2>8
    <2> QED
      BY <2>2, <2>5, <2>7, <2>8, <2>9, <2>10, <2>11 DEF CountedReq
  <1>12. ASSUME NEW r \in Reqs, r \notin DOMAIN o.q
         PROVE  CountedReq(r)'
    <2>1. Cardinality(In(inflight', r)) = Cardinality(In(inflight, r))
      BY <1>9, <1>10, <1>12
    <2>2. /\ r \in DOMAIN cache' <=> r \in DOMAIN cache \ finished
          /\ r \in DOMAIN cache' => cache'[r] = cache[r]
      BY <1>5, <1>6, <1>9, <1>12 DEF CountedStepped, SampledCache, CacheUpdated
    <2>3. r \in DOMAIN pre' => r \in DOMAIN pre
      BY <1>6, <1>9, <1>12 DEF CountedStepped
    <2>4. CountedReq(r)
      BY DEF Counted
    <2>5. CASE r \in Range(run) \ Range(o.queue)
      <3>1. /\ sch'[r].st = "preempted" /\ sch[r].st = "running" /\ sch'[r].ph = sch[r].ph
            /\ sch'[r].prompt = sch[r].prompt /\ sch'[r].ntok = sch[r].ntok
            /\ sch'[r].discard = sch[r].discard
        BY <1>3, <1>8, <1>12, <2>5 DEF ScheduledReq
      <3>2. r \notin finished
        BY <1>8, <3>1
      <3> QED
        BY <2>1, <2>2, <2>3, <2>4, <3>1, <3>2 DEF CountedReq
    <2>6. CASE r \notin Range(run) \ Range(o.queue)
      <3>1. sch'[r] = sch[r]
        BY <1>3, <1>12, <2>6 DEF ScheduledReq
      <3>2. r \in finished => sch[r].st = "done"
        BY <1>8
      <3> QED
        BY <2>1, <2>2, <2>3, <2>4, <3>1, <3>2 DEF CountedReq
    <2> QED
      BY <2>5, <2>6
  <1>13. DOMAIN cache' \subseteq Reqs /\ DOMAIN pre' \subseteq Reqs /\ up'
    BY <1>6, <1>7, <1>9 DEF CountedStepped, Counted
  <1> QED
    BY <1>9, <1>11, <1>12, <1>13 DEF Counted

\* Nothing is counted at first.
LEMMA CountedInit == Init => Counted
  <1> SUFFICES ASSUME Init PROVE Counted
    OBVIOUS
  <1>1. up /\ cache = <<>> /\ pre = <<>> /\ inflight = <<>>
    BY DEF Init
  <1>2. \A r \in Reqs : /\ sch[r].st = "new" /\ sch[r].prompt = 0 /\ sch[r].ntok = 0
                        /\ sch[r].ph = 0 /\ sch[r].discard = FALSE
    BY DEF Init
  <1>3. \A r \in Reqs : Cardinality(In(inflight, r)) = 0
    <2>1. \A r \in Reqs : In(inflight, r) = {}
      BY <1>1 DEF In
    <2> QED
      BY <2>1, FS_EmptySet
  <1>4. DOMAIN cache = {} /\ DOMAIN pre = {} /\ cache = [r \in DOMAIN cache |-> cache[r]]
    BY <1>1
  <1>5. ASSUME NEW r \in Reqs
        PROVE  CountedReq(r)
    BY <1>2, <1>3, <1>4 DEF CountedReq
  <1> QED
    BY <1>1, <1>4, <1>5 DEF Counted

\* What another action has to leave of a request for the counts to agree: the
\* report of a token moves it from the batches to the count.
LEMMA CountedKept ==
    ASSUME Counted, UNCHANGED runnerVars, \A r \in Reqs : CountedReq(r)'
    PROVE  Counted'
  <1>1. cache' = cache /\ pre' = pre /\ up' = up
    BY DEF runnerVars
  <1> QED
    BY <1>1 DEF Counted

\* Every step keeps the counts, if resets do not meet batches under way.
LEMMA CountedNext ==
    ASSUME ~(Async /\ Resets), Rowed, Counted, [Next]_vars
    PROVE  Counted'
  <1>0. Queues /\ inflight \in Seq(SUBSET Reqs) /\ \A r \in Reqs : CountedReq(r)
    BY DEF Rowed, Counted
  <1>1. CASE Step
    BY <1>1, CountedStep
  <1>2. CASE Update
    <2>1. /\ inflight # <<>> /\ inflight' = Tail(inflight) /\ UNCHANGED runnerVars
          /\ \A r \in Reqs : UpdatedReq(r)
      BY <1>0, <1>2, UpdateEffect
    <2>2. inflight' \in Seq(SUBSET Reqs)
      BY <1>0, <2>1, InjectiveTail
    <2>3. ASSUME NEW r \in Reqs
          PROVE  CountedReq(r)'
      <3>1. Cardinality(In(inflight', r)) =
               Cardinality(In(inflight, r)) - IF r \in Head(inflight) THEN 1 ELSE 0
        BY <1>0, <2>1, InTail
      <3>2. Cardinality(In(inflight, r)) \in Nat /\ Cardinality(In(inflight', r)) \in Nat
        BY <1>0, <2>2, InFinite
      <3>3. cache' = cache /\ pre' = pre
        BY <2>1 DEF runnerVars
      <3>4. CountedReq(r) /\ UpdatedReq(r)
        BY <1>0, <2>1
      <3>5. IsSched(sch[r]) /\ sch[r].ntok \in Int
        BY <1>0 DEF Queues, IsSched, Sched
      <3>6. CASE r \in Head(inflight) /\ Live(r)
        <4>1. /\ sch'[r].ntok = sch[r].ntok + 1
              /\ sch'[r].ph = IF Async THEN sch[r].ph - 1 ELSE sch[r].ph
              /\ sch'[r].st # sch[r].st => sch'[r].st = "done"
              /\ sch'[r].st # "done" => /\ sch'[r].prompt = sch[r].prompt
                                        /\ sch'[r].discard = sch[r].discard
          BY <3>4, <3>6 DEF UpdatedReq, CountedReq, Live
        <4>2. PICK n \in Nat, m \in Nat : /\ n = Cardinality(In(inflight, r))
                                          /\ m = Cardinality(In(inflight', r)) /\ m = n - 1
          BY <3>1, <3>2, <3>6
        <4>3. sch[r].st \notin {"new", "waiting"}
          BY <3>4, <4>2 DEF CountedReq
        <4>4. CASE sch'[r].st = "done"
          BY <3>3, <3>4, <4>4 DEF CountedReq
        <4>5. CASE sch'[r].st # "done"
          <5>1. sch'[r].st = sch[r].st /\ sch[r].st \in {"running", "preempted"}
            BY <3>6, <4>1, <4>3, <4>5 DEF Live
          <5>2. /\ sch[r].prompt \in Nat /\ sch[r].ntok >= sch[r].prompt
                /\ sch[r].ph = (IF Async THEN n ELSE 0) /\ (Async => ~sch[r].discard)
                /\ r \in DOMAIN cache /\ Len(cache[r].toks) = sch[r].ntok + n
                /\ (r \in DOMAIN pre => sch[r].ntok + n > sch[r].prompt)
                /\ IsCached(cache[r])
            BY <3>4, <4>2, <5>1 DEF CountedReq
          <5>3. /\ sch'[r].ntok >= sch'[r].prompt /\ sch'[r].ntok + m = sch[r].ntok + n
                /\ sch'[r].ph = IF Async THEN m ELSE 0
            <6>1. PICK k \in Int, p \in Nat : k = sch[r].ntok /\ p = sch[r].prompt /\ k >= p
              BY <3>5, <5>2
            <6>2. sch'[r].ntok = k + 1 /\ sch'[r].prompt = p /\ k + 1 >= p /\ k + 1 + m = k + n
              BY <4>1, <4>2, <4>5, <6>1
            <6>3. sch'[r].ph = IF Async THEN m ELSE 0
              BY <4>1, <4>2, <5>2
            <6> QED
              BY <6>1, <6>2, <6>3
          <5> QED
            BY <3>3, <4>1, <4>2, <4>5, <5>1, <5>2, <5>3 DEF CountedReq
        <4> QED
          BY <4>4, <4>5
      <3>7. CASE ~(r \in Head(inflight) /\ Live(r))
        <4>1. sch'[r] = sch[r]
          BY <3>4, <3>7 DEF UpdatedReq
        <4>2. CASE r \notin Head(inflight)
          <5>1. Cardinality(In(inflight', r)) = Cardinality(In(inflight, r))
            BY <3>1, <3>2, <4>2
          <5> QED
            BY <3>3, <3>4, <4>1, <5>1 DEF CountedReq
        <4>3. CASE r \in Head(inflight) /\ ~Live(r)
          <5>1. sch[r].st \in {"new", "done"}
            BY <4>3, <3>5 DEF Live, IsSched, Sched, States
          <5>2. Cardinality(In(inflight, r)) # 0
            BY <3>1, <3>2, <4>3
          <5>3. sch[r].st = "done"
            BY <3>4, <5>1, <5>2 DEF CountedReq
          <5> QED
            BY <3>3, <3>4, <4>1, <5>3 DEF CountedReq
        <4> QED
          BY <3>7, <4>2, <4>3
      <3> QED
        BY <3>6, <3>7
    <2> QED
      BY <2>1, <2>3, CountedKept
  <1>3. ASSUME NEW r \in Reqs, NEW m \in Prompts, AddRequest(r, m)
        PROVE  Counted'
    <2>1. /\ sch[r].st = "new" /\ sch'[r].st = "waiting"
          /\ sch'[r].prompt = m /\ sch'[r].ntok = m /\ sch'[r].ph = sch[r].ph
          /\ \A q \in Reqs \ {r} : sch'[q] = sch[q]
          /\ inflight' = inflight /\ UNCHANGED runnerVars
      BY <1>0, <1>3, AddRequestEffect
    <2>2. m \in Nat /\ m >= m
      BY RunnerAssumption
    <2>3. cache' = cache /\ pre' = pre
      BY <2>1 DEF runnerVars
    <2>4. Async => ~sch'[r].discard
      <3>1. sch'[r] = [sch[r] EXCEPT !.st = "waiting", !.prompt = m, !.ntok = m]
        BY <1>0, <1>3 DEF AddRequest, Queues
      <3>2. sch'[r].discard = sch[r].discard
        BY <3>1, <1>0 DEF Queues, IsSched, Sched
      <3> QED
        BY <1>0, <2>1, <3>2 DEF CountedReq
    <2>5. CountedReq(r)'
      BY <1>0, <2>1, <2>2, <2>3, <2>4 DEF CountedReq
    <2>6. \A q \in Reqs \ {r} : CountedReq(q)'
      BY <1>0, <2>1, <2>3 DEF CountedReq
    <2> QED
      BY <2>1, <2>5, <2>6, CountedKept
  <1>4. ASSUME NEW r \in Reqs, Abort(r)
        PROVE  Counted'
    <2>1. /\ sch'[r].st = "done" /\ inflight' = inflight /\ UNCHANGED runnerVars
          /\ \A q \in Reqs \ {r} : sch'[q] = sch[q]
      BY <1>0, <1>4, AbortEffect
    <2>2. cache' = cache /\ pre' = pre
      BY <2>1 DEF runnerVars
    <2>3. CountedReq(r)'
      BY <1>0, <2>1, <2>2 DEF CountedReq
    <2>4. \A q \in Reqs \ {r} : CountedReq(q)'
      BY <1>0, <2>1, <2>2 DEF CountedReq
    <2> QED
      BY <2>1, <2>3, <2>4, CountedKept
  <1>5. CASE Reset
    <2>1. /\ Resets /\ inflight' = inflight /\ UNCHANGED runnerVars
          /\ \A r \in Reqs :
                \/ sch'[r] = sch[r]
                \/ /\ sch[r].st = "running" /\ sch'[r].st = "preempted" /\ sch'[r].ph = 0
                   /\ sch'[r].prompt = sch[r].prompt /\ sch'[r].ntok = sch[r].ntok
      BY <1>0, <1>5, ResetEffect DEF Queues
    <2>2. ~Async
      BY <2>1
    <2>3. cache' = cache /\ pre' = pre
      BY <2>1 DEF runnerVars
    <2>4. \A r \in Reqs : CountedReq(r)'
      BY <1>0, <2>1, <2>2, <2>3 DEF CountedReq
    <2> QED
      BY <2>1, <2>4, CountedKept
  <1>6. CASE UNCHANGED vars
    BY <1>6 DEF vars, schedulerVars, runnerVars, Counted, CountedReq
  <1> QED
    BY <1>1, <1>2, <1>3, <1>4, <1>5, <1>6 DEF Next

\* So they always agree.
LEMMA CountedAlways ==
    ASSUME ~(Async /\ Resets)
    PROVE  Spec => [](Rowed /\ Counted)
  <1>1. Init => Rowed /\ Counted
    BY RowedInit, CountedInit
  <1>2. Rowed /\ Counted /\ [Next]_vars => (Rowed /\ Counted)'
    BY RowedNext, CountedNext
  <1> QED
    BY <1>1, <1>2, PTL DEF Spec

\* Unless batches under way meet a reset, the runner caches as many tokens of a
\* request as the scheduler counts, the ones that are not reported yet included:
\* so nothing is cut off when update_states truncates the output tokens.
THEOREM CountsCorrect ==
    ASSUME ~(Async /\ Resets)
    PROVE  Spec => []CountsAgree
  <1>1. Rowed /\ Counted => CountsAgree
    <2> SUFFICES ASSUME Counted, NEW r \in DOMAIN cache, Live(r)
                 PROVE  Len(cache[r].toks) =
                           sch[r].ntok + Cardinality({i \in DOMAIN inflight : r \in inflight[i]})
      BY DEF CountsAgree
    <2>1. r \in Reqs /\ CountedReq(r)
      BY DEF Counted
    <2>2. sch[r].st \in {"running", "preempted"}
      BY <2>1 DEF CountedReq, Live
    <2> QED
      BY <2>1, <2>2 DEF CountedReq, In
  <1> QED
    BY <1>1, CountedAlways, PTL

\* Under the same condition no step raises: the rows are always the scheduled
\* requests, with the single-token ones first.
THEOREM RowsAlwaysCorrect ==
    ASSUME ~(Async /\ Resets)
    PROVE  Spec => [](up /\ DecodesFirst)
  <1>1. Rowed /\ Counted => up /\ DecodesFirst
    BY DEF Rowed, Counted
  <1> QED
    BY <1>1, CountedAlways, PTL

-----------------------------------------------------------------------------
(* What a row of a step holds *)

\* A row that update_states leaves is one from before, with the new count and
\* blocks, or a row built from the cached state of its request.
LEMMA PreparedRow ==
    ASSUME Queues, Batched, NEW o, OutputOK(o), NEW x \in Range(Prepared(o).rows)
    PROVE  /\ x.req \in DOMAIN o.q
           /\ \/ \E y \in Range(rows) : y.req = x.req /\ x = OldRow(y, o)
              \/ x = NewRow(UpdatedCache(o), x.req)
  <1>1. /\ Range(Prepared(o).rows) = OldRows(o) \cup NewRows(UpdatedCache(o), o)
        /\ {z.req : z \in Range(Prepared(o).rows)} = DOMAIN o.q
    BY PreparedProperties
  <1>2. x.req \in DOMAIN o.q
    BY <1>1
  <1>3. CASE x \in OldRows(o)
    <2>1. PICK y \in Range(rows) : x = OldRow(y, o)
      BY <1>3 DEF OldRows
    <2>2. y.req = x.req
      BY <2>1 DEF OldRow
    <2> QED
      BY <1>2, <2>1, <2>2
  <1>4. CASE x \in NewRows(UpdatedCache(o), o)
    <2>1. PICK r : x = NewRow(UpdatedCache(o), r)
      BY <1>4 DEF NewRows
    <2>2. r = x.req
      BY <2>1 DEF NewRow
    <2> QED
      BY <1>2, <2>1, <2>2
  <1> QED
    BY <1>1, <1>3, <1>4

\* Each scheduled request has its row.
LEMMA RowOfProperties ==
    ASSUME Queues, Batched, NEW o, OutputOK(o), NEW r \in DOMAIN o.q
    PROVE  RowOf(Prepared(o).rows, r) \in Range(Prepared(o).rows)
           /\ RowOf(Prepared(o).rows, r).req = r
  <1>1. PICK rs : rs = Prepared(o).rows
    OBVIOUS
  <1>2. {x.req : x \in Range(rs)} = DOMAIN o.q
    BY <1>1, PreparedProperties
  <1>3. PICK i \in DOMAIN rs : rs[i].req = r
    BY <1>2 DEF Range
  <1>4. (CHOOSE j \in DOMAIN rs : rs[j].req = r) \in DOMAIN rs
        /\ rs[CHOOSE j \in DOMAIN rs : rs[j].req = r].req = r
    BY <1>3
  <1> QED
    BY <1>1, <1>4 DEF RowOf, Range

\* What a step that samples nothing, or samples, leaves.
LEMMA StepSampled ==
    ASSUME Rowed, Batched, Counted, NEW o, OutputOK(o), Stepped(o),
           NEW c, c = UpdatedCache(o), NEW rs, rs = Prepared(o).rows
    PROVE  \/ /\ DOMAIN o.q = {} /\ rows' = rs /\ cache' = c /\ pre' = pre
           \/ /\ Async /\ cache' = Placeholders(rs, c, o.q).cache
              /\ rows' = Placeholders(rs, c, o.q).rows
              /\ pre' = Placeholders(rs, c, o.q).pre
           \/ /\ ~Async /\ cache' = Append1(rs, c, o.q).cache
              /\ rows' = Append1(rs, c, o.q).rows /\ pre' = <<>>
  <1>0. up /\ Len(inflight) < IF Async THEN 2 ELSE 1
    BY Zenon DEF Stepped
  <1>3. ~Raises(rs, c)
    BY <1>0, NeverRaises
  <1>4. Append1(rs, c, o.q).pre = <<>>
    BY Zenon DEF Append1
  <1>5. o.order = <<>> => DOMAIN o.q = {}
    BY DEF OutputOK, Range
  <1>6. \/ o.order = <<>> /\ rows' = rs /\ cache' = c /\ pre' = pre
        \/ /\ Async /\ cache' = Placeholders(rs, c, o.q).cache
           /\ rows' = Placeholders(rs, c, o.q).rows
           /\ pre' = Placeholders(rs, c, o.q).pre
        \/ /\ ~Async /\ cache' = Append1(rs, c, o.q).cache
           /\ rows' = Append1(rs, c, o.q).rows /\ pre' = Append1(rs, c, o.q).pre
    BY <1>3, Zenon DEF Stepped
  <1> QED
    BY <1>4, <1>5, <1>6

-----------------------------------------------------------------------------
(* The block tables are the ones the scheduler allocated *)

\* The blocks of a request, in its row and its cached state.
TabledReq(r) ==
    LET s == sch[r]
    IN /\ s.st # "done" => IsList(s.blk) /\ (s.st # "running" => s.blk = <<>>)
       /\ s.st = "running" /\ r \in DOMAIN cache => cache[r].blk = s.blk

Tabled ==
    /\ \A r \in Reqs : TabledReq(r)
    /\ \A x \in Range(rows) : sch[x.req].st # "done" =>
          sch[x.req].st = "running" /\ x.blk = sch[x.req].blk
    /\ BlockTablesExact

\* One list after the other.
LEMMA ListConcat ==
    ASSUME NEW s, IsList(s), NEW t, IsList(t)
    PROVE  IsList(s \o t) /\ (s = <<>> => s \o t = t)
  <1>1. PICK T : T = Range(s) \cup Range(t)
    OBVIOUS
  <1>2. s \in Seq(T) /\ t \in Seq(T)
    <2>1. s \in Seq(Range(s)) /\ t \in Seq(Range(t))
      BY DEF IsList
    <2> QED
      BY <1>1, <2>1
  <1>3. PICK u : u = s \o t
    OBVIOUS
  <1>4. u \in Seq(T) /\ (s = <<>> => u = t)
    <2>1. u \in Seq(T)
      BY <1>2, <1>3
    <2>2. ASSUME s = <<>> PROVE u = t
      <3>1. Len(s) = 0 /\ Len(u) = Len(t) /\ \A i \in 1 .. Len(t) : u[i] = t[i]
        BY <1>2, <1>3, <2>2
      <3> QED
        BY <1>2, <2>1, <3>1
    <2> QED
      BY <2>1, <2>2
  <1>5. IsList(u)
    <2>1. u = [i \in 1 .. Len(u) |-> u[i]] /\ Len(u) \in Nat
          /\ \A i \in 1 .. Len(u) : u[i] \in Range(u)
      BY <1>4 DEF Range
    <2> QED
      BY <2>1 DEF IsList
  <1> QED
    BY <1>3, <1>4, <1>5

\* The blocks of a scheduler output are lists.
LEMMA OutputBlocks ==
    ASSUME Queues, \A r \in Reqs : sch[r].st # "done" => IsList(sch[r].blk)
    PROVE  \A r \in DOMAIN Output.blk : IsList(Output.blk[r])
  <1> DEFINE order == Order
             at(r) == CHOOSE i \in DOMAIN order : order[i] = r
             q(r) == Quotas(order)[at(r)]
             S == {r \in ToSet(order) : q(r) > 0}
             block(r, i) == Nth(FreeBlocks(order), NeedUpTo(order, at(r) - 1) + i)
  <1>1. /\ order \in Seq(Reqs) /\ Range(order) \subseteq Range(run) \cup Range(wait)
    BY OrderProperties
  <1>2. Output.blk = [r \in S |-> [i \in 1 .. Need(order, at(r)) |-> block(r, i)]]
    BY Zenon DEF Output
  <1>3. \A i \in DOMAIN order : Quotas(order)[i] \in Int
    <2> HIDE DEF order
    <2> QED
      BY <1>1, QuotasProperties
  <1> HIDE DEF order, block
  <1>4. ASSUME NEW r \in S
        PROVE  Need(order, at(r)) \in Int
    <2>1. at(r) \in DOMAIN order /\ order[at(r)] = r
      BY DEF ToSet
    <2>2. r \in Reqs /\ sch[r].st # "done"
      <3>1. r \in Range(order)
        BY <2>1 DEF Range
      <3>2. r \in Range(run) \/ r \in Range(wait)
        BY <1>1, <3>1
      <3>3. r \in Reqs
        BY <3>2 DEF Queues, Range
      <3> QED
        BY <3>2, <3>3 DEF Queues
    <2>3. IsList(sch[r].blk) /\ sch[r].comp \in Int
      BY <2>2 DEF Queues, IsSched, Sched
    <2>4. Len(sch[r].blk) \in Nat
      BY <2>3 DEF IsList
    <2> HIDE DEF at
    <2>5. Quotas(order)[at(r)] \in Int
      BY <1>3, <2>1
    <2>6. PICK d \in Nat \ {0} : d = BlockSize
      BY RunnerAssumption
    <2>7. PICK c \in Int, n \in Int : c = sch[r].comp /\ n = Quotas(order)[at(r)]
      BY <2>3, <2>5
    <2>8. PICK l \in Int : l = Len(sch[r].blk)
      BY <2>4
    <2>9. PICK a \in Int : a = c + n + d - 1
      OBVIOUS
    <2>10. (a \div d) - l \in Int
      OBVIOUS
    <2>11. Need(order, at(r)) = IF n = 0 THEN 0 ELSE (a \div d) - l
      BY <2>1, <2>6, <2>7, <2>8, <2>9 DEF Need
    <2> QED
      BY <2>10, <2>11
  <1>5. ASSUME NEW r \in S
        PROVE  IsList(Output.blk[r])
    <2>1. PICK n \in Int : n = Need(order, at(r))
      BY <1>4
    <2>2. PICK s : s = Output.blk[r]
      OBVIOUS
    <2>3. s = [i \in 1 .. n |-> block(r, i)]
      BY <1>2, <2>1, <2>2
    <2>4. s = [i \in 1 .. n |-> s[i]] /\ \A i \in 1 .. n : s[i] \in Range(s)
      BY <2>3 DEF Range
    <2>5. PICK m \in Nat : 1 .. n = 1 .. m
      <3>1. CASE n \in Nat
        BY <3>1
      <3>2. CASE n \notin Nat
        <4>1. 1 .. n = 1 .. 0
          BY <3>2
        <4> QED
          BY <4>1
      <3> QED
        BY <3>1, <3>2
    <2>6. s = [i \in 1 .. m |-> s[i]] /\ \A i \in 1 .. m : s[i] \in Range(s)
      BY <2>4, <2>5
    <2>7. s \in Seq(Range(s))
      BY <2>6
    <2> QED
      BY <2>2, <2>7 DEF IsList
  <1> QED
    BY <1>2, <1>5

\* The blocks of a cached state and of a row are those of the scheduler, with the
\* ones just allocated.
LEMMA TabledRow ==
    ASSUME Rowed, Batched, Counted, Tabled, Len(inflight) < IF Async THEN 2 ELSE 1,
           NEW o, OutputOK(o), \A r \in DOMAIN o.blk : IsList(o.blk[r])
    PROVE  /\ \A r \in DOMAIN o.q : UpdatedCache(o)[r].blk = sch[r].blk \o o.blk[r]
           /\ \A x \in Range(Prepared(o).rows) : x.blk = sch[x.req].blk \o o.blk[x.req]
  <1>1. Queues /\ inflight \in Seq(SUBSET Reqs)
    BY DEF Rowed
  <1>2. PICK c : c = UpdatedCache(o)
    OBVIOUS
  <1>3. CacheUpdated(o, c)
    BY <1>1, <1>2, UpdatedCacheProperties
  <1>4. ASSUME NEW r \in DOMAIN o.q
        PROVE  c[r].blk = sch[r].blk \o o.blk[r]
    <2>1. /\ r \in Reqs
          /\ c[r].blk = IF sch[r].st = "running" THEN cache[r].blk \o o.blk[r] ELSE o.blk[r]
          /\ sch[r].st # "waiting" => r \in DOMAIN cache
      BY <1>3 DEF CacheUpdated
    <2>2. sch[r].st \in {"waiting", "running", "preempted"}
      BY <1>1, QueuedState DEF OutputOK
    <2>3. CASE sch[r].st = "running"
      BY <2>1, <2>3 DEF Tabled, TabledReq
    <2>4. CASE sch[r].st # "running"
      <3>1. sch[r].blk = <<>> /\ IsList(sch[r].blk)
        BY <2>1, <2>2, <2>4 DEF Tabled, TabledReq
      <3>2. IsList(o.blk[r])
        BY DEF OutputOK
      <3>3. sch[r].blk \o o.blk[r] = o.blk[r]
        BY <3>1, <3>2, ListConcat
      <3> QED
        BY <2>1, <2>4, <3>3
    <2> QED
      BY <2>3, <2>4
  <1>5. ASSUME NEW x \in Range(Prepared(o).rows)
        PROVE  x.blk = sch[x.req].blk \o o.blk[x.req]
    <2>1. /\ x.req \in DOMAIN o.q
          /\ \/ \E y \in Range(rows) : y.req = x.req /\ x = OldRow(y, o)
             \/ x = NewRow(c, x.req)
      BY <1>1, <1>2, PreparedRow
    <2>2. CASE x = NewRow(c, x.req)
      <3>1. x.blk = c[x.req].blk
        BY <2>2 DEF NewRow
      <3> QED
        BY <2>1, <3>1, <1>4
    <2>3. ASSUME NEW y \in Range(rows), y.req = x.req, x = OldRow(y, o)
          PROVE  x.blk = sch[x.req].blk \o o.blk[x.req]
      <3>1. x.blk = y.blk \o o.blk[y.req]
        BY <2>3 DEF OldRow
      <3>2. sch[y.req].st # "done"
        BY <1>1, <2>1, <2>3, QueuedState DEF OutputOK
      <3>3. y.blk = sch[y.req].blk
        BY <3>2 DEF Tabled
      <3> QED
        BY <2>3, <3>1, <3>3
    <2> QED
      BY <2>1, <2>2, <2>3
  <1> QED
    BY <1>2, <1>4, <1>5

\* So a step runs with the scheduler's blocks and keeps them.
LEMMA TabledStep ==
    ASSUME Rowed, Counted, Tabled, Step
    PROVE  Tabled'
  <1>0. Queues /\ \A r \in Reqs : sch[r].st # "done" => IsList(sch[r].blk)
    BY DEF Rowed, Tabled, TabledReq
  <1>1. PICK o : OutputOK(o) /\ Stepped(o) /\ \A r \in DOMAIN o.blk : IsList(o.blk[r])
    BY <1>0, StepStepped, OutputBlocks
  <1>2. /\ inflight \in Seq(SUBSET Reqs) /\ Batched
        /\ Scheduled(o) /\ Len(inflight) < IF Async THEN 2 ELSE 1
    BY <1>1, Zenon DEF Rowed, Counted, Stepped
  <1>3. Queues' /\ \A r \in Reqs : ScheduledReq(o, r)
    BY <1>0, <1>1, <1>2, ScheduledEffect
  <1>4. PICK c, b : c = UpdatedCache(o) /\ b = Prepared(o)
    OBVIOUS
  <1>5. CacheUpdated(o, c)
    BY <1>0, <1>1, <1>2, <1>4, UpdatedCacheProperties
  <1>6. /\ \A r \in DOMAIN o.q : c[r].blk = sch[r].blk \o o.blk[r]
        /\ \A x \in Range(b.rows) : x.blk = sch[x.req].blk \o o.blk[x.req]
    BY <1>1, <1>2, <1>4, TabledRow
  <1>7. PICK S, R : CountedStepped(o, c, S, R)
    BY <1>1, <1>2, <1>4, StepCounted, Zenon
  <1>8. SampledCache(c, S, R, cache') /\ S \cup R \subseteq DOMAIN o.q /\ up'
    BY <1>7 DEF CountedStepped
  <1>9. DOMAIN o.q \subseteq Reqs /\ DOMAIN o.q \subseteq Range(o.queue)
        /\ DOMAIN o.blk = DOMAIN o.q
    BY <1>1 DEF OutputOK, Range
  <1>10. ASSUME NEW r \in Reqs, r \in DOMAIN o.q
         PROVE  TabledReq(r)' /\ sch'[r].st = "running" /\ sch'[r].blk = sch[r].blk \o o.blk[r]
    <2>1. sch'[r].st = "running" /\ sch'[r].blk = sch[r].blk \o o.blk[r]
      BY <1>3, <1>10 DEF ScheduledReq
    <2>2. IsList(sch[r].blk) /\ IsList(o.blk[r])
      <3>1. sch[r].st # "done"
        BY <1>0, <1>1, <1>9, <1>10, QueuedState
      <3> QED
        BY <3>1, <1>0, <1>1, <1>9, <1>10
    <2>3. IsList(sch'[r].blk)
      BY <2>1, <2>2, ListConcat
    <2>4. r \in DOMAIN c /\ IsCached(c[r])
      BY <1>5, <1>10 DEF CacheUpdated
    <2>5. cache'[r].blk = sch'[r].blk
      BY <1>6, <1>8, <1>10, <2>1, <2>4 DEF SampledCache
    <2> QED
      BY <2>1, <2>3, <2>5 DEF TabledReq
  <1>11. ASSUME NEW r \in Reqs, r \notin DOMAIN o.q
         PROVE  TabledReq(r)'
    <2>1. TabledReq(r)
      BY DEF Tabled
    <2>2. r \in DOMAIN cache' => r \in DOMAIN cache /\ cache'[r] = cache[r]
      <3>1. r \in DOMAIN c => r \in DOMAIN cache /\ c[r] = cache[r]
        BY <1>5, <1>11 DEF CacheUpdated
      <3>2. DOMAIN cache' = DOMAIN c /\ (r \in DOMAIN c => cache'[r] = c[r])
        BY <1>8, <1>11 DEF SampledCache
      <3> QED
        BY <3>1, <3>2
    <2>3. CASE r \in Range(run) \ Range(o.queue)
      <3>1. sch'[r].st = "preempted" /\ sch'[r].blk = <<>>
        BY <1>3, <1>11, <2>3 DEF ScheduledReq
      <3>2. IsList(<<>>)
        BY DEF IsList
      <3> QED
        BY <3>1, <3>2 DEF TabledReq
    <2>4. CASE r \notin Range(run) \ Range(o.queue)
      <3>1. sch'[r] = sch[r]
        BY <1>3, <1>11, <2>4 DEF ScheduledReq
      <3> QED
        BY <2>1, <2>2, <3>1 DEF TabledReq
    <2> QED
      BY <2>3, <2>4
  <1>12. SameRows(b.rows, rows')
    BY <1>0, <1>1, <1>2, <1>4, <1>8, SteppedRows
  <1>13. ASSUME NEW x \in Range(rows')
         PROVE  sch'[x.req].st = "running" /\ x.blk = sch'[x.req].blk
    <2>1. PICK y \in Range(b.rows) : x.req = y.req /\ x.blk = y.blk
      BY <1>12 DEF SameRows, Range
    <2>2. y.req \in DOMAIN o.q
      BY <1>0, <1>1, <1>2, <1>4, <2>1, PreparedRow
    <2> QED
      BY <2>1, <2>2, <1>6, <1>9, <1>10
  <1>14. BlockTablesExact'
    <2>1. /\ DOMAIN fed' = DOMAIN o.q
          /\ \A r \in DOMAIN o.q : /\ fed'[r].got.blk = RowOf(b.rows, r).blk
                                   /\ fed'[r].due.blk = sch[r].blk \o o.blk[r]
      BY <1>1, <1>4, Zenon DEF Stepped
    <2>2. \A r \in DOMAIN o.q : RowOf(b.rows, r) \in Range(b.rows) /\ RowOf(b.rows, r).req = r
      BY <1>0, <1>1, <1>2, <1>4, RowOfProperties
    <2>3. \A r \in DOMAIN o.q : RowOf(b.rows, r).blk = sch[r].blk \o o.blk[r]
      BY <1>6, <2>2
    <2> QED
      BY <2>1, <2>3 DEF BlockTablesExact
  <1> QED
    BY <1>10, <1>11, <1>13, <1>14 DEF Tabled

\* The other actions change the blocks of no request that goes on.
LEMMA TabledKept ==
    ASSUME Rowed, Tabled, UNCHANGED runnerVars, up,
           \A r \in Reqs : sch'[r].st # "done" =>
              /\ sch'[r].blk = sch[r].blk
              /\ sch'[r].st = sch[r].st \/ (sch[r].st = "new" /\ sch'[r].st = "waiting")
    PROVE  Tabled'
  <1>1. cache' = cache /\ rows' = rows /\ fed' = fed
    BY DEF runnerVars
  <1>2. \A r \in Reqs : TabledReq(r)'
    BY <1>1 DEF Tabled, TabledReq
  <1>3. ASSUME NEW x \in Range(rows), sch'[x.req].st # "done"
        PROVE  sch'[x.req].st = "running" /\ x.blk = sch'[x.req].blk
    <2>1. x.req \in Reqs
      BY DEF Rowed, Batched, Batch, Range
    <2>2. sch[x.req].st \notin {"new", "waiting"}
      BY DEF Rowed, Batched
    <2> QED
      BY <1>3, <2>1, <2>2 DEF Tabled
  <1>4. BlockTablesExact'
    BY <1>1 DEF Tabled, BlockTablesExact
  <1> QED
    BY <1>1, <1>2, <1>3, <1>4 DEF Tabled

\* Without resets, every step keeps the blocks.
LEMMA TabledNext ==
    ASSUME ~Resets, Rowed, Counted, Tabled, [Next]_vars
    PROVE  Tabled'
  <1>0. Queues /\ inflight \in Seq(SUBSET Reqs) /\ up
    BY DEF Rowed, Counted
  <1>1. CASE Step
    BY <1>1, TabledStep
  <1>2. CASE Update
    <2>1. UNCHANGED runnerVars /\ \A r \in Reqs : UpdatedReq(r)
      BY <1>0, <1>2, UpdateEffect
    <2>2. \A r \in Reqs : sch'[r].st # "done" => sch'[r].blk = sch[r].blk /\ sch'[r].st = sch[r].st
      BY <2>1 DEF UpdatedReq
    <2> QED
      BY <1>0, <2>1, <2>2, TabledKept
  <1>3. ASSUME NEW r \in Reqs, NEW m \in Prompts, AddRequest(r, m)
        PROVE  Tabled'
    <2>1. /\ sch[r].st = "new" /\ sch'[r].st = "waiting" /\ sch'[r].blk = sch[r].blk
          /\ \A q \in Reqs \ {r} : sch'[q] = sch[q]
          /\ UNCHANGED runnerVars
      BY <1>0, <1>3, AddRequestEffect
    <2> QED
      BY <1>0, <2>1, TabledKept
  <1>4. ASSUME NEW r \in Reqs, Abort(r)
        PROVE  Tabled'
    <2>1. /\ sch'[r].st = "done" /\ UNCHANGED runnerVars
          /\ \A q \in Reqs \ {r} : sch'[q] = sch[q]
      BY <1>0, <1>4, AbortEffect
    <2> QED
      BY <1>0, <2>1, TabledKept
  <1>5. CASE Reset
    BY <1>0, <1>5, ResetEffect
  <1>6. CASE UNCHANGED vars
    BY <1>0, <1>6, TabledKept DEF vars, schedulerVars
  <1> QED
    BY <1>1, <1>2, <1>3, <1>4, <1>5, <1>6 DEF Next

\* No request has blocks at first.
LEMMA TabledInit == Init => Tabled
  <1> SUFFICES ASSUME Init PROVE Tabled
    OBVIOUS
  <1>1. rows = <<>> /\ fed = <<>> /\ cache = <<>>
    BY DEF Init
  <1>2. \A r \in Reqs : sch[r].st = "new" /\ sch[r].blk = <<>>
    BY DEF Init
  <1>3. IsList(<<>>)
    BY DEF IsList
  <1> QED
    BY <1>1, <1>2, <1>3 DEF Tabled, TabledReq, BlockTablesExact, Range

\* Without resets, every step runs with the block tables that the scheduler
\* allocated: appending the new blocks of a request that runs on, and taking the
\* blocks of one that is new or resumed, keep the rows and the cached states
\* with the scheduler's lists.
THEOREM BlockTablesCorrect ==
    ASSUME ~Resets
    PROVE  Spec => []BlockTablesExact
  <1>1. Spec => [](Rowed /\ Counted)
    BY CountedAlways
  <1>2. Init => Tabled
    BY TabledInit
  <1>3. Rowed /\ Counted /\ Tabled /\ [Next]_vars => Tabled'
    BY TabledNext
  <1>4. Tabled => BlockTablesExact
    BY DEF Tabled
  <1> QED
    BY <1>1, <1>2, <1>3, <1>4, PTL DEF Spec

-----------------------------------------------------------------------------
(* The tokens of a synchronous step *)

\* A request that does not run has nothing computed, and the runner caches its
\* own tokens.
ExactReq(r) ==
    /\ sch[r].st # "done" => sch[r].comp \in Nat /\ (sch[r].st # "running" => sch[r].comp = 0)
    /\ r \in DOMAIN cache => cache[r].toks = Own(r, 0, Len(cache[r].toks))

Exact ==
    /\ pre = <<>>
    /\ \A r \in Reqs : ExactReq(r)
    /\ \A x \in Range(rows) : sch[x.req].st # "done" =>
          x.req \in DOMAIN cache /\ x.toks = cache[x.req].toks
    /\ TokensExact

\* One token more of a request's own.
LEMMA OwnAppend ==
    ASSUME NEW r, NEW n \in Nat
    PROVE  Append(Own(r, 0, n), Token(r, n + 1)) = Own(r, 0, n + 1)
  <1>1. PICK z \in Int : z = 0 /\ z + n = n /\ z + (n + 1) = n + 1
    OBVIOUS
  <1>2. PICK s, t : s = Own(r, 0, n) /\ t = Own(r, 0, n + 1)
    OBVIOUS
  <1>3. s = [i \in 1 .. n |-> Token(r, z + i)] /\ IsList(s) /\ Len(s) = n
    <2>1. /\ Own(r, z, z + n) = [i \in 1 .. n |-> Token(r, z + i)]
          /\ IsList(Own(r, z, z + n)) /\ Len(Own(r, z, z + n)) = n
      BY OwnProperties, Zenon DEF IsList
    <2>2. Own(r, z, z + n) = s
      BY <1>1, <1>2, Zenon
    <2> QED
      BY <2>1, <2>2, Zenon
  <1>4. PICK m \in Nat : m = n + 1
    OBVIOUS
  <1>5. t = [i \in 1 .. m |-> Token(r, z + i)] /\ IsList(t) /\ Len(t) = m
    <2>1. /\ Own(r, z, z + m) = [i \in 1 .. m |-> Token(r, z + i)]
          /\ IsList(Own(r, z, z + m)) /\ Len(Own(r, z, z + m)) = m
      BY OwnProperties, Zenon DEF IsList
    <2>2. Own(r, z, z + m) = t
      BY <1>1, <1>2, <1>4, Zenon
    <2> QED
      BY <2>1, <2>2, Zenon
  <1>6. PICK u, x : u = Append(s, x) /\ x = Token(r, n + 1)
    OBVIOUS
  <1>7. IsList(u) /\ Len(u) = m
    BY <1>3, <1>4, <1>6, ListAppend
  <1>8. ASSUME NEW i \in 1 .. m
        PROVE  u[i] = t[i]
    <2>1. CASE i = m
      BY <1>1, <1>3, <1>4, <1>5, <1>6, <2>1 DEF IsList
    <2>2. CASE i # m
      <3>1. i \in 1 .. n
        BY <1>4, <2>2
      <3> QED
        BY <1>3, <1>5, <1>6, <3>1 DEF IsList
    <2> QED
      BY <2>1, <2>2
  <1>9. u = t
    BY <1>5, <1>7, <1>8 DEF IsList
  <1> QED
    BY <1>2, <1>4, <1>6, <1>9

\* The token of a position.
LEMMA OwnToken ==
    ASSUME NEW r, NEW n \in Nat
    PROVE  /\ IsList(Own(r, 0, n)) /\ Len(Own(r, 0, n)) = n /\ DOMAIN Own(r, 0, n) = 1 .. n
           /\ \A p \in 1 .. n : Own(r, 0, n)[p] = Token(r, p)
  <1>1. PICK z \in Int : z = 0 /\ z + n = n /\ \A p \in 1 .. n : z + p = p
    OBVIOUS
  <1>2. PICK s : s = Own(r, 0, n)
    OBVIOUS
  <1>3. /\ Own(r, z, z + n) = [i \in 1 .. n |-> Token(r, z + i)]
        /\ IsList(Own(r, z, z + n)) /\ Len(Own(r, z, z + n)) = n
    BY OwnProperties, Zenon DEF IsList
  <1>4. Own(r, z, z + n) = s
    BY <1>1, <1>2, Zenon
  <1>5. s = [i \in 1 .. n |-> Token(r, z + i)] /\ IsList(s) /\ Len(s) = n
    BY <1>3, <1>4, Zenon
  <1> QED
    BY <1>1, <1>2, <1>5

\* A synchronous step schedules tokens that are there.
LEMMA SyncScheduled ==
    ASSUME ~Async, Rowed, Counted, Exact, Len(inflight) < IF Async THEN 2 ELSE 1,
           NEW o, OutputOK(o), NEW r \in DOMAIN o.q
    PROVE  /\ r \in Reqs /\ sch[r].comp \in Nat /\ sch[r].ntok \in Nat /\ o.q[r] \in Nat
           /\ sch[r].comp + o.q[r] <= sch[r].ntok
           /\ UpdatedCache(o)[r].toks = Own(r, 0, sch[r].ntok)
           /\ NumTokens(r) = sch[r].ntok
  <1>1. Queues /\ inflight \in Seq(SUBSET Reqs)
    BY DEF Rowed
  <1>2. r \in Reqs /\ sch[r].st \in {"waiting", "running", "preempted"}
    BY <1>1, QueuedState DEF OutputOK
  <1>3. /\ NumTokens(r) = sch[r].ntok + Cardinality(In(inflight, r)) /\ sch[r].ntok \in Nat
        /\ Cardinality(In(inflight, r)) = 0 /\ sch[r].ph = 0
    <2>1. sch[r].st # "done"
      BY <1>2
    <2> QED
      BY <1>1, <1>2, <2>1, NumTokensCounted
  <1>4. sch[r].comp \in Nat /\ (sch[r].st # "running" => sch[r].comp = 0)
    BY <1>2 DEF Exact, ExactReq
  <1>5. o.q[r] \in Nat /\ o.q[r] <= Left(r)
    BY DEF OutputOK
  <1>6. Left(r) = sch[r].ntok - sch[r].comp
    <2>1. CASE sch[r].st = "running"
      BY <1>3, <1>4, <2>1 DEF Left
    <2>2. CASE sch[r].st # "running"
      BY <1>3, <1>4, <2>2 DEF Left
    <2> QED
      BY <2>1, <2>2
  <1>7. CacheUpdated(o, UpdatedCache(o))
    <2>1. PICK c : c = UpdatedCache(o)
      OBVIOUS
    <2>2. CacheUpdated(o, c)
      BY <1>1, <2>1, UpdatedCacheProperties
    <2> QED
      BY <2>1, <2>2
  <1>8. UpdatedCache(o)[r].toks = Own(r, 0, sch[r].ntok)
    <2>1. PICK t : t = UpdatedCache(o)[r].toks
      OBVIOUS
    <2>2. /\ Len(t) = NumTokens(r)
          /\ sch[r].st = "waiting" => t = Own(r, 0, sch[r].ntok)
          /\ sch[r].st # "waiting" => r \in DOMAIN cache /\ t = cache[r].toks
      BY <1>7, <2>1 DEF CacheUpdated
    <2>3. CASE sch[r].st # "waiting"
      <3>1. t = Own(r, 0, Len(t))
        BY <1>2, <2>2, <2>3 DEF Exact, ExactReq
      <3>2. Len(t) = sch[r].ntok
        BY <1>3, <2>2
      <3> QED
        BY <2>1, <3>1, <3>2
    <2> QED
      BY <2>1, <2>2, <2>3
  <1>9. NumTokens(r) = sch[r].ntok
    BY <1>3
  <1>10. sch[r].comp + o.q[r] <= sch[r].ntok
    BY <1>3, <1>4, <1>5, <1>6
  <1> QED
    BY <1>2, <1>3, <1>4, <1>5, <1>8, <1>9, <1>10

\* A row has the tokens of the cached state and the scheduler's position.
LEMMA ExactRow ==
    ASSUME Rowed, Batched, Counted, Exact, Len(inflight) < IF Async THEN 2 ELSE 1,
           NEW o, OutputOK(o), NEW x \in Range(Prepared(o).rows)
    PROVE  /\ x.toks = UpdatedCache(o)[x.req].toks
           /\ x.comp = sch[x.req].comp
  <1>1. Queues /\ inflight \in Seq(SUBSET Reqs)
    BY DEF Rowed
  <1>2. PICK c : c = UpdatedCache(o)
    OBVIOUS
  <1>3. CacheUpdated(o, c)
    BY <1>1, <1>2, UpdatedCacheProperties
  <1>4. /\ x.req \in DOMAIN o.q
        /\ \/ \E y \in Range(rows) : y.req = x.req /\ x = OldRow(y, o)
           \/ x = NewRow(c, x.req)
    BY <1>1, <1>2, PreparedRow
  <1>5. /\ IsCached(c[x.req]) /\ c[x.req].comp = sch[x.req].comp
        /\ Len(c[x.req].toks) = NumTokens(x.req)
        /\ sch[x.req].st # "waiting" => c[x.req].toks = cache[x.req].toks
    BY <1>3, <1>4 DEF CacheUpdated
  <1>6. CASE x = NewRow(c, x.req)
    <2>1. x.toks = c[x.req].toks /\ x.comp = c[x.req].comp
      BY <1>6 DEF NewRow
    <2> QED
      BY <1>2, <1>5, <2>1
  <1>7. ASSUME NEW y \in Range(rows), y.req = x.req, x = OldRow(y, o)
        PROVE  x.toks = c[x.req].toks /\ x.comp = sch[x.req].comp
    <2>1. x.toks = Cut(y.toks, x.req) /\ x.comp = sch[x.req].comp
      BY <1>7 DEF OldRow
    <2>2. sch[x.req].st \notin {"waiting", "done"}
      <3>1. sch[x.req].st # "waiting"
        BY <1>7 DEF Batched
      <3>2. sch[x.req].st # "done"
        BY <1>1, <1>4, QueuedState DEF OutputOK
      <3> QED
        BY <3>1, <3>2
    <2>3. y.toks = c[x.req].toks
      BY <1>5, <1>7, <2>2 DEF Exact
    <2>4. Cut(y.toks, x.req) = y.toks
      BY <1>5, <2>3, CutWhole DEF IsCached
    <2> QED
      BY <2>1, <2>3, <2>4
  <1> QED
    BY <1>2, <1>4, <1>6, <1>7

\* So the ids of a synchronous step are the request's own tokens,
LEMMA ExactInputs ==
    ASSUME ~Async, Rowed, Batched, Counted, Exact, Len(inflight) < IF Async THEN 2 ELSE 1,
           NEW o, OutputOK(o), NEW r \in DOMAIN o.q, NEW rs, rs = Prepared(o).rows
    PROVE  /\ Inputs(rs, o.q, r) = Own(r, sch[r].comp, sch[r].comp + o.q[r])
           /\ RowOf(rs, r).comp = sch[r].comp
  <1>1. Queues
    BY DEF Rowed
  <1>2. PICK row : row = RowOf(rs, r)
    OBVIOUS
  <1>3. row \in Range(rs) /\ row.req = r
    BY <1>1, <1>2, RowOfProperties
  <1>4. PICK k \in Nat, n \in Nat, a \in Nat :
           /\ k = o.q[r] /\ n = sch[r].ntok /\ a = sch[r].comp /\ a + k <= n
           /\ UpdatedCache(o)[r].toks = Own(r, 0, n)
    BY SyncScheduled
  <1>5. row.toks = Own(r, 0, n) /\ row.comp = a
    BY <1>3, <1>4, ExactRow
  <1>6. Inputs(rs, o.q, r) =
           [i \in 1 .. k |-> IF a + i = a + k /\ r \in DOMAIN pre THEN pre[r]
                             ELSE IF a + i \in DOMAIN row.toks THEN row.toks[a + i] ELSE Stale]
    BY <1>2, <1>4, <1>5, Zenon DEF Inputs
  <1>7. \A i \in 1 .. k : a + i \in 1 .. n
    <2>1. a + k <= n
      BY <1>4
    <2> QED
      BY ONLY <2>1, a \in Nat, k \in Nat, n \in Nat
  <1>8. r \notin DOMAIN pre
    BY DEF Exact
  <1>9. \A i \in 1 .. k : a + i \in DOMAIN row.toks /\ row.toks[a + i] = Token(r, a + i)
    BY <1>5, <1>7, OwnToken
  <1>10. Inputs(rs, o.q, r) = [i \in 1 .. k |-> Token(r, a + i)]
    <2>1. PICK f, g : f = Inputs(rs, o.q, r) /\ g = [i \in 1 .. k |-> Token(r, a + i)]
      OBVIOUS
    <2>2. f = [i \in 1 .. k |-> f[i]] /\ \A i \in 1 .. k : f[i] = row.toks[a + i]
      BY <1>6, <1>8, <1>9, <2>1
    <2>3. \A i \in 1 .. k : f[i] = g[i]
      BY <1>9, <2>1, <2>2
    <2>4. g = [i \in 1 .. k |-> g[i]]
      BY <2>1
    <2> QED
      BY <2>1, <2>2, <2>3, <2>4
  <1>11. Own(r, a, a + k) = [i \in 1 .. k |-> Token(r, a + i)]
    <2>1. a \in Int
      OBVIOUS
    <2>2. /\ Own(r, a, a + k) = [i \in 1 .. k |-> Token(r, a + i)]
          /\ IsList(Own(r, a, a + k)) /\ Len(Own(r, a, a + k)) = k
      BY <2>1, OwnProperties, ZenonT(60) DEF IsList
    <2> QED
      BY <2>2
  <1> QED
    BY <1>2, <1>4, <1>5, <1>10, <1>11

\* The rows and the cached states of a step that has sampled.
AfterSampling(o) ==
    /\ pre' = <<>>
    /\ \A r \in DOMAIN o.q : /\ r \in DOMAIN cache'
                             /\ cache'[r].toks = Own(r, 0, Len(cache'[r].toks))
    /\ \A r \in DOMAIN cache' \ DOMAIN o.q : r \in DOMAIN cache /\ cache'[r] = cache[r]
    /\ \A x \in Range(rows') : x.req \in DOMAIN o.q /\ x.toks = cache'[x.req].toks

\* and so is the token that is sampled from them.
LEMMA ExactAfter ==
    ASSUME ~Async, Rowed, Batched, Counted, Exact, Len(inflight) < IF Async THEN 2 ELSE 1,
           NEW o, OutputOK(o), Stepped(o)
    PROVE  AfterSampling(o)
  <1>1. Queues /\ inflight \in Seq(SUBSET Reqs)
    BY DEF Rowed
  <1>2. PICK c, rs : c = UpdatedCache(o) /\ rs = Prepared(o).rows
    OBVIOUS
  <1>3. CacheUpdated(o, c)
    BY <1>1, <1>2, UpdatedCacheProperties
  <1>4. \A r \in DOMAIN c \ DOMAIN o.q : r \in DOMAIN cache /\ c[r] = cache[r]
    BY <1>3 DEF CacheUpdated
  <1>5. \A r \in DOMAIN o.q : r \in DOMAIN c /\ IsCached(c[r])
    BY <1>3 DEF CacheUpdated
  <1>6. \A x \in Range(rs) : x.req \in DOMAIN o.q /\ x.toks = c[x.req].toks
    <2>1. \A x \in Range(rs) : x.toks = c[x.req].toks
      BY <1>2, ExactRow
    <2>2. \A x \in Range(rs) : x.req \in DOMAIN o.q
      BY <1>1, <1>2, PreparedRow
    <2> QED
      BY <2>1, <2>2
  <1>7. Batch(rs) /\ Hole \notin Range(rs)
    BY <1>1, <1>2, PreparedProperties
  <1>8. \A r \in DOMAIN o.q : \E n \in Nat : c[r].toks = Own(r, 0, n)
    BY <1>2, SyncScheduled
  <1>9. CASE DOMAIN o.q = {} /\ rows' = rs /\ cache' = c /\ pre' = pre
    BY <1>4, <1>6, <1>9 DEF AfterSampling, Exact
  <1>10. CASE cache' = Append1(rs, c, o.q).cache /\ rows' = Append1(rs, c, o.q).rows /\ pre' = <<>>
    <2>1. PICK S : S = Sampled(c, o.q) /\ S \subseteq DOMAIN o.q
      BY DEF Sampled
    <2>2. SampledCache(c, S, {}, cache')
      BY <1>10, <2>1, AppendedCache
    <2>3. DOMAIN cache' = DOMAIN c /\ \A r \in DOMAIN c \ S : cache'[r] = c[r]
      BY <2>2 DEF SampledCache
    <2>4. \A r \in DOMAIN o.q : cache'[r].toks =
             IF r \in S THEN Append(c[r].toks, Token(r, Len(c[r].toks) + 1)) ELSE c[r].toks
      <3>1. \A r \in DOMAIN c : IsCached(c[r]) =>
               Append1(rs, c, o.q).cache[r].toks =
                  IF r \in Sampled(c, o.q) THEN Append(c[r].toks, Token(r, Len(c[r].toks) + 1))
                  ELSE c[r].toks
        BY AppendedCache
      <3> QED
        BY <1>5, <1>10, <2>1, <3>1
    <2>5. ASSUME NEW r \in DOMAIN o.q
          PROVE  cache'[r].toks = Own(r, 0, Len(cache'[r].toks))
      <3>1. PICK n \in Nat : c[r].toks = Own(r, 0, n)
        BY <1>8
      <3>2. Len(c[r].toks) = n /\ Len(Own(r, 0, n)) = n
        BY <3>1, OwnToken
      <3>3. CASE r \in S
        <4>1. cache'[r].toks = Append(Own(r, 0, n), Token(r, n + 1))
          BY <2>4, <3>1, <3>2, <3>3
        <4>2. cache'[r].toks = Own(r, 0, n + 1)
          BY <4>1, OwnAppend
        <4>3. n + 1 \in Nat
          OBVIOUS
        <4>4. Len(Own(r, 0, n + 1)) = n + 1
          BY <4>3, OwnToken
        <4> QED
          BY <4>2, <4>4
      <3>4. CASE r \notin S
        BY <2>4, <3>1, <3>2, <3>4
      <3> QED
        BY <3>3, <3>4
    <2>6. PICK g : g = [i \in DOMAIN rs |-> Append(rs[i].toks, Token(rs[i].req, Len(rs[i].toks) + 1))]
      OBVIOUS
    <2>7. Mapped(rs, S, g, rows')
      BY <1>10, <2>1, <2>6, AppendedRows
    <2>8. /\ SameRows(rs, rows')
          /\ \A i \in DOMAIN rs : rows'[i].toks = IF rs[i].req \in S THEN g[i] ELSE rs[i].toks
      BY <1>7, <2>7, MappedProperties
    <2>9. ASSUME NEW x \in Range(rows')
          PROVE  x.req \in DOMAIN o.q /\ x.toks = cache'[x.req].toks
      <3>1. PICK i \in DOMAIN rs : x = rows'[i] /\ x.req = rs[i].req
        BY <2>8 DEF SameRows, Range
      <3>2. rs[i].req \in DOMAIN o.q /\ rs[i].toks = c[rs[i].req].toks
        BY <1>6 DEF Range
      <3>3. CASE rs[i].req \in S
        <4>1. x.toks = Append(rs[i].toks, Token(rs[i].req, Len(rs[i].toks) + 1))
          BY <2>6, <2>8, <3>1, <3>3
        <4> QED
          BY <2>4, <3>1, <3>2, <3>3, <4>1
      <3>4. CASE rs[i].req \notin S
        BY <2>4, <2>8, <3>1, <3>2, <3>4
      <3> QED
        BY <3>3, <3>4
    <2>10. \A r \in DOMAIN cache' \ DOMAIN o.q : r \in DOMAIN cache /\ cache'[r] = cache[r]
      BY <1>4, <2>1, <2>3
    <2>11. \A r \in DOMAIN o.q : r \in DOMAIN cache'
      BY <1>5, <2>3
    <2> QED
      BY <1>10, <2>5, <2>9, <2>10, <2>11 DEF AfterSampling
  <1> QED
    BY <1>2, <1>9, <1>10, StepSampled, Zenon

\* A synchronous step keeps the cached tokens and those of the rows.
LEMMA ExactStep ==
    ASSUME ~Async, Rowed, Counted, Exact, Step
    PROVE  Exact'
  <1>1. PICK o : OutputOK(o) /\ Stepped(o)
    BY StepStepped DEF Rowed
  <1>2. /\ Queues /\ inflight \in Seq(SUBSET Reqs) /\ Batched
        /\ Scheduled(o) /\ Len(inflight) < IF Async THEN 2 ELSE 1
    BY <1>1, Zenon DEF Rowed, Counted, Stepped
  <1>3. Queues' /\ \A r \in Reqs : ScheduledReq(o, r)
    BY <1>1, <1>2, ScheduledEffect
  <1>4. AfterSampling(o)
    BY <1>1, <1>2, ExactAfter
  <1>5. \A r \in DOMAIN o.q : /\ r \in Reqs /\ sch[r].comp \in Nat /\ o.q[r] \in Nat
    BY <1>1, <1>2, SyncScheduled
  <1>6. ASSUME NEW r \in Reqs
        PROVE  ExactReq(r)'
    <2>1. CASE r \in DOMAIN o.q
      <3>1. sch'[r].st = "running" /\ sch'[r].comp = sch[r].comp + o.q[r]
        BY <1>3, <2>1 DEF ScheduledReq
      <3>2. sch'[r].comp \in Nat
        BY <1>5, <2>1, <3>1
      <3> QED
        BY <1>4, <2>1, <3>1, <3>2 DEF ExactReq, AfterSampling
    <2>2. CASE r \notin DOMAIN o.q
      <3>1. ExactReq(r)
        BY DEF Exact
      <3>2. r \in DOMAIN cache' => r \in DOMAIN cache /\ cache'[r] = cache[r]
        BY <1>4, <2>2 DEF AfterSampling
      <3>3. CASE r \in Range(run) \ Range(o.queue)
        <4>1. sch'[r].st = "preempted" /\ sch'[r].comp = 0
          BY <1>3, <2>2, <3>3 DEF ScheduledReq
        <4> QED
          BY <3>1, <3>2, <4>1 DEF ExactReq
      <3>4. CASE r \notin Range(run) \ Range(o.queue)
        <4>1. sch'[r] = sch[r]
          BY <1>3, <2>2, <3>4 DEF ScheduledReq
        <4> QED
          BY <3>1, <3>2, <4>1 DEF ExactReq
      <3> QED
        BY <3>3, <3>4
    <2> QED
      BY <2>1, <2>2
  <1>7. TokensExact'
    <2>1. PICK rs : rs = Prepared(o).rows
      OBVIOUS
    <2>2. /\ DOMAIN fed' = DOMAIN o.q
          /\ \A r \in DOMAIN o.q :
                /\ fed'[r].got.toks = Inputs(rs, o.q, r)
                /\ fed'[r].got.from = RowOf(rs, r).comp
                /\ fed'[r].due.toks = Own(r, sch[r].comp, sch[r].comp + o.q[r])
                /\ fed'[r].due.from = sch[r].comp
      BY <1>1, <2>1, Zenon DEF Stepped
    <2>3. \A r \in DOMAIN o.q :
             /\ Inputs(rs, o.q, r) = Own(r, sch[r].comp, sch[r].comp + o.q[r])
             /\ RowOf(rs, r).comp = sch[r].comp
      BY <1>1, <1>2, <2>1, ExactInputs
    <2> QED
      BY <2>2, <2>3 DEF TokensExact
  <1> QED
    BY <1>4, <1>6, <1>7 DEF Exact, AfterSampling

\* What another action has to leave of a request for its tokens to be its own.
LEMMA ExactKept ==
    ASSUME Rowed, Exact, UNCHANGED runnerVars, up,
           \A r \in Reqs : sch'[r].st # "done" =>
              /\ sch[r].st # "done"
              /\ \/ sch'[r].comp = 0
                 \/ sch'[r].comp = sch[r].comp /\ (sch'[r].st # "running" => sch[r].st # "running")
    PROVE  Exact'
  <1>1. cache' = cache /\ rows' = rows /\ fed' = fed /\ pre' = pre
    BY DEF runnerVars
  <1>2. \A r \in Reqs : ExactReq(r)'
    BY <1>1 DEF Exact, ExactReq
  <1>3. \A x \in Range(rows) : x.req \in Reqs
    BY DEF Rowed, Batched, Batch, Range
  <1>4. TokensExact'
    BY <1>1 DEF Exact, TokensExact
  <1> QED
    BY <1>1, <1>2, <1>3, <1>4 DEF Exact

\* Every action does, when scheduling is synchronous.
LEMMA ExactNext ==
    ASSUME ~Async, Rowed, Counted, Exact, [Next]_vars
    PROVE  Exact'
  <1>0. Queues /\ inflight \in Seq(SUBSET Reqs) /\ up
    BY DEF Rowed, Counted
  <1>1. CASE Step
    BY <1>1, ExactStep
  <1>2. CASE Update
    <2>1. UNCHANGED runnerVars /\ \A r \in Reqs : UpdatedReq(r)
      BY <1>0, <1>2, UpdateEffect
    <2>2. \A r \in Reqs : sch'[r].st # "done" => sch'[r].comp = sch[r].comp /\ sch'[r].st = sch[r].st
      BY <2>1 DEF UpdatedReq
    <2> QED
      BY <1>0, <2>1, <2>2, ExactKept
  <1>3. ASSUME NEW r \in Reqs, NEW m \in Prompts, AddRequest(r, m)
        PROVE  Exact'
    <2>1. /\ sch[r].st = "new" /\ sch'[r].st = "waiting" /\ sch'[r].comp = sch[r].comp
          /\ \A q \in Reqs \ {r} : sch'[q] = sch[q]
          /\ UNCHANGED runnerVars
      BY <1>0, <1>3, AddRequestEffect
    <2> QED
      BY <1>0, <2>1, ExactKept
  <1>4. ASSUME NEW r \in Reqs, Abort(r)
        PROVE  Exact'
    <2>1. /\ sch'[r].st = "done" /\ UNCHANGED runnerVars
          /\ \A q \in Reqs \ {r} : sch'[q] = sch[q]
      BY <1>0, <1>4, AbortEffect
    <2> QED
      BY <1>0, <2>1, ExactKept
  <1>5. CASE Reset
    <2>1. /\ UNCHANGED runnerVars
          /\ \A r \in Reqs : (sch[r].st # "done" /\ sch'[r].comp = 0) \/ sch'[r] = sch[r]
      BY <1>0, <1>5, ResetEffect DEF Queues
    <2> QED
      BY <1>0, <2>1, ExactKept
  <1>6. CASE UNCHANGED vars
    BY <1>0, <1>6, ExactKept DEF vars, schedulerVars
  <1> QED
    BY <1>1, <1>2, <1>3, <1>4, <1>5, <1>6 DEF Next

\* No tokens are cached at first.
LEMMA ExactInit == Init => Exact
  <1> SUFFICES ASSUME Init PROVE Exact
    OBVIOUS
  <1>1. rows = <<>> /\ fed = <<>> /\ cache = <<>> /\ pre = <<>>
    BY DEF Init
  <1>2. \A r \in Reqs : sch[r].st = "new" /\ sch[r].comp = 0
    BY DEF Init
  <1> QED
    BY <1>1, <1>2 DEF Exact, ExactReq, TokensExact, Range

\* With synchronous scheduling, every token that the model runs is the request's
\* own token of that position, whatever was preempted, reset, aborted, re-added,
\* compacted or swapped before.
THEOREM TokensCorrect ==
    ASSUME ~Async
    PROVE  Spec => []TokensExact
  <1>1. Spec => [](Rowed /\ Counted)
    BY CountedAlways
  <1>2. Init => Exact
    BY ExactInit
  <1>3. Rowed /\ Counted /\ Exact /\ [Next]_vars => Exact'
    BY ExactNext
  <1>4. Exact => TokensExact
    BY DEF Exact
  <1> QED
    BY <1>1, <1>2, <1>3, <1>4, PTL DEF Spec

-----------------------------------------------------------------------------
(* The token budget of an asynchronous step *)

Upto(K, i) == {j \in K : j <= i}

\* How many of the first i positions are in a set of positions.
LEMMA UptoNext ==
    ASSUME NEW N \in Nat, NEW K \in SUBSET (1 .. N)
    PROVE  /\ Cardinality(Upto(K, 0)) = 0
           /\ \A i \in 1 .. N :
                 Cardinality(Upto(K, i)) = Cardinality(Upto(K, i - 1)) + IF i \in K THEN 1 ELSE 0
           /\ \A i \in 0 .. N : Cardinality(Upto(K, i)) \in Nat
  <1>0. \A j \in K : j \in Nat /\ 1 <= j /\ j <= N
    OBVIOUS
  <1>1. \A i \in 0 .. N : IsFiniteSet(Upto(K, i)) /\ Cardinality(Upto(K, i)) \in Nat
    <2>1. \A i \in 0 .. N : Upto(K, i) \in SUBSET (1 .. N)
      BY DEF Upto
    <2> QED
      BY <2>1, FiniteWithin, FS_CardinalityType
  <1>2. Upto(K, 0) = {}
    <2>1. \A j \in K : ~(j <= 0)
      BY <1>0
    <2> QED
      BY <2>1 DEF Upto
  <1>3. ASSUME NEW i \in 1 .. N
        PROVE  Cardinality(Upto(K, i)) = Cardinality(Upto(K, i - 1)) + IF i \in K THEN 1 ELSE 0
    <2>1. /\ i - 1 \in 0 .. N /\ i \notin Upto(K, i - 1)
          /\ IsFiniteSet(Upto(K, i - 1)) /\ Cardinality(Upto(K, i - 1)) \in Nat
      <3>1. i - 1 \in 0 .. N
        OBVIOUS
      <3>2. i \notin Upto(K, i - 1)
        BY DEF Upto
      <3> QED
        BY <3>1, <3>2, <1>1
    <2>0. \A j \in K : (j <= i) <=> (j <= i - 1 \/ j = i)
      BY <1>0
    <2>2. CASE i \in K
      <3>1. Upto(K, i) = Upto(K, i - 1) \cup {i}
        BY <2>0, <2>2 DEF Upto
      <3> QED
        BY <2>1, <2>2, <3>1, FS_AddElement
    <2>3. CASE i \notin K
      <3>1. Upto(K, i) = Upto(K, i - 1)
        BY <2>0, <2>3 DEF Upto
      <3> QED
        BY <2>1, <2>3, <3>1
    <2> QED
      BY <2>2, <2>3
  <1> QED
    BY <1>1, <1>2, <1>3, FS_EmptySet

\* The positions of an order that are given a token.
Given(order) == {j \in DOMAIN order : Quotas(order)[j] > 0}

\* What is given out is taken from the budget, and while some of it remains each
\* request has been given all it has left.
LEMMA BudgetLeft ==
    ASSUME Queues, NEW order \in Seq(Reqs), \A i \in DOMAIN order : Left(order[i]) \in Nat,
           NEW left, Spent(order, left)
    PROVE  /\ \A i \in 0 .. Len(order) :
                 /\ left[i] \in Nat
                 /\ left[i] + Cardinality(Upto(Given(order), i)) <= MaxBatchedTokens
                 /\ left[i] > 0 => \A j \in 1 .. i : Quotas(order)[j] = Left(order[j])
           /\ \A i \in DOMAIN order : Quotas(order)[i] \in Nat
  <1> DEFINE N == Len(order)
             K == Given(order)
             C(i) == Cardinality(Upto(K, i))
             P(i) == /\ left[i] \in Nat /\ left[i] + C(i) <= MaxBatchedTokens
                     /\ left[i] > 0 => \A j \in 1 .. i : Quotas(order)[j] = Left(order[j])
             S == {i \in 0 .. N : P(i)}
  <1>1. N \in Nat /\ DOMAIN order = 1 .. N /\ MaxBatchedTokens \in Nat
    BY RunnerAssumption
  <1>2. /\ left[0] = MaxBatchedTokens
        /\ \A i \in 1 .. N : /\ Quotas(order)[i] = Min({Left(order[i]), left[i - 1]})
                             /\ left[i] = left[i - 1] - Quotas(order)[i]
    BY DEF Spent
  <1>3. /\ C(0) = 0
        /\ \A i \in 1 .. N : C(i) = C(i - 1) + IF i \in K THEN 1 ELSE 0
        /\ \A i \in 0 .. N : C(i) \in Nat
    <2>1. K \in SUBSET (1 .. N)
      BY <1>1 DEF Given
    <2> HIDE DEF K, N
    <2> QED
      BY <1>1, <2>1, UptoNext
  <1>k. \A i \in 1 .. N : i \in K <=> Quotas(order)[i] > 0
    BY <1>1 DEF Given
  <1> HIDE DEF K, C, N
  <1>4. 0 \in S
    BY <1>1, <1>2, <1>3
  <1>5. ASSUME NEW i \in 1 .. N, i - 1 \in S
        PROVE  i \in S /\ Quotas(order)[i] \in Nat
    <2>1. PICK a, b, q : /\ a \in Int /\ b \in Int
                         /\ a = Left(order[i]) /\ b = left[i - 1] /\ q = Quotas(order)[i]
      BY <1>1, <1>5
    <2>2. a \in Nat /\ b \in Nat
      BY <1>1, <1>5, <2>1
    <2>3. q \in {a, b} /\ q <= a /\ q <= b
      <3>1. q = Min({a, b})
        BY <1>2, <2>1
      <3>2. a \in Int /\ b \in Int
        BY <2>2
      <3>3. Min({a, b}) \in {a, b} /\ Min({a, b}) <= a /\ Min({a, b}) <= b
        BY <3>2, MinPair
      <3> QED
        BY <3>1, <3>3
    <2>4. q \in Nat /\ b - q \in Nat /\ (b - q > 0 => q = a) /\ (b - q > 0 => b > 0)
      BY <2>2, <2>3
    <2>5. left[i] = b - q
      BY <1>2, <2>1
    <2>6. left[i] + C(i) <= MaxBatchedTokens
      <3>1. C(i) = C(i - 1) + (IF q > 0 THEN 1 ELSE 0) /\ C(i - 1) \in Nat /\ i - 1 \in 0 .. N
        BY <1>1, <1>3, <1>k, <2>1
      <3>2. b + C(i - 1) <= MaxBatchedTokens
        BY <1>5, <2>1
      <3> QED
        BY <3>1, <3>2, <2>2, <2>4, <2>5, <1>1
    <2>7. ASSUME left[i] > 0, NEW j \in 1 .. i
          PROVE  Quotas(order)[j] = Left(order[j])
      <3>1. CASE j = i
        BY <3>1, <2>1, <2>4, <2>5, <2>7
      <3>2. CASE j # i
        <4>1. j \in 1 .. i - 1
          BY <3>2, <1>1
        <4> QED
          BY <4>1, <1>5, <2>1, <2>4, <2>5, <2>7
      <3> QED
        BY <3>1, <3>2
    <2>8. i \in 0 .. N
      BY <1>1
    <2> QED
      BY <2>1, <2>4, <2>5, <2>6, <2>7, <2>8
  <1>6. \A i \in 1 .. N : i - 1 \in S => i \in S
    BY <1>5
  <1>7. \A i \in 0 .. N : i \in S
    <2> HIDE DEF S
    <2> QED
      BY <1>1, <1>4, <1>6, RangeInduction
  <1>8. \A i \in DOMAIN order : Quotas(order)[i] \in Nat
    <2>1. \A i \in 1 .. N : i - 1 \in 0 .. N
      BY <1>1
    <2> HIDE DEF S
    <2> QED
      BY <2>1, <1>1, <1>5, <1>7
  <1> QED
    BY <1>7, <1>8 DEF N, C, K

\* The positions of requests that have tokens left.
Needing(s) == {j \in DOMAIN s : Left(s[j]) > 0}

\* Before the n-th request of s the others need one token each, and together
\* less than the budget.
AheadFits(s, n) ==
    /\ \A j \in 1 .. n - 1 : Left(s[j]) <= 1
    /\ Cardinality(Upto(Needing(s), n - 1)) < MaxBatchedTokens

\* Then there is some of the budget left for it.
LEMMA BudgetReaches ==
    ASSUME Queues, NEW order \in Seq(Reqs), \A i \in DOMAIN order : Left(order[i]) \in Nat,
           NEW left, Spent(order, left), NEW n \in DOMAIN order, AheadFits(order, n)
    PROVE  left[n - 1] > 0
  <1> DEFINE N == Len(order)
             K == Needing(order)
             C(i) == Cardinality(Upto(K, i))
             M == n - 1
             S == {i \in 0 .. M : left[i] + C(i) >= MaxBatchedTokens}
  <1>1. /\ N \in Nat /\ DOMAIN order = 1 .. N /\ MaxBatchedTokens \in Nat
        /\ M \in Nat /\ M <= N /\ n \in 1 .. N
    BY RunnerAssumption
  <1>2. /\ left[0] = MaxBatchedTokens
        /\ \A i \in 1 .. N : /\ Quotas(order)[i] = Min({Left(order[i]), left[i - 1]})
                             /\ left[i] = left[i - 1] - Quotas(order)[i]
    BY DEF Spent
  <1>3. /\ C(0) = 0
        /\ \A i \in 1 .. N : C(i) = C(i - 1) + IF i \in K THEN 1 ELSE 0
        /\ \A i \in 0 .. N : C(i) \in Nat
    <2>1. K \in SUBSET (1 .. N)
      BY <1>1 DEF Needing
    <2> HIDE DEF K, N
    <2> QED
      BY <1>1, <2>1, UptoNext
  <1>k. \A i \in 1 .. N : i \in K <=> Left(order[i]) > 0
    BY <1>1 DEF Needing
  <1>m. (\A i \in 1 .. M : Left(order[i]) <= 1) /\ C(M) < MaxBatchedTokens
    BY DEF AheadFits
  <1> HIDE DEF K, C, N, M
  <1>n. \A i \in 0 .. N : left[i] \in Nat
    BY BudgetLeft DEF N
  <1>4. 0 \in S
    BY <1>1, <1>2, <1>3
  <1>5. ASSUME NEW i \in 1 .. M, i - 1 \in S
        PROVE  i \in S
    <2>0. i \in 1 .. N /\ i - 1 \in 0 .. N /\ i \in 0 .. M
      BY <1>1
    <2>1. PICK a, b, q : /\ a \in Int /\ b \in Int
                         /\ a = Left(order[i]) /\ b = left[i - 1] /\ q = Quotas(order)[i]
      <3>1. Left(order[i]) \in Nat
        BY <1>1, <2>0
      <3>2. left[i - 1] \in Nat
        BY <1>n, <2>0
      <3> QED
        BY <3>1, <3>2
    <2>2. a \in Nat /\ a <= 1 /\ b \in Nat
      BY <1>1, <1>n, <1>m, <2>0, <2>1
    <2>3. q \in {a, b} /\ q <= a
      <3>1. q = Min({a, b})
        BY <1>2, <2>0, <2>1
      <3>2. a \in Int /\ b \in Int
        BY <2>2
      <3>3. Min({a, b}) \in {a, b} /\ Min({a, b}) <= a
        BY <3>2, MinPair
      <3> QED
        BY <3>1, <3>3
    <2>4. left[i] = b - q
      BY <1>2, <2>0, <2>1
    <2>5. C(i) = C(i - 1) + (IF a > 0 THEN 1 ELSE 0) /\ C(i - 1) \in Nat
      BY <1>3, <1>k, <2>0, <2>1
    <2>6. b + C(i - 1) >= MaxBatchedTokens
      BY <1>5, <2>1
    <2> QED
      BY <1>1, <2>0, <2>2, <2>3, <2>4, <2>5, <2>6
  <1>6. \A i \in 1 .. M : i - 1 \in S => i \in S
    BY <1>5
  <1>7. \A i \in 0 .. M : i \in S
    <2> HIDE DEF S
    <2> QED
      BY <1>1, <1>4, <1>6, RangeInduction
  <1>8. M \in 0 .. M /\ M \in 0 .. N
    BY <1>1
  <1>9. left[M] > 0
    BY <1>1, <1>3, <1>7, <1>8, <1>m, <1>n, SMTT(30)
  <1> QED
    BY <1>9 DEF M

-----------------------------------------------------------------------------
(* Nobody that needs a token goes without one *)

\* What the scheduler counts of a request when scheduling is asynchronous.
BudgetReq(r) ==
    LET s == sch[r]
    IN s.st # "done" =>
         /\ s.comp \in Nat /\ (s.st # "running" => s.comp = 0)
         /\ s.st = "preempted" => s.back
         /\ s.st # "new" => s.ntok < MaxLen
         /\ s.st = "running" => s.comp < NumTokens(r)

Budgeted ==
    /\ \A r \in Reqs : BudgetReq(r)
    /\ \A n \in DOMAIN run : AheadFits(run, n)

\* Left as a function of what the scheduler notes of the request.
LeftOf(s) ==
    IF s.st # "running" THEN s.ntok
    ELSE IF s.ph > 0 /\ s.comp + 2 - s.ph >= MaxLen THEN 0
    ELSE s.ntok + s.ph - s.comp

\* What a request has left follows from what the scheduler notes of it alone.
LEMMA LeftCases ==
    ASSUME NEW r
    PROVE  Left(r) = LeftOf(sch[r])
  BY DEF Left, LeftOf

\* The batches under way that a request is in are no more than there are.
LEMMA InFew ==
    ASSUME inflight \in Seq(SUBSET Reqs), NEW r
    PROVE  Cardinality(In(inflight, r)) \in Nat /\ Cardinality(In(inflight, r)) <= Len(inflight)
  <1>1. Len(inflight) \in Nat /\ DOMAIN inflight = 1 .. Len(inflight)
    OBVIOUS
  <1>2. In(inflight, r) \in SUBSET (1 .. Len(inflight))
    BY <1>1 DEF In
  <1>3. IsFiniteSet(1 .. Len(inflight)) /\ Cardinality(1 .. Len(inflight)) = Len(inflight)
    <2>1. ASSUME NEW b \in Nat
          PROVE  IsFiniteSet(1 .. b) /\ Cardinality(1 .. b) = b
      <3>1. b <= b
        OBVIOUS
      <3> QED
        BY <3>1, Interval
    <2> QED
      BY <1>1, <2>1
  <1>4. Cardinality(In(inflight, r)) <= Len(inflight)
    BY <1>2, <1>3, FS_Subset
  <1> QED
    BY <1>4, InFinite

\* A request that has not ended, in numbers.
LEMMA LeftValue ==
    ASSUME Rowed, Counted, Budgeted, NEW r \in Reqs, sch[r].st # "done"
    PROVE  /\ sch[r].ntok \in Nat /\ sch[r].ph \in Nat /\ sch[r].comp \in Nat
           /\ Async => sch[r].ph = Cardinality(In(inflight, r)) /\ sch[r].ph <= Len(inflight)
           /\ Left(r) \in Nat
           /\ sch[r].st # "running" => sch[r].comp = 0 /\ Left(r) = sch[r].ntok
           /\ sch[r].st = "running" =>
                 Left(r) = 0 \/ Left(r) = sch[r].ntok + sch[r].ph - sch[r].comp
  <1>1. /\ sch[r].prompt \in Nat /\ sch[r].ntok >= sch[r].prompt /\ sch[r].ntok \in Int
        /\ sch[r].ph = IF Async THEN Cardinality(In(inflight, r)) ELSE 0
    BY DEF Counted, CountedReq, Rowed, Queues, IsSched, Sched
  <1>2. Cardinality(In(inflight, r)) \in Nat /\ Cardinality(In(inflight, r)) <= Len(inflight)
    BY InFew DEF Rowed
  <1>3. /\ sch[r].comp \in Nat /\ (sch[r].st # "running" => sch[r].comp = 0)
        /\ sch[r].st = "running" => sch[r].comp < sch[r].ntok + sch[r].ph
    BY DEF Budgeted, BudgetReq, NumTokens
  <1>4. Left(r) = LeftOf(sch[r])
    BY LeftCases
  <1>5. sch[r].ntok \in Nat /\ sch[r].ph \in Nat
    BY <1>1, <1>2
  <1>6. CASE sch[r].st # "running"
    BY <1>1, <1>2, <1>3, <1>4, <1>5, <1>6 DEF LeftOf
  <1>7. CASE sch[r].st = "running"
    <2>1. PICK a \in Nat, p \in Nat, c \in Nat :
             a = sch[r].ntok /\ p = sch[r].ph /\ c = sch[r].comp /\ c < a + p
      BY <1>3, <1>5, <1>7
    <2>2. Left(r) = 0 \/ Left(r) = a + p - c
      BY <1>4, <1>7, <2>1 DEF LeftOf
    <2> QED
      BY <1>1, <1>2, <1>7, <2>1, <2>2, SMTT(30)
  <1> QED
    BY <1>6, <1>7

\* Positions that two orders share are ahead of the same request.
LEMMA AheadSame ==
    ASSUME NEW s \in Seq(Reqs), NEW t \in Seq(Reqs), NEW n \in DOMAIN s, n \in DOMAIN t,
           \A i \in 1 .. n : s[i] = t[i], AheadFits(s, n)
    PROVE  AheadFits(t, n)
  <1>1. /\ DOMAIN s = 1 .. Len(s) /\ DOMAIN t = 1 .. Len(t)
        /\ Len(s) \in Nat /\ Len(t) \in Nat /\ n \in Nat /\ n <= Len(s) /\ n <= Len(t)
    OBVIOUS
  <1>2. \A i \in 1 .. n - 1 : i \in 1 .. n
    BY <1>1
  <1>3. Upto(Needing(s), n - 1) = Upto(Needing(t), n - 1)
    <2>1. \A j \in DOMAIN s : j <= n - 1 => j \in DOMAIN t /\ j \in 1 .. n
      BY <1>1
    <2>2. \A j \in DOMAIN t : j <= n - 1 => j \in DOMAIN s /\ j \in 1 .. n
      BY <1>1
    <2> QED
      BY <2>1, <2>2 DEF Upto, Needing
  <1> QED
    BY <1>2, <1>3 DEF AheadFits

\* A position of the order is one of the running requests', at its place, or of
\* a request that is admitted.
LEMMA OrderPosition ==
    ASSUME Queues, NEW n \in DOMAIN Order
    PROVE  \/ n \in DOMAIN run /\ \A i \in 1 .. n : i \in DOMAIN run /\ run[i] = Order[i]
           \/ Quotas(Order)[n] > 0
  <1>0. /\ run \in Seq(Reqs) /\ wait \in Seq(Reqs) /\ IsInjective(run) /\ IsInjective(wait)
        /\ DOMAIN run = 1 .. Len(run) /\ Len(run) \in Nat
    BY DEF Queues
  <1>1. CASE \E m \in 0 .. Len(run) : Order = SubSeq(run, 1, m)
    <2>1. PICK m \in 0 .. Len(run) : Order = SubSeq(run, 1, m)
      BY <1>1
    <2>2. DOMAIN Order = 1 .. m /\ \A i \in 1 .. m : Order[i] = run[i] /\ i \in DOMAIN run
      BY <1>0, <2>1
    <2>3. \A i \in 1 .. n : i \in 1 .. m
      BY <2>2
    <2> QED
      BY <2>2, <2>3
  <1>2. CASE \E a \in 0 .. Len(wait) :
                /\ Order = run \o SubSeq(wait, 1, a)
                /\ \A i \in Len(run) + 1 .. Len(run) + a : Quotas(Order)[i] > 0
    <2>1. PICK a \in 0 .. Len(wait) :
                /\ Order = run \o SubSeq(wait, 1, a)
                /\ \A i \in Len(run) + 1 .. Len(run) + a : Quotas(Order)[i] > 0
      BY <1>2
    <2>2. PICK w : w = SubSeq(wait, 1, a)
      OBVIOUS
    <2>3. w \in Seq(Reqs) /\ Len(w) = a
      BY <1>0, <2>2, PrefixQueue
    <2>4. /\ n \in 1 .. Len(run) + a
          /\ \A i \in 1 .. Len(run) : Order[i] = run[i]
      BY <1>0, <2>1, <2>2, <2>3
    <2>5. CASE n \in 1 .. Len(run)
      <3>1. \A i \in 1 .. n : i \in 1 .. Len(run)
        BY <1>0, <2>5
      <3> QED
        BY <1>0, <2>4, <2>5, <3>1
    <2>6. CASE n \notin 1 .. Len(run)
      <3>1. n \in Len(run) + 1 .. Len(run) + a
        BY <1>0, <2>4, <2>6
      <3> QED
        BY <2>1, <3>1
    <2> QED
      BY <2>5, <2>6
  <1> QED
    BY <1>1, <1>2, OrderCases

\* So a request of the order gets a token if it needs one, and those before it
\* get all they need.
LEMMA OrderBudget ==
    ASSUME Rowed, Counted, Budgeted, NEW n \in DOMAIN Order
    PROVE  /\ \A j \in 1 .. n - 1 : Quotas(Order)[j] = Left(Order[j])
           /\ Cardinality(Upto(Given(Order), n - 1)) < MaxBatchedTokens
           /\ Left(Order[n]) > 0 => Quotas(Order)[n] > 0
  <1>0. Queues /\ MaxBatchedTokens \in Nat
    BY RunnerAssumption DEF Rowed
  <1>1. PICK s : s = Order
    OBVIOUS
  <1>2. /\ s \in Seq(Reqs) /\ DOMAIN s = 1 .. Len(s) /\ Len(s) \in Nat
        /\ Range(s) \subseteq Range(run) \cup Range(wait)
    BY <1>0, <1>1, OrderProperties
  <1>3. \A i \in DOMAIN s : s[i] \in Reqs /\ Left(s[i]) \in Nat
    <2>1. ASSUME NEW i \in DOMAIN s
          PROVE  s[i] \in Reqs /\ Left(s[i]) \in Nat
      <3>1. s[i] \in Reqs /\ s[i] \in Range(run) \cup Range(wait)
        BY <1>2, SMTT(30) DEF Range
      <3>2. sch[s[i]].st # "done"
        BY <1>0, <3>1 DEF Queues
      <3> QED
        BY <3>1, <3>2, LeftValue
    <2> QED
      BY <2>1
  <1>4. PICK left : Spent(s, left)
    BY <1>0, <1>2, QuotasSpent
  <1>5. /\ \A i \in 0 .. Len(s) :
              /\ left[i] \in Nat
              /\ left[i] + Cardinality(Upto(Given(s), i)) <= MaxBatchedTokens
              /\ left[i] > 0 => \A j \in 1 .. i : Quotas(s)[j] = Left(s[j])
        /\ \A i \in DOMAIN s : Quotas(s)[i] \in Nat
    BY <1>0, <1>2, <1>3, <1>4, BudgetLeft
  <1>6. /\ n \in 1 .. Len(s) /\ n - 1 \in 0 .. Len(s) /\ n \in DOMAIN s
    BY <1>1, <1>2
  <1>7. PICK a \in Nat, b \in Nat, q \in Nat :
           /\ a = Left(s[n]) /\ b = left[n - 1] /\ q = Quotas(s)[n]
           /\ q = Min({a, b})
    <2>1. Left(s[n]) \in Nat /\ left[n - 1] \in Nat /\ Quotas(s)[n] \in Nat
      BY <1>3, <1>5, <1>6
    <2>2. Quotas(s)[n] = Min({Left(s[n]), left[n - 1]})
      BY <1>4, <1>6 DEF Spent
    <2> QED
      BY <2>1, <2>2
  <1>8. q \in {a, b} /\ q <= b
    BY <1>7, MinPair, SMTT(30)
  <1>9. b > 0
    <2>1. CASE q > 0
      BY <1>7, <1>8, <2>1
    <2>2. CASE n \in DOMAIN run /\ \A i \in 1 .. n : i \in DOMAIN run /\ run[i] = s[i]
      <3>1. AheadFits(run, n) /\ run \in Seq(Reqs)
        BY <1>0, <2>2 DEF Budgeted, Queues
      <3>2. AheadFits(s, n)
        BY <1>2, <1>6, <2>2, <3>1, AheadSame
      <3> QED
        BY <1>0, <1>2, <1>3, <1>4, <1>6, <1>7, <3>2, BudgetReaches
    <2> QED
      BY <1>0, <1>1, <1>7, <2>1, <2>2, OrderPosition
  <1>10. \A j \in 1 .. n - 1 : Quotas(s)[j] = Left(s[j])
    BY <1>5, <1>6, <1>7, <1>9
  <1>11. Cardinality(Upto(Given(s), n - 1)) < MaxBatchedTokens
    <2>1. Cardinality(Upto(Given(s), n - 1)) \in Nat
      <3>1. Given(s) \in SUBSET (1 .. Len(s))
        BY <1>2 DEF Given
      <3> QED
        BY <1>2, <1>6, <3>1, UptoNext, ZenonT(60)
    <2>2. b + Cardinality(Upto(Given(s), n - 1)) <= MaxBatchedTokens
      BY <1>5, <1>6, <1>7
    <2> QED
      BY <1>0, <1>9, <2>1, <2>2
  <1>12. a > 0 => q > 0
    BY <1>8, <1>9
  <1> QED
    BY <1>1, <1>7, <1>10, <1>11, <1>12

\* The positions of a scheduler output that are given a token.
Served(o) == {j \in DOMAIN o.queue : o.queue[j] \in DOMAIN o.q}

\* Before every request of the queue the others get all they have left, and
\* together less than the budget; a request that gets nothing has nothing left.
Afforded(o) ==
    \A n \in DOMAIN o.queue :
        /\ \A j \in 1 .. n - 1 : o.queue[j] \in DOMAIN o.q => o.q[o.queue[j]] = Left(o.queue[j])
        /\ Cardinality(Upto(Served(o), n - 1)) < MaxBatchedTokens
        /\ o.queue[n] \notin DOMAIN o.q => Left(o.queue[n]) = 0

\* The scheduler output hands out the quotas of the order.
LEMMA OutputQuotas ==
    ASSUME Queues
    PROVE  /\ Output.queue = Order
           /\ \A i \in DOMAIN Order :
                 /\ Order[i] \in DOMAIN Output.q <=> Quotas(Order)[i] > 0
                 /\ Order[i] \in DOMAIN Output.q => Output.q[Order[i]] = Quotas(Order)[i]
  <1> DEFINE order == Order
             at(r) == CHOOSE i \in DOMAIN order : order[i] = r
             q(r) == Quotas(order)[at(r)]
             S == {r \in ToSet(order) : q(r) > 0}
             o == Output
  <1>1. IsInjective(order)
    BY OrderProperties
  <1>2. o.queue = order /\ o.q = [r \in S |-> q(r)]
    BY DEF Output
  <1> HIDE DEF o, order
  <1>3. ASSUME NEW i \in DOMAIN order
        PROVE  at(order[i]) = i
    <2>1. at(order[i]) \in DOMAIN order /\ order[at(order[i])] = order[i]
      OBVIOUS
    <2> HIDE DEF at
    <2> QED
      BY <2>1, <1>1 DEF IsInjective
  <1>4. \A i \in DOMAIN order : order[i] \in ToSet(order)
    BY DEF ToSet
  <1> HIDE DEF at
  <1>5. DOMAIN o.q = S /\ \A r \in S : o.q[r] = q(r)
    BY <1>2
  <1>6. \A i \in DOMAIN order : order[i] \in S <=> Quotas(order)[i] > 0
    BY <1>3, <1>4
  <1>7. \A i \in DOMAIN order : q(order[i]) = Quotas(order)[i]
    BY <1>3
  <1> HIDE DEF q, S
  <1> QED
    BY <1>2, <1>5, <1>6, <1>7 DEF o, order

\* So it can afford them.
LEMMA OutputAfforded ==
    ASSUME Rowed, Counted, Budgeted
    PROVE  Afforded(Output)
  <1>0. Queues
    BY DEF Rowed
  <1>1. PICK o, s : o = Output /\ s = Order
    OBVIOUS
  <1>2. /\ o.queue = s
        /\ \A i \in DOMAIN s : /\ s[i] \in DOMAIN o.q <=> Quotas(s)[i] > 0
                               /\ s[i] \in DOMAIN o.q => o.q[s[i]] = Quotas(s)[i]
    BY <1>0, <1>1, OutputQuotas
  <1>3. s \in Seq(Reqs) /\ Range(s) \subseteq Range(run) \cup Range(wait)
    BY <1>0, <1>1, OrderProperties
  <1>4. Served(o) = Given(s)
    BY <1>2 DEF Served, Given
  <1>5. ASSUME NEW n \in DOMAIN o.queue
        PROVE  /\ \A j \in 1 .. n - 1 : o.queue[j] \in DOMAIN o.q => o.q[o.queue[j]] = Left(o.queue[j])
               /\ Cardinality(Upto(Served(o), n - 1)) < MaxBatchedTokens
               /\ o.queue[n] \notin DOMAIN o.q => Left(o.queue[n]) = 0
    <2>1. /\ \A j \in 1 .. n - 1 : Quotas(s)[j] = Left(s[j])
          /\ Cardinality(Upto(Given(s), n - 1)) < MaxBatchedTokens
          /\ Left(s[n]) > 0 => Quotas(s)[n] > 0
      BY <1>1, <1>2, OrderBudget
    <2>2. \A j \in 1 .. n - 1 : j \in DOMAIN s
      BY <1>2, <1>3
    <2>3. Left(s[n]) \in Nat
      <3>1. s[n] \in Reqs /\ s[n] \in Range(run) \cup Range(wait)
        BY <1>2, <1>3 DEF Range
      <3>2. sch[s[n]].st # "done"
        BY <1>0, <3>1 DEF Queues
      <3> QED
        BY <3>1, <3>2, LeftValue
    <2>4. s[n] \notin DOMAIN o.q => Left(s[n]) = 0
      BY <1>2, <2>1, <2>3
    <2> QED
      BY <1>2, <1>4, <2>1, <2>2, <2>4
  <1> QED
    BY <1>1, <1>5 DEF Afforded

\* The count of a request that is given q tokens of the l it has left.
LEMMA CountAfter ==
    ASSUME NEW n \in Nat, NEW p \in Nat, NEW c \in Nat, NEW l \in Nat, NEW q \in Nat, NEW x \in Nat,
           p <= 1, q <= l, (c = 0 /\ l = n) \/ l = n + p - c,
           x = IF c + q >= n + p THEN p + 1 ELSE p
    PROVE  /\ c + q < n + x
           /\ q = l => n + x - (c + q) <= 1
  <1>1. c + q >= n + p => x = p + 1
    OBVIOUS
  <1>2. c + q < n + p => x = p
    OBVIOUS
  <1>3. c + q <= n + p
    OBVIOUS
  <1>4. c + q < n + x
    BY <1>1, <1>2, <1>3
  <1>5. q = l => n + x - (c + q) <= 1
    BY <1>1, <1>2, <1>3
  <1> QED
    BY <1>4, <1>5

\* What a step leaves for a request that got all it had left.
LEMMA LeftAfter ==
    ASSUME Async, Rowed, Counted, Budgeted, Len(inflight) < 2, NEW o, OutputOK(o),
           NEW r \in DOMAIN o.q, r \in Reqs, sch[r].st \in {"waiting", "running", "preempted"},
           ScheduledReq(o, r)
    PROVE  /\ sch'[r].comp \in Nat /\ sch'[r].comp < sch'[r].ntok + sch'[r].ph
           /\ o.q[r] = Left(r) => LeftOf(sch'[r]) <= 1
  <1>1. /\ sch[r].ntok \in Nat /\ sch[r].ph \in Nat /\ sch[r].comp \in Nat
        /\ sch[r].ph <= Len(inflight) /\ Left(r) \in Nat
        /\ sch[r].st # "running" => sch[r].comp = 0 /\ Left(r) = sch[r].ntok
        /\ sch[r].st = "running" =>
              Left(r) = 0 \/ Left(r) = sch[r].ntok + sch[r].ph - sch[r].comp
    BY LeftValue
  <1>2. Len(inflight) \in Nat
    BY DEF Rowed
  <1>3. o.q[r] \in Nat \ {0} /\ o.q[r] <= Left(r)
    BY DEF OutputOK
  <1>4. PICK n \in Nat, p \in Nat, c \in Nat, l \in Nat, q \in Nat :
           /\ n = sch[r].ntok /\ p = sch[r].ph /\ c = sch[r].comp /\ l = Left(r) /\ q = o.q[r]
           /\ p <= 1 /\ q # 0 /\ q <= l
           /\ (c = 0 /\ l = n) \/ l = n + p - c
    <2>1. /\ sch[r].ph <= 1 /\ o.q[r] # 0 /\ o.q[r] \in Nat
      BY <1>1, <1>2, <1>3
    <2>2. \/ sch[r].comp = 0 /\ Left(r) = sch[r].ntok
          \/ Left(r) = sch[r].ntok + sch[r].ph - sch[r].comp
      <3>1. Left(r) # 0
        BY <1>1, <1>3
      <3> QED
        BY <1>1, <3>1
    <2> QED
      BY <1>1, <1>3, <2>1, <2>2
  <1>5. /\ sch'[r].st = "running" /\ sch'[r].comp = c + q /\ sch'[r].ntok = n
        /\ sch'[r].ph = IF c + q >= n + p THEN p + 1 ELSE p
    BY <1>4 DEF ScheduledReq, NumTokens
  <1>6. PICK x \in Nat : x = sch'[r].ph /\ x = IF c + q >= n + p THEN p + 1 ELSE p
    BY <1>5
  <1>7. c + q < n + x /\ (q = l => n + x - (c + q) <= 1)
    BY <1>4, <1>6, CountAfter, ZenonT(60)
  <1>8. LeftOf(sch'[r]) = IF x > 0 /\ c + q + 2 - x >= MaxLen THEN 0 ELSE n + x - (c + q)
    BY <1>5, <1>6 DEF LeftOf
  <1>9. q = l => LeftOf(sch'[r]) <= 1
    BY <1>7, <1>8
  <1>10. c + q \in Nat
    OBVIOUS
  <1> QED
    BY <1>4, <1>5, <1>6, <1>7, <1>9, <1>10

\* A step keeps to the budget.
LEMMA BudgetedStep ==
    ASSUME Async, Rowed, Counted, Budgeted, Step
    PROVE  Budgeted'
  <1>1. PICK o : OutputOK(o) /\ Stepped(o) /\ Afforded(o)
    BY StepStepped, OutputAfforded DEF Rowed
  <1>2. /\ Queues /\ inflight \in Seq(SUBSET Reqs) /\ Batched
        /\ Scheduled(o) /\ Len(inflight) < 2
    BY <1>1, Zenon DEF Rowed, Counted, Stepped
  <1>3. Queues' /\ \A r \in Reqs : ScheduledReq(o, r)
    BY <1>1, <1>2, ScheduledEffect
  <1>4. \A r \in DOMAIN o.q : r \in Reqs /\ sch[r].st \in {"waiting", "running", "preempted"}
    <2>1. DOMAIN o.q \subseteq Range(o.queue)
      BY <1>1 DEF OutputOK
    <2> QED
      BY <1>1, <1>2, <2>1, QueuedState
  <1>5. ASSUME NEW r \in DOMAIN o.q
        PROVE  /\ sch'[r].comp \in Nat /\ sch'[r].comp < sch'[r].ntok + sch'[r].ph
               /\ o.q[r] = Left(r) => LeftOf(sch'[r]) <= 1
    BY <1>1, <1>2, <1>3, <1>4, LeftAfter
  <1>6. ASSUME NEW r \in Reqs
        PROVE  BudgetReq(r)'
    <2>0. BudgetReq(r)
      BY DEF Budgeted
    <2>1. CASE r \in DOMAIN o.q
      <3>1. /\ sch'[r].st = "running" /\ sch'[r].ntok = sch[r].ntok
        BY <1>3, <2>1 DEF ScheduledReq
      <3>2. sch[r].ntok < MaxLen
        BY <1>4, <2>0, <2>1 DEF BudgetReq
      <3> QED
        BY <1>5, <2>1, <3>1, <3>2 DEF BudgetReq, NumTokens
    <2>2. CASE r \in Range(run) \ Range(o.queue)
      <3>1. /\ sch'[r].st = "preempted" /\ sch'[r].comp = 0 /\ sch'[r].ntok = sch[r].ntok
            /\ sch'[r].back
        BY <1>3, <2>2 DEF ScheduledReq
      <3>2. sch[r].ntok < MaxLen
        BY <1>2, <2>0, <2>2 DEF BudgetReq, Queues
      <3> QED
        BY <3>1, <3>2 DEF BudgetReq
    <2>3. CASE r \notin DOMAIN o.q /\ r \notin Range(run) \ Range(o.queue)
      <3>1. sch'[r] = sch[r]
        BY <1>3, <2>3 DEF ScheduledReq
      <3> QED
        BY <2>0, <3>1 DEF BudgetReq, NumTokens
    <2> QED
      BY <2>1, <2>2, <2>3
  <1>7. run' = o.queue /\ o.queue \in Seq(Reqs)
    BY <1>1, <1>2 DEF Scheduled, OutputOK
  <1>8. ASSUME NEW n \in DOMAIN o.queue
        PROVE  AheadFits(run, n)'
    <2>1. n \in Nat /\ \A j \in 1 .. n - 1 : j \in DOMAIN o.queue
      BY <1>7
    <2>2. /\ \A j \in 1 .. n - 1 : o.queue[j] \in DOMAIN o.q => o.q[o.queue[j]] = Left(o.queue[j])
          /\ Cardinality(Upto(Served(o), n - 1)) < MaxBatchedTokens
          /\ \A j \in DOMAIN o.queue : o.queue[j] \notin DOMAIN o.q => Left(o.queue[j]) = 0
      BY <1>1 DEF Afforded
    <2>3. \A r : Left(r)' = LeftOf(sch'[r])
      BY DEF Left, LeftOf
    <2>4. ASSUME NEW j \in DOMAIN o.queue, o.queue[j] \notin DOMAIN o.q
          PROVE  LeftOf(sch'[o.queue[j]]) = 0
      <3>1. PICK r \in Reqs : r = o.queue[j] /\ r \in Range(o.queue) /\ r \notin DOMAIN o.q
        BY <1>7, <2>4 DEF Range
      <3>2. sch'[r] = sch[r]
        BY <1>3, <3>1 DEF ScheduledReq
      <3>3. LeftOf(sch[r]) = 0
        BY <2>2, <3>1, LeftCases
      <3> QED
        BY <3>1, <3>2, <3>3
    <2>5. \A j \in 1 .. n - 1 : LeftOf(sch'[o.queue[j]]) <= 1
      <3>1. ASSUME NEW j \in 1 .. n - 1
            PROVE  LeftOf(sch'[o.queue[j]]) <= 1
        <4>1. CASE o.queue[j] \in DOMAIN o.q
          BY <1>5, <2>2, <4>1
        <4>2. CASE o.queue[j] \notin DOMAIN o.q
          BY <2>1, <2>4, <4>2
        <4> QED
          BY <4>1, <4>2
      <3> QED
        BY <3>1
    <2>6. PICK A : A = Upto(Needing(run)', n - 1)
      OBVIOUS
    <2>7. A \in SUBSET Upto(Served(o), n - 1)
      <3>1. ASSUME NEW j \in A
            PROVE  j \in DOMAIN o.queue /\ j <= n - 1 /\ o.queue[j] \in DOMAIN o.q
        <4>1. j \in DOMAIN o.queue /\ j <= n - 1 /\ LeftOf(sch'[o.queue[j]]) > 0
          BY <1>7, <2>3, <2>6 DEF Upto, Needing
        <4>2. o.queue[j] \in DOMAIN o.q
          BY <2>4, <4>1
        <4> QED
          BY <4>1, <4>2
      <3> QED
        BY <3>1 DEF Upto, Served
    <2>8. /\ IsFiniteSet(Upto(Served(o), n - 1)) /\ Cardinality(Upto(Served(o), n - 1)) \in Nat
      <3>1. Len(o.queue) \in Nat /\ Upto(Served(o), n - 1) \in SUBSET (1 .. Len(o.queue))
        BY <1>7 DEF Upto, Served
      <3> QED
        BY <3>1, FiniteWithin, FS_CardinalityType
    <2>9. Cardinality(A) \in Nat /\ Cardinality(A) <= Cardinality(Upto(Served(o), n - 1))
      BY <2>7, <2>8, FS_Subset, FS_CardinalityType
    <2>10. Cardinality(A) < MaxBatchedTokens
      BY <2>2, <2>8, <2>9, RunnerAssumption
    <2>11. \A j \in 1 .. n - 1 : Left(run[j])' <= 1
      BY <1>7, <2>3, <2>5
    <2>12. Cardinality(Upto(Needing(run)', n - 1)) < MaxBatchedTokens
      BY <2>6, <2>10
    <2> QED
      BY <2>11, <2>12 DEF AheadFits
  <1> QED
    BY <1>6, <1>7, <1>8 DEF Budgeted

\* When requests leave the running ones and no other gets more to do, the
\* others still need one token each and less than the budget.
LEMMA AheadRemoved ==
    ASSUME Queues, \A n \in DOMAIN run : AheadFits(run, n), NEW S, run' = RemoveAll(run, S),
           \A r \in Range(run) \ S : /\ Left(r) \in Int /\ LeftOf(sch'[r]) \in Int
                                     /\ LeftOf(sch'[r]) <= Left(r)
    PROVE  \A n \in DOMAIN run' : AheadFits(run, n)'
  <1>0. run \in Seq(Reqs) /\ Len(run) \in Nat /\ DOMAIN run = 1 .. Len(run)
    BY DEF Queues
  <1>k. PICK K : K = Cardinality(Kept(run, S))
    OBVIOUS
  <1>1. PICK f \in [1 .. K -> Kept(run, S)] :
           /\ K \in Nat
           /\ run' = [n \in 1 .. K |-> run[f[n]]]
           /\ \A m, n \in 1 .. K : m < n => f[m] < f[n]
    BY <1>0, <1>k, RemoveAllMap
  <1>2. DOMAIN run' = 1 .. K /\ \A n \in 1 .. K : run'[n] = run[f[n]]
    BY <1>1
  <1>3. \A n \in 1 .. K : f[n] \in DOMAIN run /\ f[n] \in Nat /\ run[f[n]] \in Range(run) \ S
    BY <1>0, <1>1 DEF Kept, Range
  <1>4. \A r : Left(r)' = LeftOf(sch'[r])
    BY DEF Left, LeftOf
  <1>5. ASSUME NEW n \in 1 .. K
        PROVE  AheadFits(run, n)'
    <2>1. \A j \in 1 .. n - 1 : j \in 1 .. K /\ f[j] < f[n] /\ f[j] \in 1 .. f[n] - 1
      <3>1. ASSUME NEW j \in 1 .. n - 1
            PROVE  j \in 1 .. K /\ f[j] < f[n] /\ f[j] \in 1 .. f[n] - 1
        <4>1. j \in 1 .. K /\ j < n
          BY <1>1
        <4>2. f[j] < f[n]
          BY <1>1, <4>1
        <4>3. f[j] \in 1 .. Len(run) /\ f[n] \in 1 .. Len(run)
          BY <1>0, <1>3, <4>1
        <4> QED
          BY <4>1, <4>2, <4>3, <1>0
      <3> QED
        BY <3>1
    <2>2. /\ \A j \in 1 .. f[n] - 1 : Left(run[j]) <= 1
          /\ Cardinality(Upto(Needing(run), f[n] - 1)) < MaxBatchedTokens
      BY <1>3 DEF AheadFits
    <2>3. ASSUME NEW j \in 1 .. n - 1
          PROVE  Left(run[j])' <= 1
      <3>1. PICK r : r = run[f[j]] /\ r = run'[j] /\ r \in Range(run) \ S
        BY <1>2, <1>3, <2>1
      <3>2. Left(r) <= 1
        BY <2>1, <2>2, <3>1
      <3>3. Left(r) \in Int /\ LeftOf(sch'[r]) \in Int /\ LeftOf(sch'[r]) <= Left(r)
        BY <3>1
      <3>4. LeftOf(sch'[r]) <= 1
        BY <3>2, <3>3
      <3> QED
        BY <1>4, <3>1, <3>4
    <2>4. PICK A, B : A = Upto(Needing(run)', n - 1) /\ B = Upto(Needing(run), f[n] - 1)
      OBVIOUS
    <2>5. ASSUME NEW j \in A
          PROVE  j \in 1 .. n - 1 /\ f[j] \in B
      <3>1. j \in 1 .. K /\ j <= n - 1 /\ LeftOf(sch'[run'[j]]) > 0
        BY <1>2, <1>4, <2>4 DEF Upto, Needing
      <3>2. j \in 1 .. n - 1
        BY <1>1, <3>1
      <3>3. PICK r : r = run[f[j]] /\ r = run'[j] /\ r \in Range(run) \ S
        BY <1>2, <1>3, <3>1
      <3>4. Left(r) > 0
        BY <3>1, <3>3
      <3>5. f[j] <= f[n] - 1 /\ f[j] \in DOMAIN run
        BY <1>3, <2>1, <3>1, <3>2
      <3> QED
        BY <2>4, <3>2, <3>3, <3>4, <3>5 DEF Upto, Needing
    <2>6. IsFiniteSet(B) /\ Cardinality(B) \in Nat
      <3>1. B \in SUBSET (1 .. Len(run))
        BY <1>0, <2>4 DEF Upto, Needing
      <3> QED
        BY <1>0, <3>1, FiniteWithin, FS_CardinalityType
    <2>7. Cardinality(A) <= Cardinality(B) /\ IsFiniteSet(A)
      <3>1. PICK g : g = [j \in A |-> f[j]]
        OBVIOUS
      <3>2. g \in [A -> B]
        BY <2>5, <3>1
      <3>3. ASSUME NEW i \in A, NEW j \in A, g[i] = g[j]
            PROVE  i = j
        <4>1. i \in 1 .. K /\ j \in 1 .. K /\ f[i] = f[j]
          BY <2>1, <2>5, <3>1, <3>3
        <4>2. ~(i < j) /\ ~(j < i)
          BY <1>0, <1>1, <1>3, <4>1
        <4> QED
          BY <1>1, <4>1, <4>2
      <3>4. g \in Injection(A, B)
        BY <3>2, <3>3 DEF Injection, IsInjective
      <3> QED
        BY <2>6, <3>4, FS_Injection
    <2>8. Cardinality(A) \in Nat
      BY <2>7, FS_CardinalityType
    <2>9. Cardinality(A) < MaxBatchedTokens
      BY <2>2, <2>4, <2>6, <2>7, <2>8, RunnerAssumption
    <2>10. Cardinality(Upto(Needing(run)', n - 1)) < MaxBatchedTokens
      BY <2>4, <2>9
    <2> QED
      BY <2>3, <2>10 DEF AheadFits
  <1> QED
    BY <1>2, <1>5

\* The same when nothing of the running requests changes.
LEMMA AheadKept ==
    ASSUME Queues, \A n \in DOMAIN run : AheadFits(run, n), run' = run,
           \A r \in Range(run) : sch'[r] = sch[r]
    PROVE  \A n \in DOMAIN run' : AheadFits(run, n)'
  <1>0. run \in Seq(Reqs) /\ Len(run) \in Nat /\ DOMAIN run = 1 .. Len(run)
    BY DEF Queues
  <1>1. \A i \in DOMAIN run : Left(run[i])' = Left(run[i])
    <2>1. \A r : Left(r)' = LeftOf(sch'[r]) /\ Left(r) = LeftOf(sch[r])
      BY DEF Left, LeftOf
    <2> QED
      BY <2>1 DEF Range
  <1>2. Needing(run)' = Needing(run)
    BY <1>1 DEF Needing
  <1>3. \A n \in DOMAIN run : \A j \in 1 .. n - 1 : j \in DOMAIN run
    BY <1>0
  <1>4. ASSUME NEW n \in DOMAIN run
        PROVE  AheadFits(run, n)'
    BY <1>1, <1>2, <1>3 DEF AheadFits
  <1> QED
    BY <1>4

\* A report takes requests from the queue, those that reach the limit among them.
LEMMA UpdateStops ==
    ASSUME Queues, inflight \in Seq(SUBSET Reqs), Update
    PROVE  /\ \E S : run' = RemoveAll(run, S) /\ \A r \in Reqs : r \in S => sch'[r].st = "done"
           /\ \A r \in Reqs : /\ r \in Head(inflight) /\ Live(r) /\ ~(Async /\ sch[r].discard)
                              /\ sch[r].ntok + 1 = MaxLen
                              => sch'[r].st = "done"
  <1> DEFINE got == {r \in Head(inflight) : Live(r)}
             s == [r \in Reqs |->
                   IF r \notin got THEN sch[r]
                   ELSE IF Async /\ sch[r].discard THEN [sch[r] EXCEPT !.discard = FALSE]
                   ELSE [sch[r] EXCEPT !.ntok = @ + 1, !.ph = IF Async THEN @ - 1 ELSE @]]
  <1>1. \E stop \in SUBSET {r \in got : s[r].ntok > sch[r].ntok} :
           /\ \A r \in got : s[r].ntok = MaxLen => r \in stop
           /\ Finish(s, stop)
    BY Zenon DEF Update
  <1>2. PICK S : /\ \A r \in got : s[r].ntok = MaxLen => r \in S
                 /\ Finish(s, S)
    BY <1>1, Zenon
  <1>3. ASSUME NEW r \in Reqs, r \in Head(inflight), Live(r), ~(Async /\ sch[r].discard)
        PROVE  r \in got /\ s[r].ntok = sch[r].ntok + 1
    <2>1. r \in got
      BY <1>3
    <2>2. s[r] = [sch[r] EXCEPT !.ntok = @ + 1, !.ph = IF Async THEN @ - 1 ELSE @]
      BY <1>3, <2>1
    <2>3. PICK x, p : x = sch[r] /\ p = IF Async THEN x.ph - 1 ELSE x.ph
      OBVIOUS
    <2>4. x \in Sched({x.blk})
      BY <2>3 DEF Queues, IsSched
    <2> HIDE DEF s, got
    <2>5. s[r] = [x EXCEPT !.ntok = x.ntok + 1, !.ph = p]
      BY <2>2, <2>3
    <2>6. s[r].ntok = x.ntok + 1
      BY <2>4, <2>5 DEF Sched
    <2> QED
      BY <2>1, <2>3, <2>6
  <1> HIDE DEF got, s
  <1>4. run' = RemoveAll(run, S) /\ finished' = finished \cup S
    BY <1>2 DEF Finish
  <1>5. \A r \in Reqs : r \in S => sch'[r].st = "done"
    <2>1. Queues'
      BY UpdateEffect
    <2> QED
      BY <1>4, <2>1 DEF Queues
  <1> QED
    BY <1>2, <1>3, <1>4, <1>5

\* A report leaves no request more to do.
LEMMA LeftReported ==
    ASSUME Async, Rowed, Counted, Budgeted, Update, NEW r \in Reqs, sch'[r].st # "done"
    PROVE  /\ BudgetReq(r)'
           /\ sch[r].st = "running" => /\ Left(r) \in Nat /\ LeftOf(sch'[r]) \in Int
                                       /\ LeftOf(sch'[r]) <= Left(r)
           /\ LeftOf(sch'[r]) > 0 /\ sch'[r].st = "running" => sch[r].st = "running" /\ Left(r) > 0
  <1>0. Queues /\ inflight \in Seq(SUBSET Reqs)
    BY DEF Rowed
  <1>1. UpdatedReq(r)
    BY <1>0, UpdateEffect
  <1>2. sch[r].st # "done"
    BY <1>1 DEF UpdatedReq, Live
  <1>3. /\ sch[r].ntok \in Nat /\ sch[r].ph \in Nat /\ sch[r].comp \in Nat /\ Left(r) \in Nat
    BY <1>2, LeftValue
  <1>4. BudgetReq(r) /\ ~sch[r].discard
    BY <1>2 DEF Budgeted, Counted, CountedReq
  <1>5. Left(r) = LeftOf(sch[r])
    BY LeftCases
  <1>6. CASE ~(r \in Head(inflight) /\ Live(r))
    <2>1. sch'[r] = sch[r]
      BY <1>1, <1>6 DEF UpdatedReq
    <2> QED
      BY <1>3, <1>4, <1>5, <2>1 DEF BudgetReq, NumTokens
  <1>7. CASE r \in Head(inflight) /\ Live(r)
    <2>1. /\ sch'[r].ntok = sch[r].ntok + 1 /\ sch'[r].ph = sch[r].ph - 1
          /\ sch'[r].st = sch[r].st /\ sch'[r].comp = sch[r].comp /\ sch'[r].back = sch[r].back
      BY <1>1, <1>4, <1>7 DEF UpdatedReq
    <2>2. sch[r].ntok + 1 # MaxLen
      BY <1>0, <1>4, <1>7, UpdateStops
    <2>3. sch[r].st # "new"
      BY <1>7 DEF Live
    <2>4. PICK n \in Nat, p \in Nat, c \in Nat, M \in Nat :
             /\ n = sch[r].ntok /\ p = sch[r].ph /\ c = sch[r].comp /\ M = MaxLen
             /\ n < M /\ n + 1 # M
      BY <1>2, <1>3, <1>4, <2>2, <2>3, RunnerAssumption DEF BudgetReq
    <2>5. n + 1 < M /\ n + 1 + (p - 1) = n + p
      BY <2>4
    <2>6. BudgetReq(r)'
      BY <1>2, <1>4, <2>1, <2>3, <2>4, <2>5 DEF BudgetReq, NumTokens
    <2>7. CASE sch[r].st = "running"
      <3>1. c < n + p
        BY <1>4, <2>4, <2>7 DEF BudgetReq, NumTokens
      <3>2. PICK a, b : a = Left(r) /\ b = LeftOf(sch'[r])
        OBVIOUS
      <3>3. a = IF p > 0 /\ c + 2 - p >= M THEN 0 ELSE n + p - c
        BY <1>5, <2>4, <2>7, <3>2 DEF LeftOf
      <3>4. b = IF p - 1 > 0 /\ c + 2 - (p - 1) >= M THEN 0 ELSE (n + 1) + (p - 1) - c
        BY <2>1, <2>4, <2>7, <3>2 DEF LeftOf
      <3>5. b \in Int /\ b <= a
        BY ONLY <2>4, <2>5, <3>1, <3>3, <3>4, n \in Nat, p \in Nat, c \in Nat, M \in Nat
      <3> QED
        BY <1>3, <2>6, <2>7, <3>2, <3>5
    <2> QED
      BY <2>1, <2>6, <2>7
  <1> QED
    BY <1>6, <1>7

\* Every action keeps to the budget when scheduling is asynchronous and nothing
\* is reset.
LEMMA BudgetedNext ==
    ASSUME Async, ~Resets, Rowed, Counted, Budgeted, [Next]_vars
    PROVE  Budgeted'
  <1>0. /\ Queues /\ inflight \in Seq(SUBSET Reqs)
        /\ \A r \in Reqs : BudgetReq(r)
        /\ \A n \in DOMAIN run : AheadFits(run, n)
    BY DEF Rowed, Budgeted
  <1>r. \A r \in Range(run) : r \in Reqs /\ sch[r].st = "running"
    BY <1>0 DEF Queues, Range
  <1>1. CASE Step
    BY <1>1, BudgetedStep
  <1>2. CASE Update
    <2>1. PICK S : run' = RemoveAll(run, S) /\ \A r \in Reqs : r \in S => sch'[r].st = "done"
      BY <1>0, <1>2, UpdateStops
    <2>2. /\ Queues' /\ \A r \in Reqs : UpdatedReq(r)
      BY <1>0, <1>2, UpdateEffect
    <2>3. \A r \in Reqs : BudgetReq(r)'
      <3>1. ASSUME NEW r \in Reqs
            PROVE  BudgetReq(r)'
        <4>1. CASE sch'[r].st = "done"
          BY <4>1 DEF BudgetReq
        <4>2. CASE sch'[r].st # "done"
          BY <1>2, <4>2, LeftReported
        <4> QED
          BY <4>1, <4>2
      <3> QED
        BY <3>1
    <2>4. Range(run') = Range(run) \ S
      BY <1>0, <2>1, RemoveAllProperties DEF Queues
    <2>5. ASSUME NEW r \in Range(run) \ S
          PROVE  /\ Left(r) \in Int /\ LeftOf(sch'[r]) \in Int
                 /\ LeftOf(sch'[r]) <= Left(r)
      <3>1. sch'[r].st = "running" /\ r \in Reqs /\ sch[r].st = "running"
        BY <1>r, <2>2, <2>4, <2>5 DEF Queues
      <3> QED
        BY <1>2, <3>1, LeftReported
    <2>6. \A n \in DOMAIN run' : AheadFits(run, n)'
      BY <1>0, <2>1, <2>5, AheadRemoved
    <2> QED
      BY <2>3, <2>6 DEF Budgeted
  <1>3. ASSUME NEW r \in Reqs, NEW m \in Prompts, AddRequest(r, m)
        PROVE  Budgeted'
    <2>1. /\ sch[r].st = "new" /\ sch'[r].st = "waiting" /\ sch'[r].comp = sch[r].comp
          /\ sch'[r].ntok = m /\ run' = run /\ \A q \in Reqs \ {r} : sch'[q] = sch[q]
      BY <1>0, <1>3, AddRequestEffect
    <2>2. m < MaxLen
      BY RunnerAssumption
    <2>3. \A q \in Reqs : BudgetReq(q)'
      BY <1>0, <2>1, <2>2 DEF BudgetReq, NumTokens
    <2>4. \A n \in DOMAIN run' : AheadFits(run, n)'
      <3>1. \A q \in Range(run) : sch'[q] = sch[q]
        BY <1>r, <2>1
      <3> QED
        BY <1>0, <2>1, <3>1, AheadKept
    <2> QED
      BY <2>3, <2>4 DEF Budgeted
  <1>4. ASSUME NEW r \in Reqs, Abort(r)
        PROVE  Budgeted'
    <2>1. /\ sch'[r].st = "done" /\ \A q \in Reqs \ {r} : sch'[q] = sch[q]
      BY <1>0, <1>4, AbortEffect
    <2>2. run' = RemoveAll(run, {r})
      BY <1>4 DEF Abort, Finish
    <2>3. \A q \in Reqs : BudgetReq(q)'
      BY <1>0, <2>1 DEF BudgetReq, NumTokens
    <2>4. ASSUME NEW q \in Range(run) \ {r}
          PROVE  /\ Left(q) \in Int /\ LeftOf(sch'[q]) \in Int
                 /\ LeftOf(sch'[q]) <= Left(q)
      <3>1. q \in Reqs /\ sch[q].st = "running" /\ sch'[q] = sch[q]
        BY <1>r, <2>1, <2>4
      <3>2. Left(q) \in Nat
        BY <3>1, LeftValue
      <3>3. LeftOf(sch'[q]) = Left(q)
        BY <3>1, LeftCases
      <3> QED
        BY <3>2, <3>3
    <2>5. \A n \in DOMAIN run' : AheadFits(run, n)'
      BY <1>0, <2>2, <2>4, AheadRemoved
    <2> QED
      BY <2>3, <2>5 DEF Budgeted
  <1>5. CASE Reset
    BY <1>0, <1>5, ResetEffect
  <1>6. CASE UNCHANGED vars
    <2>1. run' = run /\ sch' = sch
      BY <1>6 DEF vars, schedulerVars
    <2>2. \A q \in Reqs : BudgetReq(q)'
      BY <1>0, <2>1 DEF BudgetReq, NumTokens
    <2>3. \A n \in DOMAIN run' : AheadFits(run, n)'
      BY <1>0, <2>1, AheadKept
    <2> QED
      BY <2>2, <2>3 DEF Budgeted
  <1> QED
    BY <1>1, <1>2, <1>3, <1>4, <1>5, <1>6 DEF Next

\* Nothing runs at first, so nothing exceeds the budget.
LEMMA BudgetedInit == Init => Budgeted
  <1> SUFFICES ASSUME Init PROVE Budgeted
    OBVIOUS
  <1>1. run = <<>> /\ DOMAIN run = {}
    BY DEF Init
  <1>2. \A r \in Reqs : sch[r].st = "new" /\ sch[r].comp = 0
    BY DEF Init
  <1> QED
    BY <1>1, <1>2 DEF Budgeted, BudgetReq

-----------------------------------------------------------------------------
(* Asynchronous scheduling gives a request that was never preempted its tokens *)

\* The n tokens of a request, the last of them on the device if P has the request.
Known(toks, r, n, P) ==
    /\ IsList(toks) /\ Len(toks) = n
    /\ \A i \in 1 .. n : toks[i] = Token(r, i) \/ (i = n /\ r \in P)

\* What is kept of a request that was never preempted and has tokens left: a
\* token on the device is the only one it has left, and its last.
TokenedReq(r) ==
    sch[r].st = "running" /\ ~sch[r].back /\ Left(r) > 0 =>
        LET n == Len(cache[r].toks)
        IN /\ Known(cache[r].toks, r, n, DOMAIN pre)
           /\ \A x \in Range(rows) : x.req = r => Known(x.toks, r, n, DOMAIN pre)
           /\ r \in DOMAIN pre => pre[r] = Token(r, n) /\ sch[r].comp = n - 1

Tokened == (\A r \in Reqs : TokenedReq(r)) /\ UnpreemptedExact

\* The token of a position that was not sampled by the step before.
Settled(toks, r, n) ==
    IsList(toks) /\ Len(toks) = n /\ \A i \in 1 .. n : toks[i] = Token(r, i)

\* What a step that schedules r is given of it.
Supplied(r, k, n, toks) ==
    /\ k \in Nat /\ n \in Nat /\ k <= n
    /\ Known(toks, r, n, DOMAIN pre)
    /\ r \in DOMAIN pre => pre[r] = Token(r, n) /\ k = n - 1

\* The cached tokens of a request that a step schedules,
LEMMA TokenedCache ==
    ASSUME Async, Rowed, Counted, Budgeted, Tokened, Len(inflight) < 2, NEW o, OutputOK(o),
           NEW r \in DOMAIN o.q, ~sch[r].back
    PROVE  /\ r \in Reqs /\ sch[r].st \in {"waiting", "running"}
           /\ r \in DOMAIN UpdatedCache(o) /\ UpdatedCache(o)[r].comp = sch[r].comp
           /\ IsCached(UpdatedCache(o)[r])
           /\ Supplied(r, sch[r].comp, NumTokens(r), UpdatedCache(o)[r].toks)
           /\ sch[r].comp + o.q[r] <= NumTokens(r)
           /\ sch[r].st = "running" => /\ Len(cache[r].toks) = NumTokens(r) /\ Left(r) > 0
  <1>0. Queues /\ inflight \in Seq(SUBSET Reqs) /\ Len(inflight) < IF Async THEN 2 ELSE 1
    BY DEF Rowed
  <1>1. PICK c : c = UpdatedCache(o)
    OBVIOUS
  <1>2. /\ r \in Reqs /\ r \in DOMAIN c /\ IsCached(c[r]) /\ c[r].comp = sch[r].comp
        /\ Len(c[r].toks) = NumTokens(r)
        /\ sch[r].st = "waiting" => c[r].toks = Own(r, 0, sch[r].ntok)
        /\ sch[r].st # "waiting" => c[r].toks = cache[r].toks
    <2>1. CacheUpdated(o, c)
      BY <1>0, <1>1, UpdatedCacheProperties
    <2> QED
      BY <2>1 DEF CacheUpdated
  <1>3. sch[r].st \in {"waiting", "running"}
    <2>1. sch[r].st \in {"waiting", "running", "preempted"}
      BY <1>0, QueuedState DEF OutputOK
    <2>2. sch[r].st # "preempted"
      BY <1>2 DEF Budgeted, BudgetReq
    <2> QED
      BY <2>1, <2>2
  <1>4. /\ sch[r].ntok \in Nat /\ sch[r].ph \in Nat /\ sch[r].comp \in Nat /\ Left(r) \in Nat
        /\ sch[r].ph = Cardinality(In(inflight, r))
        /\ sch[r].st # "running" => sch[r].comp = 0 /\ Left(r) = sch[r].ntok
        /\ sch[r].st = "running" =>
              Left(r) = 0 \/ Left(r) = sch[r].ntok + sch[r].ph - sch[r].comp
    BY <1>2, <1>3, LeftValue
  <1>5. o.q[r] \in Nat \ {0} /\ o.q[r] <= Left(r)
    BY DEF OutputOK
  <1>6. Left(r) > 0
    BY <1>4, <1>5
  <1>7. PICK n \in Nat, k \in Nat : n = NumTokens(r) /\ k = sch[r].comp
    BY <1>4 DEF NumTokens
  <1>8. k + o.q[r] <= n /\ k <= n
    <2>1. PICK a \in Nat, p \in Nat, l \in Nat, q \in Nat :
             /\ a = sch[r].ntok /\ p = sch[r].ph /\ l = Left(r) /\ q = o.q[r]
             /\ n = a + p
      BY <1>4, <1>5, <1>7 DEF NumTokens
    <2>2. (k = 0 /\ l = a) \/ l = a + p - k
      BY <1>3, <1>4, <1>6, <1>7, <2>1
    <2>3. q <= l
      BY <1>5, <2>1
    <2>4. n = a + p
      BY <2>1
    <2>5. k + q <= n /\ k <= n
      <3>1. CASE k = 0 /\ l = a
        BY ONLY <3>1, <2>3, <2>4, k \in Nat, q \in Nat, l \in Nat, n \in Nat, a \in Nat, p \in Nat
      <3>2. CASE l = a + p - k
        BY ONLY <3>2, <2>3, <2>4, k \in Nat, q \in Nat, l \in Nat, n \in Nat, a \in Nat, p \in Nat
      <3> QED
        BY <2>2, <3>1, <3>2
    <2> QED
      BY <2>1, <2>5
  <1>9. Known(c[r].toks, r, n, DOMAIN pre) /\ (r \in DOMAIN pre => pre[r] = Token(r, n) /\ k = n - 1)
    <2>1. CASE sch[r].st = "running"
      BY <1>2, <1>6, <1>7, <2>1 DEF Tokened, TokenedReq
    <2>2. CASE sch[r].st = "waiting"
      <3>1. /\ Cardinality(In(inflight, r)) = 0 /\ r \notin DOMAIN pre
        BY <1>2, <2>2 DEF Counted, CountedReq
      <3>2. n = sch[r].ntok
        BY <1>4, <1>7, <3>1 DEF NumTokens
      <3>3. /\ IsList(Own(r, 0, n)) /\ Len(Own(r, 0, n)) = n
            /\ \A p \in 1 .. n : Own(r, 0, n)[p] = Token(r, p)
        BY OwnToken
      <3> QED
        BY <1>2, <2>2, <3>1, <3>2, <3>3 DEF Known
    <2> QED
      BY <1>3, <2>1, <2>2
  <1>10. Supplied(r, k, n, c[r].toks)
    BY <1>8, <1>9 DEF Supplied
  <1> QED
    BY <1>1, <1>2, <1>3, <1>6, <1>7, <1>8, <1>10

\* and those of its row.
LEMMA TokenedRow ==
    ASSUME Async, Rowed, Batched, Counted, Budgeted, Tokened, Len(inflight) < 2,
           NEW o, OutputOK(o), NEW x \in Range(Prepared(o).rows), ~sch[x.req].back
    PROVE  /\ x.comp = sch[x.req].comp
           /\ Supplied(x.req, sch[x.req].comp, NumTokens(x.req), x.toks)
  <1>0. Queues
    BY DEF Rowed
  <1>1. PICK c, r : c = UpdatedCache(o) /\ r = x.req
    OBVIOUS
  <1>2. /\ r \in DOMAIN o.q
        /\ \/ \E y \in Range(rows) : y.req = r /\ x = OldRow(y, o)
           \/ x = NewRow(c, r)
    BY <1>0, <1>1, PreparedRow
  <1>3. /\ r \in Reqs /\ sch[r].st \in {"waiting", "running"}
        /\ c[r].comp = sch[r].comp
        /\ Supplied(r, sch[r].comp, NumTokens(r), c[r].toks)
        /\ sch[r].st = "running" => Len(cache[r].toks) = NumTokens(r) /\ Left(r) > 0
    BY <1>1, <1>2, TokenedCache
  <1>4. CASE x = NewRow(c, r)
    <2>1. x.toks = c[r].toks /\ x.comp = c[r].comp
      BY <1>4 DEF NewRow
    <2> QED
      BY <1>1, <1>3, <2>1
  <1>5. ASSUME NEW y \in Range(rows), y.req = r, x = OldRow(y, o)
        PROVE  x.comp = sch[r].comp /\ Supplied(r, sch[r].comp, NumTokens(r), x.toks)
    <2>1. x.toks = Cut(y.toks, r) /\ x.comp = sch[r].comp
      BY <1>5 DEF OldRow
    <2>2. sch[r].st = "running"
      BY <1>3, <1>5 DEF Batched
    <2>3. Known(y.toks, r, NumTokens(r), DOMAIN pre)
      BY <1>1, <1>3, <1>5, <2>2 DEF Tokened, TokenedReq
    <2>4. Cut(y.toks, r) = y.toks
      BY <2>3, CutWhole DEF Known
    <2> QED
      BY <1>3, <2>1, <2>3, <2>4 DEF Supplied
  <1> QED
    BY <1>1, <1>2, <1>4, <1>5

\* So the ids that a step runs for it are its own tokens.
LEMMA TokenedInputs ==
    ASSUME Async, Rowed, Batched, Counted, Budgeted, Tokened, Len(inflight) < 2,
           NEW o, OutputOK(o), NEW r \in DOMAIN o.q, ~sch[r].back, NEW rs, rs = Prepared(o).rows
    PROVE  /\ Inputs(rs, o.q, r) = Own(r, sch[r].comp, sch[r].comp + o.q[r])
           /\ RowOf(rs, r).comp = sch[r].comp
  <1>1. Queues
    BY DEF Rowed
  <1>2. PICK row : row = RowOf(rs, r)
    OBVIOUS
  <1>3. row \in Range(rs) /\ row.req = r
    BY <1>1, <1>2, RowOfProperties
  <1>4. PICK k \in Nat, n \in Nat, a \in Nat :
           k = o.q[r] /\ n = NumTokens(r) /\ a = sch[r].comp /\ a + k <= n /\ k # 0
    <2>1. sch[r].comp + o.q[r] <= NumTokens(r) /\ Supplied(r, sch[r].comp, NumTokens(r), UpdatedCache(o)[r].toks)
      BY TokenedCache
    <2>2. o.q[r] \in Nat \ {0}
      BY DEF OutputOK
    <2> QED
      BY <2>1, <2>2 DEF Supplied
  <1>5. row.comp = a /\ Supplied(r, a, n, row.toks)
    BY <1>3, <1>4, TokenedRow
  <1>6. Inputs(rs, o.q, r) =
           [i \in 1 .. k |-> IF a + i = a + k /\ r \in DOMAIN pre THEN pre[r]
                             ELSE IF a + i \in DOMAIN row.toks THEN row.toks[a + i] ELSE Stale]
    BY <1>2, <1>4, <1>5, Zenon DEF Inputs
  <1>7. \A i \in 1 .. k : a + i \in 1 .. n
    BY ONLY <1>4, a \in Nat, k \in Nat, n \in Nat
  <1>8. DOMAIN row.toks = 1 .. n
        /\ \A i \in 1 .. n : row.toks[i] = Token(r, i) \/ (i = n /\ r \in DOMAIN pre)
    BY <1>5 DEF Supplied, Known, IsList
  <1>9. r \in DOMAIN pre => pre[r] = Token(r, n) /\ a = n - 1
    BY <1>5 DEF Supplied
  <1>10. ASSUME NEW i \in 1 .. k
         PROVE  (IF a + i = a + k /\ r \in DOMAIN pre THEN pre[r]
                 ELSE IF a + i \in DOMAIN row.toks THEN row.toks[a + i] ELSE Stale) = Token(r, a + i)
    <2>1. a + i \in 1 .. n
      BY <1>7
    <2>2. CASE r \in DOMAIN pre
      <3>1. a + i = n /\ a + i = a + k
        BY <1>4, <1>9, <2>1, <2>2, SMTT(30)
      <3> QED
        BY <1>9, <2>2, <3>1
    <2>3. CASE r \notin DOMAIN pre
      <3>1. row.toks[a + i] = Token(r, a + i) /\ a + i \in DOMAIN row.toks
        BY <1>8, <2>1, <2>3
      <3> QED
        BY <2>3, <3>1
    <2> QED
      BY <2>2, <2>3
  <1>11. Inputs(rs, o.q, r) = [i \in 1 .. k |-> Token(r, a + i)]
    BY <1>6, <1>10
  <1>12. Own(r, a, a + k) = [i \in 1 .. k |-> Token(r, a + i)]
    <2>1. a \in Int
      OBVIOUS
    <2>2. /\ Own(r, a, a + k) = [i \in 1 .. k |-> Token(r, a + i)]
          /\ IsList(Own(r, a, a + k)) /\ Len(Own(r, a, a + k)) = k
      BY <2>1, OwnProperties, ZenonT(60) DEF IsList
    <2> QED
      BY <2>2
  <1> QED
    BY <1>2, <1>4, <1>5, <1>11, <1>12

\* The token that comes from the device is the one the placeholder stands for,
LEMMA PutSettles ==
    ASSUME NEW r, NEW k, NEW n, NEW toks, Supplied(r, k, n, toks),
           NEW t, t = IF r \in DOMAIN pre THEN SetLast(toks, pre[r]) ELSE toks
    PROVE  Settled(t, r, n)
  <1>1. /\ k \in Nat /\ n \in Nat /\ IsList(toks) /\ Len(toks) = n
        /\ \A i \in 1 .. n : toks[i] = Token(r, i) \/ (i = n /\ r \in DOMAIN pre)
        /\ r \in DOMAIN pre => pre[r] = Token(r, n) /\ k = n - 1
    BY DEF Supplied, Known
  <1>2. CASE r \in DOMAIN pre
    <2>1. t = SetLast(toks, pre[r]) /\ pre[r] = Token(r, n) /\ n \in 1 .. n
      BY <1>1, <1>2
    <2>2. IsList(t) /\ Len(t) = n
      BY <1>1, <2>1, ListSetLast
    <2>5. PICK x : x = pre[r]
      OBVIOUS
    <2>6. t = [toks EXCEPT ![n] = x] /\ x = Token(r, n)
      BY <1>1, <2>1, <2>5 DEF SetLast
    <2>7. DOMAIN toks = 1 .. n
      BY <1>1 DEF IsList
    <2>8. toks = [i \in 1 .. n |-> toks[i]]
      BY <1>1 DEF IsList
    <2>3. t[n] = Token(r, n) /\ \A i \in 1 .. n : i # n => t[i] = toks[i]
      BY ONLY <2>1, <2>6, <2>7, <2>8, n \in Nat
    <2>4. \A i \in 1 .. n : t[i] = Token(r, i)
      BY <1>1, <2>3
    <2> QED
      BY <2>2, <2>4 DEF Settled
  <1>3. CASE r \notin DOMAIN pre
    BY <1>1, <1>3 DEF Settled
  <1> QED
    BY <1>2, <1>3

\* and the one that takes its place stands for the next token.
LEMMA AppendSettled ==
    ASSUME NEW r, NEW n \in Nat, NEW t, Settled(t, r, n), NEW z, NEW u, u = Append(t, z),
           NEW P, r \in P
    PROVE  Known(u, r, n + 1, P)
  <1>1. IsList(t) /\ Len(t) = n /\ \A i \in 1 .. n : t[i] = Token(r, i)
    BY DEF Settled
  <1>2. IsList(u) /\ Len(u) = n + 1
    BY <1>1, ListAppend
  <1>3. \A i \in 1 .. n : u[i] = t[i]
    BY <1>1 DEF IsList
  <1>4. \A i \in 1 .. n + 1 : i \in 1 .. n \/ i = n + 1
    OBVIOUS
  <1> QED
    BY <1>1, <1>2, <1>3, <1>4 DEF Known

\* After the step a request has its tokens and at most one that is on the device.
LEMMA KnownAfter ==
    ASSUME NEW r, NEW n \in Nat, NEW t, Settled(t, r, n), NEW z, NEW S,
           NEW u, u = IF r \in S THEN Append(t, z) ELSE t, r \in S => r \in DOMAIN pre'
    PROVE  /\ r \in S => Known(u, r, n + 1, DOMAIN pre')
           /\ r \notin S => Known(u, r, n, DOMAIN pre')
  <1>1. CASE r \in S
    <2>1. u = Append(t, z)
      BY <1>1
    <2> QED
      BY <1>1, <2>1, AppendSettled, Zenon
  <1>2. CASE r \notin S
    BY <1>2 DEF Known, Settled
  <1> QED
    BY <1>1, <1>2

\* So the step keeps its cached tokens and those of its row.
LEMMA TokenedAfter ==
    ASSUME Async, Rowed, Batched, Counted, Budgeted, Tokened, Len(inflight) < 2,
           NEW o, OutputOK(o), Stepped(o), NEW r \in DOMAIN o.q, ~sch[r].back
    PROVE  \E m \in Nat :
              /\ Known(cache'[r].toks, r, m, DOMAIN pre')
              /\ \A x \in Range(rows') : x.req = r => Known(x.toks, r, m, DOMAIN pre')
              /\ r \in DOMAIN pre' => pre'[r] = Token(r, m) /\ sch[r].comp + o.q[r] = m - 1
  <1>0. Queues
    BY DEF Rowed
  <1>1. PICK c, rs : c = UpdatedCache(o) /\ rs = Prepared(o).rows
    OBVIOUS
  <1>2. /\ r \in DOMAIN c /\ c[r].comp = sch[r].comp /\ IsCached(c[r])
        /\ Supplied(r, sch[r].comp, NumTokens(r), c[r].toks)
        /\ sch[r].comp + o.q[r] <= NumTokens(r)
    BY <1>1, TokenedCache
  <1>3. PICK n \in Nat, a \in Nat, k \in Nat :
           n = NumTokens(r) /\ a = sch[r].comp /\ k = o.q[r] /\ a + k <= n /\ Len(c[r].toks) = n
    BY <1>2 DEF Supplied, Known, OutputOK
  <1>4. /\ cache' = Placeholders(rs, c, o.q).cache
        /\ rows' = Placeholders(rs, c, o.q).rows
        /\ pre' = Placeholders(rs, c, o.q).pre
    BY <1>1, StepSampled
  <1>5. PICK S, R : S = Sampled(c, o.q) /\ R = Replaced(rs)
    OBVIOUS
  <1>6. /\ r \in R <=> r \in DOMAIN pre
        /\ r \in S <=> a + k = n
    <2>1. r \in R <=> r \in DOMAIN pre
      BY <1>0, <1>1, <1>5, ReplacedScheduled
    <2>2. r \in S <=> a + k >= n
      BY <1>2, <1>3, <1>5 DEF Sampled
    <2>3. a + k >= n <=> a + k = n
      BY <1>3
    <2> QED
      BY <2>1, <2>2, <2>3
  <1>7. /\ DOMAIN pre' = S
        /\ r \in S => pre'[r] = Token(r, n + 1)
    <2>1. pre' = [p \in S |-> Token(p, Len(c[p].toks) + 1)]
      BY <1>4, <1>5, Zenon DEF Placeholders
    <2> QED
      BY <1>3, <2>1
  <1>8. PICK m \in Nat : m = IF r \in S THEN n + 1 ELSE n
    OBVIOUS
  <1>9. Known(cache'[r].toks, r, m, DOMAIN pre')
    <2>1. PICK t : /\ t = IF r \in R THEN SetLast(c[r].toks, pre[r]) ELSE c[r].toks
                   /\ cache'[r].toks = IF r \in S THEN Append(t, Zero) ELSE t
      BY <1>2, <1>4, <1>5, PlaceholderCache
    <2>2. Settled(t, r, n)
      BY <1>2, <1>3, <1>6, <2>1, PutSettles
    <2>3. PICK u : u = cache'[r].toks
      OBVIOUS
    <2>4. /\ r \in S => Known(u, r, n + 1, DOMAIN pre')
          /\ r \notin S => Known(u, r, n, DOMAIN pre')
      BY <1>7, <2>1, <2>2, <2>3, KnownAfter
    <2> QED
      BY <1>8, <2>3, <2>4
  <1>10. ASSUME NEW x \in Range(rows'), x.req = r
         PROVE  Known(x.toks, r, m, DOMAIN pre')
    <2>1. Batch(rs) /\ Hole \notin Range(rs)
      BY <1>0, <1>1, PreparedProperties
    <2>2. PICK g : g = [i \in DOMAIN rs |-> SetLast(rs[i].toks, pre[rs[i].req])]
      OBVIOUS
    <2>3. PICK d : /\ Mapped(rs, R, g, d)
                   /\ Mapped(d, S, [i \in DOMAIN d |-> Append(d[i].toks, Stale)], rows')
      BY <1>4, <1>5, <2>2, PlaceholderRows
    <2>4. /\ SameRows(rs, d)
          /\ \A i \in DOMAIN rs : d[i].toks = IF rs[i].req \in R THEN g[i] ELSE rs[i].toks
      BY <2>1, <2>3, MappedProperties
    <2>5. Batch(d) /\ Hole \notin Range(d)
      BY <2>1, <2>4, SameRowsKept
    <2>6. PICK h : h = [i \in DOMAIN d |-> Append(d[i].toks, Stale)]
      OBVIOUS
    <2>7. /\ SameRows(d, rows')
          /\ \A i \in DOMAIN d : rows'[i].toks = IF d[i].req \in S THEN h[i] ELSE d[i].toks
      <3>1. PICK rw : rw = rows'
        OBVIOUS
      <3>2. Mapped(d, S, h, rw)
        BY <2>3, <2>6, <3>1
      <3>3. SameRows(d, rw)
        BY ONLY <2>5, <3>2, MappedProperties
      <3>4. ASSUME NEW i \in DOMAIN d
            PROVE  rw[i].toks = IF d[i].req \in S THEN h[i] ELSE d[i].toks
        BY ONLY <2>5, <3>2, i \in DOMAIN d, MappedProperties
      <3> QED
        BY <3>1, <3>3, <3>4
    <2>8. PICK i \in DOMAIN rs : x = rows'[i] /\ rs[i].req = r /\ d[i].req = r /\ i \in DOMAIN d
      BY <1>10, <2>4, <2>7 DEF SameRows, Range
    <2>9. PICK y, t, u : y = rs[i] /\ t = d[i].toks /\ u = x.toks
      OBVIOUS
    <2>10. y \in Range(rs) /\ y.req = r
      BY <2>8, <2>9 DEF Range
    <2>11. Supplied(r, a, n, y.toks)
      BY <1>1, <1>3, <2>10, TokenedRow
    <2>12. t = IF r \in DOMAIN pre THEN SetLast(y.toks, pre[r]) ELSE y.toks
      BY <1>6, <2>2, <2>4, <2>8, <2>9
    <2>13. u = IF r \in S THEN Append(t, Stale) ELSE t
      BY <2>6, <2>7, <2>8, <2>9
    <2>14. Settled(t, r, n)
      BY <2>11, <2>12, PutSettles
    <2>15. /\ r \in S => Known(u, r, n + 1, DOMAIN pre')
           /\ r \notin S => Known(u, r, n, DOMAIN pre')
      BY <1>7, <2>13, <2>14, KnownAfter
    <2> QED
      BY <1>8, <2>9, <2>15
  <1>11. r \in DOMAIN pre' => pre'[r] = Token(r, m) /\ a + k = m - 1
    BY <1>6, <1>7, <1>8
  <1> QED
    BY <1>3, <1>9, <1>10, <1>11

\* An asynchronous step keeps the tokens of the requests never preempted.
LEMMA TokenedStep ==
    ASSUME Async, Rowed, Counted, Budgeted, Tokened, Step
    PROVE  Tokened'
  <1>1. PICK o : OutputOK(o) /\ Stepped(o) /\ Afforded(o)
    BY StepStepped, OutputAfforded DEF Rowed
  <1>2. /\ Queues /\ inflight \in Seq(SUBSET Reqs) /\ Batched
        /\ Scheduled(o) /\ Len(inflight) < 2
    BY <1>1, Zenon DEF Rowed, Counted, Stepped
  <1>3. Queues' /\ \A r \in Reqs : ScheduledReq(o, r)
    BY <1>1, <1>2, ScheduledEffect
  <1>4. DOMAIN o.q \subseteq Reqs
    BY <1>1, <1>2, QueuedState DEF OutputOK
  <1>5. ASSUME NEW r \in Reqs, sch'[r].st = "running", ~sch'[r].back, LeftOf(sch'[r]) > 0
        PROVE  r \in DOMAIN o.q /\ ~sch[r].back /\ sch'[r].comp = sch[r].comp + o.q[r]
    <2>1. r \in Range(o.queue)
      <3>1. r \in Range(run')
        BY <1>3, <1>5 DEF Queues
      <3> QED
        BY <1>2, <3>1 DEF Scheduled
    <2>2. r \in DOMAIN o.q
      <3> SUFFICES ASSUME r \notin DOMAIN o.q PROVE FALSE
        OBVIOUS
      <3>1. sch'[r] = sch[r]
        BY <1>3, <2>1 DEF ScheduledReq
      <3>2. Left(r) = 0
        BY <1>1, <2>1 DEF Afforded, Range
      <3>3. LeftOf(sch[r]) = 0
        BY <3>2, LeftCases
      <3> QED
        BY <1>5, <3>1, <3>3
    <2> QED
      BY <1>3, <1>5, <2>2 DEF ScheduledReq
  <1>6. ASSUME NEW r \in Reqs
        PROVE  TokenedReq(r)'
    <2>1. ASSUME sch'[r].st = "running", ~sch'[r].back, LeftOf(sch'[r]) > 0
          PROVE  LET n == Len(cache'[r].toks)
                 IN /\ Known(cache'[r].toks, r, n, DOMAIN pre')
                    /\ \A x \in Range(rows') : x.req = r => Known(x.toks, r, n, DOMAIN pre')
                    /\ r \in DOMAIN pre' => pre'[r] = Token(r, n) /\ sch'[r].comp = n - 1
      <3>1. r \in DOMAIN o.q /\ ~sch[r].back /\ sch'[r].comp = sch[r].comp + o.q[r]
        BY <1>5, <2>1
      <3>2. PICK m \in Nat :
              /\ Known(cache'[r].toks, r, m, DOMAIN pre')
              /\ \A x \in Range(rows') : x.req = r => Known(x.toks, r, m, DOMAIN pre')
              /\ r \in DOMAIN pre' => pre'[r] = Token(r, m) /\ sch[r].comp + o.q[r] = m - 1
        BY <1>1, <1>2, <3>1, TokenedAfter
      <3>3. Len(cache'[r].toks) = m
        BY <3>2 DEF Known
      <3> QED
        BY <3>1, <3>2, <3>3
    <2>2. Left(r)' = LeftOf(sch'[r])
      BY DEF Left, LeftOf
    <2> QED
      BY <2>1, <2>2 DEF TokenedReq
  <1>7. UnpreemptedExact'
    <2>1. PICK rs : rs = Prepared(o).rows
      OBVIOUS
    <2>2. /\ DOMAIN fed' = DOMAIN o.q
          /\ \A r \in DOMAIN o.q :
                /\ fed'[r].got.toks = Inputs(rs, o.q, r)
                /\ fed'[r].got.from = RowOf(rs, r).comp
                /\ fed'[r].due.toks = Own(r, sch[r].comp, sch[r].comp + o.q[r])
                /\ fed'[r].due.from = sch[r].comp
      BY <1>1, <2>1, Zenon DEF Stepped
    <2>3. \A r \in DOMAIN o.q : ~sch[r].back =>
             /\ Inputs(rs, o.q, r) = Own(r, sch[r].comp, sch[r].comp + o.q[r])
             /\ RowOf(rs, r).comp = sch[r].comp
      BY <1>1, <1>2, <2>1, TokenedInputs
    <2>4. \A r \in DOMAIN o.q : sch'[r].back = sch[r].back
      BY <1>3, <1>4 DEF ScheduledReq
    <2> QED
      BY <2>2, <2>3, <2>4 DEF UnpreemptedExact
  <1> QED
    BY <1>6, <1>7 DEF Tokened

\* What leaves the runner alone keeps the tokens of the requests never preempted.
LEMMA TokenedKept ==
    ASSUME Rowed, up, Tokened, UNCHANGED runnerVars,
           \A r \in Reqs : sch[r].back => sch'[r].back,
           \A r \in Reqs : sch'[r].st = "running" /\ ~sch'[r].back /\ LeftOf(sch'[r]) > 0 =>
              /\ sch[r].st = "running" /\ Left(r) > 0 /\ sch'[r].comp = sch[r].comp
    PROVE  Tokened'
  <1>1. cache' = cache /\ rows' = rows /\ fed' = fed /\ pre' = pre
    BY DEF runnerVars
  <1>2. ASSUME NEW r \in Reqs
        PROVE  TokenedReq(r)'
    <2>1. Left(r)' = LeftOf(sch'[r])
      BY DEF Left, LeftOf
    <2>2. CASE sch'[r].st = "running" /\ ~sch'[r].back /\ LeftOf(sch'[r]) > 0
      <3>1. sch[r].st = "running" /\ ~sch[r].back /\ Left(r) > 0 /\ sch'[r].comp = sch[r].comp
        BY <2>2
      <3> QED
        BY <1>1, <2>1, <3>1 DEF Tokened, TokenedReq
    <2> QED
      BY <2>1, <2>2 DEF TokenedReq
  <1>3. DOMAIN fed \subseteq Reqs
    <2>1. \A i \in DOMAIN rows : rows[i].req \in Reqs
      BY DEF Rowed, Batched, Batch, Range
    <2>2. fed # <<>> => DOMAIN fed = {rows[i].req : i \in DOMAIN rows}
      BY DEF Rowed, DecodesFirst
    <2>3. CASE fed = <<>>
      BY <2>3
    <2> QED
      BY <2>1, <2>2, <2>3
  <1>4. UnpreemptedExact'
    BY <1>1, <1>3 DEF Tokened, UnpreemptedExact
  <1> QED
    BY <1>2, <1>4 DEF Tokened

\* Every action does, when scheduling is asynchronous and nothing is reset.
LEMMA TokenedNext ==
    ASSUME Async, ~Resets, Rowed, Counted, Budgeted, Tokened, [Next]_vars
    PROVE  Tokened'
  <1>0. Queues /\ inflight \in Seq(SUBSET Reqs) /\ up
    BY DEF Rowed, Counted
  <1>k. \A r \in Reqs : LeftOf(sch[r]) = Left(r)
    BY LeftCases
  <1>1. CASE Step
    BY <1>1, TokenedStep
  <1>2. CASE Update
    <2>1. UNCHANGED runnerVars /\ \A r \in Reqs : UpdatedReq(r)
      BY <1>0, <1>2, UpdateEffect
    <2>2. \A r \in Reqs : sch[r].back => sch'[r].back
      BY <2>1 DEF UpdatedReq
    <2>3. ASSUME NEW r \in Reqs, sch'[r].st = "running", LeftOf(sch'[r]) > 0
          PROVE  sch[r].st = "running" /\ Left(r) > 0 /\ sch'[r].comp = sch[r].comp
      <3>1. sch'[r].st # "done"
        BY <2>3
      <3>2. sch[r].st = "running" /\ Left(r) > 0
        BY <1>2, <2>3, <3>1, LeftReported
      <3>3. sch'[r].comp = sch[r].comp
        BY <2>1, <3>1 DEF UpdatedReq
      <3> QED
        BY <3>2, <3>3
    <2> QED
      BY <1>0, <2>1, <2>2, <2>3, TokenedKept
  <1>3. ASSUME NEW r \in Reqs, NEW m \in Prompts, AddRequest(r, m)
        PROVE  Tokened'
    <2>1. /\ sch'[r].st = "waiting" /\ sch'[r].back = sch[r].back
          /\ \A q \in Reqs \ {r} : sch'[q] = sch[q]
          /\ UNCHANGED runnerVars
      BY <1>0, <1>3, AddRequestEffect
    <2> QED
      BY <1>0, <1>k, <2>1, TokenedKept
  <1>4. ASSUME NEW r \in Reqs, Abort(r)
        PROVE  Tokened'
    <2>1. /\ sch'[r].st = "done" /\ sch'[r].back = sch[r].back /\ UNCHANGED runnerVars
          /\ \A q \in Reqs \ {r} : sch'[q] = sch[q]
      BY <1>0, <1>4, AbortEffect
    <2> QED
      BY <1>0, <1>k, <2>1, TokenedKept
  <1>5. CASE Reset
    BY <1>0, <1>5, ResetEffect
  <1>6. CASE UNCHANGED vars
    <2>1. sch' = sch /\ UNCHANGED runnerVars
      BY <1>6 DEF vars, schedulerVars
    <2> QED
      BY <1>0, <1>k, <2>1, TokenedKept
  <1> QED
    BY <1>1, <1>2, <1>3, <1>4, <1>5, <1>6 DEF Next

\* Nothing runs at first.
LEMMA TokenedInit == Init => Tokened
  <1> SUFFICES ASSUME Init PROVE Tokened
    OBVIOUS
  <1>1. fed = <<>> /\ \A r \in Reqs : sch[r].st = "new"
    BY DEF Init
  <1> QED
    BY <1>1 DEF Tokened, TokenedReq, UnpreemptedExact

\* Every token that the model runs of a request that was never preempted is the
\* request's own token of that position, asynchronous scheduling included, while
\* requests around it are preempted, stop, are aborted and are added: unless
\* batches under way meet a reset, the rows the others leave, take and swap never
\* disturb the token that is substituted on the device for a placeholder.
THEOREM UnpreemptedCorrect ==
    ASSUME ~(Async /\ Resets)
    PROVE  Spec => []UnpreemptedExact
  <1>1. CASE ~Async
    <2>1. TokensExact => UnpreemptedExact
      BY DEF TokensExact, UnpreemptedExact
    <2>2. Spec => []TokensExact
      BY <1>1, TokensCorrect
    <2> QED
      BY <2>1, <2>2, PTL
  <1>2. CASE Async
    <2>1. Spec => [](Rowed /\ Counted)
      BY CountedAlways
    <2>2. Init => Budgeted /\ Tokened
      BY BudgetedInit, TokenedInit
    <2>3. Rowed /\ Counted /\ Budgeted /\ Tokened /\ [Next]_vars => Budgeted' /\ Tokened'
      BY <1>2, BudgetedNext, TokenedNext
    <2>4. Tokened => UnpreemptedExact
      BY DEF Tokened
    <2> QED
      BY <2>1, <2>2, <2>3, <2>4, PTL DEF Spec
  <1> QED
    BY <1>1, <1>2
=============================================================================
