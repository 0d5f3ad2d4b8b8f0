------------------------- MODULE DisaggEngineProofs -------------------------
(***************************************************************************)
(* The free queue of continuous_block_pool.py and the engines of           *)
(* core_tpu.py that allocate from it.                                      *)
(***************************************************************************)
EXTENDS DisaggEngine, Lemmas

-----------------------------------------------------------------------------
(* Sequences *)

\* A set of positions that has with each one all smaller ones.
LEMMA PrefixPositions ==
    ASSUME NEW N \in Nat, NEW K \in SUBSET (1 .. N),
           \A i \in K : \A j \in 1 .. N : j < i => j \in K
    PROVE  Cardinality(K) \in 0 .. N /\ K = 1 .. Cardinality(K)
  <1>1. CASE K = {}
    <2>1. Cardinality(K) = 0
      BY <1>1, FS_EmptySet
    <2> QED
      BY <2>1, <1>1
  <1>2. CASE K # {}
    <2>1. K \in SUBSET (0 .. N)
      OBVIOUS
    <2>2. PICK m \in K : \A n \in K : n <= m
      BY <2>1, <1>2, GreatestNat
    <2>3. m \in 1 .. N
      BY <2>2
    <2>4. \A n \in K : n \in 1 .. m
      BY <2>2, <2>3
    <2>5. \A n \in 1 .. m : n \in K
      <3> SUFFICES ASSUME NEW n \in 1 .. m
                   PROVE  n \in K
        OBVIOUS
      <3>1. n \in 1 .. N /\ (n < m \/ n = m)
        BY <2>3
      <3> QED
        BY <3>1, <2>2
    <2>6. K = 1 .. m
      BY <2>4, <2>5
    <2>7. Cardinality(1 .. m) = m
      BY <2>3, FS_Interval
    <2> QED
      BY <2>3, <2>6, <2>7
  <1> QED
    BY <1>1, <1>2

\* t is s with e put in at position k.
IsInsert(t, T, s, k, e) ==
    /\ t \in Seq(T)
    /\ Len(t) = Len(s) + 1
    /\ \A j \in 1 .. k - 1 : t[j] = s[j]
    /\ t[k] = e
    /\ \A j \in k + 1 .. Len(s) + 1 : t[j] = s[j - 1]

LEMMA InsertAtProperties ==
    ASSUME NEW T, NEW s \in Seq(T), NEW k \in 1 .. Len(s) + 1, NEW e \in T
    PROVE  IsInsert(InsertAt(s, k, e), T, s, k, e)
  <1> DEFINE A == SubSeq(s, 1, k - 1)
             C == SubSeq(s, k, Len(s))
  <1>1. A \in Seq(T) /\ Len(A) = k - 1 /\ \A j \in 1 .. k - 1 : A[j] = s[j]
    OBVIOUS
  <1>2. C \in Seq(T) /\ Len(C) = Len(s) - k + 1
        /\ \A j \in 1 .. Len(s) - k + 1 : C[j] = s[j + k - 1]
    OBVIOUS
  <1>3. InsertAt(s, k, e) = (A \o <<e>>) \o C
    BY DEF InsertAt
  <1> HIDE DEF A, C
  <1>4. /\ A \o <<e>> \in Seq(T) /\ Len(A \o <<e>>) = k
        /\ \A j \in 1 .. k : (A \o <<e>>)[j] = IF j < k THEN s[j] ELSE e
    BY <1>1
  <1> DEFINE B == A \o <<e>>
  <1> HIDE DEF B
  <1>5. /\ B \in Seq(T) /\ Len(B) = k
        /\ \A j \in 1 .. k : B[j] = IF j < k THEN s[j] ELSE e
    BY <1>4 DEF B
  <1>6. B \o C \in Seq(T) /\ Len(B \o C) = Len(s) + 1
    <2>0. B \in Seq(T) /\ C \in Seq(T)
      BY <1>2, <1>5
    <2>1. Len(B \o C) = Len(B) + Len(C) /\ B \o C \in Seq(T)
      BY <2>0
    <2>2. k + (Len(s) - k + 1) = Len(s) + 1
      OBVIOUS
    <2> QED
      BY <2>1, <2>2, <1>2, <1>5
  <1>7. ASSUME NEW j \in 1 .. k
        PROVE  (B \o C)[j] = B[j]
    BY <1>5, <1>2
  <1>8. InsertAt(s, k, e) = B \o C
    BY <1>3 DEF B
  <1>9. ASSUME NEW j \in 1 .. k - 1
        PROVE  (B \o C)[j] = s[j]
    <2>1. j \in 1 .. k /\ j < k
      OBVIOUS
    <2>2. B[j] = s[j]
      BY <2>1, <1>5
    <2> QED
      BY <2>1, <2>2, <1>7
  <1>10. (B \o C)[k] = e
    <2>1. k \in 1 .. k /\ ~(k < k)
      OBVIOUS
    <2>2. B[k] = e
      BY <2>1, <1>5
    <2> QED
      BY <2>1, <2>2, <1>7
  <1>11. ASSUME NEW j \in k + 1 .. Len(s) + 1
         PROVE  (B \o C)[j] = s[j - 1]
    <2>1. (B \o C)[j] = C[j - k] /\ j - k \in 1 .. Len(s) - k + 1
      BY <1>5, <1>2
    <2>2. C[j - k] = s[(j - k) + k - 1]
      BY <2>1, <1>2
    <2>3. (j - k) + k - 1 = j - 1
      OBVIOUS
    <2> QED
      BY <2>1, <2>2, <2>3
  <1> QED
    BY <1>6, <1>8, <1>9, <1>10, <1>11 DEF IsInsert

\* t is s without position k.
IsRemove(t, T, s, k) ==
    /\ t \in Seq(T)
    /\ Len(t) = Len(s) - 1
    /\ \A j \in 1 .. Len(s) - 1 : t[j] = IF j < k THEN s[j] ELSE s[j + 1]

LEMMA RemoveAtProperties ==
    ASSUME NEW T, NEW s \in Seq(T), NEW k \in 1 .. Len(s)
    PROVE  IsRemove(RemoveAt(s, k), T, s, k)
  <1> DEFINE A == SubSeq(s, 1, k - 1)
             C == SubSeq(s, k + 1, Len(s))
  <1>1. A \in Seq(T) /\ Len(A) = k - 1 /\ \A j \in 1 .. k - 1 : A[j] = s[j]
    OBVIOUS
  <1>2. C \in Seq(T) /\ Len(C) = Len(s) - k /\ \A j \in 1 .. Len(s) - k : C[j] = s[j + k]
    OBVIOUS
  <1>3. RemoveAt(s, k) = A \o C
    BY DEF RemoveAt
  <1> HIDE DEF A, C
  <1>4. A \o C \in Seq(T) /\ Len(A \o C) = Len(s) - 1
    <2>0. A \in Seq(T) /\ C \in Seq(T)
      BY <1>1, <1>2
    <2>1. Len(A \o C) = Len(A) + Len(C) /\ A \o C \in Seq(T)
      BY <2>0
    <2>2. (k - 1) + (Len(s) - k) = Len(s) - 1
      OBVIOUS
    <2> QED
      BY <2>1, <2>2, <1>1, <1>2
  <1>5. ASSUME NEW j \in 1 .. Len(s) - 1
        PROVE  (A \o C)[j] = IF j < k THEN s[j] ELSE s[j + 1]
    <2>1. CASE j < k
      <3>1. (A \o C)[j] = A[j]
        BY <2>1, <1>1, <1>2
      <3> QED
        BY <3>1, <2>1, <1>1
    <2>2. CASE j >= k
      <3>1. (A \o C)[j] = C[j - (k - 1)] /\ j - (k - 1) \in 1 .. Len(s) - k
        BY <2>2, <1>1, <1>2, SMTT(30)
      <3>2. C[j - (k - 1)] = s[(j - (k - 1)) + k] /\ (j - (k - 1)) + k = j + 1
        BY <3>1, <1>2
      <3> QED
        BY <3>1, <3>2, <2>2
    <2>3. j < k \/ j >= k
      OBVIOUS
    <2> QED
      BY <2>1, <2>2, <2>3, Zenon
  <1> QED
    BY <1>3, <1>4, <1>5 DEF IsRemove

-----------------------------------------------------------------------------
(* The intervals of a free queue *)

Runs(ints) ==
    /\ ints \in Seq(Nat \X Nat)
    /\ \A i \in DOMAIN ints : ints[i][1] <= ints[i][2]
    /\ \A i, j \in DOMAIN ints : i < j => ints[i][2] + 1 < ints[j][1]

Covers(ints, x) == \E i \in DOMAIN ints : ints[i][1] <= x /\ x <= ints[i][2]

QueueOK(q) ==
    /\ q = [free |-> q.free, ints |-> q.ints]
    /\ q.free \in SUBSET Nat
    /\ Runs(q.ints)
    /\ \A x \in Nat : x \in q.free <=> Covers(q.ints, x)

\* The queue's own invariant.
LEMMA QueueIntervals ==
    ASSUME NEW q, QueueOK(q)
    PROVE  IntervalsOf(q)
  <1> DEFINE ints == q.ints
  <1>1. ints \in Seq(Nat \X Nat) /\ DOMAIN ints = 1 .. Len(ints) /\ Len(ints) \in Nat
    BY DEF QueueOK, Runs
  <1>2. \A i \in DOMAIN ints : ints[i][1] \in Nat /\ ints[i][2] \in Nat
    BY <1>1
  <1>3. \A i \in DOMAIN ints : ints[i][1] <= ints[i][2]
    BY DEF QueueOK, Runs
  <1>4. \A i \in 1 .. Len(ints) - 1 : ints[i][2] + 1 < ints[i + 1][1]
    <2>1. \A i, j \in DOMAIN ints : i < j => ints[i][2] + 1 < ints[j][1]
      BY DEF QueueOK, Runs
    <2>2. \A i \in 1 .. Len(ints) - 1 : i \in DOMAIN ints /\ i + 1 \in DOMAIN ints /\ i < i + 1
      BY <1>1
    <2> QED
      BY <2>1, <2>2
  <1>5. q.free = UNION {ints[i][1] .. ints[i][2] : i \in DOMAIN ints}
    <2>1. ASSUME NEW x \in q.free
          PROVE  x \in UNION {ints[i][1] .. ints[i][2] : i \in DOMAIN ints}
      <3>1. x \in Nat /\ Covers(ints, x)
        BY DEF QueueOK
      <3>2. PICK i \in DOMAIN ints : ints[i][1] <= x /\ x <= ints[i][2]
        BY <3>1 DEF Covers
      <3>3. x \in ints[i][1] .. ints[i][2]
        BY <3>1, <3>2, <1>2
      <3> QED
        BY <3>3
    <2>2. ASSUME NEW i \in DOMAIN ints, NEW x \in ints[i][1] .. ints[i][2]
          PROVE  x \in q.free
      <3>1. x \in Nat /\ ints[i][1] <= x /\ x <= ints[i][2]
        BY <1>2
      <3> QED
        BY <3>1 DEF QueueOK, Covers
    <2> QED
      BY <2>1, <2>2
  <1> QED
    BY <1>3, <1>4, <1>5 DEF IntervalsOf

\* The intervals that begin before a block that is in none.
LEMMA BeforeProperties ==
    ASSUME NEW ints, NEW b \in Nat, Runs(ints), ~Covers(ints, b)
    PROVE  /\ Before(ints, b) \in 0 .. Len(ints)
           /\ \A i \in 1 .. Len(ints) : i <= Before(ints, b) => ints[i][2] < b
           /\ \A i \in 1 .. Len(ints) : i > Before(ints, b) => ints[i][1] > b
  <1> DEFINE N == Len(ints)
             K == {i \in DOMAIN ints : ints[i][1] < b \/ (ints[i][1] = b /\ ints[i][2] < b)}
  <1>1. N \in Nat /\ DOMAIN ints = 1 .. N
        /\ \A i \in 1 .. N : ints[i][1] \in Nat /\ ints[i][2] \in Nat /\ ints[i][1] <= ints[i][2]
    BY DEF Runs
  <1>2. \A i \in 1 .. N : i \in K <=> ints[i][1] < b
    BY <1>1
  <1>3. \A i, j \in 1 .. N : j < i => ints[j][1] < ints[i][1]
    <2>1. \A i, j \in 1 .. N : j < i => ints[j][2] + 1 < ints[i][1]
      BY <1>1 DEF Runs
    <2> QED
      BY <2>1, <1>1, SMTT(30)
  <1>4. K \in SUBSET (1 .. N)
    BY <1>1
  <1>5. \A i \in K : \A j \in 1 .. N : j < i => j \in K
    BY <1>1, <1>2, <1>3, <1>4
  <1>6. \A i \in 1 .. N : ints[i][2] < b \/ ints[i][1] > b
    BY <1>1 DEF Covers
  <1>7. Before(ints, b) = Cardinality(K)
    BY DEF Before
  <1> HIDE DEF K
  <1>8. Cardinality(K) \in 0 .. N /\ K = 1 .. Cardinality(K)
    BY <1>1, <1>4, <1>5, PrefixPositions
  <1>9. \A i \in 1 .. N : i <= Cardinality(K) <=> i \in K
    BY <1>8
  <1>10. \A i \in 1 .. N : i > Cardinality(K) => ints[i][1] > b
    BY <1>1, <1>2, <1>6, <1>8, <1>9
  <1>11. \A i \in 1 .. N : i <= Cardinality(K) => ints[i][2] < b
    BY <1>1, <1>2, <1>6, <1>9
  <1> QED
    BY <1>7, <1>8, <1>10, <1>11

\* The two ends of every interval.
Lo(ints) == [i \in DOMAIN ints |-> ints[i][1]]
Hi(ints) == [i \in DOMAIN ints |-> ints[i][2]]

\* Runs in terms of their ends.
Apart(N, lo, hi) ==
    /\ N \in Nat /\ lo \in [1 .. N -> Nat] /\ hi \in [1 .. N -> Nat]
    /\ \A i \in 1 .. N : lo[i] <= hi[i]
    /\ \A i, j \in 1 .. N : i < j => hi[i] + 1 < lo[j]

In(N, lo, hi, x) == \E i \in 1 .. N : lo[i] <= x /\ x <= hi[i]

LEMMA RunsEnds ==
    ASSUME NEW ints \in Seq(Nat \X Nat)
    PROVE  /\ Runs(ints) <=> Apart(Len(ints), Lo(ints), Hi(ints))
           /\ \A x : Covers(ints, x) <=> In(Len(ints), Lo(ints), Hi(ints), x)
  <1>1. Len(ints) \in Nat /\ DOMAIN ints = 1 .. Len(ints)
        /\ \A i \in 1 .. Len(ints) : ints[i][1] \in Nat /\ ints[i][2] \in Nat
    OBVIOUS
  <1>2. Lo(ints) \in [1 .. Len(ints) -> Nat] /\ Hi(ints) \in [1 .. Len(ints) -> Nat]
        /\ \A i \in 1 .. Len(ints) : Lo(ints)[i] = ints[i][1] /\ Hi(ints)[i] = ints[i][2]
    BY <1>1 DEF Lo, Hi
  <1>3. Runs(ints) <=> Apart(Len(ints), Lo(ints), Hi(ints))
    <2>1. (\A i \in DOMAIN ints : ints[i][1] <= ints[i][2])
            <=> \A i \in 1 .. Len(ints) : Lo(ints)[i] <= Hi(ints)[i]
      BY <1>1, <1>2
    <2>2. (\A i, j \in DOMAIN ints : i < j => ints[i][2] + 1 < ints[j][1])
            <=> \A i, j \in 1 .. Len(ints) : i < j => Hi(ints)[i] + 1 < Lo(ints)[j]
      <3>1. \A i, j \in 1 .. Len(ints) :
              (ints[i][2] + 1 < ints[j][1]) <=> (Hi(ints)[i] + 1 < Lo(ints)[j])
        BY <1>2
      <3> QED
        BY <1>1, <3>1, Zenon
    <2> QED
      BY <1>1, <1>2, <2>1, <2>2, Zenon DEF Runs, Apart
  <1>4. \A x : Covers(ints, x) <=> In(Len(ints), Lo(ints), Hi(ints), x)
    BY <1>1, <1>2 DEF Covers, In
  <1> QED
    BY <1>3, <1>4

InOther(N, lo, hi, k, x) == \E i \in 1 .. N : i # k /\ lo[i] <= x /\ x <= hi[i]

\* An interval is dropped.
LEMMA DeleteApart ==
    ASSUME NEW N, NEW lo, NEW hi, Apart(N, lo, hi), NEW k \in 1 .. N,
           NEW lo2 \in [1 .. N - 1 -> Nat], NEW hi2 \in [1 .. N - 1 -> Nat],
           \A j \in 1 .. N - 1 : lo2[j] = IF j < k THEN lo[j] ELSE lo[j + 1],
           \A j \in 1 .. N - 1 : hi2[j] = IF j < k THEN hi[j] ELSE hi[j + 1]
    PROVE  /\ Apart(N - 1, lo2, hi2)
           /\ \A x \in Nat : In(N - 1, lo2, hi2, x) <=> InOther(N, lo, hi, k, x)
  <1>1. N \in Nat /\ N - 1 \in Nat
    BY DEF Apart
  <1>2. \A i \in 1 .. N : lo[i] \in Nat /\ hi[i] \in Nat /\ lo[i] <= hi[i]
    BY DEF Apart
  <1>3. \A i, j \in 1 .. N : i < j => hi[i] + 1 < lo[j]
    BY DEF Apart
  <1> DEFINE to == [j \in 1 .. N - 1 |-> IF j < k THEN j ELSE j + 1]
  <1>4. \A j \in 1 .. N - 1 : to[j] \in 1 .. N /\ to[j] # k /\ lo2[j] = lo[to[j]] /\ hi2[j] = hi[to[j]]
    BY <1>1
  <1>5. \A i, j \in 1 .. N - 1 : i < j => to[i] < to[j]
    BY <1>1
  <1>6. \A i \in 1 .. N : i # k => \E j \in 1 .. N - 1 : to[j] = i
    <2> SUFFICES ASSUME NEW i \in 1 .. N, i # k
                 PROVE  \E j \in 1 .. N - 1 : to[j] = i
      OBVIOUS
    <2>1. CASE i < k
      <3>1. i \in 1 .. N - 1 /\ to[i] = i
        BY <1>1, <2>1
      <3> QED
        BY <3>1
    <2>2. CASE i > k
      <3>1. i - 1 \in 1 .. N - 1 /\ to[i - 1] = i
        BY <1>1, <2>2
      <3> QED
        BY <3>1
    <2> QED
      BY <1>1, <2>1, <2>2
  <1> HIDE DEF to
  <1>7. \A j \in 1 .. N - 1 : lo2[j] <= hi2[j]
    BY <1>2, <1>4
  <1>8. \A i, j \in 1 .. N - 1 : i < j => hi2[i] + 1 < lo2[j]
    BY <1>3, <1>4, <1>5
  <1>9. Apart(N - 1, lo2, hi2)
    BY <1>1, <1>7, <1>8 DEF Apart
  <1>10. ASSUME NEW x \in Nat
         PROVE  In(N - 1, lo2, hi2, x) <=> InOther(N, lo, hi, k, x)
    <2>1. In(N - 1, lo2, hi2, x) => InOther(N, lo, hi, k, x)
      BY <1>4 DEF In, InOther
    <2>2. InOther(N, lo, hi, k, x) => In(N - 1, lo2, hi2, x)
      BY <1>4, <1>6 DEF In, InOther
    <2> QED
      BY <2>1, <2>2
  <1> QED
    BY <1>9, <1>10

\* c .. d lies between the intervals before k and those from m on.
Between(N, lo, hi, k, m, c, d) ==
    /\ c \in Nat /\ d \in Nat /\ c <= d
    /\ \A i \in 1 .. N : i < k => hi[i] + 1 < c
    /\ \A i \in 1 .. N : i >= m => d + 1 < lo[i]

\* An interval takes the place of another.
LEMMA ReplaceApart ==
    ASSUME NEW N, NEW lo, NEW hi, Apart(N, lo, hi), NEW k \in 1 .. N,
           NEW c, NEW d, Between(N, lo, hi, k, k + 1, c, d)
    PROVE  /\ Apart(N, [lo EXCEPT ![k] = c], [hi EXCEPT ![k] = d])
           /\ \A x \in Nat : In(N, [lo EXCEPT ![k] = c], [hi EXCEPT ![k] = d], x)
                               <=> InOther(N, lo, hi, k, x) \/ (c <= x /\ x <= d)
  <1> DEFINE lo2 == [lo EXCEPT ![k] = c]
             hi2 == [hi EXCEPT ![k] = d]
  <1>0. /\ c \in Nat /\ d \in Nat /\ c <= d
        /\ \A i \in 1 .. N : i < k => hi[i] + 1 < c
        /\ \A i \in 1 .. N : i > k => d + 1 < lo[i]
    <2>1. \A i \in 1 .. N : i > k <=> i >= k + 1
      BY DEF Apart
    <2> QED
      BY <2>1 DEF Between
  <1>1. N \in Nat /\ lo \in [1 .. N -> Nat] /\ hi \in [1 .. N -> Nat]
    BY DEF Apart
  <1>2. \A i \in 1 .. N : lo[i] \in Nat /\ hi[i] \in Nat /\ lo[i] <= hi[i]
    BY DEF Apart
  <1>3. \A i, j \in 1 .. N : i < j => hi[i] + 1 < lo[j]
    BY DEF Apart
  <1>4. /\ lo2 \in [1 .. N -> Nat] /\ hi2 \in [1 .. N -> Nat]
        /\ \A i \in 1 .. N : i # k => lo2[i] = lo[i] /\ hi2[i] = hi[i]
        /\ lo2[k] = c /\ hi2[k] = d
    BY <1>0, <1>1
  <1> HIDE DEF lo2, hi2
  <1>5. \A j \in 1 .. N : lo2[j] <= hi2[j]
    BY <1>0, <1>2, <1>4
  <1>6. ASSUME NEW i \in 1 .. N, NEW j \in 1 .. N, i < j
        PROVE  hi2[i] + 1 < lo2[j]
    <2>1. CASE i = k
      <3>1. j > k /\ j # k
        BY <2>1, <1>6, <1>1
      <3> QED
        BY <3>1, <2>1, <1>0, <1>4
    <2>2. CASE j = k
      <3>1. i < k /\ i # k
        BY <2>2, <1>6, <1>1
      <3> QED
        BY <3>1, <2>2, <1>0, <1>4
    <2>3. CASE i # k /\ j # k
      BY <2>3, <1>3, <1>4, <1>6
    <2> QED
      BY <2>1, <2>2, <2>3
  <1>7. Apart(N, lo2, hi2)
    BY <1>1, <1>4, <1>5, <1>6 DEF Apart
  <1>8. ASSUME NEW x \in Nat
        PROVE  In(N, lo2, hi2, x) <=> InOther(N, lo, hi, k, x) \/ (c <= x /\ x <= d)
    BY <1>4 DEF In, InOther
  <1> QED
    BY <1>7, <1>8 DEF lo2, hi2

\* f2 is f with e put in at position k.
Shifted(N, f, k, e, f2) ==
    /\ f2 \in [1 .. N + 1 -> Nat]
    /\ \A j \in 1 .. N + 1 : f2[j] = IF j < k THEN f[j] ELSE IF j = k THEN e ELSE f[j - 1]

\* An interval comes between two others.
LEMMA InsertApart ==
    ASSUME NEW N, NEW lo, NEW hi, Apart(N, lo, hi), NEW k \in 1 .. N + 1,
           NEW c, NEW d, Between(N, lo, hi, k, k, c, d),
           NEW lo2, NEW hi2, Shifted(N, lo, k, c, lo2), Shifted(N, hi, k, d, hi2)
    PROVE  /\ Apart(N + 1, lo2, hi2)
           /\ \A x \in Nat : In(N + 1, lo2, hi2, x) <=> In(N, lo, hi, x) \/ (c <= x /\ x <= d)
  <1>0. /\ c \in Nat /\ d \in Nat /\ c <= d
        /\ \A i \in 1 .. N : i < k => hi[i] + 1 < c
        /\ \A i \in 1 .. N : i >= k => d + 1 < lo[i]
    BY DEF Between
  <1>s. /\ lo2 \in [1 .. N + 1 -> Nat] /\ hi2 \in [1 .. N + 1 -> Nat]
        /\ \A j \in 1 .. N + 1 : lo2[j] = IF j < k THEN lo[j] ELSE IF j = k THEN c ELSE lo[j - 1]
        /\ \A j \in 1 .. N + 1 : hi2[j] = IF j < k THEN hi[j] ELSE IF j = k THEN d ELSE hi[j - 1]
    BY DEF Shifted
  <1>1. N \in Nat /\ N + 1 \in Nat
    BY DEF Apart
  <1>2. \A i \in 1 .. N : lo[i] \in Nat /\ hi[i] \in Nat /\ lo[i] <= hi[i]
    BY DEF Apart
  <1>3. \A i, j \in 1 .. N : i < j => hi[i] + 1 < lo[j]
    BY DEF Apart
  <1> DEFINE from == [j \in 1 .. N + 1 |-> IF j < k THEN j ELSE j - 1]
  <1>4. \A j \in 1 .. N + 1 : j # k =>
           /\ from[j] \in 1 .. N /\ lo2[j] = lo[from[j]] /\ hi2[j] = hi[from[j]]
           /\ (j < k => from[j] < k) /\ (j > k => from[j] >= k)
    BY <1>1, <1>s, SMTT(30)
  <1>5. \A i, j \in 1 .. N + 1 : i < j /\ i # k /\ j # k => from[i] < from[j]
    BY <1>1
  <1>6. \A i \in 1 .. N : \E j \in 1 .. N + 1 : j # k /\ from[j] = i
    <2> SUFFICES ASSUME NEW i \in 1 .. N
                 PROVE  \E j \in 1 .. N + 1 : j # k /\ from[j] = i
      OBVIOUS
    <2>1. CASE i < k
      <3>1. i \in 1 .. N + 1 /\ from[i] = i /\ i # k
        BY <1>1, <2>1
      <3> QED
        BY <3>1
    <2>2. CASE i >= k
      <3>1. i + 1 \in 1 .. N + 1 /\ from[i + 1] = i /\ i + 1 # k
        BY <1>1, <2>2
      <3> QED
        BY <3>1
    <2> QED
      BY <1>1, <2>1, <2>2
  <1> HIDE DEF from
  <1>7. lo2[k] = c /\ hi2[k] = d
    BY <1>1, <1>s
  <1>8. \A j \in 1 .. N + 1 : lo2[j] <= hi2[j]
    BY <1>0, <1>2, <1>4, <1>7
  <1>9. ASSUME NEW i \in 1 .. N + 1, NEW j \in 1 .. N + 1, i < j
        PROVE  hi2[i] + 1 < lo2[j]
    <2>1. CASE i = k
      <3>1. j > k /\ j # k
        BY <2>1, <1>9, <1>1
      <3>2. from[j] \in 1 .. N /\ from[j] >= k /\ lo2[j] = lo[from[j]]
        BY <3>1, <1>4
      <3> QED
        BY <3>2, <2>1, <1>0, <1>7
    <2>2. CASE j = k
      <3>1. i < k /\ i # k
        BY <2>2, <1>9, <1>1
      <3>2. from[i] \in 1 .. N /\ from[i] < k /\ hi2[i] = hi[from[i]]
        BY <3>1, <1>4
      <3> QED
        BY <3>2, <2>2, <1>0, <1>7
    <2>3. CASE i # k /\ j # k
      <3>1. from[i] < from[j] /\ from[i] \in 1 .. N /\ from[j] \in 1 .. N
        BY <2>3, <1>4, <1>5, <1>9
      <3>2. hi2[i] = hi[from[i]] /\ lo2[j] = lo[from[j]]
        BY <2>3, <1>4
      <3> QED
        BY <3>1, <3>2, <1>3
    <2> QED
      BY <2>1, <2>2, <2>3
  <1>10. Apart(N + 1, lo2, hi2)
    BY <1>1, <1>s, <1>8, <1>9 DEF Apart
  <1>11. ASSUME NEW x \in Nat
         PROVE  In(N + 1, lo2, hi2, x) <=> In(N, lo, hi, x) \/ (c <= x /\ x <= d)
    <2>1. In(N + 1, lo2, hi2, x) => In(N, lo, hi, x) \/ (c <= x /\ x <= d)
      BY <1>4, <1>7 DEF In
    <2>2. In(N, lo, hi, x) => In(N + 1, lo2, hi2, x)
      BY <1>4, <1>6 DEF In
    <2>3. c <= x /\ x <= d => In(N + 1, lo2, hi2, x)
      BY <1>7 DEF In
    <2> QED
      BY <2>1, <2>2, <2>3
  <1> QED
    BY <1>10, <1>11

\* The same for lists of intervals.
Others(ints, k, x) == \E i \in DOMAIN ints : i # k /\ ints[i][1] <= x /\ x <= ints[i][2]

Gap(ints, k, m, c, d) ==
    /\ c \in Nat /\ d \in Nat /\ c <= d
    /\ \A i \in 1 .. Len(ints) : i < k => ints[i][2] + 1 < c
    /\ \A i \in 1 .. Len(ints) : i >= m => d + 1 < ints[i][1]

LEMMA OthersEnds ==
    ASSUME NEW ints \in Seq(Nat \X Nat), NEW k, NEW x
    PROVE  Others(ints, k, x) <=> InOther(Len(ints), Lo(ints), Hi(ints), k, x)
  <1>1. DOMAIN ints = 1 .. Len(ints)
        /\ \A i \in 1 .. Len(ints) : Lo(ints)[i] = ints[i][1] /\ Hi(ints)[i] = ints[i][2]
    BY DEF Lo, Hi
  <1> QED
    BY <1>1 DEF Others, InOther

LEMMA EndsType ==
    ASSUME NEW ints \in Seq(Nat \X Nat)
    PROVE  /\ Len(ints) \in Nat /\ DOMAIN ints = 1 .. Len(ints)
           /\ Lo(ints) \in [1 .. Len(ints) -> Nat] /\ Hi(ints) \in [1 .. Len(ints) -> Nat]
           /\ \A i \in 1 .. Len(ints) : Lo(ints)[i] = ints[i][1] /\ Hi(ints)[i] = ints[i][2]
  <1>1. Len(ints) \in Nat /\ DOMAIN ints = 1 .. Len(ints)
        /\ \A i \in 1 .. Len(ints) : ints[i][1] \in Nat /\ ints[i][2] \in Nat
    OBVIOUS
  <1> QED
    BY <1>1 DEF Lo, Hi

LEMMA DeleteRuns ==
    ASSUME NEW ints, Runs(ints), NEW k \in 1 .. Len(ints)
    PROVE  /\ Runs(RemoveAt(ints, k)) /\ Len(RemoveAt(ints, k)) = Len(ints) - 1
           /\ \A x \in Nat : Covers(RemoveAt(ints, k), x) <=> Others(ints, k, x)
  <1> DEFINE t == RemoveAt(ints, k)
             N == Len(ints)
  <1>1. ints \in Seq(Nat \X Nat)
    BY DEF Runs
  <1>2. t \in Seq(Nat \X Nat) /\ Len(t) = N - 1
        /\ \A j \in 1 .. N - 1 : t[j] = IF j < k THEN ints[j] ELSE ints[j + 1]
    BY <1>1, RemoveAtProperties DEF IsRemove
  <1> HIDE DEF t
  <1>3. Apart(N, Lo(ints), Hi(ints))
    BY <1>1, RunsEnds
  <1>4. /\ Lo(t) \in [1 .. N - 1 -> Nat] /\ Hi(t) \in [1 .. N - 1 -> Nat]
        /\ \A i \in 1 .. N - 1 : Lo(t)[i] = t[i][1] /\ Hi(t)[i] = t[i][2]
    BY <1>2, EndsType
  <1>5. N \in Nat /\ \A i \in 1 .. N : Lo(ints)[i] = ints[i][1] /\ Hi(ints)[i] = ints[i][2]
    BY <1>1, EndsType
  <1>6. \A j \in 1 .. N - 1 : j \in 1 .. N /\ j + 1 \in 1 .. N
    BY <1>5
  <1>7. ASSUME NEW j \in 1 .. N - 1
        PROVE  Lo(t)[j] = IF j < k THEN Lo(ints)[j] ELSE Lo(ints)[j + 1]
    <2>1. Lo(t)[j] = t[j][1] /\ Lo(ints)[j] = ints[j][1] /\ Lo(ints)[j + 1] = ints[j + 1][1]
      BY <1>4, <1>5, <1>6
    <2>2. t[j] = IF j < k THEN ints[j] ELSE ints[j + 1]
      BY <1>2
    <2> QED
      BY <2>1, <2>2
  <1>8. ASSUME NEW j \in 1 .. N - 1
        PROVE  Hi(t)[j] = IF j < k THEN Hi(ints)[j] ELSE Hi(ints)[j + 1]
    <2>1. Hi(t)[j] = t[j][2] /\ Hi(ints)[j] = ints[j][2] /\ Hi(ints)[j + 1] = ints[j + 1][2]
      BY <1>4, <1>5, <1>6
    <2>2. t[j] = IF j < k THEN ints[j] ELSE ints[j + 1]
      BY <1>2
    <2> QED
      BY <2>1, <2>2
  <1>9. /\ Apart(N - 1, Lo(t), Hi(t))
        /\ \A x \in Nat : In(N - 1, Lo(t), Hi(t), x) <=> InOther(N, Lo(ints), Hi(ints), k, x)
    BY <1>3, <1>4, <1>7, <1>8, DeleteApart
  <1>10. Runs(t)
    BY <1>2, <1>9, RunsEnds
  <1>11. \A x \in Nat : Covers(t, x) <=> Others(ints, k, x)
    BY <1>1, <1>2, <1>9, RunsEnds, OthersEnds
  <1> QED
    BY <1>2, <1>10, <1>11 DEF t

LEMMA ReplaceRuns ==
    ASSUME NEW ints, Runs(ints), NEW k \in 1 .. Len(ints),
           NEW c, NEW d, Gap(ints, k, k + 1, c, d)
    PROVE  /\ Runs([ints EXCEPT ![k] = <<c, d>>]) /\ Len([ints EXCEPT ![k] = <<c, d>>]) = Len(ints)
           /\ \A x \in Nat : Covers([ints EXCEPT ![k] = <<c, d>>], x)
                               <=> Others(ints, k, x) \/ (c <= x /\ x <= d)
  <1> DEFINE t == [ints EXCEPT ![k] = <<c, d>>]
             N == Len(ints)
  <1>1. ints \in Seq(Nat \X Nat) /\ c \in Nat /\ d \in Nat
    BY DEF Runs, Gap
  <1>2. t \in Seq(Nat \X Nat) /\ Len(t) = N
        /\ \A j \in 1 .. N : t[j] = IF j = k THEN <<c, d>> ELSE ints[j]
    BY <1>1
  <1> HIDE DEF t
  <1>3. Apart(N, Lo(ints), Hi(ints))
    BY <1>1, RunsEnds
  <1>4. /\ Lo(t) \in [1 .. N -> Nat] /\ Hi(t) \in [1 .. N -> Nat]
        /\ \A i \in 1 .. N : Lo(t)[i] = t[i][1] /\ Hi(t)[i] = t[i][2]
    BY <1>2, EndsType
  <1>5. N \in Nat /\ Lo(ints) \in [1 .. N -> Nat] /\ Hi(ints) \in [1 .. N -> Nat]
        /\ \A i \in 1 .. N : Lo(ints)[i] = ints[i][1] /\ Hi(ints)[i] = ints[i][2]
    BY <1>1, EndsType
  <1>6. \A j \in 1 .. N : t[j][1] = (IF j = k THEN c ELSE ints[j][1])
                           /\ t[j][2] = (IF j = k THEN d ELSE ints[j][2])
    BY <1>2
  <1>7. Lo(t) = [Lo(ints) EXCEPT ![k] = c] /\ Hi(t) = [Hi(ints) EXCEPT ![k] = d]
    <2>1. \A j \in 1 .. N : Lo(t)[j] = [Lo(ints) EXCEPT ![k] = c][j]
      BY <1>4, <1>5, <1>6
    <2>2. \A j \in 1 .. N : Hi(t)[j] = [Hi(ints) EXCEPT ![k] = d][j]
      BY <1>4, <1>5, <1>6
    <2> QED
      BY <2>1, <2>2, <1>4, <1>5
  <1>8. Between(N, Lo(ints), Hi(ints), k, k + 1, c, d)
    BY <1>5 DEF Gap, Between
  <1>9. /\ Apart(N, Lo(t), Hi(t))
        /\ \A x \in Nat : In(N, Lo(t), Hi(t), x)
                             <=> InOther(N, Lo(ints), Hi(ints), k, x) \/ (c <= x /\ x <= d)
    <2>1. /\ Apart(N, [Lo(ints) EXCEPT ![k] = c], [Hi(ints) EXCEPT ![k] = d])
          /\ \A x \in Nat : In(N, [Lo(ints) EXCEPT ![k] = c], [Hi(ints) EXCEPT ![k] = d], x)
                              <=> InOther(N, Lo(ints), Hi(ints), k, x) \/ (c <= x /\ x <= d)
      BY <1>3, <1>8, ReplaceApart
    <2> QED
      BY <2>1, <1>7, Zenon
  <1>10. Runs(t)
    BY <1>2, <1>9, RunsEnds
  <1>11. \A x \in Nat : Covers(t, x) <=> Others(ints, k, x) \/ (c <= x /\ x <= d)
    BY <1>1, <1>2, <1>9, RunsEnds, OthersEnds
  <1> QED
    BY <1>2, <1>10, <1>11 DEF t

LEMMA InsertRuns ==
    ASSUME NEW ints, Runs(ints), NEW k \in 1 .. Len(ints) + 1,
           NEW c, NEW d, Gap(ints, k, k, c, d)
    PROVE  /\ Runs(InsertAt(ints, k, <<c, d>>))
           /\ \A x \in Nat : Covers(InsertAt(ints, k, <<c, d>>), x)
                               <=> Covers(ints, x) \/ (c <= x /\ x <= d)
  <1> DEFINE t == InsertAt(ints, k, <<c, d>>)
             N == Len(ints)
  <1>1. ints \in Seq(Nat \X Nat) /\ c \in Nat /\ d \in Nat /\ <<c, d>> \in Nat \X Nat
    BY DEF Runs, Gap
  <1>2. t \in Seq(Nat \X Nat) /\ Len(t) = N + 1
        /\ \A j \in 1 .. N + 1 : t[j] = IF j < k THEN ints[j] ELSE IF j = k THEN <<c, d>> ELSE ints[j - 1]
    <2> DEFINE p == <<c, d>>
    <2>1. p \in Nat \X Nat
      BY <1>1
    <2> HIDE DEF p
    <2>2. IsInsert(InsertAt(ints, k, p), Nat \X Nat, ints, k, p)
      BY <1>1, <2>1, InsertAtProperties
    <2>3. /\ InsertAt(ints, k, p) \in Seq(Nat \X Nat)
          /\ Len(InsertAt(ints, k, p)) = N + 1
          /\ \A j \in 1 .. k - 1 : InsertAt(ints, k, p)[j] = ints[j]
          /\ InsertAt(ints, k, p)[k] = p
          /\ \A j \in k + 1 .. N + 1 : InsertAt(ints, k, p)[j] = ints[j - 1]
      BY <2>2, Zenon DEF IsInsert
    <2>5. ASSUME NEW j \in 1 .. N + 1
          PROVE  InsertAt(ints, k, p)[j]
                   = IF j < k THEN ints[j] ELSE IF j = k THEN p ELSE ints[j - 1]
      <3>1. CASE j < k
        <4>1. j \in 1 .. k - 1
          BY <3>1, <1>1
        <4> QED
          BY <3>1, <4>1, <2>3, Zenon
      <3>2. CASE j = k
        <4>1. ~(k < k)
          BY <1>1
        <4> QED
          BY <3>2, <4>1, <2>3, Zenon
      <3>3. CASE j > k
        <4>1. j \in k + 1 .. N + 1 /\ ~(j < k) /\ j # k
          BY <3>3, <1>1
        <4> QED
          BY <4>1, <2>3, Zenon
      <3> QED
        BY <3>1, <3>2, <3>3, <1>1
    <2> QED
      BY <2>3, <2>5 DEF p
  <1> HIDE DEF t
  <1>3. Apart(N, Lo(ints), Hi(ints))
    BY <1>1, RunsEnds
  <1>4. /\ Lo(t) \in [1 .. N + 1 -> Nat] /\ Hi(t) \in [1 .. N + 1 -> Nat]
        /\ \A i \in 1 .. N + 1 : Lo(t)[i] = t[i][1] /\ Hi(t)[i] = t[i][2]
    BY <1>2, EndsType
  <1>5. N \in Nat /\ \A i \in 1 .. N : Lo(ints)[i] = ints[i][1] /\ Hi(ints)[i] = ints[i][2]
    BY <1>1, EndsType
  <1>6. \A j \in 1 .. N + 1 : (j < k => j \in 1 .. N) /\ (j > k => j - 1 \in 1 .. N)
                                /\ (j < k \/ j = k \/ j > k)
    BY <1>5
  <1>7. ASSUME NEW j \in 1 .. N + 1
        PROVE  Lo(t)[j] = IF j < k THEN Lo(ints)[j] ELSE IF j = k THEN c ELSE Lo(ints)[j - 1]
    <2>1. Lo(t)[j] = t[j][1]
      BY <1>4
    <2>2. t[j] = IF j < k THEN ints[j] ELSE IF j = k THEN <<c, d>> ELSE ints[j - 1]
      BY <1>2
    <2>3. CASE j < k
      <3>1. Lo(ints)[j] = ints[j][1]
        BY <2>3, <1>5, <1>6
      <3> QED
        BY <2>1, <2>2, <2>3, <3>1
    <2>4. CASE j = k
      BY <2>1, <2>2, <2>4
    <2>5. CASE j > k
      <3>1. Lo(ints)[j - 1] = ints[j - 1][1]
        BY <2>5, <1>5, <1>6
      <3> QED
        BY <2>1, <2>2, <2>5, <3>1
    <2> QED
      BY <2>3, <2>4, <2>5, <1>6
  <1>8. ASSUME NEW j \in 1 .. N + 1
        PROVE  Hi(t)[j] = IF j < k THEN Hi(ints)[j] ELSE IF j = k THEN d ELSE Hi(ints)[j - 1]
    <2>1. Hi(t)[j] = t[j][2]
      BY <1>4
    <2>2. t[j] = IF j < k THEN ints[j] ELSE IF j = k THEN <<c, d>> ELSE ints[j - 1]
      BY <1>2
    <2>3. CASE j < k
      <3>1. Hi(ints)[j] = ints[j][2]
        BY <2>3, <1>5, <1>6
      <3> QED
        BY <2>1, <2>2, <2>3, <3>1
    <2>4. CASE j = k
      BY <2>1, <2>2, <2>4
    <2>5. CASE j > k
      <3>1. Hi(ints)[j - 1] = ints[j - 1][2]
        BY <2>5, <1>5, <1>6
      <3> QED
        BY <2>1, <2>2, <2>5, <3>1
    <2> QED
      BY <2>3, <2>4, <2>5, <1>6
  <1>9. /\ Between(N, Lo(ints), Hi(ints), k, k, c, d)
        /\ Shifted(N, Lo(ints), k, c, Lo(t)) /\ Shifted(N, Hi(ints), k, d, Hi(t))
    <2>1. Between(N, Lo(ints), Hi(ints), k, k, c, d)
      BY <1>5 DEF Gap, Between
    <2> QED
      BY <2>1, <1>4, <1>7, <1>8 DEF Shifted
  <1>10. /\ Apart(N + 1, Lo(t), Hi(t))
         /\ \A x \in Nat : In(N + 1, Lo(t), Hi(t), x)
                              <=> In(N, Lo(ints), Hi(ints), x) \/ (c <= x /\ x <= d)
    BY <1>3, <1>9, InsertApart
  <1>11. Runs(t)
    BY <1>2, <1>10, RunsEnds
  <1>12. \A x \in Nat : Covers(t, x) <=> Covers(ints, x) \/ (c <= x /\ x <= d)
    BY <1>1, <1>2, <1>10, RunsEnds
  <1> QED
    BY <1>11, <1>12 DEF t

LEMMA CoversSplit ==
    ASSUME NEW ints, Runs(ints), NEW k \in 1 .. Len(ints)
    PROVE  \A x : Covers(ints, x) <=> Others(ints, k, x) \/ (ints[k][1] <= x /\ x <= ints[k][2])
  <1>1. k \in DOMAIN ints
    BY DEF Runs
  <1> QED
    BY <1>1, Zenon DEF Covers, Others

LEMMA RunsAt ==
    ASSUME NEW ints, Runs(ints)
    PROVE  /\ ints \in Seq(Nat \X Nat) /\ Len(ints) \in Nat /\ DOMAIN ints = 1 .. Len(ints)
           /\ \A i \in 1 .. Len(ints) : /\ ints[i][1] \in Nat /\ ints[i][2] \in Nat
                                        /\ ints[i][1] <= ints[i][2]
           /\ \A i, j \in 1 .. Len(ints) : i < j => ints[i][2] + 1 < ints[j][1]
  <1>1. ints \in Seq(Nat \X Nat)
    BY DEF Runs
  <1>2. Len(ints) \in Nat /\ DOMAIN ints = 1 .. Len(ints)
        /\ \A i \in 1 .. Len(ints) : ints[i][1] \in Nat /\ ints[i][2] \in Nat
    BY <1>1
  <1>3. \A i \in 1 .. Len(ints) : ints[i][1] <= ints[i][2]
    BY <1>2 DEF Runs
  <1>4. \A i, j \in 1 .. Len(ints) : i < j => ints[i][2] + 1 < ints[j][1]
    BY <1>2, Zenon DEF Runs
  <1> QED
    BY <1>1, <1>2, <1>3, <1>4

\* _add_to_intervals
LEMMA AddToIntervalsRuns ==
    ASSUME NEW ints, NEW b \in Nat, Runs(ints), ~Covers(ints, b)
    PROVE  /\ Runs(AddToIntervals(ints, b))
           /\ \A x \in Nat : Covers(AddToIntervals(ints, b), x) <=> Covers(ints, x) \/ x = b
  <1> DEFINE k == Before(ints, b)
             N == Len(ints)
             prev == k > 0 /\ ints[k][2] = b - 1
             next == k < N /\ ints[k + 1][1] = b + 1
             t == AddToIntervals(ints, b)
  <1>1. k \in 0 .. N
        /\ (\A i \in 1 .. N : i <= k => ints[i][2] < b)
        /\ (\A i \in 1 .. N : i > k => ints[i][1] > b)
    BY BeforeProperties
  <1>2. /\ ints \in Seq(Nat \X Nat) /\ N \in Nat /\ DOMAIN ints = 1 .. N
        /\ \A i \in 1 .. N : /\ ints[i][1] \in Nat /\ ints[i][2] \in Nat
                             /\ ints[i][1] <= ints[i][2]
        /\ \A i, j \in 1 .. N : i < j => ints[i][2] + 1 < ints[j][1]
    BY RunsAt
  <1>t. t = CASE prev /\ next  -> RemoveAt([ints EXCEPT ![k] = <<ints[k][1], ints[k + 1][2]>>], k + 1)
              [] prev /\ ~next -> [ints EXCEPT ![k] = <<ints[k][1], b>>]
              [] ~prev /\ next -> [ints EXCEPT ![k + 1] = <<b, ints[k + 1][2]>>]
              [] OTHER         -> InsertAt(ints, k + 1, <<b, b>>)
    BY DEF AddToIntervals
  <1> HIDE DEF k, t
  <1>a. prev => k \in 1 .. N /\ ints[k][2] + 1 = b
    BY <1>1, <1>2
  <1>b. next => k + 1 \in 1 .. N /\ ints[k + 1][1] = b + 1
    BY <1>1, <1>2
  <1>c. ~prev => \A i \in 1 .. N : i <= k => ints[i][2] + 1 < b
    <2> SUFFICES ASSUME ~prev, NEW i \in 1 .. N, i <= k
                 PROVE  ints[i][2] + 1 < b
      OBVIOUS
    <2>1. k \in 1 .. N /\ ints[k][2] < b /\ ints[k][2] # b - 1
      BY <1>1, <1>2
    <2>2. ints[k][2] \in Nat /\ ints[k][1] \in Nat /\ ints[i][2] \in Nat /\ ints[k][1] <= ints[k][2]
      BY <2>1, <1>2
    <2>3. ints[k][2] + 1 < b
      BY <2>1, <2>2
    <2>4. i = k \/ ints[i][2] + 1 < ints[k][1]
      BY <2>1, <1>2
    <2> QED
      BY <2>2, <2>3, <2>4
  <1>d. ~next => \A i \in 1 .. N : i > k => b + 1 < ints[i][1]
    <2> SUFFICES ASSUME ~next, NEW i \in 1 .. N, i > k
                 PROVE  b + 1 < ints[i][1]
      OBVIOUS
    <2>1. k + 1 \in 1 .. N /\ k + 1 > k
      BY <1>1, <1>2
    <2>2. ints[k + 1][1] > b /\ ints[k + 1][1] # b + 1
      BY <2>1, <1>1
    <2>3. ints[k + 1][1] \in Nat /\ ints[k + 1][2] \in Nat /\ ints[i][1] \in Nat
          /\ ints[k + 1][1] <= ints[k + 1][2]
      BY <2>1, <1>2
    <2>4. b + 1 < ints[k + 1][1]
      BY <2>2, <2>3
    <2>5. i = k + 1 \/ k + 1 < i
      BY <1>1, <1>2
    <2>6. i = k + 1 \/ ints[k + 1][2] + 1 < ints[i][1]
      BY <2>5, <2>1, <1>2
    <2> QED
      BY <2>3, <2>4, <2>6
  <1>3. CASE prev /\ next
    <2> DEFINE p == <<ints[k][1], ints[k + 1][2]>>
               u == [ints EXCEPT ![k] = p]
               v == RemoveAt(ints, k + 1)
    <2>1. k \in 1 .. N /\ k + 1 \in 1 .. N /\ k \in 1 .. N - 1 /\ t = RemoveAt(u, k + 1)
      BY <1>t, <1>3, <1>a, <1>b, <1>2
    <2>2. /\ ints[k][1] \in Nat /\ ints[k][2] \in Nat /\ ints[k][1] <= ints[k][2]
          /\ ints[k + 1][1] \in Nat /\ ints[k + 1][2] \in Nat /\ ints[k + 1][1] <= ints[k + 1][2]
          /\ ints[k][2] + 1 = b /\ ints[k + 1][1] = b + 1
      BY <2>1, <1>2, <1>a, <1>b, <1>3
    <2>3. p \in Nat \X Nat
      BY <2>2
    <2> HIDE DEF p
    <2>4. u \in Seq(Nat \X Nat) /\ Len(u) = N /\ \A j \in 1 .. N : u[j] = IF j = k THEN p ELSE ints[j]
      BY <2>1, <2>3, <1>2
    <2>5. Runs(v) /\ Len(v) = N - 1 /\ \A x \in Nat : Covers(v, x) <=> Others(ints, k + 1, x)
      BY <2>1, DeleteRuns
    <2>6. v \in Seq(Nat \X Nat)
          /\ \A j \in 1 .. N - 1 : v[j] = IF j < k + 1 THEN ints[j] ELSE ints[j + 1]
      <3>1. IsRemove(v, Nat \X Nat, ints, k + 1)
        BY <2>1, <1>2, RemoveAtProperties
      <3> QED
        BY <3>1, Zenon DEF IsRemove
    <2> HIDE DEF u, v
    <2>7. t \in Seq(Nat \X Nat) /\ Len(t) = N - 1
          /\ \A j \in 1 .. N - 1 : t[j] = IF j < k + 1 THEN u[j] ELSE u[j + 1]
      <3>1. IsRemove(t, Nat \X Nat, u, k + 1)
        BY <2>1, <2>4, RemoveAtProperties
      <3> QED
        BY <3>1, <2>4, Zenon DEF IsRemove
    <2>8. ASSUME NEW j \in 1 .. N - 1
          PROVE  t[j] = IF j = k THEN p ELSE v[j]
      <3>1. j \in 1 .. N /\ j + 1 \in 1 .. N
        BY <1>2
      <3>2. CASE j < k + 1
        <4>1. t[j] = u[j] /\ v[j] = ints[j]
          BY <3>2, <2>6, <2>7
        <4> QED
          BY <4>1, <3>1, <2>4
      <3>3. CASE ~(j < k + 1)
        <4>1. t[j] = u[j + 1] /\ v[j] = ints[j + 1]
          BY <3>3, <2>6, <2>7
        <4>2. j # k /\ j + 1 # k
          BY <3>3, <2>1
        <4> QED
          BY <4>1, <4>2, <3>1, <2>4
      <3> QED
        BY <3>2, <3>3
    <2>9. t = [v EXCEPT ![k] = p]
      <3> DEFINE w == [v EXCEPT ![k] = p]
      <3>1. w \in Seq(Nat \X Nat) /\ Len(w) = N - 1
            /\ \A j \in 1 .. N - 1 : w[j] = IF j = k THEN p ELSE v[j]
        BY <2>1, <2>3, <2>5, <2>6, SMTT(30)
      <3> HIDE DEF w
      <3>2. \A j \in 1 .. N - 1 : t[j] = w[j]
        BY <3>1, <2>8
      <3>3. t = w
        <4>1. DOMAIN t = 1 .. N - 1 /\ DOMAIN w = 1 .. N - 1
          BY <3>1, <2>7
        <4>2. t = [j \in DOMAIN t |-> t[j]] /\ w = [j \in DOMAIN w |-> w[j]]
          BY <3>1, <2>7
        <4> QED
          BY <4>1, <4>2, <3>2
      <3> QED
        BY <3>3 DEF w
    <2>10. v[k] = ints[k]
      BY <2>1, <2>6
    <2>11. Gap(v, k, k + 1, ints[k][1], ints[k + 1][2])
      <3>1. ASSUME NEW i \in 1 .. N - 1, i < k
            PROVE  v[i][2] + 1 < ints[k][1]
        <4>1. v[i] = ints[i] /\ i \in 1 .. N
          BY <3>1, <2>1, <2>6
        <4> QED
          BY <4>1, <3>1, <2>1, <1>2
      <3>2. ASSUME NEW i \in 1 .. N - 1, i >= k + 1
            PROVE  ints[k + 1][2] + 1 < v[i][1]
        <4>1. v[i] = ints[i + 1] /\ i + 1 \in 1 .. N /\ k + 1 < i + 1
          BY <3>2, <2>1, <2>6
        <4> QED
          BY <4>1, <2>1, <1>2
      <3>3. ints[k][1] <= ints[k + 1][2]
        BY <2>2
      <3> QED
        BY <3>1, <3>2, <3>3, <2>2, <2>5 DEF Gap
    <2>12. Runs(t) /\ \A x \in Nat : Covers(t, x)
                                      <=> Others(v, k, x) \/ (ints[k][1] <= x /\ x <= ints[k + 1][2])
      BY <2>1, <2>5, <2>9, <2>11, ReplaceRuns DEF p
    <2>13. ASSUME NEW x \in Nat
           PROVE  Covers(t, x) <=> Covers(ints, x) \/ x = b
      <3>1. Covers(v, x) <=> Others(v, k, x) \/ (ints[k][1] <= x /\ x <= ints[k][2])
        BY <2>1, <2>5, <2>10, CoversSplit
      <3>2. Covers(ints, x) <=> Others(ints, k + 1, x) \/ (ints[k + 1][1] <= x /\ x <= ints[k + 1][2])
        BY <2>1, CoversSplit
      <3>3. (ints[k][1] <= x /\ x <= ints[k + 1][2])
              <=> \/ ints[k][1] <= x /\ x <= ints[k][2]
                  \/ ints[k + 1][1] <= x /\ x <= ints[k + 1][2]
                  \/ x = b
        BY <2>2
      <3> QED
        BY <3>1, <3>2, <3>3, <2>5, <2>12
    <2> QED
      BY <2>12, <2>13 DEF t
  <1>4. CASE prev /\ ~next
    <2>1. t = [ints EXCEPT ![k] = <<ints[k][1], b>>] /\ k \in 1 .. N
      BY <1>t, <1>4, <1>a
    <2>2. Gap(ints, k, k + 1, ints[k][1], b)
      <3>0. ints[k][1] \in Nat /\ ints[k][2] \in Nat /\ ints[k][1] <= ints[k][2]
        BY <2>1, <1>2
      <3>1. ints[k][1] \in Nat /\ ints[k][1] <= b
        BY <3>0, <1>a, <1>4
      <3>2. \A i \in 1 .. N : i < k => ints[i][2] + 1 < ints[k][1]
        BY <2>1, <1>2
      <3>3. \A i \in 1 .. N : i >= k + 1 => b + 1 < ints[i][1]
        BY <1>d, <1>4, <2>1
      <3> QED
        BY <3>1, <3>2, <3>3 DEF Gap
    <2>3. Runs(t) /\ \A x \in Nat : Covers(t, x) <=> Others(ints, k, x) \/ (ints[k][1] <= x /\ x <= b)
      BY <2>1, <2>2, ReplaceRuns
    <2>4. ASSUME NEW x \in Nat
          PROVE  (ints[k][1] <= x /\ x <= b) <=> (ints[k][1] <= x /\ x <= ints[k][2]) \/ x = b
      BY <2>1, <1>1, <1>2, <1>a, <1>4
    <2>5. \A x \in Nat : Covers(t, x) <=> Covers(ints, x) \/ x = b
      BY <2>1, <2>3, <2>4, CoversSplit
    <2> QED
      BY <2>3, <2>5 DEF t
  <1>5. CASE ~prev /\ next
    <2>1. t = [ints EXCEPT ![k + 1] = <<b, ints[k + 1][2]>>] /\ k + 1 \in 1 .. N
      BY <1>t, <1>5, <1>b
    <2>2. Gap(ints, k + 1, (k + 1) + 1, b, ints[k + 1][2])
      <3>1. ints[k + 1][2] \in Nat /\ b <= ints[k + 1][2]
        BY <2>1, <1>1, <1>2, <1>b, <1>5
      <3>2. \A i \in 1 .. N : i < k + 1 => ints[i][2] + 1 < b
        BY <1>c, <1>5, <1>1
      <3>3. \A i \in 1 .. N : i >= (k + 1) + 1 => ints[k + 1][2] + 1 < ints[i][1]
        <4>1. \A i \in 1 .. N : i >= (k + 1) + 1 => k + 1 < i
          BY <1>1
        <4> QED
          BY <4>1, <2>1, <1>2
      <3> QED
        BY <3>1, <3>2, <3>3 DEF Gap
    <2>3. Runs(t) /\ \A x \in Nat : Covers(t, x)
                                     <=> Others(ints, k + 1, x) \/ (b <= x /\ x <= ints[k + 1][2])
      BY <2>1, <2>2, ReplaceRuns
    <2>4. ASSUME NEW x \in Nat
          PROVE  (b <= x /\ x <= ints[k + 1][2])
                   <=> (ints[k + 1][1] <= x /\ x <= ints[k + 1][2]) \/ x = b
      BY <2>1, <1>1, <1>2, <1>b, <1>5, SMTT(30)
    <2>5. \A x \in Nat : Covers(t, x) <=> Covers(ints, x) \/ x = b
      BY <2>1, <2>3, <2>4, CoversSplit
    <2> QED
      BY <2>3, <2>5 DEF t
  <1>6. CASE ~prev /\ ~next
    <2>1. t = InsertAt(ints, k + 1, <<b, b>>) /\ k + 1 \in 1 .. N + 1
      BY <1>t, <1>6, <1>1, <1>2, SMTT(30)
    <2>2. Gap(ints, k + 1, k + 1, b, b)
      <3>1. \A i \in 1 .. N : i < k + 1 => ints[i][2] + 1 < b
        BY <1>c, <1>6, <1>1
      <3>2. \A i \in 1 .. N : i >= k + 1 => b + 1 < ints[i][1]
        BY <1>d, <1>6, <1>1
      <3> QED
        BY <3>1, <3>2 DEF Gap
    <2>3. Runs(t) /\ \A x \in Nat : Covers(t, x) <=> Covers(ints, x) \/ (b <= x /\ x <= b)
      BY <2>1, <2>2, InsertRuns
    <2>4. \A x \in Nat : (b <= x /\ x <= b) <=> x = b
      OBVIOUS
    <2> QED
      BY <2>3, <2>4 DEF t
  <1> QED
    BY <1>3, <1>4, <1>5, <1>6

\* bisect_right finds the interval that holds a free block.
LEMMA HoldingInterval ==
    ASSUME NEW ints, NEW b \in Nat, Runs(ints), Covers(ints, b)
    PROVE  LET k == Cardinality({i \in DOMAIN ints : ints[i][1] <= b})
           IN  k \in 1 .. Len(ints) /\ ints[k][1] <= b /\ b <= ints[k][2]
  <1> DEFINE N == Len(ints)
             K == {i \in DOMAIN ints : ints[i][1] <= b}
  <1>1. /\ N \in Nat /\ DOMAIN ints = 1 .. N
        /\ \A i \in 1 .. N : /\ ints[i][1] \in Nat /\ ints[i][2] \in Nat
                             /\ ints[i][1] <= ints[i][2]
        /\ \A i, j \in 1 .. N : i < j => ints[i][2] + 1 < ints[j][1]
    BY RunsAt
  <1>2. PICK m \in 1 .. N : ints[m][1] <= b /\ b <= ints[m][2]
    BY <1>1 DEF Covers
  <1>3. ASSUME NEW i \in 1 .. N
        PROVE  i \in K <=> i <= m
    <2>0. i \in Nat /\ m \in Nat /\ ints[i][1] \in Nat /\ ints[i][2] \in Nat
          /\ ints[m][1] \in Nat /\ ints[m][2] \in Nat /\ ints[i][1] <= ints[i][2]
      BY <1>1, <1>2
    <2>1. CASE i = m
      BY <2>1, <2>0, <1>1, <1>2
    <2>2. CASE i < m
      <3>1. ints[i][2] + 1 < ints[m][1]
        BY <2>2, <1>1
      <3> QED
        BY <3>1, <2>0, <2>2, <1>1, <1>2
    <2>3. CASE m < i
      <3>1. ints[m][2] + 1 < ints[i][1]
        BY <2>3, <1>1
      <3> QED
        BY <3>1, <2>0, <2>3, <1>1, <1>2
    <2> QED
      BY <2>0, <2>1, <2>2, <2>3
  <1>4. K = 1 .. m
    <2>1. \A i \in K : i \in 1 .. N
      BY <1>1
    <2> QED
      BY <2>1, <1>1, <1>3
  <1>5. Cardinality(K) = m
    <2>1. m \in Nat /\ 1 \in Int /\ m >= 1
      BY <1>1, <1>2
    <2>2. Cardinality(1 .. m) = m
      BY <2>1, FS_Interval
    <2> QED
      BY <1>4, <2>2
  <1> QED
    BY <1>2, <1>5

\* _remove_from_intervals
LEMMA RemoveFromIntervalsRuns ==
    ASSUME NEW ints, NEW b \in Nat, Runs(ints), Covers(ints, b)
    PROVE  /\ Runs(RemoveFromIntervals(ints, b))
           /\ \A x \in Nat : Covers(RemoveFromIntervals(ints, b), x) <=> Covers(ints, x) /\ x # b
  <1> DEFINE k == Cardinality({i \in DOMAIN ints : ints[i][1] <= b})
             N == Len(ints)
             s == ints[k][1]
             e == ints[k][2]
             t == RemoveFromIntervals(ints, b)
  <1>1. k \in 1 .. N /\ s <= b /\ b <= e
    BY HoldingInterval
  <1>t. t = CASE s = e            -> RemoveAt(ints, k)
              [] s # e /\ s = b   -> [ints EXCEPT ![k] = <<s + 1, e>>]
              [] s # e /\ e = b   -> [ints EXCEPT ![k] = <<s, e - 1>>]
              [] OTHER            -> InsertAt([ints EXCEPT ![k] = <<s, b - 1>>], k + 1, <<b + 1, e>>)
    BY DEF RemoveFromIntervals
  <1> HIDE DEF k, t
  <1>2. /\ ints \in Seq(Nat \X Nat) /\ N \in Nat /\ DOMAIN ints = 1 .. N
        /\ \A i \in 1 .. N : /\ ints[i][1] \in Nat /\ ints[i][2] \in Nat
                             /\ ints[i][1] <= ints[i][2]
        /\ \A i, j \in 1 .. N : i < j => ints[i][2] + 1 < ints[j][1]
    BY RunsAt
  <1>3. /\ s \in Nat /\ e \in Nat /\ s <= e
        /\ \A i \in 1 .. N : i < k => ints[i][2] + 1 < s
        /\ \A i \in 1 .. N : i >= k + 1 => e + 1 < ints[i][1]
        /\ \A i \in 1 .. N : ints[i][2] \in Nat /\ ints[i][1] \in Nat
    BY <1>1, <1>2
  <1>4. \A x : Covers(ints, x) <=> Others(ints, k, x) \/ (s <= x /\ x <= e)
    BY <1>1, CoversSplit
  <1>5. ~Others(ints, k, b)
    <2> SUFFICES ASSUME NEW i \in 1 .. N, i # k, ints[i][1] <= b, b <= ints[i][2]
                 PROVE  FALSE
      BY <1>2 DEF Others
    <2>1. i < k \/ i >= k + 1
      BY <1>1
    <2> QED
      BY <2>1, <1>1, <1>3, SMTT(30)
  <1> HIDE DEF s, e
  <1>6. CASE s = e
    <2>1. t = RemoveAt(ints, k)
      BY <1>t, <1>6
    <2>2. Runs(t) /\ \A x \in Nat : Covers(t, x) <=> Others(ints, k, x)
      BY <2>1, <1>1, DeleteRuns
    <2>3. \A x \in Nat : (s <= x /\ x <= e) <=> x = b
      BY <1>1, <1>3, <1>6
    <2> QED
      BY <2>2, <2>3, <1>4, <1>5 DEF t
  <1>7. CASE s # e /\ s = b
    <2>1. t = [ints EXCEPT ![k] = <<s + 1, e>>]
      BY <1>t, <1>7
    <2>2. Gap(ints, k, k + 1, s + 1, e)
      BY <1>3, <1>7 DEF Gap
    <2>3. Runs(t) /\ \A x \in Nat : Covers(t, x) <=> Others(ints, k, x) \/ (s + 1 <= x /\ x <= e)
      BY <2>1, <2>2, <1>1, ReplaceRuns
    <2>4. \A x \in Nat : (s + 1 <= x /\ x <= e) <=> (s <= x /\ x <= e) /\ x # b
      BY <1>3, <1>7
    <2> QED
      BY <2>3, <2>4, <1>4, <1>5 DEF t
  <1>8. CASE s # e /\ s # b /\ e = b
    <2>1. t = [ints EXCEPT ![k] = <<s, e - 1>>]
      BY <1>t, <1>8
    <2>2. Gap(ints, k, k + 1, s, e - 1)
      BY <1>3, <1>8 DEF Gap
    <2>3. Runs(t) /\ \A x \in Nat : Covers(t, x) <=> Others(ints, k, x) \/ (s <= x /\ x <= e - 1)
      BY <2>1, <2>2, <1>1, ReplaceRuns
    <2>4. \A x \in Nat : (s <= x /\ x <= e - 1) <=> (s <= x /\ x <= e) /\ x # b
      BY <1>3, <1>8
    <2> QED
      BY <2>3, <2>4, <1>4, <1>5 DEF t
  <1>9. CASE s # e /\ s # b /\ e # b
    <2> DEFINE u == [ints EXCEPT ![k] = <<s, b - 1>>]
    <2>1. t = InsertAt(u, k + 1, <<b + 1, e>>)
      BY <1>t, <1>9
    <2>2. s <= b - 1 /\ b - 1 \in Nat /\ b + 1 <= e /\ b + 1 \in Nat
      BY <1>1, <1>3, <1>9
    <2>3. Gap(ints, k, k + 1, s, b - 1)
      BY <2>2, <1>1, <1>3 DEF Gap
    <2>4. Runs(u) /\ Len(u) = N
          /\ \A x \in Nat : Covers(u, x) <=> Others(ints, k, x) \/ (s <= x /\ x <= b - 1)
      BY <2>3, <1>1, ReplaceRuns
    <2>5. \A i \in 1 .. N : u[i] = IF i = k THEN <<s, b - 1>> ELSE ints[i]
      BY <1>1, <1>2
    <2> HIDE DEF u
    <2>6. Gap(u, k + 1, k + 1, b + 1, e)
      <3>1. ASSUME NEW i \in 1 .. N, i < k + 1
            PROVE  u[i][2] + 1 < b + 1
        <4>1. CASE i = k
          <5>1. u[i][2] = b - 1
            BY <4>1, <2>5
          <5> QED
            BY <5>1
        <4>2. CASE i # k
          <5>1. u[i] = ints[i] /\ ints[i][2] + 1 < s
            BY <4>2, <3>1, <2>5, <1>1, <1>3
          <5> QED
            BY <5>1, <2>2, <1>3
        <4> QED
          BY <4>1, <4>2
      <3>2. ASSUME NEW i \in 1 .. N, i >= k + 1
            PROVE  e + 1 < u[i][1]
        <4>1. u[i] = ints[i]
          BY <3>2, <2>5, <1>1
        <4> QED
          BY <4>1, <3>2, <1>3
      <3> QED
        BY <3>1, <3>2, <2>2, <2>4, <1>3 DEF Gap
    <2>7. k + 1 \in 1 .. Len(u) + 1
      BY <2>4, <1>1, <1>2
    <2>8. Runs(t) /\ \A x \in Nat : Covers(t, x) <=> Covers(u, x) \/ (b + 1 <= x /\ x <= e)
      BY <2>1, <2>4, <2>6, <2>7, InsertRuns
    <2>9. \A x \in Nat : (s <= x /\ x <= b - 1) \/ (b + 1 <= x /\ x <= e)
                           <=> (s <= x /\ x <= e) /\ x # b
      BY <2>2, <1>1, <1>3
    <2> QED
      BY <2>4, <2>8, <2>9, <1>4, <1>5 DEF t
  <1> QED
    BY <1>6, <1>7, <1>8, <1>9

-----------------------------------------------------------------------------
(* The free queue *)

LEMMA AddBlockOK ==
    ASSUME NEW q, QueueOK(q), NEW b \in Nat
    PROVE  QueueOK(AddBlock(q, b)) /\ AddBlock(q, b).free = q.free \cup {b}
  <1>1. CASE b \in q.free
    BY <1>1 DEF AddBlock
  <1>2. CASE b \notin q.free
    <2> DEFINE t == AddToIntervals(q.ints, b)
               new == [free |-> q.free \cup {b}, ints |-> t]
    <2>1. AddBlock(q, b) = new /\ new.free = q.free \cup {b} /\ new.ints = t
      BY <1>2 DEF AddBlock
    <2>2. Runs(q.ints) /\ ~Covers(q.ints, b) /\ q.free \in SUBSET Nat
          /\ \A x \in Nat : x \in q.free <=> Covers(q.ints, x)
      BY <1>2 DEF QueueOK
    <2>3. Runs(t) /\ \A x \in Nat : Covers(t, x) <=> Covers(q.ints, x) \/ x = b
      BY <2>2, AddToIntervalsRuns
    <2> HIDE DEF t
    <2>4. QueueOK(new)
      BY <2>1, <2>2, <2>3 DEF QueueOK
    <2> QED
      BY <2>1, <2>4
  <1> QED
    BY <1>1, <1>2

LEMMA RemoveBlockOK ==
    ASSUME NEW q, QueueOK(q), NEW b \in Nat
    PROVE  QueueOK(RemoveBlock(q, b)) /\ RemoveBlock(q, b).free = q.free \ {b}
  <1>1. CASE b \notin q.free
    BY <1>1 DEF RemoveBlock
  <1>2. CASE b \in q.free
    <2> DEFINE t == RemoveFromIntervals(q.ints, b)
               new == [free |-> q.free \ {b}, ints |-> t]
    <2>1. RemoveBlock(q, b) = new /\ new.free = q.free \ {b} /\ new.ints = t
      BY <1>2 DEF RemoveBlock
    <2>2. Runs(q.ints) /\ Covers(q.ints, b) /\ q.free \in SUBSET Nat
          /\ \A x \in Nat : x \in q.free <=> Covers(q.ints, x)
      BY <1>2 DEF QueueOK
    <2>3. Runs(t) /\ \A x \in Nat : Covers(t, x) <=> Covers(q.ints, x) /\ x # b
      BY <2>2, RemoveFromIntervalsRuns
    <2> HIDE DEF t
    <2>4. QueueOK(new)
      BY <2>1, <2>2, <2>3 DEF QueueOK
    <2> QED
      BY <2>1, <2>4
  <1> QED
    BY <1>1, <1>2

\* append_n and remove do for a list what add and remove do for each block.
LEMMA AppendNOK ==
    ASSUME NEW q, QueueOK(q), NEW blocks \in Seq(Nat)
    PROVE  QueueOK(AppendN(q, blocks)) /\ AppendN(q, blocks).free = q.free \cup Range(blocks)
  <1> DEFINE N == Len(blocks)
             Up(n, f) == f = [i \in 0 .. n |-> IF i = 0 THEN q ELSE AddBlock(f[i - 1], blocks[i])]
             S == {n \in 0 .. N : \E f : Up(n, f)}
  <1>0. N \in Nat /\ DOMAIN blocks = 1 .. N /\ \A i \in 1 .. N : blocks[i] \in Nat
    OBVIOUS
  <1>1. 0 \in S
    <2>1. Up(0, [i \in 0 .. 0 |-> q])
      OBVIOUS
    <2>2. 0 \in 0 .. N
      BY <1>0
    <2> QED
      BY <2>1, <2>2
  <1>2. ASSUME NEW m \in 1 .. N, m - 1 \in S
        PROVE  m \in S
    <2>1. PICK f : Up(m - 1, f)
      BY <1>2
    <2>2. m \in Nat /\ m # 0 /\ m \in 0 .. N /\ m - 1 \in Nat
      BY <1>0
    <2> DEFINE g == [i \in 0 .. m |-> IF i = m THEN AddBlock(f[m - 1], blocks[m]) ELSE f[i]]
    <2>3. ASSUME NEW i \in 0 .. m
          PROVE  g[i] = IF i = 0 THEN q ELSE AddBlock(g[i - 1], blocks[i])
      <3>1. CASE i = 0
        BY <3>1, <2>1, <2>2
      <3>2. CASE i # 0 /\ i # m
        <4>1. i \in 0 .. m - 1 /\ i - 1 \in 0 .. m /\ i - 1 # m
          BY <3>2, <2>2
        <4>2. g[i] = f[i] /\ g[i - 1] = f[i - 1]
          BY <3>2, <4>1
        <4>3. f[i] = AddBlock(f[i - 1], blocks[i])
          BY <2>1, <3>2, <4>1
        <4> QED
          BY <4>2, <4>3, <3>2
      <3>3. CASE i = m
        <4>1. m - 1 \in 0 .. m /\ m - 1 # m
          BY <2>2
        <4> QED
          BY <3>3, <4>1, <2>2
      <3> QED
        BY <3>1, <3>2, <3>3
    <2>4. Up(m, g)
      BY <2>3
    <2> QED
      BY <2>4, <2>2
  <1>3. \E f : Up(N, f)
    <2>1. \A i \in 1 .. N : i - 1 \in S => i \in S
      BY <1>2
    <2> HIDE DEF S
    <2>2. \A i \in 0 .. N : i \in S
      BY <1>0, <1>1, <2>1, RangeInduction
    <2>3. N \in S
      BY <1>0, <2>2
    <2> QED
      BY <2>3 DEF S
  <1> DEFINE after == CHOOSE f : Up(N, f)
  <1>4. Up(N, after)
    BY <1>3
  <1>5. AppendN(q, blocks) = after[N]
    BY DEF AppendN
  <1> HIDE DEF after
  <1>6. after[0] = q /\ \A i \in 1 .. N : after[i] = AddBlock(after[i - 1], blocks[i])
    <2>1. after = [i \in 0 .. N |-> IF i = 0 THEN q ELSE AddBlock(after[i - 1], blocks[i])]
      BY <1>4
    <2>2. \A i \in 0 .. N : after[i] = IF i = 0 THEN q ELSE AddBlock(after[i - 1], blocks[i])
      BY <2>1
    <2>3. 0 \in 0 .. N /\ \A i \in 1 .. N : i \in 0 .. N /\ i # 0
      BY <1>0
    <2> QED
      BY <2>2, <2>3
  <1> DEFINE Seen(i) == {blocks[j] : j \in 1 .. i}
             T == {i \in 0 .. N : QueueOK(after[i]) /\ after[i].free = q.free \cup Seen(i)}
  <1>7. 0 \in T
    <2>1. Seen(0) = {}
      OBVIOUS
    <2> QED
      BY <2>1, <1>0, <1>6
  <1>8. ASSUME NEW i \in 1 .. N, i - 1 \in T
        PROVE  i \in T
    <2>1. QueueOK(after[i - 1]) /\ after[i - 1].free = q.free \cup Seen(i - 1)
      BY <1>8
    <2>2. blocks[i] \in Nat /\ i \in 0 .. N
      BY <1>0
    <2>3. QueueOK(after[i]) /\ after[i].free = after[i - 1].free \cup {blocks[i]}
      <3>1. /\ QueueOK(AddBlock(after[i - 1], blocks[i]))
            /\ AddBlock(after[i - 1], blocks[i]).free = after[i - 1].free \cup {blocks[i]}
        BY <2>1, <2>2, AddBlockOK
      <3>2. after[i] = AddBlock(after[i - 1], blocks[i])
        BY <1>6
      <3> QED
        BY <3>1, <3>2
    <2>4. Seen(i) = Seen(i - 1) \cup {blocks[i]}
      <3>1. 1 .. i = (1 .. i - 1) \cup {i}
        BY <1>0
      <3> QED
        BY <3>1
    <2> HIDE DEF Seen
    <2>5. after[i].free = q.free \cup Seen(i)
      BY <2>1, <2>3, <2>4
    <2> QED
      BY <2>2, <2>3, <2>5
  <1>9. N \in T
    <2>1. \A i \in 1 .. N : i - 1 \in T => i \in T
      BY <1>8
    <2> HIDE DEF T
    <2>2. \A i \in 0 .. N : i \in T
      BY <1>0, <1>7, <2>1, RangeInduction
    <2> QED
      BY <1>0, <2>2
  <1>10. Seen(N) = Range(blocks)
    BY <1>0 DEF Range
  <1> QED
    BY <1>5, <1>9, <1>10

\* The same for the blocks that are touched or taken.
LEMMA RemoveNOK ==
    ASSUME NEW q, QueueOK(q), NEW blocks \in Seq(Nat)
    PROVE  QueueOK(RemoveN(q, blocks)) /\ RemoveN(q, blocks).free = q.free \ Range(blocks)
  <1> DEFINE N == Len(blocks)
             Up(n, f) == f = [i \in 0 .. n |-> IF i = 0 THEN q ELSE RemoveBlock(f[i - 1], blocks[i])]
             S == {n \in 0 .. N : \E f : Up(n, f)}
  <1>0. N \in Nat /\ DOMAIN blocks = 1 .. N /\ \A i \in 1 .. N : blocks[i] \in Nat
    OBVIOUS
  <1>1. 0 \in S
    <2>1. Up(0, [i \in 0 .. 0 |-> q])
      OBVIOUS
    <2>2. 0 \in 0 .. N
      BY <1>0
    <2> QED
      BY <2>1, <2>2
  <1>2. ASSUME NEW m \in 1 .. N, m - 1 \in S
        PROVE  m \in S
    <2>1. PICK f : Up(m - 1, f)
      BY <1>2
    <2>2. m \in Nat /\ m # 0 /\ m \in 0 .. N /\ m - 1 \in Nat
      BY <1>0
    <2> DEFINE g == [i \in 0 .. m |-> IF i = m THEN RemoveBlock(f[m - 1], blocks[m]) ELSE f[i]]
    <2>3. ASSUME NEW i \in 0 .. m
          PROVE  g[i] = IF i = 0 THEN q ELSE RemoveBlock(g[i - 1], blocks[i])
      <3>1. CASE i = 0
        BY <3>1, <2>1, <2>2
      <3>2. CASE i # 0 /\ i # m
        <4>1. i \in 0 .. m - 1 /\ i - 1 \in 0 .. m /\ i - 1 # m
          BY <3>2, <2>2
        <4>2. g[i] = f[i] /\ g[i - 1] = f[i - 1]
          BY <3>2, <4>1
        <4>3. f[i] = RemoveBlock(f[i - 1], blocks[i])
          BY <2>1, <3>2, <4>1
        <4> QED
          BY <4>2, <4>3, <3>2
      <3>3. CASE i = m
        <4>1. m - 1 \in 0 .. m /\ m - 1 # m
          BY <2>2
        <4> QED
          BY <3>3, <4>1, <2>2
      <3> QED
        BY <3>1, <3>2, <3>3
    <2>4. Up(m, g)
      BY <2>3
    <2> QED
      BY <2>4, <2>2
  <1>3. \E f : Up(N, f)
    <2>1. \A i \in 1 .. N : i - 1 \in S => i \in S
      BY <1>2
    <2> HIDE DEF S
    <2>2. \A i \in 0 .. N : i \in S
      BY <1>0, <1>1, <2>1, RangeInduction
    <2>3. N \in S
      BY <1>0, <2>2
    <2> QED
      BY <2>3 DEF S
  <1> DEFINE after == CHOOSE f : Up(N, f)
  <1>4. Up(N, after)
    BY <1>3
  <1>5. RemoveN(q, blocks) = after[N]
    BY DEF RemoveN
  <1> HIDE DEF after
  <1>6. after[0] = q /\ \A i \in 1 .. N : after[i] = RemoveBlock(after[i - 1], blocks[i])
    <2>1. after = [i \in 0 .. N |-> IF i = 0 THEN q ELSE RemoveBlock(after[i - 1], blocks[i])]
      BY <1>4
    <2>2. \A i \in 0 .. N : after[i] = IF i = 0 THEN q ELSE RemoveBlock(after[i - 1], blocks[i])
      BY <2>1
    <2>3. 0 \in 0 .. N /\ \A i \in 1 .. N : i \in 0 .. N /\ i # 0
      BY <1>0
    <2> QED
      BY <2>2, <2>3
  <1> DEFINE Seen(i) == {blocks[j] : j \in 1 .. i}
             T == {i \in 0 .. N : QueueOK(after[i]) /\ after[i].free = q.free \ Seen(i)}
  <1>7. 0 \in T
    <2>1. Seen(0) = {}
      OBVIOUS
    <2> QED
      BY <2>1, <1>0, <1>6
  <1>8. ASSUME NEW i \in 1 .. N, i - 1 \in T
        PROVE  i \in T
    <2>1. QueueOK(after[i - 1]) /\ after[i - 1].free = q.free \ Seen(i - 1)
      BY <1>8
    <2>2. blocks[i] \in Nat /\ i \in 0 .. N
      BY <1>0
    <2>3. QueueOK(after[i]) /\ after[i].free = after[i - 1].free \ {blocks[i]}
      <3>1. /\ QueueOK(RemoveBlock(after[i - 1], blocks[i]))
            /\ RemoveBlock(after[i - 1], blocks[i]).free = after[i - 1].free \ {blocks[i]}
        BY <2>1, <2>2, RemoveBlockOK
      <3>2. after[i] = RemoveBlock(after[i - 1], blocks[i])
        BY <1>6
      <3> QED
        BY <3>1, <3>2
    <2>4. Seen(i) = Seen(i - 1) \cup {blocks[i]}
      <3>1. 1 .. i = (1 .. i - 1) \cup {i}
        BY <1>0
      <3> QED
        BY <3>1
    <2> HIDE DEF Seen
    <2>5. after[i].free = q.free \ Seen(i)
      BY <2>1, <2>3, <2>4
    <2> QED
      BY <2>2, <2>3, <2>5
  <1>9. N \in T
    <2>1. \A i \in 1 .. N : i - 1 \in T => i \in T
      BY <1>8
    <2> HIDE DEF T
    <2>2. \A i \in 0 .. N : i \in T
      BY <1>0, <1>7, <2>1, RangeInduction
    <2> QED
      BY <1>0, <2>2
  <1>10. Seen(N) = Range(blocks)
    BY <1>0 DEF Range
  <1> QED
    BY <1>5, <1>9, <1>10

-----------------------------------------------------------------------------
(* The blocks that the queue hands out *)

\* Blocks 1 .. top are the ones an engine can hand out.
Usable(q, top) == QueueOK(q) /\ q.free \in SUBSET (1 .. top)

LEMMA UsableFinite ==
    ASSUME NEW top \in Nat, NEW q, Usable(q, top)
    PROVE  IsFiniteSet(q.free) /\ Cardinality(q.free) \in Nat /\ 0 \notin q.free
  <1>1. q.free \in SUBSET (1 .. top) /\ 0 \notin q.free
    BY DEF Usable
  <1> QED
    BY <1>1, FiniteWithin, FS_CardinalityType

\* popleft returns a free block, the null block once it has been taken never.
LEMMA PoppedFree ==
    ASSUME NEW top \in Nat, NEW q, Usable(q, top), q.free # {}, NEW size
    PROVE  Popped(q, size) \in q.free
  <1> DEFINE ints == q.ints
             N == Len(ints)
  <1>1. Runs(ints) /\ q.free \in SUBSET Nat /\ 0 \notin q.free
        /\ \A x \in Nat : x \in q.free <=> Covers(ints, x)
    BY UsableFinite DEF Usable, QueueOK
  <1>2. N \in Nat /\ DOMAIN ints = 1 .. N
        /\ \A i \in 1 .. N : ints[i][1] \in Nat /\ ints[i][2] \in Nat /\ ints[i][1] <= ints[i][2]
    BY <1>1, RunsAt
  <1>3. PICK x \in q.free : x \in Nat /\ Covers(ints, x)
    BY <1>1
  <1>4. N \in 1 .. N
    BY <1>2, <1>3 DEF Covers
  <1>5. Covers(ints, ints[N][2]) /\ ints[N][2] \in Nat
    <2>1. N \in DOMAIN ints /\ ints[N][1] <= ints[N][2] /\ ints[N][2] <= ints[N][2] /\ ints[N][2] \in Nat
      BY <1>2, <1>4
    <2> HIDE DEF ints, N
    <2> QED
      BY <2>1 DEF Covers
  <1>6. ints[N][2] \in q.free /\ ints[N][2] # 0
    BY <1>1, <1>5
  <1>7. Popped(q, size) = ints[N][2]
    BY <1>6, <1>1 DEF Popped, Untouched
  <1> QED
    BY <1>6, <1>7

\* s lists n different elements of S; none if n is not positive.
Lists(s, S, n) ==
    /\ s \in Seq(S) /\ IsInjective(s)
    /\ Len(s) = IF n > 0 THEN n ELSE 0

LEMMA SortedLists ==
    ASSUME NEW top \in Nat, NEW S \in SUBSET (1 .. top), NEW n \in Nat, Cardinality(S) = n
    PROVE  Lists(Sorted(S), S, n)
  <1> DEFINE Rank(b) == Cardinality({c \in S : c <= b})
             s == Sorted(S)
  <1>1. s = [i \in 1 .. n |-> CHOOSE b \in S : Rank(b) = i]
    BY DEF Sorted
  <1>2. \A i \in 1 .. n : \E b \in S : Rank(b) = i
    BY NthElement
  <1> HIDE DEF s, Rank
  <1>3. \A i \in 1 .. n : s[i] \in S /\ Rank(s[i]) = i
    BY <1>1, <1>2
  <1>4. s \in Seq(S) /\ Len(s) = n /\ DOMAIN s = 1 .. n
    BY <1>1, <1>3
  <1>5. IsInjective(s)
    BY <1>3, <1>4 DEF IsInjective
  <1>6. n = IF n > 0 THEN n ELSE 0
    OBVIOUS
  <1> QED
    BY <1>4, <1>5, <1>6 DEF Lists, s

\* Several calls of popleft return different free blocks.
LEMMA PoppedEachFree ==
    ASSUME NEW top \in Nat, NEW q, Usable(q, top), NEW size,
           NEW N \in Nat, N <= Cardinality(q.free)
    PROVE  /\ PoppedEach(q, N, size) \in SUBSET q.free
           /\ Cardinality(PoppedEach(q, N, size)) = N
  <1> DEFINE Step(p) == RemoveBlock(p, Popped(p, size))
             Up(n, f) == f = [i \in 0 .. n |-> IF i = 0 THEN q ELSE Step(f[i - 1])]
             S == {n \in 0 .. N : \E f : Up(n, f)}
  <1>1. 0 \in S
    <2>1. Up(0, [i \in 0 .. 0 |-> q])
      OBVIOUS
    <2>2. 0 \in 0 .. N
      OBVIOUS
    <2> QED
      BY <2>1, <2>2
  <1>2. ASSUME NEW m \in 1 .. N, m - 1 \in S
        PROVE  m \in S
    <2>1. PICK f : Up(m - 1, f)
      BY <1>2
    <2>2. m \in Nat /\ m # 0 /\ m \in 0 .. N /\ m - 1 \in Nat
      OBVIOUS
    <2> HIDE DEF Step
    <2> DEFINE g == [i \in 0 .. m |-> IF i = m THEN Step(f[m - 1]) ELSE f[i]]
    <2>3. ASSUME NEW i \in 0 .. m
          PROVE  g[i] = IF i = 0 THEN q ELSE Step(g[i - 1])
      <3>1. CASE i = 0
        BY <3>1, <2>1, <2>2
      <3>2. CASE i # 0 /\ i # m
        <4>1. i \in 0 .. m - 1 /\ i - 1 \in 0 .. m /\ i - 1 # m
          BY <3>2, <2>2
        <4>2. g[i] = f[i] /\ g[i - 1] = f[i - 1]
          BY <3>2, <4>1
        <4>3. f[i] = Step(f[i - 1])
          BY <2>1, <3>2, <4>1
        <4> QED
          BY <4>2, <4>3, <3>2
      <3>3. CASE i = m
        <4>1. m - 1 \in 0 .. m /\ m - 1 # m
          BY <2>2
        <4> QED
          BY <3>3, <4>1, <2>2
      <3> QED
        BY <3>1, <3>2, <3>3
    <2>4. Up(m, g)
      BY <2>3
    <2> QED
      BY <2>4, <2>2
  <1>3. \E f : Up(N, f)
    <2>1. \A i \in 1 .. N : i - 1 \in S => i \in S
      BY <1>2
    <2> HIDE DEF S
    <2>2. \A i \in 0 .. N : i \in S
      BY <1>1, <2>1, RangeInduction
    <2>3. N \in S
      BY <2>2
    <2> QED
      BY <2>3 DEF S
  <1> DEFINE after == CHOOSE f : Up(N, f)
             Out(i) == Popped(after[i - 1], size)
             Outs(i) == {Out(j) : j \in 1 .. i}
  <1>4. Up(N, after)
    BY <1>3
  <1>5. PoppedEach(q, N, size) = Outs(N)
    BY DEF PoppedEach
  <1> HIDE DEF after
  <1>6. after[0] = q /\ \A i \in 1 .. N : after[i] = RemoveBlock(after[i - 1], Out(i))
    <2>1. after = [i \in 0 .. N |-> IF i = 0 THEN q ELSE RemoveBlock(after[i - 1], Popped(after[i - 1], size))]
      BY <1>4
    <2>2. \A i \in 0 .. N : after[i] = IF i = 0 THEN q ELSE RemoveBlock(after[i - 1], Popped(after[i - 1], size))
      BY <2>1
    <2>3. 0 \in 0 .. N /\ \A i \in 1 .. N : i \in 0 .. N /\ i # 0
      OBVIOUS
    <2> QED
      BY <2>2, <2>3
  <1>7. Outs(0) = {} /\ \A i \in 1 .. N : Outs(i) = Outs(i - 1) \cup {Out(i)}
    <2>1. \A i \in 1 .. N : 1 .. i = (1 .. i - 1) \cup {i}
      OBVIOUS
    <2> QED
      BY <2>1
  <1> HIDE DEF Out, Outs
  <1> DEFINE Inv(i) == /\ Usable(after[i], top)
                       /\ after[i].free = q.free \ Outs(i)
                       /\ Outs(i) \in SUBSET q.free
                       /\ IsFiniteSet(Outs(i)) /\ Cardinality(Outs(i)) = i
                       /\ Cardinality(after[i].free) = Cardinality(q.free) - i
             T == {i \in 0 .. N : Inv(i)}
  <1>8. IsFiniteSet(q.free) /\ Cardinality(q.free) \in Nat
    BY UsableFinite
  <1>9. 0 \in T
    <2>1. Inv(0)
      BY <1>6, <1>7, <1>8, FS_EmptySet
    <2>2. 0 \in 0 .. N
      OBVIOUS
    <2> HIDE DEF Inv
    <2> QED
      BY <2>1, <2>2
  <1>10. ASSUME NEW i \in 1 .. N, i - 1 \in T
         PROVE  i \in T
    <2> DEFINE p == after[i - 1]
               b == Out(i)
    <2>1. Inv(i - 1) /\ i \in 0 .. N /\ i \in Nat
      BY <1>10
    <2>2. IsFiniteSet(p.free) /\ Cardinality(p.free) \in Nat
      BY <2>1, UsableFinite
    <2>3. Cardinality(p.free) = Cardinality(q.free) - (i - 1) /\ Cardinality(p.free) > 0
      BY <2>1, <1>8
    <2>4. p.free # {}
      BY <2>3, FS_EmptySet
    <2>5. b \in p.free
      BY <2>1, <2>4, PoppedFree DEF Out
    <2>6. b \in Nat /\ b \in q.free /\ b \notin Outs(i - 1) /\ QueueOK(p) /\ p.free \in SUBSET (1 .. top)
      BY <2>1, <2>5 DEF Usable
    <2>7. QueueOK(RemoveBlock(p, b)) /\ RemoveBlock(p, b).free = p.free \ {b}
      BY <2>6, RemoveBlockOK
    <2>8. after[i] = RemoveBlock(p, b)
      BY <1>6
    <2>9. Outs(i) = Outs(i - 1) \cup {b}
      BY <1>7
    <2>10. Usable(after[i], top) /\ after[i].free = p.free \ {b}
      BY <2>6, <2>7, <2>8 DEF Usable
    <2>11. after[i].free = q.free \ Outs(i) /\ Outs(i) \in SUBSET q.free
      BY <2>1, <2>6, <2>9, <2>10
    <2>12. IsFiniteSet(Outs(i)) /\ Cardinality(Outs(i)) = (i - 1) + 1
      BY <2>1, <2>6, <2>9, FS_AddElement
    <2>13. Cardinality(after[i].free) = Cardinality(p.free) - 1
      BY <2>2, <2>5, <2>10, FS_RemoveElement
    <2>14. Inv(i)
      BY <2>10, <2>11, <2>12, <2>13, <2>3, <2>1, <1>8
    <2> QED
      BY <2>14, <2>1
  <1>11. N \in T
    <2>1. \A i \in 1 .. N : i - 1 \in T => i \in T
      BY <1>10
    <2> HIDE DEF T
    <2>2. \A i \in 0 .. N : i \in T
      BY <1>9, <2>1, RangeInduction
    <2> QED
      BY <2>2
  <1> QED
    BY <1>5, <1>11

\* The smallest interval that fits exists.
LEMMA BestFitFits ==
    ASSUME NEW top \in Nat, NEW q, Usable(q, top), NEW size, NEW n \in Int,
           Fitting(q, n, size) # {}
    PROVE  BestFit(q, n, size) \in Fitting(q, n, size)
  <1> DEFINE F == Fitting(q, n, size)
             Z(i) == SizeOf(q, i, size)
             Best(i) == \A j \in F : Z(i) < Z(j) \/ (Z(i) = Z(j) /\ i <= j)
  <1>1. F \in SUBSET (1 .. Len(q.ints)) /\ Len(q.ints) \in Nat
    <2>1. DOMAIN q.ints = 1 .. Len(q.ints) /\ Len(q.ints) \in Nat
      BY RunsAt DEF Usable, QueueOK
    <2> QED
      BY <2>1 DEF Fitting
  <1>2. \A i \in F : Z(i) \in Nat
    <2>1. ASSUME NEW i \in F
          PROVE  Z(i) \in Nat
      <3>1. i \in 1 .. Len(q.ints) /\ q.ints[i][1] \in Nat /\ q.ints[i][2] \in Nat
            /\ q.ints[i][1] <= q.ints[i][2] /\ i \in DOMAIN q.ints
        BY <1>1, RunsAt DEF Usable, QueueOK
      <3>2. Covers(q.ints, q.ints[i][1])
        <4>1. q.ints[i][1] <= q.ints[i][1]
          BY <3>1
        <4> QED
          BY <3>1, <4>1 DEF Covers
      <3>3. q.ints[i][1] # 0
        BY <3>1, <3>2, UsableFinite DEF Usable, QueueOK
      <3>4. Z(i) = q.ints[i][2] - q.ints[i][1] + 1
        BY <3>3 DEF SizeOf, ActualStart
      <3> QED
        BY <3>1, <3>4
    <2> QED
      BY <2>1
  <1> HIDE DEF F, Z
  <1> DEFINE Sizes == {Z(i) : i \in F}
  <1>3. Sizes \in SUBSET Nat /\ Sizes # {}
    BY <1>2 DEF F
  <1>4. PICK z \in Sizes : \A y \in Sizes : z <= y
    BY <1>3, LeastNat
  <1> DEFINE Small == {i \in F : Z(i) = z}
  <1>5. Small \in SUBSET Nat /\ Small # {}
    BY <1>1, <1>4
  <1>6. PICK i \in Small : \A j \in Small : i <= j
    BY <1>5, LeastNat
  <1>7. i \in F /\ Best(i)
    <2>1. ASSUME NEW j \in F
          PROVE  Z(i) < Z(j) \/ (Z(i) = Z(j) /\ i <= j)
      <3>1. Z(i) = z /\ z <= Z(j) /\ Z(j) \in Nat /\ z \in Nat
        BY <1>2, <1>4, <1>6
      <3>2. CASE Z(j) = z
        BY <3>1, <3>2, <1>6
      <3>3. CASE Z(j) # z
        BY <3>1, <3>3
      <3> QED
        BY <3>2, <3>3
    <2> QED
      BY <2>1, <1>6
  <1>8. BestFit(q, n, size) = CHOOSE k \in F : Best(k)
    BY DEF BestFit, F, Z
  <1> HIDE DEF Best
  <1>9. (CHOOSE k \in F : Best(k)) \in F
    BY <1>7
  <1> QED
    BY <1>8, <1>9 DEF F

LEMMA ListOfOne ==
    ASSUME NEW S, NEW b, b \in S
    PROVE  <<b>> \in Seq(S) /\ Len(<<b>>) = 1
  OBVIOUS

\* popleft_n returns as many different free blocks as it was asked for.
LEMMA PoppedNFree ==
    ASSUME NEW top \in Nat, NEW q, Usable(q, top), NEW size,
           NEW n \in Int, n <= Cardinality(q.free)
    PROVE  Lists(PoppedN(q, n, size), q.free, n)
  <1>0. IsFiniteSet(q.free) /\ Cardinality(q.free) \in Nat /\ q.free \in SUBSET (1 .. top)
    BY UsableFinite DEF Usable
  <1>1. CASE n = 1
    <2> DEFINE b == Popped(q, size)
    <2>1. q.free # {}
      BY <1>0, <1>1, FS_EmptySet
    <2>2. b \in q.free
      BY <2>1, PoppedFree
    <2>3. PoppedN(q, n, size) = <<b>>
      BY <1>1 DEF PoppedN
    <2> HIDE DEF b
    <2>4. <<b>> \in Seq(q.free) /\ Len(<<b>>) = 1
      BY <2>2, ListOfOne
    <2>5. IsInjective(<<b>>)
      <3>1. DOMAIN <<b>> = 1 .. 1 /\ \A i, j \in 1 .. 1 : i = j
        OBVIOUS
      <3> QED
        BY <3>1 DEF IsInjective
    <2> QED
      BY <2>3, <2>4, <2>5, <1>1 DEF Lists
  <1>2. CASE n # 1 /\ Fitting(q, n, size) # {}
    <2> DEFINE k == BestFit(q, n, size)
               s == ActualStart(q, k, size)
               t == [i \in 1 .. n |-> s + i - 1]
    <2>1. k \in Fitting(q, n, size)
      BY <1>2, BestFitFits
    <2>2. PoppedN(q, n, size) = t
      BY <1>2 DEF PoppedN
    <2>3. k \in DOMAIN q.ints /\ SizeOf(q, k, size) >= n
      BY <2>1 DEF Fitting
    <2> HIDE DEF k
    <2>4. q.ints[k][1] \in Nat /\ q.ints[k][2] \in Nat /\ q.ints[k][1] <= q.ints[k][2]
      BY <2>3, RunsAt DEF Usable, QueueOK
    <2>5. \A x \in Nat : q.ints[k][1] <= x /\ x <= q.ints[k][2] => x \in q.free
      BY <2>3 DEF Usable, QueueOK, Covers
    <2>6. q.ints[k][1] # 0
      <3>1. q.ints[k][1] \in q.free
        BY <2>4, <2>5
      <3> QED
        BY <3>1, <1>0
    <2>7. s = q.ints[k][1] /\ SizeOf(q, k, size) = q.ints[k][2] - s + 1
      BY <2>6 DEF ActualStart, SizeOf
    <2> HIDE DEF s
    <2>8. \A i \in 1 .. n : t[i] \in Nat /\ q.ints[k][1] <= t[i] /\ t[i] <= q.ints[k][2]
      BY <2>3, <2>4, <2>7
    <2>9. \A i \in 1 .. n : t[i] \in q.free
      BY <2>5, <2>8
    <2>10. t \in Seq(q.free) /\ Len(t) = IF n > 0 THEN n ELSE 0
      <3>1. CASE n > 0
        <4>1. n \in Nat
          BY <3>1
        <4>2. t \in [1 .. n -> q.free]
          BY <2>9
        <4> HIDE DEF t
        <4> QED
          BY <4>1, <4>2, <3>1
      <3>2. CASE ~(n > 0)
        <4>1. 1 .. n = {}
          BY <3>2
        <4>2. t = <<>>
          BY <4>1
        <4> HIDE DEF t
        <4> QED
          BY <4>2, <3>2
      <3> QED
        BY <3>1, <3>2
    <2>11. IsInjective(t)
      <3>1. DOMAIN t = 1 .. n /\ \A i, j \in 1 .. n : t[i] = t[j] => i = j
        BY <2>4, <2>7
      <3> HIDE DEF t
      <3> QED
        BY <3>1 DEF IsInjective
    <2> HIDE DEF t
    <2> QED
      BY <2>2, <2>10, <2>11 DEF Lists
  <1>3. CASE n # 1 /\ Fitting(q, n, size) = {}
    <2> DEFINE P == PoppedEach(q, n, size)
    <2>1. PoppedN(q, n, size) = Sorted(P)
      BY <1>3 DEF PoppedN
    <2>2. CASE n >= 0
      <3>1. P \in SUBSET q.free /\ Cardinality(P) = n /\ n \in Nat
        BY <2>2, PoppedEachFree
      <3>2. P \in SUBSET (1 .. top)
        BY <3>1, <1>0
      <3> HIDE DEF P
      <3>3. Lists(Sorted(P), P, n)
        BY <3>1, <3>2, SortedLists
      <3> DEFINE s == Sorted(P)
      <3> HIDE DEF s
      <3>4. s \in Seq(q.free)
        <4>1. s \in Seq(P)
          BY <3>3 DEF Lists, s
        <4> QED
          BY <4>1, <3>1
      <3> QED
        BY <3>3, <3>4, <2>1 DEF Lists, s
    <2>3. CASE ~(n >= 0)
      <3>1. 1 .. n = {}
        BY <2>3
      <3>2. P = {}
        BY <3>1 DEF PoppedEach
      <3>3. Lists(Sorted({}), {}, 0)
        BY FS_EmptySet, SortedLists
      <3>4. Lists(Sorted({}), q.free, n)
        <4> DEFINE s == Sorted({})
        <4> HIDE DEF s
        <4>1. s \in Seq({}) /\ Len(s) = 0
          BY <3>3 DEF Lists, s
        <4>2. s = <<>>
          BY <4>1
        <4>3. s \in Seq(q.free) /\ Len(s) = IF n > 0 THEN n ELSE 0
          BY <4>2, <2>3
        <4> QED
          BY <4>3, <3>3 DEF Lists, s
      <3> QED
        BY <2>1, <3>2, <3>4
    <2> QED
      BY <2>2, <2>3
  <1> QED
    BY <1>1, <1>2, <1>3

-----------------------------------------------------------------------------
(* The invariant *)

Keys == {None} \cup UNION {Range(Key[r]) : r \in Reqs}
KVs == [key : Keys, n : Int]
Items == [r : Reqs, kv : Seq(KVs)]

EngineType(size) ==
    [size : {size}, run : Seq(Reqs), wait : Seq(Reqs), fin : BOOLEAN, batch : SUBSET Reqs,
     pool : [free : SUBSET Nat, ints : Seq(Nat \X Nat)],
     hash : [0 .. size - 1 -> Keys], kv : [0 .. size - 1 -> KVs],
     blk  : [Reqs -> Seq(1 .. size - 1)]]

Held(e) == UNION {Range(e.blk[r]) : r \in Reqs}

\* An engine's free blocks are the ones no request holds, its intervals the
\* maximal runs of them, and the null block is filed under nothing.
EngineOK(e, size) ==
    /\ e \in EngineType(size) /\ QueueOK(e.pool)
    /\ e.pool.free = (1 .. size - 1) \ Held(e)
    /\ e.hash[0] = None

Objects ==
    [Reqs -> [st : {"away", "new", "running", "preempted", "finished"},
              comp : Nat, out : Seq(Nat), ok : BOOLEAN]]
PSteps ==
    [pc : {"top", "schedule", "gather", "put", "update", "remove"},
     sched : Seq(Reqs), num : [Reqs -> Nat], budget : Nat,
     sampled : Seq(Reqs), map : Seq(Items), over : SUBSET Reqs]
DSteps ==
    [pc : {"top", "take", "run"}, block : BOOLEAN, idx : Nat, preempted : BOOLEAN,
     budget : Nat, num : [Reqs -> Nat]]

Typed ==
    /\ obj \in Objects /\ known \in SUBSET Reqs /\ adding \in Reqs \cup {None}
    /\ EngineOK(pre, PBlocks) /\ pstep \in PSteps
    /\ tq \in Seq(Seq(Items)) /\ hand \in Seq([d : Decoders, it : Items])
    /\ dq \in [Decoders -> Seq(Items)]
    /\ dec \in [Decoders -> EngineType(DBlocks)]
    /\ \A d \in Decoders : EngineOK(dec[d], DBlocks)
    /\ dstep \in [Decoders -> DSteps]
    /\ sent \in [Reqs -> Seq(Nat)] /\ done \in SUBSET Reqs /\ lost \in SUBSET Reqs
    /\ ~killed

\* The prefill thread is between the put of the sampled requests and the end
\* of its step.
Putting == pstep.pc \in {"update", "remove"}
Sampled(r) == r \in Range(pstep.sampled)

InTq(r) == \E i \in DOMAIN tq : \E k \in DOMAIN tq[i] : tq[i][k].r = r
InHand(r) == \E i \in DOMAIN hand : hand[i].it.r = r
InDq(d, r) == \E i \in DOMAIN dq[d] : dq[d][i].r = r

\* Request r is in the one queue that hm names, of decode engine en if it has
\* one. A request that was put stays in the prefill scheduler for a while.
Homes == {"away", "wait", "run", "tq", "hand", "dq", "drun", "dwait", "gone"}
LocatedAt(hm, en, r) ==
    /\ obj[r].st = "away" => hm = "away"
    /\ r \in Range(pre.wait) => hm = "wait"
    /\ r \in Range(pre.run) => hm = "run" \/ (Putting /\ Sampled(r))
    /\ InTq(r) => hm = "tq"
    /\ InHand(r) => hm = "hand"
    /\ \A d \in Decoders : /\ InDq(d, r) => hm = "dq" /\ en = d
                           /\ r \in Range(dec[d].run) => hm = "drun" /\ en = d
                           /\ r \in Range(dec[d].wait) => hm = "dwait" /\ en = d

\* What the Request object and the client have of a request.
ProgressAt(hm, r) ==
    /\ obj[r].ok /\ \A i \in DOMAIN sent[r] : sent[r][i] = i
    /\ hm \in {"away", "wait", "run"} => obj[r].out = <<>> /\ sent[r] = <<>>
    /\ hm \in {"tq", "hand", "dq"} =>
         /\ obj[r].comp = PromptLen[r]
         /\ obj[r].out = IF pstep.pc = "update" /\ Sampled(r) THEN <<>> ELSE <<1>>
         /\ sent[r] = IF Putting /\ Sampled(r) THEN <<>> ELSE <<1>>
    /\ hm \in {"drun", "dwait"} =>
         /\ obj[r].out # <<>> /\ sent[r] = obj[r].out
         /\ NumTokens(r) <= TotalLen[r]

\* A sampled request on its way out of the prefill engine.
LeavingAt(hm, r) ==
    Sampled(r) =>
      /\ pstep.pc \in {"gather", "put"} =>
           r \in Range(pre.run) /\ hm = "run" /\ obj[r].comp = PromptLen[r]
      /\ pstep.pc \in {"put", "update", "remove"} => r \in known
      /\ Putting => hm \in {"tq", "hand", "dq"}
      /\ pstep.pc = "remove" /\ r \in Range(pre.run) => r \in Range(pstep.sched)

TrackedAt(hm, en, r) == LocatedAt(hm, en, r) /\ ProgressAt(hm, r) /\ LeavingAt(hm, r)
Tracked == \A r \in Reqs : \E hm \in Homes : \E en \in Decoders : TrackedAt(hm, en, r)

\* What a prefill step has sampled, and what it still has to take out.
Stepping ==
    /\ pstep.pc \in {"top", "schedule"} => pstep.sampled = <<>>
    /\ pstep.pc = "put" => /\ DOMAIN pstep.map = DOMAIN pstep.sampled
                           /\ \A i \in DOMAIN pstep.map : pstep.map[i].r = pstep.sampled[i]
    /\ pstep.pc = "remove" => Range(pstep.sched) \subseteq Range(pstep.sampled)

\* No queue holds a request twice.
Once ==
    /\ IsInjective(pre.wait) /\ IsInjective(pre.run) /\ IsInjective(pstep.sampled)
    /\ \A i, j \in DOMAIN tq : \A k \in DOMAIN tq[i] : \A l \in DOMAIN tq[j] :
         tq[i][k].r = tq[j][l].r => i = j /\ k = l
    /\ \A i, j \in DOMAIN hand : hand[i].it.r = hand[j].it.r => i = j
    /\ \A d \in Decoders : /\ \A i, j \in DOMAIN dq[d] : dq[d][i].r = dq[d][j].r => i = j
                           /\ IsInjective(dec[d].run) /\ IsInjective(dec[d].wait)

\* An item carries the KV of its whole prompt.
Whole(it) == Len(it.kv) = BlocksFor(PromptLen[it.r])
Carried ==
    /\ \A i \in DOMAIN pstep.map : Whole(pstep.map[i])
    /\ \A i \in DOMAIN tq : \A k \in DOMAIN tq[i] : Whole(tq[i][k])
    /\ \A i \in DOMAIN hand : Whole(hand[i].it)
    /\ \A d \in Decoders : \A i \in DOMAIN dq[d] : Whole(dq[d][i])

\* The prefill engine: a request has the blocks of the tokens it is computed
\* to, and the one prompt that is not yet whole has room for its rest.
Reach(r) == obj[r].comp + (IF pstep.pc = "schedule" THEN pstep.num[r] ELSE 0)
Short(r) == r \in Range(pre.run) /\ Reach(r) < PromptLen[r]
PrefillOne(r) ==
    /\ Len(pre.blk[r]) = BlocksFor(Reach(r)) /\ Reach(r) <= PromptLen[r]
    /\ Short(r) => BlocksFor(PromptLen[r]) - Len(pre.blk[r]) <= Cardinality(pre.pool.free)
    /\ pstep.pc # "schedule" /\ ~Sampled(r) => obj[r].comp < PromptLen[r]
    /\ pstep.pc = "schedule" /\ pstep.num[r] > 0 => Reach(r) = PromptLen[r] \/ pstep.budget = 0
    /\ pstep.pc = "schedule" /\ pstep.num[r] = 0 =>
         /\ \A q \in Range(pre.run) : q = r
         /\ obj[r].comp < PromptLen[r] /\ pstep.budget > 0
Prefilling ==
    /\ \A r \in Reqs : r \notin Range(pre.run) => pre.blk[r] = <<>>
    /\ \A r, q \in Reqs : Short(r) /\ Short(q) => q = r
    /\ \A r \in Reqs : r \in Range(pre.run) => PrefillOne(r)

\* A decode engine: the same, up to the tokens scheduled in this step.
DecodeOne(d, r) ==
    /\ Len(dec[d].blk[r]) = BlocksFor(obj[r].comp + dstep[d].num[r])
    /\ obj[r].comp + dstep[d].num[r] <= NumTokens(r)
DecodingAt(d) ==
    /\ \A r \in Reqs : r \notin Range(dec[d].run) => dec[d].blk[r] = <<>>
    /\ dstep[d].pc # "run" => dstep[d].num = [r \in Reqs |-> 0]
    /\ dstep[d].pc = "run" => dstep[d].idx # 0
    /\ \A i \in DOMAIN dec[d].run : i >= dstep[d].idx => dstep[d].num[dec[d].run[i]] = 0
    /\ \A r \in Reqs : r \in Range(dec[d].run) => DecodeOne(d, r)
Decoding == \A d \in Decoders : DecodingAt(d)

Inv == Typed /\ Once /\ Carried /\ Stepping /\ Prefilling /\ Decoding /\ Tracked

-----------------------------------------------------------------------------
(* Blocks of tokens *)

LEMMA BlocksForOK ==
    ASSUME NEW n \in Nat
    PROVE  /\ BlocksFor(n) \in Nat /\ n \div BlockSize \in Nat /\ n \div BlockSize <= BlocksFor(n)
           /\ n > 0 => BlocksFor(n) = ((n - 1) \div BlockSize) + 1
           /\ n = 0 => BlocksFor(n) = 0
  <1>1. BlockSize \in Nat \ {0}
    BY DisaggAssumption
  <1>2. n + BlockSize - 1 \in Nat /\ n <= n + BlockSize - 1
    BY <1>1
  <1>3. BlocksFor(n) \in Nat /\ n \div BlockSize \in Nat
    BY <1>1, <1>2, DivMod DEF BlocksFor
  <1>4. n \div BlockSize <= BlocksFor(n)
    BY <1>1, <1>2, DivMonotone DEF BlocksFor
  <1>5. ASSUME n > 0
        PROVE  BlocksFor(n) = ((n - 1) \div BlockSize) + 1
    <2> DEFINE m == n - 1
               k == m \div BlockSize
               j == m % BlockSize
    <2>1. m \in Nat
      BY <1>5
    <2>2. k \in Nat /\ j \in 0 .. BlockSize - 1 /\ m = BlockSize * k + j
      BY <1>1, <2>1, DivMod
    <2> HIDE DEF k, j
    <2>3. n + BlockSize - 1 = BlockSize * (k + 1) + j
      BY <1>1, <2>2, Z3
    <2>4. (n + BlockSize - 1) \div BlockSize = k + 1
      BY <1>1, <1>2, <2>2, <2>3, DivModUnique
    <2> QED
      BY <2>4 DEF BlocksFor, k
  <1>6. ASSUME n = 0
        PROVE  BlocksFor(n) = 0
    <2>1. n + BlockSize - 1 \in 0 .. BlockSize - 1
      BY <1>1, <1>6
    <2> QED
      BY <1>1, <2>1, ModSmall DEF BlocksFor
  <1> QED
    BY <1>3, <1>4, <1>5, <1>6

LEMMA BlocksForMonotone ==
    ASSUME NEW m \in Nat, NEW n \in Nat, m <= n
    PROVE  BlocksFor(m) <= BlocksFor(n)
  <1>1. BlockSize \in Nat \ {0}
    BY DisaggAssumption
  <1>2. m + BlockSize - 1 \in Nat /\ n + BlockSize - 1 \in Nat
        /\ m + BlockSize - 1 <= n + BlockSize - 1
    BY <1>1
  <1> QED
    BY <1>1, <1>2, DivMonotone DEF BlocksFor

\* What the blocks of a request are filed under.
LEMMA KeyOK ==
    ASSUME NEW r \in Reqs
    PROVE  /\ PromptLen[r] \in Nat \ {0} /\ TotalLen[r] \in Nat /\ PromptLen[r] < TotalLen[r]
           /\ Key[r] \in Seq(Keys) /\ IsInjective(Key[r]) /\ Len(Key[r]) = BlocksFor(TotalLen[r])
           /\ \A i \in 1 .. Len(Key[r]) : Key[r][i] \in Keys /\ Key[r][i] # None
  <1>1. /\ TotalLen[r] \in Nat /\ PromptLen[r] \in 1 .. TotalLen[r] - 1
        /\ Key[r] \in Seq(Range(Key[r])) /\ IsInjective(Key[r]) /\ None \notin Range(Key[r])
        /\ Len(Key[r]) = BlocksFor(TotalLen[r])
    BY DisaggAssumption
  <1>2. Range(Key[r]) \in SUBSET Keys
    BY DEF Keys
  <1>3. Key[r] \in Seq(Keys) /\ DOMAIN Key[r] = 1 .. Len(Key[r])
    BY <1>1, <1>2
  <1>4. \A i \in 1 .. Len(Key[r]) : Key[r][i] \in Range(Key[r])
    BY <1>3 DEF Range
  <1>5. PromptLen[r] \in Nat \ {0} /\ PromptLen[r] < TotalLen[r]
    BY <1>1
  <1> QED
    BY <1>1, <1>2, <1>3, <1>4, <1>5

\* get_computed_blocks finds blocks filed under the first keys, never the
\* null block, and leaves at least the last token to compute.
LEMMA HitOK ==
    ASSUME NEW size \in Nat \ {0}, NEW e, EngineOK(e, size), NEW r \in Reqs,
           NEW n \in 1 .. TotalLen[r]
    PROVE  /\ Hit(e, r, n) \in Seq(1 .. size - 1)
           /\ Len(Hit(e, r, n)) <= (n - 1) \div BlockSize
           /\ Len(Hit(e, r, n)) * BlockSize <= n - 1
           /\ \A i \in 1 .. Len(Hit(e, r, n)) : e.hash[Hit(e, r, n)[i]] = Key[r][i]
  <1> DEFINE Filed(h) == \E b \in DOMAIN e.hash : e.hash[b] = h
             most == (n - 1) \div BlockSize
             Ok(k) == (\A i \in 1 .. k : Filed(Key[r][i])) /\ (k < most => ~Filed(Key[r][k + 1]))
             kk == CHOOSE k \in 0 .. most : Ok(k)
             hit == [i \in 1 .. kk |-> CHOOSE b \in DOMAIN e.hash : e.hash[b] = Key[r][i]]
  <1>1. Hit(e, r, n) = hit
    BY DEF Hit
  <1>2. BlockSize \in Nat \ {0} /\ n - 1 \in Nat /\ n \in Nat /\ n > 0
    BY DisaggAssumption
  <1>3. most \in Nat /\ most * BlockSize <= n - 1
    <2> DEFINE j == (n - 1) % BlockSize
    <2>1. most \in Nat /\ j \in 0 .. BlockSize - 1 /\ n - 1 = BlockSize * most + j
      BY <1>2, DivMod
    <2> HIDE DEF j
    <2> HIDE DEF most
    <2> QED
      BY <2>1, <1>2, Z3
  <1>4. most <= Len(Key[r]) /\ Len(Key[r]) \in Nat
    <2>1. BlocksFor(n) = most + 1
      BY <1>2, BlocksForOK
    <2>2. TotalLen[r] \in Nat /\ Len(Key[r]) = BlocksFor(TotalLen[r])
      BY KeyOK
    <2>3. BlocksFor(n) <= BlocksFor(TotalLen[r]) /\ BlocksFor(TotalLen[r]) \in Nat
      <3>1. n <= TotalLen[r]
        BY <2>2
      <3> QED
        BY <1>2, <2>2, <3>1, BlocksForMonotone, BlocksForOK
    <2> HIDE DEF most
    <2> QED
      BY <2>1, <2>2, <2>3, <1>3
  <1>5. DOMAIN e.hash = 0 .. size - 1 /\ e.hash[0] = None
    BY DEF EngineOK, EngineType
  <1> HIDE DEF Filed, most
  <1>6. \E k \in 0 .. most : Ok(k)
    <2> DEFINE P == {k \in 0 .. most : \A i \in 1 .. k : Filed(Key[r][i])}
    <2>1. P \in SUBSET (0 .. most) /\ 0 \in P
      BY <1>3
    <2>2. PICK k \in P : \A j \in P : j <= k
      BY <2>1, <1>3, GreatestNat
    <2>3. k \in 0 .. most /\ \A i \in 1 .. k : Filed(Key[r][i])
      BY <2>2
    <2>4. ASSUME k < most, Filed(Key[r][k + 1])
          PROVE  FALSE
      <3>1. k + 1 \in 0 .. most /\ \A i \in 1 .. k + 1 : i \in 1 .. k \/ i = k + 1
        BY <2>3, <2>4, <1>3
      <3>2. \A i \in 1 .. k + 1 : Filed(Key[r][i])
        BY <2>3, <2>4, <3>1
      <3>3. k + 1 \in P
        BY <3>1, <3>2
      <3>4. k + 1 <= k
        BY <2>2, <3>3
      <3> QED
        BY <3>4, <2>3, <1>3
    <2> QED
      BY <2>3, <2>4
  <1>7. kk \in 0 .. most /\ Ok(kk)
    BY <1>6
  <1> HIDE DEF kk
  <1>8. ASSUME NEW i \in 1 .. kk
        PROVE  hit[i] \in 1 .. size - 1 /\ e.hash[hit[i]] = Key[r][i]
    <2>1. Filed(Key[r][i])
      BY <1>7
    <2>2. hit[i] \in DOMAIN e.hash /\ e.hash[hit[i]] = Key[r][i]
      BY <2>1 DEF Filed
    <2>3. i \in 1 .. Len(Key[r])
      BY <1>3, <1>4, <1>7
    <2>4. Key[r][i] # None
      BY <2>3, KeyOK
    <2>5. hit[i] # 0
      BY <2>2, <2>4, <1>5
    <2> HIDE DEF hit
    <2> QED
      BY <2>2, <2>5, <1>5
  <1>9. kk \in Nat /\ kk <= most /\ kk * BlockSize <= n - 1
    <2>1. kk \in Nat /\ kk <= most
      BY <1>3, <1>7
    <2>2. kk * BlockSize <= most * BlockSize
      BY <2>1, <1>2, <1>3, Z3
    <2> QED
      BY <2>1, <2>2, <1>2, <1>3, Z3
  <1>10. hit \in [1 .. kk -> 1 .. size - 1]
    BY <1>8
  <1> HIDE DEF hit
  <1>11. hit \in Seq(1 .. size - 1) /\ Len(hit) = kk
    BY <1>9, <1>10
  <1> QED
    BY <1>1, <1>8, <1>9, <1>11 DEF most

-----------------------------------------------------------------------------
(* What the operations of an engine do to it *)

LEMMA EngineFields ==
    ASSUME NEW size \in Nat \ {0}, NEW e, EngineOK(e, size)
    PROVE  /\ e \in EngineType(size) /\ e.size = size /\ Usable(e.pool, size - 1) /\ size - 1 \in Nat
           /\ e.run \in Seq(Reqs) /\ e.wait \in Seq(Reqs) /\ e.batch \in SUBSET Reqs
           /\ e.blk \in [Reqs -> Seq(1 .. size - 1)]
           /\ e.hash \in [0 .. size - 1 -> Keys] /\ e.kv \in [0 .. size - 1 -> KVs]
           /\ e.pool.free = (1 .. size - 1) \ Held(e)
           /\ IsFiniteSet(e.pool.free) /\ Cardinality(e.pool.free) \in Nat
  <1>1. /\ e \in EngineType(size) /\ e.size = size
        /\ e.run \in Seq(Reqs) /\ e.wait \in Seq(Reqs) /\ e.batch \in SUBSET Reqs
        /\ e.blk \in [Reqs -> Seq(1 .. size - 1)]
        /\ e.hash \in [0 .. size - 1 -> Keys] /\ e.kv \in [0 .. size - 1 -> KVs]
        /\ e.pool.free = (1 .. size - 1) \ Held(e)
    BY DEF EngineOK, EngineType
  <1>2. e.pool.free \in SUBSET (1 .. size - 1) /\ size - 1 \in Nat
    BY <1>1
  <1>3. Usable(e.pool, size - 1)
    BY <1>2 DEF EngineOK, Usable
  <1> QED
    BY <1>1, <1>2, <1>3, UsableFinite

LEMMA ConcatRange ==
    ASSUME NEW T, NEW s \in Seq(T), NEW t \in Seq(T)
    PROVE  /\ s \o t \in Seq(T) /\ Len(s \o t) = Len(s) + Len(t)
           /\ Len(s) \in Nat /\ Len(t) \in Nat
           /\ Range(s \o t) = Range(s) \cup Range(t)
  <1> DEFINE u == s \o t
  <1>1. /\ u \in Seq(T) /\ Len(u) = Len(s) + Len(t) /\ Len(s) \in Nat /\ Len(t) \in Nat
        /\ DOMAIN s = 1 .. Len(s) /\ DOMAIN t = 1 .. Len(t) /\ DOMAIN u = 1 .. Len(u)
    OBVIOUS
  <1>2. /\ \A i \in 1 .. Len(s) : u[i] = s[i]
        /\ \A i \in 1 .. Len(t) : u[Len(s) + i] = t[i]
    OBVIOUS
  <1> HIDE DEF u
  <1>3. \A i \in DOMAIN u : i \in DOMAIN s \/ (i - Len(s) \in DOMAIN t /\ i = Len(s) + (i - Len(s)))
    BY <1>1
  <1>4. /\ \A i \in DOMAIN s : i \in DOMAIN u
        /\ \A i \in DOMAIN t : Len(s) + i \in DOMAIN u
    BY <1>1
  <1>5. Range(u) \subseteq Range(s) \cup Range(t)
    <2>1. ASSUME NEW i \in DOMAIN u
          PROVE  u[i] \in Range(s) \cup Range(t)
      <3>1. CASE i \in DOMAIN s
        BY <3>1, <1>1, <1>2 DEF Range
      <3>2. CASE i - Len(s) \in DOMAIN t /\ i = Len(s) + (i - Len(s))
        <4> DEFINE k == i - Len(s)
        <4>1. k \in DOMAIN t /\ i = Len(s) + k
          BY <3>2
        <4> HIDE DEF k
        <4> QED
          BY <4>1, <1>1, <1>2 DEF Range
      <3> QED
        BY <3>1, <3>2, <1>3
    <2> QED
      BY <2>1 DEF Range
  <1>6. Range(s) \cup Range(t) \subseteq Range(u)
    <2>1. ASSUME NEW i \in DOMAIN s
          PROVE  s[i] \in Range(u)
      BY <1>1, <1>2, <1>4 DEF Range
    <2>2. ASSUME NEW i \in DOMAIN t
          PROVE  t[i] \in Range(u)
      <3>1. t[i] = u[Len(s) + i] /\ Len(s) + i \in DOMAIN u
        BY <1>1, <1>2, <1>4
      <3> QED
        BY <3>1 DEF Range
    <2> QED
      BY <2>1, <2>2 DEF Range
  <1> QED
    BY <1>1, <1>2, <1>5, <1>6 DEF u

\* r does not have more blocks than its first n tokens need.
Partway(e, r, hit, n) == Len(e.blk[r]) + Len(hit) <= BlocksFor(n)

\* Engine f is e after allocate_slots gave request r the blocks hit, found in
\* the prefix cache, and fresh, for its first n tokens.
Allocated(f, e, r, hit, fresh, n, size) ==
    /\ Lists(fresh, e.pool.free \ Range(hit), BlocksFor(n) - Len(e.blk[r]) - Len(hit))
    /\ f.run = e.run /\ f.wait = e.wait /\ f.fin = e.fin /\ f.batch = e.batch /\ f.kv = e.kv
    /\ f.blk = [e.blk EXCEPT ![r] = e.blk[r] \o hit \o fresh]
    /\ f.blk[r] = e.blk[r] \o hit \o fresh /\ Len(f.blk[r]) = BlocksFor(n)
    /\ f.pool.free = (e.pool.free \ Range(hit)) \ Range(fresh)
    /\ f.hash = [b \in 0 .. size - 1 |->
                    IF \E i \in 1 .. n \div BlockSize : f.blk[r][i] = b
                    THEN Key[r][CHOOSE i \in 1 .. n \div BlockSize : f.blk[r][i] = b]
                    ELSE IF b \in Range(fresh) THEN None ELSE e.hash[b]]

LEMMA AllocateOK ==
    ASSUME NEW size \in Nat \ {0}, NEW e, EngineOK(e, size), NEW r \in Reqs,
           NEW hit \in Seq(1 .. size - 1), NEW n \in Nat, n <= TotalLen[r],
           Partway(e, r, hit, n), Fits(e, r, hit, n)
    PROVE  /\ EngineOK(Allocate(e, r, hit, n, n), size)
           /\ \E fresh : Allocated(Allocate(e, r, hit, n, n), e, r, hit, fresh, n, size)
  <1> DEFINE q == RemoveN(e.pool, hit)
             need == Need(e, r, hit, n)
             fresh == PoppedN(q, need, e.size)
             blk == e.blk[r] \o hit \o fresh
             full == n \div BlockSize
             pool == RemoveN(q, fresh)
             hash == [b \in DOMAIN e.hash |->
                       IF \E i \in 1 .. full : blk[i] = b
                       THEN Key[r][CHOOSE i \in 1 .. full : blk[i] = b]
                       ELSE IF b \in Range(fresh) THEN None ELSE e.hash[b]]
             f == [e EXCEPT !.pool = pool, !.blk[r] = blk, !.hash = hash]
             T == 1 .. size - 1
  <1>1. Allocate(e, r, hit, n, n) = f
    BY DEF Allocate
  <1>2. /\ e \in EngineType(size) /\ e.size = size /\ Usable(e.pool, size - 1) /\ size - 1 \in Nat
        /\ e.blk \in [Reqs -> Seq(T)] /\ e.hash \in [0 .. size - 1 -> Keys]
        /\ e.pool.free = T \ Held(e) /\ QueueOK(e.pool) /\ e.hash[0] = None
    BY EngineFields DEF EngineOK
  <1>3. QueueOK(q) /\ q.free = e.pool.free \ Range(hit)
    <2>1. hit \in Seq(Nat)
      OBVIOUS
    <2> QED
      BY <2>1, <1>2, RemoveNOK
  <1>4. Usable(q, size - 1)
    BY <1>2, <1>3 DEF Usable
  <1>5. need \in Nat /\ need = BlocksFor(n) - Len(e.blk[r]) - Len(hit) /\ need <= Cardinality(q.free)
    <2>1. Len(e.blk[r]) \in Nat /\ Len(hit) \in Nat /\ BlocksFor(n) \in Nat
      <3>1. e.blk[r] \in Seq(T)
        BY <1>2
      <3>2. BlocksFor(n) \in Nat
        BY BlocksForOK
      <3> QED
        BY <3>1, <3>2
    <2>2. need = BlocksFor(n) - Len(e.blk[r]) - Len(hit)
      BY DEF Need
    <2>3. need <= Cardinality(q.free)
      BY <1>3 DEF Fits
    <2> HIDE DEF need
    <2> QED
      BY <2>1, <2>2, <2>3 DEF Partway
  <1> HIDE DEF q, need
  <1>6. Lists(fresh, q.free, need)
    <2>1. need \in Int
      BY <1>5
    <2> QED
      BY <1>2, <1>4, <1>5, <2>1, PoppedNFree
  <1> HIDE DEF fresh
  <1>7. fresh \in Seq(T) /\ fresh \in Seq(Nat) /\ Len(fresh) = need /\ Range(fresh) \subseteq q.free
    <2>1. fresh \in Seq(q.free) /\ Len(fresh) = need
      BY <1>5, <1>6 DEF Lists
    <2>2. q.free \in SUBSET T /\ T \in SUBSET Nat
      BY <1>4 DEF Usable
    <2>3. Range(fresh) \subseteq q.free
      BY <2>1 DEF Range
    <2> QED
      BY <2>1, <2>2, <2>3
  <1>8. QueueOK(pool) /\ pool.free = q.free \ Range(fresh)
    BY <1>3, <1>7, RemoveNOK
  <1>9. pool \in [free : SUBSET Nat, ints : Seq(Nat \X Nat)]
    <2> HIDE DEF pool
    <2> QED
      BY <1>8 DEF QueueOK, Runs
  <1>10. /\ blk \in Seq(T) /\ Len(blk) = BlocksFor(n)
         /\ Range(blk) = Range(e.blk[r]) \cup Range(hit) \cup Range(fresh)
    <2>1. e.blk[r] \in Seq(T)
      BY <1>2
    <2> DEFINE both == e.blk[r] \o hit
    <2>2. /\ both \in Seq(T) /\ Len(both) = Len(e.blk[r]) + Len(hit)
          /\ Len(e.blk[r]) \in Nat /\ Len(hit) \in Nat
          /\ Range(both) = Range(e.blk[r]) \cup Range(hit)
      BY <2>1, ConcatRange
    <2>3. blk = both \o fresh
      OBVIOUS
    <2> HIDE DEF both, blk
    <2>4. /\ blk \in Seq(T) /\ Len(blk) = Len(both) + Len(fresh)
          /\ Range(blk) = Range(both) \cup Range(fresh)
      <3> HIDE DEF T
      <3>1. fresh \in Seq(T)
        BY <1>7
      <3>a. both \in Seq(T)
        BY <2>2
      <3>2. /\ both \o fresh \in Seq(T) /\ Len(both \o fresh) = Len(both) + Len(fresh)
            /\ Range(both \o fresh) = Range(both) \cup Range(fresh)
        BY <3>a, <3>1, ConcatRange
      <3> QED
        BY <2>3, <3>2, Zenon
    <2>5. Len(blk) = BlocksFor(n)
      <3>1. BlocksFor(n) \in Nat
        BY BlocksForOK
      <3>2. Len(blk) = (Len(e.blk[r]) + Len(hit)) + need
        BY <2>2, <2>4, <1>7, Zenon
      <3>3. need = BlocksFor(n) - Len(e.blk[r]) - Len(hit) /\ Len(e.blk[r]) \in Nat /\ Len(hit) \in Nat
        BY <2>2, <1>5
      <3> DEFINE a == Len(e.blk[r])
                 h == Len(hit)
                 c == BlocksFor(n)
      <3> HIDE DEF a, h, c
      <3>4. a \in Nat /\ h \in Nat /\ c \in Nat => (a + h) + (c - a - h) = c
        OBVIOUS
      <3> QED
        BY <3>1, <3>2, <3>3, <3>4 DEF a, h, c
    <2> QED
      BY <2>2, <2>4, <2>5
  <1>11. full \in Nat /\ full <= Len(blk) /\ full <= Len(Key[r])
    <2>1. full \in Nat /\ full <= BlocksFor(n) /\ BlocksFor(n) \in Nat
      BY BlocksForOK
    <2>2. TotalLen[r] \in Nat /\ Len(Key[r]) = BlocksFor(TotalLen[r])
      BY KeyOK
    <2>3. BlocksFor(n) <= BlocksFor(TotalLen[r]) /\ BlocksFor(TotalLen[r]) \in Nat
      BY <2>2, BlocksForMonotone, BlocksForOK
    <2> HIDE DEF full, blk
    <2> QED
      BY <2>1, <2>2, <2>3, <1>10
  <1> HIDE DEF blk, pool, full
  <1>12. hash \in [0 .. size - 1 -> Keys] /\ hash[0] = None
    <2>1. DOMAIN e.hash = 0 .. size - 1 /\ 0 \in 0 .. size - 1
      BY <1>2
    <2>2. ASSUME NEW b \in 0 .. size - 1
          PROVE  hash[b] \in Keys
      <3>1. CASE \E i \in 1 .. full : blk[i] = b
        <4> DEFINE c == CHOOSE i \in 1 .. full : blk[i] = b
        <4>1. c \in 1 .. full
          BY <3>1
        <4>2. hash[b] = Key[r][c]
          BY <3>1, <2>1
        <4> HIDE DEF c
        <4>3. c \in 1 .. Len(Key[r])
          <5>1. Len(Key[r]) \in Nat
            BY KeyOK
          <5> QED
            BY <5>1, <4>1, <1>11
        <4> QED
          BY <4>2, <4>3, KeyOK
      <3>2. CASE ~\E i \in 1 .. full : blk[i] = b
        <4>1. hash[b] = IF b \in Range(fresh) THEN None ELSE e.hash[b]
          BY <3>2, <2>1
        <4> HIDE DEF hash
        <4> QED
          BY <4>1, <1>2 DEF Keys
      <3> QED
        BY <3>1, <3>2
    <2>3. hash[0] = None
      <3>1. \A i \in 1 .. full : blk[i] \in T
        BY <1>10, <1>11
      <3>2. ~\E i \in 1 .. full : blk[i] = 0
        BY <3>1
      <3> QED
        BY <3>2, <2>1, <1>2
    <2> QED
      BY <2>1, <2>2, <2>3
  <1>13. /\ f.pool = pool /\ f.blk = [e.blk EXCEPT ![r] = blk] /\ f.hash = hash
         /\ f.run = e.run /\ f.wait = e.wait /\ f.fin = e.fin /\ f.batch = e.batch /\ f.kv = e.kv
         /\ f.blk[r] = blk
    <2> HIDE DEF hash
    <2> QED
      BY <1>2 DEF EngineType
  <1>14. f \in EngineType(size)
    <2> HIDE DEF hash
    <2> QED
      BY <1>2, <1>9, <1>10, <1>12 DEF EngineType
  <1>15. Held(f) = Held(e) \cup Range(hit) \cup Range(fresh)
    <2>1. \A p \in Reqs : Range(f.blk[p]) = IF p = r THEN Range(e.blk[r]) \cup Range(hit) \cup Range(fresh)
                                           ELSE Range(e.blk[p])
      <3> HIDE DEF f
      <3>1. \A p \in Reqs : f.blk[p] = IF p = r THEN blk ELSE e.blk[p]
        BY <1>2, <1>13
      <3> QED
        BY <3>1, <1>10
    <2> HIDE DEF f
    <2> QED
      BY <2>1 DEF Held
  <1> HIDE DEF f
  <1>16. f.pool.free = T \ Held(f)
    BY <1>2, <1>3, <1>8, <1>13, <1>15
  <1>17. EngineOK(f, size)
    BY <1>8, <1>12, <1>13, <1>14, <1>16 DEF EngineOK
  <1>18. Allocated(f, e, r, hit, fresh, n, size)
    <2>1. Lists(fresh, e.pool.free \ Range(hit), BlocksFor(n) - Len(e.blk[r]) - Len(hit))
      BY <1>3, <1>5, <1>6
    <2>2. f.pool.free = (e.pool.free \ Range(hit)) \ Range(fresh)
      BY <1>3, <1>8, <1>13
    <2>3. f.hash = [b \in 0 .. size - 1 |->
                    IF \E i \in 1 .. n \div BlockSize : f.blk[r][i] = b
                    THEN Key[r][CHOOSE i \in 1 .. n \div BlockSize : f.blk[r][i] = b]
                    ELSE IF b \in Range(fresh) THEN None ELSE e.hash[b]]
      <3>1. DOMAIN e.hash = 0 .. size - 1
        BY <1>2
      <3>2. f.blk[r] = blk /\ f.hash = hash
        BY <1>13
      <3>3. hash = [b \in 0 .. size - 1 |->
                    IF \E i \in 1 .. n \div BlockSize : blk[i] = b
                    THEN Key[r][CHOOSE i \in 1 .. n \div BlockSize : blk[i] = b]
                    ELSE IF b \in Range(fresh) THEN None ELSE e.hash[b]]
        BY <3>1, Zenon DEF full
      <3>4. hash = [b \in 0 .. size - 1 |->
                    IF \E i \in 1 .. n \div BlockSize : f.blk[r][i] = b
                    THEN Key[r][CHOOSE i \in 1 .. n \div BlockSize : f.blk[r][i] = b]
                    ELSE IF b \in Range(fresh) THEN None ELSE e.hash[b]]
        <4> HIDE DEF hash
        <4> QED
          BY <3>2, <3>3
      <3> HIDE DEF hash
      <3> QED
        BY <3>2, <3>4
    <2> QED
      BY <2>1, <2>2, <2>3, <1>10, <1>13, Zenon DEF Allocated, blk
  <1> QED
    BY <1>1, <1>17, <1>18

\* Engine f is e after the requests in R have left with their blocks.
Left(f, e, R) ==
    /\ f.wait = e.wait /\ f.batch = e.batch /\ f.hash = e.hash /\ f.kv = e.kv
    /\ f.blk = [r \in Reqs |-> IF r \in R THEN <<>> ELSE e.blk[r]]
    /\ Range(f.run) = Range(e.run) \ R
    /\ IsInjective(e.run) => IsInjective(f.run)
    /\ e.pool.free \subseteq f.pool.free

LEMMA ReverseRange ==
    ASSUME NEW T, NEW s \in Seq(T)
    PROVE  Reverse(s) \in Seq(T) /\ Range(Reverse(s)) = Range(s)
  <1> DEFINE u == Reverse(s)
             N == Len(s)
  <1>1. N \in Nat /\ DOMAIN s = 1 .. N /\ \A i \in 1 .. N : s[i] \in T
    OBVIOUS
  <1>2. u = [i \in 1 .. N |-> s[(N - i) + 1]]
    BY DEF Reverse
  <1> HIDE DEF u
  <1>3. \A i \in 1 .. N : (N - i) + 1 \in 1 .. N /\ (N - ((N - i) + 1)) + 1 = i
    BY <1>1
  <1>4. \A i \in 1 .. N : u[i] = s[(N - i) + 1] /\ u[i] \in T
    BY <1>1, <1>2, <1>3
  <1>5. u \in [1 .. N -> T] /\ DOMAIN u = 1 .. N
    BY <1>2, <1>4
  <1>6. u \in Seq(T)
    BY <1>1, <1>5
  <1>7. \A i \in 1 .. N : s[i] = u[(N - i) + 1]
    BY <1>3, <1>4
  <1>8. Range(u) = Range(s)
    <2>1. \A i \in DOMAIN u : \E j \in DOMAIN s : u[i] = s[j]
      BY <1>1, <1>3, <1>4, <1>5
    <2>2. \A i \in DOMAIN s : \E j \in DOMAIN u : s[i] = u[j]
      BY <1>1, <1>3, <1>7, <1>5
    <2> QED
      BY <2>1, <2>2 DEF Range
  <1> QED
    BY <1>6, <1>8 DEF u

LEMMA FreeOK ==
    ASSUME NEW size \in Nat \ {0}, NEW e, EngineOK(e, size), NEW r \in Reqs
    PROVE  /\ EngineOK(Free(e, r), size)
           /\ Free(e, r).run = e.run /\ Free(e, r).wait = e.wait /\ Free(e, r).fin = e.fin
           /\ Free(e, r).batch = e.batch /\ Free(e, r).hash = e.hash /\ Free(e, r).kv = e.kv
           /\ Free(e, r).blk = [e.blk EXCEPT ![r] = <<>>]
           /\ e.pool.free \subseteq Free(e, r).pool.free
  <1> DEFINE shared == UNION {Range(e.blk[q]) : q \in Reqs \ {r}}
             back == RemoveAll(Reverse(e.blk[r]), shared)
             pool == AppendN(e.pool, back)
             f == [e EXCEPT !.pool = pool, !.blk[r] = <<>>]
             T == 1 .. size - 1
  <1>1. Free(e, r) = f
    BY DEF Free
  <1>2. /\ e \in EngineType(size) /\ e.blk \in [Reqs -> Seq(T)] /\ T \in SUBSET Nat
        /\ e.pool.free = T \ Held(e) /\ QueueOK(e.pool) /\ e.hash[0] = None
    BY EngineFields DEF EngineOK
  <1>3. back \in Seq(T) /\ Range(back) = Range(e.blk[r]) \ shared
    <2>1. e.blk[r] \in Seq(T)
      BY <1>2
    <2>2. Reverse(e.blk[r]) \in Seq(T) /\ Range(Reverse(e.blk[r])) = Range(e.blk[r])
      BY <2>1, ReverseRange
    <2> HIDE DEF shared, T
    <2> QED
      BY <2>2, RemoveAllProperties
  <1> HIDE DEF back
  <1>4. back \in Seq(Nat)
    BY <1>2, <1>3
  <1>5. QueueOK(pool) /\ pool.free = e.pool.free \cup Range(back)
    BY <1>2, <1>4, AppendNOK
  <1> HIDE DEF pool
  <1>6. pool \in [free : SUBSET Nat, ints : Seq(Nat \X Nat)]
    BY <1>5 DEF QueueOK, Runs
  <1>7. /\ f.run = e.run /\ f.wait = e.wait /\ f.fin = e.fin /\ f.batch = e.batch /\ f.hash = e.hash
        /\ f.kv = e.kv /\ f.blk = [e.blk EXCEPT ![r] = <<>>] /\ f.pool = pool
    BY <1>2 DEF EngineType
  <1>8. f \in EngineType(size)
    <2>1. <<>> \in Seq(1 .. size - 1)
      OBVIOUS
    <2> QED
      BY <2>1, <1>2, <1>6 DEF EngineType
  <1> HIDE DEF f
  <1>9. Held(e) = Range(e.blk[r]) \cup shared
    BY DEF Held
  <1>10. Held(f) = shared
    <2>1. \A p \in Reqs : f.blk[p] = IF p = r THEN <<>> ELSE e.blk[p]
      BY <1>2, <1>7
    <2>2. Range(<<>>) = {}
      BY DEF Range
    <2>3. \A p \in Reqs : Range(f.blk[p]) = IF p = r THEN {} ELSE Range(e.blk[p])
      BY <2>1, <2>2
    <2> QED
      BY <2>3 DEF Held
  <1>11. Range(e.blk[r]) \subseteq T
    <2>1. e.blk[r] \in Seq(T)
      BY <1>2
    <2> QED
      BY <2>1 DEF Range
  <1> HIDE DEF shared
  <1>12. f.pool.free = T \ Held(f)
    BY <1>2, <1>3, <1>5, <1>7, <1>9, <1>10, <1>11
  <1>13. EngineOK(f, size)
    BY <1>2, <1>5, <1>7, <1>8, <1>12 DEF EngineOK
  <1>14. e.pool.free \subseteq f.pool.free
    BY <1>5, <1>7
  <1> QED
    BY <1>1, <1>7, <1>13, <1>14

LEMMA DroppedOK ==
    ASSUME NEW size \in Nat \ {0}, NEW e, EngineOK(e, size), NEW r \in Reqs
    PROVE  EngineOK(Dropped(e, r), size) /\ Left(Dropped(e, r), e, {r})
  <1> DEFINE g == Free(e, r)
             run == RemoveAll(g.run, {r})
             f == [g EXCEPT !.run = run]
  <1>1. Dropped(e, r) = f
    BY DEF Dropped
  <1>2. /\ EngineOK(g, size)
        /\ g.run = e.run /\ g.wait = e.wait /\ g.fin = e.fin
        /\ g.batch = e.batch /\ g.hash = e.hash /\ g.kv = e.kv
        /\ g.blk = [e.blk EXCEPT ![r] = <<>>]
        /\ e.pool.free \subseteq g.pool.free
    BY FreeOK
  <1> HIDE DEF g
  <1>3. e.blk \in [Reqs -> Seq(1 .. size - 1)] /\ g \in EngineType(size) /\ e.run \in Seq(Reqs)
    BY <1>2, EngineFields DEF EngineOK
  <1>4. run \in Seq(Reqs) /\ Range(run) = Range(e.run) \ {r} /\ (IsInjective(e.run) => IsInjective(run))
    BY <1>2, <1>3, RemoveAllProperties
  <1> HIDE DEF run
  <1>5. /\ f.run = run /\ f.wait = g.wait /\ f.fin = g.fin /\ f.batch = g.batch /\ f.hash = g.hash
        /\ f.kv = g.kv /\ f.blk = g.blk /\ f.pool = g.pool
    BY <1>3 DEF EngineType
  <1>6. f \in EngineType(size)
    BY <1>3, <1>4 DEF EngineType
  <1> HIDE DEF f
  <1>7. EngineOK(f, size)
    BY <1>2, <1>5, <1>6 DEF EngineOK, Held
  <1>8. f.blk = [q \in Reqs |-> IF q \in {r} THEN <<>> ELSE e.blk[q]]
    BY <1>2, <1>3, <1>5
  <1>9. Left(f, e, {r})
    BY <1>2, <1>4, <1>5, <1>8 DEF Left
  <1> QED
    BY <1>1, <1>7, <1>9

LEMMA LeftTwice ==
    ASSUME NEW e, NEW f, NEW g, NEW R, NEW S, Left(f, e, R), Left(g, f, S)
    PROVE  Left(g, e, R \cup S)
  <1>1. g.blk = [r \in Reqs |-> IF r \in R \cup S THEN <<>> ELSE e.blk[r]]
    BY DEF Left
  <1> QED
    BY <1>1 DEF Left

LEMMA LeftNone ==
    ASSUME NEW size \in Nat \ {0}, NEW e, EngineOK(e, size)
    PROVE  Left(e, e, {})
  <1>1. e.blk \in [Reqs -> Seq(1 .. size - 1)]
    BY EngineFields
  <1>2. e.blk = [r \in Reqs |-> IF r \in {} THEN <<>> ELSE e.blk[r]]
    BY <1>1
  <1> QED
    BY <1>2 DEF Left

\* Several requests leave one after the other.
LEMMA DroppedNOK ==
    ASSUME NEW size \in Nat \ {0}, NEW e, EngineOK(e, size), NEW reqs \in Seq(Reqs)
    PROVE  EngineOK(DroppedN(e, reqs), size) /\ Left(DroppedN(e, reqs), e, Range(reqs))
  <1> DEFINE N == Len(reqs)
             Up(n, f) == f = [i \in 0 .. n |-> IF i = 0 THEN e ELSE Dropped(f[i - 1], reqs[i])]
             S == {n \in 0 .. N : \E f : Up(n, f)}
  <1>0. N \in Nat /\ DOMAIN reqs = 1 .. N /\ \A i \in 1 .. N : reqs[i] \in Reqs
    OBVIOUS
  <1>1. 0 \in S
    <2>1. Up(0, [i \in 0 .. 0 |-> e])
      OBVIOUS
    <2>2. 0 \in 0 .. N
      BY <1>0
    <2> QED
      BY <2>1, <2>2
  <1>2. ASSUME NEW m \in 1 .. N, m - 1 \in S
        PROVE  m \in S
    <2>1. PICK f : Up(m - 1, f)
      BY <1>2
    <2>2. m \in Nat /\ m # 0 /\ m \in 0 .. N /\ m - 1 \in Nat
      BY <1>0
    <2> DEFINE g == [i \in 0 .. m |-> IF i = m THEN Dropped(f[m - 1], reqs[m]) ELSE f[i]]
    <2>3. ASSUME NEW i \in 0 .. m
          PROVE  g[i] = IF i = 0 THEN e ELSE Dropped(g[i - 1], reqs[i])
      <3>1. CASE i = 0
        BY <3>1, <2>1, <2>2
      <3>2. CASE i # 0 /\ i # m
        <4>1. i \in 0 .. m - 1 /\ i - 1 \in 0 .. m /\ i - 1 # m
          BY <3>2, <2>2
        <4>2. g[i] = f[i] /\ g[i - 1] = f[i - 1]
          BY <3>2, <4>1
        <4>3. f[i] = Dropped(f[i - 1], reqs[i])
          BY <2>1, <3>2, <4>1
        <4> QED
          BY <4>2, <4>3, <3>2
      <3>3. CASE i = m
        <4>1. m - 1 \in 0 .. m /\ m - 1 # m
          BY <2>2
        <4> QED
          BY <3>3, <4>1, <2>2
      <3> QED
        BY <3>1, <3>2, <3>3
    <2>4. Up(m, g)
      BY <2>3
    <2> QED
      BY <2>4, <2>2
  <1>3. \E f : Up(N, f)
    <2>1. \A i \in 1 .. N : i - 1 \in S => i \in S
      BY <1>2
    <2> HIDE DEF S
    <2>2. \A i \in 0 .. N : i \in S
      BY <1>0, <1>1, <2>1, RangeInduction
    <2>3. N \in S
      BY <1>0, <2>2
    <2> QED
      BY <2>3 DEF S
  <1> DEFINE after == CHOOSE f : Up(N, f)
  <1>4. Up(N, after)
    BY <1>3
  <1>5. DroppedN(e, reqs) = after[N]
    BY DEF DroppedN
  <1> HIDE DEF after
  <1>6. after[0] = e /\ \A i \in 1 .. N : after[i] = Dropped(after[i - 1], reqs[i])
    <2>1. after = [i \in 0 .. N |-> IF i = 0 THEN e ELSE Dropped(after[i - 1], reqs[i])]
      BY <1>4
    <2>2. \A i \in 0 .. N : after[i] = IF i = 0 THEN e ELSE Dropped(after[i - 1], reqs[i])
      BY <2>1
    <2>3. 0 \in 0 .. N /\ \A i \in 1 .. N : i \in 0 .. N /\ i # 0
      BY <1>0
    <2> QED
      BY <2>2, <2>3
  <1> DEFINE Seen(i) == {reqs[j] : j \in 1 .. i}
             T == {i \in 0 .. N : EngineOK(after[i], size) /\ Left(after[i], e, Seen(i))}
  <1>7. 0 \in T
    <2>1. Seen(0) = {}
      OBVIOUS
    <2> QED
      <3>1. Left(e, e, {})
        BY LeftNone
      <3>2. 0 \in 0 .. N /\ EngineOK(after[0], size) /\ Left(after[0], e, Seen(0))
        <4>1. 0 \in 0 .. N /\ after[0] = e
          BY <1>0, <1>6
        <4> HIDE DEF Seen
        <4> QED
          BY <4>1, <3>1, <2>1
      <3> QED
        BY <3>2
  <1>8. ASSUME NEW i \in 1 .. N, i - 1 \in T
        PROVE  i \in T
    <2>1. EngineOK(after[i - 1], size) /\ Left(after[i - 1], e, Seen(i - 1))
      BY <1>8
    <2>2. reqs[i] \in Reqs /\ i \in 0 .. N
      BY <1>0
    <2>3. EngineOK(after[i], size) /\ Left(after[i], after[i - 1], {reqs[i]})
      <3>1. /\ EngineOK(Dropped(after[i - 1], reqs[i]), size)
            /\ Left(Dropped(after[i - 1], reqs[i]), after[i - 1], {reqs[i]})
        BY <2>1, <2>2, DroppedOK
      <3>2. after[i] = Dropped(after[i - 1], reqs[i])
        BY <1>6
      <3> QED
        BY <3>1, <3>2
    <2>4. Seen(i) = Seen(i - 1) \cup {reqs[i]}
      <3>1. 1 .. i = (1 .. i - 1) \cup {i}
        BY <1>0
      <3> QED
        BY <3>1
    <2> HIDE DEF Seen
    <2>5. Left(after[i], e, Seen(i))
      BY <2>1, <2>3, <2>4, LeftTwice
    <2> QED
      BY <2>2, <2>3, <2>5
  <1>9. N \in T
    <2>1. \A i \in 1 .. N : i - 1 \in T => i \in T
      BY <1>8
    <2> HIDE DEF T
    <2>2. \A i \in 0 .. N : i \in T
      BY <1>0, <1>7, <2>1, RangeInduction
    <2> QED
      BY <1>0, <2>2
  <1>10. Seen(N) = Range(reqs)
    BY <1>0 DEF Range
  <1> QED
    BY <1>5, <1>9, <1>10

LEMMA ListsCardinality ==
    ASSUME NEW S, IsFiniteSet(S), NEW n \in Nat, NEW s, Lists(s, S, n)
    PROVE  /\ IsFiniteSet(S \ Range(s))
           /\ Cardinality(S \ Range(s)) = Cardinality(S) - n
  <1>1. s \in Seq(S) /\ IsInjective(s) /\ Len(s) = n /\ DOMAIN s = 1 .. n
    BY DEF Lists
  <1>2. s \in [1 .. n -> Range(s)] /\ Range(s) \subseteq S
    BY <1>1 DEF Range
  <1>3. s \in Bijection(1 .. n, Range(s))
    BY <1>1, <1>2 DEF Bijection, Injection, Surjection, Range
  <1>4. IsFiniteSet(1 .. n) /\ Cardinality(1 .. n) = n
    BY FS_Interval
  <1>5. Cardinality(Range(s)) = n
    BY <1>3, <1>4, FS_Bijection DEF ExistsBijection
  <1>6. S \cap Range(s) = Range(s)
    BY <1>2
  <1>7. /\ IsFiniteSet(S \ Range(s))
        /\ Cardinality(S \ Range(s)) = Cardinality(S) - Cardinality(S \cap Range(s))
    BY FS_Difference
  <1> QED
    BY <1>5, <1>6, <1>7

\* How many blocks an allocation leaves.
LeavesRoom(f, e, r, hit, n) ==
    Cardinality(f.pool.free)
      = Cardinality(e.pool.free \ Range(hit)) - (BlocksFor(n) - Len(e.blk[r]) - Len(hit))

LEMMA AllocatedLeaves ==
    ASSUME NEW size \in Nat \ {0}, NEW e, EngineOK(e, size), NEW r \in Reqs,
           NEW hit \in Seq(1 .. size - 1), NEW n \in Nat,
           Partway(e, r, hit, n), NEW f, NEW fresh, Allocated(f, e, r, hit, fresh, n, size)
    PROVE  LeavesRoom(f, e, r, hit, n)
  <1> DEFINE S == e.pool.free \ Range(hit)
             k == BlocksFor(n) - Len(e.blk[r]) - Len(hit)
  <1>1. IsFiniteSet(S)
    BY EngineFields, FS_Difference
  <1>2. k \in Nat
    <2>0. e.blk \in [Reqs -> Seq(1 .. size - 1)]
      BY EngineFields
    <2>1. e.blk[r] \in Seq(1 .. size - 1)
      BY <2>0
    <2>2. Len(e.blk[r]) \in Nat /\ Len(hit) \in Nat
      BY <2>1
    <2>3. BlocksFor(n) \in Nat
      BY BlocksForOK
    <2> DEFINE a == Len(e.blk[r])
               h == Len(hit)
               c == BlocksFor(n)
    <2>4. a \in Nat /\ h \in Nat /\ c \in Nat /\ a + h <= c
      BY <2>2, <2>3 DEF Partway
    <2> HIDE DEF a, h, c
    <2>5. c - a - h \in Nat
      BY <2>4
    <2> QED
      BY <2>5 DEF a, h, c
  <1>3. Lists(fresh, S, k) /\ f.pool.free = S \ Range(fresh)
    BY DEF Allocated
  <1> HIDE DEF S, k
  <1>4. Cardinality(f.pool.free) = Cardinality(S) - k
    BY <1>1, <1>2, <1>3, ListsCardinality
  <1> QED
    BY <1>4 DEF S, k, LeavesRoom

\* The positions a batch writes lie within its requests.
WritesWithin(ran, from, to) ==
  \A r \in ran : to[r] \in Nat /\ to[r] <= TotalLen[r] /\ from[r] \in Nat

\* The model writes keys of the requests it runs.
LEMMA ComputedOK ==
    ASSUME NEW size, NEW e, NEW ran, NEW from, NEW to, size \in Nat \ {0}, EngineOK(e, size),
           ran \in SUBSET Reqs, WritesWithin(ran, from, to)
    PROVE  /\ EngineOK(Computed(e, ran, from, to), size)
           /\ \E kv \in [0 .. size - 1 -> KVs] : Computed(e, ran, from, to) = [e EXCEPT !.kv = kv]
  <1> DEFINE Writes(b) == {w \in ran \X (1 .. e.size) :
                      /\ w[2] \in (from[w[1]] \div BlockSize) + 1 .. BlocksFor(to[w[1]])
                      /\ e.blk[w[1]][w[2]] = b}
             New(b) == LET w == CHOOSE w \in Writes(b) : TRUE
                       IN  [key |-> Key[w[1]][w[2]],
                            n   |-> Least(to[w[1]] - (w[2] - 1) * BlockSize, BlockSize)]
             kv == [b \in DOMAIN e.kv |-> IF Writes(b) = {} THEN e.kv[b] ELSE New(b)]
             f == [e EXCEPT !.kv = kv]
  <1>0. \A r \in ran : to[r] \in Nat /\ to[r] <= TotalLen[r] /\ from[r] \in Nat
    BY DEF WritesWithin
  <1>1. Computed(e, ran, from, to) = f
    BY DEF Computed
  <1>2. e \in EngineType(size) /\ e.kv \in [0 .. size - 1 -> KVs] /\ e.size = size
    BY EngineFields
  <1>3. ASSUME NEW b, Writes(b) # {}
        PROVE  New(b) \in KVs
    <2> DEFINE w == CHOOSE w \in Writes(b) : TRUE
    <2> HIDE DEF Writes
    <2>1. w \in Writes(b)
      BY <1>3
    <2>2. New(b) = [key |-> Key[w[1]][w[2]], n |-> Least(to[w[1]] - (w[2] - 1) * BlockSize, BlockSize)]
      OBVIOUS
    <2> HIDE DEF w, New
    <2>3. w[1] \in ran /\ w[2] \in 1 .. size /\ w[2] <= BlocksFor(to[w[1]])
      <3>1. w \in ran \X (1 .. size) /\ w[2] \in (from[w[1]] \div BlockSize) + 1 .. BlocksFor(to[w[1]])
        BY <2>1, <1>2 DEF Writes
      <3>2. w[1] \in ran /\ w[2] \in 1 .. size
        BY <3>1
      <3>3. to[w[1]] \in Nat /\ from[w[1]] \in Nat
        BY <3>2, <1>0
      <3>4. BlocksFor(to[w[1]]) \in Nat /\ from[w[1]] \div BlockSize \in Nat
        BY <3>3, BlocksForOK
      <3> QED
        BY <3>1, <3>2, <3>4
    <2>4. to[w[1]] \in Nat /\ TotalLen[w[1]] \in Nat /\ to[w[1]] <= TotalLen[w[1]]
          /\ Len(Key[w[1]]) = BlocksFor(TotalLen[w[1]])
      BY <2>3, <1>0, KeyOK
    <2>5. BlocksFor(to[w[1]]) <= Len(Key[w[1]]) /\ BlocksFor(to[w[1]]) \in Nat /\ Len(Key[w[1]]) \in Nat
      <3>1. BlocksFor(to[w[1]]) <= BlocksFor(TotalLen[w[1]])
        BY <2>4, BlocksForMonotone
      <3>2. BlocksFor(to[w[1]]) \in Nat /\ BlocksFor(TotalLen[w[1]]) \in Nat
        BY <2>4, BlocksForOK
      <3> QED
        BY <3>1, <3>2, <2>4
    <2>6. w[2] \in 1 .. Len(Key[w[1]])
      BY <2>3, <2>5
    <2>7. Key[w[1]][w[2]] \in Keys
      BY <2>3, <2>6, KeyOK
    <2>8. Least(to[w[1]] - (w[2] - 1) * BlockSize, BlockSize) \in Int
      BY <2>3, <2>4, DisaggAssumption DEF Least
    <2> QED
      BY <2>2, <2>7, <2>8 DEF KVs
  <1> HIDE DEF Writes, New
  <1>4. kv \in [0 .. size - 1 -> KVs]
    BY <1>2, <1>3
  <1> HIDE DEF kv
  <1>5. f \in EngineType(size) /\ f.pool = e.pool /\ f.blk = e.blk /\ f.hash = e.hash
    BY <1>2, <1>4 DEF EngineType
  <1>6. EngineOK(f, size)
    BY <1>5 DEF EngineOK, Held
  <1>7. Computed(e, ran, from, to) = [e EXCEPT !.kv = kv]
    BY <1>1
  <1>8. EngineOK(Computed(e, ran, from, to), size)
    BY <1>1, <1>6
  <1> QED
    BY <1>4, <1>7, <1>8

\* insert_request_with_kv_cache copies run by run, and puts slice i of a
\* request into its i-th block.
LEMMA InsertedOK ==
    ASSUME NEW size \in Nat \ {0}, NEW e, EngineOK(e, size), NEW r \in Reqs, IsInjective(e.blk[r]),
           NEW slices \in Seq(KVs), Len(slices) = Len(e.blk[r])
    PROVE  /\ EngineOK(Inserted(e, r, slices), size)
           /\ \E kv \in [0 .. size - 1 -> KVs] :
                /\ Inserted(e, r, slices) = [e EXCEPT !.kv = kv]
                /\ \A i \in 1 .. Len(e.blk[r]) : kv[e.blk[r][i]] = slices[i]
                /\ \A b \in 0 .. size - 1 : b \notin Range(e.blk[r]) => kv[b] = e.kv[b]
  <1> DEFINE blk == e.blk[r]
             N == Len(blk)
             starts == {i \in DOMAIN blk : i = 1 \/ blk[i] # blk[i - 1] + 1}
             RunOf(i) == CHOOSE s \in starts : s <= i /\ \A t \in starts : t <= i => t <= s
             At(b) == CHOOSE i \in DOMAIN blk : blk[i] = b
             Src(b) == slices[RunOf(At(b)) + (b - blk[RunOf(At(b))])]
             kv == [b \in DOMAIN e.kv |-> IF b \in Range(blk) THEN Src(b) ELSE e.kv[b]]
             f == [e EXCEPT !.kv = kv]
  <1>1. Inserted(e, r, slices) = f
    BY DEF Inserted
  <1>2. /\ e \in EngineType(size) /\ e.kv \in [0 .. size - 1 -> KVs]
        /\ blk \in Seq(1 .. size - 1) /\ DOMAIN blk = 1 .. N /\ N \in Nat
        /\ \A i \in 1 .. N : blk[i] \in 1 .. size - 1 /\ blk[i] \in Nat /\ blk[i] \in 0 .. size - 1
    <2>1. e \in EngineType(size) /\ e.kv \in [0 .. size - 1 -> KVs] /\ e.blk \in [Reqs -> Seq(1 .. size - 1)]
      BY EngineFields
    <2>2. blk \in Seq(1 .. size - 1)
      BY <2>1
    <2> HIDE DEF blk
    <2>3. DOMAIN blk = 1 .. N /\ N \in Nat /\ \A i \in 1 .. N : blk[i] \in 1 .. size - 1
      BY <2>2
    <2>4. \A b \in 1 .. size - 1 : b \in Nat /\ b \in 0 .. size - 1
      OBVIOUS
    <2> QED
      BY <2>1, <2>2, <2>3, <2>4
  <1>a. IsInjective(blk) /\ Len(slices) = N
    OBVIOUS
  <1> HIDE DEF blk, N
  <1>3. ASSUME NEW i \in 1 .. N
        PROVE  At(blk[i]) = i
    BY <1>2, <1>3, <1>a DEF IsInjective
  <1>4. ASSUME NEW i \in 1 .. N
        PROVE  /\ RunOf(i) \in 1 .. i /\ RunOf(i) \in Nat
               /\ blk[i] = blk[RunOf(i)] + (i - RunOf(i))
    <2> DEFINE B == {s \in starts : s <= i}
               s == RunOf(i)
    <2>1. i \in Nat /\ 1 \in 1 .. N /\ 1 <= i
      BY <1>2
    <2>2. B \in SUBSET (0 .. i) /\ B # {}
      <3>1. 1 \in B
        BY <2>1, <1>2
      <3>2. \A x \in B : x \in 1 .. N /\ x <= i
        BY <1>2
      <3>3. \A x \in B : x \in 0 .. i
        BY <3>2, <2>1, <1>2
      <3> QED
        BY <3>1, <3>3
    <2>3. \E m \in B : \A n \in B : n <= m
      BY <2>1, <2>2, GreatestNat
    <2>4. s \in starts /\ s <= i /\ \A t \in starts : t <= i => t <= s
      BY <2>3
    <2> HIDE DEF s
    <2>5. s \in 1 .. i /\ s \in Nat /\ i - s \in Nat
      BY <2>4, <2>1, <1>2
    <2> DEFINE S == {j \in 0 .. i - s : blk[s + j] = blk[s] + j}
    <2>6. 0 \in S
      <3>1. s + 0 = s /\ 0 \in 0 .. i - s /\ s \in 1 .. N
        BY <2>5, <2>1, <1>2
      <3>2. blk[s] \in Nat
        BY <3>1, <1>2
      <3>3. blk[s] + 0 = blk[s]
        BY <3>2
      <3> QED
        BY <3>1, <3>3
    <2>7. ASSUME NEW j \in 1 .. i - s, j - 1 \in S
          PROVE  j \in S
      <3>1. /\ s + j \in 1 .. N /\ s + j <= i /\ ~(s + j <= s) /\ s + j # 1
            /\ (s + j) - 1 = s + (j - 1) /\ j \in 0 .. i - s /\ j \in Nat
        BY <2>5, <2>1, <1>2
      <3>2. s + j \notin starts
        BY <2>4, <3>1
      <3>3. blk[s + j] = blk[(s + j) - 1] + 1
        BY <3>1, <3>2, <1>2
      <3>4. blk[s + (j - 1)] = blk[s] + (j - 1)
        BY <2>7
      <3>5. blk[s] \in Nat
        BY <2>5, <2>1, <1>2
      <3>6. blk[s + j] = blk[s] + j
        BY <3>1, <3>3, <3>4, <3>5
      <3> QED
        BY <3>1, <3>6
    <2>8. i - s \in S
      <3>1. \A j \in 1 .. i - s : j - 1 \in S => j \in S
        BY <2>7
      <3> HIDE DEF S
      <3>2. \A j \in 0 .. i - s : j \in S
        BY <2>5, <2>6, <3>1, RangeInduction
      <3> QED
        BY <2>5, <3>2
    <2>9. s + (i - s) = i
      BY <2>5, <2>1
    <2>10. blk[i] = blk[s] + (i - s)
      BY <2>8, <2>9
    <2> QED
      BY <2>5, <2>10 DEF s
  <1> HIDE DEF RunOf, At, starts
  <1>5. ASSUME NEW i \in 1 .. N
        PROVE  Src(blk[i]) = slices[i] /\ slices[i] \in KVs
    <2> DEFINE s == RunOf(i)
    <2>1. s \in 1 .. i /\ s \in Nat /\ blk[i] = blk[s] + (i - s)
      BY <1>4
    <2>2. blk[s] \in Nat
      <3>1. s \in 1 .. N
        BY <2>1, <1>2
      <3> QED
        BY <3>1, <1>2
    <2>3. i \in Nat /\ i \in 1 .. Len(slices)
      BY <1>2, <1>a
    <2>4. Src(blk[i]) = slices[s + (blk[i] - blk[s])]
      BY <1>3
    <2> HIDE DEF s
    <2>5. s + (blk[i] - blk[s]) = i
      BY <2>1, <2>2, <2>3
    <2> QED
      BY <2>3, <2>4, <2>5
  <1> HIDE DEF Src
  <1>6. \A b \in Range(blk) : b \in 0 .. size - 1 /\ Src(b) \in KVs
    BY <1>2, <1>5 DEF Range
  <1>7. kv \in [0 .. size - 1 -> KVs]
    BY <1>2, <1>6
  <1>8. \A i \in 1 .. N : kv[blk[i]] = slices[i]
    <2>1. \A i \in 1 .. N : blk[i] \in Range(blk) /\ blk[i] \in DOMAIN e.kv
      BY <1>2 DEF Range
    <2> QED
      BY <2>1, <1>5
  <1>9. \A b \in 0 .. size - 1 : b \notin Range(blk) => kv[b] = e.kv[b]
    BY <1>2
  <1> HIDE DEF kv
  <1>10. f \in EngineType(size) /\ f.pool = e.pool /\ f.blk = e.blk /\ f.hash = e.hash
    BY <1>2, <1>7 DEF EngineType
  <1>11. EngineOK(f, size)
    BY <1>10 DEF EngineOK, Held
  <1> QED
    BY <1>1, <1>7, <1>8, <1>9, <1>11 DEF blk, N

\* An engine at the start: every block but the null block is free.
LEMMA EngineInit ==
    ASSUME NEW size \in Nat \ {0}
    PROVE  /\ EngineOK(Engine(size), size)
           /\ Engine(size).run = <<>> /\ Engine(size).wait = <<>> /\ Engine(size).batch = {}
           /\ Engine(size).blk = [r \in Reqs |-> <<>>]
           /\ Engine(size).hash = [b \in 0 .. size - 1 |-> None]
  <1> DEFINE q0 == [free |-> {}, ints |-> <<>>]
             all == [i \in 1 .. size |-> i - 1]
             q == FullQueue(size)
             pool == RemoveBlock(q, Popped(q, size))
             f == [size |-> size, run |-> <<>>, wait |-> <<>>, fin |-> FALSE, batch |-> {},
                   pool |-> pool,
                   hash |-> [b \in 0 .. size - 1 |-> None],
                   kv   |-> [b \in 0 .. size - 1 |-> Empty],
                   blk  |-> [r \in Reqs |-> <<>>]]
  <1>1. Engine(size) = f
    BY DEF Engine
  <1>2. QueueOK(q0)
    <2>1. Runs(<<>>) /\ \A x : ~Covers(<<>>, x)
      BY DEF Runs, Covers
    <2>2. q0.free = {} /\ q0.ints = <<>>
      OBVIOUS
    <2> HIDE DEF q0
    <2>3. q0 = [free |-> q0.free, ints |-> q0.ints]
      BY <2>2 DEF q0
    <2> QED
      BY <2>1, <2>2, <2>3 DEF QueueOK
  <1>3. all \in Seq(Nat) /\ Range(all) = 0 .. size - 1
    <2>1. all \in [1 .. size -> Nat] /\ DOMAIN all = 1 .. size
      OBVIOUS
    <2>2. \A b \in 0 .. size - 1 : b + 1 \in 1 .. size /\ all[b + 1] = b
      OBVIOUS
    <2>3. \A i \in 1 .. size : all[i] \in 0 .. size - 1
      OBVIOUS
    <2> HIDE DEF all
    <2>4. all \in Seq(Nat)
      BY <2>1
    <2>5. Range(all) = 0 .. size - 1
      BY <2>1, <2>2, <2>3 DEF Range
    <2> QED
      BY <2>4, <2>5
  <1>4. QueueOK(q) /\ q.free = 0 .. size - 1
    <2>1. q = AppendN(q0, all)
      BY DEF FullQueue
    <2>2. q0.free = {}
      OBVIOUS
    <2> HIDE DEF q0, all, q
    <2> QED
      BY <2>1, <2>2, <1>2, <1>3, AppendNOK
  <1> HIDE DEF q
  <1>5. Popped(q, size) = 0
    <2>1. Cardinality(0 .. size - 1) = size
      BY FS_Interval
    <2>2. Untouched(q, size)
      BY <2>1, <1>4 DEF Untouched
    <2> QED
      BY <2>2 DEF Popped
  <1>6. QueueOK(pool) /\ pool.free = (0 .. size - 1) \ {0}
    BY <1>4, <1>5, RemoveBlockOK
  <1> HIDE DEF pool
  <1>7. pool.free = 1 .. size - 1 /\ pool \in [free : SUBSET Nat, ints : Seq(Nat \X Nat)]
    BY <1>6 DEF QueueOK, Runs
  <1>8. /\ f.run = <<>> /\ f.wait = <<>> /\ f.batch = {} /\ f.pool = pool
        /\ f.blk = [r \in Reqs |-> <<>>] /\ f.hash = [b \in 0 .. size - 1 |-> None]
    OBVIOUS
  <1>9. f \in EngineType(size)
    <2>1. None \in Keys /\ Empty \in KVs
      BY DEF Keys, KVs, Empty
    <2>2. <<>> \in Seq(Reqs) /\ <<>> \in Seq(1 .. size - 1)
      OBVIOUS
    <2> QED
      BY <2>1, <2>2, <1>7 DEF EngineType
  <1> HIDE DEF f
  <1>10. Held(f) = {}
    <2>1. Range(<<>>) = {}
      BY DEF Range
    <2> QED
      BY <2>1, <1>8 DEF Held
  <1>11. f.hash[0] = None
    <2>1. 0 \in 0 .. size - 1
      OBVIOUS
    <2> QED
      BY <2>1, <1>8
  <1>12. EngineOK(f, size)
    BY <1>6, <1>7, <1>8, <1>9, <1>10, <1>11 DEF EngineOK
  <1> QED
    BY <1>1, <1>8, <1>12

LEMMA SameBlocks ==
    ASSUME NEW size \in Nat \ {0}, NEW e, EngineOK(e, size), NEW f \in EngineType(size),
           f.pool = e.pool, f.blk = e.blk, f.hash = e.hash
    PROVE  EngineOK(f, size)
  BY DEF EngineOK, Held

\* The room for a whole sequence is room for its next part, and what is left
\* is room for the rest.
LEMMA RoomOK ==
    ASSUME NEW size \in Nat \ {0}, NEW e, EngineOK(e, size), NEW r \in Reqs,
           NEW hit \in Seq(1 .. size - 1), NEW n \in Nat, NEW m \in Nat, n <= m, m <= TotalLen[r],
           Partway(e, r, hit, n), Fits(e, r, hit, m)
    PROVE  /\ EngineOK(Allocate(e, r, hit, n, n), size)
           /\ \E fresh : Allocated(Allocate(e, r, hit, n, n), e, r, hit, fresh, n, size)
           /\ BlocksFor(m) - BlocksFor(n) <= Cardinality(Allocate(e, r, hit, n, n).pool.free)
  <1> DEFINE f == Allocate(e, r, hit, n, n)
             S == e.pool.free \ Range(hit)
             a == Len(e.blk[r])
             h == Len(hit)
             c == BlocksFor(n)
             d == BlocksFor(m)
             k == Cardinality(S)
  <1>1. a \in Nat /\ h \in Nat
    <2>1. e.blk \in [Reqs -> Seq(1 .. size - 1)]
      BY EngineFields
    <2>2. e.blk[r] \in Seq(1 .. size - 1)
      BY <2>1
    <2> QED
      BY <2>2
  <1>2. c \in Nat /\ d \in Nat /\ c <= d
    BY BlocksForOK, BlocksForMonotone
  <1>3. k \in Nat
    <2>1. IsFiniteSet(e.pool.free)
      BY EngineFields
    <2>2. IsFiniteSet(S)
      BY <2>1, FS_Difference
    <2> QED
      BY <2>2, FS_CardinalityType
  <1>4. a + h <= c /\ d - a - h <= k
    BY DEF Fits, Need, Partway
  <1>5. Fits(e, r, hit, n) <=> c - a - h <= k
    BY DEF Fits, Need
  <1>6. n <= TotalLen[r]
    BY KeyOK
  <1> HIDE DEF a, h, c, d, k, S
  <1>7. c - a - h <= k
    BY <1>1, <1>2, <1>3, <1>4
  <1>8. EngineOK(f, size) /\ \E fresh : Allocated(f, e, r, hit, fresh, n, size)
    BY <1>5, <1>6, <1>7, AllocateOK
  <1> HIDE DEF f
  <1>9. Cardinality(f.pool.free) = k - (c - a - h)
    <2>1. PICK fresh : Allocated(f, e, r, hit, fresh, n, size)
      BY <1>8
    <2>2. LeavesRoom(f, e, r, hit, n)
      BY <2>1, AllocatedLeaves
    <2> QED
      BY <2>2 DEF LeavesRoom, k, c, a, h, S
  <1>10. d - c <= k - (c - a - h)
    BY <1>1, <1>2, <1>3, <1>4
  <1> QED
    BY <1>8, <1>9, <1>10 DEF f, c, d

LEMMA WholeBlocks ==
    ASSUME NEW k \in Nat, NEW t \in Nat, k * BlockSize <= t
    PROVE  k <= BlocksFor(t)
  <1>1. BlockSize \in Nat \ {0}
    BY DisaggAssumption
  <1>2. k * BlockSize \in Nat /\ k * BlockSize = BlockSize * k + 0 /\ 0 \in 0 .. BlockSize - 1
    BY <1>1, Z3
  <1>3. (k * BlockSize) \div BlockSize = k
    BY <1>1, <1>2, DivModUnique
  <1>4. (k * BlockSize) \div BlockSize <= t \div BlockSize
    BY <1>1, <1>2, DivMonotone
  <1>5. t \div BlockSize <= BlocksFor(t) /\ t \div BlockSize \in Nat /\ BlocksFor(t) \in Nat
    BY BlocksForOK
  <1> QED
    BY <1>3, <1>4, <1>5

\* The tokens of a step: all that are left of m, or what the budget allows.
Chunked(m, comp, b, n, to) ==
    /\ n \in Nat \ {0} /\ b - n \in Nat /\ to \in Nat /\ to = comp + n /\ comp < to
    /\ to <= m /\ (to = m \/ b - n = 0)

LEMMA ChunkOK ==
    ASSUME NEW m \in Nat, NEW comp \in Nat, comp < m, NEW b \in Nat \ {0},
           NEW n, n = Least(m - comp, b), NEW to, to = comp + n
    PROVE  Chunked(m, comp, b, n, to)
  <1>1. CASE m - comp <= b
    BY <1>1 DEF Least, Chunked
  <1>2. CASE ~(m - comp <= b)
    BY <1>2 DEF Least, Chunked
  <1> QED
    BY <1>1, <1>2

\* Engine f is e after request r was given blocks for its first to tokens,
\* of which comp were found in the prefix cache as hit.
Admits(f, e, r, hit, comp, to, m) ==
    /\ hit = Hit(e, r, m) /\ Fits(e, r, hit, m) /\ comp = Len(hit) * BlockSize
    /\ f = Allocate(e, r, hit, to, to)
Admitted(f, e, r, hit, to, m, size) ==
    /\ EngineOK(f, size)
    /\ \E fresh : Allocated(f, e, r, hit, fresh, to, size)
    /\ BlocksFor(m) - BlocksFor(to) <= Cardinality(f.pool.free)

\* A request that is admitted, or resumed, for a part of its m tokens after
\* those found in the prefix cache.
LEMMA AdmitOK ==
    ASSUME NEW size \in Nat \ {0}, NEW e, EngineOK(e, size), NEW r \in Reqs, e.blk[r] = <<>>,
           NEW m \in 1 .. TotalLen[r], NEW b \in Nat \ {0}, NEW f, NEW hit, NEW comp, NEW n, NEW to,
           Admits(f, e, r, hit, comp, to, m), n = Least(m - comp, b), to = comp + n
    PROVE  comp \in Nat /\ Chunked(m, comp, b, n, to) /\ Admitted(f, e, r, hit, to, m, size)
  <1> DEFINE k == Len(hit)
  <1>0. TotalLen[r] \in Nat /\ m \in Nat \ {0} /\ m <= TotalLen[r] /\ BlockSize \in Nat \ {0}
    BY KeyOK, DisaggAssumption
  <1>1. hit \in Seq(1 .. size - 1) /\ k * BlockSize <= m - 1 /\ Fits(e, r, hit, m)
        /\ comp = k * BlockSize /\ f = Allocate(e, r, hit, to, to)
    BY HitOK DEF Admits
  <1>2. k \in Nat
    BY <1>1
  <1> HIDE DEF k
  <1>4. comp \in Nat /\ comp < m
    BY <1>0, <1>1, <1>2, Z3
  <1>5. Chunked(m, comp, b, n, to)
    BY <1>0, <1>4, ChunkOK
  <1>6. to \in Nat /\ to <= m /\ k * BlockSize <= to
    BY <1>1, <1>4, <1>5 DEF Chunked
  <1>7. Partway(e, r, hit, to)
    <2>1. k <= BlocksFor(to) /\ BlocksFor(to) \in Nat
      BY <1>2, <1>6, WholeBlocks, BlocksForOK
    <2>2. Len(e.blk[r]) = 0
      OBVIOUS
    <2>3. 0 + k <= BlocksFor(to)
      BY <2>1, <1>2
    <2> QED
      BY <2>2, <2>3 DEF Partway, k
  <1>8. Admitted(f, e, r, hit, to, m, size)
    BY <1>0, <1>1, <1>6, <1>7, RoomOK DEF Admitted
  <1> QED
    BY <1>4, <1>5, <1>8

-----------------------------------------------------------------------------
(* What a step leaves alone *)

\* A step of a thread that leaves request q where it is.
Unmoved(q) ==
    /\ obj'[q].comp = obj[q].comp /\ obj'[q].out = obj[q].out /\ obj'[q].ok = obj[q].ok
    /\ obj'[q].st = "away" => obj[q].st = "away"
    /\ sent'[q] = sent[q] /\ (q \in known => q \in known')
    /\ q \in Range(pre'.wait) => q \in Range(pre.wait)
    /\ q \in Range(pre'.run) <=> q \in Range(pre.run)
    /\ InTq(q)' => InTq(q)
    /\ InHand(q)' => InHand(q)
    /\ \A d \in Decoders : /\ InDq(d, q)' => InDq(d, q)
                           /\ q \in Range(dec'[d].run) => q \in Range(dec[d].run)
                           /\ q \in Range(dec'[d].wait) => q \in Range(dec[d].wait)

\* A step that leaves the prefill thread where it is.
Quiet ==
    /\ pstep'.pc = pstep.pc /\ pstep'.sampled = pstep.sampled
    /\ pstep.pc = "remove" => pstep'.sched = pstep.sched

LEMMA UnmovedTracked ==
    ASSUME NEW q \in Reqs, NEW hm, NEW en, TrackedAt(hm, en, q), Unmoved(q), Quiet
    PROVE  TrackedAt(hm, en, q)'
  <1>1. (Putting' <=> Putting) /\ (Sampled(q)' <=> Sampled(q)) /\ NumTokens(q)' = NumTokens(q)
    BY DEF Unmoved, Quiet, Putting, Sampled, NumTokens
  <1>2. LocatedAt(hm, en, q)'
    BY <1>1 DEF TrackedAt, LocatedAt, Unmoved
  <1>3. ProgressAt(hm, q)'
    BY <1>1 DEF TrackedAt, ProgressAt, Unmoved, Quiet
  <1>4. LeavingAt(hm, q)'
    BY <1>1 DEF TrackedAt, LeavingAt, Unmoved, Quiet
  <1> QED
    BY <1>2, <1>3, <1>4 DEF TrackedAt

LEMMA AllUnmoved ==
    ASSUME Tracked, Quiet, \A q \in Reqs : Unmoved(q)
    PROVE  Tracked'
  <1> SUFFICES ASSUME NEW q \in Reqs
               PROVE  \E hm \in Homes : \E en \in Decoders : TrackedAt(hm, en, q)'
    BY DEF Tracked
  <1>1. PICK hm \in Homes : \E en \in Decoders : TrackedAt(hm, en, q)
    BY DEF Tracked
  <1>2. PICK en \in Decoders : TrackedAt(hm, en, q)
    BY <1>1
  <1>3. TrackedAt(hm, en, q)'
    BY <1>2, UnmovedTracked
  <1> QED
    BY <1>3

LEMMA OneMoved ==
    ASSUME Tracked, Quiet, NEW r \in Reqs, \A q \in Reqs : q # r => Unmoved(q),
           \E hm \in Homes : \E en \in Decoders : TrackedAt(hm, en, r)'
    PROVE  Tracked'
  <1> SUFFICES ASSUME NEW q \in Reqs, q # r
               PROVE  \E hm \in Homes : \E en \in Decoders : TrackedAt(hm, en, q)'
    BY DEF Tracked
  <1>1. PICK hm \in Homes : \E en \in Decoders : TrackedAt(hm, en, q)
    BY DEF Tracked
  <1>2. PICK en \in Decoders : TrackedAt(hm, en, q)
    BY <1>1
  <1>3. TrackedAt(hm, en, q)'
    BY <1>2, UnmovedTracked
  <1> QED
    BY <1>3

LEMMA PrefillingSame ==
    ASSUME Prefilling, pre'.run = pre.run, pre'.blk = pre.blk, pre'.pool = pre.pool, pstep' = pstep,
           \A q \in Range(pre.run) : obj'[q].comp = obj[q].comp
    PROVE  Prefilling'
  <1>1. \A q \in Reqs : q \in Range(pre.run) => Reach(q)' = Reach(q)
    BY DEF Reach
  <1>2. \A q \in Reqs : Short(q)' <=> Short(q)
    BY <1>1 DEF Short
  <1>3. \A q \in Reqs : q \in Range(pre.run) => PrefillOne(q)'
    BY <1>1, <1>2 DEF Prefilling, PrefillOne, Sampled
  <1> QED
    BY <1>2, <1>3 DEF Prefilling

LEMMA DecodingSame ==
    ASSUME NEW d \in Decoders, DecodingAt(d), dstep'[d].pc = dstep[d].pc, dstep'[d].idx = dstep[d].idx,
           dstep'[d].num = dstep[d].num, dec'[d].run = dec[d].run, dec'[d].blk = dec[d].blk,
           \A q \in Range(dec[d].run) : obj'[q].comp = obj[q].comp /\ obj'[q].out = obj[q].out
    PROVE  DecodingAt(d)'
  <1>1. \A q \in Reqs : q \in Range(dec[d].run) => DecodeOne(d, q)'
    BY DEF DecodingAt, DecodeOne, NumTokens
  <1> QED
    BY <1>1 DEF DecodingAt

\* A step outside schedule(): requests R leave the prefill engine.
LEMMA PrefillingLeft ==
    ASSUME EngineOK(pre, PBlocks), EngineOK(pre', PBlocks), Prefilling,
           NEW R, Left(pre', pre, R), pstep.pc # "schedule", pstep'.pc # "schedule",
           \A q \in Reqs : q \in Range(pre'.run) =>
             obj'[q].comp = obj[q].comp /\ (Sampled(q) => Sampled(q)')
    PROVE  Prefilling'
  <1>0. PBlocks \in Nat \ {0}
    BY DisaggAssumption
  <1>1. /\ pre'.blk = [r \in Reqs |-> IF r \in R THEN <<>> ELSE pre.blk[r]]
        /\ Range(pre'.run) = Range(pre.run) \ R /\ pre.pool.free \subseteq pre'.pool.free
    BY DEF Left
  <1>2. \A q \in Reqs : q \in Range(pre'.run) => Reach(q)' = Reach(q) /\ pre'.blk[q] = pre.blk[q]
    BY <1>1 DEF Reach
  <1>3. \A q \in Reqs : Short(q)' => Short(q)
    BY <1>1, <1>2 DEF Short
  <1>4. /\ Cardinality(pre.pool.free) \in Nat /\ Cardinality(pre'.pool.free) \in Nat
        /\ Cardinality(pre.pool.free) <= Cardinality(pre'.pool.free)
    <2>1. IsFiniteSet(pre'.pool.free) /\ Cardinality(pre'.pool.free) \in Nat /\ Cardinality(pre.pool.free) \in Nat
      BY <1>0, EngineFields
    <2> QED
      BY <1>1, <2>1, FS_Subset
  <1>5. ASSUME NEW q \in Reqs, q \in Range(pre'.run)
        PROVE  PrefillOne(q)'
    <2>1. /\ PrefillOne(q) /\ Reach(q)' = Reach(q) /\ pre'.blk[q] = pre.blk[q]
          /\ obj'[q].comp = obj[q].comp /\ (~Sampled(q)' => ~Sampled(q))
      BY <1>1, <1>2, <1>5 DEF Prefilling
    <2>2. Short(q)' => BlocksFor(PromptLen[q]) - Len(pre'.blk[q]) <= Cardinality(pre'.pool.free)
      <3> SUFFICES ASSUME Short(q)'
                   PROVE  BlocksFor(PromptLen[q]) - Len(pre'.blk[q]) <= Cardinality(pre'.pool.free)
        OBVIOUS
      <3>1. BlocksFor(PromptLen[q]) - Len(pre.blk[q]) <= Cardinality(pre.pool.free)
        BY <1>3, <2>1 DEF PrefillOne
      <3>2. BlocksFor(PromptLen[q]) \in Nat /\ Len(pre.blk[q]) \in Nat
        <4>1. PromptLen[q] \in Nat /\ pre.blk \in [Reqs -> Seq(1 .. PBlocks - 1)]
          BY <1>0, KeyOK, EngineFields
        <4>2. pre.blk[q] \in Seq(1 .. PBlocks - 1)
          BY <4>1
        <4> QED
          BY <4>1, <4>2, BlocksForOK
      <3> DEFINE a == BlocksFor(PromptLen[q])
                 b == Len(pre.blk[q])
                 c == Cardinality(pre.pool.free)
                 e == Cardinality(pre'.pool.free)
      <3>3. a \in Nat /\ b \in Nat /\ c \in Nat /\ e \in Nat /\ c <= e /\ a - b <= c
        BY <3>1, <3>2, <1>4
      <3> HIDE DEF a, b, c, e
      <3>4. a - b <= e
        BY <3>3
      <3> QED
        BY <3>4, <2>1 DEF a, b, e
    <2> QED
      BY <2>1, <2>2 DEF PrefillOne
  <1>6. \A q \in Reqs : q \notin Range(pre'.run) => pre'.blk[q] = <<>>
    BY <1>1 DEF Prefilling
  <1> QED
    BY <1>3, <1>5, <1>6 DEF Prefilling

\* A step outside schedule() that leaves the prefill engine alone.
LEMMA PrefillingKept ==
    ASSUME EngineOK(pre, PBlocks), Prefilling, pre' = pre,
           pstep.pc # "schedule", pstep'.pc # "schedule",
           \A q \in Reqs : q \in Range(pre.run) =>
             obj'[q].comp = obj[q].comp /\ (Sampled(q) => Sampled(q)')
    PROVE  Prefilling'
  <1>1. PBlocks \in Nat \ {0}
    BY DisaggAssumption
  <1>2. Left(pre, pre, {})
    BY <1>1, LeftNone
  <1> QED
    BY <1>2, PrefillingLeft

\* Where a request is that a queue holds.
LEMMA InPrefill ==
    ASSUME Tracked, NEW r \in Reqs,
           r \in Range(pre.wait) \/ (r \in Range(pre.run) /\ ~(Putting /\ Sampled(r)))
    PROVE  /\ ~InTq(r) /\ ~InHand(r) /\ \A d \in Decoders : ~InDq(d, r)
           /\ \A d \in Decoders : r \notin Range(dec[d].run) /\ r \notin Range(dec[d].wait)
           /\ r \in Range(pre.run) => r \notin Range(pre.wait)
           /\ obj[r].ok /\ obj[r].out = <<>> /\ sent[r] = <<>> /\ obj[r].st # "away"
  <1>1. PICK hm \in Homes : \E en \in Decoders : TrackedAt(hm, en, r)
    BY DEF Tracked
  <1>2. PICK en \in Decoders : TrackedAt(hm, en, r)
    BY <1>1
  <1>3. hm = "wait" \/ hm = "run"
    BY <1>2 DEF TrackedAt, LocatedAt
  <1>4. ~InTq(r) /\ ~InHand(r) /\ \A d \in Decoders : ~InDq(d, r)
    BY <1>2, <1>3 DEF TrackedAt, LocatedAt
  <1>5. \A d \in Decoders : r \notin Range(dec[d].run) /\ r \notin Range(dec[d].wait)
    BY <1>2, <1>3 DEF TrackedAt, LocatedAt
  <1>6. obj[r].ok /\ obj[r].out = <<>> /\ sent[r] = <<>> /\ obj[r].st # "away"
    BY <1>2, <1>3 DEF TrackedAt, LocatedAt, ProgressAt
  <1>7. r \in Range(pre.run) => r \notin Range(pre.wait)
    <2> SUFFICES ASSUME r \in Range(pre.run), r \in Range(pre.wait)
                 PROVE  FALSE
      OBVIOUS
    <2>1. hm = "wait" /\ Putting /\ Sampled(r)
      BY <1>2 DEF TrackedAt, LocatedAt
    <2> QED
      BY <1>2, <2>1 DEF TrackedAt, LeavingAt
  <1> QED
    BY <1>4, <1>5, <1>6, <1>7

\* A request that a decode engine has is nowhere else.
LEMMA InDecoder ==
    ASSUME Typed, Tracked, Stepping, NEW d \in Decoders, NEW r \in Reqs,
           r \in Range(dec[d].run) \/ r \in Range(dec[d].wait)
    PROVE  /\ ~InTq(r) /\ ~InHand(r) /\ \A c \in Decoders : ~InDq(c, r)
           /\ r \notin Range(pre.run) /\ r \notin Range(pre.wait) /\ ~Sampled(r)
           /\ \A c \in Decoders : c # d => r \notin Range(dec[c].run) /\ r \notin Range(dec[c].wait)
           /\ r \in Range(dec[d].run) => r \notin Range(dec[d].wait)
           /\ obj[r].ok /\ obj[r].st # "away" /\ obj[r].out # <<>> /\ sent[r] = obj[r].out
           /\ NumTokens(r) <= TotalLen[r] /\ \A i \in DOMAIN sent[r] : sent[r][i] = i
  <1>1. PICK hm \in Homes : \E en \in Decoders : TrackedAt(hm, en, r)
    BY DEF Tracked
  <1>2. PICK en \in Decoders : TrackedAt(hm, en, r)
    BY <1>1
  <1>3. (hm = "drun" \/ hm = "dwait") /\ en = d
    BY <1>2 DEF TrackedAt, LocatedAt
  <1>4. ~InTq(r) /\ ~InHand(r) /\ r \notin Range(pre.wait) /\ obj[r].st # "away"
    BY <1>2, <1>3 DEF TrackedAt, LocatedAt
  <1>5. \A c \in Decoders : ~InDq(c, r)
    BY <1>2, <1>3 DEF TrackedAt, LocatedAt
  <1>6. \A c \in Decoders : c # d => r \notin Range(dec[c].run) /\ r \notin Range(dec[c].wait)
    BY <1>2, <1>3 DEF TrackedAt, LocatedAt
  <1>7. r \in Range(dec[d].run) => r \notin Range(dec[d].wait)
    BY <1>2, <1>3 DEF TrackedAt, LocatedAt
  <1>8. ~Sampled(r)
    <2>1. pstep.pc \in {"top", "schedule"} => ~Sampled(r)
      BY DEF Stepping, Sampled, Range
    <2>2. Sampled(r) => ~Putting /\ pstep.pc \notin {"gather", "put"}
      BY <1>2, <1>3 DEF TrackedAt, LeavingAt
    <2>3. Sampled(r) => pstep.pc \notin {"top", "schedule"}
      BY <2>1
    <2>4. pstep.pc \in {"top", "schedule", "gather", "put", "update", "remove"}
      BY DEF Typed, PSteps
    <2> QED
      BY <2>2, <2>3, <2>4 DEF Putting
  <1>9. r \notin Range(pre.run)
    BY <1>2, <1>3, <1>8 DEF TrackedAt, LocatedAt
  <1>10. obj[r].ok /\ obj[r].out # <<>> /\ sent[r] = obj[r].out
         /\ NumTokens(r) <= TotalLen[r] /\ \A i \in DOMAIN sent[r] : sent[r][i] = i
    BY <1>2, <1>3 DEF TrackedAt, ProgressAt
  <1> QED
    BY <1>4, <1>5, <1>6, <1>7, <1>8, <1>9, <1>10

-----------------------------------------------------------------------------
(* The invariant holds *)

LEMMA InvInit ==
    ASSUME Init
    PROVE  Inv
  <1> USE DEF Init
  <1>0. PBlocks \in Nat \ {0} /\ DBlocks \in Nat \ {0} /\ Decoders # {} /\ Decoders \in SUBSET Nat
        /\ Budget \in Nat
    BY DisaggAssumption
  <1>1. /\ EngineOK(pre, PBlocks) /\ pre.run = <<>> /\ pre.wait = <<>>
        /\ pre.blk = [r \in Reqs |-> <<>>]
    BY <1>0, EngineInit
  <1>2. \A d \in Decoders : /\ EngineOK(dec[d], DBlocks) /\ dec[d].run = <<>> /\ dec[d].wait = <<>>
                            /\ dec[d].blk = [r \in Reqs |-> <<>>] /\ dec[d] \in EngineType(DBlocks)
    BY <1>0, EngineInit DEF EngineOK
  <1>3. Range(<<>>) = {} /\ DOMAIN <<>> = {} /\ IsInjective(<<>>)
    BY DEF Range, IsInjective
  <1>4. /\ pstep.pc = "top" /\ pstep.sampled = <<>> /\ pstep.map = <<>> /\ pstep \in PSteps
    <2>1. <<>> \in Seq(Reqs) /\ <<>> \in Seq(Items)
      OBVIOUS
    <2> QED
      BY <2>1 DEF PIdle, PSteps
  <1>5. \A d \in Decoders : dstep[d].pc = "top" /\ dstep[d].num = [r \in Reqs |-> 0] /\ dstep[d] \in DSteps
    BY DEF DIdle, DSteps
  <1>6. Typed
    <2>1. tq \in Seq(Seq(Items)) /\ hand \in Seq([d : Decoders, it : Items])
      OBVIOUS
    <2>2. dq \in [Decoders -> Seq(Items)]
      OBVIOUS
    <2>3. obj \in Objects
      BY DEF Objects
    <2>4. dec \in [Decoders -> EngineType(DBlocks)]
      BY <1>2
    <2>5. sent \in [Reqs -> Seq(Nat)]
      OBVIOUS
    <2>6. dstep \in [Decoders -> DSteps]
      BY <1>5
    <2>7. known \in SUBSET Reqs /\ adding \in Reqs \cup {None} /\ done \in SUBSET Reqs
          /\ lost \in SUBSET Reqs /\ ~killed
      OBVIOUS
    <2> QED
      BY <1>1, <1>2, <1>4, <2>1, <2>2, <2>3, <2>4, <2>5, <2>6, <2>7, Zenon DEF Typed
  <1>7. Once
    BY <1>1, <1>2, <1>3, <1>4 DEF Once
  <1>8. Carried /\ Stepping
    BY <1>3, <1>4 DEF Carried, Stepping
  <1>9. Prefilling
    BY <1>1, <1>3 DEF Prefilling, Short
  <1>10. Decoding
    <2> SUFFICES ASSUME NEW d \in Decoders
                 PROVE  DecodingAt(d)
      BY DEF Decoding
    <2>1. /\ Range(dec[d].run) = {} /\ DOMAIN dec[d].run = {} /\ dec[d].blk = [r \in Reqs |-> <<>>]
          /\ dstep[d].num = [r \in Reqs |-> 0]
      BY <1>2, <1>3, <1>5
    <2>2. dstep[d].pc = "top"
      BY DEF Init, DIdle
    <2> QED
      BY <2>1, <2>2 DEF DecodingAt
  <1>11. Tracked
    <2> SUFFICES ASSUME NEW r \in Reqs
                 PROVE  \E hm \in Homes : \E en \in Decoders : TrackedAt(hm, en, r)
      BY DEF Tracked
    <2>1. PICK d0 : d0 \in Decoders
      BY <1>0
    <2>2. LocatedAt("away", d0, r)
      BY <1>1, <1>2, <1>3 DEF LocatedAt, InTq, InHand, InDq
    <2>3. ProgressAt("away", r)
      BY <1>3 DEF ProgressAt
    <2>4. LeavingAt("away", r)
      BY <1>3, <1>4 DEF LeavingAt, Sampled
    <2>5. "away" \in Homes
      BY DEF Homes
    <2> QED
      BY <2>1, <2>2, <2>3, <2>4, <2>5 DEF TrackedAt
  <1> QED
    BY <1>6, <1>7, <1>8, <1>9, <1>10, <1>11 DEF Inv

LEMMA AddRequestStep ==
    ASSUME Inv, NEW r \in Reqs, AddRequest(r)
    PROVE  Inv'
  <1>u. /\ obj[r].st = "away" /\ obj' = [obj EXCEPT ![r].st = "new"]
        /\ pre' = [pre EXCEPT !.wait = Append(@, r)] /\ adding' = r /\ known' = known
        /\ pstep' = pstep /\ tq' = tq /\ hand' = hand /\ dq' = dq /\ dec' = dec /\ dstep' = dstep
        /\ sent' = sent /\ done' = done /\ lost' = lost /\ killed' = killed
    BY DEF AddRequest
  <1>a. /\ PBlocks \in Nat \ {0} /\ DBlocks \in Nat \ {0} /\ BlockSize \in Nat \ {0}
        /\ Budget \in Nat \ {0} /\ Decoders \in SUBSET Nat
    BY DisaggAssumption
  <1>1. Typed /\ Once /\ Carried /\ Stepping /\ Prefilling /\ Decoding /\ Tracked
    BY DEF Inv
  <1>2. /\ EngineOK(pre, PBlocks) /\ pre \in EngineType(PBlocks)
        /\ pre.wait \in Seq(Reqs) /\ obj \in Objects
    BY <1>a, <1>1, EngineFields DEF Typed
  <1>3. PICK hm \in Homes : \E en \in Decoders : TrackedAt(hm, en, r)
    BY <1>1 DEF Tracked
  <1>4. PICK en \in Decoders : TrackedAt(hm, en, r)
    BY <1>3
  <1>5. hm = "away" /\ r \notin Range(pre.wait)
    BY <1>u, <1>4 DEF TrackedAt, LocatedAt
  <1>6. /\ Append(pre.wait, r) \in Seq(Reqs) /\ Range(Append(pre.wait, r)) = Range(pre.wait) \cup {r}
        /\ IsInjective(Append(pre.wait, r))
    BY <1>1, <1>2, <1>5, InjectiveAppend DEF Once
  <1>7. /\ pre' \in EngineType(PBlocks) /\ pre'.pool = pre.pool /\ pre'.blk = pre.blk
        /\ pre'.hash = pre.hash /\ pre'.run = pre.run /\ pre'.wait = Append(pre.wait, r)
    BY <1>u, <1>2, <1>6 DEF EngineType
  <1>8. EngineOK(pre', PBlocks)
    BY <1>a, <1>2, <1>7, SameBlocks
  <1>9. /\ obj' \in Objects
        /\ \A q \in Reqs : /\ obj'[q].comp = obj[q].comp /\ obj'[q].out = obj[q].out /\ obj'[q].ok = obj[q].ok
                           /\ obj'[q].st = IF q = r THEN "new" ELSE obj[q].st
    BY <1>u, <1>2 DEF Objects
  <1>10. Typed'
    BY <1>u, <1>1, <1>8, <1>9 DEF Typed
  <1>11. Once' /\ Carried' /\ Stepping'
    BY <1>u, <1>1, <1>6, <1>7 DEF Once, Carried, Stepping
  <1>12. Prefilling'
    <2>1. \A q \in Range(pre.run) : q \in Reqs
      BY <1>2 DEF EngineType, Range
    <2> QED
      BY <2>1, <1>u, <1>1, <1>7, <1>9, PrefillingSame
  <1>13. Decoding'
    <2> SUFFICES ASSUME NEW d \in Decoders
                 PROVE  DecodingAt(d)'
      BY DEF Decoding
    <2>1. \A q \in Range(dec[d].run) : q \in Reqs
      BY <1>a, <1>1, EngineFields DEF Typed, Range
    <2> QED
      BY <2>1, <1>u, <1>1, <1>9, DecodingSame DEF Decoding
  <1>14. Tracked'
    <2>1. Quiet
      BY <1>u DEF Quiet
    <2>2. \A q \in Reqs : q # r => Unmoved(q)
      BY <1>u, <1>6, <1>7, <1>9 DEF Unmoved, InTq, InHand, InDq
    <2>3. LocatedAt("wait", en, r)'
      BY <1>u, <1>4, <1>5, <1>7, <1>9
         DEF TrackedAt, LocatedAt, InTq, InHand, InDq, Putting, Sampled
    <2>4. ProgressAt("wait", r)'
      BY <1>u, <1>4, <1>5, <1>9 DEF TrackedAt, ProgressAt
    <2>5. LeavingAt("wait", r)'
      BY <1>u, <1>4, <1>5, <1>7, <1>9 DEF TrackedAt, LeavingAt, Putting, Sampled
    <2>6. "wait" \in Homes
      BY DEF Homes
    <2>7. \E x \in Homes : \E y \in Decoders : TrackedAt(x, y, r)'
      BY <2>3, <2>4, <2>5, <2>6 DEF TrackedAt
    <2> QED
      BY <1>1, <2>1, <2>2, <2>7, OneMoved
  <1> QED
    BY <1>10, <1>11, <1>12, <1>13, <1>14 DEF Inv

LEMMA TrackRequestStep ==
    ASSUME Inv, TrackRequest
    PROVE  Inv'
  <1>u. /\ adding # None /\ known' = known \cup {adding} /\ adding' = None /\ obj' = obj /\ pre' = pre
        /\ pstep' = pstep /\ tq' = tq /\ hand' = hand /\ dq' = dq /\ dec' = dec /\ dstep' = dstep
        /\ sent' = sent /\ done' = done /\ lost' = lost /\ killed' = killed
    BY DEF TrackRequest
  <1>a. /\ PBlocks \in Nat \ {0} /\ DBlocks \in Nat \ {0} /\ BlockSize \in Nat \ {0}
        /\ Budget \in Nat \ {0} /\ Decoders \in SUBSET Nat
    BY DisaggAssumption
  <1>1. Typed /\ Once /\ Carried /\ Stepping /\ Prefilling /\ Decoding /\ Tracked
    BY DEF Inv
  <1>2. Typed'
    BY <1>u, <1>1 DEF Typed
  <1>3. Once' /\ Carried' /\ Stepping'
    BY <1>u, <1>1 DEF Once, Carried, Stepping
  <1>4. Prefilling'
    BY <1>u, <1>1, PrefillingSame
  <1>5. Decoding'
    BY <1>u, <1>1, DecodingSame DEF Decoding
  <1>6. Tracked'
    <2>1. Quiet /\ \A q \in Reqs : Unmoved(q)
      BY <1>u DEF Quiet, Unmoved, InTq, InHand, InDq
    <2> QED
      BY <1>1, <2>1, AllUnmoved
  <1> QED
    BY <1>2, <1>3, <1>4, <1>5, <1>6 DEF Inv

LEMMA PBeginStep ==
    ASSUME Inv, PBegin
    PROVE  Inv'
  <1>u. /\ pstep.pc = "top" /\ obj' = obj /\ known' = known /\ adding' = adding /\ pre' = pre
        /\ pstep' = [PIdle EXCEPT !.pc = "schedule", !.budget = Budget, !.sched = pre.run]
        /\ tq' = tq /\ hand' = hand /\ dq' = dq /\ dec' = dec /\ dstep' = dstep
        /\ sent' = sent /\ done' = done /\ lost' = lost /\ killed' = killed
    BY DEF PBegin
  <1>a. /\ PBlocks \in Nat \ {0} /\ DBlocks \in Nat \ {0} /\ BlockSize \in Nat \ {0}
        /\ Budget \in Nat \ {0} /\ Decoders \in SUBSET Nat
    BY DisaggAssumption
  <1>1. Typed /\ Once /\ Carried /\ Stepping /\ Prefilling /\ Decoding /\ Tracked
    BY DEF Inv
  <1>2. pstep \in PSteps /\ pre.run \in Seq(Reqs) /\ obj \in Objects
    BY <1>a, <1>1, EngineFields DEF Typed
  <1>3. /\ pstep' \in PSteps /\ pstep'.pc = "schedule" /\ pstep'.sampled = <<>> /\ pstep'.map = <<>>
        /\ pstep'.num = [r \in Reqs |-> 0] /\ pstep'.budget = Budget
    <2>1. <<>> \in Seq(Reqs) /\ <<>> \in Seq(Items)
      OBVIOUS
    <2> QED
      BY <1>u, <2>1, <1>a, <1>2 DEF PIdle, PSteps
  <1>4. Range(<<>>) = {} /\ DOMAIN <<>> = {} /\ IsInjective(<<>>)
    BY DEF Range, IsInjective
  <1>5. pstep.pc = "top" /\ pstep.sampled = <<>>
    BY <1>u, <1>1 DEF Stepping
  <1>6. Typed'
    BY <1>u, <1>1, <1>3 DEF Typed
  <1>7. Once' /\ Carried' /\ Stepping'
    BY <1>u, <1>1, <1>3, <1>4 DEF Once, Carried, Stepping
  <1>8. \A r \in Reqs : r \in Range(pre.run) =>
          /\ obj[r].comp < PromptLen[r] /\ obj[r].comp \in Nat /\ Reach(r) = obj[r].comp
          /\ Reach(r)' = obj[r].comp /\ Short(r) /\ Short(r)' /\ PrefillOne(r)
    BY <1>u, <1>1, <1>2, <1>3, <1>4, <1>5 DEF Objects, Prefilling, PrefillOne, Reach, Short, Sampled
  <1>9. Prefilling'
    <2>1. \A r, q \in Reqs : r \in Range(pre.run) /\ q \in Range(pre.run) => q = r
      BY <1>1, <1>8 DEF Prefilling
    <2>2. \A q \in Range(pre.run) : q \in Reqs
      BY <1>2 DEF Range
    <2>3. ASSUME NEW r \in Reqs, r \in Range(pre.run)
          PROVE  PrefillOne(r)'
      BY <1>u, <1>a, <1>3, <1>8, <2>1, <2>2, <2>3 DEF PrefillOne
    <2> QED
      BY <1>u, <1>1, <2>1, <2>3 DEF Prefilling, Short
  <1>10. Decoding'
    BY <1>u, <1>1, DecodingSame DEF Decoding
  <1>11. Tracked'
    <2> SUFFICES ASSUME NEW q \in Reqs
                 PROVE  \E hm \in Homes : \E en \in Decoders : TrackedAt(hm, en, q)'
      BY DEF Tracked
    <2>1. PICK hm \in Homes : \E en \in Decoders : TrackedAt(hm, en, q)
      BY <1>1 DEF Tracked
    <2>2. PICK en \in Decoders : TrackedAt(hm, en, q)
      BY <2>1
    <2>3. ~Putting /\ ~Putting' /\ ~Sampled(q) /\ ~Sampled(q)'
      BY <1>3, <1>4, <1>5 DEF Putting, Sampled
    <2>4. LocatedAt(hm, en, q)'
      BY <1>u, <2>2, <2>3 DEF TrackedAt, LocatedAt, InTq, InHand, InDq
    <2>5. ProgressAt(hm, q)'
      BY <1>u, <2>2, <2>3 DEF TrackedAt, ProgressAt, NumTokens
    <2>6. LeavingAt(hm, q)'
      BY <2>3 DEF LeavingAt
    <2> QED
      BY <2>4, <2>5, <2>6 DEF TrackedAt
  <1> QED
    BY <1>6, <1>7, <1>9, <1>10, <1>11 DEF Inv

\* A prompt goes on: r gets blocks for n more tokens, to in all.
Continues(r, n, to, fresh) ==
    /\ r \in Reqs /\ r \in Range(pre.run) /\ \A q \in Range(pre.run) : q = r
    /\ PrefillOne(r) /\ Short(r) /\ Reach(r) = obj[r].comp /\ pstep.num[r] = 0
    /\ obj[r].comp \in Nat /\ n \in Nat \ {0} /\ to = obj[r].comp + n /\ to \in Nat
    /\ obj[r].comp <= to /\ to <= PromptLen[r] /\ PromptLen[r] <= TotalLen[r]
    /\ PromptLen[r] \in Nat \ {0} /\ TotalLen[r] \in Nat
    /\ pstep.budget - n \in Nat /\ (to = PromptLen[r] \/ pstep.budget - n = 0)
    /\ pstep' = [pstep EXCEPT !.num[r] = n, !.budget = @ - n]
    /\ EngineOK(pre', PBlocks) /\ Allocated(pre', pre, r, <<>>, fresh, to, PBlocks)
    /\ BlocksFor(PromptLen[r]) - BlocksFor(to) <= Cardinality(pre'.pool.free)

\* The prompt in part computed gets the chunk that the budget leaves.
LEMMA ContinueFacts ==
    ASSUME Inv, PContinue
    PROVE  \E r, n, to, fresh : Continues(r, n, to, fresh)
  <1>u. /\ pstep.pc = "schedule"
        /\ obj' = obj /\ known' = known /\ adding' = adding /\ tq' = tq /\ hand' = hand /\ dq' = dq
        /\ dec' = dec /\ dstep' = dstep /\ sent' = sent /\ done' = done /\ lost' = lost /\ killed' = killed
    BY DEF PContinue
  <1>a. /\ PBlocks \in Nat \ {0} /\ DBlocks \in Nat \ {0} /\ BlockSize \in Nat \ {0}
        /\ Budget \in Nat \ {0} /\ Decoders \in SUBSET Nat
    BY DisaggAssumption
  <1>1. Typed /\ Once /\ Carried /\ Stepping /\ Prefilling /\ Decoding /\ Tracked
    BY DEF Inv
  <1>2. /\ EngineOK(pre, PBlocks) /\ pre \in EngineType(PBlocks) /\ pstep \in PSteps
        /\ pre.run \in Seq(Reqs) /\ obj \in Objects
        /\ pre.blk \in [Reqs -> Seq(1 .. PBlocks - 1)]
        /\ IsFiniteSet(pre.pool.free) /\ Cardinality(pre.pool.free) \in Nat
    BY <1>a, <1>1, EngineFields DEF Typed
  <1>3. PICK r, n, to :
          /\ r \in Reqs /\ r \in Range(pre.run) /\ n = Chunk(r, obj[r].comp) /\ to = obj[r].comp + n
          /\ pstep.num[r] = 0 /\ pre' = Allocate(pre, r, <<>>, to, to)
          /\ pstep' = [pstep EXCEPT !.num[r] = n, !.budget = @ - n]
    <2>1. PICK i \in DOMAIN pre.run :
            LET r == pre.run[i]
                n == Chunk(r, obj[r].comp)
            IN  /\ pstep.num[r] = 0
                /\ pre' = Allocate(pre, r, <<>>, obj[r].comp + n, obj[r].comp + n)
                /\ pstep' = [pstep EXCEPT !.num[r] = n, !.budget = @ - n]
      BY Zenon DEF PContinue
    <2>2. pre.run[i] \in Reqs /\ pre.run[i] \in Range(pre.run)
      BY <1>2 DEF Range
    <2> QED
      BY <2>1, <2>2, Zenon
  <1>4. /\ pstep.num[r] = 0 /\ pre' = Allocate(pre, r, <<>>, to, to)
        /\ pstep' = [pstep EXCEPT !.num[r] = n, !.budget = @ - n]
    BY <1>3
  <1>5. r \in Reqs /\ r \in Range(pre.run) /\ pstep.pc = "schedule"
    BY <1>u, <1>3
  <1>6. /\ PrefillOne(r) /\ Reach(r) = obj[r].comp /\ obj[r].comp \in Nat
        /\ obj[r].comp < PromptLen[r] /\ pstep.budget \in Nat \ {0} /\ \A q \in Range(pre.run) : q = r
        /\ Short(r) /\ PromptLen[r] \in Nat \ {0} /\ TotalLen[r] \in Nat /\ PromptLen[r] < TotalLen[r]
    <2>1. PrefillOne(r)
      BY <1>1, <1>5 DEF Prefilling
    <2>2. obj[r].comp \in Nat /\ pstep.budget \in Nat
      BY <1>2, <1>5 DEF Objects, PSteps
    <2>3. Reach(r) = obj[r].comp
      BY <2>2, <1>4, <1>5 DEF Reach
    <2>4. /\ obj[r].comp < PromptLen[r] /\ pstep.budget > 0 /\ \A q \in Range(pre.run) : q = r
      BY <2>1, <1>4, <1>5 DEF PrefillOne
    <2> QED
      BY <2>1, <2>2, <2>3, <2>4, <1>5, KeyOK DEF Short
  <1>7. n \in Nat \ {0} /\ n <= pstep.budget /\ to \in Nat /\ obj[r].comp <= to /\ to <= PromptLen[r]
        /\ (to = PromptLen[r] \/ pstep.budget - n = 0) /\ PromptLen[r] <= TotalLen[r] /\ pstep.budget - n \in Nat
    <2>1. n = Least(PromptLen[r] - obj[r].comp, pstep.budget) /\ to = obj[r].comp + n
      BY <1>3 DEF Chunk
    <2>2. PromptLen[r] <= TotalLen[r] /\ PromptLen[r] \in Nat
      BY <1>6
    <2>3. obj[r].comp \in Nat /\ obj[r].comp < PromptLen[r] /\ pstep.budget \in Nat \ {0}
      BY <1>6
    <2> DEFINE c == obj[r].comp
               m == PromptLen[r]
               b == pstep.budget
    <2>4. c \in Nat /\ m \in Nat /\ c < m /\ b \in Nat \ {0} /\ n = Least(m - c, b)
      BY <2>1, <2>2, <2>3
    <2> HIDE DEF c, m, b
    <2>5. /\ n \in Nat \ {0} /\ n <= b /\ b - n \in Nat
          /\ c + n \in Nat /\ c <= c + n /\ c + n <= m
          /\ c + n = m \/ b - n = 0
      BY <2>4 DEF Least
    <2> QED
      BY <2>1, <2>2, <2>5 DEF c, m, b
  <1>8. Len(<<>>) = 0 /\ <<>> \in Seq(1 .. PBlocks - 1) /\ Range(<<>>) = {}
    BY DEF Range
  <1>9. Fits(pre, r, <<>>, PromptLen[r]) /\ Partway(pre, r, <<>>, to)
    <2> DEFINE a == Len(pre.blk[r])
               c == BlocksFor(to)
               d == BlocksFor(PromptLen[r])
               k == Cardinality(pre.pool.free)
    <2>1. a = BlocksFor(obj[r].comp) /\ d - a <= k
      BY <1>6 DEF PrefillOne
    <2>2. BlocksFor(obj[r].comp) <= c /\ BlocksFor(obj[r].comp) \in Nat /\ c \in Nat /\ d \in Nat
      BY <1>6, <1>7, BlocksForMonotone, BlocksForOK
    <2>3. pre.pool.free \ Range(<<>>) = pre.pool.free
      BY <1>8
    <2>4. Fits(pre, r, <<>>, PromptLen[r]) <=> d - a - 0 <= k
      BY <1>8, <2>3 DEF Fits, Need
    <2>5. Len(pre.blk[r]) + Len(<<>>) = a + 0
      BY <1>8
    <2> HIDE DEF a, c, d, k
    <2>6. a \in Nat /\ a <= c
      BY <2>1, <2>2
    <2>7. d - a - 0 <= k /\ a + 0 <= c
      BY <2>1, <2>2, <2>6
    <2> QED
      BY <2>4, <2>5, <2>7 DEF c, Partway
  <1>10. /\ EngineOK(pre', PBlocks) /\ \E fresh : Allocated(pre', pre, r, <<>>, fresh, to, PBlocks)
         /\ BlocksFor(PromptLen[r]) - BlocksFor(to) <= Cardinality(pre'.pool.free)
    <2>1. PBlocks \in Nat \ {0} /\ EngineOK(pre, PBlocks) /\ r \in Reqs /\ <<>> \in Seq(1 .. PBlocks - 1)
          /\ to \in Nat /\ PromptLen[r] \in Nat /\ to <= PromptLen[r] /\ PromptLen[r] <= TotalLen[r]
          /\ pre' = Allocate(pre, r, <<>>, to, to)
      BY <1>a, <1>2, <1>4, <1>5, <1>6, <1>7, <1>8
    <2> QED
      BY <2>1, <1>9, RoomOK
  <1>11. PICK fresh : Allocated(pre', pre, r, <<>>, fresh, to, PBlocks)
    BY <1>10
  <1>12. /\ n \in Nat \ {0} /\ to \in Nat /\ obj[r].comp <= to /\ to <= PromptLen[r]
         /\ (to = PromptLen[r] \/ pstep.budget - n = 0) /\ PromptLen[r] <= TotalLen[r] /\ pstep.budget - n \in Nat
    BY <1>7
  <1> QED
    BY <1>3, <1>4, <1>5, <1>6, <1>10, <1>11, <1>12 DEF Continues

LEMMA PContinueStep ==
    ASSUME Inv, PContinue
    PROVE  Inv'
  <1>u. /\ pstep.pc = "schedule"
        /\ obj' = obj /\ known' = known /\ adding' = adding /\ tq' = tq /\ hand' = hand /\ dq' = dq
        /\ dec' = dec /\ dstep' = dstep /\ sent' = sent /\ done' = done /\ lost' = lost /\ killed' = killed
    BY DEF PContinue
  <1>a. /\ PBlocks \in Nat \ {0} /\ DBlocks \in Nat \ {0} /\ BlockSize \in Nat \ {0}
        /\ Budget \in Nat \ {0} /\ Decoders \in SUBSET Nat
    BY DisaggAssumption
  <1>1. Typed /\ Once /\ Carried /\ Stepping /\ Prefilling /\ Decoding /\ Tracked
    BY DEF Inv
  <1>2. /\ EngineOK(pre, PBlocks) /\ pre \in EngineType(PBlocks) /\ pstep \in PSteps
        /\ pre.run \in Seq(Reqs) /\ obj \in Objects
        /\ pre.blk \in [Reqs -> Seq(1 .. PBlocks - 1)]
        /\ IsFiniteSet(pre.pool.free) /\ Cardinality(pre.pool.free) \in Nat
    BY <1>a, <1>1, EngineFields DEF Typed
  <1>3. PICK r, n, to, fresh : Continues(r, n, to, fresh)
    BY ContinueFacts
  <1>4. to = obj[r].comp + n /\ pstep' = [pstep EXCEPT !.num[r] = n, !.budget = @ - n]
    BY <1>3 DEF Continues
  <1>5. r \in Reqs /\ r \in Range(pre.run) /\ pstep.pc = "schedule"
    BY <1>u, <1>3 DEF Continues
  <1>6. \A q \in Range(pre.run) : q = r
    BY <1>3 DEF Continues
  <1>7. /\ n \in Nat \ {0} /\ to \in Nat /\ to <= PromptLen[r]
        /\ (to = PromptLen[r] \/ pstep.budget - n = 0) /\ pstep.budget - n \in Nat
    BY <1>3 DEF Continues
  <1>10. EngineOK(pre', PBlocks) /\ BlocksFor(PromptLen[r]) - BlocksFor(to) <= Cardinality(pre'.pool.free)
    BY <1>3 DEF Continues
  <1>13. Allocated(pre', pre, r, <<>>, fresh, to, PBlocks)
    BY <1>3 DEF Continues
  <1>14. /\ pre'.run = pre.run /\ pre'.wait = pre.wait /\ Len(pre'.blk[r]) = BlocksFor(to)
         /\ \A q \in Reqs : q # r => pre'.blk[q] = pre.blk[q]
    BY <1>2, <1>13 DEF Allocated
  <1>16. /\ pstep' \in PSteps
         /\ pstep'.pc = "schedule" /\ pstep'.sampled = pstep.sampled /\ pstep'.map = pstep.map
         /\ pstep'.num[r] = n /\ pstep'.budget = pstep.budget - n
    BY <1>2, <1>4, <1>5, <1>7 DEF PSteps
  <1>17. Typed'
    BY <1>u, <1>1, <1>10, <1>16 DEF Typed
  <1>18. Once' /\ Carried' /\ Stepping'
    BY <1>u, <1>1, <1>14, <1>16 DEF Once, Carried, Stepping
  <1>19. Reach(r)' = to
    <2>1. Reach(r)' = obj[r].comp + pstep'.num[r]
      BY <1>u, <1>16 DEF Reach
    <2> QED
      BY <2>1, <1>4, <1>16
  <1>20. Prefilling'
    <2>0. Sampled(r)' = Sampled(r) /\ pstep'.num[r] # 0
      BY <1>7, <1>16 DEF Sampled
    <2>1. PrefillOne(r)'
      <3>1. (pstep'.pc = "schedule" /\ pstep'.num[r] = 0) = FALSE
        BY <2>0
      <3> QED
        BY <1>5, <1>7, <1>10, <1>14, <1>16, <1>19, <2>0 DEF PrefillOne
    <2>2. \A q \in Reqs : q \in Range(pre.run) => q = r
      BY <1>6
    <2>3. \A q \in Reqs : q \notin Range(pre.run) => pre'.blk[q] = <<>>
      BY <1>1, <1>5, <1>14 DEF Prefilling
    <2>4. \A q \in Reqs : Short(q)' => q = r
      BY <1>14, <2>2 DEF Short
    <2> QED
      BY <1>14, <2>1, <2>2, <2>3, <2>4 DEF Prefilling
  <1>21. Decoding'
    BY <1>u, <1>1, DecodingSame DEF Decoding
  <1>22. Tracked'
    <2>1. Quiet
      BY <1>u, <1>16 DEF Quiet
    <2>2. \A q \in Reqs : Unmoved(q)
      BY <1>u, <1>14 DEF Unmoved, InTq, InHand, InDq
    <2> QED
      BY <1>1, <2>1, <2>2, AllUnmoved
  <1> QED
    BY <1>17, <1>18, <1>20, <1>21, <1>22 DEF Inv

\* Request r is admitted with comp tokens found in the prefix cache and
\* blocks for n more, to in all.
Starts(r, hit, comp, n, to, e, fresh) ==
    /\ r \in Reqs /\ r = Head(pre.wait) /\ r \in Range(pre.wait)
    /\ r \notin Range(pre.run) /\ pre.blk[r] = <<>>
    /\ Admits(e, pre, r, hit, comp, to, PromptLen[r])
    /\ comp \in Nat /\ n \in Nat \ {0} /\ to \in Nat /\ to = comp + n /\ to <= PromptLen[r]
    /\ pstep.budget \in Nat \ {0} /\ pstep.budget - n \in Nat
    /\ to = PromptLen[r] \/ pstep.budget - n = 0
    /\ EngineOK(e, PBlocks) /\ Allocated(e, pre, r, hit, fresh, to, PBlocks)
    /\ BlocksFor(PromptLen[r]) - BlocksFor(to) <= Cardinality(e.pool.free)
    /\ obj' = [obj EXCEPT ![r].st = "running", ![r].comp = comp]
    /\ pre' = [e EXCEPT !.wait = Tail(@), !.run = Append(@, r)]
    /\ pstep' = [pstep EXCEPT !.num[r] = n, !.budget = @ - n]

\* The prompt admitted fits as a whole, and gets the chunk that the budget leaves.
LEMMA AdmitFacts ==
    ASSUME Inv, PAdmit
    PROVE  \E r, hit, comp, n, to, e, fresh : Starts(r, hit, comp, n, to, e, fresh)
  <1>u. /\ pstep.pc = "schedule" /\ Started /\ CanAdmit
        /\ known' = known /\ adding' = adding /\ tq' = tq /\ hand' = hand /\ dq' = dq
        /\ dec' = dec /\ dstep' = dstep /\ sent' = sent /\ done' = done /\ lost' = lost /\ killed' = killed
    BY DEF PAdmit
  <1>a. /\ PBlocks \in Nat \ {0} /\ DBlocks \in Nat \ {0} /\ BlockSize \in Nat \ {0}
        /\ Budget \in Nat \ {0} /\ Decoders \in SUBSET Nat
    BY DisaggAssumption
  <1>1. Typed /\ Once /\ Carried /\ Stepping /\ Prefilling /\ Decoding /\ Tracked
    BY DEF Inv
  <1>2. /\ EngineOK(pre, PBlocks) /\ pre \in EngineType(PBlocks) /\ pstep \in PSteps
        /\ pre.run \in Seq(Reqs) /\ pre.wait \in Seq(Reqs) /\ obj \in Objects
        /\ pre.blk \in [Reqs -> Seq(1 .. PBlocks - 1)]
    BY <1>a, <1>1, EngineFields DEF Typed
  <1>t. /\ Head(pre.wait) \in Reqs /\ Head(pre.wait) \in Range(pre.wait) /\ Tail(pre.wait) \in Seq(Reqs)
        /\ Range(Tail(pre.wait)) = Range(pre.wait) \ {Head(pre.wait)} /\ IsInjective(Tail(pre.wait))
    <2>1. pre.wait # <<>> /\ IsInjective(pre.wait)
      BY <1>u, <1>1 DEF CanAdmit, Once
    <2> QED
      BY <2>1, <1>2, InjectiveTail
  <1>3. PICK r, hit, comp, n, to, e :
          /\ r \in Reqs /\ r = Head(pre.wait) /\ hit = Hit(pre, r, PromptLen[r]) /\ comp = Len(hit) * BlockSize
          /\ n = Chunk(r, comp) /\ to = comp + n /\ e = Allocate(pre, r, hit, to, to)
          /\ obj' = [obj EXCEPT ![r].st = "running", ![r].comp = comp]
          /\ pre' = [e EXCEPT !.wait = Tail(@), !.run = Append(@, r)]
          /\ pstep' = [pstep EXCEPT !.num[r] = n, !.budget = @ - n]
    BY <1>t, Zenon DEF PAdmit
  <1>4. /\ r \in Reqs /\ r \in Range(pre.wait) /\ Tail(pre.wait) \in Seq(Reqs)
        /\ Range(Tail(pre.wait)) = Range(pre.wait) \ {r} /\ IsInjective(Tail(pre.wait))
    BY <1>t, <1>3
  <1>e. /\ obj' = [obj EXCEPT ![r].st = "running", ![r].comp = comp]
        /\ pre' = [e EXCEPT !.wait = Tail(@), !.run = Append(@, r)]
        /\ pstep' = [pstep EXCEPT !.num[r] = n, !.budget = @ - n]
    BY <1>3
  <1>5. pstep.budget \in Nat \ {0}
        /\ Fits(pre, r, hit, PromptLen[r])
    <2>1. pstep.budget > 0 /\ Fits(pre, r, hit, PromptLen[r])
      BY <1>u, <1>3 DEF CanAdmit
    <2> QED
      BY <2>1, <1>2 DEF PSteps
  <1>6. r \notin Range(pre.run) /\ pre.blk[r] = <<>>
    BY <1>1, <1>4, InPrefill DEF Prefilling
  <1>7. PromptLen[r] \in 1 .. TotalLen[r] /\ PromptLen[r] \in Nat
    BY <1>4, KeyOK
  <1>8. n = Least(PromptLen[r] - comp, pstep.budget)
    BY <1>3 DEF Chunk
  <1>9. /\ comp \in Nat /\ n \in Nat \ {0} /\ pstep.budget - n \in Nat /\ to \in Nat /\ to = comp + n
        /\ to <= PromptLen[r] /\ (to = PromptLen[r] \/ pstep.budget - n = 0)
        /\ EngineOK(e, PBlocks) /\ \E fresh : Allocated(e, pre, r, hit, fresh, to, PBlocks)
        /\ BlocksFor(PromptLen[r]) - BlocksFor(to) <= Cardinality(e.pool.free)
    <2>1. Admits(e, pre, r, hit, comp, to, PromptLen[r])
      BY <1>3, <1>5 DEF Admits
    <2>2. to = comp + n
      BY <1>3
    <2>3. comp \in Nat /\ Chunked(PromptLen[r], comp, pstep.budget, n, to)
          /\ Admitted(e, pre, r, hit, to, PromptLen[r], PBlocks)
      <3>1. PBlocks \in Nat \ {0} /\ EngineOK(pre, PBlocks) /\ pstep.budget \in Nat \ {0}
        BY <1>a, <1>2, <1>5
      <3> QED
        BY <3>1, <2>1, <2>2, <1>4, <1>6, <1>7, <1>8, AdmitOK
    <2> QED
      BY <2>3 DEF Chunked, Admitted
  <1>10. PICK fresh : Allocated(e, pre, r, hit, fresh, to, PBlocks)
    BY <1>9
  <1>11. Admits(e, pre, r, hit, comp, to, PromptLen[r])
    BY <1>3, <1>5 DEF Admits
  <1>12. r = Head(pre.wait)
    BY <1>3
  <1> QED
    BY <1>4, <1>e, <1>5, <1>6, <1>9, <1>10, <1>11, <1>12 DEF Starts

LEMMA PAdmitStep ==
    ASSUME Inv, PAdmit
    PROVE  Inv'
  <1>u. /\ pstep.pc = "schedule" /\ Started /\ CanAdmit
        /\ known' = known /\ adding' = adding /\ tq' = tq /\ hand' = hand /\ dq' = dq
        /\ dec' = dec /\ dstep' = dstep /\ sent' = sent /\ done' = done /\ lost' = lost /\ killed' = killed
    BY DEF PAdmit
  <1>a. /\ PBlocks \in Nat \ {0} /\ DBlocks \in Nat \ {0} /\ BlockSize \in Nat \ {0}
        /\ Budget \in Nat \ {0} /\ Decoders \in SUBSET Nat
    BY DisaggAssumption
  <1>1. Typed /\ Once /\ Carried /\ Stepping /\ Prefilling /\ Decoding /\ Tracked
    BY DEF Inv
  <1>2. /\ EngineOK(pre, PBlocks) /\ pre \in EngineType(PBlocks) /\ pstep \in PSteps
        /\ pre.run \in Seq(Reqs) /\ pre.wait \in Seq(Reqs) /\ obj \in Objects
        /\ pre.blk \in [Reqs -> Seq(1 .. PBlocks - 1)]
    BY <1>a, <1>1, EngineFields DEF Typed
  <1>t. /\ Head(pre.wait) \in Reqs /\ Head(pre.wait) \in Range(pre.wait) /\ Tail(pre.wait) \in Seq(Reqs)
        /\ Range(Tail(pre.wait)) = Range(pre.wait) \ {Head(pre.wait)} /\ IsInjective(Tail(pre.wait))
    <2>1. pre.wait # <<>> /\ IsInjective(pre.wait)
      BY <1>u, <1>1 DEF CanAdmit, Once
    <2> QED
      BY <2>1, <1>2, InjectiveTail
  <1>3. PICK r, hit, comp, n, to, e, fresh : Starts(r, hit, comp, n, to, e, fresh)
    BY AdmitFacts
  <1>4. /\ r \in Reqs /\ r \in Range(pre.wait) /\ Tail(pre.wait) \in Seq(Reqs)
        /\ Range(Tail(pre.wait)) = Range(pre.wait) \ {r} /\ IsInjective(Tail(pre.wait))
    BY <1>t, <1>3 DEF Starts
  <1>e. /\ obj' = [obj EXCEPT ![r].st = "running", ![r].comp = comp]
        /\ pre' = [e EXCEPT !.wait = Tail(@), !.run = Append(@, r)]
        /\ pstep' = [pstep EXCEPT !.num[r] = n, !.budget = @ - n]
    BY <1>3 DEF Starts
  <1>5. pstep.budget \in Nat \ {0}
    BY <1>3 DEF Starts
  <1>6. r \notin Range(pre.run) /\ pre.blk[r] = <<>>
    BY <1>3 DEF Starts
  <1>9. /\ comp \in Nat /\ n \in Nat \ {0} /\ pstep.budget - n \in Nat /\ to \in Nat /\ to = comp + n
        /\ to <= PromptLen[r] /\ (to = PromptLen[r] \/ pstep.budget - n = 0)
        /\ EngineOK(e, PBlocks) /\ Allocated(e, pre, r, hit, fresh, to, PBlocks)
        /\ BlocksFor(PromptLen[r]) - BlocksFor(to) <= Cardinality(e.pool.free)
    BY <1>3 DEF Starts
  <1>10. /\ e \in EngineType(PBlocks) /\ e.run = pre.run /\ e.wait = pre.wait
         /\ Len(e.blk[r]) = BlocksFor(to) /\ \A q \in Reqs : q # r => e.blk[q] = pre.blk[q]
    <2>1. e \in EngineType(PBlocks)
      BY <1>a, <1>9, EngineFields
    <2> QED
      BY <2>1, <1>2, <1>4, <1>9 DEF Allocated
  <1>11. /\ Append(pre.run, r) \in Seq(Reqs) /\ Range(Append(pre.run, r)) = Range(pre.run) \cup {r}
         /\ IsInjective(Append(pre.run, r))
    <2>1. IsInjective(pre.run)
      BY <1>1 DEF Once
    <2>2. pre.run \in Seq(Reqs) /\ r \in Reqs /\ r \notin Range(pre.run)
      BY <1>2, <1>4, <1>6
    <2> QED
      BY <2>1, <2>2, InjectiveAppend
  <1>12. /\ pre' \in EngineType(PBlocks) /\ pre'.pool = e.pool /\ pre'.blk = e.blk /\ pre'.hash = e.hash
         /\ pre'.wait = Tail(pre.wait) /\ pre'.run = Append(pre.run, r)
    BY <1>e, <1>4, <1>10, <1>11 DEF EngineType
  <1>13. EngineOK(pre', PBlocks)
    BY <1>a, <1>9, <1>12, SameBlocks
  <1>14. /\ pstep' \in PSteps
         /\ pstep'.pc = "schedule" /\ pstep'.sampled = pstep.sampled /\ pstep'.map = pstep.map
         /\ pstep'.num[r] = n /\ pstep'.budget = pstep.budget - n
         /\ \A q \in Reqs : q # r => pstep'.num[q] = pstep.num[q]
    BY <1>u, <1>2, <1>e, <1>4, <1>9 DEF PSteps
  <1>15. /\ obj' \in Objects
         /\ obj'[r].comp = comp /\ obj'[r].st = "running"
         /\ \A q \in Reqs : /\ q # r => obj'[q] = obj[q]
                            /\ obj'[q].out = obj[q].out /\ obj'[q].ok = obj[q].ok
    <2>1. comp \in Nat /\ r \in Reqs /\ obj' = [obj EXCEPT ![r].st = "running", ![r].comp = comp]
          /\ obj \in Objects
      BY <1>2, <1>4, <1>e, <1>9
    <2> QED
      BY <2>1 DEF Objects
  <1>16. Typed'
    BY <1>u, <1>1, <1>13, <1>14, <1>15 DEF Typed
  <1>17. Once' /\ Carried' /\ Stepping'
    BY <1>u, <1>1, <1>4, <1>11, <1>12, <1>14 DEF Once, Carried, Stepping
  <1>18. \A q \in Reqs : q \in Range(pre.run) =>
           /\ q # r /\ pstep.num[q] > 0 /\ Reach(q) = PromptLen[q] /\ PrefillOne(q) /\ Reach(q)' = Reach(q)
    <2> SUFFICES ASSUME NEW q \in Reqs, q \in Range(pre.run)
                 PROVE  /\ q # r /\ pstep.num[q] > 0 /\ Reach(q) = PromptLen[q] /\ PrefillOne(q)
                        /\ Reach(q)' = Reach(q)
      OBVIOUS
    <2>1. q # r /\ PrefillOne(q)
      BY <1>1, <1>6 DEF Prefilling
    <2>2. pstep.num[q] > 0
      BY <1>u DEF Started, Range
    <2>3. Reach(q) = PromptLen[q]
      BY <1>u, <1>5, <2>1, <2>2 DEF PrefillOne
    <2>4. Reach(q)' = Reach(q)
      <3>1. obj'[q].comp = obj[q].comp /\ pstep'.num[q] = pstep.num[q] /\ pstep'.pc = pstep.pc
        BY <1>u, <1>14, <1>15, <2>1
      <3> QED
        BY <3>1 DEF Reach
    <2> QED
      BY <2>1, <2>2, <2>3, <2>4
  <1>19. Reach(r)' = to
    BY <1>9, <1>14, <1>15 DEF Reach
  <1>20. Prefilling'
    <2>1. PrefillOne(r)'
      <3>1. pstep'.num[r] # 0
        BY <1>9, <1>14
      <3> QED
        BY <3>1, <1>9, <1>10, <1>12, <1>14, <1>19 DEF PrefillOne
    <2>2. ASSUME NEW q \in Reqs, q \in Range(pre.run)
          PROVE  PrefillOne(q)' /\ ~Short(q)'
      <3>1. /\ q # r /\ pstep.num[q] > 0 /\ Reach(q) = PromptLen[q] /\ PrefillOne(q) /\ Reach(q)' = PromptLen[q]
            /\ PromptLen[q] \in Nat /\ pstep'.num[q] = pstep.num[q] /\ pstep.num[q] \in Nat
        BY <1>2, <1>14, <1>18, <2>2, KeyOK DEF PSteps
      <3>2. ~Short(q)'
        BY <3>1 DEF Short
      <3>3. pre'.blk[q] = pre.blk[q]
        BY <1>10, <1>12, <3>1
      <3> QED
        BY <3>1, <3>2, <3>3, <1>14 DEF PrefillOne
    <2>3. \A q \in Reqs : q \in Range(pre'.run) <=> q = r \/ q \in Range(pre.run)
      BY <1>11, <1>12
    <2>4. \A q \in Reqs : Short(q)' => q = r
      BY <2>2, <2>3 DEF Short
    <2>5. \A q \in Reqs : q \notin Range(pre'.run) => pre'.blk[q] = <<>>
      BY <2>3, <1>1, <1>10, <1>12 DEF Prefilling
    <2> QED
      BY <2>1, <2>2, <2>3, <2>4, <2>5 DEF Prefilling
  <1>p. /\ ~InTq(r) /\ ~InHand(r) /\ \A d \in Decoders : ~InDq(d, r)
        /\ \A d \in Decoders : r \notin Range(dec[d].run) /\ r \notin Range(dec[d].wait)
        /\ obj[r].ok /\ obj[r].out = <<>> /\ sent[r] = <<>> /\ obj[r].st # "away"
    BY <1>1, <1>4, InPrefill
  <1>21. Decoding'
    <2> SUFFICES ASSUME NEW d \in Decoders
                 PROVE  DecodingAt(d)'
      BY DEF Decoding
    <2>1. \A q \in Range(dec[d].run) : q \in Reqs /\ q # r
      BY <1>a, <1>p, <1>1, EngineFields DEF Typed, Range
    <2>2. \A q \in Range(dec[d].run) : obj'[q] = obj[q]
      BY <2>1, <1>15
    <2> QED
      BY <2>2, <1>u, <1>1, DecodingSame DEF Decoding
  <1>22. Tracked'
    <2>1. Quiet
      BY <1>u, <1>14 DEF Quiet
    <2>2. \A q \in Reqs : q # r => Unmoved(q)
      BY <1>u, <1>4, <1>11, <1>12, <1>15 DEF Unmoved, InTq, InHand, InDq
    <2>3. PICK en : en \in Decoders
      BY <1>1, <1>4 DEF Tracked
    <2>4. ~Putting' /\ ~Sampled(r)'
      BY <1>u, <1>1, <1>14 DEF Putting, Sampled, Stepping, Range
    <2>5. LocatedAt("run", en, r)'
      BY <1>u, <1>4, <1>p, <1>12, <1>15 DEF LocatedAt, InTq, InHand, InDq
    <2>6. ProgressAt("run", r)'
      BY <1>u, <1>4, <1>p, <1>15 DEF ProgressAt
    <2>7. LeavingAt("run", r)'
      BY <2>4 DEF LeavingAt
    <2>8. "run" \in Homes
      BY DEF Homes
    <2>9. \E x \in Homes : \E y \in Decoders : TrackedAt(x, y, r)'
      BY <2>3, <2>5, <2>6, <2>7, <2>8 DEF TrackedAt
    <2> QED
      BY <1>1, <1>4, <2>1, <2>2, <2>9, OneMoved
  <1> QED
    BY <1>16, <1>17, <1>20, <1>21, <1>22 DEF Inv

\* What a prefill step starts from and what it computes.
From == [r \in Reqs |-> obj[r].comp]
PTo  == [r \in Reqs |-> Reach(r)]

\* The model computes kv for the tokens of the requests ran: for every
\* request that the prefill engine runs.
Executes(ran, kv) ==
    /\ ran \in SUBSET Reqs /\ ran = Range(pre.run)
    /\ \A r \in Reqs : /\ Reach(r) \in Nat
                       /\ r \in ran => Reach(r) <= PromptLen[r] /\ Reach(r) <= TotalLen[r] /\ PrefillOne(r)
    /\ Computed(pre, ran, From, PTo) = [pre EXCEPT !.kv = kv]
    /\ pre' \in EngineType(PBlocks) /\ pre'.kv = kv
    /\ pre'.pool = pre.pool /\ pre'.blk = pre.blk
    /\ pre'.hash = pre.hash /\ pre'.run = pre.run /\ pre'.wait = pre.wait
    /\ obj' = [r \in Reqs |-> IF r \in ran THEN [obj[r] EXCEPT !.comp = Reach(r)] ELSE obj[r]]
    /\ pstep' = IF ran = {} THEN PIdle
                ELSE [pstep EXCEPT !.pc = "gather", !.sampled =
                        RemoveAll(pre.run, {r \in Reqs : r \notin ran \/ Reach(r) # PromptLen[r]})]

\* A prefill step computes every request that the engine runs.
LEMMA ExecuteFacts ==
    ASSUME Inv, PExecute
    PROVE  \E ran, kv : Executes(ran, kv)
  <1>u. /\ pstep.pc = "schedule" /\ (Started \/ pstep.budget = 0)
        /\ known' = known /\ adding' = adding /\ tq' = tq /\ hand' = hand /\ dq' = dq
        /\ dec' = dec /\ dstep' = dstep /\ sent' = sent /\ done' = done /\ lost' = lost /\ killed' = killed
    BY DEF PExecute
  <1>a. /\ PBlocks \in Nat \ {0} /\ DBlocks \in Nat \ {0} /\ BlockSize \in Nat \ {0}
        /\ Budget \in Nat \ {0} /\ Decoders \in SUBSET Nat
    BY DisaggAssumption
  <1>1. Typed /\ Once /\ Carried /\ Stepping /\ Prefilling /\ Decoding /\ Tracked
    BY DEF Inv
  <1>2. /\ EngineOK(pre, PBlocks) /\ pre \in EngineType(PBlocks) /\ pstep \in PSteps
        /\ pre.run \in Seq(Reqs) /\ obj \in Objects
    BY <1>a, <1>1, EngineFields DEF Typed
  <1>r. PICK ran : ran = {r \in Range(pre.run) : pstep.num[r] > 0}
    OBVIOUS
  <1>f. PICK from : from = [r \in Reqs |-> obj[r].comp]
    OBVIOUS
  <1>t. PICK to : to = [r \in Reqs |-> obj[r].comp + pstep.num[r]]
    OBVIOUS
  <1>e. /\ pre' = [Computed(pre, ran, from, to) EXCEPT !.fin = FALSE]
        /\ obj' = [r \in Reqs |-> IF r \in ran THEN [obj[r] EXCEPT !.comp = to[r]] ELSE obj[r]]
        /\ pstep' = IF ran = {} THEN PIdle
                    ELSE [pstep EXCEPT !.pc = "gather", !.sampled =
                            RemoveAll(pre.run, {r \in Reqs : r \notin ran \/ to[r] # PromptLen[r]})]
    BY <1>r, <1>f, <1>t, Zenon DEF PExecute
  <1>4. \A r \in Range(pre.run) : r \in Reqs
    BY <1>2 DEF Range
  <1>5. ran = Range(pre.run)
    <2> SUFFICES ASSUME NEW r \in Reqs, r \in Range(pre.run)
                 PROVE  pstep.num[r] > 0
      BY <1>r, <1>4
    <2>1. PrefillOne(r) /\ pstep.num[r] \in Nat /\ pstep.budget \in Nat
      BY <1>1, <1>2 DEF Prefilling, PSteps
    <2>2. CASE Started
      BY <2>2 DEF Started, Range
    <2>3. CASE pstep.budget = 0
      BY <1>u, <2>1, <2>3 DEF PrefillOne
    <2> QED
      BY <1>u, <2>2, <2>3
  <1>6. \A r \in Reqs : /\ to[r] \in Nat /\ from[r] \in Nat /\ to[r] = Reach(r)
                        /\ r \in ran => to[r] <= PromptLen[r] /\ to[r] <= TotalLen[r] /\ PrefillOne(r)
    <2> SUFFICES ASSUME NEW r \in Reqs
                 PROVE  /\ to[r] \in Nat /\ from[r] \in Nat /\ to[r] = Reach(r)
                        /\ r \in ran => to[r] <= PromptLen[r] /\ to[r] <= TotalLen[r] /\ PrefillOne(r)
      OBVIOUS
    <2>1. obj[r].comp \in Nat /\ pstep.num[r] \in Nat
      BY <1>2 DEF Objects, PSteps
    <2>2. to[r] \in Nat /\ from[r] \in Nat /\ to[r] = Reach(r)
      BY <1>u, <1>f, <1>t, <2>1 DEF Reach
    <2>3. r \in ran => PrefillOne(r) /\ Reach(r) <= PromptLen[r]
      BY <1>1, <1>5 DEF Prefilling, PrefillOne
    <2>4. PromptLen[r] \in Nat /\ TotalLen[r] \in Nat /\ PromptLen[r] < TotalLen[r]
      BY KeyOK
    <2>5. r \in ran => to[r] <= PromptLen[r]
      BY <2>2, <2>3
    <2>6. r \in ran => to[r] <= TotalLen[r]
      BY <2>2, <2>4, <2>5
    <2> QED
      BY <2>2, <2>3, <2>5, <2>6
  <1>7. PICK kv \in [0 .. PBlocks - 1 -> KVs] : Computed(pre, ran, from, to) = [pre EXCEPT !.kv = kv]
    <2>1. ran \in SUBSET Reqs
      BY <1>4, <1>5
    <2>2. WritesWithin(ran, from, to)
      BY <1>6, <2>1 DEF WritesWithin
    <2>3. PBlocks \in Nat \ {0} /\ EngineOK(pre, PBlocks) /\ ran \in SUBSET Reqs
      BY <1>a, <1>2, <2>1
    <2>4. /\ EngineOK(Computed(pre, ran, from, to), PBlocks)
          /\ \E kv \in [0 .. PBlocks - 1 -> KVs] : Computed(pre, ran, from, to) = [pre EXCEPT !.kv = kv]
      BY <2>2, <2>3, ComputedOK
    <2> QED
      BY <2>4
  <1>8. /\ pre' \in EngineType(PBlocks) /\ pre'.pool = pre.pool /\ pre'.blk = pre.blk
        /\ pre'.hash = pre.hash /\ pre'.run = pre.run /\ pre'.wait = pre.wait
    <2>1. pre' = [[pre EXCEPT !.kv = kv] EXCEPT !.fin = FALSE] /\ kv \in [0 .. PBlocks - 1 -> KVs]
      BY <1>e, <1>7
    <2> QED
      BY <1>2, <2>1 DEF EngineType
  <1>9. pre'.kv = kv
    <2>1. pre' = [[pre EXCEPT !.kv = kv] EXCEPT !.fin = FALSE]
      BY <1>e, <1>7
    <2> QED
      BY <1>2, <2>1 DEF EngineType
  <1>10. from = From /\ to = PTo
    <2>1. \A r \in Reqs : to[r] = Reach(r)
      BY <1>6
    <2>2. PTo = [r \in Reqs |-> Reach(r)] /\ to = [r \in Reqs |-> to[r]]
      BY <1>t DEF PTo
    <2>3. to = PTo
      BY <2>1, <2>2, Zenon
    <2> QED
      BY <1>f, <2>3 DEF From
  <1>11. Computed(pre, ran, From, PTo) = [pre EXCEPT !.kv = kv]
    BY <1>7, <1>10
  <1>12. ran \in SUBSET Reqs
    BY <1>4, <1>5
  <1>13. \A r \in Reqs : /\ Reach(r) \in Nat
                         /\ r \in ran => Reach(r) <= PromptLen[r] /\ Reach(r) <= TotalLen[r] /\ PrefillOne(r)
    BY <1>6
  <1>14. obj' = [r \in Reqs |-> IF r \in ran THEN [obj[r] EXCEPT !.comp = Reach(r)] ELSE obj[r]]
    BY <1>e, <1>6
  <1>15. \A r \in Reqs : to[r] = Reach(r)
    BY <1>6
  <1>16. {r \in Reqs : r \notin ran \/ to[r] # PromptLen[r]} = {r \in Reqs : r \notin ran \/ Reach(r) # PromptLen[r]}
    BY <1>15
  <1>17. pstep' = IF ran = {} THEN PIdle
                  ELSE [pstep EXCEPT !.pc = "gather", !.sampled =
                          RemoveAll(pre.run, {r \in Reqs : r \notin ran \/ Reach(r) # PromptLen[r]})]
    BY <1>e, <1>16, Zenon
  <1>18. Executes(ran, kv)
    BY <1>5, <1>8, <1>9, <1>11, <1>12, <1>13, <1>14, <1>17, Zenon DEF Executes
  <1> QED
    BY <1>18

LEMMA PExecuteStep ==
    ASSUME Inv, PExecute
    PROVE  Inv'
  <1>u. /\ pstep.pc = "schedule" /\ (Started \/ pstep.budget = 0)
        /\ known' = known /\ adding' = adding /\ tq' = tq /\ hand' = hand /\ dq' = dq
        /\ dec' = dec /\ dstep' = dstep /\ sent' = sent /\ done' = done /\ lost' = lost /\ killed' = killed
    BY DEF PExecute
  <1>a. /\ PBlocks \in Nat \ {0} /\ DBlocks \in Nat \ {0} /\ BlockSize \in Nat \ {0}
        /\ Budget \in Nat \ {0} /\ Decoders \in SUBSET Nat
    BY DisaggAssumption
  <1>1. Typed /\ Once /\ Carried /\ Stepping /\ Prefilling /\ Decoding /\ Tracked
    BY DEF Inv
  <1>2. /\ EngineOK(pre, PBlocks) /\ pre \in EngineType(PBlocks) /\ pstep \in PSteps
        /\ pre.run \in Seq(Reqs) /\ obj \in Objects
    BY <1>a, <1>1, EngineFields DEF Typed
  <1>3. PICK ran, kv : Executes(ran, kv)
    BY ExecuteFacts
  <1>e. /\ obj' = [r \in Reqs |-> IF r \in ran THEN [obj[r] EXCEPT !.comp = Reach(r)] ELSE obj[r]]
        /\ pstep' = IF ran = {} THEN PIdle
                    ELSE [pstep EXCEPT !.pc = "gather", !.sampled =
                            RemoveAll(pre.run, {r \in Reqs : r \notin ran \/ Reach(r) # PromptLen[r]})]
    BY <1>3 DEF Executes
  <1>4. \A r \in Range(pre.run) : r \in Reqs
    BY <1>2 DEF Range
  <1>5. ran = Range(pre.run)
    BY <1>3 DEF Executes
  <1>6. \A r \in Reqs : Reach(r) \in Nat /\ (r \in ran => Reach(r) <= PromptLen[r] /\ PrefillOne(r))
    BY <1>3 DEF Executes
  <1>8. /\ pre' \in EngineType(PBlocks) /\ pre'.pool = pre.pool /\ pre'.blk = pre.blk
        /\ pre'.hash = pre.hash /\ pre'.run = pre.run /\ pre'.wait = pre.wait
    BY <1>3 DEF Executes
  <1>9. EngineOK(pre', PBlocks)
    BY <1>a, <1>2, <1>8, SameBlocks
  <1>10. /\ obj' \in Objects
         /\ \A q \in Reqs : /\ q \notin Range(pre.run) => obj'[q] = obj[q]
                            /\ q \in Range(pre.run) => obj'[q].comp = Reach(q)
                            /\ obj'[q].out = obj[q].out /\ obj'[q].ok = obj[q].ok /\ obj'[q].st = obj[q].st
    <2>1. obj' \in Objects
      BY <1>e, <1>2, <1>6 DEF Objects
    <2> QED
      BY <1>e, <1>2, <1>5, <1>6, <2>1 DEF Objects
  <1> DEFINE full == {r \in Range(pre.run) : Reach(r) = PromptLen[r]}
  <1>11. /\ pstep' \in PSteps /\ Range(pstep'.sampled) = full /\ IsInjective(pstep'.sampled)
         /\ pstep'.pc \in {"top", "gather"} /\ (pstep'.pc = "top" => pstep'.sampled = <<>>)
         /\ pstep'.map \in {<<>>, pstep.map}
    <2>1. CASE ran = {}
      <3>1. <<>> \in Seq(Reqs) /\ <<>> \in Seq(Items) /\ Range(<<>>) = {} /\ IsInjective(<<>>)
        BY DEF Range, IsInjective
      <3>2. pstep' = PIdle /\ full = {}
        BY <1>e, <1>5, <2>1
      <3> QED
        BY <3>1, <3>2 DEF PIdle, PSteps
    <2>2. CASE ran # {}
      <3> DEFINE out == {r \in Reqs : r \notin ran \/ Reach(r) # PromptLen[r]}
                 smp == RemoveAll(pre.run, out)
      <3>1. pstep' = [pstep EXCEPT !.pc = "gather", !.sampled = smp]
        BY <1>e, <2>2
      <3>2. smp \in Seq(Reqs) /\ Range(smp) = Range(pre.run) \ out /\ IsInjective(smp)
        <4>1. IsInjective(pre.run)
          BY <1>1 DEF Once
        <4> HIDE DEF out
        <4> QED
          BY <1>2, <4>1, RemoveAllProperties
      <3>3. Range(pre.run) \ out = full
        BY <1>4, <1>5
      <3> HIDE DEF smp, out, full
      <3>4. pstep' \in PSteps /\ pstep'.pc = "gather" /\ pstep'.sampled = smp /\ pstep'.map = pstep.map
        BY <3>1, <3>2, <1>2 DEF PSteps
      <3> QED
        BY <3>2, <3>3, <3>4
    <2> QED
      BY <2>1, <2>2
  <1>12. Typed'
    BY <1>u, <1>1, <1>9, <1>10, <1>11 DEF Typed
  <1>13. Once' /\ Stepping'
    BY <1>u, <1>1, <1>8, <1>11 DEF Once, Stepping
  <1>14. Carried'
    BY <1>u, <1>1, <1>11 DEF Carried
  <1>15. \A q \in Reqs : q \in Range(pre.run) => Reach(q)' = Reach(q)
    <2>1. \A q \in Reqs : q \in Range(pre.run) => obj'[q].comp = Reach(q) /\ Reach(q) \in Nat
      BY <1>6, <1>10
    <2> QED
      BY <2>1, <1>11 DEF Reach
  <1>16. Prefilling'
    <2>1. \A q \in Reqs : Short(q)' <=> Short(q)
      BY <1>8, <1>15 DEF Short
    <2>2. ASSUME NEW q \in Reqs, q \in Range(pre.run)
          PROVE  PrefillOne(q)'
      <3>1. PrefillOne(q) /\ Reach(q) \in Nat /\ PromptLen[q] \in Nat /\ Reach(q) <= PromptLen[q]
            /\ obj'[q].comp = Reach(q) /\ Reach(q)' = Reach(q)
        BY <2>2, <1>5, <1>6, <1>10, <1>15, KeyOK DEF PrefillOne
      <3>2. ~Sampled(q)' => obj'[q].comp < PromptLen[q]
        BY <2>2, <3>1, <1>11 DEF Sampled
      <3>3. pstep'.pc # "schedule"
        BY <1>11
      <3> QED
        BY <2>1, <3>1, <3>2, <3>3, <1>8 DEF PrefillOne
    <2> QED
      BY <1>1, <1>8, <2>1, <2>2 DEF Prefilling
  <1>17. Decoding'
    <2> SUFFICES ASSUME NEW d \in Decoders
                 PROVE  DecodingAt(d)'
      BY DEF Decoding
    <2>1. \A q \in Range(dec[d].run) : q \in Reqs
      BY <1>a, <1>1, EngineFields DEF Typed, Range
    <2>2. \A q \in Range(dec[d].run) : q \notin Range(pre.run)
      BY <1>1, <2>1, InDecoder
    <2> QED
      BY <2>1, <2>2, <1>u, <1>1, <1>10, DecodingSame DEF Decoding
  <1>18. Tracked'
    <2> SUFFICES ASSUME NEW q \in Reqs
                 PROVE  \E hm \in Homes : \E en \in Decoders : TrackedAt(hm, en, q)'
      BY DEF Tracked
    <2>1. PICK hm \in Homes : \E en \in Decoders : TrackedAt(hm, en, q)
      BY <1>1 DEF Tracked
    <2>2. PICK en \in Decoders : TrackedAt(hm, en, q)
      BY <2>1
    <2>3. ~Putting /\ ~Putting' /\ pstep'.pc # "update" /\ pstep.pc # "update"
      BY <1>u, <1>11 DEF Putting
    <2>4. q \in Range(pre.run) => hm = "run"
      BY <2>2, <2>3 DEF TrackedAt, LocatedAt
    <2>5. LocatedAt(hm, en, q)'
      BY <1>u, <1>8, <1>10, <2>2, <2>3 DEF TrackedAt, LocatedAt, InTq, InHand, InDq
    <2>6. ProgressAt(hm, q)'
      BY <1>u, <1>10, <2>2, <2>3, <2>4 DEF TrackedAt, ProgressAt, NumTokens
    <2>7. LeavingAt(hm, q)'
      BY <1>8, <1>10, <1>11, <2>3, <2>4 DEF LeavingAt, Sampled
    <2> QED
      BY <2>5, <2>6, <2>7 DEF TrackedAt
  <1> QED
    BY <1>12, <1>13, <1>14, <1>16, <1>17, <1>18 DEF Inv

\* The KV that kv_cache_map holds of a request.
Gathered(e, r) == [j \in DOMAIN e.blk[r] |-> e.kv[e.blk[r][j]]]

LEMMA GatheredOK ==
    ASSUME NEW size \in Nat \ {0}, NEW e, EngineOK(e, size), NEW r \in Reqs
    PROVE  Gathered(e, r) \in Seq(KVs) /\ Len(Gathered(e, r)) = Len(e.blk[r])
  <1> DEFINE blk == e.blk[r]
             N == Len(blk)
  <1>1. e.blk \in [Reqs -> Seq(1 .. size - 1)] /\ e.kv \in [0 .. size - 1 -> KVs]
    BY EngineFields
  <1>2. blk \in Seq(1 .. size - 1)
    BY <1>1
  <1>3. Gathered(e, r) = [j \in DOMAIN blk |-> e.kv[blk[j]]]
    BY DEF Gathered
  <1> HIDE DEF blk
  <1>4. N \in Nat /\ DOMAIN blk = 1 .. N /\ \A j \in 1 .. N : blk[j] \in 0 .. size - 1
    BY <1>2
  <1> HIDE DEF N
  <1>5. \A j \in 1 .. N : e.kv[blk[j]] \in KVs
    BY <1>1, <1>4
  <1>6. [j \in 1 .. N |-> e.kv[blk[j]]] \in Seq(KVs) /\ Len([j \in 1 .. N |-> e.kv[blk[j]]]) = N
    BY <1>4, <1>5
  <1> QED
    BY <1>3, <1>4, <1>6 DEF blk, N

LEMMA PGatherStep ==
    ASSUME Inv, PGather, ~Overtake
    PROVE  Inv'
  <1>u. /\ pstep.pc = "gather" /\ Range(pstep.sampled) \subseteq known
        /\ obj' = obj /\ known' = known /\ adding' = adding /\ pre' = pre /\ tq' = tq /\ hand' = hand
        /\ dq' = dq /\ dec' = dec /\ dstep' = dstep /\ sent' = sent /\ done' = done /\ lost' = lost
        /\ killed' = (killed \/ ~(Range(pstep.sampled) \subseteq known))
    BY DEF PGather
  <1>a. /\ PBlocks \in Nat \ {0} /\ DBlocks \in Nat \ {0} /\ BlockSize \in Nat \ {0}
        /\ Budget \in Nat \ {0} /\ Decoders \in SUBSET Nat
    BY DisaggAssumption
  <1>1. Typed /\ Once /\ Carried /\ Stepping /\ Prefilling /\ Decoding /\ Tracked
    BY DEF Inv
  <1>2. /\ EngineOK(pre, PBlocks) /\ pstep \in PSteps /\ ~killed /\ pstep.sampled \in Seq(Reqs)
    BY <1>1 DEF Typed, PSteps
  <1> DEFINE N == Len(pstep.sampled)
             Item(i) == [r |-> pstep.sampled[i], kv |-> Gathered(pre, pstep.sampled[i])]
  <1>n. N \in Nat /\ DOMAIN pstep.sampled = 1 .. N /\ \A i \in 1 .. N : pstep.sampled[i] \in Reqs
    BY <1>2
  <1>3. \A r \in Reqs : Sampled(r) => r \in Range(pre.run) /\ obj[r].comp = PromptLen[r]
    BY <1>u, <1>1 DEF Tracked, TrackedAt, LeavingAt
  <1>4. ASSUME NEW i \in 1 .. N
        PROVE  Item(i) \in Items /\ Item(i).r = pstep.sampled[i] /\ Whole(Item(i))
    <2> DEFINE r == pstep.sampled[i]
    <2>1. Item(i).r = r /\ Item(i).kv = Gathered(pre, r) /\ Item(i) = [r |-> r, kv |-> Gathered(pre, r)]
      OBVIOUS
    <2>2. r \in Reqs /\ Sampled(r)
      BY <1>n DEF Sampled, Range
    <2> HIDE DEF r, Item
    <2>3. r \in Range(pre.run) /\ obj[r].comp = PromptLen[r]
      BY <2>2, <1>3
    <2>4. Gathered(pre, r) \in Seq(KVs) /\ Len(Gathered(pre, r)) = Len(pre.blk[r])
      BY <1>a, <1>2, <2>2, GatheredOK
    <2>5. Len(pre.blk[r]) = BlocksFor(PromptLen[r])
      <3>1. PrefillOne(r)
        BY <1>1, <2>2, <2>3 DEF Prefilling
      <3>2. Reach(r) = PromptLen[r]
        BY <1>u, <2>2, <2>3, KeyOK DEF Reach
      <3> QED
        BY <3>1, <3>2 DEF PrefillOne
    <2>6. Item(i) \in Items
      BY <2>1, <2>2, <2>4 DEF Items
    <2> QED
      BY <2>1, <2>4, <2>5, <2>6 DEF Whole, r
  <1>m. PICK map : /\ map = [i \in 1 .. N |-> Item(i)] /\ pstep' = [pstep EXCEPT !.pc = "put", !.map = map]
    <2>1. pstep' = [pstep EXCEPT !.pc = "put", !.map = [i \in DOMAIN pstep.sampled |-> Item(i)]]
      BY Zenon DEF PGather, Gathered
    <2> HIDE DEF Item, N
    <2>2. pstep' = [pstep EXCEPT !.pc = "put", !.map = [i \in 1 .. N |-> Item(i)]]
      BY <2>1, <1>n, Zenon
    <2> QED
      BY <2>2, Zenon
  <1>5. map \in Seq(Items) /\ DOMAIN map = 1 .. N
        /\ \A i \in 1 .. N : map[i].r = pstep.sampled[i] /\ Whole(map[i])
    <2> HIDE DEF Item
    <2>1. map = [i \in 1 .. N |-> Item(i)]
      BY <1>m
    <2> HIDE DEF N
    <2>2. \A i \in 1 .. N : map[i] = Item(i)
      BY <2>1
    <2>3. map \in Seq(Items) /\ DOMAIN map = 1 .. N
      BY <2>1, <1>4, <1>n
    <2> QED
      BY <2>2, <2>3, <1>4
  <1>6. pstep' \in PSteps /\ pstep'.pc = "put" /\ pstep'.sampled = pstep.sampled /\ pstep'.map = map
    <2>1. pstep' = [pstep EXCEPT !.pc = "put", !.map = map] /\ map \in Seq(Items)
      BY <1>m, <1>5
    <2> QED
      BY <2>1, <1>2 DEF PSteps
  <1>7. Typed'
    BY <1>u, <1>1, <1>2, <1>6 DEF Typed
  <1>8. Once' /\ Stepping'
    BY <1>u, <1>1, <1>n, <1>5, <1>6 DEF Once, Stepping
  <1>9. Carried'
    BY <1>u, <1>1, <1>5, <1>6 DEF Carried
  <1>10. Prefilling'
    BY <1>u, <1>1, <1>2, <1>6, PrefillingKept DEF Sampled
  <1>11. Decoding'
    BY <1>u, <1>1, DecodingSame DEF Decoding
  <1>12. Tracked'
    <2> SUFFICES ASSUME NEW q \in Reqs
                 PROVE  \E hm \in Homes : \E en \in Decoders : TrackedAt(hm, en, q)'
      BY DEF Tracked
    <2>1. PICK hm \in Homes : \E en \in Decoders : TrackedAt(hm, en, q)
      BY <1>1 DEF Tracked
    <2>2. PICK en \in Decoders : TrackedAt(hm, en, q)
      BY <2>1
    <2>3. ~Putting /\ ~Putting' /\ pstep'.pc # "update" /\ pstep.pc # "update" /\ (Sampled(q)' <=> Sampled(q))
      BY <1>u, <1>6 DEF Putting, Sampled
    <2>4. LocatedAt(hm, en, q)'
      BY <1>u, <2>2, <2>3 DEF TrackedAt, LocatedAt, InTq, InHand, InDq
    <2>5. ProgressAt(hm, q)'
      BY <1>u, <2>2, <2>3 DEF TrackedAt, ProgressAt, NumTokens
    <2>6. LeavingAt(hm, q)'
      <3>1. Sampled(q) => q \in known
        BY <1>u DEF Sampled
      <3> QED
        BY <3>1, <1>u, <1>6, <2>2, <2>3 DEF TrackedAt, LeavingAt
    <2> QED
      BY <2>4, <2>5, <2>6 DEF TrackedAt
  <1> QED
    BY <1>7, <1>8, <1>9, <1>10, <1>11, <1>12 DEF Inv

LEMMA PPutStep ==
    ASSUME Inv, PPut
    PROVE  Inv'
  <1>u. /\ pstep.pc = "put" /\ tq' = Append(tq, pstep.map)
        /\ pstep' = [pstep EXCEPT !.pc = "update", !.map = <<>>]
        /\ obj' = obj /\ known' = known /\ adding' = adding /\ pre' = pre /\ hand' = hand
        /\ dq' = dq /\ dec' = dec /\ dstep' = dstep /\ sent' = sent /\ done' = done /\ lost' = lost
        /\ killed' = killed
    BY DEF PPut
  <1>a. /\ PBlocks \in Nat \ {0} /\ DBlocks \in Nat \ {0} /\ BlockSize \in Nat \ {0}
        /\ Budget \in Nat \ {0} /\ Decoders \in SUBSET Nat
    BY DisaggAssumption
  <1>1. Typed /\ Once /\ Carried /\ Stepping /\ Prefilling /\ Decoding /\ Tracked
    BY DEF Inv
  <1>2. /\ EngineOK(pre, PBlocks) /\ pstep \in PSteps
        /\ pstep.sampled \in Seq(Reqs) /\ pstep.map \in Seq(Items) /\ tq \in Seq(Seq(Items))
    BY <1>1 DEF Typed, PSteps
  <1>3. /\ DOMAIN pstep.map = DOMAIN pstep.sampled /\ IsInjective(pstep.sampled)
        /\ \A i \in DOMAIN pstep.map : pstep.map[i].r = pstep.sampled[i] /\ Whole(pstep.map[i])
    BY <1>u, <1>1 DEF Stepping, Carried, Once
  <1>4. /\ pstep' \in PSteps /\ pstep'.pc = "update" /\ pstep'.sampled = pstep.sampled
        /\ pstep'.map = <<>>
    <2>1. <<>> \in Seq(Items)
      OBVIOUS
    <2> QED
      BY <1>u, <1>2, <2>1 DEF PSteps
  <1>5. /\ tq' \in Seq(Seq(Items)) /\ Len(tq) \in Nat /\ DOMAIN tq = 1 .. Len(tq)
        /\ DOMAIN tq' = 1 .. Len(tq) + 1 /\ tq'[Len(tq) + 1] = pstep.map
        /\ \A i \in 1 .. Len(tq) : tq'[i] = tq[i]
    BY <1>u, <1>2, AppendProperties
  <1>6. \A q \in Reqs : InTq(q)' <=> InTq(q) \/ Sampled(q)
    <2>1. \A q \in Reqs : Sampled(q) <=> \E i \in DOMAIN pstep.map : pstep.map[i].r = q
      BY <1>3 DEF Sampled, Range
    <2>2. \A i \in DOMAIN tq' : i \in DOMAIN tq \/ i = Len(tq) + 1
      BY <1>5
    <2>3. Len(tq) + 1 \in DOMAIN tq' /\ DOMAIN tq \subseteq DOMAIN tq'
      BY <1>5
    <2>4. ASSUME NEW q \in Reqs
          PROVE  InTq(q)' <=> (\E i \in DOMAIN tq' : \E k \in DOMAIN tq'[i] : tq'[i][k].r = q)
      BY DEF InTq
    <2>5. ASSUME NEW q \in Reqs, InTq(q)'
          PROVE  InTq(q) \/ Sampled(q)
      <3>1. PICK i \in DOMAIN tq' : \E k \in DOMAIN tq'[i] : tq'[i][k].r = q
        BY <2>4, <2>5
      <3>2. CASE i \in DOMAIN tq
        BY <3>1, <3>2, <1>5 DEF InTq
      <3>3. CASE i = Len(tq) + 1
        BY <3>1, <3>3, <1>5, <2>1
      <3> QED
        BY <2>2, <3>2, <3>3
    <2>6. ASSUME NEW q \in Reqs, InTq(q)
          PROVE  InTq(q)'
      BY <2>4, <2>6, <1>5, <2>3 DEF InTq
    <2>7. ASSUME NEW q \in Reqs, Sampled(q)
          PROVE  InTq(q)'
      BY <2>1, <2>4, <2>7, <1>5, <2>3
    <2> QED
      BY <2>5, <2>6, <2>7
  <1>7. \A q \in Reqs : Sampled(q) =>
          /\ q \in Range(pre.run) /\ obj[q].comp = PromptLen[q] /\ q \in known
          /\ q \notin Range(pre.wait) /\ ~InTq(q) /\ ~InHand(q) /\ \A d \in Decoders : ~InDq(d, q)
          /\ \A d \in Decoders : q \notin Range(dec[d].run) /\ q \notin Range(dec[d].wait)
          /\ obj[q].ok /\ obj[q].out = <<>> /\ sent[q] = <<>> /\ obj[q].st # "away"
    <2> SUFFICES ASSUME NEW q \in Reqs, Sampled(q)
                 PROVE  /\ q \in Range(pre.run) /\ obj[q].comp = PromptLen[q] /\ q \in known
                        /\ q \notin Range(pre.wait) /\ ~InTq(q) /\ ~InHand(q) /\ \A d \in Decoders : ~InDq(d, q)
                        /\ \A d \in Decoders : q \notin Range(dec[d].run) /\ q \notin Range(dec[d].wait)
                        /\ obj[q].ok /\ obj[q].out = <<>> /\ sent[q] = <<>> /\ obj[q].st # "away"
      OBVIOUS
    <2>1. q \in Range(pre.run) /\ obj[q].comp = PromptLen[q] /\ q \in known
      BY <1>u, <1>1 DEF Tracked, TrackedAt, LeavingAt
    <2>2. ~Putting
      BY <1>u DEF Putting
    <2> QED
      BY <1>1, <2>1, <2>2, InPrefill
  <1>8. Typed'
    BY <1>u, <1>1, <1>4, <1>5 DEF Typed
  <1>9. Once'
    <2>1. \A i, j \in DOMAIN tq' : \A k \in DOMAIN tq'[i] : \A l \in DOMAIN tq'[j] :
            tq'[i][k].r = tq'[j][l].r => i = j /\ k = l
      <3> SUFFICES ASSUME NEW i \in DOMAIN tq', NEW j \in DOMAIN tq', NEW k \in DOMAIN tq'[i],
                          NEW l \in DOMAIN tq'[j], tq'[i][k].r = tq'[j][l].r
                   PROVE  i = j /\ k = l
        OBVIOUS
      <3>1. \A m \in DOMAIN tq : \A n \in DOMAIN tq[m] : tq[m][n].r \in Reqs /\ InTq(tq[m][n].r)
        <4> SUFFICES ASSUME NEW m \in DOMAIN tq, NEW n \in DOMAIN tq[m]
                     PROVE  tq[m][n].r \in Reqs /\ InTq(tq[m][n].r)
          OBVIOUS
        <4>1. tq[m] \in Seq(Items)
          BY <1>2
        <4>2. tq[m][n] \in Items
          BY <4>1
        <4>3. tq[m][n].r \in Reqs
          BY <4>2 DEF Items
        <4> QED
          BY <4>3 DEF InTq
      <3>2. \A n \in DOMAIN pstep.map : pstep.map[n].r \in Reqs /\ Sampled(pstep.map[n].r)
        BY <1>2, <1>3 DEF Sampled, Range, Items
      <3>3. \A m \in DOMAIN tq : \A n \in DOMAIN tq[m] : \A o \in DOMAIN pstep.map :
              tq[m][n].r # pstep.map[o].r
        BY <3>1, <3>2, <1>7
      <3>4. \A n, o \in DOMAIN pstep.map : pstep.map[n].r = pstep.map[o].r => n = o
        BY <1>3 DEF IsInjective
      <3>5. /\ i \in DOMAIN tq \/ i = Len(tq) + 1
            /\ j \in DOMAIN tq \/ j = Len(tq) + 1
        BY <1>5
      <3>6. CASE i \in DOMAIN tq /\ j \in DOMAIN tq
        BY <1>1, <1>5, <3>6 DEF Once
      <3>7. CASE i = Len(tq) + 1 /\ j = Len(tq) + 1
        BY <1>5, <3>4, <3>7
      <3>8. CASE i \in DOMAIN tq /\ j = Len(tq) + 1
        BY <1>5, <3>3, <3>8
      <3>9. CASE i = Len(tq) + 1 /\ j \in DOMAIN tq
        BY <1>5, <3>3, <3>9
      <3> QED
        BY <3>5, <3>6, <3>7, <3>8, <3>9
    <2> QED
      BY <2>1, <1>u, <1>1, <1>4 DEF Once
  <1>10. Carried'
    <2>1. \A i \in DOMAIN tq' : \A k \in DOMAIN tq'[i] : Whole(tq'[i][k])
      <3>1. \A i \in DOMAIN tq' : i \in DOMAIN tq \/ i = Len(tq) + 1
        BY <1>5
      <3> QED
        BY <3>1, <1>1, <1>3, <1>5 DEF Carried
    <2>2. DOMAIN pstep'.map = {}
      BY <1>4
    <2> QED
      BY <2>1, <2>2, <1>u, <1>1 DEF Carried
  <1>11. Stepping'
    BY <1>4 DEF Stepping
  <1>12. Prefilling'
    BY <1>u, <1>1, <1>2, <1>4, PrefillingKept DEF Sampled
  <1>13. Decoding'
    BY <1>u, <1>1, DecodingSame DEF Decoding
  <1>14. Tracked'
    <2> SUFFICES ASSUME NEW q \in Reqs
                 PROVE  \E hm \in Homes : \E en \in Decoders : TrackedAt(hm, en, q)'
      BY DEF Tracked
    <2>1. PICK hm \in Homes : \E en \in Decoders : TrackedAt(hm, en, q)
      BY <1>1 DEF Tracked
    <2>2. PICK en \in Decoders : TrackedAt(hm, en, q)
      BY <2>1
    <2>3. ~Putting /\ Putting' /\ pstep'.pc = "update" /\ (Sampled(q)' <=> Sampled(q))
      BY <1>u, <1>4 DEF Putting, Sampled
    <2>4. CASE Sampled(q)
      <3>1. LocatedAt("tq", en, q)'
        BY <1>u, <1>7, <2>3, <2>4 DEF LocatedAt, InHand, InDq
      <3>2. ProgressAt("tq", q)'
        BY <1>u, <1>7, <2>3, <2>4 DEF ProgressAt
      <3>3. LeavingAt("tq", q)'
        BY <1>u, <1>7, <2>3, <2>4 DEF LeavingAt
      <3>4. "tq" \in Homes
        BY DEF Homes
      <3> QED
        BY <3>1, <3>2, <3>3, <3>4 DEF TrackedAt
    <2>5. CASE ~Sampled(q)
      <3>1. LocatedAt(hm, en, q)'
        BY <1>u, <1>6, <2>2, <2>3, <2>5 DEF TrackedAt, LocatedAt, InHand, InDq
      <3>2. ProgressAt(hm, q)'
        BY <1>u, <2>2, <2>3, <2>5 DEF TrackedAt, ProgressAt, NumTokens
      <3>3. LeavingAt(hm, q)'
        BY <2>3, <2>5 DEF LeavingAt
      <3> QED
        BY <3>1, <3>2, <3>3 DEF TrackedAt
    <2> QED
      BY <2>4, <2>5
  <1> QED
    BY <1>8, <1>9, <1>10, <1>11, <1>12, <1>13, <1>14 DEF Inv

LEMMA TailKeeps ==
    ASSUME NEW T, NEW s \in Seq(T), s # <<>>
    PROVE  \A x : x \in Range(s) => x = Head(s) \/ x \in Range(Tail(s))
  <1>1. /\ Len(s) \in Nat \ {0} /\ DOMAIN s = 1 .. Len(s) /\ Head(s) = s[1]
        /\ DOMAIN Tail(s) = 1 .. Len(s) - 1 /\ \A i \in 1 .. Len(s) - 1 : Tail(s)[i] = s[i + 1]
    OBVIOUS
  <1> SUFFICES ASSUME NEW i \in DOMAIN s, s[i] # Head(s)
               PROVE  s[i] \in Range(Tail(s))
    BY DEF Range
  <1>2. i - 1 \in 1 .. Len(s) - 1 /\ (i - 1) + 1 = i
    BY <1>1
  <1>3. Tail(s)[i - 1] = s[i] /\ i - 1 \in DOMAIN Tail(s)
    BY <1>1, <1>2
  <1> QED
    BY <1>3 DEF Range

LEMMA PUpdateStep ==
    ASSUME Inv, PUpdate
    PROVE  Inv'
  <1>u. /\ pstep.pc = "update" /\ known' = known /\ adding' = adding /\ tq' = tq /\ hand' = hand
        /\ dq' = dq /\ dec' = dec /\ dstep' = dstep /\ sent' = sent /\ done' = done /\ lost' = lost
        /\ killed' = killed
        /\ obj' = [r \in Reqs |-> IF r \in Range(pstep.sampled)
                                  THEN [obj[r] EXCEPT !.out = Append(@, 1)] ELSE obj[r]]
        /\ pstep' = [pstep EXCEPT !.pc = "remove", !.sched = pstep.sampled,
                                  !.over = {r \in Range(pstep.sampled) : Stops(r)}]
    BY DEF PUpdate
  <1>a. /\ PBlocks \in Nat \ {0} /\ DBlocks \in Nat \ {0} /\ BlockSize \in Nat \ {0}
        /\ Budget \in Nat \ {0} /\ Decoders \in SUBSET Nat
    BY DisaggAssumption
  <1>1. Typed /\ Once /\ Carried /\ Stepping /\ Prefilling /\ Decoding /\ Tracked
    BY DEF Inv
  <1>2. /\ EngineOK(pre, PBlocks) /\ pstep \in PSteps /\ obj \in Objects
        /\ pstep.sampled \in Seq(Reqs) /\ Range(pstep.sampled) \subseteq Reqs
    BY <1>1 DEF Typed, PSteps, Range
  <1>3. PICK over : /\ over = RemoveAll(pstep.sampled, {r \in Reqs : ~Stops(r)})
                    /\ pre' = [DroppedN(pre, over) EXCEPT !.fin = over # <<>>]
    BY Zenon DEF PUpdate
  <1>4. over \in Seq(Reqs) /\ Range(over) \subseteq Range(pstep.sampled)
    <2> DEFINE S == {r \in Reqs : ~Stops(r)}
    <2>1. over = RemoveAll(pstep.sampled, S)
      BY <1>3
    <2> HIDE DEF S
    <2>2. RemoveAll(pstep.sampled, S) \in Seq(Reqs) /\ Range(RemoveAll(pstep.sampled, S)) = Range(pstep.sampled) \ S
      BY <1>2, RemoveAllProperties
    <2> QED
      BY <2>1, <2>2
  <1>5. PICK e : /\ e = DroppedN(pre, over) /\ pre' = [e EXCEPT !.fin = over # <<>>]
    BY <1>3, Zenon
  <1>6. EngineOK(e, PBlocks) /\ Left(e, pre, Range(over))
    BY <1>a, <1>2, <1>4, <1>5, DroppedNOK
  <1>7. /\ pre' \in EngineType(PBlocks) /\ pre'.pool = e.pool /\ pre'.blk = e.blk /\ pre'.hash = e.hash
        /\ pre'.run = e.run /\ pre'.wait = e.wait /\ pre'.kv = e.kv
    <2>1. e \in EngineType(PBlocks) /\ pre' = [e EXCEPT !.fin = over # <<>>]
      BY <1>5, <1>6 DEF EngineOK
    <2> QED
      BY <2>1 DEF EngineType
  <1>8. EngineOK(pre', PBlocks)
    BY <1>a, <1>6, <1>7, SameBlocks
  <1>9. /\ Range(pre'.run) = Range(pre.run) \ Range(over) /\ pre'.wait = pre.wait
        /\ pre'.blk = [r \in Reqs |-> IF r \in Range(over) THEN <<>> ELSE pre.blk[r]]
        /\ pre.pool.free \subseteq pre'.pool.free /\ IsInjective(pre'.run)
    BY <1>1, <1>6, <1>7 DEF Left, Once
  <1>10. /\ obj' \in Objects
         /\ \A q \in Reqs : /\ obj'[q].comp = obj[q].comp /\ obj'[q].ok = obj[q].ok /\ obj'[q].st = obj[q].st
                            /\ obj'[q].out = IF Sampled(q) THEN Append(obj[q].out, 1) ELSE obj[q].out
    <2>1. \A q \in Reqs : Append(obj[q].out, 1) \in Seq(Nat)
      BY <1>2, AppendProperties DEF Objects
    <2> QED
      BY <1>u, <1>2, <2>1 DEF Objects, Sampled
  <1>11. /\ pstep' \in PSteps /\ pstep'.pc = "remove" /\ pstep'.sampled = pstep.sampled
         /\ pstep'.map = pstep.map /\ pstep'.sched = pstep.sampled
    <2> DEFINE O == {r \in Range(pstep.sampled) : Stops(r)}
    <2>1. O \in SUBSET Reqs /\ pstep' = [pstep EXCEPT !.pc = "remove", !.sched = pstep.sampled, !.over = O]
      BY <1>u, <1>2
    <2> HIDE DEF O
    <2> QED
      BY <1>2, <2>1 DEF PSteps
  <1>12. Typed'
    BY <1>u, <1>1, <1>8, <1>10, <1>11 DEF Typed
  <1>13. Once' /\ Stepping'
    BY <1>u, <1>1, <1>9, <1>11 DEF Once, Stepping
  <1>14. Carried'
    BY <1>u, <1>1, <1>11 DEF Carried
  <1>15. Prefilling'
    <2>1. pre'.batch = e.batch
      BY <1>5, <1>6 DEF EngineOK, EngineType
    <2>2. Left(pre', pre, Range(over))
      BY <1>6, <1>7, <2>1 DEF Left
    <2> QED
      BY <1>u, <1>1, <1>2, <1>8, <2>2, <1>10, <1>11, PrefillingLeft DEF Sampled
  <1>16. \A q \in Reqs : Sampled(q) =>
           \A d \in Decoders : q \notin Range(dec[d].run) /\ q \notin Range(dec[d].wait)
    BY <1>1, InDecoder
  <1>17. Decoding'
    <2> SUFFICES ASSUME NEW d \in Decoders
                 PROVE  DecodingAt(d)'
      BY DEF Decoding
    <2>1. \A q \in Range(dec[d].run) : q \in Reqs
      BY <1>a, <1>1, EngineFields DEF Typed, Range
    <2>2. \A q \in Range(dec[d].run) : obj'[q].comp = obj[q].comp /\ obj'[q].out = obj[q].out
      BY <2>1, <1>10, <1>16
    <2> QED
      BY <2>2, <1>u, <1>1, DecodingSame DEF Decoding
  <1>18. Tracked'
    <2> SUFFICES ASSUME NEW q \in Reqs
                 PROVE  \E hm \in Homes : \E en \in Decoders : TrackedAt(hm, en, q)'
      BY DEF Tracked
    <2>1. PICK hm \in Homes : \E en \in Decoders : TrackedAt(hm, en, q)
      BY <1>1 DEF Tracked
    <2>2. PICK en \in Decoders : TrackedAt(hm, en, q)
      BY <2>1
    <2>3. Putting /\ Putting' /\ pstep'.pc = "remove" /\ pstep.pc = "update" /\ (Sampled(q)' <=> Sampled(q))
      BY <1>u, <1>11 DEF Putting, Sampled
    <2>4. Sampled(q) => hm \in {"tq", "hand", "dq"}
      BY <2>2, <2>3 DEF TrackedAt, LeavingAt
    <2>5. LocatedAt(hm, en, q)'
      BY <1>u, <1>9, <1>10, <2>2, <2>3 DEF TrackedAt, LocatedAt, InTq, InHand, InDq
    <2>6. ProgressAt(hm, q)'
      <3>1. CASE Sampled(q)
        <4>1. obj[q].out = <<>> /\ obj'[q].out = Append(<<>>, 1)
          BY <1>10, <2>2, <2>3, <2>4, <3>1 DEF TrackedAt, ProgressAt
        <4>2. obj'[q].out = <<1>>
          BY <4>1
        <4> QED
          BY <1>u, <1>10, <2>2, <2>3, <2>4, <3>1, <4>2 DEF TrackedAt, ProgressAt
      <3>2. CASE ~Sampled(q)
        <4>1. obj'[q].out = obj[q].out /\ NumTokens(q)' = NumTokens(q)
          BY <1>10, <3>2 DEF NumTokens
        <4> QED
          BY <1>u, <1>10, <2>2, <2>3, <3>2, <4>1 DEF TrackedAt, ProgressAt
      <3> QED
        BY <3>1, <3>2
    <2>7. LeavingAt(hm, q)'
      <3>1. Sampled(q) => q \in Range(pstep'.sched) /\ q \in known
        BY <1>11, <2>2, <2>3 DEF TrackedAt, LeavingAt, Sampled
      <3> QED
        BY <1>u, <3>1, <2>3, <2>4 DEF LeavingAt
    <2> QED
      BY <2>5, <2>6, <2>7 DEF TrackedAt
  <1> QED
    BY <1>12, <1>13, <1>14, <1>15, <1>17, <1>18 DEF Inv

LEMMA PRemoveStep ==
    ASSUME Inv, PRemove
    PROVE  Inv'
  <1>u. /\ pstep.pc = "remove" /\ pstep.sched # <<>> /\ pstep' = [pstep EXCEPT !.sched = Tail(@)]
        /\ obj' = obj /\ known' = known /\ adding' = adding /\ tq' = tq /\ hand' = hand
        /\ dq' = dq /\ dec' = dec /\ dstep' = dstep /\ sent' = sent /\ done' = done /\ lost' = lost
    BY DEF PRemove
  <1>3. PICK r : /\ r = Head(pstep.sched) /\ killed' = (killed \/ r \notin known)
                 /\ pre' = IF r \in Range(pre.run) THEN Dropped(pre, r) ELSE pre
    BY Zenon DEF PRemove
  <1>a. /\ PBlocks \in Nat \ {0} /\ DBlocks \in Nat \ {0} /\ BlockSize \in Nat \ {0}
        /\ Budget \in Nat \ {0} /\ Decoders \in SUBSET Nat
    BY DisaggAssumption
  <1>1. Typed /\ Once /\ Carried /\ Stepping /\ Prefilling /\ Decoding /\ Tracked
    BY DEF Inv
  <1>2. EngineOK(pre, PBlocks) /\ pstep \in PSteps /\ pstep.sched \in Seq(Reqs) /\ ~killed
    BY <1>1 DEF Typed, PSteps
  <1>4. r \in Reqs /\ r \in Range(pstep.sched) /\ Tail(pstep.sched) \in Seq(Reqs)
        /\ Range(Tail(pstep.sched)) \subseteq Range(pstep.sched)
        /\ \A q \in Range(pstep.sched) : q = r \/ q \in Range(Tail(pstep.sched))
    BY <1>u, <1>2, <1>3, InjectiveTail, TailKeeps
  <1>5. Sampled(r) /\ r \in known
    <2>1. Sampled(r)
      BY <1>u, <1>1, <1>4 DEF Stepping, Sampled
    <2> QED
      BY <2>1, <1>u, <1>1, <1>4 DEF Tracked, TrackedAt, LeavingAt
  <1>6. ~killed'
    BY <1>2, <1>3, <1>5
  <1>7. EngineOK(pre', PBlocks) /\ Left(pre', pre, {r})
    <2>1. CASE r \in Range(pre.run)
      <3>1. pre' = Dropped(pre, r)
        BY <1>3, <2>1
      <3> QED
        BY <3>1, <1>a, <1>2, <1>4, DroppedOK
    <2>2. CASE r \notin Range(pre.run)
      <3>1. pre' = pre /\ pre.blk[r] = <<>>
        BY <1>1, <1>3, <1>4, <2>2 DEF Prefilling
      <3>2. pre.blk \in [Reqs -> Seq(1 .. PBlocks - 1)]
        BY <1>a, <1>2, EngineFields
      <3>3. pre.blk = [q \in Reqs |-> IF q \in {r} THEN <<>> ELSE pre.blk[q]]
        BY <3>1, <3>2
      <3> QED
        BY <1>2, <2>2, <3>1, <3>3 DEF Left
    <2> QED
      BY <2>1, <2>2
  <1>8. /\ pstep' \in PSteps /\ pstep'.pc = "remove" /\ pstep'.sampled = pstep.sampled
        /\ pstep'.map = pstep.map /\ pstep'.sched = Tail(pstep.sched)
    BY <1>u, <1>2, <1>4 DEF PSteps
  <1>9. Range(pre'.run) = Range(pre.run) \ {r} /\ pre'.wait = pre.wait /\ IsInjective(pre'.run)
    BY <1>1, <1>7 DEF Left, Once
  <1>10. Typed'
    BY <1>u, <1>1, <1>6, <1>7, <1>8 DEF Typed
  <1>11. Once' /\ Stepping'
    BY <1>u, <1>1, <1>4, <1>8, <1>9 DEF Once, Stepping
  <1>12. Carried'
    BY <1>u, <1>1, <1>8 DEF Carried
  <1>13. Prefilling'
    BY <1>u, <1>1, <1>2, <1>7, <1>8, PrefillingLeft DEF Sampled
  <1>14. Decoding'
    BY <1>u, <1>1, DecodingSame DEF Decoding
  <1>15. Tracked'
    <2> SUFFICES ASSUME NEW q \in Reqs
                 PROVE  \E hm \in Homes : \E en \in Decoders : TrackedAt(hm, en, q)'
      BY DEF Tracked
    <2>1. PICK hm \in Homes : \E en \in Decoders : TrackedAt(hm, en, q)
      BY <1>1 DEF Tracked
    <2>2. PICK en \in Decoders : TrackedAt(hm, en, q)
      BY <2>1
    <2>3. Putting /\ Putting' /\ pstep'.pc = pstep.pc /\ (Sampled(q)' <=> Sampled(q))
      BY <1>u, <1>8 DEF Putting, Sampled
    <2>4. LocatedAt(hm, en, q)'
      BY <1>u, <1>9, <2>2, <2>3 DEF TrackedAt, LocatedAt, InTq, InHand, InDq
    <2>5. ProgressAt(hm, q)'
      BY <1>u, <2>2, <2>3 DEF TrackedAt, ProgressAt, NumTokens
    <2>6. LeavingAt(hm, q)'
      BY <1>u, <1>4, <1>8, <1>9, <2>2, <2>3 DEF TrackedAt, LeavingAt
    <2> QED
      BY <2>4, <2>5, <2>6 DEF TrackedAt
  <1> QED
    BY <1>10, <1>11, <1>12, <1>13, <1>14, <1>15 DEF Inv

LEMMA POutputStep ==
    ASSUME Inv, POutput
    PROVE  Inv'
  <1>u. /\ pstep.pc = "remove" /\ pstep.sched = <<>> /\ pstep' = PIdle
        /\ sent' = [r \in Reqs |-> IF r \in Range(pstep.sampled) THEN Append(sent[r], 1) ELSE sent[r]]
        /\ done' = done \cup pstep.over
        /\ obj' = obj /\ known' = known /\ adding' = adding /\ pre' = pre /\ tq' = tq /\ hand' = hand
        /\ dq' = dq /\ dec' = dec /\ dstep' = dstep /\ lost' = lost /\ killed' = killed
    BY DEF POutput
  <1>a. /\ PBlocks \in Nat \ {0} /\ DBlocks \in Nat \ {0} /\ BlockSize \in Nat \ {0}
        /\ Budget \in Nat \ {0} /\ Decoders \in SUBSET Nat
    BY DisaggAssumption
  <1>1. Typed /\ Once /\ Carried /\ Stepping /\ Prefilling /\ Decoding /\ Tracked
    BY DEF Inv
  <1>2. /\ EngineOK(pre, PBlocks) /\ pstep \in PSteps /\ pstep.over \in SUBSET Reqs
        /\ sent \in [Reqs -> Seq(Nat)] /\ done \in SUBSET Reqs
    BY <1>1 DEF Typed, PSteps
  <1>3. Range(<<>>) = {} /\ DOMAIN <<>> = {} /\ IsInjective(<<>>)
    BY DEF Range, IsInjective
  <1>4. pstep' \in PSteps /\ pstep'.pc = "top" /\ pstep'.sampled = <<>> /\ pstep'.map = <<>>
    <2>1. <<>> \in Seq(Reqs) /\ <<>> \in Seq(Items)
      OBVIOUS
    <2> QED
      BY <1>u, <2>1 DEF PIdle, PSteps
  <1>5. \A q \in Reqs : Sampled(q) => q \notin Range(pre.run)
    BY <1>u, <1>1, <1>3 DEF Tracked, TrackedAt, LeavingAt
  <1>6. sent' \in [Reqs -> Seq(Nat)] /\ done' \in SUBSET Reqs
    <2>1. \A q \in Reqs : Append(sent[q], 1) \in Seq(Nat)
      BY <1>2, AppendProperties
    <2> QED
      BY <1>u, <1>2, <2>1
  <1>7. Typed'
    BY <1>u, <1>1, <1>4, <1>6 DEF Typed
  <1>8. Once' /\ Stepping' /\ Carried'
    BY <1>u, <1>1, <1>3, <1>4 DEF Once, Stepping, Carried
  <1>9. Prefilling'
    BY <1>u, <1>1, <1>2, <1>4, <1>5, PrefillingKept
  <1>10. Decoding'
    BY <1>u, <1>1, DecodingSame DEF Decoding
  <1>11. Tracked'
    <2> SUFFICES ASSUME NEW q \in Reqs
                 PROVE  \E hm \in Homes : \E en \in Decoders : TrackedAt(hm, en, q)'
      BY DEF Tracked
    <2>1. PICK hm \in Homes : \E en \in Decoders : TrackedAt(hm, en, q)
      BY <1>1 DEF Tracked
    <2>2. PICK en \in Decoders : TrackedAt(hm, en, q)
      BY <2>1
    <2>3. Putting /\ ~Putting' /\ pstep'.pc # "update" /\ pstep.pc # "update" /\ ~Sampled(q)'
      BY <1>u, <1>3, <1>4 DEF Putting, Sampled
    <2>4. Sampled(q) => hm \in {"tq", "hand", "dq"} /\ sent[q] = <<>>
      BY <2>2, <2>3 DEF TrackedAt, LeavingAt, ProgressAt
    <2>5. LocatedAt(hm, en, q)'
      BY <1>u, <1>5, <2>2, <2>3 DEF TrackedAt, LocatedAt, InTq, InHand, InDq
    <2>6. ProgressAt(hm, q)'
      <3>1. CASE Sampled(q)
        <4>1. sent'[q] = Append(<<>>, 1)
          BY <1>u, <2>4, <3>1 DEF Sampled
        <4>2. sent'[q] = <<1>>
          BY <4>1
        <4>3. \A i \in DOMAIN sent'[q] : sent'[q][i] = i
          BY <4>2
        <4> QED
          BY <1>u, <2>2, <2>3, <2>4, <3>1, <4>2, <4>3 DEF TrackedAt, ProgressAt
      <3>2. CASE ~Sampled(q)
        <4>1. sent'[q] = sent[q]
          BY <1>u, <3>2 DEF Sampled
        <4> QED
          BY <1>u, <2>2, <2>3, <3>2, <4>1 DEF TrackedAt, ProgressAt, NumTokens
      <3> QED
        BY <3>1, <3>2
    <2>7. LeavingAt(hm, q)'
      BY <2>3 DEF LeavingAt
    <2> QED
      BY <2>5, <2>6, <2>7 DEF TrackedAt
  <1> QED
    BY <1>7, <1>8, <1>9, <1>10, <1>11 DEF Inv

\* There is a decode engine with the fewest requests.
LEMMA TargetOK ==
    ASSUME Typed
    PROVE  Target \in Decoders
  <1>0. DBlocks \in Nat \ {0} /\ Decoders \in SUBSET Nat /\ Decoders # {}
    BY DisaggAssumption
  <1>1. \A d \in Decoders : Load(d) \in Nat
    <2> SUFFICES ASSUME NEW d \in Decoders
                 PROVE  Load(d) \in Nat
      OBVIOUS
    <2>1. dec[d].run \in Seq(Reqs) /\ dec[d].wait \in Seq(Reqs)
      BY <1>0, EngineFields DEF Typed
    <2> DEFINE a == Len(dec[d].run)
               b == Len(dec[d].wait)
    <2>2. a \in Nat /\ b \in Nat
      BY <2>1
    <2>3. Load(d) = a + b
      BY DEF Load
    <2> HIDE DEF a, b
    <2> QED
      BY <2>2, <2>3
  <1> DEFINE loads == {Load(d) : d \in Decoders}
  <1>2. loads \in SUBSET Nat /\ loads # {}
    BY <1>0, <1>1
  <1>3. PICK m \in loads : \A n \in loads : m <= n
    BY <1>2, LeastNat
  <1> DEFINE least == {d \in Decoders : Load(d) = m}
  <1>4. least \in SUBSET Nat /\ least # {}
    BY <1>0, <1>3
  <1>5. PICK d \in least : \A e \in least : d <= e
    BY <1>4, LeastNat
  <1>6. ASSUME NEW e \in Decoders
        PROVE  Load(d) < Load(e) \/ (Load(d) = Load(e) /\ d <= e)
    <2>1. Load(d) = m /\ m <= Load(e) /\ m \in Nat /\ Load(e) \in Nat
      BY <1>1, <1>2, <1>3, <1>5
    <2>2. Load(e) = m => d <= e
      BY <1>5
    <2> QED
      BY <2>1, <2>2
  <1> QED
    BY <1>5, <1>6 DEF Target

LEMMA TGetStep ==
    ASSUME Inv, TGet
    PROVE  Inv'
  <1>u. /\ hand = <<>> /\ tq # <<>> /\ tq' = Tail(tq)
        /\ hand' = [i \in DOMAIN Head(tq) |-> [d |-> Target, it |-> Head(tq)[i]]]
        /\ obj' = obj /\ known' = known /\ adding' = adding /\ pre' = pre /\ pstep' = pstep
        /\ dq' = dq /\ dec' = dec /\ dstep' = dstep /\ sent' = sent /\ done' = done /\ lost' = lost
        /\ killed' = killed
    BY DEF TGet
  <1>a. /\ PBlocks \in Nat \ {0} /\ DBlocks \in Nat \ {0} /\ BlockSize \in Nat \ {0}
        /\ Budget \in Nat \ {0} /\ Decoders \in SUBSET Nat
    BY DisaggAssumption
  <1>1. Typed /\ Once /\ Carried /\ Stepping /\ Prefilling /\ Decoding /\ Tracked
    BY DEF Inv
  <1>2. /\ tq \in Seq(Seq(Items)) /\ Len(tq) \in Nat \ {0} /\ DOMAIN tq = 1 .. Len(tq) /\ Head(tq) = tq[1]
        /\ Tail(tq) \in Seq(Seq(Items)) /\ DOMAIN Tail(tq) = 1 .. Len(tq) - 1
        /\ \A i \in 1 .. Len(tq) - 1 : Tail(tq)[i] = tq[i + 1]
    <2>1. tq \in Seq(Seq(Items)) /\ tq # <<>>
      BY <1>u, <1>1 DEF Typed
    <2> QED
      BY <2>1
  <1>t. PICK t : t = Target
    OBVIOUS
  <1>3. PICK m : m = tq[1]
    OBVIOUS
  <1>4. t \in Decoders /\ m \in Seq(Items) /\ 1 \in DOMAIN tq
    BY <1>1, <1>t, <1>2, <1>3, TargetOK
  <1>5. hand' = [i \in DOMAIN m |-> [d |-> t, it |-> m[i]]]
    BY <1>u, <1>t, <1>2, <1>3
  <1>6. /\ hand' \in Seq([d : Decoders, it : Items]) /\ DOMAIN hand' = DOMAIN m
        /\ \A i \in DOMAIN m : hand'[i].it = m[i] /\ hand'[i].d = t
    <2>1. DOMAIN m = 1 .. Len(m) /\ Len(m) \in Nat /\ \A i \in 1 .. Len(m) : m[i] \in Items
      BY <1>4
    <2> QED
      BY <1>4, <1>5, <2>1
  <1>7. Typed'
    BY <1>u, <1>1, <1>2, <1>6 DEF Typed
  <1>8. \A i \in DOMAIN tq' : i \in 1 .. Len(tq) - 1 /\ i + 1 \in DOMAIN tq /\ i + 1 # 1 /\ tq'[i] = tq[i + 1]
    BY <1>u, <1>2
  <1>9. Once'
    <2>1. \A i, j \in DOMAIN tq' : \A k \in DOMAIN tq'[i] : \A l \in DOMAIN tq'[j] :
            tq'[i][k].r = tq'[j][l].r => i = j /\ k = l
      <3> SUFFICES ASSUME NEW i \in DOMAIN tq', NEW j \in DOMAIN tq', NEW k \in DOMAIN tq'[i],
                          NEW l \in DOMAIN tq'[j], tq'[i][k].r = tq'[j][l].r
                   PROVE  i = j /\ k = l
        OBVIOUS
      <3>1. i + 1 \in DOMAIN tq /\ j + 1 \in DOMAIN tq /\ tq'[i] = tq[i + 1] /\ tq'[j] = tq[j + 1]
        BY <1>8
      <3>2. i + 1 = j + 1 /\ k = l
        BY <3>1, <1>1 DEF Once
      <3>3. i \in 1 .. Len(tq) - 1 /\ j \in 1 .. Len(tq) - 1
        BY <1>8
      <3> QED
        BY <3>2, <3>3, <1>2
    <2>2. \A i, j \in DOMAIN hand' : hand'[i].it.r = hand'[j].it.r => i = j
      BY <1>1, <1>3, <1>4, <1>6 DEF Once
    <2> QED
      BY <2>1, <2>2, <1>u, <1>1 DEF Once
  <1>10. Carried' /\ Stepping'
    <2>1. \A i \in DOMAIN tq' : \A k \in DOMAIN tq'[i] : Whole(tq'[i][k])
      BY <1>1, <1>8 DEF Carried
    <2>2. \A i \in DOMAIN hand' : Whole(hand'[i].it)
      BY <1>1, <1>3, <1>4, <1>6 DEF Carried
    <2> QED
      BY <2>1, <2>2, <1>u, <1>1 DEF Carried, Stepping
  <1>11. Prefilling'
    BY <1>u, <1>1, PrefillingSame
  <1>12. Decoding'
    BY <1>u, <1>1, DecodingSame DEF Decoding
  <1>13. \A q \in Reqs : InHand(q)' <=> \E k \in DOMAIN tq[1] : tq[1][k].r = q
    BY <1>3, <1>6 DEF InHand
  <1>14. \A q \in Reqs : InTq(q)' => InTq(q) /\ ~InHand(q)'
    <2> SUFFICES ASSUME NEW q \in Reqs, InTq(q)'
                 PROVE  InTq(q) /\ ~InHand(q)'
      OBVIOUS
    <2>1. PICK i \in DOMAIN tq' : \E k \in DOMAIN tq'[i] : tq'[i][k].r = q
      BY DEF InTq
    <2>2. i + 1 \in DOMAIN tq /\ i + 1 # 1 /\ tq'[i] = tq[i + 1]
      BY <1>8
    <2>3. PICK k \in DOMAIN tq[i + 1] : tq[i + 1][k].r = q
      BY <2>1, <2>2
    <2>4. InTq(q)
      BY <2>2, <2>3 DEF InTq
    <2>5. ~InHand(q)'
      <3> SUFFICES ASSUME InHand(q)'
                   PROVE  FALSE
        OBVIOUS
      <3>1. PICK l \in DOMAIN tq[1] : tq[1][l].r = q
        BY <1>13
      <3>2. i + 1 = 1
        BY <2>2, <2>3, <3>1, <1>1, <1>4 DEF Once
      <3> QED
        BY <3>2, <2>2
    <2> QED
      BY <2>4, <2>5
  <1>15. \A q \in Reqs : InHand(q)' => InTq(q)
    BY <1>4, <1>13 DEF InTq
  <1>16. Tracked'
    <2> SUFFICES ASSUME NEW q \in Reqs
                 PROVE  \E hm \in Homes : \E en \in Decoders : TrackedAt(hm, en, q)'
      BY DEF Tracked
    <2>1. PICK hm \in Homes : \E en \in Decoders : TrackedAt(hm, en, q)
      BY <1>1 DEF Tracked
    <2>2. PICK en \in Decoders : TrackedAt(hm, en, q)
      BY <2>1
    <2>3. ~InHand(q)
      BY <1>u DEF InHand
    <2>p. (Putting' <=> Putting) /\ (Sampled(q)' <=> Sampled(q)) /\ (\A d \in Decoders : InDq(d, q)' <=> InDq(d, q))
      BY <1>u DEF Putting, Sampled, InDq
    <2>4. CASE InHand(q)'
      <3>1. hm = "tq" /\ ~InTq(q)'
        BY <1>14, <1>15, <2>2, <2>4 DEF TrackedAt, LocatedAt
      <3>2. LocatedAt("hand", en, q)'
        BY <1>u, <2>2, <2>p, <3>1 DEF TrackedAt, LocatedAt
      <3>3. ProgressAt("hand", q)'
        BY <1>u, <2>2, <2>p, <3>1 DEF TrackedAt, ProgressAt
      <3>4. LeavingAt("hand", q)'
        BY <1>u, <2>2, <2>p, <3>1 DEF TrackedAt, LeavingAt
      <3>5. "hand" \in Homes
        BY DEF Homes
      <3> QED
        BY <3>2, <3>3, <3>4, <3>5 DEF TrackedAt
    <2>5. CASE ~InHand(q)'
      <3>1. Quiet /\ Unmoved(q)
        BY <1>u, <1>14, <2>5, <2>p DEF Quiet, Unmoved
      <3> QED
        BY <2>2, <3>1, UnmovedTracked
    <2> QED
      BY <2>4, <2>5
  <1> QED
    BY <1>7, <1>9, <1>10, <1>11, <1>12, <1>16 DEF Inv

\* A queue of items without its first one, or with one more.
LEMMA ItemsTail ==
    ASSUME NEW T, NEW s \in Seq(T), s # <<>>
    PROVE  /\ Tail(s) \in Seq(T) /\ Head(s) = s[1] /\ 1 \in DOMAIN s /\ Head(s) \in T
           /\ \A i \in DOMAIN Tail(s) : i + 1 \in DOMAIN s /\ i + 1 # 1 /\ Tail(s)[i] = s[i + 1]
           /\ \A i, j \in DOMAIN Tail(s) : i + 1 = j + 1 => i = j
  <1>1. /\ Len(s) \in Nat \ {0} /\ DOMAIN s = 1 .. Len(s) /\ Head(s) = s[1] /\ Tail(s) \in Seq(T)
        /\ DOMAIN Tail(s) = 1 .. Len(s) - 1 /\ \A i \in 1 .. Len(s) - 1 : Tail(s)[i] = s[i + 1]
    OBVIOUS
  <1>2. 1 \in DOMAIN s /\ Head(s) \in T
    BY <1>1
  <1>3. \A i \in DOMAIN Tail(s) : i + 1 \in DOMAIN s /\ i + 1 # 1 /\ Tail(s)[i] = s[i + 1]
    BY <1>1
  <1>4. \A i, j \in DOMAIN Tail(s) : i + 1 = j + 1 => i = j
    BY <1>1
  <1> QED
    BY <1>1, <1>2, <1>3, <1>4

LEMMA ItemsAppend ==
    ASSUME NEW T, NEW s \in Seq(T), NEW x \in T
    PROVE  /\ Append(s, x) \in Seq(T) /\ Len(s) + 1 \in DOMAIN Append(s, x) /\ Append(s, x)[Len(s) + 1] = x
           /\ \A i \in DOMAIN s : i \in DOMAIN Append(s, x) /\ Append(s, x)[i] = s[i]
           /\ \A i \in DOMAIN Append(s, x) : i \in DOMAIN s \/ i = Len(s) + 1
  BY AppendProperties

LEMMA TPushStep ==
    ASSUME Inv, TPush
    PROVE  Inv'
  <1>u. /\ hand # <<>> /\ hand' = Tail(hand)
        /\ obj' = obj /\ known' = known /\ adding' = adding /\ pre' = pre /\ pstep' = pstep
        /\ tq' = tq /\ dec' = dec /\ dstep' = dstep /\ sent' = sent /\ done' = done /\ lost' = lost
        /\ killed' = killed
    BY DEF TPush
  <1>a. /\ PBlocks \in Nat \ {0} /\ DBlocks \in Nat \ {0} /\ BlockSize \in Nat \ {0}
        /\ Budget \in Nat \ {0} /\ Decoders \in SUBSET Nat
    BY DisaggAssumption
  <1>1. Typed /\ Once /\ Carried /\ Stepping /\ Prefilling /\ Decoding /\ Tracked
    BY DEF Inv
  <1>2. /\ hand \in Seq([d : Decoders, it : Items]) /\ dq \in [Decoders -> Seq(Items)]
    BY <1>1 DEF Typed
  <1>3. PICK t, it, r : /\ t = Head(hand).d /\ it = Head(hand).it /\ r = it.r
                        /\ dq' = [dq EXCEPT ![t] = Append(@, it)]
    BY Zenon DEF TPush
  <1>4. /\ hand' \in Seq([d : Decoders, it : Items]) /\ Head(hand) = hand[1] /\ 1 \in DOMAIN hand
        /\ \A i \in DOMAIN hand' : i + 1 \in DOMAIN hand /\ i + 1 # 1 /\ hand'[i] = hand[i + 1]
        /\ \A i, j \in DOMAIN hand' : i + 1 = j + 1 => i = j
        /\ Head(hand) \in [d : Decoders, it : Items]
    BY <1>u, <1>2, ItemsTail
  <1>5. t \in Decoders /\ it \in Items /\ r \in Reqs /\ InHand(r) /\ Whole(it)
    <2>1. t \in Decoders /\ it \in Items
      BY <1>3, <1>4
    <2>2. r \in Reqs
      BY <1>3, <2>1 DEF Items
    <2>3. InHand(r)
      BY <1>3, <1>4 DEF InHand
    <2>4. Whole(it)
      BY <1>1, <1>3, <1>4 DEF Carried
    <2> QED
      BY <2>1, <2>2, <2>3, <2>4
  <1>6. /\ dq' \in [Decoders -> Seq(Items)] /\ dq'[t] = Append(dq[t], it)
        /\ \A d \in Decoders : d # t => dq'[d] = dq[d]
    <2>1. dq[t] \in Seq(Items) /\ dq' = [dq EXCEPT ![t] = Append(@, it)]
      BY <1>2, <1>3, <1>5
    <2>2. Append(dq[t], it) \in Seq(Items)
      BY <2>1, <1>5, AppendProperties
    <2> QED
      BY <2>1, <2>2, <1>2, <1>5
  <1>7. /\ Len(dq[t]) + 1 \in DOMAIN dq'[t] /\ dq'[t][Len(dq[t]) + 1] = it
        /\ \A i \in DOMAIN dq[t] : dq'[t][i] = dq[t][i]
        /\ \A i \in DOMAIN dq'[t] : i \in DOMAIN dq[t] \/ i = Len(dq[t]) + 1
    <2>1. dq[t] \in Seq(Items) /\ it \in Items
      BY <1>2, <1>5
    <2> QED
      BY <2>1, <1>6, ItemsAppend
  <1>8. PICK hm \in Homes : \E en \in Decoders : TrackedAt(hm, en, r)
    BY <1>1, <1>5 DEF Tracked
  <1>9. PICK en \in Decoders : TrackedAt(hm, en, r)
    BY <1>8
  <1>10. hm = "hand" /\ \A d \in Decoders : ~InDq(d, r)
    BY <1>5, <1>9 DEF TrackedAt, LocatedAt
  <1>11. Typed'
    BY <1>u, <1>1, <1>4, <1>6 DEF Typed
  <1>12. Once'
    <2>1. \A i, j \in DOMAIN hand' : hand'[i].it.r = hand'[j].it.r => i = j
      BY <1>1, <1>4 DEF Once
    <2>2. \A d \in Decoders : \A i, j \in DOMAIN dq'[d] : dq'[d][i].r = dq'[d][j].r => i = j
      <3> SUFFICES ASSUME NEW d \in Decoders, NEW i \in DOMAIN dq'[d], NEW j \in DOMAIN dq'[d],
                          dq'[d][i].r = dq'[d][j].r
                   PROVE  i = j
        OBVIOUS
      <3>1. CASE d # t
        BY <3>1, <1>1, <1>6 DEF Once
      <3>2. CASE d = t
        <4>1. \A k \in DOMAIN dq[t] : dq[t][k].r # r
          BY <1>5, <1>10 DEF InDq
        <4>2. \A k, l \in DOMAIN dq[t] : dq[t][k].r = dq[t][l].r => k = l
          BY <1>1, <1>5 DEF Once
        <4> QED
          BY <1>3, <1>7, <3>2, <4>1, <4>2
      <3> QED
        BY <3>1, <3>2
    <2> QED
      BY <2>1, <2>2, <1>u, <1>1 DEF Once
  <1>13. Carried' /\ Stepping'
    <2>1. \A i \in DOMAIN hand' : Whole(hand'[i].it)
      BY <1>1, <1>4 DEF Carried
    <2>2. \A d \in Decoders : \A i \in DOMAIN dq'[d] : Whole(dq'[d][i])
      BY <1>1, <1>5, <1>6, <1>7 DEF Carried
    <2> QED
      BY <2>1, <2>2, <1>u, <1>1 DEF Carried, Stepping
  <1>14. Prefilling'
    BY <1>u, <1>1, PrefillingSame
  <1>15. Decoding'
    BY <1>u, <1>1, DecodingSame DEF Decoding
  <1>16. Tracked'
    <2>1. Quiet
      BY <1>u DEF Quiet
    <2>2. \A q \in Reqs : InHand(q)' => InHand(q) /\ q # r
      <3> SUFFICES ASSUME NEW q \in Reqs, InHand(q)'
                   PROVE  InHand(q) /\ q # r
        OBVIOUS
      <3>1. PICK i \in DOMAIN hand' : hand'[i].it.r = q
        BY DEF InHand
      <3>2. i + 1 \in DOMAIN hand /\ hand[i + 1].it.r = q /\ i + 1 # 1
        BY <3>1, <1>4
      <3>3. q # r
        BY <3>2, <1>1, <1>3, <1>4 DEF Once
      <3> QED
        BY <3>2, <3>3 DEF InHand
    <2>3. \A q \in Reqs : \A d \in Decoders : InDq(d, q)' => InDq(d, q) \/ (q = r /\ d = t)
      <3> SUFFICES ASSUME NEW q \in Reqs, NEW d \in Decoders, InDq(d, q)'
                   PROVE  InDq(d, q) \/ (q = r /\ d = t)
        OBVIOUS
      <3>1. PICK i \in DOMAIN dq'[d] : dq'[d][i].r = q
        BY DEF InDq
      <3> QED
        BY <3>1, <1>3, <1>6, <1>7 DEF InDq
    <2>4. \A q \in Reqs : q # r => Unmoved(q)
      BY <1>u, <2>2, <2>3 DEF Unmoved, InTq
    <2>p. (Putting' <=> Putting) /\ (Sampled(r)' <=> Sampled(r)) /\ (InTq(r)' <=> InTq(r))
      BY <1>u DEF Putting, Sampled, InTq
    <2>5. LocatedAt("dq", t, r)'
      BY <1>u, <1>5, <1>9, <1>10, <2>2, <2>3, <2>p DEF TrackedAt, LocatedAt
    <2>6. ProgressAt("dq", r)'
      BY <1>u, <1>9, <1>10, <2>p DEF TrackedAt, ProgressAt
    <2>7. LeavingAt("dq", r)'
      BY <1>u, <1>9, <1>10, <2>p DEF TrackedAt, LeavingAt
    <2>8. "dq" \in Homes
      BY DEF Homes
    <2>9. \E x \in Homes : \E y \in Decoders : TrackedAt(x, y, r)'
      BY <1>5, <2>5, <2>6, <2>7, <2>8 DEF TrackedAt
    <2> QED
      BY <1>1, <1>5, <2>1, <2>4, <2>9, OneMoved
  <1> QED
    BY <1>11, <1>12, <1>13, <1>14, <1>15, <1>16 DEF Inv

-----------------------------------------------------------------------------
(* The steps of a decode thread *)

\* A step of decode thread d: what it may change, and what it keeps.
DecodeTyped(d) ==
    /\ adding' = adding /\ pre' = pre /\ pstep' = pstep /\ tq' = tq /\ hand' = hand /\ killed' = killed
    /\ dec' \in [Decoders -> EngineType(DBlocks)] /\ EngineOK(dec'[d], DBlocks)
    /\ dstep' \in [Decoders -> DSteps]
    /\ \A c \in Decoders : c # d => dec'[c] = dec[c] /\ dstep'[c] = dstep[c] /\ dq'[c] = dq[c]
    /\ obj' \in Objects /\ known' \in SUBSET Reqs /\ sent' \in [Reqs -> Seq(Nat)]
    /\ done' \in SUBSET Reqs /\ lost' \in SUBSET Reqs
    /\ IsInjective(dec'[d].run) /\ IsInjective(dec'[d].wait)

\* It touches only Request objects that no other engine schedules.
DecodeOwn(d) ==
    \A q \in Reqs : obj'[q] # obj[q] =>
      /\ q \notin Range(pre.run)
      /\ \A c \in Decoders : c # d => q \notin Range(dec[c].run)

LEMMA DecodeFrame ==
    ASSUME Inv, NEW d \in Decoders, DecodeTyped(d), DecodeOwn(d), DecodingAt(d)', Tracked',
           dq' \in [Decoders -> Seq(Items)],
           \A i, j \in DOMAIN dq'[d] : dq'[d][i].r = dq'[d][j].r => i = j,
           \A i \in DOMAIN dq'[d] : Whole(dq'[d][i])
    PROVE  Inv'
  <1>a. /\ PBlocks \in Nat \ {0} /\ DBlocks \in Nat \ {0} /\ BlockSize \in Nat \ {0}
        /\ Budget \in Nat \ {0} /\ Decoders \in SUBSET Nat
    BY DisaggAssumption
  <1>1. Typed /\ Once /\ Carried /\ Stepping /\ Prefilling /\ Decoding /\ Tracked
    BY DEF Inv
  <1>2. Typed'
    BY <1>1 DEF Typed, DecodeTyped
  <1>3. Once'
    <2>1. \A c \in Decoders : /\ \A i, j \in DOMAIN dq'[c] : dq'[c][i].r = dq'[c][j].r => i = j
                              /\ IsInjective(dec'[c].run) /\ IsInjective(dec'[c].wait)
      <3> SUFFICES ASSUME NEW c \in Decoders
                   PROVE  /\ \A i, j \in DOMAIN dq'[c] : dq'[c][i].r = dq'[c][j].r => i = j
                          /\ IsInjective(dec'[c].run) /\ IsInjective(dec'[c].wait)
        OBVIOUS
      <3>1. CASE c = d
        BY <3>1 DEF DecodeTyped
      <3>2. CASE c # d
        <4>1. dq'[c] = dq[c] /\ dec'[c] = dec[c]
          BY <3>2 DEF DecodeTyped
        <4> QED
          BY <4>1, <1>1 DEF Once
      <3> QED
        BY <3>1, <3>2
    <2>2. pre' = pre /\ pstep' = pstep /\ tq' = tq /\ hand' = hand
      BY DEF DecodeTyped
    <2> QED
      BY <2>1, <2>2, <1>1 DEF Once
  <1>4. Carried' /\ Stepping'
    BY <1>1 DEF Carried, Stepping, DecodeTyped
  <1>5. Prefilling'
    <2>1. \A q \in Range(pre.run) : q \in Reqs
      BY <1>a, <1>1, EngineFields DEF Typed, Range
    <2>2. \A q \in Range(pre.run) : obj'[q].comp = obj[q].comp
      BY <2>1 DEF DecodeOwn
    <2> QED
      BY <1>1, <2>2, PrefillingSame DEF DecodeTyped
  <1>6. Decoding'
    <2> SUFFICES ASSUME NEW c \in Decoders, c # d
                 PROVE  DecodingAt(c)'
      BY DEF Decoding
    <2>1. \A q \in Range(dec[c].run) : q \in Reqs
      BY <1>a, <1>1, EngineFields, SMTT(30) DEF Typed, Range
    <2>2. \A q \in Range(dec[c].run) : obj'[q] = obj[q]
      BY <2>1 DEF DecodeOwn
    <2> QED
      BY <1>1, <2>2, DecodingSame DEF DecodeTyped, Decoding
  <1> QED
    BY <1>2, <1>3, <1>4, <1>5, <1>6 DEF Inv

\* The facts about decode engine d that its steps begin with.
DecodeFacts(d) ==
    /\ EngineOK(dec[d], DBlocks) /\ dec[d] \in EngineType(DBlocks) /\ dstep[d] \in DSteps
    /\ dec[d].run \in Seq(Reqs) /\ dec[d].wait \in Seq(Reqs)
    /\ dec[d].blk \in [Reqs -> Seq(1 .. DBlocks - 1)]
    /\ IsInjective(dec[d].run) /\ IsInjective(dec[d].wait)
    /\ Range(dec[d].run) \subseteq Reqs /\ Range(dec[d].wait) \subseteq Reqs
    /\ dq[d] \in Seq(Items) /\ \A i, j \in DOMAIN dq[d] : dq[d][i].r = dq[d][j].r => i = j
    /\ \A i \in DOMAIN dq[d] : Whole(dq[d][i])
    /\ DecodingAt(d) /\ obj \in Objects /\ known \in SUBSET Reqs
    /\ sent \in [Reqs -> Seq(Nat)] /\ done \in SUBSET Reqs /\ lost \in SUBSET Reqs
    /\ dq \in [Decoders -> Seq(Items)] /\ dec \in [Decoders -> EngineType(DBlocks)]
    /\ dstep \in [Decoders -> DSteps]

LEMMA DecodeBegins ==
    ASSUME Inv, NEW d \in Decoders
    PROVE  DecodeFacts(d)
  <1>a. /\ PBlocks \in Nat \ {0} /\ DBlocks \in Nat \ {0} /\ BlockSize \in Nat \ {0}
        /\ Budget \in Nat \ {0} /\ Decoders \in SUBSET Nat
    BY DisaggAssumption
  <1>1. Typed /\ Once /\ Carried /\ Stepping /\ Prefilling /\ Decoding /\ Tracked
    BY DEF Inv
  <1>2. EngineOK(dec[d], DBlocks) /\ dec \in [Decoders -> EngineType(DBlocks)]
        /\ dstep \in [Decoders -> DSteps] /\ dq \in [Decoders -> Seq(Items)]
    BY <1>1 DEF Typed
  <1>3. dec[d].run \in Seq(Reqs) /\ dec[d].wait \in Seq(Reqs)
        /\ dec[d].blk \in [Reqs -> Seq(1 .. DBlocks - 1)]
    BY <1>a, <1>2, EngineFields
  <1>4. Range(dec[d].run) \subseteq Reqs /\ Range(dec[d].wait) \subseteq Reqs
    BY <1>3 DEF Range
  <1>5. obj \in Objects /\ known \in SUBSET Reqs
        /\ sent \in [Reqs -> Seq(Nat)] /\ done \in SUBSET Reqs /\ lost \in SUBSET Reqs
    BY <1>1 DEF Typed
  <1>6. /\ IsInjective(dec[d].run) /\ IsInjective(dec[d].wait)
        /\ \A i, j \in DOMAIN dq[d] : dq[d][i].r = dq[d][j].r => i = j
    BY <1>1 DEF Once
  <1>7. (\A i \in DOMAIN dq[d] : Whole(dq[d][i])) /\ DecodingAt(d)
    BY <1>1 DEF Carried, Decoding
  <1> QED
    BY <1>2, <1>3, <1>4, <1>5, <1>6, <1>7 DEF DecodeFacts

LEMMA DBeginStep ==
    ASSUME Inv, NEW d \in Decoders, DBegin(d)
    PROVE  Inv'
  <1>u. /\ dstep[d].pc = "top"
        /\ dstep' = [dstep EXCEPT ![d] = [DIdle EXCEPT !.pc = "take", !.block = ~HasRequests(dec[d])]]
        /\ obj' = obj /\ known' = known /\ adding' = adding /\ pre' = pre /\ pstep' = pstep
        /\ tq' = tq /\ hand' = hand /\ dq' = dq /\ dec' = dec /\ sent' = sent /\ done' = done
        /\ lost' = lost /\ killed' = killed
    BY DEF DBegin
  <1>a. /\ PBlocks \in Nat \ {0} /\ DBlocks \in Nat \ {0} /\ BlockSize \in Nat \ {0}
        /\ Budget \in Nat \ {0} /\ Decoders \in SUBSET Nat
    BY DisaggAssumption
  <1>1. Typed /\ Once /\ Carried /\ Stepping /\ Prefilling /\ Decoding /\ Tracked
    BY DEF Inv
  <1>2. DecodeFacts(d)
    BY DecodeBegins
  <1>3. /\ dstep' \in [Decoders -> DSteps] /\ dstep'[d].pc = "take" /\ dstep'[d].num = [r \in Reqs |-> 0]
        /\ \A c \in Decoders : c # d => dstep'[c] = dstep[c]
    <2> DEFINE z == [r \in Reqs |-> 0]
    <2>0. z \in [Reqs -> Nat]
      OBVIOUS
    <2>1. (~HasRequests(dec[d])) \in BOOLEAN
      OBVIOUS
    <2>2. PICK s : s = [DIdle EXCEPT !.pc = "take", !.block = ~HasRequests(dec[d])]
      OBVIOUS
    <2>3. s \in DSteps /\ s.pc = "take" /\ s.num = z
      BY <2>0, <2>1, <2>2 DEF DIdle, DSteps
    <2>4. dstep' = [dstep EXCEPT ![d] = s] /\ dstep \in [Decoders -> DSteps]
      BY <1>u, <1>2, <2>2 DEF DecodeFacts
    <2> QED
      BY <2>3, <2>4
  <1>4. DecodeTyped(d) /\ DecodeOwn(d)
    BY <1>u, <1>2, <1>3 DEF DecodeTyped, DecodeOwn, DecodeFacts
  <1>5. DecodingAt(d)'
    <2>1. dstep[d].num = [r \in Reqs |-> 0]
      BY <1>u, <1>2 DEF DecodeFacts, DecodingAt
    <2>2. \A i \in DOMAIN dec[d].run : dec[d].run[i] \in Reqs
      BY <1>2 DEF DecodeFacts
    <2>3. \A q \in Reqs : q \in Range(dec[d].run) => DecodeOne(d, q)'
      BY <1>u, <1>2, <1>3, <2>1 DEF DecodeFacts, DecodingAt, DecodeOne, NumTokens
    <2> QED
      BY <1>u, <1>2, <1>3, <2>2, <2>3 DEF DecodeFacts, DecodingAt
  <1>6. Tracked'
    <2>1. Quiet /\ \A q \in Reqs : Unmoved(q)
      BY <1>u DEF Quiet, Unmoved, InTq, InHand, InDq
    <2> QED
      BY <1>1, <2>1, AllUnmoved
  <1> QED
    BY <1>u, <1>2, <1>4, <1>5, <1>6, DecodeFrame DEF DecodeFacts

LEMMA DTakeNoMoreStep ==
    ASSUME Inv, NEW d \in Decoders, DTakeNoMore(d)
    PROVE  Inv'
  <1>u. /\ dstep[d].pc = "take"
        /\ dstep' = [dstep EXCEPT ![d].pc = "run", ![d].idx = 1, ![d].budget = Budget]
        /\ obj' = obj /\ known' = known /\ adding' = adding /\ pre' = pre /\ pstep' = pstep
        /\ tq' = tq /\ hand' = hand /\ dq' = dq /\ dec' = dec /\ sent' = sent /\ done' = done
        /\ lost' = lost /\ killed' = killed
    BY DEF DTakeNoMore
  <1>a. /\ PBlocks \in Nat \ {0} /\ DBlocks \in Nat \ {0} /\ BlockSize \in Nat \ {0}
        /\ Budget \in Nat \ {0} /\ Decoders \in SUBSET Nat
    BY DisaggAssumption
  <1>1. Typed /\ Once /\ Carried /\ Stepping /\ Prefilling /\ Decoding /\ Tracked
    BY DEF Inv
  <1>2. DecodeFacts(d)
    BY DecodeBegins
  <1>3. /\ dstep' \in [Decoders -> DSteps] /\ dstep'[d].pc = "run" /\ dstep'[d].num = dstep[d].num
        /\ dstep'[d].idx = 1
        /\ \A c \in Decoders : c # d => dstep'[c] = dstep[c]
    <2>1. dstep \in [Decoders -> DSteps]
      BY <1>2 DEF DecodeFacts
    <2>2. PICK s : s = [dstep[d] EXCEPT !.pc = "run", !.idx = 1, !.budget = Budget]
      OBVIOUS
    <2>3. s \in DSteps /\ s.pc = "run" /\ s.num = dstep[d].num /\ s.idx = 1
      BY <1>a, <2>1, <2>2 DEF DSteps
    <2>4. dstep' = [dstep EXCEPT ![d] = s]
      BY <1>u, <2>1, <2>2
    <2> QED
      BY <2>1, <2>3, <2>4
  <1>4. DecodeTyped(d) /\ DecodeOwn(d)
    BY <1>u, <1>2, <1>3 DEF DecodeTyped, DecodeOwn, DecodeFacts
  <1>5. DecodingAt(d)'
    <2>1. dstep[d].num = [r \in Reqs |-> 0]
      BY <1>u, <1>2 DEF DecodeFacts, DecodingAt
    <2>2. \A i \in DOMAIN dec[d].run : dec[d].run[i] \in Reqs
      BY <1>2 DEF DecodeFacts
    <2>3. \A q \in Reqs : q \in Range(dec[d].run) => DecodeOne(d, q)'
      BY <1>u, <1>2, <1>3 DEF DecodeFacts, DecodingAt, DecodeOne, NumTokens
    <2> QED
      BY <1>u, <1>2, <1>3, <2>1, <2>2, <2>3 DEF DecodeFacts, DecodingAt
  <1>6. Tracked'
    <2>1. Quiet /\ \A q \in Reqs : Unmoved(q)
      BY <1>u DEF Quiet, Unmoved, InTq, InHand, InDq
    <2> QED
      BY <1>1, <2>1, AllUnmoved
  <1> QED
    BY <1>u, <1>2, <1>4, <1>5, <1>6, DecodeFrame DEF DecodeFacts

\* A request in a decode backlog is nowhere else, and once the prefill thread
\* is done with it, it has its first output token.
LEMMA InBacklog ==
    ASSUME Tracked, NEW d \in Decoders, NEW r \in Reqs, InDq(d, r), ~Sampled(r)
    PROVE  /\ ~InTq(r) /\ ~InHand(r) /\ \A c \in Decoders : InDq(c, r) => c = d
           /\ r \notin Range(pre.run) /\ r \notin Range(pre.wait)
           /\ \A c \in Decoders : r \notin Range(dec[c].run) /\ r \notin Range(dec[c].wait)
           /\ obj[r].ok /\ obj[r].st # "away" /\ obj[r].out = <<1>> /\ sent[r] = <<1>>
           /\ obj[r].comp = PromptLen[r]
  <1>1. PICK hm \in Homes : \E en \in Decoders : TrackedAt(hm, en, r)
    BY DEF Tracked
  <1>2. PICK en \in Decoders : TrackedAt(hm, en, r)
    BY <1>1
  <1>3. hm = "dq" /\ en = d
    BY <1>2 DEF TrackedAt, LocatedAt
  <1>4. ~InTq(r) /\ ~InHand(r) /\ r \notin Range(pre.wait) /\ obj[r].st # "away"
        /\ r \notin Range(pre.run)
    BY <1>2, <1>3 DEF TrackedAt, LocatedAt
  <1>5. \A c \in Decoders : InDq(c, r) => c = d
    BY <1>2, <1>3 DEF TrackedAt, LocatedAt
  <1>6. \A c \in Decoders : r \notin Range(dec[c].run) /\ r \notin Range(dec[c].wait)
    BY <1>2, <1>3 DEF TrackedAt, LocatedAt
  <1>7. obj[r].ok /\ obj[r].comp = PromptLen[r] /\ obj[r].out = <<1>> /\ sent[r] = <<1>>
    BY <1>2, <1>3 DEF TrackedAt, ProgressAt
  <1> QED
    BY <1>4, <1>5, <1>6, <1>7

\* The first entry leaves a decode backlog.
LEMMA BacklogTail ==
    ASSUME Inv, NEW d \in Decoders, dq[d] # <<>>, dq' = [dq EXCEPT ![d] = Tail(@)],
           NEW r, r = Head(dq[d]).r, ~Sampled(r)
    PROVE  /\ dq' \in [Decoders -> Seq(Items)] /\ \A c \in Decoders : c # d => dq'[c] = dq[c]
           /\ \A i, j \in DOMAIN dq'[d] : dq'[d][i].r = dq'[d][j].r => i = j
           /\ \A i \in DOMAIN dq'[d] : Whole(dq'[d][i])
           /\ Head(dq[d]) \in Items /\ Whole(Head(dq[d])) /\ r \in Reqs /\ InDq(d, r)
           /\ \A c \in Decoders : \A q \in Reqs : InDq(c, q)' => InDq(c, q)
           /\ \A c \in Decoders : ~InDq(c, r)'
  <1>a. /\ PBlocks \in Nat \ {0} /\ DBlocks \in Nat \ {0} /\ BlockSize \in Nat \ {0}
        /\ Budget \in Nat \ {0} /\ Decoders \in SUBSET Nat
    BY DisaggAssumption
  <1>1. Typed /\ Once /\ Carried /\ Stepping /\ Prefilling /\ Decoding /\ Tracked
    BY DEF Inv
  <1>2. /\ dq \in [Decoders -> Seq(Items)] /\ dq[d] \in Seq(Items)
        /\ \A i, j \in DOMAIN dq[d] : dq[d][i].r = dq[d][j].r => i = j
        /\ \A i \in DOMAIN dq[d] : Whole(dq[d][i])
    BY DecodeBegins DEF DecodeFacts
  <1>3. dq'[d] = Tail(dq[d]) /\ \A c \in Decoders : c # d => dq'[c] = dq[c]
    BY <1>2
  <1>4. /\ dq'[d] \in Seq(Items) /\ Head(dq[d]) = dq[d][1] /\ 1 \in DOMAIN dq[d]
        /\ Head(dq[d]) \in Items
        /\ \A i \in DOMAIN dq'[d] : i + 1 \in DOMAIN dq[d] /\ i + 1 # 1 /\ dq'[d][i] = dq[d][i + 1]
        /\ \A i, j \in DOMAIN dq'[d] : i + 1 = j + 1 => i = j
    BY <1>2, <1>3, ItemsTail
  <1>5. dq' \in [Decoders -> Seq(Items)]
    BY <1>2, <1>4
  <1>6. /\ \A i, j \in DOMAIN dq'[d] : dq'[d][i].r = dq'[d][j].r => i = j
        /\ \A i \in DOMAIN dq'[d] : Whole(dq'[d][i])
    BY <1>2, <1>4
  <1>7. Whole(Head(dq[d])) /\ InDq(d, r) /\ r \in Reqs
    BY <1>2, <1>4 DEF InDq, Items
  <1>8. ASSUME NEW c \in Decoders, NEW q \in Reqs, InDq(c, q)'
        PROVE  InDq(c, q) /\ q # r
    <2>1. CASE c = d
      <3>1. PICK i \in DOMAIN dq'[d] : dq'[d][i].r = q
        BY <1>8, <2>1 DEF InDq
      <3>2. i + 1 \in DOMAIN dq[d] /\ i + 1 # 1 /\ dq[d][i + 1].r = q
        BY <3>1, <1>4
      <3> QED
        BY <3>2, <2>1, <1>2, <1>4 DEF InDq
    <2>2. CASE c # d
      <3>1. InDq(c, q)
        BY <1>3, <1>8, <2>2 DEF InDq
      <3>2. ~InDq(c, r)
        BY <1>1, <1>7, <2>2, InBacklog
      <3> QED
        BY <3>1, <3>2
    <2> QED
      BY <2>1, <2>2
  <1> QED
    BY <1>3, <1>4, <1>5, <1>6, <1>7, <1>8

LEMMA DLoseStep ==
    ASSUME Inv, ~Overtake, NEW d \in Decoders, DLose(d)
    PROVE  Inv'
  <1>u. /\ dstep[d].pc = "take" /\ dq[d] # <<>> /\ ~Sampled(Head(dq[d]).r)
        /\ lost' = lost \cup {Head(dq[d]).r} /\ dq' = [dq EXCEPT ![d] = Tail(@)]
        /\ dstep' = [dstep EXCEPT ![d].pc = "run", ![d].idx = 1, ![d].budget = Budget]
        /\ obj' = obj /\ known' = known /\ adding' = adding /\ pre' = pre /\ pstep' = pstep
        /\ tq' = tq /\ hand' = hand /\ dec' = dec /\ sent' = sent /\ done' = done
        /\ killed' = killed
    BY DEF DLose, Released, Sampled
  <1>a. /\ PBlocks \in Nat \ {0} /\ DBlocks \in Nat \ {0} /\ BlockSize \in Nat \ {0}
        /\ Budget \in Nat \ {0} /\ Decoders \in SUBSET Nat
    BY DisaggAssumption
  <1>1. Typed /\ Once /\ Carried /\ Stepping /\ Prefilling /\ Decoding /\ Tracked
    BY DEF Inv
  <1>2. DecodeFacts(d)
    BY DecodeBegins
  <1>r. PICK r : r = Head(dq[d]).r
    OBVIOUS
  <1>q. /\ dq' \in [Decoders -> Seq(Items)] /\ \A c \in Decoders : c # d => dq'[c] = dq[c]
        /\ \A i, j \in DOMAIN dq'[d] : dq'[d][i].r = dq'[d][j].r => i = j
        /\ \A i \in DOMAIN dq'[d] : Whole(dq'[d][i])
        /\ r \in Reqs /\ InDq(d, r) /\ ~Sampled(r)
        /\ \A c \in Decoders : \A q \in Reqs : InDq(c, q)' => InDq(c, q)
        /\ \A c \in Decoders : ~InDq(c, r)'
    BY <1>u, <1>r, BacklogTail
  <1>3. /\ dstep' \in [Decoders -> DSteps] /\ dstep'[d].pc = "run" /\ dstep'[d].num = dstep[d].num
        /\ dstep'[d].idx = 1
        /\ \A c \in Decoders : c # d => dstep'[c] = dstep[c]
    <2>1. dstep \in [Decoders -> DSteps]
      BY <1>2 DEF DecodeFacts
    <2>2. PICK s : s = [dstep[d] EXCEPT !.pc = "run", !.idx = 1, !.budget = Budget]
      OBVIOUS
    <2>3. s \in DSteps /\ s.pc = "run" /\ s.num = dstep[d].num /\ s.idx = 1
      BY <1>a, <2>1, <2>2 DEF DSteps
    <2>4. dstep' = [dstep EXCEPT ![d] = s]
      BY <1>u, <2>1, <2>2
    <2> QED
      BY <2>1, <2>3, <2>4
  <1>4. DecodeTyped(d) /\ DecodeOwn(d)
    BY <1>u, <1>2, <1>3, <1>r, <1>q DEF DecodeTyped, DecodeOwn, DecodeFacts
  <1>5. DecodingAt(d)'
    <2>1. dstep[d].num = [q \in Reqs |-> 0]
      BY <1>u, <1>2 DEF DecodeFacts, DecodingAt
    <2>2. \A i \in DOMAIN dec[d].run : dec[d].run[i] \in Reqs
      BY <1>2 DEF DecodeFacts
    <2>3. \A q \in Reqs : q \in Range(dec[d].run) => DecodeOne(d, q)'
      BY <1>u, <1>2, <1>3 DEF DecodeFacts, DecodingAt, DecodeOne, NumTokens
    <2> QED
      BY <1>u, <1>2, <1>3, <2>1, <2>2, <2>3 DEF DecodeFacts, DecodingAt
  <1>6. Tracked'
    <2>1. Quiet
      BY <1>u DEF Quiet
    <2>2. \A q \in Reqs : Unmoved(q)
      BY <1>u, <1>q DEF Unmoved, InTq, InHand
    <2> QED
      BY <1>1, <2>1, <2>2, AllUnmoved
  <1> QED
    BY <1>4, <1>5, <1>6, <1>q, DecodeFrame

\* Allocation for a request that has no blocks.
LEMMA FirstBlocks ==
    ASSUME NEW size \in Nat \ {0}, NEW e, EngineOK(e, size), NEW r \in Reqs, e.blk[r] = <<>>,
           NEW n \in Nat, n <= TotalLen[r], Fits(e, r, <<>>, n), NEW f, f = Allocate(e, r, <<>>, n, n)
    PROVE  /\ EngineOK(f, size) /\ f \in EngineType(size) /\ f.run = e.run /\ f.wait = e.wait
           /\ \A q \in Reqs : q # r => f.blk[q] = e.blk[q]
           /\ Len(f.blk[r]) = BlocksFor(n) /\ IsInjective(f.blk[r])
  <1>1. /\ e.blk \in [Reqs -> Seq(1 .. size - 1)] /\ BlocksFor(n) \in Nat
        /\ <<>> \in Seq(1 .. size - 1) /\ Len(<<>>) = 0
    <2>1. e.blk \in [Reqs -> Seq(1 .. size - 1)]
      BY EngineFields
    <2>2. BlocksFor(n) \in Nat
      BY BlocksForOK
    <2> QED
      BY <2>1, <2>2
  <1>2. Partway(e, r, <<>>, n)
    BY <1>1 DEF Partway
  <1>3. EngineOK(f, size) /\ \E fresh : Allocated(f, e, r, <<>>, fresh, n, size)
    BY <1>1, <1>2, AllocateOK
  <1>4. PICK fresh : Allocated(f, e, r, <<>>, fresh, n, size)
    BY <1>3
  <1>5. /\ f.run = e.run /\ f.wait = e.wait /\ f.blk = [e.blk EXCEPT ![r] = e.blk[r] \o <<>> \o fresh]
        /\ f.blk[r] = <<>> \o <<>> \o fresh /\ Len(f.blk[r]) = BlocksFor(n)
        /\ Lists(fresh, e.pool.free \ Range(<<>>), BlocksFor(n) - Len(e.blk[r]) - Len(<<>>))
    BY <1>4 DEF Allocated
  <1>6. fresh \in Seq(e.pool.free \ Range(<<>>)) /\ IsInjective(fresh)
    BY <1>5 DEF Lists
  <1>7. f.blk[r] = fresh
    BY <1>5, <1>6
  <1>8. f \in EngineType(size)
    BY <1>3 DEF EngineOK
  <1> QED
    BY <1>1, <1>3, <1>5, <1>6, <1>7, <1>8

LEMMA DInsertStep ==
    ASSUME Inv, ~Overtake, NEW d \in Decoders, DInsert(d)
    PROVE  Inv'
  <1>s. /\ dstep[d].pc = "take" /\ dq[d] # <<>> /\ Released(Head(dq[d]).r)
    BY Zenon DEF DInsert
  <1>w. /\ dq' = [dq EXCEPT ![d] = Tail(@)] /\ dstep' = [dstep EXCEPT ![d].block = FALSE]
        /\ adding' = adding /\ pre' = pre /\ pstep' = pstep /\ tq' = tq /\ hand' = hand
        /\ sent' = sent /\ done' = done /\ lost' = lost /\ killed' = killed
    BY Zenon DEF DInsert
  <1>u. /\ dstep[d].pc = "take" /\ dq[d] # <<>> /\ ~Sampled(Head(dq[d]).r)
        /\ dq' = [dq EXCEPT ![d] = Tail(@)] /\ dstep' = [dstep EXCEPT ![d].block = FALSE]
        /\ adding' = adding /\ pre' = pre /\ pstep' = pstep /\ tq' = tq /\ hand' = hand
        /\ sent' = sent /\ done' = done /\ lost' = lost /\ killed' = killed
    BY <1>s, <1>w DEF Released, Sampled
  <1>b. DecodeFacts(d)
    BY DecodeBegins
  <1>r. PICK r : r = Head(dq[d]).r
    OBVIOUS
  <1>v. PICK kv : kv = Head(dq[d]).kv
    OBVIOUS
  <1>f. PICK f : f = Allocate(dec[d], r, <<>>, obj[r].comp, obj[r].comp)
    OBVIOUS
  <1>g. PICK g : g = Inserted(f, r, kv)
    OBVIOUS
  <1>h. PICK h : h = [g EXCEPT !.run = Append(@, r), !.batch = @ \cup {r}]
    OBVIOUS
  <1>n. known' = known \ {r} /\ Fits(dec[d], r, <<>>, obj[r].comp)
    BY <1>r, Zenon DEF DInsert
  <1>o. obj' = [obj EXCEPT ![r].st = "running", ![r].ok = obj[r].out # <<>>]
    BY <1>r, Zenon DEF DInsert
  <1>e. dec' = [dec EXCEPT ![d] = h]
    <2>1. dec' = [dec EXCEPT ![d] =
                    [Inserted(Allocate(dec[d], Head(dq[d]).r, <<>>, obj[Head(dq[d]).r].comp, obj[Head(dq[d]).r].comp),
                              Head(dq[d]).r, Head(dq[d]).kv)
                       EXCEPT !.run = Append(@, Head(dq[d]).r), !.batch = @ \cup {Head(dq[d]).r}]]
      BY Zenon DEF DInsert
    <2> QED
      BY <2>1, <1>r, <1>v, <1>f, <1>g, <1>h, Zenon
  <1>a. /\ PBlocks \in Nat \ {0} /\ DBlocks \in Nat \ {0} /\ BlockSize \in Nat \ {0}
        /\ Budget \in Nat \ {0} /\ Decoders \in SUBSET Nat
    BY DisaggAssumption
  <1>1. Typed /\ Once /\ Carried /\ Stepping /\ Prefilling /\ Decoding /\ Tracked
    BY DEF Inv
  <1>2. DecodeFacts(d)
    BY DecodeBegins
  <1>q. /\ dq' \in [Decoders -> Seq(Items)] /\ \A c \in Decoders : c # d => dq'[c] = dq[c]
        /\ \A i, j \in DOMAIN dq'[d] : dq'[d][i].r = dq'[d][j].r => i = j
        /\ \A i \in DOMAIN dq'[d] : Whole(dq'[d][i])
        /\ Head(dq[d]) \in Items /\ Whole(Head(dq[d]))
        /\ r \in Reqs /\ InDq(d, r) /\ ~Sampled(r)
        /\ \A c \in Decoders : \A q \in Reqs : InDq(c, q)' => InDq(c, q)
        /\ \A c \in Decoders : ~InDq(c, r)'
    BY <1>u, <1>r, BacklogTail
  <1>p. /\ ~InTq(r) /\ ~InHand(r)
        /\ r \notin Range(pre.run) /\ r \notin Range(pre.wait)
        /\ \A c \in Decoders : r \notin Range(dec[c].run) /\ r \notin Range(dec[c].wait)
        /\ obj[r].ok /\ obj[r].st # "away" /\ obj[r].out = <<1>> /\ sent[r] = <<1>>
        /\ obj[r].comp = PromptLen[r]
    BY <1>1, <1>q, InBacklog
  <1>4. kv \in Seq(KVs) /\ Len(kv) = BlocksFor(PromptLen[r])
    <2>1. PICK it : it = Head(dq[d])
      OBVIOUS
    <2>2. it \in Items /\ Whole(it) /\ kv = it.kv /\ r = it.r
      BY <2>1, <1>v, <1>r, <1>q
    <2> QED
      BY <2>2 DEF Items, Whole
  <1>5. PromptLen[r] \in Nat \ {0} /\ PromptLen[r] < TotalLen[r] /\ TotalLen[r] \in Nat
    BY <1>q, KeyOK
  <1>6. /\ EngineOK(f, DBlocks) /\ f \in EngineType(DBlocks) /\ f.run = dec[d].run /\ f.wait = dec[d].wait
        /\ \A q \in Reqs : q # r => f.blk[q] = dec[d].blk[q]
        /\ Len(f.blk[r]) = BlocksFor(PromptLen[r]) /\ IsInjective(f.blk[r])
    <2>1. /\ EngineOK(dec[d], DBlocks) /\ dec[d].blk[r] = <<>> /\ Fits(dec[d], r, <<>>, PromptLen[r])
          /\ f = Allocate(dec[d], r, <<>>, PromptLen[r], PromptLen[r])
      <3>1. EngineOK(dec[d], DBlocks) /\ dec[d].blk[r] = <<>>
        BY <1>2, <1>p, <1>q DEF DecodeFacts, DecodingAt
      <3> QED
        BY <3>1, <1>n, <1>f, <1>p, Zenon
    <2>2. PromptLen[r] \in Nat /\ PromptLen[r] <= TotalLen[r] /\ r \in Reqs /\ DBlocks \in Nat \ {0}
      BY <1>a, <1>5, <1>q
    <2> QED
      BY <2>1, <2>2, FirstBlocks
  <1>7. EngineOK(g, DBlocks) /\ \E k \in [0 .. DBlocks - 1 -> KVs] : g = [f EXCEPT !.kv = k]
    <2>1. Len(kv) = Len(f.blk[r])
      BY <1>4, <1>6
    <2>2. EngineOK(f, DBlocks) /\ IsInjective(f.blk[r]) /\ kv \in Seq(KVs) /\ r \in Reqs /\ DBlocks \in Nat \ {0}
      BY <1>a, <1>4, <1>6, <1>q
    <2>3. /\ EngineOK(Inserted(f, r, kv), DBlocks)
          /\ \E k \in [0 .. DBlocks - 1 -> KVs] : Inserted(f, r, kv) = [f EXCEPT !.kv = k]
      BY <2>1, <2>2, InsertedOK
    <2> QED
      BY <2>3, <1>g, Zenon
  <1>8. /\ g \in EngineType(DBlocks) /\ g.run = dec[d].run /\ g.wait = dec[d].wait /\ g.blk = f.blk
    <2>1. g \in EngineType(DBlocks)
      BY <1>7 DEF EngineOK
    <2>2. PICK k : g = [f EXCEPT !.kv = k]
      BY <1>7
    <2>3. g.run = f.run /\ g.wait = f.wait /\ g.blk = f.blk
      BY <1>6, <2>2 DEF EngineType
    <2> QED
      BY <1>6, <2>1, <2>3
  <1>9. /\ Append(dec[d].run, r) \in Seq(Reqs)
        /\ Range(Append(dec[d].run, r)) = Range(dec[d].run) \cup {r}
        /\ IsInjective(Append(dec[d].run, r))
    <2>1. dec[d].run \in Seq(Reqs) /\ IsInjective(dec[d].run) /\ r \notin Range(dec[d].run)
      BY <1>2, <1>p DEF DecodeFacts
    <2> QED
      BY <2>1, <1>q, InjectiveAppend
  <1>10. /\ dec' \in [Decoders -> EngineType(DBlocks)] /\ EngineOK(dec'[d], DBlocks)
         /\ \A c \in Decoders : c # d => dec'[c] = dec[c]
         /\ dec'[d].run = Append(dec[d].run, r) /\ dec'[d].wait = dec[d].wait /\ dec'[d].blk = f.blk
    <2>2. /\ h \in EngineType(DBlocks) /\ h.pool = g.pool /\ h.blk = g.blk /\ h.hash = g.hash
          /\ h.run = Append(dec[d].run, r) /\ h.wait = g.wait
      <3>1. r \in Reqs /\ g \in EngineType(DBlocks) /\ g.run = dec[d].run /\ Append(dec[d].run, r) \in Seq(Reqs)
        BY <1>8, <1>9, <1>q
      <3> QED
        BY <1>h, <3>1 DEF EngineType
    <2>3. EngineOK(h, DBlocks)
      BY <1>a, <1>7, <2>2, SameBlocks
    <2>4. dec \in [Decoders -> EngineType(DBlocks)] /\ dec' = [dec EXCEPT ![d] = h]
      BY <1>2, <1>e DEF DecodeFacts
    <2> QED
      BY <1>8, <2>2, <2>3, <2>4
  <1>11. /\ obj' \in Objects /\ \A q \in Reqs : /\ q # r => obj'[q] = obj[q]
                                              /\ obj'[q].comp = obj[q].comp /\ obj'[q].out = obj[q].out
         /\ obj'[r].st = "running" /\ obj'[r].ok
    <2>1. obj[r].out # <<>>
      BY <1>p
    <2>2. (obj[r].out # <<>>) = TRUE
      BY <2>1
    <2>3. obj' = [obj EXCEPT ![r].st = "running", ![r].ok = TRUE] /\ obj \in Objects
      BY <1>2, <1>o, <2>2 DEF DecodeFacts
    <2> QED
      BY <2>3, <1>q DEF Objects
  <1>12. /\ dstep' \in [Decoders -> DSteps] /\ dstep'[d].pc = "take" /\ dstep'[d].num = dstep[d].num
         /\ dstep'[d].idx = dstep[d].idx
         /\ \A c \in Decoders : c # d => dstep'[c] = dstep[c]
    <2>1. dstep \in [Decoders -> DSteps]
      BY <1>2 DEF DecodeFacts
    <2>2. PICK s : s = [dstep[d] EXCEPT !.block = FALSE]
      OBVIOUS
    <2>3. s \in DSteps /\ s.pc = "take" /\ s.num = dstep[d].num /\ s.idx = dstep[d].idx
      BY <1>u, <2>1, <2>2 DEF DSteps
    <2>4. dstep' = [dstep EXCEPT ![d] = s]
      BY <1>u, <2>1, <2>2
    <2> QED
      BY <2>1, <2>3, <2>4
  <1>13. DecodeTyped(d)
    <2>1. known' \in SUBSET Reqs
      BY <1>2, <1>n DEF DecodeFacts
    <2> QED
      BY <1>u, <1>2, <2>1, <1>9, <1>10, <1>11, <1>12, <1>q DEF DecodeTyped, DecodeFacts
  <1>14. DecodeOwn(d)
    BY <1>11, <1>p DEF DecodeOwn
  <1>15. DecodingAt(d)'
    <2>1. dstep[d].num = [q \in Reqs |-> 0]
      BY <1>u, <1>2 DEF DecodeFacts, DecodingAt
    <2>2. \A i \in DOMAIN dec'[d].run : dec'[d].run[i] \in Reqs
      BY <1>9, <1>10
    <2>3. DecodeOne(d, r)'
      <3>1. NumTokens(r)' = PromptLen[r] + 1
        <4>1. obj'[r].out = <<1>> /\ Len(<<1>>) = 1
          BY <1>11, <1>p, <1>q
        <4> QED
          BY <4>1 DEF NumTokens
      <3>2. obj'[r].comp + dstep'[d].num[r] = PromptLen[r]
        BY <1>5, <1>11, <1>12, <1>p, <1>q, <2>1
      <3> QED
        BY <3>1, <3>2, <1>5, <1>6, <1>10 DEF DecodeOne
    <2>4. \A q \in Reqs : q \in Range(dec[d].run) => DecodeOne(d, q)'
      <3> SUFFICES ASSUME NEW q \in Reqs, q \in Range(dec[d].run)
                   PROVE  DecodeOne(d, q)'
        OBVIOUS
      <3>1. q # r /\ DecodeOne(d, q)
        BY <1>2, <1>p DEF DecodeFacts, DecodingAt
      <3>2. obj'[q] = obj[q] /\ dec'[d].blk[q] = dec[d].blk[q] /\ dstep'[d].num = dstep[d].num
        BY <3>1, <1>6, <1>10, <1>11, <1>12
      <3> QED
        BY <3>1, <3>2 DEF DecodeOne, NumTokens
    <2>5. \A q \in Reqs : q \notin Range(dec'[d].run) => dec'[d].blk[q] = <<>>
      BY <1>2, <1>6, <1>9, <1>10 DEF DecodeFacts, DecodingAt
    <2>6. \A q \in Reqs : q \in Range(dec'[d].run) => DecodeOne(d, q)'
      BY <1>9, <1>10, <2>3, <2>4
    <2> QED
      BY <1>12, <2>1, <2>2, <2>5, <2>6 DEF DecodingAt
  <1>16. Tracked'
    <2>1. Quiet
      BY <1>u DEF Quiet
    <2>2. \A q \in Reqs : q # r => Unmoved(q)
      <3> SUFFICES ASSUME NEW q \in Reqs, q # r
                   PROVE  Unmoved(q)
        OBVIOUS
      <3>1. obj'[q] = obj[q] /\ (q \in known => q \in known')
        BY <1>n, <1>11
      <3>2. \A c \in Decoders : /\ InDq(c, q)' => InDq(c, q)
                                /\ q \in Range(dec'[c].run) => q \in Range(dec[c].run)
                                /\ q \in Range(dec'[c].wait) => q \in Range(dec[c].wait)
        BY <1>9, <1>10, <1>q
      <3> QED
        BY <1>u, <3>1, <3>2 DEF Unmoved, InTq, InHand
    <2>3. (Putting' <=> Putting) /\ ~Sampled(r)' /\ ~InTq(r)' /\ ~InHand(r)'
      BY <1>u, <1>p, <1>q DEF Putting, Sampled, InTq, InHand
    <2>4. \A c \in Decoders : /\ r \in Range(dec'[c].run) => c = d
                              /\ r \notin Range(dec'[c].wait)
      BY <1>10, <1>p
    <2>5. LocatedAt("drun", d, r)'
      BY <1>u, <1>p, <1>q, <1>11, <2>3, <2>4 DEF LocatedAt
    <2>6. ProgressAt("drun", r)'
      <3>1. NumTokens(r)' = PromptLen[r] + 1
        <4>1. obj'[r].out = <<1>> /\ Len(<<1>>) = 1
          BY <1>11, <1>p, <1>q
        <4> QED
          BY <4>1 DEF NumTokens
      <3>2. sent'[r] = <<1>> /\ obj'[r].out = <<1>> /\ obj'[r].ok
        BY <1>u, <1>11, <1>p, <1>q
      <3>3. NumTokens(r)' <= TotalLen[r]
        BY <3>1, <1>5
      <3>4. (\A i \in DOMAIN sent'[r] : sent'[r][i] = i) /\ obj'[r].out # <<>>
        BY <3>2
      <3> QED
        BY <3>2, <3>3, <3>4 DEF ProgressAt
    <2>7. LeavingAt("drun", r)'
      BY <2>3 DEF LeavingAt
    <2>8. "drun" \in Homes
      BY DEF Homes
    <2>9. \E x \in Homes : \E y \in Decoders : TrackedAt(x, y, r)'
      BY <2>5, <2>6, <2>7, <2>8 DEF TrackedAt
    <2> QED
      BY <1>1, <1>q, <2>1, <2>2, <2>9, OneMoved
  <1> QED
    BY <1>13, <1>14, <1>15, <1>16, <1>q, DecodeFrame

\* A running request is given blocks up to its first to tokens.
LEMMA NextBlocks ==
    ASSUME NEW size \in Nat \ {0}, NEW e, EngineOK(e, size), NEW r \in Reqs,
           NEW n \in Nat, NEW to \in Nat, n <= to, to <= TotalLen[r],
           Len(e.blk[r]) = BlocksFor(n), Fits(e, r, <<>>, to), NEW f, f = Allocate(e, r, <<>>, to, to)
    PROVE  /\ EngineOK(f, size) /\ f \in EngineType(size) /\ f.run = e.run /\ f.wait = e.wait
           /\ \A q \in Reqs : q # r => f.blk[q] = e.blk[q]
           /\ Len(f.blk[r]) = BlocksFor(to)
  <1>1. BlocksFor(n) \in Nat /\ BlocksFor(to) \in Nat
    BY BlocksForOK
  <1>m. BlocksFor(n) <= BlocksFor(to)
    BY BlocksForMonotone
  <1>0. <<>> \in Seq(1 .. size - 1) /\ Len(<<>>) = 0
    OBVIOUS
  <1>2. Partway(e, r, <<>>, to)
    <2>1. BlocksFor(n) + 0 <= BlocksFor(to)
      BY <1>1, <1>m
    <2> QED
      BY <2>1, <1>0 DEF Partway
  <1>3. EngineOK(f, size) /\ \E fresh : Allocated(f, e, r, <<>>, fresh, to, size)
    BY <1>0, <1>2, AllocateOK
  <1>4. PICK fresh : Allocated(f, e, r, <<>>, fresh, to, size)
    BY <1>3
  <1>5. e.blk \in [Reqs -> Seq(1 .. size - 1)]
    BY EngineFields
  <1>6. /\ f.run = e.run /\ f.wait = e.wait /\ f.blk = [e.blk EXCEPT ![r] = e.blk[r] \o <<>> \o fresh]
        /\ Len(f.blk[r]) = BlocksFor(to)
    BY <1>4 DEF Allocated
  <1>7. f \in EngineType(size)
    BY <1>3 DEF EngineOK
  <1> QED
    BY <1>3, <1>5, <1>6, <1>7

\* The running request that a schedule step of a decode engine comes to, and
\* the tokens it gets.
ComesTo(d, r, n) ==
    /\ dstep[d].pc = "run" /\ dstep[d].idx <= Len(dec[d].run) /\ r = dec[d].run[dstep[d].idx]
    /\ n = Least(NumTokens(r) - obj[r].comp, dstep[d].budget)

LEMMA NextRunning ==
    ASSUME Inv, NEW d \in Decoders, NEW r, NEW n, ComesTo(d, r, n)
    PROVE  /\ r \in Reqs /\ r \in Range(dec[d].run) /\ dstep[d].num[r] = 0
           /\ dstep[d].idx \in 1 .. Len(dec[d].run) /\ obj[r].comp \in Nat /\ n \in Nat
           /\ dstep[d].budget - n \in Nat /\ obj[r].comp + n <= NumTokens(r)
           /\ obj[r].comp + n <= TotalLen[r] /\ NumTokens(r) \in Nat /\ TotalLen[r] \in Nat
           /\ Len(dec[d].blk[r]) = BlocksFor(obj[r].comp)
  <1>1. Typed /\ Stepping /\ Tracked
    BY DEF Inv
  <1>2. DecodeFacts(d)
    BY DecodeBegins
  <1>3. /\ dec[d].run \in Seq(Reqs) /\ dstep[d].idx \in Nat /\ dstep[d].idx # 0 /\ dstep[d].budget \in Nat
    BY <1>2 DEF DecodeFacts, DSteps, DecodingAt, ComesTo
  <1>4. dstep[d].idx \in 1 .. Len(dec[d].run) /\ dstep[d].idx \in DOMAIN dec[d].run
    BY <1>3 DEF ComesTo
  <1>5. r \in Reqs /\ r \in Range(dec[d].run) /\ dstep[d].num[r] = 0
    <2>1. PICK i : i = dstep[d].idx
      OBVIOUS
    <2>2. i \in DOMAIN dec[d].run /\ i >= i /\ r = dec[d].run[i]
      BY <1>3, <1>4, <2>1 DEF ComesTo
    <2>3. dstep[d].num[dec[d].run[i]] = 0
      BY <1>2, <2>1, <2>2 DEF DecodeFacts, DecodingAt
    <2>4. r \in Reqs
      BY <1>3, <2>2
    <2> QED
      BY <2>2, <2>3, <2>4 DEF Range
  <1>6. obj[r].comp \in Nat /\ obj[r].out \in Seq(Nat)
    BY <1>2, <1>5 DEF DecodeFacts, Objects
  <1>7. DecodeOne(d, r) /\ obj[r].comp + 0 = obj[r].comp
    BY <1>2, <1>5, <1>6 DEF DecodeFacts, DecodingAt
  <1>8. Len(dec[d].blk[r]) = BlocksFor(obj[r].comp) /\ obj[r].comp <= NumTokens(r)
    <2>1. obj[r].comp + dstep[d].num[r] = obj[r].comp
      BY <1>5, <1>7
    <2> QED
      BY <2>1, <1>7 DEF DecodeOne
  <1>9. NumTokens(r) \in Nat /\ TotalLen[r] \in Nat
    <2>1. PromptLen[r] \in Nat /\ TotalLen[r] \in Nat
      BY <1>5, KeyOK
    <2>2. Len(obj[r].out) \in Nat
      BY <1>6
    <2> QED
      BY <2>1, <2>2 DEF NumTokens
  <1>10. NumTokens(r) <= TotalLen[r]
    BY <1>1, <1>5, InDecoder
  <1> DEFINE a == NumTokens(r)
             c == obj[r].comp
             b == dstep[d].budget
             t == TotalLen[r]
  <1>11. a \in Nat /\ c \in Nat /\ b \in Nat /\ t \in Nat /\ c <= a /\ a <= t /\ n = Least(a - c, b)
    <2>1. n = Least(NumTokens(r) - obj[r].comp, dstep[d].budget)
      BY DEF ComesTo
    <2>2. b \in Nat /\ n = Least(a - c, b)
      BY <1>3, <2>1
    <2>3. a \in Nat /\ c \in Nat /\ t \in Nat
      BY <1>6, <1>9
    <2>4. c <= a /\ a <= t
      BY <1>8, <1>10
    <2> QED
      BY <2>2, <2>3, <2>4
  <1> HIDE DEF a, b, c, t
  <1>12. n \in Nat /\ b - n \in Nat /\ c + n <= a /\ c + n <= t
    BY <1>11 DEF Least
  <1> QED
    BY <1>4, <1>5, <1>6, <1>8, <1>9, <1>12 DEF a, b, c, t

\* The step s of a decode thread after it has given request r n tokens.
Scheduled(s, t, r, n) == s = [t EXCEPT !.idx = @ + 1, !.num[r] = n, !.budget = @ - n]

LEMMA ScheduledStep ==
    ASSUME NEW t \in DSteps, NEW r \in Reqs, NEW n \in Nat, t.budget - n \in Nat,
           NEW s, Scheduled(s, t, r, n)
    PROVE  /\ s \in DSteps /\ s.pc = t.pc /\ s.idx = t.idx + 1 /\ s.num[r] = n
           /\ \A q \in Reqs : q # r => s.num[q] = t.num[q]
  <1>1. PICK num : num = [t.num EXCEPT ![r] = n]
    OBVIOUS
  <1>2. PICK idx, budget : idx = t.idx + 1 /\ budget = t.budget - n
    OBVIOUS
  <1>3. t.num \in [Reqs -> Nat] /\ t.idx \in Nat
    BY DEF DSteps
  <1>4. budget \in Nat
    BY <1>2, Zenon
  <1>5. idx \in Nat
    BY <1>2, <1>3
  <1>6. num \in [Reqs -> Nat] /\ num[r] = n /\ \A q \in Reqs : q # r => num[q] = t.num[q]
    BY <1>1, <1>3
  <1>7. s = [t EXCEPT !.idx = idx, !.num = num, !.budget = budget]
    BY <1>1, <1>2 DEF Scheduled
  <1>8. s \in DSteps /\ s.pc = t.pc /\ s.idx = idx /\ s.num = num
    BY <1>4, <1>5, <1>6, <1>7 DEF DSteps
  <1> QED
    BY <1>2, <1>6, <1>8

LEMMA DRunNextStep ==
    ASSUME Inv, NEW d \in Decoders, DRunNext(d)
    PROVE  Inv'
  <1>u. /\ dstep[d].pc = "run" /\ dstep[d].idx <= Len(dec[d].run)
    BY Zenon DEF DRunNext
  <1>w. /\ known' = known /\ adding' = adding /\ pre' = pre /\ pstep' = pstep /\ tq' = tq /\ hand' = hand
        /\ dq' = dq /\ sent' = sent /\ done' = done /\ lost' = lost /\ killed' = killed
    BY Zenon DEF DRunNext
  <1>a. /\ PBlocks \in Nat \ {0} /\ DBlocks \in Nat \ {0} /\ BlockSize \in Nat \ {0}
        /\ Budget \in Nat \ {0} /\ Decoders \in SUBSET Nat
    BY DisaggAssumption
  <1>1. Typed /\ Once /\ Carried /\ Stepping /\ Prefilling /\ Decoding /\ Tracked
    BY DEF Inv
  <1>2. DecodeFacts(d)
    BY DecodeBegins
  <1>r. PICK r : r = dec[d].run[dstep[d].idx]
    OBVIOUS
  <1>n. PICK n : n = Least(NumTokens(r) - obj[r].comp, dstep[d].budget)
    OBVIOUS
  <1>t. PICK to : to = obj[r].comp + n
    OBVIOUS
  <1>v. PICK v : v = dec[d].run[Len(dec[d].run)]
    OBVIOUS
  <1>3. /\ r \in Reqs /\ r \in Range(dec[d].run) /\ dstep[d].num[r] = 0
        /\ dstep[d].idx \in 1 .. Len(dec[d].run) /\ obj[r].comp \in Nat /\ n \in Nat
        /\ dstep[d].budget - n \in Nat /\ to <= NumTokens(r)
        /\ to <= TotalLen[r] /\ NumTokens(r) \in Nat /\ TotalLen[r] \in Nat
        /\ Len(dec[d].blk[r]) = BlocksFor(obj[r].comp)
    <2>1. ComesTo(d, r, n)
      BY <1>u, <1>w, <1>r, <1>n DEF ComesTo
    <2> QED
      BY <2>1, <1>t, NextRunning
  <1>4. to \in Nat /\ obj[r].comp <= to
    BY <1>3, <1>t
  <1>q. Quiet
    BY <1>w DEF Quiet
  <1>5. CASE Fits(dec[d], r, <<>>, to)
    <2>f. PICK f : f = Allocate(dec[d], r, <<>>, to, to)
      OBVIOUS
    <2>s. PICK s : s = [dstep[d] EXCEPT !.idx = @ + 1, !.num[r] = n, !.budget = @ - n]
      OBVIOUS
    <2>1. /\ dec' = [dec EXCEPT ![d] = f] /\ obj' = obj
          /\ dstep' = [dstep EXCEPT ![d].idx = @ + 1, ![d].num[r] = n, ![d].budget = @ - n]
      BY <1>5, <1>r, <1>n, <1>t, <2>f DEF DRunNext
    <2>2. /\ EngineOK(f, DBlocks) /\ f \in EngineType(DBlocks) /\ f.run = dec[d].run /\ f.wait = dec[d].wait
          /\ \A q \in Reqs : q # r => f.blk[q] = dec[d].blk[q]
          /\ Len(f.blk[r]) = BlocksFor(to)
      <3>1. EngineOK(dec[d], DBlocks) /\ DBlocks \in Nat \ {0}
        BY <1>a, <1>2 DEF DecodeFacts
      <3> QED
        BY <3>1, <1>3, <1>4, <1>5, <2>f, NextBlocks, SMTT(30)
    <2>3. /\ dec' \in [Decoders -> EngineType(DBlocks)] /\ dec'[d] = f
          /\ \A c \in Decoders : c # d => dec'[c] = dec[c]
      BY <1>2, <2>1, <2>2 DEF DecodeFacts
    <2>4. /\ s \in DSteps /\ s.pc = "run" /\ s.idx = dstep[d].idx + 1 /\ s.num[r] = n
          /\ \A q \in Reqs : q # r => s.num[q] = dstep[d].num[q]
      <3>1. dstep[d] \in DSteps
        BY <1>2 DEF DecodeFacts
      <3> QED
        <4>1. dstep[d].budget - n \in Nat /\ n \in Nat /\ r \in Reqs
          BY <1>3
        <4>2. Scheduled(s, dstep[d], r, n)
          BY <2>s DEF Scheduled
        <4> QED
          BY <3>1, <4>1, <4>2, <1>u, ScheduledStep
    <2>5. dstep' = [dstep EXCEPT ![d] = s]
      <3>1. dstep \in [Decoders -> DSteps]
        BY <1>2 DEF DecodeFacts
      <3> QED
        BY <3>1, <2>1, <2>s DEF DSteps
    <2>6. /\ dstep' \in [Decoders -> DSteps] /\ dstep'[d] = s
          /\ \A c \in Decoders : c # d => dstep'[c] = dstep[c]
      BY <1>2, <2>4, <2>5 DEF DecodeFacts
    <2>7. DecodeTyped(d) /\ DecodeOwn(d)
      BY <1>u, <1>w, <1>2, <2>1, <2>2, <2>3, <2>6 DEF DecodeTyped, DecodeOwn, DecodeFacts
    <2>8. DecodingAt(d)'
      <3>1. DecodeOne(d, r)'
        <4>1. obj'[r].comp + dstep'[d].num[r] = to /\ NumTokens(r)' = NumTokens(r)
          BY <1>t, <2>1, <2>4, <2>6 DEF NumTokens
        <4> QED
          BY <4>1, <1>3, <2>2, <2>3 DEF DecodeOne
      <3>2. ASSUME NEW q \in Reqs, q \in Range(dec[d].run), q # r
            PROVE  DecodeOne(d, q)'
        <4>1. DecodeOne(d, q)
          BY <1>2, <3>2 DEF DecodeFacts, DecodingAt
        <4>2. dec'[d].blk[q] = dec[d].blk[q] /\ dstep'[d].num[q] = dstep[d].num[q]
          BY <2>2, <2>3, <2>4, <2>6, <3>2
        <4> QED
          BY <4>1, <4>2, <2>1 DEF DecodeOne, NumTokens
      <3>3. ASSUME NEW i \in DOMAIN dec[d].run, i >= dstep[d].idx + 1
            PROVE  dstep'[d].num[dec[d].run[i]] = 0
        <4>0. PICK j : j = dstep[d].idx
          OBVIOUS
        <4>j. j \in 1 .. Len(dec[d].run) /\ i >= j + 1 /\ r = dec[d].run[j]
          BY <1>3, <1>r, <3>3, <4>0
        <4>k. dec[d].run \in Seq(Reqs) /\ IsInjective(dec[d].run)
          BY <1>2 DEF DecodeFacts
        <4>l. DOMAIN dec[d].run = 1 .. Len(dec[d].run) /\ Len(dec[d].run) \in Nat
          BY <4>k
        <4>1. i \in Nat /\ j \in Nat /\ i >= j /\ i # j /\ j \in DOMAIN dec[d].run
          BY <4>j, <4>l
        <4>2. dec[d].run[i] # r /\ dec[d].run[i] \in Reqs
          BY <4>1, <4>j, <4>k DEF IsInjective
        <4>3. dstep[d].num[dec[d].run[i]] = 0
          BY <4>0, <4>1, <1>2 DEF DecodeFacts, DecodingAt
        <4> QED
          BY <4>1, <4>2, <4>3, <2>4, <2>6
      <3>4. \A q \in Reqs : q \notin Range(dec[d].run) => dec'[d].blk[q] = <<>>
        BY <1>2, <1>3, <2>2, <2>3 DEF DecodeFacts, DecodingAt
      <3>5. dstep'[d].pc = "run" /\ dstep'[d].idx = dstep[d].idx + 1 /\ dstep'[d].idx # 0
        BY <1>3, <2>4, <2>6
      <3> QED
        BY <2>2, <2>3, <3>1, <3>2, <3>3, <3>4, <3>5 DEF DecodingAt
    <2>9. Tracked'
      <3>1. \A q \in Reqs : Unmoved(q)
        BY <1>u, <1>w, <2>1, <2>2, <2>3 DEF Unmoved, InTq, InHand, InDq
      <3> QED
        BY <1>1, <1>q, <3>1, AllUnmoved
    <2> QED
      BY <1>u, <1>w, <1>2, <2>7, <2>8, <2>9, DecodeFrame DEF DecodeFacts
  <1>6. CASE ~Fits(dec[d], r, <<>>, to)
    <2>e. PICK e : e = Dropped(dec[d], v)
      OBVIOUS
    <2>h. PICK h : h = [e EXCEPT !.wait = <<v>> \o e.wait]
      OBVIOUS
    <2>1. /\ dstep' = [dstep EXCEPT ![d].preempted = TRUE]
          /\ obj' = [obj EXCEPT ![v].st = "preempted", ![v].comp = 0]
      BY <1>6, <1>r, <1>n, <1>t, <1>v DEF DRunNext
    <2>x. dec' = [dec EXCEPT ![d] = h]
      BY <1>6, <1>r, <1>n, <1>t, <1>v, <2>e, <2>h, Zenon DEF DRunNext
    <2>2. /\ v \in Reqs /\ v \in Range(dec[d].run) /\ dec[d].run # <<>> /\ Len(dec[d].run) \in DOMAIN dec[d].run
          /\ Len(dec[d].run) \in Nat
      <3>1. dec[d].run \in Seq(Reqs)
        BY <1>2 DEF DecodeFacts
      <3>2. PICK s, k : s = dec[d].run /\ k = Len(s)
        OBVIOUS
      <3>3. s \in Seq(Reqs) /\ k \in Nat /\ k = Len(s) /\ DOMAIN s = 1 .. k /\ v = s[k]
        BY <3>1, <3>2, <1>v
      <3>4. k # 0 /\ s # <<>>
        BY <1>3, <3>2, <3>3
      <3>5. k \in 1 .. k
        BY <3>3, <3>4
      <3>6. v \in Reqs /\ v \in Range(s)
        BY <3>3, <3>5 DEF Range
      <3> QED
        BY <3>2, <3>3, <3>4, <3>5, <3>6
    <2>3. /\ ~InTq(v) /\ ~InHand(v) /\ \A c \in Decoders : ~InDq(c, v)
          /\ v \notin Range(pre.run) /\ v \notin Range(pre.wait) /\ ~Sampled(v)
          /\ \A c \in Decoders : c # d => v \notin Range(dec[c].run) /\ v \notin Range(dec[c].wait)
          /\ v \notin Range(dec[d].wait)
          /\ obj[v].ok /\ obj[v].st # "away" /\ obj[v].out # <<>> /\ sent[v] = obj[v].out
          /\ NumTokens(v) <= TotalLen[v] /\ \A i \in DOMAIN sent[v] : sent[v][i] = i
      BY <1>1, <2>2, InDecoder
    <2>4. EngineOK(e, DBlocks) /\ Left(e, dec[d], {v}) /\ e \in EngineType(DBlocks)
      <3>1. EngineOK(dec[d], DBlocks)
        BY <1>2 DEF DecodeFacts
      <3>2. EngineOK(e, DBlocks) /\ Left(e, dec[d], {v})
        BY <3>1, <1>a, <2>2, <2>e, DroppedOK
      <3> QED
        BY <3>2 DEF EngineOK
    <2>5. /\ e.wait = dec[d].wait /\ Range(e.run) = Range(dec[d].run) \ {v} /\ IsInjective(e.run)
          /\ e.blk = [q \in Reqs |-> IF q \in {v} THEN <<>> ELSE dec[d].blk[q]]
      BY <1>2, <2>4 DEF Left, DecodeFacts
    <2>6. /\ <<v>> \o e.wait \in Seq(Reqs) /\ Range(<<v>> \o e.wait) = Range(dec[d].wait) \cup {v}
          /\ IsInjective(<<v>> \o e.wait)
      <3>1. e.wait \in Seq(Reqs) /\ IsInjective(e.wait) /\ v \notin Range(e.wait)
        BY <1>2, <2>3, <2>5 DEF DecodeFacts
      <3> QED
        BY <3>1, <2>2, <2>5, InjectiveCons
    <2>7. /\ h \in EngineType(DBlocks) /\ h.pool = e.pool /\ h.blk = e.blk /\ h.hash = e.hash
          /\ h.run = e.run /\ h.wait = <<v>> \o e.wait
      BY <2>4, <2>6, <2>h DEF EngineType
    <2>8. EngineOK(h, DBlocks)
      BY <1>a, <2>4, <2>7, SameBlocks
    <2>9. /\ dec' \in [Decoders -> EngineType(DBlocks)] /\ dec'[d] = h
          /\ \A c \in Decoders : c # d => dec'[c] = dec[c]
      BY <1>2, <2>x, <2>7 DEF DecodeFacts
    <2>10. /\ dstep' \in [Decoders -> DSteps] /\ dstep'[d].pc = "run" /\ dstep'[d].num = dstep[d].num
           /\ dstep'[d].idx = dstep[d].idx /\ \A c \in Decoders : c # d => dstep'[c] = dstep[c]
      <3>1. dstep \in [Decoders -> DSteps]
        BY <1>2 DEF DecodeFacts
      <3>2. PICK s : s = [dstep[d] EXCEPT !.preempted = TRUE]
        OBVIOUS
      <3>3. s \in DSteps /\ s.pc = "run" /\ s.num = dstep[d].num /\ s.idx = dstep[d].idx
        BY <1>u, <1>w, <3>1, <3>2 DEF DSteps
      <3>4. dstep' = [dstep EXCEPT ![d] = s]
        BY <2>1, <3>1, <3>2
      <3> QED
        BY <3>1, <3>3, <3>4
    <2>11. /\ obj' \in Objects /\ \A q \in Reqs : q # v => obj'[q] = obj[q]
           /\ obj'[v].st = "preempted" /\ obj'[v].out = obj[v].out /\ obj'[v].ok = obj[v].ok
      <3>1. obj \in Objects
        BY <1>2 DEF DecodeFacts
      <3> QED
        BY <3>1, <2>1, <2>2 DEF Objects
    <2>12. DecodeTyped(d)
      BY <1>u, <1>w, <1>2, <2>5, <2>6, <2>7, <2>8, <2>9, <2>10, <2>11 DEF DecodeTyped, DecodeFacts
    <2>13. DecodeOwn(d)
      BY <2>3, <2>11 DEF DecodeOwn
    <2>14. DecodingAt(d)'
      <3>1. e.run = [k \in 1 .. Len(dec[d].run) - 1 |-> dec[d].run[k]]
        <4>1. e.run = RemoveAll(dec[d].run, {v})
          <5>1. EngineOK(dec[d], DBlocks)
            BY <1>2 DEF DecodeFacts
          <5>2. Free(dec[d], v).run = dec[d].run /\ EngineOK(Free(dec[d], v), DBlocks)
            <6>1. DBlocks \in Nat \ {0} /\ v \in Reqs
              BY <1>a, <2>2
            <6> QED
              BY <5>1, <6>1, FreeOK, Zenon
          <5>3. PICK g : g = Free(dec[d], v)
            OBVIOUS
          <5>4. e = [g EXCEPT !.run = RemoveAll(g.run, {v})]
            BY <2>e, <5>3 DEF Dropped
          <5>5. g \in EngineType(DBlocks)
            BY <5>2, <5>3 DEF EngineOK
          <5>6. e.run = RemoveAll(g.run, {v})
            BY <5>4, <5>5 DEF EngineType
          <5> QED
            BY <5>2, <5>3, <5>6
        <4>2. RemoveAll(dec[d].run, {dec[d].run[Len(dec[d].run)]})
                = [k \in 1 .. Len(dec[d].run) - 1 |-> dec[d].run[k]]
          BY <1>2, <2>2, RemoveLast DEF DecodeFacts
        <4> QED
          BY <4>1, <4>2, <1>v
      <3>2. \A i \in DOMAIN e.run : i \in DOMAIN dec[d].run /\ e.run[i] = dec[d].run[i]
        <4>1. \A i \in 1 .. Len(dec[d].run) - 1 : i \in DOMAIN dec[d].run
          BY <1>2, <2>2 DEF DecodeFacts
        <4> QED
          BY <3>1, <4>1
      <3>3. \A i \in DOMAIN e.run : i >= dstep[d].idx => dstep'[d].num[e.run[i]] = 0
        BY <1>2, <2>10, <3>2 DEF DecodeFacts, DecodingAt
      <3>4. ASSUME NEW q \in Reqs, q \in Range(e.run)
            PROVE  DecodeOne(d, q)'
        <4>1. q # v /\ DecodeOne(d, q)
          BY <1>2, <2>5, <3>4 DEF DecodeFacts, DecodingAt
        <4>2. obj'[q] = obj[q] /\ dec'[d].blk[q] = dec[d].blk[q] /\ dstep'[d].num = dstep[d].num
          BY <4>1, <2>5, <2>7, <2>9, <2>10, <2>11
        <4> QED
          BY <4>1, <4>2 DEF DecodeOne, NumTokens
      <3>5. \A q \in Reqs : q \notin Range(e.run) => dec'[d].blk[q] = <<>>
        BY <1>2, <2>5, <2>7, <2>9 DEF DecodeFacts, DecodingAt
      <3>6. dstep'[d].idx # 0
        BY <1>3, <2>10
      <3> QED
        BY <2>7, <2>9, <2>10, <3>3, <3>4, <3>5, <3>6 DEF DecodingAt
    <2>15. Tracked'
      <3>1. \A c \in Decoders : \A q \in Reqs :
              /\ q \in Range(dec'[c].run) => q \in Range(dec[c].run) /\ (c = d => q # v)
              /\ q \in Range(dec'[c].wait) => q \in Range(dec[c].wait) \/ (c = d /\ q = v)
        BY <2>5, <2>6, <2>7, <2>9
      <3>2. \A q \in Reqs : q # v => Unmoved(q)
        BY <1>u, <1>w, <2>11, <3>1 DEF Unmoved, InTq, InHand, InDq
      <3>3. ~Sampled(v)' /\ ~InTq(v)' /\ ~InHand(v)' /\ \A c \in Decoders : ~InDq(c, v)'
        BY <1>u, <1>w, <2>3 DEF Sampled, InTq, InHand, InDq
      <3>4. \A c \in Decoders : /\ v \notin Range(dec'[c].run)
                                /\ v \in Range(dec'[c].wait) => c = d
        BY <2>2, <2>3, <3>1
      <3>5. LocatedAt("dwait", d, v)'
        BY <1>u, <1>w, <2>3, <2>11, <3>3, <3>4 DEF LocatedAt
      <3>6. NumTokens(v)' = NumTokens(v)
        BY <2>11 DEF NumTokens
      <3>7. ProgressAt("dwait", v)'
        BY <1>u, <1>w, <2>3, <2>11, <3>6 DEF ProgressAt
      <3>8. LeavingAt("dwait", v)'
        BY <3>3 DEF LeavingAt
      <3>9. "dwait" \in Homes
        BY DEF Homes
      <3>10. \E x \in Homes : \E y \in Decoders : TrackedAt(x, y, v)'
        BY <3>5, <3>7, <3>8, <3>9 DEF TrackedAt
      <3> QED
        BY <1>1, <1>q, <2>2, <3>2, <3>10, OneMoved
    <2> QED
      BY <1>u, <1>w, <1>2, <2>12, <2>13, <2>14, <2>15, DecodeFrame DEF DecodeFacts
  <1> QED
    BY <1>5, <1>6

LEMMA DResumeStep ==
    ASSUME Inv, NEW d \in Decoders, DResume(d)
    PROVE  Inv'
  <1>u. dstep[d].pc = "run" /\ dstep[d].idx > Len(dec[d].run) /\ CanResume(d)
    BY Zenon DEF DResume
  <1>w. /\ known' = known /\ adding' = adding /\ pre' = pre /\ pstep' = pstep /\ tq' = tq /\ hand' = hand
        /\ dq' = dq /\ sent' = sent /\ done' = done /\ lost' = lost /\ killed' = killed
    BY Zenon DEF DResume
  <1>a. /\ PBlocks \in Nat \ {0} /\ DBlocks \in Nat \ {0} /\ BlockSize \in Nat \ {0}
        /\ Budget \in Nat \ {0} /\ Decoders \in SUBSET Nat
    BY DisaggAssumption
  <1>1. Typed /\ Once /\ Carried /\ Stepping /\ Prefilling /\ Decoding /\ Tracked
    BY DEF Inv
  <1>2. DecodeFacts(d)
    BY DecodeBegins
  <1>r. PICK r : r = Head(dec[d].wait)
    OBVIOUS
  <1>h. PICK hit : hit = Hit(dec[d], r, NumTokens(r))
    OBVIOUS
  <1>c. PICK comp : comp = Len(hit) * BlockSize
    OBVIOUS
  <1>n. PICK n : n = Least(NumTokens(r) - comp, dstep[d].budget)
    OBVIOUS
  <1>t. PICK to : to = comp + n
    OBVIOUS
  <1>f. PICK f : f = Allocate(dec[d], r, hit, to, to)
    OBVIOUS
  <1>g. PICK g : g = [f EXCEPT !.wait = Tail(f.wait), !.run = Append(f.run, r)]
    OBVIOUS
  <1>s. PICK s : s = [dstep[d] EXCEPT !.idx = @ + 1, !.num[r] = n, !.budget = @ - n]
    OBVIOUS
  <1>o. obj' = [obj EXCEPT ![r].st = "running", ![r].comp = comp]
    BY <1>r, <1>h, <1>c, Zenon DEF DResume
  <1>e. dec' = [dec EXCEPT ![d] = g]
    BY <1>r, <1>h, <1>c, <1>n, <1>t, <1>f, <1>g, Zenon DEF DResume
  <1>y. dstep' = [dstep EXCEPT ![d].idx = @ + 1, ![d].num[r] = n, ![d].budget = @ - n]
    BY <1>r, <1>h, <1>c, <1>n, Zenon DEF DResume
  <1>z. dstep' = [dstep EXCEPT ![d] = s]
    <2>1. dstep \in [Decoders -> DSteps]
      BY <1>2 DEF DecodeFacts
    <2> QED
      BY <2>1, <1>y, <1>s DEF DSteps
  <1>3. /\ dec[d].wait # <<>> /\ dstep[d].budget > 0 /\ Fits(dec[d], r, hit, NumTokens(r))
    BY <1>u, <1>r, <1>h DEF CanResume
  <1>4. /\ r \in Reqs /\ r \in Range(dec[d].wait) /\ Tail(dec[d].wait) \in Seq(Reqs)
        /\ Range(Tail(dec[d].wait)) = Range(dec[d].wait) \ {r} /\ IsInjective(Tail(dec[d].wait))
    <2>1. dec[d].wait \in Seq(Reqs) /\ IsInjective(dec[d].wait)
      BY <1>2 DEF DecodeFacts
    <2> QED
      BY <2>1, <1>3, <1>r, InjectiveTail
  <1>5. /\ ~InTq(r) /\ ~InHand(r) /\ \A c \in Decoders : ~InDq(c, r)
        /\ r \notin Range(pre.run) /\ r \notin Range(pre.wait) /\ ~Sampled(r)
        /\ \A c \in Decoders : c # d => r \notin Range(dec[c].run) /\ r \notin Range(dec[c].wait)
        /\ r \notin Range(dec[d].run)
        /\ obj[r].ok /\ obj[r].st # "away" /\ obj[r].out # <<>> /\ sent[r] = obj[r].out
        /\ NumTokens(r) <= TotalLen[r] /\ \A i \in DOMAIN sent[r] : sent[r][i] = i
    BY <1>1, <1>4, InDecoder
  <1>6. dec[d].blk[r] = <<>>
    BY <1>2, <1>4, <1>5 DEF DecodeFacts, DecodingAt
  <1>7. NumTokens(r) \in 1 .. TotalLen[r] /\ NumTokens(r) \in Nat
    <2>1. PromptLen[r] \in Nat \ {0} /\ TotalLen[r] \in Nat
      BY <1>4, KeyOK
    <2>2. obj[r].out \in Seq(Nat)
      BY <1>2, <1>4 DEF DecodeFacts, Objects
    <2>3. Len(obj[r].out) \in Nat
      BY <2>2
    <2>4. NumTokens(r) \in Nat \ {0}
      <3>1. PICK a, b : a = PromptLen[r] /\ b = Len(obj[r].out)
        OBVIOUS
      <3>2. a \in Nat \ {0} /\ b \in Nat /\ NumTokens(r) = a + b
        BY <2>1, <2>3, <3>1 DEF NumTokens
      <3> QED
        BY <3>2
    <2> QED
      BY <2>1, <2>4, <1>5
  <1>8. dstep[d].budget \in Nat \ {0}
    <2>1. dstep[d].budget \in Nat
      BY <1>2 DEF DecodeFacts, DSteps
    <2> QED
      BY <2>1, <1>3
  <1>9. comp \in Nat /\ Chunked(NumTokens(r), comp, dstep[d].budget, n, to)
        /\ Admitted(f, dec[d], r, hit, to, NumTokens(r), DBlocks)
    <2>1. Admits(f, dec[d], r, hit, comp, to, NumTokens(r))
      BY <1>h, <1>3, <1>c, <1>f DEF Admits
    <2>2. EngineOK(dec[d], DBlocks) /\ DBlocks \in Nat \ {0}
      BY <1>a, <1>2 DEF DecodeFacts
    <2> QED
      BY <2>1, <2>2, <1>4, <1>6, <1>7, <1>8, <1>n, <1>t, AdmitOK
  <1>10. /\ n \in Nat /\ dstep[d].budget - n \in Nat /\ to <= NumTokens(r)
         /\ EngineOK(f, DBlocks) /\ f \in EngineType(DBlocks)
         /\ \E fresh : Allocated(f, dec[d], r, hit, fresh, to, DBlocks)
    BY <1>9 DEF Chunked, Admitted, EngineOK
  <1>11. /\ f.run = dec[d].run /\ f.wait = dec[d].wait /\ Len(f.blk[r]) = BlocksFor(to)
         /\ \A q \in Reqs : q # r => f.blk[q] = dec[d].blk[q]
    <2>1. PICK fresh : Allocated(f, dec[d], r, hit, fresh, to, DBlocks)
      BY <1>10
    <2>2. /\ f.run = dec[d].run /\ f.wait = dec[d].wait /\ Len(f.blk[r]) = BlocksFor(to)
          /\ f.blk = [dec[d].blk EXCEPT ![r] = dec[d].blk[r] \o hit \o fresh]
      BY <2>1, Zenon DEF Allocated
    <2>3. dec[d].blk \in [Reqs -> Seq(1 .. DBlocks - 1)]
      BY <1>2 DEF DecodeFacts
    <2>4. \A q \in Reqs : q # r => f.blk[q] = dec[d].blk[q]
      BY <2>2, <2>3, <1>4
    <2> QED
      BY <2>2, <2>4
  <1>12. /\ Append(dec[d].run, r) \in Seq(Reqs)
         /\ Range(Append(dec[d].run, r)) = Range(dec[d].run) \cup {r}
         /\ IsInjective(Append(dec[d].run, r))
    <2>1. dec[d].run \in Seq(Reqs) /\ IsInjective(dec[d].run)
      BY <1>2 DEF DecodeFacts
    <2> QED
      BY <2>1, <1>4, <1>5, InjectiveAppend
  <1>13. /\ g \in EngineType(DBlocks) /\ g.pool = f.pool /\ g.blk = f.blk /\ g.hash = f.hash
         /\ g.run = Append(dec[d].run, r) /\ g.wait = Tail(dec[d].wait)
    <2>1. g = [f EXCEPT !.wait = Tail(dec[d].wait), !.run = Append(dec[d].run, r)]
      BY <1>g, <1>11
    <2> QED
      BY <2>1, <1>4, <1>10, <1>12 DEF EngineType
  <1>14. EngineOK(g, DBlocks)
    BY <1>a, <1>10, <1>13, SameBlocks
  <1>15. /\ dec' \in [Decoders -> EngineType(DBlocks)] /\ dec'[d] = g
         /\ \A c \in Decoders : c # d => dec'[c] = dec[c]
    BY <1>2, <1>e, <1>13 DEF DecodeFacts
  <1>16. /\ s \in DSteps /\ s.pc = "run" /\ s.idx = dstep[d].idx + 1 /\ s.num[r] = n
         /\ \A q \in Reqs : q # r => s.num[q] = dstep[d].num[q]
    <2>1. dstep[d] \in DSteps
      BY <1>2 DEF DecodeFacts
    <2>2. Scheduled(s, dstep[d], r, n)
      BY <1>s DEF Scheduled
    <2> QED
      BY <2>1, <2>2, <1>u, <1>4, <1>10, ScheduledStep
  <1>17. /\ dstep' \in [Decoders -> DSteps] /\ dstep'[d] = s
         /\ \A c \in Decoders : c # d => dstep'[c] = dstep[c]
    BY <1>2, <1>16, <1>z DEF DecodeFacts
  <1>18. /\ obj' \in Objects /\ \A q \in Reqs : q # r => obj'[q] = obj[q]
         /\ obj'[r].st = "running" /\ obj'[r].comp = comp
         /\ obj'[r].out = obj[r].out /\ obj'[r].ok = obj[r].ok
    <2>1. obj \in Objects
      BY <1>2 DEF DecodeFacts
    <2> QED
      BY <2>1, <1>4, <1>9, <1>o DEF Objects
  <1>19. DecodeTyped(d)
    BY <1>w, <1>2, <1>4, <1>12, <1>13, <1>14, <1>15, <1>17, <1>18 DEF DecodeTyped, DecodeFacts
  <1>20. DecodeOwn(d)
    BY <1>5, <1>18 DEF DecodeOwn
  <1>21. DecodingAt(d)'
    <2>1. DecodeOne(d, r)'
      <3>1. obj'[r].comp + dstep'[d].num[r] = to /\ NumTokens(r)' = NumTokens(r)
        BY <1>t, <1>16, <1>17, <1>18 DEF NumTokens
      <3> QED
        BY <3>1, <1>10, <1>11, <1>13, <1>15 DEF DecodeOne
    <2>2. ASSUME NEW q \in Reqs, q \in Range(dec[d].run)
          PROVE  DecodeOne(d, q)'
      <3>1. q # r /\ DecodeOne(d, q)
        BY <1>2, <1>5, <2>2 DEF DecodeFacts, DecodingAt
      <3>2. obj'[q] = obj[q] /\ dec'[d].blk[q] = dec[d].blk[q] /\ dstep'[d].num[q] = dstep[d].num[q]
        BY <3>1, <1>11, <1>13, <1>15, <1>16, <1>17, <1>18
      <3> QED
        BY <3>1, <3>2 DEF DecodeOne, NumTokens
    <2>3. dstep[d].idx \in Nat /\ Len(dec[d].run) \in Nat /\ DOMAIN dec'[d].run = 1 .. Len(dec[d].run) + 1
      <3>1. dstep[d].idx \in Nat /\ dec[d].run \in Seq(Reqs)
        BY <1>2 DEF DecodeFacts, DSteps
      <3> QED
        BY <3>1, <1>4, <1>13, <1>15
    <2>4. \A i \in DOMAIN dec'[d].run : ~(i >= dstep'[d].idx)
      <3>1. PICK k, j : k = Len(dec[d].run) /\ j = dstep[d].idx
        OBVIOUS
      <3>2. k \in Nat /\ j \in Nat /\ j > k
        BY <3>1, <2>3, <1>u
      <3>3. dstep'[d].idx = j + 1
        BY <3>1, <1>16, <1>17
      <3>4. \A i \in 1 .. k + 1 : ~(i >= j + 1)
        BY <3>2
      <3> QED
        BY <3>1, <3>3, <3>4, <2>3
    <2>5. \A q \in Reqs : q \notin Range(dec'[d].run) => dec'[d].blk[q] = <<>>
      BY <1>2, <1>11, <1>12, <1>13, <1>15 DEF DecodeFacts, DecodingAt
    <2>6. \A q \in Reqs : q \in Range(dec'[d].run) => DecodeOne(d, q)'
      BY <1>12, <1>13, <1>15, <2>1, <2>2
    <2>7. dstep'[d].pc = "run" /\ dstep'[d].idx # 0
      BY <1>16, <1>17, <2>3
    <2> QED
      BY <2>4, <2>5, <2>6, <2>7 DEF DecodingAt
  <1>22. Tracked'
    <2>1. Quiet
      BY <1>w DEF Quiet
    <2>2. \A c \in Decoders : \A q \in Reqs :
            /\ q \in Range(dec'[c].run) => q \in Range(dec[c].run) \/ (c = d /\ q = r)
            /\ q \in Range(dec'[c].wait) => q \in Range(dec[c].wait) /\ (c = d => q # r)
      BY <1>4, <1>12, <1>13, <1>15
    <2>3. \A q \in Reqs : q # r => Unmoved(q)
      BY <1>w, <1>18, <2>2 DEF Unmoved, InTq, InHand, InDq
    <2>4. ~Sampled(r)' /\ ~InTq(r)' /\ ~InHand(r)' /\ \A c \in Decoders : ~InDq(c, r)'
      BY <1>w, <1>5 DEF Sampled, InTq, InHand, InDq
    <2>5. \A c \in Decoders : /\ r \in Range(dec'[c].run) => c = d
                              /\ r \notin Range(dec'[c].wait)
      BY <1>4, <1>5, <2>2
    <2>6. LocatedAt("drun", d, r)'
      BY <1>w, <1>5, <1>18, <2>4, <2>5 DEF LocatedAt
    <2>7. NumTokens(r)' = NumTokens(r)
      BY <1>18 DEF NumTokens
    <2>8. ProgressAt("drun", r)'
      BY <1>w, <1>5, <1>18, <2>7 DEF ProgressAt
    <2>9. LeavingAt("drun", r)'
      BY <2>4 DEF LeavingAt
    <2>10. "drun" \in Homes
      BY DEF Homes
    <2>11. \E x \in Homes : \E y \in Decoders : TrackedAt(x, y, r)'
      BY <2>6, <2>8, <2>9, <2>10 DEF TrackedAt
    <2> QED
      BY <1>1, <1>4, <2>1, <2>3, <2>11, OneMoved
  <1> QED
    BY <1>w, <1>2, <1>19, <1>20, <1>21, <1>22, DecodeFrame DEF DecodeFacts

\* What execute_model and update_from_output do to request q: ran is the
\* requests that got tokens, last those of them that are now sampled, over
\* those that stop, to how far each is computed.
Token(q) == IF obj[q].ok THEN Len(obj[q].out) + 1 ELSE Bad
Executed(q, ran, last, over, to) ==
    /\ obj'[q] = IF q \notin ran THEN obj[q]
                 ELSE [obj[q] EXCEPT !.comp = to[q],
                                     !.out = IF q \in last THEN Append(@, Token(q)) ELSE @,
                                     !.st = IF q \in Range(over) THEN "finished" ELSE @]
    /\ sent'[q] = IF q \in last THEN Append(sent[q], Token(q)) ELSE sent[q]

\* The same, for a request whose tokens are the right ones so far.
Advanced(q, ran, last, to) ==
    /\ q \notin ran => obj'[q] = obj[q]
    /\ q \in ran => obj'[q].comp = to[q]
    /\ obj'[q].out = IF q \in last THEN Append(obj[q].out, Len(obj[q].out) + 1) ELSE obj[q].out
    /\ sent'[q] = IF q \in last THEN Append(sent[q], Len(obj[q].out) + 1) ELSE sent[q]
    /\ obj'[q].ok = obj[q].ok /\ (obj'[q].st = "away" => obj[q].st = "away")

LEMMA ExecutedOne ==
    ASSUME obj \in Objects, NEW q \in Reqs, NEW ran, NEW last, NEW over, NEW to,
           last \subseteq ran, q \in ran => to[q] \in Nat /\ obj[q].ok,
           Executed(q, ran, last, over, to)
    PROVE  /\ obj'[q] \in [st : {"away", "new", "running", "preempted", "finished"},
                            comp : Nat, out : Seq(Nat), ok : BOOLEAN]
           /\ Advanced(q, ran, last, to)
  <1> DEFINE R == [st : {"away", "new", "running", "preempted", "finished"},
                   comp : Nat, out : Seq(Nat), ok : BOOLEAN]
  <1>1. obj[q] \in R
    BY DEF Objects
  <1>2. CASE q \notin ran
    <2>1. obj'[q] = obj[q] /\ sent'[q] = sent[q] /\ q \notin last
      BY <1>2 DEF Executed
    <2> QED
      BY <1>1, <1>2, <2>1 DEF Advanced
  <1>3. CASE q \in ran
    <2>1. PICK t : t = Len(obj[q].out) + 1
      OBVIOUS
    <2>2. Token(q) = t /\ t \in Nat
      BY <1>1, <1>3, <2>1 DEF Token
    <2>3. PICK out : out = IF q \in last THEN Append(obj[q].out, t) ELSE obj[q].out
      OBVIOUS
    <2>4. PICK st : st = IF q \in Range(over) THEN "finished" ELSE obj[q].st
      OBVIOUS
    <2>5. out \in Seq(Nat)
      <3>1. obj[q].out \in Seq(Nat)
        BY <1>1
      <3>2. Append(obj[q].out, t) \in Seq(Nat)
        BY <3>1, <2>2, AppendProperties
      <3> QED
        BY <3>1, <3>2, <2>3
    <2>6. st \in {"away", "new", "running", "preempted", "finished"} /\ (st = "away" => obj[q].st = "away")
      BY <1>1, <2>4
    <2>7. obj'[q] = [obj[q] EXCEPT !.comp = to[q], !.out = out, !.st = st]
      BY <1>3, <2>2, <2>3, <2>4 DEF Executed
    <2>8. /\ obj'[q] \in R /\ obj'[q].comp = to[q] /\ obj'[q].out = out /\ obj'[q].st = st
          /\ obj'[q].ok = obj[q].ok
      BY <1>1, <1>3, <2>5, <2>6, <2>7
    <2>9. sent'[q] = IF q \in last THEN Append(sent[q], t) ELSE sent[q]
      BY <2>2 DEF Executed
    <2> QED
      BY <1>3, <2>1, <2>3, <2>6, <2>8, <2>9 DEF Advanced
  <1> QED
    BY <1>2, <1>3

LEMMA AdvancedTokens ==
    ASSUME NEW q \in Reqs, NEW ran, NEW last, NEW to, Advanced(q, ran, last, to),
           obj[q].out \in Seq(Nat), obj[q].out # <<>>, sent[q] = obj[q].out,
           \A i \in DOMAIN sent[q] : sent[q][i] = i
    PROVE  /\ obj'[q].out # <<>> /\ sent'[q] = obj'[q].out
           /\ \A i \in DOMAIN sent'[q] : sent'[q][i] = i
           /\ NumTokens(q) \in Nat
           /\ NumTokens(q)' = IF q \in last THEN NumTokens(q) + 1 ELSE NumTokens(q)
  <1> DEFINE m == PromptLen[q]
  <1>1. PICK out, n : out = obj[q].out /\ n = Len(out)
    OBVIOUS
  <1>2. /\ out \in Seq(Nat) /\ n \in Nat /\ n = Len(out) /\ n # 0 /\ DOMAIN out = 1 .. n
        /\ \A i \in 1 .. n : out[i] = i
    BY <1>1
  <1>3. m \in Nat
    BY KeyOK
  <1> HIDE DEF m
  <1>4. NumTokens(q) = m + n
    BY <1>1 DEF NumTokens, m
  <1>5. CASE q \in last
    <2>1. obj'[q].out = Append(out, n + 1) /\ sent'[q] = Append(out, n + 1)
      BY <1>1, <1>5 DEF Advanced
    <2>2. PICK new : new = Append(out, n + 1)
      OBVIOUS
    <2>3. /\ new \in Seq(Nat) /\ Len(new) = n + 1 /\ DOMAIN new = 1 .. n + 1
          /\ \A i \in 1 .. n : new[i] = out[i]
          /\ new[n + 1] = n + 1
      BY <1>2, <2>2
    <2>4. \A i \in DOMAIN new : new[i] = i
      <3> SUFFICES ASSUME NEW i \in 1 .. n + 1
                   PROVE  new[i] = i
        BY <2>3
      <3>1. i \in 1 .. n \/ i = n + 1
        BY <1>2
      <3> QED
        BY <3>1, <1>2, <2>3
    <2>5. new # <<>>
      BY <1>2, <2>3
    <2>6. NumTokens(q)' = m + (n + 1)
      BY <2>1, <2>2, <2>3 DEF NumTokens, m
    <2>7. m + (n + 1) = (m + n) + 1 /\ m + n \in Nat
      BY <1>2, <1>3
    <2> QED
      BY <1>4, <1>5, <2>1, <2>2, <2>4, <2>5, <2>6, <2>7
  <1>6. CASE q \notin last
    <2>1. obj'[q].out = out /\ sent'[q] = out
      BY <1>1, <1>6 DEF Advanced
    <2>2. NumTokens(q)' = NumTokens(q)
      BY <1>1, <2>1 DEF NumTokens
    <2>3. m + n \in Nat
      BY <1>2, <1>3
    <2> QED
      BY <1>1, <1>4, <1>6, <2>1, <2>2, <2>3
  <1> QED
    BY <1>5, <1>6

\* A decode step of the whole batch keeps the invariant.
LEMMA DExecuteStep ==
    ASSUME Inv, NEW d \in Decoders, DExecute(d)
    PROVE  Inv'
  <1>w. /\ known' = known /\ adding' = adding /\ pre' = pre /\ pstep' = pstep /\ tq' = tq /\ hand' = hand
        /\ dq' = dq /\ lost' = lost /\ killed' = killed /\ dstep' = [dstep EXCEPT ![d] = DIdle]
    BY Zenon DEF DExecute
  <1>a. /\ PBlocks \in Nat \ {0} /\ DBlocks \in Nat \ {0} /\ BlockSize \in Nat \ {0}
        /\ Budget \in Nat \ {0} /\ Decoders \in SUBSET Nat
    BY DisaggAssumption
  <1>1. Typed /\ Once /\ Carried /\ Stepping /\ Prefilling /\ Decoding /\ Tracked
    BY DEF Inv
  <1>2. DecodeFacts(d)
    BY DecodeBegins
  <1>r. PICK ran : ran = {r \in Range(dec[d].run) : dstep[d].num[r] > 0}
    OBVIOUS
  <1>b. PICK from : from = [r \in Reqs |-> obj[r].comp]
    OBVIOUS
  <1>t. PICK to : to = [r \in Reqs |-> obj[r].comp + dstep[d].num[r]]
    OBVIOUS
  <1>l. PICK last : last = {r \in ran : to[r] = NumTokens(r)}
    OBVIOUS
  <1>o. PICK over : over = RemoveAll(dec[d].run, {r \in Reqs : r \notin last \/ ~Stops(r)})
    OBVIOUS
  <1>h. PICK h : h = Computed(dec[d], ran, from, to)
    OBVIOUS
  <1>g. PICK g : g = DroppedN(h, over)
    OBVIOUS
  <1>f. PICK f : f = [g EXCEPT !.fin = over # <<>>, !.batch = ran]
    OBVIOUS
  <1>e. dec' = [dec EXCEPT ![d] = f]
    BY <1>r, <1>b, <1>t, <1>l, <1>o, <1>h, <1>g, <1>f, Zenon DEF DExecute
  <1>x. /\ obj' = [r \in Reqs |->
                     IF r \notin ran THEN obj[r]
                     ELSE [obj[r] EXCEPT !.comp = to[r],
                             !.out = IF r \in last THEN Append(@, Token(r)) ELSE @,
                             !.st = IF r \in Range(over) THEN "finished" ELSE @]]
        /\ sent' = [r \in Reqs |-> IF r \in last THEN Append(sent[r], Token(r)) ELSE sent[r]]
        /\ done' = done \cup Range(over)
    BY <1>r, <1>t, <1>l, <1>o, Zenon DEF DExecute, Token
  <1>3. \A q \in Reqs : Executed(q, ran, last, over, to)
    BY <1>x, Zenon DEF Executed
  <1>4. /\ dec[d].run \in Seq(Reqs) /\ Range(dec[d].run) \subseteq Reqs /\ ran \subseteq Range(dec[d].run)
        /\ ran \in SUBSET Reqs /\ last \subseteq ran
        /\ dstep[d].num \in [Reqs -> Nat] /\ EngineOK(dec[d], DBlocks) /\ obj \in Objects
    BY <1>2, <1>r, <1>l DEF DecodeFacts, DSteps
  <1>5. \A q \in Reqs : q \in Range(dec[d].run) =>
          /\ ~InTq(q) /\ ~InHand(q) /\ \A c \in Decoders : ~InDq(c, q)
          /\ q \notin Range(pre.run) /\ q \notin Range(pre.wait) /\ ~Sampled(q)
          /\ \A c \in Decoders : c # d => q \notin Range(dec[c].run) /\ q \notin Range(dec[c].wait)
          /\ q \notin Range(dec[d].wait)
          /\ obj[q].ok /\ obj[q].st # "away" /\ obj[q].out # <<>> /\ sent[q] = obj[q].out
          /\ NumTokens(q) <= TotalLen[q] /\ \A i \in DOMAIN sent[q] : sent[q][i] = i
    BY <1>1, InDecoder
  <1>6. \A q \in Reqs : /\ obj[q].comp \in Nat /\ obj[q].out \in Seq(Nat) /\ dstep[d].num[q] \in Nat
                        /\ to[q] \in Nat /\ to[q] = obj[q].comp + dstep[d].num[q]
                        /\ from[q] \in Nat
    BY <1>4, <1>t, <1>b DEF Objects
  <1>7. \A q \in Reqs : q \in Range(dec[d].run) =>
          Len(dec[d].blk[q]) = BlocksFor(to[q]) /\ to[q] <= NumTokens(q)
    BY <1>2, <1>6 DEF DecodeFacts, DecodingAt, DecodeOne
  <1>8. \A q \in Reqs : Advanced(q, ran, last, to) /\ obj'[q] \in
          [st : {"away", "new", "running", "preempted", "finished"},
           comp : Nat, out : Seq(Nat), ok : BOOLEAN]
    <2> SUFFICES ASSUME NEW q \in Reqs
                 PROVE  Advanced(q, ran, last, to) /\ obj'[q] \in
                          [st : {"away", "new", "running", "preempted", "finished"},
                           comp : Nat, out : Seq(Nat), ok : BOOLEAN]
      OBVIOUS
    <2>1. q \in ran => to[q] \in Nat /\ obj[q].ok
      BY <1>4, <1>5, <1>6
    <2> QED
      BY <2>1, <1>3, <1>4, ExecutedOne
  <1>9. \A q \in Reqs : q \in Range(dec[d].run) =>
          /\ obj'[q].out # <<>> /\ sent'[q] = obj'[q].out
          /\ \A i \in DOMAIN sent'[q] : sent'[q][i] = i
          /\ NumTokens(q) \in Nat
          /\ NumTokens(q)' = IF q \in last THEN NumTokens(q) + 1 ELSE NumTokens(q)
    BY <1>5, <1>6, <1>8, AdvancedTokens
  <1>10. obj' \in Objects /\ sent' \in [Reqs -> Seq(Nat)] /\ done' \in SUBSET Reqs
    <2>1. obj' \in Objects
      <3>1. obj' = [q \in Reqs |-> obj'[q]]
        BY <1>x, Zenon
      <3>2. \A q \in Reqs : obj'[q] \in
          [st : {"away", "new", "running", "preempted", "finished"},
           comp : Nat, out : Seq(Nat), ok : BOOLEAN]
        BY <1>8
      <3> QED
        BY <3>1, <3>2 DEF Objects
    <2>2. sent' \in [Reqs -> Seq(Nat)]
      <3>1. \A q \in Reqs : sent'[q] \in Seq(Nat)
        <4> SUFFICES ASSUME NEW q \in Reqs
                     PROVE  sent'[q] \in Seq(Nat)
          OBVIOUS
        <4>1. CASE q \in Range(dec[d].run)
          <5>1. sent'[q] = obj'[q].out
            BY <1>9, <4>1
          <5> QED
            BY <5>1, <1>8
        <4>2. CASE q \notin Range(dec[d].run)
          <5>1. sent'[q] = sent[q]
            BY <1>4, <1>8, <4>2 DEF Advanced
          <5> QED
            BY <5>1, <1>2 DEF DecodeFacts
        <4> QED
          BY <4>1, <4>2
      <3>2. sent' = [q \in Reqs |-> sent'[q]]
        BY <1>x, Zenon
      <3> QED
        BY <3>1, <3>2
    <2>3. Range(over) \subseteq Reqs
      <3> DEFINE S == {r \in Reqs : r \notin last \/ ~Stops(r)}
      <3>1. over = RemoveAll(dec[d].run, S)
        BY <1>o
      <3> HIDE DEF S
      <3>2. Range(RemoveAll(dec[d].run, S)) = Range(dec[d].run) \ S
        BY <1>4, RemoveAllProperties
      <3> QED
        BY <1>4, <3>1, <3>2
    <2>4. done' = done \cup Range(over)
      BY <1>x, Zenon
    <2>5. done \subseteq Reqs
      BY <1>2 DEF DecodeFacts
    <2> QED
      BY <2>1, <2>2, <2>3, <2>4, <2>5
  <1>11. /\ over \in Seq(Reqs)
         /\ \A q \in Reqs : q \in Range(over) <=> q \in Range(dec[d].run) /\ q \in last /\ Stops(q)
    <2> DEFINE S == {r \in Reqs : r \notin last \/ ~Stops(r)}
    <2>1. over = RemoveAll(dec[d].run, S)
      BY <1>o
    <2>2. \A q \in Reqs : q \in S <=> q \notin last \/ ~Stops(q)
      OBVIOUS
    <2> HIDE DEF S
    <2>3. RemoveAll(dec[d].run, S) \in Seq(Reqs) /\ Range(RemoveAll(dec[d].run, S)) = Range(dec[d].run) \ S
      BY <1>4, RemoveAllProperties
    <2> QED
      BY <2>1, <2>2, <2>3
  <1>12. \A q \in Reqs : q \in Range(dec[d].run) /\ q \notin Range(over) => NumTokens(q)' <= TotalLen[q]
    <2> SUFFICES ASSUME NEW q \in Reqs, q \in Range(dec[d].run), q \notin Range(over)
                 PROVE  NumTokens(q)' <= TotalLen[q]
      OBVIOUS
    <2>1. NumTokens(q) \in Nat /\ NumTokens(q) <= TotalLen[q] /\ TotalLen[q] \in Nat
      BY <1>5, <1>9, KeyOK
    <2>2. CASE q \in last
      <3>1. ~Stops(q) /\ NumTokens(q)' = NumTokens(q) + 1
        BY <1>9, <1>11, <2>2
      <3> QED
        BY <3>1, <2>1 DEF Stops
    <2>3. CASE q \notin last
      BY <1>9, <2>1, <2>3
    <2> QED
      BY <2>2, <2>3
  <1>13. EngineOK(h, DBlocks) /\ h.run = dec[d].run /\ h.wait = dec[d].wait /\ h.blk = dec[d].blk
    <2>1. \A q \in ran : to[q] \in Nat /\ to[q] <= TotalLen[q] /\ from[q] \in Nat
      <3> SUFFICES ASSUME NEW q \in ran
                   PROVE  to[q] <= TotalLen[q] /\ q \in Reqs
        BY <1>6
      <3>1. q \in Reqs /\ q \in Range(dec[d].run)
        BY <1>4
      <3>2. to[q] \in Nat /\ to[q] <= NumTokens(q) /\ NumTokens(q) <= TotalLen[q]
            /\ NumTokens(q) \in Nat /\ TotalLen[q] \in Nat
        BY <3>1, <1>5, <1>6, <1>7, <1>9, KeyOK
      <3> QED
        BY <3>1, <3>2
    <2>2. /\ EngineOK(Computed(dec[d], ran, from, to), DBlocks)
          /\ \E kv \in [0 .. DBlocks - 1 -> KVs] : Computed(dec[d], ran, from, to) = [dec[d] EXCEPT !.kv = kv]
      <3>1. DBlocks \in Nat \ {0} /\ EngineOK(dec[d], DBlocks) /\ ran \in SUBSET Reqs
        BY <1>a, <1>4
      <3> QED
        <4>1. WritesWithin(ran, from, to)
          BY <2>1, Zenon DEF WritesWithin
        <4> QED
          BY <3>1, <4>1, ComputedOK
    <2>3. PICK kv \in [0 .. DBlocks - 1 -> KVs] : h = [dec[d] EXCEPT !.kv = kv]
      BY <1>h, <2>2
    <2>4. dec[d] \in EngineType(DBlocks)
      BY <1>2 DEF DecodeFacts
    <2> QED
      BY <1>h, <2>2, <2>3, <2>4 DEF EngineType
  <1>14. EngineOK(g, DBlocks) /\ Left(g, h, Range(over)) /\ g \in EngineType(DBlocks)
    <2>1. EngineOK(g, DBlocks) /\ Left(g, h, Range(over))
      BY <1>a, <1>g, <1>11, <1>13, DroppedNOK
    <2> QED
      BY <2>1 DEF EngineOK
  <1>15. /\ g.wait = dec[d].wait /\ Range(g.run) = Range(dec[d].run) \ Range(over) /\ IsInjective(g.run)
         /\ \A q \in Reqs : g.blk[q] = IF q \in Range(over) THEN <<>> ELSE dec[d].blk[q]
    BY <1>2, <1>13, <1>14 DEF Left, DecodeFacts
  <1>16. /\ f \in EngineType(DBlocks) /\ f.pool = g.pool /\ f.blk = g.blk /\ f.hash = g.hash
         /\ f.run = g.run /\ f.wait = g.wait
    <2>1. PICK b : b = (over # <<>>)
      OBVIOUS
    <2>2. b \in BOOLEAN
      BY <2>1
    <2>3. f = [g EXCEPT !.fin = b, !.batch = ran]
      BY <1>f, <2>1
    <2> QED
      BY <1>4, <1>14, <2>2, <2>3 DEF EngineType
  <1>17. EngineOK(f, DBlocks)
    BY <1>a, <1>14, <1>16, SameBlocks
  <1>18. /\ dec' \in [Decoders -> EngineType(DBlocks)] /\ dec'[d] = f
         /\ \A c \in Decoders : c # d => dec'[c] = dec[c]
    BY <1>2, <1>e, <1>16 DEF DecodeFacts
  <1>19. /\ dstep' \in [Decoders -> DSteps] /\ dstep'[d].pc = "top" /\ dstep'[d].num = [r \in Reqs |-> 0]
         /\ \A c \in Decoders : c # d => dstep'[c] = dstep[c]
    <2>1. [r \in Reqs |-> 0] \in [Reqs -> Nat]
      OBVIOUS
    <2>2. DIdle \in DSteps /\ DIdle.pc = "top" /\ DIdle.num = [r \in Reqs |-> 0]
      BY <2>1 DEF DIdle, DSteps
    <2>3. dstep \in [Decoders -> DSteps]
      BY <1>2 DEF DecodeFacts
    <2> QED
      BY <1>w, <2>2, <2>3
  <1>20. DecodeTyped(d)
    BY <1>w, <1>2, <1>10, <1>15, <1>16, <1>17, <1>18, <1>19 DEF DecodeTyped, DecodeFacts
  <1>21. \A q \in Reqs : q \notin Range(dec[d].run) =>
           obj'[q] = obj[q] /\ sent'[q] = sent[q]
    BY <1>4, <1>8 DEF Advanced
  <1>22. DecodeOwn(d)
    BY <1>5, <1>21 DEF DecodeOwn
  <1>23. DecodingAt(d)'
    <2>1. ASSUME NEW q \in Reqs, q \in Range(g.run)
          PROVE  DecodeOne(d, q)'
      <3>1. q \in Range(dec[d].run) /\ q \notin Range(over)
        BY <1>15, <2>1
      <3>2. obj'[q].comp = to[q]
        <4>1. CASE q \in ran
          BY <4>1, <1>8 DEF Advanced
        <4>2. CASE q \notin ran
          <5>1. ~(dstep[d].num[q] > 0)
            BY <1>r, <3>1, <4>2
          <5>2. dstep[d].num[q] = 0 /\ obj'[q] = obj[q]
            BY <5>1, <1>6, <1>8, <4>2 DEF Advanced
          <5> QED
            BY <5>2, <1>6
        <4> QED
          BY <4>1, <4>2
      <3>3. obj'[q].comp + dstep'[d].num[q] = to[q]
        BY <3>2, <1>6, <1>19
      <3>4. to[q] <= NumTokens(q)'
        <4>1. /\ to[q] \in Nat /\ NumTokens(q) \in Nat /\ to[q] <= NumTokens(q)
              /\ NumTokens(q)' = IF q \in last THEN NumTokens(q) + 1 ELSE NumTokens(q)
          BY <3>1, <1>6, <1>7, <1>9
        <4> QED
          BY <4>1
      <3>5. dec'[d].blk[q] = dec[d].blk[q] /\ Len(dec[d].blk[q]) = BlocksFor(to[q])
        BY <3>1, <1>7, <1>15, <1>16, <1>18
      <3> QED
        BY <3>3, <3>4, <3>5 DEF DecodeOne
    <2>2. \A i \in DOMAIN g.run : g.run[i] \in Reqs
      <3>1. g.run \in Seq(Reqs)
        BY <1>a, <1>14, EngineFields
      <3> QED
        BY <3>1
    <2>3. \A q \in Reqs : q \notin Range(g.run) => g.blk[q] = <<>>
      BY <1>2, <1>15 DEF DecodeFacts, DecodingAt
    <2> QED
      BY <1>16, <1>18, <1>19, <2>1, <2>2, <2>3 DEF DecodingAt
  <1>24. Tracked'
    <2> SUFFICES ASSUME NEW q \in Reqs
                 PROVE  \E hm \in Homes : \E en \in Decoders : TrackedAt(hm, en, q)'
      BY DEF Tracked
    <2>q. Quiet
      BY <1>w DEF Quiet
    <2>r. \A c \in Decoders : /\ q \in Range(dec'[c].run) => q \in Range(dec[c].run) /\ (c = d => q \notin Range(over))
                              /\ q \in Range(dec'[c].wait) => q \in Range(dec[c].wait)
      BY <1>15, <1>16, <1>18
    <2>1. CASE q \notin Range(dec[d].run)
      <3>1. obj'[q] = obj[q] /\ sent'[q] = sent[q]
        BY <1>21, <2>1
      <3>2. Unmoved(q)
        BY <1>w, <2>r, <3>1 DEF Unmoved, InTq, InHand, InDq
      <3>3. PICK hm \in Homes : \E en \in Decoders : TrackedAt(hm, en, q)
        BY <1>1 DEF Tracked
      <3>4. PICK en \in Decoders : TrackedAt(hm, en, q)
        BY <3>3
      <3>5. TrackedAt(hm, en, q)'
        BY <2>q, <3>2, <3>4, UnmovedTracked
      <3> QED
        BY <3>5
    <2>2. CASE q \in Range(dec[d].run)
      <3>1. PICK hm : hm = IF q \in Range(over) THEN "gone" ELSE "drun"
        OBVIOUS
      <3>2. /\ ~Sampled(q)' /\ ~InTq(q)' /\ ~InHand(q)' /\ \A c \in Decoders : ~InDq(c, q)'
            /\ q \notin Range(pre'.run) /\ q \notin Range(pre'.wait) /\ obj'[q].st # "away"
        <4>1. ~Sampled(q)' /\ ~InTq(q)' /\ ~InHand(q)' /\ \A c \in Decoders : ~InDq(c, q)'
          BY <1>w, <1>5, <2>2 DEF Sampled, InTq, InHand, InDq
        <4>2. obj'[q].st # "away"
          BY <1>5, <1>8, <2>2 DEF Advanced
        <4> QED
          BY <1>w, <1>5, <2>2, <4>1, <4>2
      <3>3. \A c \in Decoders : /\ q \in Range(dec'[c].run) => hm = "drun" /\ c = d
                                /\ q \notin Range(dec'[c].wait)
        BY <1>5, <2>2, <2>r, <3>1
      <3>4. LocatedAt(hm, d, q)'
        BY <3>2, <3>3 DEF LocatedAt
      <3>5. ProgressAt(hm, q)'
        <4>1. hm = "drun" => NumTokens(q)' <= TotalLen[q]
          BY <1>12, <2>2, <3>1
        <4>2. hm \notin {"away", "wait", "run"} /\ hm \notin {"tq", "hand", "dq"}
          BY <3>1
        <4>3. obj'[q].ok
          BY <1>5, <1>8, <2>2 DEF Advanced
        <4>4. /\ obj'[q].out # <<>> /\ sent'[q] = obj'[q].out
              /\ \A i \in DOMAIN sent'[q] : sent'[q][i] = i
          BY <1>9, <2>2
        <4>5. hm # "dwait"
          BY <3>1
        <4> QED
          BY <4>1, <4>2, <4>3, <4>4, <4>5 DEF ProgressAt
      <3>6. LeavingAt(hm, q)'
        BY <3>2 DEF LeavingAt
      <3>7. hm \in Homes
        BY <3>1 DEF Homes
      <3> QED
        BY <3>4, <3>5, <3>6, <3>7 DEF TrackedAt
    <2> QED
      BY <2>1, <2>2
  <1> QED
    BY <1>w, <1>2, <1>20, <1>22, <1>23, <1>24, DecodeFrame DEF DecodeFacts

\* A step that changes nothing.
LEMMA StutterStep ==
    ASSUME Inv, UNCHANGED vars
    PROVE  Inv'
  <1>1. Typed' /\ Once' /\ Carried' /\ Stepping'
    <2>1. Typed /\ Once /\ Carried /\ Stepping
      BY DEF Inv
    <2> QED
      BY <2>1 DEF vars, Typed, Once, Carried, Stepping
  <1>2. Prefilling' /\ Decoding' /\ Tracked'
    <2>1. Prefilling /\ Decoding /\ Tracked
      BY DEF Inv
    <2>2. UNCHANGED <<obj, known, adding, pre, pstep, tq, hand, dq, dec, dstep, sent, done, lost, killed>>
      BY DEF vars
    <2>3. Prefilling'
      BY <2>1, <2>2 DEF Prefilling, PrefillOne, Reach, Short, Sampled
    <2>4. Decoding'
      BY <2>1, <2>2 DEF Decoding, DecodingAt, DecodeOne, NumTokens
    <2>5. Tracked'
      BY <2>1, <2>2 DEF Tracked, TrackedAt, LocatedAt, ProgressAt, LeavingAt, Sampled, Putting,
                        InTq, InHand, InDq, NumTokens
    <2> QED
      BY <2>3, <2>4, <2>5
  <1> QED
    BY <1>1, <1>2 DEF Inv

-----------------------------------------------------------------------------
(* The engines under add_request's promise: no request overtakes its own    *)
(* entry in _requests                                                       *)

\* Every step of the client, of the prefill thread, of the transfer thread
\* and of every decode thread keeps the invariant.
LEMMA InvNext ==
    ASSUME Inv, ~Overtake, [Next]_vars
    PROVE  Inv'
  <1>1. CASE \E r \in Reqs : AddRequest(r)
    BY <1>1, AddRequestStep
  <1>2. CASE TrackRequest
    BY <1>2, TrackRequestStep
  <1>3. CASE Prefill
    <2>1. PBegin => Inv'
      BY PBeginStep
    <2>2. PContinue => Inv'
      BY PContinueStep
    <2>3. PAdmit => Inv'
      BY PAdmitStep
    <2>4. PExecute => Inv'
      BY PExecuteStep
    <2>5. PGather => Inv'
      BY PGatherStep
    <2>6. PPut => Inv'
      BY PPutStep
    <2>7. PUpdate => Inv'
      BY PUpdateStep
    <2>8. PRemove => Inv'
      BY PRemoveStep
    <2>9. POutput => Inv'
      BY POutputStep
    <2> QED
      BY <1>3, <2>1, <2>2, <2>3, <2>4, <2>5, <2>6, <2>7, <2>8, <2>9 DEF Prefill
  <1>4. CASE Transfer
    BY <1>4, TGetStep, TPushStep DEF Transfer
  <1>5. CASE \E d \in Decoders : Decode(d)
    <2>1. PICK d \in Decoders : Decode(d)
      BY <1>5
    <2>2. DBegin(d) => Inv'
      BY DBeginStep
    <2>3. DLose(d) => Inv'
      BY DLoseStep
    <2>4. DInsert(d) => Inv'
      BY DInsertStep
    <2>5. DTakeNoMore(d) => Inv'
      BY DTakeNoMoreStep
    <2>6. DRunNext(d) => Inv'
      BY DRunNextStep
    <2>7. DResume(d) => Inv'
      BY DResumeStep
    <2>8. DExecute(d) => Inv'
      BY DExecuteStep
    <2> QED
      BY <2>1, <2>2, <2>3, <2>4, <2>5, <2>6, <2>7, <2>8 DEF Decode
  <1>6. CASE UNCHANGED vars
    BY <1>6, StutterStep
  <1> QED
    BY <1>1, <1>2, <1>3, <1>4, <1>5, <1>6 DEF Next

\* Whatever the threads do in whatever order, a request is in one queue, no
\* queue holds it twice, its blocks are the ones of the tokens computed, and
\* what a queue carries is the KV of its whole prompt.
THEOREM DisaggInvariant ==
    ASSUME ~Overtake
    PROVE  Spec => []Inv
  <1>1. Init => Inv
    BY InvInit
  <1>2. Inv /\ [Next]_vars => Inv'
    BY InvNext
  <1> QED
    BY <1>1, <1>2, PTL DEF Spec

\* The free intervals of the prefill and of every decode KV cache are the
\* maximal runs of the blocks that allocate, touch, popleft_n and free_blocks
\* have left free.
THEOREM IntervalsCorrect ==
    ASSUME ~Overtake
    PROVE  Spec => []IntervalsExact
  <1>1. Inv => IntervalsExact
    <2> SUFFICES ASSUME Inv, NEW e \in Engines
                 PROVE  IntervalsOf(e.pool)
      BY DEF IntervalsExact
    <2>1. QueueOK(pre.pool) /\ \A d \in Decoders : QueueOK(dec[d].pool)
      BY DEF Inv, Typed, EngineOK
    <2>2. QueueOK(e.pool)
      BY <2>1 DEF Engines
    <2> QED
      BY <2>2, QueueIntervals
  <1> QED
    BY <1>1, DisaggInvariant, PTL

\* Every block of every engine is either free or in the table of a request,
\* never both, and the null block is in neither.
THEOREM BlocksCorrect ==
    ASSUME ~Overtake
    PROVE  Spec => []BlocksAccounted
  <1>1. Inv => BlocksAccounted
    <2> SUFFICES ASSUME Inv, NEW e \in Engines
                 PROVE  /\ 0 \notin e.pool.free /\ \A r \in Reqs : 0 \notin Range(e.blk[r])
                        /\ e.pool.free = (1 .. e.size - 1) \ UNION {Range(e.blk[r]) : r \in Reqs}
      BY DEF BlocksAccounted
    <2>1. PICK size \in {PBlocks, DBlocks} : EngineOK(e, size)
      BY DEF Inv, Typed, Engines
    <2>2. e.size = size /\ e.pool.free = (1 .. size - 1) \ Held(e)
          /\ \A r \in Reqs : e.blk[r] \in Seq(1 .. size - 1)
      BY <2>1 DEF EngineOK, EngineType
    <2>3. ASSUME NEW r \in Reqs
          PROVE  0 \notin Range(e.blk[r])
      <3>1. PICK S : S = 1 .. size - 1
        OBVIOUS
      <3>2. e.blk[r] \in Seq(S)
        BY <2>2, <3>1
      <3>3. Range(e.blk[r]) \subseteq S
        BY <3>2 DEF Range
      <3> QED
        BY <3>1, <3>3
    <2>4. size \in Nat
      BY DisaggAssumption
    <2>5. 0 \notin e.pool.free
      BY <2>2, <2>4
    <2> QED
      BY <2>2, <2>3, <2>5 DEF Held
  <1> QED
    BY <1>1, DisaggInvariant, PTL

\* A client gets the tokens of its request in order, each once, although
\* the request changes engines while both threads hold its Request object.
THEOREM OutputsCorrect ==
    ASSUME ~Overtake
    PROVE  Spec => []OutputsExact
  <1>1. Inv => OutputsExact
    BY DEF Inv, Tracked, TrackedAt, ProgressAt, OutputsExact
  <1> QED
    BY <1>1, DisaggInvariant, PTL

\* No thread of _prefill, _transfer or _decode raises: a request is in
\* _requests whenever one of them looks it up.
THEOREM NoThreadRaises ==
    ASSUME ~Overtake
    PROVE  Spec => []NeverKilled
  <1>1. Inv => NeverKilled
    BY DEF Inv, Typed, NeverKilled
  <1> QED
    BY <1>1, DisaggInvariant, PTL

=============================================================================
