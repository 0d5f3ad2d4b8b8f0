------------------------------- MODULE Lemmas -------------------------------
(***************************************************************************)
(* What the proofs of several components cite: division by a positive      *)
(* divisor, for the caches that are addressed modulo their size; and the   *)
(* queues, what is left of one and why no request is in one twice.         *)
(***************************************************************************)
EXTENDS Filtering, FiniteSetTheorems, SequenceTheorems, WellFoundedInduction, TLAPS

-----------------------------------------------------------------------------
(* Division *)


\* Euclidean division: quotient and remainder of a natural number.
LEMMA DivMod ==
    ASSUME NEW n \in Nat, NEW d \in Nat \ {0}
    PROVE  /\ n \div d \in Nat
           /\ n % d \in 0 .. d - 1
           /\ n = d * (n \div d) + (n % d)
  BY Z3

\* A positive multiple of d is at least d.
LEMMA MultipleBound ==
    ASSUME NEW k \in Int, NEW d \in Nat \ {0}, d * k > 0
    PROVE  d * k >= d
  <1>1. CASE k >= 1
    BY <1>1, Z3
  <1>2. CASE k <= 0
    BY <1>2, Z3
  <1> QED
    BY <1>1, <1>2

\* Quotient and remainder are unique.
LEMMA DivModUnique ==
    ASSUME NEW n \in Nat, NEW d \in Nat \ {0}, NEW q \in Nat,
           NEW r \in 0 .. d - 1, n = d * q + r
    PROVE  n \div d = q /\ n % d = r
  <1>1. /\ n \div d \in Nat /\ n % d \in 0 .. d - 1
        /\ n = d * (n \div d) + (n % d)
    BY DivMod
  <1>2. d * (q - (n \div d)) = (n % d) - r
    BY <1>1, Z3
  <1>3. q - (n \div d) = 0
    <2>1. CASE q - (n \div d) >= 1
      <3>1. d * (q - (n \div d)) >= d
        BY <2>1, <1>1, Z3
      <3> QED
        BY <3>1, <1>1, <1>2, Z3
    <2>2. CASE (n \div d) - q >= 1
      <3>1. d * ((n \div d) - q) >= d
        BY <2>2, <1>1, Z3
      <3>2. d * ((n \div d) - q) = r - (n % d)
        BY <1>1, Z3
      <3> QED
        BY <3>1, <3>2, <1>1, Z3
    <2> QED
      BY <2>1, <2>2, <1>1, Z3
  <1> QED
    BY <1>1, <1>3, Z3

\* Two numbers less than d apart have different remainders.
LEMMA ModDistinct ==
    ASSUME NEW d \in Nat \ {0}, NEW p \in Nat, NEW q \in Nat, p < q, q < p + d
    PROVE  p % d # q % d
  <1>1. /\ p \div d \in Nat /\ p % d \in 0 .. d - 1
        /\ p = d * (p \div d) + (p % d)
    BY DivMod
  <1>2. /\ q \div d \in Nat /\ q % d \in 0 .. d - 1
        /\ q = d * (q \div d) + (q % d)
    BY DivMod
  <1>3. SUFFICES ASSUME p % d = q % d
                 PROVE  FALSE
    OBVIOUS
  <1> DEFINE k == (q \div d) - (p \div d)
  <1>4. q - p = d * k
    BY <1>1, <1>2, <1>3, Z3
  <1>5. d * k >= d
    <2>1. k \in Int /\ d * k > 0
      BY <1>1, <1>2, <1>4
    <2> HIDE DEF k
    <2> QED
      BY <2>1, MultipleBound
  <1> QED
    BY <1>4, <1>5

\* A summand may be replaced by its remainder.
LEMMA ModShift ==
    ASSUME NEW d \in Nat \ {0}, NEW a \in Nat, NEW b \in Nat
    PROVE  ((a % d) + b) % d = (a + b) % d
  <1>1. /\ a \div d \in Nat /\ a % d \in 0 .. d - 1
        /\ a = d * (a \div d) + (a % d)
    BY DivMod
  <1> DEFINE c == (a % d) + b
  <1>2. c \in Nat
    BY <1>1
  <1>3. /\ c \div d \in Nat /\ c % d \in 0 .. d - 1
        /\ c = d * (c \div d) + (c % d)
    BY <1>2, DivMod
  <1>4. a + b = d * ((a \div d) + (c \div d)) + (c % d)
    <2>1. a + b = d * (a \div d) + c
      BY <1>1
    <2>2. d * ((a \div d) + (c \div d)) = d * (a \div d) + d * (c \div d)
      BY <1>1, <1>3, Z3
    <2> HIDE DEF c
    <2> QED
      BY <2>1, <2>2, <1>1, <1>2, <1>3, Z3
  <1>5. (a + b) % d = c % d
    <2>1. (a \div d) + (c \div d) \in Nat /\ a + b \in Nat
      BY <1>1, <1>3
    <2> HIDE DEF c
    <2> QED
      BY <2>1, <1>3, <1>4, DivModUnique, ZenonT(60)
  <1> QED
    BY <1>5

\* A number below d is its own remainder.
LEMMA ModSmall ==
    ASSUME NEW d \in Nat \ {0}, NEW a \in 0 .. d - 1
    PROVE  a % d = a /\ a \div d = 0
  BY DivModUnique, a = d * 0 + a

\* Adding d itself changes no remainder.
LEMMA ModAddSelf ==
    ASSUME NEW d \in Nat \ {0}, NEW a \in Nat
    PROVE  (a + d) % d = a % d
  <1>1. /\ a \div d \in Nat /\ a % d \in 0 .. d - 1
        /\ a = d * (a \div d) + (a % d)
    BY DivMod
  <1>2. a + d = d * ((a \div d) + 1) + (a % d)
    BY <1>1, Z3
  <1>3. a + d \in Nat /\ (a \div d) + 1 \in Nat
    BY <1>1
  <1> QED
    BY <1>1, <1>2, <1>3, DivModUnique

\* Counting up by one either stays in the block or opens the next.
LEMMA DivModSucc ==
    ASSUME NEW d \in Nat \ {0}, NEW a \in Nat
    PROVE  /\ a % d = d - 1 => /\ (a + 1) \div d = (a \div d) + 1
                               /\ (a + 1) % d = 0
           /\ a % d # d - 1 => /\ (a + 1) \div d = a \div d
                               /\ (a + 1) % d = (a % d) + 1
  <1>1. /\ a \div d \in Nat /\ a % d \in 0 .. d - 1
        /\ a = d * (a \div d) + (a % d)
    BY DivMod
  <1>2. CASE a % d = d - 1
    <2>1. a + 1 = d * ((a \div d) + 1) + 0
      BY <1>1, <1>2, Z3
    <2>2. a + 1 \in Nat /\ (a \div d) + 1 \in Nat /\ 0 \in 0 .. d - 1
      BY <1>1
    <2>3. (a + 1) \div d = (a \div d) + 1 /\ (a + 1) % d = 0
      BY <2>1, <2>2, DivModUnique
    <2> QED
      BY <2>3, <1>2
  <1>3. CASE a % d # d - 1
    <2>1. a + 1 = d * (a \div d) + ((a % d) + 1)
      BY <1>1, Z3
    <2>2. a + 1 \in Nat /\ (a % d) + 1 \in 0 .. d - 1
      BY <1>1, <1>3
    <2>3. (a + 1) \div d = a \div d /\ (a + 1) % d = (a % d) + 1
      BY <1>1, <2>1, <2>2, DivModUnique
    <2> QED
      BY <2>3, <1>3
  <1> QED
    BY <1>2, <1>3

\* Division is monotone.
LEMMA DivMonotone ==
    ASSUME NEW d \in Nat \ {0}, NEW a \in Nat, NEW b \in Nat, a <= b
    PROVE  a \div d <= b \div d
  <1>1. /\ a \div d \in Nat /\ a % d \in 0 .. d - 1
        /\ a = d * (a \div d) + (a % d)
    BY DivMod
  <1>2. /\ b \div d \in Nat /\ b % d \in 0 .. d - 1
        /\ b = d * (b \div d) + (b % d)
    BY DivMod
  <1>3. SUFFICES ASSUME (a \div d) - (b \div d) >= 1
                 PROVE  FALSE
    BY <1>1, <1>2
  <1> DEFINE k == (a \div d) - (b \div d)
  <1>4. d * k = a - b - (a % d) + (b % d)
    BY <1>1, <1>2, Z3
  <1>5. d * k >= d
    <2>1. k \in Nat \ {0}
      BY <1>1, <1>2, <1>3
    <2> HIDE DEF k
    <2>2. d * k > 0
      BY <2>1, Z3
    <2> QED
      BY <2>1, <2>2, MultipleBound
  <1> QED
    BY <1>1, <1>2, <1>4, <1>5

-----------------------------------------------------------------------------
(* Queues *)

\* A nonempty set of naturals has a least element: the form in which the
\* proofs below use induction.
LEMMA LeastNat ==
    ASSUME NEW S \in SUBSET Nat, S # {}
    PROVE  \E m \in S : \A n \in S : m <= n
  <1>1. PICK m \in S : \A n \in S : ~(<<n, m>> \in OpToRel(<, Nat))
    BY NatLessThanWellFounded, WFMin
  <1>2. \A n \in S : ~(n < m)
    BY <1>1 DEF OpToRel
  <1> QED
    BY <1>2

\* Going up a range one step at a time.
LEMMA RangeInduction ==
    ASSUME NEW N \in Nat, NEW S, 0 \in S, \A i \in 1 .. N : i - 1 \in S => i \in S
    PROVE  \A i \in 0 .. N : i \in S
  <1> DEFINE L == {i \in 0 .. N : i \notin S}
  <1> SUFFICES ASSUME L # {}
               PROVE  FALSE
    OBVIOUS
  <1>1. L \in SUBSET Nat
    OBVIOUS
  <1>2. PICK m \in L : \A n \in L : m <= n
    BY <1>1, LeastNat
  <1>3. m \in 0 .. N /\ m \notin S /\ m # 0
    BY <1>2
  <1>4. m \in 1 .. N /\ m - 1 \in 0 .. N /\ ~(m <= m - 1)
    BY <1>3
  <1>5. m - 1 \in S
    BY <1>2, <1>4
  <1> QED
    BY <1>3, <1>4, <1>5

\* A nonempty bounded set of naturals has a greatest element.
LEMMA GreatestNat ==
    ASSUME NEW N \in Nat, NEW S \in SUBSET (0 .. N), S # {}
    PROVE  \E m \in S : \A n \in S : n <= m
  <1> DEFINE D == {d \in Nat : N - d \in S}
  <1>1. \A n \in S : n \in Nat /\ n <= N /\ N - n \in Nat /\ N - (N - n) = n
    OBVIOUS
  <1>2. \A n \in S : N - n \in D
    BY <1>1
  <1>3. PICK d \in D : \A e \in D : d <= e
    BY <1>2, LeastNat
  <1>4. N - d \in S /\ \A n \in S : d <= N - n
    BY <1>2, <1>3
  <1>5. \A n \in S : n <= N - d
    BY <1>1, <1>4
  <1> QED
    BY <1>4, <1>5

\* A set of positions is finite.
LEMMA FiniteWithin ==
    ASSUME NEW N \in Nat, NEW K \in SUBSET (1 .. N)
    PROVE  IsFiniteSet(K)
  <1>1. IsFiniteSet(1 .. N)
    BY FS_Interval
  <1> QED
    BY <1>1, FS_Subset

\* The n-th smallest element of a set of positions exists.
LEMMA NthElement ==
    ASSUME NEW N \in Nat, NEW K \in SUBSET (1 .. N), NEW n \in 1 .. Cardinality(K)
    PROVE  \E i \in K : Cardinality({j \in K : j <= i}) = n
  <1> DEFINE Below(m) == {j \in K : j <= m}
             Reach == {m \in Nat : Cardinality(Below(m)) >= n}
  <1>a. \A j \in K : j \in Nat /\ 1 <= j /\ j <= N
    OBVIOUS
  <1>b. IsFiniteSet(K)
    BY FiniteWithin
  <1>c. n \in Nat /\ n > 0 /\ n <= Cardinality(K)
    BY <1>b, FS_CardinalityType
  <1>1. ASSUME NEW m \in Nat
        PROVE  IsFiniteSet(Below(m)) /\ Cardinality(Below(m)) \in Nat
    <2>1. Below(m) \in SUBSET K
      OBVIOUS
    <2> QED
      BY <2>1, <1>b, FS_Subset, FS_CardinalityType
  <1>2. Below(N) = K /\ Below(0) = {}
    <2>1. \A j \in K : j <= N /\ ~(j <= 0)
      BY <1>a
    <2> QED
      BY <2>1, Zenon
  <1>3. ASSUME NEW m \in Nat \ {0}
        PROVE  Below(m) = IF m \in K THEN Below(m - 1) \cup {m} ELSE Below(m - 1)
    <2>1. \A j \in K : j <= m <=> j <= m - 1 \/ j = m
      BY <1>a
    <2> QED
      BY <2>1
  <1>4. ASSUME NEW m \in Nat \ {0}
        PROVE  m \notin Below(m - 1)
    OBVIOUS
  <1> HIDE DEF Below
  <1>5. N \in Reach /\ 0 \notin Reach
    BY <1>2, <1>c, FS_EmptySet
  <1>6. PICK m \in Reach : \A k \in Reach : m <= k
    BY <1>5, LeastNat
  <1>7. m \in Nat \ {0} /\ m - 1 \in Nat /\ m - 1 \notin Reach
    BY <1>5, <1>6
  <1>8. Cardinality(Below(m - 1)) < n /\ Cardinality(Below(m)) >= n
    BY <1>7, <1>1, <1>c
  <1>9. m \in K
    BY <1>8, <1>7, <1>3, <1>1, <1>c
  <1>10. Cardinality(Below(m)) = Cardinality(Below(m - 1)) + 1
    BY <1>9, <1>7, <1>3, <1>4, <1>1, FS_AddElement
  <1>11. Cardinality(Below(m)) = n
    BY <1>10, <1>8, <1>7, <1>1, <1>c
  <1> QED
    BY <1>9, <1>11 DEF Below

\* Its rank grows with the element.
LEMMA NthMonotone ==
    ASSUME NEW N \in Nat, NEW K \in SUBSET (1 .. N), NEW i \in K, NEW j \in K, i < j
    PROVE  Cardinality({k \in K : k <= i}) < Cardinality({k \in K : k <= j})
  <1> DEFINE A == {k \in K : k <= i}
             B == {k \in K : k <= j}
  <1>1. \A k \in K : k \in Nat /\ (k <= i => k <= j)
    OBVIOUS
  <1>2. j <= j /\ ~(j <= i)
    BY <1>1
  <1>3. A \in SUBSET B /\ A # B /\ B \in SUBSET K
    BY <1>1, <1>2, Zenon
  <1> HIDE DEF A, B
  <1>4. IsFiniteSet(B) /\ IsFiniteSet(A)
    BY <1>3, FiniteWithin, FS_Subset
  <1>5. Cardinality(A) <= Cardinality(B) /\ Cardinality(A) # Cardinality(B)
    BY <1>3, <1>4, FS_Subset
  <1>6. Cardinality(A) \in Nat /\ Cardinality(B) \in Nat
    BY <1>4, FS_CardinalityType
  <1> QED
    BY <1>5, <1>6 DEF A, B

\* Where each element of RemoveAll(s, S) comes from: an increasing map onto
\* the kept positions.
LEMMA RemoveAllMap ==
    ASSUME NEW T, NEW s \in Seq(T), NEW S
    PROVE  \E f \in [1 .. Cardinality(Kept(s, S)) -> Kept(s, S)] :
              /\ Cardinality(Kept(s, S)) \in Nat
              /\ RemoveAll(s, S) = [n \in 1 .. Cardinality(Kept(s, S)) |-> s[f[n]]]
              /\ \A m, n \in 1 .. Cardinality(Kept(s, S)) : m < n => f[m] < f[n]
              /\ \A i \in Kept(s, S) : \E n \in 1 .. Cardinality(Kept(s, S)) : f[n] = i
  <1> DEFINE K == Kept(s, S)
             C == Cardinality(K)
             Rank(i) == Cardinality({j \in K : j <= i})
             f == [n \in 1 .. C |-> CHOOSE i \in K : Rank(i) = n]
  <1>1. Len(s) \in Nat /\ K \in SUBSET (1 .. Len(s))
    BY DEF Kept
  <1>2. IsFiniteSet(K) /\ C \in Nat
    BY <1>1, FiniteWithin, FS_CardinalityType
  <1>3. ASSUME NEW n \in 1 .. C
        PROVE  f[n] \in K /\ Rank(f[n]) = n
    <2>1. \E i \in K : Rank(i) = n
      BY <1>1, NthElement
    <2> QED
      BY <2>1
  <1>4. ASSUME NEW i \in K, NEW j \in K, i < j
        PROVE  Rank(i) < Rank(j)
    BY <1>1, <1>4, NthMonotone
  <1>5. ASSUME NEW i \in K
        PROVE  Rank(i) \in 1 .. C
    <2>1. {j \in K : j <= i} \in SUBSET K /\ i \in {j \in K : j <= i}
      BY <1>1
    <2>2. Rank(i) \in Nat /\ Rank(i) <= C /\ Rank(i) # 0
      BY <2>1, <1>2, FS_Subset, FS_CardinalityType, FS_EmptySet
    <2> QED
      BY <2>2
  <1>6. f \in [1 .. C -> K]
    BY <1>3
  <1>7. RemoveAll(s, S) = [n \in 1 .. C |-> s[f[n]]]
    BY DEF RemoveAll
  <1> HIDE DEF Rank, f
  <1>8. ASSUME NEW m \in 1 .. C, NEW n \in 1 .. C, m < n
        PROVE  f[m] < f[n]
    <2>1. f[m] \in K /\ f[n] \in K /\ f[m] \in Nat /\ f[n] \in Nat
      BY <1>3, <1>1
    <2>2. ~(f[n] < f[m]) /\ f[m] # f[n]
      BY <2>1, <1>3, <1>4, <1>8, <1>2
    <2> QED
      BY <2>1, <2>2
  <1>9. ASSUME NEW i \in K
        PROVE  f[Rank(i)] = i
    <2>1. Rank(i) \in 1 .. C
      BY <1>5
    <2>2. f[Rank(i)] \in K /\ Rank(f[Rank(i)]) = Rank(i)
      BY <2>1, <1>3
    <2>3. i \in Nat /\ f[Rank(i)] \in Nat /\ Rank(i) \in Nat
      BY <2>2, <2>1, <1>1, <1>2
    <2> QED
      BY <2>2, <2>3, <1>4
  <1>10. \A i \in K : \E n \in 1 .. C : f[n] = i
    BY <1>9, <1>5
  <1> HIDE DEF K, C
  <1>11. \A m, n \in 1 .. C : m < n => f[m] < f[n]
    BY <1>8
  <1> QED
    BY <1>2, <1>6, <1>7, <1>10, <1>11 DEF C, K

\* What is left of a queue, in the order it had.
LEMMA RemoveAllProperties ==
    ASSUME NEW T, NEW s \in Seq(T), NEW S
    PROVE  /\ RemoveAll(s, S) \in Seq(T)
           /\ Range(RemoveAll(s, S)) = Range(s) \ S
           /\ IsInjective(s) => IsInjective(RemoveAll(s, S))
  <1> DEFINE K == Kept(s, S)
             C == Cardinality(K)
             t == RemoveAll(s, S)
  <1>1. PICK f \in [1 .. C -> K] :
              /\ C \in Nat
              /\ t = [n \in 1 .. C |-> s[f[n]]]
              /\ \A m, n \in 1 .. C : m < n => f[m] < f[n]
              /\ \A i \in K : \E n \in 1 .. C : f[n] = i
    BY RemoveAllMap
  <1>2. K \in SUBSET (1 .. Len(s)) /\ DOMAIN s = 1 .. Len(s) /\ Len(s) \in Nat
        /\ \A i \in DOMAIN s : i \in K <=> s[i] \notin S
    BY DEF Kept
  <1> HIDE DEF K, C, t
  <1>3. DOMAIN t = 1 .. C /\ \A n \in 1 .. C : t[n] = s[f[n]] /\ f[n] \in K /\ f[n] \in DOMAIN s
    BY <1>1, <1>2
  <1>4. t \in Seq(T)
    <2>1. \A n \in 1 .. C : s[f[n]] \in T
      BY <1>3, <1>2
    <2> QED
      BY <2>1, <1>1
  <1>5. Range(t) = Range(s) \ S
    <2>1. ASSUME NEW x \in Range(t)
          PROVE  x \in Range(s) \ S
      <3>1. PICK n \in 1 .. C : x = t[n]
        BY <1>3 DEF Range
      <3>2. x = s[f[n]] /\ f[n] \in DOMAIN s /\ s[f[n]] \notin S
        BY <3>1, <1>2, <1>3
      <3> QED
        BY <3>2 DEF Range
    <2>2. ASSUME NEW x \in Range(s) \ S
          PROVE  x \in Range(t)
      <3>1. PICK i \in DOMAIN s : x = s[i]
        BY DEF Range
      <3>2. i \in K
        BY <3>1, <1>2
      <3>3. PICK n \in 1 .. C : f[n] = i
        BY <3>2, <1>1
      <3> QED
        BY <3>1, <3>3, <1>3 DEF Range
    <2> QED
      BY <2>1, <2>2
  <1>6. IsInjective(s) => IsInjective(t)
    <2> SUFFICES ASSUME IsInjective(s), NEW m \in 1 .. C, NEW n \in 1 .. C, t[m] = t[n]
                 PROVE  m = n
      BY <1>3 DEF IsInjective
    <2>1. f[m] = f[n]
      BY <1>3 DEF IsInjective
    <2>2. m \in Nat /\ n \in Nat
      BY <1>1
    <2>3. f[m] \in Nat
      BY <1>2, <1>3
    <2> QED
      BY <2>1, <2>2, <2>3, <1>1
  <1> QED
    BY <1>4, <1>5, <1>6 DEF t

\* Taking out the last element, when no other is equal to it.
LEMMA RemoveLast ==
    ASSUME NEW T, NEW s \in Seq(T), s # <<>>, IsInjective(s)
    PROVE  RemoveAll(s, {s[Len(s)]}) = [n \in 1 .. Len(s) - 1 |-> s[n]]
  <1> DEFINE N == Len(s)
             K == Kept(s, {s[N]})
  <1>1. N \in Nat \ {0} /\ DOMAIN s = 1 .. N /\ N - 1 \in Nat
    OBVIOUS
  <1>e. K = {i \in DOMAIN s : s[i] \notin {s[N]}}
    BY DEF Kept
  <1> HIDE DEF N, K
  <1>2. \A i \in 1 .. N : s[i] = s[N] => i = N
    <2>1. \A i, j \in DOMAIN s : s[i] = s[j] => i = j
      BY DEF IsInjective
    <2>2. N \in 1 .. N
      BY <1>1
    <2> QED
      BY <1>1, <2>1, <2>2
  <1>3. K = 1 .. N - 1
    BY <1>1, <1>2, <1>e
  <1>4. Cardinality(K) = N - 1
    BY <1>1, <1>3, FS_Interval
  <1>5. \A i \in 1 .. N - 1 : Cardinality({j \in K : j <= i}) = i
    <2> SUFFICES ASSUME NEW i \in 1 .. N - 1
                 PROVE  Cardinality({j \in K : j <= i}) = i
      OBVIOUS
    <2>1. {j \in K : j <= i} = 1 .. i
      BY <1>1, <1>3
    <2>2. Cardinality(1 .. i) = i
      BY FS_Interval
    <2> QED
      BY <2>1, <2>2
  <1>6. RemoveAll(s, {s[N]}) =
          [n \in 1 .. Cardinality(K) |-> s[CHOOSE i \in K : Cardinality({j \in K : j <= i}) = n]]
    BY DEF RemoveAll, K
  <1>7. \A n \in 1 .. N - 1 : (CHOOSE i \in K : Cardinality({j \in K : j <= i}) = n) = n
    BY <1>3, <1>5
  <1> QED
    BY <1>4, <1>6, <1>7 DEF N

\* A queue that no request is in twice: at its end,
LEMMA InjectiveAppend ==
    ASSUME NEW T, NEW s \in Seq(T), NEW x \in T, x \notin Range(s)
    PROVE  /\ Append(s, x) \in Seq(T)
           /\ Range(Append(s, x)) = Range(s) \cup {x}
           /\ IsInjective(s) => IsInjective(Append(s, x))
  <1> DEFINE t == Append(s, x)
  <1>1. /\ t \in Seq(T) /\ Len(s) \in Nat /\ Len(t) = Len(s) + 1
        /\ DOMAIN t = 1 .. Len(s) + 1 /\ DOMAIN s = 1 .. Len(s)
        /\ t[Len(s) + 1] = x /\ \A i \in 1 .. Len(s) : t[i] = s[i]
    BY AppendProperties
  <1> HIDE DEF t
  <1>2. \A i \in DOMAIN t : i \in DOMAIN s \/ i = Len(s) + 1
    BY <1>1
  <1>3. Range(t) = Range(s) \cup {x}
    BY <1>1, <1>2 DEF Range
  <1>4. IsInjective(s) => IsInjective(t)
    BY <1>1, <1>2 DEF IsInjective, Range
  <1> QED
    BY <1>1, <1>3, <1>4 DEF t

\* at its head,
LEMMA InjectiveCons ==
    ASSUME NEW T, NEW s \in Seq(T), NEW x \in T, x \notin Range(s)
    PROVE  /\ <<x>> \o s \in Seq(T)
           /\ Range(<<x>> \o s) = Range(s) \cup {x}
           /\ IsInjective(s) => IsInjective(<<x>> \o s)
  <1> DEFINE t == <<x>> \o s
  <1>1. /\ t \in Seq(T) /\ Len(s) \in Nat /\ Len(t) = Len(s) + 1
        /\ DOMAIN t = 1 .. Len(s) + 1 /\ DOMAIN s = 1 .. Len(s)
        /\ t[1] = x /\ \A i \in 1 .. Len(s) : t[i + 1] = s[i]
    OBVIOUS
  <1> HIDE DEF t
  <1>2. \A i \in DOMAIN t : i = 1 \/ (i - 1 \in DOMAIN s /\ t[i] = s[i - 1])
    BY <1>1
  <1>3. \A i \in DOMAIN s : i + 1 \in DOMAIN t
    BY <1>1
  <1>4. Range(t) = Range(s) \cup {x}
    BY <1>1, <1>2, <1>3 DEF Range
  <1>5. IsInjective(s) => IsInjective(t)
    <2> SUFFICES ASSUME IsInjective(s), NEW i \in DOMAIN t, NEW j \in DOMAIN t, t[i] = t[j]
                 PROVE  i = j
      BY DEF IsInjective
    <2>1. i \in Int /\ j \in Int
      BY <1>1
    <2>2. CASE i = 1 \/ j = 1
      BY <2>2, <1>1, <1>2 DEF Range
    <2>3. CASE i # 1 /\ j # 1
      <3>1. i - 1 = j - 1
        BY <2>3, <1>2 DEF IsInjective
      <3> QED
        BY <3>1, <2>1
    <2> QED
      BY <2>2, <2>3
  <1> QED
    BY <1>1, <1>4, <1>5 DEF t

\* and after its head has left.
LEMMA InjectiveTail ==
    ASSUME NEW T, NEW s \in Seq(T), s # <<>>
    PROVE  /\ Head(s) \in T /\ Head(s) \in Range(s) /\ Tail(s) \in Seq(T)
           /\ Range(Tail(s)) \subseteq Range(s)
           /\ IsInjective(s) => /\ IsInjective(Tail(s))
                                /\ Range(Tail(s)) = Range(s) \ {Head(s)}
  <1> DEFINE t == Tail(s)
  <1>1. /\ t \in Seq(T) /\ Len(s) \in Nat \ {0} /\ Len(t) = Len(s) - 1
        /\ DOMAIN t = 1 .. Len(s) - 1 /\ DOMAIN s = 1 .. Len(s)
        /\ Head(s) = s[1] /\ \A i \in 1 .. Len(s) - 1 : t[i] = s[i + 1]
    OBVIOUS
  <1>2. Head(s) \in T /\ Head(s) \in Range(s)
    BY <1>1 DEF Range
  <1> HIDE DEF t
  <1>3. \A i \in DOMAIN t : i + 1 \in DOMAIN s /\ i + 1 # 1 /\ t[i] = s[i + 1]
    BY <1>1
  <1>4. \A i \in DOMAIN s : i = 1 \/ (i - 1 \in DOMAIN t /\ t[i - 1] = s[i])
    BY <1>1
  <1>5. Range(t) \subseteq Range(s)
    BY <1>3 DEF Range
  <1>6. ASSUME IsInjective(s)
        PROVE  IsInjective(t) /\ Range(t) = Range(s) \ {Head(s)}
    <2>1. 1 \in DOMAIN s
      BY <1>1
    <2>2. \A i \in DOMAIN t : t[i] # Head(s)
      BY <1>1, <1>3, <1>6, <2>1 DEF IsInjective
    <2>3. Range(t) = Range(s) \ {Head(s)}
      <3>1. \A i \in DOMAIN s : s[i] = Head(s) \/ s[i] \in Range(t)
        BY <1>1, <1>4 DEF Range
      <3>2. Range(s) \ {Head(s)} \subseteq Range(t)
        BY <3>1 DEF Range
      <3>3. Head(s) \notin Range(t)
        BY <2>2 DEF Range
      <3> QED
        BY <3>2, <3>3, <1>5
    <2>4. \A i, j \in DOMAIN t : t[i] = t[j] => i + 1 = j + 1
      BY <1>3, <1>6 DEF IsInjective
    <2>5. \A i, j \in DOMAIN t : t[i] = t[j] => i = j
      BY <2>4, <1>1
    <2> QED
      BY <2>3, <2>5 DEF IsInjective
  <1> QED
    BY <1>1, <1>2, <1>5, <1>6 DEF t

\* A queue is cut in two: what is admitted, and what is left of it.
LEMMA SplitQueue ==
    ASSUME NEW T, NEW s \in Seq(T), IsInjective(s), NEW n \in 0 .. Len(s)
    PROVE  /\ Range(SubSeq(s, 1, n)) \subseteq Range(s)
           /\ SubSeq(s, n + 1, Len(s)) \in Seq(T)
           /\ IsInjective(SubSeq(s, n + 1, Len(s)))
           /\ Range(SubSeq(s, n + 1, Len(s))) = Range(s) \ Range(SubSeq(s, 1, n))
  <1> DEFINE a == SubSeq(s, 1, n)
             b == SubSeq(s, n + 1, Len(s))
  <1>1. /\ Len(s) \in Nat /\ DOMAIN s = 1 .. Len(s) /\ n \in Nat /\ n <= Len(s)
        /\ DOMAIN a = 1 .. n /\ \A i \in 1 .. n : a[i] = s[i]
    OBVIOUS
  <1>2. /\ b \in Seq(T) /\ DOMAIN b = 1 .. Len(s) - n
        /\ \A i \in 1 .. Len(s) - n : b[i] = s[n + i]
    OBVIOUS
  <1> HIDE DEF a, b
  <1>3. Range(a) \subseteq Range(s)
    BY <1>1 DEF Range
  <1>4. \A i \in DOMAIN b : n + i \in DOMAIN s /\ n + i \notin 1 .. n /\ b[i] = s[n + i]
    <2>1. \A i \in 1 .. Len(s) - n : n + i \in 1 .. Len(s) /\ n + i \notin 1 .. n
      BY <1>1
    <2> QED
      BY <2>1, <1>1, <1>2
  <1>5. \A i \in DOMAIN s : i \in DOMAIN a \/ (i - n \in DOMAIN b /\ b[i - n] = s[i])
    <2>1. ASSUME NEW i \in DOMAIN s, i \notin DOMAIN a
          PROVE  i - n \in DOMAIN b /\ b[i - n] = s[i]
      <3>1. i \in Int /\ i - n \in 1 .. Len(s) - n /\ n + (i - n) = i
        BY <2>1, <1>1
      <3> QED
        BY <3>1, <1>2
    <2> QED
      BY <2>1
  <1>6. IsInjective(b)
    <2>1. \A i, j \in DOMAIN b : b[i] = b[j] => n + i = n + j
      BY <1>4 DEF IsInjective
    <2>2. \A i, j \in DOMAIN b : b[i] = b[j] => i = j
      BY <2>1, <1>1, <1>2
    <2> QED
      BY <2>2 DEF IsInjective
  <1>7. Range(b) \subseteq Range(s)
    BY <1>4 DEF Range
  <1>8. \A i \in DOMAIN b, j \in DOMAIN a : b[i] # a[j]
    <2>1. \A j \in DOMAIN a : j \in DOMAIN s /\ a[j] = s[j] /\ j \in 1 .. n
      BY <1>1
    <2> QED
      BY <2>1, <1>4 DEF IsInjective
  <1>9. \A i \in DOMAIN s : s[i] \in Range(a) \/ s[i] \in Range(b)
    BY <1>1, <1>5 DEF Range
  <1>10. Range(s) \subseteq Range(a) \cup Range(b)
    BY <1>9 DEF Range
  <1>11. Range(a) \cap Range(b) = {}
    BY <1>8 DEF Range
  <1> QED
    BY <1>2, <1>3, <1>6, <1>7, <1>10, <1>11 DEF a, b
=============================================================================
