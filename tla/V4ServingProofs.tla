--------------------------- MODULE V4ServingProofs ---------------------------
(***************************************************************************)
(* One rank whose token budget covers the longest request: every token is  *)
(* sampled from the request's own tokens, and the engine drives the packed *)
(* state as V4Context says.  With more ranks, or with a prompt that is cut *)
(* into chunks, neither is true (section 4 of the README).                  *)
(***************************************************************************)
EXTENDS V4Serving, Lemmas

\* The configuration of the theorems: total_dp_size is 1 and no prompt is
\* chunked, as where V4 is served so far (scripts/full_slice_v4_smoke.sh with
\* max_model_len 256, max_num_batched_tokens 256 in HANDOFF_PERF.md).
OneRank == DpSize = 1 /\ MaxBatchedTokens >= MaxModelLen

Types ==
    /\ status \in [Reqs -> {"new", "live", "done"}]
    /\ waiting \in [Ranks -> Seq(Reqs)]
    /\ running \in [Ranks -> Reqs \cup {NoReq}]
    /\ tokens \in [Reqs -> 0 .. MaxModelLen]
    /\ computed \in [Reqs -> 0 .. MaxModelLen]

\* A live request waits once with nothing computed, or runs.
Placed ==
    /\ IsInjective(waiting[0])
    /\ \A r \in Range(waiting[0]) : status[r] = "live" /\ computed[r] = 0 /\ r # running[0]
    /\ running[0] # NoReq => status[running[0]] = "live"
    /\ \A r \in Reqs : /\ status[r] = "live" => tokens[r] > 0
                       /\ status[r] = "new" => computed[r] = 0

\* All tokens of the running request but the last are computed, the state
\* stands for them, and the last row sampled was the last of them.
StateOwned ==
    LET r == running[0]
    IN r # NoReq => /\ computed[r] > 0
                    /\ tokens[r] = computed[r] + 1
                    /\ state = Own(r, computed[r])
                    /\ \E x \in rows : rows = {x} /\ x.at = computed[r]

ServingInv == Types /\ Placed /\ StateOwned /\ ServedExact

-----------------------------------------------------------------------------
(* The step of the engine *)

\* There is one rank, so every request is sent to it.
LEMMA OneRankFacts ==
    ASSUME OneRank
    PROVE  Ranks = {0} /\ BestRank = 0
  <1>1. Ranks = {0}
    BY DEF OneRank, Ranks
  <1>2. BestRank \in Ranks
    BY <1>1 DEF BestRank
  <1> QED
    BY <1>1, <1>2

\* What the rank schedules: a request that runs or waits, with all its tokens
\* that are not computed.
LEMMA ScheduleExact ==
    ASSUME OneRank, ServingInv, Busy(Schedule) # {}
    PROVE  LET r == Candidate(0)
           IN /\ r \in Reqs
              /\ r = IF running[0] # NoReq THEN running[0] ELSE Head(waiting[0])
              /\ running[0] = NoReq => waiting[0] # <<>> /\ r \in Range(waiting[0])
              /\ tokens[r] \in 1 .. MaxModelLen - 1
              /\ status[r] = "live"
              /\ computed[r] \in 0 .. tokens[r] - 1
              /\ Schedule = [k \in Ranks |-> [req |-> r, q |-> tokens[r] - computed[r],
                                              len |-> tokens[r]]]
              /\ Busy(Schedule) = {0}
              /\ Sampling(Schedule) = {0}
  <1> DEFINE r == Candidate(0)
  <1>1. Ranks = {0} /\ 0 \in Ranks
    BY OneRankFacts
  <1>2. Schedule[0].req # NoReq /\ Schedule[0] = Entry(r)
    BY <1>1 DEF Busy, Schedule
  <1>3. r # NoReq /\ tokens[r] # MaxModelLen
    BY <1>2 DEF Entry, Idle
  <1>4. waiting[0] \in Seq(Reqs) /\ running[0] \in Reqs \cup {NoReq}
    BY <1>1 DEF ServingInv, Types
  <1>5. /\ r = IF running[0] # NoReq THEN running[0] ELSE Head(waiting[0])
        /\ running[0] = NoReq => waiting[0] # <<>>
    BY <1>3 DEF Candidate
  <1>6. r \in Reqs /\ (running[0] = NoReq => r \in Range(waiting[0]))
    BY <1>4, <1>5, InjectiveTail
  <1>7. status[r] = "live"
    BY <1>5, <1>6 DEF ServingInv, Placed
  <1>8. /\ tokens[r] \in 0 .. MaxModelLen /\ computed[r] \in 0 .. MaxModelLen
        /\ tokens[r] > 0 /\ MaxModelLen \in Nat
    BY <1>6, <1>7, ServingAssumption DEF ServingInv, Types, Placed
  <1>9. tokens[r] \in 1 .. MaxModelLen - 1
    BY <1>8, <1>3
  <1>10. computed[r] \in 0 .. tokens[r] - 1
    <2>1. CASE running[0] # NoReq
      BY <2>1, <1>5, <1>8 DEF ServingInv, StateOwned
    <2>2. CASE running[0] = NoReq
      BY <2>2, <1>6, <1>8 DEF ServingInv, Placed
    <2> QED
      BY <2>1, <2>2
  <1> HIDE DEF r
  <1>11. Min({tokens[r] - computed[r], MaxBatchedTokens}) = tokens[r] - computed[r]
    <2> DEFINE a == tokens[r] - computed[r]
               S == {a, MaxBatchedTokens}
    <2>1. a \in Int /\ MaxBatchedTokens \in Int /\ a <= MaxBatchedTokens
      BY <1>8, <1>9, <1>10, ServingAssumption DEF OneRank
    <2> HIDE DEF a
    <2>2. Min(S) \in S /\ \A y \in S : Min(S) <= y
      <3>1. \E x \in S : \A y \in S : x <= y
        BY <2>1
      <3> QED
        BY <3>1 DEF Min
    <2>3. Min(S) = a
      BY <2>1, <2>2
    <2> QED
      BY <2>3 DEF a
  <1>12. Entry(r) = [req |-> r, q |-> tokens[r] - computed[r], len |-> tokens[r]]
    <2>1. computed[r] + (tokens[r] - computed[r]) = tokens[r]
      BY <1>8
    <2> QED
      BY <1>3, <1>11, <2>1 DEF Entry
  <1>13. Schedule = [k \in Ranks |-> Entry(r)]
    BY <1>1 DEF Schedule, r
  <1>14. Schedule[0].req = r /\ Schedule[0].len = tokens[r]
    BY <1>1, <1>12, <1>13
  <1>15. Busy(Schedule) = {0}
    BY <1>1, <1>3, <1>14 DEF Busy
  <1>16. Sampling(Schedule) = {0}
    BY <1>8, <1>14, <1>15 DEF Sampling
  <1> QED
    BY <1>5, <1>6, <1>7, <1>9, <1>10, <1>12, <1>13, <1>15, <1>16 DEF r

\* A prefill reads the request's own tokens from its first row on.
LEMMA InputIdsOwn ==
    ASSUME NEW r \in Reqs, NEW b, NEW P \in Nat \ {0}, NEW m \in 0 .. P,
           b[0].req = r, b[0].q \in Nat, b[0].len = b[0].q, m <= b[0].q
    PROVE  InputIds(b, P, m) = Own(r, m)
  <1>1. ASSUME NEW i \in 1 .. m
        PROVE  InputId(b, P, i) = Token(r, i)
    <2>1. (i - 1) \div P = 0 /\ (i - 1) % P = i - 1
      <3>1. i - 1 \in Nat /\ i - 1 \in 0 .. P - 1 /\ i - 1 = P * 0 + (i - 1)
        OBVIOUS
      <3> QED
        BY <3>1, DivModUnique
    <2>2. r # NoReq
      BY ServingAssumption
    <2>3. ((i - 1) % P) + 1 = i /\ i <= b[0].q /\ b[0].len - b[0].q + i = i
      BY <2>1
    <2> QED
      BY <2>1, <2>2, <2>3 DEF InputId
  <1> QED
    BY <1>1 DEF InputIds, Own

\* A decode step adds the request's last token.
LEMMA AppendOwn ==
    ASSUME NEW r \in Reqs, NEW m \in Nat
    PROVE  Append(Own(r, m), Token(r, m + 1)) = Own(r, m + 1)
  <1> DEFINE T == {Token(r, i) : i \in Nat}
             a == Append(Own(r, m), Token(r, m + 1))
             c == Own(r, m + 1)
  <1>1. Own(r, m) \in Seq(T) /\ Len(Own(r, m)) = m /\ \A i \in 1 .. m : Own(r, m)[i] = Token(r, i)
    BY DEF Own
  <1>2. c \in Seq(T) /\ Len(c) = m + 1 /\ \A i \in 1 .. m + 1 : c[i] = Token(r, i)
    BY DEF Own
  <1>3. Token(r, m + 1) \in T
    OBVIOUS
  <1> HIDE DEF T
  <1>4. a \in Seq(T) /\ Len(a) = m + 1 /\ \A i \in 1 .. m + 1 : a[i] = Token(r, i)
    BY <1>1, <1>3, AppendProperties
  <1> HIDE DEF a, c
  <1>5. a = c
    BY <1>2, <1>4, SeqEqual
  <1> QED
    BY <1>5 DEF a, c

\* One step of the engine: the row sampled and the state are the request's own
\* tokens up to the last one scheduled, whether it is prefilled or decoded.
LEMMA RunExact ==
    ASSUME OneRank, ServingInv, Busy(Schedule) # {}, NEW P \in TokenPaddings,
           IsPaddedLen(P, Schedule), Run(Schedule, P)
    PROVE  LET r == Candidate(0)
           IN /\ state' = Own(r, tokens[r])
              /\ rows' = {[req |-> r, at |-> tokens[r], seen |-> Own(r, tokens[r])]}
              /\ tokens' = [tokens EXCEPT ![r] = @ + 1]
  <1> DEFINE r == Candidate(0)
             b == Schedule
             q == tokens[r] - computed[r]
  <1>1. Ranks = {0} /\ 0 \in Ranks
    BY OneRankFacts
  <1>2. /\ r \in Reqs
        /\ r = IF running[0] # NoReq THEN running[0] ELSE Head(waiting[0])
        /\ running[0] = NoReq => r \in Range(waiting[0])
        /\ tokens[r] \in 1 .. MaxModelLen - 1 /\ computed[r] \in 0 .. tokens[r] - 1
        /\ b = [k \in Ranks |-> [req |-> r, q |-> q, len |-> tokens[r]]]
        /\ Sampling(b) = {0}
    BY ScheduleExact
  <1> HIDE DEF r, b
  <1>3. b[0].req = r /\ b[0].q = q /\ b[0].len = tokens[r]
    BY <1>1, <1>2
  <1>4. P \in Nat \ {0} /\ P >= q /\ MaxModelLen \in Nat
    BY <1>1, <1>3, ServingAssumption DEF IsPaddedLen, b
  <1>5. /\ q \in Nat \ {0} /\ tokens[r] \in Nat /\ computed[r] \in Nat
        /\ q = tokens[r] - computed[r]
    BY <1>2, <1>4
  <1>6. DpSize * P = P /\ LogitsRow(b, P, 0) = q
    BY <1>3, <1>4, <1>5 DEF OneRank, LogitsRow
  <1> HIDE DEF q
  <1>7. IF IsDecode(b) THEN DecodeState(b, P) = Own(r, tokens[r]) /\ q = 1
        ELSE PrefillState(b, P) = Own(r, tokens[r]) /\ q = tokens[r]
    <2>1. CASE running[0] # NoReq
      <3>1. r = running[0]
        BY <2>1, <1>2
      <3>2. computed[r] > 0 /\ tokens[r] = computed[r] + 1 /\ state = Own(r, computed[r])
        BY <2>1, <3>1 DEF ServingInv, StateOwned
      <3>3. q = 1 /\ tokens[r] > 1
        BY <3>2, <1>5
      <3>4. IsDecode(b)
        BY <3>3, <1>3 DEF IsDecode
      <3>5. state # Garbage /\ Len(state) = tokens[r] - 1
        <4>1. computed[r] \in 0 .. MaxModelLen
          BY <1>2, <1>4
        <4>2. Own(r, computed[r]) # Garbage
          BY <4>1, <1>2, ServingAssumption DEF Own, Token
        <4>3. Len(Own(r, computed[r])) = computed[r]
          BY <1>5 DEF Own
        <4> QED
          BY <3>2, <4>2, <4>3, <1>5
      <3>6. InputId(b, P, 1) = Token(r, tokens[r])
        <4>1. (1 - 1) \div P = 0 /\ (1 - 1) % P = 0
          <5>1. 0 \in 0 .. P - 1 /\ 0 = P * 0 + 0
            BY <1>4
          <5> QED
            BY <5>1, <1>4, DivModUnique
        <4>2. r # NoReq /\ 0 + 1 <= q /\ tokens[r] - q + (0 + 1) = tokens[r]
          BY <1>2, <1>5, <3>3, ServingAssumption
        <4> QED
          BY <4>1, <4>2, <1>3 DEF InputId
      <3>7. Append(state, Token(r, tokens[r])) = Own(r, tokens[r])
        BY <3>2, <1>2, <1>5, AppendOwn
      <3> QED
        BY <3>3, <3>4, <3>5, <3>6, <3>7, <1>3 DEF DecodeState
    <2>2. CASE running[0] = NoReq
      <3>1. computed[r] = 0
        BY <2>2, <1>2 DEF ServingInv, Placed
      <3>2. q = tokens[r]
        BY <3>1, <1>5
      <3>3. ~IsDecode(b)
        BY <3>2, <1>3, <1>5 DEF IsDecode
      <3>4. InputIds(b, P, tokens[r]) = Own(r, tokens[r])
        <4>1. tokens[r] \in 0 .. P /\ b[0].q \in Nat /\ b[0].len = b[0].q /\ tokens[r] <= b[0].q
          BY <3>2, <1>3, <1>4, <1>5
        <4> QED
          BY <4>1, <1>2, <1>3, <1>4, InputIdsOwn
      <3> QED
        BY <3>2, <3>3, <3>4, <1>3, <1>4, <1>6 DEF PrefillState
    <2> QED
      BY <2>1, <2>2
  <1>8. RowContext(b, P, q) = Own(r, tokens[r])
    <2>1. CASE IsDecode(b)
      BY <2>1, <1>7 DEF RowContext
    <2>2. CASE ~IsDecode(b)
      <3>1. q <= b[0].len /\ q = tokens[r] /\ tokens[r] <= P
        BY <2>2, <1>3, <1>4, <1>5, <1>7
      <3>2. InputIds(b, P, q) = Own(r, tokens[r])
        <4>1. q \in 0 .. P /\ b[0].q \in Nat /\ b[0].len = b[0].q /\ q <= b[0].q
          BY <3>1, <1>3, <1>4, <1>5
        <4>2. InputIds(b, P, q) = Own(r, q)
          <5>1. r \in Reqs
            BY <1>2
          <5> QED
            BY <4>1, <5>1, <1>3, <1>4, InputIdsOwn
        <4> QED
          BY <3>1, <4>2
      <3> QED
        BY <2>2, <3>1, <3>2 DEF RowContext
    <2> QED
      BY <2>1, <2>2
  <1>9. state' = Own(r, tokens[r])
    BY <1>7 DEF Run, b
  <1>10. rows' = {[req |-> r, at |-> tokens[r], seen |-> Own(r, tokens[r])]}
    <2>1. rows' = {[req |-> b[k].req, at |-> b[k].len,
                    seen |-> RowContext(b, P, LogitsRow(b, P, k))] : k \in {0}}
      BY <1>2 DEF Run, b
    <2> QED
      BY <2>1, <1>3, <1>6, <1>8
  <1>11. tokens' = [tokens EXCEPT ![r] = @ + 1]
    <2>1. {b[k].req : k \in Sampling(b)} = {r}
      BY <1>2, <1>3
    <2>2. tokens' = [s \in Reqs |-> IF s \in {r} THEN tokens[s] + 1 ELSE tokens[s]]
      BY <2>1 DEF Run, b
    <2>3. tokens \in [Reqs -> 0 .. MaxModelLen]
      BY DEF ServingInv, Types
    <2> QED
      BY <2>2, <2>3
  <1> QED
    BY <1>9, <1>10, <1>11 DEF r

-----------------------------------------------------------------------------
(* The invariant, action by action *)

LEMMA InitInv ==
    ASSUME OneRank, Init
    PROVE  ServingInv
  <1>1. Ranks = {0} /\ 0 \in Ranks
    BY OneRankFacts
  <1>2. Types
    BY ServingAssumption DEF Init, Types
  <1>3. Placed
    BY <1>1, ServingAssumption DEF Init, Placed, IsInjective, Range
  <1>4. StateOwned /\ ServedExact
    BY <1>1 DEF Init, StateOwned, ServedExact
  <1> QED
    BY <1>2, <1>3, <1>4 DEF ServingInv

LEMMA AddRequestInv ==
    ASSUME OneRank, ServingInv, NEW r \in Reqs, NEW m \in 1 .. MaxModelLen - 1,
           AddRequest(r, m)
    PROVE  ServingInv'
  <1>1. Ranks = {0} /\ 0 \in Ranks /\ BestRank = 0
    BY OneRankFacts
  <1>2. /\ waiting[0] \in Seq(Reqs) /\ status[r] = "new" /\ waiting' = [waiting EXCEPT ![0] = Append(@, r)]
        /\ r \notin Range(waiting[0]) /\ r # running[0]
    BY <1>1, ServingAssumption DEF ServingInv, Types, Placed, AddRequest
  <1>3. /\ waiting'[0] \in Seq(Reqs) /\ Range(waiting'[0]) = Range(waiting[0]) \cup {r}
        /\ IsInjective(waiting'[0])
    <2>1. waiting'[0] = Append(waiting[0], r)
      BY <1>1, <1>2 DEF ServingInv, Types
    <2> QED
      BY <2>1, <1>2, InjectiveAppend DEF ServingInv, Placed
  <1>4. Types'
    <2>1. m \in 0 .. MaxModelLen
      BY ServingAssumption
    <2> QED
      BY <1>1, <1>2, <1>3, <2>1 DEF AddRequest, ServingInv, Types
  <1>5. Placed'
    BY <1>1, <1>2, <1>3 DEF AddRequest, ServingInv, Types, Placed
  <1>6. StateOwned'
    <2>1. running[0] # NoReq => tokens'[running[0]] = tokens[running[0]]
      BY <1>1, <1>2 DEF AddRequest, ServingInv, Types
    <2> QED
      BY <1>1, <2>1 DEF AddRequest, ServingInv, StateOwned
  <1> QED
    BY <1>4, <1>5, <1>6 DEF AddRequest, ServingInv, ServedExact

\* Requests that finish or are aborted leave the queue and the state.
LEMMA FreeInv ==
    ASSUME OneRank, ServingInv, NEW S \in SUBSET Reqs, Free(S),
           UNCHANGED <<tokens, computed, state, rows>>
    PROVE  ServingInv'
  <1>1. Ranks = {0} /\ 0 \in Ranks
    BY OneRankFacts
  <1>2. waiting[0] \in Seq(Reqs) /\ waiting'[0] = RemoveAll(waiting[0], S)
    BY <1>1 DEF ServingInv, Types, Free
  <1>3. /\ waiting'[0] \in Seq(Reqs) /\ Range(waiting'[0]) = Range(waiting[0]) \ S
        /\ IsInjective(waiting'[0])
    BY <1>2, RemoveAllProperties DEF ServingInv, Placed
  <1>4. running'[0] = IF running[0] \in S THEN NoReq ELSE running[0]
    BY <1>1 DEF Free
  <1>5. Types'
    BY <1>1, <1>3 DEF Free, ServingInv, Types
  <1>6. Placed'
    <2>1. \A q \in Reqs : status'[q] = IF q \in S THEN "done" ELSE status[q]
      BY DEF Free
    <2>2. \A q \in Range(waiting'[0]) : q \in Reqs /\ q \notin S
      BY <1>3 DEF Range
    <2>3. running[0] \in Reqs \cup {NoReq}
      BY <1>1 DEF ServingInv, Types
    <2> QED
      BY <1>3, <1>4, <2>1, <2>2, <2>3, ServingAssumption DEF ServingInv, Placed
  <1>7. StateOwned'
    BY <1>4 DEF ServingInv, StateOwned
  <1> QED
    BY <1>5, <1>6, <1>7 DEF ServingInv, ServedExact

LEMMA PreemptInv ==
    ASSUME OneRank, ServingInv, NEW k \in Ranks, Preempt(k)
    PROVE  ServingInv'
  <1>1. Ranks = {0} /\ 0 \in Ranks /\ k = 0
    BY OneRankFacts
  <1> DEFINE r == running[0]
  <1>2. r \in Reqs /\ waiting[0] \in Seq(Reqs) /\ r \notin Range(waiting[0])
    BY <1>1 DEF Preempt, ServingInv, Types, Placed
  <1>3. waiting'[0] = <<r>> \o waiting[0] /\ running'[0] = NoReq
    BY <1>1 DEF Preempt, ServingInv, Types
  <1> HIDE DEF r
  <1>4. /\ waiting'[0] \in Seq(Reqs) /\ Range(waiting'[0]) = Range(waiting[0]) \cup {r}
        /\ IsInjective(waiting'[0])
    BY <1>2, <1>3, InjectiveCons DEF ServingInv, Placed
  <1>5. computed' = [computed EXCEPT ![r] = 0] /\ UNCHANGED <<status, tokens, state, rows>>
    BY <1>1 DEF Preempt, r
  <1>6. Types'
    <2>1. waiting' = [waiting EXCEPT ![0] = <<r>> \o @] /\ running' = [running EXCEPT ![0] = NoReq]
      BY <1>1 DEF Preempt, r
    <2> QED
      BY <1>1, <1>3, <1>4, <1>5, <2>1, ServingAssumption DEF ServingInv, Types
  <1>7. Placed'
    <2>1. \A q \in Range(waiting'[0]) : q \in Reqs
      BY <1>4 DEF Range
    <2>2. status[r] = "live"
      BY <1>1 DEF r, Preempt, ServingInv, Placed
    <2>3. \A q \in Reqs : computed'[q] = IF q = r THEN 0 ELSE computed[q]
      BY <1>5 DEF ServingInv, Types
    <2> QED
      BY <1>2, <1>3, <1>4, <1>5, <2>1, <2>2, <2>3, ServingAssumption DEF ServingInv, Placed
  <1>8. StateOwned'
    BY <1>3 DEF StateOwned
  <1> QED
    BY <1>5, <1>6, <1>7, <1>8 DEF ServingInv, ServedExact

\* What a step of the engine does, with one rank.
LEMMA ExecuteExact ==
    ASSUME OneRank, ServingInv, Execute
    PROVE  LET r == Candidate(0)
           IN /\ r \in Reqs
              /\ r = IF running[0] # NoReq THEN running[0] ELSE Head(waiting[0])
              /\ running[0] = NoReq => waiting[0] # <<>> /\ r \in Range(waiting[0])
              /\ tokens[r] \in 1 .. MaxModelLen - 1 /\ status[r] = "live"
              /\ running' = [running EXCEPT ![0] = r]
              /\ waiting' = IF running[0] = NoReq THEN [waiting EXCEPT ![0] = Tail(@)]
                            ELSE waiting
              /\ computed' = [computed EXCEPT ![r] = tokens[r]]
              /\ tokens' = [tokens EXCEPT ![r] = @ + 1]
              /\ state' = Own(r, tokens[r])
              /\ rows' = {[req |-> r, at |-> tokens[r], seen |-> Own(r, tokens[r])]}
              /\ status' = status
  <1> DEFINE r == Candidate(0)
             b == Schedule
  <1>1. Ranks = {0} /\ 0 \in Ranks
    BY OneRankFacts
  <1>2. PICK P \in TokenPaddings :
          /\ Busy(b) # {} /\ IsPaddedLen(P, b) /\ Run(b, P)
          /\ running' = [k \in Ranks |-> IF k \in Busy(b) THEN b[k].req ELSE running[k]]
          /\ waiting' = [k \in Ranks |-> IF k \in Busy(b) /\ running[k] = NoReq
                                         THEN Tail(waiting[k]) ELSE waiting[k]]
          /\ computed' = [s \in Reqs |-> IF \E k \in Busy(b) : b[k].req = s
                                         THEN (CHOOSE e \in Range(b) : e.req = s).len
                                         ELSE computed[s]]
    BY DEF Execute
  <1>3. /\ r \in Reqs
        /\ r = IF running[0] # NoReq THEN running[0] ELSE Head(waiting[0])
        /\ running[0] = NoReq => waiting[0] # <<>> /\ r \in Range(waiting[0])
        /\ tokens[r] \in 1 .. MaxModelLen - 1 /\ status[r] = "live"
        /\ b = [k \in Ranks |-> [req |-> r, q |-> tokens[r] - computed[r], len |-> tokens[r]]]
        /\ Busy(b) = {0}
    BY <1>2, ScheduleExact
  <1>4. /\ state' = Own(r, tokens[r])
        /\ rows' = {[req |-> r, at |-> tokens[r], seen |-> Own(r, tokens[r])]}
        /\ tokens' = [tokens EXCEPT ![r] = @ + 1]
    BY <1>2, RunExact
  <1> HIDE DEF r, b
  <1>5. b[0].req = r /\ b[0].len = tokens[r] /\ Range(b) = {b[0]}
    BY <1>1, <1>3 DEF Range
  <1>6. running \in [Ranks -> Reqs \cup {NoReq}] /\ waiting \in [Ranks -> Seq(Reqs)]
        /\ computed \in [Reqs -> 0 .. MaxModelLen]
    BY DEF ServingInv, Types
  <1>7. running' = [running EXCEPT ![0] = r]
    BY <1>1, <1>2, <1>3, <1>5, <1>6
  <1>8. waiting' = IF running[0] = NoReq THEN [waiting EXCEPT ![0] = Tail(@)] ELSE waiting
    BY <1>1, <1>2, <1>3, <1>6
  <1>9. computed' = [computed EXCEPT ![r] = tokens[r]]
    <2>1. \A s \in Reqs : computed'[s] = IF s = r THEN tokens[r] ELSE computed[s]
      BY <1>2, <1>3, <1>5, ZenonT(60)
    <2>2. computed' = [s \in Reqs |-> computed'[s]]
      BY <1>2
    <2>3. r \in Reqs
      BY <1>3
    <2> QED
      BY <2>1, <2>2, <2>3, <1>6
  <1> QED
    BY <1>3, <1>4, <1>7, <1>8, <1>9 DEF Execute, r

LEMMA ExecuteInv ==
    ASSUME OneRank, ServingInv, Execute
    PROVE  ServingInv'
  <1> DEFINE r == Candidate(0)
  <1>1. Ranks = {0} /\ 0 \in Ranks
    BY OneRankFacts
  <1>2. /\ r \in Reqs
        /\ r = IF running[0] # NoReq THEN running[0] ELSE Head(waiting[0])
        /\ running[0] = NoReq => waiting[0] # <<>>
        /\ tokens[r] \in 1 .. MaxModelLen - 1 /\ status[r] = "live"
        /\ running' = [running EXCEPT ![0] = r]
        /\ waiting' = IF running[0] = NoReq THEN [waiting EXCEPT ![0] = Tail(@)] ELSE waiting
        /\ computed' = [computed EXCEPT ![r] = tokens[r]]
        /\ tokens' = [tokens EXCEPT ![r] = @ + 1]
        /\ state' = Own(r, tokens[r])
        /\ rows' = {[req |-> r, at |-> tokens[r], seen |-> Own(r, tokens[r])]}
        /\ status' = status
    BY ExecuteExact
  <1> HIDE DEF r
  <1>3. /\ running \in [Ranks -> Reqs \cup {NoReq}] /\ waiting \in [Ranks -> Seq(Reqs)]
        /\ computed \in [Reqs -> 0 .. MaxModelLen] /\ tokens \in [Reqs -> 0 .. MaxModelLen]
    BY DEF ServingInv, Types
  <1>4. /\ waiting'[0] \in Seq(Reqs) /\ IsInjective(waiting'[0])
        /\ Range(waiting'[0]) = Range(waiting[0]) \ {r}
    <2>1. CASE running[0] = NoReq
      <3>1. waiting'[0] = Tail(waiting[0]) /\ r = Head(waiting[0])
        BY <2>1, <1>1, <1>2, <1>3
      <3> QED
        BY <3>1, <2>1, <1>1, <1>2, <1>3, InjectiveTail DEF ServingInv, Placed
    <2>2. CASE running[0] # NoReq
      BY <2>2, <1>1, <1>2, <1>3 DEF ServingInv, Placed
    <2> QED
      BY <2>1, <2>2
  <1>5. tokens[r] \in Nat /\ tokens[r] > 0 /\ tokens[r] + 1 \in 0 .. MaxModelLen
        /\ tokens[r] \in 0 .. MaxModelLen
    BY <1>2, ServingAssumption
  <1>6. Types'
    BY <1>1, <1>2, <1>3, <1>4, <1>5 DEF ServingInv, Types
  <1>7. running'[0] = r /\ tokens'[r] = tokens[r] + 1 /\ computed'[r] = tokens[r]
    BY <1>1, <1>2, <1>3
  <1>8. Placed'
    <2>1. \A q \in Reqs : q # r => tokens'[q] = tokens[q] /\ computed'[q] = computed[q]
      BY <1>2, <1>3
    <2>2. \A q \in Range(waiting'[0]) : q \in Reqs /\ q # r
      BY <1>4 DEF Range
    <2>3. \A q \in Range(waiting'[0]) :
            status'[q] = "live" /\ computed'[q] = 0 /\ q # running'[0]
      BY <1>2, <1>4, <1>7, <2>1, <2>2 DEF ServingInv, Placed
    <2>4. \A q \in Reqs : /\ status'[q] = "live" => tokens'[q] > 0
                          /\ status'[q] = "new" => computed'[q] = 0
      BY <1>2, <1>5, <1>7, <2>1 DEF ServingInv, Placed
    <2> QED
      BY <1>2, <1>4, <1>7, <2>3, <2>4 DEF Placed
  <1>9. StateOwned'
    BY <1>2, <1>5, <1>7 DEF StateOwned
  <1>10. ServedExact'
    BY <1>2 DEF ServedExact
  <1> QED
    BY <1>6, <1>8, <1>9, <1>10 DEF ServingInv

\* The inductive invariant.
THEOREM ServingInvariant ==
    ASSUME OneRank
    PROVE  Spec => []ServingInv
  <1>1. Init => ServingInv
    BY InitInv
  <1>2. ServingInv /\ [Next]_vars => ServingInv'
    <2> SUFFICES ASSUME ServingInv, [Next]_vars
                 PROVE  ServingInv'
      OBVIOUS
    <2>1. ASSUME NEW r \in Reqs, NEW m \in 1 .. MaxModelLen - 1, AddRequest(r, m)
          PROVE  ServingInv'
      BY <2>1, AddRequestInv
    <2>2. ASSUME NEW r \in Reqs, Abort(r)
          PROVE  ServingInv'
      BY <2>2, FreeInv DEF Abort
    <2>3. ASSUME NEW k \in Ranks, Preempt(k)
          PROVE  ServingInv'
      BY <2>3, PreemptInv
    <2>4. CASE Execute
      BY <2>4, ExecuteInv
    <2>5. CASE Update
      <3>1. PICK stop \in SUBSET (Head(inflight) \cap Live) : Free(stop)
        BY <2>5 DEF Update
      <3>2. stop \in SUBSET Reqs
        BY DEF Live
      <3> QED
        BY <2>5, <3>1, <3>2, FreeInv DEF Update
    <2>6. CASE UNCHANGED vars
      BY <2>6 DEF vars, ServingInv, Types, Placed, StateOwned, ServedExact
    <2> QED
      BY <2>1, <2>2, <2>3, <2>4, <2>5, <2>6 DEF Next
  <1> QED
    BY <1>1, <1>2, PTL DEF Spec

\* Every token is sampled from a row that attended to exactly the request's own
\* tokens, whatever is added, aborted or preempted and however the rows are padded.
THEOREM ServedExactCorrect ==
    ASSUME OneRank
    PROVE  Spec => []ServedExact
  <1>1. ServingInv => ServedExact
    BY DEF ServingInv
  <1> QED
    BY <1>1, ServingInvariant, PTL

-----------------------------------------------------------------------------
(* Refinement *)

\* The engine implements the attention without a cache: the first step of a
\* request is a Begin, a later one an Extend, and a request that stops, is
\* aborted or is preempted ends.
THEOREM ServingRefinement ==
    ASSUME OneRank
    PROVE  Spec => RefinesContext
  <1> DEFINE n == IF rows = {} THEN 0 ELSE LastRow.at
             seen == IF rows = {} THEN <<>> ELSE LastRow.seen
  <1>a. Ranks = {0} /\ 0 \in Ranks
    BY OneRankFacts
  <1>b. ASSUME ServingInv PROVE Active = running[0]
    BY <1>a, <1>b DEF ServingInv, StateOwned, Active
  <1>c. ASSUME ServingInv' PROVE Active' = running'[0]
    BY <1>a, <1>c DEF ServingInv, StateOwned, Active
  <1>1. Init => Context!Init
    BY <1>a DEF Init, Active, Context!Init
  <1>2. ServingInv /\ ServingInv' /\ [Next]_vars => [Context!Next]_(Context!cvars)
    <2> SUFFICES ASSUME ServingInv, ServingInv', [Next]_vars
                 PROVE  [Context!Next]_(Context!cvars)
      OBVIOUS
    <2>1. Active = running[0] /\ Active' = running'[0]
      BY <1>b, <1>c
    <2>2. ASSUME rows' = rows, running'[0] \in {running[0], NoReq}
          PROVE  [Context!Next]_(Context!cvars)
      <3>1. n' = n /\ seen' = seen
        BY <2>2 DEF LastRow
      <3>2. CASE running'[0] = running[0]
        BY <3>1, <3>2, <2>1 DEF Context!cvars
      <3>3. CASE running'[0] # running[0]
        <4>1. Context!End
          BY <3>1, <3>3, <2>1, <2>2 DEF Context!End
        <4> QED
          BY <4>1 DEF Context!Next
      <3> QED
        BY <3>2, <3>3
    <2>3. ASSUME NEW r \in Reqs, NEW m \in 1 .. MaxModelLen - 1, AddRequest(r, m)
          PROVE  [Context!Next]_(Context!cvars)
      BY <2>2, <2>3 DEF AddRequest
    <2>4. ASSUME NEW S, Free(S), rows' = rows
          PROVE  [Context!Next]_(Context!cvars)
      BY <2>2, <2>4, <1>a DEF Free
    <2>5. ASSUME NEW k \in Ranks, Preempt(k)
          PROVE  [Context!Next]_(Context!cvars)
      BY <2>2, <2>5, <1>a DEF Preempt, ServingInv, Types
    <2>6. CASE Execute
      <3> DEFINE r == Candidate(0)
      <3>1. /\ r \in Reqs /\ tokens[r] \in 1 .. MaxModelLen - 1
            /\ r = IF running[0] # NoReq THEN running[0] ELSE Head(waiting[0])
            /\ running' = [running EXCEPT ![0] = r]
            /\ rows' = {[req |-> r, at |-> tokens[r], seen |-> Own(r, tokens[r])]}
        BY <2>6, ExecuteExact
      <3> HIDE DEF r
      <3>2. n' = tokens[r] /\ seen' = Own(r, tokens[r])
        <4> DEFINE x == [req |-> r, at |-> tokens[r], seen |-> Own(r, tokens[r])]
        <4>1. rows' = {x} /\ x.at = tokens[r] /\ x.seen = Own(r, tokens[r])
          BY <3>1
        <4> HIDE DEF x
        <4>2. LastRow' = x
          BY <4>1 DEF LastRow
        <4> QED
          BY <4>1, <4>2
      <3>3. Active' = r /\ r # NoReq
        BY <3>1, <2>1, <1>a, ServingAssumption DEF ServingInv, Types
      <3>4. CASE running[0] = NoReq
        <4>1. tokens[r] \in 1 .. MaxModelLen /\ tokens[r] - 1 + 1 = tokens[r]
          BY <3>1, ServingAssumption
        <4>2. Context!Begin(r, tokens[r])
          BY <3>2, <3>3, <3>4, <2>1, <4>1 DEF Context!Begin, Exact
        <4> QED
          BY <4>1, <4>2, <3>1 DEF Context!Next
      <3>5. CASE running[0] # NoReq
        <4>1. r = running[0] /\ tokens[r] = computed[r] + 1 /\ computed[r] \in Nat
          BY <3>1, <3>5, <1>a, ServingAssumption DEF ServingInv, Types, StateOwned
        <4>2. n = computed[r]
          BY <4>1, <3>5 DEF ServingInv, StateOwned, LastRow
        <4>3. n < MaxModelLen /\ n' = n + 1 /\ seen' = Own(Active, n + 1)
          BY <3>1, <3>2, <4>1, <4>2, <2>1, ServingAssumption
        <4>4. Active # NoReq /\ Active' = Active
          BY <4>1, <3>3, <3>5, <2>1
        <4>5. Context!Extend
          BY <4>3, <4>4 DEF Context!Extend, Exact
        <4> QED
          BY <4>5 DEF Context!Next
      <3> QED
        BY <3>4, <3>5
    <2>7. CASE UNCHANGED vars
      BY <2>2, <2>7 DEF vars
    <2> QED
      BY <2>3, <2>4, <2>5, <2>6, <2>7 DEF Next, Abort, Update
  <1> QED
    BY <1>1, <1>2, ServingInvariant, PTL DEF Spec, RefinesContext, Context!Spec
=============================================================================
