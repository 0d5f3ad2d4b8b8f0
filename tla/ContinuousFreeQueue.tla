------------------------ MODULE ContinuousFreeQueue ------------------------
(***************************************************************************)
(* The free list that core_tpu.py puts in place of vLLM's in every engine  *)
(* of a disaggregated server (runner/continuous_block_pool.py). It keeps   *)
(* the free blocks twice: as the set free_blocks and as a sorted list of   *)
(* closed intervals, from which it allocates: one block from the top, more *)
(* from the smallest interval they fit in.                                 *)
(*                                                                         *)
(* A queue is a record [free, ints]; every method is an operator from a    *)
(* queue to a queue, and those that hand out blocks have a companion that  *)
(* says which. size is len(blocks_ref).                                    *)
(***************************************************************************)
EXTENDS Integers, FiniteSets, Sequences, SequencesExt

\* bisect_left(intervals, (b, b)): how many intervals come before block b.
Before(ints, b) ==
  Cardinality({i \in DOMAIN ints :
                 \/ ints[i][1] < b
                 \/ ints[i][1] = b /\ ints[i][2] < b})

\* An interval that grew towards the next one is not merged with it.
AddToIntervalsUnmerged(ints, b) ==
  LET k == Before(ints, b)
  IN  CASE k > 0 /\ ints[k][2] = b - 1 -> [ints EXCEPT ![k] = <<ints[k][1], b>>]
        [] OTHER -> InsertAt(ints, k + 1, <<b, b>>)

AddToIntervals(ints, b) ==
  LET k    == Before(ints, b)
      prev == k > 0 /\ ints[k][2] = b - 1
      next == k < Len(ints) /\ ints[k + 1][1] = b + 1
  IN  CASE prev /\ next  -> RemoveAt([ints EXCEPT ![k] = <<ints[k][1], ints[k + 1][2]>>],
                                     k + 1)
        [] prev /\ ~next -> [ints EXCEPT ![k] = <<ints[k][1], b>>]
        [] ~prev /\ next -> [ints EXCEPT ![k + 1] = <<b, ints[k + 1][2]>>]
        [] OTHER         -> InsertAt(ints, k + 1, <<b, b>>)

\* bisect_right(intervals, (b, inf)) - 1 is the interval that holds b.
RemoveFromIntervals(ints, b) ==
  LET k == Cardinality({i \in DOMAIN ints : ints[i][1] <= b})
      s == ints[k][1]
      e == ints[k][2]
  IN  CASE s = e            -> RemoveAt(ints, k)
        [] s # e /\ s = b   -> [ints EXCEPT ![k] = <<s + 1, e>>]
        [] s # e /\ e = b   -> [ints EXCEPT ![k] = <<s, e - 1>>]
        [] OTHER            -> InsertAt([ints EXCEPT ![k] = <<s, b - 1>>], k + 1,
                                        <<b + 1, e>>)

AddBlock(q, b) ==
  IF b \in q.free THEN q
  ELSE [free |-> q.free \cup {b}, ints |-> AddToIntervals(q.ints, b)]

RemoveBlock(q, b) ==
  IF b \notin q.free THEN q
  ELSE [free |-> q.free \ {b}, ints |-> RemoveFromIntervals(q.ints, b)]

AppendN(q, blocks) ==
  LET after[i \in 0 .. Len(blocks)] == IF i = 0 THEN q ELSE AddBlock(after[i - 1], blocks[i])
  IN  after[Len(blocks)]

RemoveN(q, blocks) ==
  LET after[i \in 0 .. Len(blocks)] == IF i = 0 THEN q ELSE RemoveBlock(after[i - 1], blocks[i])
  IN  after[Len(blocks)]

\* ContinuousFreeQueue(blocks): all of them.
FullQueue(size) ==
  AppendN([free |-> {}, ints |-> <<>>], [i \in 1..size |-> i - 1])

\* No block has been taken yet: block 0 is the first to go, as null_block.
Untouched(q, size) == 0 \in q.free /\ Cardinality(q.free) = size

\* popleft: the block it returns.
Popped(q, size) ==
  LET last == q.ints[Len(q.ints)][2]
  IN  IF Untouched(q, size) THEN 0
      ELSE IF last = 0 /\ Len(q.ints) > 1 THEN q.ints[Len(q.ints) - 1][2]
      ELSE last

\* The i-th blocks that n calls of popleft return, and the queue they leave.
PoppedEach(q, n, size) ==
  LET after[i \in 0..n] == IF i = 0 THEN q
                           ELSE RemoveBlock(after[i - 1], Popped(after[i - 1], size))
  IN  {Popped(after[i - 1], size) : i \in 1..n}

\* Where an allocation of several blocks would start in an interval.
ActualStart(q, i, size) ==
  IF q.ints[i][1] = 0 /\ Cardinality(q.free) = size THEN 1 ELSE q.ints[i][1]

SizeOf(q, i, size) == q.ints[i][2] - ActualStart(q, i, size) + 1

Fitting(q, n, size) == {i \in DOMAIN q.ints : SizeOf(q, i, size) >= n}

\* The smallest interval that fits, the first of several.
BestFit(q, n, size) ==
  CHOOSE i \in Fitting(q, n, size) :
    \A j \in Fitting(q, n, size) :
      \/ SizeOf(q, i, size) < SizeOf(q, j, size)
      \/ SizeOf(q, i, size) = SizeOf(q, j, size) /\ i <= j

\* sorted(blocks)
Sorted(S) == [i \in 1 .. Cardinality(S) |-> CHOOSE b \in S : Cardinality({c \in S : c <= b}) = i]

\* popleft_n: the blocks it returns, in order.
PoppedN(q, n, size) ==
  IF n = 1 THEN <<Popped(q, size)>>
  ELSE IF Fitting(q, n, size) # {}
  THEN LET s == ActualStart(q, BestFit(q, n, size), size)
       IN  [i \in 1..n |-> s + i - 1]
  ELSE Sorted(PoppedEach(q, n, size))

---------------------------------------------------------------------------
\* What the intervals stand for: the maximal runs of free blocks, in order.
IntervalsOf(q) ==
  /\ \A i \in DOMAIN q.ints : q.ints[i][1] <= q.ints[i][2]
  /\ \A i \in 1 .. Len(q.ints) - 1 : q.ints[i][2] + 1 < q.ints[i + 1][1]
  /\ q.free = UNION {q.ints[i][1] .. q.ints[i][2] : i \in DOMAIN q.ints}
============================================================================
