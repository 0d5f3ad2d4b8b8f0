----------------------------- MODULE Filtering -----------------------------
(***************************************************************************)
(* Taking requests out of a queue.  vLLM does it with a list comprehension *)
(* (remove_all, remove_requests); the operator says which elements remain  *)
(* and where each one goes, so that proofs can reason about it.            *)
(***************************************************************************)
EXTENDS Integers, Sequences, FiniteSets

\* The positions of s whose element is not in S.
Kept(s, S) == {i \in DOMAIN s : s[i] \notin S}

\* [x for x in s if x not in S]: position n of the result is the n-th kept one.
RemoveAll(s, S) ==
    [n \in 1 .. Cardinality(Kept(s, S)) |->
        s[CHOOSE i \in Kept(s, S) : Cardinality({j \in Kept(s, S) : j <= i}) = n]]
=============================================================================
