------------------------------ MODULE V4Context ------------------------------
(***************************************************************************)
(* What a V4 attention layer promises: an attention that keeps no cache.   *)
(* A query at position p of a request sees one of the contexts that the    *)
(* definition of the layer gives for that position, and nothing else.      *)
(***************************************************************************)
EXTENDS Integers

CONSTANTS
    Reqs, NoReq,
    MaxModelLen,
    Exact(_, _),   \* Exact(r, p): the contexts a query at position p of r may see
    Nothing        \* seen before the first query

VARIABLES
    seq,     \* the active request, or NoReq
    n,       \* its length
    seen     \* what its last query saw

cvars == <<seq, n, seen>>

Init ==
    /\ seq = NoReq
    /\ n = 0
    /\ seen = Nothing

\* A request arrives with a prompt (or resumes with all it had) of m tokens.
Begin(r, m) ==
    /\ seq = NoReq
    /\ seq' = r
    /\ n' = m
    /\ seen' \in Exact(r, m - 1)

Extend ==
    /\ seq # NoReq
    /\ n < MaxModelLen
    /\ n' = n + 1
    /\ seen' \in Exact(seq, n)
    /\ UNCHANGED seq

End ==
    /\ seq # NoReq
    /\ seq' = NoReq
    /\ UNCHANGED <<n, seen>>

Next ==
    \/ \E r \in Reqs, m \in 1 .. MaxModelLen : Begin(r, m)
    \/ Extend
    \/ End

Spec == Init /\ [][Next]_cvars
=============================================================================
