---------------------------- MODULE MCKVTransfer ----------------------------
(***************************************************************************)
(* Two prompts that begin with the same block: r1 (one full block and a    *)
(* partial one) can be a full local hit on D, r2 (two full blocks, none    *)
(* partial) a partial one. r3 is too short to be transferred. P has room   *)
(* for r1 and r2 only, its pool one buffer, and D room for r1, r2 and one  *)
(* of the two blocks that r1 and r3 need to run.                           *)
(***************************************************************************)
EXTENDS KVTransfer

CONSTANTS r1, r2, r3, ka, kb

MCKey  == (r1 :> <<ka>>) @@ (r2 :> <<ka, kb>>) @@ (r3 :> <<>>)
MCRest == (r1 :> 1) @@ (r2 :> 0) @@ (r3 :> 1)
=============================================================================
