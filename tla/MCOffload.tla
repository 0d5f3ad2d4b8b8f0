------------------------------ MODULE MCOffload ------------------------------
(***************************************************************************)
(* Two requests in an HBM of three blocks and a host cache of three chunks.*)
(* Together they need five blocks and fill four, so requests are           *)
(* preempted and resumed, blocks reused and chunks evicted, and a request  *)
(* id that comes back finds its prefix in either cache or in none. In the  *)
(* second instance (Long...) one prompt fills three blocks.                *)
(***************************************************************************)
EXTENDS OffloadConnector

CONSTANTS r1, r2, ka, kb, kc, kd, ke

MCReqs   == {r1, r2}
MCChunks == 0..2
MCKey    == (r1 :> <<ka, kb>>) @@ (r2 :> <<kc, kd, ke>>)
MCPrompt == (r1 :> 2) @@ (r2 :> 3)
MCTotal  == (r1 :> 4) @@ (r2 :> 7)

LongKey    == (r1 :> <<ka, kb, kd>>) @@ (r2 :> <<kc>>)
LongChunks == 0..1
LongPrompt == (r1 :> 6) @@ (r2 :> 2)
LongTotal  == (r1 :> 7) @@ (r2 :> 3)
==============================================================================
