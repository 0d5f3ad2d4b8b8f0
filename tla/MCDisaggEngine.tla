--------------------------- MODULE MCDisaggEngine ---------------------------
(***************************************************************************)
(* Three requests, two of them with a common first block, and two decode   *)
(* engines. Together the requests need more blocks than an engine has: a   *)
(* decode engine preempts and resumes, gives out scattered blocks, or has  *)
(* no room for a request at all; the longest prompt takes two prefill      *)
(* steps, and r2 stops at the token that the prefill engine samples.       *)
(***************************************************************************)
EXTENDS DisaggEngine

CONSTANTS r1, r2, r3, ka, kb, kc, kd, ke, kf, kg, kh

MCKey      == (r1 :> <<ka, kb, kc, kd>>) @@ (r2 :> <<ka, ke>>) @@ (r3 :> <<kf, kg, kh, ke>>)
MCPrompt   == (r1 :> 4) @@ (r2 :> 3) @@ (r3 :> 5)
MCTotal    == (r1 :> 7) @@ (r2 :> 4) @@ (r3 :> 8)
MCDecoders == {1, 2}
=============================================================================
