--------------------------- MODULE MCGatewayRouter ---------------------------
(* GatewayRouter for TLC: two requests over the two providers. A tick is 15 s *)
(* in the 30 s of the primary budget; the other spans are shortened, the      *)
(* attempts to one tick and the total budget to twice the primary's.          *)
EXTENDS GatewayRouter, TLC

CONSTANTS r1, r2, anthropic, infomaniak

MCRequests == {r1, r2}
MCProviders == {anthropic, infomaniak}
MCFallbackOf == (anthropic :> infomaniak) @@ (infomaniak :> anthropic)
MCBackoffs == [n \in 1 .. MaxRetries |-> 0 .. n - 1]
=============================================================================
