--------------------------- MODULE MCRateLimiter ---------------------------
(* A small instance of RateLimiter for TLC.                                 *)
EXTENDS RateLimiter, TLC

CONSTANTS g1, g2, r1, r2

MCGatewayOf == (r1 :> g1) @@ (r2 :> g2)
NoSkew == (g1 :> 0) @@ (g2 :> 0)
OneAhead == (g1 :> 0) @@ (g2 :> 1)
=============================================================================
