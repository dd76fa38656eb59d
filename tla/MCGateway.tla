----------------------------- MODULE MCGateway -----------------------------
(* Instances of Gateway for TLC: two calls that compete for a queue.       *)
EXTENDS Gateway, TLC

CONSTANTS c1, c2

ThreeEvents == (c1 :> 2) @@ (c2 :> 1)
=============================================================================
