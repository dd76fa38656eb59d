----------------------------- MODULE MCLoadgen -----------------------------
(* An instance of Loadgen for TLC: one goroutine that issues two calls,    *)
(* the second one possibly while the gateway still handles the first.      *)
EXTENDS Loadgen

TwoCalls == {<<1, 1>>, <<1, 2>>}
FullBatches == [c \in Calls |-> BatchSize]
=============================================================================
