-------------------------- MODULE MCConsumerGroup --------------------------
(* An instance of ConsumerGroup for TLC: two members and two partitions,   *)
(* one with a retried event that has another event time, one whose moves   *)
(* only change the generation of the group.                                *)
EXTENDS ConsumerGroup, TLC

TwoNone == [p1 |-> 2, p2 |-> 0]
RetriedKeys == (<<"p1", 1>> :> "a") @@ (<<"p1", 2>> :> "a")
RetriedTimes == (<<"p1", 1>> :> 0) @@ (<<"p1", 2>> :> 1)

\* Faults that act together, with and without dedup.
Settings ==
    {<<FALSE, {"ticker"}>>, <<FALSE, {"sigterm"}>>,
     <<TRUE, {"ticker", "db", "dlq"}>>, <<TRUE, {"redis", "ttl"}>>, <<TRUE, {"sigterm"}>>}
=============================================================================
