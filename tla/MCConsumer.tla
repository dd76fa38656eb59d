----------------------------- MODULE MCConsumer -----------------------------
(* Instances of Consumer for TLC: the logs of records the runs work on.    *)
EXTENDS Consumer

\* Three distinct events.
DistinctKeys  == <<"a", "b", "c">>
SameTime      == <<0, 0, 0>>

\* A producer's retry: the first event again, with another event time.
RetriedKeys   == <<"a", "b", "a">>
RetriedTimes  == <<0, 0, 1>>

\* The same with one more record between the two copies.
FourKeys      == <<"a", "b", "c", "a">>
FourTimes     == <<0, 0, 0, 1>>
=============================================================================
