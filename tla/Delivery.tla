------------------------------ MODULE Delivery ------------------------------
(***************************************************************************)
(* What the consumer promises, whatever its sink, its retries and its      *)
(* crashes: the committed offset moves forward only, and only over records *)
(* that are delivered for good.                                            *)
(***************************************************************************)
EXTENDS Naturals

CONSTANT N              \* number of records

VARIABLES
    committed,          \* the group's committed offset
    delivered           \* records stored where no crash can lose them

deliveryVars == <<committed, delivered>>

Init == committed = 0 /\ delivered = {}

Deliver ==
    /\ \E S \in SUBSET (1..N) : delivered' = delivered \cup S
    /\ UNCHANGED committed

CommitUpTo(n) ==
    /\ n >= committed /\ 1..n \subseteq delivered
    /\ committed' = n
    /\ UNCHANGED delivered

Next == Deliver \/ \E n \in 0..N : CommitUpTo(n)

Spec == Init /\ [][Next]_deliveryVars
=============================================================================
