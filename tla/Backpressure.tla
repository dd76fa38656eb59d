---------------------------- MODULE Backpressure ----------------------------
(***************************************************************************)
(* What the gateway's bounded pool promises: events are admitted one at a  *)
(* time while fewer than Cap of them are unfinished, an admitted event is  *)
(* finished once and never taken back, and each one is finished in the end.*)
(* A crash ends all unfinished events at once.                             *)
(***************************************************************************)
EXTENDS Naturals, FiniteSets

CONSTANTS Events, Cap

VARIABLES admitted, finished

bufferVars == <<admitted, finished>>

Init == admitted = {} /\ finished = {}

Admit(e) ==
    /\ e \notin admitted
    /\ Cardinality(admitted \ finished) < Cap
    /\ admitted' = admitted \cup {e}
    /\ UNCHANGED finished

Finish(e) ==
    /\ e \in admitted \ finished
    /\ finished' = finished \cup {e}
    /\ UNCHANGED admitted

Crash ==
    /\ finished' = admitted
    /\ UNCHANGED admitted

Next == (\E e \in Events : Admit(e) \/ Finish(e)) \/ Crash

Safety == Init /\ [][Next]_bufferVars

Spec == Safety /\ \A e \in Events : WF_bufferVars(Finish(e))
=============================================================================
