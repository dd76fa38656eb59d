---------------------------- MODULE LoadgenProofs ----------------------------
(***************************************************************************)
(* Theorems about module Loadgen, for every number of goroutines, calls    *)
(* and events in a batch, and about the gateway under its load.            *)
(***************************************************************************)
EXTENDS Loadgen, GatewayProofs

----------------------------------------------------------------------------
(* The gateway under load is the gateway.                                  *)

\* A gateway that serves the load generator is a gateway: what module
\* GatewayProofs proves of Spec holds of LoadSpec.
THEOREM LoadedGateway == LoadSpec => Spec
  <1>1. LoadInit => Init
    BY DEF LoadInit
  <1>2. [LoadNext]_allVars => [Next]_vars
    BY DEF LoadNext, Issue, Answer, CallFails, DeadlineExceeded, Ends, Expires, Arrives,
       Handle, Hangup, Serve, Stop, Next, Push, allVars, vars
  <1> QED BY <1>1, <1>2, PTL DEF LoadSpec, Spec

----------------------------------------------------------------------------
(* What the report says.                                                   *)

\* What the goroutines of Run do, by type; the sums of the answers follow.
LoadTypeOK ==
    /\ client \in [Goroutines -> {"looping", "calling", "ended"}]
    /\ made \in [Goroutines -> Nat]
    /\ errs \in Nat

\* The types and the gateway's accounts hold throughout.
LEMMA LoadTypeHolds == LoadSpec => [](TypeOK /\ Accounting /\ LoadTypeOK)
  <1>1. LoadInit => LoadTypeOK
    BY DEF LoadInit, LoadTypeOK
  <1>2. LoadTypeOK /\ [LoadNext]_allVars => LoadTypeOK'
    <2> SUFFICES ASSUME LoadTypeOK, [LoadNext]_allVars PROVE LoadTypeOK'
      OBVIOUS
    <2>1. ASSUME NEW g \in Goroutines, Issue(g) \/ Answer(g) \/ CallFails(g) \/ Ends(g)
          PROVE  LoadTypeOK'
      BY <2>1 DEF Issue, Answer, CallFails, Ends, LoadTypeOK
    <2>2. CASE UNCHANGED loadVars \/ Expires
      BY <2>2 DEF loadVars, Expires, LoadTypeOK
    <2> QED
      BY <2>1, <2>2
         DEF LoadNext, DeadlineExceeded, Arrives, Handle, Hangup, Serve, Stop, allVars
  <1> QED
    BY <1>1, <1>2, LoadedGateway, TypeCorrect, AccountingHolds, PTL DEF LoadSpec

\* The calls that Run has issued.
Issued == {c \in Calls : c[2] <= made[c[1]]}

OfCalls(events, A) == {e \in events : e[1] \in A}

\* The gateway handles only calls that were issued, and a goroutine waits only
\* for its latest one.
Traced ==
    /\ IsFiniteSet(Issued) /\ IsFiniteSet(Waiting)
    /\ \A c \in Calls : call[c] # "new" => c \in Issued
    /\ \A e \in accepted \cup rejected : e[1] \in Issued
    /\ \A g \in Waiting : Current(g) \in Issued

\* A is the set of calls whose answers were added up: they have returned, so
\* their events are settled, and of the other calls each one is waited for or
\* counted as an error.
Tallied(A) ==
    /\ A \subseteq Issued
    /\ \A c \in A : call[c] = "returned"
    /\ \A g \in Waiting : Current(g) \notin A
    /\ eventsAccepted = Cardinality(OfCalls(accepted, A))
    /\ eventsRejected = Cardinality(OfCalls(rejected, A))
    /\ Cardinality(Issued \ A) = errs + Cardinality(Waiting)

\* The events of a finite set of calls fit into their batches.
LEMMA EventsOfCalls ==
    ASSUME NEW U \in SUBSET Calls, IsFiniteSet(U),
           NEW S \in SUBSET Events, \A e \in S : e[1] \in U
    PROVE  /\ IsFiniteSet(S) /\ Cardinality(S) \in Nat
           /\ Cardinality(S) <= BatchSize * Cardinality(U)
  <1>1. S \subseteq U \X (1..BatchSize)
    BY LoadgenAssumption DEF Events
  <1>2. IsFiniteSet(1..BatchSize) /\ Cardinality(1..BatchSize) = BatchSize
    BY FS_Interval, LoadgenAssumption
  <1>3. /\ IsFiniteSet(U \X (1..BatchSize))
        /\ Cardinality(U \X (1..BatchSize)) = Cardinality(U) * BatchSize
    BY <1>2, FS_Product
  <1>4. IsFiniteSet(S) /\ Cardinality(S) <= Cardinality(U) * BatchSize
    BY <1>1, <1>3, FS_Subset
  <1> QED BY <1>4, FS_CardinalityType, LoadgenAssumption

\* Disjoint finite sets add up.
LEMMA DisjointSum ==
    ASSUME NEW S, NEW T, IsFiniteSet(S), IsFiniteSet(T), S \cap T = {}
    PROVE  Cardinality(S \cup T) = Cardinality(S) + Cardinality(T)
  <1>1. Cardinality(S \cap T) = 0
    BY FS_EmptySet
  <1>2. Cardinality(S) \in Nat /\ Cardinality(T) \in Nat
    BY FS_CardinalityType
  <1>3. Cardinality(S \cup T) = Cardinality(S) + Cardinality(T) - Cardinality(S \cap T)
    BY FS_Union
  <1> QED BY <1>1, <1>2, <1>3

\* A goroutine issues its next call.
LEMMA IssueTallies ==
    ASSUME LoadTypeOK, Traced, NEW A, Tallied(A), NEW g \in Goroutines, Issue(g)
    PROVE  Traced' /\ Tallied(A)'
  <1> DEFINE c == <<g, made[g] + 1>>
  <1>1. /\ c \in Calls /\ c \notin Issued /\ Issued' = Issued \cup {c} /\ Current(g)' = c
        /\ \A h \in Goroutines : h # g => Current(h)' = Current(h)
    <2>1. made' = [made EXCEPT ![g] = @ + 1] /\ c \in Calls
      BY DEF Issue
    <2>2. \A d \in Calls : d[1] \in Goroutines /\ d = <<d[1], d[2]>> /\ d[2] \in Nat
      BY LoadgenAssumption DEF Goroutines
    <2>3. \A h \in Goroutines : made[h] \in Nat /\ made'[h] = IF h = g THEN made[g] + 1 ELSE made[h]
      BY <2>1 DEF LoadTypeOK
    <2>4. c \notin Issued /\ Issued' = Issued \cup {c}
      BY <2>1, <2>2, <2>3 DEF Issued
    <2> QED BY <2>1, <2>3, <2>4 DEF Current
  <1>2. Waiting' = Waiting \cup {g} /\ g \notin Waiting
    BY DEF Issue, Waiting, LoadTypeOK
  <1>3. UNCHANGED <<call, accepted, rejected, eventsAccepted, eventsRejected, errs>>
    BY DEF Issue, vars
  <1> HIDE DEF c
  <1>4. /\ IsFiniteSet(Issued') /\ IsFiniteSet(Waiting')
        /\ Cardinality(Waiting') = Cardinality(Waiting) + 1
    BY <1>1, <1>2, FS_AddElement DEF Traced
  <1>5. Waiting \subseteq Goroutines
    BY DEF Waiting
  <1>6. Traced'
    BY <1>1, <1>2, <1>3, <1>4, <1>5 DEF Traced
  <1>7. /\ (Issued \cup {c}) \ A = (Issued \ A) \cup {c} /\ c \notin Issued \ A
        /\ IsFiniteSet(Issued \ A)
    BY <1>1, FS_Subset DEF Tallied, Traced
  <1>8. Cardinality(Issued' \ A) = Cardinality(Issued \ A) + 1
    BY <1>1, <1>7, FS_AddElement
  <1>9. Cardinality(Waiting) \in Nat /\ errs \in Nat
    BY FS_CardinalityType DEF Traced, LoadTypeOK
  <1>10. Tallied(A)'
    BY <1>1, <1>2, <1>3, <1>4, <1>5, <1>8, <1>9 DEF Tallied, OfCalls
  <1> QED BY <1>6, <1>10

\* Events of answered calls are finitely many.
LEMMA AnsweredFinite ==
    ASSUME TypeOK, Traced, NEW A, A \subseteq Issued
    PROVE  /\ IsFiniteSet(OfCalls(accepted, A)) /\ IsFiniteSet(OfCalls(rejected, A))
           /\ A \subseteq Calls /\ IsFiniteSet(A)
  <1>1. A \subseteq Calls /\ IsFiniteSet(A)
    BY FS_Subset DEF Issued, Traced
  <1>2. /\ OfCalls(accepted, A) \in SUBSET Events /\ OfCalls(rejected, A) \in SUBSET Events
        /\ \A e \in OfCalls(accepted, A) \cup OfCalls(rejected, A) : e[1] \in A
    BY DEF TypeOK, OfCalls
  <1> QED BY <1>1, <1>2, EventsOfCalls

\* A goroutine stops waiting for its call.
LEMMA StopsWaiting ==
    ASSUME LoadTypeOK, Traced, NEW g \in Goroutines, client[g] = "calling",
           client' = [client EXCEPT ![g] = "looping"],
           UNCHANGED <<vars, made>>
    PROVE  /\ g \in Waiting /\ Waiting' = Waiting \ {g} /\ Traced'
           /\ IsFiniteSet(Waiting) /\ Cardinality(Waiting) \in Nat
           /\ Cardinality(Waiting') = Cardinality(Waiting) - 1
           /\ Issued' = Issued /\ \A h \in Goroutines : Current(h)' = Current(h)
  <1>1. g \in Waiting /\ Waiting' = Waiting \ {g}
    BY DEF Waiting, LoadTypeOK
  <1>2. Issued' = Issued /\ \A h \in Goroutines : Current(h)' = Current(h)
    BY DEF Issued, Current
  <1>3. UNCHANGED <<call, accepted, rejected>> /\ Waiting \subseteq Goroutines
    BY DEF vars, Waiting
  <1>4. /\ IsFiniteSet(Waiting) /\ Cardinality(Waiting) \in Nat
        /\ IsFiniteSet(Waiting') /\ Cardinality(Waiting') = Cardinality(Waiting) - 1
    BY <1>1, FS_RemoveElement, FS_CardinalityType DEF Traced
  <1>5. Traced'
    BY <1>1, <1>2, <1>3, <1>4 DEF Traced
  <1> QED BY <1>1, <1>2, <1>4, <1>5

\* An answer moves its call to the answered ones, with all its events.
LEMMA AnswerTallies ==
    ASSUME TypeOK, LoadTypeOK, Traced, NEW A, Tallied(A), NEW g \in Goroutines, Answer(g),
           NEW c, c = Current(g)
    PROVE  Traced' /\ Tallied(A \cup {c})'
  <1> DEFINE B == A \cup {c}
  <1>1. /\ g \in Waiting /\ Waiting' = Waiting \ {g} /\ Traced'
        /\ Cardinality(Waiting) \in Nat
        /\ Cardinality(Waiting') = Cardinality(Waiting) - 1
        /\ Issued' = Issued /\ \A h \in Goroutines : Current(h)' = Current(h)
    BY StopsWaiting DEF Answer
  <1>2. c \in Issued \ A /\ call[c] = "returned"
    BY <1>1 DEF Traced, Tallied, Answer
  <1>3. ASSUME NEW events, IsFiniteSet(OfCalls(events, A)), IsFiniteSet(OfCalls(events, {c}))
        PROVE  Cardinality(OfCalls(events, B))
                   = Cardinality(OfCalls(events, A)) + CountOf(c, events)
    <2>1. /\ OfCalls(events, B) = OfCalls(events, A) \cup OfCalls(events, {c})
          /\ OfCalls(events, A) \cap OfCalls(events, {c}) = {}
      BY <1>2 DEF OfCalls
    <2>2. CountOf(c, events) = Cardinality(OfCalls(events, {c}))
      BY DEF CountOf, OfCalls
    <2> QED BY <1>3, <2>1, <2>2, DisjointSum
  <1>4. /\ IsFiniteSet(OfCalls(accepted, A)) /\ IsFiniteSet(OfCalls(rejected, A))
        /\ IsFiniteSet(OfCalls(accepted, {c})) /\ IsFiniteSet(OfCalls(rejected, {c}))
    BY <1>2, AnsweredFinite DEF Tallied
  <1>5. UNCHANGED <<call, accepted, rejected, errs>>
    BY DEF Answer, vars
  <1>6. /\ eventsAccepted' = Cardinality(OfCalls(accepted', B))
        /\ eventsRejected' = Cardinality(OfCalls(rejected', B))
    BY <1>3, <1>4, <1>5 DEF Answer, Tallied
  <1>7. Cardinality(Issued' \ B) = errs' + Cardinality(Waiting')
    <2>1. Issued' \ B = (Issued \ A) \ {c} /\ IsFiniteSet(Issued \ A)
      BY <1>1, FS_Subset DEF Traced
    <2>2. Cardinality(Issued' \ B) = Cardinality(Issued \ A) - 1
      BY <1>2, <2>1, FS_RemoveElement
    <2> QED BY <1>1, <1>5, <2>2 DEF Tallied, LoadTypeOK
  <1>8. \A h \in Waiting' : Current(h)' \notin B
    BY <1>1 DEF Waiting, Tallied, Current
  <1>9. B \subseteq Issued' /\ \A d \in B : call'[d] = "returned"
    BY <1>1, <1>2, <1>5 DEF Tallied
  <1> QED BY <1>1, <1>6, <1>7, <1>8, <1>9 DEF Tallied, OfCalls

\* A failed call counts as an error, whatever became of its events.
LEMMA FailureTallies ==
    ASSUME LoadTypeOK, Traced, NEW A, Tallied(A), NEW g \in Goroutines, CallFails(g)
    PROVE  Traced' /\ Tallied(A)'
  <1>1. /\ g \in Waiting /\ Waiting' = Waiting \ {g} /\ Traced'
        /\ Cardinality(Waiting) \in Nat
        /\ Cardinality(Waiting') = Cardinality(Waiting) - 1
        /\ Issued' = Issued /\ \A h \in Goroutines : Current(h)' = Current(h)
    BY StopsWaiting DEF CallFails
  <1>2. UNCHANGED <<call, accepted, rejected, eventsAccepted, eventsRejected>>
        /\ errs' = errs + 1 /\ errs \in Nat
    BY DEF CallFails, vars, LoadTypeOK
  <1>3. Waiting \subseteq Goroutines
    BY DEF Waiting
  <1> QED BY <1>1, <1>2, <1>3 DEF Tallied, OfCalls

\* The gateway goes on with calls that are issued and not answered; a call
\* that has returned stays so, with its events.
LEMMA GatewayTallies ==
    ASSUME TypeOK, Traced, NEW A, Tallied(A), UNCHANGED loadVars,
           \/ \E c \in Calls : Arrives(c) \/ Handle(c) \/ Hangup(c)
           \/ \E w \in Workers : Work(w)
           \/ Signal \/ Shutdown \/ Crash
    PROVE  Traced' /\ Tallied(A)'
  <1> USE DEF callVars, sinkVars
  <1>1. /\ Issued' = Issued /\ Waiting' = Waiting /\ \A g \in Goroutines : Current(g)' = Current(g)
        /\ UNCHANGED <<eventsAccepted, eventsRejected, errs>> /\ Waiting \subseteq Goroutines
    BY DEF loadVars, Issued, Waiting, Current
  <1> DEFINE KeepsAnswers ==
          /\ \A c \in Calls : /\ call'[c] # "new" => call[c] # "new" \/ c \in Issued
                              /\ call[c] = "returned" => call'[c] = "returned"
          /\ accepted \subseteq accepted' /\ rejected \subseteq rejected'
          /\ \A e \in (accepted' \ accepted) \cup (rejected' \ rejected) :
                 e[1] \in Calls /\ call[e[1]] = "running"
  <1>2. ASSUME KeepsAnswers PROVE Traced' /\ Tallied(A)'
    <2>1. Traced'
      BY <1>1, <1>2 DEF Traced
    <2>2. OfCalls(accepted', A) = OfCalls(accepted, A) /\ OfCalls(rejected', A) = OfCalls(rejected, A)
      BY <1>2 DEF OfCalls, Tallied
    <2>3. A \subseteq Calls
      BY DEF Tallied, Issued
    <2> QED BY <1>1, <1>2, <2>1, <2>2, <2>3 DEF Tallied, OfCalls
  <1>3. ASSUME NEW c \in Calls, Arrives(c) \/ Handle(c) \/ Hangup(c) PROVE KeepsAnswers
    <2>1. CASE Arrives(c)
      BY <2>1 DEF Arrives, PushBegins, Issued, TypeOK
    <2>2. CASE Accept(c) \/ Reject(c)
      BY <2>2 DEF Accept, Reject, HasMore, TypeOK
    <2>3. CASE PushReturns(c)
      BY <2>3 DEF PushReturns, TypeOK
    <2>4. CASE ClientCancels(c)
      BY <2>4 DEF ClientCancels
    <2> QED BY <1>3, <2>1, <2>2, <2>3, <2>4 DEF Handle, Hangup
  <1>4. CASE Crash
    <2>1. KeepsAnswers
      BY <1>4 DEF Crash
    <2> QED BY <1>2, <2>1
  <1>5. CASE UNCHANGED <<call, accepted, rejected>>
    <2>1. KeepsAnswers
      BY <1>5
    <2> QED BY <1>2, <2>1
  <1> HIDE DEF KeepsAnswers
  <1> QED
    BY <1>2, <1>3, <1>4, <1>5
       DEF Signal, Shutdown, Work, Receive, WriteSucceeds, WriteFails, ReadErrCount,
           WriteErrCount, WorkerExits, GracefulStop, PoolClose, PoolWait, CloseSink, ServerGoes

\* Every step keeps a set of answered calls that explains the report.
LEMMA TalliedStep ==
    ASSUME TypeOK, LoadTypeOK, Traced, \E A : Tallied(A), [LoadNext]_allVars
    PROVE  Traced' /\ \E A : Tallied(A)'
  <1>0. PICK A : Tallied(A)
    OBVIOUS
  <1>1. ASSUME NEW g \in Goroutines, Issue(g) PROVE Traced' /\ Tallied(A)'
    BY <1>0, <1>1, IssueTallies
  <1>2. ASSUME NEW g \in Goroutines, Answer(g) PROVE Traced' /\ \E B : Tallied(B)'
    <2>1. PICK c : c = Current(g)
      OBVIOUS
    <2>2. Traced' /\ Tallied(A \cup {c})'
      BY <1>0, <1>2, <2>1, AnswerTallies
    <2> QED BY <2>2
  <1>3. ASSUME NEW g \in Goroutines, CallFails(g) \/ DeadlineExceeded(g)
        PROVE  Traced' /\ Tallied(A)'
    BY <1>0, <1>3, FailureTallies DEF DeadlineExceeded
  <1>4. ASSUME Waiting' = Waiting, UNCHANGED <<vars, made, eventsAccepted, eventsRejected, errs>>
        PROVE  Traced' /\ Tallied(A)'
    <2>1. /\ Issued' = Issued /\ \A g \in Goroutines : Current(g)' = Current(g)
          /\ UNCHANGED <<call, accepted, rejected>> /\ Waiting \subseteq Goroutines
      BY <1>4 DEF Issued, Current, vars, Waiting
    <2> QED BY <1>0, <1>4, <2>1 DEF Traced, Tallied, OfCalls
  <1>5. ASSUME NEW g \in Goroutines, Ends(g) PROVE Traced' /\ Tallied(A)'
    <2>1. Waiting' = Waiting
      BY <1>5 DEF Ends, Waiting, LoadTypeOK
    <2> QED BY <1>4, <1>5, <2>1 DEF Ends
  <1>6. CASE Expires \/ UNCHANGED allVars
    <2>1. Waiting' = Waiting
      BY <1>6 DEF Expires, allVars, loadVars, Waiting
    <2> QED BY <1>4, <1>6, <2>1 DEF Expires, allVars, loadVars
  <1>7. CASE \/ \E c \in Calls : Arrives(c) \/ Handle(c) \/ Hangup(c)
             \/ \E w \in Workers : Serve(w)
             \/ (Signal \/ Crash) /\ UNCHANGED loadVars
             \/ Stop
    <2>1. /\ UNCHANGED loadVars
          /\ \/ \E c \in Calls : Arrives(c) \/ Handle(c) \/ Hangup(c)
             \/ \E w \in Workers : Work(w)
             \/ Signal \/ Shutdown \/ Crash
      BY <1>7 DEF Arrives, Handle, Hangup, Serve, Stop
    <2> QED BY <1>0, <2>1, GatewayTallies
  <1> QED
    BY <1>1, <1>2, <1>3, <1>5, <1>6, <1>7 DEF LoadNext

\* What Run reports: it never claims an accepted or rejected event that the
\* gateway did not count, and it misses at most one batch for each error it
\* counted and each call still open, although answers may be lost, late or
\* overtaken by the deadline, and the gateway may shed, stop or crash.
THEOREM ReportIsHonest == LoadSpec => []ReportHonest
  <1>1. LoadInit => Traced /\ (\E A : Tallied(A))
    <2> SUFFICES ASSUME LoadInit PROVE Traced /\ Tallied({})
      OBVIOUS
    <2>1. \A c \in Calls : c[1] \in Goroutines /\ c[2] \in Nat \ {0}
      BY LoadgenAssumption DEF Goroutines
    <2>2. Issued = {} /\ Waiting = {}
      BY <2>1 DEF LoadInit, Issued, Waiting
    <2>3. OfCalls(accepted, {}) = {} /\ OfCalls(rejected, {}) = {} /\ Issued \ {} = {}
      BY <2>2 DEF OfCalls
    <2>4. Cardinality({}) = 0 /\ IsFiniteSet({})
      BY FS_EmptySet
    <2>5. Traced
      BY <2>2, <2>4 DEF LoadInit, Init, Traced
    <2>6. eventsAccepted = 0 /\ eventsRejected = 0 /\ errs = 0
      BY DEF LoadInit
    <2>7. Tallied({})
      BY <2>2, <2>3, <2>4, <2>6 DEF Tallied
    <2> QED BY <2>5, <2>7
  <1>2. TypeOK /\ LoadTypeOK /\ Traced /\ (\E A : Tallied(A)) /\ [LoadNext]_allVars
            => Traced' /\ (\E A : Tallied(A))'
    BY TalliedStep
  <1>3. TypeOK /\ Accounting /\ LoadTypeOK /\ Traced /\ (\E A : Tallied(A)) => ReportHonest
    <2> SUFFICES ASSUME TypeOK, Accounting, LoadTypeOK, Traced, NEW A, Tallied(A)
                 PROVE  ReportHonest
      OBVIOUS
    <2> DEFINE U == Issued \ A
               accA == OfCalls(accepted, A)   rejA == OfCalls(rejected, A)
               accU == OfCalls(accepted, U)   rejU == OfCalls(rejected, U)
    <2>1. /\ accepted = accA \cup accU /\ accA \cap accU = {}
          /\ rejected = rejA \cup rejU /\ rejA \cap rejU = {}
          /\ accU \cap rejU = {}
      BY DEF OfCalls, Traced, Tallied, Accounting, AcceptedAccounted
    <2>2. /\ U \in SUBSET Calls /\ IsFiniteSet(U)
          /\ accU \cup rejU \in SUBSET Events /\ \A e \in accU \cup rejU : e[1] \in U
      BY FS_Subset DEF Traced, Issued, OfCalls, TypeOK
    <2>3. IsFiniteSet(accA) /\ IsFiniteSet(rejA) /\ IsFiniteSet(accU) /\ IsFiniteSet(rejU)
      BY AnsweredFinite DEF Tallied
    <2>4. Cardinality(accU \cup rejU) <= BatchSize * Cardinality(U)
      BY <2>2, EventsOfCalls
    <2>5. /\ eventsAccepted = Cardinality(accA) /\ eventsRejected = Cardinality(rejA)
          /\ Cardinality(U) = errs + Cardinality(Waiting)
      BY DEF Tallied
    <2> HIDE DEF accA, accU, rejA, rejU, U
    <2>6. /\ Cardinality(accepted) = Cardinality(accA) + Cardinality(accU)
          /\ Cardinality(rejected) = Cardinality(rejA) + Cardinality(rejU)
          /\ Cardinality(accU \cup rejU) = Cardinality(accU) + Cardinality(rejU)
      BY <2>1, <2>3, DisjointSum
    <2>7. /\ Cardinality(accA) \in Nat /\ Cardinality(rejA) \in Nat
          /\ Cardinality(accU) \in Nat /\ Cardinality(rejU) \in Nat
      BY <2>3, FS_CardinalityType
    <2>8. BatchSize * (errs + Cardinality(Waiting)) = BatchSize * Cardinality(U)
      BY <2>5
    <2>9. BatchSize * Cardinality(U) \in Nat
      BY <2>2, FS_CardinalityType, LoadgenAssumption
    <2> DEFINE open == BatchSize * (errs + Cardinality(Waiting))
    <2>10. open \in Nat /\ Cardinality(accU) + Cardinality(rejU) <= open
      BY <2>4, <2>6, <2>8, <2>9
    <2> HIDE DEF open
    <2>11. /\ eventsAccepted <= Cardinality(accepted)
           /\ eventsRejected <= Cardinality(rejected)
           /\ Cardinality(accepted) + Cardinality(rejected)
                  <= eventsAccepted + eventsRejected + open
      BY <2>5, <2>6, <2>7, <2>10
    <2> QED BY <2>11 DEF ReportHonest, open
  <1> QED
    BY <1>1, <1>2, <1>3, LoadTypeHolds, PTL DEF LoadSpec
=============================================================================
