------------------------- MODULE ConsumerGroupProofs -------------------------
(***************************************************************************)
(* Theorems about module ConsumerGroup, for every number of members and    *)
(* partitions, every content of the partitions, every set of deployments   *)
(* and faults, and any number of deaths, SIGTERMs and rebalances.          *)
(***************************************************************************)
EXTENDS ConsumerGroup, WellFoundedInduction, TLAPS

----------------------------------------------------------------------------
(* Type correctness.                                                       *)

\* Where m has read up to after a poll: each partition of its own at or behind
\* its old position, the others where they were.
ReadsUpTo(m, to) ==
    /\ to \in [Partitions -> Nat]
    /\ \A p \in Partitions : pos[m][p] <= to[p] /\ to[p] <= End[p]
    /\ \A p \in Partitions : p \notin assigned[m] => to[p] = pos[m][p]
    /\ work' = [work EXCEPT ![m] =
                   {r \in Records : pos[m][r[1]] < r[2] /\ r[2] <= to[r[1]]}]
    /\ pos' = [pos EXCEPT ![m] = to]

\* A record is an offset of a partition.
LEMMA RecordParts ==
    ASSUME NEW r \in Records
    PROVE  /\ r = <<r[1], r[2]>> /\ r[1] \in Partitions
           /\ r[2] \in Nat /\ r[2] \in 1..End[r[1]]
  BY GroupAssumption DEF Records

\* What PollFetches returns.
LEMMA PollReads ==
    ASSUME TypeOK, NEW m \in Members, Poll(m)
    PROVE  \E to : ReadsUpTo(m, to)
  <1>1. PICK to \in {f \in [Partitions -> UNION {0..End[p] : p \in Partitions}] :
                         \A p \in Partitions :
                             IF p \in assigned[m] THEN f[p] \in pos[m][p]..End[p]
                                                  ELSE f[p] = pos[m][p]} :
              /\ work' = [work EXCEPT ![m] =
                             {r \in Records : pos[m][r[1]] < r[2] /\ r[2] <= to[r[1]]}]
              /\ pos' = [pos EXCEPT ![m] = to]
    BY DEF Poll
  <1>2. \A p \in Partitions : pos[m][p] \in Nat /\ End[p] \in Nat /\ pos[m][p] <= End[p]
    BY GroupAssumption DEF TypeOK
  <1>3. \A p \in Partitions : to[p] \in Nat /\ pos[m][p] <= to[p] /\ to[p] <= End[p]
    BY <1>1, <1>2
  <1>4. to \in [Partitions -> Nat] /\ \A p \in Partitions : p \notin assigned[m] => to[p] = pos[m][p]
    BY <1>1, <1>3
  <1>5. ReadsUpTo(m, to)
    BY <1>1, <1>3, <1>4 DEF ReadsUpTo
  <1> QED BY <1>5

\* Init establishes the types.
LEMMA TypeInit == Init => TypeOK
  <1> SUFFICES ASSUME Init PROVE TypeOK
    OBVIOUS
  <1>1. <<dedup, faults>> \in Deployments
    <2>1. PICK d \in Deployments : dedup = d[1] /\ faults = d[2]
      BY DEF Init
    <2>2. d \in BOOLEAN \X SUBSET FaultKinds
      BY <2>1, GroupAssumption
    <2>3. d = <<d[1], d[2]>>
      BY <2>2
    <2> QED BY <2>1, <2>3
  <1> QED BY <1>1, GroupAssumption DEF Init, TypeOK, Keys, deployment

\* The end of a process keeps the types, but for the bound on moves.
LEMMA TypeEnds ==
    ASSUME TypeOK, NEW m \in Members, NEW S \in SUBSET Records, Ends(m, S), moves' \in 0..MaxMoves
    PROVE  TypeOK'
  <1> USE GroupAssumption
  <1>1. Keys(S) \subseteq Keys(Records) /\ Held(m) \subseteq Records
    BY DEF TypeOK, Keys, Held, Claims
  <1>2. /\ owner' \in [Partitions -> Members \cup {NoMember}]
        /\ assigned' \in [Members -> SUBSET Partitions]
        /\ pos' \in [Members -> [Partitions -> Nat]]
    BY DEF Ends, TypeOK
  <1>3. \A n \in Members, p \in Partitions :
            /\ pos'[n][p] <= End[p]
            /\ p \notin assigned'[n] => pos'[n][p] = 0
            /\ owner'[p] = n => p \in assigned'[n]
    BY DEF Ends, TypeOK
  <1>4. /\ pc' \in [Members -> {"down", "poll", "handle", "flush", "commit"}]
        /\ work' \in [Members -> SUBSET Records] /\ late' \in [Members -> SUBSET Records]
        /\ \A n \in Members : pc'[n] \in {"down", "poll", "commit"} => work'[n] = {}
    BY DEF Ends, TypeOK
  <1>5. gone' \subseteq Records /\ redis' \subseteq Keys(Records) /\ term' \subseteq Members
    BY <1>1 DEF Ends, Forgotten, TypeOK
  <1> QED BY <1>2, <1>3, <1>4, <1>5 DEF Ends, TypeOK, deployment

\* Whoever dies has set keys of its own records only.
LEMMA DiesEnds ==
    ASSUME TypeOK, NEW m \in Members, Dies(m)
    PROVE  \E S \in SUBSET Records : Ends(m, S) /\ (S # {} => dedup)
  <1>1. PICK S \in IF dedup /\ pc[m] = "handle" THEN FirstOf(work[m]) ELSE {{}} : Ends(m, S)
    BY DEF Dies
  <1>2. S \in SUBSET Records /\ (S # {} => dedup)
    BY <1>1 DEF FirstOf, TypeOK
  <1> QED BY <1>1, <1>2

\* A function on members that lets go of r at m, or does not change.
LetsGo(f, g, m, r) ==
    /\ g \in [Members -> SUBSET Records]
    /\ f[m] \ {r} \subseteq g[m] /\ g[m] \subseteq f[m]
    /\ \A n \in Members : n # m => g[n] = f[n]

\* What storing an event changes.
LEMMA StoreEffect ==
    ASSUME TypeOK, NEW m \in Members, Store(m)
    PROVE  \E r \in Records : /\ r \in work[m] /\ table' = table \cup {Row(r)}
                              /\ LetsGo(work, work', m, r)
  <1>1. PICK r \in work[m], unanswered \in BOOLEAN :
            /\ table' = table \cup {Row(r)}
            /\ work' = [work EXCEPT ![m] = IF unanswered THEN @ ELSE @ \ {r}]
    BY DEF Store
  <1>2. r \in Records
    BY DEF TypeOK
  <1>3. LetsGo(work, work', m, r)
    <2>1. CASE unanswered
      BY <1>1, <2>1 DEF LetsGo, TypeOK
    <2>2. CASE ~unanswered
      BY <1>1, <2>2 DEF LetsGo, TypeOK
    <2> QED BY <2>1, <2>2
  <1> QED BY <1>1, <1>2, <1>3

\* What storing an event of the ticker changes.
LEMMA TickerStoresEffect ==
    ASSUME TypeOK, NEW m \in Members, TickerStores(m)
    PROVE  \E r \in Records : /\ r \in late[m] /\ table' = table \cup {Row(r)}
                              /\ LetsGo(late, late', m, r)
  <1>1. PICK r \in late[m], unanswered \in BOOLEAN :
            /\ table' = table \cup {Row(r)}
            /\ late' = [late EXCEPT ![m] = IF unanswered THEN @ ELSE @ \ {r}]
    BY DEF TickerStores
  <1>2. r \in Records
    BY DEF TypeOK
  <1>3. LetsGo(late, late', m, r)
    <2>1. CASE unanswered
      BY <1>1, <2>1 DEF LetsGo, TypeOK
    <2>2. CASE ~unanswered
      BY <1>1, <2>2 DEF LetsGo, TypeOK
    <2> QED BY <2>1, <2>2
  <1> QED BY <1>1, <1>2, <1>3

\* What a dead letter changes, sent or not.
LEMMA DeadLetterEffect ==
    ASSUME TypeOK, NEW m \in Members, DeadLetter(m) \/ DeadLetterFails(m)
    PROVE  \E r \in Records :
               /\ r \in work[m] \cup late[m]
               /\ LetsGo(work, work', m, r) /\ LetsGo(late, late', m, r)
               /\ dlq \subseteq dlq' /\ dlq' \subseteq Records
               /\ gone \subseteq gone' /\ gone' \subseteq Records
               /\ \/ r \in dlq' /\ gone' = gone
                  \/ m \notin term /\ "dlq" \in faults /\ r \in gone'
                  \/ m \in term /\ gone' = gone \cup Forgotten(m, {r})
  <1>1. PICK r \in Records :
            /\ Poison(m, r)
            /\ dlq' \in {dlq, dlq \cup {r}}
            /\ \/ r \in dlq' /\ gone' = gone
               \/ /\ "dlq" \in faults \/ m \in term
                  /\ gone' = gone \cup IF m \in term THEN Forgotten(m, {r}) ELSE {r}
    BY DEF DeadLetter, DeadLetterFails
  <1>2. r \in work[m] \cup late[m] /\ LetsGo(work, work', m, r) /\ LetsGo(late, late', m, r)
    <2>1. CASE r \in work[m] /\ work' = [work EXCEPT ![m] = @ \ {r}] /\ UNCHANGED late
      BY <2>1 DEF LetsGo, TypeOK
    <2>2. CASE r \in late[m] /\ late' = [late EXCEPT ![m] = @ \ {r}] /\ UNCHANGED work
      BY <2>2 DEF LetsGo, TypeOK
    <2> QED BY <1>1, <2>1, <2>2 DEF Poison
  <1>3. Forgotten(m, {r}) \subseteq {r}
    BY DEF Forgotten
  <1> QED BY <1>1, <1>2, <1>3 DEF TypeOK

\* Every step keeps the types.
LEMMA TypeStep == TypeOK /\ [Next]_vars => TypeOK'
  <1> SUFFICES ASSUME TypeOK, [Next]_vars PROVE TypeOK'
    OBVIOUS
  <1> USE GroupAssumption DEF groupVars, stores
  <1> HIDE DEF deployment
  <1>1. ASSUME NEW m \in Members, Start(m) \/ Flushed(m) \/ CommitFails(m) PROVE TypeOK'
    BY <1>1 DEF Start, Flushed, FlushDone, CommitFails, TypeOK
  <1>2. ASSUME NEW m \in Members, Dies(m) PROVE TypeOK'
    BY <1>2, DiesEnds, TypeEnds DEF Dies, CountMove, TypeOK
  <1>3. ASSUME NEW m \in Members, Exit(m) PROVE TypeOK'
    <2>1. moves' \in 0..MaxMoves /\ {} \in SUBSET Records
      BY <1>3 DEF Exit, TypeOK
    <2> QED BY <1>3, <2>1, TypeEnds DEF Exit
  <1>4. ASSUME NEW m \in Members, SigTerm(m) PROVE TypeOK'
    BY <1>4 DEF SigTerm, CountMove, TypeOK
  <1>5. ASSUME NEW m \in Members, Revoke(m) PROVE TypeOK'
    BY <1>5 DEF Revoke, Revoked, TypeOK
  <1>6. ASSUME NEW m \in Members, NEW p \in Partitions, Rebalance(p, m) PROVE TypeOK'
    <2>1. \A n \in Members : pos'[n] =
              IF n = m THEN [pos[m] EXCEPT ![p] = committed[p]] ELSE pos[n]
      BY <1>6 DEF Rebalance, TypeOK
    <2>2. pos' \in [Members -> [Partitions -> Nat]]
      BY <1>6 DEF Rebalance, TypeOK
    <2>3. \A n \in Members, q \in Partitions :
              pos'[n][q] = IF n = m /\ q = p THEN committed[p] ELSE pos[n][q]
      BY <2>1 DEF TypeOK
    <2>4. moves' \in 0..MaxMoves
      BY <1>6 DEF Rebalance, CountMove, TypeOK
    <2> QED BY <1>6, <2>2, <2>3, <2>4 DEF Rebalance, TypeOK
  <1>7. ASSUME NEW m \in Members, Poll(m) PROVE TypeOK'
    <2>1. PICK to : ReadsUpTo(m, to)
      BY <1>7, PollReads
    <2> QED BY <1>7, <2>1 DEF ReadsUpTo, Poll, TypeOK
  <1>8. ASSUME NEW m \in Members, handleBatch(m) PROVE TypeOK'
    <2>1. Keys(work[m]) \subseteq Keys(Records) /\ Unseen(work[m]) \subseteq work[m]
      BY DEF TypeOK, Keys, Unseen
    <2> QED BY <1>8, <2>1 DEF handleBatch, TypeOK
  <1>9. ASSUME NEW m \in Members, SeenBatchFails(m) PROVE TypeOK'
    <2>1. redis' \subseteq Keys(Records)
      BY <1>9 DEF SeenBatchFails, FirstOf, Keys, TypeOK
    <2> QED BY <1>9, <2>1 DEF SeenBatchFails, TypeOK
  <1>10. ASSUME NEW m \in Members, Store(m) PROVE TypeOK'
    <2>1. PICK r \in Records : /\ r \in work[m] /\ table' = table \cup {Row(r)}
                              /\ LetsGo(work, work', m, r)
      BY <1>10, StoreEffect
    <2>2. \A n \in Members : work'[n] \subseteq work[n]
      BY <2>1 DEF LetsGo
    <2>3. work' \in [Members -> SUBSET Records] /\ table' \subseteq {Row(t) : t \in Records}
      BY <2>1 DEF LetsGo, TypeOK
    <2> QED BY <1>10, <2>2, <2>3 DEF Store, TypeOK
  <1>11. ASSUME NEW m \in Members, TickerTakes(m) PROVE TypeOK'
    BY <1>11 DEF TickerTakes, TypeOK
  <1>12. ASSUME NEW m \in Members, DeadLetter(m) \/ DeadLetterFails(m) PROVE TypeOK'
    <2>1. PICK r \in Records : /\ LetsGo(work, work', m, r) /\ LetsGo(late, late', m, r)
                              /\ dlq' \subseteq Records /\ gone' \subseteq Records
      BY <1>12, DeadLetterEffect
    <2>2. \A n \in Members : work'[n] \subseteq work[n]
      BY <2>1 DEF LetsGo
    <2>3. work' \in [Members -> SUBSET Records] /\ late' \in [Members -> SUBSET Records]
      BY <2>1 DEF LetsGo
    <2>4. UNCHANGED <<deployment, owner, assigned, committed, pos, pc, term, redis, table, moves>>
      BY <1>12 DEF DeadLetter, DeadLetterFails
    <2> QED BY <2>1, <2>2, <2>3, <2>4 DEF TypeOK
  <1>13. ASSUME NEW m \in Members, Commit(m) PROVE TypeOK'
    BY <1>13 DEF Commit, TypeOK
  <1>14. CASE KeyExpires
    BY <1>14 DEF KeyExpires, TypeOK
  <1>15. ASSUME NEW m \in Members, TickerStores(m) PROVE TypeOK'
    <2>1. PICK r \in Records : /\ r \in late[m] /\ table' = table \cup {Row(r)}
                              /\ LetsGo(late, late', m, r)
      BY <1>15, TickerStoresEffect
    <2>2. late' \in [Members -> SUBSET Records] /\ table' \subseteq {Row(t) : t \in Records}
      BY <2>1 DEF LetsGo, TypeOK
    <2> QED BY <1>15, <2>2 DEF TickerStores, TypeOK
  <1>16. CASE UNCHANGED vars
    BY <1>16 DEF vars, TypeOK
  <1> QED
    BY <1>1, <1>2, <1>3, <1>4, <1>5, <1>6, <1>7, <1>8, <1>9, <1>10, <1>11, <1>12, <1>13,
       <1>14, <1>15, <1>16 DEF Next, Run, Ticker

\* Members, coordinator and stores keep their types: a member that owns a
\* partition knows of it, has a position only in partitions of its own, and
\* polls and commits with nothing of its round left in hand.
THEOREM GroupTypeCorrect == Spec => []TypeOK
  BY TypeInit, TypeStep, PTL DEF Spec

----------------------------------------------------------------------------
(* Commits.                                                                *)

\* The owner of a partition has read at least up to the committed offset.
OwnerAhead ==
    \A p \in Partitions, m \in Members : owner[p] = m => pos[m][p] >= committed[p]

\* A commit that the coordinator takes covers only partitions of the member.
LEMMA CommitIsOwners ==
    ASSUME TypeOK, NEW m \in Members, Commit(m)
    PROVE  /\ \A p \in assigned[m] : owner[p] = m
           /\ \A p \in Partitions :
                  committed'[p] = IF p \in assigned[m] THEN pos[m][p] ELSE committed[p]
  BY DEF Commit, CurrentGeneration, Revoked, TypeOK

\* Whoever dies or exits owns nothing any more.
LEMMA EndsFreed ==
    ASSUME TypeOK, NEW m \in Members, Dies(m) \/ Exit(m)
    PROVE  /\ committed' = committed /\ deployment' = deployment
           /\ assigned' = [assigned EXCEPT ![m] = {}]
           /\ owner' = [p \in Partitions |-> IF owner[p] = m THEN NoMember ELSE owner[p]]
           /\ \A n \in Members : n # m => pos'[n] = pos[n] /\ work'[n] = work[n]
                                          /\ late'[n] = late[n] /\ pc'[n] = pc[n]
           /\ term' = term \ {m} /\ pc'[m] = "down"
           /\ late'[m] = {} /\ work'[m] = {} /\ table' = table /\ dlq' = dlq
           /\ redis \subseteq redis' /\ gone \subseteq gone'
           /\ Forgotten(m, Held(m)) \subseteq gone'
  <1>1. PICK S : Ends(m, S)
    BY DEF Dies, Exit
  <1> QED BY <1>1 DEF Ends, TypeOK, deployment

\* Every step keeps owners ahead of the committed offset.
LEMMA OwnerAheadStep == TypeOK /\ OwnerAhead /\ [Next]_vars => OwnerAhead'
  <1> SUFFICES ASSUME TypeOK, OwnerAhead, [Next]_vars PROVE OwnerAhead'
    OBVIOUS
  <1> USE DEF groupVars
  <1>1. ASSUME NEW m \in Members, Dies(m) \/ Exit(m) PROVE OwnerAhead'
    BY <1>1, EndsFreed, GroupAssumption DEF OwnerAhead, TypeOK
  <1>2. ASSUME NEW m \in Members, Revoke(m) PROVE OwnerAhead'
    BY <1>2 DEF Revoke, Revoked, OwnerAhead, TypeOK
  <1>3. ASSUME NEW m \in Members, NEW p \in Partitions, Rebalance(p, m) PROVE OwnerAhead'
    BY <1>3 DEF Rebalance, OwnerAhead, TypeOK
  <1>4. ASSUME NEW m \in Members, Poll(m) PROVE OwnerAhead'
    <2>1. PICK to : ReadsUpTo(m, to)
      BY <1>4, PollReads
    <2>2. \A n \in Members, p \in Partitions : pos'[n][p] >= pos[n][p] /\ pos'[n][p] \in Nat
      BY <2>1 DEF ReadsUpTo, TypeOK
    <2> QED BY <1>4, <2>2 DEF Poll, OwnerAhead, TypeOK
  <1>5. ASSUME NEW m \in Members, Commit(m) PROVE OwnerAhead'
    <2>1. ASSUME NEW p \in Partitions, NEW n \in Members, owner'[p] = n
          PROVE  pos'[n][p] >= committed'[p]
      <3>1. owner[p] = n /\ pos' = pos
        BY <1>5, <2>1 DEF Commit
      <3>2. CASE p \in assigned[m]
        <4>1. n = m /\ committed'[p] = pos[m][p]
          BY <1>5, <3>1, <3>2, CommitIsOwners
        <4> QED BY <3>1, <4>1 DEF TypeOK
      <3>3. CASE p \notin assigned[m]
        BY <1>5, <3>1, <3>3, CommitIsOwners DEF OwnerAhead
      <3> QED BY <3>2, <3>3
    <2> QED BY <2>1 DEF OwnerAhead
  <1>6. CASE UNCHANGED <<owner, pos, committed>>
    BY <1>6 DEF OwnerAhead
  <1> QED
    BY <1>1, <1>2, <1>3, <1>4, <1>5, <1>6
       DEF Next, Run, Ticker, Start, SigTerm, KeyExpires, handleBatch, SeenBatchFails, Store,
           TickerTakes, TickerStores, DeadLetter, DeadLetterFails, Flushed, CommitFails, vars

\* No step takes a committed offset back.
LEMMA CommitsStep ==
    ASSUME TypeOK, OwnerAhead, [Next]_vars, NEW p \in Partitions
    PROVE  committed'[p] >= committed[p]
  <1>1. ASSUME NEW m \in Members, Commit(m) PROVE committed'[p] >= committed[p]
    BY <1>1, CommitIsOwners DEF OwnerAhead, TypeOK
  <1>2. ASSUME committed' = committed PROVE committed'[p] >= committed[p]
    BY <1>2 DEF TypeOK
  <1>3. ASSUME NEW m \in Members, Dies(m) \/ Exit(m) PROVE committed' = committed
    BY <1>3, EndsFreed
  <1> QED
    BY <1>1, <1>2, <1>3
       DEF Next, Run, Ticker, Start, SigTerm, KeyExpires, Revoke, Rebalance, Poll, handleBatch,
           SeenBatchFails, Store, TickerTakes, TickerStores, DeadLetter, DeadLetterFails,
           Flushed, CommitFails, groupVars, vars

\* However late an old owner commits, and whoever read what in between, no
\* commit takes the committed offset of a partition back: a takeover never
\* reads again what an earlier owner had committed.
THEOREM CommitsNeverGoBack == Spec => CommitsAdvance
  <1>1. Init => OwnerAhead
    BY DEF Init, OwnerAhead
  <1>2. TypeOK /\ OwnerAhead /\ [Next]_vars
            => [\A p \in Partitions : committed'[p] >= committed[p]]_vars
    BY CommitsStep
  <1> QED BY <1>1, <1>2, TypeInit, TypeStep, OwnerAheadStep, PTL DEF Spec, CommitsAdvance

----------------------------------------------------------------------------
(* The keys that a member sets in Redis.                                   *)

\* A set of numbers that is not empty has a least one.
LEMMA LeastNat ==
    ASSUME NEW T, T \subseteq Nat, T # {}
    PROVE  \E x \in T : \A y \in T : x <= y
  <1>1. IsWellFoundedOn(OpToRel(<, Nat), Nat)
    BY NatLessThanWellFounded, Zenon
  <1>2. PICK x \in T : \A y \in T : ~ (<<y, x>> \in OpToRel(<, Nat))
    BY <1>1, WFMin, Zenon
  <1>3. \A y \in T : ~ (y < x)
    BY <1>2, Zenon DEF OpToRel
  <1> QED BY <1>3

\* Of the copies of an event whose key is not in Redis, SeenBatch lets one
\* pass: the first.
LEMMA OneCopyPasses ==
    ASSUME NEW R \in SUBSET Records
    PROVE  /\ Unseen(R) \subseteq R
           /\ Keys(R) \subseteq redis \cup Keys(Unseen(R))
           /\ \A r, s \in Unseen(R) : KeyOf[r] = KeyOf[s] => r = s
  <1>1. Unseen(R) \subseteq R
    BY DEF Unseen
  <1>2. ASSUME NEW k \in Keys(R), k \notin redis PROVE k \in Keys(Unseen(R))
    <2> DEFINE C == {r \in R : KeyOf[r] = k}
               T == {r[2] : r \in C}
    <2>1. T \subseteq Nat /\ T # {}
      BY RecordParts DEF Keys
    <2>2. PICK x \in T : \A y \in T : x <= y
      BY <2>1, LeastNat
    <2>3. PICK r \in C : x = r[2]
      BY <2>2
    <2>4. r \in Unseen(R)
      BY <1>2, <2>2, <2>3 DEF Unseen
    <2> QED BY <2>3, <2>4 DEF Keys
  <1>3. ASSUME NEW r \in Unseen(R), NEW s \in Unseen(R), KeyOf[r] = KeyOf[s] PROVE r = s
    <2>1. r[2] <= s[2] /\ s[2] <= r[2] /\ r \in Records /\ s \in Records
      BY <1>3 DEF Unseen
    <2>2. r[1] = s[1]
      BY <1>3, <2>1, GroupAssumption
    <2>3. r[2] = s[2]
      BY <2>1, RecordParts
    <2> QED BY <2>1, <2>2, <2>3, RecordParts
  <1> QED BY <1>1, <1>2, <1>3

----------------------------------------------------------------------------
(* What is committed is covered.                                           *)

\* A settled question for record r at its reader m: with dedup its event is
\* covered; without it, r is committed or kept, or was let go for good, or m
\* has it in its ticker, or m will never commit it.
Answered(m, r) ==
    IF dedup THEN Covered(r)
             ELSE Committed(r) \/ Kept(r) \/ r \in gone \/ r \in late[m] \/ m \in term

\* What a member has read of its partitions is in hand or answered for.
ReadCovered ==
    \A m \in Members, r \in Records :
        r[1] \in assigned[m] /\ r[2] <= pos[m][r[1]] => r \in work[m] \/ Answered(m, r)

\* A key in Redis is that of an event that is covered.
KeysKept == dedup => \A r \in Records : KeyOf[r] \in redis => Covered(r)

\* The deployment does not change; the stores only grow.
LEMMA StoresGrow ==
    ASSUME TypeOK, [Next]_vars
    PROVE  /\ dedup' = dedup /\ faults' = faults
           /\ table \subseteq table' /\ dlq \subseteq dlq' /\ gone \subseteq gone'
  <1>1. ASSUME NEW m \in Members, Dies(m) \/ Exit(m)
        PROVE  /\ dedup' = dedup /\ faults' = faults
               /\ table \subseteq table' /\ dlq \subseteq dlq' /\ gone \subseteq gone'
    BY <1>1, EndsFreed DEF deployment
  <1> QED
    BY <1>1 DEF Next, Run, Ticker, Start, SigTerm, KeyExpires, Revoke, Rebalance, Poll, handleBatch,
           SeenBatchFails, Store, TickerTakes, TickerStores, DeadLetter, DeadLetterFails,
           Flushed, Commit, CommitFails, deployment, stores, vars

\* A kept record stays kept.
LEMMA KeptStays ==
    ASSUME TypeOK, [Next]_vars, NEW r \in Records, Kept(r)
    PROVE  Kept(r)'
  BY StoresGrow DEF Kept, Row

\* A step of m leaves what the others hold alone.
LEMMA OthersKeep ==
    ASSUME TypeOK, NEW m \in Members, NEW n \in Members, n # m,
           \/ Start(m) \/ Dies(m) \/ SigTerm(m) \/ Revoke(m) \/ Run(m) \/ Ticker(m)
           \/ \E p \in Partitions : Rebalance(p, m)
    PROVE  pc'[n] = pc[n] /\ work'[n] = work[n] /\ late'[n] = late[n]
  <1>1. CASE Dies(m) \/ Exit(m)
    BY <1>1, EndsFreed
  <1>2. CASE Store(m)
    BY <1>2, StoreEffect DEF Store, LetsGo
  <1>3. CASE TickerStores(m)
    BY <1>3, TickerStoresEffect DEF TickerStores, LetsGo
  <1>4. CASE DeadLetter(m) \/ DeadLetterFails(m)
    <2>1. pc' = pc
      BY <1>4 DEF DeadLetter, DeadLetterFails
    <2> QED BY <1>4, <2>1, DeadLetterEffect DEF LetsGo
  <1>5. CASE handleBatch(m) \/ SeenBatchFails(m) \/ TickerTakes(m)
    BY <1>5 DEF handleBatch, SeenBatchFails, TickerTakes, TypeOK
  <1>6. CASE \/ Start(m) \/ SigTerm(m) \/ Revoke(m) \/ Poll(m) \/ Flushed(m) \/ Commit(m)
             \/ CommitFails(m) \/ \E p \in Partitions : Rebalance(p, m)
    BY <1>6 DEF Start, SigTerm, Revoke, Poll, Flushed, Commit, CommitFails, Rebalance, TypeOK
  <1> QED BY <1>1, <1>2, <1>3, <1>4, <1>5, <1>6 DEF Run, Ticker

\* What m holds with its key set or its offset committed, it goes on holding
\* until it is stored, dead-lettered or known to be gone.
LEMMA HeldStays ==
    ASSUME TypeOK, [Next]_vars, NEW m \in Members, NEW r \in Records,
           r \in Held(m), dedup \/ Committed(r)
    PROVE  Kept(r)' \/ r \in gone' \/ r \in Held(m)'
  <1>0. dedup' = dedup
    BY StoresGrow
  <1>a. ASSUME pc'[m] = pc[m], work[m] \subseteq work'[m], late[m] \subseteq late'[m]
        PROVE  r \in Held(m)'
    BY <1>0, <1>a DEF Held, Claims
  <1>b. \/ r \in late[m]
        \/ r \in work[m] /\ dedup /\ pc[m] = "flush"
    BY DEF Held, Claims
  <1>1. ASSUME NEW n \in Members, n # m,
               \/ Start(n) \/ Dies(n) \/ SigTerm(n) \/ Revoke(n) \/ Run(n) \/ Ticker(n)
               \/ \E p \in Partitions : Rebalance(p, n)
        PROVE  r \in Held(m)'
    BY <1>a, <1>1, OthersKeep
  <1>2. CASE Dies(m) \/ Exit(m)
    <2>1. Forgotten(m, Held(m)) \subseteq gone'
      BY <1>2, EndsFreed
    <2>2. r \in Forgotten(m, Held(m))
      BY <1>b DEF Forgotten
    <2> QED BY <2>1, <2>2
  <1>3. CASE SigTerm(m) \/ Revoke(m) \/ \E p \in Partitions : Rebalance(p, m)
    BY <1>a, <1>3 DEF SigTerm, Revoke, Rebalance
  <1>4. CASE Start(m) \/ Poll(m) \/ handleBatch(m) \/ SeenBatchFails(m) \/ Commit(m) \/ CommitFails(m)
    <2>1. late' = late /\ pc[m] # "flush"
      BY <1>4 DEF Start, Poll, handleBatch, SeenBatchFails, Commit, CommitFails
    <2> QED BY <1>b, <2>1 DEF Held
  <1>5. CASE Flushed(m)
    BY <1>b, <1>5 DEF Flushed, FlushDone, Held
  <1>6. CASE Store(m)
    <2>1. PICK t \in Records : /\ t \in work[m] /\ table' = table \cup {Row(t)}
                              /\ LetsGo(work, work', m, t)
      BY <1>6, StoreEffect
    <2>2. pc' = pc /\ late' = late
      BY <1>6 DEF Store
    <2>3. CASE r = t
      BY <2>1, <2>3 DEF Kept, Row
    <2>4. CASE r # t
      BY <1>0, <1>b, <2>1, <2>2, <2>4 DEF LetsGo, Held, Claims
    <2> QED BY <2>3, <2>4
  <1>7. CASE TickerTakes(m)
    BY <1>0, <1>b, <1>7 DEF TickerTakes, Held, Claims, TypeOK
  <1>8. CASE TickerStores(m)
    <2>1. PICK t \in Records : /\ t \in late[m] /\ table' = table \cup {Row(t)}
                              /\ LetsGo(late, late', m, t)
      BY <1>8, TickerStoresEffect
    <2>2. pc' = pc /\ work' = work
      BY <1>8 DEF TickerStores
    <2>3. CASE r = t
      BY <2>1, <2>3 DEF Kept, Row
    <2>4. CASE r # t
      BY <1>0, <1>b, <2>1, <2>2, <2>4 DEF LetsGo, Held, Claims
    <2> QED BY <2>3, <2>4
  <1>9. CASE DeadLetter(m) \/ DeadLetterFails(m)
    <2>1. PICK t \in Records :
              /\ LetsGo(work, work', m, t) /\ LetsGo(late, late', m, t)
              /\ t \in dlq' \/ t \in gone' \/ gone' = gone \cup Forgotten(m, {t})
      BY <1>9, DeadLetterEffect
    <2>2. pc' = pc
      BY <1>9 DEF DeadLetter, DeadLetterFails
    <2>3. CASE r = t
      <3>1. r \in Forgotten(m, {r})
        BY <1>b DEF Forgotten
      <3> QED BY <2>1, <2>3, <3>1 DEF Kept
    <2>4. CASE r # t
      BY <1>0, <1>b, <2>1, <2>2, <2>4 DEF LetsGo, Held, Claims
    <2> QED BY <2>3, <2>4
  <1>10. CASE KeyExpires \/ UNCHANGED vars
    BY <1>a, <1>10 DEF KeyExpires, vars
  <1>11. ASSUME NEW n \in Members,
               \/ Start(n) \/ Dies(n) \/ SigTerm(n) \/ Revoke(n) \/ Run(n) \/ Ticker(n)
               \/ \E p \in Partitions : Rebalance(p, n)
        PROVE  Kept(r)' \/ r \in gone' \/ r \in Held(m)'
    <2>1. CASE n # m
      BY <1>1, <1>11, <2>1
    <2>2. CASE n = m
      BY <1>2, <1>3, <1>4, <1>5, <1>6, <1>7, <1>8, <1>9, <1>11, <2>2 DEF Run, Ticker
    <2> QED BY <2>1, <2>2
  <1> QED BY <1>10, <1>11 DEF Next

\* A covered event stays covered, if no redelivery is expected of it.
LEMMA CoveredStays ==
    ASSUME TypeOK, [Next]_vars, NEW r \in Records, Covered(r), dedup \/ Committed(r)
    PROVE  Covered(r)'
  <1>1. PICK s \in Copies(r) : Kept(s) \/ s \in gone \/ \E m \in Members : s \in Held(m)
    BY DEF Covered
  <1>2. dedup' = dedup /\ gone \subseteq gone'
    BY StoresGrow
  <1>3. s \in Records /\ s \in Copies(r)' /\ (dedup \/ Committed(s))
    BY <1>1, <1>2 DEF Copies
  <1>4. Kept(s)' \/ s \in gone' \/ \E m \in Members : s \in Held(m)'
    BY <1>1, <1>2, <1>3, KeptStays, HeldStays
  <1> QED BY <1>3, <1>4 DEF Covered

\* A record that is kept, gone or held covers itself.
LEMMA CoversItself ==
    ASSUME NEW r \in Records, Kept(r) \/ r \in gone \/ \E m \in Members : r \in Held(m)
    PROVE  Covered(r)
  BY DEF Covered, Copies

\* A member with keys in Redis for a batch covers the events of the batch: it
\* holds the first copy of each that was not covered before.
LEMMA BatchCovered ==
    ASSUME TypeOK, [Next]_vars, KeysKept, dedup, NEW m \in Members, handleBatch(m),
           NEW r \in Records, KeyOf[r] \in Keys(work[m])
    PROVE  Covered(r)'
  <1>1. work[m] \in SUBSET Records
    BY DEF TypeOK
  <1>2. CASE KeyOf[r] \in redis
    BY <1>2, CoveredStays DEF KeysKept
  <1>3. CASE KeyOf[r] \notin redis
    <2>1. KeyOf[r] \in Keys(Unseen(work[m])) /\ Unseen(work[m]) \subseteq work[m]
      BY <1>1, <1>3, OneCopyPasses
    <2>2. PICK s \in Unseen(work[m]) : KeyOf[s] = KeyOf[r]
      BY <2>1 DEF Keys
    <2>3. dedup' = dedup /\ pc'[m] = "flush" /\ work'[m] = Unseen(work[m])
      BY StoresGrow DEF handleBatch, TypeOK
    <2>4. s \in Held(m)' /\ s \in Records
      BY <1>1, <2>1, <2>2, <2>3 DEF Held, Claims
    <2>5. s \in Copies(r)'
      BY <2>2, <2>3, <2>4 DEF Copies
    <2> QED BY <2>4, <2>5 DEF Covered
  <1> QED BY <1>2, <1>3

\* A record in the hands of m stays there until it is answered for, unless m
\* ends.
LEMMA WorkStays ==
    ASSUME TypeOK, [Next]_vars, KeysKept, NEW m \in Members, NEW r \in Records, r \in work[m],
           ~Dies(m), ~Exit(m)
    PROVE  r \in work'[m] \/ Answered(m, r)'
  <1>0. dedup' = dedup
    BY StoresGrow
  <1>a. ASSUME Kept(r)' \/ r \in gone' \/ r \in late'[m] PROVE Answered(m, r)'
    <2>1. dedup => Covered(r)'
      BY <1>a DEF Covered, Copies, Held
    <2> QED BY <1>0, <1>a, <2>1 DEF Answered
  <1>1. CASE Poll(m)
    BY <1>1 DEF Poll, TypeOK
  <1>2. CASE handleBatch(m)
    <2>1. CASE dedup
      <3>1. Covered(r)'
        BY <1>2, <2>1, BatchCovered DEF Keys
      <3> QED BY <1>0, <2>1, <3>1 DEF Answered
    <2>2. CASE ~dedup
      BY <1>2, <2>2 DEF handleBatch, TypeOK
    <2> QED BY <2>1, <2>2
  <1>3. CASE Store(m)
    <2>1. PICK t \in Records : table' = table \cup {Row(t)} /\ LetsGo(work, work', m, t)
      BY <1>3, StoreEffect
    <2>2. r # t => r \in work'[m]
      BY <2>1 DEF LetsGo
    <2>3. r = t => Kept(r)'
      BY <2>1 DEF Kept, Row
    <2> QED BY <1>a, <2>2, <2>3
  <1>4. CASE TickerTakes(m)
    BY <1>a, <1>4 DEF TickerTakes, TypeOK
  <1>5. CASE DeadLetter(m) \/ DeadLetterFails(m)
    <2>1. PICK t \in Records :
              /\ LetsGo(work, work', m, t)
              /\ \/ t \in dlq' \/ t \in gone'
                 \/ m \in term /\ gone' = gone \cup Forgotten(m, {t})
      BY <1>5, DeadLetterEffect
    <2>2. r # t => r \in work'[m]
      BY <2>1 DEF LetsGo
    <2>3. CASE r = t /\ (t \in dlq' \/ t \in gone')
      BY <1>a, <2>3 DEF Kept
    <2>4. CASE r = t /\ m \in term /\ gone' = gone \cup Forgotten(m, {t})
      <3>1. term' = term
        BY <1>5 DEF DeadLetter, DeadLetterFails
      <3>2. dedup => r \in gone'
        BY <2>4 DEF Forgotten
      <3>3. CASE dedup
        BY <1>a, <3>2, <3>3
      <3>4. CASE ~dedup
        BY <1>0, <2>4, <3>1, <3>4 DEF Answered
      <3> QED BY <3>3, <3>4
    <2> QED BY <2>1, <2>2, <2>3, <2>4
  <1>6. CASE \/ Start(m) \/ SigTerm(m) \/ Revoke(m) \/ SeenBatchFails(m) \/ Flushed(m)
             \/ Commit(m) \/ CommitFails(m) \/ TickerStores(m) \/ KeyExpires
             \/ (\E p \in Partitions : Rebalance(p, m)) \/ UNCHANGED vars
    BY <1>6 DEF Start, SigTerm, Revoke, SeenBatchFails, Flushed, Commit, CommitFails, TickerStores,
       KeyExpires, Rebalance, vars
  <1>7. ASSUME NEW n \in Members, n # m,
               \/ Start(n) \/ Dies(n) \/ SigTerm(n) \/ Revoke(n) \/ Run(n) \/ Ticker(n)
               \/ \E p \in Partitions : Rebalance(p, n)
        PROVE  r \in work'[m]
    BY <1>7, OthersKeep
  <1> QED BY <1>1, <1>2, <1>3, <1>4, <1>5, <1>6, <1>7 DEF Next, Run, Ticker

\* A member's context stays cancelled until it ends.
LEMMA TermStays ==
    ASSUME TypeOK, [Next]_vars, NEW m \in Members, m \in term, ~Dies(m), ~Exit(m)
    PROVE  m \in term'
  <1>1. ASSUME NEW n \in Members, Dies(n) \/ Exit(n) PROVE m \in term'
    BY <1>1, EndsFreed
  <1> QED
    BY <1>1 DEF Next, Run, Ticker, Start, SigTerm, KeyExpires, Revoke, Rebalance, Poll, handleBatch,
       SeenBatchFails, Store, TickerTakes, TickerStores, DeadLetter, DeadLetterFails,
       Flushed, Commit, CommitFails, vars

\* What the ticker of m holds, it holds until it is answered for.
LEMMA LateStays ==
    ASSUME TypeOK, [Next]_vars, NEW m \in Members, NEW r \in Records, r \in late[m],
           ~Dies(m), ~Exit(m)
    PROVE  Kept(r)' \/ r \in gone' \/ r \in late'[m] \/ m \in term'
  <1>1. CASE TickerStores(m)
    <2>1. PICK t \in Records : table' = table \cup {Row(t)} /\ LetsGo(late, late', m, t)
      BY <1>1, TickerStoresEffect
    <2>2. r # t => r \in late'[m]
      BY <2>1 DEF LetsGo
    <2>3. r = t => Kept(r)'
      BY <2>1 DEF Kept, Row
    <2> QED BY <2>2, <2>3
  <1>2. CASE DeadLetter(m) \/ DeadLetterFails(m)
    <2>1. PICK t \in Records :
              /\ LetsGo(late, late', m, t)
              /\ t \in dlq' \/ t \in gone' \/ m \in term
      BY <1>2, DeadLetterEffect
    <2>2. r # t => r \in late'[m]
      BY <2>1 DEF LetsGo
    <2> QED BY <2>1, <2>2, TermStays DEF Kept
  <1>3. CASE \/ Start(m) \/ SigTerm(m) \/ Revoke(m) \/ Poll(m) \/ handleBatch(m)
             \/ SeenBatchFails(m) \/ Flushed(m) \/ Commit(m) \/ CommitFails(m) \/ Store(m)
             \/ KeyExpires \/ (\E p \in Partitions : Rebalance(p, m)) \/ UNCHANGED vars
    BY <1>3 DEF Start, SigTerm, Revoke, Poll, handleBatch, SeenBatchFails, Flushed, Commit,
       CommitFails, Store, KeyExpires, Rebalance, vars
  <1>4. CASE TickerTakes(m)
    BY <1>4 DEF TickerTakes, TypeOK
  <1>5. ASSUME NEW n \in Members, n # m,
               \/ Start(n) \/ Dies(n) \/ SigTerm(n) \/ Revoke(n) \/ Run(n) \/ Ticker(n)
               \/ \E p \in Partitions : Rebalance(p, n)
        PROVE  r \in late'[m]
    BY <1>5, OthersKeep
  <1> QED BY <1>1, <1>2, <1>3, <1>4, <1>5 DEF Next, Run, Ticker

\* An answer stands, unless the reader ends.
LEMMA AnswerStays ==
    ASSUME TypeOK, OwnerAhead, [Next]_vars, NEW m \in Members, NEW r \in Records, Answered(m, r),
           ~Dies(m), ~Exit(m)
    PROVE  Answered(m, r)'
  <1>0. dedup' = dedup /\ gone \subseteq gone'
    BY StoresGrow
  <1>1. CASE dedup
    BY <1>0, <1>1, CoveredStays DEF Answered
  <1>2. CASE ~dedup
    <2>1. Committed(r) => Committed(r)'
      <3>1. r[1] \in Partitions /\ r[2] \in Nat
        BY RecordParts
      <3>2. committed'[r[1]] >= committed[r[1]] /\ committed[r[1]] \in Nat /\ committed'[r[1]] \in Nat
        BY <3>1, CommitsStep, TypeStep DEF TypeOK
      <3> QED BY <3>1, <3>2 DEF Committed
    <2>2. Kept(r) => Kept(r)'
      BY KeptStays
    <2>3. m \in term => m \in term'
      BY TermStays
    <2>4. r \in late[m] => Kept(r)' \/ r \in gone' \/ r \in late'[m] \/ m \in term'
      BY LateStays
    <2> QED BY <1>0, <1>2, <2>1, <2>2, <2>3, <2>4 DEF Answered
  <1> QED BY <1>1, <1>2

\* Every step keeps what a member has read in hand or answered for.
LEMMA ReadCoveredStep ==
    TypeOK /\ OwnerAhead /\ GroupCovered /\ KeysKept /\ ReadCovered /\ [Next]_vars => ReadCovered'
  <1> SUFFICES ASSUME TypeOK, OwnerAhead, GroupCovered, KeysKept, ReadCovered, [Next]_vars,
                      NEW m \in Members, NEW r \in Records,
                      r[1] \in assigned'[m], r[2] <= pos'[m][r[1]]
               PROVE  r \in work'[m] \/ Answered(m, r)'
    BY DEF ReadCovered
  <1>1. ~Dies(m) /\ ~Exit(m)
    <2>1. ASSUME Dies(m) \/ Exit(m) PROVE assigned'[m] = {}
      BY <2>1, EndsFreed DEF TypeOK
    <2> QED BY <2>1
  <1>2. r[1] \in Partitions /\ r[2] \in Nat /\ r[2] > 0
    BY RecordParts
  <1>3. CASE r[1] \in assigned[m] /\ r[2] <= pos[m][r[1]]
    BY <1>1, <1>3, WorkStays, AnswerStays DEF ReadCovered
  <1>4. ASSUME Committed(r) PROVE r \in work'[m] \/ Answered(m, r)'
    <2>1. Answered(m, r)
      BY <1>4 DEF Answered, GroupCovered
    <2> QED BY <1>1, <2>1, AnswerStays
  <1>5. CASE Poll(m)
    <2>1. PICK to : ReadsUpTo(m, to)
      BY <1>5, PollReads
    <2>2. /\ assigned' = assigned /\ pos'[m] = to
          /\ work'[m] = {t \in Records : pos[m][t[1]] < t[2] /\ t[2] <= to[t[1]]}
      BY <1>5, <2>1 DEF Poll, ReadsUpTo, TypeOK, groupVars
    <2>3. pos[m][r[1]] \in Nat
      BY <1>2 DEF TypeOK
    <2> QED BY <1>2, <1>3, <2>2, <2>3
  <1>6. ASSUME NEW p \in Partitions, Rebalance(p, m) PROVE r \in work'[m] \/ Answered(m, r)'
    <2>1. \/ r[1] = p /\ pos'[m][r[1]] = committed[r[1]]
          \/ r[1] \in assigned[m] /\ pos'[m][r[1]] = pos[m][r[1]]
      BY <1>2, <1>6 DEF Rebalance, TypeOK
    <2> QED BY <1>3, <1>4, <2>1 DEF Committed
  <1>7. CASE Revoke(m)
    BY <1>2, <1>3, <1>7 DEF Revoke, TypeOK
  <1>8. CASE assigned'[m] = assigned[m] /\ pos'[m] = pos[m]
    BY <1>3, <1>8
  <1>9. ASSUME NEW n \in Members, n # m,
               \/ Start(n) \/ Dies(n) \/ SigTerm(n) \/ Revoke(n) \/ Run(n) \/ Ticker(n)
               \/ \E p \in Partitions : Rebalance(p, n)
        PROVE  assigned'[m] = assigned[m] /\ pos'[m] = pos[m]
    <2>1. CASE Dies(n) \/ Exit(n)
      BY <1>9, <2>1, EndsFreed DEF TypeOK
    <2>2. CASE Revoke(n)
      BY <1>9, <2>2 DEF Revoke, TypeOK
    <2>3. CASE \E p \in Partitions : Rebalance(p, n)
      BY <1>9, <2>3 DEF Rebalance, TypeOK
    <2>4. CASE Poll(n)
      BY <1>9, <2>4 DEF Poll, TypeOK, groupVars
    <2>5. CASE UNCHANGED <<assigned, pos>>
      BY <2>5
    <2> QED
      BY <1>9, <2>1, <2>2, <2>3, <2>4, <2>5
         DEF Run, Ticker, Start, SigTerm, handleBatch, SeenBatchFails, Store, TickerTakes,
             TickerStores, DeadLetter, DeadLetterFails, Flushed, Commit, CommitFails, groupVars
  <1>10. ASSUME \/ Start(m) \/ SigTerm(m) \/ handleBatch(m) \/ SeenBatchFails(m) \/ Store(m)
                \/ Ticker(m) \/ DeadLetter(m) \/ DeadLetterFails(m) \/ Flushed(m) \/ Commit(m)
                \/ CommitFails(m) \/ KeyExpires \/ UNCHANGED vars
         PROVE  assigned'[m] = assigned[m] /\ pos'[m] = pos[m]
    BY <1>10 DEF Ticker, Start, SigTerm, handleBatch, SeenBatchFails, Store, TickerTakes,
       TickerStores, DeadLetter, DeadLetterFails, Flushed, Commit, CommitFails, KeyExpires,
       groupVars, vars
  <1> QED BY <1>1, <1>5, <1>6, <1>7, <1>8, <1>9, <1>10 DEF Next, Run

\* Every step keeps the keys in Redis to covered events.
LEMMA KeysKeptStep == TypeOK /\ KeysKept /\ [Next]_vars => KeysKept'
  <1> SUFFICES ASSUME TypeOK, KeysKept, [Next]_vars, dedup',
                      NEW r \in Records, KeyOf[r] \in redis'
               PROVE  Covered(r)'
    BY DEF KeysKept
  <1>0. dedup
    BY StoresGrow
  <1>1. CASE KeyOf[r] \in redis
    BY <1>0, <1>1, CoveredStays DEF KeysKept
  <1>2. ASSUME NEW m \in Members, handleBatch(m), KeyOf[r] \notin redis PROVE Covered(r)'
    <2>1. KeyOf[r] \in Keys(work[m])
      BY <1>0, <1>2 DEF handleBatch
    <2> QED BY <1>0, <1>2, <2>1, BatchCovered
  <1>3. ASSUME NEW m \in Members, SeenBatchFails(m), KeyOf[r] \notin redis PROVE Covered(r)'
    <2>1. PICK S \in FirstOf(work[m]) : redis' = redis \cup Keys(S)
      BY <1>3 DEF SeenBatchFails
    <2>2. PICK t \in S : KeyOf[t] = KeyOf[r]
      BY <1>3, <2>1 DEF Keys
    <2>3. t \in work[m] /\ t \in Records
      BY <2>1, <2>2 DEF FirstOf, TypeOK
    <2>4. pc'[m] = "flush" /\ work' = work
      BY <1>3 DEF SeenBatchFails, TypeOK
    <2>5. t \in Held(m)' /\ t \in Copies(r)'
      BY <2>2, <2>3, <2>4 DEF Held, Claims, Copies
    <2> QED BY <2>5 DEF Covered
  <1>4. ASSUME NEW m \in Members, NEW S \in SUBSET Records, Ends(m, S), KeyOf[r] \notin redis
        PROVE  Covered(r)'
    <2>1. PICK t \in S : KeyOf[t] = KeyOf[r]
      BY <1>4 DEF Ends, Keys
    <2>2. t \in gone' /\ t \in Copies(r)'
      BY <1>4, <2>1 DEF Ends, Copies
    <2> QED BY <2>2 DEF Covered
  <1>5. ASSUME NEW m \in Members, Dies(m) \/ Exit(m)
        PROVE  \E S \in SUBSET Records : Ends(m, S)
    <2>1. {} \in SUBSET Records
      OBVIOUS
    <2> QED BY <1>5, <2>1, DiesEnds DEF Exit
  <1>6. CASE redis' \subseteq redis
    BY <1>1, <1>6
  <1> QED
    BY <1>1, <1>2, <1>3, <1>4, <1>5, <1>6
       DEF Next, Run, Ticker, Start, SigTerm, Revoke, Rebalance, KeyExpires, Poll, Store,
           TickerTakes, TickerStores, DeadLetter, DeadLetterFails, Flushed, Commit, CommitFails,
           stores, vars

\* Every step keeps what is committed covered.
LEMMA GroupCoveredStep ==
    TypeOK /\ GroupCovered /\ ReadCovered /\ [Next]_vars => GroupCovered'
  <1> SUFFICES ASSUME TypeOK, GroupCovered, ReadCovered, [Next]_vars,
                      NEW r \in Records, Committed(r)'
               PROVE  Covered(r)'
    BY DEF GroupCovered
  <1>1. CASE Committed(r)
    BY <1>1, CoveredStays DEF GroupCovered
  <1>2. ASSUME NEW m \in Members, Commit(m), ~Committed(r) PROVE Covered(r)'
    <2>1. r[1] \in assigned[m] /\ r[2] <= pos[m][r[1]]
      BY <1>2, RecordParts DEF Commit, Committed
    <2>2. work[m] = {} /\ m \notin term
      BY <1>2 DEF Commit, TypeOK
    <2>3. Answered(m, r)
      BY <2>1, <2>2 DEF ReadCovered
    <2>4. Covered(r)
      <3>1. CASE dedup
        BY <2>3, <3>1 DEF Answered
      <3>2. CASE ~dedup
        <4>1. Kept(r) \/ r \in gone \/ r \in Held(m)
          BY <1>2, <2>2, <2>3, <3>2 DEF Answered, Held
        <4> QED BY <4>1, CoversItself
      <3> QED BY <3>1, <3>2
    <2>5. UNCHANGED <<dedup, late, work, table, dlq, gone>>
      BY <1>2 DEF Commit, deployment, stores
    <2>6. PICK s \in Copies(r) : Kept(s) \/ s \in gone \/ \E n \in Members : s \in Held(n)
      BY <2>4 DEF Covered
    <2>7. ASSUME NEW n \in Members, s \in Held(n) PROVE s \in Held(n)'
      <3>1. CASE n = m
        BY <1>2, <2>5, <2>7, <3>1 DEF Commit, Held, Claims
      <3>2. CASE n # m
        <4>1. pc'[n] = pc[n]
          BY <1>2, <3>2 DEF Commit, TypeOK
        <4> QED BY <2>5, <2>7, <4>1 DEF Held, Claims
      <3> QED BY <3>1, <3>2
    <2>8. s \in Copies(r)' /\ (Kept(s) => Kept(s)')
      BY <2>5 DEF Copies, Kept, Row
    <2> QED BY <2>5, <2>6, <2>7, <2>8 DEF Covered
  <1>3. CASE committed' = committed
    BY <1>1, <1>3 DEF Committed
  <1>4. ASSUME NEW m \in Members, Dies(m) \/ Exit(m) PROVE committed' = committed
    BY <1>4, EndsFreed
  <1> QED
    BY <1>1, <1>2, <1>3, <1>4
       DEF Next, Run, Ticker, Start, SigTerm, Revoke, Rebalance, KeyExpires, Poll, handleBatch,
           SeenBatchFails, Store, TickerTakes, TickerStores, DeadLetter, DeadLetterFails, Flushed,
           CommitFails, groupVars, vars

\* Coverage, made inductive.
Coverage == OwnerAhead /\ GroupCovered /\ ReadCovered /\ KeysKept

\* It holds throughout.
LEMMA CoverageHolds == Spec => []Coverage
  <1>1. Init => Coverage
    <2> SUFFICES ASSUME Init PROVE Coverage
      OBVIOUS
    <2>1. \A r \in Records : r[1] \in Partitions /\ r[2] \in Nat /\ r[2] > 0
      BY RecordParts
    <2>2. GroupCovered /\ ReadCovered
      BY <2>1 DEF Init, GroupCovered, Committed, ReadCovered
    <2> QED BY <2>2 DEF Init, Coverage, OwnerAhead, KeysKept
  <1>2. TypeOK /\ Coverage /\ [Next]_vars => Coverage'
    BY OwnerAheadStep, GroupCoveredStep, ReadCoveredStep, KeysKeptStep DEF Coverage
  <1> QED BY <1>1, <1>2, TypeInit, TypeStep, PTL DEF Spec

\* Wherever in a round a member dies, is told to end or loses a partition,
\* however late it goes on, and whatever fails: a committed event is in the
\* table or the dead-letter topic, or held by a ticker or, with dedup, by the
\* member that set its key; or its dead letter failed, or it died with the
\* member that held it.
THEOREM CommittedIsCovered == Spec => []GroupCovered
  BY CoverageHolds, PTL DEF Coverage

----------------------------------------------------------------------------
(* Where nothing loses a committed record.                                 *)

\* Without dedup, a ticker that fires in a round and dead letters that fail,
\* no event outlives its round and none is given up.
NoExcuse ==
    ~dedup /\ faults \cap {"ticker", "dlq"} = {}
        => gone = {} /\ \A m \in Members : late[m] = {}

\* Every step keeps it so.
LEMMA NoExcuseStep == TypeOK /\ NoExcuse /\ [Next]_vars => NoExcuse'
  <1> SUFFICES ASSUME TypeOK, NoExcuse, [Next]_vars, ~dedup', faults' \cap {"ticker", "dlq"} = {}
               PROVE  gone' = {} /\ \A m \in Members : late'[m] = {}
    BY DEF NoExcuse
  <1>0. ~dedup /\ faults \cap {"ticker", "dlq"} = {}
    BY StoresGrow
  <1>1. gone = {} /\ \A m \in Members : late[m] = {}
    BY <1>0 DEF NoExcuse
  <1>2. ASSUME NEW m \in Members, Dies(m) \/ Exit(m)
        PROVE  gone' = {} /\ \A n \in Members : late'[n] = {}
    <2>1. Ends(m, {})
      BY <1>0, <1>2 DEF Dies, Exit
    <2>2. Forgotten(m, Held(m)) = {}
      BY <1>0, <1>1 DEF Forgotten
    <2>3. gone' = {}
      BY <1>1, <2>1, <2>2 DEF Ends
    <2> QED BY <1>1, <1>2, <2>3, EndsFreed
  <1>3. ASSUME NEW m \in Members, DeadLetter(m) \/ DeadLetterFails(m)
        PROVE  gone' = {} /\ \A n \in Members : late'[n] = {}
    <2>1. PICK r \in Records :
              /\ LetsGo(late, late', m, r)
              /\ \/ gone' = gone
                 \/ "dlq" \in faults
                 \/ gone' = gone \cup Forgotten(m, {r})
      BY <1>3, DeadLetterEffect
    <2>2. Forgotten(m, {r}) = {}
      BY <1>0, <1>1 DEF Forgotten
    <2> QED BY <1>0, <1>1, <2>1, <2>2 DEF LetsGo
  <1>4. ASSUME NEW m \in Members, TickerTakes(m) \/ TickerStores(m) PROVE FALSE
    BY <1>0, <1>1, <1>4 DEF TickerTakes, TickerStores
  <1>5. CASE UNCHANGED <<gone, late>>
    BY <1>1, <1>5
  <1> QED
    BY <1>2, <1>3, <1>4, <1>5
       DEF Next, Run, Ticker, Start, SigTerm, Revoke, Rebalance, KeyExpires, Poll, handleBatch,
           SeenBatchFails, Store, Flushed, Commit, CommitFails, vars

\* Without dedup, where no ticker fires in a round and dead letters succeed, a
\* committed record is in the table or the dead-letter topic, through any
\* deaths, SIGTERMs, rebalances, stale owners and failures of the database.
THEOREM CommittedIsKept == Spec => []GroupAtLeastOnce
  <1>1. Init => NoExcuse
    BY DEF Init, NoExcuse
  <1>2. GroupCovered /\ NoExcuse => GroupAtLeastOnce
    <2> SUFFICES ASSUME GroupCovered, NoExcuse, ~dedup, faults \cap {"ticker", "dlq"} = {},
                        NEW r \in Records, Committed(r)
                 PROVE  Kept(r)
      BY DEF GroupAtLeastOnce
    <2>1. PICK s \in Copies(r) : Kept(s) \/ s \in gone \/ \E m \in Members : s \in Held(m)
      BY DEF GroupCovered, Covered
    <2>2. s = r /\ gone = {} /\ \A m \in Members : Held(m) = {}
      BY <2>1 DEF NoExcuse, Copies, Held, Claims
    <2> QED BY <2>1, <2>2
  <1> QED BY <1>1, <1>2, TypeInit, TypeStep, NoExcuseStep, CommittedIsCovered, PTL DEF Spec

----------------------------------------------------------------------------
(* One row per event.                                                      *)

\* Dedup with a Redis that answers and keeps its keys, and no SIGTERM.
DedupReliable == dedup /\ faults \cap {"redis", "ttl", "sigterm"} = {}

\* The keys of stored and of held events are set; a held event is the only
\* one of its key that is held, and no row of its key but its own is stored.
RowsDiffer ==
    DedupReliable =>
        /\ term = {}
        /\ \A row \in table : row[1] \in redis
        /\ \A m \in Members : \A r \in Held(m) :
               KeyOf[r] \in redis /\ \A row \in table : row[1] = KeyOf[r] => row = Row(r)
        /\ \A m, n \in Members : \A r \in Held(m), s \in Held(n) : KeyOf[r] = KeyOf[s] => r = s

\* No SIGTERM comes, and Redis forgets nothing.
LEMMA ReliableStep ==
    ASSUME TypeOK, DedupReliable, term = {}, [Next]_vars
    PROVE  /\ term' = {} /\ redis \subseteq redis' /\ DedupReliable'
           /\ \A m \in Members : ~SeenBatchFails(m)
  <1>1. DedupReliable'
    BY StoresGrow DEF DedupReliable
  <1>2. ASSUME NEW m \in Members, Dies(m) \/ Exit(m) PROVE term' = {} /\ redis \subseteq redis'
    BY <1>2, EndsFreed
  <1>3. \A m \in Members : ~SeenBatchFails(m) /\ ~SigTerm(m)
    BY DEF SeenBatchFails, SigTerm, DedupReliable
  <1>4. ~KeyExpires
    BY DEF KeyExpires, DedupReliable
  <1>5. term' = {} /\ redis \subseteq redis'
    BY <1>2, <1>3, <1>4
       DEF Next, Run, Ticker, Start, Revoke, Rebalance, Poll, handleBatch, Store, TickerTakes,
           TickerStores, DeadLetter, DeadLetterFails, Flushed, Commit, CommitFails, stores, vars
  <1> QED BY <1>1, <1>3, <1>5

\* With dedup, only SeenBatch adds to what a member holds.
LEMMA HeldShrinks ==
    ASSUME TypeOK, [Next]_vars, dedup, NEW m \in Members, ~handleBatch(m), ~SeenBatchFails(m)
    PROVE  Held(m)' \subseteq Held(m)
  <1>0. dedup' = dedup
    BY StoresGrow
  <1>a. ASSUME late'[m] \subseteq late[m] \cup Claims(m),
               pc'[m] # "flush" \/ (pc'[m] = pc[m] /\ work'[m] \subseteq work[m])
        PROVE  Held(m)' \subseteq Held(m)
    BY <1>0, <1>a DEF Held, Claims
  <1>1. CASE Dies(m) \/ Exit(m)
    BY <1>a, <1>1, EndsFreed
  <1>2. CASE Store(m)
    BY <1>a, <1>2, StoreEffect DEF Store, LetsGo
  <1>3. CASE TickerStores(m)
    BY <1>a, <1>3, TickerStoresEffect DEF TickerStores, LetsGo
  <1>4. CASE DeadLetter(m) \/ DeadLetterFails(m)
    <2>1. pc' = pc
      BY <1>4 DEF DeadLetter, DeadLetterFails
    <2> QED BY <1>a, <1>4, <2>1, DeadLetterEffect DEF LetsGo
  <1>5. CASE TickerTakes(m)
    <2>1. /\ pc' = pc /\ pc[m] = "flush"
          /\ work'[m] \subseteq work[m] /\ late'[m] \subseteq late[m] \cup work[m]
      BY <1>5 DEF TickerTakes, TypeOK
    <2> QED BY <1>a, <2>1 DEF Claims
  <1>6. CASE Start(m) \/ Poll(m) \/ Flushed(m) \/ Commit(m) \/ CommitFails(m)
    <2>1. late' = late
      BY <1>6 DEF Start, Poll, Flushed, Commit, CommitFails
    <2>2. PICK s \in {"poll", "handle", "commit"} : pc' = [pc EXCEPT ![m] = s]
      BY <1>6 DEF Start, Poll, Flushed, Commit, CommitFails
    <2>3. pc'[m] # "flush"
      BY <2>2 DEF TypeOK
    <2> QED BY <1>a, <2>1, <2>3
  <1>7. CASE \/ SigTerm(m) \/ Revoke(m) \/ KeyExpires
             \/ (\E p \in Partitions : Rebalance(p, m)) \/ UNCHANGED vars
    BY <1>a, <1>7 DEF SigTerm, Revoke, KeyExpires, Rebalance, vars
  <1>8. ASSUME NEW n \in Members, n # m,
               \/ Start(n) \/ Dies(n) \/ SigTerm(n) \/ Revoke(n) \/ Run(n) \/ Ticker(n)
               \/ \E p \in Partitions : Rebalance(p, n)
        PROVE  Held(m)' \subseteq Held(m)
    BY <1>a, <1>8, OthersKeep
  <1> QED BY <1>1, <1>2, <1>3, <1>4, <1>5, <1>6, <1>7, <1>8 DEF Next, Run, Ticker

\* A row that a step adds is that of a held event.
LEMMA RowsComeFromHeld ==
    ASSUME TypeOK, [Next]_vars, dedup
    PROVE  \/ table' = table
           \/ \E m \in Members : \E r \in Held(m) :
                  table' = table \cup {Row(r)}
  <1>1. ASSUME NEW m \in Members, Store(m)
        PROVE  \E r \in Held(m) : table' = table \cup {Row(r)}
    <2>1. PICK r \in Records : r \in work[m] /\ table' = table \cup {Row(r)}
      BY <1>1, StoreEffect
    <2>2. r \in Held(m)
      BY <1>1, <2>1 DEF Store, Held, Claims
    <2> QED BY <2>1, <2>2
  <1>2. ASSUME NEW m \in Members, TickerStores(m)
        PROVE  \E r \in Held(m) : table' = table \cup {Row(r)}
    BY <1>2, TickerStoresEffect DEF Held
  <1>3. ASSUME NEW m \in Members, Dies(m) \/ Exit(m) PROVE table' = table
    BY <1>3, EndsFreed
  <1> QED
    BY <1>1, <1>2, <1>3
       DEF Next, Run, Ticker, Start, SigTerm, Revoke, Rebalance, KeyExpires, Poll, handleBatch,
           SeenBatchFails, TickerTakes, DeadLetter, DeadLetterFails, Flushed, Commit, CommitFails,
           stores, vars

\* Every step keeps rows and held events different.
LEMMA RowsStep ==
    TypeOK /\ RowsDiffer /\ GroupOneRow /\ [Next]_vars => RowsDiffer' /\ GroupOneRow'
  <1> SUFFICES ASSUME TypeOK, RowsDiffer, GroupOneRow, [Next]_vars, DedupReliable'
               PROVE  RowsDiffer' /\ GroupOneRow'
    BY DEF RowsDiffer, GroupOneRow, DedupReliable
  <1>0. DedupReliable /\ dedup
    BY StoresGrow DEF DedupReliable
  <1>1. /\ term = {} /\ \A row \in table : row[1] \in redis
        /\ \A m \in Members : \A r \in Held(m) :
               KeyOf[r] \in redis /\ \A row \in table : row[1] = KeyOf[r] => row = Row(r)
        /\ \A m, n \in Members : \A r \in Held(m), s \in Held(n) : KeyOf[r] = KeyOf[s] => r = s
        /\ \A r, s \in table : r[1] = s[1] => r = s
    BY <1>0 DEF RowsDiffer, GroupOneRow, DedupReliable
  <1>2. /\ term' = {} /\ redis \subseteq redis' /\ \A m \in Members : ~SeenBatchFails(m)
    BY <1>0, <1>1, ReliableStep
  <1>3. ASSUME NEW m \in Members, handleBatch(m) PROVE RowsDiffer' /\ GroupOneRow'
    <2>1. /\ table' = table /\ late' = late /\ dedup' = dedup
          /\ pc[m] = "handle" /\ pc'[m] = "flush" /\ work'[m] = Unseen(work[m])
          /\ redis' = redis \cup Keys(work[m])
          /\ \A n \in Members : n # m => pc'[n] = pc[n] /\ work'[n] = work[n]
      BY <1>0, <1>3 DEF handleBatch, deployment, TypeOK
    <2>2. work[m] \in SUBSET Records
      BY DEF TypeOK
    <2>3. /\ Held(m)' = Held(m) \cup Unseen(work[m])
          /\ \A n \in Members : n # m => Held(n)' = Held(n)
      BY <1>0, <2>1 DEF Held, Claims
    <2>4. \A r, s \in Unseen(work[m]) : KeyOf[r] = KeyOf[s] => r = s
      BY <2>2, OneCopyPasses
    <2>5. \A r \in Unseen(work[m]) : KeyOf[r] \notin redis /\ KeyOf[r] \in redis'
      BY <2>1 DEF Unseen, Keys
    <2>6. \A n \in Members : \A r \in Held(n)' : r \in Held(n) \/ r \in Unseen(work[m])
      BY <2>3
    <2>7. \A n \in Members : \A r \in Held(n)' :
              KeyOf[r] \in redis' /\ \A row \in table' : row[1] = KeyOf[r] => row = Row(r)'
      BY <1>1, <1>2, <2>1, <2>5, <2>6 DEF Row
    <2>8. \A n, o \in Members : \A r \in Held(n)', s \in Held(o)' : KeyOf[r] = KeyOf[s] => r = s
      BY <1>1, <2>4, <2>5, <2>6
    <2>9. \A row \in table' : row[1] \in redis'
      BY <1>1, <1>2, <2>1
    <2> QED BY <1>1, <1>2, <2>1, <2>7, <2>8, <2>9 DEF RowsDiffer, GroupOneRow
  <1>4. ASSUME \A m \in Members : ~handleBatch(m) PROVE RowsDiffer' /\ GroupOneRow'
    <2>1. \A m \in Members : Held(m)' \subseteq Held(m)
      BY <1>0, <1>2, <1>4, HeldShrinks
    <2>2. \A n, o \in Members : \A r \in Held(n)', s \in Held(o)' : KeyOf[r] = KeyOf[s] => r = s
      BY <1>1, <2>1
    <2>3. CASE table' = table
      <3>1. \A n \in Members : \A r \in Held(n)' :
                KeyOf[r] \in redis' /\ \A row \in table' : row[1] = KeyOf[r] => row = Row(r)'
        BY <1>1, <1>2, <2>1, <2>3 DEF Row
      <3> QED BY <1>1, <1>2, <2>2, <2>3, <3>1 DEF RowsDiffer, GroupOneRow
    <2>4. ASSUME NEW m \in Members, NEW r \in Held(m), table' = table \cup {Row(r)}
          PROVE  RowsDiffer' /\ GroupOneRow'
      <3>1. Row(r)[1] = KeyOf[r] /\ \A t : Row(t)' = Row(t)
        BY DEF Row
      <3>2. \A row \in table' : row[1] \in redis'
        BY <1>1, <1>2, <2>4, <3>1
      <3>3. \A n \in Members : \A s \in Held(n) : KeyOf[s] = KeyOf[r] => s = r
        BY <1>1
      <3> HIDE DEF Row
      <3>4. \A n \in Members : \A s \in Held(n)' :
                KeyOf[s] \in redis' /\ \A row \in table' : row[1] = KeyOf[s] => row = Row(s)'
        BY <1>1, <1>2, <2>1, <2>4, <3>1, <3>3
      <3>5. \A row \in table : row[1] = KeyOf[r] => row = Row(r)
        BY <1>1
      <3>6. \A row, sow \in table' : row[1] = sow[1] => row = sow
        BY <1>1, <2>4, <3>1, <3>5
      <3> QED BY <1>2, <2>2, <3>2, <3>4, <3>6 DEF RowsDiffer, GroupOneRow
    <2> QED BY <1>0, <2>3, <2>4, RowsComeFromHeld
  <1> QED BY <1>3, <1>4

\* With dedup, a Redis that answers and keeps its keys, and no SIGTERM, an
\* event is stored once, however many members fetch copies of it before and
\* after a rebalance, whatever event times the copies carry and whatever
\* tickers, deaths, lost answers and failed dead letters do.
THEOREM OneRowPerEvent == Spec => []GroupOneRow
  <1>1. Init => RowsDiffer /\ GroupOneRow
    BY DEF Init, RowsDiffer, GroupOneRow, Held, Claims
  <1> QED BY <1>1, TypeInit, TypeStep, RowsStep, PTL DEF Spec
=============================================================================
