--------------------------- MODULE ConsumerGroup ---------------------------
(***************************************************************************)
(* Several consumers of one group (internal/consumer with kgo.Consumer-    *)
(* Group and DisableAutoCommit), sharing partitions, Redis and the table.  *)
(* A partition may move to another member at any moment of a round, and    *)
(* its old owner goes on fetching, storing and trying to commit until the  *)
(* client learns of it.                                                    *)
(*                                                                         *)
(* A round is that of module Consumer with its steps merged; the places an *)
(* event passes between handleBatch and the commit (buffer, batch, poison  *)
(* list) are one set per goroutine.  What can go wrong in a deployment is  *)
(* chosen at the start, in faults.  Records that do not decode are left to *)
(* module Consumer.  A record is <<p, o>>: offset o of partition p.        *)
(***************************************************************************)
EXTENDS Integers, FiniteSets

CONSTANTS
    Members, Partitions,
    End,        \* End[p]: last offset of partition p
    KeyOf,      \* KeyOf[r]: idempotency key of record r
    TimeOf,     \* TimeOf[r]: event time of record r
    NoMember,   \* a partition nobody owns
    Deployments,\* the settings considered, as <<dedup, faults>>
    MaxMoves    \* bound on deaths, SIGTERMs and moves away from a live owner

Records == UNION {{p} \X (1..End[p]) : p \in Partitions}

\* "ticker": the flush ticker fires while a round is under way; "db": the
\* table refuses a row, or its answer is lost; "dlq": a dead letter fails, or
\* there is no dead-letter topic; "redis": SeenBatch fails; "ttl": a key
\* expires before the redelivery; "sigterm": a process is told to end.
FaultKinds == {"ticker", "db", "dlq", "redis", "ttl", "sigterm"}

\* Records are keyed by device, so the copies of an event are in one partition.
ASSUME GroupAssumption ==
    /\ End \in [Partitions -> Nat]
    /\ DOMAIN KeyOf = Records /\ DOMAIN TimeOf = Records
    /\ \A r, s \in Records : KeyOf[r] = KeyOf[s] => r[1] = s[1]
    /\ NoMember \notin Members
    /\ Deployments \subseteq BOOLEAN \X SUBSET FaultKinds
    /\ MaxMoves \in Nat

VARIABLES
    dedup,      \* -dedup of this deployment
    faults,     \* what can go wrong in it
    owner,      \* owner[p]: member the coordinator gave p to
    assigned,   \* assigned[m]: partitions m believes to own
    pos,        \* pos[m][p]: last offset m fetched from p
    committed,  \* committed[p]: committed offset of p
    pc,         \* pc[m]: where m is in Run
    term,       \* members whose context a SIGTERM has cancelled
    work,       \* work[m]: records of the round that m is not done with
    late,       \* late[m]: records the ticker of m took, and its poison
    redis,      \* keys present in Redis
    table,      \* rows stored, as <<key, time>>
    dlq,        \* records in the dead-letter topic
    gone,       \* records let go unstored, which nobody will read again
    moves       \* deaths, SIGTERMs and moves so far

deployment == <<dedup, faults>>
groupVars == <<owner, assigned, committed>>
stores == <<redis, table, dlq>>
vars == <<deployment, groupVars, pos, pc, term, work, late, stores, gone, moves>>

Keys(R) == {KeyOf[r] : r \in R}
Row(r) == <<KeyOf[r], TimeOf[r]>>
Committed(r) == r[2] <= committed[r[1]]

Init ==
    /\ \E d \in Deployments : dedup = d[1] /\ faults = d[2]
    /\ owner = [p \in Partitions |-> NoMember]
    /\ assigned = [m \in Members |-> {}]
    /\ pos = [m \in Members |-> [p \in Partitions |-> 0]]
    /\ committed = [p \in Partitions |-> 0]
    /\ pc = [m \in Members |-> "down"] /\ term = {}
    /\ work = [m \in Members |-> {}] /\ late = [m \in Members |-> {}]
    /\ redis = {} /\ table = {} /\ dlq = {} /\ gone = {} /\ moves = 0

----------------------------------------------------------------------------
(* The coordinator and the client library.                                 *)

CountMove == moves < MaxMoves /\ moves' = moves + 1

Start(m) ==
    /\ pc[m] = "down"
    /\ pc' = [pc EXCEPT ![m] = "poll"]
    /\ UNCHANGED <<deployment, groupVars, pos, term, work, late, stores, gone, moves>>

\* Mutant: the new owner starts at the end of the partition.
RebalanceAtEnd(p, m) ==
    /\ pc[m] # "down" /\ owner[p] # m /\ p \notin assigned[m]
    /\ owner' = [owner EXCEPT ![p] = m]
    /\ assigned' = [assigned EXCEPT ![m] = @ \cup {p}]
    /\ pos' = [pos EXCEPT ![m][p] = End[p]]
    /\ IF owner[p] = NoMember THEN UNCHANGED moves ELSE CountMove
    /\ UNCHANGED <<deployment, committed, pc, term, work, late, stores, gone>>

\* p moves to m, which takes up the committed offset.  The old owner has not
\* heard of it.
Rebalance(p, m) ==
    /\ pc[m] # "down" /\ owner[p] # m /\ p \notin assigned[m]
    /\ owner' = [owner EXCEPT ![p] = m]
    /\ assigned' = [assigned EXCEPT ![m] = @ \cup {p}]
    /\ pos' = [pos EXCEPT ![m][p] = committed[p]]
    /\ IF owner[p] = NoMember THEN UNCHANGED moves ELSE CountMove
    /\ UNCHANGED <<deployment, committed, pc, term, work, late, stores, gone>>

Revoked(m) == {p \in assigned[m] : owner[p] # m}

\* The client learns what it lost: it neither fetches nor commits that any
\* more, but the records it has handed out stay in the round.
Revoke(m) ==
    /\ Revoked(m) # {}
    /\ assigned' = [assigned EXCEPT ![m] = @ \ Revoked(m)]
    /\ pos' = [pos EXCEPT ![m] = [p \in Partitions |->
                                     IF p \in Revoked(m) THEN 0 ELSE @[p]]]
    /\ UNCHANGED <<deployment, owner, committed, pc, term, work, late, stores, gone, moves>>

----------------------------------------------------------------------------
(* The end of a process.                                                   *)

\* Events that m holds and has set the key of.
Claims(m) == IF dedup /\ pc[m] = "flush" THEN work[m] ELSE {}

\* All that m holds while its key or its offset says that it is done.
Held(m) == late[m] \cup Claims(m)

\* What of R, let go by m, nobody will read again: with dedup its key is set;
\* without it, a batch of the ticker may be committed.
Forgotten(m, R) == {r \in R : dedup \/ (r \in late[m] /\ Committed(r))}

\* A pipeline of commands that is cut off has done those of a first part of
\* each partition's records.
FirstOf(R) ==
    {S \in SUBSET R : \A r \in S, s \in R : s[1] = r[1] /\ s[2] < r[2] => s \in S}

\* The process ends, with the keys of the records S just set: the coordinator
\* takes its partitions back, its memory is gone.
Ends(m, S) ==
    /\ pc' = [pc EXCEPT ![m] = "down"]
    /\ owner' = [p \in Partitions |-> IF owner[p] = m THEN NoMember ELSE owner[p]]
    /\ assigned' = [assigned EXCEPT ![m] = {}]
    /\ pos' = [pos EXCEPT ![m] = [p \in Partitions |-> 0]]
    /\ term' = term \ {m}
    /\ redis' = redis \cup Keys(S)
    /\ gone' = gone \cup {r \in S : KeyOf[r] \notin redis} \cup Forgotten(m, Held(m))
    /\ work' = [work EXCEPT ![m] = {}] /\ late' = [late EXCEPT ![m] = {}]
    /\ UNCHANGED <<deployment, committed, table, dlq>>

\* The process is killed; the coordinator learns of it by the session timeout.
Dies(m) ==
    /\ pc[m] # "down"
    /\ \E S \in IF dedup /\ pc[m] = "handle" THEN FirstOf(work[m]) ELSE {{}} : Ends(m, S)
    /\ CountMove

\* SIGTERM cancels the context of Run.
SigTerm(m) ==
    /\ "sigterm" \in faults /\ pc[m] # "down" /\ m \notin term
    /\ term' = term \cup {m}
    /\ CountMove
    /\ UNCHANGED <<deployment, groupVars, pos, pc, work, late, stores, gone>>

\* Run returns at the next poll.  The process leaves the group, and the sink
\* is closed: what the ticker has taken is stored before this step, or is
\* poison that nobody drains any more.
Exit(m) ==
    /\ pc[m] = "poll" /\ m \in term
    /\ Ends(m, {})
    /\ UNCHANGED moves

----------------------------------------------------------------------------
(* Run.                                                                    *)

\* PollFetches: some records of the partitions m believes to own.
Poll(m) ==
    /\ pc[m] = "poll" /\ m \notin term
    /\ \E to \in {f \in [Partitions -> UNION {0..End[p] : p \in Partitions}] :
                      \A p \in Partitions :
                          IF p \in assigned[m] THEN f[p] \in pos[m][p]..End[p]
                                               ELSE f[p] = pos[m][p]} :
           /\ to # pos[m]
           /\ work' = [work EXCEPT ![m] =
                          {r \in Records : pos[m][r[1]] < r[2] /\ r[2] <= to[r[1]]}]
           /\ pos' = [pos EXCEPT ![m] = to]
    /\ pc' = [pc EXCEPT ![m] = "handle"]
    /\ UNCHANGED <<deployment, groupVars, term, late, stores, gone, moves>>

\* One pipeline of SETNX: only the first copy of an event passes, in the
\* batch and among all members.
Unseen(R) ==
    {r \in R : /\ KeyOf[r] \notin redis
               /\ \A s \in R : KeyOf[s] = KeyOf[r] => r[2] <= s[2]}

\* Mutant: the keys are set later, with the rows.
HandleUnclaimed(m) ==
    /\ pc[m] = "handle" /\ (dedup => m \notin term)
    /\ work' = [work EXCEPT ![m] = IF dedup THEN Unseen(@) ELSE @]
    /\ redis' = redis
    /\ pc' = [pc EXCEPT ![m] = "flush"]
    /\ UNCHANGED <<deployment, groupVars, pos, term, late, table, dlq, gone, moves>>

handleBatch(m) ==
    /\ pc[m] = "handle" /\ (dedup => m \notin term)
    /\ work' = [work EXCEPT ![m] = IF dedup THEN Unseen(@) ELSE @]
    /\ redis' = IF dedup THEN redis \cup Keys(work[m]) ELSE redis
    /\ pc' = [pc EXCEPT ![m] = "flush"]
    /\ UNCHANGED <<deployment, groupVars, pos, term, late, table, dlq, gone, moves>>

\* Mutant: a batch that cannot be checked is skipped.
SeenBatchFailsSkips(m) ==
    /\ pc[m] = "handle" /\ dedup /\ ("redis" \in faults \/ m \in term)
    /\ \E S \in FirstOf(work[m]) : redis' = redis \cup Keys(S)
    /\ work' = [work EXCEPT ![m] = {}]
    /\ pc' = [pc EXCEPT ![m] = "flush"]
    /\ UNCHANGED <<deployment, groupVars, pos, term, late, table, dlq, gone, moves>>

\* SeenBatch fails, always so with a cancelled context, and may have set some
\* keys: the batch is treated as not seen.
SeenBatchFails(m) ==
    /\ pc[m] = "handle" /\ dedup /\ ("redis" \in faults \/ m \in term)
    /\ \E S \in FirstOf(work[m]) : redis' = redis \cup Keys(S)
    /\ pc' = [pc EXCEPT ![m] = "flush"]
    /\ UNCHANGED <<deployment, groupVars, pos, term, work, late, table, dlq, gone, moves>>

KeyExpires ==
    /\ "ttl" \in faults
    /\ \E k \in redis : redis' = redis \ {k}
    /\ UNCHANGED <<deployment, groupVars, pos, pc, term, work, late, table, dlq, gone, moves>>

\* An event is stored, by Flush or, also after a SIGTERM, by Write's flush on
\* context.Background().  When the answer is lost, m goes on with it.
Store(m) ==
    /\ pc[m] = "flush"
    /\ \E r \in work[m], unanswered \in BOOLEAN :
           /\ unanswered => "db" \in faults \/ m \in term
           /\ table' = table \cup {Row(r)}
           /\ work' = [work EXCEPT ![m] = IF unanswered THEN @ ELSE @ \ {r}]
    /\ UNCHANGED <<deployment, groupVars, pos, pc, term, late, redis, dlq, gone, moves>>

\* The ticker drains events of the round from the buffer.
TickerTakes(m) ==
    /\ "ticker" \in faults /\ pc[m] = "flush"
    /\ \E S \in SUBSET work[m] \ {{}} :
           /\ late' = [late EXCEPT ![m] = @ \cup S]
           /\ work' = [work EXCEPT ![m] = @ \ S]
    /\ UNCHANGED <<deployment, groupVars, pos, pc, term, stores, gone, moves>>

\* The ticker's flush stores an event, whatever Run does meanwhile.
TickerStores(m) ==
    /\ \E r \in late[m], unanswered \in BOOLEAN :
           /\ unanswered => "db" \in faults
           /\ table' = table \cup {Row(r)}
           /\ late' = [late EXCEPT ![m] = IF unanswered THEN @ ELSE @ \ {r}]
    /\ UNCHANGED <<deployment, groupVars, pos, pc, term, work, redis, dlq, gone, moves>>

\* r leaves the hands of m: it was poison of this round's flush, or of a flush
\* of the ticker that DrainPoisoned finds.  The flush of a round fails with a
\* cancelled context too; the ticker has its own.
Poison(m, r) ==
    \/ /\ r \in work[m] /\ ("db" \in faults \/ m \in term)
       /\ work' = [work EXCEPT ![m] = @ \ {r}] /\ UNCHANGED late
    \/ /\ r \in late[m] /\ "db" \in faults
       /\ late' = [late EXCEPT ![m] = @ \ {r}] /\ UNCHANGED work

DeadLetter(m) ==
    /\ pc[m] = "flush" /\ m \notin term
    /\ \E r \in Records : Poison(m, r) /\ dlq' = dlq \cup {r}
    /\ UNCHANGED <<deployment, groupVars, pos, pc, term, redis, table, gone, moves>>

\* A dead letter that fails, always so with a cancelled context, is logged:
\* the round goes on to its commit, which a cancelled context fails too.
DeadLetterFails(m) ==
    /\ pc[m] = "flush" /\ ("dlq" \in faults \/ m \in term)
    /\ \E r \in Records :
           /\ Poison(m, r)
           /\ dlq' \in {dlq, dlq \cup {r}}
           /\ gone' = gone \cup IF m \in term THEN Forgotten(m, {r}) ELSE {r}
    /\ UNCHANGED <<deployment, groupVars, pos, pc, term, redis, table, moves>>

\* Mutant: Run commits without waiting for the flush.
FlushAsync(m) == TRUE

\* Flush has returned nil and DrainPoisoned is emptied; the ticker may still
\* be at work on events of the round.
FlushDone(m) == work[m] = {}

Flushed(m) ==
    /\ pc[m] = "flush" /\ FlushDone(m)
    /\ pc' = [pc EXCEPT ![m] = "commit"]
    /\ UNCHANGED <<deployment, groupVars, pos, term, work, late, stores, gone, moves>>

\* Mutant: the coordinator does not look at the generation.
NotFenced(m) == TRUE

\* The coordinator refuses a commit of an earlier generation of the group.
CurrentGeneration(m) == Revoked(m) = {}

\* Mutant: the commit is sent on a context of its own, as on shutdown.
CommitDetached(m) ==
    /\ pc[m] = "commit" /\ CurrentGeneration(m)
    /\ committed' = [p \in Partitions |->
                        IF p \in assigned[m] THEN pos[m][p] ELSE committed[p]]
    /\ pc' = [pc EXCEPT ![m] = "poll"]
    /\ UNCHANGED <<deployment, owner, assigned, pos, term, work, late, stores, gone, moves>>

Commit(m) ==
    /\ pc[m] = "commit" /\ m \notin term /\ CurrentGeneration(m)
    /\ committed' = [p \in Partitions |->
                        IF p \in assigned[m] THEN pos[m][p] ELSE committed[p]]
    /\ pc' = [pc EXCEPT ![m] = "poll"]
    /\ UNCHANGED <<deployment, owner, assigned, pos, term, work, late, stores, gone, moves>>

\* A failed commit is logged; the loop goes on.
CommitFails(m) ==
    /\ pc[m] = "commit"
    /\ pc' = [pc EXCEPT ![m] = "poll"]
    /\ UNCHANGED <<deployment, groupVars, pos, term, work, late, stores, gone, moves>>

----------------------------------------------------------------------------
Run(m) ==
    \/ Poll(m) \/ handleBatch(m) \/ SeenBatchFails(m) \/ Store(m)
    \/ DeadLetter(m) \/ DeadLetterFails(m) \/ Flushed(m)
    \/ Commit(m) \/ CommitFails(m) \/ Exit(m)

Ticker(m) == TickerTakes(m) \/ TickerStores(m)

Next ==
    \/ KeyExpires
    \/ \E m \in Members :
           \/ Start(m) \/ Dies(m) \/ SigTerm(m) \/ Revoke(m) \/ Run(m) \/ Ticker(m)
           \/ \E p \in Partitions : Rebalance(p, m)

Spec == Init /\ [][Next]_vars

\* The coordinator gives a partition that nobody owns to a member.
Assign == \E p \in Partitions, m \in Members : owner[p] = NoMember /\ Rebalance(p, m)

\* A member that can run does, unowned partitions are assigned and ended
\* processes started again.  A client may never learn that it was revoked, and
\* the poison a ticker found may wait for a round that never comes.
Fairness ==
    /\ \A m \in Members : WF_vars(Run(m))
    /\ WF_vars(Assign) /\ WF_vars(\E m \in Members : Start(m))

FairSpec == Spec /\ Fairness

----------------------------------------------------------------------------
(* Properties.                                                             *)

\* Every variable keeps its type; a member has fetched nothing of a partition
\* that is not its own, owns what the coordinator gave it, and takes up no
\* round, and commits none, with records of the last one still in hand.
TypeOK ==
    /\ deployment \in Deployments
    /\ owner \in [Partitions -> Members \cup {NoMember}]
    /\ assigned \in [Members -> SUBSET Partitions]
    /\ pos \in [Members -> [Partitions -> Nat]] /\ committed \in [Partitions -> Nat]
    /\ \A m \in Members, p \in Partitions :
           /\ pos[m][p] <= End[p]
           /\ p \notin assigned[m] => pos[m][p] = 0
           /\ owner[p] = m => p \in assigned[m]
    /\ \A p \in Partitions : committed[p] <= End[p]
    /\ pc \in [Members -> {"down", "poll", "handle", "flush", "commit"}]
    /\ term \subseteq Members
    /\ work \in [Members -> SUBSET Records] /\ late \in [Members -> SUBSET Records]
    /\ \A m \in Members : pc[m] \in {"down", "poll", "commit"} => work[m] = {}
    /\ moves \in 0..MaxMoves
    /\ redis \subseteq Keys(Records) /\ table \subseteq {Row(r) : r \in Records}
    /\ dlq \subseteq Records /\ gone \subseteq Records

\* r is in the table or in the dead-letter topic.
Kept(r) == Row(r) \in table \/ r \in dlq

\* The records that can stand for r: with dedup, any copy of its event.
Copies(r) == {s \in Records : IF dedup THEN KeyOf[s] = KeyOf[r] ELSE s = r}

Covered(r) ==
    \E s \in Copies(r) : Kept(s) \/ s \in gone \/ \E m \in Members : s \in Held(m)

\* Wherever a rebalance, a death or a SIGTERM strikes, a committed event is in
\* the table or the dead-letter topic, or a member still holds it: its ticker,
\* or with dedup the one that set its key.  Only the death of that member and
\* a failed dead letter lose a committed event.
GroupCovered == \A r \in Records : Committed(r) => Covered(r)

\* Without dedup, when no ticker fires in a round and dead letters succeed,
\* nothing loses a committed record: it is in the table or the dead-letter
\* topic.
GroupAtLeastOnce ==
    ~dedup /\ faults \cap {"ticker", "dlq"} = {}
        => \A r \in Records : Committed(r) => Kept(r)

\* With dedup, when Redis answers, keeps its keys and no SIGTERM interrupts
\* SeenBatch, the copies of an event that two members fetch, before and after
\* a rebalance, never make two rows.
GroupOneRow ==
    dedup /\ faults \cap {"redis", "ttl", "sigterm"} = {}
        => \A r, s \in table : r[1] = s[1] => r = s

\* The committed offset never goes back: a late commit of an old owner
\* cannot undo one of the new owner.
CommitsAdvance == [][\A p \in Partitions : committed'[p] >= committed[p]]_vars

\* After the last death, SIGTERM and move, every event is in the end in the
\* table or the dead-letter topic, except those let go with their key set or
\* their offset committed, and those a ticker still holds.
AllStored ==
    <>[](\A r \in Records : \E s \in Copies(r) :
             Kept(s) \/ s \in gone \/ \E m \in Members : s \in late[m])
=============================================================================
