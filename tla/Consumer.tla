------------------------------ MODULE Consumer ------------------------------
(***************************************************************************)
(* One consumer process (cmd/consumer, internal/consumer) and everything   *)
(* it touches: its partition of the Kafka topic and the committed offset,  *)
(* the Redis deduper, the dead-letter topic and the sink.  The loop of     *)
(* Consumer.Run is the goroutine "main"; with the TimescaleSink, the       *)
(* ticker goroutine runs beside it.  SIGTERM, a crash and a restart may    *)
(* come at any step.                                                       *)
(*                                                                         *)
(* SinkKind "timescale" is the sink of module TimescaleSink.  "direct" is  *)
(* any sink without a poison list, such as MemorySink or KafkaSink: a      *)
(* Write that returns nil has acknowledged the event.  KafkaSink keeps     *)
(* what it acknowledged when the process ends; MemorySink keeps nothing.   *)
(***************************************************************************)
EXTENDS TimescaleSink

CONSTANTS
    Malformed,      \* offsets whose value DecodeRecord refuses
    SinkKind,       \* -sink
    DedupEnabled,   \* -dedup
    DLQEnabled      \* -dlq

ASSUME ConsumerAssumption ==
    /\ Malformed \subseteq Offsets
    /\ SinkKind \in {"timescale", "direct"}
    /\ DedupEnabled \in BOOLEAN
    /\ DLQEnabled \in BOOLEAN
    /\ Faults \subseteq {"crash", "sigterm", "fetch", "commit", "redis",
                         "ttl", "dlq", "write", "db"}

VARIABLES
    pc,           \* where main is in Run, handleBatch, persist or Close
    ctxDone,      \* the signal context of main() is cancelled
    pos,          \* last offset fetched by this process
    base,         \* committed offset this process started from
    committed,    \* committed offset of the group
    todo,         \* records of the fetch that handleBatch has not decoded
    decoded,      \* decoded records that the persist loop has not reached
    seen,         \* those of decoded that SeenBatch reported
    tries,        \* failed attempts of persist on the current record
    outbox,       \* drained poison events not sent to the DLQ yet
    redis,        \* keys present in Redis
    dlq,          \* events present in the dead-letter topic
    accepted,     \* events a direct sink has acknowledged
    skipped,      \* events this process discarded as already seen
    dropped,      \* events sendToDLQ gave up
    consumed,     \* Consumer.consumed
    deduped,      \* Consumer.deduped
    dlqSent       \* Consumer.dlqSent

kafkaVars == <<pos, base, committed>>
workVars  == <<todo, decoded, seen, tries, outbox>>
fateVars  == <<dlq, accepted, skipped, dropped>>
counters  == <<consumed, deduped, dlqSent>>
vars == <<sinkVars, pc, ctxDone, kafkaVars, workVars, redis, fateVars, counters>>

\* main moves on; SinkOnly leaves the sink's state to the conjunct beside it.
SinkOnly(from, to) ==
    /\ pc = from /\ pc' = to
    /\ UNCHANGED <<ctxDone, kafkaVars, workVars, redis, fateVars, counters>>

Goto(from, to) == SinkOnly(from, to) /\ UNCHANGED sinkVars

Keys(S) == {Key[o] : o \in S}
Buffered == SinkKind = "timescale"

\* The context main passes to the database: Flush from Run gets the signal
\* context, Flush from Write and from Close gets context.Background().
Live(t) == t = "ticker" \/ pc # "flushing" \/ ~ctxDone

----------------------------------------------------------------------------
Init ==
    /\ SinkInit
    /\ pc = "down" /\ ctxDone = FALSE
    /\ pos = 0 /\ base = 0 /\ committed = 0
    /\ todo = {} /\ decoded = {} /\ seen = {} /\ tries = 0 /\ outbox = {}
    /\ redis = {} /\ dlq = {} /\ accepted = {} /\ skipped = {} /\ dropped = {}
    /\ consumed = 0 /\ deduped = 0 /\ dlqSent = 0

\* main() up to Run: the sink, then the group, at its committed offset.
Start ==
    /\ SinkOnly("down", "poll")
    /\ IF Buffered THEN NewTimescaleSink ELSE UNCHANGED sinkVars

----------------------------------------------------------------------------
(* Run: PollFetches and the checks after it.                               *)

\* Mutant: nothing is fetched while a commit is outstanding.
PollWhenCommitted ==
    /\ pc = "poll" /\ ~ctxDone /\ committed = pos
    /\ \E n \in pos+1..N : todo' = pos+1..n /\ pos' = n
    /\ pc' = "decode"
    /\ UNCHANGED <<sinkVars, ctxDone, base, committed, decoded, seen, tries,
                   outbox, redis, fateVars, counters>>

PollRecords ==
    /\ pc = "poll" /\ ~ctxDone
    /\ \E n \in pos+1..N : todo' = pos+1..n /\ pos' = n
    /\ pc' = "decode"
    /\ UNCHANGED <<sinkVars, ctxDone, base, committed, decoded, seen, tries,
                   outbox, redis, fateVars, counters>>

\* Fetch errors are logged; the loop goes on with the records there are.
PollError == ~ctxDone /\ "fetch" \in Faults /\ Goto("poll", "decode")

\* Mutant: Run does not look at ctx.Err() after PollFetches.
PollIgnoresCancel == ctxDone /\ Goto("poll", "decode")

PollCancelled == ctxDone /\ Goto("poll", "close")

----------------------------------------------------------------------------
(* sendToDLQ.  A failed Send is logged and the record given up; the        *)
(* dead letter may have been stored although its answer was lost.          *)

SendDisabled(o) ==
    /\ ~DLQEnabled
    /\ dropped' = dropped \cup {o}
    /\ UNCHANGED <<dlq, dlqSent>>

\* Mutant: dlqSent is not incremented.
SendUncounted(o) ==
    /\ DLQEnabled
    /\ dlq' = dlq \cup {o}
    /\ UNCHANGED <<dlqSent, dropped>>

SendSucceeds(o) ==
    /\ DLQEnabled
    /\ dlq' = dlq \cup {o}
    /\ dlqSent' = dlqSent + 1
    /\ UNCHANGED dropped

SendFails(o) ==
    /\ DLQEnabled /\ (ctxDone \/ "dlq" \in Faults)
    /\ dlq' \in {dlq, dlq \cup {o}}
    /\ dropped' = dropped \cup {o}
    /\ UNCHANGED dlqSent

\* Mutant: the record is logged and not sent.
SendNothing(o) == UNCHANGED <<dlq, dlqSent, dropped>>

sendToDLQ(o) == SendDisabled(o) \/ SendSucceeds(o) \/ SendFails(o)

----------------------------------------------------------------------------
(* handleBatch: the decode loop, SeenBatch, the persist loop.              *)

DecodeRecord ==
    \E o \in Offsets :
        /\ pc = "decode" /\ IsNext(o, todo) /\ o \notin Malformed
        /\ todo' = todo \ {o}
        /\ decoded' = decoded \cup {o}
        /\ UNCHANGED <<sinkVars, pc, ctxDone, kafkaVars, seen, tries, outbox,
                       redis, fateVars, counters>>

DecodeFails ==
    \E o \in Offsets :
        /\ pc = "decode" /\ IsNext(o, todo) /\ o \in Malformed
        /\ todo' = todo \ {o}
        /\ sendToDLQ(o)
        /\ UNCHANGED <<sinkVars, pc, ctxDone, kafkaVars, decoded, seen, tries,
                       outbox, redis, accepted, skipped, consumed, deduped>>

AfterDecode ==
    IF decoded = {} THEN "flush" ELSE IF DedupEnabled THEN "dedup" ELSE "persist"

DecodeDone == todo = {} /\ Goto("decode", AfterDecode)

\* Mutant: keys repeated within one batch are not noticed.
SeenInRedis(S) == {o \in S : Key[o] \in redis}

\* One pipeline of SETNX in batch order: a key set by an earlier record of
\* the same batch is reported as seen for the later one.
SeenIn(S) ==
    {o \in S : Key[o] \in redis \/ \E p \in S : p < o /\ Key[p] = Key[o]}

SeenBatch ==
    /\ pc = "dedup"
    /\ pc' = "persist"
    /\ seen' = SeenIn(decoded)
    /\ redis' = redis \cup Keys(decoded)
    /\ UNCHANGED <<sinkVars, ctxDone, kafkaVars, todo, decoded, tries, outbox,
                   fateVars, counters>>

\* On an error the batch counts as not seen, though any prefix of the
\* pipeline may have been executed.
SeenBatchFails ==
    /\ pc = "dedup" /\ (ctxDone \/ "redis" \in Faults)
    /\ pc' = "persist"
    /\ \E n \in 0..N : redis' = redis \cup Keys({o \in decoded : o <= n})
    /\ UNCHANGED <<sinkVars, ctxDone, kafkaVars, workVars, fateVars, counters>>

SkipSeen ==
    \E o \in Offsets :
        /\ pc = "persist" /\ IsNext(o, decoded) /\ o \in seen
        /\ decoded' = decoded \ {o}
        /\ seen' = seen \ {o}
        /\ skipped' = skipped \cup {o}
        /\ deduped' = deduped + 1
        /\ UNCHANGED <<sinkVars, pc, ctxDone, kafkaVars, todo, tries, outbox,
                       redis, dlq, accepted, dropped, consumed, dlqSent>>

HandleBatchDone == decoded = {} /\ Goto("persist", "flush")

----------------------------------------------------------------------------
(* persist into the buffered sink: Write, and its Flush when the buffer    *)
(* is full.  The event counts as consumed when Write returns.              *)

PersistBuffered ==
    \E o \in Offsets :
        /\ pc = "persist" /\ Buffered /\ IsNext(o, decoded) /\ o \notin seen
        /\ decoded' = decoded \ {o}
        /\ Append(o)
        /\ IF ShouldFlush(buffer \cup {o})
           THEN pc' = "full" /\ UNCHANGED consumed
           ELSE consumed' = consumed + 1 /\ UNCHANGED pc
        /\ UNCHANGED <<ctxDone, kafkaVars, todo, seen, tries, outbox, redis,
                       fateVars, deduped, dlqSent>>

WriteFlush == SinkOnly("full", "writing") /\ DrainBuffer("main")

\* Mutant: Flush hands its batch over and returns without waiting.
FlushAsync == TRUE

\* main's call of Flush has returned, with nil: it never returns an error.
FlushDone == step["main"] = "idle"

WriteReturns ==
    /\ pc = "writing" /\ FlushDone
    /\ pc' = "persist"
    /\ consumed' = consumed + 1
    /\ UNCHANGED <<sinkVars, ctxDone, kafkaVars, workVars, redis, fateVars,
                   deduped, dlqSent>>

(* persist into a direct sink: up to MaxRetries + 1 calls of Write, then   *)
(* the DLQ.                                                                *)

\* Mutant: attempt < c.maxRetries, one attempt too few.
MayWriteOnceLess(n) == n < MaxRetries

\* After n failed attempts, does persist call Write again?
MayWrite(n) == n <= MaxRetries

DirectNext(o) ==
    /\ pc = "persist" /\ ~Buffered /\ IsNext(o, decoded) /\ o \notin seen

PersistDirect ==
    \E o \in Offsets :
        /\ DirectNext(o) /\ MayWrite(tries)
        /\ accepted' = accepted \cup {o}
        /\ decoded' = decoded \ {o}
        /\ tries' = 0
        /\ consumed' = consumed + 1
        /\ UNCHANGED <<sinkVars, pc, ctxDone, kafkaVars, todo, seen, outbox,
                       redis, dlq, skipped, dropped, deduped, dlqSent>>

\* Write returns an error; the event may have been stored all the same.
PersistRetry ==
    \E o \in Offsets :
        /\ DirectNext(o) /\ MayWrite(tries)
        /\ ctxDone \/ "write" \in Faults
        /\ accepted' \in {accepted, accepted \cup {o}}
        /\ tries' = tries + 1
        /\ UNCHANGED <<sinkVars, pc, ctxDone, kafkaVars, todo, decoded, seen,
                       outbox, redis, dlq, skipped, dropped, counters>>

PersistDeadLetter ==
    \E o \in Offsets :
        /\ DirectNext(o) /\ ~MayWrite(tries)
        /\ sendToDLQ(o)
        /\ decoded' = decoded \ {o}
        /\ tries' = 0
        /\ UNCHANGED <<sinkVars, pc, ctxDone, kafkaVars, todo, seen, outbox,
                       redis, accepted, skipped, consumed, deduped>>

----------------------------------------------------------------------------
(* Run after handleBatch: Flush, the poison drain, the commit.             *)

FlushCall == Buffered /\ SinkOnly("flush", "flushing") /\ DrainBuffer("main")

FlushReturns == FlushDone /\ Goto("flushing", "drain")

\* A direct sink has nothing buffered: no Flusher, or a Flush that returns nil.
FlushDirect == ~Buffered /\ Goto("flush", "commit")

\* Flush returns an error: the commit is withheld this round.
FlushDirectFails ==
    ~Buffered /\ (ctxDone \/ "write" \in Faults) /\ Goto("flush", "poll")

TakePoisoned ==
    /\ pc = "drain"
    /\ outbox' = poisoned
    /\ DrainPoisoned
    /\ pc' = "deadletter"
    /\ UNCHANGED <<ctxDone, kafkaVars, todo, decoded, seen, tries, redis,
                   fateVars, counters>>

DeadLetter ==
    \E o \in Offsets :
        /\ pc = "deadletter" /\ o \in outbox
        /\ outbox' = outbox \ {o}
        /\ sendToDLQ(o)
        /\ UNCHANGED <<sinkVars, pc, ctxDone, kafkaVars, todo, decoded, seen,
                       tries, redis, accepted, skipped, consumed, deduped>>

DeadLetterDone == outbox = {} /\ Goto("deadletter", "commit")

\* CommitUncommittedOffsets commits all that was fetched, this round or before.
Commit ==
    /\ pc = "commit" /\ ~ctxDone
    /\ committed' = pos
    /\ pc' = "poll"
    /\ UNCHANGED <<sinkVars, ctxDone, pos, base, workVars, redis, fateVars,
                   counters>>

CommitFails == (ctxDone \/ "commit" \in Faults) /\ Goto("commit", "poll")

----------------------------------------------------------------------------
(* The end of main(): the deferred calls, then the process is gone.        *)

CloseBegin ==
    IF Buffered THEN SinkOnly("close", "closing") /\ CloseStop
                ELSE Goto("close", "exit")

CloseFlushes == SinkOnly("closing", "lastflush") /\ CloseFlush

CloseReturns == FlushDone /\ Goto("lastflush", "exit")

\* Only the table, Redis and the two topics outlive the process.  accepted is
\* the record of what a direct sink acknowledged, and is not taken back.
ProcessEnds ==
    /\ SinkLost
    /\ pc' = "down" /\ ctxDone' = FALSE
    /\ pos' = committed /\ base' = committed
    /\ todo' = {} /\ decoded' = {} /\ seen' = {} /\ tries' = 0 /\ outbox' = {}
    /\ skipped' = {} /\ dropped' = {}
    /\ consumed' = 0 /\ deduped' = 0 /\ dlqSent' = 0
    /\ UNCHANGED <<committed, redis, dlq, accepted>>

Exit == pc = "exit" /\ ProcessEnds
Crash == "crash" \in Faults /\ pc # "down" /\ ProcessEnds

----------------------------------------------------------------------------
SigTerm ==
    /\ "sigterm" \in Faults /\ pc # "down" /\ ~ctxDone
    /\ ctxDone' = TRUE
    /\ UNCHANGED <<sinkVars, pc, kafkaVars, workVars, redis, fateVars, counters>>

\* A Redis key reaches -dedup-ttl.
KeyExpires ==
    \E k \in redis :
        /\ "ttl" \in Faults
        /\ redis' = redis \ {k}
        /\ UNCHANGED <<sinkVars, pc, ctxDone, kafkaVars, workVars, fateVars,
                       counters>>

\* Consumer state left alone by the steps of a Flush in progress.
consumerVars == <<pc, ctxDone, kafkaVars, workVars, redis, fateVars, counters>>

MainFlush   == FlushStep("main", Live("main")) /\ UNCHANGED consumerVars
TickerFlush == FlushStep("ticker", Live("ticker")) /\ UNCHANGED consumerVars
Tick        == TickerFires /\ UNCHANGED consumerVars
TickerEnds  == TickerStops /\ UNCHANGED consumerVars

Main ==
    \/ PollRecords \/ PollError \/ PollCancelled
    \/ DecodeRecord \/ DecodeFails \/ DecodeDone
    \/ SeenBatch \/ SeenBatchFails \/ SkipSeen \/ HandleBatchDone
    \/ PersistBuffered \/ WriteFlush \/ WriteReturns
    \/ PersistDirect \/ PersistRetry \/ PersistDeadLetter
    \/ FlushCall \/ FlushReturns \/ FlushDirect \/ FlushDirectFails
    \/ TakePoisoned \/ DeadLetter \/ DeadLetterDone
    \/ Commit \/ CommitFails
    \/ CloseBegin \/ CloseFlushes \/ CloseReturns \/ Exit
    \/ MainFlush

Ticker == Tick \/ TickerFlush \/ TickerEnds

Environment == Start \/ SigTerm \/ Crash \/ KeyExpires

Next == Main \/ Ticker \/ Environment

Spec == Init /\ [][Next]_vars
----------------------------------------------------------------------------
(* Fairness.  A goroutine that can run does run; the brokers answer a      *)
(* consumer that keeps fetching; the orchestrator (a Deployment, or docker *)
(* compose) starts an ended process again.  PollFetches blocks at the end  *)
(* of the log: nothing makes a fetch fail, and nothing makes a commit      *)
(* succeed.                                                                *)

Fairness ==
    /\ WF_vars(pc # "poll" /\ Main) /\ WF_vars(PollCancelled)
    /\ SF_vars(PollRecords)
    /\ WF_vars(TickerFlush) /\ WF_vars(TickerEnds)
    /\ WF_vars(Start)

FairSpec == Spec /\ Fairness

----------------------------------------------------------------------------
(* Properties.                                                             *)

PCs == {"down", "poll", "decode", "dedup", "persist", "full", "writing",
        "flush", "flushing", "drain", "deadletter", "commit",
        "close", "closing", "lastflush", "exit"}

\* Every variable keeps its type: in particular no process fetches or
\* commits past the end of the log, no retry loop of Flush or persist runs
\* past MaxRetries + 1 attempts, and the table holds only events of the topic.
TypeOK ==
    /\ SinkTypeOK
    /\ pc \in PCs /\ ctxDone \in BOOLEAN
    /\ pos \in 0..N /\ base \in 0..N /\ committed \in 0..N
    /\ todo \subseteq Offsets /\ decoded \subseteq Offsets
    /\ seen \subseteq Offsets /\ outbox \subseteq Offsets
    /\ tries \in 0..MaxRetries+1
    /\ redis \subseteq Keys(Offsets)
    /\ dlq \subseteq Offsets /\ accepted \subseteq Offsets
    /\ skipped \subseteq Offsets /\ dropped \subseteq Offsets
    /\ consumed \in Nat /\ deduped \in Nat /\ dlqSent \in Nat

\* The events this process holds in memory, and what became of the others.
InMemory ==
    todo \cup decoded \cup buffer \cup batch["main"] \cup batch["ticker"]
         \cup poisoned \cup outbox

Stored(o) == Row(o) \in table \/ o \in dlq \/ o \in accepted

\* With dedup, the copy of an event that was stored stands for all of them.
Settled(o) ==
    \/ Stored(o)
    \/ DedupEnabled /\ \E p \in Offsets : Key[p] = Key[o] /\ Stored(p)

\* Whatever goroutines, retries, failed calls and signals do, a fetched
\* record is in memory, stored, skipped as a duplicate or explicitly given up
\* by sendToDLQ: no hand-over in handleBatch, Write, Flush or DrainPoisoned
\* loses one.
NothingForgotten ==
    \A o \in base+1..pos :
        o \in InMemory \/ Stored(o) \/ o \in skipped \/ o \in dropped

\* An event in memory has one owner.  main's and the ticker's Flush never
\* hold the same event, and none is both waiting and being written.
SingleOwner ==
    LET place == <<todo, decoded, buffer, batch["main"], batch["ticker"],
                   poisoned, outbox>>
    IN \A i, j \in 1..7 : i # j => place[i] \cap place[j] = {}

\* Where in the loop each piece of work can be: no round begins before the
\* round before it has decoded, persisted, flushed and dead-lettered all its
\* records.  Only the ticker's batch and the poison list outlive a round.
Phases ==
    /\ todo # {} => pc = "decode"
    /\ decoded # {} => pc \in {"decode", "dedup", "persist", "full", "writing"}
    /\ buffer # {} => Buffered /\ pc \in {"persist", "full", "flush"}
    /\ outbox # {} => pc = "deadletter"
    /\ step["main"] # "idle" => Buffered /\ pc \in {"writing", "flushing"}
    /\ \A t \in Threads : step[t] = "idle" <=> batch[t] = {}
    /\ base <= committed /\ committed <= pos
    /\ pc = "dedup" \/ seen # {} \/ skipped # {} => DedupEnabled

\* A step of persist: a record that it neither consumes nor skips has failed
\* MaxRetries + 1 times, and the next record starts from zero.
PersistSpent ==
    /\ tries' \in {0, tries, tries + 1}
    /\ decoded' # decoded => tries' = 0
    /\ ~Buffered /\ pc = "persist" /\ pc' = "persist" /\ decoded' # decoded
           /\ UNCHANGED <<consumed, deduped>> => tries = MaxRetries + 1

\* The same of Flush, for the COPY of a batch and for each of its rows.
FlushSpent ==
    /\ \A t \in Threads :
           /\ attempt'[t] \in {0, attempt[t], attempt[t] + 1}
           /\ batch'[t] # batch[t] => attempt'[t] = 0
           /\ step[t] = "copy" /\ step'[t] = "rows" =>
                  attempt[t] = MaxRetries /\ attempt'[t] = 0
    /\ \A o \in poisoned' \ poisoned :
           \E t \in Threads :
               step[t] = "rows" /\ IsNext(o, batch[t]) /\ attempt[t] = MaxRetries

\* Poison is decided by the record's own failures: persist gives a record up
\* after exactly MaxRetries + 1 failed writes, Flush falls back to rows after
\* exactly MaxRetries + 1 failed COPYs, and a row becomes poison after exactly
\* MaxRetries + 1 failed INSERTs.  No attempt is skipped, none is added, and
\* none is charged to the next record, row or batch.
RetriesSpent == [][PersistSpent /\ FlushSpent]_vars

\* At-least-once delivery: every record below the committed offset of the
\* group is in the table or the dead-letter topic, so that no crash or restart
\* can lose it, or was acknowledged by the direct sink.
CommitCovered == \A o \in 1..committed : Settled(o)

\* What Run's commit leaves open while the ticker flushes: a record that this
\* process committed and that is not settled is in the ticker's batch or is a
\* poison event the ticker reported.
CommitWindow ==
    ~ctxDone => \A o \in base+1..committed :
                    Settled(o) \/ o \in batch["ticker"] \cup poisoned \cup outbox

\* Effectively-once: with dedup, two copies of an event never make two rows,
\* even when their event times differ and the unique index does not help.
OneRowPerKey == \A r, s \in table : r[1] = s[1] => r = s

\* When main() returns after SIGTERM, Close has left no event in the buffer
\* and none in a flush, its own or the ticker's.
ExitDrained ==
    pc = "exit" => /\ buffer = {}
                   /\ \A t \in Threads : batch[t] = {} /\ step[t] = "idle"

\* With a direct sink the counters account for every record: fetched records
\* are consumed, deduped, dead-lettered, given up or still in handleBatch.
EveryRecordCounted ==
    ~Buffered =>
        consumed + deduped + dlqSent + Cardinality(dropped)
            + Cardinality(todo) + Cardinality(decoded) = pos - base

\* After SIGTERM the process ends, however many flushes are in progress and
\* whichever of its calls fail.
ShutdownCompletes == ctxDone ~> pc \in {"exit", "down"}

\* Unless the process is ended over and over, it gets through the log: no
\* failed fetch, flush, dead letter or commit and no poison record blocks the
\* partition.  (A commit that fails in the last round is not tried again before
\* another record arrives, so committed = N would be too much to ask.)
LogConsumed == []<><<Crash \/ SigTerm>>_vars \/ []<>(pos = N /\ pc = "poll")

\* The detailed consumer implements the abstract at-least-once delivery.
Delivery == INSTANCE Delivery WITH delivered <- {o \in Offsets : Settled(o)}
ImplementsDelivery == Delivery!Spec
=============================================================================
