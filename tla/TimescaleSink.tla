--------------------------- MODULE TimescaleSink ---------------------------
(***************************************************************************)
(* The buffered TimescaleDB sink of internal/sink/timescale.go.            *)
(*                                                                         *)
(* Two goroutines share the sink: "main", the consumer loop that calls     *)
(* Write, Flush, DrainPoisoned and Close, and "ticker", the tickerLoop     *)
(* that calls Flush every flushInterval.  The mutex covers only the access *)
(* to buffer and poisoned, so each critical section is one action and      *)
(* everything between two critical sections (every database call) is a     *)
(* step of its own that the other goroutine may come before or after.      *)
(*                                                                         *)
(* An event is named by the offset of its record.  A process hands every   *)
(* offset to the sink once and in increasing order, so the slices buffer,  *)
(* poisoned and batch are sets of offsets read in increasing order; the    *)
(* invariant SingleOwner of module Consumer says that no offset is lost by *)
(* that representation.                                                    *)
(***************************************************************************)
EXTENDS Naturals, FiniteSets

CONSTANTS
    N,            \* number of records in the topic partition
    Key,          \* Key[o]: idempotency key of the event at offset o
    Time,         \* Time[o]: its event time, as TIMESTAMPTZ keeps it
    Rejected,     \* offsets whose row the database always refuses
    BatchSize,    \* -batch-size
    MaxRetries,   \* -max-retries, for the sink and for the consumer
    FlushTicks,   \* does flushInterval elapse during the behaviour?
    Faults        \* what the environment may do wrong

Offsets == 1..N
Threads == {"main", "ticker"}

ASSUME SinkAssumption ==
    /\ N \in Nat
    /\ Rejected \subseteq Offsets
    /\ BatchSize \in Nat
    /\ MaxRetries \in Nat
    /\ FlushTicks \in BOOLEAN

VARIABLES
    buffer,       \* TimescaleSink.buffer
    poisoned,     \* TimescaleSink.poisoned
    table,        \* rows of telemetry_events
    step,         \* step[t]: where goroutine t is in Flush
    batch,        \* batch[t]: events of its batch t has still to settle
    attempt,      \* attempt[t]: failed attempts of t's current call
    ticker        \* "running", "stopping" (stop closed), "done" (done closed)

sinkVars == <<buffer, poisoned, table, step, batch, attempt, ticker>>

----------------------------------------------------------------------------
(* The table.  Its unique index is on (idempotency_key, event_time).       *)

Row(o) == <<Key[o], Time[o]>>
Rows(S) == {Row(o) : o \in S}

\* A COPY is one statement: it stores all its rows or none.
Insertable(b) ==
    /\ b \cap Rejected = {}
    /\ \A o \in b : Row(o) \notin table
    /\ \A o, p \in b : Row(o) = Row(p) => o = p

\* A call may fail for reasons other than its rows: the database is away,
\* or the caller's context (live: not cancelled) ended.
MayFail(live) == ~live \/ "db" \in Faults

----------------------------------------------------------------------------
SinkInit ==
    /\ buffer = {} /\ poisoned = {} /\ table = {}
    /\ step = [t \in Threads |-> "idle"]
    /\ batch = [t \in Threads |-> {}]
    /\ attempt = [t \in Threads |-> 0]
    /\ ticker = "done"

\* What is left of the sink when its process ends: the table.
SinkLost ==
    /\ buffer' = {} /\ poisoned' = {}
    /\ step' = [t \in Threads |-> "idle"]
    /\ batch' = [t \in Threads |-> {}]
    /\ attempt' = [t \in Threads |-> 0]
    /\ ticker' = "done"
    /\ UNCHANGED table

NewTimescaleSink ==
    /\ ticker' = "running"
    /\ UNCHANGED <<buffer, poisoned, table, step, batch, attempt>>

\* The critical section of Write.  The caller flushes when ShouldFlush.
Append(o) ==
    /\ buffer' = buffer \cup {o}
    /\ UNCHANGED <<poisoned, table, step, batch, attempt, ticker>>

ShouldFlush(b) == Cardinality(b) >= BatchSize

----------------------------------------------------------------------------
(* Flush, by goroutine t.                                                  *)

\* Mutant: drainBuffer forgets s.buffer = nil.
DrainBufferKeeps(t) ==
    /\ step[t] = "idle"
    /\ batch' = [batch EXCEPT ![t] = buffer]
    /\ step' = [step EXCEPT ![t] = IF buffer = {} THEN "idle" ELSE "copy"]
    /\ attempt' = [attempt EXCEPT ![t] = 0]
    /\ UNCHANGED <<buffer, poisoned, table, ticker>>

\* drainBuffer, and the early return on an empty batch.
DrainBuffer(t) ==
    /\ step[t] = "idle"
    /\ batch' = [batch EXCEPT ![t] = buffer]
    /\ buffer' = {}
    /\ step' = [step EXCEPT ![t] = IF buffer = {} THEN "idle" ELSE "copy"]
    /\ attempt' = [attempt EXCEPT ![t] = 0]
    /\ UNCHANGED <<poisoned, table, ticker>>

\* Mutant: the retry loops run once too often.
RetriesOnceMore(n) == n <= MaxRetries

\* Mutant: the retry loops run once too little.
RetriesOnceLess(n) == n + 1 < MaxRetries

\* After n + 1 failed attempts, does the loop of Flush try again?
RetriesLeft(n) == n < MaxRetries

CopySucceeds(t, live) ==
    /\ step[t] = "copy"
    /\ live /\ Insertable(batch[t])
    /\ table' = table \cup Rows(batch[t])
    /\ batch' = [batch EXCEPT ![t] = {}]
    /\ step' = [step EXCEPT ![t] = "idle"]
    /\ attempt' = [attempt EXCEPT ![t] = 0]
    /\ UNCHANGED <<buffer, poisoned, ticker>>

\* copyBatch returns an error.  The rows may be in the table all the same:
\* the statement was executed and only its answer was lost.
CopyFails(t, live) ==
    /\ step[t] = "copy"
    /\ \/ ~Insertable(batch[t]) /\ UNCHANGED table
       \/ MayFail(live) /\ UNCHANGED table
       \/ /\ MayFail(live) /\ Insertable(batch[t])
          /\ table' = table \cup Rows(batch[t])
    /\ IF RetriesLeft(attempt[t])
       THEN /\ attempt' = [attempt EXCEPT ![t] = @ + 1]
            /\ UNCHANGED step
       ELSE /\ attempt' = [attempt EXCEPT ![t] = 0]
            /\ step' = [step EXCEPT ![t] = "rows"]
    /\ UNCHANGED <<buffer, poisoned, batch, ticker>>

\* The row loop of Flush takes the batch in order.
IsNext(o, S) == o \in S /\ \A p \in S : o <= p

\* Event o is dealt with: the loop goes on to the next one, or Flush returns.
NextRow(t, o) ==
    /\ batch' = [batch EXCEPT ![t] = @ \ {o}]
    /\ step' = [step EXCEPT ![t] = IF batch[t] = {o} THEN "idle" ELSE "rows"]
    /\ attempt' = [attempt EXCEPT ![t] = 0]

\* INSERT ... ON CONFLICT DO NOTHING succeeds on a row that is there.
InsertSucceeds(t, live) ==
    \E o \in Offsets :
        /\ step[t] = "rows" /\ IsNext(o, batch[t])
        /\ live /\ o \notin Rejected
        /\ table' = table \cup {Row(o)}
        /\ NextRow(t, o)
        /\ UNCHANGED <<buffer, poisoned, ticker>>

\* Mutant: an event that exhausts its retries is only logged.
MarkPoisonedLost(o) == UNCHANGED poisoned

MarkPoisoned(o) == poisoned' = poisoned \cup {o}

InsertFails(t, live) ==
    \E o \in Offsets :
        /\ step[t] = "rows" /\ IsNext(o, batch[t])
        /\ \/ o \in Rejected /\ UNCHANGED table
           \/ MayFail(live) /\ UNCHANGED table
           \/ MayFail(live) /\ o \notin Rejected /\ table' = table \cup {Row(o)}
        /\ IF RetriesLeft(attempt[t])
           THEN /\ attempt' = [attempt EXCEPT ![t] = @ + 1]
                /\ UNCHANGED <<poisoned, batch, step>>
           ELSE MarkPoisoned(o) /\ NextRow(t, o)
        /\ UNCHANGED <<buffer, ticker>>

FlushStep(t, live) ==
    \/ CopySucceeds(t, live) \/ CopyFails(t, live)
    \/ InsertSucceeds(t, live) \/ InsertFails(t, live)

----------------------------------------------------------------------------
(* The other methods and the ticker's loop.                                *)

DrainPoisoned ==
    /\ poisoned' = {}
    /\ UNCHANGED <<buffer, table, step, batch, attempt, ticker>>

\* select picks ticker.C; it may still do so once stop is closed.
TickerFires ==
    /\ FlushTicks
    /\ ticker \in {"running", "stopping"}
    /\ DrainBuffer("ticker")

\* select picks stop: the deferred close(done) follows.
TickerStops ==
    /\ ticker = "stopping"
    /\ step["ticker"] = "idle"
    /\ ticker' = "done"
    /\ UNCHANGED <<buffer, poisoned, table, step, batch, attempt>>

\* Close, first half: close(stop).
CloseStop ==
    /\ ticker' = "stopping"
    /\ UNCHANGED <<buffer, poisoned, table, step, batch, attempt>>

\* Mutant: Close does not wait for done.
CloseFlushAtOnce == DrainBuffer("main")

\* Close, second half: once done is closed, the last Flush.
CloseFlush == ticker = "done" /\ DrainBuffer("main")

----------------------------------------------------------------------------
SinkTypeOK ==
    /\ buffer \subseteq Offsets
    /\ poisoned \subseteq Offsets
    /\ table \subseteq Rows(Offsets)
    /\ step \in [Threads -> {"idle", "copy", "rows"}]
    /\ batch \in [Threads -> SUBSET Offsets]
    /\ attempt \in [Threads -> 0..MaxRetries]
    /\ ticker \in {"running", "stopping", "done"}

=============================================================================
