# Sluice Gate: a TLA+ verification project

Sluice Gate ingests telemetry: clients push events over gRPC to a *gateway*, which queues them and
writes them to Kafka; a *consumer* group reads the topic, drops duplicates with Redis, stores rows in
TimescaleDB in batches and sends what cannot be stored to a dead-letter topic. This directory holds
TLA+ models of these processes, of the load generator and of the report generator, the TLC
configurations that check them, and TLAPS proofs of the safety properties that hold. Everything is
translated from the Go source; `PROJECT.json` maps each definition to its lines.

## Inventory

| Part | State | Operations | What must hold |
|---|---|---|---|
| Consumer loop (`internal/consumer`, `cmd/consumer`) | fetch position, the round's records, counters | `Run`: poll, decode, `SeenBatch`, `persist`, `Flush`, drain poison, commit; SIGTERM, exit | a committed record is stored; none is forgotten; the partition never blocks; shutdown ends |
| TimescaleDB sink (`internal/sink/timescale.go`) | `buffer`, `poisoned`, a batch per goroutine | `Write`, `Flush` (COPY with retries, then rows with retries), `DrainPoisoned`, ticker, `Close` | two goroutines never share or lose an event; `Close` leaves none behind |
| Redis deduper (`internal/dedup`) | keys with a TTL | `SeenBatch` (pipelined SETNX) | one row per idempotency key, without losing the only copy |
| Dead-letter producer (`internal/dlq`) | the dead-letter topic | `Send` | unstorable records are in the topic |
| Gateway (`internal/gateway`, `internal/pool`, `internal/sink/kafka.go`, `cmd/gateway`) | bounded channel, workers, calls in progress, `errCount` | `Push` with `Submit` or `TrySubmit`, workers, `GracefulStop`, `Pool.Close`, `closeSink` | accepted events are in exactly one place; bounded backlog; no send on a closed channel; clean exit |
| Kafka, Redis, TimescaleDB, gRPC | topic and committed offset, keys, rows, calls | external | as the clients use them |
| Load generator (`internal/loadgen`) | goroutines, `runCtx`, counters | `Run`: issue, answer, error, end | the report matches what the gateway did; `Run` returns |
| Consumer group (several `cmd/consumer` processes) | owner and committed offset of each partition, what each member believes to own | rebalance, late revocation, death, poll, commit | a committed record that is not stored is in a member's hands or lost with it; no second row while Redis is reliable; commits never go back |
| Report generator (`internal/report`, `cmd/report`, `internal/results`) | results directory, README, charts | write a result, `Load`, `Headlines`, `ReplaceBetweenMarkers`, three charts | the newest verdict is shown; headlines agree with the table; charts are drawn with it; the README's own text is kept |
| Loss test, metrics, topic tools, deployment | | | not modelled, see the last section |

Interactions: `Push` handlers and workers share the channel; workers share `errCount`; `Run` calls the
sink, Redis, the dead-letter producer and the group coordinator, one after the other; the sink's
ticker goroutine runs beside `Run` and shares `buffer` and `poisoned` under a mutex that covers only
the access to them. What is hard here: two goroutines flushing one buffer, the order of dedup mark,
row and commit across a crash, a context cancelled in the middle of a round, failures of one of
several external calls, a partition that moves in the middle of a round, the two shutdown sequences,
and files written in place by processes that may be killed. `PROJECT.json` lists the hazards by line.

## Modules

| Module | Models |
|---|---|
| `TimescaleSink` | the sink: its variables and one action per critical section or database call |
| `Consumer` | extends `TimescaleSink`: the consumer process with Kafka, Redis, the dead-letter topic, SIGTERM, crash and restart; the properties |
| `Delivery` | abstract: the committed offset moves only forward and only over delivered records |
| `ConsumerProofs`, `OwnershipProofs` | theorems about `Consumer`: delivery; ownership, shutdown, retries, counters and dedup |
| `Gateway` | `Push` calls, bounded queue, workers, broker log, shutdown; the properties |
| `Backpressure` | abstract: a bounded buffer (`Safety`) in which every admitted event is finished in the end (`Spec`) |
| `GatewayProofs`, `LoadgenProofs` | theorems about `Gateway` and `Loadgen` |
| `Loadgen` | extends `Gateway`: the load generator's goroutines, their calls on one expiring context, and what they count |
| `ConsumerGroup` | several members sharing partitions, Redis and the table; the steps of a round merged |
| `ConsumerGroupProofs` | theorems about `ConsumerGroup` |
| `Report` | the results directory, the benchmarks that write it, `cmd/report`, the README and the charts |
| `ReportProofs` | theorems about `Report` |
| `MCConsumer`, `MCGateway`, `MCLoadgen`, `MCConsumerGroup`, `MCReport` | the logs, requests, measurements and READMEs used by the configurations |

**State and atomicity.** An event is named by the offset of its record. A process hands each offset
to the sink once and in order, so the slices `buffer`, `poisoned` and a goroutine's batch are sets
read in increasing order; `SingleOwner` is the check that this loses nothing. Every critical section
of the sink's mutex is one action, every external call another, so the ticker, SIGTERM and a crash
can come between any two of them. In `Write` the append and the flush are separate steps because the
mutex is released between them. `Consumer!pc` names where `Run` is; `Live` says which context a
database call runs on: only the `Flush` called by `Run` uses the signal context, the flushes of
`Write`, of the ticker and of `Close` use `context.Background()`.

**External calls.** A database call, a dead letter, a direct `Write` or a produce can fail, and can
fail after it took effect (the answer was lost). `COPY` is all or nothing and fails on any row that
the unique index `(idempotency_key, event_time)` or the table refuses; `INSERT ... ON CONFLICT DO
NOTHING` succeeds on a row that is there. A failed pipeline of SETNX may have executed any prefix. A
commit issued on a context that is already cancelled is not sent. On a cancelled context a call may
also have taken effect: that covers the call that SIGTERM interrupts, and is a little wider than the
code for the calls after it. The constant `Faults` names the faults a run allows: `crash`, `sigterm`,
`fetch`, `commit`, `redis`, `ttl`, `dlq`, `write` (direct sinks) and `db`.

**Sinks.** `SinkKind = "timescale"` is the buffered sink. `"direct"` is a sink without a poison list
(`MemorySink`, `KafkaSink`): it takes the other branch of `persist`, with retries and a dead letter,
and its `Flush`, if it has one, may fail and withhold the commit. `accepted` is what such a sink has
acknowledged. `KafkaSink` keeps that across a restart, `MemorySink`, the one `cmd/consumer` builds,
does not; `direct_sink` therefore has no crash. `FlushTicks = FALSE` is a `-flush-interval` that does
not elapse.

**Restart.** `Exit` and `Crash` clear what the process had in memory and put the next process at the
committed offset; table, Redis, both topics and the committed offset stay. Counters restart at zero,
which also bounds them.

**Gateway.** Event `<<c, i>>` is the i-th event of call `c`; `log` is what the broker has, in the order
of arrival. `errCount++` is a read and a later write by each worker,
which are the outcomes of that data race. `-queue` is at least 1. `Crash` ends the process at any step:
what the queue and the workers hold is gone (`lost`), calls in progress are broken. It ends the
behaviour, because the next process starts with nothing.

**Load generator.** Call `<<g, k>>` is the k-th `Push` of goroutine `g`. A call that fails at the client
may still arrive, be handled and be accepted; its handler's context ends some time after the client
gave it up. Nothing obliges a request to arrive or an answer to come back. `DeviceOf` gives a batch's
events to the devices in turn, with the sequence number going on from batch to batch, so a device's
events are spread over requests and a request over devices.

**Consumer group.** `owner` is the coordinator's assignment, `assigned[m]` what member `m` believes; a
move changes the first at once and the second of the old owner only with `Revoke`, at any later step
or never. Until then the old owner fetches, marks keys, stores and tries to commit, and the coordinator
refuses its commits (an earlier generation). A round is that of `Consumer` with its steps merged: the
places between `handleBatch` and the commit are one set per goroutine, `work[m]` for `Run` and `late[m]`
for the ticker (its batch, and the poison it found). `Init` chooses from `Deployments` whether dedup is
on and which of `ticker`, `db`, `dlq`, `redis`, `ttl` and `sigterm` can happen; rebalances, deaths and
failed commits always can. `Flush` is done when `work[m]` is empty, whatever the ticker still holds
(`FlushDone`). A failed `SeenBatch` has set the keys of a first part of the records, and the batch
passes as not seen. SIGTERM cancels the context of `Run`: `SeenBatch`, dead letters and the commit then
fail, while `Write`'s flush on `context.Background()` may still store rows. `gone` has the records let
go unstored that nobody will read again: by a failed dead letter, or by the end of a member that had
their key set or, for the ticker's batch, their offset committed. Records that do not decode are left to
`Consumer`. Copies of an event are in one partition, because the gateway keys records by device.

**Report.** A result file is its kind, phase, number (concurrency or replicas), second and value; files
are loaded in the order of their names, then listed as `sort.Slice` may leave them: in order, equal
elements in any order (`InOrder`). A torn file makes every `Load` fail.
The README is a sequence of tokens: text, the two markers, a table. A chart is the set of points drawn;
a chart that fails or is cut off keeps the old picture or an empty one, and one that panics ends
`cmd/report` (`"panicked"`). `Killed` may end `cmd/report`
between any two steps, `UpdateTorn` in the middle of `os.WriteFile`.

## Runs

| Run | Question | Result |
|---|---|---|
| `at_least_once` | no ticker flush, no dedup: crash, SIGTERM, outages, poison and malformed records, failed commits | committed records are stored; refines `Delivery`; a batch or row is given up after exactly its attempts |
| `two_flushers` | ticker and dedup together, a retried event with another event time: crashes, database and dead-letter faults | one owner per event, nothing forgotten, rounds do not overlap, one row per key |
| `ticker_flushes` | the ticker flushing, under fairness | what is committed but not stored is in the ticker's batch or on the poison list; `Close` drains; SIGTERM ends the process; the whole log is consumed |
| `direct_sink` | failing direct sink, failing and forgetful Redis | nothing forgotten, committed records acknowledged, counters balance, every attempt of `persist` made |
| `gateway` | two workers, concurrent calls, a queue of one, failing writes, shutdown, crash, under fairness | accepted events accounted for, no send on a closed channel, clean exit, `errCount` bounds; refines `Backpressure`; calls return; a signalled gateway exits |
| `load_shed` | the load generator against a gateway with `-shed` and one worker that may never run | its report is honest up to one batch per error; it ends; calls return; a crash loses at most what queue and worker hold; the safety part of `Backpressure` |
| `group` | two members, two partitions, five deployments: rebalances at any step, late revocations, deaths, SIGTERM, failed commits | a committed record is stored, in a member's hands, or in `gone`; stored in any case without dedup, ticker and failing dead letters; one row per key while Redis is reliable and no SIGTERM comes; commits never go back; every other event is stored in the end |
| `report` | benchmarks, torn files, refusals, panics and kills around `cmd/report` | newest verdicts, honest headlines that divide by no zero, README text kept |

Runs that end in a counterexample, each a disagreement between the code and its documentation
(quoted in `PROJECT.json`, `findings`):

| Run | What happens |
|---|---|
| `dedup_crash` | key set in Redis, crash before the row is stored, redelivery skipped as seen, offset committed: the event is lost |
| `ticker_commit` | the ticker takes the buffer, `Run`'s `Flush` finds it empty and `Run` commits |
| `device_order` | two workers take two events of one device, accepted in the order of one request, and the later one reaches the broker first |
| `charts` | a sweep with throughput zero: the logarithmic axis of the first chart panics after the table was rewritten, and the other charts are not drawn |

The models show further behaviour a maintainer should know, without a run of its own:

* `TimescaleSink.Flush` never returns an error: in a database outage the round's healthy events are
  dead-lettered and its offsets committed, while `DECISIONS.md:86-88` says that "the round's offsets
  are simply not committed". The table and the dead-letter topic together still have every event.
* A commit that fails in the last round is not repeated until `PollFetches` returns again. Everything
  is stored, but the lag stays until another record comes; `LogConsumed` asks for the position only.
* After a rebalance with dedup, the new owner skips an event whose key the old owner has set and commits
  its offset, while the old owner still has to store it; if that one dies, the event is lost. This is
  `dedup_crash` without a crash of the committing process; `GroupCovered` counts it by `Held` and `gone`.
* A SIGTERM before `SeenBatch` makes the call fail and the batch pass as not seen; `Write` then flushes
  on `context.Background()`, so two copies of an event with different event times make two rows
  (`GroupOneRow` therefore excludes `sigterm`).
* A `BLOCKED` file in `bench/results/` hides every scaling point measured later, also from the replicas
  chart, which keeps its old picture (`RESULTS.md:190-191`: the table "should always match what's in
  `bench/results/`"; `README.md:120`: the charts are "regenerated alongside the table").
* A `cmd/report` killed while it writes the README can leave it without its end marker; every later
  report then refuses it. A result file torn by a killed benchmark stops all reports until it is removed.
* With `DedupEnabled`, an orderly SIGTERM loses events the way a crash does: the cancelled context makes
  `Flush` poison the batch and the dead letters fail, and the redelivered records are skipped
  (`dedup_crash` with `Faults = {"sigterm"}`).
* A failed dead letter is only logged, then committed (`at_least_once` with `"dlq"` added to
  `Faults` violates `CommitCovered`).
* A poison event that the ticker finds after `Run`'s drain waits in memory until another record
  arrives; `CommitWindow` counts it among what is at risk.
* `consumed` counts an event when the buffered `Write` returns, also if its row is refused later.
  `EveryRecordCounted` is therefore checked for direct sinks only.
* An event that `Push` accepted is dropped when its `ProduceSync` fails; `AcceptedAccounted` says
  that it is then counted as failed, never that it arrives.

**Bounds.** Consumer: three records, in `two_flushers` and `direct_sink` four, batch size 2 and one or
(`at_least_once`, `direct_sink`) two retries: enough for a round that fills the buffer in
`Write` and leaves a remainder for `Flush`, for a batch with one bad row among good ones, for rounds
of one, two or three records, for a duplicate in the same and in a later round, and for a retry that
is neither the first nor the last attempt. Crashes, signals
and failures are not counted: any number may happen. Gateway: two calls with three events,
two workers and a queue of one, so that a call blocks on a full queue while both workers
are busy. `load_shed`: one goroutine, two calls of two events, so the second call may
run while the gateway still handles the first; one worker and a queue of two make the bound 3, which
four events can exceed. `device_order`: requests of three events over two devices, so one request has
two events of one device. `group`: two members; one partition with two copies of an event, whose event
times differ, and an empty one, whose moves only change the generation; five deployments, each with the
faults that act together; at most two deaths, SIGTERMs and moves away from a live owner (`MaxMoves`),
so a partition can go away and come back, or move before its new or old owner ends.
`report`: at most three files (`MaxFiles`) in two seconds (`MaxTime`), out of seven results: a mock sweep that
measured nothing, a real one, a loss test, a blocked run, and scaling points with and without
throughput; enough for a sweep with two verdicts, with two scaling points, or with a blocked run and a
point; nothing is measured after a torn file, which already stops every
`Load`. `CHECK_DEADLOCK FALSE`: a consumer without faults blocks in `PollFetches` at
the end of the log, a gateway has exited, and a group or a results directory has used up its bounds.

**Fairness.** Weak fairness on the steps of each goroutine: the Go scheduler runs what can run, and
external calls return, either way. Strong fairness on `PollRecords`: a broker that
fails some fetches does not fail all of them for ever. Nothing makes a fetch fail either, because `PollFetches` blocks
at the end of the log, and nothing makes a commit succeed. Weak fairness on `Start`: the orchestrator restarts the
consumer. Nothing is assumed of `Tick`, of signals, crashes or clients. `LogConsumed` excludes
endless crashes and signals explicitly. `group` assumes weak fairness of each member's `Run`, of the
assignment of unowned partitions and of restarts; a client may never learn that it was revoked, and what
a ticker holds may stay there (its poison waits for a round that may never come).
`report` checks safety only. `load_shed` assumes fairness of
the handlers and of the client's deadline alone: no worker has to run and no answer has to arrive.

## Proofs

Every safety property that a passing run checks, invariant or action property, is also a theorem, for
all values of the constants that satisfy the named assumptions. `CommitWindowHolds`, `AtLeastOnce`,
`ConsumerImplementsDelivery`, `CopiesMakeOneRow` and `CleanExit` have further hypotheses, given below;
`GroupAtLeastOnce` and `GroupOneRow` carry their conditions in the property itself. Each theorem is `Spec => []Inv` or `Spec => [][A]_vars`, from the
inductive invariant named below it; a step lemma has a case for each action that can disturb it.

**`ConsumerProofs`** (assumptions `SinkAssumption`, `ConsumerAssumption`; any log, keys, times, batch
size, retry limit and set of faults):

* `TypeCorrect`: `TypeOK`.
* `RoundsDoNotOverlap`: `Phases`, which work can be where in the loop. It is what makes the other
  invariants inductive: a poll replaces `todo`, a drain replaces `outbox` and `drainBuffer` replaces
  the batch, and each would lose events if the old value were not empty.
* `NothingIsForgotten`: `NothingForgotten`, in every configuration and under every fault. One lemma
  per hand-over (`SendKeeps`, `FlushKeeps`, `StepKeeps`).
* `CommitWindowHolds`: `CommitWindow`, for any ticker, without dedup and with a dead-letter topic
  that answers. Strengthened by `DropsOnlyAtShutdown`: a record is given up only after SIGTERM, and
  no commit follows that.
* `AtLeastOnce`: `CommitCovered`, if moreover the ticker does not flush. Strengthened by
  `OnlyMainFlushes`: the ticker's batch is empty, and so is the poison list from the drain to the
  commit.
* `ConsumerImplementsDelivery`: refinement of `Delivery` under the same conditions.

The conditions are needed: `ticker_commit` and `dedup_crash` are the counterexamples when the one on
the ticker or on dedup is dropped, and a failed dead letter (above) is the third.

**`OwnershipProofs`** (the same assumptions):

* `OneOwnerPerEvent`: `SingleOwner`. From `Disjoint`, the same pair by pair, and `Fetched`: what is in
  memory is below the fetch position, so a poll brings nothing that somebody holds already.
* `CloseDrains`: `ExitDrained`, from `TickerOver`: the ticker has ended when main is past waiting for
  it, and an ended ticker flushes nothing.
* `RetriesAreSpent`: `RetriesSpent`, by `MaxRetries + 1` attempts each of `persist`, of `COPY` and of a
  row's `INSERT`, no more and no fewer. From `TriesOfNext`: failed attempts are counted
  only while `persist` retries the next record.
* `CountersAddUp`: `EveryRecordCounted`, from `DirectPath` (with a direct sink main never gets into the
  steps of the buffered one) and `DroppedOnce` (what was given up was fetched and is not in hand any
  more, so it is counted once).
* `CopiesMakeOneRow`: `OneRowPerKey`, if `DedupReliable`: dedup is on, Redis answers and keeps its keys,
  and there is no SIGTERM. The invariant is `OneClaim`: whoever may still write a key
  holds it alone and in Redis, and the table has no row of that key but its own. SIGTERM has to be
  excluded: it cancels the context of `SeenBatch`, whose failure lets every record pass.

**`GatewayProofs`** (`GatewayAssumption`; any calls, requests, queue and finite set of workers):

* `TypeCorrect`, and `AcceptedEventsAccounted` from `Accounting`: moreover a call has dealt only with
  the events before its position, so the next one is in no place yet, and only a crash loses events.
* `NoSendAfterClose` from `CallsOver` (after `GracefulStop` no call is open), `CleanExit` from
  `WorkersOver` as well; it needs a worker, since without one nobody drains the queue.
* `CrashLossIsBounded`, by counting: each worker holds at most one event, the channel at most
  `-queue`.
* `GatewayImplementsBuffer`: refinement of `Backpressure!Safety`, step by step; a step of the gateway
  admits events, finishes one, loses some or stutters.
* `ErrCountIsBounded` from `CountsErrors`: the count, also the stale one a worker is about to write
  back, lags behind the failed writes by at least the increments under way, and leaves zero with the
  first one.

**`LoadgenProofs`** (`LoadgenAssumption`): `LoadedGateway`, `LoadSpec => Spec`, carries every theorem
above over to the loaded gateway. `ReportIsHonest` is `ReportHonest`; the invariant says that there
is a set of calls, all of them returned, whose answers the counters add up, and that every other call
is waited for or counted as an error (`\E A : Tallied(A)`); `Traced` says that the gateway handles only
calls that were issued.

**`ConsumerGroupProofs`** (`GroupAssumption`; any members, partitions, logs and deployments):

* `GroupTypeCorrect`; `CommitsNeverGoBack` from `OwnerAhead`: the owner of a partition has read at least up to
  the committed offset (and the coordinator takes commits of owners only).
* `CommittedIsCovered`: `GroupCovered`, in every deployment, from `Coverage`: what a member has read of
  its partitions is in its hands or answered for (`ReadCovered`; without dedup a SIGTERM answers too,
  since no commit follows it), and a key in Redis is that of an event that is covered (`KeysKept`).
* `CommittedIsKept`: `GroupAtLeastOnce`, from `NoExcuse`: without dedup, ticker and failing dead letters
  `gone` and every ticker's hands are empty.
* `OneRowPerEvent`: `GroupOneRow`, from `RowsDiffer`: in a deployment whose Redis is reliable
  (`DedupReliable`: it answers, keeps its keys, and no SIGTERM comes), an event that a member has claimed
  is the only one of its key that is held, and the table has no row of that key but its own.

**`ReportProofs`** (`ReportAssumption`: each kind of file has the phase `Load` looks for and a test no
number, as the names in `cmd/` and `scripts/` have it):

* `ReadmeTextIsKept`: `ReadmeKept`. `Rewritten` shows that `ReplaceBetweenMarkers` leaves the same first
  markers behind and the same text around them.
* `VerdictsNeverGoBack`: `VerdictsCurrent`. The invariants are
  `Filed` (files have types and one name each) and `Current` (table and loaded report are backed by files,
  and a report just loaded is at least as recent as the table).
* `ReportTypeCorrect`, and `HeadlinesAreHonest`: `HeadlinesHonest`, from `Extremes` (the first and last
  point of a sorted list) and `PeakIsHighest`.

`Load` and `Peak` are folds over sequences of any length. Induction with an operator parameter is out
of reach, so the fold is unrolled by hand: `FoldExists` and `PeakExists` show that the recursive
function in the fold's definition exists, `LoadHistory` reads it as a history `r[0], r[1], ...` of the
loop, and `UpTo`, an induction over a *set* of naturals (from `LeastNat`, the least element), carries
the loop invariant `Read` through it.

**Only model-checked.** Liveness, which the prover cannot do: `LogConsumed`, `ShutdownCompletes` (consumer
and gateway), `CallsReturn`, `RunReturns`, `AllStored`, and the fairness part of
`ImplementsBackpressure`. The four counterexample runs are TLC's as well.

## Plan and what is not modelled

What the plan has left is proofs across modules: that each partition of `ConsumerGroup` without dedup
implements `Delivery`; that the loaded gateway implements the bounded buffer, from `LoadedGateway`; and
corollaries that combine proved invariants (what a SIGTERM with `Close` leaves uncommitted).

Not modelled: `reportLoop` and metrics (they only read counters; the lag gauge is set to zero when the
lag cannot be read), the loss test with `topiccount` (a retry loop around the `Write` that `Gateway`
models, and a sum of end offsets; whether a retried record is a duplicate is decided inside the Kafka
client), `topicinit` and `injectmalformed` (pure I/O), histograms, chart and table layout, generated gRPC
code, deployment files. Payload bytes, dead-letter headers and log texts are abstracted away.
