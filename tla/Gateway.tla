------------------------------ MODULE Gateway ------------------------------
(***************************************************************************)
(* The gateway process: Ingest.Push (internal/gateway), the bounded queue  *)
(* and its workers (internal/pool), the Kafka sink the workers write to    *)
(* (internal/sink/kafka.go) and the shutdown sequence of cmd/gateway.      *)
(*                                                                         *)
(* An event is <<c, i>>: the i-th event of the request of call c.  A Go    *)
(* channel operation is atomic; everything a goroutine does between two of *)
(* them interleaves with the others.                                       *)
(***************************************************************************)
EXTENDS Integers, Sequences, FiniteSets, Functions

CONSTANTS
    Calls,        \* Push calls
    Size,         \* Size[c]: number of events in the request of c
    Workers,      \* the -workers goroutines
    QueueSize,    \* -queue
    Shed,         \* -shed
    WritesMayFail \* may ProduceSync return an error?

ASSUME GatewayAssumption ==
    /\ Size \in [Calls -> Nat]
    /\ IsFiniteSet(Workers)
    /\ QueueSize \in Nat \ {0}
    /\ Shed \in BOOLEAN
    /\ WritesMayFail \in BOOLEAN

VARIABLES
    server,       \* main(): where the shutdown sequence is
    call,         \* call[c]: "new", "running", "returned", "broken"
    idx,          \* idx[c]: events of c that Push has dealt with
    cancelled,    \* calls whose context is done
    queue,        \* the channel Pool.queue
    worker,       \* worker[w]: "ranging", "writing", "failed", "adding", "exited"
    hold,         \* hold[w]: the event w is writing (a sequence of at most one)
    count,        \* count[w]: errCount as w read it
    errCount,     \* errCount of main()
    log,          \* the records on the broker, in the order of their arrival
    accepted,     \* events Push counted in resp.Accepted
    rejected,     \* events Push counted in resp.Rejected
    errored,      \* events whose Write returned an error
    lost          \* accepted events that a crash took

vars == <<server, call, idx, cancelled, queue, worker, hold, count, errCount,
          log, accepted, rejected, errored, lost>>
callVars == <<call, idx, cancelled, accepted, rejected>>
sinkVars == <<count, errCount, log, errored, lost>>

Init ==
    /\ server = "serving"
    /\ call = [c \in Calls |-> "new"]
    /\ idx = [c \in Calls |-> 0]
    /\ cancelled = {}
    /\ queue = <<>>
    /\ worker = [w \in Workers |-> "ranging"]
    /\ hold = [w \in Workers |-> <<>>]
    /\ count = [w \in Workers |-> 0]
    /\ errCount = 0 /\ log = <<>>
    /\ accepted = {} /\ rejected = {} /\ errored = {} /\ lost = {}

----------------------------------------------------------------------------
(* Push, one goroutine per call.                                           *)

\* The gRPC server accepts calls until GracefulStop.
PushBegins(c) ==
    /\ call[c] = "new" /\ server = "serving"
    /\ call' = [call EXCEPT ![c] = "running"]
    /\ UNCHANGED <<server, idx, cancelled, queue, worker, hold, sinkVars,
                   accepted, rejected>>

HasMore(c) == call[c] = "running" /\ idx[c] < Size[c]

\* Mutant: off by one in the capacity.
HasRoomForMore == Len(queue) <= QueueSize

HasRoom == Len(queue) < QueueSize

\* The send of Submit or TrySubmit goes through.
Accept(c) ==
    /\ HasMore(c) /\ HasRoom
    /\ queue' = Append(queue, <<c, idx[c] + 1>>)
    /\ idx' = [idx EXCEPT ![c] = @ + 1]
    /\ accepted' = accepted \cup {<<c, idx[c] + 1>>}
    /\ UNCHANGED <<server, call, cancelled, worker, hold, sinkVars, rejected>>

\* Mutant: TrySubmit waits for room or ctx.Done() as Submit does.
ShedWaits(c) == Shed /\ c \in cancelled

\* TrySubmit takes its default case on a full queue.
ShedOne(c) == Shed /\ ~HasRoom

\* Submit's select may take ctx.Done() even when the queue has room.
SubmitCancelled(c) == ~Shed /\ c \in cancelled

Reject(c) ==
    /\ HasMore(c)
    /\ ShedOne(c) \/ SubmitCancelled(c)
    /\ idx' = [idx EXCEPT ![c] = @ + 1]
    /\ rejected' = rejected \cup {<<c, idx[c] + 1>>}
    /\ UNCHANGED <<server, call, cancelled, queue, worker, hold, sinkVars,
                   accepted>>

PushReturns(c) ==
    /\ call[c] = "running" /\ idx[c] = Size[c]
    /\ call' = [call EXCEPT ![c] = "returned"]
    /\ UNCHANGED <<server, idx, cancelled, queue, worker, hold, sinkVars,
                   accepted, rejected>>

\* The client's deadline passes, or it hangs up.
ClientCancels(c) ==
    /\ call[c] = "running" /\ c \notin cancelled
    /\ cancelled' = cancelled \cup {c}
    /\ UNCHANGED <<server, call, idx, queue, worker, hold, sinkVars, accepted,
                   rejected>>

----------------------------------------------------------------------------
(* Pool.worker.                                                            *)

Receive(w) ==
    /\ worker[w] = "ranging" /\ queue # <<>>
    /\ hold' = [hold EXCEPT ![w] = <<Head(queue)>>]
    /\ queue' = Tail(queue)
    /\ worker' = [worker EXCEPT ![w] = "writing"]
    /\ UNCHANGED <<server, callVars, sinkVars>>

WriteSucceeds(w) ==
    /\ worker[w] = "writing"
    /\ log' = log \o hold[w]
    /\ hold' = [hold EXCEPT ![w] = <<>>]
    /\ worker' = [worker EXCEPT ![w] = "ranging"]
    /\ UNCHANGED <<server, callVars, queue, count, errCount, errored, lost>>

\* Mutant: the worker ignores the error.
WriteFailsSilently(w) ==
    /\ worker[w] = "writing" /\ WritesMayFail
    /\ log' \in {log, log \o hold[w]}
    /\ hold' = [hold EXCEPT ![w] = <<>>]
    /\ worker' = [worker EXCEPT ![w] = "ranging"]
    /\ UNCHANGED <<server, callVars, queue, count, errCount, errored, lost>>

\* ProduceSync returns an error.  The worker does not try again; the record
\* may be on the broker although its acknowledgement was lost.
WriteFails(w) ==
    /\ worker[w] = "writing" /\ WritesMayFail
    /\ log' \in {log, log \o hold[w]}
    /\ errored' = errored \cup Range(hold[w])
    /\ hold' = [hold EXCEPT ![w] = <<>>]
    /\ worker' = [worker EXCEPT ![w] = "failed"]
    /\ UNCHANGED <<server, callVars, queue, count, errCount, lost>>

\* errFn: errCount++ without synchronisation is a read and a later write.
ReadErrCount(w) ==
    /\ worker[w] = "failed"
    /\ count' = [count EXCEPT ![w] = errCount]
    /\ worker' = [worker EXCEPT ![w] = "adding"]
    /\ UNCHANGED <<server, callVars, queue, hold, errCount, log, errored, lost>>

\* Mutant: the increment is missing.
WriteErrCountBack(w) ==
    /\ worker[w] = "adding"
    /\ errCount' = count[w]
    /\ count' = [count EXCEPT ![w] = 0]
    /\ worker' = [worker EXCEPT ![w] = "ranging"]
    /\ UNCHANGED <<server, callVars, queue, hold, log, errored, lost>>

\* Mutant: the worker returns after an error instead of going on.
WorkerQuits(w) ==
    /\ worker[w] = "adding"
    /\ errCount' = count[w] + 1
    /\ count' = [count EXCEPT ![w] = 0]
    /\ worker' = [worker EXCEPT ![w] = "exited"]
    /\ UNCHANGED <<server, callVars, queue, hold, log, errored, lost>>

WriteErrCount(w) ==
    /\ worker[w] = "adding"
    /\ errCount' = count[w] + 1
    /\ count' = [count EXCEPT ![w] = 0]
    /\ worker' = [worker EXCEPT ![w] = "ranging"]
    /\ UNCHANGED <<server, callVars, queue, hold, log, errored, lost>>

\* Mutant: the workers end with the signal, the calls still waiting for them.
WorkersEndAtSignal == server # "serving"

\* Mutant: Pool.Close waits for the workers and then closes the queue.
QueueClosedLate == server \in {"flushing", "done"}

\* The range over the queue ends when it is closed and empty.
QueueClosed == server \in {"waiting", "flushing", "done"}

WorkerExits(w) ==
    /\ worker[w] = "ranging" /\ QueueClosed /\ queue = <<>>
    /\ worker' = [worker EXCEPT ![w] = "exited"]
    /\ UNCHANGED <<server, callVars, queue, hold, sinkVars>>

----------------------------------------------------------------------------
(* main(): <-ctx.Done(); GracefulStop; Pool.Close; closeSink.              *)

ServerGoes(from, to) ==
    /\ server = from /\ server' = to
    /\ UNCHANGED <<callVars, queue, worker, hold, sinkVars>>

Signal == ServerGoes("serving", "stopping")

\* Mutant: Stop instead of GracefulStop, handlers still running.
StopAtOnce == ServerGoes("stopping", "stopped")

\* GracefulStop returns once every call in progress has.
GracefulStop ==
    /\ \A c \in Calls : call[c] # "running"
    /\ ServerGoes("stopping", "stopped")

PoolClose == ServerGoes("stopped", "waiting")

\* Mutant: Pool.Close does not wait for the workers.
PoolDoesNotWait == ServerGoes("waiting", "flushing")

PoolWait ==
    /\ \A w \in Workers : worker[w] = "exited"
    /\ ServerGoes("waiting", "flushing")

CloseSink == ServerGoes("flushing", "done")

Held == UNION {Range(hold[w]) : w \in Workers}

\* The process dies: the queue and what the workers hold are gone, and the
\* calls in progress get no answer.
Crash ==
    /\ server \notin {"done", "crashed"}
    /\ server' = "crashed"
    /\ lost' = Range(queue) \cup Held
    /\ queue' = <<>>
    /\ hold' = [w \in Workers |-> <<>>]
    /\ worker' = [w \in Workers |-> "exited"]
    /\ count' = [w \in Workers |-> 0]
    /\ call' = [c \in Calls |-> IF call[c] = "running" THEN "broken" ELSE call[c]]
    /\ UNCHANGED <<idx, cancelled, errCount, log, accepted, rejected, errored>>

----------------------------------------------------------------------------
Push(c) ==
    \/ PushBegins(c) \/ Accept(c) \/ Reject(c) \/ PushReturns(c)

Work(w) ==
    \/ Receive(w) \/ WriteSucceeds(w) \/ WriteFails(w)
    \/ ReadErrCount(w) \/ WriteErrCount(w) \/ WorkerExits(w)

Shutdown == GracefulStop \/ PoolClose \/ PoolWait \/ CloseSink

Next ==
    \/ \E c \in Calls : Push(c) \/ ClientCancels(c)
    \/ \E w \in Workers : Work(w)
    \/ Signal \/ Shutdown \/ Crash

Spec == Init /\ [][Next]_vars

\* Every goroutine that can run does; ProduceSync answers, either way.
Fairness ==
    /\ \A c \in Calls : WF_vars(Push(c))
    /\ \A w \in Workers : WF_vars(Work(w))
    /\ WF_vars(Shutdown)

FairSpec == Spec /\ Fairness

----------------------------------------------------------------------------
(* Properties.                                                             *)

Events == UNION {{c} \X (1..Size[c]) : c \in Calls}

\* Every variable keeps its type; the channel never holds more than its
\* capacity and a worker never holds two events.
TypeOK ==
    /\ server \in {"serving", "stopping", "stopped", "waiting", "flushing", "done",
                  "crashed"}
    /\ call \in [Calls -> {"new", "running", "returned", "broken"}]
    /\ idx \in [Calls -> Nat] /\ \A c \in Calls : idx[c] <= Size[c]
    /\ cancelled \subseteq Calls
    /\ queue \in Seq(Events) /\ Len(queue) <= QueueSize
    /\ worker \in [Workers -> {"ranging", "writing", "failed", "adding", "exited"}]
    /\ hold \in [Workers -> Seq(Events)]
    /\ \A w \in Workers : Len(hold[w]) = IF worker[w] = "writing" THEN 1 ELSE 0
    /\ count \in [Workers -> Nat] /\ errCount \in Nat
    /\ log \in Seq(Events)
    /\ accepted \subseteq Events /\ rejected \subseteq Events
    /\ errored \subseteq Events /\ lost \subseteq Events

\* Every event that Push accepted is in one place: the queue, one worker's
\* hands, finished (on the broker, or reported to errFn) or gone with a crash;
\* none is written twice, none disappears and none is there that Push did not
\* accept.
AcceptedAccounted ==
    /\ accepted = Range(queue) \cup Held \cup Range(log) \cup errored \cup lost
    /\ IsInjective(queue) /\ IsInjective(log)
    /\ \A v, w \in Workers : v # w => Range(hold[v]) \cap Range(hold[w]) = {}
    /\ Range(queue) \cap Held = {}
    /\ (Range(queue) \cup Held \cup lost) \cap (Range(log) \cup errored) = {}
    /\ accepted \cap rejected = {}

\* A crash loses no more accepted events than the queue and the workers can
\* hold, however many calls were answered and however slow the broker is.
CrashLossBounded == Cardinality(lost) <= QueueSize + Cardinality(Workers)

\* The queue is closed only when no Push can send on it any more, which would
\* panic: GracefulStop comes before Pool.Close.
NoSendOnClosed == QueueClosed => \A c \in Calls : call[c] # "running"

\* closeSink and the exit come after the last write: everything accepted is
\* on the broker or was reported as an error.
ExitClean ==
    server \in {"flushing", "done"} =>
        /\ queue = <<>> /\ Held = {}
        /\ accepted \subseteq Range(log) \cup errored

\* The unsynchronised errCount++ may lose updates, but main never prints more
\* errors than there were, nor zero when there was one.
ErrCountBounds ==
    /\ errCount <= Cardinality(errored)
    /\ server = "done" /\ errored # {} => errCount > 0

\* A Push call returns: backpressure delays it but never for good, and only
\* a crash breaks it off.
CallsReturn ==
    \A c \in Calls : (call[c] = "running") ~> (call[c] \in {"returned", "broken"})

\* A signalled gateway drains its queue and exits.
ShutdownCompletes == (server = "stopping") ~> (server \in {"done", "crashed"})

\* The gateway implements the bounded buffer of module Backpressure, and, with
\* the fairness of its goroutines, finishes every event it admits.
Backpressure == INSTANCE Backpressure
    WITH Cap <- QueueSize + Cardinality(Workers),
         admitted <- accepted,
         finished <- accepted \ (Range(queue) \cup Held)
ImplementsBackpressure == Backpressure!Spec

\* However Push calls, workers, shutdown and a crash interleave, the pool is a
\* bounded buffer: an event is admitted once and only while fewer than
\* -queue plus -workers are unfinished, and finished once.
BoundedBuffer == Backpressure!Safety
=============================================================================
