--------------------------- MODULE OwnershipProofs ---------------------------
(***************************************************************************)
(* More theorems about module Consumer: who holds an event, when it is     *)
(* given up, and what is left of it when the process exits, in the         *)
(* counters and in the table.                                              *)
(***************************************************************************)
EXTENDS ConsumerProofs, FiniteSetTheorems

----------------------------------------------------------------------------
(* An event in memory has one owner.                                       *)

\* SingleOwner, pair by pair.
Disjoint ==
    /\ todo \cap (decoded \cup buffer \cup batch["main"] \cup batch["ticker"]
                     \cup poisoned \cup outbox) = {}
    /\ decoded \cap (buffer \cup batch["main"] \cup batch["ticker"]
                        \cup poisoned \cup outbox) = {}
    /\ buffer \cap (batch["main"] \cup batch["ticker"] \cup poisoned \cup outbox) = {}
    /\ batch["main"] \cap (batch["ticker"] \cup poisoned \cup outbox) = {}
    /\ batch["ticker"] \cap (poisoned \cup outbox) = {}
    /\ poisoned \cap outbox = {}

\* What is in memory has been fetched: a poll brings only records that nobody
\* in the process holds yet.
Fetched == InMemory \subseteq 1..pos

\* The two ways to say that an event has one owner.
LEMMA DisjointOwners == Disjoint => SingleOwner
  <1> DEFINE place == <<todo, decoded, buffer, batch["main"], batch["ticker"],
                        poisoned, outbox>>
  <1> SUFFICES ASSUME Disjoint, NEW i \in 1..7, NEW j \in 1..7, i # j
               PROVE  place[i] \cap place[j] = {}
    BY DEF SingleOwner
  <1>1. /\ place[1] = todo /\ place[2] = decoded /\ place[3] = buffer
        /\ place[4] = batch["main"] /\ place[5] = batch["ticker"]
        /\ place[6] = poisoned /\ place[7] = outbox
    OBVIOUS
  <1> HIDE DEF place
  <1>2. \A k, l \in 1..7 : k < l => place[k] \cap place[l] = {}
    <2> SUFFICES ASSUME NEW k \in 1..7, NEW l \in 1..7, k < l
                 PROVE  place[k] \cap place[l] = {}
      OBVIOUS
    <2>1. CASE k = 1
      BY <1>1, <2>1 DEF Disjoint
    <2>2. CASE k = 2
      BY <1>1, <2>2 DEF Disjoint
    <2>3. CASE k = 3
      BY <1>1, <2>3 DEF Disjoint
    <2>4. CASE k = 4
      BY <1>1, <2>4 DEF Disjoint
    <2>5. CASE k = 5
      BY <1>1, <2>5 DEF Disjoint
    <2>6. CASE k = 6
      BY <1>1, <2>6 DEF Disjoint
    <2> QED BY <2>1, <2>2, <2>3, <2>4, <2>5, <2>6
  <1>3. i < j \/ j < i
    OBVIOUS
  <1> QED BY <1>2, <1>3

\* A database call moves events of its batch only out of it and onto the
\* poison list.
LEMMA FlushMoves ==
    ASSUME SinkTypeOK, NEW t \in Threads, NEW live, FlushStep(t, live)
    PROVE  /\ batch'[t] \subseteq batch[t]
           /\ poisoned' \subseteq poisoned \cup (batch[t] \ batch'[t])
           /\ \A u \in Threads \ {t} : batch'[u] = batch[u]
           /\ buffer' = buffer
  <1>1. CASE CopySucceeds(t, live)
    BY <1>1 DEF SinkTypeOK, CopySucceeds
  <1>2. CASE CopyFails(t, live)
    BY <1>2 DEF SinkTypeOK, CopyFails
  <1>3. CASE InsertSucceeds(t, live)
    BY <1>3 DEF SinkTypeOK, InsertSucceeds, NextRow
  <1>4. CASE InsertFails(t, live)
    BY <1>4 DEF SinkTypeOK, InsertFails, NextRow, MarkPoisoned, IsNext
  <1> QED BY <1>1, <1>2, <1>3, <1>4 DEF FlushStep

\* The steps that move events in memory.
Handovers ==
    \/ PollRecords \/ DecodeRecord \/ DecodeFails \/ SkipSeen \/ PersistBuffered
    \/ WriteFlush \/ PersistDirect \/ PersistDeadLetter \/ FlushCall \/ TakePoisoned
    \/ DeadLetter \/ CloseFlushes \/ Exit \/ Crash \/ MainFlush \/ TickerFlush \/ Tick

\* No other step does.
LEMMA MemoryFrame ==
    ASSUME [Next]_vars, ~Handovers
    PROVE  UNCHANGED <<todo, decoded, buffer, batch, poisoned, outbox, pos, base>>
  BY DEF Handovers, Next, Main, Ticker, Environment, Start, PollError, PollCancelled,
     DecodeDone, SeenBatch, SeenBatchFails, HandleBatchDone, WriteReturns, PersistRetry,
     FlushReturns, FlushDirect, FlushDirectFails, DeadLetterDone, Commit, CommitFails,
     CloseBegin, CloseReturns, TickerEnds, TickerStops, SigTerm, KeyExpires, Goto,
     SinkOnly, NewTimescaleSink, CloseStop, consumerVars, kafkaVars, workVars, sinkVars,
     vars

\* Every step hands an event over whole.
LEMMA DisjointStep ==
    TypeOK /\ Phases /\ Disjoint /\ Fetched /\ [Next]_vars => Disjoint' /\ Fetched'
  <1> SUFFICES ASSUME TypeOK, Phases, Disjoint, Fetched, [Next]_vars
               PROVE  Disjoint' /\ Fetched'
    OBVIOUS
  <1> USE DEF kafkaVars, workVars, Threads
  <1>0. SinkTypeOK /\ BusyWithBatch /\ pos \in Nat
    BY SinkAssumption DEF TypeOK, Phases, BusyWithBatch
  <1>1. CASE PollRecords
    <2>1. PICK n \in pos+1..N : todo' = pos+1..n /\ pos' = n
      BY <1>1 DEF PollRecords
    <2>2. /\ UNCHANGED <<decoded, buffer, batch, poisoned, outbox>> /\ todo = {}
      BY <1>1 DEF PollRecords, sinkVars, Phases
    <2>3. /\ \A o \in 1..pos : o \notin pos+1..n /\ o \in 1..n
          /\ \A o \in pos+1..n : o \in 1..n
      BY <1>0
    <2>4. Fetched'
      BY <2>1, <2>2, <2>3 DEF Fetched, InMemory
    <2>5. Disjoint'
      BY <2>1, <2>2, <2>3 DEF Disjoint, Fetched, InMemory
    <2> QED BY <2>4, <2>5
  <1>2. CASE DecodeRecord \/ DecodeFails
    <2>1. PICK o \in todo : todo' = todo \ {o} /\ decoded' \in {decoded, decoded \cup {o}}
      BY <1>2 DEF DecodeRecord, DecodeFails, IsNext
    <2>2. UNCHANGED <<buffer, batch, poisoned, outbox, pos>>
      BY <1>2 DEF DecodeRecord, DecodeFails, sinkVars
    <2> QED BY <2>1, <2>2 DEF Disjoint, Fetched, InMemory
  <1>3. CASE SkipSeen \/ PersistDirect \/ PersistDeadLetter
    <2>1. decoded' \subseteq decoded
      BY <1>3 DEF SkipSeen, PersistDirect, PersistDeadLetter
    <2>2. UNCHANGED <<todo, buffer, batch, poisoned, outbox, pos>>
      BY <1>3 DEF SkipSeen, PersistDirect, PersistDeadLetter, sinkVars
    <2> QED BY <2>1, <2>2 DEF Disjoint, Fetched, InMemory
  <1>4. CASE PersistBuffered
    <2>1. PICK o \in decoded : decoded' = decoded \ {o} /\ buffer' = buffer \cup {o}
      BY <1>4 DEF PersistBuffered, Append, IsNext
    <2>2. UNCHANGED <<todo, batch, poisoned, outbox, pos>>
      BY <1>4 DEF PersistBuffered, Append
    <2> QED BY <2>1, <2>2 DEF Disjoint, Fetched, InMemory
  <1>5. CASE WriteFlush \/ FlushCall \/ CloseFlushes \/ Tick
    <2>1. PICK t \in Threads : DrainBuffer(t)
      BY <1>5 DEF WriteFlush, FlushCall, CloseFlushes, CloseFlush, Tick, TickerFires
    <2>2. UNCHANGED <<todo, decoded, outbox, pos>>
      BY <1>5 DEF WriteFlush, FlushCall, CloseFlushes, Tick, SinkOnly, consumerVars
    <2>3. /\ batch[t] = {} /\ batch'[t] = buffer /\ buffer' = {} /\ poisoned' = poisoned
          /\ \A u \in Threads \ {t} : batch'[u] = batch[u]
      BY <1>0, <2>1 DEF DrainBuffer, BusyWithBatch, SinkTypeOK
    <2>4. CASE t = "main"
      BY <2>2, <2>3, <2>4 DEF Disjoint, Fetched, InMemory
    <2>5. CASE t = "ticker"
      BY <2>2, <2>3, <2>5 DEF Disjoint, Fetched, InMemory
    <2> QED BY <2>4, <2>5
  <1>6. CASE MainFlush \/ TickerFlush
    <2>1. PICK t \in Threads :
              /\ batch'[t] \subseteq batch[t]
              /\ poisoned' \subseteq poisoned \cup (batch[t] \ batch'[t])
              /\ \A u \in Threads \ {t} : batch'[u] = batch[u]
              /\ buffer' = buffer
      BY <1>0, <1>6, FlushMoves DEF MainFlush, TickerFlush
    <2>2. UNCHANGED <<todo, decoded, outbox, pos>>
      BY <1>6 DEF MainFlush, TickerFlush, consumerVars
    <2>3. CASE t = "main"
      BY <2>1, <2>2, <2>3 DEF Disjoint, Fetched, InMemory
    <2>4. CASE t = "ticker"
      BY <2>1, <2>2, <2>4 DEF Disjoint, Fetched, InMemory
    <2> QED BY <2>3, <2>4
  <1>7. CASE TakePoisoned \/ DeadLetter
    <2>1. /\ UNCHANGED <<todo, decoded, buffer, batch, pos>>
          /\ \/ poisoned' = {} /\ outbox' = poisoned
             \/ poisoned' = poisoned /\ outbox' \subseteq outbox
      BY <1>7 DEF TakePoisoned, DrainPoisoned, DeadLetter, sinkVars
    <2> QED BY <2>1 DEF Disjoint, Fetched, InMemory
  <1>8. CASE Exit \/ Crash
    BY <1>8 DEF Exit, Crash, ProcessEnds, SinkLost, Disjoint, Fetched, InMemory
  <1>9. CASE ~Handovers
    BY <1>9, MemoryFrame DEF Disjoint, Fetched, InMemory
  <1> QED
    BY <1>1, <1>2, <1>3, <1>4, <1>5, <1>6, <1>7, <1>8, <1>9 DEF Handovers

\* Owners are disjoint throughout.
LEMMA DisjointHolds == Spec => [](TypeOK /\ Phases /\ Disjoint /\ Fetched)
  <1>1. Init => Disjoint /\ Fetched
    BY DEF Init, SinkInit, Disjoint, Fetched, InMemory, Threads
  <1> QED BY <1>1, TypeInit, TypeStep, PhasesInit, PhasesStep, DisjointStep, PTL DEF Spec

\* main and the ticker share the sink, yet never hold the same event: none is
\* written twice at a time, and none is both waiting and being written.
THEOREM OneOwnerPerEvent == Spec => []SingleOwner
  BY DisjointHolds, DisjointOwners, PTL

----------------------------------------------------------------------------
(* The exit after SIGTERM.                                                 *)

\* The ticker has ended when main() is past waiting for it, and an ended
\* ticker flushes nothing.
TickerOver ==
    /\ ticker = "done" => step["ticker"] = "idle"
    /\ ~Buffered \/ pc \in {"lastflush", "exit", "down"} => ticker = "done"

\* Every step keeps an ended ticker idle.
LEMMA TickerOverStep == TypeOK /\ TickerOver /\ Phases /\ [Next]_vars => TickerOver'
  <1> SUFFICES ASSUME TypeOK, TickerOver, Phases, [Next]_vars PROVE TickerOver'
    OBVIOUS
  <1> USE DEF TickerOver, Threads
  <1>0. SinkTypeOK /\ BusyWithBatch
    BY DEF TypeOK, Phases, BusyWithBatch
  <1>1. CASE Start
    BY <1>1 DEF Start, SinkOnly, NewTimescaleSink, sinkVars
  <1>2. CASE CloseBegin
    BY <1>2 DEF CloseBegin, CloseStop, Goto, SinkOnly, sinkVars
  <1>3. CASE CloseFlushes \/ WriteFlush \/ FlushCall
    <2>1. DrainBuffer("main") /\ (CloseFlushes => ticker = "done")
      BY <1>3 DEF CloseFlushes, CloseFlush, WriteFlush, FlushCall
    <2>2. step'["ticker"] = step["ticker"] /\ ticker' = ticker
      BY <1>0, <2>1 DEF DrainBuffer, SinkTypeOK
    <2>3. pc' \notin {"exit", "down"} /\ (pc' = "lastflush" => CloseFlushes)
      BY <1>3 DEF CloseFlushes, WriteFlush, FlushCall, SinkOnly
    <2> QED BY <2>1, <2>2, <2>3
  <1>4. CASE Exit \/ Crash
    BY <1>4 DEF Exit, Crash, ProcessEnds, SinkLost
  <1>5. CASE MainFlush
    <2>1. step'["ticker"] = step["ticker"] /\ ticker' = ticker /\ pc' = pc
      BY <1>0, <1>5, FlushBusy DEF MainFlush, consumerVars, FlushStep, CopySucceeds,
         CopyFails, InsertSucceeds, InsertFails
    <2> QED BY <2>1
  <1>6. CASE TickerFlush
    <2>1. step["ticker"] # "idle" /\ ticker' = ticker /\ pc' = pc
      BY <1>0, <1>6, FlushBusy DEF TickerFlush, consumerVars, FlushStep, CopySucceeds,
         CopyFails, InsertSucceeds, InsertFails
    <2> QED BY <2>1
  <1>7. CASE Tick
    BY <1>7 DEF Tick, TickerFires, DrainBuffer, consumerVars
  <1>8. CASE TickerEnds
    BY <1>8 DEF TickerEnds, TickerStops, consumerVars
  <1>9. CASE ~(Start \/ CloseBegin \/ CloseFlushes \/ WriteFlush \/ FlushCall \/ Exit
               \/ Crash \/ MainFlush \/ TickerFlush \/ Tick \/ TickerEnds)
    <2>1. UNCHANGED <<ticker, step>>
      BY <1>9 DEF Next, Main, Ticker, Environment, PollRecords, PollError, PollCancelled,
         DecodeRecord, DecodeFails, DecodeDone, SeenBatch, SeenBatchFails, SkipSeen,
         HandleBatchDone, PersistBuffered, WriteReturns, PersistDirect, PersistRetry,
         PersistDeadLetter, FlushReturns, FlushDirect, FlushDirectFails, TakePoisoned,
         DeadLetter, DeadLetterDone, Commit, CommitFails, CloseReturns, SigTerm,
         KeyExpires, Goto, SinkOnly, vars, sinkVars, Append, DrainPoisoned
    <2>2. pc' \in {"lastflush", "exit", "down"} => pc \in {"lastflush", "exit", "down"}
      BY <1>9 DEF Next, Main, Ticker, Environment, PollRecords, PollError, PollCancelled,
         DecodeRecord, DecodeFails, DecodeDone, AfterDecode, SeenBatch, SeenBatchFails,
         SkipSeen, HandleBatchDone, PersistBuffered, WriteReturns, PersistDirect,
         PersistRetry, PersistDeadLetter, FlushReturns, FlushDirect, FlushDirectFails,
         TakePoisoned, DeadLetter, DeadLetterDone, Commit, CommitFails, CloseReturns,
         SigTerm, KeyExpires, Goto, SinkOnly, vars
    <2> QED BY <2>1, <2>2
  <1> QED BY <1>1, <1>2, <1>3, <1>4, <1>5, <1>6, <1>7, <1>8, <1>9

\* When main() returns after SIGTERM, Close has left no event in the buffer and
\* none in a flush: it stops the ticker and waits for it before its own flush,
\* wherever the ticker was.
THEOREM CloseDrains == Spec => []ExitDrained
  <1>1. Init => TickerOver
    BY DEF Init, SinkInit, TickerOver, Threads
  <1>2. TickerOver /\ Phases => ExitDrained
    <2> SUFFICES ASSUME TickerOver, Phases, pc = "exit"
                 PROVE  buffer = {} /\ \A t \in Threads : batch[t] = {} /\ step[t] = "idle"
      BY DEF ExitDrained
    <2>1. buffer = {} /\ step["main"] = "idle"
      BY DEF Phases
    <2>2. step["ticker"] = "idle"
      BY DEF TickerOver
    <2> QED BY <2>1, <2>2 DEF Phases, Threads
  <1> QED
    BY <1>1, <1>2, TypeInit, TypeStep, PhasesInit, PhasesStep, TickerOverStep, PTL DEF Spec

----------------------------------------------------------------------------
(* The counters of a direct sink.                                          *)

\* With a direct sink main never gets into the steps of the buffered one.
DirectPath ==
    ~Buffered => pc \notin {"full", "writing", "flushing", "drain", "deadletter",
                            "closing", "lastflush"}

\* What sendToDLQ gave up was fetched, and is in handleBatch no more.
DroppedOnce == dropped \subseteq 1..pos /\ dropped \cap (todo \cup decoded) = {}

\* Every step of a direct sink's consumer keeps to its path.
LEMMA DirectPathStep == DirectPath /\ [Next]_vars => DirectPath'
  BY DEF DirectPath, Next, Main, Ticker, Environment, Start, PollRecords, PollError,
     PollCancelled, DecodeRecord, DecodeFails, DecodeDone, AfterDecode, SeenBatch,
     SeenBatchFails, SkipSeen, HandleBatchDone, PersistBuffered, WriteFlush, WriteReturns,
     PersistDirect, PersistRetry, PersistDeadLetter, FlushCall, FlushReturns, FlushDirect,
     FlushDirectFails, TakePoisoned, DeadLetter, DeadLetterDone, Commit, CommitFails,
     CloseBegin, CloseFlushes, CloseReturns, Exit, Crash, ProcessEnds, MainFlush, Tick,
     TickerFlush, TickerEnds, SigTerm, KeyExpires, Goto, SinkOnly, consumerVars, vars

\* Sets of offsets are finite, and their size follows what is added and taken.
LEMMA OffsetSets ==
    ASSUME NEW S, S \subseteq Offsets
    PROVE  /\ IsFiniteSet(S) /\ Cardinality(S) \in Nat
           /\ \A o \in S : Cardinality(S \ {o}) = Cardinality(S) - 1
           /\ \A o \in Offsets \ S : Cardinality(S \cup {o}) = Cardinality(S) + 1
  <1>1. IsFiniteSet(1..N)
    BY SinkAssumption, FS_Interval
  <1>2. IsFiniteSet(S)
    BY <1>1, FS_Subset DEF Offsets
  <1> QED BY <1>2, FS_CardinalityType, FS_AddElement, FS_RemoveElement

\* One record is sent to the dead-letter topic or given up, and counted once.
LEMMA SendCounts ==
    ASSUME NEW o \in Offsets \ dropped, dropped \subseteq Offsets, dlqSent \in Nat,
           sendToDLQ(o)
    PROVE  /\ dropped' \in {dropped, dropped \cup {o}}
           /\ dlqSent' + Cardinality(dropped') = dlqSent + Cardinality(dropped) + 1
           /\ dlqSent' \in Nat /\ Cardinality(dropped') \in Nat
  <1>1. Cardinality(dropped) \in Nat /\ Cardinality(dropped \cup {o}) = Cardinality(dropped) + 1
    BY OffsetSets
  <1>2. \/ dropped' = dropped \cup {o} /\ dlqSent' = dlqSent
        \/ dropped' = dropped /\ dlqSent' = dlqSent + 1
    BY DEF sendToDLQ, SendDisabled, SendSucceeds, SendFails
  <1>3. CASE dropped' = dropped \cup {o} /\ dlqSent' = dlqSent
    <2>1. Cardinality(dropped') = Cardinality(dropped) + 1
      BY <1>1, <1>3
    <2> QED BY <1>1, <1>3, <2>1
  <1>4. CASE dropped' = dropped /\ dlqSent' = dlqSent + 1
    <2>1. Cardinality(dropped') = Cardinality(dropped)
      BY <1>4
    <2> QED BY <1>1, <1>4, <2>1
  <1> QED BY <1>2, <1>3, <1>4

\* The steps of a direct sink's consumer that move records or counters.
Counts ==
    \/ PollRecords \/ DecodeRecord \/ DecodeFails \/ SkipSeen \/ PersistDirect
    \/ PersistDeadLetter \/ Exit \/ Crash

\* No other step does.
LEMMA CountFrame ==
    ASSUME ~Buffered, DirectPath, [Next]_vars, ~Counts
    PROVE  UNCHANGED <<consumed, deduped, dlqSent, dropped, todo, decoded, pos, base>>
  BY DEF Counts, DirectPath, Next, Main, Ticker, Environment, Start, PollError,
     PollCancelled, DecodeDone, SeenBatch, SeenBatchFails, HandleBatchDone,
     PersistBuffered, WriteFlush, WriteReturns, PersistRetry, FlushCall, FlushReturns,
     FlushDirect, FlushDirectFails, TakePoisoned, DeadLetter, DeadLetterDone, Commit,
     CommitFails, CloseBegin, CloseFlushes, CloseReturns, MainFlush, Tick, TickerFlush,
     TickerEnds, SigTerm, KeyExpires, Goto, SinkOnly, consumerVars, kafkaVars, workVars,
     fateVars, counters, vars

\* Every step of a direct sink's consumer moves a record from one term of the
\* sum to another, or adds to both sides what it fetched.
LEMMA CountStep ==
    ASSUME ~Buffered, TypeOK, Phases, Disjoint, Fetched, DirectPath, DroppedOnce,
           EveryRecordCounted, [Next]_vars
    PROVE  DroppedOnce' /\ EveryRecordCounted'
  <1> USE DEF kafkaVars, workVars, fateVars, counters
  <1> DEFINE Sum == consumed + deduped + dlqSent + Cardinality(dropped)
                      + Cardinality(todo) + Cardinality(decoded)
  <1>0. /\ todo \subseteq Offsets /\ decoded \subseteq Offsets /\ dropped \subseteq Offsets
        /\ consumed \in Nat /\ deduped \in Nat /\ dlqSent \in Nat
        /\ pos \in Nat /\ base \in Nat /\ N \in Nat
        /\ todo \cap decoded = {} /\ todo \subseteq 1..pos /\ decoded \subseteq 1..pos
    BY SinkAssumption DEF TypeOK, Disjoint, Fetched, InMemory
  <1>1. /\ Cardinality(todo) \in Nat /\ Cardinality(decoded) \in Nat
        /\ Cardinality(dropped) \in Nat
    BY <1>0, OffsetSets
  <1>2. Sum = pos - base
    BY DEF EveryRecordCounted
  <1>3. Sum' = pos' - base' => EveryRecordCounted'
    BY DEF EveryRecordCounted, Buffered
  <1> HIDE DEF Sum
  <1>a. CASE PollRecords
    <2>1. PICK n \in pos+1..N : todo' = pos+1..n /\ pos' = n
      BY <1>a DEF PollRecords
    <2>2. todo = {} /\ UNCHANGED <<consumed, deduped, dlqSent, dropped, decoded, base>>
      BY <1>a DEF PollRecords, Phases
    <2>3. Cardinality(todo) = 0 /\ Cardinality(todo') = n - pos
      BY <1>0, <2>1, <2>2, FS_EmptySet, FS_Interval
    <2>4. DroppedOnce'
      BY <1>0, <2>1, <2>2 DEF DroppedOnce
    <2> QED BY <1>0, <1>1, <1>2, <1>3, <2>1, <2>2, <2>3, <2>4 DEF Sum
  <1>b. CASE DecodeRecord
    <2>1. PICK o \in todo : todo' = todo \ {o} /\ decoded' = decoded \cup {o}
      BY <1>b DEF DecodeRecord, IsNext
    <2>2. UNCHANGED <<consumed, deduped, dlqSent, dropped, pos, base>>
      BY <1>b DEF DecodeRecord
    <2>3. /\ Cardinality(todo') = Cardinality(todo) - 1
          /\ Cardinality(decoded') = Cardinality(decoded) + 1
      BY <1>0, <2>1, OffsetSets
    <2>4. DroppedOnce'
      BY <2>1, <2>2 DEF DroppedOnce
    <2> QED BY <1>0, <1>1, <1>2, <1>3, <2>2, <2>3, <2>4 DEF Sum
  <1>c. CASE DecodeFails
    <2>1. PICK o \in todo : todo' = todo \ {o} /\ sendToDLQ(o)
      BY <1>c DEF DecodeFails, IsNext
    <2>2. UNCHANGED <<consumed, deduped, decoded, pos, base>>
      BY <1>c DEF DecodeFails
    <2>3. o \in Offsets \ dropped
      BY <1>0 DEF DroppedOnce
    <2>4. /\ dropped' \in {dropped, dropped \cup {o}}
          /\ dlqSent' + Cardinality(dropped') = dlqSent + Cardinality(dropped) + 1
          /\ dlqSent' \in Nat /\ Cardinality(dropped') \in Nat
      BY <1>0, <2>1, <2>3, SendCounts
    <2>5. Cardinality(todo') = Cardinality(todo) - 1
      BY <1>0, <2>1, OffsetSets
    <2>6. DroppedOnce'
      BY <1>0, <2>1, <2>2, <2>4 DEF DroppedOnce
    <2> QED BY <1>0, <1>1, <1>2, <1>3, <2>2, <2>4, <2>5, <2>6 DEF Sum
  <1>d. CASE SkipSeen \/ PersistDirect
    <2>1. PICK o \in decoded : decoded' = decoded \ {o}
      BY <1>d DEF SkipSeen, PersistDirect, DirectNext, IsNext
    <2>2. /\ UNCHANGED <<dlqSent, dropped, todo, pos, base>>
          /\ \/ consumed' = consumed + 1 /\ deduped' = deduped
             \/ consumed' = consumed /\ deduped' = deduped + 1
      BY <1>d DEF SkipSeen, PersistDirect
    <2>3. Cardinality(decoded') = Cardinality(decoded) - 1
      BY <1>0, <2>1, OffsetSets
    <2>4. DroppedOnce'
      BY <2>1, <2>2 DEF DroppedOnce
    <2> QED BY <1>0, <1>1, <1>2, <1>3, <2>2, <2>3, <2>4 DEF Sum
  <1>e. CASE PersistDeadLetter
    <2>1. PICK o \in decoded : decoded' = decoded \ {o} /\ sendToDLQ(o)
      BY <1>e DEF PersistDeadLetter, DirectNext, IsNext
    <2>2. UNCHANGED <<consumed, deduped, todo, pos, base>>
      BY <1>e DEF PersistDeadLetter
    <2>3. o \in Offsets \ dropped
      BY <1>0 DEF DroppedOnce
    <2>4. /\ dropped' \in {dropped, dropped \cup {o}}
          /\ dlqSent' + Cardinality(dropped') = dlqSent + Cardinality(dropped) + 1
          /\ dlqSent' \in Nat /\ Cardinality(dropped') \in Nat
      BY <1>0, <2>1, <2>3, SendCounts
    <2>5. Cardinality(decoded') = Cardinality(decoded) - 1
      BY <1>0, <2>1, OffsetSets
    <2>6. DroppedOnce'
      BY <1>0, <2>1, <2>2, <2>4 DEF DroppedOnce
    <2> QED BY <1>0, <1>1, <1>2, <1>3, <2>2, <2>4, <2>5, <2>6 DEF Sum
  <1>f. CASE Exit \/ Crash
    <2>1. /\ consumed' = 0 /\ deduped' = 0 /\ dlqSent' = 0 /\ dropped' = {} /\ todo' = {}
          /\ decoded' = {} /\ pos' = committed /\ base' = committed
      BY <1>f DEF Exit, Crash, ProcessEnds
    <2>2. Cardinality({}) = 0 /\ committed \in Nat
      BY <1>0, FS_EmptySet DEF TypeOK
    <2>3. Sum' = pos' - base'
      BY <2>1, <2>2 DEF Sum
    <2> QED BY <1>3, <2>1, <2>3 DEF DroppedOnce
  <1>g. CASE ~Counts
    BY <1>2, <1>3, <1>g, CountFrame DEF Sum, DroppedOnce
  <1> QED BY <1>a, <1>b, <1>c, <1>d, <1>e, <1>f, <1>g DEF Counts

\* With a direct sink the counters account for every record that was fetched,
\* whichever calls of persist and sendToDLQ failed on the way.
THEOREM CountersAddUp == Spec => []EveryRecordCounted
  <1> DEFINE Tally == ~Buffered => DroppedOnce /\ EveryRecordCounted
  <1>1. Init => DirectPath /\ Tally
    <2> SUFFICES ASSUME Init PROVE DirectPath /\ Tally
      OBVIOUS
    <2>1. /\ pc = "down" /\ consumed = 0 /\ deduped = 0 /\ dlqSent = 0 /\ dropped = {}
          /\ todo = {} /\ decoded = {} /\ pos = 0 /\ base = 0
      BY DEF Init
    <2>2. Cardinality({}) = 0
      BY FS_EmptySet
    <2> QED BY <2>1, <2>2 DEF DirectPath, DroppedOnce, EveryRecordCounted
  <1>2. TypeOK /\ Phases /\ Disjoint /\ Fetched /\ DirectPath /\ Tally /\ [Next]_vars => Tally'
    BY CountStep DEF Buffered
  <1>3. Tally => EveryRecordCounted
    BY DEF EveryRecordCounted
  <1> QED BY <1>1, <1>2, <1>3, DisjointHolds, DirectPathStep, PTL DEF Spec

----------------------------------------------------------------------------
(* One row per key: what dedup adds to the unique index.                   *)

\* The decoded records that SeenBatch let pass.
Passed == IF pc \in {"persist", "full", "writing"} THEN decoded \ seen ELSE {}

\* The events this process may still write.
Claimants == Passed \cup buffer \cup batch["main"] \cup batch["ticker"]

\* Whoever may still write a key holds it alone, in Redis, and finds in the
\* table no row of that key but its own.
OneClaim ==
    /\ ctxDone = FALSE
    /\ Keys(Claimants) \subseteq redis
    /\ \A r \in table : r[1] \in redis
    /\ \A o, p \in Claimants : Key[o] = Key[p] => o = p
    /\ \A o \in Claimants : \A r \in table : r[1] = Key[o] => r = Row(o)

\* What the theorem below takes for granted: dedup is on, Redis answers and
\* keeps its keys, and no SIGTERM makes SeenBatch give up.  The process may
\* crash and restart, and every other call may fail.
DedupReliable == DedupEnabled /\ Faults \cap {"redis", "ttl", "sigterm"} = {}

\* A database call stores rows of its goroutine's batch and of no other event.
LEMMA FlushStores ==
    ASSUME SinkTypeOK, NEW t \in Threads, NEW live, FlushStep(t, live)
    PROVE  table' \subseteq table \cup Rows(batch[t])
  <1>1. CASE CopySucceeds(t, live)
    BY <1>1 DEF CopySucceeds
  <1>2. CASE CopyFails(t, live)
    BY <1>2 DEF CopyFails
  <1>3. CASE InsertSucceeds(t, live)
    BY <1>3 DEF InsertSucceeds, IsNext, Rows
  <1>4. CASE InsertFails(t, live)
    BY <1>4 DEF InsertFails, IsNext, Rows
  <1> QED BY <1>1, <1>2, <1>3, <1>4 DEF FlushStep

\* A step that only hands claims on, gives them up or writes them keeps them
\* exclusive, and the table with one row per key.
LEMMA ClaimsHandedOn ==
    ASSUME OneClaim, OneRowPerKey, Claimants' \subseteq Claimants,
           table' \subseteq table \cup Rows(batch["main"] \cup batch["ticker"]),
           redis \subseteq redis', ctxDone' = FALSE
    PROVE  OneClaim' /\ OneRowPerKey'
  <1>1. \A r \in table' : r \in table \/ \E o \in Claimants : r = Row(o)
    BY DEF Rows, Claimants
  <1>2. \A o : Row(o)[1] = Key[o]
    BY DEF Row
  <1>3. \A o \in Claimants : Key[o] \in redis
    BY DEF OneClaim, Keys
  <1>4. \A o, p \in Claimants : Key[o] = Key[p] => o = p
    BY DEF OneClaim
  <1>5. \A o \in Claimants : \A r \in table : r[1] = Key[o] => r = Row(o)
    BY DEF OneClaim
  <1>6. Keys(Claimants') \subseteq redis' /\ \A r \in table' : r[1] \in redis'
    BY <1>1, <1>2, <1>3 DEF OneClaim, Keys
  <1>7. \A o \in Claimants' : \A r \in table' : r[1] = Key[o] => r = Row(o)
    <2> SUFFICES ASSUME NEW o \in Claimants', NEW r \in table', r[1] = Key[o]
                 PROVE  r = Row(o)
      OBVIOUS
    <2>1. CASE r \in table
      BY <1>5, <2>1
    <2>2. CASE \E p \in Claimants : r = Row(p)
      BY <1>2, <1>4, <2>2
    <2> QED BY <1>1, <2>1, <2>2
  <1>8. OneRowPerKey'
    <2> SUFFICES ASSUME NEW r \in table', NEW s \in table', r[1] = s[1]
                 PROVE  r = s
      BY DEF OneRowPerKey
    <2>1. CASE r \in table /\ s \in table
      BY <2>1 DEF OneRowPerKey
    <2>2. CASE \E p \in Claimants : r = Row(p)
      <3>1. PICK p \in Claimants : r = Row(p)
        BY <2>2
      <3>2. CASE s \in table
        BY <1>2, <1>5, <3>1, <3>2
      <3>3. CASE \E q \in Claimants : s = Row(q)
        BY <1>2, <1>4, <3>1, <3>3
      <3> QED BY <1>1, <3>2, <3>3
    <2>3. CASE \E p \in Claimants : s = Row(p)
      <3>1. PICK p \in Claimants : s = Row(p)
        BY <2>3
      <3>2. CASE r \in table
        BY <1>2, <1>5, <3>1, <3>2
      <3>3. CASE \E q \in Claimants : r = Row(q)
        BY <1>2, <1>4, <3>1, <3>3
      <3> QED BY <1>1, <3>2, <3>3
    <2> QED BY <1>1, <2>1, <2>2, <2>3
  <1> QED BY <1>4, <1>6, <1>7, <1>8 DEF OneClaim, Keys

\* SeenBatch: of the copies of an event in the fetch it lets the first pass,
\* and only if nobody claimed the key before, in this process or an earlier one.
LEMMA SeenBatchClaims ==
    ASSUME TypeOK, OneClaim, OneRowPerKey, SeenBatch
    PROVE  OneClaim' /\ OneRowPerKey'
  <1> DEFINE New == decoded \ SeenIn(decoded)
  <1>1. /\ pc = "dedup" /\ pc' = "persist" /\ seen' = SeenIn(decoded)
        /\ redis' = redis \cup Keys(decoded)
        /\ UNCHANGED <<ctxDone, decoded, buffer, batch, table>>
    BY DEF SeenBatch, sinkVars
  <1>2. Claimants' = Claimants \cup New
    BY <1>1 DEF Claimants, Passed
  <1>3. /\ \A o \in New : Key[o] \notin redis
        /\ \A o, p \in New : Key[o] = Key[p] => o = p
    BY SinkAssumption DEF SeenIn, TypeOK, Offsets
  <1>4. \A o \in Claimants : Key[o] \in redis
    BY DEF OneClaim, Keys
  <1>5. Keys(Claimants') \subseteq redis' /\ \A r \in table' : r[1] \in redis'
    BY <1>1, <1>2, <1>4 DEF OneClaim, Keys
  <1> HIDE DEF New
  <1>6. \A o, p \in Claimants' : Key[o] = Key[p] => o = p
    BY <1>2, <1>3, <1>4 DEF OneClaim
  <1>7. \A o \in Claimants' : \A r \in table' : r[1] = Key[o] => r = Row(o)
    BY <1>1, <1>2, <1>3 DEF OneClaim
  <1> QED BY <1>1, <1>5, <1>6, <1>7 DEF OneClaim, OneRowPerKey, Keys

\* The steps that move claims.
MovesClaims ==
    \/ DecodeRecord \/ SeenBatch \/ SkipSeen \/ PersistBuffered \/ WriteFlush
    \/ PersistDirect \/ PersistDeadLetter \/ FlushCall \/ CloseFlushes \/ Exit \/ Crash
    \/ MainFlush \/ TickerFlush \/ Tick

\* No other step gives a process a claim, writes a row or takes a key out of
\* Redis.
LEMMA ClaimFrame ==
    ASSUME DedupReliable, OneClaim, [Next]_vars, ~MovesClaims
    PROVE  /\ Claimants' \subseteq Claimants
           /\ UNCHANGED <<table, redis, ctxDone>>
  <1> USE DEF kafkaVars, workVars, sinkVars
  <1>1. ctxDone = FALSE
    BY DEF OneClaim
  <1>2. /\ ~SigTerm /\ ~KeyExpires /\ ~SeenBatchFails
    BY <1>1 DEF DedupReliable, SigTerm, KeyExpires, SeenBatchFails
  <1>3. UNCHANGED <<table, redis, ctxDone, decoded, seen, buffer, batch>>
    BY <1>2 DEF MovesClaims, Next, Main, Ticker, Environment, Start, PollRecords,
       PollError, PollCancelled, DecodeFails, DecodeDone, HandleBatchDone, WriteReturns,
       PersistRetry, FlushReturns, FlushDirect, FlushDirectFails, TakePoisoned,
       DrainPoisoned, DeadLetter, DeadLetterDone, Commit, CommitFails, CloseBegin,
       CloseReturns, TickerEnds, TickerStops, Goto, SinkOnly, NewTimescaleSink, CloseStop,
       consumerVars, vars
  <1>4. pc' \in {"persist", "full", "writing"} => pc \in {"persist", "full", "writing"}
    BY <1>2 DEF MovesClaims, DedupReliable, Next, Main, Ticker, Environment, Start,
       PollRecords, PollError, PollCancelled, DecodeFails, DecodeDone, AfterDecode,
       HandleBatchDone, WriteReturns, PersistRetry, FlushReturns, FlushDirect,
       FlushDirectFails, TakePoisoned, DeadLetter, DeadLetterDone, Commit, CommitFails,
       CloseBegin, CloseReturns, TickerEnds, Goto, SinkOnly, consumerVars, vars
  <1> QED BY <1>3, <1>4 DEF Claimants, Passed

\* Every step keeps the claims exclusive.
LEMMA OneClaimStep ==
    ASSUME DedupReliable, TypeOK, Phases, OneClaim, OneRowPerKey, [Next]_vars
    PROVE  OneClaim' /\ OneRowPerKey'
  <1> USE DEF kafkaVars, workVars, Threads
  <1>0. SinkTypeOK /\ BusyWithBatch /\ ctxDone = FALSE
    BY DEF TypeOK, Phases, BusyWithBatch, OneClaim
  <1>1. CASE SeenBatch
    BY <1>1, SeenBatchClaims
  <1>2. CASE DecodeRecord \/ SkipSeen \/ PersistDirect \/ PersistDeadLetter
    <2>1. /\ UNCHANGED <<table, redis, ctxDone, buffer, batch, pc>>
          /\ DecodeRecord \/ decoded' \ seen' \subseteq decoded \ seen
      BY <1>2 DEF DecodeRecord, SkipSeen, PersistDirect, PersistDeadLetter, sinkVars
    <2>2. DecodeRecord => pc = "decode"
      BY DEF DecodeRecord
    <2>3. Claimants' \subseteq Claimants
      BY <2>1, <2>2 DEF Claimants, Passed
    <2> QED BY <1>0, <2>1, <2>3, ClaimsHandedOn
  <1>3. CASE PersistBuffered
    <2>1. PICK o \in decoded \ seen : decoded' = decoded \ {o} /\ buffer' = buffer \cup {o}
      BY <1>3 DEF PersistBuffered, Append, IsNext
    <2>2. UNCHANGED <<table, redis, ctxDone, batch, seen>> /\ pc = "persist"
      BY <1>3 DEF PersistBuffered, Append
    <2>3. Claimants' \subseteq Claimants
      BY <2>1, <2>2 DEF Claimants, Passed
    <2> QED BY <1>0, <2>2, <2>3, ClaimsHandedOn
  <1>4. CASE WriteFlush \/ FlushCall \/ CloseFlushes \/ Tick
    <2>1. PICK t \in Threads : DrainBuffer(t)
      BY <1>4 DEF WriteFlush, FlushCall, CloseFlushes, CloseFlush, Tick, TickerFires
    <2>2. /\ UNCHANGED <<decoded, seen, redis, ctxDone>>
          /\ pc' \in {"persist", "full", "writing"} => pc \in {"persist", "full", "writing"}
      BY <1>4 DEF WriteFlush, FlushCall, CloseFlushes, Tick, SinkOnly, consumerVars
    <2>3. /\ batch'[t] = buffer /\ buffer' = {} /\ table' = table
          /\ \A u \in Threads \ {t} : batch'[u] = batch[u]
      BY <1>0, <2>1 DEF DrainBuffer, SinkTypeOK
    <2>4. batch'["main"] \subseteq buffer \cup batch["main"]
      BY <2>3
    <2>5. batch'["ticker"] \subseteq buffer \cup batch["ticker"]
      BY <2>3
    <2>6. Claimants' \subseteq Claimants
      BY <2>2, <2>3, <2>4, <2>5 DEF Claimants, Passed
    <2> QED BY <1>0, <2>2, <2>3, <2>6, ClaimsHandedOn
  <1>5. CASE MainFlush \/ TickerFlush
    <2>1. PICK t \in Threads :
              /\ batch'[t] \subseteq batch[t]
              /\ \A u \in Threads \ {t} : batch'[u] = batch[u]
              /\ buffer' = buffer
              /\ table' \subseteq table \cup Rows(batch[t])
      BY <1>0, <1>5, FlushMoves, FlushStores DEF MainFlush, TickerFlush
    <2>2. UNCHANGED <<decoded, seen, redis, ctxDone, pc>>
      BY <1>5 DEF MainFlush, TickerFlush, consumerVars
    <2>3. /\ batch'["main"] \subseteq batch["main"]
          /\ batch'["ticker"] \subseteq batch["ticker"]
          /\ table' \subseteq table \cup Rows(batch["main"] \cup batch["ticker"])
      BY <2>1 DEF Rows
    <2>4. Claimants' \subseteq Claimants
      BY <2>1, <2>2, <2>3 DEF Claimants, Passed
    <2> QED BY <1>0, <2>2, <2>3, <2>4, ClaimsHandedOn
  <1>6. CASE Exit \/ Crash
    <2>1. /\ decoded' = {} /\ buffer' = {} /\ batch'["main"] = {} /\ batch'["ticker"] = {}
          /\ UNCHANGED <<table, redis>> /\ ctxDone' = FALSE
      BY <1>6 DEF Exit, Crash, ProcessEnds, SinkLost
    <2>2. Claimants' \subseteq Claimants
      BY <2>1 DEF Claimants, Passed
    <2> QED BY <2>1, <2>2, ClaimsHandedOn
  <1>7. CASE ~MovesClaims
    BY <1>0, <1>7, ClaimFrame, ClaimsHandedOn
  <1> QED BY <1>1, <1>2, <1>3, <1>4, <1>5, <1>6, <1>7 DEF MovesClaims

\* Effectively-once: with dedup on and Redis answering, the copies of an event
\* make one row, whatever their event times, wherever the process crashes and
\* however often a flush is retried.
THEOREM CopiesMakeOneRow == ASSUME DedupReliable PROVE Spec => []OneRowPerKey
  <1>1. Init => OneClaim /\ OneRowPerKey
    BY DEF Init, SinkInit, OneClaim, OneRowPerKey, Claimants, Passed, Keys, Threads
  <1>2. TypeOK /\ Phases /\ OneClaim /\ OneRowPerKey /\ [Next]_vars
          => OneClaim' /\ OneRowPerKey'
    BY OneClaimStep
  <1> QED BY <1>1, <1>2, TypeInit, TypeStep, PhasesInit, PhasesStep, PTL DEF Spec

----------------------------------------------------------------------------
(* Records are given up by their own failures.                             *)

\* Failed attempts are counted only while persist retries the next record.
TriesOfNext ==
    tries # 0 =>
        /\ ~Buffered /\ pc = "persist"
        /\ \E o \in decoded : IsNext(o, decoded) /\ o \notin seen

\* The next record is one record.
LEMMA NextIsOne ==
    ASSUME NEW S \in SUBSET Offsets, NEW o \in Offsets, NEW p \in Offsets,
           IsNext(o, S), IsNext(p, S)
    PROVE  o = p
  BY SinkAssumption DEF IsNext, Offsets

\* The steps of Consumer that touch the retries of persist or its records.
Persists ==
    \/ DecodeRecord \/ SkipSeen \/ PersistBuffered \/ PersistDirect
    \/ PersistRetry \/ PersistDeadLetter \/ Exit \/ Crash

\* No other step does; SeenBatch alone changes what was seen, before persist.
LEMMA PersistFrame ==
    ASSUME TypeOK, [Next]_vars, ~Persists
    PROVE  /\ UNCHANGED <<tries, decoded>>
           /\ pc = "persist" => seen' = seen /\ (decoded # {} => pc' = "persist")
  <1> USE DEF workVars
  <1>1. CASE MainFlush \/ Ticker
    BY <1>1 DEF MainFlush, Ticker, Tick, TickerFlush, TickerEnds, consumerVars
  <1>2. CASE UNCHANGED vars
    BY <1>2 DEF vars
  <1> QED
    BY <1>1, <1>2 DEF Persists, Next, Main, Environment, Start, PollRecords, PollError,
       PollCancelled, DecodeFails, DecodeDone, SeenBatch, SeenBatchFails, HandleBatchDone,
       WriteFlush, WriteReturns, FlushCall, FlushReturns, FlushDirect, FlushDirectFails,
       TakePoisoned, DeadLetter, DeadLetterDone, Commit, CommitFails, CloseBegin,
       CloseFlushes, CloseReturns, SigTerm, KeyExpires, Goto, SinkOnly

\* Every step keeps the count with its record, and gives a record up only when
\* the count is exhausted.
LEMMA PersistSpentStep ==
    ASSUME TypeOK, TriesOfNext, [Next]_vars
    PROVE  TriesOfNext' /\ PersistSpent
  <1>0. /\ tries \in 0..MaxRetries+1 /\ MaxRetries \in Nat
        /\ decoded \subseteq Offsets
    BY SinkAssumption DEF TypeOK
  <1>1. CASE DecodeRecord \/ PersistBuffered
    <2>1. tries = 0 /\ tries' = 0 /\ (Buffered \/ pc # "persist")
      BY <1>1 DEF DecodeRecord, PersistBuffered, TriesOfNext
    <2> QED BY <2>1 DEF TriesOfNext, PersistSpent
  <1>2. CASE SkipSeen
    <2>1. PICK o \in Offsets : IsNext(o, decoded) /\ o \in seen
      BY <1>2 DEF SkipSeen
    <2>2. tries = 0
      BY <1>0, <2>1, NextIsOne DEF TriesOfNext
    <2>3. tries' = 0 /\ deduped' = deduped + 1 /\ deduped \in Nat
      BY <1>2, <2>2 DEF SkipSeen, TypeOK
    <2> QED BY <2>3 DEF TriesOfNext, PersistSpent
  <1>3. CASE PersistDirect
    <2>1. tries' = 0 /\ consumed' = consumed + 1 /\ consumed \in Nat
      BY <1>3 DEF PersistDirect, TypeOK
    <2> QED BY <2>1 DEF TriesOfNext, PersistSpent
  <1>4. CASE PersistRetry
    <2>1. PICK o \in Offsets : DirectNext(o)
      BY <1>4 DEF PersistRetry
    <2>2. tries' = tries + 1 /\ UNCHANGED <<decoded, seen, pc>>
      BY <1>4 DEF PersistRetry
    <2> QED BY <2>1, <2>2 DEF DirectNext, IsNext, TriesOfNext, PersistSpent
  <1>5. CASE PersistDeadLetter
    <2>1. tries' = 0 /\ ~MayWrite(tries)
      BY <1>5 DEF PersistDeadLetter
    <2>2. tries = MaxRetries + 1
      BY <1>0, <2>1 DEF MayWrite
    <2> QED BY <2>1, <2>2 DEF TriesOfNext, PersistSpent
  <1>6. CASE Exit \/ Crash
    <2>1. tries' = 0 /\ pc' = "down"
      BY <1>6 DEF Exit, Crash, ProcessEnds
    <2> QED BY <2>1 DEF TriesOfNext, PersistSpent
  <1>7. CASE ~Persists
    <2>1. PersistSpent
      BY <1>7, PersistFrame DEF PersistSpent
    <2>2. TriesOfNext'
      BY <1>7, PersistFrame DEF TriesOfNext, Buffered
    <2> QED BY <2>1, <2>2
  <1> QED BY <1>1, <1>2, <1>3, <1>4, <1>5, <1>6, <1>7 DEF Persists

\* A database call of Flush gives up a batch or a row only when its own
\* attempts are exhausted.
LEMMA FlushCallSpent ==
    ASSUME SinkTypeOK, NEW t \in Threads, NEW live, FlushStep(t, live)
    PROVE  FlushSpent
  <1> USE SinkAssumption DEF SinkTypeOK
  <1>1. CASE CopySucceeds(t, live)
    BY <1>1 DEF CopySucceeds, FlushSpent
  <1>2. CASE CopyFails(t, live)
    BY <1>2 DEF CopyFails, RetriesLeft, FlushSpent
  <1>3. CASE InsertSucceeds(t, live)
    BY <1>3 DEF InsertSucceeds, NextRow, FlushSpent
  <1>4. CASE InsertFails(t, live)
    BY <1>4 DEF InsertFails, NextRow, MarkPoisoned, RetriesLeft, FlushSpent
  <1> QED BY <1>1, <1>2, <1>3, <1>4 DEF FlushStep

\* Whatever step a consumer takes, Flush gives up only what has used up its
\* attempts.
LEMMA FlushSpentStep == ASSUME TypeOK, [Next]_vars PROVE FlushSpent
  <1>0. SinkTypeOK
    BY DEF TypeOK
  <1>1. CASE MainFlush \/ TickerFlush
    BY <1>0, <1>1, FlushCallSpent DEF MainFlush, TickerFlush, Threads
  <1>2. CASE WriteFlush \/ FlushCall \/ CloseFlushes \/ Tick
    <2>1. PICK t \in Threads : DrainBuffer(t)
      BY <1>2 DEF WriteFlush, FlushCall, CloseFlushes, CloseFlush, Tick, TickerFires, Threads
    <2> QED BY <1>0, <2>1 DEF DrainBuffer, SinkTypeOK, FlushSpent
  <1>3. CASE Exit \/ Crash
    BY <1>0, <1>3 DEF Exit, Crash, ProcessEnds, SinkLost, SinkTypeOK, FlushSpent
  <1>4. CASE TakePoisoned
    BY <1>4 DEF TakePoisoned, DrainPoisoned, FlushSpent
  <1>5. CASE UNCHANGED <<step, batch, attempt, poisoned>>
    BY <1>5 DEF FlushSpent
  <1> QED
    BY <1>1, <1>2, <1>3, <1>4, <1>5 DEF Next, Main, Ticker, Environment, Start, PollRecords,
       PollError, PollCancelled, DecodeRecord, DecodeFails, DecodeDone, SeenBatch,
       SeenBatchFails, SkipSeen, HandleBatchDone, PersistBuffered, WriteReturns,
       PersistDirect, PersistRetry, PersistDeadLetter, FlushReturns, FlushDirect,
       FlushDirectFails, DeadLetter, DeadLetterDone, Commit, CommitFails, CloseBegin,
       CloseReturns, SigTerm, KeyExpires, TickerEnds, TickerStops, Append,
       NewTimescaleSink, CloseStop, Goto, SinkOnly, sinkVars, vars

\* For every retry limit, a record, a batch and a row get exactly
\* MaxRetries + 1 attempts of their own before persist or Flush gives them up,
\* whichever goroutine flushes and whatever fails meanwhile.
THEOREM RetriesAreSpent == Spec => RetriesSpent
  <1>1. Init => TriesOfNext
    BY DEF Init, TriesOfNext
  <1>2. TypeOK /\ TriesOfNext /\ [Next]_vars
          => TriesOfNext' /\ [PersistSpent /\ FlushSpent]_vars
    BY PersistSpentStep, FlushSpentStep
  <1> QED BY <1>1, <1>2, TypeInit, TypeStep, PTL DEF Spec, RetriesSpent
=============================================================================
