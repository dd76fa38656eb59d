--------------------------- MODULE ConsumerProofs ---------------------------
(***************************************************************************)
(* Theorems about module Consumer, for every log of records, batch size,   *)
(* retry limit and set of faults.                                          *)
(***************************************************************************)
EXTENDS Consumer, TLAPS

----------------------------------------------------------------------------
(* Type correctness.                                                       *)

\* The steps of main that only move its program counter.
Moves ==
    \/ PollError \/ PollCancelled \/ DecodeDone \/ HandleBatchDone
    \/ FlushReturns \/ FlushDirect \/ FlushDirectFails
    \/ DeadLetterDone \/ CommitFails \/ CloseReturns

\* Rows and keys of events of the topic are rows and keys of the topic.
LEMMA RowsType ==
    /\ \A o \in Offsets : Row(o) \in Rows(Offsets)
    /\ \A S \in SUBSET Offsets : Rows(S) \subseteq Rows(Offsets)
    /\ \A S \in SUBSET Offsets : Keys(S) \subseteq Keys(Offsets)
  BY DEF Rows, Keys

\* drainBuffer keeps the sink's types.
LEMMA DrainType ==
    ASSUME SinkTypeOK, NEW t \in Threads, DrainBuffer(t)
    PROVE  SinkTypeOK'
  BY SinkAssumption DEF SinkTypeOK, DrainBuffer

\* Every database call of Flush keeps the sink's types: the attempts stay
\* within MaxRetries and only events of the topic get into the table.
LEMMA FlushType ==
    ASSUME SinkTypeOK, NEW t \in Threads, NEW live, FlushStep(t, live)
    PROVE  SinkTypeOK'
  <1> USE SinkAssumption, RowsType
  <1>1. CASE CopySucceeds(t, live)
    BY <1>1 DEF SinkTypeOK, CopySucceeds
  <1>2. CASE CopyFails(t, live)
    <2>1. table' \subseteq Rows(Offsets)
      BY <1>2 DEF SinkTypeOK, CopyFails
    <2>2. /\ step' \in [Threads -> {"idle", "copy", "rows"}]
          /\ attempt' \in [Threads -> 0..MaxRetries]
      BY <1>2 DEF SinkTypeOK, CopyFails, RetriesLeft
    <2> QED BY <1>2, <2>1, <2>2 DEF SinkTypeOK, CopyFails
  <1>3. CASE InsertSucceeds(t, live)
    BY <1>3 DEF SinkTypeOK, InsertSucceeds, NextRow
  <1>4. CASE InsertFails(t, live)
    <2>1. PICK o \in Offsets :
             /\ table' = table \/ table' = table \cup {Row(o)}
             /\ IF RetriesLeft(attempt[t])
                THEN /\ attempt' = [attempt EXCEPT ![t] = @ + 1]
                     /\ UNCHANGED <<poisoned, batch, step>>
                ELSE MarkPoisoned(o) /\ NextRow(t, o)
             /\ UNCHANGED <<buffer, ticker>>
      BY <1>4 DEF InsertFails
    <2>2. CASE RetriesLeft(attempt[t])
      BY <2>1, <2>2 DEF SinkTypeOK, RetriesLeft
    <2>3. CASE ~RetriesLeft(attempt[t])
      BY <2>1, <2>3 DEF SinkTypeOK, MarkPoisoned, NextRow
    <2> QED BY <2>2, <2>3
  <1> QED BY <1>1, <1>2, <1>3, <1>4 DEF FlushStep

\* sendToDLQ keeps the types of what it changes.
LEMMA SendType ==
    ASSUME TypeOK, NEW o \in Offsets, sendToDLQ(o)
    PROVE  /\ dlq' \subseteq Offsets /\ dropped' \subseteq Offsets
           /\ dlqSent' \in Nat
  BY DEF TypeOK, sendToDLQ, SendDisabled, SendSucceeds, SendFails

\* The empty sink, at the start and after the end of a process, is well typed.
LEMMA EmptySinkType ==
    /\ [t \in Threads |-> "idle"] \in [Threads -> {"idle", "copy", "rows"}]
    /\ [t \in Threads |-> {}] \in [Threads -> SUBSET Offsets]
    /\ [t \in Threads |-> 0] \in [Threads -> 0..MaxRetries]
  BY SinkAssumption

\* Init establishes the types.
LEMMA TypeInit == Init => TypeOK
  <1> SUFFICES ASSUME Init PROVE TypeOK
    OBVIOUS
  <1>1. SinkTypeOK
    BY EmptySinkType DEF Init, SinkInit, SinkTypeOK
  <1>2. ctxDone \in BOOLEAN
    BY Zenon DEF Init
  <1> QED BY <1>1, <1>2, SinkAssumption DEF Init, TypeOK, PCs

\* Every step keeps the types.
LEMMA TypeStep == TypeOK /\ [Next]_vars => TypeOK'
  <1> SUFFICES ASSUME TypeOK, [Next]_vars PROVE TypeOK'
    OBVIOUS
  <1> USE SinkAssumption, ConsumerAssumption
      DEF TypeOK, kafkaVars, workVars, fateVars, counters
  <1>1. CASE Start
    BY <1>1 DEF Start, SinkOnly, NewTimescaleSink, sinkVars, SinkTypeOK, PCs
  <1>2. CASE Moves
    BY <1>2 DEF Moves, PollError, PollCancelled, DecodeDone, AfterDecode,
       HandleBatchDone, FlushReturns, FlushDirect, FlushDirectFails,
       DeadLetterDone, CommitFails, CloseReturns, Goto, SinkOnly, sinkVars,
       SinkTypeOK, PCs
  <1>3. CASE PollRecords
    BY <1>3 DEF PollRecords, sinkVars, SinkTypeOK, PCs, Offsets
  <1>4. CASE DecodeRecord
    BY <1>4 DEF DecodeRecord, sinkVars, SinkTypeOK
  <1>5. CASE DecodeFails
    BY <1>5, SendType DEF DecodeFails, sinkVars, SinkTypeOK
  <1>6. CASE SeenBatch
    BY <1>6, RowsType DEF SeenBatch, SeenIn, sinkVars, SinkTypeOK, PCs
  <1>7. CASE SeenBatchFails
    BY <1>7, RowsType DEF SeenBatchFails, sinkVars, SinkTypeOK, PCs
  <1>8. CASE SkipSeen
    BY <1>8 DEF SkipSeen, sinkVars, SinkTypeOK
  <1>9. CASE PersistBuffered
    BY <1>9 DEF PersistBuffered, Append, SinkTypeOK, PCs
  <1>10. CASE WriteFlush \/ FlushCall \/ CloseFlushes
    BY <1>10, DrainType
       DEF WriteFlush, FlushCall, CloseFlushes, CloseFlush, SinkOnly, Threads, PCs
  <1>11. CASE WriteReturns
    BY <1>11 DEF WriteReturns, sinkVars, SinkTypeOK, PCs
  <1>12. CASE PersistDirect
    BY <1>12 DEF PersistDirect, sinkVars, SinkTypeOK
  <1>13. CASE PersistRetry
    BY <1>13 DEF PersistRetry, MayWrite, sinkVars, SinkTypeOK
  <1>14. CASE PersistDeadLetter
    BY <1>14, SendType DEF PersistDeadLetter, sinkVars, SinkTypeOK
  <1>15. CASE TakePoisoned
    BY <1>15 DEF TakePoisoned, DrainPoisoned, SinkTypeOK, PCs
  <1>16. CASE DeadLetter
    BY <1>16, SendType DEF DeadLetter, sinkVars, SinkTypeOK
  <1>17. CASE Commit
    BY <1>17 DEF Commit, sinkVars, SinkTypeOK, PCs
  <1>18. CASE CloseBegin
    BY <1>18 DEF CloseBegin, CloseStop, Goto, SinkOnly, sinkVars, SinkTypeOK, PCs
  <1>19. CASE Exit \/ Crash
    <2>1. ProcessEnds
      BY <1>19 DEF Exit, Crash
    <2>2. SinkTypeOK'
      BY <2>1, EmptySinkType DEF ProcessEnds, SinkLost, SinkTypeOK
    <2>3. ctxDone' \in BOOLEAN
      BY <2>1, Zenon DEF ProcessEnds
    <2> QED BY <2>1, <2>2, <2>3 DEF ProcessEnds, PCs
  <1>20. CASE MainFlush \/ TickerFlush
    BY <1>20, FlushType DEF MainFlush, TickerFlush, consumerVars, Threads
  <1>21. CASE Tick
    BY <1>21, DrainType DEF Tick, TickerFires, consumerVars, Threads
  <1>22. CASE TickerEnds
    BY <1>22 DEF TickerEnds, TickerStops, consumerVars, SinkTypeOK
  <1>23. CASE SigTerm
    BY <1>23 DEF SigTerm, sinkVars, SinkTypeOK
  <1>24. CASE KeyExpires
    BY <1>24 DEF KeyExpires, sinkVars, SinkTypeOK
  <1>25. CASE UNCHANGED vars
    BY <1>25 DEF vars, sinkVars, SinkTypeOK
  <1> QED
    BY <1>1, <1>2, <1>3, <1>4, <1>5, <1>6, <1>7, <1>8, <1>9, <1>10, <1>11,
       <1>12, <1>13, <1>14, <1>15, <1>16, <1>17, <1>18, <1>19, <1>20, <1>21,
       <1>22, <1>23, <1>24, <1>25 DEF Next, Main, Ticker, Environment, Moves

\* The consumer never leaves its types: fetch and commit positions stay in the
\* log and the retry loops within their limits.
THEOREM TypeCorrect == Spec => []TypeOK
  BY TypeInit, TypeStep, PTL DEF Spec

----------------------------------------------------------------------------
(* The phases of a round.                                                  *)

\* A goroutine is in Flush exactly while its batch is not empty.
BusyWithBatch == \A t \in Threads : step[t] = "idle" <=> batch[t] = {}

\* drainBuffer puts a goroutine to work exactly when there is something to do.
LEMMA DrainBusy ==
    ASSUME SinkTypeOK, BusyWithBatch, NEW t \in Threads, DrainBuffer(t)
    PROVE  /\ BusyWithBatch'
           /\ batch' = [batch EXCEPT ![t] = buffer]
           /\ step'[t] # "idle" => buffer # {}
           /\ \A u \in Threads \ {t} : step'[u] = step[u]
  BY DEF SinkTypeOK, BusyWithBatch, DrainBuffer

\* A database call of one goroutine leaves the other alone, and Flush goes on
\* until the batch is empty.
LEMMA FlushBusy ==
    ASSUME SinkTypeOK, BusyWithBatch, NEW t \in Threads, NEW live,
           FlushStep(t, live)
    PROVE  /\ BusyWithBatch'
           /\ step[t] # "idle"
           /\ \A u \in Threads \ {t} : step'[u] = step[u] /\ batch'[u] = batch[u]
           /\ UNCHANGED buffer
  <1>1. CASE CopySucceeds(t, live)
    BY <1>1 DEF SinkTypeOK, BusyWithBatch, CopySucceeds
  <1>2. CASE CopyFails(t, live)
    BY <1>2 DEF SinkTypeOK, BusyWithBatch, CopyFails
  <1>3. CASE InsertSucceeds(t, live)
    BY <1>3 DEF SinkTypeOK, BusyWithBatch, InsertSucceeds, NextRow, IsNext
  <1>4. CASE InsertFails(t, live)
    BY <1>4 DEF SinkTypeOK, BusyWithBatch, InsertFails, NextRow, IsNext
  <1> QED BY <1>1, <1>2, <1>3, <1>4 DEF FlushStep

\* No process has begun a round.
LEMMA PhasesInit == Init => Phases
  BY DEF Init, SinkInit, Phases, Threads

\* Every step respects the phases.
LEMMA PhasesStep == TypeOK /\ Phases /\ [Next]_vars => Phases'
  <1> SUFFICES ASSUME TypeOK, Phases, [Next]_vars PROVE Phases'
    OBVIOUS
  <1> USE DEF kafkaVars, workVars, fateVars, counters, Threads
  <1>0. SinkTypeOK /\ BusyWithBatch
    BY DEF TypeOK, Phases, BusyWithBatch
  <1>1. CASE Start
    BY <1>1 DEF Phases, Start, SinkOnly, NewTimescaleSink, sinkVars
  <1>2. CASE Moves
    BY <1>2 DEF Phases, Moves, PollError, PollCancelled, DecodeDone, AfterDecode,
       HandleBatchDone, FlushReturns, FlushDone, FlushDirect, FlushDirectFails,
       DeadLetterDone, CommitFails, CloseReturns, Goto, SinkOnly, sinkVars
  <1>3. CASE PollRecords
    BY <1>3 DEF TypeOK, Phases, PollRecords, sinkVars
  <1>4. CASE DecodeRecord
    BY <1>4 DEF Phases, DecodeRecord, IsNext, sinkVars
  <1>5. CASE DecodeFails
    BY <1>5 DEF Phases, DecodeFails, IsNext, sinkVars
  <1>6. CASE SeenBatch \/ SeenBatchFails
    BY <1>6 DEF Phases, SeenBatch, SeenBatchFails, sinkVars
  <1>7. CASE SkipSeen
    BY <1>7 DEF Phases, SkipSeen, IsNext, sinkVars
  <1>8. CASE PersistBuffered
    BY <1>8 DEF Phases, PersistBuffered, IsNext, Append
  <1>9. CASE WriteFlush
    BY <1>0, <1>9, DrainBusy DEF Phases, BusyWithBatch, WriteFlush, SinkOnly,
       DrainBuffer
  <1>10. CASE FlushCall
    BY <1>0, <1>10, DrainBusy DEF Phases, BusyWithBatch, FlushCall, SinkOnly,
       DrainBuffer
  <1>11. CASE CloseFlushes
    BY <1>0, <1>11, DrainBusy DEF Phases, BusyWithBatch, CloseFlushes, CloseFlush,
       SinkOnly, DrainBuffer
  <1>12. CASE WriteReturns
    BY <1>12 DEF Phases, WriteReturns, FlushDone, sinkVars
  <1>13. CASE PersistDirect \/ PersistRetry \/ PersistDeadLetter
    BY <1>13 DEF Phases, PersistDirect, PersistRetry, PersistDeadLetter,
       DirectNext, IsNext, sinkVars
  <1>14. CASE TakePoisoned
    BY <1>14 DEF Phases, TakePoisoned, DrainPoisoned
  <1>15. CASE DeadLetter
    BY <1>15 DEF Phases, DeadLetter, sinkVars
  <1>16. CASE Commit
    BY <1>16 DEF TypeOK, Phases, Commit, sinkVars
  <1>17. CASE CloseBegin
    BY <1>17 DEF Phases, CloseBegin, CloseStop, Goto, SinkOnly, sinkVars
  <1>18. CASE Exit \/ Crash
    BY <1>18 DEF TypeOK, Phases, Exit, Crash, ProcessEnds, SinkLost
  <1>19. CASE MainFlush
    BY <1>0, <1>19, FlushBusy DEF Phases, BusyWithBatch, MainFlush, consumerVars
  <1>20. CASE TickerFlush
    BY <1>0, <1>20, FlushBusy DEF Phases, BusyWithBatch, TickerFlush, consumerVars
  <1>21. CASE Tick
    BY <1>0, <1>21, DrainBusy DEF Phases, BusyWithBatch, Tick, TickerFires,
       DrainBuffer, consumerVars
  <1>22. CASE TickerEnds
    BY <1>22 DEF Phases, TickerEnds, TickerStops, consumerVars
  <1>23. CASE SigTerm \/ KeyExpires
    BY <1>23 DEF Phases, SigTerm, KeyExpires, sinkVars
  <1>24. CASE UNCHANGED vars
    BY <1>24 DEF Phases, vars, sinkVars
  <1> QED
    BY <1>1, <1>2, <1>3, <1>4, <1>5, <1>6, <1>7, <1>8, <1>9, <1>10, <1>11,
       <1>12, <1>13, <1>14, <1>15, <1>16, <1>17, <1>18, <1>19, <1>20, <1>21,
       <1>22, <1>23, <1>24 DEF Next, Main, Ticker, Environment, Moves

\* A round of Run ends before the next one begins: at the next poll nothing of
\* it is left except in the hands of the ticker and on the poison list.
THEOREM RoundsDoNotOverlap == Spec => []Phases
  <1>1. Spec => [](TypeOK /\ Phases)
    BY TypeInit, TypeStep, PhasesInit, PhasesStep, PTL DEF Spec
  <1> QED BY <1>1, PTL

----------------------------------------------------------------------------
(* No record is forgotten.                                                 *)

\* What NothingForgotten asks of one record.
Kept(o) == o \in InMemory \/ Stored(o) \/ o \in skipped \/ o \in dropped

\* The three ways out of sendToDLQ leave the record dead-lettered or given up.
LEMMA SendKeeps ==
    ASSUME NEW o, sendToDLQ(o)
    PROVE  /\ o \in dlq' \/ o \in dropped'
           /\ dlq \subseteq dlq' /\ dropped \subseteq dropped'
  BY DEF sendToDLQ, SendDisabled, SendSucceeds, SendFails

\* A database call keeps every event of the batch: it stays in the batch,
\* gets into the table or onto the poison list.
LEMMA FlushKeeps ==
    ASSUME SinkTypeOK, NEW t \in Threads, NEW live, FlushStep(t, live)
    PROVE  /\ \A o \in batch[t] :
                  o \in batch'[t] \/ Row(o) \in table' \/ o \in poisoned'
           /\ \A u \in Threads \ {t} : batch'[u] = batch[u]
           /\ table \subseteq table' /\ poisoned \subseteq poisoned'
           /\ UNCHANGED buffer
  <1>1. CASE CopySucceeds(t, live)
    BY <1>1 DEF SinkTypeOK, CopySucceeds, Rows
  <1>2. CASE CopyFails(t, live)
    BY <1>2 DEF SinkTypeOK, CopyFails
  <1>3. CASE InsertSucceeds(t, live)
    BY <1>3 DEF SinkTypeOK, InsertSucceeds, NextRow
  <1>4. CASE InsertFails(t, live)
    BY <1>4 DEF SinkTypeOK, InsertFails, NextRow, MarkPoisoned
  <1> QED BY <1>1, <1>2, <1>3, <1>4 DEF FlushStep

\* A step that does not end the process keeps every record it has.
LEMMA StepKeeps ==
    ASSUME TypeOK, Phases, Next, ~(Exit \/ Crash), NEW o, Kept(o)
    PROVE  Kept(o)'
  <1> USE DEF Kept, InMemory, Stored, kafkaVars, workVars, fateVars, counters,
              Threads
  <1>0. SinkTypeOK
    BY DEF TypeOK
  <1>1. CASE Start
    BY <1>1 DEF Start, SinkOnly, NewTimescaleSink, sinkVars, Row
  <1>2. CASE Moves
    <2>1. \E from, to : Goto(from, to)
      BY <1>2 DEF Moves, PollError, PollCancelled, DecodeDone, HandleBatchDone,
         FlushReturns, FlushDirect, FlushDirectFails, DeadLetterDone,
         CommitFails, CloseReturns
    <2> QED BY <2>1 DEF Goto, SinkOnly, sinkVars, Row
  <1>3. CASE PollRecords
    BY <1>3 DEF Phases, PollRecords, sinkVars, Row
  <1>4. CASE DecodeRecord
    BY <1>4 DEF DecodeRecord, sinkVars, Row
  <1>5. CASE DecodeFails
    BY <1>5, SendKeeps DEF DecodeFails, sinkVars, Row
  <1>6. CASE SeenBatch \/ SeenBatchFails
    BY <1>6 DEF SeenBatch, SeenBatchFails, sinkVars, Row
  <1>7. CASE SkipSeen
    BY <1>7 DEF SkipSeen, sinkVars, Row
  <1>8. CASE PersistBuffered
    BY <1>8 DEF PersistBuffered, Append, Row
  <1>9. CASE WriteFlush \/ FlushCall \/ CloseFlushes
    BY <1>0, <1>9 DEF Phases, SinkTypeOK, WriteFlush, FlushCall, CloseFlushes,
       CloseFlush, SinkOnly, DrainBuffer, Row
  <1>10. CASE WriteReturns
    BY <1>10 DEF WriteReturns, sinkVars, Row
  <1>11. CASE PersistDirect \/ PersistRetry
    BY <1>11 DEF PersistDirect, PersistRetry, sinkVars, Row
  <1>12. CASE PersistDeadLetter
    BY <1>12, SendKeeps DEF PersistDeadLetter, sinkVars, Row
  <1>13. CASE TakePoisoned
    BY <1>13 DEF Phases, TakePoisoned, DrainPoisoned, Row
  <1>14. CASE DeadLetter
    BY <1>14, SendKeeps DEF DeadLetter, sinkVars, Row
  <1>15. CASE Commit
    BY <1>15 DEF Commit, sinkVars, Row
  <1>16. CASE CloseBegin
    BY <1>16 DEF CloseBegin, CloseStop, Goto, SinkOnly, sinkVars, Row
  <1>17. CASE MainFlush \/ TickerFlush
    BY <1>0, <1>17, FlushKeeps DEF MainFlush, TickerFlush, consumerVars, Row
  <1>18. CASE Tick
    BY <1>0, <1>18 DEF Phases, SinkTypeOK, Tick, TickerFires, DrainBuffer,
       consumerVars, Row
  <1>19. CASE TickerEnds
    BY <1>19 DEF TickerEnds, TickerStops, consumerVars, Row
  <1>20. CASE SigTerm \/ KeyExpires
    BY <1>20 DEF SigTerm, KeyExpires, sinkVars, Row
  <1> QED
    BY <1>1, <1>2, <1>3, <1>4, <1>5, <1>6, <1>7, <1>8, <1>9, <1>10, <1>11,
       <1>12, <1>13, <1>14, <1>15, <1>16, <1>17, <1>18, <1>19, <1>20
       DEF Next, Main, Ticker, Environment, Moves

\* Only a poll gives this process records it did not have.
LEMMA FetchFrame ==
    ASSUME Next, ~(Exit \/ Crash), ~PollRecords
    PROVE  UNCHANGED <<pos, base>>
  BY DEF Next, Main, Ticker, Environment, Start, PollError, PollCancelled,
     DecodeRecord, DecodeFails, DecodeDone, SeenBatch, SeenBatchFails, SkipSeen,
     HandleBatchDone, PersistBuffered, WriteFlush, WriteReturns, PersistDirect,
     PersistRetry, PersistDeadLetter, FlushCall, FlushReturns, FlushDirect,
     FlushDirectFails, TakePoisoned, DeadLetter, DeadLetterDone, Commit,
     CommitFails, CloseBegin, CloseFlushes, CloseReturns, MainFlush, Tick,
     TickerFlush, TickerEnds, SigTerm, KeyExpires, Goto, SinkOnly, consumerVars,
     kafkaVars

\* Every step keeps what was fetched.
LEMMA ForgottenStep ==
    TypeOK /\ Phases /\ NothingForgotten /\ [Next]_vars => NothingForgotten'
  <1> SUFFICES ASSUME TypeOK, Phases, NothingForgotten, [Next]_vars
               PROVE  NothingForgotten'
    OBVIOUS
  <1>1. CASE Exit \/ Crash
    BY <1>1 DEF Exit, Crash, ProcessEnds, NothingForgotten, TypeOK
  <1>2. CASE PollRecords
    <2>1. \A o \in base+1..pos : Kept(o)'
      BY <1>2, StepKeeps DEF NothingForgotten, Kept, PollRecords, Exit, Crash,
         ProcessEnds, Next, Main
    <2>2. \A o \in (base+1..pos)' : o \in base+1..pos \/ o \in todo'
      BY <1>2 DEF PollRecords, TypeOK
    <2> QED BY <2>1, <2>2 DEF NothingForgotten, Kept, InMemory
  <1>3. CASE Next /\ ~(Exit \/ Crash) /\ ~PollRecords
    BY <1>3, StepKeeps, FetchFrame DEF NothingForgotten, Kept
  <1>4. CASE UNCHANGED vars
    BY <1>4 DEF vars, sinkVars, kafkaVars, workVars, fateVars, counters,
       NothingForgotten, InMemory, Stored, Row
  <1> QED BY <1>1, <1>2, <1>3, <1>4

\* Whatever goroutines, retries, failed calls and signals do, every record that
\* a process fetched is in memory, stored, skipped as a duplicate or given up
\* by sendToDLQ.
THEOREM NothingIsForgotten == Spec => []NothingForgotten
  <1>1. Init => NothingForgotten
    BY DEF Init, NothingForgotten
  <1>2. Spec => [](TypeOK /\ Phases /\ NothingForgotten)
    BY <1>1, TypeInit, TypeStep, PhasesInit, PhasesStep, ForgottenStep, PTL
       DEF Spec
  <1> QED BY <1>2, PTL

----------------------------------------------------------------------------
(* At-least-once delivery.                                                 *)

\* The dead-letter topic takes every record as long as the process is not
\* being stopped, so that nothing is given up before that.
DeadLettersReliable == DLQEnabled /\ "dlq" \notin Faults

DropsOnlyAtShutdown == dropped # {} => ctxDone

\* Only sendToDLQ gives a record up, and only a stopping process does.
LEMMA DropsStep ==
    ASSUME DeadLettersReliable, DropsOnlyAtShutdown, [Next]_vars
    PROVE  DropsOnlyAtShutdown'
  <1> USE DEF DropsOnlyAtShutdown, fateVars
  <1>1. CASE DecodeFails \/ PersistDeadLetter \/ DeadLetter
    BY <1>1 DEF DeadLettersReliable, DecodeFails, PersistDeadLetter, DeadLetter,
       sendToDLQ, SendDisabled, SendSucceeds, SendFails
  <1>2. CASE Exit \/ Crash
    BY <1>2 DEF Exit, Crash, ProcessEnds
  <1>3. CASE SigTerm
    BY <1>3 DEF SigTerm
  <1>4. CASE ~(DecodeFails \/ PersistDeadLetter \/ DeadLetter \/ Exit \/ Crash
               \/ SigTerm)
    <2>1. UNCHANGED <<dropped, ctxDone>>
      BY <1>4 DEF Next, Main, Ticker, Environment, Start, PollRecords, PollError,
         PollCancelled, DecodeRecord, DecodeDone, SeenBatch, SeenBatchFails,
         SkipSeen, HandleBatchDone, PersistBuffered, WriteFlush, WriteReturns,
         PersistDirect, PersistRetry, FlushCall, FlushReturns, FlushDirect,
         FlushDirectFails, TakePoisoned, DeadLetterDone, Commit, CommitFails,
         CloseBegin, CloseFlushes, CloseReturns, MainFlush, Tick, TickerFlush,
         TickerEnds, KeyExpires, Goto, SinkOnly, consumerVars, vars
    <2> QED BY <2>1
  <1> QED BY <1>1, <1>2, <1>3, <1>4

\* Nothing that is stored is taken back.
LEMMA StoredStays ==
    ASSUME TypeOK, [Next]_vars, NEW o, Stored(o)
    PROVE  Stored(o)'
  <1> USE DEF Stored, fateVars, Row
  <1>0. SinkTypeOK
    BY DEF TypeOK
  <1>1. CASE DecodeFails \/ PersistDeadLetter \/ DeadLetter
    BY <1>1, SendKeeps DEF DecodeFails, PersistDeadLetter, DeadLetter, sinkVars
  <1>2. CASE MainFlush \/ TickerFlush
    BY <1>0, <1>2, FlushKeeps DEF MainFlush, TickerFlush, consumerVars, Threads
  <1>3. CASE Exit \/ Crash
    BY <1>3 DEF Exit, Crash, ProcessEnds, SinkLost
  <1>4. CASE PersistDirect \/ PersistRetry
    BY <1>4 DEF PersistDirect, PersistRetry, sinkVars
  <1>5. CASE ~(DecodeFails \/ PersistDeadLetter \/ DeadLetter \/ MainFlush
               \/ TickerFlush \/ Exit \/ Crash \/ PersistDirect \/ PersistRetry)
    <2>1. UNCHANGED <<table, dlq, accepted>>
      BY <1>5 DEF Next, Main, Ticker, Environment, Start, PollRecords, PollError,
         PollCancelled, DecodeRecord, DecodeDone, SeenBatch, SeenBatchFails,
         SkipSeen, HandleBatchDone, PersistBuffered, WriteFlush, WriteReturns,
         FlushCall, FlushReturns, FlushDirect, FlushDirectFails, TakePoisoned,
         DeadLetterDone, Commit, CommitFails, CloseBegin, CloseFlushes,
         CloseReturns, Tick, TickerFires, TickerEnds, TickerStops, SigTerm,
         KeyExpires, Goto, SinkOnly, consumerVars, vars, sinkVars,
         NewTimescaleSink, Append, DrainBuffer, DrainPoisoned, CloseStop,
         CloseFlush
    <2> QED BY <2>1
  <1> QED BY <1>1, <1>2, <1>3, <1>4, <1>5

\* Only Commit moves the committed offset.
LEMMA CommitFrame ==
    ASSUME [Next]_vars, ~Commit
    PROVE  UNCHANGED committed
  BY DEF Next, Main, Ticker, Environment, Start, PollRecords, PollError,
     PollCancelled, DecodeRecord, DecodeFails, DecodeDone, SeenBatch,
     SeenBatchFails, SkipSeen, HandleBatchDone, PersistBuffered, WriteFlush,
     WriteReturns, PersistDirect, PersistRetry, PersistDeadLetter, FlushCall,
     FlushReturns, FlushDirect, FlushDirectFails, TakePoisoned, DeadLetter,
     DeadLetterDone, CommitFails, CloseBegin, CloseFlushes, CloseReturns,
     MainFlush, Tick, TickerFlush, TickerEnds, SigTerm, KeyExpires, Exit, Crash,
     ProcessEnds, Goto, SinkOnly, consumerVars, kafkaVars, vars

\* Where the records of the round are when Run reaches the commit.
LEMMA AtCommit ==
    ASSUME Phases, NothingForgotten, DropsOnlyAtShutdown, ~DedupEnabled,
           pc = "commit", ~ctxDone
    PROVE  \A o \in base+1..pos : Stored(o) \/ o \in batch["ticker"] \cup poisoned
  <1>1. /\ todo = {} /\ decoded = {} /\ buffer = {} /\ outbox = {}
        /\ batch["main"] = {} /\ skipped = {}
    BY DEF Phases, Threads
  <1>2. dropped = {}
    BY DEF DropsOnlyAtShutdown
  <1> QED BY <1>1, <1>2 DEF NothingForgotten, InMemory

\* What a record that is committed and not stored yet is waiting for.
InWindow(o) == Stored(o) \/ o \in batch["ticker"] \cup poisoned \cup outbox

\* A record in the window leaves it only by being stored.
LEMMA WindowKeeps ==
    ASSUME TypeOK, Phases, DeadLettersReliable, [Next]_vars, ~(Exit \/ Crash),
           ~ctxDone, NEW o, InWindow(o)
    PROVE  InWindow(o)'
  <1> USE DEF InWindow, Threads
  <1>0. SinkTypeOK
    BY DEF TypeOK
  <1>1. CASE Stored(o)
    BY <1>1, StoredStays
  <1>2. CASE ~Stored(o) /\ DeadLetter
    <2>1. UNCHANGED <<batch, poisoned>>
      BY <1>2 DEF DeadLetter, sinkVars
    <2>2. PICK p \in outbox : outbox' = outbox \ {p} /\ sendToDLQ(p)
      BY <1>2 DEF DeadLetter
    <2>3. p \in dlq'
      BY <2>2 DEF sendToDLQ, SendDisabled, SendSucceeds, SendFails,
         DeadLettersReliable
    <2> QED BY <1>2, <2>1, <2>2, <2>3 DEF Stored
  <1>3. CASE ~Stored(o) /\ (MainFlush \/ TickerFlush)
    <2>1. UNCHANGED outbox
      BY <1>3 DEF MainFlush, TickerFlush, consumerVars, workVars
    <2> QED BY <1>0, <1>3, <2>1, FlushKeeps DEF MainFlush, TickerFlush, Stored, Row
  <1>4. CASE ~Stored(o) /\ Tick
    BY <1>0, <1>4 DEF Phases, SinkTypeOK, Tick, TickerFires, DrainBuffer,
       consumerVars, workVars
  <1>5. CASE ~Stored(o) /\ TakePoisoned
    BY <1>5 DEF Phases, TakePoisoned, DrainPoisoned
  <1>6. CASE /\ ~Stored(o)
             /\ ~(DeadLetter \/ MainFlush \/ TickerFlush \/ Tick \/ TakePoisoned)
    <2>1. UNCHANGED <<batch["ticker"], poisoned, outbox>>
      BY <1>0, <1>6 DEF SinkTypeOK, Next, Main, Ticker, Environment, Start,
         PollRecords, PollError, PollCancelled, DecodeRecord, DecodeFails,
         DecodeDone, SeenBatch, SeenBatchFails, SkipSeen, HandleBatchDone,
         PersistBuffered, WriteFlush, WriteReturns, PersistDirect, PersistRetry,
         PersistDeadLetter, FlushCall, FlushReturns, FlushDirect,
         FlushDirectFails, DeadLetterDone, Commit, CommitFails, CloseBegin,
         CloseFlushes, CloseReturns, TickerEnds, TickerStops, SigTerm,
         KeyExpires, Goto, SinkOnly, consumerVars, workVars, vars, sinkVars,
         NewTimescaleSink, Append, DrainBuffer, CloseStop, CloseFlush
    <2> QED BY <1>6, <2>1
  <1> QED BY <1>1, <1>2, <1>3, <1>4, <1>5, <1>6

\* Every step keeps the window.
LEMMA WindowStep ==
    ASSUME TypeOK, Phases, NothingForgotten, DropsOnlyAtShutdown, CommitWindow,
           DeadLettersReliable, ~DedupEnabled, [Next]_vars
    PROVE  CommitWindow'
  <1> USE DEF CommitWindow, Settled, InWindow
  <1>1. CASE Exit \/ Crash
    BY <1>1 DEF Exit, Crash, ProcessEnds, TypeOK
  <1>2. CASE Commit
    <2>1. \A o \in base+1..pos : Stored(o) \/ o \in batch["ticker"] \cup poisoned
      BY <1>2, AtCommit DEF Commit
    <2>2. UNCHANGED <<base, batch, poisoned, outbox, table, dlq, accepted>>
          /\ committed' = pos
      BY <1>2 DEF Commit, sinkVars, workVars, fateVars
    <2> QED BY <2>1, <2>2 DEF Stored, Row
  <1>3. CASE ~(Exit \/ Crash) /\ ~Commit /\ ~ctxDone
    <2>1. UNCHANGED <<base, committed>>
      BY <1>3, CommitFrame, FetchFrame DEF PollRecords, vars, kafkaVars
    <2> QED BY <1>3, <2>1, WindowKeeps
  <1>4. CASE ~(Exit \/ Crash) /\ ctxDone
    <2>1. UNCHANGED ctxDone
      BY <1>4 DEF Next, Main, Ticker, Environment, Start, PollRecords, PollError,
         PollCancelled, DecodeRecord, DecodeFails, DecodeDone, SeenBatch,
         SeenBatchFails, SkipSeen, HandleBatchDone, PersistBuffered, WriteFlush,
         WriteReturns, PersistDirect, PersistRetry, PersistDeadLetter, FlushCall,
         FlushReturns, FlushDirect, FlushDirectFails, TakePoisoned, DeadLetter,
         DeadLetterDone, Commit, CommitFails, CloseBegin, CloseFlushes,
         CloseReturns, MainFlush, Tick, TickerFlush, TickerEnds, SigTerm,
         KeyExpires, Goto, SinkOnly, consumerVars, vars
    <2> QED BY <1>4, <2>1
  <1> QED BY <1>1, <1>2, <1>3, <1>4

\* With the ticker running, without dedup and with a dead-letter topic that
\* answers: a record that the running process committed is stored, or in the
\* ticker's batch, or a poison event on its way to the dead-letter topic.
THEOREM CommitWindowHolds ==
    ASSUME DeadLettersReliable, ~DedupEnabled
    PROVE  Spec => []CommitWindow
  <1> DEFINE IInv == /\ TypeOK /\ Phases /\ NothingForgotten
                     /\ DropsOnlyAtShutdown /\ CommitWindow
  <1>1. Init => IInv
    <2> SUFFICES ASSUME Init PROVE IInv
      OBVIOUS
    <2>1. NothingForgotten /\ DropsOnlyAtShutdown /\ CommitWindow
      BY DEF Init, NothingForgotten, DropsOnlyAtShutdown, CommitWindow
    <2> QED BY <2>1, TypeInit, PhasesInit
  <1>2. IInv /\ [Next]_vars => IInv'
    BY TypeStep, PhasesStep, ForgottenStep, DropsStep, WindowStep
  <1>3. IInv => CommitWindow
    OBVIOUS
  <1> QED BY <1>1, <1>2, <1>3, PTL DEF Spec

\* Without a ticker that flushes, only main holds events, and poison events
\* are gone from the sink once Run has drained them.
NoTicker == ~Buffered \/ ~FlushTicks

OnlyMainFlushes ==
    /\ batch["ticker"] = {}
    /\ poisoned # {} => /\ Buffered
                        /\ pc \in {"persist", "full", "writing", "flush",
                                   "flushing", "drain"}

\* Every step leaves the flushing to main.
LEMMA OnlyMainStep ==
    ASSUME TypeOK, Phases, OnlyMainFlushes, NoTicker, [Next]_vars
    PROVE  OnlyMainFlushes'
  <1> USE DEF OnlyMainFlushes, Threads, kafkaVars, workVars, fateVars, counters
  <1>0. SinkTypeOK /\ BusyWithBatch
    BY DEF TypeOK, Phases, BusyWithBatch
  <1>1. CASE MainFlush
    <2>1. step["main"] # "idle" /\ batch'["ticker"] = batch["ticker"]
      BY <1>0, <1>1, FlushBusy DEF MainFlush
    <2> QED BY <1>1, <2>1 DEF Phases, MainFlush, consumerVars
  <1>2. CASE TickerFlush
    BY <1>0, <1>2, FlushBusy DEF TickerFlush, BusyWithBatch
  <1>3. CASE Tick
    <2>1. buffer = {}
      BY <1>3 DEF Phases, NoTicker, Tick, TickerFires
    <2> QED BY <1>0, <1>3, <2>1 DEF Tick, TickerFires, DrainBuffer, SinkTypeOK,
               consumerVars
  <1>4. CASE TakePoisoned
    BY <1>4 DEF TakePoisoned, DrainPoisoned
  <1>5. CASE WriteFlush \/ FlushCall \/ CloseFlushes
    BY <1>0, <1>5 DEF WriteFlush, FlushCall, CloseFlushes, CloseFlush, SinkOnly,
       DrainBuffer, SinkTypeOK
  <1>6. CASE Exit \/ Crash
    BY <1>6 DEF Exit, Crash, ProcessEnds, SinkLost
  <1>7. CASE ~(MainFlush \/ TickerFlush \/ Tick \/ TakePoisoned \/ WriteFlush
               \/ FlushCall \/ CloseFlushes \/ Exit \/ Crash)
    <2>1. UNCHANGED <<batch, poisoned>>
      BY <1>7 DEF Next, Main, Ticker, Environment, Start, PollRecords, PollError,
         PollCancelled, DecodeRecord, DecodeFails, DecodeDone, SeenBatch,
         SeenBatchFails, SkipSeen, HandleBatchDone, PersistBuffered,
         WriteReturns, PersistDirect, PersistRetry, PersistDeadLetter,
         FlushReturns, FlushDirect, FlushDirectFails, DeadLetter,
         DeadLetterDone, Commit, CommitFails, CloseBegin, CloseReturns,
         TickerEnds, TickerStops, SigTerm, KeyExpires, Goto, SinkOnly, vars,
         sinkVars, NewTimescaleSink, Append, CloseStop
    <2>2. poisoned # {} => pc' \in {"persist", "full", "writing", "flush",
                                    "flushing", "drain"}
      BY <1>7 DEF Next, Main, Ticker, Environment, Start, PollRecords, PollError,
         PollCancelled, DecodeRecord, DecodeFails, DecodeDone, SeenBatch,
         SeenBatchFails, SkipSeen, HandleBatchDone, PersistBuffered,
         WriteReturns, PersistDirect, PersistRetry, PersistDeadLetter,
         FlushReturns, FlushDirect, FlushDirectFails, DeadLetter,
         DeadLetterDone, Commit, CommitFails, CloseBegin, CloseReturns,
         TickerEnds, SigTerm, KeyExpires, Goto, SinkOnly, consumerVars, vars
    <2> QED BY <2>1, <2>2
  <1> QED BY <1>1, <1>2, <1>3, <1>4, <1>5, <1>6, <1>7

\* What at-least-once delivery rests on, besides the types.
DeliveryInv ==
    /\ TypeOK /\ Phases /\ NothingForgotten
    /\ DropsOnlyAtShutdown /\ OnlyMainFlushes /\ CommitCovered

\* The initial states satisfy it.
LEMMA DeliveryInit == Init => DeliveryInv
  <1> SUFFICES ASSUME Init PROVE DeliveryInv
    OBVIOUS
  <1>1. NothingForgotten /\ DropsOnlyAtShutdown /\ CommitCovered
    BY DEF Init, NothingForgotten, DropsOnlyAtShutdown, CommitCovered
  <1>2. OnlyMainFlushes
    BY DEF Init, SinkInit, OnlyMainFlushes, Threads
  <1> QED BY <1>1, <1>2, TypeInit, PhasesInit DEF DeliveryInv

\* When Run commits, everything the process has fetched is stored.
LEMMA CommitsStored ==
    ASSUME DeliveryInv, ~DedupEnabled, Commit
    PROVE  \A o \in 1..pos : Stored(o)
  <1>1. pc = "commit" /\ ~ctxDone
    BY DEF Commit
  <1>2. poisoned = {} /\ batch["ticker"] = {}
    BY <1>1 DEF DeliveryInv, OnlyMainFlushes
  <1>3. \A o \in base+1..pos : Stored(o)
    BY <1>1, <1>2, AtCommit DEF DeliveryInv
  <1>4. \A o \in 1..base : Stored(o)
    BY DEF DeliveryInv, CommitCovered, Settled, Phases, TypeOK
  <1> QED BY <1>3, <1>4 DEF DeliveryInv, TypeOK

\* Every step keeps it.
LEMMA DeliveryStep ==
    ASSUME DeadLettersReliable, ~DedupEnabled, NoTicker, DeliveryInv, [Next]_vars
    PROVE  DeliveryInv'
  <1>1. CommitCovered'
    <2>1. CASE Commit
      <3>1. UNCHANGED <<table, dlq, accepted>> /\ committed' = pos
        BY <2>1 DEF Commit, sinkVars, fateVars
      <3> QED BY <2>1, <3>1, CommitsStored DEF CommitCovered, Settled, Stored, Row
    <2>2. CASE ~Commit
      BY <2>2, CommitFrame, StoredStays DEF DeliveryInv, CommitCovered, Settled
    <2> QED BY <2>1, <2>2
  <1> QED BY <1>1, TypeStep, PhasesStep, ForgottenStep, DropsStep, OnlyMainStep
          DEF DeliveryInv

\* At-least-once: without dedup, with a dead-letter topic that answers and with
\* no flush by the ticker, every record below the committed offset is stored,
\* through crashes, restarts, SIGTERM, database outages and failed commits.
THEOREM AtLeastOnce ==
    ASSUME DeadLettersReliable, ~DedupEnabled, NoTicker
    PROVE  Spec => []CommitCovered
  <1>1. DeliveryInv /\ [Next]_vars => DeliveryInv'
    BY DeliveryStep
  <1>2. DeliveryInv => CommitCovered
    BY DEF DeliveryInv
  <1> QED BY <1>1, <1>2, DeliveryInit, PTL DEF Spec

----------------------------------------------------------------------------
(* The consumer implements module Delivery.                                *)

\* Each step of the consumer is a delivery, a commit over delivered records,
\* or no step at all of the abstract specification.
LEMMA StepDelivers ==
    ASSUME ~DedupEnabled, DeliveryInv, [Next]_vars
    PROVE  [Delivery!Next]_(Delivery!deliveryVars)
  <1> DEFINE D == {o \in Offsets : Settled(o)}
  <1>1. D' = {o \in Offsets : Settled(o)'}
    BY DEF Offsets
  <1>2. CASE Commit
    <2>1. D' = D
      BY <1>1, <1>2 DEF Commit, Settled, Stored, Row, sinkVars, fateVars
    <2>2. committed' = pos /\ pos \in 0..N /\ pos >= committed
      BY <1>2 DEF Commit, DeliveryInv, TypeOK, Phases
    <2>3. 1..pos \subseteq D
      BY <1>2, <2>2, CommitsStored, SinkAssumption DEF Settled, Offsets
    <2> QED BY <2>1, <2>2, <2>3 DEF Delivery!Next, Delivery!CommitUpTo
  <1>3. CASE ~Commit
    <2>1. UNCHANGED committed
      BY <1>3, CommitFrame
    <2>2. D \subseteq D'
      BY <1>1, StoredStays DEF DeliveryInv, Settled
    <2>3. D' \in SUBSET (1..N) /\ D' = D \cup D'
      BY <1>1, <2>2 DEF Offsets
    <2> QED BY <2>1, <2>3 DEF Delivery!Next, Delivery!Deliver
  <1> QED BY <1>2, <1>3

\* Under the same conditions the consumer implements the abstract at-least-once
\* delivery: the committed offset never moves back and never passes a record
\* that a crash could still lose.
THEOREM ConsumerImplementsDelivery ==
    ASSUME DeadLettersReliable, ~DedupEnabled, NoTicker
    PROVE  Spec => ImplementsDelivery
  <1>1. Init => Delivery!Init
    BY DEF Init, SinkInit, Delivery!Init, Settled, Stored
  <1>2. DeliveryInv /\ [Next]_vars => DeliveryInv'
    BY DeliveryStep
  <1>3. DeliveryInv /\ [Next]_vars => [Delivery!Next]_(Delivery!deliveryVars)
    BY StepDelivers
  <1> QED BY <1>1, <1>2, <1>3, DeliveryInit, PTL
          DEF Spec, ImplementsDelivery, Delivery!Spec

=============================================================================
