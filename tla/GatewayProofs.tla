---------------------------- MODULE GatewayProofs ----------------------------
(***************************************************************************)
(* Theorems about module Gateway, for every set of calls, size of their    *)
(* requests, number of workers and queue size, with and without -shed.     *)
(***************************************************************************)
EXTENDS Gateway, FiniteSetTheorems, SequenceTheorems, TLAPS

----------------------------------------------------------------------------
(* Type correctness.                                                       *)

\* The next event of a call that has one is an event.
LEMMA NextEvent ==
    ASSUME TypeOK, NEW c \in Calls, HasMore(c)
    PROVE  /\ <<c, idx[c] + 1>> \in Events
           /\ idx[c] + 1 \in Nat /\ idx[c] + 1 <= Size[c]
  <1>1. Size[c] \in Nat /\ idx[c] \in Nat /\ idx[c] < Size[c]
    BY GatewayAssumption DEF TypeOK, HasMore
  <1>2. idx[c] + 1 \in 1..Size[c]
    BY <1>1
  <1> QED BY <1>1, <1>2 DEF Events

\* Init establishes the types.
LEMMA TypeInit == Init => TypeOK
  BY GatewayAssumption DEF Init, TypeOK

\* Every step keeps the types.
LEMMA TypeStep == TypeOK /\ [Next]_vars => TypeOK'
  <1> SUFFICES ASSUME TypeOK, [Next]_vars PROVE TypeOK'
    OBVIOUS
  <1> USE GatewayAssumption DEF callVars, sinkVars
  <1>1. ASSUME NEW c \in Calls, PushBegins(c) PROVE TypeOK'
    BY <1>1 DEF PushBegins, TypeOK
  <1>2. ASSUME NEW c \in Calls, Accept(c) PROVE TypeOK'
    <2>1. queue' \in Seq(Events) /\ Len(queue') <= QueueSize
      BY <1>2, NextEvent, AppendProperties DEF Accept, HasRoom, TypeOK
    <2> QED BY <1>2, <2>1, NextEvent DEF Accept, TypeOK
  <1>3. ASSUME NEW c \in Calls, Reject(c) PROVE TypeOK'
    BY <1>3, NextEvent DEF Reject, TypeOK
  <1>4. ASSUME NEW c \in Calls, PushReturns(c) \/ ClientCancels(c) PROVE TypeOK'
    BY <1>4 DEF PushReturns, ClientCancels, TypeOK
  <1>5. ASSUME NEW w \in Workers, Receive(w) PROVE TypeOK'
    <2>1. /\ Head(queue) \in Events
          /\ queue' \in Seq(Events) /\ Len(queue') <= QueueSize
      BY <1>5, HeadTailProperties DEF Receive, TypeOK
    <2>2. <<Head(queue)>> \in Seq(Events) /\ Len(<<Head(queue)>>) = 1
      BY <2>1
    <2>3. /\ hold' \in [Workers -> Seq(Events)]
          /\ worker' \in [Workers -> {"ranging", "writing", "failed", "adding", "exited"}]
          /\ \A v \in Workers : Len(hold'[v]) = IF worker'[v] = "writing" THEN 1 ELSE 0
      BY <1>5, <2>2 DEF Receive, TypeOK
    <2> QED BY <1>5, <2>1, <2>3 DEF Receive, TypeOK
  <1>6. ASSUME NEW w \in Workers, WriteSucceeds(w) \/ WriteFails(w) PROVE TypeOK'
    <2>1. hold[w] \in Seq(Events) /\ log \o hold[w] \in Seq(Events)
      BY ConcatProperties DEF TypeOK
    <2>2. Range(hold[w]) \subseteq Events
      BY <2>1, RangeOfSeq
    <2>3. /\ hold' \in [Workers -> Seq(Events)]
          /\ worker' \in [Workers -> {"ranging", "writing", "failed", "adding", "exited"}]
          /\ \A v \in Workers : Len(hold'[v]) = IF worker'[v] = "writing" THEN 1 ELSE 0
      BY <1>6, EmptySeq DEF WriteSucceeds, WriteFails, TypeOK
    <2> QED BY <1>6, <2>1, <2>2, <2>3 DEF WriteSucceeds, WriteFails, TypeOK
  <1>7. ASSUME NEW w \in Workers, ReadErrCount(w) \/ WriteErrCount(w) \/ WorkerExits(w)
        PROVE  TypeOK'
    <2>1. /\ worker' \in [Workers -> {"ranging", "writing", "failed", "adding", "exited"}]
          /\ \A v \in Workers : worker'[v] = "writing" <=> worker[v] = "writing"
      BY <1>7 DEF ReadErrCount, WriteErrCount, WorkerExits, TypeOK
    <2>2. count' \in [Workers -> Nat] /\ errCount' \in Nat
      BY <1>7 DEF ReadErrCount, WriteErrCount, WorkerExits, TypeOK
    <2>3. UNCHANGED <<server, callVars, queue, hold, log, errored, lost>>
      BY <1>7 DEF ReadErrCount, WriteErrCount, WorkerExits
    <2> QED BY <2>1, <2>2, <2>3 DEF TypeOK
  <1>8. CASE Signal \/ Shutdown
    BY <1>8 DEF Signal, Shutdown, GracefulStop, PoolClose, PoolWait, CloseSink,
       ServerGoes, TypeOK
  <1>9. CASE Crash
    <2>1. Range(queue) \subseteq Events /\ Held \subseteq Events
      BY RangeOfSeq DEF TypeOK, Held
    <2> QED BY <1>9, <2>1 DEF Crash, TypeOK
  <1>10. CASE UNCHANGED vars
    BY <1>10 DEF vars, TypeOK
  <1> QED
    BY <1>1, <1>2, <1>3, <1>4, <1>5, <1>6, <1>7, <1>8, <1>9, <1>10
       DEF Next, Push, Work

\* The channel never holds more than its capacity, a worker never more than
\* one event, and Push never deals with more events than its request has.
THEOREM TypeCorrect == Spec => []TypeOK
  BY TypeInit, TypeStep, PTL DEF Spec

----------------------------------------------------------------------------
(* Sequences without repetitions.                                          *)

\* A send adds the event at the end of the channel.
LEMMA AppendOne ==
    ASSUME NEW S, NEW s \in Seq(S), NEW e \in S
    PROVE  /\ Range(Append(s, e)) = Range(s) \cup {e}
           /\ IsInjective(s) /\ e \notin Range(s) => IsInjective(Append(s, e))
  <1> DEFINE t == Append(s, e)
  <1>1. /\ t \in Seq(S) /\ Len(t) = Len(s) + 1 /\ Len(s) \in Nat
        /\ \A i \in 1..Len(s) : t[i] = s[i]
        /\ t[Len(s) + 1] = e
    BY AppendProperties, LenProperties
  <1>2. DOMAIN s = 1..Len(s) /\ DOMAIN t = 1..(Len(s) + 1)
    BY <1>1, LenProperties
  <1> HIDE DEF t
  <1>3. Range(t) = Range(s) \cup {e}
    BY <1>1, <1>2 DEF Range
  <1>4. IsInjective(s) /\ e \notin Range(s) => IsInjective(t)
    BY <1>1, <1>2 DEF IsInjective, Range
  <1> QED BY <1>3, <1>4 DEF t

\* A receive takes the first event out of the channel.
LEMMA TakeOne ==
    ASSUME NEW S, NEW s \in Seq(S), s # <<>>
    PROVE  /\ Head(s) \in Range(s)
           /\ Range(s) = {Head(s)} \cup Range(Tail(s))
           /\ IsInjective(s) => IsInjective(Tail(s)) /\ Head(s) \notin Range(Tail(s))
  <1> DEFINE t == Tail(s)
  <1>1. /\ t \in Seq(S) /\ Len(t) = Len(s) - 1 /\ Len(s) \in Nat \ {0}
        /\ \A i \in 1..Len(t) : t[i] = s[i + 1]
        /\ Head(s) = s[1]
    BY HeadTailProperties, EmptySeq, LenProperties
  <1>2. DOMAIN s = 1..Len(s) /\ DOMAIN t = 1..(Len(s) - 1)
    BY <1>1, LenProperties
  <1> HIDE DEF t
  <1>3. \A i \in 2..Len(s) : i - 1 \in 1..Len(t) /\ s[i] = t[i - 1]
    BY <1>1
  <1>4. Head(s) \in Range(s) /\ Range(s) = {Head(s)} \cup Range(t)
    <2>1. Range(t) \subseteq Range(s) /\ Head(s) \in Range(s)
      BY <1>1, <1>2 DEF Range
    <2>2. ASSUME NEW x \in Range(s) PROVE x = Head(s) \/ x \in Range(t)
      <3>1. PICK i \in 1..Len(s) : x = s[i]
        BY <1>2 DEF Range
      <3>2. CASE i = 1
        BY <1>1, <3>1, <3>2
      <3>3. CASE i # 1
        <4>1. i \in 2..Len(s)
          BY <1>1, <3>3
        <4> QED BY <1>1, <1>2, <1>3, <3>1, <4>1 DEF Range
      <3> QED BY <3>2, <3>3
    <2> QED BY <2>1, <2>2
  <1>5. ASSUME IsInjective(s) PROVE IsInjective(t) /\ Head(s) \notin Range(t)
    <2>1. \A i, j \in 1..Len(s) : s[i] = s[j] => i = j
      BY <1>2, <1>5 DEF IsInjective
    <2>2. \A i \in 1..Len(t) : i + 1 \in 1..Len(s) /\ i + 1 # 1 /\ t[i] = s[i + 1]
      BY <1>1
    <2>3. \A i, j \in 1..Len(t) : t[i] = t[j] => i = j
      BY <1>1, <2>1, <2>2
    <2>4. \A i \in 1..Len(t) : t[i] # Head(s)
      BY <1>1, <2>1, <2>2
    <2> QED BY <1>1, <1>2, <2>3, <2>4 DEF IsInjective, Range
  <1> QED BY <1>4, <1>5 DEF t

\* A sequence of one event.
LEMMA OneEvent ==
    ASSUME NEW S, NEW s \in Seq(S), NEW t \in Seq(S), Len(t) = 1
    PROVE  /\ t[1] \in S /\ Range(t) = {t[1]}
           /\ s \o t = Append(s, t[1])
  <1>1. /\ DOMAIN t = {1} /\ t[1] \in S
    <2>1. DOMAIN t = 1..1 /\ t \in [1..1 -> S]
      BY LenProperties
    <2>2. 1..1 = {1}
      OBVIOUS
    <2> QED BY <2>1, <2>2
  <1>2. Range(t) = {t[1]}
    BY <1>1 DEF Range
  <1>3. t = <<t[1]>>
    BY <1>1, SeqEqual
  <1>4. s \o <<t[1]>> = Append(s, t[1])
    BY <1>1, AppendIsConcat
  <1> QED BY <1>1, <1>2, <1>3, <1>4

\* No event.
LEMMA NoEvent == Range(<<>>) = {} /\ IsInjective(<<>>)
  BY DEF Range, IsInjective

\* What a worker holds: one event while it is writing, otherwise none.
LEMMA InHand ==
    ASSUME TypeOK, NEW w \in Workers
    PROVE  IF worker[w] = "writing"
           THEN /\ hold[w][1] \in Events /\ Range(hold[w]) = {hold[w][1]}
                /\ log \o hold[w] = Append(log, hold[w][1])
           ELSE hold[w] = <<>> /\ Range(hold[w]) = {}
  <1>1. hold[w] \in Seq(Events) /\ log \in Seq(Events)
    BY DEF TypeOK
  <1>2. CASE worker[w] = "writing"
    BY <1>1, <1>2, OneEvent DEF TypeOK
  <1>3. CASE worker[w] # "writing"
    <2>1. hold[w] = <<>>
      BY <1>1, <1>3, EmptySeq DEF TypeOK
    <2> QED BY <1>3, <2>1, NoEvent
  <1> QED BY <1>2, <1>3

----------------------------------------------------------------------------
(* Where accepted events are.                                              *)

\* Push deals with the events of a request in order: none after the idx[c]-th
\* has an answer yet.
Dealt == \A e \in accepted \cup rejected : e[2] <= idx[e[1]]

\* Only a crash loses accepted events.
LostOnlyByCrash == server # "crashed" => lost = {}

\* No worker outlives a crash.
CrashEndsWorkers == server = "crashed" => \A w \in Workers : worker[w] = "exited"

\* Every step keeps it so.
LEMMA CrashEndsWorkersStep ==
    TypeOK /\ CrashEndsWorkers /\ [Next]_vars => CrashEndsWorkers'
  BY DEF TypeOK, CrashEndsWorkers, Next, Push, Work, Signal, Shutdown, PushBegins,
     Accept, Reject, PushReturns, ClientCancels, Receive, WriteSucceeds, WriteFails,
     ReadErrCount, WriteErrCount, WorkerExits, GracefulStop, PoolClose, PoolWait,
     CloseSink, ServerGoes, Crash, vars

\* AcceptedAccounted made inductive.
Accounting == AcceptedAccounted /\ Dealt /\ LostOnlyByCrash

HeldByOthers(w) == UNION {Range(hold[v]) : v \in Workers \ {w}}

\* What the workers hold, by worker.
LEMMA HeldSplit ==
    ASSUME NEW w \in Workers
    PROVE  Held = HeldByOthers(w) \cup Range(hold[w])
  BY DEF Held, HeldByOthers

\* What they hold after worker w has put s in the place of its event.
LEMMA HeldAfter ==
    ASSUME TypeOK, NEW w \in Workers, NEW s, hold' = [hold EXCEPT ![w] = s]
    PROVE  /\ Held' = HeldByOthers(w) \cup Range(s)
           /\ \A v \in Workers : Range(hold'[v]) = IF v = w THEN Range(s) ELSE Range(hold[v])
  <1>1. \A v \in Workers : hold'[v] = IF v = w THEN s ELSE hold[v]
    BY DEF TypeOK
  <1> QED BY <1>1 DEF Held, HeldByOthers

\* A send puts a new event at the end of the queue.
LEMMA AcceptMoves ==
    ASSUME TypeOK, Dealt, NEW c \in Calls, Accept(c)
    PROVE  LET e == <<c, idx[c] + 1>> IN
           /\ e \in Events /\ e \notin accepted \cup rejected
           /\ Range(queue') = Range(queue) \cup {e} /\ Held' = Held
           /\ IsInjective(queue) /\ e \notin Range(queue) => IsInjective(queue')
  <1> DEFINE e == <<c, idx[c] + 1>>
  <1>1. e \in Events /\ idx[c] \in Nat /\ queue \in Seq(Events)
    BY NextEvent DEF Accept, TypeOK
  <1>2. e \notin accepted \cup rejected
    BY <1>1 DEF Dealt
  <1>3. queue' = Append(queue, e) /\ Held' = Held
    BY DEF Accept, Held
  <1>4. /\ Range(queue') = Range(queue) \cup {e}
        /\ IsInjective(queue) /\ e \notin Range(queue) => IsInjective(queue')
    BY <1>1, <1>3, AppendOne
  <1> QED BY <1>1, <1>2, <1>3, <1>4

\* A receive moves the first event from the queue into the worker's hands.
LEMMA ReceiveMoves ==
    ASSUME TypeOK, NEW w \in Workers, Receive(w)
    PROVE  /\ Head(queue) \in Events
           /\ Range(queue) = {Head(queue)} \cup Range(queue')
           /\ IsInjective(queue) => IsInjective(queue') /\ Head(queue) \notin Range(queue')
           /\ Held' = Held \cup {Head(queue)}
           /\ \A v \in Workers : Range(hold'[v]) = IF v = w THEN {Head(queue)}
                                                           ELSE Range(hold[v])
  <1>1. queue \in Seq(Events) /\ queue # <<>> /\ queue' = Tail(queue)
    BY DEF TypeOK, Receive
  <1>2. Head(queue) \in Events
    BY <1>1, HeadTailProperties
  <1>3. Range(hold[w]) = {} /\ Range(<<Head(queue)>>) = {Head(queue)}
    BY InHand DEF Receive, Range
  <1>4. hold' = [hold EXCEPT ![w] = <<Head(queue)>>]
    BY DEF Receive
  <1>5. /\ Held' = HeldByOthers(w) \cup Range(<<Head(queue)>>)
        /\ \A v \in Workers : Range(hold'[v]) = IF v = w THEN Range(<<Head(queue)>>)
                                                        ELSE Range(hold[v])
    BY <1>4, HeldAfter
  <1> QED BY <1>1, <1>2, <1>3, <1>5, TakeOne, HeldSplit

\* A write, successful or not, takes the event out of the worker's hands.
LEMMA WriteMoves ==
    ASSUME TypeOK, AcceptedAccounted,
           NEW w \in Workers, WriteSucceeds(w) \/ WriteFails(w)
    PROVE  /\ hold[w][1] \in Events /\ Range(hold[w]) = {hold[w][1]}
           /\ log \o hold[w] = Append(log, hold[w][1])
           /\ Held = Held' \cup {hold[w][1]} /\ hold[w][1] \notin Held'
           /\ \A v \in Workers : Range(hold'[v]) = IF v = w THEN {} ELSE Range(hold[v])
  <1>1. /\ hold[w][1] \in Events /\ Range(hold[w]) = {hold[w][1]}
        /\ log \o hold[w] = Append(log, hold[w][1])
    BY InHand DEF WriteSucceeds, WriteFails
  <1>2. \A v \in Workers \ {w} : hold[w][1] \notin Range(hold[v])
    BY <1>1 DEF AcceptedAccounted
  <1>3. hold[w][1] \notin HeldByOthers(w)
    BY <1>2 DEF HeldByOthers
  <1>4. hold' = [hold EXCEPT ![w] = <<>>]
    BY DEF WriteSucceeds, WriteFails
  <1>5. /\ Held' = HeldByOthers(w) \cup Range(<<>>)
        /\ \A v \in Workers : Range(hold'[v]) = IF v = w THEN Range(<<>>) ELSE Range(hold[v])
    BY <1>4, HeldAfter
  <1>6. Held' = HeldByOthers(w)
    BY <1>5, NoEvent
  <1> QED BY <1>1, <1>3, <1>5, <1>6, NoEvent, HeldSplit

\* Nothing is accepted at the start.
LEMMA AccountingInit == Init => Accounting
  <1> SUFFICES ASSUME Init PROVE Accounting
    OBVIOUS
  <1>1. \A w \in Workers : Range(hold[w]) = {}
    BY NoEvent DEF Init
  <1>2. Held = {}
    BY <1>1 DEF Held
  <1> QED
    BY <1>1, <1>2, NoEvent DEF Init, Accounting, AcceptedAccounted, Dealt, LostOnlyByCrash

\* Every step keeps account of the accepted events.
LEMMA AccountingStep ==
    TypeOK /\ CrashEndsWorkers /\ Accounting /\ [Next]_vars => Accounting'
  <1> SUFFICES ASSUME TypeOK, CrashEndsWorkers, Accounting, [Next]_vars
               PROVE  Accounting'
    OBVIOUS
  <1> USE GatewayAssumption DEF callVars, sinkVars
  <1>0. /\ queue \in Seq(Events) /\ log \in Seq(Events)
        /\ accepted \subseteq Events /\ rejected \subseteq Events
    BY DEF TypeOK
  <1>1. ASSUME NEW c \in Calls, Accept(c) PROVE Accounting'
    <2>1. Dealt'
      BY <1>0, <1>1, NextEvent DEF Accept, Accounting, Dealt, TypeOK, Events
    <2>2. AcceptedAccounted'
      BY <1>1, AcceptMoves DEF Accept, Accounting, AcceptedAccounted
    <2> QED BY <1>1, <2>1, <2>2 DEF Accept, Accounting, LostOnlyByCrash
  <1>2. ASSUME NEW c \in Calls, Reject(c) PROVE Accounting'
    <2> DEFINE e == <<c, idx[c] + 1>>
    <2>1. e \in Events /\ idx[c] \in Nat
      BY <1>2, NextEvent DEF Reject, TypeOK
    <2>2. e \notin accepted
      BY <2>1 DEF Accounting, Dealt
    <2>4. Dealt'
      BY <1>0, <1>2, <2>1 DEF Reject, Accounting, Dealt, TypeOK, Events
    <2>5. Held' = Held
      BY <1>2 DEF Reject, Held
    <2>6. AcceptedAccounted'
      BY <1>2, <2>2, <2>5 DEF Reject, Accounting, AcceptedAccounted
    <2> QED BY <1>2, <2>4, <2>6 DEF Reject, Accounting, LostOnlyByCrash
  <1>3. ASSUME NEW w \in Workers, Receive(w) PROVE Accounting'
    <2>1. \A v \in Workers : Range(hold[v]) \subseteq Held
      BY DEF Held
    <2>2. \A u, v \in Workers : u # v => Range(hold'[u]) \cap Range(hold'[v]) = {}
      BY <1>3, <2>1, ReceiveMoves DEF Accounting, AcceptedAccounted
    <2>3. AcceptedAccounted'
      BY <1>3, <2>2, ReceiveMoves DEF Receive, Accounting, AcceptedAccounted
    <2> QED BY <1>3, <2>3 DEF Receive, Accounting, Dealt, LostOnlyByCrash
  <1>4. ASSUME NEW w \in Workers, WriteSucceeds(w) \/ WriteFails(w) PROVE Accounting'
    <2> DEFINE e == hold[w][1]
    <2>1. /\ e \in Events /\ Range(hold[w]) = {e} /\ log \o hold[w] = Append(log, e)
          /\ Held = Held' \cup {e} /\ e \notin Held'
          /\ \A v \in Workers : Range(hold'[v]) = IF v = w THEN {} ELSE Range(hold[v])
      BY <1>4, WriteMoves DEF Accounting
    <2> HIDE DEF e
    <2>2. e \notin Range(log) /\ e \notin Range(queue) /\ Range(queue) \cap Held = {}
      BY <2>1 DEF Accounting, AcceptedAccounted
    <2>3. /\ Range(Append(log, e)) = Range(log) \cup {e}
          /\ IsInjective(Append(log, e))
      BY <1>0, <2>1, <2>2, AppendOne DEF Accounting, AcceptedAccounted
    <2>4. /\ Range(log') \cup errored' = Range(log) \cup errored \cup {e}
          /\ IsInjective(log')
      BY <1>4, <2>1, <2>3 DEF WriteSucceeds, WriteFails, Accounting, AcceptedAccounted
    <2>5. UNCHANGED <<server, callVars, queue, lost>>
      BY <1>4 DEF WriteSucceeds, WriteFails
    <2>6. e \notin lost
      BY <1>4 DEF WriteSucceeds, WriteFails, CrashEndsWorkers, Accounting, LostOnlyByCrash
    <2>7. /\ accepted' = Range(queue') \cup Held' \cup Range(log') \cup errored' \cup lost'
          /\ (Range(queue') \cup Held' \cup lost') \cap (Range(log') \cup errored') = {}
          /\ Range(queue') \cap Held' = {}
      BY <2>1, <2>2, <2>4, <2>5, <2>6 DEF Accounting, AcceptedAccounted
    <2>8. \A u, v \in Workers : u # v => Range(hold'[u]) \cap Range(hold'[v]) = {}
      BY <2>1 DEF Accounting, AcceptedAccounted
    <2> QED
      BY <2>4, <2>5, <2>7, <2>8
         DEF Accounting, AcceptedAccounted, Dealt, LostOnlyByCrash
  <1>5. CASE Crash
    <2>1. lost = {}
      BY <1>5 DEF Crash, Accounting, LostOnlyByCrash
    <2>2. \A w \in Workers : Range(hold'[w]) = {}
      BY <1>5, NoEvent DEF Crash
    <2>3. Held' = {}
      BY <2>2 DEF Held
    <2> QED
      BY <1>5, <2>1, <2>2, <2>3, NoEvent
         DEF Crash, Accounting, AcceptedAccounted, Dealt, LostOnlyByCrash
  <1>6. CASE UNCHANGED <<server, queue, hold, log, idx, accepted, rejected, errored, lost>>
    BY <1>6 DEF Accounting, AcceptedAccounted, Dealt, LostOnlyByCrash, Held
  <1>7. CASE Signal \/ Shutdown
    BY <1>7 DEF Signal, Shutdown, GracefulStop, PoolClose, PoolWait, CloseSink,
       ServerGoes, Accounting, AcceptedAccounted, Dealt, LostOnlyByCrash, Held
  <1> QED
    BY <1>1, <1>2, <1>3, <1>4, <1>5, <1>6, <1>7
       DEF Next, Push, Work, PushBegins, PushReturns, ClientCancels, ReadErrCount,
           WriteErrCount, WorkerExits, vars

\* Accepted events are accounted for in every reachable state.
LEMMA AccountingHolds == Spec => []Accounting
  <1>1. Init => CrashEndsWorkers
    BY DEF Init, CrashEndsWorkers
  <1> QED
    BY <1>1, TypeInit, TypeStep, CrashEndsWorkersStep, AccountingInit,
       AccountingStep, PTL DEF Spec

\* Whatever order calls, workers, failing writes, shutdown and a crash come in,
\* an accepted event is in exactly one place until it is finished: the gateway
\* neither drops nor duplicates it on the way to the broker or to errFn.
THEOREM AcceptedEventsAccounted == Spec => []AcceptedAccounted
  <1>1. Accounting => AcceptedAccounted
    BY DEF Accounting
  <1> QED BY <1>1, AccountingHolds, PTL

----------------------------------------------------------------------------
(* The shutdown sequence.                                                  *)

\* After GracefulStop, and after a crash, no call is in progress.
CallsOver ==
    server \notin {"serving", "stopping"} => \A c \in Calls : call[c] # "running"

\* Every step keeps it so: GracefulStop waits for the calls in progress.
LEMMA CallsOverStep == TypeOK /\ CallsOver /\ [Next]_vars => CallsOver'
  BY DEF TypeOK, CallsOver, Next, Push, Work, Signal, Shutdown, PushBegins,
     Accept, Reject, PushReturns, ClientCancels, Receive, WriteSucceeds, WriteFails,
     ReadErrCount, WriteErrCount, WorkerExits, GracefulStop, PoolClose, PoolWait,
     CloseSink, ServerGoes, Crash, callVars, vars

\* It is so in every reachable state.
LEMMA CallsOverHolds == Spec => []CallsOver
  <1>1. Init => CallsOver
    BY DEF Init, CallsOver
  <1> QED BY <1>1, TypeInit, TypeStep, CallsOverStep, PTL DEF Spec

\* Pool.Close closes the channel only when no Push can send on it any more: a
\* send on a closed channel would panic the gateway.
THEOREM NoSendAfterClose == Spec => []NoSendOnClosed
  <1>1. CallsOver => NoSendOnClosed
    BY DEF CallsOver, NoSendOnClosed, QueueClosed
  <1> QED BY <1>1, CallsOverHolds, PTL

\* A worker leaves its loop only when the queue is closed and empty, which it
\* then stays, and Pool.Close waits for all of them.
WorkersOver ==
    /\ \A w \in Workers :
           worker[w] = "exited" => queue = <<>> /\ (QueueClosed \/ server = "crashed")
    /\ server \in {"flushing", "done"} => \A w \in Workers : worker[w] = "exited"

\* Every step keeps it so: no call is left that could fill the queue again.
LEMMA WorkersOverStep ==
    TypeOK /\ CallsOver /\ WorkersOver /\ [Next]_vars => WorkersOver'
  <1> SUFFICES ASSUME TypeOK, CallsOver, WorkersOver, [Next]_vars PROVE WorkersOver'
    OBVIOUS
  <1> USE DEF WorkersOver, QueueClosed, callVars, sinkVars
  <1>1. ASSUME NEW c \in Calls, Accept(c) PROVE WorkersOver'
    BY <1>1 DEF Accept, HasMore, CallsOver
  <1>2. ASSUME NEW w \in Workers, Work(w) PROVE WorkersOver'
    BY <1>2 DEF TypeOK, Work, Receive, WriteSucceeds, WriteFails, ReadErrCount,
       WriteErrCount, WorkerExits
  <1>3. CASE Signal \/ Shutdown
    BY <1>3 DEF Signal, Shutdown, GracefulStop, PoolClose, PoolWait, CloseSink, ServerGoes
  <1>4. CASE Crash
    BY <1>4 DEF Crash
  <1>5. CASE UNCHANGED <<server, queue, worker>>
    BY <1>5
  <1> QED
    BY <1>1, <1>2, <1>3, <1>4, <1>5
       DEF Next, Push, PushBegins, Reject, PushReturns, ClientCancels, vars

\* Workers leave and the queue is closed in order in every reachable state.
LEMMA WorkersOverHolds == Spec => []WorkersOver
  <1>1. Init => WorkersOver
    BY DEF Init, WorkersOver
  <1> QED BY <1>1, TypeInit, TypeStep, CallsOverHolds, WorkersOverStep, PTL DEF Spec

\* closeSink and the exit come after the last write: the gateway ends with an
\* empty queue and idle workers, and every accepted event is on the broker or
\* was reported to errFn.  (Without workers nobody would drain the queue.)
THEOREM CleanExit ==
    ASSUME Workers # {}
    PROVE  Spec => []ExitClean
  <1>1. TypeOK /\ WorkersOver /\ Accounting => ExitClean
    <2> SUFFICES ASSUME TypeOK, WorkersOver, Accounting, server \in {"flushing", "done"}
                 PROVE  /\ queue = <<>> /\ Held = {}
                        /\ accepted \subseteq Range(log) \cup errored
      BY DEF ExitClean
    <2>1. queue = <<>> /\ \A w \in Workers : worker[w] = "exited"
      BY DEF WorkersOver
    <2>2. Held = {}
      BY <2>1, InHand DEF Held
    <2> QED BY <2>1, <2>2, NoEvent DEF Accounting, AcceptedAccounted, LostOnlyByCrash
  <1> QED
    BY <1>1, TypeCorrect, WorkersOverHolds, AccountingHolds, PTL

----------------------------------------------------------------------------
(* How many events the gateway holds.                                      *)

\* A sequence has at most as many elements as it is long.
LEMMA RangeBound ==
    ASSUME NEW S, NEW s \in Seq(S)
    PROVE  IsFiniteSet(Range(s)) /\ Cardinality(Range(s)) <= Len(s)
  <1>1. Len(s) \in Nat /\ s \in [1..Len(s) -> S] /\ DOMAIN s = 1..Len(s)
    BY LenProperties
  <1>2. s \in Surjection(1..Len(s), Range(s))
    BY <1>1 DEF Surjection, Range
  <1>3. IsFiniteSet(1..Len(s)) /\ Cardinality(1..Len(s)) = Len(s)
    BY <1>1, FS_Interval
  <1> QED BY <1>2, <1>3, FS_Surjection

\* The workers hold at most one event each.
LEMMA HeldBound ==
    ASSUME TypeOK
    PROVE  IsFiniteSet(Held) /\ Cardinality(Held) <= Cardinality(Workers)
  <1> DEFINE W == {w \in Workers : worker[w] = "writing"}
             f == [w \in W |-> hold[w][1]]
  <1>1. Held = {f[w] : w \in W}
    BY InHand DEF Held
  <1>2. f \in Surjection(W, Held)
    BY <1>1 DEF Surjection
  <1>3. IsFiniteSet(W) /\ Cardinality(W) <= Cardinality(Workers)
    BY FS_Subset, GatewayAssumption
  <1>4. IsFiniteSet(Held) /\ Cardinality(Held) <= Cardinality(W)
    <2> HIDE DEF f, W
    <2> QED BY <1>2, <1>3, FS_Surjection
  <1>5. Cardinality(Held) \in Nat /\ Cardinality(W) \in Nat /\ Cardinality(Workers) \in Nat
    BY <1>3, <1>4, FS_CardinalityType, GatewayAssumption
  <1> QED BY <1>3, <1>4, <1>5

\* Queue and workers together.
LEMMA BacklogBound ==
    ASSUME TypeOK
    PROVE  /\ IsFiniteSet(Range(queue) \cup Held)
           /\ Cardinality(Range(queue) \cup Held) \in Nat
           /\ Cardinality(Range(queue) \cup Held) <= Len(queue) + Cardinality(Workers)
  <1>1. queue \in Seq(Events) /\ Len(queue) \in Nat
    BY LenProperties DEF TypeOK
  <1>2. IsFiniteSet(Range(queue)) /\ Cardinality(Range(queue)) <= Len(queue)
    BY <1>1, RangeBound
  <1>3. IsFiniteSet(Held) /\ Cardinality(Held) <= Cardinality(Workers)
    BY HeldBound
  <1>4. /\ IsFiniteSet(Range(queue) \cup Held)
        /\ Cardinality(Range(queue) \cup Held)
               = Cardinality(Range(queue)) + Cardinality(Held) - Cardinality(Range(queue) \cap Held)
    BY <1>2, <1>3, FS_Union
  <1>5. IsFiniteSet(Range(queue) \cap Held)
    BY <1>2, FS_Subset
  <1>6. /\ Cardinality(Range(queue)) \in Nat /\ Cardinality(Held) \in Nat
        /\ Cardinality(Range(queue) \cap Held) \in Nat
        /\ Cardinality(Range(queue) \cup Held) \in Nat /\ Cardinality(Workers) \in Nat
    BY <1>2, <1>3, <1>4, <1>5, FS_CardinalityType, GatewayAssumption
  <1> QED BY <1>1, <1>2, <1>3, <1>4, <1>6

\* However many calls were answered and however slow the broker is, a crash
\* takes no more accepted events than the queue and the workers can hold.
THEOREM CrashLossIsBounded == Spec => []CrashLossBounded
  <1>1. Init => CrashLossBounded
    <2>1. Cardinality(Workers) \in Nat
      BY FS_CardinalityType, GatewayAssumption
    <2> QED BY <2>1, FS_EmptySet, GatewayAssumption DEF Init, CrashLossBounded
  <1>2. TypeOK /\ CrashLossBounded /\ [Next]_vars => CrashLossBounded'
    <2> SUFFICES ASSUME TypeOK, CrashLossBounded, [Next]_vars PROVE CrashLossBounded'
      OBVIOUS
    <2>1. CASE Crash
      <3>1. Len(queue) \in Nat /\ Len(queue) <= QueueSize
        BY LenProperties DEF TypeOK
      <3>2. Cardinality(Workers) \in Nat
        BY FS_CardinalityType, GatewayAssumption
      <3> QED BY <2>1, <3>1, <3>2, BacklogBound, GatewayAssumption DEF Crash, CrashLossBounded
    <2>2. CASE UNCHANGED lost
      BY <2>2 DEF CrashLossBounded
    <2> QED
      BY <2>1, <2>2
         DEF Next, Push, Work, Signal, Shutdown, PushBegins, Accept, Reject,
             PushReturns, ClientCancels, Receive, WriteSucceeds, WriteFails,
             ReadErrCount, WriteErrCount, WorkerExits, GracefulStop, PoolClose,
             PoolWait, CloseSink, ServerGoes, sinkVars, vars
  <1> QED BY <1>1, <1>2, TypeInit, TypeStep, PTL DEF Spec

----------------------------------------------------------------------------
(* The gateway implements the bounded buffer.                              *)

\* The cardinality that the instance of Backpressure brings along is the same.
LEMMA SameCardinality == \A S : Backpressure!Cardinality(S) = Cardinality(S)
  BY DEF Backpressure!Cardinality, Cardinality

\* Each step of the gateway admits one event while there is room, finishes
\* one, is the crash, or is no step of the bounded buffer.
LEMMA StepIsBuffered ==
    ASSUME TypeOK, Accounting, [Next]_vars
    PROVE  [Backpressure!Next]_(Backpressure!bufferVars)
  <1> USE GatewayAssumption DEF callVars, sinkVars
  <1> DEFINE finished == accepted \ (Range(queue) \cup Held)
  <1>0. /\ queue \in Seq(Events) /\ Len(queue) \in Nat
        /\ Range(queue) \cup Held \subseteq accepted
    BY LenProperties DEF TypeOK, Accounting, AcceptedAccounted
  <1>1. ASSUME NEW c \in Calls, Accept(c) PROVE Backpressure!Next
    <2> DEFINE e == <<c, idx[c] + 1>>
    <2>1. /\ e \in Events /\ e \notin accepted
          /\ Range(queue') = Range(queue) \cup {e} /\ Held' = Held
          /\ accepted' = accepted \cup {e} /\ Len(queue) < QueueSize
      BY <1>1, AcceptMoves DEF Accounting, Accept, HasRoom
    <2> HIDE DEF e
    <2>2. finished' = finished
      BY <1>0, <2>1
    <2>3. accepted \ finished = Range(queue) \cup Held
      BY <1>0
    <2>4. Cardinality(Range(queue) \cup Held) < QueueSize + Cardinality(Workers)
      <3>1. Cardinality(Workers) \in Nat
        BY FS_CardinalityType
      <3> QED BY <1>0, <2>1, <3>1, BacklogBound
    <2>5. Cardinality(accepted \ finished) < QueueSize + Cardinality(Workers)
      BY <2>3, <2>4
    <2>6. Backpressure!Admit(e)
      BY <2>1, <2>2, <2>5, SameCardinality DEF Backpressure!Admit
    <2> QED BY <2>1, <2>6 DEF Backpressure!Next
  <1>2. ASSUME NEW w \in Workers, Receive(w) PROVE UNCHANGED <<accepted, finished>>
    <2>1. Range(queue') \cup Held' = Range(queue) \cup Held
      BY <1>2, ReceiveMoves
    <2>2. accepted' = accepted
      BY <1>2 DEF Receive
    <2> QED BY <2>1, <2>2
  <1>3. ASSUME NEW w \in Workers, WriteSucceeds(w) \/ WriteFails(w)
        PROVE  Backpressure!Next
    <2> DEFINE e == hold[w][1]
    <2>1. e \in Events /\ Held = Held' \cup {e} /\ e \notin Held'
      BY <1>3, WriteMoves DEF Accounting
    <2> HIDE DEF e
    <2>2. e \in accepted /\ e \notin Range(queue)
      BY <2>1 DEF Accounting, AcceptedAccounted
    <2>3. UNCHANGED <<accepted, queue>>
      BY <1>3 DEF WriteSucceeds, WriteFails
    <2>4. e \in accepted \ finished /\ finished' = finished \cup {e}
      BY <2>1, <2>2, <2>3
    <2> QED BY <2>1, <2>3, <2>4 DEF Backpressure!Next, Backpressure!Finish
  <1>4. CASE Crash
    <2>1. Range(queue') = {} /\ \A w \in Workers : Range(hold'[w]) = {}
      BY <1>4, NoEvent DEF Crash
    <2>2. finished' = accepted /\ accepted' = accepted
      BY <1>4, <2>1 DEF Crash, Held
    <2> QED BY <2>2 DEF Backpressure!Next, Backpressure!Crash
  <1>5. CASE UNCHANGED <<accepted, queue, hold>>
    BY <1>5 DEF Held, Backpressure!bufferVars
  <1> QED
    BY <1>1, <1>2, <1>3, <1>4, <1>5
       DEF Next, Push, Work, Signal, Shutdown, PushBegins, Reject, PushReturns,
           ClientCancels, ReadErrCount, WriteErrCount, WorkerExits, GracefulStop,
           PoolClose, PoolWait, CloseSink, ServerGoes, vars, Backpressure!bufferVars

\* The pool with its Push handlers, workers, shutdown and crash is a bounded
\* buffer of -queue plus -workers events, for every number of each.
THEOREM GatewayImplementsBuffer == Spec => BoundedBuffer
  <1>1. Init => Backpressure!Init
    BY NoEvent DEF Init, Held, Backpressure!Init
  <1>2. TypeOK /\ Accounting /\ [Next]_vars => [Backpressure!Next]_(Backpressure!bufferVars)
    BY StepIsBuffered
  <1> QED
    BY <1>1, <1>2, TypeInit, TypeStep, AccountingHolds, PTL
       DEF Spec, BoundedBuffer, Backpressure!Safety

----------------------------------------------------------------------------
(* The error count that main() prints.                                     *)

\* Workers between a failed write and the end of errCount++.
Pending == {w \in Workers : worker[w] \in {"failed", "adding"}}

\* A lost update only makes errCount smaller: it lags behind the errors by at
\* least the increments under way, also after one of them writes back a stale
\* value; and it leaves zero with the first increment.
CountsErrors ==
    /\ IsFiniteSet(errored)
    /\ errCount + Cardinality(Pending) <= Cardinality(errored)
    /\ \A w \in Workers :
           worker[w] = "adding" => count[w] + Cardinality(Pending) <= Cardinality(errored)
    /\ errored # {} => errCount > 0 \/ Pending # {} \/ server = "crashed"

\* The workers in errFn are finitely many.
LEMMA PendingFinite ==
    /\ IsFiniteSet(Pending) /\ Cardinality(Pending) \in Nat
    /\ IsFiniteSet(Pending') /\ Cardinality(Pending') \in Nat
  <1>1. IsFiniteSet(Workers) /\ Pending \subseteq Workers /\ Pending' \subseteq Workers
    BY GatewayAssumption DEF Pending
  <1> QED BY <1>1, FS_Subset, FS_CardinalityType

\* A failed write adds one error and one worker in errFn.
LEMMA FailureCounts ==
    ASSUME TypeOK, Accounting, IsFiniteSet(errored), NEW w \in Workers, WriteFails(w)
    PROVE  /\ IsFiniteSet(errored') /\ Cardinality(errored') = Cardinality(errored) + 1
           /\ Cardinality(Pending') = Cardinality(Pending) + 1
  <1>1. /\ Range(hold[w]) = {hold[w][1]} /\ hold[w][1] \in Held
    BY WriteMoves DEF Accounting
  <1>2. hold[w][1] \notin errored /\ errored' = errored \cup {hold[w][1]}
    BY <1>1 DEF WriteFails, Accounting, AcceptedAccounted
  <1>3. Pending' = Pending \cup {w} /\ w \notin Pending
    BY DEF WriteFails, Pending, TypeOK
  <1> QED BY <1>2, <1>3, PendingFinite, FS_AddElement

\* The end of errCount++ takes its worker out of errFn.
LEMMA WriteBackCounts ==
    ASSUME TypeOK, NEW w \in Workers, WriteErrCount(w)
    PROVE  /\ Cardinality(Pending') = Cardinality(Pending) - 1
           /\ Cardinality(Pending) >= 1
  <1>1. Pending' = Pending \ {w} /\ w \in Pending
    BY DEF WriteErrCount, Pending, TypeOK
  <1>2. Cardinality(Pending') = Cardinality(Pending) - 1
    BY <1>1, PendingFinite, FS_RemoveElement
  <1> QED BY <1>2, PendingFinite

\* Every step keeps the bounds on errCount.
LEMMA CountsErrorsStep ==
    TypeOK /\ Accounting /\ CountsErrors /\ [Next]_vars => CountsErrors'
  <1> SUFFICES ASSUME TypeOK, Accounting, CountsErrors, [Next]_vars PROVE CountsErrors'
    OBVIOUS
  <1> USE DEF callVars, sinkVars
  <1>0. /\ IsFiniteSet(errored) /\ Cardinality(errored) \in Nat /\ Cardinality(Pending) \in Nat
        /\ errCount \in Nat /\ \A w \in Workers : count[w] \in Nat
    BY PendingFinite, FS_CardinalityType DEF CountsErrors, TypeOK
  <1>1. ASSUME NEW w \in Workers, WriteFails(w) PROVE CountsErrors'
    <2>1. w \in Pending'
      BY <1>1 DEF WriteFails, Pending, TypeOK
    <2>2. \A v \in Workers : worker'[v] = "adding" => worker[v] = "adding"
      BY <1>1 DEF WriteFails, TypeOK
    <2>3. UNCHANGED <<errCount, count>>
      BY <1>1 DEF WriteFails
    <2> QED BY <1>0, <1>1, <2>1, <2>2, <2>3, FailureCounts DEF CountsErrors
  <1>2. ASSUME NEW w \in Workers, ReadErrCount(w) PROVE CountsErrors'
    <2>1. Pending' = Pending /\ UNCHANGED <<errCount, errored, server>>
      BY <1>2 DEF ReadErrCount, Pending, TypeOK
    <2>2. \A v \in Workers : worker'[v] = "adding" =>
              IF v = w THEN count'[v] = errCount
                       ELSE worker[v] = "adding" /\ count'[v] = count[v]
      BY <1>2 DEF ReadErrCount, TypeOK
    <2> QED BY <1>0, <2>1, <2>2 DEF CountsErrors
  <1>3. ASSUME NEW w \in Workers, WriteErrCount(w) PROVE CountsErrors'
    <2>1. errored' = errored /\ errCount' = count[w] + 1 /\ worker[w] = "adding"
      BY <1>3 DEF WriteErrCount
    <2>2. \A v \in Workers : worker'[v] = "adding" =>
              worker[v] = "adding" /\ count'[v] = count[v]
      BY <1>3 DEF WriteErrCount, TypeOK
    <2> QED BY <1>0, <1>3, <2>1, <2>2, WriteBackCounts DEF CountsErrors
  <1>4. CASE Crash
    <2>1. Pending' = {} /\ \A w \in Workers : worker'[w] # "adding"
      BY <1>4 DEF Crash, Pending
    <2>2. Cardinality(Pending') = 0
      BY <2>1, FS_EmptySet
    <2> QED BY <1>0, <1>4, <2>1, <2>2 DEF Crash, CountsErrors
  <1>5. ASSUME UNCHANGED <<count, errCount, errored>>, server' = "crashed" <=> server = "crashed",
               \A w \in Workers : \/ worker'[w] = worker[w]
                                  \/ {worker[w], worker'[w]} \cap {"failed", "adding"} = {}
        PROVE  CountsErrors'
    <2>1. Pending' = Pending /\ \A w \in Workers : worker'[w] = "adding" => worker[w] = "adding"
      BY <1>5 DEF Pending
    <2> QED BY <1>5, <2>1 DEF CountsErrors
  <1>6. ASSUME NEW w \in Workers, Receive(w) \/ WriteSucceeds(w) \/ WorkerExits(w)
        PROVE  CountsErrors'
    BY <1>5, <1>6 DEF Receive, WriteSucceeds, WorkerExits, TypeOK
  <1>7. CASE Signal \/ Shutdown
    BY <1>5, <1>7 DEF Signal, Shutdown, GracefulStop, PoolClose, PoolWait, CloseSink, ServerGoes
  <1> QED
    BY <1>1, <1>2, <1>3, <1>4, <1>5, <1>6, <1>7
       DEF Next, Push, Work, PushBegins, Accept, Reject, PushReturns, ClientCancels, vars

\* errCount is bounded by the errors in every reachable state.
LEMMA CountsErrorsHolds == Spec => []CountsErrors
  <1>1. Init => CountsErrors
    <2> SUFFICES ASSUME Init PROVE CountsErrors
      OBVIOUS
    <2>1. Pending = {} /\ errored = {} /\ errCount = 0 /\ \A w \in Workers : worker[w] # "adding"
      BY DEF Init, Pending
    <2> QED BY <2>1, FS_EmptySet DEF CountsErrors
  <1> QED
    BY <1>1, TypeInit, TypeStep, AccountingHolds, CountsErrorsStep, PTL DEF Spec

\* When main() prints errCount no worker is in errFn any more.
LEMMA NonePendingAtExit ==
    ASSUME WorkersOver, server = "done"
    PROVE  Pending = {} /\ Cardinality(Pending) = 0
  <1>1. Pending = {}
    BY DEF WorkersOver, Pending
  <1> QED BY <1>1, FS_EmptySet

\* Although errFn increments errCount without synchronisation, for any number
\* of workers main() never prints more errors than there were, nor zero when
\* there was one.
THEOREM ErrCountIsBounded == Spec => []ErrCountBounds
  <1>1. TypeOK /\ WorkersOver /\ CountsErrors => ErrCountBounds
    <2> SUFFICES ASSUME TypeOK, WorkersOver, CountsErrors PROVE ErrCountBounds
      OBVIOUS
    <2>1. errCount \in Nat /\ Cardinality(errored) \in Nat /\ Cardinality(Pending) \in Nat
      BY PendingFinite, FS_CardinalityType DEF CountsErrors, TypeOK
    <2>2. server = "done" => Pending = {}
      BY NonePendingAtExit
    <2> QED BY <2>1, <2>2 DEF CountsErrors, ErrCountBounds
  <1> QED
    BY <1>1, TypeCorrect, WorkersOverHolds, CountsErrorsHolds, PTL
=============================================================================
