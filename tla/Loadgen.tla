------------------------------ MODULE Loadgen ------------------------------
(***************************************************************************)
(* The load generator (internal/loadgen) and the gateway it measures.      *)
(* -concurrency goroutines issue one Push after another on a context that  *)
(* ends with the measurement, and add up what the answers say.             *)
(*                                                                         *)
(* A call is <<g, k>>: the k-th Push of goroutine g.  Calls bounds how     *)
(* many each one issues.  Latencies and the pacing by -rate only delay a   *)
(* call and are left out.                                                  *)
(***************************************************************************)
EXTENDS Gateway

CONSTANTS
    BatchSize,   \* -batch-size
    Devices      \* -devices

\* A goroutine numbers its calls from 1, and fills every batch.
ASSUME LoadgenAssumption ==
    /\ BatchSize \in Nat /\ Devices \in Nat
    /\ \A c \in Calls : c = <<c[1], c[2]>> /\ c[2] \in Nat \ {0}
    /\ \A c \in Calls : Size[c] = BatchSize

VARIABLES
    client,       \* client[g]: "looping", "calling", "ended"
    made,         \* made[g]: number of calls g has issued
    expired,      \* runCtx is done
    eventsAccepted, eventsRejected, errs   \* the atomic counters of Run

loadVars == <<client, made, expired, eventsAccepted, eventsRejected, errs>>
allVars == <<vars, loadVars>>

Goroutines == {c[1] : c \in Calls}

LoadInit ==
    /\ Init
    /\ client = [g \in Goroutines |-> "looping"]
    /\ made = [g \in Goroutines |-> 0]
    /\ expired = FALSE
    /\ eventsAccepted = 0 /\ eventsRejected = 0 /\ errs = 0

\* The call g waits for.
Current(g) == <<g, made[g]>>

\* The events of call c among events: resp.Accepted or resp.Rejected.
CountOf(c, events) == Cardinality({e \in events : e[1] = c})

\* The device of an event: a goroutine goes round the devices with its seq.
DeviceOf(e) ==
    LET seq == (e[1][2] - 1) * BatchSize + e[2]
    IN  seq % (IF Devices < 1 THEN 1 ELSE Devices)

----------------------------------------------------------------------------
(* Run, one goroutine per g.                                               *)

Issue(g) ==
    /\ client[g] = "looping" /\ ~expired
    /\ <<g, made[g] + 1>> \in Calls
    /\ client' = [client EXCEPT ![g] = "calling"]
    /\ made' = [made EXCEPT ![g] = @ + 1]
    /\ UNCHANGED <<vars, expired, eventsAccepted, eventsRejected, errs>>

\* Mutant: the batch counts as accepted, whatever the answer says.
AnswerIsBatch(g) ==
    /\ client[g] = "calling" /\ call[Current(g)] = "returned"
    /\ eventsAccepted' = eventsAccepted + BatchSize
    /\ client' = [client EXCEPT ![g] = "looping"]
    /\ UNCHANGED <<vars, made, expired, eventsRejected, errs>>

Answer(g) ==
    /\ client[g] = "calling" /\ call[Current(g)] = "returned"
    /\ eventsAccepted' = eventsAccepted + CountOf(Current(g), accepted)
    /\ eventsRejected' = eventsRejected + CountOf(Current(g), rejected)
    /\ client' = [client EXCEPT ![g] = "looping"]
    /\ UNCHANGED <<vars, made, expired, errs>>

\* Push returns an error: nothing is known of the events of the batch.
CallFails(g) ==
    /\ client[g] = "calling"
    /\ errs' = errs + 1
    /\ client' = [client EXCEPT ![g] = "looping"]
    /\ UNCHANGED <<vars, made, expired, eventsAccepted, eventsRejected>>

\* Mutant: Push is called with a context of its own.
DeadlineIgnored(g) == FALSE /\ CallFails(g)

\* runCtx ends a call in progress.
DeadlineExceeded(g) == expired /\ CallFails(g)

Ends(g) ==
    /\ client[g] = "looping" /\ expired
    /\ client' = [client EXCEPT ![g] = "ended"]
    /\ UNCHANGED <<vars, made, expired, eventsAccepted, eventsRejected, errs>>

\* Warmup and Duration have passed.
Expires ==
    /\ ~expired /\ expired' = TRUE
    /\ UNCHANGED <<vars, client, made, eventsAccepted, eventsRejected, errs>>

----------------------------------------------------------------------------
(* The gateway's side of a call.  The request of an issued call may arrive *)
(* late or not at all; its context ends only after the client gave it up.  *)

Arrives(c) == c[2] <= made[c[1]] /\ PushBegins(c) /\ UNCHANGED loadVars

GivenUp(c) == expired \/ client[c[1]] # "calling" \/ Current(c[1]) # c

Handle(c) == (Accept(c) \/ Reject(c) \/ PushReturns(c)) /\ UNCHANGED loadVars

Hangup(c) == GivenUp(c) /\ ClientCancels(c) /\ UNCHANGED loadVars

Serve(w) == Work(w) /\ UNCHANGED loadVars

Stop == Shutdown /\ UNCHANGED loadVars

LoadNext ==
    \/ \E g \in Goroutines :
           Issue(g) \/ Answer(g) \/ CallFails(g) \/ DeadlineExceeded(g) \/ Ends(g)
    \/ Expires
    \/ \E c \in Calls : Arrives(c) \/ Handle(c) \/ Hangup(c)
    \/ \E w \in Workers : Serve(w)
    \/ (Signal \/ Crash) /\ UNCHANGED loadVars
    \/ Stop

LoadSpec == LoadInit /\ [][LoadNext]_allVars

\* A handler runs, and a client goroutine does not wait beyond its context.
\* No request has to arrive, no answer has to reach the client, no call has
\* to fail, and no worker has to take an event.
LoadShedSpec ==
    /\ LoadSpec
    /\ \A c \in Calls : WF_allVars(Handle(c))
    /\ \A g \in Goroutines : WF_allVars(DeadlineExceeded(g) \/ Ends(g))

----------------------------------------------------------------------------
(* Properties.                                                             *)

Waiting == {g \in Goroutines : client[g] = "calling"}

\* What Run reports of the gateway: it never claims an event that was not
\* accepted (or shed), and it misses at most one batch for each error it
\* counted and each call still open.
ReportHonest ==
    LET open == BatchSize * (errs + Cardinality(Waiting)) IN
    /\ eventsAccepted <= Cardinality(accepted)
    /\ eventsRejected <= Cardinality(rejected)
    /\ Cardinality(accepted) + Cardinality(rejected)
           <= eventsAccepted + eventsRejected + open

\* A device's events stay ordered on its partition, to which KafkaSink sends
\* them by their key: at the least, those of one request that the client has
\* not given up are on the broker in the order of the request.
DeviceOrder ==
    \A i, j \in DOMAIN log :
        /\ i < j /\ log[i][1] \notin cancelled
        /\ log[i][1] = log[j][1]
        /\ DeviceOf(log[i]) = DeviceOf(log[j])
        => log[i][2] < log[j][2]

\* Run returns after the measurement, also from calls that backpressure
\* holds up or that the gateway never answers.
RunReturns == expired ~> \A g \in Goroutines : client[g] = "ended"
=============================================================================
