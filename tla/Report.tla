------------------------------- MODULE Report -------------------------------
(***************************************************************************)
(* The results directory, the commands that write measurements into it     *)
(* (cmd/loadgen through results.WriteJSON, and the phase scripts) and      *)
(* cmd/report, which loads it, rewrites the section of a README between    *)
(* two markers and draws the charts.  A measurement may be killed while it *)
(* writes its file, the reporter at any step.                              *)
(*                                                                         *)
(* A file is named by its kind, its phase, its number n (concurrency or    *)
(* replicas) and the second ts it was written in.  A throughput or a       *)
(* verdict is its value; latencies, row counts and machine tags go with it *)
(* unchanged and are left out.                                             *)
(***************************************************************************)
EXTENDS Integers, Sequences, FiniteSets, SequencesExt

CONSTANTS
    Measurements,   \* what the benchmarks may measure
    Readmes,        \* the token sequences the -readme file may hold
    LatencyPhase,   \* -latency-phase
    MaxTime,        \* bound on the clock
    MaxFiles        \* bound on the number of result files

Tests  == {"losstest", "correctness", "backpressure"}
Kinds  == Tests \cup {"sweep", "blocked", "scaling"}
Charts == {"concurrency", "latency", "replicas"}
Tokens == {"text", "BEGIN", "table", "END"}

\* The phase in the names that Load looks for; a sweep may be of any phase.
PhaseOf == [losstest |-> 1, correctness |-> 2, backpressure |-> 3,
            blocked |-> 4, scaling |-> 4]

ASSUME ReportAssumption ==
    /\ \A m \in Measurements :
           /\ DOMAIN m = {"kind", "phase", "n", "real", "value"}
           /\ m.kind \in Kinds /\ m.phase \in 0..9 /\ m.n \in Nat
           /\ m.real \in BOOLEAN /\ m.value \in Nat
           /\ m.kind # "sweep" => m.phase = PhaseOf[m.kind]
           /\ m.kind \in Tests => m.n = 0
    /\ Readmes \subseteq Seq(Tokens)
    /\ MaxTime \in Nat \ {0} /\ MaxFiles \in Nat

VARIABLES
    clock,     \* second of the latest measurement
    files,     \* the results directory
    pc,        \* where cmd/report is
    rep,       \* the Report it loaded
    readme,    \* tokens of the README
    shown,     \* what the table of the README shows
    chart,     \* chart[c]: the points drawn in the PNG
    outcome    \* outcome[c]: what the last process did about chart c

vars == <<clock, files, pc, rep, readme, shown, chart, outcome>>

NoFile == [ts |-> 0, value |-> 0, real |-> FALSE]
NoReport ==
    [sweeps |-> <<>>, test |-> [t \in Tests |-> NoFile], measured |-> FALSE,
     blocked |-> FALSE, points |-> <<>>]

Init ==
    /\ clock = 1 /\ files = {} /\ pc = "ended" /\ rep = NoReport
    /\ readme \in Readmes /\ shown = NoReport
    /\ chart = [c \in Charts |-> {}]
    /\ outcome = [c \in Charts |-> "none"]

----------------------------------------------------------------------------
(* The results directory.                                                  *)

SameName(f, g) ==
    /\ f.kind = g.kind /\ f.phase = g.phase /\ f.n = g.n /\ f.ts = g.ts

\* A file of the same second and prefix is overwritten.  Nothing is measured
\* after a torn file, which already makes every Load fail (a bound).
WriteJSON(m, whole) ==
    /\ Cardinality(files) < MaxFiles /\ \A f \in files : f.whole
    /\ clock' \in clock..MaxTime
    /\ LET f == [kind |-> m.kind, phase |-> m.phase, n |-> m.n, real |-> m.real,
                 value |-> m.value, ts |-> clock', whole |-> whole]
       IN files' = {g \in files : ~SameName(f, g)} \cup {f}
    /\ UNCHANGED <<pc, rep, readme, shown, chart, outcome>>

Measure == \E m \in Measurements : WriteJSON(m, TRUE)

\* The measurement is killed, or the disk is full, in the middle of WriteFile.
MeasureTorn == \E m \in Measurements : WriteJSON(m, FALSE)

----------------------------------------------------------------------------
(* Load: the files in the order of their names, then the two sorts.        *)

\* Position of a kind among the names of its phase: "_backpressure_" before
\* "_c8", "_c8" before "_correctness_" and "_losstest_"; "_scaling_2026..."
\* before "_scaling_r1".
Rank(f) ==
    CASE f.kind = "backpressure" -> 1
      [] f.kind = "sweep"        -> 2
      [] f.kind \in {"correctness", "losstest"} -> 3
      [] f.kind = "blocked"      -> 4
      [] f.kind = "scaling"      -> 5

\* Names that differ only in n are put in order by the sorts of Load; their
\* order here is that of one digit.
NameBefore(f, g) ==
    LET name(x) == <<x.phase, Rank(x), x.n, x.ts>>
    IN \E i \in 1..4 :
           name(f)[i] < name(g)[i] /\ \A j \in 1..i-1 : name(f)[j] = name(g)[j]

\* Mutant: the first file of a test is kept.
LoadTestOnce(r, f) ==
    IF r.test[f.kind] = NoFile THEN [r EXCEPT !.test[f.kind] = f] ELSE r

\* The last file, in the order of the names, replaces the ones before it.
LoadTest(r, f) == [r EXCEPT !.test[f.kind] = f]

\* A BLOCKED file replaces what is known of the scaling, a measured point is
\* added to it, and Blocked stays as it is.
LoadFile(r, f) ==
    CASE f.kind = "sweep"   -> [r EXCEPT !.sweeps = Append(@, f)]
      [] f.kind \in Tests   -> LoadTest(r, f)
      [] f.kind = "blocked" -> [r EXCEPT !.measured = TRUE, !.blocked = TRUE,
                                         !.points = <<>>]
      [] f.kind = "scaling" -> [r EXCEPT !.measured = TRUE,
                                         !.points = Append(@, f)]

SweepLess(s, t) == s.phase < t.phase \/ (s.phase = t.phase /\ s.n < t.n)
PointLess(s, t) == s.n < t.n

\* The ways to list S in order.
InOrder(S, _\prec_) ==
    {s \in SetToSeqs(S) : \A i, j \in DOMAIN s : i < j => ~(s[j] \prec s[i])}

\* Load returns r after the two calls of sort.Slice, which promises nothing
\* about the order of equal elements.
SortAndReturn(r) ==
    \E a \in InOrder(ToSet(r.sweeps), SweepLess),
       b \in InOrder(ToSet(r.points), PointLess) :
        rep' = [r EXCEPT !.sweeps = a, !.points = b]

\* The loop over what os.ReadDir lists by name, then the sorts.
LoadReport ==
    \E s \in InOrder(files, NameBefore) : SortAndReturn(FoldLeft(LoadFile, NoReport, s))

\* Mutant: a report is made without any sweep.
AllReadable == \A f \in files : f.whole

\* One unreadable file, or no sweep, and there is no report.
Loadable ==
    /\ \A f \in files : f.whole
    /\ \E f \in files : f.kind = "sweep"

----------------------------------------------------------------------------
(* Headlines and the table.                                                *)

\* RealInfra of the sweeps that the real-infra headline is about.
RealInfra == {TRUE}

\* The first of these sweeps with the highest throughput; NoFile if all are zero.
Peak(sweeps, infra) ==
    FoldLeft(LAMBDA best, s : IF s.real \in infra /\ s.value > best.value THEN s ELSE best,
             NoFile, sweeps)

\* Mutant: the throughput of the first point is not looked at.
ComparesAny(r) == ~r.blocked /\ Len(r.points) >= 2

\* Is the throughput of the last point divided by that of the first?
Compares(r) == ~r.blocked /\ Len(r.points) >= 2 /\ r.points[1].value > 0

\* The scaling factor is given by the replica counts it compares.
Headlines(r) ==
    [peak      |-> Peak(r.sweeps, BOOLEAN),
     realPeak  |-> Peak(r.sweeps, RealInfra),
     zeroLoss  |-> r.test["losstest"].value = 1,
     dedup     |-> r.test["correctness"].value = 1,
     scaling   |-> IF Compares(r) THEN {r.points[1].n, r.points[Len(r.points)].n}
                                  ELSE {}]

\* A blocked scaling run is rendered as a message and a row of dashes.
RenderMarkdown(r) == [r EXCEPT !.points = IF r.blocked THEN <<>> ELSE @]

First(s, token) == SelectInSeq(s, LAMBDA t : t = token)

HasMarkers(s) == 0 < First(s, "BEGIN") /\ First(s, "BEGIN") < First(s, "END")

\* Mutant: the old end marker is not cut out.
ReplaceBeforeEnd(s) ==
    SubSeq(s, 1, First(s, "BEGIN") - 1) \o <<"BEGIN", "table", "END">>
        \o SubSeq(s, First(s, "END"), Len(s))

ReplaceBetweenMarkers(s) ==
    SubSeq(s, 1, First(s, "BEGIN") - 1) \o <<"BEGIN", "table", "END">>
        \o SubSeq(s, First(s, "END") + 1, Len(s))

----------------------------------------------------------------------------
(* The charts.  An empty set of points is an error: the chart is skipped.  *)

ReplicaPoints(r) == IF r.measured /\ ~r.blocked THEN ToSet(r.points) ELSE {}

ChartPoints(c, r) ==
    CASE c = "concurrency" -> ToSet(r.sweeps)
      [] c = "latency"     -> {s \in ToSet(r.sweeps) : s.phase = LatencyPhase}
      [] c = "replicas"    -> ReplicaPoints(r)

\* A logarithmic axis panics on a throughput of zero.
Panics(c) == c = "concurrency" /\ \E s \in ToSet(rep.sweeps) : s.value = 0

ChartWritten(c) ==
    /\ ChartPoints(c, rep) # {} /\ ~Panics(c)
    /\ chart' = [chart EXCEPT ![c] = ChartPoints(c, rep)]
    /\ outcome' = [outcome EXCEPT ![c] = "written"]

ChartSkipped(c) ==
    /\ ChartPoints(c, rep) = {}
    /\ outcome' = [outcome EXCEPT ![c] = "skipped"]
    /\ UNCHANGED chart

\* The old PNG is still there, or it has been truncated and not written.
Truncated(c) == chart' \in {chart, [chart EXCEPT ![c] = {}]}

\* savePNG fails.
ChartFails(c) ==
    /\ ChartPoints(c, rep) # {} /\ ~Panics(c)
    /\ Truncated(c)
    /\ outcome' = [outcome EXCEPT ![c] = "failed"]

----------------------------------------------------------------------------
(* main() of cmd/report.                                                   *)

Over == {"ended", "failed", "panicked", "killed"}

\* main moves on, or the process is over and its report gone.
Goes(from, to) ==
    /\ pc \in from /\ pc' = to
    /\ rep' = IF to \in Over THEN NoReport ELSE rep
    /\ UNCHANGED <<clock, files>>

Load ==
    /\ pc \in Over /\ Loadable
    /\ pc' = "loaded"
    /\ LoadReport
    /\ outcome' = [c \in Charts |-> "none"]
    /\ UNCHANGED <<clock, files, readme, shown, chart>>

LoadFails ==
    ~Loadable /\ Goes(Over, "failed") /\ UNCHANGED <<readme, shown, chart, outcome>>

UpdateReadme ==
    /\ HasMarkers(readme) /\ Goes({"loaded"}, "concurrency")
    /\ readme' = ReplaceBetweenMarkers(readme)
    /\ shown' = RenderMarkdown(rep)
    /\ UNCHANGED <<chart, outcome>>

UpdateRefused ==
    /\ ~HasMarkers(readme) /\ Goes({"loaded"}, "failed")
    /\ UNCHANGED <<readme, shown, chart, outcome>>

\* os.WriteFile truncates and writes: killed in between, or on a full disk, a
\* prefix is left.
UpdateTorn ==
    /\ HasMarkers(readme) /\ Goes({"loaded"}, "killed")
    /\ readme' \in Prefixes(ReplaceBetweenMarkers(readme))
    /\ shown' = IF HasMarkers(readme') THEN RenderMarkdown(rep) ELSE NoReport
    /\ UNCHANGED <<chart, outcome>>

AfterChart == [concurrency |-> "latency", latency |-> "replicas", replicas |-> "ended"]

Draw(c) ==
    /\ Goes({c}, AfterChart[c])
    /\ ChartWritten(c) \/ ChartSkipped(c) \/ ChartFails(c)
    /\ UNCHANGED <<readme, shown>>

\* Nothing recovers the panic: the charts after this one are not drawn.
DrawPanics(c) ==
    /\ Panics(c) /\ Goes({c}, "panicked")
    /\ Truncated(c)
    /\ UNCHANGED <<readme, shown, outcome>>

Killed ==
    /\ Goes({"loaded"} \cup Charts, "killed")
    /\ UNCHANGED <<readme, shown, chart, outcome>>

Next ==
    \/ Measure \/ MeasureTorn
    \/ Load \/ LoadFails \/ UpdateReadme \/ UpdateRefused \/ UpdateTorn
    \/ \E c \in Charts : Draw(c) \/ DrawPanics(c)
    \/ Killed

Spec == Init /\ [][Next]_vars

----------------------------------------------------------------------------
(* Properties.                                                             *)

\* Every variable keeps its type; the results directory holds one file of a
\* name, and a loaded report has at least one sweep.
TypeOK ==
    /\ clock \in 1..MaxTime
    /\ \A f, g \in files : SameName(f, g) => f = g
    /\ \A f \in files : f.kind \in Kinds /\ f.ts \in 1..clock
    /\ pc \in {"loaded"} \cup Charts \cup Over
    /\ pc \notin Over => rep.sweeps # <<>>
    /\ readme \in Seq(Tokens)
    /\ outcome \in [Charts -> {"none", "written", "skipped", "failed"}]

\* Load keeps, of each test, the verdict of the latest second there is, by the
\* order of the file names alone; so the README never goes back to an older
\* verdict, whatever is measured, torn, killed or overwritten in between.
VerdictsCurrent ==
    [][/\ pc \in Over /\ pc' = "loaded" =>
              \A f \in files : f.kind \in Tests => rep'.test[f.kind].ts >= f.ts
       /\ HasMarkers(readme') =>
              \A t \in Tests : shown'.test[t].ts >= shown.test[t].ts]_vars

\* The headline numbers are those of the table: no sweep beats the peak, the
\* real-infra peak is a real run that no real run beats, the scaling factor
\* compares the fewest and the most replicas in the table and divides by a
\* throughput that is not zero, and none is claimed when the table shows a
\* blocked run.
HeadlinesHonest ==
    LET h == Headlines(rep)
        t == RenderMarkdown(rep)
        replicas == {p.n : p \in ToSet(t.points)}
    IN /\ \A s \in ToSet(t.sweeps) :
              s.value <= h.peak.value /\ (s.real => s.value <= h.realPeak.value)
       /\ h.realPeak # NoFile => h.realPeak.real /\ h.realPeak \in ToSet(t.sweeps)
       /\ h.scaling # {} =>
              /\ h.scaling = {Min(replicas), Max(replicas)}
              /\ \E p \in ToSet(t.points) : p.n = Min(replicas) /\ p.value > 0

\* The text of a README around its results section.
Outside(s) ==
    IF HasMarkers(s)
    THEN <<SubSeq(s, 1, First(s, "BEGIN") - 1), SubSeq(s, First(s, "END") + 1, Len(s))>>
    ELSE <<s>>

\* What stands outside the markers is never touched: only a process killed
\* in the middle of os.WriteFile can lose it.
ReadmeKept == [][UpdateTorn \/ Outside(readme') = Outside(readme)]_vars

\* The data of chart c that the table of the README shows.
InTable(c) ==
    CASE c = "concurrency" -> ToSet(shown.sweeps)
      [] c = "latency"     -> {s \in ToSet(shown.sweeps) : s.phase = LatencyPhase}
      [] c = "replicas"    -> ToSet(shown.points)

\* The charts are regenerated alongside the table, each independently of the
\* others: when a report comes to its end and nobody killed it, every chart
\* that could be saved shows what the table shows.
ChartsRegenerated ==
    pc \in {"ended", "panicked"} =>
        \A c \in Charts : chart[c] = InTable(c) \/ outcome[c] = "failed"
=============================================================================
