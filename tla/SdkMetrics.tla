----------------------------- MODULE SdkMetrics -----------------------------
(***************************************************************************)
(* The SDK's metrics on top of its client: calls of a counter, which send  *)
(* the counter's new value at once, and a histogram, which collects        *)
(* observations until the client's histogram loop takes a report of them.  *)
(* A report is sent metric by metric: a bucket per bound, the sum and the  *)
(* count.  One of them is followed through the client, the others go the   *)
(* same way.  Gauges differ from counters in what they do to the value.    *)
(* A histogram keeps its buckets per label set, and a flush of the set of  *)
(* the calls without labels assigns to a nil map: nothing recovers from    *)
(* that panic in the histogram loop, so the process ends.                  *)
(*                                                                         *)
(* A name ending in "_" and a word is a mutated form of the next           *)
(* definition, used to show that a property can fail.                      *)
(***************************************************************************)
EXTENDS SdkClient, FiniteSetsExt

CONSTANTS
    Adds,          \* metrics the counter sends: one call of Inc each
    MaxReports,    \* bound: reports of the histogram
    ReportMetric,  \* the metric followed of each report
    Observed,      \* per call of Observe: its value
    Before,        \* per call of Observe: the calls its goroutine makes before it
    LabelSets,     \* the label sets the histogram is observed with
    NoLabels,      \* the one of the calls without labels
    Labels,        \* per call of Observe: its label set
    Bounds,        \* the upper bounds of the buckets
    Infinity       \* stands for the bound of the count, which has none

ASSUME MetricsConstants ==
    /\ MaxReports \in Nat
    /\ Metrics = Adds \cup {ReportMetric[n] : n \in 1 .. MaxReports}
    /\ \A n \in 1 .. MaxReports : ReportMetric[n] \notin Adds
    /\ \A o \in DOMAIN Observed : Observed[o] <= Infinity
    /\ NoLabels \in LabelSets
    /\ Labels \in [DOMAIN Observed -> LabelSets]

VARIABLES
    total,         \* the counter's value
    captured,      \* per call of Inc: the value it read under the lock
    value,         \* per call of Inc: the value it sent
    observations,  \* calls of Observe that have returned
    counts,        \* per label set: observations per bucket, and in all, since the last report
    report,        \* how many reports have been taken
    reported,      \* per report: the counts in it
    panicked       \* a panic has ended the process

counter    == <<total, captured, value>>
histogram  == <<observations, counts, report, reported, panicked>>
metricVars == <<counter, histogram>>
sdkVars    == <<vars, metricVars>>

-----------------------------------------------------------------------------
(***************************************************************************)
(* Counter.                                                                *)
(***************************************************************************)
\* Under the counter's lock; the metric is sent after it.
Inc(a) ==
    /\ captured[a] = 0
    /\ total' = total + 1
    /\ captured' = [captured EXCEPT ![a] = total']
    /\ UNCHANGED <<vars, histogram, value>>

newValue_Unlocked(a) == total

newValue(a) == captured[a]

SendCounter(a) ==
    /\ captured[a] # 0
    /\ SendMetric(a)
    /\ value' = [value EXCEPT ![a] = newValue(a)]
    /\ UNCHANGED <<total, captured, histogram>>

-----------------------------------------------------------------------------
(***************************************************************************)
(* Histogram.                                                              *)
(***************************************************************************)
Buckets == Bounds \cup {Infinity}

NoCounts == [b \in Buckets |-> 0]

\* Every bucket whose bound is not below the value.
observe(set, v) == [b \in Buckets |-> set[b] + IF v <= b THEN 1 ELSE 0]

Observe(o) ==
    /\ o \notin observations
    /\ Before[o] \subseteq observations
    /\ observations' = observations \cup {o}
    /\ counts' = [counts EXCEPT ![Labels[o]] = observe(@, Observed[o])]
    /\ UNCHANGED <<vars, counter, report, reported, panicked>>

reset_CountOnly(set) == [set EXCEPT ![Infinity] = 0]

reset(set) == NoCounts

\* The goroutine of the call before is back in its loop.
ReportSent ==
    report > 0 => pc[ReportMetric[report]] \notin {"new", "add", "full"}

\* A tick of the histogram loop.
HistogramTick ==
    /\ pc["loop"] # "off"
    /\ ReportSent

\* A report is taken and the histogram reset, in one critical section; label sets
\* with nothing new are skipped.
FlushHistogram ==
    /\ HistogramTick
    /\ report < MaxReports
    /\ \E l \in LabelSets : counts[l][Infinity] # 0
    /\ counts[NoLabels][Infinity] = 0
    /\ report' = report + 1
    /\ reported' = [reported EXCEPT ![report + 1] = counts]
    /\ counts' = [l \in LabelSets |-> reset(counts[l])]
    /\ UNCHANGED <<vars, counter, observations, panicked>>

\* The labels of the calls without labels are a nil map, and so is its copy, to
\* which the bound of a bucket is to be added.
FlushPanics ==
    /\ HistogramTick
    /\ counts[NoLabels][Infinity] # 0
    /\ panicked' = TRUE
    /\ UNCHANGED <<vars, counter, observations, counts, report, reported>>

\* The report is sent even if the context ends meanwhile.
SendReport ==
    /\ report > 0
    /\ SendMetric(ReportMetric[report])
    /\ UNCHANGED metricVars

-----------------------------------------------------------------------------
SdkInit ==
    /\ Init
    /\ total = 0
    /\ captured = [a \in Adds |-> 0]
    /\ value = [a \in Adds |-> 0]
    /\ observations = {}
    /\ counts = [l \in LabelSets |-> NoCounts]
    /\ report = 0
    /\ reported = [n \in 1 .. MaxReports |-> [l \in LabelSets |-> NoCounts]]
    /\ panicked = FALSE

\* The rest of the client.
Client ==
    /\ \/ \E m \in Metrics : Append(m) \/ FlushIfFull(m)
       \/ \E p \in Flushers : Flush(p) \/ FlushDone(p)
       \/ \E b \in ready : BeginSend(b)
       \/ \E b \in onWire : EndSend(b)
       \/ LoopTick \/ LoopEnd
       \/ Start \/ ContextCancelled \/ StopBegin \/ StopFlush
    /\ UNCHANGED metricVars

\* With the process its goroutines end where they are.
SdkNext ==
    /\ ~ panicked
    /\ \/ \E a \in Adds : Inc(a) \/ SendCounter(a)
       \/ \E o \in DOMAIN Observed : Observe(o)
       \/ FlushHistogram \/ FlushPanics \/ SendReport
       \/ Client

SdkSpec == SdkInit /\ [][SdkNext]_sdkVars

\* While the process runs, a goroutine that flushes is scheduled and the ticker ticks.
\* The application owes nothing, and nothing is assumed of the histogram or of
\* requests: a flush does not wait for its send.
FairSdkSpec ==
    /\ SdkSpec
    /\ \A p \in Flushers : WF_vars(~ panicked /\ (Flush(p) \/ FlushDone(p)))
    /\ WF_vars(~ panicked /\ LoopTick /\ ~ flushing)

-----------------------------------------------------------------------------
(***************************************************************************)
(* Properties.                                                             *)
(***************************************************************************)
\* As long as the context lives, no metric stays in the batch: a skipped flush
\* or a lost race for the flag is made up for by a later tick.
EventuallyTaken ==
    \A m \in Metrics : m \in metrics ~> (m \notin metrics \/ cancelled \/ panicked)

\* "Use captured value (race-free)": however calls of Inc interleave, each sends a
\* running total of its own, so the highest one sent covers every call before it.
TotalsSentOnce ==
    \A a, b \in Adds :
        pc[a] # "new" /\ pc[b] # "new" /\ value[a] = value[b] => a = b

\* What the reports say, and what can still be reported, of a label set's bucket.
Reported(l, b) == SumFunction([n \in 1 .. MaxReports |-> reported[n][l][b]])

Pending(l, b) == IF panicked THEN 0 ELSE counts[l][b]

Within(l, b) == {o \in observations : Labels[o] = l /\ Observed[o] <= b}

\* "Flush sends aggregated bucket counts to the database and resets counters": every
\* observation is in one report or will be in the next one, with the others of its
\* label set, in each of its buckets and in the count.
EachReported ==
    \A l \in LabelSets, b \in Buckets :
        Pending(l, b) + Reported(l, b) = Cardinality(Within(l, b))

\* The same, but for the end of the process: until a flush meets an observation
\* made without labels, every observation is in one report or in the next one.
ObservedOnce == panicked \/ EachReported
=============================================================================
