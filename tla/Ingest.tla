------------------------------- MODULE Ingest -------------------------------
(***************************************************************************)
(* POST /v1/ingest and the CardinalityTracker behind it.                   *)
(*                                                                         *)
(* Requests are served concurrently.  A request checks every metric of its *)
(* batch against the limits, each check under the tracker's lock, writes   *)
(* the whole batch to the store, and then records every metric, again one  *)
(* lock at a time.  The periodic cleanup of the tracker runs inside        *)
(* whichever check finds it due.                                           *)
(*                                                                         *)
(* A name ending in "_" and a word is a mutated form of the next           *)
(* definition, used to show that a property can fail.                      *)
(***************************************************************************)
EXTENDS Naturals, FiniteSets, Sequences, Functions

CONSTANTS
    Requests,             \* concurrent calls of HandleIngest
    Series,               \* metric name and user labels
    MetricNames,
    NameOf,               \* the metric name of a series
    NameInKey,            \* what rebuildCounts reads back from its key
    Batches,              \* the batches clients may post
    MaxMetricsPerRequest,
    MaxUniqueSeries, MaxSeriesPerMetric,
    SeriesRetentionPeriod, CleanupInterval,
    RebuildThreshold,     \* 1000 in cleanupOldSeriesLocked
    MaxClock,             \* bound: the clock stops here
    MaxRestarts           \* bound: number of server restarts

ASSUME IngestConstants ==
    /\ NameOf \in [Series -> MetricNames]
    /\ NameInKey \in [Series -> MetricNames]
    /\ Batches \subseteq Seq(Series)
    /\ IsFiniteSet(Requests)
    /\ MaxUniqueSeries \in Nat \ {0} /\ MaxSeriesPerMetric \in Nat \ {0}
    /\ SeriesRetentionPeriod \in Nat /\ CleanupInterval \in Nat
    /\ RebuildThreshold \in Nat /\ MaxMetricsPerRequest \in Nat
    /\ MaxClock \in Nat /\ MaxRestarts \in Nat

VARIABLES
    clock,
    seen,          \* seriesSeen: series -> time of its last Record
    seriesCount,   \* metric name -> count
    totalSeries,
    lastCleanup,
    pc,            \* per request: the next thing HandleIngest does
    batch,         \* per request: the metrics of its body
    next,          \* per request: index of the metric checked or recorded next
    restarts

tracker == <<seen, seriesCount, totalSeries, lastCleanup>>
vars == <<clock, tracker, pc, batch, next, restarts>>

Of(name) == {s \in DOMAIN seen : NameOf[s] = name}

\* The response is sent; the request is over.
Respond(r) ==
    /\ pc' = [pc EXCEPT ![r] = "idle"]
    /\ batch' = [batch EXCEPT ![r] = << >>]
    /\ next' = [next EXCEPT ![r] = 1]

\* On to the next phase of HandleIngest, from the first metric.
Enter(r, step) ==
    /\ pc' = [pc EXCEPT ![r] = step]
    /\ next' = [next EXCEPT ![r] = 1]
    /\ UNCHANGED batch

\* On to the next metric of the same loop.
Advance(r) ==
    /\ next' = [next EXCEPT ![r] = @ + 1]
    /\ UNCHANGED <<pc, batch>>

IsLast_Past(r) == next[r] = Len(batch[r]) + 1

IsLast(r) == next[r] = Len(batch[r])

-----------------------------------------------------------------------------
(***************************************************************************)
(* The tracker.  Expired is the set of series cleanupOldSeriesLocked       *)
(* removes when it runs now.                                               *)
(***************************************************************************)
CleanupDue == clock - lastCleanup >= CleanupInterval

Expired == {s \in DOMAIN seen : seen[s] + SeriesRetentionPeriod < clock}

CountsOf(series) ==
    [n \in MetricNames |-> Cardinality({s \in series : NameInKey[s] = n})]

\* Counters are rebuilt only after a large removal; otherwise they keep
\* counting the removed series.
Cleanup_AlwaysResets ==
    LET left == DOMAIN seen \ Expired
    IN  /\ lastCleanup' = clock
        /\ seen' = Restrict(seen, left)
        /\ seriesCount' = [n \in MetricNames |-> 0]
        /\ totalSeries' = 0

Cleanup ==
    LET left == DOMAIN seen \ Expired
    IN  /\ lastCleanup' = clock
        /\ seen' = Restrict(seen, left)
        /\ IF Cardinality(Expired) > RebuildThreshold
           THEN /\ seriesCount' = CountsOf(left)
                /\ totalSeries' = Cardinality(left)
           ELSE UNCHANGED <<seriesCount, totalSeries>>

CleanupIfDue ==
    IF CleanupDue THEN Cleanup ELSE UNCHANGED tracker

\* Check, after its cleanup: a series already seen passes, a new one needs room
\* under both limits.
Passes_NoTotal(s) ==
    \/ s \in DOMAIN seen'
    \/ seriesCount'[NameOf[s]] < MaxSeriesPerMetric

Passes(s) ==
    \/ s \in DOMAIN seen'
    \/ /\ totalSeries' < MaxUniqueSeries
       /\ seriesCount'[NameOf[s]] < MaxSeriesPerMetric

\* Record.
Record(s) ==
    /\ seen' = [x \in DOMAIN seen \cup {s} |-> IF x = s THEN clock ELSE seen[x]]
    /\ IF s \in DOMAIN seen
       THEN UNCHANGED <<seriesCount, totalSeries>>
       ELSE /\ seriesCount' = [seriesCount EXCEPT ![NameOf[s]] = @ + 1]
            /\ totalSeries' = totalSeries + 1
    /\ UNCHANGED lastCleanup

-----------------------------------------------------------------------------
Init ==
    /\ clock = 0
    /\ seen = << >>
    /\ seriesCount = [n \in MetricNames |-> 0]
    /\ totalSeries = 0
    /\ lastCleanup = 0
    /\ pc = [r \in Requests |-> "idle"]
    /\ batch = [r \in Requests |-> << >>]
    /\ next = [r \in Requests |-> 1]
    /\ restarts = 0

\* A request arrives and gets past the size and storage limits (a request that
\* does not is answered without touching any of this state).
Receive(r, b) ==
    /\ pc[r] = "idle"
    /\ Len(b) <= MaxMetricsPerRequest
    /\ batch' = [batch EXCEPT ![r] = b]
    /\ next' = [next EXCEPT ![r] = 1]
    /\ pc' = [pc EXCEPT ![r] = IF b = << >> THEN "write" ELSE "check"]
    /\ UNCHANGED <<clock, tracker, restarts>>

\* One turn of the validation loop: Check one metric.  The first failure
\* rejects the whole batch with 429.
Check(r) ==
    /\ pc[r] = "check"
    /\ CleanupIfDue
    /\ \/ Passes(batch[r][next[r]]) /\ IsLast(r) /\ Enter(r, "write")
       \/ Passes(batch[r][next[r]]) /\ ~ IsLast(r) /\ Advance(r)
       \/ ~ Passes(batch[r][next[r]]) /\ Respond(r)
    /\ UNCHANGED <<clock, restarts>>

\* The metric is malformed (ValidateMetric): the whole batch is rejected with
\* 400, whatever was checked before it.
Invalid(r) ==
    /\ pc[r] = "check"
    /\ Respond(r)
    /\ UNCHANGED <<clock, tracker, restarts>>

\* storage.Write returns nil.
Write(r) ==
    /\ pc[r] = "write"
    /\ IF batch[r] = << >> THEN Respond(r) ELSE Enter(r, "record")
    /\ UNCHANGED <<clock, tracker, restarts>>

\* storage.Write returns an error, answered with 500 (even when it is the expiry
\* of IngestTimeout and the transaction commits later).
WriteFails(r) ==
    /\ pc[r] = "write"
    /\ Respond(r)
    /\ UNCHANGED <<clock, tracker, restarts>>

\* One turn of the recording loop.
RecordNext(r) ==
    /\ pc[r] = "record"
    /\ Record(batch[r][next[r]])
    /\ IF IsLast(r) THEN Respond(r) ELSE Advance(r)
    /\ UNCHANGED <<clock, restarts>>

\* The process restarts: the store survives, the tracker does not.
Restart ==
    /\ restarts < MaxRestarts
    /\ restarts' = restarts + 1
    /\ seen' = << >>
    /\ seriesCount' = [n \in MetricNames |-> 0]
    /\ totalSeries' = 0
    /\ lastCleanup' = clock
    /\ pc' = [r \in Requests |-> "idle"]
    /\ batch' = [r \in Requests |-> << >>]
    /\ next' = [r \in Requests |-> 1]
    /\ UNCHANGED clock

Tick ==
    /\ clock < MaxClock
    /\ clock' = clock + 1
    /\ UNCHANGED <<tracker, pc, batch, next, restarts>>

Next ==
    \/ \E r \in Requests :
        \/ \E b \in Batches : Receive(r, b)
        \/ Check(r) \/ Invalid(r)
        \/ Write(r) \/ WriteFails(r) \/ RecordNext(r)
    \/ Restart
    \/ Tick

Spec == Init /\ [][Next]_vars

-----------------------------------------------------------------------------
(***************************************************************************)
(* Properties.                                                             *)
(***************************************************************************)
\* Type invariant.
TypeOK ==
    /\ clock \in Nat
    /\ DOMAIN seen \subseteq Series
    /\ \A s \in DOMAIN seen : seen[s] \in Nat
    /\ seriesCount \in [MetricNames -> Nat]
    /\ totalSeries \in Nat
    /\ lastCleanup \in Nat
    /\ pc \in [Requests -> {"idle", "check", "write", "record"}]
    /\ batch \in [Requests -> Seq(Series)]
    /\ next \in [Requests -> Nat]
    /\ \A r \in Requests : pc[r] \in {"check", "record"} =>
            next[r] \in 1 .. Len(batch[r])
    /\ restarts \in Nat

\* "rebuildCountsLocked recalculates series counts from seriesSeen"
\* (cardinality.go:136): the count of no name falls behind its tracked series.
NamesCounted ==
    \A n \in MetricNames : Cardinality(Of(n)) <= seriesCount[n]

\* The counters Check compares with the limits never fall behind the series
\* tracked, whatever cleanups run between the checks and the records of other
\* requests.
CountersCoverSeen ==
    /\ Cardinality(DOMAIN seen) <= totalSeries
    /\ NamesCounted

\* The tracker's memory is bounded: every request in flight was admitted when
\* there was room for at least one series, so it can exceed the limit by its
\* own batch and no more.
Overshoot == Cardinality(Requests) * MaxMetricsPerRequest

SeenBounded ==
    /\ Cardinality(DOMAIN seen) < MaxUniqueSeries + Overshoot
    /\ \A n \in MetricNames :
            Cardinality(Of(n)) < MaxSeriesPerMetric + Overshoot

\* Why it is: the series of metrics that have passed Check and are not yet
\* recorded.
Unrecorded(r) ==
    {i \in 1 .. Len(batch[r]) :
        \/ pc[r] = "check" /\ i < next[r]
        \/ pc[r] = "write"
        \/ pc[r] = "record" /\ i >= next[r]}

Admitted == UNION {{batch[r][i] : i \in Unrecorded(r)} : r \in Requests}

\* The tracked series and the admitted ones together respect the bound: a
\* series joins them only while the tracked ones leave room.
AdmittedBounded ==
    LET claimed == DOMAIN seen \cup Admitted
    IN  /\ Cardinality(claimed) < MaxUniqueSeries + Overshoot
        /\ \A n \in MetricNames :
                Cardinality({s \in claimed : NameOf[s] = n})
                    < MaxSeriesPerMetric + Overshoot

\* "counts will be slightly inflated but won't grow unboundedly"
\* (cardinality.go:127): beside the tracked series totalSeries counts at most as
\* many removed ones as a single cleanup may leave in it.
SlightlyInflated ==
    totalSeries <= Cardinality(DOMAIN seen) + RebuildThreshold
=============================================================================
