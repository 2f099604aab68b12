----------------------------- MODULE Compaction -----------------------------
(***************************************************************************)
(* Downsampling of stored metrics: raw samples -> 5 minute aggregates ->   *)
(* 1 hour aggregates, run by one or more goroutines (the initial           *)
(* compaction of RunCompaction and its scheduled one) against a store that *)
(* the ingest handler writes to at the same time.                          *)
(*                                                                         *)
(* Every call the compactor makes to the store is one transaction and one  *)
(* action here.  Between two calls anything else may happen: samples are   *)
(* ingested, the clock advances, the other compactor runs, the call fails  *)
(* or the process is killed.                                               *)
(*                                                                         *)
(* accepted, folded, made, origins and remade are history variables: they  *)
(* record what the code did and no action reads them.  last5m and last1h   *)
(* belong to the environment: only Tick reads them, to bound the time      *)
(* between two completed steps.                                            *)
(***************************************************************************)
EXTENDS TimeSeriesStore

CONSTANTS
    Series,            \* metric names with their labels
    UserSeries,        \* the series FromMetric rebuilds: labels starting
                       \* with '_' are dropped
    Compactors,        \* goroutines that may run CompactAndCleanup
    SampleTimes,       \* timestamps samples may carry
    ValuesAt,          \* values a sample with a given timestamp may carry
    RunTimes,          \* clock readings at which a run may begin
    FiveMinutes, OneHour,              \* bucket widths
    Compact5mDelay, Compact5mLookback,
    Compact1hDelay, Compact1hLookback,
    RawDataRetention, FiveMinRetention,
    MaxLateness,       \* environment: how old a sample is when it arrives
    MaxGap,            \* environment: the 5m and the 1h step each commit
                       \* at least this often
    MaxRun,            \* environment: longest duration of a run
    MaxClock,          \* bound: the clock stops here
    MaxFailures        \* bound: number of failed or killed runs

\* No name or label value holds a comma, so that different series have different
\* keys in the store and in the maps of the compactor.
ASSUME PlainSeries ==
    \A s, u \in Series : seriesKeyString[s] = seriesKeyString[u] => s = u

ASSUME CompactionConstants ==
    /\ UserSeries \in [Series -> Series]
    /\ SampleTimes \subseteq Nat
    /\ RunTimes \subseteq Nat
    /\ FiveMinutes \in Nat \ {0}
    /\ OneHour \in Nat \ {0}
    /\ Compact5mDelay \in Nat /\ Compact5mLookback \in Nat
    /\ Compact5mDelay < Compact5mLookback
    /\ Compact1hDelay \in Nat /\ Compact1hLookback \in Nat
    /\ Compact1hDelay < Compact1hLookback
    /\ RawDataRetention \in Nat /\ FiveMinRetention \in Nat
    /\ MaxLateness \in Nat /\ MaxGap \in Nat /\ MaxRun \in Nat
    /\ MaxClock \in Nat /\ MaxFailures \in Nat

VARIABLES
    db,         \* the entries of the store
    clock,      \* time.Now()
    pc,         \* next store call of each compactor
    now,        \* the `now` a compactor computed when its run began
    read,       \* entries its last query returned, after filtering
    last5m,     \* latest `now` of a run whose 5m step is complete
    last1h,     \* latest `now` of a run whose 1h step is complete
    failures,   \* runs that failed so far
    accepted,   \* history: keys [series, ts] of all samples ever stored
    folded,     \* history: keys that some committed 5m write represents
    made,       \* history: 5m aggregates ever committed
    origins,    \* history: which samples each of them was made from
    remade      \* history: 5m aggregates some committed 1h write represents

ghosts == <<accepted, folded, made, origins, remade>>
vars == <<db, clock, pc, now, read, last5m, last1h, failures, ghosts>>

Steps == {"idle", "query5m", "write5m", "deleteRaw",
          "query1h", "write1h", "delete5m"}

KeyOf(e) == [series |-> e.series, ts |-> e.ts]

Later(a, b) == IF a < b THEN b ELSE a

Goto(c, step) == pc' = [pc EXCEPT ![c] = step]

-----------------------------------------------------------------------------
(***************************************************************************)
(* The windows of one run.  A name ending in "_" and a word is a mutated   *)
(* form of the next definition, used to show that a property can fail.     *)
(***************************************************************************)
Window5m(c) == InRange(db, now[c] - Compact5mLookback, now[c] - Compact5mDelay)

Window1h_OneInterval(c) ==
    InRange(db, now[c] - Compact1hDelay - FiveMinutes + 1, now[c] - Compact1hDelay)

Window1h(c) == InRange(db, now[c] - Compact1hLookback, now[c] - Compact1hDelay)

RawCutoff_AtDelivery(c) == now[c]
RawCutoff_TooLate(c) == now[c] - FiveMinRetention

RawCutoff(c) == now[c] - RawDataRetention

FiveMinCutoff_Wrong5m(c) == now[c] - Compact5mLookback

FiveMinCutoff(c) == now[c] - FiveMinRetention

\* Compact5m skips existing aggregates.
RawOnly_NoSkip(entries) == entries

RawOnly(entries) == {e \in entries : e.res = ResolutionRaw}

\* Compact1h skips everything but 5m aggregates.
FiveMinOnly(entries) == {e \in entries : e.res = Resolution5m}

-----------------------------------------------------------------------------
Init ==
    /\ db = {}
    /\ clock = 0
    /\ pc = [c \in Compactors |-> "idle"]
    /\ now = [c \in Compactors |-> 0]
    /\ read = [c \in Compactors |-> {}]
    /\ last5m = 0
    /\ last1h = 0
    /\ failures = 0
    /\ accepted = {}
    /\ folded = {}
    /\ made = {}
    /\ origins = {}
    /\ remade = {}

\* A sample reaches the store, at most MaxLateness after its timestamp.
Ingest(s, t, v) ==
    /\ t <= clock
    /\ clock <= t + MaxLateness
    /\ db' = Put(db, {RawEntry(s, t, v)})
    /\ accepted' = accepted \cup {[series |-> s, ts |-> t]}
    /\ UNCHANGED <<clock, pc, now, read, last5m, last1h, failures,
                   folded, made, origins, remade>>

\* CompactAndCleanup begins: every window is computed from this instant.
Start(c) ==
    /\ pc[c] = "idle"
    /\ clock \in RunTimes
    /\ now' = [now EXCEPT ![c] = clock]
    /\ Goto(c, "query5m")
    /\ UNCHANGED <<db, clock, read, last5m, last1h, failures, ghosts>>

\* Compact5m queries its window and keeps the raw samples of it.
Query5m(c) ==
    /\ pc[c] = "query5m"
    /\ read' = [read EXCEPT ![c] = RawOnly(Window5m(c))]
    /\ Goto(c, "write5m")
    /\ UNCHANGED <<db, clock, now, last5m, last1h, failures, ghosts>>

\* The samples an aggregate of these entries merges.
Origin(a, entries) ==
    [agg  |-> a,
     keys |-> {KeyOf(e) : e \in InBucket(entries, a.series, a.ts, FiveMinutes)}]

\* It writes one aggregate per series and bucket (nothing when none).
Write5m(c) ==
    LET aggregates == Aggregates(read[c], Resolution5m, FiveMinutes)
    IN  /\ pc[c] = "write5m"
        /\ db' = Put(db, aggregates)
        /\ read' = [read EXCEPT ![c] = {}]
        /\ last5m' = Later(last5m, now[c])
        /\ folded' = folded \cup {KeyOf(e) : e \in read[c]}
        /\ made' = made \cup aggregates
        /\ origins' = origins \cup {Origin(a, read[c]) : a \in aggregates}
        /\ Goto(c, "deleteRaw")
        /\ UNCHANGED <<clock, now, last1h, failures, accepted, remade>>

\* Step 2 of CompactAndCleanup.
DeleteRaw(c) ==
    /\ pc[c] = "deleteRaw"
    /\ db' = DeleteBefore(db, RawCutoff(c), ResolutionRaw)
    /\ Goto(c, "query1h")
    /\ UNCHANGED <<clock, now, read, last5m, last1h, failures, ghosts>>

\* Compact1h queries its window and keeps the 5m aggregates of it.
Query1h(c) ==
    /\ pc[c] = "query1h"
    /\ read' = [read EXCEPT ![c] = FiveMinOnly(Window1h(c))]
    /\ Goto(c, "write1h")
    /\ UNCHANGED <<db, clock, now, last5m, last1h, failures, ghosts>>

\* The aggregate FromMetric rebuilds from a stored 5m metric.
FromMetric(e) == [e EXCEPT !.series = UserSeries[e.series]]

Write1h(c) ==
    LET parsed == {FromMetric(e) : e \in read[c]}
    IN  /\ pc[c] = "write1h"
        /\ db' = Put(db, Aggregates(parsed, Resolution1h, OneHour))
        /\ read' = [read EXCEPT ![c] = {}]
        /\ last1h' = Later(last1h, now[c])
        /\ remade' = remade \cup read[c]
        /\ Goto(c, "delete5m")
        /\ UNCHANGED <<clock, now, last5m, failures, accepted, folded, made, origins>>

\* Step 4; the run has succeeded.
Delete5m(c) ==
    /\ pc[c] = "delete5m"
    /\ db' = DeleteBefore(db, FiveMinCutoff(c), Resolution5m)
    /\ Goto(c, "idle")
    /\ UNCHANGED <<clock, now, read, last5m, last1h, failures, ghosts>>

(***************************************************************************)
(* The pending store call returns an error, or the process is killed       *)
(* before it: its transaction has no effect, the earlier ones of the run   *)
(* keep theirs.  The retry, or the restarted process, begins a new run.    *)
(***************************************************************************)
Fail(c) ==
    /\ pc[c] # "idle"
    /\ failures < MaxFailures
    /\ failures' = failures + 1
    /\ read' = [read EXCEPT ![c] = {}]
    /\ Goto(c, "idle")
    /\ UNCHANGED <<db, clock, now, last5m, last1h, ghosts>>

\* Time passes, within what the environment promises.
Tick ==
    /\ clock < MaxClock
    /\ clock < last5m + MaxGap
    /\ clock < last1h + MaxGap
    /\ \A c \in Compactors : pc[c] # "idle" => clock < now[c] + MaxRun
    /\ clock' = clock + 1
    /\ UNCHANGED <<db, pc, now, read, last5m, last1h, failures, ghosts>>

Run(c) ==
    \/ Query5m(c) \/ Write5m(c) \/ DeleteRaw(c)
    \/ Query1h(c) \/ Write1h(c) \/ Delete5m(c)

Next ==
    \/ \E s \in Series, t \in SampleTimes : \E v \in ValuesAt[t] : Ingest(s, t, v)
    \/ \E c \in Compactors : Start(c) \/ Run(c) \/ Fail(c)
    \/ Tick

Spec == Init /\ [][Next]_vars

\* The ticker fires every interval and the run's goroutine is scheduled.
FairSpec ==
    /\ Spec
    /\ WF_vars(Tick)
    /\ \A c \in Compactors : WF_vars(Start(c)) /\ WF_vars(Run(c))

-----------------------------------------------------------------------------
(***************************************************************************)
(* Properties.                                                             *)
(***************************************************************************)
EntryOK(e) ==
    /\ e = Entry(e.series, e.ts, e.res, e.stats)
    /\ e.series \in Series
    /\ e.ts \in Int
    /\ e.res \in Resolutions

\* Type invariant.
TypeOK ==
    /\ \A e \in db : EntryOK(e)
    /\ clock \in Nat
    /\ pc \in [Compactors -> Steps]
    /\ now \in [Compactors -> Nat]
    /\ \A c \in Compactors : \A e \in read[c] : EntryOK(e)
    /\ DOMAIN read = Compactors
    /\ last5m \in Nat /\ last1h \in Nat
    /\ failures \in Nat
    /\ accepted \subseteq [series : Series, ts : SampleTimes]
    /\ \A a \in made : EntryOK(a) /\ a.res = Resolution5m

IsRaw(k) == \E e \in db : e.res = ResolutionRaw /\ KeyOf(e) = k

\* Raw samples are deleted by step 2 of CompactAndCleanup only after a
\* committed 5m write has represented them, however the runs of two compactors,
\* their failures and the ingestion interleave.
NoSampleLost == \A k \in accepted : IsRaw(k) \/ k \in folded

\* 5m aggregates are deleted by step 4 only after a committed 1h write has
\* represented them.
NoAggregateLost == \A a \in made : a \in db \/ a \in remade

(***************************************************************************)
(* Why both hold: the invariant behind them.  It is inductive when the     *)
(* environment is timely.                                                  *)
(***************************************************************************)
\* A run sees the clock it started from, recently, and soon after a run
\* before it completed each step.
ClocksOK ==
    /\ last5m <= clock /\ clock <= last5m + MaxGap
    /\ last1h <= clock /\ clock <= last1h + MaxGap
    /\ \A c \in Compactors : pc[c] # "idle" =>
        /\ now[c] <= clock /\ clock <= now[c] + MaxRun
        /\ now[c] <= last5m + MaxGap
        /\ now[c] <= last1h + MaxGap

\* Samples behind the end of the last completed 5m window are folded, and a
\* compactor about to write holds all other samples of its own window.
SamplesOK ==
    /\ \A k \in accepted : k.ts < last5m - Compact5mDelay => k \in folded
    /\ \A c \in Compactors : pc[c] = "write5m" =>
        /\ \A e \in read[c] : now[c] - Compact5mLookback <= e.ts
        /\ \A k \in accepted :
            /\ now[c] - Compact5mLookback <= k.ts
            /\ k.ts < now[c] - Compact5mDelay
            => k \in folded \/ \E e \in read[c] : KeyOf(e) = k
    /\ \A c \in Compactors : pc[c] = "deleteRaw" => now[c] <= last5m

\* The same, one tier up.
AggregatesOK ==
    /\ \A a \in made : a.ts < last1h - Compact1hDelay => a \in remade
    /\ \A c \in Compactors : pc[c] = "write1h" =>
        \A a \in made :
            /\ now[c] - Compact1hLookback <= a.ts
            /\ a.ts < now[c] - Compact1hDelay
            => a \in remade \/ a \in read[c]
    /\ \A c \in Compactors : pc[c] = "delete5m" => now[c] <= last1h

IInv ==
    /\ ClocksOK
    /\ SamplesOK /\ NoSampleLost
    /\ AggregatesOK /\ NoAggregateLost

CountIn(entries) == SumFunction([e \in entries |-> e.stats.count])

Stored(res, s, t) == {e \in db : e.res = res /\ e.series = s /\ e.ts = t}

KeysIn(keys, s, t, width) ==
    {k \in keys : k.series = s /\ RoundTo(k.ts, width) = t}

Buckets == {<<k.series, RoundTo(k.ts, FiveMinutes)>> : k \in accepted}

\* "running it twice on the same time range is safe" (doc.go:170): the 5m
\* aggregates of a bucket, of which there are several when a window ends
\* inside it, together count at most its samples.
CountedOnce ==
    \A b \in Buckets :
        CountIn(Stored(Resolution5m, b[1], b[2]))
            <= Cardinality(KeysIn(accepted, b[1], b[2], FiveMinutes))

\* As long as no run fails, no sample is counted twice by the 5m aggregates.
NoDoubleCount == failures = 0 => CountedOnce

(***************************************************************************)
(* The statistics of an aggregate are labels, hence part of its key        *)
(* (types.go:47-54).  Aggregates of one bucket stay side by side when      *)
(* they differ; of two that are equal one replaces the other.              *)
(***************************************************************************)
\* No two sets of samples of the series have made the same aggregate of a
\* bucket within this time.
ToldApart(s, t, width) ==
    \A o, p \in origins :
        o.agg.series = s /\ RoundTo(o.agg.ts, width) = t /\ o.agg = p.agg => o.keys = p.keys

\* "This prevents data loss during re-aggregation" (types.go:48): while the
\* aggregates of a bucket are stored they count every folded sample of it.
NoUndercount ==
    \A b \in Buckets :
        LET stored == Stored(Resolution5m, b[1], b[2])
        IN  stored # {} =>
                CountIn(stored) >= Cardinality(KeysIn(folded, b[1], b[2], FiveMinutes))

\* What holds of it for every workload: each folded sample of the bucket was
\* merged into an aggregate that is still there, however runs overlap and
\* fail, and nothing is missing from the counts unless two different sets of
\* samples of the bucket had equal statistics.
OnlyEqualsMerge ==
    \A b \in Buckets :
        LET stored == Stored(Resolution5m, b[1], b[2])
            keys   == KeysIn(folded, b[1], b[2], FiveMinutes)
        IN  stored # {} =>
                /\ \A k \in keys : \E o \in origins : o.agg \in stored /\ k \in o.keys
                /\ ToldApart(b[1], b[2], FiveMinutes) => CountIn(stored) >= Cardinality(keys)

\* When step 4 has deleted a 5m aggregate and no run has failed, some single 1h
\* aggregate counts every sample of its hour, unless the hour had two equal
\* aggregates of different samples.
HourIsComplete ==
    failures = 0 =>
        \A a \in made \ db :
            LET hour == RoundTo(a.ts, OneHour)
            IN  ToldApart(a.series, hour, OneHour) =>
                    \E h \in Stored(Resolution1h, UserSeries[a.series], hour) :
                        h.stats.count
                            = Cardinality(KeysIn(accepted, a.series, hour, OneHour))

\* Once a bucket lies behind the 5m window its aggregates are final: a later
\* run adds none to it and changes none, until step 4 deletes them together.
SettledHistory ==
    [][\A b \in Buckets :
        b[2] + FiveMinutes <= last5m - Compact5mDelay =>
            Stored(Resolution5m, b[1], b[2])' \in
                {Stored(Resolution5m, b[1], b[2]), {}}]_vars

\* A 1h aggregate of the store stands for this one: it counts at least as much
\* and its extremes are at least as far apart.
StandsFor(h, a) ==
    /\ h \in Stored(Resolution1h, UserSeries[a.series], RoundTo(a.ts, OneHour))
    /\ a.stats.count <= h.stats.count
    /\ h.stats.min <= a.stats.min /\ a.stats.max <= h.stats.max

\* Every sample eventually reaches the last tier and stays: a 5m aggregate
\* merged it, a 1h write read that very aggregate, and a 1h aggregate that
\* stands for it is stored.
EventuallyHourly ==
    \A s \in Series, t \in SampleTimes :
        [series |-> s, ts |-> t] \in accepted
            ~> [](\E o \in origins :
                    /\ [series |-> s, ts |-> t] \in o.keys
                    /\ o.agg \in remade
                    /\ \E h \in db : StandsFor(h, o.agg))
=============================================================================
