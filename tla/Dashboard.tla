----------------------------- MODULE Dashboard -----------------------------
(***************************************************************************)
(* What the dashboard's handlers (pkg/ingest/dashboard.go) compute from    *)
(* the samples a query of the store found.                                 *)
(*                                                                         *)
(* A name ending in "_" and a word is a mutated form of the next           *)
(* definition, used to show that a property can fail.                      *)
(***************************************************************************)
EXTENDS QueryResults

CONSTANT InternalLabels    \* the label names that begin with an underscore

ResolutionLabel == "__resolution__"
Raw == "raw"
EmptyName == ""

ASSUME DashboardConstants == ResolutionLabel \in InternalLabels

-----------------------------------------------------------------------------
IsAggregate(m) == ValueOf(m.labels, ResolutionLabel) # << >>

\* HandleMetricsList: an aggregate does not make its metric known.
Metrics(found) == {m.name : m \in {n \in found : ~ IsAggregate(n)}}

\* The limit of the query counts aggregates, too; which samples it cuts off is
\* up to the store.
FirstFound(all, limit) ==
    IF Cardinality(all) <= limit THEN {all} ELSE kSubset(limit, all)

-----------------------------------------------------------------------------
(***************************************************************************)
(* HandleRangeQuery.                                                       *)
(***************************************************************************)
\* The first byte of each label name is looked at, and an empty one has none.
Panics(found) == \E m \in found : EmptyName \in DOMAIN m.labels

userLabels(m) == Restrict(m.labels, DOMAIN m.labels \ InternalLabels)

\* The labels are joined with the comma in front, which tells the same label
\* sets apart.
makeSeriesKey(labels) == seriesKey(labels)

ResolutionOf(m) == IF IsAggregate(m) THEN m.labels[ResolutionLabel][1] ELSE Raw

\* The first aggregate found decides.
resolution(ms) ==
    FoldLeft(LAMBDA res, m : IF res = Raw THEN ResolutionOf(m) ELSE res,
             ResolutionOf(Head(ms)), ms)

Average(points) ==
    Over(FoldLeft(LAMBDA total, p : Plus(total, p.value), Zero, points), Number(Len(points)))

Bucket_Truncated(points, i, size) == <<points[i]>>

Bucket(points, i, size) == SubSeq(points, i, Min({i + size - 1, Len(points)}))

\* Runs of equal length, the last one shorter: their first time and average.
downsamplePoints(points, maxPoints) ==
    LET size    == Len(points) \div maxPoints
        first(k) == (k - 1) * size + 1
        buckets == (Len(points) + size - 1) \div size
    IN  IF Len(points) <= maxPoints THEN points
        ELSE [k \in 1 .. buckets |->
                [time  |-> points[first(k)].time,
                 value |-> Average(Bucket(points, first(k), size))]]

\* sort.Slice by time, the earliest first.
Earliest(ms) == CHOOSE m \in ms : \A n \in ms : m.time <= n.time

ByTime(ms) ==
    MapThenFoldSet(LAMBDA p, later : <<p>> \o later, << >>,
                   LAMBDA m : [time |-> m.time, value |-> m.value], Earliest, ms)

\* One series per user labels: raw samples and aggregates of every resolution.
Charts(found, maxPoints) ==
    LET of(key) == {m \in found : makeSeriesKey(userLabels(m)) = key}
        any(ms) == CHOOSE m \in ms : TRUE
    IN  {[labels     |-> userLabels(any(of(key))),
          points     |-> downsamplePoints(ByTime(of(key)), maxPoints),
          resolution |-> resolution(InSomeOrder(of(key)))] :
            key \in {makeSeriesKey(userLabels(m)) : m \in found}}
=============================================================================
