-------------------------- MODULE TimeSeriesStore --------------------------
(***************************************************************************)
(* The contents of the metric store and the operations the rest of the     *)
(* program performs on them (storage.Storage, as implemented by            *)
(* pkg/storage/badger), together with the aggregation arithmetic of        *)
(* pkg/compaction.                                                         *)
(*                                                                         *)
(* A store is a set of entries.  An entry is a stored metrics.Metric: its  *)
(* series (name and user labels), its timestamp, its `__resolution__` and  *)
(* the statistics it carries.  A raw sample of value v carries the         *)
(* statistics of the single value v.                                       *)
(*                                                                         *)
(* A name ending in "_" and a word is a mutated form of the next           *)
(* definition, used to show that a property can fail.                      *)
(***************************************************************************)
EXTENDS Integers, FiniteSets, FiniteSetsExt

CONSTANT
    seriesKeyString    \* of each series: its name and labels joined by commas.
                       \* No comma of a value is escaped, so two series may
                       \* have one string

ResolutionRaw == "raw"
Resolution5m  == "5m"
Resolution1h  == "1h"
Resolutions   == {ResolutionRaw, Resolution5m, Resolution1h}

Entry(s, t, r, st) == [series |-> s, ts |-> t, res |-> r, stats |-> st]

StatsOf(v) == [sum |-> v, count |-> 1, min |-> v, max |-> v]

RawEntry(s, t, v) == Entry(s, t, ResolutionRaw, StatsOf(v))

SameKey_NoStatistics(e, f) ==
    e.series = f.series /\ e.ts = f.ts /\ e.res = f.res

(***************************************************************************)
(* The Badger key is (name, hash of name and ALL labels, timestamp): the   *)
(* labels count as the string they are joined to.  The value of a raw      *)
(* sample is not part of its key; the statistics of an aggregate are       *)
(* stored as labels, so they are part of its key.                          *)
(***************************************************************************)
SameKey(e, f) ==
    /\ seriesKeyString[e.series] = seriesKeyString[f.series]
    /\ e.ts = f.ts
    /\ e.res = f.res
    /\ e.res = ResolutionRaw \/ e.stats = f.stats

\* A transaction sets the entries of a batch one after the other: of those with
\* one key the last one stays.
LastOfEachKey(batch) ==
    {batch[i] : i \in {j \in DOMAIN batch :
        \A k \in DOMAIN batch : j < k => ~ SameKey(batch[j], batch[k])}}

\* Write of entries with different keys: they replace those that have their keys.
Put(store, new) ==
    {e \in store : \A n \in new : ~ SameKey(e, n)} \cup new

\* Query: both ends of the time range are included.
InRange(store, start, end) ==
    {e \in store : start <= e.ts /\ e.ts <= end}

\* Delete: strictly before the cutoff, at one resolution.
DeleteBefore(store, before, res) ==
    {e \in store : ~ (e.ts < before /\ e.res = res)}

(***************************************************************************)
(* Aggregation.                                                            *)
(***************************************************************************)
RoundTo(t, width) == t - (t % width)

Merge_CountsAggregates(entries) ==
    [sum   |-> SumFunction([e \in entries |-> e.stats.sum]),
     count |-> Cardinality(entries),
     min   |-> Min({e.stats.min : e \in entries}),
     max   |-> Max({e.stats.max : e \in entries})]

\* Sum and Count add up, Min and Max extend (compactor.go, both tiers).
Merge(entries) ==
    [sum   |-> SumFunction([e \in entries |-> e.stats.sum]),
     count |-> SumFunction([e \in entries |-> e.stats.count]),
     min   |-> Min({e.stats.min : e \in entries}),
     max   |-> Max({e.stats.max : e \in entries})]

InBucket(entries, s, t, width) ==
    {e \in entries : e.series = s /\ RoundTo(e.ts, width) = t}

Aggregates_Unlabelled(entries, res, width) ==
    {Entry(e.series, RoundTo(e.ts, width), ResolutionRaw,
           Merge(InBucket(entries, e.series, RoundTo(e.ts, width), width))) :
        e \in entries}

\* One aggregate per (series, bucket) that has at least one entry.  The code groups
\* by aggregateKey, which joins labels as seriesKeyString does.
Aggregates(entries, res, width) ==
    LET groups == {<<e.series, RoundTo(e.ts, width)>> : e \in entries}
    IN  {Entry(g[1], g[2], res, Merge(InBucket(entries, g[1], g[2], width))) :
            g \in groups}
=============================================================================
