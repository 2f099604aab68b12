-------------------------- MODULE StoreOperations --------------------------
(***************************************************************************)
(* The operations of storage.Storage: what a deletion matches, what a      *)
(* query or a count of the store may answer.                               *)
(*                                                                         *)
(* A name ending in "_" and a word is a mutated form of the next           *)
(* definition, used to show that a property can fail.                      *)
(***************************************************************************)
EXTENDS TimeSeriesStore, SequencesExt

NoOp     == [kind |-> "none"]
NoAnswer == [kind |-> "none"]

AnyResolution == "any"

\* Write of a slice of metrics, which may hold one of them twice.
WriteOf(batch) == [kind |-> "write", batch |-> batch]

\* DeleteOptions.
DeleteOf(before, res) == [kind |-> "delete", before |-> before, res |-> res]

\* QueryRequest: its metric names and labels select a set of series, a limit of
\* zero is none.
QueryOf(series, start, end, limit) ==
    [kind |-> "query", series |-> series, start |-> start, end |-> end,
     limit |-> limit]

CountOf == [kind |-> "stats"]

\* A loop over a slice that appends what it keeps to a new one.
Among(slice, set) ==
    LET kept[n \in 0 .. Len(slice)] ==
            IF n = 0 THEN << >>
            ELSE IF slice[n] \in set THEN Append(kept[n - 1], slice[n]) ELSE kept[n - 1]
    IN  kept[Len(slice)]

IsUpdate(o) == o.kind \in {"write", "delete"}

Matches(o, e) == e.ts < o.before /\ (o.res = AnyResolution \/ e.res = o.res)

Selected(o, store) ==
    {e \in InRange(store, o.start, o.end) : e.series \in o.series}

\* The series hash in the key covers every label, as it is joined to the others, and
\* an aggregate's resolution and statistics are labels.
SeriesHash(e) ==
    IF e.res = ResolutionRaw
    THEN <<seriesKeyString[e.series]>>
    ELSE <<seriesKeyString[e.series], e.res, e.stats>>

Found(entries) == [kind |-> "entries", entries |-> entries]

Extremes(times) == IF times = {} THEN {} ELSE {Min(times), Max(times)}

\* Stats: how many entries there are, of how many series, and the oldest and
\* newest time.
Counted(n, store, times) ==
    [kind   |-> "stats",
     total  |-> n,
     series |-> Cardinality({SeriesHash(e) : e \in store}),
     range  |-> Extremes(times)]
=============================================================================
