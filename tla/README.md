# TinyObs: TLA+ models, model checking and proofs

TinyObs is a metrics server with an SDK: applications send batches of metrics
over HTTP, the server stores them in BadgerDB, downsamples them over time,
answers queries and streams updates to dashboards. This directory holds TLA+
modules for the parts of it that keep state and run concurrently and for what its
queries compute, the TLC configurations that check them, and proofs for TLAPS. `PROJECT.json` maps every
definition to the lines of `src/` it stands for.

Run anything here with `tlc -config <run>.cfg <MC module>` and
`tlapm <Component>Proofs.tla`.

## 1. The system

| Component | Source | State | Operations | Hard parts |
|---|---|---|---|---|
| Metric store (Badger) | `pkg/storage/badger` | a key-value set; a key is metric name, hash of name and all labels, timestamp | `Write`, `Query`, `Delete`, `Stats`, `RunGC` | `Write` and `Delete` go on after their context expired; limits per transaction; conflicts |
| Metric store (memory) | `pkg/storage/memory` | a slice under a mutex | the same interface | must agree with Badger |
| Compaction engine | `pkg/compaction` | none of its own; moves the store's entries raw → 5m → 1h | `CompactAndCleanup` = `Compact5m`, delete raw, `Compact1h`, delete 5m | four transactions, sliding windows not aligned to buckets, two goroutines, failures and retries |
| Compaction scheduler, health | `pkg/server/tasks.go`, `monitor/compaction.go`, `handlers.go` | ticker, retry count, last success, consecutive errors, an RWMutex | `RunCompaction`, `RecordSuccess/Failure`, `IsHealthy`, `Status`, `/v1/health` | the RWMutex is taken recursively; two runs share the monitor; stop races with back-off |
| Ingest and cardinality tracker | `pkg/ingest/handler.go`, `cardinality.go`, `limits.go` | series seen with times, counters per name and in total, last cleanup | `HandleIngest`: `Check` each metric, `Write` the batch, `Record` each metric; cleanup, rebuild | check and record are far apart; cleanup keeps or rebuilds counters; restart forgets |
| WebSocket hub, broadcaster | `pkg/ingest/websocket.go`, `tasks.go` | client map, three channels | hub loop, handler per connection, ping goroutine, `BroadcastMetrics` | a loop that sends to itself, FIFO per channel but no order between channels, overlapping writes |
| Query engine | `pkg/query` (lexer, parser, executor) | the samples loaded by a query, in one executor all requests share | parse; selectors, `rate`, `increase`, aggregation, operators | precedence, keys of series and groups, windows of a rate, a counter without a lock |
| Query endpoints | `pkg/query/handler.go` | none | execute, instant and range queries | ranges and steps that make no sense, requests that overlap |
| Dashboard API | `pkg/ingest/dashboard.go` | none | list metrics, range query, downsample points | bucketing at the ends, raw samples and aggregates in one chart |
| Export and import | `pkg/export` | none | export JSON/CSV, import in batches | partial failure |
| Storage monitor | `monitor/storage.go` | cached usage and its time | `GetUsage` | a stale cache admits writes |
| Wiring and shutdown | `cmd/server/main.go` | context, stop channels, wait group | start, signal, stop, bounded wait | who is waited for, what is closed when |
| SDK client and batcher | `pkg/sdk/client.go`, `batch`, `transport` | started flag, batch, flushing flag, sends under way | `SendMetric`, `Add`, flush loop, `Stop` | flush is claimed by compare-and-swap, sends overlap, `Stop` cancels and flushes |
| SDK metrics | `pkg/sdk/metrics` | values per label key, histogram buckets | `Add`, `Set`, `Observe`, `Flush` | value captured under the lock, sent after it |

Interactions: HTTP handlers, the compactor and the broadcaster share the store
(transactions are the only synchronisation). The tracker is shared by all ingest
requests under one mutex. The initial and the scheduled compaction share the
monitor with the health handlers. Hub, handlers and broadcaster exchange
messages over buffered channels. `main` starts all of them and stops them by a
context, two stop channels and a wait group. The SDK's counters and its histogram
loop share one client, which starts a goroutine per batch it sends. The query
endpoints share one executor; every selector of an expression is a query of the store
of its own.

What makes each component correct:

- compaction: nothing is deleted before the next tier holds it; nothing is
  counted twice or left out; settled history does not change; data gets to the
  last tier.
- ingest: the counters never fall behind the series; memory is bounded although
  the limits are checked early.
- scheduler and monitor: limits on retries, a status is a snapshot, a stop is
  obeyed, health requests are answered.
- hub: no connection is lost or closed without reason, dead ones are closed,
  shutdown ends it.
- SDK: each metric is sent at most once and never vanishes silently; one flush
  at a time; counters send every total once, histograms report every observation once.
- store: an update takes effect at most once and in one piece, success is reported
  only afterwards, what was acknowledged is found and stays; a call with a deadline
  returns at it, any other when its transaction is over.
- query: an expression means what its operators say; series and groups are neither
  merged nor split; no sample is counted twice; the limit on samples holds for a
  query that runs alone.
- charts: averages cover every sample once.

## 2. Modules

| Module | Models | Run by | Theorems |
|---|---|---|---|
| `TimeSeriesStore` | the compactor's view of the store: key identity, write, query, delete; aggregation | `MCCompaction` | used by `CompactionProofs` |
| `Compaction` | `CompactAndCleanup` run by several goroutines | `MCCompaction` | `CompactionProofs` |
| `Ingest` | `HandleIngest` and the tracker | `MCIngest` | `IngestProofs` |
| `CompactionScheduler` | `RunCompaction`, the monitor and its lock, health requests, `main`'s stop | `MCCompactionScheduler` | `CompactionSchedulerProofs` |
| `MetricsHub` | hub, handlers, pings, broadcaster, cancellation | `MCMetricsHub` | `MetricsHubProofs` |
| `SdkClient` | client, batcher, transport | `MCSdkMetrics` | `SdkMetricsProofs` |
| `SdkMetrics` | counter and histogram on top of `SdkClient` | `MCSdkMetrics` | `SdkMetricsProofs` |
| `StoreOperations` | what a caller of `storage.Storage` can ask, and what a query selects; extends `TimeSeriesStore` | | |
| `MetricStore` | the abstract store: what the interface promises | `MCStoreClients`, as a property | `StoreProofs` |
| `StoreCalls` | the callers' side both stores share: deadlines, answers, history | | |
| `BadgerStore` | `pkg/storage/badger` | `MCStoreClients` | `StoreProofs` |
| `MemoryStore` | `pkg/storage/memory` | `MCStoreClients` | `StoreProofs` |
| `StoreClients` | imports, exports and other requests over either store, crashes | `MCStoreClients` | `StoreProofs` |
| `QueryResults` | what the executor computes: series, operators, aggregation, rate | `MCQueryServer` | used by `QueryProofs` |
| `QueryParser` | the parser | `MCQueryServer` | |
| `QueryEngine` | the executor's cases, over what its selectors found | `MCQueryServer` | used by `QueryProofs` |
| `Dashboard` | the charts' computations | `MCQueryServer` | used by `QueryProofs` |
| `QueryServer` | the requests, the shared executor, ingestion meanwhile | `MCQueryServer` | `QueryProofs` |
| `QueryAnswers` | `QueryServer` with the executor's cases, and the properties of answers | `MCQueryServer` | `QueryProofs` |
| `QueryExpressions` | the recursion over expressions (`Eval`), and the reference of the parser | `MCQueryServer` | none: it is recursive |
| `SumTheorems` | no code: facts about sums over finite sets | | lemmas of `CompactionProofs`, `StoreProofs`, `SdkMetricsProofs` and `QueryProofs` |

`BadgerStore` and `MemoryStore` extend `StoreCalls`, which extends `StoreOperations`;
`StoreClients` composes the two with the importer and maps them to `MetricStore`.
`SdkMetrics` extends `SdkClient` and adds the goroutines above it. `QueryServer`
takes the parser and the executor as operator constants (`ParseQuery`, `Evaluate`), so that
its proofs do not depend on them. `QueryEngine` states the cases of `executeExpr` with the
evaluation of the parts as a parameter, and `QueryExpressions` closes that recursion (`Eval`):
what is proved of answers needs only that `Evaluate` is a fixed point of those cases. `MCQueryServer`
brings all of it together.

Each `MC...` module holds the small sets the configurations name. A
definition named `X_Word` is a mutated form of `X`: replacing `X` by it must
break a property (`PROJECT.json`, "mutants").

### Compaction

One action per store call (`Query5m`, `Write5m`, `DeleteRaw`, `Query1h`,
`Write1h`, `Delete5m`), because each call is a transaction and anything may
happen between two. `Start` fixes `now`, from which every window is computed, as
the code does. `Fail` stands for an error or a kill before the pending call. An
entry has a series, a timestamp, a resolution and statistics; `SameKey` says
when a write replaces an entry: an aggregate's statistics are labels
(`types.go:48`), hence part of its key. The labels of a series count as the string they
are joined to (`seriesKeyString`); the compaction runs and proofs assume that no label value
holds a comma, so that different series have different strings (`PlainSeries`). Time is an integer; the constants keep the
order of the code's (delay 6h < lookback 12h, raw retention 6h, 1h tier delay 2d,
lookback and retention 7d).

`accepted`, `folded`, `made`, `origins` (which samples each 5m aggregate merged) and `remade` are
history variables. `MaxLateness`,
`MaxGap` and `MaxRun` bound what the environment does: how late samples come, how
long no run completes a step, how long one run takes. `Tick` respects them, so a
model with a large `MaxGap` is a server that was down.

### Ingest

One action per turn of the two loops of `HandleIngest`, because the tracker's
lock is taken per metric; the store write lies between them. The cleanup runs inside
a check when it is due. `WriteFails` covers the timeout whose transaction commits
later: for the tracker it is the same. A series knows its metric's name (`NameOf`) and what
a rebuild takes for it, the part of its key before the first comma (`NameInKey`).

### CompactionScheduler

`readers` and `pendingWriter` model Go's RWMutex: a waiting writer admits no new
reader. A critical section that waits for nothing is one action with the
acquisition of its lock; `Status`, which takes the lock again inside its own
section, is three. `lastSuccess` is "never", "recent" or "stale": the clock may turn
recent into stale at any time. A health request takes its status code from one `IsHealthy`
(`HealthCode`) and its body from a later `Status`, so a result recorded in between makes the two
disagree, which nothing in the repository rules out. `main` waits for the scheduler, not for the initial
run, or gives up after five seconds.

### MetricsHub

One action per case of the hub's select, and one for the begin and the end of each
write of a broadcast. `peers` are the connections whose other end is alive and
reading. `PingPanics` is a ping that overlaps the hub's write to the same
connection; gorilla panics on it and the process is gone. Other pings change no
state. The hub's mutex is left out, as only the hub writes the map.

### SdkClient

A metric stands for the call that sends it and for the flush goroutine that call may
start. `flushing` is the atomic flag. A flush takes the batch; its send is a
separate goroutine: `BeginSend` fails at once under a cancelled context (`dropped`). `EndSend` has
three outcomes: the server took the batch and said so, it took it and the client timed out
before the answer (the batch is then `received` and `failed`), or it did not take it, as happens
to every batch larger than the server accepts.

### SdkMetrics

A call of a counter is two steps, because the lock is released in between: `Inc` adds
and captures the total, `SendCounter` hands it to the client. A histogram collects
(`Observe`) per set of labels, and a tick of the client's histogram loop (`HistogramTick`) takes a
report of every set and resets the buckets in one critical section (`FlushHistogram`), then sends
it (`SendReport`). The set of the calls without labels is a nil map, to which the flush wants to
add a label: `FlushPanics` ends the process, `panicked` says so and nothing happens afterwards. One
metric of a report is followed through the client; the other buckets, the sum and the
count go the same way. A gauge is a counter with other arithmetic.

### MetricStore, BadgerStore, MemoryStore

`MetricStore` is what callers rely on: a call is in flight until it is given up or has
taken effect; an update does so once, at one moment; a success comes only after it, a
failure says nothing; a query reads one moment's contents; a limited query may leave
out anything but what its limit has room for; a deletion removes only what it matches,
and all of that which was there since its call.

`BadgerStore` has what the code has: every call starts a goroutine with one
transaction and waits for it or for the end of its context (`Cancelled`), whichever
comes first. The goroutine goes on. `contextOf` says what context a call is made with: one with a
deadline (ingest, dashboard), that of a request (query, import, export), which ends only if the client
leaves, or the background (compactor), which never ends. A write takes a slice, whose entries are set
one after the other: of those with one key the last one stays (`LastOfEachKey`). `Delete` reads the database when it begins and
commits later (`BeginDelete`, `CommitDelete`), so Badger may refuse it
(`DeleteConflicts`). The key holds a hash of the series and the time as 64-bit
nanoseconds (`KeyTime` wraps as they do, and `KeyOrder` puts times before 1970 after all others); `Delete` and `Stats` read the time from the
key. `BadgerCrash` keeps what was committed. Badger is external: transactions are
atomic and see one snapshot.

`MemoryStore` runs every call under one lock over a slice, keeps several entries of one
key, and refuses a batch beyond its capacity, which is the default's when none is set (`maxMetrics`).

`StoreClients` puts requests and an import on one of the two: `StartImport` validates
the file (`validMetrics`) and cuts it into batches, each written by one call; the first
error ends the import with what was written before. `Crash` ends calls and import.
The refinement (`ImplementsStorage`) maps the goroutine's work to `inFlight` and
`applied`.

### QueryParser, QueryResults, QueryEngine

The parser's functions are operators on a sequence of tokens and return the expression
and what is left of it, one per function of `parser.go`, with the errors it reports and those it
does not. The executor works on a set of samples per selector. Numbers are fractions in
lowest terms, with NaN and the infinities, so that averages and rates are exact; the model
has no rounding. Series and groups are found by keys that are joined as the code joins
them, so that two can collide. `rate` has the code's sliding index (`startIdx`). `LabelConstants`
says that label names are strings and none is the comma; `SampleConstants`, in `QueryServer`, that
times are whole, values finite and in lowest terms, labels finite maps of such names, and that the
store has one sample for a name, labels and a time.

### QueryServer, Dashboard, QueryAnswers

A request is refused or becomes a query with a start, an end and a step
(`Execute`), evaluates its selectors one after the other, each a query of the store, and answers. The
executor's counter of samples is one field for all requests and has no lock: `Execute`
resets it, `ReadCounter` and `WriteCounter` are `+=` in two steps, `CheckLimit`
reads it again. `Spin` is the endless loop of a constant whose step does not
advance. `shared` and `loaded` are auxiliary. The dashboard's handlers read the store once and
answer in the same step; a label name that is empty makes a chart's handler panic (`Panics`), and its
request is `Aborted`. Samples arrive in between (`Arrive`), late ones too.

## 3. Runs

| Run | Bounds | Shows |
|---|---|---|
| `compaction_concurrent` | two compactors, three samples, one failure, clock to 11, any run time | `NoSampleLost`, `NoAggregateLost` under all interleavings |
| `compaction_counts` | one compactor on a schedule that ends windows inside buckets, one failure, clock to 48 (a sample passes all three tiers) | `NoDoubleCount`, `OnlyEqualsMerge`, `HourIsComplete`, `SettledHistory`, `EventuallyHourly`, with values of which some are equal |
| `compaction_retry` (violation) | the same | a failed and repeated run counts samples twice |
| `compaction_downtime` (violation) | `MaxGap` above lookback minus delay | samples are deleted that were never aggregated |
| `ingest` | two requests, batches of at most two, seven series, limits 2 and 1, a restart | `CountersCoverSeen`, `SeenBounded` |
| `scheduler` | both runners, one health request, one retry, two failures | limits, snapshot, stop |
| `scheduler_health` (violation) | one failure | the recursive read lock deadlocks |
| `hub` | two connections, channels of one message | no connection lost, live ones stay, dead ones go, shutdown |
| `hub_stop` (violation) | the same | the hub blocks on its own channel |
| `sdk` | two calls of a counter, a histogram of one bucket with two observations with labels, one without and one report, batches of two | each metric in one place, one flush, every total sent once, every observation reported once until a flush panics, no metric left in the batch |
| `store` | three calls out of five (two batches of an import, a write that overwrites, a deletion, a query, limited query or count), one crash, either store | refinement of `MetricStore`; acknowledged batches stay; imports; `CallsReturn` |
| `query` | about 400 workloads of one request or two, thirteen samples of seven series, two that arrive, limits of nine samples and three points | what requests parse to and are answered, charts, the shared counter |

Seven more configurations hold counterexamples: each checks one claim of a comment or a document that
TLC refutes on the same small instances (section 5 says what happens in each).

| Configuration | Module | Claim | Made by |
|---|---|---|---|
| `compaction_equal` | `MCCompaction` | `NoUndercount` | `compaction/types.go:47-48` "Store resolution and aggregate statistics as special labels / This prevents data loss during re-aggregation" |
| `ingest_inflation` | `MCIngest` | `SlightlyInflated` | `ingest/cardinality.go:127` "counts will be slightly inflated but won't grow unboundedly" |
| `ingest_commas` | `MCIngest` | `NamesCounted` | `ingest/cardinality.go:136` "rebuildCountsLocked recalculates series counts from seriesSeen" |
| `sdk_stop` | `MCSdkMetrics` | `StopFlushesRemaining` | `sdk/client.go:145` "Stop stops the client and flushes remaining metrics" |
| `sdk_unlabelled` | `MCSdkMetrics` | `EachReported` | `sdk/metrics/histogram.go:104` "Flush sends aggregated bucket counts to the database and resets counters" |
| `query_rate` | `MCQueryServer` | `RatesUseThePointAgo` | `query/executor.go:539` "Find the point 'duration' seconds ago using sliding window" |
| `query_timeout` | `MCQueryServer` | `QueriesTimeOut` | `query/handler.go:119` "Execute query with timeout" |

Why the bounds are enough. Two compactors are what the code can run (the initial and
the scheduled goroutine), and three samples are enough for a bucket with two, and a
second bucket in the same hour. In `ingest` two requests with limits of one
and two and seven series reach the largest overshoot and could exceed it by one; every
kind of cleanup happens. In the scheduler two failures use up one retry
and pass the threshold of one. Channels of capacity one are empty, full and blocking
within two connections; the code has 10 and 256. Three metrics fill a batch of
two, and let a batch grow past its size; two calls of a counter are what can
interleave, and an observation can come before and after the report; one goroutine makes them, in the order
of `Before`, since more would only permute them. In `store` the
contract is about a call and those that overlap it: three calls give a writer, one that
disturbs it and one that reads, in every combination of time-out, failure, late commit,
conflict and crash, and an import of two batches whose first or second one fails beside
another request. In `query` the expressions are pairs and triples of operators of every
level, every aggregation, and selectors that tell each label apart; the rates have
counters that fall, samples exactly at the start of a window and windows without samples;
charts have as many points as asked for, one more, and more than twice as many. Two
requests are enough for the counter: a third adds no kind of overlap, and the theorem about it
holds for any number. Everything the proofs cover holds for any bounds.

Deadlock is checked in the runs of compaction and ingest by default; the others turn
it off because the process exits, every call or request has been answered, the hub and the monitor can get stuck (which is a
finding), or the application may stop calling.

Fairness. Compaction: the ticker fires and the goroutine runs (weak fairness).
Scheduler: strong fairness of each goroutine, as Go's RWMutex hands over to waiting
readers after each writer and `select` picks among ready cases at random. Hub: the
same for the select cases; a write to a dead peer cannot succeed for ever (buffers are
finite and the write has a deadline); some query returns data. Nothing is
assumed of the connections. SDK: goroutines run, the ticker ticks; a flush does not wait for its send, so nothing is assumed of requests. Nothing
is assumed of the application or of the histogram. Store: the context of a call that has a
deadline ends at it, a goroutine takes a result that is there for it, and the memory store's
lock is released; nothing ends the context of a request or the background, and nothing is
assumed of a transaction, which may hang. So a call on Badger without a deadline may never return,
and `CallsReturn` claims its return only once its transaction is over. Query: only `query_timeout` assumes fairness,
that a request that is being executed takes its next step and the store answers it or fails
(`GoesOn`): even so it need not end. The passing run has no fairness and claims no end.

## 4. What is proved

All theorems are for every value of the constants, from the named assumptions of
the modules.

- `Compaction`, what survives: `TypeCorrect`, `Inductive` (`IInv`), `SamplesSurvive`
  (`NoSampleLost`), `AggregatesSurvive` (`NoAggregateLost`). The last three assume
  `Timely`: samples arrive within the 5m delay, the raw retention is not shorter than it, both
  steps commit at least as often as their window is wide, and a run is short against
  the distance between the tiers. With the code's constants: lateness at most 6h,
  gaps at most 6h, runs under 36h. `NoSampleLost` alone is not inductive: a deletion
  is safe because of what the last completed window covered and of what a compactor
  in its write step holds; `ClocksOK`, `SamplesOK` and `AggregatesOK` say that.
  `compaction_downtime` shows the assumption is needed.
- `Compaction`, what is counted: `FoldedAreCounted` (`OnlyEqualsMerge`), `CountedAtMostOnce`
  (`NoDoubleCount`) and `HoursAreComplete` (`HourIsComplete`). All
  are for samples of any values. `FoldedAreCounted` needs `Timely` alone, the others more:

  | Hypothesis | Says | Where it comes from | Needed by |
  |---|---|---|---|
  | `OneAtATime` | one compactor | the scheduler runs one after the other; the initial run may still overlap the first scheduled one, of which nothing is claimed here | `CountedAtMostOnce`, `HoursAreComplete` |
  | `CleanCuts` | raw retention at most the 5m delay (both 6h), and no window ends exactly on a sample's time | a query includes its end and a deletion excludes it, so a sample at exactly that nanosecond is folded and stays | the same |
  | `WholeHours` | an hour is whole buckets, `FromMetric` merges no two series, gap + 2d + 1h is within the 1h lookback of 7d, which is within the retention | constants of `compactor.go`; the gap may be close to five days | `HoursAreComplete` |

  Equal values are part of the properties: a bucket can have two aggregates of different samples
  with the same statistics, hence the same key (`types.go:48`), and one is then lost (`compaction_equal`).
  `ToldApart` says of the history that this has not happened in a bucket or hour; the counts are
  claimed only then, while what `OnlyEqualsMerge` says of the samples behind the aggregates, each
  being in one that is stored, is claimed always. No assumption restricts the values.

  The argument is a chain of invariants, each inductive with the ones before it: `Ledger`
  (the store and the history agree), `Provenance` (every aggregate merges samples that were
  folded, and every folded one is behind an aggregate), `GoneTogether` (the aggregates of
  a bucket leave at once and none comes after), which gives the lower bound; `InOrder` and
  `FoldedOnce` (a run starts after the one before it ended, and a folded sample is deleted
  before the next window is read), `Partition` (while no run failed, the aggregates of a
  bucket merge disjoint sets of samples), which gives the upper bound; and `HoursOK` (a 1h step reads
  every aggregate of its window, and an hour behind the last window is complete), which
  gives the hours. All of them were model-checked on the instance of `compaction_counts`
  first. The two bounds differ on purpose: a failed run can count twice
  (`compaction_retry`), and no failure makes a count too small.
- `Compaction`, what is final: `HistorySettles` (`SettledHistory`, an action property) under
  `Timely`, `OneAtATime` and a raw retention of at most the 5m delay, whatever runs fail and wherever
  windows end. The code computes windows that cut buckets at both ends, and a sample whose deletion
  failed is read again. `UpToDate` says why that does no harm: step 2 has been completed
  as often as step 3, so what is left of the raw samples is no older than the start of any
  window (`RawIsRecent`); a window holds all that is left up to its end (`ReadIsCurrent`); so it
  writes again the very aggregate that is there (`SettledIsMerged`). It was
  model-checked with runs at every instant and two failures before it was proved.
- `Ingest`: `TypeCorrect`, `TrackerBounded` (`SeenBounded`), `AdmissionBound`
  (`AdmittedBounded`, the strengthening: series tracked or admitted and not yet
  recorded), and `CountersCover` under `NoCommaInNames` (a rebuild
  cuts the name from the key at the first comma).
- `CompactionScheduler`: `TypeCorrect` (with: an error counted or about to be is a
  failed attempt) and `StatusIsSnapshot`. The invariant: whoever is inside `Status`
  holds the read lock, so no writer gets in between verdict and fields.
- `MetricsHub`: `TypeCorrect`, `ConnectionsKept` (`NoneLost`), `HealthyKept`
  (`HealthyStay`). The invariant adds that the hub never heard of a fresh connection
  and that whatever is to be unregistered has lost its peer.
- `SdkClient` (in `SdkMetricsProofs`): `TypeCorrect`, `FlushExclusive` (`OneFlush`, from: who flushes holds the
  flag), `NoneLostOrRepeated` (`SentOnce`, over the five places a metric can be in: a batch that was received and whose answer was lost is in one).
- `SdkMetrics`: `UsesClient` (`SdkSpec => Spec`): every step of the metrics is a step
  `SdkClient` allows or leaves the client alone; for `SendReport` this needs that
  reports stay within their bound. `SentOnceUnderMetrics` follows. `TotalsDistinct`
  (`TotalsSentOnce`): a total captured under the lock is above every one captured
  before, and only a call that captured one is sent. `ObservationsReported`
  (`ObservedOnce`): until a flush panics the observations made are those in the buckets and
  those in the reports taken, label set by label set, because a report and its reset are one
  critical section. `LabelledReported` (`EachReported`): a histogram only ever observed with labels
  (`AllLabelled`) never panics, so that this holds for good.
- `BadgerStore`: `BadgerInvariant`, and `BadgerKeepsPromise`
  (`BadgerSpec => Promise!Spec`, the refinement of `MetricStore`). The invariant
  relates a deletion's view to what has been there since its call: all of that
  is in the view, so committing the marked keys deletes it; and what came to have a marked key
  since has the same time and resolution, so it matches as well. The mapping takes effect at
  the commit, whether or not anybody waits for it. It assumes `OperationsFit`: every
  time written fits the key (years 1678 to 2262), which the code does not check. That
  conflicts are refused is not needed for the promise.
- `StoreClients`: `ClientInvariant` (`ClientIInv`), and from it `StoreTypes` (`TypeOK`),
  `WritesStay` (`AcknowledgedStays`), `ImportsComplete` (`ImportIsComplete`) and
  `StoreKeepsPromise` (`Spec => ImplementsStorage`): the composition refines `MetricStore`
  with either store behind it, for any clients, any file and any size of batch. The
  invariant adds to `BadgerIInv` that the memory store's slice is within its capacity
  and its calls do all their work in one step, what every answered call may still be held to, and
  which batches of the import are acknowledged. The memory store filters a slice by a loop
  (`Among`); the lemmas about it show that what is left is the set its
  contract names, in the order it had. Assumed besides `OperationsFit`:
  `ImportIsAsked`, that the batches of the file are among the operations the model offers.
- `QueryServer`: `LoneQueries` (`LoneQueryIsLimited`), for any number of requests, any
  expressions and any parser and executor. The invariant: of two requests that execute at once
  both are marked shared, hence the counter of one that is not marked lacks exactly what it
  found and has not added yet, in each of its steps. `QueryTypes` (`TypeOK`) adds that what a
  request found stays in the store and that an instant query answers with at most one
  point per series (`LastPointIsOne`).
- Answers (`QueryProofs`): an answered request was answered with what its expression
  evaluates to on what its selectors found, each a set of samples of one name that the store
  held when it was read (`AInv`). From that, and what the cases of `executeExpr` make of it:

  | Theorem | Property | Hypotheses | Argument |
  |---|---|---|---|
  | `SelfDifferences` | `SelfDifferenceIsZero` | `Evaluates`, `OneSampleEach` | the store grows, so the second search finds all that the first one found; points match by time, and one sample is one point |
  | `SeriesApart` | `SeriesStayApart` | `Evaluates` | the labels can be read back from a key: the entries between commas are exactly its pairs, so plain label sets with one key are one |
  | `CountsOfGroups` | `CountsEverySample` | `Evaluates`, `OneSampleEach` | the groups partition the series, a group's count at a time is the number of its series that have a point there, and each sample is such a point |
  | `RatesSpan` | `RatesSpanTheWindow` | `Evaluates` | the index that slides over a series never passes the window's start and never stops short of it; dividing by the duration and multiplying again gives the same fraction in lowest terms |
  | `ChartsKeepAverages` | `ChartKeepsAverages` | none | the selection of the earliest lists each sample once, in order; runs of equal length and a shorter last one cut the list into fewer than twice as many as asked for; finite fractions can be added in any order, so the average of a run times its length is the total of its samples |

  `Evaluates` says that `Evaluate` is a fixed point of `executeExpr`; `Eval` is one by
  definition, and as a part of an expression is smaller than the whole there always is
  one. `OneSampleEach` says that two samples of a name with one key and one time are one;
  the store guarantees it (`SampleConstants`) unless a label value holds a comma, as two series can then
  collide (section 5) and two samples count as one. `SeriesStayApart`,
  `RatesSpanTheWindow` and `ChartKeepsAverages` say the same about what was found, by
  `Plain`. A chart also needs `TimesApart`: a raw sample and an aggregate of it that begins when the
  sample was taken are two points of one line at one time.
- `SumTheorems`: sums over finite sets are defined by recursion over a choice of elements.
  Induction over finite sets is stated for a set of sets in place of a predicate
  (`FiniteInduction`), and from it: a sum may take out any element, changes with one value
  by as much, splits over disjoint sets, follows a bijection, and bounds the size of a union.
  `FoldExists` says that a fold over a finite set has a value for any way of choosing its
  elements, `PositionsRecursion` that a loop over positions does; `QueryProofs` rests on both
  where the code loops.

Only model-checked:

- all liveness (`EventuallyHourly`, `StopsScheduler`, `TasksStop`, `DeadAreClosed`,
  `EventuallyTaken`, `CallsReturn`): TLAPS does not do fairness;
- `ParsedAsWritten`, in `QueryExpressions`: the parser and its reference are recursive
  operators, which the provers cannot use.

## 5. Where code and documents disagree

With a run (`PROJECT.json`, "findings") or a counterexample of section 3: retries double-count; downtime loses raw
samples; `Status` can deadlock the monitor; the hub can block on its own channel; of two
partial aggregates of one bucket with equal statistics, which have the same key, one replaces the
other (`types.go:48`); small cleanups inflate the counters without limit, against
`cardinality.go:127`, until new series are refused although none is tracked; a rebuild counts a
metric whose name holds a comma under another name (`cardinality.go:145`); `Stop` loses the batch
it should flush, because it cancels the context that flush needs, against `client.go:145`; a histogram
observed without labels, as `client_test.go:101` does, panics at its next flush (`histogram.go:123`) and
ends the application; a rate's base is the last sample strictly before the window even where one lies exactly
at its start, so that with regular scrapes it covers a step more than its duration and is divided by the
duration, against `executor.go:539`; with a step of zero or less a constant loops for ever,
against `handler.go:119` ("Execute query with timeout"): there is no timeout, and `config.QueryTimeout` has
no reader.

Observed while modelling, without a run of its own:

- Several runs leave several 1h aggregates of one hour, against `compactor.go:124` ("1h aggregate = 1 per hour").
- Old samples restored by import are older than the 5m window and deleted by the
  next run, against the purpose stated in `export/doc.go:5`.
- `compaction/doc.go:126` gives 14 and 90 days of retention where the code has 6
  hours and 7 days.
- One batch can exceed `MaxUniqueSeries`, because it is checked before it is recorded,
  and concurrent ones by one batch each (`SeenBounded` says by how much), against `ingest/README.md:33`.
- A write that times out may commit; its series are then in the store and not in the
  tracker.
- The initial compaction is not in the wait group, so the store may be closed
  under it after a "clean" stop.
- A success counts for one hour and runs are an hour apart, so health turns
  "degraded" for the length of every run.
- A connection that dies at once can be unregistered before it is registered; it
  stays a client until a write to it fails.
- A ping that overlaps a broadcast write panics in gorilla and ends the server.
- A batch can outgrow `MaxBatchSize`, which is also what the server accepts.
- Starting an SDK client again after `Stop` closes a channel twice, and a `Stop` whose
  flush fails leaves the client started. It takes no last report of the histograms.
- A label name that is empty, which `ValidateMetric` admits, makes every chart of its metric
  panic (`dashboard.go:168`).
- Imports, exports, queries and the compactor call the store without a deadline of their own, so
  that a transaction that hangs holds them for as long.
- `FromMetric` drops every label that starts with an underscore, so series that differ only in such
  labels merge when they are compacted.
- The code of a health response and its body are decided one after the other and can disagree.
- A counter's total is captured under its lock and sent after it: totals can arrive, and
  be stamped, out of order, so a counter can fall. A histogram's samples carry no
  time and take that of their arrival.
- The bucket of bound 10 is labelled "+Inf" (`histogram.go:207-214`), although
  observations above 10 are not in it. A label value that holds a comma is cut.
- A write that timed out can commit after later ones and overwrite them.
- Aggregates count as series of their own in `Stats`; the limit of the list of metrics
  counts them too, and a metric that has only aggregates left is not listed.
- Times before 1678 and after 2262 wrap in the key, so that deletions and queries
  misjudge them.
- Queries that overlap share the executor's counter without a lock and can pass their
  limit or fail for each other's samples, against `executor.go:41` ("Track samples
  loaded per query").
- `!=` and the regular expression matchers are parsed and then ignored; so are
  comparisons, `and`, `or` and `unless`, which give NaN, `stddev`, `topk` and others, and
  aggregations in upper case.
- An operation between a selector and a number matches only samples at a step's own instant.
- Label values that hold a comma and an equals sign make two series or two groups one
  (`seriesKey`, `makeSeriesKey`).
- A chart of fewer than twice the points asked for is not thinned, and it mixes raw samples with
  their own aggregates.

## 6. Not modelled

- HTTP parsing and JSON or CSV shaping, logging, the lexer's characters, formats of
  times and durations beyond units, the browser front end and the example application:
  no state of interest.
- Badger itself is external. Two series whose strings have the same 64-bit hash are taken not to
  exist; series with the same string (unescaped commas) are one key to the store models. `RunGC` and `Close` change no contents.
- Rounding of floating point numbers; time zones. An aggregate's map is keyed by
  `time.Time`, so equal instants in different locations are two keys to it; the model
  has instants.
- The storage monitor: a cached measurement of the disk. How far the store can grow past
  its limit depends on sizes, which no model has; `Ingest` lets a request
  pass or be refused by it at any time.
- The runtime collector and the HTTP middleware of the SDK, which call the metrics and
  keep no state that is shared.
- A second `Start` of the client; a histogram report split over batches; the keys that
  the SDK joins label sets to; HTTP shutdown and set-up in `main`.
- Delays of retries, tick intervals and deadlines are nondeterministic, except where a property
  needs an order of times.

## 7. Plan

The plan of the first stage is carried out but for what section 6 lists. What would add
most next:

1. `Compaction` over the calls of `MetricStore` in place of its own atomic store, so
   that late commits of ingestion meet deletions in one model.
2. The order of shutdown over hub, scheduler, GC and store.
3. Proofs of the counts for two compactors that overlap as far as the scheduler allows.
