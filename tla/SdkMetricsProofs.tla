-------------------------- MODULE SdkMetricsProofs --------------------------
(***************************************************************************)
(* Theorems of the SDK.  Of its client, for any number of metrics and any  *)
(* batch size; of the client with a counter and a histogram on top, for    *)
(* any number of calls: the metrics use the client as its own model        *)
(* allows, so what is proved of the client holds under them, no two calls  *)
(* of a counter send the same value, and every observation is reported in  *)
(* one report, until a flush meets one made without labels: never, if all  *)
(* calls have labels.                                                      *)
(***************************************************************************)
EXTENDS SdkMetrics, SumTheorems

-----------------------------------------------------------------------------
(***************************************************************************)
(* The client.                                                             *)
(***************************************************************************)
\* A flush that was started holds the flag, and nobody else does.
FlagHeld ==
    \A p \in Flushers : pc[p] \in {"flush", "store"} => flushing

\* What OneFlush needs to be inductive: types, and the flag.
FInv == TypeOK /\ FlagHeld /\ OneFlush

\* The loop and Stop are not metrics, so their steps leave metrics' own alone.
LEMMA Names == "loop" \notin Metrics /\ "stop" \notin Metrics /\ "loop" # "stop"
  BY ClientConstants

\* The initial state is well typed, and nothing flushes in it.
LEMMA FInit == Init => FInv
  BY Names DEF Init, FInv, TypeOK, FlagHeld, OneFlush, Flushers, Senders

\* The type invariant is inductive by itself.
LEMMA TypeNext == TypeOK /\ [Next]_vars => TypeOK'
<1> SUFFICES ASSUME TypeOK, [Next]_vars PROVE TypeOK'
  OBVIOUS
<1> USE Names DEF TypeOK, Flushers, Senders, Goto, buffer, network
<1>1. ASSUME NEW m \in Metrics, SendMetric(m) PROVE TypeOK'
  BY <1>1 DEF SendMetric
<1>2. ASSUME NEW m \in Metrics, Append(m) PROVE TypeOK'
  BY <1>2 DEF Append
<1>3. ASSUME NEW m \in Metrics, FlushIfFull(m) PROVE TypeOK'
  BY <1>3 DEF FlushIfFull, CompareAndSwap
<1>4. ASSUME NEW p \in Flushers, Flush(p) PROVE TypeOK'
  BY <1>4 DEF Flush, Take
<1>5. ASSUME NEW p \in Flushers, FlushDone(p) PROVE TypeOK'
  BY <1>5 DEF FlushDone, StoreFalse
<1>6. ASSUME NEW b \in ready, BeginSend(b) PROVE TypeOK'
  BY <1>6 DEF BeginSend
<1>7. ASSUME NEW b \in onWire, EndSend(b) PROVE TypeOK'
  BY <1>7 DEF EndSend
<1>8. CASE LoopTick
  BY <1>8 DEF LoopTick, CompareAndSwap
<1>9. CASE LoopEnd
  BY <1>9 DEF LoopEnd
<1>10. CASE Start \/ ContextCancelled
  BY <1>10 DEF Start, ContextCancelled
<1>11. CASE StopBegin
  BY <1>11 DEF StopBegin
<1>12. CASE StopFlush
  BY <1>12 DEF StopFlush
<1>13. CASE UNCHANGED vars
  BY <1>13 DEF vars
<1> QED
  BY <1>1, <1>2, <1>3, <1>4, <1>5, <1>6, <1>7, <1>8, <1>9, <1>10, <1>11, <1>12,
     <1>13 DEF Next

\* The flag excludes a second flush: a step that begins one finds it down, and
\* it goes down only where the one flush ends.
LEMMA FlushNext == FInv /\ [Next]_vars => FInv'
<1> SUFFICES ASSUME FInv, [Next]_vars PROVE FlagHeld' /\ OneFlush'
  BY TypeNext DEF FInv
<1> USE Names DEF FInv, FlagHeld, OneFlush, TypeOK, Flushers, Senders, Goto, buffer
<1>1. ASSUME NEW m \in Metrics, SendMetric(m) \/ Append(m)
      PROVE  FlagHeld' /\ OneFlush'
  BY <1>1 DEF SendMetric, Append
<1>2. ASSUME NEW m \in Metrics, FlushIfFull(m)
      PROVE  FlagHeld' /\ OneFlush'
  BY <1>2 DEF FlushIfFull, CompareAndSwap
<1>3. ASSUME NEW p \in Flushers, Flush(p) PROVE FlagHeld' /\ OneFlush'
  BY <1>3 DEF Flush, Take
<1>4. ASSUME NEW p \in Flushers, FlushDone(p) PROVE FlagHeld' /\ OneFlush'
  BY <1>4 DEF FlushDone, StoreFalse
<1>5. ASSUME NEW b, BeginSend(b) \/ EndSend(b) PROVE FlagHeld' /\ OneFlush'
  BY <1>5 DEF BeginSend, EndSend
<1>6. CASE LoopTick
  BY <1>6 DEF LoopTick, CompareAndSwap
<1>7. CASE LoopEnd \/ Start \/ ContextCancelled
  BY <1>7 DEF LoopEnd, Start, ContextCancelled
<1>8. CASE StopBegin \/ StopFlush
  BY <1>8 DEF StopBegin, StopFlush
<1>9. CASE UNCHANGED vars
  BY <1>9 DEF vars
<1> QED
  BY <1>1, <1>2, <1>3, <1>4, <1>5, <1>6, <1>7, <1>8, <1>9 DEF Next

\* The client and its batcher are well typed in every reachable state.
THEOREM TypeCorrect == Spec => []TypeOK
<1>1. Init => TypeOK
  BY FInit DEF FInv
<1> QED
  BY <1>1, TypeNext, PTL DEF Spec

\* However many calls fill the batch at once, only one flush runs at a time.
THEOREM FlushExclusive == Spec => []OneFlush
<1>1. FInv => OneFlush
  BY DEF FInv
<1> QED
  BY <1>1, FInit, FlushNext, PTL DEF Spec

-----------------------------------------------------------------------------
(***************************************************************************)
(* SentOnce, with the pairs of places written out and batches as sets.     *)
(***************************************************************************)
Queued == UNION ready
Flying == UNION onWire

Sent == received \cup failed

Apart ==
    /\ metrics \cap Queued = {} /\ metrics \cap Flying = {}
    /\ metrics \cap Sent = {} /\ metrics \cap dropped = {}
    /\ Queued \cap Flying = {} /\ Queued \cap Sent = {} /\ Queued \cap dropped = {}
    /\ Flying \cap Sent = {} /\ Flying \cap dropped = {}
    /\ Sent \cap dropped = {}

Everywhere == metrics \cup Queued \cup Flying \cup Sent \cup dropped

BatchesApart == \A b, d \in ready \cup onWire : b # d => b \cap d = {}

Once == Everywhere = Taken /\ Apart /\ BatchesApart

\* The two forms agree.
LEMMA OnceIsSentOnce == Once => SentOnce
<1> SUFFICES ASSUME Once PROVE SentOnce
  OBVIOUS
<1> DEFINE P == Places
<1>0. /\ P[1] = metrics /\ P[2] = Queued /\ P[3] = Flying
      /\ P[4] = Sent /\ P[5] = dropped
  BY DEF Places, Queued, Flying, Sent
<1>1. 1..5 = {1, 2, 3, 4, 5}
  OBVIOUS
<1> HIDE DEF P
<1>2. UNION {P[i] : i \in 1..5} = Everywhere
  <2>1. {P[i] : i \in 1..5} = {P[1], P[2], P[3], P[4], P[5]}
    BY <1>1
  <2> QED
    BY <2>1, <1>0 DEF Everywhere
<1>3. \A i, j \in 1..5 : i # j => P[i] \cap P[j] = {}
  BY <1>0, <1>1 DEF Once, Apart
<1> QED
  BY <1>2, <1>3 DEF SentOnce, Once, BatchesApart, P

\* A batch that joins or leaves a set of batches takes its metrics along.
LEMMA BatchJoins ==
    ASSUME NEW S, NEW b PROVE UNION (S \cup {b}) = (UNION S) \cup b
  OBVIOUS

LEMMA BatchLeaves ==
    ASSUME NEW S, NEW b \in S, \A d \in S : d # b => d \cap b = {}
    PROVE  UNION (S \ {b}) = (UNION S) \ b /\ b \subseteq UNION S
  OBVIOUS

\* Every step moves metrics from one place to another, or takes a new one.
LEMMA OnceNext == TypeOK /\ Once /\ [Next]_vars => Once'
<1> SUFFICES ASSUME TypeOK, Once, [Next]_vars PROVE Once'
  OBVIOUS
<1> USE Names DEF TypeOK, Flushers, Senders, Goto, buffer, network, Taken, Sent
<1>1. ASSUME NEW m \in Metrics, SendMetric(m) PROVE Once'
  BY <1>1 DEF SendMetric, Once, Apart, Everywhere, BatchesApart, Queued, Flying
<1>2. ASSUME NEW m \in Metrics, Append(m) PROVE Once'
  <2>1. Taken' = Taken \cup {m} /\ m \notin Taken
    BY <1>2 DEF Append
  <2>2. metrics' = metrics \cup {m} /\ UNCHANGED network
    BY <1>2 DEF Append
  <2> QED
    BY <2>1, <2>2 DEF Once, Apart, Everywhere, BatchesApart, Queued, Flying
<1>3. ASSUME NEW m \in Metrics, FlushIfFull(m) PROVE Once'
  BY <1>3 DEF FlushIfFull, CompareAndSwap, Once, Apart, Everywhere, BatchesApart,
              Queued, Flying
<1>4. ASSUME NEW p \in Flushers, Flush(p) PROVE Once'
  <2>1. Taken' = Taken /\ metrics' = {} /\ UNCHANGED <<onWire, received, failed, dropped>>
    BY <1>4 DEF Flush, Take
  <2>2. Queued' = Queued \cup metrics
    BY <1>4, BatchJoins DEF Flush, Take, Queued
  <2>3. BatchesApart'
    <3>1. ready' \subseteq ready \cup {metrics}
      BY <1>4 DEF Flush, Take
    <3>2. \A b \in ready \cup onWire : b \cap metrics = {}
      BY DEF Once, Apart, Queued, Flying
    <3> QED
      BY <2>1, <3>1, <3>2 DEF Once, BatchesApart
  <2> QED
    BY <2>1, <2>2, <2>3 DEF Once, Apart, Everywhere, Flying
<1>5. ASSUME NEW p \in Flushers, FlushDone(p) PROVE Once'
  BY <1>5 DEF FlushDone, StoreFalse, Once, Apart, Everywhere, BatchesApart, Queued,
              Flying
<1>6. ASSUME NEW b \in ready, BeginSend(b) PROVE Once'
  <2>1. /\ Taken' = Taken
        /\ UNCHANGED <<metrics, received, failed>>
        /\ ready' = ready \ {b}
        /\ \/ dropped' = dropped \cup b /\ UNCHANGED onWire
           \/ onWire' = onWire \cup {b} /\ UNCHANGED dropped
    BY <1>6 DEF BeginSend
  <2>2. Queued' = Queued \ b /\ b \subseteq Queued
    BY <2>1, BatchLeaves DEF Queued, Once, BatchesApart
  <2>3. BatchesApart'
    BY <2>1 DEF Once, BatchesApart
  <2>4. CASE dropped' = dropped \cup b /\ UNCHANGED onWire
    BY <2>1, <2>2, <2>3, <2>4 DEF Once, Apart, Everywhere, Flying
  <2>5. CASE onWire' = onWire \cup {b} /\ UNCHANGED dropped
    <3>1. Flying' = Flying \cup b
      BY <2>5, BatchJoins DEF Flying
    <3> QED
      BY <2>1, <2>2, <2>3, <2>5, <3>1 DEF Once, Apart, Everywhere
  <2> QED
    BY <2>1, <2>4, <2>5
<1>7. ASSUME NEW b \in onWire, EndSend(b) PROVE Once'
  <2>1. /\ Taken' = Taken
        /\ UNCHANGED <<metrics, ready, dropped>>
        /\ onWire' = onWire \ {b}
        /\ Sent' = Sent \cup b
    <3>1. PICK taken \in BOOLEAN, acknowledged \in BOOLEAN :
              /\ acknowledged => taken
              /\ received' = IF taken THEN received \cup b ELSE received
              /\ failed' = IF acknowledged THEN failed ELSE failed \cup b
      BY <1>7 DEF EndSend
    <3>2. Sent' = Sent \cup b
      BY <3>1
    <3> QED
      BY <1>7, <3>2 DEF EndSend
  <2>2. Flying' = Flying \ b /\ b \subseteq Flying
    BY <2>1, BatchLeaves DEF Flying, Once, BatchesApart
  <2>3. BatchesApart'
    BY <2>1 DEF Once, BatchesApart
  <2> QED
    BY <2>1, <2>2, <2>3 DEF Once, Apart, Everywhere, Queued
<1>8. CASE LoopTick
  BY <1>8 DEF LoopTick, CompareAndSwap, Once, Apart, Everywhere, BatchesApart, Queued,
              Flying
<1>9. CASE LoopEnd \/ Start \/ ContextCancelled
  BY <1>9 DEF LoopEnd, Start, ContextCancelled, Once, Apart, Everywhere, BatchesApart,
              Queued, Flying
<1>10. CASE StopBegin
  BY <1>10 DEF StopBegin, Once, Apart, Everywhere, BatchesApart, Queued, Flying
<1>11. CASE StopFlush
  BY <1>11 DEF StopFlush, Once, Apart, Everywhere, BatchesApart, Queued, Flying
<1>12. CASE UNCHANGED vars
  BY <1>12 DEF vars, Once, Apart, Everywhere, BatchesApart, Queued, Flying
<1> QED
  BY <1>1, <1>2, <1>3, <1>4, <1>5, <1>6, <1>7, <1>8, <1>9, <1>10, <1>11, <1>12
     DEF Next

\* Every metric that Add took is in exactly one place: none vanishes between
\* the calls, the loop, the sends and Stop, and none is sent twice.
THEOREM NoneLostOrRepeated == Spec => []SentOnce
<1>1. Init => Once
  BY Names DEF Init, Once, Apart, Everywhere, BatchesApart, Queued, Flying, Taken,
               Senders, Sent
<1>2. Init => TypeOK
  BY FInit DEF FInv
<1> QED
  BY <1>1, <1>2, TypeNext, OnceNext, OnceIsSentOnce, PTL DEF Spec

-----------------------------------------------------------------------------
(***************************************************************************)
(* The counter on top of it.                                               *)
(***************************************************************************)
\* What of the histogram the client's side needs: reports are within their bound.
ReportCount == report \in 0 .. MaxReports

\* What TotalsSentOnce rests on: a total read under the lock is above every one
\* read before it, and what was sent is what was read.
CapturedOnce ==
    /\ total \in Nat
    /\ captured \in [Adds -> Nat]
    /\ value \in [Adds -> Nat]
    /\ \A a \in Adds : captured[a] <= total
    /\ \A a, b \in Adds : captured[a] # 0 /\ captured[a] = captured[b] => a = b
    /\ \A a \in Adds : pc[a] # "new" => captured[a] # 0 /\ value[a] = captured[a]

CounterInv == TypeOK /\ ReportCount /\ CapturedOnce

\* The calls of the counter are among the client's, and the loop and Stop are not.
LEMMA AddsAreMetrics == Adds \subseteq Metrics /\ Adds \subseteq Senders
  BY MetricsConstants DEF Senders

\* A report is taken only while the bound allows one.
LEMMA ReportStep == ReportCount /\ [SdkNext]_sdkVars => ReportCount'
<1> SUFFICES ASSUME ReportCount, [SdkNext]_sdkVars PROVE ReportCount'
  OBVIOUS
<1> USE MetricsConstants DEF ReportCount
<1>1. CASE FlushHistogram
  BY <1>1 DEF FlushHistogram
<1>2. CASE UNCHANGED report
  BY <1>2
<1>3. SdkNext /\ ~ FlushHistogram => UNCHANGED report
  BY DEF SdkNext, Inc, SendCounter, Observe, FlushPanics, SendReport, Client,
         metricVars, histogram
<1> QED
  BY <1>1, <1>2, <1>3 DEF sdkVars, metricVars, histogram

\* A step of the metrics is a step of the client, or leaves the client alone.
LEMMA StepOfClient == ReportCount /\ [SdkNext]_sdkVars => [Next]_vars
<1> SUFFICES ASSUME ReportCount, [SdkNext]_sdkVars PROVE [Next]_vars
  OBVIOUS
<1>1. ASSUME NEW a \in Adds, Inc(a) PROVE [Next]_vars
  BY <1>1 DEF Inc
<1>2. ASSUME NEW a \in Adds, SendCounter(a) PROVE [Next]_vars
  BY <1>2, AddsAreMetrics DEF SendCounter, Next
<1>3. ASSUME NEW o \in DOMAIN Observed, Observe(o) PROVE [Next]_vars
  BY <1>3 DEF Observe
<1>4. CASE FlushHistogram \/ FlushPanics
  BY <1>4 DEF FlushHistogram, FlushPanics
<1>5. CASE SendReport
  <2>1. report \in 1 .. MaxReports
    BY <1>5, MetricsConstants DEF SendReport, ReportCount
  <2>2. ReportMetric[report] \in Metrics
    BY <2>1, MetricsConstants
  <2> QED
    BY <1>5, <2>2 DEF SendReport, Next
<1>6. CASE Client
  BY <1>6 DEF Client, Next
<1>7. CASE UNCHANGED sdkVars
  BY <1>7 DEF sdkVars
<1> QED
  BY <1>1, <1>2, <1>3, <1>4, <1>5, <1>6, <1>7 DEF SdkNext

\* The metrics use the client as SdkClient allows: a specification of the client
\* with its environment is implemented by the client with its metrics.
THEOREM UsesClient == SdkSpec => Spec
<1>1. SdkInit => Init /\ ReportCount
  BY MetricsConstants DEF SdkInit, ReportCount
<1> QED
  BY <1>1, ReportStep, StepOfClient, PTL DEF SdkSpec, Spec

\* Under a counter and a histogram too, every metric that was taken is in exactly
\* one place.
THEOREM SentOnceUnderMetrics == SdkSpec => []SentOnce
  BY UsesClient, NoneLostOrRepeated, PTL

-----------------------------------------------------------------------------
\* Once a call of the client has begun it is never a new one again, and only
\* SendMetric begins one.
LEMMA ClientKeepsNew ==
    ASSUME TypeOK, Client, NEW a \in Adds
    PROVE  pc'[a] # "new" => pc[a] # "new"
<1> USE AddsAreMetrics, Names DEF Client, TypeOK, Senders, Flushers, Goto
<1>1. ASSUME NEW m \in Metrics, Append(m) \/ FlushIfFull(m)
      PROVE  pc'[a] # "new" => pc[a] # "new"
  BY <1>1 DEF Append, FlushIfFull, CompareAndSwap
<1>2. ASSUME NEW p \in Flushers, Flush(p) \/ FlushDone(p)
      PROVE  pc'[a] # "new" => pc[a] # "new"
  BY <1>2 DEF Flush, FlushDone
<1>3. ASSUME NEW b, BeginSend(b) \/ EndSend(b) PROVE pc' = pc
  BY <1>3 DEF BeginSend, EndSend
<1>4. CASE LoopTick \/ LoopEnd
  BY <1>4 DEF LoopTick, LoopEnd, CompareAndSwap
<1>5. CASE Start \/ ContextCancelled \/ StopBegin \/ StopFlush
  BY <1>5 DEF Start, ContextCancelled, StopBegin, StopFlush
<1> QED
  BY <1>1, <1>2, <1>3, <1>4, <1>5

\* A call captures a total above all others and sends that; no other step touches it.
LEMMA CounterStep == CounterInv /\ [SdkNext]_sdkVars => CapturedOnce'
<1> SUFFICES ASSUME CounterInv, [SdkNext]_sdkVars PROVE CapturedOnce'
  OBVIOUS
<1> USE AddsAreMetrics DEF CounterInv, CapturedOnce
<1>1. ASSUME NEW a \in Adds, Inc(a) PROVE CapturedOnce'
  <2>1. pc' = pc /\ value' = value
    BY <1>1 DEF Inc, vars
  <2>2. /\ captured[a] = 0
        /\ total' = total + 1
        /\ captured' = [captured EXCEPT ![a] = total + 1]
    BY <1>1 DEF Inc
  <2>3. \A b \in Adds : captured'[b] = IF b = a THEN total + 1 ELSE captured[b]
    BY <2>2
  <2>4. \A b, c \in Adds :
            captured'[b] # 0 /\ captured'[b] = captured'[c] => b = c
    BY <2>3
  <2>5. \A b \in Adds : pc'[b] # "new" => captured'[b] # 0 /\ value'[b] = captured'[b]
    BY <2>1, <2>2, <2>3
  <2>6. \A b \in Adds : captured'[b] <= total'
    BY <2>2, <2>3
  <2> QED
    BY <2>1, <2>2, <2>4, <2>5, <2>6
<1>2. ASSUME NEW a \in Adds, SendCounter(a) PROVE CapturedOnce'
  <2>1. /\ captured[a] # 0
        /\ value' = [value EXCEPT ![a] = captured[a]]
        /\ total' = total
        /\ captured' = captured
    BY <1>2 DEF SendCounter, newValue
  <2>2. \A b \in Adds : b # a => pc'[b] = pc[b]
    BY <1>2 DEF SendCounter, SendMetric, Goto, TypeOK
  <2>3. \A b \in Adds : pc'[b] # "new" => captured'[b] # 0 /\ value'[b] = captured'[b]
    BY <2>1, <2>2
  <2> QED
    BY <2>1, <2>3
<1>3. CASE UNCHANGED <<counter, pc>>
  BY <1>3 DEF counter
<1>4. ASSUME NEW o \in DOMAIN Observed, Observe(o) PROVE CapturedOnce'
  BY <1>3, <1>4 DEF Observe, vars
<1>5. CASE FlushHistogram \/ FlushPanics
  BY <1>3, <1>5 DEF FlushHistogram, FlushPanics, vars
<1>6. CASE SendReport
  <2>1. ReportMetric[report] \notin Adds
    BY <1>6, MetricsConstants DEF SendReport, ReportCount
  <2>2. UNCHANGED counter /\ \A a \in Adds : pc'[a] = pc[a]
    BY <1>6, <2>1 DEF SendReport, SendMetric, Goto, TypeOK, metricVars
  <2> QED
    BY <2>2 DEF counter
<1>7. CASE Client
  <2>1. UNCHANGED counter
    BY <1>7 DEF Client, metricVars
  <2>2. \A a \in Adds : pc'[a] # "new" => pc[a] # "new"
    BY <1>7, ClientKeepsNew
  <2> QED
    BY <2>1, <2>2 DEF counter
<1>8. CASE UNCHANGED sdkVars
  BY <1>3, <1>8 DEF sdkVars, metricVars, vars
<1> QED
  BY <1>1, <1>2, <1>4, <1>5, <1>6, <1>7, <1>8 DEF SdkNext

\* However calls of a counter interleave, no two of them send the same total.
THEOREM TotalsDistinct == SdkSpec => []TotalsSentOnce
<1>1. SdkInit => CapturedOnce /\ ReportCount
  BY AddsAreMetrics, Names, MetricsConstants
     DEF SdkInit, Init, CapturedOnce, ReportCount, Senders
<1>2. CapturedOnce => TotalsSentOnce
  BY DEF CapturedOnce, TotalsSentOnce
<1>3. SdkSpec => []TypeOK
  BY UsesClient, TypeCorrect, PTL
<1> QED
  BY <1>1, <1>2, <1>3, CounterStep, ReportStep, PTL DEF SdkSpec, CounterInv

-----------------------------------------------------------------------------
(***************************************************************************)
(* The histogram.                                                          *)
(***************************************************************************)
\* What the reports say of a bucket of a label set, one by one.
InReports(l, b) == [n \in 1 .. MaxReports |-> reported[n][l][b]]

\* While the process runs, every observation is in a report or in the next one.
AllCounted ==
    \A l \in LabelSets, b \in Buckets :
        counts[l][b] + Reported(l, b) = Cardinality(Within(l, b))

Empty == [l \in LabelSets |-> NoCounts]

\* What ObservedOnce rests on: there are finitely many observations, and reports
\* that were not taken say nothing.
HistogramInv ==
    /\ ReportCount
    /\ IsFiniteSet(observations)
    /\ counts \in [LabelSets -> [Buckets -> Nat]]
    /\ reported \in [1 .. MaxReports -> [LabelSets -> [Buckets -> Nat]]]
    /\ \A n \in 1 .. MaxReports : report < n => reported[n] = Empty
    /\ AllCounted

LEMMA SumOfReports ==
    ASSUME NEW l, NEW b
    PROVE  Reported(l, b) = SumFunctionOnSet(InReports(l, b), 1 .. MaxReports)
  BY DEF Reported, SumFunction, InReports

\* A report says a number of each bucket of each label set.
LEMMA InReport ==
    ASSUME HistogramInv, NEW n \in 1 .. MaxReports, NEW l \in LabelSets, NEW b \in Buckets
    PROVE  reported[n][l][b] \in Nat
  <1>1. PICK row : row = reported[n] /\ row \in [LabelSets -> [Buckets -> Nat]]
    BY DEF HistogramInv
  <1>2. row[l] \in [Buckets -> Nat]
    BY <1>1
  <1>. QED
    BY <1>1, <1>2

\* What the reports say of a bucket is a number of observations.
LEMMA ReportsNat ==
    ASSUME HistogramInv, NEW l \in LabelSets, NEW b \in Buckets
    PROVE  Reported(l, b) \in Nat
  <1>1. IsFiniteSet(1 .. MaxReports)
    BY MetricsConstants, FS_Interval
  <1>2. \A n \in 1 .. MaxReports : InReports(l, b)[n] \in Nat
    BY InReport DEF InReports
  <1>. QED
    BY <1>1, <1>2, SumType, SumOfReports

\* At the start nothing was observed and nothing reported.
LEMMA HistogramInit == SdkInit => HistogramInv
  <1>. SUFFICES ASSUME SdkInit PROVE HistogramInv
    OBVIOUS
  <1>. USE MetricsConstants DEF SdkInit, NoCounts
  <1>1. ASSUME NEW l \in LabelSets, NEW b \in Buckets
        PROVE  counts[l][b] + Reported(l, b) = Cardinality(Within(l, b))
    <2>1. IsFiniteSet(1 .. MaxReports)
      BY FS_Interval
    <2>2. \A n \in 1 .. MaxReports : InReports(l, b)[n] = 0
      BY <1>1 DEF InReports
    <2>3. \A S \in SUBSET (1 .. MaxReports) : SumFunctionOnSet(InReports(l, b), S) = 0
      BY <2>1, <2>2, SumOfZeros
    <2>4. Reported(l, b) = 0
      BY <2>3, SumOfReports
    <2>5. Within(l, b) = {}
      BY DEF Within
    <2>. QED
      BY <1>1, <2>4, <2>5, FS_EmptySet
  <1>. QED
    BY <1>1, FS_EmptySet DEF HistogramInv, ReportCount, AllCounted, Empty

\* An observation is counted in each of its buckets, once.
LEMMA ObserveStep ==
    ASSUME HistogramInv, NEW o \in DOMAIN Observed, Observe(o)
    PROVE  HistogramInv'
  <1>. USE DEF HistogramInv
  <1>1. /\ o \notin observations
        /\ observations' = observations \cup {o}
        /\ UNCHANGED <<report, reported>>
    BY DEF Observe
  <1>2. PICK k : k = Labels[o] /\ k \in LabelSets
    BY MetricsConstants
  <1>3. counts' = [counts EXCEPT ![k] =
                       [b \in Buckets |-> counts[k][b] + IF Observed[o] <= b THEN 1 ELSE 0]]
    BY <1>2 DEF Observe, observe
  <1>4. counts' \in [LabelSets -> [Buckets -> Nat]]
    <2>1. [b \in Buckets |-> counts[k][b] + IF Observed[o] <= b THEN 1 ELSE 0]
              \in [Buckets -> Nat]
      BY <1>2
    <2>. QED
      BY <1>2, <1>3, <2>1
  <1>5. IsFiniteSet(observations')
    BY <1>1, FS_AddElement
  <1>6. ASSUME NEW l \in LabelSets, NEW b \in Buckets
        PROVE  counts'[l][b] + Reported(l, b)' = Cardinality(Within(l, b)')
    <2>1. Reported(l, b)' = Reported(l, b)
      BY <1>1 DEF Reported
    <2>2. counts[l][b] + Reported(l, b) = Cardinality(Within(l, b))
      BY DEF AllCounted
    <2>3. Reported(l, b) \in Nat /\ counts[l][b] \in Nat
      BY <1>6, ReportsNat
    <2>4. IsFiniteSet(Within(l, b)) /\ o \notin Within(l, b)
      BY <1>1, FS_Subset DEF Within
    <2>5. CASE l = k /\ Observed[o] <= b
      <3>1. Within(l, b)' = Within(l, b) \cup {o}
        BY <1>1, <1>2, <2>5 DEF Within
      <3>2. Cardinality(Within(l, b)') = Cardinality(Within(l, b)) + 1
        BY <2>4, <3>1, FS_AddElement
      <3>3. counts'[l][b] = counts[l][b] + 1
        BY <1>2, <1>3, <2>5
      <3>. QED
        BY <2>1, <2>2, <2>3, <3>2, <3>3
    <2>6. CASE ~ (l = k /\ Observed[o] <= b)
      <3>1. Within(l, b)' = Within(l, b)
        BY <1>1, <1>2, <2>6 DEF Within
      <3>2. counts'[l][b] = counts[l][b]
        BY <1>2, <1>3, <2>3, <2>6
      <3>. QED
        BY <2>1, <2>2, <3>1, <3>2
    <2>. QED
      BY <2>5, <2>6
  <1>. QED
    BY <1>1, <1>4, <1>5, <1>6 DEF ReportCount, AllCounted, Empty, NoCounts

\* Taking a report changes what the reports say by what is in it.
LEMMA OneReport ==
    ASSUME MaxReports \in Nat, NEW before, NEW after, NEW k \in 1 .. MaxReports,
           before[k] = 0,
           \A n \in 1 .. MaxReports : before[n] \in Int /\ after[n] \in Int,
           \A n \in 1 .. MaxReports : n # k => after[n] = before[n]
    PROVE  SumFunctionOnSet(after, 1 .. MaxReports) =
               SumFunctionOnSet(before, 1 .. MaxReports) + after[k]
  <1>1. IsFiniteSet(1 .. MaxReports)
    BY FS_Interval
  <1>2. SumFunctionOnSet(after, 1 .. MaxReports) =
            SumFunctionOnSet(before, 1 .. MaxReports) - before[k] + after[k]
    BY <1>1, SumChange
  <1>3. SumFunctionOnSet(before, 1 .. MaxReports) \in Int
    BY <1>1, SumType
  <1>. QED
    BY <1>2, <1>3

\* So a report of what was counted in a bucket adds that to the reports.
LEMMA FlushedInReports ==
    ASSUME HistogramInv, FlushHistogram, NEW l \in LabelSets, NEW b \in Buckets
    PROVE  Reported(l, b)' = Reported(l, b) + counts[l][b]
  <1>1. PICK k : /\ k = report + 1
                 /\ k \in 1 .. MaxReports
                 /\ reported' = [reported EXCEPT ![k] = counts]
                 /\ reported[k] = Empty
    <2>1. report + 1 \in 1 .. MaxReports /\ report < report + 1
      BY MetricsConstants DEF FlushHistogram, HistogramInv, ReportCount
    <2>2. reported' = [reported EXCEPT ![report + 1] = counts]
      BY DEF FlushHistogram
    <2>3. reported[report + 1] = Empty
      BY <2>1 DEF HistogramInv
    <2>. QED
      BY <2>1, <2>2, <2>3
  <1>2. /\ counts[l][b] \in Nat
        /\ \A n \in 1 .. MaxReports : reported[n][l][b] \in Nat
        /\ reported[k][l][b] = 0
    <2>1. counts[l][b] \in Nat
      BY DEF HistogramInv
    <2>2. \A n \in 1 .. MaxReports : reported[n][l][b] \in Nat
      BY InReport
    <2>3. reported[k][l][b] = 0
      BY <1>1 DEF Empty, NoCounts
    <2>. QED
      BY <2>1, <2>2, <2>3
  <1>3. DOMAIN reported = 1 .. MaxReports
    BY DEF HistogramInv
  <1>4. PICK before, after : before = InReports(l, b) /\ after = InReports(l, b)'
    OBVIOUS
  <1>5. \A n \in 1 .. MaxReports : before[n] = reported[n][l][b] /\ after[n] = reported'[n][l][b]
    BY <1>4 DEF InReports
  <1>6. /\ before[k] = 0
        /\ after[k] = counts[l][b]
        /\ \A n \in 1 .. MaxReports : n # k => after[n] = before[n]
        /\ \A n \in 1 .. MaxReports : before[n] \in Int /\ after[n] \in Int
    BY <1>1, <1>2, <1>3, <1>5
  <1>7. MaxReports \in Nat /\ k \in 1 .. MaxReports
    BY <1>1, MetricsConstants
  <1>8. SumFunctionOnSet(after, 1 .. MaxReports) =
            SumFunctionOnSet(before, 1 .. MaxReports) + after[k]
    BY <1>6, <1>7, OneReport
  <1>9. /\ Reported(l, b) = SumFunctionOnSet(before, 1 .. MaxReports)
        /\ Reported(l, b)' = SumFunctionOnSet(after, 1 .. MaxReports)
    BY <1>4 DEF Reported, SumFunction, InReports
  <1>. QED
    BY <1>6, <1>8, <1>9

\* A report takes what was counted and leaves nothing behind.
LEMMA FlushStep == HistogramInv /\ FlushHistogram => HistogramInv'
  <1>. SUFFICES ASSUME HistogramInv, FlushHistogram PROVE HistogramInv'
    OBVIOUS
  <1>. USE MetricsConstants DEF HistogramInv, ReportCount
  <1>. DEFINE k == report + 1
  <1>1. /\ k \in 1 .. MaxReports
        /\ report' = k
        /\ reported' = [reported EXCEPT ![k] = counts]
        /\ counts' = Empty
        /\ UNCHANGED observations
    BY DEF FlushHistogram, reset, Empty
  <1>2. Empty' = Empty
    BY DEF Empty, NoCounts
  <1>3. ASSUME NEW l \in LabelSets, NEW b \in Buckets
        PROVE  counts'[l][b] + Reported(l, b)' = Cardinality(Within(l, b)')
    <2>1. counts[l][b] \in Nat /\ counts'[l][b] = 0
      BY <1>1, <1>3 DEF Empty, NoCounts
    <2>2. Reported(l, b) \in Nat /\ Reported(l, b)' = Reported(l, b) + counts[l][b]
      BY <1>3, ReportsNat, FlushedInReports
    <2>3. counts[l][b] + Reported(l, b) = Cardinality(Within(l, b))
      BY <1>3 DEF AllCounted
    <2>4. Within(l, b)' = Within(l, b)
      BY <1>1 DEF Within
    <2>. QED
      BY <2>1, <2>2, <2>3, <2>4
  <1>4. AllCounted'
    BY <1>3 DEF AllCounted
  <1>5. /\ counts' \in [LabelSets -> [Buckets -> Nat]]
        /\ reported' \in [1 .. MaxReports -> [LabelSets -> [Buckets -> Nat]]]
    BY <1>1 DEF Empty, NoCounts
  <1>6. \A n \in 1 .. MaxReports : report' < n => reported'[n] = Empty
    BY <1>1
  <1>. QED
    BY <1>1, <1>2, <1>4, <1>5, <1>6

\* Every other step leaves what was observed and reported alone.
LEMMA HistogramStep == HistogramInv /\ [SdkNext]_sdkVars => HistogramInv'
  <1>. SUFFICES ASSUME HistogramInv, [SdkNext]_sdkVars PROVE HistogramInv'
    OBVIOUS
  <1>. DEFINE Kept == UNCHANGED <<observations, counts, report, reported>>
  <1>1. CASE Kept
    BY <1>1 DEF HistogramInv, ReportCount, AllCounted, Reported, Within, Empty, NoCounts
  <1>2. \/ \E o \in DOMAIN Observed : Observe(o)
        \/ FlushHistogram
        \/ Kept
    BY DEF SdkNext, Inc, SendCounter, FlushPanics, SendReport, Client, metricVars,
           sdkVars, histogram
  <1>. QED
    BY <1>1, <1>2, ObserveStep, FlushStep

\* Until a flush meets an observation made without labels, every observation is in
\* one report or in the next one, in each of its buckets and in the count.
THEOREM ObservationsReported == SdkSpec => []ObservedOnce
<1>1. HistogramInv => ObservedOnce
  BY DEF HistogramInv, AllCounted, ObservedOnce, EachReported, Pending
<1> QED
  BY <1>1, HistogramInit, HistogramStep, PTL DEF SdkSpec

\* Every call of Observe is one with labels, as those of the SDK's own middleware.
AllLabelled == \A o \in DOMAIN Observed : Labels[o] # NoLabels

\* Without unlabelled observations there is nothing under no labels to flush.
NothingUnlabelled ==
    /\ HistogramInv
    /\ ~ panicked
    /\ counts[NoLabels] = NoCounts

LEMMA LabelledStep ==
    AllLabelled /\ NothingUnlabelled /\ [SdkNext]_sdkVars => NothingUnlabelled'
  <1>. SUFFICES ASSUME AllLabelled, NothingUnlabelled, [SdkNext]_sdkVars
                PROVE  ~ panicked' /\ counts'[NoLabels] = NoCounts
    BY HistogramStep DEF NothingUnlabelled, NoCounts
  <1>. USE MetricsConstants DEF NothingUnlabelled
  <1>1. ~ FlushPanics
    BY DEF FlushPanics, NoCounts, Buckets
  <1>2. ASSUME NEW o \in DOMAIN Observed, Observe(o)
        PROVE  ~ panicked' /\ counts'[NoLabels] = NoCounts
    BY <1>2 DEF Observe, AllLabelled, HistogramInv
  <1>3. CASE FlushHistogram
    BY <1>3 DEF FlushHistogram, reset
  <1>4. CASE UNCHANGED <<counts, panicked>>
    BY <1>4
  <1>. QED
    BY <1>1, <1>2, <1>3, <1>4
       DEF SdkNext, Inc, SendCounter, SendReport, Client, metricVars, sdkVars, histogram

\* If all calls of Observe have labels, every observation is in one report or in
\* the next one, and no flush ends the process.
THEOREM LabelledReported == AllLabelled => (SdkSpec => []EachReported)
<1> SUFFICES ASSUME AllLabelled PROVE SdkSpec => []EachReported
  OBVIOUS
<1>1. SdkInit => NothingUnlabelled
  BY HistogramInit, MetricsConstants DEF SdkInit, NothingUnlabelled
<1>2. NothingUnlabelled /\ [SdkNext]_sdkVars => NothingUnlabelled'
  BY LabelledStep
<1>3. NothingUnlabelled => EachReported
  BY DEF NothingUnlabelled, HistogramInv, AllCounted, EachReported, Pending
<1> QED
  BY <1>1, <1>2, <1>3, PTL DEF SdkSpec
=============================================================================
