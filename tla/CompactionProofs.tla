-------------------------- MODULE CompactionProofs --------------------------
(***************************************************************************)
(* Proofs about Compaction for every number of series, samples and         *)
(* compactors and every value of the windows that satisfies Timely: first  *)
(* that nothing is deleted before the next tier holds it, then what the    *)
(* aggregates count.  Each count names what it needs besides: runs one at  *)
(* a time and cuts between the samples, 1h windows that reach back to      *)
(* every hour left unfinished.  Values are arbitrary: two aggregates of a  *)
(* bucket may be equal, and the counts say what is left then.  Last, that  *)
(* the aggregates of a bucket behind the window are final.                 *)
(***************************************************************************)
EXTENDS Compaction, SumTheorems

(***************************************************************************)
(* What the environment and the constants of compactor.go must satisfy for *)
(* nothing to be deleted before it is downsampled.  With the code's values *)
(* (6h, 12h, 2d, 7d) it reads: samples arrive within 6 hours, both steps   *)
(* commit at least every 6 hours, and a run takes less than 36 hours.      *)
(***************************************************************************)
Timely ==
    /\ MaxLateness <= Compact5mDelay
    /\ Compact5mDelay <= RawDataRetention
    /\ MaxGap <= Compact5mLookback - Compact5mDelay
    /\ Compact5mLookback + FiveMinutes + MaxRun <= Compact1hDelay + 1
    /\ Compact1hDelay <= FiveMinRetention
    /\ MaxGap <= Compact1hLookback - Compact1hDelay

(***************************************************************************)
(* The store.                                                              *)
(***************************************************************************)

\* makeKey and Write: an entry disappears from a store only by being replaced
\* under its own key.
LEMMA PutKeepsKeys ==
    ASSUME NEW store, NEW new, NEW e \in store
    PROVE  \E f \in Put(store, new) : SameKey(e, f)
  <1>1. CASE \A n \in new : ~ SameKey(e, n)
    BY <1>1 DEF Put, SameKey
  <1>2. CASE \E n \in new : SameKey(e, n)
    BY <1>2 DEF Put
  <1>q. QED BY <1>1, <1>2

\* Series that hold no comma have different keys, so entries of one key are of one
\* series.
LEMMA PlainKey ==
    ASSUME NEW e, NEW f, EntryOK(e), EntryOK(f)
    PROVE  SameKey(e, f) <=> /\ e.series = f.series /\ e.ts = f.ts /\ e.res = f.res
                             /\ e.res = ResolutionRaw \/ e.stats = f.stats
  BY PlainSeries DEF SameKey, EntryOK

\* An aggregate's statistics are part of its key, so Write never replaces one
\* by a different one.
LEMMA PutKeepsAggregates ==
    ASSUME NEW store, NEW new,
           \A n \in new : EntryOK(n),
           NEW e \in store, EntryOK(e), e.res # ResolutionRaw
    PROVE  e \in Put(store, new)
  <1>1. CASE \A n \in new : ~ SameKey(e, n)
    BY <1>1 DEF Put
  <1>2. CASE \E n \in new : SameKey(e, n)
    <2>1. PICK n \in new : SameKey(e, n) BY <1>2
    <2>2. n = e BY <2>1, PlainKey DEF EntryOK
    <2>q. QED BY <2>2 DEF Put
  <1>q. QED BY <1>1, <1>2

\* roundTo5Minutes and roundTo1Hour round down, by less than a bucket.
LEMMA RoundToBounds ==
    ASSUME NEW t \in Int, NEW width \in Nat \ {0}
    PROVE  /\ RoundTo(t, width) \in Int
           /\ RoundTo(t, width) <= t
           /\ t < RoundTo(t, width) + width
  <1>1. t % width \in 0 .. (width - 1) OBVIOUS
  <1>q. QED BY <1>1 DEF RoundTo

\* The buckets start at the multiples of their width.
LEMMA RoundToMultiple ==
    ASSUME NEW t \in Int, NEW width \in Nat \ {0}
    PROVE  \E q \in Int : RoundTo(t, width) = width * q
  <1>1. t = width * (t \div width) + (t % width) /\ (t \div width) \in Int
    OBVIOUS
  <1>. QED
    BY <1>1 DEF RoundTo

\* A multiple below a bucket's end is not above its start.
LEMMA MultiplesApart ==
    ASSUME NEW width \in Nat \ {0}, NEW p \in Int, NEW q \in Int,
           width * q < width * p + width
    PROVE  width * q <= width * p
  <1>1. width * q < width * (p + 1)
    OBVIOUS
  <1>2. ASSUME q > p PROVE FALSE
    <2>1. q >= p + 1
      BY <1>2
    <2>2. width * q >= width * (p + 1)
      BY <2>1
    <2>3. width * q \in Int /\ width * (p + 1) \in Int
      OBVIOUS
    <2>. QED
      BY <1>1, <2>2, <2>3
  <1>3. q <= p
    BY <1>2
  <1>. QED
    BY <1>3

\* Buckets that divide an hour lie in one hour: rounding to them first, or not,
\* gives the same hour.
LEMMA RoundToNests ==
    ASSUME NEW t \in Int, NEW w \in Nat \ {0}, NEW m \in Nat \ {0}
    PROVE  RoundTo(RoundTo(t, w), w * m) = RoundTo(t, w * m)
  <1>1. PICK u : u = RoundTo(t, w)
    OBVIOUS
  <1>2. PICK p \in Int : u = w * p
    BY <1>1, RoundToMultiple
  <1>3. PICK H : H = w * m
    OBVIOUS
  <1>4. H \in Nat \ {0}
    BY <1>3
  <1>5. u \in Int /\ u <= t /\ t < u + w
    BY <1>1, RoundToBounds
  <1>6. PICK a : a = RoundTo(t, H)
    OBVIOUS
  <1>7. PICK b : b = RoundTo(u, H)
    OBVIOUS
  <1>8. PICK q \in Int : a = H * q
    BY <1>4, <1>6, RoundToMultiple
  <1>9. PICK r \in Int : b = H * r
    BY <1>4, <1>5, <1>7, RoundToMultiple
  <1>10. a \in Int /\ a <= t /\ t < a + H
    BY <1>4, <1>6, RoundToBounds
  <1>11. b \in Int /\ b <= u /\ u < b + H
    BY <1>4, <1>5, <1>7, RoundToBounds
  <1>12. b <= a
    <2>1. H * r < H * q + H
      BY <1>5, <1>8, <1>9, <1>10, <1>11, <1>4
    <2>. QED
      BY <1>4, <1>8, <1>9, <2>1, MultiplesApart
  <1>13. a <= u
    <2>1. a = w * (m * q) /\ m * q \in Int
      <3>1. \A x, y, z \in Int : (x * y) * z = x * (y * z) /\ y * z \in Int
        OBVIOUS
      <3>. QED
        BY <1>3, <1>8, <3>1
    <2>2. w * (m * q) < w * p + w
      <3>1. a < u + w
        BY <1>5, <1>10
      <3>. QED
        BY <1>2, <2>1, <3>1
    <2>3. PICK n \in Int : n = m * q
      BY <2>1
    <2>4. w * n < w * p + w
      BY <2>2, <2>3
    <2>5. w * n <= w * p
      BY <2>4, MultiplesApart
    <2>6. a = w * n
      BY <2>1, <2>3
    <2>. QED
      BY <1>2, <2>5, <2>6
  <1>14. a <= b
    <2>1. H * q < H * r + H
      BY <1>4, <1>5, <1>8, <1>9, <1>10, <1>11, <1>13
    <2>. QED
      BY <1>4, <1>8, <1>9, <2>1, MultiplesApart
  <1>. QED
    BY <1>1, <1>3, <1>6, <1>7, <1>10, <1>11, <1>12, <1>14

\* A bucket's start lies in the bucket.
LEMMA RoundToTwice ==
    ASSUME NEW t \in Int, NEW width \in Nat \ {0}
    PROVE  RoundTo(RoundTo(t, width), width) = RoundTo(t, width)
  <1>1. width * 1 = width /\ 1 \in Nat \ {0}
    OBVIOUS
  <1>2. RoundTo(RoundTo(t, width), width * 1) = RoundTo(t, width * 1)
    BY <1>1, RoundToNests
  <1>. QED
    BY <1>1, <1>2

\* Every aggregate stands for the bucket of some entry it was built from.
LEMMA AggregatesShape ==
    ASSUME NEW entries, NEW res, NEW width,
           NEW a \in Aggregates(entries, res, width)
    PROVE  \E e \in entries :
               a = Entry(e.series, RoundTo(e.ts, width), res, a.stats)
  <1> DEFINE groups == {<<e.series, RoundTo(e.ts, width)>> : e \in entries}
  <1>1. PICK g \in groups :
            a = Entry(g[1], g[2], res, Merge(InBucket(entries, g[1], g[2], width)))
    BY DEF Aggregates
  <1>2. PICK e \in entries : g = <<e.series, RoundTo(e.ts, width)>> OBVIOUS
  <1>q. QED BY <1>1, <1>2 DEF Entry

-----------------------------------------------------------------------------
(***************************************************************************)
(* Type correctness.                                                       *)
(***************************************************************************)
\* The empty store and idle compactors are well typed.
LEMMA TypeInit == Init => TypeOK
  BY CompactionConstants DEF Init, TypeOK, Steps

\* A transaction of well-formed entries leaves the store well formed.
LEMMA PutType ==
    ASSUME NEW store, NEW new,
           \A e \in store : EntryOK(e), \A e \in new : EntryOK(e)
    PROVE  \A e \in Put(store, new) : EntryOK(e)
  BY DEF Put

\* Aggregating well-formed entries yields well-formed entries of the tier.
LEMMA AggregatesType ==
    ASSUME NEW entries, NEW res \in Resolutions, NEW width \in Nat \ {0},
           \A e \in entries : EntryOK(e)
    PROVE  \A a \in Aggregates(entries, res, width) : EntryOK(a) /\ a.res = res
  <1> SUFFICES ASSUME NEW a \in Aggregates(entries, res, width)
               PROVE  EntryOK(a) /\ a.res = res
    OBVIOUS
  <1>1. PICK e \in entries : a = Entry(e.series, RoundTo(e.ts, width), res, a.stats)
    BY AggregatesShape
  <1>2. RoundTo(e.ts, width) \in Int BY RoundToBounds DEF EntryOK
  <1>q. QED BY <1>1, <1>2 DEF EntryOK, Entry

\* FromMetric keeps an entry well formed.
LEMMA FromMetricType ==
    ASSUME NEW e, EntryOK(e)
    PROVE  EntryOK(FromMetric(e))
  BY CompactionConstants DEF FromMetric, EntryOK, Entry

\* Every store call, failure and tick keeps the types.
LEMMA TypeStep == TypeOK /\ [Next]_vars => TypeOK'
  <1> SUFFICES ASSUME TypeOK, [Next]_vars PROVE TypeOK' OBVIOUS
  <1> USE CompactionConstants
  <1>1. ASSUME NEW s \in Series, NEW t \in SampleTimes, NEW v \in ValuesAt[t],
               Ingest(s, t, v)
        PROVE  TypeOK'
    <2>1. EntryOK(RawEntry(s, t, v))
      BY DEF EntryOK, RawEntry, Entry, Resolutions
    <2>2. \A e \in db' : EntryOK(e)
      BY <1>1, <2>1, PutType DEF Ingest, TypeOK
    <2>3. [series |-> s, ts |-> t] \in [series : Series, ts : SampleTimes]
      OBVIOUS
    <2>4. accepted' \subseteq [series : Series, ts : SampleTimes]
      BY <1>1, <2>3 DEF Ingest, TypeOK
    <2>q. QED BY <1>1, <2>2, <2>4 DEF Ingest, TypeOK
  <1>2. ASSUME NEW c \in Compactors, Start(c) PROVE TypeOK'
    BY <1>2 DEF Start, TypeOK, Goto, Steps, ghosts
  <1>3. ASSUME NEW c \in Compactors, Query5m(c) PROVE TypeOK'
    BY <1>3 DEF Query5m, TypeOK, Goto, Steps, ghosts, RawOnly, Window5m, InRange
  <1>4. ASSUME NEW c \in Compactors, Write5m(c) PROVE TypeOK'
    <2> DEFINE aggs == Aggregates(read[c], Resolution5m, FiveMinutes)
    <2>1. \A a \in aggs : EntryOK(a) /\ a.res = Resolution5m
      BY AggregatesType DEF TypeOK, Resolutions
    <2>2. \A e \in db' : EntryOK(e)
      BY <1>4, <2>1, PutType DEF Write5m, TypeOK
    <2> HIDE DEF aggs
    <2>3. made' = made \cup aggs BY <1>4 DEF Write5m, aggs
    <2>4. last5m' \in Nat BY <1>4 DEF Write5m, TypeOK, Later
    <2>q. QED BY <1>4, <2>1, <2>2, <2>3, <2>4 DEF Write5m, TypeOK, Goto, Steps
  <1>5. ASSUME NEW c \in Compactors, DeleteRaw(c) PROVE TypeOK'
    BY <1>5 DEF DeleteRaw, TypeOK, Goto, Steps, ghosts, DeleteBefore
  <1>6. ASSUME NEW c \in Compactors, Query1h(c) PROVE TypeOK'
    BY <1>6 DEF Query1h, TypeOK, Goto, Steps, ghosts, FiveMinOnly, Window1h, InRange
  <1>7. ASSUME NEW c \in Compactors, Write1h(c) PROVE TypeOK'
    <2> DEFINE parsed == {FromMetric(e) : e \in read[c]}
               aggs == Aggregates(parsed, Resolution1h, OneHour)
    <2>1. \A e \in parsed : EntryOK(e) BY FromMetricType DEF TypeOK
    <2>2. \A a \in aggs : EntryOK(a)
      <3> HIDE DEF parsed
      <3>q. QED BY <2>1, AggregatesType DEF Resolutions
    <2>3. \A e \in db' : EntryOK(e)
      BY <1>7, <2>2, PutType DEF Write1h, TypeOK
    <2>4. last1h' \in Nat BY <1>7 DEF Write1h, TypeOK, Later
    <2>q. QED BY <1>7, <2>3, <2>4 DEF Write1h, TypeOK, Goto, Steps
  <1>8. ASSUME NEW c \in Compactors, Delete5m(c) PROVE TypeOK'
    BY <1>8 DEF Delete5m, TypeOK, Goto, Steps, ghosts, DeleteBefore
  <1>9. ASSUME NEW c \in Compactors, Fail(c) PROVE TypeOK'
    BY <1>9 DEF Fail, TypeOK, Goto, Steps, ghosts
  <1>10. CASE Tick
    BY <1>10 DEF Tick, TypeOK, ghosts
  <1>11. CASE UNCHANGED vars
    BY <1>11 DEF vars, ghosts, TypeOK
  <1>q. QED
    BY <1>1, <1>2, <1>3, <1>4, <1>5, <1>6, <1>7, <1>8, <1>9, <1>10, <1>11
    DEF Next, Run

\* Every reachable store, query result and history is well formed, whatever
\* the compactors and the ingestion interleave.
THEOREM TypeCorrect == Spec => []TypeOK
  BY TypeInit, TypeStep, PTL DEF Spec

-----------------------------------------------------------------------------
(***************************************************************************)
(* Nothing is deleted before it is downsampled: IInv is inductive under    *)
(* Timely.  The three parts are proved one after the other; each may use   *)
(* the earlier ones.                                                       *)
(***************************************************************************)
\* Nothing has been stored, folded or deleted yet.
LEMMA IInvInit == Init => IInv
  BY CompactionConstants
  DEF Init, IInv, ClocksOK, SamplesOK, NoSampleLost, AggregatesOK, NoAggregateLost

\* Tick advances the clock only while every run and every gap is within bounds.
LEMMA ClocksStep == TypeOK /\ ClocksOK /\ [Next]_vars => ClocksOK'
  <1> SUFFICES ASSUME TypeOK, ClocksOK, [Next]_vars PROVE ClocksOK' OBVIOUS
  <1> USE CompactionConstants DEF TypeOK, ClocksOK
  <1>1. ASSUME NEW s \in Series, NEW t \in SampleTimes, NEW v \in ValuesAt[t],
               Ingest(s, t, v)
        PROVE  ClocksOK'
    BY <1>1 DEF Ingest
  <1>2. ASSUME NEW c \in Compactors, Start(c) PROVE ClocksOK'
    BY <1>2 DEF Start, Goto
  <1>3. ASSUME NEW c \in Compactors, Query5m(c) PROVE ClocksOK'
    BY <1>3 DEF Query5m, Goto
  <1>4. ASSUME NEW c \in Compactors, Write5m(c) PROVE ClocksOK'
    BY <1>4 DEF Write5m, Goto, Later
  <1>5. ASSUME NEW c \in Compactors, DeleteRaw(c) PROVE ClocksOK'
    BY <1>5 DEF DeleteRaw, Goto
  <1>6. ASSUME NEW c \in Compactors, Query1h(c) PROVE ClocksOK'
    BY <1>6 DEF Query1h, Goto
  <1>7. ASSUME NEW c \in Compactors, Write1h(c) PROVE ClocksOK'
    BY <1>7 DEF Write1h, Goto, Later
  <1>8. ASSUME NEW c \in Compactors, Delete5m(c) PROVE ClocksOK'
    BY <1>8 DEF Delete5m, Goto
  <1>9. ASSUME NEW c \in Compactors, Fail(c) PROVE ClocksOK'
    BY <1>9 DEF Fail, Goto
  <1>10. CASE Tick
    BY <1>10 DEF Tick
  <1>11. CASE UNCHANGED vars
    BY <1>11 DEF vars
  <1>q. QED
    BY <1>1, <1>2, <1>3, <1>4, <1>5, <1>6, <1>7, <1>8, <1>9, <1>10, <1>11
    DEF Next, Run

\* A raw sample stays in the store through any Write.
LEMMA PutKeepsRaw ==
    ASSUME TypeOK, TypeOK', NEW new, db' = Put(db, new), NEW k, IsRaw(k)
    PROVE  IsRaw(k)'
  <1>1. PICK e \in db : e.res = ResolutionRaw /\ KeyOf(e) = k BY DEF IsRaw
  <1>2. PICK f \in Put(db, new) : SameKey(e, f) BY PutKeepsKeys
  <1>3. EntryOK(e) /\ EntryOK(f) BY <1>1, <1>2 DEF TypeOK
  <1>4. f.res = ResolutionRaw /\ KeyOf(f) = k BY <1>1, <1>2, <1>3, PlainKey DEF KeyOf
  <1>q. QED BY <1>2, <1>4 DEF IsRaw

\* A 5m write folds its whole window before last5m advances over it, a late
\* sample arrives ahead of every window, and DeleteRaw stays behind last5m.
LEMMA SamplesStep ==
    ASSUME Timely, TypeOK, TypeOK', ClocksOK, SamplesOK, NoSampleLost, [Next]_vars
    PROVE  SamplesOK' /\ NoSampleLost'
  <1> USE CompactionConstants
  <1>1. ASSUME NEW s \in Series, NEW t \in SampleTimes, NEW v \in ValuesAt[t],
               Ingest(s, t, v)
        PROVE  SamplesOK' /\ NoSampleLost'
    <2> DEFINE new == [series |-> s, ts |-> t]
    <2>1. new.ts = t /\ t \in Nat OBVIOUS
    <2>2. accepted' = accepted \cup {new} BY <1>1 DEF Ingest
    <2>3. IsRaw(new)'
      BY <1>1 DEF Ingest, IsRaw, Put, RawEntry, Entry, KeyOf
    <2>4. \A k : IsRaw(k) => IsRaw(k)' BY <1>1, PutKeepsRaw DEF Ingest
    <2>5. \A x \in Nat : x <= clock => ~ (t < x - Compact5mDelay)
      BY <1>1, <2>1 DEF Ingest, Timely, TypeOK
    <2> HIDE DEF new
    <2>6. SamplesOK'
      BY <1>1, <2>1, <2>2, <2>5 DEF Ingest, SamplesOK, ClocksOK, TypeOK
    <2>7. NoSampleLost'
      BY <1>1, <2>2, <2>3, <2>4 DEF Ingest, NoSampleLost
    <2>q. QED BY <2>6, <2>7
  <1>2. ASSUME NEW c \in Compactors, Start(c) PROVE SamplesOK' /\ NoSampleLost'
    BY <1>2 DEF Start, SamplesOK, NoSampleLost, IsRaw, Goto, TypeOK, ghosts
  <1>3. ASSUME NEW c \in Compactors, Query5m(c) PROVE SamplesOK' /\ NoSampleLost'
    <2>1. NoSampleLost' BY <1>3 DEF Query5m, NoSampleLost, IsRaw, ghosts
    <2>2. read'[c] = {e \in InRange(db, now[c] - Compact5mLookback,
                                        now[c] - Compact5mDelay) :
                        e.res = ResolutionRaw}
      BY <1>3 DEF Query5m, RawOnly, Window5m, TypeOK
    <2>3. \A e \in read'[c] : now[c] - Compact5mLookback <= e.ts
      BY <2>2 DEF InRange
    <2>4. ASSUME NEW k \in accepted,
                 now[c] - Compact5mLookback <= k.ts,
                 k.ts < now[c] - Compact5mDelay,
                 k \notin folded
          PROVE  \E e \in read'[c] : KeyOf(e) = k
      <3>1. PICK e \in db : e.res = ResolutionRaw /\ KeyOf(e) = k
        BY <2>4 DEF NoSampleLost, IsRaw
      <3>2. e.ts = k.ts /\ e.ts \in Int BY <3>1 DEF KeyOf, TypeOK, EntryOK
      <3>q. QED BY <2>2, <2>4, <3>1, <3>2 DEF InRange, TypeOK
    <2>5. SamplesOK'
      BY <1>3, <2>3, <2>4 DEF Query5m, SamplesOK, Goto, TypeOK, ghosts
    <2>q. QED BY <2>1, <2>5
  <1>4. ASSUME NEW c \in Compactors, Write5m(c) PROVE SamplesOK' /\ NoSampleLost'
    <2>1. NoSampleLost'
      BY <1>4, PutKeepsRaw DEF Write5m, NoSampleLost
    <2>2. ASSUME NEW k \in accepted, k.ts < now[c] - Compact5mDelay
          PROVE  k \in folded'
      <3>0. k \in [series : Series, ts : SampleTimes] BY DEF TypeOK
      <3>1. k.ts \in Int
        <4>1. SampleTimes \subseteq Int BY DEF CompactionConstants
        <4>2. k.ts \in SampleTimes BY <3>0
        <4>q. QED BY <4>1, <4>2, Zenon
      <3>2. CASE k.ts < now[c] - Compact5mLookback
        <4>1. k.ts < last5m - Compact5mDelay
          BY <1>4, <3>1, <3>2 DEF Write5m, ClocksOK, Timely, TypeOK
        <4>q. QED BY <1>4, <4>1 DEF Write5m, SamplesOK
      <3>3. CASE now[c] - Compact5mLookback <= k.ts
        BY <1>4, <2>2, <3>3 DEF Write5m, SamplesOK
      <3>q. QED BY <3>1, <3>2, <3>3 DEF TypeOK
    <2>3. \A k \in accepted : k.ts < last5m' - Compact5mDelay => k \in folded'
      BY <1>4, <2>2 DEF Write5m, SamplesOK, Later
    <2>4. last5m <= last5m' /\ now[c] <= last5m'
      BY <1>4 DEF Write5m, Later, TypeOK
    <2>5. folded \subseteq folded' BY <1>4 DEF Write5m
    <2>6. ASSUME NEW d \in Compactors, pc'[d] = "write5m"
          PROVE  d # c /\ pc[d] = "write5m" /\ read'[d] = read[d]
      BY <1>4, <2>6 DEF Write5m, Goto, TypeOK
    <2>7. ASSUME NEW d \in Compactors, pc'[d] = "deleteRaw"
          PROVE  now[d] <= last5m'
      <3>1. CASE d = c BY <2>4, <3>1
      <3>2. CASE d # c
        <4>1. now[d] <= last5m BY <1>4, <2>7, <3>2 DEF Write5m, Goto, TypeOK, SamplesOK
        <4>q. QED BY <1>4, <2>4, <4>1 DEF Write5m, Later, TypeOK
      <3>q. QED BY <3>1, <3>2
    <2>8. now' = now /\ accepted' = accepted BY <1>4 DEF Write5m
    <2>9. SamplesOK'
      BY <2>3, <2>5, <2>6, <2>7, <2>8 DEF SamplesOK
    <2>q. QED BY <2>1, <2>9
  <1>5. ASSUME NEW c \in Compactors, DeleteRaw(c) PROVE SamplesOK' /\ NoSampleLost'
    <2>1. ASSUME NEW k \in accepted, k \notin folded
          PROVE  IsRaw(k)'
      <3>1. PICK e \in db : e.res = ResolutionRaw /\ KeyOf(e) = k
        BY <2>1 DEF NoSampleLost, IsRaw
      <3>2. e.ts = k.ts /\ e.ts \in Int BY <3>1 DEF KeyOf, TypeOK, EntryOK
      <3>3. ~ (e.ts < last5m - Compact5mDelay) BY <2>1, <3>2 DEF SamplesOK
      <3>4. now[c] <= last5m BY <1>5 DEF DeleteRaw, SamplesOK
      <3>5. ~ (e.ts < now[c] - RawDataRetention)
        BY <3>2, <3>3, <3>4 DEF Timely, TypeOK
      <3>q. QED BY <1>5, <3>1, <3>5 DEF DeleteRaw, RawCutoff, DeleteBefore, IsRaw
    <2>2. NoSampleLost' BY <1>5, <2>1 DEF DeleteRaw, NoSampleLost, ghosts
    <2>3. SamplesOK' BY <1>5 DEF DeleteRaw, SamplesOK, Goto, TypeOK, ghosts
    <2>q. QED BY <2>2, <2>3
  <1>6. ASSUME NEW c \in Compactors, Query1h(c) PROVE SamplesOK' /\ NoSampleLost'
    BY <1>6 DEF Query1h, SamplesOK, NoSampleLost, IsRaw, Goto, TypeOK, ghosts
  <1>7. ASSUME NEW c \in Compactors, Write1h(c) PROVE SamplesOK' /\ NoSampleLost'
    <2>1. NoSampleLost' BY <1>7, PutKeepsRaw DEF Write1h, NoSampleLost
    <2>2. SamplesOK' BY <1>7 DEF Write1h, SamplesOK, Goto, TypeOK
    <2>q. QED BY <2>1, <2>2
  <1>8. ASSUME NEW c \in Compactors, Delete5m(c) PROVE SamplesOK' /\ NoSampleLost'
    <2>1. \A k : IsRaw(k) => IsRaw(k)'
      BY <1>8 DEF Delete5m, DeleteBefore, IsRaw, ResolutionRaw, Resolution5m
    <2>2. NoSampleLost' BY <1>8, <2>1 DEF Delete5m, NoSampleLost, ghosts
    <2>3. SamplesOK' BY <1>8 DEF Delete5m, SamplesOK, Goto, TypeOK, ghosts
    <2>q. QED BY <2>2, <2>3
  <1>9. ASSUME NEW c \in Compactors, Fail(c) PROVE SamplesOK' /\ NoSampleLost'
    BY <1>9 DEF Fail, SamplesOK, NoSampleLost, IsRaw, Goto, TypeOK, ghosts
  <1>10. CASE Tick
    BY <1>10 DEF Tick, SamplesOK, NoSampleLost, IsRaw, ghosts
  <1>11. CASE UNCHANGED vars
    BY <1>11 DEF vars, ghosts, SamplesOK, NoSampleLost, IsRaw
  <1>q. QED
    BY <1>1, <1>2, <1>3, <1>4, <1>5, <1>6, <1>7, <1>8, <1>9, <1>10, <1>11
    DEF Next, Run

\* A write of well-formed entries keeps every stored 5m aggregate.
LEMMA PutKeepsMade ==
    ASSUME TypeOK, NEW new, \A n \in new : EntryOK(n), db' = Put(db, new),
           NEW a \in made, a \in db
    PROVE  a \in db'
  <1>1. EntryOK(a) /\ a.res # ResolutionRaw
    BY DEF TypeOK, Resolution5m, ResolutionRaw
  <1>q. QED BY <1>1, PutKeepsAggregates

\* The same one tier up: the 1h write folds the 5m aggregates of its window
\* before last1h advances, and Delete5m stays behind last1h.
LEMMA AggregatesStep ==
    ASSUME Timely, TypeOK, TypeOK', ClocksOK, SamplesOK,
           AggregatesOK, NoAggregateLost, [Next]_vars
    PROVE  AggregatesOK' /\ NoAggregateLost'
  <1> USE CompactionConstants
  <1>1. ASSUME NEW s \in Series, NEW t \in SampleTimes, NEW v \in ValuesAt[t],
               Ingest(s, t, v)
        PROVE  AggregatesOK' /\ NoAggregateLost'
    <2>1. EntryOK(RawEntry(s, t, v))
      BY DEF EntryOK, RawEntry, Entry, Resolutions
    <2> DEFINE new == {RawEntry(s, t, v)}
    <2>a. \A n \in new : EntryOK(n) BY <2>1
    <2>b. db' = Put(db, new) BY <1>1 DEF Ingest
    <2> HIDE DEF new
    <2>2. \A a \in made : a \in db => a \in db'
      BY <2>a, <2>b, PutKeepsMade
    <2>3. NoAggregateLost' BY <1>1, <2>2 DEF Ingest, NoAggregateLost
    <2>4. AggregatesOK' BY <1>1 DEF Ingest, AggregatesOK
    <2>q. QED BY <2>3, <2>4
  <1>2. ASSUME NEW c \in Compactors, Start(c) PROVE AggregatesOK' /\ NoAggregateLost'
    BY <1>2 DEF Start, AggregatesOK, NoAggregateLost, Goto, TypeOK, ghosts
  <1>3. ASSUME NEW c \in Compactors, Query5m(c) PROVE AggregatesOK' /\ NoAggregateLost'
    BY <1>3 DEF Query5m, AggregatesOK, NoAggregateLost, Goto, TypeOK, ghosts
  <1>4. ASSUME NEW c \in Compactors, Write5m(c) PROVE AggregatesOK' /\ NoAggregateLost'
    <2> DEFINE aggs == Aggregates(read[c], Resolution5m, FiveMinutes)
    <2>1. \A a \in aggs : EntryOK(a)
      BY AggregatesType DEF TypeOK, Resolutions
    <2>2. ASSUME NEW a \in aggs, NEW x \in Nat, x <= clock
          PROVE  ~ (a.ts < x - Compact1hDelay)
      <3>1. PICK e \in read[c] :
                a = Entry(e.series, RoundTo(e.ts, FiveMinutes), Resolution5m, a.stats)
        BY AggregatesShape
      <3>2. a.ts = RoundTo(e.ts, FiveMinutes) BY <3>1 DEF Entry
      <3>3. e.ts \in Int BY DEF TypeOK, EntryOK
      <3>4. a.ts \in Int /\ e.ts < a.ts + FiveMinutes
        BY <3>2, <3>3, RoundToBounds
      <3>5. now[c] - Compact5mLookback <= e.ts
        BY <1>4 DEF Write5m, SamplesOK
      <3>6. clock <= now[c] + MaxRun BY <1>4 DEF Write5m, ClocksOK
      <3>q. QED BY <2>2, <3>3, <3>4, <3>5, <3>6 DEF Timely, TypeOK
    <2> HIDE DEF aggs
    <2>3. db' = Put(db, aggs) /\ made' = made \cup aggs
      BY <1>4 DEF Write5m, aggs
    <2>4. \A a \in made : a \in db => a \in db'
      BY <2>1, <2>3, PutKeepsMade
    <2>5. NoAggregateLost'
      BY <1>4, <2>3, <2>4 DEF Write5m, NoAggregateLost, Put
    <2>6. \A a \in made' : a.ts < last1h' - Compact1hDelay => a \in remade'
      <3>1. last1h \in Nat /\ last1h <= clock BY DEF TypeOK, ClocksOK
      <3>q. QED BY <1>4, <2>2, <2>3, <3>1 DEF Write5m, AggregatesOK
    <2>7. ASSUME NEW d \in Compactors, pc'[d] = "write1h",
                 NEW a \in made',
                 now[d] - Compact1hLookback <= a.ts,
                 a.ts < now[d] - Compact1hDelay
          PROVE  a \in remade' \/ a \in read'[d]
      <3>1. d # c /\ pc[d] = "write1h" /\ read'[d] = read[d]
        BY <1>4, <2>7 DEF Write5m, Goto, TypeOK
      <3>2. now[d] \in Nat /\ now[d] <= clock BY <3>1 DEF TypeOK, ClocksOK
      <3>3. a \in made BY <2>2, <2>3, <2>7, <3>2
      <3>q. QED BY <1>4, <2>7, <3>1, <3>3 DEF Write5m, AggregatesOK
    <2>8. \A d \in Compactors : pc'[d] = "delete5m" => now[d] <= last1h
      BY <1>4 DEF Write5m, Goto, TypeOK, AggregatesOK
    <2>9. AggregatesOK'
      BY <1>4, <2>6, <2>7, <2>8 DEF Write5m, AggregatesOK
    <2>q. QED BY <2>5, <2>9
  <1>5. ASSUME NEW c \in Compactors, DeleteRaw(c) PROVE AggregatesOK' /\ NoAggregateLost'
    <2>1. \A a \in made : a \in db => a \in db'
      BY <1>5 DEF DeleteRaw, DeleteBefore, TypeOK, ResolutionRaw, Resolution5m
    <2>2. NoAggregateLost' BY <1>5, <2>1 DEF DeleteRaw, NoAggregateLost, ghosts
    <2>3. AggregatesOK' BY <1>5 DEF DeleteRaw, AggregatesOK, Goto, TypeOK, ghosts
    <2>q. QED BY <2>2, <2>3
  <1>6. ASSUME NEW c \in Compactors, Query1h(c) PROVE AggregatesOK' /\ NoAggregateLost'
    <2>1. NoAggregateLost' BY <1>6 DEF Query1h, NoAggregateLost, ghosts
    <2>2. read'[c] = {e \in InRange(db, now[c] - Compact1hLookback,
                                        now[c] - Compact1hDelay) :
                        e.res = Resolution5m}
      BY <1>6 DEF Query1h, FiveMinOnly, Window1h, TypeOK
    <2>3. ASSUME NEW a \in made,
                 now[c] - Compact1hLookback <= a.ts,
                 a.ts < now[c] - Compact1hDelay,
                 a \notin remade
          PROVE  a \in read'[c]
      <3>1. a \in db BY <2>3 DEF NoAggregateLost
      <3>2. a.ts \in Int /\ a.res = Resolution5m BY DEF TypeOK, EntryOK
      <3>q. QED BY <2>2, <2>3, <3>1, <3>2 DEF InRange, TypeOK
    <2>4. AggregatesOK'
      BY <1>6, <2>3 DEF Query1h, AggregatesOK, Goto, TypeOK, ghosts
    <2>q. QED BY <2>1, <2>4
  <1>7. ASSUME NEW c \in Compactors, Write1h(c) PROVE AggregatesOK' /\ NoAggregateLost'
    <2> DEFINE parsed == {FromMetric(e) : e \in read[c]}
               aggs == Aggregates(parsed, Resolution1h, OneHour)
    <2>1. \A e \in parsed : EntryOK(e) BY FromMetricType DEF TypeOK
    <2>2. \A a \in aggs : EntryOK(a)
      <3> HIDE DEF parsed
      <3>q. QED BY <2>1, AggregatesType DEF Resolutions
    <2>3. db' = Put(db, aggs) /\ made' = made BY <1>7 DEF Write1h
    <2> HIDE DEF aggs
    <2>4. \A a \in made : a \in db => a \in db' BY <2>2, <2>3, PutKeepsMade
    <2>5. remade' = remade \cup read[c] BY <1>7 DEF Write1h
    <2>6. NoAggregateLost' BY <2>3, <2>4, <2>5 DEF NoAggregateLost
    <2>7. ASSUME NEW a \in made, a.ts < now[c] - Compact1hDelay
          PROVE  a \in remade'
      <3>1. a.ts \in Int BY DEF TypeOK, EntryOK
      <3>2. CASE a.ts < now[c] - Compact1hLookback
        <4>1. a.ts < last1h - Compact1hDelay
          BY <1>7, <3>1, <3>2 DEF Write1h, ClocksOK, Timely, TypeOK
        <4>q. QED BY <2>5, <4>1 DEF AggregatesOK
      <3>3. CASE now[c] - Compact1hLookback <= a.ts
        BY <1>7, <2>5, <2>7, <3>3 DEF Write1h, AggregatesOK
      <3>q. QED BY <3>1, <3>2, <3>3 DEF TypeOK
    <2>8. \A a \in made : a.ts < last1h' - Compact1hDelay => a \in remade'
      BY <1>7, <2>5, <2>7 DEF Write1h, AggregatesOK, Later
    <2>9. ASSUME NEW d \in Compactors, pc'[d] = "write1h"
          PROVE  d # c /\ pc[d] = "write1h" /\ read'[d] = read[d]
      BY <1>7, <2>9 DEF Write1h, Goto, TypeOK
    <2>10. ASSUME NEW d \in Compactors, pc'[d] = "delete5m"
           PROVE  now[d] <= last1h'
      <3>1. now[c] <= last1h' /\ last1h <= last1h'
        BY <1>7 DEF Write1h, Later, TypeOK
      <3>2. CASE d = c BY <3>1, <3>2
      <3>3. CASE d # c
        <4>1. now[d] <= last1h BY <1>7, <2>10, <3>3 DEF Write1h, Goto, TypeOK, AggregatesOK
        <4>q. QED BY <1>7, <3>1, <4>1 DEF Write1h, Later, TypeOK
      <3>q. QED BY <3>2, <3>3
    <2>11. now' = now BY <1>7 DEF Write1h
    <2>12. AggregatesOK'
      BY <2>3, <2>5, <2>8, <2>9, <2>10, <2>11 DEF AggregatesOK
    <2>q. QED BY <2>6, <2>12
  <1>8. ASSUME NEW c \in Compactors, Delete5m(c) PROVE AggregatesOK' /\ NoAggregateLost'
    <2>1. ASSUME NEW a \in made, a \notin remade
          PROVE  a \in db'
      <3>1. a \in db BY <2>1 DEF NoAggregateLost
      <3>2. a.ts \in Int BY DEF TypeOK, EntryOK
      <3>3. ~ (a.ts < last1h - Compact1hDelay) BY <2>1 DEF AggregatesOK
      <3>4. now[c] <= last1h BY <1>8 DEF Delete5m, AggregatesOK
      <3>5. ~ (a.ts < now[c] - FiveMinRetention)
        BY <3>2, <3>3, <3>4 DEF Timely, TypeOK
      <3>q. QED BY <1>8, <3>1, <3>5 DEF Delete5m, FiveMinCutoff, DeleteBefore
    <2>2. NoAggregateLost' BY <1>8, <2>1 DEF Delete5m, NoAggregateLost, ghosts
    <2>3. AggregatesOK' BY <1>8 DEF Delete5m, AggregatesOK, Goto, TypeOK, ghosts
    <2>q. QED BY <2>2, <2>3
  <1>9. ASSUME NEW c \in Compactors, Fail(c) PROVE AggregatesOK' /\ NoAggregateLost'
    BY <1>9 DEF Fail, AggregatesOK, NoAggregateLost, Goto, TypeOK, ghosts
  <1>10. CASE Tick
    BY <1>10 DEF Tick, AggregatesOK, NoAggregateLost, ghosts
  <1>11. CASE UNCHANGED vars
    BY <1>11 DEF vars, ghosts, AggregatesOK, NoAggregateLost
  <1>q. QED
    BY <1>1, <1>2, <1>3, <1>4, <1>5, <1>6, <1>7, <1>8, <1>9, <1>10, <1>11
    DEF Next, Run

\* The invariant behind both properties holds in every reachable state of a
\* timely system.
THEOREM Inductive == Timely => (Spec => []IInv)
  <1> SUFFICES ASSUME Timely PROVE Spec => []IInv OBVIOUS
  <1>1. TypeOK /\ TypeOK' /\ IInv /\ [Next]_vars => IInv'
    BY ClocksStep, SamplesStep, AggregatesStep DEF IInv
  <1>q. QED BY <1>1, IInvInit, TypeCorrect, PTL DEF Spec

\* Compact5m and the raw Delete of CompactAndCleanup: in a timely system no raw
\* sample is deleted before a committed 5m aggregate represents it, for any
\* number of concurrent compactors, failures and retries.
THEOREM SamplesSurvive == Timely => (Spec => []NoSampleLost)
  <1>1. IInv => NoSampleLost BY DEF IInv
  <1>q. QED BY <1>1, Inductive, PTL

\* Compact1h and the 5m Delete: in a timely system no 5m aggregate is deleted
\* before a committed 1h aggregate represents it.
THEOREM AggregatesSurvive == Timely => (Spec => []NoAggregateLost)
  <1>1. IInv => NoAggregateLost BY DEF IInv
  <1>q. QED BY <1>1, Inductive, PTL

-----------------------------------------------------------------------------
(***************************************************************************)
(* What the aggregates count.  The samples behind an aggregate are not in  *)
(* the store any more; that there are some, and which, is an invariant.    *)
(***************************************************************************)
AreSamples(entries) ==
    \A e \in entries :
        \E s \in Series, t \in SampleTimes : \E v \in ValuesAt[t] : e = RawEntry(s, t, v)

Keys(entries) == {KeyOf(e) : e \in entries}

OnePerKey(entries) == \A e, f \in entries : KeyOf(e) = KeyOf(f) => e = f

\* The aggregate merges one sample per key, all of its series and bucket.
Traced(a, keys) ==
    \E entries :
        /\ AreSamples(entries) /\ IsFiniteSet(entries) /\ entries # {}
        /\ OnePerKey(entries)
        /\ \A e \in entries : e.series = a.series /\ RoundTo(e.ts, FiveMinutes) = a.ts
        /\ a.stats = Merge(entries)
        /\ keys = Keys(entries)

\* The store and the history agree, and a window is read as it was stored.
Ledger ==
    /\ IsFiniteSet(db) /\ IsFiniteSet(accepted)
    /\ \A c \in Compactors : IsFiniteSet(read[c])
    /\ folded \subseteq accepted
    /\ AreSamples(RawOnly(db)) /\ OnePerKey(RawOnly(db))
    /\ Keys(RawOnly(db)) \subseteq accepted
    /\ FiveMinOnly(db) \subseteq made
    /\ \A c \in Compactors : pc[c] = "write5m" =>
        /\ AreSamples(read[c]) /\ OnePerKey(read[c])
        /\ Keys(read[c]) \subseteq accepted
    /\ \A c \in Compactors : pc[c] = "write1h" => read[c] \subseteq made

\* Every aggregate stands for folded samples, every folded sample is behind one.
Provenance ==
    /\ \A o \in origins : o.agg \in made /\ o.keys \subseteq folded /\ Traced(o.agg, o.keys)
    /\ \A a \in made : \E o \in origins : o.agg = a
    /\ \A k \in folded : \E o \in origins : k \in o.keys

\* No window that is or will be open reaches the bucket.
Behind(t) ==
    /\ t + FiveMinutes <= clock - Compact5mLookback
    /\ \A c \in Compactors : pc[c] \in {"query5m", "write5m"} =>
            t + FiveMinutes <= now[c] - Compact5mLookback

\* Step 4 takes the aggregates of a bucket all at once, and after its last write.
GoneTogether ==
    \A a \in made \ db : Behind(a.ts) /\ Stored(Resolution5m, a.series, a.ts) = {}

\* With one compactor runs follow each other.
InOrder ==
    /\ last1h <= last5m
    /\ \A c \in Compactors : pc[c] # "idle" =>
            last5m <= now[c] /\ last1h <= now[c] /\ now[c] \in RunTimes
    /\ \A c \in Compactors :
            pc[c] \in {"deleteRaw", "query1h", "write1h", "delete5m"} => now[c] <= last5m

\* What was folded is deleted before the next window is read.
FoldedOnce ==
    /\ \A k \in folded : k.ts < last5m - Compact5mDelay
    /\ \A c \in Compactors : pc[c] = "write5m" =>
            \A e \in read[c] : e.ts < now[c] - Compact5mDelay
    /\ failures = 0 =>
        /\ (\E e \in RawOnly(db) : KeyOf(e) \in folded) =>
                \E c \in Compactors : pc[c] = "deleteRaw"
        /\ \A c \in Compactors : pc[c] = "write5m" => Keys(read[c]) \cap folded = {}

\* So each folded sample was merged once.
Partition ==
    failures = 0 => \A o, p \in origins : o # p => o.keys \cap p.keys = {}

Hour(t) == RoundTo(t, OneHour)

Complete(s, hour) ==
    ToldApart(s, hour, OneHour) =>
        \E h \in Stored(Resolution1h, UserSeries[s], hour) :
            h.stats.count = Cardinality(KeysIn(accepted, s, hour, OneHour))

\* A 1h step reads every 5m aggregate of its window, none of them deleted yet; an
\* hour that lies behind it is complete.
HoursOK ==
    /\ \A a \in made \ db : a.ts < last1h - FiveMinRetention
    /\ \A c \in Compactors : pc[c] = "write1h" =>
        \A a \in made :
            now[c] - Compact1hLookback <= a.ts /\ a.ts < now[c] - Compact1hDelay
                => a \in read[c]
    /\ failures = 0 =>
        \A a \in made :
            Hour(a.ts) + OneHour <= last1h - Compact1hDelay => Complete(a.series, Hour(a.ts))

-----------------------------------------------------------------------------
(***************************************************************************)
(* The store, tier by tier.                                                *)
(***************************************************************************)
\* Two entries of a key have one series and one time.
LEMMA KeysMatch ==
    ASSUME NEW e, NEW f
    PROVE  KeyOf(e) = KeyOf(f) <=> e.series = f.series /\ e.ts = f.ts
  BY DEF KeyOf

\* A sample is a raw entry of one value.
LEMMA SampleShape ==
    ASSUME NEW entries, AreSamples(entries), NEW e \in entries
    PROVE  /\ e.res = ResolutionRaw
           /\ e.series \in Series /\ e.ts \in SampleTimes /\ e.ts \in Nat
           /\ e.stats.count = 1
           /\ EntryOK(e)
  <1>1. PICK s \in Series, t \in SampleTimes : \E v \in ValuesAt[t] : e = RawEntry(s, t, v)
    BY DEF AreSamples
  <1>2. t \in Nat
    BY CompactionConstants
  <1>. QED
    BY <1>1, <1>2 DEF RawEntry, Entry, StatsOf, EntryOK, Resolutions

\* A transaction of aggregates adds them and replaces nothing.
LEMMA PutAdds ==
    ASSUME NEW store, NEW new, \A e \in store : EntryOK(e),
           \A n \in new : EntryOK(n) /\ n.res # ResolutionRaw
    PROVE  Put(store, new) = store \cup new
  <1>1. \A e \in store, n \in new : SameKey(e, n) => e = n
    BY PlainKey DEF EntryOK
  <1>. QED
    BY <1>1 DEF Put

\* A transaction is finite.
LEMMA PutFinite ==
    ASSUME NEW store, NEW new, IsFiniteSet(store), IsFiniteSet(new)
    PROVE  IsFiniteSet(Put(store, new))
  <1>1. Put(store, new) \subseteq store \cup new
    BY DEF Put
  <1>. QED
    BY <1>1, FS_Union, FS_Subset

\* There are no more aggregates than entries they are made of.
LEMMA AggregatesFinite ==
    ASSUME NEW entries, NEW res, NEW width, IsFiniteSet(entries)
    PROVE  IsFiniteSet(Aggregates(entries, res, width))
  <1>. DEFINE groupOf == [e \in entries |-> <<e.series, RoundTo(e.ts, width)>>]
              groups == {groupOf[e] : e \in entries}
              made5m == [g \in groups |->
                            Entry(g[1], g[2], res, Merge(InBucket(entries, g[1], g[2], width)))]
  <1>1. IsFiniteSet(groups)
    <2>. HIDE DEF groupOf
    <2>. QED
      BY FiniteImage
  <1>2. IsFiniteSet({made5m[g] : g \in groups})
    <2>. HIDE DEF made5m, groups
    <2>. QED
      BY <1>1, FiniteImage
  <1>3. groups = {<<e.series, RoundTo(e.ts, width)>> : e \in entries}
    OBVIOUS
  <1>4. Aggregates(entries, res, width) = {made5m[g] : g \in groups}
    <2>. HIDE DEF groups
    <2>1. {made5m[g] : g \in groups} =
              {Entry(g[1], g[2], res, Merge(InBucket(entries, g[1], g[2], width))) : g \in groups}
      OBVIOUS
    <2>. QED
      BY <1>3, <2>1 DEF Aggregates
  <1>. QED
    BY <1>2, <1>4

\* Step 1 adds aggregates to the 5m tier and changes no other.
LEMMA Write5mTiers ==
    ASSUME TypeOK, NEW c \in Compactors, Write5m(c)
    PROVE  /\ db' = db \cup Aggregates(read[c], Resolution5m, FiveMinutes)
           /\ \A a \in Aggregates(read[c], Resolution5m, FiveMinutes) : a.res = Resolution5m
           /\ RawOnly(db') = RawOnly(db)
           /\ FiveMinOnly(db') =
                  FiveMinOnly(db) \cup Aggregates(read[c], Resolution5m, FiveMinutes)
           /\ \A s, t : Stored(Resolution1h, s, t)' = Stored(Resolution1h, s, t)
  <1>. DEFINE aggs == Aggregates(read[c], Resolution5m, FiveMinutes)
  <1>1. \A a \in aggs : EntryOK(a) /\ a.res = Resolution5m
    BY CompactionConstants, AggregatesType DEF TypeOK, Resolutions
  <1>2. db' = Put(db, aggs)
    BY DEF Write5m
  <1>. HIDE DEF aggs
  <1>3. db' = db \cup aggs
    BY <1>1, <1>2, PutAdds DEF TypeOK, ResolutionRaw, Resolution5m
  <1>4. /\ RawOnly(db') = RawOnly(db)
        /\ FiveMinOnly(db') = FiveMinOnly(db) \cup aggs
        /\ \A s, t : Stored(Resolution1h, s, t)' = Stored(Resolution1h, s, t)
    BY <1>1, <1>3
    DEF RawOnly, FiveMinOnly, Stored, ResolutionRaw, Resolution5m, Resolution1h
  <1>. QED
    BY <1>1, <1>3, <1>4 DEF aggs

\* Step 3 adds aggregates to the 1h tier and changes no other.
LEMMA Write1hTiers ==
    ASSUME TypeOK, NEW c \in Compactors, Write1h(c)
    PROVE  LET aggs == Aggregates({FromMetric(e) : e \in read[c]}, Resolution1h, OneHour)
           IN  /\ db' = db \cup aggs
               /\ RawOnly(db') = RawOnly(db)
               /\ FiveMinOnly(db') = FiveMinOnly(db)
               /\ \A s, t : Stored(Resolution1h, s, t) \subseteq Stored(Resolution1h, s, t)'
  <1>. DEFINE parsed == {FromMetric(e) : e \in read[c]}
              aggs == Aggregates(parsed, Resolution1h, OneHour)
  <1>1. \A e \in parsed : EntryOK(e)
    BY FromMetricType DEF TypeOK
  <1>2. \A a \in aggs : EntryOK(a) /\ a.res = Resolution1h
    <2>. HIDE DEF parsed
    <2>. QED
      BY <1>1, CompactionConstants, AggregatesType DEF Resolutions
  <1>3. db' = Put(db, aggs)
    BY DEF Write1h
  <1>. HIDE DEF aggs
  <1>4. db' = db \cup aggs
    BY <1>2, <1>3, PutAdds DEF TypeOK, ResolutionRaw, Resolution1h
  <1>5. /\ RawOnly(db') = RawOnly(db)
        /\ FiveMinOnly(db') = FiveMinOnly(db)
        /\ \A s, t : Stored(Resolution1h, s, t) \subseteq Stored(Resolution1h, s, t)'
    BY <1>2, <1>4 DEF RawOnly, FiveMinOnly, Stored, ResolutionRaw, Resolution5m, Resolution1h
  <1>. QED
    BY <1>4, <1>5 DEF aggs

\* A sample replaces the one of its key and leaves the aggregates alone.
LEMMA IngestTiers ==
    ASSUME TypeOK, NEW s \in Series, NEW t \in SampleTimes, NEW v \in ValuesAt[t],
           Ingest(s, t, v)
    PROVE  /\ AreSamples({RawEntry(s, t, v)})
           /\ KeyOf(RawEntry(s, t, v)) = [series |-> s, ts |-> t]
           /\ RawOnly(db') =
                  {e \in RawOnly(db) : KeyOf(e) # [series |-> s, ts |-> t]}
                      \cup {RawEntry(s, t, v)}
           /\ FiveMinOnly(db') = FiveMinOnly(db)
           /\ \A x, y : Stored(Resolution1h, x, y)' = Stored(Resolution1h, x, y)
  <1>. DEFINE new == RawEntry(s, t, v)
  <1>1. /\ AreSamples({new})
        /\ KeyOf(new) = [series |-> s, ts |-> t]
        /\ new.series = s /\ new.ts = t /\ new.res = ResolutionRaw
        /\ EntryOK(new)
    BY CompactionConstants DEF AreSamples, RawEntry, Entry, KeyOf, EntryOK, Resolutions
  <1>2. db' = {e \in db : ~ SameKey(e, new)} \cup {new}
    BY DEF Ingest, Put
  <1>. HIDE DEF new
  <1>3. \A e \in db : SameKey(e, new) <=> e.res = ResolutionRaw /\ KeyOf(e) = KeyOf(new)
    BY <1>1, KeysMatch, PlainKey DEF TypeOK
  <1>4. /\ RawOnly(db') = {e \in RawOnly(db) : KeyOf(e) # KeyOf(new)} \cup {new}
        /\ FiveMinOnly(db') = FiveMinOnly(db)
        /\ \A x, y : Stored(Resolution1h, x, y)' = Stored(Resolution1h, x, y)
    BY <1>1, <1>2, <1>3
    DEF RawOnly, FiveMinOnly, Stored, ResolutionRaw, Resolution5m, Resolution1h
  <1>. QED
    BY <1>1, <1>4 DEF new

\* Steps 2 and 4 delete from one tier.
LEMMA DeleteTiers ==
    ASSUME NEW c \in Compactors
    PROVE  /\ DeleteRaw(c) =>
                /\ db' \subseteq db
                /\ RawOnly(db') = {e \in RawOnly(db) : ~ (e.ts < RawCutoff(c))}
                /\ FiveMinOnly(db') = FiveMinOnly(db)
                /\ \A s, t : Stored(Resolution1h, s, t)' = Stored(Resolution1h, s, t)
           /\ Delete5m(c) =>
                /\ db' \subseteq db
                /\ RawOnly(db') = RawOnly(db)
                /\ FiveMinOnly(db') = {e \in FiveMinOnly(db) : ~ (e.ts < FiveMinCutoff(c))}
                /\ \A s, t : Stored(Resolution1h, s, t)' = Stored(Resolution1h, s, t)
  BY DEF DeleteRaw, Delete5m, DeleteBefore, RawOnly, FiveMinOnly, Stored,
         ResolutionRaw, Resolution5m, Resolution1h

-----------------------------------------------------------------------------
(***************************************************************************)
(* The ledger is kept by every step, whatever the environment does.        *)
(***************************************************************************)
\* Nothing is stored yet.
LEMMA LedgerInit == Init => Ledger
  BY FS_EmptySet
  DEF Init, Ledger, RawOnly, FiveMinOnly, AreSamples, OnePerKey, Keys

\* A step that stores nothing, reads nothing new and starts no write keeps it.
LEMMA LedgerKept ==
    ASSUME Ledger, UNCHANGED <<accepted, folded, made>>, db' \subseteq db,
           RawOnly(db') \subseteq RawOnly(db),
           \A c \in Compactors : read'[c] \subseteq read[c],
           \A c \in Compactors : pc'[c] = "write5m" => pc[c] = "write5m",
           \A c \in Compactors : pc'[c] = "write1h" => pc[c] = "write1h"
    PROVE  Ledger'
  <1>1. IsFiniteSet(db') /\ \A c \in Compactors : IsFiniteSet(read'[c])
    BY FS_Subset DEF Ledger
  <1>2. AreSamples(RawOnly(db')) /\ OnePerKey(RawOnly(db')) /\ Keys(RawOnly(db')) \subseteq accepted
    BY DEF Ledger, AreSamples, OnePerKey, Keys
  <1>3. FiveMinOnly(db') \subseteq made
    BY DEF Ledger, FiveMinOnly
  <1>4. ASSUME NEW c \in Compactors, pc'[c] = "write5m"
        PROVE  AreSamples(read'[c]) /\ OnePerKey(read'[c]) /\ Keys(read'[c]) \subseteq accepted
    BY <1>4 DEF Ledger, AreSamples, OnePerKey, Keys
  <1>5. \A c \in Compactors : pc'[c] = "write1h" => read'[c] \subseteq made
    BY DEF Ledger
  <1>. QED
    BY <1>1, <1>2, <1>3, <1>4, <1>5 DEF Ledger

\* Each store call keeps it.
LEMMA LedgerStep == TypeOK /\ Ledger /\ [Next]_vars => Ledger'
  <1>. SUFFICES ASSUME TypeOK, Ledger, [Next]_vars PROVE Ledger'
    OBVIOUS
  <1>1. ASSUME NEW s \in Series, NEW t \in SampleTimes, NEW v \in ValuesAt[t],
               Ingest(s, t, v)
        PROVE  Ledger'
    <2>. DEFINE k == [series |-> s, ts |-> t]
                new == RawEntry(s, t, v)
    <2>1. /\ AreSamples({new}) /\ KeyOf(new) = k
          /\ RawOnly(db') = {e \in RawOnly(db) : KeyOf(e) # k} \cup {new}
          /\ FiveMinOnly(db') = FiveMinOnly(db)
      BY <1>1, IngestTiers
    <2>2. /\ db' = Put(db, {new})
          /\ accepted' = accepted \cup {k}
          /\ UNCHANGED <<pc, read, folded, made>>
      BY <1>1 DEF Ingest
    <2>. HIDE DEF k, new
    <2>3. IsFiniteSet(db') /\ IsFiniteSet(accepted')
      BY <2>2, PutFinite, FS_AddElement, FS_Singleton DEF Ledger
    <2>4. /\ AreSamples(RawOnly(db')) /\ OnePerKey(RawOnly(db'))
          /\ Keys(RawOnly(db')) \subseteq accepted'
      BY <2>1, <2>2 DEF Ledger, AreSamples, OnePerKey, Keys
    <2>. QED
      BY <2>1, <2>2, <2>3, <2>4 DEF Ledger
  <1>2. ASSUME NEW c \in Compactors, Start(c) PROVE Ledger'
    BY <1>2, LedgerKept DEF Start, Goto, TypeOK, ghosts
  <1>3. ASSUME NEW c \in Compactors, Query5m(c) PROVE Ledger'
    <2>1. /\ UNCHANGED <<db, accepted, folded, made>>
          /\ \A d \in Compactors : d # c => read'[d] = read[d] /\ pc'[d] = pc[d]
          /\ pc'[c] = "write5m"
          /\ read'[c] \subseteq RawOnly(db)
      BY <1>3 DEF Query5m, Goto, TypeOK, ghosts, RawOnly, Window5m, InRange
    <2>2. IsFiniteSet(read'[c])
      <3>1. RawOnly(db) \subseteq db
        BY DEF RawOnly
      <3>. QED
        BY <2>1, <3>1, FS_Subset DEF Ledger
    <2>3. AreSamples(read'[c]) /\ OnePerKey(read'[c]) /\ Keys(read'[c]) \subseteq accepted
      BY <2>1 DEF Ledger, AreSamples, OnePerKey, Keys
    <2>. QED
      BY <2>1, <2>2, <2>3 DEF Ledger
  <1>4. ASSUME NEW c \in Compactors, Write5m(c) PROVE Ledger'
    <2>. DEFINE aggs == Aggregates(read[c], Resolution5m, FiveMinutes)
    <2>1. /\ db' = db \cup aggs
          /\ RawOnly(db') = RawOnly(db)
          /\ FiveMinOnly(db') = FiveMinOnly(db) \cup aggs
      BY <1>4, Write5mTiers
    <2>2. IsFiniteSet(aggs)
      BY AggregatesFinite DEF Ledger
    <2>3. made' = made \cup aggs
      BY <1>4 DEF Write5m
    <2>. HIDE DEF aggs
    <2>4. /\ folded' = folded \cup Keys(read[c])
          /\ pc[c] = "write5m" /\ pc'[c] = "deleteRaw" /\ read'[c] = {}
          /\ accepted' = accepted
          /\ \A d \in Compactors : d # c => read'[d] = read[d] /\ pc'[d] = pc[d]
      BY <1>4 DEF Write5m, Goto, TypeOK, Keys
    <2>5. IsFiniteSet(db') /\ IsFiniteSet(read'[c]) /\ folded' \subseteq accepted'
      BY <2>1, <2>2, <2>4, FS_Union, FS_EmptySet DEF Ledger
    <2>. QED
      BY <2>1, <2>3, <2>4, <2>5 DEF Ledger
  <1>5. ASSUME NEW c \in Compactors, DeleteRaw(c) PROVE Ledger'
    BY <1>5, DeleteTiers, LedgerKept DEF DeleteRaw, Goto, TypeOK, ghosts
  <1>6. ASSUME NEW c \in Compactors, Query1h(c) PROVE Ledger'
    <2>1. /\ UNCHANGED <<db, accepted, folded, made>>
          /\ \A d \in Compactors : d # c => read'[d] = read[d] /\ pc'[d] = pc[d]
          /\ pc'[c] = "write1h"
          /\ read'[c] \subseteq FiveMinOnly(db)
      BY <1>6 DEF Query1h, Goto, TypeOK, ghosts, FiveMinOnly, Window1h, InRange
    <2>2. IsFiniteSet(read'[c])
      <3>1. FiveMinOnly(db) \subseteq db
        BY DEF FiveMinOnly
      <3>. QED
        BY <2>1, <3>1, FS_Subset DEF Ledger
    <2>. QED
      BY <2>1, <2>2 DEF Ledger
  <1>7. ASSUME NEW c \in Compactors, Write1h(c) PROVE Ledger'
    <2>. DEFINE fromMetric == [e \in read[c] |-> FromMetric(e)]
                parsed == {FromMetric(e) : e \in read[c]}
                aggs == Aggregates(parsed, Resolution1h, OneHour)
    <2>1. /\ db' = db \cup aggs
          /\ RawOnly(db') = RawOnly(db)
          /\ FiveMinOnly(db') = FiveMinOnly(db)
      BY <1>7, Write1hTiers
    <2>2. IsFiniteSet(aggs)
      <3>1. parsed = {fromMetric[e] : e \in read[c]}
        OBVIOUS
      <3>2. IsFiniteSet(parsed)
        <4>. HIDE DEF fromMetric, parsed
        <4>. QED
          BY <3>1, FiniteImage DEF Ledger
      <3>. HIDE DEF parsed
      <3>. QED
        BY <3>2, AggregatesFinite
    <2>. HIDE DEF aggs
    <2>4. /\ UNCHANGED <<accepted, folded, made>>
          /\ pc[c] = "write1h" /\ pc'[c] = "delete5m" /\ read'[c] = {}
          /\ \A d \in Compactors : d # c => read'[d] = read[d] /\ pc'[d] = pc[d]
      BY <1>7 DEF Write1h, Goto, TypeOK
    <2>5. IsFiniteSet(db') /\ IsFiniteSet(read'[c])
      BY <2>1, <2>2, <2>4, FS_Union, FS_EmptySet DEF Ledger
    <2>. QED
      BY <2>1, <2>4, <2>5 DEF Ledger
  <1>8. ASSUME NEW c \in Compactors, Delete5m(c) PROVE Ledger'
    BY <1>8, DeleteTiers, LedgerKept DEF Delete5m, Goto, TypeOK, ghosts
  <1>9. ASSUME NEW c \in Compactors, Fail(c) PROVE Ledger'
    BY <1>9, LedgerKept DEF Fail, Goto, TypeOK, ghosts
  <1>10. CASE Tick
    BY <1>10, LedgerKept DEF Tick, ghosts
  <1>11. CASE UNCHANGED vars
    BY <1>11, LedgerKept DEF vars, ghosts
  <1>. QED
    BY <1>1, <1>2, <1>3, <1>4, <1>5, <1>6, <1>7, <1>8, <1>9, <1>10, <1>11
    DEF Next, Run

-----------------------------------------------------------------------------
(***************************************************************************)
(* Where aggregates come from.                                             *)
(***************************************************************************)
\* There is one aggregate per series and bucket of an entry, and no other.
LEMMA AggregatesAre ==
    ASSUME NEW entries, NEW res, NEW width, NEW a
    PROVE  a \in Aggregates(entries, res, width) <=>
               \E e \in entries :
                   a = Entry(e.series, RoundTo(e.ts, width), res,
                             Merge(InBucket(entries, e.series, RoundTo(e.ts, width), width)))
  <1>. DEFINE groups == {<<e.series, RoundTo(e.ts, width)>> : e \in entries}
              From(g) == Entry(g[1], g[2], res, Merge(InBucket(entries, g[1], g[2], width)))
  <1>1. Aggregates(entries, res, width) = {From(g) : g \in groups}
    BY DEF Aggregates
  <1>2. \A e \in entries : <<e.series, RoundTo(e.ts, width)>> \in groups
    OBVIOUS
  <1>3. \A g \in groups : \E e \in entries : g = <<e.series, RoundTo(e.ts, width)>>
    OBVIOUS
  <1>4. \A x, y : From(<<x, y>>) = Entry(x, y, res, Merge(InBucket(entries, x, y, width)))
    OBVIOUS
  <1>. HIDE DEF groups, From
  <1>5. ASSUME NEW e \in entries,
               a = Entry(e.series, RoundTo(e.ts, width), res,
                         Merge(InBucket(entries, e.series, RoundTo(e.ts, width), width)))
        PROVE  a \in Aggregates(entries, res, width)
    <2>1. a = From(<<e.series, RoundTo(e.ts, width)>>)
      BY <1>4, <1>5, Zenon
    <2>. QED
      BY <1>1, <1>2, <2>1, Zenon
  <1>6. ASSUME a \in Aggregates(entries, res, width)
        PROVE  \E e \in entries :
                   a = Entry(e.series, RoundTo(e.ts, width), res,
                             Merge(InBucket(entries, e.series, RoundTo(e.ts, width), width)))
    <2>1. PICK g \in groups : a = From(g)
      BY <1>1, <1>6, Zenon
    <2>2. PICK e \in entries : g = <<e.series, RoundTo(e.ts, width)>>
      BY <1>3, Zenon
    <2>3. a = Entry(e.series, RoundTo(e.ts, width), res,
                    Merge(InBucket(entries, e.series, RoundTo(e.ts, width), width)))
      BY <1>4, <2>1, <2>2, Zenon
    <2>. QED
      BY <2>3, Zenon
  <1>. QED
    BY <1>5, <1>6, Zenon

\* Samples of different keys are as many as their keys.
LEMMA KeyCount ==
    ASSUME NEW entries, IsFiniteSet(entries), OnePerKey(entries)
    PROVE  IsFiniteSet(Keys(entries)) /\ Cardinality(Keys(entries)) = Cardinality(entries)
  <1>. DEFINE keyOf == [e \in entries |-> KeyOf(e)]
  <1>1. keyOf \in Surjection(entries, Keys(entries))
    BY DEF Surjection, Keys
  <1>2. keyOf \in Injection(entries, Keys(entries))
    BY <1>1 DEF Injection, IsInjective, Surjection, OnePerKey
  <1>. HIDE DEF keyOf
  <1>. QED
    BY <1>1, <1>2, FS_Surjection

\* Merge counts the samples it merges.
LEMMA MergeCount ==
    ASSUME NEW entries, IsFiniteSet(entries), AreSamples(entries)
    PROVE  Merge(entries).count = Cardinality(entries)
  <1>. DEFINE count == [e \in entries |-> e.stats.count]
  <1>1. \A e \in entries : count[e] = 1
    BY SampleShape
  <1>2. Merge(entries).count = SumFunctionOnSet(count, entries)
    BY DEF Merge, SumFunction
  <1>. HIDE DEF count
  <1>. QED
    BY <1>1, <1>2, SumOfOnes

\* An aggregate counts the samples behind it, all of its series and bucket.
LEMMA TracedCount ==
    ASSUME NEW a, NEW keys, Traced(a, keys)
    PROVE  /\ IsFiniteSet(keys) /\ keys # {}
           /\ a.stats.count = Cardinality(keys)
           /\ \A k \in keys : /\ k.series = a.series
                              /\ RoundTo(k.ts, FiveMinutes) = a.ts
  <1>1. PICK entries :
            /\ AreSamples(entries) /\ IsFiniteSet(entries) /\ entries # {}
            /\ OnePerKey(entries)
            /\ \A e \in entries : e.series = a.series /\ RoundTo(e.ts, FiveMinutes) = a.ts
            /\ a.stats = Merge(entries)
            /\ keys = Keys(entries)
    BY DEF Traced
  <1>2. IsFiniteSet(keys) /\ a.stats.count = Cardinality(keys)
    BY <1>1, KeyCount, MergeCount
  <1>3. keys # {}
    BY <1>1 DEF Keys
  <1>4. ASSUME NEW k \in keys
        PROVE  k.series = a.series /\ RoundTo(k.ts, FiveMinutes) = a.ts
    <2>1. PICK e \in entries : k = KeyOf(e)
      BY <1>1 DEF Keys
    <2>. QED
      BY <1>1, <2>1 DEF KeyOf
  <1>. QED
    BY <1>2, <1>3, <1>4

\* What a 5m step writes is traced to what it read.
LEMMA WrittenTraced ==
    ASSUME NEW entries, AreSamples(entries), IsFiniteSet(entries), OnePerKey(entries)
    PROVE  /\ \A a \in Aggregates(entries, Resolution5m, FiveMinutes) :
                  Traced(a, Keys(InBucket(entries, a.series, a.ts, FiveMinutes)))
           /\ \A e \in entries : \E a \in Aggregates(entries, Resolution5m, FiveMinutes) :
                  e \in InBucket(entries, a.series, a.ts, FiveMinutes)
  <1>. DEFINE Bucket(e) == InBucket(entries, e.series, RoundTo(e.ts, FiveMinutes), FiveMinutes)
              Of(e) == Entry(e.series, RoundTo(e.ts, FiveMinutes), Resolution5m, Merge(Bucket(e)))
              aggs == Aggregates(entries, Resolution5m, FiveMinutes)
  <1>1. \A e \in entries :
            /\ Of(e).series = e.series
            /\ Of(e).ts = RoundTo(e.ts, FiveMinutes)
            /\ Of(e).stats = Merge(Bucket(e))
    BY DEF Entry
  <1>2. \A a : a \in aggs <=> \E e \in entries : a = Of(e)
    BY AggregatesAre
  <1>3. \A e \in entries : e \in Bucket(e)
    BY DEF InBucket
  <1>4. ASSUME NEW e \in entries PROVE Traced(Of(e), Keys(Bucket(e)))
    <2>1. Bucket(e) \subseteq entries /\ Bucket(e) # {}
      BY <1>3 DEF InBucket
    <2>2. IsFiniteSet(Bucket(e))
      BY <2>1, FS_Subset
    <2>3. AreSamples(Bucket(e)) /\ OnePerKey(Bucket(e))
      BY <2>1 DEF AreSamples, OnePerKey
    <2>4. \A f \in Bucket(e) :
              f.series = Of(e).series /\ RoundTo(f.ts, FiveMinutes) = Of(e).ts
      BY <1>1 DEF InBucket
    <2>. HIDE DEF Bucket, Of
    <2>. QED
      BY <1>1, <2>1, <2>2, <2>3, <2>4 DEF Traced
  <1>5. \A e \in entries : Bucket(e) = InBucket(entries, Of(e).series, Of(e).ts, FiveMinutes)
    BY <1>1
  <1>. HIDE DEF Bucket, Of, aggs
  <1>6. \A a \in aggs : Traced(a, Keys(InBucket(entries, a.series, a.ts, FiveMinutes)))
    BY <1>2, <1>4, <1>5
  <1>7. \A e \in entries : \E a \in aggs : e \in InBucket(entries, a.series, a.ts, FiveMinutes)
    BY <1>2, <1>3, <1>5
  <1>. QED
    BY <1>6, <1>7 DEF aggs

\* Nothing was folded or made yet.
LEMMA ProvenanceInit == Init => Provenance
  BY DEF Init, Provenance

\* A 5m step adds what it traces; no other step folds or makes anything.
LEMMA ProvenanceStep == TypeOK /\ Ledger /\ Provenance /\ [Next]_vars => Provenance'
  <1>. SUFFICES ASSUME TypeOK, Ledger, Provenance, [Next]_vars PROVE Provenance'
    OBVIOUS
  <1>1. CASE UNCHANGED <<folded, made, origins>>
    BY <1>1 DEF Provenance, Traced
  <1>2. ASSUME NEW c \in Compactors, Write5m(c) PROVE Provenance'
    <2>. DEFINE aggs == Aggregates(read[c], Resolution5m, FiveMinutes)
                KeysOf(a) == Keys(InBucket(read[c], a.series, a.ts, FiveMinutes))
    <2>1. /\ AreSamples(read[c]) /\ IsFiniteSet(read[c]) /\ OnePerKey(read[c])
      BY <1>2 DEF Ledger, Write5m
    <2>2. \A a \in aggs : Traced(a, KeysOf(a))
      BY <2>1, WrittenTraced
    <2>3. \A e \in read[c] : \E a \in aggs : KeyOf(e) \in KeysOf(a)
      BY <2>1, WrittenTraced DEF Keys
    <2>4. \A a : KeysOf(a) \subseteq Keys(read[c])
      BY DEF InBucket, Keys
    <2>5. folded' = folded \cup Keys(read[c]) /\ made' = made \cup aggs
      BY <1>2 DEF Write5m, Keys
    <2>6. \A a, keys : Traced(a, keys)' <=> Traced(a, keys)
      BY DEF Traced
    <2>a. \A a : Origin(a, read[c]).agg = a /\ Origin(a, read[c]).keys = KeysOf(a)
      BY DEF Origin, Keys
    <2>b. origins' = origins \cup {Origin(a, read[c]) : a \in aggs}
      BY <1>2 DEF Write5m
    <2>. HIDE DEF aggs, KeysOf
    <2>7. ASSUME NEW o \in origins'
          PROVE  o.agg \in made' /\ o.keys \subseteq folded' /\ Traced(o.agg, o.keys)
      <3>1. CASE o \in origins
        BY <2>5, <3>1 DEF Provenance
      <3>2. ASSUME NEW a \in aggs, o = Origin(a, read[c])
            PROVE  o.agg \in made' /\ o.keys \subseteq folded' /\ Traced(o.agg, o.keys)
        BY <2>2, <2>4, <2>5, <2>a, <3>2
      <3>. QED
        BY <2>b, <3>1, <3>2
    <2>8. \A a \in made' : \E o \in origins' : o.agg = a
      BY <2>5, <2>a, <2>b DEF Provenance
    <2>9. ASSUME NEW k \in folded' PROVE \E o \in origins' : k \in o.keys
      <3>1. CASE k \in folded
        BY <2>b, <3>1 DEF Provenance
      <3>2. CASE k \in Keys(read[c])
        <4>1. PICK e \in read[c] : k = KeyOf(e)
          BY <3>2 DEF Keys
        <4>2. PICK a \in aggs : k \in KeysOf(a)
          BY <2>3, <4>1
        <4>. QED
          BY <2>a, <2>b, <4>2
      <3>. QED
        BY <2>5, <3>1, <3>2
    <2>. QED
      BY <2>6, <2>7, <2>8, <2>9 DEF Provenance
  <1>3. \/ \E c \in Compactors : Write5m(c)
        \/ UNCHANGED <<folded, made, origins>>
    BY DEF Next, Run, vars, ghosts, Ingest, Start, Query5m, DeleteRaw, Query1h, Write1h,
           Delete5m, Fail, Tick
  <1>. QED
    BY <1>1, <1>2, <1>3

-----------------------------------------------------------------------------
(***************************************************************************)
(* How aggregates disappear.                                               *)
(***************************************************************************)
\* Nothing is gone yet.
LEMMA GoneInit == Init => GoneTogether
  BY DEF Init, GoneTogether

\* A step that leaves the 5m tier alone keeps it: runs begin at the clock.
LEMMA GoneKept ==
    ASSUME TypeOK, GoneTogether, TypeOK', made' = made, FiveMinOnly(db') = FiveMinOnly(db),
           clock <= clock',
           \A c \in Compactors : pc'[c] \in {"query5m", "write5m"} =>
               \/ now'[c] = clock
               \/ pc[c] \in {"query5m", "write5m"} /\ now'[c] = now[c]
    PROVE  GoneTogether'
  <1>1. /\ \A a \in made : a.res = Resolution5m /\ a.ts \in Int
        /\ \A c \in Compactors : now[c] \in Nat
    BY DEF TypeOK, EntryOK
  <1>a. clock \in Nat /\ clock' \in Nat /\ FiveMinutes \in Nat /\ Compact5mLookback \in Nat
    BY CompactionConstants DEF TypeOK
  <1>2. \A a \in made : a \in db' <=> a \in db
    BY <1>1 DEF FiveMinOnly
  <1>3. \A s, t : Stored(Resolution5m, s, t)' = Stored(Resolution5m, s, t)
    BY DEF FiveMinOnly, Stored
  <1>4. ASSUME NEW t \in Int, Behind(t) PROVE Behind(t)'
    <2>1. t + FiveMinutes <= clock - Compact5mLookback
      BY <1>4 DEF Behind
    <2>2. t + FiveMinutes <= clock' - Compact5mLookback
      <3>1. \A x, y, l, w \in Int : t + w <= x - l /\ x <= y => t + w <= y - l
        OBVIOUS
      <3>2. clock \in Int /\ clock' \in Int /\ Compact5mLookback \in Int /\ FiveMinutes \in Int
        BY <1>a
      <3>3. clock <= clock'
        OBVIOUS
      <3>. QED
        BY <2>1, <3>1, <3>2, <3>3, Zenon
    <2>3. ASSUME NEW c \in Compactors, pc'[c] \in {"query5m", "write5m"}
          PROVE  t + FiveMinutes <= now'[c] - Compact5mLookback
      BY <1>4, <2>1, <2>3 DEF Behind
    <2>. QED
      BY <2>2, <2>3 DEF Behind
  <1>. QED
    BY <1>1, <1>2, <1>3, <1>4 DEF GoneTogether

\* The 5m write comes too early to reach a bucket that is gone, the 5m delete
\* too late for any window that is still open.
LEMMA GoneStep ==
    Timely /\ TypeOK /\ TypeOK' /\ IInv /\ Ledger /\ GoneTogether /\ [Next]_vars
        => GoneTogether'
  <1>. SUFFICES ASSUME Timely, TypeOK, TypeOK', IInv, Ledger, GoneTogether, [Next]_vars
                PROVE  GoneTogether'
    OBVIOUS
  <1>0. clock <= clock /\ \A a \in made : a.res = Resolution5m /\ a.ts \in Int
    BY DEF TypeOK, EntryOK
  <1>1. ASSUME NEW s \in Series, NEW t \in SampleTimes, NEW v \in ValuesAt[t],
               Ingest(s, t, v)
        PROVE  GoneTogether'
    <2>1. FiveMinOnly(db') = FiveMinOnly(db)
      BY <1>1, IngestTiers
    <2>2. UNCHANGED <<clock, pc, now, made>>
      BY <1>1 DEF Ingest
    <2>. QED
      BY <1>0, <2>1, <2>2, GoneKept
  <1>2. ASSUME NEW c \in Compactors, Start(c) PROVE GoneTogether'
    BY <1>2, GoneKept DEF Start, Goto, TypeOK, ghosts
  <1>3. ASSUME NEW c \in Compactors, Query5m(c) PROVE GoneTogether'
    BY <1>3, GoneKept DEF Query5m, Goto, TypeOK, ghosts
  <1>4. ASSUME NEW c \in Compactors, Write5m(c) PROVE GoneTogether'
    <2>. DEFINE aggs == Aggregates(read[c], Resolution5m, FiveMinutes)
    <2>1. db' = db \cup aggs /\ \A a \in aggs : a.res = Resolution5m
      BY <1>4, Write5mTiers
    <2>2. made' = made \cup aggs
      BY <1>4 DEF Write5m
    <2>3. ASSUME NEW a \in aggs PROVE ~ Behind(a.ts)
      <3>1. PICK e \in read[c] :
                a = Entry(e.series, RoundTo(e.ts, FiveMinutes), Resolution5m, a.stats)
        BY AggregatesShape
      <3>2. e.ts \in Int /\ a.ts = RoundTo(e.ts, FiveMinutes)
        BY <3>1 DEF TypeOK, EntryOK, Entry
      <3>3. pc[c] = "write5m" /\ now[c] - Compact5mLookback <= e.ts /\ now[c] \in Nat
        BY <1>4 DEF Write5m, IInv, SamplesOK, TypeOK
      <3>4. a.ts \in Int /\ e.ts < a.ts + FiveMinutes
        BY <3>2, RoundToBounds, CompactionConstants
      <3>. QED
        BY <3>2, <3>3, <3>4, CompactionConstants DEF Behind
    <2>. HIDE DEF aggs
    <2>4. ASSUME NEW a \in made' \ db'
          PROVE  Behind(a.ts)' /\ Stored(Resolution5m, a.series, a.ts)' = {}
      <3>1. Behind(a.ts) /\ Stored(Resolution5m, a.series, a.ts) = {}
        BY <2>1, <2>2, <2>4 DEF GoneTogether
      <3>2. Behind(a.ts)'
        BY <1>4, <3>1 DEF Behind, Write5m, Goto, TypeOK
      <3>3. \A n \in aggs : n.ts # a.ts
        BY <2>3, <3>1
      <3>. QED
        BY <2>1, <3>1, <3>2, <3>3 DEF Stored
    <2>. QED
      BY <2>4 DEF GoneTogether
  <1>5. ASSUME NEW c \in Compactors, DeleteRaw(c) PROVE GoneTogether'
    <2>1. FiveMinOnly(db') = FiveMinOnly(db)
      BY <1>5, DeleteTiers
    <2>2. /\ UNCHANGED <<clock, now, made>>
          /\ \A d \in Compactors : pc'[d] \in {"query5m", "write5m"} =>
                pc[d] \in {"query5m", "write5m"}
      BY <1>5 DEF DeleteRaw, Goto, TypeOK, ghosts
    <2>. QED
      BY <1>0, <2>1, <2>2, GoneKept
  <1>6. ASSUME NEW c \in Compactors, Query1h(c) PROVE GoneTogether'
    BY <1>6, GoneKept DEF Query1h, Goto, TypeOK, ghosts
  <1>7. ASSUME NEW c \in Compactors, Write1h(c) PROVE GoneTogether'
    <2>1. FiveMinOnly(db') = FiveMinOnly(db)
      BY <1>7, Write1hTiers
    <2>. QED
      BY <1>7, <2>1, GoneKept DEF Write1h, Goto, TypeOK
  <1>8. ASSUME NEW c \in Compactors, Delete5m(c) PROVE GoneTogether'
    <2>1. FiveMinOnly(db') = {e \in FiveMinOnly(db) : ~ (e.ts < FiveMinCutoff(c))}
      BY <1>8, DeleteTiers
    <2>2. /\ UNCHANGED <<clock, now, made>>
          /\ \A d \in Compactors : pc'[d] \in {"query5m", "write5m"} =>
                pc[d] \in {"query5m", "write5m"}
          /\ pc[c] = "delete5m"
      BY <1>8 DEF Delete5m, Goto, TypeOK, ghosts
    <2>3. ASSUME NEW a \in made' \ db'
          PROVE  Behind(a.ts)' /\ Stored(Resolution5m, a.series, a.ts)' = {}
      <3>1. a \in made /\ a.res = Resolution5m /\ a.ts \in Int
        BY <1>0, <2>2, <2>3
      <3>2. CASE a \notin db
        <4>1. Behind(a.ts) /\ Stored(Resolution5m, a.series, a.ts) = {}
          BY <3>1, <3>2 DEF GoneTogether
        <4>2. Stored(Resolution5m, a.series, a.ts)' = {}
          BY <2>1, <4>1 DEF Stored, FiveMinOnly
        <4>. QED
          BY <2>2, <4>1, <4>2 DEF Behind
      <3>3. CASE a \in db
        <4>1. a.ts < FiveMinCutoff(c)
          BY <2>1, <2>3, <3>1, <3>3 DEF FiveMinOnly
        <4>2. Stored(Resolution5m, a.series, a.ts)' = {}
          BY <2>1, <4>1 DEF Stored, FiveMinOnly
        <4>3. /\ now[c] \in Nat /\ clock \in Nat
              /\ now[c] <= clock
              /\ \A d \in Compactors : now[d] \in Nat
              /\ \A d \in Compactors : pc[d] # "idle" => clock <= now[d] + MaxRun
          BY <2>2 DEF IInv, ClocksOK, TypeOK
        <4>4. a.ts + FiveMinutes + MaxRun <= now[c] - Compact5mLookback
          BY <3>1, <4>1, <4>3, CompactionConstants DEF FiveMinCutoff, Timely
        <4>5. a.ts + FiveMinutes <= clock - Compact5mLookback
          BY <3>1, <4>3, <4>4, CompactionConstants
        <4>6. ASSUME NEW d \in Compactors, pc[d] \in {"query5m", "write5m"}
              PROVE  a.ts + FiveMinutes <= now[d] - Compact5mLookback
          <5>1. clock <= now[d] + MaxRun /\ now[d] \in Nat
            BY <4>3, <4>6
          <5>. QED
            BY <3>1, <4>3, <4>4, <5>1, CompactionConstants
        <4>. QED
          BY <2>2, <4>2, <4>5, <4>6 DEF Behind
      <3>. QED
        BY <3>2, <3>3
    <2>. QED
      BY <2>3 DEF GoneTogether
  <1>9. ASSUME NEW c \in Compactors, Fail(c) PROVE GoneTogether'
    BY <1>9, GoneKept DEF Fail, Goto, TypeOK, ghosts
  <1>10. CASE Tick
    BY <1>10, GoneKept DEF Tick, ghosts, TypeOK
  <1>11. CASE UNCHANGED vars
    BY <1>11, GoneKept DEF vars, ghosts, TypeOK
  <1>. QED
    BY <1>1, <1>2, <1>3, <1>4, <1>5, <1>6, <1>7, <1>8, <1>9, <1>10, <1>11
    DEF Next, Run

-----------------------------------------------------------------------------
(***************************************************************************)
(* Counts.  An aggregate's statistics are its identity in the store        *)
(* (makeKey hashes them with the labels), so two partial aggregates of a   *)
(* bucket survive side by side only when they differ.  Nothing is assumed  *)
(* of the values: where two sets of samples made equal aggregates, the     *)
(* bucket is not told apart, and its counts are not spoken of.             *)
(***************************************************************************)
\* One of the sets of samples that made the aggregate.
OriginOf(a) == CHOOSE o \in origins : o.agg = a

Share(a) == OriginOf(a).keys

\* Every aggregate has one.
LEMMA ShareOf ==
    ASSUME Provenance, NEW a \in made
    PROVE  /\ OriginOf(a) \in origins /\ OriginOf(a).agg = a
           /\ Traced(a, Share(a)) /\ Share(a) \subseteq folded
  <1>1. \E o \in origins : o.agg = a
    BY DEF Provenance
  <1>2. OriginOf(a) \in origins /\ OriginOf(a).agg = a
    BY <1>1 DEF OriginOf
  <1>. QED
    BY <1>2 DEF Provenance, Share

\* The ledger, where aggregates come from and how they go hold together.
LEMMA CountsInductive == Timely => (Spec => [](TypeOK /\ Ledger /\ Provenance /\ GoneTogether))
  <1>. SUFFICES ASSUME Timely PROVE Spec => [](TypeOK /\ Ledger /\ Provenance /\ GoneTogether)
    OBVIOUS
  <1>1. Init => Ledger /\ Provenance /\ GoneTogether
    BY LedgerInit, ProvenanceInit, GoneInit
  <1>2. TypeOK /\ TypeOK' /\ IInv /\ Ledger /\ Provenance /\ GoneTogether /\ [Next]_vars
            => Ledger' /\ Provenance' /\ GoneTogether'
    BY LedgerStep, ProvenanceStep, GoneStep
  <1>. QED
    BY <1>1, <1>2, TypeCorrect, Inductive, PTL DEF Spec

\* While a bucket has aggregates, each folded sample of it was merged into a
\* stored one.
LEMMA FoldedIsStored ==
    ASSUME TypeOK, Ledger, Provenance, GoneTogether, NEW s, NEW t,
           Stored(Resolution5m, s, t) # {},
           NEW k \in KeysIn(folded, s, t, FiveMinutes)
    PROVE  \E o \in origins :
               /\ o.agg \in Stored(Resolution5m, s, t) /\ k \in o.keys
               /\ o.agg.series = s /\ RoundTo(o.agg.ts, FiveMinutes) = t
  <1>1. k \in folded /\ k.series = s /\ RoundTo(k.ts, FiveMinutes) = t
    BY DEF KeysIn
  <1>2. PICK o \in origins : k \in o.keys
    BY <1>1 DEF Provenance
  <1>3. o.agg \in made /\ Traced(o.agg, o.keys)
    BY DEF Provenance
  <1>4. o.agg.series = s /\ o.agg.ts = t
    BY <1>1, <1>2, <1>3, TracedCount
  <1>5. o.agg \in db
    BY <1>3, <1>4 DEF GoneTogether
  <1>6. o.agg.res = Resolution5m
    BY <1>3 DEF TypeOK
  <1>7. RoundTo(t, FiveMinutes) = t
    <2>1. FiveMinutes \in Nat \ {0} /\ SampleTimes \subseteq Int
      BY CompactionConstants
    <2>2. k \in accepted
      BY <1>1 DEF Ledger
    <2>3. k.ts \in SampleTimes
      BY <2>2 DEF TypeOK
    <2>4. k.ts \in Int
      BY <2>1, <2>3, Zenon
    <2>. QED
      BY <1>1, <2>1, <2>4, RoundToTwice
  <1>. QED
    BY <1>2, <1>4, <1>5, <1>6, <1>7 DEF Stored

\* In a bucket that is told apart it is one of those counted for that aggregate.
LEMMA SharesCover ==
    ASSUME TypeOK, Ledger, Provenance, GoneTogether, NEW s, NEW t,
           Stored(Resolution5m, s, t) # {}, ToldApart(s, t, FiveMinutes)
    PROVE  /\ \A a \in Stored(Resolution5m, s, t) : a \in made /\ Traced(a, Share(a))
           /\ \A k \in KeysIn(folded, s, t, FiveMinutes) :
                  \E a \in Stored(Resolution5m, s, t) : k \in Share(a)
  <1>1. Stored(Resolution5m, s, t) \subseteq made
    BY DEF Ledger, Stored, FiveMinOnly
  <1>2. ASSUME NEW k \in KeysIn(folded, s, t, FiveMinutes)
        PROVE  \E a \in Stored(Resolution5m, s, t) : k \in Share(a)
    <2>1. PICK o \in origins :
              /\ o.agg \in Stored(Resolution5m, s, t) /\ k \in o.keys
              /\ o.agg.series = s /\ RoundTo(o.agg.ts, FiveMinutes) = t
      BY FoldedIsStored
    <2>2. OriginOf(o.agg) \in origins /\ OriginOf(o.agg).agg = o.agg
      BY <1>1, <2>1, ShareOf
    <2>3. o.keys = Share(o.agg)
      BY <2>1, <2>2 DEF ToldApart, Share
    <2>. QED
      BY <2>1, <2>3
  <1>. QED
    BY <1>1, <1>2, ShareOf

\* The count of some aggregates, from what each of them counts.
LEMMA CountOfShares ==
    ASSUME NEW S, NEW K, IsFiniteSet(S), \A a \in S : Traced(a, K[a]),
           NEW U, \A k : k \in U <=> \E a \in S : k \in K[a]
    PROVE  /\ IsFiniteSet(U) /\ CountIn(S) \in Nat /\ Cardinality(U) <= CountIn(S)
           /\ (\A a, b \in S : a # b => K[a] \cap K[b] = {}) => CountIn(S) = Cardinality(U)
  <1>. DEFINE count == [a \in S |-> a.stats.count]
  <1>1. \A a \in S : IsFiniteSet(K[a]) /\ count[a] = Cardinality(K[a])
    BY TracedCount
  <1>2. CountIn(S) = SumFunctionOnSet(count, S)
    BY DEF CountIn, SumFunction
  <1>. HIDE DEF count
  <1>3. /\ IsFiniteSet(U)
        /\ Cardinality(U) <= SumFunctionOnSet(count, S)
        /\ (\A a, b \in S : a # b => K[a] \cap K[b] = {})
                => Cardinality(U) = SumFunctionOnSet(count, S)
    BY <1>1, UnionCount
  <1>4. SumFunctionOnSet(count, S) \in Nat
    BY <1>1, FS_CardinalityType, SumType
  <1>. QED
    BY <1>2, <1>3, <1>4

\* Compact5m's partial aggregates of a bucket, as long as step 4 has not deleted
\* them: each folded sample was merged into one that is there, and together they
\* count every one unless two different sets of samples of the bucket had equal
\* statistics.  For any values, number of compactors, failures and retries.
THEOREM FoldedAreCounted == Timely => (Spec => []OnlyEqualsMerge)
  <1>. SUFFICES ASSUME Timely PROVE Spec => []OnlyEqualsMerge
    OBVIOUS
  <1>1. TypeOK /\ Ledger /\ Provenance /\ GoneTogether => OnlyEqualsMerge
    <2>. SUFFICES ASSUME TypeOK, Ledger, Provenance, GoneTogether, NEW s, NEW t,
                         Stored(Resolution5m, s, t) # {}
                  PROVE  /\ \A k \in KeysIn(folded, s, t, FiveMinutes) : \E o \in origins :
                                o.agg \in Stored(Resolution5m, s, t) /\ k \in o.keys
                         /\ ToldApart(s, t, FiveMinutes) =>
                                CountIn(Stored(Resolution5m, s, t))
                                    >= Cardinality(KeysIn(folded, s, t, FiveMinutes))
      BY DEF OnlyEqualsMerge
    <2>. DEFINE S == Stored(Resolution5m, s, t)
                K == [a \in S |-> Share(a)]
                all == UNION {K[a] : a \in S}
                keys == KeysIn(folded, s, t, FiveMinutes)
    <2>0. \A k \in keys : \E o \in origins : o.agg \in S /\ k \in o.keys
      BY FoldedIsStored
    <2>1. IsFiniteSet(S)
      BY FS_Subset DEF Ledger, Stored
    <2>2. ASSUME ToldApart(s, t, FiveMinutes)
          PROVE  CountIn(S) >= Cardinality(keys)
      <3>1. /\ \A a \in S : Traced(a, K[a])
            /\ keys \subseteq all
        BY <2>2, SharesCover
      <3>2. IsFiniteSet(keys)
        BY FS_Subset DEF Ledger, KeysIn
      <3>. HIDE DEF S, K, keys
      <3>3. IsFiniteSet(all) /\ CountIn(S) \in Nat /\ Cardinality(all) <= CountIn(S)
        BY <2>1, <3>1, CountOfShares
      <3>4. /\ Cardinality(keys) <= Cardinality(all)
            /\ Cardinality(keys) \in Nat /\ Cardinality(all) \in Nat
        BY <3>1, <3>2, <3>3, FS_Subset, FS_CardinalityType
      <3>. QED
        BY <3>3, <3>4
    <2>. QED
      BY <2>0, <2>2
  <1>. QED
    BY <1>1, CountsInductive, PTL

-----------------------------------------------------------------------------
(***************************************************************************)
(* One compactor whose windows do not end on a sample.                     *)
(***************************************************************************)
\* Runs of the process do not overlap.
OneAtATime == \A c, d \in Compactors : c = d

\* What step 1 reads, up to its end, step 2 deletes, before that end.
CleanCuts ==
    /\ RawDataRetention <= Compact5mDelay
    /\ \A r \in RunTimes : r - Compact5mDelay \notin SampleTimes

\* Nothing has run yet.
LEMMA InOrderInit == Init => InOrder
  BY DEF Init, InOrder

\* A run starts after the run before it has ended.
LEMMA InOrderStep ==
    OneAtATime /\ TypeOK /\ ClocksOK /\ InOrder /\ [Next]_vars => InOrder'
  <1>. SUFFICES ASSUME OneAtATime, TypeOK, ClocksOK, InOrder, [Next]_vars PROVE InOrder'
    OBVIOUS
  <1>0. /\ last5m \in Nat /\ last1h \in Nat /\ clock \in Nat
        /\ last5m <= clock /\ last1h <= clock
        /\ \A c \in Compactors : now[c] \in Nat
        /\ pc \in [Compactors -> Steps] /\ now \in [Compactors -> Nat]
    BY DEF TypeOK, ClocksOK
  <1>1. CASE UNCHANGED <<pc, now, last5m, last1h>>
    BY <1>1 DEF InOrder
  <1>2. ASSUME NEW c \in Compactors, Start(c) PROVE InOrder'
    BY <1>0, <1>2 DEF OneAtATime, InOrder, Start, Goto
  <1>3. ASSUME NEW c \in Compactors, Query5m(c) \/ DeleteRaw(c) \/ Query1h(c) PROVE InOrder'
    BY <1>0, <1>3 DEF OneAtATime, InOrder, Query5m, DeleteRaw, Query1h, Goto
  <1>4. ASSUME NEW c \in Compactors, Delete5m(c) \/ Fail(c) PROVE InOrder'
    BY <1>0, <1>4 DEF OneAtATime, InOrder, Delete5m, Fail, Goto
  <1>5. ASSUME NEW c \in Compactors, Write5m(c) PROVE InOrder'
    <2>1. /\ pc[c] = "write5m" /\ pc' = [pc EXCEPT ![c] = "deleteRaw"]
          /\ last5m' = Later(last5m, now[c]) /\ UNCHANGED <<now, last1h>>
      BY <1>5 DEF Write5m, Goto
    <2>2. last5m <= now[c] /\ last1h <= now[c] /\ now[c] \in RunTimes /\ last1h <= last5m
      BY <2>1 DEF InOrder
    <2>3. last5m' = now[c]
      BY <1>0, <2>1, <2>2 DEF Later
    <2>. QED
      BY <1>0, <2>1, <2>2, <2>3 DEF OneAtATime, InOrder
  <1>6. ASSUME NEW c \in Compactors, Write1h(c) PROVE InOrder'
    <2>1. /\ pc[c] = "write1h" /\ pc' = [pc EXCEPT ![c] = "delete5m"]
          /\ last1h' = Later(last1h, now[c]) /\ UNCHANGED <<now, last5m>>
      BY <1>6 DEF Write1h, Goto
    <2>2. /\ last5m <= now[c] /\ last1h <= now[c] /\ now[c] \in RunTimes
          /\ now[c] <= last5m
      BY <2>1 DEF InOrder
    <2>3. last1h' = now[c]
      BY <1>0, <2>1, <2>2 DEF Later
    <2>. QED
      BY <1>0, <2>1, <2>2, <2>3 DEF OneAtATime, InOrder
  <1>7. ASSUME NEW s \in Series, NEW t \in SampleTimes, NEW v \in ValuesAt[t],
               Ingest(s, t, v)
        PROVE  InOrder'
    BY <1>1, <1>7 DEF Ingest
  <1>8. CASE Tick
    BY <1>1, <1>8 DEF Tick
  <1>9. CASE UNCHANGED vars
    BY <1>1, <1>9 DEF vars
  <1>. QED
    BY <1>2, <1>3, <1>4, <1>5, <1>6, <1>7, <1>8, <1>9 DEF Next, Run

\* Nothing is folded yet.
LEMMA FoldedInit == Init => FoldedOnce
  BY DEF Init, FoldedOnce, RawOnly

\* The raw delete takes everything its run folded, and ingestion adds only samples
\* that come after it.
LEMMA FoldedStep ==
    Timely /\ OneAtATime /\ CleanCuts /\ TypeOK /\ ClocksOK /\ Ledger /\ InOrder
        /\ FoldedOnce /\ [Next]_vars => FoldedOnce'
  <1>. SUFFICES ASSUME Timely, OneAtATime, CleanCuts,
                       TypeOK, ClocksOK, Ledger, InOrder, FoldedOnce, [Next]_vars
                PROVE  FoldedOnce'
    OBVIOUS
  <1>0. /\ last5m \in Nat /\ clock \in Nat /\ last5m <= clock /\ failures \in Nat
        /\ pc \in [Compactors -> Steps]
        /\ \A k \in folded : k.ts \in Nat
        /\ \A e \in RawOnly(db) : e.ts \in SampleTimes /\ e.ts \in Nat
        /\ \A c \in Compactors : now[c] \in Nat
        /\ Compact5mDelay \in Nat /\ RawDataRetention \in Nat /\ MaxLateness \in Nat
    <2>1. \A k \in folded : k.ts \in Nat
      BY CompactionConstants DEF TypeOK, Ledger
    <2>2. \A e \in RawOnly(db) : e.ts \in SampleTimes /\ e.ts \in Nat
      BY SampleShape DEF Ledger
    <2>. QED
      BY <2>1, <2>2, CompactionConstants DEF TypeOK, ClocksOK
  <1>1. ASSUME UNCHANGED <<folded, last5m, now>>, failures' >= failures, failures' \in Nat,
               RawOnly(db') = RawOnly(db),
               \A c \in Compactors : pc'[c] = "write5m" => pc[c] = "write5m" /\ read'[c] = read[c],
               failures' = 0 => \A c \in Compactors : pc[c] = "deleteRaw" => pc'[c] = "deleteRaw"
        PROVE  FoldedOnce'
    BY <1>0, <1>1 DEF FoldedOnce, Keys
  <1>2. ASSUME NEW s \in Series, NEW t \in SampleTimes, NEW v \in ValuesAt[t],
               Ingest(s, t, v)
        PROVE  FoldedOnce'
    <2>. DEFINE k == [series |-> s, ts |-> t]
                new == RawEntry(s, t, v)
    <2>1. /\ KeyOf(new) = k
          /\ RawOnly(db') = {e \in RawOnly(db) : KeyOf(e) # k} \cup {new}
      BY <1>2, IngestTiers
    <2>2. UNCHANGED <<pc, now, read, folded, last5m, failures>>
      BY <1>2 DEF Ingest
    <2>3. k \notin folded
      <3>1. t \in Nat /\ clock <= t + MaxLateness
        BY <1>2, CompactionConstants DEF Ingest
      <3>2. ~ (t < last5m - Compact5mDelay)
        BY <1>0, <3>1 DEF Timely
      <3>. QED
        BY <3>2 DEF FoldedOnce
    <2>. HIDE DEF k, new
    <2>. QED
      BY <2>1, <2>2, <2>3 DEF FoldedOnce, Keys
  <1>3. ASSUME NEW c \in Compactors, Start(c) PROVE FoldedOnce'
    BY <1>0, <1>3 DEF FoldedOnce, OneAtATime, Start, Goto, ghosts, Keys
  <1>4. ASSUME NEW c \in Compactors, Query5m(c) PROVE FoldedOnce'
    <2>1. /\ pc[c] = "query5m"
          /\ UNCHANGED <<db, now, last5m, failures, folded>>
          /\ read'[c] = RawOnly(Window5m(c))
      BY <1>4 DEF Query5m, ghosts, TypeOK
    <2>2. RawOnly(Window5m(c)) \subseteq RawOnly(db)
      BY DEF RawOnly, Window5m, InRange
    <2>3. ASSUME NEW e \in RawOnly(Window5m(c)) PROVE e.ts < now[c] - Compact5mDelay
      <3>1. e.ts <= now[c] - Compact5mDelay
        BY DEF RawOnly, Window5m, InRange
      <3>2. e.ts \in SampleTimes /\ e.ts \in Nat
        BY <1>0, <2>2
      <3>3. now[c] - Compact5mDelay \notin SampleTimes
        BY <2>1 DEF InOrder, CleanCuts
      <3>. QED
        BY <1>0, <3>1, <3>2, <3>3
    <2>4. failures = 0 => Keys(RawOnly(Window5m(c))) \cap folded = {}
      <3>1. \A d \in Compactors : pc[d] # "deleteRaw"
        BY <2>1 DEF OneAtATime
      <3>. QED
        BY <2>2, <3>1 DEF FoldedOnce, Keys
    <2>5. failures = 0 => ~ \E e \in RawOnly(db) : KeyOf(e) \in folded
      BY <2>1 DEF OneAtATime, FoldedOnce
    <2>6. \A d \in Compactors : d = c
      BY DEF OneAtATime
    <2>. QED
      BY <2>1, <2>3, <2>4, <2>5, <2>6 DEF FoldedOnce, Keys
  <1>5. ASSUME NEW c \in Compactors, Write5m(c) PROVE FoldedOnce'
    <2>1. /\ pc[c] = "write5m" /\ pc'[c] = "deleteRaw"
          /\ last5m' = Later(last5m, now[c])
          /\ folded' = folded \cup Keys(read[c])
      BY <1>0, <1>5 DEF Write5m, Goto, Keys
    <2>2. last5m <= now[c] /\ last5m' = now[c]
      BY <1>0, <2>1 DEF InOrder, Later
    <2>3. \A k \in folded : k.ts < now[c] - Compact5mDelay
      BY <1>0, <2>2 DEF FoldedOnce
    <2>4. \A k \in Keys(read[c]) : k.ts < now[c] - Compact5mDelay
      BY <2>1 DEF FoldedOnce, Keys, KeyOf
    <2>5. \A d \in Compactors : d = c
      BY DEF OneAtATime
    <2>. QED
      BY <2>1, <2>2, <2>3, <2>4, <2>5 DEF FoldedOnce
  <1>6. ASSUME NEW c \in Compactors, DeleteRaw(c) PROVE FoldedOnce'
    <2>1. /\ pc[c] = "deleteRaw" /\ pc'[c] = "query1h"
          /\ UNCHANGED <<last5m, folded, now, read, failures>>
      BY <1>0, <1>6 DEF DeleteRaw, Goto, ghosts
    <2>2. RawOnly(db') = {e \in RawOnly(db) : ~ (e.ts < RawCutoff(c))}
      BY <1>6, DeleteTiers
    <2>3. last5m <= RawCutoff(c) + Compact5mDelay
      BY <1>0, <2>1 DEF InOrder, RawCutoff, CleanCuts
    <2>4. ASSUME NEW e \in RawOnly(db'), KeyOf(e) \in folded PROVE FALSE
      <3>1. e.ts < last5m - Compact5mDelay
        BY <2>4 DEF FoldedOnce, KeyOf
      <3>2. e.ts \in Nat /\ ~ (e.ts < RawCutoff(c))
        BY <1>0, <2>2
      <3>3. RawCutoff(c) \in Int
        BY <1>0 DEF RawCutoff
      <3>. QED
        BY <1>0, <2>3, <3>1, <3>2, <3>3
    <2>5. \A d \in Compactors : d = c
      BY DEF OneAtATime
    <2>. QED
      BY <2>1, <2>4, <2>5 DEF FoldedOnce, Keys
  <1>7. ASSUME NEW c \in Compactors, Query1h(c) PROVE FoldedOnce'
    BY <1>0, <1>1, <1>7 DEF Query1h, Goto, ghosts, TypeOK
  <1>8. ASSUME NEW c \in Compactors, Write1h(c) PROVE FoldedOnce'
    <2>1. RawOnly(db') = RawOnly(db)
      BY <1>8, Write1hTiers
    <2>. QED
      BY <1>0, <1>1, <1>8, <2>1 DEF Write1h, Goto, TypeOK
  <1>9. ASSUME NEW c \in Compactors, Delete5m(c) PROVE FoldedOnce'
    <2>1. RawOnly(db') = RawOnly(db)
      BY <1>9, DeleteTiers
    <2>. QED
      BY <1>0, <1>1, <1>9, <2>1 DEF Delete5m, Goto, ghosts, TypeOK
  <1>10. ASSUME NEW c \in Compactors, Fail(c) PROVE FoldedOnce'
    BY <1>0, <1>1, <1>10 DEF Fail, Goto, ghosts, TypeOK
  <1>11. CASE Tick
    BY <1>0, <1>1, <1>11 DEF Tick, ghosts
  <1>12. CASE UNCHANGED vars
    BY <1>0, <1>1, <1>12 DEF vars, ghosts
  <1>. QED
    BY <1>2, <1>3, <1>4, <1>5, <1>6, <1>7, <1>8, <1>9, <1>10, <1>11, <1>12
    DEF Next, Run

\* There is no aggregate yet.
LEMMA PartitionInit == Init => Partition
  BY DEF Init, Partition

\* One run's aggregates do not share samples, and share none with earlier ones.
LEMMA PartitionStep ==
    TypeOK /\ Ledger /\ Provenance /\ FoldedOnce /\ Partition /\ [Next]_vars => Partition'
  <1>. SUFFICES ASSUME TypeOK, Ledger, Provenance, FoldedOnce, Partition, [Next]_vars,
                       failures' = 0
                PROVE  \A o, p \in origins' : o # p => o.keys \cap p.keys = {}
    BY DEF Partition
  <1>1. failures = 0 /\ ((\E c \in Compactors : Write5m(c)) \/ UNCHANGED origins)
    <2>1. ASSUME NEW c \in Compactors, Fail(c) PROVE FALSE
      BY <2>1 DEF Fail, TypeOK
    <2>. QED
      BY <2>1 DEF Next, Run, vars, ghosts, Ingest, Start, Query5m, Write5m, DeleteRaw,
                  Query1h, Write1h, Delete5m, Fail, Tick
  <1>2. \A o, p \in origins : o # p => o.keys \cap p.keys = {}
    BY <1>1 DEF Partition
  <1>3. CASE UNCHANGED origins
    BY <1>2, <1>3
  <1>4. ASSUME NEW c \in Compactors, Write5m(c)
        PROVE  \A o, p \in origins' : o # p => o.keys \cap p.keys = {}
    <2>. DEFINE aggs == Aggregates(read[c], Resolution5m, FiveMinutes)
                BucketOf(a) == InBucket(read[c], a.series, a.ts, FiveMinutes)
                KeysOf(a) == Keys(BucketOf(a))
    <2>1. AreSamples(read[c]) /\ IsFiniteSet(read[c]) /\ OnePerKey(read[c])
      BY <1>4 DEF Ledger, Write5m
    <2>2. \A a \in aggs : Traced(a, KeysOf(a))
      BY <2>1, WrittenTraced
    <2>3. \A a : KeysOf(a) \subseteq Keys(read[c])
      BY DEF InBucket, Keys
    <2>4. Keys(read[c]) \cap folded = {}
      BY <1>1, <1>4 DEF FoldedOnce, Write5m
    <2>5. origins' = origins \cup {Origin(a, read[c]) : a \in aggs}
      BY <1>4 DEF Write5m
    <2>a. \A a : Origin(a, read[c]).keys = KeysOf(a)
      BY DEF Origin, Keys
    <2>6. ASSUME NEW a \in aggs, NEW b \in aggs, KeysOf(a) \cap KeysOf(b) # {}
          PROVE  a = b
      <3>1. a.series = b.series /\ a.ts = b.ts
        <4>1. PICK k : k \in KeysOf(a) /\ k \in KeysOf(b)
          BY <2>6
        <4>2. /\ k.series = a.series /\ RoundTo(k.ts, FiveMinutes) = a.ts
              /\ k.series = b.series /\ RoundTo(k.ts, FiveMinutes) = b.ts
          BY <2>2, <4>1, TracedCount
        <4>. QED
          BY <4>2
      <3>2. ASSUME NEW x \in aggs
            PROVE  x = Entry(x.series, x.ts, Resolution5m, Merge(BucketOf(x)))
        <4>1. PICK e \in read[c] :
                  x = Entry(e.series, RoundTo(e.ts, FiveMinutes), Resolution5m,
                            Merge(InBucket(read[c], e.series, RoundTo(e.ts, FiveMinutes),
                                           FiveMinutes)))
          BY AggregatesAre
        <4>2. x.series = e.series /\ x.ts = RoundTo(e.ts, FiveMinutes)
          BY <4>1 DEF Entry
        <4>. QED
          BY <4>1, <4>2
      <3>3. BucketOf(a) = BucketOf(b)
        BY <3>1
      <3>. HIDE DEF aggs, BucketOf
      <3>. QED
        BY <3>1, <3>2, <3>3
    <2>. HIDE DEF aggs, KeysOf
    <2>7. \A o \in origins : o.keys \cap Keys(read[c]) = {}
      BY <2>4 DEF Provenance
    <2>8. ASSUME NEW o \in origins, NEW a \in aggs
          PROVE  o.keys \cap Origin(a, read[c]).keys = {}
      BY <2>3, <2>7, <2>a
    <2>9. ASSUME NEW a \in aggs, NEW b \in aggs, Origin(a, read[c]) # Origin(b, read[c])
          PROVE  Origin(a, read[c]).keys \cap Origin(b, read[c]).keys = {}
      BY <2>6, <2>9, <2>a
    <2>. QED
      BY <1>2, <2>5, <2>8, <2>9
  <1>. QED
    BY <1>1, <1>3, <1>4

\* All of this holds together.
LEMMA OneCompactor ==
    Timely /\ OneAtATime /\ CleanCuts
        => (Spec => [](TypeOK /\ IInv /\ Ledger /\ Provenance /\ InOrder /\ FoldedOnce
                           /\ Partition))
  <1>. SUFFICES ASSUME Timely, OneAtATime, CleanCuts
                PROVE  Spec => [](TypeOK /\ IInv /\ Ledger /\ Provenance /\ InOrder /\ FoldedOnce
                                      /\ Partition)
    OBVIOUS
  <1>1. Init => Ledger /\ Provenance /\ InOrder /\ FoldedOnce /\ Partition
    BY LedgerInit, ProvenanceInit, InOrderInit, FoldedInit, PartitionInit
  <1>2. TypeOK /\ IInv /\ Ledger /\ Provenance /\ InOrder /\ FoldedOnce /\ Partition
                /\ [Next]_vars
            => Ledger' /\ Provenance' /\ InOrder' /\ FoldedOnce' /\ Partition'
    BY LedgerStep, ProvenanceStep, InOrderStep, FoldedStep, PartitionStep DEF IInv
  <1>. QED
    BY <1>1, <1>2, TypeCorrect, Inductive, PTL DEF Spec

\* Aggregates that no two runs share count different samples.
LEMMA SharesApart ==
    ASSUME Provenance, Partition, failures = 0, NEW a \in made, NEW b \in made, a # b
    PROVE  Share(a) \cap Share(b) = {}
  <1>1. /\ OriginOf(a) \in origins /\ OriginOf(a).agg = a
        /\ OriginOf(b) \in origins /\ OriginOf(b).agg = b
    BY ShareOf
  <1>2. OriginOf(a) # OriginOf(b)
    BY <1>1
  <1>. QED
    BY <1>1, <1>2 DEF Partition, Share

\* With one compactor, windows that do not end on a sample and no failed run,
\* the partial aggregates Compact5m stores for a bucket together count no
\* sample twice.
THEOREM CountedAtMostOnce ==
    Timely /\ OneAtATime /\ CleanCuts => (Spec => []NoDoubleCount)
  <1>. SUFFICES ASSUME Timely, OneAtATime, CleanCuts PROVE Spec => []NoDoubleCount
    OBVIOUS
  <1>1. Ledger /\ Provenance /\ Partition => NoDoubleCount
    <2>. SUFFICES ASSUME Ledger, Provenance, Partition, failures = 0, NEW s, NEW t
                  PROVE  CountIn(Stored(Resolution5m, s, t))
                             <= Cardinality(KeysIn(accepted, s, t, FiveMinutes))
      BY DEF NoDoubleCount, CountedOnce
    <2>. DEFINE S == Stored(Resolution5m, s, t)
                keys == KeysIn(accepted, s, t, FiveMinutes)
                chosen == [a \in S |-> Share(a)]
    <2>1. S \subseteq made
      BY DEF Ledger, Stored, FiveMinOnly
    <2>a. PICK shares : shares = chosen
      OBVIOUS
    <2>2. IsFiniteSet(S) /\ IsFiniteSet(keys)
      BY FS_Subset DEF Ledger, Stored, KeysIn
    <2>3. /\ \A a \in S : /\ Traced(a, shares[a]) /\ shares[a] \subseteq accepted
                          /\ a.series = s /\ a.ts = t
          /\ \A a, b \in S : a # b => shares[a] \cap shares[b] = {}
      <3>1. \A a \in S : shares[a] = Share(a)
        BY <2>a
      <3>2. \A a \in S : a \in made /\ a.series = s /\ a.ts = t
        BY <2>1 DEF Stored
      <3>3. folded \subseteq accepted
        BY DEF Ledger
      <3>. HIDE DEF S, chosen
      <3>4. \A a \in S : Traced(a, Share(a)) /\ Share(a) \subseteq folded
        BY <3>2, ShareOf
      <3>5. \A a, b \in S : a # b => Share(a) \cap Share(b) = {}
        BY <3>2, SharesApart
      <3>. QED
        BY <3>1, <3>2, <3>3, <3>4, <3>5
    <2>. HIDE DEF chosen
    <2>4. PICK U : U = UNION {shares[a] : a \in S}
      OBVIOUS
    <2>5. \A k : k \in U <=> \E a \in S : k \in shares[a]
      BY <2>4
    <2>6. \A a \in S : \A k \in shares[a] : k \in keys
      <3>. SUFFICES ASSUME NEW a \in S, NEW k \in shares[a] PROVE k \in keys
        OBVIOUS
      <3>1. k.series = s /\ RoundTo(k.ts, FiveMinutes) = t /\ k \in accepted
        BY <2>3, TracedCount
      <3>. QED
        BY <3>1 DEF KeysIn
    <2>. HIDE DEF S, keys
    <2>7. IsFiniteSet(U) /\ CountIn(S) = Cardinality(U)
      BY <2>2, <2>3, <2>5, CountOfShares
    <2>8. Cardinality(U) <= Cardinality(keys)
      BY <2>2, <2>5, <2>6, FS_Subset
    <2>9. CountIn(S) <= Cardinality(keys)
      BY <2>7, <2>8
    <2>. QED
      BY <2>9 DEF S, keys
  <1>. QED
    BY <1>1, OneCompactor, PTL

-----------------------------------------------------------------------------
(***************************************************************************)
(* Whole hours.                                                            *)
(***************************************************************************)
\* The hour is made of whole 5m buckets and FromMetric merges no two series; a
\* 1h window reaches back to every hour that the one before it did not finish,
\* and no aggregate in it has been deleted.
WholeHours ==
    /\ \E m \in Nat \ {0} : OneHour = FiveMinutes * m
    /\ \A s, u \in Series : UserSeries[s] = UserSeries[u] => s = u
    /\ MaxGap + Compact1hDelay + OneHour <= Compact1hLookback
    /\ Compact1hLookback <= FiveMinRetention

\* A sample and its 5m bucket lie in one hour.
LEMMA HourOfBucket ==
    ASSUME WholeHours, NEW t \in Int
    PROVE  Hour(RoundTo(t, FiveMinutes)) = Hour(t)
  <1>1. PICK m \in Nat \ {0} : OneHour = FiveMinutes * m
    BY DEF WholeHours
  <1>2. FiveMinutes \in Nat \ {0}
    BY CompactionConstants
  <1>. QED
    BY <1>1, <1>2, RoundToNests DEF Hour

\* Merge counts what the entries it merges count, under whatever names.
LEMMA MergeOfImage ==
    ASSUME NEW R, IsFiniteSet(R), NEW B, NEW from \in Bijection(R, B),
           \A x \in R : from[x].stats = x.stats /\ x.stats.count \in Nat
    PROVE  Merge(B).count = CountIn(R)
  <1>. DEFINE f == [e \in R |-> e.stats.count]
              g == [e \in B |-> e.stats.count]
  <1>1. \A x \in R : g[from[x]] \in Int /\ f[x] = g[from[x]]
    BY DEF Bijection, Injection
  <1>2. Merge(B).count = SumFunctionOnSet(g, B)
    BY DEF Merge, SumFunction
  <1>3. CountIn(R) = SumFunctionOnSet(f, R)
    BY DEF CountIn, SumFunction
  <1>. HIDE DEF f, g
  <1>4. SumFunctionOnSet(g, B) = SumFunctionOnSet(f, R)
    BY <1>1, SumImage
  <1>. QED
    BY <1>2, <1>3, <1>4

\* The 1h aggregate of an hour counts what the 5m aggregates read from it count.
LEMMA HourMerge ==
    ASSUME WholeHours, NEW entries, IsFiniteSet(entries),
           \A e \in entries : EntryOK(e) /\ e.stats.count \in Nat,
           NEW a \in entries,
           NEW R, \A e : e \in R <=>
               e \in entries /\ e.series = a.series /\ Hour(e.ts) = Hour(a.ts),
           NEW parsed, \A x : x \in parsed <=> \E e \in entries : x = FromMetric(e)
    PROVE  \E h \in Aggregates(parsed, Resolution1h, OneHour) :
              /\ h.series = UserSeries[a.series] /\ h.ts = Hour(a.ts)
              /\ h.res = Resolution1h
              /\ h.stats.count = CountIn(R)
  <1>. DEFINE us == UserSeries[a.series]
              B == InBucket(parsed, us, Hour(a.ts), OneHour)
              from == [e \in R |-> FromMetric(e)]
              h == Entry(us, Hour(a.ts), Resolution1h, Merge(B))
  <1>1. \A e \in entries : /\ FromMetric(e).series = UserSeries[e.series]
                           /\ FromMetric(e).ts = e.ts
                           /\ FromMetric(e).stats = e.stats
    BY DEF FromMetric, EntryOK, Entry
  <1>2. ASSUME NEW e \in entries, NEW d \in entries, FromMetric(e) = FromMetric(d)
        PROVE  e = d
    <2>1. e.series = d.series
      <3>1. UserSeries[e.series] = UserSeries[d.series]
        BY <1>1, <1>2
      <3>. QED
        BY <3>1 DEF WholeHours, EntryOK
    <2>2. e.ts = d.ts /\ e.stats = d.stats
      BY <1>1, <1>2
    <2>3. e.res = d.res
      <3>1. FromMetric(e).res = e.res /\ FromMetric(d).res = d.res
        BY DEF FromMetric, EntryOK, Entry
      <3>. QED
        BY <1>2, <3>1
    <2>. QED
      BY <2>1, <2>2, <2>3 DEF EntryOK
  <1>3. R \subseteq entries /\ IsFiniteSet(R)
    BY FS_Subset
  <1>4. B = {from[e] : e \in R}
    <2>1. ASSUME NEW x \in B PROVE x \in {from[e] : e \in R}
      <3>1. PICK e \in entries : x = FromMetric(e)
        BY DEF InBucket
      <3>2. x.series = us /\ RoundTo(x.ts, OneHour) = Hour(a.ts)
        BY DEF InBucket
      <3>3. e \in R
        BY <1>1, <3>1, <3>2 DEF WholeHours, EntryOK, Hour
      <3>. QED
        BY <3>1, <3>3
    <2>2. ASSUME NEW e \in R PROVE FromMetric(e) \in B
      BY <1>1, <1>3, <2>2 DEF InBucket, Hour
    <2>. QED
      BY <2>1, <2>2
  <1>5. \A x \in R : from[x].stats = x.stats /\ x.stats.count \in Nat
    BY <1>1, <1>3
  <1>6. \A x, y \in R : from[x] = from[y] => x = y
    BY <1>2, <1>3
  <1>9. h \in Aggregates(parsed, Resolution1h, OneHour)
    <2>1. FromMetric(a) \in parsed
      OBVIOUS
    <2>2. FromMetric(a).series = us /\ RoundTo(FromMetric(a).ts, OneHour) = Hour(a.ts)
      BY <1>1 DEF Hour
    <2>. HIDE DEF us
    <2>. QED
      BY <2>1, <2>2, AggregatesAre
  <1>10. h.series = us /\ h.ts = Hour(a.ts) /\ h.res = Resolution1h /\ h.stats = Merge(B)
    BY DEF Entry
  <1>11. from \in Bijection(R, B)
    <2>. HIDE DEF B
    <2>. QED
      BY <1>4, <1>6 DEF Bijection, Injection, Surjection, IsInjective
  <1>. HIDE DEF from
  <1>12. Merge(B).count = CountIn(R)
    <2>. HIDE DEF B
    <2>. QED
      BY <1>3, <1>5, <1>11, MergeOfImage
  <1>. HIDE DEF B, h
  <1>. QED
    BY <1>9, <1>10, <1>12

\* All 5m aggregates of an hour together count its samples, once all are folded.
LEMMA HourShares ==
    ASSUME WholeHours, TypeOK, Ledger, Provenance, Partition, failures = 0,
           NEW s, NEW hour, ToldApart(s, hour, OneHour),
           NEW R, IsFiniteSet(R), R = {a \in made : a.series = s /\ Hour(a.ts) = hour},
           KeysIn(accepted, s, hour, OneHour) \subseteq folded
    PROVE  CountIn(R) = Cardinality(KeysIn(accepted, s, hour, OneHour))
  <1>. DEFINE U == KeysIn(accepted, s, hour, OneHour)
              chosen == [a \in R |-> Share(a)]
  <1>0. PICK shares : shares = chosen
    OBVIOUS
  <1>1. \A a \in R : /\ shares[a] = Share(a) /\ a \in made
                     /\ Traced(a, shares[a]) /\ shares[a] \subseteq folded
    <2>1. \A a \in R : a \in made /\ shares[a] = Share(a)
      BY <1>0
    <2>. HIDE DEF chosen
    <2>. QED
      BY <2>1, ShareOf
  <1>. HIDE DEF chosen
  <1>2. \A a, b \in R : a # b => shares[a] \cap shares[b] = {}
    BY <1>1, SharesApart
  <1>3. \A k \in folded : k \in accepted /\ k.ts \in Int
    <2>1. \A k \in folded : k \in accepted
      BY DEF Ledger
    <2>2. \A k \in accepted : k.ts \in Nat
      BY CompactionConstants DEF TypeOK
    <2>. QED
      BY <2>1, <2>2
  <1>4. ASSUME NEW a \in R, NEW k \in shares[a] PROVE k \in U
    <2>1. k.series = a.series /\ RoundTo(k.ts, FiveMinutes) = a.ts /\ k \in folded
      BY <1>1, TracedCount
    <2>2. Hour(k.ts) = Hour(a.ts)
      BY <1>3, <2>1, HourOfBucket
    <2>. QED
      BY <1>3, <2>1, <2>2 DEF KeysIn, Hour
  <1>5. ASSUME NEW k \in U PROVE \E a \in R : k \in shares[a]
    <2>1. k \in folded /\ k.series = s /\ Hour(k.ts) = hour
      BY DEF KeysIn, Hour
    <2>2. PICK o \in origins : k \in o.keys
      BY <2>1 DEF Provenance
    <2>3. o.agg \in made /\ Traced(o.agg, o.keys)
      BY DEF Provenance
    <2>4. o.agg.series = s /\ o.agg.ts = RoundTo(k.ts, FiveMinutes)
      BY <2>1, <2>2, <2>3, TracedCount
    <2>5. Hour(o.agg.ts) = hour
      BY <1>3, <2>1, <2>4, HourOfBucket
    <2>6. o.agg \in R
      BY <2>3, <2>4, <2>5
    <2>7. OriginOf(o.agg) \in origins /\ OriginOf(o.agg).agg = o.agg
      BY <2>3, ShareOf
    <2>8. o.keys = Share(o.agg)
      BY <2>4, <2>5, <2>7 DEF ToldApart, Share, Hour
    <2>. QED
      BY <1>1, <2>2, <2>6, <2>8
  <1>. HIDE DEF U
  <1>6. CountIn(R) = Cardinality(U)
    BY <1>1, <1>2, <1>4, <1>5, CountOfShares
  <1>. QED
    BY <1>6 DEF U

\* An hour that the 1h window holds entirely is complete when the step commits.
LEMMA HourWritten ==
    ASSUME Timely, WholeHours, TypeOK, IInv, Ledger, Provenance, InOrder,
           Partition, HoursOK, failures = 0, NEW c \in Compactors, Write1h(c),
           NEW a \in made, now[c] - Compact1hLookback <= Hour(a.ts),
           Hour(a.ts) + OneHour <= now[c] - Compact1hDelay
    PROVE  Complete(a.series, Hour(a.ts))'
  <1>. DEFINE parsed == {FromMetric(e) : e \in read[c]}
              R == {e \in made : e.series = a.series /\ Hour(e.ts) = Hour(a.ts)}
              U == KeysIn(accepted, a.series, Hour(a.ts), OneHour)
  <1>0. /\ OneHour \in Nat \ {0} /\ Compact1hDelay \in Nat /\ Compact1hLookback \in Nat
        /\ now[c] \in Nat /\ last5m \in Nat
        /\ \A e \in made : EntryOK(e) /\ e.ts \in Int
        /\ \A k \in accepted : k.ts \in Int
    <2>1. \A k \in accepted : k.ts \in Nat
      BY CompactionConstants DEF TypeOK
    <2>. QED
      BY <2>1, CompactionConstants DEF TypeOK, EntryOK
  <1>1. \A t \in Int : Hour(t) \in Int /\ Hour(t) <= t /\ t < Hour(t) + OneHour
    BY <1>0, RoundToBounds DEF Hour
  <1>2. pc[c] = "write1h" /\ read[c] \subseteq made /\ IsFiniteSet(read[c])
    BY DEF Write1h, Ledger
  <1>3. ASSUME NEW e \in made, Hour(e.ts) = Hour(a.ts) PROVE e \in read[c]
    <2>1. now[c] - Compact1hLookback <= e.ts /\ e.ts < now[c] - Compact1hDelay
      <3>1. /\ Hour(a.ts) \in Int /\ Hour(a.ts) <= e.ts /\ e.ts < Hour(a.ts) + OneHour
            /\ e.ts \in Int
        BY <1>0, <1>1, <1>3
      <3>. QED
        BY <1>0, <3>1
    <2>. QED
      BY <1>2, <2>1 DEF HoursOK
  <1>4. R = {e \in read[c] : e.series = a.series /\ Hour(e.ts) = Hour(a.ts)} /\ a \in read[c]
    BY <1>2, <1>3
  <1>5. \A e \in read[c] : EntryOK(e) /\ e.stats.count \in Nat
    <2>1. ASSUME NEW e \in made PROVE e.stats.count \in Nat
      <3>1. PICK keys \in SUBSET folded : Traced(e, keys)
        BY DEF Provenance
      <3>2. IsFiniteSet(keys) /\ e.stats.count = Cardinality(keys)
        BY <3>1, TracedCount
      <3>. QED
        BY <3>2, FS_CardinalityType
    <2>. QED
      BY <1>0, <1>2, <2>1
  <1>6. IsFiniteSet(R)
    BY <1>2, <1>4, FS_Subset
  <1>7. PICK h \in Aggregates(parsed, Resolution1h, OneHour) :
            /\ h.series = UserSeries[a.series] /\ h.ts = Hour(a.ts)
            /\ h.res = Resolution1h
            /\ h.stats.count = CountIn(R)
    <2>1. \A x : x \in parsed <=> \E e \in read[c] : x = FromMetric(e)
      OBVIOUS
    <2>2. \A e : e \in R <=> e \in read[c] /\ e.series = a.series /\ Hour(e.ts) = Hour(a.ts)
      BY <1>4
    <2>3. a \in read[c] /\ IsFiniteSet(read[c])
      BY <1>2, <1>4
    <2>. HIDE DEF R, parsed
    <2>. QED
      BY <1>5, <2>1, <2>2, <2>3, HourMerge
  <1>8. U \subseteq folded
    <2>. SUFFICES ASSUME NEW k \in U PROVE k \in folded
      OBVIOUS
    <2>1. k \in accepted /\ Hour(k.ts) = Hour(a.ts) /\ k.ts \in Int
      BY <1>0 DEF KeysIn, Hour
    <2>2. k.ts < now[c] - Compact1hDelay
      <3>1. Hour(a.ts) \in Int /\ k.ts < Hour(a.ts) + OneHour
        BY <1>0, <1>1, <2>1
      <3>. QED
        BY <1>0, <2>1, <3>1
    <2>3. now[c] <= last5m
      BY <1>2 DEF InOrder
    <2>4. Compact5mDelay \in Nat /\ Compact5mDelay <= Compact1hDelay
      BY CompactionConstants DEF Timely
    <2>5. k.ts < last5m - Compact5mDelay
      BY <1>0, <2>1, <2>2, <2>3, <2>4
    <2>. QED
      BY <2>1, <2>5 DEF IInv, SamplesOK
  <1>9. SUFFICES ASSUME ToldApart(a.series, Hour(a.ts), OneHour)
                 PROVE  \E x \in Stored(Resolution1h, UserSeries[a.series], Hour(a.ts))' :
                            x.stats.count
                                = Cardinality(KeysIn(accepted, a.series, Hour(a.ts), OneHour)')
    <2>1. origins' = origins
      BY DEF Write1h
    <2>2. Hour(a.ts)' = Hour(a.ts)
      BY DEF Hour
    <2>. QED
      BY <2>1, <2>2 DEF Complete, ToldApart
  <1>10. CountIn(R) = Cardinality(U)
    <2>1. PICK S : S = R
      OBVIOUS
    <2>2. IsFiniteSet(S) /\ S = {e \in made : e.series = a.series /\ Hour(e.ts) = Hour(a.ts)}
      BY <1>6, <2>1
    <2>3. PICK hour : hour = Hour(a.ts)
      OBVIOUS
    <2>4. S = {e \in made : e.series = a.series /\ Hour(e.ts) = hour}
      BY <2>2, <2>3
    <2>5. KeysIn(accepted, a.series, hour, OneHour) \subseteq folded
      BY <1>8, <2>3
    <2>6. CountIn(S) = Cardinality(KeysIn(accepted, a.series, hour, OneHour))
      BY <1>9, <2>2, <2>3, <2>4, <2>5, HourShares
    <2>. QED
      BY <2>1, <2>3, <2>6
  <1>11. h \in Stored(Resolution1h, UserSeries[a.series], Hour(a.ts))'
    <2>1. h \in db'
      BY <1>7, Write1hTiers
    <2>. QED
      BY <1>7, <2>1 DEF Stored
  <1>12. accepted' = accepted
    BY DEF Write1h
  <1>. HIDE DEF R
  <1>13. h.stats.count = Cardinality(KeysIn(accepted, a.series, Hour(a.ts), OneHour)')
    BY <1>7, <1>10, <1>12 DEF KeysIn
  <1>. QED
    BY <1>11, <1>13

\* No run is complete and nothing is made yet.
LEMMA HoursInit == Init => HoursOK
  BY DEF Init, HoursOK

\* A complete hour stays complete: its samples are all in, and nothing deletes
\* from the 1h tier.
LEMMA CompleteKept ==
    ASSUME NEW s, NEW hour, Complete(s, hour),
           \A x, y : Stored(Resolution1h, x, y) \subseteq Stored(Resolution1h, x, y)',
           KeysIn(accepted', s, hour, OneHour) = KeysIn(accepted, s, hour, OneHour),
           origins \subseteq origins'
    PROVE  Complete(s, hour)'
  <1>0. SUFFICES ASSUME ToldApart(s, hour, OneHour)
                 PROVE  \E h \in Stored(Resolution1h, UserSeries[s], hour)' :
                            h.stats.count = Cardinality(KeysIn(accepted, s, hour, OneHour)')
    BY DEF Complete, ToldApart
  <1>1. PICK h \in Stored(Resolution1h, UserSeries[s], hour) :
            h.stats.count = Cardinality(KeysIn(accepted, s, hour, OneHour))
    BY <1>0 DEF Complete
  <1>2. h \in Stored(Resolution1h, UserSeries[s], hour)'
    OBVIOUS
  <1>3. KeysIn(accepted, s, hour, OneHour)' = KeysIn(accepted, s, hour, OneHour)
    BY DEF KeysIn
  <1>. QED
    BY <1>1, <1>2, <1>3

\* A step that makes no aggregate, starts no 1h write and completes no 1h step
\* keeps it, if it adds no sample to an hour that is behind.
LEMMA HoursKept ==
    ASSUME HoursOK, UNCHANGED <<made, origins, last1h>>, failures' = 0 => failures = 0,
           made \ db' \subseteq made \ db,
           \A x, y : Stored(Resolution1h, x, y) \subseteq Stored(Resolution1h, x, y)',
           \A c \in Compactors : pc'[c] = "write1h" =>
               pc[c] = "write1h" /\ read'[c] = read[c] /\ now'[c] = now[c],
           \A a \in made : Hour(a.ts) + OneHour <= last1h - Compact1hDelay =>
               KeysIn(accepted', a.series, Hour(a.ts), OneHour)
                   = KeysIn(accepted, a.series, Hour(a.ts), OneHour)
    PROVE  HoursOK'
  <1>1. \A a \in made' \ db' : a.ts < last1h' - FiveMinRetention
    BY DEF HoursOK
  <1>2. \A c \in Compactors : pc'[c] = "write1h" =>
            \A a \in made' :
                now'[c] - Compact1hLookback <= a.ts /\ a.ts < now'[c] - Compact1hDelay
                    => a \in read'[c]
    BY DEF HoursOK
  <1>3. ASSUME failures' = 0, NEW a \in made',
               Hour(a.ts) + OneHour <= last1h' - Compact1hDelay
        PROVE  Complete(a.series, Hour(a.ts))'
    <2>1. Complete(a.series, Hour(a.ts))
      BY <1>3 DEF HoursOK
    <2>. QED
      BY <1>3, <2>1, CompleteKept
  <1>4. \A a : Hour(a.ts)' = Hour(a.ts)
    BY DEF Hour
  <1>. QED
    BY <1>1, <1>2, <1>3, <1>4 DEF HoursOK

\* Samples of an hour that is behind are all in: a new one is too young.
LEMMA HourClosed ==
    ASSUME Timely, TypeOK, ClocksOK,
           NEW s \in Series, NEW t \in SampleTimes, NEW v \in ValuesAt[t], Ingest(s, t, v),
           NEW u, NEW hour \in Int, hour + OneHour <= last1h - Compact1hDelay
    PROVE  KeysIn(accepted', u, hour, OneHour) = KeysIn(accepted, u, hour, OneHour)
  <1>1. /\ t \in Nat /\ clock \in Nat /\ last1h \in Nat /\ last1h <= clock
        /\ clock <= t + MaxLateness
        /\ OneHour \in Nat \ {0} /\ Compact1hDelay \in Nat /\ MaxLateness \in Nat
    BY CompactionConstants DEF Ingest, TypeOK, ClocksOK
  <1>2. MaxLateness <= Compact1hDelay
    BY CompactionConstants DEF Timely
  <1>3. RoundTo(t, OneHour) # hour
    <2>1. t < RoundTo(t, OneHour) + OneHour
      BY <1>1, RoundToBounds
    <2>. QED
      BY <1>1, <1>2, <2>1
  <1>4. accepted' = accepted \cup {[series |-> s, ts |-> t]}
    BY DEF Ingest
  <1>. QED
    BY <1>3, <1>4 DEF KeysIn

\* Each step keeps it.  Step 1 makes aggregates of hours that are still open only;
\* step 3 completes every hour that its window holds, which leaves none out.
LEMMA HoursStep ==
    Timely /\ OneAtATime /\ WholeHours /\ TypeOK /\ TypeOK' /\ IInv /\ Ledger
        /\ Provenance /\ InOrder /\ Partition /\ HoursOK /\ [Next]_vars => HoursOK'
  <1>. SUFFICES ASSUME Timely, OneAtATime, WholeHours, TypeOK, TypeOK', IInv,
                       Ledger, Provenance, InOrder, Partition, HoursOK, [Next]_vars
                PROVE  HoursOK'
    OBVIOUS
  <1>0. /\ \A a \in made : a.res = Resolution5m /\ a.ts \in Int
        /\ \A c \in Compactors : now[c] \in Nat
        /\ last1h \in Nat /\ last5m \in Nat /\ clock \in Nat /\ failures \in Nat
        /\ pc \in [Compactors -> Steps]
    BY DEF TypeOK, EntryOK
  <1>a. /\ OneHour \in Nat \ {0} /\ FiveMinutes \in Nat \ {0}
        /\ Compact5mLookback \in Nat /\ Compact1hDelay \in Nat /\ Compact1hLookback \in Nat
        /\ FiveMinRetention \in Nat /\ MaxGap \in Nat /\ MaxRun \in Nat
    BY CompactionConstants
  <1>b. \A t \in Int : Hour(t) \in Int /\ Hour(t) <= t /\ t < Hour(t) + OneHour
    BY <1>a, RoundToBounds DEF Hour
  <1>c. \A a : Hour(a.ts)' = Hour(a.ts)
    BY DEF Hour
  <1>1. ASSUME NEW s \in Series, NEW t \in SampleTimes, NEW v \in ValuesAt[t],
               Ingest(s, t, v)
        PROVE  HoursOK'
    <2>1. /\ FiveMinOnly(db') = FiveMinOnly(db)
          /\ \A x, y : Stored(Resolution1h, x, y)' = Stored(Resolution1h, x, y)
      BY <1>1, IngestTiers
    <2>2. UNCHANGED <<pc, now, read, last1h, failures, made, origins>>
      BY <1>1 DEF Ingest
    <2>3. made \ db' \subseteq made \ db
      BY <1>0, <2>1 DEF FiveMinOnly
    <2>4. ASSUME NEW a \in made, Hour(a.ts) + OneHour <= last1h - Compact1hDelay
          PROVE  KeysIn(accepted', a.series, Hour(a.ts), OneHour)
                     = KeysIn(accepted, a.series, Hour(a.ts), OneHour)
      <3>1. ClocksOK /\ Hour(a.ts) \in Int
        BY <1>0, <1>b DEF IInv
      <3>. QED
        BY <1>1, <2>4, <3>1, HourClosed
    <2>. QED
      BY <2>1, <2>2, <2>3, <2>4, HoursKept
  <1>2. ASSUME UNCHANGED <<accepted, made, origins, last1h>>, failures' = 0 => failures = 0,
               FiveMinOnly(db') = FiveMinOnly(db),
               \A x, y : Stored(Resolution1h, x, y)' = Stored(Resolution1h, x, y),
               \A c \in Compactors : pc'[c] = "write1h" =>
                   pc[c] = "write1h" /\ read'[c] = read[c] /\ now'[c] = now[c]
        PROVE  HoursOK'
    <2>1. made \ db' \subseteq made \ db
      BY <1>0, <1>2 DEF FiveMinOnly
    <2>. QED
      BY <1>2, <2>1, HoursKept
  <1>3. ASSUME UNCHANGED <<db, accepted, made, origins, last1h>>, failures' = 0 => failures = 0,
               \A c \in Compactors : pc'[c] = "write1h" =>
                   pc[c] = "write1h" /\ read'[c] = read[c] /\ now'[c] = now[c]
        PROVE  HoursOK'
    BY <1>2, <1>3 DEF Stored
  <1>4. ASSUME NEW c \in Compactors, Start(c) PROVE HoursOK'
    BY <1>0, <1>3, <1>4 DEF Start, Goto, ghosts, TypeOK
  <1>5. ASSUME NEW c \in Compactors, Query5m(c) PROVE HoursOK'
    BY <1>0, <1>3, <1>5 DEF Query5m, Goto, ghosts, TypeOK
  <1>6. ASSUME NEW c \in Compactors, Fail(c) PROVE HoursOK'
    BY <1>0, <1>3, <1>6 DEF Fail, Goto, ghosts, TypeOK
  <1>7. CASE Tick
    BY <1>3, <1>7 DEF Tick, ghosts
  <1>8. CASE UNCHANGED vars
    BY <1>3, <1>8 DEF vars, ghosts
  <1>9. ASSUME NEW c \in Compactors, DeleteRaw(c) PROVE HoursOK'
    <2>1. /\ FiveMinOnly(db') = FiveMinOnly(db)
          /\ \A x, y : Stored(Resolution1h, x, y)' = Stored(Resolution1h, x, y)
      BY <1>9, DeleteTiers
    <2>2. /\ UNCHANGED <<accepted, made, origins, last1h, now, read, failures>>
          /\ \A d \in Compactors : pc'[d] = "write1h" => pc[d] = "write1h"
      BY <1>0, <1>9 DEF DeleteRaw, Goto, ghosts
    <2>. QED
      BY <1>2, <2>1, <2>2
  <1>10. ASSUME NEW c \in Compactors, Query1h(c) PROVE HoursOK'
    <2>1. /\ pc[c] = "query1h"
          /\ UNCHANGED <<db, now, last1h, failures, accepted, made, origins>>
          /\ read'[c] = FiveMinOnly(Window1h(c))
      BY <1>10 DEF Query1h, ghosts, TypeOK
    <2>2. ASSUME NEW a \in made,
                 now[c] - Compact1hLookback <= a.ts, a.ts < now[c] - Compact1hDelay
          PROVE  a \in FiveMinOnly(Window1h(c))
      <3>1. last1h <= now[c]
        BY <2>1 DEF InOrder
      <3>2. Compact1hLookback <= FiveMinRetention
        BY DEF WholeHours
      <3>3. ~ (a.ts < last1h - FiveMinRetention)
        BY <1>0, <1>a, <2>2, <3>1, <3>2
      <3>4. a \in db
        BY <3>3 DEF HoursOK
      <3>5. a.ts <= now[c] - Compact1hDelay
        BY <1>0, <1>a, <2>2
      <3>. QED
        BY <1>0, <2>2, <3>4, <3>5 DEF FiveMinOnly, Window1h, InRange
    <2>3. \A d \in Compactors : d = c
      BY DEF OneAtATime
    <2>4. \A s, h : Complete(s, h)' <=> Complete(s, h)
      BY <2>1 DEF Complete, ToldApart, Stored, KeysIn
    <2>. QED
      BY <1>c, <2>1, <2>2, <2>3, <2>4 DEF HoursOK
  <1>11. ASSUME NEW c \in Compactors, Write5m(c) PROVE HoursOK'
    <2>. DEFINE aggs == Aggregates(read[c], Resolution5m, FiveMinutes)
    <2>1. /\ db' = db \cup aggs
          /\ \A x, y : Stored(Resolution1h, x, y)' = Stored(Resolution1h, x, y)
      BY <1>11, Write5mTiers
    <2>2. /\ made' = made \cup aggs /\ UNCHANGED <<last1h, now, failures, accepted>>
          /\ pc[c] = "write5m" /\ pc'[c] = "deleteRaw"
          /\ origins \subseteq origins'
      BY <1>0, <1>11 DEF Write5m, Goto
    <2>3. ASSUME NEW a \in aggs, Hour(a.ts) + OneHour <= last1h - Compact1hDelay
          PROVE  FALSE
      <3>1. PICK e \in read[c] :
                a = Entry(e.series, RoundTo(e.ts, FiveMinutes), Resolution5m, a.stats)
        BY AggregatesShape
      <3>2. e.ts \in Int /\ a.ts = RoundTo(e.ts, FiveMinutes)
        BY <3>1 DEF TypeOK, EntryOK, Entry
      <3>3. now[c] - Compact5mLookback <= e.ts /\ last1h <= now[c] /\ now[c] \in Nat
        BY <1>0, <2>2 DEF IInv, SamplesOK, InOrder
      <3>4. a.ts \in Int /\ e.ts < a.ts + FiveMinutes
        BY <1>a, <3>2, RoundToBounds
      <3>5. Hour(a.ts) \in Int /\ a.ts < Hour(a.ts) + OneHour
        BY <1>b, <3>4
      <3>6. Compact5mLookback + FiveMinutes + MaxRun <= Compact1hDelay + 1
        BY DEF Timely
      <3>7. PICK hour \in Int : hour = Hour(a.ts)
        BY <3>5
      <3>. QED
        BY <1>0, <1>a, <2>3, <3>2, <3>3, <3>4, <3>5, <3>6, <3>7
    <2>. HIDE DEF aggs
    <2>4. \A a \in made' \ db' : a \in made \ db
      BY <2>1, <2>2
    <2>5. \A d \in Compactors : pc'[d] # "write1h"
      BY <2>2 DEF OneAtATime
    <2>6. ASSUME failures' = 0, NEW a \in made',
                 Hour(a.ts) + OneHour <= last1h' - Compact1hDelay
          PROVE  Complete(a.series, Hour(a.ts))'
      <3>1. a \in made
        BY <2>2, <2>3, <2>6
      <3>2. Complete(a.series, Hour(a.ts))
        BY <2>2, <2>6, <3>1 DEF HoursOK
      <3>. QED
        BY <2>1, <2>2, <3>2, CompleteKept
    <2>. QED
      BY <1>c, <2>2, <2>4, <2>5, <2>6 DEF HoursOK
  <1>12. ASSUME NEW c \in Compactors, Write1h(c) PROVE HoursOK'
    <2>1. /\ FiveMinOnly(db') = FiveMinOnly(db)
          /\ \A x, y : Stored(Resolution1h, x, y) \subseteq Stored(Resolution1h, x, y)'
      BY <1>12, Write1hTiers
    <2>2. /\ pc[c] = "write1h" /\ pc'[c] = "delete5m"
          /\ last1h' = Later(last1h, now[c])
          /\ UNCHANGED <<made, origins, now, failures, accepted>>
      BY <1>0, <1>12 DEF Write1h, Goto
    <2>3. last1h <= now[c] /\ now[c] <= last1h + MaxGap
      BY <2>2 DEF InOrder, IInv, ClocksOK
    <2>4. last1h' = now[c]
      BY <1>0, <2>2, <2>3 DEF Later
    <2>5. made \ db' \subseteq made \ db
      BY <1>0, <2>1 DEF FiveMinOnly
    <2>6. \A a \in made' \ db' : a.ts < last1h' - FiveMinRetention
      <3>. SUFFICES ASSUME NEW a \in made' \ db' PROVE a.ts < now[c] - FiveMinRetention
        BY <2>4
      <3>1. a.ts < last1h - FiveMinRetention /\ a.ts \in Int
        BY <1>0, <2>2, <2>5 DEF HoursOK
      <3>. QED
        BY <1>0, <1>a, <2>3, <3>1
    <2>7. \A d \in Compactors : pc'[d] # "write1h"
      BY <2>2 DEF OneAtATime
    <2>8. ASSUME failures = 0, NEW a \in made,
                 Hour(a.ts) + OneHour <= now[c] - Compact1hDelay
          PROVE  Complete(a.series, Hour(a.ts))'
      <3>1. CASE Hour(a.ts) + OneHour <= last1h - Compact1hDelay
        <4>1. Complete(a.series, Hour(a.ts))
          BY <2>8, <3>1 DEF HoursOK
        <4>. QED
          BY <2>1, <2>2, <4>1, CompleteKept
      <3>2. CASE ~ (Hour(a.ts) + OneHour <= last1h - Compact1hDelay)
        <4>1. MaxGap + Compact1hDelay + OneHour <= Compact1hLookback
          BY DEF WholeHours
        <4>2. PICK hour \in Int : hour = Hour(a.ts)
          BY <1>0, <1>b
        <4>3. now[c] - Compact1hLookback <= hour
          BY <1>0, <1>a, <2>3, <3>2, <4>1, <4>2
        <4>. QED
          BY <1>12, <2>8, <4>2, <4>3, HourWritten
      <3>. QED
        BY <3>1, <3>2
    <2>. QED
      BY <1>c, <2>2, <2>4, <2>6, <2>7, <2>8 DEF HoursOK
  <1>13. ASSUME NEW c \in Compactors, Delete5m(c) PROVE HoursOK'
    <2>1. /\ FiveMinOnly(db') = {e \in FiveMinOnly(db) : ~ (e.ts < FiveMinCutoff(c))}
          /\ \A x, y : Stored(Resolution1h, x, y)' = Stored(Resolution1h, x, y)
      BY <1>13, DeleteTiers
    <2>2. /\ pc[c] = "delete5m"
          /\ UNCHANGED <<made, origins, now, failures, accepted, last1h>>
          /\ \A d \in Compactors : pc'[d] # "write1h"
      BY <1>0, <1>13 DEF Delete5m, Goto, ghosts, OneAtATime
    <2>3. now[c] <= last1h
      BY <2>2 DEF IInv, AggregatesOK
    <2>4. ASSUME NEW a \in made \ db' PROVE a.ts < last1h - FiveMinRetention
      <3>1. CASE a \notin db
        BY <3>1 DEF HoursOK
      <3>2. CASE a \in db
        <4>1. a.ts < FiveMinCutoff(c) /\ a.ts \in Int
          BY <1>0, <2>1, <2>4, <3>2 DEF FiveMinOnly
        <4>. QED
          BY <1>0, <1>a, <2>3, <4>1 DEF FiveMinCutoff
      <3>. QED
        BY <3>1, <3>2
    <2>5. ASSUME failures = 0, NEW a \in made,
                 Hour(a.ts) + OneHour <= last1h - Compact1hDelay
          PROVE  Complete(a.series, Hour(a.ts))'
      <3>1. Complete(a.series, Hour(a.ts))
        BY <2>5 DEF HoursOK
      <3>. QED
        BY <2>1, <2>2, <3>1, CompleteKept
    <2>. QED
      BY <1>c, <2>2, <2>4, <2>5 DEF HoursOK
  <1>. QED
    BY <1>1, <1>4, <1>5, <1>6, <1>7, <1>8, <1>9, <1>10, <1>11, <1>12, <1>13 DEF Next, Run

\* What Delete5m removes has been merged into a 1h aggregate that counts every
\* sample of its hour, unless two different sets of its samples had equal
\* statistics: for any values, with one compactor, windows that do not end on a
\* sample, hours that a window never cuts off and no failed run.
THEOREM HoursAreComplete ==
    Timely /\ OneAtATime /\ CleanCuts /\ WholeHours => (Spec => []HourIsComplete)
  <1>. SUFFICES ASSUME Timely, OneAtATime, CleanCuts, WholeHours
                PROVE  Spec => []HourIsComplete
    OBVIOUS
  <1>1. TypeOK /\ TypeOK' /\ IInv /\ Ledger /\ Provenance /\ InOrder /\ Partition /\ HoursOK
            /\ [Next]_vars => HoursOK'
    BY HoursStep
  <1>2. TypeOK /\ HoursOK => HourIsComplete
    <2>. SUFFICES ASSUME TypeOK, HoursOK, failures = 0, NEW a \in made \ db
                  PROVE  Complete(a.series, Hour(a.ts))
      BY DEF HourIsComplete, Complete, Hour
    <2>1. a.ts \in Int /\ last1h \in Nat
      BY DEF TypeOK, EntryOK
    <2>2. /\ OneHour \in Nat \ {0} /\ FiveMinRetention \in Nat /\ Compact1hDelay \in Nat
          /\ Compact1hLookback \in Nat /\ MaxGap \in Nat
          /\ Compact1hDelay + OneHour <= FiveMinRetention
      BY CompactionConstants DEF WholeHours
    <2>3. PICK hour \in Int : hour = Hour(a.ts) /\ hour <= a.ts
      BY <2>1, <2>2, RoundToBounds DEF Hour
    <2>4. a.ts < last1h - FiveMinRetention
      BY DEF HoursOK
    <2>5. hour + OneHour <= last1h - Compact1hDelay
      BY <2>1, <2>2, <2>3, <2>4
    <2>. QED
      BY <2>3, <2>5 DEF HoursOK
  <1>3. Init => HoursOK
    BY HoursInit
  <1>. QED
    BY <1>1, <1>2, <1>3, OneCompactor, CountsInductive, PTL DEF Spec

-----------------------------------------------------------------------------
(***************************************************************************)
(* Settled history.  Here runs may fail and windows may end on a sample:   *)
(* a sample whose deletion failed is read again, but in one window with    *)
(* all that is left of its bucket, and the aggregate of that is there      *)
(* already.                                                                *)
(***************************************************************************)
\* The 5m aggregate a window that holds these samples stores for a bucket.
Merged(entries, s, t) ==
    Entry(s, t, Resolution5m, Merge(InBucket(entries, s, t, FiveMinutes)))

Settled(t) == t + FiveMinutes <= last5m - Compact5mDelay

\* Step 2 has been completed as often as step 3.
RawIsRecent ==
    /\ \A e \in RawOnly(db) : last1h - RawDataRetention <= e.ts
    /\ \A c \in Compactors : pc[c] \in {"query1h", "write1h", "delete5m"} =>
            \A e \in RawOnly(db) : now[c] - RawDataRetention <= e.ts

\* What was read is what is there, up to the end of the window.
ReadIsCurrent ==
    \A c \in Compactors : pc[c] = "write5m" =>
        \A e \in RawOnly(db) \cup read[c] : e.ts < now[c] - Compact5mDelay =>
            e \in read[c] /\ e \in RawOnly(db)

\* What is left of a settled bucket has its aggregate.
SettledIsMerged ==
    \A e \in RawOnly(db) :
        Settled(RoundTo(e.ts, FiveMinutes)) =>
            Merged(RawOnly(db), e.series, RoundTo(e.ts, FiveMinutes)) \in db

UpToDate == RawIsRecent /\ ReadIsCurrent /\ SettledIsMerged

\* What the constants say of the windows, by name.
LEMMA Distances ==
    ASSUME Timely, RawDataRetention <= Compact5mDelay
    PROVE  /\ MaxLateness \in Nat /\ Compact5mDelay \in Nat /\ RawDataRetention \in Nat
           /\ Compact5mLookback \in Nat /\ FiveMinRetention \in Nat /\ MaxGap \in Nat
           /\ FiveMinutes \in Nat \ {0}
           /\ MaxLateness <= Compact5mDelay
           /\ RawDataRetention = Compact5mDelay
           /\ MaxGap + RawDataRetention <= Compact5mLookback
           /\ RawDataRetention + FiveMinutes < FiveMinRetention + 1
  BY CompactionConstants DEF Timely

\* Nothing is stored yet.
LEMMA UpToDateInit == Init => UpToDate
  BY DEF Init, UpToDate, RawIsRecent, ReadIsCurrent, SettledIsMerged, RawOnly

\* A sample lies in its bucket.
LEMMA SampleBucket ==
    ASSUME TypeOK, NEW e \in RawOnly(db)
    PROVE  /\ e.ts \in Int /\ RoundTo(e.ts, FiveMinutes) \in Int
           /\ RoundTo(e.ts, FiveMinutes) <= e.ts
           /\ e.ts < RoundTo(e.ts, FiveMinutes) + FiveMinutes
  <1>1. e.ts \in Int /\ FiveMinutes \in Nat \ {0}
    BY CompactionConstants DEF TypeOK, EntryOK, RawOnly
  <1>. QED
    BY <1>1, RoundToBounds

\* Samples arrive after the end of every completed or open window, so ingestion
\* leaves settled buckets alone.
LEMMA UpToDateIngest ==
    ASSUME Timely, RawDataRetention <= Compact5mDelay, TypeOK, ClocksOK, UpToDate,
           NEW s \in Series, NEW t \in SampleTimes, NEW v \in ValuesAt[t], Ingest(s, t, v)
    PROVE  UpToDate'
  <1>. DEFINE new == RawEntry(s, t, v)
              key == [series |-> s, ts |-> t]
  <1>1. /\ RawOnly(db') = {e \in RawOnly(db) : KeyOf(e) # key} \cup {new}
        /\ FiveMinOnly(db') = FiveMinOnly(db)
        /\ KeyOf(new) = key
    BY IngestTiers
  <1>2. /\ clock <= t + MaxLateness
        /\ UNCHANGED <<clock, pc, now, read, last5m, last1h>>
        /\ t \in Int /\ clock \in Nat /\ last5m \in Nat /\ last1h \in Nat
        /\ last5m <= clock /\ last1h <= clock
        /\ now \in [Compactors -> Nat]
        /\ \A c \in Compactors : pc[c] # "idle" => now[c] <= clock
    BY CompactionConstants DEF Ingest, TypeOK, ClocksOK
  <1>3. new.ts = t /\ new.series = s
    BY DEF RawEntry, Entry
  <1>4. /\ last5m - Compact5mDelay <= t /\ last1h - RawDataRetention <= t
        /\ \A c \in Compactors : pc[c] # "idle" => now[c] - Compact5mDelay <= t
    BY <1>2, Distances
  <1>5. \A e : KeyOf(e) = key => e.ts = t
    BY DEF KeyOf
  <1>6. \A e : e.ts \in Int /\ e.ts < t => (e \in RawOnly(db') <=> e \in RawOnly(db))
    BY <1>1, <1>2, <1>3, <1>5
  <1>7. RawIsRecent'
    BY <1>1, <1>2, <1>3, <1>4, Distances DEF UpToDate, RawIsRecent
  <1>8. ReadIsCurrent'
    <2>. SUFFICES ASSUME NEW c \in Compactors, pc[c] = "write5m",
                         NEW e \in RawOnly(db') \cup read[c], e.ts < now[c] - Compact5mDelay
                  PROVE  e \in read[c] /\ e \in RawOnly(db')
      BY <1>2 DEF ReadIsCurrent
    <2>1. now[c] \in Nat /\ now[c] - Compact5mDelay <= t /\ Compact5mDelay \in Nat
      BY <1>2, <1>4, Distances
    <2>2. e.ts \in Int
      BY <1>1, <1>2, <1>3 DEF TypeOK, EntryOK, RawOnly
    <2>3. e.ts < t
      BY <1>2, <2>1, <2>2
    <2>. QED
      BY <1>6, <2>2, <2>3 DEF UpToDate, ReadIsCurrent
  <1>9. SettledIsMerged'
    <2>. SUFFICES ASSUME NEW e \in RawOnly(db'),
                         Settled(RoundTo(e.ts, FiveMinutes))
                  PROVE  Merged(RawOnly(db'), e.series, RoundTo(e.ts, FiveMinutes)) \in db'
      BY <1>2 DEF SettledIsMerged, Settled
    <2>. DEFINE b == RoundTo(e.ts, FiveMinutes)
    <2>1. FiveMinutes \in Nat \ {0} /\ Compact5mDelay \in Nat /\ e.ts \in Int
      BY <1>1, <1>2, <1>3, Distances DEF TypeOK, EntryOK, RawOnly
    <2>2. b \in Int /\ e.ts < b + FiveMinutes /\ b + FiveMinutes <= t
      BY <1>2, <1>4, <2>1, RoundToBounds DEF Settled
    <2>3. e.ts < t
      BY <1>2, <2>1, <2>2
    <2>4. e \in RawOnly(db)
      BY <1>6, <2>1, <2>3
    <2>5. \A f : f \in RawOnly(db) \/ f \in RawOnly(db') => f.ts \in Int
      BY <1>1, <1>2, <1>3 DEF TypeOK, EntryOK, RawOnly
    <2>6. \A f : f.ts \in Int /\ RoundTo(f.ts, FiveMinutes) = b => f.ts < t
      <3>. SUFFICES ASSUME NEW f, f.ts \in Int, RoundTo(f.ts, FiveMinutes) = b PROVE f.ts < t
        OBVIOUS
      <3>1. f.ts < b + FiveMinutes
        BY <2>1, RoundToBounds
      <3>. QED
        BY <1>2, <2>1, <2>2, <3>1
    <2>. HIDE DEF b
    <2>7. InBucket(RawOnly(db'), e.series, b, FiveMinutes)
              = InBucket(RawOnly(db), e.series, b, FiveMinutes)
      BY <1>6, <2>5, <2>6 DEF InBucket
    <2>8. Merged(RawOnly(db), e.series, b) \in db
      BY <2>4 DEF UpToDate, SettledIsMerged, b
    <2>9. Merged(RawOnly(db'), e.series, b) \in FiveMinOnly(db)
      BY <2>7, <2>8 DEF Merged, FiveMinOnly, Entry
    <2>. QED
      BY <1>1, <2>9 DEF b, FiveMinOnly
  <1>. QED
    BY <1>7, <1>8, <1>9 DEF UpToDate

\* A window holds all that is left of a bucket that lies before its end.
LEMMA WholeBucket ==
    ASSUME Timely, RawDataRetention <= Compact5mDelay, TypeOK, ReadIsCurrent,
           NEW c \in Compactors, pc[c] = "write5m",
           NEW s, NEW t \in Int, t + FiveMinutes <= now[c] - Compact5mDelay
    PROVE  InBucket(read[c], s, t, FiveMinutes) = InBucket(RawOnly(db), s, t, FiveMinutes)
  <1>1. FiveMinutes \in Nat \ {0} /\ Compact5mDelay \in Nat /\ now[c] \in Nat
    BY Distances DEF TypeOK
  <1>2. ASSUME NEW e, e \in read[c] \/ e \in RawOnly(db), RoundTo(e.ts, FiveMinutes) = t
        PROVE  e \in read[c] /\ e \in RawOnly(db)
    <2>1. e.ts \in Int
      BY <1>2 DEF TypeOK, EntryOK, RawOnly
    <2>2. e.ts < t + FiveMinutes
      BY <1>1, <1>2, <2>1, RoundToBounds
    <2>3. e.ts < now[c] - Compact5mDelay
      BY <1>1, <2>1, <2>2
    <2>. QED
      BY <1>2, <2>3 DEF ReadIsCurrent
  <1>. QED
    BY <1>2 DEF InBucket

\* So what Compact5m writes for it is the aggregate of all that is left.
LEMMA MergedIsWritten ==
    ASSUME Timely, RawDataRetention <= Compact5mDelay, TypeOK, ReadIsCurrent,
           NEW c \in Compactors, pc[c] = "write5m",
           NEW s, NEW t \in Int, t + FiveMinutes <= now[c] - Compact5mDelay
    PROVE  \A a : a \in Aggregates(read[c], Resolution5m, FiveMinutes)
                      /\ a.series = s /\ a.ts = t
                <=> /\ a = Merged(RawOnly(db), s, t)
                    /\ \E e \in RawOnly(db) : e.series = s /\ RoundTo(e.ts, FiveMinutes) = t
  <1>. DEFINE bucket(entries, x, y) == InBucket(entries, x, y, FiveMinutes)
  <1>1. PICK B : B = bucket(read[c], s, t) /\ B = bucket(RawOnly(db), s, t)
    BY WholeBucket
  <1>2. \A e : e \in B <=> e \in read[c] /\ e.series = s /\ RoundTo(e.ts, FiveMinutes) = t
    BY <1>1 DEF InBucket
  <1>3. \A e : e \in B <=> e \in RawOnly(db) /\ e.series = s /\ RoundTo(e.ts, FiveMinutes) = t
    BY <1>1 DEF InBucket
  <1>4. Merged(RawOnly(db), s, t) = Entry(s, t, Resolution5m, Merge(B))
    BY <1>1 DEF Merged
  <1>5. Entry(s, t, Resolution5m, Merge(B)).series = s /\ Entry(s, t, Resolution5m, Merge(B)).ts = t
    BY DEF Entry
  <1>6. ASSUME NEW a, a \in Aggregates(read[c], Resolution5m, FiveMinutes), a.series = s, a.ts = t
        PROVE  a = Entry(s, t, Resolution5m, Merge(B)) /\ \E e : e \in B
    <2>1. PICK e \in read[c] :
              a = Entry(e.series, RoundTo(e.ts, FiveMinutes), Resolution5m,
                        Merge(bucket(read[c], e.series, RoundTo(e.ts, FiveMinutes))))
      BY <1>6, AggregatesAre
    <2>2. e.series = s /\ RoundTo(e.ts, FiveMinutes) = t
      BY <1>6, <2>1 DEF Entry
    <2>. QED
      BY <1>1, <1>2, <2>1, <2>2
  <1>7. ASSUME NEW e \in B
        PROVE  Entry(s, t, Resolution5m, Merge(B)) \in Aggregates(read[c], Resolution5m, FiveMinutes)
    <2>1. e \in read[c] /\ e.series = s /\ RoundTo(e.ts, FiveMinutes) = t
      BY <1>2
    <2>2. Entry(s, t, Resolution5m, Merge(B))
              = Entry(e.series, RoundTo(e.ts, FiveMinutes), Resolution5m,
                      Merge(InBucket(read[c], e.series, RoundTo(e.ts, FiveMinutes), FiveMinutes)))
      BY <1>1, <2>1
    <2>. QED
      BY <2>1, <2>2, AggregatesAre
  <1>. QED
    BY <1>3, <1>4, <1>5, <1>6, <1>7

\* Every step of the only compactor keeps it: a failed run leaves what it has not
\* deleted to the next one, whose window still reaches back to all of it.
LEMMA UpToDateStep ==
    Timely /\ OneAtATime /\ RawDataRetention <= Compact5mDelay
        /\ TypeOK /\ ClocksOK /\ InOrder /\ UpToDate /\ [Next]_vars => UpToDate'
  <1>. SUFFICES ASSUME Timely, OneAtATime, RawDataRetention <= Compact5mDelay,
                       TypeOK, ClocksOK, InOrder, UpToDate, [Next]_vars
                PROVE  UpToDate'
    OBVIOUS
  <1>0. /\ last5m \in Nat /\ last1h \in Nat
        /\ pc \in [Compactors -> Steps] /\ now \in [Compactors -> Nat]
        /\ \A e \in RawOnly(db) : e.ts \in Int
        /\ RawDataRetention \in Nat /\ Compact5mDelay \in Nat /\ FiveMinutes \in Nat \ {0}
        /\ RawDataRetention = Compact5mDelay
    BY Distances DEF TypeOK, EntryOK, RawOnly
  <1>1. ASSUME UNCHANGED <<now, last5m, last1h>>, RawOnly(db') = RawOnly(db),
               FiveMinOnly(db) \subseteq FiveMinOnly(db'),
               \A c \in Compactors : pc'[c] = "write5m" => pc[c] = "write5m" /\ read'[c] = read[c],
               \A c \in Compactors : pc'[c] \in {"query1h", "write1h", "delete5m"} =>
                   pc[c] \in {"query1h", "write1h", "delete5m"}
        PROVE  UpToDate'
    <2>1. RawIsRecent' /\ ReadIsCurrent'
      BY <1>1 DEF UpToDate, RawIsRecent, ReadIsCurrent
    <2>2. \A x, y, z : Merged(x, y, z) \in db => Merged(x, y, z) \in db'
      BY <1>1 DEF Merged, Entry, FiveMinOnly
    <2>. QED
      BY <1>1, <2>1, <2>2 DEF UpToDate, SettledIsMerged, Settled
  <1>2. ASSUME NEW c \in Compactors, Start(c) \/ Query1h(c) \/ Fail(c) PROVE UpToDate'
    <2>1. /\ UNCHANGED <<db, last5m, last1h>>
          /\ pc'[c] \in {"query5m", "write1h", "idle"}
          /\ pc'[c] = "write1h" => pc[c] = "query1h" /\ now' = now
      BY <1>0, <1>2 DEF Start, Query1h, Fail, Goto
    <2>2. \A d \in Compactors : d = c
      BY DEF OneAtATime
    <2>3. RawIsRecent' /\ ReadIsCurrent'
      BY <2>1, <2>2 DEF UpToDate, RawIsRecent, ReadIsCurrent
    <2>. QED
      BY <2>1, <2>3 DEF UpToDate, SettledIsMerged, Settled
  <1>3. ASSUME NEW c \in Compactors, Query5m(c) PROVE UpToDate'
    <2>1. /\ read'[c] = RawOnly(Window5m(c)) /\ pc[c] = "query5m"
          /\ pc' = [pc EXCEPT ![c] = "write5m"]
          /\ UNCHANGED <<db, now, last5m, last1h>>
      BY <1>3 DEF Query5m, Goto, TypeOK
    <2>2. now[c] <= last1h + MaxGap /\ now[c] \in Nat
      BY <1>0, <2>1 DEF ClocksOK
    <2>3. \A e \in RawOnly(db) : now[c] - Compact5mLookback <= e.ts
      BY <1>0, <2>2, Distances DEF UpToDate, RawIsRecent
    <2>4. \A e \in RawOnly(db) : e.ts < now[c] - Compact5mDelay => e \in read'[c]
      BY <1>0, <2>1, <2>2, <2>3 DEF Window5m, InRange, RawOnly
    <2>5. read'[c] \subseteq RawOnly(db)
      BY <2>1 DEF Window5m, InRange, RawOnly
    <2>6. ReadIsCurrent'
      BY <1>0, <2>1, <2>4, <2>5 DEF ReadIsCurrent, OneAtATime
    <2>. QED
      BY <1>0, <2>1, <2>6 DEF UpToDate, RawIsRecent, SettledIsMerged, Settled
  <1>4. ASSUME NEW c \in Compactors, Write5m(c) PROVE UpToDate'
    <2>1. /\ pc[c] = "write5m" /\ pc' = [pc EXCEPT ![c] = "deleteRaw"]
          /\ last5m' = Later(last5m, now[c]) /\ UNCHANGED <<now, last1h>>
      BY <1>4 DEF Write5m, Goto
    <2>2. last5m <= now[c] /\ now[c] \in Nat
      BY <1>0, <2>1 DEF InOrder
    <2>3. last5m' = now[c]
      BY <1>0, <2>1, <2>2 DEF Later
    <2>4. /\ db' = db \cup Aggregates(read[c], Resolution5m, FiveMinutes)
          /\ RawOnly(db') = RawOnly(db)
      BY <1>4, Write5mTiers
    <2>5. RawIsRecent' /\ ReadIsCurrent'
      BY <1>0, <2>1, <2>4 DEF UpToDate, RawIsRecent, ReadIsCurrent, OneAtATime
    <2>6. ASSUME NEW e \in RawOnly(db),
                 RoundTo(e.ts, FiveMinutes) + FiveMinutes <= now[c] - Compact5mDelay
          PROVE  Merged(RawOnly(db), e.series, RoundTo(e.ts, FiveMinutes)) \in db'
      <3>1. RoundTo(e.ts, FiveMinutes) \in Int
        BY SampleBucket
      <3>. QED
        BY <2>1, <2>4, <2>6, <3>1, MergedIsWritten DEF UpToDate
    <2>7. SettledIsMerged'
      BY <2>3, <2>4, <2>6 DEF SettledIsMerged, Settled
    <2>. QED
      BY <2>5, <2>7 DEF UpToDate
  <1>5. ASSUME NEW c \in Compactors, DeleteRaw(c) PROVE UpToDate'
    <2>1. /\ pc[c] = "deleteRaw" /\ pc' = [pc EXCEPT ![c] = "query1h"]
          /\ UNCHANGED <<now, last5m, last1h>>
      BY <1>5 DEF DeleteRaw, Goto
    <2>2. last5m = now[c] /\ now[c] \in Nat
      BY <1>0, <2>1 DEF InOrder
    <2>3. /\ RawOnly(db') = {e \in RawOnly(db) : ~ (e.ts < now[c] - RawDataRetention)}
          /\ FiveMinOnly(db') = FiveMinOnly(db)
      BY <1>5, DeleteTiers DEF RawCutoff
    <2>4. RawIsRecent'
      BY <1>0, <2>1, <2>2, <2>3 DEF UpToDate, RawIsRecent, OneAtATime
    <2>5. ReadIsCurrent'
      BY <1>0, <2>1, <2>3 DEF ReadIsCurrent, OneAtATime
    <2>6. \A e \in RawOnly(db') : ~ Settled(RoundTo(e.ts, FiveMinutes))
      <3>. SUFFICES ASSUME NEW e \in RawOnly(db'), Settled(RoundTo(e.ts, FiveMinutes))
                    PROVE  FALSE
        OBVIOUS
      <3>1. e \in RawOnly(db) /\ e.ts \in Int /\ ~ (e.ts < now[c] - RawDataRetention)
        BY <1>0, <2>3
      <3>2. /\ RoundTo(e.ts, FiveMinutes) \in Int
            /\ e.ts < RoundTo(e.ts, FiveMinutes) + FiveMinutes
        BY <3>1, SampleBucket
      <3>. QED
        BY <1>0, <2>2, <3>1, <3>2 DEF Settled
    <2>7. SettledIsMerged'
      BY <2>1, <2>6 DEF SettledIsMerged, Settled
    <2>. QED
      BY <2>4, <2>5, <2>7 DEF UpToDate
  <1>6. ASSUME NEW c \in Compactors, Write1h(c) PROVE UpToDate'
    <2>1. /\ pc[c] = "write1h" /\ pc' = [pc EXCEPT ![c] = "delete5m"]
          /\ last1h' = Later(last1h, now[c]) /\ UNCHANGED <<now, last5m>>
      BY <1>6 DEF Write1h, Goto
    <2>2. last1h' = now[c] \/ last1h' = last1h
      BY <2>1 DEF Later
    <2>3. RawOnly(db') = RawOnly(db) /\ db \subseteq db'
      BY <1>6, Write1hTiers
    <2>4. RawIsRecent'
      BY <1>0, <2>1, <2>2, <2>3 DEF UpToDate, RawIsRecent, OneAtATime
    <2>5. ReadIsCurrent'
      BY <1>0, <2>1 DEF ReadIsCurrent, OneAtATime
    <2>6. SettledIsMerged'
      BY <2>1, <2>3 DEF UpToDate, SettledIsMerged, Settled
    <2>. QED
      BY <2>4, <2>5, <2>6 DEF UpToDate
  <1>7. ASSUME NEW c \in Compactors, Delete5m(c) PROVE UpToDate'
    <2>1. /\ pc[c] = "delete5m" /\ pc' = [pc EXCEPT ![c] = "idle"]
          /\ UNCHANGED <<now, last5m, last1h>>
      BY <1>7 DEF Delete5m, Goto
    <2>2. /\ RawOnly(db') = RawOnly(db)
          /\ FiveMinOnly(db') = {e \in FiveMinOnly(db) : ~ (e.ts < now[c] - FiveMinRetention)}
      BY <1>7, DeleteTiers DEF FiveMinCutoff
    <2>3. RawIsRecent' /\ ReadIsCurrent'
      BY <1>0, <2>1, <2>2 DEF UpToDate, RawIsRecent, ReadIsCurrent, OneAtATime
    <2>4. ASSUME NEW e \in RawOnly(db), Settled(RoundTo(e.ts, FiveMinutes))
          PROVE  Merged(RawOnly(db), e.series, RoundTo(e.ts, FiveMinutes)) \in db'
      <3>. DEFINE b == RoundTo(e.ts, FiveMinutes)
                  m == Merged(RawOnly(db), e.series, b)
      <3>1. m \in FiveMinOnly(db) /\ m.ts = b
        BY <2>4 DEF UpToDate, SettledIsMerged, Merged, Entry, FiveMinOnly
      <3>2. now[c] - RawDataRetention <= e.ts /\ now[c] \in Nat
        BY <1>0, <2>1 DEF UpToDate, RawIsRecent
      <3>3. b \in Int /\ e.ts < b + FiveMinutes /\ e.ts \in Int
        BY SampleBucket
      <3>. HIDE DEF b, m
      <3>4. ~ (b < now[c] - FiveMinRetention)
        BY <1>0, <3>2, <3>3, Distances
      <3>5. m \in FiveMinOnly(db')
        BY <2>2, <3>1, <3>4
      <3>. QED
        BY <3>5 DEF b, m, FiveMinOnly
    <2>5. SettledIsMerged'
      BY <2>1, <2>2, <2>4 DEF SettledIsMerged, Settled
    <2>. QED
      BY <2>3, <2>5 DEF UpToDate
  <1>8. ASSUME NEW s \in Series, NEW t \in SampleTimes, NEW v \in ValuesAt[t],
               Ingest(s, t, v)
        PROVE  UpToDate'
    BY <1>8, UpToDateIngest
  <1>9. CASE Tick
    BY <1>1, <1>9 DEF Tick
  <1>10. CASE UNCHANGED vars
    BY <1>1, <1>10 DEF vars
  <1>. QED
    BY <1>2, <1>3, <1>4, <1>5, <1>6, <1>7, <1>8, <1>9, <1>10 DEF Next, Run

\* The aggregates of a settled bucket change only by being deleted together.
LEMMA SettledStep ==
    ASSUME Timely, OneAtATime, RawDataRetention <= Compact5mDelay,
           TypeOK, InOrder, UpToDate, [Next]_vars,
           NEW s, NEW t \in Int, Settled(t)
    PROVE  Stored(Resolution5m, s, t)' \in {Stored(Resolution5m, s, t), {}}
  <1>. DEFINE S == Stored(Resolution5m, s, t)
  <1>0. \A e : e \in S <=> e \in FiveMinOnly(db) /\ e.series = s /\ e.ts = t
    BY DEF Stored, FiveMinOnly
  <1>1. ASSUME FiveMinOnly(db') = FiveMinOnly(db) PROVE S' = S
    BY <1>1 DEF Stored, FiveMinOnly
  <1>2. ASSUME NEW c \in Compactors, Write5m(c) PROVE S' = S
    <2>. DEFINE aggs == Aggregates(read[c], Resolution5m, FiveMinutes)
                m == Merged(RawOnly(db), s, t)
    <2>1. FiveMinOnly(db') = FiveMinOnly(db) \cup aggs
      BY <1>2, Write5mTiers
    <2>2. pc[c] = "write5m" /\ now[c] \in Nat /\ last5m <= now[c] /\ last5m \in Nat
      BY <1>2 DEF Write5m, InOrder, TypeOK
    <2>3. t + FiveMinutes <= now[c] - Compact5mDelay
      BY <2>2, Distances DEF Settled
    <2>4. \A a \in aggs : a.series = s /\ a.ts = t =>
              a = m /\ \E e \in RawOnly(db) : e.series = s /\ RoundTo(e.ts, FiveMinutes) = t
      BY <2>2, <2>3, MergedIsWritten DEF UpToDate
    <2>5. (\E e \in RawOnly(db) : e.series = s /\ RoundTo(e.ts, FiveMinutes) = t) => m \in db
      BY DEF UpToDate, SettledIsMerged
    <2>6. m.res = Resolution5m
      BY DEF Merged, Entry
    <2>7. \A a \in aggs : a.series = s /\ a.ts = t => a \in FiveMinOnly(db)
      BY <2>4, <2>5, <2>6 DEF FiveMinOnly
    <2>. HIDE DEF aggs
    <2>. QED
      BY <2>1, <2>7 DEF Stored, FiveMinOnly
  <1>3. ASSUME NEW c \in Compactors, Delete5m(c) PROVE S' \in {S, {}}
    <2>1. FiveMinOnly(db') = {e \in FiveMinOnly(db) : ~ (e.ts < FiveMinCutoff(c))}
      BY <1>3, DeleteTiers
    <2>2. CASE t < FiveMinCutoff(c)
      BY <2>1, <2>2 DEF Stored, FiveMinOnly
    <2>3. CASE ~ (t < FiveMinCutoff(c))
      BY <2>1, <2>3 DEF Stored, FiveMinOnly
    <2>. QED
      BY <2>2, <2>3
  <1>4. ASSUME NEW c \in Compactors, Start(c) \/ Query5m(c) \/ Query1h(c) \/ Fail(c)
        PROVE  S' = S
    BY <1>1, <1>4 DEF Start, Query5m, Query1h, Fail
  <1>5. ASSUME NEW c \in Compactors, DeleteRaw(c) PROVE S' = S
    BY <1>1, <1>5, DeleteTiers
  <1>6. ASSUME NEW c \in Compactors, Write1h(c) PROVE S' = S
    BY <1>1, <1>6, Write1hTiers
  <1>7. ASSUME NEW x \in Series, NEW y \in SampleTimes, NEW v \in ValuesAt[y], Ingest(x, y, v)
        PROVE  S' = S
    BY <1>1, <1>7, IngestTiers
  <1>8. CASE Tick \/ UNCHANGED vars
    BY <1>1, <1>8 DEF Tick, vars
  <1>. QED
    BY <1>2, <1>3, <1>4, <1>5, <1>6, <1>7, <1>8 DEF Next, Run

\* Once a bucket lies behind the 5m window its aggregates are final, whatever runs
\* fail: with one compactor in a timely system that deletes raw samples no later
\* than it downsamples them.
THEOREM HistorySettles ==
    Timely /\ OneAtATime /\ RawDataRetention <= Compact5mDelay => (Spec => SettledHistory)
  <1>. SUFFICES ASSUME Timely, OneAtATime, RawDataRetention <= Compact5mDelay
                PROVE  Spec => SettledHistory
    OBVIOUS
  <1>1. Init => InOrder /\ UpToDate
    BY InOrderInit, UpToDateInit
  <1>2. TypeOK /\ IInv /\ InOrder /\ UpToDate /\ [Next]_vars => InOrder' /\ UpToDate'
    BY InOrderStep, UpToDateStep DEF IInv
  <1>3. ASSUME TypeOK, InOrder, UpToDate, [Next]_vars, NEW b \in Buckets,
               b[2] + FiveMinutes <= last5m - Compact5mDelay
        PROVE  Stored(Resolution5m, b[1], b[2])' \in {Stored(Resolution5m, b[1], b[2]), {}}
    <2>1. \A k \in accepted : k.ts \in SampleTimes
      BY <1>3 DEF TypeOK
    <2>2. PICK t \in SampleTimes : b[2] = RoundTo(t, FiveMinutes)
      BY <2>1 DEF Buckets
    <2>3. t \in Int /\ FiveMinutes \in Nat \ {0}
      BY CompactionConstants
    <2>4. b[2] \in Int
      BY <2>2, <2>3, RoundToBounds
    <2>. QED
      BY <1>3, <2>4, SettledStep DEF Settled
  <1>4. TypeOK /\ InOrder /\ UpToDate /\ [Next]_vars
            => [\A b \in Buckets :
                    b[2] + FiveMinutes <= last5m - Compact5mDelay =>
                        Stored(Resolution5m, b[1], b[2])' \in
                            {Stored(Resolution5m, b[1], b[2]), {}}]_vars
    BY <1>3
  <1>. QED
    BY <1>1, <1>2, <1>4, TypeCorrect, Inductive, PTL DEF Spec, SettledHistory
=============================================================================
